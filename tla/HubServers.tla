----------------------------- MODULE HubServers -----------------------------
(***************************************************************************)
(* The two server threads of a hub at the same time: the dnode request      *)
(* server (src/hub/dnode_req_server.cpp) and the hub-to-hub request server  *)
(* (src/hub/hub_req_server.cpp).  They use the same maps and take no lock.  *)
(*                                                                          *)
(* Each operation on a map, on a list in it or on a record it points to has *)
(* a beginning and an end.  Two that overlap and of which one writes are a  *)
(* data race: the library's maps give no guarantee then, and anything may   *)
(* follow.  Between its operations a handler sees what the other thread     *)
(* left there, which is what the properties are about.                      *)
(*                                                                          *)
(* HubRegistry has the dnode requests in detail, one at a time; here they   *)
(* are split into their operations on the maps that both threads use.  What *)
(* only the dnode request server uses, metadata and names, is the set of    *)
(* contents that were uploaded.  No hub of the repository sends requests to *)
(* another one: they may come at any time.                                  *)
(***************************************************************************)
EXTENDS Naturals, Sequences, SequencesExt

CONSTANTS
    Uids, Hashes, Hubs,
    Zero,           \* the hash 0, which a name that is not known gives
    Nil,            \* no uid, no hash
    MaxDnodeReqs,   \* bound: requests of dnodes
    MaxHubReqs      \* bound: requests of hubs

ASSUME ServersAssumption ==
    /\ Nil \notin Uids \cup Hashes \cup {Zero}
    /\ Zero \notin Hashes
    /\ MaxDnodeReqs \in Nat /\ MaxHubReqs \in Nat

Keys == Hashes \cup {Zero}

Threads == {"dnode_req", "hub_req"}
Other(t) == CHOOSE o \in Threads : o # t

VARIABLES
    up,         \* the hub's process runs
    hashes,     \* the keys of fhash_map
    sources,    \* its lists
    dnodes,     \* the keys of dnodes_map that point to a record
    uploaded,   \* the hashes with metadata, each of which has a name
    peers,      \* the keys of peer_hubs_map
    task,       \* what each thread is doing
    busy,       \* the threads that are within an operation on a map
    raced,      \* history: two operations conflicted
    overrun,    \* history: an answer was written past the end of its memory
    known,      \* history: the uids that joined or said hello
    strangers,  \* history: sources that did neither before they uploaded
    unknown,    \* history: a name that nobody uploaded was asked for
    left,       \* history: a client left before its answer was sent
    dnodeReqs, hubReqs

maps == <<hashes, sources, dnodes, uploaded, peers>>
bounds == <<dnodeReqs, hubReqs>>
clients == <<known, strangers, unknown>>
history == <<raced, overrun, clients, left>>
vars == <<up, maps, task, busy, history, bounds>>

-----------------------------------------------------------------------------
(* Tasks: "step" is the next operation of the handler *)

Task(step, u, h) == [step |-> step, uid |-> u, hash |-> h, ids |-> <<>>, next |-> 0]
Waiting == Task("wait", Nil, Nil)
Goto(t, step) == task' = [task EXCEPT ![t].step = step]
Finish(t) == task' = [task EXCEPT ![t] = Waiting]

Init ==
    /\ up = TRUE
    /\ hashes = {} /\ sources = [h \in Keys |-> <<>>]
    /\ dnodes = {} /\ uploaded = {} /\ peers = {}
    /\ task = [t \in Threads |-> Waiting]
    /\ busy = {}
    /\ raced = FALSE /\ overrun = FALSE
    /\ known = {} /\ strangers = {} /\ unknown = FALSE /\ left = FALSE
    /\ dnodeReqs = 0 /\ hubReqs = 0

Accept(t, new) ==
    /\ up
    /\ task[t].step = "wait"
    /\ task' = [task EXCEPT ![t] = new]
    /\ UNCHANGED <<up, hashes, sources, dnodes, busy, raced, overrun, left>>

AcceptDnode(new) ==
    /\ Accept("dnode_req", new)
    /\ dnodeReqs < MaxDnodeReqs
    /\ dnodeReqs' = dnodeReqs + 1
    /\ UNCHANGED <<peers, hubReqs>>

AcceptHub(new) ==
    /\ Accept("hub_req", new)
    /\ hubReqs < MaxHubReqs
    /\ hubReqs' = hubReqs + 1
    /\ UNCHANGED <<clients, uploaded, dnodeReqs>>

\* The uid of a join is given by the hub, and need not be new.
Join(u) ==
    /\ AcceptDnode(Task("register", u, Nil))
    /\ known' = known \cup {u}
    /\ UNCHANGED <<strangers, unknown, uploaded>>

Hello(u) ==
    /\ AcceptDnode(Task("findDnode", u, Nil))
    /\ known' = known \cup {u}
    /\ UNCHANGED <<strangers, unknown, uploaded>>

Source(u, h) ==
    /\ AcceptDnode(Task("find", u, h))
    /\ strangers' = IF u \in known THEN strangers ELSE strangers \cup {u}
    /\ UNCHANGED <<known, unknown>>

Upload(u, h) == Source(u, h) /\ uploaded' = uploaded \cup {h}

Acknowledge(u, h) == Source(u, h) /\ UNCHANGED uploaded

\* A download of a name that stands for h, or of one that nobody uploaded.
Download(h) ==
    /\ h \in uploaded \cup {Zero}
    /\ AcceptDnode(Task("copy", Nil, h))
    /\ unknown' = (unknown \/ h = Zero)
    /\ UNCHANGED <<known, strangers, uploaded>>

Query(h) == AcceptHub(Task("copy", Nil, h)) /\ UNCHANGED peers

\* Only this thread uses peer_hubs_map.
HubJoin(p) == AcceptHub(Waiting) /\ peers' = peers \cup {p}

-----------------------------------------------------------------------------
(* Operations and what they read and write *)

HashTree == <<"fhash_map">>
DnodeTree == <<"dnodes_map">>
List(h) == <<"list", h>>
Record(u) == <<"record", u>>

\* The source whose address a lookup is at.
Current(k) == k.ids[k.next]

\* operator[] inserts what is not there.
Writes(k) ==
    CASE k.step = "insert" -> {HashTree, List(k.hash)}
      [] k.step = "push" -> {List(k.hash)}
      [] k.step = "register" -> {DnodeTree, Record(k.uid)}
      [] k.step = "update" -> {Record(k.uid)}
      [] k.step = "copy" /\ k.hash \notin hashes -> {HashTree}
      [] k.step = "address" /\ Current(k) \notin dnodes -> {DnodeTree}
      [] OTHER -> {}

Reads(k) ==
    CASE k.step \in {"find", "push"} -> {HashTree}
      [] k.step \in {"findDnode", "update"} -> {DnodeTree}
      [] k.step = "copy" -> {HashTree, List(k.hash)}
      [] k.step = "address" -> {DnodeTree, Record(Current(k))}
      [] OTHER -> {}

Conflict(k, l) ==
    \/ Writes(k) \cap (Reads(l) \cup Writes(l)) # {}
    \/ Writes(l) \cap Reads(k) # {}

Begin(t) ==
    /\ up
    /\ t \notin busy
    /\ task[t].step \notin {"wait", "head", "body"}
    /\ busy' = busy \cup {t}
    /\ raced' = (raced \/ (Other(t) \in busy /\ Conflict(task[t], task[Other(t)])))
    /\ UNCHANGED <<up, maps, task, overrun, clients, left, bounds>>

End(t, step) ==
    /\ up
    /\ t \in busy
    /\ task[t].step = step
    /\ busy' = busy \ {t}
    /\ UNCHANGED <<uploaded, peers, raced, clients, left, bounds>>

-----------------------------------------------------------------------------
(* Hello: an entry that exists is changed in place *)

FindDnode(t) ==
    /\ End(t, "findDnode")
    /\ Goto(t, IF task[t].uid \in dnodes THEN "update" ELSE "register")
    /\ UNCHANGED <<up, hashes, sources, dnodes, overrun>>

Update(t) ==
    /\ End(t, "update")
    /\ Finish(t)
    /\ UNCHANGED <<up, hashes, sources, dnodes, overrun>>

\* Mutant: the record is filled in and not saved.
RegisterNotSaved(t) ==
    /\ End(t, "register")
    /\ Finish(t)
    /\ UNCHANGED <<up, hashes, sources, dnodes, overrun>>

Register(t) ==
    /\ End(t, "register")
    /\ dnodes' = dnodes \cup {task[t].uid}
    /\ Finish(t)
    /\ UNCHANGED <<up, hashes, sources, overrun>>

(* Upload and acknowledgement *)

\* Mutant: an empty list is assigned whether there is one or not.
FindNothing(t) ==
    /\ End(t, "find")
    /\ Goto(t, "insert")
    /\ UNCHANGED <<up, hashes, sources, dnodes, overrun>>

Find(t) ==
    /\ End(t, "find")
    /\ Goto(t, IF task[t].hash \in hashes THEN "push" ELSE "insert")
    /\ UNCHANGED <<up, hashes, sources, dnodes, overrun>>

\* An empty list is assigned, whatever the other thread put there meanwhile.
Insert(t) ==
    /\ End(t, "insert")
    /\ hashes' = hashes \cup {task[t].hash}
    /\ sources' = [sources EXCEPT ![task[t].hash] = <<>>]
    /\ Goto(t, "push")
    /\ UNCHANGED <<up, dnodes, overrun>>

Push(t) ==
    /\ End(t, "push")
    /\ sources' = [sources EXCEPT ![task[t].hash] = Append(@, task[t].uid)]
    /\ Finish(t)
    /\ UNCHANGED <<up, hashes, dnodes, overrun>>

(* Download and query: copy the list, then look up every source *)

Answer(k) == [k EXCEPT !.step = "head"]

Copy(t) ==
    /\ End(t, "copy")
    /\ hashes' = hashes \cup {task[t].hash}
    /\ LET ids == sources[task[t].hash]
       IN task' = [task EXCEPT ![t] = IF ids = <<>> THEN Answer(@)
                                      ELSE [@ EXCEPT !.ids = ids, !.next = 1, !.step = "address"]]
    /\ UNCHANGED <<up, sources, dnodes, overrun>>

\* A query takes memory for entries without uids (20 bytes) and fills it with
\* entries that have one (32 bytes); a download does so with the shorter ones.
Overruns(t) ==
    /\ t = "hub_req"
    /\ 32 * task[t].next > 20 * Len(task[t].ids)

Advanced(k) == [k EXCEPT !.next = @ + 1]

\* Mutant: the loop goes one past the last source.
AddressOnePast(t) ==
    /\ End(t, "address")
    /\ Current(task[t]) \in dnodes
    /\ task' = [task EXCEPT ![t] = IF @.next > Len(@.ids) THEN Answer(@) ELSE Advanced(@)]
    /\ overrun' = (overrun \/ Overruns(t))
    /\ UNCHANGED <<up, hashes, sources, dnodes>>

Address(t) ==
    /\ End(t, "address")
    /\ Current(task[t]) \in dnodes
    /\ task' = [task EXCEPT ![t] = IF @.next = Len(@.ids) THEN Answer(@) ELSE Advanced(@)]
    /\ overrun' = (overrun \/ Overruns(t))
    /\ UNCHANGED <<up, hashes, sources, dnodes>>

\* No record for the source: the null pointer is dereferenced.
AddressNull(t) ==
    /\ End(t, "address")
    /\ Current(task[t]) \notin dnodes
    /\ up' = FALSE
    /\ UNCHANGED <<task, hashes, sources, dnodes, overrun>>

-----------------------------------------------------------------------------
(* The answer.  That to a join or a hello is one send, which harms nobody. *)

Sending(t, step) ==
    /\ up
    /\ task[t].step = step
    /\ UNCHANGED <<maps, busy, raced, overrun, clients, bounds>>

\* A query without sources is answered with the header only.
SendHead(t) ==
    /\ Sending(t, "head")
    /\ t = "dnode_req" => task[t].hash \in uploaded
    /\ IF t = "hub_req" /\ task[t].ids = <<>> THEN Finish(t)
       ELSE Goto(t, "body")
    /\ UNCHANGED <<up, left>>

\* The header of a download is filled from metadata that are not there.
HeadNull(t) ==
    /\ Sending(t, "head")
    /\ t = "dnode_req" /\ task[t].hash \notin uploaded
    /\ up' = FALSE
    /\ UNCHANGED <<task, left>>

SendBody(t) ==
    /\ Sending(t, "body")
    /\ Finish(t)
    /\ UNCHANGED <<up, left>>

\* The client has left, and its host answered the header with a reset: the
\* next send raises SIGPIPE.
BodyBreaks(t) ==
    /\ Sending(t, "body")
    /\ up' = FALSE
    /\ left' = TRUE
    /\ UNCHANGED task

\* What a data race on the maps, or an overrun, does at the worst.
Crash ==
    /\ up
    /\ raced \/ overrun
    /\ up' = FALSE
    /\ UNCHANGED <<maps, task, busy, history, bounds>>

Operation(t) ==
    \/ Begin(t)
    \/ FindDnode(t) \/ Update(t) \/ Register(t)
    \/ Find(t) \/ Insert(t) \/ Push(t)
    \/ Copy(t) \/ Address(t) \/ AddressNull(t)
    \/ SendHead(t) \/ HeadNull(t) \/ SendBody(t) \/ BodyBreaks(t)

Next ==
    \/ \E u \in Uids : Join(u) \/ Hello(u)
    \/ \E u \in Uids, h \in Hashes : Upload(u, h) \/ Acknowledge(u, h)
    \/ \E h \in Keys : Download(h) \/ Query(h)
    \/ \E p \in Hubs : HubJoin(p)
    \/ \E t \in Threads : Operation(t)
    \/ Crash

Spec == Init /\ [][Next]_vars

-----------------------------------------------------------------------------
(* Properties *)

Steps ==
    {"wait", "findDnode", "update", "register", "find", "insert", "push",
     "copy", "address", "head", "body"}

TypeOK ==
    /\ {up, raced, overrun, unknown, left} \subseteq BOOLEAN
    /\ hashes \subseteq Keys /\ uploaded \subseteq Hashes
    /\ sources \in [Keys -> Seq(Uids)]
    /\ dnodes \subseteq Uids /\ known \subseteq Uids /\ strangers \subseteq Uids
    /\ peers \subseteq Hubs
    /\ busy \subseteq Threads
    /\ \A t \in Threads :
        /\ task[t].step \in Steps
        /\ task[t].uid \in Uids \cup {Nil} /\ task[t].hash \in Keys \cup {Nil}
        /\ task[t].ids \in Seq(Uids)
        /\ task[t].next \in 0 .. Len(task[t].ids)
    /\ dnodeReqs \in 0 .. MaxDnodeReqs /\ hubReqs \in 0 .. MaxHubReqs

\* No lookup of the two servers ends the hub, whatever the other one does
\* between the operations of a handler: every source that is on a list when
\* the list is copied has a record when its address is looked up, and a name
\* has metadata.  This is so until two operations race, a query overruns its
\* memory, or an answer goes to a client that left (each ends the hub on its
\* own), if no source was a stranger and every name asked for was uploaded.
LookupsSucceed ==
    ~ raced /\ ~ overrun /\ ~ left /\ strangers = {} /\ ~ unknown => up

\* As long as no two operations have conflicted and nothing was overrun, a list
\* of sources only grows at its end: the empty list that a query inserts, and
\* the one an upload assigns after it looked, never replace what was listed.
SourcesKept ==
    [][~ raced' /\ ~ overrun' =>
        \A h \in Keys : IsPrefix(sources[h], sources'[h])]_vars

=============================================================================
