----------------------------- MODULE HubRegistry -----------------------------
(***************************************************************************)
(* The registry of a hub (src/src/hub/dnode_req_server.cpp) and the dnodes *)
(* that talk to it (src/src/dnode.cpp, and the hub side of the RPC         *)
(* handlers in src/src/dnode/rpc_server.cpp).                              *)
(*                                                                         *)
(* The hub accepts one connection at a time, in order, and serves it to    *)
(* the end; its maps live in memory only.  A dnode opens a connection for  *)
(* every request.  Uploads and download acknowledgements get no answer:    *)
(* the dnode goes on as soon as the request is sent.  Dnodes and hub may   *)
(* be killed at any time and started again; nothing tells the others.  A   *)
(* dnode may be started before the hub is.                                 *)
(*                                                                         *)
(* To connect may fail whether or not there is a hub: the dnode has no     *)
(* descriptor left, or the hub's backlog of 5 stays full.                  *)
(*                                                                         *)
(* A uid is the second in which the hub handed it out: random64bit seeds   *)
(* rand with time(NULL), so that one second yields one value.              *)
(***************************************************************************)
EXTENDS Integers, Sequences, SequencesExt

CONSTANTS
    Dnodes, Names, Hashes,
    Nil,            \* no entry in a map, no file
    MaxNow,         \* bound: seconds in which a hub may be asked for a uid
    MaxBacklog,     \* bound: connections waiting in the hub's backlog
    MaxPosts,       \* bound: uploads and acknowledgements sent
    MaxFaults,      \* bound: dnodes killed, and connects to a live hub failing
    MaxStarts       \* bound: starts of the hub

ASSUME RegistryAssumption ==
    /\ Nil \notin Dnodes \cup Names \cup Hashes /\ Nil \notin Int
    /\ MaxNow \in Nat \ {0}
    /\ {MaxBacklog, MaxPosts, MaxFaults, MaxStarts} \subseteq Nat

Junk == -1                  \* an uninitialised 64-bit value
Torn == -2                  \* the uid file is created but not yet written
Uninitialised == {0, Junk}  \* what reading one may give: 0 is special
Uids == {0, Junk} \cup 1 .. MaxNow

VARIABLES
    hub,        \* "up", "spin" (blocked in recv_full for ever) or "down"
    now,        \* time(NULL)
    backlog,    \* the connections the hub has not served yet
    dnodesMap,  \* dnodes_map: the dnode whose address is stored for a uid
    sources,    \* fhash_map
    indexed,    \* the hashes with file_metadata_map and file_indexdata_map
    fname,      \* fname_map
    phase,      \* where each dnode is
    uid,        \* dnode_details.uid
    uidFile,    \* the uid file of each dnode
    want,       \* the hash a downloading dnode got from the hub
    given,      \* history: the dnodes a uid was handed to
    registered, \* history: the dnodes this hub has answered since they started
    strangers,  \* history: the uids under which other dnodes post to this hub
    posts, faults, starts

maps == <<dnodesMap, sources, indexed, fname>>
hubVars == <<hub, maps>>
dnodeVars == <<phase, uid, uidFile, want>>
known == <<registered, strangers>>
bounds == <<posts, faults, starts>>
vars == <<hubVars, now, backlog, dnodeVars, given, known, bounds>>

NoDnodes == [u \in Uids |-> Nil]
NoSources == [h \in Hashes |-> <<>>]
NoNames == [n \in Names |-> Nil]

Init ==
    /\ hub = "down"
    /\ dnodesMap = NoDnodes /\ sources = NoSources
    /\ indexed = {} /\ fname = NoNames
    /\ now = 1 /\ backlog = <<>>
    /\ phase = [d \in Dnodes |-> "off"]
    /\ uid = [d \in Dnodes |-> 0]
    /\ uidFile = [d \in Dnodes |-> Nil]
    /\ want = [d \in Dnodes |-> Nil]
    /\ given = [u \in Uids |-> {}]
    /\ registered = {} /\ strangers = {}
    /\ posts = 0 /\ faults = 0 /\ starts = 0

Tick ==
    /\ now < MaxNow
    /\ now' = now + 1
    /\ UNCHANGED <<hubVars, backlog, dnodeVars, given, known, bounds>>

-----------------------------------------------------------------------------
(* Connections. *)

Alive == hub # "down"

\* A request: what is asked, by whom, under which uid, and whether the client
\* is "open" (waits for the answer), "closed" (gone, everything sent) or "cut"
\* (gone before everything was sent).
Request(kind, d, n, h, end) ==
    [kind |-> kind, from |-> d, uid |-> uid[d], name |-> n, hash |-> h,
     end |-> end]

Requests ==
    [kind : {"join", "hello", "upload", "download", "ack"}, from : Dnodes,
     uid : Uids, name : Names \cup {Nil}, hash : Hashes \cup {Nil},
     end : {"open", "closed", "cut"}]

Send(r) ==
    /\ Alive
    /\ Len(backlog) < MaxBacklog
    /\ backlog' = Append(backlog, r)

\* connect_to_server fails: there is no hub, or not even a socket.
Unreachable ==
    \/ ~ Alive /\ UNCHANGED faults
    \/ Alive /\ faults < MaxFaults /\ faults' = faults + 1

Goto(d, p) == phase' = [phase EXCEPT ![d] = p]

-----------------------------------------------------------------------------
(* A dnode: start, join or hello. *)

\* Mutant: the uid file is not read.
StartDnodeAlwaysJoins(d) ==
    /\ phase[d] = "off"
    /\ uid' = [uid EXCEPT ![d] = 0]
    /\ Goto(d, "join")
    /\ registered' = registered \ {d}
    /\ UNCHANGED <<hubVars, now, backlog, uidFile, want, given, strangers,
                   bounds>>

\* initialize_dnode and main: a torn uid file leaves uid uninitialised.
StartDnode(d) ==
    /\ phase[d] = "off"
    /\ \E u \in CASE uidFile[d] = Nil -> {0}
                  [] uidFile[d] = Torn -> Uninitialised
                  [] OTHER -> {uidFile[d]} :
        /\ uid' = [uid EXCEPT ![d] = u]
        /\ Goto(d, IF u # 0 THEN "hello" ELSE "join")
    /\ registered' = registered \ {d}
    /\ UNCHANGED <<hubVars, now, backlog, uidFile, want, given, strangers,
                   bounds>>

SendJoin(d) ==
    /\ phase[d] = "join"
    /\ Send(Request("join", d, Nil, Nil, "open"))
    /\ Goto(d, "joining")
    /\ UNCHANGED <<hubVars, now, uid, uidFile, want, given, known, bounds>>

\* connect_to_server fails and nobody looks: the answer is uninitialised.
JoinUnreachable(d) ==
    /\ phase[d] = "join" /\ Unreachable
    /\ \E u \in Uninitialised : uid' = [uid EXCEPT ![d] = u]
    /\ Goto(d, "create")
    /\ UNCHANGED <<hubVars, now, backlog, uidFile, want, given, known, posts,
                   starts>>

\* open(uid_file_path, O_CREAT | O_WRONLY).
CreateUidFile(d) ==
    /\ phase[d] = "create"
    /\ uidFile' = [uidFile EXCEPT ![d] = IF @ = Nil THEN Torn ELSE @]
    /\ Goto(d, "write")
    /\ UNCHANGED <<hubVars, now, backlog, uid, want, given, known, bounds>>

WriteUidFile(d) ==
    /\ phase[d] = "write"
    /\ uidFile' = [uidFile EXCEPT ![d] = uid[d]]
    /\ Goto(d, "running")
    /\ UNCHANGED <<hubVars, now, backlog, uid, want, given, known, bounds>>

SendHello(d) ==
    /\ phase[d] = "hello"
    /\ Send(Request("hello", d, Nil, Nil, "open"))
    /\ Goto(d, "helloing")
    /\ UNCHANGED <<hubVars, now, uid, uidFile, want, given, known, bounds>>

\* Mutant: the dnode tries again until the hub is there.
HelloRetries(d) == phase[d] = "hello" /\ ~ Alive /\ UNCHANGED vars

\* Nobody looks at the result of connect here either: the dnode runs on.
HelloUnreachable(d) ==
    /\ phase[d] = "hello" /\ Unreachable
    /\ Goto(d, "running")
    /\ UNCHANGED <<hubVars, now, backlog, uid, uidFile, want, given, known,
                   posts, starts>>

-----------------------------------------------------------------------------
(* A dnode: the RPC handlers, one request at a time. *)

\* A request without an answer is sent, or not, which nobody learns.
Post(kind, d, n, h) ==
    \/ /\ Send(Request(kind, d, n, h, "closed"))
       /\ strangers' = IF d \in registered THEN strangers
                       ELSE strangers \cup {uid[d]}
    \/ UNCHANGED <<backlog, strangers>>

\* The success goes to the RPC client whether or not there is a hub.
Upload(d) ==
    /\ phase[d] = "running" /\ posts < MaxPosts
    /\ posts' = posts + 1
    /\ \E n \in Names, h \in Hashes : Post("upload", d, n, h)
    /\ UNCHANGED <<hubVars, now, phase, uid, uidFile, want, given, registered,
                   faults, starts>>

SendDownload(d) ==
    /\ phase[d] = "running"
    /\ \E n \in Names : Send(Request("download", d, n, Nil, "open"))
    /\ Goto(d, "asking")
    /\ UNCHANGED <<hubVars, now, uid, uidFile, want, given, known, bounds>>

\* Without a connection the handler works on an uninitialised answer: it
\* crashes, hangs, or comes back with nothing.
DownloadUnreachable(d) ==
    /\ phase[d] = "running" /\ Unreachable
    /\ \E p \in {"off", "stuck", "running"} : Goto(d, p)
    /\ UNCHANGED <<hubVars, now, backlog, uid, uidFile, want, given, known,
                   posts, starts>>

\* The chunks are fetched (ChunkDownload), completely or not: the dnode
\* tells the hub that it is a source, if it can.
Acknowledge(d) ==
    /\ phase[d] = "fetching" /\ posts < MaxPosts
    /\ posts' = posts + 1
    /\ Post("ack", d, Nil, want[d])
    /\ want' = [want EXCEPT ![d] = Nil]
    /\ Goto(d, "running")
    /\ UNCHANGED <<hubVars, now, uid, uidFile, given, registered, faults,
                   starts>>

\* The hub died with the connection: recv returns 0 and recv_full asks for
\* ever, or recv fails and the answer is uninitialised.
CutOff(d) ==
    /\ phase[d] \in {"joining", "helloing", "asking"}
    /\ \A i \in DOMAIN backlog : backlog[i].from = d => backlog[i].end # "open"
    /\ \/ Goto(d, "stuck") /\ UNCHANGED uid
       \/ /\ phase[d] = "joining"
          /\ \E u \in Uninitialised : uid' = [uid EXCEPT ![d] = u]
          /\ Goto(d, "create")
       \/ phase[d] = "helloing" /\ Goto(d, "running") /\ UNCHANGED uid
       \/ /\ phase[d] = "asking"
          /\ \E p \in {"off", "running"} : Goto(d, p)
          /\ UNCHANGED uid
    /\ UNCHANGED <<hubVars, now, backlog, uidFile, want, given, known, bounds>>

-----------------------------------------------------------------------------
(* The hub: handle_dnode_req_server and its handlers. *)

Serve(kind) ==
    /\ hub = "up" /\ backlog # <<>>
    /\ Head(backlog).kind = kind
    /\ Head(backlog).end # "cut"
    /\ backlog' = Tail(backlog)

\* The client is answered if it is still there.
Answer(r, p) ==
    phase' = IF r.end = "open" THEN [phase EXCEPT ![r.from] = p] ELSE phase

Registers(r) ==
    /\ registered' = IF r.end = "open" THEN registered \cup {r.from}
                     ELSE registered
    /\ UNCHANGED strangers

HandleJoin ==
    /\ Serve("join")
    /\ LET r == Head(backlog) IN
        /\ dnodesMap' = [dnodesMap EXCEPT ![now] = r.from]
        /\ given' = [given EXCEPT ![now] = @ \cup {r.from}]
        /\ Answer(r, "create")
        /\ uid' = IF r.end = "open" THEN [uid EXCEPT ![r.from] = now] ELSE uid
        /\ Registers(r)
    /\ UNCHANGED <<hub, sources, indexed, fname, now, uidFile, want,
                   bounds>>

\* Mutant: the address of an unknown dnode is not stored.
HandleHelloForgets ==
    /\ Serve("hello")
    /\ LET r == Head(backlog) IN
        /\ dnodesMap' = [dnodesMap EXCEPT ![r.uid] = IF @ = Nil THEN @ ELSE r.from]
        /\ Answer(r, "running")
        /\ Registers(r)
    /\ UNCHANGED <<hub, sources, indexed, fname, now, uid, uidFile,
                   want, given, bounds>>

HandleHello ==
    /\ Serve("hello")
    /\ LET r == Head(backlog) IN
        /\ dnodesMap' = [dnodesMap EXCEPT ![r.uid] = r.from]
        /\ Answer(r, "running")
        /\ Registers(r)
    /\ UNCHANGED <<hub, sources, indexed, fname, now, uid, uidFile,
                   want, given, bounds>>

\* push_back: a source may be listed more than once.
Listed(h, u) == sources' = [sources EXCEPT ![h] = Append(@, u)]

\* The first upload of a name keeps it.
Filed(r) ==
    /\ Listed(r.hash, r.uid)
    /\ fname' = [fname EXCEPT ![r.name] = IF @ = Nil THEN r.hash ELSE @]

HandleUpload ==
    /\ Serve("upload")
    /\ LET r == Head(backlog) IN
        /\ indexed' = indexed \cup {r.hash}
        /\ Filed(r)
    /\ UNCHANGED <<hub, dnodesMap, now, dnodeVars, given, known, bounds>>

HandleAck ==
    /\ Serve("ack")
    /\ LET r == Head(backlog) IN Listed(r.hash, r.uid)
    /\ UNCHANGED <<hub, dnodesMap, indexed, fname, now, dnodeVars,
                   given, known, bounds>>

\* Every pointer the answer is read through is there.
Answerable(n) ==
    /\ fname[n] # Nil
    /\ fname[n] \in indexed
    /\ \A u \in Range(sources[fname[n]]) : dnodesMap[u] # Nil

HandleDownload ==
    /\ Serve("download")
    /\ LET r == Head(backlog) IN
        /\ Answerable(r.name)
        /\ Answer(r, "fetching")
        /\ want' = IF r.end = "open"
                   THEN [want EXCEPT ![r.from] = fname[r.name]] ELSE want
    /\ UNCHANGED <<hubVars, now, uid, uidFile, given, known, bounds>>

\* What a hub that dies leaves behind: nothing.
HubDies ==
    /\ hub' = "down"
    /\ backlog' = <<>>
    /\ dnodesMap' = NoDnodes /\ sources' = NoSources
    /\ indexed' = {} /\ fname' = NoNames
    /\ registered' = {} /\ strangers' = {}

\* A name the hub does not know becomes hash 0, whose metadata is a null
\* pointer; so is the address of a source that never joined this hub.
DownloadCrashes ==
    /\ hub = "up" /\ backlog # <<>>
    /\ LET r == Head(backlog) IN
        r.kind = "download" /\ r.end # "cut" /\ ~ Answerable(r.name)
    /\ HubDies
    /\ UNCHANGED <<now, dnodeVars, given, bounds>>

\* A client that died after asking closes on the first part of the answer:
\* the next part raises SIGPIPE.
AnswerBreaks ==
    /\ hub = "up" /\ backlog # <<>>
    /\ LET r == Head(backlog) IN
        r.kind = "download" /\ r.end = "closed" /\ Answerable(r.name)
    /\ HubDies
    /\ UNCHANGED <<now, dnodeVars, given, bounds>>

\* recv_full does not tell a closed connection from a slow one.  An upload
\* that is cut within its index data has its name and source stored before.
HubSpins ==
    /\ hub = "up" /\ backlog # <<>>
    /\ LET r == Head(backlog) IN
        /\ r.end = "cut"
        /\ \/ UNCHANGED <<sources, fname>>
           \/ r.kind = "upload" /\ Filed(r)
    /\ hub' = "spin"
    /\ UNCHANGED <<dnodesMap, indexed, now, backlog, dnodeVars, given, known,
                   bounds>>

-----------------------------------------------------------------------------
(* Kills and starts. *)

\* Mutant: a killed dnode goes on with the download it had asked for.
KillDnodeKeepsWant(d) ==
    /\ phase[d] # "off" /\ faults < MaxFaults
    /\ faults' = faults + 1
    /\ Goto(d, "off")
    /\ UNCHANGED <<hubVars, now, backlog, uid, uidFile, want, given, known,
                   posts, starts>>

KillDnode(d) ==
    /\ phase[d] # "off" /\ faults < MaxFaults
    /\ faults' = faults + 1
    /\ Goto(d, "off")
    /\ want' = [want EXCEPT ![d] = Nil]
    /\ backlog' = [i \in DOMAIN backlog |->
                    IF backlog[i].from = d /\ backlog[i].end = "open"
                    THEN [backlog[i] EXCEPT !.end = "closed"]
                    ELSE backlog[i]]
    /\ UNCHANGED <<hubVars, now, uid, uidFile, given, known, posts,
                   starts>>

\* Killed between connect and the last send of a request.
KillSendingDnode(d) ==
    /\ faults < MaxFaults
    /\ \/ /\ phase[d] \in {"join", "hello", "fetching"}
          /\ LET kind == CASE phase[d] = "join" -> "join"
                           [] phase[d] = "hello" -> "hello"
                           [] OTHER -> "ack"
             IN  Send(Request(kind, d, Nil, Nil, "cut"))
       \/ phase[d] = "running" /\ Send(Request("download", d, Nil, Nil, "cut"))
       \/ /\ phase[d] = "running"
          /\ \E n \in Names, h \in Hashes :
                Send(Request("upload", d, n, h, "cut"))
    /\ faults' = faults + 1
    /\ Goto(d, "off")
    /\ want' = [want EXCEPT ![d] = Nil]
    /\ UNCHANGED <<hubVars, now, uid, uidFile, given, known, posts,
                   starts>>

KillHub ==
    /\ Alive
    /\ HubDies
    /\ UNCHANGED <<now, dnodeVars, given, bounds>>

\* main of hub.cpp: every map is empty, nobody is told.
StartHub ==
    /\ ~ Alive /\ starts < MaxStarts
    /\ starts' = starts + 1
    /\ hub' = "up"
    /\ UNCHANGED <<maps, now, backlog, dnodeVars, given, known, posts, faults>>

-----------------------------------------------------------------------------

\* What a dnode does on its own from its start until it runs.
Startup(d) ==
    \/ SendJoin(d) \/ JoinUnreachable(d) \/ CreateUidFile(d) \/ WriteUidFile(d)
    \/ SendHello(d) \/ HelloUnreachable(d) \/ CutOff(d)

HubStep ==
    \/ HandleJoin \/ HandleHello \/ HandleUpload \/ HandleAck \/ HandleDownload
    \/ DownloadCrashes \/ AnswerBreaks \/ HubSpins

Next ==
    \/ Tick \/ HubStep \/ KillHub \/ StartHub
    \/ \E d \in Dnodes :
        \/ StartDnode(d) \/ Startup(d)
        \/ Upload(d) \/ SendDownload(d) \/ DownloadUnreachable(d)
        \/ Acknowledge(d)
        \/ KillDnode(d) \/ KillSendingDnode(d)

Spec == Init /\ [][Next]_vars

\* The processes that can go on do.
FairSpec ==
    /\ Spec
    /\ WF_vars(HubStep)
    /\ \A d \in Dnodes : WF_vars(Startup(d))

-----------------------------------------------------------------------------
(* Safety. *)

\* The variables keep their types; a dnode has a hash in hand exactly while
\* it fetches, and waits for an answer with at most one connection.
TypeOK ==
    /\ hub \in {"up", "spin", "down"}
    /\ now \in 1 .. MaxNow
    /\ backlog \in Seq(Requests) /\ Len(backlog) <= MaxBacklog
    /\ dnodesMap \in [Uids -> Dnodes \cup {Nil}]
    /\ sources \in [Hashes -> Seq(Uids)]
    /\ indexed \subseteq Hashes
    /\ fname \in [Names -> Hashes \cup {Nil}]
    /\ phase \in [Dnodes -> {"off", "join", "joining", "create", "write",
                             "hello", "helloing", "running", "asking",
                             "fetching", "stuck"}]
    /\ uid \in [Dnodes -> Uids]
    /\ uidFile \in [Dnodes -> Uids \cup {Nil, Torn}]
    /\ want \in [Dnodes -> Hashes \cup {Nil}]
    /\ given \in [Uids -> SUBSET Dnodes]
    /\ registered \subseteq Dnodes /\ strangers \subseteq Uids
    /\ \A d \in Dnodes :
        /\ want[d] # Nil <=> phase[d] = "fetching"
        /\ \A i, j \in DOMAIN backlog :
            (/\ backlog[i].from = d /\ backlog[i].end = "open"
             /\ backlog[j].from = d /\ backlog[j].end = "open") => i = j

\* A name the hub has stored is one it can answer for: the only null pointer
\* that handle_file_download_req may meet is the address of a dnode that
\* posted without an answer to its join or hello from this hub.  No kill of a
\* dnode between its start, its registration and a post, and no start of the
\* hub in between, leads to another.
NamesAnswerable ==
    hub = "up" => \A n \in Names : fname[n] # Nil =>
        /\ fname[n] \in indexed /\ sources[fname[n]] # <<>>
        /\ \A u \in Range(sources[fname[n]]) :
            dnodesMap[u] = Nil => u \in strangers

\* The address the hub gives for a source is that of the dnode which keeps
\* that uid on its disk, across crashes of the dnode and of the hub, provided
\* that the uid was handed to one dnode only.
SourceAddressed ==
    \A h \in Hashes : \A u \in Range(sources[h]) :
        \A d \in Dnodes : (dnodesMap[u] = d /\ given[u] = {d}) => uidFile[d] = u

\* A dnode that has written a uid it got from a hub keeps it for ever.
UidKept ==
    [][\A d \in Dnodes :
        uidFile[d] \in 1 .. MaxNow => uidFile'[d] = uidFile[d]]_vars

-----------------------------------------------------------------------------
(* Liveness. *)

\* A dnode that starts comes to serve its RPC clients, with or without a hub,
\* unless it is killed, is left waiting on a connection the hub closed, or
\* the hub spins on a client that died.
StartupEnds ==
    \A d \in Dnodes :
        phase[d] \in {"join", "hello"}
            ~> phase[d] \in {"running", "off", "stuck"} \/ hub = "spin"

=============================================================================
