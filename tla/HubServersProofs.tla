-------------------------- MODULE HubServersProofs --------------------------
(***************************************************************************)
(* The two server threads of the hub get along, race for race: whatever    *)
(* each one does between two operations of the other, no lookup misses and *)
(* no list of sources is replaced, for every number of requests, dnodes    *)
(* and contents.                                                           *)
(*                                                                         *)
(* The maps only grow, and only the dnode request server fills them.  What *)
(* it has looked up stays true until it acts on it, and every uid on a     *)
(* list, or on a copy of one, has a record or is a stranger's.             *)
(***************************************************************************)
EXTENDS HubServers, SequenceTheorems, TLAPS

Tasks ==
    [step : Steps, uid : Uids \cup {Nil}, hash : Keys \cup {Nil},
     ids : Seq(Uids), next : Nat]

\* What the next operation of a thread needs is there.
Formed ==
    /\ task \in [Threads -> Tasks]
    /\ \A t \in Threads :
        /\ task[t].next \in 0 .. Len(task[t].ids)
        /\ task[t].step \in {"findDnode", "update", "register", "find", "insert", "push"} =>
            t = "dnode_req" /\ task[t].uid \in Uids
        /\ task[t].step \in {"find", "insert", "push"} => task[t].hash \in Hashes
        /\ task[t].step = "copy" => task[t].hash \in Keys
        /\ task[t].step = "address" => task[t].next >= 1

\* Who joined or said hello has a record, or is about to get it.
KnownRegistered ==
    /\ \A u \in known :
        \/ u \in dnodes
        \/ /\ task["dnode_req"].step \in {"findDnode", "register"}
           /\ task["dnode_req"].uid = u
    /\ task["dnode_req"].step = "update" => task["dnode_req"].uid \in dnodes

\* A uid whose record a lookup may ask for.
Sound(u) == u \in dnodes \cup strangers

\* Every source on a list, on its way there or on a copy is sound.
SourcesSound ==
    /\ task["dnode_req"].step \in {"find", "insert", "push"} => Sound(task["dnode_req"].uid)
    /\ \A h \in Keys : \A i \in 1 .. Len(sources[h]) : Sound(sources[h][i])
    /\ \A t \in Threads : \A i \in 1 .. Len(task[t].ids) : Sound(task[t].ids[i])

\* A list is only assigned while there is none.
ListsKeyed ==
    /\ \A h \in Keys \ hashes : sources[h] = <<>>
    /\ task["dnode_req"].step = "insert" => sources[task["dnode_req"].hash] = <<>>
    /\ task["dnode_req"].step = "push" => task["dnode_req"].hash \in hashes

\* What is downloaded has metadata, unless somebody asked for an unknown name.
Named ==
    task["dnode_req"].step \in {"copy", "address", "head"} =>
        task["dnode_req"].hash \in uploaded \/ unknown

IInv ==
    /\ TypeOK
    /\ Formed
    /\ KnownRegistered
    /\ Named
    /\ SourcesSound
    /\ ListsKeyed
    /\ LookupsSucceed

-----------------------------------------------------------------------------
(* The proofs. *)

\* A task at its start.
LEMMA TaskFacts ==
    ASSUME NEW step \in Steps, NEW u \in Uids \cup {Nil}, NEW h \in Keys \cup {Nil}
    PROVE  /\ Task(step, u, h) \in Tasks
           /\ Task(step, u, h).step = step
           /\ Task(step, u, h).uid = u
           /\ Task(step, u, h).hash = h
           /\ Len(Task(step, u, h).ids) = 0
           /\ Task(step, u, h).next = 0
BY EmptySeq DEF Task, Tasks

\* A thread between two requests.
LEMMA WaitingFacts ==
    /\ Waiting \in Tasks
    /\ Waiting.step = "wait"
    /\ Len(Waiting.ids) = 0
    /\ Waiting.next = 0
BY TaskFacts DEF Waiting, Steps

\* Well-formed tasks have their types after a step, too.
LEMMA FormedTyped ==
    ASSUME Formed', NEW t \in Threads
    PROVE  /\ task'[t].step \in Steps
           /\ task'[t].uid \in Uids \cup {Nil} /\ task'[t].hash \in Keys \cup {Nil}
           /\ task'[t].ids \in Seq(Uids)
           /\ task'[t].next \in 0 .. Len(task'[t].ids)
BY DEF Formed, Tasks

\* A thread that has finished has nothing in hand.
LEMMA FinishedTask ==
    ASSUME Formed, NEW t \in Threads, task' = [task EXCEPT ![t] = Waiting]
    PROVE  /\ Formed'
           /\ \A o \in Threads \ {t} : task'[o] = task[o]
           /\ task'[t].step = "wait" /\ Len(task'[t].ids) = 0
<1>1. task' \in [Threads -> Tasks] /\ task'[t] = Waiting
    BY WaitingFacts DEF Formed
<1>2. QED
    BY <1>1, WaitingFacts DEF Formed

\* What a thread that accepts a request has in hand then.
LEMMA AcceptedTask ==
    ASSUME Formed, NEW t \in Threads, NEW step \in Steps,
           NEW u \in Uids \cup {Nil}, NEW h \in Keys \cup {Nil},
           Accept(t, Task(step, u, h))
    PROVE  /\ task[t].step = "wait"
           /\ task' \in [Threads -> Tasks]
           /\ \A o \in Threads \ {t} : task'[o] = task[o]
           /\ task'[t].step = step /\ task'[t].uid = u /\ task'[t].hash = h
           /\ Len(task'[t].ids) = 0 /\ task'[t].next = 0
           /\ UNCHANGED <<up, hashes, sources, dnodes, busy, raced, overrun, left>>
<1>1. task' = [task EXCEPT ![t] = Task(step, u, h)]
    BY DEF Accept
<1>2. task' \in [Threads -> Tasks] /\ task'[t] = Task(step, u, h)
    BY <1>1, TaskFacts DEF Formed
<1>3. QED
    BY <1>1, <1>2, TaskFacts DEF Formed, Accept

\* A dnode's request brings its uid with it.
LEMMA AcceptDnodeStep ==
    ASSUME IInv, NEW u \in Uids,
           Join(u) \/ Hello(u) \/ \E h \in Hashes : Upload(u, h) \/ Acknowledge(u, h)
    PROVE  IInv'
<1> DEFINE Begun(step, k) ==
            /\ AcceptDnode(Task(step, u, k))
            /\ step = "find" => k \in Hashes /\ Sound(u)' /\ known' = known
            /\ step # "find" => known' = known \cup {u}
            /\ strangers' \in {strangers, strangers \cup {u}}
            /\ unknown' = unknown
            /\ uploaded \subseteq uploaded' /\ uploaded' \subseteq Hashes
<1>1. PICK step \in {"register", "findDnode", "find"}, k \in Hashes \cup {Nil} :
        Begun(step, k)
    <2>1. ASSUME Join(u) PROVE Begun("register", Nil)
        BY <2>1 DEF Join, IInv, TypeOK
    <2>2. ASSUME Hello(u) PROVE Begun("findDnode", Nil)
        BY <2>2 DEF Hello, IInv, TypeOK
    <2>3. ASSUME NEW h \in Hashes, Upload(u, h) \/ Acknowledge(u, h)
          PROVE  Begun("find", h)
        <3> Source(u, h)
            BY <2>3 DEF Upload, Acknowledge
        <3>1. AcceptDnode(Task("find", u, h)) /\ known' = known /\ dnodes' = dnodes
            BY DEF Source, AcceptDnode, Accept
        <3>2. task["dnode_req"].step = "wait"
            BY <3>1 DEF AcceptDnode, Accept
        <3>3. Sound(u)'
            BY <3>1, <3>2 DEF Source, Sound, IInv, KnownRegistered
        <3>4. uploaded \subseteq uploaded' /\ uploaded' \subseteq Hashes
            BY <2>3 DEF Upload, Acknowledge, IInv, TypeOK
        <3>5. QED
            BY <3>1, <3>3, <3>4 DEF Source
    <2>4. QED
        BY <2>1, <2>2, <2>3
<1>2. Accept("dnode_req", Task(step, u, k))
    BY <1>1 DEF AcceptDnode
<1>3. /\ task["dnode_req"].step = "wait"
      /\ task' \in [Threads -> Tasks]
      /\ task'["hub_req"] = task["hub_req"]
      /\ task'["dnode_req"].step = step /\ task'["dnode_req"].uid = u
      /\ task'["dnode_req"].hash = k
      /\ Len(task'["dnode_req"].ids) = 0 /\ task'["dnode_req"].next = 0
      /\ UNCHANGED <<up, hashes, sources, dnodes, busy, raced, overrun, left>>
    BY <1>2, AcceptedTask DEF IInv, Threads, Steps, Keys
<1>4. Formed'
    BY <1>1, <1>3 DEF IInv, Formed, Threads
<1>5. TypeOK'
    BY <1>1, <1>3, <1>4, FormedTyped, ServersAssumption DEF IInv, TypeOK, AcceptDnode
<1>6. KnownRegistered'
    BY <1>1, <1>3 DEF IInv, KnownRegistered
<1>7. SourcesSound'
    BY <1>1, <1>3 DEF IInv, SourcesSound, Sound, Threads
<1>8. ListsKeyed'
    BY <1>1, <1>3 DEF IInv, ListsKeyed
<1>9. LookupsSucceed' /\ Named'
    BY <1>1, <1>3 DEF IInv, LookupsSucceed, Named
<1>10. QED
    BY <1>4, <1>5, <1>6, <1>7, <1>8, <1>9 DEF IInv

\* A download or a query starts without a copy.
LEMMA LookupRequestStep ==
    ASSUME IInv, NEW h \in Keys, Download(h) \/ Query(h)
    PROVE  IInv'
<1>1. PICK t \in Threads :
        /\ Accept(t, Task("copy", Nil, h))
        /\ t = "dnode_req" => Download(h)
        /\ t = "hub_req" => Query(h)
    BY DEF Download, Query, AcceptDnode, AcceptHub, Threads
<1>2. /\ UNCHANGED <<known, strangers, uploaded, peers>>
      /\ unknown' \in BOOLEAN /\ (unknown => unknown')
      /\ t = "dnode_req" => h \in uploaded \/ unknown'
    <2>1. CASE t = "dnode_req"
        BY <1>1, <2>1 DEF Download, AcceptDnode, IInv, TypeOK
    <2>2. CASE t = "hub_req"
        BY <1>1, <2>2 DEF Query, AcceptHub, clients, IInv, TypeOK
    <2>3. QED
        BY <2>1, <2>2 DEF Threads
<1>3. /\ task[t].step = "wait"
      /\ task' \in [Threads -> Tasks]
      /\ \A o \in Threads \ {t} : task'[o] = task[o]
      /\ task'[t].step = "copy" /\ task'[t].hash = h
      /\ Len(task'[t].ids) = 0 /\ task'[t].next = 0
      /\ UNCHANGED <<up, hashes, sources, dnodes, busy, raced, overrun, left>>
    BY <1>1, AcceptedTask DEF IInv, Steps
<1>4. Formed'
    BY <1>3 DEF IInv, Formed
<1>5. dnodeReqs' \in 0 .. MaxDnodeReqs /\ hubReqs' \in 0 .. MaxHubReqs
    BY ServersAssumption DEF IInv, TypeOK, Download, Query, AcceptDnode, AcceptHub
<1>6. TypeOK'
    BY <1>2, <1>3, <1>4, <1>5, FormedTyped DEF IInv, TypeOK
<1>7. KnownRegistered'
    BY <1>2, <1>3 DEF IInv, KnownRegistered, Threads
<1>8. SourcesSound'
    BY <1>2, <1>3 DEF IInv, SourcesSound, Sound, Threads
<1>9. ListsKeyed'
    BY <1>3 DEF IInv, ListsKeyed, Threads
<1>10. LookupsSucceed' /\ Named'
    BY <1>2, <1>3 DEF IInv, LookupsSucceed, Named, Threads
<1>11. QED
    BY <1>4, <1>6, <1>7, <1>8, <1>9, <1>10 DEF IInv

\* A hub that joins is of no interest to the dnode request server.
LEMMA HubJoinStep ==
    ASSUME IInv, NEW p \in Hubs, HubJoin(p)
    PROVE  IInv'
<1>1. Accept("hub_req", Waiting)
    BY DEF HubJoin, AcceptHub
<1>2. /\ task' \in [Threads -> Tasks]
      /\ task'["dnode_req"] = task["dnode_req"]
      /\ task'["hub_req"].step = "wait"
      /\ Len(task'["hub_req"].ids) = 0 /\ task'["hub_req"].next = 0
      /\ UNCHANGED <<up, hashes, sources, dnodes, busy, raced, overrun, left>>
    BY <1>1, AcceptedTask DEF IInv, Waiting, Threads, Steps
<1>3. UNCHANGED <<known, strangers, unknown, uploaded>>
    BY DEF HubJoin, AcceptHub, clients
<1>4. Formed'
    BY <1>2 DEF IInv, Formed, Threads
<1>5. TypeOK'
    BY <1>2, <1>3, <1>4, FormedTyped, ServersAssumption DEF IInv, TypeOK, HubJoin, AcceptHub
<1>6. KnownRegistered'
    BY <1>2, <1>3 DEF IInv, KnownRegistered
<1>7. SourcesSound'
    BY <1>2, <1>3 DEF IInv, SourcesSound, Sound, Threads
<1>8. ListsKeyed' /\ LookupsSucceed' /\ Named'
    BY <1>2, <1>3 DEF IInv, ListsKeyed, LookupsSucceed, Named
<1>9. QED
    BY <1>4, <1>5, <1>6, <1>7, <1>8 DEF IInv

\* An operation that begins changes nothing yet.
LEMMA BeginStep ==
    ASSUME IInv, NEW t \in Threads, Begin(t)
    PROVE  IInv'
<1>1. Formed'
    BY DEF IInv, Formed, TypeOK, Tasks, Steps, Threads, Begin, maps, clients, bounds
<1>2. TypeOK'
    BY <1>1, ServersAssumption DEF IInv, TypeOK, Formed, Tasks, Steps, Threads, Begin, maps,
       clients, bounds
<1>3. KnownRegistered'
    BY DEF IInv, KnownRegistered, Formed, Tasks, Threads, Begin, maps, clients, bounds
<1>4. SourcesSound'
    BY DEF IInv, SourcesSound, Sound, Formed, Tasks, TypeOK, Threads, Begin, maps, clients, bounds
<1>5. ListsKeyed'
    BY DEF IInv, ListsKeyed, Formed, Tasks, TypeOK, Threads, Begin, maps, clients, bounds
<1>6. LookupsSucceed' /\ Named'
    BY DEF IInv, LookupsSucceed, Named, Formed, Tasks, Threads, Begin, maps, clients, bounds
<1>7. QED
    BY <1>1, <1>2, <1>3, <1>4, <1>5, <1>6 DEF IInv

\* A record is looked for.
LEMMA FindDnodeStep ==
    ASSUME IInv, NEW t \in Threads, FindDnode(t)
    PROVE  IInv'
<1>1. Formed'
    BY DEF IInv, Formed, Tasks, Steps, Threads, FindDnode, End, clients, Goto
<1>2. TypeOK'
    BY <1>1, FormedTyped DEF IInv, TypeOK, FindDnode, End, clients, bounds
<1>3. KnownRegistered'
    BY DEF IInv, KnownRegistered, Formed, Tasks, Threads, FindDnode, End, clients, Goto
<1>4. SourcesSound'
    BY DEF IInv, SourcesSound, Sound, Formed, Tasks, FindDnode, End, clients, Goto
<1>5. ListsKeyed' /\ LookupsSucceed' /\ Named'
    BY DEF IInv, ListsKeyed, LookupsSucceed, Named, Formed, Tasks, FindDnode, End, clients, Goto
<1>6. QED
    BY <1>1, <1>2, <1>3, <1>4, <1>5 DEF IInv

\* A record is changed or stored.
LEMMA RegisterStep ==
    ASSUME IInv, NEW t \in Threads, Update(t) \/ Register(t)
    PROVE  IInv'
<1>1. /\ task' = [task EXCEPT ![t] = Waiting]
      /\ t = "dnode_req"
      /\ dnodes' = dnodes \cup {task[t].uid}
    BY DEF IInv, Formed, KnownRegistered, Update, Register, End, clients, Finish
<1>2. UNCHANGED <<up, hashes, sources, raced, overrun, left, known, strangers, unknown, uploaded,
                peers, bounds>>
    BY DEF Update, Register, End, clients
<1>3. /\ Formed' /\ task'["hub_req"] = task["hub_req"]
      /\ task'["dnode_req"].step = "wait" /\ Len(task'["dnode_req"].ids) = 0
    BY <1>1, FinishedTask DEF IInv, Threads
<1>4. TypeOK'
    <2>1. task[t].uid \in Uids /\ busy' \subseteq Threads
        BY DEF IInv, TypeOK, Formed, Update, Register, End, clients
    <2>2. QED
        BY <1>1, <1>2, <1>3, <2>1, FormedTyped DEF IInv, TypeOK, clients, bounds
<1>5. KnownRegistered'
    BY <1>1, <1>2, <1>3 DEF IInv, KnownRegistered
<1>6. SourcesSound'
    BY <1>1, <1>2, <1>3 DEF IInv, SourcesSound, Sound, Threads
<1>7. ListsKeyed' /\ LookupsSucceed' /\ Named'
    BY <1>2, <1>3 DEF IInv, ListsKeyed, LookupsSucceed, Named
<1>8. QED
    BY <1>3, <1>4, <1>5, <1>6, <1>7 DEF IInv

\* A list is looked for.
LEMMA FindStep ==
    ASSUME IInv, NEW t \in Threads, Find(t)
    PROVE  IInv'
<1>1. Formed'
    BY DEF IInv, Formed, TypeOK, Tasks, Steps, Threads, Find, End, clients, Goto, bounds
<1>2. TypeOK'
    BY <1>1, ServersAssumption DEF IInv, TypeOK, Formed, Tasks, Steps, Threads, Find, End,
       clients, Goto, bounds
<1>3. KnownRegistered'
    BY DEF IInv, KnownRegistered, Formed, Tasks, Threads, Find, End, clients, Goto, bounds
<1>4. SourcesSound'
    BY DEF IInv, SourcesSound, Sound, Formed, Tasks, TypeOK, Threads, Find, End, clients, Goto,
       bounds
<1>5. ListsKeyed'
    BY DEF IInv, ListsKeyed, Formed, Tasks, TypeOK, Keys, Threads, Find, End, clients, Goto, bounds
<1>6. LookupsSucceed' /\ Named'
    BY DEF IInv, LookupsSucceed, Named, Formed, Tasks, Threads, Find, End, clients, Goto, bounds
<1>7. QED
    BY <1>1, <1>2, <1>3, <1>4, <1>5, <1>6 DEF IInv

\* An empty list is assigned.
LEMMA InsertStep ==
    ASSUME IInv, NEW t \in Threads, Insert(t)
    PROVE  IInv'
<1>1. Formed'
    BY DEF IInv, Formed, TypeOK, Tasks, Steps, Threads, Insert, End, clients, Goto, bounds
<1>2. TypeOK'
    BY <1>1, ServersAssumption DEF IInv, TypeOK, Formed, Tasks, Steps, Threads, Insert, End,
       clients, Goto, bounds
<1>3. KnownRegistered'
    BY DEF IInv, KnownRegistered, Formed, Tasks, Threads, Insert, End, clients, Goto, bounds
<1>4. SourcesSound'
    BY DEF IInv, SourcesSound, Sound, Formed, Tasks, TypeOK, Threads, Insert, End, clients,
       Goto, bounds
<1>5. ListsKeyed'
    BY DEF IInv, ListsKeyed, Formed, Tasks, TypeOK, Threads, Insert, End, clients, Goto, bounds
<1>6. LookupsSucceed' /\ Named'
    BY DEF IInv, LookupsSucceed, Named, Formed, Tasks, Threads, Insert, End, clients, Goto, bounds
<1>7. QED
    BY <1>1, <1>2, <1>3, <1>4, <1>5, <1>6 DEF IInv

\* A source is listed.
LEMMA PushStep ==
    ASSUME IInv, NEW t \in Threads, Push(t)
    PROVE  IInv'
<1>1. PICK u \in Uids, h \in Hashes :
        /\ t = "dnode_req" /\ task[t].uid = u /\ task[t].hash = h
        /\ Sound(u) /\ h \in hashes
        /\ sources' = [sources EXCEPT ![h] = Append(@, u)]
    BY DEF IInv, Formed, SourcesSound, ListsKeyed, Push, End, clients
<1>2. UNCHANGED <<up, hashes, dnodes, raced, overrun, left, known, strangers, unknown, uploaded,
                peers, bounds>>
    BY DEF Push, End, clients
<1>3. /\ Formed' /\ task'["hub_req"] = task["hub_req"]
      /\ task'["dnode_req"].step = "wait" /\ Len(task'["dnode_req"].ids) = 0
    BY <1>1, FinishedTask DEF IInv, Threads, Push, Finish
<1>4. /\ sources' \in [Keys -> Seq(Uids)]
      /\ \A k \in Keys \ {h} : sources'[k] = sources[k]
      /\ Len(sources'[h]) = Len(sources[h]) + 1
      /\ \A i \in 1 .. Len(sources[h]) : sources'[h][i] = sources[h][i]
      /\ sources'[h][Len(sources[h]) + 1] = u
      /\ Len(sources[h]) \in Nat
    BY <1>1, AppendProperties, LenProperties DEF IInv, TypeOK, Keys
<1>5. TypeOK'
    <2>1. busy' \subseteq Threads
        BY DEF IInv, TypeOK, Push, End, clients
    <2>2. QED
        BY <1>2, <1>3, <1>4, <2>1, FormedTyped DEF IInv, TypeOK, clients, bounds
<1>6. KnownRegistered'
    BY <1>1, <1>2, <1>3 DEF IInv, KnownRegistered, Push, End, clients
<1>7. SourcesSound'
    <2>1. ASSUME NEW k \in Keys, NEW i \in 1 .. Len(sources'[k])
          PROVE  Sound(sources'[k][i])
        BY <1>1, <1>4 DEF IInv, SourcesSound
    <2>2. QED
        BY <1>2, <1>3, <2>1 DEF IInv, SourcesSound, Sound, Threads
<1>8. ListsKeyed' /\ LookupsSucceed' /\ Named'
    BY <1>1, <1>2, <1>3, <1>4 DEF IInv, ListsKeyed, LookupsSucceed, Named, Keys
<1>9. QED
    BY <1>3, <1>5, <1>6, <1>7, <1>8 DEF IInv

\* A list is copied.
LEMMA CopyStep ==
    ASSUME IInv, NEW t \in Threads, Copy(t)
    PROVE  IInv'
<1>1. PICK h \in Keys :
        /\ task[t].step = "copy" /\ task[t].hash = h
        /\ hashes' = hashes \cup {h}
    BY DEF IInv, Formed, Copy, End, clients
<1>2. UNCHANGED <<up, sources, dnodes, raced, overrun, left, known, strangers, unknown, uploaded,
                peers, bounds>>
    BY DEF Copy, End, clients
<1>3. /\ Formed'
      /\ \A o \in Threads \ {t} : task'[o] = task[o]
      /\ task'[t].step \in {"head", "address"} /\ task'[t].hash = h
      /\ task'[t].ids = task[t].ids \/ task'[t].ids = sources[h]
    <2>1. CASE sources[h] = <<>>
        <3> DEFINE k == Answer(task[t])
        <3>1. k \in Tasks /\ k.step = "head" /\ k.hash = h /\ k.ids = task[t].ids
              /\ k.next = task[t].next
            BY <1>1 DEF IInv, Formed, Tasks, Steps, Answer
        <3>2. task' = [task EXCEPT ![t] = k]
            BY <1>1, <2>1 DEF Copy
        <3> HIDE DEF k
        <3>3. task' \in [Threads -> Tasks] /\ task'[t] = k
            BY <3>1, <3>2 DEF IInv, Formed
        <3>4. QED
            BY <3>1, <3>2, <3>3 DEF IInv, Formed
    <2>2. CASE sources[h] # <<>>
        <3> DEFINE k == [task[t] EXCEPT !.ids = sources[h], !.next = 1, !.step = "address"]
        <3>1. sources[h] \in Seq(Uids) /\ Len(sources[h]) >= 1
            BY <2>2, EmptySeq DEF IInv, TypeOK
        <3>2. task[t] \in Tasks
            BY DEF IInv, Formed
        <3>3. /\ k \in Tasks /\ k.step = "address" /\ k.hash = h
              /\ k.ids = sources[h] /\ k.next = 1
            BY <1>1, <3>1, <3>2 DEF Tasks, Steps
        <3>4. task' = [task EXCEPT ![t] = k]
            BY <1>1, <2>2 DEF Copy
        <3> HIDE DEF k
        <3>5. task' \in [Threads -> Tasks] /\ task'[t] = k
            BY <3>3, <3>4 DEF IInv, Formed
        <3>6. QED
            BY <3>1, <3>3, <3>4, <3>5 DEF IInv, Formed
    <2>3. QED
        BY <2>1, <2>2
<1>4. TypeOK'
    <2>1. busy' \subseteq Threads
        BY DEF IInv, TypeOK, Copy, End, clients
    <2>2. QED
        BY <1>1, <1>2, <1>3, <2>1, FormedTyped DEF IInv, TypeOK, clients, bounds
<1>5. KnownRegistered'
    BY <1>1, <1>2, <1>3 DEF IInv, KnownRegistered, Threads
<1>6. SourcesSound'
    BY <1>1, <1>2, <1>3 DEF IInv, SourcesSound, Sound, Threads
<1>7. ListsKeyed' /\ LookupsSucceed' /\ Named'
    BY <1>1, <1>2, <1>3 DEF IInv, ListsKeyed, LookupsSucceed, Named, Threads
<1>8. QED
    BY <1>3, <1>4, <1>5, <1>6, <1>7 DEF IInv

\* A source has its record.
LEMMA AddressStep ==
    ASSUME IInv, NEW t \in Threads, Address(t)
    PROVE  IInv'
<1>1. UNCHANGED <<up, hashes, sources, dnodes, raced, left, known, strangers, unknown, uploaded,
                peers, bounds>>
    BY DEF Address, End, clients
<1>2. task[t].step = "address" /\ overrun' \in BOOLEAN /\ (overrun => overrun')
    BY DEF IInv, TypeOK, Address, End, clients
<1>3. /\ Formed'
      /\ \A o \in Threads \ {t} : task'[o] = task[o]
      /\ task'[t].step \in {"head", "address"} /\ task'[t].hash = task[t].hash
      /\ task'[t].ids = task[t].ids
    <2>1. CASE task[t].next = Len(task[t].ids)
        <3> DEFINE k == Answer(task[t])
        <3>1. k \in Tasks /\ k.step = "head" /\ k.hash = task[t].hash /\ k.ids = task[t].ids
              /\ k.next = task[t].next
            BY DEF IInv, Formed, Tasks, Steps, Answer
        <3>2. task' = [task EXCEPT ![t] = k]
            BY <2>1 DEF Address
        <3> HIDE DEF k
        <3>3. task' \in [Threads -> Tasks] /\ task'[t] = k
            BY <3>1, <3>2 DEF IInv, Formed
        <3>4. QED
            BY <3>1, <3>2, <3>3 DEF IInv, Formed
    <2>2. CASE task[t].next # Len(task[t].ids)
        <3> DEFINE k == Advanced(task[t])
        <3>1. /\ task[t] \in Tasks
              /\ task[t].next + 1 \in 1 .. Len(task[t].ids)
            BY <1>2, <2>2, LenProperties DEF IInv, Formed, Tasks
        <3>2. /\ k \in Tasks /\ k.step = "address" /\ k.hash = task[t].hash
              /\ k.ids = task[t].ids /\ k.next = task[t].next + 1
            BY <1>2, <3>1 DEF Tasks, Advanced
        <3>3. task' = [task EXCEPT ![t] = k]
            BY <2>2 DEF Address
        <3> HIDE DEF k
        <3>4. task' \in [Threads -> Tasks] /\ task'[t] = k
            BY <3>2, <3>3 DEF IInv, Formed
        <3>5. QED
            BY <3>1, <3>2, <3>3, <3>4 DEF IInv, Formed, Tasks
    <2>3. QED
        BY <2>1, <2>2
<1>4. TypeOK'
    <2>1. busy' \subseteq Threads
        BY DEF IInv, TypeOK, Address, End, clients
    <2>2. QED
        BY <1>1, <1>2, <1>3, <2>1, FormedTyped DEF IInv, TypeOK, clients, bounds
<1>5. KnownRegistered'
    BY <1>1, <1>2, <1>3 DEF IInv, KnownRegistered, Threads
<1>6. SourcesSound'
    BY <1>1, <1>2, <1>3 DEF IInv, SourcesSound, Sound, Threads
<1>7. ListsKeyed' /\ LookupsSucceed' /\ Named'
    BY <1>1, <1>2, <1>3 DEF IInv, ListsKeyed, LookupsSucceed, Named, Threads
<1>8. QED
    BY <1>3, <1>4, <1>5, <1>6, <1>7 DEF IInv

\* Only a stranger has no record.
LEMMA AddressNullStep ==
    ASSUME IInv, NEW t \in Threads, AddressNull(t)
    PROVE  IInv'
<1>1. Formed'
    BY DEF IInv, Formed, TypeOK, Tasks, Steps, Threads, AddressNull, End, clients, bounds, Current
<1>2. TypeOK'
    BY <1>1, ServersAssumption DEF IInv, TypeOK, Formed, Tasks, Steps, Threads, AddressNull,
       End, clients, bounds, Current
<1>3. KnownRegistered'
    BY DEF IInv, KnownRegistered, Formed, Tasks, Threads, AddressNull, End, clients, bounds, Current
<1>4. SourcesSound'
    BY DEF IInv, SourcesSound, Sound, Formed, Tasks, TypeOK, Threads, AddressNull, End, clients,
       bounds, Current
<1>5. ListsKeyed'
    BY DEF IInv, ListsKeyed, Formed, Tasks, TypeOK, Threads, AddressNull, End, clients, bounds,
       Current
<1>6. LookupsSucceed' /\ Named'
    BY DEF IInv, LookupsSucceed, Named, SourcesSound, Sound, Formed, AddressNull, End, clients,
       Current
<1>7. QED
    BY <1>1, <1>2, <1>3, <1>4, <1>5, <1>6 DEF IInv

\* An answer starts: a download needs metadata, and has them unless somebody
\* asked for an unknown name.
LEMMA HeadStep ==
    ASSUME IInv, NEW t \in Threads, SendHead(t) \/ HeadNull(t)
    PROVE  IInv'
<1>1. /\ task[t].step = "head"
      /\ UNCHANGED <<maps, busy, raced, overrun, left, clients, bounds>>
    BY DEF SendHead, HeadNull, Sending
<1>2. /\ Formed'
      /\ \A o \in Threads \ {t} : task'[o] = task[o]
      /\ task'[t].step \in {"wait", "body", "head"}
      /\ task'[t].hash = task[t].hash \/ task'[t].step = "wait"
      /\ task'[t].ids = task[t].ids \/ Len(task'[t].ids) = 0
    <2>1. CASE task' = [task EXCEPT ![t] = Waiting]
        BY <2>1, FinishedTask DEF IInv
    <2>2. CASE Goto(t, "body")
        <3>1. /\ task' \in [Threads -> Tasks]
              /\ task'[t].step = "body" /\ task'[t].ids = task[t].ids
              /\ task'[t].hash = task[t].hash /\ task'[t].next = task[t].next
              /\ \A o \in Threads \ {t} : task'[o] = task[o]
            BY <2>2 DEF IInv, Formed, Tasks, Steps, Goto
        <3>2. QED
            BY <3>1 DEF IInv, Formed
    <2>3. CASE UNCHANGED task
        BY <1>1, <2>3 DEF IInv, Formed
    <2>4. QED
        BY <2>1, <2>2, <2>3 DEF SendHead, HeadNull, Finish
<1>3. TypeOK'
    <2>1. up' \in BOOLEAN
        BY DEF IInv, TypeOK, SendHead, HeadNull
    <2>2. QED
        BY <1>1, <1>2, <2>1, FormedTyped DEF IInv, TypeOK, maps, clients, bounds
<1>4. KnownRegistered'
    BY <1>1, <1>2 DEF IInv, KnownRegistered, Threads, maps, clients
<1>5. SourcesSound'
    BY <1>1, <1>2 DEF IInv, SourcesSound, Sound, Threads, maps, clients
<1>6. ListsKeyed' /\ Named'
    BY <1>1, <1>2 DEF IInv, ListsKeyed, Named, Threads, maps, clients
<1>7. LookupsSucceed'
    BY <1>1 DEF IInv, LookupsSucceed, Named, SendHead, HeadNull, clients
<1>8. QED
    BY <1>2, <1>3, <1>4, <1>5, <1>6, <1>7 DEF IInv

\* An answer ends, or its client has left.
LEMMA BodyStep ==
    ASSUME IInv, NEW t \in Threads, SendBody(t) \/ BodyBreaks(t)
    PROVE  IInv'
<1>1. /\ task[t].step = "body"
      /\ UNCHANGED <<maps, busy, raced, overrun, clients, bounds>>
    BY DEF SendBody, BodyBreaks, Sending
<1>2. /\ Formed'
      /\ \A o \in Threads \ {t} : task'[o] = task[o]
      /\ task'[t].step \in {"wait", "body"}
      /\ task'[t].ids = task[t].ids \/ Len(task'[t].ids) = 0
    <2>1. CASE task' = [task EXCEPT ![t] = Waiting]
        BY <2>1, FinishedTask DEF IInv
    <2>2. CASE UNCHANGED task
        BY <1>1, <2>2 DEF IInv, Formed
    <2>3. QED
        BY <2>1, <2>2 DEF SendBody, BodyBreaks, Finish
<1>3. TypeOK'
    <2>1. up' \in BOOLEAN /\ left' \in BOOLEAN
        BY DEF IInv, TypeOK, SendBody, BodyBreaks
    <2>2. QED
        BY <1>1, <1>2, <2>1, FormedTyped DEF IInv, TypeOK, maps, clients, bounds
<1>4. KnownRegistered'
    BY <1>1, <1>2 DEF IInv, KnownRegistered, Threads, maps, clients
<1>5. SourcesSound'
    BY <1>1, <1>2 DEF IInv, SourcesSound, Sound, Threads, maps, clients
<1>6. ListsKeyed' /\ Named'
    BY <1>1, <1>2 DEF IInv, ListsKeyed, Named, Threads, maps, clients
<1>7. LookupsSucceed'
    BY <1>1 DEF IInv, LookupsSucceed, SendBody, BodyBreaks, clients
<1>8. QED
    BY <1>2, <1>3, <1>4, <1>5, <1>6, <1>7 DEF IInv

\* A race or an overrun ends the hub.
LEMMA CrashStep ==
    ASSUME IInv, Crash
    PROVE  IInv'
<1>1. Formed'
    BY DEF IInv, Formed, TypeOK, Tasks, Steps, Threads, Crash, maps, clients, history, bounds
<1>2. TypeOK'
    BY <1>1, ServersAssumption DEF IInv, TypeOK, Formed, Tasks, Steps, Threads, Crash, maps,
       clients, history, bounds
<1>3. KnownRegistered'
    BY DEF IInv, KnownRegistered, Formed, Tasks, Threads, Crash, maps, clients, history, bounds
<1>4. SourcesSound'
    BY DEF IInv, SourcesSound, Sound, Formed, Tasks, TypeOK, Threads, Crash, maps, clients,
       history, bounds
<1>5. ListsKeyed'
    BY DEF IInv, ListsKeyed, Formed, Tasks, TypeOK, Threads, Crash, maps, clients, history, bounds
<1>6. LookupsSucceed' /\ Named'
    BY DEF IInv, LookupsSucceed, Named, Crash, maps, clients, history, bounds
<1>7. QED
    BY <1>1, <1>2, <1>3, <1>4, <1>5, <1>6 DEF IInv

\* Every step keeps the invariant.
LEMMA StepKeepsIInv == IInv /\ [Next]_vars => IInv'
<1> SUFFICES ASSUME IInv, [Next]_vars PROVE IInv'
    OBVIOUS
<1>1. ASSUME NEW u \in Uids, Join(u) \/ Hello(u) \/ \E h \in Hashes :
                                             Upload(u, h) \/ Acknowledge(u, h)
      PROVE  IInv'
    BY <1>1, AcceptDnodeStep
<1>2. ASSUME NEW h \in Keys, Download(h) \/ Query(h)
      PROVE  IInv'
    BY <1>2, LookupRequestStep
<1>3. ASSUME NEW p \in Hubs, HubJoin(p)
      PROVE  IInv'
    BY <1>3, HubJoinStep
<1>4. ASSUME NEW t \in Threads, Operation(t)
      PROVE  IInv'
    BY <1>4, BeginStep, FindDnodeStep, RegisterStep, FindStep, InsertStep, PushStep,
       CopyStep, AddressStep, AddressNullStep, HeadStep, BodyStep DEF Operation
<1>5. CASE Crash
    BY <1>5, CrashStep
<1>6. CASE UNCHANGED vars
    BY <1>6 DEF IInv, TypeOK, Formed, KnownRegistered, SourcesSound, Sound, ListsKeyed,
       Named, LookupsSucceed, vars, maps, clients, history, bounds
<1>7. QED
    BY <1>1, <1>2, <1>3, <1>4, <1>5, <1>6 DEF Next

\* A hub that starts has no tasks and no lists.
LEMMA InitKeepsIInv == Init => IInv
<1> SUFFICES ASSUME Init PROVE IInv
    OBVIOUS
<1>1. /\ task \in [Threads -> Tasks]
      /\ \A t \in Threads : task[t] = Waiting
      /\ sources \in [Keys -> Seq(Uids)]
      /\ \A h \in Keys : sources[h] = <<>> /\ Len(sources[h]) = 0
    BY WaitingFacts, EmptySeq DEF Init
<1>2. Formed
    BY <1>1, WaitingFacts DEF Formed
<1>3. TypeOK
    <2>1. \A t \in Threads :
            /\ task[t].step \in Steps
            /\ task[t].uid \in Uids \cup {Nil} /\ task[t].hash \in Keys \cup {Nil}
            /\ task[t].ids \in Seq(Uids)
            /\ task[t].next \in 0 .. Len(task[t].ids)
        BY <1>2 DEF Formed, Tasks
    <2>2. {up, raced, overrun, unknown, left} \subseteq BOOLEAN
        BY DEF Init
    <2>3. /\ hashes \subseteq Keys /\ uploaded \subseteq Hashes /\ dnodes \subseteq Uids
          /\ known \subseteq Uids /\ strangers \subseteq Uids
          /\ peers \subseteq Hubs /\ busy \subseteq Threads
        BY DEF Init
    <2>4. dnodeReqs \in 0 .. MaxDnodeReqs /\ hubReqs \in 0 .. MaxHubReqs
        BY ServersAssumption DEF Init
    <2>5. QED
        BY <1>1, <2>1, <2>2, <2>3, <2>4 DEF TypeOK
<1>4. KnownRegistered /\ Named /\ SourcesSound /\ ListsKeyed /\ LookupsSucceed
    BY <1>1, WaitingFacts
       DEF Init, KnownRegistered, Named, SourcesSound, ListsKeyed, LookupsSucceed, Threads
<1>5. QED
    BY <1>2, <1>3, <1>4 DEF IInv

\* IInv is an inductive invariant.
THEOREM Invariance == Spec => []IInv
BY InitKeepsIInv, StepKeepsIInv, PTL DEF Spec

\* Type correctness of the two server threads.
THEOREM TypeCorrect == Spec => []TypeOK
BY Invariance, PTL DEF IInv

\* Neither server thread of the hub dereferences a null pointer, whatever the
\* other one does between its operations, unless operations collide, an answer
\* overruns its memory, a client leaves before its answer, a source never
\* joined or a name was never uploaded.
THEOREM LookupsDoSucceed == Spec => []LookupsSucceed
BY Invariance, PTL DEF IInv

\* A sequence is a prefix of itself.
LEMMA PrefixOfItself ==
    ASSUME NEW S, NEW s \in Seq(S)
    PROVE  IsPrefix(s, s)
BY DEF IsPrefix

\* Appending keeps what is there as a prefix.
LEMMA AppendKeepsPrefix ==
    ASSUME NEW S, NEW s \in Seq(S), NEW e \in S
    PROVE  IsPrefix(s, Append(s, e))
<1>1. /\ Append(s, e) \in Seq(S)
      /\ Len(s) \in Nat /\ Len(Append(s, e)) = Len(s) + 1
      /\ \A i \in 1 .. Len(s) : Append(s, e)[i] = s[i] /\ s[i] \in S
    BY AppendProperties, LenProperties, ElementOfSeq
<1> DEFINE p == SubSeq(s, 1, Len(s))
           q == SubSeq(Append(s, e), 1, Len(s))
<1>2. p \in Seq(S) /\ Len(p) = Len(s) /\ \A i \in 1 .. Len(s) : p[i] = s[i]
    BY <1>1, SubSeqProperties
<1>3. q \in Seq(S) /\ Len(q) = Len(s) /\ \A i \in 1 .. Len(s) : q[i] = s[i]
    BY <1>1, SubSeqProperties
<1> HIDE DEF p, q
<1>4. p = q
    BY <1>2, <1>3, SeqEqual
<1>5. QED
    BY <1>1, <1>4 DEF p, q, IsPrefix

\* No step takes a source off a list: an upload assigns the empty list only
\* while there is none, although it looked before, and the other thread may
\* have been there since.
LEMMA StepKeepsSources ==
    IInv /\ [Next]_vars => \A h \in Keys : IsPrefix(sources[h], sources'[h])
<1> SUFFICES ASSUME IInv, [Next]_vars, NEW h \in Keys
             PROVE  IsPrefix(sources[h], sources'[h])
    OBVIOUS
<1>1. sources[h] \in Seq(Uids)
    BY DEF IInv, TypeOK
<1>2. CASE UNCHANGED sources
    BY <1>1, <1>2, PrefixOfItself
<1>3. ASSUME NEW t \in Threads, Insert(t)
      PROVE  IsPrefix(sources[h], sources'[h])
    <2>1. sources' = sources
        BY <1>3 DEF IInv, TypeOK, Formed, ListsKeyed, Insert, End, clients
    <2>2. QED
        BY <1>2, <2>1
<1>4. ASSUME NEW t \in Threads, Push(t)
      PROVE  IsPrefix(sources[h], sources'[h])
    <2>1. PICK u \in Uids :
            sources'[h] = sources[h] \/ sources'[h] = Append(sources[h], u)
        BY <1>4 DEF IInv, TypeOK, Formed, Push, End, clients
    <2>2. QED
        BY <1>1, <2>1, PrefixOfItself, AppendKeepsPrefix
<1>5. \/ UNCHANGED sources
      \/ \E t \in Threads : Insert(t) \/ Push(t)
    BY DEF Next, Operation, Join, Hello, Upload, Acknowledge, Source, Download, Query, HubJoin,
       AcceptDnode,
           AcceptHub, Accept, Begin, FindDnode, Update, Register, Find, Copy, Address,
           AddressNull, SendHead, HeadNull, SendBody, BodyBreaks, Sending, Crash, vars, maps
<1>6. QED
    BY <1>2, <1>3, <1>4, <1>5

\* The lists of sources only grow at their ends.
THEOREM SourcesAreKept == Spec => SourcesKept
<1>1. IInv /\ [Next]_vars =>
        [~raced' /\ ~overrun' => \A h \in Keys : IsPrefix(sources[h], sources'[h])]_vars
    BY StepKeepsSources
<1>2. QED
    BY <1>1, Invariance, PTL DEF Spec, SourcesKept

=============================================================================
