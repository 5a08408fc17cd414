-------------------------- MODULE HubRegistryProofs --------------------------
(***************************************************************************)
(* The hub's registry for every number of dnodes, names, contents, kills   *)
(* and restarts.                                                           *)
(*                                                                         *)
(* Three invariants, each on top of the one before.  Connected: what waits *)
(* in the backlog fits the dnode that waits for it.  Owned: a uid that a   *)
(* hub handed out goes from the answer to the dnode's memory, to its disk, *)
(* into its requests and onto the lists of sources, always with the dnode  *)
(* that has it on disk at the end.  Registered: each of these uids has an  *)
(* address at the hub that runs, or comes from a dnode it never answered.  *)
(***************************************************************************)
EXTENDS HubRegistry, SequenceTheorems, TLAPS

Phases ==
    {"off", "join", "joining", "create", "write", "hello", "helloing", "running", "asking",
     "fetching", "stuck"}

\* The phase in which a dnode waits for the answer to a request.
WaitPhase ==
    [k \in {"join", "hello", "download"} |->
        CASE k = "join" -> "joining" [] k = "hello" -> "helloing" [] k = "download" -> "asking"]

\* A request has what its handler uses.
Shaped(r) ==
    /\ r.kind = "upload" => r.name \in Names /\ r.hash \in Hashes
    /\ r.kind = "download" /\ r.end # "cut" => r.name \in Names
    /\ r.kind = "ack" /\ r.end # "cut" => r.hash \in Hashes

\* The dnode of an open connection waits for the answer to this request.
Awaited(r) ==
    r.end = "open" =>
        /\ r.kind \in {"join", "hello", "download"}
        /\ phase[r.from] = WaitPhase[r.kind]
        /\ uid[r.from] = r.uid

Connected ==
    /\ TypeOK
    /\ \A i \in DOMAIN backlog : Shaped(backlog[i]) /\ Awaited(backlog[i])

\* The uids that a hub hands out.
Handed == 1 .. MaxNow

\* Phases in which a dnode works with the uid on its disk.
Settled == {"hello", "helloing", "running", "asking", "fetching"}

OnDisk(d, u) == u \in Handed => uidFile[d] = u

\* A dnode has been handed the uids it has, and does not get a new one over
\* one on its disk.
Owner(d) ==
    /\ uid[d] \in Handed => d \in given[uid[d]]
    /\ uidFile[d] \in Handed => d \in given[uidFile[d]]
    /\ phase[d] \in {"join", "joining", "create", "write"} => uidFile[d] \notin Handed
    /\ phase[d] \in Settled => OnDisk(d, uid[d])

Owned ==
    /\ \A u \in Uids \ Handed : given[u] = {}
    /\ \A d \in Dnodes : Owner(d)
    /\ \A i \in DOMAIN backlog :
        backlog[i].kind \in {"upload", "ack"} => OnDisk(backlog[i].from, backlog[i].uid)
    /\ \A h \in Hashes : \A i \in DOMAIN sources[h] :
        \E d \in Dnodes : OnDisk(d, sources[h][i])

\* The hub does not hang within a request.
Free == hub # "spin"

\* A dnode that the hub has answered has an address; one that starts has not
\* been answered.
Known(d) ==
    d \in registered =>
        /\ dnodesMap[uid[d]] # Nil
        /\ phase[d] \notin {"join", "joining", "hello", "helloing"}

Accounted(u) == dnodesMap[u] # Nil \/ u \in strangers

Listable(r) ==
    r.kind \in {"upload", "ack"} /\ r.end # "cut" => Accounted(r.uid)

Stored(n) == fname[n] # Nil => fname[n] \in indexed /\ sources[fname[n]] # <<>>

Registered ==
    Free =>
        /\ \A d \in Dnodes : Known(d)
        /\ \A i \in DOMAIN backlog : Listable(backlog[i])
        /\ \A h \in Hashes : \A i \in DOMAIN sources[h] : Accounted(sources[h][i])
        /\ \A n \in Names : Stored(n)

-----------------------------------------------------------------------------
(* The backlog. *)

\* What the assumption says of uids.
LEMMA Constants ==
    /\ Handed \subseteq Uids /\ 0 \in Uids /\ Junk \in Uids
    /\ Uninitialised \subseteq Uids \ Handed
    /\ Nil \notin Uids /\ Torn \notin Uids /\ Nil # Torn
    /\ Uids \subseteq Int
BY RegistryAssumption DEF Handed, Uids, Junk, Torn, Uninitialised

\* A request as a dnode makes it.
LEMMA RequestFacts ==
    ASSUME TypeOK, NEW d \in Dnodes, NEW n \in Names \cup {Nil}, NEW h \in Hashes \cup {Nil},
           NEW kind \in {"join", "hello", "upload", "download", "ack"},
           NEW end \in {"open", "closed", "cut"}
    PROVE  LET r == Request(kind, d, n, h, end) IN
           /\ r \in Requests
           /\ r.kind = kind /\ r.from = d /\ r.uid = uid[d]
           /\ r.name = n /\ r.hash = h /\ r.end = end
BY DEF TypeOK, Request, Requests

\* Elements of the backlog.
LEMMA BacklogFacts ==
    ASSUME TypeOK
    PROVE  /\ Len(backlog) \in Nat
           /\ DOMAIN backlog = 1 .. Len(backlog)
           /\ \A i \in DOMAIN backlog : backlog[i] \in Requests
BY LenProperties, ElementOfSeq DEF TypeOK

\* A request that is sent is the last one.
LEMMA Sent ==
    ASSUME TypeOK, NEW r \in Requests, Send(r)
    PROVE  /\ backlog' \in Seq(Requests) /\ Len(backlog') <= MaxBacklog
           /\ DOMAIN backlog' = DOMAIN backlog \cup {Len(backlog) + 1}
           /\ Len(backlog) + 1 \notin DOMAIN backlog
           /\ backlog'[Len(backlog) + 1] = r
           /\ \A i \in DOMAIN backlog : backlog'[i] = backlog[i]
<1>1. backlog' = Append(backlog, r) /\ Len(backlog) < MaxBacklog
    BY DEF Send
<1>2. /\ backlog' \in Seq(Requests) /\ Len(backlog') = Len(backlog) + 1
      /\ \A i \in 1 .. Len(backlog) : backlog'[i] = backlog[i]
      /\ backlog'[Len(backlog) + 1] = r
    BY <1>1, AppendProperties DEF TypeOK
<1>3. DOMAIN backlog' = 1 .. Len(backlog) + 1
    BY <1>2, LenProperties
<1>4. QED
    BY <1>1, <1>2, <1>3, BacklogFacts, RegistryAssumption

\* The request that is served was the first one.
LEMMA Served ==
    ASSUME TypeOK, NEW kind, Serve(kind)
    PROVE  /\ 1 \in DOMAIN backlog /\ Head(backlog) = backlog[1]
           /\ backlog[1] \in Requests
           /\ backlog[1].kind = kind /\ backlog[1].end # "cut"
           /\ backlog' \in Seq(Requests) /\ Len(backlog') <= MaxBacklog
           /\ \A i \in DOMAIN backlog' : i + 1 \in DOMAIN backlog /\ backlog'[i] = backlog[i + 1]
           /\ \A i \in DOMAIN backlog \ {1} : i - 1 \in DOMAIN backlog' /\ backlog'[i - 1] = backlog[i]
           /\ DOMAIN backlog' \subseteq Nat \ {0}
<1>1. /\ backlog # <<>> /\ backlog' = Tail(backlog)
      /\ Head(backlog).kind = kind /\ Head(backlog).end # "cut"
    BY DEF Serve
<1>2. /\ backlog' \in Seq(Requests) /\ Len(backlog') = Len(backlog) - 1
      /\ \A i \in 1 .. Len(backlog') : backlog'[i] = backlog[i + 1]
    BY <1>1, HeadTailProperties DEF TypeOK
<1>3. DOMAIN backlog' = 1 .. Len(backlog')
    BY <1>2, LenProperties
<1>4. Len(backlog) >= 1 /\ Head(backlog) = backlog[1]
    BY <1>1, EmptySeq DEF TypeOK
<1>5. DOMAIN backlog = 1 .. Len(backlog) /\ Len(backlog) <= MaxBacklog /\ Len(backlog) \in Nat
    BY BacklogFacts DEF TypeOK
<1>6. \A i \in DOMAIN backlog \ {1} : i - 1 \in DOMAIN backlog' /\ backlog'[i - 1] = backlog[i]
    BY <1>2, <1>3, <1>5
<1>7. Len(backlog') <= MaxBacklog
    BY <1>2, <1>5, RegistryAssumption
<1>8. QED
    BY <1>1, <1>2, <1>3, <1>4, <1>5, <1>6, <1>7, BacklogFacts

\* A dnode that is killed closes its connections.
LEMMA Hangup ==
    ASSUME TypeOK, NEW d \in Dnodes, KillDnode(d)
    PROVE  /\ backlog' \in Seq(Requests) /\ Len(backlog') <= MaxBacklog
           /\ DOMAIN backlog' = DOMAIN backlog
           /\ \A i \in DOMAIN backlog :
                /\ backlog'[i] \in Requests
                /\ backlog'[i].kind = backlog[i].kind /\ backlog'[i].from = backlog[i].from
                /\ backlog'[i].uid = backlog[i].uid /\ backlog'[i].name = backlog[i].name
                /\ backlog'[i].hash = backlog[i].hash
                /\ backlog'[i].end = IF backlog[i].from = d /\ backlog[i].end = "open"
                                     THEN "closed" ELSE backlog[i].end
<1> DEFINE e(i) == IF backlog[i].from = d /\ backlog[i].end = "open"
                   THEN [backlog[i] EXCEPT !.end = "closed"]
                   ELSE backlog[i]
<1>1. backlog' = [i \in 1 .. Len(backlog) |-> e(i)]
    BY BacklogFacts DEF KillDnode
<1>2. ASSUME NEW i \in 1 .. Len(backlog)
      PROVE  /\ e(i) \in Requests
             /\ e(i).kind = backlog[i].kind /\ e(i).from = backlog[i].from
             /\ e(i).uid = backlog[i].uid /\ e(i).name = backlog[i].name
             /\ e(i).hash = backlog[i].hash
             /\ e(i).end = IF backlog[i].from = d /\ backlog[i].end = "open"
                           THEN "closed" ELSE backlog[i].end
    BY BacklogFacts DEF Requests
<1> HIDE DEF e
<1>3. backlog' \in [1 .. Len(backlog) -> Requests]
    BY <1>1, <1>2
<1>4. backlog' \in Seq(Requests) /\ DOMAIN backlog' = 1 .. Len(backlog)
    BY <1>3, SeqDef, BacklogFacts
<1>5. Len(backlog') = Len(backlog)
    BY <1>4, LenProperties, BacklogFacts
<1>6. QED
    BY <1>1, <1>2, <1>4, <1>5, BacklogFacts DEF TypeOK

-----------------------------------------------------------------------------
(* Connected is inductive. *)

\* A dnode that does not wait has no open connection.
LEMMA NoneOpen ==
    ASSUME Connected, NEW d \in Dnodes, phase[d] \notin {"joining", "helloing", "asking"},
           NEW i \in DOMAIN backlog, backlog[i].from = d
    PROVE  backlog[i].end # "open"
BY DEF Connected, Awaited, WaitPhase

\* The steps of a dnode that neither send nor fetch.
Local(d) ==
    \/ StartDnode(d) \/ JoinUnreachable(d) \/ CreateUidFile(d) \/ WriteUidFile(d)
    \/ HelloUnreachable(d) \/ DownloadUnreachable(d) \/ CutOff(d)

\* What a local step leaves alone and where it may lead.
LEMMA LocalFrame ==
    ASSUME TypeOK, NEW d \in Dnodes, Local(d)
    PROVE  /\ UNCHANGED <<hubVars, now, backlog, want, given, strangers>>
           /\ registered' \subseteq registered
           /\ phase' \in [Dnodes -> Phases]
           /\ phase[d] # "fetching" /\ phase'[d] # "fetching"
           /\ phase'[d] \in {"off", "join", "create", "write", "hello", "running", "stuck"}
           /\ uid' \in [Dnodes -> Uids]
           /\ uidFile' \in [Dnodes -> Uids \cup {Nil, Torn}]
           /\ \A e \in Dnodes \ {d} :
                phase'[e] = phase[e] /\ uid'[e] = uid[e] /\ uidFile'[e] = uidFile[e]
<1>1. CASE StartDnode(d)
    <2>1. PICK u \in Uids : uid' = [uid EXCEPT ![d] = u]
        BY <1>1, Constants DEF StartDnode, TypeOK
    <2>2. QED
        BY <1>1, <2>1 DEF StartDnode, Goto, TypeOK, Phases
<1>2. CASE JoinUnreachable(d)
    BY <1>2, Constants DEF JoinUnreachable, Goto, TypeOK, Phases, known
<1>3. CASE CreateUidFile(d)
    BY <1>3 DEF CreateUidFile, Goto, TypeOK, Phases, known
<1>4. CASE WriteUidFile(d)
    BY <1>4 DEF WriteUidFile, Goto, TypeOK, Phases, known
<1>5. CASE HelloUnreachable(d)
    BY <1>5 DEF HelloUnreachable, Goto, TypeOK, Phases, known
<1>6. CASE DownloadUnreachable(d)
    BY <1>6 DEF DownloadUnreachable, Goto, TypeOK, Phases, known
<1>7. CASE CutOff(d)
    <2>1. PICK p \in {"stuck", "create", "running", "off"} : phase' = [phase EXCEPT ![d] = p]
        BY <1>7 DEF CutOff, Goto
    <2>2. \/ uid' = uid
          \/ \E u \in Uninitialised : uid' = [uid EXCEPT ![d] = u]
        BY <1>7 DEF CutOff
    <2>3. uid' \in [Dnodes -> Uids] /\ \A e \in Dnodes \ {d} : uid'[e] = uid[e]
        BY <2>2, Constants DEF TypeOK
    <2>4. /\ UNCHANGED <<hubVars, now, backlog, uidFile, want, given, known>>
          /\ phase[d] # "fetching"
        BY <1>7 DEF CutOff
    <2>5. QED
        BY <2>1, <2>3, <2>4 DEF TypeOK, Phases, known
<1>8. QED
    BY <1>1, <1>2, <1>3, <1>4, <1>5, <1>6, <1>7 DEF Local

\* Connected, for the steps of a dnode that touch no connection.
LEMMA LocalConnected ==
    ASSUME Connected, NEW d \in Dnodes, Local(d)
    PROVE  Connected'
<1>1. ASSUME NEW i \in DOMAIN backlog, backlog[i].from = d
      PROVE  backlog[i].end # "open"
    BY <1>1, NoneOpen DEF Local, StartDnode, JoinUnreachable, CreateUidFile, WriteUidFile,
       HelloUnreachable, DownloadUnreachable, CutOff
<1>2. TypeOK'
    BY LocalFrame DEF Connected, TypeOK, Phases, hubVars, maps
<1>3. ASSUME NEW i \in DOMAIN backlog PROVE Shaped(backlog[i])' /\ Awaited(backlog[i])'
    <2>1. backlog' = backlog
        BY LocalFrame DEF Connected
    <2>2. backlog[i].from \in Dnodes
        BY BacklogFacts DEF Connected, Requests
    <2>3. QED
        BY <1>1, <2>1, <2>2, LocalFrame DEF Connected, Shaped, Awaited
<1>4. QED
    BY <1>2, <1>3, LocalFrame DEF Connected

\* A request that opens a connection, and the phase of its dnode then.
LEMMA OpenConnected ==
    ASSUME Connected, NEW d \in Dnodes, SendJoin(d) \/ SendHello(d) \/ SendDownload(d)
    PROVE  Connected'
<1>1. PICK kind \in {"join", "hello", "download"}, n \in Names \cup {Nil} :
        /\ Send(Request(kind, d, n, Nil, "open"))
        /\ kind = "download" => n \in Names
        /\ phase' = [phase EXCEPT ![d] = WaitPhase[kind]]
        /\ phase[d] \in {"join", "hello", "running"}
    BY DEF SendJoin, SendHello, SendDownload, Goto, WaitPhase
<1>2. UNCHANGED <<hubVars, now, uid, uidFile, want, given, known>>
    BY DEF SendJoin, SendHello, SendDownload
<1> DEFINE r == Request(kind, d, n, Nil, "open")
           k == Len(backlog) + 1
<1>3. /\ r \in Requests /\ r.kind = kind /\ r.from = d /\ r.uid = uid[d]
      /\ r.name = n /\ r.end = "open"
    BY RequestFacts DEF Connected
<1>4. /\ backlog' \in Seq(Requests) /\ Len(backlog') <= MaxBacklog
      /\ DOMAIN backlog' = DOMAIN backlog \cup {k} /\ k \notin DOMAIN backlog
      /\ backlog'[k] = r
      /\ \A i \in DOMAIN backlog : backlog'[i] = backlog[i]
    BY <1>1, <1>3, Sent DEF Connected
<1> HIDE DEF r, k
<1>5. \A i \in DOMAIN backlog : backlog[i].from = d => backlog[i].end # "open"
    BY <1>1, NoneOpen
<1>6. phase'[d] = WaitPhase[kind] /\ \A e \in Dnodes \ {d} : phase'[e] = phase[e]
    BY <1>1 DEF Connected, TypeOK
<1>7. TypeOK'
    <2>1. /\ phase' \in [Dnodes -> Phases]
          /\ phase'[d] # "fetching"
        BY <1>1 DEF Connected, TypeOK, WaitPhase, Phases
    <2>2. \A e \in Dnodes : want'[e] # Nil <=> phase'[e] = "fetching"
        BY <1>1, <1>2, <1>6, <2>1 DEF Connected, TypeOK
    <2>3. \A e \in Dnodes : \A i, j \in DOMAIN backlog' :
            (/\ backlog'[i].from = e /\ backlog'[i].end = "open"
             /\ backlog'[j].from = e /\ backlog'[j].end = "open") => i = j
        BY <1>3, <1>4, <1>5 DEF Connected, TypeOK
    <2>4. QED
        BY <1>2, <1>4, <2>1, <2>2, <2>3 DEF Connected, TypeOK, Phases, hubVars, maps, known
<1>8. ASSUME NEW i \in DOMAIN backlog' PROVE Shaped(backlog'[i]) /\ Awaited(backlog[i])'
    <2>1. CASE i = k
        BY <1>1, <1>2, <1>3, <1>4, <1>6, <2>1 DEF Shaped, Awaited
    <2>2. CASE i \in DOMAIN backlog
        <3>1. backlog[i].from \in Dnodes
            BY <2>2, BacklogFacts DEF Connected, Requests
        <3>2. QED
            BY <1>2, <1>4, <1>5, <1>6, <2>2, <3>1 DEF Connected, Shaped, Awaited
    <2>3. QED
        BY <1>4, <2>1, <2>2
<1>9. QED
    BY <1>7, <1>8 DEF Connected, Shaped

\* The steps of a dnode that send without waiting for an answer.
Posting(d) == Upload(d) \/ Acknowledge(d) \/ KillSendingDnode(d)

\* A request that is all sent comes from a dnode the hub has answered, or the
\* dnode is noted as a stranger.
Vouched(d, r) == r.end # "cut" => d \in registered \/ uid[d] \in strangers'

\* A posted request is closed, or was cut; its dnode does not wait.
LEMMA PostFrame ==
    ASSUME Connected, NEW d \in Dnodes, Posting(d)
    PROVE  /\ UNCHANGED <<hubVars, now, uid, uidFile, given, registered>>
           /\ phase' \in [Dnodes -> Phases] /\ want' \in [Dnodes -> Hashes \cup {Nil}]
           /\ want'[d] = Nil /\ phase'[d] \in {"running", "off"}
           /\ phase[d] \in {"join", "hello", "running", "fetching"}
           /\ phase'[d] = "running" => phase[d] \in {"running", "fetching"}
           /\ \A e \in Dnodes \ {d} : phase'[e] = phase[e] /\ want'[e] = want[e]
           /\ strangers \subseteq strangers' /\ strangers' \subseteq Uids
           /\ \/ UNCHANGED backlog
              \/ \E r \in Requests :
                    /\ Send(r) /\ Vouched(d, r)
                    /\ Shaped(r) /\ r.from = d /\ r.uid = uid[d] /\ r.end # "open"
                    /\ r.kind \in {"upload", "ack"} => phase[d] \in {"running", "fetching"}
<1>1. CASE Upload(d)
    <2>1. PICK n \in Names, h \in Hashes :
            Post("upload", d, n, h)
        BY <1>1 DEF Upload
    <2> DEFINE r == Request("upload", d, n, h, "closed")
    <2>2. r \in Requests /\ Shaped(r) /\ r.from = d /\ r.uid = uid[d] /\ r.end # "open"
        BY RequestFacts DEF Connected, Shaped
    <2> HIDE DEF r
    <2>3. want[d] = Nil /\ phase[d] = "running"
        BY <1>1 DEF Upload, Connected, TypeOK
    <2>6. /\ strangers \subseteq strangers' /\ strangers' \subseteq Uids
          /\ UNCHANGED backlog \/ (Send(r) /\ Vouched(d, r))
        BY <2>1, <2>2 DEF r, Post, Vouched, Connected, TypeOK
    <2>4. \/ UNCHANGED backlog
          \/ \E q \in Requests :
                /\ Send(q) /\ Vouched(d, q)
                /\ Shaped(q) /\ q.from = d /\ q.uid = uid[d] /\ q.end # "open"
                /\ q.kind \in {"upload", "ack"} => phase[d] \in {"running", "fetching"}
        BY <2>2, <2>3, <2>6
    <2>5. QED
        BY <1>1, <2>3, <2>4, <2>6 DEF Upload, Connected, TypeOK, Phases
<1>2. CASE Acknowledge(d)
    <2> DEFINE r == Request("ack", d, Nil, want[d], "closed")
    <2>1. want[d] \in Hashes /\ phase[d] = "fetching"
        BY <1>2 DEF Acknowledge, Connected, TypeOK
    <2>2. r \in Requests /\ Shaped(r) /\ r.from = d /\ r.uid = uid[d] /\ r.end # "open"
        BY <2>1, RequestFacts DEF Connected, Shaped
    <2>3. Post("ack", d, Nil, want[d])
        BY <1>2 DEF Acknowledge
    <2> HIDE DEF r
    <2>6. /\ strangers \subseteq strangers' /\ strangers' \subseteq Uids
          /\ UNCHANGED backlog \/ (Send(r) /\ Vouched(d, r))
        BY <2>2, <2>3 DEF r, Post, Vouched, Connected, TypeOK
    <2>4. \/ UNCHANGED backlog
          \/ \E q \in Requests :
                /\ Send(q) /\ Vouched(d, q)
                /\ Shaped(q) /\ q.from = d /\ q.uid = uid[d] /\ q.end # "open"
                /\ q.kind \in {"upload", "ack"} => phase[d] \in {"running", "fetching"}
        BY <2>1, <2>2, <2>6
    <2>5. QED
        BY <1>2, <2>1, <2>4, <2>6 DEF Acknowledge, Goto, Connected, TypeOK, Phases
<1>3. CASE KillSendingDnode(d)
    <2>1. PICK kind \in {"join", "hello", "upload", "download", "ack"},
               n \in Names \cup {Nil}, h \in Hashes \cup {Nil} :
            /\ Send(Request(kind, d, n, h, "cut"))
            /\ kind = "upload" => n \in Names /\ h \in Hashes
            /\ phase[d] \in {"join", "hello", "running", "fetching"}
            /\ kind \in {"upload", "ack"} => phase[d] \in {"running", "fetching"}
        BY <1>3 DEF KillSendingDnode
    <2> DEFINE r == Request(kind, d, n, h, "cut")
    <2>2. /\ r \in Requests /\ Shaped(r) /\ r.kind = kind
          /\ r.from = d /\ r.uid = uid[d] /\ r.end = "cut" /\ Vouched(d, r)
        BY <2>1, RequestFacts DEF Connected, Shaped, Vouched
    <2> HIDE DEF r
    <2>3. \E q \in Requests :
            /\ Send(q) /\ Vouched(d, q)
            /\ Shaped(q) /\ q.from = d /\ q.uid = uid[d] /\ q.end # "open"
            /\ q.kind \in {"upload", "ack"} => phase[d] \in {"running", "fetching"}
        BY <2>1, <2>2 DEF r
    <2>4. QED
        BY <1>3, <2>1, <2>3 DEF KillSendingDnode, Goto, Connected, TypeOK, Phases, known
<1>4. QED
    BY <1>1, <1>2, <1>3 DEF Posting

\* Connected, for the steps that queue an upload or an acknowledgement.
LEMMA PostConnected ==
    ASSUME Connected, NEW d \in Dnodes, Posting(d)
    PROVE  Connected'
<1>1. /\ backlog' \in Seq(Requests) /\ Len(backlog') <= MaxBacklog
      /\ \A i \in DOMAIN backlog' :
            \/ i \in DOMAIN backlog /\ backlog'[i] = backlog[i]
            \/ backlog'[i].end # "open" /\ Shaped(backlog'[i])
    <2>1. CASE UNCHANGED backlog
        BY <2>1 DEF Connected, TypeOK
    <2>2. ASSUME NEW r \in Requests, Send(r), Shaped(r), r.end # "open"
          PROVE  <1>1
        BY <2>2, Sent DEF Connected
    <2>3. QED
        BY <2>1, <2>2, PostFrame
<1>2. ASSUME NEW i \in DOMAIN backlog, backlog[i].from = d
      PROVE  backlog[i].end # "open"
    BY <1>2, NoneOpen, PostFrame
<1>3. TypeOK'
    <2>1. ASSUME NEW e \in Dnodes PROVE want'[e] # Nil <=> phase'[e] = "fetching"
        <3>1. CASE e = d
            BY <3>1, PostFrame
        <3>2. CASE e # d
            BY <3>2, PostFrame DEF Connected, TypeOK
        <3>3. QED
            BY <3>1, <3>2
    <2>2. \A e \in Dnodes : \A i, j \in DOMAIN backlog' :
            (/\ backlog'[i].from = e /\ backlog'[i].end = "open"
             /\ backlog'[j].from = e /\ backlog'[j].end = "open") => i = j
        BY <1>1 DEF Connected, TypeOK
    <2>3. QED
        BY <1>1, <2>1, <2>2, PostFrame DEF Connected, TypeOK, Phases, hubVars, maps
<1>4. ASSUME NEW i \in DOMAIN backlog' PROVE Shaped(backlog'[i]) /\ Awaited(backlog[i])'
    <2>1. CASE i \in DOMAIN backlog /\ backlog'[i] = backlog[i]
        <3>1. backlog[i].from \in Dnodes
            BY <2>1, BacklogFacts DEF Connected, Requests
        <3>2. QED
            BY <1>2, <2>1, <3>1, PostFrame DEF Connected, Awaited
    <2>2. CASE backlog'[i].end # "open" /\ Shaped(backlog'[i])
        BY <2>2 DEF Awaited
    <2>3. QED
        BY <1>1, <2>1, <2>2
<1>5. QED
    BY <1>3, <1>4 DEF Connected, Shaped

\* The types of the variables other than the backlog.
Typed ==
    /\ hub \in {"up", "spin", "down"}
    /\ now \in 1 .. MaxNow
    /\ dnodesMap \in [Uids -> Dnodes \cup {Nil}]
    /\ sources \in [Hashes -> Seq(Uids)]
    /\ indexed \subseteq Hashes
    /\ fname \in [Names -> Hashes \cup {Nil}]
    /\ phase \in [Dnodes -> Phases]
    /\ uid \in [Dnodes -> Uids]
    /\ uidFile \in [Dnodes -> Uids \cup {Nil, Torn}]
    /\ want \in [Dnodes -> Hashes \cup {Nil}]
    /\ given \in [Uids -> SUBSET Dnodes]
    /\ registered \subseteq Dnodes /\ strangers \subseteq Uids

\* An answer may change its dnode only, which has no other connection open.
LEMMA ServeConnected ==
    ASSUME Connected, NEW kind, Serve(kind), Typed',
           NEW d \in Dnodes, d = backlog[1].from,
           \A e \in Dnodes : ~(e = d /\ backlog[1].end = "open") =>
                phase'[e] = phase[e] /\ uid'[e] = uid[e] /\ want'[e] = want[e],
           backlog[1].end = "open" => (want'[d] # Nil <=> phase'[d] = "fetching")
    PROVE  Connected'
<1>1. /\ 1 \in DOMAIN backlog
      /\ backlog' \in Seq(Requests) /\ Len(backlog') <= MaxBacklog
      /\ DOMAIN backlog' \subseteq Nat \ {0}
      /\ \A i \in DOMAIN backlog' : i + 1 \in DOMAIN backlog /\ backlog'[i] = backlog[i + 1]
    BY Served DEF Connected
<1>2. TypeOK'
    <2>1. \A e \in Dnodes : want'[e] # Nil <=> phase'[e] = "fetching"
        BY DEF Connected, TypeOK
    <2>2. ASSUME NEW e \in Dnodes, NEW i \in DOMAIN backlog', NEW j \in DOMAIN backlog',
                 backlog'[i].from = e /\ backlog'[i].end = "open",
                 backlog'[j].from = e /\ backlog'[j].end = "open"
          PROVE  i = j
        <3>1. i + 1 = j + 1
            BY <1>1, <2>2 DEF Connected, TypeOK
        <3>2. QED
            BY <1>1, <3>1
    <2>3. QED
        BY <1>1, <2>1, <2>2 DEF Typed, TypeOK, Phases
<1>3. ASSUME NEW i \in DOMAIN backlog' PROVE Shaped(backlog'[i]) /\ Awaited(backlog[i])'
    <2>1. /\ i + 1 \in DOMAIN backlog /\ backlog'[i] = backlog[i + 1]
          /\ backlog[i + 1].from \in Dnodes /\ i + 1 # 1
        BY <1>1, BacklogFacts DEF Connected, Requests
    <2>2. backlog[1].end = "open" /\ backlog[i + 1].end = "open" => backlog[i + 1].from # d
        BY <1>1, <2>1 DEF Connected, TypeOK
    <2>3. QED
        BY <2>1, <2>2 DEF Connected, Shaped, Awaited
<1>4. QED
    BY <1>2, <1>3 DEF Connected, Shaped

\* The hub serves the first request of its backlog.
Handling == HandleJoin \/ HandleHello \/ HandleUpload \/ HandleAck \/ HandleDownload

\* Connected, for a request that the hub serves.
LEMMA HandleConnected ==
    ASSUME Connected, Handling
    PROVE  Connected'
<1>1. Typed
    BY DEF Connected, TypeOK, Typed, Phases
<1> DEFINE r == backlog[1]
<1>2. CASE HandleJoin
    <2>1. Serve("join") /\ r = Head(backlog) /\ r \in Requests
        BY <1>2, Served DEF HandleJoin, Connected
    <2>2. r.from \in Dnodes
        BY <2>1 DEF Requests
    <2>3. Typed'
        BY <1>1, <1>2, <2>1, <2>2, Constants DEF Typed, HandleJoin, Answer, Registers, Phases,
           Handed
    <2>4. \A e \in Dnodes : ~(e = r.from /\ r.end = "open") =>
                phase'[e] = phase[e] /\ uid'[e] = uid[e] /\ want'[e] = want[e]
        BY <1>1, <1>2, <2>1 DEF HandleJoin, Answer, Typed
    <2>5. r.end = "open" => phase'[r.from] = "create" /\ want'[r.from] = Nil
        BY <1>1, <1>2, <2>1, <2>2, Served
           DEF HandleJoin, Answer, Typed, Connected, TypeOK, Awaited, WaitPhase
    <2>6. QED
        BY <2>1, <2>2, <2>3, <2>4, <2>5, ServeConnected
<1>3. CASE HandleHello
    <2>1. Serve("hello") /\ r = Head(backlog) /\ r \in Requests
        BY <1>3, Served DEF HandleHello, Connected
    <2>2. r.from \in Dnodes
        BY <2>1 DEF Requests
    <2>3. Typed'
        BY <1>1, <1>3, <2>1, <2>2 DEF Typed, HandleHello, Answer, Registers, Phases
    <2>4. \A e \in Dnodes : ~(e = r.from /\ r.end = "open") =>
                phase'[e] = phase[e] /\ uid'[e] = uid[e] /\ want'[e] = want[e]
        BY <1>1, <1>3, <2>1 DEF HandleHello, Answer, Typed
    <2>5. r.end = "open" => phase'[r.from] = "running" /\ want'[r.from] = Nil
        BY <1>1, <1>3, <2>1, <2>2, Served
           DEF HandleHello, Answer, Typed, Connected, TypeOK, Awaited, WaitPhase
    <2>6. QED
        BY <2>1, <2>2, <2>3, <2>4, <2>5, ServeConnected
<1>4. CASE HandleUpload
    <2>1. Serve("upload") /\ r = Head(backlog) /\ r \in Requests
        BY <1>4, Served DEF HandleUpload, Connected
    <2>2. r.from \in Dnodes /\ r.uid \in Uids /\ r.hash \in Hashes /\ r.end # "open"
        <3>1. r.kind \in {"upload", "ack"} /\ r.end # "cut" /\ Shaped(r) /\ Awaited(r)
            BY <2>1, Served DEF Connected
        <3>2. QED
            BY <2>1, <3>1 DEF Requests, Shaped, Awaited
    <2>3. sources' \in [Hashes -> Seq(Uids)]
        BY <1>1, <1>4, <2>1, <2>2, AppendProperties DEF HandleUpload, Filed, Listed, Typed
    <2>4. Typed'
        BY <1>1, <1>4, <2>1, <2>2, <2>3 DEF Typed, HandleUpload, Filed, dnodeVars, known
    <2>5. QED
        BY <1>4, <2>1, <2>2, <2>4, ServeConnected DEF HandleUpload, dnodeVars
<1>5. CASE HandleAck
    <2>1. Serve("ack") /\ r = Head(backlog) /\ r \in Requests
        BY <1>5, Served DEF HandleAck, Connected
    <2>2. r.from \in Dnodes /\ r.uid \in Uids /\ r.hash \in Hashes /\ r.end # "open"
        <3>1. r.kind \in {"upload", "ack"} /\ r.end # "cut" /\ Shaped(r) /\ Awaited(r)
            BY <2>1, Served DEF Connected
        <3>2. QED
            BY <2>1, <3>1 DEF Requests, Shaped, Awaited
    <2>3. sources' \in [Hashes -> Seq(Uids)]
        BY <1>1, <1>5, <2>1, <2>2, AppendProperties DEF HandleAck, Listed, Typed
    <2>4. Typed'
        BY <1>1, <1>5, <2>1, <2>2, <2>3 DEF Typed, HandleAck, dnodeVars, known
    <2>5. QED
        BY <1>5, <2>1, <2>2, <2>4, ServeConnected DEF HandleAck, dnodeVars
<1>6. CASE HandleDownload
    <2>1. Serve("download") /\ r = Head(backlog) /\ r \in Requests
        BY <1>6, Served DEF HandleDownload, Connected
    <2>2. r.from \in Dnodes /\ r.name \in Names
        BY <2>1, Served DEF Requests, Connected, Shaped
    <2>3. fname[r.name] \in Hashes /\ fname[r.name] # Nil
        BY <1>1, <1>6, <2>1, <2>2 DEF HandleDownload, Answerable, Typed
    <2>4. Typed'
        BY <1>1, <1>6, <2>1, <2>2, <2>3
           DEF Typed, HandleDownload, Answer, Phases, known, hubVars, maps
    <2>5. \A e \in Dnodes : ~(e = r.from /\ r.end = "open") =>
                phase'[e] = phase[e] /\ uid'[e] = uid[e] /\ want'[e] = want[e]
        BY <1>1, <1>6, <2>1 DEF HandleDownload, Answer, Typed
    <2>6. r.end = "open" => phase'[r.from] = "fetching" /\ want'[r.from] # Nil
        BY <1>1, <1>6, <2>1, <2>2, <2>3 DEF HandleDownload, Answer, Typed
    <2>7. QED
        BY <2>1, <2>2, <2>4, <2>5, <2>6, ServeConnected
<1>7. QED
    BY <1>2, <1>3, <1>4, <1>5, <1>6 DEF Handling

\* The hub dies, with its maps and its connections.
Dying == DownloadCrashes \/ AnswerBreaks \/ KillHub

\* What the end of a hub leaves alone.
LEMMA DyingFrame ==
    ASSUME Dying
    PROVE  HubDies /\ UNCHANGED <<now, dnodeVars, given, bounds>>
BY DEF Dying, DownloadCrashes, AnswerBreaks, KillHub

\* Connected, when the hub ends.
LEMMA DyingConnected ==
    ASSUME Connected, Dying
    PROVE  Connected'
<1>1. /\ dnodesMap' \in [Uids -> Dnodes \cup {Nil}]
      /\ sources' \in [Hashes -> Seq(Uids)]
      /\ fname' \in [Names -> Hashes \cup {Nil}]
    BY DyingFrame, EmptySeq DEF HubDies, NoDnodes, NoSources, NoNames
<1>2. backlog' = <<>> /\ hub' = "down" /\ indexed' = {}
    BY DyingFrame DEF HubDies
<1>3. backlog' \in Seq(Requests) /\ Len(backlog') = 0 /\ DOMAIN backlog' = {}
    BY <1>2, EmptySeq, LenProperties
<1>4. TypeOK'
    BY <1>1, <1>2, <1>3, DyingFrame, RegistryAssumption DEF Connected, TypeOK, HubDies, dnodeVars
<1>5. QED
    BY <1>3, <1>4 DEF Connected

\* Steps of the clock and of the hub that leave everybody alone.
Idle == Tick \/ StartHub

\* What the clock and the start of a hub leave alone.
LEMMA IdleFrame ==
    ASSUME TypeOK, Idle
    PROVE  /\ UNCHANGED <<maps, backlog, dnodeVars, given, known>>
           /\ hub' \in {hub, "up"} /\ now' \in 1 .. MaxNow
           /\ hub' # "spin" => hub # "spin"
BY RegistryAssumption DEF TypeOK, Idle, Tick, StartHub, Alive, hubVars

\* Connected, for these steps.
LEMMA IdleConnected ==
    ASSUME Connected, Idle
    PROVE  Connected'
<1>1. TypeOK'
    BY IdleFrame DEF Connected, TypeOK, maps, dnodeVars, known
<1>2. QED
    BY <1>1, IdleFrame DEF Connected, Shaped, Awaited, dnodeVars

\* What a hub that hangs within an upload has done: a source and perhaps a
\* name are stored, or nothing.
LEMMA SpinFrame ==
    ASSUME Connected, HubSpins
    PROVE  /\ UNCHANGED <<dnodesMap, indexed, now, backlog, dnodeVars, given, known>>
           /\ hub' = "spin"
           /\ \/ UNCHANGED <<sources, fname>>
              \/ \E i \in DOMAIN backlog :
                    /\ backlog[i].kind = "upload" /\ Filed(backlog[i])
<1>1. backlog # <<>> /\ backlog \in Seq(Requests)
    BY DEF HubSpins, Connected, TypeOK
<1>2. 1 \in DOMAIN backlog /\ Head(backlog) = backlog[1]
    BY <1>1, EmptySeq, LenProperties
<1>3. QED
    BY <1>2 DEF HubSpins

\* Connected, when the hub hangs.
LEMMA SpinConnected ==
    ASSUME Connected, HubSpins
    PROVE  Connected'
<1>1. sources' \in [Hashes -> Seq(Uids)] /\ fname' \in [Names -> Hashes \cup {Nil}]
    <2>1. CASE UNCHANGED <<sources, fname>>
        BY <2>1 DEF Connected, TypeOK
    <2>2. ASSUME NEW i \in DOMAIN backlog, backlog[i].kind = "upload", Filed(backlog[i])
          PROVE  <1>1
        <3>1. backlog[i].uid \in Uids /\ backlog[i].hash \in Hashes
            BY <2>2, BacklogFacts DEF Connected, Shaped, Requests
        <3>2. QED
            BY <2>2, <3>1, AppendProperties DEF Filed, Listed, Connected, TypeOK
    <2>3. QED
        BY <2>1, <2>2, SpinFrame
<1>2. TypeOK'
    BY <1>1, SpinFrame DEF Connected, TypeOK, dnodeVars, known
<1>3. QED
    BY <1>2, SpinFrame DEF Connected, Shaped, Awaited, dnodeVars

\* A dnode that is killed closes what it waits on.
LEMMA KillConnected ==
    ASSUME Connected, NEW d \in Dnodes, KillDnode(d)
    PROVE  Connected'
<1>1. /\ UNCHANGED <<hubVars, now, uid, uidFile, given, known>>
      /\ phase' = [phase EXCEPT ![d] = "off"] /\ want' = [want EXCEPT ![d] = Nil]
    BY DEF KillDnode, Goto
<1> DEFINE StillOpen(i) ==
            /\ backlog[i].end = "open" /\ backlog[i].from # d
            /\ backlog'[i].from = backlog[i].from
<1>2. /\ backlog' \in Seq(Requests) /\ Len(backlog') <= MaxBacklog
      /\ DOMAIN backlog' = DOMAIN backlog
      /\ \A i \in DOMAIN backlog : backlog'[i].end = "open" => StillOpen(i)
    BY Hangup DEF Connected
<1>3. TypeOK'
    <2>1. \A e \in Dnodes : want'[e] # Nil <=> phase'[e] = "fetching"
        BY <1>1 DEF Connected, TypeOK
    <2>2. \A e \in Dnodes : \A i, j \in DOMAIN backlog' :
            (/\ backlog'[i].from = e /\ backlog'[i].end = "open"
             /\ backlog'[j].from = e /\ backlog'[j].end = "open") => i = j
        BY <1>2 DEF Connected, TypeOK
    <2>3. QED
        BY <1>1, <1>2, <2>1, <2>2 DEF Connected, TypeOK, hubVars, maps, known
<1>4. ASSUME NEW i \in DOMAIN backlog' PROVE Shaped(backlog'[i]) /\ Awaited(backlog[i])'
    <2>1. i \in DOMAIN backlog /\ backlog[i].from \in Dnodes
        BY Hangup, BacklogFacts DEF Connected, Requests
    <2>2. Shaped(backlog'[i])
        BY <2>1, Hangup DEF Connected, Shaped
    <2>3. Awaited(backlog[i])'
        <3>1. CASE backlog'[i].end = "open"
            <4>1. /\ Awaited(backlog[i]) /\ StillOpen(i)
                  /\ backlog'[i].kind = backlog[i].kind /\ backlog'[i].uid = backlog[i].uid
                BY <1>2, <2>1, <3>1, Hangup DEF Connected
            <4>2. phase'[backlog[i].from] = phase[backlog[i].from]
                BY <1>1, <2>1, <4>1 DEF Connected, TypeOK
            <4>3. QED
                BY <1>1, <4>1, <4>2 DEF Awaited
        <3>2. CASE backlog'[i].end # "open"
            BY <3>2 DEF Awaited
        <3>3. QED
            BY <3>1, <3>2
    <2>4. QED
        BY <2>2, <2>3
<1>5. QED
    BY <1>3, <1>4 DEF Connected, Shaped

\* The kinds of steps there are.
LEMMA Steps ==
    ASSUME [Next]_vars
    PROVE  \/ Idle \/ HubSpins \/ Handling \/ Dying \/ UNCHANGED vars
           \/ \E d \in Dnodes :
                \/ Local(d) \/ Posting(d) \/ KillDnode(d)
                \/ SendJoin(d) \/ SendHello(d) \/ SendDownload(d)
BY DEF Next, HubStep, Startup, Idle, Handling, Dying, Local, Posting

\* Connected is inductive.
LEMMA StepConnected == Connected /\ [Next]_vars => Connected'
<1> SUFFICES ASSUME Connected, [Next]_vars PROVE Connected'
    OBVIOUS
<1>1. CASE UNCHANGED vars
    BY <1>1 DEF Connected, TypeOK, Shaped, Awaited, vars, hubVars, maps, dnodeVars, known
<1>2. QED
    BY <1>1, Steps, IdleConnected, SpinConnected, HandleConnected, DyingConnected, LocalConnected,
       PostConnected, KillConnected, OpenConnected

\* Connected, at the start.
LEMMA InitConnected == Init => Connected
<1> SUFFICES ASSUME Init PROVE Connected
    OBVIOUS
<1>1. backlog \in Seq(Requests) /\ Len(backlog) = 0 /\ DOMAIN backlog = {}
    BY EmptySeq, LenProperties DEF Init
<1>2. sources \in [Hashes -> Seq(Uids)]
    BY EmptySeq DEF Init, NoSources
<1>3. TypeOK
    BY <1>1, <1>2, Constants, RegistryAssumption DEF Init, TypeOK, NoDnodes, NoNames, Handed
<1>4. QED
    BY <1>1, <1>3 DEF Connected

\* The registry and its dnodes keep their types: a dnode that waits for an
\* answer does so with one connection, and a download is answered with a hash.
THEOREM TypeCorrect == Spec => []TypeOK
<1>1. Connected => TypeOK
    BY DEF Connected
<1>2. QED
    BY <1>1, InitConnected, StepConnected, PTL DEF Spec

-----------------------------------------------------------------------------
(* Owned is inductive. *)

\* What is written to the disk is not written over an uid that was handed out.
LEMMA UidFilesKept ==
    ASSUME Connected, Owned, [Next]_vars, NEW d \in Dnodes, uidFile[d] \in Handed
    PROVE  uidFile'[d] = uidFile[d]
<1>1. ASSUME NEW e \in Dnodes, Local(e) PROVE uidFile'[d] = uidFile[d]
    <2>1. CASE CreateUidFile(e)
        BY <2>1, Constants DEF CreateUidFile, Connected, TypeOK
    <2>2. CASE WriteUidFile(e)
        BY <2>2 DEF WriteUidFile, Connected, TypeOK, Owned, Owner
    <2>3. CASE ~CreateUidFile(e) /\ ~WriteUidFile(e)
        BY <1>1, <2>3 DEF Local, StartDnode, JoinUnreachable, HelloUnreachable,
           DownloadUnreachable, CutOff
    <2>4. QED
        BY <2>1, <2>2, <2>3
<1>2. ASSUME NEW e \in Dnodes,
             Posting(e) \/ KillDnode(e) \/ SendJoin(e) \/ SendHello(e) \/ SendDownload(e)
      PROVE  uidFile' = uidFile
    BY <1>2 DEF Posting, Upload, Acknowledge, KillSendingDnode, KillDnode, SendJoin, SendHello,
       SendDownload
<1>3. CASE Idle \/ HubSpins \/ Handling \/ Dying \/ UNCHANGED vars
    BY <1>3, DyingFrame, IdleFrame, SpinFrame
       DEF Connected, Handling, HandleJoin, HandleHello, HandleUpload, HandleAck,
           HandleDownload, dnodeVars, vars
<1>4. QED
    BY <1>1, <1>2, <1>3, Steps

\* A uid stays on the disk of its dnode.
LEMMA OnDiskKept ==
    ASSUME Connected, Owned, [Next]_vars, NEW d \in Dnodes, NEW u, OnDisk(d, u)
    PROVE  OnDisk(d, u)'
BY UidFilesKept DEF OnDisk

\* What is on its way to the lists of sources, and there, stays owned by a
\* step that neither sends nor lists anything.
LEMMA NothingPosted ==
    ASSUME Connected, Owned, [Next]_vars,
           \A i \in DOMAIN backlog' : \E j \in DOMAIN backlog :
                /\ backlog'[i].kind = backlog[j].kind
                /\ backlog'[i].from = backlog[j].from /\ backlog'[i].uid = backlog[j].uid,
           UNCHANGED sources,
           \A u \in Uids : given[u] \subseteq given'[u],
           \A u \in Uids \ Handed : given'[u] = {},
           \A d \in Dnodes : Owner(d)'
    PROVE  Owned'
<1>1. ASSUME NEW i \in DOMAIN backlog', backlog'[i].kind \in {"upload", "ack"}
      PROVE  OnDisk(backlog[i].from, backlog[i].uid)'
    <2>1. PICK j \in DOMAIN backlog :
            /\ backlog'[i].kind = backlog[j].kind
            /\ backlog'[i].from = backlog[j].from /\ backlog'[i].uid = backlog[j].uid
        OBVIOUS
    <2>2. OnDisk(backlog[j].from, backlog[j].uid) /\ backlog[j].from \in Dnodes
        BY <1>1, <2>1, BacklogFacts DEF Owned, Connected, Requests
    <2>3. QED
        BY <2>1, <2>2, OnDiskKept DEF OnDisk
<1>2. ASSUME NEW h \in Hashes, NEW i \in DOMAIN sources[h]
      PROVE  \E d \in Dnodes : OnDisk(d, sources[h][i])'
    <2>1. PICK d \in Dnodes : OnDisk(d, sources[h][i])
        BY DEF Owned
    <2>2. uidFile[d] \in Handed => uidFile'[d] = uidFile[d]
        BY UidFilesKept
    <2>3. QED
        BY <2>1, <2>2 DEF OnDisk
<1>3. QED
    BY <1>1, <1>2 DEF Owned

\* The owner of a uid stays it when nothing is changed about the dnode.
LEMMA OwnerKept ==
    ASSUME Connected, NEW d \in Dnodes, Owner(d),
           uid'[d] = uid[d], uidFile'[d] = uidFile[d],
           \A u \in Uids : given[u] \subseteq given'[u],
           \/ phase'[d] = phase[d]
           \/ phase'[d] \in {"off", "stuck"}
           \/ phase'[d] \in Settled /\ phase[d] \in Settled
           \/ phase'[d] \in {"joining", "create", "write"} /\ phase[d] \in {"join", "joining", "create"}
    PROVE  Owner(d)'
<1>1. uid[d] \in Uids /\ Handed \subseteq Uids
    BY Constants DEF Connected, TypeOK
<1>2. phase'[d] \in {"join", "joining", "create", "write"} => uidFile[d] \notin Handed
    BY DEF Owner, Settled
<1>3. phase'[d] \in Settled => OnDisk(d, uid[d])
    BY DEF Owner, Settled
<1>4. QED
    BY <1>1, <1>2, <1>3 DEF Owner, OnDisk

\* Owned, for the steps of a dnode that touch no connection.
LEMMA LocalOwned ==
    ASSUME Connected, Owned, [Next]_vars, NEW d \in Dnodes, Local(d)
    PROVE  Owned'
<1>1. /\ UNCHANGED <<hubVars, now, backlog, want, given>>
      /\ \A e \in Dnodes \ {d} :
            phase'[e] = phase[e] /\ uid'[e] = uid[e] /\ uidFile'[e] = uidFile[e]
    BY LocalFrame DEF Connected
<1>2. Owner(d) /\ uid[d] \in Uids
    BY DEF Owned, Connected, TypeOK
<1>3. Owner(d)'
    <2>1. CASE StartDnode(d)
        <3>1. PICK u \in CASE uidFile[d] = Nil -> {0}
                           [] uidFile[d] = Torn -> Uninitialised
                           [] OTHER -> {uidFile[d]} :
                /\ uid' = [uid EXCEPT ![d] = u]
                /\ phase' = [phase EXCEPT ![d] = IF u # 0 THEN "hello" ELSE "join"]
                /\ uidFile' = uidFile
            BY <2>1, Zenon DEF StartDnode, Goto
        <3>2. /\ uid'[d] = u /\ phase'[d] = IF u # 0 THEN "hello" ELSE "join"
            BY <3>1 DEF Connected, TypeOK
        <3>3. u \in Handed => uidFile[d] = u
            <4>1. CASE uidFile[d] = Nil
                BY <3>1, <4>1, Constants DEF Handed
            <4>2. CASE uidFile[d] = Torn
                BY <3>1, <4>2, Constants
            <4>3. CASE uidFile[d] # Nil /\ uidFile[d] # Torn
                BY <3>1, <4>3
            <4>4. QED
                BY <4>1, <4>2, <4>3
        <3>4. u = 0 => uidFile[d] \notin Handed
            BY <3>1, Constants DEF Handed
        <3>5. QED
            BY <1>1, <1>2, <3>1, <3>2, <3>3, <3>4 DEF Owner, OnDisk, Settled
    <2>2. CASE JoinUnreachable(d) \/ (CutOff(d) /\ phase[d] = "joining" /\ phase'[d] # "stuck")
        <3>1. /\ uid'[d] \notin Handed /\ phase'[d] = "create"
              /\ uidFile' = uidFile /\ phase[d] \in {"join", "joining"}
            BY <2>2, Constants DEF JoinUnreachable, CutOff, Goto, Connected, TypeOK
        <3>2. QED
            BY <1>1, <1>2, <3>1 DEF Owner, OnDisk, Settled
    <2>3. CASE CreateUidFile(d)
        <3>1. /\ uid'[d] = uid[d] /\ phase[d] = "create" /\ phase'[d] = "write"
              /\ uidFile'[d] \in {uidFile[d], Torn}
            BY <2>3 DEF CreateUidFile, Goto, Connected, TypeOK
        <3>2. QED
            BY <1>1, <1>2, <3>1, Constants DEF Owner, OnDisk, Settled
    <2>4. CASE WriteUidFile(d)
        <3>1. uid'[d] = uid[d] /\ phase'[d] = "running" /\ uidFile'[d] = uid[d]
            BY <2>4 DEF WriteUidFile, Goto, Connected, TypeOK
        <3>2. QED
            BY <1>1, <1>2, <3>1 DEF Owner, OnDisk, Settled
    <2>5. CASE HelloUnreachable(d) \/ DownloadUnreachable(d)
        <3>1. /\ uid' = uid /\ uidFile' = uidFile /\ phase[d] \in {"hello", "running"}
              /\ phase'[d] \in {"off", "stuck", "running"}
            BY <2>5 DEF HelloUnreachable, DownloadUnreachable, Goto, Connected, TypeOK
        <3>2. QED
            BY <1>1, <1>2, <3>1 DEF Owner, OnDisk, Settled
    <2>6. CASE CutOff(d) /\ (phase[d] # "joining" \/ phase'[d] = "stuck")
        <3>1. CASE phase'[d] = "stuck"
            <4>1. uidFile' = uidFile /\ phase[d] \in {"joining", "helloing", "asking"}
                BY <2>6 DEF CutOff
            <4>2. uid' = uid
                BY <2>6, <3>1 DEF CutOff, Goto, Connected, TypeOK
            <4>3. QED
                BY <1>1, <1>2, <3>1, <4>1, <4>2 DEF Owner, OnDisk, Settled
        <3>2. CASE phase'[d] # "stuck"
            <4>1. /\ uid' = uid /\ uidFile' = uidFile /\ phase[d] \in {"helloing", "asking"}
                  /\ phase'[d] \in {"off", "running"}
                BY <2>6, <3>2 DEF CutOff, Goto, Connected, TypeOK
            <4>2. QED
                BY <1>1, <1>2, <4>1 DEF Owner, OnDisk, Settled
        <3>3. QED
            BY <3>1, <3>2
    <2>7. QED
        BY <2>1, <2>2, <2>3, <2>4, <2>5, <2>6 DEF Local
<1>4. ASSUME NEW e \in Dnodes PROVE Owner(e)'
    <2>1. CASE e = d
        BY <1>3, <2>1
    <2>2. CASE e # d
        BY <1>1, <2>2 DEF Owned, Owner, OnDisk
    <2>3. QED
        BY <2>1, <2>2
<1>5. QED
    BY <1>1, <1>4, NothingPosted DEF Owned, hubVars, maps

\* Owned, for the steps that open a connection.
LEMMA OpenOwned ==
    ASSUME Connected, Owned, [Next]_vars, NEW d \in Dnodes,
           SendJoin(d) \/ SendHello(d) \/ SendDownload(d)
    PROVE  Owned'
<1>1. PICK kind \in {"join", "hello", "download"}, n \in Names \cup {Nil} :
        Send(Request(kind, d, n, Nil, "open"))
    BY DEF SendJoin, SendHello, SendDownload
<1>2. UNCHANGED <<hubVars, now, uid, uidFile, want, given, known>>
    BY DEF SendJoin, SendHello, SendDownload
<1> DEFINE r == Request(kind, d, n, Nil, "open")
<1>3. r \in Requests /\ r.kind = kind
    BY RequestFacts DEF Connected
<1> HIDE DEF r
<1>4. ASSUME NEW i \in DOMAIN backlog', backlog'[i].kind \in {"upload", "ack"}
      PROVE  OnDisk(backlog[i].from, backlog[i].uid)'
    <2>1. i \in DOMAIN backlog /\ backlog'[i] = backlog[i]
        BY <1>1, <1>3, <1>4, Sent DEF Connected, r
    <2>2. QED
        BY <1>2, <1>4, <2>1 DEF Owned, OnDisk
<1>5. ASSUME NEW e \in Dnodes PROVE Owner(e)'
    <2>1. \/ phase'[e] = phase[e]
          \/ phase[e] = "join" /\ phase'[e] = "joining"
          \/ phase[e] \in Settled /\ phase'[e] \in Settled
        BY DEF SendJoin, SendHello, SendDownload, Goto, Settled, Connected, TypeOK
    <2>2. QED
        BY <1>2, <2>1, OwnerKept DEF Owned
<1>6. QED
    BY <1>2, <1>4, <1>5 DEF Owned, OnDisk, hubVars, maps

\* Owned, for the steps that queue an upload or an acknowledgement.
LEMMA PostOwned ==
    ASSUME Connected, Owned, [Next]_vars, NEW d \in Dnodes, Posting(d)
    PROVE  Owned'
<1>1. UNCHANGED <<hubVars, now, uid, uidFile, given, registered>>
    BY PostFrame
<1>2. ASSUME NEW e \in Dnodes PROVE Owner(e)'
    <2>1. \/ phase'[e] = phase[e] \/ phase'[e] = "off"
          \/ phase[e] \in Settled /\ phase'[e] \in Settled
        BY PostFrame DEF Settled
    <2>2. QED
        BY <1>1, <2>1, OwnerKept DEF Owned
<1>3. ASSUME NEW i \in DOMAIN backlog', backlog'[i].kind \in {"upload", "ack"}
      PROVE  OnDisk(backlog[i].from, backlog[i].uid)'
    <2>1. CASE i \in DOMAIN backlog /\ backlog'[i] = backlog[i]
        BY <1>1, <1>3, <2>1 DEF Owned, OnDisk
    <2>2. CASE ~(i \in DOMAIN backlog /\ backlog'[i] = backlog[i])
        <3>1. PICK r \in Requests :
                /\ Send(r) /\ r.from = d /\ r.uid = uid[d]
                /\ r.kind \in {"upload", "ack"} => phase[d] \in {"running", "fetching"}
            BY <2>2, PostFrame
        <3>2. backlog'[i] = r
            BY <2>2, <3>1, Sent DEF Connected
        <3>3. OnDisk(d, uid[d])
            BY <1>3, <3>1, <3>2 DEF Owned, Owner, Settled
        <3>4. QED
            BY <1>1, <3>1, <3>2, <3>3 DEF OnDisk
    <2>3. QED
        BY <2>1, <2>2
<1>4. QED
    BY <1>1, <1>2, <1>3 DEF Owned, OnDisk, hubVars, maps

\* Owned, when a dnode is killed.
LEMMA KillOwned ==
    ASSUME Connected, Owned, [Next]_vars, NEW d \in Dnodes, KillDnode(d)
    PROVE  Owned'
<1>1. /\ UNCHANGED <<hubVars, now, uid, uidFile, given>>
      /\ phase' = [phase EXCEPT ![d] = "off"]
    BY DEF KillDnode, Goto
<1>2. ASSUME NEW e \in Dnodes PROVE Owner(e)'
    BY <1>1, OwnerKept DEF Owned, Connected, TypeOK
<1>3. QED
    BY <1>1, <1>2, Hangup, NothingPosted DEF Owned, Connected, hubVars, maps

\* Owned, when the hub ends.
LEMMA DyingOwned ==
    ASSUME Connected, Owned, [Next]_vars, Dying
    PROVE  Owned'
<1>1. backlog' = <<>> /\ sources' = NoSources /\ UNCHANGED <<dnodeVars, given>>
    BY DyingFrame DEF HubDies
<1>2. DOMAIN backlog' = {} /\ \A h \in Hashes : DOMAIN sources'[h] = {}
    BY <1>1 DEF NoSources
<1>3. \A d \in Dnodes : Owner(d)'
    BY <1>1 DEF Owned, Owner, OnDisk, dnodeVars
<1>4. QED
    BY <1>1, <1>2, <1>3 DEF Owned

\* Owned, for the clock and the start of a hub.
LEMMA IdleOwned ==
    ASSUME Connected, Owned, [Next]_vars, Idle
    PROVE  Owned'
<1>1. UNCHANGED <<maps, backlog, dnodeVars, given>>
    BY IdleFrame DEF Connected
<1>2. QED
    BY <1>1 DEF Owned, Owner, OnDisk, maps, dnodeVars

\* An answer keeps the uids where they are, but for that of a join, which is
\* new to its dnode.
LEMMA AnswerOwned ==
    ASSUME Connected, Owned, [Next]_vars, HandleJoin \/ HandleHello \/ HandleDownload
    PROVE  Owned'
<1> DEFINE r == backlog[1]
<1>1. /\ r = Head(backlog) /\ r \in Requests /\ Awaited(r)
      /\ \A i \in DOMAIN backlog' : i + 1 \in DOMAIN backlog /\ backlog'[i] = backlog[i + 1]
    BY Served DEF HandleJoin, HandleHello, HandleDownload, Connected
<1>2. r.from \in Dnodes
    BY <1>1 DEF Requests
<1>3. UNCHANGED <<sources, uidFile>>
    BY DEF HandleJoin, HandleHello, HandleDownload, hubVars, maps
<1>4. /\ \A u \in Uids : given[u] \subseteq given'[u]
      /\ \A u \in Uids \ Handed : given'[u] = given[u]
    BY <1>1 DEF HandleJoin, HandleHello, HandleDownload, Connected, TypeOK, Handed
<1>5. ASSUME NEW d \in Dnodes PROVE Owner(d)'
    <2>1. CASE d = r.from /\ r.end = "open" /\ HandleJoin
        <3>1. /\ uid'[d] = now /\ phase'[d] = "create" /\ d \in given'[now]
              /\ phase[d] = "joining"
            BY <1>1, <2>1, Served, Constants
               DEF HandleJoin, Answer, Connected, TypeOK, Awaited, WaitPhase, Handed
        <3>2. Owner(d) /\ uidFile[d] \notin Handed
            BY <3>1 DEF Owned, Owner
        <3>3. QED
            BY <1>3, <3>1, <3>2 DEF Owner, OnDisk, Settled
    <2>2. CASE ~(d = r.from /\ r.end = "open" /\ HandleJoin)
        <3>1. uid'[d] = uid[d]
            BY <1>1, <2>2 DEF HandleJoin, HandleHello, HandleDownload, Connected, TypeOK
        <3>2. \/ phase'[d] = phase[d]
              \/ phase'[d] \in {"running", "fetching"} /\ phase[d] \in Settled
            BY <1>1, <1>2, <2>2, Served
               DEF HandleJoin, HandleHello, HandleDownload, Answer, Connected, TypeOK, Awaited,
                   WaitPhase, Settled
        <3>3. QED
            BY <1>3, <1>4, <3>1, <3>2, OwnerKept DEF Owned, Settled
    <2>3. QED
        BY <2>1, <2>2
<1>6. QED
    BY <1>1, <1>3, <1>4, <1>5, NothingPosted DEF Owned

\* What is listed from a request comes from the dnode that has its uid.
LEMMA ListingOwned ==
    ASSUME Connected, Owned, [Next]_vars, NEW k \in DOMAIN backlog,
           backlog[k].kind \in {"upload", "ack"}, backlog[k].hash \in Hashes,
           Listed(backlog[k].hash, backlog[k].uid),
           UNCHANGED <<dnodeVars, given>>,
           \A i \in DOMAIN backlog' : \E j \in DOMAIN backlog : backlog'[i] = backlog[j]
    PROVE  Owned'
<1> DEFINE r == backlog[k]
<1>1. r.from \in Dnodes /\ r.uid \in Uids /\ OnDisk(r.from, r.uid)
    BY BacklogFacts DEF Connected, Requests, Owned
<1>2. sources' = [sources EXCEPT ![r.hash] = Append(@, r.uid)]
    BY DEF Listed
<1>3. ASSUME NEW h \in Hashes, NEW i \in DOMAIN sources'[h]
      PROVE  \E d \in Dnodes : OnDisk(d, sources[h][i])'
    <2>1. CASE h = r.hash
        <3>1. /\ sources[h] \in Seq(Uids)
              /\ sources'[h] = Append(sources[h], r.uid)
            BY <1>2, <2>1 DEF Connected, TypeOK
        <3>2. \/ i \in DOMAIN sources[h] /\ sources'[h][i] = sources[h][i]
              \/ sources'[h][i] = r.uid
            BY <1>1, <3>1, AppendProperties, LenProperties
        <3>3. QED
            BY <1>1, <3>2 DEF Owned, OnDisk, dnodeVars
    <2>2. CASE h # r.hash
        BY <1>2, <2>2 DEF Owned, OnDisk, dnodeVars, Connected, TypeOK
    <2>3. QED
        BY <2>1, <2>2
<1>4. QED
    BY <1>3 DEF Owned, Owner, OnDisk, dnodeVars

\* Owned, for an upload or an acknowledgement that the hub serves.
LEMMA ListOwned ==
    ASSUME Connected, Owned, [Next]_vars, HandleUpload \/ HandleAck
    PROVE  Owned'
<1> DEFINE r == backlog[1]
<1>1. /\ 1 \in DOMAIN backlog /\ r = Head(backlog)
      /\ r.kind \in {"upload", "ack"} /\ Shaped(r) /\ r.end # "cut"
      /\ \A i \in DOMAIN backlog' : i + 1 \in DOMAIN backlog /\ backlog'[i] = backlog[i + 1]
    BY Served DEF HandleUpload, HandleAck, Connected
<1>2. r.hash \in Hashes /\ Listed(r.hash, r.uid) /\ UNCHANGED <<dnodeVars, given>>
    BY <1>1 DEF Shaped, HandleUpload, HandleAck, Filed
<1>3. QED
    BY <1>1, <1>2, ListingOwned

\* Owned, when the hub hangs within an upload.
LEMMA SpinOwned ==
    ASSUME Connected, Owned, [Next]_vars, HubSpins
    PROVE  Owned'
<1>1. CASE UNCHANGED <<sources, fname>>
    BY <1>1, SpinFrame DEF Owned, Owner, OnDisk, dnodeVars
<1>2. ASSUME NEW i \in DOMAIN backlog, backlog[i].kind = "upload", Filed(backlog[i])
      PROVE  Owned'
    <2>1. backlog[i].hash \in Hashes
        BY <1>2 DEF Connected, Shaped
    <2>2. QED
        BY <1>2, <2>1, SpinFrame, ListingOwned DEF Filed
<1>3. QED
    BY <1>1, <1>2, SpinFrame

\* Owned is inductive.
LEMMA StepOwned == Connected /\ Owned /\ [Next]_vars => Owned'
<1> SUFFICES ASSUME Connected, Owned, [Next]_vars PROVE Owned'
    OBVIOUS
<1>1. CASE UNCHANGED vars
    BY <1>1 DEF Owned, Owner, OnDisk, vars, hubVars, maps, dnodeVars
<1>2. QED
    BY <1>1, Steps, IdleOwned, SpinOwned, AnswerOwned, ListOwned, DyingOwned, LocalOwned, PostOwned,
       KillOwned, OpenOwned DEF Handling

\* Owned, at the start.
LEMMA InitOwned == Init => Owned
<1> SUFFICES ASSUME Init PROVE Owned
    OBVIOUS
<1>1. DOMAIN backlog = {} /\ \A h \in Hashes : DOMAIN sources[h] = {}
    BY DEF Init, NoSources
<1>2. \A d \in Dnodes : Owner(d)
    BY Constants DEF Init, Owner, Handed, Settled
<1>3. QED
    BY <1>1, <1>2 DEF Init, Owned

\* The invariants for the addresses of sources.
LEMMA OwnedInvariant == Spec => [](Connected /\ Owned)
BY InitConnected, StepConnected, InitOwned, StepOwned, PTL DEF Spec

\* The address that the hub has for a source is that of the dnode which keeps
\* the uid on its disk, if the uid was handed to that dnode only: the source
\* was listed by a dnode that has the uid on its disk, and so was handed it.
THEOREM SourcesAreAddressed == Spec => []SourceAddressed
<1>1. Connected /\ Owned => SourceAddressed
    <2> SUFFICES ASSUME Connected, Owned, NEW h \in Hashes, NEW u \in Range(sources[h]),
                        NEW d \in Dnodes, given[u] = {d}
                 PROVE  uidFile[d] = u
        BY DEF SourceAddressed
    <2>1. PICK i \in DOMAIN sources[h] : u = sources[h][i]
        BY DEF Range
    <2>2. u \in Uids
        BY <2>1, ElementOfSeq, LenProperties DEF Connected, TypeOK
    <2>3. u \in Handed
        BY <2>2 DEF Owned
    <2>4. PICK e \in Dnodes : uidFile[e] = u
        BY <2>1, <2>3 DEF Owned, OnDisk
    <2>5. e \in given[u]
        BY <2>3, <2>4 DEF Owned, Owner
    <2>6. QED
        BY <2>4, <2>5
<1>2. QED
    BY <1>1, OwnedInvariant, PTL

\* A uid that a hub handed out is never written over on the disk of its dnode,
\* whatever is killed, lost or left uninitialised.
THEOREM UidsAreKept == Spec => UidKept
<1>1. Connected /\ Owned /\ [Next]_vars =>
        [\A d \in Dnodes : uidFile[d] \in 1 .. MaxNow => uidFile'[d] = uidFile[d]]_vars
    BY UidFilesKept DEF Handed
<1>2. QED
    BY <1>1, OwnedInvariant, PTL DEF Spec, UidKept

-----------------------------------------------------------------------------
(* Registered is inductive. *)

\* A hub that runs forgets no address and no stranger.
LEMMA FreeBefore ==
    ASSUME Connected, [Next]_vars, Free', ~ Dying
    PROVE  /\ Free
           /\ \A u \in Uids : dnodesMap[u] # Nil => dnodesMap'[u] # Nil
           /\ \A u \in Uids : Accounted(u) => Accounted(u)'
<1>1. CASE Idle
    BY <1>1, IdleFrame DEF Free, Accounted, Connected, maps, known
<1>2. CASE Handling
    <2>1. UNCHANGED <<hub, strangers>>
        BY <1>2 DEF Handling, HandleJoin, HandleHello, HandleUpload, HandleAck, HandleDownload,
           Registers, hubVars, known
    <2>2. ASSUME NEW u \in Uids, dnodesMap[u] # Nil PROVE dnodesMap'[u] # Nil
        <3>1. CASE HandleJoin \/ HandleHello
            <4>1. Head(backlog) \in Requests
                BY <3>1, Served DEF HandleJoin, HandleHello, Connected
            <4>2. Head(backlog).from # Nil
                BY <4>1, RegistryAssumption DEF Requests
            <4>3. QED
                BY <2>2, <3>1, <4>2 DEF HandleJoin, HandleHello, Connected, TypeOK
        <3>2. CASE ~(HandleJoin \/ HandleHello)
            BY <1>2, <2>2, <3>2
               DEF Handling, HandleUpload, HandleAck, HandleDownload, hubVars, maps
        <3>3. QED
            BY <3>1, <3>2
    <2>3. QED
        BY <2>1, <2>2 DEF Free, Accounted
<1>3. CASE HubSpins
    BY <1>3, SpinFrame DEF Free
<1>4. CASE UNCHANGED vars
    BY <1>4 DEF Free, Accounted, vars, hubVars, maps, known
<1>5. CASE \E d \in Dnodes :
            \/ Local(d) \/ Posting(d) \/ KillDnode(d)
            \/ SendJoin(d) \/ SendHello(d) \/ SendDownload(d)
    <2>1. UNCHANGED hubVars /\ strangers \subseteq strangers'
        BY <1>5, LocalFrame, PostFrame
           DEF Connected, KillDnode, SendJoin, SendHello, SendDownload, known
    <2>2. QED
        BY <2>1 DEF Free, Accounted, hubVars, maps
<1>6. QED
    BY <1>1, <1>2, <1>3, <1>4, <1>5, Steps

\* A step that neither posts nor lists anything.
LEMMA NothingListed ==
    ASSUME Connected, Registered, [Next]_vars, Free', ~ Dying,
           \A i \in DOMAIN backlog' : \E j \in DOMAIN backlog :
                /\ backlog'[i].kind = backlog[j].kind /\ backlog'[i].uid = backlog[j].uid
                /\ backlog'[i].end # "cut" => backlog[j].end # "cut",
           UNCHANGED <<sources, indexed, fname>>,
           \A d \in Dnodes : Known(d)'
    PROVE  Registered'
<1>1. ASSUME NEW i \in DOMAIN backlog' PROVE Listable(backlog[i])'
    <2>1. PICK j \in DOMAIN backlog :
            /\ backlog'[i].kind = backlog[j].kind /\ backlog'[i].uid = backlog[j].uid
            /\ backlog'[i].end # "cut" => backlog[j].end # "cut"
        OBVIOUS
    <2>2. Listable(backlog[j]) /\ backlog[j].uid \in Uids
        BY FreeBefore, BacklogFacts DEF Registered, Connected, Requests
    <2>3. PICK u \in Uids : u = backlog[j].uid
        BY <2>2
    <2>4. Accounted(u) => Accounted(u)'
        BY FreeBefore
    <2>5. QED
        BY <2>1, <2>2, <2>3, <2>4 DEF Listable, Accounted
<1>2. ASSUME NEW h \in Hashes, NEW i \in DOMAIN sources[h]
      PROVE  Accounted(sources[h][i])'
    <2>1. sources[h][i] \in Uids
        BY ElementOfSeq, LenProperties DEF Connected, TypeOK
    <2>2. QED
        BY <2>1, FreeBefore DEF Registered
<1>3. \A n \in Names : Stored(n)'
    BY FreeBefore DEF Registered, Stored
<1>4. QED
    BY <1>1, <1>2, <1>3 DEF Registered

\* Where a dnode is until its start is answered.
Starting == {"join", "joining", "hello", "helloing"}

\* A dnode stays known unless it starts again.
LEMMA KnownKept ==
    ASSUME Connected, Registered, [Next]_vars, Free', ~ Dying, NEW d \in Dnodes,
           uid'[d] = uid[d],
           d \in registered' => d \in registered,
           phase'[d] \in Starting => phase[d] \in Starting
    PROVE  Known(d)'
<1>1. Known(d) /\ uid[d] \in Uids
    BY FreeBefore DEF Registered, Connected, TypeOK
<1>2. dnodesMap[uid[d]] # Nil => dnodesMap'[uid'[d]] # Nil
    BY <1>1, FreeBefore
<1>3. QED
    BY <1>1, <1>2 DEF Known, Starting

\* A dnode that finds the hub unreachable, or is cut off, has not been
\* answered, or has been before.
LEMMA LocalRegistered ==
    ASSUME Connected, Registered, [Next]_vars, Free', ~ Dying,
           NEW d \in Dnodes, Local(d)
    PROVE  Registered'
<1>1. /\ UNCHANGED <<hubVars, now, backlog, want, given, strangers>>
      /\ registered' \subseteq registered
      /\ phase'[d] \in {"off", "join", "create", "write", "hello", "running", "stuck"}
      /\ \A e \in Dnodes \ {d} : phase'[e] = phase[e] /\ uid'[e] = uid[e]
    BY LocalFrame DEF Connected
<1>2. Known(d)
    BY FreeBefore DEF Registered
<1>3. Known(d)'
    <2>1. CASE StartDnode(d)
        BY <2>1 DEF StartDnode, Known
    <2>2. CASE phase[d] \in Starting
        BY <1>1, <1>2, <2>2 DEF Known, Starting
    <2>3. CASE ~ StartDnode(d) /\ phase[d] \notin Starting
        <3>1. uid'[d] = uid[d]
            BY <2>3 DEF Local, JoinUnreachable, CreateUidFile, WriteUidFile, HelloUnreachable,
               DownloadUnreachable, CutOff, Starting
        <3>2. phase'[d] \notin Starting
            BY <2>3 DEF Local, JoinUnreachable, CreateUidFile, WriteUidFile, HelloUnreachable,
               DownloadUnreachable, CutOff, Starting, Goto, Connected, TypeOK
        <3>3. QED
            BY <1>1, <3>1, <3>2, KnownKept
    <2>4. QED
        BY <2>1, <2>2, <2>3
<1>4. ASSUME NEW e \in Dnodes PROVE Known(e)'
    <2>1. CASE e = d
        BY <1>3, <2>1
    <2>2. CASE e # d
        BY <1>1, <2>2, KnownKept
    <2>3. QED
        BY <2>1, <2>2
<1>5. QED
    BY <1>1, <1>4, NothingListed DEF hubVars, maps

\* A dnode that opens a connection posts nothing.
LEMMA OpenRegistered ==
    ASSUME Connected, Registered, [Next]_vars, Free', ~ Dying, NEW d \in Dnodes,
           SendJoin(d) \/ SendHello(d) \/ SendDownload(d)
    PROVE  Registered'
<1>1. PICK kind \in {"join", "hello", "download"}, n \in Names \cup {Nil} :
        Send(Request(kind, d, n, Nil, "open"))
    BY DEF SendJoin, SendHello, SendDownload
<1>2. UNCHANGED <<hubVars, now, uid, uidFile, want, given, known>>
    BY DEF SendJoin, SendHello, SendDownload
<1> DEFINE r == Request(kind, d, n, Nil, "open")
           k == Len(backlog) + 1
<1>3. r \in Requests /\ r.kind = kind
    BY RequestFacts DEF Connected
<1>4. /\ DOMAIN backlog' = DOMAIN backlog \cup {k} /\ backlog'[k] = r
      /\ \A i \in DOMAIN backlog : backlog'[i] = backlog[i]
    BY <1>1, <1>3, Sent DEF Connected
<1> HIDE DEF r, k
<1>5. ASSUME NEW e \in Dnodes PROVE Known(e)'
    <2>1. phase'[e] \in Starting => phase[e] \in Starting
        BY DEF SendJoin, SendHello, SendDownload, Goto, Connected, TypeOK, Starting
    <2>2. QED
        BY <1>2, <2>1, KnownKept DEF known
<1>6. ASSUME NEW i \in DOMAIN backlog' PROVE Listable(backlog[i])'
    BY <1>2, <1>3, <1>4, FreeBefore DEF Registered, Listable, Accounted, hubVars, maps, known
<1>7. QED
    BY <1>2, <1>5, <1>6, FreeBefore DEF Registered, Stored, Accounted, hubVars, maps, known

\* What a dnode posts carries the uid under which it was answered, or one of a
\* stranger.
LEMMA PostRegistered ==
    ASSUME Connected, Registered, [Next]_vars, Free', ~ Dying,
           NEW d \in Dnodes, Posting(d)
    PROVE  Registered'
<1>1. UNCHANGED <<hubVars, now, uid, uidFile, given, registered>>
    BY PostFrame
<1>2. ASSUME NEW e \in Dnodes PROVE Known(e)'
    <2>1. phase'[e] = phase[e] \/ phase'[e] \in {"off", "running"}
        BY PostFrame
    <2>2. QED
        BY <1>1, <2>1, KnownKept DEF Starting
<1>3. ASSUME NEW i \in DOMAIN backlog' PROVE Listable(backlog[i])'
    <2>1. CASE i \in DOMAIN backlog /\ backlog'[i] = backlog[i]
        <3>1. Listable(backlog[i]) /\ backlog[i].uid \in Uids
            BY <2>1, FreeBefore, BacklogFacts DEF Registered, Connected, Requests
        <3>2. PICK u \in Uids : u = backlog[i].uid
            BY <3>1
        <3>3. Accounted(u) => Accounted(u)'
            BY FreeBefore
        <3>4. QED
            BY <2>1, <3>1, <3>2, <3>3 DEF Listable, Accounted
    <2>2. CASE ~(i \in DOMAIN backlog /\ backlog'[i] = backlog[i])
        <3>1. PICK r \in Requests : Send(r) /\ r.uid = uid[d] /\ Vouched(d, r)
            BY <2>2, PostFrame
        <3>2. backlog'[i] = r
            BY <2>2, <3>1, Sent DEF Connected
        <3>3. Known(d)
            BY FreeBefore DEF Registered
        <3>4. r.end # "cut" => Accounted(uid[d])'
            BY <1>1, <3>1, <3>3 DEF Known, Vouched, Accounted, hubVars, maps
        <3>5. QED
            BY <1>1, <3>1, <3>2, <3>4 DEF Listable, Accounted
    <2>3. QED
        BY <2>1, <2>2
<1>4. \A h \in Hashes : \A i \in DOMAIN sources[h] : Accounted(sources[h][i])'
    <2>1. sources' = sources
        BY <1>1 DEF hubVars, maps
    <2>2. \A h \in Hashes : \A i \in DOMAIN sources[h] : sources[h][i] \in Uids
        BY ElementOfSeq, LenProperties DEF Connected, TypeOK
    <2>3. \A h \in Hashes : \A i \in DOMAIN sources[h] : Accounted(sources[h][i])
        BY FreeBefore DEF Registered
    <2>4. QED
        BY <2>1, <2>2, <2>3, FreeBefore DEF Accounted
<1>5. QED
    BY <1>1, <1>2, <1>3, <1>4, FreeBefore DEF Registered, Stored, Accounted, hubVars, maps

\* Registered, when a dnode is killed.
LEMMA KillRegistered ==
    ASSUME Connected, Registered, [Next]_vars, Free', ~ Dying,
           NEW d \in Dnodes, KillDnode(d)
    PROVE  Registered'
<1>1. UNCHANGED <<hubVars, uid, known>> /\ phase' = [phase EXCEPT ![d] = "off"]
    BY DEF KillDnode, Goto
<1>2. \A e \in Dnodes : phase'[e] = IF e = d THEN "off" ELSE phase[e]
    BY <1>1 DEF Connected, TypeOK
<1>3. ASSUME NEW e \in Dnodes PROVE Known(e)'
    BY <1>1, <1>2, KnownKept DEF known, Starting
<1>4. QED
    BY <1>1, <1>3, Hangup, NothingListed DEF Connected, hubVars, maps

\* Registered, for the clock and the start of a hub.
LEMMA IdleRegistered ==
    ASSUME Connected, Registered, [Next]_vars, Free', ~ Dying, Idle \/ UNCHANGED vars
    PROVE  Registered'
<1>1. UNCHANGED <<maps, backlog, dnodeVars, known>>
    BY IdleFrame DEF Connected, vars, hubVars
<1>2. \A d \in Dnodes : Known(d)'
    BY <1>1, KnownKept DEF dnodeVars, known
<1>3. QED
    BY <1>1, <1>2, NothingListed DEF maps

\* A hub that ends forgets names, sources and dnodes together.
LEMMA DyingRegistered ==
    ASSUME Dying
    PROVE  Registered'
<1>1. /\ backlog' = <<>> /\ sources' = NoSources /\ fname' = NoNames
      /\ registered' = {}
    BY DyingFrame DEF HubDies
<1>2. DOMAIN backlog' = {} /\ \A h \in Hashes : DOMAIN sources'[h] = {}
    BY <1>1 DEF NoSources
<1>3. \A n \in Names : fname'[n] = Nil
    BY <1>1 DEF NoNames
<1>4. QED
    BY <1>1, <1>2, <1>3 DEF Registered, Known, Stored

\* An answer goes to the dnode of the connection that is closed with it, and
\* joins and hellos have stored its address by then.
LEMMA AnswerRegistered ==
    ASSUME Connected, Registered, [Next]_vars, Free', ~ Dying,
           HandleJoin \/ HandleHello \/ HandleDownload
    PROVE  Registered'
<1> DEFINE r == backlog[1]
<1>1. /\ r = Head(backlog) /\ r \in Requests /\ Awaited(r)
      /\ \A i \in DOMAIN backlog' : i + 1 \in DOMAIN backlog /\ backlog'[i] = backlog[i + 1]
      /\ \A i \in DOMAIN backlog \ {1} : i - 1 \in DOMAIN backlog' /\ backlog'[i - 1] = backlog[i]
    BY Served DEF HandleJoin, HandleHello, HandleDownload, Connected
<1>2. r.from \in Dnodes /\ r.from # Nil /\ r.uid \in Uids
    BY <1>1, RegistryAssumption DEF Requests
<1>3. UNCHANGED <<sources, indexed, fname>>
    BY DEF HandleJoin, HandleHello, HandleDownload, hubVars, maps
<1>4. ASSUME NEW d \in Dnodes PROVE Known(d)'
    <2>1. CASE d = r.from /\ r.end = "open" /\ ~HandleDownload
        <3>1. phase'[d] \in {"create", "running"} /\ dnodesMap'[uid'[d]] # Nil
            <4>1. CASE HandleJoin
                BY <1>1, <1>2, <2>1, <4>1, Constants DEF HandleJoin, Answer, Connected, TypeOK,
                   Handed
            <4>2. CASE HandleHello
                BY <1>1, <1>2, <2>1, <4>2 DEF HandleHello, Answer, Connected, TypeOK, Awaited
            <4>3. QED
                BY <2>1, <4>1, <4>2
        <3>2. QED
            BY <3>1 DEF Known
    <2>2. CASE ~(d = r.from /\ r.end = "open") \/ HandleDownload
        <3>1. uid'[d] = uid[d]
            BY <1>1, <2>2 DEF HandleJoin, HandleHello, HandleDownload, Connected, TypeOK
        <3>2. phase'[d] = phase[d] \/ phase'[d] = "fetching"
            BY <1>1, <1>2, <2>2
               DEF HandleJoin, HandleHello, HandleDownload, Answer, Connected, TypeOK
        <3>3. d \in registered' => d \in registered
            BY <1>1, <2>2 DEF HandleJoin, HandleHello, HandleDownload, Registers, known
        <3>4. QED
            BY <3>1, <3>2, <3>3, KnownKept DEF Starting
    <2>3. QED
        BY <2>1, <2>2
<1>5. QED
    BY <1>1, <1>3, <1>4, NothingListed

\* What is listed comes from a dnode with an address; an upload stores its
\* metadata and its source before its name.
LEMMA ListRegistered ==
    ASSUME Connected, Registered, [Next]_vars, Free', ~ Dying, HandleUpload \/ HandleAck
    PROVE  Registered'
<1> DEFINE r == backlog[1]
<1>1. /\ 1 \in DOMAIN backlog /\ r = Head(backlog) /\ r \in Requests
      /\ r.kind \in {"upload", "ack"} /\ Shaped(r) /\ Awaited(r) /\ r.end # "cut"
      /\ \A i \in DOMAIN backlog' : i + 1 \in DOMAIN backlog /\ backlog'[i] = backlog[i + 1]
      /\ \A i \in DOMAIN backlog \ {1} : i - 1 \in DOMAIN backlog' /\ backlog'[i - 1] = backlog[i]
    BY Served DEF HandleUpload, HandleAck, Connected
<1>2. r.uid \in Uids /\ r.hash \in Hashes /\ r.end # "open" /\ Accounted(r.uid)
    BY <1>1, FreeBefore DEF Requests, Shaped, Awaited, Registered, Listable
<1>3. /\ UNCHANGED <<dnodesMap, dnodeVars, known>>
      /\ sources' = [sources EXCEPT ![r.hash] = Append(@, r.uid)]
    BY <1>1 DEF HandleUpload, HandleAck, Filed, Listed
<1>4. ASSUME NEW d \in Dnodes PROVE Known(d)'
    BY <1>1, <1>2, <1>3, KnownKept DEF dnodeVars, known
<1>5. ASSUME NEW h \in Hashes
      PROVE  /\ sources'[h] # <<>> \/ (sources'[h] = sources[h] /\ h # r.hash)
             /\ \A i \in DOMAIN sources'[h] : Accounted(sources'[h][i])
    <2>1. CASE h = r.hash
        <3>1. sources[h] \in Seq(Uids) /\ sources'[h] = Append(sources[h], r.uid)
            BY <1>2, <1>3, <2>1 DEF Connected, TypeOK
        <3>2. /\ sources'[h] # <<>>
              /\ \A i \in DOMAIN sources'[h] :
                    \/ i \in DOMAIN sources[h] /\ sources'[h][i] = sources[h][i]
                    \/ sources'[h][i] = r.uid
            BY <1>2, <3>1, AppendProperties, LenProperties
        <3>3. QED
            BY <1>2, <3>2, FreeBefore DEF Registered
    <2>2. CASE h # r.hash
        BY <1>2, <1>3, <2>2, FreeBefore DEF Connected, TypeOK, Registered
    <2>3. QED
        BY <2>1, <2>2
<1>6. ASSUME NEW n \in Names PROVE Stored(n)'
    <2>1. /\ indexed \subseteq indexed'
          /\ fname'[n] = fname[n] \/ (fname'[n] = r.hash /\ r.hash \in indexed')
        BY <1>1 DEF HandleUpload, HandleAck, Filed, Connected, TypeOK
    <2>2. Stored(n) /\ fname[n] \in Hashes \cup {Nil}
        BY FreeBefore DEF Registered, Connected, TypeOK
    <2>3. QED
        BY <1>2, <1>5, <2>1, <2>2 DEF Stored
<1>7. \A i \in DOMAIN backlog' : Listable(backlog[i])'
    BY <1>1, <1>3, FreeBefore DEF Registered, Listable, Accounted, known
<1>8. QED
    BY <1>3, <1>4, <1>5, <1>6, <1>7, FreeBefore DEF Registered, Accounted, known

\* Registered is inductive.
LEMMA StepRegistered == Connected /\ Registered /\ [Next]_vars => Registered'
<1> SUFFICES ASSUME Connected, Registered, [Next]_vars PROVE Registered'
    OBVIOUS
<1>1. CASE ~ Free'
    BY <1>1 DEF Registered
<1>2. CASE Dying
    BY <1>2, DyingRegistered
<1>3. CASE Free' /\ ~ Dying
    <2>1. ~ HubSpins
        BY <1>3, SpinFrame DEF Free
    <2>2. QED
        BY <1>3, <2>1, Steps, IdleRegistered, AnswerRegistered, ListRegistered,
           LocalRegistered, PostRegistered, KillRegistered, OpenRegistered DEF Handling
<1>4. QED
    BY <1>1, <1>2, <1>3

\* Registered, at the start.
LEMMA InitRegistered == Init => Registered
<1> SUFFICES ASSUME Init PROVE Registered
    OBVIOUS
<1>1. DOMAIN backlog = {} /\ \A h \in Hashes : DOMAIN sources[h] = {}
    BY DEF Init, NoSources
<1>2. \A n \in Names : fname[n] = Nil
    BY DEF Init, NoNames
<1>3. \A d \in Dnodes : Known(d)
    BY DEF Init, Known
<1>4. QED
    BY <1>1, <1>2, <1>3 DEF Init, Registered, Stored

\* A hub that runs can answer for every name it stores: the name has metadata
\* and sources, and every source an address, unless a dnode that this hub never
\* answered has posted under its uid.
THEOREM NamesAreAnswerable == Spec => []NamesAnswerable
<1>1. Connected /\ Registered => NamesAnswerable
    <2> SUFFICES ASSUME Connected, Registered, Free, NEW n \in Names, fname[n] # Nil
                 PROVE  /\ fname[n] \in indexed /\ sources[fname[n]] # <<>>
                        /\ \A u \in Range(sources[fname[n]]) :
                            dnodesMap[u] = Nil => u \in strangers
        BY DEF NamesAnswerable, Free
    <2>1. fname[n] \in Hashes /\ fname[n] \in indexed /\ sources[fname[n]] # <<>>
        BY DEF Connected, TypeOK, Registered, Stored
    <2>2. \A u \in Range(sources[fname[n]]) : Accounted(u)
        BY <2>1 DEF Registered, Range
    <2>3. QED
        BY <2>1, <2>2 DEF Accounted
<1>2. QED
    BY <1>1, InitConnected, StepConnected, InitRegistered, StepRegistered, PTL DEF Spec

=============================================================================
