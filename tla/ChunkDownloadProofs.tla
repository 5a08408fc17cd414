------------------------- MODULE ChunkDownloadProofs -------------------------
(***************************************************************************)
(* ChunkDownload is safe for every number of threads, peers and chunks.    *)
(*                                                                         *)
(* The safety properties follow from the inductive invariant IInv, which   *)
(* relates the program counters to the mutexes, to the marks on the chunks *)
(* and to the sources.                                                     *)
(***************************************************************************)
EXTENDS ChunkDownload, ChunkLayoutProofs, FiniteSetTheorems

\* Who holds which mutex is a matter of program counters.
Locks ==
    \A t \in Threads :
        /\ numLock = t <=> pc[t] \in {"doneSrc", "count"}
        /\ srcLock = t <=> pc[t] \in {"failChunks", "count"}
        /\ chunksLock = t <=> pc[t] \in {"doneNum", "doneSrc", "count"}

\* A thread past the selection has a source; one that could not connect was
\* refused by it.
Assigned ==
    \A t \in Threads :
        /\ pc[t] = "count" => chunk[t] \in Window
        /\ pc[t] \in Busy \ {"select"} => peer[t] \in Peers
        /\ pc[t] \in {"failSrc", "failChunks"} => peer[t] \in refused

\* The downloaded prefix is counted as soon as the counting thread is through.
Counted ==
    /\ \A i \in Window : i < counted => downloaded[i]
    /\ bytes = BytesUpTo(counted)
    /\ CanCount => \E t \in Threads : pc[t] = "count"

Held(i) == \E t \in Threads : pc[t] \in Busy /\ chunk[t] = i

\* A mark without a holder is left only by a thread that found nobody online.
Marks ==
    \A i \in Window :
        /\ downloaded[i] => downloading[i]
        /\ (downloading[i] /\ ~ downloaded[i] /\ ~ Held(i)) => Candidates = {}

Downloaded == {i \in Window : downloaded[i]}

\* A source that was not refused stays a candidate while a chunk is missing.
Sources ==
    /\ \A p \in Peers : online[p] \/ p \in refused
    /\ \A p \in Peers : served[p] <= Cardinality(Downloaded)

\* While no thread was created, nothing has happened to chunks and sources.
Untouched ==
    (\A t \in Threads : pc[t] \in {"idle", "absent"})
        => /\ \A i \in Window : ~ downloading[i] /\ ~ downloaded[i]
           /\ Candidates = Peers

\* The last thread to leave finds no chunk to claim.
Leaving ==
    /\ main = "spawn" => counted = 0 /\ \A t \in Threads : pc[t] = "idle"
    /\ AllLeft => Available = {}
    /\ main = "done" => (Window = {} \/ \A t \in Threads : Gone(t))
    /\ Untouched

IInv ==
    /\ TypeOK
    /\ Locks
    /\ Assigned
    /\ ChunkOwnership
    /\ Counted
    /\ Marks
    /\ Sources
    /\ Leaving

-----------------------------------------------------------------------------
(* The proofs. *)

\* The window is a prefix of the chunks and fits the buffer.
LEMMA LimitFacts ==
    /\ Limit \in Nat
    /\ Limit <= NumChunks
    /\ Limit <= WindowChunks
    /\ Window \subseteq Chunks
    /\ Window \subseteq Slots
    /\ None \notin Window
BY LayoutDivision, LayoutAssumption DEF Limit, Window, Chunks, Slots, None

\* The set of downloaded chunks is finite, and no larger than the window.
LEMMA DownloadedFinite ==
    /\ IsFiniteSet(Downloaded)
    /\ Cardinality(Downloaded) \in Nat
    /\ Cardinality(Downloaded) <= Limit
    /\ Cardinality(Downloaded) = Limit => Downloaded = Window
<1>1. IsFiniteSet(Window) /\ Cardinality(Window) = Limit
    BY FS_Interval, LimitFacts DEF Window
<1>2. Downloaded \subseteq Window
    BY DEF Downloaded
<1>3. QED
    BY <1>1, <1>2, FS_Subset, FS_CardinalityType

\* A thread leaves the loop when the whole window is counted.
LEMMA CheckDoneStep ==
    ASSUME IInv, NEW t \in Threads, CheckDone(t)
    PROVE  IInv'
<1>1. TypeOK'
    BY DEF IInv, TypeOK, disk, Labels, CheckDone, Goto, tables, locks
<1>2. Locks'
    BY DownloadAssumption DEF IInv, Locks, TypeOK, CheckDone, Goto,
       tables, locks
<1>3. Assigned'
    BY DEF IInv, Assigned, TypeOK, Busy, CheckDone, Goto, tables, locks
<1>4. ChunkOwnership'
    BY DEF IInv, ChunkOwnership, TypeOK, Busy, CheckDone, Goto, tables,
       locks
<1>5. Counted'
    BY DEF IInv, Counted, TypeOK, CanCount, CheckDone, Goto, tables, locks
<1>6. Marks'
    BY DEF IInv, Marks, TypeOK, Held, Busy, Candidates, CheckDone, Goto,
       tables, locks
<1>7. Sources'
    BY DEF IInv, Sources, TypeOK, Downloaded, CheckDone, Goto, tables,
       locks
<1>8. Leaving'
    <2>1. CASE counted >= Limit
        <3>1. \A i \in Window : downloaded[i]
            BY <2>1, LimitFacts DEF IInv, TypeOK, Counted, Window
        <3>2. Available' = {}
            BY <3>1 DEF Available, CheckDone, tables
        <3>3. QED
            BY <3>2 DEF IInv, Leaving, AllLeft, Gone, Untouched, Candidates,
                        TypeOK, CheckDone, Goto
    <2>2. CASE ~ (counted >= Limit)
        BY <2>2 DEF IInv, Leaving, AllLeft, Gone, Untouched, Candidates,
                    TypeOK, CheckDone, Goto
    <2>3. QED
        BY <2>1, <2>2
<1>9. QED
    BY <1>1, <1>2, <1>3, <1>4, <1>5, <1>6, <1>7, <1>8 DEF IInv

\* A claimed chunk had no holder and gets one.
LEMMA ClaimStep ==
    ASSUME IInv, NEW t \in Threads, Claim(t)
    PROVE  IInv'
<1>1. TypeOK'
    BY DEF IInv, TypeOK, disk, Available, Labels, Claim, Goto, locks
<1>2. Locks'
    BY DownloadAssumption DEF IInv, Locks, TypeOK, Claim, Goto, locks,
       Available
<1>3. Assigned'
    BY DEF IInv, Assigned, TypeOK, Busy, Claim, Goto, locks, Available
<1>4. ChunkOwnership'
    BY DEF IInv, ChunkOwnership, TypeOK, Available, Busy, Claim, Goto,
       locks
<1>5. Counted'
    BY DEF IInv, Counted, TypeOK, CanCount, Claim, Goto, locks, Available
<1>6. Marks'
    <2>1. PICK i \in Available :
              /\ chunk' = [chunk EXCEPT ![t] = i]
              /\ downloading' = [downloading EXCEPT ![i] = TRUE]
        BY DEF Claim
    <2>2. Held(i)'
        BY <2>1 DEF IInv, TypeOK, Held, Busy, Claim, Goto
    <2>3. ASSUME NEW j \in Window, Held(j) PROVE Held(j)'
        BY <2>1, <2>3 DEF IInv, TypeOK, Held, Busy, Claim, Goto
    <2>4. QED
        BY <2>1, <2>2, <2>3
           DEF IInv, Marks, TypeOK, Available, Candidates, Claim
<1>7. Sources'
    BY DEF IInv, Sources, TypeOK, Downloaded, Claim, Goto, locks,
       Available
<1>8. Leaving'
    BY DEF IInv, Leaving, AllLeft, Gone, Untouched, Candidates, TypeOK,
           Available, Claim, Goto, locks
<1>9. QED
    BY <1>1, <1>2, <1>3, <1>4, <1>5, <1>6, <1>7, <1>8 DEF IInv

\* A thread that finds nothing to claim leaves nothing behind.
LEMMA NothingToClaimStep ==
    ASSUME IInv, NEW t \in Threads, NothingToClaim(t)
    PROVE  IInv'
<1>1. TypeOK'
    BY DEF IInv, TypeOK, disk, Labels, NothingToClaim, Goto, tables, locks,
       Available
<1>2. Locks'
    BY DownloadAssumption DEF IInv, Locks, TypeOK, NothingToClaim, Goto,
       tables, locks, Available
<1>3. Assigned'
    BY DEF IInv, Assigned, TypeOK, Busy, NothingToClaim, Goto, tables,
       locks, Available
<1>4. ChunkOwnership'
    BY DEF IInv, ChunkOwnership, TypeOK, Busy, NothingToClaim, Goto,
       tables, locks, Available
<1>5. Counted'
    BY DEF IInv, Counted, TypeOK, CanCount, NothingToClaim, Goto, tables,
       locks, Available
<1>6. Marks'
    BY DEF IInv, Marks, TypeOK, Held, Busy, Candidates, NothingToClaim,
       Goto, tables, locks, Available
<1>7. Sources'
    BY DEF IInv, Sources, TypeOK, Downloaded, NothingToClaim, Goto,
       tables, locks, Available
<1>8. Leaving'
    BY DEF IInv, Leaving, AllLeft, Gone, Untouched, Candidates, TypeOK,
           Available, NothingToClaim, Goto, tables, locks
<1>9. QED
    BY <1>1, <1>2, <1>3, <1>4, <1>5, <1>6, <1>7, <1>8 DEF IInv

\* A selected source is one of the list.
LEMMA SelectStep ==
    ASSUME IInv, NEW t \in Threads, Select(t)
    PROVE  IInv'
<1>1. TypeOK'
    BY DEF IInv, TypeOK, disk, Candidates, Labels, Select, Goto, tables, locks
<1>2. Locks'
    BY DownloadAssumption DEF IInv, Locks, TypeOK, Select, Goto, tables,
       locks, Candidates
<1>3. Assigned'
    BY DEF IInv, Assigned, TypeOK, Candidates, Busy, Select, Goto, tables,
       locks
<1>4. ChunkOwnership'
    BY DEF IInv, ChunkOwnership, TypeOK, Busy, Select, Goto, tables,
       locks, Candidates
<1>5. Counted'
    BY DEF IInv, Counted, TypeOK, CanCount, Select, Goto, tables, locks,
       Candidates
<1>6. Marks'
    BY DEF IInv, Marks, TypeOK, Held, Busy, Candidates, Select, Goto,
       tables, locks
<1>7. Sources'
    BY DEF IInv, Sources, TypeOK, Downloaded, Select, Goto, tables, locks,
       Candidates
<1>8. Leaving'
    BY DEF IInv, Leaving, AllLeft, Gone, Untouched, Candidates, TypeOK,
           Available, Select, Goto, tables, locks, Candidates
<1>9. QED
    BY <1>1, <1>2, <1>3, <1>4, <1>5, <1>6, <1>7, <1>8 DEF IInv

\* A chunk keeps its mark and loses its holder: no candidate is left.
LEMMA NobodyOnlineStep ==
    ASSUME IInv, NEW t \in Threads, NobodyOnline(t)
    PROVE  IInv'
<1>1. TypeOK'
    BY DEF IInv, TypeOK, disk, Labels, NobodyOnline, Restart, tables, locks,
       Candidates, Goto
<1>2. Locks'
    BY DownloadAssumption DEF IInv, Locks, TypeOK, NobodyOnline, Restart,
       tables, locks, Candidates, Goto
<1>3. Assigned'
    BY DEF IInv, Assigned, TypeOK, Busy, NobodyOnline, Restart, tables,
       locks, Candidates, Goto
<1>4. ChunkOwnership'
    BY DEF IInv, ChunkOwnership, TypeOK, Busy, NobodyOnline, Restart,
       tables, locks, Candidates, Goto
<1>5. Counted'
    BY DEF IInv, Counted, TypeOK, CanCount, NobodyOnline, Restart, tables,
       locks, Candidates, Goto
<1>6. Marks'
    BY DEF IInv, Marks, TypeOK, ChunkOwnership, Held, Busy, Candidates,
       NobodyOnline, Restart, tables, locks, Goto
<1>7. Sources'
    BY DEF IInv, Sources, TypeOK, Downloaded, NobodyOnline, Restart,
       tables, locks, Candidates, Goto
<1>8. Leaving'
    BY DEF IInv, Leaving, AllLeft, Gone, Untouched, Candidates, TypeOK,
           Available, NobodyOnline, Restart, tables, locks, Candidates, Goto
<1>9. QED
    BY <1>1, <1>2, <1>3, <1>4, <1>5, <1>6, <1>7, <1>8 DEF IInv

\* A connected thread keeps its chunk and its source.
LEMMA ConnectStep ==
    ASSUME IInv, NEW t \in Threads, Connect(t)
    PROVE  IInv'
<1>1. TypeOK'
    BY DEF IInv, TypeOK, disk, Labels, Connect, Goto, tables, locks
<1>2. Locks'
    BY DownloadAssumption DEF IInv, Locks, TypeOK, Connect, Goto, tables,
       locks
<1>3. Assigned'
    BY DEF IInv, Assigned, TypeOK, Busy, Connect, Goto, tables, locks
<1>4. ChunkOwnership'
    BY DEF IInv, ChunkOwnership, TypeOK, Busy, Connect, Goto, tables,
       locks
<1>5. Counted'
    BY DEF IInv, Counted, TypeOK, CanCount, Connect, Goto, tables, locks
<1>6. Marks'
    BY DEF IInv, Marks, TypeOK, Held, Busy, Candidates, Connect, Goto,
       tables, locks
<1>7. Sources'
    BY DEF IInv, Sources, TypeOK, Downloaded, Connect, Goto, tables, locks
<1>8. Leaving'
    BY DEF IInv, Leaving, AllLeft, Gone, Untouched, Candidates, TypeOK,
           Available, Connect, Goto, tables, locks
<1>9. QED
    BY <1>1, <1>2, <1>3, <1>4, <1>5, <1>6, <1>7, <1>8 DEF IInv

\* Only an unsteady source refuses a connection.
LEMMA ConnectFailsStep ==
    ASSUME IInv, NEW t \in Threads, ConnectFails(t)
    PROVE  IInv'
<1>1. TypeOK'
    <2>1. peer[t] \in Peers
        BY DEF IInv, Assigned, Busy, ConnectFails
    <2>2. QED
        BY <2>1 DEF IInv, TypeOK, disk, Labels, ConnectFails, Goto, tables,
           locks
<1>2. Locks'
    BY DownloadAssumption DEF IInv, Locks, TypeOK, ConnectFails, Goto,
       tables, locks
<1>3. Assigned'
    BY DEF IInv, Assigned, TypeOK, Busy, ConnectFails, Goto, tables, locks
<1>4. ChunkOwnership'
    BY DEF IInv, ChunkOwnership, TypeOK, Busy, ConnectFails, Goto, tables,
       locks
<1>5. Counted'
    BY DEF IInv, Counted, TypeOK, CanCount, ConnectFails, Goto, tables,
       locks
<1>6. Marks'
    BY DEF IInv, Marks, TypeOK, Held, Busy, Candidates, ConnectFails,
       Goto, tables, locks
<1>7. Sources'
    BY DEF IInv, Sources, TypeOK, Downloaded, ConnectFails, Goto, tables,
       locks
<1>8. Leaving'
    BY DEF IInv, Leaving, AllLeft, Gone, Untouched, Candidates, TypeOK,
           Available, ConnectFails, Goto, tables, locks
<1>9. QED
    BY <1>1, <1>2, <1>3, <1>4, <1>5, <1>6, <1>7, <1>8 DEF IInv

\* A thread that could not connect takes the mutex of the sources.
LEMMA FailSrcStep ==
    ASSUME IInv, NEW t \in Threads, FailSrc(t)
    PROVE  IInv'
<1>1. TypeOK'
    BY DEF IInv, TypeOK, disk, Labels, FailSrc, Goto, tables
<1>2. Locks'
    BY DownloadAssumption DEF IInv, Locks, TypeOK, FailSrc, Goto, tables
<1>3. Assigned'
    BY DEF IInv, Assigned, TypeOK, Busy, FailSrc, Goto, tables
<1>4. ChunkOwnership'
    BY DEF IInv, ChunkOwnership, TypeOK, Busy, FailSrc, Goto, tables
<1>5. Counted'
    BY DEF IInv, Counted, TypeOK, CanCount, FailSrc, Goto, tables
<1>6. Marks'
    BY DEF IInv, Marks, TypeOK, Held, Busy, Candidates, FailSrc, Goto,
       tables
<1>7. Sources'
    BY DEF IInv, Sources, TypeOK, Downloaded, FailSrc, Goto, tables
<1>8. Leaving'
    BY DEF IInv, Leaving, AllLeft, Gone, Untouched, Candidates, TypeOK,
           Available, FailSrc, Goto, tables
<1>9. QED
    BY <1>1, <1>2, <1>3, <1>4, <1>5, <1>6, <1>7, <1>8 DEF IInv

\* A chunk handed back is available again; its source was unsteady.
LEMMA FailChunksStep ==
    ASSUME IInv, NEW t \in Threads, FailChunks(t)
    PROVE  IInv'
<1>1. TypeOK'
    BY DEF IInv, TypeOK, disk, Labels, FailChunks, Restart, Goto
<1>2. Locks'
    BY DownloadAssumption DEF IInv, Locks, TypeOK, FailChunks, Restart,
       Goto
<1>3. Assigned'
    BY DEF IInv, Assigned, TypeOK, Busy, FailChunks, Restart, Goto
<1>4. ChunkOwnership'
    BY DEF IInv, ChunkOwnership, TypeOK, Assigned, Busy, FailChunks,
       Restart, Goto
<1>5. Counted'
    BY DEF IInv, Counted, TypeOK, CanCount, FailChunks, Restart, Goto
<1>6. Marks'
    BY DEF IInv, Marks, TypeOK, ChunkOwnership, Assigned, Held, Busy,
       Candidates, FailChunks, Restart, Goto
<1>7. Sources'
    BY DownloadAssumption DEF IInv, Sources, TypeOK, Assigned, Downloaded,
       FailChunks, Restart, Goto
<1>8. Leaving'
    BY DEF IInv, Leaving, AllLeft, Gone, Untouched, Candidates, TypeOK,
           Available, FailChunks, Restart, Goto
<1>9. QED
    BY <1>1, <1>2, <1>3, <1>4, <1>5, <1>6, <1>7, <1>8 DEF IInv

\* What is received changes nothing but the buffer; a thread that is left in
\* recv keeps its chunk for ever.
LEMMA ReceiveStep ==
    ASSUME IInv, NEW t \in Threads, NEW data \in Window \cup {Garbage},
           NEW next \in {"doneChunks", "spin", "silent"},
           Receive(t, data, next)
    PROVE  IInv'
<1>1. TypeOK'
    BY DEF IInv, TypeOK, disk, Labels, Goto, Receive, tables, locks
<1>2. Locks'
    BY DownloadAssumption DEF IInv, Locks, TypeOK, Goto, Receive, tables,
       locks
<1>3. Assigned'
    BY DEF IInv, Assigned, TypeOK, Busy, Goto, Receive, tables, locks
<1>4. ChunkOwnership'
    BY DEF IInv, ChunkOwnership, TypeOK, Busy, Goto, Receive, tables, locks
<1>5. Counted'
    BY DEF IInv, Counted, TypeOK, CanCount, Goto, Receive, tables, locks
<1>6. Marks'
    BY DEF IInv, Marks, TypeOK, Held, Busy, Candidates, Goto, Receive,
       tables, locks
<1>7. Sources'
    BY DEF IInv, Sources, TypeOK, Downloaded, Goto, Receive, tables, locks
<1>8. Leaving'
    BY DEF IInv, Leaving, AllLeft, Gone, Untouched, Candidates, TypeOK,
           Available, Goto, Receive, tables, locks
<1>9. QED
    BY <1>1, <1>2, <1>3, <1>4, <1>5, <1>6, <1>7, <1>8 DEF IInv

\* The four ways to receive.
LEMMA RecvStep ==
    ASSUME IInv, NEW t \in Threads,
           \/ RecvChunk(t) \/ RecvGarbage(t)
           \/ RecvEof(t) \/ RecvNothing(t)
    PROVE  IInv'
<1>1. pc[t] = "recv" => chunk[t] \in Window
    BY DEF IInv, ChunkOwnership, Busy
<1>2. QED
    BY <1>1, ReceiveStep
       DEF RecvChunk, RecvGarbage, RecvEof, RecvNothing, RecvNothing, Receive

\* A thread with its data takes the mutex of the chunks.
LEMMA DoneChunksStep ==
    ASSUME IInv, NEW t \in Threads, DoneChunks(t)
    PROVE  IInv'
<1>1. TypeOK'
    BY DEF IInv, TypeOK, disk, Labels, DoneChunks, Goto, tables
<1>2. Locks'
    BY DownloadAssumption DEF IInv, Locks, TypeOK, DoneChunks, Goto,
       tables
<1>3. Assigned'
    BY DEF IInv, Assigned, TypeOK, Busy, DoneChunks, Goto, tables
<1>4. ChunkOwnership'
    BY DEF IInv, ChunkOwnership, TypeOK, Busy, DoneChunks, Goto, tables
<1>5. Counted'
    BY DEF IInv, Counted, TypeOK, CanCount, DoneChunks, Goto, tables
<1>6. Marks'
    BY DEF IInv, Marks, TypeOK, Held, Busy, Candidates, DoneChunks, Goto,
       tables
<1>7. Sources'
    BY DEF IInv, Sources, TypeOK, Downloaded, DoneChunks, Goto, tables
<1>8. Leaving'
    BY DEF IInv, Leaving, AllLeft, Gone, Untouched, Candidates, TypeOK,
           Available, DoneChunks, Goto, tables
<1>9. QED
    BY <1>1, <1>2, <1>3, <1>4, <1>5, <1>6, <1>7, <1>8 DEF IInv

\* Then it takes the mutex of the count.
LEMMA DoneNumStep ==
    ASSUME IInv, NEW t \in Threads, DoneNum(t)
    PROVE  IInv'
<1>1. TypeOK'
    BY DEF IInv, TypeOK, disk, Labels, DoneNum, Goto, tables
<1>2. Locks'
    BY DownloadAssumption DEF IInv, Locks, TypeOK, DoneNum, Goto, tables
<1>3. Assigned'
    BY DEF IInv, Assigned, TypeOK, Busy, DoneNum, Goto, tables
<1>4. ChunkOwnership'
    BY DEF IInv, ChunkOwnership, TypeOK, Busy, DoneNum, Goto, tables
<1>5. Counted'
    BY DEF IInv, Counted, TypeOK, CanCount, DoneNum, Goto, tables
<1>6. Marks'
    <2>1. ASSUME NEW i \in Window, Held(i) PROVE Held(i)'
        BY <2>1 DEF IInv, TypeOK, Held, Busy, DoneNum, Goto
    <2>2. QED
        BY <2>1 DEF IInv, Marks, Candidates, DoneNum, tables
<1>7. Sources'
    BY DEF IInv, Sources, TypeOK, Downloaded, DoneNum, Goto, tables
<1>8. Leaving'
    BY DEF IInv, Leaving, AllLeft, Gone, Untouched, Candidates, TypeOK,
           Available, DoneNum, Goto, tables
<1>9. QED
    BY <1>1, <1>2, <1>3, <1>4, <1>5, <1>6, <1>7, <1>8 DEF IInv

\* With the third mutex a chunk is downloaded and its source has served it.
LEMMA DoneSrcStep ==
    ASSUME IInv, NEW t \in Threads, DoneSrc(t)
    PROVE  IInv'
<1>1. TypeOK'
    <2>1. peer[t] \in Peers /\ chunk[t] \in Window
        BY DEF IInv, Assigned, ChunkOwnership, Busy, DoneSrc
    <2>2. served' \in [Peers -> Nat]
        BY <2>1 DEF IInv, TypeOK, DoneSrc
    <2>3. downloaded' \in [Window -> BOOLEAN]
        BY DEF IInv, TypeOK, DoneSrc
    <2>4. pc' \in [Threads -> Labels] /\ srcLock' \in Threads \cup {Nobody}
        BY DEF IInv, TypeOK, DoneSrc, Goto, Labels
    <2>5. QED
        BY <2>2, <2>3, <2>4 DEF IInv, TypeOK, disk, DoneSrc
<1>2. Locks'
    BY DownloadAssumption DEF IInv, Locks, TypeOK, DoneSrc, Goto
<1>3. Assigned'
    BY DEF IInv, Assigned, TypeOK, ChunkOwnership, Busy, DoneSrc, Goto
<1>4. ChunkOwnership'
    BY DEF IInv, ChunkOwnership, TypeOK, Assigned, Busy, DoneSrc, Goto
<1>5. Counted'
    BY LimitFacts DEF IInv, Counted, TypeOK, CanCount, DoneSrc, Goto
<1>6. Marks'
    <2>1. chunk[t] \in Window /\ downloading[chunk[t]]
        BY DEF IInv, ChunkOwnership, Busy, DoneSrc
    <2>2. downloaded' = [downloaded EXCEPT ![chunk[t]] = TRUE]
        BY DEF DoneSrc
    <2>3. ASSUME NEW i \in Window, i # chunk[t], Held(i) PROVE Held(i)'
        BY <2>3 DEF IInv, TypeOK, Held, Busy, DoneSrc, Goto
    <2>4. Candidates' \subseteq Candidates
        BY DEF IInv, TypeOK, Candidates, DoneSrc, ServedCeiling
    <2>5. QED
        BY <2>1, <2>2, <2>3, <2>4 DEF IInv, Marks, TypeOK, DoneSrc
<1>7. Sources'
    <2>1. chunk[t] \in Window /\ ~ downloaded[chunk[t]]
        BY DEF IInv, ChunkOwnership, Busy, DoneSrc
    <2>2. Downloaded' = Downloaded \cup {chunk[t]}
        BY <2>1 DEF IInv, TypeOK, Downloaded, DoneSrc
    <2>3. Cardinality(Downloaded') = Cardinality(Downloaded) + 1
        BY <2>1, <2>2, DownloadedFinite, FS_AddElement DEF Downloaded
    <2>4. \A p \in Peers : served'[p] <= served[p] + 1
        BY DEF IInv, TypeOK, DoneSrc
    <2>5. \A p \in Peers : served[p] \in Nat /\ served'[p] \in Nat
        BY <1>1 DEF IInv, TypeOK
    <2>6. QED
        BY <2>3, <2>4, <2>5, DownloadedFinite DEF IInv, Sources, DoneSrc
<1>8. Leaving'
    BY DEF IInv, Leaving, AllLeft, Gone, Untouched, Candidates, TypeOK, Busy,
           ChunkOwnership, Available, DoneSrc, Goto
<1>9. QED
    BY <1>1, <1>2, <1>3, <1>4, <1>5, <1>6, <1>7, <1>8 DEF IInv

\* Counting one more chunk keeps the count a downloaded prefix.
LEMMA CountStep ==
    ASSUME IInv, NEW t \in Threads, Count(t)
    PROVE  IInv'
<1>1. TypeOK'
    <2>1. counted \in Window /\ counted \in Chunks
        BY LimitFacts DEF IInv, TypeOK, Count, CanCount, Window
    <2>2. counted' \in 0 .. Limit /\ bytes' \in Nat
        BY <2>1, LimitFacts, ChunksTile, LayoutAssumption
           DEF IInv, TypeOK, Count, Window
    <2>3. QED
        BY <2>2 DEF IInv, TypeOK, disk, Count, locals, locks
<1>2. Locks'
    BY DownloadAssumption DEF IInv, Locks, TypeOK, Count, locks, locals,
       CanCount
<1>3. Assigned'
    BY DEF IInv, Assigned, TypeOK, Busy, Count, locks, locals, CanCount
<1>4. ChunkOwnership'
    BY DEF IInv, ChunkOwnership, TypeOK, Busy, Count, locks, locals,
       CanCount
<1>5. Counted'
    <2>1. counted \in Window /\ counted \in Chunks /\ downloaded[counted]
        BY LimitFacts DEF IInv, TypeOK, Count, CanCount, Window
    <2>2. \A i \in Window : i < counted + 1 => downloaded[i]
        BY <2>1, LimitFacts DEF IInv, Counted, Window
    <2>3. bytes + SizeOf(counted) = BytesUpTo(counted + 1)
        BY <2>1, ChunksTile DEF IInv, Counted
    <2>4. pc'[t] = "count"
        BY DEF Count, locals
    <2>5. BytesUpTo(counted)' = BytesUpTo(counted + 1)
        BY DEF BytesUpTo, Count
    <2>6. QED
        BY <2>2, <2>3, <2>4, <2>5 DEF Counted, Count
<1>6. Marks'
    BY DEF IInv, Marks, TypeOK, Held, Busy, Candidates, Count, locks,
       locals, CanCount
<1>7. Sources'
    BY DEF IInv, Sources, TypeOK, Downloaded, Count, locks, locals,
       CanCount
<1>8. Leaving'
    BY DEF IInv, Leaving, AllLeft, Gone, Untouched, Candidates, TypeOK,
           Available, Count, locks, locals, CanCount
<1>9. QED
    BY <1>1, <1>2, <1>3, <1>4, <1>5, <1>6, <1>7, <1>8 DEF IInv

\* The mutexes are released once nothing more can be counted.
LEMMA ReleaseStep ==
    ASSUME IInv, NEW t \in Threads, Release(t)
    PROVE  IInv'
<1>1. TypeOK'
    BY DEF IInv, TypeOK, disk, Labels, Release, Restart, tables, CanCount, Goto
<1>2. Locks'
    BY DownloadAssumption DEF IInv, Locks, TypeOK, Release, Restart,
       tables, CanCount, Goto
<1>3. Assigned'
    BY DEF IInv, Assigned, TypeOK, Busy, Release, Restart, tables,
       CanCount, Goto
<1>4. ChunkOwnership'
    BY DEF IInv, ChunkOwnership, TypeOK, Busy, Release, Restart, tables,
       CanCount, Goto
<1>5. Counted'
    BY DEF IInv, Counted, TypeOK, Locks, CanCount, Release, Restart,
       tables, Goto
<1>6. Marks'
    BY DEF IInv, Marks, TypeOK, Assigned, Held, Busy, Candidates, Release,
       Restart, tables, CanCount, Goto
<1>7. Sources'
    BY DEF IInv, Sources, TypeOK, Downloaded, Release, Restart, tables,
       CanCount, Goto
<1>8. Leaving'
    BY DEF IInv, Leaving, AllLeft, Gone, Untouched, Candidates, TypeOK,
           Available, Release, Restart, tables, CanCount, Goto
<1>9. QED
    BY <1>1, <1>2, <1>3, <1>4, <1>5, <1>6, <1>7, <1>8 DEF IInv

\* The threads start without a chunk; an empty file starts none.
LEMMA SpawnStep ==
    ASSUME IInv, Spawn
    PROVE  IInv'
<1>1. TypeOK'
    BY DEF IInv, TypeOK, disk, Spawn, Labels, tables, locks
<1>2. \A t \in Threads :
          pc[t] = "idle" /\ pc'[t] \in {"idle", "check", "absent"}
    BY DEF IInv, TypeOK, Leaving, Spawn
<1>3. Locks' /\ Assigned' /\ ChunkOwnership'
    BY <1>2 DEF IInv, Locks, Assigned, ChunkOwnership, Busy, Spawn, locks
<1>4. Counted' /\ Marks' /\ Sources'
    BY <1>2 DEF IInv, Counted, CanCount, Marks, Held, Busy, Candidates,
                Sources, Downloaded, Spawn, tables
<1>5. ~ AllLeft' /\ Untouched'
    BY <1>2 DEF IInv, Leaving, Untouched, AllLeft, Candidates, Spawn, tables
<1>6. main' = "done" => Window = {}
    BY LimitFacts, LayoutDivision DEF IInv, Leaving, Spawn, Window
<1>7. main' # "spawn"
    BY DEF Spawn
<1>8. QED
    BY <1>1, <1>3, <1>4, <1>5, <1>6, <1>7 DEF IInv, Leaving

\* A join that does not return changes nothing else.
LEMMA JoinNobodyStep ==
    ASSUME IInv, JoinNobody
    PROVE  IInv'
<1>1. TypeOK'
    BY DEF IInv, TypeOK, disk, JoinNobody, locals, tables, locks
<1>2. Locks' /\ Assigned' /\ ChunkOwnership' /\ Counted' /\ Marks' /\ Sources'
    BY DEF IInv, Locks, Assigned, ChunkOwnership, Counted, CanCount, Marks,
           Held, Candidates, Sources, Downloaded, JoinNobody, locals, tables,
           locks
<1>3. Leaving'
    BY DEF IInv, Leaving, AllLeft, Gone, Untouched, Candidates, Available,
           JoinNobody, locals, tables
<1>4. QED
    BY <1>1, <1>2, <1>3 DEF IInv

\* Writing the buffer changes neither the tables nor the threads.
LEMMA WriteStep ==
    ASSUME IInv, Write
    PROVE  IInv'
<1>1. BufferEnd \in Nat
    <2>1. BufferSize \in Nat \ {0}
        BY LayoutAssumption DEF BufferSize
    <2>2. bytes % BufferSize \in Nat
        BY <2>1 DEF IInv, TypeOK
    <2>3. QED
        BY <2>1, <2>2 DEF BufferEnd
<1>2. TypeOK'
    <2>1. written' \in Nat
        BY <1>1 DEF Write
    <2>2. diskError' \in BOOLEAN
        BY DEF IInv, TypeOK, Write
    <2>3. QED
        BY <2>1, <2>2 DEF IInv, TypeOK, Write, locals, tables, locks
<1>3. Locks' /\ Assigned' /\ ChunkOwnership' /\ Counted' /\ Marks' /\ Sources'
    BY DEF IInv, Locks, Assigned, ChunkOwnership, Counted, CanCount, Marks,
           Held, Candidates, Sources, Downloaded, Write, locals, tables, locks
<1>4. Leaving'
    BY DEF IInv, Leaving, AllLeft, Gone, Untouched, Candidates, Available,
           Write, locals, tables
<1>5. QED
    BY <1>2, <1>3, <1>4 DEF IInv

\* The download starts in the invariant.
LEMMA InitIInv == Init => IInv
<1> SUFFICES ASSUME Init PROVE IInv
    OBVIOUS
<1>1. TypeOK
    <2>1. diskError \in BOOLEAN
        BY DEF Init
    <2>2. QED
        BY <2>1, LimitFacts DEF Init, TypeOK, Labels, None, Garbage
<1>2. Locks /\ Assigned /\ ChunkOwnership
    BY DownloadAssumption DEF Init, Locks, Assigned, ChunkOwnership, Busy
<1>3. Counted
    <2>1. BytesUpTo(0) = 0
        <3>1. CASE NumChunks = 0
            BY <3>1, LayoutDivision, LayoutAssumption DEF BytesUpTo, NumChunks
        <3>2. CASE NumChunks # 0
            BY <3>2, LayoutAssumption DEF BytesUpTo, OffsetOf
        <3>3. QED
            BY <3>1, <3>2
    <2>2. QED
        BY <2>1, LimitFacts DEF Init, Counted, CanCount, Window
<1>4. Marks
    BY DEF Init, Marks
<1>5. Sources
    BY DownloadedFinite, DownloadAssumption DEF Init, Sources
<1>6. Leaving
    <2>1. Candidates = Peers
        BY DEF Init, Candidates, ServedCeiling
    <2>2. ~ AllLeft
        BY DEF Init, AllLeft
    <2>3. QED
        BY <2>1, <2>2 DEF Init, Leaving, Untouched
<1>7. QED
    BY <1>1, <1>2, <1>3, <1>4, <1>5, <1>6 DEF IInv

\* Every step of the main thread and of the download threads keeps it.
LEMMA NextIInv == IInv /\ [Next]_vars => IInv'
<1> SUFFICES ASSUME IInv, [Next]_vars PROVE IInv'
    OBVIOUS
<1>1. CASE Spawn
    BY <1>1, SpawnStep
<1>2. CASE Write
    BY <1>2, WriteStep
<1>3. CASE JoinNobody
    BY <1>3, JoinNobodyStep
<1>4. ASSUME NEW t \in Threads, Step(t) PROVE IInv'
    BY <1>4, CheckDoneStep, ClaimStep, NothingToClaimStep, SelectStep,
       NobodyOnlineStep, ConnectStep, ConnectFailsStep, FailSrcStep,
       FailChunksStep, RecvStep,
       DoneChunksStep, DoneNumStep, DoneSrcStep, CountStep, ReleaseStep
       DEF Step
<1>5. CASE UNCHANGED vars
    BY <1>5 DEF IInv, TypeOK, Locks, Assigned, ChunkOwnership, Counted,
                CanCount, Marks, Held, Candidates, Sources, Downloaded,
                Leaving, AllLeft, Gone, Untouched,
                Available, vars, disk, locals, tables, locks
<1>6. QED
    BY <1>1, <1>2, <1>3, <1>4, <1>5 DEF Next, MainStep

\* Every reachable state of a download satisfies the inductive invariant.
THEOREM Invariance == Spec => []IInv
BY InitIInv, NextIInv, PTL DEF Spec

-----------------------------------------------------------------------------
(* The properties. *)

\* The shared tables, the threads' locals and the buffer keep their types.
THEOREM TypeCorrect == Spec => []TypeOK
<1>1. IInv => TypeOK
    BY DEF IInv
<1>2. QED
    BY <1>1, Invariance, PTL

\* No two threads ever work on the same chunk, hence on the same bytes of the
\* unlocked download buffer, whatever the number of threads and chunks.
THEOREM OneThreadPerChunk == Spec => []ChunkOwnership
<1>1. IInv => ChunkOwnership
    BY DEF IInv
<1>2. QED
    BY <1>1, Invariance, PTL

\* num_chunks_downloaded and num_bytes_downloaded describe exactly the
\* downloaded prefix whenever a thread can read them.
THEOREM PrefixIsCounted == Spec => []PrefixCounted
<1>1. IInv => PrefixCounted
    BY DownloadAssumption DEF IInv, Counted, PrefixCounted, Locks
<1>2. QED
    BY <1>1, Invariance, PTL

\* Threads that have all left while a source was left missed no chunk.
LEMMA NoneMissed ==
    ASSUME IInv, AllLeft, NEW p \in Candidates
    PROVE  \A i \in Window : downloaded[i]
<1>1. \A i \in Window : ~ Held(i)
    BY DEF Held, Busy, AllLeft, Gone
<1>2. Available = {} /\ Candidates # {}
    BY DEF IInv, Leaving
<1>3. QED
    BY <1>1, <1>2 DEF IInv, TypeOK, Marks, Available

\* When all threads are gone, the window is complete or no source is left.
THEOREM NothingIsForgotten == Spec => []NothingForgotten
<1>1. ASSUME IInv PROVE NothingForgotten
    <2> SUFFICES ASSUME AllLeft, NEW p \in Candidates
                 PROVE  counted = Limit
        BY DEF NothingForgotten
    <2>1. \A i \in Window : downloaded[i]
        BY <1>1, NoneMissed
    <2>2. ~ CanCount
        BY <1>1 DEF IInv, Counted, AllLeft, Gone
    <2>3. QED
        BY <1>1, <2>1, <2>2, LimitFacts
           DEF IInv, TypeOK, CanCount, Window
<1>2. QED
    BY <1>1, Invariance, PTL

\* One source no connection to which fails is enough: a download that returns
\* has the whole window, whatever the other sources and the threads did.
THEOREM OneSourceIsEnough == Spec => []OneSourceSuffices
<1>1. ASSUME IInv PROVE OneSourceSuffices
    <2> SUFFICES ASSUME AllLeft, NEW p \in Peers, p \notin refused,
                        NEW i \in Window, ~ downloaded[i]
                 PROVE  FALSE
        BY <1>1 DEF OneSourceSuffices, IInv, TypeOK
    <2>1. Cardinality(Downloaded) < Limit
        BY DownloadedFinite, LimitFacts DEF Downloaded
    <2>2. online[p] /\ served[p] <= Cardinality(Downloaded)
        BY <1>1 DEF IInv, Sources
    <2>3. served[p] < ServedCeiling
        BY <1>1, <2>1, <2>2, LimitFacts, LayoutAssumption, DownloadedFinite,
           DownloadAssumption DEF IInv, TypeOK, ServedCeiling
    <2>4. p \in Candidates
        BY <2>2, <2>3 DEF Candidates
    <2>5. QED
        BY <1>1, <2>4, NoneMissed
<1>2. QED
    BY <1>1, Invariance, PTL

\* A chunk that is downloaded was not before, and counts for the thread's source.
LEMMA DoneSrcServes ==
    ASSUME IInv, ServedOnce, NEW t \in Threads, DoneSrc(t)
    PROVE  ServedOnce'
<1> DEFINE Of(f, p) == {j \in DOMAIN f : f[j] = p}
<1>1. PICK f \in [Downloaded -> Peers] :
          \A p \in Peers : served[p] = Cardinality(Of(f, p))
    BY DEF ServedOnce, Downloaded
<1> DEFINE i == chunk[t]
           q == peer[t]
           g == [j \in Downloaded \cup {i} |-> IF j = i THEN q ELSE f[j]]
<1>2. /\ i \in Window /\ ~ downloaded[i] /\ q \in Peers
      /\ downloaded' = [downloaded EXCEPT ![i] = TRUE]
      /\ served' = [served EXCEPT ![q] = @ + 1]
      /\ downloaded \in [Window -> BOOLEAN] /\ served \in [Peers -> Nat]
    BY DEF IInv, TypeOK, Assigned, ChunkOwnership, Busy, DoneSrc
<1> HIDE DEF i, q
<1>3. Downloaded' = Downloaded \cup {i} /\ i \notin Downloaded
    BY <1>2 DEF Downloaded
<1>4. g \in [Downloaded' -> Peers]
    BY <1>1, <1>2, <1>3
<1>5. ASSUME NEW p \in Peers PROVE served'[p] = Cardinality(Of(g, p))
    <2>1. IsFiniteSet(Of(f, p))
        BY <1>1, DownloadedFinite, FS_Subset
    <2>2. CASE p = q
        <3>1. Of(g, p) = Of(f, p) \cup {i} /\ i \notin Of(f, p)
            BY <1>1, <1>3, <2>2
        <3>2. Cardinality(Of(g, p)) = Cardinality(Of(f, p)) + 1
            BY <2>1, <3>1, FS_AddElement
        <3>3. QED
            BY <1>1, <1>2, <2>2, <3>2
    <2>3. CASE p # q
        <3>1. Of(g, p) = Of(f, p)
            BY <1>1, <1>3, <2>3
        <3>2. QED
            BY <1>1, <1>2, <2>3, <3>1
    <2>4. QED
        BY <2>2, <2>3
<1>6. QED
    BY <1>4, <1>5 DEF ServedOnce, Downloaded

\* Only that step changes what is downloaded or what was served.
LEMMA OthersServeNothing ==
    ASSUME [Next]_vars, \A t \in Threads : ~ DoneSrc(t)
    PROVE  downloaded' = downloaded /\ served' = served
<1>1. CASE MainStep
    BY <1>1 DEF MainStep, Spawn, JoinNobody, Write, tables
<1>2. ASSUME NEW t \in Threads, Step(t)
      PROVE  downloaded' = downloaded /\ served' = served
    BY <1>2 DEF Step, CheckDone, Claim, NothingToClaim, Select, NobodyOnline,
                Connect, ConnectFails, FailSrc, FailChunks, RecvChunk,
                RecvGarbage, RecvEof, RecvNothing, Receive, DoneChunks,
                DoneNum, Count, Release, tables
<1>3. CASE UNCHANGED vars
    BY <1>3 DEF vars, tables
<1>4. QED
    BY <1>1, <1>2, <1>3 DEF Next

\* chunks_served accounts for every downloaded chunk once, and for no other,
\* although the source was picked in another critical section.
THEOREM EveryChunkIsServedOnce == Spec => []ServedOnce
<1>1. ASSUME Init PROVE ServedOnce
    <2>1. Downloaded = {} /\ served = [p \in Peers |-> 0]
        BY <1>1 DEF Init, Downloaded
    <2> DEFINE f == [j \in {} |-> 0]
    <2>2. f \in [Downloaded -> Peers]
        BY <2>1
    <2>3. \A p \in Peers : Cardinality({j \in DOMAIN f : f[j] = p}) = 0
        <3>1. \A p \in Peers : {j \in DOMAIN f : f[j] = p} = {}
            OBVIOUS
        <3>2. QED
            BY <3>1, FS_EmptySet
    <2>4. QED
        BY <2>1, <2>2, <2>3 DEF ServedOnce, Downloaded
<1>2. ASSUME IInv, ServedOnce, [Next]_vars PROVE ServedOnce'
    <2>1. CASE \E t \in Threads : DoneSrc(t)
        BY <1>2, <2>1, DoneSrcServes
    <2>2. CASE \A t \in Threads : ~ DoneSrc(t)
        BY <1>2, <2>2, OthersServeNothing DEF ServedOnce
    <2>3. QED
        BY <2>1, <2>2
<1>3. QED
    BY <1>1, <1>2, Invariance, PTL DEF Spec

-----------------------------------------------------------------------------
(* The refinement. *)

\* The abstract state of every chunk, as a function of the concrete state.
LEMMA StatusValue ==
    ASSUME NEW i \in Window
    PROVE  /\ StatusOf(i) = "done" <=> downloaded[i]
           /\ StatusOf(i) = "taken" <=> ~ downloaded[i] /\ Held(i)
           /\ StatusOf(i) = "lost" <=>
                ~ downloaded[i] /\ ~ Held(i) /\ downloading[i]
           /\ StatusOf(i) = "wanted" <=>
                ~ downloaded[i] /\ ~ Held(i) /\ ~ downloading[i]
           /\ StatusOf(i) \in {"done", "taken", "lost", "wanted"}
BY DEF StatusOf, Held

\* A step that leaves the marks, the holders and the sources alone is a
\* stuttering step of the abstract specification.
LEMMA Stutter ==
    ASSUME UNCHANGED <<downloaded, downloading, online, served>>,
           (main' = "done") = (main = "done"),
           \A i \in Window : Held(i)' <=> Held(i)
    PROVE  UNCHANGED Promise!vars
<1>1. \A i \in Window : StatusOf(i)' = StatusOf(i)
    BY DEF StatusOf, Held
<1>2. Candidates' = Candidates
    BY DEF Candidates
<1>3. QED
    BY <1>1, <1>2 DEF Promise!vars

\* A step that moves one chunk, and only that chunk, is a Move of it.
LEMMA OneMove ==
    ASSUME NEW i \in Window, NEW from, NEW to,
           main # "done", main' = main,
           StatusOf(i) = from, StatusOf(i)' = to,
           \A j \in Window \ {i} : StatusOf(j)' = StatusOf(j),
           Candidates' \subseteq Candidates
    PROVE  Promise!Move(i, from, to)
BY DEF Promise!Move

\* While a thread has a chunk of the window, the download has not returned.
LEMMA NotOver ==
    ASSUME IInv, NEW t \in Threads, ~ Gone(t), Window # {}
    PROVE  main # "done"
BY DEF IInv, Leaving

\* What a busy thread does to its chunk leaves the other chunks alone.
LEMMA OthersHeld ==
    ASSUME IInv, NEW t \in Threads,
           \A u \in Threads \ {t} : pc'[u] = pc[u] /\ chunk'[u] = chunk[u],
           NEW j \in Window,
           pc[t] \in Busy => chunk[t] # j,
           pc'[t] \in Busy => chunk'[t] # j
    PROVE  Held(j)' <=> Held(j)
BY DEF Held, Busy

\* A claim takes a wanted chunk.
LEMMA ClaimTakes ==
    ASSUME IInv, NEW t \in Threads, Claim(t)
    PROVE  Promise!Next
<1>1. PICK i \in Available :
          /\ chunk' = [chunk EXCEPT ![t] = i]
          /\ downloading' = [downloading EXCEPT ![i] = TRUE]
    BY DEF Claim
<1>2. i \in Window /\ ~ downloaded[i] /\ ~ downloading[i]
    BY <1>1 DEF Available
<1>3. ~ Held(i)
    BY <1>2 DEF IInv, ChunkOwnership, Held
<1>4. Held(i)'
    BY <1>1 DEF IInv, TypeOK, Held, Busy, Claim, Goto
<1>5. \A j \in Window \ {i} : Held(j)' <=> Held(j)
    BY <1>1, <1>2, OthersHeld DEF IInv, TypeOK, Busy, Claim, Goto
<1>6. StatusOf(i) = "wanted" /\ StatusOf(i)' = "taken"
    BY <1>2, <1>3, <1>4 DEF StatusOf, Held, Claim
<1>7. \A j \in Window \ {i} : StatusOf(j)' = StatusOf(j)
    BY <1>1, <1>5 DEF IInv, TypeOK, StatusOf, Held, Claim
<1>8. main # "done" /\ main' = main /\ Candidates' = Candidates
    BY <1>2, NotOver DEF Gone, Claim, Candidates
<1>9. QED
    BY <1>2, <1>6, <1>7, <1>8, OneMove DEF Promise!Next, Promise!Take

\* Finding nobody online gives the chunk up.
LEMMA NobodyOnlineGivesUp ==
    ASSUME IInv, NEW t \in Threads, NobodyOnline(t)
    PROVE  Promise!Next
<1>1. PICK i \in Window : i = chunk[t] /\ ~ downloaded[i] /\ downloading[i]
    BY DEF IInv, ChunkOwnership, Busy, NobodyOnline
<1>2. Held(i) /\ ~ Held(i)'
    BY <1>1 DEF IInv, TypeOK, ChunkOwnership, Held, Busy, NobodyOnline,
                Restart, Goto
<1>3. \A j \in Window \ {i} : Held(j)' <=> Held(j)
    BY <1>1, OthersHeld DEF IInv, TypeOK, Busy, NobodyOnline, Restart, Goto
<1>4. StatusOf(i) = "taken" /\ StatusOf(i)' = "lost"
    BY <1>1, <1>2 DEF StatusOf, Held, NobodyOnline, tables
<1>5. \A j \in Window \ {i} : StatusOf(j)' = StatusOf(j)
    BY <1>3 DEF StatusOf, Held, NobodyOnline, tables
<1>6. main # "done" /\ main' = main /\ Candidates = {} /\ Candidates' = {}
    BY <1>1, NotOver DEF Gone, NobodyOnline, Candidates, tables
<1>7. QED
    BY <1>1, <1>4, <1>5, <1>6, OneMove DEF Promise!Next, Promise!GiveUp

\* A refused connection makes the chunk wanted again.
LEMMA FailChunksGivesBack ==
    ASSUME IInv, NEW t \in Threads, FailChunks(t)
    PROVE  Promise!Next
<1>1. PICK i \in Window : i = chunk[t] /\ ~ downloaded[i]
    BY DEF IInv, ChunkOwnership, Busy, FailChunks
<1>2. Held(i) /\ ~ Held(i)'
    BY <1>1 DEF IInv, TypeOK, ChunkOwnership, Held, Busy, FailChunks, Restart,
           Goto
<1>3. \A j \in Window \ {i} : Held(j)' <=> Held(j)
    BY <1>1, OthersHeld DEF IInv, TypeOK, Busy, FailChunks, Restart, Goto
<1>4. downloading' = [downloading EXCEPT ![i] = FALSE]
    BY <1>1 DEF FailChunks
<1>5. StatusOf(i) = "taken" /\ StatusOf(i)' = "wanted"
    BY <1>1, <1>2, <1>4 DEF IInv, TypeOK, StatusOf, Held, FailChunks
<1>6. \A j \in Window \ {i} : StatusOf(j)' = StatusOf(j)
    BY <1>3, <1>4 DEF IInv, TypeOK, StatusOf, Held, FailChunks
<1>7. Candidates' \subseteq Candidates
    BY DEF IInv, TypeOK, Candidates, FailChunks
<1>8. main # "done" /\ main' = main
    BY <1>1, NotOver DEF Gone, FailChunks
<1>9. QED
    BY <1>1, <1>5, <1>6, <1>7, <1>8, OneMove
       DEF Promise!Next, Promise!GiveBack

\* Marking a chunk as downloaded completes it.
LEMMA DoneSrcCompletes ==
    ASSUME IInv, NEW t \in Threads, DoneSrc(t)
    PROVE  Promise!Next
<1>1. PICK i \in Window : i = chunk[t] /\ ~ downloaded[i]
    BY DEF IInv, ChunkOwnership, Busy, DoneSrc
<1>2. Held(i)
    BY <1>1 DEF Held, Busy, DoneSrc
<1>3. \A j \in Window \ {i} : Held(j)' <=> Held(j)
    BY <1>1, OthersHeld DEF IInv, TypeOK, Busy, DoneSrc, Goto
<1>4. downloaded' = [downloaded EXCEPT ![i] = TRUE]
    BY <1>1 DEF DoneSrc
<1>5. StatusOf(i) = "taken" /\ StatusOf(i)' = "done"
    BY <1>1, <1>2, <1>4 DEF IInv, TypeOK, StatusOf, Held
<1>6. \A j \in Window \ {i} : StatusOf(j)' = StatusOf(j)
    BY <1>3, <1>4 DEF IInv, TypeOK, StatusOf, Held, DoneSrc
<1>7. Candidates' \subseteq Candidates
    BY DEF IInv, TypeOK, Candidates, DoneSrc, ServedCeiling
<1>8. main # "done" /\ main' = main
    BY <1>1, NotOver DEF Gone, DoneSrc
<1>9. QED
    BY <1>1, <1>5, <1>6, <1>7, <1>8, OneMove
       DEF Promise!Next, Promise!Complete

\* The download returns with nothing wanted or taken, or nothing was begun.
LEMMA WriteFinishes ==
    ASSUME IInv, Write
    PROVE  Promise!Next
<1>1. \A i \in Window : ~ Held(i)
    BY DEF Held, Busy, Write, Gone
<1>2. \A i \in Window : StatusOf(i)' = StatusOf(i)
    BY DEF StatusOf, Write, locals, tables
<1>3. Candidates' = Candidates /\ main # "done" /\ main' = "done"
    BY DEF Candidates, Write, tables
<1>4. CASE AllLeft
    <2>1. \A i \in Window : StatusOf(i) \in {"done", "lost"}
        BY <1>1, <1>4, StatusValue DEF IInv, Leaving, Available
    <2>2. QED
        BY <1>2, <1>3, <2>1 DEF Promise!Next, Promise!Finish
<1>5. CASE ~ AllLeft
    <2>1. \A t \in Threads : pc[t] \in {"idle", "absent"}
        BY <1>5 DEF AllLeft, Gone, Write
    <2>2. /\ \A i \in Window : StatusOf(i) = "wanted"
          /\ Candidates = Peers
        BY <1>1, <2>1, StatusValue DEF IInv, Leaving, Untouched
    <2>3. QED
        BY <1>2, <1>3, <2>2 DEF Promise!Next, Promise!NobodyWorks
<1>6. QED
    BY <1>4, <1>5

\* A join that does not return is invisible.
LEMMA JoinNobodyStutters ==
    ASSUME IInv, JoinNobody
    PROVE  UNCHANGED Promise!vars
<1>1. \A i \in Window : Held(i)' <=> Held(i)
    BY DEF Held, JoinNobody, locals
<1>2. QED
    BY <1>1, Stutter DEF JoinNobody, tables

\* Spawning is invisible, unless the file is empty.
LEMMA SpawnStuttersOrFinishes ==
    ASSUME IInv, Spawn
    PROVE  [Promise!Next]_(Promise!vars)
<1>1. \A i \in Window : ~ Held(i) /\ ~ Held(i)'
    BY DEF IInv, Leaving, Held, Busy, Spawn
<1>2. UNCHANGED <<downloaded, downloading, online, served>>
    BY DEF Spawn, tables
<1>3. CASE counted < NumChunks
    <2>1. (main' = "done") = (main = "done")
        BY <1>3 DEF Spawn
    <2>2. QED
        BY <1>1, <1>2, <2>1, Stutter
<1>4. CASE ~ (counted < NumChunks)
    <2>1. Window = {}
        BY <1>4, LimitFacts, LayoutDivision DEF IInv, Leaving, Spawn, Window
    <2>2. Candidates' = Candidates /\ main # "done" /\ main' = "done"
        BY <1>4 DEF Candidates, Spawn, tables
    <2>3. QED
        BY <2>1, <2>2 DEF Promise!Next, Promise!Finish
<1>5. QED
    BY <1>3, <1>4

\* The steps that do not touch a chunk's status: the thread stays without a
\* chunk, or keeps the one it has, or leaves one that is downloaded.
Quiet(t) ==
    \/ CheckDone(t) \/ NothingToClaim(t) \/ Select(t)
    \/ Connect(t) \/ ConnectFails(t) \/ FailSrc(t)
    \/ RecvChunk(t) \/ RecvGarbage(t) \/ RecvEof(t) \/ RecvNothing(t)
    \/ DoneChunks(t) \/ DoneNum(t) \/ Count(t) \/ Release(t)

\* The other steps of a thread are invisible.
LEMMA QuietStutters ==
    ASSUME IInv, NEW t \in Threads, Quiet(t)
    PROVE  UNCHANGED Promise!vars
<1>1. UNCHANGED <<downloaded, downloading, online, served>> /\ main' = main
    BY DEF Quiet, CheckDone, NothingToClaim, Select, Connect, ConnectFails,
           FailSrc, RecvChunk, RecvGarbage, RecvEof, RecvNothing, Receive,
           DoneChunks, DoneNum, Count, Release, tables
<1>2. \A u \in Threads \ {t} : pc'[u] = pc[u] /\ chunk'[u] = chunk[u]
    BY DEF IInv, TypeOK, Quiet, CheckDone, NothingToClaim, Select, Connect,
           ConnectFails, FailSrc, RecvChunk, RecvGarbage, RecvEof,
           RecvNothing, Receive, DoneChunks, DoneNum, Count, Release, Restart,
           Goto, locals
<1>3. \/ pc[t] \notin Busy /\ pc'[t] \notin Busy
      \/ pc[t] \in Busy /\ pc'[t] \in Busy /\ chunk'[t] = chunk[t]
    BY DEF IInv, TypeOK, Quiet, CheckDone, NothingToClaim, Select, Connect,
           ConnectFails, FailSrc, RecvChunk, RecvGarbage, RecvEof,
           RecvNothing, Receive, DoneChunks, DoneNum, Count, Release, Restart,
           Goto, locals, Busy
<1>4. \A i \in Window : Held(i)' <=> Held(i)
    BY <1>2, <1>3 DEF Held
<1>5. QED
    BY <1>1, <1>4, Stutter

\* Every step is a step of the abstract window, or a stutter.
LEMMA StepRefines ==
    IInv /\ [Next]_vars => [Promise!Next]_(Promise!vars)
<1> SUFFICES ASSUME IInv, [Next]_vars
             PROVE  [Promise!Next]_(Promise!vars)
    OBVIOUS
<1>1. CASE Spawn
    BY <1>1, SpawnStuttersOrFinishes
<1>2. CASE Write
    BY <1>2, WriteFinishes
<1>3. CASE JoinNobody
    BY <1>3, JoinNobodyStutters
<1>4. ASSUME NEW t \in Threads, Step(t)
      PROVE  [Promise!Next]_(Promise!vars)
    BY <1>4, ClaimTakes, NobodyOnlineGivesUp, FailChunksGivesBack,
       DoneSrcCompletes, QuietStutters DEF Step, Quiet
<1>5. CASE UNCHANGED vars
    <2>1. \A i \in Window : Held(i)' <=> Held(i)
        BY <1>5 DEF Held, vars, locals
    <2>2. QED
        BY <1>5, <2>1, Stutter DEF vars, tables
<1>6. QED
    BY <1>1, <1>2, <1>3, <1>4, <1>5 DEF Next, MainStep

\* At the start every chunk is wanted and every peer a source.
LEMMA InitRefines == Init => Promise!Init
<1> SUFFICES ASSUME Init PROVE Promise!Init
    OBVIOUS
<1>1. \A i \in Window : StatusOf(i) = "wanted"
    BY DEF Init, StatusOf, Busy
<1>2. Candidates = Peers /\ main # "done"
    BY DEF Init, Candidates, ServedCeiling
<1>3. QED
    BY <1>1, <1>2 DEF Promise!Init

\* The threads and mutexes implement the abstract window: chunks are taken one
\* taker at a time, handed back, completed, and given up only for want of
\* sources, for every number of threads, chunks and sources.
THEOREM Refinement == Spec => KeepsPromise
BY InitRefines, StepRefines, Invariance, PTL
   DEF Spec, KeepsPromise, Promise!Spec


=============================================================================
