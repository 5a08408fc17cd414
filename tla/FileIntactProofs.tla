-------------------------- MODULE FileIntactProofs --------------------------
(***************************************************************************)
(* What is written is the file: the threads fill the download buffer       *)
(* without a lock, each at the place of the chunk it owns, and the main    *)
(* thread writes a prefix of it.  The proof rests on the invariant of      *)
(* ChunkDownloadProofs: owners are unique, and nobody is left when the     *)
(* buffer is written.                                                      *)
(***************************************************************************)
EXTENDS ChunkDownloadProofs

\* The chunk's bytes are in the buffer for good.
Delivered(i) ==
    \/ downloaded[i]
    \/ \E t \in Threads :
        pc[t] \in {"doneChunks", "doneNum", "doneSrc"} /\ chunk[t] = i

\* A slot holds its own chunk or garbage, and its own chunk only once that is
\* delivered; the file is written once, at the end.
Buffered ==
    /\ \A i \in Window : buffer[i] \in {i, Garbage}
    /\ \A i \in Window : buffer[i] # Garbage => Delivered(i)

WrittenOnce ==
    /\ main # "done" => written = 0
    /\ main = "done" => \/ written = BufferEnd
                        \/ diskError /\ written <= BufferEnd

-----------------------------------------------------------------------------

\* Dividing a product by one of its factors gives the other.
LEMMA ProductDivided ==
    ASSUME NEW a \in Nat, NEW b \in Nat \ {0}
    PROVE  (a * b) \div b = a
<1> DEFINE q == (a * b) \div b
           r == (a * b) % b
<1>1. a * b \in Nat
    OBVIOUS
<1>2. PICK n \in Nat : n = a * b
    BY <1>1
<1>3. q = n \div b /\ r = n % b
    BY <1>2
<1> HIDE DEF q, r
<1>4. q \in Nat /\ r \in Nat /\ r < b /\ a * b = q * b + r
    <2>1. q \in Nat /\ r \in Nat /\ r < b
        BY <1>3, SMT
    <2>2. n = b * q + r
        BY <1>3, SMT
    <2>3. b * q = q * b
        BY <2>1
    <2>4. QED
        BY <1>2, <2>1, <2>2, <2>3
<1>5. CASE a < q
    <2>1. (a + 1) * b <= q * b
        BY <1>4, <1>5, ProductMonotone
    <2>2. (a + 1) * b = a * b + b /\ q * b \in Nat
        BY <1>4
    <2>3. QED
        BY <1>1, <1>4, <2>1, <2>2
<1>6. CASE q < a
    <2>1. (q + 1) * b <= a * b
        BY <1>4, <1>6, ProductMonotone
    <2>2. (q + 1) * b = q * b + b /\ q * b \in Nat
        BY <1>4
    <2>3. QED
        BY <1>1, <1>4, <2>1, <2>2
<1>7. QED
    BY <1>4, <1>5, <1>6 DEF q

\* Chunk i of the window is at place i of the buffer.
LEMMA OwnSlot ==
    ASSUME NEW i \in Window
    PROVE  SlotOf(i) = i
BY ProductDivided, LayoutAssumption, LimitFacts DEF SlotOf, OffsetOf, Window

\* A file smaller than the buffer has no chunk outside the window.
LEMMA WholeFileInWindow ==
    ASSUME FileSize < BufferSize
    PROVE  /\ Limit = NumChunks
           /\ Window = Chunks
<1>1. ASSUME WindowChunks < NumChunks PROVE FALSE
    <2>1. WindowChunks <= CompleteChunks
        BY <1>1, LayoutDivision, LayoutAssumption DEF NumChunks
    <2>2. WindowChunks * ChunkSize <= CompleteChunks * ChunkSize
        BY <2>1, LayoutDivision, LayoutAssumption, ProductMonotone
    <2>3. /\ WindowChunks * ChunkSize = ChunkSize * WindowChunks
          /\ WindowChunks * ChunkSize \in Nat
          /\ CompleteChunks * ChunkSize \in Nat
        BY LayoutDivision, LayoutAssumption
    <2>4. QED
        BY <2>2, <2>3, LayoutDivision, LayoutAssumption DEF BufferSize
<1>2. QED
    BY <1>1, LayoutDivision, LayoutAssumption DEF Limit, Window, Chunks

\* A step that leaves the buffer alone and takes no delivered chunk back.
LEMMA BufferKept ==
    ASSUME Buffered, buffer' = buffer,
           \A i \in Window : Delivered(i) => Delivered(i)'
    PROVE  Buffered'
BY DEF Buffered

\* The steps of a thread that has not received, or that stays past receiving.
BeforeOrAfter(t) ==
    \/ CheckDone(t) \/ Claim(t) \/ NothingToClaim(t)
    \/ Select(t) \/ NobodyOnline(t)
    \/ Connect(t) \/ ConnectFails(t) \/ FailSrc(t) \/ FailChunks(t)
    \/ DoneChunks(t) \/ DoneNum(t) \/ Count(t) \/ Release(t)

\* These steps disturb no delivery.
LEMMA DeliveryKept ==
    ASSUME IInv, Buffered, NEW t \in Threads, BeforeOrAfter(t)
    PROVE  Buffered'
<1> DEFINE Past == {"doneChunks", "doneNum", "doneSrc"}
<1>1. buffer' = buffer /\ downloaded' = downloaded
    BY DEF BeforeOrAfter, CheckDone, Claim, NothingToClaim, Select,
           NobodyOnline, Connect, ConnectFails, FailSrc, FailChunks,
           DoneChunks, DoneNum, Count, Release, tables
<1>2. \A u \in Threads \ {t} : pc'[u] = pc[u] /\ chunk'[u] = chunk[u]
    BY DEF IInv, TypeOK, BeforeOrAfter, CheckDone, Claim, NothingToClaim,
           Select, NobodyOnline, Connect, ConnectFails, FailSrc, FailChunks,
           DoneChunks, DoneNum, Count, Release, Restart, Goto, locals
<1>3. pc[t] \in Past => pc'[t] \in Past /\ chunk'[t] = chunk[t]
    BY DEF IInv, TypeOK, BeforeOrAfter, CheckDone, Claim, NothingToClaim,
           Select, NobodyOnline, Connect, ConnectFails, FailSrc, FailChunks,
           DoneChunks, DoneNum, Count, Release, Restart, Goto, locals
<1>4. ASSUME NEW i \in Window, Delivered(i) PROVE Delivered(i)'
    <2>1. CASE downloaded[i]
        BY <1>1, <2>1 DEF Delivered
    <2>2. ASSUME NEW u \in Threads, pc[u] \in Past, chunk[u] = i
          PROVE  Delivered(i)'
        BY <1>2, <1>3, <2>2 DEF Delivered
    <2>3. QED
        BY <1>4, <2>1, <2>2 DEF Delivered
<1>5. QED
    BY <1>1, <1>4, BufferKept

\* What a thread receives goes to the slot of the chunk it owns.
LEMMA ReceptionBuffered ==
    ASSUME IInv, Buffered, NEW t \in Threads,
           \/ RecvChunk(t) \/ RecvGarbage(t)
           \/ RecvEof(t) \/ RecvNothing(t)
    PROVE  Buffered'
<1>1. PICK i \in Window : i = chunk[t] /\ ~ downloaded[i]
    BY DEF IInv, ChunkOwnership, Busy, RecvChunk, RecvGarbage, RecvEof,
           RecvNothing, Receive
<1>2. SlotOf(i) = i /\ i \in Slots
    BY OwnSlot, LimitFacts
<1>3. \/ buffer' = [buffer EXCEPT ![i] = i] /\ pc'[t] = "doneChunks"
      \/ buffer' = [buffer EXCEPT ![i] = Garbage]
    BY <1>1, <1>2 DEF IInv, TypeOK, RecvChunk, RecvGarbage, RecvEof,
                      RecvNothing, Receive, Goto
<1>4. /\ chunk' = chunk /\ downloaded' = downloaded
      /\ \A u \in Threads \ {t} : pc'[u] = pc[u]
      /\ pc[t] = "recv"
    BY DEF IInv, TypeOK, RecvChunk, RecvGarbage, RecvEof, RecvNothing,
           Receive, Goto, tables
<1>5. \A j \in Window : buffer'[j] \in {j, Garbage}
    BY <1>3, LimitFacts DEF Buffered, IInv, TypeOK
<1>6. ASSUME NEW j \in Window, buffer'[j] # Garbage PROVE Delivered(j)'
    <2>1. CASE j = i
        BY <1>1, <1>2, <1>3, <1>4, <1>6, <2>1 DEF IInv, TypeOK, Delivered
    <2>2. CASE j # i
        <3>1. buffer[j] # Garbage
            BY <1>3, <1>6, <2>2, LimitFacts DEF IInv, TypeOK
        <3>2. Delivered(j)
            BY <3>1 DEF Buffered
        <3>3. QED
            BY <1>4, <3>2 DEF Delivered
    <2>3. QED
        BY <2>1, <2>2
<1>7. QED
    BY <1>5, <1>6 DEF Buffered

\* A thread that marks its chunk hands its delivery over to the mark.
LEMMA MarkBuffered ==
    ASSUME IInv, Buffered, NEW t \in Threads, DoneSrc(t)
    PROVE  Buffered'
<1>1. chunk[t] \in Window
    BY DEF IInv, ChunkOwnership, Busy, DoneSrc
<1>2. /\ buffer' = buffer /\ chunk' = chunk
      /\ downloaded' = [downloaded EXCEPT ![chunk[t]] = TRUE]
      /\ \A u \in Threads \ {t} : pc'[u] = pc[u]
    BY DEF IInv, TypeOK, DoneSrc, Goto
<1>3. ASSUME NEW i \in Window, Delivered(i) PROVE Delivered(i)'
    <2>1. CASE i = chunk[t]
        BY <1>1, <1>2, <2>1 DEF IInv, TypeOK, Delivered
    <2>2. CASE i # chunk[t]
        BY <1>1, <1>2, <1>3, <2>2 DEF IInv, TypeOK, Delivered
    <2>3. QED
        BY <2>1, <2>2
<1>4. QED
    BY <1>2, <1>3, BufferKept

\* The main thread does not touch the buffer while a thread has a chunk.
LEMMA MainBuffered ==
    ASSUME IInv, Buffered, MainStep
    PROVE  Buffered'
<1>1. buffer' = buffer /\ downloaded' = downloaded
    BY DEF MainStep, Spawn, JoinNobody, Write, tables
<1>2. ASSUME Spawn \/ Write
      PROVE  \A i \in Window : Delivered(i) => Delivered(i)'
    <2>1. \A t \in Threads :
              pc[t] \notin {"doneChunks", "doneNum", "doneSrc"}
        BY <1>2 DEF IInv, Leaving, Gone, Spawn, Write
    <2>2. QED
        BY <1>1, <2>1 DEF Delivered
<1>5. ASSUME JoinNobody
      PROVE  \A i \in Window : Delivered(i) => Delivered(i)'
    <2>1. pc' = pc /\ chunk' = chunk
        BY <1>5 DEF JoinNobody, locals
    <2>2. QED
        BY <1>1, <2>1 DEF Delivered
<1>3. \A i \in Window : Delivered(i) => Delivered(i)'
    BY <1>2, <1>5 DEF MainStep
<1>4. QED
    BY <1>1, <1>3, BufferKept

\* Nothing is counted and nothing is written after the write.
LEMMA WrittenKept ==
    ASSUME IInv, WrittenOnce, [Next]_vars
    PROVE  WrittenOnce'
<1>1. CASE Spawn
    <2>1. CASE counted < NumChunks
        BY <1>1, <2>1 DEF Spawn, WrittenOnce, disk
    <2>2. CASE ~ (counted < NumChunks)
        <3>1. counted = 0 /\ NumChunks = 0 /\ bytes = 0
            <4>1. counted = 0 /\ NumChunks = 0
                BY <1>1, <2>2, LayoutDivision DEF IInv, Leaving, Spawn
            <4>2. bytes = FileSize
                BY <4>1 DEF IInv, Counted, BytesUpTo
            <4>3. CompleteChunks = 0 /\ PartialChunkSize = 0
                BY <4>1, LayoutDivision DEF NumChunks
            <4>4. QED
                BY <4>1, <4>2, <4>3, LayoutDivision, LayoutAssumption
        <3>2. BufferEnd' = bytes % BufferSize
            BY <1>1, <3>1 DEF BufferEnd, Spawn, tables
        <3>3. BufferSize \in Nat \ {0}
            BY LayoutAssumption DEF BufferSize
        <3>4. BufferEnd' = 0
            BY <3>1, <3>2, <3>3
        <3>5. QED
            BY <1>1, <2>2, <3>4 DEF Spawn, WrittenOnce, disk
    <2>3. QED
        BY <2>1, <2>2
<1>2. CASE Write
    <2>1. BufferSize \in Nat \ {0}
        BY LayoutAssumption DEF BufferSize
    <2>2. BufferEnd \in Nat
        BY <2>1 DEF BufferEnd, IInv, TypeOK
    <2>3. \/ written' = BufferEnd /\ diskError' = diskError
          \/ diskError' = TRUE /\ written' <= BufferEnd
        BY <1>2, <2>2 DEF Write
    <2>4. BufferEnd' = BufferEnd /\ main' = "done"
        BY <1>2 DEF Write, tables, BufferEnd
    <2>5. QED
        BY <2>3, <2>4 DEF WrittenOnce
<1>5. CASE JoinNobody
    BY <1>5 DEF JoinNobody, WrittenOnce, disk, tables, BufferEnd
<1>3. ASSUME NEW t \in Threads, Step(t) PROVE WrittenOnce'
    <2>1. main' = main /\ written' = written /\ diskError' = diskError
        BY <1>3 DEF Step, CheckDone, Claim, NothingToClaim, Select,
           NobodyOnline, Connect, ConnectFails, FailSrc, FailChunks,
           RecvChunk, RecvGarbage, RecvEof, RecvNothing, Receive, DoneChunks,
           DoneNum, DoneSrc, Count, Release, disk
    <2>2. pc[t] = "count" \/ (counted' = counted /\ bytes' = bytes)
        BY <1>3 DEF Step, CheckDone, Claim, NothingToClaim, Select,
           NobodyOnline, Connect, ConnectFails, FailSrc, FailChunks,
           RecvChunk, RecvGarbage, RecvEof, RecvNothing, Receive, DoneChunks,
           DoneNum, DoneSrc, Count, Release, tables
    <2>3. CASE main = "done" /\ pc[t] = "count"
        BY <2>3 DEF IInv, Leaving, Gone, Assigned
    <2>4. CASE main # "done"
        BY <2>1, <2>4 DEF WrittenOnce
    <2>5. CASE counted' = counted /\ bytes' = bytes
        BY <2>1, <2>5 DEF WrittenOnce, BufferEnd
    <2>6. QED
        BY <2>2, <2>3, <2>4, <2>5
<1>4. CASE UNCHANGED vars
    BY <1>4 DEF vars, disk, tables, WrittenOnce, BufferEnd
<1>6. QED
    BY <1>1, <1>2, <1>3, <1>4, <1>5 DEF Next, MainStep

\* At the start the buffer holds nothing and nothing is written.
LEMMA InitBuffered == Init => Buffered /\ WrittenOnce
BY LimitFacts DEF Init, Buffered, WrittenOnce

\* The buffer and the file stay in step with the deliveries.
LEMMA StepBuffered ==
    IInv /\ Buffered /\ WrittenOnce /\ [Next]_vars
        => Buffered' /\ WrittenOnce'
<1> SUFFICES ASSUME IInv, Buffered, WrittenOnce, [Next]_vars
             PROVE  Buffered'
    BY WrittenKept
<1>1. CASE MainStep
    BY <1>1, MainBuffered
<1>2. ASSUME NEW t \in Threads, Step(t) PROVE Buffered'
    BY <1>2, DeliveryKept, ReceptionBuffered, MarkBuffered
       DEF Step, BeforeOrAfter
<1>3. CASE UNCHANGED vars
    <2>1. \A i \in Window : Delivered(i) => Delivered(i)'
        BY <1>3 DEF vars, locals, tables, Delivered
    <2>2. QED
        BY <1>3, <2>1, BufferKept DEF vars
<1>4. QED
    BY <1>1, <1>2, <1>3 DEF Next

\* A download that has returned with right bytes in every slot has counted,
\* and written, the whole of a file smaller than the buffer.
LEMMA ReturnedWhole ==
    ASSUME IInv, Buffered, WrittenOnce
    PROVE  FileIntact
<1> SUFFICES ASSUME main = "done", FileSize < BufferSize,
                    \A i \in Chunks : buffer[i] # Garbage
             PROVE  /\ written <= FileSize
                    /\ written = FileSize \/ diskError
    BY DEF FileIntact, Buffered
<1>1. Window = Chunks /\ Limit = NumChunks
    BY WholeFileInWindow
<1>3. \A i \in Window : downloaded[i]
    BY <1>1 DEF IInv, Leaving, Gone, Buffered, Delivered
<1>4. counted = NumChunks
    <2>1. CASE Window = {}
        <3>1. Limit = 0
            BY <2>1, LimitFacts DEF Window
        <3>2. QED
            BY <1>1, <3>1 DEF IInv, TypeOK
    <2>2. CASE Window # {}
        <3>1. ~ CanCount
            BY <2>2 DEF IInv, Leaving, Gone, Counted
        <3>2. QED
            BY <1>1, <1>3, <3>1, LimitFacts DEF IInv, TypeOK, CanCount, Window
    <2>3. QED
        BY <2>1, <2>2
<1>5. bytes = FileSize
    BY <1>4 DEF IInv, Counted, BytesUpTo
<1>6. BufferEnd = FileSize % BufferSize
    BY <1>4, <1>5 DEF BufferEnd
<1>7. FileSize % BufferSize = FileSize
    <2>1. BufferSize \in Nat \ {0}
        BY LayoutAssumption DEF BufferSize
    <2>2. QED
        BY <2>1, LayoutAssumption
<1>8. QED
    BY <1>6, <1>7, LayoutAssumption DEF WrittenOnce

\* No thread ever puts a chunk at the place of another in the unlocked buffer,
\* and when every byte that arrived was right, a download that returns leaves
\* the whole file on disk, or a first part of it after an error of the disk:
\* for every number of threads, sources and chunks, in a file smaller than the
\* download buffer.
THEOREM IntactFile == Spec => []FileIntact
<1>1. Spec => [](IInv /\ Buffered /\ WrittenOnce)
    BY Invariance, InitBuffered, StepBuffered, PTL DEF Spec
<1>2. IInv /\ Buffered /\ WrittenOnce => FileIntact
    BY ReturnedWhole
<1>3. QED
    BY <1>1, <1>2, PTL

=============================================================================
