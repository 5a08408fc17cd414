---------------------------- MODULE ChunkDownload ----------------------------
(***************************************************************************)
(* The multi-threaded download of one file: multi_threaded_download and    *)
(* download_thread_handler of src/src/dnode/rpc_server.cpp.                *)
(*                                                                         *)
(* The main thread spawns the download threads, joins them and writes the  *)
(* shared buffer to disk.  The threads share three tables, each under a    *)
(* mutex of its own: the count of downloaded chunks (numLock), the list of *)
(* sources (srcLock) and the list of chunks (chunksLock).  A critical      *)
(* section that holds one mutex is one step; where the code nests mutexes, *)
(* each acquisition is a step of its own.                                  *)
(*                                                                         *)
(* The other end is any dnode.  Once connected, a peer in Steady sends the *)
(* bytes asked for; any other peer may send something else (the data       *)
(* server's 16-byte failure reply, a stale file), close before the chunk   *)
(* is complete, or neither send nor close.  To connect may fail with every *)
(* peer, also for reasons of this dnode's own.                             *)
(***************************************************************************)
EXTENDS ChunkLayout, FiniteSets

CONSTANTS
    Threads,    \* the DOWNLOAD_THREADS download threads
    Nobody,     \* holds a mutex that is free
    NumPeers,   \* entries of src_dnodes_list
    Steady      \* the peers that answer every request they get correctly

Peers == 0 .. NumPeers - 1

\* A source that has served this many chunks is not chosen any more.
ServedCeiling == 1000000

ASSUME DownloadAssumption ==
    /\ Threads # {}
    /\ Nobody \notin Threads
    /\ NumPeers \in Nat
    /\ Steady \subseteq Peers
    /\ WindowChunks <= ServedCeiling

None == -1          \* chunk_index and min_dnode_index before the search
Garbage == -2       \* buffer bytes that are not the chunk they should be

\* current_chunk_index is 0 and max_chunk_index is Limit: the main loop's
\* only iteration starts with nothing downloaded.
Limit == IF NumChunks < WindowChunks THEN NumChunks ELSE WindowChunks

Window == 0 .. Limit - 1

Slots == 0 .. WindowChunks - 1

VARIABLES
    main,           \* the main thread: "spawn", "join", "done", or "lost"
    pc,             \* where each thread is
    chunk,          \* chunk_index of each thread
    peer,           \* min_dnode_index of each thread
    downloading,    \* chunks_list[i].is_downloading
    downloaded,     \* chunks_list[i].is_downloaded
    online,         \* src_dnodes_list[p].is_online
    served,         \* src_dnodes_list[p].chunks_served
    counted,        \* num_chunks_downloaded
    bytes,          \* num_bytes_downloaded
    numLock, srcLock, chunksLock,   \* the holder of each mutex, or Nobody
    buffer,         \* the chunk each slot of download_buffer holds
    written,        \* bytes written to the file
    refused,        \* history: the peers a connection to which has failed
    diskError       \* history: the file could not be opened or written

locals == <<pc, chunk, peer>>
tables == <<downloading, downloaded, online, served, counted, bytes>>
locks == <<numLock, srcLock, chunksLock>>
disk == <<written, diskError>>
vars == <<main, locals, tables, locks, buffer, disk, refused>>

Init ==
    /\ main = "spawn"
    /\ pc = [t \in Threads |-> "idle"]
    /\ chunk = [t \in Threads |-> None]
    /\ peer = [t \in Threads |-> None]
    /\ downloading = [i \in Window |-> FALSE]
    /\ downloaded = [i \in Window |-> FALSE]
    /\ online = [p \in Peers |-> TRUE]
    /\ served = [p \in Peers |-> 0]
    /\ counted = 0
    /\ bytes = 0
    /\ numLock = Nobody
    /\ srcLock = Nobody
    /\ chunksLock = Nobody
    /\ buffer = [s \in Slots |-> Garbage]
    /\ written = 0
    /\ refused = {}
    /\ diskError = FALSE

-----------------------------------------------------------------------------
(* The main thread. *)

\* An empty file has no iteration of the main loop.  A thread that cannot be
\* created is reported, and its pthread_t stays uninitialised.
Spawn ==
    /\ main = "spawn"
    /\ IF counted < NumChunks
       THEN /\ main' = "join"
            /\ \E created \in SUBSET Threads :
                pc' = [t \in Threads |->
                          IF t \in created THEN "check" ELSE "absent"]
       ELSE main' = "done" /\ UNCHANGED pc
    /\ UNCHANGED <<chunk, peer, tables, locks, buffer, disk, refused>>

\* Joining an uninitialised pthread_t: an error nobody looks at, after which
\* the next thread is joined, or a crash or a wait without end.  A crash is
\* the case in which the other threads take no more steps either.
JoinNobody ==
    /\ main = "join"
    /\ \E t \in Threads : pc[t] = "absent"
    /\ main' = "lost"
    /\ UNCHANGED <<locals, tables, locks, buffer, disk, refused>>

Gone(t) == pc[t] \in {"exit", "absent"}

\* Mutant: the last window's end as a difference.
BufferEndByDifference ==
    IF counted = NumChunks THEN bytes - BufferSize ELSE BufferSize

\* buffer_end_offset: the whole buffer, unless this was the last window.
BufferEnd ==
    IF counted = NumChunks THEN bytes % BufferSize ELSE BufferSize

\* All threads are joined; the loop is left after one window.  A file that
\* could not be opened, or a write that fails, leaves the file short: the
\* result of fwrite_full is only added up.
Write ==
    /\ main = "join"
    /\ \A t \in Threads : Gone(t)
    /\ \/ written' = BufferEnd /\ UNCHANGED diskError
       \/ diskError' = TRUE /\ written' \in 0 .. BufferEnd - 1
    /\ main' = "done"
    /\ UNCHANGED <<locals, tables, locks, buffer, refused>>

-----------------------------------------------------------------------------
(* A download thread. *)

Goto(t, label) == pc' = [pc EXCEPT ![t] = label]

\* The top of the thread's loop; chunk and peer go out of scope.
Restart(t) ==
    /\ Goto(t, "check")
    /\ chunk' = [chunk EXCEPT ![t] = None]
    /\ peer' = [peer EXCEPT ![t] = None]

CheckDone(t) ==
    /\ pc[t] = "check"
    /\ numLock = Nobody
    /\ Goto(t, IF counted >= Limit THEN "exit" ELSE "claim")
    /\ UNCHANGED <<main, chunk, peer, tables, locks, buffer, disk, refused>>

\* Mutant: the scan forgets is_downloading.
AvailableIfMissing == {i \in Window : ~ downloaded[i]}

Available == {i \in Window : ~ downloaded[i] /\ ~ downloading[i]}

Claim(t) ==
    /\ pc[t] = "claim"
    /\ chunksLock = Nobody
    /\ \E i \in Available :
        /\ \A j \in Available : i <= j
        /\ chunk' = [chunk EXCEPT ![t] = i]
        /\ downloading' = [downloading EXCEPT ![i] = TRUE]
    /\ Goto(t, "select")
    /\ UNCHANGED <<main, peer, downloaded, online, served, counted, bytes,
                   locks, buffer, disk, refused>>

NothingToClaim(t) ==
    /\ pc[t] = "claim"
    /\ chunksLock = Nobody
    /\ Available = {}
    /\ Goto(t, "exit")
    /\ UNCHANGED <<main, chunk, peer, tables, locks, buffer, disk, refused>>

Candidates == {p \in Peers : online[p] /\ served[p] < ServedCeiling}

\* The scan keeps the first candidate it meets, whatever the others served.
Select(t) ==
    /\ pc[t] = "select"
    /\ srcLock = Nobody
    /\ \E p \in Candidates :
        /\ \A q \in Candidates : p <= q
        /\ peer' = [peer EXCEPT ![t] = p]
    /\ Goto(t, "connect")
    /\ UNCHANGED <<main, chunk, tables, locks, buffer, disk, refused>>

\* Mutant: the chunk is handed back before the thread tries again.
NobodyOnlineHandsBack(t) ==
    /\ pc[t] = "select"
    /\ srcLock = Nobody
    /\ Candidates = {}
    /\ downloading' = [downloading EXCEPT ![chunk[t]] = FALSE]
    /\ Restart(t)
    /\ UNCHANGED <<main, downloaded, online, served, counted, bytes, locks,
                   buffer, disk, refused>>

\* The chunk stays marked as downloading.
NobodyOnline(t) ==
    /\ pc[t] = "select"
    /\ srcLock = Nobody
    /\ Candidates = {}
    /\ Restart(t)
    /\ UNCHANGED <<main, tables, locks, buffer, disk, refused>>

Connect(t) ==
    /\ pc[t] = "connect"
    /\ Goto(t, "recv")
    /\ UNCHANGED <<main, chunk, peer, tables, locks, buffer, disk, refused>>

\* The peer does not accept, or this dnode has no descriptor for a socket.
ConnectFails(t) ==
    /\ pc[t] = "connect"
    /\ refused' = refused \cup {peer[t]}
    /\ Goto(t, "failSrc")
    /\ UNCHANGED <<main, chunk, peer, tables, locks, buffer, disk>>

FailSrc(t) ==
    /\ pc[t] = "failSrc"
    /\ srcLock = Nobody
    /\ srcLock' = t
    /\ Goto(t, "failChunks")
    /\ UNCHANGED <<main, chunk, peer, tables, numLock, chunksLock,
                   buffer, disk, refused>>

\* Mutant: the chunk is not handed back.
FailChunksKeepsChunk(t) ==
    /\ pc[t] = "failChunks"
    /\ chunksLock = Nobody
    /\ online' = [online EXCEPT ![peer[t]] = FALSE]
    /\ srcLock' = Nobody
    /\ Restart(t)
    /\ UNCHANGED <<main, downloading, downloaded, served, counted, bytes,
                   numLock, chunksLock, buffer, disk, refused>>

\* Mutant: the list of sources is indexed by the chunk.
FailChunksWrongIndex(t) ==
    /\ pc[t] = "failChunks"
    /\ chunksLock = Nobody
    /\ downloading' = [downloading EXCEPT ![chunk[t]] = FALSE]
    /\ online' = [online EXCEPT ![chunk[t] % NumPeers] = FALSE]
    /\ srcLock' = Nobody
    /\ Restart(t)
    /\ UNCHANGED <<main, downloaded, served, counted, bytes,
                   numLock, chunksLock, buffer, disk, refused>>

FailChunks(t) ==
    /\ pc[t] = "failChunks"
    /\ chunksLock = Nobody
    /\ downloading' = [downloading EXCEPT ![chunk[t]] = FALSE]
    /\ online' = [online EXCEPT ![peer[t]] = FALSE]
    /\ srcLock' = Nobody
    /\ Restart(t)
    /\ UNCHANGED <<main, downloaded, served, counted, bytes,
                   numLock, chunksLock, buffer, disk, refused>>

\* buffer_offset of chunk i, in chunks.
SlotOf(i) == OffsetOf(i) \div ChunkSize

\* The slot of the thread's chunk gets some bytes, and recv_full returns or
\* does not.
Receive(t, data, next) ==
    /\ pc[t] = "recv"
    /\ buffer' = [buffer EXCEPT ![SlotOf(chunk[t])] = data]
    /\ Goto(t, next)
    /\ UNCHANGED <<main, chunk, peer, tables, locks, disk, refused>>

\* The hash comparison that follows is an assignment, so that right or wrong
\* the chunk is taken as downloaded.
RecvChunk(t) == Receive(t, chunk[t], "doneChunks")

\* Other bytes, or an error of recv, whose result nobody looks at.
RecvGarbage(t) == peer[t] \notin Steady /\ Receive(t, Garbage, "doneChunks")

\* The peer closes early: recv returns 0 and recv_full asks again forever.
RecvEof(t) == peer[t] \notin Steady /\ Receive(t, Garbage, "spin")

\* The peer leaves the connection open and sends no more: there is no timeout.
RecvNothing(t) == peer[t] \notin Steady /\ Receive(t, Garbage, "silent")

DoneChunks(t) ==
    /\ pc[t] = "doneChunks"
    /\ chunksLock = Nobody
    /\ chunksLock' = t
    /\ Goto(t, "doneNum")
    /\ UNCHANGED <<main, chunk, peer, tables, numLock, srcLock,
                   buffer, disk, refused>>

DoneNum(t) ==
    /\ pc[t] = "doneNum"
    /\ numLock = Nobody
    /\ numLock' = t
    /\ Goto(t, "doneSrc")
    /\ UNCHANGED <<main, chunk, peer, tables, srcLock, chunksLock,
                   buffer, disk, refused>>

DoneSrc(t) ==
    /\ pc[t] = "doneSrc"
    /\ srcLock = Nobody
    /\ srcLock' = t
    /\ downloaded' = [downloaded EXCEPT ![chunk[t]] = TRUE]
    /\ served' = [served EXCEPT ![peer[t]] = @ + 1]
    /\ Goto(t, "count")
    /\ UNCHANGED <<main, chunk, peer, downloading, online, counted, bytes,
                   numLock, chunksLock, buffer, disk, refused>>

\* Mutant: the counting loop does not look at is_downloaded.
CanCountAll == counted < Limit

CanCount == counted < Limit /\ downloaded[counted]

\* One iteration of the loop that counts the downloaded prefix.
Count(t) ==
    /\ pc[t] = "count"
    /\ CanCount
    /\ counted' = counted + 1
    /\ bytes' = bytes + SizeOf(counted)
    /\ UNCHANGED <<main, locals, downloading, downloaded, online, served,
                   locks, buffer, disk, refused>>

Release(t) ==
    /\ pc[t] = "count"
    /\ ~ CanCount
    /\ numLock' = Nobody
    /\ srcLock' = Nobody
    /\ chunksLock' = Nobody
    /\ Restart(t)
    /\ UNCHANGED <<main, tables, buffer, disk, refused>>

Step(t) ==
    \/ CheckDone(t) \/ Claim(t) \/ NothingToClaim(t)
    \/ Select(t) \/ NobodyOnline(t)
    \/ Connect(t) \/ ConnectFails(t) \/ FailSrc(t) \/ FailChunks(t)
    \/ RecvChunk(t) \/ RecvGarbage(t) \/ RecvEof(t) \/ RecvNothing(t)
    \/ DoneChunks(t) \/ DoneNum(t) \/ DoneSrc(t) \/ Count(t) \/ Release(t)

MainStep == Spawn \/ JoinNobody \/ Write

Next == MainStep \/ \E t \in Threads : Step(t)

Spec == Init /\ [][Next]_vars

\* The scheduler runs every thread that can run.  Nothing is assumed of the
\* peers: one that neither answers nor closes is RecvNothing.
FairSpec ==
    /\ Spec
    /\ WF_vars(MainStep)
    /\ \A t \in Threads : WF_vars(Step(t))

-----------------------------------------------------------------------------
(* Safety. *)

Labels == {"idle", "check", "claim", "select", "connect", "failSrc",
           "failChunks", "recv", "spin", "silent", "doneChunks", "doneNum",
           "doneSrc", "count", "exit", "absent"}

\* Where a thread is busy with a chunk it has claimed and not delivered.
Busy == {"select", "connect", "failSrc", "failChunks", "recv", "spin",
         "silent", "doneChunks", "doneNum", "doneSrc"}

\* Every variable of multi_threaded_download keeps the values its C++ type
\* and the code's use of it allow.
TypeOK ==
    /\ main \in {"spawn", "join", "lost", "done"}
    /\ pc \in [Threads -> Labels]
    /\ chunk \in [Threads -> Window \cup {None}]
    /\ peer \in [Threads -> Peers \cup {None}]
    /\ downloading \in [Window -> BOOLEAN]
    /\ downloaded \in [Window -> BOOLEAN]
    /\ online \in [Peers -> BOOLEAN]
    /\ served \in [Peers -> Nat]
    /\ counted \in 0 .. Limit
    /\ bytes \in Nat
    /\ numLock \in Threads \cup {Nobody}
    /\ srcLock \in Threads \cup {Nobody}
    /\ chunksLock \in Threads \cup {Nobody}
    /\ buffer \in [Slots -> Window \cup {Garbage}]
    /\ written \in Nat
    /\ refused \subseteq Peers
    /\ diskError \in BOOLEAN

\* is_downloading and is_downloaded keep two threads off the same chunk, and
\* so off the same part of the unlocked download buffer, although a claim,
\* its failure and its completion are separate critical sections.
ChunkOwnership ==
    \A t \in Threads : pc[t] \in Busy =>
        /\ chunk[t] \in Window
        /\ downloading[chunk[t]] /\ ~ downloaded[chunk[t]]
        /\ \A u \in Threads \ {t} : pc[u] \in Busy => chunk[u] # chunk[t]

\* num_chunks_downloaded is the length of the downloaded prefix whenever its
\* mutex is free, in whatever order the threads deliver their chunks, and
\* num_bytes_downloaded is the size of that prefix.
PrefixCounted ==
    /\ \A i \in Window : i < counted => downloaded[i]
    /\ bytes = BytesUpTo(counted)
    /\ numLock = Nobody => ~ CanCount

\* At least one thread was created, and all that were are through.
AllLeft ==
    /\ \A t \in Threads : Gone(t)
    /\ \E t \in Threads : pc[t] = "exit"

\* The threads leave the loop only when the window is downloaded, or when no
\* source is left to ask: no chunk handed back by a failed thread is missed
\* by threads that found nothing to claim and are gone, nor is the work of
\* a thread that could not be created.
NothingForgotten == AllLeft => counted = Limit \/ Candidates = {}

\* A download that returns has every chunk of its window, if there is one
\* source no connection to which has failed, at either end: no other failure
\* sets a source offline, whichever source a thread copied out of the table
\* and however late it reports.
OneSourceSuffices ==
    (main = "done" /\ AllLeft /\ refused # Peers)
        => \A i \in Window : downloaded[i]

\* chunks_served accounts for every downloaded chunk once, although threads
\* pick a source long before they update it: each chunk has one source, and
\* each source's count is that of its chunks.
ServedOnce ==
    \E source \in [{i \in Window : downloaded[i]} -> Peers] :
        \A p \in Peers :
            served[p] = Cardinality({i \in DOMAIN source : source[i] = p})

\* Threads that fill the buffer without a lock never put a chunk at another's
\* place, and when every byte that arrived was right, a file smaller than the
\* download buffer is on disk in full, or in part after an error of the disk.
FileIntact ==
    /\ \A i \in Window : buffer[i] \in {i, Garbage}
    /\ (/\ main = "done"
        /\ FileSize < BufferSize
        /\ \A i \in Chunks : buffer[i] # Garbage)
            => /\ written <= FileSize
               /\ written = FileSize \/ diskError

\* The threads implement the abstract window: a chunk is "taken" while some
\* thread is busy with it and "lost" when it stays marked as downloading.
StatusOf(i) ==
    IF downloaded[i] THEN "done"
    ELSE IF \E t \in Threads : pc[t] \in Busy /\ chunk[t] = i THEN "taken"
    ELSE IF downloading[i] THEN "lost" ELSE "wanted"

Promise ==
    INSTANCE DownloadWindow
    WITH status <- [i \in Window |-> StatusOf(i)],
         sources <- Candidates,
         over <- main = "done"

\* ChunkDownload refines DownloadWindow.
KeepsPromise == Promise!Spec

-----------------------------------------------------------------------------
(* Liveness. *)

\* A thread that holds the chunk list waits for the source list, whose holder
\* waits for the chunk list: the two nestings of the code are opposite.
Abba == \E t, u \in Threads : pc[t] = "failChunks" /\ pc[u] = "doneSrc"

\* Threads that are in recv for ever: after the end of the stream, or for
\* bytes that do not come.
Spinning == \E t \in Threads : pc[t] = "spin"

Waiting == \E t \in Threads : pc[t] = "silent"

\* The download returns.  It can be held up by a source that closes early or
\* falls silent, by the two nestings of the mutexes, and by the join of a
\* thread that was not created; by nothing else, and in particular not by
\* threads that go round without a source.
DownloadEnds ==
    <>(main \in {"done", "lost"} \/ Spinning \/ Waiting \/ Abba)

-----------------------------------------------------------------------------
(* What the documents say and the code does not do. *)

\* No thread was missing when they were created.
Joinable == \A t \in Threads : pc[t] # "absent"

\* README, lines 169-170: "if peer fails: while downloading restart chunk
\* download from another peer".  Here the peer refuses the connection, and
\* one that works can be connected to.
RefusedChunkRestarts ==
    \A i \in Window :
        (\E t \in Threads : pc[t] = "failSrc" /\ chunk[t] = i)
            ~> (downloaded[i] \/ Steady \subseteq refused \/ ~ Joinable)

\* README, lines 151-153: "verify each chunk", "at the end verify whole file
\* hash", "seed": what is seeded is the whole file.
WholeFileWritten ==
    (/\ main = "done"
     /\ Joinable
     /\ ~ diskError
     /\ \A i \in Window : downloaded[i] /\ buffer[i] = i)
        => written = FileSize

=============================================================================
