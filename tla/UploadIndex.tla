---------------------------- MODULE UploadIndex ----------------------------
(***************************************************************************)
(* The first part of an upload (handle_file_upload in                       *)
(* src/dnode/rpc_server.cpp), in bytes: the size of the file, the copy of   *)
(* it into the dnode's own directory, the index of chunk hashes and the     *)
(* hash of the index (src/util/fs.cpp, src/util/hash.cpp).                  *)
(*                                                                          *)
(* read and write may take fewer bytes than they are asked for, and may     *)
(* fail; the upload goes on with the next chunk then.  Another program may  *)
(* shorten the file meanwhile, and it need not exist.                       *)
(*                                                                          *)
(* Of every hash the model has the low byte, which only depends on the low  *)
(* bytes of the words (little-endian: their first bytes).                   *)
(***************************************************************************)
EXTENDS Integers, Sequences

CONSTANTS
    WordSize, ChunkSize,   \* bytes
    MaxInt,                \* the largest int
    Files,                 \* contents, sequences of bytes
    Garbage,               \* bytes that an uninitialised buffer may be full of
    MaxErrors              \* bound: reads and writes that fail

Bytes == 0 .. 255

ASSUME UploadAssumption ==
    /\ {WordSize, ChunkSize} \subseteq Nat \ {0}
    /\ ChunkSize % WordSize = 0
    /\ Files \subseteq Seq(Bytes) /\ Garbage \subseteq Bytes
    /\ {MaxInt, MaxErrors} \subseteq Nat

Ints == -MaxInt - 1 .. MaxInt
NumInts == 2 * (MaxInt + 1)    \* 2^32 for an int of 32 bits

-----------------------------------------------------------------------------
(* Sizes *)

\* (int)(st.st_size)
ToInt(n) == CHOOSE s \in Ints : s % NumInts = n % NumInts

\* / and % of C, which round to zero.
Quotient(s) == IF s >= 0 THEN s \div ChunkSize ELSE -((-s) \div ChunkSize)
Remainder(s) == s - ChunkSize * Quotient(s)

NumChunks(s) == Quotient(s) + (IF Remainder(s) > 0 THEN 1 ELSE 0)
SizeOfChunk(s, i) == IF i < Quotient(s) THEN ChunkSize ELSE Remainder(s)

-----------------------------------------------------------------------------
(* compute_hash *)

Prime == 179                  \* the low byte of the FNV prime
Lanes == <<37, 37, 197, 37>>  \* the low bytes of a, b, c and d at the start

\* Exclusive or of half bytes and of bytes, and one step of a lane, as tables.
HalfXor == [x \in 0 .. 15 |-> [y \in 0 .. 15 |->
            LET Bit(v) == v * ((x \div v + y \div v) % 2)
            IN Bit(1) + Bit(2) + Bit(4) + Bit(8)]]
XorOf == [x \in Bytes |-> [y \in Bytes |->
            16 * HalfXor[x \div 16][y \div 16] + HalfXor[x % 16][y % 16]]]
Mixed == [h \in Bytes |-> [w \in Bytes |-> (XorOf[h][w] * Prime) % 256]]

\* One lane over the words of the data.
Lane(start, words) ==
    LET h[k \in 0 .. Len(words)] == IF k = 0 THEN start ELSE Mixed[h[k - 1]][words[k]]
    IN h[Len(words)]

\* Mutant: the last lane is left out.
HashOfThree(words) ==
    XorOf[XorOf[Lane(Lanes[1], words)][Lane(Lanes[2], words)]][Lane(Lanes[3], words)]

Hash(words) ==
    XorOf[XorOf[Lane(Lanes[1], words)][Lane(Lanes[2], words)]]
         [XorOf[Lane(Lanes[3], words)][Lane(Lanes[4], words)]]

\* The whole words of the first l bytes: what is left of them is not hashed.
Words(bytes, l) == [k \in 1 .. l \div WordSize |-> bytes[WordSize * (k - 1) + 1]]

-----------------------------------------------------------------------------
VARIABLES
    content,   \* the file at the path, as it was at the start
    exists,    \* it can be opened and read
    shrunk,    \* it has become shorter, and ends where it was read to
    pc,
    size,      \* file_size
    i,         \* the chunk in work
    buffer,    \* chunk_buffer
    got, put,  \* bytes of the chunk that were read and written
    pos,       \* bytes of the file that were read
    copy,      \* bytes that were written to the dnode's own file
    index,     \* file_index_data
    fileHash,  \* -1: not computed yet
    readErrors, writeErrors

file == <<content, exists>>
vars == <<file, shrunk, pc, size, i, buffer, got, put, pos, copy, index, fileHash,
          readErrors, writeErrors>>

Errors == readErrors + writeErrors
Want == SizeOfChunk(size, i)

Init ==
    /\ content \in Files
    /\ exists \in BOOLEAN
    /\ shrunk = FALSE
    /\ pc = "stat"
    /\ size = 0
    /\ \E g \in Garbage : buffer = [k \in 1 .. ChunkSize |-> g]
    /\ i = 0 /\ got = 0 /\ put = 0 /\ pos = 0
    /\ copy = <<>> /\ index = <<>>
    /\ fileHash = -1
    /\ readErrors = 0 /\ writeErrors = 0

\* Another program shortens the file.  Where to is only seen by a read that
\* gets there: it may as well be the place the upload has come to.
Shrink ==
    /\ exists
    /\ ~shrunk /\ pos < Len(content)
    /\ pc # "stat"
    /\ shrunk' = TRUE
    /\ UNCHANGED <<file, pc, size, i, buffer, got, put, pos, copy, index, fileHash,
                   readErrors, writeErrors>>

\* Without a file the size is whatever the uninitialised struct holds.
Stat ==
    /\ pc = "stat"
    /\ size' \in IF exists THEN {ToInt(Len(content))} ELSE Ints
    /\ index' = [k \in 1 .. NumChunks(size') |-> 0]
    /\ pc' = IF NumChunks(size') > 0 THEN "read" ELSE "hashIndex"
    /\ UNCHANGED <<file, shrunk, i, buffer, got, put, pos, copy, fileHash,
                   readErrors, writeErrors>>

Read ==
    /\ pc = "read"
    /\ UNCHANGED <<file, shrunk, size, i, put, copy, index, fileHash, writeErrors>>

Fetch(n) ==
    /\ buffer' = [k \in 1 .. ChunkSize |->
                    IF k \in got + 1 .. got + n THEN content[pos + k - got] ELSE buffer[k]]
    /\ pos' = pos + n

\* Mutant: the read asks for the whole size again.
ReadTooMuch ==
    /\ Read
    /\ exists /\ ~shrunk
    /\ \E n \in 1 .. Want :
        /\ pos + n <= Len(content)
        /\ Fetch(n)
        /\ got' = got + n
        /\ pc' = IF got' >= Want THEN "hash" ELSE "read"
    /\ UNCHANGED readErrors

\* At the end of the file read returns 0 and is called again, for ever.
ReadSome ==
    /\ Read
    /\ exists /\ ~shrunk
    /\ \E n \in 1 .. Want - got :
        /\ pos + n <= Len(content)
        /\ Fetch(n)
        /\ got' = got + n
        /\ pc' = IF got' = Want THEN "hash" ELSE "read"
    /\ UNCHANGED readErrors

\* Nobody looks at the -1.  The buffer keeps what it held.
ReadError ==
    /\ Read
    /\ ~exists \/ Errors < MaxErrors
    /\ readErrors' = IF exists THEN readErrors + 1 ELSE readErrors
    /\ pc' = "hash"
    /\ UNCHANGED <<buffer, got, pos>>

\* Mutant: the last chunk is hashed as if it were complete.
HashWhole ==
    /\ pc = "hash"
    /\ index' = [index EXCEPT ![i + 1] = Hash(Words(buffer, ChunkSize))]
    /\ pc' = "write"
    /\ UNCHANGED <<file, shrunk, size, i, buffer, got, put, pos, copy, fileHash,
                   readErrors, writeErrors>>

HashChunk ==
    /\ pc = "hash"
    /\ index' = [index EXCEPT ![i + 1] = Hash(Words(buffer, Want))]
    /\ pc' = "write"
    /\ UNCHANGED <<file, shrunk, size, i, buffer, got, put, pos, copy, fileHash,
                   readErrors, writeErrors>>

\* Mutant: the loop has one round too many.
NextChunkOneMore ==
    /\ i' = i + 1
    /\ got' = 0 /\ put' = 0
    /\ pc' = IF i' <= NumChunks(size) THEN "read" ELSE "hashIndex"

NextChunk ==
    /\ i' = i + 1
    /\ got' = 0 /\ put' = 0
    /\ pc' = IF i' < NumChunks(size) THEN "read" ELSE "hashIndex"

Write ==
    /\ pc = "write"
    /\ UNCHANGED <<file, shrunk, size, buffer, pos, index, fileHash, readErrors>>

\* Mutant: every write starts at the beginning of the buffer.
WriteFromStart ==
    /\ Write
    /\ \E n \in 1 .. Want - put :
        /\ copy' = copy \o SubSeq(buffer, 1, n)
        /\ IF put + n = Want THEN NextChunk
           ELSE put' = put + n /\ UNCHANGED <<pc, i, got>>
    /\ UNCHANGED writeErrors

WriteSome ==
    /\ Write
    /\ \E n \in 1 .. Want - put :
        /\ copy' = copy \o SubSeq(buffer, put + 1, put + n)
        /\ IF put + n = Want THEN NextChunk
           ELSE put' = put + n /\ UNCHANGED <<pc, i, got>>
    /\ UNCHANGED writeErrors

\* Nobody looks at the -1 here either; the next chunk follows in the file.
WriteError ==
    /\ Write
    /\ Errors < MaxErrors
    /\ writeErrors' = writeErrors + 1
    /\ NextChunk
    /\ UNCHANGED copy

\* A negative size of the index gets no memory and is a huge length to hash.
HashIndex ==
    /\ pc = "hashIndex"
    /\ IF NumChunks(size) < 0
       THEN pc' = "dead" /\ UNCHANGED fileHash
       ELSE pc' = "done" /\ fileHash' = Hash(index)
    /\ UNCHANGED <<file, shrunk, size, i, buffer, got, put, pos, copy, index,
                   readErrors, writeErrors>>

Step ==
    \/ Stat
    \/ ReadSome \/ ReadError
    \/ HashChunk
    \/ WriteSome \/ WriteError
    \/ HashIndex

Next == Step \/ Shrink

\* The upload is one thread, which runs on; calls that can succeed do.
Fairness == WF_vars(Step)

FairSpec == Init /\ [][Next]_vars /\ Fairness

-----------------------------------------------------------------------------
(* Properties *)

TypeOK ==
    /\ content \in Seq(Bytes) /\ exists \in BOOLEAN /\ shrunk \in BOOLEAN
    /\ pc \in {"stat", "read", "hash", "write", "hashIndex", "done", "dead"}
    /\ size \in Ints
    /\ i \in Nat /\ (pc \in {"read", "hash", "write"} => i < NumChunks(size))
    /\ buffer \in [1 .. ChunkSize -> Bytes]
    /\ {got, put} \subseteq 0 .. ChunkSize
    /\ pc = "read" => got < Want
    /\ pc = "hash" => got <= Want
    /\ pc = "write" => put < Want
    /\ pos \in 0 .. Len(content)
    /\ copy \in Seq(Bytes) /\ index \in Seq(Bytes)
    /\ Len(index) = (IF NumChunks(size) > 0 THEN NumChunks(size) ELSE 0) \/ pc = "stat"
    /\ fileHash \in {-1} \cup Bytes
    /\ Errors \in 0 .. MaxErrors

\* A copy that met no error, however its reads and writes were cut up, is the
\* file as far as file_size goes; that is all of it when its size is an int.
CopyIsFile ==
    pc = "done" /\ exists /\ Errors = 0 =>
        /\ copy = SubSeq(content, 1, size)
        /\ Len(content) \in Ints => copy = content

\* The index describes what the dnode serves: each hash in it is that of its
\* chunk of the copy, also when reads failed or there was no file to read, as
\* long as no write failed.
IndexIsOfCopy ==
    pc = "done" /\ writeErrors = 0 =>
        \A k \in DOMAIN index :
            LET l == SizeOfChunk(size, k - 1)
                chunk == SubSeq(copy, ChunkSize * (k - 1) + 1, ChunkSize * (k - 1) + l)
            IN Len(chunk) = l /\ index[k] = Hash(Words(chunk, l))

\* No data hashes to 0, which is what the hub's map of names answers for a name
\* that nobody uploaded.  The lanes start with the same five low bits (and all
\* words do the same to them), and an odd number of them has the sixth one set.
HashNeverZero ==
    pc = "done" => \A h \in {fileHash} \cup {index[k] : k \in DOMAIN index} : h % 64 = 32

\* An upload of a file that can be read, and whose size is an int, ends, unless
\* somebody shortens the file under it; short and failed calls do not stop it.
UploadEnds ==
    exists /\ Len(content) \in Ints => <>(pc = "done" \/ shrunk)

=============================================================================
