-------------------------- MODULE ChunkLayoutProofs --------------------------
(***************************************************************************)
(* Facts about the chunk layout, for every size of file and of chunk.      *)
(***************************************************************************)
EXTENDS ChunkLayout, TLAPS

\* Integer division, as the code's / and % compute it for a size.
LEMMA LayoutDivision ==
    /\ CompleteChunks \in Nat
    /\ PartialChunkSize \in Nat
    /\ PartialChunkSize < ChunkSize
    /\ FileSize = CompleteChunks * ChunkSize + PartialChunkSize
    /\ NumChunks \in Nat
BY LayoutAssumption, SMT DEF CompleteChunks, PartialChunkSize, NumChunks

\* A larger count of chunks is not fewer bytes.
LEMMA ProductMonotone ==
    \A a, b, c \in Nat : a <= b => a * c <= b * c
BY SMT

\* The chunks tile the file: each one starts where the one before it ends,
\* none is empty or longer than FILE_CHUNK_SIZE, and the last one ends with
\* the file, so that a request for any of them lies within the file.
THEOREM ChunksTile ==
    \A i \in Chunks :
        /\ OffsetOf(i) \in Nat
        /\ OffsetOf(i) = BytesUpTo(i)
        /\ OffsetOf(i) + SizeOf(i) = BytesUpTo(i + 1)
        /\ SizeOf(i) \in 1 .. ChunkSize
        /\ BytesUpTo(i + 1) <= FileSize
<1> SUFFICES ASSUME NEW i \in Chunks
             PROVE  /\ OffsetOf(i) \in Nat
                    /\ OffsetOf(i) = BytesUpTo(i)
                    /\ OffsetOf(i) + SizeOf(i) = BytesUpTo(i + 1)
                    /\ SizeOf(i) \in 1 .. ChunkSize
                    /\ BytesUpTo(i + 1) <= FileSize
    OBVIOUS
<1>1. i \in Nat /\ i < NumChunks /\ i # NumChunks
    BY LayoutDivision DEF Chunks
<1>2. i * ChunkSize \in Nat /\ (i + 1) * ChunkSize = i * ChunkSize + ChunkSize
    BY <1>1, LayoutAssumption
<1>3. OffsetOf(i) = i * ChunkSize /\ OffsetOf(i) = BytesUpTo(i)
    BY <1>1 DEF OffsetOf, BytesUpTo
<1>4. SizeOf(i) \in 1 .. ChunkSize
    BY LayoutDivision, LayoutAssumption DEF SizeOf
<1>5. CASE i + 1 = NumChunks
    <2>1. BytesUpTo(i + 1) = FileSize
        BY <1>5 DEF BytesUpTo
    <2>2. CASE PartialChunkSize > 0
        <3>1. CompleteChunks = i
            BY <2>2, <1>5, <1>1, LayoutDivision DEF NumChunks
        <3>2. SizeOf(i) = PartialChunkSize
            BY <2>2, <1>5, <1>1, LayoutDivision DEF SizeOf
        <3>3. QED
            BY <3>1, <3>2, <2>1, <1>2, <1>3, <1>4, LayoutDivision
    <2>3. CASE ~ (PartialChunkSize > 0)
        <3>1. CompleteChunks = i + 1 /\ PartialChunkSize = 0
            BY <2>3, <1>5, <1>1, LayoutDivision DEF NumChunks
        <3>2. SizeOf(i) = ChunkSize
            BY <2>3 DEF SizeOf
        <3>3. QED
            BY <3>1, <3>2, <2>1, <1>2, <1>3, <1>4, LayoutDivision,
               LayoutAssumption
    <2>4. QED
        BY <2>2, <2>3
<1>6. CASE i + 1 # NumChunks
    <2>1. i # NumChunks - 1 /\ i + 1 < NumChunks /\ i + 1 <= CompleteChunks
        BY <1>6, <1>1, LayoutDivision DEF NumChunks
    <2>2. SizeOf(i) = ChunkSize
        BY <2>1 DEF SizeOf
    <2>3. BytesUpTo(i + 1) = (i + 1) * ChunkSize
        BY <1>6 DEF BytesUpTo, OffsetOf
    <2>4. (i + 1) * ChunkSize <= CompleteChunks * ChunkSize
        BY <2>1, <1>1, LayoutDivision, LayoutAssumption, ProductMonotone
    <2>5. CompleteChunks * ChunkSize \in Nat
        BY LayoutDivision, LayoutAssumption
    <2>6. (i + 1) * ChunkSize <= FileSize
        BY <2>4, <2>5, <1>2, LayoutDivision, LayoutAssumption
    <2>7. QED
        BY <2>2, <2>3, <2>6, <1>2, <1>3, <1>4, LayoutAssumption
<1>7. QED
    BY <1>5, <1>6

=============================================================================
