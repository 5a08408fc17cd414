---------------------------- MODULE ChunkLayout ----------------------------
(***************************************************************************)
(* How a file is cut into chunks.  The uploading dnode                     *)
(* (src/src/dnode/rpc_server.cpp, handle_file_upload) and the downloading  *)
(* dnode (multi_threaded_download) each compute this layout from the size  *)
(* of the file; the hub and the data server only pass sizes and offsets on.*)
(* Sizes are in abstract units: only their ratios matter to the layout.    *)
(***************************************************************************)
EXTENDS Integers

CONSTANTS
    FileSize,       \* bytes of the file, as the hub's metadata reports them
    ChunkSize,      \* FILE_CHUNK_SIZE
    WindowChunks    \* DOWNLOADABLE_CHUNKS: chunks that fit the download buffer

ASSUME LayoutAssumption ==
    /\ FileSize \in Nat
    /\ ChunkSize \in Nat \ {0}
    /\ WindowChunks \in Nat \ {0}

CompleteChunks == FileSize \div ChunkSize

PartialChunkSize == FileSize % ChunkSize

NumChunks ==
    IF PartialChunkSize > 0 THEN CompleteChunks + 1 ELSE CompleteChunks

Chunks == 0 .. NumChunks - 1

\* chunks_list[i].offset.
OffsetOf(i) == i * ChunkSize

\* Mutant: the last chunk is taken for a complete one.
FullSizeOf(i) == ChunkSize

\* chunks_list[i].size.
SizeOf(i) ==
    IF PartialChunkSize > 0 /\ i = NumChunks - 1
    THEN PartialChunkSize
    ELSE ChunkSize

\* The bytes before chunk k, the last chunk being possibly partial.
BytesUpTo(k) == IF k = NumChunks THEN FileSize ELSE OffsetOf(k)

BufferSize == ChunkSize * WindowChunks

=============================================================================
