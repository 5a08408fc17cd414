--------------------------- MODULE MCUploadIndex ---------------------------
(* UploadIndex for TLC: every short file of two bytes, and files whose size *)
(* is about the largest int, twice of it and four times of it.              *)
EXTENDS UploadIndex

Some(n) == [k \in 1 .. n |-> (37 * k + n) % 256]

MCFiles ==
    UNION {[1 .. n -> {1, 160}] : n \in 0 .. 6}
        \cup {Some(n) : n \in {7, 8, 9, 12, 15, 16, 17, 23, 24, 31, 32, 35}}

=============================================================================
