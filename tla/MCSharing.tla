------------------------------ MODULE MCSharing ------------------------------
(* Sharing for TLC: the contents are a string for each length. *)
EXTENDS Sharing, TLC

\* Contents of one to four pieces.
MCLength ==
    [c \in Contents |->
        CASE c = "one" -> 1 [] c = "two" -> 2 [] c = "three" -> 3 [] c = "four" -> 4]

SharingSymmetry == Permutations(Dnodes) \cup Permutations(Names)

=============================================================================
