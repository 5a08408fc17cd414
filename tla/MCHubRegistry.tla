---------------------------- MODULE MCHubRegistry ----------------------------
(* HubRegistry for TLC: dnodes, names and contents are interchangeable. *)
EXTENDS HubRegistry, TLC

RegistrySymmetry ==
    Permutations(Dnodes) \cup Permutations(Names) \cup Permutations(Hashes)

=============================================================================
