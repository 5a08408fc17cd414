---------------------------- MODULE MCHubServers ----------------------------
(* HubServers for TLC: uids, hashes and hubs are interchangeable. *)
EXTENDS HubServers, TLC

ServersSymmetry == Permutations(Uids) \cup Permutations(Hashes)

=============================================================================
