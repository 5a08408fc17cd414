---------------------------- MODULE MCDataServer ----------------------------
(* DataServer for TLC. *)
EXTENDS DataServer

=============================================================================
