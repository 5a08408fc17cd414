--------------------------- MODULE DownloadWindow ---------------------------
(***************************************************************************)
(* What a downloading dnode promises about the chunks of one window,       *)
(* whatever its threads do: a chunk is worked on by one taker at a time, a *)
(* chunk whose taker found its source unreachable is wanted again, a chunk *)
(* is given up only when no source is left, and the window is over only    *)
(* when nothing is wanted or taken any more, or when the work was never    *)
(* begun.                                                                  *)
(*                                                                         *)
(* ChunkDownload, the threads and locks of src/src/dnode/rpc_server.cpp,   *)
(* implements this specification.                                          *)
(***************************************************************************)

CONSTANTS
    Window,     \* the chunks to download
    Peers       \* the sources the hub named

VARIABLES
    status,     \* of each chunk of the window
    sources,    \* the sources still believed reachable
    over        \* the download has returned

vars == <<status, sources, over>>

Init ==
    /\ status = [i \in Window |-> "wanted"]
    /\ sources = Peers
    /\ over = FALSE

\* A chunk passes from one status to another; no source comes back.
Move(i, from, to) ==
    /\ ~ over
    /\ status[i] = from
    /\ status' = [status EXCEPT ![i] = to]
    /\ sources' \subseteq sources
    /\ UNCHANGED over

Take(i) == Move(i, "wanted", "taken")

\* The source the taker chose could not be reached.
GiveBack(i) == Move(i, "taken", "wanted")

\* The taker has the data.
Complete(i) == Move(i, "taken", "done")

\* The taker has nobody to ask; nothing takes the chunk up again.
GiveUp(i) == sources = {} /\ Move(i, "taken", "lost")

Finish ==
    /\ ~ over
    /\ \A i \in Window : status[i] \in {"done", "lost"}
    /\ over' = TRUE
    /\ UNCHANGED <<status, sources>>

\* Nobody could be found to do the work.
NobodyWorks ==
    /\ ~ over
    /\ \A i \in Window : status[i] = "wanted"
    /\ sources = Peers
    /\ over' = TRUE
    /\ UNCHANGED <<status, sources>>

Next ==
    \/ \E i \in Window : Take(i) \/ GiveBack(i) \/ Complete(i) \/ GiveUp(i)
    \/ Finish \/ NobodyWorks

Spec == Init /\ [][Next]_vars

=============================================================================
