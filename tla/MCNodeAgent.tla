----------------------------- MODULE MCNodeAgent -----------------------------
(* Small instances of NodeAgent for TLC. *)
EXTENDS NodeAgent

CONSTANTS f1, f2, f3

\* Two ranks' event files and a summary, or one event file.
TwoRanks == <<f1, f2, f3>>
EventsAndSummary == [f \in {f1, f2, f3} |-> IF f = f3 THEN "rank-summary" ELSE "mpi-events"]
OneFile == <<f1>>
OneEvents == [f \in {f1} |-> "mpi-events"]
=============================================================================
