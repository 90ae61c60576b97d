--------------------------- MODULE MCReportPipeline ---------------------------
(* Small instances of ReportPipeline for TLC. *)
EXTENDS ReportPipeline, TLC

CONSTANTS a1, s1, s2

\* All segments belong to one attempt.
OneAttempt == [s \in Segment |-> a1]

Symmetry == Permutations(Worker) \cup Permutations(Segment)
=============================================================================
