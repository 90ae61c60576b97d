-------------------------- MODULE MCRequestTracking --------------------------
(* Small instances of RequestTracking for TLC. *)
EXTENDS RequestTracking, TLC

Symmetry == Permutations(Thread) \cup Permutations(Handle \ Shared)
=============================================================================
