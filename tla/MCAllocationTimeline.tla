---- MODULE MCAllocationTimeline ----
EXTENDS AllocationTimeline, TLC
Symmetry == Permutations(Poller)
====
