-------------------------- MODULE MCSegmentLifecycle --------------------------
(* Small instances of SegmentLifecycle for TLC. *)
EXTENDS SegmentLifecycle, TLC

CONSTANTS a1, a2, k1, k2, x, y

Segment(a, str, lo, hi, k) ==
    [attempt |-> a, stream |-> str, first |-> lo, last |-> hi, key |-> k, generation |-> 0]

\* Two ranges that meet on one stream, and another attempt that stores the bytes of
\* the first of them on a stream of its own.
SharedContent == {Segment(a1, x, 1, 2, k1), Segment(a1, x, 2, 3, k2), Segment(a2, y, 1, 1, k1)}

\* One segment of one attempt.
OneSegment == {Segment(a1, x, 1, 1, k1)}


Symmetry == Permutations(Uploader) \cup Permutations(Worker)
=============================================================================
