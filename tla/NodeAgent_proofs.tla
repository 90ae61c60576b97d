--------------------------- MODULE NodeAgent_proofs ---------------------------
(* Proofs about NodeAgent, for every value of its constants. *)
EXTENDS NodeAgent, FiniteSetTheorems, NaturalsInduction, WellFoundedInduction, TLAPS

(***************************************************************************)
(* The inductive invariant.  A crash between spool and state leaves an     *)
(* orphan: a sealed segment that begins where the saved sequence still     *)
(* stands.  The next pass seals a second segment from there, and the two   *)
(* are a fork.  Only one of them can be accepted, and whatever comes after *)
(* a fork waits behind the other.                                          *)
(***************************************************************************)

\* Every segment that was ever sealed is still in the spool or is accepted.
Sealeds == pending \cup accepted

Fork(x, c) ==
    \E u, v \in Sealeds : u # v /\ u.stream = x /\ v.stream = x /\ u.first = c /\ v.first = c

Draining == pc \in {"drain", "receipt", "remove"}

\* The segment that the agent has sealed and not yet recorded in its state.
Unsaved(s) ==
    LET f == Here
        c == memory.cursor[f]
    IN  /\ s.stream = StreamOf[f] /\ s.first = saved.next[s.stream]
        /\ memory = [next |-> [saved.next EXCEPT ![s.stream] = s.last + 1],
                     cursor |-> [saved.cursor EXCEPT ![f] = c]]
        /\ s.records = {<<f, n>> : n \in IF StreamOf[f] = "mpi-events"
                                           THEN saved.cursor[f] + 1 .. c ELSE {c}}

Sealing ==
    /\ index <= Len(Files)
    /\ saved.cursor[Here] < memory.cursor[Here] /\ memory.cursor[Here] <= capture[Here]
    /\ \E s \in pending : Unsaved(s)

\* What the agent has in memory, in each phase.
PhaseOK ==
    /\ pc = "collect" \/ Draining => memory = saved
    /\ pc = "save" => Sealing
    /\ pc = "down" => index = 1
    /\ ~Draining => queue = <<>>
    /\ pc \in {"receipt", "remove"} => queue # <<>> /\ Head(queue) \in accepted

\* The queue of a pass is the spool, in the order of the names.
QueueOK ==
    Draining => /\ {queue[i] : i \in DOMAIN queue} = pending
                /\ \A i, j \in DOMAIN queue : i < j => Before(queue[i], queue[j])

\* Names in the spool are unique, ranges are not empty, records belong to the stream.
SpoolOK ==
    /\ IsFiniteSet(pending)
    /\ \A s, t \in pending : SameName(s, t) => s = t
    /\ \A u \in Sealeds : u.first <= u.last /\ \A r \in u.records : StreamOf[r[1]] = u.stream

CursorsTrail == \A f \in File : saved.cursor[f] <= capture[f]

\* No segment begins beyond the saved sequence; one that begins before it has only
\* records before the saved cursors, or is half of a fork.
Chained ==
    \A u \in Sealeds :
        /\ u.first <= saved.next[u.stream]
        /\ \/ u.first = saved.next[u.stream]
           \/ \A r \in u.records : r[2] <= saved.cursor[r[1]]
           \/ Fork(u.stream, u.first)

\* An orphan is not sent: before the pass drains, it reaches a file that makes the
\* orphan half of a fork.
OrphansWait ==
    \A u \in pending : u.first = saved.next[u.stream] =>
        /\ ~Draining
        /\ \E k \in index .. Len(Files) : /\ StreamOf[Files[k]] = u.stream
                                          /\ saved.cursor[Files[k]] < capture[Files[k]]

\* Records that were sealed twice come from a fork.
RepeatsForked ==
    \A s, t \in Sealeds : s # t /\ s.records \cap t.records # {} =>
        /\ s.stream = t.stream
        /\ \E c \in Nat : c <= s.first /\ c <= t.first /\ Fork(s.stream, c)

\* What the API accepted does not overlap and is not beyond a fork.
AcceptedOK ==
    /\ \A s, t \in accepted : Meets(s, t) => s = t
    /\ \A s \in accepted : s.first < saved.next[s.stream]
    /\ \A t \in accepted, c \in Nat : Fork(t.stream, c) => t.first <= c

AgentInv == /\ PhaseOK /\ QueueOK /\ SpoolOK /\ CursorsTrail /\ Chained /\ OrphansWait
            /\ RepeatsForked /\ AcceptedOK /\ NothingSkipped

-----------------------------------------------------------------------------
(* Sorting the spool. *)

LEMMA LeastExists ==
  ASSUME NEW T \in SUBSET Nat, T # {}
  PROVE  \E m \in T : \A n \in T : m <= n
<1>1. PICK m \in T : \A n \in T : <<n, m>> \notin OpToRel(<, Nat)
  BY NatLessThanWellFounded, WFMin
<1>2. \A n \in T : ~(n < m)
  BY <1>1 DEF OpToRel
<1> QED
  BY <1>2

\* The names of the spool's files are a strict order, total where names are unique.
LEMMA NameOrder ==
  /\ \A s \in SegmentType : ~Before(s, s)
  /\ \A s, t, u \in SegmentType : Before(s, t) /\ Before(t, u) => Before(s, u)
  /\ \A s, t \in SegmentType : Before(s, t) \/ Before(t, s) \/ SameName(s, t)
<1>1. \A s \in SegmentType : s.stream \in {"mpi-events", "rank-summary"} /\ s.first \in Int /\ s.last \in Int
  BY DEF SegmentType, Stream
<1> QED
  BY <1>1 DEF Before, SameName

\* A finite set of segments with different names has a last one.
LEMMA LastSegment ==
  ASSUME NEW T \in SUBSET SegmentType, IsFiniteSet(T), T # {},
         \A s, t \in T : SameName(s, t) => s = t
  PROVE  \E m \in T : \A t \in T : t # m => Before(t, m)
<1> DEFINE above(a) == {b \in T : Before(a, b)}
           N == {Cardinality(above(a)) : a \in T}
<1>1. \A a \in T : IsFiniteSet(above(a)) /\ Cardinality(above(a)) \in Nat
  <2> SUFFICES ASSUME NEW a \in T PROVE IsFiniteSet(above(a)) /\ Cardinality(above(a)) \in Nat
    OBVIOUS
  <2>1. above(a) \in SUBSET T
    OBVIOUS
  <2> QED
    BY <2>1, FS_Subset, FS_CardinalityType
<1>2. N \in SUBSET Nat /\ N # {}
  BY <1>1
<1>3. PICK m \in N : \A n \in N : m <= n
  BY <1>2, LeastExists
<1>4. PICK a \in T : m = Cardinality(above(a))
  OBVIOUS
<1>5. ASSUME NEW c \in T, Before(a, c) PROVE FALSE
  <2>1. above(c) \in SUBSET above(a)
    BY <1>5, NameOrder
  <2>2. c \in above(a) /\ c \notin above(c)
    BY <1>5, NameOrder
  <2>3. /\ Cardinality(above(c)) <= Cardinality(above(a))
        /\ Cardinality(above(c)) # Cardinality(above(a))
    BY <1>1, <2>1, <2>2, FS_Subset
  <2>4. m <= Cardinality(above(c))
    BY <1>3
  <2> HIDE DEF above
  <2> QED
    BY <1>1, <1>4, <2>3, <2>4
<1>6. \A t \in T : t # a => Before(t, a)
  BY <1>5, NameOrder
<1> QED
  BY <1>6

InOrder(q, n) == \A i, j \in 1 .. n : i < j => Before(q[i], q[j])
Sortable(T) == \E q \in [1 .. Cardinality(T) -> T] : InOrder(q, Cardinality(T))

\* The smallest set that cannot be sorted would have a last segment; without it, it can.
LEMMA SortExists ==
  ASSUME NEW S \in SUBSET SegmentType, IsFiniteSet(S),
         \A s, t \in S : SameName(s, t) => s = t
  PROVE  Sortable(S)
<1> DEFINE Bad == {n \in Nat : \E T \in SUBSET S : Cardinality(T) = n /\ ~Sortable(T)}
<1>1. CASE Bad = {}
  <2>1. Cardinality(S) \in Nat
    BY FS_CardinalityType
  <2> QED
    BY <1>1, <2>1
<1>2. ASSUME Bad # {} PROVE FALSE
  <2>1. PICK n \in Bad : \A k \in Bad : n <= k
    BY <1>2, LeastExists
  <2>2. PICK T \in SUBSET S : Cardinality(T) = n /\ ~Sortable(T)
    OBVIOUS
  <2>3. n \in Nat /\ IsFiniteSet(T) /\ T \in SUBSET SegmentType
    BY FS_Subset
  <2>4. CASE T = {}
    <3>1. n = 0
      BY <2>2, <2>4, FS_EmptySet
    <3>2. [i \in 1 .. 0 |-> i] \in [1 .. 0 -> T]
      OBVIOUS
    <3>3. InOrder([i \in 1 .. 0 |-> i], 0)
      BY DEF InOrder
    <3> QED
      BY <2>2, <3>1, <3>2, <3>3 DEF Sortable
  <2>5. CASE T # {}
    <3>1. PICK m \in T : \A t \in T : t # m => Before(t, m)
      BY <2>3, <2>5, LastSegment
    <3> DEFINE U == T \ {m}
    <3>2. Cardinality(U) = n - 1 /\ U \in SUBSET S /\ n # 0
      BY <2>2, <2>3, <3>1, FS_RemoveElement, FS_EmptySet
    <3>3. n - 1 \in Nat /\ ~(n <= n - 1)
      BY <2>3, <3>2
    <3>4. Sortable(U)
      <4>1. n - 1 \notin Bad
        BY <2>1, <3>3
      <4> QED
        BY <3>2, <3>3, <4>1
    <3>5. PICK q \in [1 .. n - 1 -> U] : InOrder(q, n - 1)
      BY <3>2, <3>4 DEF Sortable
    <3> DEFINE p == [i \in 1 .. n |-> IF i < n THEN q[i] ELSE m]
    <3>6. \A i \in 1 .. n : /\ i < n => i \in 1 .. n - 1 /\ p[i] = q[i] /\ p[i] \in U
                            /\ ~(i < n) => p[i] = m
      BY <2>3, <3>5
    <3>7. p \in [1 .. n -> T]
      BY <2>3, <3>5, <3>6
    <3> HIDE DEF p, U
    <3>8. InOrder(p, n)
      <4> SUFFICES ASSUME NEW i \in 1 .. n, NEW j \in 1 .. n, i < j PROVE Before(p[i], p[j])
        BY DEF InOrder
      <4>1. i \in Int /\ j \in Int /\ i < n
        BY <2>3
      <4>2. CASE j < n
        BY <3>5, <3>6, <4>1, <4>2 DEF InOrder
      <4>3. CASE ~(j < n)
        <5>1. p[i] \in U /\ p[j] = m
          BY <3>6, <4>1, <4>3
        <5> QED
          BY <3>1, <5>1 DEF U
      <4> QED
        BY <4>2, <4>3
    <3> QED
      BY <2>2, <3>7, <3>8 DEF Sortable
  <2> QED
    BY <2>4, <2>5
<1> QED
  BY <1>1, <1>2

\* The queue of a pass: the segments of the spool, each once, in the order of names.
LEMMA SortedSpool ==
  ASSUME NEW S \in SUBSET SegmentType, IsFiniteSet(S),
         \A s, t \in S : SameName(s, t) => s = t
  PROVE  /\ Sorted(S) \in Seq(SegmentType)
         /\ {Sorted(S)[i] : i \in DOMAIN Sorted(S)} = S
         /\ \A i, j \in DOMAIN Sorted(S) : i < j => Before(Sorted(S)[i], Sorted(S)[j])
<1> DEFINE n == Cardinality(S)
           q == Sorted(S)
<1>1. n \in Nat
  BY FS_CardinalityType
<1>2. q \in [1 .. n -> S] /\ InOrder(q, n)
  BY SortExists DEF Sortable, InOrder, Sorted
<1> HIDE DEF q
<1>3. DOMAIN q = 1 .. n /\ q \in Seq(SegmentType)
  BY <1>1, <1>2
<1>4. q \in Injection(1 .. n, S)
  <2> SUFFICES ASSUME NEW i \in 1 .. n, NEW j \in 1 .. n, q[i] = q[j] PROVE i = j
    BY <1>2, <1>3 DEF Injection, IsInjective
  <2>1. q[i] \in SegmentType /\ ~Before(q[i], q[j]) /\ ~Before(q[j], q[i])
    BY <1>2, NameOrder
  <2>2. ~(i < j) /\ ~(j < i)
    BY <1>2, <2>1 DEF InOrder
  <2>3. i \in Int /\ j \in Int
    OBVIOUS
  <2> QED
    BY <2>2, <2>3
<1>5. Cardinality(1 .. n) = n
  BY <1>1, FS_Interval
<1>6. q \in Surjection(1 .. n, S)
  BY <1>4, <1>5, FS_Injection
<1>7. {q[i] : i \in 1 .. n} = S
  BY <1>2, <1>6 DEF Surjection
<1> QED
  BY <1>2, <1>3, <1>7 DEF q, InOrder

-----------------------------------------------------------------------------
(* Sealing. *)

\* TypeOK but for the queue's relation to the spool, which QueueOK has.
Shapes ==
    /\ capture \in [File -> Nat]
    /\ saved \in AgentState /\ memory \in AgentState
    /\ pending \subseteq SegmentType
    /\ receipts \subseteq SegmentType /\ accepted \subseteq SegmentType
    /\ pc \in {"down", "collect", "save", "drain", "receipt", "remove"}
    /\ index \in 1 .. Len(Files) + 1
    /\ queue \in Seq(SegmentType)
    /\ crashes \in Nat

LEMMA FilesFacts ==
  /\ Len(Files) \in Nat
  /\ \A k \in 1 .. Len(Files) : Files[k] \in File
  /\ \A j, k \in 1 .. Len(Files) : Files[j] = Files[k] => j = k
  /\ \A f \in File : StreamOf[f] \in Stream
<1>1. DOMAIN Files = 1 .. Len(Files) /\ Len(Files) \in Nat
  BY AgentAssumption
<1> QED
  BY <1>1, AgentAssumption DEF File

\* A file with nothing to read is one whose cursor has reached its end.
LEMMA UnreadEmpty ==
  ASSUME Shapes, memory = saved, NEW f \in File, Unread(f) = {}, CursorsTrail
  PROVE  ~(saved.cursor[f] < capture[f])
<1>1. saved.cursor[f] \in Nat /\ capture[f] \in Nat /\ MaxChunk \in Nat \ {0}
  BY AgentAssumption DEF Shapes, AgentState
<1>2. CASE StreamOf[f] = "mpi-events"
  <2>1. CASE capture[f] <= saved.cursor[f] + MaxChunk
    <3>1. saved.cursor[f] + 1 .. capture[f] = {}
      BY <1>2, <2>1 DEF Unread
    <3> QED
      BY <1>1, <3>1
  <2>2. CASE ~(capture[f] <= saved.cursor[f] + MaxChunk)
    <3>1. saved.cursor[f] + 1 .. saved.cursor[f] + MaxChunk = {}
      BY <1>2, <2>2 DEF Unread
    <3>2. saved.cursor[f] + 1 \in saved.cursor[f] + 1 .. saved.cursor[f] + MaxChunk
      BY <1>1
    <3> QED
      BY <3>1, <3>2
  <2> QED
    BY <2>1, <2>2
<1>3. CASE StreamOf[f] # "mpi-events"
  <2>1. {capture[f]} \ {saved.cursor[f]} = {}
    BY <1>3 DEF Unread
  <2> QED
    BY <1>1, <2>1
<1> QED
  BY <1>2, <1>3

\* What is sealed: the records from the cursor to the cursor after, under as many
\* sequence numbers from the next one on.
LEMMA SealedFacts ==
  ASSUME Shapes, memory = saved, NEW f \in File, Unread(f) # {}, CursorsTrail
  PROVE  LET s == Sealed(f)
             c == CursorAfter(f)
         IN  /\ s \in SegmentType /\ c \in Nat
             /\ s.stream = StreamOf[f] /\ s.first = saved.next[StreamOf[f]] /\ s.first <= s.last
             /\ saved.cursor[f] < c /\ c <= capture[f]
             /\ s.records = {<<f, n>> : n \in IF StreamOf[f] = "mpi-events"
                                                THEN saved.cursor[f] + 1 .. c ELSE {c}}
<1> DEFINE from == saved.cursor[f]
           c == CursorAfter(f)
           first == saved.next[StreamOf[f]]
           R == IF StreamOf[f] = "mpi-events" THEN from + 1 .. c ELSE {c}
<1>1. from \in Nat /\ capture[f] \in Nat /\ MaxChunk \in Nat \ {0} /\ from <= capture[f]
      /\ first \in Nat /\ StreamOf[f] \in Stream
  BY AgentAssumption, FilesFacts DEF Shapes, AgentState, CursorsTrail
<1>2. /\ Unread(f) = R /\ c \in Nat /\ from < c /\ c <= capture[f]
      /\ Cardinality(Unread(f)) \in Nat /\ Cardinality(Unread(f)) >= 1
  <2>1. CASE StreamOf[f] = "mpi-events"
    <3> DEFINE to == IF capture[f] <= from + MaxChunk THEN capture[f] ELSE from + MaxChunk
    <3>0. to \in Nat /\ to <= capture[f]
      BY <1>1
    <3>1. Unread(f) = from + 1 .. to /\ to \in Nat /\ to <= capture[f]
      BY <2>1, <3>0 DEF Unread
    <3> HIDE DEF to
    <3>2. from + 1 <= to
      BY <1>1, <3>1
    <3>3. Cardinality(from + 1 .. to) = to - (from + 1) + 1
      <4>1. from + 1 \in Int /\ to \in Int /\ ~(from + 1 > to)
        BY <1>1, <3>1, <3>2
      <4> HIDE DEF from
      <4> QED
        BY <4>1, FS_Interval
    <3>4. Cardinality(Unread(f)) = to - from /\ c = to
      BY <1>1, <2>1, <3>1, <3>3 DEF CursorAfter
    <3> QED
      BY <1>1, <2>1, <3>1, <3>2, <3>4
  <2>2. CASE StreamOf[f] # "mpi-events"
    <3>1. Unread(f) = {capture[f]} /\ capture[f] # from /\ c = capture[f]
      BY <2>2 DEF Unread, CursorAfter
    <3>2. Cardinality({capture[f]}) = 1
      BY FS_Singleton
    <3> QED
      BY <1>1, <2>2, <3>1, <3>2
  <2> QED
    BY <2>1, <2>2
<1> HIDE DEF c
<1>3. \A n \in R : n \in Nat
  BY <1>1, <1>2
<1>4. {<<f, n>> : n \in R} \in SUBSET (File \X Nat)
  BY <1>3
<1>5. LET last == first + Cardinality(Unread(f)) - 1
      IN  last \in Nat /\ first <= last
  BY <1>1, <1>2
<1>6. Sealed(f) = [stream |-> StreamOf[f], first |-> first,
                   last |-> first + Cardinality(Unread(f)) - 1,
                   records |-> {<<f, n>> : n \in R}]
  BY <1>2 DEF Sealed
<1> HIDE DEF R, from, first
<1>7. Sealed(f) \in SegmentType
  BY <1>1, <1>4, <1>5, <1>6 DEF SegmentType
<1> QED
  BY <1>2, <1>5, <1>6, <1>7 DEF R, from, first, c

\* The state in memory once a segment of file f is sealed.
LEMMA AdvancedState ==
  ASSUME Shapes, memory = saved, NEW f \in File, Unread(f) # {}, CursorsTrail
  PROVE  /\ Advanced(f) = [next |-> [saved.next EXCEPT ![StreamOf[f]] = Sealed(f).last + 1],
                           cursor |-> [saved.cursor EXCEPT ![f] = CursorAfter(f)]]
         /\ Advanced(f) \in AgentState
<1> DEFINE x == StreamOf[f]
           y == Sealed(f).last + 1
           z == CursorAfter(f)
           m == [saved EXCEPT !.next[x] = y, !.cursor[f] = z]
<1>1. y \in Nat /\ z \in Nat /\ x \in Stream
  <2>1. Sealed(f) \in SegmentType /\ CursorAfter(f) \in Nat
    BY SealedFacts
  <2> QED
    BY <2>1, FilesFacts DEF SegmentType
<1>2. saved \in AgentState /\ Advanced(f) = m
  BY DEF Shapes, Advanced
<1> HIDE DEF x, y, z
<1>3. m.next = [saved.next EXCEPT ![x] = y] /\ m.cursor = [saved.cursor EXCEPT ![f] = z]
  BY <1>1, <1>2 DEF AgentState
<1>4. m \in AgentState
  BY <1>1, <1>2 DEF AgentState
<1> HIDE DEF m
<1>5. m = [next |-> m.next, cursor |-> m.cursor]
  BY <1>4 DEF AgentState
<1> QED
  BY <1>2, <1>3, <1>4, <1>5 DEF x, y, z

-----------------------------------------------------------------------------
(* Steps that seal nothing and save nothing. *)

\* Segments that move from the spool to the API, and captures that grow, disturb
\* nothing that is said of cursors, sequences and records.
LEMMA SealedsKept ==
  ASSUME Shapes, AgentInv, Sealeds' = Sealeds, UNCHANGED saved, Shapes',
         \A f \in File : capture'[f] >= capture[f]
  PROVE  CursorsTrail' /\ Chained' /\ RepeatsForked' /\ NothingSkipped'
<1>1. CursorsTrail'
  <2> SUFFICES ASSUME NEW f \in File PROVE saved.cursor[f] <= capture'[f]
    BY DEF CursorsTrail
  <2>1. saved.cursor[f] \in Nat /\ capture[f] \in Nat /\ capture'[f] \in Nat
    BY DEF Shapes, AgentState
  <2> QED
    BY <2>1 DEF AgentInv, CursorsTrail
<1>2. \A x, c : Fork(x, c)' <=> Fork(x, c)
  BY DEF Fork
<1>3. Chained'
  BY <1>2 DEF AgentInv, Chained
<1>4. RepeatsForked'
  BY <1>2 DEF AgentInv, RepeatsForked
<1>5. InHand' = InHand
  BY DEF InHand, Sealeds
<1>6. NothingSkipped'
  BY <1>5 DEF AgentInv, NothingSkipped
<1> QED
  BY <1>1, <1>3, <1>4, <1>6

\* What is said of the spool and of the accepted segments.
LEMMA SpoolKept ==
  ASSUME AgentInv, UNCHANGED <<saved, pending, accepted>>
  PROVE  Sealeds' = Sealeds /\ SpoolOK' /\ AcceptedOK'
<1>1. Sealeds' = Sealeds
  BY DEF Sealeds
<1>2. SpoolOK'
  BY <1>1 DEF AgentInv, SpoolOK
<1>3. \A x, c : Fork(x, c)' <=> Fork(x, c)
  BY <1>1 DEF Fork
<1>4. AcceptedOK'
  BY <1>3 DEF AgentInv, AcceptedOK
<1> QED
  BY <1>1, <1>2, <1>4

\* A program writes to a capture file.
LEMMA CaptureStep ==
  ASSUME Shapes, AgentInv, NEW f \in File, Capture(f)
  PROVE  Shapes' /\ AgentInv'
<1> USE DEF Capture
<1>1. capture' \in [File -> Nat] /\ \A g \in File : capture'[g] >= capture[g]
  BY DEF Shapes
<1>2. Shapes'
  BY <1>1 DEF Shapes
<1>3. SpoolOK' /\ AcceptedOK' /\ CursorsTrail' /\ Chained' /\ RepeatsForked' /\ NothingSkipped'
  BY <1>1, <1>2, SpoolKept, SealedsKept
<1>4. \A g \in File : saved.cursor[g] \in Nat /\ capture[g] \in Nat /\ capture'[g] \in Nat
  BY <1>2 DEF Shapes, AgentState
<1>5. Draining' <=> Draining
  BY DEF Draining
<1>6. QueueOK'
  BY <1>5 DEF AgentInv, QueueOK
<1>7. PhaseOK'
  <2>1. Here' = Here
    BY DEF Here
  <2>2. ASSUME Sealing PROVE Sealing'
    <3>1. index <= Len(Files) /\ index \in 1 .. Len(Files) + 1 /\ Len(Files) \in Nat
      BY <2>2, FilesFacts DEF Sealing, Shapes
    <3>2. Here \in File
      BY <3>1, FilesFacts DEF Here
    <3>3. memory.cursor[Here] \in Nat
      BY <3>2 DEF Shapes, AgentState
    <3>4. memory.cursor[Here] <= capture'[Here]
      BY <1>1, <1>4, <2>2, <3>2, <3>3 DEF Sealing
    <3>5. \A s : Unsaved(s)' <=> Unsaved(s)
      BY <2>1 DEF Unsaved
    <3> QED
      BY <2>1, <2>2, <3>4, <3>5 DEF Sealing
  <2> QED
    BY <1>5, <2>2 DEF AgentInv, PhaseOK
<1>8. OrphansWait'
  <2> SUFFICES ASSUME NEW u \in pending, u.first = saved.next[u.stream]
               PROVE  /\ ~Draining
                      /\ \E k \in index .. Len(Files) : /\ StreamOf[Files[k]] = u.stream
                                                        /\ saved.cursor[Files[k]] < capture'[Files[k]]
    BY <1>5 DEF OrphansWait
  <2>1. PICK k \in index .. Len(Files) : /\ StreamOf[Files[k]] = u.stream
                                         /\ saved.cursor[Files[k]] < capture[Files[k]]
    BY DEF AgentInv, OrphansWait
  <2>2. Files[k] \in File
    <3>1. k \in 1 .. Len(Files)
      BY FilesFacts DEF Shapes
    <3> QED
      BY <3>1, FilesFacts
  <2>3. saved.cursor[Files[k]] < capture'[Files[k]]
    BY <1>1, <1>4, <2>1, <2>2
  <2> QED
    BY <2>1, <2>3 DEF AgentInv, OrphansWait
<1> QED
  BY <1>2, <1>3, <1>6, <1>7, <1>8 DEF AgentInv

\* The process starts or ends, skips a file, lists the spool, writes a receipt or ends
\* its pass.
LEMMA IdleStep ==
  ASSUME Shapes, AgentInv,
         \/ Start \/ CollectSkip \/ CollectRefuse \/ DrainBegin \/ DrainReceipt \/ DrainEnd
         \/ Crash \/ UNCHANGED vars
  PROVE  Shapes' /\ AgentInv'
<1>0. UNCHANGED <<capture, saved, pending, accepted>>
  BY DEF Start, CollectSkip, CollectRefuse, DrainBegin, DrainReceipt, DrainEnd, Crash, vars
<1>f. Len(Files) \in Nat /\ index \in 1 .. Len(Files) + 1
  BY FilesFacts DEF Shapes
<1>s. /\ Sorted(pending) \in Seq(SegmentType)
      /\ {Sorted(pending)[i] : i \in DOMAIN Sorted(pending)} = pending
      /\ \A i, j \in DOMAIN Sorted(pending) :
             i < j => Before(Sorted(pending)[i], Sorted(pending)[j])
  BY SortedSpool DEF Shapes, AgentInv, SpoolOK
<1>h. pc \in {"receipt", "remove"} => queue # <<>> /\ Head(queue) \in SegmentType
  BY DEF AgentInv, PhaseOK, Shapes
<1>1. Shapes'
  <2>1. FreshState \in AgentState
    BY DEF FreshState, AgentState
  <2>2. CASE Start
    BY <1>f, <2>2 DEF Start, Shapes
  <2>3. CASE CollectSkip
    <3>1. index' \in 1 .. Len(Files) + 1
      BY <1>f, <2>3 DEF CollectSkip, Collecting
    <3> QED
      BY <2>3, <3>1 DEF CollectSkip, Shapes
  <2>4. CASE CollectRefuse
    BY <1>f, <2>1, <2>4 DEF CollectRefuse, Exit, Shapes
  <2>5. CASE DrainBegin
    BY <1>s, <2>5 DEF DrainBegin, Shapes
  <2>6. CASE DrainReceipt
    BY <1>h, <2>6 DEF DrainReceipt, Shapes
  <2>7. CASE DrainEnd
    BY <1>f, <2>7 DEF DrainEnd, EndPass, Shapes
  <2>8. CASE Crash
    BY <1>f, <2>1, <2>8 DEF Crash, Exit, Shapes
  <2>9. CASE UNCHANGED vars
    BY <2>9 DEF vars, Shapes
  <2> QED
    BY <2>2, <2>3, <2>4, <2>5, <2>6, <2>7, <2>8, <2>9
<1>2. SpoolOK' /\ AcceptedOK' /\ CursorsTrail' /\ Chained' /\ RepeatsForked' /\ NothingSkipped'
  <2>1. \A f \in File : capture'[f] >= capture[f]
    BY <1>0 DEF Shapes
  <2> QED
    BY <1>0, <1>1, <2>1, SpoolKept, SealedsKept
<1>3. QueueOK'
  <2>1. CASE DrainBegin
    BY <1>0, <1>s, <2>1 DEF DrainBegin, QueueOK
  <2>2. CASE DrainReceipt
    BY <1>0, <2>2 DEF DrainReceipt, AgentInv, QueueOK, Draining
  <2>3. CASE Start \/ CollectSkip \/ CollectRefuse \/ DrainEnd \/ Crash
    BY <2>3 DEF Start, CollectSkip, Collecting, CollectRefuse, DrainEnd, EndPass, Crash, Exit,
       QueueOK, Draining
  <2>4. CASE UNCHANGED vars
    BY <2>4 DEF vars, AgentInv, QueueOK, Draining
  <2> QED
    BY <2>1, <2>2, <2>3, <2>4
<1>4. PhaseOK'
  <2>1. CASE Start
    BY <2>1 DEF Start, AgentInv, PhaseOK, Draining
  <2>2. CASE CollectSkip
    BY <2>2 DEF CollectSkip, Collecting, AgentInv, PhaseOK, Draining
  <2>3. CASE CollectRefuse \/ Crash
    BY <2>3 DEF CollectRefuse, Crash, Exit, PhaseOK, Draining
  <2>4. CASE DrainBegin
    BY <2>4 DEF DrainBegin, AgentInv, PhaseOK, Draining
  <2>5. CASE DrainReceipt
    BY <2>5 DEF DrainReceipt, AgentInv, PhaseOK, Draining
  <2>6. CASE DrainEnd
    BY <2>6 DEF DrainEnd, EndPass, AgentInv, PhaseOK, Draining
  <2>7. CASE UNCHANGED vars
    BY <2>7 DEF vars, AgentInv, PhaseOK, Draining, Sealing, Unsaved, Here
  <2> QED
    BY <2>1, <2>2, <2>3, <2>4, <2>5, <2>6, <2>7
<1>5. OrphansWait'
  <2> SUFFICES ASSUME NEW u \in pending, u.first = saved.next[u.stream]
               PROVE  /\ ~Draining'
                      /\ \E k \in index' .. Len(Files) : /\ StreamOf[Files[k]] = u.stream
                                                         /\ saved.cursor[Files[k]] < capture[Files[k]]
    BY <1>0 DEF OrphansWait
  <2>1. ~Draining
    BY DEF AgentInv, OrphansWait
  <2>2. PICK k \in index .. Len(Files) : /\ StreamOf[Files[k]] = u.stream
                                         /\ saved.cursor[Files[k]] < capture[Files[k]]
    BY DEF AgentInv, OrphansWait
  <2>3. k \in Int /\ index <= k /\ k <= Len(Files)
    BY <1>f
  <2>4. ~DrainBegin /\ ~DrainReceipt /\ ~DrainEnd
    BY <1>f, <2>1, <2>3 DEF DrainBegin, DrainReceipt, DrainEnd, Draining
  <2>5. CASE Start \/ CollectRefuse \/ Crash
    <3>1. index' = 1 /\ ~Draining'
      BY <2>5 DEF Start, CollectRefuse, Crash, Exit, Draining
    <3>2. k \in index' .. Len(Files)
      BY <1>f, <2>3, <3>1
    <3> QED
      BY <2>2, <3>1, <3>2
  <2>6. CASE CollectSkip
    <3>1. /\ memory = saved /\ Unread(Here) = {} /\ index' = index + 1 /\ ~Draining'
          /\ index <= Len(Files)
      BY <2>6 DEF CollectSkip, Collecting, AgentInv, PhaseOK, Draining
    <3>2. Here \in File
      BY <1>f, <3>1, FilesFacts DEF Here
    <3>3. ~(saved.cursor[Here] < capture[Here])
      BY <3>1, <3>2, UnreadEmpty DEF AgentInv
    <3>4. k # index
      BY <2>2, <3>3 DEF Here
    <3>5. k \in index' .. Len(Files)
      BY <1>f, <2>3, <3>1, <3>4
    <3> QED
      BY <2>2, <3>1, <3>5
  <2>7. CASE UNCHANGED vars
    <3>1. index' = index /\ ~Draining'
      BY <2>1, <2>7 DEF vars, Draining
    <3> QED
      BY <2>2, <3>1
  <2> QED
    BY <2>4, <2>5, <2>6, <2>7
<1> QED
  BY <1>1, <1>2, <1>3, <1>4, <1>5 DEF AgentInv

-----------------------------------------------------------------------------
(* Sealing and saving. *)

LEMMA SealStep == ASSUME Shapes, AgentInv, CollectSeal PROVE Shapes' /\ AgentInv'
<1>f. PICK f : f = Here
  OBVIOUS
<1>s. PICK s : s = Sealed(f)
  OBVIOUS
<1>c. PICK c : c = CursorAfter(f)
  OBVIOUS
<1>0. /\ pc = "collect" /\ index <= Len(Files) /\ Unread(f) # {} /\ memory = saved
      /\ pending' = pending \cup {s} /\ memory' = Advanced(f) /\ pc' = "save"
      /\ UNCHANGED <<capture, saved, receipts, accepted, index, queue, crashes>>
      /\ CursorsTrail /\ queue = <<>>
  BY <1>f, <1>s DEF CollectSeal, Collecting, AgentInv, PhaseOK, Draining
<1>1. f \in File /\ index \in 1 .. Len(Files) /\ Files[index] = f
  BY <1>0, <1>f, FilesFacts DEF Here, Shapes
<1>2. /\ s \in SegmentType /\ c \in Nat
      /\ s.stream = StreamOf[f] /\ s.first = saved.next[StreamOf[f]] /\ s.first <= s.last
      /\ saved.cursor[f] < c /\ c <= capture[f]
      /\ s.records = {<<f, n>> : n \in IF StreamOf[f] = "mpi-events"
                                         THEN saved.cursor[f] + 1 .. c ELSE {c}}
  BY <1>0, <1>1, <1>s, <1>c, SealedFacts
<1>3. /\ memory' = [next |-> [saved.next EXCEPT ![StreamOf[f]] = s.last + 1],
                    cursor |-> [saved.cursor EXCEPT ![f] = c]]
      /\ memory' \in AgentState
  BY <1>0, <1>1, <1>s, <1>c, AdvancedState
<1>4. pending' = pending \/ \A t \in pending : ~SameName(s, t)
  BY <1>f, <1>s DEF CollectSeal
<1>5. Here' = f
  BY <1>0, <1>f DEF Here
<1>6. saved.cursor \in [File -> Nat] /\ saved.next \in [Stream -> Nat] /\ s.stream \in Stream
      /\ s.first \in Nat
  BY <1>2 DEF Shapes, AgentState, SegmentType
<1>7. Shapes'
  BY <1>0, <1>2, <1>3 DEF Shapes
<1>8. Sealeds' = Sealeds \cup {s} /\ Sealeds \subseteq SegmentType
  BY <1>0 DEF Sealeds, Shapes
<1>9. \A x, k : Fork(x, k) => Fork(x, k)'
  BY <1>8 DEF Fork
<1>10. PhaseOK' /\ QueueOK'
  <2>1. memory'.cursor[f] = c
    BY <1>1, <1>3, <1>6
  <2>2. s \in pending'
    BY <1>0
  <2>3. Unsaved(s)'
    BY <1>0, <1>2, <1>3, <1>5, <2>1 DEF Unsaved
  <2>4. Sealing'
    BY <1>0, <1>2, <1>5, <2>1, <2>2, <2>3 DEF Sealing
  <2> QED
    BY <1>0, <2>4 DEF PhaseOK, QueueOK, Draining
<1>11. SpoolOK'
  <2>1. IsFiniteSet(pending')
    BY <1>0, FS_AddElement DEF AgentInv, SpoolOK
  <2>2. \A t \in pending : SameName(t, s) => SameName(s, t)
    BY DEF SameName
  <2>3. \A u, v \in pending' : SameName(u, v) => u = v
    BY <1>0, <1>4, <2>2 DEF AgentInv, SpoolOK
  <2>4. \A r \in s.records : StreamOf[r[1]] = s.stream
    BY <1>2
  <2> QED
    BY <1>2, <1>8, <2>1, <2>3, <2>4 DEF AgentInv, SpoolOK
<1>12. CursorsTrail'
  BY <1>0 DEF CursorsTrail
<1>13. Chained'
  <2> SUFFICES ASSUME NEW u \in Sealeds \cup {s}
               PROVE  /\ u.first <= saved.next[u.stream]
                      /\ \/ u.first = saved.next[u.stream]
                         \/ \A r \in u.records : r[2] <= saved.cursor[r[1]]
                         \/ Fork(u.stream, u.first)'
    BY <1>0, <1>8 DEF Chained
  <2>1. CASE u = s
    BY <1>2, <1>6, <2>1
  <2>2. CASE u \in Sealeds
    BY <1>9, <2>2 DEF AgentInv, Chained
  <2> QED
    BY <2>1, <2>2
<1>14. OrphansWait'
  <2> SUFFICES ASSUME NEW u \in pending \cup {s}, u.first = saved.next[u.stream]
               PROVE  \E k \in index .. Len(Files) : /\ StreamOf[Files[k]] = u.stream
                                                     /\ saved.cursor[Files[k]] < capture[Files[k]]
    BY <1>0 DEF OrphansWait, Draining
  <2>1. CASE u \in pending
    BY <2>1 DEF AgentInv, OrphansWait
  <2>2. CASE u = s
    <3>1. index \in index .. Len(Files)
      BY <1>1
    <3>2. saved.cursor[f] \in Nat /\ capture[f] \in Nat
      BY <1>1, <1>6 DEF Shapes
    <3>3. saved.cursor[f] < capture[f]
      BY <1>2, <3>2
    <3> QED
      BY <1>1, <1>2, <2>2, <3>1, <3>3
  <2> QED
    BY <2>1, <2>2
<1>15. ASSUME NEW u \in Sealeds, u # s, u.records \cap s.records # {}
       PROVE  /\ u.stream = s.stream
              /\ \E k \in Nat : k <= u.first /\ k <= s.first /\ Fork(s.stream, k)'
  <2>1. PICK r \in u.records : r \in s.records
    BY <1>15
  <2>2. r[1] = f /\ r[2] \in Nat /\ ~(r[2] <= saved.cursor[f])
    <3>1. PICK n \in IF StreamOf[f] = "mpi-events" THEN saved.cursor[f] + 1 .. c ELSE {c} : r = <<f, n>>
      BY <1>2, <2>1
    <3>2. saved.cursor[f] \in Nat
      BY <1>1, <1>6
    <3>3. n \in Nat /\ ~(n <= saved.cursor[f])
      BY <1>2, <3>1, <3>2
    <3> QED
      BY <3>1, <3>3
  <2>3. u.stream = s.stream
    BY <1>2, <2>1, <2>2 DEF AgentInv, SpoolOK
  <2>4. u.first \in Nat /\ u.first <= s.first
    BY <1>2, <1>8, <2>3 DEF AgentInv, Chained, SegmentType
  <2>5. CASE u.first = s.first
    <3>1. Fork(s.stream, s.first)'
      BY <1>8, <1>15, <2>3, <2>5 DEF Fork
    <3> QED
      BY <1>6, <2>3, <2>5, <3>1
  <2>6. CASE u.first # s.first
    <3>1. Fork(u.stream, u.first)
      BY <1>2, <2>1, <2>2, <2>3, <2>6 DEF AgentInv, Chained
    <3> QED
      BY <1>9, <2>3, <2>4, <3>1
  <2> QED
    BY <2>3, <2>5, <2>6
<1>16. RepeatsForked'
  <2> SUFFICES ASSUME NEW u \in Sealeds \cup {s}, NEW v \in Sealeds \cup {s}, u # v,
                      u.records \cap v.records # {}
               PROVE  /\ u.stream = v.stream
                      /\ \E k \in Nat : k <= u.first /\ k <= v.first /\ Fork(u.stream, k)'
    BY <1>8 DEF RepeatsForked
  <2>1. CASE u \in Sealeds /\ v \in Sealeds
    BY <1>9, <2>1 DEF AgentInv, RepeatsForked
  <2>2. CASE v = s
    BY <1>15, <2>2
  <2>3. CASE u = s
    <3>1. v.records \cap s.records # {}
      BY <2>3
    <3> QED
      BY <1>15, <2>3, <3>1
  <2> QED
    BY <2>1, <2>2, <2>3
<1>17. AcceptedOK'
  <2>1. ASSUME NEW t \in accepted, NEW k \in Nat, Fork(t.stream, k)' PROVE t.first <= k
    <3>1. t.first < saved.next[t.stream] /\ t.first \in Nat
      BY DEF AgentInv, AcceptedOK, Shapes, SegmentType
    <3>2. Fork(t.stream, k) \/ (t.stream = s.stream /\ k = s.first)
      BY <1>8, <2>1 DEF Fork
    <3>3. CASE Fork(t.stream, k)
      BY <3>3 DEF AgentInv, AcceptedOK
    <3>4. CASE t.stream = s.stream /\ k = s.first
      BY <1>2, <1>6, <3>1, <3>4
    <3> QED
      BY <3>2, <3>3, <3>4
  <2> QED
    BY <1>0, <2>1 DEF AgentInv, AcceptedOK
<1>18. NothingSkipped'
  <2>1. InHand \subseteq InHand'
    BY <1>0 DEF InHand
  <2> QED
    BY <1>0, <2>1 DEF AgentInv, NothingSkipped
<1> QED
  BY <1>7, <1>10, <1>11, <1>12, <1>13, <1>14, <1>16, <1>17, <1>18 DEF AgentInv

LEMMA SaveStep == ASSUME Shapes, AgentInv, CollectSave PROVE Shapes' /\ AgentInv'
<1> DEFINE f == Here
           c == memory.cursor[f]
<1>0. /\ pc = "save" /\ saved' = memory /\ pc' = "collect" /\ index' = index + 1
      /\ UNCHANGED <<capture, pending, receipts, accepted, memory, queue, crashes>>
      /\ index <= Len(Files) /\ saved.cursor[f] < c /\ c <= capture[f] /\ queue = <<>>
  BY DEF CollectSave, AgentInv, PhaseOK, Sealing, Draining
<1>1. f \in File /\ index \in 1 .. Len(Files) /\ Files[index] = f /\ Len(Files) \in Nat
  BY <1>0, FilesFacts DEF Here, Shapes
<1>2. PICK s \in pending : Unsaved(s)
  BY <1>0 DEF AgentInv, PhaseOK, Sealing
<1>3. /\ s.stream = StreamOf[f] /\ s.first = saved.next[s.stream]
      /\ memory.next = [saved.next EXCEPT ![s.stream] = s.last + 1]
      /\ memory.cursor = [saved.cursor EXCEPT ![f] = c]
      /\ s.records = {<<f, n>> : n \in IF StreamOf[f] = "mpi-events"
                                         THEN saved.cursor[f] + 1 .. c ELSE {c}}
  <2>1. memory = [next |-> [saved.next EXCEPT ![s.stream] = s.last + 1],
                  cursor |-> [saved.cursor EXCEPT ![f] = c]]
    BY <1>2 DEF Unsaved
  <2> HIDE DEF c
  <2>2. /\ memory.next = [saved.next EXCEPT ![s.stream] = s.last + 1]
        /\ memory.cursor = [saved.cursor EXCEPT ![f] = c]
    BY <2>1
  <2> QED
    BY <1>2, <2>2 DEF Unsaved, c
<1>4. /\ s \in SegmentType /\ s \in Sealeds /\ s.stream \in Stream /\ s.first \in Nat
      /\ s.last \in Nat /\ s.first <= s.last
  BY DEF Shapes, SegmentType, Sealeds, AgentInv, SpoolOK
<1>5. /\ saved.next \in [Stream -> Nat] /\ memory.next \in [Stream -> Nat]
      /\ saved.cursor \in [File -> Nat] /\ memory.cursor \in [File -> Nat]
      /\ capture \in [File -> Nat]
  BY DEF Shapes, AgentState
<1> HIDE DEF f, c
<1>6. /\ \A x \in Stream : x # s.stream => memory.next[x] = saved.next[x]
      /\ memory.next[s.stream] = s.last + 1
      /\ \A x \in Stream : saved.next[x] <= memory.next[x]
      /\ \A g \in File : g # f => memory.cursor[g] = saved.cursor[g]
      /\ memory.cursor[f] = c /\ c \in Nat
      /\ \A g \in File : saved.cursor[g] <= memory.cursor[g]
  <2>1. /\ \A x \in Stream : x # s.stream => memory.next[x] = saved.next[x]
        /\ memory.next[s.stream] = s.last + 1
    BY <1>3, <1>4, <1>5
  <2>2. \A g \in File : g # f => memory.cursor[g] = saved.cursor[g]
    BY <1>3, <1>5
  <2>3. memory.cursor[f] = c /\ c \in Nat
    BY <1>1, <1>5 DEF c
  <2>4. \A x \in Stream : saved.next[x] \in Nat /\ memory.next[x] \in Nat
    BY <1>5
  <2>5. \A x \in Stream : saved.next[x] <= memory.next[x]
    BY <1>3, <1>4, <2>1, <2>4
  <2>6. \A g \in File : saved.cursor[g] \in Nat
    BY <1>5
  <2>7. \A g \in File : saved.cursor[g] <= memory.cursor[g]
    BY <1>0, <2>2, <2>3, <2>6
  <2> QED
    BY <2>1, <2>2, <2>3, <2>5, <2>7
<1>7. Shapes'
  <2>1. index' \in 1 .. Len(Files) + 1
    BY <1>0, <1>1
  <2> QED
    BY <1>0, <2>1 DEF Shapes
<1>8. Sealeds' = Sealeds /\ Sealeds \subseteq SegmentType
  BY <1>0 DEF Sealeds, Shapes
<1>9. \A x, k : Fork(x, k)' <=> Fork(x, k)
  BY <1>8 DEF Fork
<1>10. PhaseOK' /\ QueueOK'
  BY <1>0 DEF PhaseOK, QueueOK, Draining
<1>11. SpoolOK'
  BY <1>0, <1>8 DEF AgentInv, SpoolOK
<1>12. CursorsTrail'
  <2> SUFFICES ASSUME NEW g \in File PROVE memory.cursor[g] <= capture[g]
    BY <1>0 DEF CursorsTrail
  <2> QED
    BY <1>0, <1>6 DEF AgentInv, CursorsTrail
<1>13. Chained'
  <2> SUFFICES ASSUME NEW u \in Sealeds
               PROVE  /\ u.first <= memory.next[u.stream]
                      /\ \/ u.first = memory.next[u.stream]
                         \/ \A r \in u.records : r[2] <= memory.cursor[r[1]]
                         \/ Fork(u.stream, u.first)
    BY <1>0, <1>8, <1>9 DEF Chained
  <2>1. u.stream \in Stream /\ u.first \in Nat /\ u.records \subseteq File \X Nat
    BY <1>8 DEF SegmentType
  <2>2. u.first <= saved.next[u.stream]
    BY DEF AgentInv, Chained
  <2>3. u.first <= memory.next[u.stream]
    BY <1>5, <1>6, <2>1, <2>2
  <2>4. CASE \A r \in u.records : r[2] <= saved.cursor[r[1]]
    <3>1. ASSUME NEW r \in u.records PROVE r[2] <= memory.cursor[r[1]]
      <4>1. r[1] \in File /\ r[2] \in Nat
        BY <2>1
      <4>2. saved.cursor[r[1]] \in Nat /\ memory.cursor[r[1]] \in Nat
        BY <1>5, <4>1
      <4> QED
        BY <1>6, <2>4, <4>1, <4>2
    <3> QED
      BY <2>3, <3>1
  <2>5. CASE Fork(u.stream, u.first)
    BY <2>3, <2>5
  <2>6. CASE u.first = saved.next[u.stream]
    <3>1. CASE u.stream # s.stream
      BY <1>6, <2>1, <2>3, <2>6, <3>1
    <3>2. CASE u = s
      <4>1. ASSUME NEW r \in s.records PROVE r[2] <= memory.cursor[r[1]]
        <5>1. PICK n \in IF StreamOf[f] = "mpi-events" THEN saved.cursor[f] + 1 .. c ELSE {c} :
                r = <<f, n>>
          BY <1>3, <4>1
        <5>2. saved.cursor[f] \in Nat
          BY <1>1, <1>5
        <5>3. n <= c
          BY <1>6, <5>1, <5>2
        <5> QED
          BY <1>6, <5>1, <5>3
      <4> QED
        BY <2>3, <3>2, <4>1
    <3>3. CASE u # s /\ u.stream = s.stream
      <4>1. Fork(u.stream, u.first)
        BY <1>3, <1>4, <2>6, <3>3 DEF Fork
      <4> QED
        BY <2>3, <4>1
    <3> QED
      BY <3>1, <3>2, <3>3
  <2> QED
    BY <2>4, <2>5, <2>6 DEF AgentInv, Chained
<1>14. OrphansWait'
  <2> SUFFICES ASSUME NEW u \in pending, u.first = memory.next[u.stream]
               PROVE  \E k \in index + 1 .. Len(Files) : /\ StreamOf[Files[k]] = u.stream
                                                         /\ memory.cursor[Files[k]] < capture[Files[k]]
    BY <1>0 DEF OrphansWait, Draining
  <2>1. u.stream \in Stream /\ u.first \in Nat /\ u.first <= saved.next[u.stream]
    BY DEF AgentInv, Chained, Shapes, SegmentType, Sealeds
  <2>2. u.stream # s.stream
    BY <1>3, <1>4, <1>6, <2>1
  <2>3. u.first = saved.next[u.stream]
    BY <1>6, <2>1, <2>2
  <2>4. PICK k \in index .. Len(Files) : /\ StreamOf[Files[k]] = u.stream
                                         /\ saved.cursor[Files[k]] < capture[Files[k]]
    BY <2>3 DEF AgentInv, OrphansWait
  <2>5. k # index
    BY <1>1, <1>3, <2>2, <2>4
  <2>6. k \in index + 1 .. Len(Files) /\ k \in 1 .. Len(Files)
    BY <1>1, <2>5
  <2>7. Files[k] \in File /\ Files[k] # f
    BY <1>1, <2>5, <2>6, FilesFacts
  <2> QED
    BY <1>6, <2>4, <2>6, <2>7
<1>15. RepeatsForked'
  BY <1>8, <1>9 DEF AgentInv, RepeatsForked
<1>16. AcceptedOK'
  <2>1. ASSUME NEW t \in accepted PROVE t.first < memory.next[t.stream]
    <3>1. t.stream \in Stream /\ t.first \in Nat /\ t.first < saved.next[t.stream]
      BY DEF AgentInv, AcceptedOK, Shapes, SegmentType
    <3>2. saved.next[t.stream] \in Nat /\ memory.next[t.stream] \in Nat
      BY <1>5, <3>1
    <3> QED
      BY <1>6, <3>1, <3>2
  <2> QED
    BY <1>0, <1>9, <2>1 DEF AgentInv, AcceptedOK
<1>17. NothingSkipped'
  <2>1. InHand' = InHand /\ s.records \subseteq InHand
    BY <1>0 DEF InHand
  <2>2. ASSUME NEW g \in File
        PROVE  IF StreamOf[g] = "mpi-events" THEN \A n \in 1 .. memory.cursor[g] : <<g, n>> \in InHand
               ELSE memory.cursor[g] > 0 => <<g, memory.cursor[g]>> \in InHand
    <3>1. CASE g # f
      BY <1>6, <3>1 DEF AgentInv, NothingSkipped
    <3>2. CASE g = f /\ StreamOf[f] = "mpi-events"
      <4> SUFFICES ASSUME NEW n \in 1 .. c PROVE <<f, n>> \in InHand
        BY <1>6, <3>2
      <4>1. saved.cursor[f] \in Nat
        BY <1>1, <1>5
      <4>2. CASE n <= saved.cursor[f]
        <5>1. n \in 1 .. saved.cursor[f]
          BY <1>6, <4>1, <4>2
        <5> QED
          BY <1>1, <3>2, <5>1 DEF AgentInv, NothingSkipped
      <4>3. CASE ~(n <= saved.cursor[f])
        <5>1. n \in saved.cursor[f] + 1 .. c
          BY <1>6, <4>1, <4>3
        <5>2. <<f, n>> \in s.records
          BY <1>3, <3>2, <5>1
        <5> QED
          BY <2>1, <5>2
      <4> QED
        BY <4>2, <4>3
    <3>3. CASE g = f /\ StreamOf[f] # "mpi-events"
      <4>1. <<f, c>> \in s.records
        BY <1>3, <3>3
      <4> QED
        BY <1>6, <2>1, <3>3, <4>1
    <3> QED
      BY <3>1, <3>2, <3>3
  <2> QED
    BY <1>0, <2>1, <2>2 DEF NothingSkipped
<1> QED
  BY <1>7, <1>10, <1>11, <1>12, <1>13, <1>14, <1>15, <1>16, <1>17 DEF AgentInv

-----------------------------------------------------------------------------
(* Draining. *)

\* The API takes the first segment of the queue.  Half of a fork that was not accepted
\* is still in the spool, so nothing beyond the fork can be first.
LEMMA Accepting ==
  ASSUME Shapes, AgentInv, pc = "drain", queue # <<>>, Admits(Head(queue)),
         accepted' = accepted \cup {Head(queue)}, UNCHANGED <<saved, pending>>
  PROVE  /\ Head(queue) \in pending /\ accepted' \subseteq SegmentType
         /\ Sealeds' = Sealeds /\ SpoolOK' /\ AcceptedOK'
<1>h. PICK h : h = Head(queue)
  OBVIOUS
<1>0. Draining /\ queue \in Seq(SegmentType)
  BY DEF Draining, Shapes
<1>1. 1 \in DOMAIN queue /\ queue[1] = h
  BY <1>0, <1>h
<1>2. h \in pending /\ h \in SegmentType
  BY <1>0, <1>1 DEF AgentInv, QueueOK, Shapes
<1>3. Sealeds' = Sealeds /\ Sealeds \subseteq SegmentType /\ accepted' = accepted \cup {h}
  BY <1>2, <1>h DEF Sealeds, Shapes
<1>4. \A x, k : Fork(x, k)' <=> Fork(x, k)
  BY <1>3 DEF Fork
<1>5. SpoolOK'
  BY <1>3 DEF AgentInv, SpoolOK
<1>6. \A u \in Sealeds : u.first \in Nat /\ u.last \in Nat /\ u.first <= u.last
  BY <1>3 DEF SegmentType, AgentInv, SpoolOK
<1>7. ASSUME NEW t \in accepted, Meets(h, t) \/ Meets(t, h) PROVE h = t
  <2>1. t \in SegmentType
    BY DEF Shapes
  <2>2. Meets(h, t)
    BY <1>2, <1>7, <2>1 DEF Meets, SegmentType
  <2>3. SameName(h, t) /\ h.records = t.records
    BY <1>h, <2>2 DEF Admits
  <2> QED
    BY <1>2, <2>1, <2>3 DEF SameName, SegmentType
<1>8. h.first < saved.next[h.stream]
  <2>1. h.first <= saved.next[h.stream] /\ h.first # saved.next[h.stream]
    BY <1>0, <1>2 DEF AgentInv, Chained, OrphansWait, Sealeds
  <2>2. h.first \in Nat /\ saved.next[h.stream] \in Nat
    BY <1>2 DEF SegmentType, Shapes, AgentState
  <2> QED
    BY <2>1, <2>2
<1>9. ASSUME NEW k \in Nat, Fork(h.stream, k), ~(h.first <= k) PROVE FALSE
  <2>1. PICK u \in Sealeds, v \in Sealeds :
          u # v /\ u.stream = h.stream /\ v.stream = h.stream /\ u.first = k /\ v.first = k
    BY <1>9 DEF Fork
  <2>2. Meets(u, v)
    BY <1>6, <2>1 DEF Meets
  <2>3. u \in pending \/ v \in pending
    BY <2>1, <2>2 DEF AgentInv, AcceptedOK, Sealeds
  <2>4. PICK w \in pending : w.stream = h.stream /\ w.first = k
    BY <2>1, <2>3
  <2>5. PICK i \in DOMAIN queue : queue[i] = w
    BY <1>0, <2>4 DEF AgentInv, QueueOK
  <2>6. i # 1 /\ i \in Nat /\ 1 < i
    <3>1. i \in Nat /\ i >= 1
      BY <1>0
    <3>2. i # 1
      BY <1>1, <1>6, <1>9, <2>4, <2>5, <1>2 DEF Sealeds
    <3> QED
      BY <3>1, <3>2
  <2>7. Before(h, w)
    BY <1>0, <1>1, <2>5, <2>6 DEF AgentInv, QueueOK
  <2>8. h.first \in Nat /\ h.stream \in {"mpi-events", "rank-summary"}
    BY <1>2 DEF SegmentType, Stream
  <2> QED
    BY <1>9, <2>4, <2>7, <2>8 DEF Before
<1>10. AcceptedOK'
  <2>1. \A u, v \in accepted' : Meets(u, v) => u = v
    BY <1>3, <1>7 DEF AgentInv, AcceptedOK
  <2>2. \A u \in accepted' : u.first < saved'.next[u.stream]
    BY <1>3, <1>8 DEF AgentInv, AcceptedOK
  <2>3. \A t \in accepted', k \in Nat : Fork(t.stream, k)' => t.first <= k
    BY <1>3, <1>4, <1>9 DEF AgentInv, AcceptedOK
  <2> QED
    BY <2>1, <2>2, <2>3 DEF AcceptedOK
<1> QED
  BY <1>2, <1>3, <1>5, <1>10, <1>h DEF Shapes

LEMMA PostStep == ASSUME Shapes, AgentInv, DrainPost \/ DrainFail PROVE Shapes' /\ AgentInv'
<1>0. /\ pc = "drain" /\ queue # <<>> /\ UNCHANGED <<capture, saved, pending, receipts, memory, crashes>>
      /\ Draining
  BY DEF DrainPost, DrainFail, Draining
<1>1. /\ accepted' \subseteq SegmentType /\ Sealeds' = Sealeds /\ SpoolOK' /\ AcceptedOK'
      /\ DrainPost => Head(queue) \in accepted'
  <2>1. CASE UNCHANGED accepted /\ DrainFail
    <3>1. ~DrainPost
      BY <2>1 DEF DrainPost, DrainFail, EndPass
    <3> QED
      BY <1>0, <2>1, <3>1, SpoolKept DEF Shapes
  <2>2. CASE Admits(Head(queue)) /\ accepted' = accepted \cup {Head(queue)}
    BY <1>0, <2>2, Accepting
  <2> QED
    BY <2>1, <2>2 DEF DrainPost, DrainFail
<1>2. Shapes'
  <2>1. CASE DrainPost
    BY <1>0, <1>1, <2>1 DEF DrainPost, Shapes
  <2>2. CASE DrainFail
    <3>1. 1 \in 1 .. Len(Files) + 1
      BY FilesFacts
    <3> QED
      BY <1>0, <1>1, <2>2, <3>1 DEF DrainFail, EndPass, Shapes
  <2> QED
    BY <2>1, <2>2
<1>3. CursorsTrail' /\ Chained' /\ RepeatsForked' /\ NothingSkipped'
  <2>1. \A f \in File : capture'[f] >= capture[f]
    BY <1>0 DEF Shapes
  <2> QED
    BY <1>0, <1>1, <1>2, <2>1, SealedsKept
<1>4. OrphansWait'
  BY <1>0 DEF AgentInv, OrphansWait
<1>5. PhaseOK' /\ QueueOK'
  <2>1. CASE DrainPost
    <3>1. pc' = "receipt" /\ UNCHANGED queue
      BY <2>1 DEF DrainPost
    <3> QED
      BY <1>0, <1>1, <2>1, <3>1 DEF AgentInv, PhaseOK, QueueOK, Draining
  <2>2. CASE DrainFail
    BY <1>0, <2>2 DEF DrainFail, EndPass, AgentInv, PhaseOK, QueueOK, Draining
  <2> QED
    BY <2>1, <2>2
<1> QED
  BY <1>1, <1>2, <1>3, <1>4, <1>5 DEF AgentInv

LEMMA RemoveStep == ASSUME Shapes, AgentInv, DrainRemove PROVE Shapes' /\ AgentInv'
<1>h. PICK h : h = Head(queue)
  OBVIOUS
<1>0. /\ pc = "remove" /\ pc' = "drain" /\ pending' = pending \ {h} /\ queue' = Tail(queue)
      /\ UNCHANGED <<capture, saved, receipts, accepted, memory, index, crashes>>
      /\ Draining /\ queue # <<>> /\ h \in accepted /\ queue \in Seq(SegmentType)
  BY <1>h DEF DrainRemove, AgentInv, PhaseOK, Draining, Shapes
<1>1. /\ Len(queue) \in Nat \ {0} /\ DOMAIN queue = 1 .. Len(queue) /\ queue[1] = h
      /\ queue' \in Seq(SegmentType) /\ Len(queue') = Len(queue) - 1
      /\ DOMAIN queue' = 1 .. Len(queue) - 1
      /\ \A i \in 1 .. Len(queue) - 1 : queue'[i] = queue[i + 1]
  BY <1>0, <1>h
<1>2. Shapes'
  BY <1>0, <1>1 DEF Shapes
<1>3. Sealeds' = Sealeds
  BY <1>0 DEF Sealeds
<1>4. SpoolOK'
  <2>1. IsFiniteSet(pending')
    BY <1>0, FS_RemoveElement DEF AgentInv, SpoolOK
  <2> QED
    BY <1>0, <1>3, <2>1 DEF AgentInv, SpoolOK
<1>5. AcceptedOK'
  <2>1. \A x, k : Fork(x, k)' <=> Fork(x, k)
    BY <1>3 DEF Fork
  <2> QED
    BY <1>0, <2>1 DEF AgentInv, AcceptedOK
<1>6. CursorsTrail' /\ Chained' /\ RepeatsForked' /\ NothingSkipped'
  <2>1. \A f \in File : capture'[f] >= capture[f]
    BY <1>0 DEF Shapes
  <2> QED
    BY <1>0, <1>2, <1>3, <2>1, SealedsKept
<1>7. OrphansWait'
  BY <1>0 DEF AgentInv, OrphansWait
<1>8. PhaseOK'
  BY <1>0 DEF AgentInv, PhaseOK, Draining
<1>9. QueueOK'
  <2> DEFINE n == Len(queue)
  <2>1. /\ {queue[i] : i \in 1 .. n} = pending
        /\ \A i, j \in 1 .. n : i < j => Before(queue[i], queue[j])
    BY <1>0, <1>1 DEF AgentInv, QueueOK
  <2>2. \A i \in 1 .. n - 1 : i + 1 \in 1 .. n /\ 1 < i + 1
    BY <1>1
  <2>3. \A i \in 1 .. n : i = 1 \/ (i - 1 \in 1 .. n - 1 /\ (i - 1) + 1 = i)
    BY <1>1
  <2>4. {queue'[i] : i \in 1 .. n - 1} = pending \ {h}
    <3>1. ASSUME NEW i \in 1 .. n - 1 PROVE queue'[i] \in pending \ {h}
      <4>1. queue[i + 1] \in pending
        BY <2>1, <2>2
      <4>2. Before(h, queue[i + 1])
        <5>1. 1 \in 1 .. n /\ i + 1 \in 1 .. n /\ 1 < i + 1
          BY <1>1, <2>2
        <5> QED
          BY <1>1, <2>1, <5>1
      <4>3. queue[i + 1] # h
        BY <4>1, <4>2, NameOrder DEF Shapes
      <4> QED
        BY <1>1, <4>1, <4>3
    <3>2. ASSUME NEW x \in pending \ {h} PROVE \E i \in 1 .. n - 1 : queue'[i] = x
      <4>1. PICK i \in 1 .. n : queue[i] = x
        BY <2>1
      <4>2. i - 1 \in 1 .. n - 1 /\ (i - 1) + 1 = i
        BY <1>1, <2>3, <4>1
      <4> QED
        BY <1>1, <4>1, <4>2
    <3> QED
      BY <3>1, <3>2
  <2>5. \A i, j \in 1 .. n - 1 : i < j => Before(queue'[i], queue'[j])
    <3> SUFFICES ASSUME NEW i \in 1 .. n - 1, NEW j \in 1 .. n - 1, i < j
                 PROVE  Before(queue'[i], queue'[j])
      OBVIOUS
    <3>1. i + 1 \in 1 .. n /\ j + 1 \in 1 .. n /\ i + 1 < j + 1
      BY <2>2
    <3> QED
      BY <1>1, <2>1, <3>1
  <2> QED
    BY <1>0, <1>1, <2>4, <2>5 DEF QueueOK
<1> QED
  BY <1>2, <1>4, <1>5, <1>6, <1>7, <1>8, <1>9 DEF AgentInv

-----------------------------------------------------------------------------
(* What the agent guarantees. *)

LEMMA AgentInit == Init => Shapes /\ AgentInv
<1> SUFFICES ASSUME Init PROVE Shapes /\ AgentInv
  OBVIOUS
<1>1. /\ saved.next \in [Stream -> Nat] /\ saved.cursor \in [File -> Nat]
      /\ \A f \in File : saved.cursor[f] = 0 /\ capture[f] = 0
  BY DEF Init, FreshState
<1>2. Shapes
  BY <1>1, FilesFacts DEF Init, FreshState, Shapes, AgentState
<1>3. Sealeds = {} /\ \A x, k : ~Fork(x, k)
  BY DEF Init, Sealeds, Fork
<1>4. PhaseOK /\ QueueOK
  BY DEF Init, PhaseOK, QueueOK, Draining
<1>5. SpoolOK /\ Chained /\ RepeatsForked
  BY <1>3, FS_EmptySet DEF Init, SpoolOK, Chained, RepeatsForked
<1>6. CursorsTrail /\ OrphansWait /\ AcceptedOK
  BY <1>1 DEF Init, CursorsTrail, OrphansWait, AcceptedOK
<1>7. NothingSkipped
  BY <1>1 DEF NothingSkipped
<1> QED
  BY <1>2, <1>4, <1>5, <1>6, <1>7 DEF AgentInv

LEMMA AgentAlways == Spec => [](Shapes /\ AgentInv)
<1>1. Shapes /\ AgentInv /\ [Next]_vars => Shapes' /\ AgentInv'
  BY CaptureStep, IdleStep, SealStep, SaveStep, PostStep, RemoveStep DEF Next, AgentStep
<1> QED
  BY <1>1, AgentInit, PTL DEF Spec

\* State, spool, receipts and queue keep their shape, and the queue of a pass names only
\* segments that are in the spool.
THEOREM TypeCorrect == Spec => []TypeOK
<1>1. Shapes /\ AgentInv => TypeOK
  <2> SUFFICES ASSUME Shapes, AgentInv PROVE \A i \in DOMAIN queue : queue[i] \in pending
    BY DEF Shapes, TypeOK
  <2>1. CASE Draining
    BY <2>1 DEF AgentInv, QueueOK
  <2>2. CASE ~Draining
    BY <2>2 DEF AgentInv, PhaseOK
  <2> QED
    BY <2>1, <2>2
<1> QED
  BY <1>1, AgentAlways, PTL

\* Wherever the agent crashed, each record before a saved cursor is in the spool or at
\* the API.
THEOREM NoneSkipped == Spec => []NothingSkipped
<1>1. AgentInv => NothingSkipped
  BY DEF AgentInv
<1> QED
  BY <1>1, AgentAlways, PTL

\* No record reaches the API in two segments, for any number of files, crashes and lost
\* answers: of the segments that repeat a record one waits for ever behind a fork.
THEOREM NoneRepeated == Spec => []DeliveredOnce
<1>1. Shapes /\ AgentInv => DeliveredOnce
  <2> SUFFICES ASSUME Shapes, AgentInv, NEW s \in accepted, NEW t \in accepted,
                      s.records \cap t.records # {}, s # t
               PROVE  FALSE
    BY DEF DeliveredOnce
  <2>1. s \in Sealeds /\ t \in Sealeds
    BY DEF Sealeds
  <2>2. PICK c \in Nat : c <= s.first /\ c <= t.first /\ Fork(s.stream, c)
    BY <2>1 DEF AgentInv, RepeatsForked
  <2>3. s.stream = t.stream
    BY <2>1 DEF AgentInv, RepeatsForked
  <2>4. s.first <= c /\ t.first <= c
    BY <2>2, <2>3 DEF AgentInv, AcceptedOK
  <2>5. /\ s.first \in Nat /\ t.first \in Nat /\ s.last \in Nat /\ t.last \in Nat
        /\ s.first <= s.last /\ t.first <= t.last
    BY <2>1 DEF Shapes, SegmentType, AgentInv, SpoolOK
  <2>6. Meets(s, t)
    BY <2>2, <2>3, <2>4, <2>5 DEF Meets
  <2> QED
    BY <2>6 DEF AgentInv, AcceptedOK
<1> QED
  BY <1>1, AgentAlways, PTL
=============================================================================
