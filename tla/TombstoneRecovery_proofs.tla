----------------------- MODULE TombstoneRecovery_proofs -----------------------
(* Proofs about TombstoneRecovery, for every value of its constants. *)
EXTENDS TombstoneRecovery, FiniteSetTheorems, NaturalsInduction, WellFoundedInduction, TLAPS

(* Least and greatest elements: the export orders attempts and cuts the order. *)

LEMMA LeastExists ==
  ASSUME NEW T \in SUBSET Nat, T # {}
  PROVE  \E m \in T : \A n \in T : m <= n
<1>1. PICK m \in T : \A n \in T : <<n, m>> \notin OpToRel(<, Nat)
  BY NatLessThanWellFounded, WFMin
<1>2. \A n \in T : ~(n < m)
  BY <1>1 DEF OpToRel
<1> QED
  BY <1>2

LEMMA GreatestExists ==
  ASSUME NEW S \in SUBSET Nat, S # {}, IsFiniteSet(S)
  PROVE  \E m \in S : \A n \in S : n <= m
<1> DEFINE above(a) == {b \in S : b > a}
           T == {Cardinality(above(a)) : a \in S}
<1>1. \A a \in S : IsFiniteSet(above(a)) /\ Cardinality(above(a)) \in Nat
  <2> SUFFICES ASSUME NEW a \in S PROVE IsFiniteSet(above(a)) /\ Cardinality(above(a)) \in Nat
    OBVIOUS
  <2>1. above(a) \in SUBSET S
    OBVIOUS
  <2> QED
    BY <2>1, FS_Subset, FS_CardinalityType
<1>2. T \in SUBSET Nat /\ T # {}
  BY <1>1
<1>3. PICK m \in T : \A n \in T : m <= n
  BY <1>2, LeastExists
<1>4. PICK a \in S : m = Cardinality(above(a))
  OBVIOUS
<1>5. ASSUME NEW c \in S, c > a PROVE FALSE
  <2>0. a \in Nat /\ c \in Nat /\ \A b \in S : b \in Nat
    OBVIOUS
  <2>1. above(c) \in SUBSET above(a)
    <3> SUFFICES ASSUME NEW b \in S, b > c PROVE b > a
      OBVIOUS
    <3>1. b \in Nat
      OBVIOUS
    <3> QED
      BY <1>5, <2>0, <3>1
  <2>2. c \in above(a) /\ c \notin above(c)
    BY <1>5, <2>0
  <2>3. /\ Cardinality(above(c)) <= Cardinality(above(a))
        /\ Cardinality(above(c)) # Cardinality(above(a))
    BY <1>1, <2>1, <2>2, FS_Subset
  <2>4. m <= Cardinality(above(c))
    BY <1>3
  <2> HIDE DEF above
  <2> QED
    BY <1>1, <1>4, <2>3, <2>4
<1> QED
  BY <1>5

\* The page is a lower part of the rows: a row outside it comes after all of it, and
\* then there are more rows than fit.
LEMMA FirstCuts ==
  ASSUME NEW S \in SUBSET Nat, IsFiniteSet(S), NEW n \in Nat \ {0},
         NEW a \in S, a \notin First(S, n)
  PROVE  /\ Cardinality(S) > n
         /\ \A x \in First(S, n) : x < a
<1> DEFINE below(x) == {b \in S : b < x}
<1>0. a \in Nat /\ \A b \in S : b \in Nat
  OBVIOUS
<1>1. \A x \in S : /\ below(x) \in SUBSET S /\ IsFiniteSet(below(x))
                   /\ Cardinality(below(x)) \in Nat /\ Cardinality(below(x)) <= Cardinality(S)
  <2> SUFFICES ASSUME NEW x \in S
               PROVE  /\ below(x) \in SUBSET S /\ IsFiniteSet(below(x))
                      /\ Cardinality(below(x)) \in Nat /\ Cardinality(below(x)) <= Cardinality(S)
    OBVIOUS
  <2>1. below(x) \in SUBSET S
    OBVIOUS
  <2> QED
    BY <2>1, FS_Subset, FS_CardinalityType
<1>2. Cardinality(below(a)) >= n
  BY <1>1 DEF First
<1>3. Cardinality(S) > n
  <2>1. below(a) # S
    BY <1>0
  <2>2. Cardinality(below(a)) # Cardinality(S)
    BY <1>1, <2>1, FS_Subset
  <2>3. Cardinality(S) \in Nat
    BY FS_CardinalityType
  <2> HIDE DEF below
  <2> QED
    BY <1>1, <1>2, <2>2, <2>3
<1>4. ASSUME NEW x \in First(S, n), ~(x < a) PROVE FALSE
  <2>1. x \in S /\ Cardinality(below(x)) < n
    BY DEF First
  <2>2. below(a) \in SUBSET below(x)
    <3> SUFFICES ASSUME NEW b \in S, b < a PROVE b < x
      OBVIOUS
    <3>1. b \in Nat /\ x \in Nat
      BY <2>1
    <3> QED
      BY <1>0, <1>4, <3>1
  <2>3. Cardinality(below(a)) <= Cardinality(below(x))
    BY <1>1, <2>1, <2>2, FS_Subset
  <2> HIDE DEF below
  <2> QED
    BY <1>1, <1>2, <2>1, <2>3
<1> QED
  BY <1>3, <1>4

\* Where there are rows there is a page, and its last row is in it.
LEMMA LastOfPage ==
  ASSUME NEW S \in SUBSET Nat, IsFiniteSet(S), S # {}, NEW n \in Nat \ {0}
  PROVE  Last(First(S, n)) \in First(S, n)
<1>1. PICK m \in S : \A b \in S : m <= b
  BY LeastExists
<1>2. {b \in S : b < m} = {}
  <2> SUFFICES ASSUME NEW b \in S, b < m PROVE FALSE
    OBVIOUS
  <2>1. b \in Nat /\ m \in Nat /\ m <= b
    BY <1>1
  <2> QED
    BY <2>1
<1>3. m \in First(S, n)
  BY <1>2, FS_EmptySet DEF First
<1>4. First(S, n) \in SUBSET S
  BY DEF First
<1>5. \E a \in First(S, n) : \A b \in First(S, n) : b <= a
  BY <1>3, <1>4, FS_Subset, GreatestExists
<1> QED
  BY <1>5 DEF Last

-----------------------------------------------------------------------------
(* Types. *)

LEMMA RowTypes ==
  ASSUME NEW r \in Row
  PROVE  /\ \A s \in DeletionState : Unleased(r, s) \in Row
         /\ Rearmed(r) \in Row
         /\ Fenced(r) \in Row
         /\ \A g \in Nat : Tombstoned(r, g) \in Row
<1>1. \A s \in DeletionState : Unleased(r, s) \in Row
  BY DEF Row, Unleased
<1>2. \A q \in Row : Rearmed(q) \in Row
  BY DEF Row, Unleased, Rearmed, DeletionState
<1>3. Fenced(r) \in Row
  <2>1. r.generation + 1 \in Nat
    BY DEF Row
  <2>2. [r EXCEPT !.generation = @ + 1, !.fenced = TRUE] \in Row
    BY <2>1 DEF Row
  <2> QED
    BY <2>2 DEF Fenced
<1>4. ASSUME NEW g \in Nat PROVE Tombstoned(r, g) \in Row
  <2>1. [r EXCEPT !.generation = g, !.fenced = TRUE] \in Row
    BY DEF Row
  <2>2. ASSUME NEW q \in Row
        PROVE  [q EXCEPT !.number = IF r.deletion = "none" THEN @ ELSE @ + 1,
                         !.hold = IF @ = "active" THEN "released" ELSE @] \in Row
    <3>1. /\ (IF r.deletion = "none" THEN q.number ELSE q.number + 1) \in Nat
          /\ (IF q.hold = "active" THEN "released" ELSE q.hold) \in {"none", "active", "released"}
      BY DEF Row
    <3> QED
      BY <3>1 DEF Row
  <2> QED
    BY <1>2, <2>1, <2>2 DEF Tombstoned
<1> QED
  BY <1>1, <1>2, <1>3, <1>4

\* What the fields of a changed row are.
LEMMA RowFields ==
  ASSUME NEW r \in Row
  PROVE  /\ \A s \in DeletionState :
              LET q == Unleased(r, s)
              IN  q.evidence = r.evidence /\ q.generation = r.generation /\ q.fenced = r.fenced
                  /\ q.hold = r.hold /\ q.deletion = s /\ q.target = r.target
         /\ LET q == Rearmed(r)
            IN  q.evidence = r.evidence /\ q.generation = r.generation /\ q.fenced = r.fenced
                /\ q.hold = r.hold /\ q.deletion = "pending" /\ q.target = r.generation
                /\ q.attempts = 0
         /\ LET q == Fenced(r)
            IN  q.evidence = r.evidence /\ q.generation >= r.generation /\ q.fenced
                /\ (r.fenced => q = r)
                /\ q.hold = r.hold /\ q.deletion = r.deletion /\ q.target = r.target
         /\ \A g \in Nat : LET q == Tombstoned(r, g)
            IN  q.generation = g /\ q.fenced /\ q.hold # "active"
                /\ q.deletion = "pending" /\ q.target = g /\ q.attempts = 0
<1>1. \A s \in DeletionState :
        LET q == Unleased(r, s)
        IN  q.evidence = r.evidence /\ q.generation = r.generation /\ q.fenced = r.fenced
            /\ q.hold = r.hold /\ q.deletion = s /\ q.target = r.target
  BY DEF Row, Unleased
<1>2. LET q == Rearmed(r)
      IN  q.evidence = r.evidence /\ q.generation = r.generation /\ q.fenced = r.fenced
          /\ q.hold = r.hold /\ q.deletion = "pending" /\ q.target = r.generation
          /\ q.attempts = 0
  BY DEF Row, Unleased, Rearmed
<1>3. LET q == Fenced(r)
      IN  q.evidence = r.evidence /\ q.generation >= r.generation /\ q.fenced
          /\ (r.fenced => q = r)
          /\ q.hold = r.hold /\ q.deletion = r.deletion /\ q.target = r.target
  BY DEF Row, Fenced
<1>4. \A g \in Nat : LET q == Tombstoned(r, g)
      IN  q.generation = g /\ q.fenced /\ q.hold # "active"
          /\ q.deletion = "pending" /\ q.target = g /\ q.attempts = 0
  BY DEF Row, Unleased, Rearmed, Tombstoned
<1> QED
  BY <1>1, <1>2, <1>3, <1>4

Entry == [attempt : Attempt, generation : Nat]
Lease == [attempt : Attempt, target : Nat, number : Nat,
          pc : {"claimed", "failing", "failed", "pending"}]

LEMMA TypeInit == Init => TypeOK
<1>1. EmptyRow \in Row
  BY DEF Row, EmptyRow, DeletionState
<1>2. [a \in Attempt |-> EmptyRow] \in Catalog
  BY <1>1 DEF Catalog
<1>3. <<>> \in Seq(SUBSET Entry) /\ 0 \in 0..MaxFaults
  BY RecoveryAssumption
<1> QED
  BY <1>2, <1>3 DEF Init, TypeOK, Entry

LEMMA ServeType ==
  ASSUME TypeOK, NEW a \in Attempt, NEW r \in Row, Serve(a, r),
         work' = None \/ work' \in Lease
  PROVE  TypeOK'
  BY DEF TypeOK, Serve, exportVars, Catalog, Lease

\* Applying a bundle to a catalog gives a catalog.
LEMMA ReconciledType ==
  ASSUME TypeOK, NEW cat \in Catalog, NEW i \in DOMAIN pages
  PROVE  Reconciled(cat, i) \in Catalog
<1>1. pages[i] \subseteq Entry
  BY DEF TypeOK, Entry
<1> SUFFICES ASSUME NEW a \in Attempt PROVE Reconciled(cat, i)[a] \in Row
  BY DEF Reconciled, Catalog
<1>2. CASE i \notin imports /\ \E e \in pages[i] : e.attempt = a /\ cat[a].generation <= e.generation
  <2> DEFINE e == CHOOSE x \in pages[i] : x.attempt = a
  <2>1. e \in pages[i]
    BY <1>2
  <2>2. e.generation \in Nat
    BY <1>1, <2>1 DEF Entry
  <2>3. Reconciled(cat, i)[a] = Tombstoned(cat[a], e.generation)
    BY <1>2 DEF Reconciled
  <2>4. cat[a] \in Row
    BY DEF Catalog
  <2> HIDE DEF e
  <2> QED
    BY <2>2, <2>3, <2>4, RowTypes
<1>3. CASE ~(i \notin imports /\ \E e \in pages[i] : e.attempt = a /\ cat[a].generation <= e.generation)
  BY <1>3 DEF Reconciled, Catalog
<1> QED
  BY <1>2, <1>3

LEMMA RowsType == ASSUME TypeOK PROVE /\ Rows \in SUBSET Nat /\ IsFiniteSet(Rows)
                                      /\ First(Rows, Limit) \subseteq Rows /\ Rows \subseteq Attempt
<1>1. Rows \in SUBSET Attempt
  BY DEF Rows
<1> QED
  BY <1>1, RecoveryAssumption, FS_Subset DEF First

LEMMA CursorType ==
  ASSUME TypeOK
  PROVE  \/ Cardinality(Rows) > Limit /\ NextCursor \in First(Rows, Limit) /\ NextCursor \in Attempt
         \/ ~(Cardinality(Rows) > Limit) /\ NextCursor = None
<1>1. CASE Cardinality(Rows) > Limit
  <2>1. Rows # {}
    BY <1>1, FS_EmptySet, RecoveryAssumption
  <2> QED
    BY <1>1, <2>1, RowsType, LastOfPage, RecoveryAssumption DEF NextCursor
<1>2. CASE ~(Cardinality(Rows) > Limit)
  BY <1>2 DEF NextCursor
<1> QED
  BY <1>1, <1>2

LEMMA TypeStep == TypeOK /\ [Next]_vars => TypeOK'
<1> SUFFICES ASSUME TypeOK, [Next]_vars PROVE TypeOK'
  OBVIOUS
<1>0. live \in Catalog /\ \A a \in Attempt : live[a] \in Row
  BY DEF TypeOK, Catalog
<1>w. work = None \/ work \in Lease
  BY DEF TypeOK, Lease
<1>1. ASSUME NEW a \in Attempt, Admit(a) PROVE TypeOK'
  <2>1. [live[a] EXCEPT !.evidence = TRUE] \in Row
    BY <1>0 DEF Row
  <2> QED
    BY <1>1, <1>w, <2>1, ServeType DEF Admit
<1>2. ASSUME NEW a \in Attempt, PlaceHold(a) PROVE TypeOK'
  <2>1. [live[a] EXCEPT !.hold = "active"] \in Row
    BY <1>0 DEF Row
  <2> QED
    BY <1>2, <1>w, <2>1, ServeType, RowTypes DEF PlaceHold, DeletionState
<1>3. ASSUME NEW a \in Attempt, ReleaseHold(a) PROVE TypeOK'
  <2>1. [live[a] EXCEPT !.hold = "released"] \in Row
    BY <1>0 DEF Row
  <2> QED
    BY <1>3, <1>w, <2>1, ServeType, RowTypes DEF ReleaseHold
<1>4. ASSUME NEW a \in Attempt, Delete(a) PROVE TypeOK'
  <2> DEFINE r == live[a]
  <2>1. r \in Row /\ Fenced(r) \in Row /\ Rearmed(Fenced(r)) \in Row /\ Unleased(r, "held") \in Row
    BY <1>0, RowTypes DEF DeletionState
  <2>2. [Unleased(r, "held") EXCEPT !.target = r.generation] \in Row
    BY <2>1 DEF Row
  <2>3. \E q \in Row : Serve(a, q) /\ work' = work
    BY <1>4, <2>1, <2>2 DEF Delete
  <2> QED
    BY <1>w, <2>3, ServeType
<1>5. ASSUME NEW a \in Attempt, Claim(a) PROVE TypeOK'
  <2> DEFINE r == [live[a] EXCEPT !.deletion = "processing", !.leased = TRUE,
                                  !.number = @ + 1, !.attempts = @ + 1]
  <2>1. r \in Row /\ r.target \in Nat /\ r.number \in Nat
    <3>1. live[a] \in Row /\ live[a].number + 1 \in Nat /\ live[a].attempts + 1 \in Nat
      BY <1>0 DEF Row
    <3>2. "processing" \in DeletionState
      BY DEF DeletionState
    <3> QED
      BY <3>1, <3>2 DEF Row
  <2>2. Serve(a, r) /\ work' = [attempt |-> a, target |-> r.target, number |-> r.number, pc |-> "claimed"]
    BY <1>5 DEF Claim
  <2> HIDE DEF r
  <2>3. work' \in Lease
    BY <2>1, <2>2 DEF Lease
  <2> QED
    BY <2>1, <2>2, <2>3, ServeType
<1>6. CASE Decline
  <2>1. work.attempt \in Attempt
    BY <1>6, <1>w DEF Decline, At, Lease
  <2> QED
    BY <1>0, <1>6, <2>1, ServeType, RowTypes DEF Decline, DeletionState
<1>7. CASE Erase
  <2>1. work.attempt \in Attempt
    BY <1>7, <1>w DEF Erase, At, Lease
  <2>2. Unleased(live[work.attempt], "completed") \in Row
    BY <1>0, <2>1, RowTypes DEF DeletionState
  <2>3. [Unleased(live[work.attempt], "completed") EXCEPT !.evidence = FALSE] \in Row
    BY <2>2 DEF Row
  <2> QED
    BY <1>7, <2>1, <2>3, ServeType DEF Erase
<1>8. CASE EraseFail
  <2>1. work \in Lease
    BY <1>8, <1>w DEF EraseFail, At
  <2>2. work' \in Lease
    BY <1>8, <2>1 DEF EraseFail, Lease
  <2>3. faults' \in 0..MaxFaults
    BY <1>8, RecoveryAssumption DEF EraseFail, TypeOK
  <2> QED
    BY <1>8, <2>2, <2>3 DEF EraseFail, TypeOK, exportVars, Lease
<1>9. CASE FailRead
  <2>1. work \in Lease
    BY <1>9, <1>w DEF FailRead, At
  <2>2. work' = None \/ \E p \in {"failed", "pending"} : work' = [work EXCEPT !.pc = p]
    BY <1>9 DEF FailRead
  <2>3. work' = None \/ work' \in Lease
    BY <2>1, <2>2 DEF Lease
  <2> QED
    BY <1>9, <2>3 DEF FailRead, TypeOK, exportVars, Lease
<1>10. CASE FailWrite
  <2>1. work \in Lease /\ work.pc \in DeletionState
    BY <1>10, <1>w DEF FailWrite, At, DeletionState
  <2>2. work.attempt \in Attempt
    BY <2>1 DEF Lease
  <2> QED
    BY <1>0, <1>10, <2>1, <2>2, ServeType, RowTypes DEF FailWrite
<1>11. CASE Crash
  <2>1. faults' \in 0..MaxFaults
    BY <1>11, RecoveryAssumption DEF Crash, TypeOK
  <2> QED
    BY <1>11, <2>1 DEF Crash, TypeOK, exportVars
<1>12. CASE Backup \/ Restore \/ Open
  BY <1>12 DEF Backup, Restore, Open, Ready, TypeOK, exportVars
<1>13. CASE Export
  <2>1. cursor' \in Attempt \cup {0, None}
    BY <1>13, CursorType DEF Export
  <2>2. Page \subseteq Entry
    <3>1. \A a \in First(Rows, Limit) : a \in Attempt /\ live[a].target \in Nat
      BY <1>0, RowsType DEF Row
    <3> QED
      BY <3>1 DEF Page, Entry
  <2>3. pages' \in Seq(SUBSET Entry) /\ DOMAIN pages \subseteq DOMAIN pages'
    BY <1>13, <2>2 DEF Export, TypeOK, Entry
  <2> QED
    BY <1>13, <2>1, <2>3 DEF Export, TypeOK, Entry
<1>14. ASSUME NEW i \in DOMAIN pages, Apply(i) PROVE TypeOK'
  <2>1. imports' \subseteq DOMAIN pages'
    BY <1>14 DEF Apply, TypeOK, exportVars
  <2>2. CASE opened
    BY <1>0, <1>14, <2>1, <2>2, ReconciledType DEF Apply, TypeOK, exportVars
  <2>3. CASE ~opened
    <3>1. restored \in Catalog
      BY <1>14, <2>3 DEF Apply, TypeOK
    <3> QED
      BY <1>14, <2>1, <2>3, <3>1, ReconciledType DEF Apply, TypeOK, exportVars
  <2> QED
    BY <2>2, <2>3
<1>15. CASE UNCHANGED vars
  BY <1>15 DEF vars, exportVars, TypeOK
<1> QED
  BY <1>1, <1>2, <1>3, <1>4, <1>5, <1>6, <1>7, <1>8, <1>9, <1>10, <1>11, <1>12, <1>13, <1>14, <1>15
  DEF Next, Traffic, WorkerStep, Operator

\* Catalogs, bundles, cursor and lease keep their shape; the cursor of a page that
\* is not the last is one of the page's attempts.
THEOREM TypeCorrect == Spec => []TypeOK
  BY TypeInit, TypeStep, PTL DEF Spec

-----------------------------------------------------------------------------
(* The inductive invariant. *)

\* A completed deletion is that of the fenced, current generation.
Sound(r) == r.deletion = "completed" => r.fenced /\ r.target = r.generation

\* Evidence is not there, or its deletion is on its way or was given up.
Doomed(r) == r.evidence => r.deletion \in DeletionState \ {"none", "completed"}

\* A tombstone was applied to the row.
Applied(r) == /\ r.fenced /\ r.target = r.generation
              /\ r.deletion = "pending" /\ r.attempts = 0 /\ r.hold # "active"

\* A copy of the catalog is not ahead of it.
NotAhead(cat) == \A a \in Attempt : Sound(cat[a]) /\ cat[a].generation <= live[a].generation

LiveSound == \A a \in Attempt : Sound(live[a])

\* The worker's attempt is not erased: only its own commit completes a deletion.
WorkOpen == work # None => live[work.attempt].deletion # "completed"

\* After the switch no copy is left and every bundle is in.
OpenedAlone == opened => imports = DOMAIN pages /\ backup = None /\ restored = None

CopiesBehind ==
    /\ backup # None => NotAhead(backup)
    /\ restored # None => backup # None /\ NotAhead(restored)

\* What was exported stays erased, at the generation that was exported.
Exported ==
    ~opened => /\ \A i \in DOMAIN pages : \A e \in pages[i] :
                     /\ live[e.attempt].deletion = "completed"
                     /\ e.generation = live[e.attempt].generation
               /\ \A a \in due : live[a].deletion = "completed"

Listed(a) == \E i \in DOMAIN pages : \E e \in pages[i] : e.attempt = a

\* An attempt that was due is in a page, or beyond the cursor.
DueListed ==
    /\ pages = <<>> => due = {} /\ cursor = 0
    /\ \A a \in due : Listed(a) \/ (cursor # None /\ a > cursor)

ImportsApplied ==
    restored # None => \A i \in imports : \A e \in pages[i] : Applied(restored[e.attempt])

RecoveryInv == /\ LiveSound /\ WorkOpen /\ OpenedAlone /\ CopiesBehind /\ Exported
               /\ DueListed /\ ImportsApplied /\ OnlyErased /\ NotResurrected

LEMMA RecoveryInit == Init => RecoveryInv
  BY DEF Init, RecoveryInv, LiveSound, Sound, EmptyRow, WorkOpen, OpenedAlone, CopiesBehind,
     Exported, DueListed, ImportsApplied, OnlyErased, NotResurrected

\* How the row of an attempt may change while its catalog serves.
Evolves(r, q) ==
    /\ q.generation >= r.generation
    /\ r.fenced => q.fenced
    /\ r.deletion = "completed" => q.deletion = "completed" /\ q.generation = r.generation
    /\ Sound(q)
    /\ r.fenced /\ Doomed(r) => Doomed(q)

LEMMA EvolvesServe ==
  ASSUME TypeOK, LiveSound, NEW a \in Attempt, NEW q, Serve(a, q), Evolves(live[a], q)
  PROVE  /\ \A b \in Attempt : Evolves(live[b], live'[b])
         /\ live'[a] = q /\ \A b \in Attempt : b # a => live'[b] = live[b]
<1>1. live' = [live EXCEPT ![a] = q] /\ live \in [Attempt -> Row]
  BY DEF Serve, TypeOK, Catalog
<1>2. live'[a] = q /\ \A b \in Attempt : b # a => live'[b] = live[b]
  BY <1>1
<1>3. \A b \in Attempt : Evolves(live[b], live[b])
  BY <1>1 DEF Evolves, LiveSound, Row
<1> QED
  BY <1>2, <1>3

\* Every step but the switch lets each row of the serving catalog evolve, ends a hold
\* only by releasing it, and completes no deletion the worker still has a lease on.
LEMMA Evolution ==
  ASSUME TypeOK, LiveSound, WorkOpen, OpenedAlone, [Next]_vars, ~Open
  PROVE  /\ \A a \in Attempt : Evolves(live[a], live'[a])
         /\ \A a \in Attempt : live[a].hold = "active" /\ live'[a].hold # "active" => ReleaseHold(a)
         /\ WorkOpen'
<1> DEFINE Goal == /\ \A a \in Attempt : Evolves(live[a], live'[a])
                   /\ \A a \in Attempt : live[a].hold = "active" /\ live'[a].hold # "active"
                                           => ReleaseHold(a)
                   /\ WorkOpen'
<1>0. /\ \A a \in Attempt : live[a] \in Row /\ Sound(live[a])
      /\ work = None \/ work \in Lease
  BY DEF TypeOK, Catalog, LiveSound, Lease
<1>1. ASSUME UNCHANGED live, work' = None \/ (work # None /\ work'.attempt = work.attempt) PROVE Goal
  <2>1. \A b \in Attempt : Evolves(live[b], live[b])
    BY <1>0 DEF Evolves, Row
  <2> QED
    BY <1>1, <2>1 DEF WorkOpen
<1>2. ASSUME NEW a \in Attempt, NEW q, Serve(a, q), Evolves(live[a], q),
             q.hold = live[a].hold \/ q.hold = "active" \/ ReleaseHold(a),
             \/ work' = None
             \/ work' = work /\ (q.deletion = "completed" => live[a].deletion = "completed")
             \/ work'.attempt = a /\ q.deletion # "completed"
      PROVE  Goal
  <2>1. /\ \A b \in Attempt : Evolves(live[b], live'[b])
        /\ live'[a] = q /\ \A b \in Attempt : b # a => live'[b] = live[b]
    BY <1>2, EvolvesServe
  <2>2. \A b \in Attempt : live[b].hold = "active" /\ live'[b].hold # "active" => ReleaseHold(b)
    BY <1>2, <2>1
  <2>3. work # None => work.attempt \in Attempt
    BY <1>0 DEF Lease
  <2>4. WorkOpen'
    BY <1>2, <2>1, <2>3 DEF WorkOpen
  <2> QED
    BY <2>1, <2>2, <2>4
<1> SUFFICES Goal
  OBVIOUS
<1> HIDE DEF Goal
<1>3. ASSUME NEW a \in Attempt, Admit(a) PROVE Goal
  <2> DEFINE q == [live[a] EXCEPT !.evidence = TRUE]
  <2>1. Serve(a, q) /\ work' = work /\ ~live[a].fenced
    BY <1>3 DEF Admit
  <2>2. /\ q.generation = live[a].generation /\ q.hold = live[a].hold /\ q.fenced = live[a].fenced
        /\ q.deletion = live[a].deletion /\ q.target = live[a].target /\ live[a].generation \in Nat
    BY <1>0 DEF Row
  <2> HIDE DEF q
  <2>3. Evolves(live[a], q)
    BY <1>0, <2>1, <2>2 DEF Evolves, Sound
  <2> QED
    BY <1>2, <2>1, <2>2, <2>3
<1>4. ASSUME NEW a \in Attempt, PlaceHold(a) PROVE Goal
  <2> DEFINE r == [live[a] EXCEPT !.hold = "active"]
             q == IF r.deletion = "none" THEN r ELSE Unleased(r, "held")
  <2>1. Serve(a, q) /\ work' = work /\ r.deletion # "completed"
    BY <1>4 DEF PlaceHold
  <2>2. /\ r \in Row /\ r.hold = "active" /\ r.evidence = live[a].evidence
        /\ r.generation = live[a].generation /\ r.fenced = live[a].fenced
        /\ r.deletion = live[a].deletion /\ r.target = live[a].target /\ live[a].generation \in Nat
    BY <1>0 DEF Row
  <2> HIDE DEF r
  <2>3. /\ q.hold = "active" /\ q.evidence = live[a].evidence
        /\ q.generation = live[a].generation /\ q.fenced = live[a].fenced
        /\ q.deletion = live[a].deletion \/ q.deletion = "held"
        /\ q.target = live[a].target
    BY <2>2, RowFields DEF DeletionState
  <2> HIDE DEF q
  <2>4. Evolves(live[a], q)
    BY <1>0, <2>1, <2>2, <2>3 DEF Evolves, Sound, Doomed, DeletionState
  <2> QED
    BY <1>2, <2>1, <2>2, <2>3, <2>4
<1>5. ASSUME NEW a \in Attempt, ReleaseHold(a) PROVE Goal
  <2> DEFINE r == [live[a] EXCEPT !.hold = "released"]
             q == IF r.deletion = "held" THEN Rearmed(Fenced(r)) ELSE r
  <2>1. Serve(a, q) /\ work' = work
    BY <1>5 DEF ReleaseHold
  <2>2. /\ r \in Row /\ r.evidence = live[a].evidence
        /\ r.generation = live[a].generation /\ r.fenced = live[a].fenced
        /\ r.deletion = live[a].deletion /\ r.target = live[a].target /\ live[a].generation \in Nat
    BY <1>0 DEF Row
  <2> HIDE DEF r
  <2>3. \/ q = r
        \/ /\ live[a].deletion = "held" /\ q.deletion = "pending" /\ q.fenced
           /\ q.generation >= live[a].generation
    BY <2>2, RowFields, RowTypes
  <2> HIDE DEF q
  <2>4. Evolves(live[a], q)
    BY <1>0, <2>2, <2>3 DEF Evolves, Sound, Doomed, DeletionState
  <2> QED
    BY <1>2, <1>5, <2>1, <2>2, <2>3, <2>4
<1>6. ASSUME NEW a \in Attempt, Delete(a) PROVE Goal
  <2> DEFINE r == live[a]
             f == Fenced(r)
             q == IF r.hold = "active"
                    THEN CASE r.deletion = "none" ->
                                [Unleased(r, "held") EXCEPT !.target = r.generation]
                           [] r.deletion = "completed" -> r
                           [] OTHER -> Unleased(r, "held")
                    ELSE IF f.deletion = "none" \/ f.target # f.generation
                           THEN Rearmed(f) ELSE f
  <2>1. Serve(a, q) /\ work' = work
    BY <1>6 DEF Delete
  <2>2. r \in Row /\ Sound(r) /\ r.generation \in Nat
    BY <1>0 DEF Row
  <2>3. Unleased(r, "held") \in Row /\ f \in Row
    BY <2>2, RowTypes DEF DeletionState
  <2>4. LET h == [Unleased(r, "held") EXCEPT !.target = r.generation]
        IN  /\ h.hold = Unleased(r, "held").hold /\ h.deletion = Unleased(r, "held").deletion
            /\ h.generation = Unleased(r, "held").generation
            /\ h.fenced = Unleased(r, "held").fenced
    BY <2>3 DEF Row
  <2>5. /\ Unleased(r, "held").hold = r.hold /\ Unleased(r, "held").deletion = "held"
        /\ Unleased(r, "held").generation = r.generation /\ Unleased(r, "held").fenced = r.fenced
    BY <2>2, RowFields DEF DeletionState
  <2>6. /\ f.hold = r.hold /\ f.deletion = r.deletion /\ f.target = r.target
        /\ f.evidence = r.evidence /\ f.fenced
        /\ f.generation >= r.generation /\ (r.fenced => f = r)
    BY <2>2, RowFields
  <2>7. /\ Rearmed(f).hold = f.hold /\ Rearmed(f).deletion = "pending"
        /\ Rearmed(f).fenced = f.fenced /\ Rearmed(f).generation = f.generation
    BY <2>3, RowFields
  <2> HIDE DEF f
  <2>8. CASE r.deletion = "completed"
    <3>1. q = r
      BY <2>2, <2>6, <2>8 DEF Sound
    <3>2. Evolves(r, r)
      BY <2>2 DEF Evolves
    <3> HIDE DEF q
    <3> QED
      BY <1>2, <2>1, <3>1, <3>2
  <2>9. CASE r.deletion # "completed"
    <3>1. /\ q.hold = r.hold /\ q.generation >= r.generation /\ (r.fenced => q.fenced)
          /\ q.deletion \in {"held", "pending"} \/ (q = f /\ f.deletion # "none")
      <4>1. CASE r.hold = "active" /\ r.deletion = "none"
        <5>1. q = [Unleased(r, "held") EXCEPT !.target = r.generation]
          BY <4>1
        <5> HIDE DEF q
        <5> QED
          BY <2>2, <2>4, <2>5, <5>1
      <4>2. CASE r.hold = "active" /\ r.deletion # "none"
        <5>1. q = Unleased(r, "held")
          BY <2>9, <4>2
        <5> HIDE DEF q
        <5> QED
          BY <2>2, <2>5, <5>1
      <4>3. CASE r.hold # "active"
        <5>1. q = Rearmed(f) \/ (q = f /\ f.deletion # "none")
          BY <4>3
        <5> HIDE DEF q
        <5> QED
          BY <2>2, <2>6, <2>7, <5>1
      <4> QED
        BY <4>1, <4>2, <4>3
    <3>2. q.deletion # "completed"
      BY <2>6, <2>9, <3>1
    <3>3. r.fenced /\ Doomed(r) => Doomed(q)
      BY <2>6, <3>1 DEF Doomed, DeletionState
    <3> HIDE DEF q
    <3>4. Evolves(r, q)
      BY <2>9, <3>1, <3>2, <3>3 DEF Evolves, Sound
    <3> QED
      BY <1>2, <2>1, <3>1, <3>2, <3>4
  <2> QED
    BY <2>8, <2>9
<1>7. ASSUME NEW a \in Attempt, Claim(a) PROVE Goal
  <2> DEFINE q == [live[a] EXCEPT !.deletion = "processing", !.leased = TRUE,
                                  !.number = @ + 1, !.attempts = @ + 1]
  <2>1. /\ Serve(a, q) /\ live[a].deletion \in {"pending", "processing"}
        /\ work' = [attempt |-> a, target |-> q.target, number |-> q.number, pc |-> "claimed"]
    BY <1>7 DEF Claim
  <2>2. /\ q.generation = live[a].generation /\ q.hold = live[a].hold /\ q.fenced = live[a].fenced
        /\ q.deletion = "processing" /\ live[a].generation \in Nat
    BY <1>0 DEF Row
  <2> HIDE DEF q
  <2>3. Evolves(live[a], q)
    BY <2>1, <2>2 DEF Evolves, Sound, Doomed, DeletionState
  <2>4. work'.attempt = a
    BY <2>1
  <2> QED
    BY <1>2, <2>1, <2>2, <2>3, <2>4
<1>8. ASSUME work # None, NEW st \in {"held", "failed", "pending"}, work' = None,
             Serve(work.attempt, Unleased(live[work.attempt], st)) PROVE Goal
  <2> DEFINE a == work.attempt
             q == Unleased(live[a], st)
  <2>1. a \in Attempt /\ live[a] \in Row /\ live[a].generation \in Nat /\ live[a].deletion # "completed"
    BY <1>0, <1>8 DEF Lease, Row, WorkOpen
  <2>2. /\ q.generation = live[a].generation /\ q.hold = live[a].hold /\ q.fenced = live[a].fenced
        /\ q.deletion = st
    BY <2>1, RowFields DEF DeletionState
  <2>3. Serve(a, q)
    BY <1>8
  <2> HIDE DEF q, a
  <2>4. Evolves(live[a], q)
    BY <2>1, <2>2 DEF Evolves, Sound, Doomed, DeletionState
  <2> QED
    BY <1>2, <1>8, <2>1, <2>2, <2>3, <2>4
<1>9. CASE Decline
  <2>1. work # None /\ work' = None
    BY <1>9 DEF Decline, At
  <2>2. CASE Matches
    BY <1>8, <1>9, <2>1, <2>2 DEF Decline
  <2>3. CASE ~Matches
    <3>1. Serve(work.attempt, live[work.attempt]) /\ work.attempt \in Attempt
      BY <1>0, <1>9, <2>1, <2>3 DEF Decline, Lease
    <3>2. UNCHANGED live
      BY <3>1 DEF Serve, TypeOK, Catalog
    <3> QED
      BY <1>1, <2>1, <3>2
  <2> QED
    BY <2>2, <2>3
<1>10. CASE Erase
  <2> DEFINE a == work.attempt
             u == Unleased(live[a], "completed")
             q == [u EXCEPT !.evidence = FALSE]
  <2>1. Serve(a, q) /\ work' = None /\ work # None /\ Matches /\ Current
    BY <1>10 DEF Erase, At, Erasable
  <2>2. a \in Attempt /\ live[a] \in Row /\ live[a].generation \in Nat /\ live[a].deletion # "completed"
    BY <1>0, <2>1 DEF Lease, Row, WorkOpen
  <2>3. /\ u \in Row /\ u.generation = live[a].generation /\ u.hold = live[a].hold
        /\ u.fenced = live[a].fenced /\ u.target = live[a].target
    BY <2>2, RowFields, RowTypes DEF DeletionState
  <2>4. live[a].fenced /\ live[a].target = live[a].generation
    BY <2>1 DEF Matches, Current
  <2> HIDE DEF a, u
  <2>5. /\ q.generation = u.generation /\ q.hold = u.hold /\ q.fenced = u.fenced
        /\ q.target = u.target /\ ~q.evidence
    BY <2>3 DEF Row
  <2> HIDE DEF q
  <2>6. Evolves(live[a], q)
    BY <2>2, <2>3, <2>4, <2>5 DEF Evolves, Sound, Doomed
  <2> QED
    BY <1>2, <2>1, <2>2, <2>3, <2>5, <2>6
<1>11. CASE FailWrite
  <2>1. work # None /\ work' = None /\ work.pc \in {"held", "failed", "pending"}
    BY <1>11 DEF FailWrite, At
  <2> QED
    BY <1>8, <1>11, <2>1 DEF FailWrite
<1>12. CASE EraseFail \/ FailRead \/ Crash
  <2>1. work # None /\ UNCHANGED live
    BY <1>12 DEF EraseFail, FailRead, Crash, At
  <2>2. work' = None \/ \E p \in {"failing", "failed", "pending"} : work' = [work EXCEPT !.pc = p]
    BY <1>12 DEF EraseFail, FailRead, Crash
  <2>3. work \in Lease
    BY <1>0, <2>1
  <2>4. work' = None \/ work'.attempt = work.attempt
    BY <2>2, <2>3 DEF Lease
  <2> QED
    BY <1>1, <2>1, <2>4
<1>13. CASE Backup \/ Restore \/ Export \/ UNCHANGED vars
  BY <1>1, <1>13 DEF Backup, Restore, Export, vars
<1>14. ASSUME NEW i \in DOMAIN pages, Apply(i) PROVE Goal
  <2>1. work' = work
    BY <1>14 DEF Apply
  <2>2. CASE opened
    <3>1. i \in imports /\ live' = Reconciled(live, i)
      BY <1>14, <2>2 DEF Apply, OpenedAlone
    <3>2. live' = live
      BY <3>1 DEF Reconciled, TypeOK, Catalog
    <3> QED
      BY <1>1, <2>1, <3>2
  <2>3. CASE ~opened
    BY <1>1, <1>14, <2>1, <2>3 DEF Apply
  <2> QED
    BY <2>2, <2>3
<1> QED
  BY <1>3, <1>4, <1>5, <1>6, <1>7, <1>9, <1>10, <1>11, <1>12, <1>13, <1>14
  DEF Next, Traffic, WorkerStep, Operator

\* Every due attempt of a catalog that is ready has had its tombstone applied.
LEMMA ReadyApplied ==
  ASSUME RecoveryInv, Ready, NEW a \in due
  PROVE  Applied(restored[a])
<1>1. Listed(a)
  BY DEF RecoveryInv, DueListed, Ready
<1> QED
  BY <1>1 DEF RecoveryInv, Ready, Listed, ImportsApplied

LEMMA OpenStep == ASSUME TypeOK, RecoveryInv, Open PROVE RecoveryInv'
<1>1. /\ LiveSound' /\ WorkOpen'
  BY DEF RecoveryInv, CopiesBehind, NotAhead, Open, Ready, LiveSound, WorkOpen
<1>2. OpenedAlone' /\ CopiesBehind' /\ Exported' /\ ImportsApplied' /\ OnlyErased'
  BY DEF RecoveryInv, Open, Ready, exportVars, OpenedAlone, CopiesBehind, Exported,
     ImportsApplied, OnlyErased
<1>3. DueListed'
  BY DEF RecoveryInv, Open, exportVars, DueListed, Listed
<1>4. NotResurrected'
  <2> SUFFICES ASSUME NEW a \in due PROVE live'[a].fenced /\ live'[a].deletion = "pending"
    BY DEF NotResurrected, Open, exportVars, DeletionState
  <2> QED
    BY ReadyApplied DEF Open, Applied
<1> QED
  BY <1>1, <1>2, <1>3, <1>4 DEF RecoveryInv

\* Steps that only change the serving catalog or the worker.
LEMMA ServingStep ==
  ASSUME TypeOK, RecoveryInv, [Next]_vars, ~Open,
         UNCHANGED <<backup, restored, opened, imports, exportVars>>
  PROVE  RecoveryInv'
<1>1. WorkOpen' /\ \A a \in Attempt : Evolves(live[a], live'[a])
  BY Evolution DEF RecoveryInv
<1>2. LiveSound'
  BY <1>1 DEF LiveSound, Evolves
<1>3. OpenedAlone' /\ DueListed' /\ ImportsApplied'
  BY DEF RecoveryInv, exportVars, OpenedAlone, DueListed, Listed, ImportsApplied
<1>4. CopiesBehind'
  <2> SUFFICES ASSUME NEW cat \in Catalog, NotAhead(cat), NEW a \in Attempt
               PROVE  cat[a].generation <= live'[a].generation
    BY DEF RecoveryInv, CopiesBehind, NotAhead, TypeOK
  <2>1. cat[a].generation \in Nat /\ live[a].generation \in Nat /\ live'[a].generation \in Nat
    BY TypeStep DEF TypeOK, Catalog, Row
  <2> QED
    BY <1>1, <2>1 DEF NotAhead, Evolves
<1>5. Exported'
  <2>1. \A i \in DOMAIN pages : \A e \in pages[i] : e.attempt \in Attempt
    BY DEF TypeOK
  <2>2. due \subseteq Attempt
    BY DEF TypeOK
  <2> QED
    BY <1>1, <2>1, <2>2 DEF RecoveryInv, exportVars, Exported, Evolves
<1>6. OnlyErased'
  BY <1>1 DEF RecoveryInv, OnlyErased, Evolves
<1>7. NotResurrected'
  <2>1. due \subseteq Attempt
    BY DEF TypeOK
  <2> QED
    BY <1>1, <2>1 DEF RecoveryInv, exportVars, NotResurrected, Evolves, Doomed
<1> QED
  BY <1>1, <1>2, <1>3, <1>4, <1>5, <1>6, <1>7 DEF RecoveryInv

LEMMA BackupStep == ASSUME TypeOK, RecoveryInv, Backup \/ Restore PROVE RecoveryInv'
<1>1. \A a \in Attempt : live[a].generation \in Nat
  BY DEF TypeOK, Catalog, Row
<1>2. CopiesBehind'
  BY <1>1 DEF RecoveryInv, LiveSound, CopiesBehind, NotAhead, Backup, Restore
<1>3. LiveSound' /\ WorkOpen' /\ OpenedAlone' /\ NotResurrected'
  BY DEF RecoveryInv, LiveSound, WorkOpen, OpenedAlone, NotResurrected, Backup, Restore, exportVars
<1>4. Exported' /\ DueListed'
  BY DEF RecoveryInv, Exported, DueListed, Listed, Backup, Restore, exportVars
<1>5. ImportsApplied' /\ OnlyErased'
  BY DEF RecoveryInv, CopiesBehind, ImportsApplied, OnlyErased, Backup, Restore, exportVars
<1> QED
  BY <1>2, <1>3, <1>4, <1>5 DEF RecoveryInv

\* The cursor that begins an export is before every attempt.
LEMMA Positive == \A a \in Attempt : a \in Nat /\ a > 0
<1>1. ASSUME NEW a \in Attempt PROVE a \in Nat /\ a # 0
  BY RecoveryAssumption
<1> QED
  BY <1>1

\* A page never leaves a due attempt behind its cursor.
LEMMA ExportStep == ASSUME TypeOK, RecoveryInv, Export PROVE RecoveryInv'
<1> USE DEF RecoveryInv
<1>0. /\ pages \in Seq(SUBSET Entry) /\ due \subseteq Attempt /\ imports \subseteq DOMAIN pages
      /\ Attempt \subseteq Nat \ {0} /\ cursor \in Attempt \cup {0}
  BY RecoveryAssumption DEF TypeOK, Entry, Export
<1>1. Page \subseteq Entry
  <2>1. \A a \in First(Rows, Limit) : a \in Attempt /\ live[a].target \in Nat
    BY RowsType DEF TypeOK, Catalog, Row
  <2> QED
    BY <2>1 DEF Page, Entry
<1>2. /\ DOMAIN pages' = DOMAIN pages \cup {Len(pages) + 1}
      /\ pages'[Len(pages) + 1] = Page
      /\ \A i \in DOMAIN pages : pages'[i] = pages[i]
      /\ pages' # <<>>
  BY <1>0, <1>1 DEF Export
<1>3. LiveSound' /\ WorkOpen' /\ OpenedAlone' /\ CopiesBehind'
  BY DEF LiveSound, WorkOpen, OpenedAlone, CopiesBehind, NotAhead, Export
<1>4. ImportsApplied' /\ OnlyErased' /\ NotResurrected'
  BY <1>0, <1>2 DEF ImportsApplied, OnlyErased, NotResurrected, Export
<1>5. \A a \in Rows : a \in Attempt /\ live[a].deletion = "completed"
  BY DEF Rows, Exportable
<1>6. Exported'
  <2>1. \A e \in Page : live[e.attempt].deletion = "completed" /\ e.generation = live[e.attempt].generation
    <3>1. \A a \in First(Rows, Limit) : live[a].deletion = "completed" /\ live[a].target = live[a].generation
      BY <1>5, RowsType DEF LiveSound, Sound
    <3> QED
      BY <3>1 DEF Page
  <2>2. \A a \in due' : live[a].deletion = "completed"
    BY DEF Export, Exported
  <2> QED
    BY <1>2, <2>1, <2>2 DEF Export, Exported
<1>7. ASSUME NEW a \in due' PROVE Listed(a)' \/ (cursor' # None /\ a > cursor')
  <2>1. CASE Listed(a)
    BY <1>2, <2>1 DEF Listed
  <2>2. CASE ~Listed(a)
    <3>1. a \in Rows
      <4>1. CASE pages = <<>>
        <5>1. a \in Attempt /\ live[a].deletion = "completed" /\ cursor = 0
          BY <1>7, <4>1 DEF Export, DueListed
        <5>2. a \in Nat /\ a > 0
          BY <5>1, Positive
        <5> QED
          BY <5>1, <5>2 DEF Rows, Exportable
      <4>2. CASE pages # <<>>
        <5>1. a \in due /\ ~opened
          BY <1>7, <4>2 DEF Export
        <5>2. a > cursor
          BY <2>2, <5>1 DEF DueListed
        <5>3. live[a].deletion = "completed"
          BY <5>1 DEF Exported
        <5> QED
          BY <1>0, <5>1, <5>2, <5>3 DEF Rows, Exportable
      <4> QED
        BY <4>1, <4>2
    <3>2. CASE a \in First(Rows, Limit)
      <4>1. [attempt |-> a, generation |-> live[a].target] \in Page
        BY <3>2 DEF Page
      <4>2. \E e \in Page : e.attempt = a
        BY <4>1
      <4> QED
        BY <1>2, <4>2 DEF Listed
    <3>3. CASE a \notin First(Rows, Limit)
      <4>1. Cardinality(Rows) > Limit /\ \A x \in First(Rows, Limit) : x < a
        BY <3>1, <3>3, RowsType, FirstCuts, RecoveryAssumption
      <4>2. NextCursor \in First(Rows, Limit) /\ NextCursor \in Attempt
        BY <4>1, CursorType
      <4>3. NextCursor # None /\ NextCursor < a /\ a \in Nat /\ NextCursor \in Nat
        BY <1>0, <1>5, <3>1, <4>1, <4>2, RecoveryAssumption
      <4> QED
        BY <4>3 DEF Export
    <3> QED
      BY <3>2, <3>3
  <2> QED
    BY <2>1, <2>2
<1>8. DueListed'
  BY <1>2, <1>7 DEF DueListed
<1> QED
  BY <1>3, <1>4, <1>6, <1>8

\* A bundle applied to the restored catalog tombstones every attempt it lists: the
\* backup's generation cannot be newer than the erased one.
LEMMA ApplyStep ==
  ASSUME TypeOK, RecoveryInv, ~opened, NEW i \in DOMAIN pages, Apply(i)
  PROVE  RecoveryInv'
<1> USE DEF RecoveryInv
<1>0. /\ restored # None /\ restored \in Catalog /\ restored' = Reconciled(restored, i)
      /\ UNCHANGED <<live, backup, opened, work, pages, cursor, due>>
      /\ imports' = imports \cup {i}
  BY DEF Apply, TypeOK, exportVars
<1>1. \A a \in Attempt : /\ restored[a] \in Row /\ live[a] \in Row
                         /\ restored[a].generation \in Nat /\ live[a].generation \in Nat
                         /\ restored[a].generation <= live[a].generation
                         /\ Sound(restored[a])
  BY <1>0 DEF TypeOK, Catalog, Row, CopiesBehind, NotAhead
<1>2. \A j \in DOMAIN pages : \A e \in pages[j] :
        /\ e.attempt \in Attempt /\ live[e.attempt].deletion = "completed"
        /\ e.generation = live[e.attempt].generation
  BY DEF TypeOK, Exported
<1> DEFINE Hit(a) == i \notin imports /\ \E e \in pages[i] : e.attempt = a
<1>3. ASSUME NEW a \in Attempt, Hit(a)
      PROVE  restored'[a] = Tombstoned(restored[a], live[a].generation)
  <2> DEFINE x == CHOOSE e \in pages[i] : e.attempt = a
  <2>1. x \in pages[i] /\ x.attempt = a
    BY <1>3
  <2>2. x.generation = live[a].generation
    BY <1>2, <2>1
  <2>3. \E e \in pages[i] : e.attempt = a /\ restored[a].generation <= e.generation
    BY <1>1, <2>1, <2>2
  <2>4. restored'[a] = Tombstoned(restored[a], x.generation)
    BY <1>0, <1>3, <2>3 DEF Reconciled
  <2> QED
    BY <2>2, <2>4
<1>4. ASSUME NEW a \in Attempt, ~Hit(a) PROVE restored'[a] = restored[a]
  BY <1>0, <1>4 DEF Reconciled
<1>5. ASSUME NEW a \in Attempt, Hit(a)
      PROVE  /\ Applied(restored'[a]) /\ Sound(restored'[a])
             /\ restored'[a].generation = live[a].generation
             /\ live[a].deletion = "completed"
  <2>1. LET q == Tombstoned(restored[a], live[a].generation)
        IN  q.generation = live[a].generation /\ q.fenced /\ q.hold # "active"
            /\ q.deletion = "pending" /\ q.target = live[a].generation /\ q.attempts = 0
    BY <1>1, RowFields
  <2>2. live[a].deletion = "completed"
    BY <1>2, <1>5
  <2> QED
    BY <1>3, <1>5, <2>1, <2>2 DEF Applied, Sound
<1> HIDE DEF Hit
<1>6. LiveSound' /\ WorkOpen' /\ OpenedAlone' /\ NotResurrected'
  BY <1>0 DEF LiveSound, WorkOpen, OpenedAlone, NotResurrected
<1>7. Exported' /\ DueListed'
  BY <1>0 DEF Exported, DueListed, Listed
<1>8. CopiesBehind'
  <2>1. \A a \in Attempt : Sound(restored'[a]) /\ restored'[a].generation <= live[a].generation
    BY <1>1, <1>4, <1>5
  <2> QED
    BY <1>0, <2>1 DEF CopiesBehind, NotAhead
<1>9. ImportsApplied'
  <2> SUFFICES ASSUME NEW j \in imports \cup {i}, NEW e \in pages[j]
               PROVE  Applied(restored'[e.attempt])
    BY <1>0 DEF ImportsApplied
  <2>1. j \in DOMAIN pages /\ e.attempt \in Attempt
    BY <1>2 DEF TypeOK
  <2>2. CASE Hit(e.attempt)
    BY <1>5, <2>1, <2>2
  <2>3. CASE ~Hit(e.attempt)
    <3>1. j \in imports
      BY <2>3 DEF Hit
    <3> QED
      BY <1>0, <1>4, <2>1, <2>3, <3>1 DEF ImportsApplied
  <2> QED
    BY <2>2, <2>3
<1>10. OnlyErased'
  BY <1>0, <1>4, <1>5 DEF OnlyErased
<1> QED
  BY <1>6, <1>7, <1>8, <1>9, <1>10

LEMMA RecoveryStep == TypeOK /\ RecoveryInv /\ [Next]_vars => RecoveryInv'
<1> SUFFICES ASSUME TypeOK, RecoveryInv, [Next]_vars PROVE RecoveryInv'
  OBVIOUS
<1>1. CASE Open
  BY <1>1, OpenStep
<1>2. CASE ~Open
  <2>1. ASSUME NEW a \in Attempt, Traffic(a) PROVE RecoveryInv'
    <3>1. UNCHANGED <<backup, restored, opened, imports, exportVars>>
      BY <2>1 DEF Traffic, Admit, PlaceHold, ReleaseHold, Delete, Claim, Serve
    <3> QED
      BY <1>2, <3>1, ServingStep
  <2>2. CASE WorkerStep \/ Crash \/ UNCHANGED vars
    <3>1. UNCHANGED <<backup, restored, opened, imports, exportVars>>
      BY <2>2 DEF WorkerStep, Decline, Erase, EraseFail, FailRead, FailWrite, Crash, Serve, vars
    <3> QED
      BY <1>2, <3>1, ServingStep
  <2>3. CASE Backup \/ Restore
    BY <2>3, BackupStep
  <2>4. CASE Export
    BY <2>4, ExportStep
  <2>5. ASSUME NEW i \in DOMAIN pages, Apply(i) PROVE RecoveryInv'
    <3>1. CASE opened
      <4>1. UNCHANGED <<backup, restored, opened, exportVars>> /\ i \in imports
        BY <2>5, <3>1 DEF Apply, RecoveryInv, OpenedAlone
      <4>2. UNCHANGED imports
        BY <2>5, <4>1 DEF Apply
      <4> QED
        BY <1>2, <4>1, <4>2, ServingStep
    <3>2. CASE ~opened
      BY <2>5, <3>2, ApplyStep
    <3> QED
      BY <3>1, <3>2
  <2> QED
    BY <1>2, <2>1, <2>2, <2>3, <2>4, <2>5 DEF Next, Operator
<1> QED
  BY <1>1, <1>2

LEMMA RecoveryAlways == Spec => [](TypeOK /\ RecoveryInv)
<1>1. Init => TypeOK /\ RecoveryInv
  BY TypeInit, RecoveryInit
<1>2. TypeOK /\ RecoveryInv /\ [Next]_vars => TypeOK' /\ RecoveryInv'
  BY TypeStep, RecoveryStep
<1> QED
  BY <1>1, <1>2, PTL DEF Spec

-----------------------------------------------------------------------------
(* What reconciliation guarantees. *)

\* Reconciliation changes, of the restored catalog, only attempts whose erasure has
\* completed in the surviving one, however many attempts and pages there are.
THEOREM ErasedOnly == Spec => []OnlyErased
<1>1. RecoveryInv => OnlyErased
  BY DEF RecoveryInv
<1> QED
  BY <1>1, RecoveryAlways, PTL

\* When the last page is imported, every attempt that was erased when the export began
\* is fenced, unheld and queued for cleanup in the restored catalog, for every page size.
THEOREM PagesCover == Spec => []ReadyToServe
<1>1. RecoveryInv => ReadyToServe
  BY ReadyApplied DEF ReadyToServe, Applied
<1> QED
  BY <1>1, RecoveryAlways, PTL

\* Once the restored catalog serves, an erased attempt stays fenced, and evidence that
\* came back is never without a deletion that is on its way or was given up.
THEOREM ErasureSurvives == Spec => []NotResurrected
<1>1. RecoveryInv => NotResurrected
  BY DEF RecoveryInv
<1> QED
  BY <1>1, RecoveryAlways, PTL

\* No step after the switch, a repeated bundle included, ends a hold but its release.
THEOREM HoldsSurvive == Spec => HoldKept
<1>1. TypeOK /\ RecoveryInv /\ [Next]_vars =>
        [\A a \in Attempt :
            opened /\ live[a].hold = "active" /\ live'[a].hold # "active" => ReleaseHold(a)]_vars
  <2> SUFFICES ASSUME TypeOK, RecoveryInv, [Next]_vars, opened, NEW a \in Attempt,
                      live[a].hold = "active", live'[a].hold # "active"
               PROVE  ReleaseHold(a)
    OBVIOUS
  <2>1. ~Open
    BY DEF Open, Ready, RecoveryInv, OpenedAlone
  <2> QED
    BY <2>1, Evolution DEF RecoveryInv
<1> QED
  BY <1>1, RecoveryAlways, PTL DEF Spec, HoldKept
=============================================================================
