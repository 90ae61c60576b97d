--------------------------- MODULE Retention_proofs ---------------------------
(* Proofs about Retention, for every value of its constants. *)
EXTENDS Retention, FiniteSetTheorems, NaturalsInduction, WellFoundedInduction, TLAPS

Policy == [case: Scope, seconds: Seconds, effective: Time]
Record == [case: Scope, admitted: Time \cup {None}, version: Versions \cup {0},
           expires: Nat \cup {None}]

\* An attempt that has a row was admitted at some time.
Admitted == \A a \in Known : record[a].admitted \in Time

Typed == TypeOK /\ Admitted

(* Choosing a revision: the greatest version of a non-empty set of versions. *)

LEMMA GreatestVersion ==
  ASSUME NEW n \in Nat, NEW V \in SUBSET (1 .. n), V # {}
  PROVE  \E v \in V : \A w \in V : w <= v
<1> DEFINE T == {n - v : v \in V}
<1>0. \A v \in V : v \in Int /\ n - v \in Nat
  OBVIOUS
<1>1. T \in SUBSET Nat /\ T # {}
  BY <1>0
<1>2. PICK m \in T : \A k \in T : <<k, m>> \notin OpToRel(<, Nat)
  BY <1>1, NatLessThanWellFounded, WFMin
<1>3. \A k \in T : ~(k < m)
  BY <1>1, <1>2 DEF OpToRel
<1>4. PICK v \in V : m = n - v
  OBVIOUS
<1>5. ASSUME NEW w \in V PROVE w <= v
  <2>1. ~(n - w < n - v)
    BY <1>3, <1>4
  <2>2. w \in Int /\ v \in Int
    OBVIOUS
  <2> QED
    BY <2>1, <2>2
<1> QED
  BY <1>5

\* Preferred chooses one of the revisions it is given, if there is one.
LEMMA PreferredChooses ==
  ASSUME TypeOK, NEW V \in SUBSET Versions, V # {}
  PROVE  Preferred(V) \in V
<1> DEFINE Own == {v \in V : policy[v].case # None}
           Goes(v, w) == \/ policy[v].case # None /\ policy[w].case = None
                         \/ (policy[v].case = None <=> policy[w].case = None) /\ w <= v
<1>1. Len(policy) \in Nat
  BY DEF TypeOK
<1>2. \A S \in SUBSET V : S # {} => \E v \in S : \A w \in S : w <= v
  BY <1>1, GreatestVersion DEF Versions
<1>3. \E v \in V : \A w \in V : Goes(v, w)
  <2>1. CASE Own # {}
    <3>1. PICK v \in Own : \A w \in Own : w <= v
      BY <1>2, <2>1
    <3> QED
      BY <3>1
  <2>2. CASE Own = {}
    <3>1. PICK v \in V : \A w \in V : w <= v
      BY <1>2
    <3> QED
      BY <2>2, <3>1
  <2> QED
    BY <2>1, <2>2
<1> QED
  BY <1>3 DEF Preferred

LEMMA DeadlineType ==
  ASSUME NEW t \in Time, NEW s \in Nat PROVE Deadline(t, s) \in Nat \cup {None}
  BY RetentionAssumption DEF Deadline, Time

-----------------------------------------------------------------------------
(* Types. *)

LEMMA TypeInit == Init => Typed
<1> SUFFICES ASSUME Init PROVE Typed
  OBVIOUS
<1>1. Known = {}
  BY DEF Init, Known
<1>2. Cardinality({}) = 0
  BY FS_EmptySet
<1>3. record \in [Attempt -> Record]
  BY DEF Init, NoRecord, Record, Scope
<1> QED
  BY <1>1, <1>2, <1>3, RetentionAssumption
  DEF Init, Typed, TypeOK, Admitted, Versions, Record, Time

\* A row with a time of admission is not the absent row.
LEMMA AdmittedKnown ==
  ASSUME NEW r, r.admitted \in Time PROVE r # NoRecord
<1>1. NoRecord.admitted = None /\ None \notin Time
  BY RetentionAssumption DEF NoRecord, Time
<1> QED
  BY <1>1

\* A first segment's row names a revision that is in force and fits the case, or none.
LEMMA AdmitRow ==
  ASSUME Typed, NEW a \in Attempt, NEW case \in Scope, Admit(a, case)
  PROVE  /\ record'[a].case = case /\ record'[a].admitted = now
         /\ record'[a] \in Record
         /\ \/ record'[a].version = 0 /\ record'[a].expires = Deadline(now, Default)
            \/ /\ record'[a].version \in Applicable(case)
               /\ record'[a].expires = Deadline(now, policy[record'[a].version].seconds)
         /\ record'[a] # NoRecord
         /\ \A b \in Attempt : b # a => record'[b] = record[b]
<1> DEFINE V == Applicable(case)
           version == IF V = {} THEN 0 ELSE Preferred(V)
           seconds == IF V = {} THEN Default ELSE policy[version].seconds
           r == [case |-> case, admitted |-> now, version |-> version,
                 expires |-> Deadline(now, seconds)]
<1>1. record' = [record EXCEPT ![a] = r] /\ record \in [Attempt -> Record]
  BY DEF Admit, Typed, TypeOK, Record
<1>2. record'[a] = r /\ \A b \in Attempt : b # a => record'[b] = record[b]
  BY <1>1
<1>3. V \subseteq Versions /\ (V # {} => version \in V) /\ (V = {} => version = 0)
  BY PreferredChooses DEF Applicable, Typed
<1>4. now \in Time /\ policy \in Seq(Policy)
  BY DEF Typed, TypeOK, Policy
<1>5. seconds \in Nat
  <2>1. CASE V = {}
    BY <2>1, RetentionAssumption
  <2>2. CASE V # {}
    <3>1. version \in 1 .. Len(policy)
      BY <1>3, <2>2 DEF Versions
    <3>2. policy[version] \in Policy
      BY <1>4, <3>1
    <3> QED
      BY <2>2, <3>2, RetentionAssumption DEF Policy
  <2> QED
    BY <2>1, <2>2
<1>6. Deadline(now, seconds) \in Nat \cup {None}
  BY <1>4, <1>5, DeadlineType
<1>7. seconds = IF V = {} THEN Default ELSE policy[version].seconds
  OBVIOUS
<1>8. version \in Versions \cup {0}
  BY <1>3
<1> HIDE DEF V, version, seconds
<1>9. r \in Record /\ r.case = case /\ r.admitted = now /\ r.version = version
      /\ r.expires = Deadline(now, seconds)
  BY <1>4, <1>6, <1>8 DEF Record
<1>10. r # NoRecord
  BY <1>4, <1>9, AdmittedKnown
<1> HIDE DEF r
<1> QED
  BY <1>2, <1>3, <1>7, <1>9, <1>10 DEF V

\* A backfill gives its candidates the target revision, and changes no other row.
LEMMA ApplyRow ==
  ASSUME Typed, ApplyCommit, NEW a \in Attempt
  PROVE  \/ record'[a] = record[a]
         \/ /\ a \in Known /\ a \notin requested
            /\ Allowed(preview.target, preview.source, applying)
            /\ applying # None /\ Reviewed(a)
            /\ preview.target \in Versions /\ applying \in Time
            /\ policy[preview.target].case \in {None, record[a].case}
            /\ record'[a] \in Record /\ record'[a] # NoRecord
            /\ record'[a].case = record[a].case
            /\ record'[a].admitted = record[a].admitted
            /\ record'[a].version = preview.target
            /\ record'[a].expires = Deadline(record[a].admitted, policy[preview.target].seconds)
<1> DEFINE t == preview.target
           C == Candidates(t, preview.source)
           q == [record[a] EXCEPT !.version = t,
                                  !.expires = Deadline(record[a].admitted, policy[t].seconds)]
<1> SUFFICES ASSUME record'[a] # record[a]
             PROVE  /\ a \in Known /\ a \notin requested
                    /\ Allowed(preview.target, preview.source, applying)
                    /\ applying # None /\ Reviewed(a)
                    /\ preview.target \in Versions /\ applying \in Time
                    /\ policy[preview.target].case \in {None, record[a].case}
                    /\ record'[a] \in Record /\ record'[a] # NoRecord
                    /\ record'[a].case = record[a].case
                    /\ record'[a].admitted = record[a].admitted
                    /\ record'[a].version = preview.target
                    /\ record'[a].expires
                         = Deadline(record[a].admitted, policy[preview.target].seconds)
  OBVIOUS
<1>1. /\ a \in C /\ record'[a] = q /\ Allowed(t, preview.source, applying)
      /\ Digest(t, preview.source) = preview.digest /\ applying # None
  BY DEF ApplyCommit
<1>2. a \in Known /\ a \notin requested /\ policy[t].case \in {None, record[a].case}
  BY <1>1 DEF Candidates
<1>3. t \in Versions /\ applying \in Time
  BY <1>1 DEF Allowed, Typed, TypeOK
<1>4. policy[t].seconds \in Nat
  <2>1. policy \in Seq(Policy) /\ t \in 1 .. Len(policy)
    BY <1>3 DEF Typed, TypeOK, Versions, Policy
  <2>2. policy[t] \in Policy
    BY <2>1
  <2> QED
    BY <2>2, RetentionAssumption DEF Policy
<1>5. record[a] \in Record /\ record[a].admitted \in Time
  BY <1>2 DEF Typed, TypeOK, Admitted, Record
<1>6. Deadline(record[a].admitted, policy[t].seconds) \in Nat \cup {None}
  BY <1>4, <1>5, DeadlineType
<1>7. Reviewed(a)
  <2>1. preview.digest = [x \in C |-> Assignment(record[x])]
    BY <1>1 DEF Digest, Assignment
  <2> QED
    BY <1>1, <2>1 DEF Reviewed
<1> HIDE DEF t, C
<1>8. /\ q \in Record /\ q.case = record[a].case /\ q.admitted = record[a].admitted
      /\ q.version = t /\ q.expires = Deadline(record[a].admitted, policy[t].seconds)
  BY <1>3, <1>5, <1>6 DEF Record
<1>9. q # NoRecord
  BY <1>5, <1>8, AdmittedKnown
<1> HIDE DEF q
<1> QED
  BY <1>1, <1>2, <1>3, <1>7, <1>8, <1>9 DEF t

\* A later segment only names the case.
LEMMA AdmitMoreRow ==
  ASSUME Typed, NEW a \in Attempt, NEW case \in Scope, AdmitMore(a, case)
  PROVE  /\ record'[a] \in Record /\ record'[a] # NoRecord
         /\ record'[a].case = case /\ record[a].case = None /\ a \in Known
         /\ record'[a].admitted = record[a].admitted
         /\ record'[a].version = record[a].version
         /\ record'[a].expires = record[a].expires
         /\ \A b \in Attempt : b # a => record'[b] = record[b]
<1> DEFINE r == [record[a] EXCEPT !.case = case]
<1>1. /\ record' = [record EXCEPT ![a] = r] /\ record \in [Attempt -> Record]
      /\ record[a].admitted \in Time /\ record[a].case = None /\ a \in Known
  BY DEF AdmitMore, Typed, TypeOK, Record, Admitted
<1>2. record'[a] = r /\ \A b \in Attempt : b # a => record'[b] = record[b]
  BY <1>1
<1>3. /\ r \in Record /\ r.case = case /\ r.admitted = record[a].admitted
      /\ r.version = record[a].version /\ r.expires = record[a].expires
  BY <1>1 DEF Record
<1>4. r # NoRecord
  BY <1>1, <1>3, AdmittedKnown
<1> HIDE DEF r
<1> QED
  BY <1>1, <1>2, <1>3, <1>4

\* Rows of known attempts: each was there before, and may have been reassigned by a
\* backfill or given its case, or is new.
LEMMA RecordsType ==
  ASSUME Typed, record' \in [Attempt -> Record], \A a \in Attempt :
            record'[a] # record[a] => record'[a] # NoRecord /\ record'[a].admitted \in Time
  PROVE  Admitted' /\ Known \subseteq Known'
  BY DEF Typed, Admitted, Known, TypeOK

LEMMA TypeStep == Typed /\ [Next]_vars => Typed'
<1> SUFFICES ASSUME Typed, [Next]_vars PROVE Typed'
  OBVIOUS
<1>0. /\ now \in Time /\ policy \in Seq(Policy) /\ record \in [Attempt -> Record]
      /\ Admitted /\ IsFiniteSet(Attempt) /\ Len(policy) \in Nat
  BY RetentionAssumption DEF Typed, TypeOK, Policy, Record
<1>d. IsFiniteSet(due) /\ \A a : IsFiniteSet(due \ {a}) /\ Cardinality(due \ {a}) <= Batch
  <2>1. due \in SUBSET Attempt /\ Cardinality(due) <= Batch /\ Batch \in Nat
    BY RetentionAssumption DEF Typed, TypeOK, Known
  <2>2. IsFiniteSet(due)
    BY <1>0, <2>1, FS_Subset
  <2>3. ASSUME NEW a PROVE IsFiniteSet(due \ {a}) /\ Cardinality(due \ {a}) <= Batch
    <3>1. due \ {a} \in SUBSET due
      OBVIOUS
    <3>2. /\ IsFiniteSet(due \ {a}) /\ Cardinality(due \ {a}) <= Cardinality(due)
          /\ Cardinality(due \ {a}) \in Nat /\ Cardinality(due) \in Nat
      BY <2>2, <3>1, FS_Subset, FS_CardinalityType
    <3> QED
      BY <2>1, <3>2
  <2> QED
    BY <2>2, <2>3
<1>1. CASE Tick
  <2>1. now' \in Time
    BY <1>0, <1>1, RetentionAssumption DEF Tick, Time
  <2> QED
    BY <1>1, <2>1 DEF Tick, Typed, TypeOK, Admitted, Known, Versions
<1>2. CASE SweepList
  <2>1. PICK L \in SUBSET Expired : Cardinality(L) <= Batch /\ due' = L
    BY <1>2 DEF SweepList
  <2>2. due' \subseteq Known /\ Cardinality(due') <= Batch
    BY <2>1 DEF Expired
  <2> QED
    BY <1>2, <2>2 DEF SweepList, Typed, TypeOK, Admitted, Known, Versions
<1>3. ASSUME NEW a \in Attempt, SweepDelete(a) PROVE Typed'
  <2>1. due' \subseteq Known /\ Cardinality(due') <= Batch /\ requested' \subseteq Attempt
    BY <1>d, <1>3 DEF SweepDelete, Typed, TypeOK
  <2> QED
    BY <1>3, <2>1 DEF SweepDelete, Typed, TypeOK, Admitted, Known, Versions
<1>4. ASSUME NEW a \in Attempt, Delete(a) PROVE Typed'
  BY <1>4 DEF Delete, Typed, TypeOK, Admitted, Known, Versions
<1>5. CASE CancelCommit \/ ApplyBegin \/ \E v \in Versions : CancelBegin(v)
  BY <1>5 DEF CancelCommit, ApplyBegin, CancelBegin, Typed, TypeOK, Admitted, Known, Versions
<1>6. ASSUME NEW case \in Scope, NEW seconds \in Seconds, NEW effective \in 0 .. MaxTime,
             Create(case, seconds, effective) PROVE Typed'
  <2>1. /\ policy' \in Seq(Policy) /\ Len(policy') = Len(policy) + 1
    BY <1>0, <1>6 DEF Create, Policy, Time
  <2>2. Versions \subseteq Versions'
    BY <1>0, <2>1 DEF Versions
  <2>3. Record \subseteq Record'
    BY <2>2 DEF Record
  <2>4. record' \in [Attempt -> Record']
    BY <1>0, <1>6, <2>3 DEF Create
  <2>5. Known' = Known /\ Admitted'
    BY <1>0, <1>6 DEF Create, Known, Admitted
  <2> QED
    BY <1>6, <2>1, <2>2, <2>4, <2>5 DEF Create, Typed, TypeOK, Record, Policy
<1>7. ASSUME record' \in [Attempt -> Record], \A a \in Attempt :
                record'[a] # record[a] => record'[a] # NoRecord /\ record'[a].admitted \in Time,
             UNCHANGED <<now, policy, cancelled, requested, due, cancelling>>,
             \/ UNCHANGED <<preview, applying>>
             \/ preview' = None /\ applying' = None
      PROVE  Typed'
  <2>1. Admitted' /\ Known \subseteq Known'
    BY <1>7, RecordsType
  <2> QED
    BY <1>7, <2>1 DEF Typed, TypeOK, Record, Versions
<1>8. ASSUME NEW a \in Attempt, NEW case \in Scope, Admit(a, case) PROVE Typed'
  <2>1. /\ record'[a] \in Record /\ record'[a] # NoRecord /\ record'[a].admitted = now
        /\ \A b \in Attempt : b # a => record'[b] = record[b]
    BY <1>8, AdmitRow
  <2>2. record' \in [Attempt -> Record]
    <3>1. \A b \in Attempt : record'[b] \in Record
      BY <1>0, <2>1
    <3>2. DOMAIN record' = Attempt /\ record' = [b \in Attempt |-> record'[b]]
      BY <1>0, <1>8 DEF Admit
    <3> QED
      BY <3>1, <3>2
  <2> QED
    BY <1>0, <1>7, <1>8, <2>1, <2>2 DEF Admit
<1>9. ASSUME NEW a \in Attempt, NEW case \in Scope, AdmitMore(a, case) PROVE Typed'
  <2>1. /\ record'[a] \in Record /\ record'[a] # NoRecord /\ a \in Known
        /\ record'[a].admitted = record[a].admitted
        /\ \A b \in Attempt : b # a => record'[b] = record[b]
    BY <1>9, AdmitMoreRow
  <2>2. record' \in [Attempt -> Record]
    <3>1. \A b \in Attempt : record'[b] \in Record
      BY <1>0, <2>1
    <3>2. DOMAIN record' = Attempt /\ record' = [b \in Attempt |-> record'[b]]
      BY <1>0, <1>9 DEF AdmitMore
    <3> QED
      BY <3>1, <3>2
  <2>3. record[a].admitted \in Time
    BY <1>0, <2>1 DEF Admitted
  <2> QED
    BY <1>7, <1>9, <2>1, <2>2, <2>3 DEF AdmitMore
<1>10. CASE ApplyCommit
  <2>1. \A a \in Attempt : record'[a] # record[a] =>
          /\ record'[a] \in Record /\ record'[a] # NoRecord /\ a \in Known
          /\ record'[a].admitted = record[a].admitted
    BY <1>10, ApplyRow
  <2>2. record' \in [Attempt -> Record]
    <3>1. \A b \in Attempt : record'[b] \in Record
      BY <1>0, <2>1
    <3>2. DOMAIN record' = Attempt /\ record' = [b \in Attempt |-> record'[b]]
      BY <1>0, <1>10 DEF ApplyCommit
    <3> QED
      BY <3>1, <3>2
  <2>3. \A a \in Attempt :
          record'[a] # record[a] => record'[a] # NoRecord /\ record'[a].admitted \in Time
    BY <1>0, <2>1 DEF Admitted
  <2> QED
    BY <1>7, <1>10, <2>2, <2>3 DEF ApplyCommit
<1>11. ASSUME NEW target \in Versions, NEW source \in Versions \cup {0},
              Preview(target, source) PROVE Typed'
  <2>1. preview'.target = target /\ preview'.source = source
    BY <1>11 DEF Preview
  <2> QED
    BY <1>11, <2>1 DEF Preview, Typed, TypeOK, Admitted, Known, Versions
<1>12. CASE UNCHANGED vars
  BY <1>12 DEF vars, Typed, TypeOK, Admitted, Known, Versions
<1> QED
  BY <1>1, <1>2, <1>3, <1>4, <1>5, <1>6, <1>8, <1>9, <1>10, <1>11, <1>12 DEF Next, Sweep

\* Rows, revisions, the sweeper's batch and the calls under way keep their shape; the
\* version a row names is always that of a revision.
THEOREM TypeCorrect == Spec => []TypeOK
<1>1. Typed => TypeOK
  BY DEF Typed
<1> QED
  BY <1>1, TypeInit, TypeStep, PTL DEF Spec

-----------------------------------------------------------------------------
(* The expiry an attempt has. *)

\* The clock an application read is not ahead of the clock.
NotAhead == applying # None => applying <= now

\* A row agrees with the policies P at time t.
Agrees(r, P, t) ==
    IF r.version = 0 THEN r.expires = Deadline(r.admitted, Default)
    ELSE /\ r.expires = Deadline(r.admitted, P[r.version].seconds)
         /\ P[r.version].effective <= t
         /\ P[r.version].case \in {None, r.case}

LEMMA ConsistentAgrees == Consistent <=> \A a \in Known : Agrees(record[a], policy, now)
  BY DEF Consistent, Agrees

\* Revisions are only ever added and the clock only moves on.
LEMMA PoliciesGrow ==
  ASSUME Typed, [Next]_vars
  PROVE  /\ now' >= now /\ now \in Int /\ now' \in Int
         /\ \A v \in Versions : policy'[v] = policy[v] /\ policy[v].effective \in Int
<1>1. now \in Int /\ now' \in Int
  BY TypeStep DEF Typed, TypeOK, Time
<1>2. policy \in Seq(Policy)
  BY DEF Typed, TypeOK, Policy
<1>3. \A v \in Versions : policy[v].effective \in Int
  <2>1. \A v \in Versions : policy[v] \in Policy
    BY <1>2 DEF Versions
  <2> QED
    BY <2>1 DEF Policy, Time
<1>4. now' = now + 1 \/ now' = now
  BY DEF Next, Sweep, Tick, SweepList, SweepDelete, Delete, CancelCommit, CancelBegin, ApplyBegin,
     ApplyCommit, Create, Admit, AdmitMore, Preview, vars
<1>5. policy' = policy \/ \E p \in Policy : policy' = Append(policy, p)
  <2>1. ASSUME NEW case \in Scope, NEW seconds \in Seconds, NEW effective \in 0 .. MaxTime,
               Create(case, seconds, effective)
        PROVE  \E p \in Policy : policy' = Append(policy, p)
    <3>1. [case |-> case, seconds |-> seconds, effective |-> effective] \in Policy
      BY DEF Policy, Time
    <3> QED
      BY <2>1, <3>1 DEF Create
  <2> QED
    BY <2>1
    DEF Next, Sweep, Tick, SweepList, SweepDelete, Delete, CancelCommit, CancelBegin, ApplyBegin,
        ApplyCommit, Admit, AdmitMore, Preview, vars
<1>6. \A v \in Versions : policy'[v] = policy[v]
  BY <1>2, <1>5 DEF Versions
<1> QED
  BY <1>1, <1>3, <1>4, <1>6

\* What a row agrees with it agrees with later.
LEMMA AgreesLater ==
  ASSUME Typed, [Next]_vars, NEW a \in Known, Agrees(record[a], policy, now)
  PROVE  Agrees(record[a], policy', now')
<1>1. record[a].version \in Versions \cup {0}
  BY DEF Typed, TypeOK, Known
<1> QED
  BY <1>1, PoliciesGrow DEF Agrees

LEMMA ConsistentStep ==
  Typed /\ Consistent /\ NotAhead /\ [Next]_vars => Consistent' /\ NotAhead'
<1> SUFFICES ASSUME Typed, Consistent, NotAhead, [Next]_vars PROVE Consistent' /\ NotAhead'
  OBVIOUS
<1>0. /\ now' >= now /\ now \in Int /\ now' \in Int
      /\ applying \in Int \cup {None}
      /\ \A v \in Versions : policy'[v] = policy[v] /\ policy[v].effective \in Int
  BY PoliciesGrow DEF Typed, TypeOK, Time
<1>1. NotAhead'
  <2>1. applying' = applying \/ applying' = None \/ (applying' = now /\ now' = now)
    BY DEF Next, Sweep, Tick, SweepList, SweepDelete, Delete, CancelCommit, CancelBegin, ApplyBegin,
       ApplyCommit, Create, Admit, AdmitMore, Preview, vars
  <2> QED
    BY <1>0, <2>1 DEF NotAhead
<1>2. \A a \in Known : Agrees(record[a], policy', now')
  BY ConsistentAgrees, AgreesLater
<1>3. ASSUME NEW a \in Attempt, record'[a] # NoRecord PROVE Agrees(record'[a], policy', now')
  <2>1. CASE record'[a] = record[a]
    BY <1>2, <1>3, <2>1 DEF Known
  <2>2. ASSUME record'[a] # record[a], NEW case \in Scope, Admit(a, case)
        PROVE  Agrees(record'[a], policy', now')
    <3>1. /\ record'[a].case = case /\ record'[a].admitted = now
          /\ \/ record'[a].version = 0 /\ record'[a].expires = Deadline(now, Default)
             \/ /\ record'[a].version \in Applicable(case)
                /\ record'[a].expires = Deadline(now, policy[record'[a].version].seconds)
      BY <2>2, AdmitRow
    <3>2. policy' = policy /\ now' = now
      BY <2>2 DEF Admit
    <3> DEFINE v == record'[a].version
    <3>3. v \in Applicable(case) =>
            v \in Versions /\ policy[v].effective <= now /\ policy[v].case \in {None, case}
      BY DEF Applicable
    <3>4. v \in Versions => v # 0
      BY DEF Versions
    <3>5. CASE v = 0
      BY <3>1, <3>3, <3>4, <3>5 DEF Agrees
    <3>6. CASE v # 0
      BY <3>1, <3>2, <3>3, <3>6 DEF Agrees
    <3> QED
      BY <3>5, <3>6
  <2>3. ASSUME record'[a] # record[a], NEW case \in Scope, AdmitMore(a, case)
        PROVE  Agrees(record'[a], policy', now')
    <3>1. /\ record'[a].case = case /\ record[a].case = None /\ a \in Known
          /\ record'[a].admitted = record[a].admitted
          /\ record'[a].version = record[a].version
          /\ record'[a].expires = record[a].expires
      BY <2>3, AdmitMoreRow
    <3>2. Agrees(record[a], policy', now')
      BY <1>2, <3>1
    <3> QED
      BY <3>1, <3>2 DEF Agrees
  <2>4. ASSUME record'[a] # record[a], ApplyCommit PROVE Agrees(record'[a], policy', now')
    <3> DEFINE t == preview.target
    <3>1. /\ Allowed(t, preview.source, applying) /\ applying # None /\ t \in Versions
          /\ policy[t].case \in {None, record[a].case}
          /\ record'[a].case = record[a].case
          /\ record'[a].admitted = record[a].admitted /\ record'[a].version = t
          /\ record'[a].expires = Deadline(record[a].admitted, policy[t].seconds)
      BY <2>4, ApplyRow
    <3>2. policy[t].effective <= applying
      BY <3>1 DEF Allowed
    <3>3. policy[t].effective <= now' /\ policy'[t] = policy[t]
      BY <1>0, <3>1, <3>2 DEF NotAhead
    <3>4. t # 0
      BY <3>1 DEF Versions
    <3> HIDE DEF t
    <3> QED
      BY <3>1, <3>3, <3>4 DEF Agrees
  <2>5. ASSUME record'[a] # record[a]
        PROVE  ApplyCommit \/ \E case \in Scope : Admit(a, case) \/ AdmitMore(a, case)
    <3>1. ASSUME NEW b \in Attempt, b # a, NEW case \in Scope, Admit(b, case) \/ AdmitMore(b, case)
          PROVE  record'[a] = record[a]
      BY <3>1, AdmitRow, AdmitMoreRow
    <3> QED
      BY <2>5, <3>1
      DEF Next, Sweep, Tick, SweepList, SweepDelete, Delete, CancelCommit, CancelBegin,
          ApplyBegin, Create, Preview, vars
  <2> QED
    BY <2>1, <2>2, <2>3, <2>4, <2>5
<1>4. Consistent'
  <2>1. \A a \in Known' : Agrees(record'[a], policy', now')
    BY <1>3 DEF Known
  <2> QED
    BY <2>1 DEF Consistent, Agrees
<1> QED
  BY <1>1, <1>4

\* After any number of revisions, cancellations, later segments and migrations, the
\* expiry of every row is that of the revision it names, which was in force and fits
\* the attempt's case.
THEOREM ExpiryRecomputable == Spec => []Consistent
<1>1. Init => Consistent /\ NotAhead
  BY DEF Init, Consistent, NotAhead, Known
<1> QED
  BY <1>1, TypeInit, TypeStep, ConsistentStep, PTL DEF Spec

\* An assignment is rewritten only by a backfill that an administrator reviewed with
\* this very assignment in it, and never once deletion was requested.
THEOREM ExpiryFixed == Spec => FixedExpiry
<1>1. Typed /\ [Next]_vars => [Rewrites]_vars
  <2> SUFFICES ASSUME Typed, [Next]_vars, NEW a \in Known,
                      Assignment(record'[a]) # Assignment(record[a])
               PROVE  Reviewed(a) /\ a \notin requested
    BY DEF Rewrites
  <2>1. a \in Attempt /\ record'[a] # record[a]
    BY DEF Known
  <2>2. ASSUME NEW b \in Attempt, NEW case \in Scope, Admit(b, case) PROVE FALSE
    <3>1. b # a
      BY <2>2 DEF Admit
    <3> QED
      BY <2>1, <2>2, <3>1, AdmitRow
  <2>3. ASSUME NEW b \in Attempt, NEW case \in Scope, AdmitMore(b, case) PROVE FALSE
    BY <2>1, <2>3, AdmitMoreRow DEF Assignment
  <2>4. ApplyCommit
    BY <2>1, <2>2, <2>3
    DEF Next, Sweep, Tick, SweepList, SweepDelete, Delete, CancelCommit, CancelBegin,
        ApplyBegin, Create, Preview, vars
  <2> QED
    BY <2>1, <2>4, ApplyRow
<1> QED
  BY <1>1, TypeInit, TypeStep, PTL DEF Spec, FixedExpiry
=============================================================================
