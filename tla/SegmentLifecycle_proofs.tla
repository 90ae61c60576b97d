------------------------ MODULE SegmentLifecycle_proofs ------------------------
(* Proofs about SegmentLifecycle, for every value of its constants. *)
EXTENDS SegmentLifecycle, TLAPS

(* Row updates keep the type of a row. *)
LEMMA BlockedRow ==
  ASSUME NEW d \in DeletionRow
  PROVE  Blocked(d) \in DeletionRow /\ Blocked(d).state = "held"
  BY DEF DeletionRow, DeletionState, Blocked

LEMMA ArmedRow ==
  ASSUME NEW d \in DeletionRow, NEW g \in Nat
  PROVE  Armed(d, g) \in DeletionRow /\ Armed(d, g).state = "pending"
  BY DEF DeletionRow, DeletionState, Armed

LEMMA LeasedRow ==
  ASSUME NEW d \in DeletionRow, NEW w \in Worker
  PROVE  /\ Leased(d, w) \in DeletionRow /\ Leased(d, w).state = "processing"
         /\ Leased(d, w).generation \in Nat /\ Leased(d, w).number \in Nat
  BY DEF DeletionRow, DeletionState, Leased

LEMMA EndedRow ==
  ASSUME NEW d \in DeletionRow, NEW s \in DeletionState
  PROVE  Ended(d, s) \in DeletionRow /\ Ended(d, s).state = s
  BY DEF DeletionRow, DeletionState, Ended

LEMMA ReservationUpdate ==
  ASSUME NEW r \in Reservation, NEW s \in {"reserved", "committed", "expired"}
  PROVE  InState(r, s) \in Reservation
  BY DEF Reservation, InState

LEMMA TypeInit == Init => TypeOK
  BY LifecycleAssumption DEF Init, TypeOK, NoLease, NoDeletion, DeletionRow, DeletionState,
     CandidateState, UploadPc, WorkerPc

LEMMA TypeStep == TypeOK /\ [Next]_vars => TypeOK'
<1> SUFFICES ASSUME TypeOK, [Next]_vars PROVE TypeOK'
  OBVIOUS
<1> USE LifecycleAssumption DEF TypeOK, catalogVars, uploadVars, holdVars, workerVars, gcVars
<1>1. ASSUME NEW s \in Upload, AdmitReplay(s) PROVE TypeOK'
  BY <1>1 DEF AdmitReplay
<1>2. ASSUME NEW u \in Uploader, NEW s \in Upload, AdmitReserve(u, s) PROVE TypeOK'
  <2> DEFINE fresh == [id |-> nextId, segment |-> s, state |-> "reserved"]
  <2>1. fresh \in Reservation
    BY DEF Reservation
  <2>2. reservations' \subseteq Reservation /\ nextId' \in Nat /\ reservationId' \in [Uploader -> Nat]
    BY <1>2, <2>1 DEF AdmitReserve, Reservation
  <2> QED
    BY <1>2, <2>2 DEF AdmitReserve, UploadPc
<1>3. ASSUME NEW u \in Uploader, AdmitPut(u) PROVE TypeOK'
  BY <1>3 DEF AdmitPut, UploadPc
<1>4. ASSUME NEW u \in Uploader, AdmitCheck(u) PROVE TypeOK'
  BY <1>4 DEF AdmitCheck, UploadPc
<1>5. ASSUME NEW u \in Uploader, AdmitCommit(u) PROVE TypeOK'
  <2>1. reservations' \subseteq Reservation
    BY <1>5, ReservationUpdate DEF AdmitCommit
  <2> QED
    BY <1>5, <2>1 DEF AdmitCommit, EndUpload, UploadPc
<1>6. ASSUME NEW u \in Uploader, AdmitAbort(u) PROVE TypeOK'
  BY <1>6 DEF AdmitAbort, EndUpload, UploadPc
<1>7. ASSUME NEW h \in Hold, NEW a \in Attempt, PlaceHold(h, a) PROVE TypeOK'
  BY <1>7, BlockedRow DEF PlaceHold
<1>8. ASSUME NEW h \in Hold, ReleaseHold(h) PROVE TypeOK'
  <2> DEFINE a == holdAttempt[h]
  <2>1. a \in Attempt /\ FencedGeneration(a) \in Nat
    BY <1>8 DEF ReleaseHold, FencedGeneration
  <2>2. CASE ActiveHolds(a) = {h} /\ deletion[a].state = "held"
    <3>3. Armed(deletion[a], FencedGeneration(a)) \in DeletionRow
      BY <2>1, ArmedRow
    <3>4. deletion' = [deletion EXCEPT ![a] = Armed(deletion[a], FencedGeneration(a))]
      BY <1>8, <2>2 DEF ReleaseHold
    <3>1. deletion' \in [Attempt -> DeletionRow]
      BY <2>1, <3>3, <3>4
    <3>2. known' \subseteq Attempt /\ fenced' \subseteq known' /\ generation' \in [Attempt -> Nat]
      BY <1>8, <2>1, <2>2 DEF ReleaseHold, Fence
    <3> QED
      BY <1>8, <3>1, <3>2 DEF ReleaseHold
  <2>3. CASE ~(ActiveHolds(a) = {h} /\ deletion[a].state = "held")
    BY <1>8, <2>1, <2>3 DEF ReleaseHold
  <2> QED
    BY <2>2, <2>3
<1>9. ASSUME NEW a \in Attempt, DeleteHeldAttempt(a) PROVE TypeOK'
  BY <1>9, BlockedRow, ArmedRow DEF DeleteHeldAttempt
<1>10. ASSUME NEW a \in Attempt, DeleteAttempt(a) PROVE TypeOK'
  <2>1. FencedGeneration(a) \in Nat
    BY DEF FencedGeneration
  <2>2. deletion' \in [Attempt -> DeletionRow]
    BY <1>10, <2>1, ArmedRow DEF DeleteAttempt
  <2> QED
    BY <1>10, <2>1, <2>2 DEF DeleteAttempt, Fence
<1>11. ASSUME NEW w \in Worker, NEW a \in Attempt, DeletionClaim(w, a) PROVE TypeOK'
  BY <1>11, LeasedRow DEF DeletionClaim, WorkerPc
<1>12. ASSUME NEW w \in Worker, DeletionDecline(w) PROVE TypeOK'
  BY <1>12, BlockedRow DEF DeletionDecline, EndWork, NoLease, WorkerPc
<1>13. ASSUME NEW w \in Worker, DeletionBegin(w) PROVE TypeOK'
  <2>1. SegmentKeys(lease[w].attempt) \subseteq Key
    BY DEF SegmentKeys
  <2>2. \E s \in {"erasing", "failing"} : workerPc' = [workerPc EXCEPT ![w] = s]
    BY <1>13 DEF DeletionBegin
  <2>4. workerPc[w] # "idle"
    BY <1>13 DEF DeletionBegin
  <2>3. deletable' \in [Worker -> SUBSET Key] /\ todo' \in [Worker -> SUBSET Key]
    <3> DEFINE keys == SegmentKeys(lease[w].attempt) \ SharedKeys(lease[w].attempt)
    <3>1. keys \in SUBSET Key
      BY <2>1
    <3>2. \/ deletable' = [deletable EXCEPT ![w] = keys] /\ todo' = [todo EXCEPT ![w] = keys]
          \/ deletable' = deletable /\ todo' = todo
      BY <1>13 DEF DeletionBegin
    <3> HIDE DEF keys
    <3> QED
      BY <3>1, <3>2
  <2> QED
    BY <1>13, <2>2, <2>3, <2>4 DEF DeletionBegin, WorkerPc
<1>14. ASSUME NEW w \in Worker, NEW k \in Key, DeletionErase(w, k) PROVE TypeOK'
  BY <1>14 DEF DeletionErase
<1>15. ASSUME NEW w \in Worker, DeletionIntegrityError(w) PROVE TypeOK'
  BY <1>15 DEF DeletionIntegrityError, WorkerPc
<1>16. ASSUME NEW w \in Worker, DeletionCommit(w) PROVE TypeOK'
  <2>1. "completed" \in DeletionState
    BY DEF DeletionState
  <2>2. deletion' \in [Attempt -> DeletionRow]
    BY <1>16, <2>1, EndedRow DEF DeletionCommit, EraseCatalog
  <2> QED
    BY <1>16, <2>2 DEF DeletionCommit, EraseCatalog, EndWork, NoLease, CandidateState, WorkerPc
<1>17. ASSUME NEW w \in Worker, DeletionFailRead(w) PROVE TypeOK'
  <2>1. CASE Matches(w)
    <3>1. \E s \in {"failed", "pending"} : workerPc' = [workerPc EXCEPT ![w] = s]
      BY <1>17, <2>1 DEF DeletionFailRead
    <3>2. workerPc[w] # "idle"
      BY <1>17 DEF DeletionFailRead
    <3> QED
      BY <1>17, <2>1, <3>1, <3>2 DEF DeletionFailRead, WorkerPc
  <2>2. CASE ~Matches(w)
    <3>1. EndWork(w) /\ UNCHANGED deletion
      BY <1>17, <2>2 DEF DeletionFailRead
    <3> QED
      BY <1>17, <3>1 DEF DeletionFailRead, EndWork, NoLease, WorkerPc
  <2> QED
    BY <2>1, <2>2
<1>18. ASSUME NEW w \in Worker, DeletionFailWrite(w) PROVE TypeOK'
  <2>1. workerPc[w] \in DeletionState
    BY <1>18 DEF DeletionFailWrite, DeletionState
  <2>2. deletion' \in [Attempt -> DeletionRow]
    BY <1>18, <2>1, EndedRow DEF DeletionFailWrite
  <2> QED
    BY <1>18, <2>2 DEF DeletionFailWrite, EndWork, NoLease, WorkerPc
<1>19. ASSUME NEW w \in Worker, DeletionCrash(w) PROVE TypeOK'
  BY <1>19 DEF DeletionCrash, EndWork, NoLease, WorkerPc
<1>20. ASSUME NEW r \in reservations, SweepReservation(r) PROVE TypeOK'
  BY <1>20, ReservationUpdate DEF SweepReservation, CandidateState
<1>21. ASSUME NEW k \in Key, GcProtect(k) PROVE TypeOK'
  BY <1>21 DEF GcProtect, CandidateState
<1>22. ASSUME NEW k \in Key, GcDelete(k) PROVE TypeOK'
  BY <1>22 DEF GcDelete
<1>23. ASSUME NEW k \in Key, GcCommit(k) PROVE TypeOK'
  BY <1>23 DEF GcCommit, CandidateState
<1>24. ASSUME NEW k \in Key, GcCrash(k) PROVE TypeOK'
  BY <1>24 DEF GcCrash
<1>25. ASSUME NEW k \in Key, GcIntegrityError(k) PROVE TypeOK'
  BY <1>25 DEF GcIntegrityError, CandidateState
<1>26. ASSUME NEW k \in Key, GcAudit(k) PROVE TypeOK'
  BY <1>26 DEF GcAudit, CandidateState
<1>27. ASSUME NEW k \in Corruptible, Rot(k) PROVE TypeOK'
  BY <1>27 DEF Rot
<1>28. CASE UNCHANGED vars
  BY <1>28 DEF vars
<1> QED
  BY <1>1, <1>2, <1>3, <1>4, <1>5, <1>6, <1>7, <1>8, <1>9, <1>10, <1>11, <1>12, <1>13, <1>14,
     <1>15, <1>16, <1>17, <1>18, <1>19, <1>20, <1>21, <1>22, <1>23, <1>24, <1>25, <1>26, <1>27,
     <1>28 DEF Next, Admit, Lifecycle, DeletionStep, Reclaim

(* Type correctness: the rows, objects and processes keep their shapes. *)
THEOREM TypeCorrect == Spec => []TypeOK
  BY TypeInit, TypeStep, PTL DEF Spec

-----------------------------------------------------------------------------
(* The conjuncts of IInv other than TypeOK, and the variables they speak of. *)

Safe ==
    /\ LockExclusion
    /\ CheckedStillTrue
    /\ ErasingStillTrue
    /\ ManifestBacked
    /\ NoOverlap
    /\ HeldHasHold

safeVars == <<uploadPc, segment, workerPc, lease, todo, manifests, fenced, store, holdState,
              holdAttempt, deletion>>

LEMMA SafeInit == Init => Safe
  BY DEF Init, Safe, LockExclusion, CheckedStillTrue, ErasingStillTrue, ManifestBacked, NoOverlap,
     HeldHasHold, NoDeletion

\* A step that leaves these variables alone keeps them safe.
LEMMA SafeFrame == Safe /\ UNCHANGED safeVars => Safe'
  BY DEF Safe, safeVars, LockExclusion, CheckedStillTrue, ErasingStillTrue, ManifestBacked,
     NoOverlap, HeldHasHold, SegmentKeys, Overlapping, ActiveHolds

LEMMA SegmentKeysMember ==
  ASSUME NEW a, NEW k
  PROVE  k \in SegmentKeys(a) <=> \E m \in manifests : m.attempt = a /\ m.key = k
  BY DEF SegmentKeys

\* A worker that stops erasing, or only loses items of its list, keeps them safe.
LEMMA SafeWorkerStop ==
  ASSUME TypeOK, Safe, NEW w \in Worker, EndWork(w),
         UNCHANGED <<uploadPc, segment, manifests, fenced, store, holdState, holdAttempt>>,
         HeldHasHold'
  PROVE  Safe'
<1>1. \A v \in Worker : workerPc'[v] = "erasing" =>
        workerPc[v] = "erasing" /\ lease'[v] = lease[v] /\ todo'[v] = todo[v]
  BY DEF EndWork, TypeOK
<1>2. LockExclusion'
  BY <1>1 DEF Safe, LockExclusion, SegmentKeys
<1>3. CheckedStillTrue'
  BY DEF Safe, CheckedStillTrue, Overlapping
<1>4. ErasingStillTrue'
  BY <1>1 DEF Safe, ErasingStillTrue, SegmentKeys, ActiveHolds
<1>5. ManifestBacked' /\ NoOverlap'
  BY DEF Safe, ManifestBacked, NoOverlap
<1> QED
  BY <1>2, <1>3, <1>4, <1>5 DEF Safe

LEMMA SafeStep == TypeOK /\ Safe /\ [Next]_vars => Safe'
<1> SUFFICES ASSUME TypeOK, Safe, [Next]_vars PROVE Safe'
  OBVIOUS
<1>a. TypeOK'
  BY TypeStep
<1> USE LifecycleAssumption DEF catalogVars, uploadVars, holdVars, workerVars, gcVars
<1>1. ASSUME NEW s \in Upload, AdmitReplay(s) PROVE Safe'
  BY <1>1, SafeFrame DEF AdmitReplay, safeVars
<1>2. ASSUME NEW u \in Uploader, NEW s \in Upload, AdmitReserve(u, s) PROVE Safe'
  <2>1. \A v \in Uploader : uploadPc'[v] = "checked" =>
          uploadPc[v] = "checked" /\ segment'[v] = segment[v]
    BY <1>2 DEF AdmitReserve, TypeOK
  <2>2. UNCHANGED <<workerPc, lease, todo, manifests, fenced, store, holdState, holdAttempt,
                    deletion>>
    BY <1>2 DEF AdmitReserve
  <2> QED
    BY <2>1, <2>2 DEF Safe, LockExclusion, CheckedStillTrue, ErasingStillTrue, ManifestBacked,
       NoOverlap, HeldHasHold, SegmentKeys, Overlapping, ActiveHolds
<1>3. ASSUME NEW u \in Uploader, AdmitPut(u) PROVE Safe'
  <2>1. \A v \in Uploader : uploadPc'[v] = "checked" => uploadPc[v] = "checked"
    BY <1>3 DEF AdmitPut, TypeOK
  <2>2. \A k \in Key : store[k] # "absent" => store'[k] # "absent"
    BY <1>3 DEF AdmitPut, TypeOK
  <2>3. UNCHANGED <<segment, workerPc, lease, todo, manifests, fenced, holdState, holdAttempt,
                    deletion>>
    BY <1>3 DEF AdmitPut
  <2>4. CheckedStillTrue'
    BY <2>1, <2>2, <2>3 DEF Safe, CheckedStillTrue, Overlapping, TypeOK
  <2>5. ManifestBacked'
    BY <2>2, <2>3 DEF Safe, ManifestBacked, TypeOK
  <2> QED
    BY <2>1, <2>3, <2>4, <2>5 DEF Safe, LockExclusion, ErasingStillTrue, NoOverlap, HeldHasHold,
       SegmentKeys, ActiveHolds
<1>4. ASSUME NEW u \in Uploader, AdmitCheck(u) PROVE Safe'
  <2>1. \A v \in Uploader : uploadPc'[v] = "checked" => v = u \/ uploadPc[v] = "checked"
    BY <1>4 DEF AdmitCheck, TypeOK
  <2>2. UNCHANGED <<segment, workerPc, lease, todo, manifests, fenced, store, holdState,
                    holdAttempt, deletion>>
    BY <1>4 DEF AdmitCheck
  <2>3. LocksFree(segment[u]) /\ segment[u].attempt \notin fenced
    BY <1>4 DEF AdmitCheck, Admissible
  <2>4. LockExclusion'
    BY <2>1, <2>2, <2>3 DEF Safe, LockExclusion, LocksFree, AttemptLocked, StreamLocked,
       ObjectLocked, SegmentKeys
  <2>5. CheckedStillTrue'
    BY <1>4, <2>1, <2>2, <2>3 DEF AdmitCheck, Safe, CheckedStillTrue, Overlapping
  <2> QED
    BY <2>2, <2>4, <2>5 DEF Safe, ErasingStillTrue, ManifestBacked, NoOverlap, HeldHasHold,
       SegmentKeys, ActiveHolds
<1>5. ASSUME NEW u \in Uploader, AdmitCommit(u) PROVE Safe'
  <2> DEFINE s == segment[u]
  <2>1. \A v \in Uploader : uploadPc'[v] = "checked" =>
          v # u /\ uploadPc[v] = "checked" /\ segment'[v] = segment[v]
    BY <1>5 DEF AdmitCommit, EndUpload, TypeOK
  <2>2. UNCHANGED <<workerPc, lease, todo, fenced, store, holdState, holdAttempt, deletion>>
    BY <1>5 DEF AdmitCommit
  <2>3. uploadPc[u] = "checked" /\ s \in Upload
    BY <1>5 DEF AdmitCommit, TypeOK
  <2>4. CASE Overlapping(s) # {}
    <3>1. manifests' = manifests
      BY <1>5, <2>4 DEF AdmitCommit
    <3> QED
      BY <2>1, <2>2, <3>1 DEF Safe, LockExclusion, CheckedStillTrue, ErasingStillTrue,
         ManifestBacked, NoOverlap, HeldHasHold, SegmentKeys, Overlapping, ActiveHolds
  <2>5. CASE Overlapping(s) = {}
    <3>1. manifests' = manifests \cup {s}
      BY <1>5, <2>5 DEF AdmitCommit
    <3>2. \A w \in Worker : workerPc[w] = "erasing" => SegmentKeys(lease[w].attempt)' =
            SegmentKeys(lease[w].attempt) /\ s.key \notin todo[w]
      BY <2>2, <2>3, <3>1 DEF Safe, LockExclusion, ErasingStillTrue, SegmentKeys
    <3>3. LockExclusion'
      BY <2>1, <2>2, <3>2 DEF Safe, LockExclusion
    <3>4. CheckedStillTrue'
      BY <2>1, <2>2, <2>3, <3>1 DEF Safe, CheckedStillTrue, LockExclusion, Overlapping, Overlaps
    <3>5. ErasingStillTrue'
      BY <2>2, <3>1, <3>2 DEF Safe, ErasingStillTrue, ActiveHolds
    <3>6. ManifestBacked'
      BY <2>2, <2>3, <3>1 DEF Safe, ManifestBacked, CheckedStillTrue
    <3>7. NoOverlap'
      BY <2>3, <2>5, <3>1 DEF Safe, NoOverlap, Overlapping, Overlaps, TypeOK
    <3> QED
      BY <2>2, <3>3, <3>4, <3>5, <3>6, <3>7 DEF Safe, HeldHasHold, ActiveHolds
  <2> QED
    BY <2>4, <2>5
<1>6. ASSUME NEW u \in Uploader, AdmitAbort(u) PROVE Safe'
  <2>1. \A v \in Uploader : uploadPc'[v] = "checked" =>
          uploadPc[v] = "checked" /\ segment'[v] = segment[v]
    BY <1>6 DEF AdmitAbort, EndUpload, TypeOK
  <2>2. UNCHANGED <<workerPc, lease, todo, manifests, fenced, store, holdState, holdAttempt,
                    deletion>>
    BY <1>6 DEF AdmitAbort
  <2> QED
    BY <2>1, <2>2 DEF Safe, LockExclusion, CheckedStillTrue, ErasingStillTrue, ManifestBacked,
       NoOverlap, HeldHasHold, SegmentKeys, Overlapping, ActiveHolds
<1>7. ASSUME NEW h \in Hold, NEW a \in Attempt, PlaceHold(h, a) PROVE Safe'
  <2>1. UNCHANGED <<uploadPc, segment, workerPc, lease, todo, manifests, fenced, store>>
    BY <1>7 DEF PlaceHold
  <2>2. \A b \in Attempt : b # a => ActiveHolds(b)' = ActiveHolds(b) /\ deletion'[b] = deletion[b]
    BY <1>7 DEF PlaceHold, ActiveHolds, TypeOK
  <2>3. h \in ActiveHolds(a)'
    BY <1>7 DEF PlaceHold, ActiveHolds, TypeOK
  <2>4. ErasingStillTrue'
    <3>1. /\ \A g \in Hold \ {h} : holdState'[g] = holdState[g] /\ holdAttempt'[g] = holdAttempt[g]
          /\ holdAttempt'[h] = a
      BY <1>7 DEF PlaceHold, TypeOK
    <3>2. \A w \in Worker : workerPc[w] = "erasing" => lease[w].attempt # a
      BY <1>7 DEF PlaceHold, AttemptLocked
    <3> QED
      BY <2>1, <3>1, <3>2 DEF Safe, ErasingStillTrue, SegmentKeys, ActiveHolds
  <2>5. HeldHasHold'
    BY <2>2, <2>3 DEF Safe, HeldHasHold
  <2> QED
    BY <2>1, <2>4, <2>5 DEF Safe, LockExclusion, CheckedStillTrue, ManifestBacked, NoOverlap,
       SegmentKeys, Overlapping
<1>8. ASSUME NEW h \in Hold, ReleaseHold(h) PROVE Safe'
  <2> DEFINE a == holdAttempt[h]
  <2>1. UNCHANGED <<uploadPc, segment, workerPc, lease, todo, manifests, store>> /\ a \in Attempt
    BY <1>8 DEF ReleaseHold, TypeOK
  <2>2. fenced \subseteq fenced' /\ fenced' \subseteq fenced \cup {a}
    BY <1>8 DEF ReleaseHold, Fence
  <2>3. \A b \in Attempt : ActiveHolds(b)' = ActiveHolds(b) \ {h}
    BY <1>8 DEF ReleaseHold, ActiveHolds, TypeOK
  <2>4. CheckedStillTrue'
    BY <1>8, <2>1, <2>2 DEF ReleaseHold, AttemptLocked, Safe, CheckedStillTrue, Overlapping
  <2>5. ErasingStillTrue'
    <3>1. \A g \in Hold : /\ holdState'[g] = "active" => holdState[g] = "active"
                          /\ holdAttempt'[g] = holdAttempt[g]
      BY <1>8 DEF ReleaseHold, TypeOK
    <3> QED
      BY <2>1, <2>2, <3>1 DEF Safe, ErasingStillTrue, SegmentKeys, ActiveHolds
  <2>6. HeldHasHold'
    <3>1. \A b \in Attempt : b # a => deletion'[b] = deletion[b] /\ h \notin ActiveHolds(b)
      BY <1>8 DEF ReleaseHold, ActiveHolds, TypeOK
    <3>2. CASE ActiveHolds(a) = {h} /\ deletion[a].state = "held"
      <4>1. deletion'[a] = Armed(deletion[a], FencedGeneration(a)) /\ FencedGeneration(a) \in Nat
        BY <1>8, <2>1, <3>2 DEF ReleaseHold, FencedGeneration, TypeOK
      <4>3. deletion[a] \in DeletionRow
        BY <2>1 DEF TypeOK
      <4>2. deletion'[a].state = "pending"
        BY <4>1, <4>3, ArmedRow
      <4> QED
        BY <2>3, <3>1, <4>2 DEF Safe, HeldHasHold
    <3>3. CASE ~(ActiveHolds(a) = {h} /\ deletion[a].state = "held")
      <4>1. deletion' = deletion
        BY <1>8, <3>3 DEF ReleaseHold
      <4>2. h \in ActiveHolds(a)
        BY <1>8 DEF ReleaseHold, ActiveHolds
      <4> QED
        BY <2>3, <3>1, <3>3, <4>1, <4>2 DEF Safe, HeldHasHold
    <3> QED
      BY <3>2, <3>3
  <2>7. ManifestBacked'
    BY <2>1, <2>2 DEF Safe, ManifestBacked
  <2> QED
    BY <2>1, <2>4, <2>5, <2>6, <2>7 DEF Safe, LockExclusion, NoOverlap, SegmentKeys
<1>9. ASSUME NEW a \in Attempt, DeleteHeldAttempt(a) PROVE Safe'
  <2>1. UNCHANGED <<uploadPc, segment, workerPc, lease, todo, manifests, fenced, store, holdState,
                    holdAttempt>>
    BY <1>9 DEF DeleteHeldAttempt
  <2>2. \A b \in Attempt : b # a => deletion'[b] = deletion[b]
    BY <1>9 DEF DeleteHeldAttempt, TypeOK
  <2>3. HeldHasHold'
    BY <1>9, <2>1, <2>2 DEF DeleteHeldAttempt, Safe, HeldHasHold, ActiveHolds
  <2> QED
    BY <2>1, <2>3 DEF Safe, LockExclusion, CheckedStillTrue, ErasingStillTrue, ManifestBacked,
       NoOverlap, SegmentKeys, Overlapping, ActiveHolds
<1>10. ASSUME NEW a \in Attempt, DeleteAttempt(a) PROVE Safe'
  <2>1. UNCHANGED <<uploadPc, segment, workerPc, lease, todo, manifests, store, holdState,
                    holdAttempt>>
    BY <1>10 DEF DeleteAttempt
  <2>2. fenced' = fenced \cup {a} /\ FencedGeneration(a) \in Nat
    BY <1>10 DEF DeleteAttempt, Fence, FencedGeneration, TypeOK
  <2>3. Armed(deletion[a], FencedGeneration(a)).state = "pending"
    BY <2>2, ArmedRow DEF TypeOK
  <2>4. HeldHasHold'
    BY <1>10, <2>1, <2>3 DEF DeleteAttempt, Safe, HeldHasHold, ActiveHolds, TypeOK
  <2>5. CheckedStillTrue'
    BY <1>10, <2>1, <2>2 DEF DeleteAttempt, AttemptLocked, Safe, CheckedStillTrue, Overlapping
  <2> QED
    BY <2>1, <2>2, <2>4, <2>5 DEF Safe, LockExclusion, ErasingStillTrue, ManifestBacked,
       NoOverlap, SegmentKeys, ActiveHolds
<1>11. ASSUME NEW w \in Worker, NEW a \in Attempt, DeletionClaim(w, a) PROVE Safe'
  <2>1. UNCHANGED <<uploadPc, segment, todo, manifests, fenced, store, holdState, holdAttempt>>
    BY <1>11 DEF DeletionClaim
  <2>2. \A v \in Worker : workerPc'[v] = "erasing" =>
          workerPc[v] = "erasing" /\ lease'[v] = lease[v]
    BY <1>11 DEF DeletionClaim, TypeOK
  <2>3. Leased(deletion[a], w).state = "processing"
    BY LeasedRow DEF TypeOK
  <2>4. HeldHasHold'
    BY <1>11, <2>1, <2>3 DEF DeletionClaim, Safe, HeldHasHold, ActiveHolds, TypeOK
  <2> QED
    BY <2>1, <2>2, <2>4 DEF Safe, LockExclusion, CheckedStillTrue, ErasingStillTrue,
       ManifestBacked, NoOverlap, SegmentKeys, Overlapping, ActiveHolds
<1>12. ASSUME NEW w \in Worker, DeletionDecline(w) PROVE Safe'
  <2>1. UNCHANGED <<uploadPc, segment, manifests, fenced, store, holdState, holdAttempt>>
    BY <1>12 DEF DeletionDecline
  <2>2. HeldHasHold'
    BY <1>12, <2>1 DEF DeletionDecline, Safe, HeldHasHold, ActiveHolds, TypeOK
  <2> QED
    BY <1>12, <2>1, <2>2, SafeWorkerStop DEF DeletionDecline
<1>13. ASSUME NEW w \in Worker, DeletionBegin(w) PROVE Safe'
  <2> DEFINE a == lease[w].attempt
             keys == SegmentKeys(a) \ SharedKeys(a)
  <2>1. UNCHANGED <<uploadPc, segment, lease, manifests, fenced, store, holdState, holdAttempt,
                    deletion>>
    BY <1>13 DEF DeletionBegin
  <2>2. \A v \in Worker \ {w} : workerPc'[v] = workerPc[v] /\ todo'[v] = todo[v]
    BY <1>13 DEF DeletionBegin, TypeOK
  <2>3. workerPc'[w] = "erasing" => a \in fenced /\ todo'[w] = keys
    BY <1>13 DEF DeletionBegin, TypeOK
  <2>4. /\ ~AttemptLocked(a) /\ ActiveHolds(a) = {}
        /\ \A k \in SegmentKeys(a) : ~ObjectLocked(k)
    BY <1>13 DEF DeletionBegin
  <2>5. LockExclusion'
    <3>1. \A v \in Worker : SegmentKeys(lease[v].attempt)' = SegmentKeys(lease[v].attempt)
      BY <2>1 DEF SegmentKeys
    <3>2. \A u \in Uploader : uploadPc[u] = "checked" =>
            segment[u].attempt # a /\ segment[u].key \notin SegmentKeys(a)
      BY <2>4 DEF AttemptLocked, ObjectLocked
    <3>3. \A v \in Worker : workerPc[v] = "erasing" => lease[v].attempt # a
      BY <2>4 DEF AttemptLocked
    <3> QED
      BY <2>1, <2>2, <3>1, <3>2, <3>3 DEF Safe, LockExclusion
  <2>6. \A m \in manifests : m.key \in keys => m.attempt = a
    BY DEF SharedKeys, TypeOK
  <2>7. ErasingStillTrue'
    BY <2>1, <2>2, <2>3, <2>4, <2>6 DEF Safe, ErasingStillTrue, SegmentKeys, ActiveHolds
  <2> QED
    BY <2>1, <2>5, <2>7 DEF Safe, CheckedStillTrue, ManifestBacked, NoOverlap, HeldHasHold,
       Overlapping, ActiveHolds
<1>14. ASSUME NEW w \in Worker, NEW k \in Key, DeletionErase(w, k) PROVE Safe'
  <2>1. UNCHANGED <<uploadPc, segment, workerPc, lease, manifests, fenced, holdState, holdAttempt,
                    deletion>>
    BY <1>14 DEF DeletionErase
  <2>2. /\ workerPc[w] = "erasing" /\ k \in todo[w]
        /\ \A j \in Key \ {k} : store'[j] = store[j]
        /\ \A v \in Worker : todo'[v] \subseteq todo[v]
    BY <1>14 DEF DeletionErase, TypeOK
  <2>3. CheckedStillTrue'
    BY <2>1, <2>2 DEF Safe, LockExclusion, ErasingStillTrue, CheckedStillTrue, Overlapping, TypeOK
  <2>4. ErasingStillTrue'
    BY <2>1, <2>2 DEF Safe, ErasingStillTrue, SegmentKeys, ActiveHolds
  <2>5. ManifestBacked'
    BY <2>1, <2>2 DEF Safe, ErasingStillTrue, ManifestBacked, TypeOK
  <2> QED
    BY <2>1, <2>3, <2>4, <2>5 DEF Safe, LockExclusion, NoOverlap, HeldHasHold, SegmentKeys,
       ActiveHolds
<1>15. ASSUME NEW w \in Worker, DeletionIntegrityError(w) PROVE Safe'
  <2>1. UNCHANGED <<uploadPc, segment, lease, manifests, fenced, store, holdState, holdAttempt,
                    deletion>>
    BY <1>15 DEF DeletionIntegrityError
  <2>2. \A v \in Worker : workerPc'[v] = "erasing" =>
          workerPc[v] = "erasing" /\ todo'[v] = todo[v]
    BY <1>15 DEF DeletionIntegrityError, TypeOK
  <2> QED
    BY <2>1, <2>2 DEF Safe, LockExclusion, CheckedStillTrue, ErasingStillTrue, ManifestBacked,
       NoOverlap, HeldHasHold, SegmentKeys, Overlapping, ActiveHolds
<1>16. ASSUME NEW w \in Worker, DeletionCommit(w) PROVE Safe'
  <2> DEFINE a == lease[w].attempt
  <2>1. UNCHANGED <<uploadPc, segment, fenced, store, holdState, holdAttempt>>
    BY <1>16 DEF DeletionCommit, EraseCatalog
  <2>2. manifests' = {m \in manifests : m.attempt # a} /\ workerPc[w] = "erasing"
    BY <1>16 DEF DeletionCommit, EraseCatalog
  <2>3. \A v \in Worker : workerPc'[v] = "erasing" =>
          /\ v # w /\ workerPc[v] = "erasing" /\ lease'[v] = lease[v] /\ todo'[v] = todo[v]
          /\ lease[v].attempt # a
    BY <1>16, <2>2 DEF DeletionCommit, EraseCatalog, EndWork, Safe, LockExclusion, TypeOK
  <2>4. \A b \in Attempt : b # a => SegmentKeys(b)' = SegmentKeys(b)
    BY <2>2 DEF SegmentKeys
  <2>5. LockExclusion'
    BY <2>1, <2>2, <2>3 DEF Safe, LockExclusion, SegmentKeys
  <2>6. CheckedStillTrue'
    BY <2>1, <2>2 DEF Safe, CheckedStillTrue, Overlapping
  <2>7. ErasingStillTrue'
    BY <2>1, <2>2, <2>3, <2>4 DEF Safe, ErasingStillTrue, ActiveHolds, TypeOK
  <2>8. HeldHasHold'
    <3>1. Ended(deletion[a], "completed").state = "completed"
      BY <2>2, EndedRow DEF TypeOK, DeletionState
    <3> QED
      BY <1>16, <2>1, <3>1 DEF DeletionCommit, EraseCatalog, Safe, HeldHasHold, ActiveHolds, TypeOK
  <2> QED
    BY <2>1, <2>2, <2>5, <2>6, <2>7, <2>8 DEF Safe, ManifestBacked, NoOverlap
<1>17. ASSUME NEW w \in Worker, DeletionFailRead(w) PROVE Safe'
  <2>1. UNCHANGED <<uploadPc, segment, manifests, fenced, store, holdState, holdAttempt, deletion>>
    BY <1>17 DEF DeletionFailRead
  <2>2. \A v \in Worker : workerPc'[v] = "erasing" =>
          workerPc[v] = "erasing" /\ lease'[v] = lease[v] /\ todo'[v] = todo[v]
    BY <1>17 DEF DeletionFailRead, EndWork, TypeOK
  <2> QED
    BY <2>1, <2>2 DEF Safe, LockExclusion, CheckedStillTrue, ErasingStillTrue, ManifestBacked,
       NoOverlap, HeldHasHold, SegmentKeys, Overlapping, ActiveHolds
<1>18. ASSUME NEW w \in Worker, DeletionFailWrite(w) PROVE Safe'
  <2>1. UNCHANGED <<uploadPc, segment, manifests, fenced, store, holdState, holdAttempt>>
    BY <1>18 DEF DeletionFailWrite
  <2>2. workerPc[w] \in DeletionState /\ workerPc[w] # "held" /\ lease[w].attempt \in Attempt
    BY <1>18 DEF DeletionFailWrite, DeletionState, TypeOK
  <2>3. Ended(deletion[lease[w].attempt], workerPc[w]).state # "held"
    BY <2>2, EndedRow DEF TypeOK
  <2>4. HeldHasHold'
    BY <1>18, <2>1, <2>2, <2>3 DEF DeletionFailWrite, Safe, HeldHasHold, ActiveHolds, TypeOK
  <2> QED
    BY <1>18, <2>1, <2>4, SafeWorkerStop DEF DeletionFailWrite
<1>19. ASSUME NEW w \in Worker, DeletionCrash(w) PROVE Safe'
  <2>1. UNCHANGED <<uploadPc, segment, manifests, fenced, store, holdState, holdAttempt, deletion>>
    BY <1>19 DEF DeletionCrash
  <2>2. HeldHasHold'
    BY <2>1 DEF Safe, HeldHasHold, ActiveHolds
  <2> QED
    BY <1>19, <2>1, <2>2, SafeWorkerStop DEF DeletionCrash
<1>20. ASSUME NEW r \in reservations, SweepReservation(r) PROVE Safe'
  BY <1>20, SafeFrame DEF SweepReservation, safeVars
<1>21. ASSUME NEW k \in Key, GcProtect(k) \/ GcCommit(k) \/ GcCrash(k) \/ GcIntegrityError(k) \/ GcAudit(k)
       PROVE Safe'
  BY <1>21, SafeFrame DEF GcProtect, GcCommit, GcCrash, GcIntegrityError, GcAudit, safeVars
<1>22. ASSUME NEW k \in Key, GcDelete(k) PROVE Safe'
  <2>1. UNCHANGED <<uploadPc, segment, workerPc, lease, todo, manifests, fenced, holdState,
                    holdAttempt, deletion>>
    BY <1>22 DEF GcDelete
  <2>2. /\ \A j \in Key \ {k} : store'[j] = store[j]
        /\ ~ObjectLocked(k) /\ ~Referenced(k)
    BY <1>22 DEF GcDelete, GcDue, TypeOK
  <2>3. CheckedStillTrue'
    BY <2>1, <2>2 DEF ObjectLocked, Safe, CheckedStillTrue, Overlapping, TypeOK
  <2>4. ManifestBacked'
    BY <2>1, <2>2 DEF Referenced, Safe, ManifestBacked, TypeOK
  <2> QED
    BY <2>1, <2>3, <2>4 DEF Safe, LockExclusion, ErasingStillTrue, NoOverlap, HeldHasHold,
       SegmentKeys, ActiveHolds
<1>23. ASSUME NEW k \in Corruptible, Rot(k) PROVE Safe'
  <2>1. UNCHANGED <<uploadPc, segment, workerPc, lease, todo, manifests, fenced, holdState,
                    holdAttempt, deletion>>
    BY <1>23 DEF Rot
  <2>2. \A j \in Key : store[j] # "absent" => store'[j] # "absent"
    BY <1>23 DEF Rot, TypeOK
  <2> QED
    BY <2>1, <2>2 DEF Safe, LockExclusion, CheckedStillTrue, ErasingStillTrue, ManifestBacked,
       NoOverlap, HeldHasHold, SegmentKeys, Overlapping, ActiveHolds, TypeOK
<1>24. CASE UNCHANGED vars
  BY <1>24, SafeFrame DEF vars, safeVars
<1> QED
  BY <1>1, <1>2, <1>3, <1>4, <1>5, <1>6, <1>7, <1>8, <1>9, <1>10, <1>11, <1>12, <1>13, <1>14,
     <1>15, <1>16, <1>17, <1>18, <1>19, <1>20, <1>21, <1>22, <1>23, <1>24
     DEF Next, Admit, Lifecycle, DeletionStep, Reclaim

\* The inductive invariant holds in every reachable state.
THEOREM Invariance == Spec => []IInv
<1>1. Init => IInv
  BY TypeInit, SafeInit DEF IInv, Safe
<1>2. IInv /\ [Next]_vars => IInv'
  BY TypeStep, SafeStep DEF IInv, Safe
<1> QED
  BY <1>1, <1>2, PTL DEF Spec

\* A manifest of an attempt that was not deleted has its object, at every moment and
\* for any number of uploaders, workers, attempts and keys.
THEOREM Backed == Spec => []ManifestBacked
<1>1. IInv => ManifestBacked
  BY DEF IInv
<1> QED
  BY <1>1, Invariance, PTL

\* No two admitted segments of a stream overlap.
THEOREM Disjoint == Spec => []NoOverlap
<1>1. IInv => NoOverlap
  BY DEF IInv
<1> QED
  BY <1>1, Invariance, PTL

\* A deletion is never blocked by a hold that is gone.
THEOREM HeldForAReason == Spec => []HeldHasHold
<1>1. IInv => HeldHasHold
  BY DEF IInv
<1> QED
  BY <1>1, Invariance, PTL

-----------------------------------------------------------------------------
(* How a step may change the manifests and the fences. *)

\* The only steps that add a manifest admit a segment of an open attempt without
\* overlap; the only ones that drop manifests erase one fenced attempt with no hold.
LEMMA ManifestSteps ==
  ASSUME IInv, [Next]_vars
  PROVE  \/ manifests' = manifests
         \/ /\ UNCHANGED <<fenced, store, holdState, holdAttempt>>
            /\ \E s \in Upload : /\ s.attempt \notin fenced
                                 /\ \A m \in manifests : ~Overlaps(m, s)
                                 /\ manifests' = manifests \cup {s}
         \/ /\ UNCHANGED <<fenced, store, holdState, holdAttempt>>
            /\ \E a \in Attempt : /\ a \in fenced /\ ActiveHolds(a) = {}
                                  /\ manifests' = {m \in manifests : m.attempt # a}
<1> USE DEF catalogVars, uploadVars, holdVars, workerVars, gcVars
<1>1. ASSUME NEW u \in Uploader, AdmitCommit(u), manifests' # manifests
      PROVE  /\ UNCHANGED <<fenced, store, holdState, holdAttempt>>
             /\ \E s \in Upload : /\ s.attempt \notin fenced
                                  /\ \A m \in manifests : ~Overlaps(m, s)
                                  /\ manifests' = manifests \cup {s}
  <2>1. /\ segment[u] \in Upload /\ segment[u].attempt \notin fenced
        /\ Overlapping(segment[u]) = {} /\ manifests' = manifests \cup {segment[u]}
    BY <1>1 DEF AdmitCommit, IInv, CheckedStillTrue, TypeOK
  <2> QED
    BY <1>1, <2>1 DEF AdmitCommit, Overlapping
<1>2. ASSUME NEW w \in Worker, DeletionCommit(w)
      PROVE  /\ UNCHANGED <<fenced, store, holdState, holdAttempt>>
             /\ \E a \in Attempt : /\ a \in fenced /\ ActiveHolds(a) = {}
                                   /\ manifests' = {m \in manifests : m.attempt # a}
  BY <1>2 DEF DeletionCommit, EraseCatalog, IInv, ErasingStillTrue, TypeOK
<1>3. ASSUME ~ \E u \in Uploader : AdmitCommit(u), ~ \E w \in Worker : DeletionCommit(w)
      PROVE  manifests' = manifests
  BY <1>3 DEF Next, Admit, Lifecycle, DeletionStep, Reclaim, vars, AdmitReplay, AdmitReserve,
     AdmitPut, AdmitCheck, AdmitAbort, PlaceHold, ReleaseHold, DeleteHeldAttempt, DeleteAttempt,
     DeletionClaim, DeletionDecline, DeletionBegin, DeletionErase, DeletionIntegrityError,
     DeletionFailRead, DeletionFailWrite, DeletionCrash, SweepReservation, GcProtect, GcDelete,
     GcCommit, GcCrash, GcIntegrityError, GcAudit, Rot
<1> QED
  BY <1>1, <1>2, <1>3

\* Only a deletion worker erasing the manifest's own attempt, or the collector when
\* nothing refers to the key, removes an object.
LEMMA ObjectSteps ==
  ASSUME IInv, [Next]_vars, NEW m \in manifests, store[m.key] # "absent", store'[m.key] = "absent"
  PROVE  ActiveHolds(m.attempt) = {}
<1> USE DEF catalogVars, uploadVars, holdVars, workerVars, gcVars
<1>1. m.key \in Key
  BY LifecycleAssumption DEF IInv, TypeOK
<1>2. ASSUME NEW w \in Worker, NEW k \in Key, DeletionErase(w, k) PROVE ActiveHolds(m.attempt) = {}
  <2>1. m.key = k
    BY <1>1, <1>2 DEF DeletionErase, IInv, TypeOK
  <2> QED
    BY <1>2, <2>1 DEF DeletionErase, IInv, ErasingStillTrue
<1>3. ASSUME NEW k \in Key, GcDelete(k) PROVE FALSE
  BY <1>1, <1>3 DEF GcDelete, Referenced, IInv, TypeOK
<1>4. ASSUME NEW u \in Uploader, AdmitPut(u) PROVE FALSE
  BY <1>1, <1>4 DEF AdmitPut, IInv, TypeOK
<1>5. ASSUME NEW k \in Corruptible, Rot(k) PROVE FALSE
  BY <1>1, <1>5 DEF Rot, IInv, TypeOK
<1>6. store' # store
  BY <1>1
<1> QED
  BY <1>2, <1>3, <1>4, <1>5, <1>6 DEF Next, Admit, Lifecycle, DeletionStep, Reclaim, vars,
     AdmitReplay, AdmitReserve, AdmitCheck, AdmitCommit, AdmitAbort, PlaceHold, ReleaseHold,
     DeleteHeldAttempt, DeleteAttempt, DeletionClaim, DeletionDecline, DeletionBegin,
     DeletionIntegrityError, DeletionCommit, EraseCatalog, DeletionFailRead, DeletionFailWrite, DeletionCrash,
     SweepReservation, GcProtect, GcCommit, GcCrash, GcIntegrityError, GcAudit

\* No manifest of an attempt appears once a deletion request has fenced it.
THEOREM Fenced == Spec => FenceHolds
<1>1. IInv /\ [Next]_vars => [AdmitsOpenAttempts]_vars
  <2> SUFFICES ASSUME IInv, [Next]_vars
               PROVE  \A m \in manifests' \ manifests : m.attempt \notin fenced'
    BY DEF AdmitsOpenAttempts
  <2> QED
    BY ManifestSteps
<1> QED
  BY <1>1, Invariance, PTL DEF Spec, FenceHolds

\* While a hold is active nothing of the attempt's evidence goes.
THEOREM HoldsRespected == Spec => HoldPreservesEvidence
<1>1. IInv /\ [Next]_vars => [KeepsHeldEvidence]_vars
  <2> SUFFICES ASSUME IInv, [Next]_vars, NEW m \in manifests, ActiveHolds(m.attempt) # {}
               PROVE  m \in manifests' /\ (store[m.key] # "absent" => store'[m.key] # "absent")
    BY DEF KeepsHeldEvidence
  <2>1. m \in manifests'
    BY ManifestSteps
  <2> QED
    BY <2>1, ObjectSteps
<1> QED
  BY <1>1, Invariance, PTL DEF Spec, HoldPreservesEvidence

-----------------------------------------------------------------------------
(* The service implements AttemptLedger. *)

LEMMA LedgerInit == Init => Ledger!Init
  BY DEF Init, Ledger!Init, ActiveHoldPairs

LEMMA LedgerStep == IInv /\ [Next]_vars => [Ledger!Next]_(Ledger!ledgerVars)
<1> SUFFICES ASSUME IInv, [Next]_vars, ~UNCHANGED <<manifests, fenced, ActiveHoldPairs>>
             PROVE  Ledger!Next
  BY DEF Ledger!ledgerVars
<1> USE DEF catalogVars, uploadVars, holdVars, workerVars, gcVars
<1>1. CASE manifests' # manifests
  <2>1. UNCHANGED <<fenced, ActiveHoldPairs>>
    BY <1>1, ManifestSteps DEF ActiveHoldPairs
  <2>2. ASSUME NEW s \in Upload, s.attempt \notin fenced, \A m \in manifests : ~Overlaps(m, s),
               manifests' = manifests \cup {s}
        PROVE  Ledger!Next
    BY <2>1, <2>2 DEF Ledger!Next, Ledger!Admit, Ledger!Meets, Overlaps
  <2>3. ASSUME NEW a \in Attempt, a \in fenced, ActiveHolds(a) = {},
               manifests' = {m \in manifests : m.attempt # a}
        PROVE  Ledger!Next
    <3>1. \A h \in Hold : <<h, a>> \notin ActiveHoldPairs
      BY <2>3 DEF ActiveHolds, ActiveHoldPairs
    <3> QED
      BY <2>1, <2>3, <3>1 DEF Ledger!Next, Ledger!Erase
  <2> QED
    BY <1>1, <2>2, <2>3, ManifestSteps
<1>2. ASSUME NEW h \in Hold, NEW a \in Attempt, PlaceHold(h, a) PROVE Ledger!Next
  <2>1. UNCHANGED <<manifests, fenced>> /\ ActiveHoldPairs' = ActiveHoldPairs \cup {<<h, a>>}
    BY <1>2 DEF PlaceHold, ActiveHoldPairs, IInv, TypeOK
  <2> QED
    BY <2>1 DEF Ledger!Next, Ledger!PlaceHold
<1>3. ASSUME NEW h \in Hold, ReleaseHold(h) PROVE Ledger!Next
  <2> DEFINE a == holdAttempt[h]
  <2>1. a \in Attempt /\ manifests' = manifests
    BY <1>3 DEF ReleaseHold, IInv, TypeOK
  <2>2. ActiveHoldPairs' = ActiveHoldPairs \ {<<h, a>>}
    BY <1>3, <2>1 DEF ReleaseHold, ActiveHoldPairs, IInv, TypeOK
  <2>3. fenced' \in {fenced, fenced \cup {a}}
    BY <1>3 DEF ReleaseHold, Fence
  <2> QED
    BY <2>1, <2>2, <2>3 DEF Ledger!Next, Ledger!ReleaseHold
<1>4. ASSUME NEW a \in Attempt, DeleteAttempt(a) PROVE Ledger!Next
  <2>1. UNCHANGED <<manifests, ActiveHoldPairs>> /\ fenced' = fenced \cup {a}
    BY <1>4 DEF DeleteAttempt, Fence, ActiveHoldPairs
  <2> QED
    BY <2>1 DEF Ledger!Next, Ledger!Close
<1>5. ASSUME ~ \E h \in Hold, a \in Attempt : PlaceHold(h, a), ~ \E h \in Hold : ReleaseHold(h),
             ~ \E a \in Attempt : DeleteAttempt(a)
      PROVE  UNCHANGED <<fenced, holdState, holdAttempt>>
  BY <1>5 DEF Next, Admit, Lifecycle, DeletionStep, Reclaim, vars, AdmitReplay, AdmitReserve,
     AdmitPut, AdmitCheck, AdmitCommit, AdmitAbort, DeleteHeldAttempt, DeletionClaim,
     DeletionDecline, DeletionBegin, DeletionErase, DeletionIntegrityError, DeletionCommit,
     DeletionFailRead, DeletionFailWrite, DeletionCrash, SweepReservation, GcProtect, GcDelete,
     GcCommit, GcCrash, GcIntegrityError, GcAudit, Rot
<1> QED
  BY <1>1, <1>2, <1>3, <1>4, <1>5 DEF ActiveHoldPairs

\* Every behaviour of the service is, seen through its manifests, fences and holds, a
\* behaviour of AttemptLedger.
THEOREM Refinement == Spec => ImplementsLedger
  BY LedgerInit, LedgerStep, Invariance, PTL DEF Spec, ImplementsLedger, Ledger!Spec

-----------------------------------------------------------------------------
(* Receipts and completed erasures. *)

\* A fence is never lifted.
LEMMA FencedGrows == [Next]_vars => fenced \subseteq fenced'
  BY DEF catalogVars, uploadVars, holdVars, workerVars, gcVars, Next, Admit, Lifecycle, DeletionStep, Reclaim, vars, AdmitReplay, AdmitReserve,
       AdmitPut, AdmitCheck, AdmitCommit, AdmitAbort, PlaceHold, ReleaseHold, Fence, DeleteHeldAttempt,
       DeleteAttempt, DeletionClaim, DeletionDecline, DeletionBegin, DeletionErase,
       DeletionIntegrityError, DeletionCommit, EraseCatalog, DeletionFailRead, DeletionFailWrite, DeletionCrash,
       SweepReservation, GcProtect, GcDelete, GcCommit, GcCrash, GcIntegrityError, GcAudit, Rot

\* A segment the service acknowledged stays in the catalog until its attempt is
\* deleted, when every stream range belongs to one attempt.
THEOREM ReceiptsDurable == ASSUME RangesOwned PROVE Spec => []ReceiptDurable
<1>1. Init => ReceiptDurable
  BY DEF Init, ReceiptDurable
<1>2. ASSUME IInv, ReceiptDurable, [Next]_vars PROVE ReceiptDurable'
  <2> SUFFICES ASSUME NEW s \in receipts', s.attempt \notin fenced'
               PROVE  \E m \in manifests' : SameRange(m, s) /\ m.key = s.key
    BY DEF ReceiptDurable
  <2> USE DEF catalogVars, uploadVars, holdVars, workerVars, gcVars
  <2>1. fenced \subseteq fenced'
    BY <1>2, FencedGrows
  <2>2. CASE s \in receipts
    <3>1. PICK m \in manifests : SameRange(m, s) /\ m.key = s.key
      BY <1>2, <2>1, <2>2 DEF ReceiptDurable
    <3>2. m.attempt = s.attempt
      BY <1>2, <2>2, <3>1 DEF RangesOwned, IInv, TypeOK
    <3>3. m \in manifests'
      BY <1>2, <2>1, <3>2, ManifestSteps
    <3> QED
      BY <3>1, <3>3
  <2>3. CASE s \notin receipts
    <3>1. ASSUME AdmitReplay(s) PROVE \E m \in manifests' : SameRange(m, s) /\ m.key = s.key
      BY <3>1 DEF AdmitReplay
    <3>2. ASSUME NEW u \in Uploader, AdmitCommit(u), s = segment[u]
          PROVE  \E m \in manifests' : SameRange(m, s) /\ m.key = s.key
      <4>1. CASE Overlapping(s) = {}
        BY <3>2, <4>1 DEF AdmitCommit, SameRange
      <4>2. CASE Overlapping(s) # {}
        BY <1>2, <3>2, <4>2 DEF AdmitCommit, Overlapping, IInv, CheckedStillTrue
      <4> QED
        BY <4>1, <4>2
    <3>3. receipts' # receipts
      BY <2>3
    <3>4. \/ \E t \in Upload : AdmitReplay(t)
          \/ \E u \in Uploader : AdmitCommit(u)
      BY <1>2, <3>3 DEF Next, Admit, Lifecycle, DeletionStep, Reclaim, vars, AdmitReserve,
         AdmitPut, AdmitCheck, AdmitAbort, PlaceHold, ReleaseHold, DeleteHeldAttempt,
         DeleteAttempt, DeletionClaim, DeletionDecline, DeletionBegin, DeletionErase,
         DeletionIntegrityError, DeletionCommit, EraseCatalog, DeletionFailRead, DeletionFailWrite,
         DeletionCrash, SweepReservation, GcProtect, GcDelete, GcCommit, GcCrash,
         GcIntegrityError, GcAudit, Rot
    <3>5. ASSUME NEW t \in Upload, AdmitReplay(t) PROVE s = t
      BY <2>3, <3>5 DEF AdmitReplay
    <3>6. ASSUME NEW u \in Uploader, AdmitCommit(u) PROVE s = segment[u]
      BY <2>3, <3>6 DEF AdmitCommit
    <3> QED
      BY <3>1, <3>2, <3>4, <3>5, <3>6
  <2> QED
    BY <2>2, <2>3
<1> QED
  BY <1>1, <1>2, Invariance, PTL DEF Spec

-----------------------------------------------------------------------------
\* A reservation that appears is one for an open attempt: admit inserts it in the
\* transaction that refuses a fenced attempt; the other writers only change states.
LEMMA ReservationSteps ==
  ASSUME TypeOK, [Next]_vars, NEW r \in reservations'
  PROVE  \/ r.segment.attempt \notin fenced /\ deletion' = deletion
         \/ \E q \in reservations : q.segment = r.segment
<1> USE DEF catalogVars, uploadVars, holdVars, workerVars, gcVars
<1>1. CASE r \in reservations
  BY <1>1
<1>2. CASE r \notin reservations
  <2>1. reservations' # reservations
    BY <1>2
  <2>2. \/ \E u \in Uploader, s \in Upload : AdmitReserve(u, s)
        \/ \E u \in Uploader : AdmitCommit(u)
        \/ \E w \in Worker : DeletionCommit(w)
        \/ \E q \in reservations : SweepReservation(q)
    BY <2>1 DEF Next, Admit, Lifecycle, DeletionStep, Reclaim, vars, AdmitReplay,
       AdmitPut, AdmitCheck, AdmitAbort, PlaceHold, ReleaseHold, DeleteHeldAttempt,
       DeleteAttempt, DeletionClaim, DeletionDecline, DeletionBegin, DeletionErase,
       DeletionIntegrityError, DeletionFailRead, DeletionFailWrite,
       DeletionCrash, GcProtect, GcDelete, GcCommit, GcCrash,
       GcIntegrityError, GcAudit, Rot
  <2>3. ASSUME NEW u \in Uploader, NEW s \in Upload, AdmitReserve(u, s)
        PROVE  r.segment.attempt \notin fenced /\ deletion' = deletion
    BY <1>2, <2>3 DEF AdmitReserve, Admissible
  <2>4. ASSUME NEW u \in Uploader, AdmitCommit(u)
        PROVE  \E q \in reservations : q.segment = r.segment
    <3>1. PICK q \in reservations :
            r = IF q.id = reservationId[u] THEN InState(q, "committed") ELSE q
      BY <2>4 DEF AdmitCommit
    <3>2. q \in Reservation
      BY DEF TypeOK
    <3> QED
      BY <3>1, <3>2 DEF InState, Reservation
  <2>5. ASSUME NEW w \in Worker, DeletionCommit(w) PROVE FALSE
    BY <1>2, <2>5 DEF DeletionCommit, EraseCatalog
  <2>6. ASSUME NEW q \in reservations, SweepReservation(q)
        PROVE  q.segment = r.segment
    <3>1. r = InState(q, "expired")
      BY <1>2, <2>6 DEF SweepReservation
    <3>2. q \in Reservation
      BY DEF TypeOK
    <3> QED
      BY <3>1, <3>2 DEF InState, Reservation
  <2> QED
    BY <2>2, <2>3, <2>4, <2>5, <2>6
<1> QED
  BY <1>1, <1>2

\* A deletion row is "completed" only because it was before the step, or because
\* this step is the erasing worker's commit, under the attempt's lock.
LEMMA CompletedSteps ==
  ASSUME IInv, [Next]_vars, NEW a \in Attempt, deletion'[a].state = "completed"
  PROVE  \/ deletion[a].state = "completed"
         \/ \E w \in Worker : DeletionCommit(w) /\ lease[w].attempt = a
<1> USE DEF catalogVars, uploadVars, holdVars, workerVars, gcVars
<1>0. TypeOK /\ deletion \in [Attempt -> DeletionRow]
  BY DEF IInv, TypeOK
<1> SUFFICES ASSUME deletion[a].state # "completed"
             PROVE  \E w \in Worker : DeletionCommit(w) /\ lease[w].attempt = a
  OBVIOUS
<1>1. deletion' # deletion
  OBVIOUS
<1>2. \/ \E h \in Hold, b \in Attempt : PlaceHold(h, b)
      \/ \E h \in Hold : ReleaseHold(h)
      \/ \E b \in Attempt : DeleteHeldAttempt(b) \/ DeleteAttempt(b)
      \/ \E w \in Worker : \/ \E b \in Attempt : DeletionClaim(w, b)
                            \/ DeletionDecline(w) \/ DeletionCommit(w) \/ DeletionFailWrite(w)
  BY <1>1 DEF Next, Admit, Lifecycle, DeletionStep, Reclaim, vars, AdmitReplay, AdmitReserve,
     AdmitPut, AdmitCheck, AdmitCommit, AdmitAbort, DeletionBegin, DeletionErase,
     DeletionIntegrityError, DeletionFailRead,
     DeletionCrash, SweepReservation, GcProtect, GcDelete, GcCommit, GcCrash,
     GcIntegrityError, GcAudit, Rot
<1>3. ASSUME NEW h \in Hold, NEW b \in Attempt, PlaceHold(h, b) PROVE FALSE
  BY <1>0, <1>3, BlockedRow DEF PlaceHold
<1>4. ASSUME NEW h \in Hold, ReleaseHold(h) PROVE FALSE
  <2>1. holdAttempt[h] \in Attempt /\ FencedGeneration(holdAttempt[h]) \in Nat
    BY <1>0, <1>4 DEF ReleaseHold, FencedGeneration, TypeOK
  <2>2. deletion' = [deletion EXCEPT ![holdAttempt[h]] =
                       Armed(deletion[holdAttempt[h]], FencedGeneration(holdAttempt[h]))]
    BY <1>1, <1>4 DEF ReleaseHold
  <2> QED
    BY <1>0, <2>1, <2>2, ArmedRow
<1>5. ASSUME NEW b \in Attempt, DeleteHeldAttempt(b) PROVE FALSE
  <2>1. generation[b] \in Nat
    BY <1>0 DEF TypeOK
  <2>2. \/ deletion' = [deletion EXCEPT ![b] = Blocked(Armed(deletion[b], generation[b]))]
        \/ deletion' = [deletion EXCEPT ![b] = Blocked(deletion[b])]
    BY <1>0, <1>1, <1>5 DEF DeleteHeldAttempt
  <2>3. Armed(deletion[b], generation[b]) \in DeletionRow
    BY <1>0, <2>1, ArmedRow
  <2> QED
    BY <1>0, <2>2, <2>3, BlockedRow
<1>6. ASSUME NEW b \in Attempt, DeleteAttempt(b) PROVE FALSE
  <2>1. FencedGeneration(b) \in Nat
    BY <1>0 DEF FencedGeneration, TypeOK
  <2>2. deletion' = [deletion EXCEPT ![b] = Armed(deletion[b], FencedGeneration(b))]
    BY <1>1, <1>6 DEF DeleteAttempt
  <2> QED
    BY <1>0, <2>1, <2>2, ArmedRow
<1>7. ASSUME NEW w \in Worker, NEW b \in Attempt, DeletionClaim(w, b) PROVE FALSE
  BY <1>0, <1>7, LeasedRow DEF DeletionClaim
<1>8. ASSUME NEW w \in Worker, DeletionDecline(w) PROVE FALSE
  <2>1. lease[w].attempt \in Attempt
    BY <1>0, <1>8 DEF DeletionDecline, TypeOK
  <2>2. deletion' = [deletion EXCEPT ![lease[w].attempt] = Blocked(deletion[lease[w].attempt])]
    BY <1>1, <1>8 DEF DeletionDecline
  <2> QED
    BY <1>0, <2>1, <2>2, BlockedRow
<1>9. ASSUME NEW w \in Worker, DeletionCommit(w) PROVE lease[w].attempt = a
  <2>1. lease[w].attempt \in Attempt
    BY <1>0, <1>9 DEF DeletionCommit, TypeOK
  <2> QED
    BY <1>0, <1>9, <2>1 DEF DeletionCommit
<1>10. ASSUME NEW w \in Worker, DeletionFailWrite(w) PROVE FALSE
  <2>1. lease[w].attempt \in Attempt
    BY <1>0, <1>10 DEF DeletionFailWrite, TypeOK
  <2>2. workerPc[w] \in DeletionState /\ workerPc[w] # "completed"
    BY <1>10 DEF DeletionFailWrite, DeletionState
  <2> QED
    BY <1>0, <1>10, <2>1, <2>2, EndedRow DEF DeletionFailWrite
<1> QED
  BY <1>2, <1>3, <1>4, <1>5, <1>6, <1>7, <1>8, <1>9, <1>10

\* When an erasure is recorded as completed the catalog keeps no manifest and no
\* reservation of the attempt, and no admission that was in flight brings one back.
THEOREM ErasureComplete == Spec => []CompletedErased
<1>1. Init => CompletedErased
  BY DEF Init, CompletedErased, NoDeletion
<1>2. ASSUME IInv, CompletedErased, [Next]_vars PROVE CompletedErased'
  <2> SUFFICES ASSUME NEW a \in Attempt, deletion'[a].state = "completed"
               PROVE  /\ a \in fenced'
                      /\ \A m \in manifests' : m.attempt # a
                      /\ \A r \in reservations' : r.segment.attempt # a
    BY DEF CompletedErased
  <2>1. fenced \subseteq fenced'
    BY <1>2, FencedGrows
  <2>2. CASE deletion[a].state = "completed"
    <3>1. /\ a \in fenced
          /\ \A m \in manifests : m.attempt # a
          /\ \A r \in reservations : r.segment.attempt # a
      BY <1>2, <2>2 DEF CompletedErased
    <3>2. \A m \in manifests' : m.attempt # a
      BY <1>2, <2>1, <3>1, ManifestSteps
    <3>3. \A r \in reservations' : r.segment.attempt # a
      BY <1>2, <3>1, ReservationSteps DEF IInv
    <3> QED
      BY <2>1, <3>1, <3>2, <3>3
  <2>3. ASSUME NEW w \in Worker, DeletionCommit(w), lease[w].attempt = a
        PROVE  /\ a \in fenced'
               /\ \A m \in manifests' : m.attempt # a
               /\ \A r \in reservations' : r.segment.attempt # a
    BY <1>2, <2>1, <2>3 DEF DeletionCommit, EraseCatalog, IInv, ErasingStillTrue
  <2> QED
    BY <1>2, <2>2, <2>3, CompletedSteps
<1> QED
  BY <1>1, <1>2, Invariance, PTL DEF Spec

=============================================================================
