--------------------------- MODULE SegmentLifecycle ---------------------------
(***************************************************************************)
(* The life of one telemetry segment in the enterprise service: admission  *)
(* (IngestionService.admit), retention holds, attempt deletion, the        *)
(* AttemptDeletionWorker, the ReservationSweeper and the object garbage    *)
(* collector, over one catalog database and one object store.              *)
(*                                                                         *)
(* A catalog transaction holds PostgreSQL advisory locks until it ends.    *)
(* A transaction is one action unless the code does something inside it    *)
(* that a step outside its locks can see or disturb: the second admission  *)
(* transaction (Check, Commit), the deletion worker's (Begin, one Erase    *)
(* for each object, Commit) and the collector's (Delete, Commit) are split *)
(* and hold their locks between the steps.  Object writes happen outside   *)
(* every lock.  A request the code refuses leaves no trace (the            *)
(* transaction rolls back), so a refusal is a stuttering step.             *)
(***************************************************************************)
EXTENDS Integers, FiniteSets

CONSTANTS
    Attempt,          \* attempt identities of one tenant and cluster
    Stream,           \* (producer, transport epoch, stream) identities
    Key,              \* object keys: content addressed, one per payload digest
    Upload,           \* the segments that producers may send
    Uploader,         \* concurrent calls of admit
    Hold,             \* hold identifiers
    Worker,           \* deletion worker replicas
    Corruptible,      \* keys whose stored bytes may rot
    None,             \* null
    MaxReservations,  \* bound: reservation identifiers ever issued
    MaxFaults,        \* bound: worker crashes and leases that expire early
    MaxAttempts       \* 5 in the code: tries before "failed"

ASSUME LifecycleAssumption ==
    /\ Upload \subseteq [attempt: Attempt, stream: Stream, first: Nat,
                         last: Nat, key: Key, generation: Nat]
    /\ Corruptible \subseteq Key
    /\ None \notin Upload \cup Attempt \cup Worker
    /\ MaxReservations \in Nat /\ MaxFaults \in Nat /\ MaxAttempts \in Nat

VARIABLES
    known,         \* attempts with an AttemptGeneration row
    generation,    \* its deletion generation (0 while there is no row)
    fenced,        \* attempts whose row has deleted_at set
    reservations,  \* AdmissionReservation rows
    nextId,        \* the next fresh reservation identifier
    manifests,     \* SegmentManifest rows
    receipts,      \* uploads a durable receipt was returned for
    store,         \* what the object store holds under each key
    uploadPc,      \* progress of each admit call
    segment,       \* the upload of each admit call
    reservationId, \* the reservation each admit call works under
    holdState,     \* AttemptHold.state
    holdAttempt,   \* the attempt each hold is bound to
    deletion,      \* AttemptDeletion rows
    workerPc,      \* progress of each deletion worker
    lease,         \* the DeletionLease each worker holds
    deletable,     \* unshared segment keys of the attempt being erased
    todo,          \* the ones not yet removed from the store
    candidate,     \* ObjectGcCandidate.state
    gcAttempts,    \* ObjectGcCandidate.attempts
    gc,            \* the collector's open transaction for each key
    faults         \* faults so far (see MaxFaults)

catalogVars == <<known, generation, fenced, reservations, nextId, manifests, receipts>>
uploadVars == <<uploadPc, segment, reservationId>>
holdVars == <<holdState, holdAttempt>>
workerVars == <<workerPc, lease, deletable, todo, faults>>
gcVars == <<candidate, gcAttempts, gc>>
vars == <<catalogVars, store, uploadVars, holdVars, deletion, workerVars, gcVars>>

NoLease == [attempt |-> None, generation |-> 0, number |-> 0]
NoDeletion ==
    [state |-> "none", generation |-> 0, attempts |-> 0, owner |-> None, number |-> 0]

DeletionState == {"none", "pending", "processing", "held", "failed", "completed"}
DeletionRow == [state: DeletionState, generation: Nat, attempts: Nat,
                owner: Worker \cup {None}, number: Nat]
Reservation ==
    [id: Nat, segment: Upload, state: {"reserved", "committed", "expired"}]
CandidateState == {"none", "pending", "protected", "failed", "deleted", "missing"}

Init ==
    /\ known = {} /\ fenced = {} /\ manifests = {} /\ receipts = {}
    /\ generation = [a \in Attempt |-> 0]
    /\ reservations = {} /\ nextId = 0
    /\ store = [k \in Key |-> "absent"]
    /\ uploadPc = [u \in Uploader |-> "idle"]
    /\ segment = [u \in Uploader |-> None]
    /\ reservationId = [u \in Uploader |-> 0]
    /\ holdState = [h \in Hold |-> "none"]
    /\ holdAttempt = [h \in Hold |-> None]
    /\ deletion = [a \in Attempt |-> NoDeletion]
    /\ workerPc = [w \in Worker |-> "idle"]
    /\ lease = [w \in Worker |-> NoLease]
    /\ deletable = [w \in Worker |-> {}]
    /\ todo = [w \in Worker |-> {}]
    /\ candidate = [k \in Key |-> "none"]
    /\ gcAttempts = [k \in Key |-> 0]
    /\ gc = [k \in Key |-> "idle"]
    /\ faults = 0

-----------------------------------------------------------------------------
(* Catalog queries. *)

SameRange(s, t) == s.stream = t.stream /\ s.first = t.first /\ s.last = t.last

Overlaps(s, t) == s.stream = t.stream /\ s.first <= t.last /\ s.last >= t.first

\* Mutant: only an identical range counts as a clash.
OverlappingExact(s) == {m \in manifests : SameRange(m, s)}

Overlapping(s) == {m \in manifests : Overlaps(m, s)}

\* A reservation in one of these states keeps its object from collection.
LiveReservations == {r \in reservations : r.state \in {"reserved", "committed"}}

Referenced(k) ==
    \/ \E m \in manifests : m.key = k
    \/ \E r \in LiveReservations : r.segment.key = k

SegmentKeys(a) == {m.key : m \in {n \in manifests : n.attempt = a}}

\* Keys some other attempt's manifest or live reservation still needs.
SharedKeys(a) ==
    {k \in Key : \/ \E m \in manifests : m.key = k /\ m.attempt # a
                 \/ \E r \in LiveReservations : r.segment.key = k /\ r.segment.attempt # a}

ActiveHolds(a) == {h \in Hold : holdState[h] = "active" /\ holdAttempt[h] = a}

-----------------------------------------------------------------------------
(* Advisory locks: who holds them follows from the open transactions. *)

\* Mutant: nobody waits for an erasure.
AttemptLockedByUploader(a) ==
    \E u \in Uploader : uploadPc[u] = "checked" /\ segment[u].attempt = a

AttemptLocked(a) ==
    \/ \E u \in Uploader : uploadPc[u] = "checked" /\ segment[u].attempt = a
    \/ \E w \in Worker : workerPc[w] = "erasing" /\ lease[w].attempt = a

StreamLocked(x) == \E u \in Uploader : uploadPc[u] = "checked" /\ segment[u].stream = x

\* Mutant: admission does not lock the object it checked.
ObjectLockedByOthers(k) ==
    \/ \E w \in Worker : workerPc[w] = "erasing" /\ k \in SegmentKeys(lease[w].attempt)
    \/ gc[k] # "idle"

ObjectLocked(k) ==
    \/ \E u \in Uploader : uploadPc[u] = "checked" /\ segment[u].key = k
    \/ \E w \in Worker : workerPc[w] = "erasing" /\ k \in SegmentKeys(lease[w].attempt)
    \/ gc[k] # "idle"

LocksFree(s) ==
    ~AttemptLocked(s.attempt) /\ ~StreamLocked(s.stream) /\ ~ObjectLocked(s.key)

-----------------------------------------------------------------------------
(* IngestionService.admit. *)

\* Both admission transactions refuse a fenced attempt and a stale generation.
Admissible(s) ==
    /\ LocksFree(s)
    /\ s.attempt \notin fenced
    /\ s.generation = generation[s.attempt]

\* First transaction, the exact range is already admitted: answer with its receipt.
AdmitReplay(s) ==
    /\ Admissible(s)
    /\ \E m \in manifests : SameRange(m, s) /\ m.key = s.key
    /\ receipts' = receipts \cup {s}
    /\ known' = known \cup {s.attempt}
    /\ UNCHANGED <<generation, fenced, reservations, nextId, manifests, store,
                   uploadVars, holdVars, deletion, workerVars, gcVars>>

\* First transaction: adopt the live reservation of the range, or replace a
\* terminal one by a fresh identity, or insert a new one.
AdmitReserve(u, s) ==
    LET rows == {r \in reservations : SameRange(r.segment, s)}
        fresh == [id |-> nextId, segment |-> s, state |-> "reserved"]
    IN  /\ uploadPc[u] = "idle"
        /\ Admissible(s)
        /\ Overlapping(s) = {}
        /\ \/ \E r \in rows :
                /\ r.state = "reserved" /\ r.segment.key = s.key
                /\ reservationId' = [reservationId EXCEPT ![u] = r.id]
                /\ UNCHANGED <<reservations, nextId>>
           \/ /\ \A r \in rows : r.state = "expired"
              /\ nextId < MaxReservations
              /\ reservations' = (reservations \ rows) \cup {fresh}
              /\ nextId' = nextId + 1
              /\ reservationId' = [reservationId EXCEPT ![u] = nextId]
        /\ uploadPc' = [uploadPc EXCEPT ![u] = "put"]
        /\ segment' = [segment EXCEPT ![u] = s]
        /\ known' = known \cup {s.attempt}
        /\ UNCHANGED <<generation, fenced, manifests, receipts, store, holdVars,
                       deletion, workerVars, gcVars>>

\* The call ends without a receipt: refused, failed or its process died.
EndUpload(u) ==
    /\ uploadPc' = [uploadPc EXCEPT ![u] = "idle"]
    /\ segment' = [segment EXCEPT ![u] = None]
    /\ reservationId' = [reservationId EXCEPT ![u] = 0]

\* put_verified, under no lock: an intact object is kept, a rotten one is an error.
AdmitPut(u) ==
    LET k == segment[u].key
    IN  /\ uploadPc[u] = "put"
        /\ store[k] # "corrupt"
        /\ store' = [store EXCEPT ![k] = "intact"]
        /\ uploadPc' = [uploadPc EXCEPT ![u] = "stored"]
        /\ UNCHANGED <<catalogVars, segment, reservationId, holdVars, deletion,
                       workerVars, gcVars>>

InState(r, s) == [r EXCEPT !.state = s]

\* The reservation this call may still commit under.
OwnReservation(u) == {r \in reservations : r.id = reservationId[u] /\ r.state = "reserved"}

\* Second transaction, up to the last check: locks are held from here on.
AdmitCheck(u) ==
    LET s == segment[u]
    IN  /\ uploadPc[u] = "stored"
        /\ Admissible(s)
        /\ \E r \in OwnReservation(u) : r.segment.generation = s.generation
        /\ store[s.key] = "intact"
        /\ \A m \in Overlapping(s) : SameRange(m, s) /\ m.key = s.key
        /\ uploadPc' = [uploadPc EXCEPT ![u] = "checked"]
        /\ UNCHANGED <<catalogVars, store, segment, reservationId, holdVars, deletion,
                       workerVars, gcVars>>

\* Second transaction, the writes.  The reservation is committed even when the
\* sweeper expired it after the check; its update fails when the row is gone.
AdmitCommit(u) ==
    LET s == segment[u]
    IN  /\ uploadPc[u] = "checked"
        /\ \E r \in reservations : r.id = reservationId[u]
        /\ manifests' = IF Overlapping(s) = {} THEN manifests \cup {s} ELSE manifests
        /\ reservations' = {IF r.id = reservationId[u] THEN InState(r, "committed") ELSE r :
                              r \in reservations}
        /\ receipts' = receipts \cup {s}
        /\ EndUpload(u)
        /\ UNCHANGED <<known, generation, fenced, nextId, store, holdVars, deletion,
                       workerVars, gcVars>>

\* A refusal after the first transaction (expired reservation, missing or rotten
\* object, overlap, identity conflict), or a crash: an open transaction rolls back.
AdmitAbort(u) ==
    /\ uploadPc[u] # "idle"
    /\ EndUpload(u)
    /\ UNCHANGED <<catalogVars, store, holdVars, deletion, workerVars, gcVars>>

-----------------------------------------------------------------------------
(* Retention holds and deletion requests, each under the attempt's lock. *)

\* What happens to an AttemptDeletion row: erasure is blocked, (re)armed, leased,
\* or its lease ends in state s.
Blocked(d) == [d EXCEPT !.state = "held", !.owner = None]
Armed(d, g) == [d EXCEPT !.state = "pending", !.generation = g, !.attempts = 0,
                         !.owner = None]
Leased(d, w) == [state |-> "processing", generation |-> d.generation,
                 attempts |-> d.attempts + 1, owner |-> w, number |-> d.number + 1]
Ended(d, s) == [d EXCEPT !.state = s, !.owner = None]

\* Fence once: the generation moves and deleted_at is set on the first deletion.
FencedGeneration(a) == IF a \in fenced THEN generation[a] ELSE generation[a] + 1

Fence(a) ==
    /\ known' = known \cup {a}
    /\ fenced' = fenced \cup {a}
    /\ generation' = [generation EXCEPT ![a] = FencedGeneration(a)]

PlaceHold(h, a) ==
    /\ ~AttemptLocked(a)
    /\ a \in known
    /\ deletion[a].state # "completed"
    /\ holdState[h] = "none"
    /\ holdState' = [holdState EXCEPT ![h] = "active"]
    /\ holdAttempt' = [holdAttempt EXCEPT ![h] = a]
    /\ deletion' = IF deletion[a].state = "none" THEN deletion
                   ELSE [deletion EXCEPT ![a] = Blocked(@)]
    /\ UNCHANGED <<catalogVars, store, uploadVars, workerVars, gcVars>>

\* Mutant: releasing the last hold forgets the deletion that waits for it.
ReleaseHoldOnly(h) ==
    /\ holdState[h] = "active"
    /\ ~AttemptLocked(holdAttempt[h])
    /\ holdState' = [holdState EXCEPT ![h] = "released"]
    /\ UNCHANGED <<catalogVars, store, uploadVars, holdAttempt, deletion, workerVars, gcVars>>

\* Releasing the last hold of a blocked deletion fences the attempt and re-arms it.
ReleaseHold(h) ==
    LET a == holdAttempt[h]
    IN  /\ holdState[h] = "active"
        /\ ~AttemptLocked(a)
        /\ holdState' = [holdState EXCEPT ![h] = "released"]
        /\ IF ActiveHolds(a) = {h} /\ deletion[a].state = "held"
             THEN /\ Fence(a)
                  /\ deletion' = [deletion EXCEPT ![a] = Armed(@, FencedGeneration(a))]
             ELSE UNCHANGED <<known, fenced, generation, deletion>>
        /\ UNCHANGED <<reservations, nextId, manifests, receipts, store, uploadVars,
                       holdAttempt, workerVars, gcVars>>

\* delete_attempt under a hold: recorded as held, the attempt stays open.
DeleteHeldAttempt(a) ==
    /\ ~AttemptLocked(a)
    /\ ActiveHolds(a) # {}
    /\ known' = known \cup {a}
    /\ deletion' =
         IF deletion[a].state = "completed" THEN deletion
         ELSE [deletion EXCEPT ![a] =
                 IF @.state = "none" THEN Blocked(Armed(@, generation[a])) ELSE Blocked(@)]
    /\ UNCHANGED <<generation, fenced, reservations, nextId, manifests, receipts, store,
                   uploadVars, holdVars, workerVars, gcVars>>

\* delete_attempt without a hold: fence, and queue erasure once per generation.
DeleteAttempt(a) ==
    /\ ~AttemptLocked(a)
    /\ ActiveHolds(a) = {}
    /\ Fence(a)
    /\ deletion' = IF \/ deletion[a].state = "none"
                      \/ deletion[a].generation # FencedGeneration(a)
                     THEN [deletion EXCEPT ![a] = Armed(@, FencedGeneration(a))]
                     ELSE deletion
    /\ UNCHANGED <<reservations, nextId, manifests, receipts, store, uploadVars, holdVars,
                   workerVars, gcVars>>

-----------------------------------------------------------------------------
(* AttemptDeletionWorker. *)

Matches(w) ==
    LET d == deletion[lease[w].attempt]
    IN  /\ d.state = "processing"
        /\ d.owner = w
        /\ d.number = lease[w].number
        /\ d.generation = lease[w].generation

\* Some worker still works under the attempt's current lease.
LeaseInUse(a) == \E w \in Worker : workerPc[w] # "idle" /\ lease[w].attempt = a /\ Matches(w)

\* Mutant: an expired lease is never taken over.
DeletionClaimPending(w, a) ==
    LET d == Leased(deletion[a], w)
    IN  /\ workerPc[w] = "idle"
        /\ deletion[a].state = "pending"
        /\ deletion' = [deletion EXCEPT ![a] = d]
        /\ lease' = [lease EXCEPT ![w] = [attempt |-> a, generation |-> d.generation,
                                          number |-> d.number]]
        /\ workerPc' = [workerPc EXCEPT ![w] = "claimed"]
        /\ UNCHANGED <<catalogVars, store, uploadVars, holdVars, deletable, todo, faults, gcVars>>

\* Takes no advisory lock.  An expired lease is taken over; taking over from a
\* worker that is still alive is a fault (it only happens when the lease is too short).
DeletionClaim(w, a) ==
    LET d == Leased(deletion[a], w)
    IN  /\ workerPc[w] = "idle"
        /\ deletion[a].state \in {"pending", "processing"}
        /\ IF LeaseInUse(a) THEN faults < MaxFaults /\ faults' = faults + 1
                            ELSE faults' = faults
        /\ deletion' = [deletion EXCEPT ![a] = d]
        /\ lease' = [lease EXCEPT ![w] = [attempt |-> a, generation |-> d.generation,
                                          number |-> d.number]]
        /\ workerPc' = [workerPc EXCEPT ![w] = "claimed"]
        /\ UNCHANGED <<catalogVars, store, uploadVars, holdVars, deletable, todo, gcVars>>

EndWork(w) ==
    /\ workerPc' = [workerPc EXCEPT ![w] = "idle"]
    /\ lease' = [lease EXCEPT ![w] = NoLease]
    /\ deletable' = [deletable EXCEPT ![w] = {}]
    /\ todo' = [todo EXCEPT ![w] = {}]

\* execute: the lease was lost, or a hold blocks erasure.
DeletionDecline(w) ==
    LET a == lease[w].attempt
    IN  /\ workerPc[w] = "claimed"
        /\ \/ ~Matches(w)
           \/ ~AttemptLocked(a) /\ ActiveHolds(a) # {}
        /\ deletion' = IF Matches(w) THEN [deletion EXCEPT ![a] = Blocked(@)] ELSE deletion
        /\ EndWork(w)
        /\ UNCHANGED <<catalogVars, store, uploadVars, holdVars, faults, gcVars>>

\* execute: all locks are taken and the unshared objects are listed.
DeletionBegin(w) ==
    LET a == lease[w].attempt
        keys == SegmentKeys(a) \ SharedKeys(a)
    IN  /\ workerPc[w] = "claimed"
        /\ Matches(w)
        /\ ~AttemptLocked(a)
        /\ ActiveHolds(a) = {}
        /\ \A k \in SegmentKeys(a) : ~ObjectLocked(k)
        /\ IF a \in fenced /\ generation[a] = lease[w].generation
             THEN /\ workerPc' = [workerPc EXCEPT ![w] = "erasing"]
                  /\ deletable' = [deletable EXCEPT ![w] = keys]
                  /\ todo' = [todo EXCEPT ![w] = keys]
             ELSE /\ workerPc' = [workerPc EXCEPT ![w] = "failing"]
                  /\ UNCHANGED <<deletable, todo>>
        /\ UNCHANGED <<catalogVars, store, uploadVars, holdVars, deletion, lease, faults,
                       gcVars>>

\* delete_verified of one object.  Not transactional: a rollback does not undo it.
DeletionErase(w, k) ==
    /\ workerPc[w] = "erasing"
    /\ k \in todo[w]
    /\ store[k] # "corrupt"
    /\ store' = [store EXCEPT ![k] = "absent"]
    /\ todo' = [todo EXCEPT ![w] = @ \ {k}]
    /\ UNCHANGED <<catalogVars, uploadVars, holdVars, deletion, workerPc, lease, deletable,
                   faults, gcVars>>

\* delete_verified finds rotten bytes: the transaction rolls back.
DeletionIntegrityError(w) ==
    /\ workerPc[w] = "erasing"
    /\ \E k \in todo[w] : store[k] = "corrupt"
    /\ workerPc' = [workerPc EXCEPT ![w] = "failing"]
    /\ deletable' = [deletable EXCEPT ![w] = {}]
    /\ todo' = [todo EXCEPT ![w] = {}]
    /\ UNCHANGED <<catalogVars, store, uploadVars, holdVars, deletion, lease, faults, gcVars>>

\* The catalog after erasing attempt a, and two mutants: reservations stay behind;
\* or manifests go by object instead of by attempt.
KeepReservations(a) ==
    /\ manifests' = {m \in manifests : m.attempt # a}
    /\ UNCHANGED reservations
EraseByObject(a) ==
    /\ manifests' = {m \in manifests : m.key \notin SegmentKeys(a)}
    /\ reservations' = {r \in reservations : r.segment.attempt # a}
EraseCatalog(a) ==
    /\ manifests' = {m \in manifests : m.attempt # a}
    /\ reservations' = {r \in reservations : r.segment.attempt # a}

\* All objects are gone: drop the attempt's rows and keep the tombstone.
DeletionCommit(w) ==
    LET a == lease[w].attempt
    IN  /\ workerPc[w] = "erasing"
        /\ todo[w] = {}
        /\ EraseCatalog(a)
        /\ candidate' = [k \in Key |-> IF k \in deletable[w] THEN "none" ELSE candidate[k]]
        /\ gcAttempts' = [k \in Key |-> IF k \in deletable[w] THEN 0 ELSE gcAttempts[k]]
        /\ deletion' = [deletion EXCEPT ![a] = Ended(@, "completed")]
        /\ EndWork(w)
        /\ UNCHANGED <<known, generation, fenced, nextId, receipts, store, uploadVars,
                       holdVars, faults, gc>>

\* fail: the row is read, and later overwritten, without the attempt's lock.
DeletionFailRead(w) ==
    /\ workerPc[w] = "failing"
    /\ IF Matches(w)
         THEN /\ workerPc' = [workerPc EXCEPT ![w] =
                   IF deletion[lease[w].attempt].attempts >= MaxAttempts
                     THEN "failed" ELSE "pending"]
              /\ UNCHANGED <<lease, deletable, todo>>
         ELSE EndWork(w)
    /\ UNCHANGED <<catalogVars, store, uploadVars, holdVars, deletion, faults, gcVars>>

DeletionFailWrite(w) ==
    /\ workerPc[w] \in {"failed", "pending"}
    /\ deletion' = [deletion EXCEPT ![lease[w].attempt] = Ended(@, workerPc[w])]
    /\ EndWork(w)
    /\ UNCHANGED <<catalogVars, store, uploadVars, holdVars, faults, gcVars>>

DeletionCrash(w) ==
    /\ workerPc[w] # "idle"
    /\ faults < MaxFaults
    /\ faults' = faults + 1
    /\ EndWork(w)
    /\ UNCHANGED <<catalogVars, store, uploadVars, holdVars, deletion, gcVars>>

-----------------------------------------------------------------------------
(* ReservationSweeper, ObjectGcWorker and ObjectGcAuditWorker. *)

\* Takes no advisory lock.  A candidate is added unless the key ever had one.
SweepReservation(r) ==
    LET k == r.segment.key
    IN  /\ r.state = "reserved"
        /\ reservations' = (reservations \ {r}) \cup {InState(r, "expired")}
        /\ candidate' = [candidate EXCEPT ![k] = IF @ = "none" THEN "pending" ELSE @]
        /\ UNCHANGED <<known, generation, fenced, nextId, manifests, receipts, store,
                       uploadVars, holdVars, deletion, workerVars, gcAttempts, gc>>

\* The grace period is over and nothing has the candidate's row or object lock.
GcDue(k) == candidate[k] = "pending" /\ ~ObjectLocked(k)

GcProtect(k) ==
    /\ GcDue(k)
    /\ Referenced(k)
    /\ candidate' = [candidate EXCEPT ![k] = "protected"]
    /\ gcAttempts' = [gcAttempts EXCEPT ![k] = @ + 1]
    /\ UNCHANGED <<catalogVars, store, uploadVars, holdVars, deletion, workerVars, gc>>

\* delete_verified inside the collector's transaction; again not transactional.
GcDelete(k) ==
    /\ GcDue(k)
    /\ ~Referenced(k)
    /\ store[k] # "corrupt"
    /\ gc' = [gc EXCEPT ![k] = IF store[k] = "intact" THEN "deleted" ELSE "missing"]
    /\ store' = [store EXCEPT ![k] = "absent"]
    /\ UNCHANGED <<catalogVars, uploadVars, holdVars, deletion, workerVars, candidate,
                   gcAttempts>>

GcCommit(k) ==
    /\ gc[k] # "idle"
    /\ candidate' = [candidate EXCEPT ![k] = gc[k]]
    /\ gcAttempts' = [gcAttempts EXCEPT ![k] = @ + 1]
    /\ gc' = [gc EXCEPT ![k] = "idle"]
    /\ UNCHANGED <<catalogVars, store, uploadVars, holdVars, deletion, workerVars>>

\* The process dies: the row is unchanged, the object may be gone already.
GcCrash(k) ==
    /\ gc[k] # "idle"
    /\ gc' = [gc EXCEPT ![k] = "idle"]
    /\ UNCHANGED <<catalogVars, store, uploadVars, holdVars, deletion, workerVars, candidate,
                   gcAttempts>>

\* Rotten bytes are kept: retried with a delay, quarantined after MaxAttempts.
GcIntegrityError(k) ==
    /\ GcDue(k)
    /\ ~Referenced(k)
    /\ store[k] = "corrupt"
    /\ gcAttempts' = [gcAttempts EXCEPT ![k] = @ + 1]
    /\ candidate' = [candidate EXCEPT ![k] = IF gcAttempts[k] + 1 >= MaxAttempts
                                               THEN "failed" ELSE @]
    /\ UNCHANGED <<catalogVars, store, uploadVars, holdVars, deletion, workerVars, gc>>

\* ObjectGcAuditWorker: reconcile a protected or quarantined key with the catalog.
GcAudit(k) ==
    LET outcome == CASE store[k] = "corrupt" -> "failed"
                     [] store[k] = "intact" /\ Referenced(k) -> "protected"
                     [] store[k] = "absent" /\ Referenced(k) -> "failed"
                     [] store[k] = "intact" /\ ~Referenced(k) -> "pending"
                     [] OTHER -> "missing"
    IN  /\ candidate[k] \in {"protected", "failed"}
        /\ ~ObjectLocked(k)
        /\ candidate' = [candidate EXCEPT ![k] = outcome]
        /\ gcAttempts' = [gcAttempts EXCEPT ![k] = IF outcome = "pending" THEN 0 ELSE @]
        /\ UNCHANGED <<catalogVars, store, uploadVars, holdVars, deletion, workerVars, gc>>

\* Environment: stored bytes rot.
Rot(k) ==
    /\ store[k] = "intact"
    /\ store' = [store EXCEPT ![k] = "corrupt"]
    /\ UNCHANGED <<catalogVars, uploadVars, holdVars, deletion, workerVars, gcVars>>


-----------------------------------------------------------------------------

Admit ==
    \/ \E s \in Upload : AdmitReplay(s)
    \/ \E u \in Uploader, s \in Upload : AdmitReserve(u, s)
    \/ \E u \in Uploader : AdmitPut(u) \/ AdmitCheck(u) \/ AdmitCommit(u) \/ AdmitAbort(u)

Lifecycle ==
    \/ \E h \in Hold, a \in Attempt : PlaceHold(h, a)
    \/ \E h \in Hold : ReleaseHold(h)
    \/ \E a \in Attempt : DeleteHeldAttempt(a) \/ DeleteAttempt(a)

DeletionStep(w) ==
    \/ \E a \in Attempt : DeletionClaim(w, a)
    \/ DeletionDecline(w)
    \/ DeletionBegin(w)
    \/ \E k \in Key : DeletionErase(w, k)
    \/ DeletionIntegrityError(w)
    \/ DeletionCommit(w)
    \/ DeletionFailRead(w)
    \/ DeletionFailWrite(w)

Reclaim ==
    \/ \E r \in reservations : SweepReservation(r)
    \/ \E k \in Key : \/ GcProtect(k) \/ GcDelete(k) \/ GcCommit(k) \/ GcCrash(k)
                      \/ GcIntegrityError(k) \/ GcAudit(k)

Next ==
    \/ Admit
    \/ Lifecycle
    \/ \E w \in Worker : DeletionStep(w) \/ DeletionCrash(w)
    \/ Reclaim
    \/ \E k \in Corruptible : Rot(k)

Spec == Init /\ [][Next]_vars

\* Open transactions end, worker replicas keep polling, and a worker waiting for
\* its locks gets them (PostgreSQL queues waiters in order).
Fairness ==
    /\ \A u \in Uploader : WF_vars(AdmitCommit(u) \/ (uploadPc[u] = "checked" /\ AdmitAbort(u)))
    /\ \A w \in Worker : WF_vars(DeletionStep(w)) /\ SF_vars(DeletionBegin(w))
    /\ \A k \in Key : WF_vars(GcCommit(k) \/ GcCrash(k))

FairSpec == Spec /\ Fairness

-----------------------------------------------------------------------------
UploadPc == {"idle", "put", "stored", "checked"}
WorkerPc == {"idle", "claimed", "erasing", "failing", "failed", "pending"}

TypeOK ==
    /\ known \subseteq Attempt /\ fenced \subseteq known
    /\ generation \in [Attempt -> Nat]
    /\ reservations \subseteq Reservation
    /\ nextId \in Nat
    /\ manifests \subseteq Upload /\ receipts \subseteq Upload
    /\ store \in [Key -> {"absent", "intact", "corrupt"}]
    /\ uploadPc \in [Uploader -> UploadPc]
    /\ segment \in [Uploader -> Upload \cup {None}]
    /\ \A u \in Uploader : uploadPc[u] # "idle" => segment[u] \in Upload
    /\ reservationId \in [Uploader -> Nat]
    /\ holdState \in [Hold -> {"none", "active", "released"}]
    /\ holdAttempt \in [Hold -> Attempt \cup {None}]
    /\ \A h \in Hold : holdState[h] # "none" => holdAttempt[h] \in Attempt
    /\ deletion \in [Attempt -> DeletionRow]
    /\ workerPc \in [Worker -> WorkerPc]
    /\ lease \in [Worker -> [attempt: Attempt \cup {None}, generation: Nat, number: Nat]]
    /\ \A w \in Worker : workerPc[w] # "idle" => lease[w].attempt \in Attempt
    /\ deletable \in [Worker -> SUBSET Key] /\ todo \in [Worker -> SUBSET Key]
    /\ candidate \in [Key -> CandidateState]
    /\ gcAttempts \in [Key -> Nat]
    /\ gc \in [Key -> {"idle", "deleted", "missing"}]
    /\ faults \in Nat

\* A durable segment is readable: no collector, sweeper, crash or other attempt's
\* erasure removes the object of a manifest whose attempt was not itself deleted
\* (worker.py: shared keys, references, object locks around check and delete).
ManifestBacked ==
    \A m \in manifests : m.attempt \notin fenced => store[m.key] # "absent"

\* No two admitted segments of a stream overlap, whoever raced to admit them
\* (ingestion.py: "segment overlaps an admitted sequence range").
NoOverlap ==
    \A m, n \in manifests : Overlaps(m, n) => m = n

\* A durable receipt is kept: what the service acknowledged stays in the catalog
\* until the attempt itself is deleted, whatever retries, sweeps and other
\* attempts' deletions happen.
ReceiptDurable ==
    \A s \in receipts : s.attempt \notin fenced =>
        \E m \in manifests : SameRange(m, s) /\ m.key = s.key

\* After a deletion request fenced an attempt, none of its manifests appears, not
\* even from a call that had passed the first admission transaction.
AdmitsOpenAttempts == \A m \in manifests' \ manifests : m.attempt \notin fenced'
FenceHolds == [][AdmitsOpenAttempts]_vars

\* "Administrative retention hold that takes precedence over physical erasure"
\* (database.py:52): while a hold is active no manifest of the attempt goes and no
\* object behind one is removed.
KeepsHeldEvidence ==
    \A m \in manifests : ActiveHolds(m.attempt) # {} =>
        /\ m \in manifests'
        /\ store[m.key] # "absent" => store'[m.key] # "absent"
HoldPreservesEvidence == [][KeepsHeldEvidence]_vars

\* A deletion is held only while some hold is active: releasing the last hold
\* re-arms it, so no request is blocked by nothing.
HeldHasHold ==
    \A a \in Attempt : deletion[a].state = "held" => ActiveHolds(a) # {}

\* Once the erasure is recorded as completed the catalog knows nothing of the
\* attempt and no admission in flight can bring it back.
CompletedErased ==
    \A a \in Attempt : deletion[a].state = "completed" =>
        /\ a \in fenced
        /\ a \notin {m.attempt : m \in manifests}
        /\ a \notin {r.segment.attempt : r \in reservations}

\* "a leased background worker removes its telemetry" (README.md:111): when every
\* known attempt is erased and no admission is in flight, what the store still
\* holds is on its way out through a collection candidate.
ErasureRemovesTelemetry ==
    (/\ \A a \in Attempt : deletion[a].state = "completed"
     /\ \A u \in Uploader : uploadPc[u] = "idle")
    => \A k \in Key : store[k] # "absent" => candidate[k] \in {"pending", "protected", "failed"}

\* A queued erasure ends: completed, blocked by a hold, or given up after MaxAttempts.
DeletionEnds ==
    \A a \in Attempt : deletion[a].state = "pending" ~>
                         deletion[a].state \in {"completed", "held", "failed"}

-----------------------------------------------------------------------------
(* The service implements the ledger. *)

ActiveHoldPairs ==
    {p \in Hold \X Attempt : holdState[p[1]] = "active" /\ holdAttempt[p[1]] = p[2]}

Ledger == INSTANCE AttemptLedger
            WITH admitted <- manifests, closed <- fenced, held <- ActiveHoldPairs

\* Every step of the service, with its locks, leases, crashes and unlocked object
\* writes, is a step of AttemptLedger or changes nothing it can see.
ImplementsLedger == Ledger!Spec

-----------------------------------------------------------------------------
(* The inductive invariant behind the safety properties. *)

\* Advisory locks exclude each other.
LockExclusion ==
    /\ \A u, v \in Uploader :
         u # v /\ uploadPc[u] = "checked" /\ uploadPc[v] = "checked" =>
            segment[u].attempt # segment[v].attempt /\ segment[u].stream # segment[v].stream
    /\ \A u \in Uploader, w \in Worker :
         uploadPc[u] = "checked" /\ workerPc[w] = "erasing" =>
            /\ segment[u].attempt # lease[w].attempt
            /\ segment[u].key \notin SegmentKeys(lease[w].attempt)
    /\ \A v, w \in Worker :
         v # w /\ workerPc[v] = "erasing" /\ workerPc[w] = "erasing" =>
            lease[v].attempt # lease[w].attempt

\* What the second admission transaction checked still holds when it writes.
CheckedStillTrue ==
    \A u \in Uploader : uploadPc[u] = "checked" =>
        /\ segment[u].attempt \notin fenced
        /\ store[segment[u].key] # "absent"
        /\ \A m \in Overlapping(segment[u]) : SameRange(m, segment[u]) /\ m.key = segment[u].key

\* What the deletion worker checked still holds while it erases.
ErasingStillTrue ==
    \A w \in Worker : workerPc[w] = "erasing" =>
        /\ lease[w].attempt \in fenced
        /\ ActiveHolds(lease[w].attempt) = {}
        /\ todo[w] \subseteq SegmentKeys(lease[w].attempt)
        /\ \A m \in manifests : m.key \in todo[w] => m.attempt = lease[w].attempt

\* Each stream range belongs to one attempt, as it does when every producer seals a
\* range once (main.go: spoolPayload).
RangesOwned ==
    \A s, t \in Upload : SameRange(s, t) => s.attempt = t.attempt

IInv ==
    /\ TypeOK
    /\ LockExclusion
    /\ CheckedStillTrue
    /\ ErasingStillTrue
    /\ ManifestBacked
    /\ NoOverlap
    /\ HeldHasHold

=============================================================================
