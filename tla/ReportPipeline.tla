---------------------------- MODULE ReportPipeline ----------------------------
(***************************************************************************)
(* From an admitted segment to a published report: the transactional       *)
(* outbox, OutboxWorker, ReportRevisionWorker, the erasure of what they    *)
(* wrote and the collection of artifacts that were never published.        *)
(*                                                                         *)
(* Both workers claim outbox rows under leases with the same code; a       *)
(* Worker here is one process that does both jobs in turn.  They read      *)
(* their row without locking it, so between a worker's check of its lease  *)
(* and its write the row may be claimed by another, or deleted: a write to *)
(* a deleted row fails and rolls back everything.  Admission, the fence    *)
(* and erasure appear as SegmentLifecycle's transactions do from outside.  *)
(***************************************************************************)
EXTENDS Integers

CONSTANTS
    Attempt,      \* attempts
    Deletable,    \* the attempts that are deleted some day
    Segment,      \* segments, named by their receipt
    Owner,        \* the attempt of each segment
    Worker,       \* worker processes
    None,         \* null
    MaxFaults,    \* bound: crashes and leases that expire early
    MaxAttempts   \* 5 in the code: tries before "failed"

ASSUME PipelineAssumption ==
    /\ Owner \in [Segment -> Attempt]
    /\ Deletable \subseteq Attempt
    /\ None \notin Worker
    /\ MaxFaults \in Nat /\ MaxAttempts \in Nat

\* An outbox row: the admission of a segment, or the report request that its
\* normalization wrote.
Job == {"segment", "report"} \X Segment

\* The two objects of a report, named by its inputs: keys are content addressed
\* under the attempt.
Artifact == {"parquet", "json"} \X ((SUBSET Segment) \ {{}})

VARIABLES
    admitted,    \* segments with a manifest
    fenced,      \* attempts a deletion request closed
    erased,      \* attempts whose deletion completed
    row,         \* OutboxRecord rows
    normalized,  \* NormalizedSegment rows
    requested,   \* report requests ever inserted for a segment (history)
    revisions,   \* ReportRevision rows
    head,        \* ReportHead rows
    store,       \* report artifacts in the object store
    candidate,   \* ObjectGcCandidate.state of each artifact
    pc,          \* progress of each worker
    job,         \* the row each worker holds a lease on
    number,      \* and the lease's number
    inputs,      \* the report inputs each worker read
    outcome,     \* the state a worker is about to write to its row
    faults       \* faults so far

catalogVars == <<admitted, fenced, erased, normalized, requested, revisions, head>>
workerVars == <<pc, job, number, inputs, outcome>>
vars == <<catalogVars, row, store, candidate, workerVars, faults>>

NoRow == [state |-> "none", attempts |-> 0, owner |-> None, number |-> 0]
NewRow == [NoRow EXCEPT !.state = "pending"]
NoHead == [number |-> 0, inputs |-> {}]

RowState == {"none", "pending", "processing", "completed", "suppressed", "failed"}
Revision == [attempt: Attempt, number: Nat, inputs: SUBSET Segment]

Init ==
    /\ admitted = {} /\ fenced = {} /\ erased = {} /\ normalized = {} /\ revisions = {}
    /\ row = [j \in Job |-> NoRow]
    /\ requested = [s \in Segment |-> 0]
    /\ head = [a \in Attempt |-> NoHead]
    /\ store = {}
    /\ candidate = [k \in Artifact |-> "none"]
    /\ pc = [w \in Worker |-> "idle"]
    /\ job = [w \in Worker |-> None]
    /\ number = [w \in Worker |-> 0]
    /\ inputs = [w \in Worker |-> {}]
    /\ outcome = [w \in Worker |-> None]
    /\ faults = 0

-----------------------------------------------------------------------------

SegmentsOf(a) == {s \in Segment : Owner[s] = a}
AttemptOf(w) == Owner[job[w][2]]

\* _inputs: what the attempt's report is made of now.
Inputs(a) == normalized \cap admitted \cap SegmentsOf(a)

Artifacts(in) == {"parquet", "json"} \X {in}
RevisionArtifacts(a) == UNION {Artifacts(v.inputs) : v \in {r \in revisions : r.attempt = a}}
Referenced(k) == \E v \in revisions : k \in Artifacts(v.inputs)

\* The publishing transaction holds the attempt's lock and its artifacts' locks.
Publishing(w) == pc[w] \in {"locked", "half", "stored"}
AttemptLocked(a) == \E w \in Worker : Publishing(w) /\ AttemptOf(w) = a

\* Mutant: publication does not lock its artifacts.
NeverLocked(k) == FALSE

ObjectLocked(k) == \E w \in Worker : Publishing(w) /\ k \in Artifacts(inputs[w])

-----------------------------------------------------------------------------
(* Admission, fence and erasure. *)

\* The committing transaction of admit inserts the manifest and its event.
Admit(s) ==
    /\ s \notin admitted
    /\ Owner[s] \notin fenced
    /\ ~AttemptLocked(Owner[s])
    /\ admitted' = admitted \cup {s}
    /\ row' = [row EXCEPT ![<<"segment", s>>] = NewRow]
    /\ UNCHANGED <<fenced, erased, normalized, requested, revisions, head, store, candidate,
                   workerVars, faults>>

Fence(a) ==
    /\ ~AttemptLocked(a)
    /\ fenced' = fenced \cup {a}
    /\ UNCHANGED <<admitted, erased, normalized, requested, revisions, head, row, store,
                   candidate, workerVars, faults>>

\* The deletion worker has the attempt's lock and its artifacts' locks.
Erasable(a) ==
    /\ a \in fenced \ erased
    /\ ~AttemptLocked(a)
    /\ \A k \in RevisionArtifacts(a) : ~ObjectLocked(k)

\* It died after it removed some objects and before it committed.
EraseObjects(a) ==
    /\ Erasable(a)
    /\ \E ks \in SUBSET RevisionArtifacts(a) : store' = store \ ks
    /\ UNCHANGED <<catalogVars, row, candidate, workerVars, faults>>

Erase(a) ==
    /\ Erasable(a)
    /\ store' = store \ RevisionArtifacts(a)
    /\ candidate' = [k \in Artifact |->
                       IF k \in RevisionArtifacts(a) THEN "none" ELSE candidate[k]]
    /\ row' = [j \in Job |-> IF j[2] \in SegmentsOf(a) THEN NoRow ELSE row[j]]
    /\ admitted' = admitted \ SegmentsOf(a)
    /\ normalized' = normalized \ SegmentsOf(a)
    /\ revisions' = {v \in revisions : v.attempt # a}
    /\ head' = [head EXCEPT ![a] = NoHead]
    /\ erased' = erased \cup {a}
    /\ UNCHANGED <<fenced, requested, workerVars, faults>>

-----------------------------------------------------------------------------
(* Leases: claim and fail are the same in both workers. *)

Owns(w) ==
    LET r == row[job[w]] IN r.owner = w /\ r.number = number[w]
HoldsLease(w) == row[job[w]].state = "processing" /\ Owns(w)
LeaseInUse(j) == \E w \in Worker : pc[w] # "idle" /\ job[w] = j /\ HoldsLease(w)

Leased(r, w) == [state |-> "processing", attempts |-> r.attempts + 1, owner |-> w,
                 number |-> r.number + 1]
Ended(r, s) == [r EXCEPT !.state = s, !.owner = None]

\* Mutant: an expired lease is never taken over.
ClaimPending(w, j) ==
    /\ pc[w] = "idle"
    /\ row[j].state = "pending"
    /\ row' = [row EXCEPT ![j] = Leased(@, w)]
    /\ pc' = [pc EXCEPT ![w] = "claimed"]
    /\ job' = [job EXCEPT ![w] = j]
    /\ number' = [number EXCEPT ![w] = row[j].number + 1]
    /\ UNCHANGED <<catalogVars, store, candidate, inputs, outcome, faults>>

\* Taking a lease over from a live worker is a fault: the lease was too short.
Claim(w, j) ==
    /\ pc[w] = "idle"
    /\ row[j].state \in {"pending", "processing"}
    /\ IF LeaseInUse(j) THEN faults < MaxFaults /\ faults' = faults + 1
                        ELSE faults' = faults
    /\ row' = [row EXCEPT ![j] = Leased(@, w)]
    /\ pc' = [pc EXCEPT ![w] = "claimed"]
    /\ job' = [job EXCEPT ![w] = j]
    /\ number' = [number EXCEPT ![w] = row[j].number + 1]
    /\ UNCHANGED <<catalogVars, store, candidate, inputs, outcome>>

\* What a worker does next, when only its own progress changes.
Goes(w, next) ==
    /\ pc' = [pc EXCEPT ![w] = next]
    /\ UNCHANGED <<job, number>>

Rest(w) ==
    /\ pc' = [pc EXCEPT ![w] = "idle"]
    /\ job' = [job EXCEPT ![w] = None]
    /\ number' = [number EXCEPT ![w] = 0]
    /\ inputs' = [inputs EXCEPT ![w] = {}]
    /\ outcome' = [outcome EXCEPT ![w] = None]

\* fail looks at owner and number only, and decides by the tries so far.
FailRead(w) ==
    /\ pc[w] = "failing"
    /\ IF Owns(w)
         THEN /\ Goes(w, "writing")
              /\ outcome' = [outcome EXCEPT ![w] =
                   IF row[job[w]].attempts >= MaxAttempts THEN "failed" ELSE "pending"]
              /\ UNCHANGED inputs
         ELSE Rest(w)
    /\ UNCHANGED <<catalogVars, row, store, candidate, faults>>

\* Ends a lease with no other effect; a row that is gone makes the write fail.
WriteOutcome(w) ==
    /\ pc[w] = "writing"
    /\ row' = IF row[job[w]] = NoRow THEN row
              ELSE [row EXCEPT ![job[w]] = Ended(@, outcome[w])]
    /\ Rest(w)
    /\ UNCHANGED <<catalogVars, store, candidate, faults>>

\* An open transaction rolls back; objects already written stay.
Crash(w) ==
    /\ pc[w] # "idle"
    /\ faults < MaxFaults
    /\ faults' = faults + 1
    /\ Rest(w)
    /\ UNCHANGED <<catalogVars, row, store, candidate>>

-----------------------------------------------------------------------------
(* OutboxWorker.execute. *)

\* First transaction: read and parse the payload; no look at the lease.  The
\* object may be rotten or gone, or not hold what the manifest says.
SegmentRead(w) ==
    /\ pc[w] = "claimed" /\ job[w][1] = "segment"
    /\ IF row[job[w]] = NoRow
         THEN Rest(w)
         ELSE /\ \/ job[w][2] \in admitted /\ Goes(w, "parsed")
                 \/ Goes(w, "failing")
              /\ UNCHANGED <<inputs, outcome>>
    /\ UNCHANGED <<catalogVars, row, store, candidate, faults>>

\* Second transaction, the reads: lease, generation, earlier effect.
SegmentCheck(w) ==
    LET s == job[w][2]
    IN  /\ pc[w] = "parsed"
        /\ IF ~HoldsLease(w)
             THEN Rest(w)
             ELSE /\ IF Owner[s] \in fenced \/ s \in normalized
                       THEN /\ Goes(w, "writing")
                            /\ outcome' = [outcome EXCEPT ![w] =
                                 IF Owner[s] \in fenced THEN "suppressed" ELSE "completed"]
                       ELSE Goes(w, "normalizing") /\ UNCHANGED outcome
                  /\ UNCHANGED inputs
        /\ UNCHANGED <<catalogVars, row, store, candidate, faults>>

\* Mutants: a normalized segment may be inserted twice; the event may be gone.
InsertableTwice(s) == row[<<"segment", s>>] # NoRow
InsertableAnyway(s) == s \notin normalized

\* The receipt is the primary key, and the event's own update must find its row.
Insertable(s) == s \notin normalized /\ row[<<"segment", s>>] # NoRow

\* Second transaction, the writes, all or none.
SegmentWrite(w) ==
    LET s == job[w][2]
    IN  /\ pc[w] = "normalizing"
        /\ IF Insertable(s)
             THEN /\ normalized' = normalized \cup {s}
                  /\ requested' = [requested EXCEPT ![s] = @ + 1]
                  /\ row' = [row EXCEPT ![<<"segment", s>>] = Ended(@, "completed"),
                                        ![<<"report", s>>] = NewRow]
             ELSE UNCHANGED <<normalized, requested, row>>
        /\ Rest(w)
        /\ UNCHANGED <<admitted, fenced, erased, revisions, head, store, candidate, faults>>

-----------------------------------------------------------------------------
(* ReportRevisionWorker.execute. *)

\* First transaction: lease, then the inputs.
ReportRead(w) ==
    LET in == Inputs(AttemptOf(w))
    IN  /\ pc[w] = "claimed" /\ job[w][1] = "report"
        /\ IF ~HoldsLease(w)
             THEN Rest(w)
             ELSE /\ Goes(w, IF in = {} THEN "failing" ELSE "reading")
                  /\ inputs' = [inputs EXCEPT ![w] = in]
                  /\ UNCHANGED outcome
        /\ UNCHANGED <<catalogVars, row, store, candidate, faults>>

\* The inputs exceed a limit, or one of their objects is rotten or gone.
ReportUnbuildable(w) ==
    /\ pc[w] = "reading"
    /\ Goes(w, "failing")
    /\ UNCHANGED <<catalogVars, row, store, candidate, inputs, outcome, faults>>

\* _ensure_artifact_candidate: a settled candidate is armed again.  So is a "failed" one,
\* which the collector gave up; here it is one that stays "pending" and is not collected.
Ensured(c) == IF c \in {"none", "deleted", "missing"} THEN "pending" ELSE c

\* _reserve_artifacts, a transaction of its own.
ReportReserve(w) ==
    /\ pc[w] = "reading"
    /\ \A k \in Artifacts(inputs[w]) : ~ObjectLocked(k)
    /\ candidate' = [k \in Artifact |-> IF k \in Artifacts(inputs[w])
                                          THEN Ensured(candidate[k]) ELSE candidate[k]]
    /\ Goes(w, "reserved")
    /\ UNCHANGED <<catalogVars, row, store, inputs, outcome, faults>>

\* Publishing transaction: the lease is checked before the attempt is locked.
ReportLeaseCheck(w) ==
    /\ pc[w] = "reserved"
    /\ IF HoldsLease(w) THEN Goes(w, "leased") /\ UNCHANGED <<inputs, outcome>>
                        ELSE Rest(w)
    /\ UNCHANGED <<catalogVars, row, store, candidate, faults>>

\* Mutant: inputs that changed since they were read go unnoticed.
StaleUnnoticed(w) == FALSE

InputsChanged(w) == Inputs(AttemptOf(w)) # inputs[w]

\* Under the attempt's lock: generation, then fingerprint, then the artifacts' locks.
ReportLock(w) ==
    LET a == AttemptOf(w)
    IN  /\ pc[w] = "leased"
        /\ ~AttemptLocked(a)
        /\ IF a \in fenced \/ InputsChanged(w)
             THEN /\ Goes(w, "writing")
                  /\ outcome' = [outcome EXCEPT ![w] =
                                   IF a \in fenced THEN "suppressed" ELSE "pending"]
             ELSE /\ \A k \in Artifacts(inputs[w]) : ~ObjectLocked(k)
                  /\ Goes(w, "locked")
                  /\ UNCHANGED outcome
        /\ UNCHANGED <<catalogVars, row, store, candidate, inputs, faults>>

\* put_verified of the Parquet file, then of the JSON file, inside the transaction.
NextArtifact(w) == <<IF pc[w] = "locked" THEN "parquet" ELSE "json", inputs[w]>>

ReportPut(w) ==
    /\ pc[w] \in {"locked", "half"}
    /\ store' = store \cup {NextArtifact(w)}
    /\ Goes(w, IF pc[w] = "locked" THEN "half" ELSE "stored")
    /\ UNCHANGED <<catalogVars, row, candidate, inputs, outcome, faults>>

\* put_verified raises: an object that is there under the key is damaged or, as a fault,
\* the bytes just written are.  The transaction rolls back, and an object that it has
\* written before stays.
ReportPutFails(w) ==
    /\ pc[w] \in {"locked", "half"}
    /\ IF NextArtifact(w) \in store THEN faults' = faults
                                    ELSE faults < MaxFaults /\ faults' = faults + 1
    /\ Goes(w, "failing")
    /\ UNCHANGED <<catalogVars, row, store, candidate, inputs, outcome>>

NextRevision(a) == head[a].number + 1

\* The commit: a revision unless these inputs have one, the head, the protection.
ReportPublish(w) ==
    LET a == AttemptOf(w)
        same == {v \in revisions : v.attempt = a /\ v.inputs = inputs[w]}
        new == [attempt |-> a, number |-> NextRevision(a), inputs |-> inputs[w]]
        current == IF same = {} THEN new ELSE CHOOSE v \in same : TRUE
    IN  /\ pc[w] = "stored"
        /\ IF head[a].inputs = inputs[w]
             THEN UNCHANGED <<revisions, head>>
             ELSE /\ revisions' = revisions \cup {current}
                  /\ head' = [head EXCEPT ![a] = [number |-> current.number,
                                                  inputs |-> inputs[w]]]
        /\ candidate' = [k \in Artifact |-> IF k \in Artifacts(inputs[w])
                                              THEN "protected" ELSE candidate[k]]
        /\ row' = [row EXCEPT ![job[w]] = Ended(@, "completed")]
        /\ Rest(w)
        /\ UNCHANGED <<admitted, fenced, erased, normalized, requested, store, faults>>

-----------------------------------------------------------------------------
(* ObjectGcWorker, for report artifacts. *)

\* After the grace period; _ensure_artifact_candidate does not restart it.
GcCollect(k) ==
    /\ candidate[k] = "pending"
    /\ ~ObjectLocked(k)
    /\ IF ~Referenced(k)
         THEN /\ store' = store \ {k}
              /\ candidate' = [candidate EXCEPT ![k] = IF k \in store THEN "deleted" ELSE "missing"]
         ELSE /\ candidate' = [candidate EXCEPT ![k] = "protected"]
              /\ UNCHANGED store
    /\ UNCHANGED <<catalogVars, row, workerVars, faults>>

-----------------------------------------------------------------------------

SegmentStep(w) == SegmentRead(w) \/ SegmentCheck(w) \/ SegmentWrite(w)

ReportStep(w) ==
    \/ ReportRead(w) \/ ReportUnbuildable(w) \/ ReportReserve(w) \/ ReportLeaseCheck(w)
    \/ ReportLock(w) \/ ReportPut(w) \/ ReportPutFails(w)
    \/ ReportPublish(w)

WorkerStep(w) ==
    \/ \E j \in Job : Claim(w, j)
    \/ SegmentStep(w) \/ ReportStep(w) \/ FailRead(w) \/ WriteOutcome(w)

Next ==
    \/ \E s \in Segment : Admit(s)
    \/ \E a \in Deletable : Fence(a) \/ EraseObjects(a) \/ Erase(a)
    \/ \E w \in Worker : WorkerStep(w) \/ Crash(w)
    \/ \E k \in Artifact : GcCollect(k)

Spec == Init /\ [][Next]_vars

\* Worker processes loop for ever (worker.py: main); nothing else need happen.
FairSpec == Spec /\ WF_vars(\E w \in Worker : WorkerStep(w))

-----------------------------------------------------------------------------
WorkerPc == {"idle", "claimed", "failing", "writing", "parsed", "normalizing", "reading",
             "reserved", "leased", "locked", "half", "stored"}

TypeOK ==
    /\ admitted \subseteq Segment /\ normalized \subseteq Segment
    /\ fenced \subseteq Attempt /\ erased \subseteq fenced
    /\ row \in [Job -> [state: RowState, attempts: Nat, owner: Worker \cup {None}, number: Nat]]
    /\ requested \in [Segment -> Nat]
    /\ revisions \subseteq Revision
    /\ head \in [Attempt -> [number: Nat, inputs: SUBSET Segment]]
    /\ store \subseteq Artifact
    /\ candidate \in [Artifact -> {"none", "pending", "protected", "deleted", "missing"}]
    /\ pc \in [Worker -> WorkerPc]
    /\ job \in [Worker -> Job \cup {None}]
    /\ \A w \in Worker : pc[w] # "idle" => job[w] \in Job
    /\ number \in [Worker -> Nat]
    /\ inputs \in [Worker -> SUBSET Segment]
    /\ \A w \in Worker : pc[w] \in {"reading", "reserved", "leased", "locked", "half", "stored"} =>
         inputs[w] # {}
    /\ outcome \in [Worker -> {"pending", "failed", "suppressed", "completed", None}]
    /\ faults \in Nat

\* "Apply one exactly-once effect and fence stale workers at publication"
\* (worker.py, OutboxWorker.execute): a segment is normalized, and a report
\* requested for it, once, however many workers held its lease.
ExactlyOnce == \A s \in Segment : requested[s] <= 1

\* What a published revision names can be downloaded: neither the collector nor a
\* crashed or overtaken worker removes an artifact of an attempt that is open.
RevisionBacked ==
    \A v \in revisions : v.attempt \notin fenced => Artifacts(v.inputs) \subseteq store

\* No evidence is forgotten: a normalized segment is in its attempt's head, or the
\* report request it caused is still to be served or has failed visibly.
HeadCovers ==
    \A s \in normalized : Owner[s] \notin fenced =>
        \/ s \in head[Owner[s]].inputs
        \/ row[<<"report", s>>].state \in {"pending", "processing", "failed"}

\* A head moves to the next revision number and never loses evidence, until its
\* attempt is erased ("atomically advances their head").
AdvancesHead ==
    \A a \in Attempt : head'[a] # head[a] =>
        \/ head'[a] = NoHead /\ a \in fenced
        \/ head'[a].number = head[a].number + 1 /\ head[a].inputs \subseteq head'[a].inputs
HeadAdvances == [][AdvancesHead]_vars

\* An erased attempt stays erased: a worker that had read its rows before cannot
\* write a projection, a request, a revision or a head for it.
ErasedForGood ==
    \A a \in erased :
        /\ \A s \in SegmentsOf(a) : s \notin normalized /\ row[<<"report", s>>] = NoRow
        /\ head[a] = NoHead
        /\ \A v \in revisions : v.attempt # a

\* Every normalized segment gets into the head, unless its request fails for good
\* or its attempt is closed.
Behind ==
    \E s \in normalized :
        /\ s \notin head[Owner[s]].inputs
        /\ row[<<"report", s>>].state # "failed"
        /\ Owner[s] \notin fenced
ReportCaughtUp == Behind ~> ~Behind

=============================================================================
