# RankLens: a TLA+ verification project

RankLens profiles MPI programs (an interceptor, a local analyzer) and, in its enterprise half,
ingests the telemetry into a shared service with retention, deletion and reports. This directory
holds TLA+ models of the parts of it that are concurrent, crash-prone or ordered, the TLC
configurations that check them on small instances, and theorems that TLAPS checks for every size.
Paths are relative to the repository; `PROJECT.json` maps each definition to its lines.

## 1. Inventory

| part | code | state it keeps | operations | module |
|---|---|---|---|---|
| segment admission | `python/ranklens_enterprise/ingestion.py` (`admit`) | generations, reservations, manifests, stored objects | two catalog transactions around an object write | `SegmentLifecycle` |
| holds and deletion requests | `ingestion.py` (`place_attempt_hold`, `release_attempt_hold`, `delete_attempt`) | holds, deletion rows, the fence | place, release, delete | `SegmentLifecycle` |
| attempt deletion worker | `worker.py` (`AttemptDeletionWorker`) | leases on deletion rows | claim, execute, fail | `SegmentLifecycle`, `ReportPipeline` |
| reservation sweeper, object collector, audit | `worker.py` | collection candidates | expire, protect, delete, quarantine, reconcile | `SegmentLifecycle` |
| object store | `storage.py` | content-addressed files | put, verify, delete | `SegmentLifecycle` |
| outbox and report workers | `worker.py` (`OutboxWorker`, `ReportRevisionWorker`) | outbox rows, projections, revisions, heads, artifacts | claim, execute, fail | `ReportPipeline` |
| incidents and notifications | `integrity.py`, `notifications.py` | incidents, notification rows | detect, resolve, claim, send, quarantine, redrive | `IncidentAlerts` |
| retention policies | `ingestion.py`, `worker.py` (`RetentionSweeper`) | revisions, cancellations, expiries | create, cancel, assign, preview, apply, sweep | `Retention` |
| node agent | `agent/main.go` | spool, cursors, receipts | collect, seal, save, drain | `NodeAgent` |
| MPI interceptor | `src/interceptor/ranklens_mpi.cpp` | request tables, event buffers, counters | wrap MPI calls, drain, publish, finalize | `RequestTracking`, `EventRecorder`, `CaptureAnalysis` |
| restore tombstones | `recovery.py`, `recovery_cli.py` | bundles, imported digests | export page by page, apply | `TombstoneRecovery` |
| scheduler poller | `scheduler.py`, `scheduler_service.py`, `slurm.py` | poll cursors, observations, scheduler state of attempts | claim, query, reconcile, publish, fail | `SchedulerPoller` |
| allocation timeline | `scheduler.py` (`derive_allocation_timeline`), `api.py` (`scheduler_allocation`) | none: derived from observations | derive | `AllocationTimeline` |
| launcher and analyzer | `python/ranklens/runner.py`, `analyzer.py` | `run.json`; none | launch, read a capture, judge its coverage | `CaptureAnalysis` |
| HTTP API | `api.py`, `auth.py`, `contracts.py`, `settings.py` | audit rows | request handling around the services | only the allocation endpoint |
| reports, CLI, Parquet, analytics, web viewer | `python/ranklens`, `parquet.py`, `analytics.py`, `web` | none that outlives a run | sequential processing | not modelled |

How they meet. The interceptor writes capture files; the agent seals them into segments and posts
them; admission stores the bytes, then the manifest and an outbox row; the outbox worker normalizes
the segment and requests a report; the report worker publishes a revision and moves the head. Holds,
deletion requests and the retention sweeper decide what is erased, the deletion worker erases, and
the collector removes objects nothing references. The audit opens incidents about objects that are
referenced and damaged, and the notification workers announce them. Scheduler pollers ask Slurm's
accounting what became of the jobs attempts are bound to. After a disaster, tombstones carry the
erasures of the surviving catalog into the restored one. On a workstation the launcher starts the
ranks and the analyzer reads what their interceptors wrote. Everything on the service's
side meets in one PostgreSQL catalog (READ COMMITTED, advisory locks on attempt, stream and object)
and one object store that takes no part in transactions.

What is hard, and where the properties aim: object writes and deletions that no rollback undoes;
leases that expire while their holder lives; rows read without a lock and written later; a fence
that must hold against calls already under way; crashes between two file writes; threads that reuse
an MPI handle while another thread has yet to forget it; two buffers that change places under
writers; accounting that tells of an end after the cursor has passed it; a restored catalog that
does not know what was erased since its backup; a capture read while its ranks still write. `PROJECT.json` lists each of these hazards at its line with the properties that watch it.

What makes each part correct, in a sentence: admitted ranges of a stream are disjoint, what was
acknowledged stays readable until its attempt is deleted, and nothing appears behind a fence; a hold
outranks erasure; a segment is normalized once and its evidence reaches the head; an incident and
its announcements agree; an expiry follows from the revision it names and moves only by a reviewed
migration; no record is skipped by the agent or delivered twice; a completion is attributed to its
own initiation; no event vanishes without being counted, and a summary claims only what is on disk;
what the analyzer calls complete is final and what it calls observed was all there; no end of a job
is left behind by the poll cursor, and a timeline shows what was seen and nothing else; nothing
erased comes back to stay with a restored catalog.

## 2. Modules

Each module models its operations as one action each, except where the code lets somebody else in
half way: then the operation is split exactly there.

**AttemptLedger** is the abstract specification of the service: admitted segments, closed attempts
and active holds, with no reservations, objects, leases or crashes.

**SegmentLifecycle** implements it. A catalog transaction is one action unless it touches the
object store or relies on its locks across a visible step: the second admission transaction
(`AdmitCheck`, `AdmitCommit`), the worker's (`DeletionBegin`, one `DeletionErase` per object,
`DeletionCommit`) and the collector's (`GcDelete`, `GcCommit`) are split and hold their advisory
locks between the steps; `AttemptLocked`, `StreamLocked` and `ObjectLocked` derive the locks from
the open transactions. `AdmitPut` runs under no lock, as in the code. `DeletionFailRead` and
`DeletionFailWrite` are two steps because `fail` does not lock the row. Refused requests leave no
trace and are stuttering. Objects are absent, intact or corrupt; keys are content addressed, so two
segments may share one.

**ReportPipeline** takes admission, fence and erasure as they look from outside
(`Admit`, `Fence`, `EraseObjects`, `Erase`) and models both workers step by step: claim, the
unlocked check of the lease, parsing, publication, the report's inputs, artifact reservation, the
comparison of fingerprints under the attempt's lock, the two object writes and their failure
(`ReportPutFails`: damaged bytes under the key), revision and head. A
write to a row that was deleted meanwhile fails and rolls back. Artifacts are named by the inputs
they were computed from.

**IncidentAlerts** models one protected object: `Audit` (one incident per scope, a notification in
the same transaction), `ResolveRead`/`ResolveCommit` (the incident is read before the object's lock
is waited for, and SQLAlchemy writes only the columns that changed, `WriteBack`), and the worker's
`Claim`, `Send`, `Finish`, `FinishWrite`, with `Redrive`. The unique constraint on notifications is
a guard of the transactions that insert.

**Retention** has a clock. Calls read it when they begin and take locks later, so `CancelBegin` and
`CancelCommit`, `ApplyBegin` and `ApplyCommit`, and the sweeper's `SweepList` and `SweepDelete` are
separate steps. The digest an administrator confirms is the map from candidates to assignments. Of
holds only one thing counts here: a request for one of the `Held` attempts leaves its generation
open, so that segments are still admitted (`Fenced`).

**NodeAgent** models collect file by file, sealing, `saveState` and drain segment by segment with
its receipt and removal. Every `writeAtomic` is one step and `Crash` may fall between any two. The
API appears as admission looks from outside (`Admits`): exact replays get their receipt, overlaps
are refused. Event files hold numbered records, summaries have versions. `CollectRefuse` is the
error that depends on the spool; a budget exceeded, a malformed or oversized record or a file that
shrank end the process at the same point and are among the crashes.

**RequestTracking** models the wrappers of nonblocking and persistent calls under
`MPI_THREAD_MULTIPLE`. A wrapper calls MPI and then, separately, updates the table. `request` (what
the program's requests really are) and `stale` (handles given out before the table had let go of
them) are not in the code; they let the properties say whose record it was.

**EventRecorder** models `Recorder`: the application's threads under `state_mutex_`, the writer
thread, and `MPI_Finalize`, which runs the same drain and snapshot code after the join, so that one
program counter `io` serves both. Streams may break and any step of the writer may throw.

**CaptureAnalysis** composes `EventRecorder`, in full, with a second rank of which only the summary's
state is kept, the launcher (`run.json` is `running`, then ended well or not) and the analyzer,
which lists the summaries, reads each, then `run.json`, then the event file, one step each, at any
time. `ReadEvents` sees everything up to the last flush and any part of what the stream still
buffers, perhaps with a torn last line. A rank that is killed is a rank that takes no more steps.

**SchedulerPoller** has a discrete clock that all replicas read. `JobResize`, `JobEnd` and
`AccountEnd` are Slurm: accounting shows an end up to `MaxDelay` late. `run_once` is split where
another replica can come between: `Claim`, `Execute` (lease and cursor are read), `Query` (sacct
answers), `Stamp` (the answer is parsed and dated, after the query), `Reconcile` (one transaction,
whether or not the lease is still held), `PublishRead` and `PublishWrite` (the row is checked
without a lock and only the columns that changed are written back), likewise `FailRead` and
`FailWrite` with the backoff. `Bind` and `Erase` are the parts of admission and erasure that touch
scheduler state.

**AllocationTimeline** adds the pure derivation, as a fold over the newest `Window` observations of
a job, and states its properties over whatever observations the pollers can have stored.

**TombstoneRecovery** keeps one row per attempt, with its evidence as a flag, in up to three catalogs:
the one that serves, the backup, the restored one. API calls and the deletion worker run on the one
that serves; the operator takes a backup, restores it, exports page by page, applies, switches, and
may repeat any bundle later. `Backup`, `Restore`, `Ready` and `Open` are the procedure of
deploy/README.md:90-115 and not code; `Attempt` is a set of numbers, the order of the export.

`MC*` modules give the constants small values. Definitions marked *Mutant* are plausible bugs of
the definition that follows; each property has one that it catches.

## 3. Runs

| run | checks | states |
|---|---|---|
| `lifecycle` | `ManifestBacked`, `ReceiptDurable`, `CompletedErased`, `NoOverlap`: two attempts that share bytes, two ranges that meet, two admissions at once, a worker, the sweeper and the collector | 706k |
| `holds` | `HeldHasHold`, `HoldPreservesEvidence`, `ImplementsLedger`, `DeletionEnds`: two holds, two workers, rotting bytes | 181k |
| `erasure_leak` | violation of `ErasureRemovesTelemetry` | |
| `reports` | `ExactlyOnce`, `RevisionBacked`, `HeadCovers`, `ErasedForGood`, `HeadAdvances`, `ReportCaughtUp`: two segments of an attempt that may be deleted, two workers | 856k |
| `alerts` | `OpenAnnounced`, `AuditUnblocked`, `AlertSettled` | 698k |
| `retention` | `Consistent`, `FixedExpiry`, `ExpiredSwept` | 814k |
| `recovery` | `OnlyErased`, `ReadyToServe`, `NotResurrected`, `HoldKept`, `CleanupEnds`: two attempts, pages of one entry, a crash or storage error of the worker | 790k |
| `scheduler` | `Covered`, `Settled`, `SeenIsReported`: two replicas, leases shorter than a poll, accounting one tick late, a fault | 2.2M |
| `allocation` | violation of `ClaimsOnlySeen` | |
| `agent` | `NothingSkipped`, `DeliveredOnce`, `OutageReplayed` | 158k |
| `requests` | `TableTypeOK` (with the table's limit), `NoOrphans`, `GroupsOwned`, `Attribution` | 225k |
| `capture` | `Accounted`, `SummaryBacked`, `CompleteIsFinal`, `DetailIsObserved`, `FinalizeReturns`: recorder, second rank, launcher and analyzer | 2.1M |

The runs are spent on what is hard to get right; a module's `TypeOK` documents its state, is
checked where it bounds something (`requests`) and proved in each of the proof modules (section 5).
`CHECK_DEADLOCK FALSE` stands where
the bounded system may simply come to rest (nothing left to admit, erase, deliver or record); the
agent never rests and is checked for deadlock.

The bounds. Two actors of a kind are enough for every race the code can have between a check and a
write: each lock, lease or row is contended by pairs. Two segments give a report whose inputs change
while it is computed; two attempts with one shared key give every sharing decision; two ranges that
meet in one sequence number give every overlap; one fault (a crash or a lease that expires early) is
a fault at each point in turn; two tries before quarantine give retry and giving up. `reports`,
`alerts` and `recovery` allow one try, so that one fault is enough to give up; the retry of a failed
row, which puts it back to *pending*, is not reached there but by the deletion worker and the
collector of `holds`, whose object may rot, and the theorems hold for any number of tries (for two,
`alerts` and `reports` outgrow a run). The recorder's buffer of one event, a limit of two and two
calls besides `MPI_Finalize` reach a full buffer, the limit, and a drain in between, while the
analyzer reads. Two pollers for three ticks, with a lease of one, let a replica lose its lease at
every point and come back; lookback two and delay one put an end before and behind each query, and a
window of two observations is exceeded. Pages of one entry over two attempts put a page boundary
between any two deletions, and one fault leaves a backup with a failed deletion or one whose tries
are used up by a crash, next to a leased, a held or a completed one. The retention clock runs for
one tick, which separates *not yet* from *due*; a third revision or a second tick only repeats that.
Symmetry is used over identical workers, calls, segments and threads in runs that check no liveness.

Fairness. Worker processes loop for ever (`worker.py`, `main`), so each worker's step is weakly
fair, and open transactions end. `DeletionBegin` is strongly fair: PostgreSQL queues the waiters of
an advisory lock, so a worker that waits for locks which are free again and again gets them. The
agent is restarted by its supervisor and the API can be reached again and again, hence strong
fairness of `DrainPost`. The interceptor's writer is a thread that is scheduled and whose waits
end. The deletion worker of a restored catalog is one more such process: `Claim` of each queued
attempt is weakly fair because it takes the oldest request and each fails a bounded number of
times. No fairness is assumed of pollers: their properties are about safety, since sacct may fail
for ever. Nothing that a user, an administrator or the application does is fair. Faults are bounded, so
no liveness property assumes that they stop by luck: it says that finitely many do no lasting harm.

## 4. Disagreements with the repository's own words

* `erasure_leak`: a crash of `admit` between its object write and its second transaction, followed
  by the attempt's deletion, leaves the object for ever; the worker drops the reservation the
  collector would have started from (`worker.py:297`). README.md:111 says that the worker removes
  the attempt's telemetry.
* `allocation`: once a terminal row has closed a job's interval, each further terminal row, and
  queries look back over finished jobs, opens another interval from the job's start with its last
  size (`scheduler.py:273`). It covers times at which the job was seen with another size, although
  the function derives intervals "without claiming unseen changes" (`scheduler.py:243`).

Observations without a run of their own:

* The retention sweeper deletes from a list read in an earlier transaction, and `delete_attempt`
  does not look at the expiry: an attempt a backfill has just extended is fenced and erased
  (`worker.py:483`), although the class turns *due* deadlines into requests (`worker.py:431`).
  `Retention` reaches this (`SweepList`, `ApplyCommit`, `SweepDelete`).
* An error of `collect` in the agent, such as a full spool (`main.go:308`), ends the process before
  `drain`, and so does every restart (`main.go:599`): the outage that filled the spool is not
  replayed, which CHANGELOG.md:14-15 promises. `OutageReplayed` is checked with a
  quota that everything fits in.
* A poll dates its answer when it parses it, after the query. A slow replica can so store an older
  answer under a newer time and set a finished attempt back to *running* until the next poll that
  reaches back to the end; `Settled` holds because the lookback outlasts delay and query together.
  An attempt bound after the lookback has passed its job's end stays *unknown*, and a poll after an
  erasure stores observations of the erased attempt's job again while they are within the lookback.
  The start of a query is formatted in UTC without an offset, which sacct reads as local time
  (`slurm.py:189`).
* A restore carries over completed erasures only: requests that were pending or held in the
  surviving catalog are lost, and so are erasures that complete behind the cursor while the export
  runs (`due` are those complete when it began). Applying turns `completed` into `pending`, so a
  second restore whose export runs before the cleanup has ended misses them. A new bundle applied
  after the switch releases holds placed since; `HoldKept` is about repeated ones. Generations never
  pass 1, so the *stale* and *conflict* branches of `apply` are not reached.
* A stream that breaks, or a rank without an event file next to one with, still yields
  `event_detail` *observed*; and `run.json` still *running*, as a killed launcher leaves it, does not
  count against completeness.
* A crash of the agent between the spool and the state file seals the same records again. Under
  the same name the bytes differ and `spoolPayload` refuses them; under a longer range the API
  refuses the overlap, on every pass. Nothing is lost or doubled (`NothingSkipped`,
  `DeliveredOnce`), but delivery stops; `OutageReplayed` therefore excepts crashes.
* `admit` adopts a reservation of the same range and bytes from another attempt
  (`ingestion.py:812`); erasing one of the two then leaves the other without its manifest's
  reservation. `ReceiptsDurable` is proved under `RangesOwned`, which rules this out.
* Artifacts of a report whose publication rolled back may stay once the attempt is erased: the
  rollback also takes back the collection candidate.
* A cancellation compares the revision's time with a clock read before it waits for its lock, so it
  may cancel a revision that is in force by then; assigned attempts keep it, and `Consistent` holds.
* Two resolutions of one incident may both succeed when the audit detected it again in between;
  and a notification worker whose lease expires between its check and its write can turn
  *delivered* into *pending* or *failed*. Both end in a repeated announcement.
* Under `MPI_THREAD_MULTIPLE` MPI may give a freed handle to another thread before the wrapper has
  looked it up. `Attribution` holds on handles that are not stale in this sense;
  docs/telemetry-schema.md:121-122 describes the attribution without that proviso.
* A stream that breaks does not throw: `events_written_` goes on counting and no field of the
  summary says so. The recorder's properties on the file are therefore stated for a stream that is
  not broken. The `notify_one` at half capacity has no effect, as the wait's predicate is
  `stop_requested_`.

## 5. Proofs

Eight modules hold theorems, each for every value of the constants under the named assumptions of
its component's module: types and ranges of the constants, for the poller that the lookback is not
shorter than accounting's delay, and finite sets where the code lists or orders something (the
attempts of `Retention` and `TombstoneRecovery`, the files of `NodeAgent` as a sequence). Every
inductive invariant was checked by TLC on the component's run before it was proved.

**SegmentLifecycle_proofs.** The invariant `IInv` is `TypeOK`, `ManifestBacked`, `NoOverlap`,
`HeldHasHold` and three facts without which these are not inductive: `LockExclusion` (open
transactions hold different locks), `CheckedStillTrue` (what the second admission transaction
checked is still so when it writes: the attempt is open, the object there, the range free) and
`ErasingStillTrue` (while a worker erases, its attempt is fenced, no hold is active, and what it
has yet to remove belongs to no other attempt). From it follow `Backed`, `Disjoint`,
`HeldForAReason`, the action properties `Fenced` and `HoldsRespected`, and `Refinement`: every step
is a step of `AttemptLedger` or changes nothing it can see. `ReceiptsDurable` adds the hypothesis
`RangesOwned`, that each stream range belongs to one attempt, as it does when every producer seals
a range once. `ErasureComplete` adds what is not visible at one moment: no manifest of a fenced
attempt appears, and a reservation of one is only ever written in the transaction that found it
open, so that after the erasure's commit nothing brings either back.

**ReportPipeline_proofs.** `PipelineInv` has a part about the catalog and one about each worker.
`CatalogOK`: an outbox row exists exactly while its manifest does and a report request exactly
while its projection does, a projection remembers that it caused a request, a head lists current
inputs and every revision's inputs are in its head, an erased attempt has none of these.
`WorkersOK`: what a worker leased and read is of its own job, and what the publishing transaction
checked under the attempt's lock is true until it ends, also of the objects it wrote, because at
most one worker is past that lock for an attempt. `OneEffect`, `RevisionsBacked`,
`EvidenceCovered` and `ErasureFinal` follow, and from the same invariant the action property
`HeadsAdvance`.

**Interceptor_proofs.** The recorder, the capture around it, then the request table. `Accounted` is
inductive with the types. `SummaryBacked` rests on `FileInv`: what is counted is in the file, what
is captured was counted, and what is about to be published was flushed. `CoverageHonest` rests on
`EndInv`, which follows the end of a run: nothing is recorded after `stop_requested_`, the drain
after it leaves both buffers empty unless the writer failed, and the last snapshot is taken of
counters that no longer change. `OrderInv` is about the order of the file although the buffers
change places: before a drain that may still come, all of the file is below all of the active
buffer; a writer that failed halfway leaves in its own buffer events that are in the file already,
and the only drain after it, that of `MPI_Finalize`, writes the other one. Over `CaptureAnalysis`,
`CaptureInv` says what each file that was read is still worth: a final summary is the last one,
since after it the interceptor takes no step at all (`ClosedForGood`), and any other counts no more
than what is flushed, which only grows. `CompleteStays` and `DetailObserved` follow.

For the request table, `RequestInv` first forgets which thread is at work: `Does(r, op)` says that
some thread still has to update the table for request `r`, `OneCall` that it is one thread only, and
`CallsFit` what MPI has done to the request by then. `IdsOnce` (an id is given out once) and
`GroupsKept` (a record of a started persistent request names its handle's group or a freed one) show
that no group is lost and none freed twice. `TableRight` is the heart: as long as a handle is not
stale, the table holds under it exactly the records of the one request that uses it, at every point
between MPI's step and the wrapper's; `Attribution` and `GroupsOwned` follow. On stale handles that
is false, and all that is left to say is how much may be kept there: `Counted` bounds the records of
any handle, stale or not, by the requests that still account for them (`Holders`) and the failed
ones, and `Backed` finds a request for every persistent record, which is `NoOrphans`. The limit of
`TableTypeOK` is about cardinalities, so `Finite` is carried along. The threads and the handles may
be infinitely many; `TrackingAssumption` only types the bounds.

**IncidentAlerts_proofs.** `AlertInv` says that workers hold rows that exist and mark as delivered
only what was acknowledged, and that no notification, and no resolution under way, is ahead of its
incident's occurrence. `OpenAnnounced`, `AuditUnblocked` and `DeliveredReceived` follow.

**SchedulerPoller_proofs.** `Covered` speaks of the cursor only, but replicas that lost their lease
still write it. The invariant says what each of them may rely on at its point of the poll, whatever
the others do: what a query will not ask for is stored (`QueryCovers`); what accounting shows by the
start of the poll is stored or in the answer (`AnswerCovers`), then stored (`PollCovers`), so that
moving the cursor there, forward or back, leaves nothing behind. `AccountingOK` ties accounting to
the jobs' ends and its delay to the clock; `ClockOK` keeps everything in the past and observation
times distinct, so that no answer is dropped as a duplicate. `OverlapAssumption` is used in one
place: when a query's start is computed from a cursor that covers. `RecordsSettle` needs more than
that assumption, and states it as its hypothesis `LateAnswersRevisited`: an answer is stamped up to
`QueryTime` after the query, so the lookback has to cover accounting's delay and that time together
(with `MaxDelay = Lookback = 1` and `QueryTime = 2` TLC finds a slow replica whose "running" is the
last word; the defaults, 300 s of lookback and 10 s for sacct, leave accounting 290 s). `RecordInv`
says that a record dated later than `ended + Lookback` is terminal, since no answer stamped so late
shows the job running, and that the poll which first moves the cursor beyond that moment has the
job in its answer.

**TombstoneRecovery_proofs.** `RecoveryInv`: a completed deletion is of the fenced, current
generation; a copy of the catalog is not ahead of it; what was exported stays erased at that
generation; an attempt that was due when the export began is in a page or beyond the cursor, so the
last page leaves none out, whatever its size; and what was imported is applied. `ErasedOnly`,
`PagesCover` and `ErasureSurvives` follow, and the action property `HoldsSurvive`. The lemmas on
`First` and `Last` show that the attempts sorted and cut into pages have a greatest element and that
a page and the rest beyond it make up the whole.

**Retention_proofs.** `Consistent` is inductive with the types and with `NotAhead` (an application
under way read a clock that has since only grown). The lemmas say what choosing the preferred
revision returns, and that a revision once in force stays the one a row named, because revisions
are only added. `ExpiryFixed` is an action property.

**NodeAgent_proofs.** A crash between writing the spool and saving the state leaves an orphan, and
the next pass reads the same records again. `AgentInv` follows both copies: a segment begins where
the saved state stands only if it is such an orphan, and before the pass drains it has sealed a
second segment from there (`OrphansWait`), so records sealed twice are two halves of a fork
(`RepeatsForked`); the API accepts one half, and the other, refused, holds back everything beyond
it (`AcceptedOK`). `NoneSkipped` and `NoneRepeated` follow for any number of crashes. That the
spool can be sorted is proved from the least counterexample, not assumed.

Only model-checked: every liveness property (`DeletionEnds`, `ReportCaughtUp`, `AlertSettled`,
`ExpiredSwept`, `OutageReplayed`, `FinalizeReturns`, `CleanupEnds`), which needs fairness the prover
does not handle; `SeenIsReported`, since the timeline is a fold over a sequence and what a fold
computes for every sequence needs induction over data; and the violations, which are
counterexamples.

## 6. Not modelled

Row locks of PostgreSQL other than by their effect (a deadlock between the collector's candidate row
and the deletion worker's object lock ends in an aborted transaction, which the models have as a
crash); byte formats, signatures, digests, Parquet columns and statistics; authentication and
request validation; the analyzer's statistics and findings, the CLI, comparisons and the web viewer,
which are sequential; migrations; a second accounting row of one job identity, clocks of replicas
that disagree, and two observations within one microsecond. The
order in which a bundle's entries must be sorted (`recovery.py:154` compares as Python does, the
export as the database's collation does: where they differ the bundle is refused and changes
nothing); a second deletion worker in `TombstoneRecovery`, and a second hold on its attempts; a
collection candidate that the collector gave up as *failed*, which `ReportPipeline` keeps as
*pending*; a command that returns 0 before every rank has finalized, which `LaunchEnds` keeps as
*running*, as the analyzer treats both alike. The
audit columns of holds, resolutions, redrives and backfills record who and why and guide no step.

## 7. Plan

Done: the models of section 2, and the theorems of section 5, for every module but
`AllocationTimeline`, whose property is beyond this prover.

Next, models: a composition of `NodeAgent` with `SegmentLifecycle`'s admission in place of `Admits`.
