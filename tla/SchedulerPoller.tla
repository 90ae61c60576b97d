---------------------------- MODULE SchedulerPoller ----------------------------
(***************************************************************************)
(* The scheduler service: SchedulerPoller replicas take turns, through a   *)
(* leased SchedulerPollCursor row, at asking Slurm's accounting for what   *)
(* changed, and store what it answers as SchedulerObservation rows and as  *)
(* the scheduler_state of the attempts bound to a job.  One tenant and     *)
(* cluster, and so one cursor.                                             *)
(*                                                                         *)
(* Time is a discrete clock that all replicas read (synchronised hosts).   *)
(* Accounting is external: it shows the end of a job up to MaxDelay late,  *)
(* and a query since t answers with the jobs that had not ended before t.  *)
(* A query without a start answers with the jobs of the day; time 0 is     *)
(* the beginning of that day.                                              *)
(***************************************************************************)
EXTENDS Integers

CONSTANTS
    Job,          \* scheduler source identities
    Size,         \* allocations (nodes, cpus, partition) a job may have
    FirstSize,    \* the allocation a job starts with
    Outcome,      \* accounting states a job may end in
    Poller,       \* replicas of the service
    None,         \* null
    Interval,     \* poll_interval_seconds
    Lease,        \* lease_seconds
    Lookback,     \* accounting_lookback_seconds
    MaxBackoff,   \* max_backoff_seconds
    Jitter,       \* the largest random delay added to a delay
    QueryTime,    \* sacct's timeout_seconds
    MaxDelay,     \* how late accounting may show the end of a job
    MaxTime,      \* bound: the clock stops here
    MaxFaults     \* bound: failed queries and crashes

Token == {"PENDING", "CONFIGURING", "RESV_DEL_HOLD", "REQUEUE_HOLD", "REQUEUED",
          "RUNNING", "SUSPENDED", "COMPLETING", "STAGE_OUT", "COMPLETED",
          "CANCELLED", "DEADLINE", "REVOKED", "PREEMPTED", "REQUEUE_FED", "TIMEOUT",
          "BOOT_FAIL", "FAILED", "NODE_FAIL", "OUT_OF_MEMORY", "SPECIAL_EXIT",
          "STOPPED", "LAUNCH_FAILED"}

\* The lifecycle state a Slurm state stands for.
State(token) ==
    CASE token \in {"PENDING", "CONFIGURING", "RESV_DEL_HOLD", "REQUEUE_HOLD", "REQUEUED"} -> "pending"
      [] token \in {"RUNNING", "SUSPENDED"} -> "running"
      [] token \in {"COMPLETING", "STAGE_OUT"} -> "completing"
      [] token = "COMPLETED" -> "succeeded"
      [] token \in {"CANCELLED", "DEADLINE", "REVOKED"} -> "cancelled"
      [] token \in {"PREEMPTED", "REQUEUE_FED"} -> "preempted"
      [] token = "TIMEOUT" -> "timed_out"
      [] token \in {"BOOT_FAIL", "FAILED", "NODE_FAIL", "OUT_OF_MEMORY", "SPECIAL_EXIT",
                    "STOPPED", "LAUNCH_FAILED"} -> "failed"
      [] OTHER -> "unknown"

TerminalStates == {"succeeded", "failed", "cancelled", "preempted", "timed_out"}

ASSUME SchedulerAssumption ==
    /\ Interval \in Nat \ {0} /\ Lease \in Nat \ {0} /\ Lookback \in Nat
    /\ MaxBackoff \in Nat /\ Interval <= MaxBackoff
    /\ Jitter \in Nat /\ QueryTime \in Nat /\ MaxDelay \in Nat
    /\ MaxTime \in Nat /\ MaxFaults \in Nat
    /\ Size \subseteq Nat /\ FirstSize \in Size
    /\ None \notin Int /\ None \notin Poller
    /\ Outcome \subseteq Token /\ \A token \in Outcome : State(token) \in TerminalStates

\* The powers Backoff takes are natural numbers.
ASSUME PowerAssumption == \A n \in 0..20 : 2^n \in Nat

\* What the operator must see to: queries reach back far enough for late accounting.
ASSUME OverlapAssumption == MaxDelay <= Lookback

VARIABLES
    now,           \* the clock
    ended,         \* when each job ended
    accounting,    \* what sacct answers about each job
    observations,  \* SchedulerObservation rows
    record,        \* the AttemptRecord bound to each job
    erased,        \* jobs whose attempt the deletion worker has erased
    cursor,        \* the SchedulerPollCursor row
    pc,            \* progress of each replica in run_once
    lease,         \* the generation of its SchedulerPollLease
    started,       \* its started_at
    since,         \* the start of its query
    view,          \* the answer of sacct
    at,            \* its latest reading of the clock
    seen,          \* consecutive_failures as it read it
    faults         \* faults so far (see MaxFaults)

jobVars == <<ended, accounting>>
catalogVars == <<observations, record, erased>>
pollVars == <<pc, lease, started, since, view, at, seen, faults>>
vars == <<now, jobVars, catalogVars, cursor, pollVars>>

\* An AttemptRecord is bound to the job while it runs ("live"), after its end
\* ("late"), or not at all.
NewRecord(b) == [bound |-> b, state |-> "unknown", at |-> None]
Unbound == NewRecord("no")

\* The stream is registered and due; the jobs run.
Init ==
    /\ now = 0
    /\ ended = [j \in Job |-> None]
    /\ accounting = [j \in Job |-> [state |-> "RUNNING", started |-> 0, ended |-> None,
                                    size |-> FirstSize]]
    /\ observations = {} /\ erased = {}
    /\ record = [j \in Job |-> Unbound]
    /\ cursor = [at |-> None, next |-> 0, owner |-> None, generation |-> 0,
                 expires |-> None, failures |-> 0]
    /\ pc = [p \in Poller |-> "idle"]
    /\ lease = [p \in Poller |-> 0]
    /\ started = [p \in Poller |-> 0]
    /\ since = [p \in Poller |-> 0]
    /\ view = [p \in Poller |-> {}]
    /\ at = [p \in Poller |-> 0]
    /\ seen = [p \in Poller |-> 0]
    /\ faults = 0

-----------------------------------------------------------------------------
(* Slurm's accounting of the jobs that have started. *)

\* Bound: a job only grows.
JobResize(j, r) ==
    /\ ended[j] = None /\ accounting[j].size < r
    /\ accounting' = [accounting EXCEPT ![j].size = r]
    /\ UNCHANGED <<now, ended, catalogVars, cursor, pollVars>>

JobEnd(j) ==
    /\ ended[j] = None
    /\ ended' = [ended EXCEPT ![j] = now]
    /\ UNCHANGED <<now, accounting, catalogVars, cursor, pollVars>>

AccountEnd(j, token) ==
    /\ ended[j] # None /\ accounting[j].ended = None
    /\ accounting' = [accounting EXCEPT ![j].state = token, ![j].ended = ended[j]]
    /\ UNCHANGED <<now, ended, catalogVars, cursor, pollVars>>

\* The clock does not pass the moment by which accounting must show an end, nor
\* the moment a running query times out.
Tick ==
    /\ now < MaxTime
    /\ \A j \in Job : ended[j] # None /\ accounting[j].ended = None => now < ended[j] + MaxDelay
    /\ \A p \in Poller : pc[p] \in {"query", "answered"} => now < started[p] + QueryTime
    /\ now' = now + 1
    /\ UNCHANGED <<jobVars, catalogVars, cursor, pollVars>>

-----------------------------------------------------------------------------
(* The rest of the service. *)

\* An admission binds an attempt record to the job.
Bind(j) ==
    /\ record[j].bound = "no" /\ j \notin erased
    /\ record' = [record EXCEPT ![j] = NewRecord(IF ended[j] = None THEN "live" ELSE "late")]
    /\ UNCHANGED <<now, jobVars, observations, erased, cursor, pollVars>>

\* The deletion worker erases the attempt and the observations of its job.
Erase(j) ==
    /\ record[j].bound # "no"
    /\ record' = [record EXCEPT ![j] = Unbound]
    /\ observations' = {o \in observations : o.job # j}
    /\ erased' = erased \cup {j}
    /\ UNCHANGED <<now, jobVars, cursor, pollVars>>

-----------------------------------------------------------------------------
(* SchedulerPoller.run_once. *)

Owns(p) == cursor.owner = p /\ cursor.generation = lease[p]

\* A row nobody has leased, or whose lease is over, when it is due.
Claim(p) ==
    /\ pc[p] = "idle"
    /\ cursor.next <= now
    /\ cursor.owner = None \/ (cursor.expires # None /\ cursor.expires < now)
    /\ cursor' = [cursor EXCEPT !.owner = p, !.generation = @ + 1, !.expires = now + Lease]
    /\ lease' = [lease EXCEPT ![p] = cursor.generation + 1]
    /\ pc' = [pc EXCEPT ![p] = "leased"]
    /\ UNCHANGED <<now, jobVars, catalogVars, started, since, view, at, seen, faults>>

\* run_once is over.  A value that is not used any more is forgotten, here and below.
EndPoll(p) ==
    /\ pc' = [pc EXCEPT ![p] = "idle"]
    /\ lease' = [lease EXCEPT ![p] = 0]
    /\ started' = [started EXCEPT ![p] = 0]
    /\ since' = [since EXCEPT ![p] = 0]
    /\ view' = [view EXCEPT ![p] = {}]
    /\ at' = [at EXCEPT ![p] = 0]
    /\ seen' = [seen EXCEPT ![p] = 0]

\* Mutant: the query starts at the cursor.
QueryStartNoOverlap == IF cursor.at = None THEN 0 ELSE cursor.at

QueryStart == IF cursor.at = None THEN 0 ELSE cursor.at - Lookback

Execute(p) ==
    /\ pc[p] = "leased"
    /\ Owns(p)
    /\ started' = [started EXCEPT ![p] = now]
    /\ since' = [since EXCEPT ![p] = QueryStart]
    /\ pc' = [pc EXCEPT ![p] = "query"]
    /\ UNCHANGED <<now, jobVars, catalogVars, cursor, lease, view, at, seen, faults>>

\* The lease went to another replica before the work began.
Decline(p) ==
    /\ pc[p] = "leased"
    /\ ~Owns(p)
    /\ EndPoll(p)
    /\ UNCHANGED <<now, jobVars, catalogVars, cursor, faults>>

\* What sacct answers about the jobs that had not ended before t.
Answer(t) ==
    {[job |-> j, state |-> State(accounting[j].state), started |-> accounting[j].started,
      ended |-> accounting[j].ended, size |-> accounting[j].size] :
     j \in {i \in Job : accounting[i].ended = None \/ accounting[i].ended >= t}}

Query(p) ==
    /\ pc[p] = "query"
    /\ view' = [view EXCEPT ![p] = Answer(since[p])]
    /\ since' = [since EXCEPT ![p] = 0]
    /\ pc' = [pc EXCEPT ![p] = "answered"]
    /\ UNCHANGED <<now, jobVars, catalogVars, cursor, lease, started, at, seen, faults>>

\* Observations are stamped when the answer is parsed, after sacct has ended.  No
\* two polls read the clock in the same microsecond.
Stamp(p) ==
    /\ pc[p] = "answered"
    /\ \A o \in observations : o.at # now
    /\ \A q \in Poller : pc[q] = "stamped" => at[q] # now
    /\ at' = [at EXCEPT ![p] = now]
    /\ pc' = [pc EXCEPT ![p] = "stamped"]
    /\ UNCHANGED <<now, jobVars, catalogVars, cursor, lease, started, since, view, seen, faults>>

Seen(v, t) == [job |-> v.job, state |-> v.state, started |-> v.started,
               ended |-> v.ended, size |-> v.size, at |-> t]

Stored(j, t) == \E o \in observations : o.job = j /\ o.at = t

\* Mutant: the last transaction wins.
ReconciledLast(j, v, t) == [record[j] EXCEPT !.state = v.state, !.at = t]

Reconciled(j, v, t) ==
    IF record[j].at = None \/ t >= record[j].at
    THEN [record[j] EXCEPT !.state = v.state, !.at = t]
    ELSE record[j]

\* One transaction stores the answer, lease or no lease.
Reconcile(p) ==
    /\ pc[p] = "stamped"
    /\ observations' = observations \cup
           {Seen(v, at[p]) : v \in {u \in view[p] : ~Stored(u.job, at[p])}}
    /\ record' = [j \in Job |->
           IF record[j].bound # "no" /\ \E v \in view[p] : v.job = j
           THEN Reconciled(j, CHOOSE v \in view[p] : v.job = j, at[p])
           ELSE record[j]]
    /\ view' = [view EXCEPT ![p] = {}]
    /\ at' = [at EXCEPT ![p] = 0]
    /\ pc' = [pc EXCEPT ![p] = "reconciled"]
    /\ UNCHANGED <<now, jobVars, erased, cursor, lease, started, since, seen, faults>>

\* The row is read without a lock and written back when the transaction ends.
ReadBack(p, from, to) ==
    /\ pc[p] = from
    /\ Owns(p)
    /\ at' = [at EXCEPT ![p] = now]
    /\ seen' = [seen EXCEPT ![p] = cursor.failures]
    /\ pc' = [pc EXCEPT ![p] = to]
    /\ UNCHANGED <<now, jobVars, catalogVars, cursor, lease, started, since, view, faults>>

PublishRead(p) == ReadBack(p, "reconciled", "publishing")

Released(c, t) == [c EXCEPT !.next = t, !.owner = None, !.expires = None]

\* Only columns that differ from what was read are written.
Published(p, d) ==
    [Released(cursor, at[p] + Interval + d) EXCEPT
        !.at = started[p], !.failures = IF seen[p] = 0 THEN @ ELSE 0]

PublishWrite(p, d) ==
    /\ pc[p] = "publishing"
    /\ cursor' = Published(p, d)
    /\ EndPoll(p)
    /\ UNCHANGED <<now, jobVars, catalogVars, faults>>

\* sacct fails or times out, or the transaction is rolled back.
QueryFail(p) ==
    /\ pc[p] \in {"query", "answered", "stamped"}
    /\ faults < MaxFaults /\ faults' = faults + 1
    /\ pc' = [pc EXCEPT ![p] = "failing"]
    /\ started' = [started EXCEPT ![p] = 0]
    /\ since' = [since EXCEPT ![p] = 0]
    /\ view' = [view EXCEPT ![p] = {}]
    /\ at' = [at EXCEPT ![p] = 0]
    /\ UNCHANGED <<now, jobVars, catalogVars, cursor, lease, seen>>

FailRead(p) == ReadBack(p, "failing", "recording")

\* The delay doubles with every failure in a row, up to MaxBackoff.
Backoff(n) ==
    LET exponent == IF n - 1 < 20 THEN n - 1 ELSE 20
        delay == Interval * 2^exponent
    IN  IF delay < MaxBackoff THEN delay ELSE MaxBackoff

Failed(p, d) ==
    [Released(cursor, at[p] + Backoff(seen[p] + 1) + d) EXCEPT !.failures = seen[p] + 1]

FailWrite(p, d) ==
    /\ pc[p] = "recording"
    /\ cursor' = Failed(p, d)
    /\ EndPoll(p)
    /\ UNCHANGED <<now, jobVars, catalogVars, faults>>

\* The lease was lost while the replica worked: nothing is written.
Fenced(p) ==
    /\ pc[p] \in {"reconciled", "failing"}
    /\ ~Owns(p)
    /\ EndPoll(p)
    /\ UNCHANGED <<now, jobVars, catalogVars, cursor, faults>>

\* The process is stopped or dies; a new one starts.
Crash(p) ==
    /\ pc[p] # "idle"
    /\ faults < MaxFaults /\ faults' = faults + 1
    /\ EndPoll(p)
    /\ UNCHANGED <<now, jobVars, catalogVars, cursor>>

-----------------------------------------------------------------------------
Accounting(j) ==
    \/ \E r \in Size : JobResize(j, r)
    \/ JobEnd(j)
    \/ \E token \in Outcome : AccountEnd(j, token)

PollStep(p) ==
    \/ Claim(p) \/ Execute(p) \/ Decline(p) \/ Query(p) \/ Stamp(p) \/ Reconcile(p)
    \/ PublishRead(p) \/ QueryFail(p) \/ FailRead(p) \/ Fenced(p) \/ Crash(p)
    \/ \E d \in 0..Jitter : PublishWrite(p, d) \/ FailWrite(p, d)

Next ==
    \/ Tick
    \/ \E j \in Job : Accounting(j) \/ Bind(j) \/ Erase(j)
    \/ \E p \in Poller : PollStep(p)

Spec == Init /\ [][Next]_vars

-----------------------------------------------------------------------------
Moment == Nat \cup {None}
Pc == {"idle", "leased", "query", "answered", "stamped", "reconciled", "publishing",
       "failing", "recording"}
ExecutionState == {"pending", "running", "completing", "succeeded", "failed", "cancelled",
                   "preempted", "timed_out", "unknown"}
Row == [job: Job, state: ExecutionState, started: Moment, ended: Moment, size: Size \cup {None}]
Observation == [job: Job, state: ExecutionState, started: Moment, ended: Moment,
                size: Size \cup {None}, at: Nat]
CursorRow == [at: Moment, next: Nat, owner: Poller \cup {None}, generation: Nat,
              expires: Moment, failures: Nat]

TypeOK ==
    /\ now \in Nat
    /\ ended \in [Job -> Moment]
    /\ accounting \in [Job -> [state: Token, started: Moment, ended: Moment, size: Size \cup {None}]]
    /\ observations \subseteq Observation
    /\ record \in [Job -> [bound: {"no", "live", "late"}, state: ExecutionState, at: Moment]]
    /\ erased \subseteq Job
    /\ cursor \in CursorRow
    /\ pc \in [Poller -> Pc]
    /\ lease \in [Poller -> Nat]
    /\ started \in [Poller -> Nat]
    /\ since \in [Poller -> Int]
    /\ view \in [Poller -> SUBSET Row]
    /\ at \in [Poller -> Nat]
    /\ seen \in [Poller -> Nat]
    /\ faults \in Nat

TerminalSeen(j) == \E o \in observations : o.job = j /\ o.state \in TerminalStates

\* Jobs whose end accounting shows by t.
ShownBy(t) == {j \in Job \ erased : ended[j] # None /\ ended[j] + MaxDelay < t}

\* The cursor never leaves the end of a job behind: once it has passed the moment
\* by which accounting must show it, the job's terminal observation is stored, or
\* was erased with its attempt.  Queries overlap, replicas lose their lease in the
\* middle of a poll and write the cursor back after another one has moved it.
Covered ==
    cursor.at # None => \A j \in ShownBy(cursor.at) : TerminalSeen(j)

\* An attempt bound before its job ended does not stay "running" or "unknown" when
\* no later query reaches back to that end: the answer of a slow replica may only
\* replace the terminal state while a later poll still revisits the job.
Settled ==
    \A j \in Job :
        (/\ record[j].bound = "live" /\ cursor.at # None /\ ended[j] # None
         /\ ended[j] < cursor.at - Lookback)
        => record[j].state \in TerminalStates

-----------------------------------------------------------------------------
(* The inductive invariant behind Covered: what each replica has established *)
(* at each point of its poll, whatever the others do meanwhile.              *)

\* Accounting is truthful and at most MaxDelay late.
AccountingOK ==
    \A j \in Job :
        /\ ended[j] # None => ended[j] <= now
        /\ accounting[j].ended # None => /\ accounting[j].ended = ended[j]
                                         /\ State(accounting[j].state) \in TerminalStates
        /\ ended[j] # None /\ accounting[j].ended = None => now <= ended[j] + MaxDelay

\* Nothing is dated in the future, and no two observations have the same time.
ClockOK ==
    /\ cursor.at # None => cursor.at <= now
    /\ \A p \in Poller : started[p] <= now /\ since[p] <= now
    /\ \A p \in Poller : pc[p] = "stamped" =>
           /\ \A o \in observations : o.at # at[p]
           /\ \A q \in Poller : pc[q] = "stamped" /\ q # p => at[q] # at[p]

\* What a query will not ask for has been stored before.
QueryCovers(p) ==
    pc[p] = "query" =>
        \A j \in Job \ erased : ended[j] # None /\ ended[j] < since[p] => TerminalSeen(j)

\* What should be known by the start of the poll is stored or in the answer.
AnswerCovers(p) ==
    pc[p] \in {"answered", "stamped"} =>
        \A j \in ShownBy(started[p]) :
            TerminalSeen(j) \/ \E v \in view[p] : v.job = j /\ v.state \in TerminalStates

\* The cursor may be moved to the start of the poll.
PollCovers(p) ==
    pc[p] \in {"reconciled", "publishing"} => \A j \in ShownBy(started[p]) : TerminalSeen(j)

IInv ==
    /\ TypeOK /\ AccountingOK /\ ClockOK /\ Covered
    /\ \A p \in Poller : QueryCovers(p) /\ AnswerCovers(p) /\ PollCovers(p)

=============================================================================
