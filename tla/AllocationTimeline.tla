-------------------------- MODULE AllocationTimeline --------------------------
(***************************************************************************)
(* GET /v1/scheduler/allocation: the allocation intervals that             *)
(* derive_allocation_timeline makes of the observations of one job, over   *)
(* the observations the scheduler service has stored by then.              *)
(***************************************************************************)
EXTENDS SchedulerPoller, Sequences
LOCAL INSTANCE SequencesExt

CONSTANT Window   \* 500 in the code: the newest observations that are used

ActiveStates == {"running", "completing"}

NoInterval == [start |-> None, end |-> None, size |-> None]
Nothing == [intervals |-> <<>>, current |-> NoInterval, reasons |-> {}]

Started(row) == IF row.started # None THEN row.started ELSE row.at

CanOpen(row) ==
    \/ row.state \in ActiveStates
    \/ row.state \in TerminalStates /\ row.started # None

\* The current interval ends at t and another one may follow it.
ClosedAt(s, t, next) ==
    [s EXCEPT !.intervals = Append(@, [s.current EXCEPT !.end = t]), !.current = next]

\* Mutant: a new size replaces the current one in place.
ResizedInPlace(s, row) ==
    IF row.size = s.current.size THEN s ELSE [s EXCEPT !.current.size = row.size]

\* An active row with another size ends the current interval where it was seen.
Resized(s, row) ==
    IF row.size = None \/ row.size = s.current.size THEN s
    ELSE IF row.at >= s.current.start
    THEN ClosedAt(s, row.at, [start |-> row.at, end |-> None, size |-> row.size])
    ELSE [s EXCEPT !.reasons = @ \cup {"non_monotonic_observation"}]

Opened(s, row) ==
    IF s.current = NoInterval /\ CanOpen(row) /\ row.size # None
    THEN [s EXCEPT !.current = [start |-> Started(row), end |-> None, size |-> row.size]]
    ELSE IF s.current # NoInterval /\ row.state \in ActiveStates THEN Resized(s, row) ELSE s

\* A terminal row ends the current interval at the job's end.
Closed(s, row) ==
    LET boundary == IF row.ended # None THEN row.ended ELSE row.at IN
    IF row.state \notin TerminalStates \/ s.current = NoInterval THEN s
    ELSE IF boundary >= s.current.start THEN ClosedAt(s, boundary, NoInterval)
    ELSE [s EXCEPT !.reasons = @ \cup {"invalid_terminal_interval"}, !.current = NoInterval]

Sized(s, row) ==
    IF CanOpen(row) /\ row.size = None
    THEN [s EXCEPT !.reasons = @ \cup {"missing_allocation_size"}] ELSE s

Step(s, row) == Closed(Sized(Opened(s, row), row), row)

\* derive_allocation_timeline of the rows in the order they were observed.
Derive(rows) ==
    LET folded == FoldLeft(Step, Nothing, rows)
        latest == rows[Len(rows)]
        intervals == IF folded.current = NoInterval THEN folded.intervals
                     ELSE Append(folded.intervals, folded.current)
        reason(r, holds) == IF holds THEN {r} ELSE {}
    IN  [latest |-> latest.state,
         intervals |-> intervals,
         reasons |-> folded.reasons
             \cup reason("no_observed_allocation", intervals = <<>>)
             \cup reason("missing_scheduler_start", \A i \in 1..Len(rows) : rows[i].started = None)
             \cup reason("missing_scheduler_end", latest.state \in TerminalStates /\ latest.ended = None)
             \cup reason("attempt_not_terminal", latest.state \notin TerminalStates)
             \cup reason("poll_sampled", intervals # <<>>)]

Observed(j) ==
    SetToSortSeq({o \in observations : o.job = j}, LAMBDA o, q : o.at < q.at)

\* The newest rows, in the order they were observed.
Newest(rows) ==
    IF Len(rows) > Window THEN SubSeq(rows, Len(rows) - Window + 1, Len(rows)) ELSE rows

SchedulerAllocation(j) ==
    LET rows == Observed(j)
        timeline == Derive(Newest(rows))
    IN  IF Len(rows) > Window
        THEN [timeline EXCEPT !.reasons = @ \cup {"observation_window_limited"}]
        ELSE timeline

-----------------------------------------------------------------------------
HasRows == {j \in Job : \E o \in observations : o.job = j}

\* Every allocation seen while the job ran is in an interval of that size that
\* reaches the moment it was seen (or the end of the job, shown late), and no
\* interval outlasts the job, unless the answer says its end was inconsistent.
SeenIsReported ==
    \A j \in HasRows :
        LET rows == Newest(Observed(j))
            answer == SchedulerAllocation(j)
            intervals == {answer.intervals[i] : i \in 1..Len(answer.intervals)}
            Reaches(i, t) == i.end = None \/ i.end >= t \/ i.end = ended[j]
        IN  "invalid_terminal_interval" \notin answer.reasons =>
            /\ \A k \in 1..Len(rows) : rows[k].state \in ActiveStates =>
                   \E i \in intervals : /\ i.size = rows[k].size
                                        /\ i.start <= rows[k].at
                                        /\ Reaches(i, rows[k].at)
            /\ \A i \in intervals : i.end # None /\ ended[j] # None /\
                   answer.latest \in TerminalStates => i.end <= ended[j]

\* "Derive poll-sampled allocation intervals without claiming unseen changes"
\* (scheduler.py:243): an interval claims no size for a moment at which the poller
\* saw the job with another one.
ClaimsOnlySeen ==
    \A j \in HasRows :
        LET rows == Newest(Observed(j))
            answer == SchedulerAllocation(j)
        IN  \A n \in 1..Len(answer.intervals), k \in 1..Len(rows) :
                LET i == answer.intervals[n] IN
                (/\ rows[k].state \in ActiveStates
                 /\ i.start <= rows[k].at
                 /\ i.end = None \/ rows[k].at < i.end)
                => rows[k].size = i.size

=============================================================================
