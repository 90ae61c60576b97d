------------------------ MODULE SchedulerPoller_proofs ------------------------
(***************************************************************************)
(* Proofs about SchedulerPoller for any jobs, replicas and durations: the  *)
(* typing, that the cursor never leaves the end of a job behind (Covered)  *)
(* as long as accounting is not later than the overlap of two queries      *)
(* (OverlapAssumption), and that the record of an attempt settles          *)
(* (Settled) when the overlap covers the time of a query as well.          *)
(***************************************************************************)
EXTENDS SchedulerPoller, TLAPS

\* The delay after a failure is a number whatever the count of failures.
LEMMA BackoffType == ASSUME NEW n \in Nat, n > 0 PROVE Backoff(n) \in Nat
<1> DEFINE exponent == IF n - 1 < 20 THEN n - 1 ELSE 20
<1>1. exponent \in 0..20
  OBVIOUS
<1> HIDE DEF exponent
<1> DEFINE power == 2^exponent
<1>2. power \in Nat
  BY <1>1, PowerAssumption
<1> HIDE DEF power
<1>3. (IF Interval * power < MaxBackoff THEN Interval * power ELSE MaxBackoff) \in Nat
  BY <1>2, SchedulerAssumption
<1> QED
  BY <1>3, Zenon DEF Backoff, exponent, power

\* State maps every Slurm state to a lifecycle state.
LEMMA StateType == \A token : State(token) \in ExecutionState
  BY DEF State, ExecutionState

\* Constants, as the steps below use them.
LEMMA Constants ==
    /\ Interval \in Nat /\ Lease \in Nat /\ Lookback \in Nat /\ MaxDelay \in Nat
    /\ QueryTime \in Nat
    /\ MaxDelay <= Lookback
    /\ None \notin Int /\ None \notin Nat /\ None \notin Poller
    /\ FirstSize \in Size
    /\ Outcome \subseteq Token
    /\ \A token \in Outcome : State(token) \in TerminalStates
  BY SchedulerAssumption, OverlapAssumption

\* A replica that ends its poll keeps the typing of what it knew.
LEMMA EndPollType ==
    ASSUME TypeOK, NEW p \in Poller, EndPoll(p)
    PROVE  /\ pc' \in [Poller -> Pc] /\ lease' \in [Poller -> Nat]
           /\ started' \in [Poller -> Nat] /\ since' \in [Poller -> Int]
           /\ view' \in [Poller -> SUBSET Row] /\ at' \in [Poller -> Nat]
           /\ seen' \in [Poller -> Nat]
  BY DEF TypeOK, EndPoll, Pc

\* The answer of sacct consists of rows.
LEMMA AnswerType == ASSUME TypeOK, NEW t PROVE Answer(t) \subseteq Row
  BY StateType DEF TypeOK, Answer, Row

\* A row stamped with a time is an observation.
LEMMA SeenType == ASSUME NEW v \in Row, NEW t \in Nat PROVE Seen(v, t) \in Observation
  BY DEF Row, Seen, Observation

\* The record after a poll has its type.
LEMMA ReconciledType ==
    ASSUME TypeOK, NEW j \in Job, NEW v \in Row, NEW t \in Nat
    PROVE  Reconciled(j, v, t) \in [bound: {"no", "live", "late"}, state: ExecutionState, at: Moment]
<1>1. record[j] \in [bound: {"no", "live", "late"}, state: ExecutionState, at: Moment]
  BY DEF TypeOK
<1>2. v.state \in ExecutionState /\ t \in Moment
  BY DEF Row, Moment
<1>3. [record[j] EXCEPT !.state = v.state, !.at = t]
          \in [bound: {"no", "live", "late"}, state: ExecutionState, at: Moment]
  BY <1>1, <1>2
<1> QED
  BY <1>1, <1>3 DEF Reconciled

\* A cursor given back until t is a cursor row.
LEMMA ReleasedType ==
    ASSUME NEW c \in CursorRow, NEW t \in Nat PROVE Released(c, t) \in CursorRow
  BY DEF CursorRow, Released, Moment

\* Reading the cursor back keeps the typing.
LEMMA ReadBackType ==
    ASSUME TypeOK, NEW p \in Poller, NEW from, NEW to \in Pc, ReadBack(p, from, to)
    PROVE  TypeOK'
<1>1. cursor.failures \in Nat
  BY DEF TypeOK, CursorRow
<1>2. pc' \in [Poller -> Pc] /\ at' \in [Poller -> Nat] /\ seen' \in [Poller -> Nat]
  BY <1>1 DEF TypeOK, ReadBack
<1> QED
  BY <1>2 DEF TypeOK, ReadBack, jobVars, catalogVars

-----------------------------------------------------------------------------
\* Every step keeps the typing.
LEMMA TypeStep == ASSUME TypeOK, [Next]_vars PROVE TypeOK'
<1> USE Constants
<1>1. CASE Tick
  BY <1>1 DEF TypeOK, Tick, jobVars, catalogVars, pollVars
<1>2. ASSUME NEW j \in Job, NEW r \in Size, JobResize(j, r) PROVE TypeOK'
  BY <1>2 DEF TypeOK, JobResize, catalogVars, pollVars
<1>3. ASSUME NEW j \in Job, JobEnd(j) PROVE TypeOK'
  BY <1>3 DEF TypeOK, JobEnd, catalogVars, pollVars, Moment
<1>4. ASSUME NEW j \in Job, NEW token \in Outcome, AccountEnd(j, token) PROVE TypeOK'
  BY <1>4 DEF TypeOK, AccountEnd, catalogVars, pollVars, Moment
<1>5. ASSUME NEW j \in Job, Bind(j) PROVE TypeOK'
  BY <1>5 DEF TypeOK, Bind, NewRecord, jobVars, pollVars, Moment, ExecutionState
<1>6. ASSUME NEW j \in Job, Erase(j) PROVE TypeOK'
  BY <1>6 DEF TypeOK, Erase, Unbound, NewRecord, jobVars, pollVars, Moment, ExecutionState
<1>7. ASSUME NEW p \in Poller, Claim(p) PROVE TypeOK'
  <2>1. /\ cursor.generation + 1 \in Nat /\ now + Lease \in Moment
        /\ p \in Poller \cup {None}
    BY DEF TypeOK, CursorRow, Moment
  <2>2. cursor' \in CursorRow
    BY <1>7, <2>1 DEF TypeOK, Claim, CursorRow
  <2>3. pc' \in [Poller -> Pc] /\ lease' \in [Poller -> Nat]
    BY <1>7, <2>1 DEF TypeOK, Claim, Pc
  <2> QED
    BY <1>7, <2>2, <2>3 DEF TypeOK, Claim, jobVars, catalogVars
<1>8. ASSUME NEW p \in Poller, Execute(p) PROVE TypeOK'
  <2>1. QueryStart \in Int
    BY DEF TypeOK, CursorRow, QueryStart, Moment
  <2> QED
    BY <1>8, <2>1 DEF TypeOK, Execute, Pc, jobVars, catalogVars
<1>9. ASSUME NEW p \in Poller, Decline(p) \/ Fenced(p) \/ Crash(p) PROVE TypeOK'
  BY <1>9, EndPollType DEF TypeOK, Decline, Fenced, Crash, jobVars, catalogVars
<1>10. ASSUME NEW p \in Poller, Query(p) PROVE TypeOK'
  BY <1>10, AnswerType DEF TypeOK, Query, Pc, jobVars, catalogVars
<1>11. ASSUME NEW p \in Poller, Stamp(p) PROVE TypeOK'
  BY <1>11 DEF TypeOK, Stamp, Pc, jobVars, catalogVars
<1>12. ASSUME NEW p \in Poller, Reconcile(p) PROVE TypeOK'
  <2>1. \A v \in view[p] : v \in Row
    BY DEF TypeOK
  <2>2. at[p] \in Nat
    BY DEF TypeOK
  <2>3. observations' \subseteq Observation
    BY <1>12, <2>1, <2>2, SeenType DEF TypeOK, Reconcile
  <2>4. ASSUME NEW j \in Job
        PROVE  record'[j] \in [bound: {"no", "live", "late"}, state: ExecutionState, at: Moment]
    <3>1. CASE record[j].bound # "no" /\ \E v \in view[p] : v.job = j
      <4>1. (CHOOSE v \in view[p] : v.job = j) \in view[p]
        BY <3>1
      <4> QED
        BY <1>12, <3>1, <4>1, <2>1, <2>2, ReconciledType DEF Reconcile
    <3>2. CASE ~(record[j].bound # "no" /\ \E v \in view[p] : v.job = j)
      BY <1>12, <3>2 DEF Reconcile, TypeOK
    <3> QED
      BY <3>1, <3>2
  <2>5. record' \in [Job -> [bound: {"no", "live", "late"}, state: ExecutionState, at: Moment]]
    BY <1>12, <2>4 DEF Reconcile
  <2>6. /\ view' \in [Poller -> SUBSET Row] /\ at' \in [Poller -> Nat] /\ pc' \in [Poller -> Pc]
    BY <1>12 DEF Reconcile, TypeOK, Pc
  <2> QED
    BY <1>12, <2>3, <2>5, <2>6 DEF TypeOK, Reconcile, jobVars
<1>13. ASSUME NEW p \in Poller, PublishRead(p) \/ FailRead(p) PROVE TypeOK'
  BY <1>13, ReadBackType DEF PublishRead, FailRead, Pc
<1>14. ASSUME NEW p \in Poller, QueryFail(p) PROVE TypeOK'
  BY <1>14 DEF TypeOK, QueryFail, Pc, jobVars, catalogVars
<1>15. ASSUME NEW p \in Poller, NEW d \in 0..Jitter, PublishWrite(p, d) PROVE TypeOK'
  <2>1. d \in Nat
    BY SchedulerAssumption
  <2>2. at[p] + Interval + d \in Nat /\ started[p] \in Moment
    BY <2>1 DEF TypeOK, Moment
  <2>3. Released(cursor, at[p] + Interval + d) \in CursorRow
    BY <2>2, ReleasedType DEF TypeOK
  <2>4. cursor.failures \in Nat
    BY DEF TypeOK, CursorRow
  <2>5. cursor' \in CursorRow
    BY <1>15, <2>2, <2>3, <2>4 DEF PublishWrite, Published, CursorRow
  <2> QED
    BY <1>15, <2>5, EndPollType DEF TypeOK, PublishWrite, jobVars, catalogVars
<1>16. ASSUME NEW p \in Poller, NEW d \in 0..Jitter, FailWrite(p, d) PROVE TypeOK'
  <2>1. d \in Nat
    BY SchedulerAssumption
  <2>2. seen[p] + 1 \in Nat /\ seen[p] + 1 > 0
    BY DEF TypeOK
  <2>3. Backoff(seen[p] + 1) \in Nat
    BY <2>2, BackoffType
  <2> DEFINE next == at[p] + Backoff(seen[p] + 1) + d
  <2>4. next \in Nat
    BY <2>1, <2>3 DEF TypeOK
  <2>5. cursor' = [Released(cursor, next) EXCEPT !.failures = seen[p] + 1]
    BY <1>16 DEF FailWrite, Failed
  <2> HIDE DEF next
  <2>6. Released(cursor, next) \in CursorRow
    BY <2>4, ReleasedType DEF TypeOK
  <2>7. cursor' \in CursorRow
    BY <2>2, <2>5, <2>6 DEF CursorRow
  <2> QED
    BY <1>16, <2>7, EndPollType DEF TypeOK, FailWrite, jobVars, catalogVars
<1>17. CASE UNCHANGED vars
  BY <1>17 DEF TypeOK, vars, jobVars, catalogVars, pollVars
<1> QED
  BY <1>1, <1>2, <1>3, <1>4, <1>5, <1>6, <1>7, <1>8, <1>9, <1>10, <1>11, <1>12, <1>13,
     <1>14, <1>15, <1>16, <1>17 DEF Next, Accounting, PollStep

\* The initial state has its type.
LEMMA TypeInit == Init => TypeOK
  BY Constants DEF Init, TypeOK, CursorRow, Moment, Pc, Unbound, NewRecord, ExecutionState, Token

\* For every number of jobs and replicas and for any durations the state of the
\* scheduler service keeps its type.
THEOREM TypeCorrect == Spec => []TypeOK
  BY TypeInit, TypeStep, PTL DEF Spec

-----------------------------------------------------------------------------
(* The coverage of the cursor. *)

\* What the coverage of a poll speaks of only grows with the stored observations.
LEMMA Frame ==
    ASSUME UNCHANGED <<ended, erased>>, observations \subseteq observations'
    PROVE  /\ \A t : ShownBy(t)' = ShownBy(t)
           /\ \A j : TerminalSeen(j) => TerminalSeen(j)'
  BY DEF ShownBy, TerminalSeen

\* A step of one replica that stores nothing leaves the others' progress alone.
LEMMA OthersKept ==
    ASSUME IInv, NEW q \in Poller,
           UNCHANGED <<ended, erased>>, observations \subseteq observations',
           pc'[q] = pc[q], since'[q] = since[q], started'[q] = started[q], view'[q] = view[q]
    PROVE  QueryCovers(q)' /\ AnswerCovers(q)' /\ PollCovers(q)'
<1>1. QueryCovers(q) /\ AnswerCovers(q) /\ PollCovers(q)
  BY DEF IInv
<1>2. QueryCovers(q)'
  BY <1>1, Frame DEF QueryCovers
<1>3. AnswerCovers(q)'
  BY <1>1, Frame DEF AnswerCovers
<1>4. PollCovers(q)'
  BY <1>1, Frame DEF PollCovers
<1> QED
  BY <1>2, <1>3, <1>4

\* A replica outside of a poll has nothing to establish.
LEMMA RestCovers ==
    ASSUME NEW q \in Poller, pc'[q] \in {"idle", "leased", "failing", "recording"}
    PROVE  QueryCovers(q)' /\ AnswerCovers(q)' /\ PollCovers(q)'
  BY DEF QueryCovers, AnswerCovers, PollCovers

\* Accounting stays truthful when neither the jobs nor the clock move.
LEMMA AccountingKept ==
    ASSUME IInv, UNCHANGED <<now, ended, accounting>>
    PROVE  AccountingOK'
  BY DEF IInv, AccountingOK

\* A cursor that stays, stays covered.
LEMMA CoveredKept ==
    ASSUME IInv, UNCHANGED <<ended, erased>>, observations \subseteq observations',
           cursor'.at = cursor.at
    PROVE  Covered'
  BY Frame DEF IInv, Covered

\* A step of replica p that neither stamps nor stores anything and dates nothing
\* later than now.
LEMMA ClockKept ==
    ASSUME IInv, NEW p \in Poller, UNCHANGED <<now, observations>>,
           pc' \in [Poller -> Pc],
           cursor'.at = cursor.at \/ cursor'.at <= now,
           \A q \in Poller : q # p => /\ pc'[q] = pc[q] /\ at'[q] = at[q]
                                      /\ started'[q] = started[q] /\ since'[q] = since[q],
           pc'[p] # "stamped", started'[p] <= now, since'[p] <= now
    PROVE  ClockOK'
  BY DEF IInv, ClockOK

-----------------------------------------------------------------------------
\* Every step of the clock, the jobs and the rest of the service keeps IInv.
LEMMA WorldStep ==
    ASSUME IInv, Tick \/ \E j \in Job : Accounting(j) \/ Bind(j) \/ Erase(j)
    PROVE  IInv'
<1> USE Constants
<1>0. TypeOK /\ TypeOK'
  BY TypeStep DEF IInv, Next
<1>1. CASE Tick
  <2>1. /\ now' = now + 1
        /\ UNCHANGED <<ended, accounting, observations, erased, cursor, pc, since, started, view, at>>
    BY <1>1 DEF Tick, jobVars, catalogVars, pollVars
  <2>2. AccountingOK'
    BY <1>0, <1>1, <2>1 DEF IInv, AccountingOK, Tick, TypeOK, Moment
  <2>3. ClockOK'
    BY <1>0, <2>1 DEF IInv, ClockOK, TypeOK, CursorRow, Moment
  <2>4. Covered'
    BY <2>1, CoveredKept
  <2>5. \A q \in Poller : QueryCovers(q)' /\ AnswerCovers(q)' /\ PollCovers(q)'
    BY <2>1, OthersKept
  <2> QED
    BY <1>0, <2>2, <2>3, <2>4, <2>5 DEF IInv
<1>2. ASSUME NEW j \in Job, NEW r \in Size, JobResize(j, r) PROVE IInv'
  <2>1. UNCHANGED <<now, ended, observations, erased, cursor, pc, since, started, view, at>>
    BY <1>2 DEF JobResize, catalogVars, pollVars
  <2>2. AccountingOK'
    BY <1>0, <1>2, <2>1 DEF IInv, AccountingOK, JobResize, TypeOK
  <2>3. ClockOK'
    BY <2>1 DEF IInv, ClockOK
  <2>4. Covered'
    BY <2>1, CoveredKept
  <2>5. \A q \in Poller : QueryCovers(q)' /\ AnswerCovers(q)' /\ PollCovers(q)'
    BY <2>1, OthersKept
  <2> QED
    BY <1>0, <2>2, <2>3, <2>4, <2>5 DEF IInv
<1>3. ASSUME NEW j \in Job, JobEnd(j) PROVE IInv'
  <2>1. /\ UNCHANGED <<now, accounting, observations, erased, cursor, pc, since, started, view, at>>
        /\ ended[j] = None /\ ended' = [ended EXCEPT ![j] = now]
    BY <1>3 DEF JobEnd, catalogVars, pollVars
  <2>2. AccountingOK'
    BY <1>0, <2>1 DEF IInv, AccountingOK, TypeOK, Moment
  <2>3. ClockOK'
    BY <2>1 DEF IInv, ClockOK
  <2>4. \A i : TerminalSeen(i)' <=> TerminalSeen(i)
    BY <2>1 DEF TerminalSeen
  <2>5. \A t \in Int : t <= now => ShownBy(t)' = ShownBy(t)
    BY <1>0, <2>1 DEF ShownBy, TypeOK, Moment
  <2>6. Covered'
    BY <1>0, <2>1, <2>4, <2>5 DEF IInv, Covered, ClockOK, TypeOK, CursorRow, Moment
  <2>7. ASSUME NEW q \in Poller PROVE QueryCovers(q)' /\ AnswerCovers(q)' /\ PollCovers(q)'
    <3>1. /\ started[q] \in Int /\ started[q] <= now /\ since[q] \in Int /\ since[q] <= now
          /\ QueryCovers(q) /\ AnswerCovers(q) /\ PollCovers(q)
      BY <1>0 DEF IInv, ClockOK, TypeOK
    <3>2. QueryCovers(q)'
      BY <1>0, <2>1, <2>4, <3>1 DEF QueryCovers, TypeOK, Moment
    <3>3. AnswerCovers(q)'
      BY <2>1, <2>4, <2>5, <3>1 DEF AnswerCovers
    <3>4. PollCovers(q)'
      BY <2>1, <2>4, <2>5, <3>1 DEF PollCovers
    <3> QED
      BY <3>2, <3>3, <3>4
  <2> QED
    BY <1>0, <2>2, <2>3, <2>6, <2>7 DEF IInv
<1>4. ASSUME NEW j \in Job, NEW token \in Outcome, AccountEnd(j, token) PROVE IInv'
  <2>1. UNCHANGED <<now, ended, observations, erased, cursor, pc, since, started, view, at>>
    BY <1>4 DEF AccountEnd, catalogVars, pollVars
  <2>2. AccountingOK'
    BY <1>0, <1>4, <2>1 DEF IInv, AccountingOK, AccountEnd, TypeOK
  <2>3. ClockOK'
    BY <2>1 DEF IInv, ClockOK
  <2>4. Covered'
    BY <2>1, CoveredKept
  <2>5. \A q \in Poller : QueryCovers(q)' /\ AnswerCovers(q)' /\ PollCovers(q)'
    BY <2>1, OthersKept
  <2> QED
    BY <1>0, <2>2, <2>3, <2>4, <2>5 DEF IInv
<1>5. ASSUME NEW j \in Job, Bind(j) PROVE IInv'
  <2>1. UNCHANGED <<now, ended, accounting, observations, erased, cursor, pc, since, started, view, at>>
    BY <1>5 DEF Bind, jobVars, pollVars
  <2>2. AccountingOK' /\ Covered'
    BY <2>1, AccountingKept, CoveredKept
  <2>3. ClockOK'
    BY <2>1 DEF IInv, ClockOK
  <2>4. \A q \in Poller : QueryCovers(q)' /\ AnswerCovers(q)' /\ PollCovers(q)'
    BY <2>1, OthersKept
  <2> QED
    BY <1>0, <2>2, <2>3, <2>4 DEF IInv
<1>6. ASSUME NEW j \in Job, Erase(j) PROVE IInv'
  <2>1. /\ UNCHANGED <<now, ended, accounting, cursor, pc, since, started, view, at>>
        /\ observations' = {o \in observations : o.job # j} /\ erased' = erased \cup {j}
    BY <1>6 DEF Erase, jobVars, pollVars
  <2>2. AccountingOK'
    BY <2>1, AccountingKept
  <2>3. ClockOK'
    BY <2>1 DEF IInv, ClockOK
  <2>4. \A i \in Job \ erased' : i \in Job \ erased /\ (TerminalSeen(i) => TerminalSeen(i)')
    BY <2>1 DEF TerminalSeen
  <2>5. \A t : \A i \in ShownBy(t)' : i \in ShownBy(t) /\ i \in Job \ erased'
    BY <2>1 DEF ShownBy
  <2>6. Covered'
    BY <2>1, <2>4, <2>5 DEF IInv, Covered
  <2>7. ASSUME NEW q \in Poller PROVE QueryCovers(q)' /\ AnswerCovers(q)' /\ PollCovers(q)'
    <3>1. QueryCovers(q) /\ AnswerCovers(q) /\ PollCovers(q)
      BY DEF IInv
    <3>2. QueryCovers(q)'
      BY <2>1, <2>4, <3>1 DEF QueryCovers
    <3>3. AnswerCovers(q)'
      BY <2>1, <2>4, <2>5, <3>1 DEF AnswerCovers
    <3>4. PollCovers(q)'
      BY <2>1, <2>4, <2>5, <3>1 DEF PollCovers
    <3> QED
      BY <3>2, <3>3, <3>4
  <2> QED
    BY <1>0, <2>2, <2>3, <2>6, <2>7 DEF IInv
<1> QED
  BY <1>1, <1>2, <1>3, <1>4, <1>5, <1>6 DEF Accounting

\* Every step of a replica keeps IInv.
LEMMA ReplicaStep ==
    ASSUME IInv, NEW p \in Poller, PollStep(p)
    PROVE  IInv'
<1> USE Constants
<1>0. /\ TypeOK /\ TypeOK' /\ pc \in [Poller -> Pc] /\ pc' \in [Poller -> Pc]
      /\ now \in Nat /\ started[p] \in Nat /\ started[p] <= now
      /\ since[p] \in Int /\ since[p] <= now
  BY TypeStep DEF IInv, Next, TypeOK, ClockOK
<1> DEFINE Same(q) == /\ pc'[q] = pc[q] /\ since'[q] = since[q] /\ started'[q] = started[q]
                      /\ view'[q] = view[q] /\ at'[q] = at[q]
           Others == \A q \in Poller : q # p => Same(q)
           Covers(q) == QueryCovers(q)' /\ AnswerCovers(q)' /\ PollCovers(q)'
\* The end of a poll.
<1>1. ASSUME EndPoll(p), UNCHANGED <<now, jobVars, catalogVars>>, Covered',
             cursor'.at = cursor.at \/ cursor'.at <= now
      PROVE  IInv'
  <2>1. /\ Others /\ pc'[p] = "idle" /\ started'[p] = 0 /\ since'[p] = 0
        /\ UNCHANGED <<now, ended, accounting, observations, erased>>
    BY <1>0, <1>1 DEF EndPoll, TypeOK, jobVars, catalogVars
  <2>2. AccountingOK'
    BY <2>1, AccountingKept
  <2>3. ClockOK'
    BY <1>0, <1>1, <2>1, ClockKept
  <2>4. \A q \in Poller : Covers(q)
    BY <2>1, OthersKept, RestCovers
  <2> QED
    BY <1>0, <1>1, <2>2, <2>3, <2>4 DEF IInv
\* A step to a point of the poll, nothing being stored.
<1>2. ASSUME Others, UNCHANGED <<now, ended, accounting, observations, erased>>,
             cursor'.at = cursor.at, pc'[p] # "stamped",
             started'[p] <= now, since'[p] <= now, Covers(p)
      PROVE  IInv'
  <2>1. AccountingOK' /\ Covered'
    BY <1>2, AccountingKept, CoveredKept
  <2>2. ClockOK'
    BY <1>0, <1>2, ClockKept
  <2>3. \A q \in Poller : Covers(q)
    BY <1>2, OthersKept
  <2> QED
    BY <1>0, <2>1, <2>2, <2>3 DEF IInv
<1>3. CASE Claim(p)
  <2>1. /\ Others /\ pc'[p] = "leased" /\ started'[p] = started[p] /\ since'[p] = since[p]
        /\ UNCHANGED <<now, ended, accounting, observations, erased>>
    BY <1>0, <1>3 DEF Claim, TypeOK, jobVars, catalogVars
  <2>2. cursor'.at = cursor.at
    BY <1>0, <1>3 DEF Claim, TypeOK, CursorRow
  <2>3. Covers(p)
    BY <2>1, RestCovers
  <2> QED
    BY <1>0, <1>2, <2>1, <2>2, <2>3
<1>4. CASE Execute(p)
  <2>1. /\ Others /\ pc'[p] = "query" /\ started'[p] = now /\ since'[p] = QueryStart
        /\ UNCHANGED <<now, ended, accounting, observations, erased, cursor>>
    BY <1>0, <1>4 DEF Execute, TypeOK, jobVars, catalogVars
  <2>2. QueryStart <= now
    BY <1>0 DEF IInv, ClockOK, QueryStart, TypeOK, CursorRow, Moment
  <2>3. ASSUME NEW j \in Job \ erased, ended[j] # None, ended[j] < QueryStart
        PROVE  TerminalSeen(j)
    <3>1. ended[j] \in Nat
      BY <1>0, <2>3 DEF TypeOK, Moment
    <3>2. cursor.at # None
      BY <2>3, <3>1 DEF QueryStart
    <3>3. cursor.at \in Nat
      BY <1>0, <3>2 DEF TypeOK, CursorRow, Moment
    <3>4. ended[j] + MaxDelay < cursor.at
      BY <2>3, <3>1, <3>2, <3>3 DEF QueryStart
    <3> QED
      BY <2>3, <3>2, <3>4 DEF IInv, Covered, ShownBy
  <2>4. \A j : TerminalSeen(j) => TerminalSeen(j)'
    BY <2>1, Frame
  <2>5. Covers(p)
    BY <2>1, <2>3, <2>4 DEF QueryCovers, AnswerCovers, PollCovers
  <2> QED
    BY <1>0, <1>2, <2>1, <2>2, <2>5
<1>5. CASE Decline(p) \/ Fenced(p) \/ Crash(p)
  <2>1. EndPoll(p) /\ UNCHANGED <<now, jobVars, catalogVars, cursor>>
    BY <1>5 DEF Decline, Fenced, Crash
  <2>2. Covered'
    BY <2>1, CoveredKept DEF jobVars, catalogVars
  <2> QED
    BY <1>1, <2>1, <2>2
<1>6. CASE Query(p)
  <2>1. /\ Others /\ pc[p] = "query" /\ pc'[p] = "answered" /\ started'[p] = started[p]
        /\ since'[p] = 0 /\ view'[p] = Answer(since[p])
        /\ UNCHANGED <<now, ended, accounting, observations, erased, cursor>>
    BY <1>0, <1>6 DEF Query, TypeOK, jobVars, catalogVars
  <2>2. ASSUME NEW j \in ShownBy(started[p])
        PROVE  TerminalSeen(j) \/ \E v \in Answer(since[p]) : v.job = j /\ v.state \in TerminalStates
    <3>1. /\ j \in Job \ erased /\ ended[j] \in Nat /\ ended[j] # None
          /\ ended[j] + MaxDelay < now
      BY <1>0 DEF ShownBy, TypeOK, Moment
    <3>2. accounting[j].ended = ended[j] /\ State(accounting[j].state) \in TerminalStates
      BY <1>0, <3>1 DEF IInv, AccountingOK
    <3>3. CASE ended[j] < since[p]
      BY <2>1, <3>1, <3>3 DEF IInv, QueryCovers
    <3>4. CASE ended[j] >= since[p]
      <4> DEFINE v == [job |-> j, state |-> State(accounting[j].state),
                       started |-> accounting[j].started, ended |-> accounting[j].ended,
                       size |-> accounting[j].size]
      <4>1. v \in Answer(since[p])
        BY <3>1, <3>2, <3>4 DEF Answer
      <4> QED
        BY <3>2, <4>1
    <3> QED
      BY <1>0, <3>1, <3>3, <3>4
  <2>3. (\A t : ShownBy(t)' = ShownBy(t)) /\ \A j : TerminalSeen(j) => TerminalSeen(j)'
    BY <2>1, Frame
  <2>4. Covers(p)
    BY <2>1, <2>2, <2>3 DEF QueryCovers, AnswerCovers, PollCovers
  <2> QED
    BY <1>0, <1>2, <2>1, <2>4
<1>7. CASE Stamp(p)
  <2>1. /\ Others /\ pc[p] = "answered" /\ pc'[p] = "stamped" /\ at'[p] = now
        /\ started'[p] = started[p] /\ since'[p] = since[p] /\ view'[p] = view[p]
        /\ UNCHANGED <<now, ended, accounting, observations, erased, cursor>>
    BY <1>0, <1>7 DEF Stamp, TypeOK, jobVars, catalogVars
  <2>2. AccountingOK' /\ Covered'
    BY <2>1, AccountingKept, CoveredKept
  <2>3. ClockOK'
    BY <1>7, <2>1 DEF IInv, ClockOK, Stamp
  <2>4. (\A t : ShownBy(t)' = ShownBy(t)) /\ \A j : TerminalSeen(j) => TerminalSeen(j)'
    BY <2>1, Frame
  <2>5. Covers(p)
    BY <2>1, <2>4 DEF IInv, QueryCovers, AnswerCovers, PollCovers
  <2>6. \A q \in Poller : Covers(q)
    BY <2>1, <2>5, OthersKept
  <2> QED
    BY <1>0, <2>2, <2>3, <2>6 DEF IInv
<1>8. CASE Reconcile(p)
  <2> DEFINE new == {Seen(v, at[p]) : v \in {u \in view[p] : ~Stored(u.job, at[p])}}
  <2>1. /\ Others /\ pc[p] = "stamped" /\ pc'[p] = "reconciled"
        /\ started'[p] = started[p] /\ since'[p] = since[p]
        /\ observations' = observations \cup new
        /\ UNCHANGED <<now, ended, accounting, erased, cursor>>
    BY <1>0, <1>8 DEF Reconcile, TypeOK, jobVars
  <2>2. AccountingOK' /\ Covered'
    BY <2>1, AccountingKept, CoveredKept
  <2>3. \A o \in new : o.at = at[p]
    BY DEF Seen
  <2>4. ClockOK'
    BY <2>1, <2>3 DEF IInv, ClockOK
  <2>5. \A v \in view[p] : Seen(v, at[p]) \in observations'
    BY <2>1 DEF IInv, ClockOK, Stored
  <2>6. (\A t : ShownBy(t)' = ShownBy(t)) /\ \A j : TerminalSeen(j) => TerminalSeen(j)'
    BY <2>1, Frame
  <2>7. \A j : (\E v \in view[p] : v.job = j /\ v.state \in TerminalStates) => TerminalSeen(j)'
    BY <2>5 DEF Seen, TerminalSeen
  <2>8. Covers(p)
    BY <2>1, <2>6, <2>7 DEF IInv, QueryCovers, AnswerCovers, PollCovers
  <2>9. \A q \in Poller : Covers(q)
    BY <2>1, <2>8, OthersKept
  <2> QED
    BY <1>0, <2>2, <2>4, <2>9 DEF IInv
<1>9. CASE PublishRead(p) \/ FailRead(p)
  <2>1. /\ Others /\ started'[p] = started[p] /\ since'[p] = since[p] /\ view'[p] = view[p]
        /\ \/ pc[p] = "reconciled" /\ pc'[p] = "publishing"
           \/ pc[p] = "failing" /\ pc'[p] = "recording"
        /\ UNCHANGED <<now, ended, accounting, observations, erased, cursor>>
    BY <1>0, <1>9 DEF PublishRead, FailRead, ReadBack, TypeOK, jobVars, catalogVars
  <2>2. (\A t : ShownBy(t)' = ShownBy(t)) /\ \A j : TerminalSeen(j) => TerminalSeen(j)'
    BY <2>1, Frame
  <2>3. Covers(p)
    BY <2>1, <2>2 DEF IInv, QueryCovers, AnswerCovers, PollCovers
  <2> QED
    BY <1>0, <1>2, <2>1, <2>3
<1>10. CASE QueryFail(p)
  <2>1. /\ Others /\ pc'[p] = "failing" /\ started'[p] = 0 /\ since'[p] = 0
        /\ UNCHANGED <<now, ended, accounting, observations, erased, cursor>>
    BY <1>0, <1>10 DEF QueryFail, TypeOK, jobVars, catalogVars
  <2>2. Covers(p)
    BY <2>1, RestCovers
  <2> QED
    BY <1>0, <1>2, <2>1, <2>2
<1>11. ASSUME NEW d \in 0..Jitter, PublishWrite(p, d) PROVE IInv'
  <2>1. /\ pc[p] = "publishing" /\ EndPoll(p) /\ UNCHANGED <<now, jobVars, catalogVars>>
        /\ cursor' = Published(p, d)
    BY <1>11 DEF PublishWrite
  <2>2. cursor'.at = started[p]
    BY <1>0, <2>1 DEF Published, Released, TypeOK, CursorRow
  <2>3. (\A t : ShownBy(t)' = ShownBy(t)) /\ \A j : TerminalSeen(j) => TerminalSeen(j)'
    BY <2>1, Frame DEF jobVars, catalogVars
  <2>4. Covered'
    BY <2>1, <2>2, <2>3 DEF IInv, PollCovers, Covered
  <2> QED
    BY <1>0, <1>1, <2>1, <2>2, <2>4
<1>12. ASSUME NEW d \in 0..Jitter, FailWrite(p, d) PROVE IInv'
  <2>1. /\ EndPoll(p) /\ UNCHANGED <<now, jobVars, catalogVars>>
        /\ cursor' = Failed(p, d)
    BY <1>12 DEF FailWrite
  <2>2. cursor'.at = cursor.at
    BY <1>0, <2>1 DEF Failed, Released, TypeOK, CursorRow
  <2>3. Covered'
    BY <2>1, <2>2, CoveredKept DEF jobVars, catalogVars
  <2> QED
    BY <1>1, <2>1, <2>2, <2>3
<1> QED
  BY <1>3, <1>4, <1>5, <1>6, <1>7, <1>8, <1>9, <1>10, <1>11, <1>12 DEF PollStep

\* IInv holds of the initial state.
LEMMA InvInit == Init => IInv
<1> SUFFICES ASSUME Init PROVE IInv
  OBVIOUS
<1>1. TypeOK
  BY TypeInit
<1>2. AccountingOK /\ ClockOK /\ Covered
  BY Constants DEF Init, AccountingOK, ClockOK, Covered
<1>3. \A p \in Poller : QueryCovers(p) /\ AnswerCovers(p) /\ PollCovers(p)
  BY DEF Init, QueryCovers, AnswerCovers, PollCovers
<1> QED
  BY <1>1, <1>2, <1>3 DEF IInv

\* A step that changes nothing keeps IInv.
LEMMA StutterStep == ASSUME IInv, UNCHANGED vars PROVE IInv'
<1>1. UNCHANGED <<now, ended, accounting, observations, erased, cursor, pc, since, started, view, at>>
  BY DEF vars, jobVars, catalogVars, pollVars
<1>2. TypeOK'
  BY TypeStep DEF IInv
<1>3. AccountingOK' /\ Covered'
  BY <1>1, AccountingKept, CoveredKept
<1>4. ClockOK'
  BY <1>1 DEF IInv, ClockOK
<1>5. \A q \in Poller : QueryCovers(q)' /\ AnswerCovers(q)' /\ PollCovers(q)'
  BY <1>1, OthersKept
<1> QED
  BY <1>2, <1>3, <1>4, <1>5 DEF IInv

\* Whatever replicas overlap, crash or lose their lease: once the cursor has passed
\* the moment by which accounting shows a job's end, a terminal observation of the
\* job is stored (scheduler.py: "The persisted cursor advances only after a
\* successful scheduler query and observation transaction").
THEOREM CursorCovers == Spec => []Covered
<1>1. IInv /\ [Next]_vars => IInv'
  BY WorldStep, ReplicaStep, StutterStep DEF Next
<1>2. IInv => Covered
  BY DEF IInv
<1> QED
  BY InvInit, <1>1, <1>2, PTL DEF Spec

-----------------------------------------------------------------------------
(* The state of a record.  Records are decided by the time of the answer, and *)
(* an answer may be stamped up to QueryTime after the query: a record settles *)
(* when queries reach back over accounting's delay and that time together.    *)

\* What the operator must see to for records: the lookback covers a slow query too.
LateAnswersRevisited == MaxDelay + QueryTime <= Lookback

\* An attempt bound before the end of its job, which has come.
Awaited(j) == record[j].bound = "live" /\ ended[j] # None

\* Its record is dated when no answer can show the job running any more.
Late(j) == record[j].at # None /\ record[j].at > ended[j] + Lookback

\* No record is dated in the future.
DatesOK == \A j \in Job : record[j].at # None => record[j].at <= now

\* A record dated late is terminal, and is so once the cursor leaves the end behind.
RecordsOK ==
    \A j \in Job : Awaited(j) =>
        /\ Late(j) => record[j].state \in TerminalStates
        /\ cursor.at # None /\ cursor.at > ended[j] + Lookback => Late(j)

\* A stamp is taken within QueryTime of the start of the poll.
StampOK(p) ==
    /\ pc[p] \in {"query", "answered"} => now <= started[p] + QueryTime
    /\ pc[p] = "stamped" => /\ started[p] <= at[p] /\ at[p] <= now
                            /\ at[p] <= started[p] + QueryTime

\* An answer that shows a job running after its end is of a poll begun in time.
ViewOK(p) ==
    pc[p] \in {"answered", "stamped"} =>
        \A v \in view[p] : v.state \notin TerminalStates /\ ended[v.job] # None =>
                               started[p] <= ended[v.job] + MaxDelay

\* What each point of a poll has established for a record that is not late yet.
PollSettles(p) ==
    \A j \in Job : Awaited(j) /\ ~Late(j) =>
        /\ pc[p] = "query" => since[p] <= ended[j]
        /\ pc[p] \in {"answered", "stamped"} /\ started[p] > ended[j] + Lookback =>
               \E v \in view[p] : v.job = j
        /\ pc[p] \in {"reconciled", "publishing"} => started[p] <= ended[j] + Lookback

PollOK(p) == StampOK(p) /\ ViewOK(p) /\ PollSettles(p)

RecordInv == DatesOK /\ RecordsOK /\ \A p \in Poller : PollOK(p)

\* The types that the steps below use.
LEMMA Readings ==
    ASSUME TypeOK
    PROVE  /\ now \in Nat /\ cursor.at \in Moment
           /\ \A j \in Job : /\ ended[j] \in Moment /\ record[j].at \in Moment
                             /\ accounting[j].ended \in Moment
           /\ \A p \in Poller : /\ started[p] \in Nat /\ since[p] \in Int /\ at[p] \in Nat
                                /\ pc[p] \in Pc
                                /\ \A v \in view[p] : v.job \in Job
  BY DEF TypeOK, CursorRow, Row

\* What a step may do to an awaited record: keep it, or date it later.
Carried(j) ==
    Awaited(j)' => /\ Awaited(j) /\ ended'[j] = ended[j]
                   /\ Late(j) => Late(j)'

\* A step that leaves replica q alone, and the clock, keeps what q has established.
LEMMA PollKept ==
    ASSUME NEW q \in Poller, PollOK(q), UNCHANGED <<now, ended>>, \A j \in Job : Carried(j),
           pc'[q] = pc[q], since'[q] = since[q], started'[q] = started[q], view'[q] = view[q],
           at'[q] = at[q]
    PROVE  PollOK(q)'
<1>1. StampOK(q)' /\ ViewOK(q)'
  BY DEF PollOK, StampOK, ViewOK
<1>2. PollSettles(q)'
  BY DEF PollOK, PollSettles, Carried
<1> QED
  BY <1>1, <1>2 DEF PollOK

\* A replica outside of a poll has established nothing.
LEMMA RestOK ==
    ASSUME NEW q \in Poller, pc'[q] \in {"idle", "leased", "failing", "recording"}
    PROVE  PollOK(q)'
  BY DEF PollOK, StampOK, ViewOK, PollSettles

\* Records that stay are settled as they were, when the cursor stays.
LEMMA RecordsKept ==
    ASSUME RecordsOK, cursor'.at = cursor.at,
           \A j \in Job : Awaited(j)' => /\ Awaited(j) /\ ended'[j] = ended[j]
                                         /\ record'[j] = record[j]
    PROVE  RecordsOK'
<1> SUFFICES ASSUME NEW j \in Job, Awaited(j)'
             PROVE  /\ Late(j)' => record'[j].state \in TerminalStates
                    /\ cursor'.at # None /\ cursor'.at > ended'[j] + Lookback => Late(j)'
  BY DEF RecordsOK
<1>1. Awaited(j) /\ ended'[j] = ended[j] /\ record'[j] = record[j]
  OBVIOUS
<1>2. Late(j)' <=> Late(j)
  BY <1>1 DEF Late
<1> QED
  BY <1>1, <1>2 DEF RecordsOK

\* Nothing is carried but what stays.
LEMMA Stays ==
    ASSUME UNCHANGED <<ended, record>>
    PROVE  /\ \A j \in Job : Carried(j)
           /\ \A j \in Job : Awaited(j)' => /\ Awaited(j) /\ ended'[j] = ended[j]
                                            /\ record'[j] = record[j]
  BY DEF Carried, Awaited, Late

\* Every step of the clock, the jobs and the rest of the service keeps RecordInv.
LEMMA RecordsWorldStep ==
    ASSUME LateAnswersRevisited, IInv, RecordInv,
           Tick \/ \E j \in Job : Accounting(j) \/ Bind(j) \/ Erase(j)
    PROVE  RecordInv'
<1> USE Constants
<1>0. /\ TypeOK /\ AccountingOK /\ ClockOK /\ DatesOK /\ RecordsOK
      /\ \A p \in Poller : PollOK(p)
      /\ QueryTime \in Nat
  BY DEF IInv, RecordInv, LateAnswersRevisited
<1>1. CASE Tick
  <2>1. /\ now' = now + 1
        /\ UNCHANGED <<ended, record, cursor, pc, since, started, view, at>>
        /\ \A p \in Poller : pc[p] \in {"query", "answered"} => now < started[p] + QueryTime
    BY <1>1 DEF Tick, jobVars, catalogVars, pollVars
  <2>2. DatesOK'
    BY <1>0, <2>1, Readings DEF DatesOK, Moment
  <2>3. RecordsOK'
    BY <1>0, <2>1, Stays, RecordsKept
  <2>4. ASSUME NEW p \in Poller PROVE PollOK(p)'
    <3>1. StampOK(p)'
      BY <1>0, <2>1, Readings DEF PollOK, StampOK
    <3>2. ViewOK(p)'
      BY <1>0, <2>1 DEF PollOK, ViewOK
    <3>3. PollSettles(p)'
      BY <1>0, <2>1, Stays DEF PollOK, PollSettles, Carried
    <3> QED
      BY <3>1, <3>2, <3>3 DEF PollOK
  <2> QED
    BY <2>2, <2>3, <2>4 DEF RecordInv
<1>2. ASSUME UNCHANGED <<now, ended, record, cursor, pc, since, started, view, at>>
      PROVE  RecordInv'
  <2>1. DatesOK'
    BY <1>0, <1>2 DEF DatesOK
  <2>2. RecordsOK'
    BY <1>0, <1>2, Stays, RecordsKept
  <2>3. \A p \in Poller : PollOK(p)'
    BY <1>0, <1>2, Stays, PollKept
  <2> QED
    BY <2>1, <2>2, <2>3 DEF RecordInv
<1>3. ASSUME NEW j \in Job, (\E r \in Size : JobResize(j, r)) \/ \E token \in Outcome : AccountEnd(j, token)
      PROVE  RecordInv'
  <2>1. UNCHANGED <<now, ended, record, cursor, pc, since, started, view, at>>
    BY <1>3 DEF JobResize, AccountEnd, catalogVars, pollVars
  <2> QED
    BY <1>2, <2>1
\* What is dated before the end is not late, and asks for the end.
<1>4. ASSUME NEW j \in Job, JobEnd(j) PROVE RecordInv'
  <2>1. /\ UNCHANGED <<now, record, cursor, pc, since, started, view, at>>
        /\ ended[j] = None /\ ended'[j] = now
        /\ \A i \in Job : i # j => ended'[i] = ended[i]
    BY <1>0, <1>4 DEF JobEnd, catalogVars, pollVars, TypeOK
  <2>2. DatesOK'
    BY <1>0, <2>1 DEF DatesOK
  <2>3. ~Late(j)'
    BY <1>0, <2>1, Readings DEF DatesOK, Late, Moment
  <2>4. \A i \in Job : i # j => (Awaited(i)' <=> Awaited(i)) /\ (Late(i)' <=> Late(i))
    BY <2>1 DEF Awaited, Late
  <2>5. RecordsOK'
    <3> SUFFICES ASSUME NEW i \in Job, Awaited(i)'
                 PROVE  /\ Late(i)' => record'[i].state \in TerminalStates
                        /\ cursor'.at # None /\ cursor'.at > ended'[i] + Lookback => Late(i)'
      BY DEF RecordsOK
    <3>1. CASE i = j
      BY <1>0, <2>1, <2>3, <3>1, Readings DEF ClockOK, Moment
    <3>2. CASE i # j
      BY <1>0, <2>1, <2>4, <3>2 DEF RecordsOK
    <3> QED
      BY <3>1, <3>2
  <2>6. ASSUME NEW p \in Poller PROVE PollOK(p)'
    <3>0. PollOK(p) /\ started[p] <= now /\ since[p] <= now
          /\ started[p] \in Nat /\ since[p] \in Int /\ now \in Nat
      BY <1>0, Readings DEF ClockOK
    <3>1. StampOK(p)'
      BY <2>1, <3>0 DEF PollOK, StampOK
    <3>2. ViewOK(p)'
      <4> SUFFICES ASSUME pc[p] \in {"answered", "stamped"}, NEW v \in view[p],
                          v.state \notin TerminalStates, ended'[v.job] # None
                   PROVE  started[p] <= ended'[v.job] + MaxDelay
        BY <2>1 DEF ViewOK
      <4>1. CASE v.job = j
        BY <2>1, <3>0, <4>1
      <4>2. CASE v.job # j
        BY <1>0, <2>1, <3>0, <4>2, Readings DEF PollOK, ViewOK
      <4> QED
        BY <4>1, <4>2
    <3>3. PollSettles(p)'
      <4> SUFFICES ASSUME NEW i \in Job, Awaited(i)', ~Late(i)'
                   PROVE  /\ pc[p] = "query" => since[p] <= ended'[i]
                          /\ pc[p] \in {"answered", "stamped"} /\ started[p] > ended'[i] + Lookback =>
                                 \E v \in view[p] : v.job = i
                          /\ pc[p] \in {"reconciled", "publishing"} =>
                                 started[p] <= ended'[i] + Lookback
        BY <2>1 DEF PollSettles
      <4>1. CASE i = j
        BY <2>1, <3>0, <4>1
      <4>2. CASE i # j
        BY <2>1, <2>4, <3>0, <4>2 DEF PollOK, PollSettles
      <4> QED
        BY <4>1, <4>2
    <3> QED
      BY <3>1, <3>2, <3>3 DEF PollOK
  <2> QED
    BY <2>2, <2>5, <2>6 DEF RecordInv
\* A record that appears or goes is not an awaited one.
<1>5. ASSUME NEW j \in Job, Bind(j) \/ Erase(j) PROVE RecordInv'
  <2>1. /\ UNCHANGED <<now, ended, cursor, pc, since, started, view, at>>
        /\ \A i \in Job : i # j => record'[i] = record[i]
        /\ record'[j].at = None
        /\ record'[j].bound = "live" => ended[j] = None
    BY <1>0, <1>5 DEF Bind, Erase, NewRecord, Unbound, jobVars, pollVars, TypeOK
  <2>2. DatesOK'
    BY <1>0, <2>1 DEF DatesOK
  <2>3. \A i \in Job : Awaited(i)' => Awaited(i) /\ ended'[i] = ended[i] /\ record'[i] = record[i]
    BY <2>1 DEF Awaited
  <2>4. RecordsOK'
    BY <1>0, <2>1, <2>3, RecordsKept
  <2>5. \A i \in Job : Carried(i)
    BY <2>3 DEF Carried, Late
  <2>6. \A p \in Poller : PollOK(p)'
    BY <1>0, <2>1, <2>5, PollKept
  <2> QED
    BY <2>2, <2>4, <2>6 DEF RecordInv
<1> QED
  BY <1>1, <1>3, <1>4, <1>5 DEF Accounting

\* What the transaction that stores an answer does to a record.
LEMMA ReconcileRecord ==
    ASSUME TypeOK, NEW p \in Poller, Reconcile(p), NEW j \in Job
    PROVE  /\ record'[j].bound = record[j].bound
           /\ \/ record'[j] = record[j]
              \/ \E v \in view[p] : /\ v.job = j /\ record'[j].state = v.state
                                    /\ record'[j].at = at[p]
                                    /\ record[j].at = None \/ at[p] >= record[j].at
           /\ record[j].bound = "live" /\ (\E v \in view[p] : v.job = j) =>
                  record'[j].at # None /\ record'[j].at >= at[p]
<1> USE Constants
<1>0. /\ record[j] \in [bound: {"no", "live", "late"}, state: ExecutionState, at: Moment]
      /\ at[p] \in Nat /\ at[p] # None
  BY DEF TypeOK
<1>1. CASE record[j].bound # "no" /\ \E v \in view[p] : v.job = j
  <2> DEFINE v == CHOOSE u \in view[p] : u.job = j
  <2>1. v \in view[p] /\ v.job = j
    BY <1>1
  <2>2. record'[j] = Reconciled(j, v, at[p])
    BY <1>1 DEF Reconcile
  <2> HIDE DEF v
  <2>3. CASE record[j].at = None \/ at[p] >= record[j].at
    <3>1. record'[j] = [record[j] EXCEPT !.state = v.state, !.at = at[p]]
      BY <2>2, <2>3 DEF Reconciled
    <3>2. /\ record'[j].bound = record[j].bound /\ record'[j].state = v.state
          /\ record'[j].at = at[p]
      BY <1>0, <3>1
    <3> QED
      BY <1>0, <2>1, <2>3, <3>2
  <2>4. CASE ~(record[j].at = None \/ at[p] >= record[j].at)
    <3>1. record'[j] = record[j]
      BY <2>2, <2>4 DEF Reconciled
    <3>2. record[j].at \in Nat
      BY <1>0, <2>4 DEF Moment
    <3> QED
      BY <1>0, <2>4, <3>1, <3>2
  <2> QED
    BY <2>3, <2>4
<1>2. CASE ~(record[j].bound # "no" /\ \E v \in view[p] : v.job = j)
  BY <1>0, <1>2 DEF Reconcile
<1> QED
  BY <1>1, <1>2

\* Every step of a replica keeps RecordInv.
LEMMA RecordsReplicaStep ==
    ASSUME LateAnswersRevisited, IInv, RecordInv, NEW p \in Poller, PollStep(p)
    PROVE  RecordInv'
<1> USE Constants
<1>0. /\ TypeOK /\ AccountingOK /\ ClockOK /\ DatesOK /\ RecordsOK
      /\ \A q \in Poller : PollOK(q)
      /\ PollOK(p) /\ StampOK(p) /\ ViewOK(p) /\ PollSettles(p)
      /\ QueryTime \in Nat /\ MaxDelay + QueryTime <= Lookback
  BY DEF IInv, RecordInv, LateAnswersRevisited, PollOK
<1>n. /\ now \in Nat /\ started[p] \in Nat /\ since[p] \in Int /\ at[p] \in Nat
      /\ started[p] <= now /\ since[p] <= now
      /\ \A j \in Job : ended[j] \in Moment /\ record[j].at \in Moment
  BY <1>0, Readings DEF ClockOK
<1> DEFINE Same(q) == /\ pc'[q] = pc[q] /\ since'[q] = since[q] /\ started'[q] = started[q]
                      /\ view'[q] = view[q] /\ at'[q] = at[q]
           Others == \A q \in Poller : q # p => Same(q)
\* A step that stores nothing.
<1>1. ASSUME Others, UNCHANGED <<now, ended, record>>, PollOK(p)',
             cursor'.at = cursor.at \/ RecordsOK'
      PROVE  RecordInv'
  <2>1. DatesOK'
    BY <1>0, <1>1 DEF DatesOK
  <2>2. RecordsOK'
    BY <1>0, <1>1, Stays, RecordsKept
  <2>3. \A q \in Poller : PollOK(q)'
    BY <1>0, <1>1, Stays, PollKept
  <2> QED
    BY <2>1, <2>2, <2>3 DEF RecordInv
<1>2. CASE Claim(p)
  <2>1. Others /\ pc'[p] = "leased" /\ UNCHANGED <<now, ended, record>>
    BY <1>0, <1>2 DEF Claim, TypeOK, jobVars, catalogVars
  <2>2. cursor'.at = cursor.at
    BY <1>0, <1>2 DEF Claim, TypeOK, CursorRow
  <2> QED
    BY <1>1, <2>1, <2>2, RestOK
<1>3. CASE Execute(p)
  <2>1. /\ Others /\ pc'[p] = "query" /\ started'[p] = now /\ since'[p] = QueryStart
        /\ UNCHANGED <<now, ended, record, cursor>>
    BY <1>0, <1>3 DEF Execute, TypeOK, jobVars, catalogVars
  <2>2. StampOK(p)' /\ ViewOK(p)'
    BY <1>0, <1>n, <2>1 DEF StampOK, ViewOK
  <2>3. ASSUME NEW j \in Job, Awaited(j), ~Late(j) PROVE QueryStart <= ended[j]
    <3>1. ended[j] \in Nat
      BY <1>n, <2>3 DEF Awaited, Moment
    <3>2. CASE cursor.at = None
      BY <3>1, <3>2 DEF QueryStart
    <3>3. CASE cursor.at # None
      <4>1. cursor.at \in Nat
        BY <1>0, <3>3, Readings DEF Moment
      <4>2. ~(cursor.at > ended[j] + Lookback)
        BY <1>0, <2>3, <3>3 DEF RecordsOK
      <4> QED
        BY <3>1, <3>3, <4>1, <4>2 DEF QueryStart
    <3> QED
      BY <3>2, <3>3
  <2>4. PollSettles(p)'
    BY <2>1, <2>3 DEF PollSettles, Awaited, Late
  <2> QED
    BY <1>1, <2>1, <2>2, <2>4 DEF PollOK
<1>4. CASE Decline(p) \/ Fenced(p) \/ Crash(p)
  <2>1. Others /\ pc'[p] = "idle" /\ UNCHANGED <<now, ended, record, cursor>>
    BY <1>0, <1>4 DEF Decline, Fenced, Crash, EndPoll, TypeOK, jobVars, catalogVars
  <2> QED
    BY <1>1, <2>1, RestOK
<1>5. CASE Query(p)
  <2>1. /\ Others /\ pc[p] = "query" /\ pc'[p] = "answered" /\ started'[p] = started[p]
        /\ view'[p] = Answer(since[p])
        /\ UNCHANGED <<now, ended, record, cursor>>
    BY <1>0, <1>5 DEF Query, TypeOK, jobVars, catalogVars
  <2>2. StampOK(p)'
    BY <1>0, <2>1 DEF StampOK
  \* Accounting that still shows the job running is at most MaxDelay late.
  <2>3. ASSUME NEW v \in Answer(since[p]), v.state \notin TerminalStates, ended[v.job] # None
        PROVE  started[p] <= ended[v.job] + MaxDelay
    <3>1. v.job \in Job /\ v.state = State(accounting[v.job].state)
      BY DEF Answer
    <3>2. accounting[v.job].ended = None
      BY <1>0, <2>3, <3>1 DEF AccountingOK
    <3>3. now <= ended[v.job] + MaxDelay
      BY <1>0, <2>3, <3>1, <3>2 DEF AccountingOK
    <3>4. ended[v.job] \in Nat
      BY <1>n, <2>3, <3>1 DEF Moment
    <3> QED
      BY <1>n, <3>3, <3>4
  <2>4. ViewOK(p)'
    BY <2>1, <2>3 DEF ViewOK
  <2>5. ASSUME NEW j \in Job, Awaited(j), ~Late(j)
        PROVE  \E v \in Answer(since[p]) : v.job = j
    <3>1. since[p] <= ended[j] /\ ended[j] # None
      BY <1>0, <2>1, <2>5 DEF PollSettles, Awaited
    <3>2. accounting[j].ended = None \/ accounting[j].ended = ended[j]
      BY <1>0 DEF AccountingOK
    <3>3. ended[j] \in Nat
      BY <1>n, <3>1 DEF Moment
    <3>4. accounting[j].ended = None \/ accounting[j].ended >= since[p]
      BY <1>n, <3>1, <3>2, <3>3
    <3> DEFINE v == [job |-> j, state |-> State(accounting[j].state),
                     started |-> accounting[j].started, ended |-> accounting[j].ended,
                     size |-> accounting[j].size]
    <3>5. v \in Answer(since[p])
      BY <3>4 DEF Answer
    <3> QED
      BY <3>5
  <2>6. PollSettles(p)'
    BY <2>1, <2>5 DEF PollSettles, Awaited, Late
  <2> QED
    BY <1>1, <2>1, <2>2, <2>4, <2>6 DEF PollOK
<1>6. CASE Stamp(p)
  <2>1. /\ Others /\ pc[p] = "answered" /\ pc'[p] = "stamped" /\ at'[p] = now
        /\ started'[p] = started[p] /\ view'[p] = view[p]
        /\ UNCHANGED <<now, ended, record, cursor>>
    BY <1>0, <1>6 DEF Stamp, TypeOK, jobVars, catalogVars
  <2>2. StampOK(p)'
    BY <1>0, <1>n, <2>1 DEF StampOK
  <2>3. ViewOK(p)'
    BY <1>0, <2>1 DEF ViewOK
  <2>4. PollSettles(p)'
    BY <1>0, <2>1 DEF PollSettles, Awaited, Late
  <2> QED
    BY <1>1, <2>1, <2>2, <2>3, <2>4 DEF PollOK
<1>7. CASE Reconcile(p)
  <2>1. /\ Others /\ pc[p] = "stamped" /\ pc'[p] = "reconciled" /\ started'[p] = started[p]
        /\ UNCHANGED <<now, ended, cursor>>
    BY <1>0, <1>7 DEF Reconcile, TypeOK, jobVars
  <2>2. started[p] <= at[p] /\ at[p] <= now /\ at[p] <= started[p] + QueryTime
    BY <1>0, <2>1 DEF StampOK
  <2>3. DatesOK'
    BY <1>0, <1>7, <2>1, <2>2, ReconcileRecord DEF DatesOK
  <2>4. ASSUME NEW j \in Job, Awaited(j)'
        PROVE  /\ Awaited(j) /\ ended'[j] = ended[j] /\ ended[j] \in Nat
               /\ Late(j) => Late(j)'
    <3>1. Awaited(j) /\ ended'[j] = ended[j]
      BY <1>0, <1>7, <2>1, <2>4, ReconcileRecord DEF Awaited
    <3>2. ended[j] \in Nat
      BY <1>n, <3>1 DEF Awaited, Moment
    <3>3. ASSUME Late(j) PROVE Late(j)'
      <4>1. record[j].at # None /\ record[j].at > ended[j] + Lookback /\ record[j].at \in Nat
        BY <1>n, <3>3 DEF Late, Moment
      <4>2. record'[j].at = record[j].at \/ (record'[j].at = at[p] /\ at[p] >= record[j].at)
        BY <1>0, <1>7, <4>1, ReconcileRecord
      <4> QED
        BY <1>n, <3>1, <3>2, <4>1, <4>2 DEF Late
    <3> QED
      BY <3>1, <3>2, <3>3
  <2>5. \A j \in Job : Carried(j)
    BY <2>4 DEF Carried
  \* A running state is never stored under a late time.
  <2>6. ASSUME NEW j \in Job, Awaited(j)', Late(j)' PROVE record'[j].state \in TerminalStates
    <3>0. Awaited(j) /\ ended'[j] = ended[j] /\ ended[j] \in Nat /\ ended[j] # None
      BY <2>4, <2>6 DEF Awaited
    <3>1. CASE record'[j] = record[j]
      BY <1>0, <2>6, <3>0, <3>1 DEF RecordsOK, Late
    <3>2. CASE record'[j] # record[j]
      <4>1. PICK v \in view[p] : /\ v.job = j /\ record'[j].state = v.state
                                 /\ record'[j].at = at[p]
        BY <1>0, <1>7, <3>2, ReconcileRecord
      <4>2. at[p] > ended[j] + Lookback
        BY <2>6, <3>0, <4>1 DEF Late
      <4>3. ~(started[p] <= ended[j] + MaxDelay)
        BY <1>0, <1>n, <2>2, <3>0, <4>2
      <4> QED
        BY <1>0, <2>1, <3>0, <4>1, <4>3 DEF ViewOK
    <3> QED
      BY <3>1, <3>2
  <2>7. RecordsOK'
    BY <1>0, <2>1, <2>4, <2>6 DEF RecordsOK
  <2>8. ASSUME NEW j \in Job, Awaited(j)', ~Late(j)' PROVE started[p] <= ended[j] + Lookback
    <3>1. Awaited(j) /\ ~Late(j) /\ ended'[j] = ended[j] /\ ended[j] \in Nat
      BY <2>4, <2>8
    <3>2. SUFFICES ASSUME started[p] > ended[j] + Lookback PROVE FALSE
      BY <1>n, <3>1
    <3>3. \E v \in view[p] : v.job = j
      BY <1>0, <2>1, <3>1, <3>2 DEF PollSettles
    <3>4. record'[j].at # None /\ record'[j].at >= at[p]
      BY <1>0, <1>7, <3>1, <3>3, ReconcileRecord DEF Awaited
    <3>5. record'[j].at \in Nat
      BY <1>n, <3>4, <1>0, <1>7, ReconcileRecord DEF Moment
    <3> QED
      BY <1>n, <2>2, <2>8, <3>1, <3>2, <3>4, <3>5 DEF Late
  <2>9. PollOK(p)'
    BY <2>1, <2>4, <2>8 DEF PollOK, StampOK, ViewOK, PollSettles
  <2>10. \A q \in Poller : PollOK(q)'
    BY <1>0, <2>1, <2>5, <2>9, PollKept
  <2> QED
    BY <2>3, <2>7, <2>10 DEF RecordInv
<1>8. CASE PublishRead(p)
  <2>1. /\ Others /\ pc[p] = "reconciled" /\ pc'[p] = "publishing" /\ started'[p] = started[p]
        /\ UNCHANGED <<now, ended, record, cursor>>
    BY <1>0, <1>8 DEF PublishRead, ReadBack, TypeOK, jobVars, catalogVars
  <2>2. PollOK(p)'
    BY <1>0, <2>1 DEF PollOK, StampOK, ViewOK, PollSettles, Awaited, Late
  <2> QED
    BY <1>1, <2>1, <2>2
<1>9. CASE QueryFail(p) \/ FailRead(p)
  <2>1. /\ Others /\ pc'[p] \in {"failing", "recording"} /\ UNCHANGED <<now, ended, record, cursor>>
    BY <1>0, <1>9 DEF QueryFail, FailRead, ReadBack, TypeOK, jobVars, catalogVars
  <2> QED
    BY <1>1, <2>1, RestOK
<1>10. ASSUME NEW d \in 0..Jitter, PublishWrite(p, d) PROVE RecordInv'
  <2>1. /\ pc[p] = "publishing" /\ Others /\ pc'[p] = "idle" /\ UNCHANGED <<now, ended, record>>
        /\ cursor' = Published(p, d)
    BY <1>0, <1>10 DEF PublishWrite, EndPoll, TypeOK, jobVars, catalogVars
  <2>2. cursor'.at = started[p]
    BY <1>0, <2>1 DEF Published, Released, TypeOK, CursorRow
  <2>3. ASSUME NEW j \in Job, Awaited(j), ~Late(j) PROVE ~(started[p] > ended[j] + Lookback)
    <3>1. ended[j] \in Nat
      BY <1>n, <2>3 DEF Awaited, Moment
    <3>2. started[p] <= ended[j] + Lookback
      BY <1>0, <2>1, <2>3 DEF PollSettles
    <3> QED
      BY <1>n, <3>1, <3>2
  <2>4. RecordsOK'
    BY <1>0, <2>1, <2>2, <2>3 DEF RecordsOK, Awaited, Late
  <2> QED
    BY <1>1, <2>1, <2>4, RestOK
<1>11. ASSUME NEW d \in 0..Jitter, FailWrite(p, d) PROVE RecordInv'
  <2>1. /\ Others /\ pc'[p] = "idle" /\ UNCHANGED <<now, ended, record>>
        /\ cursor' = Failed(p, d)
    BY <1>0, <1>11 DEF FailWrite, EndPoll, TypeOK, jobVars, catalogVars
  <2>2. cursor'.at = cursor.at
    BY <1>0, <2>1 DEF Failed, Released, TypeOK, CursorRow
  <2> QED
    BY <1>1, <2>1, <2>2, RestOK
<1> QED
  BY <1>2, <1>3, <1>4, <1>5, <1>6, <1>7, <1>8, <1>9, <1>10, <1>11 DEF PollStep

\* A step that changes nothing keeps RecordInv.
LEMMA RecordsStutter == ASSUME RecordInv, UNCHANGED vars PROVE RecordInv'
<1>1. UNCHANGED <<now, ended, record, cursor, pc, since, started, view, at>>
  BY DEF vars, jobVars, catalogVars, pollVars
<1>2. DatesOK'
  BY <1>1 DEF RecordInv, DatesOK
<1>3. RecordsOK'
  BY <1>1, Stays, RecordsKept DEF RecordInv
<1>4. \A q \in Poller : PollOK(q)'
  BY <1>1, Stays, PollKept DEF RecordInv
<1> QED
  BY <1>2, <1>3, <1>4 DEF RecordInv

\* An attempt bound before its job ended is terminal once no later query reaches back
\* to that end, for any replicas, jobs and durations, as long as the lookback covers
\* accounting's delay and the time a query may take: a slow replica's answer replaces
\* the terminal state only while a later poll still revisits the job.
THEOREM RecordsSettle == ASSUME LateAnswersRevisited PROVE Spec => []Settled
<1>1. IInv /\ [Next]_vars => IInv'
  BY WorldStep, ReplicaStep, StutterStep DEF Next
<1>2. Init => RecordInv
  <2> SUFFICES ASSUME Init PROVE RecordInv
    OBVIOUS
  <2>1. DatesOK /\ RecordsOK
    BY DEF Init, DatesOK, RecordsOK, Awaited, Unbound, NewRecord
  <2>2. \A p \in Poller : PollOK(p)
    BY DEF Init, PollOK, StampOK, ViewOK, PollSettles
  <2> QED
    BY <2>1, <2>2 DEF RecordInv
<1>3. IInv /\ RecordInv /\ [Next]_vars => RecordInv'
  BY RecordsWorldStep, RecordsReplicaStep, RecordsStutter DEF Next
<1>4. IInv /\ RecordInv => Settled
  <2> SUFFICES ASSUME IInv, RecordInv, NEW j \in Job, record[j].bound = "live",
                      cursor.at # None, ended[j] # None, ended[j] < cursor.at - Lookback
               PROVE  record[j].state \in TerminalStates
    BY DEF Settled
  <2>1. cursor.at \in Nat /\ ended[j] \in Nat
    BY Readings DEF IInv, Moment
  <2>2. cursor.at > ended[j] + Lookback
    BY <2>1, Constants
  <2> QED
    BY <2>2 DEF RecordInv, RecordsOK, Awaited
<1> QED
  BY InvInit, <1>1, <1>2, <1>3, <1>4, PTL DEF Spec

=============================================================================
