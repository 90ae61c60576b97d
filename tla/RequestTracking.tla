--------------------------- MODULE RequestTracking ---------------------------
(***************************************************************************)
(* Request tracking of the MPI interceptor (ranklens_mpi.cpp): how the     *)
(* wrappers of the nonblocking and the persistent calls remember a request *)
(* under its MPI handle, and what they find under that handle when the     *)
(* request completes or is freed.                                          *)
(*                                                                         *)
(* A wrapper first calls MPI and then, in a step of its own, updates the   *)
(* table under pending_mutex; in between MPI may give the handle of a      *)
(* request that is gone to another thread.  Requests that are complete at  *)
(* once may share one handle (the FIFO under a handle exists for them).    *)
(* The variables request and stale are not in the code: they say whose     *)
(* handle it really is, and which handles the table may be wrong about.    *)
(***************************************************************************)
EXTENDS Integers, Sequences, FiniteSets

CONSTANTS
    Thread,       \* application threads under MPI_THREAD_MULTIPLE
    Handle,       \* values of MPI_Request, MPI_REQUEST_NULL left out
    Shared,       \* handles MPI uses for several requests at a time
    Limit,        \* request_tracking_limit
    MaxRequests,  \* bound: requests the program creates
    MaxFailures   \* bound: requests that complete with an error

ASSUME TrackingAssumption ==
    /\ Shared \subseteq Handle
    /\ Limit \in Nat \ {0} /\ MaxRequests \in Nat /\ MaxFailures \in Nat

VARIABLES
    request,     \* the requests of the program, in the order of their creation
    pending,     \* records of the active requests of a handle, first in first out
    persistent,  \* id of the persistent request of a handle, 0 if there is none
    groups,      \* ids whose MPI_Group is allocated
    nextId,      \* next_request_id
    call,        \* what each thread has still to do to the table, and for which requests
    stale,       \* handles that were given out before the table had let go of them
    failures,    \* requests that completed with an error
    finalized    \* MPI_Finalize has returned

table == <<request, pending, persistent, groups, nextId, call, stale, failures, finalized>>

Idle == [op |-> "idle", todo |-> {}]

TableInit ==
    /\ request = <<>>
    /\ pending = [h \in Handle |-> <<>>]
    /\ persistent = [h \in Handle |-> 0]
    /\ groups = {} /\ nextId = 0
    /\ call = [t \in Thread |-> Idle]
    /\ stale = {} /\ failures = 0 /\ finalized = FALSE

-----------------------------------------------------------------------------
Known == DOMAIN request
Live(r) == request[r].state # "gone"
Busy(r) == \E t \in Thread : r \in call[t].todo

\* Someone is still on handle h: a live request, or a wrapper yet to update its records.
InUse(h) == \E r \in Known : request[r].handle = h /\ (Live(r) \/ Busy(r))

Recorded(h) == pending[h] # <<>> \/ persistent[h] # 0

Entries == UNION {{<<h, i>> : i \in DOMAIN pending[h]} : h \in Handle}
PendingSize == Cardinality(Entries)
PersistentSize == Cardinality({h \in Handle : persistent[h] # 0})

-----------------------------------------------------------------------------
(* What MPI does (the PMPI call of a wrapper). *)

\* MPI gives out a handle nobody holds, or a shared one.
Fresh(h) == h \in Shared \/ \A r \in Known : Live(r) => request[r].handle # h

\* MPI_Isend, MPI_Irecv, and the *_init calls that create a persistent request.
Create(t, h, isPersistent) ==
    LET r == Len(request) + 1
    IN  /\ ~finalized
        /\ call[t] = Idle
        /\ Len(request) < MaxRequests
        /\ Fresh(h) /\ (isPersistent => h \notin Shared)
        /\ request' = Append(request,
               [handle |-> h, persistent |-> isPersistent, id |-> 0, tracked |-> FALSE,
                state |-> IF isPersistent THEN "inactive" ELSE "active"])
        /\ call' = [call EXCEPT ![t] = [op |-> "remember", todo |-> {r}]]
        /\ stale' = IF InUse(h) \/ Recorded(h) THEN stale \cup {h} ELSE stale \ {h}
        /\ UNCHANGED <<pending, persistent, groups, nextId, failures, finalized>>

\* MPI_Start and MPI_Startall of the inactive requests R.
Start(t, R) ==
    /\ ~finalized
    /\ call[t] = Idle
    /\ \A r \in R : request[r].state = "inactive" /\ ~Busy(r)
    /\ request' = [r \in Known |-> IF r \in R THEN [request[r] EXCEPT !.state = "active", !.tracked = FALSE]
                                   ELSE request[r]]
    /\ call' = [call EXCEPT ![t] = [op |-> "start", todo |-> R]]
    /\ UNCHANGED <<pending, persistent, groups, nextId, stale, failures, finalized>>

\* Mutant: the flag of the Test family is not looked at.
CompletionUnflagged(t, R, F) ==
    /\ ~finalized
    /\ call[t] = Idle
    /\ \A r \in R : Live(r) /\ ~Busy(r)
    /\ F = {}
    /\ call' = [call EXCEPT ![t] = [op |-> "complete", todo |-> R]]
    /\ UNCHANGED <<request, pending, persistent, groups, nextId, stale, failures, finalized>>

\* The calls of the Wait and Test families that complete R; the requests F among them
\* complete with an error, for which the wrappers update nothing.  An inactive request
\* counts as complete.
Completion(t, R, F) ==
    /\ ~finalized
    /\ call[t] = Idle
    /\ \A r \in R : Live(r) /\ ~Busy(r)
    /\ F \subseteq {r \in R : request[r].state = "active"}
    /\ failures' = failures + Cardinality(F)
    /\ failures' <= MaxFailures
    /\ request' = [r \in Known |->
           IF r \notin R THEN request[r]
           ELSE [request[r] EXCEPT !.state = IF @ = "active" /\ ~request[r].persistent
                                             THEN "gone" ELSE "inactive",
                                   !.tracked = @ /\ request[r].state = "active" /\ r \notin F]]
    /\ stale' = stale \cup {request[r].handle : r \in {q \in F : request[q].tracked}}
    /\ call' = [call EXCEPT ![t] = IF R \ F = {} THEN Idle
                                   ELSE [op |-> "complete", todo |-> R \ F]]
    /\ UNCHANGED <<pending, persistent, groups, nextId, finalized>>

\* MPI_Request_free.
RequestFree(t, r) ==
    /\ ~finalized
    /\ call[t] = Idle
    /\ Live(r) /\ ~Busy(r)
    /\ request' = [request EXCEPT ![r].state = "gone"]
    /\ call' = [call EXCEPT ![t] = [op |-> "forget", todo |-> {r}]]
    /\ UNCHANGED <<pending, persistent, groups, nextId, stale, failures, finalized>>

-----------------------------------------------------------------------------
(* What the wrapper does next, under pending_mutex, for one request. *)

Return(t, r) ==
    LET rest == call[t].todo \ {r}
    IN  call' = [call EXCEPT ![t] = IF rest = {} THEN Idle ELSE [op |-> call[t].op, todo |-> rest]]

\* Mutant: a handle's earlier persistent record is replaced and its group kept.
RememberOver(t, r) ==
    LET h == request[r].handle
        isPersistent == request[r].persistent
        full == (IF isPersistent THEN PersistentSize ELSE PendingSize) >= Limit
    IN  /\ call[t].op = "remember" /\ r \in call[t].todo
        /\ IF full THEN UNCHANGED <<request, pending, persistent, groups, nextId>>
           ELSE /\ nextId' = nextId + 1
                /\ groups' = groups \cup {nextId'}
                /\ request' = [request EXCEPT ![r].id = nextId', ![r].tracked = ~isPersistent]
                /\ IF isPersistent THEN /\ persistent' = [persistent EXCEPT ![h] = nextId']
                                        /\ UNCHANGED pending
                   ELSE /\ pending' = [pending EXCEPT ![h] =
                                           Append(@, [id |-> nextId', persistent |-> FALSE])]
                        /\ UNCHANGED persistent
        /\ Return(t, r)
        /\ UNCHANGED <<stale, failures, finalized>>

\* remember: over the limit the request is counted as an overflow and has no id.
Remember(t, r) ==
    LET h == request[r].handle
        isPersistent == request[r].persistent
        full == (IF isPersistent THEN PersistentSize ELSE PendingSize) >= Limit
    IN  /\ call[t].op = "remember" /\ r \in call[t].todo
        /\ IF full THEN UNCHANGED <<request, pending, persistent, groups, nextId>>
           ELSE /\ nextId' = nextId + 1
                /\ request' = [request EXCEPT ![r].id = nextId', ![r].tracked = ~isPersistent]
                /\ IF isPersistent
                   THEN /\ groups' = (groups \ {persistent[h]}) \cup {nextId'}
                        /\ persistent' = [persistent EXCEPT ![h] = nextId']
                        /\ UNCHANGED pending
                   ELSE /\ groups' = groups \cup {nextId'}
                        /\ pending' = [pending EXCEPT ![h] =
                                           Append(@, [id |-> nextId', persistent |-> FALSE])]
                        /\ UNCHANGED persistent
        /\ Return(t, r)
        /\ UNCHANGED <<stale, failures, finalized>>

\* Mutant: a restarted request is not counted against the limit.
StartUnbounded(t, r) ==
    LET h == request[r].handle
    IN  /\ call[t].op = "start" /\ r \in call[t].todo
        /\ IF persistent[h] = 0 THEN UNCHANGED <<pending, request>>
           ELSE /\ pending' = [pending EXCEPT ![h] =
                                   Append(@, [id |-> persistent[h], persistent |-> TRUE])]
                /\ request' = [request EXCEPT ![r].tracked = TRUE]
        /\ Return(t, r)
        /\ UNCHANGED <<persistent, groups, nextId, stale, failures, finalized>>

\* start_persistent.
StartPersistent(t, r) ==
    LET h == request[r].handle
    IN  /\ call[t].op = "start" /\ r \in call[t].todo
        /\ IF persistent[h] = 0 \/ PendingSize >= Limit THEN UNCHANGED <<pending, request>>
           ELSE /\ pending' = [pending EXCEPT ![h] =
                                   Append(@, [id |-> persistent[h], persistent |-> TRUE])]
                /\ request' = [request EXCEPT ![r].tracked = TRUE]
        /\ Return(t, r)
        /\ UNCHANGED <<persistent, groups, nextId, stale, failures, finalized>>

\* complete_request: the first record of the handle is reported and dropped.
CompleteRequest(t, r) ==
    LET h == request[r].handle
    IN  /\ call[t].op = "complete" /\ r \in call[t].todo
        /\ IF pending[h] = <<>> THEN UNCHANGED <<pending, groups>>
           ELSE /\ pending' = [pending EXCEPT ![h] = Tail(@)]
                /\ groups' = IF Head(pending[h]).persistent THEN groups
                             ELSE groups \ {Head(pending[h]).id}
        /\ Return(t, r)
        /\ UNCHANGED <<request, persistent, nextId, stale, failures, finalized>>

\* Mutant: the records of the active request stay.
ForgetPersistent(t, r) ==
    LET h == request[r].handle
    IN  /\ call[t].op = "forget" /\ r \in call[t].todo
        /\ persistent' = [persistent EXCEPT ![h] = 0]
        /\ groups' = groups \ {persistent[h]}
        /\ Return(t, r)
        /\ UNCHANGED <<request, pending, nextId, stale, failures, finalized>>

\* forget_request: every record of the handle is dropped.
ForgetRequest(t, r) ==
    LET h == request[r].handle
        ownIds == {pending[h][i].id : i \in {j \in DOMAIN pending[h] : ~pending[h][j].persistent}}
    IN  /\ call[t].op = "forget" /\ r \in call[t].todo
        /\ pending' = [pending EXCEPT ![h] = <<>>]
        /\ persistent' = [persistent EXCEPT ![h] = 0]
        /\ groups' = groups \ (ownIds \cup {persistent[h]})
        /\ Return(t, r)
        /\ UNCHANGED <<request, nextId, stale, failures, finalized>>

\* MPI_Finalize, called when no other thread is in MPI and nothing is active.
MPIFinalize ==
    /\ ~finalized
    /\ \A t \in Thread : call[t] = Idle
    /\ \A r \in Known : request[r].state # "active"
    /\ pending' = [h \in Handle |-> <<>>]
    /\ persistent' = [h \in Handle |-> 0]
    /\ groups' = groups \ ({pending[e[1]][e[2]].id : e \in {d \in Entries : ~pending[d[1]][d[2]].persistent}}
                           \cup {persistent[h] : h \in Handle})
    /\ finalized' = TRUE
    /\ UNCHANGED <<request, nextId, call, stale, failures>>

-----------------------------------------------------------------------------
CallMPI(t) ==
    \/ \E h \in Handle, isPersistent \in BOOLEAN : Create(t, h, isPersistent)
    \/ \E R \in (SUBSET Known) \ {{}} : Start(t, R)
    \/ \E R \in (SUBSET Known) \ {{}} : \E F \in SUBSET R : Completion(t, R, F)
    \/ \E r \in Known : RequestFree(t, r)

UpdateTable(t) ==
    \E r \in call[t].todo :
        \/ Remember(t, r) \/ StartPersistent(t, r) \/ CompleteRequest(t, r) \/ ForgetRequest(t, r)

TableNext == MPIFinalize \/ \E t \in Thread : CallMPI(t) \/ UpdateTable(t)

TableSpec == TableInit /\ [][TableNext]_table

-----------------------------------------------------------------------------
RequestType ==
    [handle: Handle, persistent: BOOLEAN, id: Nat, tracked: BOOLEAN,
     state: {"active", "inactive", "gone"}]

\* The shapes of the state, and "the bounded nonblocking-request table"
\* (docs/telemetry-schema.md:129): neither map outgrows request_tracking_limit, although
\* every thread fills it.
TableTypeOK ==
    /\ request \in Seq(RequestType) /\ Len(request) <= MaxRequests
    /\ pending \in [Handle -> Seq([id: Nat, persistent: BOOLEAN])]
    /\ persistent \in [Handle -> Nat]
    /\ groups \subseteq 1 .. nextId /\ nextId \in Nat
    /\ call \in [Thread -> [op: {"idle", "remember", "start", "complete", "forget"},
                            todo: SUBSET Known]]
    /\ \A t \in Thread : call[t].op = "idle" <=> call[t].todo = {}
    /\ PendingSize <= Limit /\ PersistentSize <= Limit
    /\ stale \subseteq Handle /\ failures \in Nat /\ finalized \in BOOLEAN

\* complete_request takes the record of the request that completed, and none if that
\* request is not in the table.
TakesOwnRecord(t, r) ==
    LET h == request[r].handle
    IN  IF request[r].tracked THEN pending[h] # <<>> /\ Head(pending[h]).id = request[r].id
                              ELSE pending[h] = <<>>
Completes(t, r) ==
    call[t].op = "complete" /\ r \in call[t].todo /\ r \notin call'[t].todo

\* Completions are attributed to their initiation on every handle that MPI gave out
\* only after the table had let go of it, whatever the other threads do.
Attributes ==
    \A t \in Thread : \A r \in call[t].todo :
        Completes(t, r) /\ request[r].handle \notin stale => TakesOwnRecord(t, r)
Attribution == [][Attributes]_table

\* Nothing is left behind: under a handle there are no more records than requests that
\* are active there or just being completed, but for the ones that failed; and no
\* persistent record outlives its request.  Races may lose records, never keep them.
NoOrphans ==
    \A h \in Handle :
        LET here == {r \in Known : request[r].handle = h}
        IN  /\ Len(pending[h]) <= failures +
                   Cardinality({r \in here : request[r].state = "active" \/ Busy(r)})
            /\ persistent[h] # 0 =>
                   \E r \in here : request[r].persistent /\ (Live(r) \/ Busy(r))

\* Every MPI_Group the table holds is freed once: an allocated group belongs to a record,
\* and a record that would translate ranks with a freed one sits under a stale handle.
GroupsOwned ==
    /\ groups \subseteq {pending[e[1]][e[2]].id : e \in Entries} \cup {persistent[h] : h \in Handle}
    /\ \A e \in Entries : e[1] \notin stale => pending[e[1]][e[2]].id \in groups

=============================================================================
