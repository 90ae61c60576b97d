---------------------------- MODULE IncidentAlerts ----------------------------
(***************************************************************************)
(* Integrity incidents of one protected object (integrity.py): the audit   *)
(* opens and reopens them, operators resolve them, each change enqueues a  *)
(* notification in the same transaction, and leased workers deliver the    *)
(* notifications to a webhook (notifications.py).                          *)
(*                                                                         *)
(* The audit and a resolution change an incident under the object's lock,  *)
(* but a resolution reads the incident before it waits for that lock and   *)
(* goes on with what it read.  The object and the references to it change  *)
(* at any time, so whom an audit finds hit, and whether a resolution is    *)
(* granted, is a choice here.  A worker sends outside every transaction,   *)
(* and its last transaction reads the row without locking it, so that      *)
(* another worker may claim the row between its check and its write.       *)
(***************************************************************************)
EXTENDS Integers

CONSTANTS
    Scope,          \* tenants and clusters that reference the object
    Damage,         \* what may happen to the object: categories of incidents
    Operator,       \* concurrent calls of resolve
    Worker,         \* notification workers
    None,           \* null
    MaxDetections,  \* bound: detections of one incident
    MaxAttempts,    \* 8 in the code: tries before "failed"
    MaxRedrives,    \* bound: redrives
    MaxFaults       \* bound: worker crashes and leases that expire early

ASSUME AlertsAssumption ==
    /\ None \notin Worker
    /\ Damage \subseteq {"corrupt", "missing"}
    /\ MaxDetections \in Nat /\ MaxAttempts \in Nat /\ MaxRedrives \in Nat /\ MaxFaults \in Nat

Incident == Scope \X Damage

\* Notifications are unique by these (uq_integrity_notification_event).
Event == Incident \X (1 .. MaxDetections) \X {"detected", "resolved"}

VARIABLES
    incident,    \* IntegrityIncident rows
    resolving,   \* what each call of resolve has read
    note,        \* IntegrityNotification rows
    received,    \* events the webhook has acknowledged
    pc,          \* progress of each worker
    event,       \* the notification each worker holds a lease on
    number,      \* and the lease's generation
    redrives,    \* redrives so far
    faults       \* faults so far

workerVars == <<pc, event, number>>
vars == <<incident, resolving, note, received, workerVars, redrives, faults>>

NoIncident == [state |-> "none", occurrences |-> 0]
NoRow == [state |-> "none", attempts |-> 0, owner |-> None, number |-> 0]
NewRow == [NoRow EXCEPT !.state = "pending"]

Init ==
    /\ incident = [i \in Incident |-> NoIncident]
    /\ resolving = [o \in Operator |-> None]
    /\ note = [e \in Event |-> NoRow]
    /\ received = {}
    /\ pc = [w \in Worker |-> "idle"]
    /\ event = [w \in Worker |-> None]
    /\ number = [w \in Worker |-> 0]
    /\ redrives = 0 /\ faults = 0

-----------------------------------------------------------------------------
(* record_integrity_incidents, in the audit's transaction. *)

Detected(i) == <<i, incident[i].occurrences + 1, "detected">>

\* Mutant: a detection of an incident that was resolved counts as the same occurrence.
ReopenedSame(r) ==
    [state |-> "open", occurrences |-> IF r.state = "resolved" THEN r.occurrences
                                                               ELSE r.occurrences + 1]

Reopened(r) == [state |-> "open", occurrences |-> r.occurrences + 1]

\* One incident for each scope; the transaction fails if one notification is there already.
Audit(scopes, category) ==
    LET hit == scopes \X {category}
    IN  /\ \A i \in hit : incident[i].occurrences < MaxDetections
        /\ \A i \in hit : note[Detected(i)].state = "none"
        /\ incident' = [i \in Incident |-> IF i \in hit THEN Reopened(incident[i])
                                                        ELSE incident[i]]
        /\ note' = [e \in Event |->
                       IF \E i \in hit : e = <<i, Reopened(incident[i]).occurrences, "detected">>
                       THEN NewRow ELSE note[e]]
        /\ UNCHANGED <<resolving, received, workerVars, redrives, faults>>

-----------------------------------------------------------------------------
(* IntegrityIncidentService.resolve. *)

\* The incident is read; a resolved one ends the call.
ResolveRead(o, i) ==
    /\ resolving[o] = None
    /\ incident[i].state = "open"
    /\ resolving' = [resolving EXCEPT ![o] = [incident |-> i, row |-> incident[i]]]
    /\ UNCHANGED <<incident, note, received, workerVars, redrives, faults>>

\* The columns an update writes are the ones that changed.  Mutant: all of them.
WriteBackRow(now, read) == [state |-> "resolved", occurrences |-> read.occurrences]
WriteBack(now, read) == [state |-> "resolved", occurrences |-> now.occurrences]

\* Under the object's lock: the scope has no reference left, or the object is intact again.
\* The notification carries the occurrence that was read; the transaction fails when
\* there is one already.
ResolveCommit(o) ==
    LET i == resolving[o].incident
        read == resolving[o].row
        e == <<i, read.occurrences, "resolved">>
    IN  /\ resolving[o] # None
        /\ note[e].state = "none"
        /\ incident' = [incident EXCEPT ![i] = WriteBack(@, read)]
        /\ note' = [note EXCEPT ![e] = NewRow]
        /\ resolving' = [resolving EXCEPT ![o] = None]
        /\ UNCHANGED <<received, workerVars, redrives, faults>>

\* Refused, rolled back, or the process died.
ResolveEnd(o) ==
    /\ resolving[o] # None
    /\ resolving' = [resolving EXCEPT ![o] = None]
    /\ UNCHANGED <<incident, note, received, workerVars, redrives, faults>>

-----------------------------------------------------------------------------
(* IntegrityNotificationWorker. *)

Owns(w) ==
    LET r == note[event[w]]
    IN  r.state = "processing" /\ r.owner = w /\ r.number = number[w]

LeaseInUse(e) == \E w \in Worker : pc[w] # "idle" /\ event[w] = e /\ Owns(w)

Leased(r, w) == [state |-> "processing", attempts |-> r.attempts + 1, owner |-> w,
                 number |-> r.number + 1]

\* Mutant: a lease that expired is never taken over.
ClaimPending(w, e) ==
    /\ pc[w] = "idle"
    /\ note[e].state = "pending"
    /\ note' = [note EXCEPT ![e] = Leased(@, w)]
    /\ number' = [number EXCEPT ![w] = note[e].number + 1]
    /\ event' = [event EXCEPT ![w] = e]
    /\ pc' = [pc EXCEPT ![w] = "claimed"]
    /\ UNCHANGED <<incident, resolving, received, redrives, faults>>

\* A due notification, or one whose lease expired; while its holder is alive that is a fault.
Claim(w, e) ==
    /\ pc[w] = "idle"
    /\ note[e].state \in {"pending", "processing"}
    /\ IF LeaseInUse(e) THEN faults < MaxFaults /\ faults' = faults + 1 ELSE faults' = faults
    /\ note' = [note EXCEPT ![e] = Leased(@, w)]
    /\ number' = [number EXCEPT ![w] = note[e].number + 1]
    /\ event' = [event EXCEPT ![w] = e]
    /\ pc' = [pc EXCEPT ![w] = "claimed"]
    /\ UNCHANGED <<incident, resolving, received, redrives>>

EndWork(w) ==
    /\ pc' = [pc EXCEPT ![w] = "idle"]
    /\ event' = [event EXCEPT ![w] = None]
    /\ number' = [number EXCEPT ![w] = 0]

\* execute, up to the answer: the lease was lost; or the webhook acknowledges the event; or
\* the worker sees an error, because the request, or only its response, was lost or refused.
Send(w) ==
    /\ pc[w] = "claimed"
    /\ \/ /\ ~Owns(w)
          /\ EndWork(w)
          /\ UNCHANGED received
       \/ /\ Owns(w)
          /\ \/ received' = received \cup {event[w]} /\ pc' = [pc EXCEPT ![w] = "sent"]
             \/ received' = received /\ pc' = [pc EXCEPT ![w] = "refused"]
          /\ UNCHANGED <<event, number>>
    /\ UNCHANGED <<incident, resolving, note, redrives, faults>>

\* The state the last transaction is about to write.
Outcome(w) == IF pc[w] = "sent" THEN "delivered"
              ELSE IF note[event[w]].attempts >= MaxAttempts THEN "failed" ELSE "pending"

\* The last transaction, or _fail: the row is read ...
Finish(w) ==
    /\ pc[w] \in {"sent", "refused"}
    /\ IF Owns(w) THEN pc' = [pc EXCEPT ![w] = Outcome(w)] /\ UNCHANGED <<event, number>>
                  ELSE EndWork(w)
    /\ UNCHANGED <<incident, resolving, note, received, redrives, faults>>

\* ... and written.
FinishWrite(w) ==
    /\ pc[w] \in {"delivered", "failed", "pending"}
    /\ note' = [note EXCEPT ![event[w]] = [@ EXCEPT !.state = pc[w], !.owner = None]]
    /\ EndWork(w)
    /\ UNCHANGED <<incident, resolving, received, redrives, faults>>

Crash(w) ==
    /\ pc[w] # "idle"
    /\ faults < MaxFaults /\ faults' = faults + 1
    /\ EndWork(w)
    /\ UNCHANGED <<incident, resolving, note, received, redrives>>

\* IntegrityNotificationService.redrive; a repeated call changes nothing.
Redrive(e) ==
    /\ note[e].state = "failed"
    /\ redrives < MaxRedrives /\ redrives' = redrives + 1
    /\ note' = [note EXCEPT ![e] = [NewRow EXCEPT !.number = note[e].number + 1]]
    /\ UNCHANGED <<incident, resolving, received, workerVars, faults>>

-----------------------------------------------------------------------------
WorkerStep(w) ==
    (\E e \in Event : Claim(w, e)) \/ Send(w) \/ Finish(w) \/ FinishWrite(w)

Next ==
    \/ \E scopes \in (SUBSET Scope) \ {{}}, category \in Damage : Audit(scopes, category)
    \/ \E o \in Operator :
           (\E i \in Incident : ResolveRead(o, i)) \/ ResolveCommit(o) \/ ResolveEnd(o)
    \/ \E w \in Worker : WorkerStep(w) \/ Crash(w)
    \/ \E e \in Event : Redrive(e)

Spec == Init /\ [][Next]_vars

\* Worker processes loop for ever (worker.py: main).
FairSpec == Spec /\ WF_vars(\E w \in Worker : WorkerStep(w))

-----------------------------------------------------------------------------
RowType == [state: {"none", "pending", "processing", "delivered", "failed"},
            attempts: Nat, owner: Worker \cup {None}, number: Nat]
TypeOK ==
    /\ incident \in [Incident -> [state: {"none", "open", "resolved"},
                                  occurrences: 0 .. MaxDetections]]
    /\ resolving \in [Operator -> {None} \cup
                        [incident: Incident, row: [state: {"open"}, occurrences: 1 .. MaxDetections]]]
    /\ note \in [Event -> RowType]
    /\ received \subseteq Event
    /\ pc \in [Worker -> {"idle", "claimed", "sent", "refused", "delivered", "failed",
                          "pending"}]
    /\ event \in [Worker -> Event \cup {None}]
    /\ \A w \in Worker : pc[w] # "idle" => event[w] \in Event
    /\ number \in [Worker -> Nat] /\ redrives \in Nat /\ faults \in Nat

\* An open incident was announced under its current occurrence, and that occurrence was
\* not announced as resolved, although a resolution may go on with an occurrence it read
\* before the incident was detected again.
OpenAnnounced ==
    \A i \in Incident : incident[i].state = "open" =>
        /\ note[<<i, incident[i].occurrences, "detected">>].state # "none"
        /\ note[<<i, incident[i].occurrences, "resolved">>].state = "none"

\* "a paging outage never blocks the object audit" (deploy/README.md:44), and neither does
\* the history of an incident: the audit's notification never meets one that is there,
\* which would roll back the whole batch.
AuditUnblocked ==
    \A i \in Incident : incident[i].occurrences < MaxDetections => note[Detected(i)].state = "none"

\* What is marked delivered was acknowledged by the webhook, whichever worker wrote last.
DeliveredReceived == \A e \in Event : note[e].state = "delivered" => e \in received

\* No alert is forgotten: the backlog empties, each row delivered, or quarantined where an
\* operator sees it.
Backlog == \E e \in Event : note[e].state \in {"pending", "processing"}
AlertSettled == Backlog ~> ~Backlog

=============================================================================
