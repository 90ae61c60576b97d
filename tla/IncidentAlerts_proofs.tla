------------------------- MODULE IncidentAlerts_proofs -------------------------
(* Proofs about IncidentAlerts, for any scopes, operators, workers and bounds. *)
EXTENDS IncidentAlerts, TLAPS

(* The types need one fact more: an open incident was detected at least once. *)
OpenCounted == \A i \in Incident : incident[i].state = "open" => incident[i].occurrences >= 1

(* What the properties rest on: workers hold rows that exist and mark as delivered only  *)
(* what was acknowledged; no notification and no reader is ahead of its incident.        *)
AlertInv ==
    /\ \A w \in Worker : pc[w] # "idle" => note[event[w]].state # "none"
    /\ \A w \in Worker : pc[w] \in {"sent", "delivered"} => event[w] \in received
    /\ \A e \in Event : note[e].state # "none" => e[2] <= incident[e[1]].occurrences
    /\ \A o \in Operator : resolving[o] # None =>
          resolving[o].row.occurrences <= incident[resolving[o].incident].occurrences
    /\ DeliveredReceived
    /\ OpenAnnounced

-----------------------------------------------------------------------------
(* Rows. *)
LEMMA NewRowType == NoRow \in RowType /\ NewRow \in RowType /\ NewRow.state = "pending"
  BY DEF NoRow, NewRow, RowType

LEMMA LeasedType ==
  ASSUME NEW r \in RowType, NEW w \in Worker
  PROVE  Leased(r, w) \in RowType /\ Leased(r, w).state = "processing"
  BY DEF Leased, RowType

LEMMA WrittenType ==
  ASSUME NEW r \in RowType, NEW s \in {"delivered", "failed", "pending"}
  PROVE  /\ [r EXCEPT !.state = s, !.owner = None] \in RowType
         /\ [r EXCEPT !.state = s, !.owner = None].state = s
  BY DEF RowType

LEMMA RedrivenType ==
  ASSUME NEW r \in RowType
  PROVE  /\ [NewRow EXCEPT !.number = r.number + 1] \in RowType
         /\ [NewRow EXCEPT !.number = r.number + 1].state = "pending"
<1>1. r.number + 1 \in Nat
  BY DEF RowType
<1> QED
  BY <1>1, NewRowType DEF RowType

IncidentType == [state: {"none", "open", "resolved"}, occurrences: 0 .. MaxDetections]

LEMMA ReopenedType ==
  ASSUME NEW r \in IncidentType, r.occurrences < MaxDetections
  PROVE  /\ Reopened(r) \in IncidentType /\ Reopened(r).state = "open"
         /\ Reopened(r).occurrences = r.occurrences + 1
         /\ r.occurrences + 1 \in 1 .. MaxDetections
  BY AlertsAssumption DEF Reopened, IncidentType

LEMMA WriteBackType ==
  ASSUME NEW r \in IncidentType, NEW q
  PROVE  /\ WriteBack(r, q) \in IncidentType /\ WriteBack(r, q).state = "resolved"
         /\ WriteBack(r, q).occurrences = r.occurrences
  BY DEF WriteBack, IncidentType

-----------------------------------------------------------------------------
(* Types. *)
Typed == TypeOK /\ OpenCounted

LEMMA TypeInit == Init => Typed
<1> SUFFICES ASSUME Init PROVE Typed
  OBVIOUS
<1>1. NoIncident \in IncidentType /\ NoIncident.state = "none"
  BY AlertsAssumption DEF NoIncident, IncidentType
<1> QED
  BY <1>1, NewRowType DEF Init, Typed, TypeOK, OpenCounted, IncidentType

(* A worker that ends its work keeps the types. *)
LEMMA EndWorkType ==
  ASSUME TypeOK, NEW w \in Worker, EndWork(w)
  PROVE  /\ pc' \in [Worker -> {"idle", "claimed", "sent", "refused", "delivered", "failed",
                                "pending"}]
         /\ event' \in [Worker -> Event \cup {None}]
         /\ number' \in [Worker -> Nat]
         /\ \A v \in Worker : pc'[v] # "idle" => v # w /\ pc'[v] = pc[v] /\ event'[v] = event[v]
  BY DEF EndWork, TypeOK

LEMMA TypeStep == Typed /\ [Next]_vars => Typed'
<1> SUFFICES ASSUME Typed, [Next]_vars PROVE Typed'
  OBVIOUS
<1> USE DEF Typed
<1>1. ASSUME NEW scopes \in SUBSET Scope, NEW category \in Damage, Audit(scopes, category)
      PROVE  Typed'
  <2>1. /\ incident' \in [Incident -> IncidentType]
        /\ \A i \in Incident : incident'[i].state = "open" => incident'[i].occurrences >= 1
    BY <1>1, ReopenedType DEF Audit, TypeOK, OpenCounted, IncidentType
  <2>2. note' \in [Event -> RowType]
    BY <1>1, NewRowType DEF Audit, TypeOK
  <2> QED
    BY <1>1, <2>1, <2>2 DEF Audit, TypeOK, OpenCounted, IncidentType, workerVars
<1>2. ASSUME NEW o \in Operator, NEW i \in Incident, ResolveRead(o, i)
      PROVE  Typed'
  <2>1. [incident |-> i, row |-> incident[i]] \in
          [incident: Incident, row: [state: {"open"}, occurrences: 1 .. MaxDetections]]
    BY <1>2, AlertsAssumption DEF ResolveRead, TypeOK, OpenCounted
  <2> QED
    BY <1>2, <2>1 DEF ResolveRead, TypeOK, OpenCounted, workerVars
<1>3. ASSUME NEW o \in Operator, ResolveCommit(o)
      PROVE  Typed'
  <2>1. /\ resolving[o].incident \in Incident /\ resolving[o].row.occurrences \in 1 .. MaxDetections
        /\ <<resolving[o].incident, resolving[o].row.occurrences, "resolved">> \in Event
    BY <1>3 DEF ResolveCommit, TypeOK, Event
  <2>2. /\ incident' \in [Incident -> IncidentType]
        /\ \A i \in Incident : incident'[i].state = "open" => incident'[i] = incident[i]
    BY <1>3, <2>1, WriteBackType DEF ResolveCommit, TypeOK, IncidentType
  <2>3. note' \in [Event -> RowType]
    BY <1>3, <2>1, NewRowType DEF ResolveCommit, TypeOK
  <2> QED
    BY <1>3, <2>2, <2>3 DEF ResolveCommit, TypeOK, OpenCounted, IncidentType, workerVars
<1>4. ASSUME NEW o \in Operator, ResolveEnd(o)
      PROVE  Typed'
  BY <1>4 DEF ResolveEnd, TypeOK, OpenCounted, workerVars
<1>5. ASSUME NEW w \in Worker, NEW e \in Event, Claim(w, e)
      PROVE  Typed'
  <2>1. Leased(note[e], w) \in RowType /\ note[e].number + 1 \in Nat
    BY LeasedType DEF TypeOK, RowType
  <2>2. faults' \in Nat
    BY <1>5 DEF Claim, TypeOK
  <2> QED
    BY <1>5, <2>1, <2>2 DEF Claim, TypeOK, OpenCounted
<1>6. ASSUME NEW w \in Worker, Send(w)
      PROVE  Typed'
  <2>1. CASE EndWork(w) /\ UNCHANGED received
    BY <1>6, <2>1, EndWorkType DEF Send, TypeOK, OpenCounted
  <2>2. CASE /\ received' \in {received, received \cup {event[w]}}
             /\ pc' \in {[pc EXCEPT ![w] = "sent"], [pc EXCEPT ![w] = "refused"]}
             /\ UNCHANGED <<event, number>>
    BY <1>6, <2>2 DEF Send, TypeOK, OpenCounted
  <2> QED
    BY <1>6, <2>1, <2>2 DEF Send
<1>7. ASSUME NEW w \in Worker, Finish(w)
      PROVE  Typed'
  <2>1. CASE EndWork(w)
    BY <1>7, <2>1, EndWorkType DEF Finish, TypeOK, OpenCounted
  <2>2. CASE pc' = [pc EXCEPT ![w] = Outcome(w)] /\ UNCHANGED <<event, number>>
    <3>1. Outcome(w) \in {"delivered", "failed", "pending"}
      BY DEF Outcome
    <3> QED
      BY <1>7, <2>2, <3>1 DEF Finish, TypeOK, OpenCounted
  <2> QED
    BY <1>7, <2>1, <2>2 DEF Finish
<1>8. ASSUME NEW w \in Worker, FinishWrite(w)
      PROVE  Typed'
  <2>1. note' \in [Event -> RowType]
    BY <1>8, WrittenType DEF FinishWrite, TypeOK
  <2> QED
    BY <1>8, <2>1, EndWorkType DEF FinishWrite, TypeOK, OpenCounted
<1>9. ASSUME NEW w \in Worker, Crash(w)
      PROVE  Typed'
  BY <1>9, EndWorkType DEF Crash, TypeOK, OpenCounted
<1>10. ASSUME NEW e \in Event, Redrive(e)
       PROVE  Typed'
  BY <1>10, RedrivenType DEF Redrive, TypeOK, OpenCounted, workerVars
<1>11. CASE UNCHANGED vars
  BY <1>11 DEF vars, workerVars, TypeOK, OpenCounted
<1> QED
  BY <1>1, <1>2, <1>3, <1>4, <1>5, <1>6, <1>7, <1>8, <1>9, <1>10, <1>11 DEF Next, WorkerStep

(* The state keeps its types; what a resolution has read is an incident that was open, *)
(* and a busy worker has a notification.                                               *)
THEOREM TypeCorrect == Spec => []TypeOK
<1>1. Typed => TypeOK
  BY DEF Typed
<1> QED
  BY <1>1, TypeInit, TypeStep, PTL DEF Spec

-----------------------------------------------------------------------------
(* The properties. *)

LEMMA AlertInit == Init => AlertInv
  BY NewRowType DEF Init, AlertInv, DeliveredReceived, OpenAnnounced, NoRow, NoIncident

LEMMA CurrentEvents ==
  ASSUME Typed, NEW i \in Incident, incident[i].state = "open"
  PROVE  /\ <<i, incident[i].occurrences, "detected">> \in Event
         /\ <<i, incident[i].occurrences, "resolved">> \in Event
<1>1. incident[i].occurrences \in 1 .. MaxDetections
  BY AlertsAssumption DEF Typed, TypeOK, OpenCounted
<1> QED
  BY <1>1 DEF Event

(* Steps of workers and redrives: the incidents stay, rows neither appear nor go. *)
LEMMA DeliveryStep ==
  ASSUME Typed, AlertInv, UNCHANGED <<incident, resolving>>,
         \A e \in Event : note'[e].state = "none" <=> note[e].state = "none"
  PROVE  /\ \A e \in Event : note'[e].state # "none" => e[2] <= incident'[e[1]].occurrences
         /\ \A o \in Operator : resolving'[o] # None =>
               resolving'[o].row.occurrences <= incident'[resolving'[o].incident].occurrences
         /\ OpenAnnounced'
<1>2. OpenAnnounced'
  <2> SUFFICES ASSUME NEW i \in Incident, incident'[i].state = "open"
               PROVE  /\ note'[<<i, incident'[i].occurrences, "detected">>].state # "none"
                      /\ note'[<<i, incident'[i].occurrences, "resolved">>].state = "none"
    BY DEF OpenAnnounced
  <2>1. incident[i].state = "open"
    OBVIOUS
  <2> QED
    BY <2>1, CurrentEvents DEF AlertInv, OpenAnnounced
<1> QED
  BY <1>2 DEF AlertInv

LEMMA AlertStep == Typed /\ AlertInv /\ [Next]_vars => AlertInv'
<1> SUFFICES ASSUME Typed, AlertInv, [Next]_vars PROVE AlertInv'
  OBVIOUS
<1>0. TypeOK
  BY DEF Typed
<1>1. ASSUME NEW scopes \in SUBSET Scope, NEW category \in Damage, Audit(scopes, category)
      PROVE  AlertInv'
  <2> DEFINE hit == scopes \X {category}
  <2>1. hit \subseteq Incident
    BY DEF Incident
  <2>2. \A i \in Incident : /\ i \in hit => /\ incident'[i].state = "open"
                                            /\ incident'[i].occurrences = incident[i].occurrences + 1
                                            /\ <<i, incident'[i].occurrences, "detected">> \in Event
                            /\ i \notin hit => incident'[i] = incident[i]
                            /\ incident[i].occurrences \in Nat /\ incident'[i].occurrences \in Nat
    BY <1>0, <1>1, <2>1, ReopenedType DEF Audit, TypeOK, IncidentType, Event
  <2>3. \A e \in Event :
          note'[e] = IF \E i \in hit : e = <<i, incident'[i].occurrences, "detected">>
                     THEN NewRow ELSE note[e]
    BY <1>0, <1>1, <2>1, <2>2, ReopenedType DEF Audit, TypeOK, IncidentType
  <2> HIDE DEF hit
  <2>grows. \A i \in Incident : /\ incident[i].occurrences \in Nat /\ incident'[i].occurrences \in Nat
                             /\ incident[i].occurrences <= incident'[i].occurrences
    <3> SUFFICES ASSUME NEW i \in Incident
                 PROVE  /\ incident[i].occurrences \in Nat /\ incident'[i].occurrences \in Nat
                        /\ incident[i].occurrences <= incident'[i].occurrences
      OBVIOUS
    <3>1. incident[i].occurrences \in Nat /\ incident'[i].occurrences \in Nat
      BY <2>2
    <3>2. CASE i \in hit
      <4>1. incident'[i].occurrences = incident[i].occurrences + 1
        BY <2>2, <3>2
      <4> QED
        BY <3>1, <4>1
    <3>3. CASE i \notin hit
      <4>1. incident'[i] = incident[i]
        BY <2>2, <3>3
      <4> QED
        BY <3>1, <4>1
    <3> QED
      BY <3>2, <3>3
  <2>4. UNCHANGED <<resolving, received, pc, event>>
    BY <1>1 DEF Audit, workerVars
  <2>5. \A w \in Worker : pc'[w] # "idle" => note'[event'[w]].state # "none"
    BY <1>0, <2>3, <2>4, NewRowType DEF AlertInv, TypeOK
  <2>6. \A e \in Event : note'[e].state # "none" => e[2] <= incident'[e[1]].occurrences
    <3> SUFFICES ASSUME NEW e \in Event, note'[e].state # "none"
                 PROVE  e[2] <= incident'[e[1]].occurrences
      OBVIOUS
    <3>1. e[1] \in Incident /\ e[2] \in Nat
      BY AlertsAssumption DEF Event
    <3>2. CASE \E i \in hit : e = <<i, incident'[i].occurrences, "detected">>
      BY <2>1, <2>2, <3>2
    <3>3. CASE ~ \E i \in hit : e = <<i, incident'[i].occurrences, "detected">>
      <4>1. e[2] <= incident[e[1]].occurrences
        BY <2>3, <3>3 DEF AlertInv
      <4> QED
        BY <2>grows, <3>1, <4>1
    <3> QED
      BY <3>2, <3>3
  <2>7. \A o \in Operator : resolving'[o] # None =>
          resolving'[o].row.occurrences <= incident'[resolving'[o].incident].occurrences
    <3> SUFFICES ASSUME NEW o \in Operator, resolving[o] # None
                 PROVE  resolving[o].row.occurrences <= incident'[resolving[o].incident].occurrences
      BY <2>4
    <3>1. /\ resolving[o].incident \in Incident /\ resolving[o].row.occurrences \in Nat
          /\ resolving[o].row.occurrences <= incident[resolving[o].incident].occurrences
      BY <1>0, AlertsAssumption DEF TypeOK, AlertInv
    <3> QED
      BY <2>grows, <3>1
  <2>8. DeliveredReceived'
    BY <2>3, <2>4, NewRowType DEF AlertInv, DeliveredReceived
  <2>9. OpenAnnounced'
    <3> SUFFICES ASSUME NEW i \in Incident, incident'[i].state = "open"
                 PROVE  /\ note'[<<i, incident'[i].occurrences, "detected">>].state # "none"
                        /\ note'[<<i, incident'[i].occurrences, "resolved">>].state = "none"
      BY DEF OpenAnnounced
    <3> DEFINE r == <<i, incident'[i].occurrences, "resolved">>
    <3>1. CASE i \in hit
      <4>1. r \in Event /\ <<i, incident'[i].occurrences, "detected">> \in Event
        BY <2>2, <3>1 DEF Event
      <4>2. note[r].state = "none"
        BY <2>2, <3>1, <4>1 DEF AlertInv
      <4> QED
        BY <2>3, <3>1, <4>1, <4>2, NewRowType
    <3>2. CASE i \notin hit
      <4>1. incident'[i] = incident[i]
        BY <2>2, <3>2
      <4>2. r \in Event /\ <<i, incident[i].occurrences, "detected">> \in Event
        BY <4>1, CurrentEvents
      <4> QED
        BY <2>3, <4>1, <4>2, NewRowType DEF AlertInv, OpenAnnounced
    <3> QED
      BY <3>1, <3>2
  <2> QED
    BY <2>4, <2>5, <2>6, <2>7, <2>8, <2>9 DEF AlertInv
<1>2. ASSUME NEW o \in Operator, NEW i \in Incident, ResolveRead(o, i)
      PROVE  AlertInv'
  <2>1. UNCHANGED <<incident, note, received, pc, event>>
    BY <1>2 DEF ResolveRead, workerVars
  <2>2. incident[i].occurrences \in Nat
    BY <1>0, AlertsAssumption DEF TypeOK
  <2>3. \A p \in Operator : resolving'[p] # None =>
          resolving'[p].row.occurrences <= incident[resolving'[p].incident].occurrences
    BY <1>0, <1>2, <2>2 DEF ResolveRead, TypeOK, AlertInv
  <2> QED
    BY <2>1, <2>3 DEF AlertInv, DeliveredReceived, OpenAnnounced
<1>3. ASSUME NEW o \in Operator, ResolveCommit(o)
      PROVE  AlertInv'
  <2> DEFINE j == resolving[o].incident
             e == <<j, resolving[o].row.occurrences, "resolved">>
  <2>1. /\ j \in Incident /\ e \in Event /\ e[1] = j /\ e[2] = resolving[o].row.occurrences
        /\ resolving[o].row.occurrences <= incident[j].occurrences
    BY <1>0, <1>3 DEF ResolveCommit, TypeOK, Event, AlertInv
  <2>2. /\ incident'[j].state = "resolved"
        /\ \A i \in Incident : /\ i # j => incident'[i] = incident[i]
                               /\ incident'[i].occurrences = incident[i].occurrences
    BY <1>0, <1>3, <2>1, WriteBackType DEF ResolveCommit, TypeOK, IncidentType
  <2>3. note'[e] = NewRow /\ \A f \in Event : f # e => note'[f] = note[f]
    BY <1>0, <1>3, <2>1 DEF ResolveCommit, TypeOK
  <2>4. UNCHANGED <<received, pc, event>>
    BY <1>3 DEF ResolveCommit, workerVars
  <2>5. \A w \in Worker : pc'[w] # "idle" => note'[event'[w]].state # "none"
    BY <1>0, <2>3, <2>4, NewRowType DEF AlertInv, TypeOK
  <2>6. \A f \in Event : note'[f].state # "none" => f[2] <= incident'[f[1]].occurrences
    <3>1. \A f \in Event : f[1] \in Incident
      BY DEF Event
    <3> QED
      BY <2>1, <2>2, <2>3, <3>1 DEF AlertInv
  <2>7. \A p \in Operator : resolving'[p] # None =>
          resolving'[p].row.occurrences <= incident'[resolving'[p].incident].occurrences
    <3>1. \A p \in Operator : resolving'[p] # None => resolving'[p] = resolving[p]
      BY <1>0, <1>3 DEF ResolveCommit, TypeOK
    <3>2. \A p \in Operator : resolving[p] # None => resolving[p].incident \in Incident
      BY <1>0 DEF TypeOK
    <3> QED
      BY <2>2, <3>1, <3>2 DEF AlertInv
  <2>8. DeliveredReceived'
    BY <2>3, <2>4, NewRowType DEF AlertInv, DeliveredReceived
  <2>9. OpenAnnounced'
    <3> SUFFICES ASSUME NEW i \in Incident, incident'[i].state = "open"
                 PROVE  /\ note'[<<i, incident'[i].occurrences, "detected">>].state # "none"
                        /\ note'[<<i, incident'[i].occurrences, "resolved">>].state = "none"
      BY DEF OpenAnnounced
    <3>1. i # j /\ incident'[i] = incident[i]
      BY <2>2
    <3>2. /\ <<i, incident[i].occurrences, "detected">> \in Event
          /\ <<i, incident[i].occurrences, "resolved">> \in Event
      BY <3>1, CurrentEvents
    <3> QED
      BY <2>3, <3>1, <3>2 DEF AlertInv, OpenAnnounced
  <2> QED
    BY <2>4, <2>5, <2>6, <2>7, <2>8, <2>9 DEF AlertInv
<1>4. ASSUME NEW o \in Operator, ResolveEnd(o)
      PROVE  AlertInv'
  BY <1>0, <1>4 DEF ResolveEnd, TypeOK, AlertInv, DeliveredReceived, OpenAnnounced, workerVars
<1>5. ASSUME NEW w \in Worker, NEW e \in Event, Claim(w, e)
      PROVE  AlertInv'
  <2>1. /\ UNCHANGED <<incident, resolving, received>>
        /\ note'[e].state = "processing" /\ \A f \in Event : f # e => note'[f] = note[f]
        /\ pc'[w] = "claimed" /\ event'[w] = e
        /\ \A v \in Worker : v # w => pc'[v] = pc[v] /\ event'[v] = event[v]
    BY <1>0, <1>5, LeasedType DEF Claim, TypeOK
  <2>2. \A f \in Event : note'[f].state = "none" <=> note[f].state = "none"
    BY <1>5, <2>1 DEF Claim
  <2> QED
    BY <1>0, <2>1, <2>2, DeliveryStep DEF AlertInv, DeliveredReceived, TypeOK
<1>6. ASSUME NEW w \in Worker, Send(w)
      PROVE  AlertInv'
  <2>1. UNCHANGED <<incident, resolving, note>> /\ received \subseteq received'
    BY <1>6 DEF Send
  <2>2. CASE EndWork(w)
    BY <1>0, <2>1, <2>2, DeliveryStep, EndWorkType DEF AlertInv, DeliveredReceived
  <2>3. CASE ~EndWork(w)
    <3>1. /\ UNCHANGED event
          /\ \/ pc' = [pc EXCEPT ![w] = "sent"] /\ event[w] \in received'
             \/ pc' = [pc EXCEPT ![w] = "refused"]
          /\ pc[w] = "claimed"
      BY <1>6, <2>3 DEF Send
    <3> QED
      BY <1>0, <2>1, <3>1, DeliveryStep DEF AlertInv, DeliveredReceived, TypeOK
  <2> QED
    BY <2>2, <2>3
<1>7. ASSUME NEW w \in Worker, Finish(w)
      PROVE  AlertInv'
  <2>1. UNCHANGED <<incident, resolving, note, received>>
    BY <1>7 DEF Finish
  <2>2. CASE EndWork(w)
    BY <1>0, <2>1, <2>2, DeliveryStep, EndWorkType DEF AlertInv, DeliveredReceived
  <2>3. CASE ~EndWork(w)
    <3>1. /\ UNCHANGED event /\ pc' = [pc EXCEPT ![w] = Outcome(w)] /\ pc[w] # "idle"
          /\ Outcome(w) # "sent" /\ (Outcome(w) = "delivered" => pc[w] = "sent")
      BY <1>7, <2>3 DEF Finish, Outcome
    <3> QED
      BY <1>0, <2>1, <3>1, DeliveryStep DEF AlertInv, DeliveredReceived, TypeOK
  <2> QED
    BY <2>2, <2>3
<1>8. ASSUME NEW w \in Worker, FinishWrite(w)
      PROVE  AlertInv'
  <2>1. /\ event[w] \in Event /\ note[event[w]].state # "none"
        /\ pc[w] \in {"delivered", "failed", "pending"}
        /\ pc[w] = "delivered" => event[w] \in received
    BY <1>0, <1>8 DEF FinishWrite, AlertInv, TypeOK
  <2>2. /\ UNCHANGED <<incident, resolving, received>>
        /\ note'[event[w]].state = pc[w]
        /\ \A f \in Event : f # event[w] => note'[f] = note[f]
    <3>1. /\ note[event[w]] \in RowType
          /\ note'[event[w]] = [note[event[w]] EXCEPT !.state = pc[w], !.owner = None]
          /\ \A f \in Event : f # event[w] => note'[f] = note[f]
          /\ UNCHANGED <<incident, resolving, received>>
      BY <1>0, <1>8, <2>1 DEF FinishWrite, TypeOK
    <3>2. \A r \in RowType, x \in {"delivered", "failed", "pending"} :
            [r EXCEPT !.state = x, !.owner = None].state = x
      BY WrittenType
    <3> QED
      BY <2>1, <3>1, <3>2
  <2>3. \A f \in Event : note'[f].state = "none" <=> note[f].state = "none"
    BY <2>1, <2>2
  <2>4. EndWork(w)
    BY <1>8 DEF FinishWrite
  <2> QED
    BY <1>0, <2>1, <2>2, <2>3, <2>4, DeliveryStep, EndWorkType
       DEF AlertInv, DeliveredReceived, TypeOK
<1>9. ASSUME NEW w \in Worker, Crash(w)
      PROVE  AlertInv'
  <2>1. UNCHANGED <<incident, resolving, note, received>> /\ EndWork(w)
    BY <1>9 DEF Crash
  <2> QED
    BY <1>0, <2>1, DeliveryStep, EndWorkType DEF AlertInv, DeliveredReceived
<1>10. ASSUME NEW e \in Event, Redrive(e)
       PROVE  AlertInv'
  <2>1. /\ UNCHANGED <<incident, resolving, received, pc, event>>
        /\ note'[e].state = "pending" /\ \A f \in Event : f # e => note'[f] = note[f]
    BY <1>0, <1>10, RedrivenType DEF Redrive, TypeOK, workerVars
  <2>2. \A f \in Event : note'[f].state = "none" <=> note[f].state = "none"
    BY <1>10, <2>1 DEF Redrive
  <2> QED
    BY <1>0, <2>1, <2>2, DeliveryStep DEF AlertInv, DeliveredReceived, TypeOK
<1>11. CASE UNCHANGED vars
  BY <1>11 DEF vars, workerVars, AlertInv, DeliveredReceived, OpenAnnounced
<1> QED
  BY <1>1, <1>2, <1>3, <1>4, <1>5, <1>6, <1>7, <1>8, <1>9, <1>10, <1>11 DEF Next, WorkerStep

LEMMA AlertInvariance == Spec => [](Typed /\ AlertInv)
<1> QED
  BY TypeInit, TypeStep, AlertInit, AlertStep, PTL DEF Spec

(* An open incident has been announced, and not been announced as resolved. *)
THEOREM Announcements == Spec => []OpenAnnounced
<1>1. AlertInv => OpenAnnounced
  BY DEF AlertInv
<1> QED
  BY <1>1, AlertInvariance, PTL

(* The audit's notifications never clash with those of earlier occurrences. *)
THEOREM AuditNotBlocked == Spec => []AuditUnblocked
<1>1. Typed /\ AlertInv => AuditUnblocked
  <2> SUFFICES ASSUME Typed, AlertInv, NEW i \in Incident, incident[i].occurrences < MaxDetections
               PROVE  note[Detected(i)].state = "none"
    BY DEF AuditUnblocked
  <2>1. incident[i].occurrences \in Nat
    BY AlertsAssumption DEF Typed, TypeOK
  <2>2. <<i, incident[i].occurrences + 1, "detected">> \in Event
    BY <2>1, AlertsAssumption DEF Event
  <2> QED
    BY <2>1, <2>2 DEF AlertInv, Detected
<1> QED
  BY <1>1, AlertInvariance, PTL

(* What is marked delivered was acknowledged. *)
THEOREM Deliveries == Spec => []DeliveredReceived
<1>1. AlertInv => DeliveredReceived
  BY DEF AlertInv
<1> QED
  BY <1>1, AlertInvariance, PTL

=============================================================================
