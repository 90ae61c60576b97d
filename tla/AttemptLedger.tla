----------------------------- MODULE AttemptLedger -----------------------------
(***************************************************************************)
(* What the enterprise service promises about admitted telemetry, with no  *)
(* reservations, objects, leases or crashes: segments are admitted without *)
(* overlap while their attempt is open, an attempt is closed once and for  *)
(* ever, and its segments go all at once, only when it is closed and no    *)
(* hold is active on it.                                                   *)
(***************************************************************************)
EXTENDS Integers

CONSTANTS Attempt, Upload, Hold

VARIABLES
    admitted,  \* the segments with a durable manifest
    closed,    \* the attempts that accept no more telemetry
    held       \* the active holds, as <<hold, attempt>>

ledgerVars == <<admitted, closed, held>>

Init == admitted = {} /\ closed = {} /\ held = {}

Meets(s, t) == s.stream = t.stream /\ s.first <= t.last /\ s.last >= t.first

Admit(s) ==
    /\ s.attempt \notin closed
    /\ \A m \in admitted : ~Meets(m, s)
    /\ admitted' = admitted \cup {s}
    /\ UNCHANGED <<closed, held>>

Close(a) ==
    /\ closed' = closed \cup {a}
    /\ UNCHANGED <<admitted, held>>

Erase(a) ==
    /\ a \in closed
    /\ \A h \in Hold : <<h, a>> \notin held
    /\ admitted' = {m \in admitted : m.attempt # a}
    /\ UNCHANGED <<closed, held>>

PlaceHold(h, a) ==
    /\ held' = held \cup {<<h, a>>}
    /\ UNCHANGED <<admitted, closed>>

\* Releasing a hold may close the attempt: a deletion was waiting for it.
ReleaseHold(h, a) ==
    /\ held' = held \ {<<h, a>>}
    /\ closed' \in {closed, closed \cup {a}}
    /\ UNCHANGED admitted

Next ==
    \/ \E s \in Upload : Admit(s)
    \/ \E a \in Attempt : Close(a) \/ Erase(a)
    \/ \E h \in Hold, a \in Attempt : PlaceHold(h, a) \/ ReleaseHold(h, a)

Spec == Init /\ [][Next]_ledgerVars

=============================================================================
