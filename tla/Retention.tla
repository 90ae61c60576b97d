------------------------------ MODULE Retention ------------------------------
(***************************************************************************)
(* Retention of one cluster: the append-only policy revisions and their    *)
(* cancellation, the expiry an attempt gets when it is first admitted, the *)
(* preview and the application of a backfill, and the sweeper that turns   *)
(* due expiries into deletion requests (ingestion.py, worker.py).          *)
(*                                                                         *)
(* A call reads the clock when it begins and takes its locks later, so     *)
(* time may pass, and other calls commit, in between.  What becomes of a   *)
(* deletion request is SegmentLifecycle's matter; all that counts here is  *)
(* that a request which a hold blocks leaves the attempt open.  Each hold  *)
(* stays: its release would only close the attempt earlier.                *)
(***************************************************************************)
EXTENDS Integers, Sequences, FiniteSets

CONSTANTS
    Attempt,     \* attempts of the cluster
    Held,        \* the attempts that have a hold by the time they are to be deleted
    Case,        \* logical cases
    None,        \* no case, no expiry, no call under way
    Seconds,     \* retention_seconds an administrator may choose; 0: keep for ever
    Default,     \* default_retention_seconds
    Batch,       \* batch_size of the sweeper
    MaxTime,     \* bound: how long the clock runs
    MaxVersions  \* bound: policy revisions

ASSUME RetentionAssumption ==
    /\ IsFiniteSet(Attempt) /\ Held \subseteq Attempt
    /\ None \notin Case /\ None \notin Nat
    /\ Seconds \subseteq Nat /\ Default \in Nat
    /\ Batch \in Nat \ {0} /\ MaxTime \in Nat /\ MaxVersions \in Nat

Scope == Case \cup {None}
NoRecord == [case |-> None, admitted |-> None, version |-> 0, expires |-> None]

VARIABLES
    now,        \* the clock
    policy,     \* RetentionPolicyRevision rows: the version is the index
    cancelled,  \* versions with a RetentionPolicyCancellation
    record,     \* AttemptRecord of each attempt; version 0: no policy
    requested,  \* attempts with an AttemptDeletion row
    due,        \* attempts the sweeper has listed and not yet handled
    preview,    \* the backfill an administrator has reviewed
    cancelling, \* version whose cancellation passed its check of the clock, or 0
    applying    \* what the clock said when the application of the preview began

vars == <<now, policy, cancelled, record, requested, due, preview, cancelling, applying>>

Init ==
    /\ now = 0 /\ policy = <<>> /\ cancelled = {}
    /\ record = [a \in Attempt |-> NoRecord]
    /\ requested = {} /\ due = {} /\ preview = None
    /\ cancelling = 0 /\ applying = None

Versions == 1 .. Len(policy)
Known == {a \in Attempt : record[a] # NoRecord}

Deadline(admitted, seconds) == IF seconds = 0 THEN None ELSE admitted + seconds
IsDue(deadline, at) == deadline # None /\ deadline <= at

Tick ==
    /\ now < MaxTime
    /\ now' = now + 1
    /\ UNCHANGED <<policy, cancelled, record, requested, due, preview, cancelling, applying>>

-----------------------------------------------------------------------------
(* Policy revisions. *)

\* create_retention_policy_revision: effective in the past, now or later.
Create(case, seconds, effective) ==
    /\ Len(policy) < MaxVersions
    /\ policy' = Append(policy, [case |-> case, seconds |-> seconds, effective |-> effective])
    /\ UNCHANGED <<now, cancelled, record, requested, due, preview, cancelling, applying>>

\* cancel_retention_policy_revision reads the clock ...  A revision that is in force
\* then is refused later.
CancelBegin(v) ==
    /\ cancelling = 0
    /\ v \notin cancelled /\ policy[v].effective > now
    /\ cancelling' = v
    /\ UNCHANGED <<now, policy, cancelled, record, requested, due, preview, applying>>

\* ... and decides by it once it has the lock of the cluster's policies.
CancelCommit ==
    /\ cancelling # 0
    /\ cancelled' = cancelled \cup {cancelling}
    /\ cancelling' = 0
    /\ UNCHANGED <<now, policy, record, requested, due, preview, applying>>

-----------------------------------------------------------------------------
(* Admission. *)

Applicable(case) ==
    {v \in Versions : v \notin cancelled /\ policy[v].effective <= now
                      /\ policy[v].case \in {None, case}}

\* A revision of the attempt's own case goes before one of the cluster, a later version
\* before an earlier one.
Preferred(V) ==
    CHOOSE v \in V : \A w \in V :
        \/ policy[v].case # None /\ policy[w].case = None
        \/ (policy[v].case = None <=> policy[w].case = None) /\ w <= v

\* The generation of these attempts is closed.
Fenced == requested \ Held

\* _record_admission for an attempt's first segment.
Admit(a, case) ==
    LET V == Applicable(case)
        version == IF V = {} THEN 0 ELSE Preferred(V)
        seconds == IF V = {} THEN Default ELSE policy[version].seconds
    IN  /\ a \notin Known \cup Fenced
        /\ record' = [record EXCEPT ![a] =
               [case |-> case, admitted |-> now, version |-> version,
                expires |-> Deadline(now, seconds)]]
        /\ UNCHANGED <<now, policy, cancelled, requested, due, preview, cancelling, applying>>

\* Mutant: a later segment that names the case assigns its policy.
AdmitReassigns(a, case) ==
    LET V == Applicable(case)
    IN  /\ a \in Known \ Fenced
        /\ record[a].case = None /\ case # None /\ V # {}
        /\ record' = [record EXCEPT ![a] =
               [case |-> case, admitted |-> record[a].admitted, version |-> Preferred(V),
                expires |-> Deadline(record[a].admitted, policy[Preferred(V)].seconds)]]
        /\ UNCHANGED <<now, policy, cancelled, requested, due, preview, cancelling, applying>>

\* _record_admission for a later segment, which may name the case the first left open.
AdmitMore(a, case) ==
    /\ a \in Known \ Fenced
    /\ record[a].case = None /\ case # None
    /\ record' = [record EXCEPT ![a].case = case]
    /\ UNCHANGED <<now, policy, cancelled, requested, due, preview, cancelling, applying>>

-----------------------------------------------------------------------------
(* Backfill. *)

\* Mutant: the scope of the revision is not looked at.
CandidatesOfAnyCase(target, source) == {a \in Known \ requested : record[a].version = source}

\* _retention_backfill_candidates, of the attempts with policy version source.
Candidates(target, source) ==
    {a \in Known \ requested :
        record[a].version = source /\ policy[target].case \in {None, record[a].case}}

\* _retention_backfill_candidate_digest: the hash stands for what it is computed from.
Digest(target, source) ==
    [a \in Candidates(target, source) |->
        <<record[a].admitted, record[a].version, record[a].expires>>]

DueCount(target, source, at) ==
    Cardinality({a \in Candidates(target, source) :
        IsDue(Deadline(record[a].admitted, policy[target].seconds), at)})

\* _retention_backfill_policy and the checks of _retention_backfill_decision.
Allowed(target, source, at) ==
    /\ target \in Versions \ cancelled /\ policy[target].effective <= at
    /\ source # target
    /\ source # 0 => source \in Versions /\ policy[source].case = policy[target].case

\* preview_retention_policy_backfill; a preview of no attempts changes nothing and is
\* left out.
Preview(target, source) ==
    /\ applying = None
    /\ Allowed(target, source, now)
    /\ Candidates(target, source) # {}
    /\ preview' = [target |-> target, source |-> source, digest |-> Digest(target, source),
                   due |-> DueCount(target, source, now)]
    /\ UNCHANGED <<now, policy, cancelled, record, requested, due, cancelling, applying>>

\* apply_retention_policy_backfill reads the clock ...
ApplyBegin ==
    /\ preview # None /\ applying = None
    /\ applying' = now
    /\ UNCHANGED <<now, policy, cancelled, record, requested, due, preview, cancelling>>

\* ... and decides again under the locks of the backfill and of the candidates.
ApplyCommit ==
    LET target == preview.target
        source == preview.source
        at == applying
        fresh == /\ Allowed(target, source, at)
                 /\ Digest(target, source) = preview.digest
                 /\ DueCount(target, source, at) = preview.due
    IN  /\ at # None
        /\ record' = IF ~fresh THEN record
                     ELSE [a \in Attempt |->
                              IF a \notin Candidates(target, source) THEN record[a]
                              ELSE [record[a] EXCEPT
                                       !.version = target,
                                       !.expires = Deadline(record[a].admitted,
                                                            policy[target].seconds)]]
        /\ preview' = None
        /\ applying' = None
        /\ UNCHANGED <<now, policy, cancelled, requested, due, cancelling>>

-----------------------------------------------------------------------------
(* RetentionSweeper.run_once. *)

\* Mutant: attempts that are already being deleted are listed again.
ExpiredAgain == {a \in Known : IsDue(record[a].expires, now)}

Expired == {a \in Known \ requested : IsDue(record[a].expires, now)}

\* The Batch attempts that expired first (ties are broken by name).
SweepList ==
    /\ due = {}
    /\ \E L \in SUBSET Expired :
           /\ L # {}
           /\ L = Expired \/ Cardinality(L) = Batch
           /\ Cardinality(L) <= Batch
           /\ \A a \in L, b \in Expired \ L : record[a].expires <= record[b].expires
           /\ due' = L
    /\ UNCHANGED <<now, policy, cancelled, record, requested, preview, cancelling, applying>>

\* delete_attempt for one of them, under a hold or not.  It does not look at the expiry.
SweepDelete(a) ==
    /\ a \in due
    /\ requested' = requested \cup {a}
    /\ due' = due \ {a}
    /\ UNCHANGED <<now, policy, cancelled, record, preview, cancelling, applying>>

\* delete_attempt on an administrator's behalf.
Delete(a) ==
    /\ a \notin requested
    /\ requested' = requested \cup {a}
    /\ UNCHANGED <<now, policy, cancelled, record, due, preview, cancelling, applying>>

Sweep == SweepList \/ \E a \in Attempt : SweepDelete(a)

Next ==
    \/ Tick \/ Sweep \/ CancelCommit \/ ApplyBegin \/ ApplyCommit
    \/ \E v \in Versions : CancelBegin(v)
    \/ \E case \in Scope, seconds \in Seconds, effective \in 0 .. MaxTime :
           Create(case, seconds, effective)
    \/ \E a \in Attempt : Delete(a) \/ \E case \in Scope : Admit(a, case) \/ AdmitMore(a, case)
    \/ \E target \in Versions, source \in Versions \cup {0} : Preview(target, source)

Spec == Init /\ [][Next]_vars

\* The service calls the sweeper in every round.
FairSpec == Spec /\ WF_vars(Sweep)

-----------------------------------------------------------------------------
Time == 0 .. MaxTime
TypeOK ==
    /\ now \in Time
    /\ policy \in Seq([case: Scope, seconds: Seconds, effective: Time])
    /\ cancelled \subseteq Versions
    /\ record \in [Attempt -> [case: Scope, admitted: Time \cup {None}, version: Versions \cup {0},
                               expires: Nat \cup {None}]]
    /\ requested \subseteq Attempt
    /\ due \subseteq Known /\ Cardinality(due) <= Batch
    /\ preview # None => preview.target \in Versions /\ preview.source \in Versions \cup {0}
    /\ cancelling \in Versions \cup {0}
    /\ applying \in Time \cup {None} /\ (applying # None => preview # None)

\* "later edits never silently rewrite an existing attempt's fixed expiry"
\* (deploy/README.md:35): revisions, cancellations and later segments leave it alone, and
\* a backfill changes it only from the very assignment the administrator reviewed, never
\* once its deletion is requested.
Assignment(r) == <<r.admitted, r.version, r.expires>>
Reviewed(a) ==
    /\ applying # None
    /\ a \in DOMAIN preview.digest /\ preview.digest[a] = Assignment(record[a])
Rewrites ==
    \A a \in Known :
        Assignment(record'[a]) # Assignment(record[a]) => Reviewed(a) /\ a \notin requested
FixedExpiry == [][Rewrites]_vars

\* What an attempt's row says can be recomputed from the revision it names, after any
\* number of migrations: the expiry is that revision's, the revision was in force, and
\* it is one for the cluster or for the attempt's own case.
Consistent ==
    \A a \in Known :
        LET r == record[a]
        IN  IF r.version = 0 THEN r.expires = Deadline(r.admitted, Default)
            ELSE LET p == policy[r.version]
                 IN  /\ r.expires = Deadline(r.admitted, p.seconds)
                     /\ p.effective <= now
                     /\ p.case \in {None, r.case}

\* An attempt that has expired is handed to deletion, however many expire at once,
\* unless a migration moves its expiry.
ExpiredSwept ==
    \A a \in Attempt :
        IsDue(record[a].expires, now) ~> (a \in requested \/ ~IsDue(record[a].expires, now))

=============================================================================
