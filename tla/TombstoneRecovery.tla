---------------------------- MODULE TombstoneRecovery ----------------------------
(***************************************************************************)
(* Reconciling a restored catalog with the erasures that happened after    *)
(* its backup was taken (recovery.py, recovery_cli.py).                    *)
(*                                                                         *)
(* The operator copies the surviving catalog's completed deletions out     *)
(* page by page, applies every page to the restored catalog, and only then *)
(* lets traffic reach it.  Meanwhile the surviving catalog serves, and     *)
(* more of its deletions complete.  One catalog row of each attempt is     *)
(* kept; SegmentLifecycle models what its evidence consists of.            *)
(***************************************************************************)
EXTENDS Integers, FiniteSets, Sequences

CONSTANTS Attempt,      \* attempts, as their ranks in the order of the export
          None,
          Limit,        \* entries in a page
          MaxAttempts,  \* failures after which a deletion is given up (the code's 5)
          MaxFaults     \* bound on the crashes and storage errors of the deletion worker

ASSUME RecoveryAssumption ==
    /\ Attempt \subseteq Nat \ {0}
    /\ IsFiniteSet(Attempt)
    /\ None \notin Attempt
    /\ Limit \in Nat \ {0}
    /\ MaxAttempts \in Nat \ {0}
    /\ MaxFaults \in Nat

VARIABLES live,      \* the catalog that serves the API and the workers
          backup,    \* the copy of it that will be restored
          restored,  \* the restored catalog, until it serves
          opened,    \* the restored catalog took over
          pages,     \* the bundles written by the export
          cursor,    \* next_cursor of the last page: 0 at first, None after the last page
          imports,   \* RestoreTombstoneImport: the bundles the restored catalog has
          work,      \* the deletion worker's lease and how far it is
          due,       \* ghost: the attempts erased when the export began
          faults

exportVars == <<pages, cursor, due>>
vars == <<live, backup, restored, opened, imports, work, faults, exportVars>>

-----------------------------------------------------------------------------
(* The catalog rows of one attempt. *)

DeletionState == {"none", "pending", "processing", "held", "failed", "completed"}

Row == [evidence : BOOLEAN,            \* AttemptRecord and all that hangs on it
        generation : Nat,              \* AttemptGeneration.generation
        fenced : BOOLEAN,              \* AttemptGeneration.deleted_at is set
        hold : {"none", "active", "released"},
        deletion : DeletionState, target : Nat,  \* AttemptDeletion, deletion_generation
        leased : BOOLEAN, number : Nat, attempts : Nat]

EmptyRow == [evidence |-> FALSE, generation |-> 0, fenced |-> FALSE, hold |-> "none",
             deletion |-> "none", target |-> 0, leased |-> FALSE, number |-> 0,
             attempts |-> 0]

Catalog == [Attempt -> Row]

Known(r) == r.evidence \/ r.deletion # "none"

\* AttemptDeletion put in a state without a lease.
Unleased(r, state) == [r EXCEPT !.deletion = state, !.leased = FALSE]

\* A deletion that starts over, for the generation the row has.
Rearmed(r) == [Unleased(r, "pending") EXCEPT !.target = r.generation, !.attempts = 0]

Fenced(r) == IF r.fenced THEN r
             ELSE [r EXCEPT !.generation = @ + 1, !.fenced = TRUE]

Init ==
    /\ live = [a \in Attempt |-> EmptyRow]
    /\ backup = None
    /\ restored = None
    /\ opened = FALSE
    /\ pages = <<>>
    /\ cursor = 0
    /\ imports = {}
    /\ work = None
    /\ due = {}
    /\ faults = 0

-----------------------------------------------------------------------------
(* Traffic of the catalog that serves.  Each operation holds the attempt's lock. *)

Serve(a, row) ==
    /\ live' = [live EXCEPT ![a] = row]
    /\ UNCHANGED <<backup, restored, opened, imports, faults, exportVars>>

Admit(a) ==
    /\ ~live[a].fenced
    /\ Serve(a, [live[a] EXCEPT !.evidence = TRUE])
    /\ UNCHANGED work

\* place_attempt_hold, with the attempt's one hold_id: a released one is not reused.
PlaceHold(a) ==
    LET r == [live[a] EXCEPT !.hold = "active"]
    IN  /\ Known(r)
        /\ r.deletion # "completed"
        /\ live[a].hold = "none"
        /\ Serve(a, IF r.deletion = "none" THEN r ELSE Unleased(r, "held"))
        /\ UNCHANGED work

ReleaseHold(a) ==
    LET r == [live[a] EXCEPT !.hold = "released"]
    IN  /\ live[a].hold = "active"
        /\ Serve(a, IF r.deletion = "held" THEN Rearmed(Fenced(r)) ELSE r)
        /\ UNCHANGED work

\* delete_attempt, refused by a hold (which keeps the request) or not.
Delete(a) ==
    LET r == live[a]
        f == Fenced(r)
    IN  /\ Serve(a, IF r.hold = "active"
                      THEN CASE r.deletion = "none" ->
                                  [Unleased(r, "held") EXCEPT !.target = r.generation]
                             [] r.deletion = "completed" -> r
                             [] OTHER -> Unleased(r, "held")
                      ELSE IF f.deletion = "none" \/ f.target # f.generation
                             THEN Rearmed(f) ELSE f)
        /\ UNCHANGED work

-----------------------------------------------------------------------------
(* AttemptDeletionWorker of the catalog that serves. *)

\* A pending deletion, or one whose lease has expired: a worker that died, or the
\* surviving catalog's worker at the time of the backup.  A lease taken over from a worker
\* that is alive is SegmentLifecycle's matter; here there is one worker.
Claim(a) ==
    LET r == [live[a] EXCEPT !.deletion = "processing", !.leased = TRUE,
                             !.number = @ + 1, !.attempts = @ + 1]
    IN  /\ work = None
        /\ live[a].deletion \in {"pending", "processing"}
        /\ Serve(a, r)
        /\ work' = [attempt |-> a, target |-> r.target, number |-> r.number,
                    pc |-> "claimed"]

Matches == LET r == live[work.attempt]
           IN  /\ r.deletion = "processing"
               /\ r.leased
               /\ r.number = work.number
               /\ r.target = work.target

At(pc) == work # None /\ work.pc = pc

\* execute: the lease was lost, or a hold blocks the erasure.
Decline ==
    LET r == live[work.attempt]
    IN  /\ At("claimed")
        /\ ~Matches \/ r.hold = "active"
        /\ Serve(work.attempt, IF Matches THEN Unleased(r, "held") ELSE r)
        /\ work' = None

Erasable == Matches /\ live[work.attempt].hold # "active"

Current == live[work.attempt].fenced /\ live[work.attempt].generation = work.target

Erase ==
    LET r == live[work.attempt]
    IN  /\ At("claimed")
        /\ Erasable
        /\ Current
        /\ Serve(work.attempt, [Unleased(r, "completed") EXCEPT !.evidence = FALSE])
        /\ work' = None

\* A generation that is no longer current, or a storage error.
EraseFail ==
    /\ At("claimed")
    /\ Erasable
    /\ IF Current THEN faults < MaxFaults /\ faults' = faults + 1 ELSE faults' = faults
    /\ work' = [work EXCEPT !.pc = "failing"]
    /\ UNCHANGED <<live, backup, restored, opened, imports, exportVars>>

\* fail: the row is read and later overwritten without the attempt's lock.
FailRead ==
    /\ At("failing")
    /\ work' = IF ~Matches THEN None
               ELSE [work EXCEPT !.pc = IF live[work.attempt].attempts >= MaxAttempts
                                          THEN "failed" ELSE "pending"]
    /\ UNCHANGED <<live, backup, restored, opened, imports, faults, exportVars>>

FailWrite ==
    /\ At("failed") \/ At("pending")
    /\ Serve(work.attempt, Unleased(live[work.attempt], work.pc))
    /\ work' = None

Crash ==
    /\ work # None
    /\ faults < MaxFaults
    /\ faults' = faults + 1
    /\ work' = None
    /\ UNCHANGED <<live, backup, restored, opened, imports, exportVars>>

-----------------------------------------------------------------------------
(* The operator: backup, restore, export, apply, and the switch to the restored      *)
(* catalog.                                                                          *)

Backup ==
    /\ backup = None
    /\ ~opened
    /\ backup' = live
    /\ UNCHANGED <<live, restored, opened, imports, work, faults, exportVars>>

\* May be done over: the new copy has none of the bundles the last one had.
Restore ==
    /\ backup # None
    /\ restored' = backup
    /\ imports' = {}
    /\ UNCHANGED <<live, backup, opened, work, faults, exportVars>>

\* Mutant: any deletion that was asked for is exported.
ExportableAsked(a) == live[a].deletion # "none"

Exportable(a) == live[a].deletion = "completed"

\* The completed deletions beyond the cursor, the first n in order.
First(S, n) == {a \in S : Cardinality({b \in S : b < a}) < n}
Last(S) == CHOOSE a \in S : \A b \in S : b <= a

\* The rows one export call reads, the page it writes and the cursor it returns.
Rows == {a \in Attempt : Exportable(a) /\ a > cursor}
Page == {[attempt |-> a, generation |-> live[a].target] : a \in First(Rows, Limit)}

\* Mutant: the cursor is taken from the row that was read to see whether there are more.
NextCursorPastPage ==
    IF Cardinality(Rows) > Limit THEN Last(First(Rows, Limit + 1)) ELSE None

NextCursor ==
    IF Cardinality(Rows) > Limit THEN Last(First(Rows, Limit)) ELSE None

\* One call of the export command, after the cursor the last one printed.
Export ==
    /\ ~opened
    /\ cursor # None
    /\ pages' = Append(pages, Page)
    /\ cursor' = NextCursor
    /\ due' = IF pages = <<>> THEN {a \in Attempt : live[a].deletion = "completed"} ELSE due
    /\ UNCHANGED <<live, backup, restored, opened, imports, work, faults>>

\* Two mutants: the restored catalog's hold stays; an existing deletion is not reset.
TombstonedHeld(r, g) ==
    [Rearmed([r EXCEPT !.generation = g, !.fenced = TRUE]) EXCEPT
        !.number = IF r.deletion = "none" THEN @ ELSE @ + 1]
TombstonedOnce(r, g) ==
    LET f == [r EXCEPT !.generation = g, !.fenced = TRUE,
                       !.hold = IF @ = "active" THEN "released" ELSE @]
    IN  IF r.deletion = "none" THEN Rearmed(f) ELSE f

\* One entry applied: fenced at the tombstone's generation, cleanup queued anew, and
\* the holds that the erasure must have outlived released.
Tombstoned(r, g) ==
    [Rearmed([r EXCEPT !.generation = g, !.fenced = TRUE]) EXCEPT
        !.number = IF r.deletion = "none" THEN @ ELSE @ + 1,
        !.hold = IF @ = "active" THEN "released" ELSE @]

\* Mutant: a bundle that was applied is applied again.
ReconciledAgain(cat, i) ==
    [a \in Attempt |->
        IF \E e \in pages[i] : e.attempt = a /\ cat[a].generation <= e.generation
          THEN Tombstoned(cat[a], (CHOOSE e \in pages[i] : e.attempt = a).generation)
          ELSE cat[a]]

\* A catalog after bundle i: nothing changes if it has the bundle's digest, and an
\* attempt that was fenced at a newer generation is stale and left alone.
Reconciled(cat, i) ==
    [a \in Attempt |->
        IF i \notin imports /\ \E e \in pages[i] : e.attempt = a /\ cat[a].generation <= e.generation
          THEN Tombstoned(cat[a], (CHOOSE e \in pages[i] : e.attempt = a).generation)
          ELSE cat[a]]

\* A newer generation that is not fenced makes the bundle fail, and with it the import.
Conflict(cat, i) ==
    \E e \in pages[i] : cat[e.attempt].generation > e.generation /\ ~cat[e.attempt].fenced

\* One transaction.  After the switch an operator can still repeat a bundle.  A bundle that
\* apply refuses (damaged, or sorted by the database in an order other than Python's)
\* changes nothing: it is a bundle that is not applied.
Apply(i) ==
    /\ opened \/ restored # None
    /\ i \in DOMAIN pages
    /\ LET cat == IF opened THEN live ELSE restored
       IN  /\ ~Conflict(cat, i)
           /\ IF opened
                THEN live' = Reconciled(cat, i) /\ UNCHANGED restored
                ELSE restored' = Reconciled(cat, i) /\ UNCHANGED live
    /\ imports' = imports \cup {i}
    /\ UNCHANGED <<backup, opened, work, faults, exportVars>>

\* "an incomplete page set is not acceptable restore evidence"
Ready == restored # None /\ cursor = None /\ imports = DOMAIN pages

\* The restored catalog takes over, with workers of its own.
Open ==
    /\ Ready
    /\ live' = restored
    /\ restored' = None
    /\ backup' = None
    /\ opened' = TRUE
    /\ work' = None
    /\ UNCHANGED <<imports, faults, exportVars>>

-----------------------------------------------------------------------------
Traffic(a) == Admit(a) \/ PlaceHold(a) \/ ReleaseHold(a) \/ Delete(a) \/ Claim(a)
WorkerStep == Decline \/ Erase \/ EraseFail \/ FailRead \/ FailWrite
Operator == Backup \/ Restore \/ Export \/ Open \/ \E i \in DOMAIN pages : Apply(i)

Next == (\E a \in Attempt : Traffic(a)) \/ WorkerStep \/ Crash \/ Operator

Spec == Init /\ [][Next]_vars

\* The deletion worker keeps going; a deletion's turn comes, since each of those before
\* it fails at most MaxAttempts times.  Nothing is assumed of users or operators.
FairSpec == Spec /\ (\A a \in Attempt : WF_vars(Claim(a))) /\ WF_vars(WorkerStep)

-----------------------------------------------------------------------------
TypeOK ==
    /\ live \in Catalog
    /\ backup \in Catalog \cup {None}
    /\ restored \in Catalog \cup {None}
    /\ opened \in BOOLEAN
    /\ pages \in Seq(SUBSET [attempt : Attempt, generation : Nat])
    /\ cursor \in Attempt \cup {0, None}
    /\ imports \subseteq DOMAIN pages
    /\ work = None \/ work \in [attempt : Attempt, target : Nat, number : Nat,
                                pc : {"claimed", "failing", "failed", "pending"}]
    /\ due \subseteq Attempt
    /\ faults \in 0..MaxFaults

(* Reconciliation never touches an attempt whose erasure has not completed in the  *)
(* surviving catalog: what the restored catalog has of it is what the backup had.  *)
(* (export_completed_tombstones filters, apply_completed_tombstones changes.)      *)
OnlyErased ==
    restored # None =>
        \A a \in Attempt : restored[a] # backup[a] => live[a].deletion = "completed"

(* When every page of the export has been imported, each attempt whose erasure had *)
(* completed when the export began is fenced in the restored catalog, its cleanup  *)
(* is queued under a fresh budget, and no hold of the backup blocks it.            *)
ReadyToServe ==
    Ready => \A a \in due : LET r == restored[a]
                            IN  /\ r.fenced /\ r.target = r.generation
                                /\ r.deletion = "pending" /\ r.attempts = 0
                                /\ r.hold # "active"

(* Once the restored catalog serves, an attempt that had been erased takes no new  *)
(* evidence, and evidence that came back with the backup is never without a        *)
(* deletion that is still to be carried out, or was given up as failed.            *)
NotResurrected ==
    opened => \A a \in due : /\ live[a].fenced
                             /\ live[a].evidence =>
                                  live[a].deletion \in DeletionState \ {"none", "completed"}

(* A hold that a user places after the restored catalog took over ends only when a *)
(* user releases it: repeating a bundle ("exact bundle replay is safe") does not.  *)
HoldKept ==
    [][\A a \in Attempt :
          opened /\ live[a].hold = "active" /\ live'[a].hold # "active" => ReleaseHold(a)]_vars

(* The evidence of an erased attempt that came back with the backup is erased      *)
(* again, unless a user holds it or the cleanup was given up.                      *)
CleanupEnds ==
    \A a \in Attempt :
        opened /\ a \in due ~> \/ ~live[a].evidence
                               \/ live[a].hold = "active"
                               \/ live[a].deletion = "failed"
=============================================================================
