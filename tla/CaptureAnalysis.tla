---------------------------- MODULE CaptureAnalysis ----------------------------
(***************************************************************************)
(* One capture from the launch to the report: the launcher (runner.py), a  *)
(* rank whose interceptor is EventRecorder in full, a second rank of which *)
(* only the summary's state is kept and whose events are not traced, and   *)
(* the analyzer (analyzer.py), which reads the capture directory file by   *)
(* file, at any time: ranks may still run, or have been killed.            *)
(*                                                                         *)
(* The version 2 schema that load_summary enforces is what EventRecorder   *)
(* writes; versions and run identities are not told apart.                 *)
(***************************************************************************)
EXTENDS EventRecorder

VARIABLES
    other,     \* capture_state of the other rank's summary
    manifest,  \* run.json: "running" as long as it says nothing (see LaunchEnds), or ended
    step,      \* where the analyzer is
    found,     \* the summary files it listed
    own,       \* the traced rank's summary as it was read
    second,    \* the other rank's
    launch,    \* run.json as it was read
    lines,     \* the complete lines of the event file that were read
    torn       \* the last line that was read is not a whole one

analysis == <<step, found, own, second, launch, lines, torn>>
capture == <<vars, other, manifest, analysis>>

CInit ==
    /\ Init
    /\ other = "none"
    /\ manifest = "running"
    /\ step = "list"
    /\ found = {}
    /\ own = NoSummary
    /\ second = "none"
    /\ launch = "running"
    /\ lines = <<>>
    /\ torn = FALSE

-----------------------------------------------------------------------------
(* The launch. *)

\* A step of the traced rank's interceptor.  A rank that is killed takes no more of them.
Rank == Next /\ UNCHANGED <<other, manifest, analysis>>

\* A summary of the other rank.
OtherRank ==
    /\ \/ other = "none" /\ other' = "collecting"
       \/ other = "collecting" /\ other' = "finalized"
    /\ UNCHANGED <<vars, manifest, analysis>>

\* subprocess.run returned, timed out or was interrupted, and run.json is replaced.  A
\* launch that ends with another code than 0 may leave ranks behind, and a launcher that
\* is killed leaves "running".  Nothing in runner.py ties code 0 to MPI_Finalize: a command
\* that returns 0 before both ranks have finalized also counts as "running" here, since
\* the analyzer only asks for a code other than 0 and treats the two alike.
LaunchEnds ==
    /\ manifest = "running"
    /\ \/ manifest' = "failed"
       \/ io = "closed" /\ other = "finalized" /\ manifest' = "completed"
    /\ UNCHANGED <<vars, other, analysis>>

-----------------------------------------------------------------------------
(* analyze. *)

\* load_summaries: there is a summary, and the ones there are are listed ...
ListSummaries ==
    /\ step = "list"
    /\ found' = {r \in {"own", "other"} : IF r = "own" THEN summary.state # "none"
                                                       ELSE other # "none"}
    /\ found' # {}
    /\ step' = "own"
    /\ UNCHANGED <<vars, other, manifest, own, second, launch, lines, torn>>

\* ... and read, in the order of the ranks.
ReadOwn ==
    /\ step = "own"
    /\ own' = IF "own" \in found THEN summary ELSE NoSummary
    /\ step' = "second"
    /\ UNCHANGED <<vars, other, manifest, found, second, launch, lines, torn>>

ReadSecond ==
    /\ step = "second"
    /\ second' = IF "other" \in found THEN other ELSE "none"
    /\ step' = "manifest"
    /\ UNCHANGED <<vars, other, manifest, found, own, launch, lines, torn>>

ReadManifest ==
    /\ step = "manifest"
    /\ launch' = manifest
    /\ step' = "events"
    /\ UNCHANGED <<vars, other, manifest, found, own, second, lines, torn>>

\* The stream's buffer may have been written out up to any byte past the last flush.
ReadEvents ==
    /\ step = "events"
    /\ IF tracing
         THEN \E n \in disk .. Len(file) : /\ lines' = SubSeq(file, 1, n)
                                           /\ torn' \in {FALSE, n < Len(file)}
         ELSE UNCHANGED <<lines, torn>>
    /\ step' = "done"
    /\ UNCHANGED <<vars, other, manifest, found, own, second, launch>>

\* Mutant: the number of summaries is not compared with the number of ranks.
CompleteOfFound ==
    /\ "own" \in found => own.state = "finalized"
    /\ "other" \in found => second = "finalized"
    /\ launch # "failed"

\* "complete" is true in the summaries of all ranks, and run.json has no return code
\* other than 0.
Complete ==
    /\ found = {"own", "other"}
    /\ own.state = "finalized"
    /\ second = "finalized"
    /\ launch # "failed"

Increasing(q) == \A i, j \in DOMAIN q : i < j => q[i] < q[j]

\* _load_communication_edges skips a line that is no JSON object and one whose sequence
\* number is not above that of the last one it took.
Rejected == torn \/ ~Increasing(lines)

\* coverage["event_detail"]
EventDetail ==
    CASE ~tracing -> "unavailable"
      [] own.dropped # 0 \/ own.failed \/ Rejected -> "partial"
      [] OTHER -> "observed"

-----------------------------------------------------------------------------
Analyze == ListSummaries \/ ReadOwn \/ ReadSecond \/ ReadManifest \/ ReadEvents

CNext == Rank \/ OtherRank \/ LaunchEnds \/ Analyze

CSpec == CInit /\ [][CNext]_capture

\* The rank is not killed: its writer thread is scheduled and its waits end.
CFairSpec == CSpec /\ WF_capture(IOStep /\ UNCHANGED <<other, manifest, analysis>>)

-----------------------------------------------------------------------------
CTypeOK ==
    /\ TypeOK
    /\ torn \in BOOLEAN
    /\ {other, second} \subseteq {"none", "collecting", "finalized"}
    /\ {manifest, launch} \subseteq {"running", "completed", "failed"}
    /\ step \in {"list", "own", "second", "manifest", "events", "done"}
    /\ found \subseteq {"own", "other"}
    /\ own \in SummaryType
    /\ lines \in Seq(Nat)

(* A capture that is reported complete is: every rank had returned from MPI_Finalize,  *)
(* with success, before its summary was read, so the totals are those of all its calls *)
(* and nothing a rank does later changes them.                                         *)
CompleteIsFinal ==
    step = "done" /\ Complete =>
        /\ own.calls = calls /\ own = summary
        /\ other = "finalized"
        /\ launch = "running" \/ manifest = "completed"

(* The analyzer reads summaries before events, and a summary is published after its    *)
(* events are flushed: whenever event detail is reported as observed, the events read  *)
(* are all those up to the summary, in whatever state the rank was or died; and of a   *)
(* complete capture they are all there ever were.  A stream that broke is the          *)
(* exception: nothing in a summary tells of it.  No whole line is ever rejected for    *)
(* its sequence number, although the buffers change places while threads fill them     *)
(* and a failed writer leaves its own to MPI_Finalize.                                 *)
DetailIsObserved ==
    /\ Increasing(lines)
    /\ step = "done" /\ EventDetail = "observed" /\ ~broken =>
           /\ own.written <= Len(lines)
           /\ Complete => Len(lines) = sequence
===============================================================================
