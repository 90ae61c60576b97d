---------------------------- MODULE EventRecorder ----------------------------
(***************************************************************************)
(* The Recorder of the MPI interceptor (ranklens_mpi.cpp): the application *)
(* threads count calls and stage events in a bounded buffer, a writer      *)
(* thread drains the buffer into the event file and publishes summaries,   *)
(* and MPI_Finalize stops the writer and publishes the last one.           *)
(*                                                                         *)
(* state_mutex_ makes each access to the counters and to the active buffer *)
(* one step; everything else the writer does interleaves with the          *)
(* application.  After the writer is joined MPI_Finalize runs the same     *)
(* drain and snapshot code itself, so one program counter, io, serves both.*)
(***************************************************************************)
EXTENDS Integers, Sequences, FiniteSets

CONSTANTS
    Capacity,   \* event_buffer_capacity_
    MaxEvents,  \* max_events_
    MaxCalls    \* bound: instrumented calls

ASSUME RecorderAssumption ==
    Capacity \in Nat /\ MaxEvents \in Nat /\ MaxCalls \in Nat

VARIABLES
    tracing,   \* trace_events_
    calls,     \* recorded calls (api_calls_ + request_completions_)
    sequence,  \* event_sequence_
    accepted,  \* events_accepted_
    dropped,   \* events_dropped_
    written,   \* events_written_
    active,    \* active_events_: sequence numbers of staged events
    staging,   \* staging_events_
    file,      \* events inserted into event_stream_
    disk,      \* number of them that were flushed
    broken,    \* a write failed: event_stream_ is false
    captured,  \* the snapshot being written
    summary,   \* rank-N-summary.json
    stop,      \* stop_requested_
    failed,    \* writer_failed_
    io,        \* where the writer, or MPI_Finalize after the join, is
    mode       \* capture_state of the snapshot at the end of this pass

vars == <<tracing, calls, sequence, accepted, dropped, written, active, staging, file, disk,
          broken, captured, summary, stop, failed, io, mode>>
counters == <<tracing, calls, sequence, accepted, dropped>>

\* The counters of a summary; sequence is not among them in the file.
Snapshot == [state |-> mode, calls |-> calls, sequence |-> sequence, dropped |-> dropped,
             written |-> written, failed |-> failed]
NoSummary == [state |-> "none", calls |-> 0, sequence |-> 0, dropped |-> 0, written |-> 0,
              failed |-> FALSE]

Init ==
    /\ tracing \in BOOLEAN
    /\ calls = 0 /\ sequence = 0 /\ accepted = 0 /\ dropped = 0 /\ written = 0
    /\ active = <<>> /\ staging = <<>> /\ file = <<>> /\ disk = 0 /\ broken = FALSE
    /\ captured = NoSummary /\ summary = NoSummary
    /\ stop = FALSE /\ failed = FALSE /\ io = "top" /\ mode = "collecting"

-----------------------------------------------------------------------------
(* The application. *)

\* Mutant: a dropped event takes no sequence number.
StageUnnumbered ==
    IF accepted >= MaxEvents \/ Len(active) >= Capacity
    THEN /\ dropped' = dropped + 1
         /\ UNCHANGED <<sequence, accepted, active>>
    ELSE /\ active' = Append(active, sequence)
         /\ accepted' = accepted + 1
         /\ sequence' = sequence + 1
         /\ UNCHANGED dropped

Stage ==
    /\ sequence' = sequence + 1
    /\ IF accepted >= MaxEvents \/ Len(active) >= Capacity
       THEN /\ dropped' = dropped + 1
            /\ UNCHANGED <<accepted, active>>
       ELSE /\ active' = Append(active, sequence)
            /\ accepted' = accepted + 1
            /\ UNCHANGED dropped

\* record, called by any thread before MPI_Finalize.
Record ==
    /\ ~stop
    /\ calls < MaxCalls
    /\ calls' = calls + 1
    /\ IF tracing THEN Stage ELSE UNCHANGED <<sequence, accepted, dropped, active>>
    /\ UNCHANGED <<tracing, written, staging, file, disk, broken, captured, summary, stop,
                   failed, io, mode>>

\* MPI_Finalize: stop_writer asks the writer to end ...
Finalize ==
    /\ ~stop
    /\ stop' = TRUE
    /\ UNCHANGED <<counters, written, active, staging, file, disk, broken, captured, summary,
                   failed, io, mode>>

\* ... joins it, calls PMPI_Finalize and goes on in finish_finalize.
Join ==
    /\ io = "exit"
    /\ mode' \in {"finalized", "finalize_failed"}
    /\ io' = "drain"
    /\ UNCHANGED <<counters, written, active, staging, file, disk, broken, captured, summary,
                   stop, failed>>

-----------------------------------------------------------------------------
(* writer_loop, drain_events and write_snapshot. *)

\* Mutant: the loop does not look at stop_requested_.
WakeDeaf ==
    /\ io = "top"
    /\ mode' = "collecting"
    /\ io' = "drain"
    /\ UNCHANGED <<counters, written, active, staging, file, disk, broken, captured, summary,
                   stop, failed>>

\* The wait of 100 ms is over (notify_one alone never ends it: the predicate of the wait
\* is stop_requested_), or the loop is.
Wake ==
    /\ io = "top"
    /\ mode' = IF stop THEN "pre_finalize" ELSE "collecting"
    /\ io' = "drain"
    /\ UNCHANGED <<counters, written, active, staging, file, disk, broken, captured, summary,
                   stop, failed>>

DrainSkip ==
    /\ io = "drain"
    /\ ~tracing \/ broken
    /\ io' = "snapshot"
    /\ UNCHANGED <<counters, written, active, staging, file, disk, broken, captured, summary,
                   stop, failed, mode>>

DrainSwap ==
    /\ io = "drain"
    /\ tracing /\ ~broken
    /\ active' = staging /\ staging' = active
    /\ io' = "write"
    /\ UNCHANGED <<counters, written, file, disk, broken, captured, summary, stop, failed, mode>>

\* The stream takes all of the staged events, or fails after some of them.
DrainWrite ==
    /\ io = "write"
    /\ \E n \in 0 .. Len(staging) :
           /\ file' = file \o SubSeq(staging, 1, n)
           /\ broken' = (n < Len(staging))
    /\ io' = "count"
    /\ UNCHANGED <<counters, written, active, staging, disk, captured, summary, stop, failed, mode>>

DrainCount ==
    /\ io = "count"
    /\ written' = written + Len(staging)
    /\ staging' = <<>>
    /\ io' = "snapshot"
    /\ UNCHANGED <<counters, active, file, disk, broken, captured, summary, stop, failed, mode>>

\* A periodic snapshot is not due yet.
SnapshotSkip ==
    /\ io = "snapshot" /\ mode = "collecting"
    /\ io' = "top"
    /\ UNCHANGED <<counters, written, active, staging, file, disk, broken, captured, summary,
                   stop, failed, mode>>

\* capture_snapshot.
SnapshotCapture ==
    /\ io = "snapshot"
    /\ captured' = Snapshot
    /\ io' = "flush"
    /\ UNCHANGED <<counters, written, active, staging, file, disk, broken, summary, stop,
                   failed, mode>>

\* Mutant: the summary is published and the stream flushed some time later.
SnapshotUnflushed ==
    /\ io = "flush"
    /\ io' = "publish"
    /\ UNCHANGED <<counters, written, active, staging, file, disk, broken, captured, summary,
                   stop, failed, mode>>

\* A flush that fails breaks the stream.
SnapshotFlush ==
    /\ io = "flush"
    /\ IF broken THEN UNCHANGED <<disk, broken>>
       ELSE \/ disk' = Len(file) /\ UNCHANGED broken
            \/ broken' = TRUE /\ UNCHANGED disk
    /\ io' = "publish"
    /\ UNCHANGED <<counters, written, active, staging, file, captured, summary, stop, failed, mode>>

AfterSnapshot ==
    io' = CASE mode = "collecting" -> "top"
            [] mode = "pre_finalize" -> "exit"
            [] OTHER -> "closed"

\* The rename succeeds, or the summary file could not be written.
SnapshotPublish ==
    /\ io = "publish"
    /\ summary' \in {summary, captured}
    /\ AfterSnapshot
    /\ UNCHANGED <<counters, written, active, staging, file, disk, broken, captured, stop,
                   failed, mode>>

\* An exception, after some of the staged events were inserted or before the summary is
\* in place, ends the writer for good, or finish_finalize.
Throw ==
    /\ \/ /\ io = "write"
          /\ \E n \in 0 .. Len(staging) : file' = file \o SubSeq(staging, 1, n)
       \/ io = "publish" /\ UNCHANGED file
    /\ IF mode \in {"collecting", "pre_finalize"} THEN io' = "dead" /\ failed' = TRUE
       ELSE io' = "closed" /\ UNCHANGED failed
    /\ UNCHANGED <<counters, written, active, staging, disk, broken, captured, summary, stop, mode>>

\* The writer that failed is joined too.
JoinFailed ==
    /\ io = "dead" /\ stop
    /\ io' = "exit"
    /\ UNCHANGED <<counters, written, active, staging, file, disk, broken, captured, summary,
                   stop, failed, mode>>

IOStep ==
    \/ Wake \/ DrainSkip \/ DrainSwap \/ DrainWrite \/ DrainCount
    \/ SnapshotSkip \/ SnapshotCapture \/ SnapshotFlush \/ SnapshotPublish
    \/ Join \/ JoinFailed

Next == Record \/ Finalize \/ Throw \/ IOStep

Spec == Init /\ [][Next]_vars

\* The writer thread is scheduled and its waits end.
FairSpec == Spec /\ WF_vars(IOStep)

-----------------------------------------------------------------------------
SummaryType ==
    [state: {"none", "collecting", "pre_finalize", "finalized", "finalize_failed"},
     calls: Nat, sequence: Nat, dropped: Nat, written: Nat, failed: BOOLEAN]

TypeOK ==
    /\ tracing \in BOOLEAN /\ broken \in BOOLEAN /\ stop \in BOOLEAN /\ failed \in BOOLEAN
    /\ calls \in Nat /\ sequence \in Nat /\ accepted \in Nat /\ dropped \in Nat
    /\ written \in Nat /\ disk \in Nat
    /\ active \in Seq(Nat) /\ staging \in Seq(Nat) /\ file \in Seq(Nat)
    /\ Len(active) <= Capacity /\ Len(staging) <= Capacity
    /\ accepted <= MaxEvents /\ disk <= Len(file)
    /\ captured \in SummaryType /\ summary \in SummaryType
    /\ io \in {"top", "drain", "write", "count", "snapshot", "flush", "publish", "exit",
               "dead", "closed"}
    /\ mode \in {"collecting", "pre_finalize", "finalized", "finalize_failed"}

\* No event vanishes: each has a sequence number, and is counted as dropped or as written
\* or is in one of the buffers.
Accounted ==
    /\ sequence = accepted + dropped
    /\ accepted = written + Len(staging) + Len(active)

\* A summary never claims events that a reader of the event file would miss, were the
\* process to die now: the flush comes before the rename, and the count before the flush.
SummaryBacked == ~broken => summary.written <= disk

\* The analyzer takes a finalized summary without drops and without writer_failed for
\* complete event coverage: every event up to it is then in the file.
CoverageHonest ==
    summary.state = "finalized" /\ summary.dropped = 0 /\ ~summary.failed /\ ~broken =>
        disk = summary.sequence /\ summary.sequence = sequence

\* MPI_Finalize returns: stop_writer's join does not wait for ever for a writer that
\* failed, slept or was busy.
FinalizeReturns == stop ~> io = "closed"

=============================================================================
