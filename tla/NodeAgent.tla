------------------------------ MODULE NodeAgent ------------------------------
(***************************************************************************)
(* The Go node agent (agent/main.go): it reads capture files that grow,    *)
(* seals their new records into spool segments with consecutive sequence   *)
(* numbers, saves its cursors, and replays the spool to the ingest API.    *)
(*                                                                         *)
(* Every file write is atomic (writeAtomic), but a crash may fall between  *)
(* two of them.  An error in collect exits the process, which its          *)
(* supervisor starts again; an error in drain ends the pass.  The API is   *)
(* seen as SegmentLifecycle's admission is from outside: it takes a        *)
(* segment that meets no other, answers a replay with its receipt and      *)
(* refuses an overlap.                                                     *)
(***************************************************************************)
EXTENDS Integers, Sequences, FiniteSets

CONSTANTS
    Files,       \* capture files, in the order of their names
    StreamOf,    \* "mpi-events" or "rank-summary" for each file
    MaxRecords,  \* bound: records of an event file, versions of a summary
    MaxChunk,    \* records that fit into the 8 MiB one pass reads
    Quota,       \* pending segments that fit into MaxSpoolBytes
    MaxCrashes   \* bound: crashes of the agent

File == {Files[i] : i \in DOMAIN Files}
Stream == {"mpi-events", "rank-summary"}

ASSUME AgentAssumption ==
    /\ Files \in Seq(File)
    /\ \A i, j \in DOMAIN Files : Files[i] = Files[j] => i = j
    /\ StreamOf \in [File -> Stream]
    /\ MaxRecords \in Nat /\ Quota \in Nat /\ MaxCrashes \in Nat
    /\ MaxChunk \in Nat \ {0}

VARIABLES
    capture,   \* complete records of an event file; version of a summary
    saved,     \* state.json: next sequence of each stream, cursor of each file
    pending,   \* sealed segments in the spool
    receipts,  \* segments whose receipt is on disk
    accepted,  \* segments the API has admitted
    pc,        \* where the agent is
    memory,    \* agent.state
    index,     \* the file collect looks at
    queue,     \* what this pass of drain still has to send
    crashes    \* crashes so far

vars == <<capture, saved, pending, receipts, accepted, pc, memory, index, queue, crashes>>

FreshState == [next |-> [x \in Stream |-> 0], cursor |-> [f \in File |-> 0]]

Init ==
    /\ capture = [f \in File |-> 0]
    /\ saved = FreshState /\ memory = FreshState
    /\ pending = {} /\ receipts = {} /\ accepted = {}
    /\ pc = "down" /\ index = 1 /\ queue = <<>>
    /\ crashes = 0

-----------------------------------------------------------------------------
(* Segments. *)

Meets(s, t) == s.stream = t.stream /\ s.first <= t.last /\ s.last >= t.first
SameName(s, t) == s.stream = t.stream /\ s.first = t.first /\ s.last = t.last

\* The records of file f after its cursor: as many complete lines as one read
\* holds, or the summary's present version.
Unread(f) ==
    LET from == memory.cursor[f]
        to == IF capture[f] <= from + MaxChunk THEN capture[f] ELSE from + MaxChunk
    IN  IF StreamOf[f] = "mpi-events" THEN (from + 1) .. to ELSE {capture[f]} \ {from}

\* Where the cursor of f stands once those records are sealed.
CursorAfter(f) ==
    IF StreamOf[f] = "mpi-events" THEN memory.cursor[f] + Cardinality(Unread(f))
                                  ELSE capture[f]

Sealed(f) ==
    LET first == memory.next[StreamOf[f]]
    IN  [stream |-> StreamOf[f], first |-> first, last |-> first + Cardinality(Unread(f)) - 1,
         records |-> {<<f, n>> : n \in Unread(f)}]

\* Names of pending files sort by stream, first and last sequence.  Of the stream they
\* have the first bytes of its SHA-256: e073f090 for mpi-events, e1cec866 for rank-summary.
Before(s, t) ==
    \/ s.stream = "mpi-events" /\ t.stream = "rank-summary"
    \/ s.stream = t.stream /\ s.first < t.first
    \/ s.stream = t.stream /\ s.first = t.first /\ s.last < t.last

Sorted(S) ==
    CHOOSE q \in [1 .. Cardinality(S) -> S] :
        \A i, j \in 1 .. Cardinality(S) : i < j => Before(q[i], q[j])

-----------------------------------------------------------------------------
(* Start and end of the process. *)

\* newAgent loads the saved state.
Start ==
    /\ pc = "down"
    /\ memory' = saved
    /\ pc' = "collect" /\ index' = 1
    /\ UNCHANGED <<capture, saved, pending, receipts, accepted, queue, crashes>>

Exit ==
    /\ pc' = "down" /\ index' = 1 /\ queue' = <<>>
    /\ memory' = FreshState

\* The process ends at any point: killed, or by an error that CollectRefuse leaves out.
Crash ==
    /\ pc # "down"
    /\ crashes < MaxCrashes
    /\ crashes' = crashes + 1
    /\ Exit
    /\ UNCHANGED <<capture, saved, pending, receipts, accepted>>

-----------------------------------------------------------------------------
(* collect. *)

Here == Files[index]
Collecting == pc = "collect" /\ index <= Len(Files)

CollectSkip ==
    /\ Collecting
    /\ Unread(Here) = {}
    /\ index' = index + 1
    /\ UNCHANGED <<capture, saved, pending, receipts, accepted, pc, memory, queue, crashes>>

\* Mutants: the sequence does not move; the cursor counts the incomplete last line too.
SequenceStays(f) == [memory EXCEPT !.cursor[f] = CursorAfter(f)]
CursorSkips(f) ==
    [memory EXCEPT !.next[StreamOf[f]] = Sealed(f).last + 1, !.cursor[f] = CursorAfter(f) + 1]

Advanced(f) ==
    [memory EXCEPT !.next[StreamOf[f]] = Sealed(f).last + 1, !.cursor[f] = CursorAfter(f)]

\* spoolPayload: a new file under the quota, or a file of that name with the very
\* same bytes.  The bytes hold a measurement of the node's budgets, so the same
\* records may or may not encode to the same bytes again.
CollectSeal ==
    LET s == Sealed(Here)
        named == {t \in pending : SameName(s, t)}
    IN  /\ Collecting
        /\ Unread(Here) # {}
        /\ IF named = {} THEN Cardinality(pending) < Quota ELSE s \in named
        /\ pending' = pending \cup {s}
        /\ memory' = Advanced(Here)
        /\ pc' = "save"
        /\ UNCHANGED <<capture, saved, receipts, accepted, index, queue, crashes>>

\* The quota is used up, or the name exists with other bytes: collect returns an
\* error, and main exits before it drains.  The errors that depend on what is in the
\* files or on the node (a malformed or oversized record, a file that shrank, a budget
\* exceeded) end the process in the same way at the same point: they are among the
\* crashes.
CollectRefuse ==
    LET s == Sealed(Here)
    IN  /\ Collecting
        /\ Unread(Here) # {}
        /\ \/ \E t \in pending : SameName(s, t)
           \/ Cardinality(pending) >= Quota
        /\ Exit
        /\ UNCHANGED <<capture, saved, pending, receipts, accepted, crashes>>

CollectSave ==
    /\ pc = "save"
    /\ saved' = memory
    /\ pc' = "collect" /\ index' = index + 1
    /\ UNCHANGED <<capture, pending, receipts, accepted, memory, queue, crashes>>

-----------------------------------------------------------------------------
(* drain. *)

DrainBegin ==
    /\ pc = "collect" /\ index > Len(Files)
    /\ pc' = "drain" /\ queue' = Sorted(pending)
    /\ UNCHANGED <<capture, saved, pending, receipts, accepted, memory, index, crashes>>

\* The pass is over, or failed; the next one begins after the interval.
EndPass ==
    /\ pc' = "collect" /\ index' = 1 /\ queue' = <<>>

DrainEnd ==
    /\ pc = "drain" /\ queue = <<>>
    /\ EndPass
    /\ UNCHANGED <<capture, saved, pending, receipts, accepted, memory, crashes>>

\* The API takes s, or has it already.
Admits(s) == \A t \in accepted : Meets(s, t) => SameName(s, t) /\ s.records = t.records

\* The API's answer arrives: a durable receipt.
DrainPost ==
    /\ pc = "drain" /\ queue # <<>>
    /\ Admits(Head(queue))
    /\ accepted' = accepted \cup {Head(queue)}
    /\ pc' = "receipt"
    /\ UNCHANGED <<capture, saved, pending, receipts, memory, index, queue, crashes>>

\* Mutant: the next segment is sent although this one was refused.
DrainOn ==
    /\ pc = "drain" /\ queue # <<>>
    /\ UNCHANGED accepted
    /\ queue' = Tail(queue)
    /\ UNCHANGED <<capture, saved, pending, receipts, memory, index, pc, crashes>>

\* No answer (the request or its response is lost), or a refusal.
DrainFail ==
    /\ pc = "drain" /\ queue # <<>>
    /\ \/ UNCHANGED accepted
       \/ Admits(Head(queue)) /\ accepted' = accepted \cup {Head(queue)}
    /\ EndPass
    /\ UNCHANGED <<capture, saved, pending, receipts, memory, crashes>>

DrainReceipt ==
    /\ pc = "receipt"
    /\ receipts' = receipts \cup {Head(queue)}
    /\ pc' = "remove"
    /\ UNCHANGED <<capture, saved, pending, accepted, memory, index, queue, crashes>>

DrainRemove ==
    /\ pc = "remove"
    /\ pending' = pending \ {Head(queue)}
    /\ pc' = "drain" /\ queue' = Tail(queue)
    /\ UNCHANGED <<capture, saved, receipts, accepted, memory, index, crashes>>

-----------------------------------------------------------------------------

\* The profiled program completes a record, or rewrites its summary.
Capture(f) ==
    /\ capture[f] < MaxRecords
    /\ capture' = [capture EXCEPT ![f] = @ + 1]
    /\ UNCHANGED <<saved, pending, receipts, accepted, pc, memory, index, queue, crashes>>

AgentStep ==
    \/ Start \/ CollectSkip \/ CollectSeal \/ CollectRefuse \/ CollectSave
    \/ DrainBegin \/ DrainPost \/ DrainFail \/ DrainReceipt \/ DrainRemove \/ DrainEnd

Next == AgentStep \/ Crash \/ \E f \in File : Capture(f)

Spec == Init /\ [][Next]_vars

\* The agent is restarted and keeps running, and the API can be reached again and
\* again.
FairSpec == Spec /\ WF_vars(AgentStep) /\ SF_vars(DrainPost)

-----------------------------------------------------------------------------
AgentState == [next: [Stream -> Nat], cursor: [File -> Nat]]
SegmentType == [stream: Stream, first: Nat, last: Nat, records: SUBSET (File \X Nat)]

TypeOK ==
    /\ capture \in [File -> Nat]
    /\ saved \in AgentState /\ memory \in AgentState
    /\ pending \subseteq SegmentType
    /\ receipts \subseteq SegmentType /\ accepted \subseteq SegmentType
    /\ pc \in {"down", "collect", "save", "drain", "receipt", "remove"}
    /\ index \in 1 .. Len(Files) + 1
    /\ queue \in Seq(SegmentType)
    /\ \A i \in DOMAIN queue : queue[i] \in pending
    /\ crashes \in Nat

\* Nothing is skipped: what lies before the saved cursor is in the spool or at the
\* API, wherever the agent crashed (collect: spool, then state).
InHand == UNION {s.records : s \in pending \cup accepted}
NothingSkipped ==
    \A f \in File :
        IF StreamOf[f] = "mpi-events" THEN \A n \in 1 .. saved.cursor[f] : <<f, n>> \in InHand
        ELSE saved.cursor[f] > 0 => <<f, saved.cursor[f]>> \in InHand

\* No record reaches the API under two sequence numbers, although a crash between
\* spool and state seals records again under other ranges: the segment the API
\* refuses stops the pass before any that could repeat a record.
DeliveredOnce ==
    \A s, t \in accepted : s.records \cap t.records # {} => s = t

Delivered(r) == \E s \in accepted : r \in s.records

\* "safely replays after outages" (CHANGELOG.md:15), as far as the code keeps it: while
\* the agent does not crash, and with a Quota that everything fits in, lost requests and
\* lost responses only delay the delivery of a sealed segment.
OutageReplayed ==
    \A f \in File : \A n \in 1 .. MaxRecords :
        (\E s \in pending : <<f, n>> \in s.records) ~> (Delivered(<<f, n>>) \/ crashes > 0)

=============================================================================
