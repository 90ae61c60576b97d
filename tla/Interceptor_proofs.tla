-------------------------- MODULE Interceptor_proofs --------------------------
(***************************************************************************)
(* Proofs about the MPI interceptor.  First EventRecorder and the capture  *)
(* that CaptureAnalysis makes of it, for every buffer capacity and event   *)
(* limit and any number of calls: nothing the interceptor or the analyzer  *)
(* reports about events claims more than the event file holds.  Then       *)
(* RequestTracking, for any threads, handles, limit and number of          *)
(* requests: what the request table holds, and for whom.                   *)
(***************************************************************************)
EXTENDS CaptureAnalysis, RequestTracking, FiniteSetTheorems, TLAPS

LEMMA TypeInit == Init => TypeOK
<1>1. NoSummary \in SummaryType
  BY DEF NoSummary, SummaryType
<1>2. <<>> \in Seq(Nat) /\ Len(<<>>) = 0
  OBVIOUS
<1>3. Init => tracing \in BOOLEAN /\ broken \in BOOLEAN /\ stop \in BOOLEAN /\ failed \in BOOLEAN
  BY Zenon DEF Init
<1>4. Init => /\ calls \in Nat /\ sequence \in Nat /\ accepted \in Nat /\ dropped \in Nat
              /\ written \in Nat /\ disk \in Nat /\ accepted <= MaxEvents
  BY RecorderAssumption DEF Init
<1>5. Init => /\ active \in Seq(Nat) /\ staging \in Seq(Nat) /\ file \in Seq(Nat)
              /\ Len(active) <= Capacity /\ Len(staging) <= Capacity /\ disk <= Len(file)
  BY <1>2, RecorderAssumption DEF Init
<1>6. Init => /\ captured \in SummaryType /\ summary \in SummaryType
              /\ io = "top" /\ mode = "collecting"
  BY <1>1 DEF Init
<1> QED
  BY <1>3, <1>4, <1>5, <1>6 DEF TypeOK

(* The first n elements of a sequence. *)
LEMMA PrefixOf ==
  ASSUME NEW t \in Seq(Nat), NEW n \in 0 .. Len(t)
  PROVE  /\ SubSeq(t, 1, n) \in Seq(Nat) /\ Len(SubSeq(t, 1, n)) = n
         /\ \A k \in 1 .. n : SubSeq(t, 1, n)[k] = t[k]
<1>1. n \in Nat /\ Len(t) \in Nat /\ 1 .. n \subseteq 1 .. Len(t)
  OBVIOUS
<1>2. SubSeq(t, 1, n) \in Seq(Nat)
  BY <1>1
<1>3. Len(SubSeq(t, 1, n)) = n
  BY <1>1
<1>4. \A k \in 1 .. n : SubSeq(t, 1, n)[k] = t[k]
  BY <1>1
<1> QED
  BY <1>2, <1>3, <1>4

(* What a prefix adds to a sequence. *)
LEMMA AppendPrefix ==
  ASSUME NEW s \in Seq(Nat), NEW t \in Seq(Nat), NEW n \in 0 .. Len(t)
  PROVE  s \o SubSeq(t, 1, n) \in Seq(Nat) /\ Len(s \o SubSeq(t, 1, n)) = Len(s) + n
<1>1. SubSeq(t, 1, n) \in Seq(Nat) /\ Len(SubSeq(t, 1, n)) = n
  BY PrefixOf
<1> QED
  BY <1>1

LEMMA StageType ==
  ASSUME TypeOK, Stage
  PROVE  /\ sequence' = sequence + 1
         /\ \/ dropped' = dropped + 1 /\ accepted' = accepted /\ active' = active
            \/ /\ dropped' = dropped /\ accepted' = accepted + 1 /\ accepted' <= MaxEvents
               /\ active' \in Seq(Nat) /\ Len(active') = Len(active) + 1
               /\ Len(active') <= Capacity
<1>1. /\ active \in Seq(Nat) /\ sequence \in Nat /\ accepted \in Nat
      /\ Len(active) \in Nat
  BY DEF TypeOK
<1>2. /\ Append(active, sequence) \in Seq(Nat)
      /\ Len(Append(active, sequence)) = Len(active) + 1
  BY <1>1
<1>3. CASE accepted >= MaxEvents \/ Len(active) >= Capacity
  BY <1>3 DEF Stage
<1>4. CASE ~(accepted >= MaxEvents \/ Len(active) >= Capacity)
  BY <1>1, <1>2, <1>4, RecorderAssumption DEF Stage
<1> QED
  BY <1>3, <1>4

(* What a flush may do. *)
LEMMA FlushEffect ==
  ASSUME TypeOK, SnapshotFlush
  PROVE  /\ disk' = disk \/ disk' = Len(file)
         /\ broken' \in BOOLEAN
         /\ ~broken' => ~broken /\ disk' = Len(file)
<1>1. CASE broken
  <2>1. disk' = disk /\ broken' = broken
    BY <1>1 DEF SnapshotFlush
  <2> QED
    BY <1>1, <2>1 DEF TypeOK
<1>2. CASE ~broken
  <2>1. CASE disk' = Len(file) /\ broken' = broken
    BY <1>2, <2>1 DEF TypeOK
  <2>2. CASE broken' = TRUE /\ disk' = disk
    BY <2>2
  <2> QED
    BY <1>2, <2>1, <2>2 DEF SnapshotFlush
<1> QED
  BY <1>1, <1>2

LEMMA TypeStep == TypeOK /\ [Next]_vars => TypeOK'
<1> SUFFICES ASSUME TypeOK, [Next]_vars PROVE TypeOK'
  OBVIOUS
<1> USE RecorderAssumption DEF TypeOK, counters
<1>1. CASE Record
  <2>1. CASE tracing
    <3>1. Stage
      BY <1>1, <2>1 DEF Record
    <3>2. /\ sequence' \in Nat /\ dropped' \in Nat /\ accepted' \in Nat /\ active' \in Seq(Nat)
          /\ Len(active') <= Capacity /\ accepted' <= MaxEvents
      <4>1. sequence \in Nat /\ dropped \in Nat /\ accepted \in Nat /\ active \in Seq(Nat)
            /\ Len(active) <= Capacity /\ accepted <= MaxEvents
        OBVIOUS
      <4> HIDE DEF TypeOK
      <4> QED
        BY <3>1, <4>1, StageType
    <3> QED
      BY <1>1, <3>2 DEF Record
  <2>2. CASE ~tracing
    BY <1>1, <2>2 DEF Record
  <2> QED
    BY <2>1, <2>2
<1>2. CASE Finalize
  BY <1>2 DEF Finalize
<1>3. CASE Throw
  <2>1. file' \in Seq(Nat) /\ Len(file') >= Len(file)
    <3>1. CASE \E n \in 0 .. Len(staging) : file' = file \o SubSeq(staging, 1, n)
      BY <3>1, AppendPrefix
    <3>2. CASE UNCHANGED file
      BY <3>2
    <3> QED
      BY <1>3, <3>1, <3>2 DEF Throw
  <2>2. io' \in {"dead", "closed"} /\ failed' \in BOOLEAN
    BY <1>3 DEF Throw
  <2> QED
    BY <1>3, <2>1, <2>2 DEF Throw
<1>4. CASE Wake
  BY <1>4 DEF Wake
<1>5. CASE DrainSkip
  BY <1>5 DEF DrainSkip
<1>6. CASE DrainSwap
  BY <1>6 DEF DrainSwap
<1>7. CASE DrainWrite
  <2>1. file' \in Seq(Nat) /\ Len(file') >= Len(file) /\ broken' \in BOOLEAN
    <3>1. PICK n \in 0 .. Len(staging) : /\ file' = file \o SubSeq(staging, 1, n)
                                         /\ broken' = (n < Len(staging))
      BY <1>7 DEF DrainWrite
    <3>2. file' \in Seq(Nat) /\ Len(file') = Len(file) + n
      BY <3>1, AppendPrefix
    <3>3. broken' \in BOOLEAN
      BY <3>1
    <3> QED
      BY <3>2, <3>3
  <2> QED
    BY <1>7, <2>1 DEF DrainWrite
<1>8. CASE DrainCount
  BY <1>8 DEF DrainCount
<1>9. CASE SnapshotSkip
  BY <1>9 DEF SnapshotSkip
<1>10. CASE SnapshotCapture
  <2>1. captured' \in SummaryType
    BY <1>10 DEF SnapshotCapture, Snapshot, SummaryType
  <2> QED
    BY <1>10, <2>1 DEF SnapshotCapture
<1>11. CASE SnapshotFlush
  <2>1. disk' \in Nat /\ disk' <= Len(file) /\ broken' \in BOOLEAN
    <3>1. Len(file) \in Nat
      OBVIOUS
    <3>2. disk' = disk \/ disk' = Len(file)
      BY <1>11, FlushEffect
    <3>3. broken' \in BOOLEAN
      BY <1>11, FlushEffect
    <3> QED
      BY <3>1, <3>2, <3>3
  <2> QED
    BY <1>11, <2>1 DEF SnapshotFlush
<1>12. CASE SnapshotPublish
  <2>1. io' \in {"top", "exit", "closed"}
    BY <1>12 DEF SnapshotPublish, AfterSnapshot
  <2>2. summary' \in SummaryType
    BY <1>12 DEF SnapshotPublish
  <2> QED
    BY <1>12, <2>1, <2>2 DEF SnapshotPublish
<1>13. CASE Join
  BY <1>13 DEF Join
<1>14. CASE JoinFailed
  BY <1>14 DEF JoinFailed
<1>15. CASE UNCHANGED vars
  BY <1>15 DEF vars
<1> QED
  BY <1>1, <1>2, <1>3, <1>4, <1>5, <1>6, <1>7, <1>8, <1>9, <1>10, <1>11, <1>12, <1>13,
     <1>14, <1>15 DEF Next, IOStep

(* The state keeps its types; the buffers never outgrow the capacity and no more than *)
(* max_events_ events are accepted.                                                   *)
THEOREM TypeCorrect == Spec => []TypeOK
<1> QED
  BY TypeInit, TypeStep, PTL DEF Spec

-----------------------------------------------------------------------------
(* The counters.  Accounted is inductive with the types. *)

LEMMA AccountedStep == TypeOK /\ Accounted /\ [Next]_vars => Accounted'
<1> SUFFICES ASSUME TypeOK, Accounted, [Next]_vars PROVE Accounted'
  OBVIOUS
<1>0. /\ calls \in Nat /\ sequence \in Nat /\ accepted \in Nat /\ dropped \in Nat /\ written \in Nat
      /\ Len(active) \in Nat /\ Len(staging) \in Nat
  BY DEF TypeOK
<1> USE DEF Accounted, counters
<1>1. CASE Record
  <2>1. CASE tracing
    <3>1. Stage
      BY <1>1, <2>1 DEF Record
    <3>2. written' = written /\ staging' = staging
      BY <1>1 DEF Record
    <3>3. /\ sequence' = sequence + 1
          /\ \/ dropped' = dropped + 1 /\ accepted' = accepted /\ active' = active
             \/ dropped' = dropped /\ accepted' = accepted + 1 /\ Len(active') = Len(active) + 1
      BY <3>1, StageType
    <3> QED
      BY <1>0, <3>2, <3>3
  <2>2. CASE ~tracing
    BY <1>1, <2>2 DEF Record
  <2> QED
    BY <2>1, <2>2
<1>2. CASE DrainSwap
  BY <1>0, <1>2 DEF DrainSwap
<1>3. CASE DrainCount
  <2>1. Len(<<>>) = 0
    OBVIOUS
  <2> QED
    BY <1>0, <1>3, <2>1 DEF DrainCount
<1>4. CASE UNCHANGED <<sequence, accepted, dropped, written, active, staging>>
  BY <1>4
<1> QED
  BY <1>1, <1>2, <1>3, <1>4
     DEF Next, IOStep, vars, Finalize, Throw, Wake, DrainSkip, DrainWrite, SnapshotSkip,
         SnapshotCapture, SnapshotFlush, SnapshotPublish, Join, JoinFailed

(* No event vanishes between record, the two buffers and the event file. *)
THEOREM EventsAccounted == Spec => []Accounted
<1>1. Init => Accounted
  BY DEF Init, Accounted
<1> QED
  BY <1>1, TypeInit, TypeStep, AccountedStep, PTL DEF Spec

-----------------------------------------------------------------------------
(* What is counted, captured and published is in the file, or flushed, by then. *)
FileInv ==
    /\ io = "write" => ~broken
    /\ ~broken => written <= Len(file)
    /\ ~broken /\ io = "count" => written + Len(staging) <= Len(file)
    /\ ~broken => summary.written <= disk
    /\ ~broken /\ io \in {"flush", "publish"} => captured.written <= written
    /\ ~broken /\ io = "publish" => captured.written <= disk

(* The end of a run: until the writer fails, the file holds what is counted, and from the *)
(* drain after stop_requested_ on, the buffers are empty.                                 *)
Final == mode \in {"finalized", "finalize_failed"}
EndInv ==
    /\ mode # "collecting" \/ io = "exit" => stop
    /\ ~tracing => sequence = 0
    /\ io = "dead" => failed
    /\ io = "exit" => failed \/ mode = "pre_finalize"
    /\ io = "closed" => Final
    /\ ~broken /\ ~failed /\ io \notin {"count", "closed"} => Len(file) = written
    /\ ~broken /\ ~failed /\ io = "count" => Len(file) = written + Len(staging)
    /\ ~failed /\ io \notin {"write", "count", "closed"} => Len(staging) = 0
    /\ ~failed /\ ~broken /\ Final => Len(active) = 0 /\ Len(staging) = 0
    /\ ~failed /\ ~broken /\ mode = "pre_finalize" /\ io # "drain" => Len(active) = 0
    /\ io \in {"flush", "publish"} => captured.state = mode
    /\ Final /\ io \in {"flush", "publish"} =>
          /\ captured.sequence = sequence /\ captured.dropped = dropped
          /\ captured.failed = failed
    /\ io = "publish" /\ ~broken => disk = Len(file)
    /\ summary.state \in {"finalized", "finalize_failed"} => io = "closed"
    /\ CoverageHonest

LEMMA FileInit == Init => FileInv
<1>1. Init => ~broken /\ written = 0 /\ disk = 0 /\ file = <<>> /\ io = "top" /\ summary.written = 0
  BY DEF Init, NoSummary
<1> QED
  BY <1>1 DEF FileInv

(* What the provers need of the state's types. *)
LEMMA Numbers ==
  ASSUME TypeOK
  PROVE  /\ Len(active) \in Nat /\ Len(staging) \in Nat /\ Len(file) \in Nat
         /\ sequence \in Nat /\ accepted \in Nat /\ dropped \in Nat /\ written \in Nat
         /\ disk \in Nat /\ disk <= Len(file)
         /\ captured.written \in Nat /\ summary.written \in Nat
         /\ captured.sequence \in Nat /\ captured.dropped \in Nat /\ captured.failed \in BOOLEAN
  BY DEF TypeOK, SummaryType

(* What the writing of the staged events may do. *)
LEMMA WriteEffect ==
  ASSUME TypeOK, DrainWrite
  PROVE  /\ Len(file') \in Nat /\ Len(file') >= Len(file)
         /\ ~broken' => Len(file') = Len(file) + Len(staging)
<1>1. PICK n \in 0 .. Len(staging) :
          file' = file \o SubSeq(staging, 1, n) /\ broken' = (n < Len(staging))
  BY DEF DrainWrite
<1>2. Len(file') = Len(file) + n
  BY <1>1, AppendPrefix DEF TypeOK
<1>3. Len(file) \in Nat /\ Len(staging) \in Nat
  BY Numbers
<1>4. n < Len(staging) => broken'
  BY <1>1, Zenon
<1> QED
  BY <1>2, <1>3, <1>4

(* A failure of the writer leaves the file with at least what it had. *)
LEMMA ThrowEffect ==
  ASSUME TypeOK, Throw
  PROVE  Len(file') \in Nat /\ Len(file') >= Len(file)
<1>1. CASE io = "write"
  <2>1. PICK n \in 0 .. Len(staging) : file' = file \o SubSeq(staging, 1, n)
    BY <1>1 DEF Throw
  <2>2. Len(file') = Len(file) + n
    BY <2>1, AppendPrefix DEF TypeOK
  <2> QED
    BY <1>1, <2>2, Numbers
<1>2. CASE io # "write"
  BY <1>2, Numbers DEF Throw
<1> QED
  BY <1>1, <1>2

LEMMA FileStep == TypeOK /\ FileInv /\ [Next]_vars => FileInv'
<1> SUFFICES ASSUME TypeOK, FileInv, [Next]_vars PROVE FileInv'
  OBVIOUS
<1>0. /\ Len(active) \in Nat /\ Len(staging) \in Nat /\ Len(file) \in Nat
      /\ written \in Nat /\ disk \in Nat /\ disk <= Len(file)
      /\ captured.written \in Nat /\ summary.written \in Nat
  BY Numbers
<1>1. CASE Record \/ Finalize \/ Wake \/ Join \/ JoinFailed \/ DrainSkip \/ SnapshotSkip
  <2>1. /\ UNCHANGED <<written, staging, file, disk, broken, captured, summary>>
        /\ io' = io \/ io' \notin {"write", "count", "flush", "publish"}
    BY <1>1 DEF Record, Finalize, Wake, Join, JoinFailed, DrainSkip, SnapshotSkip
  <2> QED
    BY <2>1 DEF FileInv
<1>2. CASE Throw
  <2>1. /\ UNCHANGED <<written, staging, disk, broken, captured, summary>>
        /\ io' \notin {"write", "count", "flush", "publish"}
    BY <1>2 DEF Throw
  <2> QED
    BY <1>0, <1>2, <2>1, ThrowEffect DEF FileInv
<1>3. CASE DrainSwap
  BY <1>3 DEF DrainSwap, FileInv
<1>4. CASE DrainWrite
  <2>1. /\ UNCHANGED <<written, staging, disk, captured, summary>>
        /\ io = "write" /\ io' = "count"
    BY <1>4 DEF DrainWrite
  <2> QED
    BY <1>0, <1>4, <2>1, WriteEffect DEF FileInv
<1>5. CASE DrainCount
  BY <1>0, <1>5 DEF DrainCount, FileInv
<1>6. CASE SnapshotCapture
  <2>1. captured'.written = written
    BY <1>6 DEF SnapshotCapture, Snapshot
  <2> QED
    BY <1>0, <1>6, <2>1 DEF SnapshotCapture, FileInv
<1>7. CASE SnapshotFlush
  <2>1. /\ UNCHANGED <<written, staging, file, captured, summary>>
        /\ io = "flush" /\ io' = "publish"
    BY <1>7 DEF SnapshotFlush
  <2> QED
    BY <1>0, <1>7, <2>1, FlushEffect DEF FileInv
<1>8. CASE SnapshotPublish
  <2>1. /\ UNCHANGED <<written, staging, file, disk, broken, captured>>
        /\ io = "publish" /\ io' \in {"top", "exit", "closed"}
    BY <1>8 DEF SnapshotPublish, AfterSnapshot
  <2>2. summary' = summary \/ summary' = captured
    BY <1>8 DEF SnapshotPublish
  <2> QED
    BY <1>0, <2>1, <2>2 DEF FileInv
<1>9. CASE UNCHANGED vars
  BY <1>9 DEF vars, FileInv
<1> QED
  BY <1>1, <1>2, <1>3, <1>4, <1>5, <1>6, <1>7, <1>8, <1>9 DEF Next, IOStep

(* A published summary never counts events that are not flushed to the file. *)
THEOREM SummariesBacked == Spec => []SummaryBacked
<1>1. FileInv => SummaryBacked
  BY DEF FileInv, SummaryBacked
<1> QED
  BY <1>1, FileInit, FileStep, TypeInit, TypeStep, PTL DEF Spec

LEMMA EndInit == Init => EndInv
<1>1. Init => /\ written = 0 /\ sequence = 0 /\ file = <<>> /\ staging = <<>> /\ io = "top"
              /\ mode = "collecting" /\ summary.state = "none"
  BY DEF Init, NoSummary
<1> QED
  BY <1>1 DEF EndInv, Final, CoverageHonest

LEMMA EndStep ==
  TypeOK /\ Accounted /\ FileInv /\ EndInv /\ [Next]_vars => EndInv'
<1> SUFFICES ASSUME TypeOK, Accounted, FileInv, EndInv, [Next]_vars PROVE EndInv'
  OBVIOUS
<1>0. /\ Len(active) \in Nat /\ Len(staging) \in Nat /\ Len(file) \in Nat
      /\ sequence \in Nat /\ accepted \in Nat /\ dropped \in Nat /\ written \in Nat
      /\ disk \in Nat
  BY Numbers
<1> USE DEF EndInv, Final, CoverageHonest, counters
<1>1. CASE Record
  <2>1. ~tracing => sequence' = sequence
    BY <1>1 DEF Record
  <2>2. UNCHANGED <<tracing, written, staging, file, disk, broken, captured, summary, stop,
                    failed, io, mode>>
    BY <1>1 DEF Record
  <2>3. mode = "collecting" /\ io # "closed"
    BY <1>1 DEF Record
  <2> QED
    BY <2>1, <2>2, <2>3
<1>2. CASE Finalize
  BY <1>2 DEF Finalize
<1>3. CASE Throw
  <2>1. UNCHANGED <<tracing, sequence, dropped, written, active, staging, disk, broken, captured,
                    summary, stop, mode>>
    BY <1>3 DEF Throw
  <2>2. io # "closed"
    BY <1>3 DEF Throw
  <2>3. CASE Final
    <3>1. io' = "closed" /\ failed' = failed
      BY <1>3, <2>3 DEF Throw
    <3> QED
      BY <2>1, <2>2, <2>3, <3>1
  <2>4. CASE ~Final
    <3>1. io' = "dead" /\ failed'
      BY <1>3, <2>4 DEF Throw, TypeOK
    <3> QED
      BY <2>1, <2>2, <2>4, <3>1
  <2> QED
    BY <2>3, <2>4
<1>4. CASE Wake
  BY <1>4 DEF Wake
<1>5. CASE DrainSkip
  <2>1. ~tracing => Len(active) = 0
    BY <1>0 DEF Accounted
  <2> QED
    BY <1>5, <2>1 DEF DrainSkip
<1>6. CASE DrainSwap
  BY <1>6 DEF DrainSwap
<1>7. CASE DrainWrite
  BY <1>0, <1>7, WriteEffect DEF DrainWrite, FileInv
<1>8. CASE DrainCount
  BY <1>0, <1>8 DEF DrainCount
<1>9. CASE SnapshotSkip
  BY <1>9 DEF SnapshotSkip
<1>10. CASE SnapshotCapture
  <2>1. /\ captured'.state = mode /\ captured'.sequence = sequence
        /\ captured'.dropped = dropped /\ captured'.failed = failed
    BY <1>10 DEF SnapshotCapture, Snapshot
  <2> QED
    BY <1>10, <2>1 DEF SnapshotCapture
<1>11. CASE SnapshotFlush
  <2>1. /\ UNCHANGED <<tracing, sequence, dropped, written, active, staging, file, captured,
                       summary, stop, failed, mode>>
        /\ io = "flush" /\ io' = "publish"
    BY <1>11 DEF SnapshotFlush
  <2> QED
    BY <1>11, <2>1, FlushEffect
<1>12. CASE SnapshotPublish
  <2>1. /\ UNCHANGED <<tracing, sequence, dropped, written, active, staging, file, disk, broken,
                       captured, stop, failed, mode>>
        /\ io = "publish"
        /\ mode = "collecting" => io' = "top"
        /\ mode = "pre_finalize" => io' = "exit"
        /\ Final => io' = "closed"
    BY <1>12 DEF SnapshotPublish, AfterSnapshot
  <2>2. CoverageHonest'
    <3>1. CASE summary' = summary
      BY <2>1, <3>1
    <3>2. CASE summary' = captured
      <4> SUFFICES ASSUME captured.state = "finalized", captured.dropped = 0, ~captured.failed,
                          ~broken
                   PROVE  disk = captured.sequence /\ captured.sequence = sequence
        BY <2>1, <3>2
      <4>1. Final /\ dropped = 0 /\ ~failed /\ captured.sequence = sequence
        BY <2>1
      <4>2. disk = Len(file) /\ Len(file) = written /\ Len(active) = 0 /\ Len(staging) = 0
        BY <2>1, <4>1
      <4> QED
        BY <1>0, <4>1, <4>2 DEF Accounted
    <3> QED
      BY <1>12, <3>1, <3>2 DEF SnapshotPublish
  <2>3. summary' = summary \/ summary' = captured
    BY <1>12 DEF SnapshotPublish
  <2>4. mode \in {"collecting", "pre_finalize"} \/ Final
    BY DEF TypeOK
  <2> QED
    BY <2>1, <2>2, <2>3, <2>4
<1>13. CASE Join
  BY <1>13 DEF Join
<1>14. CASE JoinFailed
  BY <1>14 DEF JoinFailed
<1>15. CASE UNCHANGED vars
  BY <1>15 DEF vars
<1> QED
  BY <1>1, <1>2, <1>3, <1>4, <1>5, <1>6, <1>7, <1>8, <1>9, <1>10, <1>11, <1>12, <1>13,
     <1>14, <1>15 DEF Next, IOStep

(* A finalized summary that reports no loss is right: every event is in the file. *)
THEOREM CoverageIsHonest == Spec => []CoverageHonest
<1>1. EndInv => CoverageHonest
  BY DEF EndInv
<1>2. Init => Accounted
  BY DEF Init, Accounted
<1> QED
  BY <1>1, <1>2, EndInit, EndStep, FileInit, FileStep, AccountedStep, TypeInit, TypeStep, PTL
     DEF Spec

-----------------------------------------------------------------------------
(* The order of the events in the file.  The buffers change places at every drain; a *)
(* writer that failed leaves events it may have written in its own buffer, and the   *)
(* drain of MPI_Finalize writes only the other one.                                  *)
Below(q, r) == \A i \in DOMAIN q, k \in DOMAIN r : q[i] < r[k]
Under(q, n) == \A i \in DOMAIN q : q[i] < n

OrderInv ==
    /\ Increasing(file) /\ Increasing(staging) /\ Increasing(active)
    /\ Under(file, sequence) /\ Under(staging, sequence) /\ Under(active, sequence)
    /\ io \in {"top", "dead", "exit"} => ~Final
    /\ failed => io \in {"dead", "exit"} \/ Final
    /\ io = "write" => Below(file, staging)
    /\ io = "write" /\ ~Final => Below(staging, active)
    /\ ~Final \/ io = "drain" => Below(file, active)

(* What the last summary says of the whole run. *)
LastInv ==
    /\ Final /\ io \in {"flush", "publish"} => captured.calls = calls
    /\ summary.state = "finalized" => /\ summary.calls = calls
                                      /\ ~broken => disk = Len(file)

(* What the analyzer knows at each point. *)
CaptureInv ==
    /\ own.state = "finalized" => own = summary
    /\ second = "finalized" => other = "finalized"
    /\ launch = "completed" => manifest = "completed"
    /\ ~broken => own.written <= disk
    /\ Increasing(lines)
    /\ step = "done" /\ tracing /\ ~broken => own.written <= Len(lines)
    /\ step = "done" /\ tracing /\ ~broken /\ own.state = "finalized" /\ own.dropped = 0
           /\ ~own.failed => Len(lines) = sequence

(* The elements of a sequence that a prefix of another one, or one more, was added to. *)
LEMMA PrefixElements ==
  ASSUME NEW s \in Seq(Nat), NEW t \in Seq(Nat), NEW n \in 0 .. Len(t),
         NEW i \in DOMAIN (s \o SubSeq(t, 1, n))
  PROVE  \/ i \in DOMAIN s /\ (s \o SubSeq(t, 1, n))[i] = s[i]
         \/ /\ i > Len(s) /\ i - Len(s) \in DOMAIN t
            /\ (s \o SubSeq(t, 1, n))[i] = t[i - Len(s)]
<1> DEFINE u == SubSeq(t, 1, n)
<1>1. u \in Seq(Nat) /\ Len(u) = n /\ \A k \in 1 .. n : u[k] = t[k]
  BY PrefixOf
<1> HIDE DEF u
<1>2. i \in 1 .. Len(s) + n
  BY <1>1 DEF u
<1>3. CASE i <= Len(s)
  <2>1. (s \o u)[i] = s[i]
    BY <1>1, <1>2, <1>3
  <2> QED
    BY <1>2, <1>3, <2>1 DEF u
<1>4. CASE i > Len(s)
  <2>1. i - Len(s) \in 1 .. n
    BY <1>2, <1>4
  <2>2. (s \o u)[i] = u[i - Len(s)]
    BY <1>1, <1>2, <1>4
  <2> QED
    BY <1>1, <1>4, <2>1, <2>2 DEF u
<1> QED
  BY <1>2, <1>3, <1>4

LEMMA AppendElements ==
  ASSUME NEW s \in Seq(Nat), NEW x \in Nat, NEW i \in DOMAIN Append(s, x)
  PROVE  \/ i \in DOMAIN s /\ i <= Len(s) /\ Append(s, x)[i] = s[i]
         \/ i = Len(s) + 1 /\ Append(s, x)[i] = x
<1>1. i \in 1 .. Len(s) + 1
  OBVIOUS
<1> QED
  BY <1>1

(* Events that come after all others keep the order. *)
LEMMA PrefixOrder ==
  ASSUME NEW s \in Seq(Nat), NEW t \in Seq(Nat), NEW n \in 0 .. Len(t),
         Increasing(s), Increasing(t), Below(s, t)
  PROVE  Increasing(s \o SubSeq(t, 1, n))
<1> DEFINE u == s \o SubSeq(t, 1, n)
<1> SUFFICES ASSUME NEW i \in DOMAIN u, NEW k \in DOMAIN u, i < k
             PROVE  u[i] < u[k]
  BY DEF Increasing
<1>1. i \in Nat /\ k \in Nat /\ Len(s) \in Nat
  <2>1. u \in Seq(Nat)
    BY AppendPrefix
  <2> QED
    BY <2>1
<1>2. \/ i \in DOMAIN s /\ u[i] = s[i]
      \/ i > Len(s) /\ i - Len(s) \in DOMAIN t /\ u[i] = t[i - Len(s)]
  BY PrefixElements
<1>3. \/ k \in DOMAIN s /\ u[k] = s[k]
      \/ k > Len(s) /\ k - Len(s) \in DOMAIN t /\ u[k] = t[k - Len(s)]
  BY PrefixElements
<1> HIDE DEF u
<1>4. CASE k \in DOMAIN s /\ u[k] = s[k]
  <2>1. i \in DOMAIN s /\ u[i] = s[i]
    BY <1>1, <1>2, <1>4
  <2> QED
    BY <1>4, <2>1 DEF Increasing
<1>5. CASE k > Len(s) /\ k - Len(s) \in DOMAIN t /\ u[k] = t[k - Len(s)]
  <2>1. CASE i \in DOMAIN s /\ u[i] = s[i]
    BY <1>5, <2>1 DEF Below
  <2>2. CASE i > Len(s) /\ i - Len(s) \in DOMAIN t /\ u[i] = t[i - Len(s)]
    BY <1>1, <1>5, <2>2 DEF Increasing
  <2> QED
    BY <1>2, <2>1, <2>2
<1> QED
  BY <1>3, <1>4, <1>5

LEMMA AppendOrder ==
  ASSUME NEW s \in Seq(Nat), NEW x \in Nat, Increasing(s), Under(s, x)
  PROVE  Increasing(Append(s, x)) /\ Under(Append(s, x), x + 1)
<1> DEFINE u == Append(s, x)
<1>1. u \in Seq(Nat) /\ Len(u) = Len(s) + 1 /\ Len(s) \in Nat
  OBVIOUS
<1>2. ASSUME NEW i \in DOMAIN u, NEW k \in DOMAIN u, i < k PROVE u[i] < u[k]
  <2>1. i \in Nat /\ k \in Nat /\ k <= Len(s) + 1
    BY <1>1
  <2>2. i \in DOMAIN s /\ u[i] = s[i]
    BY <1>2, <2>1, AppendElements
  <2>3. CASE k \in DOMAIN s /\ u[k] = s[k]
    BY <1>2, <2>2, <2>3 DEF Increasing
  <2>4. CASE k = Len(s) + 1 /\ u[k] = x
    BY <2>2, <2>4 DEF Under
  <2> QED
    BY <2>3, <2>4, AppendElements
<1>3. ASSUME NEW i \in DOMAIN u PROVE u[i] < x + 1
  <2>1. CASE i \in DOMAIN s /\ u[i] = s[i]
    <3>1. s[i] \in Nat /\ s[i] < x
      BY <2>1 DEF Under
    <3> QED
      BY <2>1, <3>1
  <2>2. CASE u[i] = x
    BY <2>2
  <2> QED
    BY <2>1, <2>2, AppendElements
<1> QED
  BY <1>2, <1>3 DEF Increasing, Under

(* An event staged last is above everything numbered before. *)
LEMMA AppendAbove ==
  ASSUME NEW q, NEW s \in Seq(Nat), NEW x \in Nat, Below(q, s), Under(q, x)
  PROVE  Below(q, Append(s, x))
<1> SUFFICES ASSUME NEW i \in DOMAIN q, NEW k \in DOMAIN Append(s, x)
             PROVE  q[i] < Append(s, x)[k]
  BY DEF Below
<1> QED
  BY AppendElements DEF Below, Under

LEMMA UnderLater ==
  ASSUME NEW q \in Seq(Nat), NEW n \in Nat, Under(q, n) PROVE Under(q, n + 1)
<1> SUFFICES ASSUME NEW i \in DOMAIN q PROVE q[i] < n + 1
  BY DEF Under
<1>1. q[i] \in Nat /\ q[i] < n
  BY DEF Under
<1> QED
  BY <1>1

LEMMA PrefixUnder ==
  ASSUME NEW s \in Seq(Nat), NEW t \in Seq(Nat), NEW n \in 0 .. Len(t), NEW x,
         Under(s, x), Under(t, x)
  PROVE  Under(s \o SubSeq(t, 1, n), x)
  BY PrefixElements DEF Under

LEMMA PrefixBelow ==
  ASSUME NEW s \in Seq(Nat), NEW t \in Seq(Nat), NEW n \in 0 .. Len(t), NEW r,
         Below(s, r), Below(t, r)
  PROVE  Below(s \o SubSeq(t, 1, n), r)
  BY PrefixElements DEF Below

(* What is read of the file is in order when the file is. *)
LEMMA ReadOrder ==
  ASSUME NEW s \in Seq(Nat), NEW n \in 0 .. Len(s), Increasing(s)
  PROVE  /\ Increasing(SubSeq(s, 1, n)) /\ Len(SubSeq(s, 1, n)) = n
         /\ SubSeq(s, 1, n) \in Seq(Nat)
<1>1. /\ SubSeq(s, 1, n) \in Seq(Nat) /\ Len(SubSeq(s, 1, n)) = n
      /\ \A i \in 1 .. n : SubSeq(s, 1, n)[i] = s[i]
  BY PrefixOf
<1>2. DOMAIN SubSeq(s, 1, n) = 1 .. n /\ 1 .. n \subseteq DOMAIN s
  BY <1>1
<1> HIDE DEF Increasing
<1>3. ASSUME NEW i \in 1 .. n, NEW k \in 1 .. n, i < k
      PROVE  SubSeq(s, 1, n)[i] < SubSeq(s, 1, n)[k]
  <2>1. s[i] < s[k]
    BY <1>2, <1>3 DEF Increasing
  <2> QED
    BY <1>1, <2>1
<1> QED
  BY <1>1, <1>2, <1>3 DEF Increasing

(* The staged events, or some of them, are written in order. *)
LEMMA WriteOrder ==
  ASSUME TypeOK, OrderInv, io = "write",
         NEW n \in 0 .. Len(staging), file' = file \o SubSeq(staging, 1, n)
  PROVE  /\ Increasing(file') /\ Under(file', sequence)
         /\ ~Final => Below(file', active)
<1>1. file \in Seq(Nat) /\ staging \in Seq(Nat)
  BY DEF TypeOK
<1>2. /\ Increasing(file) /\ Increasing(staging) /\ Below(file, staging)
      /\ Under(file, sequence) /\ Under(staging, sequence)
      /\ ~Final => Below(file, active) /\ Below(staging, active)
  BY DEF OrderInv
<1>3. Increasing(file \o SubSeq(staging, 1, n))
  BY <1>1, <1>2, PrefixOrder
<1>4. Under(file \o SubSeq(staging, 1, n), sequence)
  BY <1>1, <1>2, PrefixUnder
<1>5. ~Final => Below(file \o SubSeq(staging, 1, n), active)
  BY <1>1, <1>2, PrefixBelow
<1> QED
  BY <1>3, <1>4, <1>5

LEMMA OrderInit == Init => OrderInv
<1>1. \A n, q : Increasing(<<>>) /\ Under(<<>>, n) /\ Below(<<>>, q)
  BY DEF Increasing, Under, Below
<1> QED
  BY <1>1 DEF Init, OrderInv, Final

LEMMA OrderStep == TypeOK /\ EndInv /\ OrderInv /\ [Next]_vars => OrderInv'
<1> SUFFICES ASSUME TypeOK, EndInv, OrderInv, [Next]_vars PROVE OrderInv'
  OBVIOUS
<1>0. /\ file \in Seq(Nat) /\ staging \in Seq(Nat) /\ active \in Seq(Nat) /\ sequence \in Nat
  BY DEF TypeOK
<1> DEFINE Orders == /\ Increasing(file) /\ Increasing(staging) /\ Increasing(active)
                     /\ Under(file, sequence) /\ Under(staging, sequence)
                     /\ Under(active, sequence)
           Modes == /\ io \in {"top", "dead", "exit"} => ~Final
                    /\ failed => io \in {"dead", "exit"} \/ Final
           Places == /\ io = "write" => Below(file, staging)
                     /\ io = "write" /\ ~Final => Below(staging, active)
                     /\ ~Final \/ io = "drain" => Below(file, active)
<1>o. Orders /\ Modes /\ Places
  BY DEF OrderInv
<1>s. SUFFICES Orders' /\ Modes' /\ Places'
  BY DEF OrderInv
<1>1. CASE Record
  <2>1. UNCHANGED <<staging, file, failed, io, mode>>
    BY <1>1 DEF Record
  <2>2. ~Final /\ ~Final'
    BY <1>1, <2>1 DEF Record, EndInv, Final
  <2>3. CASE UNCHANGED <<sequence, active>>
    BY <1>o, <2>1, <2>3 DEF Final
  <2>4. CASE sequence' = sequence + 1 /\ UNCHANGED active
    <3>1. /\ Under(file, sequence + 1) /\ Under(staging, sequence + 1)
          /\ Under(active, sequence + 1)
      BY <1>0, <1>o, UnderLater
    <3> QED
      BY <1>o, <2>1, <2>4, <3>1 DEF Final
  <2>5. CASE sequence' = sequence + 1 /\ active' = Append(active, sequence)
    <3>1. Under(file, sequence + 1) /\ Under(staging, sequence + 1)
      BY <1>0, <1>o, UnderLater
    <3>2. Increasing(Append(active, sequence)) /\ Under(Append(active, sequence), sequence + 1)
      BY <1>0, <1>o, AppendOrder
    <3>3. Below(file, Append(active, sequence))
      BY <1>0, <1>o, <2>2, AppendAbove
    <3>4. io = "write" => Below(staging, Append(active, sequence))
      BY <1>0, <1>o, <2>2, AppendAbove
    <3> QED
      BY <1>o, <2>1, <2>2, <2>5, <3>1, <3>2, <3>3, <3>4
  <2> QED
    BY <1>1, <2>3, <2>4, <2>5 DEF Record, Stage
<1>2. CASE Finalize
  BY <1>2, <1>o DEF Finalize, counters, Final
<1>3. CASE Throw
  <2>1. UNCHANGED <<sequence, active, staging, mode>> /\ (Final' <=> Final)
    BY <1>3 DEF Throw, counters, Final
  <2>2. /\ Increasing(file') /\ Under(file', sequence)
        /\ ~Final => Below(file', active)
    <3>1. CASE io = "write"
      <4>1. PICK n \in 0 .. Len(staging) : file' = file \o SubSeq(staging, 1, n)
        BY <1>3, <3>1 DEF Throw
      <4> QED
        BY <3>1, <4>1, WriteOrder
    <3>2. CASE io # "write"
      BY <1>3, <1>o, <3>2 DEF Throw
    <3> QED
      BY <3>1, <3>2
  <2>3. /\ Final => io' = "closed" /\ failed' = failed
        /\ ~Final => io' = "dead"
    BY <1>3 DEF Throw, Final, TypeOK
  <2> QED
    BY <1>o, <2>1, <2>2, <2>3
<1>4. CASE Wake
  <2>1. UNCHANGED <<sequence, active, staging, file, failed>> /\ io = "top" /\ io' = "drain"
        /\ ~Final'
    BY <1>4 DEF Wake, counters, Final
  <2> QED
    BY <1>o, <2>1
<1>5. CASE DrainSkip \/ DrainCount \/ SnapshotSkip \/ SnapshotCapture \/ SnapshotFlush \/ SnapshotPublish
  <2>1. UNCHANGED <<sequence, active, file, failed, mode>> /\ (Final' <=> Final)
    BY <1>5 DEF DrainSkip, DrainCount, SnapshotSkip, SnapshotCapture, SnapshotFlush,
                SnapshotPublish, counters, Final
  <2>2. staging' = staging \/ staging' = <<>>
    BY <1>5 DEF DrainSkip, DrainCount, SnapshotSkip, SnapshotCapture, SnapshotFlush,
                SnapshotPublish
  <2>3. /\ io \notin {"dead", "exit", "top"}
        /\ io' \notin {"write", "drain"}
        /\ io' \in {"top", "dead", "exit"} => ~Final
    BY <1>5 DEF DrainSkip, DrainCount, SnapshotSkip, SnapshotCapture, SnapshotFlush,
                SnapshotPublish, AfterSnapshot, Final
  <2>4. Increasing(<<>>) /\ Under(<<>>, sequence)
    BY DEF Increasing, Under
  <2>5. Orders'
    BY <1>o, <2>1, <2>2, <2>4
  <2>6. Modes'
    BY <1>o, <2>1, <2>3
  <2>7. Places'
    BY <1>o, <2>1, <2>3
  <2> QED
    BY <2>5, <2>6, <2>7
<1>6. CASE DrainSwap
  <2>1. /\ UNCHANGED <<sequence, file, failed, mode>> /\ active' = staging /\ staging' = active
        /\ io = "drain" /\ io' = "write" /\ (Final' <=> Final)
    BY <1>6 DEF DrainSwap, counters, Final
  <2>2. ~Final => staging = <<>>
    BY <1>0, <1>o, <2>1 DEF EndInv
  <2>3. \A q : Below(q, <<>>)
    BY DEF Below
  <2> QED
    BY <1>o, <2>1, <2>2, <2>3
<1>7. CASE DrainWrite
  <2>1. /\ UNCHANGED <<sequence, active, staging, failed, mode>> /\ io = "write" /\ io' = "count"
        /\ (Final' <=> Final)
    BY <1>7 DEF DrainWrite, counters, Final
  <2>2. PICK n \in 0 .. Len(staging) : file' = file \o SubSeq(staging, 1, n)
    BY <1>7 DEF DrainWrite
  <2> QED
    BY <1>o, <2>1, <2>2, WriteOrder
<1>8. CASE Join \/ JoinFailed
  <2>1. /\ UNCHANGED <<sequence, active, staging, file, failed>> /\ ~Final
        /\ \/ io' = "drain" /\ Final'
           \/ io' = "exit" /\ (Final' <=> Final)
    BY <1>8, <1>o DEF Join, JoinFailed, counters, Final
  <2> QED
    BY <1>o, <2>1
<1>9. CASE UNCHANGED vars
  BY <1>9, <1>o DEF vars, Final
<1> QED
  BY <1>1, <1>2, <1>3, <1>4, <1>5, <1>6, <1>7, <1>8, <1>9 DEF Next, IOStep

LEMMA LastStep ==
  TypeOK /\ FileInv /\ EndInv /\ LastInv /\ [Next]_vars => LastInv'
<1> SUFFICES ASSUME TypeOK, FileInv, EndInv, LastInv, [Next]_vars PROVE LastInv'
  OBVIOUS
<1>1. CASE Record
  <2>1. UNCHANGED <<file, disk, broken, captured, summary, io, mode>> /\ ~stop
    BY <1>1 DEF Record
  <2>2. ~Final /\ summary.state # "finalized"
    BY <2>1 DEF EndInv, Final
  <2> QED
    BY <2>1, <2>2 DEF LastInv, Final
<1>2. CASE UNCHANGED <<calls, file, disk, broken, captured, summary, mode>>
           /\ io' \notin {"flush", "publish"}
  BY <1>2 DEF LastInv, Final
<1>3. CASE Throw \/ DrainWrite
  <2>1. UNCHANGED <<calls, summary>> /\ io # "closed" /\ io' \notin {"flush", "publish"}
    BY <1>3 DEF Throw, DrainWrite, counters
  <2>2. summary.state # "finalized"
    BY <2>1 DEF EndInv
  <2> QED
    BY <2>1, <2>2 DEF LastInv
<1>4. CASE SnapshotCapture
  <2>1. captured'.calls = calls /\ UNCHANGED <<calls, summary, file, disk, broken>>
    BY <1>4 DEF SnapshotCapture, Snapshot, counters
  <2> QED
    BY <2>1 DEF LastInv
<1>5. CASE SnapshotFlush
  <2>1. UNCHANGED <<calls, captured, summary, mode>> /\ io = "flush" /\ io' = "publish"
    BY <1>5 DEF SnapshotFlush, counters
  <2>2. summary.state # "finalized"
    BY <2>1 DEF EndInv
  <2> QED
    BY <2>1, <2>2 DEF LastInv, Final
<1>6. CASE SnapshotPublish
  <2>1. /\ UNCHANGED <<calls, file, disk, broken, captured, mode>> /\ io = "publish"
        /\ io' \notin {"flush", "publish"} /\ summary' \in {summary, captured}
    BY <1>6 DEF SnapshotPublish, AfterSnapshot, counters
  <2>2. summary.state # "finalized"
    BY <2>1 DEF EndInv
  <2>3. captured.state = "finalized" => Final
    BY <2>1 DEF EndInv, Final
  <2> QED
    BY <2>1, <2>2, <2>3 DEF LastInv, EndInv
<1>7. CASE Wake \/ Join
  <2>1. UNCHANGED <<calls, file, disk, broken, captured, summary>> /\ io' = "drain"
    BY <1>7 DEF Wake, Join, counters
  <2> QED
    BY <2>1 DEF LastInv
<1>8. CASE UNCHANGED vars \/ Finalize
  BY <1>8 DEF vars, Finalize, counters, LastInv, Final
<1> QED
  BY <1>1, <1>2, <1>3, <1>4, <1>5, <1>6, <1>7, <1>8
     DEF Next, IOStep, DrainSkip, DrainSwap, DrainCount, SnapshotSkip, JoinFailed, counters

-----------------------------------------------------------------------------
(* What the interceptor guarantees, together. *)
RecorderInv == TypeOK /\ Accounted /\ FileInv /\ EndInv /\ OrderInv /\ LastInv

LEMMA RecorderInit == Init => RecorderInv
<1>1. Init => LastInv /\ Accounted
  BY DEF Init, LastInv, NoSummary, Accounted, Final
<1> QED
  BY <1>1, TypeInit, FileInit, EndInit, OrderInit DEF RecorderInv

LEMMA RecorderStep == RecorderInv /\ [Next]_vars => RecorderInv'
  BY TypeStep, AccountedStep, FileStep, EndStep, OrderStep, LastStep DEF RecorderInv

(* After MPI_Finalize has returned the interceptor does nothing more. *)
LEMMA ClosedForGood ==
  ASSUME EndInv, io = "closed", [Next]_vars PROVE UNCHANGED vars
<1>1. stop
  BY DEF EndInv, Final
<1> QED
  BY <1>1 DEF Next, IOStep, Record, Finalize, Throw, Wake, DrainSkip, DrainSwap, DrainWrite,
              DrainCount, SnapshotSkip, SnapshotCapture, SnapshotFlush, SnapshotPublish, Join,
              JoinFailed

(* What is flushed stays, and a stream that broke stays broken. *)
LEMMA FlushedStays ==
  ASSUME TypeOK, FileInv, [Next]_vars
  PROVE  tracing' = tracing /\ disk' \in Nat /\ disk <= disk' /\ (~broken' => ~broken)
<1>0. disk \in Nat /\ disk <= Len(file) /\ Len(file) \in Nat
  BY Numbers
<1>1. CASE SnapshotFlush
  BY <1>0, <1>1, FlushEffect DEF SnapshotFlush, counters
<1>2. CASE DrainWrite
  BY <1>0, <1>2 DEF DrainWrite, counters, FileInv
<1>3. CASE UNCHANGED <<tracing, disk, broken>>
  BY <1>0, <1>3
<1> QED
  BY <1>1, <1>2, <1>3
     DEF Next, IOStep, vars, counters, Record, Finalize, Throw, Wake, DrainSkip, DrainSwap,
         DrainCount, SnapshotSkip, SnapshotCapture, SnapshotPublish, Join, JoinFailed

-----------------------------------------------------------------------------
(* The capture and its analysis. *)

\* Every step of the capture is a step of the interceptor or leaves it alone.
LEMMA CaptureSteps ==
  [CNext]_capture => [Next]_vars
  BY DEF CNext, capture, Rank, OtherRank, LaunchEnds, Analyze, ListSummaries, ReadOwn, ReadSecond,
         ReadManifest, ReadEvents

LEMMA CTypeInit == CInit => CTypeOK
<1>1. NoSummary \in SummaryType /\ <<>> \in Seq(Nat)
  BY DEF NoSummary, SummaryType
<1> QED
  BY <1>1, TypeInit DEF CInit, CTypeOK

LEMMA CTypeStep == RecorderInv /\ CTypeOK /\ [CNext]_capture => CTypeOK'
<1> SUFFICES ASSUME RecorderInv, CTypeOK, [CNext]_capture PROVE CTypeOK'
  OBVIOUS
<1>0. TypeOK /\ TypeOK'
  BY CaptureSteps, TypeStep DEF RecorderInv
<1>1. CASE Rank
  BY <1>0, <1>1 DEF Rank, CTypeOK, analysis
<1>2. CASE OtherRank
  BY <1>0, <1>2 DEF OtherRank, CTypeOK, analysis
<1>3. CASE LaunchEnds
  BY <1>0, <1>3 DEF LaunchEnds, CTypeOK, analysis
<1>4. CASE ListSummaries
  BY <1>0, <1>4 DEF ListSummaries, CTypeOK
<1>5. CASE ReadOwn
  <2>1. own' \in SummaryType
    <3>1. NoSummary \in SummaryType /\ summary \in SummaryType
      BY <1>0 DEF NoSummary, SummaryType, TypeOK
    <3> QED
      BY <1>5, <3>1 DEF ReadOwn
  <2> QED
    BY <1>0, <1>5, <2>1 DEF ReadOwn, CTypeOK
<1>6. CASE ReadSecond
  BY <1>0, <1>6 DEF ReadSecond, CTypeOK
<1>7. CASE ReadManifest
  BY <1>0, <1>7 DEF ReadManifest, CTypeOK
<1>8. CASE ReadEvents
  <2>1. lines' \in Seq(Nat) /\ torn' \in BOOLEAN
    <3>1. CASE tracing
      <4>1. PICK n \in disk .. Len(file) : /\ lines' = SubSeq(file, 1, n)
                                           /\ torn' \in {FALSE, n < Len(file)}
        BY <1>8, <3>1 DEF ReadEvents
      <4>2. n \in 0 .. Len(file) /\ file \in Seq(Nat)
        BY <1>0 DEF TypeOK
      <4>3. SubSeq(file, 1, n) \in Seq(Nat)
        BY <4>2
      <4>4. (n < Len(file)) \in BOOLEAN
        OBVIOUS
      <4>5. torn' \in BOOLEAN
        BY <4>1, <4>4, Zenon
      <4> QED
        BY <4>1, <4>3, <4>5
    <3>2. CASE ~tracing
      BY <1>8, <3>2 DEF ReadEvents, CTypeOK
    <3> QED
      BY <3>1, <3>2
  <2> QED
    BY <1>0, <1>8, <2>1 DEF ReadEvents, CTypeOK
<1>9. CASE UNCHANGED capture
  BY <1>0, <1>9 DEF capture, analysis, CTypeOK
<1> QED
  BY <1>1, <1>2, <1>3, <1>4, <1>5, <1>6, <1>7, <1>8, <1>9 DEF CNext, Analyze

LEMMA CaptureStep ==
  RecorderInv /\ CTypeOK /\ CaptureInv /\ [CNext]_capture => CaptureInv'
<1> SUFFICES ASSUME RecorderInv, CTypeOK, CaptureInv, [CNext]_capture PROVE CaptureInv'
  OBVIOUS
<1>0. /\ TypeOK /\ FileInv /\ EndInv /\ OrderInv /\ LastInv
      /\ disk \in Nat /\ Len(file) \in Nat /\ disk <= Len(file) /\ file \in Seq(Nat)
      /\ own \in SummaryType /\ own.written \in Nat /\ Len(lines) \in Nat
      /\ summary.written \in Nat
  BY Numbers DEF RecorderInv, CTypeOK, SummaryType, TypeOK
\* Once the last summary was read, the interceptor stands still; before, what it flushed stays.
<1>1. CASE Rank
  <2>1. [Next]_vars /\ UNCHANGED <<other, manifest, step, own, second, launch, lines>>
    BY <1>1 DEF Rank, analysis
  <2>2. tracing' = tracing /\ disk' \in Nat /\ disk <= disk' /\ (~broken' => ~broken)
    BY <1>0, <2>1, FlushedStays
  <2>3. ASSUME own.state = "finalized" PROVE own = summary /\ UNCHANGED vars
    <3>1. own = summary /\ io = "closed"
      BY <1>0, <2>3 DEF CaptureInv, EndInv
    <3> QED
      BY <1>0, <2>1, <3>1, ClosedForGood
  <2>4. own'.state = "finalized" => own' = summary'
    BY <2>1, <2>3 DEF vars
  <2>5. ~broken' => own'.written <= disk'
    BY <1>0, <2>1, <2>2 DEF CaptureInv
  <2>6. step' = "done" /\ tracing' /\ ~broken' => own'.written <= Len(lines')
    BY <2>1, <2>2 DEF CaptureInv
  <2>7. step' = "done" /\ tracing' /\ ~broken' /\ own'.state = "finalized" /\ own'.dropped = 0
           /\ ~own'.failed => Len(lines') = sequence'
    BY <2>1, <2>2, <2>3 DEF CaptureInv, vars
  <2> QED
    BY <2>1, <2>4, <2>5, <2>6, <2>7 DEF CaptureInv
<1>2. CASE OtherRank \/ LaunchEnds \/ UNCHANGED capture
  BY <1>2 DEF OtherRank, LaunchEnds, capture, vars, analysis, CaptureInv
<1>3. CASE ListSummaries \/ ReadSecond \/ ReadManifest
  <2>1. /\ UNCHANGED <<tracing, sequence, disk, broken, summary, other, manifest, own, lines>>
        /\ step' # "done"
        /\ second' = "finalized" => other = "finalized"
        /\ launch' = "completed" => manifest = "completed"
    BY <1>3 DEF ListSummaries, ReadSecond, ReadManifest, vars, CaptureInv
  <2> QED
    BY <2>1 DEF CaptureInv
<1>4. CASE ReadOwn
  <2>1. /\ UNCHANGED <<disk, broken, summary, other, manifest, second, launch, lines>>
        /\ step' = "second" /\ own' \in {summary, NoSummary}
    BY <1>4 DEF ReadOwn, vars
  <2>2. ~broken => summary.written <= disk
    BY <1>0 DEF FileInv
  <2>3. NoSummary.written = 0 /\ NoSummary.state = "none"
    BY DEF NoSummary
  <2> QED
    BY <1>0, <2>1, <2>2, <2>3 DEF CaptureInv
\* The analyzer reads at least what is flushed, and of a closed file all there is.
<1>5. CASE ReadEvents
  <2>1. /\ UNCHANGED <<tracing, sequence, disk, broken, summary, other, manifest, own, second,
                       launch>>
        /\ step' = "done"
    BY <1>5 DEF ReadEvents, vars
  <2>2. CASE ~tracing
    BY <1>5, <2>1, <2>2 DEF ReadEvents, CaptureInv
  <2>3. CASE tracing
    <3>1. PICK n \in disk .. Len(file) : lines' = SubSeq(file, 1, n)
      BY <1>5, <2>3 DEF ReadEvents
    <3>2. n \in 0 .. Len(file) /\ Increasing(file)
      BY <1>0 DEF OrderInv
    <3>3. Increasing(lines') /\ Len(lines') = n
      BY <1>0, <3>1, <3>2, ReadOrder
    <3>4. ~broken => own.written <= n
      BY <1>0, <3>1 DEF CaptureInv
    <3>5. ASSUME ~broken, own.state = "finalized", own.dropped = 0, ~own.failed
          PROVE  n = sequence
      <4>1. own = summary
        BY <3>5 DEF CaptureInv
      <4>2. disk = Len(file)
        BY <1>0, <3>5, <4>1 DEF LastInv
      <4>3. disk = sequence
        BY <1>0, <3>5, <4>1 DEF EndInv, CoverageHonest
      <4> QED
        BY <1>0, <3>1, <4>2, <4>3
    <3> QED
      BY <2>1, <3>3, <3>4, <3>5 DEF CaptureInv
  <2> QED
    BY <2>2, <2>3
<1> QED
  BY <1>1, <1>2, <1>3, <1>4, <1>5 DEF CNext, Analyze

LEMMA CaptureInvariant == CSpec => [](RecorderInv /\ CTypeOK /\ CaptureInv)
<1>1. CInit => RecorderInv /\ CTypeOK /\ CaptureInv
  <2> SUFFICES ASSUME CInit PROVE RecorderInv /\ CTypeOK /\ CaptureInv
    OBVIOUS
  <2>1. RecorderInv /\ CTypeOK
    BY RecorderInit, CTypeInit DEF CInit
  <2>2. Increasing(<<>>) /\ disk = 0 /\ NoSummary.written = 0 /\ NoSummary.state = "none"
    BY DEF CInit, Init, NoSummary, Increasing
  <2>3. CaptureInv
    BY <2>2 DEF CInit, CaptureInv
  <2> QED
    BY <2>1, <2>3
<1>2. RecorderInv /\ [CNext]_capture => RecorderInv'
  BY CaptureSteps, RecorderStep
<1> QED
  BY <1>1, <1>2, CTypeStep, CaptureStep, PTL DEF CSpec

(* A capture that is reported complete is final: its totals are those of every call, and *)
(* nothing a rank or the launcher does later changes what was read.                      *)
THEOREM CompleteStays == CSpec => []CompleteIsFinal
<1>1. RecorderInv /\ CTypeOK /\ CaptureInv => CompleteIsFinal
  <2> SUFFICES ASSUME RecorderInv, CTypeOK, CaptureInv, Complete
               PROVE  /\ own.calls = calls /\ own = summary
                      /\ other = "finalized"
                      /\ launch = "running" \/ manifest = "completed"
    BY DEF CompleteIsFinal
  <2>1. own = summary /\ summary.state = "finalized" /\ other = "finalized"
    BY DEF Complete, CaptureInv
  <2>2. own.calls = calls
    BY <2>1 DEF RecorderInv, LastInv
  <2>3. launch \in {"running", "completed", "failed"}
    BY DEF CTypeOK
  <2>4. launch = "running" \/ manifest = "completed"
    BY <2>3 DEF Complete, CaptureInv
  <2> QED
    BY <2>1, <2>2, <2>4
<1> QED
  BY <1>1, CaptureInvariant, PTL

(* Event detail reported as observed is: the lines that were read, always in order, reach *)
(* the summary, and are all there ever were when the capture is complete.                 *)
THEOREM DetailObserved == CSpec => []DetailIsObserved
<1>1. RecorderInv /\ CTypeOK /\ CaptureInv => DetailIsObserved
  <2> SUFFICES ASSUME RecorderInv, CTypeOK, CaptureInv PROVE DetailIsObserved
    OBVIOUS
  <2>1. Increasing(lines)
    BY DEF CaptureInv
  <2>2. ASSUME step = "done", EventDetail = "observed", ~broken
        PROVE  own.written <= Len(lines) /\ (Complete => Len(lines) = sequence)
    <3>1. tracing /\ own.dropped = 0 /\ ~own.failed
      BY <2>2 DEF EventDetail
    <3>2. own.written <= Len(lines)
      BY <2>2, <3>1 DEF CaptureInv
    <3>3. Complete => Len(lines) = sequence
      BY <2>2, <3>1 DEF CaptureInv, Complete
    <3> QED
      BY <3>2, <3>3
  <2> QED
    BY <2>1, <2>2 DEF DetailIsObserved
<1> QED
  BY <1>1, CaptureInvariant, PTL


-----------------------------------------------------------------------------
(***************************************************************************)
(* The request table.  Which thread updates it next does not matter to the *)
(* argument, only for which request and with which call.                   *)
(***************************************************************************)
Ops == {"remember", "start", "complete", "forget"}
Does(r, op) == \E t \in Thread : call[t].op = op /\ r \in call[t].todo

(* A request is in the hands of one thread at most, and what that thread still has to do *)
(* says what MPI has already done to the request.                                        *)
OneCall == \A t, u \in Thread : \A r \in call[t].todo : r \in call[u].todo => t = u

CallFits(r) ==
    /\ Does(r, "remember") =>
           /\ ~request[r].tracked /\ request[r].id = 0
           /\ request[r].state = IF request[r].persistent THEN "inactive" ELSE "active"
    /\ Does(r, "start") =>
           request[r].persistent /\ ~request[r].tracked /\ request[r].state = "active"
    /\ Does(r, "complete") =>
           /\ request[r].state # "active"
           /\ request[r].state = "gone" => ~request[r].persistent
    /\ Does(r, "forget") => request[r].state = "gone"
    /\ request[r].state = "inactive" => request[r].persistent
CallsFit == \A r \in Known : CallFits(r)

(* Cardinalities say nothing of infinite sets. *)
Finite == IsFiniteSet(Entries) /\ IsFiniteSet({h \in Handle : persistent[h] # 0})

(* Ids are given out once: the id of a nonpersistent record is in no other record, and no *)
(* two handles have the same persistent request.                                          *)
IdsOnce ==
    /\ \A h \in Handle : persistent[h] \in 0 .. nextId
    /\ \A h \in Handle : \A i \in DOMAIN pending[h] : pending[h][i].id \in 1 .. nextId
    /\ \A h, g \in Handle : \A i \in DOMAIN pending[h], j \in DOMAIN pending[g] :
           ~pending[h][i].persistent /\ pending[h][i].id = pending[g][j].id => h = g /\ i = j
    /\ \A h, g \in Handle : \A i \in DOMAIN pending[h] :
           ~pending[h][i].persistent => pending[h][i].id # persistent[g]
    /\ \A h, g \in Handle : persistent[h] = persistent[g] /\ persistent[h] # 0 => h = g

(* A record that must free its group has it, and a record of a started persistent request *)
(* has the group of its handle's persistent record or none.                               *)
Owner(x) ==
    \/ \E h \in Handle : \E i \in DOMAIN pending[h] : pending[h][i].id = x
    \/ \E h \in Handle : persistent[h] = x
GroupsKept ==
    /\ \A x \in groups : Owner(x)
    /\ \A h \in Handle : persistent[h] # 0 => persistent[h] \in groups
    /\ \A h \in Handle : \A i \in DOMAIN pending[h] :
           IF pending[h][i].persistent
           THEN pending[h][i].id = persistent[h] \/ pending[h][i].id \notin groups
           ELSE pending[h][i].id \in groups

(* What the table holds under a handle it is not wrong about: exactly the records of the *)
(* one request that is using the handle.                                                 *)
Uses(r, h) == request[r].handle = h /\ (Live(r) \/ Busy(r))
HasRecord(r) == request[r].tracked /\ (request[r].state = "active" \/ Does(r, "complete"))
OwnRecord(r) == <<[id |-> request[r].id, persistent |-> request[r].persistent]>>
Right(h) ==
    /\ \A r, q \in Known : Uses(r, h) /\ Uses(q, h) => r = q
    /\ (\A r \in Known : ~Uses(r, h)) => pending[h] = <<>> /\ persistent[h] = 0
    /\ \A r \in Known : Uses(r, h) /\ ~Does(r, "forget") =>
           /\ pending[h] = IF HasRecord(r) THEN OwnRecord(r) ELSE <<>>
           /\ persistent[h] = IF request[r].persistent THEN request[r].id ELSE 0
    /\ \A i \in DOMAIN pending[h] : pending[h][i].persistent => pending[h][i].id = persistent[h]
TableRight == ~finalized => \A h \in Handle \ stale : Right(h)

(* MPI_Finalize empties the table, and nobody is left to fill it. *)
Emptied ==
    finalized => /\ \A t \in Thread : call[t] = Idle
                 /\ \A h \in Handle : pending[h] = <<>> /\ persistent[h] = 0

(* The requests that account for the records of a handle: the active ones that have been *)
(* recorded, and the ones whose records are about to be dropped.                         *)
Holds(r) ==
    \/ request[r].state = "active" /\ ~Does(r, "remember") /\ ~Does(r, "start")
    \/ Does(r, "complete") \/ Does(r, "forget")
Holders(h) == {r \in Known : request[r].handle = h /\ Holds(r)}
Held ==
    \A h \in Handle :
        /\ Len(pending[h]) <= failures + Cardinality(Holders(h))
        /\ persistent[h] # 0 => \E r \in Known : request[r].persistent /\ Uses(r, h)

-----------------------------------------------------------------------------
(* What the type invariant says of a request, a record and a call. *)
Shapes ==
    /\ Len(request) \in Nat /\ Len(request) <= MaxRequests /\ Known = 1 .. Len(request)
    /\ \A r \in Known :
           /\ request[r] \in RequestType /\ request[r].handle \in Handle
           /\ request[r].persistent \in BOOLEAN /\ request[r].tracked \in BOOLEAN
           /\ request[r].id \in Nat /\ request[r].state \in {"active", "inactive", "gone"}
CallShapes ==
    /\ call \in [Thread -> [op: {"idle"} \cup Ops, todo: SUBSET Known]]
    /\ \A t \in Thread : call[t].op = "idle" <=> call[t].todo = {}
TableShapes ==
    /\ pending \in [Handle -> Seq([id: Nat, persistent: BOOLEAN])]
    /\ persistent \in [Handle -> Nat]
    /\ groups \subseteq 1 .. nextId /\ nextId \in Nat
Sizes == PendingSize <= Limit /\ PersistentSize <= Limit

LEMMA ShapesOf ==
  ASSUME request \in Seq(RequestType), Len(request) <= MaxRequests
  PROVE  Shapes
<1>1. Len(request) \in Nat /\ Known = 1 .. Len(request)
  BY DEF Known
<1>2. \A r \in Known : request[r] \in RequestType
  BY <1>1 DEF Known
<1> QED
  BY <1>1, <1>2 DEF Shapes, RequestType

LEMMA TypeParts ==
  TableTypeOK <=>
      /\ request \in Seq(RequestType) /\ Len(request) <= MaxRequests
      /\ CallShapes /\ TableShapes /\ Sizes
      /\ stale \subseteq Handle /\ failures \in Nat /\ finalized \in BOOLEAN
<1>1. {"idle"} \cup Ops = {"idle", "remember", "start", "complete", "forget"}
  BY DEF Ops
<1> QED
  BY <1>1, Zenon DEF TableTypeOK, CallShapes, TableShapes, Sizes

(* A call that a wrapper has made to MPI is one the table does not know of yet. *)
LEMMA CallMade ==
  ASSUME CallShapes, OneCall, NEW t \in Thread, call[t] = Idle, NEW op \in Ops,
         NEW R \in SUBSET Known', R # {}, \A r \in R : ~Busy(r), Known \subseteq Known',
         call' = [call EXCEPT ![t] = [op |-> op, todo |-> R]]
  PROVE  /\ CallShapes' /\ OneCall'
         /\ \A q : \A o \in Ops : Does(q, o)' <=> Does(q, o) \/ (q \in R /\ o = op)
         /\ \A q : Busy(q)' <=> Busy(q) \/ q \in R
<1>1. /\ call[t].op = "idle" /\ call[t].todo = {}
      /\ call'[t].op = op /\ call'[t].todo = R
      /\ \A u \in Thread : u # t => call'[u] = call[u]
  BY DEF CallShapes, Idle
<1>2. \A u \in Thread : call[u].todo \subseteq Known /\ call[u].op \in {"idle"} \cup Ops
  BY DEF CallShapes
<1>3. op # "idle" /\ "idle" \notin Ops
  BY DEF Ops
<1>4. [op |-> op, todo |-> R] \in [op: {"idle"} \cup Ops, todo: SUBSET Known']
  OBVIOUS
<1>5. call' \in [Thread -> [op: {"idle"} \cup Ops, todo: SUBSET Known']]
  <2>1. \A u \in Thread : call[u] \in [op: {"idle"} \cup Ops, todo: SUBSET Known']
    BY DEF CallShapes
  <2> QED
    BY <1>4, <2>1 DEF CallShapes
<1>6. \A u \in Thread : call'[u].op = "idle" <=> call'[u].todo = {}
  BY <1>1, <1>3 DEF CallShapes
<1>7. CallShapes'
  BY <1>5, <1>6 DEF CallShapes
<1>8. OneCall'
  BY <1>1 DEF OneCall, Busy
<1>9. \A q : \A o \in Ops : Does(q, o)' <=> Does(q, o) \/ (q \in R /\ o = op)
  BY <1>1, <1>3 DEF Does
<1>10. \A q : Busy(q)' <=> Busy(q) \/ q \in R
  BY <1>1 DEF Busy
<1> QED
  BY <1>7, <1>8, <1>9, <1>10

(* An update of the table is the last that its thread does for the request. *)
LEMMA Returned ==
  ASSUME CallShapes, OneCall, NEW t \in Thread, NEW r \in call[t].todo, Return(t, r),
         Known' = Known
  PROVE  /\ CallShapes' /\ OneCall'
         /\ \A q : \A o \in Ops : Does(q, o)' <=> Does(q, o) /\ q # r
         /\ \A q : Busy(q)' <=> Busy(q) /\ q # r
<1>1. /\ call'[t].todo = call[t].todo \ {r}
      /\ call'[t].op = IF call[t].todo \ {r} = {} THEN "idle" ELSE call[t].op
      /\ \A u \in Thread : u # t => call'[u] = call[u]
  BY DEF CallShapes, Return, Idle
<1>2. call[t].op # "idle" /\ "idle" \notin Ops
  BY DEF CallShapes, Ops
<1>3. call' \in [Thread -> [op: {"idle"} \cup Ops, todo: SUBSET Known']]
  BY DEF CallShapes, Return, Idle
<1>4. \A u \in Thread : call'[u].op = "idle" <=> call'[u].todo = {}
  BY <1>1, <1>2 DEF CallShapes
<1>5. CallShapes'
  BY <1>3, <1>4 DEF CallShapes
<1>6. OneCall'
  BY <1>1 DEF OneCall
<1>7. \A u \in Thread : r \in call[u].todo => u = t
  BY DEF OneCall
<1>8. \A q : \A o \in Ops : Does(q, o)' <=> Does(q, o) /\ q # r
  BY <1>1, <1>2, <1>7 DEF Does
<1>9. \A q : Busy(q)' <=> Busy(q) /\ q # r
  BY <1>1, <1>7 DEF Busy
<1> QED
  BY <1>5, <1>6, <1>8, <1>9

-----------------------------------------------------------------------------
(* What the actions do to the requests and to the calls. *)
Requests == request \in Seq(RequestType) /\ Len(request) <= MaxRequests
Calls == Requests /\ CallShapes /\ OneCall

LEMMA Rewritten ==
  ASSUME Requests, request' \in [Known -> RequestType]
  PROVE  Requests' /\ Known' = Known
<1>1. Shapes
  BY ShapesOf DEF Requests
<1>2. request' \in Seq(RequestType) /\ Len(request') = Len(request) /\ DOMAIN request' = Known
  BY <1>1 DEF Shapes
<1> QED
  BY <1>2 DEF Requests, Known

LEMMA CreateEffect ==
  ASSUME Calls, NEW t \in Thread, NEW h \in Handle, NEW isPersistent \in BOOLEAN,
         Create(t, h, isPersistent), NEW n, n = Len(request) + 1
  PROVE  /\ Calls' /\ n \notin Known /\ Known' = Known \cup {n} /\ ~Busy(n)
         /\ \A q \in Known : request'[q] = request[q]
         /\ request'[n] = [handle |-> h, persistent |-> isPersistent, id |-> 0, tracked |-> FALSE,
                           state |-> IF isPersistent THEN "inactive" ELSE "active"]
         /\ \A q : \A o \in Ops : Does(q, o)' <=> Does(q, o) \/ (q = n /\ o = "remember")
         /\ \A q : Busy(q)' <=> Busy(q) \/ q = n
<1> DEFINE new == [handle |-> h, persistent |-> isPersistent, id |-> 0, tracked |-> FALSE,
                   state |-> IF isPersistent THEN "inactive" ELSE "active"]
<1>1. Shapes
  BY ShapesOf DEF Calls, Requests
<1>2. /\ call[t] = Idle /\ Len(request) < MaxRequests /\ request' = Append(request, new)
      /\ call' = [call EXCEPT ![t] = [op |-> "remember", todo |-> {n}]]
  BY DEF Create
<1>3. new \in RequestType
  BY DEF RequestType
<1>4. request \in Seq(RequestType)
  BY DEF Calls, Requests
<1> HIDE DEF new
<1>5. /\ request' \in Seq(RequestType) /\ Len(request') = n /\ request'[n] = new
      /\ \A q \in 1 .. Len(request) : request'[q] = request[q]
  BY <1>2, <1>3, <1>4
<1>6. Requests'
  BY <1>1, <1>2, <1>5, TrackingAssumption DEF Requests, Shapes
<1>7. Known' = 1 .. n
  BY <1>5 DEF Known
<1>8. Known' = Known \cup {n} /\ n \notin Known
  BY <1>1, <1>7 DEF Shapes
<1>9. ~Busy(n)
  BY <1>8 DEF Busy, Calls, CallShapes
<1>10. "remember" \in Ops
  BY DEF Ops
<1>11. {n} # {} /\ {n} \in SUBSET Known' /\ \A q \in {n} : ~Busy(q)
  BY <1>8, <1>9
<1>12. Known \subseteq Known'
  BY <1>8
<1>13. /\ CallShapes' /\ OneCall'
       /\ \A q : \A o \in Ops : Does(q, o)' <=> Does(q, o) \/ (q \in {n} /\ o = "remember")
       /\ \A q : Busy(q)' <=> Busy(q) \/ q \in {n}
  BY <1>2, <1>10, <1>11, <1>12, CallMade DEF Calls
<1>14. \A q \in Known : request'[q] = request[q]
  BY <1>1, <1>5 DEF Shapes
<1> QED
  BY <1>5, <1>6, <1>8, <1>9, <1>13, <1>14 DEF Calls, new

LEMMA StartEffect ==
  ASSUME Calls, NEW t \in Thread, NEW R \in SUBSET Known, R # {}, Start(t, R)
  PROVE  /\ Calls' /\ Known' = Known
         /\ \A q \in R : request[q].state = "inactive" /\ ~Busy(q)
         /\ \A q \in Known \ R : request'[q] = request[q]
         /\ \A q \in R : request'[q] = [request[q] EXCEPT !.state = "active", !.tracked = FALSE]
         /\ \A q : \A o \in Ops : Does(q, o)' <=> Does(q, o) \/ (q \in R /\ o = "start")
         /\ \A q : Busy(q)' <=> Busy(q) \/ q \in R
<1>1. Shapes
  BY ShapesOf DEF Calls, Requests
<1>2. /\ call[t] = Idle
      /\ \A q \in R : request[q].state = "inactive" /\ ~Busy(q)
      /\ request' = [r \in Known |-> IF r \in R
                                     THEN [request[r] EXCEPT !.state = "active", !.tracked = FALSE]
                                     ELSE request[r]]
      /\ call' = [call EXCEPT ![t] = [op |-> "start", todo |-> R]]
  BY DEF Start
<1>3. \A r \in Known : [request[r] EXCEPT !.state = "active", !.tracked = FALSE] \in RequestType
  BY <1>1 DEF Shapes, RequestType
<1>4. request' \in [Known -> RequestType]
  BY <1>1, <1>2, <1>3 DEF Shapes
<1>5. Requests' /\ Known' = Known
  BY <1>4, Rewritten DEF Calls
<1>6. "start" \in Ops
  BY DEF Ops
<1>7. R \in SUBSET Known' /\ Known \subseteq Known' /\ \A q \in R : ~Busy(q)
  BY <1>2, <1>5
<1>8. /\ CallShapes' /\ OneCall'
      /\ \A q : \A o \in Ops : Does(q, o)' <=> Does(q, o) \/ (q \in R /\ o = "start")
      /\ \A q : Busy(q)' <=> Busy(q) \/ q \in R
  BY <1>2, <1>6, <1>7, CallMade DEF Calls
<1>9. /\ \A q \in Known \ R : request'[q] = request[q]
      /\ \A q \in R : request'[q] = [request[q] EXCEPT !.state = "active", !.tracked = FALSE]
  BY <1>2
<1> QED
  BY <1>2, <1>5, <1>8, <1>9 DEF Calls

(* A request that completed, with an error if it is in F. *)
Completed(q, F) ==
    [request[q] EXCEPT
        !.state = IF request[q].state = "active" /\ ~request[q].persistent
                  THEN "gone" ELSE "inactive",
        !.tracked = request[q].tracked /\ request[q].state = "active" /\ q \notin F]

Ends(R, F) ==
    /\ Calls' /\ Known' = Known
    /\ \A q \in R : Live(q) /\ ~Busy(q)
    /\ \A q \in F : request[q].state = "active"
    /\ \A q \in Known \ R : request'[q] = request[q]
    /\ \A q \in R : request'[q] = Completed(q, F)
    /\ \A q : \A o \in Ops : Does(q, o)' <=> Does(q, o) \/ (q \in R \ F /\ o = "complete")
    /\ \A q : Busy(q)' <=> Busy(q) \/ q \in R \ F

LEMMA CompletionEffect ==
  ASSUME Calls, NEW t \in Thread, NEW R \in SUBSET Known, R # {}, NEW F \in SUBSET R,
         Completion(t, R, F)
  PROVE  Ends(R, F)
<1>1. Shapes
  BY ShapesOf DEF Calls, Requests
<1>2. /\ call[t] = Idle
      /\ \A q \in R : Live(q) /\ ~Busy(q)
      /\ \A q \in F : request[q].state = "active"
      /\ call' = [call EXCEPT ![t] = IF R \ F = {} THEN Idle
                                     ELSE [op |-> "complete", todo |-> R \ F]]
  BY DEF Completion
<1>3. request' = [r \in Known |-> IF r \notin R THEN request[r] ELSE Completed(r, F)]
  BY DEF Completion, Completed
<1>4. \A r \in Known : Completed(r, F) \in RequestType
  BY <1>1 DEF Shapes, RequestType, Completed
<1>5. request' \in [Known -> RequestType]
  BY <1>1, <1>3, <1>4 DEF Shapes
<1>6. Requests' /\ Known' = Known
  BY <1>5, Rewritten DEF Calls
<1>7. /\ CallShapes' /\ OneCall'
      /\ \A q : \A o \in Ops : Does(q, o)' <=> Does(q, o) \/ (q \in R \ F /\ o = "complete")
      /\ \A q : Busy(q)' <=> Busy(q) \/ q \in R \ F
  <2>1. CASE R \ F = {}
    <3>1. call' = call
      BY <1>2, <2>1 DEF Calls, CallShapes
    <3> QED
      BY <1>6, <2>1, <3>1 DEF Calls, CallShapes, OneCall, Does, Busy
  <2>2. CASE R \ F # {}
    <3>1. "complete" \in Ops
      BY DEF Ops
    <3>2. R \ F \in SUBSET Known' /\ Known \subseteq Known' /\ \A q \in R \ F : ~Busy(q)
      BY <1>2, <1>6
    <3>3. call' = [call EXCEPT ![t] = [op |-> "complete", todo |-> R \ F]]
      BY <1>2, <2>2
    <3> QED
      BY <1>2, <2>2, <3>1, <3>2, <3>3, CallMade DEF Calls
  <2> QED
    BY <2>1, <2>2
<1>8. /\ \A q \in Known \ R : request'[q] = request[q]
      /\ \A q \in R : request'[q] = Completed(q, F)
  BY <1>3
<1> QED
  BY <1>2, <1>6, <1>7, <1>8 DEF Calls, Ends

LEMMA FreeEffect ==
  ASSUME Calls, NEW t \in Thread, NEW r \in Known, RequestFree(t, r)
  PROVE  /\ Calls' /\ Known' = Known /\ Live(r) /\ ~Busy(r)
         /\ \A q \in Known : q # r => request'[q] = request[q]
         /\ request'[r] = [request[r] EXCEPT !.state = "gone"]
         /\ \A q : \A o \in Ops : Does(q, o)' <=> Does(q, o) \/ (q = r /\ o = "forget")
         /\ \A q : Busy(q)' <=> Busy(q) \/ q = r
<1>1. Shapes
  BY ShapesOf DEF Calls, Requests
<1>2. /\ call[t] = Idle /\ Live(r) /\ ~Busy(r)
      /\ request' = [request EXCEPT ![r] = [request[r] EXCEPT !.state = "gone"]]
      /\ call' = [call EXCEPT ![t] = [op |-> "forget", todo |-> {r}]]
  BY DEF RequestFree
<1>3. [request[r] EXCEPT !.state = "gone"] \in RequestType
  BY <1>1 DEF Shapes, RequestType
<1>4. request \in [Known -> RequestType]
  BY <1>1 DEF Calls, Requests, Shapes, Known
<1>5. request' \in [Known -> RequestType]
  BY <1>2, <1>3, <1>4
<1>6. Requests' /\ Known' = Known
  BY <1>5, Rewritten DEF Calls
<1>7. "forget" \in Ops
  BY DEF Ops
<1>8. {r} \in SUBSET Known' /\ {r} # {} /\ Known \subseteq Known' /\ \A q \in {r} : ~Busy(q)
  BY <1>2, <1>6
<1>9. /\ CallShapes' /\ OneCall'
      /\ \A q : \A o \in Ops : Does(q, o)' <=> Does(q, o) \/ (q \in {r} /\ o = "forget")
      /\ \A q : Busy(q)' <=> Busy(q) \/ q \in {r}
  BY <1>2, <1>7, <1>8, CallMade DEF Calls
<1>10. /\ \A q \in Known : q # r => request'[q] = request[q]
       /\ request'[r] = [request[r] EXCEPT !.state = "gone"]
  BY <1>2, <1>4
<1> QED
  BY <1>2, <1>6, <1>9, <1>10 DEF Calls

(* The updates of the table: of the requests they change only the one they are for. *)
Returns(r) ==
    /\ Calls' /\ Known' = Known
    /\ \A q \in Known : q # r => request'[q] = request[q]
    /\ \A q : \A o \in Ops : Does(q, o)' <=> Does(q, o) /\ q # r
    /\ \A q : Busy(q)' <=> Busy(q) /\ q # r

LEMMA UpdateReturns ==
  ASSUME Calls, NEW t \in Thread, NEW r \in call[t].todo, Return(t, r),
         NEW new \in RequestType, request' = [request EXCEPT ![r] = new]
  PROVE  r \in Known /\ Returns(r) /\ request'[r] = new
<1>1. Shapes
  BY ShapesOf DEF Calls, Requests
<1>2. r \in Known
  BY DEF Calls, CallShapes
<1>3. request \in [Known -> RequestType]
  BY <1>1 DEF Calls, Requests, Shapes, Known
<1>4. request' \in [Known -> RequestType]
  BY <1>3
<1>5. Requests' /\ Known' = Known
  BY <1>4, Rewritten DEF Calls
<1>6. /\ CallShapes' /\ OneCall'
      /\ \A q : \A o \in Ops : Does(q, o)' <=> Does(q, o) /\ q # r
      /\ \A q : Busy(q)' <=> Busy(q) /\ q # r
  BY <1>5, Returned DEF Calls
<1> QED
  BY <1>2, <1>3, <1>5, <1>6 DEF Calls, Returns

LEMMA PlainReturn ==
  ASSUME Calls, NEW t \in Thread, NEW r \in call[t].todo, Return(t, r), request' = request
  PROVE  r \in Known /\ Returns(r) /\ request'[r] = request[r]
<1>1. Shapes
  BY ShapesOf DEF Calls, Requests
<1>2. r \in Known
  BY DEF Calls, CallShapes
<1>3. request[r] \in RequestType /\ request' = [request EXCEPT ![r] = request[r]]
  BY <1>1, <1>2 DEF Shapes, Known, Calls, Requests
<1> QED
  BY <1>3, UpdateReturns

(* What an update may do to the table. *)
Appended(h, x, isPersistent) ==
    pending' = [pending EXCEPT ![h] = Append(pending[h], [id |-> x, persistent |-> isPersistent])]
Same == UNCHANGED <<pending, persistent, groups, nextId>>
NewPersistent(h) ==
    /\ PersistentSize < Limit
    /\ nextId' = nextId + 1
    /\ groups' = (groups \ {persistent[h]}) \cup {nextId'}
    /\ persistent' = [persistent EXCEPT ![h] = nextId']
    /\ pending' = pending
NewRecord(h) ==
    /\ PendingSize < Limit
    /\ nextId' = nextId + 1
    /\ groups' = groups \cup {nextId'}
    /\ Appended(h, nextId', FALSE)
    /\ persistent' = persistent
NewStart(h) ==
    /\ PendingSize < Limit
    /\ persistent[h] # 0
    /\ Appended(h, persistent[h], TRUE)
    /\ UNCHANGED <<persistent, groups, nextId>>
Drops(h) ==
    /\ pending[h] # <<>>
    /\ pending' = [pending EXCEPT ![h] = Tail(pending[h])]
    /\ groups' = IF Head(pending[h]).persistent THEN groups
                 ELSE groups \ {Head(pending[h]).id}
    /\ UNCHANGED <<persistent, nextId>>
OwnIds(h) == {pending[h][i].id : i \in {j \in DOMAIN pending[h] : ~pending[h][j].persistent}}
Clears(h) ==
    /\ pending' = [pending EXCEPT ![h] = <<>>]
    /\ persistent' = [persistent EXCEPT ![h] = 0]
    /\ groups' = groups \ (OwnIds(h) \cup {persistent[h]})
    /\ nextId' = nextId

Remembers(r) ==
    /\ request'[r] = [request[r] EXCEPT !.id = nextId', !.tracked = ~request[r].persistent]
    /\ IF request[r].persistent THEN NewPersistent(request[r].handle)
                                ELSE NewRecord(request[r].handle)

LEMMA RememberEffect ==
  ASSUME Calls, TableShapes, PendingSize \in Nat, PersistentSize \in Nat,
         NEW t \in Thread, NEW r \in call[t].todo, Remember(t, r)
  PROVE  /\ r \in Known /\ Does(r, "remember") /\ Returns(r)
         /\ Remembers(r) \/ (request'[r] = request[r] /\ Same)
         /\ stale' = stale /\ failures' = failures /\ finalized' = finalized
<1>1. Shapes
  BY ShapesOf DEF Calls, Requests
<1>2. r \in Known
  BY DEF Calls, CallShapes
<1> DEFINE h == request[r].handle
           isPersistent == request[r].persistent
           full == (IF isPersistent THEN PersistentSize ELSE PendingSize) >= Limit
           new == [request[r] EXCEPT !.id = nextId', !.tracked = ~isPersistent]
<1>3. Does(r, "remember")
  BY DEF Remember, Does
<1>4. Return(t, r) /\ stale' = stale /\ failures' = failures /\ finalized' = finalized
  BY DEF Remember
<1>5. CASE full
  <2>1. UNCHANGED <<request, pending, persistent, groups, nextId>>
    BY <1>5 DEF Remember
  <2> QED
    BY <1>3, <1>4, <2>1, PlainReturn DEF Same
<1>6. CASE ~full
  <2>1. /\ nextId' = nextId + 1
        /\ request' = [request EXCEPT ![r].id = nextId', ![r].tracked = ~isPersistent]
        /\ IF isPersistent
           THEN /\ groups' = (groups \ {persistent[h]}) \cup {nextId'}
                /\ persistent' = [persistent EXCEPT ![h] = nextId']
                /\ pending' = pending
           ELSE /\ groups' = groups \cup {nextId'}
                /\ pending' = [pending EXCEPT ![h] =
                                   Append(@, [id |-> nextId', persistent |-> FALSE])]
                /\ persistent' = persistent
    BY <1>6 DEF Remember
  <2>2. nextId' \in Nat /\ isPersistent \in BOOLEAN
    BY <1>1, <1>2, <2>1 DEF TableShapes, Shapes
  <2>3. new \in RequestType
    BY <1>1, <1>2, <2>2 DEF Shapes, RequestType
  <2>4. request' = [request EXCEPT ![r] = new]
    BY <1>1, <1>2, <2>1 DEF Shapes, RequestType
  <2>5. Returns(r) /\ request'[r] = new
    BY <1>4, <2>3, <2>4, UpdateReturns
  <2>6. isPersistent => PersistentSize < Limit
    BY <1>6, TrackingAssumption
  <2>7. ~isPersistent => PendingSize < Limit
    BY <1>6, TrackingAssumption
  <2>8. Remembers(r)
    BY <2>1, <2>2, <2>5, <2>6, <2>7 DEF Remembers, NewPersistent, NewRecord, Appended
  <2> QED
    BY <1>2, <1>3, <1>4, <2>5, <2>8
<1> QED
  BY <1>5, <1>6

Restarts(r) ==
    /\ request'[r] = [request[r] EXCEPT !.tracked = TRUE]
    /\ NewStart(request[r].handle)

LEMMA StartPersistentEffect ==
  ASSUME Calls, TableShapes, PendingSize \in Nat,
         NEW t \in Thread, NEW r \in call[t].todo, StartPersistent(t, r)
  PROVE  /\ r \in Known /\ Does(r, "start") /\ Returns(r)
         /\ Restarts(r) \/ (request'[r] = request[r] /\ Same)
         /\ stale' = stale /\ failures' = failures /\ finalized' = finalized
<1>1. Shapes
  BY ShapesOf DEF Calls, Requests
<1>2. r \in Known
  BY DEF Calls, CallShapes
<1> DEFINE h == request[r].handle
           new == [request[r] EXCEPT !.tracked = TRUE]
<1>3. Does(r, "start")
  BY DEF StartPersistent, Does
<1>4. /\ Return(t, r) /\ persistent' = persistent /\ groups' = groups /\ nextId' = nextId
      /\ stale' = stale /\ failures' = failures /\ finalized' = finalized
  BY DEF StartPersistent
<1>5. CASE persistent[h] = 0 \/ PendingSize >= Limit
  <2>1. UNCHANGED <<pending, request>>
    BY <1>5 DEF StartPersistent
  <2> QED
    BY <1>3, <1>4, <1>5, <2>1, PlainReturn DEF Same
<1>6. CASE ~(persistent[h] = 0 \/ PendingSize >= Limit)
  <2>1. /\ pending' = [pending EXCEPT ![h] =
                           Append(@, [id |-> persistent[h], persistent |-> TRUE])]
        /\ request' = [request EXCEPT ![r].tracked = TRUE]
    BY <1>6 DEF StartPersistent
  <2>2. new \in RequestType
    BY <1>1, <1>2 DEF Shapes, RequestType
  <2>3. request' = [request EXCEPT ![r] = new]
    BY <1>1, <1>2, <2>1 DEF Shapes, RequestType
  <2>4. Returns(r) /\ request'[r] = new
    BY <1>4, <2>2, <2>3, UpdateReturns
  <2>5. PendingSize < Limit
    BY <1>6, TrackingAssumption
  <2>6. Restarts(r)
    BY <1>4, <1>6, <2>1, <2>4, <2>5 DEF Restarts, NewStart, Appended
  <2> QED
    BY <1>2, <1>3, <1>4, <2>4, <2>6
<1> QED
  BY <1>5, <1>6

LEMMA CompleteRequestEffect ==
  ASSUME Calls, NEW t \in Thread, NEW r \in call[t].todo, CompleteRequest(t, r)
  PROVE  /\ r \in Known /\ Does(r, "complete") /\ Returns(r) /\ request'[r] = request[r]
         /\ Drops(request[r].handle) \/ (pending[request[r].handle] = <<>> /\ Same)
         /\ stale' = stale /\ failures' = failures /\ finalized' = finalized
<1>1. /\ Return(t, r) /\ request' = request
      /\ stale' = stale /\ failures' = failures /\ finalized' = finalized
  BY DEF CompleteRequest
<1>2. Does(r, "complete")
  BY DEF CompleteRequest, Does
<1>3. Drops(request[r].handle) \/ (pending[request[r].handle] = <<>> /\ Same)
  BY DEF CompleteRequest, Drops, Same
<1> QED
  BY <1>1, <1>2, <1>3, PlainReturn

LEMMA ForgetEffect ==
  ASSUME Calls, NEW t \in Thread, NEW r \in call[t].todo, ForgetRequest(t, r)
  PROVE  /\ r \in Known /\ Does(r, "forget") /\ Returns(r) /\ request'[r] = request[r]
         /\ Clears(request[r].handle)
         /\ stale' = stale /\ failures' = failures /\ finalized' = finalized
<1>1. /\ Return(t, r) /\ request' = request
      /\ stale' = stale /\ failures' = failures /\ finalized' = finalized
  BY DEF ForgetRequest
<1>2. Does(r, "forget")
  BY DEF ForgetRequest, Does
<1>3. Clears(request[r].handle)
  BY DEF ForgetRequest, Clears, OwnIds
<1> QED
  BY <1>1, <1>2, <1>3, PlainReturn

-----------------------------------------------------------------------------
(* The records under the handles. *)
RecordType == [id: Nat, persistent: BOOLEAN]

LEMMA RecordShapes ==
  ASSUME TableShapes, NEW h \in Handle
  PROVE  /\ pending[h] \in Seq(RecordType) /\ Len(pending[h]) \in Nat
         /\ DOMAIN pending[h] = 1 .. Len(pending[h]) /\ persistent[h] \in Nat
         /\ \A i \in DOMAIN pending[h] :
                /\ pending[h][i] \in RecordType /\ pending[h][i].id \in Nat
                /\ pending[h][i].persistent \in BOOLEAN
<1>1. pending[h] \in Seq(RecordType) /\ persistent[h] \in Nat
  BY DEF TableShapes, RecordType
<1>2. Len(pending[h]) \in Nat /\ DOMAIN pending[h] = 1 .. Len(pending[h])
  BY <1>1
<1>3. \A i \in DOMAIN pending[h] : pending[h][i] \in RecordType
  BY <1>1, <1>2
<1>4. \A z \in RecordType : z.id \in Nat /\ z.persistent \in BOOLEAN
  BY DEF RecordType
<1> QED
  BY <1>1, <1>2, <1>3, <1>4

(* One record more under a handle, at position n. *)
Grown(h, n, x, b) ==
    /\ pending' \in [Handle -> Seq(RecordType)]
    /\ \A g \in Handle : g # h => pending'[g] = pending[g]
    /\ n = Len(pending[h]) + 1 /\ Len(pending'[h]) = n /\ n \notin DOMAIN pending[h]
    /\ DOMAIN pending'[h] = DOMAIN pending[h] \cup {n}
    /\ \A i \in DOMAIN pending[h] : pending'[h][i] = pending[h][i]
    /\ pending'[h][n] = [id |-> x, persistent |-> b]
    /\ pending[h] = <<>> => pending'[h] = <<[id |-> x, persistent |-> b]>>

LEMMA AppendEffect ==
  ASSUME TableShapes, NEW h \in Handle, NEW x \in Nat, NEW b \in BOOLEAN, Appended(h, x, b)
  PROVE  Grown(h, Len(pending[h]) + 1, x, b)
<1> DEFINE new == [id |-> x, persistent |-> b]
           n == Len(pending[h]) + 1
<1>1. /\ pending[h] \in Seq(RecordType) /\ Len(pending[h]) \in Nat
      /\ DOMAIN pending[h] = 1 .. Len(pending[h])
  BY RecordShapes
<1>2. new \in RecordType
  BY DEF RecordType
<1>3. pending' = [pending EXCEPT ![h] = Append(pending[h], new)]
  BY DEF Appended
<1>4. pending \in [Handle -> Seq(RecordType)]
  BY DEF TableShapes, RecordType
<1> HIDE DEF new
<1>5. /\ Append(pending[h], new) \in Seq(RecordType) /\ Len(Append(pending[h], new)) = n
      /\ DOMAIN Append(pending[h], new) = 1 .. n
      /\ \A i \in DOMAIN pending[h] : Append(pending[h], new)[i] = pending[h][i]
      /\ Append(pending[h], new)[n] = new
  BY <1>1, <1>2
<1>6. pending[h] = <<>> => Append(pending[h], new) = <<new>>
  OBVIOUS
<1>7. pending'[h] = Append(pending[h], new)
  BY <1>3, <1>4
<1>8. pending' \in [Handle -> Seq(RecordType)] /\ \A g \in Handle : g # h => pending'[g] = pending[g]
  BY <1>3, <1>4, <1>5
<1>9. 1 .. n = DOMAIN pending[h] \cup {n} /\ n \notin DOMAIN pending[h]
  BY <1>1
<1> QED
  BY <1>5, <1>6, <1>7, <1>8, <1>9 DEF new, Grown

LEMMA DropEffect ==
  ASSUME TableShapes, NEW h \in Handle, Drops(h)
  PROVE  /\ pending' \in [Handle -> Seq(RecordType)]
         /\ \A g \in Handle : g # h => pending'[g] = pending[g]
         /\ 1 \in DOMAIN pending[h] /\ Head(pending[h]) = pending[h][1]
         /\ Len(pending'[h]) = Len(pending[h]) - 1
         /\ DOMAIN pending'[h] \subseteq DOMAIN pending[h]
         /\ \A i \in DOMAIN pending'[h] : i + 1 \in DOMAIN pending[h] /\ pending'[h][i] = pending[h][i + 1]
         /\ \A i \in DOMAIN pending[h] : i # 1 => i - 1 \in DOMAIN pending'[h]
<1>1. /\ pending[h] \in Seq(RecordType) /\ Len(pending[h]) \in Nat
      /\ DOMAIN pending[h] = 1 .. Len(pending[h])
  BY RecordShapes
<1>2. pending[h] # <<>> /\ pending' = [pending EXCEPT ![h] = Tail(pending[h])]
  BY DEF Drops
<1>3. pending \in [Handle -> Seq(RecordType)]
  BY DEF TableShapes, RecordType
<1>4. /\ Tail(pending[h]) \in Seq(RecordType) /\ Len(Tail(pending[h])) = Len(pending[h]) - 1
      /\ DOMAIN Tail(pending[h]) = 1 .. Len(pending[h]) - 1
      /\ \A i \in 1 .. Len(pending[h]) - 1 : Tail(pending[h])[i] = pending[h][i + 1]
      /\ Head(pending[h]) = pending[h][1] /\ Len(pending[h]) > 0
  BY <1>1, <1>2
<1>5. pending'[h] = Tail(pending[h])
  BY <1>2, <1>3
<1>6. pending' \in [Handle -> Seq(RecordType)] /\ \A g \in Handle : g # h => pending'[g] = pending[g]
  BY <1>2, <1>3, <1>4
<1> QED
  BY <1>1, <1>4, <1>5, <1>6

LEMMA ClearEffect ==
  ASSUME TableShapes, NEW h \in Handle,
         pending' = [pending EXCEPT ![h] = <<>>], persistent' = [persistent EXCEPT ![h] = 0]
  PROVE  /\ pending' \in [Handle -> Seq(RecordType)] /\ persistent' \in [Handle -> Nat]
         /\ \A g \in Handle : g # h => pending'[g] = pending[g] /\ persistent'[g] = persistent[g]
         /\ pending'[h] = <<>> /\ persistent'[h] = 0 /\ DOMAIN pending'[h] = {}
         /\ Len(pending'[h]) = 0
<1>1. pending \in [Handle -> Seq(RecordType)] /\ persistent \in [Handle -> Nat]
  BY DEF TableShapes, RecordType
<1>2. <<>> \in Seq(RecordType) /\ DOMAIN <<>> = {} /\ Len(<<>>) = 0
  OBVIOUS
<1> QED
  BY <1>1, <1>2

LEMMA EmptyTable ==
  ASSUME pending' = [h \in Handle |-> <<>>], persistent' = [h \in Handle |-> 0]
  PROVE  /\ pending' \in [Handle -> Seq(RecordType)] /\ persistent' \in [Handle -> Nat]
         /\ \A h \in Handle : /\ pending'[h] = <<>> /\ persistent'[h] = 0
                              /\ DOMAIN pending'[h] = {} /\ Len(pending'[h]) = 0
<1>1. <<>> \in Seq(RecordType) /\ DOMAIN <<>> = {} /\ Len(<<>>) = 0
  OBVIOUS
<1> QED
  BY <1>1

(* Entries are pairs of a handle and a position. *)
LEMMA EntriesAre ==
  \A e : e \in Entries <=> \E h \in Handle : \E i \in DOMAIN pending[h] : e = <<h, i>>
  BY DEF Entries

(* The sizes. *)
Kept == {h \in Handle : persistent[h] # 0}
Sized == Finite /\ Sizes

LEMMA SizesAre ==
  Sized => PendingSize \in Nat /\ PersistentSize \in Nat
  BY FS_CardinalityType DEF Sized, Finite, PendingSize, PersistentSize

LEMMA SmallerSet ==
  ASSUME NEW S, IsFiniteSet(S), Cardinality(S) <= Limit, NEW T, T \subseteq S
  PROVE  IsFiniteSet(T) /\ Cardinality(T) <= Limit
<1>1. IsFiniteSet(T) /\ Cardinality(T) <= Cardinality(S)
  BY FS_Subset
<1>2. Cardinality(T) \in Nat /\ Cardinality(S) \in Nat
  BY <1>1, FS_CardinalityType
<1> QED
  BY <1>1, <1>2, TrackingAssumption

LEMMA OneMore ==
  ASSUME NEW S, IsFiniteSet(S), Cardinality(S) < Limit, NEW x, NEW T, T \subseteq S \cup {x}
  PROVE  IsFiniteSet(T) /\ Cardinality(T) <= Limit
<1>1. /\ IsFiniteSet(S \cup {x})
      /\ Cardinality(S \cup {x}) = IF x \in S THEN Cardinality(S) ELSE Cardinality(S) + 1
  BY FS_AddElement
<1>2. Cardinality(S) \in Nat
  BY FS_CardinalityType
<1>3. Cardinality(S \cup {x}) <= Limit
  BY <1>1, <1>2, TrackingAssumption
<1> QED
  BY <1>1, <1>3, SmallerSet

LEMMA SizedBy ==
  ASSUME Sized, NEW E, NEW K, Entries' = E, Kept' = K,
         IsFiniteSet(E), Cardinality(E) <= Limit, IsFiniteSet(K), Cardinality(K) <= Limit
  PROVE  Sized'
  BY DEF Sized, Finite, Sizes, PendingSize, PersistentSize, Kept

(* One record more, or fewer. *)
LEMMA SizedAppend ==
  ASSUME TableShapes, Sized, NEW h \in Handle, NEW x \in Nat, NEW b \in BOOLEAN,
         Appended(h, x, b), PendingSize < Limit, persistent' = persistent
  PROVE  Sized'
<1>1. PICK n : Grown(h, n, x, b)
  BY AppendEffect
<1>2. /\ \A g \in Handle : g # h => pending'[g] = pending[g]
      /\ DOMAIN pending'[h] = DOMAIN pending[h] \cup {n}
  BY <1>1 DEF Grown
<1>3. Entries' \subseteq Entries \cup {<<h, n>>}
  <2> SUFFICES ASSUME NEW e \in Entries' PROVE e \in Entries \cup {<<h, n>>}
    OBVIOUS
  <2>1. PICK g \in Handle : \E i \in DOMAIN pending'[g] : e = <<g, i>>
    BY DEF Entries
  <2>2. PICK i \in DOMAIN pending'[g] : e = <<g, i>>
    BY <2>1
  <2>3. CASE g = h /\ i = n
    BY <2>2, <2>3
  <2>4. CASE ~(g = h /\ i = n)
    <3>1. i \in DOMAIN pending[g]
      BY <1>2, <2>2, <2>4
    <3> QED
      BY <2>2, <3>1, EntriesAre
  <2> QED
    BY <2>3, <2>4
<1>4. IsFiniteSet(Entries') /\ Cardinality(Entries') <= Limit
  BY <1>3, OneMore DEF Sized, Finite, PendingSize
<1>5. Kept' = Kept /\ IsFiniteSet(Kept) /\ Cardinality(Kept) <= Limit
  BY DEF Sized, Finite, Sizes, PersistentSize, Kept
<1> QED
  BY <1>4, <1>5, SizedBy

LEMMA SizedFewer ==
  ASSUME Sized, \A g \in Handle : DOMAIN pending'[g] \subseteq DOMAIN pending[g],
         \A g \in Handle : persistent'[g] # 0 => persistent[g] # 0
  PROVE  Sized'
<1>1. Entries' \subseteq Entries
  <2> SUFFICES ASSUME NEW e \in Entries' PROVE e \in Entries
    OBVIOUS
  <2>1. PICK g \in Handle : \E i \in DOMAIN pending'[g] : e = <<g, i>>
    BY DEF Entries
  <2>2. PICK i \in DOMAIN pending'[g] : e = <<g, i>>
    BY <2>1
  <2> QED
    BY <2>2, EntriesAre
<1>2. Kept' \subseteq Kept
  BY DEF Kept
<1>3. IsFiniteSet(Entries') /\ Cardinality(Entries') <= Limit
  BY <1>1, SmallerSet DEF Sized, Finite, Sizes, PendingSize
<1>4. IsFiniteSet(Kept') /\ Cardinality(Kept') <= Limit
  BY <1>2, SmallerSet DEF Sized, Finite, Sizes, PersistentSize, Kept
<1> QED
  BY <1>3, <1>4, SizedBy

LEMMA SizedPersistent ==
  ASSUME Sized, NEW h \in Handle, PersistentSize < Limit, pending' = pending,
         \A g \in Handle : g # h => persistent'[g] = persistent[g]
  PROVE  Sized'
<1>1. Kept' \subseteq Kept \cup {h}
  BY DEF Kept
<1>2. IsFiniteSet(Kept') /\ Cardinality(Kept') <= Limit
  BY <1>1, OneMore DEF Sized, Finite, PersistentSize, Kept
<1>3. Entries' = Entries /\ IsFiniteSet(Entries) /\ Cardinality(Entries) <= Limit
  BY DEF Sized, Finite, Sizes, PendingSize, Entries
<1> QED
  BY <1>2, <1>3, SizedBy

-----------------------------------------------------------------------------
(* The table by itself: shapes, sizes, ids and groups, for each way it changes. *)
TableInv == TableShapes /\ Sized /\ IdsOnce /\ GroupsKept

LEMMA NewPersistentKeeps ==
  ASSUME TableInv, NEW h \in Handle, NewPersistent(h)
  PROVE  TableInv'
<1> DEFINE n == nextId + 1
<1>1. /\ nextId' = n /\ n \in Nat /\ n > nextId /\ nextId \in Nat
      /\ groups' = (groups \ {persistent[h]}) \cup {n} /\ pending' = pending
  BY DEF TableInv, TableShapes, NewPersistent
<1>2. /\ persistent' \in [Handle -> Nat] /\ persistent'[h] = n
      /\ \A g \in Handle : g # h => persistent'[g] = persistent[g]
  BY <1>1 DEF TableInv, TableShapes, NewPersistent
<1> HIDE DEF n
<1>3. groups' \subseteq 1 .. n
  <2>1. groups \subseteq 1 .. nextId
    BY DEF TableInv, TableShapes
  <2>2. n \in 1 .. n /\ 1 .. nextId \subseteq 1 .. n
    BY <1>1 DEF n
  <2> QED
    BY <1>1, <2>1, <2>2
<1>4. TableShapes'
  BY <1>1, <1>2, <1>3 DEF TableInv, TableShapes
<1>5. Sized'
  BY <1>1, <1>2, SizedPersistent DEF TableInv, NewPersistent
<1>6. \A g \in Handle : /\ persistent[g] \in 0 .. nextId /\ persistent[g] # n
                        /\ \A i \in DOMAIN pending[g] : /\ pending[g][i].id \in 1 .. nextId
                                                        /\ pending[g][i].id # n
  BY <1>1 DEF TableInv, IdsOnce
<1>7. IdsOnce'
  <2>1. \A g \in Handle : persistent'[g] \in 0 .. n
    BY <1>1, <1>2, <1>6
  <2>2. \A g \in Handle : \A i \in DOMAIN pending[g] : pending[g][i].id \in 1 .. n
    BY <1>1, <1>6
  <2>3. \A f, g \in Handle : \A i \in DOMAIN pending[f] :
            ~pending[f][i].persistent => pending[f][i].id # persistent'[g]
    BY <1>2, <1>6 DEF TableInv, IdsOnce
  <2>4. \A f, g \in Handle : persistent'[f] = persistent'[g] /\ persistent'[f] # 0 => f = g
    BY <1>2, <1>6 DEF TableInv, IdsOnce
  <2> QED
    BY <1>1, <2>1, <2>2, <2>3, <2>4 DEF TableInv, IdsOnce
<1>8. GroupsKept'
  <2>1. \A x \in groups' : Owner(x)'
    <3> SUFFICES ASSUME NEW x \in groups' PROVE Owner(x)'
      OBVIOUS
    <3>1. CASE x = n
      BY <1>2, <3>1 DEF Owner
    <3>2. CASE x # n
      <4>1. x \in groups /\ x # persistent[h]
        BY <1>1, <3>2
      <4>2. Owner(x)
        BY <4>1 DEF TableInv, GroupsKept
      <4> QED
        BY <1>1, <1>2, <4>1, <4>2 DEF Owner
    <3> QED
      BY <3>1, <3>2
  <2>2. \A g \in Handle : persistent'[g] # 0 => persistent'[g] \in groups'
    BY <1>1, <1>2 DEF TableInv, GroupsKept, IdsOnce
  <2>3. \A g \in Handle : \A i \in DOMAIN pending[g] :
            pending[g][i].persistent =>
                pending[g][i].id = persistent'[g] \/ pending[g][i].id \notin groups'
    BY <1>1, <1>2, <1>6 DEF TableInv, GroupsKept
  <2>4. \A g \in Handle : \A i \in DOMAIN pending[g] :
            ~pending[g][i].persistent => pending[g][i].id \in groups'
    BY <1>1 DEF TableInv, GroupsKept, IdsOnce
  <2> QED
    BY <1>1, <2>1, <2>2, <2>3, <2>4 DEF GroupsKept
<1> QED
  BY <1>4, <1>5, <1>7, <1>8 DEF TableInv

LEMMA NewRecordKeeps ==
  ASSUME TableInv, NEW h \in Handle, NewRecord(h)
  PROVE  TableInv'
<1> DEFINE n == nextId + 1
<1>1. /\ nextId' = n /\ n \in Nat /\ n > nextId /\ nextId \in Nat
      /\ groups' = groups \cup {n} /\ persistent' = persistent /\ PendingSize < Limit
  BY DEF TableInv, TableShapes, NewRecord
<1>2. Appended(h, n, FALSE)
  BY <1>1 DEF NewRecord, Appended
<1> HIDE DEF n
<1>3. PICK k : Grown(h, k, n, FALSE)
  BY <1>1, <1>2, AppendEffect DEF TableInv
<1>4. /\ pending'[h][k].id = n /\ ~pending'[h][k].persistent
      /\ DOMAIN pending'[h] = DOMAIN pending[h] \cup {k} /\ k \notin DOMAIN pending[h]
      /\ \A i \in DOMAIN pending[h] : pending'[h][i] = pending[h][i]
      /\ \A g \in Handle : g # h => pending'[g] = pending[g]
  BY <1>3 DEF Grown
<1>5. TableShapes'
  BY <1>1, <1>3 DEF TableInv, TableShapes, Grown, RecordType
<1>6. Sized'
  BY <1>1, <1>2, SizedAppend DEF TableInv
<1>7. \A g \in Handle : /\ persistent[g] \in 0 .. nextId /\ persistent[g] # n
                        /\ \A i \in DOMAIN pending[g] : /\ pending[g][i].id \in 1 .. nextId
                                                        /\ pending[g][i].id # n
  BY <1>1 DEF TableInv, IdsOnce
<1>8. \A g \in Handle : \A i \in DOMAIN pending'[g] :
          \/ g = h /\ i = k
          \/ i \in DOMAIN pending[g] /\ pending'[g][i] = pending[g][i]
  BY <1>4
<1>9. IdsOnce'
  <2>1. \A g \in Handle : persistent'[g] \in 0 .. n
    BY <1>1, <1>7
  <2>2. \A g \in Handle : \A i \in DOMAIN pending'[g] : pending'[g][i].id \in 1 .. n
    BY <1>1, <1>4, <1>7, <1>8
  <2>3. \A f, g \in Handle : \A i \in DOMAIN pending'[f], j \in DOMAIN pending'[g] :
            ~pending'[f][i].persistent /\ pending'[f][i].id = pending'[g][j].id => f = g /\ i = j
    <3> SUFFICES ASSUME NEW f \in Handle, NEW g \in Handle,
                        NEW i \in DOMAIN pending'[f], NEW j \in DOMAIN pending'[g],
                        ~pending'[f][i].persistent, pending'[f][i].id = pending'[g][j].id
                 PROVE  f = g /\ i = j
      OBVIOUS
    <3>1. CASE f = h /\ i = k
      BY <1>4, <1>7, <1>8, <3>1
    <3>2. CASE g = h /\ j = k
      BY <1>4, <1>7, <1>8, <3>2
    <3>3. CASE ~(f = h /\ i = k) /\ ~(g = h /\ j = k)
      BY <1>8, <3>3 DEF TableInv, IdsOnce
    <3> QED
      BY <3>1, <3>2, <3>3
  <2>4. \A f, g \in Handle : \A i \in DOMAIN pending'[f] :
            ~pending'[f][i].persistent => pending'[f][i].id # persistent[g]
    BY <1>4, <1>7, <1>8 DEF TableInv, IdsOnce
  <2> QED
    BY <1>1, <2>1, <2>2, <2>3, <2>4 DEF TableInv, IdsOnce
<1>10. GroupsKept'
  <2>1. \A x \in groups' : Owner(x)'
    <3> SUFFICES ASSUME NEW x \in groups' PROVE Owner(x)'
      OBVIOUS
    <3>1. CASE x = n
      BY <1>4, <3>1 DEF Owner
    <3>2. CASE x # n
      <4>1. Owner(x)
        BY <1>1, <3>2 DEF TableInv, GroupsKept
      <4> QED
        BY <1>1, <1>4, <4>1 DEF Owner
    <3> QED
      BY <3>1, <3>2
  <2>2. \A g \in Handle : persistent[g] # 0 => persistent[g] \in groups'
    BY <1>1 DEF TableInv, GroupsKept
  <2>3. \A g \in Handle : \A i \in DOMAIN pending'[g] :
            IF pending'[g][i].persistent
            THEN pending'[g][i].id = persistent[g] \/ pending'[g][i].id \notin groups'
            ELSE pending'[g][i].id \in groups'
    BY <1>1, <1>4, <1>7, <1>8 DEF TableInv, GroupsKept
  <2> QED
    BY <1>1, <2>1, <2>2, <2>3 DEF GroupsKept
<1> QED
  BY <1>5, <1>6, <1>9, <1>10 DEF TableInv

LEMMA NewStartKeeps ==
  ASSUME TableInv, NEW h \in Handle, NewStart(h)
  PROVE  TableInv'
<1>1. /\ nextId' = nextId /\ groups' = groups /\ persistent' = persistent /\ PendingSize < Limit
      /\ Appended(h, persistent[h], TRUE) /\ persistent[h] # 0
  BY DEF NewStart
<1>2. persistent[h] \in Nat /\ persistent[h] \in 1 .. nextId
  BY <1>1 DEF TableInv, TableShapes, IdsOnce
<1>3. PICK k : Grown(h, k, persistent[h], TRUE)
  BY <1>1, <1>2, AppendEffect DEF TableInv
<1>4. /\ pending'[h][k].id = persistent[h] /\ pending'[h][k].persistent
      /\ DOMAIN pending'[h] = DOMAIN pending[h] \cup {k} /\ k \notin DOMAIN pending[h]
      /\ \A i \in DOMAIN pending[h] : pending'[h][i] = pending[h][i]
      /\ \A g \in Handle : g # h => pending'[g] = pending[g]
  BY <1>3 DEF Grown
<1>5. TableShapes'
  BY <1>1, <1>3 DEF TableInv, TableShapes, Grown, RecordType
<1>6. Sized'
  BY <1>1, <1>2, SizedAppend DEF TableInv
<1>7. \A g \in Handle : \A i \in DOMAIN pending'[g] :
          \/ g = h /\ i = k
          \/ i \in DOMAIN pending[g] /\ pending'[g][i] = pending[g][i]
  BY <1>4
<1>8. IdsOnce'
  <2>1. \A g \in Handle : \A i \in DOMAIN pending'[g] : pending'[g][i].id \in 1 .. nextId
    BY <1>2, <1>4, <1>7 DEF TableInv, IdsOnce
  <2>2. \A f, g \in Handle : \A i \in DOMAIN pending'[f], j \in DOMAIN pending'[g] :
            ~pending'[f][i].persistent /\ pending'[f][i].id = pending'[g][j].id => f = g /\ i = j
    <3> SUFFICES ASSUME NEW f \in Handle, NEW g \in Handle,
                        NEW i \in DOMAIN pending'[f], NEW j \in DOMAIN pending'[g],
                        ~pending'[f][i].persistent, pending'[f][i].id = pending'[g][j].id
                 PROVE  f = g /\ i = j
      OBVIOUS
    <3>1. i \in DOMAIN pending[f] /\ pending'[f][i] = pending[f][i]
      BY <1>4, <1>7
    <3>2. CASE g = h /\ j = k
      BY <1>4, <3>1, <3>2 DEF TableInv, IdsOnce
    <3>3. CASE ~(g = h /\ j = k)
      BY <1>7, <3>1, <3>3 DEF TableInv, IdsOnce
    <3> QED
      BY <3>2, <3>3
  <2>3. \A f, g \in Handle : \A i \in DOMAIN pending'[f] :
            ~pending'[f][i].persistent => pending'[f][i].id # persistent[g]
    BY <1>4, <1>7 DEF TableInv, IdsOnce
  <2> QED
    BY <1>1, <2>1, <2>2, <2>3 DEF TableInv, IdsOnce
<1>9. GroupsKept'
  <2>1. \A x \in groups : Owner(x)'
    BY <1>1, <1>4 DEF TableInv, GroupsKept, Owner
  <2>2. \A g \in Handle : \A i \in DOMAIN pending'[g] :
            IF pending'[g][i].persistent
            THEN pending'[g][i].id = persistent[g] \/ pending'[g][i].id \notin groups
            ELSE pending'[g][i].id \in groups
    BY <1>4, <1>7 DEF TableInv, GroupsKept
  <2> QED
    BY <1>1, <2>1, <2>2 DEF TableInv, GroupsKept
<1> QED
  BY <1>5, <1>6, <1>8, <1>9 DEF TableInv

LEMMA DropKeeps ==
  ASSUME TableInv, NEW h \in Handle, Drops(h)
  PROVE  TableInv'
<1>1. /\ nextId' = nextId /\ persistent' = persistent
      /\ groups' = IF Head(pending[h]).persistent THEN groups
                   ELSE groups \ {Head(pending[h]).id}
  BY DEF Drops
<1>2. /\ pending' \in [Handle -> Seq(RecordType)]
      /\ \A g \in Handle : g # h => pending'[g] = pending[g]
      /\ 1 \in DOMAIN pending[h] /\ Head(pending[h]) = pending[h][1]
      /\ DOMAIN pending'[h] \subseteq DOMAIN pending[h]
      /\ \A i \in DOMAIN pending'[h] :
             i + 1 \in DOMAIN pending[h] /\ pending'[h][i] = pending[h][i + 1]
      /\ \A i \in DOMAIN pending[h] : i # 1 => i - 1 \in DOMAIN pending'[h]
  BY DropEffect DEF TableInv
<1>3. \A i \in DOMAIN pending[h] : i \in Nat
  BY RecordShapes DEF TableInv
<1> DEFINE old(g, i) == IF g = h THEN i + 1 ELSE i
<1>4. \A g \in Handle : \A i \in DOMAIN pending'[g] :
          /\ old(g, i) \in DOMAIN pending[g] /\ pending'[g][i] = pending[g][old(g, i)]
          /\ ~(g = h /\ old(g, i) = 1)
  BY <1>2, <1>3
<1>5. \A g \in Handle : \A i, j \in DOMAIN pending'[g] : old(g, i) = old(g, j) => i = j
  BY <1>2, <1>3
<1>6. \A g \in Handle : \A i \in DOMAIN pending[g] :
          ~(g = h /\ i = 1) => \E j \in DOMAIN pending'[g] : pending'[g][j] = pending[g][i]
  <2> SUFFICES ASSUME NEW g \in Handle, NEW i \in DOMAIN pending[g], ~(g = h /\ i = 1)
               PROVE  \E j \in DOMAIN pending'[g] : pending'[g][j] = pending[g][i]
    OBVIOUS
  <2>1. CASE g # h
    BY <1>2, <2>1
  <2>2. CASE g = h
    <3>1. i - 1 \in DOMAIN pending'[h] /\ (i - 1) + 1 = i
      BY <1>2, <1>3, <2>2
    <3>2. pending'[h][i - 1] = pending[h][(i - 1) + 1]
      BY <1>2, <3>1
    <3> QED
      BY <2>2, <3>1, <3>2
  <2> QED
    BY <2>1, <2>2
<1> HIDE DEF old
<1>7. TableShapes'
  BY <1>1, <1>2 DEF TableInv, TableShapes, RecordType
<1>8. Sized'
  <2>1. \A g \in Handle : DOMAIN pending'[g] \subseteq DOMAIN pending[g]
    BY <1>2
  <2> QED
    BY <1>1, <2>1, SizedFewer DEF TableInv
<1>9. IdsOnce'
  <2>1. \A g \in Handle : \A i \in DOMAIN pending'[g] : pending'[g][i].id \in 1 .. nextId
    BY <1>4 DEF TableInv, IdsOnce
  <2>2. \A f, g \in Handle : \A i \in DOMAIN pending'[f], j \in DOMAIN pending'[g] :
            ~pending'[f][i].persistent /\ pending'[f][i].id = pending'[g][j].id => f = g /\ i = j
    <3> SUFFICES ASSUME NEW f \in Handle, NEW g \in Handle,
                        NEW i \in DOMAIN pending'[f], NEW j \in DOMAIN pending'[g],
                        ~pending'[f][i].persistent, pending'[f][i].id = pending'[g][j].id
                 PROVE  f = g /\ i = j
      OBVIOUS
    <3>1. /\ old(f, i) \in DOMAIN pending[f] /\ pending'[f][i] = pending[f][old(f, i)]
          /\ old(g, j) \in DOMAIN pending[g] /\ pending'[g][j] = pending[g][old(g, j)]
      BY <1>4
    <3>2. f = g /\ old(f, i) = old(g, j)
      BY <3>1 DEF TableInv, IdsOnce
    <3> QED
      BY <1>5, <3>2
  <2>3. \A f, g \in Handle : \A i \in DOMAIN pending'[f] :
            ~pending'[f][i].persistent => pending'[f][i].id # persistent[g]
    BY <1>4 DEF TableInv, IdsOnce
  <2> QED
    BY <1>1, <2>1, <2>2, <2>3 DEF TableInv, IdsOnce
<1>10. GroupsKept'
  <2>1. \A x \in groups' : Owner(x)'
    <3> SUFFICES ASSUME NEW x \in groups' PROVE Owner(x)'
      OBVIOUS
    <3>1. x \in groups
      BY <1>1
    <3>2. Owner(x)
      BY <3>1 DEF TableInv, GroupsKept
    <3>3. CASE \E g \in Handle : persistent[g] = x
      BY <1>1, <3>3 DEF Owner
    <3>4. CASE \A g \in Handle : persistent[g] # x
      <4>1. PICK g \in Handle : \E i \in DOMAIN pending[g] : pending[g][i].id = x
        BY <3>2, <3>4 DEF Owner
      <4>2. PICK i \in DOMAIN pending[g] : pending[g][i].id = x
        BY <4>1
      <4>3. ~(g = h /\ i = 1)
        BY <1>1, <1>2, <3>1, <3>4, <4>2 DEF TableInv, GroupsKept
      <4>4. PICK j \in DOMAIN pending'[g] : pending'[g][j] = pending[g][i]
        BY <1>6, <4>3
      <4> QED
        BY <4>2, <4>4 DEF Owner
    <3> QED
      BY <3>3, <3>4
  <2>2. \A g \in Handle : persistent[g] # 0 => persistent[g] \in groups'
    <3>1. \A g \in Handle : persistent[g] # 0 => persistent[g] \in groups
      BY DEF TableInv, GroupsKept
    <3>2. \A g \in Handle : ~pending[h][1].persistent => pending[h][1].id # persistent[g]
      BY <1>2 DEF TableInv, IdsOnce
    <3> QED
      BY <1>1, <1>2, <3>1, <3>2
  <2>3. \A g \in Handle : \A i \in DOMAIN pending'[g] :
            pending'[g][i].persistent =>
                pending'[g][i].id = persistent[g] \/ pending'[g][i].id \notin groups'
    BY <1>1, <1>4 DEF TableInv, GroupsKept
  <2>4. \A g \in Handle : \A i \in DOMAIN pending'[g] :
            ~pending'[g][i].persistent => pending'[g][i].id \in groups'
    <3> SUFFICES ASSUME NEW g \in Handle, NEW i \in DOMAIN pending'[g],
                        ~pending'[g][i].persistent
                 PROVE  pending'[g][i].id \in groups'
      OBVIOUS
    <3>1. /\ old(g, i) \in DOMAIN pending[g] /\ pending'[g][i] = pending[g][old(g, i)]
          /\ ~(g = h /\ old(g, i) = 1)
      BY <1>4
    <3>2. pending'[g][i].id \in groups
      BY <3>1 DEF TableInv, GroupsKept
    <3>3. pending'[g][i].id # pending[h][1].id
      BY <1>2, <3>1 DEF TableInv, IdsOnce
    <3> QED
      BY <1>1, <1>2, <3>2, <3>3
  <2> QED
    BY <1>1, <2>1, <2>2, <2>3, <2>4 DEF GroupsKept
<1> QED
  BY <1>7, <1>8, <1>9, <1>10 DEF TableInv

LEMMA ClearKeeps ==
  ASSUME TableInv, NEW h \in Handle, Clears(h)
  PROVE  TableInv'
<1>1. nextId' = nextId /\ groups' = groups \ (OwnIds(h) \cup {persistent[h]})
  BY DEF Clears
<1>2. /\ pending' \in [Handle -> Seq(RecordType)] /\ persistent' \in [Handle -> Nat]
      /\ \A g \in Handle : g # h => pending'[g] = pending[g] /\ persistent'[g] = persistent[g]
      /\ pending'[h] = <<>> /\ persistent'[h] = 0 /\ DOMAIN pending'[h] = {}
  BY ClearEffect DEF TableInv, Clears
<1>3. \A g \in Handle : \A i \in DOMAIN pending'[g] :
          g # h /\ i \in DOMAIN pending[g] /\ pending'[g][i] = pending[g][i]
  BY <1>2
<1>4. \A x : x \in OwnIds(h) <=>
          \E i \in DOMAIN pending[h] : ~pending[h][i].persistent /\ pending[h][i].id = x
  BY DEF OwnIds
<1>5. TableShapes'
  BY <1>1, <1>2 DEF TableInv, TableShapes, RecordType
<1>6. Sized'
  <2>1. \A g \in Handle : DOMAIN pending'[g] \subseteq DOMAIN pending[g]
    BY <1>3
  <2>2. \A g \in Handle : persistent'[g] # 0 => persistent[g] # 0
    BY <1>2
  <2> QED
    BY <2>1, <2>2, SizedFewer DEF TableInv
<1>7. IdsOnce'
  <2>1. \A g \in Handle : persistent'[g] \in 0 .. nextId
    <3>1. 0 \in 0 .. nextId /\ \A g \in Handle : persistent[g] \in 0 .. nextId
      BY DEF TableInv, TableShapes, IdsOnce
    <3> QED
      BY <1>2, <3>1
  <2>2. \A g \in Handle : \A i \in DOMAIN pending'[g] : pending'[g][i].id \in 1 .. nextId
    BY <1>3 DEF TableInv, IdsOnce
  <2>3. \A f, g \in Handle : \A i \in DOMAIN pending'[f], j \in DOMAIN pending'[g] :
            ~pending'[f][i].persistent /\ pending'[f][i].id = pending'[g][j].id => f = g /\ i = j
    BY <1>3 DEF TableInv, IdsOnce
  <2>4. \A f, g \in Handle : \A i \in DOMAIN pending'[f] :
            ~pending'[f][i].persistent => pending'[f][i].id # persistent'[g]
    <3>1. \A f \in Handle : \A i \in DOMAIN pending'[f] : pending'[f][i].id # 0
      <4>1. 0 \notin 1 .. nextId
        BY DEF TableInv, TableShapes
      <4> QED
        BY <2>2, <4>1
    <3>2. \A f, g \in Handle : \A i \in DOMAIN pending[f] :
              ~pending[f][i].persistent => pending[f][i].id # persistent[g]
      BY DEF TableInv, IdsOnce
    <3>3. \A g \in Handle : persistent'[g] = 0 \/ persistent'[g] = persistent[g]
      BY <1>2
    <3> QED
      BY <1>3, <3>1, <3>2, <3>3
  <2>5. \A f, g \in Handle : persistent'[f] = persistent'[g] /\ persistent'[f] # 0 => f = g
    <3>1. \A f, g \in Handle : persistent[f] = persistent[g] /\ persistent[f] # 0 => f = g
      BY DEF TableInv, IdsOnce
    <3> QED
      BY <1>2, <3>1
  <2> QED
    BY <1>1, <2>1, <2>2, <2>3, <2>4, <2>5 DEF IdsOnce
<1>8. GroupsKept'
  <2>1. \A x \in groups' : Owner(x)'
    <3> SUFFICES ASSUME NEW x \in groups' PROVE Owner(x)'
      OBVIOUS
    <3>1. x \in groups /\ x \notin OwnIds(h) /\ x # persistent[h]
      BY <1>1
    <3>2. Owner(x)
      BY <3>1 DEF TableInv, GroupsKept
    <3>3. CASE \E g \in Handle : persistent[g] = x
      BY <1>2, <3>1, <3>3 DEF Owner
    <3>4. CASE \A g \in Handle : persistent[g] # x
      <4>1. PICK g \in Handle : \E i \in DOMAIN pending[g] : pending[g][i].id = x
        BY <3>2, <3>4 DEF Owner
      <4>2. PICK i \in DOMAIN pending[g] : pending[g][i].id = x
        BY <4>1
      <4>3. g # h
        BY <1>4, <3>1, <4>2 DEF TableInv, GroupsKept
      <4> QED
        BY <1>2, <4>2, <4>3 DEF Owner
    <3> QED
      BY <3>3, <3>4
  <2>2. \A g \in Handle : persistent'[g] # 0 => persistent'[g] \in groups'
    <3> SUFFICES ASSUME NEW g \in Handle, persistent'[g] # 0 PROVE persistent'[g] \in groups'
      OBVIOUS
    <3>1. g # h /\ persistent'[g] = persistent[g] /\ persistent[g] # 0
      BY <1>2
    <3>2. persistent[g] \in groups /\ persistent[g] # persistent[h]
      BY <3>1 DEF TableInv, GroupsKept, IdsOnce
    <3>3. persistent[g] \notin OwnIds(h)
      BY <1>4 DEF TableInv, IdsOnce
    <3> QED
      BY <1>1, <3>1, <3>2, <3>3
  <2>3. \A g \in Handle : \A i \in DOMAIN pending'[g] :
            pending'[g][i].persistent =>
                pending'[g][i].id = persistent'[g] \/ pending'[g][i].id \notin groups'
    BY <1>1, <1>2, <1>3 DEF TableInv, GroupsKept
  <2>4. \A g \in Handle : \A i \in DOMAIN pending'[g] :
            ~pending'[g][i].persistent => pending'[g][i].id \in groups'
    <3> SUFFICES ASSUME NEW g \in Handle, NEW i \in DOMAIN pending'[g],
                        ~pending'[g][i].persistent
                 PROVE  pending'[g][i].id \in groups'
      OBVIOUS
    <3>1. g # h /\ i \in DOMAIN pending[g] /\ pending'[g][i] = pending[g][i]
      BY <1>3
    <3>2. pending[g][i].id \in groups /\ pending[g][i].id # persistent[h]
      BY <3>1 DEF TableInv, GroupsKept, IdsOnce
    <3>3. pending[g][i].id \notin OwnIds(h)
      BY <1>4, <3>1 DEF TableInv, IdsOnce
    <3> QED
      BY <1>1, <3>1, <3>2, <3>3
  <2> QED
    BY <2>1, <2>2, <2>3, <2>4 DEF GroupsKept
<1> QED
  BY <1>5, <1>6, <1>7, <1>8 DEF TableInv

Empties ==
    /\ pending' = [h \in Handle |-> <<>>]
    /\ persistent' = [h \in Handle |-> 0]
    /\ groups' = groups \ ({pending[e[1]][e[2]].id : e \in {d \in Entries : ~pending[d[1]][d[2]].persistent}}
                           \cup {persistent[h] : h \in Handle})
    /\ nextId' = nextId

(* MPI_Finalize frees every group. *)
LEMMA AllFreed ==
  ASSUME TableInv, Empties
  PROVE  groups' = {}
<1> SUFFICES ASSUME NEW x \in groups PROVE x \notin groups'
  BY DEF Empties
<1>1. CASE \E h \in Handle : persistent[h] = x
  BY <1>1 DEF Empties
<1>2. CASE \A h \in Handle : persistent[h] # x
  <2>1. Owner(x)
    BY DEF TableInv, GroupsKept
  <2>2. PICK h \in Handle : \E i \in DOMAIN pending[h] : pending[h][i].id = x
    BY <1>2, <2>1 DEF Owner
  <2>3. PICK i \in DOMAIN pending[h] : pending[h][i].id = x
    BY <2>2
  <2>4. ~pending[h][i].persistent
    BY <1>2, <2>3 DEF TableInv, GroupsKept
  <2>5. <<h, i>> \in Entries
    BY EntriesAre
  <2>6. <<h, i>> \in {d \in Entries : ~pending[d[1]][d[2]].persistent}
    BY <2>4, <2>5
  <2>7. \E e \in {d \in Entries : ~pending[d[1]][d[2]].persistent} : pending[e[1]][e[2]].id = x
    BY <2>3, <2>6
  <2> QED
    BY <2>7 DEF Empties
<1> QED
  BY <1>1, <1>2

LEMMA EmptyKeeps ==
  ASSUME TableInv, Empties
  PROVE  TableInv'
<1>1. nextId' = nextId /\ groups' = {}
  BY AllFreed DEF Empties
<1>2. /\ pending' \in [Handle -> Seq(RecordType)] /\ persistent' \in [Handle -> Nat]
      /\ \A h \in Handle : persistent'[h] = 0 /\ DOMAIN pending'[h] = {}
  BY EmptyTable DEF Empties
<1>3. nextId \in Nat /\ 0 \in 0 .. nextId
  BY DEF TableInv, TableShapes
<1>4. TableShapes'
  BY <1>1, <1>2, <1>3 DEF TableShapes, RecordType
<1>5. Sized'
  <2>1. \A g \in Handle : DOMAIN pending'[g] \subseteq DOMAIN pending[g]
    BY <1>2
  <2>2. \A g \in Handle : persistent'[g] # 0 => persistent[g] # 0
    BY <1>2
  <2> QED
    BY <2>1, <2>2, SizedFewer DEF TableInv
<1>6. IdsOnce'
  BY <1>1, <1>2, <1>3 DEF IdsOnce
<1>7. GroupsKept'
  BY <1>1, <1>2 DEF GroupsKept
<1> QED
  BY <1>4, <1>5, <1>6, <1>7 DEF TableInv

LEMMA SameKeeps ==
  ASSUME TableInv, Same
  PROVE  TableInv'
<1>1. pending' = pending /\ persistent' = persistent /\ groups' = groups /\ nextId' = nextId
  BY DEF Same
<1>2. TableShapes' /\ IdsOnce'
  BY <1>1 DEF TableInv, TableShapes, IdsOnce
<1>3. GroupsKept'
  BY <1>1 DEF TableInv, GroupsKept, Owner
<1>4. Sized'
  BY <1>1, SizedFewer DEF TableInv
<1> QED
  BY <1>2, <1>3, <1>4 DEF TableInv

LEMMA TableInvInit == TableInit => TableInv
<1> SUFFICES ASSUME TableInit PROVE TableInv
  OBVIOUS
<1>1. /\ pending = [h \in Handle |-> <<>>] /\ persistent = [h \in Handle |-> 0]
      /\ groups = {} /\ nextId = 0
  BY DEF TableInit
<1>2. <<>> \in Seq(RecordType) /\ DOMAIN <<>> = {} /\ 0 \in 0 .. 0
  OBVIOUS
<1>3. \A h \in Handle : persistent[h] = 0 /\ DOMAIN pending[h] = {}
  BY <1>1, <1>2
<1>4. pending \in [Handle -> Seq(RecordType)] /\ persistent \in [Handle -> Nat]
  BY <1>1, <1>2
<1>5. TableShapes
  BY <1>1, <1>4 DEF TableShapes, RecordType
<1>6. Entries = {} /\ Kept = {}
  BY <1>3 DEF Entries, Kept
<1>7. Sized
  BY <1>6, FS_EmptySet, TrackingAssumption
     DEF Sized, Finite, Sizes, PendingSize, PersistentSize, Kept
<1>8. IdsOnce
  BY <1>1, <1>2, <1>3 DEF IdsOnce
<1>9. GroupsKept
  BY <1>1, <1>3 DEF GroupsKept
<1> QED
  BY <1>5, <1>7, <1>8, <1>9 DEF TableInv

-----------------------------------------------------------------------------
(* The steps of the specification, one by one. *)
LEMMA Steps ==
  ASSUME [TableNext]_table
  PROVE  \/ UNCHANGED table
         \/ MPIFinalize
         \/ \E t \in Thread : \E h \in Handle, isPersistent \in BOOLEAN : Create(t, h, isPersistent)
         \/ \E t \in Thread : \E R \in (SUBSET Known) \ {{}} : Start(t, R)
         \/ \E t \in Thread : \E R \in (SUBSET Known) \ {{}} : \E F \in SUBSET R : Completion(t, R, F)
         \/ \E t \in Thread : \E r \in Known : RequestFree(t, r)
         \/ \E t \in Thread : \E r \in call[t].todo : Remember(t, r)
         \/ \E t \in Thread : \E r \in call[t].todo : StartPersistent(t, r)
         \/ \E t \in Thread : \E r \in call[t].todo : CompleteRequest(t, r)
         \/ \E t \in Thread : \E r \in call[t].todo : ForgetRequest(t, r)
  BY Zenon DEF TableNext, CallMPI, UpdateTable

RestTyped == stale \subseteq Handle /\ failures \in Nat /\ finalized \in BOOLEAN
BaseInv == Calls /\ TableInv /\ RestTyped

LEMMA BaseStep == BaseInv /\ [TableNext]_table => BaseInv'
<1> SUFFICES ASSUME BaseInv, [TableNext]_table PROVE BaseInv'
  OBVIOUS
<1> USE DEF BaseInv
<1>1. PendingSize \in Nat /\ PersistentSize \in Nat
  BY SizesAre DEF TableInv
<1>2. TableShapes
  BY DEF TableInv
<1>3. Shapes
  BY ShapesOf DEF Calls, Requests
<1>4. CASE UNCHANGED table
  <2>1. Same /\ RestTyped'
    BY <1>4 DEF table, Same, RestTyped
  <2>2. Calls'
    BY <1>4 DEF table, Calls, Requests, CallShapes, OneCall, Known
  <2> QED
    BY <2>1, <2>2, SameKeeps
<1>5. CASE MPIFinalize
  <2>1. Empties /\ RestTyped'
    BY <1>5 DEF MPIFinalize, Empties, RestTyped
  <2>2. Calls'
    BY <1>5 DEF MPIFinalize, Calls, Requests, CallShapes, OneCall, Known
  <2> QED
    BY <2>1, <2>2, EmptyKeeps
<1>6. ASSUME NEW t \in Thread, NEW h \in Handle, NEW isPersistent \in BOOLEAN,
             Create(t, h, isPersistent)
      PROVE  BaseInv'
  <2>1. Same /\ RestTyped'
    BY <1>6 DEF Create, Same, RestTyped
  <2>2. Calls'
    BY <1>6, CreateEffect
  <2> QED
    BY <2>1, <2>2, SameKeeps
<1>7. ASSUME NEW t \in Thread, NEW R \in (SUBSET Known) \ {{}}, Start(t, R)
      PROVE  BaseInv'
  <2>1. Same /\ RestTyped'
    BY <1>7 DEF Start, Same, RestTyped
  <2>2. Calls'
    BY <1>7, StartEffect
  <2> QED
    BY <2>1, <2>2, SameKeeps
<1>8. ASSUME NEW t \in Thread, NEW R \in (SUBSET Known) \ {{}}, NEW F \in SUBSET R,
             Completion(t, R, F)
      PROVE  BaseInv'
  <2>1. Same
    BY <1>8 DEF Completion, Same
  <2>2. Calls'
    BY <1>8, CompletionEffect DEF Ends
  <2>3. IsFiniteSet(1 .. Len(request)) /\ F \subseteq 1 .. Len(request)
    BY <1>3, FS_Interval DEF Shapes
  <2>4. Cardinality(F) \in Nat
    BY <2>3, FS_Subset, FS_CardinalityType
  <2>5. /\ failures' = failures + Cardinality(F) /\ finalized' = finalized
        /\ stale' = stale \cup {request[r].handle : r \in {q \in F : request[q].tracked}}
    BY <1>8 DEF Completion
  <2>6. {request[r].handle : r \in {q \in F : request[q].tracked}} \subseteq Handle
    BY <1>3 DEF Shapes
  <2>7. RestTyped'
    BY <2>4, <2>5, <2>6 DEF RestTyped
  <2> QED
    BY <2>1, <2>2, <2>7, SameKeeps
<1>9. ASSUME NEW t \in Thread, NEW r \in Known, RequestFree(t, r)
      PROVE  BaseInv'
  <2>1. Same /\ RestTyped'
    BY <1>9 DEF RequestFree, Same, RestTyped
  <2>2. Calls'
    BY <1>9, FreeEffect
  <2> QED
    BY <2>1, <2>2, SameKeeps
<1>10. ASSUME NEW t \in Thread, NEW r \in call[t].todo, Remember(t, r)
       PROVE  BaseInv'
  <2>1. /\ r \in Known /\ Returns(r) /\ (Remembers(r) \/ Same)
        /\ stale' = stale /\ failures' = failures /\ finalized' = finalized
    BY <1>1, <1>2, <1>10, RememberEffect
  <2>2. request[r].handle \in Handle
    BY <1>3, <2>1 DEF Shapes
  <2>3. TableInv'
    BY <2>1, <2>2, SameKeeps, NewPersistentKeeps, NewRecordKeeps DEF Remembers
  <2> QED
    BY <2>1, <2>3 DEF Returns, RestTyped
<1>11. ASSUME NEW t \in Thread, NEW r \in call[t].todo, StartPersistent(t, r)
       PROVE  BaseInv'
  <2>1. /\ r \in Known /\ Returns(r) /\ (Restarts(r) \/ Same)
        /\ stale' = stale /\ failures' = failures /\ finalized' = finalized
    BY <1>1, <1>2, <1>11, StartPersistentEffect
  <2>2. request[r].handle \in Handle
    BY <1>3, <2>1 DEF Shapes
  <2>3. TableInv'
    BY <2>1, <2>2, SameKeeps, NewStartKeeps DEF Restarts
  <2> QED
    BY <2>1, <2>3 DEF Returns, RestTyped
<1>12. ASSUME NEW t \in Thread, NEW r \in call[t].todo, CompleteRequest(t, r)
       PROVE  BaseInv'
  <2>1. /\ r \in Known /\ Returns(r) /\ (Drops(request[r].handle) \/ Same)
        /\ stale' = stale /\ failures' = failures /\ finalized' = finalized
    BY <1>12, CompleteRequestEffect
  <2>2. request[r].handle \in Handle
    BY <1>3, <2>1 DEF Shapes
  <2>3. TableInv'
    BY <2>1, <2>2, SameKeeps, DropKeeps
  <2> QED
    BY <2>1, <2>3 DEF Returns, RestTyped
<1>13. ASSUME NEW t \in Thread, NEW r \in call[t].todo, ForgetRequest(t, r)
       PROVE  BaseInv'
  <2>1. /\ r \in Known /\ Returns(r) /\ Clears(request[r].handle)
        /\ stale' = stale /\ failures' = failures /\ finalized' = finalized
    BY <1>13, ForgetEffect
  <2>2. request[r].handle \in Handle
    BY <1>3, <2>1 DEF Shapes
  <2>3. TableInv'
    BY <2>1, <2>2, ClearKeeps
  <2> QED
    BY <2>1, <2>3 DEF Returns, RestTyped
<1> HIDE DEF BaseInv
<1> QED
  BY <1>4, <1>5, <1>6, <1>7, <1>8, <1>9, <1>10, <1>11, <1>12, <1>13, Steps

LEMMA BaseInit == TableInit => BaseInv
<1> SUFFICES ASSUME TableInit PROVE BaseInv
  OBVIOUS
<1>1. request = <<>> /\ call = [t \in Thread |-> Idle] /\ RestTyped
  BY DEF TableInit, RestTyped
<1>2. Requests
  BY <1>1, TrackingAssumption DEF Requests
<1>3. \A t \in Thread : call[t].op = "idle" /\ call[t].todo = {}
  BY <1>1 DEF Idle
<1>4. CallShapes /\ OneCall
  BY <1>1, <1>3 DEF CallShapes, OneCall, Idle
<1> QED
  BY <1>1, <1>2, <1>4, TableInvInit DEF BaseInv, Calls

(* The state keeps its types, and neither map outgrows request_tracking_limit, whatever *)
(* the threads do.                                                                      *)
THEOREM TableTyped == TableSpec => []TableTypeOK
<1>1. TableSpec => []BaseInv
  BY BaseInit, BaseStep, PTL DEF TableSpec
<1>2. BaseInv => TableTypeOK
  BY TypeParts DEF BaseInv, Calls, Requests, TableInv, Sized, RestTyped
<1> QED
  BY <1>1, <1>2, PTL

-----------------------------------------------------------------------------
(* Requests and what their threads have still to do. *)
LEMMA NotBusy ==
  ASSUME NEW q, ~Busy(q)
  PROVE  \A o : ~Does(q, o)
  BY DEF Busy, Does

LEMMA DoesBusy ==
  ASSUME NEW q, NEW o, Does(q, o)
  PROVE  Busy(q)
  BY DEF Busy, Does

LEMMA OneOp ==
  ASSUME Calls, NEW q, NEW o, NEW p, Does(q, o), Does(q, p)
  PROVE  o = p
  BY DEF Calls, OneCall, Does

LEMMA AllOps == {"remember", "start", "complete", "forget"} \subseteq Ops
  BY DEF Ops

(* A request nobody works on, and the request an update was for, satisfy CallFits trivially. *)
LEMMA ReturnsFit ==
  ASSUME CallsFit, NEW r \in Known, Returns(r),
         request'[r].state = request[r].state, request'[r].persistent = request[r].persistent
  PROVE  CallsFit'
<1>1. /\ Known' = Known
      /\ \A q \in Known : q # r => request'[q] = request[q]
      /\ \A q : \A o \in Ops : Does(q, o)' <=> Does(q, o) /\ q # r
  BY DEF Returns
<1> SUFFICES ASSUME NEW q \in Known PROVE CallFits(q)'
  BY <1>1 DEF CallsFit
<1>2. CallFits(q)
  BY DEF CallsFit
<1>3. CASE q = r
  <2>1. ~Does(q, "remember")' /\ ~Does(q, "start")' /\ ~Does(q, "complete")' /\ ~Does(q, "forget")'
    BY <1>1, <1>3, AllOps
  <2> QED
    BY <1>2, <1>3, <2>1 DEF CallFits
<1>4. CASE q # r
  <2>1. /\ Does(q, "remember")' <=> Does(q, "remember")
        /\ Does(q, "start")' <=> Does(q, "start")
        /\ Does(q, "complete")' <=> Does(q, "complete")
        /\ Does(q, "forget")' <=> Does(q, "forget")
    BY <1>1, <1>4, AllOps
  <2> QED
    BY <1>1, <1>2, <1>4, <2>1 DEF CallFits
<1> QED
  BY <1>3, <1>4

LEMMA CallsFitStep == BaseInv /\ CallsFit /\ [TableNext]_table => CallsFit'
<1> SUFFICES ASSUME BaseInv, CallsFit, [TableNext]_table PROVE CallsFit'
  OBVIOUS
<1>1. PendingSize \in Nat /\ PersistentSize \in Nat /\ TableShapes /\ Calls
  BY SizesAre DEF BaseInv, TableInv
<1>2. Shapes
  BY <1>1, ShapesOf DEF Calls, Requests
<1>3. CASE UNCHANGED table
  BY <1>3 DEF table, CallsFit, CallFits, Does, Known
<1>4. CASE MPIFinalize
  BY <1>4 DEF MPIFinalize, CallsFit, CallFits, Does, Known
<1>5. ASSUME NEW t \in Thread, NEW h \in Handle, NEW isPersistent \in BOOLEAN,
             Create(t, h, isPersistent)
      PROVE  CallsFit'
  <2>1. PICK n : n = Len(request) + 1
    OBVIOUS
  <2>2. /\ n \notin Known /\ Known' = Known \cup {n} /\ ~Busy(n)
        /\ \A q \in Known : request'[q] = request[q]
        /\ request'[n] = [handle |-> h, persistent |-> isPersistent, id |-> 0, tracked |-> FALSE,
                          state |-> IF isPersistent THEN "inactive" ELSE "active"]
        /\ \A q : \A o \in Ops : Does(q, o)' <=> Does(q, o) \/ (q = n /\ o = "remember")
    BY <1>1, <1>5, <2>1, CreateEffect
  <2> SUFFICES ASSUME NEW q \in Known' PROVE CallFits(q)'
    BY DEF CallsFit
  <2>3. CASE q = n
    <3>1. Does(q, "remember")' /\ ~Does(q, "start")' /\ ~Does(q, "complete")' /\ ~Does(q, "forget")'
      BY <2>2, <2>3, AllOps, NotBusy
    <3> QED
      BY <2>2, <2>3, <3>1 DEF CallFits
  <2>4. CASE q \in Known
    <3>1. CallFits(q) /\ request'[q] = request[q]
      BY <2>2, <2>4 DEF CallsFit
    <3>2. /\ Does(q, "remember")' <=> Does(q, "remember")
          /\ Does(q, "start")' <=> Does(q, "start")
          /\ Does(q, "complete")' <=> Does(q, "complete")
          /\ Does(q, "forget")' <=> Does(q, "forget")
      BY <2>2, <2>4, AllOps
    <3> QED
      BY <3>1, <3>2 DEF CallFits
  <2> QED
    BY <2>2, <2>3, <2>4
<1>6. ASSUME NEW t \in Thread, NEW R \in (SUBSET Known) \ {{}}, Start(t, R)
      PROVE  CallsFit'
  <2>1. /\ Known' = Known
        /\ \A q \in R : request[q].state = "inactive" /\ ~Busy(q)
        /\ \A q \in Known \ R : request'[q] = request[q]
        /\ \A q \in R : request'[q] = [request[q] EXCEPT !.state = "active", !.tracked = FALSE]
        /\ \A q : \A o \in Ops : Does(q, o)' <=> Does(q, o) \/ (q \in R /\ o = "start")
    BY <1>1, <1>6, StartEffect
  <2> SUFFICES ASSUME NEW q \in Known PROVE CallFits(q)'
    BY <2>1 DEF CallsFit
  <2>2. CallFits(q) /\ request[q] \in RequestType
    BY <1>2 DEF CallsFit, Shapes
  <2>3. CASE q \in R
    <3>1. ~Does(q, "remember")' /\ ~Does(q, "complete")' /\ ~Does(q, "forget")'
      BY <2>1, <2>3, AllOps, NotBusy
    <3>2. /\ request'[q].state = "active" /\ ~request'[q].tracked
          /\ request'[q].persistent = request[q].persistent
      BY <2>1, <2>2, <2>3 DEF RequestType
    <3> QED
      BY <2>1, <2>2, <2>3, <3>1, <3>2 DEF CallFits
  <2>4. CASE q \notin R
    <3>1. request'[q] = request[q]
      BY <2>1, <2>4
    <3>2. /\ Does(q, "remember")' <=> Does(q, "remember")
          /\ Does(q, "start")' <=> Does(q, "start")
          /\ Does(q, "complete")' <=> Does(q, "complete")
          /\ Does(q, "forget")' <=> Does(q, "forget")
      BY <2>1, <2>4, AllOps
    <3> QED
      BY <2>2, <3>1, <3>2 DEF CallFits
  <2> QED
    BY <2>3, <2>4
<1>7. ASSUME NEW t \in Thread, NEW R \in (SUBSET Known) \ {{}}, NEW F \in SUBSET R,
             Completion(t, R, F)
      PROVE  CallsFit'
  <2>1. /\ Known' = Known
        /\ \A q \in R : Live(q) /\ ~Busy(q)
        /\ \A q \in Known \ R : request'[q] = request[q]
        /\ \A q \in R : request'[q] = Completed(q, F)
        /\ \A q : \A o \in Ops : Does(q, o)' <=> Does(q, o) \/ (q \in R \ F /\ o = "complete")
    <3>1. Ends(R, F)
      BY <1>1, <1>7, CompletionEffect
    <3> QED
      BY <3>1 DEF Ends
  <2> SUFFICES ASSUME NEW q \in Known PROVE CallFits(q)'
    BY <2>1 DEF CallsFit
  <2>2. CallFits(q) /\ request[q] \in RequestType
    BY <1>2 DEF CallsFit, Shapes
  <2>3. CASE q \in R
    <3>1. ~Does(q, "remember")' /\ ~Does(q, "start")' /\ ~Does(q, "forget")'
      BY <2>1, <2>3, AllOps, NotBusy
    <3>2. /\ request'[q].state = IF request[q].state = "active" /\ ~request[q].persistent
                                 THEN "gone" ELSE "inactive"
          /\ request'[q].persistent = request[q].persistent
      BY <2>1, <2>2, <2>3 DEF RequestType, Completed
    <3>3. request[q].state \in {"active", "inactive"}
      BY <2>1, <2>2, <2>3 DEF Live, RequestType
    <3> QED
      BY <2>2, <3>1, <3>2, <3>3 DEF CallFits
  <2>4. CASE q \notin R
    <3>1. request'[q] = request[q]
      BY <2>1, <2>4
    <3>2. /\ Does(q, "remember")' <=> Does(q, "remember")
          /\ Does(q, "start")' <=> Does(q, "start")
          /\ Does(q, "complete")' <=> Does(q, "complete")
          /\ Does(q, "forget")' <=> Does(q, "forget")
      BY <2>1, <2>4, AllOps
    <3> QED
      BY <2>2, <3>1, <3>2 DEF CallFits
  <2> QED
    BY <2>3, <2>4
<1>8. ASSUME NEW t \in Thread, NEW r \in Known, RequestFree(t, r)
      PROVE  CallsFit'
  <2>1. /\ Known' = Known /\ ~Busy(r)
        /\ \A q \in Known : q # r => request'[q] = request[q]
        /\ request'[r] = [request[r] EXCEPT !.state = "gone"]
        /\ \A q : \A o \in Ops : Does(q, o)' <=> Does(q, o) \/ (q = r /\ o = "forget")
    BY <1>1, <1>8, FreeEffect
  <2> SUFFICES ASSUME NEW q \in Known PROVE CallFits(q)'
    BY <2>1 DEF CallsFit
  <2>2. CallFits(q) /\ request[q] \in RequestType
    BY <1>2 DEF CallsFit, Shapes
  <2>3. CASE q = r
    <3>1. ~Does(q, "remember")' /\ ~Does(q, "start")' /\ ~Does(q, "complete")'
      BY <2>1, <2>3, AllOps, NotBusy
    <3>2. request'[q].state = "gone"
      BY <2>1, <2>2, <2>3 DEF RequestType
    <3> QED
      BY <3>1, <3>2 DEF CallFits
  <2>4. CASE q # r
    <3>1. request'[q] = request[q]
      BY <2>1, <2>4
    <3>2. /\ Does(q, "remember")' <=> Does(q, "remember")
          /\ Does(q, "start")' <=> Does(q, "start")
          /\ Does(q, "complete")' <=> Does(q, "complete")
          /\ Does(q, "forget")' <=> Does(q, "forget")
      BY <2>1, <2>4, AllOps
    <3> QED
      BY <2>2, <3>1, <3>2 DEF CallFits
  <2> QED
    BY <2>3, <2>4
<1>9. ASSUME NEW t \in Thread, NEW r \in call[t].todo, Remember(t, r)
      PROVE  CallsFit'
  <2>1. r \in Known /\ Returns(r) /\ (Remembers(r) \/ request'[r] = request[r])
    BY <1>1, <1>9, RememberEffect
  <2>2. request[r] \in RequestType
    BY <1>2, <2>1 DEF Shapes
  <2>3. request'[r].state = request[r].state /\ request'[r].persistent = request[r].persistent
    BY <2>1, <2>2 DEF Remembers, RequestType
  <2> QED
    BY <2>1, <2>3, ReturnsFit
<1>10. ASSUME NEW t \in Thread, NEW r \in call[t].todo, StartPersistent(t, r)
       PROVE  CallsFit'
  <2>1. r \in Known /\ Returns(r) /\ (Restarts(r) \/ request'[r] = request[r])
    BY <1>1, <1>10, StartPersistentEffect
  <2>2. request[r] \in RequestType
    BY <1>2, <2>1 DEF Shapes
  <2>3. request'[r].state = request[r].state /\ request'[r].persistent = request[r].persistent
    BY <2>1, <2>2 DEF Restarts, RequestType
  <2> QED
    BY <2>1, <2>3, ReturnsFit
<1>11. ASSUME NEW t \in Thread, NEW r \in call[t].todo, CompleteRequest(t, r)
       PROVE  CallsFit'
  <2>1. r \in Known /\ Returns(r) /\ request'[r] = request[r]
    BY <1>1, <1>11, CompleteRequestEffect
  <2> QED
    BY <2>1, ReturnsFit
<1>12. ASSUME NEW t \in Thread, NEW r \in call[t].todo, ForgetRequest(t, r)
       PROVE  CallsFit'
  <2>1. r \in Known /\ Returns(r) /\ request'[r] = request[r]
    BY <1>1, <1>12, ForgetEffect
  <2> QED
    BY <2>1, ReturnsFit
<1> QED
  BY <1>3, <1>4, <1>5, <1>6, <1>7, <1>8, <1>9, <1>10, <1>11, <1>12, Steps

(* After MPI_Finalize nothing happens to the table. *)
LEMMA EmptiedStep == BaseInv /\ Emptied /\ [TableNext]_table => Emptied'
<1> SUFFICES ASSUME BaseInv, Emptied, [TableNext]_table PROVE Emptied'
  OBVIOUS
<1>1. CASE UNCHANGED table
  BY <1>1 DEF table, Emptied
<1>2. CASE MPIFinalize
  <2>1. /\ \A t \in Thread : call[t] = Idle
        /\ pending' = [h \in Handle |-> <<>>] /\ persistent' = [h \in Handle |-> 0]
        /\ call' = call
    BY <1>2 DEF MPIFinalize
  <2> QED
    BY <2>1 DEF Emptied
<1>3. CASE \E t \in Thread : CallMPI(t)
  BY <1>3 DEF CallMPI, Create, Start, Completion, RequestFree, Emptied
<1>4. CASE \E t \in Thread : UpdateTable(t)
  <2>1. PICK t \in Thread : UpdateTable(t)
    BY <1>4
  <2>2. finalized' = finalized /\ call[t].todo # {}
    BY <2>1 DEF UpdateTable, Remember, StartPersistent, CompleteRequest, ForgetRequest
  <2>3. ~finalized
    BY <2>2 DEF Emptied, Idle
  <2> QED
    BY <2>2, <2>3 DEF Emptied
<1> QED
  BY <1>1, <1>2, <1>3, <1>4 DEF TableNext

-----------------------------------------------------------------------------
(* The handles the table is right about. *)

(* A step that does not touch the records of a handle, nor what they should be. *)
LEMMA RightSame ==
  ASSUME NEW g, Right(g), pending'[g] = pending[g], persistent'[g] = persistent[g],
         \A q \in Known' : Uses(q, g)' => q \in Known /\ Uses(q, g),
         \A q \in Known : Uses(q, g) =>
             \/ q \in Known' /\ Uses(q, g)'
             \/ pending[g] = <<>> /\ persistent[g] = 0,
         \A q \in Known : Uses(q, g) /\ Uses(q, g)' /\ ~Does(q, "forget")' =>
             /\ ~Does(q, "forget") /\ (HasRecord(q)' <=> HasRecord(q))
             /\ request'[q].id = request[q].id
             /\ request'[q].persistent = request[q].persistent
  PROVE  Right(g)'
<1>1. \A r, q \in Known' : Uses(r, g)' /\ Uses(q, g)' => r = q
  BY DEF Right
<1>2. (\A r \in Known' : ~Uses(r, g)') => pending'[g] = <<>> /\ persistent'[g] = 0
  BY DEF Right
<1>3. ASSUME NEW r \in Known', Uses(r, g)', ~Does(r, "forget")'
      PROVE  /\ pending'[g] = IF HasRecord(r)' THEN OwnRecord(r)' ELSE <<>>
             /\ persistent'[g] = IF request'[r].persistent THEN request'[r].id ELSE 0
  <2>1. r \in Known /\ Uses(r, g)
    BY <1>3
  <2>2. /\ ~Does(r, "forget") /\ (HasRecord(r)' <=> HasRecord(r))
        /\ request'[r].id = request[r].id /\ request'[r].persistent = request[r].persistent
    BY <1>3, <2>1
  <2>3. /\ pending[g] = IF HasRecord(r) THEN OwnRecord(r) ELSE <<>>
        /\ persistent[g] = IF request[r].persistent THEN request[r].id ELSE 0
    BY <2>1, <2>2 DEF Right
  <2>4. OwnRecord(r)' = OwnRecord(r)
    BY <2>2 DEF OwnRecord
  <2> QED
    BY <2>2, <2>3, <2>4
<1>4. \A i \in DOMAIN pending'[g] : pending'[g][i].persistent => pending'[g][i].id = persistent'[g]
  BY DEF Right
<1> QED
  BY <1>1, <1>2, <1>3, <1>4 DEF Right

(* An update on behalf of r of the records of its handle. *)
LEMMA RightAfter ==
  ASSUME NEW h, NEW r \in Known, Right(h), Uses(r, h), Returns(r), request'[r].handle = h,
         request'[r].state = "gone" => pending'[h] = <<>> /\ persistent'[h] = 0,
         request'[r].state # "gone" =>
             /\ pending'[h] = IF request'[r].tracked /\ request'[r].state = "active"
                              THEN OwnRecord(r)' ELSE <<>>
             /\ persistent'[h] = IF request'[r].persistent THEN request'[r].id ELSE 0
  PROVE  Right(h)'
<1>1. /\ Known' = Known
      /\ \A q \in Known : q # r => request'[q] = request[q]
      /\ \A q : Busy(q)' <=> Busy(q) /\ q # r
      /\ ~Does(r, "complete")'
  BY AllOps DEF Returns
<1>2. \A q \in Known : q # r => ~Uses(q, h)'
  BY <1>1 DEF Right, Uses, Live
<1>3. Uses(r, h)' <=> request'[r].state # "gone"
  BY <1>1 DEF Uses, Live
<1>4. HasRecord(r)' <=> request'[r].tracked /\ request'[r].state = "active"
  BY <1>1 DEF HasRecord
<1>5. \A p, q \in Known' : Uses(p, h)' /\ Uses(q, h)' => p = q
  BY <1>1, <1>2
<1>6. (\A q \in Known' : ~Uses(q, h)') => pending'[h] = <<>> /\ persistent'[h] = 0
  BY <1>1, <1>3
<1>7. ASSUME NEW q \in Known', Uses(q, h)', ~Does(q, "forget")'
      PROVE  /\ pending'[h] = IF HasRecord(q)' THEN OwnRecord(q)' ELSE <<>>
             /\ persistent'[h] = IF request'[q].persistent THEN request'[q].id ELSE 0
  <2>1. q = r
    BY <1>1, <1>2, <1>7
  <2>2. request'[r].state # "gone"
    BY <1>3, <1>7, <2>1
  <2>3. /\ pending'[h] = IF request'[r].tracked /\ request'[r].state = "active"
                         THEN OwnRecord(r)' ELSE <<>>
        /\ persistent'[h] = IF request'[r].persistent THEN request'[r].id ELSE 0
    BY <2>2
  <2> QED
    BY <1>4, <2>1, <2>3
<1>8. \A i \in DOMAIN pending'[h] : pending'[h][i].persistent => pending'[h][i].id = persistent'[h]
  <2>1. CASE pending'[h] = <<>>
    BY <2>1
  <2>2. CASE pending'[h] # <<>>
    <3>1. /\ pending'[h] = <<[id |-> request'[r].id, persistent |-> request'[r].persistent]>>
          /\ persistent'[h] = IF request'[r].persistent THEN request'[r].id ELSE 0
      BY <2>2 DEF OwnRecord
    <3>2. /\ DOMAIN pending'[h] = {1}
          /\ pending'[h][1] = [id |-> request'[r].id, persistent |-> request'[r].persistent]
      BY <3>1
    <3> QED
      BY <3>1, <3>2
  <2> QED
    BY <2>1, <2>2
<1> QED
  BY <1>5, <1>6, <1>7, <1>8 DEF Right

(* The same update seen from another handle. *)
LEMMA RightElsewhere ==
  ASSUME NEW g, NEW r \in Known, Right(g), Returns(r), request[r].handle # g,
         request'[r].handle = request[r].handle,
         pending'[g] = pending[g], persistent'[g] = persistent[g]
  PROVE  Right(g)'
<1>1. /\ Known' = Known
      /\ \A q \in Known : q # r => request'[q] = request[q]
      /\ \A q : \A o \in Ops : Does(q, o)' <=> Does(q, o) /\ q # r
      /\ \A q : Busy(q)' <=> Busy(q) /\ q # r
  BY DEF Returns
<1>2. ~Uses(r, g) /\ ~Uses(r, g)'
  BY DEF Uses
<1>3. \A q \in Known : q # r => (Uses(q, g)' <=> Uses(q, g))
  BY <1>1 DEF Uses, Live
<1>4. \A q \in Known : q # r => /\ Does(q, "forget")' <=> Does(q, "forget")
                                /\ Does(q, "complete")' <=> Does(q, "complete")
  BY <1>1, AllOps
<1>5. \A q \in Known : q # r => (HasRecord(q)' <=> HasRecord(q))
  BY <1>1, <1>4 DEF HasRecord
<1> QED
  BY <1>1, <1>2, <1>3, <1>4, <1>5, RightSame

LEMMA RightCreate ==
  ASSUME BaseInv, NEW t \in Thread, NEW h \in Handle, NEW isPersistent \in BOOLEAN,
         Create(t, h, isPersistent), NEW g \in Handle \ stale', g \notin stale => Right(g)
  PROVE  Right(g)'
<1>1. Calls
  BY DEF BaseInv
<1>2. PICK n : n = Len(request) + 1
  OBVIOUS
<1>3. /\ n \notin Known /\ Known' = Known \cup {n} /\ ~Busy(n)
      /\ \A q \in Known : request'[q] = request[q]
      /\ request'[n] = [handle |-> h, persistent |-> isPersistent, id |-> 0, tracked |-> FALSE,
                        state |-> IF isPersistent THEN "inactive" ELSE "active"]
      /\ \A q : \A o \in Ops : Does(q, o)' <=> Does(q, o) \/ (q = n /\ o = "remember")
      /\ \A q : Busy(q)' <=> Busy(q) \/ q = n
  BY <1>1, <1>2, CreateEffect
<1>4. /\ stale' = IF InUse(h) \/ Recorded(h) THEN stale \cup {h} ELSE stale \ {h}
      /\ pending' = pending /\ persistent' = persistent
  BY DEF Create
<1>5. \A q \in Known : q # n /\ (Uses(q, g)' <=> Uses(q, g))
  BY <1>3 DEF Uses, Live
<1>6. CASE g = h
  <2>1. ~InUse(h) /\ pending[h] = <<>> /\ persistent[h] = 0
    BY <1>4, <1>6 DEF Recorded
  <2>2. \A q \in Known : ~Uses(q, h)'
    BY <1>5, <1>6, <2>1 DEF InUse, Uses
  <2>3. Uses(n, h)' /\ ~HasRecord(n)' /\ request'[n].id = 0
    BY <1>3 DEF Uses, HasRecord
  <2> QED
    BY <1>3, <1>4, <1>6, <2>1, <2>2, <2>3 DEF Right
<1>7. CASE g # h
  <2>1. Right(g)
    BY <1>4, <1>7
  <2>2. ~Uses(n, g)'
    BY <1>3, <1>7 DEF Uses
  <2>3. \A q \in Known : /\ Does(q, "forget")' <=> Does(q, "forget")
                         /\ Does(q, "complete")' <=> Does(q, "complete")
    BY <1>3, AllOps
  <2>4. \A q \in Known : HasRecord(q)' <=> HasRecord(q)
    BY <1>3, <2>3 DEF HasRecord
  <2> QED
    BY <1>3, <1>4, <1>5, <2>1, <2>2, <2>3, <2>4, RightSame
<1> QED
  BY <1>6, <1>7

LEMMA RightStart ==
  ASSUME BaseInv, NEW t \in Thread, NEW R \in (SUBSET Known) \ {{}}, Start(t, R),
         NEW g, Right(g)
  PROVE  Right(g)'
<1>1. Calls /\ Shapes
  BY ShapesOf DEF BaseInv, Calls, Requests
<1>2. /\ Known' = Known
      /\ \A q \in R : request[q].state = "inactive" /\ ~Busy(q)
      /\ \A q \in Known \ R : request'[q] = request[q]
      /\ \A q \in R : request'[q] = [request[q] EXCEPT !.state = "active", !.tracked = FALSE]
      /\ \A q : \A o \in Ops : Does(q, o)' <=> Does(q, o) \/ (q \in R /\ o = "start")
      /\ \A q : Busy(q)' <=> Busy(q) \/ q \in R
  BY <1>1, StartEffect
<1>3. pending' = pending /\ persistent' = persistent
  BY DEF Start
<1>4. \A q \in R : /\ request'[q].state = "active" /\ ~request'[q].tracked
                   /\ request'[q].handle = request[q].handle
                   /\ request'[q].persistent = request[q].persistent
                   /\ request'[q].id = request[q].id
  <2> TAKE q \in R
  <2>1. /\ request[q] \in RequestType
        /\ request'[q] = [request[q] EXCEPT !.state = "active", !.tracked = FALSE]
    BY <1>1, <1>2 DEF Shapes
  <2> QED
    BY <2>1 DEF RequestType
<1>5. \A q \in Known : Uses(q, g)' <=> Uses(q, g)
  BY <1>2, <1>4 DEF Uses, Live
<1>6. \A q \in Known : /\ Does(q, "forget")' <=> Does(q, "forget")
                       /\ Does(q, "complete")' <=> Does(q, "complete")
  BY <1>2, AllOps
<1>7. \A q \in R : ~Does(q, "complete")
  BY <1>2, NotBusy
<1>8. \A q \in Known : HasRecord(q)' <=> HasRecord(q)
  BY <1>2, <1>4, <1>6, <1>7 DEF HasRecord
<1>9. \A q \in Known : /\ request'[q].persistent = request[q].persistent
                       /\ request'[q].id = request[q].id
  BY <1>2, <1>4
<1> QED
  BY <1>2, <1>3, <1>5, <1>6, <1>8, <1>9, RightSame

LEMMA RightCompletion ==
  ASSUME BaseInv, NEW t \in Thread, NEW R \in (SUBSET Known) \ {{}}, NEW F \in SUBSET R,
         Completion(t, R, F), NEW g, g \notin stale', Right(g)
  PROVE  Right(g)'
<1>1. Calls /\ Shapes
  BY ShapesOf DEF BaseInv, Calls, Requests
<1>2. Ends(R, F)
  BY <1>1, CompletionEffect
<1>3. /\ pending' = pending /\ persistent' = persistent
      /\ \A q \in F : request[q].tracked => request[q].handle \in stale'
  BY DEF Completion
<1>4. \A q \in R :
          /\ request'[q].state = IF request[q].state = "active" /\ ~request[q].persistent
                                 THEN "gone" ELSE "inactive"
          /\ request'[q].tracked <=>
                 request[q].tracked /\ request[q].state = "active" /\ q \notin F
          /\ request'[q].handle = request[q].handle
          /\ request'[q].persistent = request[q].persistent
          /\ request'[q].id = request[q].id
  <2> TAKE q \in R
  <2>1. request[q] \in RequestType /\ request'[q] = Completed(q, F)
    BY <1>1, <1>2 DEF Shapes, Ends
  <2> QED
    BY <2>1 DEF Completed, RequestType
<1>5. \A q \in Known : /\ request'[q].persistent = request[q].persistent
                       /\ request'[q].id = request[q].id
                       /\ request'[q].handle = request[q].handle
  BY <1>2, <1>4 DEF Ends
<1>6. \A q \in Known : /\ Does(q, "forget")' <=> Does(q, "forget")
                       /\ Does(q, "complete")' <=> Does(q, "complete") \/ q \in R \ F
  BY <1>2, AllOps DEF Ends
<1>7. \A q \in R : ~Does(q, "complete") /\ ~Does(q, "forget") /\ Live(q)
  BY <1>2, NotBusy DEF Ends
<1>8. \A q \in Known : Uses(q, g)' => Uses(q, g)
  <2>1. \A q \in R : Uses(q, g)' => Uses(q, g)
    BY <1>4, <1>7 DEF Uses
  <2>2. \A q \in Known \ R : Uses(q, g)' => Uses(q, g)
    BY <1>2 DEF Ends, Uses, Live
  <2> QED
    BY <2>1, <2>2
<1>9. \A q \in Known : Uses(q, g) => Uses(q, g)' \/ (pending[g] = <<>> /\ persistent[g] = 0)
  <2> SUFFICES ASSUME NEW q \in Known, Uses(q, g), ~Uses(q, g)'
               PROVE  pending[g] = <<>> /\ persistent[g] = 0
    OBVIOUS
  <2>1. q \in F
    BY <1>2, <1>5 DEF Ends, Uses, Live
  <2>2. ~request[q].tracked
    BY <1>3, <2>1 DEF Uses
  <2>3. ~request[q].persistent
    BY <1>4, <2>1 DEF Uses, Live
  <2>4. ~HasRecord(q) /\ ~Does(q, "forget")
    BY <1>7, <2>1, <2>2 DEF HasRecord
  <2> QED
    BY <2>3, <2>4 DEF Right
<1>10. \A q \in Known : Uses(q, g) => (HasRecord(q)' <=> HasRecord(q))
  <2> SUFFICES ASSUME NEW q \in Known, Uses(q, g) PROVE HasRecord(q)' <=> HasRecord(q)
    OBVIOUS
  <2>1. CASE q \notin R
    BY <1>2, <1>6, <2>1 DEF Ends, HasRecord
  <2>2. CASE q \in R \ F
    BY <1>4, <1>6, <1>7, <2>2 DEF HasRecord
  <2>3. CASE q \in F
    <3>1. ~request[q].tracked
      BY <1>3, <2>3 DEF Uses
    <3> QED
      BY <1>4, <2>3, <3>1 DEF HasRecord
  <2> QED
    BY <2>1, <2>2, <2>3
<1>11. Known' = Known
  BY <1>2 DEF Ends
<1> QED
  BY <1>3, <1>5, <1>6, <1>8, <1>9, <1>10, <1>11, RightSame

LEMMA RightFree ==
  ASSUME BaseInv, NEW t \in Thread, NEW r \in Known, RequestFree(t, r), NEW g, Right(g)
  PROVE  Right(g)'
<1>1. Calls /\ Shapes
  BY ShapesOf DEF BaseInv, Calls, Requests
<1>2. /\ Known' = Known /\ Live(r) /\ ~Busy(r)
      /\ \A q \in Known : q # r => request'[q] = request[q]
      /\ request'[r] = [request[r] EXCEPT !.state = "gone"]
      /\ \A q : \A o \in Ops : Does(q, o)' <=> Does(q, o) \/ (q = r /\ o = "forget")
      /\ \A q : Busy(q)' <=> Busy(q) \/ q = r
  BY <1>1, FreeEffect
<1>3. pending' = pending /\ persistent' = persistent
  BY DEF RequestFree
<1>4. request'[r].handle = request[r].handle /\ Does(r, "forget")'
  BY <1>1, <1>2, AllOps DEF Shapes, RequestType
<1>5. \A q \in Known : Uses(q, g)' <=> Uses(q, g)
  BY <1>2, <1>4 DEF Uses, Live
<1>6. \A q \in Known : q # r => /\ Does(q, "forget")' <=> Does(q, "forget")
                                /\ Does(q, "complete")' <=> Does(q, "complete")
  BY <1>2, AllOps
<1>7. \A q \in Known : q # r => (HasRecord(q)' <=> HasRecord(q))
  BY <1>2, <1>6 DEF HasRecord
<1> QED
  BY <1>2, <1>3, <1>4, <1>5, <1>6, <1>7, RightSame

LEMMA RightRemember ==
  ASSUME BaseInv, CallsFit, NEW t \in Thread, NEW r \in call[t].todo, Remember(t, r),
         NEW g \in Handle, Right(g)
  PROVE  Right(g)'
<1>1. Calls /\ Shapes /\ TableShapes /\ PendingSize \in Nat /\ PersistentSize \in Nat
  BY ShapesOf, SizesAre DEF BaseInv, Calls, Requests, TableInv
<1>2. /\ r \in Known /\ Does(r, "remember") /\ Returns(r)
      /\ Remembers(r) \/ (request'[r] = request[r] /\ Same)
  BY <1>1, RememberEffect
<1>3. nextId' = nextId \/ nextId' = nextId + 1
  BY <1>2 DEF Remembers, NewPersistent, NewRecord, Same
<1>4. request[r] \in RequestType /\ request[r].persistent \in BOOLEAN /\ nextId' \in Nat
  BY <1>1, <1>2, <1>3 DEF Shapes, TableShapes
<1>5. PICK h \in Handle : h = request[r].handle
  BY <1>1, <1>2 DEF Shapes
<1>6. request'[r].handle = h /\ request'[r].state = request[r].state
  BY <1>2, <1>4, <1>5 DEF Remembers, RequestType
<1>7. /\ ~request[r].tracked /\ request[r].id = 0
      /\ request[r].state = IF request[r].persistent THEN "inactive" ELSE "active"
  BY <1>2 DEF CallsFit, CallFits
<1>8. CASE g # h
  <2>1. pending'[g] = pending[g] /\ persistent'[g] = persistent[g]
    <3>1. CASE Same
      BY <3>1 DEF Same
    <3>2. CASE NewPersistent(h)
      BY <1>1, <1>8, <3>2 DEF NewPersistent, TableShapes
    <3>3. CASE NewRecord(h)
      BY <1>1, <1>8, <3>3 DEF NewRecord, Appended, TableShapes
    <3> QED
      BY <1>2, <1>5, <3>1, <3>2, <3>3 DEF Remembers
  <2> QED
    BY <1>2, <1>5, <1>6, <1>8, <2>1, RightElsewhere
<1>9. CASE g = h
  <2>1. Uses(r, h) /\ ~Does(r, "forget") /\ ~HasRecord(r)
    BY <1>1, <1>2, <1>5, <1>7, OneOp, DoesBusy DEF Uses, HasRecord
  <2>2. pending[h] = <<>> /\ persistent[h] = 0
    BY <1>2, <1>7, <1>9, <2>1 DEF Right
  <2>3. CASE request'[r] = request[r] /\ Same
    BY <1>2, <1>6, <1>7, <1>9, <2>1, <2>2, <2>3, RightAfter DEF Same
  <2>4. CASE Remembers(r) /\ request[r].persistent
    <3>1. NewPersistent(h) /\ request'[r] = [request[r] EXCEPT !.id = nextId', !.tracked = FALSE]
      BY <1>5, <2>4 DEF Remembers
    <3>2. ~request'[r].tracked /\ request'[r].id = nextId' /\ request'[r].persistent
      BY <1>4, <2>4, <3>1 DEF RequestType
    <3>3. pending'[h] = <<>> /\ persistent'[h] = nextId'
      BY <1>1, <2>2, <3>1 DEF NewPersistent, TableShapes
    <3> QED
      BY <1>2, <1>6, <1>7, <1>9, <2>1, <2>4, <3>2, <3>3, RightAfter
  <2>5. CASE Remembers(r) /\ ~request[r].persistent
    <3>1. NewRecord(h) /\ request'[r] = [request[r] EXCEPT !.id = nextId', !.tracked = TRUE]
      BY <1>5, <2>5 DEF Remembers
    <3>2. /\ request'[r].tracked /\ request'[r].id = nextId' /\ request'[r].persistent = FALSE
          /\ request'[r].state = "active"
      BY <1>4, <1>7, <2>5, <3>1 DEF RequestType
    <3>3. pending'[h] = <<[id |-> nextId', persistent |-> FALSE]>> /\ persistent'[h] = 0
      <4>1. Grown(h, Len(pending[h]) + 1, nextId', FALSE)
        BY <1>1, <1>4, <3>1, AppendEffect DEF NewRecord
      <4> QED
        BY <2>2, <3>1, <4>1 DEF Grown, NewRecord
    <3>4. pending'[h] = OwnRecord(r)'
      BY <3>2, <3>3 DEF OwnRecord
    <3> QED
      BY <1>2, <1>6, <1>9, <2>1, <3>2, <3>3, <3>4, RightAfter
  <2> QED
    BY <1>2, <2>3, <2>4, <2>5
<1> QED
  BY <1>8, <1>9

LEMMA RightStartPersistent ==
  ASSUME BaseInv, CallsFit, NEW t \in Thread, NEW r \in call[t].todo, StartPersistent(t, r),
         NEW g \in Handle, Right(g)
  PROVE  Right(g)'
<1>1. Calls /\ Shapes /\ TableShapes /\ PendingSize \in Nat /\ PersistentSize \in Nat
  BY ShapesOf, SizesAre DEF BaseInv, Calls, Requests, TableInv
<1>2. /\ r \in Known /\ Does(r, "start") /\ Returns(r)
      /\ Restarts(r) \/ (request'[r] = request[r] /\ Same)
  BY <1>1, StartPersistentEffect
<1>3. request[r] \in RequestType /\ request[r].persistent \in BOOLEAN
  BY <1>1, <1>2 DEF Shapes
<1>4. PICK h \in Handle : h = request[r].handle
  BY <1>1, <1>2 DEF Shapes
<1>5. request'[r].handle = h /\ request'[r].state = request[r].state
  BY <1>2, <1>3, <1>4 DEF Restarts, RequestType
<1>6. ~request[r].tracked /\ request[r].persistent /\ request[r].state = "active"
  BY <1>2 DEF CallsFit, CallFits
<1>7. CASE g # h
  <2>1. pending'[g] = pending[g] /\ persistent'[g] = persistent[g]
    BY <1>1, <1>2, <1>4, <1>7 DEF Restarts, NewStart, Same, Appended, TableShapes
  <2> QED
    BY <1>2, <1>4, <1>5, <1>7, <2>1, RightElsewhere
<1>8. CASE g = h
  <2>1. Uses(r, h) /\ ~Does(r, "forget") /\ ~HasRecord(r)
    BY <1>1, <1>2, <1>4, <1>6, OneOp, DoesBusy DEF Uses, HasRecord
  <2>2. pending[h] = <<>> /\ persistent[h] = request[r].id
    BY <1>2, <1>6, <1>8, <2>1 DEF Right
  <2>3. CASE request'[r] = request[r] /\ Same
    BY <1>2, <1>5, <1>6, <1>8, <2>1, <2>2, <2>3, RightAfter DEF Same
  <2>4. CASE Restarts(r)
    <3>1. NewStart(h) /\ request'[r] = [request[r] EXCEPT !.tracked = TRUE]
      BY <1>4, <2>4 DEF Restarts
    <3>2. /\ request'[r].tracked /\ request'[r].id = request[r].id
          /\ request'[r].persistent = request[r].persistent /\ request'[r].state = "active"
      BY <1>3, <1>6, <3>1 DEF RequestType
    <3>3. pending'[h] = <<[id |-> persistent[h], persistent |-> TRUE]>> /\ persistent'[h] = persistent[h]
      <4>1. persistent[h] \in Nat
        BY <1>1, RecordShapes
      <4>2. Grown(h, Len(pending[h]) + 1, persistent[h], TRUE)
        BY <1>1, <3>1, <4>1, AppendEffect DEF NewStart
      <4> QED
        BY <2>2, <3>1, <4>2 DEF Grown, NewStart
    <3>4. request'[r].persistent = TRUE
      BY <1>3, <1>6, <3>2
    <3>5. pending'[h] = OwnRecord(r)'
      BY <2>2, <3>2, <3>3, <3>4 DEF OwnRecord
    <3> QED
      BY <1>2, <1>5, <1>8, <2>1, <2>2, <3>2, <3>3, <3>4, <3>5, RightAfter
  <2> QED
    BY <1>2, <2>3, <2>4
<1> QED
  BY <1>7, <1>8

(* What a completion finds under a handle the table is right about. *)
LEMMA FindsOwn ==
  ASSUME Calls, NEW r \in Known, Does(r, "complete"), Right(request[r].handle)
  PROVE  /\ pending[request[r].handle] = IF request[r].tracked THEN OwnRecord(r) ELSE <<>>
         /\ persistent[request[r].handle] = IF request[r].persistent THEN request[r].id ELSE 0
<1>1. Uses(r, request[r].handle) /\ ~Does(r, "forget")
  BY OneOp, DoesBusy DEF Uses
<1>2. HasRecord(r) <=> request[r].tracked
  BY DEF HasRecord
<1> QED
  BY <1>1, <1>2 DEF Right

LEMMA RightCompleteRequest ==
  ASSUME BaseInv, CallsFit, NEW t \in Thread, NEW r \in call[t].todo, CompleteRequest(t, r),
         NEW g \in Handle, Right(g)
  PROVE  Right(g)'
<1>1. Calls /\ Shapes /\ TableShapes
  BY ShapesOf DEF BaseInv, Calls, Requests, TableInv
<1>2. /\ r \in Known /\ Does(r, "complete") /\ Returns(r) /\ request'[r] = request[r]
      /\ Drops(request[r].handle) \/ (pending[request[r].handle] = <<>> /\ Same)
  BY <1>1, CompleteRequestEffect
<1>3. PICK h \in Handle : h = request[r].handle
  BY <1>1, <1>2 DEF Shapes
<1>4. CASE g # h
  <2>1. pending'[g] = pending[g] /\ persistent'[g] = persistent[g]
    BY <1>1, <1>2, <1>3, <1>4 DEF Drops, Same, TableShapes
  <2> QED
    BY <1>2, <1>3, <1>4, <2>1, RightElsewhere
<1>5. CASE g = h
  <2>1. /\ pending[h] = IF request[r].tracked THEN OwnRecord(r) ELSE <<>>
        /\ persistent[h] = IF request[r].persistent THEN request[r].id ELSE 0
    BY <1>1, <1>2, <1>3, <1>5, FindsOwn
  <2>2. pending'[h] = <<>> /\ persistent'[h] = persistent[h]
    <3>1. CASE Same /\ pending[h] = <<>>
      BY <3>1 DEF Same
    <3>2. CASE Drops(h)
      <4>1. pending[h] = OwnRecord(r)
        BY <2>1, <3>2 DEF Drops
      <4>2. Tail(OwnRecord(r)) = <<>>
        BY DEF OwnRecord
      <4>3. pending' = [pending EXCEPT ![h] = Tail(pending[h])] /\ persistent' = persistent
        BY <3>2 DEF Drops
      <4> QED
        BY <1>1, <4>1, <4>2, <4>3 DEF TableShapes
    <3> QED
      BY <1>2, <1>3, <3>1, <3>2
  <2>3. request[r].state # "active" /\ (request[r].state = "gone" => ~request[r].persistent)
    BY <1>2 DEF CallsFit, CallFits
  <2>4. Uses(r, h)
    BY <1>2, <1>3, DoesBusy DEF Uses
  <2> QED
    BY <1>2, <1>3, <1>5, <2>1, <2>2, <2>3, <2>4, RightAfter
<1> QED
  BY <1>4, <1>5

LEMMA RightForget ==
  ASSUME BaseInv, CallsFit, NEW t \in Thread, NEW r \in call[t].todo, ForgetRequest(t, r),
         NEW g \in Handle, Right(g)
  PROVE  Right(g)'
<1>1. Calls /\ Shapes /\ TableShapes
  BY ShapesOf DEF BaseInv, Calls, Requests, TableInv
<1>2. /\ r \in Known /\ Does(r, "forget") /\ Returns(r) /\ request'[r] = request[r]
      /\ Clears(request[r].handle)
  BY <1>1, ForgetEffect
<1>3. PICK h \in Handle : h = request[r].handle
  BY <1>1, <1>2 DEF Shapes
<1>4. /\ \A f \in Handle : f # h => pending'[f] = pending[f] /\ persistent'[f] = persistent[f]
      /\ pending'[h] = <<>> /\ persistent'[h] = 0
  BY <1>1, <1>2, <1>3, ClearEffect DEF Clears
<1>5. CASE g # h
  BY <1>2, <1>3, <1>4, <1>5, RightElsewhere
<1>6. CASE g = h
  <2>1. request[r].state = "gone"
    BY <1>2 DEF CallsFit, CallFits
  <2>2. Uses(r, h)
    BY <1>2, <1>3, DoesBusy DEF Uses
  <2> QED
    BY <1>2, <1>3, <1>4, <1>6, <2>1, <2>2, RightAfter
<1> QED
  BY <1>5, <1>6

LEMMA TableRightStep == BaseInv /\ CallsFit /\ TableRight /\ [TableNext]_table => TableRight'
<1> SUFFICES ASSUME BaseInv, CallsFit, TableRight, [TableNext]_table, ~finalized',
                    NEW g \in Handle \ stale'
             PROVE  Right(g)'
  BY DEF TableRight
<1>1. CASE UNCHANGED table
  <2>1. Right(g)
    BY <1>1 DEF table, TableRight
  <2>2. /\ request' = request /\ call' = call /\ pending' = pending /\ persistent' = persistent
    BY <1>1 DEF table
  <2> QED
    BY <2>1, <2>2 DEF Right, Uses, HasRecord, OwnRecord, Does, Busy, Live, Known
<1>2. CASE MPIFinalize
  BY <1>2 DEF MPIFinalize
<1>3. ASSUME NEW t \in Thread, NEW h \in Handle, NEW isPersistent \in BOOLEAN,
             Create(t, h, isPersistent)
      PROVE  Right(g)'
  <2>1. g \notin stale => Right(g)
    BY <1>3 DEF Create, TableRight
  <2> QED
    BY <1>3, <2>1, RightCreate
<1>4. ASSUME NEW t \in Thread, NEW R \in (SUBSET Known) \ {{}}, Start(t, R)
      PROVE  Right(g)'
  <2>1. Right(g)
    BY <1>4 DEF Start, TableRight
  <2> QED
    BY <1>4, <2>1, RightStart
<1>5. ASSUME NEW t \in Thread, NEW R \in (SUBSET Known) \ {{}}, NEW F \in SUBSET R,
             Completion(t, R, F)
      PROVE  Right(g)'
  <2>1. Right(g)
    BY <1>5 DEF Completion, TableRight
  <2> QED
    BY <1>5, <2>1, RightCompletion
<1>6. ASSUME NEW t \in Thread, NEW r \in Known, RequestFree(t, r)
      PROVE  Right(g)'
  <2>1. Right(g)
    BY <1>6 DEF RequestFree, TableRight
  <2> QED
    BY <1>6, <2>1, RightFree
<1>7. ASSUME NEW t \in Thread, NEW r \in call[t].todo, Remember(t, r)
      PROVE  Right(g)'
  <2>1. Right(g)
    BY <1>7 DEF Remember, TableRight
  <2> QED
    BY <1>7, <2>1, RightRemember
<1>8. ASSUME NEW t \in Thread, NEW r \in call[t].todo, StartPersistent(t, r)
      PROVE  Right(g)'
  <2>1. Right(g)
    BY <1>8 DEF StartPersistent, TableRight
  <2> QED
    BY <1>8, <2>1, RightStartPersistent
<1>9. ASSUME NEW t \in Thread, NEW r \in call[t].todo, CompleteRequest(t, r)
      PROVE  Right(g)'
  <2>1. Right(g)
    BY <1>9 DEF CompleteRequest, TableRight
  <2> QED
    BY <1>9, <2>1, RightCompleteRequest
<1>10. ASSUME NEW t \in Thread, NEW r \in call[t].todo, ForgetRequest(t, r)
       PROVE  Right(g)'
  <2>1. Right(g)
    BY <1>10 DEF ForgetRequest, TableRight
  <2> QED
    BY <1>10, <2>1, RightForget
<1> QED
  BY <1>1, <1>2, <1>3, <1>4, <1>5, <1>6, <1>7, <1>8, <1>9, <1>10, Steps

-----------------------------------------------------------------------------
(* Counting the requests that account for the records of a handle. *)
LEMMA FiniteKnown ==
  ASSUME NEW n \in Nat, NEW S, S \subseteq 1 .. n
  PROVE  IsFiniteSet(S) /\ Cardinality(S) \in Nat
<1>1. IsFiniteSet(1 .. n)
  BY FS_Interval
<1>2. IsFiniteSet(S)
  BY <1>1, FS_Subset
<1> QED
  BY <1>2, FS_CardinalityType

(* All but the elements of F are still counted. *)
LEMMA CountLess ==
  ASSUME NEW n \in Nat, NEW S, NEW T, NEW F, S \subseteq 1 .. n, T \subseteq 1 .. n, F \subseteq 1 .. n,
         S \ F \subseteq T
  PROVE  Cardinality(S) <= Cardinality(T) + Cardinality(F)
<1>1. /\ IsFiniteSet(T) /\ IsFiniteSet(F) /\ IsFiniteSet(T \cup F) /\ IsFiniteSet(T \cap F)
      /\ Cardinality(S) \in Nat /\ Cardinality(T) \in Nat /\ Cardinality(F) \in Nat
      /\ Cardinality(T \cup F) \in Nat /\ Cardinality(T \cap F) \in Nat
  <2>1. T \cup F \subseteq 1 .. n /\ T \cap F \subseteq 1 .. n
    OBVIOUS
  <2> QED
    BY <2>1, FiniteKnown
<1>2. Cardinality(T \cup F) = Cardinality(T) + Cardinality(F) - Cardinality(T \cap F)
  BY <1>1, FS_Union
<1>3. S \subseteq T \cup F
  OBVIOUS
<1>4. Cardinality(S) <= Cardinality(T \cup F)
  BY <1>1, <1>3, FS_Subset
<1> QED
  BY <1>1, <1>2, <1>4

LEMMA CountSame ==
  ASSUME NEW n \in Nat, NEW S, NEW T, S \subseteq T, T \subseteq 1 .. n
  PROVE  Cardinality(S) <= Cardinality(T)
  BY FiniteKnown, FS_Subset

LEMMA CountMore ==
  ASSUME NEW n \in Nat, NEW S, NEW T, NEW x, S \cup {x} \subseteq T, x \notin S, T \subseteq 1 .. n
  PROVE  Cardinality(S) + 1 <= Cardinality(T)
<1>1. S \subseteq 1 .. n
  OBVIOUS
<1>2. IsFiniteSet(S) /\ IsFiniteSet(T)
  BY <1>1, FiniteKnown
<1>3. Cardinality(S \cup {x}) = Cardinality(S) + 1
  BY <1>2, FS_AddElement
<1> QED
  BY <1>2, <1>3, FS_Subset

LEMMA CountOneLess ==
  ASSUME NEW n \in Nat, NEW S, NEW T, NEW x \in 1 .. n, S \subseteq 1 .. n, T \subseteq 1 .. n,
         S \ {x} \subseteq T
  PROVE  Cardinality(S) <= Cardinality(T) + 1
<1>1. Cardinality({x}) = 1
  BY FS_Singleton
<1>2. {x} \subseteq 1 .. n
  OBVIOUS
<1>3. Cardinality(S) <= Cardinality(T) + Cardinality({x})
  BY <1>2, CountLess
<1> QED
  BY <1>1, <1>3

Counted(h) == Len(pending[h]) <= failures + Cardinality(Holders(h))
Backed(h) == persistent[h] # 0 => \E r \in Known : request[r].persistent /\ Uses(r, h)

(* The numbers at hand. *)
LEMMA CountFacts ==
  ASSUME BaseInv, BaseInv', NEW g \in Handle
  PROVE  \E n \in Nat :
             /\ Known \subseteq 1 .. n /\ Known' \subseteq 1 .. n
             /\ Holders(g) \subseteq 1 .. n /\ Holders(g)' \subseteq 1 .. n
             /\ Cardinality(Holders(g)) \in Nat /\ Cardinality(Holders(g)') \in Nat
             /\ failures \in Nat /\ failures' \in Nat
             /\ Len(pending[g]) \in Nat /\ Len(pending'[g]) \in Nat
<1>1. /\ Known = 1 .. Len(request) /\ Len(request) \in Nat
      /\ Known' = 1 .. Len(request') /\ Len(request') \in Nat
  BY DEF BaseInv, Calls, Requests, Known
<1>2. PICK n \in Nat : Known \subseteq 1 .. n /\ Known' \subseteq 1 .. n
  <2>1. CASE Len(request) <= Len(request')
    BY <1>1, <2>1
  <2>2. CASE Len(request') <= Len(request)
    BY <1>1, <2>2
  <2> QED
    BY <1>1, <2>1, <2>2
<1>3. Holders(g) \subseteq 1 .. n /\ Holders(g)' \subseteq 1 .. n
  BY <1>2 DEF Holders
<1>4. pending[g] \in Seq([id: Nat, persistent: BOOLEAN]) /\ pending'[g] \in Seq([id: Nat, persistent: BOOLEAN])
  BY DEF BaseInv, TableInv, TableShapes
<1>5. Len(pending[g]) \in Nat /\ Len(pending'[g]) \in Nat
  BY <1>4
<1>6. failures \in Nat /\ failures' \in Nat
  BY DEF BaseInv, RestTyped
<1> QED
  BY <1>2, <1>3, <1>5, <1>6, FiniteKnown

(* Calls to MPI: no record changes, and only a failing request stops being counted. *)
LEMMA CountedCall ==
  ASSUME BaseInv, BaseInv', NEW g \in Handle, Counted(g), pending'[g] = pending[g],
         NEW F, F \subseteq Known, failures' = failures + Cardinality(F),
         Holders(g) \ F \subseteq Holders(g)'
  PROVE  Counted(g)'
<1>1. PICK n \in Nat :
          /\ Known \subseteq 1 .. n
          /\ Holders(g) \subseteq 1 .. n /\ Holders(g)' \subseteq 1 .. n
          /\ Cardinality(Holders(g)) \in Nat /\ Cardinality(Holders(g)') \in Nat
          /\ failures \in Nat /\ failures' \in Nat
          /\ Len(pending[g]) \in Nat
  BY CountFacts
<1>2. F \subseteq 1 .. n
  BY <1>1
<1>3. Cardinality(F) \in Nat
  BY <1>2, FiniteKnown
<1>4. Cardinality(Holders(g)) <= Cardinality(Holders(g)') + Cardinality(F)
  BY <1>1, <1>2, CountLess
<1> QED
  BY <1>1, <1>3, <1>4 DEF Counted

LEMMA NoneFailed ==
  ASSUME BaseInv, failures' = failures
  PROVE  {} \subseteq Known /\ failures' = failures + Cardinality({})
  BY FS_EmptySet DEF BaseInv, RestTyped

LEMMA HeldCreate ==
  ASSUME BaseInv, BaseInv', NEW t \in Thread, NEW h \in Handle, NEW isPersistent \in BOOLEAN,
         Create(t, h, isPersistent), NEW g \in Handle, Counted(g), Backed(g)
  PROVE  Counted(g)' /\ Backed(g)'
<1>1. PICK n : n = Len(request) + 1
  OBVIOUS
<1>2. /\ n \notin Known /\ Known' = Known \cup {n}
      /\ \A q \in Known : request'[q] = request[q]
      /\ \A q : \A o \in Ops : Does(q, o)' <=> Does(q, o) \/ (q = n /\ o = "remember")
      /\ \A q : Busy(q)' <=> Busy(q) \/ q = n
  BY <1>1, CreateEffect DEF BaseInv
<1>3. pending' = pending /\ persistent' = persistent /\ failures' = failures
  BY DEF Create
<1>4. \A q \in Known : /\ Does(q, "remember")' <=> Does(q, "remember")
                       /\ Does(q, "start")' <=> Does(q, "start")
                       /\ Does(q, "complete")' <=> Does(q, "complete")
                       /\ Does(q, "forget")' <=> Does(q, "forget")
  BY <1>2, AllOps
<1>5. Holders(g) \ {} \subseteq Holders(g)'
  BY <1>2, <1>4 DEF Holders, Holds
<1>6. Counted(g)'
  BY <1>3, <1>5, NoneFailed, CountedCall
<1>7. \A q \in Known : Uses(q, g) => Uses(q, g)'
  BY <1>2 DEF Uses, Live
<1> QED
  BY <1>2, <1>3, <1>6, <1>7 DEF Backed

LEMMA HeldStart ==
  ASSUME BaseInv, BaseInv', NEW t \in Thread, NEW R \in (SUBSET Known) \ {{}}, Start(t, R),
         NEW g \in Handle, Counted(g), Backed(g)
  PROVE  Counted(g)' /\ Backed(g)'
<1>1. Calls /\ Shapes
  BY ShapesOf DEF BaseInv, Calls, Requests
<1>2. /\ Known' = Known
      /\ \A q \in R : request[q].state = "inactive" /\ ~Busy(q)
      /\ \A q \in Known \ R : request'[q] = request[q]
      /\ \A q \in R : request'[q] = [request[q] EXCEPT !.state = "active", !.tracked = FALSE]
      /\ \A q : \A o \in Ops : Does(q, o)' <=> Does(q, o) \/ (q \in R /\ o = "start")
      /\ \A q : Busy(q)' <=> Busy(q) \/ q \in R
  BY <1>1, StartEffect
<1>3. pending' = pending /\ persistent' = persistent /\ failures' = failures
  BY DEF Start
<1>4. \A q \in Known \ R : /\ Does(q, "remember")' <=> Does(q, "remember")
                           /\ Does(q, "start")' <=> Does(q, "start")
                           /\ Does(q, "complete")' <=> Does(q, "complete")
                           /\ Does(q, "forget")' <=> Does(q, "forget")
  BY <1>2, AllOps
<1>5. \A q \in R : ~Holds(q)
  BY <1>2, NotBusy DEF Holds
<1>6. Holders(g) \ {} \subseteq Holders(g)'
  BY <1>2, <1>4, <1>5 DEF Holders, Holds
<1>7. Counted(g)'
  BY <1>3, <1>6, NoneFailed, CountedCall
<1>8. \A q \in Known : Uses(q, g) /\ request[q].persistent => Uses(q, g)' /\ request'[q].persistent
  <2> TAKE q \in Known
  <2>1. CASE q \in R
    <3>1. request[q] \in RequestType /\ Busy(q)'
          /\ request'[q] = [request[q] EXCEPT !.state = "active", !.tracked = FALSE]
      BY <1>1, <1>2, <2>1 DEF Shapes
    <3>2. request'[q].handle = request[q].handle /\ request'[q].persistent = request[q].persistent
      BY <3>1 DEF RequestType
    <3> QED
      BY <3>1, <3>2 DEF Uses
  <2>2. CASE q \notin R
    BY <1>2, <2>2 DEF Uses, Live
  <2> QED
    BY <2>1, <2>2
<1> QED
  BY <1>2, <1>3, <1>7, <1>8 DEF Backed

LEMMA HeldCompletion ==
  ASSUME BaseInv, BaseInv', NEW t \in Thread, NEW R \in (SUBSET Known) \ {{}}, NEW F \in SUBSET R,
         Completion(t, R, F), NEW g \in Handle, Counted(g), Backed(g)
  PROVE  Counted(g)' /\ Backed(g)'
<1>1. Calls /\ Shapes
  BY ShapesOf DEF BaseInv, Calls, Requests
<1>2. Ends(R, F)
  BY <1>1, CompletionEffect
<1>3. pending' = pending /\ persistent' = persistent /\ failures' = failures + Cardinality(F)
  BY DEF Completion
<1>4. \A q \in R :
          /\ request'[q].state = IF request[q].state = "active" /\ ~request[q].persistent
                                 THEN "gone" ELSE "inactive"
          /\ request'[q].handle = request[q].handle
          /\ request'[q].persistent = request[q].persistent
  <2> TAKE q \in R
  <2>1. request[q] \in RequestType /\ request'[q] = Completed(q, F)
    BY <1>1, <1>2 DEF Shapes, Ends
  <2> QED
    BY <2>1 DEF Completed, RequestType
<1>5. \A q \in Known \ R : /\ Does(q, "remember")' <=> Does(q, "remember")
                           /\ Does(q, "start")' <=> Does(q, "start")
                           /\ Does(q, "complete")' <=> Does(q, "complete")
                           /\ Does(q, "forget")' <=> Does(q, "forget")
  BY <1>2, AllOps DEF Ends
<1>6. \A q \in R \ F : Does(q, "complete")'
  BY <1>2, AllOps DEF Ends
<1>7. Holders(g) \ F \subseteq Holders(g)'
  <2> SUFFICES ASSUME NEW q \in Holders(g), q \notin F PROVE q \in Holders(g)'
    OBVIOUS
  <2>1. q \in Known /\ Known' = Known /\ request[q].handle = g /\ Holds(q)
    BY <1>2 DEF Holders, Ends
  <2>2. CASE q \in R
    BY <1>4, <1>6, <2>1, <2>2 DEF Holders, Holds
  <2>3. CASE q \notin R
    <3>1. request'[q] = request[q]
      BY <1>2, <2>1, <2>3 DEF Ends
    <3> QED
      BY <1>5, <2>1, <2>3, <3>1 DEF Holders, Holds
  <2> QED
    BY <2>2, <2>3
<1>8. Counted(g)'
  BY <1>3, <1>7, CountedCall
<1>9. \A q \in Known : Uses(q, g) /\ request[q].persistent => Uses(q, g)' /\ request'[q].persistent
  <2> TAKE q \in Known
  <2>1. CASE q \in R
    BY <1>4, <2>1 DEF Uses, Live
  <2>2. CASE q \notin R
    BY <1>2, <2>2 DEF Ends, Uses, Live
  <2> QED
    BY <2>1, <2>2
<1>10. Known' = Known
  BY <1>2 DEF Ends
<1> QED
  BY <1>3, <1>8, <1>9, <1>10 DEF Backed

LEMMA HeldFree ==
  ASSUME BaseInv, BaseInv', NEW t \in Thread, NEW r \in Known, RequestFree(t, r),
         NEW g \in Handle, Counted(g), Backed(g)
  PROVE  Counted(g)' /\ Backed(g)'
<1>1. Calls /\ Shapes
  BY ShapesOf DEF BaseInv, Calls, Requests
<1>2. /\ Known' = Known
      /\ \A q \in Known : q # r => request'[q] = request[q]
      /\ request'[r] = [request[r] EXCEPT !.state = "gone"]
      /\ \A q : \A o \in Ops : Does(q, o)' <=> Does(q, o) \/ (q = r /\ o = "forget")
      /\ \A q : Busy(q)' <=> Busy(q) \/ q = r
  BY <1>1, FreeEffect
<1>3. pending' = pending /\ persistent' = persistent /\ failures' = failures
  BY DEF RequestFree
<1>4. /\ request'[r].handle = request[r].handle /\ request'[r].persistent = request[r].persistent
      /\ Does(r, "forget")'
  BY <1>1, <1>2, AllOps DEF Shapes, RequestType
<1>5. \A q \in Known : q # r => /\ Does(q, "remember")' <=> Does(q, "remember")
                                /\ Does(q, "start")' <=> Does(q, "start")
                                /\ Does(q, "complete")' <=> Does(q, "complete")
                                /\ Does(q, "forget")' <=> Does(q, "forget")
  BY <1>2, AllOps
<1>6. Holders(g) \ {} \subseteq Holders(g)'
  BY <1>2, <1>4, <1>5 DEF Holders, Holds
<1>7. Counted(g)'
  BY <1>3, <1>6, NoneFailed, CountedCall
<1>8. \A q \in Known : Uses(q, g) /\ request[q].persistent => Uses(q, g)' /\ request'[q].persistent
  BY <1>2, <1>4 DEF Uses, Live
<1> QED
  BY <1>2, <1>3, <1>7, <1>8 DEF Backed

(* Updates of the table. *)
LEMMA HeldReturns ==
  ASSUME NEW r \in Known, Returns(r), NEW g,
         request'[r].handle = request[r].handle, request'[r].state = request[r].state,
         request'[r].persistent = request[r].persistent,
         request[r].persistent => Live(r)
  PROVE  /\ Holders(g) \ {r} \subseteq Holders(g)'
         /\ request[r].handle = g /\ request[r].state = "active" => r \in Holders(g)'
         /\ persistent'[g] = persistent[g] /\ Backed(g) => Backed(g)'
<1>1. /\ Known' = Known
      /\ \A q \in Known : q # r => request'[q] = request[q]
      /\ \A q : \A o \in Ops : Does(q, o)' <=> Does(q, o) /\ q # r
      /\ \A q : Busy(q)' <=> Busy(q) /\ q # r
  BY DEF Returns
<1>2. \A q \in Known : q # r => /\ Does(q, "remember")' <=> Does(q, "remember")
                                /\ Does(q, "start")' <=> Does(q, "start")
                                /\ Does(q, "complete")' <=> Does(q, "complete")
                                /\ Does(q, "forget")' <=> Does(q, "forget")
  BY <1>1, AllOps
<1>3. Holders(g) \ {r} \subseteq Holders(g)'
  BY <1>1, <1>2 DEF Holders, Holds
<1>4. request[r].handle = g /\ request[r].state = "active" => r \in Holders(g)'
  <2>1. ~Does(r, "remember")' /\ ~Does(r, "start")'
    BY <1>1, AllOps
  <2> QED
    BY <1>1, <2>1 DEF Holders, Holds
<1>5. \A q \in Known : Uses(q, g) /\ request[q].persistent => Uses(q, g)' /\ request'[q].persistent
  BY <1>1 DEF Uses, Live
<1> QED
  BY <1>1, <1>3, <1>4, <1>5 DEF Backed

(* One record more for a request that is counted from now on, one record less for one that *)
(* is not counted any more, or no change.                                                  *)
LEMMA CountedUpdate ==
  ASSUME BaseInv, BaseInv', NEW g \in Handle, NEW r \in Known, Counted(g), failures' = failures,
         Holders(g) \ {r} \subseteq Holders(g)',
         \/ Len(pending'[g]) = Len(pending[g]) /\ r \notin Holders(g)
         \/ Len(pending'[g]) = Len(pending[g]) + 1 /\ r \notin Holders(g) /\ r \in Holders(g)'
         \/ Len(pending'[g]) = Len(pending[g]) - 1
         \/ Len(pending'[g]) = 0
  PROVE  Counted(g)'
<1>1. PICK n \in Nat :
          /\ Known \subseteq 1 .. n
          /\ Holders(g) \subseteq 1 .. n /\ Holders(g)' \subseteq 1 .. n
          /\ Cardinality(Holders(g)) \in Nat /\ Cardinality(Holders(g)') \in Nat
          /\ failures \in Nat
          /\ Len(pending[g]) \in Nat /\ Len(pending'[g]) \in Nat
  BY CountFacts
<1>2. CASE Len(pending'[g]) = Len(pending[g]) /\ r \notin Holders(g)
  <2>1. Holders(g) \subseteq Holders(g)'
    BY <1>2
  <2>2. Cardinality(Holders(g)) <= Cardinality(Holders(g)')
    BY <1>1, <2>1, CountSame
  <2> QED
    BY <1>1, <1>2, <2>2 DEF Counted
<1>3. CASE Len(pending'[g]) = Len(pending[g]) + 1 /\ r \notin Holders(g) /\ r \in Holders(g)'
  <2>1. Holders(g) \cup {r} \subseteq Holders(g)'
    BY <1>3
  <2>2. Cardinality(Holders(g)) + 1 <= Cardinality(Holders(g)')
    BY <1>1, <1>3, <2>1, CountMore
  <2> QED
    BY <1>1, <1>3, <2>2 DEF Counted
<1>4. CASE Len(pending'[g]) = Len(pending[g]) - 1
  <2>1. r \in 1 .. n
    BY <1>1
  <2>2. Cardinality(Holders(g)) <= Cardinality(Holders(g)') + 1
    BY <1>1, <2>1, CountOneLess
  <2> QED
    BY <1>1, <1>4, <2>2 DEF Counted
<1>5. CASE Len(pending'[g]) = 0
  BY <1>1, <1>5 DEF Counted
<1> QED
  BY <1>2, <1>3, <1>4, <1>5

LEMMA HeldRemember ==
  ASSUME BaseInv, BaseInv', CallsFit, NEW t \in Thread, NEW r \in call[t].todo, Remember(t, r),
         NEW g \in Handle, Counted(g), Backed(g)
  PROVE  Counted(g)' /\ Backed(g)'
<1>1. Calls /\ Shapes /\ TableShapes /\ PendingSize \in Nat /\ PersistentSize \in Nat
  BY ShapesOf, SizesAre DEF BaseInv, Calls, Requests, TableInv
<1>2. /\ r \in Known /\ Does(r, "remember") /\ Returns(r)
      /\ Remembers(r) \/ (request'[r] = request[r] /\ Same)
      /\ failures' = failures
  BY <1>1, RememberEffect
<1>3. request[r] \in RequestType /\ nextId' \in Nat
  BY <1>1, <1>2 DEF Shapes, BaseInv, TableInv, TableShapes
<1>4. PICK h \in Handle : h = request[r].handle
  BY <1>1, <1>2 DEF Shapes
<1>5. /\ request'[r].handle = request[r].handle /\ request'[r].state = request[r].state
      /\ request'[r].persistent = request[r].persistent
  BY <1>2, <1>3 DEF Remembers, RequestType
<1>6. /\ request[r].state = IF request[r].persistent THEN "inactive" ELSE "active"
      /\ Live(r)
  BY <1>2 DEF CallsFit, CallFits, Live
<1>7. /\ Holders(g) \ {r} \subseteq Holders(g)'
      /\ request[r].handle = g /\ request[r].state = "active" => r \in Holders(g)'
      /\ persistent'[g] = persistent[g] /\ Backed(g) => Backed(g)'
  BY <1>2, <1>5, <1>6, HeldReturns
<1>8. r \notin Holders(g)
  BY <1>1, <1>2, OneOp DEF Holders, Holds
<1>9. CASE Same
  <2>1. pending'[g] = pending[g] /\ persistent'[g] = persistent[g]
    BY <1>9 DEF Same
  <2> QED
    BY <1>2, <1>7, <1>8, <2>1, CountedUpdate
<1>10. CASE NewPersistent(h) /\ request[r].persistent
  <2>1. /\ pending'[g] = pending[g] /\ (g # h => persistent'[g] = persistent[g])
    BY <1>1, <1>10 DEF NewPersistent, TableShapes
  <2>2. Counted(g)'
    BY <1>2, <1>7, <1>8, <2>1, CountedUpdate
  <2>3. CASE g # h
    BY <1>7, <2>1, <2>2, <2>3
  <2>4. CASE g = h
    <3>1. Known' = Known
      BY <1>2 DEF Returns
    <3>2. request'[r].persistent /\ Uses(r, g)'
      BY <1>4, <1>5, <1>6, <1>10, <2>4 DEF Uses, Live
    <3> QED
      BY <1>2, <2>2, <3>1, <3>2 DEF Backed
  <2> QED
    BY <2>3, <2>4
<1>11. CASE NewRecord(h) /\ ~request[r].persistent
  <2>1. Grown(h, Len(pending[h]) + 1, nextId', FALSE) /\ persistent' = persistent
    BY <1>1, <1>3, <1>11, AppendEffect DEF NewRecord
  <2>2. CASE g # h
    <3>1. pending'[g] = pending[g]
      BY <2>1, <2>2 DEF Grown
    <3> QED
      BY <1>2, <1>7, <1>8, <2>1, <3>1, CountedUpdate
  <2>3. CASE g = h
    <3>1. Len(pending'[g]) = Len(pending[g]) + 1
      BY <2>1, <2>3 DEF Grown
    <3>2. r \in Holders(g)'
      BY <1>4, <1>6, <1>7, <1>11, <2>3
    <3> QED
      BY <1>2, <1>7, <1>8, <2>1, <3>1, <3>2, CountedUpdate
  <2> QED
    BY <2>2, <2>3
<1> QED
  BY <1>2, <1>4, <1>9, <1>10, <1>11 DEF Remembers

LEMMA HeldStartPersistent ==
  ASSUME BaseInv, BaseInv', CallsFit, NEW t \in Thread, NEW r \in call[t].todo,
         StartPersistent(t, r), NEW g \in Handle, Counted(g), Backed(g)
  PROVE  Counted(g)' /\ Backed(g)'
<1>1. Calls /\ Shapes /\ TableShapes /\ PendingSize \in Nat /\ PersistentSize \in Nat
  BY ShapesOf, SizesAre DEF BaseInv, Calls, Requests, TableInv
<1>2. /\ r \in Known /\ Does(r, "start") /\ Returns(r)
      /\ Restarts(r) \/ (request'[r] = request[r] /\ Same)
      /\ failures' = failures
  BY <1>1, StartPersistentEffect
<1>3. request[r] \in RequestType
  BY <1>1, <1>2 DEF Shapes
<1>4. PICK h \in Handle : h = request[r].handle
  BY <1>1, <1>2 DEF Shapes
<1>5. /\ request'[r].handle = request[r].handle /\ request'[r].state = request[r].state
      /\ request'[r].persistent = request[r].persistent
  BY <1>2, <1>3 DEF Restarts, RequestType
<1>6. request[r].state = "active" /\ Live(r)
  BY <1>2 DEF CallsFit, CallFits, Live
<1>7. /\ Holders(g) \ {r} \subseteq Holders(g)'
      /\ request[r].handle = g /\ request[r].state = "active" => r \in Holders(g)'
      /\ persistent'[g] = persistent[g] /\ Backed(g) => Backed(g)'
  BY <1>2, <1>5, <1>6, HeldReturns
<1>8. r \notin Holders(g)
  BY <1>1, <1>2, OneOp DEF Holders, Holds
<1>9. CASE Same
  <2>1. pending'[g] = pending[g] /\ persistent'[g] = persistent[g]
    BY <1>9 DEF Same
  <2> QED
    BY <1>2, <1>7, <1>8, <2>1, CountedUpdate
<1>10. CASE NewStart(h)
  <2>1. persistent[h] \in Nat
    BY <1>1, RecordShapes
  <2>2. Grown(h, Len(pending[h]) + 1, persistent[h], TRUE) /\ persistent' = persistent
    BY <1>1, <1>10, <2>1, AppendEffect DEF NewStart
  <2>3. CASE g # h
    <3>1. pending'[g] = pending[g]
      BY <2>2, <2>3 DEF Grown
    <3> QED
      BY <1>2, <1>7, <1>8, <2>2, <3>1, CountedUpdate
  <2>4. CASE g = h
    <3>1. Len(pending'[g]) = Len(pending[g]) + 1
      BY <2>2, <2>4 DEF Grown
    <3>2. r \in Holders(g)'
      BY <1>4, <1>6, <1>7, <2>4
    <3> QED
      BY <1>2, <1>7, <1>8, <2>2, <3>1, <3>2, CountedUpdate
  <2> QED
    BY <2>3, <2>4
<1> QED
  BY <1>2, <1>4, <1>9, <1>10 DEF Restarts

LEMMA HeldCompleteRequest ==
  ASSUME BaseInv, BaseInv', CallsFit, NEW t \in Thread, NEW r \in call[t].todo,
         CompleteRequest(t, r), NEW g \in Handle, Counted(g), Backed(g)
  PROVE  Counted(g)' /\ Backed(g)'
<1>1. Calls /\ Shapes /\ TableShapes
  BY ShapesOf DEF BaseInv, Calls, Requests, TableInv
<1>2. /\ r \in Known /\ Does(r, "complete") /\ Returns(r) /\ request'[r] = request[r]
      /\ Drops(request[r].handle) \/ (pending[request[r].handle] = <<>> /\ Same)
      /\ failures' = failures
  BY <1>1, CompleteRequestEffect
<1>3. PICK h \in Handle : h = request[r].handle
  BY <1>1, <1>2 DEF Shapes
<1>4. request[r].persistent => Live(r)
  BY <1>2 DEF CallsFit, CallFits, Live
<1>5. /\ Holders(g) \ {r} \subseteq Holders(g)'
      /\ persistent'[g] = persistent[g] /\ Backed(g) => Backed(g)'
  BY <1>2, <1>4, HeldReturns
<1>6. persistent'[g] = persistent[g]
  BY <1>2 DEF Drops, Same
<1>7. CASE g # h
  <2>1. r \notin Holders(g)
    BY <1>3, <1>7 DEF Holders
  <2>2. pending'[g] = pending[g]
    BY <1>1, <1>2, <1>3, <1>7 DEF Drops, Same, TableShapes
  <2> QED
    BY <1>2, <1>5, <1>6, <2>1, <2>2, CountedUpdate
<1>8. CASE g = h
  <2>1. CASE Drops(h)
    <3>1. Len(pending'[g]) = Len(pending[g]) - 1
      BY <1>1, <1>8, <2>1, DropEffect
    <3> QED
      BY <1>2, <1>5, <1>6, <3>1, CountedUpdate
  <2>2. CASE pending[h] = <<>> /\ Same
    <3>1. pending'[g] = <<>> /\ Len(<<>>) = 0
      BY <1>8, <2>2 DEF Same
    <3>2. Len(pending'[g]) = 0
      BY <3>1
    <3> QED
      BY <1>2, <1>5, <1>6, <3>2, CountedUpdate
  <2> QED
    BY <1>2, <1>3, <2>1, <2>2
<1> QED
  BY <1>7, <1>8

LEMMA HeldForget ==
  ASSUME BaseInv, BaseInv', CallsFit, NEW t \in Thread, NEW r \in call[t].todo,
         ForgetRequest(t, r), NEW g \in Handle, Counted(g), Backed(g)
  PROVE  Counted(g)' /\ Backed(g)'
<1>1. Calls /\ Shapes /\ TableShapes
  BY ShapesOf DEF BaseInv, Calls, Requests, TableInv
<1>2. /\ r \in Known /\ Does(r, "forget") /\ Returns(r) /\ request'[r] = request[r]
      /\ Clears(request[r].handle) /\ failures' = failures
  BY <1>1, ForgetEffect
<1>3. PICK h \in Handle : h = request[r].handle
  BY <1>1, <1>2 DEF Shapes
<1>4. /\ \A f \in Handle : f # h => pending'[f] = pending[f] /\ persistent'[f] = persistent[f]
      /\ Len(pending'[h]) = 0 /\ persistent'[h] = 0
  BY <1>1, <1>2, <1>3, ClearEffect DEF Clears
<1>5. /\ Known' = Known
      /\ \A q \in Known : q # r => request'[q] = request[q]
      /\ \A q : \A o \in Ops : Does(q, o)' <=> Does(q, o) /\ q # r
      /\ \A q : Busy(q)' <=> Busy(q) /\ q # r
  BY <1>2 DEF Returns
<1>6. \A q \in Known : q # r => /\ Does(q, "remember")' <=> Does(q, "remember")
                                /\ Does(q, "start")' <=> Does(q, "start")
                                /\ Does(q, "complete")' <=> Does(q, "complete")
                                /\ Does(q, "forget")' <=> Does(q, "forget")
  BY <1>5, AllOps
<1>7. Holders(g) \ {r} \subseteq Holders(g)'
  BY <1>5, <1>6 DEF Holders, Holds
<1>8. CASE g # h
  <2>1. r \notin Holders(g) /\ ~Uses(r, g)
    BY <1>3, <1>8 DEF Holders, Uses
  <2>2. Counted(g)'
    BY <1>2, <1>4, <1>7, <1>8, <2>1, CountedUpdate
  <2>3. \A q \in Known : Uses(q, g) /\ request[q].persistent => Uses(q, g)' /\ request'[q].persistent
    BY <1>5, <2>1 DEF Uses, Live
  <2> QED
    BY <1>4, <1>5, <1>8, <2>2, <2>3 DEF Backed
<1>9. CASE g = h
  BY <1>2, <1>4, <1>7, <1>9, CountedUpdate DEF Backed
<1> QED
  BY <1>8, <1>9

LEMMA HeldParts == Held <=> \A h \in Handle : Counted(h) /\ Backed(h)
  BY DEF Held, Counted, Backed

LEMMA HeldStep ==
  BaseInv /\ BaseInv' /\ CallsFit /\ Held /\ [TableNext]_table => Held'
<1> SUFFICES ASSUME BaseInv, BaseInv', CallsFit, Held, [TableNext]_table, NEW g \in Handle
             PROVE  Counted(g)' /\ Backed(g)'
  BY DEF Held, Counted, Backed
<1>1. Counted(g) /\ Backed(g)
  BY HeldParts
<1>2. CASE UNCHANGED table
  <2>1. /\ request' = request /\ call' = call /\ pending' = pending /\ persistent' = persistent
        /\ failures' = failures
    BY <1>2 DEF table
  <2> QED
    BY <1>1, <2>1 DEF Counted, Backed, Holders, Holds, Uses, Does, Busy, Live, Known
<1>3. CASE MPIFinalize
  <2>1. pending' = [h \in Handle |-> <<>>] /\ persistent' = [h \in Handle |-> 0]
    BY <1>3 DEF MPIFinalize
  <2>2. Len(pending'[g]) = 0 /\ persistent'[g] = 0
    BY <2>1, EmptyTable
  <2>3. Cardinality(Holders(g)') \in Nat /\ failures' \in Nat
    BY CountFacts
  <2> QED
    BY <2>2, <2>3 DEF Counted, Backed
<1>4. ASSUME NEW t \in Thread, NEW h \in Handle, NEW isPersistent \in BOOLEAN,
             Create(t, h, isPersistent)
      PROVE  Counted(g)' /\ Backed(g)'
  BY <1>1, <1>4, HeldCreate
<1>5. ASSUME NEW t \in Thread, NEW R \in (SUBSET Known) \ {{}}, Start(t, R)
      PROVE  Counted(g)' /\ Backed(g)'
  BY <1>1, <1>5, HeldStart
<1>6. ASSUME NEW t \in Thread, NEW R \in (SUBSET Known) \ {{}}, NEW F \in SUBSET R,
             Completion(t, R, F)
      PROVE  Counted(g)' /\ Backed(g)'
  BY <1>1, <1>6, HeldCompletion
<1>7. ASSUME NEW t \in Thread, NEW r \in Known, RequestFree(t, r)
      PROVE  Counted(g)' /\ Backed(g)'
  BY <1>1, <1>7, HeldFree
<1>8. ASSUME NEW t \in Thread, NEW r \in call[t].todo, Remember(t, r)
      PROVE  Counted(g)' /\ Backed(g)'
  BY <1>1, <1>8, HeldRemember
<1>9. ASSUME NEW t \in Thread, NEW r \in call[t].todo, StartPersistent(t, r)
      PROVE  Counted(g)' /\ Backed(g)'
  BY <1>1, <1>9, HeldStartPersistent
<1>10. ASSUME NEW t \in Thread, NEW r \in call[t].todo, CompleteRequest(t, r)
       PROVE  Counted(g)' /\ Backed(g)'
  BY <1>1, <1>10, HeldCompleteRequest
<1>11. ASSUME NEW t \in Thread, NEW r \in call[t].todo, ForgetRequest(t, r)
       PROVE  Counted(g)' /\ Backed(g)'
  BY <1>1, <1>11, HeldForget
<1> QED
  BY <1>2, <1>3, <1>4, <1>5, <1>6, <1>7, <1>8, <1>9, <1>10, <1>11, Steps

-----------------------------------------------------------------------------
(* The whole invariant. *)
RequestInv == BaseInv /\ CallsFit /\ Emptied /\ TableRight /\ Held

LEMMA RequestInit == TableInit => RequestInv
<1> SUFFICES ASSUME TableInit PROVE RequestInv
  OBVIOUS
<1>1. BaseInv
  BY BaseInit
<1>2. Known = {} /\ ~finalized
  BY DEF TableInit, Known
<1>3. \A h \in Handle : pending[h] = <<>> /\ persistent[h] = 0
  BY DEF TableInit
<1>4. CallsFit /\ Emptied
  BY <1>2 DEF CallsFit, Emptied
<1>5. TableRight
  BY <1>2, <1>3 DEF TableRight, Right
<1>6. failures = 0 /\ \A h \in Handle : Holders(h) = {} /\ Len(pending[h]) = 0
  BY <1>2, <1>3 DEF TableInit, Holders
<1>7. Cardinality({}) = 0
  BY FS_EmptySet
<1>8. Held
  <2>1. \A h \in Handle : Cardinality(Holders(h)) = 0 /\ Len(pending[h]) = 0 /\ persistent[h] = 0
    BY <1>3, <1>6, <1>7
  <2>2. \A h \in Handle : Len(pending[h]) <= failures + Cardinality(Holders(h))
    BY <1>6, <2>1
  <2> QED
    BY <2>1, <2>2 DEF Held
<1> QED
  BY <1>1, <1>4, <1>5, <1>8 DEF RequestInv

LEMMA RequestStep == RequestInv /\ [TableNext]_table => RequestInv'
  BY BaseStep, CallsFitStep, EmptiedStep, TableRightStep, HeldStep DEF RequestInv

LEMMA RequestInvariant == TableSpec => []RequestInv
  BY RequestInit, RequestStep, PTL DEF TableSpec

(* Every MPI_Group the table holds is freed once: an allocated group belongs to a record, *)
(* and a record without its group sits under a handle that was given out too early.       *)
THEOREM GroupsFreedOnce == TableSpec => []GroupsOwned
<1>1. RequestInv => GroupsOwned
  <2> SUFFICES ASSUME RequestInv PROVE GroupsOwned
    OBVIOUS
  <2>1. TableInv /\ TableShapes /\ IdsOnce /\ GroupsKept
    BY DEF RequestInv, BaseInv, TableInv
  <2>2. ASSUME NEW x \in groups
        PROVE  x \in {pending[e[1]][e[2]].id : e \in Entries} \cup {persistent[h] : h \in Handle}
    <3>1. Owner(x)
      BY <2>1 DEF GroupsKept
    <3>2. CASE \E h \in Handle : persistent[h] = x
      BY <3>2
    <3>3. CASE \E h \in Handle : \E i \in DOMAIN pending[h] : pending[h][i].id = x
      <4>1. PICK h \in Handle : \E i \in DOMAIN pending[h] : pending[h][i].id = x
        BY <3>3
      <4>2. PICK i \in DOMAIN pending[h] : pending[h][i].id = x
        BY <4>1
      <4>3. <<h, i>> \in Entries
        BY EntriesAre
      <4>4. \E e \in Entries : pending[e[1]][e[2]].id = x
        BY <4>2, <4>3
      <4> QED
        BY <4>4
    <3> QED
      BY <3>1, <3>2, <3>3 DEF Owner
  <2>3. ASSUME NEW e \in Entries, e[1] \notin stale
        PROVE  pending[e[1]][e[2]].id \in groups
    <3>1. PICK h \in Handle : \E i \in DOMAIN pending[h] : e = <<h, i>>
      BY EntriesAre
    <3>2. PICK i \in DOMAIN pending[h] : e = <<h, i>>
      BY <3>1
    <3>3. e[1] = h /\ e[2] = i
      BY <3>2
    <3>4. ~finalized
      BY DEF RequestInv, Emptied
    <3>5. Right(h)
      BY <2>3, <3>3, <3>4 DEF RequestInv, TableRight
    <3>6. CASE ~pending[h][i].persistent
      BY <2>1, <3>3, <3>6 DEF GroupsKept
    <3>7. CASE pending[h][i].persistent
      <4>1. pending[h][i].id = persistent[h]
        BY <3>5, <3>7 DEF Right
      <4>2. pending[h][i].id # 0
        BY <2>1 DEF IdsOnce
      <4> QED
        BY <2>1, <3>3, <4>1, <4>2 DEF GroupsKept
    <3> QED
      BY <3>6, <3>7
  <2> QED
    BY <2>2, <2>3 DEF GroupsOwned
<1> QED
  BY <1>1, RequestInvariant, PTL

(* Races may lose records but never keep them: under a handle there are no more records    *)
(* than requests that are active or being completed there, but for the ones that failed,   *)
(* and no persistent record outlives its request.                                          *)
THEOREM NothingOrphaned == TableSpec => []NoOrphans
<1>1. RequestInv => NoOrphans
  <2> SUFFICES ASSUME RequestInv, NEW h \in Handle, NEW here, here = {r \in Known : request[r].handle = h}
               PROVE  /\ Len(pending[h]) <= failures +
                             Cardinality({r \in here : request[r].state = "active" \/ Busy(r)})
                      /\ persistent[h] # 0 =>
                             \E r \in here : request[r].persistent /\ (Live(r) \/ Busy(r))
    BY DEF NoOrphans
  <2> DEFINE counted == {r \in here : request[r].state = "active" \/ Busy(r)}
  <2>1. Counted(h) /\ Backed(h)
    BY HeldParts DEF RequestInv
  <2>2. Known = 1 .. Len(request) /\ Len(request) \in Nat
    BY DEF RequestInv, BaseInv, Calls, Requests, Known
  <2>3. Holders(h) \subseteq counted /\ counted \subseteq 1 .. Len(request)
    BY <2>2, DoesBusy DEF Holders, Holds
  <2>4. /\ Cardinality(Holders(h)) <= Cardinality(counted)
        /\ Cardinality(Holders(h)) \in Nat /\ Cardinality(counted) \in Nat
    BY <2>2, <2>3, CountSame, FiniteKnown
  <2>5. failures \in Nat /\ TableShapes
    BY DEF RequestInv, BaseInv, RestTyped, TableInv
  <2>6. Len(pending[h]) \in Nat
    BY <2>5, RecordShapes
  <2> HIDE DEF counted
  <2>7. Len(pending[h]) <= failures + Cardinality(counted)
    BY <2>1, <2>4, <2>5, <2>6 DEF Counted
  <2>8. persistent[h] # 0 => \E r \in here : request[r].persistent /\ (Live(r) \/ Busy(r))
    BY <2>1 DEF Backed, Uses
  <2> QED
    BY <2>7, <2>8 DEF counted
<1> QED
  BY <1>1, RequestInvariant, PTL

(* complete_request takes the record of the request that completed, and none when that    *)
(* request is not in the table, on every handle MPI gave out only after the table had let *)
(* go of it.                                                                              *)
THEOREM RightlyAttributed == TableSpec => Attribution
<1>1. RequestInv => Attributes
  <2> SUFFICES ASSUME RequestInv, NEW t \in Thread, NEW r \in call[t].todo,
                      call[t].op = "complete", request[r].handle \notin stale
               PROVE  TakesOwnRecord(t, r)
    BY DEF Attributes, Completes
  <2>1. Calls /\ Shapes
    BY ShapesOf DEF RequestInv, BaseInv, Calls, Requests
  <2>2. r \in Known /\ Does(r, "complete")
    BY <2>1 DEF Calls, CallShapes, Does
  <2>3. ~finalized
    BY DEF RequestInv, Emptied, Idle
  <2>4. Right(request[r].handle)
    BY <2>1, <2>2, <2>3 DEF RequestInv, TableRight, Shapes
  <2>5. pending[request[r].handle] = IF request[r].tracked THEN OwnRecord(r) ELSE <<>>
    BY <2>1, <2>2, <2>4, FindsOwn
  <2>6. OwnRecord(r) # <<>> /\ Head(OwnRecord(r)).id = request[r].id
    BY DEF OwnRecord
  <2> QED
    BY <2>5, <2>6 DEF TakesOwnRecord
<1>2. RequestInv /\ [TableNext]_table => [Attributes]_table
  BY <1>1
<1> QED
  BY <1>2, RequestInvariant, PTL DEF TableSpec, Attribution
=============================================================================
