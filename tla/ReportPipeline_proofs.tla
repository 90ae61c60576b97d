------------------------- MODULE ReportPipeline_proofs -------------------------
(* Proofs about ReportPipeline, for every value of its constants. *)
EXTENDS ReportPipeline, TLAPS

Row == [state: RowState, attempts: Nat, owner: Worker \cup {None}, number: Nat]
Outcome == {"pending", "failed", "suppressed", "completed"}

\* A worker that writes an outcome has decided on one.
Decided == \A w \in Worker : pc[w] = "writing" => outcome[w] \in Outcome

Typed == TypeOK /\ Decided

LEMMA JobParts ==
  /\ \A s \in Segment : <<"segment", s>> \in Job /\ <<"report", s>> \in Job
  /\ \A j \in Job : j[2] \in Segment /\ (j = <<"segment", j[2]>> \/ j = <<"report", j[2]>>)
  BY DEF Job

LEMMA NewRowType ==
  NoRow \in Row /\ NewRow \in Row /\ NoRow.state = "none" /\ NewRow.state = "pending"
  BY DEF NoRow, NewRow, Row, RowState

LEMMA LeasedType ==
  ASSUME NEW r \in Row, NEW w \in Worker
  PROVE  Leased(r, w) \in Row /\ Leased(r, w).state = "processing"
  BY DEF Leased, Row, RowState

LEMMA EndedType ==
  ASSUME NEW r \in Row, NEW s \in RowState
  PROVE  Ended(r, s) \in Row /\ Ended(r, s).state = s
  BY DEF Ended, Row, RowState

LEMMA TypeInit == Init => Typed
  BY PipelineAssumption, NewRowType
  DEF Init, Typed, TypeOK, Decided, NoHead, WorkerPc, Row

LEMMA RestType ==
  ASSUME Typed, NEW w \in Worker, Rest(w), NEW v \in Worker
  PROVE  /\ pc' \in [Worker -> WorkerPc] /\ job' \in [Worker -> Job \cup {None}]
         /\ number' \in [Worker -> Nat] /\ inputs' \in [Worker -> SUBSET Segment]
         /\ outcome' \in [Worker -> {"pending", "failed", "suppressed", "completed", None}]
         /\ pc'[v] # "idle" => /\ v # w /\ pc'[v] = pc[v] /\ job'[v] = job[v]
                               /\ inputs'[v] = inputs[v] /\ outcome'[v] = outcome[v]
  BY DEF Typed, TypeOK, Rest, WorkerPc

LEMMA RestTyped ==
  ASSUME Typed, NEW w \in Worker, Rest(w),
         UNCHANGED <<catalogVars, store, candidate>>, row' \in [Job -> Row], faults' \in Nat
  PROVE  Typed'
<1>1. /\ \A v \in Worker : pc'[v] # "idle" => job'[v] \in Job
      /\ \A v \in Worker : pc'[v] \in {"reading", "reserved", "leased", "locked", "half", "stored"}
                             => inputs'[v] # {}
      /\ Decided'
  BY RestType DEF Typed, TypeOK, Decided
<1> QED
  BY <1>1, RestType DEF Typed, TypeOK, catalogVars, Row

LEMMA TypeStep == Typed /\ [Next]_vars => Typed'
<1> SUFFICES ASSUME Typed, [Next]_vars PROVE Typed'
  OBVIOUS
<1> USE PipelineAssumption
<1>0. TypeOK /\ row \in [Job -> Row] /\ faults \in Nat
  BY DEF Typed, TypeOK, Row
<1>1. ASSUME NEW s \in Segment, Admit(s) PROVE Typed'
  BY <1>0, <1>1, JobParts, NewRowType DEF Admit, Typed, TypeOK, Decided, workerVars, Row
<1>2. ASSUME NEW a \in Attempt, Fence(a) PROVE Typed'
  BY <1>2 DEF Fence, Typed, TypeOK, Decided, workerVars
<1>3. ASSUME NEW a \in Attempt, EraseObjects(a) PROVE Typed'
  BY <1>3 DEF EraseObjects, Typed, TypeOK, Decided, catalogVars, workerVars
<1>4. ASSUME NEW a \in Attempt, Erase(a) PROVE Typed'
  <2>1. row' \in [Job -> Row]
    BY <1>0, <1>4, NewRowType DEF Erase
  <2>2. head' \in [Attempt -> [number: Nat, inputs: SUBSET Segment]] /\ erased' \subseteq fenced'
    BY <1>0, <1>4 DEF Erase, Erasable, NoHead, TypeOK
  <2> QED
    BY <1>4, <2>1, <2>2 DEF Erase, Typed, TypeOK, Decided, workerVars, Row
<1>5. ASSUME NEW w \in Worker, NEW j \in Job, Claim(w, j) PROVE Typed'
  <2>1. row' \in [Job -> Row]
    BY <1>0, <1>5, LeasedType DEF Claim
  <2>2. row[j].number \in Nat /\ faults' \in Nat
    BY <1>0, <1>5 DEF Claim, Row
  <2> QED
    BY <1>5, <2>1, <2>2 DEF Claim, Typed, TypeOK, Decided, catalogVars, WorkerPc, Row
<1>6. ASSUME NEW w \in Worker, Crash(w) PROVE Typed'
  BY <1>0, <1>6, RestTyped DEF Crash
<1>7. ASSUME NEW w \in Worker, SegmentRead(w) PROVE Typed'
  <2>1. CASE row[job[w]] = NoRow
    BY <1>0, <1>7, <2>1, RestTyped DEF SegmentRead
  <2>2. CASE row[job[w]] # NoRow
    <3>1. /\ UNCHANGED <<catalogVars, store, candidate, row, faults, job, number, inputs, outcome>>
          /\ pc[w] # "idle"
          /\ pc' = [pc EXCEPT ![w] = "parsed"] \/ pc' = [pc EXCEPT ![w] = "failing"]
      BY <1>7, <2>2 DEF SegmentRead, Goes
    <3>2. /\ pc' \in [Worker -> WorkerPc]
          /\ \A v \in Worker : pc'[v] = pc[v] \/ (v = w /\ pc'[v] \in {"parsed", "failing"})
      BY <1>0, <3>1 DEF TypeOK, WorkerPc
    <3> QED
      BY <3>1, <3>2 DEF Typed, TypeOK, Decided, catalogVars
  <2> QED
    BY <2>1, <2>2
<1>8. ASSUME NEW w \in Worker, SegmentCheck(w) PROVE Typed'
  <2>1. CASE ~HoldsLease(w)
    BY <1>0, <1>8, <2>1, RestTyped DEF SegmentCheck
  <2>2. CASE HoldsLease(w)
    <3>1. \/ /\ Goes(w, "writing")
             /\ \E o \in Outcome : outcome' = [outcome EXCEPT ![w] = o]
          \/ Goes(w, "normalizing") /\ outcome' = outcome
      BY <1>8, <2>2 DEF SegmentCheck, Outcome
    <3>2. UNCHANGED <<catalogVars, row, store, candidate, faults, inputs>> /\ pc[w] = "parsed"
      BY <1>8, <2>2 DEF SegmentCheck
    <3>3. CASE Goes(w, "normalizing") /\ outcome' = outcome
      BY <3>2, <3>3 DEF Goes, Typed, TypeOK, Decided, catalogVars, WorkerPc
    <3>4. ASSUME Goes(w, "writing"), NEW o \in Outcome, outcome' = [outcome EXCEPT ![w] = o]
          PROVE  Typed'
      <4>1. /\ pc' \in [Worker -> WorkerPc] /\ Decided'
            /\ outcome' \in [Worker -> {"pending", "failed", "suppressed", "completed", None}]
        BY <3>4 DEF Goes, Typed, TypeOK, Decided, Outcome, WorkerPc
      <4> QED
        BY <3>2, <3>4, <4>1 DEF Goes, Typed, TypeOK, catalogVars
    <3> QED
      BY <3>1, <3>3, <3>4
  <2> QED
    BY <2>1, <2>2
<1>9. ASSUME NEW w \in Worker, SegmentWrite(w) PROVE Typed'
  <2>1. job[w][2] \in Segment /\ <<"segment", job[w][2]>> \in Job /\ <<"report", job[w][2]>> \in Job
    BY <1>0, <1>9, JobParts DEF SegmentWrite, TypeOK
  <2>2. row' \in [Job -> Row]
    BY <1>0, <1>9, <2>1, EndedType, NewRowType DEF SegmentWrite, RowState
  <2>3. normalized' \subseteq Segment /\ requested' \in [Segment -> Nat]
    <3>1. normalized \subseteq Segment /\ requested \in [Segment -> Nat]
      BY <1>0 DEF TypeOK
    <3>2. normalized' = normalized \/ normalized' = normalized \cup {job[w][2]}
      BY <1>9 DEF SegmentWrite
    <3>3. requested' = requested \/ requested' = [requested EXCEPT ![job[w][2]] = @ + 1]
      BY <1>9 DEF SegmentWrite
    <3>4. requested' \in [Segment -> Nat]
      BY <2>1, <3>1, <3>3
    <3> QED
      BY <2>1, <3>1, <3>2, <3>4
  <2>4. /\ \A v \in Worker : pc'[v] # "idle" => job'[v] \in Job
        /\ \A v \in Worker : pc'[v] \in {"reading", "reserved", "leased", "locked", "half", "stored"}
                               => inputs'[v] # {}
        /\ Decided'
    BY <1>9, RestType DEF SegmentWrite, Typed, TypeOK, Decided
  <2> QED
    BY <1>9, <2>2, <2>3, <2>4, RestType DEF SegmentWrite, Typed, TypeOK, Row
<1>10. ASSUME NEW w \in Worker, ReportRead(w) PROVE Typed'
  <2>1. CASE ~HoldsLease(w)
    BY <1>0, <1>10, <2>1, RestTyped DEF ReportRead
  <2>2. CASE HoldsLease(w)
    <3>1. Inputs(AttemptOf(w)) \subseteq Segment
      BY DEF Inputs, SegmentsOf
    <3> DEFINE in == Inputs(AttemptOf(w))
    <3>2. /\ \/ in = {} /\ Goes(w, "failing")
             \/ in # {} /\ Goes(w, "reading")
          /\ inputs' = [inputs EXCEPT ![w] = in]
          /\ pc[w] = "claimed"
          /\ UNCHANGED <<outcome, catalogVars, row, store, candidate, faults>>
      BY <1>10, <2>2 DEF ReportRead
    <3>3. in \subseteq Segment
      BY <3>1
    <3> HIDE DEF in
    <3> QED
      BY <3>2, <3>3 DEF Goes, Typed, TypeOK, Decided, catalogVars, WorkerPc
  <2> QED
    BY <2>1, <2>2
<1>11. ASSUME NEW w \in Worker, ReportUnbuildable(w) PROVE Typed'
  BY <1>11 DEF ReportUnbuildable, Goes, Typed, TypeOK, Decided, catalogVars, WorkerPc
<1>12. ASSUME NEW w \in Worker, ReportReserve(w) PROVE Typed'
  <2>1. candidate' \in [Artifact -> {"none", "pending", "protected", "deleted", "missing"}]
    BY <1>12 DEF ReportReserve, Ensured, Typed, TypeOK
  <2> QED
    BY <1>12, <2>1 DEF ReportReserve, Goes, Typed, TypeOK, Decided, catalogVars, WorkerPc
<1>13. ASSUME NEW w \in Worker, ReportLeaseCheck(w) PROVE Typed'
  <2>1. CASE ~HoldsLease(w)
    BY <1>0, <1>13, <2>1, RestTyped DEF ReportLeaseCheck
  <2>2. CASE HoldsLease(w)
    BY <1>13, <2>2 DEF ReportLeaseCheck, Goes, Typed, TypeOK, Decided, catalogVars, WorkerPc
  <2> QED
    BY <2>1, <2>2
<1>14. ASSUME NEW w \in Worker, ReportLock(w) PROVE Typed'
  BY <1>14 DEF ReportLock, Goes, Typed, TypeOK, Decided, Outcome, catalogVars, WorkerPc
<1>15. ASSUME NEW w \in Worker, ReportPut(w) PROVE Typed'
  <2>1. store' \subseteq Artifact
    <3>1. inputs[w] \in (SUBSET Segment) \ {{}}
      BY <1>0, <1>15 DEF ReportPut, TypeOK
    <3>2. <<"parquet", inputs[w]>> \in Artifact /\ <<"json", inputs[w]>> \in Artifact
      BY <3>1 DEF Artifact
    <3> QED
      BY <1>0, <1>15, <3>2 DEF ReportPut, NextArtifact, TypeOK
  <2> QED
    BY <1>15, <2>1 DEF ReportPut, Goes, Typed, TypeOK, Decided, catalogVars, WorkerPc
<1>16. ASSUME NEW w \in Worker, ReportPutFails(w) PROVE Typed'
  BY <1>16, PipelineAssumption DEF ReportPutFails, Goes, Typed, TypeOK, Decided, catalogVars, WorkerPc
<1>17. ASSUME NEW w \in Worker, ReportPublish(w) PROVE Typed'
  <2> DEFINE a == AttemptOf(w)
             same == {v \in revisions : v.attempt = a /\ v.inputs = inputs[w]}
             new == [attempt |-> a, number |-> NextRevision(a), inputs |-> inputs[w]]
             current == IF same = {} THEN new ELSE CHOOSE v \in same : TRUE
  <2>1. job[w] \in Job /\ a \in Attempt /\ NextRevision(a) \in Nat /\ inputs[w] \subseteq Segment
    BY <1>0, <1>17, JobParts DEF ReportPublish, TypeOK, AttemptOf, NextRevision
  <2>2. current \in Revision
    <3>1. new \in Revision
      BY <2>1 DEF Revision
    <3>2. same \subseteq Revision
      BY <1>0 DEF TypeOK
    <3> QED
      BY <3>1, <3>2
  <2>3. /\ revisions' \subseteq Revision
        /\ head' \in [Attempt -> [number: Nat, inputs: SUBSET Segment]]
    <3>1. current.number \in Nat
      BY <2>2 DEF Revision
    <3>2. \/ UNCHANGED <<revisions, head>>
          \/ /\ revisions' = revisions \cup {current}
             /\ head' = [head EXCEPT ![a] = [number |-> current.number, inputs |-> inputs[w]]]
      BY <1>17 DEF ReportPublish
    <3>3. [number |-> current.number, inputs |-> inputs[w]] \in [number: Nat, inputs: SUBSET Segment]
      BY <2>1, <3>1
    <3> HIDE DEF current, a
    <3> QED
      BY <1>0, <2>1, <2>2, <3>2, <3>3 DEF TypeOK
  <2>4. row' \in [Job -> Row]
    BY <1>0, <1>17, <2>1, EndedType DEF ReportPublish, RowState
  <2>5. candidate' \in [Artifact -> {"none", "pending", "protected", "deleted", "missing"}]
    BY <1>0, <1>17 DEF ReportPublish, TypeOK
  <2>6. /\ \A v \in Worker : pc'[v] # "idle" => job'[v] \in Job
        /\ \A v \in Worker : pc'[v] \in {"reading", "reserved", "leased", "locked", "half", "stored"}
                               => inputs'[v] # {}
        /\ Decided'
    BY <1>17, RestType DEF ReportPublish, Typed, TypeOK, Decided
  <2> QED
    BY <1>0, <1>17, <2>3, <2>4, <2>5, <2>6, RestType DEF ReportPublish, Typed, TypeOK, Row
<1>18. ASSUME NEW w \in Worker, FailRead(w) PROVE Typed'
  <2>1. CASE ~Owns(w)
    BY <1>0, <1>18, <2>1, RestTyped DEF FailRead
  <2>2. CASE Owns(w)
    BY <1>18, <2>2 DEF FailRead, Goes, Typed, TypeOK, Decided, Outcome, catalogVars, WorkerPc
  <2> QED
    BY <2>1, <2>2
<1>19. ASSUME NEW w \in Worker, WriteOutcome(w) PROVE Typed'
  <2>1. job[w] \in Job /\ outcome[w] \in RowState
    BY <1>0, <1>19 DEF WriteOutcome, TypeOK, Typed, Decided, Outcome, RowState
  <2>2. row' \in [Job -> Row]
    BY <1>0, <1>19, <2>1, EndedType DEF WriteOutcome
  <2> QED
    BY <1>0, <1>19, <2>2, RestTyped DEF WriteOutcome
<1>20. ASSUME NEW k \in Artifact, GcCollect(k) PROVE Typed'
  BY <1>20 DEF GcCollect, Typed, TypeOK, Decided, catalogVars, workerVars
<1>21. CASE UNCHANGED vars
  BY <1>21 DEF vars, catalogVars, workerVars, Typed, TypeOK, Decided
<1> QED
  BY <1>1, <1>2, <1>3, <1>4, <1>5, <1>6, <1>7, <1>8, <1>9, <1>10, <1>11, <1>12, <1>13, <1>14,
     <1>15, <1>16, <1>17, <1>18, <1>19, <1>20, <1>21
     DEF Next, WorkerStep, SegmentStep, ReportStep

\* Rows, leases, heads and revisions keep their shape: a report in progress has
\* inputs, and a worker about to write an outcome has chosen one.
THEOREM TypeCorrect == Spec => []TypeOK
<1>1. Typed => TypeOK
  BY DEF Typed
<1> QED
  BY <1>1, TypeInit, TypeStep, PTL DEF Spec

-----------------------------------------------------------------------------
(* The inductive invariant. *)

\* Outbox rows follow the catalog: a segment's event exists exactly while its
\* manifest does, its report request exactly while its projection does.
RowsFollow ==
    /\ normalized \subseteq admitted
    /\ \A s \in Segment : /\ row[<<"segment", s>>].state # "none" <=> s \in admitted
                          /\ row[<<"report", s>>].state # "none" <=> s \in normalized
    /\ \A j \in Job : row[j].state = "none" => row[j] = NoRow

\* A request once made is remembered by the projection, until the attempt goes.
RequestKept ==
    \A s \in Segment : /\ requested[s] <= 1
                       /\ requested[s] = 1 => s \in normalized \/ Owner[s] \in erased

\* A head lists current inputs, and every revision is part of its attempt's head.
HeadsCurrent == \A a \in Attempt : head[a].inputs \subseteq Inputs(a)
RevisionsInHead ==
    \A v \in revisions : v.inputs # {} /\ v.inputs \subseteq head[v.attempt].inputs

\* An erased attempt has no manifest, and so no row and no projection.
ErasedEmpty ==
    \A a \in erased : head[a] = NoHead /\ SegmentsOf(a) \cap admitted = {}

\* What a worker knows about the row it leased and the report it builds.
Building(w) == pc[w] \in {"reading", "reserved", "leased", "locked", "half", "stored"}
JobOK(w) ==
    /\ pc[w] \in {"parsed", "normalizing"} => job[w][1] = "segment"
    /\ Building(w) => job[w][1] = "report" /\ job[w][2] \in inputs[w]
    /\ pc[w] = "writing" =>
         /\ outcome[w] = "completed" => job[w][1] = "segment"
         /\ outcome[w] = "suppressed" => AttemptOf(w) \in fenced

\* What the publishing transaction checked under the attempt's lock stays true, and
\* what it wrote to the store stays there.
PublishOK(w) ==
    /\ Publishing(w) => /\ AttemptOf(w) \notin fenced
                        /\ head[AttemptOf(w)].inputs \subseteq inputs[w]
                        /\ inputs[w] \subseteq Inputs(AttemptOf(w))
    /\ pc[w] \in {"half", "stored"} => <<"parquet", inputs[w]>> \in store
    /\ pc[w] = "stored" => <<"json", inputs[w]>> \in store

\* The attempt's lock admits one publishing worker.
OnePublisher ==
    \A v, w \in Worker : v # w /\ Publishing(v) /\ Publishing(w) => AttemptOf(v) # AttemptOf(w)

WorkersOK == (\A w \in Worker : JobOK(w) /\ PublishOK(w)) /\ OnePublisher
CatalogOK == /\ RowsFollow /\ RequestKept /\ HeadsCurrent /\ RevisionsInHead /\ ErasedEmpty
             /\ HeadCovers /\ RevisionBacked
PipelineInv == CatalogOK /\ WorkersOK

LEMMA PipelineInit == Init => PipelineInv
  BY JobParts, NewRowType
  DEF Init, PipelineInv, CatalogOK, WorkersOK, RowsFollow, RequestKept, HeadsCurrent,
      RevisionsInHead, ErasedEmpty, HeadCovers, RevisionBacked, JobOK, PublishOK, OnePublisher,
      Building, Publishing, NoHead

\* A worker's own steps leave the catalog's part alone.
LEMMA CatalogFrame == CatalogOK /\ UNCHANGED <<catalogVars, row, store>> => CatalogOK'
  BY DEF CatalogOK, catalogVars, RowsFollow, RequestKept, HeadsCurrent, RevisionsInHead,
     ErasedEmpty, HeadCovers, RevisionBacked, Inputs, SegmentsOf, Artifacts

\* What a worker that does not move knows stays true while the catalog only grows.
LEMMA WorkerKept ==
  ASSUME NEW w \in Worker, JobOK(w), PublishOK(w),
         pc'[w] = pc[w], job'[w] = job[w], inputs'[w] = inputs[w], outcome'[w] = outcome[w],
         fenced \subseteq fenced',
         Publishing(w) => /\ AttemptOf(w) \notin fenced'
                          /\ head'[AttemptOf(w)] = head[AttemptOf(w)]
                          /\ Inputs(AttemptOf(w)) \subseteq Inputs(AttemptOf(w))'
                          /\ store \cap Artifacts(inputs[w]) \subseteq store'
  PROVE  JobOK(w)' /\ PublishOK(w)'
<1>1. JobOK(w)'
  BY DEF JobOK, Building, AttemptOf
<1>2. Publishing(w)' <=> Publishing(w)
  BY DEF Publishing
<1>3. AttemptOf(w)' = AttemptOf(w)
  BY DEF AttemptOf
<1>4. <<"parquet", inputs[w]>> \in Artifacts(inputs[w]) /\ <<"json", inputs[w]>> \in Artifacts(inputs[w])
  BY DEF Artifacts
<1>5. CASE Publishing(w)
  <2>1. /\ AttemptOf(w)' \notin fenced'
        /\ head'[AttemptOf(w)'].inputs \subseteq inputs'[w]
    BY <1>3, <1>5 DEF PublishOK
  <2>2. inputs'[w] \subseteq Inputs(AttemptOf(w))'
    BY <1>5 DEF PublishOK
  <2>3. /\ pc'[w] \in {"half", "stored"} => <<"parquet", inputs'[w]>> \in store'
        /\ pc'[w] = "stored" => <<"json", inputs'[w]>> \in store'
    BY <1>4, <1>5 DEF PublishOK
  <2> QED
    BY <1>1, <2>1, <2>2, <2>3 DEF PublishOK
<1>6. CASE ~Publishing(w)
  <2>1. ~Publishing(w)' /\ pc'[w] \notin {"half", "stored"}
    BY <1>2, <1>6 DEF Publishing
  <2> QED
    BY <1>1, <2>1 DEF PublishOK
<1> QED
  BY <1>1, <1>5, <1>6

\* A worker that rests knows nothing.
LEMMA RestOK ==
  ASSUME Typed, NEW w \in Worker, Rest(w)
  PROVE  /\ JobOK(w)' /\ PublishOK(w)' /\ ~Publishing(w)'
         /\ \A v \in Worker \ {w} : /\ pc'[v] = pc[v] /\ job'[v] = job[v]
                                     /\ inputs'[v] = inputs[v] /\ outcome'[v] = outcome[v]
  BY DEF Typed, TypeOK, Rest, JobOK, PublishOK, Publishing, Building

\* A step of one worker that leaves the catalog and the rest of the workers alone.
LEMMA LocalStep ==
  ASSUME Typed, PipelineInv, NEW w \in Worker,
         UNCHANGED <<catalogVars, row, store>>,
         \A v \in Worker \ {w} : /\ pc'[v] = pc[v] /\ job'[v] = job[v]
                                 /\ inputs'[v] = inputs[v] /\ outcome'[v] = outcome[v],
         JobOK(w)', PublishOK(w)',
         Publishing(w)' => \/ Publishing(w) /\ job'[w] = job[w]
                           \/ \A v \in Worker \ {w} : Publishing(v) => AttemptOf(v) # Owner[job'[w][2]]
  PROVE  PipelineInv'
<1>1. CatalogOK'
  BY CatalogFrame DEF PipelineInv
<1>2. ASSUME NEW v \in Worker PROVE JobOK(v)' /\ PublishOK(v)'
  <2>1. CASE v = w
    BY <2>1
  <2>2. CASE v # w
    <3>1. pc'[v] = pc[v] /\ job'[v] = job[v] /\ inputs'[v] = inputs[v] /\ outcome'[v] = outcome[v]
      BY <2>2
    <3>2. JobOK(v) /\ PublishOK(v)
      BY DEF PipelineInv, WorkersOK
    <3>3. Publishing(v) => /\ AttemptOf(v) \notin fenced'
                           /\ head'[AttemptOf(v)] = head[AttemptOf(v)]
                           /\ Inputs(AttemptOf(v)) \subseteq Inputs(AttemptOf(v))'
                           /\ store \cap Artifacts(inputs[v]) \subseteq store'
      BY <3>1, <3>2 DEF PublishOK, catalogVars, Inputs, SegmentsOf, AttemptOf
    <3> QED
      BY <3>1, <3>2, <3>3, WorkerKept DEF catalogVars
  <2> QED
    BY <2>1, <2>2
<1>3. OnePublisher'
  <2> SUFFICES ASSUME NEW u \in Worker, NEW v \in Worker, u # v, Publishing(u)', Publishing(v)'
               PROVE  AttemptOf(u)' # AttemptOf(v)'
    BY DEF OnePublisher
  <2>1. \A x \in Worker \ {w} : /\ Publishing(x)' <=> Publishing(x)
                                /\ AttemptOf(x)' = AttemptOf(x)
    BY DEF Publishing, AttemptOf
  <2>2. AttemptOf(w)' = Owner[job'[w][2]]
    BY DEF AttemptOf
  <2>3. OnePublisher
    BY DEF PipelineInv, WorkersOK
  <2> QED
    BY <2>1, <2>2, <2>3 DEF OnePublisher, AttemptOf
<1> QED
  BY <1>1, <1>2, <1>3 DEF PipelineInv, WorkersOK

\* A row that exists may change without ceasing to exist.
LEMMA RowChange ==
  ASSUME Typed, RowsFollow, NEW j \in Job, NEW r \in Row, row[j].state # "none",
         r.state # "none", row' = [row EXCEPT ![j] = r], UNCHANGED <<admitted, normalized>>
  PROVE  RowsFollow'
<1>1. row \in [Job -> Row]
  BY DEF Typed, TypeOK, Row
<1>2. \A i \in Job : (row'[i].state # "none" <=> row[i].state # "none")
                   /\ (row'[i].state = "none" => row'[i] = NoRow)
  BY <1>1 DEF RowsFollow
<1> QED
  BY <1>2, JobParts DEF RowsFollow

\* The attempt's head covers its segments while their requests are open.
LEMMA CoversChange ==
  ASSUME Typed, HeadCovers, NEW j \in Job, NEW r \in Row,
         row' = [row EXCEPT ![j] = r], UNCHANGED normalized, fenced \subseteq fenced',
         \A a \in Attempt : a \notin fenced' => head[a].inputs \subseteq head'[a].inputs,
         \/ j[1] = "segment" \/ r.state \in {"pending", "processing", "failed"}
         \/ Owner[j[2]] \in fenced' \/ j[2] \in head'[Owner[j[2]]].inputs
  PROVE  HeadCovers'
<1> SUFFICES ASSUME NEW s \in normalized, Owner[s] \notin fenced'
             PROVE  \/ s \in head'[Owner[s]].inputs
                    \/ row'[<<"report", s>>].state \in {"pending", "processing", "failed"}
  BY DEF HeadCovers
<1>1. s \in Segment /\ Owner[s] \in Attempt /\ row \in [Job -> Row] /\ <<"report", s>> \in Job
  BY JobParts, PipelineAssumption DEF Typed, TypeOK, Row
<1>2. CASE j = <<"report", s>>
  BY <1>1, <1>2
<1>3. CASE j # <<"report", s>>
  BY <1>1, <1>3 DEF HeadCovers
<1> QED
  BY <1>2, <1>3

\* What a step must leave alone for a publishing worker v that does not move.
Spared(v) ==
    Publishing(v) => /\ AttemptOf(v) \notin fenced'
                     /\ head'[AttemptOf(v)] = head[AttemptOf(v)]
                     /\ Inputs(AttemptOf(v)) \subseteq Inputs(AttemptOf(v))'
                     /\ store \cap Artifacts(inputs[v]) \subseteq store'
Stays(v) == pc'[v] = pc[v] /\ job'[v] = job[v] /\ inputs'[v] = inputs[v] /\ outcome'[v] = outcome[v]

\* A step of the catalog, or of one worker that does not start publishing.
LEMMA WorkersStep ==
  ASSUME WorkersOK, fenced \subseteq fenced',
         \A v \in Worker : \/ Stays(v) /\ Spared(v)
                           \/ /\ JobOK(v)' /\ PublishOK(v)'
                              /\ Publishing(v)' => Publishing(v) /\ job'[v] = job[v]
  PROVE  WorkersOK'
<1>1. ASSUME NEW v \in Worker PROVE JobOK(v)' /\ PublishOK(v)'
  BY WorkerKept DEF WorkersOK, Stays, Spared
<1>2. \A v \in Worker : Publishing(v)' => Publishing(v) /\ AttemptOf(v)' = AttemptOf(v)
  BY DEF Stays, Publishing, AttemptOf
<1>3. OnePublisher'
  BY <1>2 DEF OnePublisher, WorkersOK
<1> QED
  BY <1>1, <1>3 DEF WorkersOK

LEMMA OthersSpared ==
  ASSUME Typed, NEW w \in Worker, Rest(w), NEW v \in Worker, v # w, PublishOK(v),
         UNCHANGED <<fenced, head, store, admitted>>, normalized \subseteq normalized'
  PROVE  Stays(v) /\ Spared(v)
<1>1. Stays(v)
  BY RestOK DEF Stays
<1>2. AttemptOf(v)' = AttemptOf(v)
  BY <1>1 DEF Stays, AttemptOf
<1>3. Inputs(AttemptOf(v)) \subseteq Inputs(AttemptOf(v))'
  BY <1>2 DEF Inputs, SegmentsOf
<1>4. Publishing(v) => AttemptOf(v) \notin fenced
  BY DEF PublishOK
<1> QED
  BY <1>1, <1>3, <1>4 DEF Spared

\* Erasing one attempt takes nothing from a publication or a revision of another.
LEMMA ErasedArtifacts ==
  ASSUME Typed, CatalogOK, NEW a \in Attempt, NEW v \in revisions, v.attempt # a
  PROVE  Artifacts(v.inputs) \cap RevisionArtifacts(a) = {}
<1> SUFFICES ASSUME NEW u \in revisions, u.attempt = a, NEW k \in Artifacts(v.inputs),
                    k \in Artifacts(u.inputs)
             PROVE  FALSE
  BY DEF RevisionArtifacts
<1>1. u.inputs = v.inputs
  BY DEF Artifacts
<1>2. v.attempt \in Attempt
  BY DEF Typed, TypeOK, Revision
<1>3. u.inputs \subseteq SegmentsOf(a) /\ v.inputs \subseteq SegmentsOf(v.attempt) /\ v.inputs # {}
  BY <1>2 DEF CatalogOK, RevisionsInHead, HeadsCurrent, Inputs
<1> QED
  BY <1>1, <1>3 DEF SegmentsOf

\* Publishing inputs the head does not have makes a new revision: none has them yet.
LEMMA NewHead ==
  ASSUME CatalogOK, NEW w \in Worker, ReportPublish(w),
         head[AttemptOf(w)].inputs \subseteq inputs[w]
  PROVE  \/ head[AttemptOf(w)].inputs = inputs[w] /\ UNCHANGED <<revisions, head>>
         \/ /\ revisions' = revisions \cup {[attempt |-> AttemptOf(w),
                                            number |-> NextRevision(AttemptOf(w)),
                                            inputs |-> inputs[w]]}
            /\ head' = [head EXCEPT ![AttemptOf(w)] =
                           [number |-> NextRevision(AttemptOf(w)), inputs |-> inputs[w]]]
<1> DEFINE a == AttemptOf(w)
           same == {v \in revisions : v.attempt = a /\ v.inputs = inputs[w]}
           new == [attempt |-> a, number |-> NextRevision(a), inputs |-> inputs[w]]
<1>1. CASE head[a].inputs = inputs[w]
  BY <1>1 DEF ReportPublish
<1>2. CASE head[a].inputs # inputs[w]
  <2>1. same = {}
    BY <1>2 DEF CatalogOK, RevisionsInHead
  <2>2. /\ revisions' = revisions \cup {IF same = {} THEN new ELSE CHOOSE v \in same : TRUE}
        /\ head' = [head EXCEPT ![a] =
              [number |-> (IF same = {} THEN new ELSE CHOOSE v \in same : TRUE).number,
               inputs |-> inputs[w]]]
    BY <1>2 DEF ReportPublish
  <2>3. new.number = NextRevision(a)
    OBVIOUS
  <2> HIDE DEF same
  <2> QED
    BY <2>1, <2>2, <2>3
<1> QED
  BY <1>1, <1>2

LEMMA PipelineStep == Typed /\ PipelineInv /\ [Next]_vars => PipelineInv'
<1> SUFFICES ASSUME Typed, PipelineInv, [Next]_vars PROVE PipelineInv'
  OBVIOUS
<1> USE PipelineAssumption
<1>0. /\ TypeOK /\ row \in [Job -> Row] /\ CatalogOK /\ WorkersOK
      /\ \A w \in Worker : JobOK(w) /\ PublishOK(w)
  BY DEF Typed, TypeOK, Row, PipelineInv, WorkersOK
<1>1. ASSUME NEW s \in Segment, Admit(s) PROVE PipelineInv'
  <2>1. RowsFollow'
    <3>1. \A j \in Job : row'[j] = IF j = <<"segment", s>> THEN NewRow ELSE row[j]
      BY <1>0, <1>1, JobParts DEF Admit
    <3>2. \A t \in Segment : <<"report", t>> # <<"segment", s>> /\ (<<"segment", t>> = <<"segment", s>> => t = s)
      OBVIOUS
    <3> QED
      BY <1>0, <1>1, <3>1, <3>2, JobParts, NewRowType DEF Admit, CatalogOK, RowsFollow
  <2>2. RequestKept' /\ RevisionsInHead'
    BY <1>0, <1>1 DEF Admit, CatalogOK, RequestKept, RevisionsInHead
  <2>3. HeadsCurrent'
    BY <1>0, <1>1 DEF Admit, CatalogOK, HeadsCurrent, Inputs, SegmentsOf
  <2>4. ErasedEmpty'
    BY <1>0, <1>1 DEF Admit, CatalogOK, ErasedEmpty, SegmentsOf, TypeOK
  <2>5. HeadCovers' /\ RevisionBacked'
    <3>1. row' = [row EXCEPT ![<<"segment", s>>] = NewRow] /\ <<"segment", s>> \in Job
      BY <1>1, JobParts DEF Admit
    <3> QED
      BY <1>0, <1>1, <3>1, CoversChange, NewRowType DEF Admit, CatalogOK, RevisionBacked, Artifacts
  <2>6. WorkersOK'
    <3>1. \A v \in Worker : Stays(v) /\ Spared(v)
      BY <1>0, <1>1 DEF Admit, workerVars, Stays, Spared, PublishOK, Inputs, AttemptOf
    <3> QED
      BY <1>0, <1>1, <3>1, WorkersStep DEF Admit
  <2> QED
    BY <2>1, <2>2, <2>3, <2>4, <2>5, <2>6 DEF PipelineInv, CatalogOK
<1>2. ASSUME NEW a \in Attempt, Fence(a) PROVE PipelineInv'
  <2>1. CatalogOK'
    BY <1>0, <1>2 DEF Fence, CatalogOK, RowsFollow, RequestKept, HeadsCurrent, RevisionsInHead,
       ErasedEmpty, HeadCovers, RevisionBacked, Inputs, SegmentsOf, Artifacts
  <2>2. \A v \in Worker : Stays(v) /\ Spared(v)
    <3>1. \A v \in Worker : Publishing(v) => AttemptOf(v) # a
      BY <1>2 DEF Fence, AttemptLocked
    <3> QED
      BY <1>0, <1>2, <3>1 DEF Fence, workerVars, Stays, Spared, PublishOK, Inputs, SegmentsOf, AttemptOf
  <2> QED
    BY <1>0, <1>2, <2>1, <2>2, WorkersStep DEF Fence, PipelineInv
<1>3. ASSUME NEW a \in Attempt, EraseObjects(a) PROVE PipelineInv'
  <2>1. PICK ks \in SUBSET RevisionArtifacts(a) : store' = store \ ks
    BY <1>3 DEF EraseObjects
  <2>2. RevisionBacked'
    <3> SUFFICES ASSUME NEW v \in revisions, v.attempt \notin fenced
                 PROVE  Artifacts(v.inputs) \subseteq store'
      BY <1>3 DEF EraseObjects, catalogVars, RevisionBacked, Artifacts
    <3>1. v.attempt # a
      BY <1>3 DEF EraseObjects, Erasable
    <3> QED
      BY <1>0, <2>1, <3>1, ErasedArtifacts DEF CatalogOK, RevisionBacked
  <2>3. CatalogOK'
    BY <1>0, <1>3, <2>2 DEF EraseObjects, catalogVars, CatalogOK, RowsFollow, RequestKept,
       HeadsCurrent, RevisionsInHead, ErasedEmpty, HeadCovers, Inputs, SegmentsOf
  <2>4. \A v \in Worker : Stays(v) /\ Spared(v)
    <3>1. \A v \in Worker : Publishing(v) => store \cap Artifacts(inputs[v]) \subseteq store'
      BY <1>3, <2>1 DEF EraseObjects, Erasable, ObjectLocked
    <3> QED
      BY <1>0, <1>3, <3>1 DEF EraseObjects, catalogVars, workerVars, Stays, Spared, PublishOK,
         Inputs, SegmentsOf, AttemptOf
  <2> QED
    BY <1>0, <1>3, <2>3, <2>4, WorkersStep DEF EraseObjects, catalogVars, PipelineInv
<1>4. ASSUME NEW a \in Attempt, Erase(a) PROVE PipelineInv'
  <2>0. /\ a \in fenced /\ ~AttemptLocked(a) /\ \A k \in RevisionArtifacts(a) : ~ObjectLocked(k)
        /\ admitted' = admitted \ SegmentsOf(a) /\ normalized' = normalized \ SegmentsOf(a)
        /\ revisions' = {v \in revisions : v.attempt # a}
        /\ head' = [head EXCEPT ![a] = NoHead]
        /\ erased' = erased \cup {a} /\ store' = store \ RevisionArtifacts(a)
        /\ UNCHANGED <<fenced, requested, pc, job, inputs, outcome>>
    BY <1>4 DEF Erase, Erasable, workerVars
  <2>1. RowsFollow'
    <3>1. \A j \in Job : row'[j] = IF j[2] \in SegmentsOf(a) THEN NoRow ELSE row[j]
      BY <1>4 DEF Erase
    <3>2. \A s \in Segment : <<"segment", s>>[2] = s /\ <<"report", s>>[2] = s
      OBVIOUS
    <3> QED
      BY <1>0, <2>0, <3>1, <3>2, JobParts, NewRowType DEF CatalogOK, RowsFollow
  <2>2. RequestKept' 
    BY <1>0, <2>0 DEF CatalogOK, RequestKept, SegmentsOf
  <2>3. \A b \in Attempt : b # a => head'[b] = head[b] /\ Inputs(b)' = Inputs(b)
    BY <1>0, <2>0 DEF TypeOK, Inputs, SegmentsOf
  <2>4. head'[a] = NoHead /\ NoHead.inputs = {}
    BY <1>0, <2>0 DEF TypeOK, NoHead
  <2>5. HeadsCurrent'
    <3> SUFFICES ASSUME NEW b \in Attempt PROVE head'[b].inputs \subseteq Inputs(b)'
      BY DEF HeadsCurrent
    <3>1. CASE b = a
      BY <2>4, <3>1
    <3>2. CASE b # a
      BY <1>0, <2>3, <3>2 DEF CatalogOK, HeadsCurrent
    <3> QED
      BY <3>1, <3>2
  <2>6. RevisionsInHead'
    BY <1>0, <2>0, <2>3 DEF CatalogOK, RevisionsInHead, TypeOK, Revision
  <2>7. ErasedEmpty'
    <3> SUFFICES ASSUME NEW b \in erased' PROVE head'[b] = NoHead /\ SegmentsOf(b) \cap admitted' = {}
      BY DEF ErasedEmpty, SegmentsOf
    <3>1. CASE b = a
      BY <2>0, <2>4, <3>1
    <3>2. CASE b # a
      BY <1>0, <2>0, <3>2 DEF CatalogOK, ErasedEmpty, TypeOK
    <3> QED
      BY <3>1, <3>2
  <2>8. HeadCovers'
    <3> SUFFICES ASSUME NEW s \in normalized', Owner[s] \notin fenced
                 PROVE  \/ s \in head'[Owner[s]].inputs
                        \/ row'[<<"report", s>>].state \in {"pending", "processing", "failed"}
      BY <2>0 DEF HeadCovers
    <3>1. s \in normalized /\ s \in Segment /\ Owner[s] # a /\ Owner[s] \in Attempt
      BY <1>0, <2>0 DEF TypeOK, SegmentsOf
    <3>2. row'[<<"report", s>>] = row[<<"report", s>>]
      BY <1>4, <3>1, JobParts DEF Erase, SegmentsOf
    <3> QED
      BY <1>0, <2>3, <3>1, <3>2 DEF CatalogOK, HeadCovers
  <2>9. RevisionBacked'
    <3> SUFFICES ASSUME NEW v \in revisions, v.attempt # a, v.attempt \notin fenced
                 PROVE  Artifacts(v.inputs) \subseteq store'
      BY <2>0 DEF RevisionBacked, Artifacts
    <3> QED
      BY <1>0, <2>0, ErasedArtifacts DEF CatalogOK, RevisionBacked
  <2>10. \A v \in Worker : Stays(v) /\ Spared(v)
    <3> SUFFICES ASSUME NEW v \in Worker, Publishing(v)
                 PROVE  /\ AttemptOf(v) \notin fenced'
                        /\ head'[AttemptOf(v)] = head[AttemptOf(v)]
                        /\ Inputs(AttemptOf(v)) \subseteq Inputs(AttemptOf(v))'
                        /\ store \cap Artifacts(inputs[v]) \subseteq store'
      BY <2>0 DEF Stays, Spared
    <3>1. AttemptOf(v) # a /\ AttemptOf(v) \in Attempt /\ AttemptOf(v)' = AttemptOf(v)
      BY <1>0, <2>0, JobParts DEF AttemptLocked, Publishing, TypeOK, AttemptOf
    <3>2. store \cap Artifacts(inputs[v]) \subseteq store'
      BY <2>0 DEF ObjectLocked
    <3>3. Inputs(AttemptOf(v)) \subseteq Inputs(AttemptOf(v))'
      BY <2>0, <3>1 DEF Inputs, SegmentsOf
    <3> QED
      BY <1>0, <2>0, <2>3, <3>1, <3>2, <3>3 DEF PublishOK
  <2> QED
    BY <1>0, <2>0, <2>1, <2>2, <2>5, <2>6, <2>7, <2>8, <2>9, <2>10, WorkersStep
    DEF PipelineInv, CatalogOK
<1>5. ASSUME NEW w \in Worker, NEW j \in Job, Claim(w, j) PROVE PipelineInv'
  <2>0. /\ pc[w] = "idle" /\ row[j].state # "none"
        /\ row' = [row EXCEPT ![j] = Leased(row[j], w)]
        /\ Leased(row[j], w) \in Row /\ Leased(row[j], w).state = "processing"
        /\ UNCHANGED <<admitted, fenced, erased, normalized, requested, revisions, head, store>>
    BY <1>0, <1>5, LeasedType DEF Claim, catalogVars
  <2>1. RowsFollow' /\ HeadCovers'
    BY <1>0, <2>0, RowChange, CoversChange DEF CatalogOK
  <2>2. CatalogOK'
    BY <1>0, <2>0, <2>1 DEF CatalogOK, RequestKept, HeadsCurrent, RevisionsInHead, ErasedEmpty,
       RevisionBacked, Inputs, SegmentsOf, Artifacts
  <2>3. JobOK(w)' /\ PublishOK(w)' /\ ~Publishing(w)'
    BY <1>0, <1>5 DEF Claim, TypeOK, JobOK, PublishOK, Publishing, Building
  <2>4. \A v \in Worker : v # w => Stays(v) /\ Spared(v)
    BY <1>0, <1>5, <2>0 DEF Claim, TypeOK, Stays, Spared, PublishOK, Inputs, SegmentsOf, AttemptOf
  <2> QED
    BY <1>0, <2>0, <2>2, <2>3, <2>4, WorkersStep DEF PipelineInv
<1>6. ASSUME NEW w \in Worker, Rest(w), UNCHANGED <<catalogVars, row, store>> PROVE PipelineInv'
  BY <1>6, RestOK, LocalStep
<1>7. ASSUME NEW w \in Worker, NEW next \in WorkerPc, Goes(w, next),
             UNCHANGED <<catalogVars, row, store>>,
             \A v \in Worker \ {w} : inputs'[v] = inputs[v] /\ outcome'[v] = outcome[v],
             JobOK(w)', PublishOK(w)',
             next \in {"locked", "half", "stored"} =>
                \A v \in Worker \ {w} : Publishing(v) => AttemptOf(v) # AttemptOf(w)
      PROVE  PipelineInv'
  <2>1. pc'[w] = next /\ job'[w] = job[w]
    BY <1>0, <1>7 DEF Goes, TypeOK
  <2>2. \A v \in Worker \ {w} : pc'[v] = pc[v] /\ job'[v] = job[v]
    BY <1>0, <1>7 DEF Goes, TypeOK
  <2>3. Publishing(w)' => \A v \in Worker \ {w} : Publishing(v) => AttemptOf(v) # Owner[job'[w][2]]
    BY <1>7, <2>1 DEF Publishing, AttemptOf
  <2> QED
    BY <1>7, <2>2, <2>3, LocalStep
<1>8. ASSUME NEW w \in Worker, Crash(w) PROVE PipelineInv'
  BY <1>6, <1>8 DEF Crash
<1>9. ASSUME NEW w \in Worker, SegmentRead(w) PROVE PipelineInv'
  <2>1. CASE row[job[w]] = NoRow
    BY <1>6, <1>9, <2>1 DEF SegmentRead
  <2>2. ASSUME NEW next \in {"parsed", "failing"}, Goes(w, next), UNCHANGED <<inputs, outcome>>
        PROVE  PipelineInv'
    <3>1. JobOK(w)' /\ PublishOK(w)'
      BY <1>0, <1>9, <2>2 DEF SegmentRead, Goes, TypeOK, JobOK, PublishOK, Publishing, Building
    <3> QED
      BY <1>7, <1>9, <2>2, <3>1 DEF SegmentRead, WorkerPc
  <2> QED
    BY <1>9, <2>1, <2>2 DEF SegmentRead
<1>10. ASSUME NEW w \in Worker, SegmentCheck(w) PROVE PipelineInv'
  <2>1. CASE ~HoldsLease(w)
    BY <1>6, <1>10, <2>1 DEF SegmentCheck
  <2>2. CASE HoldsLease(w)
    <3>1. \E next \in {"writing", "normalizing"} : Goes(w, next)
      BY <1>10, <2>2 DEF SegmentCheck
    <3>2. UNCHANGED <<catalogVars, row, store, inputs>> /\ pc[w] = "parsed"
      BY <1>10, <2>2 DEF SegmentCheck
    <3>3. \A v \in Worker \ {w} : outcome'[v] = outcome[v]
      BY <1>0, <1>10, <2>2 DEF SegmentCheck, TypeOK
    <3>4. pc'[w] \in {"writing", "normalizing"} /\ job' = job
      BY <1>0, <3>1 DEF Goes, TypeOK
    <3>5. job[w][1] = "segment"
      BY <1>0, <3>2 DEF JobOK
    <3>6. outcome'[w] = "suppressed" /\ pc'[w] = "writing" => AttemptOf(w) \in fenced
      <4>1. CASE AttemptOf(w) \in fenced
        BY <4>1
      <4>2. CASE AttemptOf(w) \notin fenced /\ job[w][2] \in normalized
        BY <1>0, <1>10, <2>2, <4>2 DEF SegmentCheck, TypeOK, AttemptOf
      <4>3. CASE AttemptOf(w) \notin fenced /\ job[w][2] \notin normalized
        BY <1>0, <1>10, <2>2, <4>3 DEF SegmentCheck, Goes, TypeOK, AttemptOf
      <4> QED
        BY <4>1, <4>2, <4>3
    <3>7. JobOK(w)' /\ PublishOK(w)'
      BY <3>2, <3>4, <3>5, <3>6 DEF JobOK, PublishOK, Publishing, Building, AttemptOf, catalogVars
    <3> QED
      BY <1>7, <3>1, <3>2, <3>3, <3>7 DEF WorkerPc
  <2> QED
    BY <2>1, <2>2
<1>11. ASSUME NEW w \in Worker, ReportRead(w) PROVE PipelineInv'
  <2>1. CASE ~HoldsLease(w)
    BY <1>6, <1>11, <2>1 DEF ReportRead
  <2>2. CASE HoldsLease(w)
    <3>1. \E next \in {"failing", "reading"} : Goes(w, next)
      BY <1>11, <2>2 DEF ReportRead
    <3>2. /\ UNCHANGED <<catalogVars, row, store, outcome>> /\ pc[w] = "claimed"
          /\ job[w][1] = "report" /\ job[w] \in Job
      BY <1>0, <1>11, <2>2 DEF ReportRead, TypeOK
    <3>3. \A v \in Worker \ {w} : inputs'[v] = inputs[v]
      BY <1>0, <1>11, <2>2 DEF ReportRead, TypeOK
    <3>4. inputs'[w] = Inputs(AttemptOf(w))
      BY <1>0, <1>11, <2>2 DEF ReportRead, TypeOK
    <3>5. job[w][2] \in normalized /\ job[w][2] \in Segment
      <4>1. job[w] = <<"report", job[w][2]>> /\ job[w][2] \in Segment
        BY <3>2, JobParts
      <4>2. row[job[w]].state # "none"
        BY <2>2 DEF HoldsLease
      <4> QED
        BY <1>0, <4>1, <4>2 DEF CatalogOK, RowsFollow
    <3>6. job[w][2] \in inputs'[w]
      BY <1>0, <3>4, <3>5 DEF CatalogOK, RowsFollow, Inputs, SegmentsOf, AttemptOf
    <3>7. pc'[w] \in {"failing", "reading"} /\ job' = job
      BY <1>0, <3>1 DEF Goes, TypeOK
    <3>8. JobOK(w)' /\ PublishOK(w)'
      BY <3>2, <3>6, <3>7 DEF JobOK, PublishOK, Publishing, Building
    <3> QED
      BY <1>7, <3>1, <3>2, <3>3, <3>8 DEF WorkerPc
  <2> QED
    BY <2>1, <2>2
<1>12. ASSUME NEW w \in Worker, ReportUnbuildable(w) PROVE PipelineInv'
  <2>1. JobOK(w)' /\ PublishOK(w)'
    BY <1>0, <1>12 DEF ReportUnbuildable, Goes, TypeOK, JobOK, PublishOK, Publishing, Building
  <2> QED
    BY <1>7, <1>12, <2>1 DEF ReportUnbuildable, WorkerPc
<1>13. ASSUME NEW w \in Worker, ReportReserve(w) PROVE PipelineInv'
  <2>1. JobOK(w)' /\ PublishOK(w)'
    BY <1>0, <1>13 DEF ReportReserve, Goes, TypeOK, JobOK, PublishOK, Publishing, Building
  <2> QED
    BY <1>7, <1>13, <2>1 DEF ReportReserve, WorkerPc
<1>14. ASSUME NEW w \in Worker, ReportLeaseCheck(w) PROVE PipelineInv'
  <2>1. CASE ~HoldsLease(w)
    BY <1>6, <1>14, <2>1 DEF ReportLeaseCheck
  <2>2. CASE HoldsLease(w)
    <3>1. JobOK(w)' /\ PublishOK(w)'
      BY <1>0, <1>14, <2>2 DEF ReportLeaseCheck, Goes, TypeOK, JobOK, PublishOK, Publishing, Building
    <3> QED
      BY <1>7, <1>14, <2>2, <3>1 DEF ReportLeaseCheck, WorkerPc
  <2> QED
    BY <2>1, <2>2
<1>15. ASSUME NEW w \in Worker, FailRead(w) PROVE PipelineInv'
  <2>1. CASE ~Owns(w)
    BY <1>6, <1>15, <2>1 DEF FailRead
  <2>2. CASE Owns(w)
    <3>1. outcome'[w] \in {"failed", "pending"}
      BY <1>0, <1>15, <2>2 DEF FailRead, TypeOK
    <3>2. \A v \in Worker \ {w} : outcome'[v] = outcome[v]
      BY <1>0, <1>15, <2>2 DEF FailRead, TypeOK
    <3>3. JobOK(w)' /\ PublishOK(w)'
      BY <1>0, <1>15, <2>2, <3>1 DEF FailRead, Goes, TypeOK, JobOK, PublishOK, Publishing, Building
    <3> QED
      BY <1>7, <1>15, <2>2, <3>2, <3>3 DEF FailRead, WorkerPc
  <2> QED
    BY <2>1, <2>2
<1>16. ASSUME NEW w \in Worker, ReportLock(w) PROVE PipelineInv'
  <2> DEFINE a == AttemptOf(w)
  <2>0. /\ pc[w] = "leased" /\ ~AttemptLocked(a)
        /\ UNCHANGED <<catalogVars, row, store, inputs>>
        /\ job[w] \in Job /\ a \in Attempt
    BY <1>0, <1>16, JobParts DEF ReportLock, TypeOK, AttemptOf
  <2>1. CASE a \in fenced \/ InputsChanged(w)
    <3>1. Goes(w, "writing") /\ \A v \in Worker \ {w} : outcome'[v] = outcome[v]
      BY <1>0, <1>16, <2>1 DEF ReportLock, TypeOK
    <3>2. outcome'[w] = IF a \in fenced THEN "suppressed" ELSE "pending"
      BY <1>0, <1>16, <2>1 DEF ReportLock, TypeOK
    <3>3. JobOK(w)' /\ PublishOK(w)'
      BY <1>0, <2>0, <3>1, <3>2 DEF Goes, TypeOK, JobOK, PublishOK, Publishing, Building, AttemptOf,
         catalogVars
    <3> QED
      BY <1>7, <2>0, <3>1, <3>3 DEF WorkerPc
  <2>2. CASE ~(a \in fenced \/ InputsChanged(w))
    <3>1. Goes(w, "locked") /\ outcome' = outcome
      BY <1>16, <2>2 DEF ReportLock
    <3>2. a \notin fenced /\ inputs[w] = Inputs(a) /\ head[a].inputs \subseteq inputs[w]
      BY <1>0, <2>0, <2>2 DEF InputsChanged, CatalogOK, HeadsCurrent
    <3>3. pc'[w] = "locked" /\ job' = job
      BY <1>0, <3>1 DEF Goes, TypeOK
    <3>4. JobOK(w)'
      BY <1>0, <2>0, <3>1, <3>3 DEF JobOK, Building
    <3>5. AttemptOf(w)' = a /\ Inputs(AttemptOf(w))' = Inputs(a)
      BY <2>0, <3>3 DEF AttemptOf, Inputs, SegmentsOf, catalogVars
    <3>6. PublishOK(w)'
      BY <2>0, <3>2, <3>3, <3>5 DEF PublishOK, catalogVars
    <3>7. \A v \in Worker \ {w} : Publishing(v) => AttemptOf(v) # AttemptOf(w)
      BY <2>0 DEF AttemptLocked
    <3> QED
      BY <1>7, <2>0, <3>1, <3>4, <3>6, <3>7 DEF WorkerPc
  <2> QED
    BY <2>1, <2>2
<1>17. ASSUME NEW w \in Worker, ReportPut(w) PROVE PipelineInv'
  <2>0. /\ Publishing(w) /\ job' = job /\ inputs' = inputs /\ outcome' = outcome
        /\ \/ pc[w] = "locked" /\ pc'[w] = "half" /\ store' = store \cup {<<"parquet", inputs[w]>>}
           \/ pc[w] = "half" /\ pc'[w] = "stored" /\ store' = store \cup {<<"json", inputs[w]>>}
        /\ \A v \in Worker \ {w} : pc'[v] = pc[v]
        /\ UNCHANGED <<catalogVars, row>>
    BY <1>0, <1>17 DEF ReportPut, NextArtifact, Goes, Publishing, TypeOK
  <2>1. CatalogOK'
    BY <1>0, <2>0 DEF catalogVars, CatalogOK, RowsFollow, RequestKept, HeadsCurrent,
       RevisionsInHead, ErasedEmpty, HeadCovers, RevisionBacked, Inputs, SegmentsOf, Artifacts
  <2>2. \A v \in Worker \ {w} : Stays(v) /\ Spared(v)
    BY <1>0, <2>0 DEF catalogVars, Stays, Spared, PublishOK, Inputs, SegmentsOf, AttemptOf
  <2>3. JobOK(w)'
    BY <1>0, <2>0 DEF JobOK, Building
  <2>4. AttemptOf(w)' = AttemptOf(w) /\ Inputs(AttemptOf(w))' = Inputs(AttemptOf(w))
    BY <2>0 DEF AttemptOf, Inputs, SegmentsOf, catalogVars
  <2>5. PublishOK(w)'
    BY <1>0, <2>0, <2>4 DEF PublishOK, Publishing, catalogVars
  <2> QED
    BY <1>0, <2>0, <2>1, <2>2, <2>3, <2>5, WorkersStep DEF PipelineInv, catalogVars
<1>18. ASSUME NEW w \in Worker, ReportPutFails(w) PROVE PipelineInv'
  <2>1. JobOK(w)' /\ PublishOK(w)'
    BY <1>0, <1>18 DEF ReportPutFails, Goes, TypeOK, JobOK, PublishOK, Publishing, Building
  <2> QED
    BY <1>7, <1>18, <2>1 DEF ReportPutFails, WorkerPc
<1>19. ASSUME NEW w \in Worker, WriteOutcome(w) PROVE PipelineInv'
  <2> DEFINE j == job[w]
  <2>0. /\ pc[w] = "writing" /\ j \in Job /\ outcome[w] \in Outcome
        /\ Rest(w) /\ UNCHANGED <<catalogVars, store>>
    BY <1>0, <1>19 DEF WriteOutcome, TypeOK, Typed, Decided
  <2>1. CASE row[j] = NoRow
    BY <1>6, <1>19, <2>0, <2>1 DEF WriteOutcome
  <2>2. CASE row[j] # NoRow
    <3> DEFINE r == Ended(row[j], outcome[w])
    <3>1. row[j].state # "none"
      BY <1>0, <2>0, <2>2 DEF CatalogOK, RowsFollow
    <3>2. r \in Row /\ r.state = outcome[w] /\ r.state # "none"
      BY <1>0, <2>0, EndedType DEF Outcome, RowState
    <3>3. row' = [row EXCEPT ![j] = r]
      BY <1>19, <2>2 DEF WriteOutcome
    <3>4. RowsFollow'
      BY <1>0, <2>0, <3>1, <3>2, <3>3, RowChange DEF CatalogOK, catalogVars
    <3>5. \/ j[1] = "segment" \/ r.state \in {"pending", "processing", "failed"}
          \/ Owner[j[2]] \in fenced'
      BY <1>0, <2>0, <3>2 DEF JobOK, Outcome, AttemptOf, catalogVars
    <3>6. HeadCovers'
      BY <1>0, <2>0, <3>2, <3>3, <3>5, CoversChange DEF CatalogOK, catalogVars
    <3>7. CatalogOK'
      BY <1>0, <2>0, <3>4, <3>6 DEF catalogVars, CatalogOK, RequestKept, HeadsCurrent,
         RevisionsInHead, ErasedEmpty, RevisionBacked, Inputs, SegmentsOf, Artifacts
    <3>8. \A v \in Worker \ {w} : Stays(v) /\ Spared(v)
      BY <1>0, <2>0, OthersSpared DEF catalogVars
    <3> QED
      BY <1>0, <2>0, <3>7, <3>8, RestOK, WorkersStep DEF PipelineInv, catalogVars
  <2> QED
    BY <2>1, <2>2
<1>20. ASSUME NEW w \in Worker, SegmentWrite(w) PROVE PipelineInv'
  <2> DEFINE s == job[w][2]
  <2>0. /\ s \in Segment /\ <<"segment", s>> \in Job /\ <<"report", s>> \in Job /\ Rest(w)
        /\ UNCHANGED <<admitted, fenced, erased, revisions, head, store>>
    BY <1>0, <1>20, JobParts DEF SegmentWrite, TypeOK
  <2>1. CASE ~Insertable(s)
    BY <1>6, <1>20, <2>0, <2>1 DEF SegmentWrite, catalogVars
  <2>2. CASE Insertable(s)
    <3>1. /\ normalized' = normalized \cup {s}
          /\ requested' = [requested EXCEPT ![s] = @ + 1]
          /\ row' = [row EXCEPT ![<<"segment", s>>] = Ended(@, "completed"),
                                ![<<"report", s>>] = NewRow]
      BY <1>20, <2>2 DEF SegmentWrite
    <3>2. s \notin normalized /\ s \in admitted
      BY <1>0, <2>0, <2>2 DEF Insertable, CatalogOK, RowsFollow
    <3>3. Ended(row[<<"segment", s>>], "completed").state = "completed"
      BY <1>0, <2>0, EndedType DEF RowState
    <3>4. \A i \in Job : row'[i] = IF i = <<"report", s>> THEN NewRow ELSE
                                   IF i = <<"segment", s>> THEN Ended(row[i], "completed") ELSE row[i]
      BY <1>0, <2>0, <3>1
    <3>5. RowsFollow'
      <4>1. \A t \in Segment : /\ <<"report", t>> # <<"segment", s>> /\ <<"segment", t>> # <<"report", s>>
                               /\ (<<"segment", t>> = <<"segment", s>> => t = s)
                               /\ (<<"report", t>> = <<"report", s>> => t = s)
        OBVIOUS
      <4>2. \A t \in Segment : row'[<<"segment", t>>].state # "none" <=> t \in admitted
        BY <1>0, <3>2, <3>3, <3>4, <4>1, JobParts DEF CatalogOK, RowsFollow
      <4>3. \A t \in Segment : row'[<<"report", t>>].state # "none" <=> t \in normalized'
        BY <1>0, <3>1, <3>4, <4>1, JobParts, NewRowType DEF CatalogOK, RowsFollow
      <4>4. \A i \in Job : row'[i].state = "none" => row'[i] = NoRow
        BY <1>0, <3>3, <3>4, NewRowType DEF CatalogOK, RowsFollow
      <4> QED
        BY <1>0, <2>0, <3>1, <3>2, <4>2, <4>3, <4>4 DEF CatalogOK, RowsFollow
    <3>6. RequestKept'
      <4>1. Owner[s] \notin erased
        BY <1>0, <2>0, <3>2 DEF CatalogOK, ErasedEmpty, SegmentsOf
      <4>2. requested[s] = 0
        <5>1. requested[s] \in Nat
          BY <1>0, <2>0 DEF TypeOK
        <5>2. requested[s] <= 1 /\ requested[s] # 1
          BY <1>0, <2>0, <3>2, <4>1 DEF CatalogOK, RequestKept
        <5> HIDE DEF s
        <5> QED
          BY <5>1, <5>2
      <4> QED
        BY <1>0, <2>0, <3>1, <4>2 DEF CatalogOK, RequestKept, TypeOK
    <3>7. HeadsCurrent' /\ RevisionsInHead' /\ ErasedEmpty' /\ RevisionBacked'
      BY <1>0, <2>0, <3>1 DEF CatalogOK, HeadsCurrent, RevisionsInHead, ErasedEmpty,
         RevisionBacked, Inputs, SegmentsOf, Artifacts
    <3>8. HeadCovers'
      <4> SUFFICES ASSUME NEW t \in normalized', Owner[t] \notin fenced
                   PROVE  \/ t \in head[Owner[t]].inputs
                          \/ row'[<<"report", t>>].state \in {"pending", "processing", "failed"}
        BY <2>0 DEF HeadCovers
      <4>1. CASE t = s
        BY <2>0, <3>4, <4>1, NewRowType
      <4>2. CASE t # s
        <5>1. t \in normalized /\ t \in Segment
          BY <1>0, <3>1, <4>2 DEF TypeOK
        <5>2. <<"report", t>> # <<"report", s>> /\ <<"report", t>> # <<"segment", s>>
          BY <4>2
        <5>3. row'[<<"report", t>>] = row[<<"report", t>>]
          BY <3>4, <5>1, <5>2, JobParts
        <5> QED
          BY <1>0, <5>1, <5>3 DEF CatalogOK, HeadCovers
      <4> QED
        BY <4>1, <4>2
    <3>9. \A v \in Worker \ {w} : Stays(v) /\ Spared(v)
      BY <1>0, <2>0, <3>1, OthersSpared
    <3> QED
      BY <1>0, <2>0, <3>5, <3>6, <3>7, <3>8, <3>9, RestOK, WorkersStep DEF PipelineInv, CatalogOK
  <2> QED
    BY <2>1, <2>2
<1>21. ASSUME NEW w \in Worker, ReportPublish(w) PROVE PipelineInv'
  <2> DEFINE a == AttemptOf(w)
             j == job[w]
             same == {v \in revisions : v.attempt = a /\ v.inputs = inputs[w]}
             new == [attempt |-> a, number |-> NextRevision(a), inputs |-> inputs[w]]
  <2>0. /\ pc[w] = "stored" /\ Publishing(w) /\ Building(w) /\ Rest(w)
        /\ j \in Job /\ a \in Attempt /\ inputs[w] # {}
        /\ row' = [row EXCEPT ![j] = Ended(row[j], "completed")]
        /\ UNCHANGED <<admitted, fenced, erased, normalized, requested, store>>
    BY <1>0, <1>21, JobParts DEF ReportPublish, Publishing, Building, TypeOK, AttemptOf
  <2>1. /\ a \notin fenced /\ head[a].inputs \subseteq inputs[w] /\ inputs[w] \subseteq Inputs(a)
        /\ <<"parquet", inputs[w]>> \in store /\ <<"json", inputs[w]>> \in store
    BY <1>0, <2>0 DEF PublishOK
  <2>2. j = <<"report", j[2]>> /\ j[2] \in Segment /\ j[2] \in inputs[w] /\ a = Owner[j[2]]
    BY <1>0, <2>0, JobParts DEF JobOK, AttemptOf
  <2>3. row[j].state # "none"
    <3>1. j[2] \in normalized
      BY <2>1, <2>2 DEF Inputs
    <3> QED
      BY <1>0, <2>2, <3>1 DEF CatalogOK, RowsFollow
  <2>4. \/ head[a].inputs = inputs[w] /\ UNCHANGED <<revisions, head>>
        \/ /\ revisions' = revisions \cup {new}
           /\ head' = [head EXCEPT ![a] = [number |-> NextRevision(a), inputs |-> inputs[w]]]
    BY <1>0, <1>21, <2>1, NewHead
  <2>5. /\ head'[a].inputs = inputs[w]
        /\ \A b \in Attempt : b # a => head'[b] = head[b]
        /\ \A v \in revisions' : v \in revisions \/ (v.attempt = a /\ v.inputs = inputs[w])
    <3>1. new.attempt = a /\ new.inputs = inputs[w]
      OBVIOUS
    <3>2. head \in [Attempt -> [number: Nat, inputs: SUBSET Segment]]
      BY <1>0 DEF TypeOK
    <3> HIDE DEF a, new
    <3>3. \A v \in revisions' : v \in revisions \/ (v.attempt = a /\ v.inputs = inputs[w])
      <4>1. revisions' = revisions \/ revisions' = revisions \cup {new}
        BY <2>4
      <4> SUFFICES ASSUME NEW v \in revisions', v \notin revisions
                   PROVE  v.attempt = a /\ v.inputs = inputs[w]
        OBVIOUS
      <4>2. v = new
        BY <4>1
      <4> QED
        BY <3>1, <4>2
    <3>4. head'[a].inputs = inputs[w] /\ \A b \in Attempt : b # a => head'[b] = head[b]
      <4>1. CASE head[a].inputs = inputs[w] /\ UNCHANGED <<revisions, head>>
        BY <4>1
      <4>2. CASE head' = [head EXCEPT ![a] = [number |-> NextRevision(a), inputs |-> inputs[w]]]
        <5>1. a \in Attempt
          BY <2>0 DEF a
        <5> QED
          BY <3>2, <4>2, <5>1
      <4> QED
        BY <2>4, <4>1, <4>2
    <3> QED
      BY <3>3, <3>4
  <2>6. Ended(row[j], "completed") \in Row /\ Ended(row[j], "completed").state = "completed"
    BY <1>0, <2>0, EndedType DEF RowState
  <2>7. RowsFollow'
    BY <1>0, <2>0, <2>3, <2>6, RowChange DEF CatalogOK
  <2>8. HeadCovers'
    <3>1. \A b \in Attempt : head[b].inputs \subseteq head'[b].inputs
      BY <2>1, <2>5
    <3>2. j[2] \in head'[Owner[j[2]]].inputs
      BY <2>2, <2>5
    <3> QED
      BY <1>0, <2>0, <2>6, <3>1, <3>2, CoversChange DEF CatalogOK
  <2>9. RequestKept'
    BY <1>0, <2>0 DEF CatalogOK, RequestKept
  <2>10. HeadsCurrent'
    <3>1. \A b \in Attempt : Inputs(b)' = Inputs(b)
      BY <2>0 DEF Inputs, SegmentsOf
    <3> QED
      BY <1>0, <2>1, <2>5, <3>1 DEF CatalogOK, HeadsCurrent
  <2>11. RevisionsInHead'
    <3> SUFFICES ASSUME NEW v \in revisions'
                 PROVE  v.inputs # {} /\ v.inputs \subseteq head'[v.attempt].inputs
      BY DEF RevisionsInHead
    <3>1. CASE v \in revisions
      <4>1. v.attempt \in Attempt
        BY <1>0, <3>1 DEF TypeOK, Revision
      <4> QED
        BY <1>0, <2>1, <2>5, <3>1, <4>1 DEF CatalogOK, RevisionsInHead
    <3>2. CASE v \notin revisions
      BY <2>0, <2>5, <3>2
    <3> QED
      BY <3>1, <3>2
  <2>12. ErasedEmpty'
    <3>1. a \notin erased
      BY <1>0, <2>1 DEF TypeOK
    <3> QED
      BY <1>0, <2>0, <2>5, <3>1 DEF CatalogOK, ErasedEmpty, SegmentsOf, TypeOK
  <2>13. RevisionBacked'
    <3>1. Artifacts(inputs[w]) \subseteq store
      BY <2>1 DEF Artifacts
    <3> SUFFICES ASSUME NEW v \in revisions', v.attempt \notin fenced
                 PROVE  Artifacts(v.inputs) \subseteq store
      BY <2>0 DEF RevisionBacked, Artifacts
    <3> QED
      BY <1>0, <2>5, <3>1 DEF CatalogOK, RevisionBacked
  <2>14. \A v \in Worker \ {w} : Stays(v) /\ Spared(v)
    <3> SUFFICES ASSUME NEW v \in Worker \ {w} PROVE Stays(v) /\ Spared(v)
      OBVIOUS
    <3>1. Stays(v)
      BY <2>0, RestOK DEF Stays
    <3>2. Publishing(v) => AttemptOf(v) # a /\ AttemptOf(v) \in Attempt
      BY <1>0, <2>0, JobParts DEF WorkersOK, OnePublisher, Publishing, TypeOK, AttemptOf
    <3>3. AttemptOf(v)' = AttemptOf(v)
      BY <3>1 DEF Stays, AttemptOf
    <3>4. Inputs(AttemptOf(v)) \subseteq Inputs(AttemptOf(v))'
      BY <2>0, <3>3 DEF Inputs, SegmentsOf
    <3>5. Publishing(v) => AttemptOf(v) \notin fenced
      BY <1>0 DEF PublishOK
    <3> QED
      BY <2>0, <2>5, <3>1, <3>2, <3>4, <3>5 DEF Spared
  <2> QED
    BY <1>0, <2>0, <2>7, <2>8, <2>9, <2>10, <2>11, <2>12, <2>13, <2>14, RestOK, WorkersStep
    DEF PipelineInv, CatalogOK
<1>22. ASSUME NEW k \in Artifact, GcCollect(k) PROVE PipelineInv'
  <2>0. /\ ~ObjectLocked(k) /\ UNCHANGED <<catalogVars, row, pc, job, inputs, outcome>>
        /\ \/ store' = store
           \/ store' = store \ {k} /\ ~Referenced(k)
    BY <1>22 DEF GcCollect, workerVars
  <2>1. RevisionBacked'
    BY <1>0, <2>0 DEF CatalogOK, RevisionBacked, Referenced, Artifacts, catalogVars
  <2>2. CatalogOK'
    BY <1>0, <2>0, <2>1 DEF catalogVars, CatalogOK, RowsFollow, RequestKept, HeadsCurrent,
       RevisionsInHead, ErasedEmpty, HeadCovers, Inputs, SegmentsOf
  <2>3. \A v \in Worker : Publishing(v) => store \cap Artifacts(inputs[v]) \subseteq store'
    BY <2>0 DEF ObjectLocked
  <2>4. \A v \in Worker : Stays(v) /\ Spared(v)
    BY <1>0, <2>0, <2>3 DEF catalogVars, Stays, Spared, PublishOK, Inputs, SegmentsOf, AttemptOf
  <2> QED
    BY <1>0, <2>0, <2>2, <2>4, WorkersStep DEF PipelineInv, catalogVars
<1>23. CASE UNCHANGED vars
  <2>1. \A v \in Worker : Stays(v) /\ Spared(v)
    BY <1>0, <1>23 DEF vars, catalogVars, workerVars, Stays, Spared, PublishOK, Inputs, SegmentsOf,
       AttemptOf
  <2> QED
    BY <1>0, <1>23, <2>1, CatalogFrame, WorkersStep DEF vars, catalogVars, PipelineInv
<1> QED
  BY <1>1, <1>2, <1>3, <1>4, <1>5, <1>8, <1>9, <1>10, <1>11, <1>12, <1>13, <1>14, <1>15, <1>16,
     <1>17, <1>18, <1>19, <1>20, <1>21, <1>22, <1>23
     DEF Next, WorkerStep, SegmentStep, ReportStep

\* Everything above, in every reachable state.
LEMMA PipelineInvariance == Spec => [](Typed /\ PipelineInv)
  BY TypeInit, TypeStep, PipelineInit, PipelineStep, PTL DEF Spec

\* However many workers held a segment's lease, crashed with it or were overtaken,
\* it is normalized once and causes one report request (OutboxWorker.execute).
THEOREM OneEffect == Spec => []ExactlyOnce
<1>1. PipelineInv => ExactlyOnce
  BY DEF PipelineInv, CatalogOK, RequestKept, ExactlyOnce
<1> QED
  BY <1>1, PipelineInvariance, PTL

\* A published revision of an open attempt has both its artifacts in the store:
\* neither the collector nor another attempt's erasure takes one.
THEOREM RevisionsBacked == Spec => []RevisionBacked
<1>1. PipelineInv => RevisionBacked
  BY DEF PipelineInv, CatalogOK
<1> QED
  BY <1>1, PipelineInvariance, PTL

\* A normalized segment of an open attempt is in the head, or its report request is
\* still open or visibly failed.
THEOREM EvidenceCovered == Spec => []HeadCovers
<1>1. PipelineInv => HeadCovers
  BY DEF PipelineInv, CatalogOK
<1> QED
  BY <1>1, PipelineInvariance, PTL

\* After the erasure of an attempt no worker that had read its rows before brings
\* back a projection, a request, a revision or a head.
THEOREM ErasureFinal == Spec => []ErasedForGood
<1>1. Typed /\ PipelineInv => ErasedForGood
  <2> SUFFICES ASSUME Typed, PipelineInv, NEW a \in erased
               PROVE  /\ \A s \in SegmentsOf(a) : s \notin normalized /\ row[<<"report", s>>] = NoRow
                      /\ head[a] = NoHead
                      /\ \A v \in revisions : v.attempt # a
    BY DEF ErasedForGood
  <2>1. head[a] = NoHead /\ SegmentsOf(a) \cap admitted = {} /\ NoHead.inputs = {}
    BY DEF PipelineInv, CatalogOK, ErasedEmpty, NoHead
  <2>2. \A s \in SegmentsOf(a) : s \notin normalized /\ row[<<"report", s>>] = NoRow
    BY <2>1, JobParts DEF PipelineInv, CatalogOK, RowsFollow, SegmentsOf
  <2>3. \A v \in revisions : v.attempt # a
    BY <2>1 DEF PipelineInv, CatalogOK, RevisionsInHead
  <2> QED
    BY <2>1, <2>2, <2>3
<1> QED
  BY <1>1, PipelineInvariance, PTL

\* A head only ever moves to the next revision number with at least the evidence it
\* had, or disappears with its fenced attempt.
THEOREM HeadsAdvance == Spec => HeadAdvances
<1>1. ASSUME Typed, PipelineInv, [Next]_vars PROVE AdvancesHead
  <2> SUFFICES ASSUME NEW a \in Attempt, head'[a] # head[a]
               PROVE  \/ head'[a] = NoHead /\ a \in fenced
                      \/ head'[a].number = head[a].number + 1 /\ head[a].inputs \subseteq head'[a].inputs
    BY DEF AdvancesHead
  <2>0. head \in [Attempt -> [number: Nat, inputs: SUBSET Segment]]
    BY <1>1 DEF Typed, TypeOK
  <2>1. \/ \E b \in Attempt : Erase(b)
        \/ \E w \in Worker : ReportPublish(w)
    BY <1>1, PipelineAssumption DEF Next, WorkerStep, SegmentStep, ReportStep, vars, catalogVars, Admit,
       Fence, EraseObjects, Claim, SegmentRead, SegmentCheck, SegmentWrite, ReportRead,
       ReportUnbuildable, ReportReserve, ReportLeaseCheck, ReportLock, ReportPut, ReportPutFails,
       FailRead,
       WriteOutcome, Crash, GcCollect
  <2>2. ASSUME NEW b \in Attempt, Erase(b) PROVE head'[a] = NoHead /\ a \in fenced
    BY <2>0, <2>2 DEF Erase, Erasable
  <2>3. ASSUME NEW w \in Worker, ReportPublish(w)
        PROVE  head'[a].number = head[a].number + 1 /\ head[a].inputs \subseteq head'[a].inputs
    <3>1. AttemptOf(w) \in Attempt /\ head[AttemptOf(w)].inputs \subseteq inputs[w]
      <4>1. Publishing(w) /\ job[w] \in Job
        BY <1>1, <2>3 DEF ReportPublish, Publishing, Typed, TypeOK
      <4> QED
        BY <1>1, <4>1, JobParts, PipelineAssumption DEF PipelineInv, WorkersOK, PublishOK, AttemptOf
    <3>2. head' = [head EXCEPT ![AttemptOf(w)] = [number |-> NextRevision(AttemptOf(w)),
                                                  inputs |-> inputs[w]]]
      BY <1>1, <2>3, <3>1, NewHead DEF PipelineInv
    <3> QED
      BY <2>0, <3>1, <3>2 DEF NextRevision
  <2> QED
    BY <2>1, <2>2, <2>3
<1> QED
  BY <1>1, PipelineInvariance, PTL DEF Spec, HeadAdvances

=============================================================================
