-------------------------- MODULE SchedulerProofs --------------------------
(***************************************************************************)
(* The safety properties of Scheduler, proved for every pipeline.          *)
(***************************************************************************)
EXTENDS Scheduler, TLAPS

\* What is settled keeps its status in every step: the loop only moves waiting
\* stages, and a goroutine only its own, running one.
LEMMA SettledStays ==
    ASSUME Inv, Next, NEW r \in Stage, Settled(r)
    PROVE  status'[r] = status[r]
<1> USE PipelineAssumption
    DEF Inv, TypeOK, VisitIsLocal, StatusMatchesWorker, Settled, StagesOf
<1>1. ASSUME NEW g \in Graph, LoopStep(g) PROVE status'[r] = status[r]
  BY <1>1 DEF LoopStep, TestDone, PollCancelled, ConditionErrs,
      ConditionNotMet,
     BeginCheckStatus, AtNode, ReadParent, NotReady, Launch, CancelFromLoop,
     RunnerCancelReturns, EndPass, Return
<1>2. ASSUME NEW s \in Stage, WorkerStep(s) PROVE status'[r] = status[r]
  BY <1>2 DEF WorkerStep, EnterPipeline, RunSucceeds, RunFails, RecordError,
     DoneDespiteFailure, WorkerExits
<1> QED BY <1>1, <1>2 DEF Next, UserCancel, Ended, vars

\* A dependency that is done or skipped, or the root node, stays so.
LEMMA OverStays ==
    ASSUME Inv, Next, NEW p \in Stage \cup {Root}, Over(p)
    PROVE  Over(p)'
BY SettledStays DEF Over, Settled

\* The parents of a stage are stages, or the root node.
LEMMA ParentsAreNodes ==
    ASSUME NEW s \in Stage
    PROVE  Parents(s) \subseteq Stage \cup {Root}
BY PipelineAssumption DEF Parents

(***************************************************************************)
(* The conjuncts of Inv that each step keeps by what it does itself.       *)
(***************************************************************************)
LocalInv ==
    /\ TypeOK
    /\ LiveAreCounted
    /\ StatusMatchesWorker
    /\ VisitIsLocal
    /\ NestedWithinRun
    /\ ReturnedAfterWait

\* Each step of Schedule's loop keeps the local conjuncts.
LEMMA LoopStepKeepsLocalInv ==
    ASSUME Inv, NEW g \in Graph, LoopStep(g)
    PROVE  LocalInv'
<1> USE PipelineAssumption DEF LocalInv, Inv, StagesOf
<1>1. ASSUME TestDone(g) PROVE LocalInv'
  <2>1. TypeOK'
    BY <1>1
    DEF TypeOK, VisitIsLocal, Statuses, WorkerStates, LoopStates, TestDone
  <2>2. LiveAreCounted'
    BY <1>1
    DEF TypeOK, LiveAreCounted, VisitIsLocal, Live, TestDone
  <2>3. StatusMatchesWorker'
    BY <1>1
    DEF TypeOK, StatusMatchesWorker, VisitIsLocal, TestDone
  <2>4. VisitIsLocal'
    BY <1>1
    DEF TypeOK, VisitIsLocal, StatusMatchesWorker, Parents, TestDone
  <2>5. NestedWithinRun'
    BY <1>1
    DEF TypeOK, NestedWithinRun, VisitIsLocal, TestDone
  <2>6. ReturnedAfterWait'
    BY <1>1
    DEF TypeOK, ReturnedAfterWait, LiveAreCounted, NestedWithinRun, TestDone
  <2> QED BY <2>1, <2>2, <2>3, <2>4, <2>5, <2>6
<1>2. ASSUME PollCancelled(g) PROVE LocalInv'
  <2>1. TypeOK'
    BY <1>2
    DEF TypeOK, VisitIsLocal, Statuses, WorkerStates, LoopStates, PollCancelled
  <2>2. LiveAreCounted'
    BY <1>2
    DEF TypeOK, LiveAreCounted, VisitIsLocal, Live, PollCancelled
  <2>3. StatusMatchesWorker'
    BY <1>2
    DEF TypeOK, StatusMatchesWorker, VisitIsLocal, PollCancelled
  <2>4. VisitIsLocal'
    BY <1>2
    DEF TypeOK, VisitIsLocal, StatusMatchesWorker, Parents, PollCancelled
  <2>5. NestedWithinRun'
    BY <1>2
    DEF TypeOK, NestedWithinRun, VisitIsLocal, PollCancelled
  <2>6. ReturnedAfterWait'
    BY <1>2
    DEF TypeOK, ReturnedAfterWait, LiveAreCounted, NestedWithinRun,
        PollCancelled
  <2> QED BY <2>1, <2>2, <2>3, <2>4, <2>5, <2>6
<1>3. ASSUME NEW s \in StagesOf(g), ConditionErrs(g, s) PROVE LocalInv'
  <2>1. TypeOK'
    BY <1>3
    DEF TypeOK, VisitIsLocal, Statuses, WorkerStates, LoopStates,
        ConditionErrs, AtNode
  <2>2. LiveAreCounted'
    BY <1>3
    DEF TypeOK, LiveAreCounted, VisitIsLocal, Live, ConditionErrs, AtNode
  <2>3. StatusMatchesWorker'
    BY <1>3
    DEF TypeOK, StatusMatchesWorker, VisitIsLocal, ConditionErrs, AtNode
  <2>4. VisitIsLocal'
    BY <1>3
    DEF TypeOK, VisitIsLocal, StatusMatchesWorker, Parents, ConditionErrs,
        AtNode
  <2>5. NestedWithinRun'
    BY <1>3
    DEF TypeOK, NestedWithinRun, VisitIsLocal, ConditionErrs, AtNode
  <2>6. ReturnedAfterWait'
    BY <1>3
    DEF TypeOK, ReturnedAfterWait, LiveAreCounted, NestedWithinRun,
        ConditionErrs, AtNode
  <2> QED BY <2>1, <2>2, <2>3, <2>4, <2>5, <2>6
<1>4. ASSUME NEW s \in StagesOf(g), ConditionNotMet(g, s) PROVE LocalInv'
  <2>1. TypeOK'
    BY <1>4
    DEF TypeOK, VisitIsLocal, Statuses, WorkerStates, LoopStates,
        ConditionNotMet, AtNode
  <2>2. LiveAreCounted'
    BY <1>4
    DEF TypeOK, LiveAreCounted, VisitIsLocal, Live, ConditionNotMet, AtNode
  <2>3. StatusMatchesWorker'
    BY <1>4
    DEF TypeOK, StatusMatchesWorker, VisitIsLocal, ConditionNotMet, AtNode
  <2>4. VisitIsLocal'
    BY <1>4
    DEF TypeOK, VisitIsLocal, StatusMatchesWorker, Parents, ConditionNotMet,
        AtNode
  <2>5. NestedWithinRun'
    BY <1>4
    DEF TypeOK, NestedWithinRun, VisitIsLocal, ConditionNotMet, AtNode
  <2>6. ReturnedAfterWait'
    BY <1>4
    DEF TypeOK, ReturnedAfterWait, LiveAreCounted, NestedWithinRun,
        ConditionNotMet, AtNode
  <2> QED BY <2>1, <2>2, <2>3, <2>4, <2>5, <2>6
<1>5. ASSUME NEW s \in StagesOf(g), BeginCheckStatus(g, s) PROVE LocalInv'
  <2>1. TypeOK'
    BY <1>5, ParentsAreNodes
    DEF TypeOK, VisitIsLocal, Statuses, WorkerStates, LoopStates,
        BeginCheckStatus, AtNode
  <2>2. LiveAreCounted'
    BY <1>5
    DEF TypeOK, LiveAreCounted, VisitIsLocal, Live, BeginCheckStatus, AtNode
  <2>3. StatusMatchesWorker'
    BY <1>5
    DEF TypeOK, StatusMatchesWorker, VisitIsLocal, BeginCheckStatus, AtNode
  <2>4. VisitIsLocal'
    BY <1>5
    DEF TypeOK, VisitIsLocal, StatusMatchesWorker, Parents, BeginCheckStatus,
        AtNode, WorkerStates
  <2>5. NestedWithinRun'
    BY <1>5
    DEF TypeOK, NestedWithinRun, VisitIsLocal, BeginCheckStatus, AtNode
  <2>6. ReturnedAfterWait'
    BY <1>5
    DEF TypeOK, ReturnedAfterWait, LiveAreCounted, NestedWithinRun,
        BeginCheckStatus, AtNode
  <2> QED BY <2>1, <2>2, <2>3, <2>4, <2>5, <2>6
<1>6. ASSUME NEW p \in unread[g], ReadParent(g, p) PROVE LocalInv'
  <2>1. TypeOK'
    BY <1>6
    DEF TypeOK, VisitIsLocal, Statuses, WorkerStates, LoopStates, ReadParent,
        CancelsChild, MakesReady, ReadStatus
  <2>2. LiveAreCounted'
    BY <1>6
    DEF TypeOK, LiveAreCounted, VisitIsLocal, Live, ReadParent, CancelsChild,
        MakesReady, ReadStatus
  <2>3. StatusMatchesWorker'
    BY <1>6
    DEF TypeOK, StatusMatchesWorker, VisitIsLocal, ReadParent, CancelsChild,
        MakesReady, ReadStatus
  <2>4. VisitIsLocal'
    BY <1>6
    DEF TypeOK, VisitIsLocal, StatusMatchesWorker, Parents, ReadParent,
        CancelsChild, MakesReady, ReadStatus, Over
  <2>5. NestedWithinRun'
    BY <1>6
    DEF TypeOK, NestedWithinRun, VisitIsLocal, ReadParent, CancelsChild,
        MakesReady, ReadStatus
  <2>6. ReturnedAfterWait'
    BY <1>6
    DEF TypeOK, ReturnedAfterWait, LiveAreCounted, NestedWithinRun,
        ReadParent, CancelsChild, MakesReady, ReadStatus
  <2> QED BY <2>1, <2>2, <2>3, <2>4, <2>5, <2>6
<1>7. ASSUME NotReady(g) PROVE LocalInv'
  <2>1. TypeOK'
    BY <1>7
    DEF TypeOK, VisitIsLocal, Statuses, WorkerStates, LoopStates, NotReady,
        LeaveNode
  <2>2. LiveAreCounted'
    BY <1>7
    DEF TypeOK, LiveAreCounted, VisitIsLocal, Live, NotReady, LeaveNode
  <2>3. StatusMatchesWorker'
    BY <1>7
    DEF TypeOK, StatusMatchesWorker, VisitIsLocal, NotReady, LeaveNode
  <2>4. VisitIsLocal'
    BY <1>7
    DEF TypeOK, VisitIsLocal, StatusMatchesWorker, Parents, NotReady, LeaveNode
  <2>5. NestedWithinRun'
    BY <1>7
    DEF TypeOK, NestedWithinRun, VisitIsLocal, NotReady, LeaveNode
  <2>6. ReturnedAfterWait'
    BY <1>7
    DEF TypeOK, ReturnedAfterWait, LiveAreCounted, NestedWithinRun, NotReady,
        LeaveNode
  <2> QED BY <2>1, <2>2, <2>3, <2>4, <2>5, <2>6
<1>8. ASSUME Launch(g) PROVE LocalInv'
  <2>1. TypeOK'
    BY <1>8
    DEF TypeOK, VisitIsLocal, Statuses, WorkerStates, LoopStates, Launch,
        LeaveNode, WgAdd
  <2>2. LiveAreCounted'
    BY <1>8
    DEF TypeOK, LiveAreCounted, VisitIsLocal, Live, Launch, LeaveNode, WgAdd
  <2>3. StatusMatchesWorker'
    BY <1>8
    DEF TypeOK, StatusMatchesWorker, VisitIsLocal, Launch, LeaveNode, WgAdd
  <2>4. VisitIsLocal'
    BY <1>8
    DEF TypeOK, VisitIsLocal, StatusMatchesWorker, Parents, Launch, LeaveNode,
        WgAdd
  <2>5. NestedWithinRun'
    BY <1>8
    DEF TypeOK, NestedWithinRun, VisitIsLocal, Launch, LeaveNode, WgAdd
  <2>6. ReturnedAfterWait'
    BY <1>8
    DEF TypeOK, ReturnedAfterWait, LiveAreCounted, NestedWithinRun, Launch,
        LeaveNode, WgAdd
  <2> QED BY <2>1, <2>2, <2>3, <2>4, <2>5, <2>6
<1>9. ASSUME CancelFromLoop(g) PROVE LocalInv'
  <2>1. TypeOK'
    BY <1>9
    DEF TypeOK, VisitIsLocal, Statuses, WorkerStates, LoopStates,
        CancelFromLoop
  <2>2. LiveAreCounted'
    BY <1>9
    DEF TypeOK, LiveAreCounted, VisitIsLocal, Live, CancelFromLoop
  <2>3. StatusMatchesWorker'
    BY <1>9
    DEF TypeOK, StatusMatchesWorker, VisitIsLocal, CancelFromLoop
  <2>4. VisitIsLocal'
    BY <1>9
    DEF TypeOK, VisitIsLocal, StatusMatchesWorker, Parents, CancelFromLoop
  <2>5. NestedWithinRun'
    BY <1>9
    DEF TypeOK, NestedWithinRun, VisitIsLocal, CancelFromLoop
  <2>6. ReturnedAfterWait'
    BY <1>9
    DEF TypeOK, ReturnedAfterWait, LiveAreCounted, NestedWithinRun,
        CancelFromLoop
  <2> QED BY <2>1, <2>2, <2>3, <2>4, <2>5, <2>6
<1>10. ASSUME RunnerCancelReturns(g) PROVE LocalInv'
  <2>1. TypeOK'
    BY <1>10
    DEF TypeOK, VisitIsLocal, Statuses, WorkerStates, LoopStates,
        RunnerCancelReturns
  <2>2. LiveAreCounted'
    BY <1>10
    DEF TypeOK, LiveAreCounted, VisitIsLocal, Live, RunnerCancelReturns
  <2>3. StatusMatchesWorker'
    BY <1>10
    DEF TypeOK, StatusMatchesWorker, VisitIsLocal, RunnerCancelReturns
  <2>4. VisitIsLocal'
    BY <1>10
    DEF TypeOK, VisitIsLocal, StatusMatchesWorker, Parents, RunnerCancelReturns
  <2>5. NestedWithinRun'
    BY <1>10
    DEF TypeOK, NestedWithinRun, VisitIsLocal, RunnerCancelReturns
  <2>6. ReturnedAfterWait'
    BY <1>10
    DEF TypeOK, ReturnedAfterWait, LiveAreCounted, NestedWithinRun,
        RunnerCancelReturns
  <2> QED BY <2>1, <2>2, <2>3, <2>4, <2>5, <2>6
<1>11. ASSUME EndPass(g) PROVE LocalInv'
  <2>1. TypeOK'
    BY <1>11
    DEF TypeOK, VisitIsLocal, Statuses, WorkerStates, LoopStates, EndPass
  <2>2. LiveAreCounted'
    BY <1>11
    DEF TypeOK, LiveAreCounted, VisitIsLocal, Live, EndPass
  <2>3. StatusMatchesWorker'
    BY <1>11
    DEF TypeOK, StatusMatchesWorker, VisitIsLocal, EndPass
  <2>4. VisitIsLocal'
    BY <1>11
    DEF TypeOK, VisitIsLocal, StatusMatchesWorker, Parents, EndPass
  <2>5. NestedWithinRun'
    BY <1>11
    DEF TypeOK, NestedWithinRun, VisitIsLocal, EndPass
  <2>6. ReturnedAfterWait'
    BY <1>11
    DEF TypeOK, ReturnedAfterWait, LiveAreCounted, NestedWithinRun, EndPass
  <2> QED BY <2>1, <2>2, <2>3, <2>4, <2>5, <2>6
<1>12. ASSUME Return(g) PROVE LocalInv'
  <2>1. TypeOK'
    BY <1>12
    DEF TypeOK, VisitIsLocal, Statuses, WorkerStates, LoopStates, Return
  <2>2. LiveAreCounted'
    BY <1>12
    DEF TypeOK, LiveAreCounted, VisitIsLocal, Live, Return
  <2>3. StatusMatchesWorker'
    BY <1>12
    DEF TypeOK, StatusMatchesWorker, VisitIsLocal, Return
  <2>4. VisitIsLocal'
    BY <1>12
    DEF TypeOK, VisitIsLocal, StatusMatchesWorker, Parents, Return
  <2>5. NestedWithinRun'
    BY <1>12
    DEF TypeOK, NestedWithinRun, VisitIsLocal, Return
  <2>6. ReturnedAfterWait'
    BY <1>12
    DEF TypeOK, ReturnedAfterWait, LiveAreCounted, NestedWithinRun, Return
  <2> QED BY <2>1, <2>2, <2>3, <2>4, <2>5, <2>6
<1> QED BY <1>1, <1>2, <1>3, <1>4, <1>5, <1>6, <1>7, <1>8, <1>9, <1>10, <1>11,
    <1>12 DEF LoopStep

\* Each step of a stage's goroutine keeps the local conjuncts.
LEMMA WorkerStepKeepsLocalInv ==
    ASSUME Inv, NEW s \in Stage, WorkerStep(s)
    PROVE  LocalInv'
<1> USE PipelineAssumption DEF LocalInv, Inv, StagesOf
<1>1. ASSUME EnterPipeline(s) PROVE LocalInv'
  <2>1. TypeOK'
    BY <1>1
    DEF TypeOK, VisitIsLocal, Statuses, WorkerStates, LoopStates, EnterPipeline
  <2>2. LiveAreCounted'
    BY <1>1
    DEF TypeOK, LiveAreCounted, VisitIsLocal, Live, EnterPipeline
  <2>3. StatusMatchesWorker'
    BY <1>1
    DEF TypeOK, StatusMatchesWorker, VisitIsLocal, EnterPipeline
  <2>4. VisitIsLocal'
    BY <1>1
    DEF TypeOK, VisitIsLocal, StatusMatchesWorker, Parents, EnterPipeline
  <2>5. NestedWithinRun'
    BY <1>1
    DEF TypeOK, NestedWithinRun, VisitIsLocal, EnterPipeline
  <2>6. ReturnedAfterWait'
    BY <1>1
    DEF TypeOK, ReturnedAfterWait, LiveAreCounted, NestedWithinRun,
        EnterPipeline
  <2> QED BY <2>1, <2>2, <2>3, <2>4, <2>5, <2>6
<1>2. ASSUME RunSucceeds(s) PROVE LocalInv'
  <2>1. TypeOK'
    BY <1>2
    DEF TypeOK, VisitIsLocal, Statuses, WorkerStates, LoopStates, RunSucceeds,
        CanSucceed
  <2>2. LiveAreCounted'
    BY <1>2
    DEF TypeOK, LiveAreCounted, VisitIsLocal, Live, RunSucceeds, CanSucceed
  <2>3. StatusMatchesWorker'
    BY <1>2
    DEF TypeOK, StatusMatchesWorker, VisitIsLocal, RunSucceeds, CanSucceed
  <2>4. VisitIsLocal'
    BY <1>2
    DEF TypeOK, VisitIsLocal, StatusMatchesWorker, Parents, RunSucceeds,
        CanSucceed
  <2>5. NestedWithinRun'
    BY <1>2
    DEF TypeOK, NestedWithinRun, VisitIsLocal, RunSucceeds, CanSucceed
  <2>6. ReturnedAfterWait'
    BY <1>2
    DEF TypeOK, ReturnedAfterWait, LiveAreCounted, NestedWithinRun,
        RunSucceeds, CanSucceed
  <2> QED BY <2>1, <2>2, <2>3, <2>4, <2>5, <2>6
<1>3. ASSUME RunFails(s) PROVE LocalInv'
  <2>1. TypeOK'
    BY <1>3
    DEF TypeOK, VisitIsLocal, Statuses, WorkerStates, LoopStates, RunFails,
        CanFail
  <2>2. LiveAreCounted'
    BY <1>3
    DEF TypeOK, LiveAreCounted, VisitIsLocal, Live, RunFails, CanFail
  <2>3. StatusMatchesWorker'
    BY <1>3
    DEF TypeOK, StatusMatchesWorker, VisitIsLocal, RunFails, CanFail
  <2>4. VisitIsLocal'
    BY <1>3
    DEF TypeOK, VisitIsLocal, StatusMatchesWorker, Parents, RunFails, CanFail
  <2>5. NestedWithinRun'
    BY <1>3
    DEF TypeOK, NestedWithinRun, VisitIsLocal, RunFails, CanFail
  <2>6. ReturnedAfterWait'
    BY <1>3
    DEF TypeOK, ReturnedAfterWait, LiveAreCounted, NestedWithinRun, RunFails,
        CanFail
  <2> QED BY <2>1, <2>2, <2>3, <2>4, <2>5, <2>6
<1>4. ASSUME RecordError(s) PROVE LocalInv'
  <2>1. TypeOK'
    BY <1>4
    DEF TypeOK, VisitIsLocal, Statuses, WorkerStates, LoopStates, RecordError,
        WithStageError
  <2>2. LiveAreCounted'
    BY <1>4
    DEF TypeOK, LiveAreCounted, VisitIsLocal, Live, RecordError, WithStageError
  <2>3. StatusMatchesWorker'
    BY <1>4
    DEF TypeOK, StatusMatchesWorker, VisitIsLocal, RecordError, WithStageError
  <2>4. VisitIsLocal'
    BY <1>4
    DEF TypeOK, VisitIsLocal, StatusMatchesWorker, Parents, RecordError,
        WithStageError
  <2>5. NestedWithinRun'
    BY <1>4
    DEF TypeOK, NestedWithinRun, VisitIsLocal, RecordError, WithStageError
  <2>6. ReturnedAfterWait'
    BY <1>4
    DEF TypeOK, ReturnedAfterWait, LiveAreCounted, NestedWithinRun,
        RecordError, WithStageError
  <2> QED BY <2>1, <2>2, <2>3, <2>4, <2>5, <2>6
<1>5. ASSUME DoneDespiteFailure(s) PROVE LocalInv'
  <2>1. TypeOK'
    BY <1>5
    DEF TypeOK, VisitIsLocal, Statuses, WorkerStates, LoopStates,
        DoneDespiteFailure
  <2>2. LiveAreCounted'
    BY <1>5
    DEF TypeOK, LiveAreCounted, VisitIsLocal, Live, DoneDespiteFailure
  <2>3. StatusMatchesWorker'
    BY <1>5
    DEF TypeOK, StatusMatchesWorker, VisitIsLocal, DoneDespiteFailure
  <2>4. VisitIsLocal'
    BY <1>5
    DEF TypeOK, VisitIsLocal, StatusMatchesWorker, Parents, DoneDespiteFailure
  <2>5. NestedWithinRun'
    BY <1>5
    DEF TypeOK, NestedWithinRun, VisitIsLocal, DoneDespiteFailure
  <2>6. ReturnedAfterWait'
    BY <1>5
    DEF TypeOK, ReturnedAfterWait, LiveAreCounted, NestedWithinRun,
        DoneDespiteFailure
  <2> QED BY <2>1, <2>2, <2>3, <2>4, <2>5, <2>6
<1>6. ASSUME WorkerExits(s) PROVE LocalInv'
  <2>1. TypeOK'
    BY <1>6
    DEF TypeOK, VisitIsLocal, Statuses, WorkerStates, LoopStates, WorkerExits,
        WgDone
  <2>2. LiveAreCounted'
    BY <1>6
    DEF TypeOK, LiveAreCounted, VisitIsLocal, Live, WorkerExits, WgDone
  <2>3. StatusMatchesWorker'
    BY <1>6
    DEF TypeOK, StatusMatchesWorker, VisitIsLocal, WorkerExits, WgDone
  <2>4. VisitIsLocal'
    BY <1>6
    DEF TypeOK, VisitIsLocal, StatusMatchesWorker, Parents, WorkerExits, WgDone
  <2>5. NestedWithinRun'
    BY <1>6
    DEF TypeOK, NestedWithinRun, VisitIsLocal, WorkerExits, WgDone
  <2>6. ReturnedAfterWait'
    BY <1>6
    DEF TypeOK, ReturnedAfterWait, LiveAreCounted, NestedWithinRun,
        WorkerExits, WgDone
  <2> QED BY <2>1, <2>2, <2>3, <2>4, <2>5, <2>6
<1> QED BY <1>1, <1>2, <1>3, <1>4, <1>5, <1>6 DEF WorkerStep

\* Every step keeps the local conjuncts.
LEMMA NextKeepsLocalInv ==
    ASSUME Inv, Next
    PROVE  LocalInv'
<1>1. CASE UserCancel
  BY <1>1 DEF UserCancel, LocalInv, Inv, TypeOK, LiveAreCounted, Live,
     StatusMatchesWorker, VisitIsLocal, NestedWithinRun, ReturnedAfterWait
<1>2. CASE Ended
  BY <1>2 DEF Ended, vars, LocalInv, Inv, TypeOK, LiveAreCounted, Live,
     StatusMatchesWorker, VisitIsLocal, NestedWithinRun, ReturnedAfterWait
<1> QED BY <1>1, <1>2, LoopStepKeepsLocalInv, WorkerStepKeepsLocalInv DEF Next

(***************************************************************************)
(* The conjuncts that hold because what is over stays over.                *)
(***************************************************************************)
\* checkStatus becomes ready by reading a parent that is over, which stays over
\* while the other parents are read.
LEMMA NextKeepsReadyForCause ==
    ASSUME Inv, Next
    PROVE  ReadyForCause'
<1> SUFFICES ASSUME NEW g \in Graph, ready'[g]
             PROVE  \E p \in Parents(visiting'[g]) : Over(p)'
  BY DEF ReadyForCause
<1> USE PipelineAssumption DEF Inv
<1>1. ready[g] => visiting[g] \in Stage
  BY DEF TypeOK, VisitIsLocal, StagesOf
<1>2. CASE ready[g] /\ visiting'[g] = visiting[g]
  <2>1. PICK p \in Parents(visiting[g]) : Over(p)
    BY <1>2 DEF ReadyForCause
  <2>2. p \in Stage \cup {Root}
    BY <1>1, <1>2, ParentsAreNodes
  <2> QED BY <1>2, <2>1, <2>2, OverStays
<1>3. CASE \E p \in unread[g] : ReadParent(g, p) /\ MakesReady(ReadStatus(p))
  <2>1. PICK p \in unread[g] : ReadParent(g, p) /\ MakesReady(ReadStatus(p))
    BY <1>3
  <2>2. p \in Parents(visiting[g]) /\ visiting[g] \in Stage
    BY <2>1 DEF ReadParent, VisitIsLocal, StagesOf
  <2>3. Over(p)
    BY <2>1 DEF Over, MakesReady, ReadStatus
  <2>4. p \in Stage \cup {Root}
    BY <2>2, ParentsAreNodes
  <2>5. visiting' = visiting
    BY <2>1 DEF ReadParent
  <2> QED BY <2>2, <2>3, <2>4, <2>5, OverStays
<1>4. ASSUME NEW h \in Graph, LoopStep(h)
      PROVE  \/ ready[g] /\ visiting'[g] = visiting[g]
             \/ \E p \in unread[g] : ReadParent(g, p) /\
                 MakesReady(ReadStatus(p))
  <2>1. ASSUME NEW p \in unread[h], ReadParent(h, p)
        PROVE  \/ ready[g] /\ visiting'[g] = visiting[g]
               \/ \E q \in unread[g] : ReadParent(g, q) /\
                   MakesReady(ReadStatus(q))
    BY <2>1 DEF ReadParent, TypeOK
  <2>2. ASSUME NEW s \in StagesOf(h), BeginCheckStatus(h, s)
        PROVE  ready[g] /\ visiting'[g] = visiting[g]
    BY <2>2 DEF BeginCheckStatus, AtNode, TypeOK, VisitIsLocal
  <2>3. ASSUME NotReady(h) \/ Launch(h)
        PROVE  ready[g] /\ visiting'[g] = visiting[g]
    BY <2>3 DEF NotReady, Launch, LeaveNode, TypeOK
  <2> QED BY <1>4, <2>1, <2>2, <2>3 DEF LoopStep, TestDone, PollCancelled,
             ConditionErrs, ConditionNotMet, CancelFromLoop,
             RunnerCancelReturns, EndPass, Return
<1>5. ASSUME NEW s \in Stage, WorkerStep(s)
      PROVE  ready[g] /\ visiting'[g] = visiting[g]
  BY <1>5 DEF WorkerStep, EnterPipeline, RunSucceeds, RunFails, RecordError,
     DoneDespiteFailure, WorkerExits
<1> QED BY <1>2, <1>3, <1>4, <1>5 DEF Next, UserCancel, Ended, vars

\* A stage is launched only when checkStatus was ready.
LEMMA NextKeepsStarted ==
    ASSUME Inv, Next
    PROVE  StartedBehindAParent'
<1> SUFFICES ASSUME NEW s \in Stage, worker'[s] # "none"
             PROVE  \E p \in Parents(s) : Over(p)'
  BY DEF StartedBehindAParent
<1> USE DEF Inv
<1>1. worker[s] # "none" \/ \E g \in Graph : ready[g] /\ visiting[g] = s
  <2>1. ASSUME NEW g \in Graph, LoopStep(g)
        PROVE  \/ worker'[s] = worker[s]
               \/ ready[g] /\ visiting[g] = s
    <3>1. CASE Launch(g)
      <4>1. worker' = [worker EXCEPT ![visiting[g]] = "running"] /\ ready[g]
        BY <3>1 DEF Launch
      <4>2. visiting[g] # s => worker'[s] = worker[s]
        BY <4>1 DEF TypeOK
      <4> QED BY <4>1, <4>2
    <3> QED BY <2>1, <3>1 DEF LoopStep, TestDone, PollCancelled,
               ConditionErrs, ConditionNotMet, BeginCheckStatus, ReadParent,
               NotReady, CancelFromLoop, RunnerCancelReturns, EndPass, Return
  <2>2. ASSUME NEW r \in Stage, WorkerStep(r)
        PROVE  worker'[s] = worker[s] \/ worker[s] # "none"
    BY <2>2 DEF WorkerStep, EnterPipeline, RunSucceeds, RunFails, RecordError,
       DoneDespiteFailure, WorkerExits, TypeOK
  <2> QED BY <2>1, <2>2 DEF Next, UserCancel, Ended, vars
<1>2. PICK p \in Parents(s) : Over(p)
  BY <1>1 DEF StartedBehindAParent, ReadyForCause
<1> QED BY <1>2, ParentsAreNodes, OverStays

\* What canceled a stage stays a reason: it is settled, and it is not visited
\* again.
LEMMA CulpritStays ==
    ASSUME Inv, Next, NEW p \in Stage, Culprit(p)
    PROVE  Culprit(p)'
<1> USE PipelineAssumption DEF Inv, TypeOK
<1>1. status'[p] = status[p]
  BY SettledStays DEF Settled, Culprit
<1>2. CASE status[p] = "canceled"
  <2>1. visiting'[GraphOf[p]] # p
    <3>1. ASSUME NEW g \in Graph, LoopStep(g) PROVE visiting'[GraphOf[p]] # p
      BY <1>2, <3>1 DEF Culprit, LoopStep, TestDone, PollCancelled,
         ConditionErrs, ConditionNotMet, BeginCheckStatus, AtNode, ReadParent,
         NotReady, Launch, LeaveNode, CancelFromLoop, RunnerCancelReturns,
         EndPass, Return
    <3>2. ASSUME NEW s \in Stage, WorkerStep(s) PROVE visiting'[GraphOf[p]] # p
      BY <1>2, <3>2 DEF Culprit, WorkerStep, EnterPipeline, RunSucceeds,
         RunFails, RecordError, DoneDespiteFailure, WorkerExits
    <3> QED BY <1>2, <3>1, <3>2 DEF Next, UserCancel, Ended, vars, Culprit
  <2> QED BY <1>1, <1>2, <2>1 DEF Culprit
<1> QED BY <1>1, <1>2 DEF Culprit

\* checkStatus cancels a stage only on reading a parent that is a culprit; the
\* parent is another stage, hence not the one being visited.
LEMMA NextKeepsCulprit ==
    ASSUME Inv, Next
    PROVE  CulpritIsSettled'
<1> USE PipelineAssumption DEF Inv
<1> SUFFICES ASSUME NEW s \in Stage, status'[s] = "canceled"
             PROVE  \E p \in DependsOn[s] : Culprit(p)
  BY CulpritStays DEF CulpritIsSettled
<1>1. CASE status[s] = "canceled"
  BY <1>1 DEF CulpritIsSettled
<1>2. CASE status[s] # "canceled"
  <2>0. PICK g \in Graph : \E p \in unread[g] : /\ ReadParent(g, p)
                                               /\ visiting[g] = s
                                               /\ CancelsChild(p,
                                                   ReadStatus(p))
    <3>1. ASSUME NEW g \in Graph, LoopStep(g)
          PROVE  \E p \in unread[g] : /\ ReadParent(g, p)
                                      /\ visiting[g] = s
                                      /\ CancelsChild(p, ReadStatus(p))
      <4>1. CASE \E p \in unread[g] : ReadParent(g, p)
        BY <1>2, <4>1 DEF ReadParent, TypeOK
      <4> QED BY <1>2, <3>1, <4>1 DEF TypeOK, LoopStep, TestDone,
                 PollCancelled, ConditionErrs, ConditionNotMet,
                 BeginCheckStatus, NotReady, Launch, CancelFromLoop,
                 RunnerCancelReturns, EndPass, Return
    <3>2. ASSUME NEW r \in Stage, WorkerStep(r) PROVE FALSE
      BY <1>2, <3>2 DEF TypeOK, WorkerStep, EnterPipeline, RunSucceeds,
         RunFails, RecordError, DoneDespiteFailure, WorkerExits
    <3> QED BY <1>2, <3>1, <3>2 DEF Next, UserCancel, Ended, vars
  <2>1. PICK p \in unread[g] : /\ ReadParent(g, p)
                               /\ visiting[g] = s
                               /\ CancelsChild(p, ReadStatus(p))
    BY <2>0
  <2>2. g = GraphOf[s] /\ p \in Parents(s)
    BY <2>1 DEF ReadParent, VisitIsLocal, StagesOf
  <2>3. p \in DependsOn[s]
    BY <2>1, <2>2 DEF Parents, CancelsChild, ReadStatus
  <2>4. p # s
    BY <2>3, AcyclicAssumption, {s} \in SUBSET Stage
  <2>5. p \in Stage /\ GraphOf[p] = g
    BY <2>2, <2>3
  <2> QED BY <2>1, <2>3, <2>4, <2>5 DEF Culprit, CancelsChild, ReadStatus
<1> QED BY <1>1, <1>2

(***************************************************************************)
(* The invariant, and what follows from it.                                *)
(***************************************************************************)
\* The invariant holds initially.
LEMMA InitHasInv == Init => Inv
<1> SUFFICES ASSUME Init PROVE Inv
  OBVIOUS
<1> USE PipelineAssumption DEF Init
<1>1. TypeOK
  BY DEF TypeOK, Statuses, WorkerStates, LoopStates
<1>2. LiveAreCounted /\ StatusMatchesWorker
  BY DEF LiveAreCounted, Live, StatusMatchesWorker, StagesOf
<1>3. VisitIsLocal /\ ReturnedAfterWait
  BY DEF VisitIsLocal, ReturnedAfterWait
<1>4. NestedWithinRun
  BY DEF NestedWithinRun
<1>5. ReadyForCause /\ StartedBehindAParent /\ CulpritIsSettled
  BY DEF ReadyForCause, StartedBehindAParent, CulpritIsSettled
<1> QED BY <1>1, <1>2, <1>3, <1>4, <1>5 DEF Inv

\* The invariant is inductive.
LEMMA NextKeepsInv == Inv /\ [Next]_vars => Inv'
<1>1. CASE Inv /\ Next
  BY <1>1, NextKeepsLocalInv, NextKeepsReadyForCause, NextKeepsStarted,
     NextKeepsCulprit DEF Inv, LocalInv
<1>2. CASE Inv /\ UNCHANGED vars
  BY <1>2 DEF vars, Inv, TypeOK, LiveAreCounted, Live, StatusMatchesWorker,
     VisitIsLocal, NestedWithinRun, ReturnedAfterWait, ReadyForCause,
     StartedBehindAParent, CulpritIsSettled, Culprit, Over
<1> QED BY <1>1, <1>2

\* Inv holds of every reachable state of every pipeline.
THEOREM SpecKeepsInv == Spec => []Inv
BY InitHasInv, NextKeepsInv, PTL DEF Spec

\* Types, for every pipeline.
THEOREM TypeCorrect == Spec => []TypeOK
BY SpecKeepsInv, PTL DEF Inv

\* When Schedule returns no goroutine below it is left: by LiveAreCounted an
\* empty WaitGroup means that none lives, and by NestedWithinRun that no
\* nested call is under way.
THEOREM ReturnsQuiet == Spec => []ReturnIsQuiet
<1>1. Inv => ReturnIsQuiet
  BY PipelineAssumption
     DEF Inv, ReturnIsQuiet, ReturnedAfterWait, LiveAreCounted, Live,
         NestedWithinRun, StagesOf
<1> QED BY <1>1, SpecKeepsInv, PTL

\* No stage is started without a dependency that is over.
THEOREM StartsBehindAParent == Spec => []StartedBehindAParent
BY SpecKeepsInv, PTL DEF Inv

\* No stage is canceled without a failed or canceled dependency.
THEOREM CancelsForCause == Spec => []CanceledHasCulprit
<1>1. Inv => CanceledHasCulprit
  <2> SUFFICES ASSUME Inv, NEW s \in Stage, status[s] = "canceled"
               PROVE  /\ worker[s] = "none"
                      /\ \E p \in DependsOn[s] :
                            \/ status[p] = "canceled"
                            \/ status[p] = "error" /\ p \notin AllowFailure
    BY DEF CanceledHasCulprit
  <2>1. worker[s] = "none"
    BY DEF Inv, StatusMatchesWorker, TypeOK, WorkerStates
  <2> QED BY <2>1 DEF Inv, CulpritIsSettled, Culprit
<1> QED BY <1>1, SpecKeepsInv, PTL

\* What is settled stays settled.
THEOREM SettlesForGood == Spec => SettledForGood
<1>1. Inv /\ [Next]_vars
        => [\A s \in Stage : Settled(s) => status'[s] = status[s]]_vars
  BY SettledStays DEF vars
<1> QED BY <1>1, SpecKeepsInv, PTL DEF Spec, SettledForGood

\* A loop that is between two passes when the execution is canceled stays there.
LEMMA StopStays ==
    ASSUME NEW g \in Graph, Inv, [Next]_vars, cancelled, BetweenPasses(g)
    PROVE  cancelled' /\ BetweenPasses(g)'
<1>1. CASE \E h \in Graph : LoopStep(h)
  <2>1. PICK h \in Graph : LoopStep(h)
    BY <1>1
  <2>2. cancelled'
    BY <2>1 DEF LoopStep, TestDone, PollCancelled, ConditionErrs, ConditionNotMet,
       BeginCheckStatus, ReadParent, NotReady, Launch, CancelFromLoop, RunnerCancelReturns,
       EndPass, Return
  <2>3. CASE h = g
    BY <2>1, <2>3
       DEF Inv, TypeOK, BetweenPasses, LoopStep, TestDone, PollCancelled, AtNode, ConditionErrs,
       ConditionNotMet, BeginCheckStatus, ReadParent, NotReady, Launch, CancelFromLoop,
       RunnerCancelReturns, EndPass, Return, LeaveNode
  <2>4. CASE h # g
    <3>1. loop'[g] = loop[g]
      BY <2>1, <2>4
         DEF Inv, TypeOK, LoopStep, TestDone, PollCancelled, ConditionErrs, ConditionNotMet,
         BeginCheckStatus, ReadParent, NotReady, Launch, CancelFromLoop, RunnerCancelReturns,
         EndPass, Return, LeaveNode
    <3> QED BY <2>2, <3>1 DEF BetweenPasses
  <2> QED BY <2>2, <2>3, <2>4
<1>2. CASE \E s \in Stage : WorkerStep(s)
  BY <1>2 DEF Inv, TypeOK, BetweenPasses, WorkerStep, EnterPipeline, RunSucceeds, RunFails,
     RecordError, DoneDespiteFailure, WorkerExits
<1>3. CASE ~(\E h \in Graph : LoopStep(h)) /\ ~(\E s \in Stage : WorkerStep(s))
  BY <1>3 DEF Next, UserCancel, Ended, vars, BetweenPasses
<1> QED BY <1>1, <1>2, <1>3

\* CancelStopsPasses: after a cancel such a loop starts no pass any more, and no
\* stage of its graph is launched.
THEOREM CancelIsFinal == Spec => CancelStopsPasses
<1> SUFFICES ASSUME NEW g \in Graph
             PROVE  Spec => [](cancelled /\ BetweenPasses(g) => []BetweenPasses(g))
  BY DEF CancelStopsPasses
<1> DEFINE Stopped == cancelled /\ BetweenPasses(g)
<1>1. Inv /\ Stopped /\ [Next]_vars => Stopped'
  BY StopStays
<1>2. Stopped => BetweenPasses(g)
  OBVIOUS
<1> HIDE DEF Stopped
<1>3. Spec => [](Stopped => []BetweenPasses(g))
  BY <1>1, <1>2, SpecKeepsInv, PTL DEF Spec
<1> QED BY <1>3 DEF Stopped
=============================================================================
