--------------------------- MODULE ExecutionProofs ---------------------------
(***************************************************************************)
(* What Schedule answers is right, the scheduler does nothing but execute   *)
(* the pipeline as PipelineExecution describes it, and the call on Top is  *)
(* the last to return: proved for every pipeline.                          *)
(***************************************************************************)
EXTENDS SchedulerProofs

\* Each step of Schedule's loop keeps what the answers rest on.
LEMMA LoopStepKeepsVerdictInv ==
    ASSUME Inv, VerdictInv, NEW g \in Graph, LoopStep(g)
    PROVE  VerdictInv'
<1> USE PipelineAssumption DEF Inv, VerdictInv, StagesOf
<1>1. ASSUME TestDone(g) PROVE VerdictInv'
  <2>1. EndsForCause'
    BY <1>1 DEF TypeOK, VisitIsLocal, EndsForCause, StatusMatchesWorker,
       TestDone, IsDone
  <2>2. FailedAreRecorded'
    BY <1>1 DEF TypeOK, VisitIsLocal, FailedAreRecorded, StatusMatchesWorker,
       TestDone, IsDone
  <2>3. ConditionErrorCancels'
    BY <1>1 DEF TypeOK, VisitIsLocal, ConditionErrorCancels,
       StatusMatchesWorker, TestDone, IsDone
  <2>4. DoneWithoutNestedErrors'
    BY <1>1 DEF TypeOK, VisitIsLocal, DoneWithoutNestedErrors,
       StatusMatchesWorker, NestedWithinRun, LiveAreCounted,
       ReturnedAfterWait, Live, TestDone, IsDone
  <2> QED BY <2>1, <2>2, <2>3, <2>4
<1>2. ASSUME PollCancelled(g) PROVE VerdictInv'
  <2>1. EndsForCause'
    BY <1>2 DEF TypeOK, VisitIsLocal, EndsForCause, StatusMatchesWorker,
       PollCancelled
  <2>2. FailedAreRecorded'
    BY <1>2 DEF TypeOK, VisitIsLocal, FailedAreRecorded, StatusMatchesWorker,
       PollCancelled
  <2>3. ConditionErrorCancels'
    BY <1>2 DEF TypeOK, VisitIsLocal, ConditionErrorCancels,
       StatusMatchesWorker, PollCancelled
  <2>4. DoneWithoutNestedErrors'
    BY <1>2 DEF TypeOK, VisitIsLocal, DoneWithoutNestedErrors,
       StatusMatchesWorker, NestedWithinRun, LiveAreCounted,
       ReturnedAfterWait, Live, PollCancelled
  <2> QED BY <2>1, <2>2, <2>3, <2>4
<1>3. ASSUME NEW s \in StagesOf(g), ConditionErrs(g, s) PROVE VerdictInv'
  <2>1. EndsForCause'
    BY <1>3 DEF TypeOK, VisitIsLocal, EndsForCause, StatusMatchesWorker,
       ConditionErrs, AtNode
  <2>2. FailedAreRecorded'
    BY <1>3 DEF TypeOK, VisitIsLocal, FailedAreRecorded, StatusMatchesWorker,
       ConditionErrs, AtNode
  <2>3. ConditionErrorCancels'
    BY <1>3 DEF TypeOK, VisitIsLocal, ConditionErrorCancels,
       StatusMatchesWorker, ConditionErrs, AtNode
  <2>4. DoneWithoutNestedErrors'
    BY <1>3 DEF TypeOK, VisitIsLocal, DoneWithoutNestedErrors,
       StatusMatchesWorker, NestedWithinRun, LiveAreCounted,
       ReturnedAfterWait, Live, ConditionErrs, AtNode
  <2> QED BY <2>1, <2>2, <2>3, <2>4
<1>4. ASSUME NEW s \in StagesOf(g), ConditionNotMet(g, s) PROVE VerdictInv'
  <2>1. EndsForCause'
    BY <1>4 DEF TypeOK, VisitIsLocal, EndsForCause, StatusMatchesWorker,
       ConditionNotMet, AtNode
  <2>2. FailedAreRecorded'
    BY <1>4 DEF TypeOK, VisitIsLocal, FailedAreRecorded, StatusMatchesWorker,
       ConditionNotMet, AtNode
  <2>3. ConditionErrorCancels'
    BY <1>4 DEF TypeOK, VisitIsLocal, ConditionErrorCancels,
       StatusMatchesWorker, ConditionNotMet, AtNode
  <2>4. DoneWithoutNestedErrors'
    BY <1>4 DEF TypeOK, VisitIsLocal, DoneWithoutNestedErrors,
       StatusMatchesWorker, NestedWithinRun, LiveAreCounted,
       ReturnedAfterWait, Live, ConditionNotMet, AtNode
  <2> QED BY <2>1, <2>2, <2>3, <2>4
<1>5. ASSUME NEW s \in StagesOf(g), BeginCheckStatus(g, s) PROVE VerdictInv'
  <2>1. EndsForCause'
    BY <1>5 DEF TypeOK, VisitIsLocal, EndsForCause, StatusMatchesWorker,
       BeginCheckStatus, AtNode
  <2>2. FailedAreRecorded'
    BY <1>5 DEF TypeOK, VisitIsLocal, FailedAreRecorded, StatusMatchesWorker,
       BeginCheckStatus, AtNode
  <2>3. ConditionErrorCancels'
    BY <1>5 DEF TypeOK, VisitIsLocal, ConditionErrorCancels,
       StatusMatchesWorker, BeginCheckStatus, AtNode
  <2>4. DoneWithoutNestedErrors'
    BY <1>5 DEF TypeOK, VisitIsLocal, DoneWithoutNestedErrors,
       StatusMatchesWorker, NestedWithinRun, LiveAreCounted,
       ReturnedAfterWait, Live, BeginCheckStatus, AtNode
  <2> QED BY <2>1, <2>2, <2>3, <2>4
<1>6. ASSUME NEW p \in unread[g], ReadParent(g, p) PROVE VerdictInv'
  <2>1. EndsForCause'
    BY <1>6 DEF TypeOK, VisitIsLocal, EndsForCause, StatusMatchesWorker,
       ReadParent, CancelsChild
  <2>2. FailedAreRecorded'
    BY <1>6 DEF TypeOK, VisitIsLocal, FailedAreRecorded, StatusMatchesWorker,
       ReadParent, CancelsChild
  <2>3. ConditionErrorCancels'
    BY <1>6 DEF TypeOK, VisitIsLocal, ConditionErrorCancels,
       StatusMatchesWorker, ReadParent, CancelsChild
  <2>4. DoneWithoutNestedErrors'
    BY <1>6 DEF TypeOK, VisitIsLocal, DoneWithoutNestedErrors,
       StatusMatchesWorker, NestedWithinRun, LiveAreCounted,
       ReturnedAfterWait, Live, ReadParent, CancelsChild
  <2> QED BY <2>1, <2>2, <2>3, <2>4
<1>7. ASSUME NotReady(g) PROVE VerdictInv'
  <2>1. EndsForCause'
    BY <1>7 DEF TypeOK, VisitIsLocal, EndsForCause, StatusMatchesWorker,
       NotReady, LeaveNode
  <2>2. FailedAreRecorded'
    BY <1>7 DEF TypeOK, VisitIsLocal, FailedAreRecorded, StatusMatchesWorker,
       NotReady, LeaveNode
  <2>3. ConditionErrorCancels'
    BY <1>7 DEF TypeOK, VisitIsLocal, ConditionErrorCancels,
       StatusMatchesWorker, NotReady, LeaveNode
  <2>4. DoneWithoutNestedErrors'
    BY <1>7 DEF TypeOK, VisitIsLocal, DoneWithoutNestedErrors,
       StatusMatchesWorker, NestedWithinRun, LiveAreCounted,
       ReturnedAfterWait, Live, NotReady, LeaveNode
  <2> QED BY <2>1, <2>2, <2>3, <2>4
<1>8. ASSUME Launch(g) PROVE VerdictInv'
  <2>1. EndsForCause'
    BY <1>8 DEF TypeOK, VisitIsLocal, EndsForCause, StatusMatchesWorker,
       Launch, LeaveNode
  <2>2. FailedAreRecorded'
    BY <1>8 DEF TypeOK, VisitIsLocal, FailedAreRecorded, StatusMatchesWorker,
       Launch, LeaveNode
  <2>3. ConditionErrorCancels'
    BY <1>8 DEF TypeOK, VisitIsLocal, ConditionErrorCancels,
       StatusMatchesWorker, Launch, LeaveNode
  <2>4. DoneWithoutNestedErrors'
    BY <1>8 DEF TypeOK, VisitIsLocal, DoneWithoutNestedErrors,
       StatusMatchesWorker, NestedWithinRun, LiveAreCounted,
       ReturnedAfterWait, Live, Launch, LeaveNode
  <2> QED BY <2>1, <2>2, <2>3, <2>4
<1>9. ASSUME CancelFromLoop(g) PROVE VerdictInv'
  <2>1. EndsForCause'
    BY <1>9 DEF TypeOK, VisitIsLocal, EndsForCause, StatusMatchesWorker,
       CancelFromLoop
  <2>2. FailedAreRecorded'
    BY <1>9 DEF TypeOK, VisitIsLocal, FailedAreRecorded, StatusMatchesWorker,
       CancelFromLoop
  <2>3. ConditionErrorCancels'
    BY <1>9 DEF TypeOK, VisitIsLocal, ConditionErrorCancels,
       StatusMatchesWorker, CancelFromLoop
  <2>4. DoneWithoutNestedErrors'
    BY <1>9 DEF TypeOK, VisitIsLocal, DoneWithoutNestedErrors,
       StatusMatchesWorker, NestedWithinRun, LiveAreCounted,
       ReturnedAfterWait, Live, CancelFromLoop
  <2> QED BY <2>1, <2>2, <2>3, <2>4
<1>10. ASSUME RunnerCancelReturns(g) PROVE VerdictInv'
  <2>1. EndsForCause'
    BY <1>10 DEF TypeOK, VisitIsLocal, EndsForCause, StatusMatchesWorker,
       RunnerCancelReturns
  <2>2. FailedAreRecorded'
    BY <1>10 DEF TypeOK, VisitIsLocal, FailedAreRecorded, StatusMatchesWorker,
       RunnerCancelReturns
  <2>3. ConditionErrorCancels'
    BY <1>10 DEF TypeOK, VisitIsLocal, ConditionErrorCancels,
       StatusMatchesWorker, RunnerCancelReturns
  <2>4. DoneWithoutNestedErrors'
    BY <1>10 DEF TypeOK, VisitIsLocal, DoneWithoutNestedErrors,
       StatusMatchesWorker, NestedWithinRun, LiveAreCounted,
       ReturnedAfterWait, Live, RunnerCancelReturns
  <2> QED BY <2>1, <2>2, <2>3, <2>4
<1>11. ASSUME EndPass(g) PROVE VerdictInv'
  <2>1. EndsForCause'
    BY <1>11 DEF TypeOK, VisitIsLocal, EndsForCause, StatusMatchesWorker,
       EndPass
  <2>2. FailedAreRecorded'
    BY <1>11 DEF TypeOK, VisitIsLocal, FailedAreRecorded, StatusMatchesWorker,
       EndPass
  <2>3. ConditionErrorCancels'
    BY <1>11 DEF TypeOK, VisitIsLocal, ConditionErrorCancels,
       StatusMatchesWorker, EndPass
  <2>4. DoneWithoutNestedErrors'
    BY <1>11 DEF TypeOK, VisitIsLocal, DoneWithoutNestedErrors,
       StatusMatchesWorker, NestedWithinRun, LiveAreCounted,
       ReturnedAfterWait, Live, EndPass
  <2> QED BY <2>1, <2>2, <2>3, <2>4
<1>12. ASSUME Return(g) PROVE VerdictInv'
  <2>1. EndsForCause'
    BY <1>12 DEF TypeOK, VisitIsLocal, EndsForCause, StatusMatchesWorker,
       Return
  <2>2. FailedAreRecorded'
    BY <1>12 DEF TypeOK, VisitIsLocal, FailedAreRecorded, StatusMatchesWorker,
       Return
  <2>3. ConditionErrorCancels'
    BY <1>12 DEF TypeOK, VisitIsLocal, ConditionErrorCancels,
       StatusMatchesWorker, Return
  <2>4. DoneWithoutNestedErrors'
    BY <1>12 DEF TypeOK, VisitIsLocal, DoneWithoutNestedErrors,
       StatusMatchesWorker, NestedWithinRun, LiveAreCounted,
       ReturnedAfterWait, Live, Return
  <2> QED BY <2>1, <2>2, <2>3, <2>4
<1> QED
  BY <1>1, <1>2, <1>3, <1>4, <1>5, <1>6, <1>7, <1>8, <1>9, <1>10, <1>11, <1>12
     DEF LoopStep

\* Each step of a stage's goroutine keeps what the answers rest on.
LEMMA WorkerStepKeepsVerdictInv ==
    ASSUME Inv, VerdictInv, NEW s \in Stage, WorkerStep(s)
    PROVE  VerdictInv'
<1> USE PipelineAssumption DEF Inv, VerdictInv, StagesOf
<1>1. ASSUME EnterPipeline(s) PROVE VerdictInv'
  <2>1. EndsForCause'
    BY <1>1 DEF TypeOK, VisitIsLocal, EndsForCause, StatusMatchesWorker,
       EnterPipeline
  <2>2. FailedAreRecorded'
    BY <1>1 DEF TypeOK, VisitIsLocal, FailedAreRecorded, StatusMatchesWorker,
       EnterPipeline
  <2>3. ConditionErrorCancels'
    BY <1>1 DEF TypeOK, VisitIsLocal, ConditionErrorCancels,
       StatusMatchesWorker, EnterPipeline
  <2>4. DoneWithoutNestedErrors'
    BY <1>1 DEF TypeOK, VisitIsLocal, DoneWithoutNestedErrors,
       StatusMatchesWorker, NestedWithinRun, LiveAreCounted,
       ReturnedAfterWait, Live, EnterPipeline
  <2> QED BY <2>1, <2>2, <2>3, <2>4
<1>2. ASSUME RunSucceeds(s) PROVE VerdictInv'
  <2>1. EndsForCause'
    BY <1>2 DEF TypeOK, VisitIsLocal, EndsForCause, StatusMatchesWorker,
       RunSucceeds, CanSucceed
  <2>2. FailedAreRecorded'
    BY <1>2 DEF TypeOK, VisitIsLocal, FailedAreRecorded, StatusMatchesWorker,
       RunSucceeds, CanSucceed
  <2>3. ConditionErrorCancels'
    BY <1>2 DEF TypeOK, VisitIsLocal, ConditionErrorCancels,
       StatusMatchesWorker, RunSucceeds, CanSucceed
  <2>4. DoneWithoutNestedErrors'
    BY <1>2 DEF TypeOK, VisitIsLocal, DoneWithoutNestedErrors,
       StatusMatchesWorker, NestedWithinRun, LiveAreCounted,
       ReturnedAfterWait, Live, RunSucceeds, CanSucceed
  <2> QED BY <2>1, <2>2, <2>3, <2>4
<1>3. ASSUME RunFails(s) PROVE VerdictInv'
  <2>1. EndsForCause'
    BY <1>3 DEF TypeOK, VisitIsLocal, EndsForCause, StatusMatchesWorker,
       RunFails
  <2>2. FailedAreRecorded'
    BY <1>3 DEF TypeOK, VisitIsLocal, FailedAreRecorded, StatusMatchesWorker,
       RunFails
  <2>3. ConditionErrorCancels'
    BY <1>3 DEF TypeOK, VisitIsLocal, ConditionErrorCancels,
       StatusMatchesWorker, RunFails
  <2>4. DoneWithoutNestedErrors'
    BY <1>3 DEF TypeOK, VisitIsLocal, DoneWithoutNestedErrors,
       StatusMatchesWorker, NestedWithinRun, LiveAreCounted,
       ReturnedAfterWait, Live, RunFails
  <2> QED BY <2>1, <2>2, <2>3, <2>4
<1>4. ASSUME RecordError(s) PROVE VerdictInv'
  <2>1. EndsForCause'
    BY <1>4 DEF TypeOK, VisitIsLocal, EndsForCause, StatusMatchesWorker,
       RecordError, WithStageError
  <2>2. FailedAreRecorded'
    BY <1>4 DEF TypeOK, VisitIsLocal, FailedAreRecorded, StatusMatchesWorker,
       RecordError, WithStageError
  <2>3. ConditionErrorCancels'
    BY <1>4 DEF TypeOK, VisitIsLocal, ConditionErrorCancels,
       StatusMatchesWorker, RecordError, WithStageError
  <2>4. DoneWithoutNestedErrors'
    <3>1. ASSUME NEW h \in Stage, Sub[h] = GraphOf[s] PROVE status[h] # "done"
      BY <1>4, <3>1 DEF TypeOK, StatusMatchesWorker, NestedWithinRun,
         LiveAreCounted, ReturnedAfterWait, Live, RecordError
    <3>2. /\ status' = status
          /\ \A g \in Graph : g # GraphOf[s] => errors'[g] = errors[g]
      BY <1>4 DEF TypeOK, RecordError, WithStageError
    <3> QED BY <3>1, <3>2 DEF DoneWithoutNestedErrors
  <2> QED BY <2>1, <2>2, <2>3, <2>4
<1>5. ASSUME DoneDespiteFailure(s) PROVE VerdictInv'
  <2>1. EndsForCause'
    BY <1>5 DEF TypeOK, VisitIsLocal, EndsForCause, StatusMatchesWorker,
       DoneDespiteFailure
  <2>2. FailedAreRecorded'
    BY <1>5 DEF TypeOK, VisitIsLocal, FailedAreRecorded, StatusMatchesWorker,
       DoneDespiteFailure
  <2>3. ConditionErrorCancels'
    BY <1>5 DEF TypeOK, VisitIsLocal, ConditionErrorCancels,
       StatusMatchesWorker, DoneDespiteFailure
  <2>4. DoneWithoutNestedErrors'
    BY <1>5 DEF TypeOK, VisitIsLocal, DoneWithoutNestedErrors,
       StatusMatchesWorker, NestedWithinRun, LiveAreCounted,
       ReturnedAfterWait, Live, DoneDespiteFailure
  <2> QED BY <2>1, <2>2, <2>3, <2>4
<1>6. ASSUME WorkerExits(s) PROVE VerdictInv'
  <2>1. EndsForCause'
    BY <1>6 DEF TypeOK, VisitIsLocal, EndsForCause, StatusMatchesWorker,
       WorkerExits
  <2>2. FailedAreRecorded'
    BY <1>6 DEF TypeOK, VisitIsLocal, FailedAreRecorded, StatusMatchesWorker,
       WorkerExits
  <2>3. ConditionErrorCancels'
    BY <1>6 DEF TypeOK, VisitIsLocal, ConditionErrorCancels,
       StatusMatchesWorker, WorkerExits
  <2>4. DoneWithoutNestedErrors'
    BY <1>6 DEF TypeOK, VisitIsLocal, DoneWithoutNestedErrors,
       StatusMatchesWorker, NestedWithinRun, LiveAreCounted,
       ReturnedAfterWait, Live, WorkerExits
  <2> QED BY <2>1, <2>2, <2>3, <2>4
<1> QED
  BY <1>1, <1>2, <1>3, <1>4, <1>5, <1>6 DEF WorkerStep

\* VerdictInv is inductive, relative to Inv.
LEMMA NextKeepsVerdictInv == Inv /\ VerdictInv /\ [Next]_vars => VerdictInv'
<1>1. ASSUME VerdictInv, UserCancel PROVE VerdictInv'
  BY <1>1 DEF UserCancel, VerdictInv, EndsForCause, FailedAreRecorded,
     ConditionErrorCancels, DoneWithoutNestedErrors
<1>2. ASSUME VerdictInv, UNCHANGED vars PROVE VerdictInv'
  BY <1>2 DEF vars, VerdictInv, EndsForCause, FailedAreRecorded,
     ConditionErrorCancels, DoneWithoutNestedErrors
<1> QED BY <1>1, <1>2, LoopStepKeepsVerdictInv, WorkerStepKeepsVerdictInv
           DEF Next, Ended

\* It holds of every reachable state of every pipeline.
THEOREM SpecKeepsVerdictInv == Spec => []VerdictInv
<1>1. Init => VerdictInv
  BY PipelineAssumption
     DEF Init, VerdictInv, EndsForCause, FailedAreRecorded,
         ConditionErrorCancels, DoneWithoutNestedErrors, StagesOf
<1> QED BY <1>1, SpecKeepsInv, NextKeepsVerdictInv, PTL DEF Spec

\* The answer of Schedule misses no failed stage and invents none.
THEOREM VerdictsAreComplete == Spec => []VerdictIsComplete
<1>1. Inv /\ VerdictInv => VerdictIsComplete
  BY PipelineAssumption
     DEF Inv, VerdictInv, TypeOK, EndsForCause, FailedAreRecorded,
         ReturnedAfterWait, LiveAreCounted, Live, VerdictIsComplete, StagesOf
<1> QED BY <1>1, SpecKeepsInv, SpecKeepsVerdictInv, PTL

\* In a graph that was gone through to its end, without an error recorded and
\* without a cancel, every stage is over: a stage that is canceled would have a
\* culprit, that one another, and a chain of dependencies ends.
LEMMA ErrorFreeIsOver ==
    ASSUME Inv, VerdictInv, NEW g \in Graph, loop[g] = "returned",
           errors[g] = {}, ~cancelled
    PROVE  \A t \in StagesOf(g) : Over(t)
<1> USE PipelineAssumption DEF StagesOf
<1>1. \A t \in StagesOf(g) : worker[t] \in {"none", "exited"}
  BY DEF Inv, ReturnedAfterWait, LiveAreCounted, Live
<1>2. \A t \in StagesOf(g) : status[t] \notin {"waiting", "running", "error"}
  <2> SUFFICES ASSUME NEW t \in StagesOf(g)
               PROVE  status[t] \notin {"waiting", "running", "error"}
    OBVIOUS
  <2>1. status[t] # "waiting"
    BY DEF VerdictInv, EndsForCause
  <2>2. status[t] # "running"
    BY <1>1 DEF Inv, StatusMatchesWorker
  <2>3. status[t] # "error"
    BY <1>1 DEF VerdictInv, FailedAreRecorded, ConditionErrorCancels
  <2> QED BY <2>1, <2>2, <2>3
<1>3. \A t \in StagesOf(g) : status[t] # "canceled"
  <2> DEFINE S == {t \in StagesOf(g) : status[t] = "canceled"}
  <2>1. SUFFICES ASSUME S # {} PROVE FALSE
    OBVIOUS
  <2>2. PICK t \in S : DependsOn[t] \cap S = {}
    BY <2>1, AcyclicAssumption, S \in SUBSET Stage
  <2>3. PICK p \in DependsOn[t] : Culprit(p)
    BY <2>2 DEF Inv, CulpritIsSettled
  <2>4. p \in StagesOf(g)
    BY <2>2, <2>3
  <2>5. status[p] = "canceled"
    BY <1>2, <2>3, <2>4 DEF Culprit
  <2> QED BY <2>2, <2>3, <2>4, <2>5
<1> QED BY <1>2, <1>3 DEF Inv, TypeOK, Statuses, Over

\* A stage that holds a pipeline is done only if that pipeline is.
THEOREM NestedIsDone == Spec => []NestedDoneIsDone
<1>1. Inv /\ VerdictInv => NestedDoneIsDone
  <2> SUFFICES ASSUME Inv, VerdictInv, NEW s \in Stage, Sub[s] # NoGraph,
                      status[s] = "done", s \notin AllowFailure, ~cancelled
               PROVE  \A t \in StagesOf(Sub[s]) : Over(t)
    BY DEF NestedDoneIsDone
  <2>1. Sub[s] \in Graph /\ errors[Sub[s]] = {}
    BY PipelineAssumption DEF VerdictInv, DoneWithoutNestedErrors
  <2>2. loop[Sub[s]] = "returned"
    BY DEF Inv, TypeOK, WorkerStates, StatusMatchesWorker, NestedWithinRun
  <2> QED BY <2>1, <2>2, ErrorFreeIsOver
<1> QED BY <1>1, SpecKeepsInv, SpecKeepsVerdictInv, PTL

(***************************************************************************)
(* The refinement.  Each step is followed through the mapping: what it     *)
(* does to the phase of every stage, to the failures and to the answer of  *)
(* every call, and the guard of the abstract action it is.                 *)
(***************************************************************************)
\* The scheduler begins where PipelineExecution does.
LEMMA InitImplements == Init => Execution!Init
BY PipelineAssumption
   DEF Init, Execution!Init, PhaseOf, CallOf, FailuresOf, Live, StagesOf

\* A step of Schedule's loop is a step of PipelineExecution, or none.
LEMMA LoopStepImplements ==
    ASSUME Inv, VerdictInv, NEW g \in Graph, LoopStep(g)
    PROVE  Execution!Next \/ UNCHANGED Execution!vars
<1> USE PipelineAssumption DEF Inv, VerdictInv, StagesOf
<1>1. ASSUME TestDone(g) PROVE UNCHANGED Execution!vars
  <2>1. \A r \in Stage : PhaseOf(r)' = PhaseOf(r)
    BY <1>1 DEF TypeOK, PhaseOf, Live, VisitIsLocal, StatusMatchesWorker,
       TestDone
  <2>2. \A h \in Graph : FailuresOf(h)' = FailuresOf(h)
    BY <1>1 DEF TypeOK, FailuresOf, VisitIsLocal, TestDone
  <2>3. \A h \in Graph : CallOf(h)' = CallOf(h)
    BY <1>1, <2>2 DEF TypeOK, CallOf, TestDone
  <2>4. cancelled' = cancelled
    BY <1>1 DEF TestDone
  <2> QED BY <2>1, <2>2, <2>3, <2>4 DEF Execution!vars
<1>2. ASSUME PollCancelled(g) PROVE UNCHANGED Execution!vars
  <2>1. \A r \in Stage : PhaseOf(r)' = PhaseOf(r)
    BY <1>2 DEF TypeOK, PhaseOf, Live, VisitIsLocal, StatusMatchesWorker,
       PollCancelled
  <2>2. \A h \in Graph : FailuresOf(h)' = FailuresOf(h)
    BY <1>2 DEF TypeOK, FailuresOf, VisitIsLocal, PollCancelled
  <2>3. \A h \in Graph : CallOf(h)' = CallOf(h)
    BY <1>2, <2>2 DEF TypeOK, CallOf, PollCancelled
  <2>4. cancelled' = cancelled
    BY <1>2 DEF PollCancelled
  <2> QED BY <2>1, <2>2, <2>3, <2>4 DEF Execution!vars
<1>3. ASSUME NEW s \in StagesOf(g), ConditionErrs(g, s)
       PROVE  Execution!FailUnstarted(s)
  <2>1. \A r \in Stage : PhaseOf(r)' = 
           IF r = s THEN "failed" ELSE PhaseOf(r)
    BY <1>3 DEF TypeOK, WorkerStates, PhaseOf, Live, VisitIsLocal,
       StatusMatchesWorker, FailedAreRecorded, ConditionErrs, AtNode
  <2>2. \A h \in Graph : FailuresOf(h)' = FailuresOf(h)
    BY <1>3 DEF TypeOK, FailuresOf, StatusMatchesWorker, VisitIsLocal,
       ConditionErrs, AtNode
  <2>3. \A h \in Graph : CallOf(h)' = CallOf(h)
    BY <1>3, <2>2 DEF TypeOK, CallOf, LiveAreCounted, ReturnedAfterWait, Live,
       NestedWithinRun, ConditionErrs, AtNode
  <2>4. PhaseOf(s) = "pending" /\ CallOf(g) = "open"
         /\ s \in HasCondition /\ cancelled' = cancelled
    BY <1>3 DEF TypeOK, CallOf, PhaseOf, StatusMatchesWorker, VisitIsLocal,
       ConditionErrs, AtNode
  <2> QED BY <1>3, <2>1, <2>2, <2>3, <2>4 DEF Execution!FailUnstarted
<1>4. ASSUME NEW s \in StagesOf(g), ConditionNotMet(g, s)
       PROVE  Execution!Skip(s)
  <2>1. \A r \in Stage : PhaseOf(r)' = 
           IF r = s THEN "skipped" ELSE PhaseOf(r)
    BY <1>4 DEF TypeOK, WorkerStates, PhaseOf, Live, VisitIsLocal,
       StatusMatchesWorker, FailedAreRecorded, ConditionNotMet, AtNode
  <2>2. \A h \in Graph : FailuresOf(h)' = FailuresOf(h)
    BY <1>4 DEF TypeOK, FailuresOf, StatusMatchesWorker, VisitIsLocal,
       ConditionNotMet, AtNode
  <2>3. \A h \in Graph : CallOf(h)' = CallOf(h)
    BY <1>4, <2>2 DEF TypeOK, CallOf, LiveAreCounted, ReturnedAfterWait, Live,
       NestedWithinRun, ConditionNotMet, AtNode
  <2>4. PhaseOf(s) = "pending" /\ CallOf(g) = "open"
         /\ s \in HasCondition /\ cancelled' = cancelled
    BY <1>4 DEF TypeOK, CallOf, PhaseOf, StatusMatchesWorker, VisitIsLocal,
       ConditionNotMet, AtNode
  <2> QED BY <1>4, <2>1, <2>2, <2>3, <2>4 DEF Execution!Skip
<1>5. ASSUME NEW s \in StagesOf(g), BeginCheckStatus(g, s)
       PROVE  UNCHANGED Execution!vars
  <2>1. \A r \in Stage : PhaseOf(r)' = PhaseOf(r)
    BY <1>5 DEF TypeOK, PhaseOf, Live, VisitIsLocal, StatusMatchesWorker,
       BeginCheckStatus, AtNode
  <2>2. \A h \in Graph : FailuresOf(h)' = FailuresOf(h)
    BY <1>5 DEF TypeOK, FailuresOf, VisitIsLocal, BeginCheckStatus, AtNode
  <2>3. \A h \in Graph : CallOf(h)' = CallOf(h)
    BY <1>5, <2>2 DEF TypeOK, CallOf, BeginCheckStatus, AtNode
  <2>4. cancelled' = cancelled
    BY <1>5 DEF BeginCheckStatus, AtNode
  <2> QED BY <2>1, <2>2, <2>3, <2>4 DEF Execution!vars
<1>6. ASSUME NEW p \in unread[g], ReadParent(g, p)
       PROVE  UNCHANGED Execution!vars
  <2>1. \A r \in Stage : PhaseOf(r)' = PhaseOf(r)
    BY <1>6 DEF TypeOK, PhaseOf, Live, VisitIsLocal, StatusMatchesWorker,
       ReadParent, CancelsChild
  <2>2. \A h \in Graph : FailuresOf(h)' = FailuresOf(h)
    BY <1>6 DEF TypeOK, FailuresOf, VisitIsLocal, ReadParent, CancelsChild
  <2>3. \A h \in Graph : CallOf(h)' = CallOf(h)
    BY <1>6, <2>2 DEF TypeOK, CallOf, ReadParent, CancelsChild
  <2>4. cancelled' = cancelled
    BY <1>6 DEF ReadParent, CancelsChild
  <2> QED BY <2>1, <2>2, <2>3, <2>4 DEF Execution!vars
<1>7. ASSUME NotReady(g), status[visiting[g]] # "canceled"
       PROVE  UNCHANGED Execution!vars
  <2>1. \A r \in Stage : PhaseOf(r)' = PhaseOf(r)
    BY <1>7 DEF TypeOK, PhaseOf, Live, VisitIsLocal, StatusMatchesWorker,
       NotReady, LeaveNode
  <2>2. \A h \in Graph : FailuresOf(h)' = FailuresOf(h)
    BY <1>7 DEF TypeOK, FailuresOf, VisitIsLocal, NotReady, LeaveNode
  <2>3. \A h \in Graph : CallOf(h)' = CallOf(h)
    BY <1>7, <2>2 DEF TypeOK, CallOf, NotReady, LeaveNode
  <2>4. cancelled' = cancelled
    BY <1>7 DEF NotReady, LeaveNode
  <2> QED BY <2>1, <2>2, <2>3, <2>4 DEF Execution!vars
<1>8. ASSUME NotReady(g), status[visiting[g]] = "canceled"
       PROVE  visiting[g] \in StagesOf(g) /\ Execution!GiveUp(visiting[g])
  <2>1. \A r \in Stage : PhaseOf(r)' = 
           IF r = visiting[g] THEN "canceled" ELSE PhaseOf(r)
    BY <1>8 DEF TypeOK, WorkerStates, PhaseOf, Live, VisitIsLocal,
       StatusMatchesWorker, FailedAreRecorded, NotReady, LeaveNode
  <2>2. \A h \in Graph : FailuresOf(h)' = FailuresOf(h)
    BY <1>8 DEF TypeOK, FailuresOf, StatusMatchesWorker, VisitIsLocal,
       NotReady, LeaveNode
  <2>3. \A h \in Graph : CallOf(h)' = CallOf(h)
    BY <1>8, <2>2 DEF TypeOK, CallOf, LiveAreCounted, ReturnedAfterWait, Live,
       NestedWithinRun, NotReady, LeaveNode
  <2>4. /\ visiting[g] \in StagesOf(g) /\ PhaseOf(visiting[g]) = "pending"
        /\ CallOf(g) = "open" /\ cancelled' = cancelled
        /\ \E p \in Parents(visiting[g]) \ {Root} :
              /\ p \in Stage
              /\ \/ PhaseOf(p) = "failed" /\ p \notin AllowFailure
                 \/ PhaseOf(p) = "canceled"
    BY <1>8, ParentsAreNodes DEF TypeOK, CallOf, PhaseOf, StatusMatchesWorker,
       VisitIsLocal, CulpritIsSettled, Culprit, Parents, NotReady, LeaveNode
  <2> QED BY <1>8, <2>1, <2>2, <2>3, <2>4 DEF Execution!GiveUp, StagesOf
<1>9. ASSUME Launch(g)
       PROVE  visiting[g] \in StagesOf(g) /\ Execution!Start(visiting[g])
  <2>1. \A r \in Stage : PhaseOf(r)' = 
           IF r = visiting[g] THEN "active" ELSE PhaseOf(r)
    BY <1>9 DEF TypeOK, WorkerStates, PhaseOf, Live, VisitIsLocal,
       StatusMatchesWorker, FailedAreRecorded, Launch, LeaveNode, WgAdd
  <2>2. \A h \in Graph : FailuresOf(h)' = FailuresOf(h)
    BY <1>9 DEF TypeOK, FailuresOf, StatusMatchesWorker, VisitIsLocal, Launch,
       LeaveNode, WgAdd
  <2>3. \A h \in Graph : CallOf(h)' = CallOf(h)
    BY <1>9, <2>2 DEF TypeOK, CallOf, LiveAreCounted, ReturnedAfterWait, Live,
       NestedWithinRun, Launch, LeaveNode, WgAdd
  <2>4. /\ visiting[g] \in StagesOf(g) /\ PhaseOf(visiting[g]) = "pending"
        /\ CallOf(g) = "open" /\ cancelled' = cancelled
    BY <1>9 DEF TypeOK, CallOf, PhaseOf, StatusMatchesWorker, VisitIsLocal,
       Launch, LeaveNode, WgAdd
  <2>5. PICK p \in Parents(visiting[g]) : p = Root \/ Over(p)
    BY <1>9, <2>4 DEF ReadyForCause, Launch
  <2>6. p = Root \/ (p \in Stage /\ PhaseOf(p) \in {"done", "skipped"})
    <3> SUFFICES ASSUME p # Root PROVE p \in Stage /\ PhaseOf(p) \in {"done", "skipped"}
      OBVIOUS
    <3>1. p \in Stage
      BY <2>4, ParentsAreNodes DEF StagesOf
    <3> QED BY <2>5, <3>1 DEF TypeOK, Over, PhaseOf
  <2> QED BY <1>9, <2>1, <2>2, <2>3, <2>4, <2>6 DEF Execution!Start, StagesOf,
   Execution!Over
<1>10. ASSUME CancelFromLoop(g)
       PROVE  Execution!Stop
  <2>1. \A r \in Stage : PhaseOf(r)' = PhaseOf(r)
    BY <1>10 DEF TypeOK, WorkerStates, PhaseOf, Live, VisitIsLocal,
       StatusMatchesWorker, FailedAreRecorded, CancelFromLoop
  <2>2. \A h \in Graph : FailuresOf(h)' = FailuresOf(h)
    BY <1>10 DEF TypeOK, FailuresOf, StatusMatchesWorker, VisitIsLocal,
       CancelFromLoop
  <2>3. \A h \in Graph : CallOf(h)' = CallOf(h)
    BY <1>10, <2>2 DEF TypeOK, CallOf, LiveAreCounted, ReturnedAfterWait,
       Live, NestedWithinRun, CancelFromLoop
  <2>4. cancelled' = TRUE
    BY <1>10 DEF TypeOK, CancelFromLoop
  <2> QED BY <1>10, <2>1, <2>2, <2>3, <2>4 DEF Execution!Stop
<1>11. ASSUME RunnerCancelReturns(g) PROVE UNCHANGED Execution!vars
  <2>1. \A r \in Stage : PhaseOf(r)' = PhaseOf(r)
    BY <1>11 DEF TypeOK, PhaseOf, Live, VisitIsLocal, StatusMatchesWorker,
       RunnerCancelReturns
  <2>2. \A h \in Graph : FailuresOf(h)' = FailuresOf(h)
    BY <1>11 DEF TypeOK, FailuresOf, VisitIsLocal, RunnerCancelReturns
  <2>3. \A h \in Graph : CallOf(h)' = CallOf(h)
    BY <1>11, <2>2 DEF TypeOK, CallOf, RunnerCancelReturns
  <2>4. cancelled' = cancelled
    BY <1>11 DEF RunnerCancelReturns
  <2> QED BY <2>1, <2>2, <2>3, <2>4 DEF Execution!vars
<1>12. ASSUME EndPass(g) PROVE UNCHANGED Execution!vars
  <2>1. \A r \in Stage : PhaseOf(r)' = PhaseOf(r)
    BY <1>12 DEF TypeOK, PhaseOf, Live, VisitIsLocal, StatusMatchesWorker,
       EndPass
  <2>2. \A h \in Graph : FailuresOf(h)' = FailuresOf(h)
    BY <1>12 DEF TypeOK, FailuresOf, VisitIsLocal, EndPass
  <2>3. \A h \in Graph : CallOf(h)' = CallOf(h)
    BY <1>12, <2>2 DEF TypeOK, CallOf, EndPass
  <2>4. cancelled' = cancelled
    BY <1>12 DEF EndPass
  <2> QED BY <2>1, <2>2, <2>3, <2>4 DEF Execution!vars
<1>13. ASSUME Return(g)
       PROVE  Execution!Answer(g)
  <2>1. \A r \in Stage : PhaseOf(r)' = PhaseOf(r)
    BY <1>13 DEF TypeOK, WorkerStates, PhaseOf, Live, VisitIsLocal,
       StatusMatchesWorker, FailedAreRecorded, Return
  <2>2. \A h \in Graph : FailuresOf(h)' = FailuresOf(h)
    BY <1>13 DEF TypeOK, FailuresOf, StatusMatchesWorker, VisitIsLocal, Return
  <2>3. \A h \in Graph : CallOf(h)' = 
           IF h # g THEN CallOf(h)
           ELSE IF FailuresOf(g) = {} THEN "ok" ELSE "failed"
    BY <1>13, <2>2 DEF TypeOK, CallOf, LiveAreCounted, ReturnedAfterWait,
       Live, NestedWithinRun, Return
  <2>4. /\ CallOf(g) = "open" /\ cancelled' = cancelled
        /\ \A s \in StagesOf(g) : PhaseOf(s) # "active"
        /\ cancelled \/ \A s \in StagesOf(g) : PhaseOf(s) # "pending"
    BY <1>13 DEF TypeOK, CallOf, PhaseOf, StatusMatchesWorker, VisitIsLocal,
       LiveAreCounted, Live, EndsForCause, Return
  <2> QED BY <1>13, <2>1, <2>2, <2>3, <2>4 DEF Execution!Answer,
   Execution!StagesOf
<1> QED BY <1>1, <1>2, <1>3, <1>4, <1>5, <1>6, <1>7, <1>8, <1>9, <1>10, <1>11,
           <1>12, <1>13 DEF LoopStep, Execution!Next

\* So is a step of a stage's goroutine.
LEMMA WorkerStepImplements ==
    ASSUME Inv, VerdictInv, NEW s \in Stage, WorkerStep(s)
    PROVE  Execution!Next \/ UNCHANGED Execution!vars
<1> USE PipelineAssumption DEF Inv, VerdictInv, StagesOf
<1>1. ASSUME EnterPipeline(s)
       PROVE  Execution!CallNested(s)
  <2>1. \A r \in Stage : PhaseOf(r)' = PhaseOf(r)
    BY <1>1 DEF TypeOK, WorkerStates, PhaseOf, Live, VisitIsLocal,
       StatusMatchesWorker, FailedAreRecorded, EnterPipeline
  <2>2. \A h \in Graph : FailuresOf(h)' = FailuresOf(h)
    BY <1>1 DEF TypeOK, FailuresOf, StatusMatchesWorker, VisitIsLocal,
       EnterPipeline
  <2>3. \A h \in Graph : CallOf(h)' = 
           IF h = Sub[s] THEN "open" ELSE CallOf(h)
    BY <1>1, <2>2 DEF TypeOK, CallOf, LiveAreCounted, ReturnedAfterWait, Live,
       NestedWithinRun, EnterPipeline
  <2>4. /\ PhaseOf(s) = "active" /\ CallOf(Sub[s]) = "uncalled"
        /\ Sub[s] # NoGraph
        /\ cancelled' = cancelled
    BY <1>1 DEF TypeOK, CallOf, PhaseOf, StatusMatchesWorker, VisitIsLocal,
       EnterPipeline
  <2> QED BY <1>1, <2>1, <2>2, <2>3, <2>4 DEF Execution!CallNested
<1>2. ASSUME RunSucceeds(s)
       PROVE  Execution!Succeed(s)
  <2>1. \A r \in Stage : PhaseOf(r)' = 
           IF r = s THEN "done" ELSE PhaseOf(r)
    BY <1>2 DEF TypeOK, WorkerStates, PhaseOf, Live, VisitIsLocal,
       StatusMatchesWorker, FailedAreRecorded, RunSucceeds, CanSucceed
  <2>2. \A h \in Graph : FailuresOf(h)' = FailuresOf(h)
    BY <1>2 DEF TypeOK, FailuresOf, StatusMatchesWorker, VisitIsLocal,
       RunSucceeds, CanSucceed
  <2>3. \A h \in Graph : CallOf(h)' = CallOf(h)
    BY <1>2, <2>2 DEF TypeOK, CallOf, LiveAreCounted, ReturnedAfterWait, Live,
       NestedWithinRun, RunSucceeds, CanSucceed
  <2>4. /\ PhaseOf(s) = "active" /\ s \notin FailuresOf(GraphOf[s])
        /\ (Sub[s] # NoGraph => CallOf(Sub[s]) = "ok")
        /\ cancelled' = cancelled
    BY <1>2 DEF TypeOK, CallOf, PhaseOf, StatusMatchesWorker, VisitIsLocal,
       FailuresOf, FailedAreRecorded, LiveAreCounted, ReturnedAfterWait, Live,
       RunSucceeds, CanSucceed
  <2> QED BY <1>2, <2>1, <2>2, <2>3, <2>4 DEF Execution!Succeed
<1>3. ASSUME RunFails(s)
       PROVE  Execution!Fail(s)
  <2>1. \A r \in Stage : PhaseOf(r)' = 
           IF r = s /\ s \notin AllowFailure THEN "failed" ELSE PhaseOf(r)
    BY <1>3 DEF TypeOK, WorkerStates, PhaseOf, Live, VisitIsLocal,
       StatusMatchesWorker, FailedAreRecorded, RunFails, CanFail
  <2>2. \A h \in Graph : FailuresOf(h)' = 
           IF h = GraphOf[s] THEN FailuresOf(h) \cup {s} ELSE FailuresOf(h)
    BY <1>3 DEF TypeOK, FailuresOf, StatusMatchesWorker, VisitIsLocal,
       RunFails, CanFail
  <2>3. \A h \in Graph : CallOf(h)' = CallOf(h)
    BY <1>3, <2>2 DEF TypeOK, CallOf, LiveAreCounted, ReturnedAfterWait, Live,
       NestedWithinRun, RunFails, CanFail
  <2>4. /\ PhaseOf(s) = "active" /\ s \notin FailuresOf(GraphOf[s])
        /\ (Sub[s] # NoGraph => CallOf(Sub[s]) = "failed")
        /\ cancelled' = cancelled
    BY <1>3 DEF TypeOK, CallOf, PhaseOf, StatusMatchesWorker, VisitIsLocal,
       FailuresOf, FailedAreRecorded, RunFails, CanFail
  <2> QED BY <1>3, <2>1, <2>2, <2>3, <2>4 DEF Execution!Fail
<1>4. ASSUME RecordError(s) PROVE UNCHANGED Execution!vars
  <2>1. \A r \in Stage : PhaseOf(r)' = PhaseOf(r)
    BY <1>4 DEF TypeOK, PhaseOf, Live, VisitIsLocal, StatusMatchesWorker,
       RecordError, WithStageError
  <2>2. \A h \in Graph : FailuresOf(h)' = FailuresOf(h)
    BY <1>4 DEF TypeOK, FailuresOf, VisitIsLocal, RecordError, WithStageError
  <2>3. \A h \in Graph : CallOf(h)' = CallOf(h)
    BY <1>4, <2>2 DEF TypeOK, CallOf, RecordError, WithStageError
  <2>4. cancelled' = cancelled
    BY <1>4 DEF RecordError, WithStageError
  <2> QED BY <2>1, <2>2, <2>3, <2>4 DEF Execution!vars
<1>5. ASSUME DoneDespiteFailure(s)
       PROVE  Execution!Tolerate(s)
  <2>1. \A r \in Stage : PhaseOf(r)' = 
           IF r = s THEN "done" ELSE PhaseOf(r)
    BY <1>5 DEF TypeOK, WorkerStates, PhaseOf, Live, VisitIsLocal,
       StatusMatchesWorker, FailedAreRecorded, DoneDespiteFailure
  <2>2. \A h \in Graph : FailuresOf(h)' = FailuresOf(h)
    BY <1>5 DEF TypeOK, FailuresOf, StatusMatchesWorker, VisitIsLocal,
       DoneDespiteFailure
  <2>3. \A h \in Graph : CallOf(h)' = CallOf(h)
    BY <1>5, <2>2 DEF TypeOK, CallOf, LiveAreCounted, ReturnedAfterWait, Live,
       NestedWithinRun, DoneDespiteFailure
  <2>4. PhaseOf(s) = "active"
         /\ s \in FailuresOf(GraphOf[s]) /\ cancelled' = cancelled
    BY <1>5 DEF TypeOK, CallOf, PhaseOf, StatusMatchesWorker, VisitIsLocal,
       FailuresOf, FailedAreRecorded, Live, DoneDespiteFailure
  <2> QED BY <1>5, <2>1, <2>2, <2>3, <2>4 DEF Execution!Tolerate
<1>6. ASSUME WorkerExits(s) PROVE UNCHANGED Execution!vars
  <2>1. \A r \in Stage : PhaseOf(r)' = PhaseOf(r)
    BY <1>6 DEF TypeOK, PhaseOf, Live, VisitIsLocal, StatusMatchesWorker,
       WorkerExits, WgDone
  <2>2. \A h \in Graph : FailuresOf(h)' = FailuresOf(h)
    BY <1>6 DEF TypeOK, FailuresOf, VisitIsLocal, WorkerExits, WgDone
  <2>3. \A h \in Graph : CallOf(h)' = CallOf(h)
    BY <1>6, <2>2 DEF TypeOK, CallOf, WorkerExits, WgDone
  <2>4. cancelled' = cancelled
    BY <1>6 DEF WorkerExits, WgDone
  <2> QED BY <2>1, <2>2, <2>3, <2>4 DEF Execution!vars
<1> QED BY <1>1, <1>2, <1>3, <1>4, <1>5, <1>6 DEF WorkerStep, Execution!Next

\* Every step of the scheduler is one of PipelineExecution's, or none.
LEMMA StepImplements ==
    Inv /\ VerdictInv /\ [Next]_vars => [Execution!Next]_Execution!vars
<1>1. ASSUME UserCancel PROVE Execution!Stop
  BY <1>1 DEF UserCancel, Execution!Stop, PhaseOf, CallOf, FailuresOf, Live
<1>2. ASSUME UNCHANGED vars PROVE UNCHANGED Execution!vars
  BY <1>2 DEF vars, Execution!vars, PhaseOf, CallOf, FailuresOf, Live
<1> QED BY <1>1, <1>2, LoopStepImplements, WorkerStepImplements
           DEF Next, Ended, Execution!Next

\* The scheduler implements PipelineExecution, whatever the pipeline.
THEOREM SchedulerImplementsExecution == Spec => ImplementsExecution
BY InitImplements, StepImplements, SpecKeepsInv, SpecKeepsVerdictInv, PTL
   DEF Spec, ImplementsExecution, Execution!Spec

(***************************************************************************)
(* The call on Top is the last to return.                                  *)
(***************************************************************************)
\* What a step does to the calls and to the stages that are running: one call
\* is opened by a running stage, one returns, or one stage starts or ends.
LEMMA LoopStepKeepsNestingInv ==
    ASSUME Inv, NestingInv, NEW g \in Graph, LoopStep(g)
    PROVE  NestingInv'
<1> USE PipelineAssumption DEF NestingInv
<1>1. /\ \A h \in Graph \ {g} : loop'[h] = loop[h]
      /\ loop[g] # "idle" /\ loop[g] # "returned" /\ loop'[g] # "idle"
  BY DEF Inv, TypeOK, LoopStep, TestDone, PollCancelled, ConditionErrs,
     ConditionNotMet, BeginCheckStatus, AtNode, ReadParent, NotReady,
     LeaveNode, Launch, CancelFromLoop, RunnerCancelReturns, EndPass, Return
<1>2. \A s \in Stage : \/ worker'[s] = worker[s]
                       \/ GraphOf[s] = g /\ worker[s] = "none"
  <2>1. Launch(g) \/ worker' = worker
    BY DEF LoopStep, TestDone, PollCancelled, ConditionErrs, ConditionNotMet,
       BeginCheckStatus, ReadParent, NotReady, CancelFromLoop,
       RunnerCancelReturns, EndPass, Return
  <2>2. ASSUME Launch(g)
        PROVE  /\ visiting[g] \in Stage /\ GraphOf[visiting[g]] = g
               /\ worker[visiting[g]] = "none"
               /\ worker' = [worker EXCEPT ![visiting[g]] = "running"]
    BY <2>2 DEF Launch, Inv, TypeOK, VisitIsLocal, StagesOf
  <2>3. worker \in [Stage -> WorkerStates]
    BY DEF Inv, TypeOK
  <2> QED BY <2>1, <2>2, <2>3
<1>3. CalledBeforeStarted'
  BY <1>1, <1>2 DEF Inv, TypeOK, CalledBeforeStarted
<1>4. OpenFromTop'
  <2> SUFFICES ASSUME NEW G \in SUBSET Graph, G # {}, Top \notin G,
                      \A h \in G : Open(h)'
               PROVE  \E s \in Stage : /\ Sub[s] \in G /\ GraphOf[s] \notin G
                                       /\ worker'[s] = "running"
    BY DEF OpenFromTop
  <2>1. \A h \in G : Open(h)
    BY <1>1 DEF Open
  <2>2. PICK s \in Stage : /\ Sub[s] \in G /\ GraphOf[s] \notin G
                           /\ worker[s] = "running"
    BY <2>1 DEF OpenFromTop
  <2> QED BY <1>2, <2>2
<1> QED BY <1>3, <1>4

\* A call is opened by a running stage, and that stage goes on running until the
\* call has returned.
LEMMA WorkerStepKeepsNestingInv ==
    ASSUME Inv, NestingInv, NEW s \in Stage, WorkerStep(s)
    PROVE  NestingInv'
<1> USE PipelineAssumption DEF Inv, NestingInv, TypeOK
<1>1. CASE EnterPipeline(s)
  <2>1. /\ Sub[s] \in Graph /\ loop[Sub[s]] = "idle" /\ worker' = worker
        /\ worker[s] = "running"
        /\ loop' = [loop EXCEPT ![Sub[s]] = "isDone"]
    BY <1>1 DEF EnterPipeline
  <2>2. CalledBeforeStarted'
    BY <2>1 DEF CalledBeforeStarted
  <2>3. ASSUME NEW G \in SUBSET Graph, G # {}, Top \notin G,
               \A g \in G : Open(g)'
        PROVE  \E r \in Stage : /\ Sub[r] \in G /\ GraphOf[r] \notin G
                                /\ worker'[r] = "running"
    <3>1. CASE Sub[s] \in G /\ GraphOf[s] \notin G
      BY <2>1, <3>1
    <3>2. CASE ~(Sub[s] \in G /\ GraphOf[s] \notin G)
      <4> DEFINE H == G \ {Sub[s]}
      <4>1. H # {}
        <5>1. CASE Sub[s] \notin G
          BY <2>3, <5>1
        <5>2. CASE GraphOf[s] \in G
          BY <5>2
        <5> QED BY <3>2, <5>1, <5>2
      <4>2. \A g \in H : Open(g)
        BY <2>1, <2>3 DEF Open
      <4>3. PICK r \in Stage : /\ Sub[r] \in H /\ GraphOf[r] \notin H
                               /\ worker[r] = "running"
        BY <2>3, <4>1, <4>2, H \in SUBSET Graph DEF OpenFromTop
      <4>4. GraphOf[r] # Sub[s]
        BY <2>1, <4>3 DEF CalledBeforeStarted
      <4> QED BY <2>1, <4>3, <4>4
    <3> QED BY <3>1, <3>2
  <2> QED BY <2>2, <2>3 DEF OpenFromTop
<1>2. CASE ~EnterPipeline(s)
  <2>1. loop' = loop /\ worker[s] # "none"
    BY <1>2 DEF WorkerStep, RunSucceeds, RunFails, RecordError,
       DoneDespiteFailure, WorkerExits
  <2>2. \A r \in Stage \ {s} : worker'[r] = worker[r]
    BY <1>2 DEF WorkerStep, RunSucceeds, RunFails, RecordError,
       DoneDespiteFailure, WorkerExits
  <2>3. worker[s] = "running" => Sub[s] = NoGraph \/ ~Open(Sub[s])
    BY <1>2 DEF WorkerStep, RunSucceeds, CanSucceed, RunFails, CanFail,
       RecordError, DoneDespiteFailure, WorkerExits, Open
  <2>4. CalledBeforeStarted'
    BY <2>1, <2>2 DEF CalledBeforeStarted
  <2>5. OpenFromTop'
    <3> SUFFICES ASSUME NEW G \in SUBSET Graph, G # {}, Top \notin G,
                        \A g \in G : Open(g)'
                 PROVE  \E r \in Stage : /\ Sub[r] \in G /\ GraphOf[r] \notin G
                                         /\ worker'[r] = "running"
      BY DEF OpenFromTop
    <3>1. \A g \in G : Open(g)
      BY <2>1 DEF Open
    <3>2. PICK r \in Stage : /\ Sub[r] \in G /\ GraphOf[r] \notin G
                             /\ worker[r] = "running"
      BY <3>1 DEF OpenFromTop
    <3>3. r # s
      BY <2>3, <3>1, <3>2
    <3> QED BY <2>2, <3>2, <3>3
  <2> QED BY <2>4, <2>5
<1> QED BY <1>1, <1>2

\* NestingInv is inductive, relative to Inv.
LEMMA NextKeepsNestingInv == Inv /\ NestingInv /\ [Next]_vars => NestingInv'
<1>1. ASSUME NestingInv, UserCancel \/ UNCHANGED vars PROVE NestingInv'
  BY <1>1 DEF UserCancel, vars, NestingInv, CalledBeforeStarted, OpenFromTop,
     Open
<1> QED BY <1>1, LoopStepKeepsNestingInv, WorkerStepKeepsNestingInv
           DEF Next, Ended

\* Initially only the call on Top is open.
LEMMA InitHasNestingInv == Init => NestingInv
<1> SUFFICES ASSUME Init PROVE NestingInv
  OBVIOUS
<1>1. \A g \in Graph \ {Top} : ~Open(g)
  BY DEF Init, Open
<1>2. OpenFromTop
  BY <1>1 DEF OpenFromTop
<1> QED BY <1>2 DEF Init, NestingInv, CalledBeforeStarted

\* It holds of every reachable state of every pipeline.
THEOREM SpecKeepsNestingInv == Spec => []NestingInv
BY InitHasNestingInv, SpecKeepsInv, NextKeepsNestingInv, PTL DEF Spec

\* When the call on Top has returned no call is open: the open ones would lead
\* back to a running stage of a call that is not.
LEMMA NothingOutlivesTop ==
    ASSUME Inv, NestingInv, loop[Top] = "returned"
    PROVE  \A s \in Stage : ~Live(s)
<1> USE PipelineAssumption DEF Inv, NestingInv
<1> DEFINE G == {g \in Graph : Open(g)}
<1>1. Top \notin G /\ G \in SUBSET Graph
  BY DEF Open
<1>2. ASSUME NEW s \in Stage, Live(s) PROVE GraphOf[s] \in G
  BY <1>2 DEF ReturnedAfterWait, LiveAreCounted, CalledBeforeStarted, Open, Live
<1>3. G = {}
  <2> SUFFICES ASSUME G # {} PROVE FALSE
    OBVIOUS
  <2>1. PICK s \in Stage : /\ Sub[s] \in G /\ GraphOf[s] \notin G
                           /\ worker[s] = "running"
    BY <1>1 DEF OpenFromTop
  <2> QED BY <1>2, <2>1 DEF Live
<1> QED BY <1>2, <1>3

\* When Schedule answers the CLI, no goroutine of any graph is left, however deep
\* the graphs are nested.
THEOREM NothingIsLeftBehind == Spec => []TopReturnsLast
<1>1. Inv /\ NestingInv => TopReturnsLast
  BY NothingOutlivesTop DEF TopReturnsLast
<1> QED BY <1>1, SpecKeepsInv, SpecKeepsNestingInv, PTL
=============================================================================
