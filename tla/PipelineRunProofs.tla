-------------------------- MODULE PipelineRunProofs --------------------------
(***************************************************************************)
(* The scheduler and the runner together: what is proved of Scheduler      *)
(* alone holds of the composition, and so do the properties that take both *)
(* of them, for every pipeline and every choice of tasks and contexts.     *)
(***************************************************************************)
EXTENDS PipelineRun, ExecutionProofs

(***************************************************************************)
(* The composition as a Scheduler.                                         *)
(***************************************************************************)
\* Every step of the composition is one of the scheduler's, or leaves it alone.
LEMMA StepIsScheduled == [RunNext]_allVars => [Next]_vars
BY DEF RunNext, SchedulerMoves, LoopCallsCancel, LoopLeavesCancel, CallsRun,
   WorkerMoves, RunAnswered, TaskMoves, SignalArrives, CliCancels,
   CliCancelReturns, RunFinishes, RunEnded, allVars, Next, LoopStep, WorkerStep

\* The abstract task runner of Scheduler promises no more than the real one
\* does: with the real one, too, every behaviour is one of Scheduler.
THEOREM RunImplementsScheduler == RunSpec => Spec
BY StepIsScheduled, PTL DEF RunSpec, RunInit, Spec

(***************************************************************************)
(* What a step of a Run does, and to whom.                                 *)
(***************************************************************************)
\* It moves one task that is under way, and adds to the environment at most.
Frame(t) ==
    /\ pc[t] \notin {"idle", "returned"} /\ pc'[t] # "idle"
    /\ \A u \in TaskStage \ {t} :
          /\ pc'[u] = pc[u] /\ purpose'[u] = purpose[u]
          /\ result'[u] = result[u] /\ skipped'[u] = skipped[u]
          /\ seen'[u] = seen[u]
    /\ env \subseteq env' /\ down' = down
    /\ RunTypeOK'
    /\ HasEnv(t)' => seen'[t] = env \/ (HasEnv(t) /\ seen'[t] = seen[t])
    /\ t \in HasArtifact =>
          /\ pc'[t] = "after" => purpose'[t] = "after"
          /\ purpose'[t] = "after" => t \in env'
          /\ result'[t] = "ok" => skipped'[t] \/ t \in env'

\* All steps of Run are like that.
LEMMA RunStepFrames ==
    ASSUME RunTypeOK, OkIsStored, NEW t \in TaskStage, Runner!RunStep(t)
    PROVE  Frame(t)
<1> USE DEF RunTypeOK, OkIsStored, HasEnv, Frame, Runner!At, Runner!Goto,
            Runner!Places, Runner!Purposes, Runner!taskVars, Runner!ctxVars,
            Runner!cancelVars
<1>1. ASSUME Runner!UseDefaultContext(t) PROVE Frame(t)
  BY <1>1 DEF Runner!UseDefaultContext, Runner!Continuation
<1>2. ASSUME Runner!NoSuchContext(t) PROVE Frame(t)
  BY <1>2 DEF Runner!NoSuchContext, Runner!Leave
<1>3. ASSUME Runner!FindContext(t) PROVE Frame(t)
  BY <1>3 DEF Runner!FindContext, Runner!Register
<1>4. ASSUME Runner!BeginUp(t) PROVE Frame(t)
  BY <1>4 DEF Runner!BeginUp
<1>5. ASSUME Runner!UpSucceeds(t) PROVE Frame(t)
  BY <1>5 DEF Runner!UpSucceeds
<1>6. ASSUME Runner!UpFails(t) PROVE Frame(t)
  BY <1>6 DEF Runner!UpFails, Runner!Leave
<1>7. ASSUME Runner!FindUp(t) PROVE Frame(t)
  BY <1>7 DEF Runner!FindUp
<1>8. ASSUME Runner!FindFailed(t) PROVE Frame(t)
  BY <1>8 DEF Runner!FindFailed, Runner!Leave
<1>9. ASSUME Runner!BeforeHookSucceeds(t) PROVE Frame(t)
  BY <1>9 DEF Runner!BeforeHookSucceeds, Runner!Continuation
<1>10. ASSUME Runner!BeforeHookFails(t) PROVE Frame(t)
  BY <1>10 DEF Runner!BeforeHookFails, Runner!Leave
<1>11. ASSUME Runner!BuildEnv(t) PROVE Frame(t)
  BY <1>11 DEF Runner!BuildEnv, Runner!GoOn, Runner!CallContext
<1>12. ASSUME Runner!OutputUnknown(t) PROVE Frame(t)
  BY <1>12 DEF Runner!OutputUnknown
<1>13. ASSUME Runner!EnvFileFails(t) PROVE Frame(t)
  BY <1>13 DEF Runner!EnvFileFails
<1>14. ASSUME Runner!ConditionMet(t) PROVE Frame(t)
  BY <1>14 DEF Runner!ConditionMet, Runner!GoOn, Runner!CallContext
<1>15. ASSUME Runner!ConditionNotMet(t) PROVE Frame(t)
  BY <1>15 DEF Runner!ConditionNotMet, Runner!Leave
<1>16. ASSUME Runner!FailUnmarked(t) PROVE Frame(t)
  BY <1>16 DEF Runner!FailUnmarked, Runner!Leave
<1>17. ASSUME Runner!BeginExecute(t) PROVE Frame(t)
  BY <1>17 DEF Runner!BeginExecute
<1>18. ASSUME Runner!BeginJob(t) PROVE Frame(t)
  BY <1>18 DEF Runner!BeginJob
<1>19. ASSUME Runner!JobSucceeds(t) PROVE Frame(t)
  BY <1>19 DEF Runner!JobSucceeds
<1>20. ASSUME Runner!JobExits(t) PROVE Frame(t)
  BY <1>20 DEF Runner!JobExits, Runner!Leave
<1>21. ASSUME Runner!JobAborts(t) PROVE Frame(t)
  BY <1>21 DEF Runner!JobAborts, Runner!Leave
<1>22. ASSUME Runner!EndExecute(t) PROVE Frame(t)
  BY <1>22 DEF Runner!EndExecute
<1>23. ASSUME Runner!StoreOutput(t) PROVE Frame(t)
  BY <1>23 DEF Runner!StoreOutput, Runner!Finally, Runner!CallContext,
     Runner!Leave
<1>24. ASSUME Runner!StoreFails(t) PROVE Frame(t)
  BY <1>24 DEF Runner!StoreFails, Runner!Leave
<1>25. ASSUME Runner!AfterCommands(t) PROVE Frame(t)
  BY <1>25 DEF Runner!AfterCommands, Runner!Leave
<1>26. ASSUME Runner!AfterHook(t) PROVE Frame(t)
  BY <1>26 DEF Runner!AfterHook
<1>27. ASSUME Runner!Return(t) PROVE Frame(t)
  BY <1>27 DEF Runner!Return
<1> QED BY <1>1, <1>2, <1>3, <1>4, <1>5, <1>6, <1>7, <1>8, <1>9, <1>10, <1>11,
           <1>12, <1>13, <1>14, <1>15, <1>16, <1>17, <1>18, <1>19, <1>20,
           <1>21, <1>22, <1>23, <1>24, <1>25, <1>26, <1>27 DEF Runner!RunStep

(***************************************************************************)
(* What a step of the scheduler does.                                      *)
(***************************************************************************)
\* The loop starts stages that no goroutine runs, and settles only such.
LEMMA LoopStepFrames ==
    ASSUME Inv, NEW g \in Graph, LoopStep(g)
    PROVE  /\ errors' = errors
           /\ loop[Top] = "returned" => loop'[Top] = "returned"
           /\ \A s \in Stage :
                 /\ \/ worker'[s] = worker[s]
                    \/ worker[s] = "none" /\ worker'[s] = "running"
                 /\ status'[s] = status[s] \/ worker[s] = "none"
                 /\ status'[s] = "error" =>
                       status[s] = "error" \/ s \in HasCondition
<1> USE DEF Inv, TypeOK
<1>1. \/ Launch(g)
      \/ worker' = worker
  BY DEF LoopStep, TestDone, PollCancelled, ConditionErrs, ConditionNotMet,
     BeginCheckStatus, ReadParent, NotReady, CancelFromLoop,
     RunnerCancelReturns, EndPass, Return
<1>2. ASSUME Launch(g)
      PROVE  /\ visiting[g] \in Stage /\ worker[visiting[g]] = "none"
             /\ worker' = [worker EXCEPT ![visiting[g]] = "running"]
             /\ status' = [status EXCEPT ![visiting[g]] = "running"]
  BY <1>2 DEF Launch, VisitIsLocal, StagesOf
<1>3. ASSUME worker' = worker, NEW s \in Stage, status'[s] # status[s]
      PROVE  /\ worker[s] = "none"
             /\ status'[s] = "error" => s \in HasCondition
  BY <1>3 DEF LoopStep, TestDone, PollCancelled, ConditionErrs, AtNode,
     ConditionNotMet, BeginCheckStatus, ReadParent, NotReady, CancelFromLoop,
     RunnerCancelReturns, EndPass, Return, Launch, VisitIsLocal, StagesOf,
     StatusMatchesWorker, WorkerStates
<1>4. errors' = errors /\ (loop[Top] = "returned" => loop'[Top] = "returned")
  BY PipelineAssumption
     DEF LoopStep, TestDone, PollCancelled, ConditionErrs, AtNode,
     ConditionNotMet, BeginCheckStatus, ReadParent, NotReady, CancelFromLoop,
     RunnerCancelReturns, EndPass, Return, Launch, LeaveNode
<1> QED BY <1>1, <1>2, <1>3, <1>4

(***************************************************************************)
(* What a task waits for is over, across the graphs.                       *)
(***************************************************************************)
\* It does not run, and will not.
LEMMA WaitedForIsOver ==
    ASSUME Inv, NestingInv, RunInv, NEW s \in TaskStage, NEW p \in HasArtifact,
           WaitsFor(s, p), worker[s] # "none"
    PROVE  worker[p] # "running" /\ pc[p] \in {"idle", "returned"}
<1> USE PipelineAssumption, TaskStageAssumption DEF TaskStage
<1>1. Over(p)
  <2>1. ASSUME NEW r \in Stage, DependsOn[r] = {p}, worker[r] # "none"
        PROVE  Over(p)
    BY <2>1 DEF Inv, StartedBehindAParent, Parents
  <2>2. ASSUME NEW h \in Stage, Sub[h] = GraphOf[s]
        PROVE  worker[h] # "none"
    BY <2>2 DEF Inv, NestedWithinRun, NestingInv, CalledBeforeStarted
  <2> QED BY <2>1, <2>2 DEF WaitsFor
<1>2. p \in TaskStage /\ p # Root
  OBVIOUS
<1> QED BY <1>1, <1>2 DEF Inv, Over, TypeOK, WorkerStates, StatusMatchesWorker,
           RunInv, RunWithinWorker

(***************************************************************************)
(* The invariant.                                                          *)
(***************************************************************************)
\* The loop of a graph keeps it: it meddles only with stages that were not run.
LEMMA LoopStepKeepsRunInv ==
    ASSUME Inv, VerdictInv, RunInv, NEW g \in Graph, LoopStep(g),
           UNCHANGED <<pc, purpose, result, skipped, seen, env, down>>
    PROVE  RunInv'
<1> USE LoopStepFrames DEF TaskStage
<1>1. RunTypeOK' /\ OkIsStored' /\ BuiltBehind'
  BY DEF RunInv, RunTypeOK, OkIsStored, BuiltBehind, HasEnv
<1>2. RunWithinWorker'
  BY DEF RunInv, RunWithinWorker
<1>3. StatusIsVerdict'
  BY DEF RunInv, StatusIsVerdict
<1>4. UnrunHasCondition'
  BY DEF RunInv, UnrunHasCondition
<1>5. DownAfterSchedule'
  BY DEF RunInv, DownAfterSchedule
<1> QED BY <1>1, <1>2, <1>3, <1>4, <1>5 DEF RunInv

\* So does a goroutine: it takes the answer of Run, or has none to take.
LEMMA WorkerMovesKeepsRunInv ==
    ASSUME Inv, VerdictInv, RunInv, NEW s \in Stage, WorkerMoves(s)
    PROVE  RunInv'
<1> USE PipelineAssumption
    DEF Inv, TypeOK, WorkerStates, TaskStage, WorkerMoves, runnerVars
<1>1. RunTypeOK' /\ OkIsStored' /\ BuiltBehind'
  BY DEF RunInv, RunTypeOK, OkIsStored, BuiltBehind, HasEnv
<1>2. RunWithinWorker'
  BY DEF RunInv, RunWithinWorker, RunAnswered, Answers, EnterPipeline,
     RunSucceeds, RunFails, RecordError, DoneDespiteFailure, WorkerExits
<1>3. StatusIsVerdict'
  BY DEF RunInv, StatusIsVerdict, VerdictInv, FailedAreRecorded,
     StatusMatchesWorker, RunAnswered, Answers, EnterPipeline, RunSucceeds,
     RunFails, RecordError, WithStageError, DoneDespiteFailure, WorkerExits
<1>4. UnrunHasCondition'
  BY DEF RunInv, UnrunHasCondition, RunAnswered, EnterPipeline, RunSucceeds,
     RunFails, RecordError, DoneDespiteFailure, WorkerExits
<1>5. DownAfterSchedule'
  BY DEF RunInv, DownAfterSchedule, RunAnswered, EnterPipeline, RunSucceeds,
     RunFails, RecordError, DoneDespiteFailure, WorkerExits
<1> QED BY <1>1, <1>2, <1>3, <1>4, <1>5 DEF RunInv

\* A call of Run comes from a stage that is running, so nothing is known of the
\* task yet.
LEMMA CallsRunKeepsRunInv ==
    ASSUME Inv, RunInv, NEW s \in TaskStage, CallsRun(s)
    PROVE  RunInv'
<1> USE DEF RunInv, RunTypeOK, CallsRun, vars, Runner!Run, Runner!At,
            Runner!Goto, Runner!CallContext, Runner!taskVars, Runner!ctxVars,
            Runner!cancelVars
<1>1. RunTypeOK'
  BY DEF Runner!Places, Runner!Purposes
<1>2. RunWithinWorker' /\ StatusIsVerdict' /\ UnrunHasCondition'
  BY DEF RunWithinWorker, StatusIsVerdict, UnrunHasCondition, TaskStage
<1>3. DownAfterSchedule' /\ OkIsStored'
  BY TaskStageAssumption DEF DownAfterSchedule, OkIsStored
<1>4. BuiltBehind'
  BY TaskStageAssumption DEF BuiltBehind, HasEnv, WaitsFor
<1> QED BY <1>1, <1>2, <1>3, <1>4

\* A step of a Run: what the task waits for does not move any more, so the
\* environment it is given has what was stored, and the answer is not taken
\* yet.
LEMMA TaskMovesKeepsRunInv ==
    ASSUME Inv, NestingInv, RunInv, NEW t \in TaskStage, TaskMoves(t)
    PROVE  RunInv'
<1> USE TaskStageAssumption
<1>1. Frame(t) /\ UNCHANGED vars
  BY RunStepFrames DEF RunInv, TaskMoves
<1>2. worker[t] = "running"
  BY <1>1 DEF RunInv, RunWithinWorker, Frame
<1>3. RunTypeOK'
  BY <1>1 DEF Frame
<1>4. RunWithinWorker' /\ StatusIsVerdict' /\ UnrunHasCondition'
  BY <1>1, <1>2 DEF RunInv, RunWithinWorker, StatusIsVerdict,
     UnrunHasCondition, Frame, vars
<1>5. DownAfterSchedule' /\ OkIsStored'
  BY <1>1 DEF RunInv, DownAfterSchedule, OkIsStored, Frame, vars
<1>6. BuiltBehind'
  <2> SUFFICES ASSUME NEW s \in TaskStage, NEW p \in HasArtifact,
                      WaitsFor(s, p), HasEnv(s)', result'[p] = "ok",
                      ~skipped'[p]
               PROVE  p \in seen'[s]
    BY DEF BuiltBehind, WaitsFor
  <2>1. pc[s] # "idle"
    BY <1>1 DEF Frame, HasEnv
  <2>2. worker[p] # "running"
    BY <2>1, WaitedForIsOver DEF RunInv, RunWithinWorker
  <2>3. result[p] = "ok" /\ ~skipped[p] /\ p \in env
    BY <1>1, <1>2, <2>2 DEF Frame, RunInv, OkIsStored
  <2>4. CASE s = t
    BY <1>1, <2>3, <2>4 DEF Frame, RunInv, BuiltBehind
  <2>5. CASE s # t
    BY <1>1, <2>3, <2>5 DEF Frame, RunInv, BuiltBehind, HasEnv
  <2> QED BY <2>4, <2>5
<1> QED BY <1>3, <1>4, <1>5, <1>6 DEF RunInv

\* Everything else leaves the tasks alone.
LEMMA OthersKeepRunInv ==
    ASSUME RunInv,
           \/ \E g \in Graph : LoopCallsCancel(g)
           \/ SignalArrives \/ CliCancels \/ CliCancelReturns
           \/ RunFinishes \/ UNCHANGED allVars
    PROVE  RunInv'
<1>1. /\ UNCHANGED vars
      /\ UNCHANGED <<pc, purpose, result, skipped, seen, env>>
      /\ down' = down \/ loop[Top] = "returned"
  BY DEF LoopCallsCancel, SignalArrives, CliCancels, CliCancelReturns,
     RunFinishes, allVars, runnerVars, vars, Runner!Cancel,
     Runner!CancelReturns, Runner!DownAll, Runner!taskVars, Runner!ctxVars,
     Runner!cancelVars
<1> QED BY <1>1 DEF vars, RunInv, RunTypeOK, RunWithinWorker, StatusIsVerdict,
           UnrunHasCondition, DownAfterSchedule, OkIsStored, BuiltBehind,
           HasEnv

\* RunInv is inductive, relative to the invariants of Scheduler.
LEMMA RunNextKeepsRunInv ==
    Inv /\ VerdictInv /\ NestingInv /\ RunInv /\ [RunNext]_allVars => RunInv'
<1> SUFFICES ASSUME Inv, VerdictInv, NestingInv, RunInv, [RunNext]_allVars
             PROVE  RunInv'
  OBVIOUS
<1>1. ASSUME NEW g \in Graph, SchedulerMoves(g) PROVE RunInv'
  BY <1>1, LoopStepKeepsRunInv DEF SchedulerMoves, runnerVars
<1>2. ASSUME NEW g \in Graph, LoopLeavesCancel(g) PROVE RunInv'
  BY <1>2, LoopStepKeepsRunInv DEF LoopLeavesCancel, LoopStep
<1> QED BY <1>1, <1>2, WorkerMovesKeepsRunInv, CallsRunKeepsRunInv,
           TaskMovesKeepsRunInv, OthersKeepRunInv DEF RunNext, RunEnded

\* It holds initially.
LEMMA InitHasRunInv == RunInit => RunInv
BY PipelineAssumption, TaskStageAssumption
   DEF RunInit, Init, Runner!Init, RunInv, RunTypeOK, RunWithinWorker,
       StatusIsVerdict, UnrunHasCondition, DownAfterSchedule, OkIsStored,
       BuiltBehind, HasEnv, TaskStage, Runner!Places, Runner!Purposes

\* It holds of every reachable state of the composition, and so do the
\* invariants of Scheduler.
THEOREM RunKeepsInv == RunSpec => [](Inv /\ VerdictInv /\ NestingInv /\ RunInv)
<1>1. RunSpec => [](Inv /\ VerdictInv /\ NestingInv)
  BY RunImplementsScheduler, SpecKeepsInv, SpecKeepsVerdictInv,
     SpecKeepsNestingInv, PTL
<1> QED BY <1>1, InitHasRunInv, RunNextKeepsRunInv, PTL DEF RunSpec

\* Finish takes a context down when no task of any graph uses it any more.
THEOREM DownComesLast == RunSpec => []DownAfterUse
<1>1. Inv /\ NestingInv /\ RunInv => DownAfterUse
  BY NothingOutlivesTop
     DEF RunInv, DownAfterUse, DownAfterSchedule, RunWithinWorker, Live,
         TaskStage
<1> QED BY <1>1, RunKeepsInv, PTL

\* The status of a stage and the answer of its Run agree.
THEOREM StatusAgreesWithRun == RunSpec => []StatusTellsResult
<1>1. Inv /\ RunInv => StatusTellsResult
  BY DEF Inv, TypeOK, WorkerStates, StatusMatchesWorker, RunInv, RunTypeOK,
     RunWithinWorker, StatusIsVerdict, UnrunHasCondition, StatusTellsResult,
     TaskStage
<1> QED BY <1>1, RunKeepsInv, PTL

\* The artifact of a task reaches the task that waits for it, through however
\* the stage of the one depends on that of the other.
THEOREM ArtifactArrives == RunSpec => []ArtifactIsReady
<1>1. RunInv => ArtifactIsReady
  BY DEF RunInv, BuiltBehind, HasEnv, ArtifactIsReady
<1> QED BY <1>1, RunKeepsInv, PTL
=============================================================================
