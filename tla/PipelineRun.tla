----------------------------- MODULE PipelineRun -----------------------------
(***************************************************************************)
(* taskctl run <pipeline>: the Scheduler with the real TaskRunner under    *)
(* it, and the goroutine of cmd/taskctl/taskctl.go that cancels the runner *)
(* (not the scheduler) when a signal ends the program's context.           *)
(*                                                                         *)
(* A stage that holds a task is that task: Denormalize gives every stage a *)
(* task of its own.  The loop of each graph and the CLI are the callers of *)
(* Cancel.                                                                 *)
(***************************************************************************)
EXTENDS Scheduler, Naturals

CONSTANTS Context, Default, Unknown, ContextOf, Jobs, Tolerant, Conditional,
          HasBefore, HasAfter, HasArtifact, Signals, Cli

VARIABLES pc, purpose, left, result, errored, skipped, exitCode, before, after,
          seen, env, up, cleanup, down, canceling, ctxDone, doneClosed, crashed,
          cancel,
          signaled      \* the program's context is done

TaskStage == {s \in Stage : Sub[s] = NoGraph}

ASSUME TaskStageAssumption == HasArtifact \subseteq TaskStage

Runner == INSTANCE TaskRunner WITH
    Task <- TaskStage,
    Canceler <- Graph \cup {Cli}

runnerVars == <<pc, purpose, left, result, errored, skipped, exitCode, before,
                after, seen, env, up, cleanup, down, canceling, ctxDone,
                doneClosed, crashed, cancel>>
allVars == <<vars, runnerVars, signaled>>

RunInit == Init /\ Runner!Init /\ signaled = FALSE

(***************************************************************************)
(* The loop of Schedule.  Its call of TaskRunner.Cancel blocks, and with   *)
(* it the pass.                                                            *)
(***************************************************************************)
SchedulerMoves(g) ==
    /\ ~crashed
    /\ loop[g] # "cancelRunner"
    /\ LoopStep(g)
    /\ UNCHANGED <<runnerVars, signaled>>

LoopCallsCancel(g) ==
    /\ loop[g] = "cancelRunner"
    /\ Runner!Cancel(g)
    /\ UNCHANGED <<vars, signaled>>

LoopLeavesCancel(g) ==
    /\ ~crashed
    /\ cancel[g] = "waiting"
    /\ doneClosed
    /\ cancel' = [cancel EXCEPT ![g] = "idle"]
    /\ RunnerCancelReturns(g)
    /\ UNCHANGED <<pc, purpose, left, result, errored, skipped, exitCode,
                   before, after, seen, env, up, cleanup, down, canceling,
                   ctxDone, doneClosed, crashed, signaled>>

(***************************************************************************)
(* The goroutine of a stage.                                               *)
(***************************************************************************)
CallsRun(s) ==
    /\ worker[s] = "running"
    /\ Runner!Run(s)
    /\ UNCHANGED <<vars, signaled>>

\* [mutants] the answer of Run is not waited for, or not looked at.
AnswersAtOnce(s, verdict) == TRUE
AnswersWhatever(s, verdict) == Sub[s] = NoGraph => pc[s] = "returned"

Answers(s, verdict) ==
    Sub[s] = NoGraph => pc[s] = "returned" /\ result[s] = verdict

RunAnswered(s) ==
    \/ Answers(s, "ok") /\ RunSucceeds(s)
    \/ Answers(s, "error") /\ RunFails(s)

WorkerMoves(s) ==
    /\ ~crashed
    /\ EnterPipeline(s) \/ RunAnswered(s) \/ RecordError(s)
          \/ DoneDespiteFailure(s) \/ WorkerExits(s)
    /\ UNCHANGED <<runnerVars, signaled>>

TaskMoves(s) == Runner!RunStep(s) /\ UNCHANGED <<vars, signaled>>

(***************************************************************************)
(* The CLI.                                                                *)
(***************************************************************************)
\* SIGINT or SIGTERM: main.go cancels the program's context, the parent of the
\* runner's.
SignalArrives ==
    /\ Signals
    /\ ~crashed
    /\ ~signaled
    /\ signaled' = TRUE
    /\ ctxDone' = TRUE
    /\ UNCHANGED <<vars, pc, purpose, left, result, errored, skipped, exitCode,
                   before, after, seen, env, up, cleanup, down, canceling,
                   doneClosed, crashed, cancel>>

CliCancels ==
    /\ signaled
    /\ Runner!Cancel(Cli)
    /\ UNCHANGED <<vars, signaled>>

CliCancelReturns == Runner!CancelReturns(Cli) /\ UNCHANGED <<vars, signaled>>

\* runPipeline defers Finish behind Schedule.
RunFinishes ==
    /\ loop[Top] = "returned"
    /\ Runner!DownAll
    /\ UNCHANGED <<vars, signaled>>

\* A loop waits in Cancel for a Run to close doneCh, and none is under way.
Unanswered(g) ==
    /\ cancel[g] = "waiting"
    /\ ~doneClosed
    /\ \A s \in TaskStage : pc[s] \in {"idle", "returned"}

\* The program is over, by its end or by a panic, or stuck.
RunEnded ==
    /\ crashed \/ loop[Top] = "returned" \/ \E g \in Graph : Unanswered(g)
    /\ UNCHANGED allVars

RunNext ==
    \/ \E g \in Graph :
          SchedulerMoves(g) \/ LoopCallsCancel(g) \/ LoopLeavesCancel(g)
    \/ \E s \in Stage : WorkerMoves(s)
    \/ \E s \in TaskStage : CallsRun(s) \/ TaskMoves(s)
    \/ SignalArrives
    \/ CliCancels
    \/ CliCancelReturns
    \/ RunFinishes
    \/ RunEnded

RunSpec == RunInit /\ [][RunNext]_allVars

(***************************************************************************)
(* All goroutines run and all commands end; a signal may never come, but   *)
(* the goroutine that waits for it reacts.                                 *)
(***************************************************************************)
RunFairSpec ==
    /\ RunSpec
    /\ \A g \in Graph :
          /\ WF_allVars(SchedulerMoves(g))
          /\ WF_allVars(LoopCallsCancel(g))
          /\ WF_allVars(LoopLeavesCancel(g))
    /\ \A s \in Stage : WF_allVars(WorkerMoves(s))
    /\ \A s \in TaskStage : WF_allVars(CallsRun(s)) /\ WF_allVars(TaskMoves(s))
    /\ WF_allVars(CliCancels)
    /\ WF_allVars(CliCancelReturns)
    /\ WF_allVars(RunFinishes)

-----------------------------------------------------------------------------
\* The down commands of a context run when no task is using the context any
\* more: Finish comes after Schedule, and Schedule waits for every goroutine
\* of the graph and of the graphs nested in it.
DownAfterUse ==
    \A s \in TaskStage :
        ContextOf[s] \in down => pc[s] \in {"idle", "returned"}

\* docs/artifacts.md: a task that waits for a single other task, by its own
\* depends_on or by that of the stage that holds its pipeline, runs with the
\* variables of that task's artifact if the task succeeded.
WaitsFor(s, p) ==
    \/ DependsOn[s] = {p}
    \/ /\ DependsOn[s] = {}
       /\ \E h \in Stage : Sub[h] = GraphOf[s] /\ DependsOn[h] = {p}

ArtifactIsReady ==
    \A s \in TaskStage, p \in HasArtifact :
        /\ WaitsFor(s, p)
        /\ result[p] = "ok" /\ ~skipped[p]
        /\ pc[s] = "command"
        => p \in seen[s]

\* The status of a stage tells how its task ended, across the goroutine, the
\* runner and AllowFailure: done means that Run returned nil or that its error
\* is recorded and tolerated, error that Run returned one or was never called.
StatusTellsResult ==
    \A s \in TaskStage :
        /\ status[s] = "done" =>
              /\ pc[s] = "returned"
              /\ result[s] = "error" => s \in AllowFailure \cap errors[GraphOf[s]]
        /\ status[s] = "error" =>
              IF pc[s] = "idle" THEN s \in HasCondition ELSE result[s] = "error"

\* The run ends: Schedule returns.
ScheduleReturns == <>(loop[Top] = "returned")

\* Whatever the tasks do and whenever a signal comes, the run ends or dies,
\* but for the one way it can get stuck: in Cancel, after a condition that
\* could not be run, with no task left to answer.
RunEnds ==
    <>(loop[Top] = "returned" \/ crashed \/ \E g \in Graph : Unanswered(g))

-----------------------------------------------------------------------------
(***************************************************************************)
(* The inductive invariant behind the safety properties, relative to those *)
(* of Scheduler.                                                           *)
(***************************************************************************)
RunTypeOK ==
    /\ pc \in [TaskStage -> Runner!Places]
    /\ purpose \in [TaskStage -> Runner!Purposes]
    /\ result \in [TaskStage -> {"none", "ok", "error"}]
    /\ skipped \in [TaskStage -> BOOLEAN]
    /\ seen \in [TaskStage -> SUBSET TaskStage]
    /\ env \subseteq TaskStage

\* Run is called by runStage, which waits for it.
RunWithinWorker ==
    \A s \in TaskStage :
        /\ worker[s] = "none" => pc[s] = "idle"
        /\ worker[s] \notin {"none", "running"} => pc[s] = "returned"

\* What runStage makes of the answer of Run.
StatusIsVerdict ==
    \A s \in TaskStage :
        /\ worker[s] \in {"failed", "tolerated"} => result[s] = "error"
        /\ worker[s] \in {"finished", "exited"} =>
              IF status[s] = "done" /\ s \notin AllowFailure \cap errors[GraphOf[s]]
              THEN result[s] = "ok"
              ELSE status[s] = "error" => result[s] = "error"

\* A stage that failed without having been run has a condition.
UnrunHasCondition ==
    \A s \in Stage : status[s] = "error" /\ worker[s] = "none" => s \in HasCondition

\* The run command gets to Finish once Schedule has returned.
DownAfterSchedule == down # {} => loop[Top] = "returned"

\* A Run that has stored its artifact, if there is one, has an after command to
\* run or answers nil; so does only one that is skipped otherwise.
OkIsStored ==
    \A p \in HasArtifact :
        /\ pc[p] = "after" => purpose[p] = "after"
        /\ purpose[p] = "after" => p \in env
        /\ result[p] = "ok" => skipped[p] \/ p \in env

\* The environment of a task has been built.
HasEnv(s) ==
    /\ pc[s] \notin {"idle", "prepare", "closing", "deferred", "returned"}
    /\ ~(purpose[s] = "run" /\ pc[s] \in {"context", "up", "starting", "hook"})

\* It is built when what the task waits for is over.
BuiltBehind ==
    \A s \in TaskStage, p \in HasArtifact :
        WaitsFor(s, p) /\ HasEnv(s) /\ result[p] = "ok" /\ ~skipped[p] => p \in seen[s]

RunInv ==
    /\ RunTypeOK
    /\ RunWithinWorker
    /\ StatusIsVerdict
    /\ UnrunHasCondition
    /\ DownAfterSchedule
    /\ OkIsStored
    /\ BuiltBehind
=============================================================================
