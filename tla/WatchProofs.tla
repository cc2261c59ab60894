----------------------------- MODULE WatchProofs -----------------------------
(***************************************************************************)
(* The safety properties of Watch, proved for any number of watchers and   *)
(* of events; and that the runner of the watchers is a TaskRunner, so that *)
(* what is proved of TaskRunner holds of it too.                           *)
(***************************************************************************)
EXTENDS Watch, TLAPS

(***************************************************************************)
(* What a step of a Run does, and to whom.                                 *)
(***************************************************************************)
\* It moves one call that is under way, starts a command only in a Go context
\* that is not done, and closes doneCh only to return.
Frame(c) ==
    /\ pc[c] \notin {"idle", "returned"} /\ pc'[c] # "idle"
    /\ \A d \in Call \ {c} : pc'[d] = pc[d]
    /\ pc' \in [Call -> Runner!Places]
    /\ purpose' \in [Call -> Runner!Purposes]
    /\ pc'[c] = "command" => ~ctxDone
    /\ doneClosed => doneClosed'
    /\ doneClosed' => doneClosed \/ pc'[c] = "returned"
    /\ UNCHANGED <<ctxDone, cancel>>

\* All steps of Run are like that.
LEMMA RunStepFrames ==
    ASSUME WatchTypeOK, NEW c \in Call, Runner!RunStep(c)
    PROVE  Frame(c)
<1> USE DEF WatchTypeOK, Frame, Runner!At, Runner!Goto, Runner!Places,
            Runner!Purposes, Runner!taskVars, Runner!ctxVars, Runner!cancelVars
<1>1. ASSUME Runner!UseDefaultContext(c) PROVE Frame(c)
  BY <1>1 DEF Runner!UseDefaultContext, Runner!Continuation
<1>2. ASSUME Runner!NoSuchContext(c) PROVE Frame(c)
  BY <1>2 DEF Runner!NoSuchContext, Runner!Leave
<1>3. ASSUME Runner!FindContext(c) PROVE Frame(c)
  BY <1>3 DEF Runner!FindContext, Runner!Register
<1>4. ASSUME Runner!BeginUp(c) PROVE Frame(c)
  BY <1>4 DEF Runner!BeginUp
<1>5. ASSUME Runner!UpSucceeds(c) PROVE Frame(c)
  BY <1>5 DEF Runner!UpSucceeds
<1>6. ASSUME Runner!UpFails(c) PROVE Frame(c)
  BY <1>6 DEF Runner!UpFails, Runner!Leave
<1>7. ASSUME Runner!FindUp(c) PROVE Frame(c)
  BY <1>7 DEF Runner!FindUp
<1>8. ASSUME Runner!FindFailed(c) PROVE Frame(c)
  BY <1>8 DEF Runner!FindFailed, Runner!Leave
<1>9. ASSUME Runner!BeforeHookSucceeds(c) PROVE Frame(c)
  BY <1>9 DEF Runner!BeforeHookSucceeds, Runner!Continuation
<1>10. ASSUME Runner!BeforeHookFails(c) PROVE Frame(c)
  BY <1>10 DEF Runner!BeforeHookFails, Runner!Leave
<1>11. ASSUME Runner!BuildEnv(c) PROVE Frame(c)
  BY <1>11 DEF Runner!BuildEnv, Runner!GoOn, Runner!CallContext
<1>12. ASSUME Runner!OutputUnknown(c) PROVE Frame(c)
  BY <1>12 DEF Runner!OutputUnknown
<1>13. ASSUME Runner!EnvFileFails(c) PROVE Frame(c)
  BY <1>13 DEF Runner!EnvFileFails
<1>14. ASSUME Runner!ConditionMet(c) PROVE Frame(c)
  BY <1>14 DEF Runner!ConditionMet, Runner!GoOn, Runner!CallContext
<1>15. ASSUME Runner!ConditionNotMet(c) PROVE Frame(c)
  BY <1>15 DEF Runner!ConditionNotMet, Runner!Leave
<1>16. ASSUME Runner!FailUnmarked(c) PROVE Frame(c)
  BY <1>16 DEF Runner!FailUnmarked, Runner!Leave
<1>17. ASSUME Runner!BeginExecute(c) PROVE Frame(c)
  BY <1>17 DEF Runner!BeginExecute
<1>18. ASSUME Runner!BeginJob(c) PROVE Frame(c)
  BY <1>18 DEF Runner!BeginJob
<1>19. ASSUME Runner!JobSucceeds(c) PROVE Frame(c)
  BY <1>19 DEF Runner!JobSucceeds
<1>20. ASSUME Runner!JobExits(c) PROVE Frame(c)
  BY <1>20 DEF Runner!JobExits, Runner!Leave
<1>21. ASSUME Runner!JobAborts(c) PROVE Frame(c)
  BY <1>21 DEF Runner!JobAborts, Runner!Leave
<1>22. ASSUME Runner!EndExecute(c) PROVE Frame(c)
  BY <1>22 DEF Runner!EndExecute
<1>23. ASSUME Runner!StoreOutput(c) PROVE Frame(c)
  BY <1>23 DEF Runner!StoreOutput, Runner!Finally, Runner!CallContext,
     Runner!Leave
<1>24. ASSUME Runner!StoreFails(c) PROVE Frame(c)
  BY <1>24 DEF Runner!StoreFails, Runner!Leave
<1>25. ASSUME Runner!AfterCommands(c) PROVE Frame(c)
  BY <1>25 DEF Runner!AfterCommands, Runner!Leave
<1>26. ASSUME Runner!AfterHook(c) PROVE Frame(c)
  BY <1>26 DEF Runner!AfterHook
<1>27. ASSUME Runner!Return(c) PROVE Frame(c)
  BY <1>27 DEF Runner!Return, Runner!CloseDone
<1> QED BY <1>1, <1>2, <1>3, <1>4, <1>5, <1>6, <1>7, <1>8, <1>9, <1>10, <1>11,
           <1>12, <1>13, <1>14, <1>15, <1>16, <1>17, <1>18, <1>19, <1>20,
           <1>21, <1>22, <1>23, <1>24, <1>25, <1>26, <1>27 DEF Runner!RunStep

(***************************************************************************)
(* The invariant.                                                          *)
(***************************************************************************)
\* A step of a watcher's loop, of the goroutine that calls its Run or of the
\* one that closes it keeps the invariant.
LEMMA WatcherStepKeepsWatchInv ==
    ASSUME WatchInv, NEW w \in Watcher, WatcherStep(w)
    PROVE  WatchInv'
<1> USE WatchAssumption DEF WatchInv, WatchTypeOK, Call, runnerVars
<1>1. CASE FirstRun(w)
  BY <1>1 DEF FirstRun, watchVars, Runner!Run, Runner!At, Runner!Goto,
     Runner!CallContext, Runner!Places, Runner!Purposes, Runner!taskVars,
     Runner!ctxVars, Runner!cancelVars, EndsByClose, EventRunsBehindCancel,
     AnsweredByWatcher, ExitsOnSignal
<1>2. CASE \E e \in Event : TakeEvent(w, e)
  BY <1>2 DEF TakeEvent, EndsByClose, EventRunsBehindCancel,
     AnsweredByWatcher, ExitsOnSignal, Alive
<1>3. CASE Start(w)
  BY <1>3 DEF Start, Alive, EndsByClose,
     EventRunsBehindCancel, AnsweredByWatcher, ExitsOnSignal
<1>4. CASE StartFails(w)
  BY <1>4 DEF StartFails, Alive, EndsByClose,
     EventRunsBehindCancel, AnsweredByWatcher, ExitsOnSignal
<1>5. CASE SelectNothing(w)
  BY <1>5 DEF SelectNothing, Turn, Alive, EndsByClose,
     EventRunsBehindCancel, AnsweredByWatcher, ExitsOnSignal
<1>6. CASE ChannelClosed(w)
  BY <1>6 DEF ChannelClosed, Alive, EndsByClose,
     EventRunsBehindCancel, AnsweredByWatcher, ExitsOnSignal
<1>7. CASE RunReturns(w)
  BY <1>7 DEF RunReturns, MayReturn, Alive, EndsByClose,
     EventRunsBehindCancel, AnsweredByWatcher, ExitsOnSignal
<1>8. CASE CloseFsw(w)
  BY <1>8 DEF CloseFsw, Alive, EndsByClose,
     EventRunsBehindCancel, AnsweredByWatcher, ExitsOnSignal
<1>9. CASE SetClosed(w)
  BY <1>9 DEF SetClosed, Alive, EndsByClose,
     EventRunsBehindCancel, AnsweredByWatcher, ExitsOnSignal
<1>10. CASE Closed(w)
  BY <1>10 DEF Closed, LoopIsOver, Alive, EndsByClose,
     EventRunsBehindCancel, AnsweredByWatcher, ExitsOnSignal
<1> QED BY <1>1, <1>2, <1>3, <1>4, <1>5, <1>6, <1>7, <1>8, <1>9, <1>10
           DEF WatcherStep

\* So does a step of the handler of an event, which gets to Run only behind the
\* answer to its Cancel.
LEMMA HandlerStepKeepsWatchInv ==
    ASSUME WatchInv, NEW e \in Event, HandlerStep(e)
    PROVE  WatchInv'
<1> USE WatchAssumption
    DEF WatchInv, WatchTypeOK, Call, watchVars, runnerVars, HandlerStep,
        IgnoreEvent, CancelForEvent, CancelRunner, CancelAnswered, RunForEvent,
        MayRun, Runner!Run, Runner!At, Runner!Goto, Runner!CallContext,
        Runner!Cancel, Runner!CancelReturns, Runner!Places, Runner!Purposes,
        Runner!taskVars, Runner!ctxVars, Runner!cancelVars
<1>1. WatchTypeOK'
  OBVIOUS
<1>2. EndsByClose' /\ ExitsOnSignal'
  BY DEF EndsByClose, ExitsOnSignal
<1>3. EventRunsBehindCancel'
  BY DEF EventRunsBehindCancel
<1>4. AnsweredByWatcher'
  BY DEF AnsweredByWatcher
<1> QED BY <1>1, <1>2, <1>3, <1>4

\* So does a step of a Run: that for an event starts no command, and finds
\* doneCh closed when it returns.
LEMMA TaskMovesKeepsWatchInv ==
    ASSUME WatchInv, NEW c \in Call, TaskMoves(c)
    PROVE  WatchInv'
<1>1. Frame(c) /\ UNCHANGED watchVars
  BY RunStepFrames DEF WatchInv, TaskMoves
<1> USE WatchAssumption DEF WatchInv, WatchTypeOK, watchVars, Frame, Call
<1>2. WatchTypeOK' /\ EndsByClose' /\ ExitsOnSignal'
  BY <1>1 DEF EndsByClose, ExitsOnSignal
<1>3. EventRunsBehindCancel'
  BY <1>1 DEF EventRunsBehindCancel
<1>4. AnsweredByWatcher'
  <2> SUFFICES ASSUME doneClosed' PROVE \E w \in Watcher : pc'[w] = "returned"
    BY DEF AnsweredByWatcher
  <2>1. CASE doneClosed
    <3>1. PICK w \in Watcher : pc[w] = "returned"
      BY <2>1 DEF AnsweredByWatcher
    <3> QED BY <1>1, <3>1
  <2>2. CASE ~doneClosed
    <3>1. c \in Watcher
      BY <1>1, <2>2 DEF EventRunsBehindCancel
    <3> QED BY <1>1, <2>2, <3>1
  <2> QED BY <2>1, <2>2
<1> QED BY <1>2, <1>3, <1>4

\* WatchInv is inductive.
LEMMA NextKeepsWatchInv == WatchInv /\ [Next]_vars => WatchInv'
<1> SUFFICES ASSUME WatchInv, [Next]_vars PROVE WatchInv'
  OBVIOUS
<1>1. CASE Signal
  BY <1>1 DEF Signal, Alive, WatchInv, WatchTypeOK, EndsByClose,
     EventRunsBehindCancel, AnsweredByWatcher, ExitsOnSignal
<1>2. CASE CliCancels \/ CliCancelReturns
  BY <1>2 DEF CliCancels, CliCancelReturns, watchVars, Runner!Cancel,
     Runner!CancelReturns, Runner!taskVars, Runner!ctxVars, WatchInv,
     WatchTypeOK, EndsByClose, EventRunsBehindCancel, AnsweredByWatcher,
     ExitsOnSignal
<1>3. CASE Exit
  BY <1>3 DEF Exit, runnerVars, WatchInv, WatchTypeOK, EndsByClose,
     EventRunsBehindCancel, AnsweredByWatcher, ExitsOnSignal
<1>4. CASE UNCHANGED vars
  BY <1>4 DEF vars, runnerVars, watchVars, WatchInv, WatchTypeOK, EndsByClose,
     EventRunsBehindCancel, AnsweredByWatcher, ExitsOnSignal
<1> QED BY <1>1, <1>2, <1>3, <1>4, WatcherStepKeepsWatchInv,
           HandlerStepKeepsWatchInv, TaskMovesKeepsWatchInv DEF Next, Ended

\* It holds of every reachable state, for all watchers and events.
THEOREM SpecKeepsWatchInv == Spec => []WatchInv
<1>1. Init => WatchInv
  BY WatchAssumption
     DEF Init, Runner!Init, Runner!Places, Runner!Purposes, WatchInv,
         WatchTypeOK, EndsByClose, EventRunsBehindCancel, AnsweredByWatcher,
         ExitsOnSignal, Call
<1> QED BY <1>1, NextKeepsWatchInv, PTL DEF Spec

\* Two commands of a watcher's task never run at a time, because that for an
\* event does not run at all.
THEOREM NeverOverlaps == Spec => []NoOverlap
<1>1. WatchInv => NoOverlap
  BY WatchAssumption
     DEF WatchInv, EventRunsBehindCancel, NoOverlap, Call, OwnerOf
<1> QED BY <1>1, SpecKeepsWatchInv, PTL

\* The task is not rewritten under a watcher's first Run, unless another
\* watcher answered the Cancel.
THEOREM FirstRunIsLeftAlone == Spec => []RewrittenAfterFirstRun
<1>1. WatchInv => RewrittenAfterFirstRun
  BY WatchAssumption
     DEF WatchInv, EventRunsBehindCancel, AnsweredByWatcher,
         RewrittenAfterFirstRun
<1> QED BY <1>1, SpecKeepsWatchInv, PTL

\* The command goes on until the signal, unless no watcher could be started.
THEOREM GoesOnUntilSignal == Spec => []ExitsOnSignal
BY SpecKeepsWatchInv, PTL DEF WatchInv

\* A watcher that has been closed takes no event.
THEOREM ClosedTakesNothing == Spec => CloseIsFinal
<1>1. ASSUME WatchInv, [Next]_vars
      PROVE  [\A e \in Event :
                 handler[e] = "none" /\ handler'[e] # "none" =>
                     closer[WatcherOf[e]] # "closed"]_vars
  <2> SUFFICES ASSUME Next, NEW e \in Event, handler[e] = "none",
                      handler'[e] # "none"
               PROVE  closer[WatcherOf[e]] # "closed"
    BY <1>1
  <2>1. \E w \in Watcher : TakeEvent(w, e)
    BY <1>1 DEF Next, WatcherStep, Start, StartFails, FirstRun, SelectNothing,
       ChannelClosed, RunReturns, CloseFsw, SetClosed, Closed, TakeEvent,
       HandlerStep, IgnoreEvent, CancelForEvent, CancelAnswered, RunForEvent,
       TaskMoves, Signal, CliCancels, CliCancelReturns, Exit, Ended, vars,
       watchVars, WatchInv, WatchTypeOK
  <2> QED BY <1>1, <2>1 DEF TakeEvent, WatchInv, EndsByClose
<1> QED BY <1>1, SpecKeepsWatchInv, PTL DEF Spec, CloseIsFinal


(***************************************************************************)
(* The runner that the watchers share is a TaskRunner.                     *)
(***************************************************************************)
\* A step of the watch command is a step of the runner or leaves it alone: a
\* signal ends its Go context, if nothing has ended that yet.
LEMMA StepIsRunners == [Next]_vars => [Runner!Next]_(Runner!vars)
<1> USE DEF runnerVars, watchVars, Runner!vars, Runner!taskVars, Runner!ctxVars,
            Runner!cancelVars
<1> SUFFICES ASSUME [Next]_vars PROVE Runner!Next \/ UNCHANGED runnerVars
  OBVIOUS
<1>1. ASSUME NEW w \in Watcher, WatcherStep(w)
      PROVE  Runner!Next \/ UNCHANGED runnerVars
  <2>1. CASE FirstRun(w)
    BY <2>1 DEF FirstRun, Runner!Next, Call
  <2>2. CASE ~FirstRun(w)
    BY <1>1, <2>2
       DEF WatcherStep, Start, StartFails, SelectNothing, ChannelClosed,
           RunReturns, CloseFsw, SetClosed, Closed, TakeEvent
  <2> QED BY <2>1, <2>2
<1>2. ASSUME NEW e \in Event, HandlerStep(e)
      PROVE  Runner!Next \/ UNCHANGED runnerVars
  <2>1. CASE IgnoreEvent(e)
    BY <2>1 DEF IgnoreEvent
  <2>2. CASE CancelForEvent(e) \/ CancelAnswered(e)
    BY <2>2 DEF CancelForEvent, CancelRunner, CancelAnswered, Runner!Next
  <2>3. CASE RunForEvent(e)
    BY <2>3 DEF RunForEvent, Runner!Next, Call
  <2> QED BY <1>2, <2>1, <2>2, <2>3 DEF HandlerStep
<1>3. ASSUME NEW c \in Call, TaskMoves(c)
      PROVE  Runner!Next \/ UNCHANGED runnerVars
  BY <1>3 DEF TaskMoves, Runner!Next
<1>4. ASSUME Signal PROVE Runner!Next \/ UNCHANGED runnerVars
  <2>1. CASE ctxDone = TRUE
    BY <1>4, <2>1 DEF Signal
  <2>2. CASE ~ctxDone
    BY <1>4, <2>2 DEF Signal, Alive, Runner!ParentDone, Runner!Next
  <2> QED BY <1>4, <2>1, <2>2
<1>5. ASSUME CliCancels \/ CliCancelReturns
      PROVE  Runner!Next \/ UNCHANGED runnerVars
  BY <1>5 DEF CliCancels, CliCancelReturns, Runner!Next
<1>6. ASSUME Exit \/ Ended PROVE Runner!Next \/ UNCHANGED runnerVars
  BY <1>6 DEF Exit, Ended, vars
<1> QED BY <1>1, <1>2, <1>3, <1>4, <1>5, <1>6 DEF Next, vars

\* The watch command over its runner implements TaskRunner: the watchers, their
\* events and the signal use it in no way that TaskRunner does not provide for.
THEOREM WatchImplementsRunner == Spec => Runner!Spec
BY StepIsRunners, PTL DEF Spec, Init, Runner!Spec

\* What is proved of a TaskRunner, of this one.
RunnerProofs == INSTANCE TaskRunnerProofs WITH
    Task <- Call,
    Context <- {},
    ContextOf <- [c \in Call |-> Default],
    Jobs <- [c \in Call |-> 1],
    Tolerant <- CallsOf(Tolerant), Conditional <- CallsOf(Conditional),
    HasBefore <- {}, HasAfter <- {}, HasArtifact <- {},
    Canceler <- Event \cup {Cli},
    Signals <- TRUE

\* The runner of Watch and that of the proofs are two instances of one module:
\* each definition says the same in both.
LEMMA RunStepIsSame ==
    ASSUME NEW c \in Call PROVE Runner!RunStep(c) => RunnerProofs!RunStep(c)
  BY DEF Runner!RunStep, Runner!UseDefaultContext, Runner!NoSuchContext,
     Runner!FindContext, Runner!Register, Runner!BeginUp, Runner!UpSucceeds,
     Runner!UpFails, Runner!MarkFailed, Runner!FindUp, Runner!UpDone,
     Runner!FindFailed, Runner!BeforeHookSucceeds, Runner!BeforeHookFails,
     Runner!BuildEnv, Runner!OutputUnknown, Runner!EnvFileFails,
     Runner!ConditionMet, Runner!ConditionNotMet, Runner!FailUnmarked,
     Runner!BeginExecute, Runner!BeginJob, Runner!MoreJobs, Runner!JobSucceeds,
     Runner!JobExits, Runner!Continues, Runner!JobAborts, Runner!EndExecute,
     Runner!StoreOutput, Runner!Finally, Runner!StoreFails,
     Runner!AfterCommands, Runner!AfterHook, Runner!CallsAfter,
     Runner!CountsAsSuccess, Runner!Return, Runner!MustClose, Runner!CloseDone,
     Runner!At, Runner!Goto, Runner!Leave, Runner!CallContext,
     Runner!Continuation, Runner!GoOn, Runner!taskVars, Runner!ctxVars,
     Runner!cancelVars, RunnerProofs!RunStep, RunnerProofs!UseDefaultContext,
     RunnerProofs!NoSuchContext, RunnerProofs!FindContext,
     RunnerProofs!Register, RunnerProofs!BeginUp, RunnerProofs!UpSucceeds,
     RunnerProofs!UpFails, RunnerProofs!MarkFailed, RunnerProofs!FindUp,
     RunnerProofs!UpDone, RunnerProofs!FindFailed,
     RunnerProofs!BeforeHookSucceeds, RunnerProofs!BeforeHookFails,
     RunnerProofs!BuildEnv, RunnerProofs!OutputUnknown,
     RunnerProofs!EnvFileFails, RunnerProofs!ConditionMet,
     RunnerProofs!ConditionNotMet, RunnerProofs!FailUnmarked,
     RunnerProofs!BeginExecute, RunnerProofs!BeginJob, RunnerProofs!MoreJobs,
     RunnerProofs!JobSucceeds, RunnerProofs!JobExits, RunnerProofs!Continues,
     RunnerProofs!JobAborts, RunnerProofs!EndExecute, RunnerProofs!StoreOutput,
     RunnerProofs!Finally, RunnerProofs!StoreFails, RunnerProofs!AfterCommands,
     RunnerProofs!AfterHook, RunnerProofs!CallsAfter,
     RunnerProofs!CountsAsSuccess, RunnerProofs!Return, RunnerProofs!MustClose,
     RunnerProofs!CloseDone, RunnerProofs!At, RunnerProofs!Goto,
     RunnerProofs!Leave, RunnerProofs!CallContext, RunnerProofs!Continuation,
     RunnerProofs!GoOn, RunnerProofs!taskVars, RunnerProofs!ctxVars,
     RunnerProofs!cancelVars

LEMMA StepIsSame ==
    [Runner!Next]_(Runner!vars) => [RunnerProofs!Next]_(RunnerProofs!vars)
<1>1. UNCHANGED Runner!vars => UNCHANGED RunnerProofs!vars
  BY DEF Runner!vars, Runner!taskVars, Runner!ctxVars, Runner!cancelVars,
     RunnerProofs!vars, RunnerProofs!taskVars, RunnerProofs!ctxVars,
     RunnerProofs!cancelVars
<1>2. Runner!Next => RunnerProofs!Next
  BY RunStepIsSame
     DEF Runner!Next, Runner!Run, Runner!At, Runner!Goto, Runner!CallContext,
     Runner!Cancel, Runner!CancelReturns, Runner!ParentDone, Runner!Finish,
     Runner!DownAll, Runner!Ended, Runner!vars, Runner!taskVars, Runner!ctxVars,
     Runner!cancelVars, RunnerProofs!Next, RunnerProofs!Run, RunnerProofs!At,
     RunnerProofs!Goto, RunnerProofs!CallContext, RunnerProofs!Cancel,
     RunnerProofs!CancelReturns, RunnerProofs!ParentDone, RunnerProofs!Finish,
     RunnerProofs!DownAll, RunnerProofs!Ended, RunnerProofs!vars,
     RunnerProofs!taskVars, RunnerProofs!ctxVars, RunnerProofs!cancelVars
<1>3. CASE Runner!Next
  BY <1>2, <1>3
<1>4. CASE UNCHANGED Runner!vars
  BY <1>1, <1>4
<1> QED BY <1>3, <1>4

\* The invariant of TaskRunner holds of the runner of the watchers.
LEMMA RunnerKeepsInv == Spec => []RunnerProofs!Inv
<1>1. Runner!Init => RunnerProofs!Init
  BY DEF Runner!Init, RunnerProofs!Init
<1>2. Runner!Spec => RunnerProofs!Spec
  BY <1>1, StepIsSame, PTL DEF Runner!Spec, RunnerProofs!Spec
<1>3. RunnerProofs!TaskAssumption
  BY WatchAssumption DEF RunnerProofs!TaskAssumption, CallsOf, Call
<1>4. RunnerProofs!Spec => []RunnerProofs!Inv
  BY <1>3, RunnerProofs!SpecKeepsInv
<1> QED BY <1>2, <1>4, WatchImplementsRunner, PTL

\* taskctl watch dies of a panic only when an event, or the signal, has made it
\* cancel the runner, and not in the first Run that returns.
THEOREM WatchPanicsBehindCancel == Spec => []Runner!PanicsOnlyAfterCancel
<1>1. RunnerProofs!Inv => Runner!PanicsOnlyAfterCancel
  BY DEF RunnerProofs!Inv, RunnerProofs!PanicsOnlyAfterCancel,
     Runner!PanicsOnlyAfterCancel, Runner!Cardinality, RunnerProofs!Cardinality
<1> QED BY <1>1, RunnerKeepsInv, PTL

\* When a Run of a watcher or for an event answers nil, its task was executed to
\* its end and did not fail, unless it has AllowFailure, or it was skipped.  Exit
\* code 0 stands for less: no command failed and the task was not skipped, but Run
\* may have answered an error before the task was executed.
THEOREM WatchSuccessIsGenuine == Spec => []Runner!SuccessIsGenuine
<1>1. RunnerProofs!Inv => Runner!SuccessIsGenuine
  BY DEF RunnerProofs!Inv, RunnerProofs!SuccessIsGenuine, Runner!SuccessIsGenuine
<1> QED BY <1>1, RunnerKeepsInv, PTL
=============================================================================
