------------------------------ MODULE Scheduler ------------------------------
(***************************************************************************)
(* scheduler/scheduler.go: the loop that drives one pipeline, the          *)
(* goroutine it starts for every stage, and the nested calls of Schedule   *)
(* that a stage holding a pipeline makes.  All calls share one Scheduler   *)
(* and therefore one cancelled flag.                                       *)
(*                                                                         *)
(* The task runner is abstract here: a task succeeds or fails whenever it  *)
(* likes, and Runner.Cancel returns, as it does in scheduler_test.go.      *)
(* PipelineRun puts the real runner in its place.                          *)
(*                                                                         *)
(* The grain is one step per shared access another goroutine can observe.  *)
(* A read of something only the reader changes, or of something that can   *)
(* no longer change, is part of the step that follows it.                  *)
(***************************************************************************)
EXTENDS FiniteSets

CONSTANTS
    Stage,          \* the stages of all pipelines, but for the root nodes
    Graph,          \* the execution graphs
    Top,            \* the graph the CLI schedules
    NoGraph,        \* Stage.Pipeline == nil: the stage holds a task
    GraphOf,        \* the graph a stage belongs to
    Sub,            \* Stage.Pipeline
    DependsOn,      \* Stage.DependsOn
    AllowFailure,   \* the stages with AllowFailure set
    HasCondition,   \* the stages with a non-empty Condition
    Root,           \* the root node NewExecutionGraph puts in every graph
    UserCancels     \* whether somebody may call Scheduler.Cancel

(***************************************************************************)
(* What the loader and Denormalize guarantee: dependencies stay inside one *)
(* graph, and each nested graph is reached from one stage only.            *)
(***************************************************************************)
ASSUME PipelineAssumption ==
    /\ Top \in Graph
    /\ NoGraph \notin Graph
    /\ Root \notin Stage
    /\ GraphOf \in [Stage -> Graph]
    /\ Sub \in [Stage -> Graph \cup {NoGraph}]
    /\ DependsOn \in [Stage -> SUBSET Stage]
    /\ AllowFailure \subseteq Stage
    /\ HasCondition \subseteq Stage
    /\ UserCancels \in BOOLEAN
    /\ \A s \in Stage : Sub[s] # Top /\ Sub[s] # GraphOf[s]
    /\ \A s, t \in Stage : Sub[s] = Sub[t] /\ Sub[s] # NoGraph => s = t
    /\ \A s \in Stage : \A p \in DependsOn[s] : GraphOf[p] = GraphOf[s]

\* AddStage refuses the edge that closes a cycle.
ASSUME AcyclicAssumption ==
    \A S \in SUBSET Stage : S # {} => \E s \in S : DependsOn[s] \cap S = {}

StagesOf(g) == {s \in Stage : GraphOf[s] = g}

\* A stage that depends on nothing hangs off the root node.
Parents(s) == IF DependsOn[s] = {} THEN {Root} ELSE DependsOn[s]

VARIABLES
    status,     \* Stage.status
    worker,     \* where the goroutine of a stage is
    loop,       \* where the call of Schedule on a graph is
    todo,       \* nodes this pass of the loop has not visited yet
    visiting,   \* the stage the pass is at, or Root when at none
    unread,     \* parents checkStatus has not read yet
    ready,      \* checkStatus' local variable
    wg,         \* the goroutines the WaitGroup counts
    errors,     \* the stages with an entry in ExecutionGraph.errors
    cancelled   \* Scheduler.cancelled

loopVars == <<loop, todo, visiting, unread, ready>>
vars == <<status, worker, loop, todo, visiting, unread, ready, wg, errors,
          cancelled>>

Statuses == {"waiting", "running", "skipped", "done", "error", "canceled"}

WorkerStates ==
    {"none",        \* not started
     "running",     \* in runStage
     "failed",      \* StatusError is set, the error is not recorded yet
     "tolerated",   \* the error is recorded and AllowFailure is set
     "finished",    \* about to run the deferred wg.Done
     "exited"}

LoopStates ==
    {"idle",        \* Schedule has not been called on the graph
     "isDone",      \* about to evaluate the loop condition
     "poll",        \* about to read cancelled
     "pass",        \* between two nodes of a pass
     "parents",     \* in checkStatus
     "cancel",      \* a condition failed to run: entering Cancel
     "cancelRunner",\* in the runner's Cancel
     "wait",        \* in wg.Wait
     "returned"}

Init ==
    /\ status = [s \in Stage |-> "waiting"]
    /\ worker = [s \in Stage |-> "none"]
    /\ loop = [g \in Graph |-> IF g = Top THEN "isDone" ELSE "idle"]
    /\ todo = [g \in Graph |-> {}]
    /\ visiting = [g \in Graph |-> Root]
    /\ unread = [g \in Graph |-> {}]
    /\ ready = [g \in Graph |-> FALSE]
    /\ wg = [g \in Graph |-> {}]
    /\ errors = [g \in Graph |-> {}]
    /\ cancelled = FALSE

(***************************************************************************)
(* The loop of Schedule.                                                   *)
(***************************************************************************)
ReadStatus(p) == IF p = Root THEN "done" ELSE status[p]

\* Only the loop itself moves a stage from waiting, and a stage neither
\* waiting nor running never becomes so again, so the scan of isDone is one
\* step.
IsDone(g) == \A s \in StagesOf(g) : status[s] \notin {"waiting", "running"}

TestDone(g) ==
    /\ loop[g] = "isDone"
    /\ loop' = [loop EXCEPT ![g] = IF IsDone(g) THEN "wait" ELSE "poll"]
    /\ UNCHANGED <<status, worker, todo, visiting, unread, ready, wg, errors,
                   cancelled>>

\* [mutant] the flag is not read.
PollCancelledNever(g) ==
    /\ loop[g] = "poll"
    /\ loop' = [loop EXCEPT ![g] = "pass"]
    /\ todo' = [todo EXCEPT ![g] = StagesOf(g)]
    /\ UNCHANGED <<status, worker, visiting, unread, ready, wg, errors,
                   cancelled>>

PollCancelled(g) ==
    /\ loop[g] = "poll"
    /\ IF cancelled
       THEN /\ loop' = [loop EXCEPT ![g] = "wait"]
            /\ todo' = todo
       ELSE /\ loop' = [loop EXCEPT ![g] = "pass"]
            /\ todo' = [todo EXCEPT ![g] = StagesOf(g)]
    /\ UNCHANGED <<status, worker, visiting, unread, ready, wg, errors,
                   cancelled>>

\* [mutant] a pass does not look at the status of the node.
AtNodeAnyStatus(g, s) ==
    /\ loop[g] = "pass"
    /\ s \in todo[g]
    /\ todo' = [todo EXCEPT ![g] = @ \ {s}]

\* Nodes() is a map: a pass visits the nodes in any order.
AtNode(g, s) ==
    /\ loop[g] = "pass"
    /\ s \in todo[g]
    /\ status[s] = "waiting"
    /\ todo' = [todo EXCEPT ![g] = @ \ {s}]

\* The condition's command cannot be run.
ConditionErrs(g, s) ==
    /\ AtNode(g, s)
    /\ s \in HasCondition
    /\ status' = [status EXCEPT ![s] = "error"]
    /\ loop' = [loop EXCEPT ![g] = "cancel"]
    /\ UNCHANGED <<worker, visiting, unread, ready, wg, errors, cancelled>>

\* The condition's command exits with a non-zero status.
ConditionNotMet(g, s) ==
    /\ AtNode(g, s)
    /\ s \in HasCondition
    /\ status' = [status EXCEPT ![s] = "skipped"]
    /\ UNCHANGED <<worker, loop, visiting, unread, ready, wg, errors,
                   cancelled>>

\* There is no condition, or it is met: on to checkStatus.
BeginCheckStatus(g, s) ==
    /\ AtNode(g, s)
    /\ loop' = [loop EXCEPT ![g] = "parents"]
    /\ visiting' = [visiting EXCEPT ![g] = s]
    /\ unread' = [unread EXCEPT ![g] = Parents(s)]
    /\ UNCHANGED <<status, worker, ready, wg, errors, cancelled>>

\* [mutants] a running parent is good enough; AllowFailure is not asked for.
MakesReadyOnceStarted(st) == st # "waiting"
CancelsChildAlways(p, st) == st \in {"error", "canceled"}

\* What one iteration of checkStatus does for a parent with status st.
MakesReady(st) == st \in {"done", "skipped"}

CancelsChild(p, st) ==
    \/ st = "error" /\ p \notin AllowFailure
    \/ st = "canceled"

ReadParent(g, p) ==
    /\ loop[g] = "parents"
    /\ p \in unread[g]
    /\ unread' = [unread EXCEPT ![g] = @ \ {p}]
    /\ ready' = [ready EXCEPT ![g] = @ \/ MakesReady(ReadStatus(p))]
    /\ status' = [status EXCEPT ![visiting[g]] =
                     IF CancelsChild(p, ReadStatus(p)) THEN "canceled" ELSE @]
    /\ UNCHANGED <<worker, loop, todo, visiting, wg, errors, cancelled>>

LeaveNode(g) ==
    /\ loop' = [loop EXCEPT ![g] = "pass"]
    /\ visiting' = [visiting EXCEPT ![g] = Root]
    /\ ready' = [ready EXCEPT ![g] = FALSE]

NotReady(g) ==
    /\ loop[g] = "parents"
    /\ unread[g] = {}
    /\ ~ready[g]
    /\ LeaveNode(g)
    /\ UNCHANGED <<status, worker, todo, unread, wg, errors, cancelled>>

\* [mutant] the goroutine is not counted.
WgAddMissing(g, s) == wg' = wg

WgAdd(g, s) == wg' = [wg EXCEPT ![g] = @ \cup {s}]

\* A stage checkStatus has just canceled is started all the same when
\* another parent made it ready.
Launch(g) ==
    /\ loop[g] = "parents"
    /\ unread[g] = {}
    /\ ready[g]
    /\ WgAdd(g, visiting[g])
    /\ status' = [status EXCEPT ![visiting[g]] = "running"]
    /\ worker' = [worker EXCEPT ![visiting[g]] = "running"]
    /\ LeaveNode(g)
    /\ UNCHANGED <<todo, unread, errors, cancelled>>

CancelFromLoop(g) ==
    /\ loop[g] = "cancel"
    /\ cancelled' = TRUE
    /\ loop' = [loop EXCEPT ![g] = "cancelRunner"]
    /\ UNCHANGED <<status, worker, todo, visiting, unread, ready, wg, errors>>

RunnerCancelReturns(g) ==
    /\ loop[g] = "cancelRunner"
    /\ loop' = [loop EXCEPT ![g] = "pass"]
    /\ UNCHANGED <<status, worker, todo, visiting, unread, ready, wg, errors,
                   cancelled>>

\* Nodes that are not waiting are passed over.
EndPass(g) ==
    /\ loop[g] = "pass"
    /\ \A s \in todo[g] : status[s] # "waiting"
    /\ loop' = [loop EXCEPT ![g] = "isDone"]
    /\ todo' = [todo EXCEPT ![g] = {}]
    /\ UNCHANGED <<status, worker, visiting, unread, ready, wg, errors,
                   cancelled>>

\* [mutant] the goroutines are not waited for.
ReturnAtOnce(g) ==
    /\ loop[g] = "wait"
    /\ loop' = [loop EXCEPT ![g] = "returned"]
    /\ UNCHANGED <<status, worker, todo, visiting, unread, ready, wg, errors,
                   cancelled>>

Return(g) ==
    /\ loop[g] = "wait"
    /\ wg[g] = {}
    /\ loop' = [loop EXCEPT ![g] = "returned"]
    /\ UNCHANGED <<status, worker, todo, visiting, unread, ready, wg, errors,
                   cancelled>>

LoopStep(g) ==
    \/ TestDone(g)
    \/ PollCancelled(g)
    \/ \E s \in StagesOf(g) :
          ConditionErrs(g, s) \/ ConditionNotMet(g, s) \/ BeginCheckStatus(g, s)
    \/ \E p \in unread[g] : ReadParent(g, p)
    \/ NotReady(g)
    \/ Launch(g)
    \/ CancelFromLoop(g)
    \/ RunnerCancelReturns(g)
    \/ EndPass(g)
    \/ Return(g)

(***************************************************************************)
(* The goroutine of a stage.                                               *)
(***************************************************************************)
\* runStage calls Schedule on the stage's pipeline.
EnterPipeline(s) ==
    /\ worker[s] = "running"
    /\ Sub[s] # NoGraph
    /\ loop[Sub[s]] = "idle"
    /\ loop' = [loop EXCEPT ![Sub[s]] = "isDone"]
    /\ UNCHANGED <<status, worker, todo, visiting, unread, ready, wg, errors,
                   cancelled>>

\* [mutant] the error of the nested Schedule is dropped.
CanSucceedAnyhow(s) == Sub[s] # NoGraph => loop[Sub[s]] = "returned"

\* runStage can return nil: the runner's Run did, or LastError of the nested
\* graph is nil.
CanSucceed(s) == Sub[s] # NoGraph => loop[Sub[s]] = "returned" /\ errors[Sub[s]] = {}
CanFail(s)    == Sub[s] # NoGraph => loop[Sub[s]] = "returned" /\ errors[Sub[s]] # {}

RunSucceeds(s) ==
    /\ worker[s] = "running"
    /\ CanSucceed(s)
    /\ status' = [status EXCEPT ![s] = "done"]
    /\ worker' = [worker EXCEPT ![s] = "finished"]
    /\ UNCHANGED <<loop, todo, visiting, unread, ready, wg, errors, cancelled>>

RunFails(s) ==
    /\ worker[s] = "running"
    /\ CanFail(s)
    /\ status' = [status EXCEPT ![s] = "error"]
    /\ worker' = [worker EXCEPT ![s] = "failed"]
    /\ UNCHANGED <<loop, todo, visiting, unread, ready, wg, errors, cancelled>>

\* [mutants] the pipeline is recorded in place of its stage; the early return
\* comes before the error is stored.
WithPipelineError(s) == errors' = [errors EXCEPT ![GraphOf[s]] = @ \cup {Sub[s]}]
WithToleratedError(s) ==
    errors' = [errors EXCEPT ![GraphOf[s]] = @ \cup ({s} \cap AllowFailure)]

WithStageError(s) == errors' = [errors EXCEPT ![GraphOf[s]] = @ \cup {s}]

RecordError(s) ==
    /\ worker[s] = "failed"
    /\ WithStageError(s)
    /\ worker' = [worker EXCEPT ![s] =
                     IF s \in AllowFailure THEN "tolerated" ELSE "finished"]
    /\ UNCHANGED <<status, loop, todo, visiting, unread, ready, wg, cancelled>>

DoneDespiteFailure(s) ==
    /\ worker[s] = "tolerated"
    /\ status' = [status EXCEPT ![s] = "done"]
    /\ worker' = [worker EXCEPT ![s] = "finished"]
    /\ UNCHANGED <<loop, todo, visiting, unread, ready, wg, errors, cancelled>>

\* [mutant] a goroutine whose stage failed returns without wg.Done.
WgDoneOnSuccess(s) ==
    wg' = IF status[s] = "done" THEN [wg EXCEPT ![GraphOf[s]] = @ \ {s}] ELSE wg

WgDone(s) == wg' = [wg EXCEPT ![GraphOf[s]] = @ \ {s}]

WorkerExits(s) ==
    /\ worker[s] = "finished"
    /\ WgDone(s)
    /\ worker' = [worker EXCEPT ![s] = "exited"]
    /\ UNCHANGED <<status, loop, todo, visiting, unread, ready, errors,
                   cancelled>>

WorkerStep(s) ==
    \/ EnterPipeline(s)
    \/ RunSucceeds(s)
    \/ RunFails(s)
    \/ RecordError(s)
    \/ DoneDespiteFailure(s)
    \/ WorkerExits(s)

\* Scheduler.Cancel called from outside, at any moment.
UserCancel ==
    /\ UserCancels
    /\ ~cancelled
    /\ cancelled' = TRUE
    /\ UNCHANGED <<status, worker, loop, todo, visiting, unread, ready, wg,
                   errors>>

\* The CLI has its answer and the program is over.
Ended ==
    /\ loop[Top] = "returned"
    /\ \A s \in Stage : worker[s] \in {"none", "exited"}
    /\ UNCHANGED vars

Next ==
    \/ \E g \in Graph : LoopStep(g)
    \/ \E s \in Stage : WorkerStep(s)
    \/ UserCancel
    \/ Ended

Spec == Init /\ [][Next]_vars

(***************************************************************************)
(* Every goroutine is scheduled by the Go runtime, commands end, and the   *)
(* runner's Cancel returns.  Nobody has to call Cancel.                    *)
(***************************************************************************)
FairSpec ==
    /\ Spec
    /\ \A g \in Graph : WF_vars(LoopStep(g))
    /\ \A s \in Stage : WF_vars(WorkerStep(s))

-----------------------------------------------------------------------------
\* Every variable stays in its range.
TypeOK ==
    /\ status \in [Stage -> Statuses]
    /\ worker \in [Stage -> WorkerStates]
    /\ loop \in [Graph -> LoopStates]
    /\ todo \in [Graph -> SUBSET Stage]
    /\ visiting \in [Graph -> Stage \cup {Root}]
    /\ unread \in [Graph -> SUBSET (Stage \cup {Root})]
    /\ ready \in [Graph -> BOOLEAN]
    /\ wg \in [Graph -> SUBSET Stage]
    /\ errors \in [Graph -> SUBSET Stage]
    /\ cancelled \in BOOLEAN

Live(s) == worker[s] \notin {"none", "exited"}

\* Once Schedule has returned for a graph, no goroutine it started is left,
\* and neither is a call on a graph nested in one of its stages: wg.Wait
\* covers the whole subtree, whatever was canceled meanwhile.
ReturnIsQuiet ==
    \A g \in Graph : loop[g] = "returned" =>
        \A s \in StagesOf(g) :
            /\ ~Live(s)
            /\ Sub[s] # NoGraph => loop[Sub[s]] \in {"idle", "returned"}

Over(p) == p = Root \/ status[p] \in {"done", "skipped"}

\* A stage whose goroutine was started has a dependency that was done or
\* skipped, or none at all, and that dependency stays so.  (Not all of its
\* dependencies: checkStatus asks for one.)
StartedBehindAParent ==
    \A s \in Stage : worker[s] # "none" => \E p \in Parents(s) : Over(p)

\* A stage the loop has left as canceled has a dependency that failed for
\* good or was canceled itself, and it never ran.
CanceledHasCulprit ==
    \A s \in Stage : status[s] = "canceled" =>
        /\ worker[s] = "none"
        /\ \E p \in DependsOn[s] :
              \/ status[p] = "canceled"
              \/ status[p] = "error" /\ p \notin AllowFailure

\* What Schedule answers for a graph is right: unless it was canceled no
\* stage is left waiting, every stage that ran and failed is among the errors
\* LastError reads, and nothing else is.
VerdictIsComplete ==
    \A g \in Graph : loop[g] = "returned" =>
        /\ cancelled \/ \A s \in StagesOf(g) : status[s] # "waiting"
        /\ \A s \in StagesOf(g) : status[s] = "error" /\ worker[s] = "exited"
                                     => s \in errors[g]
        /\ \A s \in errors[g] : s \in StagesOf(g) /\ worker[s] = "exited"
                                /\ (status[s] = "error" \/ s \in AllowFailure)

\* A stage that holds a pipeline is done only if every stage of that
\* pipeline is done or skipped, unless the execution was canceled or the
\* outer stage may fail.
NestedDoneIsDone ==
    \A s \in Stage :
        /\ Sub[s] # NoGraph
        /\ status[s] = "done"
        /\ s \notin AllowFailure
        /\ ~cancelled
        => \A t \in StagesOf(Sub[s]) : Over(t)

\* A stage that is done, skipped, canceled (once checkStatus is through with
\* it) or failed without AllowFailure never changes again, and nobody but its
\* own loop and goroutine moves it from waiting.
Settled(s) ==
    \/ status[s] \in {"done", "skipped"}
    \/ status[s] = "error" /\ s \notin AllowFailure
    \/ status[s] = "canceled" /\ visiting[GraphOf[s]] # s

SettledForGood ==
    [][\A s \in Stage : Settled(s) => status'[s] = status[s]]_vars

\* A loop that is between two passes, or has not begun, when the execution is
\* canceled starts no pass any more: no stage of its graph is launched.
BetweenPasses(g) ==
    loop[g] \in {"idle", "isDone", "poll", "wait", "returned"}

CancelStopsPasses ==
    \A g \in Graph : [](cancelled /\ BetweenPasses(g) => []BetweenPasses(g))

\* Every call of Schedule returns, and every stage that was started ends.
Termination ==
    /\ <>(loop[Top] = "returned")
    /\ \A s \in Stage : Live(s) ~> worker[s] = "exited"

-----------------------------------------------------------------------------
(***************************************************************************)
(* The inductive invariant behind the safety properties.                   *)
(***************************************************************************)
\* The WaitGroup of a graph counts the live goroutines of its stages.
LiveAreCounted ==
    /\ \A g \in Graph : wg[g] \subseteq StagesOf(g)
    /\ \A s \in Stage : s \in wg[GraphOf[s]] <=> Live(s)

\* The status of a stage tells where its goroutine is.
StatusMatchesWorker ==
    \A s \in Stage :
        /\ worker[s] = "none" =>
              status[s] \in {"waiting", "skipped", "error", "canceled"}
        /\ worker[s] = "running" => status[s] = "running"
        /\ worker[s] = "failed" => status[s] = "error"
        /\ worker[s] = "tolerated" => status[s] = "error" /\ s \in AllowFailure
        /\ worker[s] \in {"finished", "exited"} =>
              \/ status[s] = "done"
              \/ status[s] = "error" /\ s \notin AllowFailure

\* checkStatus works on a stage of its own graph that was waiting when it
\* began, and its local variables are of use only meanwhile.
VisitIsLocal ==
    \A g \in Graph :
        /\ todo[g] \subseteq StagesOf(g)
        /\ IF loop[g] = "parents"
           THEN /\ visiting[g] \in StagesOf(g)
                /\ status[visiting[g]] \in {"waiting", "canceled"}
                /\ worker[visiting[g]] = "none"
                /\ unread[g] \subseteq Parents(visiting[g])
           ELSE visiting[g] = Root /\ unread[g] = {} /\ ~ready[g]

\* checkStatus answers true for a stage with a dependency that is over.
ReadyForCause ==
    \A g \in Graph : ready[g] => \E p \in Parents(visiting[g]) : Over(p)

\* The call on a nested graph lies within runStage of the stage holding it.
NestedWithinRun ==
    \A s \in Stage : Sub[s] # NoGraph =>
        /\ worker[s] = "none" => loop[Sub[s]] = "idle"
        /\ worker[s] \notin {"none", "running"} => loop[Sub[s]] = "returned"

ReturnedAfterWait == \A g \in Graph : loop[g] = "returned" => wg[g] = {}

\* What canceled a stage is not being visited, so it cannot be launched.
Culprit(p) ==
    \/ status[p] = "canceled" /\ visiting[GraphOf[p]] # p
    \/ status[p] = "error" /\ p \notin AllowFailure

CulpritIsSettled ==
    \A s \in Stage : status[s] = "canceled" => \E p \in DependsOn[s] : Culprit(p)

Inv ==
    /\ TypeOK
    /\ LiveAreCounted
    /\ StatusMatchesWorker
    /\ VisitIsLocal
    /\ NestedWithinRun
    /\ ReturnedAfterWait
    /\ ReadyForCause
    /\ StartedBehindAParent
    /\ CulpritIsSettled

(***************************************************************************)
(* What the answers of Schedule rest on, inductive relative to Inv.        *)
(***************************************************************************)
\* The loop of a graph ends because no stage of it waits any more, or because
\* of the flag.
EndsForCause ==
    \A g \in Graph : loop[g] \in {"wait", "returned"} =>
        cancelled \/ \A s \in StagesOf(g) : status[s] # "waiting"

\* Recorded are the stages of the graph whose goroutine has failed and come so
\* far, and all of them.
FailedAreRecorded ==
    /\ \A g \in Graph : \A s \in errors[g] :
          /\ s \in StagesOf(g)
          /\ worker[s] \in {"tolerated", "finished", "exited"}
          /\ status[s] = "error" \/ s \in AllowFailure
    /\ \A s \in Stage :
          \/ worker[s] = "tolerated"
          \/ worker[s] \in {"finished", "exited"} /\ status[s] = "error"
          => s \in errors[GraphOf[s]]

\* A stage that failed without being run has canceled the execution, or its
\* loop is about to.
ConditionErrorCancels ==
    \A s \in Stage : status[s] = "error" /\ worker[s] = "none" =>
        cancelled \/ loop[GraphOf[s]] = "cancel"

\* A stage is done without being forgiven only if nothing was recorded in the
\* graph it holds.
DoneWithoutNestedErrors ==
    \A s \in Stage :
        Sub[s] # NoGraph /\ status[s] = "done" /\ s \notin AllowFailure
            => errors[Sub[s]] = {}

VerdictInv ==
    /\ EndsForCause
    /\ FailedAreRecorded
    /\ ConditionErrorCancels
    /\ DoneWithoutNestedErrors

(***************************************************************************)
(* How the calls on nested graphs hang together, inductive relative to Inv. *)
(***************************************************************************)
Open(g) == loop[g] \notin {"idle", "returned"}

\* Only the loop of its own graph starts a stage.
CalledBeforeStarted ==
    \A s \in Stage : worker[s] # "none" => loop[GraphOf[s]] # "idle"

\* Open calls lead back to the one on Top: of any set of them without that one,
\* some call was made by a running stage of a graph outside the set.
OpenFromTop ==
    \A G \in SUBSET Graph :
        G # {} /\ Top \notin G /\ (\A g \in G : Open(g)) =>
            \E s \in Stage : Sub[s] \in G /\ GraphOf[s] \notin G /\ worker[s] = "running"

NestingInv == CalledBeforeStarted /\ OpenFromTop

\* Once the call on Top has returned, nothing of the whole pipeline is left.
TopReturnsLast ==
    loop[Top] = "returned" => \A s \in Stage : ~Live(s)

-----------------------------------------------------------------------------
\* The refinement mapping: a stage canceled while checkStatus is still at it
\* is pending, one whose tolerated failure is not settled yet is active.
PhaseOf(s) ==
    IF \/ status[s] = "waiting"
       \/ status[s] = "canceled" /\ visiting[GraphOf[s]] = s
    THEN "pending"
    ELSE IF \/ status[s] = "running"
            \/ status[s] = "error" /\ Live(s) /\ s \in AllowFailure
    THEN "active"
    ELSE IF status[s] = "error" THEN "failed" ELSE status[s]

FailuresOf(g) == errors[g] \cup {s \in StagesOf(g) : worker[s] = "failed"}

CallOf(g) ==
    IF loop[g] = "idle" THEN "uncalled"
    ELSE IF loop[g] # "returned" THEN "open"
    ELSE IF FailuresOf(g) = {} THEN "ok" ELSE "failed"

Execution == INSTANCE PipelineExecution WITH
    phase <- [s \in Stage |-> PhaseOf(s)],
    call <- [g \in Graph |-> CallOf(g)],
    failures <- [g \in Graph |-> FailuresOf(g)],
    stopped <- cancelled

\* The scheduler does nothing but execute the pipeline as PipelineExecution
\* describes it.
ImplementsExecution == Execution!Spec
=============================================================================
