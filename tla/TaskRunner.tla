----------------------------- MODULE TaskRunner -----------------------------
(***************************************************************************)
(* runner/runner.go and runner/context.go: concurrent calls of             *)
(* TaskRunner.Run, the hooks of the execution contexts they share, the     *)
(* environment that artifacts feed, and Cancel, which cancels the Go       *)
(* context of all of them and then waits on doneCh for some Run to end.    *)
(*                                                                         *)
(* Each task is run at most once by a runner, which is what Denormalize    *)
(* and the run command arrange.  A command, a hook or the reading of a     *)
(* file ends one way or the other, whenever it likes.                      *)
(***************************************************************************)
EXTENDS Naturals, FiniteSets

CONSTANTS
    Task,           \* the tasks
    Context,        \* the configured execution contexts
    Default,        \* Task.Context == "": a fresh context without hooks
    Unknown,        \* Task.Context names no configured context
    ContextOf,      \* Task.Context
    Jobs,           \* how many jobs CompileTask makes of a task
    Tolerant,       \* the tasks with AllowFailure set
    Conditional,    \* the tasks with a Condition
    HasBefore,      \* the tasks with Before commands
    HasAfter,       \* the tasks with After commands
    HasArtifact,    \* the tasks with a dotenv artifact
    Canceler,       \* the goroutines that may call Cancel
    Signals         \* whether the context given to WithGracefulCtx may end

ASSUME TaskAssumption ==
    /\ Default \notin Context
    /\ Unknown \notin Context \cup {Default}
    /\ ContextOf \in [Task -> Context \cup {Default, Unknown}]
    /\ Jobs \in [Task -> Nat]
    /\ Tolerant \subseteq Task
    /\ Conditional \subseteq Task
    /\ HasBefore \subseteq Task
    /\ HasAfter \subseteq Task
    /\ HasArtifact \subseteq Task
    /\ Signals \in BOOLEAN

VARIABLES
    pc,         \* where the Run of a task is
    purpose,    \* what contextForTask was called for
    left,       \* the jobs still to be executed
    result,     \* what Run returns: "none" until decided
    errored,    \* Task.errored
    skipped,    \* Task.skipped
    exitCode,   \* Task.exitCode: "unset", "zero" or "nonzero"
    before,     \* how often the context's Before ran for the task
    after,      \* how often the context's After ran for the task
    seen,       \* the artifacts in the environment the task runs with
    env,        \* the tasks whose artifact is in the runner's environment
    up,         \* of a context: "fresh", "running", "up" or "failed"
    cleanup,    \* cleanupList
    down,       \* the contexts whose Down ran
    canceling,  \* TaskRunner.canceling
    ctxDone,    \* TaskRunner.ctx is done
    doneClosed, \* doneCh is closed
    crashed,    \* the process died of a panic
    cancel      \* of a canceler: "idle", "waiting" on doneCh, "returned"

taskVars == <<left, result, errored, skipped, exitCode, before, after, seen>>
ctxVars == <<up, cleanup, down>>
cancelVars == <<canceling, ctxDone, doneClosed, crashed, cancel>>
vars == <<pc, purpose, taskVars, env, ctxVars, cancelVars>>

Places ==
    {"idle",
     "context",     \* entering contextForTask
     "up",          \* at onceUp.Do
     "starting",    \* running the context's up commands
     "hook",        \* running the context's before commands
     "prepare",     \* building the environment
     "condition",   \* running the task's condition
     "before",      \* running the task's before commands, then compiling
     "execute",     \* between two jobs
     "command",     \* a job is running
     "store",       \* in storeTaskOutput
     "after",       \* running the task's after commands
     "deferred",    \* in the deferred function with the context's After
     "closing",     \* in the deferred function with doneCh
     "returned"}

Purposes == {"run", "condition", "before", "after"}

Init ==
    /\ pc = [t \in Task |-> "idle"]
    /\ purpose = [t \in Task |-> "run"]
    /\ left = Jobs
    /\ result = [t \in Task |-> "none"]
    /\ errored = [t \in Task |-> FALSE]
    /\ skipped = [t \in Task |-> FALSE]
    /\ exitCode = [t \in Task |-> "unset"]
    /\ before = [t \in Task |-> 0]
    /\ after = [t \in Task |-> 0]
    /\ seen = [t \in Task |-> {}]
    /\ env = {}
    /\ up = [c \in Context |-> "fresh"]
    /\ cleanup = {}
    /\ down = {}
    /\ canceling = FALSE
    /\ ctxDone = FALSE
    /\ doneClosed = FALSE
    /\ crashed = FALSE
    /\ cancel = [k \in Canceler |-> "idle"]

(***************************************************************************)
(* Control.  A Run that fails leaves through its deferred functions; the   *)
(* one with the context's After is registered once the first call of       *)
(* contextForTask succeeded.                                               *)
(***************************************************************************)
At(t, place) == ~crashed /\ pc[t] = place

Goto(t, place) == pc' = [pc EXCEPT ![t] = place]

CallContext(t, why) ==
    /\ Goto(t, "context")
    /\ purpose' = [purpose EXCEPT ![t] = why]

Leave(t, verdict) ==
    /\ result' = [result EXCEPT ![t] = verdict]
    /\ Goto(t, IF purpose[t] = "run" /\ pc[t] \in {"context", "up", "starting", "hook"}
               THEN "closing" ELSE "deferred")

(***************************************************************************)
(* contextForTask.                                                         *)
(***************************************************************************)
Run(t) ==
    /\ At(t, "idle")
    /\ CallContext(t, "run")
    /\ UNCHANGED <<taskVars, env, ctxVars, cancelVars>>

\* Where contextForTask returns to.
Continuation(t) == IF purpose[t] = "run" THEN "prepare" ELSE purpose[t]

UseDefaultContext(t) ==
    /\ At(t, "context")
    /\ ContextOf[t] = Default
    /\ Goto(t, Continuation(t))
    /\ UNCHANGED <<purpose, taskVars, env, ctxVars, cancelVars>>

NoSuchContext(t) ==
    /\ At(t, "context")
    /\ ContextOf[t] = Unknown
    /\ Leave(t, "error")
    /\ UNCHANGED <<purpose, left, errored, skipped, exitCode, before, after,
                   seen, env, ctxVars, cancelVars>>

\* [mutant] the context is registered for cleanup only once it is up.
RegisterLate(c) == cleanup' = IF up[c] = "up" THEN cleanup \cup {c} ELSE cleanup

Register(c) == cleanup' = cleanup \cup {c}

FindContext(t) ==
    /\ At(t, "context")
    /\ ContextOf[t] \in Context
    /\ Register(ContextOf[t])
    /\ Goto(t, "up")
    /\ UNCHANGED <<purpose, taskVars, env, up, down, cancelVars>>

\* onceUp.Do: the first caller runs the up commands, the others wait for it.
BeginUp(t) ==
    /\ At(t, "up")
    /\ up[ContextOf[t]] = "fresh"
    /\ up' = [up EXCEPT ![ContextOf[t]] = "running"]
    /\ Goto(t, "starting")
    /\ UNCHANGED <<purpose, taskVars, env, cleanup, down, cancelVars>>

\* [mutant] the failure is not remembered: those who wait go on waiting.
MarkFailedNever(c) == up' = up

MarkFailed(c) == up' = [up EXCEPT ![c] = "failed"]

\* All up commands run; the context has failed if one of them did.
UpSucceeds(t) ==
    /\ At(t, "starting")
    /\ up' = [up EXCEPT ![ContextOf[t]] = "up"]
    /\ Goto(t, "hook")
    /\ UNCHANGED <<purpose, taskVars, env, cleanup, down, cancelVars>>

UpFails(t) ==
    /\ At(t, "starting")
    /\ MarkFailed(ContextOf[t])
    /\ Leave(t, "error")
    /\ UNCHANGED <<purpose, left, errored, skipped, exitCode, before, after,
                   seen, env, cleanup, down, cancelVars>>

\* [mutant] a flag in place of sync.Once: it is set before the commands end.
UpDoneEarly(c) == up[c] \in {"running", "up"}

UpDone(c) == up[c] = "up"

FindUp(t) ==
    /\ At(t, "up")
    /\ UpDone(ContextOf[t])
    /\ Goto(t, "hook")
    /\ UNCHANGED <<purpose, taskVars, env, ctxVars, cancelVars>>

\* startupError is returned to every task that uses the context.
FindFailed(t) ==
    /\ At(t, "up")
    /\ up[ContextOf[t]] = "failed"
    /\ Leave(t, "error")
    /\ UNCHANGED <<purpose, left, errored, skipped, exitCode, before, after,
                   seen, env, ctxVars, cancelVars>>

BeforeHookSucceeds(t) ==
    /\ At(t, "hook")
    /\ before' = [before EXCEPT ![t] = @ + 1]
    /\ Goto(t, Continuation(t))
    /\ UNCHANGED <<purpose, left, result, errored, skipped, exitCode, after,
                   seen, env, ctxVars, cancelVars>>

BeforeHookFails(t) ==
    /\ At(t, "hook")
    /\ Leave(t, "error")
    /\ UNCHANGED <<purpose, left, errored, skipped, exitCode, before, after,
                   seen, env, ctxVars, cancelVars>>

(***************************************************************************)
(* The body of Run.                                                        *)
(***************************************************************************)
GoOn(t) ==
    IF t \in HasBefore THEN CallContext(t, "before")
                       ELSE Goto(t, "before") /\ purpose' = purpose

BuildEnv(t) ==
    /\ At(t, "prepare")
    /\ seen' = [seen EXCEPT ![t] = env]
    /\ IF t \in Conditional THEN CallContext(t, "condition") ELSE GoOn(t)
    /\ UNCHANGED <<left, result, errored, skipped, exitCode, before, after,
                   env, ctxVars, cancelVars>>

\* NewTaskOutput knows no such format: the deferred function with the
\* context's After is not registered yet.
OutputUnknown(t) ==
    /\ At(t, "prepare")
    /\ result' = [result EXCEPT ![t] = "error"]
    /\ Goto(t, "closing")
    /\ UNCHANGED <<purpose, left, errored, skipped, exitCode, before, after,
                   seen, env, ctxVars, cancelVars>>

EnvFileFails(t) ==
    /\ At(t, "prepare")
    /\ result' = [result EXCEPT ![t] = "error"]
    /\ Goto(t, "deferred")
    /\ UNCHANGED <<purpose, left, errored, skipped, exitCode, before, after,
                   seen, env, ctxVars, cancelVars>>

\* The interpreter starts nothing under a context that is done; a condition
\* or before command that ends well just then is taken to end before that.
ConditionMet(t) ==
    /\ At(t, "condition")
    /\ ~ctxDone
    /\ GoOn(t)
    /\ UNCHANGED <<taskVars, env, ctxVars, cancelVars>>

ConditionNotMet(t) ==
    /\ At(t, "condition")
    /\ skipped' = [skipped EXCEPT ![t] = TRUE]
    /\ Leave(t, "ok")
    /\ UNCHANGED <<purpose, left, errored, exitCode, before, after, seen, env,
                   ctxVars, cancelVars>>

\* The condition, a before command, the compilation or the header of the
\* output fails: Run returns the error, the task is not marked as errored.
FailUnmarked(t) ==
    /\ pc[t] \in {"condition", "before"}
    /\ ~crashed
    /\ Leave(t, "error")
    /\ UNCHANGED <<purpose, left, errored, skipped, exitCode, before, after,
                   seen, env, ctxVars, cancelVars>>

\* A task without commands compiles to nil, which execute dereferences.
BeginExecute(t) ==
    /\ At(t, "before")
    /\ t \in HasBefore => ~ctxDone
    /\ Goto(t, "execute")
    /\ crashed' = (left[t] = 0)
    /\ UNCHANGED <<purpose, taskVars, env, ctxVars, canceling, ctxDone,
                   doneClosed, cancel>>

\* [mutant] the end of the list of jobs is missed by one.
MoreJobsOffByOne(t) == left[t] >= 0

MoreJobs(t) == left[t] > 0

\* The interpreter starts nothing under a context that is done.
BeginJob(t) ==
    /\ At(t, "execute")
    /\ MoreJobs(t)
    /\ ~ctxDone
    /\ Goto(t, "command")
    /\ UNCHANGED <<purpose, taskVars, env, ctxVars, cancelVars>>

JobSucceeds(t) ==
    /\ At(t, "command")
    /\ left' = [left EXCEPT ![t] = @ - 1]
    /\ Goto(t, "execute")
    /\ UNCHANGED <<purpose, result, errored, skipped, exitCode, before, after,
                   seen, env, ctxVars, cancelVars>>

\* [mutant] a job that fails is passed over, whatever AllowFailure says.
ContinuesAlways(t) == TRUE

Continues(t) == t \in Tolerant

\* The command exits with a non-zero status.
JobExits(t) ==
    /\ At(t, "command")
    /\ exitCode' = [exitCode EXCEPT ![t] = "nonzero"]
    /\ errored' = [errored EXCEPT ![t] = TRUE]
    /\ IF Continues(t)
       THEN /\ left' = [left EXCEPT ![t] = @ - 1]
            /\ Goto(t, "execute")
            /\ result' = result
       ELSE /\ Leave(t, "error")
            /\ left' = left
    /\ UNCHANGED <<purpose, skipped, before, after, seen, env, ctxVars,
                   cancelVars>>

\* Any other error: the context is done, the timeout has passed, the command
\* does not parse.
JobAborts(t) ==
    /\ \/ At(t, "command")
       \/ At(t, "execute") /\ MoreJobs(t) /\ ctxDone
    /\ errored' = [errored EXCEPT ![t] = TRUE]
    /\ Leave(t, "error")
    /\ UNCHANGED <<purpose, left, skipped, exitCode, before, after, seen, env,
                   ctxVars, cancelVars>>

EndExecute(t) ==
    /\ At(t, "execute")
    /\ ~MoreJobs(t)
    /\ Goto(t, "store")
    /\ UNCHANGED <<purpose, taskVars, env, ctxVars, cancelVars>>

Finally(t) ==
    IF t \in HasAfter
    THEN CallContext(t, "after") /\ result' = result
    ELSE Leave(t, "ok") /\ purpose' = purpose

StoreOutput(t) ==
    /\ At(t, "store")
    /\ env' = env \cup ({t} \cap HasArtifact)
    /\ Finally(t)
    /\ UNCHANGED <<left, errored, skipped, exitCode, before, after, seen,
                   ctxVars, cancelVars>>

\* The artifact cannot be opened or parsed.
StoreFails(t) ==
    /\ At(t, "store")
    /\ t \in HasArtifact
    /\ Leave(t, "error")
    /\ UNCHANGED <<purpose, left, errored, skipped, exitCode, before, after,
                   seen, env, ctxVars, cancelVars>>

\* A failing after command is only logged, one that does not compile is not.
AfterCommands(t) ==
    /\ At(t, "after")
    /\ \E verdict \in {"ok", "error"} : Leave(t, verdict)
    /\ UNCHANGED <<purpose, left, errored, skipped, exitCode, before, after,
                   seen, env, ctxVars, cancelVars>>

(***************************************************************************)
(* The deferred functions of Run.                                          *)
(***************************************************************************)
\* [mutant] After runs only when the task went well.
CallsAfterOnSuccess(t) == ContextOf[t] \in Context /\ ~errored[t]

CallsAfter(t) == ContextOf[t] \in Context

CountsAsSuccess(t) == ~errored[t] /\ ~skipped[t]

AfterHook(t) ==
    /\ At(t, "deferred")
    /\ after' = [after EXCEPT ![t] = @ + IF CallsAfter(t) THEN 1 ELSE 0]
    /\ exitCode' = IF CountsAsSuccess(t) THEN [exitCode EXCEPT ![t] = "zero"]
                                         ELSE exitCode
    /\ Goto(t, "closing")
    /\ UNCHANGED <<purpose, left, result, errored, skipped, before, seen, env,
                   ctxVars, cancelVars>>

\* [mutant] the Run that finds the runner canceling does not tell.
KeepDoneOpen == UNCHANGED <<doneClosed, crashed>>

\* Closing a channel that is closed panics.
CloseDone == doneClosed' = TRUE /\ crashed' = doneClosed

\* [mutant] the Go context is asked instead of the flag.
MustCloseIfDone == ctxDone

MustClose == canceling

Return(t) ==
    /\ At(t, "closing")
    /\ IF MustClose THEN CloseDone ELSE UNCHANGED <<doneClosed, crashed>>
    /\ Goto(t, "returned")
    /\ UNCHANGED <<purpose, taskVars, env, ctxVars, canceling, ctxDone, cancel>>

RunStep(t) ==
    \/ UseDefaultContext(t) \/ NoSuchContext(t) \/ FindContext(t)
    \/ BeginUp(t) \/ UpSucceeds(t) \/ UpFails(t) \/ FindUp(t) \/ FindFailed(t)
    \/ BeforeHookSucceeds(t) \/ BeforeHookFails(t)
    \/ BuildEnv(t) \/ OutputUnknown(t) \/ EnvFileFails(t)
    \/ ConditionMet(t) \/ ConditionNotMet(t) \/ FailUnmarked(t)
    \/ BeginExecute(t) \/ BeginJob(t) \/ JobSucceeds(t) \/ JobExits(t)
    \/ JobAborts(t) \/ EndExecute(t)
    \/ StoreOutput(t) \/ StoreFails(t) \/ AfterCommands(t)
    \/ AfterHook(t) \/ Return(t)

(***************************************************************************)
(* Cancel and Finish.                                                      *)
(***************************************************************************)
\* The flag and the Go context change under the mutex the closing section of
\* Run takes.
Cancel(k) ==
    /\ ~crashed
    /\ cancel[k] = "idle"
    /\ canceling' = TRUE
    /\ ctxDone' = TRUE
    /\ cancel' = [cancel EXCEPT ![k] = "waiting"]
    /\ UNCHANGED <<pc, purpose, taskVars, env, ctxVars, doneClosed, crashed>>

CancelReturns(k) ==
    /\ ~crashed
    /\ cancel[k] = "waiting"
    /\ doneClosed
    /\ cancel' = [cancel EXCEPT ![k] = "returned"]
    /\ UNCHANGED <<pc, purpose, taskVars, env, ctxVars, canceling, ctxDone,
                   doneClosed, crashed>>

\* The parent of the runner's context is done: a signal, a deadline.
ParentDone ==
    /\ Signals
    /\ ~crashed
    /\ ~ctxDone
    /\ ctxDone' = TRUE
    /\ UNCHANGED <<pc, purpose, taskVars, env, ctxVars, canceling, doneClosed,
                   crashed, cancel>>

\* Finish itself.
DownAll ==
    /\ ~crashed
    /\ down # cleanup
    /\ down' = cleanup
    /\ UNCHANGED <<pc, purpose, taskVars, env, up, cleanup, cancelVars>>

\* The run command calls it when no Run is under way any more.
Finish ==
    /\ \A t \in Task : pc[t] = "returned"
    /\ DownAll

\* The program is over, by its end or by a panic.
Ended ==
    /\ crashed \/ \A t \in Task : pc[t] \in {"idle", "returned"}
    /\ UNCHANGED vars

Next ==
    \/ \E t \in Task : Run(t) \/ RunStep(t)
    \/ \E k \in Canceler : Cancel(k) \/ CancelReturns(k)
    \/ ParentDone
    \/ Finish
    \/ Ended

Spec == Init /\ [][Next]_vars

(***************************************************************************)
(* Every call of Run goes on, commands end, and the wait on doneCh is over *)
(* once the channel is closed.  Nobody has to call Run or Cancel.          *)
(***************************************************************************)
FairSpec ==
    /\ Spec
    /\ \A t \in Task : WF_vars(RunStep(t))
    /\ \A k \in Canceler : WF_vars(CancelReturns(k))
    /\ WF_vars(Finish)

-----------------------------------------------------------------------------
\* Every variable stays in its range.
TypeOK ==
    /\ pc \in [Task -> Places]
    /\ purpose \in [Task -> Purposes]
    /\ left \in [Task -> Nat]
    /\ result \in [Task -> {"none", "ok", "error"}]
    /\ errored \in [Task -> BOOLEAN]
    /\ skipped \in [Task -> BOOLEAN]
    /\ exitCode \in [Task -> {"unset", "zero", "nonzero"}]
    /\ before \in [Task -> Nat]
    /\ after \in [Task -> Nat]
    /\ seen \in [Task -> SUBSET Task]
    /\ env \subseteq Task
    /\ up \in [Context -> {"fresh", "running", "up", "failed"}]
    /\ cleanup \subseteq Context
    /\ down \subseteq Context
    /\ canceling \in BOOLEAN
    /\ ctxDone \in BOOLEAN
    /\ doneClosed \in BOOLEAN
    /\ crashed \in BOOLEAN
    /\ cancel \in [Canceler -> {"idle", "waiting", "returned"}]

Uses(t, c) == ContextOf[t] = c

\* No hook and no command of a task runs before the up commands of its
\* context have all ended well, whoever of the tasks sharing it ran them.
ContextIsUp ==
    \A t \in Task, c \in Context :
        Uses(t, c) /\ pc[t] \notin {"idle", "context", "up", "starting",
                                    "closing", "returned"}
            => up[c] = "up"

\* A context whose up commands were begun is in the cleanup list, so Finish
\* will run its down commands; and none is down while a task is using it.
CleanupKnowsContext ==
    \A c \in Context :
        /\ up[c] # "fresh" => c \in cleanup
        /\ c \in down => \A t \in Task : Uses(t, c) => pc[t] \in {"idle", "returned"}

\* Of a task that began to execute, the context's before commands had run,
\* and once Run has returned its after commands have run exactly once, on
\* whichever path Run was left: runner/context.go:138 "After executes tasks
\* defined to run after every usage of the context".  README.md:345 has them run
\* "when task finished successfully" only, which the code does not do.
HooksEncloseTask ==
    \A t \in Task :
        ContextOf[t] \in Context /\ (errored[t] \/ left[t] < Jobs[t]) =>
            /\ before[t] > 0
            /\ pc[t] = "returned" => after[t] = 1

\* Run answers nil, and an artifact reaches the environment of later tasks,
\* only if every job of the task ended and none failed that may not.  The exit
\* code 0 alone says less: no job failed and the task was not skipped, but where
\* Run answers an error jobs may be missing, or all of them, as the deferred
\* function sets it on every path that marks neither (runner.go:144).
SuccessIsGenuine ==
    \A t \in Task :
        /\ result[t] = "ok" \/ t \in env =>
              \/ skipped[t] /\ t \notin env
              \/ left[t] = 0 /\ (errored[t] => t \in Tolerant)
        /\ exitCode[t] = "zero" =>
              /\ ~errored[t] /\ ~skipped[t]
              /\ left[t] = 0 \/ result[t] = "error"

\* The process dies of a panic only when doneCh is closed a second time, never
\* without a Cancel nor in the first call of Run that returns, or for a task that
\* has no commands; a signal alone, which ends the Go context, kills nobody.
PanicsOnlyAfterCancel ==
    crashed =>
        \/ canceling /\ Cardinality({t \in Task : pc[t] = "returned"}) > 1
        \/ \E t \in Task : Jobs[t] = 0 /\ pc[t] = "execute"

\* Every call of Run ends, although it may have to wait for another task to
\* bring the context up, whether that succeeds or not: each task is run at most
\* once, so from some time on no call of Run is under way.
RunEnds == <>[](crashed \/ \A t \in Task : pc[t] \in {"idle", "returned"})

\* A Cancel that is called while a task is being run returns.
CancelIsAnswered ==
    \A k \in Canceler :
        cancel[k] = "waiting" /\ (\E t \in Task : pc[t] \notin {"idle", "returned"})
            ~> cancel[k] = "returned" \/ crashed

-----------------------------------------------------------------------------
(***************************************************************************)
(* The inductive invariant behind the safety properties.                   *)
(***************************************************************************)
InContext == {"context", "up", "starting", "hook"}

\* The first call of contextForTask has not returned yet.
Entering(t) == purpose[t] = "run" /\ pc[t] \in InContext

\* The task has begun to execute: something of its jobs is to be seen.
Started(t) == errored[t] \/ left[t] < Jobs[t]

\* Run is not as far as execute.
Unexecuted(t) ==
    \/ pc[t] \in {"idle", "prepare", "condition", "before"}
    \/ pc[t] \in InContext /\ purpose[t] # "after"

\* Run is on its way out, or has returned.
Leaving(t) == pc[t] \in {"deferred", "closing", "returned"}

\* execute has ended well.
Executed(t) ==
    \/ pc[t] \in {"store", "after"}
    \/ pc[t] \in InContext /\ purpose[t] = "after"

\* purpose is what the place Run is at belongs to.
PurposeFitsPlace ==
    \A t \in Task :
        /\ pc[t] \in {"idle", "prepare"} => purpose[t] = "run"
        /\ purpose[t] = "after" => Executed(t) \/ Leaving(t)

\* Only a task with a configured context is inside contextForTask beyond the
\* look-up, and by then the context is registered.
RegisteredInContext ==
    \A t \in Task :
        pc[t] \in {"up", "starting", "hook"} => ContextOf[t] \in cleanup

\* One task at a time runs the up commands of a context, and only while they
\* have not come to an end.
OneBringsUp ==
    /\ \A t \in Task : pc[t] = "starting" => up[ContextOf[t]] = "running"
    /\ \A t, u \in Task :
          pc[t] = "starting" /\ pc[u] = "starting" /\ ContextOf[t] = ContextOf[u]
              => t = u

\* A Run that got beyond its first contextForTask has a context that is up and
\* whose before commands have run.
EnteredIsUp ==
    \A t \in Task :
        /\ ContextOf[t] \in Context
        /\ pc[t] \notin {"idle", "closing", "returned"}
        /\ ~Entering(t)
        => up[ContextOf[t]] = "up" /\ before[t] > 0

\* Down commands run behind the last Run.
DownBehindAll == down # {} => \A t \in Task : pc[t] = "returned"

\* What the fields of a task may hold at the place its Run is at.
FieldsFitPlace ==
    \A t \in Task :
        /\ Unexecuted(t) => left[t] = Jobs[t] /\ ~errored[t]
        /\ pc[t] = "command" => left[t] > 0
        /\ Started(t) /\ ContextOf[t] \in Context => before[t] > 0
        /\ ~(pc[t] \in {"closing", "returned"}) => after[t] = 0
        /\ Started(t) /\ ContextOf[t] \in Context
              /\ pc[t] \in {"closing", "returned"} => after[t] = 1
        /\ pc[t] \in {"execute", "command"} \/ Executed(t)
              => (errored[t] => t \in Tolerant)
        /\ Executed(t) => left[t] = 0
        /\ t \in env => Executed(t) \/ Leaving(t)
        /\ result[t] # "none" \/ skipped[t] => Leaving(t)
        /\ Leaving(t) => result[t] # "none"
        /\ exitCode[t] = "zero" => pc[t] \in {"closing", "returned"}

\* doneCh is closed by a Run that finds the runner canceling and then returns.
ClosedByReturned ==
    /\ doneClosed => canceling /\ \E t \in Task : pc[t] = "returned"
    /\ IsFiniteSet({t \in Task : pc[t] = "returned"})

Inv ==
    /\ TypeOK
    /\ PurposeFitsPlace
    /\ RegisteredInContext
    /\ OneBringsUp
    /\ EnteredIsUp
    /\ ContextIsUp
    /\ CleanupKnowsContext
    /\ DownBehindAll
    /\ FieldsFitPlace
    /\ SuccessIsGenuine
    /\ ClosedByReturned
    /\ PanicsOnlyAfterCancel
=============================================================================
