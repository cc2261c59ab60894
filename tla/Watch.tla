-------------------------------- MODULE Watch --------------------------------
(***************************************************************************)
(* taskctl watch: cmd/taskctl/watch.go and internal/watch/watch.go over    *)
(* the one TaskRunner that all watchers share.  A watcher runs its task    *)
(* once when it starts and then, in a goroutine for each event of a kind   *)
(* it watches, cancels the runner and runs the task again.  fsnotify is    *)
(* external: an event arrives whenever it likes.                           *)
(*                                                                         *)
(* A call of TaskRunner.Run is named after its watcher or its event; every *)
(* watcher has a task of its own, in the default context, with one job and *)
(* without hooks, which may be allowed to fail or have a condition.        *)
(***************************************************************************)
EXTENDS Naturals, FiniteSets

CONSTANTS
    Watcher,
    Event,          \* the events fsnotify may deliver
    WatcherOf,      \* the watcher whose paths an event is in
    Watched,        \* the events of a kind their watcher lists; one that
                    \* combines two kinds is in no list
    Tolerant,       \* the watchers whose task has AllowFailure
    Conditional,    \* the watchers whose task has a condition
    Default, Unknown, Cli

ASSUME WatchAssumption ==
    /\ Watcher \cap Event = {}
    /\ WatcherOf \in [Event -> Watcher]
    /\ Watched \subseteq Event
    /\ Tolerant \subseteq Watcher
    /\ Conditional \subseteq Watcher
    /\ Default # Unknown

VARIABLES
    pc, purpose, left, result, errored, skipped, exitCode, before, after, seen,
    env, up, cleanup, down, canceling, ctxDone, doneClosed, crashed, cancel,
    loop,       \* the loop of a watcher
    fswClosed,  \* the fsnotify watcher is closed
    isClosed,   \* Watcher.isClosed
    closer,     \* the goroutine that closes a watcher
    caller,     \* the goroutine that calls Watcher.Run
    handler,    \* the goroutine that handles an event
    signaled,   \* the program's context is done
    exited      \* the watch command has returned

Call == Watcher \cup Event
OwnerOf(c) == IF c \in Watcher THEN c ELSE WatcherOf[c]
CallsOf(watchers) == {c \in Call : OwnerOf(c) \in watchers}

Runner == INSTANCE TaskRunner WITH
    Task <- Call,
    Context <- {},
    ContextOf <- [c \in Call |-> Default],
    Jobs <- [c \in Call |-> 1],
    Tolerant <- CallsOf(Tolerant), Conditional <- CallsOf(Conditional),
    HasBefore <- {}, HasAfter <- {}, HasArtifact <- {},
    Canceler <- Event \cup {Cli},
    Signals <- TRUE

runnerVars == <<pc, purpose, left, result, errored, skipped, exitCode, before,
                after, seen, env, up, cleanup, down, canceling, ctxDone,
                doneClosed, crashed, cancel>>
watchVars == <<loop, fswClosed, isClosed, closer, caller, handler, signaled, exited>>
vars == <<runnerVars, watchVars>>

Init ==
    /\ Runner!Init
    /\ loop = [w \in Watcher |-> "none"]
    /\ fswClosed = [w \in Watcher |-> FALSE]
    /\ isClosed = [w \in Watcher |-> FALSE]
    /\ closer = [w \in Watcher |-> "waiting"]
    /\ caller = [w \in Watcher |-> "called"]
    /\ handler = [e \in Event |-> "none"]
    /\ signaled = FALSE
    /\ exited = FALSE

Alive == ~crashed /\ ~exited

-----------------------------------------------------------------------------
(***************************************************************************)
(* Watcher.Run.                                                            *)
(***************************************************************************)
\* The paths are added and the goroutines started.  The loop sleeps a second
\* before it takes an event, so eventsWg.Wait finds none to wait for.
Start(w) ==
    /\ Alive
    /\ caller[w] = "called"
    /\ ~fswClosed[w]
    /\ caller' = [caller EXCEPT ![w] = "started"]
    /\ loop' = [loop EXCEPT ![w] = "select"]
    /\ UNCHANGED <<runnerVars, fswClosed, isClosed, closer, handler, signaled, exited>>

\* fsw.Add fails: on a path, or because the watcher is closed.
StartFails(w) ==
    /\ Alive
    /\ caller[w] = "called"
    /\ caller' = [caller EXCEPT ![w] = "failed"]
    /\ UNCHANGED <<runnerVars, loop, fswClosed, isClosed, closer, handler, signaled,
                   exited>>

FirstRun(w) ==
    /\ Alive
    /\ caller[w] # "called" /\ loop[w] # "none"
    /\ Runner!Run(w)
    /\ UNCHANGED watchVars

\* [mutant] an error ends the loop.
TurnEnds(w) == "finished"

\* The flag is read at the end of a turn: the second the loop then sleeps lies
\* between this and the next select.
Turn(w) == IF isClosed[w] THEN "finished" ELSE "select"

\* An event that fsnotify was about to send may still come after it is closed.
TakeEvent(w, e) ==
    /\ Alive
    /\ loop[w] = "select"
    /\ WatcherOf[e] = w
    /\ handler[e] = "none"
    /\ handler' = [handler EXCEPT ![e] = "begun"]
    /\ loop' = [loop EXCEPT ![w] = IF isClosed[w] THEN "finished" ELSE "select"]
    /\ UNCHANGED <<runnerVars, fswClosed, isClosed, closer, caller, signaled, exited>>

\* An error of fsnotify is logged, and so is one of adding a renamed file
\* again; or there is nothing to receive.
SelectNothing(w) ==
    /\ Alive
    /\ loop[w] = "select"
    /\ loop' = [loop EXCEPT ![w] = Turn(w)]
    /\ UNCHANGED <<runnerVars, fswClosed, isClosed, closer, caller, handler, signaled,
                   exited>>

ChannelClosed(w) ==
    /\ Alive
    /\ loop[w] = "select"
    /\ fswClosed[w]
    /\ loop' = [loop EXCEPT ![w] = "finished"]
    /\ UNCHANGED <<runnerVars, fswClosed, isClosed, closer, caller, handler, signaled,
                   exited>>

\* [mutant] the handlers of its events are waited for.
MayReturnAfterHandlers(w) ==
    /\ loop[w] = "finished"
    /\ \A e \in Event : WatcherOf[e] = w => handler[e] \in {"none", "over"}

\* The handlers are not waited for.
MayReturn(w) == loop[w] = "finished"

RunReturns(w) ==
    /\ Alive
    /\ caller[w] = "started"
    /\ MayReturn(w)
    /\ caller' = [caller EXCEPT ![w] = "returned"]
    /\ UNCHANGED <<runnerVars, loop, fswClosed, isClosed, closer, handler, signaled,
                   exited>>

(***************************************************************************)
(* Watcher.handle.                                                         *)
(***************************************************************************)
IgnoreEvent(e) ==
    /\ Alive
    /\ handler[e] = "begun"
    /\ e \notin Watched
    /\ handler' = [handler EXCEPT ![e] = "over"]
    /\ UNCHANGED <<runnerVars, loop, fswClosed, isClosed, closer, caller, signaled, exited>>

\* [mutant] nobody is canceled.
CancelNobody(e) ==
    /\ cancel' = [cancel EXCEPT ![e] = "returned"]
    /\ UNCHANGED <<pc, purpose, left, result, errored, skipped, exitCode, before,
                   after, seen, env, up, cleanup, down, canceling, ctxDone,
                   doneClosed, crashed>>

CancelRunner(e) == Runner!Cancel(e)

CancelForEvent(e) ==
    /\ Alive
    /\ handler[e] = "begun"
    /\ e \in Watched
    /\ CancelRunner(e)
    /\ handler' = [handler EXCEPT ![e] = "canceling"]
    /\ UNCHANGED <<loop, fswClosed, isClosed, closer, caller, signaled, exited>>

CancelAnswered(e) ==
    /\ Alive
    /\ Runner!CancelReturns(e)
    /\ UNCHANGED watchVars

\* [mutant] the task is run although the runner has not answered.
MayRunAtOnce(e) == TRUE

MayRun(e) == cancel[e] = "returned"

\* The environment and the variables of the task are rewritten, then Run.  The
\* handler ends nowhere but in Run: the runner is canceling and has closed
\* doneCh to answer Cancel, and Run closes it again.
RunForEvent(e) ==
    /\ Alive
    /\ handler[e] = "canceling"
    /\ MayRun(e)
    /\ Runner!Run(e)
    /\ handler' = [handler EXCEPT ![e] = "running"]
    /\ UNCHANGED <<loop, fswClosed, isClosed, closer, caller, signaled, exited>>

TaskMoves(c) == Alive /\ Runner!RunStep(c) /\ UNCHANGED watchVars

(***************************************************************************)
(* Watcher.Close, called in a goroutine once the program's context is      *)
(* done, and the command itself.                                           *)
(***************************************************************************)
CloseFsw(w) ==
    /\ Alive
    /\ signaled
    /\ closer[w] = "waiting"
    /\ fswClosed' = [fswClosed EXCEPT ![w] = TRUE]
    /\ closer' = [closer EXCEPT ![w] = "closing"]
    /\ UNCHANGED <<runnerVars, loop, isClosed, caller, handler, signaled, exited>>

SetClosed(w) ==
    /\ Alive
    /\ closer[w] = "closing"
    /\ isClosed' = [isClosed EXCEPT ![w] = TRUE]
    /\ closer' = [closer EXCEPT ![w] = "marked"]
    /\ UNCHANGED <<runnerVars, loop, fswClosed, caller, handler, signaled, exited>>

\* [mutant] Close does not wait for the loop.
LoopIsOverAnyhow(w) == TRUE

LoopIsOver(w) == loop[w] = "finished"

Closed(w) ==
    /\ Alive
    /\ closer[w] = "marked"
    /\ LoopIsOver(w)
    /\ closer' = [closer EXCEPT ![w] = "closed"]
    /\ UNCHANGED <<runnerVars, loop, fswClosed, isClosed, caller, handler, signaled,
                   exited>>

\* The runner's context is a child of the program's.
Signal ==
    /\ Alive
    /\ ~signaled
    /\ signaled' = TRUE
    /\ ctxDone' = TRUE
    /\ UNCHANGED <<pc, purpose, left, result, errored, skipped, exitCode, before,
                   after, seen, env, up, cleanup, down, canceling, doneClosed,
                   crashed, cancel, loop, fswClosed, isClosed, closer, caller,
                   handler, exited>>

CliCancels ==
    /\ Alive
    /\ signaled
    /\ Runner!Cancel(Cli)
    /\ UNCHANGED watchVars

CliCancelReturns == Alive /\ Runner!CancelReturns(Cli) /\ UNCHANGED watchVars

\* The command waits for every Watcher.Run, and the process ends with it.
Exit ==
    /\ Alive
    /\ \A w \in Watcher : caller[w] \in {"failed", "returned"}
    /\ exited' = TRUE
    /\ UNCHANGED <<runnerVars, loop, fswClosed, isClosed, closer, caller, handler,
                   signaled>>

Ended == ~Alive /\ UNCHANGED vars

WatcherStep(w) ==
    \/ Start(w) \/ StartFails(w) \/ FirstRun(w) \/ SelectNothing(w)
    \/ ChannelClosed(w) \/ RunReturns(w) \/ CloseFsw(w) \/ SetClosed(w) \/ Closed(w)
    \/ \E e \in Event : TakeEvent(w, e)

HandlerStep(e) ==
    IgnoreEvent(e) \/ CancelForEvent(e) \/ CancelAnswered(e) \/ RunForEvent(e)

Next ==
    \/ \E w \in Watcher : WatcherStep(w)
    \/ \E e \in Event : HandlerStep(e)
    \/ \E c \in Call : TaskMoves(c)
    \/ Signal \/ CliCancels \/ CliCancelReturns \/ Exit
    \/ Ended

Spec == Init /\ [][Next]_vars

\* Every goroutine goes on; nothing makes an event or a signal arrive.
FairSpec ==
    /\ Spec
    /\ \A w \in Watcher :
          /\ WF_vars(Start(w) \/ StartFails(w) \/ RunReturns(w))
          /\ WF_vars(FirstRun(w) \/ TaskMoves(w))
          /\ WF_vars(SelectNothing(w) \/ ChannelClosed(w))
          /\ WF_vars(CloseFsw(w) \/ SetClosed(w) \/ Closed(w))
    /\ \A e \in Event : WF_vars(HandlerStep(e) \/ TaskMoves(e))
    /\ WF_vars(CliCancels \/ CliCancelReturns)
    /\ WF_vars(Exit)

-----------------------------------------------------------------------------
\* The task of a watcher is one object that all its calls of Run share: no two
\* of them ever have a command running at the same time.
NoOverlap ==
    \A c, d \in Call :
        c # d /\ OwnerOf(c) = OwnerOf(d) => ~(pc[c] = "command" /\ pc[d] = "command")

\* As long as no other watcher runs its task, the task is not rewritten for an
\* event before the watcher's first Run, which reads it, has returned.
RewrittenAfterFirstRun ==
    \A e \in Event :
        handler[e] = "running" /\ (\A w \in Watcher \ {WatcherOf[e]} : pc[w] = "idle")
            => pc[WatcherOf[e]] = "returned"

\* Errors of fsnotify and lost events do not end a watcher: the command goes on
\* until the signal, unless no watcher could be started.
ExitsOnSignal ==
    exited => signaled \/ \A w \in Watcher : caller[w] = "failed"

\* Once Close has returned the watcher takes no event any more.
CloseIsFinal ==
    [][\A e \in Event :
          handler[e] = "none" /\ handler'[e] # "none" => closer[WatcherOf[e]] # "closed"]_vars

\* After a signal the watch command returns, whatever the handlers of events are
\* waiting for.
SignalIsObeyed == signaled ~> exited \/ crashed

\* The handler of an event that comes while any task is being run gets its
\* answer from Cancel and goes on to its own Run, which comes to its end.
HandlerIsAnswered ==
    \A e \in Event :
        cancel[e] = "waiting" /\ (\E c \in Call : pc[c] \notin {"idle", "returned"})
            ~> pc[e] = "returned" \/ crashed \/ exited

\* docs/watchers.md:5 "triggers task anytime an event has occurred": the Run for
\* an event that is about to execute its task is not given up then, unless the
\* program is told to end.
EventTriggersTask ==
    [][\A e \in Event :
          pc[e] = "execute" /\ left[e] = 1 /\ pc'[e] = "deferred" => signaled]_vars

-----------------------------------------------------------------------------
(***************************************************************************)
(* The inductive invariant behind the safety properties.                   *)
(***************************************************************************)
WatchTypeOK ==
    /\ pc \in [Call -> Runner!Places]
    /\ purpose \in [Call -> Runner!Purposes]
    /\ cancel \in [Event \cup {Cli} -> {"idle", "waiting", "returned"}]
    /\ loop \in [Watcher -> {"none", "select", "finished"}]
    /\ fswClosed \in [Watcher -> BOOLEAN]
    /\ isClosed \in [Watcher -> BOOLEAN]
    /\ closer \in [Watcher -> {"waiting", "closing", "marked", "closed"}]
    /\ caller \in [Watcher -> {"called", "started", "failed", "returned"}]
    /\ handler \in [Event -> {"none", "begun", "canceling", "running", "over"}]

\* A loop begins in Run and ends because its watcher is being closed, which takes
\* the signal; Close and Run return behind it.
EndsByClose ==
    \A w \in Watcher :
        /\ closer[w] # "waiting" => signaled
        /\ fswClosed[w] => closer[w] # "waiting"
        /\ caller[w] = "called" => loop[w] = "none"
        /\ isClosed[w] => closer[w] \in {"marked", "closed"}
        /\ loop[w] = "finished" => closer[w] # "waiting"
        /\ closer[w] = "closed" \/ caller[w] = "returned" => loop[w] = "finished"

\* The Run for an event comes behind the answer to its Cancel, in a Go context
\* that is done, so that no command of it is ever started.
EventRunsBehindCancel ==
    \A e \in Event :
        /\ pc[e] # "idle" => handler[e] = "running"
        /\ handler[e] = "running" => cancel[e] = "returned"
        /\ cancel[e] # "idle" => ctxDone
        /\ cancel[e] = "returned" => doneClosed
        /\ pc[e] # "command"

\* The first Run to close doneCh is a watcher's own: those for events are begun
\* when it is closed.
AnsweredByWatcher == doneClosed => \E w \in Watcher : pc[w] = "returned"

WatchInv ==
    /\ WatchTypeOK
    /\ EndsByClose
    /\ EventRunsBehindCancel
    /\ AnsweredByWatcher
    /\ ExitsOnSignal
=============================================================================
