# taskctl in TLA+

taskctl runs pipelines: graphs of stages, each of which holds a task or another
pipeline.  These modules model the part of it that decides what runs, with which
environment, when, and what the outcome is: loading and merging configurations,
building and denormalizing pipelines, the scheduler, the task runner with its
execution contexts, compiler and envfiles, the two together under the `run` command,
and the watchers.  TLC checks the models on small instances.  Every safety property that a run finds to hold
is also proved with TLAPS for every value of the constants, two of them under a hypothesis
(see `NoNameOfAName`), and so is the refinement of the abstract specification.

    tlc -config MCPipeline.cfg MCPipeline.tla        # one run
    tlapm SchedulerProofs.tla                        # the proofs about one module

`PROJECT.json` lists the runs, the mutants, the lines each definition models, the
hazards and the theorems.

## The system

| Component | State | Operations | Interacts with |
|---|---|---|---|
| scheduler (`scheduler/scheduler.go`) | `cancelled`; per call of `Schedule` a WaitGroup and the locals of its loop | `Schedule`, `Cancel`, `Finish`, one goroutine per started stage | reads and writes stage statuses, calls itself for nested pipelines, calls the runner |
| stage (`scheduler/stage.go`) | status (atomic), env, variables, times | `UpdateStatus`, `ReadStatus`, `FromStage`, the order `Less` | written by the loop of its graph and by its goroutine, read by both, by the summary and the CI generator |
| graph (`scheduler/graph.go`) | nodes, `parent` and `children` edges, errors | `AddStage`, `Parents`, `BFSNodesFlattened`, `WithStageError`, `LastError` | built by the loader, scheduled, walked by summary and generator |
| denormalization (`scheduler/denormalize.go`) | a table of stages by path | `Denormalize`, `Flatten`, `NthLevelChildren` | turns a graph with shared nested graphs into a tree of copies |
| task runner (`runner/runner.go`) | Go context, `canceling`, `doneCh`, `cleanupList`, environment | `Run`, `Cancel`, `Finish` | called by stage goroutines, by the loop (on a condition error), by the CLI on a signal, by watchers |
| execution context (`runner/context.go`) | `onceUp`, `startupError`, `onceDown` | `Up`, `Before`, `After`, `Down`, `GenerateEnvfile` | shared by all tasks that name it |
| task (`task/task.go`) | `errored`, `skipped`, `exitCode`, env | setters, variations | written by the runner, read by output and summary |
| compiler and executor (`runner/compiler.go`, `executor/`) | list of jobs, the envfile's path, the shell interpreter | `CompileTask`, `Execute` | used by `Run` |
| run command (`cmd/`) | the signal context | `runPipeline`, `runTask`, a goroutine that cancels the runner | the above |
| config (`internal/config`) | set of imported files, the merged configuration | `Load`, `load`, `buildPipeline` | builds graphs, tasks, contexts, watchers |
| watcher (`internal/watch`) | fsnotify events, `isClosed`, a WaitGroup | `Run`, `handle`, `Close` | cancels and re-runs a task on a shared runner |
| output (`output/`) | the cockpit's spinner and tasks, line buffers | `Start`, `Write`, `Finish`, `Close` | written by concurrent tasks |
| CI generator, list, show, graph, init, validate, schemas | none that lasts | | read the graph |

What is hard in it: statuses are read and written by several goroutines without a
common lock; a stage may be canceled for one parent and started for another in the
same visit; a tolerated failure passes through `StatusError` before `StatusDone`;
calls of `Schedule` nest inside goroutines other calls wait for; cancellation comes
from three sides (user, loop, signal) and reaches scheduler and runner separately;
`Cancel` waits for an answer that a finishing task gives; hooks of a context shared
by concurrent tasks must run once, or once per task, on every one of some ten ways
out of `Run`; the environment of a task is what others have stored by then.

What makes each part correct: see the properties below for the modelled parts.  For
the output: a cockpit lists exactly the running tasks and never blocks them.

## Modules

| Module | What it is |
|---|---|
| `PipelineExecution` | abstract: what running a pipeline amounts to, one step per event in the life of a stage |
| `Scheduler` | `scheduler.go`: the loop, the goroutines, nested calls, `Cancel`; the inductive invariant and the refinement mapping to `PipelineExecution` |
| `SchedulerProofs` | the theorems about `Scheduler` alone |
| `ExecutionProofs` | on top of those: the answers of `Schedule`, the nesting of its calls, the refinement |
| `TaskRunner`, `TaskRunnerProofs` | `runner.go` and `context.go`: concurrent calls of `Run`, hooks, artifacts, `Cancel`, `Finish` |
| `PipelineRun`, `PipelineRunProofs` | composition: `Scheduler`, an instance of `TaskRunner` and the CLI's signal goroutine |
| `TaskCompiler`, `TaskCompilerProofs` | `compiler.go`, envfiles and environments: which value of a variable a command sees |
| `Watch`, `WatchProofs` | composition: `watch.go`, an instance of `TaskRunner` that all watchers share, the signal |
| `ExecutionGraph` | `graph.go` and `buildPipeline`: adding stages, the cycle check, the walk |
| `Denormalize` | on top of `ExecutionGraph`: `denormalize.go` and `Stage.FromStage` |
| `DenormalizeProofs` | the theorems about `ExecutionGraph` and `Denormalize` |
| `ConfigLoader`, `ConfigLoaderProofs` | `loader.go` and `config.go`: imports, merges and failures |
| `MCPipeline`, `MCTaskRunner`, `MCPipelineRun`, `MCTaskCompiler`, `MCWatch`, `MCDenormalize`, `MCConfigLoader` | instances for TLC |

The inductive invariant of a module stands at its end, behind the properties; its proofs
are in the module next to it.

### Scheduler

`status` is `Stage.status`, `cancelled`, `wg` and `errors` are the fields and the
WaitGroup of those names (as the set of stages counted or recorded).  `loop[g]` is
where the call of `Schedule` on graph `g` is; `todo`, `visiting`, `unread` and `ready`
are the locals of its `range` and of `checkStatus`.  `worker[s]` is where the goroutine
of stage `s` is.

One step is one access another goroutine can observe.  `checkStatus` therefore reads
its parents one by one (`ReadParent`), each read with the store it may cause, in any
order, since `Parents` is a map.  What only the reader changes, or what cannot change
any more, is read in the step that uses it: `isDone` is one step because a stage that is
neither waiting nor running never becomes so again.  A condition has any of three
outcomes whenever it is evaluated.  A task succeeds or fails whenever it likes, and the
runner's `Cancel` returns at once, like the stub in `scheduler_test.go`; `PipelineRun`
removes both simplifications.  Left out: times, logging, the pause between passes (it
only delays), the merge of env and variables in `runStage`.

`PipelineAssumption` is what the loader and `Denormalize` establish: dependencies inside
one graph, a nested graph held by one stage.  `AcyclicAssumption` is what `AddStage`
enforces, which is proved of `ExecutionGraph` (`CyclesFound`).

### TaskRunner

`pc[t]` is where the call of `Run` for task `t` is.  `purpose[t]` tells for what
`contextForTask` was called: it is entered for the run itself, for the condition and for
before and after commands, and goes through `Up` and `Before` each time.  `Leave` is
`return` with the deferred functions that are registered by then.  `up[c]` holds
`onceUp` and `startupError` of a context, `cleanup` and `down` what `Finish` has to do
and has done, `env` the tasks whose artifact has reached the runner's environment,
`seen[t]` what of it task `t` was given.  Commands, hooks and file accesses end well or
badly at any time; a command under a done Go context does not start.  Closing `doneCh`
twice and executing a task without commands end the process (`crashed`).  A runner runs
a task once per element of `Task`, which is what the `run` command does; `Watch` makes
each call of `Run` for one task an element.

### PipelineRun

The variables of both modules.  A stage without a pipeline is its task.  The goroutine of
a stage calls `Run` and takes its answer (`RunAnswered`); `Scheduler.Cancel` called by a
loop really waits in `TaskRunner.Cancel`; a signal ends the runner's Go context, and a
goroutine of the CLI then cancels the runner, not the scheduler.  `Finish` runs behind
`Schedule`.

### TaskCompiler

A value of a variable is the layer that set it: the context's own environment, its
envfile, `taskctl.env`, the artifact of a task, the task's envfile and env, a variation.
`base[t]` is the environment `Run` builds, `jobs[t]` the compiled jobs of the phase the
task is in (condition, before, task, after), `generated[c]` the path that the envfile of a
context holds, `file[t]` the file named after task `t`, `shell[t]` what the interpreter
holds and `sees[t]` what the command that runs finds.  Setting the path and writing the
file are two steps, as they are two locked sections in the code; a job is compiled when the
previous one is and executed when all are.  Hooks, `Cancel` and results are in
`TaskRunner`.  Left out: templates, working directories and the text of command lines; a
key is renamed by a function, and matched by the lists as a whole, not by prefix.

### Watch

A call of `Run` is named after the watcher or the event that makes it.  `caller`, `loop`,
`handler` and `closer` are the goroutines: of the watch command, of the loop, of each event
and of the one that waits for the signal.  An event comes at any time, also while the
fsnotify watcher is being closed.  `isClosed` is read at the end of a turn of the loop,
which is the read at the top of the next one: the second it sleeps is between that and the
next `select`.  `eventsWg.Wait` is passed at once for the same reason.

### ExecutionGraph

A behaviour defines stages in any order, each with any small set of dependencies, defined
already or not, until one is refused or the final check is made.  `AddStage` adds the node
and `pending` the edges it is to have, which `AddEdge` adds one by one, each followed by a
`cycleDfs`.  The recursion of `cycleDfs` is the stack `calls`, the first of it the call that
is under way, with the children each has still to go through; `visited` and `inStack` are
its two maps.  `BFSNodesFlattened` is a loop over `queue`, `reached` and `list`, with
`scan` the children of the node that was taken.  All of it runs in one goroutine; the steps
are there to be reasoned about.

### Denormalize

The pipeline loaded by `ExecutionGraph` becomes the outermost one; the others are
constants, what each stage holds and which stages set the one key of the environment is
chosen when `Flatten` begins.  The recursion of `Flatten` is a stack of ranges, each of
which is gone through in any order, as Go's maps are.  `stage` is what `graphClone` changes
of the stages all pipelines share: name, env and dependencies.  `flat` is the table of
copies under their unique names, which are sequences of names; `strings.HasPrefix` on the
joined form is `HasPrefix`, for which `StartsWith` tells the names that begin alike.
`Denormalize` then rebuilds the graphs from the table, one
level at a time: `level` is how deep it is, `merged` the environments of the copies by then.
The code goes down one path before the next; what it gives a copy depends on the copy and on
those on the path above it alone, so all paths may take the same step at once.

### ConfigLoader

Every file is fine, missing, not readable, or of a type that cannot be merged with its
importer's.  A configuration is the sequence of files merged into it and the one task they
define, of which two fields stand for the two ways mergo treats a field: `context`, the file
whose value it has (so has a `command` that is a string), and `commands`, the files whose
lists were appended (so are `before`, `after` and `variations`).  `Merge` is mergo with
`WithOverride` and `WithAppendSlice`, between files; `Keep` is mergo without options, between
the global and the local configuration, which goes into a task that both define and fills
its empty fields.  `stack` are the calls of `load` and `loadDir`, `loaded`
is `Loader.imports`.  A pipeline needs the task to be in its own configuration, the global
or the local one, because each is built before they are merged; it keeps the task of its own
configuration, while `task` is the one in `Config.Tasks`.  Decoding is left out.

## Runs

| Run | Question | Answer |
|---|---|---|
| `pipeline` | is the scheduler right, does it implement `PipelineExecution`, does everything end? | yes |
| `runner` | are hooks, artifacts, results and exit codes right, does every `Run` end, is every `Cancel` made during one answered? | yes |
| `run` | do the promises that cross scheduler and runner hold, does the run end? | yes, but for one way to get stuck |
| `graph` | are exactly the cyclic pipelines refused, is every stage rebuilt under its name, where does its environment come from? | right, but for one order in which it panics |
| `compiler` | does a command see the environment of its own task, the strongest layer in front? | yes, if no other task of its container context runs meanwhile; two docs have another order |
| `watch` | does a task never run twice at a time, does the command end on the signal and not before? | yes |
| `loader` | is everything loaded that should be, and what of the files that define a task does it get? | yes, with the precedence `TaskIsMergedByField` states, which is not the documented one |
| `join` | does a stage wait for all of its dependencies? | no |
| `hang` | does `Schedule` return when a condition cannot be run? | not if no task is running |
| `event` | does an event make a watcher's task run? | no |
| `env` | does the nearest of several settings of a key win? | no, the outermost does |
| `variations` | does each variation see its own environment? | not in a container context |

What the properties of the passing runs say:

* `ReturnIsQuiet`: a call of `Schedule` that has returned left nothing running, to any
  depth.  `Termination`: it does return, and every goroutine ends.
* `StartedBehindAParent`, `CanceledHasCulprit`: why a stage was started or canceled is
  still true afterwards; a canceled stage never ran.
* `SettledForGood`: a final status is final.  The exceptions are spelled out in `Settled`:
  the error of a stage that may fail, and a cancellation `checkStatus` is not through with.
* `VerdictIsComplete`, `NestedDoneIsDone`: the answer of `Schedule` misses no failed stage,
  and an error has a failed stage, a condition that could not be evaluated or a cancel behind it; a stage that holds a pipeline is done only if that pipeline is.
* `ImplementsExecution`: every behaviour of the scheduler is one of `PipelineExecution`.
* `CancelStopsPasses`: after a cancel no loop begins another pass.
* `ContextIsUp`, `CleanupKnowsContext`, `HooksEncloseTask`: hooks against concurrent users
  and early returns.  `SuccessIsGenuine`: a nil error and a stored artifact stand for jobs that
  were all executed, none of them failing that may not; exit code 0 for no more than that no
  job failed and the task was not skipped, because a `Run` that answers an error before it
  executes anything sets it too.  `PanicsOnlyAfterCancel`: the process dies only after a
  cancel and not of the first task that returns, or of one without commands.  `RunEnds`, `CancelIsAnswered`: nobody waits for ever.
* `DownAfterUse`, `ArtifactIsReady`, `StatusTellsResult`, `RunEnds`: the same across
  scheduler, runner and signal.
* `CycleIsFound`, `EveryStageIsListed`: the loader and the walk against reference
  definitions.
* `RebuiltIsComplete`: whichever way the maps are ranged over, the table holds every stage
  once for each way to it and nothing else, although `graphClone` renames shared stages; and
  what a stage depends on is in the graph it is rebuilt in.  `EnvHasSource`: an environment
  loses nothing that a stage above sets and gets nothing from elsewhere but through a shared
  stage.  `PanicNeedsNesting`: `Flatten` fails only for a name of a name.
* `EnvIsOwn`: each command sees the environment of its own task and no other's, the
  strongest layer of `Rank` in front, although the envfile's path is shared.  `SeesArtifacts`: an artifact reaches the
  tasks behind it.  `FilterHolds`: no envfile holds what the lists hold back, however it
  was renamed.
* `NoOverlap`, `RewrittenAfterFirstRun`: the one task of a watcher is run and rewritten by
  one goroutine at a time.  `ExitsOnSignal`, `SignalIsObeyed`: the command ends on the
  signal, whatever handlers wait for, and not before.  `CloseIsFinal`: no event is taken
  after `Close`.  `HandlerIsAnswered`: a handler does not wait for ever if a task runs.
* `CirclesAreCut`: no file is read while it is being read.  `NothingLostSilently`: what is
  imported and not there lies behind a failure that was logged, each file of a directory by
  itself: two may be lost behind two different failures.  `TaskIsMergedByField`: each file is
  merged once, of a value the last one merged wins, and a list holds the lists of all files,
  none of them twice, however often a file is imported.

The docs disagree with the code where a passing run checks what the code does (`findings`
in `PROJECT.json`; in the first the run's mutant is the documented behaviour):

* README.md:345 has the `after` commands of a context run "WHEN TASK FINISHED SUCCESSFULLY".
  They run after failures too (`HooksEncloseTask`), as the comment at context.go:138 says.
* The comment at context.go:173 has the envfile of a context overwrite the environment;
  it gives way to everything else (`EnvIsOwn`).
* definitions.go:163 says "Context < Pipeline < Task" and that a key set at task level
  overwrites the same key of any level above.  One set in the task's envfile gives way to the
  context and even to artifacts and the arguments (`EnvIsOwn`).
* The comment at loader.go:103 says "Overwrite globally loaded config with locally set config
  file".  The merge fills what the global configuration leaves empty and overwrites nothing
  (`TaskIsMergedByField`).

One such question is left open: definitions.go:155 has the environment of a task
overwrite everything set at a higher level, README.md:244 lets the stage override it.
`EnvHasSource` says where a value of a stage's environment comes from, not which of the two
is in front of a task.

Faults seen in the models that no run is about, because no document states otherwise or
their cause is one line:

* A tolerated failure inside a nested pipeline is stored as an error of that pipeline, so
  the stage that holds it fails and what depends on it is canceled.
* Tasks that use a container context at the same time share the path of its envfile, which
  one sets and the other reads when it writes and executes: a command may see the environment
  of another task.  `EnvIsOwn` leaves these tasks out, and `FilterHolds` looks at the lists
  only.
* Two tasks that end after a cancel both close `doneCh`; the second close panics.  In
  `watch` the handler of an event always meets this: the run it cancels closes `doneCh`
  to answer it, and its own `Run` closes it again.  So no handler ends otherwise.
* `PrintSummary` dereferences the task of a failed stage that holds a pipeline, and the
  pipeline of a failed stage whose task failed before its first command.
* `StageList.Less` of the CI generator is not transitive, so a sort by it may put a step in
  front of one it depends on.
* `Flatten` panics for pipelines that are names for names, in some orders of a map.  In
  others, if the inner of two such pipelines has a stage with the name of the stage that
  holds it, the dependencies of a copy are names that are not in the table, and a stage gets
  the environment of one that is not above it.  `RebuiltIsComplete` and `EnvHasSource` do not
  hold then, which is why they are proved under `NoNameOfAName`.
* With the names `test` and `test-full` the stages below the second become members of both
  rebuilt graphs.  The scheduler's assumption that a stage is in one graph does not hold
  then.

### Bounds

`MCPipeline.cfg`: five stages in two graphs.  They have a join (two parents of different
tolerance), behind it a nested pipeline whose first stage may fail and whose second has a
condition, and a cancel at any moment; a third parent or level repeats what these do, and
the safety properties are proved for any number anyway.  `MCTaskRunner.cfg`: two tasks on
one context, one with a condition, before commands, two jobs, `allow_failure` and an
artifact, the other with after commands; a third task without commands in the default
context, and a fourth whose context does not exist.
`MCPipelineRun.cfg`: two tasks, one in a nested pipeline behind the other;
`MCPipelineRunHang.cfg` two side
by side, one with a condition.  `MCDenormalize.cfg`: every
outermost pipeline of up to three stages with up to two dependencies each, some missing, in
every order of definition, with a pipeline held by several stages, by a name for it and by a
name for that name, and three choices of who sets the key; `MCDenormalizeEnv.cfg` the
smallest pipeline in a pipeline.  `MCTaskCompiler*.cfg`: a task with an artifact, then one
with two variations, then one, then two at once in the same container context, with a
renaming that maps one key onto another that is held back.  `MCWatch.cfg`: a watcher with
three events, one of them of a kind it does not watch, so that a handler meets the first
run, another handler and `Close`; `MCWatchEvent.cfg` has two watchers.
What a second watcher adds to the first is one more call of `Run` on the runner, as the
third event does.  The task of the watcher may fail in the first, that of one watcher has a
condition in the second.  Each watcher has a task of its own, with one job and without hooks:
a task that two watchers share is outside `OwnerOf`, and so outside `NoOverlap` and
`RewrittenAfterFirstRun`.  `MCConfigLoader.cfg`: seven files, one of
them remote, and a directory, in 96 layouts of imports, with circles through each kind,
288 combinations of missing and broken files, and three choices of which files give which
field of the task, so that the global configuration gives both, one or none.

### Fairness

`FairSpec` of `Scheduler` is weak fairness of each loop and each goroutine: the Go runtime
runs every goroutine, commands end.  Nobody has to cancel.  `FairSpec` of `TaskRunner` is
weak fairness of each call of `Run` once begun, of a canceler's wait, and of `Finish`;
nobody has to call `Run` or `Cancel`.  `RunFairSpec` adds the CLI's goroutine; a signal need
never come.  `FairSpec` of `Watch` is weak fairness of each goroutine; no event, first run
of a failed watcher or signal is made to happen.  No strong fairness is assumed.  A task that never ends and has no timeout is
outside these assumptions, as it is in the program.

Deadlock is checked in every run.  `Ended`, `RunEnded`, `Loaded` and `Denormalized` name
the states in which the system may stop: the program is over, has died of a panic, or (in
`PipelineRun` only) waits in `Cancel` for an answer nobody can give, which run `hang` is
about.

## Proofs

Eight modules hold theorems.  In each, an inductive invariant stated in the component's
module implies the properties; it was checked by TLC on the instance of a run first.  No
property but the type invariants is inductive by itself.  What is assumed of the constants
is named in the component's module and is what the loader or the type of a field
establishes; TLC evaluates it in every run.

| Proved | For | From |
|---|---|---|
| `ReturnIsQuiet`, `StartedBehindAParent`, `CanceledHasCulprit`, `SettledForGood`, `CancelStopsPasses`, `TypeOK` | `Scheduler` | `PipelineAssumption`, `AcyclicAssumption` |
| `VerdictIsComplete`, `NestedDoneIsDone`, `TopReturnsLast`, `ImplementsExecution` | `Scheduler` | `PipelineAssumption`, `AcyclicAssumption` |
| `ContextIsUp`, `CleanupKnowsContext`, `HooksEncloseTask`, `SuccessIsGenuine`, `PanicsOnlyAfterCancel`, `TypeOK` | `TaskRunner` | `TaskAssumption` |
| `DownAfterUse`, `StatusTellsResult`, `ArtifactIsReady`, and that it refines `Scheduler` | `PipelineRun` | those of `Scheduler`, `TaskStageAssumption` |
| `NoOverlap`, `RewrittenAfterFirstRun`, `ExitsOnSignal`, `CloseIsFinal`, and that it refines `TaskRunner` | `Watch` | `WatchAssumption` |
| `EnvIsOwn`, `SeesArtifacts`, `FilterHolds`, `TypeOK` | `TaskCompiler` | `CompilerAssumption` |
| `CycleIsFound`, `EveryStageIsListed` | `ExecutionGraph`, `Denormalize` | `NameAssumption` |
| `PanicNeedsNesting`, the types | `Denormalize` | `NameAssumption`, its `PipelineAssumption` |
| `RebuiltIsComplete`, `EnvHasSource` | `Denormalize` | the same, and `NoNameOfAName` of the pipelines |
| `CirclesAreCut`, `TaskIsMergedByField`, `NothingLostSilently` | `ConfigLoader` | `FileAssumption` |

### The scheduler alone (`Inv`)

* `LiveAreCounted`: the WaitGroup of a graph is exactly the set of its live goroutines, so
  `wg.Wait` means what it should;
* `StatusMatchesWorker`: where a goroutine is determines the status of its stage, so the
  loop, which only touches waiting stages, and the goroutines do not interfere;
* `VisitIsLocal`: `checkStatus` works on a stage of its own graph that has no goroutine,
  and its locals are empty otherwise;
* `NestedWithinRun`, `ReturnedAfterWait`: a nested call lies within its stage's `runStage`;
* `ReadyForCause`: when `checkStatus` has read a parent that makes the stage ready, that
  parent stays over, which carries `StartedBehindAParent` through the launch;
* `CulpritIsSettled`: what canceled a stage is not itself being visited, so it cannot be
  launched behind its back.  This is the step where it matters that a pass visits one node
  at a time.

The conjuncts that speak of one stage or one graph at a time are proved together, one lemma
for the loop and one for the goroutine; the three that relate a stage to its parents follow
from those and from `SettledStays` (a settled status stays).  `CancelStopsPasses` needs
that a loop between two passes gets no further than its poll.

### Answers, nesting and the refinement (`VerdictInv`, `NestingInv`)

`VerdictInv`, inductive relative to `Inv`, follows the errors: a stage that failed is
recorded or about to be, what is recorded failed, a condition that could not be evaluated
leads to a cancel, and a stage whose pipeline has errors is not done.  A loop ends because
no stage waits any more, or because of the flag (`EndsForCause`).  Of `NestedDoneIsDone` the step
from "no error is recorded" to "every stage is done or skipped" needs that a canceled stage
has a culprit that failed: of the canceled stages of a graph a first one exists because
the graph has no cycle, which is `AcyclicAssumption`, stated of sets of stages so that no
induction is needed.

For `ImplementsExecution` the mapping calls a stage canceled while `checkStatus` is still at
it pending, and one whose tolerated failure is not settled active.  One lemma per action
says which step of `PipelineExecution` it is or that it is a stutter.  `OpenFromTop` makes
the last answer the last event: any set of graphs without the outermost whose calls are open
has one that was called by a running stage outside the set.  `TopReturnsLast` is what `wg.Wait`
is worth over all levels.

### The task runner (`Inv` of `TaskRunner`)

It ties where a call of `Run` is to the purpose it entered its context for
(`PurposeFitsPlace`), the context to those in it (`RegisteredInContext`, `OneBringsUp`,
`EnteredIsUp`, `DownBehindAll`), the fields `errored`, `left`, `result`, `exitCode` and the
counts of hooks to the place (`FieldsFitPlace`), and `doneCh` to the calls that have ended
(`ClosedByReturned`).  `sync.Once` appears as `OneBringsUp`: one call is at the up commands,
and nobody is past them until they have ended.

### The composition (`RunInv`)

`RunImplementsScheduler` shows that every step of `PipelineRun` is one of `Scheduler` or
leaves its variables alone, so `Inv`, `VerdictInv` and `NestingInv` hold there too.  `RunInv`
relates the goroutine of a stage to its call of `Run` (`RunWithinWorker`, `StatusIsVerdict`),
and `Finish` to the end of `Schedule` (`DownAfterSchedule`): `DownAfterUse` then is
`TopReturnsLast` seen from the runner.  `ArtifactIsReady` needs that an artifact is stored
before `Run` answers (`OkIsStored`) and that the environment of a task is built after what it
waits for is over (`BuiltBehind`), which for a task in a nested pipeline is about the
parent of the stage that holds it.

### Watchers (`WatchInv`)

A handler's `Run` comes behind its `Cancel`, which ends the runner's Go context, so that `Run`
never starts a command (`EventRunsBehindCancel`); with that `NoOverlap` holds whatever
the events do.  `AnsweredByWatcher` says whose end answers a handler: the first `Run` of some
watcher.  `EndsByClose` says why a loop is over.

`WatchImplementsRunner`: a step of the watch command is a step of its instance of `TaskRunner`
or leaves the runner alone, the signal included, which does nothing to a Go context that a
handler has already canceled.  So what is proved of `TaskRunner` holds here:
`WatchPanicsBehindCancel` and `WatchSuccessIsGenuine` are taken over by an instance of
`TaskRunnerProofs`, without a second invariant, for tasks with and without AllowFailure or a
condition.  For `PipelineRun` that is not so, because a
loop may call `Cancel` again in a later pass, which a canceler of `TaskRunner` does not; what
is needed there of the runner is in `RunInv`.

### The graph (`GraphInv`)

The stack of `cycleDfs` is a path along the edges (`StackIsPath`), and the nodes it is done
with have no edge out of them and no cycle among them (`FinishedIsClosed`).  Each search
begins where the newest edge ends, and before it there was no cycle, so every cycle goes
through that node (`LoopsAreNew`): when it is done without coming back to its stack there is
none, and when it does come back the stack is one.  A cycle is a set of stages each of which
depends on one of the set, so no path has to be counted and nothing is proved by induction.
For the walk, what was reached is either still in the queue, or its children were reached
(`WalkIsClosed`); of the stages that were not reached each would have a parent of the
same kind, and that set would be a cycle.  `ListedOnce` is about doubles.

### Denormalization (`TablesInv`, `FlattenInv`, `RebuildInv`)

`PlacedAt` says what a unique name means: each copy stands below one that holds its
pipeline, by the name of that one or, behind an alias, by the name it was given.  With
`KeysArePlaced` and `OnePipelineBelow` a name tells its stage.  `NamesAreKept` confines the
renaming of shared stages to those an alias stands for, which is all `PanicNeedsNesting`
needs.  `NothingIsMissed` is the completeness of the table while the ranges are under way:
what is not there is still to be come across.  `EnvsHaveSource` says where an environment in
the table comes from, `MergedSoFar` what the levels that are through have made of it.

`NoNameOfAName` says that no pipeline is just another name for one that is itself just
another name.  The last two need it because the model, like the code, does wrong without it:
see the faults above.  Which dependencies a copy has is `DependenciesAreKept`.

### Environments (`CompilerInv`)

For each variable that holds an environment one conjunct says what it is worth: `BaseIsRight`
for what `Run` builds, `JobsAreRight` for what is compiled from it, `FileIsRight` and
`NameIsRight` for the envfile and its path, `ShellIsRight` for what the interpreter keeps
between jobs.  `RightValue` is a reference definition by precedence; that merging layers one
after the other gives it is proved key by key.  What is shared is the path in a context: the
conjuncts about it are about tasks that are alone in their context.  `EnvIsShared` and
`NeedsAreOver` are about what comes from other tasks, through the runner's environment.

### The loader (`LoaderInv`)

`LoadingIsMarked` gives `CirclesAreCut`: what is entered is not marked, what is on the stack
is.  For `TaskIsMergedByField` each configuration on the stack, in the answer and in `found`
holds the context of the last of its files that gives one and the commands of all that give
some, in their order (`MergedRight`), no file is part of two that are still to be merged
(`PartsAreApart`), and the task is always that of the two configurations found (`KeptIsFirst`).  The file that is requested may
be the global one, or one that the global one has imported: it is read again then, in a
configuration of its own.

`LossInv` is for `NothingLostSilently`.  What lies below an import (`Below`) is the least set
that has it and all that is imported from the set, so that no recursion is needed.  A
configuration has only what lies below its file (`FilesLieBelow`), and the calls nest by the
imports they are at (`CallsNest`), so a failure that takes a configuration with it loses only
what lies below the import that failed.  `LostIsLogged`: a file that was read and is in no
configuration any more lies below an import whose failure was logged, or is about to be.
`ImportsAreSettled` and `DirectoriesAreLoaded`: of what was merged every import was gone
through.  A file that is imported twice and was lost with the first import is not read for
the second, which is why the failure that accounts for it may be another import's.

### Only model-checked

Liveness: `Termination`, `RunEnds` (of `TaskRunner` and of `PipelineRun`), `CancelIsAnswered`,
`SignalIsObeyed`, `HandlerIsAnswered`.  Fairness and ENABLED are out of the prover's reach.
`RebuiltIsComplete` and `EnvHasSource` for the pipelines that `NoNameOfAName` leaves out
are checked on the instance of `graph`, where they hold.

## Not modelled

* Output: each task has its own writer; what is concurrent is the cockpit and the goroutine
  of the spinner library, whose locks are not in this repository.
* The summary, the CI generator beyond the walk it starts from, `graph`, `list`, `show`,
  `init`, `validate` and the schemas: text produced from a graph or a configuration by
  one goroutine.
* The shell interpreter, fsnotify, mergo and other dependencies, except for how the code
  uses them.
* Templates and variables (merged like environments), working directories, flags, times and
  timeouts: a timeout is one of the ways a command may fail.
* Concurrent writes to one Go map or field without a lock (`ExecutionContext.Env`,
  `Watcher.isClosed`) are single steps.
