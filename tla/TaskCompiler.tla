---------------------------- MODULE TaskCompiler ----------------------------
(***************************************************************************)
(* runner/compiler.go, the environment a task gets in runner.go, the       *)
(* envfile an execution context generates for its executable, and the      *)
(* shell that runs the jobs: which value of which variable does a command  *)
(* see, when tasks that share a context are compiled side by side?         *)
(*                                                                         *)
(* A value is who set it, so an environment tells every origin.  Hooks,    *)
(* failures of commands and Cancel are in TaskRunner; here a command that  *)
(* fails ends its task.                                                    *)
(***************************************************************************)
EXTENDS Naturals, Sequences, FiniteSets

CONSTANTS
    Task,
    Container,      \* the contexts with an executable: each has an envfile
    Default,        \* the context of tasks that name none
    ContextOf,      \* Task.Context
    Needs,          \* of a task: those whose Run is over before it begins
    Key,            \* the environment variables
    Name,           \* TASK_NAME
    SetBy,          \* of a layer, for its owner: the keys it sets
    Variations,     \* how many variations a task has; 0: none are given
    Resets,         \* the tasks with reset_context
    Conditional, HasBefore, HasAfter,   \* the tasks with such commands
    Include, Exclude,   \* of a container context: the lists of its envfile
    Modify,         \* of a container context: how it renames keys
    Unset           \* no value

Layers == {"args", "artifact", "context", "contextfile", "taskctl", "task", "taskfile",
           "variation"}

Values == (Layers \cup {"name"}) \X (Task \cup Container \cup {Default}) \X Nat

Env == [Key -> Values \cup {Unset}]

ASSUME CompilerAssumption ==
    /\ Default \notin Container
    /\ ContextOf \in [Task -> Container \cup {Default}]
    /\ Needs \in [Task -> SUBSET Task]
    /\ Name \in Key
    /\ \A layer \in Layers, owner \in Task \cup Container \cup {Default} :
           SetBy[layer][owner] \subseteq Key
    /\ Unset \notin Values \cup Env \cup Task
    /\ Variations \in [Task -> Nat]
    /\ \A c \in Container : Modify[c] \in [Key -> Key]

VARIABLES
    pc,         \* where the Run of a task is
    phase,      \* what it compiles and executes
    base,       \* the environment Run built for the task
    jobs,       \* the environments of the jobs compiled in this phase
    ran,        \* how many of these were executed
    shell,      \* the environment the interpreter holds, Unset: none yet
    sees,       \* the environment of the command that runs
    generated,  \* Envfile.generatedFilePath: the task it is named after
    file,       \* .taskctl/generated_<task>.env, Unset: there is no such file
    env         \* TaskRunner.env

vars == <<pc, phase, base, jobs, ran, shell, sees, generated, file, env>>

(***************************************************************************)
(* Environments: Variables.                                                *)
(***************************************************************************)
Empty == [k \in Key |-> Unset]

Layer(layer, owner, n) ==
    [k \in Key |-> IF k \in SetBy[layer][owner] THEN <<layer, owner, n>> ELSE Unset]

\* Variables.Merge: the second one wins.
Merge(a, b) == [k \in Key |-> IF b[k] # Unset THEN b[k] ELSE a[k]]

\* contextForTask: what taskctl.env sets is merged into the context's own.
ContextEnv(c) == Merge(Layer("context", c, 0), Layer("taskctl", Default, 0))

\* [mutant] the runner's environment is the one it started with.
BuildEnvOnce(t) ==
    Merge(Merge(Layer("args", Default, 0), ContextEnv(ContextOf[t])),
          Layer("task", t, 0))

\* The envfile of a task is read first: everything set elsewhere wins.
BuildEnv(t) ==
    LET named == [Merge(env, ContextEnv(ContextOf[t])) EXCEPT ![Name] = <<"name", t, 0>>]
    IN  Merge(Layer("taskfile", t, 0), Merge(named, Layer("task", t, 0)))

\* GetVariations: one empty variation if none are given.
JobCount(t) == IF phase[t] = "task" /\ Variations[t] > 0 THEN Variations[t] ELSE 1

\* A condition is executed with the environment of the runner.
JobEnv(t, i) ==
    IF phase[t] = "condition" THEN env
    ELSE IF phase[t] = "task" /\ Variations[t] > 0
         THEN Merge(base[t], Layer("variation", t, i))
         ELSE base[t]

(***************************************************************************)
(* GenerateEnvfile: the keys that are renamed and then pass the filter.  If *)
(* two keys are renamed to one, either line may come last.                 *)
(***************************************************************************)
\* [mutant] the filter looks at the name before it is modified.
PassesUnmodified(c, k) ==
    \A j \in Key : Modify[c][j] = k =>
        j \notin Exclude[c] /\ (Include[c] = {} \/ j \in Include[c])

Passes(c, k) == k \notin Exclude[c] /\ (Include[c] = {} \/ k \in Include[c])

Lines(c, e, k) ==
    {e[j] : j \in {j \in Key : Modify[c][j] = k /\ e[j] # Unset /\ Passes(c, k)}}

Envfiles(c, e) ==
    LET whole == Merge(Layer("contextfile", c, 0), e)
        Written(k) == IF Lines(c, whole, k) = {} THEN {Unset} ELSE Lines(c, whole, k)
        clashes == {k \in Key : Cardinality(Written(k)) > 1}
        last == {w \in [clashes -> UNION {Written(k) : k \in clashes}] :
                    \A k \in clashes : w[k] \in Written(k)}
    IN  {[k \in Key |-> IF k \in clashes THEN w[k] ELSE CHOOSE v \in Written(k) : TRUE] :
            w \in last}

-----------------------------------------------------------------------------
Init ==
    /\ pc = [t \in Task |-> "idle"]
    /\ phase = [t \in Task |-> "condition"]
    /\ base = [t \in Task |-> Empty]
    /\ jobs = [t \in Task |-> <<>>]
    /\ ran = [t \in Task |-> 0]
    /\ shell = [t \in Task |-> Unset]
    /\ sees = [t \in Task |-> Unset]
    /\ generated = [c \in Container |-> Unset]
    /\ file = [t \in Task |-> Unset]
    /\ env = Layer("args", Default, 0)

PhasesOf(t) ==
    (IF t \in Conditional THEN <<"condition">> ELSE <<>>)
    \o (IF t \in HasBefore THEN <<"before">> ELSE <<>>)
    \o <<"task">>
    \o (IF t \in HasAfter THEN <<"after">> ELSE <<>>)

\* Each phase has an executor of its own, whose interpreter is new.
Enter(t, p) ==
    /\ phase' = [phase EXCEPT ![t] = p]
    /\ pc' = [pc EXCEPT ![t] = "compile"]
    /\ jobs' = [jobs EXCEPT ![t] = <<>>]
    /\ ran' = [ran EXCEPT ![t] = 0]
    /\ shell' = [shell EXCEPT ![t] = Unset]

Over(t) ==
    /\ pc' = [pc EXCEPT ![t] = "over"]
    /\ UNCHANGED <<phase, jobs, ran, shell>>

Begin(t) ==
    /\ pc[t] = "idle"
    /\ \A u \in Needs[t] : pc[u] = "over"
    /\ base' = [base EXCEPT ![t] = BuildEnv(t)]
    /\ Enter(t, Head(PhasesOf(t)))
    /\ UNCHANGED <<sees, generated, file, env>>

AddJob(t) == jobs' = [jobs EXCEPT ![t] = Append(@, JobEnv(t, Len(@) + 1))]

\* CompileCommand without an executable.
Compile(t) ==
    /\ pc[t] = "compile"
    /\ Len(jobs[t]) < JobCount(t)
    /\ ContextOf[t] = Default
    /\ AddJob(t)
    /\ UNCHANGED <<pc, phase, base, ran, shell, sees, generated, file, env>>

\* [mutants] the name that is already there is kept; the file is named after
\* the context.
WithGeneratedPathOnce(c, t) ==
    generated' = IF generated[c] = Unset THEN [generated EXCEPT ![c] = t] ELSE generated

WithGeneratedPathOfContext(c, t) == generated' = [generated EXCEPT ![c] = c]

WithGeneratedPath(c, t) == generated' = [generated EXCEPT ![c] = t]

NameEnvfile(t) ==
    /\ pc[t] = "compile"
    /\ Len(jobs[t]) < JobCount(t)
    /\ ContextOf[t] \in Container
    /\ WithGeneratedPath(ContextOf[t], t)
    /\ pc' = [pc EXCEPT ![t] = "generate"]
    /\ UNCHANGED <<phase, base, jobs, ran, shell, sees, file, env>>

\* The file is written under the name the context holds by then.
GenerateEnvfile(t) ==
    LET c == ContextOf[t] IN
    /\ pc[t] = "generate"
    /\ Include[c] = {} \/ Exclude[c] = {}
    /\ \E f \in Envfiles(c, JobEnv(t, Len(jobs[t]) + 1)) :
           file' = [file EXCEPT ![generated[c]] = f]
    /\ AddJob(t)
    /\ pc' = [pc EXCEPT ![t] = "compile"]
    /\ UNCHANGED <<phase, base, ran, shell, sees, generated, env>>

\* Both lists are given, or the file cannot be written.
GenerateFails(t) ==
    /\ pc[t] = "generate"
    /\ Over(t)
    /\ UNCHANGED <<base, sees, generated, file, env>>

\* Execute: the interpreter takes the job's environment when it is reset.
ShellEnv(t) ==
    IF shell[t] = Unset \/ (phase[t] = "task" /\ t \in Resets)
    THEN jobs[t][ran[t] + 1]
    ELSE shell[t]

\* All jobs of the phase are compiled by then.
Execute(t) ==
    /\ pc[t] = "compile"
    /\ Len(jobs[t]) = JobCount(t)
    /\ ran[t] < Len(jobs[t])
    /\ shell' = [shell EXCEPT ![t] = ShellEnv(t)]
    /\ sees' = [sees EXCEPT ![t] =
                   IF ContextOf[t] = Default THEN shell'[t] ELSE file[t]]
    /\ pc' = [pc EXCEPT ![t] = "command"]
    /\ UNCHANGED <<phase, base, jobs, ran, generated, file, env>>

CommandEnds(t) ==
    /\ pc[t] = "command"
    /\ sees' = [sees EXCEPT ![t] = Unset]
    /\ \/ /\ sees[t] # Unset     \* the executable finds its envfile
          /\ ran' = [ran EXCEPT ![t] = @ + 1]
          /\ pc' = [pc EXCEPT ![t] = "compile"]
          /\ UNCHANGED <<phase, jobs, shell>>
       \/ Over(t)
    /\ UNCHANGED <<base, generated, file, env>>

Store(t) == Merge(env, Layer("artifact", t, 0))

\* On to the next phase; after the task itself its artifact is stored.
EndPhase(t) ==
    /\ pc[t] = "compile"
    /\ ran[t] = JobCount(t)
    /\ env' = IF phase[t] = "task" THEN Store(t) ELSE env
    /\ \E i \in DOMAIN PhasesOf(t) :
          /\ PhasesOf(t)[i] = phase[t]
          /\ IF i = Len(PhasesOf(t)) THEN Over(t) ELSE Enter(t, PhasesOf(t)[i + 1])
    /\ UNCHANGED <<base, sees, generated, file>>

Ended == (\A t \in Task : pc[t] = "over") /\ UNCHANGED vars

Next ==
    \/ \E t \in Task :
          \/ Begin(t) \/ Compile(t) \/ NameEnvfile(t) \/ GenerateEnvfile(t)
          \/ GenerateFails(t) \/ Execute(t) \/ CommandEnds(t) \/ EndPhase(t)
    \/ Ended

Spec == Init /\ [][Next]_vars

-----------------------------------------------------------------------------
\* The layers from the weakest to the strongest.  The docs give Context < Task
\* (docs/v2.md:13) and an env.key over the same key of an envfile
\* (definitions.go:160, 168).  That either envfile gives way to everything else is
\* the order of the two Merge calls alone: by context.go:173 the context's file
\* would overwrite the environment, and by definitions.go:163 the task's file,
\* set at task level, would overwrite that of the context.
Rank == [contextfile |-> 1, taskfile |-> 2, args |-> 3, artifact |-> 4, context |-> 5,
         taskctl |-> 6, name |-> 7, task |-> 8, variation |-> 9]

\* Every variable stays in its range.
TypeOK ==
    /\ pc \in [Task -> {"idle", "compile", "generate", "command", "over"}]
    /\ phase \in [Task -> {"condition", "before", "task", "after"}]
    /\ base \in [Task -> Env]
    /\ jobs \in [Task -> Seq(Env)]
    /\ ran \in [Task -> Nat]
    /\ \A t \in Task : ran[t] <= Len(jobs[t]) /\ Len(jobs[t]) <= JobCount(t)
    /\ shell \in [Task -> Env \cup {Unset}]
    /\ sees \in [Task -> Env \cup {Unset}]
    /\ generated \in [Container -> Task \cup {Unset}]
    /\ file \in [Task -> Env \cup {Unset}]
    /\ env \in Env

\* What sets key k for job i of t, whatever the other tasks do.
OwnValues(t, i, k) ==
    LET c == ContextOf[t]
        layers == {<<"contextfile", c, 0>>, <<"taskfile", t, 0>>, <<"context", c, 0>>,
                   <<"taskctl", Default, 0>>, <<"task", t, 0>>, <<"variation", t, i>>}
    IN  {v \in layers : /\ k \in SetBy[v[1]][v[2]]
                        /\ v[1] = "contextfile" => c \in Container
                        /\ v[1] = "variation" => phase[t] = "task" /\ Variations[t] > 0}
        \cup (IF k = Name THEN {<<"name", t, 0>>} ELSE {})

\* None of the values that are set outranks v, which is one of them.
TakesPrecedence(v, values) ==
    /\ v = Unset \/ v \in values \/ v[1] \in {"args", "artifact"}
    /\ \A own \in values : v # Unset /\ Rank[own[1]] <= Rank[v[1]]

RightValue(t, i, k, v) == TakesPrecedence(v, OwnValues(t, i, k))

RightEnv(t, i, e) ==
    LET c == ContextOf[t] IN
    \A k \in Key :
        IF c = Default
        THEN RightValue(t, i, k, e[k])
        ELSE LET from == {j \in Key : Modify[c][j] = k} IN
             Passes(c, k) /\ from # {} => \E j \in from : RightValue(t, i, j, e[k])

\* Of two tasks with this context, one always needs the other.
Alone(t) ==
    \A u \in Task \ {t} :
        ContextOf[u] = ContextOf[t] => u \in Needs[t] \/ t \in Needs[u]

\* A command sees the environment of its own task and no other's, each key
\* with the value of the strongest layer that sets it, although the tasks that
\* use a context share its envfile; but of tasks that may use a container context
\* at the same time it says nothing: they may see each other's.  The job whose
\* environment a command sees is its own after a reset, the first one without, and
\* the last one in a container.
EnvIsOwn ==
    \A t \in Task :
        LET job == IF ContextOf[t] # Default THEN JobCount(t)
                   ELSE IF t \in Resets THEN ran[t] + 1 ELSE 1
        IN  /\ pc[t] = "command" /\ phase[t] # "condition"
            /\ ContextOf[t] = Default \/ Alone(t)
            => sees[t] # Unset /\ RightEnv(t, job, sees[t])

\* docs/artifacts.md:5 "available to all the subsequent tasks": what a task
\* stored before a task that needs it began reaches that one, unless something
\* nearer to it sets the same key.
SeesArtifacts ==
    \A t \in Task, k \in Key :
        \A u \in Needs[t] :
            pc[t] # "idle" /\ env[k] = <<"artifact", u, 0>> =>
                /\ base[t][k] # Unset
                /\ base[t][k] = env[k] \/ Rank[base[t][k][1]] > Rank["artifact"]

\* Whoever writes an envfile under whichever name, no variable that the lists of
\* the reader's context hold back is in it, however it was renamed.
FilterHolds ==
    \A t \in Task, k \in Key :
        file[t] # Unset /\ file[t][k] # Unset =>
            LET c == ContextOf[t] IN
            k \notin Exclude[c] /\ (Include[c] = {} \/ k \in Include[c])

\* README.md:230 "this config will run build 3 times with different GOOS": each
\* job of a task sees its own variation, where nothing holds the key back.
SeesItsVariation ==
    \A t \in Task, k \in Key :
        /\ pc[t] = "command" /\ phase[t] = "task" /\ sees[t] # Unset
        /\ Variations[t] > 0 /\ k \in SetBy["variation"][t]
        /\ ContextOf[t] # Default => Modify[ContextOf[t]][k] = k /\ Passes(ContextOf[t], k)
        => sees[t][k] = <<"variation", t, ran[t] + 1>>
-----------------------------------------------------------------------------
(***************************************************************************)
(* The inductive invariant of the proofs in TaskCompilerProofs.            *)
(***************************************************************************)
Running(t) == pc[t] \notin {"idle", "over"}

InContainer(t) == ContextOf[t] \in Container

\* The runner's environment holds what came with args or from an artifact.
EnvIsShared == \A k \in Key : TakesPrecedence(env[k], {})

\* What a task begins after stays over.
NeedsAreOver == \A t \in Task : pc[t] # "idle" => \A u \in Needs[t] : pc[u] = "over"

\* The environment Run built has the task's own layers in their order; the
\* envfile of the context and the variation are not in it yet.
BaseValues(t, k) ==
    {v \in OwnValues(t, 0, k) : v[1] \notin {"contextfile", "variation"}}

BaseIsRight ==
    \A t \in Task, k \in Key :
        pc[t] # "idle" => TakesPrecedence(base[t][k], BaseValues(t, k))

\* A compiled job holds what compiling it again would give.
JobsAreRight ==
    \A t \in Task :
        Running(t) /\ phase[t] # "condition" =>
            \A i \in DOMAIN jobs[t] : jobs[t][i] = JobEnv(t, i)

\* The interpreter starts after all jobs are compiled and keeps the environment
\* of the first one, or takes that of each after a reset.
ShellIsRight ==
    \A t \in Task :
        LET resets == phase[t] = "task" /\ t \in Resets IN
        Running(t) =>
            /\ shell[t] = Unset => ran[t] = 0 /\ pc[t] # "command"
            /\ shell[t] # Unset =>
                  Len(jobs[t]) = JobCount(t) /\ (resets \/ shell[t] = jobs[t][1])
            /\ pc[t] = "command" =>
                  /\ ran[t] < Len(jobs[t])
                  /\ resets => shell[t] = jobs[t][ran[t] + 1]
                  /\ ~InContainer(t) => sees[t] = shell[t]

\* The name of an envfile is that of a task with its context.
NameIsRight ==
    /\ \A c \in Container : generated[c] # Unset => ContextOf[generated[c]] = c
    /\ \A t \in Task :
          pc[t] = "generate" =>
              /\ InContainer(t) /\ Len(jobs[t]) < JobCount(t)
              /\ generated[ContextOf[t]] # Unset
              /\ Alone(t) => generated[ContextOf[t]] = t

\* No other task writes the envfile of one that runs alone: it is the one of
\* the job compiled last.
FileIsRight ==
    \A t \in Task :
        Running(t) /\ phase[t] # "condition" /\ InContainer(t) /\ Alone(t) =>
            /\ jobs[t] # <<>> => file[t] \in Envfiles(ContextOf[t], JobEnv(t, Len(jobs[t])))
            /\ pc[t] = "command" =>
                  sees[t] \in Envfiles(ContextOf[t], JobEnv(t, JobCount(t)))

CompilerInv ==
    /\ TypeOK /\ EnvIsShared /\ NeedsAreOver
    /\ BaseIsRight /\ JobsAreRight /\ ShellIsRight /\ NameIsRight /\ FileIsRight
    /\ SeesArtifacts /\ FilterHolds
=============================================================================
