----------------------------- MODULE Denormalize -----------------------------
(***************************************************************************)
(* scheduler/denormalize.go and Stage.FromStage: the pipeline that was     *)
(* loaded, and those nested in it, are flattened into a table of copies    *)
(* under unique names, from which the graph that is run is rebuilt; and    *)
(* the environment that reaches a task in the end.                         *)
(*                                                                         *)
(* A pipeline may be held by any number of stages, and a Go map is ranged  *)
(* over in any order.  A unique name is the sequence of its parts.  Of an  *)
(* environment one key is modelled; its value tells which stage set it.    *)
(***************************************************************************)
EXTENDS ExecutionGraph

CONSTANTS
    Top,            \* the name of the pipeline that is loaded
    Pipeline,       \* the other pipelines
    NoPipeline,     \* a stage with a task
    StagesIn,       \* the names of the stages of a pipeline
    Needs,          \* DependsOn of the stages of the other pipelines
    MayHold,        \* what a stage may hold: NoPipeline or a pipeline
    StartsWith,     \* <<s, t>>: the name t is s and more
    Setters,        \* sets of stages that may set the key
    Owners,         \* sets of stages whose tasks may set the key themselves
    Unset,          \* the key is not set
    Own             \* it is set by the task's own definition

Id(p, names) == {p} \X names
NestedId == UNION {Id(p, StagesIn[p]) : p \in Pipeline}
StageId == Id(Top, Name) \cup NestedId

ASSUME PipelineAssumption ==
    /\ Top \notin Pipeline
    /\ NoPipeline \notin Pipeline
    /\ \A p \in Pipeline : StagesIn[p] # {} /\ Root \notin StagesIn[p]
    /\ \A id \in NestedId : Needs[id] \subseteq StagesIn[id[1]]
    /\ MayHold \in [StageId -> SUBSET (Pipeline \cup {NoPipeline})]
    /\ Setters \cup Owners \subseteq SUBSET StageId
    /\ Unset \notin StageId \cup {Own}
    /\ Own \notin StageId

VARIABLES
    phase,          \* "load", "flatten", "rebuild", "rebuilt" or "panic"
    holds,          \* Stage.Pipeline of the loaded stages
    setBy,          \* the stages with the key in their env
    ownBy,          \* the stages whose task has the key in its env
    stage,          \* what graphClone changes of a loaded stage
    stack,          \* the calls of Flatten under way and what they range over
    flat,           \* flattenedStages
    level,          \* RecurseParents: how far it has come
    merged          \* the environments rebuildFromDenormalized has merged

flattenVars == <<phase, holds, setBy, ownBy, stage, stack, flat>>
rebuildVars == <<level, merged>>
allVars == <<vars, flattenVars, rebuildVars>>

\* Variables.Merge: what is merged in wins.
Merge(value, src) == IF src = Unset THEN value ELSE src

Keys(p) == IF p = Top THEN nodes \ {Root} ELSE StagesIn[p]

\* ExecutionGraph.Children.
Children(p, name) ==
    IF p = Top THEN ToSet(children[name])
    ELSE {s \in StagesIn[p] : name \in IF Needs[<<p, s>>] = {} THEN {Root} ELSE Needs[<<p, s>>]}

DInit ==
    /\ Init
    /\ phase = "load"
    /\ holds = <<>>
    /\ setBy = {}
    /\ ownBy = {}
    /\ stage = <<>>
    /\ stack = <<>>
    /\ flat = <<>>
    /\ level = 1
    /\ merged = <<>>

Load == phase = "load" /\ Next /\ UNCHANGED <<flattenVars, rebuildVars>>

(***************************************************************************)
(* Flatten.  The elements of stack are ranges over stages: those a range   *)
(* over Children yields are looked up by their Name again, those of        *)
(* Nodes by the key they are known under.                                  *)
(***************************************************************************)
RangeOver(p, parents, todo, byName) ==
    [pipeline |-> p, parents |-> parents, todo |-> todo, byName |-> byName]

ChildrenOf(f, name) == RangeOver(f.pipeline, f.parents, Children(f.pipeline, name), TRUE)

\* A range over nothing is over at once.
Push(f, below) == IF f.todo = {} THEN below ELSE <<f>> \o below

Begin ==
    /\ phase = "load"
    /\ verdict = "built"
    /\ reached = {}
    /\ phase' = "flatten"
    /\ \E by \in Setters, own \in Owners,
          h \in {f \in [StageId -> Pipeline \cup {NoPipeline}] : \A id \in StageId : f[id] \in MayHold[id]} :
          /\ holds' = h
          /\ setBy' = by
          /\ ownBy' = {id \in own : h[id] = NoPipeline}
          /\ stage' = [id \in StageId |->
                [name |-> id[2],
                 env |-> IF id \in by THEN id ELSE Unset,
                 dependsOn |-> {<<d>> : d \in IF id[1] = Top THEN dependsOn[id[2]] ELSE Needs[id]}]]
    /\ stack' = Push(RangeOver(Top, <<Top>>, Children(Top, Root), TRUE), <<>>)
    /\ UNCHANGED <<vars, flat, rebuildVars>>

Current == Head(stack)

At(k) == phase = "flatten" /\ stack # <<>> /\ k \in Current.todo

\* The ranges still to be gone through once key k of the current one is.
Rest(k) == Push([Current EXCEPT !.todo = @ \ {k}], Tail(stack))

NameOf(k) == IF k # Root /\ Current.byName THEN stage[<<Current.pipeline, k>>].name ELSE k

\* [mutant] the stages of a nested pipeline are looked for in the outer graph.
FoundInTop(k) == NameOf(k) \in Keys(Top)

Found(k) == NameOf(k) \in Keys(Current.pipeline)

CascadeName(parents, name) == parents \o name

FromStage(id, parents) ==
    [origin |-> id,
     env |-> stage[id].env,
     taskEnv |-> IF id \in ownBy THEN Own ELSE Unset,
     dependsOn |-> {CascadeName(parents, d) : d \in stage[id].dependsOn}]

FlattenRoot ==
    /\ At(Root)
    /\ stack' = Push(ChildrenOf(Current, Root), Rest(Root))
    /\ UNCHANGED <<vars, phase, holds, setBy, ownBy, stage, flat, rebuildVars>>

\* The stage is not found under its name: FromStage dereferences nil.
FlattenMissing(k) ==
    /\ At(k)
    /\ k # Root /\ ~Found(k)
    /\ phase' = "panic"
    /\ UNCHANGED <<vars, holds, setBy, ownBy, stage, stack, flat, rebuildVars>>

Put(key, entry) == [u \in DOMAIN flat \cup {key} |-> IF u = key THEN entry ELSE flat[u]]

\* The stage the range yields with key k, and its unique name.
IdOf(k) == <<Current.pipeline, NameOf(k)>>
KeyOf(k) == Append(Current.parents, NameOf(k))

FlattenTask(k) ==
    /\ At(k)
    /\ Found(k)
    /\ holds[IdOf(k)] = NoPipeline
    /\ flat' = Put(KeyOf(k), FromStage(IdOf(k), Current.parents))
    /\ stack' = Push(ChildrenOf(Current, NameOf(k)), Rest(k))
    /\ UNCHANGED <<vars, phase, holds, setBy, ownBy, stage, rebuildVars>>

\* The stage that makes up all of a pipeline, if it holds a pipeline itself.
Aliases(p) == {id \in Id(p, StagesIn[p]) : StagesIn[p] = {id[2]} /\ holds[id] # NoPipeline}

FlattenPipeline(k) ==
    /\ At(k)
    /\ Found(k)
    /\ LET id == IdOf(k)
       IN  /\ holds[id] # NoPipeline
           /\ Aliases(holds[id]) = {}
           /\ flat' = Put(KeyOf(k), FromStage(id, Current.parents))
           /\ stack' = Push(RangeOver(holds[id], Append(Current.parents, stage[id].name),
                                      Keys(holds[id]) \cup {Root}, FALSE),
                            Push(ChildrenOf(Current, id[2]), Rest(k)))
    /\ UNCHANGED <<vars, phase, holds, setBy, ownBy, stage, rebuildVars>>

\* [mutant] the stage behind the alias keeps its name.
NewNameOld(id, alias) == stage[alias].name

NewName(id, alias) == stage[id].name

\* graphClone skips the pipeline in between: the stage that makes it up takes
\* the place of the one that holds it, in the pipeline everybody shares.
FlattenAlias(k) ==
    /\ At(k)
    /\ Found(k)
    /\ LET id == IdOf(k)
           clone == FromStage(id, Current.parents)
       IN  /\ holds[id] # NoPipeline
           /\ \E alias \in Aliases(holds[id]) :
                LET env == Merge(stage[alias].env, stage[id].env)
                IN  /\ stage' = [stage EXCEPT ![alias] =
                          [name |-> NewName(id, alias), env |-> env, dependsOn |-> clone.dependsOn]]
                    /\ flat' = Put(KeyOf(k), [clone EXCEPT !.env = Merge(@, env)])
                    /\ stack' = Push(RangeOver(holds[alias],
                                               Append(Current.parents, NewName(id, alias)),
                                               Keys(holds[alias]) \cup {Root}, FALSE),
                                     Push(ChildrenOf(Current, id[2]), Rest(k)))
    /\ UNCHANGED <<vars, phase, holds, setBy, ownBy, rebuildVars>>

(***************************************************************************)
(* rebuildFromDenormalized.  The members of the graph under a unique name  *)
(* are found by prefix; a stage's environment is merged with those of the  *)
(* stages above it, from the outermost on, before theirs are.  So what one *)
(* stage is merged with does not depend on the others, and all of them go  *)
(* from level to level together.                                           *)
(***************************************************************************)
HasPrefix(key, prefix) ==
    LET n == Len(prefix)
    IN  /\ Len(key) >= n
        /\ SubSeq(key, 1, n - 1) = Front(prefix)
        /\ key[n] = prefix[n] \/ <<prefix[n], key[n]>> \in StartsWith

NthLevelChildren(prefix, depth) ==
    {key \in DOMAIN flat : HasPrefix(key, prefix) /\ Len(key) = Len(prefix) + depth}

RecurseParents(key) ==
    IF level < Len(key) THEN {SubSeq(key, 1, level)} \cap DOMAIN flat ELSE {}

\* [mutant] the task gives way to the pipelines around it.
MergeIntoTaskLast(env, taskEnv) == Merge(taskEnv, env)

MergeIntoTask(env, taskEnv) == Merge(env, taskEnv)

MergeParent(key, parent) ==
    LET env == Merge(merged[key].env, flat[parent].env)
        taskEnv == MergeIntoTask(env, merged[key].taskEnv)
    IN  IF holds[flat[key].origin] = NoPipeline
        THEN [env |-> Merge(env, taskEnv), taskEnv |-> taskEnv]
        ELSE [merged[key] EXCEPT !.env = env]

BeginRebuild ==
    /\ phase = "flatten"
    /\ stack = <<>>
    /\ phase' = "rebuild"
    /\ merged' = [key \in DOMAIN flat |-> [env |-> flat[key].env, taskEnv |-> flat[key].taskEnv]]
    /\ UNCHANGED <<vars, holds, setBy, ownBy, stage, stack, flat, level>>

AtLastLevel == \A key \in DOMAIN flat : Len(key) <= level

MergeLevel ==
    /\ phase = "rebuild"
    /\ ~AtLastLevel
    /\ level' = level + 1
    /\ merged' = [key \in DOMAIN flat |->
          IF RecurseParents(key) = {} THEN merged[key]
          ELSE MergeParent(key, SubSeq(key, 1, level))]
    /\ UNCHANGED <<vars, flattenVars>>

EndRebuild ==
    /\ phase = "rebuild"
    /\ AtLastLevel
    /\ phase' = "rebuilt"
    /\ UNCHANGED <<vars, holds, setBy, ownBy, stage, stack, flat, rebuildVars>>

\* runStage: the value the task of a rebuilt stage is run with.
RunsWith(key) == Merge(merged[key].taskEnv, merged[key].env)

Denormalized == phase \in {"rebuilt", "panic"} /\ UNCHANGED allVars

DNext ==
    \/ Load
    \/ Begin
    \/ FlattenRoot
    \/ \E k \in UNION {Keys(p) : p \in Pipeline \cup {Top}} :
          FlattenMissing(k) \/ FlattenTask(k) \/ FlattenPipeline(k) \/ FlattenAlias(k)
    \/ BeginRebuild \/ MergeLevel \/ EndRebuild
    \/ Denormalized

DSpec == DInit /\ [][DNext]_allVars

-----------------------------------------------------------------------------
\* A pipeline that is only another name for the one its single stage holds.
IsAlias(p) == \E id \in NestedId : id[1] = p /\ StagesIn[p] = {id[2]} /\ holds[id] # NoPipeline

Sole(p) == CHOOSE id \in NestedId : id[1] = p

\* What stands below a stage: the stages of the pipeline it holds, or of the one
\* that is only another name for.
Held(id) == IF IsAlias(holds[id]) THEN holds[Sole(holds[id])] ELSE holds[id]

\* The names of pipelines in the table, and the pipeline each stands for.
Paths == {<<Top>>} \cup {key \in DOMAIN flat : holds[flat[key].origin] # NoPipeline}

PipelineAt(path) == IF path = <<Top>> THEN Top ELSE Held(flat[path].origin)

\* denormalize.go:23 "The denormalized pipeline will include all the same
\* stages and nested pipelines": whichever way the maps were ranged over, each
\* stage of a pipeline stands below each stage that holds the pipeline, as
\* docs/graph-implementation.md shows it, no other name is in the table, and
\* what a stage depends on is in the graph it is put in, unless that is root.
RebuiltIsComplete ==
    phase = "rebuilt" =>
        /\ DOMAIN flat = UNION {{Append(path, k) : k \in Keys(PipelineAt(path))} : path \in Paths}
        /\ \A key \in DOMAIN flat :
              /\ flat[key].origin = <<PipelineAt(Front(key)), Last(key)>>
              /\ \A dep \in flat[key].dependsOn :
                    dep \in NthLevelChildren(Front(key), 1) \/ Last(dep) = Root

\* The stages a unique name leads through, those left out among them, and the
\* stages that share one that is left out.
Through(key) == {flat[p].origin : p \in {q \in DOMAIN flat : IsPrefix(q, key)}}
LeftOut(key) == {Sole(p) : p \in {q \in Pipeline : IsAlias(q) /\ \E id \in Through(key) : holds[id] = q}}
Lineage(key) == Through(key) \cup LeftOut(key)
Sharers(key) == {id \in StageId : \E s \in LeftOut(key) : holds[id] = s[1]}

\* What a task is run with comes from its own definition or from a stage above
\* it, as long as there is one that sets it; nothing gets lost, and nothing
\* comes from elsewhere but through a stage several pipelines share.  In a
\* nested pipeline what the task's definition sets wins.
EnvHasSource ==
    phase = "rebuilt" =>
        \A key \in DOMAIN flat : holds[flat[key].origin] = NoPipeline =>
            LET value == RunsWith(key)
                own == flat[key].origin \in ownBy
            IN  /\ value \in (setBy \cap (Lineage(key) \cup Sharers(key)))
                       \cup {IF own THEN Own ELSE Unset}
                /\ Lineage(key) \cap setBy # {} => value # Unset
                /\ own /\ Len(key) > 2 => value = Own

\* Flatten finds every stage under its name, but for one case: of two pipelines
\* that are only other names, one stands for the other, and it comes across both
\* of them, the latter first.
PanicNeedsNesting ==
    phase = "panic" =>
        \E key1, key2 \in DOMAIN flat :
            LET p == holds[flat[key1].origin]
                q == holds[flat[key2].origin]
            IN  /\ {p, q} \subseteq Pipeline
                /\ IsAlias(p) /\ IsAlias(q) /\ holds[Sole(q)] = p

\* docs/graph-implementation.md:50-58, 110: what is set further inside wins, "the
\* tree is walked backwards to the first ancestor".
NearestWins ==
    phase = "rebuilt" =>
        \A key \in DOMAIN flat :
            LET set == {n \in 2..Len(key) : flat[SubSeq(key, 1, n)].origin \in setBy}
            IN  holds[flat[key].origin] = NoPipeline /\ flat[key].origin \notin ownBy /\ set # {} =>
                    RunsWith(key) = flat[SubSeq(key, 1, Max(set))].origin

-----------------------------------------------------------------------------
(***************************************************************************)
(* The inductive invariant.                                                *)
(***************************************************************************)
\* No pipeline is only another name for one that is only another name.  Where
\* that is not so, graphClone puts unique names among the dependencies that it
\* cascades again, and environments of others into the stage that is shared.
NoNameOfAName == \A p \in Pipeline : IsAlias(p) => ~IsAlias(holds[Sole(p)])

Part == {Top, Root} \cup Name \cup UNION {StagesIn[p] : p \in Pipeline}
Value == StageId \cup {Own, Unset}

Ranging == [pipeline : Pipeline \cup {Top}, parents : Seq(Part), todo : SUBSET Part,
            byName : BOOLEAN]

Entry == [origin : StageId, env : Value, taskEnv : {Own, Unset}, dependsOn : SUBSET Seq(Part)]

FlattenTypeOK ==
    /\ holds \in [StageId -> Pipeline \cup {NoPipeline}]
    /\ setBy \in SUBSET StageId /\ ownBy \in SUBSET StageId
    /\ stage \in [StageId -> [name : Part, env : Value, dependsOn : SUBSET Seq(Part)]]
    /\ stack \in Seq(Ranging)
    /\ DOMAIN flat \subseteq Seq(Part)
    /\ \A key \in DOMAIN flat : flat[key] \in Entry

\* The stages of pipeline p stand below path: it is the name of a stage that
\* holds p, but for the last part if the stage has been given another name.
PlacedAt(path, p) ==
    \/ path = <<Top>> /\ p = Top
    \/ /\ Len(path) > 1
       /\ \E u \in DOMAIN flat :
             /\ Front(u) = Front(path)
             /\ holds[flat[u].origin] # NoPipeline
             /\ Held(flat[u].origin) = p
             /\ Last(u) = Last(path) \/ IsAlias(flat[u].origin[1])

RangesArePlaced ==
    \A f \in ToSet(stack) :
        /\ PlacedAt(f.parents, f.pipeline)
        /\ f.todo \subseteq Keys(f.pipeline) \cup {Root}

KeysArePlaced ==
    \A key \in DOMAIN flat :
        /\ Len(key) > 1
        /\ PlacedAt(Front(key), flat[key].origin[1])
        /\ flat[key].origin[2] = Last(key)
        /\ Last(key) \in Keys(flat[key].origin[1])

\* What has the same name but for the last part is of the same pipeline.
OnePipelineBelow ==
    \A u, v \in DOMAIN flat : Front(u) = Front(v) => flat[u].origin[1] = flat[v].origin[1]

\* Only the stage behind a name that has been come across is renamed.
NamesAreKept ==
    \A id \in StageId :
        stage[id].name # id[2] =>
            IsAlias(id[1]) /\ \E u \in DOMAIN flat : holds[flat[u].origin] = id[1]

DependenciesOf(id) == IF id[1] = Top THEN dependsOn[id[2]] ELSE Needs[id]

DependenciesAreKept ==
    /\ \A id \in StageId :
          ~IsAlias(id[1]) => stage[id].dependsOn = {<<d>> : d \in DependenciesOf(id)}
    /\ \A key \in DOMAIN flat :
          LET id == flat[key].origin
          IN  ~IsAlias(id[1]) =>
                  flat[key].dependsOn = {Append(Front(key), d) : d \in DependenciesOf(id)}

\* What is not in the table although what it stands below is, or what it
\* depends on, is still to be come across.
Awaited(path, k) == \E f \in ToSet(stack) : f.parents = path /\ k \in f.todo

NothingIsMissed ==
    /\ \A path \in Paths \ {<<Top>>} : \A k \in Keys(PipelineAt(path)) :
          Append(path, k) \in DOMAIN flat \/ Awaited(path, k)
    /\ \A n \in nodes : n = Root \/ <<Top, n>> \in DOMAIN flat =>
          \A c \in Children(Top, n) : <<Top, c>> \in DOMAIN flat \/ Awaited(<<Top>>, c)

\* Before the merge an environment comes from the stage, from the one behind
\* the name it holds or from another that holds the name.
SharedStage(id) == IF IsAlias(holds[id]) THEN {Sole(holds[id])} ELSE {}

SourcesOf(id) ==
    {id} \cup SharedStage(id)
         \cup {h \in StageId : IsAlias(holds[id]) /\ holds[h] = holds[id]}

EnvsHaveSource ==
    /\ \A id \in StageId :
          /\ id \in setBy => stage[id].env # Unset
          /\ stage[id].env # Unset =>
                /\ stage[id].env \in setBy
                /\ stage[id].env # id => IsAlias(id[1]) /\ holds[stage[id].env] = id[1]
    /\ \A key \in DOMAIN flat :
          LET id == flat[key].origin
          IN  /\ flat[key].env # Unset => flat[key].env \in setBy \cap SourcesOf(id)
              /\ ({id} \cup SharedStage(id)) \cap setBy # {} => flat[key].env # Unset
              /\ flat[key].taskEnv = IF id \in ownBy THEN Own ELSE Unset

TablesInv ==
    /\ FlattenTypeOK
    /\ RangesArePlaced
    /\ KeysArePlaced
    /\ OnePipelineBelow
    /\ NamesAreKept
    /\ DependenciesAreKept
    /\ NoNameOfAName => NothingIsMissed /\ EnvsHaveSource

FlattenInv ==
    /\ phase \in {"load", "flatten", "rebuild", "rebuilt", "panic"}
    /\ phase # "load" => verdict = "built" /\ TablesInv
    /\ phase = "load" => flat = <<>>
    /\ phase \in {"rebuild", "rebuilt"} => stack = <<>>
    /\ PanicNeedsNesting

\* What the levels that are through have given to a task.
MergedSoFar ==
    LET above(key) == {SubSeq(key, 1, n) : n \in 1..(level - 1) \cap 1..(Len(key) - 1)} \cap DOMAIN flat
        from(key) == {key} \cup above(key)
    IN  /\ DOMAIN merged = DOMAIN flat
        /\ \A key \in DOMAIN flat :
              holds[flat[key].origin] = NoPipeline =>
                  LET env == merged[key].env
                      taskEnv == merged[key].taskEnv
                      own == flat[key].origin \in ownBy
                  IN  /\ env \in {flat[k].env : k \in from(key)} \cup {Unset} \cup {flat[key].taskEnv}
                      /\ taskEnv \in {flat[k].env : k \in from(key)} \cup {Unset} \cup {flat[key].taskEnv}
                      /\ own => taskEnv = Own /\ (above(key) # {} => env = Own)
                      /\ (\E k \in from(key) : flat[k].env # Unset) => env # Unset

RebuildInv ==
    /\ phase \notin {"rebuild", "rebuilt"} => level = 1
    /\ phase \in {"rebuild", "rebuilt"} => level \in Nat \ {0}
    /\ phase \in {"rebuild", "rebuilt"} /\ NoNameOfAName => MergedSoFar
    /\ phase = "rebuilt" => AtLastLevel
=============================================================================
