------------------------- MODULE TaskCompilerProofs -------------------------
(***************************************************************************)
(* Proofs about TaskCompiler: CompilerInv is inductive, and with it every  *)
(* invariant MCTaskCompiler.cfg checks holds for all tasks, contexts,      *)
(* variables, layers and renamings.                                        *)
(***************************************************************************)
EXTENDS TaskCompiler, TLAPS

Owners == Task \cup Container \cup {Default}

-----------------------------------------------------------------------------
(***************************************************************************)
(* Environments                                                            *)
(***************************************************************************)
\* A value is never taken for no value.
LEMMA ValueIsSet ==
    ASSUME NEW layer \in Layers \cup {"name"}, NEW owner \in Owners, NEW n \in Nat
    PROVE  <<layer, owner, n>> \in Values /\ <<layer, owner, n>> # Unset
  BY CompilerAssumption DEF Values, Owners

LEMMA LayerIsEnv ==
    ASSUME NEW layer \in Layers, NEW owner \in Owners, NEW n \in Nat
    PROVE  Layer(layer, owner, n) \in Env
  BY ValueIsSet DEF Layer, Env

LEMMA MergeIsEnv ==
    ASSUME NEW a \in Env, NEW b \in Env
    PROVE  Merge(a, b) \in Env
  BY DEF Merge, Env

\* One key of a merged environment.
LEMMA MergeAt ==
    ASSUME NEW a, NEW b, NEW k \in Key
    PROVE  Merge(a, b)[k] = IF b[k] # Unset THEN b[k] ELSE a[k]
  BY DEF Merge

LEMMA LayerAt ==
    ASSUME NEW layer \in Layers, NEW owner \in Owners, NEW n \in Nat, NEW k \in Key
    PROVE  Layer(layer, owner, n)[k] =
               IF k \in SetBy[layer][owner] THEN <<layer, owner, n>> ELSE Unset
  BY DEF Layer

LEMMA EnvIsSet == \A e \in Env : e # Unset
  BY CompilerAssumption

LEMMA LayersRanked ==
    ASSUME NEW layer \in Layers \cup {"name"}
    PROVE  Rank[layer] \in Nat
  BY DEF Rank, Layers

\* A layer laid over the others takes precedence over them.
LEMMA LayOver ==
    ASSUME NEW v, NEW B, TakesPrecedence(v, B),
           NEW layer \in Layers \cup {"name"}, NEW owner \in Owners, NEW n \in Nat,
           \A own \in B : Rank[own[1]] <= Rank[layer]
    PROVE  TakesPrecedence(<<layer, owner, n>>, B \cup {<<layer, owner, n>>})
  <1> DEFINE w == <<layer, owner, n>>
  <1>1. w[1] = layer /\ w # Unset
    BY ValueIsSet
  <1>2. Rank[layer] <= Rank[layer]
    BY LayersRanked
  <1> QED BY <1>1, <1>2 DEF TakesPrecedence

\* A layer laid under the others shows where none of them has a value.
LEMMA LayUnder ==
    ASSUME NEW v, NEW B, TakesPrecedence(v, B),
           NEW layer \in {"contextfile", "taskfile"}, NEW owner \in Owners, NEW n \in Nat,
           \A own \in B : Rank[layer] <= Rank[own[1]]
    PROVE  TakesPrecedence(IF v # Unset THEN v ELSE <<layer, owner, n>>,
                           B \cup {<<layer, owner, n>>})
  <1> DEFINE w == <<layer, owner, n>>
  <1>1. w[1] = layer /\ w # Unset
    BY ValueIsSet DEF Layers
  <1>2. Rank[layer] <= Rank[layer] /\ Rank[layer] <= Rank["args"]
        /\ Rank[layer] <= Rank["artifact"]
    BY DEF Rank
  <1>3. CASE v = Unset
    BY <1>1, <1>2, <1>3 DEF TakesPrecedence
  <1>4. CASE v # Unset
    <2>1. Rank[layer] <= Rank[v[1]]
      BY <1>2, <1>4 DEF TakesPrecedence
    <2> QED BY <1>1, <1>4, <2>1 DEF TakesPrecedence
  <1> QED BY <1>3, <1>4

\* TakesPrecedence for a layer that may not set the key at all.
Sets(layer, owner, n, k) == IF k \in SetBy[layer][owner] THEN {<<layer, owner, n>>} ELSE {}

LEMMA MergeOver ==
    ASSUME NEW e, NEW k \in Key, NEW B, TakesPrecedence(e[k], B),
           NEW layer \in Layers, NEW owner \in Owners, NEW n \in Nat,
           \A own \in B : Rank[own[1]] <= Rank[layer]
    PROVE  TakesPrecedence(Merge(e, Layer(layer, owner, n))[k], B \cup Sets(layer, owner, n, k))
  <1>1. CASE k \in SetBy[layer][owner]
    <2>1. Merge(e, Layer(layer, owner, n))[k] = <<layer, owner, n>>
      BY <1>1, ValueIsSet DEF Merge, Layer
    <2>2. Sets(layer, owner, n, k) = {<<layer, owner, n>>}
      BY <1>1 DEF Sets
    <2> QED BY <2>1, <2>2, LayOver
  <1>2. CASE k \notin SetBy[layer][owner]
    <2>1. Merge(e, Layer(layer, owner, n))[k] = e[k]
      BY <1>2 DEF Merge, Layer
    <2>2. B \cup Sets(layer, owner, n, k) = B
      BY <1>2 DEF Sets
    <2> QED BY <2>1, <2>2
  <1> QED BY <1>1, <1>2

LEMMA MergeUnder ==
    ASSUME NEW e, NEW k \in Key, NEW B, TakesPrecedence(e[k], B),
           NEW layer \in {"contextfile", "taskfile"}, NEW owner \in Owners, NEW n \in Nat,
           \A own \in B : Rank[layer] <= Rank[own[1]]
    PROVE  TakesPrecedence(Merge(Layer(layer, owner, n), e)[k], B \cup Sets(layer, owner, n, k))
  <1>0. layer \in Layers
    BY DEF Layers
  <1>1. CASE k \in SetBy[layer][owner]
    <2>1. Merge(Layer(layer, owner, n), e)[k] =
              IF e[k] # Unset THEN e[k] ELSE <<layer, owner, n>>
      BY <1>0, <1>1, MergeAt, LayerAt
    <2>2. Sets(layer, owner, n, k) = {<<layer, owner, n>>}
      BY <1>1 DEF Sets
    <2> QED BY <2>1, <2>2, LayUnder
  <1>2. CASE k \notin SetBy[layer][owner]
    <2>1. Merge(Layer(layer, owner, n), e)[k] = IF e[k] # Unset THEN e[k] ELSE Unset
      BY <1>2 DEF Merge, Layer
    <2>2. B \cup Sets(layer, owner, n, k) = B
      BY <1>2 DEF Sets
    <2> QED BY <2>1, <2>2
  <1> QED BY <1>1, <1>2

LEMMA Parts ==
    ASSUME NEW t \in Task
    PROVE  /\ t \in Owners /\ Default \in Owners /\ ContextOf[t] \in Owners
           /\ Variations[t] \in Nat /\ 0 \in Nat
           /\ Name \in Key
           /\ ~InContainer(t) <=> ContextOf[t] = Default
  BY CompilerAssumption DEF Owners, InContainer

LEMMA BuiltIsEnv ==
    ASSUME env \in Env, NEW t \in Task
    PROVE  BuildEnv(t) \in Env
  <1> DEFINE c == ContextOf[t]
             m == Merge(env, ContextEnv(c))
             named == [m EXCEPT ![Name] = <<"name", t, 0>>]
  <1>1. ContextEnv(c) \in Env
    BY Parts, LayerIsEnv, MergeIsEnv DEF ContextEnv, Layers
  <1>2. m \in Env
    BY <1>1, MergeIsEnv
  <1>3. <<"name", t, 0>> \in Values
    BY Parts, ValueIsSet
  <1>4. named \in Env
    BY <1>2, <1>3, Parts DEF Env
  <1>5. Layer("task", t, 0) \in Env /\ Layer("taskfile", t, 0) \in Env
    BY Parts, LayerIsEnv DEF Layers
  <1>6. Merge(named, Layer("task", t, 0)) \in Env
    BY <1>4, <1>5, MergeIsEnv
  <1> QED BY <1>5, <1>6, MergeIsEnv DEF BuildEnv

\* Run builds the environment of a task from the outside in.
LEMMA BuiltIsRight ==
    ASSUME env \in Env, EnvIsShared, NEW t \in Task, NEW k \in Key
    PROVE  TakesPrecedence(BuildEnv(t)[k], BaseValues(t, k))
  <1> DEFINE c == ContextOf[t]
             e1 == Merge(env, Layer("context", c, 0))
             e2 == Merge(e1, Layer("taskctl", Default, 0))
             m == Merge(env, ContextEnv(c))
             e3 == [m EXCEPT ![Name] = <<"name", t, 0>>]
             e4 == Merge(e3, Layer("task", t, 0))
             e5 == Merge(Layer("taskfile", t, 0), e4)
             B1 == Sets("context", c, 0, k)
             B2 == B1 \cup Sets("taskctl", Default, 0, k)
             B3 == B2 \cup (IF k = Name THEN {<<"name", t, 0>>} ELSE {})
             B4 == B3 \cup Sets("task", t, 0, k)
             B5 == B4 \cup Sets("taskfile", t, 0, k)
  <1>0. {"context", "taskctl", "task", "taskfile"} \subseteq Layers
    BY DEF Layers
  <1>1. TakesPrecedence(e1[k], B1)
    <2>1. TakesPrecedence(env[k], {})
      BY DEF EnvIsShared
    <2>2. TakesPrecedence(e1[k], {} \cup B1)
      <3> HIDE DEF B1
      <3> QED BY <1>0, <2>1, MergeOver, Parts DEF B1
    <2> QED BY <2>2
  <1>2. TakesPrecedence(e2[k], B2)
    <2>1. \A own \in B1 : Rank[own[1]] <= Rank["taskctl"]
      BY DEF Sets, Rank
    <2> HIDE DEF e1, B1
    <2> QED BY <1>0, <1>1, <2>1, MergeOver, Parts
  <1>3. TakesPrecedence(e3[k], B3)
    <2>1. m[k] = e2[k]
      BY MergeAt DEF ContextEnv
    <2>2. m \in Env
      <3>1. ContextEnv(c) \in Env
        BY <1>0, Parts, LayerIsEnv, MergeIsEnv DEF ContextEnv
      <3> QED BY <3>1, MergeIsEnv
    <2>3. e3[k] = IF k = Name THEN <<"name", t, 0>> ELSE m[k]
      <3> HIDE DEF m
      <3> QED BY <2>2 DEF Env
    <2>4. CASE k = Name
      <3>1. \A own \in B2 : Rank[own[1]] <= Rank["name"]
        BY DEF Sets, Rank
      <3>2. TakesPrecedence(<<"name", t, 0>>, B2 \cup {<<"name", t, 0>>})
        <4> HIDE DEF e2, B2
        <4> QED BY <1>2, <3>1, LayOver, Parts
      <3> HIDE DEF e3, m, B2
      <3> QED BY <2>3, <2>4, <3>2
    <2>5. CASE k # Name
      <3>1. B3 = B2
        BY <2>5
      <3> HIDE DEF e3, m, e2, B2, B3
      <3> QED BY <1>2, <2>1, <2>3, <2>5, <3>1
    <2> QED BY <2>4, <2>5
  <1>4. TakesPrecedence(e4[k], B4)
    <2>1. \A own \in B3 : Rank[own[1]] <= Rank["task"]
      BY DEF Sets, Rank
    <2> HIDE DEF e3, B3
    <2> QED BY <1>0, <1>3, <2>1, MergeOver, Parts
  <1>5. TakesPrecedence(e5[k], B5)
    <2>1. \A own \in B4 : Rank["taskfile"] <= Rank[own[1]]
      BY DEF Sets, Rank
    <2> HIDE DEF e4, B4
    <2> QED BY <1>0, <1>4, <2>1, MergeUnder, Parts
  <1>6. e5 = BuildEnv(t)
    BY DEF BuildEnv
  <1>7. BaseValues(t, k) = B5
    BY DEF BaseValues, OwnValues, Sets
  <1> HIDE DEF e5, B5
  <1> QED BY <1>5, <1>6, <1>7

-----------------------------------------------------------------------------
(***************************************************************************)
(* Jobs and envfiles                                                       *)
(***************************************************************************)
LEMMA JobIsEnv ==
    ASSUME TypeOK, NEW t \in Task, NEW i \in Nat
    PROVE  JobEnv(t, i) \in Env
  <1>1. Layer("variation", t, i) \in Env
    BY Parts, LayerIsEnv DEF Layers
  <1>2. base[t] \in Env /\ env \in Env
    BY DEF TypeOK
  <1> QED BY <1>1, <1>2, MergeIsEnv DEF JobEnv

\* The values that reach a job of t but the one of the context's envfile.
JobValues(t, i, k) == {v \in OwnValues(t, i, k) : v[1] # "contextfile"}

LEMMA JobIsRight ==
    ASSUME TypeOK, BaseIsRight, NEW t \in Task, NEW i \in Nat, NEW k \in Key,
           pc[t] # "idle", phase[t] # "condition"
    PROVE  TakesPrecedence(JobEnv(t, i)[k], JobValues(t, i, k))
  <1>1. TakesPrecedence(base[t][k], BaseValues(t, k))
    BY DEF BaseIsRight
  <1>2. CASE phase[t] = "task" /\ Variations[t] > 0
    <2>1. JobEnv(t, i) = Merge(base[t], Layer("variation", t, i))
      BY <1>2 DEF JobEnv
    <2>2. \A own \in BaseValues(t, k) : Rank[own[1]] <= Rank["variation"]
      BY DEF BaseValues, OwnValues, Rank
    <2>3. TakesPrecedence(JobEnv(t, i)[k], BaseValues(t, k) \cup Sets("variation", t, i, k))
      BY <1>1, <2>1, <2>2, MergeOver, Parts DEF Layers
    <2>4. JobValues(t, i, k) = BaseValues(t, k) \cup Sets("variation", t, i, k)
      BY <1>2 DEF JobValues, BaseValues, OwnValues, Sets
    <2> QED BY <2>3, <2>4
  <1>3. CASE ~(phase[t] = "task" /\ Variations[t] > 0)
    <2>1. JobEnv(t, i) = base[t]
      BY <1>3 DEF JobEnv
    <2>2. JobValues(t, i, k) = BaseValues(t, k)
      BY <1>3 DEF JobValues, BaseValues, OwnValues
    <2> QED BY <1>1, <2>1, <2>2
  <1> QED BY <1>2, <1>3

\* What a job without an executable sees.
LEMMA LocalJobIsRight ==
    ASSUME TypeOK, BaseIsRight, NEW t \in Task, NEW i \in Nat,
           pc[t] # "idle", phase[t] # "condition", ContextOf[t] = Default
    PROVE  RightEnv(t, i, JobEnv(t, i))
  <1>1. Default \notin Container
    BY CompilerAssumption
  <1>2. ASSUME NEW k \in Key PROVE RightValue(t, i, k, JobEnv(t, i)[k])
    <2>1. JobValues(t, i, k) = OwnValues(t, i, k)
      BY <1>1 DEF JobValues, OwnValues
    <2> QED BY <2>1, JobIsRight DEF RightValue
  <1> QED BY <1>2 DEF RightEnv

Whole(c, e) == Merge(Layer("contextfile", c, 0), e)

Written(c, e, k) ==
    IF Lines(c, Whole(c, e), k) = {} THEN {Unset} ELSE Lines(c, Whole(c, e), k)

LEMMA WholeIsEnv ==
    ASSUME NEW c \in Container, NEW e \in Env
    PROVE  Whole(c, e) \in Env
  BY LayerIsEnv, MergeIsEnv DEF Whole, Layers, Owners

LEMMA WrittenValues ==
    ASSUME NEW c \in Container, NEW e \in Env, NEW k \in Key
    PROVE  /\ Written(c, e, k) # {}
           /\ Written(c, e, k) \subseteq Values \cup {Unset}
  BY WholeIsEnv DEF Written, Lines, Env

\* Each key of an envfile has the value of one of its lines, or none.
LEMMA EnvfileLines ==
    ASSUME NEW c \in Container, NEW e \in Env, NEW f \in Envfiles(c, e)
    PROVE  /\ f \in Env
           /\ \A k \in Key : f[k] \in Written(c, e, k)
  <1> DEFINE clashes == {k \in Key : Cardinality(Written(c, e, k)) > 1}
             last == {w \in [clashes -> UNION {Written(c, e, k) : k \in clashes}] :
                         \A k \in clashes : w[k] \in Written(c, e, k)}
  <1>1. PICK w \in last :
            f = [k \in Key |-> IF k \in clashes THEN w[k]
                               ELSE CHOOSE v \in Written(c, e, k) : TRUE]
    BY DEF Envfiles, Written, Whole
  <1>2. ASSUME NEW k \in Key PROVE f[k] \in Written(c, e, k)
    <2>1. CASE k \in clashes
      BY <1>1, <2>1
    <2>2. CASE k \notin clashes
      <3>1. f[k] = CHOOSE v \in Written(c, e, k) : TRUE
        BY <1>1, <2>2
      <3> HIDE DEF clashes, last
      <3> QED BY <3>1, WrittenValues
    <2> QED BY <2>1, <2>2
  <1>3. f = [k \in Key |-> f[k]]
    BY <1>1
  <1> HIDE DEF clashes, last
  <1> QED BY <1>2, <1>3, WrittenValues DEF Env

\* The lists of the context hold for the file.
LEMMA EnvfileFilters ==
    ASSUME NEW c \in Container, NEW e \in Env, NEW f \in Envfiles(c, e), NEW k \in Key,
           f[k] # Unset
    PROVE  Passes(c, k)
  <1>1. f[k] \in Written(c, e, k)
    BY EnvfileLines
  <1>2. Lines(c, Whole(c, e), k) # {}
    BY <1>1 DEF Written
  <1> QED BY <1>2 DEF Lines

\* The envfile of a job shows what the job would see, under the new names.
LEMMA EnvfileIsRight ==
    ASSUME TypeOK, BaseIsRight, NEW t \in Task, NEW i \in Nat, InContainer(t),
           pc[t] # "idle", phase[t] # "condition",
           NEW f \in Envfiles(ContextOf[t], JobEnv(t, i))
    PROVE  RightEnv(t, i, f)
  <1> DEFINE c == ContextOf[t]
             e == JobEnv(t, i)
  <1>0. c \in Container /\ c # Default /\ e \in Env
    BY JobIsEnv, CompilerAssumption DEF InContainer
  <1>1. ASSUME NEW k \in Key PROVE RightValue(t, i, k, Whole(c, e)[k])
    <2>1. TakesPrecedence(e[k], JobValues(t, i, k))
      BY JobIsRight
    <2>2. \A own \in JobValues(t, i, k) : Rank["contextfile"] <= Rank[own[1]]
      BY DEF JobValues, OwnValues, Rank
    <2>3. TakesPrecedence(Whole(c, e)[k], JobValues(t, i, k) \cup Sets("contextfile", c, 0, k))
      <3> HIDE DEF e
      <3> QED BY <2>1, <2>2, MergeUnder, Parts DEF Whole
    <2>4. OwnValues(t, i, k) = JobValues(t, i, k) \cup Sets("contextfile", c, 0, k)
      BY <1>0 DEF JobValues, OwnValues, Sets
    <2> QED BY <2>3, <2>4 DEF RightValue
  <1>2. ASSUME NEW k \in Key, Passes(c, k), {j \in Key : Modify[c][j] = k} # {}
        PROVE  \E j \in {j \in Key : Modify[c][j] = k} : RightValue(t, i, j, f[k])
    <2> HIDE DEF e, c
    <2>1. f[k] \in Written(c, e, k)
      BY <1>0, EnvfileLines DEF e, c
    <2>2. CASE Lines(c, Whole(c, e), k) = {}
      <3>1. PICK j \in Key : Modify[c][j] = k
        BY <1>2
      <3>2. Whole(c, e)[j] = Unset
        BY <1>2, <2>2, <3>1 DEF Lines
      <3>3. f[k] = Unset
        BY <2>1, <2>2 DEF Written
      <3> QED BY <1>1, <3>1, <3>2, <3>3
    <2>3. CASE Lines(c, Whole(c, e), k) # {}
      <3>1. f[k] \in Lines(c, Whole(c, e), k)
        BY <2>1, <2>3 DEF Written
      <3>2. PICK j \in Key : Modify[c][j] = k /\ f[k] = Whole(c, e)[j]
        BY <3>1 DEF Lines
      <3> QED BY <1>1, <3>2
    <2> QED BY <2>2, <2>3
  <1> QED BY <1>0, <1>2 DEF RightEnv

-----------------------------------------------------------------------------
(***************************************************************************)
(* Every step keeps the invariant                                          *)
(***************************************************************************)
Phases == {"condition", "before", "task", "after"}

LEMMA PhasesTyped ==
    ASSUME NEW t \in Task
    PROVE  PhasesOf(t) \in Seq(Phases) /\ Len(PhasesOf(t)) >= 1
  <1> DEFINE a == IF t \in Conditional THEN <<"condition">> ELSE <<>>
             b == IF t \in HasBefore THEN <<"before">> ELSE <<>>
             d == IF t \in HasAfter THEN <<"after">> ELSE <<>>
  <1>0. <<>> \in Seq(Phases) /\ \A p \in Phases : <<p>> \in Seq(Phases)
    OBVIOUS
  <1>1. a \in Seq(Phases) /\ b \in Seq(Phases) /\ d \in Seq(Phases)
        /\ <<"task">> \in Seq(Phases) /\ Len(<<"task">>) = 1
    BY <1>0 DEF Phases
  <1>2. PhasesOf(t) = a \o b \o <<"task">> \o d
    BY DEF PhasesOf
  <1> HIDE DEF a, b, d
  <1>3. a \o b \in Seq(Phases) /\ Len(a \o b) = Len(a) + Len(b)
    BY <1>1
  <1>4. a \o b \o <<"task">> \in Seq(Phases)
        /\ Len(a \o b \o <<"task">>) = Len(a) + Len(b) + 1
    BY <1>1, <1>3
  <1>5. PhasesOf(t) \in Seq(Phases)
        /\ Len(PhasesOf(t)) = Len(a) + Len(b) + 1 + Len(d)
    BY <1>1, <1>2, <1>4
  <1> QED BY <1>1, <1>5

LEMMA CountsJobs ==
    ASSUME NEW t \in Task
    PROVE  JobCount(t) \in Nat /\ JobCount(t) >= 1
  BY CompilerAssumption DEF JobCount

\* A compiled job is added behind the others.
LEMMA JobAdded ==
    ASSUME TypeOK, NEW t \in Task, AddJob(t)
    PROVE  /\ jobs' = [jobs EXCEPT ![t] = Append(jobs[t], JobEnv(t, Len(jobs[t]) + 1))]
           /\ jobs' \in [Task -> Seq(Env)]
           /\ Len(jobs'[t]) = Len(jobs[t]) + 1
           /\ Len(jobs[t]) \in Nat
  <1>1. jobs[t] \in Seq(Env) /\ Len(jobs[t]) \in Nat
    BY DEF TypeOK
  <1>2. JobEnv(t, Len(jobs[t]) + 1) \in Env
    BY <1>1, JobIsEnv
  <1> QED BY <1>1, <1>2 DEF AddJob, TypeOK

LEMMA JobsStayWithin ==
    ASSUME TypeOK, NEW t \in Task, AddJob(t), Len(jobs[t]) < JobCount(t),
           ran' = ran, phase' = phase, NEW u \in Task
    PROVE  ran'[u] <= Len(jobs'[u]) /\ Len(jobs'[u]) <= JobCount(u)'
  <1>1. JobCount(u)' = JobCount(u) /\ JobCount(u) \in Nat
    BY CountsJobs DEF JobCount
  <1>2. ran[u] \in Nat /\ ran[u] <= Len(jobs[u]) /\ Len(jobs[u]) <= JobCount(u)
    BY DEF TypeOK
  <1>3. CASE u = t
    BY <1>1, <1>2, <1>3, JobAdded
  <1>4. CASE u # t
    <2>1. jobs'[u] = jobs[u]
      BY <1>4 DEF AddJob, TypeOK
    <2> QED BY <1>1, <1>2, <2>1
  <1> QED BY <1>3, <1>4

\* What Enter and Over leave of a task.
LEMMA EnterTyped ==
    ASSUME TypeOK, NEW t \in Task, NEW p \in Phases, Enter(t, p)
    PROVE  /\ pc' \in [Task -> {"idle", "compile", "generate", "command", "over"}]
           /\ phase' \in [Task -> Phases]
           /\ jobs' \in [Task -> Seq(Env)]
           /\ ran' \in [Task -> Nat]
           /\ shell' \in [Task -> Env \cup {Unset}]
           /\ \A u \in Task : ran'[u] <= Len(jobs'[u]) /\ Len(jobs'[u]) <= JobCount(u)'
  <1>1. <<>> \in Seq(Env)
    OBVIOUS
  <1>2. jobs' \in [Task -> Seq(Env)]
    BY <1>1 DEF TypeOK, Enter
  <1>3. ASSUME NEW u \in Task
        PROVE  ran'[u] <= Len(jobs'[u]) /\ Len(jobs'[u]) <= JobCount(u)'
    <2>1. CASE u = t
      <3>1. ran'[u] = 0 /\ jobs'[u] = <<>> /\ Len(jobs'[u]) = 0
        BY <2>1 DEF Enter, TypeOK
      <3>2. JobCount(u)' \in Nat
        BY CompilerAssumption DEF JobCount
      <3> QED BY <3>1, <3>2
    <2>2. CASE u # t
      <3>1. phase'[u] = phase[u] /\ ran'[u] = ran[u] /\ jobs'[u] = jobs[u]
        BY <2>2 DEF Enter, TypeOK
      <3>2. JobCount(u)' = JobCount(u)
        BY <3>1 DEF JobCount
      <3> QED BY <3>1, <3>2 DEF TypeOK
    <2> QED BY <2>1, <2>2
  <1> QED BY <1>2, <1>3 DEF TypeOK, Enter, Phases

LEMMA StoredIsEnv ==
    ASSUME env \in Env, NEW t \in Task
    PROVE  Store(t) \in Env
  BY LayerIsEnv, MergeIsEnv, Parts DEF Store, Layers

Step(t) ==
    \/ Begin(t) \/ Compile(t) \/ NameEnvfile(t) \/ GenerateEnvfile(t)
    \/ GenerateFails(t) \/ Execute(t) \/ CommandEnds(t) \/ EndPhase(t)

LEMMA StepTyped ==
    ASSUME TypeOK, NameIsRight, ShellIsRight, NEW t \in Task, Step(t)
    PROVE  TypeOK'
  <1>1. CASE Begin(t)
    <2>1. Head(PhasesOf(t)) \in Phases
      BY PhasesTyped
    <2>2. BuildEnv(t) \in Env
      BY BuiltIsEnv DEF TypeOK
    <2>3. base' \in [Task -> Env]
      BY <1>1, <2>2 DEF Begin, TypeOK
    <2> QED BY <1>1, <2>1, <2>3, EnterTyped DEF Begin, TypeOK, Phases
  <1>2. CASE Compile(t)
    <2>2. ASSUME NEW u \in Task
          PROVE  ran'[u] <= Len(jobs'[u]) /\ Len(jobs'[u]) <= JobCount(u)'
      BY <1>2, JobsStayWithin DEF Compile
    <2> QED BY <1>2, <2>2, JobAdded DEF Compile, TypeOK
  <1>3. CASE NameEnvfile(t)
    BY <1>3 DEF NameEnvfile, WithGeneratedPath, TypeOK, JobCount
  <1>4. CASE GenerateEnvfile(t)
    <2> DEFINE c == ContextOf[t]
    <2>2. AddJob(t) /\ Len(jobs[t]) < JobCount(t)
      BY <1>4 DEF GenerateEnvfile, NameIsRight
    <2>3. ASSUME NEW u \in Task
          PROVE  ran'[u] <= Len(jobs'[u]) /\ Len(jobs'[u]) <= JobCount(u)'
      BY <1>4, <2>2, JobsStayWithin DEF GenerateEnvfile
    <2>4. c \in Container
      BY <1>4 DEF GenerateEnvfile, NameIsRight, InContainer
    <2>5. JobEnv(t, Len(jobs[t]) + 1) \in Env
      BY JobIsEnv, <2>2, JobAdded
    <2>6. PICK f \in Envfiles(c, JobEnv(t, Len(jobs[t]) + 1)) :
              file' = [file EXCEPT ![generated[c]] = f]
      BY <1>4 DEF GenerateEnvfile
    <2>7. f \in Env
      BY <2>4, <2>5, EnvfileLines
    <2>8. file' \in [Task -> Env \cup {Unset}]
      BY <2>6, <2>7 DEF TypeOK
    <2>9. pc' \in [Task -> {"idle", "compile", "generate", "command", "over"}]
      BY <1>4 DEF GenerateEnvfile, TypeOK
    <2> QED BY <1>4, <2>2, <2>3, <2>8, <2>9, JobAdded DEF GenerateEnvfile, TypeOK
  <1>5. CASE GenerateFails(t)
    BY <1>5 DEF GenerateFails, Over, TypeOK, JobCount
  <1>6. CASE Execute(t)
    <2>1. jobs[t][ran[t] + 1] \in Env
      BY <1>6 DEF Execute, TypeOK
    <2>2. ShellEnv(t) \in Env \cup {Unset}
      BY <2>1 DEF ShellEnv, TypeOK
    <2>3. shell' \in [Task -> Env \cup {Unset}]
      BY <1>6, <2>2 DEF Execute, TypeOK
    <2>4. (IF ContextOf[t] = Default THEN shell'[t] ELSE file[t]) \in Env \cup {Unset}
      BY <2>3 DEF TypeOK
    <2>5. sees' \in [Task -> Env \cup {Unset}]
      BY <1>6, <2>4 DEF Execute, TypeOK
    <2> QED BY <1>6, <2>3, <2>5 DEF Execute, TypeOK, JobCount
  <1>7. CASE CommandEnds(t)
    <2>1. sees' \in [Task -> Env \cup {Unset}]
      BY <1>7 DEF CommandEnds, TypeOK
    <2>2. CASE Over(t)
      BY <1>7, <2>1, <2>2 DEF CommandEnds, Over, TypeOK, JobCount
    <2>3. CASE ran' = [ran EXCEPT ![t] = @ + 1] /\ pc' = [pc EXCEPT ![t] = "compile"]
               /\ UNCHANGED <<phase, jobs, shell>>
      <3>0. pc[t] = "command"
        BY <1>7 DEF CommandEnds
      <3>1. ran[t] < Len(jobs[t]) /\ Len(jobs[t]) \in Nat /\ ran[t] \in Nat
        <4>1. ran[t] < Len(jobs[t])
          BY <3>0 DEF ShellIsRight, Running
        <4> QED BY <4>1 DEF TypeOK
      <3>2. ASSUME NEW u \in Task
            PROVE  ran'[u] <= Len(jobs'[u]) /\ Len(jobs'[u]) <= JobCount(u)'
        BY <2>3, <3>1 DEF TypeOK, JobCount
      <3> QED BY <1>7, <2>1, <2>3, <3>2 DEF CommandEnds, TypeOK
    <2> QED BY <1>7, <2>2, <2>3 DEF CommandEnds
  <1>8. CASE EndPhase(t)
    <2>1. env' \in Env
      BY <1>8, StoredIsEnv DEF EndPhase, TypeOK
    <2>2. PICK i \in DOMAIN PhasesOf(t) :
              IF i = Len(PhasesOf(t)) THEN Over(t) ELSE Enter(t, PhasesOf(t)[i + 1])
      BY <1>8 DEF EndPhase
    <2>3. CASE Over(t)
      BY <1>8, <2>1, <2>3 DEF EndPhase, Over, TypeOK, JobCount
    <2>4. CASE i # Len(PhasesOf(t))
      <3>1. PhasesOf(t)[i + 1] \in Phases
        BY <2>4, PhasesTyped
      <3>2. Enter(t, PhasesOf(t)[i + 1])
        BY <2>2, <2>4
      <3> QED BY <1>8, <2>1, <3>1, <3>2, EnterTyped DEF EndPhase, TypeOK, Phases
    <2> QED BY <2>2, <2>3, <2>4
  <1> QED BY <1>1, <1>2, <1>3, <1>4, <1>5, <1>6, <1>7, <1>8 DEF Step

\* A step is one of a single task; the others only see its files and its artifact.
LEMMA OthersKept ==
    ASSUME TypeOK, NEW t \in Task, Step(t), NEW u \in Task, u # t
    PROVE  /\ pc'[u] = pc[u] /\ phase'[u] = phase[u] /\ base'[u] = base[u]
           /\ jobs'[u] = jobs[u] /\ ran'[u] = ran[u]
           /\ shell'[u] = shell[u] /\ sees'[u] = sees[u]
  <1>1. CASE Begin(t)
    BY <1>1 DEF Begin, Enter, TypeOK
  <1>2. CASE Compile(t) \/ NameEnvfile(t) \/ GenerateEnvfile(t)
    BY <1>2 DEF Compile, NameEnvfile, GenerateEnvfile, AddJob, TypeOK
  <1>3. CASE GenerateFails(t) \/ Execute(t) \/ CommandEnds(t)
    BY <1>3 DEF GenerateFails, Execute, CommandEnds, Over, TypeOK
  <1>4. CASE EndPhase(t)
    BY <1>4 DEF EndPhase, Enter, Over, TypeOK
  <1> QED BY <1>1, <1>2, <1>3, <1>4 DEF Step

\* What happens to the task that takes the step: it starts a phase or ends, or
\* stays in its phase and only then looks at what it compiled.
Restarted(t) ==
    /\ pc'[t] = "compile" /\ jobs'[t] = <<>> /\ ran'[t] = 0 /\ shell'[t] = Unset

LEMMA StepShape ==
    ASSUME TypeOK, NEW t \in Task, Step(t)
    PROVE  /\ pc[t] # "over" /\ pc'[t] # "idle"
           /\ pc[t] = "idle" => Begin(t)
           /\ \/ Restarted(t)
              \/ pc'[t] = "over"
              \/ Running(t) /\ phase'[t] = phase[t] /\ base'[t] = base[t] /\ env' = env
  <1>1. CASE Begin(t)
    BY <1>1 DEF Begin, Enter, Restarted, TypeOK
  <1>2. CASE Compile(t) \/ NameEnvfile(t) \/ GenerateEnvfile(t)
    BY <1>2 DEF Compile, NameEnvfile, GenerateEnvfile, Running, TypeOK
  <1>3. CASE GenerateFails(t) \/ Execute(t) \/ CommandEnds(t)
    BY <1>3 DEF GenerateFails, Execute, CommandEnds, Over, Running, TypeOK
  <1>4. CASE EndPhase(t)
    BY <1>4 DEF EndPhase, Enter, Over, Restarted, TypeOK
  <1> QED BY <1>1, <1>2, <1>3, <1>4 DEF Step

LEMMA JobKept ==
    ASSUME NEW u \in Task, NEW i, phase[u] # "condition",
           phase'[u] = phase[u], base'[u] = base[u]
    PROVE  JobEnv(u, i)' = JobEnv(u, i)
  BY DEF JobEnv, Merge, Layer

LEMMA EnvStaysShared ==
    ASSUME CompilerInv, NEW t \in Task, Step(t)
    PROVE  EnvIsShared'
  <1>1. CASE env' = env
    BY <1>1 DEF CompilerInv, EnvIsShared, TakesPrecedence
  <1>2. CASE env' = Store(t)
    <2>1. ASSUME NEW k \in Key PROVE TakesPrecedence(env'[k], {})
      <3>1. env'[k] = IF k \in SetBy["artifact"][t] THEN <<"artifact", t, 0>> ELSE env[k]
        BY <1>2, ValueIsSet, Parts DEF Store, Merge, Layer, Layers
      <3>2. TakesPrecedence(env[k], {})
        BY DEF CompilerInv, EnvIsShared
      <3> QED BY <3>1, <3>2 DEF TakesPrecedence
    <2> QED BY <2>1 DEF EnvIsShared, TakesPrecedence
  <1>3. env' = env \/ env' = Store(t)
    BY DEF Step, Begin, Compile, NameEnvfile, GenerateEnvfile, GenerateFails, Execute,
           CommandEnds, EndPhase
  <1> QED BY <1>1, <1>2, <1>3

LEMMA NeedsStayOver ==
    ASSUME CompilerInv, NEW t \in Task, Step(t)
    PROVE  NeedsAreOver'
  <1> SUFFICES ASSUME NEW v \in Task, pc'[v] # "idle", NEW u \in Needs[v]
               PROVE  pc'[u] = "over"
    BY DEF NeedsAreOver
  <1>0. u \in Task /\ TypeOK
    BY CompilerAssumption DEF CompilerInv
  <1>1. pc[u] = "over"
    <2>1. CASE pc[v] # "idle"
      BY <2>1 DEF CompilerInv, NeedsAreOver
    <2>2. CASE pc[v] = "idle"
      <3>1. v = t
        BY <1>0, <2>2, OthersKept
      <3>2. Begin(v)
        BY <1>0, <2>2, <3>1, StepShape
      <3> QED BY <3>2 DEF Begin
    <2> QED BY <2>1, <2>2
  <1>2. u # t
    BY <1>0, <1>1, StepShape
  <1> QED BY <1>0, <1>1, <1>2, OthersKept

LEMMA BaseStaysRight ==
    ASSUME CompilerInv, NEW t \in Task, Step(t)
    PROVE  BaseIsRight'
  <1> SUFFICES ASSUME NEW u \in Task, NEW k \in Key, pc'[u] # "idle"
               PROVE  TakesPrecedence(base'[u][k], BaseValues(u, k)')
    BY DEF BaseIsRight, TakesPrecedence
  <1>0. TypeOK /\ EnvIsShared /\ env \in Env
    BY DEF CompilerInv, TypeOK
  <1>1. BaseValues(u, k)' = BaseValues(u, k)
    BY DEF BaseValues, OwnValues
  <1>2. CASE pc[u] # "idle"
    <2>1. base'[u] = base[u]
      <3>1. CASE u # t
        BY <1>0, <3>1, OthersKept
      <3>2. CASE u = t
        BY <1>2, <3>2 DEF Step, Begin, Compile, NameEnvfile, GenerateEnvfile, GenerateFails,
                          Execute, CommandEnds, EndPhase
      <3> QED BY <3>1, <3>2
    <2> QED BY <1>1, <1>2, <2>1 DEF CompilerInv, BaseIsRight
  <1>3. CASE pc[u] = "idle"
    <2>1. u = t
      BY <1>0, <1>3, OthersKept
    <2>2. Begin(t)
      BY <1>0, <1>3, <2>1, StepShape
    <2>3. base'[u] = BuildEnv(u)
      BY <1>0, <2>1, <2>2 DEF Begin, TypeOK
    <2> QED BY <1>0, <1>1, <2>3, BuiltIsRight
  <1> QED BY <1>2, <1>3

LEMMA JobsStayRight ==
    ASSUME CompilerInv, NEW t \in Task, Step(t)
    PROVE  JobsAreRight'
  <1> SUFFICES ASSUME NEW u \in Task, Running(u)', phase'[u] # "condition",
                      NEW i \in DOMAIN jobs'[u]
               PROVE  jobs'[u][i] = JobEnv(u, i)'
    BY DEF JobsAreRight
  <1>0. TypeOK
    BY DEF CompilerInv
  <1>1. CASE u # t
    <2>1. Running(u) /\ jobs'[u] = jobs[u] /\ phase'[u] = phase[u] /\ base'[u] = base[u]
      BY <1>0, <1>1, OthersKept DEF Running
    <2> QED BY <2>1, JobKept DEF CompilerInv, JobsAreRight
  <1>2. CASE u = t /\ Restarted(t)
    BY <1>2 DEF Restarted
  <1>3. CASE u = t /\ Running(t) /\ phase'[t] = phase[t] /\ base'[t] = base[t]
    <2>1. JobEnv(t, i)' = JobEnv(t, i)
      BY <1>3, JobKept
    <2>2. CASE jobs' = jobs
      BY <1>3, <2>1, <2>2 DEF CompilerInv, JobsAreRight
    <2>3. CASE AddJob(t)
      <3>1. jobs[t] \in Seq(Env)
        BY <1>0 DEF TypeOK
      <3>2. jobs'[t] = Append(jobs[t], JobEnv(t, Len(jobs[t]) + 1))
        BY <1>0, <2>3, JobAdded DEF TypeOK
      <3>3. i \in 1..(Len(jobs[t]) + 1)
        BY <1>3, <3>1, <3>2
      <3>4. CASE i = Len(jobs[t]) + 1
        BY <1>3, <2>1, <3>1, <3>2, <3>4
      <3>5. CASE i \in 1..Len(jobs[t])
        BY <1>3, <2>1, <3>1, <3>2, <3>5 DEF CompilerInv, JobsAreRight
      <3> QED BY <3>1, <3>3, <3>4, <3>5
    <2>4. jobs' = jobs \/ AddJob(t) \/ Restarted(t) \/ ~Running(t)'
      BY <1>0, <1>3 DEF Step, Begin, Compile, NameEnvfile, GenerateEnvfile, GenerateFails,
                    Execute, CommandEnds, EndPhase, Enter, Over, Restarted, Running, TypeOK
    <2> QED BY <1>2, <1>3, <2>2, <2>3, <2>4
  <1> QED BY <1>0, <1>1, <1>2, <1>3, StepShape DEF Running

\* ShellIsRight for one task.
ShellOf(t) ==
    LET resets == phase[t] = "task" /\ t \in Resets IN
    /\ shell[t] = Unset => ran[t] = 0 /\ pc[t] # "command"
    /\ shell[t] # Unset =>
          Len(jobs[t]) = JobCount(t) /\ (resets \/ shell[t] = jobs[t][1])
    /\ pc[t] = "command" =>
          /\ ran[t] < Len(jobs[t])
          /\ resets => shell[t] = jobs[t][ran[t] + 1]
          /\ ~InContainer(t) => sees[t] = shell[t]

LEMMA ShellStaysRight ==
    ASSUME CompilerInv, NEW t \in Task, Step(t)
    PROVE  ShellIsRight'
  <1> SUFFICES ASSUME NEW u \in Task, Running(u)' PROVE ShellOf(u)'
    BY DEF ShellIsRight, ShellOf
  <1>0. TypeOK /\ \A v \in Task : Running(v) => ShellOf(v)
    BY DEF CompilerInv, ShellIsRight, ShellOf
  <1>1. CASE u # t
    <2>1. /\ pc'[u] = pc[u] /\ phase'[u] = phase[u] /\ jobs'[u] = jobs[u]
          /\ ran'[u] = ran[u] /\ shell'[u] = shell[u] /\ sees'[u] = sees[u]
      BY <1>0, <1>1, OthersKept
    <2>2. ShellOf(u)
      BY <1>0, <2>1 DEF Running
    <2> QED BY <2>1, <2>2 DEF ShellOf, JobCount, InContainer
  <1>2. CASE u = t /\ Restarted(t)
    BY <1>2 DEF Restarted, ShellOf
  <1>3. CASE u = t /\ (Compile(t) \/ NameEnvfile(t) \/ GenerateEnvfile(t))
    <2>1. Running(t) /\ Len(jobs[t]) < JobCount(t)
      BY <1>3 DEF Compile, NameEnvfile, GenerateEnvfile, Running, CompilerInv, NameIsRight
    <2>2. JobCount(t) \in Nat /\ Len(jobs[t]) \in Nat
      BY <1>0, CountsJobs DEF TypeOK
    <2>3. shell[t] = Unset /\ ran[t] = 0
      BY <1>0, <2>1, <2>2 DEF ShellOf
    <2>4. shell'[t] = Unset /\ ran'[t] = 0 /\ pc'[t] # "command"
      BY <1>0, <1>3, <2>3 DEF Compile, NameEnvfile, GenerateEnvfile, TypeOK
    <2> QED BY <1>3, <2>4 DEF ShellOf
  <1>4. CASE u = t /\ Execute(t)
    <2>1. /\ pc[t] = "compile" /\ Running(t) /\ ShellOf(t)
          /\ Len(jobs[t]) = JobCount(t) /\ ran[t] < Len(jobs[t]) /\ ran[t] \in Nat
          /\ jobs' = jobs /\ ran' = ran /\ phase' = phase
      BY <1>0, <1>4 DEF Execute, Running, TypeOK
    <2>2. JobCount(t)' = JobCount(t) /\ InContainer(t)' = InContainer(t)
      BY <2>1 DEF JobCount, InContainer
    <2>3. shell'[t] = ShellEnv(t) /\ (ContextOf[t] = Default => sees'[t] = shell'[t])
      BY <1>0, <1>4 DEF Execute, TypeOK
    <2>4. jobs[t][ran[t] + 1] \in Env
      BY <1>0, <2>1 DEF TypeOK
    <2>5. ShellEnv(t) # Unset
      BY <2>4, EnvIsSet DEF ShellEnv
    <2>6. CASE phase[t] = "task" /\ t \in Resets
      <3>1. ShellEnv(t) = jobs[t][ran[t] + 1]
        BY <2>6 DEF ShellEnv
      <3> QED BY <1>4, <2>1, <2>2, <2>3, <2>5, <2>6, <3>1, Parts DEF ShellOf
    <2>7. CASE ~(phase[t] = "task" /\ t \in Resets)
      <3>1. ShellEnv(t) = jobs[t][1]
        BY <2>1, <2>7 DEF ShellEnv, ShellOf
      <3> QED BY <1>4, <2>1, <2>2, <2>3, <2>5, <2>7, <3>1, Parts DEF ShellOf
    <2> QED BY <2>6, <2>7
  <1>5. CASE u = t /\ CommandEnds(t)
    <2>1. pc[t] = "command" /\ ShellOf(t)
      BY <1>0, <1>5 DEF CommandEnds, Running
    <2>2. pc'[t] = "compile" /\ phase' = phase /\ jobs' = jobs /\ shell' = shell
      BY <1>0, <1>5 DEF CommandEnds, Over, Running, TypeOK
    <2> QED BY <1>5, <2>1, <2>2 DEF ShellOf, JobCount
  <1>6. CASE u = t /\ (Begin(t) \/ GenerateFails(t) \/ EndPhase(t))
    <2>1. Restarted(t) \/ ~Running(t)'
      BY <1>0, <1>6 DEF Begin, GenerateFails, EndPhase, Enter, Over, Restarted, Running, TypeOK
    <2> QED BY <1>2, <1>6, <2>1
  <1> QED BY <1>1, <1>3, <1>4, <1>5, <1>6 DEF Step

\* While a task that is alone in its container runs, no other of them does.
LEMMA AloneRuns ==
    ASSUME TypeOK, NeedsAreOver, NEW t \in Task, NEW u \in Task \ {t},
           Alone(u), Running(u), ContextOf[t] = ContextOf[u]
    PROVE  ~Running(t) /\ ~Begin(t)
  <1>1. t \in Needs[u] \/ u \in Needs[t]
    BY DEF Alone
  <1>2. CASE t \in Needs[u]
    BY <1>2 DEF NeedsAreOver, Running, Begin
  <1>3. CASE u \in Needs[t]
    BY <1>3 DEF NeedsAreOver, Running, Begin
  <1> QED BY <1>1, <1>2, <1>3

LEMMA NameStaysRight ==
    ASSUME CompilerInv, NEW t \in Task, Step(t)
    PROVE  NameIsRight'
  <1>0. TypeOK /\ NeedsAreOver /\ NameIsRight
    BY DEF CompilerInv
  <1>1. CASE NameEnvfile(t)
    <2> DEFINE c == ContextOf[t]
    <2>1. c \in Container /\ generated' = [generated EXCEPT ![c] = t] /\ t # Unset
      BY <1>1, CompilerAssumption DEF NameEnvfile, WithGeneratedPath
    <2>2. pc[t] = "compile" /\ Running(t) /\ Len(jobs[t]) < JobCount(t) /\ jobs' = jobs
          /\ phase' = phase
      BY <1>1 DEF NameEnvfile, Running
    <2>3. \A d \in Container : generated'[d] # Unset => ContextOf[generated'[d]] = d
      BY <1>0, <2>1 DEF NameIsRight, TypeOK
    <2>4. ASSUME NEW u \in Task, pc'[u] = "generate"
          PROVE  /\ InContainer(u)' /\ Len(jobs'[u]) < JobCount(u)'
                 /\ generated'[ContextOf[u]] # Unset
                 /\ Alone(u) => generated'[ContextOf[u]] = u
      <3>1. CASE u = t
        BY <1>0, <2>1, <2>2, <3>1 DEF InContainer, JobCount, TypeOK
      <3>2. CASE u # t
        <4>1. pc[u] = "generate" /\ Running(u)
          BY <1>0, <2>4, <3>2, OthersKept DEF Step, Running
        <4>2. Alone(u) => ContextOf[u] # c
          BY <1>0, <2>2, <3>2, <4>1, AloneRuns
        <4> QED BY <1>0, <2>1, <2>2, <4>1, <4>2 DEF InContainer, JobCount, NameIsRight, TypeOK
      <3> QED BY <3>1, <3>2
    <2> QED BY <2>3, <2>4 DEF NameIsRight, Alone
  <1>2. CASE generated' = generated /\ pc'[t] # "generate"
    <2>1. ASSUME NEW u \in Task, pc'[u] = "generate"
          PROVE  pc[u] = "generate" /\ jobs'[u] = jobs[u] /\ phase'[u] = phase[u]
      BY <1>0, <1>2, <2>1, OthersKept
    <2> QED BY <1>0, <1>2, <2>1 DEF NameIsRight, InContainer, JobCount, Alone
  <1>3. NameEnvfile(t) \/ (generated' = generated /\ pc'[t] # "generate")
    BY <1>0 DEF Step, Begin, Compile, GenerateEnvfile, GenerateFails, Execute,
                CommandEnds, EndPhase, Enter, Over, TypeOK
  <1> QED BY <1>1, <1>2, <1>3

\* A step that generates an envfile: which file it writes and what is in it.
LEMMA FileWritten ==
    ASSUME CompilerInv, NEW t \in Task, GenerateEnvfile(t)
    PROVE  LET c == ContextOf[t] IN
           /\ c \in Container /\ ContextOf[generated[c]] = c
           /\ Alone(t) => generated[c] = t
           /\ \E f \in Envfiles(c, JobEnv(t, Len(jobs[t]) + 1)) :
                  file' = [file EXCEPT ![generated[c]] = f]
  BY DEF CompilerInv, NameIsRight, GenerateEnvfile, InContainer

LEMMA FileKept ==
    ASSUME NEW t \in Task, Step(t), ~GenerateEnvfile(t)
    PROVE  file' = file
  BY DEF Step, Begin, Compile, NameEnvfile, GenerateFails, Execute, CommandEnds, EndPhase

\* FileIsRight for one task.
FileOf(t) ==
    /\ jobs[t] # <<>> => file[t] \in Envfiles(ContextOf[t], JobEnv(t, Len(jobs[t])))
    /\ pc[t] = "command" => sees[t] \in Envfiles(ContextOf[t], JobEnv(t, JobCount(t)))

LEMMA FileStaysRight ==
    ASSUME CompilerInv, NEW t \in Task, Step(t)
    PROVE  FileIsRight'
  <1> SUFFICES ASSUME NEW u \in Task, Running(u)', phase'[u] # "condition",
                      InContainer(u), Alone(u)
               PROVE  FileOf(u)'
    BY DEF FileIsRight, FileOf, InContainer, Alone
  <1>0. /\ TypeOK /\ NeedsAreOver /\ NameIsRight
        /\ Running(u) /\ phase[u] # "condition" => FileOf(u)
    BY DEF CompilerInv, FileIsRight, FileOf
  <1>1. CASE u # t
    <2>1. /\ Running(u) /\ pc'[u] = pc[u] /\ phase'[u] = phase[u] /\ base'[u] = base[u]
          /\ jobs'[u] = jobs[u] /\ sees'[u] = sees[u]
      BY <1>0, <1>1, OthersKept DEF Running
    <2>2. FileOf(u)
      BY <1>0, <2>1
    <2>3. file'[u] = file[u]
      <3>1. CASE GenerateEnvfile(t)
        <4>1. Running(t)
          BY <3>1 DEF GenerateEnvfile, Running
        <4>2. ContextOf[t] # ContextOf[u]
          BY <1>0, <1>1, <2>1, <4>1, AloneRuns
        <4>3. generated[ContextOf[t]] # u
          BY <3>1, <4>2, FileWritten
        <4>4. PICK f : file' = [file EXCEPT ![generated[ContextOf[t]]] = f]
          BY <3>1, FileWritten
        <4> QED BY <1>0, <4>3, <4>4 DEF TypeOK
      <3>2. CASE ~GenerateEnvfile(t)
        BY <3>2, FileKept
      <3> QED BY <3>1, <3>2
    <2>4. \A i : JobEnv(u, i)' = JobEnv(u, i)
      BY <2>1, JobKept
    <2>5. JobCount(u)' = JobCount(u)
      BY <2>1 DEF JobCount
    <2>6. jobs[u] # <<>> => file[u] \in Envfiles(ContextOf[u], JobEnv(u, Len(jobs[u])))'
      BY <2>1, <2>2, <2>4 DEF FileOf
    <2>7. pc[u] = "command" => sees[u] \in Envfiles(ContextOf[u], JobEnv(u, JobCount(u)))'
      BY <2>2, <2>4, <2>5 DEF FileOf
    <2> QED BY <2>1, <2>3, <2>6, <2>7 DEF FileOf
  <1>2. CASE u = t /\ Restarted(t)
    BY <1>2 DEF Restarted, FileOf
  <1>3. CASE u = t /\ Running(t) /\ phase'[t] = phase[t] /\ base'[t] = base[t] /\ ~Restarted(t)
    <2>1. \A i : JobEnv(t, i)' = JobEnv(t, i)
      BY <1>3, JobKept
    <2>2. JobCount(t)' = JobCount(t)
      BY <1>3 DEF JobCount
    <2>3. FileOf(t)
      BY <1>0, <1>3
    <2>4. CASE GenerateEnvfile(t)
      <3>1. PICK f \in Envfiles(ContextOf[t], JobEnv(t, Len(jobs[t]) + 1)) :
                file' = [file EXCEPT ![t] = f]
        BY <1>3, <2>4, FileWritten
      <3>2. file'[t] = f
        BY <1>0, <3>1 DEF TypeOK
      <3>3. Len(jobs'[t]) = Len(jobs[t]) + 1
        BY <1>0, <2>4, JobAdded DEF GenerateEnvfile
      <3>4. pc'[t] # "command"
        BY <1>0, <2>4 DEF GenerateEnvfile, TypeOK
      <3>5. file'[t] \in Envfiles(ContextOf[t], JobEnv(t, Len(jobs[t]))) '
        BY <2>1, <3>1, <3>2, <3>3
      <3> QED BY <1>3, <3>4, <3>5 DEF FileOf
    <2>5. CASE Execute(t)
      <3>1. /\ jobs' = jobs /\ Len(jobs[t]) = JobCount(t) /\ jobs[t] # <<>>
            /\ file' = file /\ sees'[t] = file[t]
        BY <1>0, <1>3, <2>5, CountsJobs, CompilerAssumption
           DEF Execute, TypeOK, InContainer
      <3>2. file[t] \in Envfiles(ContextOf[t], JobEnv(t, JobCount(t)))
        BY <2>3, <3>1 DEF FileOf
      <3> QED BY <1>3, <2>1, <2>2, <3>1, <3>2 DEF FileOf
    <2>6. CASE NameEnvfile(t) \/ CommandEnds(t)
      <3>1. jobs' = jobs /\ file' = file /\ pc'[t] # "command"
        BY <1>0, <1>3, <2>6 DEF NameEnvfile, CommandEnds, Over, Running, TypeOK
      <3> QED BY <1>3, <2>1, <2>3, <3>1 DEF FileOf
    <2>7. ~Compile(t)
      BY <1>3, CompilerAssumption DEF Compile, InContainer
    <2>8. CASE Begin(t) \/ GenerateFails(t) \/ EndPhase(t)
      BY <1>0, <1>3, <2>8 DEF Begin, GenerateFails, EndPhase, Enter, Over, Restarted, Running,
                              TypeOK
    <2> QED BY <2>4, <2>5, <2>6, <2>7, <2>8 DEF Step
  <1> QED BY <1>0, <1>1, <1>2, <1>3, StepShape DEF Running

LEMMA FilterStaysHeld ==
    ASSUME CompilerInv, NEW t \in Task, Step(t)
    PROVE  FilterHolds'
  <1>0. TypeOK /\ FilterHolds
    BY DEF CompilerInv
  <1>1. CASE GenerateEnvfile(t)
    <2> DEFINE c == ContextOf[t]
    <2>1. c \in Container /\ ContextOf[generated[c]] = c
      BY <1>1, FileWritten
    <2>2. PICK f \in Envfiles(c, JobEnv(t, Len(jobs[t]) + 1)) :
              file' = [file EXCEPT ![generated[c]] = f]
      BY <1>1, FileWritten
    <2>3. JobEnv(t, Len(jobs[t]) + 1) \in Env
      BY <1>0, JobIsEnv DEF TypeOK
    <2>4. ASSUME NEW u \in Task, NEW k \in Key, file'[u] # Unset, file'[u][k] # Unset
          PROVE  Passes(ContextOf[u], k)
      <3>1. CASE u = generated[c]
        <4>1. file'[u] = f
          BY <1>0, <2>2, <3>1 DEF TypeOK
        <4> QED BY <2>1, <2>3, <2>4, <3>1, <4>1, EnvfileFilters
      <3>2. CASE u # generated[c]
        <4>1. file'[u] = file[u]
          BY <1>0, <2>2, <3>2 DEF TypeOK
        <4> QED BY <1>0, <2>4, <4>1 DEF FilterHolds, Passes
      <3> QED BY <3>1, <3>2
    <2> QED BY <2>4 DEF FilterHolds, Passes
  <1>2. CASE ~GenerateEnvfile(t)
    <2>1. file' = file
      BY <1>2, FileKept
    <2> QED BY <1>0, <2>1 DEF FilterHolds
  <1> QED BY <1>1, <1>2

\* An artifact that is in the environment of the runner when t begins is in the
\* one Run builds for t, or under a layer that takes precedence.
LEMMA BuiltWithArtifact ==
    ASSUME env \in Env, NEW t \in Task, NEW k \in Key, NEW u \in Task,
           env[k] = <<"artifact", u, 0>>
    PROVE  /\ BuildEnv(t)[k] # Unset
           /\ BuildEnv(t)[k] = env[k] \/ Rank[BuildEnv(t)[k][1]] > Rank["artifact"]
  <1> DEFINE c == ContextOf[t]
             m == Merge(env, ContextEnv(c))
             named == [m EXCEPT ![Name] = <<"name", t, 0>>]
             own == Merge(named, Layer("task", t, 0))
  <1>0. <<"artifact", u, 0>> # Unset /\ <<"name", t, 0>> # Unset /\ <<"task", t, 0>> # Unset
        /\ <<"context", c, 0>> # Unset /\ <<"taskctl", Default, 0>> # Unset
    BY ValueIsSet, Parts DEF Layers, Owners
  <1>1. m[k] \in {env[k], <<"context", c, 0>>, <<"taskctl", Default, 0>>}
    BY <1>0 DEF ContextEnv, Merge, Layer
  <1>2. named[k] \in {m[k], <<"name", t, 0>>}
    BY Parts DEF Merge
  <1>3. own[k] \in {named[k], <<"task", t, 0>>}
    <2> HIDE DEF named
    <2> QED BY <1>0 DEF Merge, Layer
  <1>4. own[k] \in {env[k], <<"context", c, 0>>, <<"taskctl", Default, 0>>,
                    <<"name", t, 0>>, <<"task", t, 0>>}
    BY <1>1, <1>2, <1>3
  <1>5. BuildEnv(t)[k] = own[k]
    <2>1. own[k] # Unset
      <3> HIDE DEF own
      <3> QED BY <1>0, <1>4
    <2>2. BuildEnv(t) = Merge(Layer("taskfile", t, 0), own)
      BY DEF BuildEnv
    <2> HIDE DEF own
    <2> QED BY <2>1, <2>2, MergeAt
  <1> HIDE DEF own
  <1> QED BY <1>0, <1>4, <1>5 DEF Rank

LEMMA ArtifactsStaySeen ==
    ASSUME CompilerInv, NEW t \in Task, Step(t)
    PROVE  SeesArtifacts'
  <1> SUFFICES ASSUME NEW v \in Task, NEW k \in Key, NEW u \in Needs[v],
                      pc'[v] # "idle", env'[k] = <<"artifact", u, 0>>
               PROVE  /\ base'[v][k] # Unset
                      /\ \/ base'[v][k] = env'[k]
                         \/ Rank[base'[v][k][1]] > Rank["artifact"]
    BY DEF SeesArtifacts
  <1>0. TypeOK /\ SeesArtifacts /\ env \in Env /\ u \in Task
    BY CompilerAssumption DEF CompilerInv, TypeOK
  <1>1. u # t
    <2>1. pc'[u] = "over"
      BY NeedsStayOver DEF NeedsAreOver
    <2>2. CASE u = t /\ pc[v] # "idle"
      BY <1>0, <2>2, StepShape DEF CompilerInv, NeedsAreOver
    <2>3. CASE u = t /\ pc[v] = "idle"
      <3>1. v = t
        BY <1>0, <2>3, OthersKept
      <3> QED BY <1>0, <2>1, <2>3, <3>1, StepShape DEF Begin, Enter, TypeOK
    <2> QED BY <2>2, <2>3
  <1>2. env[k] = <<"artifact", u, 0>>
    <2>1. env' = env \/ env' = Store(t)
      BY DEF Step, Begin, Compile, NameEnvfile, GenerateEnvfile, GenerateFails, Execute,
             CommandEnds, EndPhase
    <2>2. ASSUME env' = Store(t) PROVE env'[k] \in {env[k], <<"artifact", t, 0>>}
      BY <2>2 DEF Store, Merge, Layer
    <2> QED BY <1>1, <2>1, <2>2
  <1>3. CASE pc[v] # "idle"
    <2>1. base'[v] = base[v]
      <3>1. CASE v # t
        BY <1>0, <3>1, OthersKept
      <3>2. CASE v = t
        BY <1>3, <3>2 DEF Step, Begin, Compile, NameEnvfile, GenerateEnvfile, GenerateFails,
                          Execute, CommandEnds, EndPhase
      <3> QED BY <3>1, <3>2
    <2> QED BY <1>0, <1>2, <1>3, <2>1 DEF SeesArtifacts
  <1>4. CASE pc[v] = "idle"
    <2>1. v = t
      BY <1>0, <1>4, OthersKept
    <2>2. Begin(t)
      BY <1>0, <1>4, <2>1, StepShape
    <2>3. base'[v] = BuildEnv(v)
      BY <1>0, <2>1, <2>2 DEF Begin, TypeOK
    <2> QED BY <1>0, <1>2, <2>3, BuiltWithArtifact
  <1> QED BY <1>3, <1>4

-----------------------------------------------------------------------------
(***************************************************************************)
(* The theorems                                                            *)
(***************************************************************************)
LEMMA InitHolds == Init => CompilerInv
  <1> SUFFICES ASSUME Init PROVE CompilerInv
    OBVIOUS
  <1>1. Empty \in Env /\ Layer("args", Default, 0) \in Env
    BY LayerIsEnv, Parts DEF Empty, Env, Layers, Owners
  <1>2. TypeOK
    <2>1. jobs \in [Task -> Seq(Env)]
      <3>1. <<>> \in Seq(Env)
        OBVIOUS
      <3> QED BY <3>1 DEF Init
    <2>2. \A t \in Task : ran[t] <= Len(jobs[t]) /\ Len(jobs[t]) <= JobCount(t)
      BY CountsJobs DEF Init
    <2> QED BY <1>1, <2>1, <2>2 DEF Init, TypeOK
  <1>3. EnvIsShared
    BY DEF Init, EnvIsShared, TakesPrecedence, Layer
  <1>4. NeedsAreOver /\ BaseIsRight /\ NameIsRight /\ SeesArtifacts /\ FilterHolds
    BY DEF Init, NeedsAreOver, BaseIsRight, NameIsRight, SeesArtifacts, FilterHolds
  <1>5. JobsAreRight /\ ShellIsRight /\ FileIsRight
    BY DEF Init, JobsAreRight, ShellIsRight, FileIsRight, Running
  <1> QED BY <1>2, <1>3, <1>4, <1>5 DEF CompilerInv

LEMMA StepKeeps == CompilerInv /\ [Next]_vars => CompilerInv'
  <1> SUFFICES ASSUME CompilerInv, [Next]_vars PROVE CompilerInv'
    OBVIOUS
  <1>1. ASSUME NEW t \in Task, Step(t) PROVE CompilerInv'
    <2>1. TypeOK'
      BY <1>1, StepTyped DEF CompilerInv
    <2> QED
      BY <1>1, <2>1, EnvStaysShared, NeedsStayOver, BaseStaysRight, JobsStayRight,
         ShellStaysRight, NameStaysRight, FileStaysRight, ArtifactsStaySeen, FilterStaysHeld
         DEF CompilerInv
  <1>2. CASE UNCHANGED vars
    <2>0. CompilerInv /\ UNCHANGED <<pc, phase, base, jobs, ran, shell, sees, generated, file, env>>
      BY <1>2 DEF vars
    <2>1. \A t \in Task : \A i : JobEnv(t, i)' = JobEnv(t, i)
      BY <2>0 DEF JobEnv
    <2>2. TypeOK' /\ EnvIsShared' /\ NeedsAreOver'
      BY <2>0 DEF CompilerInv, TypeOK, EnvIsShared, NeedsAreOver, JobCount
    <2>3. BaseIsRight'
      BY <2>0 DEF CompilerInv, BaseIsRight, BaseValues, OwnValues
    <2>4. JobsAreRight'
      BY <2>0, <2>1 DEF CompilerInv, JobsAreRight, Running
    <2>5. ShellIsRight' /\ NameIsRight'
      BY <2>0 DEF CompilerInv, ShellIsRight, NameIsRight, JobCount, Running, InContainer, Alone
    <2>6. FileIsRight'
      BY <2>0, <2>1 DEF CompilerInv, FileIsRight, Running, InContainer, Alone, JobCount
    <2>7. SeesArtifacts' /\ FilterHolds'
      BY <2>0 DEF CompilerInv, SeesArtifacts, FilterHolds
    <2> QED BY <2>2, <2>3, <2>4, <2>5, <2>6, <2>7 DEF CompilerInv
  <1> QED BY <1>1, <1>2 DEF Next, Step, Ended

\* CompilerInv holds in every reachable state.
THEOREM SpecKeepsCompilerInv == Spec => []CompilerInv
  BY InitHolds, StepKeeps, PTL DEF Spec

\* TypeOK: every variable stays in its range, whatever the tasks, the layers and
\* the renamings are.
THEOREM TypeCorrect == Spec => []TypeOK
  <1>1. CompilerInv => TypeOK
    BY DEF CompilerInv
  <1> QED BY <1>1, SpecKeepsCompilerInv, PTL

LEMMA InvGivesOwnEnv == CompilerInv => EnvIsOwn
  <1> SUFFICES ASSUME CompilerInv, NEW t \in Task, pc[t] = "command",
                      phase[t] # "condition", ContextOf[t] = Default \/ Alone(t)
               PROVE  LET job == IF ContextOf[t] # Default THEN JobCount(t)
                                 ELSE IF t \in Resets THEN ran[t] + 1 ELSE 1
                      IN  sees[t] # Unset /\ RightEnv(t, job, sees[t])
    BY DEF EnvIsOwn
  <1>0. /\ TypeOK /\ BaseIsRight /\ Running(t) /\ ran[t] \in Nat
        /\ JobCount(t) \in Nat /\ JobCount(t) >= 1
        /\ Len(jobs[t]) \in Nat
    BY CountsJobs DEF CompilerInv, TypeOK, Running
  <1>1. CASE ContextOf[t] = Default
    <2> DEFINE job == IF t \in Resets THEN ran[t] + 1 ELSE 1
    <2>1. ShellOf(t) /\ ~InContainer(t)
      BY <1>0, <1>1, Parts DEF CompilerInv, ShellIsRight, ShellOf
    <2>2. sees[t] = shell[t] /\ shell[t] # Unset /\ ran[t] < Len(jobs[t])
          /\ Len(jobs[t]) = JobCount(t)
      BY <2>1 DEF ShellOf
    <2>3. shell[t] = jobs[t][job]
      <3>1. CASE phase[t] = "task" /\ t \in Resets
        BY <2>1, <3>1 DEF ShellOf
      <3>2. CASE phase[t] # "task"
        <4>1. ran[t] = 0
          BY <1>0, <2>2, <3>2 DEF JobCount
        <4> QED BY <2>1, <2>2, <3>2, <4>1 DEF ShellOf
      <3>3. CASE t \notin Resets
        BY <2>1, <2>2, <3>3 DEF ShellOf
      <3> QED BY <3>1, <3>2, <3>3
    <2>4. job \in DOMAIN jobs[t]
      <3>1. jobs[t] \in Seq(Env)
        BY <1>0 DEF TypeOK
      <3> QED BY <1>0, <2>2, <3>1
    <2>5. sees[t] = JobEnv(t, job)
      BY <1>0, <2>2, <2>3, <2>4 DEF CompilerInv, JobsAreRight
    <2>6. job \in Nat
      BY <1>0
    <2> HIDE DEF job
    <2>7. RightEnv(t, job, sees[t])
      BY <1>0, <1>1, <2>5, <2>6, LocalJobIsRight
    <2> QED BY <1>1, <2>2, <2>7 DEF job
  <1>2. CASE ContextOf[t] # Default
    <2>1. InContainer(t)
      BY <1>2, Parts
    <2>2. sees[t] \in Envfiles(ContextOf[t], JobEnv(t, JobCount(t)))
      BY <1>0, <1>2, <2>1 DEF CompilerInv, FileIsRight
    <2>3. sees[t] # Unset
      BY <1>0, <2>1, <2>2, JobIsEnv, EnvfileLines, EnvIsSet DEF InContainer
    <2>4. RightEnv(t, JobCount(t), sees[t])
      BY <1>0, <2>1, <2>2, EnvfileIsRight
    <2> QED BY <1>2, <2>3, <2>4
  <1> QED BY <1>1, <1>2

\* EnvIsOwn: a command sees the environment of its own task, each key with the
\* value of the layer that takes precedence, although tasks share envfiles.
THEOREM CommandsSeeTheirOwn == Spec => []EnvIsOwn
  BY SpecKeepsCompilerInv, InvGivesOwnEnv, PTL

\* SeesArtifacts: what a task stored reaches the tasks that need it.
THEOREM ArtifactsReachOthers == Spec => []SeesArtifacts
  <1>1. CompilerInv => SeesArtifacts
    BY DEF CompilerInv
  <1> QED BY <1>1, SpecKeepsCompilerInv, PTL

\* FilterHolds: no variable that the lists of a context hold back is in an
\* envfile of it, however it was renamed and whoever wrote the file.
THEOREM NothingPassesFilter == Spec => []FilterHolds
  <1>1. CompilerInv => FilterHolds
    BY DEF CompilerInv
  <1> QED BY <1>1, SpecKeepsCompilerInv, PTL
=============================================================================
