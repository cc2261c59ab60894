--------------------------- MODULE ExecutionGraph ---------------------------
(***************************************************************************)
(* scheduler/graph.go and internal/config/pipeline.go: the loader adds the *)
(* stages of one pipeline to its graph, one after the other, and checks    *)
(* the result.  The graph is then walked from its root node: by            *)
(* Denormalize, by the summary and by the CI generator.                    *)
(***************************************************************************)
EXTENDS Naturals, SequencesExt

CONSTANTS
    Name,           \* the names of stages
    Root,           \* RootNodeName
    Dependable,     \* the names a depends_on may list, root too if one likes
    MaxDepends      \* how many of them

ASSUME NameAssumption ==
    /\ Root \notin Name
    /\ Dependable \subseteq Name \cup {Root}
    /\ MaxDepends \in Nat

Node == Name \cup {Root}

VARIABLES
    nodes,          \* ExecutionGraph.nodes, the keys
    dependsOn,      \* Stage.DependsOn
    children,       \* ExecutionGraph.children
    verdict,        \* of buildPipeline: "building" until it is known
    pending,        \* AddStage: the edges it has still to add
    calls,          \* cycleDfs: the calls under way, the innermost first
    visited,        \* cycleDfs: its arguments
    inStack,
    queue,          \* BFSNodesFlattened: its locals,
    reached,        \*    visited there,
    list,           \*    bfsStages there,
    scan            \*    and the rest of the children it ranges over

graphVars == <<nodes, dependsOn, children, verdict, pending>>
dfsVars == <<calls, visited, inStack>>
walkVars == <<queue, reached, list, scan>>
vars == <<graphVars, dfsVars, walkVars>>

Init ==
    /\ nodes = {Root}
    /\ dependsOn = [n \in Node |-> {}]
    /\ children = [n \in Node |-> <<>>]
    /\ verdict = "building"
    /\ pending = {}
    /\ calls = <<>> /\ visited = {} /\ inStack = {}
    /\ queue = <<>> /\ reached = {} /\ list = <<>> /\ scan = <<>>

\* buildPipeline is not in a call of AddStage.
BetweenStages == verdict = "building" /\ calls = <<>> /\ pending = {}

\* The stages, or the root node, a stage hangs on.
Parents(deps) == IF deps = {} THEN {Root} ELSE deps

AddStage(s, deps) ==
    /\ BetweenStages
    /\ s \notin nodes
    /\ nodes' = nodes \cup {s}
    /\ dependsOn' = [dependsOn EXCEPT ![s] = deps]
    /\ pending' = Parents(deps) \X {s}
    /\ UNCHANGED <<children, verdict, dfsVars, walkVars>>

(***************************************************************************)
(* cycleDfs.  A call has a node and the children it has not been through.  *)
(***************************************************************************)
Call(node, edges) == [node |-> node, todo |-> edges[node]]

AddEdge(parent, child) ==
    /\ verdict = "building"
    /\ calls = <<>>
    /\ <<parent, child>> \in pending
    /\ pending' = pending \ {<<parent, child>>}
    /\ children' = [children EXCEPT ![parent] = Append(@, child)]
    /\ calls' = <<Call(parent, children')>>
    /\ visited' = {parent}
    /\ inStack' = {parent}
    /\ UNCHANGED <<nodes, dependsOn, verdict, walkVars>>

\* The next child of the innermost call is looked at.
AtChild == verdict = "building" /\ calls # <<>> /\ Head(calls).todo # <<>>

Child == Head(Head(calls).todo)

\* A child that was not visited: a call of its own, behind which it is looked
\* at again.
Descend ==
    /\ AtChild
    /\ Child \notin visited
    /\ calls' = <<Call(Child, children)>> \o calls
    /\ visited' = visited \cup {Child}
    /\ inStack' = inStack \cup {Child}
    /\ UNCHANGED <<graphVars, walkVars>>

CloseCycle ==
    /\ AtChild
    /\ Child \in visited
    /\ Child \in inStack
    /\ verdict' = "cycle"
    /\ UNCHANGED <<nodes, dependsOn, children, pending, dfsVars, walkVars>>

PassChild ==
    /\ AtChild
    /\ Child \in visited
    /\ Child \notin inStack
    /\ calls' = <<[Head(calls) EXCEPT !.todo = Tail(@)]>> \o Tail(calls)
    /\ UNCHANGED <<graphVars, visited, inStack, walkVars>>

\* [mutant] a node stays on the stack when it has been processed.
LeaveStackNever(stacked, node) == stacked

LeaveStack(stacked, node) == stacked \ {node}

LeaveNode ==
    /\ verdict = "building"
    /\ calls # <<>>
    /\ Head(calls).todo = <<>>
    /\ calls' = Tail(calls)
    /\ inStack' = LeaveStack(inStack, Head(calls).node)
    /\ visited' = IF Tail(calls) = <<>> THEN {} ELSE visited
    /\ UNCHANGED <<graphVars, walkVars>>

\* A second stage of the same name, or one that is called root.
RefuseStage(s) ==
    /\ BetweenStages
    /\ s \in nodes
    /\ verdict' = "duplicate"
    /\ UNCHANGED <<nodes, dependsOn, children, pending, dfsVars, walkVars>>

\* [mutant] what a stage depends on is not looked up.
DependsOnMissingNever == FALSE

DependsOnMissing == \E s \in nodes : ~(dependsOn[s] \subseteq nodes)

\* There always is a starting point: the root node counts as one.
CheckGraph ==
    /\ BetweenStages
    /\ verdict' = IF DependsOnMissing THEN "missing" ELSE "built"
    /\ UNCHANGED <<nodes, dependsOn, children, pending, dfsVars, walkVars>>

\* The loader is through with the pipeline.
Loaded == verdict # "building" /\ UNCHANGED vars

(***************************************************************************)
(* BFSNodesFlattened: the nodes from the root node on, without it.         *)
(***************************************************************************)
BeginWalk ==
    /\ verdict = "built"
    /\ reached = {}
    /\ queue' = <<Root>>
    /\ reached' = {Root}
    /\ UNCHANGED <<graphVars, dfsVars, list, scan>>

TakeNode ==
    /\ scan = <<>>
    /\ queue # <<>>
    /\ queue' = Tail(queue)
    /\ list' = IF Head(queue) = Root THEN list ELSE Append(list, Head(queue))
    /\ scan' = children[Head(queue)]
    /\ UNCHANGED <<graphVars, dfsVars, reached>>

SeeChild ==
    /\ scan # <<>>
    /\ scan' = Tail(scan)
    /\ queue' = IF Head(scan) \in reached THEN queue ELSE Append(queue, Head(scan))
    /\ reached' = reached \cup {Head(scan)}
    /\ UNCHANGED <<graphVars, dfsVars, list>>

WalkIsOver == reached # {} /\ queue = <<>> /\ scan = <<>>

Depends == {deps \in SUBSET Dependable : Cardinality(deps) <= MaxDepends}

Next ==
    \/ \E s \in Name, deps \in Depends : AddStage(s, deps)
    \/ \E parent \in Node, child \in Name : AddEdge(parent, child)
    \/ Descend \/ CloseCycle \/ PassChild \/ LeaveNode
    \/ \E s \in Node : RefuseStage(s)
    \/ CheckGraph
    \/ BeginWalk \/ TakeNode \/ SeeChild
    \/ Loaded

Spec == Init /\ [][Next]_vars

-----------------------------------------------------------------------------
\* The stages that would wait for each other for ever: the largest set of
\* stages each of which depends on one of the set.
Waiting(S) == \A s \in S : dependsOn[s] \cap S # {}

HasCycle == \E S \in SUBSET (nodes \ {Root}) : S # {} /\ Waiting(S)

\* A pipeline is refused for a cycle exactly when it has one: AddStage calls
\* no diamond a cycle, and none gets past it, in whatever order the stages
\* are defined.
CycleIsFound ==
    BetweenStages \/ verdict # "building" => (verdict = "cycle" <=> HasCycle)

\* Every stage of a pipeline that was built is reached from the root node,
\* once: none is lost for the summary or for the generated CI definition.
EveryStageIsListed ==
    WalkIsOver => ToSet(list) = nodes \ {Root} /\ IsInjective(list)

-----------------------------------------------------------------------------
(***************************************************************************)
(* The inductive invariant.                                                *)
(***************************************************************************)
GraphTypeOK ==
    /\ nodes \in SUBSET Node
    /\ dependsOn \in [Node -> SUBSET Node]
    /\ children \in [Node -> Seq(Name)]
    /\ verdict \in {"building", "duplicate", "missing", "cycle", "built"}
    /\ pending \in SUBSET (Node \X Name)
    /\ calls \in Seq([node : Node, todo : Seq(Name)])
    /\ visited \in SUBSET Node /\ inStack \in SUBSET Node
    /\ queue \in Seq(Node) /\ reached \in SUBSET Node
    /\ list \in Seq(Name) /\ scan \in Seq(Name)

\* Of the edges a stage is to have those that are pending are not there yet.
EdgesFollowDependsOn ==
    /\ Root \in nodes
    /\ \A e \in pending : e[2] \in nodes /\ e[1] \in Parents(dependsOn[e[2]])
    /\ \A p \in Node, s \in Name :
          s \in ToSet(children[p]) <=>
              s \in nodes /\ p \in Parents(dependsOn[s]) /\ <<p, s>> \notin pending

\* The calls of cycleDfs are a path along the edges, which inStack tells.
StackIsPath ==
    /\ inStack = {calls[i].node : i \in DOMAIN calls}
    /\ \A i, j \in DOMAIN calls : calls[i].node = calls[j].node => i = j
    /\ calls # <<>> => inStack \subseteq visited
    /\ \A i \in DOMAIN calls :
          ToSet(calls[i].todo) \subseteq ToSet(children[calls[i].node])
    /\ \A i \in DOMAIN calls :
          i # 1 => calls[i].todo # <<>> /\ Head(calls[i].todo) = calls[i - 1].node

\* Every node of S has an edge from another one, or from itself.
Loop(S) == \A s \in S : \E p \in S : s \in ToSet(children[p])

NoLoopWithin(S) == \A L \in SUBSET S : Loop(L) => L = {}

\* The nodes cycleDfs is done with have no edge to others and no cycle.
FinishedIsClosed ==
    LET finished == visited \ inStack
    IN  calls # <<>> =>
            /\ \A n \in finished : ToSet(children[n]) \subseteq finished
            /\ \A i \in DOMAIN calls :
                  ToSet(children[calls[i].node]) \subseteq finished \cup ToSet(calls[i].todo)
            /\ NoLoopWithin(finished)

\* There is no cycle but through the edge that was added last.
LoopsAreNew ==
    /\ calls = <<>> => NoLoopWithin(Node)
    /\ calls # <<>> => \A L \in SUBSET Node : Loop(L) => L = {} \/ Last(calls).node \in L

VerdictIsRight ==
    /\ verdict = "cycle" => HasCycle /\ calls # <<>>
    /\ verdict \notin {"building", "cycle"} => calls = <<>> /\ pending = {}
    /\ verdict = "built" => \A s \in nodes : dependsOn[s] \subseteq nodes

\* What the walk has reached it has still to take or has gone on from.
WalkIsClosed ==
    /\ reached = {} => queue = <<>> /\ list = <<>> /\ scan = <<>>
    /\ reached # {} =>
          /\ verdict = "built"
          /\ Root \in reached /\ reached \subseteq nodes
          /\ ToSet(scan) \subseteq nodes
          /\ \A n \in reached :
                n \in ToSet(queue) \/ ToSet(children[n]) \subseteq reached \cup ToSet(scan)

ListedOnce ==
    /\ reached # {} => reached = ToSet(list) \cup ToSet(queue) \cup {Root}
    /\ ToSet(list) \cap ToSet(queue) = {}
    /\ IsInjective(list) /\ IsInjective(queue)

GraphInv ==
    /\ GraphTypeOK
    /\ EdgesFollowDependsOn
    /\ StackIsPath
    /\ FinishedIsClosed
    /\ LoopsAreNew
    /\ VerdictIsRight
    /\ WalkIsClosed
    /\ ListedOnce
=============================================================================
