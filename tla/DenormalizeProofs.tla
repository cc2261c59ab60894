-------------------------- MODULE DenormalizeProofs --------------------------
(***************************************************************************)
(* Proofs about ExecutionGraph and Denormalize: GraphInv and FlattenInv    *)
(* are inductive, and with them the invariants MCDenormalize.cfg checks    *)
(* hold for all pipelines.                                                 *)
(***************************************************************************)
EXTENDS Denormalize, SequenceTheorems, TLAPS

-----------------------------------------------------------------------------
(***************************************************************************)
(* Sequences                                                               *)
(***************************************************************************)
LEMMA EmptyHasNone == ToSet(<<>>) = {} /\ IsInjective(<<>>)
  BY DEF ToSet, IsInjective

LEMMA TakenOff ==
    ASSUME NEW S, NEW s \in Seq(S), s # <<>>
    PROVE  /\ Head(s) \in S /\ Tail(s) \in Seq(S)
           /\ ToSet(s) = {Head(s)} \cup ToSet(Tail(s))
           /\ IsInjective(s) => IsInjective(Tail(s)) /\ Head(s) \notin ToSet(Tail(s))
  <1>1. /\ Head(s) \in S /\ Tail(s) \in Seq(S) /\ Head(s) = s[1] /\ 1 \in DOMAIN s
        /\ \A i \in DOMAIN Tail(s) : i + 1 \in DOMAIN s /\ Tail(s)[i] = s[i + 1] /\ i + 1 # 1
        /\ \A i \in DOMAIN s : i # 1 => i - 1 \in DOMAIN Tail(s) /\ s[i] = Tail(s)[i - 1]
        /\ \A i \in DOMAIN Tail(s) : i \in Nat
    OBVIOUS
  <1>2. ToSet(s) = {Head(s)} \cup ToSet(Tail(s))
    <2>1. \A i \in DOMAIN s : s[i] \in {Head(s)} \cup ToSet(Tail(s))
      BY <1>1 DEF ToSet
    <2>2. Head(s) \in ToSet(s) /\ \A i \in DOMAIN Tail(s) : Tail(s)[i] \in ToSet(s)
      BY <1>1 DEF ToSet
    <2> QED BY <2>1, <2>2 DEF ToSet
  <1>3. ASSUME IsInjective(s)
        PROVE  IsInjective(Tail(s)) /\ Head(s) \notin ToSet(Tail(s))
    <2>1. Head(s) \notin ToSet(Tail(s))
      BY <1>1, <1>3 DEF IsInjective, ToSet
    <2>2. ASSUME NEW i \in DOMAIN Tail(s), NEW j \in DOMAIN Tail(s), Tail(s)[i] = Tail(s)[j]
          PROVE  i = j
      <3>1. i + 1 \in DOMAIN s /\ j + 1 \in DOMAIN s /\ s[i + 1] = s[j + 1]
        BY <1>1, <2>2
      <3>2. i + 1 = j + 1
        BY <1>3, <3>1 DEF IsInjective
      <3> QED BY <1>1, <3>2
    <2> QED BY <2>1, <2>2 DEF IsInjective
  <1> QED BY <1>1, <1>2, <1>3

LEMMA PutLast ==
    ASSUME NEW S, NEW s \in Seq(S), NEW x \in S
    PROVE  /\ Append(s, x) \in Seq(S)
           /\ ToSet(Append(s, x)) = ToSet(s) \cup {x}
           /\ IsInjective(s) /\ x \notin ToSet(s) => IsInjective(Append(s, x))
  <1> DEFINE a == Append(s, x)
  <1>1. /\ a \in Seq(S) /\ Len(s) \in Nat /\ Len(s) + 1 \in DOMAIN a /\ a[Len(s) + 1] = x
        /\ \A i \in DOMAIN s : i \in DOMAIN a /\ a[i] = s[i]
        /\ \A i \in DOMAIN a : i # Len(s) + 1 => i \in DOMAIN s
    OBVIOUS
  <1> HIDE DEF a
  <1>2. ToSet(a) = ToSet(s) \cup {x}
    BY <1>1 DEF ToSet
  <1>3. IsInjective(s) /\ x \notin ToSet(s) => IsInjective(a)
    BY <1>1 DEF IsInjective, ToSet
  <1> QED BY <1>1, <1>2, <1>3 DEF a

LEMMA InSeq ==
    ASSUME NEW S, NEW s \in Seq(S)
    PROVE  ToSet(s) \subseteq S
  BY DEF ToSet

\* A stack with another element on top.
LEMMA Pushed ==
    ASSUME NEW S, NEW s \in Seq(S), NEW x \in S
    PROVE  LET p == <<x>> \o s IN
           /\ p \in Seq(S) /\ p # <<>> /\ Len(p) = Len(s) + 1
           /\ p[1] = x /\ 1 \in DOMAIN p /\ Len(s) \in Nat
           /\ \A i \in DOMAIN s : i \in Nat /\ i + 1 \in DOMAIN p /\ p[i + 1] = s[i]
           /\ \A i \in DOMAIN p : i # 1 => i - 1 \in DOMAIN s /\ p[i] = s[i - 1]
           /\ s # <<>> => p[Len(s) + 1] = s[Len(s)]
  OBVIOUS

LEMMA Popped ==
    ASSUME NEW S, NEW s \in Seq(S), s # <<>>
    PROVE  /\ Tail(s) \in Seq(S) /\ s[1] \in S /\ Head(s) = s[1] /\ 1 \in DOMAIN s
           /\ \A i \in DOMAIN Tail(s) : i \in Nat /\ i + 1 \in DOMAIN s /\ Tail(s)[i] = s[i + 1] /\ i + 1 # 1
           /\ \A i \in DOMAIN s : i # 1 => i - 1 \in DOMAIN Tail(s) /\ s[i] = Tail(s)[i - 1]
           /\ Tail(s) = <<>> => Len(s) = 1
           /\ Tail(s) # <<>> => Tail(s)[Len(Tail(s))] = s[Len(s)]
  <1> DEFINE t == Tail(s)
  <1>1. /\ t \in Seq(S) /\ s[1] \in S /\ Head(s) = s[1] /\ 1 \in DOMAIN s
        /\ \A i \in DOMAIN t : i \in Nat /\ i + 1 \in DOMAIN s /\ t[i] = s[i + 1] /\ i + 1 # 1
        /\ \A i \in DOMAIN s : i # 1 => i - 1 \in DOMAIN t /\ s[i] = t[i - 1]
    OBVIOUS
  <1>2. Len(t) = Len(s) - 1 /\ Len(s) \in Nat
    OBVIOUS
  <1>5. t = <<>> => Len(t) = 0
    BY EmptySeq
  <1> HIDE DEF t
  <1>3. t # <<>> => Len(t) \in DOMAIN t
    BY <1>1
  <1>4. t # <<>> => t[Len(t)] = s[Len(s)]
    BY <1>1, <1>2, <1>3
  <1> QED BY <1>1, <1>2, <1>4, <1>5 DEF t

LEMMA Replaced ==
    ASSUME NEW S, NEW s \in Seq(S), s # <<>>, NEW x \in S
    PROVE  LET p == <<x>> \o Tail(s) IN
           /\ p \in Seq(S) /\ p # <<>> /\ DOMAIN p = DOMAIN s /\ Len(p) = Len(s) /\ p[1] = x
           /\ \A i \in DOMAIN s : i # 1 => p[i] = s[i]
           /\ 1 \in DOMAIN s /\ s[1] = Head(s)
  OBVIOUS

-----------------------------------------------------------------------------
(***************************************************************************)
(* The graph                                                               *)
(***************************************************************************)
Frame == [node : Node, todo : Seq(Name)]

\* What is not closed off by its edges has its loops outside of it.
LEMMA LoopsOutside ==
    ASSUME NEW V, \A n \in V : ToSet(children[n]) \subseteq V,
           NEW L, Loop(L)
    PROVE  Loop(L \ V)
  BY DEF Loop

LEMMA InitOfGraph == Init => GraphInv
  <1> SUFFICES ASSUME Init PROVE GraphInv
    OBVIOUS
  <1> USE NameAssumption, EmptyHasNone DEF Init, Node
  <1>1. GraphTypeOK
    BY DEF GraphTypeOK
  <1>2. EdgesFollowDependsOn
    BY DEF EdgesFollowDependsOn
  <1>3. StackIsPath /\ FinishedIsClosed
    BY DEF StackIsPath, FinishedIsClosed
  <1>4. LoopsAreNew
    <2>1. \A n \in Node : ToSet(children[n]) = {}
      OBVIOUS
    <2> QED BY <2>1 DEF LoopsAreNew, NoLoopWithin, Loop
  <1>5. VerdictIsRight /\ WalkIsClosed /\ ListedOnce
    BY DEF VerdictIsRight, WalkIsClosed, ListedOnce
  <1> QED BY <1>1, <1>2, <1>3, <1>4, <1>5 DEF GraphInv

\* As long as the pipeline is built there is no walk.
LEMMA WalkUntouched ==
    ASSUME GraphInv, verdict = "building" \/ verdict = "cycle", UNCHANGED walkVars
    PROVE  WalkIsClosed' /\ ListedOnce'
  <1>1. reached = {}
    BY DEF GraphInv, WalkIsClosed
  <1> QED BY <1>1 DEF GraphInv, WalkIsClosed, ListedOnce, walkVars

LEMMA AddStageKeeps ==
    ASSUME GraphInv, NEW s \in Name, NEW deps \in Depends, AddStage(s, deps)
    PROVE  GraphInv'
  <1> USE NameAssumption DEF AddStage, BetweenStages, Node
  <1>0. /\ GraphTypeOK /\ EdgesFollowDependsOn /\ StackIsPath /\ FinishedIsClosed
        /\ LoopsAreNew /\ VerdictIsRight
    BY DEF GraphInv
  <1>1. deps \subseteq Node /\ Parents(deps) \subseteq Node /\ s # Root
    BY DEF Depends, Parents
  <1>2. GraphTypeOK'
    BY <1>0, <1>1 DEF GraphTypeOK, dfsVars, walkVars
  <1>3. dependsOn'[s] = deps /\ \A x \in Name : x # s => dependsOn'[x] = dependsOn[x]
    BY <1>0 DEF GraphTypeOK
  <1>4. \A p \in Node : s \notin ToSet(children[p])
    BY <1>0 DEF EdgesFollowDependsOn
  <1>5. EdgesFollowDependsOn'
    <2>1. ASSUME NEW p \in Node, NEW x \in Name
          PROVE  x \in ToSet(children[p]) <=>
                     x \in nodes' /\ p \in Parents(dependsOn'[x]) /\ <<p, x>> \notin pending'
      <3>1. CASE x = s
        BY <1>3, <1>4, <3>1
      <3>2. CASE x # s
        BY <1>0, <1>3, <3>2 DEF EdgesFollowDependsOn
      <3> QED BY <3>1, <3>2
    <2>2. \A e \in pending' : e[2] \in nodes' /\ e[1] \in Parents(dependsOn'[e[2]])
      BY <1>3
    <2> QED BY <1>0, <2>1, <2>2 DEF EdgesFollowDependsOn
  <1>6. StackIsPath' /\ FinishedIsClosed'
    BY <1>0 DEF StackIsPath, FinishedIsClosed, NoLoopWithin, Loop, dfsVars
  <1>7. LoopsAreNew'
    BY <1>0 DEF LoopsAreNew, NoLoopWithin, Loop, dfsVars
  <1>8. VerdictIsRight'
    BY DEF VerdictIsRight
  <1>9. WalkIsClosed' /\ ListedOnce'
    BY WalkUntouched
  <1> QED BY <1>2, <1>5, <1>6, <1>7, <1>8, <1>9 DEF GraphInv

LEMMA AddEdgeKeeps ==
    ASSUME GraphInv, NEW p \in Node, NEW c \in Name, AddEdge(p, c)
    PROVE  GraphInv'
  <1> USE DEF AddEdge
  <1>0. /\ GraphTypeOK /\ EdgesFollowDependsOn /\ LoopsAreNew
    BY DEF GraphInv
  <1>1. /\ children' \in [Node -> Seq(Name)]
        /\ children'[p] = Append(children[p], c)
        /\ \A n \in Node : n # p => children'[n] = children[n]
        /\ ToSet(children'[p]) = ToSet(children[p]) \cup {c}
    BY <1>0, PutLast DEF GraphTypeOK
  <1> DEFINE f == [node |-> p, todo |-> children'[p]]
  <1>2. f \in Frame /\ calls' = <<f>> /\ f.node = p /\ f.todo = children'[p]
    BY <1>1 DEF Frame, Call
  <1> HIDE DEF f
  <1>3. /\ calls' \in Seq(Frame) /\ calls' # <<>> /\ DOMAIN calls' = {1} /\ calls'[1] = f
        /\ Last(calls') = f
    <2>1. \A x \in Frame : <<x>> \in Seq(Frame) /\ <<x>> # <<>> /\ DOMAIN <<x>> = {1} /\ <<x>>[1] = x
      OBVIOUS
    <2>2. \A x : Len(<<x>>) = 1
      OBVIOUS
    <2> QED BY <1>2, <2>1, <2>2 DEF Last
  <1>4. GraphTypeOK'
    BY <1>0, <1>1, <1>3 DEF GraphTypeOK, Frame, walkVars
  <1>5. EdgesFollowDependsOn'
    <2>1. ASSUME NEW n \in Node, NEW x \in Name
          PROVE  x \in ToSet(children'[n]) <=>
                     x \in nodes /\ n \in Parents(dependsOn[x]) /\ <<n, x>> \notin pending'
      <3>1. CASE n = p /\ x = c
        BY <1>0, <1>1, <3>1 DEF EdgesFollowDependsOn
      <3>2. CASE ~(n = p /\ x = c)
        <4>1. x \in ToSet(children'[n]) <=> x \in ToSet(children[n])
          BY <1>1, <3>2
        <4>2. <<n, x>> \in pending' <=> <<n, x>> \in pending
          BY <3>2
        <4> QED BY <1>0, <4>1, <4>2 DEF EdgesFollowDependsOn
      <3> QED BY <3>1, <3>2
    <2> QED BY <1>0, <2>1 DEF EdgesFollowDependsOn
  <1>6. StackIsPath'
    BY <1>2, <1>3 DEF StackIsPath
  <1>7. FinishedIsClosed'
    <2>1. visited' \ inStack' = {}
      OBVIOUS
    <2> QED BY <1>2, <1>3, <2>1 DEF FinishedIsClosed, NoLoopWithin
  <1>8. LoopsAreNew'
    <2>1. ASSUME NEW L \in SUBSET Node, Loop(L)', p \notin L
          PROVE  L = {}
      <3>1. \A n \in L : ToSet(children'[n]) = ToSet(children[n])
        BY <1>1, <2>1
      <3>2. Loop(L)
        BY <2>1, <3>1 DEF Loop
      <3> QED BY <1>0, <3>2 DEF LoopsAreNew, NoLoopWithin
    <2> QED BY <1>2, <1>3, <2>1 DEF LoopsAreNew
  <1>9. VerdictIsRight'
    BY DEF VerdictIsRight
  <1>10. WalkIsClosed' /\ ListedOnce'
    BY WalkUntouched
  <1> QED BY <1>4, <1>5, <1>6, <1>7, <1>8, <1>9, <1>10 DEF GraphInv

LEMMA CallsTyped ==
    ASSUME GraphTypeOK
    PROVE  /\ calls \in Seq(Frame)
           /\ \A i \in DOMAIN calls : calls[i] \in Frame /\ calls[i].node \in Node
                                      /\ calls[i].todo \in Seq(Name)
           /\ Node = Name \cup {Root} /\ Root \notin Name
  <1>1. calls \in Seq(Frame)
    BY DEF GraphTypeOK, Frame
  <1>2. \A i \in DOMAIN calls : calls[i] \in Frame
    BY <1>1
  <1> QED BY <1>1, <1>2, NameAssumption DEF Frame, Node

\* The child that is looked at is one of the innermost call's node.
LEMMA ChildIsBelow ==
    ASSUME GraphInv, AtChild
    PROVE  /\ Head(calls) = calls[1] /\ 1 \in DOMAIN calls /\ Head(calls) \in Frame
           /\ Child \in Name /\ Child \in ToSet(children[calls[1].node])
           /\ ToSet(calls[1].todo) = {Child} \cup ToSet(Tail(calls[1].todo))
           /\ Tail(calls[1].todo) \in Seq(Name)
  <1>0. GraphTypeOK /\ StackIsPath
    BY DEF GraphInv
  <1>1. Head(calls) = calls[1] /\ 1 \in DOMAIN calls /\ Head(calls) \in Frame
    BY <1>0, CallsTyped, Popped DEF AtChild
  <1> DEFINE todo == calls[1].todo
  <1>2. todo \in Seq(Name) /\ todo # <<>> /\ Child = Head(todo)
    BY <1>0, <1>1, CallsTyped DEF AtChild, Child
  <1> HIDE DEF todo
  <1>3. Head(todo) \in Name /\ Tail(todo) \in Seq(Name) /\ ToSet(todo) = {Head(todo)} \cup ToSet(Tail(todo))
    BY <1>2, TakenOff
  <1>4. ToSet(todo) \subseteq ToSet(children[calls[1].node])
    BY <1>0, <1>1 DEF StackIsPath, todo
  <1> QED BY <1>1, <1>2, <1>3, <1>4 DEF todo

LEMMA DescendKeeps ==
    ASSUME GraphInv, Descend
    PROVE  GraphInv'
  <1> USE DEF Descend
  <1>0. /\ GraphTypeOK /\ EdgesFollowDependsOn /\ StackIsPath /\ FinishedIsClosed
        /\ LoopsAreNew /\ VerdictIsRight
    BY DEF GraphInv
  <1> DEFINE f == Call(Child, children)
  <1>1. /\ Head(calls) = calls[1] /\ 1 \in DOMAIN calls
        /\ Child \in Name /\ Child \in Node /\ calls # <<>> /\ verdict = "building"
        /\ Child = Head(calls[1].todo) /\ calls[1].todo # <<>>
    BY <1>0, ChildIsBelow, CallsTyped DEF AtChild, Child
  <1>2. /\ f \in Frame /\ f.node = Child /\ f.todo = children[Child]
    BY <1>0, <1>1 DEF GraphTypeOK, Frame, Call
  <1> HIDE DEF f
  <1>3. /\ calls' = <<f>> \o calls /\ calls \in Seq(Frame)
    BY <1>0, CallsTyped DEF f
  <1>4. /\ calls' \in Seq(Frame) /\ calls' # <<>> /\ Len(calls') = Len(calls) + 1
        /\ calls'[1] = f /\ 1 \in DOMAIN calls'
        /\ \A i \in DOMAIN calls : i \in Nat /\ i + 1 \in DOMAIN calls' /\ calls'[i + 1] = calls[i]
        /\ \A i \in DOMAIN calls' : i # 1 => i - 1 \in DOMAIN calls /\ calls'[i] = calls[i - 1]
        /\ Last(calls') = Last(calls)
    BY <1>1, <1>2, <1>3, Pushed DEF Last
  <1>5. UNCHANGED <<nodes, dependsOn, children, verdict, pending, queue, reached, list, scan>>
    BY DEF graphVars, walkVars
  <1>6. GraphTypeOK'
    BY <1>0, <1>1, <1>4, <1>5 DEF GraphTypeOK, Frame
  <1>7. EdgesFollowDependsOn'
    BY <1>0, <1>5 DEF EdgesFollowDependsOn
  <1>8. StackIsPath'
    <2>1. inStack' = {calls'[i].node : i \in DOMAIN calls'}
      <3>1. ASSUME NEW i \in DOMAIN calls'
            PROVE  calls'[i].node \in inStack \cup {Child}
        BY <1>0, <1>2, <1>4 DEF StackIsPath
      <3>2. ASSUME NEW n \in inStack
            PROVE  \E i \in DOMAIN calls' : n = calls'[i].node
        <4>1. PICK i \in DOMAIN calls : n = calls[i].node
          BY <1>0 DEF StackIsPath
        <4> QED BY <1>4, <4>1
      <3>3. Child = calls'[1].node
        BY <1>2, <1>4
      <3> QED BY <1>4, <3>1, <3>2, <3>3
    <2>2. ASSUME NEW i \in DOMAIN calls', NEW j \in DOMAIN calls', calls'[i].node = calls'[j].node
          PROVE  i = j
      <3>1. \A m \in DOMAIN calls : calls[m].node # Child
        BY <1>0, <1>1 DEF StackIsPath
      <3>2. CASE i # 1 /\ j # 1
        <4>1. i - 1 = j - 1 /\ i \in Nat /\ j \in Nat
          BY <1>0, <1>4, <2>2, <3>2 DEF StackIsPath
        <4> QED BY <4>1
      <3>3. CASE i = 1 \/ j = 1
        BY <1>2, <1>4, <2>2, <3>1, <3>3
      <3> QED BY <3>2, <3>3
    <2>3. inStack' \subseteq visited'
      BY <1>0, <1>1 DEF StackIsPath
    <2>4. ASSUME NEW i \in DOMAIN calls'
          PROVE  ToSet(calls'[i].todo) \subseteq ToSet(children'[calls'[i].node])
      <3>1. CASE i = 1
        BY <1>2, <1>4, <1>5, <3>1
      <3>2. CASE i # 1
        BY <1>0, <1>4, <1>5, <3>2 DEF StackIsPath
      <3> QED BY <3>1, <3>2
    <2>5. ASSUME NEW i \in DOMAIN calls', i # 1
          PROVE  calls'[i].todo # <<>> /\ Head(calls'[i].todo) = calls'[i - 1].node
      <3>1. CASE i = 2
        <4>1. calls'[2] = calls[1] /\ calls'[2 - 1] = f
          BY <1>4, <3>1
        <4> QED BY <1>1, <1>2, <3>1, <4>1
      <3>2. CASE i # 2
        <4>1. /\ i - 1 \in DOMAIN calls /\ i - 1 # 1 /\ calls'[i] = calls[i - 1]
              /\ i \in Nat /\ i - 1 \in DOMAIN calls'
          BY <1>4, <2>5, <3>2
        <4>2. calls'[i - 1] = calls[(i - 1) - 1]
          BY <1>4, <4>1
        <4> QED BY <1>0, <4>1, <4>2 DEF StackIsPath
      <3> QED BY <3>1, <3>2
    <2> QED BY <2>1, <2>2, <2>3, <2>4, <2>5 DEF StackIsPath
  <1>9. FinishedIsClosed'
    <2>1. visited' \ inStack' = visited \ inStack
      BY <1>1
    <2>2. ASSUME NEW i \in DOMAIN calls'
          PROVE  ToSet(children'[calls'[i].node])
                     \subseteq (visited \ inStack) \cup ToSet(calls'[i].todo)
      <3>1. CASE i = 1
        BY <1>2, <1>4, <1>5, <3>1
      <3>2. CASE i # 1
        BY <1>0, <1>1, <1>4, <1>5, <3>2 DEF FinishedIsClosed
      <3> QED BY <3>1, <3>2
    <2> QED BY <1>0, <1>1, <1>5, <2>1, <2>2 DEF FinishedIsClosed, NoLoopWithin, Loop
  <1>10. LoopsAreNew'
    BY <1>0, <1>1, <1>4, <1>5 DEF LoopsAreNew, Loop
  <1>11. VerdictIsRight'
    BY <1>1, <1>5 DEF VerdictIsRight
  <1>12. WalkIsClosed' /\ ListedOnce'
    BY <1>1, WalkUntouched
  <1> QED BY <1>6, <1>7, <1>8, <1>9, <1>10, <1>11, <1>12 DEF GraphInv

LEMMA PassChildKeeps ==
    ASSUME GraphInv, PassChild
    PROVE  GraphInv'
  <1> USE DEF PassChild
  <1>0. /\ GraphTypeOK /\ EdgesFollowDependsOn /\ StackIsPath /\ FinishedIsClosed
        /\ LoopsAreNew /\ VerdictIsRight
    BY DEF GraphInv
  <1> DEFINE f == [Head(calls) EXCEPT !.todo = Tail(@)]
  <1>1. /\ Head(calls) = calls[1] /\ 1 \in DOMAIN calls /\ Head(calls) \in Frame
        /\ Child \in visited \ inStack /\ calls # <<>> /\ verdict = "building"
        /\ ToSet(calls[1].todo) = {Child} \cup ToSet(Tail(calls[1].todo))
        /\ Tail(calls[1].todo) \in Seq(Name)
    BY <1>0, ChildIsBelow DEF AtChild
  <1>2. f \in Frame /\ f.node = calls[1].node /\ f.todo = Tail(calls[1].todo)
    BY <1>1 DEF Frame
  <1> HIDE DEF f
  <1>3. calls' = <<f>> \o Tail(calls) /\ calls \in Seq(Frame)
    BY <1>0, CallsTyped DEF f
  <1>4. /\ calls' \in Seq(Frame) /\ calls' # <<>> /\ DOMAIN calls' = DOMAIN calls /\ calls'[1] = f
        /\ Last(calls').node = Last(calls).node
        /\ \A i \in DOMAIN calls : i # 1 => calls'[i] = calls[i]
        /\ \A i \in DOMAIN calls : calls'[i].node = calls[i].node
    <2>1. /\ calls' \in Seq(Frame) /\ calls' # <<>> /\ DOMAIN calls' = DOMAIN calls /\ calls'[1] = f
          /\ \A i \in DOMAIN calls : i # 1 => calls'[i] = calls[i]
          /\ Len(calls') = Len(calls)
      <3>1. LET p == <<f>> \o Tail(calls) IN
            /\ p \in Seq(Frame) /\ p # <<>> /\ DOMAIN p = DOMAIN calls /\ Len(p) = Len(calls)
            /\ p[1] = f /\ \A i \in DOMAIN calls : i # 1 => p[i] = calls[i]
        BY <1>1, <1>2, <1>3, Replaced
      <3> QED BY <1>3, <3>1
    <2>2. Len(calls) \in DOMAIN calls
      BY <1>1, <1>3
    <2> QED BY <1>2, <2>1, <2>2 DEF Last
  <1>5. UNCHANGED <<nodes, dependsOn, children, verdict, pending, queue, reached, list, scan, visited, inStack>>
    BY DEF graphVars, walkVars
  <1>6. GraphTypeOK'
    BY <1>0, <1>4, <1>5 DEF GraphTypeOK, Frame
  <1>7. EdgesFollowDependsOn' /\ VerdictIsRight'
    BY <1>0, <1>1, <1>5 DEF EdgesFollowDependsOn, VerdictIsRight
  <1>8. StackIsPath'
    <2>1. \A i \in DOMAIN calls : ToSet(calls'[i].todo) \subseteq ToSet(calls[i].todo)
      BY <1>1, <1>2, <1>4
    <2>2. ASSUME NEW i \in DOMAIN calls, i # 1
          PROVE  calls'[i].todo # <<>> /\ Head(calls'[i].todo) = calls'[i - 1].node
      <3>1. i - 1 \in DOMAIN calls
        BY <1>3, <2>2
      <3> QED BY <1>0, <1>4, <2>2, <3>1 DEF StackIsPath
    <2>3. inStack' = {calls'[i].node : i \in DOMAIN calls'}
      <3>1. {calls'[i].node : i \in DOMAIN calls'} = {calls[i].node : i \in DOMAIN calls}
        BY <1>4
      <3> QED BY <1>0, <1>5, <3>1 DEF StackIsPath
    <2>4. \A i \in DOMAIN calls : ToSet(calls'[i].todo) \subseteq ToSet(children'[calls'[i].node])
      BY <1>0, <1>4, <1>5, <2>1 DEF StackIsPath
    <2>5. \A i, j \in DOMAIN calls' : calls'[i].node = calls'[j].node => i = j
      BY <1>0, <1>4 DEF StackIsPath
    <2>6. inStack' \subseteq visited'
      BY <1>0, <1>1, <1>5 DEF StackIsPath
    <2> QED BY <1>4, <2>2, <2>3, <2>4, <2>5, <2>6 DEF StackIsPath
  <1>9. FinishedIsClosed'
    <2>1. ASSUME NEW i \in DOMAIN calls
          PROVE  ToSet(children[calls[i].node]) \subseteq (visited \ inStack) \cup ToSet(calls'[i].todo)
      <3>1. ToSet(children[calls[i].node]) \subseteq (visited \ inStack) \cup ToSet(calls[i].todo)
        BY <1>0, <1>1 DEF FinishedIsClosed
      <3> QED BY <1>1, <1>2, <1>4, <3>1
    <2> QED BY <1>0, <1>1, <1>4, <1>5, <2>1 DEF FinishedIsClosed, NoLoopWithin, Loop
  <1>10. LoopsAreNew'
    BY <1>0, <1>1, <1>4, <1>5 DEF LoopsAreNew, Loop
  <1>11. WalkIsClosed' /\ ListedOnce'
    BY <1>1, WalkUntouched
  <1> QED BY <1>6, <1>7, <1>8, <1>9, <1>10, <1>11 DEF GraphInv

LEMMA LeaveNodeKeeps ==
    ASSUME GraphInv, LeaveNode
    PROVE  GraphInv'
  <1> USE DEF LeaveNode
  <1>0. /\ GraphTypeOK /\ EdgesFollowDependsOn /\ StackIsPath /\ FinishedIsClosed
        /\ LoopsAreNew /\ VerdictIsRight
    BY DEF GraphInv
  <1> DEFINE t == Tail(calls)
             n == calls[1].node
             finished == visited \ inStack
  <1>1. /\ calls \in Seq(Frame) /\ calls # <<>> /\ Head(calls) = calls[1] /\ 1 \in DOMAIN calls
        /\ calls[1].todo = <<>> /\ verdict = "building"
        /\ n \in Node /\ n \in inStack /\ n \in visited
    BY <1>0, CallsTyped, Popped DEF StackIsPath
  <1>2. /\ t \in Seq(Frame)
        /\ \A i \in DOMAIN t : i \in Nat /\ i + 1 \in DOMAIN calls /\ t[i] = calls[i + 1] /\ i + 1 # 1
        /\ \A i \in DOMAIN calls : i # 1 => i - 1 \in DOMAIN t /\ calls[i] = t[i - 1]
        /\ t = <<>> => Len(calls) = 1
        /\ t # <<>> => Last(t) = Last(calls)
    BY <1>1, Popped DEF Last
  <1>3. /\ calls' = t /\ inStack' = inStack \ {n}
        /\ visited' = IF t = <<>> THEN {} ELSE visited
    BY <1>1 DEF LeaveStack
  <1>4. UNCHANGED <<nodes, dependsOn, children, verdict, pending, queue, reached, list, scan>>
    BY DEF graphVars, walkVars
  <1>5. \A i \in DOMAIN t : t[i].node # n
    BY <1>0, <1>1, <1>2 DEF StackIsPath
  \* With its last child a node is finished.
  <1>6. ToSet(children[n]) \subseteq finished
    BY <1>0, <1>1, EmptyHasNone DEF FinishedIsClosed
  <1>7. \A x \in finished \cup {n} : ToSet(children[x]) \subseteq finished
    BY <1>0, <1>1, <1>6 DEF FinishedIsClosed
  <1>8. ASSUME NEW L \in SUBSET (finished \cup {n}), Loop(L)
        PROVE  L = {}
    <2>1. n \notin L
      BY <1>1, <1>7, <1>8 DEF Loop
    <2> QED BY <1>0, <1>1, <1>8, <2>1 DEF FinishedIsClosed, NoLoopWithin
  <1> HIDE DEF t, n, finished
  <1>9. GraphTypeOK'
    BY <1>0, <1>1, <1>2, <1>3, <1>4 DEF GraphTypeOK, Frame
  <1>10. EdgesFollowDependsOn' /\ VerdictIsRight'
    BY <1>0, <1>1, <1>4 DEF EdgesFollowDependsOn, VerdictIsRight
  <1>11. StackIsPath'
    <2>1. inStack' = {t[i].node : i \in DOMAIN t}
      <3>1. inStack = {calls[i].node : i \in DOMAIN calls}
        BY <1>0 DEF StackIsPath
      <3>2. \A i \in DOMAIN t : t[i].node \in inStack \ {n}
        BY <1>2, <1>5, <3>1
      <3>3. \A x \in inStack \ {n} : \E i \in DOMAIN t : x = t[i].node
        BY <1>2, <3>1 DEF n
      <3> QED BY <1>3, <3>2, <3>3
    <2>2. ASSUME NEW i \in DOMAIN t, NEW j \in DOMAIN t, t[i].node = t[j].node
          PROVE  i = j
      <3>1. i + 1 = j + 1 /\ i \in Nat /\ j \in Nat
        BY <1>0, <1>2, <2>2 DEF StackIsPath
      <3> QED BY <3>1
    <2>3. t # <<>> => inStack' \subseteq visited'
      BY <1>0, <1>1, <1>3 DEF StackIsPath
    <2>4. \A i \in DOMAIN t : ToSet(t[i].todo) \subseteq ToSet(children[t[i].node])
      BY <1>0, <1>2 DEF StackIsPath
    <2>5. ASSUME NEW i \in DOMAIN t, i # 1
          PROVE  t[i].todo # <<>> /\ Head(t[i].todo) = t[i - 1].node
      <3>1. /\ t[i] = calls[i + 1] /\ i + 1 \in DOMAIN calls /\ i + 1 # 1 /\ i \in Nat
            /\ (i + 1) - 1 = i
        BY <1>2
      <3>2. i \in DOMAIN calls
        BY <1>1, <3>1
      <3>3. calls[i] = t[i - 1]
        BY <1>2, <2>5, <3>2
      <3> QED BY <1>0, <3>1, <3>2, <3>3 DEF StackIsPath
    <2> QED BY <1>3, <1>4, <2>1, <2>2, <2>3, <2>4, <2>5 DEF StackIsPath
  <1>12. FinishedIsClosed'
    <2> SUFFICES ASSUME t # <<>>
                 PROVE  FinishedIsClosed'
      BY <1>3 DEF FinishedIsClosed
    <2>1. visited' \ inStack' = finished \cup {n}
      BY <1>1, <1>3 DEF finished
    <2>2. \A i \in DOMAIN t :
              ToSet(children[t[i].node]) \subseteq (finished \cup {n}) \cup ToSet(t[i].todo)
      BY <1>0, <1>1, <1>2 DEF FinishedIsClosed, finished
    <2> QED BY <1>3, <1>4, <1>7, <1>8, <2>1, <2>2 DEF FinishedIsClosed, NoLoopWithin, Loop
  <1>13. LoopsAreNew'
    <2>1. CASE t # <<>>
      BY <1>0, <1>1, <1>2, <1>3, <1>4, <2>1 DEF LoopsAreNew, Loop
    <2>2. CASE t = <<>>
      <3>1. Last(calls).node = n
        BY <1>2, <2>2 DEF Last, n
      <3>2. ASSUME NEW L \in SUBSET Node, Loop(L)
            PROVE  L = {}
        <4>1. Loop(L \ (finished \cup {n}))
          BY <1>7, <3>2, LoopsOutside
        <4>2. L \ (finished \cup {n}) = {}
          BY <1>0, <1>1, <3>1, <4>1 DEF LoopsAreNew
        <4> QED BY <1>8, <3>2, <4>2
      <3> QED BY <1>3, <1>4, <2>2, <3>2 DEF LoopsAreNew, NoLoopWithin, Loop
    <2> QED BY <2>1, <2>2
  <1>14. WalkIsClosed' /\ ListedOnce'
    BY <1>1, WalkUntouched
  <1> QED BY <1>9, <1>10, <1>11, <1>12, <1>13, <1>14 DEF GraphInv

\* A child on the stack: the calls from it on are a cycle of dependencies.
LEMMA CloseCycleKeeps ==
    ASSUME GraphInv, CloseCycle
    PROVE  GraphInv'
  <1> USE DEF CloseCycle
  <1>0. /\ GraphTypeOK /\ EdgesFollowDependsOn /\ StackIsPath /\ FinishedIsClosed
        /\ LoopsAreNew /\ VerdictIsRight
    BY DEF GraphInv
  <1>1. /\ calls \in Seq(Frame) /\ 1 \in DOMAIN calls /\ calls # <<>>
        /\ Child \in Name /\ Child \in ToSet(children[calls[1].node]) /\ Child \in inStack
        /\ verdict = "building"
    BY <1>0, CallsTyped, ChildIsBelow DEF AtChild
  <1>2. PICK j \in DOMAIN calls : Child = calls[j].node
    BY <1>0, <1>1 DEF StackIsPath
  <1>3. j \in Nat /\ j >= 1 /\ 1..j \subseteq DOMAIN calls
    BY <1>1
  <1> DEFINE S == {calls[i].node : i \in 1..j}
  \* Each call on the way is one for a child of the next.
  <1>4. ASSUME NEW i \in 1..j, i # j
        PROVE  /\ i + 1 \in 1..j /\ calls[i].node \in ToSet(children[calls[i + 1].node])
               /\ calls[i].node \in Name
    <2>1. i + 1 \in DOMAIN calls /\ i + 1 # 1 /\ (i + 1) - 1 = i /\ i + 1 \in 1..j
      BY <1>3, <1>4
    <2>2. /\ calls[i + 1].todo # <<>> /\ Head(calls[i + 1].todo) = calls[i].node
          /\ ToSet(calls[i + 1].todo) \subseteq ToSet(children[calls[i + 1].node])
          /\ calls[i + 1].todo \in Seq(Name)
      BY <1>0, <2>1, CallsTyped DEF StackIsPath
    <2>3. Head(calls[i + 1].todo) \in ToSet(calls[i + 1].todo) /\ Head(calls[i + 1].todo) \in Name
      BY <2>2, TakenOff
    <2> QED BY <2>1, <2>2, <2>3
  <1>5. ASSUME NEW s \in S
        PROVE  /\ s \in Name /\ s \in nodes /\ dependsOn[s] \cap S # {}
    <2>1. PICK i \in 1..j : s = calls[i].node
      OBVIOUS
    <2>2. s \in Name
      BY <1>1, <1>2, <1>4, <2>1
    <2>3. \E p \in S : p \in Node /\ s \in ToSet(children[p])
      <3>1. CASE i = j
        <4>1. 1 \in 1..j /\ calls[1].node \in Node
          BY <1>0, <1>1, <1>3, CallsTyped
        <4> QED BY <1>1, <1>2, <2>1, <3>1, <4>1
      <3>2. CASE i # j
        <4>1. calls[i + 1].node \in Node
          BY <1>0, <1>3, <1>4, <3>2, CallsTyped
        <4> QED BY <1>4, <2>1, <3>2, <4>1
      <3> QED BY <3>1, <3>2
    <2>4. PICK p \in S : p \in Node /\ s \in ToSet(children[p])
      BY <2>3
    <2>5. s \in nodes /\ p \in Parents(dependsOn[s])
      BY <1>0, <2>2, <2>4 DEF EdgesFollowDependsOn
    <2>6. p # Root
      <3>1. PICK m \in 1..j : p = calls[m].node
        BY <2>4
      <3> QED BY <1>0, <1>1, <1>2, <1>4, <3>1, CallsTyped
    <2> QED BY <2>2, <2>4, <2>5, <2>6 DEF Parents
  <1>6. HasCycle
    <2>1. S # {} /\ S \subseteq nodes \ {Root}
      <3>1. calls[j].node \in S
        BY <1>3
      <3> QED BY <1>0, <1>5, <3>1, CallsTyped
    <2> QED BY <1>5, <2>1 DEF HasCycle, Waiting
  <1> HIDE DEF S
  <1>7. UNCHANGED <<nodes, dependsOn, children, pending, calls, visited, inStack, queue, reached, list, scan>>
    BY DEF dfsVars, walkVars
  <1>8. GraphTypeOK' /\ EdgesFollowDependsOn' /\ StackIsPath' /\ FinishedIsClosed' /\ LoopsAreNew'
    <2>1. GraphTypeOK' /\ EdgesFollowDependsOn'
      BY <1>0, <1>7 DEF GraphTypeOK, EdgesFollowDependsOn
    <2>2. FinishedIsClosed'
      BY <1>0, <1>7 DEF FinishedIsClosed, NoLoopWithin, Loop
    <2>4. StackIsPath'
      BY <1>0, <1>7 DEF StackIsPath
    <2>3. LoopsAreNew'
      BY <1>0, <1>7 DEF LoopsAreNew, NoLoopWithin, Loop
    <2> QED BY <2>1, <2>2, <2>3, <2>4
  <1>9. HasCycle'
    BY <1>6, <1>7 DEF HasCycle, Waiting
  <1>10. VerdictIsRight'
    BY <1>1, <1>7, <1>9 DEF VerdictIsRight
  <1>11. WalkIsClosed' /\ ListedOnce'
    BY <1>1, WalkUntouched
  <1> QED BY <1>8, <1>10, <1>11 DEF GraphInv

\* What does not touch the graph.
LEMMA GraphUntouched ==
    ASSUME GraphInv, UNCHANGED <<nodes, dependsOn, children, pending, calls, visited, inStack>>
    PROVE  /\ EdgesFollowDependsOn' /\ StackIsPath' /\ FinishedIsClosed' /\ LoopsAreNew'
           /\ HasCycle' <=> HasCycle
  <1>0. EdgesFollowDependsOn /\ StackIsPath /\ FinishedIsClosed /\ LoopsAreNew
    BY DEF GraphInv
  <1>1. EdgesFollowDependsOn'
    BY <1>0 DEF EdgesFollowDependsOn
  <1>2. FinishedIsClosed'
    BY <1>0 DEF FinishedIsClosed, NoLoopWithin, Loop
  <1>5. StackIsPath'
    BY <1>0 DEF StackIsPath
  <1>3. LoopsAreNew'
    BY <1>0 DEF LoopsAreNew, NoLoopWithin, Loop
  <1>4. HasCycle' <=> HasCycle
    BY DEF HasCycle, Waiting
  <1> QED BY <1>1, <1>2, <1>3, <1>4, <1>5

LEMMA VerdictKeeps ==
    ASSUME GraphInv, CheckGraph \/ \E s \in Node : RefuseStage(s)
    PROVE  GraphInv'
  <1>1. /\ BetweenStages /\ verdict' \in {"duplicate", "missing", "built"}
        /\ UNCHANGED <<nodes, dependsOn, children, pending, calls, visited, inStack,
                       queue, reached, list, scan>>
        /\ verdict' = "built" => ~DependsOnMissing
    BY DEF CheckGraph, RefuseStage, dfsVars, walkVars
  <1>2. GraphTypeOK'
    BY <1>1 DEF GraphInv, GraphTypeOK
  <1>3. VerdictIsRight'
    BY <1>1 DEF VerdictIsRight, BetweenStages, DependsOnMissing
  <1>4. WalkIsClosed' /\ ListedOnce'
    BY <1>1, WalkUntouched DEF BetweenStages, walkVars
  <1> QED BY <1>1, <1>2, <1>3, <1>4, GraphUntouched DEF GraphInv

LEMMA BeginWalkKeeps ==
    ASSUME GraphInv, BeginWalk
    PROVE  GraphInv'
  <1> USE DEF BeginWalk
  <1>0. GraphTypeOK /\ VerdictIsRight /\ WalkIsClosed /\ EdgesFollowDependsOn
    BY DEF GraphInv
  <1>1. UNCHANGED <<nodes, dependsOn, children, verdict, pending, calls, visited, inStack, list, scan>>
    BY DEF graphVars, dfsVars
  <1>2. /\ queue' = <<Root>> /\ reached' = {Root} /\ list' = <<>> /\ scan' = <<>>
        /\ verdict = "built"
    BY <1>0, <1>1 DEF WalkIsClosed
  <1>3. Root \in Node /\ queue' \in Seq(Node) /\ ToSet(queue') = {Root} /\ IsInjective(queue')
    <2>1. Root \in Node
      BY DEF Node
    <2> QED BY <1>2, <2>1 DEF ToSet, IsInjective
  <1>4. GraphTypeOK'
    BY <1>0, <1>1, <1>2, <1>3 DEF GraphTypeOK
  <1>5. VerdictIsRight'
    BY <1>0, <1>1, <1>2, GraphUntouched DEF VerdictIsRight
  <1>6. WalkIsClosed'
    BY <1>0, <1>1, <1>2, <1>3, EmptyHasNone DEF WalkIsClosed, EdgesFollowDependsOn
  <1>7. ListedOnce'
    BY <1>2, <1>3, EmptyHasNone DEF ListedOnce
  <1> QED BY <1>1, <1>4, <1>5, <1>6, <1>7, GraphUntouched DEF GraphInv

LEMMA TakeNodeKeeps ==
    ASSUME GraphInv, TakeNode
    PROVE  GraphInv'
  <1> USE DEF TakeNode
  <1>0. GraphTypeOK /\ VerdictIsRight /\ WalkIsClosed /\ EdgesFollowDependsOn /\ ListedOnce
    BY DEF GraphInv
  <1>1. UNCHANGED <<nodes, dependsOn, children, verdict, pending, calls, visited, inStack, reached>>
    BY DEF graphVars, dfsVars
  <1> DEFINE h == Head(queue)
  <1>2. /\ h \in Node /\ queue' \in Seq(Node) /\ ToSet(queue) = {h} \cup ToSet(queue')
        /\ IsInjective(queue') /\ h \notin ToSet(queue')
        /\ reached # {} /\ scan = <<>> /\ h \in ToSet(queue)
    <2>1. queue \in Seq(Node) /\ queue # <<>> /\ IsInjective(queue) /\ queue' = Tail(queue)
      BY <1>0 DEF GraphTypeOK, ListedOnce
    <2> QED BY <1>0, <2>1, TakenOff DEF WalkIsClosed
  <1>3. /\ scan' = children[h] /\ scan' \in Seq(Name)
        /\ list' = IF h = Root THEN list ELSE Append(list, h)
        /\ list \in Seq(Name) /\ (h # Root => h \in Name)
    BY <1>0, <1>2 DEF GraphTypeOK, Node
  <1> HIDE DEF h
  <1>4. /\ list' \in Seq(Name)
        /\ ToSet(list') = IF h = Root THEN ToSet(list) ELSE ToSet(list) \cup {h}
        /\ IsInjective(list')
    <2>1. IsInjective(list) /\ h \notin ToSet(list)
      BY <1>0, <1>2 DEF ListedOnce
    <2>2. CASE h = Root
      BY <1>3, <2>1, <2>2
    <2>3. CASE h # Root
      <3>1. list' = Append(list, h) /\ h \in Name
        BY <1>3, <2>3
      <3> QED BY <1>3, <2>1, <2>3, <3>1, PutLast
    <2> QED BY <2>2, <2>3
  <1>5. GraphTypeOK'
    BY <1>0, <1>1, <1>2, <1>3, <1>4 DEF GraphTypeOK
  <1>6. VerdictIsRight'
    BY <1>0, <1>1, GraphUntouched DEF VerdictIsRight
  <1>7. WalkIsClosed'
    <2>1. ToSet(scan') \subseteq nodes
      BY <1>0, <1>2, <1>3, InSeq DEF EdgesFollowDependsOn
    <2>2. ASSUME NEW n \in reached
          PROVE  n \in ToSet(queue') \/ ToSet(children[n]) \subseteq reached \cup ToSet(scan')
      BY <1>0, <1>2, <1>3, EmptyHasNone DEF WalkIsClosed
    <2> QED BY <1>0, <1>1, <1>2, <2>1, <2>2 DEF WalkIsClosed
  <1>8. ListedOnce'
    BY <1>0, <1>1, <1>2, <1>4 DEF ListedOnce
  <1> QED BY <1>1, <1>5, <1>6, <1>7, <1>8, GraphUntouched DEF GraphInv

LEMMA SeeChildKeeps ==
    ASSUME GraphInv, SeeChild
    PROVE  GraphInv'
  <1> USE DEF SeeChild
  <1>0. GraphTypeOK /\ VerdictIsRight /\ WalkIsClosed /\ EdgesFollowDependsOn /\ ListedOnce
    BY DEF GraphInv
  <1>1. UNCHANGED <<nodes, dependsOn, children, verdict, pending, calls, visited, inStack, list>>
    BY DEF graphVars, dfsVars
  <1> DEFINE c == Head(scan)
  <1>2. /\ c \in Name /\ c \in nodes /\ c \in Node /\ scan' \in Seq(Name)
        /\ ToSet(scan) = {c} \cup ToSet(scan')
        /\ reached # {} /\ reached' = reached \cup {c}
    <2>1. scan \in Seq(Name) /\ scan # <<>> /\ scan' = Tail(scan)
      BY <1>0 DEF GraphTypeOK
    <2> QED BY <1>0, <2>1, TakenOff DEF WalkIsClosed, Node
  <1>3. queue' = (IF c \in reached THEN queue ELSE Append(queue, c)) /\ queue \in Seq(Node)
    BY <1>0 DEF GraphTypeOK
  <1> HIDE DEF c
  <1>4. /\ queue' \in Seq(Node) /\ IsInjective(queue')
        /\ ToSet(queue') = IF c \in reached THEN ToSet(queue) ELSE ToSet(queue) \cup {c}
    <2>1. IsInjective(queue) /\ (c \notin reached => c \notin ToSet(queue))
      BY <1>0, <1>2 DEF ListedOnce
    <2>2. CASE c \in reached
      BY <1>3, <2>1, <2>2
    <2>3. CASE c \notin reached
      <3>1. queue' = Append(queue, c)
        BY <1>3, <2>3
      <3> QED BY <1>2, <1>3, <2>1, <2>3, <3>1, PutLast
    <2> QED BY <2>2, <2>3
  <1>5. GraphTypeOK'
    BY <1>0, <1>1, <1>2, <1>4 DEF GraphTypeOK
  <1>6. VerdictIsRight'
    BY <1>0, <1>1, GraphUntouched DEF VerdictIsRight
  <1>7. WalkIsClosed'
    BY <1>0, <1>1, <1>2, <1>4 DEF WalkIsClosed
  <1>8. ListedOnce'
    BY <1>0, <1>1, <1>2, <1>4 DEF ListedOnce
  <1> QED BY <1>1, <1>5, <1>6, <1>7, <1>8, GraphUntouched DEF GraphInv

\* Every step of buildPipeline and of the walk keeps GraphInv.
LEMMA GraphStep == GraphInv /\ [Next]_vars => GraphInv'
  <1> SUFFICES ASSUME GraphInv, [Next]_vars PROVE GraphInv'
    OBVIOUS
  <1>1. ASSUME UNCHANGED vars PROVE GraphInv'
    <2>1. UNCHANGED <<nodes, dependsOn, children, pending, calls, visited, inStack,
                      verdict, queue, reached, list, scan>>
      BY <1>1 DEF vars, graphVars, dfsVars, walkVars
    <2>2. GraphTypeOK' /\ VerdictIsRight'
      BY <2>1, GraphUntouched DEF GraphInv, GraphTypeOK, VerdictIsRight
    <2>3. WalkIsClosed' /\ ListedOnce'
      BY <2>1 DEF GraphInv, WalkIsClosed, ListedOnce
    <2> QED BY <2>1, <2>2, <2>3, GraphUntouched DEF GraphInv
  <1> QED BY <1>1, AddStageKeeps, AddEdgeKeeps, DescendKeeps, CloseCycleKeeps, PassChildKeeps,
             LeaveNodeKeeps, VerdictKeeps, BeginWalkKeeps, TakeNodeKeeps, SeeChildKeeps
          DEF Next, Loaded

LEMMA CyclesAreFound == GraphInv => CycleIsFound
  <1> SUFFICES ASSUME GraphInv, BetweenStages \/ verdict # "building", verdict # "cycle", HasCycle
               PROVE  FALSE
    BY DEF GraphInv, VerdictIsRight, CycleIsFound
  <1>0. EdgesFollowDependsOn /\ LoopsAreNew /\ VerdictIsRight /\ GraphTypeOK
    BY DEF GraphInv
  <1>1. calls = <<>> /\ pending = {}
    BY <1>0 DEF VerdictIsRight, BetweenStages
  <1>2. PICK S \in SUBSET (nodes \ {Root}) : S # {} /\ Waiting(S)
    BY DEF HasCycle
  <1>3. S \subseteq Name
    BY <1>0, NameAssumption DEF GraphTypeOK, Node
  <1>4. Loop(S)
    <2>1. ASSUME NEW s \in S PROVE \E p \in S : s \in ToSet(children[p])
      <3>1. PICK p \in S : p \in dependsOn[s]
        BY <1>2 DEF Waiting
      <3>2. p \in Node /\ s \in Name /\ s \in nodes /\ p \in Parents(dependsOn[s])
        BY <1>3, <3>1 DEF Node, Parents
      <3> QED BY <1>0, <1>1, <3>2 DEF EdgesFollowDependsOn
    <2> QED BY <2>1 DEF Loop
  <1> QED BY <1>0, <1>1, <1>2, <1>3, <1>4 DEF LoopsAreNew, NoLoopWithin, Node

\* What the walk has not reached would be a set of stages that wait for each other.
LEMMA StagesAreListed == GraphInv => EveryStageIsListed
  <1> SUFFICES ASSUME GraphInv, WalkIsOver
               PROVE  ToSet(list) = nodes \ {Root} /\ IsInjective(list)
    BY DEF EveryStageIsListed
  <1>0. /\ EdgesFollowDependsOn /\ LoopsAreNew /\ VerdictIsRight /\ GraphTypeOK /\ WalkIsClosed
        /\ ListedOnce
    BY DEF GraphInv
  <1>1. /\ reached # {} /\ ToSet(queue) = {} /\ ToSet(scan) = {} /\ verdict = "built"
        /\ Root \in reached /\ reached \subseteq nodes
        /\ \A n \in reached : ToSet(children[n]) \subseteq reached
    BY <1>0, EmptyHasNone DEF WalkIsClosed, WalkIsOver
  <1>2. /\ calls = <<>> /\ pending = {}
        /\ \A s \in nodes : dependsOn[s] \subseteq nodes
    BY <1>0, <1>1 DEF VerdictIsRight
  <1> DEFINE L == nodes \ reached
  <1>3. Loop(L)
    <2>1. ASSUME NEW s \in L PROVE \E p \in L : s \in ToSet(children[p])
      <3>1. s \in Name /\ s \in nodes
        BY <1>0, <1>1 DEF GraphTypeOK, Node
      <3>2. PICK p : p \in Parents(dependsOn[s])
        BY DEF Parents
      <3>3. p \in nodes /\ p \in Node
        BY <1>0, <1>1, <1>2, <3>1, <3>2 DEF Parents, GraphTypeOK
      <3>4. s \in ToSet(children[p])
        BY <1>0, <1>2, <3>1, <3>2, <3>3 DEF EdgesFollowDependsOn
      <3> QED BY <1>1, <3>3, <3>4
    <2> QED BY <2>1 DEF Loop
  <1>4. L = {}
    BY <1>0, <1>2, <1>3 DEF LoopsAreNew, NoLoopWithin, GraphTypeOK
  <1>5. Root \notin ToSet(list)
    BY <1>0, InSeq, NameAssumption DEF GraphTypeOK
  <1> QED BY <1>0, <1>1, <1>4, <1>5 DEF ListedOnce

\* A pipeline is refused for a cycle exactly when its stages wait for each other.
THEOREM CyclesFound == Spec => []CycleIsFound
  <1>1. Spec => []GraphInv
    BY InitOfGraph, GraphStep, PTL DEF Spec
  <1> QED BY <1>1, CyclesAreFound, PTL

\* A walk from the root node comes to every stage of a pipeline, once.
THEOREM StagesListed == Spec => []EveryStageIsListed
  <1>1. Spec => []GraphInv
    BY InitOfGraph, GraphStep, PTL DEF Spec
  <1> QED BY <1>1, StagesAreListed, PTL

-----------------------------------------------------------------------------
(***************************************************************************)
(* Names and pipelines                                                     *)
(***************************************************************************)
\* A path and its last part.
LEMMA PathWithPart ==
    ASSUME NEW S, NEW path \in Seq(S), NEW n \in S
    PROVE  LET p == Append(path, n) IN
           /\ p \in Seq(S) /\ Len(p) = Len(path) + 1 /\ Len(path) \in Nat
           /\ Front(p) = path /\ Last(p) = n
           /\ p[Len(path) + 1] = n /\ \A i \in 1..Len(path) : p[i] = path[i]
  <1> DEFINE p == Append(path, n)
  <1>1. /\ p \in Seq(S) /\ Len(p) = Len(path) + 1 /\ Len(path) \in Nat /\ p[Len(path) + 1] = n
        /\ \A i \in 1..Len(path) : p[i] = path[i]
    OBVIOUS
  <1>2. Len(p) - 1 = Len(path)
    BY <1>1
  <1>3. SubSeq(p, 1, Len(path)) = path
    OBVIOUS
  <1> HIDE DEF p
  <1>4. Front(p) = path /\ Last(p) = n
    BY <1>1, <1>2, <1>3 DEF Front, Last
  <1> QED BY <1>1, <1>4 DEF p

LEMMA TopPath ==
    ASSUME NEW n
    PROVE  Front(<<Top, n>>) = <<Top>> /\ Last(<<Top, n>>) = n /\ Append(<<Top>>, n) = <<Top, n>>
  <1> DEFINE S == {Top, n}
             top == <<Top>>
             key == <<Top, n>>
             s == Append(top, n)
  <1>1. Top \in S /\ n \in S
    OBVIOUS
  <1> HIDE DEF S
  <1>0. top \in Seq(S)
    BY <1>1
  <1>2. /\ Len(top) = 1 /\ top[1] = Top
        /\ key \in Seq(S) /\ Len(key) = 2 /\ key[1] = Top /\ key[2] = n
    BY <1>1
  <1> HIDE DEF top, key
  <1>3. /\ s \in Seq(S) /\ Len(s) = Len(top) + 1 /\ s[Len(top) + 1] = n
        /\ \A i \in 1..Len(top) : s[i] = top[i]
        /\ Front(s) = top /\ Last(s) = n
    BY <1>0, <1>1, PathWithPart
  <1> HIDE DEF s
  <1>5. \A i \in 1 .. Len(s) : s[i] = key[i]
    BY <1>2, <1>3
  <1>6. s = key
    BY <1>2, <1>3, <1>5, SeqEqual
  <1> QED BY <1>3, <1>6 DEF s, top, key

LEMMA PathInParts ==
    ASSUME NEW S, NEW path \in Seq(S), Len(path) > 1
    PROVE  /\ Front(path) \in Seq(S) /\ Last(path) \in S
           /\ path = Append(Front(path), Last(path)) /\ Len(Front(path)) = Len(path) - 1
  <1> DEFINE n == Len(path)
             q == SubSeq(path, 1, n - 1)
  <1>1. /\ n \in Nat /\ n > 1 /\ q \in Seq(S) /\ Len(q) = n - 1 /\ path[n] \in S
        /\ \A i \in 1..(n - 1) : q[i] = path[i]
    OBVIOUS
  <1>2. path = Append(q, path[n])
    OBVIOUS
  <1> QED BY <1>1, <1>2 DEF Front, Last

LEMMA IdParts ==
    /\ \A id \in StageId :
          /\ id = <<id[1], id[2]>> /\ id[1] \in Pipeline \cup {Top} /\ id[2] \in Part /\ id[2] # Root
          /\ id[1] = Top => id[2] \in Name
          /\ id[1] # Top => id[2] \in StagesIn[id[1]] /\ id \in NestedId
    /\ \A n \in Name : <<Top, n>> \in StageId
    /\ \A p \in Pipeline : \A n \in StagesIn[p] : <<p, n>> \in StageId /\ <<p, n>> \in NestedId /\ n \in Part
    /\ Top \notin Pipeline /\ NoPipeline \notin Pipeline
  BY PipelineAssumption, NameAssumption DEF StageId, NestedId, Id, Part

LEMMA KeysTyped ==
    ASSUME GraphInv
    PROVE  /\ \A p \in Pipeline \cup {Top} : \A n \in Keys(p) :
                  n \in Part /\ n # Root /\ <<p, n>> \in StageId
           /\ \A n \in Keys(Top) : n \in Name /\ n \in nodes
           /\ nodes \subseteq Node
  <1>1. nodes \subseteq Node /\ Node = Name \cup {Root}
    BY DEF GraphInv, GraphTypeOK, Node
  <1>2. \A n \in Keys(Top) : n \in Name /\ n \in nodes
    BY <1>1 DEF Keys
  <1>3. \A n \in Keys(Top) : n \in Part /\ n # Root /\ <<Top, n>> \in StageId
    BY <1>2, IdParts, NameAssumption DEF Part
  <1>4. \A p \in Pipeline : \A n \in Keys(p) : n \in Part /\ n # Root /\ <<p, n>> \in StageId
    <2>1. \A p \in Pipeline : Keys(p) = StagesIn[p] /\ Root \notin StagesIn[p]
      BY PipelineAssumption DEF Keys
    <2> QED BY <2>1, IdParts
  <1> QED BY <1>1, <1>2, <1>3, <1>4

\* The stages hanging on another one are of the same pipeline.
LEMMA ChildrenAreKeys ==
    ASSUME GraphInv, NEW p \in Pipeline \cup {Top}, NEW n \in Keys(p) \cup {Root}
    PROVE  Children(p, n) \subseteq Keys(p)
  <1>0. GraphTypeOK /\ EdgesFollowDependsOn
    BY DEF GraphInv
  <1>1. CASE p = Top
    <2>1. n \in Node
      BY <1>1, KeysTyped DEF Node
    <2>2. ToSet(children[n]) \subseteq Name
      BY <1>0, <2>1, InSeq DEF GraphTypeOK
    <2> QED BY <1>0, <1>1, <2>1, <2>2, NameAssumption DEF Children, Keys, EdgesFollowDependsOn
  <1>2. CASE p # Top
    BY <1>2 DEF Children, Keys
  <1> QED BY <1>1, <1>2

\* A name for a pipeline, and the one stage behind it.
LEMMA AliasIsSole ==
    ASSUME NEW p, IsAlias(p)
    PROVE  /\ p \in Pipeline /\ Sole(p) \in NestedId /\ Sole(p) \in StageId /\ Sole(p)[1] = p
           /\ StagesIn[p] = {Sole(p)[2]} /\ Sole(p) = <<p, Sole(p)[2]>>
           /\ \A id \in StageId : id[1] = p => id = Sole(p)
           /\ holds[Sole(p)] # NoPipeline
  <1>1. PICK id \in NestedId : id[1] = p /\ StagesIn[p] = {id[2]} /\ holds[id] # NoPipeline
    BY DEF IsAlias
  <1>2. Sole(p) \in NestedId /\ Sole(p)[1] = p
    BY <1>1 DEF Sole
  <1>3. \A x \in NestedId : x \in StageId /\ x[1] \in Pipeline /\ x = <<x[1], x[2]>> /\ x[2] \in StagesIn[x[1]]
    BY DEF NestedId, StageId, Id
  <1>4. \A x \in StageId : x[1] = p => x = id
    BY <1>1, <1>3, IdParts
  <1> QED BY <1>1, <1>2, <1>3, <1>4

LEMMA AliasesAreSole ==
    ASSUME NEW p \in Pipeline
    PROVE  /\ Aliases(p) = {} <=> ~IsAlias(p)
           /\ \A alias \in Aliases(p) : alias = Sole(p)
  <1>1. ASSUME NEW alias \in Aliases(p)
        PROVE  IsAlias(p) /\ alias = Sole(p)
    <2>1. alias \in StageId /\ alias \in NestedId /\ alias[1] = p /\ StagesIn[p] = {alias[2]} /\ holds[alias] # NoPipeline
      BY IdParts DEF Aliases, Id
    <2>2. IsAlias(p)
      BY <2>1 DEF IsAlias
    <2> QED BY <2>1, <2>2, AliasIsSole
  <1>2. ASSUME IsAlias(p)
        PROVE  Sole(p) \in Aliases(p)
    <2>1. /\ Sole(p) = <<p, Sole(p)[2]>> /\ StagesIn[p] = {Sole(p)[2]} /\ holds[Sole(p)] # NoPipeline
      BY <1>2, AliasIsSole
    <2>2. Sole(p) \in Id(p, StagesIn[p])
      BY <2>1 DEF Id
    <2> QED BY <2>1, <2>2 DEF Aliases
  <1> QED BY <1>1, <1>2

LEMMA TopIsNoAlias == ~IsAlias(Top) /\ ~IsAlias(NoPipeline)
  BY AliasIsSole, IdParts

LEMMA HeldIsPipeline ==
    ASSUME FlattenTypeOK, NEW id \in StageId, holds[id] # NoPipeline
    PROVE  holds[id] \in Pipeline /\ Held(id) \in Pipeline
  <1>1. \A x \in StageId : holds[x] # NoPipeline => holds[x] \in Pipeline
    BY DEF FlattenTypeOK
  <1> QED BY <1>1, AliasIsSole DEF Held

-----------------------------------------------------------------------------
(***************************************************************************)
(* The stack of ranges                                                     *)
(***************************************************************************)
LEMMA PushedRange ==
    ASSUME NEW f \in Ranging, NEW below \in Seq(Ranging)
    PROVE  /\ Push(f, below) \in Seq(Ranging)
           /\ ToSet(Push(f, below)) = ToSet(below) \cup IF f.todo = {} THEN {} ELSE {f}
  <1>1. CASE f.todo = {}
    BY <1>1 DEF Push
  <1>2. CASE f.todo # {}
    <2> DEFINE p == <<f>> \o below
    <2>1. /\ p \in Seq(Ranging) /\ p[1] = f /\ 1 \in DOMAIN p
          /\ \A i \in DOMAIN below : i + 1 \in DOMAIN p /\ p[i + 1] = below[i]
          /\ \A i \in DOMAIN p : i # 1 => i - 1 \in DOMAIN below /\ p[i] = below[i - 1]
      BY Pushed
    <2> HIDE DEF p
    <2>2. ToSet(p) = ToSet(below) \cup {f}
      BY <2>1 DEF ToSet
    <2> QED BY <1>2, <2>1, <2>2 DEF Push, p
  <1> QED BY <1>1, <1>2

LEMMA TopOfStack ==
    ASSUME FlattenTypeOK, stack # <<>>
    PROVE  /\ Current \in Ranging /\ Tail(stack) \in Seq(Ranging)
           /\ ToSet(stack) = {Current} \cup ToSet(Tail(stack))
           /\ Current.pipeline \in Pipeline \cup {Top} /\ Current.parents \in Seq(Part)
           /\ Current.todo \subseteq Part
           /\ \A f \in ToSet(stack) : f \in Ranging
  <1>1. stack \in Seq(Ranging)
    BY DEF FlattenTypeOK
  <1>2. /\ Current \in Ranging /\ Tail(stack) \in Seq(Ranging)
        /\ ToSet(stack) = {Current} \cup ToSet(Tail(stack))
    BY <1>1, TakenOff DEF Current
  <1>3. \A f \in ToSet(stack) : f \in Ranging
    BY <1>1, InSeq
  <1> QED BY <1>2, <1>3 DEF Ranging

\* What is left of the ranges once a key is taken.
LEMMA RestOfRanges ==
    ASSUME FlattenTypeOK, stack # <<>>, NEW k
    PROVE  /\ Rest(k) \in Seq(Ranging)
           /\ \A f \in ToSet(Rest(k)) : \E g \in ToSet(stack) :
                  f.pipeline = g.pipeline /\ f.parents = g.parents /\ f.todo \subseteq g.todo
           /\ \A path, c : Awaited(path, c) /\ ~(path = Current.parents /\ c = k) =>
                  \E f \in ToSet(Rest(k)) : f.parents = path /\ c \in f.todo
  <1> DEFINE f == [Current EXCEPT !.todo = @ \ {k}]
  <1>1. /\ Current \in Ranging /\ Tail(stack) \in Seq(Ranging)
        /\ ToSet(stack) = {Current} \cup ToSet(Tail(stack))
    BY TopOfStack
  <1>2. /\ f \in Ranging /\ f.pipeline = Current.pipeline /\ f.parents = Current.parents
        /\ f.todo = Current.todo \ {k}
    BY <1>1 DEF Ranging
  <1>3. Rest(k) = Push(f, Tail(stack))
    BY DEF Rest
  <1> HIDE DEF f
  <1>4. /\ Rest(k) \in Seq(Ranging)
        /\ ToSet(Rest(k)) = ToSet(Tail(stack)) \cup IF f.todo = {} THEN {} ELSE {f}
    <2>1. f \in Ranging /\ Tail(stack) \in Seq(Ranging)
      BY <1>1, <1>2
    <2> QED BY <1>3, <2>1, PushedRange
  <1>5. ASSUME NEW g \in ToSet(Rest(k))
        PROVE  \E h \in ToSet(stack) :
                   g.pipeline = h.pipeline /\ g.parents = h.parents /\ g.todo \subseteq h.todo
    BY <1>1, <1>2, <1>4
  <1>6. ASSUME NEW path, NEW c, Awaited(path, c), ~(path = Current.parents /\ c = k)
        PROVE  \E g \in ToSet(Rest(k)) : g.parents = path /\ c \in g.todo
    <2>1. PICK g \in ToSet(stack) : g.parents = path /\ c \in g.todo
      BY <1>6 DEF Awaited
    <2>2. CASE g = Current
      BY <1>2, <1>4, <1>6, <2>1, <2>2
    <2>3. CASE g \in ToSet(Tail(stack))
      BY <1>4, <2>1, <2>3
    <2> QED BY <1>1, <2>2, <2>3
  <1> QED BY <1>4, <1>5, <1>6

-----------------------------------------------------------------------------
(***************************************************************************)
(* Flatten: where stages are placed                                        *)
(***************************************************************************)
\* PlacedAt, of a given table.
PlacedIn(table, path, p) ==
    \/ path = <<Top>> /\ p = Top
    \/ /\ Len(path) > 1
       /\ \E u \in DOMAIN table :
             /\ Front(u) = Front(path)
             /\ holds[table[u].origin] # NoPipeline
             /\ Held(table[u].origin) = p
             /\ Last(u) = Last(path) \/ IsAlias(table[u].origin[1])

LEMMA PlacedNow ==
    ASSUME NEW path, NEW p
    PROVE  PlacedAt(path, p) <=> PlacedIn(flat, path, p)
  BY DEF PlacedAt, PlacedIn

LEMMA PlacedNext ==
    ASSUME holds' = holds, nodes' = nodes
    PROVE  /\ KeysArePlaced' <=>
                \A key \in DOMAIN flat' :
                    /\ Len(key) > 1
                    /\ PlacedIn(flat', Front(key), flat'[key].origin[1])
                    /\ flat'[key].origin[2] = Last(key)
                    /\ Last(key) \in Keys(flat'[key].origin[1])
           /\ RangesArePlaced' <=>
                \A f \in ToSet(stack') :
                    /\ PlacedIn(flat', f.parents, f.pipeline)
                    /\ f.todo \subseteq Keys(f.pipeline) \cup {Root}
  <1>1. /\ \A p : IsAlias(p)' <=> IsAlias(p)
        /\ \A x : Held(x)' = Held(x)
        /\ \A p : Keys(p)' = Keys(p)
    BY DEF IsAlias, Held, Keys
  <1>2. \A path, p : PlacedAt(path, p)' <=> PlacedIn(flat', path, p)
    BY <1>1 DEF PlacedAt, PlacedIn
  <1>3. KeysArePlaced' <=>
                \A key \in DOMAIN flat' :
                    /\ Len(key) > 1
                    /\ PlacedIn(flat', Front(key), flat'[key].origin[1])
                    /\ flat'[key].origin[2] = Last(key)
                    /\ Last(key) \in Keys(flat'[key].origin[1])
    BY <1>1, <1>2 DEF KeysArePlaced
  <1>4. RangesArePlaced' <=>
                \A f \in ToSet(stack') :
                    /\ PlacedIn(flat', f.parents, f.pipeline)
                    /\ f.todo \subseteq Keys(f.pipeline) \cup {Root}
    BY <1>1, <1>2 DEF RangesArePlaced
  <1> QED BY <1>3, <1>4

\* A pipeline that is only another name stands nowhere but behind another one.
LEMMA AliasBehindAlias ==
    ASSUME FlattenTypeOK, NEW path, NEW p, PlacedAt(path, p), IsAlias(p)
    PROVE  \E u \in DOMAIN flat :
               /\ flat[u].origin \in StageId /\ holds[flat[u].origin] \in Pipeline
               /\ IsAlias(holds[flat[u].origin]) /\ holds[Sole(holds[flat[u].origin])] = p
  <1>1. PICK u \in DOMAIN flat : holds[flat[u].origin] # NoPipeline /\ Held(flat[u].origin) = p
    BY TopIsNoAlias DEF PlacedAt
  <1>2. flat[u].origin \in StageId
    BY DEF FlattenTypeOK, Entry
  <1> QED BY <1>1, <1>2, HeldIsPipeline DEF Held

LEMMA SimpleNames ==
    ASSUME FlattenTypeOK, NoNameOfAName, NEW path, NEW p, PlacedAt(path, p)
    PROVE  ~IsAlias(p)
  BY AliasBehindAlias DEF NoNameOfAName

\* The stages below a path are of one pipeline.
LEMMA PlacedOnce ==
    ASSUME FlattenTypeOK, KeysArePlaced, OnePipelineBelow,
           NEW path, NEW p, NEW q, PlacedAt(path, p), PlacedAt(path, q)
    PROVE  p = q
  <1>1. CASE path = <<Top>>
    <2>1. Len(path) = 1
      BY <1>1
    <2> QED BY <2>1 DEF PlacedAt
  <1>2. CASE path # <<Top>>
    <2>1. PICK u \in DOMAIN flat :
              /\ Front(u) = Front(path) /\ Held(flat[u].origin) = p
              /\ Last(u) = Last(path) \/ IsAlias(flat[u].origin[1])
      BY <1>2 DEF PlacedAt
    <2>2. PICK v \in DOMAIN flat :
              /\ Front(v) = Front(path) /\ Held(flat[v].origin) = q
              /\ Last(v) = Last(path) \/ IsAlias(flat[v].origin[1])
      BY <1>2 DEF PlacedAt
    <2>3. flat[u].origin[1] = flat[v].origin[1]
      BY <2>1, <2>2 DEF OnePipelineBelow
    <2>4. /\ flat[u].origin \in StageId /\ flat[v].origin \in StageId
          /\ flat[u].origin[2] = Last(u) /\ flat[v].origin[2] = Last(v)
      BY DEF FlattenTypeOK, Entry, KeysArePlaced
    <2>5. flat[u].origin = flat[v].origin
      <3>1. CASE IsAlias(flat[u].origin[1])
        BY <2>3, <2>4, <3>1, AliasIsSole
      <3>2. CASE ~IsAlias(flat[u].origin[1])
        <4>1. Last(u) = Last(v)
          BY <2>1, <2>2, <2>3, <3>2
        <4> QED BY <2>3, <2>4, <4>1, IdParts
      <3> QED BY <3>1, <3>2
    <2> QED BY <2>1, <2>2, <2>5
  <1> QED BY <1>1, <1>2

\* The stage a range yields, and the name it is put under.
LEMMA Yielded ==
    ASSUME GraphInv, FlattenTypeOK, RangesArePlaced, NamesAreKept, NEW k, At(k), Found(k)
    PROVE  /\ stack # <<>> /\ Current \in ToSet(stack)
           /\ IdOf(k) \in StageId /\ IdOf(k)[1] = Current.pipeline /\ IdOf(k)[2] = NameOf(k)
           /\ NameOf(k) \in Keys(Current.pipeline) /\ NameOf(k) \in Part /\ NameOf(k) # Root
           /\ k # Root
           /\ Current.pipeline \in Pipeline \cup {Top} /\ Current.parents \in Seq(Part)
           /\ Len(Current.parents) >= 1
           /\ PlacedAt(Current.parents, Current.pipeline)
           /\ KeyOf(k) \in Seq(Part) /\ Len(KeyOf(k)) > 1
           /\ Front(KeyOf(k)) = Current.parents /\ Last(KeyOf(k)) = NameOf(k)
           /\ ~IsAlias(Current.pipeline) => NameOf(k) = k /\ stage[IdOf(k)].name = k
  <1>1. /\ stack # <<>> /\ k \in Current.todo /\ NameOf(k) \in Keys(Current.pipeline)
        /\ Current \in ToSet(stack) /\ Current \in Ranging
        /\ Current.pipeline \in Pipeline \cup {Top} /\ Current.parents \in Seq(Part)
    BY TopOfStack DEF At, Found
  <1>2. /\ NameOf(k) \in Part /\ NameOf(k) # Root /\ IdOf(k) \in StageId
        /\ IdOf(k)[1] = Current.pipeline /\ IdOf(k)[2] = NameOf(k)
    BY <1>1, KeysTyped DEF IdOf
  <1>3. k # Root
    BY <1>2 DEF NameOf
  <1>4. /\ PlacedAt(Current.parents, Current.pipeline)
        /\ k \in Keys(Current.pipeline)
    BY <1>1, <1>3 DEF RangesArePlaced
  <1>5. Len(Current.parents) >= 1
    <2> DEFINE path == Current.parents
    <2>1. path = <<Top>> \/ Len(path) > 1
      BY <1>4 DEF PlacedAt
    <2>2. path \in Seq(Part)
      BY <1>1
    <2> HIDE DEF path
    <2>3. path = <<Top>> => Len(path) = 1
      OBVIOUS
    <2>4. Len(path) \in Nat
      BY <2>2
    <2>5. Len(path) = 1 \/ Len(path) > 1
      BY <2>1, <2>3
    <2>6. Len(path) >= 1
      BY <2>4, <2>5
    <2> QED BY <2>6 DEF path
  <1>6. /\ KeyOf(k) \in Seq(Part) /\ Len(KeyOf(k)) > 1
        /\ Front(KeyOf(k)) = Current.parents /\ Last(KeyOf(k)) = NameOf(k)
    <2> DEFINE path == Current.parents
               n == NameOf(k)
    <2>1. path \in Seq(Part) /\ n \in Part /\ Len(path) >= 1 /\ KeyOf(k) = Append(path, n)
      BY <1>1, <1>2, <1>5 DEF KeyOf
    <2> HIDE DEF path, n
    <2>2. LET p == Append(path, n) IN
          p \in Seq(Part) /\ Len(p) = Len(path) + 1 /\ Len(path) \in Nat /\ Front(p) = path /\ Last(p) = n
      BY <2>1, PathWithPart
    <2> QED BY <2>1, <2>2 DEF path, n
  <1>7. ASSUME ~IsAlias(Current.pipeline)
        PROVE  NameOf(k) = k /\ stage[IdOf(k)].name = k
    <2>1. <<Current.pipeline, k>> \in StageId
      BY <1>1, <1>4, KeysTyped
    <2>2. stage[<<Current.pipeline, k>>].name = k
      BY <1>7, <2>1 DEF NamesAreKept
    <2> QED BY <2>2 DEF NameOf, IdOf
  <1> QED BY <1>1, <1>2, <1>3, <1>4, <1>5, <1>6, <1>7

\* One stage is put into the table.
Flattened(k, e) ==
    /\ At(k) /\ Found(k)
    /\ e \in Entry /\ e.origin = IdOf(k)
    /\ flat' = Put(KeyOf(k), e)
    /\ UNCHANGED <<vars, phase, holds, setBy, ownBy, rebuildVars>>

\* The ranges that are entered for it, but for those that are over at once.
Nested(k) ==
    RangeOver(Held(IdOf(k)), Append(Current.parents, stage[IdOf(k)].name),
              Keys(Held(IdOf(k))) \cup {Root}, FALSE)

Entered(k) ==
    stack' = LET below == Push(ChildrenOf(Current, NameOf(k)), Rest(k))
             IN  IF holds[IdOf(k)] = NoPipeline THEN below ELSE Push(Nested(k), below)

LEMMA PutKeeps ==
    ASSUME GraphInv, FlattenTypeOK, RangesArePlaced, KeysArePlaced, OnePipelineBelow, NamesAreKept,
           NEW k, NEW e, Flattened(k, e)
    PROVE  /\ DOMAIN flat' = DOMAIN flat \cup {KeyOf(k)} /\ flat'[KeyOf(k)] = e
           /\ \A u \in DOMAIN flat : u # KeyOf(k) => flat'[u] = flat[u]
           /\ \A u \in DOMAIN flat : flat'[u].origin = flat[u].origin
           /\ \A path, p : PlacedAt(path, p) => PlacedIn(flat', path, p)
           /\ KeysArePlaced' /\ OnePipelineBelow'
  <1> USE DEF Flattened
  <1> DEFINE key == KeyOf(k)
             id == IdOf(k)
  <1>1. /\ id \in StageId /\ id[1] = Current.pipeline /\ id[2] = NameOf(k)
        /\ NameOf(k) \in Keys(Current.pipeline)
        /\ PlacedAt(Current.parents, Current.pipeline)
        /\ key \in Seq(Part) /\ Len(key) > 1 /\ Front(key) = Current.parents /\ Last(key) = NameOf(k)
    BY Yielded
  <1>2. /\ DOMAIN flat' = DOMAIN flat \cup {key} /\ flat'[key] = e
        /\ \A u \in DOMAIN flat : u # key => flat'[u] = flat[u]
    BY DEF Put
  \* The one that is known under the name already is the same stage.
  <1>3. ASSUME NEW u \in DOMAIN flat, Front(u) = Front(key)
        PROVE  flat[u].origin[1] = id[1]
    <2>1. PlacedAt(Front(u), flat[u].origin[1])
      BY DEF KeysArePlaced
    <2> QED BY <1>1, <1>3, <2>1, PlacedOnce
  <1>4. key \in DOMAIN flat => flat[key].origin = id
    <2>1. ASSUME key \in DOMAIN flat PROVE flat[key].origin = id
      <3>1. flat[key].origin \in StageId /\ flat[key].origin[2] = Last(key)
        BY <2>1 DEF FlattenTypeOK, Entry, KeysArePlaced
      <3> QED BY <1>1, <1>3, <2>1, <3>1, IdParts
    <2> QED BY <2>1
  <1>5. \A u \in DOMAIN flat : flat'[u].origin = flat[u].origin
    BY <1>2, <1>4
  <1>6. holds' = holds /\ nodes' = nodes
    BY DEF vars, graphVars
  <1> HIDE DEF key, id
  <1>7. ASSUME NEW path, NEW p, PlacedAt(path, p)
        PROVE  PlacedIn(flat', path, p)
    BY <1>2, <1>5, <1>7 DEF PlacedAt, PlacedIn
  <1>8. KeysArePlaced'
    <2>1. ASSUME NEW u \in DOMAIN flat'
          PROVE  /\ Len(u) > 1
                 /\ PlacedIn(flat', Front(u), flat'[u].origin[1])
                 /\ flat'[u].origin[2] = Last(u)
                 /\ Last(u) \in Keys(flat'[u].origin[1])
      <3>1. CASE u = key
        <4>1. flat'[u].origin = id
          BY <1>2, <3>1 DEF id
        <4>2. PlacedIn(flat', Front(u), id[1])
          BY <1>1, <1>7, <3>1
        <4> QED BY <1>1, <3>1, <4>1, <4>2
      <3>2. CASE u # key
        <4>1. u \in DOMAIN flat /\ flat'[u].origin = flat[u].origin
          BY <1>2, <1>5, <3>2
        <4> QED BY <1>7, <4>1 DEF KeysArePlaced
      <3> QED BY <3>1, <3>2
    <2> QED BY <1>6, <2>1, PlacedNext
  <1>9. OnePipelineBelow'
    <2>1. \A u \in DOMAIN flat : Front(u) = Front(key) => flat'[u].origin[1] = id[1]
      BY <1>3, <1>5
    <2>2. flat'[key].origin = id
      BY <1>2 DEF id
    <2> QED BY <1>2, <1>5, <2>1, <2>2 DEF OnePipelineBelow
  <1> QED BY <1>2, <1>5, <1>7, <1>8, <1>9 DEF key

\* The ranges that are entered are over stages that belong there.
LEMMA EnteredArePlaced ==
    ASSUME GraphInv, FlattenTypeOK, RangesArePlaced, KeysArePlaced, OnePipelineBelow, NamesAreKept,
           NEW k, NEW e, Flattened(k, e), Entered(k)
    PROVE  /\ stack' \in Seq(Ranging)
           /\ ToSet(Rest(k)) \subseteq ToSet(stack')
           /\ ChildrenOf(Current, NameOf(k)).todo # {} => ChildrenOf(Current, NameOf(k)) \in ToSet(stack')
           /\ holds[IdOf(k)] # NoPipeline => Nested(k) \in ToSet(stack')
           /\ RangesArePlaced'
  <1> DEFINE c == ChildrenOf(Current, NameOf(k))
             n == Nested(k)
             id == IdOf(k)
             below == Push(c, Rest(k))
  <1>1. /\ id \in StageId /\ id[1] = Current.pipeline /\ id[2] = NameOf(k) /\ stack # <<>>
        /\ NameOf(k) \in Keys(Current.pipeline) /\ NameOf(k) \in Part
        /\ Current.pipeline \in Pipeline \cup {Top} /\ Current.parents \in Seq(Part)
        /\ Len(Current.parents) >= 1 /\ Current \in ToSet(stack)
        /\ PlacedAt(Current.parents, Current.pipeline)
        /\ Front(KeyOf(k)) = Current.parents /\ Last(KeyOf(k)) = NameOf(k)
        /\ ~IsAlias(Current.pipeline) => NameOf(k) = stage[id].name
    BY Yielded DEF Flattened
  <1>2. c.pipeline = Current.pipeline /\ c.parents = Current.parents /\ c.todo \subseteq Keys(Current.pipeline)
    BY <1>1, ChildrenAreKeys DEF ChildrenOf, RangeOver
  <1>3. \A p \in Pipeline \cup {Top} : Keys(p) \cup {Root} \subseteq Part
    BY KeysTyped DEF Part
  <1>4. c \in Ranging
    BY <1>1, <1>2, <1>3 DEF ChildrenOf, RangeOver, Ranging
  <1>5. stage[id].name \in Part
    BY <1>1 DEF FlattenTypeOK
  <1>6. /\ n.parents = Append(Current.parents, stage[id].name) /\ n.pipeline = Held(id)
        /\ n.todo = Keys(Held(id)) \cup {Root}
    BY DEF Nested, RangeOver
  <1>7. /\ n.parents \in Seq(Part) /\ Front(n.parents) = Current.parents
        /\ Last(n.parents) = stage[id].name /\ Len(n.parents) > 1
    <2> DEFINE path == Current.parents
               m == stage[id].name
    <2>1. path \in Seq(Part) /\ m \in Part /\ Len(path) >= 1 /\ n.parents = Append(path, m)
      BY <1>1, <1>5, <1>6
    <2> HIDE DEF path, m, n
    <2>2. LET p == Append(path, m) IN
          p \in Seq(Part) /\ Len(p) = Len(path) + 1 /\ Len(path) \in Nat /\ Front(p) = path /\ Last(p) = m
      BY <2>1, PathWithPart
    <2> QED BY <2>1, <2>2 DEF path, m
  <1>8. holds[id] # NoPipeline => n \in Ranging /\ n.todo # {}
    <2>1. ASSUME holds[id] # NoPipeline PROVE n \in Ranging /\ n.todo # {}
      <3>1. Held(id) \in Pipeline
        BY <1>1, <2>1, HeldIsPipeline
      <3> QED BY <1>3, <1>6, <1>7, <3>1 DEF Nested, RangeOver, Ranging
    <2> QED BY <2>1
  <1>9. /\ Rest(k) \in Seq(Ranging)
        /\ \A f \in ToSet(Rest(k)) : \E g \in ToSet(stack) :
               f.pipeline = g.pipeline /\ f.parents = g.parents /\ f.todo \subseteq g.todo
    BY <1>1, RestOfRanges
  <1> HIDE DEF c, n, id
  <1>10. /\ below \in Seq(Ranging)
         /\ ToSet(below) = ToSet(Rest(k)) \cup IF c.todo = {} THEN {} ELSE {c}
    BY <1>4, <1>9, PushedRange
  <1>11. stack' = IF holds[id] = NoPipeline THEN below ELSE Push(n, below)
    BY DEF Entered, c, n, id
  <1> HIDE DEF below
  <1>12. /\ stack' \in Seq(Ranging)
         /\ holds[id] = NoPipeline => ToSet(stack') = ToSet(below)
         /\ holds[id] # NoPipeline => ToSet(stack') = ToSet(below) \cup {n}
    BY <1>8, <1>10, <1>11, PushedRange
  <1>13. RangesArePlaced'
    <2>1. /\ \A path, p : PlacedAt(path, p) => PlacedIn(flat', path, p)
          /\ DOMAIN flat' = DOMAIN flat \cup {KeyOf(k)} /\ flat'[KeyOf(k)] = e
      BY PutKeeps
    <2>2. holds' = holds /\ nodes' = nodes /\ e.origin = id
      BY DEF vars, graphVars, Flattened, id
    <2>3. ASSUME NEW f \in ToSet(Rest(k))
          PROVE  PlacedIn(flat', f.parents, f.pipeline) /\ f.todo \subseteq Keys(f.pipeline) \cup {Root}
      BY <1>9, <2>1 DEF RangesArePlaced
    <2>4. PlacedIn(flat', c.parents, c.pipeline) /\ c.todo \subseteq Keys(c.pipeline) \cup {Root}
      BY <1>1, <1>2, <2>1
    <2>5. ASSUME holds[id] # NoPipeline
          PROVE  PlacedIn(flat', n.parents, n.pipeline) /\ n.todo \subseteq Keys(n.pipeline) \cup {Root}
      <3> DEFINE key == KeyOf(k)
      <3>1. /\ key \in DOMAIN flat' /\ flat'[key].origin = id
            /\ Front(key) = Front(n.parents)
            /\ Last(key) = Last(n.parents) \/ IsAlias(id[1])
        BY <1>1, <1>7, <2>1, <2>2
      <3> QED BY <1>6, <1>7, <2>5, <3>1 DEF PlacedIn
    <2> QED BY <1>10, <1>12, <2>2, <2>3, <2>4, <2>5, PlacedNext
  <1> QED BY <1>10, <1>12, <1>13 DEF c, n, id

\* What is awaited still is, but for the stage that is put into the table.
LEMMA PutMissesNothing ==
    ASSUME GraphInv, FlattenTypeOK, RangesArePlaced, KeysArePlaced, OnePipelineBelow, NamesAreKept,
           NoNameOfAName, NothingIsMissed,
           NEW k, NEW e, Flattened(k, e), Entered(k)
    PROVE  NothingIsMissed'
  <1> DEFINE id == IdOf(k)
             key == KeyOf(k)
             parents == Current.parents
  <1>1. /\ stack # <<>> /\ id \in StageId /\ id[1] = Current.pipeline
        /\ PlacedAt(parents, Current.pipeline) /\ parents \in Seq(Part)
        /\ Len(key) > 1 /\ Front(key) = parents /\ Last(key) = NameOf(k)
        /\ Current.pipeline \in Pipeline \cup {Top}
    BY Yielded DEF Flattened
  <1>2. NameOf(k) = k /\ stage[id].name = k
    BY <1>1, SimpleNames, Yielded DEF Flattened
  <1>3. /\ key = Append(parents, k)
        /\ DOMAIN flat' = DOMAIN flat \cup {key} /\ flat'[key] = e /\ e.origin = id
        /\ \A u \in DOMAIN flat : flat'[u].origin = flat[u].origin
        /\ holds' = holds /\ nodes' = nodes /\ children' = children
    BY <1>2, PutKeeps DEF KeyOf, Flattened, vars, graphVars
  <1>4. /\ ToSet(Rest(k)) \subseteq ToSet(stack')
        /\ ChildrenOf(Current, k).todo # {} => ChildrenOf(Current, k) \in ToSet(stack')
        /\ holds[id] # NoPipeline => Nested(k) \in ToSet(stack')
    BY <1>2, EnteredArePlaced
  <1>5. ASSUME NEW path, NEW c, Awaited(path, c)
        PROVE  Append(path, c) = key \/ \E f \in ToSet(stack') : f.parents = path /\ c \in f.todo
    <2>1. CASE path = parents /\ c = k
      BY <1>3, <2>1
    <2>2. CASE ~(path = parents /\ c = k)
      <3>1. \E f \in ToSet(Rest(k)) : f.parents = path /\ c \in f.todo
        BY <1>1, <1>5, <2>2, RestOfRanges
      <3> QED BY <1>4, <3>1
    <2> QED BY <2>1, <2>2
  <1>6. /\ \A p : IsAlias(p)' <=> IsAlias(p)
        /\ \A x : Held(x)' = Held(x)
        /\ \A p : Keys(p)' = Keys(p)
        /\ \A n : Children(Top, n)' = Children(Top, n)
    BY <1>3 DEF IsAlias, Held, Keys, Children
  <1> HIDE DEF id, key, parents
  <1>7. ASSUME NEW path \in DOMAIN flat', holds[flat'[path].origin] # NoPipeline, path # <<Top>>,
               NEW c \in Keys(Held(flat'[path].origin))
        PROVE  Append(path, c) \in DOMAIN flat' \/ \E f \in ToSet(stack') : f.parents = path /\ c \in f.todo
    <2>1. CASE path = key
      <3>1. flat'[path].origin = id
        BY <1>3, <2>1
      <3>2. Nested(k) \in ToSet(stack') /\ c \in Keys(Held(id))
        BY <1>4, <1>7, <3>1
      <3>3. Nested(k).parents = key /\ c \in Nested(k).todo
        BY <1>2, <1>3, <3>2 DEF Nested, RangeOver, id, parents
      <3> QED BY <2>1, <3>2, <3>3
    <2>2. CASE path # key
      <3>1. path \in DOMAIN flat /\ flat'[path].origin = flat[path].origin
        BY <1>3, <2>2
      <3>2. path \in Paths \ {<<Top>>} /\ c \in Keys(PipelineAt(path))
        BY <1>7, <3>1 DEF Paths, PipelineAt
      <3>3. Append(path, c) \in DOMAIN flat \/ Awaited(path, c)
        BY <3>2 DEF NothingIsMissed
      <3> QED BY <1>3, <1>5, <3>3
    <2> QED BY <2>1, <2>2
  <1>8. ASSUME NEW n \in nodes, n = Root \/ <<Top, n>> \in DOMAIN flat', NEW c \in Children(Top, n)
        PROVE  <<Top, c>> \in DOMAIN flat' \/ \E f \in ToSet(stack') : f.parents = <<Top>> /\ c \in f.todo
    <2>1. CASE n = Root \/ <<Top, n>> \in DOMAIN flat
      <3>1. <<Top, c>> \in DOMAIN flat \/ Awaited(<<Top>>, c)
        BY <2>1 DEF NothingIsMissed
      <3> DEFINE top == <<Top>>
      <3>2. Append(top, c) = <<Top, c>>
        BY TopPath
      <3>3. Awaited(top, c) =>
                Append(top, c) = key \/ \E f \in ToSet(stack') : f.parents = top /\ c \in f.todo
        BY <1>5
      <3> QED BY <1>3, <3>1, <3>2, <3>3
    <2>2. CASE <<Top, n>> = key
      <3>1. parents = <<Top>> /\ n = k
        <4>1. Front(<<Top, n>>) = <<Top>> /\ Last(<<Top, n>>) = n
          BY TopPath
        <4> QED BY <1>1, <1>2, <2>2, <4>1 DEF key, parents
      <3>2. Current.pipeline = Top
        <4>1. Len(<<Top>>) = 1
          OBVIOUS
        <4> QED BY <1>1, <3>1, <4>1 DEF PlacedAt, parents
      <3>3. /\ ChildrenOf(Current, k).todo = Children(Top, n)
            /\ ChildrenOf(Current, k).parents = <<Top>>
        BY <3>1, <3>2 DEF ChildrenOf, RangeOver, parents
      <3> QED BY <1>4, <3>3
    <2> QED BY <1>3, <1>8, <2>1, <2>2
  <1>9. \A path \in Paths' \ {<<Top>>} :
            /\ path \in DOMAIN flat' /\ holds[flat'[path].origin] # NoPipeline
            /\ PipelineAt(path)' = Held(flat'[path].origin)
    BY <1>3, <1>6 DEF Paths, PipelineAt
  <1>10. \A path \in Paths' \ {<<Top>>} : \A c \in Keys(Held(flat'[path].origin)) :
            Append(path, c) \in DOMAIN flat' \/ \E f \in ToSet(stack') : f.parents = path /\ c \in f.todo
    BY <1>7, <1>9
  <1>11. ASSUME NEW path \in Paths' \ {<<Top>>}
         PROVE  Keys(PipelineAt(path))' = Keys(Held(flat'[path].origin))
    BY <1>6, <1>9
  <1>12. \A path, c : Awaited(path, c)' <=> \E f \in ToSet(stack') : f.parents = path /\ c \in f.todo
    BY DEF Awaited
  <1>13. \A path \in Paths' \ {<<Top>>} : \A c \in Keys(PipelineAt(path))' :
            Append(path, c) \in DOMAIN flat' \/ Awaited(path, c)'
    BY <1>10, <1>11, <1>12
  <1>14. \A n \in nodes' : n = Root \/ <<Top, n>> \in DOMAIN flat' =>
            \A c \in Children(Top, n)' : <<Top, c>> \in DOMAIN flat' \/ Awaited(<<Top>>, c)'
    BY <1>3, <1>6, <1>8, <1>12
  <1> QED BY <1>13, <1>14 DEF NothingIsMissed

\* What is put into the table keeps it well-formed, whatever the stage is left as.
LEMMA PutIsTyped ==
    ASSUME GraphInv, FlattenTypeOK, RangesArePlaced, KeysArePlaced, OnePipelineBelow, NamesAreKept,
           NEW k, NEW e, Flattened(k, e), Entered(k),
           stage' \in [StageId -> [name : Part, env : Value, dependsOn : SUBSET Seq(Part)]]
    PROVE  FlattenTypeOK'
  <1>1. /\ holds' = holds /\ setBy' = setBy /\ ownBy' = ownBy /\ e \in Entry
    BY DEF Flattened
  <1>2. stack' \in Seq(Ranging)
    BY EnteredArePlaced
  <1>3. /\ DOMAIN flat' = DOMAIN flat \cup {KeyOf(k)} /\ flat'[KeyOf(k)] = e
        /\ \A u \in DOMAIN flat : u # KeyOf(k) => flat'[u] = flat[u]
    BY DEF Flattened, Put
  <1>4. KeyOf(k) \in Seq(Part)
    BY Yielded DEF Flattened
  <1> QED BY <1>1, <1>2, <1>3, <1>4 DEF FlattenTypeOK

\* A copy of a stage with its names cascaded.
LEMMA CloneIsTyped ==
    ASSUME FlattenTypeOK, NEW id \in StageId, NEW parents \in Seq(Part)
    PROVE  LET e == FromStage(id, parents) IN
           /\ e \in Entry /\ e.origin = id /\ e.env = stage[id].env
           /\ e.taskEnv = IF id \in ownBy THEN Own ELSE Unset
  <1> DEFINE e == FromStage(id, parents)
  <1>1. /\ stage[id].env \in Value /\ stage[id].dependsOn \subseteq Seq(Part)
    BY DEF FlattenTypeOK
  <1>2. \A d \in Seq(Part) : CascadeName(parents, d) \in Seq(Part)
    BY DEF CascadeName
  <1>4. e = [origin |-> id, env |-> stage[id].env,
             taskEnv |-> IF id \in ownBy THEN Own ELSE Unset,
             dependsOn |-> {CascadeName(parents, d) : d \in stage[id].dependsOn}]
    BY DEF FromStage
  <1> HIDE DEF e
  <1>5. e.dependsOn \subseteq Seq(Part)
    BY <1>1, <1>2, <1>4
  <1>6. e \in Entry
    BY <1>1, <1>4, <1>5 DEF Entry
  <1> QED BY <1>4, <1>6 DEF e

LEMMA CloneDependsOn ==
    ASSUME NEW id, NEW parents \in Seq(Part), NEW D, stage[id].dependsOn = {<<d>> : d \in D}
    PROVE  FromStage(id, parents).dependsOn = {Append(parents, d) : d \in D}
  <1>1. FromStage(id, parents).dependsOn = {CascadeName(parents, x) : x \in {<<d>> : d \in D}}
    BY DEF FromStage
  <1>2. \A d : CascadeName(parents, <<d>>) = Append(parents, d)
    BY DEF CascadeName
  <1> QED BY <1>1, <1>2

-----------------------------------------------------------------------------
(***************************************************************************)
(* Flatten: every action                                                   *)
(***************************************************************************)
\* A task, or a stage whose pipeline is looked at as it is.
LEMMA PutPlainKeeps ==
    ASSUME GraphInv, TablesInv, NEW k, At(k), Found(k),
           holds[IdOf(k)] = NoPipeline \/ ~IsAlias(holds[IdOf(k)]),
           flat' = Put(KeyOf(k), FromStage(IdOf(k), Current.parents)), Entered(k),
           UNCHANGED <<vars, phase, holds, setBy, ownBy, stage, rebuildVars>>
    PROVE  TablesInv'
  <1> USE DEF TablesInv
  <1> DEFINE id == IdOf(k)
             e == FromStage(id, Current.parents)
  <1>1. /\ id \in StageId /\ id[1] = Current.pipeline /\ Current.parents \in Seq(Part)
        /\ Front(KeyOf(k)) = Current.parents
        /\ PlacedAt(Current.parents, Current.pipeline)
    BY Yielded
  <1>2. /\ e \in Entry /\ e.origin = id /\ e.env = stage[id].env
        /\ e.taskEnv = IF id \in ownBy THEN Own ELSE Unset
    BY <1>1, CloneIsTyped
  <1>3. Flattened(k, e)
    BY <1>2 DEF Flattened
  <1>4. /\ DOMAIN flat' = DOMAIN flat \cup {KeyOf(k)} /\ flat'[KeyOf(k)] = e
        /\ \A u \in DOMAIN flat : u # KeyOf(k) => flat'[u] = flat[u]
        /\ \A u \in DOMAIN flat : flat'[u].origin = flat[u].origin
        /\ KeysArePlaced' /\ OnePipelineBelow'
    <2>1. flat' = Put(KeyOf(k), e)
      BY <1>3 DEF Flattened
    <2>2. /\ \A u \in DOMAIN flat : flat'[u].origin = flat[u].origin
          /\ KeysArePlaced' /\ OnePipelineBelow'
      BY <1>3, PutKeeps
    <2> QED BY <2>1, <2>2 DEF Put
  <1>5. RangesArePlaced'
    BY <1>3, EnteredArePlaced
  <1>6. FlattenTypeOK'
    <2>1. stage' \in [StageId -> [name : Part, env : Value, dependsOn : SUBSET Seq(Part)]]
      BY DEF FlattenTypeOK
    <2> QED BY <1>3, <2>1, PutIsTyped
  <1>7. /\ holds' = holds /\ setBy' = setBy /\ ownBy' = ownBy /\ stage' = stage /\ dependsOn' = dependsOn
        /\ \A p : IsAlias(p)' <=> IsAlias(p)
        /\ \A x : DependenciesOf(x)' = DependenciesOf(x)
        /\ \A x : SharedStage(x)' = SharedStage(x) /\ SourcesOf(x)' = SourcesOf(x)
    BY DEF IsAlias, DependenciesOf, SharedStage, SourcesOf, vars, graphVars
  <1>8. NamesAreKept'
    BY <1>4, <1>7 DEF NamesAreKept
  <1>9. ~IsAlias(id[1]) => e.dependsOn = {Append(Current.parents, d) : d \in DependenciesOf(id)}
    <2>1. ASSUME ~IsAlias(id[1]) PROVE stage[id].dependsOn = {<<d>> : d \in DependenciesOf(id)}
      BY <1>1, <2>1 DEF DependenciesAreKept
    <2> QED BY <1>1, <2>1, CloneDependsOn
  <1> HIDE DEF e, id
  <1>10. DependenciesAreKept'
    <2>1. ASSUME NEW key \in DOMAIN flat', ~IsAlias(flat'[key].origin[1])
          PROVE  flat'[key].dependsOn = {Append(Front(key), d) : d \in DependenciesOf(flat'[key].origin)}
      <3>1. CASE key = KeyOf(k)
        BY <1>1, <1>2, <1>4, <1>9, <2>1, <3>1
      <3>2. CASE key # KeyOf(k)
        BY <1>4, <2>1, <3>2 DEF DependenciesAreKept
      <3> QED BY <3>1, <3>2
    <2>2. \A x \in StageId :
              ~IsAlias(x[1]) => stage[x].dependsOn = {<<d>> : d \in DependenciesOf(x)}
      BY DEF DependenciesAreKept
    <2> QED BY <1>7, <2>1, <2>2 DEF DependenciesAreKept
  <1>11. NoNameOfAName' => NoNameOfAName
    BY <1>7 DEF NoNameOfAName
  <1>12. ASSUME NoNameOfAName PROVE NothingIsMissed'
    BY <1>3, <1>12, PutMissesNothing
  <1>13. ASSUME NoNameOfAName PROVE EnvsHaveSource'
    <2>1. ~IsAlias(id[1]) /\ SharedStage(id) = {}
      BY <1>1, <1>13, SimpleNames, TopIsNoAlias DEF SharedStage, id
    <2>2. /\ e.env # Unset => e.env \in setBy \cap SourcesOf(id)
          /\ ({id} \cup SharedStage(id)) \cap setBy # {} => e.env # Unset
      BY <1>1, <1>2, <1>13, <2>1 DEF EnvsHaveSource, SourcesOf
    <2>3. \A key \in DOMAIN flat' :
              /\ flat'[key].env # Unset => flat'[key].env \in setBy \cap SourcesOf(flat'[key].origin)
              /\ ({flat'[key].origin} \cup SharedStage(flat'[key].origin)) \cap setBy # {}
                    => flat'[key].env # Unset
              /\ flat'[key].taskEnv = IF flat'[key].origin \in ownBy THEN Own ELSE Unset
      BY <1>2, <1>4, <1>13, <2>2 DEF EnvsHaveSource
    <2>4. \A x \in StageId :
              /\ x \in setBy => stage[x].env # Unset
              /\ stage[x].env # Unset =>
                    /\ stage[x].env \in setBy
                    /\ stage[x].env # x => IsAlias(x[1]) /\ holds[stage[x].env] = x[1]
      BY <1>13 DEF EnvsHaveSource
    <2> QED BY <1>7, <2>3, <2>4 DEF EnvsHaveSource
  <1> QED BY <1>4, <1>5, <1>6, <1>8, <1>10, <1>11, <1>12, <1>13

LEMMA FlattenTaskKeeps ==
    ASSUME GraphInv, TablesInv, NEW k, FlattenTask(k)
    PROVE  TablesInv'
  <1>1. Entered(k)
    BY DEF FlattenTask, Entered
  <1> QED BY <1>1, PutPlainKeeps DEF FlattenTask

LEMMA FlattenPipelineKeeps ==
    ASSUME GraphInv, TablesInv, NEW k, FlattenPipeline(k)
    PROVE  TablesInv'
  <1>1. IdOf(k) \in StageId /\ holds[IdOf(k)] # NoPipeline /\ IdOf(k)[2] = NameOf(k)
    BY Yielded DEF FlattenPipeline, TablesInv
  <1>2. ~IsAlias(holds[IdOf(k)])
    BY <1>1, HeldIsPipeline, AliasesAreSole DEF FlattenPipeline, TablesInv
  <1>3. Entered(k)
    BY <1>1, <1>2 DEF FlattenPipeline, Entered, Nested, Held
  <1> QED BY <1>2, <1>3, PutPlainKeeps DEF FlattenPipeline

\* The stage behind the name is given the other's name and environment.
LEMMA FlattenAliasKeeps ==
    ASSUME GraphInv, TablesInv, NEW k, FlattenAlias(k)
    PROVE  TablesInv'
  <1> USE DEF TablesInv
  <1> DEFINE id == IdOf(k)
             clone == FromStage(id, Current.parents)
  <1>0. At(k) /\ Found(k) /\ holds[id] # NoPipeline
        /\ UNCHANGED <<vars, phase, holds, setBy, ownBy, rebuildVars>>
    BY DEF FlattenAlias
  <1>1. /\ id \in StageId /\ id[1] = Current.pipeline /\ id[2] = NameOf(k)
        /\ Current.parents \in Seq(Part)
        /\ Front(KeyOf(k)) = Current.parents
        /\ PlacedAt(Current.parents, Current.pipeline)
    BY <1>0, Yielded
  <1>2. /\ clone \in Entry /\ clone.origin = id /\ clone.env = stage[id].env
        /\ clone.taskEnv = IF id \in ownBy THEN Own ELSE Unset
    BY <1>1, CloneIsTyped
  <1> DEFINE p == holds[id]
             alias == Sole(p)
             env == Merge(stage[alias].env, stage[id].env)
             new == [name |-> stage[id].name, env |-> env, dependsOn |-> clone.dependsOn]
             e == [clone EXCEPT !.env = Merge(@, env)]
  <1>3. /\ IsAlias(p) /\ p \in Pipeline
        /\ stage' = [stage EXCEPT ![alias] = new]
        /\ flat' = Put(KeyOf(k), e)
        /\ Entered(k)
    <2>1. PICK a \in Aliases(p) :
              /\ stage' = [stage EXCEPT ![a] =
                     [name |-> NewName(id, a), env |-> Merge(stage[a].env, stage[id].env),
                      dependsOn |-> clone.dependsOn]]
              /\ flat' = Put(KeyOf(k), [clone EXCEPT !.env = Merge(@, Merge(stage[a].env, stage[id].env))])
              /\ stack' = Push(RangeOver(holds[a], Append(Current.parents, NewName(id, a)),
                                         Keys(holds[a]) \cup {Root}, FALSE),
                               Push(ChildrenOf(Current, id[2]), Rest(k)))
      BY DEF FlattenAlias
    <2>2. p \in Pipeline
      BY <1>0, <1>1, HeldIsPipeline
    <2>3. IsAlias(p) /\ a = alias
      BY <2>1, <2>2, AliasesAreSole
    <2>4. Held(id) = holds[alias]
      BY <2>3 DEF Held
    <2>5. Entered(k)
      BY <1>0, <1>1, <2>1, <2>3, <2>4 DEF Entered, Nested, NewName
    <2> QED BY <2>1, <2>2, <2>3, <2>5 DEF NewName
  <1>4. /\ alias \in StageId /\ alias[1] = p /\ IsAlias(alias[1])
        /\ stage[alias].env \in Value /\ stage[id].env \in Value /\ stage[id].name \in Part
        /\ env \in Value
    BY <1>1, <1>3, AliasIsSole DEF FlattenTypeOK, Merge
  <1>5. /\ e \in Entry /\ e.origin = id /\ e.env = Merge(stage[id].env, env)
        /\ e.taskEnv = clone.taskEnv /\ e.dependsOn = clone.dependsOn
        /\ clone.dependsOn \in SUBSET Seq(Part)
    BY <1>2, <1>4 DEF Entry, Merge
  <1>6. new \in [name : Part, env : Value, dependsOn : SUBSET Seq(Part)]
    BY <1>4, <1>5
  <1>7. /\ stage' \in [StageId -> [name : Part, env : Value, dependsOn : SUBSET Seq(Part)]]
        /\ stage'[alias] = new
        /\ \A x \in StageId : x # alias => stage'[x] = stage[x]
    BY <1>3, <1>4, <1>6 DEF FlattenTypeOK
  <1>8. Flattened(k, e)
    BY <1>0, <1>3, <1>5 DEF Flattened
  <1> HIDE DEF e
  <1>9. /\ DOMAIN flat' = DOMAIN flat \cup {KeyOf(k)} /\ flat'[KeyOf(k)] = e
        /\ \A u \in DOMAIN flat : u # KeyOf(k) => flat'[u] = flat[u]
        /\ \A u \in DOMAIN flat : flat'[u].origin = flat[u].origin
        /\ KeysArePlaced' /\ OnePipelineBelow'
    <2>1. flat' = Put(KeyOf(k), e)
      BY <1>8 DEF Flattened
    <2>2. /\ \A u \in DOMAIN flat : flat'[u].origin = flat[u].origin
          /\ KeysArePlaced' /\ OnePipelineBelow'
      BY <1>8, PutKeeps
    <2> QED BY <2>1, <2>2 DEF Put
  <1>10. RangesArePlaced'
    BY <1>3, <1>8, EnteredArePlaced
  <1>11. FlattenTypeOK'
    BY <1>3, <1>7, <1>8, PutIsTyped
  <1>12. /\ holds' = holds /\ setBy' = setBy /\ ownBy' = ownBy /\ dependsOn' = dependsOn
         /\ \A q : IsAlias(q)' <=> IsAlias(q)
         /\ \A x : DependenciesOf(x)' = DependenciesOf(x)
         /\ \A x : SharedStage(x)' = SharedStage(x) /\ SourcesOf(x)' = SourcesOf(x)
    BY <1>0 DEF IsAlias, DependenciesOf, SharedStage, SourcesOf, vars, graphVars
  <1>13. ~IsAlias(id[1]) => e.dependsOn = {Append(Current.parents, d) : d \in DependenciesOf(id)}
    <2>1. ASSUME ~IsAlias(id[1]) PROVE stage[id].dependsOn = {<<d>> : d \in DependenciesOf(id)}
      BY <1>1, <2>1 DEF DependenciesAreKept
    <2>2. ASSUME ~IsAlias(id[1]) PROVE clone.dependsOn = {Append(Current.parents, d) : d \in DependenciesOf(id)}
      BY <1>1, <2>1, <2>2, CloneDependsOn
    <2> QED BY <1>5, <2>2
  <1>14. new.name = stage[id].name /\ new.env = env /\ p = holds[id]
    OBVIOUS
  <1> HIDE DEF id, clone, new, env, alias, p
  <1>15. NamesAreKept'
    <2>1. ASSUME NEW x \in StageId, stage'[x].name # x[2]
          PROVE  IsAlias(x[1]) /\ \E u \in DOMAIN flat' : holds[flat'[u].origin] = x[1]
      <3>1. CASE x = alias
        BY <1>4, <1>5, <1>9, <1>14, <3>1
      <3>2. CASE x # alias
        BY <1>7, <1>9, <2>1, <3>2 DEF NamesAreKept
      <3> QED BY <3>1, <3>2
    <2> QED BY <1>12, <2>1 DEF NamesAreKept
  <1>16. DependenciesAreKept'
    <2>1. ASSUME NEW key \in DOMAIN flat', ~IsAlias(flat'[key].origin[1])
          PROVE  flat'[key].dependsOn = {Append(Front(key), d) : d \in DependenciesOf(flat'[key].origin)}
      <3>1. CASE key = KeyOf(k)
        BY <1>1, <1>5, <1>9, <1>13, <2>1, <3>1
      <3>2. CASE key # KeyOf(k)
        BY <1>9, <2>1, <3>2 DEF DependenciesAreKept
      <3> QED BY <3>1, <3>2
    <2>2. \A x \in StageId :
              ~IsAlias(x[1]) => stage'[x].dependsOn = {<<d>> : d \in DependenciesOf(x)}
      BY <1>4, <1>7 DEF DependenciesAreKept
    <2> QED BY <1>12, <2>1, <2>2 DEF DependenciesAreKept
  <1>17. NoNameOfAName' => NoNameOfAName
    BY <1>12 DEF NoNameOfAName
  <1>18. ASSUME NoNameOfAName PROVE NothingIsMissed'
    BY <1>3, <1>8, <1>18, PutMissesNothing
  <1>19. ASSUME NoNameOfAName PROVE EnvsHaveSource'
    <2>0. /\ \A x \in StageId :
              /\ x \in setBy => stage[x].env # Unset
              /\ stage[x].env # Unset =>
                    /\ stage[x].env \in setBy
                    /\ stage[x].env # x => IsAlias(x[1]) /\ holds[stage[x].env] = x[1]
          /\ setBy \subseteq StageId
      BY <1>19 DEF EnvsHaveSource, FlattenTypeOK
    <2>1. ~IsAlias(id[1]) /\ SharedStage(id) = {alias} /\ IsAlias(holds[id])
      <3>1. SharedStage(id) = {alias} /\ IsAlias(holds[id])
        BY <1>3, <1>14 DEF SharedStage, alias
      <3> QED BY <1>1, <1>19, <3>1, SimpleNames
    <2>2. env = IF stage[id].env = Unset THEN stage[alias].env ELSE id
      BY <1>1, <2>0, <2>1 DEF env, Merge
    <2>3. stage[id].env = Unset \/ stage[id].env = id
      BY <1>1, <2>0, <2>1
    <2>4. /\ env # Unset => env \in setBy /\ (env # alias => holds[env] = p)
          /\ alias \in setBy \/ id \in setBy => env # Unset
      BY <1>1, <1>4, <1>14, <2>0, <2>2, <2>3
    <2>5. e.env = env
      BY <1>5, <2>2, <2>3 DEF Merge
    <2>6. env \in setBy => env \in SourcesOf(id)
      <3>1. CASE env = alias
        BY <2>1, <3>1 DEF SourcesOf
      <3>2. CASE env # alias
        <4>1. ASSUME env \in setBy PROVE env \in StageId /\ holds[env] = holds[id]
          BY <1>14, PipelineAssumption, <2>0, <2>4, <3>2, <4>1
        <4> QED BY <2>1, <4>1 DEF SourcesOf
      <3> QED BY <3>1, <3>2
    <2>7. \A key \in DOMAIN flat' :
              /\ flat'[key].env # Unset => flat'[key].env \in setBy \cap SourcesOf(flat'[key].origin)
              /\ ({flat'[key].origin} \cup SharedStage(flat'[key].origin)) \cap setBy # {}
                    => flat'[key].env # Unset
              /\ flat'[key].taskEnv = IF flat'[key].origin \in ownBy THEN Own ELSE Unset
      BY <1>2, <1>5, <1>9, <1>19, <2>1, <2>4, <2>5, <2>6 DEF EnvsHaveSource
    <2>8. \A x \in StageId :
              /\ x \in setBy => stage'[x].env # Unset
              /\ stage'[x].env # Unset =>
                    /\ stage'[x].env \in setBy
                    /\ stage'[x].env # x => IsAlias(x[1]) /\ holds[stage'[x].env] = x[1]
      BY <1>4, <1>7, <1>14, <2>0, <2>4
    <2> QED BY <1>12, <2>7, <2>8 DEF EnvsHaveSource
  <1> QED BY <1>9, <1>10, <1>11, <1>15, <1>16, <1>17, <1>18, <1>19

LEMMA EnvsUntouched ==
    ASSUME EnvsHaveSource, UNCHANGED <<holds, setBy, ownBy, stage, flat>>
    PROVE  EnvsHaveSource'
  <1>1. \A p : IsAlias(p)' <=> IsAlias(p)
    BY DEF IsAlias
  <1>2. \A id : SharedStage(id)' = SharedStage(id)
    BY <1>1 DEF SharedStage
  <1>3. \A id : SourcesOf(id)' = SourcesOf(id)
    BY <1>1, <1>2 DEF SourcesOf
  <1> QED BY <1>1, <1>2, <1>3 DEF EnvsHaveSource

\* The range over the children of the root node comes next.
LEMMA FlattenRootKeeps ==
    ASSUME GraphInv, TablesInv, FlattenRoot
    PROVE  TablesInv'
  <1> USE DEF TablesInv
  <1> DEFINE c == ChildrenOf(Current, Root)
  <1>1. /\ stack # <<>> /\ Root \in Current.todo /\ stack' = Push(c, Rest(Root))
        /\ UNCHANGED <<vars, phase, holds, setBy, ownBy, stage, flat, rebuildVars>>
    BY DEF FlattenRoot, At
  <1>2. /\ Current.pipeline \in Pipeline \cup {Top} /\ Current.parents \in Seq(Part)
        /\ Current \in ToSet(stack)
    BY <1>1, TopOfStack
  <1>3. /\ c.pipeline = Current.pipeline /\ c.parents = Current.parents
        /\ c.todo \subseteq Keys(Current.pipeline)
    BY <1>2, ChildrenAreKeys DEF ChildrenOf, RangeOver
  <1>4. c \in Ranging
    <2>1. Keys(Current.pipeline) \subseteq Part
      BY <1>2, KeysTyped
    <2> QED BY <1>2, <1>3, <2>1 DEF ChildrenOf, RangeOver, Ranging
  <1> HIDE DEF c
  <1>5. /\ Rest(Root) \in Seq(Ranging)
        /\ \A f \in ToSet(Rest(Root)) : \E g \in ToSet(stack) :
               f.pipeline = g.pipeline /\ f.parents = g.parents /\ f.todo \subseteq g.todo
        /\ \A path, n : Awaited(path, n) /\ ~(path = Current.parents /\ n = Root) =>
               \E f \in ToSet(Rest(Root)) : f.parents = path /\ n \in f.todo
    BY <1>1, RestOfRanges
  <1>6. /\ stack' \in Seq(Ranging)
        /\ ToSet(stack') = ToSet(Rest(Root)) \cup IF c.todo = {} THEN {} ELSE {c}
    BY <1>1, <1>4, <1>5, PushedRange
  <1>7. /\ holds' = holds /\ setBy' = setBy /\ ownBy' = ownBy /\ stage' = stage /\ flat' = flat
        /\ nodes' = nodes /\ children' = children /\ dependsOn' = dependsOn
    BY <1>1 DEF vars, graphVars
  <1>8. FlattenTypeOK'
    BY <1>6, <1>7 DEF FlattenTypeOK
  <1>9. RangesArePlaced'
    <2>1. ASSUME NEW f \in ToSet(stack')
          PROVE  PlacedIn(flat', f.parents, f.pipeline) /\ f.todo \subseteq Keys(f.pipeline) \cup {Root}
      <3>1. PICK g \in ToSet(stack) : f.pipeline = g.pipeline /\ f.parents = g.parents
                                      /\ f.todo \subseteq g.todo \cup Keys(g.pipeline)
        BY <1>2, <1>3, <1>5, <1>6
      <3>2. PlacedIn(flat, g.parents, g.pipeline) /\ g.todo \subseteq Keys(g.pipeline) \cup {Root}
        BY PlacedNow DEF RangesArePlaced
      <3> QED BY <1>7, <3>1, <3>2
    <2> QED BY <1>7, <2>1, PlacedNext
  <1>10. ASSUME NothingIsMissed PROVE NothingIsMissed'
    <2>1. ASSUME NEW path, NEW n, Awaited(path, n), n # Root
          PROVE  \E f \in ToSet(stack') : f.parents = path /\ n \in f.todo
      BY <1>5, <1>6, <2>1
    <2>2. /\ \A p \in Pipeline \cup {Top} : Root \notin Keys(p)
          /\ \A n \in nodes : Root \notin Children(Top, n)
      <3>1. \A p \in Pipeline \cup {Top} : Root \notin Keys(p)
        BY KeysTyped
      <3>2. \A n \in nodes : Children(Top, n) \subseteq Keys(Top)
        BY ChildrenAreKeys DEF Keys
      <3> QED BY <3>1, <3>2
    <2>3. ASSUME NEW path \in Paths \ {<<Top>>} PROVE Root \notin Keys(PipelineAt(path))
      <3>1. flat[path].origin \in StageId /\ holds[flat[path].origin] # NoPipeline
        BY DEF Paths, FlattenTypeOK, Entry
      <3> QED BY <2>2, <3>1, HeldIsPipeline DEF PipelineAt
    <2>4. \A path \in Paths \ {<<Top>>} : \A k \in Keys(PipelineAt(path)) :
              Append(path, k) \in DOMAIN flat \/ \E f \in ToSet(stack') : f.parents = path /\ k \in f.todo
      BY <1>10, <2>1, <2>3 DEF NothingIsMissed
    <2>5. \A n \in nodes : n = Root \/ <<Top, n>> \in DOMAIN flat =>
              \A k \in Children(Top, n) :
                  <<Top, k>> \in DOMAIN flat \/ \E f \in ToSet(stack') : f.parents = <<Top>> /\ k \in f.todo
      BY <1>10, <2>1, <2>2 DEF NothingIsMissed
    <2>6. /\ Paths' = Paths
          /\ \A path : Keys(PipelineAt(path))' = Keys(PipelineAt(path))
          /\ \A n : Children(Top, n)' = Children(Top, n)
      BY <1>7 DEF Paths, PipelineAt, Held, IsAlias, Keys, Children
    <2> QED BY <1>7, <2>4, <2>5, <2>6 DEF NothingIsMissed, Awaited
  <1>11. NamesAreKept' /\ OnePipelineBelow'
    BY <1>7 DEF NamesAreKept, OnePipelineBelow, IsAlias
  <1>12. KeysArePlaced'
    <2>1. \A key \in DOMAIN flat : PlacedIn(flat, Front(key), flat[key].origin[1])
      BY PlacedNow DEF KeysArePlaced
    <2> QED BY <1>7, <2>1, PlacedNext DEF KeysArePlaced
  <1>13. DependenciesAreKept'
    BY <1>7 DEF DependenciesAreKept, DependenciesOf, IsAlias
  <1>14. EnvsHaveSource => EnvsHaveSource'
    BY <1>7, EnvsUntouched
  <1>15. NoNameOfAName' => NoNameOfAName
    BY <1>7 DEF NoNameOfAName, IsAlias
  <1> QED BY <1>8, <1>9, <1>10, <1>11, <1>12, <1>13, <1>14, <1>15

LEMMA TablesUntouched ==
    ASSUME TablesInv, UNCHANGED vars, UNCHANGED <<holds, setBy, ownBy, stage, stack, flat>>
    PROVE  TablesInv'
  <1> USE DEF TablesInv
  <1>1. nodes' = nodes /\ children' = children /\ dependsOn' = dependsOn
    BY DEF vars, graphVars
  <1>2. /\ Paths' = Paths
        /\ \A path : Keys(PipelineAt(path))' = Keys(PipelineAt(path))
        /\ \A n : Children(Top, n)' = Children(Top, n)
        /\ \A path, k : Awaited(path, k)' <=> Awaited(path, k)
    BY <1>1 DEF Paths, PipelineAt, Held, IsAlias, Keys, Children, Awaited
  <1>3. FlattenTypeOK'
    BY DEF FlattenTypeOK
  <1>10. NamesAreKept' /\ OnePipelineBelow'
    BY DEF NamesAreKept, OnePipelineBelow, IsAlias
  <1>4. KeysArePlaced'
    <2>1. \A key \in DOMAIN flat : PlacedIn(flat, Front(key), flat[key].origin[1])
      BY PlacedNow DEF KeysArePlaced
    <2> QED BY <1>1, <2>1, PlacedNext DEF KeysArePlaced
  <1>5. RangesArePlaced'
    <2>1. \A f \in ToSet(stack) : PlacedIn(flat, f.parents, f.pipeline)
      BY PlacedNow DEF RangesArePlaced
    <2> QED BY <1>1, <2>1, PlacedNext DEF RangesArePlaced
  <1>6. DependenciesAreKept'
    BY <1>1 DEF DependenciesAreKept, DependenciesOf, IsAlias
  <1>7. EnvsHaveSource => EnvsHaveSource'
    BY EnvsUntouched
  <1>8. NothingIsMissed => NothingIsMissed'
    BY <1>1, <1>2 DEF NothingIsMissed
  <1>9. NoNameOfAName' => NoNameOfAName
    BY DEF NoNameOfAName, IsAlias
  <1> QED BY <1>3, <1>4, <1>5, <1>6, <1>7, <1>8, <1>9, <1>10

LEMMA BeginKeeps ==
    ASSUME GraphInv, flat = <<>>, Begin
    PROVE  TablesInv'
  <1>0. /\ nodes' = nodes /\ children' = children /\ dependsOn' = dependsOn /\ flat' = <<>>
        /\ GraphTypeOK
    BY DEF Begin, vars, graphVars, GraphInv
  <1>1. PICK by \in Setters, own \in Owners,
             h \in {f \in [StageId -> Pipeline \cup {NoPipeline}] : \A id \in StageId : f[id] \in MayHold[id]} :
          /\ holds' = h
          /\ setBy' = by
          /\ ownBy' = {id \in own : h[id] = NoPipeline}
          /\ stage' = [id \in StageId |->
                [name |-> id[2],
                 env |-> IF id \in by THEN id ELSE Unset,
                 dependsOn |-> {<<d>> : d \in IF id[1] = Top THEN dependsOn[id[2]] ELSE Needs[id]}]]
    BY DEF Begin
  <1>2. holds' \in [StageId -> Pipeline \cup {NoPipeline}] /\ setBy' = by /\ ownBy' \subseteq StageId
        /\ by \subseteq StageId
    BY <1>1, PipelineAssumption
  <1>3. \A id \in StageId :
            /\ stage'[id].name = id[2]
            /\ stage'[id].env = IF id \in by THEN id ELSE Unset
            /\ stage'[id].dependsOn = {<<d>> : d \in DependenciesOf(id)}
    BY <1>1 DEF DependenciesOf
  <1>4. ASSUME NEW id \in StageId
        PROVE  DependenciesOf(id) \subseteq Part
    <2>1. CASE id[1] = Top
      <3>1. id[2] \in Node
        BY <2>1, IdParts DEF Node
      <3> QED BY <1>0, <2>1, <3>1 DEF DependenciesOf, GraphTypeOK, Node, Part
    <2>2. CASE id[1] # Top
      <3>1. id \in NestedId /\ id[1] \in Pipeline
        BY <2>2, IdParts
      <3>2. Needs[id] \subseteq StagesIn[id[1]]
        BY <3>1, PipelineAssumption
      <3> QED BY <2>2, <3>1, <3>2 DEF DependenciesOf, Part
    <2> QED BY <2>1, <2>2
  <1>5. stage' \in [StageId -> [name : Part, env : Value, dependsOn : SUBSET Seq(Part)]]
    <2>1. ASSUME NEW id \in StageId
          PROVE  [name |-> id[2],
                  env |-> IF id \in by THEN id ELSE Unset,
                  dependsOn |-> {<<d>> : d \in DependenciesOf(id)}]
                     \in [name : Part, env : Value, dependsOn : SUBSET Seq(Part)]
      <3>1. id[2] \in Part
        BY IdParts
      <3>2. (IF id \in by THEN id ELSE Unset) \in Value
        BY DEF Value
      <3>3. {<<d>> : d \in DependenciesOf(id)} \in SUBSET Seq(Part)
        <4>1. \A d \in Part : <<d>> \in Seq(Part)
          OBVIOUS
        <4> QED BY <1>4, <4>1
      <3> QED BY <3>1, <3>2, <3>3
    <2> QED BY <1>1, <2>1 DEF DependenciesOf
  <1> DEFINE f == RangeOver(Top, <<Top>>, Children(Top, Root), TRUE)
  <1>6. Top \in Part /\ Children(Top, Root) \subseteq Keys(Top) /\ Keys(Top) \subseteq Part
    BY ChildrenAreKeys, KeysTyped DEF Part
  <1>7. /\ f.parents = <<Top>> /\ f.pipeline = Top /\ f.todo = Children(Top, Root)
        /\ f \in Ranging
    <2>1. <<Top>> \in Seq(Part)
      BY <1>6
    <2> QED BY <1>6, <2>1 DEF RangeOver, Ranging
  <1> HIDE DEF f
  <1>8. stack' = Push(f, <<>>) /\ stack' \in Seq(Ranging)
        /\ ToSet(stack') = IF f.todo = {} THEN {} ELSE {f}
    <2>1. stack' = Push(f, <<>>)
      BY DEF Begin, f
    <2>2. <<>> \in Seq(Ranging)
      OBVIOUS
    <2>3. /\ Push(f, <<>>) \in Seq(Ranging)
          /\ ToSet(Push(f, <<>>)) = ToSet(<<>>) \cup IF f.todo = {} THEN {} ELSE {f}
      BY <1>7, <2>2, PushedRange
    <2>4. ToSet(<<>>) = {}
      BY EmptyHasNone
    <2> QED BY <2>1, <2>3, <2>4
  <1>9. FlattenTypeOK'
    BY <1>0, <1>2, <1>5, <1>8 DEF FlattenTypeOK
  <1>10. RangesArePlaced' /\ KeysArePlaced'
    BY <1>0, <1>6, <1>7, <1>8 DEF RangesArePlaced, KeysArePlaced, PlacedAt, Keys
  <1>11. OnePipelineBelow' /\ NamesAreKept'
    BY <1>0, <1>3 DEF OnePipelineBelow, NamesAreKept
  <1>12. DependenciesAreKept'
    <2>1. \A id \in StageId : DependenciesOf(id)' = DependenciesOf(id)
      BY <1>0 DEF DependenciesOf
    <2> QED BY <1>0, <1>3, <2>1 DEF DependenciesAreKept
  <1>13. EnvsHaveSource'
    <2>1. Unset \notin StageId
      BY PipelineAssumption
    <2> QED BY <1>0, <1>2, <1>3, <2>1 DEF EnvsHaveSource
  <1>14. NothingIsMissed'
    <2>1. Paths' = {<<Top>>}
      BY <1>0 DEF Paths
    <2>2. \A c \in Children(Top, Root) : \E g \in ToSet(stack') : g.parents = <<Top>> /\ c \in g.todo
      BY <1>7, <1>8
    <2>3. \A n : Children(Top, n)' = Children(Top, n)
      BY <1>0 DEF Children
    <2>4. \A u : u \notin DOMAIN flat'
      BY <1>0
    <2>5. \A c \in Children(Top, Root)' : Awaited(<<Top>>, c)'
      BY <2>2, <2>3 DEF Awaited
    <2> QED BY <2>1, <2>4, <2>5 DEF NothingIsMissed
  <1> QED BY <1>9, <1>10, <1>11, <1>12, <1>13, <1>14 DEF TablesInv

\* A stage is looked for under a name that is not its own only where one name
\* stands behind another.
LEMMA MissingNeedsNesting ==
    ASSUME GraphInv, TablesInv, NEW k, At(k), k # Root, ~Found(k)
    PROVE  \E key1, key2 \in DOMAIN flat :
            LET p == holds[flat[key1].origin]
                q == holds[flat[key2].origin]
            IN  /\ {p, q} \subseteq Pipeline
                /\ IsAlias(p) /\ IsAlias(q) /\ holds[Sole(q)] = p
  <1> USE DEF TablesInv
  <1> DEFINE p == Current.pipeline
  <1>1. stack # <<>> /\ k \in Current.todo /\ Current \in ToSet(stack) /\ p \in Pipeline \cup {Top}
    BY TopOfStack DEF At
  <1>2. k \in Keys(p) /\ PlacedAt(Current.parents, p)
    BY <1>1 DEF RangesArePlaced
  <1>3. NameOf(k) # k
    BY <1>2 DEF Found
  <1>4. <<p, k>> \in StageId
    BY <1>1, <1>2, KeysTyped
  <1>5. stage[<<p, k>>].name # k
    BY <1>3 DEF NameOf
  <1>6. IsAlias(p) /\ \E u \in DOMAIN flat : holds[flat[u].origin] = p
    BY <1>4, <1>5 DEF NamesAreKept
  <1>7. PICK key1 \in DOMAIN flat : holds[flat[key1].origin] = p
    BY <1>6
  <1>8. PICK key2 \in DOMAIN flat :
            /\ holds[flat[key2].origin] \in Pipeline
            /\ IsAlias(holds[flat[key2].origin]) /\ holds[Sole(holds[flat[key2].origin])] = p
    BY <1>2, <1>6, AliasBehindAlias
  <1>9. p \in Pipeline
    BY <1>6, AliasIsSole
  <1> QED BY <1>6, <1>7, <1>8, <1>9

LEMMA InitOfFlatten == DInit => GraphInv /\ FlattenInv /\ RebuildInv
  <1>1. DInit => GraphInv
    BY InitOfGraph DEF DInit
  <1> QED BY <1>1 DEF DInit, FlattenInv, RebuildInv, PanicNeedsNesting

LEMMA GraphGoesOn == GraphInv /\ [DNext]_allVars => GraphInv'
  <1>1. [DNext]_allVars => [Next]_vars
    BY DEF DNext, allVars, Load, Begin, FlattenRoot, FlattenMissing, FlattenTask, FlattenPipeline,
           FlattenAlias, BeginRebuild, MergeLevel, EndRebuild, Denormalized
  <1> QED BY <1>1, GraphStep

LEMMA FlattenStep == GraphInv /\ FlattenInv /\ [DNext]_allVars => FlattenInv'
  <1> SUFFICES ASSUME GraphInv, FlattenInv, [DNext]_allVars PROVE FlattenInv'
    OBVIOUS
  <1> USE DEF flattenVars, rebuildVars
  \* While stages are flattened no more has to be shown than TablesInv.
  <1>1. ASSUME phase = "flatten", phase' = "flatten", UNCHANGED vars, TablesInv'
        PROVE  FlattenInv'
    <2>1. verdict' = verdict
      BY <1>1 DEF vars, graphVars
    <2> QED BY <1>1, <2>1 DEF FlattenInv, PanicNeedsNesting
  <1>2. CASE Load
    <2>1. phase' = "load" /\ flat' = flat
      BY <1>2 DEF Load
    <2> QED BY <1>2, <2>1 DEF Load, FlattenInv, PanicNeedsNesting
  <1>3. CASE Begin
    <2>1. phase' = "flatten" /\ verdict' = "built" /\ flat = <<>>
      BY <1>3 DEF Begin, vars, graphVars, FlattenInv
    <2>2. TablesInv'
      BY <1>3, <2>1, BeginKeeps
    <2> QED BY <2>1, <2>2 DEF FlattenInv, PanicNeedsNesting
  <1>4. CASE FlattenRoot
    <2>1. phase = "flatten" /\ phase' = "flatten" /\ UNCHANGED vars /\ TablesInv
      BY <1>4 DEF FlattenRoot, At, FlattenInv
    <2> QED BY <1>1, <1>4, <2>1, FlattenRootKeeps
  <1>5. ASSUME NEW k, FlattenMissing(k)
        PROVE  FlattenInv'
    <2>1. /\ phase = "flatten" /\ phase' = "panic" /\ TablesInv /\ verdict = "built"
          /\ UNCHANGED vars /\ UNCHANGED <<holds, setBy, ownBy, stage, stack, flat>>
      BY <1>5 DEF FlattenMissing, At, FlattenInv
    <2>2. TablesInv' /\ verdict' = "built"
      BY <2>1, TablesUntouched DEF vars, graphVars
    <2>3. PanicNeedsNesting'
      <3>1. \E key1, key2 \in DOMAIN flat :
                LET p == holds[flat[key1].origin]
                    q == holds[flat[key2].origin]
                IN  /\ {p, q} \subseteq Pipeline
                    /\ IsAlias(p) /\ IsAlias(q) /\ holds[Sole(q)] = p
        BY <1>5, <2>1, MissingNeedsNesting DEF FlattenMissing
      <3>2. \A p : IsAlias(p)' <=> IsAlias(p)
        BY <2>1 DEF IsAlias
      <3> QED BY <2>1, <3>1, <3>2 DEF PanicNeedsNesting
    <2> QED BY <2>1, <2>2, <2>3 DEF FlattenInv
  <1>6. ASSUME NEW k, FlattenTask(k)
        PROVE  FlattenInv'
    <2>1. phase = "flatten" /\ phase' = "flatten" /\ UNCHANGED vars /\ TablesInv
      BY <1>6 DEF FlattenTask, At, FlattenInv
    <2> QED BY <1>1, <1>6, <2>1, FlattenTaskKeeps
  <1>7. ASSUME NEW k, FlattenPipeline(k)
        PROVE  FlattenInv'
    <2>1. phase = "flatten" /\ phase' = "flatten" /\ UNCHANGED vars /\ TablesInv
      BY <1>7 DEF FlattenPipeline, At, FlattenInv
    <2> QED BY <1>1, <1>7, <2>1, FlattenPipelineKeeps
  <1>8. ASSUME NEW k, FlattenAlias(k)
        PROVE  FlattenInv'
    <2>1. phase = "flatten" /\ phase' = "flatten" /\ UNCHANGED vars /\ TablesInv
      BY <1>8 DEF FlattenAlias, At, FlattenInv
    <2> QED BY <1>1, <1>8, <2>1, FlattenAliasKeeps
  <1>9. CASE BeginRebuild \/ MergeLevel \/ EndRebuild
    <2>1. /\ phase \in {"flatten", "rebuild"} /\ phase' \in {"rebuild", "rebuilt"} /\ TablesInv
          /\ verdict = "built" /\ stack = <<>>
          /\ UNCHANGED vars /\ UNCHANGED <<holds, setBy, ownBy, stage, stack, flat>>
      BY <1>9 DEF BeginRebuild, MergeLevel, EndRebuild, FlattenInv
    <2>2. TablesInv' /\ verdict' = "built"
      BY <2>1, TablesUntouched DEF vars, graphVars
    <2> QED BY <2>1, <2>2 DEF FlattenInv, PanicNeedsNesting
  <1>10. CASE UNCHANGED allVars
    <2>1. UNCHANGED vars /\ UNCHANGED <<phase, holds, setBy, ownBy, stage, stack, flat>>
      BY <1>10 DEF allVars
    <2>2. TablesInv => TablesInv'
      BY <2>1, TablesUntouched
    <2>3. PanicNeedsNesting'
      BY <2>1 DEF FlattenInv, PanicNeedsNesting, IsAlias
    <2>4. verdict' = verdict
      BY <2>1 DEF vars, graphVars
    <2> QED BY <2>1, <2>2, <2>3, <2>4 DEF FlattenInv
  <1> QED BY <1>2, <1>3, <1>4, <1>5, <1>6, <1>7, <1>8, <1>9, <1>10 DEF DNext, Denormalized

-----------------------------------------------------------------------------
(***************************************************************************)
(* The rebuild                                                             *)
(***************************************************************************)
\* The names a key stands below, as far as the levels have come.
Above(key, n) == {SubSeq(key, 1, i) : i \in 1..(n - 1) \cap 1..(Len(key) - 1)} \cap DOMAIN flat

LEMMA NoneAbove ==
    ASSUME NEW key
    PROVE  Above(key, 1) = {}
  <1>1. 1..(1 - 1) = {}
    OBVIOUS
  <1> QED BY <1>1 DEF Above

LEMMA AboveGrows ==
    ASSUME NEW n \in Nat \ {0}, NEW key, Len(key) \in Nat, level = n
    PROVE  Above(key, n + 1) = Above(key, n) \cup RecurseParents(key)
  <1> DEFINE all == 1..(n + 1 - 1) \cap 1..(Len(key) - 1)
             old == 1..(n - 1) \cap 1..(Len(key) - 1)
  <1>1. all = old \cup IF n < Len(key) THEN {n} ELSE {}
    OBVIOUS
  <1>2. /\ Above(key, n + 1) = {SubSeq(key, 1, i) : i \in all} \cap DOMAIN flat
        /\ Above(key, n) = {SubSeq(key, 1, i) : i \in old} \cap DOMAIN flat
    BY DEF Above
  <1>3. RecurseParents(key) = IF n < Len(key) THEN {SubSeq(key, 1, n)} \cap DOMAIN flat ELSE {}
    BY DEF RecurseParents
  <1> HIDE DEF all, old
  <1>4. {SubSeq(key, 1, i) : i \in all} =
            {SubSeq(key, 1, i) : i \in old} \cup IF n < Len(key) THEN {SubSeq(key, 1, n)} ELSE {}
    BY <1>1
  <1> QED BY <1>2, <1>3, <1>4

\* MergedSoFar, of one task.
MergedOf(key, result, n) ==
    LET from == {key} \cup Above(key, n)
        values == {flat[k].env : k \in from} \cup {Unset, flat[key].taskEnv}
    IN  holds[flat[key].origin] = NoPipeline =>
            /\ result.env \in values /\ result.taskEnv \in values
            /\ flat[key].origin \in ownBy =>
                  result.taskEnv = Own /\ (Above(key, n) # {} => result.env = Own)
            /\ (\E k \in from : flat[k].env # Unset) => result.env # Unset

LEMMA MergedNow ==
    MergedSoFar <=> DOMAIN merged = DOMAIN flat /\ \A key \in DOMAIN flat : MergedOf(key, merged[key], level)
  BY DEF MergedSoFar, MergedOf, Above

LEMMA MergedNext ==
    ASSUME UNCHANGED <<holds, ownBy, flat>>
    PROVE  MergedSoFar' <=> /\ DOMAIN merged' = DOMAIN flat
                            /\ \A key \in DOMAIN flat : MergedOf(key, merged'[key], level')
  BY DEF MergedSoFar, MergedOf, Above

LEMMA BeginRebuildMerges ==
    ASSUME FlattenTypeOK, EnvsHaveSource, level = 1, BeginRebuild
    PROVE  MergedSoFar'
  <1>1. /\ UNCHANGED <<holds, ownBy, flat, level>>
        /\ DOMAIN merged' = DOMAIN flat
        /\ \A key \in DOMAIN flat :
              merged'[key] = [env |-> flat[key].env, taskEnv |-> flat[key].taskEnv]
    BY DEF BeginRebuild
  <1>2. ASSUME NEW key \in DOMAIN flat
        PROVE  MergedOf(key, merged'[key], 1)
    <2>1. Above(key, 1) = {}
      BY NoneAbove
    <2>2. /\ merged'[key].env = flat[key].env /\ merged'[key].taskEnv = flat[key].taskEnv
          /\ flat[key].origin \in ownBy => flat[key].taskEnv = Own
      BY <1>1 DEF EnvsHaveSource
    <2> QED BY <2>1, <2>2 DEF MergedOf
  <1> QED BY <1>1, <1>2, MergedNext

LEMMA MergeLevelMerges ==
    ASSUME FlattenTypeOK, KeysArePlaced, MergedSoFar, level \in Nat \ {0}, MergeLevel
    PROVE  MergedSoFar'
  <1> USE PipelineAssumption
  <1>1. /\ UNCHANGED <<holds, ownBy, flat>> /\ level' = level + 1
        /\ DOMAIN merged' = DOMAIN flat
        /\ \A key \in DOMAIN flat :
              merged'[key] = IF RecurseParents(key) = {} THEN merged[key]
                             ELSE MergeParent(key, SubSeq(key, 1, level))
    BY DEF MergeLevel, flattenVars
  <1>2. ASSUME NEW key \in DOMAIN flat, holds[flat[key].origin] = NoPipeline
        PROVE  MergedOf(key, merged'[key], level + 1)
    <2>1. Above(key, level + 1) = Above(key, level) \cup RecurseParents(key)
      <3>1. key \in Seq(Part)
        BY DEF FlattenTypeOK
      <3>2. Len(key) \in Nat
        BY <3>1
      <3> QED BY <3>2, AboveGrows
    <2>2. MergedOf(key, merged[key], level)
      BY MergedNow
    <2>3. CASE RecurseParents(key) = {}
      BY <1>1, <2>1, <2>2, <2>3 DEF MergedOf
    <2>4. CASE RecurseParents(key) # {}
      <3> DEFINE parent == SubSeq(key, 1, level)
                 old == merged[key]
                 env == Merge(old.env, flat[parent].env)
                 taskEnv == Merge(env, old.taskEnv)
      <3>0. RecurseParents(key) \subseteq {parent} \cap DOMAIN flat
        BY DEF RecurseParents
      <3> HIDE DEF parent
      <3>1. RecurseParents(key) = {parent} /\ parent \in DOMAIN flat
        BY <2>4, <3>0
      <3>2. merged'[key] = [env |-> Merge(env, taskEnv), taskEnv |-> taskEnv]
        BY <1>1, <1>2, <2>4 DEF MergeParent, MergeIntoTask, parent
      <3>3. Above(key, level + 1) = Above(key, level) \cup {parent}
        BY <2>1, <3>1
      <3> HIDE DEF old
      <3> DEFINE from == {key} \cup Above(key, level)
                 values == {flat[k].env : k \in from} \cup {Unset, flat[key].taskEnv}
                 wider == {flat[k].env : k \in from \cup {parent}} \cup {Unset, flat[key].taskEnv}
      <3>4. /\ old.env \in values /\ old.taskEnv \in values
            /\ flat[key].origin \in ownBy => old.taskEnv = Own
            /\ (\E k \in from : flat[k].env # Unset) => old.env # Unset
        BY <1>2, <2>2 DEF MergedOf, old
      <3>5. values \subseteq wider /\ flat[parent].env \in wider
        OBVIOUS
      <3>6. /\ env \in wider /\ taskEnv \in wider /\ Merge(env, taskEnv) \in wider
        BY <3>4, <3>5 DEF Merge
      <3>7. /\ flat[key].origin \in ownBy => taskEnv = Own /\ Merge(env, taskEnv) = Own
        BY <3>4 DEF Merge
      <3>8. (\E k \in from \cup {parent} : flat[k].env # Unset) => Merge(env, taskEnv) # Unset
        BY <3>4 DEF Merge
      <3>9. {key} \cup Above(key, level + 1) = from \cup {parent}
        BY <3>3
      <3> QED BY <3>2, <3>6, <3>7, <3>8, <3>9 DEF MergedOf
    <2> QED BY <2>3, <2>4
  <1>3. \A key \in DOMAIN flat : MergedOf(key, merged'[key], level + 1)
    BY <1>2 DEF MergedOf
  <1> QED BY <1>1, <1>3, MergedNext

LEMMA RebuildStep == FlattenInv /\ RebuildInv /\ [DNext]_allVars => RebuildInv'
  <1> SUFFICES ASSUME FlattenInv, RebuildInv, [DNext]_allVars PROVE RebuildInv'
    OBVIOUS
  <1>1. CASE BeginRebuild
    <2>1. /\ phase = "flatten" /\ phase' = "rebuild" /\ level' = level /\ level = 1
          /\ TablesInv /\ holds' = holds
      BY <1>1 DEF BeginRebuild, FlattenInv, RebuildInv
    <2>2. NoNameOfAName' => NoNameOfAName
      BY <2>1 DEF NoNameOfAName, IsAlias
    <2>3. NoNameOfAName => MergedSoFar'
      BY <1>1, <2>1, BeginRebuildMerges DEF TablesInv
    <2> QED BY <2>1, <2>2, <2>3 DEF RebuildInv
  <1>2. CASE MergeLevel
    <2>1. /\ phase = "rebuild" /\ phase' = "rebuild" /\ level' = level + 1 /\ level \in Nat \ {0}
          /\ TablesInv /\ holds' = holds
      BY <1>2 DEF MergeLevel, flattenVars, FlattenInv, RebuildInv
    <2>2. NoNameOfAName' => NoNameOfAName
      BY <2>1 DEF NoNameOfAName, IsAlias
    <2>3. NoNameOfAName => MergedSoFar'
      BY <1>2, <2>1, MergeLevelMerges DEF TablesInv, RebuildInv
    <2> QED BY <2>1, <2>2, <2>3 DEF RebuildInv
  <1>3. CASE EndRebuild \/ UNCHANGED allVars
    <2>1. /\ UNCHANGED <<holds, ownBy, flat, level, merged>>
          /\ phase' = phase \/ (phase = "rebuild" /\ phase' = "rebuilt" /\ AtLastLevel)
      <3>1. CASE EndRebuild
        BY <3>1 DEF EndRebuild, rebuildVars
      <3>2. CASE UNCHANGED allVars
        BY <3>2 DEF allVars, flattenVars, rebuildVars
      <3> QED BY <1>3, <3>1, <3>2
    <2>2. NoNameOfAName' => NoNameOfAName
      BY <2>1 DEF NoNameOfAName, IsAlias
    <2>3. (MergedSoFar => MergedSoFar') /\ (AtLastLevel => AtLastLevel')
      BY <2>1 DEF MergedSoFar, AtLastLevel
    <2> QED BY <2>1, <2>2, <2>3 DEF RebuildInv
  <1>4. ASSUME phase' \notin {"rebuild", "rebuilt"}, phase \notin {"rebuild", "rebuilt"}, level' = level
        PROVE  RebuildInv'
    BY <1>4 DEF RebuildInv
  <1>5. ASSUME Load \/ Begin \/ FlattenRoot
                \/ \E k : FlattenMissing(k) \/ FlattenTask(k) \/ FlattenPipeline(k) \/ FlattenAlias(k)
        PROVE  RebuildInv'
    <2>1. /\ phase \in {"load", "flatten"} /\ level' = level
          /\ phase' \in {"load", "flatten", "panic"}
      BY <1>5 DEF Load, Begin, FlattenRoot, FlattenMissing, FlattenTask, FlattenPipeline, FlattenAlias,
                  At, flattenVars, rebuildVars
    <2> QED BY <1>4, <2>1
  <1> QED BY <1>1, <1>2, <1>3, <1>5 DEF DNext, Denormalized

-----------------------------------------------------------------------------
(***************************************************************************)
(* What the invariants say of the rebuilt graph                            *)
(***************************************************************************)
\* Where no name stands for a name a unique name is the name of a stage in the
\* pipeline that the rest of it names.
LEMMA KeyInPipeline ==
    ASSUME GraphInv, TablesInv, NoNameOfAName, NEW key \in DOMAIN flat
    PROVE  LET path == Front(key) IN
           /\ path \in Paths /\ path \in Seq(Part) /\ Len(path) >= 1
           /\ path # <<Top>> => path \in DOMAIN flat
           /\ flat[key].origin = <<PipelineAt(path), Last(key)>>
           /\ Last(key) \in Keys(PipelineAt(path)) /\ PipelineAt(path) \in Pipeline \cup {Top}
           /\ key = Append(path, Last(key)) /\ Len(path) = Len(key) - 1 /\ key \in Seq(Part)
           /\ ~IsAlias(flat[key].origin[1])
  <1> USE DEF TablesInv
  <1> DEFINE path == Front(key)
             id == flat[key].origin
  <1>1. /\ key \in Seq(Part) /\ Len(key) > 1 /\ id \in StageId
        /\ PlacedAt(path, id[1]) /\ id[2] = Last(key) /\ Last(key) \in Keys(id[1])
    BY DEF FlattenTypeOK, Entry, KeysArePlaced
  <1>2. /\ path \in Seq(Part) /\ Last(key) \in Part
        /\ key = Append(path, Last(key)) /\ Len(path) = Len(key) - 1 /\ Len(path) >= 1
    <2>1. /\ Front(key) \in Seq(Part) /\ Last(key) \in Part
          /\ key = Append(Front(key), Last(key)) /\ Len(Front(key)) = Len(key) - 1
      BY <1>1, PathInParts
    <2>2. Len(key) \in Nat
      BY <1>1
    <2> QED BY <1>1, <2>1, <2>2
  <1>3. id = <<id[1], id[2]>> /\ id[1] \in Pipeline \cup {Top}
    BY <1>1, IdParts
  <1>4. ~IsAlias(id[1])
    BY <1>1, SimpleNames
  <1> HIDE DEF path
  <1>5. CASE path = <<Top>>
    <2>1. id[1] = Top
      <3>1. Len(<<Top>>) = 1
        OBVIOUS
      <3> QED BY <1>1, <1>5, <3>1 DEF PlacedAt
    <2>2. path \in Paths /\ PipelineAt(path) = Top
      BY <1>5 DEF Paths, PipelineAt
    <2> QED BY <1>1, <1>2, <1>3, <1>4, <1>5, <2>1, <2>2 DEF path
  <1>6. CASE path # <<Top>>
    <2>1. PICK u \in DOMAIN flat :
              /\ Front(u) = Front(path)
              /\ holds[flat[u].origin] # NoPipeline
              /\ Held(flat[u].origin) = id[1]
              /\ Last(u) = Last(path) \/ IsAlias(flat[u].origin[1])
      BY <1>1, <1>6 DEF PlacedAt
    <2>2. Len(path) > 1
      BY <1>1, <1>6 DEF PlacedAt
    <2>3. u \in Seq(Part) /\ Len(u) > 1 /\ ~IsAlias(flat[u].origin[1])
      BY SimpleNames DEF FlattenTypeOK, KeysArePlaced
    <2>4. u = Append(Front(u), Last(u)) /\ path = Append(Front(path), Last(path))
      BY <1>2, <2>2, <2>3, PathInParts
    <2>5. u = path
      BY <2>1, <2>3, <2>4
    <2>6. path \in Paths /\ path \in DOMAIN flat /\ PipelineAt(path) = id[1]
      BY <1>6, <2>1, <2>5 DEF Paths, PipelineAt
    <2> QED BY <1>1, <1>2, <1>3, <1>4, <2>6 DEF path
  <1> QED BY <1>5, <1>6

\* The stages of the pipeline that is loaded that are not in the table would
\* wait for each other.
LEMMA NoStageIsMissed ==
    ASSUME GraphInv, verdict = "built", TablesInv, NoNameOfAName, stack = <<>>,
           NEW n \in nodes \ {Root}
    PROVE  <<Top, n>> \in DOMAIN flat
  <1>0. /\ EdgesFollowDependsOn /\ LoopsAreNew /\ VerdictIsRight /\ GraphTypeOK
    BY DEF GraphInv
  <1>1. /\ calls = <<>> /\ pending = {}
        /\ \A s \in nodes : dependsOn[s] \subseteq nodes
    BY <1>0 DEF VerdictIsRight
  <1>2. ASSUME NEW p \in nodes, p = Root \/ <<Top, p>> \in DOMAIN flat, NEW c \in ToSet(children[p])
        PROVE  <<Top, c>> \in DOMAIN flat
    <2>1. ~Awaited(<<Top>>, c)
      BY EmptyHasNone DEF Awaited
    <2> QED BY <1>2, <2>1 DEF TablesInv, NothingIsMissed, Children
  <1> DEFINE L == {s \in nodes \ {Root} : <<Top, s>> \notin DOMAIN flat}
  <1>3. Loop(L)
    <2>1. ASSUME NEW s \in L PROVE \E p \in L : s \in ToSet(children[p])
      <3>1. s \in Name /\ s \in nodes /\ <<Top, s>> \notin DOMAIN flat
        BY <1>0 DEF GraphTypeOK, Node
      <3>2. PICK p : p \in Parents(dependsOn[s])
        BY DEF Parents
      <3>3. p \in nodes /\ p \in Node
        BY <1>0, <1>1, <3>1, <3>2 DEF Parents, GraphTypeOK, EdgesFollowDependsOn
      <3>4. s \in ToSet(children[p])
        BY <1>0, <1>1, <3>1, <3>2, <3>3 DEF EdgesFollowDependsOn
      <3>5. p # Root /\ <<Top, p>> \notin DOMAIN flat
        BY <1>2, <3>1, <3>3, <3>4
      <3> QED BY <3>3, <3>4, <3>5
    <2> QED BY <2>1 DEF Loop
  <1>4. L = {}
    BY <1>0, <1>1, <1>3 DEF LoopsAreNew, NoLoopWithin, GraphTypeOK
  <1> QED BY <1>4

LEMMA RebuiltTable ==
    ASSUME GraphInv, FlattenInv, NoNameOfAName, phase = "rebuilt"
    PROVE  DOMAIN flat = UNION {{Append(path, k) : k \in Keys(PipelineAt(path))} : path \in Paths}
  <1>1. TablesInv /\ stack = <<>> /\ verdict = "built"
    BY DEF FlattenInv
  <1>2. ASSUME NEW key \in DOMAIN flat
        PROVE  \E path \in Paths : \E k \in Keys(PipelineAt(path)) : key = Append(path, k)
    <2>1. /\ Front(key) \in Paths /\ Last(key) \in Keys(PipelineAt(Front(key)))
          /\ key = Append(Front(key), Last(key))
      BY <1>1, KeyInPipeline
    <2> QED BY <2>1
  <1>3. ASSUME NEW path \in Paths, NEW k \in Keys(PipelineAt(path))
        PROVE  Append(path, k) \in DOMAIN flat
    <2>1. CASE path = <<Top>>
      <3>1. k \in nodes \ {Root}
        BY <2>1 DEF PipelineAt, Keys
      <3>2. <<Top, k>> \in DOMAIN flat
        BY <1>1, <3>1, NoStageIsMissed
      <3> QED BY <2>1, <3>2, TopPath
    <2>2. CASE path # <<Top>>
      <3>1. ~Awaited(path, k)
        BY <1>1, EmptyHasNone DEF Awaited
      <3> QED BY <1>1, <2>2, <3>1 DEF TablesInv, NothingIsMissed
    <2> QED BY <2>1, <2>2
  <1> DEFINE U == UNION {{Append(path, k) : k \in Keys(PipelineAt(path))} : path \in Paths}
  <1>4. \A x : x \in U <=> \E path \in Paths : \E k \in Keys(PipelineAt(path)) : x = Append(path, k)
    OBVIOUS
  <1> HIDE DEF U
  <1>5. ASSUME NEW x \in U PROVE x \in DOMAIN flat
    <2>1. PICK path \in Paths : \E k \in Keys(PipelineAt(path)) : x = Append(path, k)
      BY <1>4
    <2> QED BY <1>3, <2>1
  <1>6. DOMAIN flat = U
    BY <1>2, <1>4, <1>5
  <1> QED BY <1>6 DEF U

LEMMA CompleteTable ==
    GraphInv /\ FlattenInv /\ NoNameOfAName => RebuiltIsComplete
  <1> SUFFICES ASSUME GraphInv, FlattenInv, NoNameOfAName, phase = "rebuilt"
               PROVE  /\ DOMAIN flat = UNION {{Append(path, k) : k \in Keys(PipelineAt(path))} : path \in Paths}
                      /\ \A key \in DOMAIN flat :
                            /\ flat[key].origin = <<PipelineAt(Front(key)), Last(key)>>
                            /\ \A dep \in flat[key].dependsOn :
                                  dep \in NthLevelChildren(Front(key), 1) \/ Last(dep) = Root
    BY DEF RebuiltIsComplete
  <1>1. TablesInv /\ verdict = "built" /\ VerdictIsRight /\ GraphTypeOK
    BY DEF FlattenInv, GraphInv
  <1>2. DOMAIN flat = UNION {{Append(path, k) : k \in Keys(PipelineAt(path))} : path \in Paths}
    BY RebuiltTable
  <1>3. ASSUME NEW key \in DOMAIN flat, NEW dep \in flat[key].dependsOn
        PROVE  dep \in NthLevelChildren(Front(key), 1) \/ Last(dep) = Root
    <2> DEFINE path == Front(key)
               id == flat[key].origin
    <2>1. /\ path \in Paths /\ path \in Seq(Part) /\ Len(path) >= 1
          /\ id = <<PipelineAt(path), Last(key)>>
          /\ Last(key) \in Keys(PipelineAt(path)) /\ PipelineAt(path) \in Pipeline \cup {Top}
          /\ ~IsAlias(id[1])
      BY <1>1, KeyInPipeline
    <2>2. flat[key].dependsOn = {Append(path, d) : d \in DependenciesOf(id)}
      BY <1>1, <2>1 DEF TablesInv, DependenciesAreKept
    <2> HIDE DEF path
    <2>3. PICK d \in DependenciesOf(id) : dep = Append(path, d)
      BY <1>3, <2>2
    <2>4. d = Root \/ d \in Keys(PipelineAt(path))
      <3>1. CASE PipelineAt(path) = Top
        <4>1. Last(key) \in nodes /\ d \in dependsOn[Last(key)]
          BY <2>1, <2>3, <3>1 DEF Keys, DependenciesOf
        <4> QED BY <1>1, <3>1, <4>1 DEF VerdictIsRight, Keys
      <3>2. CASE PipelineAt(path) # Top
        <4>1. id \in NestedId /\ id[1] = PipelineAt(path) /\ d \in Needs[id]
          <5>1. id[1] = PipelineAt(path) /\ id[2] = Last(key) /\ id[2] \in StagesIn[id[1]]
            BY <2>1, <3>2 DEF Keys
          <5> QED BY <2>1, <2>3, <3>2, <5>1, IdParts DEF DependenciesOf
        <4> QED BY <3>2, <4>1, PipelineAssumption DEF Keys
      <3> QED BY <3>1, <3>2
    <2>5. d \in Part
      BY <2>1, <2>4, KeysTyped DEF Part
    <2>6. /\ Len(dep) = Len(path) + 1 /\ Len(path) \in Nat /\ dep \in Seq(Part) /\ Last(dep) = d
          /\ \A i \in 1..Len(path) : dep[i] = path[i]
      BY <2>1, <2>3, <2>5, PathWithPart
    <2>7. ASSUME d # Root PROVE dep \in NthLevelChildren(path, 1)
      <3>1. dep \in DOMAIN flat
        BY <1>2, <2>1, <2>3, <2>4, <2>7
      <3>2. HasPrefix(dep, path)
        <4> DEFINE n == Len(path)
        <4>1. dep[n] = path[n] /\ Len(dep) >= n
          BY <2>1, <2>6
        <4>2. SubSeq(dep, 1, n - 1) = SubSeq(path, 1, n - 1)
          BY <2>1, <2>6
        <4> QED BY <4>1, <4>2 DEF HasPrefix, Front
      <3> QED BY <2>6, <3>1, <3>2 DEF NthLevelChildren
    <2> QED BY <2>6, <2>7 DEF path
  <1>4. \A key \in DOMAIN flat : flat[key].origin = <<PipelineAt(Front(key)), Last(key)>>
    BY <1>1, KeyInPipeline
  <1> QED BY <1>2, <1>3, <1>4

\* A key's prefixes in the table are the key and those above it.
LEMMA PrefixIsAbove ==
    ASSUME FlattenTypeOK, KeysArePlaced, NEW key \in DOMAIN flat, NEW q \in DOMAIN flat,
           level \in Nat \ {0}, Len(key) <= level
    PROVE  IsPrefix(q, key) <=> q \in {key} \cup Above(key, level)
  <1> DEFINE m == Len(q)
             n == Len(key)
  <1>1. /\ key \in Seq(Part) /\ q \in Seq(Part) /\ m > 1 /\ m \in Nat /\ n > 1 /\ n \in Nat
    BY DEF FlattenTypeOK, KeysArePlaced
  <1>2. /\ SubSeq(q, 1, m) = q /\ SubSeq(key, 1, n) = key
    BY <1>1
  <1>3. ASSUME IsPrefix(q, key) PROVE q \in {key} \cup Above(key, level)
    <2>1. m <= n /\ q = SubSeq(key, 1, m)
      BY <1>2, <1>3 DEF IsPrefix
    <2>2. CASE m = n
      BY <1>2, <2>1, <2>2
    <2>3. CASE m # n
      <3>1. m \in 1..(level - 1) \cap 1..(n - 1)
        BY <1>1, <2>1, <2>3
      <3> QED BY <2>1, <3>1 DEF Above
    <2> QED BY <2>2, <2>3
  <1>4. ASSUME q \in Above(key, level) PROVE IsPrefix(q, key)
    <2>1. PICK i \in 1..(level - 1) \cap 1..(n - 1) : q = SubSeq(key, 1, i)
      BY <1>4 DEF Above
    <2>2. i \in Nat /\ i <= n /\ m = i
      BY <1>1, <2>1
    <2> QED BY <1>2, <2>1, <2>2 DEF IsPrefix
  <1>5. IsPrefix(key, key)
    BY <1>1 DEF IsPrefix
  <1> QED BY <1>3, <1>4, <1>5

LEMMA ValueHasSource ==
    GraphInv /\ FlattenInv /\ RebuildInv /\ NoNameOfAName => EnvHasSource
  <1> SUFFICES ASSUME GraphInv, FlattenInv, RebuildInv, NoNameOfAName, phase = "rebuilt",
                      NEW key \in DOMAIN flat, holds[flat[key].origin] = NoPipeline
               PROVE  LET value == RunsWith(key)
                          own == flat[key].origin \in ownBy
                      IN  /\ value \in (setBy \cap (Lineage(key) \cup Sharers(key)))
                                 \cup {IF own THEN Own ELSE Unset}
                          /\ Lineage(key) \cap setBy # {} => value # Unset
                          /\ own /\ Len(key) > 2 => value = Own
    BY DEF EnvHasSource
  <1> USE PipelineAssumption
  <1> DEFINE id == flat[key].origin
             own == id \in ownBy
             from == {key} \cup Above(key, level)
             env == merged[key].env
             taskEnv == merged[key].taskEnv
             value == RunsWith(key)
             sources == setBy \cap (Lineage(key) \cup Sharers(key))
  <1>1. /\ TablesInv /\ FlattenTypeOK /\ KeysArePlaced /\ EnvsHaveSource /\ MergedSoFar
        /\ level \in Nat \ {0} /\ AtLastLevel /\ setBy \subseteq StageId
    BY DEF FlattenInv, TablesInv, RebuildInv, FlattenTypeOK
  <1>2. MergedOf(key, merged[key], level)
    BY <1>1, MergedNow
  <1>3. /\ env \in {flat[k].env : k \in from} \cup {Unset, flat[key].taskEnv}
        /\ taskEnv \in {flat[k].env : k \in from} \cup {Unset, flat[key].taskEnv}
        /\ own => taskEnv = Own /\ (Above(key, level) # {} => env = Own)
        /\ (\E k \in from : flat[k].env # Unset) => env # Unset
    BY <1>2 DEF MergedOf
  <1>4. value = IF env = Unset THEN taskEnv ELSE env
    BY DEF RunsWith, Merge
  <1>5. flat[key].taskEnv = IF own THEN Own ELSE Unset
    BY <1>1 DEF EnvsHaveSource
  <1>6. /\ from \subseteq DOMAIN flat
        /\ \A q \in DOMAIN flat : IsPrefix(q, key) <=> q \in from
    <2>1. Len(key) <= level
      BY <1>1 DEF AtLastLevel
    <2>2. from \subseteq DOMAIN flat
      BY DEF Above
    <2>3. \A q \in DOMAIN flat : IsPrefix(q, key) <=> q \in from
      BY <1>1, <2>1, PrefixIsAbove
    <2> QED BY <2>2, <2>3
  <1> HIDE DEF from
  <1>7. Through(key) = {flat[q].origin : q \in from}
    BY <1>6 DEF Through
  \* What a stage above has comes from the stages the name leads through.
  <1>8. ASSUME NEW q \in from, flat[q].env # Unset
        PROVE  flat[q].env \in sources
    <2> DEFINE h == flat[q].origin
               v == flat[q].env
    <2>1. h \in StageId /\ h \in Through(key) /\ v \in setBy /\ v \in SourcesOf(h)
      BY <1>1, <1>6, <1>7, <1>8 DEF EnvsHaveSource, FlattenTypeOK, Entry
    <2> SUFFICES v \in sources
      OBVIOUS
    <2> HIDE DEF h, v
    <2>2. ASSUME IsAlias(holds[h]) PROVE Sole(holds[h]) \in LeftOut(key) /\ Sole(holds[h])[1] = holds[h]
      BY <2>1, <2>2, AliasIsSole DEF LeftOut
    <2>3. CASE v = h
      BY <2>1, <2>3 DEF Lineage
    <2>4. CASE v \in SharedStage(h)
      BY <2>1, <2>2, <2>4 DEF Lineage, SharedStage
    <2>5. CASE v \in StageId /\ IsAlias(holds[v]) /\ holds[v] = holds[h]
      <3>1. \E s \in LeftOut(key) : holds[v] = s[1]
        BY <2>2, <2>5
      <3> QED BY <2>1, <2>5, <3>1 DEF Sharers
    <2> QED BY <2>1, <2>3, <2>4, <2>5 DEF SourcesOf
  <1> HIDE DEF value, env, taskEnv, sources, id
  <1>9. value \in sources \cup {IF own THEN Own ELSE Unset}
    <2>1. /\ env \in sources \cup {Unset} \cup {IF own THEN Own ELSE Unset}
          /\ taskEnv \in sources \cup {Unset} \cup {IF own THEN Own ELSE Unset}
      BY <1>3, <1>5, <1>8
    <2> QED BY <1>3, <1>4, <2>1
  <1>10. ASSUME Lineage(key) \cap setBy # {} PROVE value # Unset
    <2>1. PICK q \in from : ({flat[q].origin} \cup SharedStage(flat[q].origin)) \cap setBy # {}
      <3>1. PICK x : x \in setBy /\ x \in Through(key) \cup LeftOut(key)
        BY <1>10 DEF Lineage
      <3>2. CASE x \in Through(key)
        BY <1>7, <3>1, <3>2
      <3>3. CASE x \in LeftOut(key)
        <4>1. PICK p \in Pipeline : x = Sole(p) /\ IsAlias(p) /\ \E h \in Through(key) : holds[h] = p
          BY <3>3 DEF LeftOut
        <4>2. PICK h \in Through(key) : holds[h] = p
          BY <4>1
        <4>3. PICK q \in from : h = flat[q].origin
          BY <1>7, <4>2
        <4>4. x \in SharedStage(flat[q].origin)
          BY <4>1, <4>2, <4>3 DEF SharedStage
        <4> QED BY <3>1, <4>4
      <3> QED BY <3>1, <3>2, <3>3
    <2>2. flat[q].env # Unset
      BY <1>1, <1>6, <2>1 DEF EnvsHaveSource
    <2> QED BY <1>3, <1>4, <2>2
  <1>11. ASSUME own, Len(key) > 2 PROVE value = Own
    <2>1. /\ Front(key) \in DOMAIN flat /\ Len(Front(key)) = Len(key) - 1 /\ key \in Seq(Part)
      <3>1. Front(key) # <<Top>> => Front(key) \in DOMAIN flat
        BY <1>1, KeyInPipeline
      <3>2. Len(Front(key)) = Len(key) - 1 /\ key \in Seq(Part)
        BY <1>1, KeyInPipeline
      <3>3. Len(<<Top>>) = 1
        OBVIOUS
      <3>4. Len(key) \in Nat
        BY <3>2
      <3>5. Front(key) = <<Top>> => Len(Front(key)) = 1
        BY <3>3
      <3>6. Len(Front(key)) # 1
        BY <1>11, <3>2, <3>4
      <3> QED BY <3>1, <3>2, <3>5, <3>6
    <2>2. Front(key) \in Above(key, level)
      <3>1. Front(key) = SubSeq(key, 1, Len(key) - 1)
        BY DEF Front
      <3>2. Len(key) \in Nat /\ Len(key) <= level
        BY <1>1, <2>1 DEF AtLastLevel
      <3>3. Len(key) - 1 \in 1..(level - 1) \cap 1..(Len(key) - 1)
        BY <1>1, <1>11, <3>2
      <3> QED BY <2>1, <3>1, <3>3 DEF Above
    <2> QED BY <1>3, <1>4, <1>11, <2>2
  <1> QED BY <1>9, <1>10, <1>11 DEF value, sources, id

-----------------------------------------------------------------------------
(***************************************************************************)
(* The theorems                                                            *)
(***************************************************************************)
LEMMA InvariantsHold == DSpec => [](GraphInv /\ FlattenInv /\ RebuildInv)
  <1>1. DInit => GraphInv /\ FlattenInv /\ RebuildInv
    BY InitOfFlatten
  <1>2. GraphInv /\ FlattenInv /\ RebuildInv /\ [DNext]_allVars => (GraphInv /\ FlattenInv /\ RebuildInv)'
    BY GraphGoesOn, FlattenStep, RebuildStep
  <1> QED BY <1>1, <1>2, PTL DEF DSpec

\* The variables of the graph and, once a pipeline is flattened, those of the
\* tables have their types.
THEOREM DenormalizeTypes == DSpec => [](GraphTypeOK /\ (phase # "load" => FlattenTypeOK))
  <1>1. GraphInv /\ FlattenInv => GraphTypeOK /\ (phase # "load" => FlattenTypeOK)
    BY DEF GraphInv, FlattenInv, TablesInv
  <1> QED BY <1>1, InvariantsHold, PTL

\* Flattening does not change what the graph is: a pipeline that gets there has
\* no cycle, and its walk is complete.
THEOREM DenormalizedGraph == DSpec => [](CycleIsFound /\ EveryStageIsListed)
  BY InvariantsHold, CyclesAreFound, StagesAreListed, PTL

\* Whatever the pipelines are, Flatten dereferences nil only where one name for
\* a pipeline stands behind another.
THEOREM PanicsNeedNesting == DSpec => []PanicNeedsNesting
  <1>1. FlattenInv => PanicNeedsNesting
    BY DEF FlattenInv
  <1> QED BY <1>1, InvariantsHold, PTL

\* In whatever order stages are defined and maps ranged over, the rebuilt graph
\* has every stage of every nested pipeline, and what each depends on.
THEOREM RebuiltComplete == DSpec => [](NoNameOfAName => RebuiltIsComplete)
  <1>1. GraphInv /\ FlattenInv => (NoNameOfAName => RebuiltIsComplete)
    BY CompleteTable
  <1> QED BY <1>1, InvariantsHold, PTL

\* The value a task is run with is its own or that of a stage above it, and is
\* not lost on the way.
THEOREM EnvsFromAbove == DSpec => [](NoNameOfAName => EnvHasSource)
  <1>1. GraphInv /\ FlattenInv /\ RebuildInv => (NoNameOfAName => EnvHasSource)
    BY ValueHasSource
  <1> QED BY <1>1, InvariantsHold, PTL
=============================================================================
