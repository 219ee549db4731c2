------------------------- MODULE BindingCycles_proofs -------------------------
(***************************************************************************)
(* What detectCycles finds, for any slice of bindings: it reports a cycle  *)
(* when there is one, and a binding it reports closes one.                 *)
(***************************************************************************)
EXTENDS BindingCycles, SequenceLemmas

Depth == Len(stack)

\* The stack is a path of the graph, the nodes on it are those in progress,
\* and the call about to start is for a successor of its top.
StackInv ==
  /\ pc = "roots" => stack = <<>>
  /\ \A i, j \in 1..Depth : stack[i] = stack[j] => i = j
  /\ \A x \in Nodes : visited[x] = 1 <=> \E i \in 1..Depth : stack[i] = x
  /\ \A i, j \in 1..Depth : i <= j => Reaches(stack[i], stack[j])
  /\ (pc = "enter" /\ stack # <<>>) => Edge(stack[Depth], call)

\* What the loops of the calls on the stack have left behind them.
LoopInv ==
  /\ \A x \in Nodes : visited[x] = 0 => at[x] = 1
  /\ \A i \in 1..Depth : \A j \in Out(stack[i]) : j < at[stack[i]] =>
       \/ visited[bindings[j].target] = 2
       \/ i < Depth /\ stack[i + 1] = bindings[j].target
       \/ i = Depth /\ pc \in {"enter", "done"} /\ call = bindings[j].target

\* The nodes that are done: nothing leads out of them, and no cycle is there.
DoneInv ==
  /\ \A x, y \in Nodes : visited[x] = 2 /\ Edge(x, y) => visited[y] = 2
  /\ \A x, y \in Nodes : visited[x] = 2 /\ Edge(x, y) => ~Reaches(y, x)

\* The outer loop.
RootInv ==
  /\ \A x \in Sources : x < root => visited[x] = 2
  /\ root # NoNode /\ pc = "roots" => visited[root] = 2
  /\ stack # <<>> => stack[1] = root
  /\ pc = "enter" /\ stack = <<>> => call = root
  /\ root = NoNode => pc \in {"roots", "done"}
  /\ pc = "done" /\ diags = {} => \A x \in Sources : visited[x] = 2

IInv ==
  TypeOK /\ StackInv /\ LoopInv /\ DoneInv /\ RootInv /\ NoFalseCycle

-----------------------------------------------------------------------------
(* The graph. *)

LEMMA BindingTypes ==
  ASSUME TypeOK
  PROVE  /\ bindings \in Seq(Binding)
         /\ \A j \in EdgeBindings :
              /\ j \in Nat \ {0}
              /\ bindings[j].source \in Nodes /\ bindings[j].target \in Nodes
<1>1. bindings \in Seq(Binding)
  BY BindingsAssumption DEF TypeOK
<1>2. ASSUME NEW j \in DOMAIN bindings
      PROVE  j \in Nat \ {0} /\ bindings[j] \in Binding
  BY <1>1, <1>2, LenProperties
<1>3. QED
  BY <1>1, <1>2 DEF EdgeBindings, Binding

LEMMA SameGraph ==
  ASSUME bindings' = bindings
  PROVE  /\ EdgeBindings' = EdgeBindings
         /\ Sources' = Sources
         /\ \A x : Out(x)' = Out(x)
         /\ \A x, y : Edge(x, y)' <=> Edge(x, y)
         /\ \A x, y : Reaches(x, y)' <=> Reaches(x, y)
<1>1. EdgeBindings' = EdgeBindings
  BY DEF EdgeBindings
<1>2. \A x, y : Edge(x, y)' <=> Edge(x, y)
  BY <1>1 DEF Edge
<1>3. \A S : ClosedSet(S)' <=> ClosedSet(S)
  BY <1>2 DEF ClosedSet
<1>4. \A x, y : Reaches(x, y)' <=> Reaches(x, y)
  BY <1>3 DEF Reaches
<1>5. QED
  BY <1>1, <1>2, <1>4 DEF Sources, Out

LEMMA ReachesItself == \A x : Reaches(x, x)
  BY DEF Reaches

\* A path may be prolonged by an edge.
LEMMA ReachesFurther ==
  ASSUME NEW x, NEW y \in Nodes, NEW z \in Nodes, Reaches(x, y), Edge(y, z)
  PROVE  Reaches(x, z)
  BY DEF Reaches, ClosedSet

\* No path leads out of a set that no edge leads out of.
LEMMA ClosedTraps ==
  ASSUME NEW S \in SUBSET Nodes, ClosedSet(S), NEW x \in S, NEW y, y \notin S
  PROVE  ~Reaches(x, y)
  BY DEF Reaches

\* A node with an edge out of it is a source.
LEMMA EdgeSource ==
  ASSUME NEW x, NEW y, Edge(x, y)
  PROVE  x \in Sources
  BY DEF Edge, Sources

-----------------------------------------------------------------------------
(* The steps. *)

LEMMA InitIInv == Init => IInv
<1> SUFFICES ASSUME Init PROVE IInv
  OBVIOUS
<1>1. TypeOK
  BY EmptySeq DEF Init, TypeOK
<1>2. Depth = 0 /\ 1..Depth = {}
  BY DEF Init, Depth
<1>3. \A x \in Nodes : visited[x] = 0
  BY DEF Init
<1>4. StackInv /\ LoopInv
  BY <1>2, <1>3 DEF Init, StackInv, LoopInv
<1>5. DoneInv
  BY <1>3 DEF DoneInv
<1>6. RootInv /\ NoFalseCycle
  <2>1. \A x \in Sources : x \in Nat
    BY <1>1, BindingTypes, NodesAssumption DEF Sources
  <2>2. \A x \in Sources : ~(x < NoNode)
    BY <2>1 DEF NoNode
  <2>3. QED
    BY <2>2 DEF Init, RootInv, NoFalseCycle
<1>7. QED
  BY <1>1, <1>4, <1>5, <1>6 DEF IInv

LEMMA NextRootStep == IInv /\ NextRoot => IInv'
<1> SUFFICES ASSUME IInv, NextRoot PROVE IInv'
  OBVIOUS
<1> USE DEF IInv
<1>1. PICK x \in Sources :
        /\ root < x /\ (\A y \in Sources : root < y => x <= y)
        /\ root' = x /\ call' = x
  BY DEF NextRoot
<1>2. /\ pc = "roots" /\ pc' = "enter" /\ stack = <<>> /\ stack' = <<>>
      /\ UNCHANGED <<bindings, visited, at, diags>>
  BY DEF NextRoot, StackInv
<1>3. Depth = 0 /\ Depth' = 0
  BY <1>2 DEF Depth
<1>4. \A y \in Sources : y \in Nodes /\ y \in Nat \ {0}
  BY BindingTypes, NodesAssumption DEF Sources, NoNode
<1>5. TypeOK'
  BY <1>1, <1>2, <1>4, SameGraph DEF TypeOK
<1>6. StackInv' /\ LoopInv' /\ DoneInv'
  BY <1>2, <1>3, SameGraph DEF StackInv, LoopInv, DoneInv
<1>7. RootInv'
  <2>1. \A y \in Sources : y < x => y <= root
    <3>1. root \in Nat
      BY NodesAssumption DEF TypeOK, NoNode
    <3>2. QED
      BY <1>1, <1>4, <3>1
  <2>2. \A y \in Sources : y <= root => visited[y] = 2
    <3>1. root \in Nat
      BY NodesAssumption DEF TypeOK, NoNode
    <3>2. QED
      BY <1>2, <1>4, <3>1 DEF RootInv, NoNode
  <2>3. x # NoNode
    BY <1>4 DEF NoNode
  <2>4. QED
    BY <1>1, <1>2, <2>1, <2>2, <2>3, SameGraph DEF RootInv
<1>8. NoFalseCycle'
  BY <1>2, SameGraph DEF NoFalseCycle
<1>9. QED
  BY <1>5, <1>6, <1>7, <1>8

LEMMA AllRootsStep == IInv /\ AllRoots => IInv'
<1> SUFFICES ASSUME IInv, AllRoots PROVE IInv'
  OBVIOUS
<1> USE DEF IInv
<1>1. /\ pc = "roots" /\ pc' = "done" /\ stack = <<>>
      /\ (\A x \in Sources : x <= root)
      /\ UNCHANGED <<bindings, root, call, visited, stack, at, diags>>
  BY DEF AllRoots, StackInv
<1>2. Depth = 0 /\ Depth' = 0
  BY <1>1 DEF Depth
<1>3. TypeOK'
  BY <1>1, SameGraph DEF TypeOK
<1>4. StackInv' /\ LoopInv' /\ DoneInv' /\ NoFalseCycle'
  BY <1>1, <1>2, SameGraph DEF StackInv, LoopInv, DoneInv, NoFalseCycle
<1>5. \A x \in Sources : visited[x] = 2
  <2>1. \A x \in Sources : x \in Nat \ {0}
    BY BindingTypes, NodesAssumption DEF Sources, NoNode
  <2>2. root \in Nat
    BY NodesAssumption DEF TypeOK, NoNode
  <2>3. QED
    BY <1>1, <2>1, <2>2 DEF RootInv, NoNode
<1>6. RootInv'
  BY <1>1, <1>5, SameGraph DEF RootInv
<1>7. QED
  BY <1>3, <1>4, <1>6

LEMMA KnownStep == IInv /\ Known => IInv'
<1> SUFFICES ASSUME IInv, Known PROVE IInv'
  OBVIOUS
<1> USE DEF IInv
<1>1. /\ pc = "enter" /\ visited[call] = 2
      /\ pc' = (IF stack = <<>> THEN "roots" ELSE "loop")
      /\ UNCHANGED <<bindings, root, call, visited, stack, at, diags>>
  BY DEF Known, Caller
<1>2. Depth' = Depth
  BY <1>1 DEF Depth
<1>3. TypeOK'
  BY <1>1, SameGraph DEF TypeOK
<1>4. StackInv' /\ DoneInv' /\ NoFalseCycle'
  BY <1>1, <1>2, SameGraph DEF StackInv, DoneInv, NoFalseCycle
<1>5. LoopInv'
  BY <1>1, <1>2, SameGraph DEF LoopInv
<1>6. RootInv'
  BY <1>1, SameGraph DEF RootInv
<1>7. QED
  BY <1>3, <1>4, <1>5, <1>6

LEMMA FoundCycleStep == IInv /\ FoundCycle => IInv'
<1> SUFFICES ASSUME IInv, FoundCycle PROVE IInv'
  OBVIOUS
<1> USE DEF IInv
<1>1. /\ pc = "enter" /\ visited[call] = 1 /\ pc' = "done" /\ call \in Nodes
      /\ UNCHANGED <<bindings, root, call, visited, stack, at>>
  BY DEF FoundCycle, TypeOK
<1>2. PICK i \in 1..Depth : stack[i] = call
  BY <1>1 DEF StackInv
<1>3. Depth \in Nat /\ stack # <<>>
  <2>1. Depth \in Nat
    BY LenProperties DEF Depth, TypeOK
  <2>2. stack = <<>> => Depth = 0
    BY DEF Depth
  <2>3. QED
    BY <1>2, <2>1, <2>2
<1>4. Last(stack) = stack[Depth] /\ Depth \in 1..Depth
  <2>1. stack \in Seq(Nodes)
    BY DEF TypeOK
  <2>2. Last(stack) = stack[Len(stack)] /\ Len(stack) \in Nat \ {0}
    BY <1>3, <2>1, FrontLast
  <2>3. QED
    BY <2>2 DEF Depth
<1>5. PICK j \in Out(Last(stack)) : bindings[j].target = call /\ diags' = {j}
  BY <1>3 DEF FoundCycle
<1>6. j \in EdgeBindings /\ bindings[j].source = stack[Depth]
  BY <1>4, <1>5 DEF Out
<1>7. Reaches(bindings[j].target, bindings[j].source)
  <2>1. i <= Depth
    BY <1>2, <1>3
  <2>2. QED
    BY <1>2, <1>4, <1>5, <1>6, <2>1 DEF StackInv
<1>8. Depth' = Depth
  BY <1>1 DEF Depth
<1>9. TypeOK'
  BY <1>1, <1>5, <1>6, SameGraph DEF TypeOK
<1>10. StackInv' /\ DoneInv'
  BY <1>1, <1>8, SameGraph DEF StackInv, DoneInv
<1>11. LoopInv'
  BY <1>1, <1>8, SameGraph DEF LoopInv
<1>12. RootInv'
  BY <1>1, <1>5, SameGraph DEF RootInv
<1>13. NoFalseCycle'
  BY <1>1, <1>5, <1>7, SameGraph DEF NoFalseCycle
<1>14. QED
  BY <1>9, <1>10, <1>11, <1>12, <1>13

LEMMA EnterStep == IInv /\ Enter => IInv'
<1> SUFFICES ASSUME IInv, Enter PROVE IInv'
  OBVIOUS
<1> USE DEF IInv
<1>1. /\ pc = "enter" /\ visited[call] = 0 /\ call \in Nodes /\ pc' = "loop"
      /\ visited' = [visited EXCEPT ![call] = 1]
      /\ stack' = Append(stack, call)
      /\ UNCHANGED <<bindings, root, call, at, diags>>
  BY DEF Enter, TypeOK
<1>2. /\ visited'[call] = 1
      /\ \A x \in Nodes : x # call => visited'[x] = visited[x]
      /\ \A x \in Nodes : visited'[x] = 2 <=> visited[x] = 2
  BY <1>1 DEF TypeOK
<1>3. /\ Depth \in Nat /\ stack \in Seq(Nodes) /\ stack' \in Seq(Nodes)
      /\ stack' # <<>>
      /\ Depth' = Depth + 1 /\ stack'[Depth + 1] = call
      /\ \A i \in 1..Depth : stack'[i] = stack[i]
  <2>1. stack \in Seq(Nodes)
    BY DEF TypeOK
  <2>2. /\ Len(stack) \in Nat /\ stack' \in Seq(Nodes)
        /\ Len(stack') = Len(stack) + 1 /\ stack'[Len(stack) + 1] = call
        /\ \A i \in 1..Len(stack) : stack'[i] = stack[i]
    BY <1>1, <2>1, LenProperties
  <2>3. stack' # <<>>
    BY <2>2
  <2>4. QED
    BY <2>1, <2>2, <2>3 DEF Depth
<1>4. TypeOK'
  <2>1. visited' \in [Nodes -> 0..2]
    BY <1>1 DEF TypeOK
  <2>2. QED
    BY <1>1, <1>3, <2>1, SameGraph DEF TypeOK
<1>5. \A i \in 1..Depth' : i \in 1..Depth \/ i = Depth + 1
  BY <1>3
<1>6. \A i \in 1..Depth : stack[i] # call /\ stack[i] \in Nodes
  <2>1. \A i \in 1..Depth : stack[i] \in Nodes
    BY <1>3, LenProperties DEF Depth
  <2>2. QED
    BY <1>1, <2>1 DEF StackInv
<1>7. StackInv'
  <2>1. \A i, j \in 1..Depth' : stack'[i] = stack'[j] => i = j
    BY <1>3, <1>5, <1>6 DEF StackInv
  <2>2. \A x \in Nodes : visited'[x] = 1 <=> \E i \in 1..Depth' : stack'[i] = x
    <3> TAKE x \in Nodes
    <3>1. CASE x = call
      <4>1. Depth + 1 \in 1..Depth'
        BY <1>3
      <4>2. QED
        BY <1>2, <1>3, <3>1, <4>1
    <3>2. CASE x # call
      <4>1. (\E i \in 1..Depth' : stack'[i] = x) <=> \E i \in 1..Depth : stack[i] = x
        BY <1>3, <1>5, <3>2
      <4>2. QED
        BY <1>2, <3>2, <4>1 DEF StackInv
    <3>3. QED
      BY <3>1, <3>2
  <2>3. \A i \in 1..Depth : Reaches(stack[i], call)
    <3> TAKE i \in 1..Depth
    <3>1. Depth \in 1..Depth /\ i <= Depth /\ stack # <<>>
      <4>1. stack = <<>> => Depth = 0
        BY DEF Depth
      <4>2. QED
        BY <1>3, <4>1
    <3>2. Reaches(stack[i], stack[Depth]) /\ Edge(stack[Depth], call)
      BY <1>1, <3>1 DEF StackInv
    <3>3. QED
      BY <1>1, <1>6, <3>1, <3>2, ReachesFurther
  <2>4. \A i, j \in 1..Depth' : i <= j => Reaches(stack'[i], stack'[j])
    <3> SUFFICES ASSUME NEW i \in 1..Depth', NEW j \in 1..Depth', i <= j
                 PROVE  Reaches(stack'[i], stack'[j])
      OBVIOUS
    <3>1. CASE j \in 1..Depth
      <4>1. i \in 1..Depth
        BY <1>3, <3>1
      <4>2. QED
        BY <1>3, <3>1, <4>1 DEF StackInv
    <3>2. CASE j = Depth + 1 /\ i \in 1..Depth
      BY <1>3, <2>3, <3>2
    <3>3. CASE j = Depth + 1 /\ i = Depth + 1
      BY <1>3, <3>3, ReachesItself
    <3>4. QED
      BY <1>5, <3>1, <3>2, <3>3
  <2>5. QED
    BY <1>1, <2>1, <2>2, <2>4, SameGraph DEF StackInv
<1>8. LoopInv'
  <2>1. \A x \in Nodes : visited'[x] = 0 => at[x] = 1
    BY <1>1, <1>2 DEF LoopInv
  <2>2. ASSUME NEW i \in 1..Depth', NEW j \in Out(stack'[i]), j < at[stack'[i]]
        PROVE  \/ visited'[bindings[j].target] = 2
               \/ i < Depth' /\ stack'[i + 1] = bindings[j].target
    <3>1. bindings[j].target \in Nodes
      BY BindingTypes DEF Out
    <3>2. CASE i \in 1..Depth
      <4>1. /\ j \in Out(stack[i]) /\ j < at[stack[i]]
            /\ i < Depth => i + 1 \in 1..Depth
            /\ i < Depth'
        BY <1>3, <2>2, <3>2
      <4>2. \/ visited[bindings[j].target] = 2
            \/ i < Depth /\ stack[i + 1] = bindings[j].target
            \/ i = Depth /\ call = bindings[j].target
        BY <3>2, <4>1 DEF LoopInv
      <4>3. QED
        BY <1>2, <1>3, <3>1, <4>1, <4>2
    <3>3. CASE i = Depth + 1
      <4>1. j < 1
        BY <1>1, <1>3, <2>2, <3>3 DEF LoopInv
      <4>2. j \in Nat \ {0}
        BY BindingTypes DEF Out
      <4>3. QED
        BY <4>1, <4>2
    <3>4. QED
      BY <1>5, <3>2, <3>3
  <2>3. EdgeBindings' = EdgeBindings
    BY <1>1, SameGraph
  <2>4. bindings' = bindings /\ at' = at
    BY <1>1
  <2>5. \A i \in 1..Depth' : Out(stack[i])' = Out(stack'[i])
    BY <2>3, <2>4 DEF Out
  <2>6. QED
    BY <2>1, <2>2, <2>4, <2>5 DEF LoopInv
<1>9. DoneInv'
  <2>1. \A x, y \in Nodes : visited'[x] = 2 /\ Edge(x, y) => visited'[y] = 2
    BY <1>2 DEF DoneInv
  <2>2. \A x, y \in Nodes : visited'[x] = 2 /\ Edge(x, y) => ~Reaches(y, x)
    BY <1>2 DEF DoneInv
  <2>3. QED
    BY <1>1, <2>1, <2>2, SameGraph DEF DoneInv
<1>10. RootInv'
  <2>1. stack'[1] = root
    <3>1. CASE stack = <<>>
      <4>1. Depth = 0
        BY <3>1 DEF Depth
      <4>2. QED
        BY <1>1, <1>3, <3>1, <4>1 DEF RootInv
    <3>2. CASE stack # <<>>
      <4>1. 1 \in 1..Depth
        BY <1>3, <3>2, EmptySeq DEF Depth
      <4>2. QED
        BY <1>3, <3>2, <4>1 DEF RootInv
    <3>3. QED
      BY <3>1, <3>2
  <2>2. \A x \in Sources : x < root => visited'[x] = 2
    <3>1. Sources \subseteq Nodes
      BY BindingTypes DEF Sources
    <3>2. QED
      BY <1>2, <3>1 DEF RootInv
  <2>3. root # NoNode
    BY <1>1 DEF RootInv
  <2>4. QED
    BY <1>1, <1>3, <2>1, <2>2, <2>3, SameGraph DEF RootInv
<1>11. NoFalseCycle'
  BY <1>1, SameGraph DEF NoFalseCycle
<1>12. QED
  BY <1>4, <1>7, <1>8, <1>9, <1>10, <1>11

LEMMA ChildStep == IInv /\ Child => IInv'
<1> SUFFICES ASSUME IInv, Child PROVE IInv'
  OBVIOUS
<1> USE DEF IInv
<1>1. /\ pc = "loop" /\ pc' = "enter" /\ stack # <<>> /\ stack \in Seq(Nodes)
      /\ UNCHANGED <<bindings, root, visited, stack, diags>>
  BY DEF Child, TypeOK
<1>2. /\ Depth \in Nat \ {0} /\ Depth' = Depth /\ Depth \in 1..Depth
      /\ Last(stack) = stack[Depth] /\ stack[Depth] \in Nodes
  <2>1. Len(stack) \in Nat \ {0} /\ Last(stack) = stack[Len(stack)]
    BY <1>1, FrontLast
  <2>2. Last(stack) \in Nodes
    BY <1>1, FrontLast
  <2>3. QED
    BY <1>1, <2>1, <2>2 DEF Depth
<1>3. PICK b \in Out(stack[Depth]) :
        /\ at[stack[Depth]] <= b
        /\ \A k \in Out(stack[Depth]) : at[stack[Depth]] <= k => b <= k
        /\ call' = bindings[b].target
        /\ at' = [at EXCEPT ![stack[Depth]] = b + 1]
  BY <1>2 DEF Child
<1>4. /\ b \in EdgeBindings /\ b \in Nat \ {0} /\ bindings[b].target \in Nodes
      /\ bindings[b].source = stack[Depth]
  BY BindingTypes DEF Out
<1>5. /\ at'[stack[Depth]] = b + 1
      /\ \A x \in Nodes : x # stack[Depth] => at'[x] = at[x]
      /\ at' \in [Nodes -> Nat \ {0}]
  BY <1>2, <1>3, <1>4 DEF TypeOK
<1>6. TypeOK'
  BY <1>1, <1>3, <1>4, <1>5, SameGraph DEF TypeOK
<1>7. StackInv'
  <2>1. Edge(stack[Depth], call')
    BY <1>3, <1>4 DEF Edge
  <2>2. QED
    BY <1>1, <1>2, <2>1, SameGraph DEF StackInv
<1>8. LoopInv'
  <2>1. ASSUME NEW x \in Nodes, visited[x] = 0
        PROVE  at'[x] = 1
    <3>1. visited[stack[Depth]] = 1
      BY <1>2 DEF StackInv
    <3>2. x # stack[Depth]
      BY <2>1, <3>1
    <3>3. QED
      BY <1>5, <2>1, <3>2 DEF LoopInv
  <2>2. ASSUME NEW i \in 1..Depth, NEW j \in Out(stack[i]), j < at'[stack[i]]
        PROVE  \/ visited[bindings[j].target] = 2
               \/ i < Depth /\ stack[i + 1] = bindings[j].target
               \/ i = Depth /\ call' = bindings[j].target
    <3>1. CASE i # Depth
      <4>1. stack[i] # stack[Depth] /\ stack[i] \in Nodes
        BY <1>1, <1>2, <3>1, LenProperties DEF StackInv, Depth
      <4>2. j < at[stack[i]]
        BY <1>5, <2>2, <4>1
      <4>3. QED
        BY <1>1, <3>1, <4>2 DEF LoopInv
    <3>2. CASE i = Depth
      <4>1. j \in Nat /\ j < b + 1 /\ at[stack[Depth]] \in Nat
        BY <1>2, <1>5, <2>2, <3>2, BindingTypes DEF Out, TypeOK
      <4>2. CASE at[stack[Depth]] <= j
        <5>1. j = b
          BY <1>3, <1>4, <3>2, <4>1, <4>2
        <5>2. QED
          BY <1>3, <3>2, <5>1
      <4>3. CASE j < at[stack[Depth]]
        BY <1>1, <3>2, <4>3 DEF LoopInv
      <4>4. QED
        BY <4>1, <4>2, <4>3
    <3>3. QED
      BY <3>1, <3>2
  <2>3. EdgeBindings' = EdgeBindings
    BY <1>1, SameGraph
  <2>4. QED
    BY <1>1, <1>2, <2>1, <2>2, <2>3 DEF LoopInv, Out
<1>9. DoneInv' /\ NoFalseCycle'
  BY <1>1, SameGraph DEF DoneInv, NoFalseCycle
<1>10. RootInv'
  BY <1>1, SameGraph DEF RootInv
<1>11. QED
  BY <1>6, <1>7, <1>8, <1>9, <1>10

LEMMA LeaveStep == IInv /\ Leave => IInv'
<1> SUFFICES ASSUME IInv, Leave PROVE IInv'
  OBVIOUS
<1> USE DEF IInv
<1>1. /\ pc = "loop" /\ stack # <<>> /\ stack \in Seq(Nodes)
      /\ stack' = Front(stack)
      /\ pc' = (IF stack' = <<>> THEN "roots" ELSE "loop")
      /\ UNCHANGED <<bindings, root, call, at, diags>>
  BY DEF Leave, TypeOK, Caller
<1>2. /\ Depth \in Nat \ {0} /\ Depth \in 1..Depth
      /\ Last(stack) = stack[Depth] /\ stack[Depth] \in Nodes
      /\ stack' \in Seq(Nodes) /\ Depth' = Depth - 1
      /\ \A i \in 1..Depth' : stack'[i] = stack[i] /\ i \in 1..Depth
  <2>1. Len(stack) \in Nat \ {0} /\ Last(stack) = stack[Len(stack)]
    BY <1>1, FrontLast
  <2>2. Last(stack) \in Nodes /\ stack' \in Seq(Nodes) /\ Len(stack') = Len(stack) - 1
    BY <1>1, FrontLast
  <2>3. \A i \in 1..(Len(stack) - 1) : stack'[i] = stack[i]
    BY <1>1, FrontLast
  <2>4. QED
    BY <2>1, <2>2, <2>3 DEF Depth
<1>3. PICK top \in Nodes : top = stack[Depth]
  BY <1>2
<1>4. /\ visited' = [visited EXCEPT ![top] = 2]
      /\ \A j \in Out(top) : j < at[top]
  BY <1>2, <1>3 DEF Leave
<1>5. /\ visited'[top] = 2 /\ visited[top] = 1
      /\ \A x \in Nodes : x # top => visited'[x] = visited[x]
      /\ \A x \in Nodes : visited[x] = 2 => visited'[x] = 2
  BY <1>2, <1>3, <1>4 DEF TypeOK, StackInv
<1>6. stack' # <<>> <=> Depth' # 0
  <2>1. stack' # <<>> => Len(stack') \in Nat \ {0}
    BY <1>2, EmptySeq
  <2>2. stack' = <<>> => Len(stack') = 0
    OBVIOUS
  <2>3. QED
    BY <2>1, <2>2 DEF Depth
<1>7. TypeOK'
  <2>1. visited' \in [Nodes -> 0..2]
    BY <1>4 DEF TypeOK
  <2>2. QED
    BY <1>1, <1>2, <2>1, SameGraph DEF TypeOK
\* Every successor of the node that is left is done.
<1>8. \A y \in Nodes : Edge(top, y) => visited[y] = 2
  <2> SUFFICES ASSUME NEW y \in Nodes, Edge(top, y)
               PROVE  visited[y] = 2
    OBVIOUS
  <2>1. PICK j \in EdgeBindings : bindings[j].source = top /\ bindings[j].target = y
    BY DEF Edge
  <2>2. j \in Out(stack[Depth]) /\ j < at[stack[Depth]]
    BY <1>3, <1>4, <2>1 DEF Out
  <2>3. QED
    BY <1>1, <1>2, <2>1, <2>2 DEF LoopInv
<1>9. DoneInv'
  <2> DEFINE Finished == {x \in Nodes : visited[x] = 2}
  <2>1. ClosedSet(Finished)
    BY DEF ClosedSet, DoneInv
  <2>2. top \notin Finished
    BY <1>5
  <2>3. \A y \in Nodes : Edge(top, y) => ~Reaches(y, top)
    BY <1>8, <2>1, <2>2, ClosedTraps
  <2>4. \A x, y \in Nodes : visited'[x] = 2 /\ Edge(x, y) => visited'[y] = 2
    BY <1>5, <1>8 DEF DoneInv
  <2>5. \A x, y \in Nodes : visited'[x] = 2 /\ Edge(x, y) => ~Reaches(y, x)
    BY <1>5, <2>3 DEF DoneInv
  <2>6. QED
    BY <1>1, <2>4, <2>5, SameGraph DEF DoneInv
<1>10. StackInv'
  <2>1. pc' = "roots" => stack' = <<>>
    BY <1>1
  <2>2. \A i, j \in 1..Depth' : stack'[i] = stack'[j] => i = j
    BY <1>2 DEF StackInv
  <2>3. \A x \in Nodes : visited'[x] = 1 <=> \E i \in 1..Depth' : stack'[i] = x
    <3> TAKE x \in Nodes
    <3>1. CASE x = top
      <4>1. \A i \in 1..Depth' : stack'[i] # top
        <5> TAKE i \in 1..Depth'
        <5>1. i # Depth
          BY <1>2
        <5>2. QED
          BY <1>2, <1>3, <5>1 DEF StackInv
      <4>2. QED
        BY <1>5, <3>1, <4>1
    <3>2. CASE x # top
      <4>1. \A i \in 1..Depth : stack[i] = x => i \in 1..Depth'
        BY <1>2, <1>3, <3>2
      <4>2. (\E i \in 1..Depth' : stack'[i] = x) <=> \E i \in 1..Depth : stack[i] = x
        BY <1>2, <4>1
      <4>3. QED
        BY <1>5, <3>2, <4>2 DEF StackInv
    <3>3. QED
      BY <3>1, <3>2
  <2>4. \A i, j \in 1..Depth' : i <= j => Reaches(stack'[i], stack'[j])
    BY <1>2 DEF StackInv
  <2>5. pc' # "enter"
    BY <1>1
  <2>6. QED
    BY <1>1, <2>1, <2>2, <2>3, <2>4, <2>5, SameGraph DEF StackInv
<1>11. LoopInv'
  <2>1. \A x \in Nodes : visited'[x] = 0 => at[x] = 1
    BY <1>5 DEF LoopInv
  <2>2. ASSUME NEW i \in 1..Depth', NEW j \in Out(stack'[i]), j < at[stack'[i]]
        PROVE  \/ visited'[bindings[j].target] = 2
               \/ i < Depth' /\ stack'[i + 1] = bindings[j].target
    <3>1. /\ i \in 1..Depth /\ i < Depth /\ stack'[i] = stack[i]
          /\ i + 1 = Depth \/ (i < Depth' /\ i + 1 \in 1..Depth')
      BY <1>2
    <3>2. bindings[j].target \in Nodes
      BY BindingTypes DEF Out
    <3>3. \/ visited[bindings[j].target] = 2
          \/ stack[i + 1] = bindings[j].target
      BY <2>2, <3>1 DEF LoopInv
    <3>4. QED
      BY <1>2, <1>3, <1>5, <3>1, <3>2, <3>3
  <2>3. EdgeBindings' = EdgeBindings
    BY <1>1, SameGraph
  <2>4. QED
    BY <1>1, <2>1, <2>2, <2>3 DEF LoopInv, Out
<1>12. RootInv'
  <2>1. Sources \subseteq Nodes
    BY BindingTypes DEF Sources
  <2>2. \A x \in Sources : x < root => visited'[x] = 2
    BY <1>5, <2>1 DEF RootInv
  <2>3. stack' # <<>> => stack'[1] = root
    <3>1. Depth' # 0 => 1 \in 1..Depth'
      BY <1>2
    <3>2. QED
      BY <1>1, <1>2, <1>6, <3>1 DEF RootInv
  <2>4. pc' = "roots" => visited'[root] = 2
    <3>1. pc' = "roots" => Depth = 1
      BY <1>1, <1>2, <1>6
    <3>2. QED
      BY <1>1, <1>3, <1>5, <3>1 DEF RootInv
  <2>5. root # NoNode
    BY <1>1 DEF RootInv
  <2>6. pc' \in {"roots", "loop"}
    BY <1>1
  <2>7. QED
    BY <1>1, <2>2, <2>3, <2>4, <2>5, <2>6, SameGraph DEF RootInv
<1>13. NoFalseCycle'
  BY <1>1, SameGraph DEF NoFalseCycle
<1>14. QED
  BY <1>7, <1>9, <1>10, <1>11, <1>12, <1>13

LEMMA NextIInv == IInv /\ [Next]_vars => IInv'
<1>1. ASSUME IInv, UNCHANGED vars
      PROVE  IInv'
  <2>1. UNCHANGED <<bindings, pc, root, call, visited, stack, at, diags>>
    BY <1>1 DEF vars
  <2>2. Depth' = Depth
    BY <2>1 DEF Depth
  <2>3. TypeOK' /\ DoneInv' /\ NoFalseCycle' /\ RootInv'
    BY <1>1, <2>1, SameGraph DEF IInv, TypeOK, DoneInv, NoFalseCycle, RootInv
  <2>4. StackInv' /\ LoopInv'
    BY <1>1, <2>1, <2>2, SameGraph DEF IInv, StackInv, LoopInv
  <2>5. QED
    BY <2>3, <2>4 DEF IInv
<1>2. QED
  BY <1>1, NextRootStep, AllRootsStep, KnownStep, FoundCycleStep, EnterStep,
     ChildStep, LeaveStep
     DEF Next, detectCycles, visit, Done

LEMMA Invariance == SafeSpec => []IInv
  BY InitIInv, NextIInv, PTL DEF SafeSpec

-----------------------------------------------------------------------------
\* Type correctness of the search.
THEOREM TypeCorrect == SafeSpec => []TypeOK
<1>1. IInv => TypeOK
  BY DEF IInv
<1>2. QED
  BY <1>1, Invariance, PTL

\* detectCycles reports a binding whenever the bindings that are not disabled
\* have a cycle.
THEOREM CyclesAreReported == SafeSpec => []CycleReported
<1>1. IInv => CycleReported
  <2> SUFFICES ASSUME IInv, pc = "done", diags = {},
                      NEW x \in Nodes, NEW y \in Nodes, Edge(x, y)
               PROVE  ~Reaches(y, x)
    BY DEF CycleReported
  <2>1. x \in Sources
    BY EdgeSource
  <2>2. visited[x] = 2
    BY <2>1 DEF IInv, RootInv
  <2>3. QED
    BY <2>2 DEF IInv, DoneInv
<1>2. QED
  BY <1>1, Invariance, PTL

\* detectCycles reports nothing but bindings that close a cycle.
THEOREM ReportsAreCycles == SafeSpec => []NoFalseCycle
<1>1. IInv => NoFalseCycle
  BY DEF IInv
<1>2. QED
  BY <1>1, Invariance, PTL
=============================================================================
