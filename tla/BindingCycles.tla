---------------------------- MODULE BindingCycles ----------------------------
(***************************************************************************)
(* internal/binding/registry.go detectCycles: a depth-first search of the  *)
(* graph whose edges are the resolved bindings, from source to target, and *)
(* which stops at the first edge that leads back to a node being visited.  *)
(*                                                                         *)
(* A node is the place of its identity in the order of strings; a binding  *)
(* is its place in the slice, which is sorted by identity.  The recursion  *)
(* is unfolded: the stack of the code is the stack of calls, and at[x] is  *)
(* how far the loop of the call for x has come.                            *)
(***************************************************************************)
EXTENDS Integers, Sequences, SequencesExt

CONSTANTS
  Nodes,    (* the resources that bindings may name                       *)
  Inputs    (* the slices of resolved bindings to search                  *)

NoNode == 0   (* a reference that is missing or malformed has no name     *)

\* What the search sees of a binding; allowCycles of its definition it does not.
Binding == [source : Nodes \cup {NoNode}, target : Nodes \cup {NoNode},
            disabled : BOOLEAN]

ASSUME NodesAssumption == Nodes \subseteq Nat \ {NoNode}
ASSUME BindingsAssumption == Inputs \subseteq Seq(Binding)

VARIABLES
  bindings,   (* the slice                                                *)
  pc,
  root,       (* the node of the outer loop                               *)
  call,       (* the argument of the call of visit about to start         *)
  visited,    (* 0: not yet, 1: in progress, 2: done                      *)
  stack,
  at,
  diags       (* the bindings DBIND013 is reported for                    *)

vars == <<bindings, pc, root, call, visited, stack, at, diags>>

\* The bindings that count as edges, and those out of one node.
EdgeBindings ==
  {j \in DOMAIN bindings :
     /\ ~bindings[j].disabled
     /\ bindings[j].source # NoNode /\ bindings[j].target # NoNode}
Out_DisabledToo(x) ==
  {j \in DOMAIN bindings : bindings[j].source = x /\ bindings[j].target # NoNode}
Out(x) == {j \in EdgeBindings : bindings[j].source = x}

Sources == {bindings[j].source : j \in EdgeBindings}

Init ==
  /\ bindings \in Inputs
  /\ pc = "roots"
  /\ root = NoNode /\ call = NoNode
  /\ visited = [x \in Nodes |-> 0]
  /\ stack = <<>>
  /\ at = [x \in Nodes |-> 1]
  /\ diags = {}

\* Where visit returns false to.
Caller(s) == IF s = <<>> THEN "roots" ELSE "loop"

NextRoot ==
  /\ pc = "roots"
  /\ \E x \in Sources :
       /\ root < x
       /\ \A y \in Sources : root < y => x <= y
       /\ root' = x /\ call' = x
  /\ pc' = "enter"
  /\ UNCHANGED <<bindings, visited, stack, at, diags>>

AllRoots_FirstOnly ==
  /\ pc = "roots" /\ (root # NoNode \/ Sources = {})
  /\ pc' = "done"
  /\ UNCHANGED <<bindings, root, call, visited, stack, at, diags>>

AllRoots ==
  /\ pc = "roots"
  /\ \A x \in Sources : x <= root
  /\ pc' = "done"
  /\ UNCHANGED <<bindings, root, call, visited, stack, at, diags>>

\* The call finds a node that is done.
Known ==
  /\ pc = "enter" /\ visited[call] = 2
  /\ pc' = Caller(stack)
  /\ UNCHANGED <<bindings, root, call, visited, stack, at, diags>>

\* The call finds a node that is being visited: the edge from the node on top
\* of the stack closes a cycle.  bindingForEdge has the last binding of that
\* edge.  Every call returns true and the outer loop breaks.
FoundCycle ==
  /\ pc = "enter" /\ visited[call] = 1
  /\ IF stack = <<>>
       THEN UNCHANGED diags
       ELSE \E j \in Out(Last(stack)) :
              /\ bindings[j].target = call
              /\ \A k \in Out(Last(stack)) : bindings[k].target = call => k <= j
              /\ diags' = {j}
  /\ pc' = "done"
  /\ UNCHANGED <<bindings, root, call, visited, stack, at>>

Enter ==
  /\ pc = "enter" /\ visited[call] = 0
  /\ visited' = [visited EXCEPT ![call] = 1]
  /\ stack' = Append(stack, call)
  /\ pc' = "loop"
  /\ UNCHANGED <<bindings, root, call, at, diags>>

Child_NoProgress ==
  /\ pc = "loop"
  /\ \E j \in Out(Last(stack)) :
       /\ at[Last(stack)] <= j
       /\ \A k \in Out(Last(stack)) : at[Last(stack)] <= k => j <= k
       /\ call' = bindings[j].target
       /\ at' = [at EXCEPT ![Last(stack)] = j]
  /\ pc' = "enter"
  /\ UNCHANGED <<bindings, root, visited, stack, diags>>

Child ==
  /\ pc = "loop"
  /\ \E j \in Out(Last(stack)) :
       /\ at[Last(stack)] <= j
       /\ \A k \in Out(Last(stack)) : at[Last(stack)] <= k => j <= k
       /\ call' = bindings[j].target
       /\ at' = [at EXCEPT ![Last(stack)] = j + 1]
  /\ pc' = "enter"
  /\ UNCHANGED <<bindings, root, visited, stack, diags>>

Leave_StaysVisited ==
  /\ pc = "loop"
  /\ \A j \in Out(Last(stack)) : j < at[Last(stack)]
  /\ stack' = Front(stack)
  /\ pc' = Caller(Front(stack))
  /\ UNCHANGED <<bindings, root, call, visited, at, diags>>

Leave ==
  /\ pc = "loop"
  /\ \A j \in Out(Last(stack)) : j < at[Last(stack)]
  /\ stack' = Front(stack)
  /\ visited' = [visited EXCEPT ![Last(stack)] = 2]
  /\ pc' = Caller(Front(stack))
  /\ UNCHANGED <<bindings, root, call, at, diags>>

visit == Known \/ FoundCycle \/ Enter \/ Child \/ Leave

detectCycles == NextRoot \/ AllRoots \/ visit

Done == pc = "done" /\ UNCHANGED vars

Next == detectCycles \/ Done

SafeSpec == Init /\ [][Next]_vars

\* One goroutine, which runs.
Spec == SafeSpec /\ WF_vars(detectCycles)

-----------------------------------------------------------------------------
(* The graph, apart from the search. *)

Edge(x, y) == \E j \in EdgeBindings :
                bindings[j].source = x /\ bindings[j].target = y

ClosedSet(S) == \A x \in S, y \in Nodes : Edge(x, y) => y \in S

\* There is a path, of one node or more, from x to y.
Reaches(x, y) == \A S \in SUBSET Nodes : (x \in S /\ ClosedSet(S)) => y \in S

-----------------------------------------------------------------------------
TypeOK ==
  /\ bindings \in Inputs
  /\ pc \in {"roots", "enter", "loop", "done"}
  /\ root \in Nodes \cup {NoNode}
  /\ call \in Nodes \cup {NoNode}
  /\ pc = "enter" => call \in Nodes
  /\ pc = "loop" => stack # <<>>
  /\ visited \in [Nodes -> 0..2]
  /\ stack \in Seq(Nodes)
  /\ at \in [Nodes -> Nat \ {0}]
  /\ diags \subseteq EdgeBindings

\* "The resolver validates references, provider compatibility, cycles"
\* (docs/adrs/ADR-0055-bindings.md:7): if there is a cycle of bindings, the
\* search reports one, from whichever root and through whatever nodes are done.
CycleReported ==
  (pc = "done" /\ diags = {}) =>
    \A x, y \in Nodes : Edge(x, y) => ~Reaches(y, x)

\* A binding that is reported closes a cycle of bindings: to remove it is to
\* break one, as the remediation of DBIND013 has it.
NoFalseCycle ==
  \A j \in diags : Reaches(bindings[j].target, bindings[j].source)

\* The search ends, on cyclic graphs too.
Termination == <>(pc = "done")
=============================================================================
