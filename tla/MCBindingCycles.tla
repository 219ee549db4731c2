--------------------------- MODULE MCBindingCycles ---------------------------
(* Instances of BindingCycles for TLC. *)
EXTENDS BindingCycles

MCBinding(s, t) == [source |-> s, target |-> t, disabled |-> FALSE]

\* Any four bindings of three resources; any graph in which each of four has
\* one binding; any two bindings, disabled or without an end among them.
MCInputs ==
  [1..4 -> {MCBinding(s, t) : s, t \in 1..3}]
    \cup {[n \in 1..4 |-> MCBinding(n, f[n])] : f \in [1..4 -> 1..4]}
    \cup [1..2 -> [source : 0..2, target : 0..2, disabled : BOOLEAN]]
=============================================================================
