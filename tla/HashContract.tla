---------------------------- MODULE HashContract ----------------------------
(***************************************************************************)
(* What hashResources promises its caller, with no goroutine, channel or   *)
(* loop: one answer, given at once, that is the answer of a sequential     *)
(* loop over the resources.  A cancelled context may stop that loop after  *)
(* any number of resources, and then the answer says so.                   *)
(***************************************************************************)
EXTENDS Integers

CONSTANTS
  N,              (* the number of resources                              *)
  PlansOf(_),     (* the plans of a set of resources                      *)
  DiagsOf(_, _)   (* its diagnostics, and whether a cancellation is one   *)

VARIABLES
  ctxDone,  (* the context passed in has been cancelled                   *)
  answer    (* [returned, plans, diags]: the two values returned          *)

cvars == <<ctxDone, answer>>

NoAnswer == [returned |-> FALSE, plans |-> <<>>, diags |-> {}]

Init == ctxDone = FALSE /\ answer = NoAnswer

Cancel == ~ctxDone /\ ctxDone' = TRUE /\ UNCHANGED answer

\* The first n resources were hashed: all of them, unless cancelled.
Return(n) ==
  /\ ~answer.returned
  /\ n < N => ctxDone
  /\ answer' = [returned |-> TRUE,
                plans    |-> PlansOf(1..n),
                diags    |-> DiagsOf(1..n, ctxDone)]
  /\ UNCHANGED ctxDone

Next == Cancel \/ \E n \in 0..N : Return(n)

SafeSpec == Init /\ [][Next]_cvars

Spec == SafeSpec /\ WF_cvars(\E n \in 0..N : Return(n))
=============================================================================
