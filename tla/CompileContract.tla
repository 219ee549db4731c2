--------------------------- MODULE CompileContract ---------------------------
(***************************************************************************)
(* What CompileDocuments promises a command of the CLI: one answer, either *)
(* the bundle of the whole specification or an error, and an error only    *)
(* for a flaw of the specification or a cancelled context.                 *)
(***************************************************************************)
CONSTANT
  Bundle    (* the plans of all the resources of the specification        *)

VARIABLES
  ctxDone,  (* the context passed in has been cancelled                   *)
  flawless, (* no document, resource or plan of the specification is at   *)
            (* fault                                                      *)
  answer    (* [returned, files, failed]                                  *)

kvars == <<ctxDone, flawless, answer>>

NoFiles == <<>>

NoAnswer == [returned |-> FALSE, files |-> NoFiles, failed |-> FALSE]

Init ==
  /\ ctxDone = FALSE
  /\ flawless \in BOOLEAN
  /\ answer = NoAnswer

Cancel ==
  /\ ~ctxDone
  /\ ctxDone' = TRUE
  /\ UNCHANGED <<flawless, answer>>

\* The bundle; a cancellation may come too late to prevent it.
Succeed ==
  /\ answer = NoAnswer /\ flawless
  /\ answer' = [returned |-> TRUE, files |-> Bundle, failed |-> FALSE]
  /\ UNCHANGED <<ctxDone, flawless>>

Fail ==
  /\ answer = NoAnswer /\ (~flawless \/ ctxDone)
  /\ answer' = [returned |-> TRUE, files |-> NoFiles, failed |-> TRUE]
  /\ UNCHANGED <<ctxDone, flawless>>

Next == Cancel \/ Succeed \/ Fail

SafeSpec == Init /\ [][Next]_kvars

Spec == SafeSpec /\ WF_kvars(Succeed \/ Fail)
=============================================================================
