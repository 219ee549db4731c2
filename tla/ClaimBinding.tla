---------------------------- MODULE ClaimBinding ----------------------------
(***************************************************************************)
(* What docs/specification/storage.md promises of claims and volumes, with *)
(* no classes, capacities, orders or loops: each claim is answered once,   *)
(* with a volume of its own or with a refusal, and an answer stands.       *)
(***************************************************************************)
VARIABLES
  open,   (* the claims that have no answer yet                           *)
  bound   (* the pairs <<claim, volume>> settled so far                   *)

bvars == <<open, bound>>

Init == bound = {}

\* Claim c is answered with a volume that no claim has.
Bind(c) ==
  /\ c \in open
  /\ open' = open \ {c}
  /\ \E p \in bound' :
       /\ bound' = bound \cup {p}
       /\ p[1] = c
       /\ \A q \in bound : q[2] # p[2]

Refuse(c) ==
  /\ c \in open
  /\ open' = open \ {c}
  /\ UNCHANGED bound

Next == \E c \in open : Bind(c) \/ Refuse(c)

Spec == Init /\ [][Next]_bvars
=============================================================================
