----------------------------- MODULE Quantities -----------------------------
(***************************************************************************)
(* Storage quantities: internal/compiler/storage.go parseQuantity and      *)
(* capacityAtLeast.  Validation only asks for digits and a unit            *)
(* (internal/validation/validate.go:19), so the number has no upper bound, *)
(* and parseQuantity works in an int64 that clamps the number and wraps    *)
(* the product.  Modulus is 2^64 in the code; the runs use a small power   *)
(* of two, for which the same things happen to smaller numbers.            *)
(***************************************************************************)
EXTENDS Integers

CONSTANTS
  Modulus,    (* how many values the integer type has                     *)
  Multiplier  (* Multiplier[u]: what one unit u stands for                *)

Units == DOMAIN Multiplier

ASSUME QuantitiesAssumption ==
  /\ Modulus \in Nat \ {0}
  /\ Modulus % 2 = 0
  /\ Multiplier \in [Units -> Nat \ {0}]

\* A quantity as validation lets it through: a positive number and a unit.
Quantity == [n : Nat \ {0}, unit : Units]

Half == Modulus \div 2

\* Two's complement: the representative of x in -Half .. Half - 1.
Wrap(x) == ((x + Half) % Modulus) - Half

\* strconv.ParseInt with its error ignored answers the largest integer for a
\* number out of range.
ParseInt(n) == IF n >= Half THEN Half - 1 ELSE n

parseQuantity(q) == Wrap(ParseInt(q.n) * Multiplier[q.unit])

capacityAtLeast_IgnoresUnits(volume, claim) ==
  ParseInt(volume.n) >= ParseInt(claim.n)

capacityAtLeast(volume, claim) == parseQuantity(volume) >= parseQuantity(claim)

\* The number of bytes a quantity means.
Bytes(q) == q.n * Multiplier[q.unit]
=============================================================================
