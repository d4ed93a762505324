----------------------------- MODULE FixedPoint -----------------------------
(***************************************************************************)
(* The decimal arithmetic the payee computes with.  shopspring/decimal     *)
(* adds and multiplies exactly, Div rounds to 16 digits (the library's     *)
(* DivisionPrecision) half away from zero, and handlers truncate results to*)
(* 16 digits (market columns) or to 8 digits (amounts that leave the       *)
(* wallet).                                                                *)
(*                                                                         *)
(* A decimal x with 16 digits is the integer x * ONE, and an amount with 8 *)
(* digits is a multiple of QUANTUM.  The code's instance is ONE = 10^16    *)
(* and QUANTUM = 10^8; the operators are the same for every scale.  The    *)
(* product of k decimals has scale ONE^k.                                  *)
(***************************************************************************)
EXTENDS Integers

CONSTANTS
  ONE,      \* 1.0, that is 10^16 in the code
  QUANTUM   \* the smallest amount a transfer can carry, 10^-8 in the code

ASSUME ScaleAssumption ==
  /\ ONE \in Nat \ {0}
  /\ QUANTUM \in Nat \ {0}
  /\ ONE % QUANTUM = 0

\* Decimal.Truncate: towards zero.
Trunc(a, q) == IF a >= 0 THEN a \div q ELSE -((-a) \div q)

\* Decimal.Div: to the nearest unit, half away from zero.
DivRound(a, b) == IF a >= 0 THEN (2 * a + b) \div (2 * b)
                            ELSE -((b - 2 * a) \div (2 * b))

\* Shift(16).Ceil().Shift(-16) of a value q times finer than a unit.
CeilDiv(a, q) == -((-a) \div q)

\* a.Mul(b).Truncate(16), a.Div(b), a.Truncate(8)
Mul16(a, b) == Trunc(a * b, ONE)
Div16(a, b) == DivRound(a * ONE, b)
Trunc8(a)   == Trunc(a, QUANTUM) * QUANTUM

\* What a decimal(64,8) column stores: the database rounds half up.
Column8(a)  == DivRound(a, QUANTUM) * QUANTUM

Former(a, b) == a
Lesser(a, b) == IF a <= b THEN a ELSE b
=============================================================================
