------------------------------ MODULE Amounts ------------------------------
(***************************************************************************)
(* Rounding and sharing out, as the calculations do it.  The program       *)
(* computes with decimals and rounds to four places; here an amount is a   *)
(* whole number of its smallest unit and a rate a whole number of parts of *)
(* One, so that every rounding is one of whole numbers.  What the program  *)
(* loses beyond the twentieth digit of a quotient is not modelled.         *)
(***************************************************************************)
EXTENDS Integers, Sequences, Sums

CONSTANT One  \* parts a rate is counted in; 10 000 in the program

ASSUME AmountsAssumption == One \in Nat \ {0}

\* a/b rounded to the nearest, halves away from zero.
HalfUp(a, b) == IF a < 0 THEN -((2 * (-a) + b) \div (2 * b)) ELSE (2 * a + b) \div (2 * b)

\* a/b without its fraction.
Down(a, b) == IF a < 0 THEN -((-a) \div b) ELSE a \div b

\* The least whole number that is not below a/b.
CeilDiv(a, b) == (a + b - 1) \div b

Months == 1..12
=============================================================================
