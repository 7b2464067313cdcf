------------------------------ MODULE GoArith -------------------------------
(* Integer arithmetic as Go does it.                                        *)
EXTENDS Integers

Least(a, b) == IF a <= b THEN a ELSE b

(* Division truncates towards zero.                                         *)
Quot(a, b) == IF a >= 0 THEN a \div b ELSE -((-a) \div b)

(* (a + b - 1) / b, for a >= 0.                                             *)
CeilQuot(a, b) == (a + b - 1) \div b

(* math.Round(h / 2): halves go away from zero.                             *)
RoundHalf(h) == IF h >= 0 THEN (h + 1) \div 2 ELSE -((1 - h) \div 2)
=============================================================================
