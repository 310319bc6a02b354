----------------------------- MODULE Fractions -----------------------------
(***************************************************************************)
(* Exact fractions, for the Decimal values of the tax lots.  A fraction is *)
(* a pair with the least denominator it can have, so that equal values are *)
(* equal records.  The rounding of Decimal to 28 digits is left out.       *)
(***************************************************************************)
EXTENDS Integers, Functions

\* Some multiple of n / d is whole: the least k of which it is.
Lowest(n, d) == CHOOSE k \in 1 .. d : /\ (n * k) % d = 0
                                       /\ \A j \in 1 .. k - 1 : (n * j) % d # 0

Frac(n, d) == LET k == Lowest(n, d) IN [num |-> (n * k) \div d, den |-> k]

Zero == Frac(0, 1)

Whole(n) == Frac(n, 1)

Plus(x, y) == Frac(x.num * y.den + y.num * x.den, x.den * y.den)

Neg(x) == [x EXCEPT !.num = -@]

Minus(x, y) == Plus(x, Neg(y))

Times(x, y) == Frac(x.num * y.num, x.den * y.den)

Less(x, y) == x.num * y.den < y.num * x.den

AtMost(x, y) == ~Less(y, x)

Lesser(x, y) == IF Less(x, y) THEN x ELSE y

Greater(x, y) == IF Less(x, y) THEN y ELSE x

\* The quotient by a positive fraction, and zero for a quotient by zero, the
\* value every division of the tax-lot code falls back to.
Over(x, y) == IF y = Zero THEN Zero ELSE Frac(x.num * y.den, x.den * y.num)

\* The sum of the values of a function.
Total(f) == FoldFunction(Plus, Zero, f)

IsFraction(x) == /\ x \in [num : Int, den : Nat \ {0}]
                 /\ \A k \in 1 .. x.den - 1 : (x.num * k) % x.den # 0
=============================================================================
