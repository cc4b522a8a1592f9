------------------------------ MODULE FixedPoint ------------------------------
(***************************************************************************)
(* The rounding division of OpenZeppelin's Math library, as LendingPool    *)
(* uses it.  All quantities of the pool are natural numbers; the direction *)
(* in which a division rounds decides who owns the dust, and most of what  *)
(* the pool promises rests on it.                                          *)
(***************************************************************************)
EXTENDS Integers, FiniteSets

(* Math.mulDiv(x, y, d): floor(x * y / d).                                 *)
MulDiv(x, y, d) == (x * y) \div d

(* Math.mulDiv(x, y, d, Rounding.Ceil): the least integer >= x * y / d.    *)
MulDivUp(x, y, d) == (x * y + d - 1) \div d

Least(x, y) == IF x <= y THEN x ELSE y

Greatest(x, y) == IF x >= y THEN x ELSE y

(* The sum of a function with natural values on a finite domain, as the    *)
(* number of cells in its bar chart.                                       *)
Sum(f) == Cardinality(UNION {{a} \X (1..f[a]) : a \in DOMAIN f})

===============================================================================
