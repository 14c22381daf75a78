------------------------------- MODULE Fractions -------------------------------
(***************************************************************************)
(* Exact fractions in lowest terms, for what the code computes in floating *)
(* point: [num, den] with a positive den.                                  *)
(***************************************************************************)
EXTENDS Integers, FiniteSetsExt

gcd[a \in Nat, b \in Nat] == IF b = 0 THEN a ELSE gcd[b, a % b]
Size(n) == IF n < 0 THEN -n ELSE n

Ratio(n, d) == [num |-> n \div gcd[Size(n), d], den |-> d \div gcd[Size(n), d]]
Whole(n) == [num |-> n, den |-> 1]
Zero == Whole(0)
Unit == Whole(1)

Plus(a, b) ==
    LET g == gcd[a.den, b.den]
    IN  Ratio(a.num * (b.den \div g) + b.num * (a.den \div g), a.den * (b.den \div g))
Negated(a) == [a EXCEPT !.num = -@]
Minus(a, b) == Plus(a, Negated(b))
Times(a, b) == LET x == Ratio(a.num, b.den)
                   y == Ratio(b.num, a.den)
               IN  [num |-> x.num * y.num, den |-> x.den * y.den]

(* a / b for a positive b.                                                 *)
Over(a, b) == Times(a, [num |-> b.den, den |-> b.num])

NotMore(a, b) == LET g == gcd[a.den, b.den]
                 IN  a.num * (b.den \div g) <= b.num * (a.den \div g)
Greater(a, b) == IF NotMore(a, b) THEN b ELSE a
Apart(a, b) == IF NotMore(a, b) THEN Minus(b, a) ELSE Minus(a, b)

SumOver(Of(_), S) == FoldSet(LAMBDA x, sum : Plus(Of(x), sum), Zero, S)
Total(f) == SumOver(LAMBDA x : f[x], DOMAIN f)
=============================================================================
