----------------------------- MODULE SmallField -----------------------------
(***************************************************************************)
(* A stand-in for the field of Fe25519 under the points of contrib/ref10:  *)
(* a prime Q that is 5 modulo 8, as 2^255 - 19 is, small enough to try     *)
(* every point of a curve.  What the points need of the limbs is kept: an  *)
(* element carries the bound that the comments of fe_*.c give its limbs,   *)
(* in percent of 2^25, 2^24, ..., and a call outside the bounds that its   *)
(* callee can take returns a Wild element.  That the functions do keep     *)
(* those comments over the real field is checked on Fe25519 and FeChains.  *)
(***************************************************************************)
EXTENDS Integers

CONSTANTS
    Q,              \* a prime, 5 modulo 8
    D,              \* d of the curve -x^2 + y^2 = 1 + d x^2 y^2
    Root            \* a square root of -1

Power(v, n) ==
    LET p[k \in 0 .. n] == IF k = 0 THEN 1 ELSE (v * p[k - 1]) % Q IN p[n]
Squared(v) == (v * v) % Q

(* That Q is a prime is said by what Fermat's theorem makes of it: x to the
   Q - 1 is 1, with the two exponents that the chains end with.  D is no
   square, so that any two points have a sum; Root is none because Q is 5
   modulo 8. *)
ASSUME FieldAssumption ==
    /\ Q \in Nat /\ Q % 8 = 5
    /\ D \in 0 .. Q - 1 /\ Root \in 0 .. Q - 1
    /\ Squared(Root) = Q - 1
    /\ \A x \in 0 .. Q - 1 : Squared(x) \notin {D, Root}
    /\ \A x \in 0 .. Q - 1 : Power(x, Q - 2) \in 0 .. Q - 1 /\ Power(x, (Q - 5) \div 8) \in 0 .. Q - 1
    /\ \A x \in 1 .. Q - 1 :
          /\ (x * Power(x, Q - 2)) % Q = 1
          /\ (Squared(Squared(Squared(Power(x, (Q - 5) \div 8)))) * Squared(Squared(x))) % Q = 1

Tight == 101        \* fe_mul, fe_sq, fe_sq2, fe_frombytes, fe_invert, fe_pow22523 return it
Storable == 220     \* what fe_tobytes, fe_isnegative and fe_isnonzero take
MulIn == 330        \* what fe_mul, fe_sq and fe_sq2 take
Wild == 1000

Element(v, b) == [v |-> v % Q, b |-> b]
Kept(b) == IF b <= MulIn THEN Tight ELSE Wild
Wider(m, n) == IF m <= n THEN n ELSE m

fe_0 == Element(0, 0)
fe_1 == Element(1, 1)
fe_copy(f) == f
fe_add(f, g) == Element(f.v + g.v, f.b + g.b)
fe_sub(f, g) == Element(f.v - g.v, f.b + g.b)
fe_neg(f) == Element(- f.v, f.b)
fe_cmov(f, g, b) == IF b = 1 THEN g ELSE f
fe_mul(f, g) == Element(f.v * g.v, Kept(Wider(f.b, g.b)))
fe_sq(f) == fe_mul(f, f)
fe_sq2(f) == Element(2 * f.v * f.v, Kept(f.b))

fe_invert(f) == Element(Power(f.v, Q - 2), Kept(f.b))
fe_pow22523(f) == Element(Power(f.v, (Q - 5) \div 8), Kept(f.b))

(* A string of bytes: an integer, which need not be below Q, and the top bit,
   which fe_frombytes ignores and fe_tobytes leaves 0. *)
String == [y : 0 .. Q + 2, top : {0, 1}]
fe_frombytes(s) == Element(s.y, Tight)
fe_tobytes(f) == [y |-> IF f.b <= Storable THEN f.v ELSE Wild, top |-> 0]
fe_isnegative(f) == fe_tobytes(f).y % 2
fe_isnonzero(f) == fe_tobytes(f).y # 0

d == Element(D, 100)
d2 == Element(2 * D, 100)
sqrtm1 == Element(Root, 100)

-----------------------------------------------------------------------------
(* The group that the points stand for, by its definition. *)
Curve == {p \in (0 .. Q - 1) \X (0 .. Q - 1) :
            (p[2] * p[2] - p[1] * p[1] - 1 - D * ((p[1] * p[1] * p[2] * p[2]) % Q)) % Q = 0}
Zero == <<0, 1>>
Opposite(p) == <<(- p[1]) % Q, p[2]>>

Over(n, m) == (n * Power(m % Q, Q - 2)) % Q
PointSum(p, q) ==
    LET e == D * (((p[1] * q[1] * p[2]) % Q) * q[2])
    IN <<Over(p[1] * q[2] + p[2] * q[1], 1 + e), Over(p[2] * q[2] + p[1] * q[1], 1 - e)>>

Multiple(n, p) ==
    LET s[k \in 0 .. n] == IF k = 0 THEN Zero ELSE PointSum(s[k - 1], p) IN s[n]
=============================================================================
