---------------------------- MODULE EdMultProofs ----------------------------
(***************************************************************************)
(* Theorems about the multiplications of contrib/ref10 and what signs with *)
(* them: for every field, every curve and every scalar, the loops return   *)
(* the multiple; for every key and hash, what was signed opens.            *)
(***************************************************************************)
EXTENDS EdProofs, Ed25519, WellFoundedInduction

-----------------------------------------------------------------------------
(* Induction over the naturals, and functions defined by it. *)

LEMMA LessIsWellFounded == IsWellFoundedOn({p \in Nat \X Nat : p[1] < p[2]}, Nat)
BY NatLessThanWellFounded DEF OpToRel

LEMMA Inductive ==
    ASSUME NEW S \in SUBSET Nat, 0 \in S, \A n \in S : n + 1 \in S
    PROVE  S = Nat
<1> DEFINE R == {p \in Nat \X Nat : p[1] < p[2]}
<1> SUFFICES ASSUME Nat \ S # {} PROVE FALSE
  OBVIOUS
<1>1. IsWellFoundedOn(R, Nat)
  BY LessIsWellFounded
<1> HIDE DEF R
<1>2. \E n \in Nat \ S : \A g \in Nat \ S : ~(<<g, n>> \in R)
  BY <1>1, WFMin
<1>3. PICK n \in Nat \ S : \A g \in Nat \ S : ~(<<g, n>> \in R)
  BY <1>2
<1>4. n # 0 /\ n - 1 \in Nat
  OBVIOUS
<1>5. n - 1 \in S
  <2>1. <<n - 1, n>> \in R
    BY <1>4 DEF R
  <2> QED BY <1>3, <1>4, <2>1
<1>6. (n - 1) + 1 \in S
  BY <1>5
<1> QED BY <1>6

\* The first n + 1 values of a function that begins with b and goes on with g.
Begun(n, S, b, g) == {r \in [0 .. n -> S] : r[0] = b /\ \A u \in 0 .. n - 1 : r[u + 1] = g[<<u, r[u]>>]}

Steps(S) == [Nat \X S -> S]
Follows(r, S, b, g) == r \in [Nat -> S] /\ r[0] = b /\ \A n \in Nat : r[n + 1] = g[<<n, r[n]>>]

LEMMA Recursion ==
    ASSUME NEW S, NEW b \in S, NEW g \in Steps(S)
    PROVE  \E r : Follows(r, S, b, g)
<1> USE DEF Steps
<1> DEFINE Some == {n \in Nat : Begun(n, S, b, g) # {}}
<1>1. 0 \in Some
  <2>1. [k \in 0 .. 0 |-> b] \in Begun(0, S, b, g)
    BY DEF Begun
  <2> QED BY <2>1
<1>2. ASSUME NEW n \in Some PROVE n + 1 \in Some
  <2>1. PICK r : r \in Begun(n, S, b, g)
    OBVIOUS
  <2>2. PICK q : q = [k \in 0 .. n + 1 |-> IF k = n + 1 THEN g[<<n, r[n]>>] ELSE r[k]]
    OBVIOUS
  <2>3. r \in [0 .. n -> S] /\ r[0] = b /\ \A w \in 0 .. n - 1 : r[w + 1] = g[<<w, r[w]>>]
    BY <2>1 DEF Begun
  <2>4. q \in [0 .. n + 1 -> S]
    <3>1. r[n] \in S
      BY <2>3
    <3>2. g[<<n, r[n]>>] \in S
      BY <3>1
    <3> QED BY <2>2, <2>3, <3>2
  <2>5. q[0] = b
    BY <2>2, <2>3
  <2>6. ASSUME NEW w \in 0 .. (n + 1) - 1 PROVE q[w + 1] = g[<<w, q[w]>>]
    <3>1. CASE w = n
      <4>1. q[n + 1] = g[<<n, r[n]>>] /\ q[n] = r[n]
        BY <2>2
      <4> QED BY <3>1, <4>1
    <3>2. CASE w # n
      <4>1. w \in 0 .. n - 1 /\ w + 1 \in 0 .. n
        BY <3>2
      <4>2. q[w] = r[w] /\ q[w + 1] = r[w + 1]
        BY <2>2, <4>1
      <4> QED BY <2>3, <4>1, <4>2
    <3> QED BY <3>1, <3>2
  <2>7. q \in Begun(n + 1, S, b, g)
    BY <2>4, <2>5, <2>6 DEF Begun
  <2> QED BY <2>7
<1>3. Some = Nat
  <2> HIDE DEF Some
  <2>1. Some \in SUBSET Nat
    BY DEF Some
  <2> QED BY <1>1, <1>2, <2>1, Inductive
<1> DEFINE r == [n \in Nat |-> (CHOOSE q : q \in Begun(n, S, b, g))[n]]
<1>4. \A n \in Nat : (CHOOSE q : q \in Begun(n, S, b, g)) \in Begun(n, S, b, g)
  BY <1>3
<1>5. ASSUME NEW n \in Nat, NEW q \in Begun(n, S, b, g) PROVE q[n] = r[n]
  <2>1. PICK p : p = (CHOOSE u : u \in Begun(n, S, b, g)) /\ p \in Begun(n, S, b, g)
    BY <1>4
  <2> DEFINE Same == {k \in Nat : k <= n => p[k] = q[k]}
  <2>2. 0 \in Same
    BY <2>1 DEF Begun
  <2>3. ASSUME NEW k \in Same PROVE k + 1 \in Same
    <3>1. CASE k + 1 <= n
      <4>1. p[k] = q[k] /\ k \in 0 .. n - 1
        BY <3>1
      <4>2. p[k + 1] = g[<<k, p[k]>>] /\ q[k + 1] = g[<<k, q[k]>>]
        BY <2>1, <4>1 DEF Begun
      <4> QED BY <4>1, <4>2
    <3> QED BY <3>1
  <2>4. Same = Nat
    <3> HIDE DEF Same
    <3>1. Same \in SUBSET Nat
      BY DEF Same
    <3> QED BY <2>2, <2>3, <3>1, Inductive
  <2> QED BY <2>1, <2>4
<1>6. r \in [Nat -> S]
  <2>1. ASSUME NEW n \in Nat PROVE (CHOOSE q : q \in Begun(n, S, b, g))[n] \in S
    <3>1. PICK p : p = (CHOOSE q : q \in Begun(n, S, b, g)) /\ p \in Begun(n, S, b, g)
      BY <1>4
    <3>2. p \in [0 .. n -> S]
      BY <3>1 DEF Begun
    <3> QED BY <3>1, <3>2
  <2> QED BY <2>1
<1>7. r[0] = b
  BY <1>4 DEF Begun
<1>8. ASSUME NEW n \in Nat PROVE r[n + 1] = g[<<n, r[n]>>]
  <2>1. PICK q : q \in Begun(n + 1, S, b, g)
    BY <1>4
  <2>2. q[n + 1] = r[n + 1]
    BY <1>5, <2>1
  <2>3. PICK p : p = [k \in 0 .. n |-> q[k]]
    OBVIOUS
  <2>4. p \in Begun(n, S, b, g)
    BY <2>1, <2>3 DEF Begun
  <2>5. p[n] = r[n]
    BY <1>5, <2>4
  <2>6. q[n] = r[n]
    BY <2>3, <2>5
  <2>7. q[n + 1] = g[<<n, q[n]>>]
    BY <2>1 DEF Begun
  <2> QED BY <2>2, <2>6, <2>7
<1> QED BY <1>6, <1>7, <1>8 DEF Follows

-----------------------------------------------------------------------------
(* The sum is associative.  With v = x * y, s = x * x + y * y and f = y * y - x * x
   of two points, and a, b, c and g of their products, both sides of the equation,
   over common denominators, differ by multiples of what is 0 on the curve. *)

LEMMA Crossed ==
    ASSUME NEW x1 \in Int, NEW y1 \in Int, NEW x3 \in Int, NEW y3 \in Int,
           NEW v1 \in Int, v1 = x1 * y1, NEW v3 \in Int, v3 = x3 * y3,
           NEW s1 \in Int, s1 = x1 * x1 + y1 * y1, NEW s3 \in Int, s3 = x3 * x3 + y3 * y3,
           NEW f1 \in Int, f1 = y1 * y1 - x1 * x1, NEW f3 \in Int, f3 = y3 * y3 - x3 * x3,
           NEW a \in Int, a = x1 * y3 + y1 * x3, NEW b \in Int, b = y1 * y3 + x1 * x3,
           NEW c \in Int, c = y1 * x3 - x1 * y3, NEW g \in Int, g = x1 * x3 - y1 * y3
    PROVE  /\ a * g = -(v3 * f1) - v1 * f3 /\ b * c = v3 * f1 - v1 * f3
           /\ v1 * s3 - v3 * s1 = g * c
           /\ b * f3 + g * s3 = -(2 * (v3 * c)) /\ b * f1 + g * s1 = 2 * (v1 * c)
           /\ a * f3 + c * s3 = -(2 * (v3 * g)) /\ a * f1 + c * (-s1) = -(2 * (v1 * g))
<1>1. a * g = -(v3 * f1) - v1 * f3
  OBVIOUS
<1>2. b * c = v3 * f1 - v1 * f3
  OBVIOUS
<1>3. v1 * s3 - v3 * s1 = g * c
  OBVIOUS
<1>4. b * f3 + g * s3 = -(2 * (v3 * c))
  OBVIOUS
<1>5. b * f1 + g * s1 = 2 * (v1 * c)
  OBVIOUS
<1>6. a * f3 + c * s3 = -(2 * (v3 * g))
  OBVIOUS
<1>7. a * f1 + c * (-s1) = -(2 * (v1 * g))
  OBVIOUS
<1> QED BY <1>1, <1>2, <1>3, <1>4, <1>5, <1>6, <1>7

LEMMA Balanced ==
    ASSUME NEW dd \in Int, NEW v1 \in Int, NEW v3 \in Int, NEW s1 \in Int, NEW s3 \in Int,
           NEW f1 \in Int, NEW f3 \in Int, NEW b \in Int, NEW g \in Int,
           NEW h1 \in Int, h1 = f1 - 1 - dd * (v1 * v1), NEW h3 \in Int, h3 = f3 - 1 - dd * (v3 * v3),
           NEW m1 \in Int, m1 = b * f1 + g * s1, NEW m3 \in Int, m3 = b * f3 + g * s3
    PROVE  b * (v1 * v1 - v3 * v3) + g * (v1 * v1 * s3 - v3 * v3 * s1)
             = b * (v3 * v3 * h1 - v1 * v1 * h3) + (v1 * v1) * m3 - (v3 * v3) * m1
OBVIOUS

\* The four that are 0 on the curve.
Rest1(dd, v1, v3, a, g) == a * g + (v1 + v3) * (1 + dd * (v1 * v3))
Rest2(v1, v3, s1, s3, b, c, g) ==
    b * (v1 * v1 - v3 * v3) + 2 * (c * (v1 + v3) * (v1 * v3)) + g * (v1 * v1 * s3 - v3 * v3 * s1)
Rest3(dd, v1, v3, b, c) == b * c + (v1 - v3) * (1 - dd * (v1 * v3))
Rest4(v1, v3, s1, s3, a, c, g) ==
    a * (v1 * v1 - v3 * v3) + 2 * (g * (v1 - v3) * (v1 * v3)) + c * (v1 * v1 * s3 + v3 * v3 * s1)

LEMMA RestsAreNone ==
    ASSUME NEW x1 \in Int, NEW y1 \in Int, OnCurve(x1, y1), NEW x3 \in Int, NEW y3 \in Int, OnCurve(x3, y3),
           NEW dd \in Int, dd = D,
           NEW v1 \in Int, v1 = x1 * y1, NEW v3 \in Int, v3 = x3 * y3,
           NEW s1 \in Int, s1 = x1 * x1 + y1 * y1, NEW s3 \in Int, s3 = x3 * x3 + y3 * y3,
           NEW a \in Int, a = x1 * y3 + y1 * x3, NEW b \in Int, b = y1 * y3 + x1 * x3,
           NEW c \in Int, c = y1 * x3 - x1 * y3, NEW g \in Int, g = x1 * x3 - y1 * y3
    PROVE  /\ Rest1(dd, v1, v3, a, g) \cong 0 /\ Rest2(v1, v3, s1, s3, b, c, g) \cong 0
           /\ Rest3(dd, v1, v3, b, c) \cong 0 /\ Rest4(v1, v3, s1, s3, a, c, g) \cong 0
<1>1. PICK f1 \in Int, f3 \in Int : f1 = y1 * y1 - x1 * x1 /\ f3 = y3 * y3 - x3 * x3
  OBVIOUS
<1>2. PICK h1 \in Int : h1 = f1 - 1 - dd * (v1 * v1) /\ h1 \cong 0
  <2>1. PICK h1 \in Int : h1 = y1 * y1 - x1 * x1 - (1 + D * (x1 * x1 * y1 * y1)) /\ h1 \cong 0
    BY CurveNone
  <2>2. h1 = y1 * y1 - x1 * x1 - (1 + dd * (x1 * x1 * y1 * y1))
    BY <2>1
  <2>3. h1 = f1 - 1 - dd * (v1 * v1)
    BY <1>1, <2>2
  <2> QED BY <2>1, <2>3
<1>3. PICK h3 \in Int : h3 = f3 - 1 - dd * (v3 * v3) /\ h3 \cong 0
  <2>1. PICK h3 \in Int : h3 = y3 * y3 - x3 * x3 - (1 + D * (x3 * x3 * y3 * y3)) /\ h3 \cong 0
    BY CurveNone
  <2>2. h3 = y3 * y3 - x3 * x3 - (1 + dd * (x3 * x3 * y3 * y3))
    BY <2>1
  <2>3. h3 = f3 - 1 - dd * (v3 * v3)
    BY <1>1, <2>2
  <2> QED BY <2>1, <2>3
<1>4. /\ a * g = -(v3 * f1) - v1 * f3 /\ b * c = v3 * f1 - v1 * f3
      /\ b * f3 + g * s3 = -(2 * (v3 * c)) /\ b * f1 + g * s1 = 2 * (v1 * c)
      /\ a * f3 + c * s3 = -(2 * (v3 * g)) /\ a * f1 + c * (-s1) = -(2 * (v1 * g))
  BY <1>1, Crossed
<1>5. PICK y \in Int, n \in Int, r \in Int, u \in Int :
          y = v3 * h1 /\ n = v1 * h3 /\ r = -y /\ u = -n
  OBVIOUS
<1>6. y \cong 0 /\ n \cong 0 /\ r \cong 0 /\ u \cong 0
  <2>1. y \cong 0 /\ n \cong 0
    BY <1>2, <1>3, <1>5, NoneTimes
  <2>2. r = (-1) * y /\ u = (-1) * n
    BY <1>5
  <2> QED BY <2>1, <2>2, NoneTimes
<1>7. Rest1(dd, v1, v3, a, g) \cong 0
  <2>1. PICK k \in Int : k = Rest1(dd, v1, v3, a, g)
    BY DEF Rest1
  <2>2. k = -(v3 * f1) - v1 * f3 + (v1 + v3) * (1 + dd * (v1 * v3))
    BY <1>4, <2>1 DEF Rest1
  <2>3. k = r + u
    BY <1>2, <1>3, <1>5, <2>2
  <2> QED BY <1>6, <2>1, <2>3, NoneSum
<1>8. Rest3(dd, v1, v3, b, c) \cong 0
  <2>1. PICK k \in Int : k = Rest3(dd, v1, v3, b, c)
    BY DEF Rest3
  <2>2. k = v3 * f1 - v1 * f3 + (v1 - v3) * (1 - dd * (v1 * v3))
    BY <1>4, <2>1 DEF Rest3
  <2>3. k = y + u
    BY <1>2, <1>3, <1>5, <2>2
  <2> QED BY <1>6, <2>1, <2>3, NoneSum
<1>9. PICK j \in Int, l \in Int, w \in Int :
          j = (v3 * v3) * h1 /\ l = -((v1 * v1) * h3) /\ w = v3 * v3 * h1 - v1 * v1 * h3
  OBVIOUS
<1>10. w \cong 0
  <2>1. PICK o \in Int, q \in Int : o = v3 * v3 /\ q = -(v1 * v1)
    OBVIOUS
  <2>2. j = o * h1 /\ l = q * h3
    BY <1>9, <2>1
  <2>3. j \cong 0 /\ l \cong 0
    BY <1>2, <1>3, <2>2, NoneTimes
  <2>4. w = j + l
    BY <1>9
  <2> QED BY <2>3, <2>4, NoneSum
<1>11. Rest2(v1, v3, s1, s3, b, c, g) \cong 0
  <2>1. PICK k \in Int : k = b * (v1 * v1 - v3 * v3) + g * (v1 * v1 * s3 - v3 * v3 * s1)
    OBVIOUS
  <2>2. PICK m1 \in Int, m3 \in Int : m1 = 2 * (v1 * c) /\ m3 = -(2 * (v3 * c))
    OBVIOUS
  <2>3. m1 = b * f1 + g * s1 /\ m3 = b * f3 + g * s3
    BY <1>4, <2>2
  <2>4. k = b * (v3 * v3 * h1 - v1 * v1 * h3) + (v1 * v1) * m3 - (v3 * v3) * m1
    BY <1>2, <1>3, <2>1, <2>3, Balanced
  <2>5. PICK n2 \in Int : n2 = k + 2 * (c * (v1 + v3) * (v1 * v3))
    OBVIOUS
  <2>6. n2 = Rest2(v1, v3, s1, s3, b, c, g)
    BY <2>1, <2>5 DEF Rest2
  <2>7. n2 = b * w
    BY <1>9, <2>2, <2>4, <2>5
  <2> QED BY <1>10, <2>6, <2>7, NoneTimes
<1>12. Rest4(v1, v3, s1, s3, a, c, g) \cong 0
  <2>1. PICK s \in Int : s = -s1
    OBVIOUS
  <2>2. PICK k \in Int : k = a * (v1 * v1 - v3 * v3) + c * (v1 * v1 * s3 - v3 * v3 * s)
    OBVIOUS
  <2>3. PICK m1 \in Int, m3 \in Int : m1 = -(2 * (v1 * g)) /\ m3 = -(2 * (v3 * g))
    OBVIOUS
  <2>4. m1 = a * f1 + c * s /\ m3 = a * f3 + c * s3
    BY <1>4, <2>1, <2>3
  <2>5. k = a * (v3 * v3 * h1 - v1 * v1 * h3) + (v1 * v1) * m3 - (v3 * v3) * m1
    BY <1>2, <1>3, <2>2, <2>4, Balanced
  <2>6. PICK n2 \in Int : n2 = k + 2 * (g * (v1 - v3) * (v1 * v3))
    OBVIOUS
  <2>7. n2 = Rest4(v1, v3, s1, s3, a, c, g)
    BY <2>1, <2>2, <2>6 DEF Rest4
  <2>8. n2 = a * w
    BY <1>9, <2>3, <2>5, <2>6
  <2> QED BY <1>10, <2>7, <2>8, NoneTimes
<1> QED BY <1>7, <1>8, <1>11, <1>12

LEMMA Shapes ==
    ASSUME NEW dd \in Int, NEW x1 \in Int, NEW y1 \in Int, NEW be \in Int, NEW al \in Int,
           NEW x3 \in Int, NEW y3 \in Int,
           NEW k \in Int, k = dd * (al * be), NEW ss \in Int, ss = dd * (be * be + al * al),
           NEW n \in Int, n = x1 * al + be * y1, NEW u \in Int, u = y1 * al + x1 * be,
           NEW tw \in Int, tw = dd * (x1 * be * y1 * al),
           NEW p \in Int, p = 1 + tw, NEW q \in Int, q = 1 - tw,
           NEW v1 \in Int, v1 = x1 * y1, NEW v3 \in Int, v3 = x3 * y3,
           NEW s1 \in Int, s1 = x1 * x1 + y1 * y1,
           NEW a \in Int, a = x1 * y3 + y1 * x3, NEW b \in Int, b = y1 * y3 + x1 * x3,
           NEW c \in Int, c = y1 * x3 - x1 * y3, NEW g \in Int, g = x1 * x3 - y1 * y3
    PROVE  /\ n * q * y3 + u * p * x3 = al * a + be * b + k * (v1 * (al * c + be * g))
           /\ u * p * y3 + n * q * x3 = al * b + be * a - k * (v1 * (al * g + be * c))
           /\ p * q + dd * (n * u * x3 * y3) = 1 - k * k * (v1 * v1) + v3 * (k * s1 + ss * v1)
           /\ p * q - dd * (n * u * x3 * y3) = 1 - k * k * (v1 * v1) - v3 * (k * s1 + ss * v1)
<1>1. n * q * y3 + u * p * x3 = al * a + be * b + k * (v1 * (al * c + be * g))
  OBVIOUS
<1>2. u * p * y3 + n * q * x3 = al * b + be * a - k * (v1 * (al * g + be * c))
  OBVIOUS
<1>3. p * q + dd * (n * u * x3 * y3) = 1 - k * k * (v1 * v1) + v3 * (k * s1 + ss * v1)
  OBVIOUS
<1>4. p * q - dd * (n * u * x3 * y3) = 1 - k * k * (v1 * v1) - v3 * (k * s1 + ss * v1)
  OBVIOUS
<1> QED BY <1>1, <1>2, <1>3, <1>4

\* What is a sum of multiples of five that are 0.
FiveTimes(n, c1, r1, c2, r2, c3, r3, c4, r4, c5, r5) == n = c1 * r1 + c2 * r2 + c3 * r3 + c4 * r4 + c5 * r5
LEMMA NoneOfFive ==
    ASSUME NEW r1 \in Int, r1 \cong 0, NEW r2 \in Int, r2 \cong 0, NEW r3 \in Int, r3 \cong 0,
           NEW r4 \in Int, r4 \cong 0, NEW r5 \in Int, r5 \cong 0,
           NEW c1 \in Int, NEW c2 \in Int, NEW c3 \in Int, NEW c4 \in Int, NEW c5 \in Int,
           NEW n \in Int, FiveTimes(n, c1, r1, c2, r2, c3, r3, c4, r4, c5, r5)
    PROVE  n \cong 0
<1>1. PICK m1 \in Int, m2 \in Int, m3 \in Int, m4 \in Int, m5 \in Int :
          m1 = c1 * r1 /\ m2 = c2 * r2 /\ m3 = c3 * r3 /\ m4 = c4 * r4 /\ m5 = c5 * r5
  OBVIOUS
<1>2. m1 \cong 0 /\ m2 \cong 0 /\ m3 \cong 0 /\ m4 \cong 0 /\ m5 \cong 0
  BY <1>1, NoneTimes
<1>3. PICK t1 \in Int, t2 \in Int, t3 \in Int : t1 = m1 + m2 /\ t2 = t1 + m3 /\ t3 = t2 + m4
  OBVIOUS
<1>4. t1 \cong 0 /\ t2 \cong 0 /\ t3 \cong 0
  BY <1>2, <1>3, NoneSum
<1>5. n = t3 + m5
  BY <1>1, <1>3 DEF FiveTimes
<1> QED BY <1>2, <1>4, <1>5, NoneSum

\* The coordinates of the sum of three points are ux / kx and uy / ky.
Joined(x1, y1, be, al, x3, y3, kx, ky, ux, uy) ==
    LET n == x1 * al + be * y1
        g == y1 * al + x1 * be
        p == 1 + D * (x1 * be * y1 * al)
        q == 1 - D * (x1 * be * y1 * al)
    IN /\ kx = p * q + D * (n * g * x3 * y3) /\ ky = p * q - D * (n * g * x3 * y3)
       /\ ux = n * q * y3 + g * p * x3 /\ uy = g * p * y3 + n * q * x3
LEMMA JoinedSays ==
    ASSUME NEW x1 \in Int, NEW y1 \in Int, NEW be \in Int, NEW al \in Int, NEW x3 \in Int, NEW y3 \in Int,
           NEW dd \in Int, dd = D, NEW kx, NEW ky, NEW ux, NEW uy,
           Joined(x1, y1, be, al, x3, y3, kx, ky, ux, uy)
    PROVE  \E n, g, tw, p, q \in Int :
             /\ n = x1 * al + be * y1 /\ g = y1 * al + x1 * be
             /\ tw = dd * (x1 * be * y1 * al) /\ p = 1 + tw /\ q = 1 - tw
             /\ kx = p * q + dd * (n * g * x3 * y3) /\ ky = p * q - dd * (n * g * x3 * y3)
             /\ ux = n * q * y3 + g * p * x3 /\ uy = g * p * y3 + n * q * x3
<1>1. PICK n \in Int, g \in Int, tw \in Int, p \in Int, q \in Int :
          /\ n = x1 * al + be * y1 /\ g = y1 * al + x1 * be
          /\ tw = dd * (x1 * be * y1 * al) /\ p = 1 + tw /\ q = 1 - tw
  OBVIOUS
<1>2. /\ kx = p * q + dd * (n * g * x3 * y3) /\ ky = p * q - dd * (n * g * x3 * y3)
      /\ ux = n * q * y3 + g * p * x3 /\ uy = g * p * y3 + n * q * x3
  BY <1>1 DEF Joined
<1> QED BY <1>1, <1>2

\* s is u / k, and u / k is v / l.
Quotient(s, u, k) == ~ (k \cong 0) /\ s * k \cong u
Crosswise(u, k, v, l) == u * l - v * k \cong 0
LEMMA SumOfThree ==
    ASSUME NEW p1 \in Curve, NEW p2 \in Curve, NEW p3 \in Curve,
           NEW x1 \in Int, NEW y1 \in Int, NEW be \in Int, NEW al \in Int, NEW x3 \in Int, NEW y3 \in Int,
           p1[1] = x1, p1[2] = y1, p2[1] = be, p2[2] = al, p3[1] = x3, p3[2] = y3,
           NEW kx \in Int, NEW ky \in Int, NEW ux \in Int, NEW uy \in Int,
           Joined(x1, y1, be, al, x3, y3, kx, ky, ux, uy),
           NEW s, s = PointSum(PointSum(p1, p2), p3)
    PROVE  Quotient(s[1], ux, kx) /\ Quotient(s[2], uy, ky)
<1>a. PICK dd \in Int : dd = D
  BY FieldAssumption, QIsOdd
<1>b. PICK n \in Int, g \in Int, tw \in Int, p \in Int, q \in Int :
          /\ n = x1 * al + be * y1 /\ g = y1 * al + x1 * be
          /\ tw = dd * (x1 * be * y1 * al) /\ p = 1 + tw /\ q = 1 - tw
          /\ kx = p * q + dd * (n * g * x3 * y3) /\ ky = p * q - dd * (n * g * x3 * y3)
          /\ ux = n * q * y3 + g * p * x3 /\ uy = g * p * y3 + n * q * x3
  BY <1>a, JoinedSays
<1>1. OnCurve(x1, y1) /\ OnCurve(be, al) /\ OnCurve(x3, y3)
  BY CurvePoint
<1>2. tw = Twist(x1, y1, be, al)
  BY <1>a, <1>b DEF Twist
<1>3. ~ (p \cong 0) /\ ~ (q \cong 0)
  <2>1. ~ (1 + tw \cong 0) /\ ~ (1 - tw \cong 0)
    BY <1>1, <1>2, Complete
  <2> QED BY <1>b, <2>1
<1>4. PICK r \in Curve : r = PointSum(p1, p2)
  BY SumStays
<1>5. PICK X \in Int, Y \in Int : r[1] = X /\ r[2] = Y /\ OnCurve(X, Y)
  BY CurvePoint
<1>6. X * p \cong n /\ Y * q \cong g
  <2>1. X * (1 + tw) \cong x1 * al + y1 * be /\ Y * (1 - tw) \cong y1 * al + x1 * be
    BY <1>2, <1>4, <1>5, SumSays
  <2>2. n = x1 * al + y1 * be
    BY <1>b
  <2> QED BY <1>b, <2>1, <2>2
<1>7. PICK w \in Int : w = p * q /\ ~ (w \cong 0)
  BY <1>3, NoneFromTwo
<1>8. PICK t \in Int : t = dd * (X * x3 * Y * y3)
  OBVIOUS
<1>9. t = Twist(X, Y, x3, y3)
  BY <1>8, <1>a DEF Twist
<1>10. PICK gx \in Int, gy \in Int : gx = 1 + t /\ gy = 1 - t /\ ~ (gx \cong 0) /\ ~ (gy \cong 0)
  <2>1. ~ (1 + t \cong 0) /\ ~ (1 - t \cong 0)
    BY <1>1, <1>5, <1>9, Complete
  <2>2. 1 + t \in Int /\ 1 - t \in Int
    OBVIOUS
  <2> QED BY <2>1, <2>2
<1>11. PICK xp \in Int, yq \in Int, xy \in Int, nm \in Int, v \in Int :
           xp = X * p /\ yq = Y * q /\ xy = xp * yq /\ nm = n * g /\ v = dd * (x3 * y3)
  OBVIOUS
<1>12. xy \cong nm
  BY <1>6, <1>11, SameProduct
<1>13. PICK vx \in Int, vn \in Int : vx = v * xy /\ vn = v * nm
  OBVIOUS
<1>14. vx \cong vn
  BY <1>12, <1>13, SameTimes
<1>15. w + vx \cong w + vn /\ w - vx \cong w - vn
  BY <1>14, SameSum, SameIsSame
<1>16. PICK wx \in Int, wy \in Int : wx = w * gx /\ wy = w * gy /\ ~ (wx \cong 0) /\ ~ (wy \cong 0)
  BY <1>7, <1>10, NoneFromTwo
<1>17. w + vn = kx /\ w - vn = ky
  BY <1>7, <1>11, <1>13, <1>b
<1>18. w + vx = wx /\ w - vx = wy
  <2>1. vx = w * t
    BY <1>7, <1>8, <1>11, <1>13
  <2> QED BY <1>10, <1>16, <2>1
<1>19. wx \cong kx /\ wy \cong ky
  BY <1>15, <1>17, <1>18
<1>20. ~ (kx \cong 0) /\ ~ (ky \cong 0)
  BY <1>16, <1>19, SameOn
<1>21. s \in Curve
  BY <1>4, SumStays
<1>22. PICK sx \in Int, sy \in Int : s[1] = sx /\ s[2] = sy
  BY <1>21, CurvePoint
<1>23. sx * gx \cong X * y3 + Y * x3 /\ sy * gy \cong Y * y3 + X * x3
  <2>1. sx * (1 + t) \cong X * y3 + Y * x3 /\ sy * (1 - t) \cong Y * y3 + X * x3
    BY <1>4, <1>5, <1>9, <1>22, SumSays
  <2> QED BY <1>10, <2>1
<1>24. PICK bx \in Int, by \in Int, ax \in Int, ay \in Int :
           bx = X * y3 + Y * x3 /\ by = Y * y3 + X * x3 /\ ax = sx * gx /\ ay = sy * gy
  OBVIOUS
<1>25. w * ax \cong w * bx /\ w * ay \cong w * by
  BY <1>23, <1>24, SameTimes
<1>26. sx * kx \cong w * ax /\ sy * ky \cong w * ay
  <2>1. kx \cong wx /\ ky \cong wy
    BY <1>19, <1>16, SameBack
  <2>2. sx * kx \cong sx * wx /\ sy * ky \cong sy * wy
    BY <1>16, <1>22, <2>1, SameTimes
  <2>3. sx * wx = w * ax /\ sy * wy = w * ay
    BY <1>16, <1>24
  <2> QED BY <2>2, <2>3
<1>27. w * bx \cong ux /\ w * by \cong uy
  <2>1. PICK c1 \in Int, c2 \in Int, c3 \in Int, c4 \in Int : c1 = q * y3 /\ c2 = p * x3 /\ c3 = p * y3 /\ c4 = q * x3
    OBVIOUS
  <2>2. /\ c1 * xp \cong c1 * n /\ c2 * yq \cong c2 * g
        /\ c3 * yq \cong c3 * g /\ c4 * xp \cong c4 * n
    BY <1>6, <1>11, SameTimes
  <2>3. PICK e1 \in Int, e2 \in Int, e3 \in Int, e4 \in Int, d1 \in Int, d2s \in Int, d3 \in Int, d4 \in Int :
            /\ e1 = c1 * xp /\ e2 = c2 * yq /\ e3 = c3 * yq /\ e4 = c4 * xp
            /\ d1 = c1 * n /\ d2s = c2 * g /\ d3 = c3 * g /\ d4 = c4 * n
    OBVIOUS
  <2>4. e1 + e2 \cong d1 + d2s /\ e3 + e4 \cong d3 + d4
    BY <2>2, <2>3, SameSum
  <2>5. w * bx = e1 + e2 /\ w * by = e3 + e4
    BY <1>7, <1>11, <1>24, <2>1, <2>3
  <2>6. ux = d1 + d2s /\ uy = d3 + d4
    BY <1>b, <2>1, <2>3
  <2> QED BY <2>4, <2>5, <2>6
<1>28. PICK a1 \in Int, a2 \in Int, b1 \in Int, b2 \in Int, o1 \in Int, o2 \in Int :
           a1 = w * ax /\ a2 = w * ay /\ b1 = w * bx /\ b2 = w * by /\ o1 = sx * kx /\ o2 = sy * ky
  OBVIOUS
<1>29. o1 \cong ux /\ o2 \cong uy
  BY <1>25, <1>26, <1>27, <1>28, SameOn
<1> QED BY <1>20, <1>22, <1>28, <1>29 DEF Quotient

LEMMA SumTurns == ASSUME NEW p \in Curve, NEW q \in Curve PROVE PointSum(p, q) = PointSum(q, p)
<1>1. PICK x1 \in Int, y1 \in Int, x2 \in Int, y2 \in Int :
          /\ p[1] = x1 /\ p[2] = y1 /\ q[1] = x2 /\ q[2] = y2 /\ OnCurve(x1, y1) /\ OnCurve(x2, y2)
  BY CurvePoint
<1>2. PICK tw \in Int : tw = Twist(x1, y1, x2, y2)
  BY FieldAssumption, QIsOdd DEF Twist
<1>3. tw = Twist(x2, y2, x1, y1)
  <2>1. PICK dd \in Int : dd = D
    BY FieldAssumption, QIsOdd
  <2> QED BY <1>2, <2>1 DEF Twist
<1>4. PICK gx \in Int, gy \in Int : gx = 1 + tw /\ gy = 1 - tw /\ ~ (gx \cong 0) /\ ~ (gy \cong 0)
  BY <1>1, <1>2, Complete
<1>5. PICK r \in Curve, t \in Curve : r = PointSum(p, q) /\ t = PointSum(q, p)
  BY SumStays
<1>6. PICK rx \in 0 .. Q - 1, ry \in 0 .. Q - 1, sx \in 0 .. Q - 1, sy \in 0 .. Q - 1 :
          /\ r[1] = rx /\ r[2] = ry /\ t[1] = sx /\ t[2] = sy
          /\ r = <<r[1], r[2]>> /\ t = <<t[1], t[2]>>
  BY CurvePoint
<1>7. PICK n \in Int, u \in Int : n = x1 * y2 + y1 * x2 /\ u = y1 * y2 + x1 * x2
  OBVIOUS
<1>8. n = x2 * y1 + y2 * x1 /\ u = y2 * y1 + x2 * x1
  BY <1>7
<1>9. rx * gx \cong n /\ ry * gy \cong u
  <2>1. rx * (1 + tw) \cong x1 * y2 + y1 * x2 /\ ry * (1 - tw) \cong y1 * y2 + x1 * x2
    BY <1>1, <1>2, <1>5, <1>6, SumSays
  <2> QED BY <1>4, <1>7, <2>1
<1>10. sx * gx \cong n /\ sy * gy \cong u
  <2>1. sx * (1 + tw) \cong x2 * y1 + y2 * x1 /\ sy * (1 - tw) \cong y2 * y1 + x2 * x1
    BY <1>1, <1>3, <1>5, <1>6, SumSays
  <2> QED BY <1>4, <1>8, <2>1
<1>11. rx \in Int /\ ry \in Int /\ sx \in Int /\ sy \in Int
  BY QIsOdd
<1>12. PICK a \in Int, b \in Int, c \in Int, g \in Int :
           a = gx * rx /\ b = gx * sx /\ c = gy * ry /\ g = gy * sy
  BY <1>11
<1>13. a \cong n /\ b \cong n /\ c \cong u /\ g \cong u
  <2>1. rx * gx = a /\ sx * gx = b /\ ry * gy = c /\ sy * gy = g
    BY <1>11, <1>12
  <2> QED BY <1>9, <1>10, <2>1
<1>14. a \cong b /\ c \cong g
  BY <1>13, SameBack, SameOn
<1>15. rx \cong sx /\ ry \cong sy
  BY <1>4, <1>11, <1>12, <1>14, Cancels
<1> QED BY <1>5, <1>6, <1>15, SameIsEqual

\* The two sides over their common denominators.
LEMMA SidesMeet ==
    ASSUME NEW x1 \in Int, NEW y1 \in Int, NEW be \in Int, NEW al \in Int, NEW x3 \in Int, NEW y3 \in Int,
           OnCurve(x1, y1), OnCurve(be, al), OnCurve(x3, y3),
           NEW k3 \in Int, NEW l3 \in Int, NEW u1 \in Int, NEW w1 \in Int,
           Joined(x1, y1, be, al, x3, y3, k3, l3, u1, w1),
           NEW k1 \in Int, NEW l1 \in Int, NEW u3 \in Int, NEW w3 \in Int,
           Joined(x3, y3, be, al, x1, y1, k1, l1, u3, w3)
    PROVE  Crosswise(u1, k3, u3, k1) /\ Crosswise(w1, l3, w3, l1)
<1>a. PICK dd \in Int : dd = D
  BY FieldAssumption, QIsOdd
<1>1. PICK v1 \in Int, v3 \in Int, s1 \in Int, s3 \in Int, a \in Int, b \in Int, c \in Int, g \in Int :
          /\ v1 = x1 * y1 /\ v3 = x3 * y3 /\ s1 = x1 * x1 + y1 * y1 /\ s3 = x3 * x3 + y3 * y3
          /\ a = x1 * y3 + y1 * x3 /\ b = y1 * y3 + x1 * x3
          /\ c = y1 * x3 - x1 * y3 /\ g = x1 * x3 - y1 * y3
  OBVIOUS
<1>2. PICK r1 \in Int, r2 \in Int, r3 \in Int, r4 \in Int :
          /\ r1 = Rest1(dd, v1, v3, a, g) /\ r2 = Rest2(v1, v3, s1, s3, b, c, g)
          /\ r3 = Rest3(dd, v1, v3, b, c) /\ r4 = Rest4(v1, v3, s1, s3, a, c, g)
  BY DEF Rest1, Rest2, Rest3, Rest4
<1>3. r1 \cong 0 /\ r2 \cong 0 /\ r3 \cong 0 /\ r4 \cong 0
  BY <1>a, <1>1, <1>2, RestsAreNone
<1>4. PICK k \in Int, ss \in Int : k = dd * (al * be) /\ ss = dd * (be * be + al * al)
  OBVIOUS
<1>5. PICK h2 \in Int : h2 = al * al - be * be - 1 - k * (al * be) /\ h2 \cong 0
  <2>1. PICK h2 \in Int : h2 = al * al - be * be - (1 + D * (be * be * al * al)) /\ h2 \cong 0
    BY CurveNone
  <2>2. h2 = al * al - be * be - (1 + dd * (be * be * al * al))
    BY <1>a, <2>1
  <2>3. h2 = al * al - be * be - 1 - k * (al * be)
    BY <1>4, <2>2
  <2> QED BY <2>1, <2>3
<1>6. v1 * s3 - v3 * s1 = g * c
  BY <1>1
<1>7. /\ u1 = al * a + be * b + k * (v1 * (al * c + be * g))
      /\ w1 = al * b + be * a - k * (v1 * (al * g + be * c))
      /\ k3 = 1 - k * k * (v1 * v1) + v3 * (k * s1 + ss * v1)
      /\ l3 = 1 - k * k * (v1 * v1) - v3 * (k * s1 + ss * v1)
  <2>1. PICK n \in Int, u \in Int, tw \in Int, p \in Int, q \in Int :
            /\ n = x1 * al + be * y1 /\ u = y1 * al + x1 * be
            /\ tw = dd * (x1 * be * y1 * al) /\ p = 1 + tw /\ q = 1 - tw
            /\ k3 = p * q + dd * (n * u * x3 * y3) /\ l3 = p * q - dd * (n * u * x3 * y3)
            /\ u1 = n * q * y3 + u * p * x3 /\ w1 = u * p * y3 + n * q * x3
    BY <1>a, JoinedSays
  <2> QED BY <1>1, <1>4, <2>1, Shapes
<1>8. /\ u3 = al * a + be * b + k * (v3 * (be * g - al * c))
      /\ w3 = al * b + be * a - k * (v3 * (al * g - be * c))
      /\ k1 = 1 - k * k * (v3 * v3) + v1 * (k * s3 + ss * v3)
      /\ l1 = 1 - k * k * (v3 * v3) - v1 * (k * s3 + ss * v3)
  <2>1. PICK n \in Int, u \in Int, tw \in Int, p \in Int, q \in Int :
            /\ n = x3 * al + be * y3 /\ u = y3 * al + x3 * be
            /\ tw = dd * (x3 * be * y3 * al) /\ p = 1 + tw /\ q = 1 - tw
            /\ k1 = p * q + dd * (n * u * x1 * y1) /\ l1 = p * q - dd * (n * u * x1 * y1)
            /\ u3 = n * q * y1 + u * p * x1 /\ w3 = u * p * y1 + n * q * x1
    BY <1>a, JoinedSays
  <2>2. PICK o \in Int : o = y3 * x1 - x3 * y1
    OBVIOUS
  <2>3. a = x3 * y1 + y3 * x1 /\ b = y3 * y1 + x3 * x1 /\ g = x3 * x1 - y3 * y1 /\ c = -o
    BY <1>1, <2>2
  <2>4. /\ u3 = al * a + be * b + k * (v3 * (al * o + be * g))
        /\ w3 = al * b + be * a - k * (v3 * (al * g + be * o))
        /\ k1 = 1 - k * k * (v3 * v3) + v1 * (k * s3 + ss * v3)
        /\ l1 = 1 - k * k * (v3 * v3) - v1 * (k * s3 + ss * v3)
    BY <1>1, <1>4, <2>1, <2>2, <2>3, Shapes
  <2> QED BY <2>3, <2>4
<1>9. u1 * k1 - u3 * k3 \cong 0
  <2>1. u1 * k1 - u3 * k3
          = k * (al * (c * r1) + be * (g * r3) + dd * (al * (be * (be * r2 + al * r4)))
                 + dd * (h2 * (v1 * v3 * (al * (c * (v1 + v3)) - be * (g * (v1 - v3))))))
    BY <1>2, <1>4, <1>5, <1>6, <1>7, <1>8 DEF Rest1, Rest2, Rest3, Rest4
  <2>2. PICK c1 \in Int, c2 \in Int, c3 \in Int, c4 \in Int, c5 \in Int, o \in Int :
            /\ c1 = k * (al * c) /\ c2 = k * (dd * (al * (be * be))) /\ c3 = k * (be * g)
            /\ c4 = k * (dd * (al * (be * al)))
            /\ c5 = k * (dd * (v1 * v3 * (al * (c * (v1 + v3)) - be * (g * (v1 - v3)))))
            /\ o = u1 * k1 - u3 * k3
    OBVIOUS
  <2>3. FiveTimes(o, c1, r1, c2, r2, c3, r3, c4, r4, c5, h2)
    BY <2>1, <2>2 DEF FiveTimes
  <2>4. o \cong 0
    BY <1>3, <1>5, <2>3, NoneOfFive
  <2> QED BY <2>2, <2>4
<1>10. w1 * l1 - w3 * l3 \cong 0
  <2>1. w1 * l1 - w3 * l3
          = k * (-(al * (g * r3)) - be * (c * r1) + dd * (al * (be * (be * r4 + al * r2)))
                 + dd * (h2 * (v1 * v3 * (al * (g * (v1 - v3)) - be * (c * (v1 + v3))))))
    BY <1>2, <1>4, <1>5, <1>6, <1>7, <1>8 DEF Rest1, Rest2, Rest3, Rest4
  <2>2. PICK c1 \in Int, c2 \in Int, c3 \in Int, c4 \in Int, c5 \in Int, o \in Int :
            /\ c1 = -(k * (be * c)) /\ c2 = k * (dd * (al * (be * al))) /\ c3 = -(k * (al * g))
            /\ c4 = k * (dd * (al * (be * be)))
            /\ c5 = k * (dd * (v1 * v3 * (al * (g * (v1 - v3)) - be * (c * (v1 + v3)))))
            /\ o = w1 * l1 - w3 * l3
    OBVIOUS
  <2>3. FiveTimes(o, c1, r1, c2, r2, c3, r3, c4, r4, c5, h2)
    BY <2>1, <2>2 DEF FiveTimes
  <2>4. o \cong 0
    BY <1>3, <1>5, <2>3, NoneOfFive
  <2> QED BY <2>2, <2>4
<1> QED BY <1>9, <1>10 DEF Crosswise

\* Two quotients whose numerators meet crosswise are one.
LEMMA SameQuotient ==
    ASSUME NEW s \in 0 .. Q - 1, NEW t \in 0 .. Q - 1, NEW k \in Int, NEW l \in Int, NEW u \in Int, NEW v \in Int,
           Quotient(s, u, k), Quotient(t, v, l), Crosswise(u, k, v, l)
    PROVE  s = t
<1>1. s \in Int /\ t \in Int
  BY QIsOdd
<1>a. /\ ~ (k \cong 0) /\ ~ (l \cong 0) /\ s * k \cong u /\ t * l \cong v
      /\ u * l - v * k \cong 0
  BY DEF Quotient, Crosswise
<1>2. PICK a \in Int, b \in Int, g \in Int, n \in Int, w \in Int :
          a = s * k /\ b = t * l /\ g = l * u /\ n = k * v /\ w = k * l
  BY <1>1
<1>3. l * a \cong g /\ k * b \cong n
  BY <1>a, <1>2, SameTimes
<1>4. g \cong n
  <2>1. g - n = u * l - v * k
    BY <1>2
  <2> QED BY <1>a, <1>2, <2>1, SameIfNone
<1>5. PICK o \in Int, p \in Int : o = l * a /\ p = k * b
  OBVIOUS
<1>6. o \cong p
  BY <1>3, <1>4, <1>5, SameBack, SameOn
<1>7. o = w * s /\ p = w * t
  BY <1>1, <1>2, <1>5
<1>8. ~ (w \cong 0)
  BY <1>a, <1>2, NoneFromTwo
<1>9. s \cong t
  BY <1>1, <1>6, <1>7, <1>8, Cancels
<1> QED BY <1>9, SameIsEqual

LEMMA SumAssociates ==
    ASSUME NEW p1 \in Curve, NEW p2 \in Curve, NEW p3 \in Curve
    PROVE  PointSum(PointSum(p1, p2), p3) = PointSum(p1, PointSum(p2, p3))
<1>1. PICK x1 \in Int, y1 \in Int, be \in Int, al \in Int, x3 \in Int, y3 \in Int :
          /\ p1[1] = x1 /\ p1[2] = y1 /\ p2[1] = be /\ p2[2] = al /\ p3[1] = x3 /\ p3[2] = y3
          /\ OnCurve(x1, y1) /\ OnCurve(be, al) /\ OnCurve(x3, y3)
  BY CurvePoint
<1>2. PICK dd \in Int : dd = D
  BY FieldAssumption, QIsOdd
<1>3. ASSUME NEW a \in Int, NEW b \in Int, NEW c \in Int, NEW g \in Int
      PROVE  \E kx, ky, ux, uy \in Int : Joined(a, b, be, al, c, g, kx, ky, ux, uy)
  <2>1. PICK n \in Int, u \in Int, p \in Int, q \in Int :
            /\ n = a * al + be * b /\ u = b * al + a * be
            /\ p = 1 + dd * (a * be * b * al) /\ q = 1 - dd * (a * be * b * al)
    OBVIOUS
  <2>2. PICK kx \in Int, ky \in Int, ux \in Int, uy \in Int :
            /\ kx = p * q + dd * (n * u * c * g) /\ ky = p * q - dd * (n * u * c * g)
            /\ ux = n * q * g + u * p * c /\ uy = u * p * g + n * q * c
    OBVIOUS
  <2> QED BY <1>2, <2>1, <2>2 DEF Joined
<1>4. PICK kx \in Int, ky \in Int, ux \in Int, uy \in Int : Joined(x1, y1, be, al, x3, y3, kx, ky, ux, uy)
  BY <1>3
<1>5. PICK lx \in Int, ly \in Int, vx \in Int, vy \in Int : Joined(x3, y3, be, al, x1, y1, lx, ly, vx, vy)
  BY <1>3
<1>7. PICK s \in Curve, t \in Curve :
          s = PointSum(PointSum(p1, p2), p3) /\ t = PointSum(PointSum(p3, p2), p1)
  BY SumStays
<1>8. Quotient(s[1], ux, kx) /\ Quotient(s[2], uy, ky)
  BY <1>1, <1>4, <1>7, SumOfThree
<1>9. Quotient(t[1], vx, lx) /\ Quotient(t[2], vy, ly)
  BY <1>1, <1>5, <1>7, SumOfThree
<1>10. Crosswise(ux, kx, vx, lx) /\ Crosswise(uy, ky, vy, ly)
  BY <1>1, <1>4, <1>5, SidesMeet
<1>11. s = t
  <2>1. /\ s[1] \in 0 .. Q - 1 /\ s[2] \in 0 .. Q - 1 /\ t[1] \in 0 .. Q - 1 /\ t[2] \in 0 .. Q - 1
        /\ s = <<s[1], s[2]>> /\ t = <<t[1], t[2]>>
    BY CurvePoint
  <2>2. s[1] = t[1]
    BY <1>8, <1>9, <1>10, <2>1, SameQuotient
  <2>3. s[2] = t[2]
    BY <1>8, <1>9, <1>10, <2>1, SameQuotient
  <2> QED BY <2>1, <2>2, <2>3
<1>12. t = PointSum(p1, PointSum(p2, p3))
  BY <1>7, SumStays, SumTurns
<1> QED BY <1>7, <1>11, <1>12

-----------------------------------------------------------------------------
(* The points of the curve are a group, and its multiples. *)

LEMMA ZeroIsOnCurve == Zero \in Curve /\ Zero[1] = 0 /\ Zero[2] = 1
BY ResetSays DEF Zero

LEMMA SumWithZero == ASSUME NEW p \in Curve PROVE PointSum(p, Zero) = p /\ PointSum(Zero, p) = p
<1>1. PICK x \in 0 .. Q - 1, y \in 0 .. Q - 1 : p[1] = x /\ p[2] = y /\ p = <<p[1], p[2]>>
  BY CurvePoint
<1>2. x \in Int /\ y \in Int /\ 0 = Twist(x, y, 0, 1)
  <2>1. PICK dd \in Int : dd = D
    BY FieldAssumption, QIsOdd
  <2>2. x \in Int /\ y \in Int
    BY QIsOdd
  <2> QED BY <2>1, <2>2 DEF Twist
<1>3. PICK r \in Curve : r = PointSum(p, Zero)
  BY SumStays, ZeroIsOnCurve
<1>4. PICK a \in 0 .. Q - 1, b \in 0 .. Q - 1 : r[1] = a /\ r[2] = b /\ r = <<r[1], r[2]>>
  BY CurvePoint
<1>5. a * (1 + 0) \cong x * 1 + y * 0 /\ b * (1 - 0) \cong y * 1 + x * 0
  BY <1>1, <1>2, <1>3, <1>4, ZeroIsOnCurve, SumSays
<1>6. a \cong x /\ b \cong y
  <2>1. a \in Int /\ b \in Int
    BY QIsOdd
  <2>2. a * (1 + 0) = a /\ x * 1 + y * 0 = x /\ b * (1 - 0) = b /\ y * 1 + x * 0 = y
    BY <1>2, <2>1
  <2> QED BY <1>5, <2>2
<1>7. a = x /\ b = y
  BY <1>6, SameIsEqual
<1> QED BY <1>1, <1>3, <1>4, <1>7, SumTurns, ZeroIsOnCurve

LEMMA SumWithOpposite == ASSUME NEW p \in Curve PROVE PointSum(p, Opposite(p)) = Zero
<1>1. PICK x \in Int, y \in Int : p[1] = x /\ p[2] = y /\ OnCurve(x, y)
  BY CurvePoint
<1>2. PICK q \in Curve : q = Opposite(p)
  BY OppositeSays
<1>3. PICK u \in Int : q[1] = u /\ q[2] = y /\ u \cong -x
  BY <1>1, <1>2, OppositeSays, CurvePoint
<1>4. PICK dd \in Int : dd = D
  BY FieldAssumption, QIsOdd
<1>5. PICK tw \in Int, gx \in Int, gy \in Int :
          tw = dd * (x * u * y * y) /\ gx = 1 + tw /\ gy = 1 - tw
  OBVIOUS
<1>6. tw = Twist(x, y, u, y)
  BY <1>4, <1>5 DEF Twist
<1>7. OnCurve(u, y)
  BY <1>2, <1>3, CurvePoint
<1>8. ~ (gx \cong 0) /\ ~ (gy \cong 0)
  <2>1. ~ (1 + tw \cong 0) /\ ~ (1 - tw \cong 0)
    BY <1>1, <1>6, <1>7, Complete
  <2> QED BY <1>5, <2>1
<1>9. PICK r \in Curve : r = PointSum(p, q)
  BY SumStays
<1>10. PICK a \in 0 .. Q - 1, b \in 0 .. Q - 1 : r[1] = a /\ r[2] = b /\ r = <<r[1], r[2]>>
  BY CurvePoint
<1>11. a \in Int /\ b \in Int
  BY QIsOdd
<1>12. a * gx \cong x * y + y * u /\ b * gy \cong y * y + x * u
  <2>1. a * (1 + tw) \cong x * y + y * u /\ b * (1 - tw) \cong y * y + x * u
    BY <1>1, <1>3, <1>6, <1>9, <1>10, SumSays
  <2> QED BY <1>5, <2>1
<1>13. PICK w \in Int : w = u + x /\ w \cong 0
  <2>1. PICK v \in Int, w \in Int : v = -x /\ w = u + x
    OBVIOUS
  <2>2. u - v = w
    BY <2>1
  <2> QED BY <1>3, <2>1, <2>2, SameIfNone
<1>14. a \cong 0
  <2>1. PICK g \in Int, n \in Int, o \in Int : g = gx * a /\ n = x * y + y * u /\ o = gx * 0
    BY <1>11
  <2>2. n = y * w
    BY <1>13, <2>1
  <2>3. n \cong 0
    BY <1>13, <2>2, NoneTimes
  <2>4. g \cong n
    <3>1. a * gx = g
      BY <1>11, <2>1
    <3> QED BY <1>12, <2>1, <3>1
  <2>5. g \cong o
    <3>1. o = 0
      BY <2>1
    <3> QED BY <2>3, <2>4, <3>1, SameOn
  <2> QED BY <1>8, <1>11, <2>1, <2>5, Cancels
<1>15. b \cong 1
  <2>1. PICK hh \in Int : hh = y * y - x * x - (1 + D * (x * x * y * y)) /\ hh \cong 0
    BY <1>1, CurveNone
  <2>2. hh = y * y - x * x - (1 + dd * (x * x * y * y))
    BY <1>4, <2>1
  <2>3. PICK g \in Int, n \in Int, o \in Int, k \in Int :
            g = gy * b /\ n = y * y + x * u /\ o = gy * 1 /\ k = x * (1 + dd * (y * y))
    BY <1>11
  <2>4. PICK kw \in Int : kw = k * w
    OBVIOUS
  <2>5. kw \cong 0
    BY <1>13, <2>4, NoneTimes
  <2>6. n - o = hh + kw
    BY <1>5, <1>13, <2>2, <2>3, <2>4
  <2>7. hh + kw \cong 0
    BY <2>1, <2>5, NoneSum
  <2>8. n \cong o
    BY <2>6, <2>7, SameIfNone
  <2>9. g \cong n
    <3>1. b * gy = g
      BY <1>11, <2>3
    <3> QED BY <1>12, <2>3, <3>1
  <2>10. g \cong o
    BY <2>8, <2>9, SameOn
  <2> QED BY <1>8, <1>11, <2>3, <2>10, Cancels
<1>16. a = 0 /\ b = 1
  <2>1. 0 \in 0 .. Q - 1 /\ 1 \in 0 .. Q - 1
    BY QIsOdd
  <2> QED BY <1>14, <1>15, <2>1, SameIsEqual
<1> QED BY <1>2, <1>9, <1>10, <1>16 DEF Zero

LEMMA OppositeIsUnique ==
    ASSUME NEW p \in Curve, NEW q \in Curve, PointSum(p, q) = Zero PROVE q = Opposite(p)
<1>1. PICK r \in Curve : r = Opposite(p)
  BY OppositeSays
<1>2. PointSum(r, PointSum(p, q)) = r
  BY SumWithZero
<1>3. PointSum(PointSum(r, p), q) = r
  BY <1>2, SumAssociates
<1>4. PointSum(r, p) = Zero
  BY <1>1, SumWithOpposite, SumTurns
<1> QED BY <1>1, <1>3, <1>4, SumWithZero

LEMMA SumShuffles ==
    ASSUME NEW a \in Curve, NEW b \in Curve, NEW c \in Curve, NEW g \in Curve
    PROVE  PointSum(PointSum(a, b), PointSum(c, g)) = PointSum(PointSum(a, c), PointSum(b, g))
<1>1. PICK bc \in Curve, bg \in Curve, cg \in Curve :
          bc = PointSum(b, c) /\ bg = PointSum(b, g) /\ cg = PointSum(c, g)
  BY SumStays
<1>2. PointSum(PointSum(a, b), cg) = PointSum(a, PointSum(b, cg))
  BY SumAssociates
<1>3. PointSum(b, cg) = PointSum(bc, g)
  BY <1>1, SumAssociates
<1>4. bc = PointSum(c, b)
  BY <1>1, SumTurns
<1>5. PointSum(bc, g) = PointSum(c, bg)
  BY <1>1, <1>4, SumAssociates
<1>6. PointSum(a, PointSum(c, bg)) = PointSum(PointSum(a, c), bg)
  BY SumAssociates
<1> QED BY <1>1, <1>2, <1>3, <1>5, <1>6

LEMMA MultipleIs ==
    ASSUME NEW p \in Curve
    PROVE  \E r \in [Nat -> Curve] :
             /\ r[0] = Zero /\ \A n \in Nat : r[n + 1] = PointSum(r[n], p)
             /\ \A n \in Nat : Multiple(n, p) = r[n]
<1>1. PICK g : g = [w \in Nat \X Curve |-> PointSum(w[2], p)]
  OBVIOUS
<1>2. g \in Steps(Curve)
  BY <1>1, SumStays DEF Steps
<1>3. PICK r \in [Nat -> Curve] : r[0] = Zero /\ \A n \in Nat : r[n + 1] = g[<<n, r[n]>>]
  <2>1. PICK r : Follows(r, Curve, Zero, g)
    BY <1>2, ZeroIsOnCurve, Recursion
  <2> QED BY <2>1 DEF Follows
<1>4. \A n \in Nat : r[n + 1] = PointSum(r[n], p)
  BY <1>1, <1>3
<1>5. ASSUME NEW n \in Nat PROVE Multiple(n, p) = r[n]
  <2> DEFINE Body(s) == [k \in 0 .. n |-> IF k = 0 THEN Zero ELSE PointSum(s[k - 1], p)]
  <2>1. PICK q : q = [k \in 0 .. n |-> r[k]]
    OBVIOUS
  <2>2. q = Body(q)
    <3>1. ASSUME NEW k \in 0 .. n PROVE q[k] = Body(q)[k]
      <4>1. CASE k = 0
        BY <1>3, <2>1, <4>1
      <4>2. CASE k # 0
        <5>1. k - 1 \in 0 .. n /\ k - 1 \in Nat /\ (k - 1) + 1 = k
          BY <4>2
        <5>2. r[k] = PointSum(r[k - 1], p)
          BY <1>4, <5>1
        <5> QED BY <2>1, <4>2, <5>1, <5>2
      <4> QED BY <4>1, <4>2
    <3> QED BY <2>1, <3>1
  <2>3. PICK s : s = (CHOOSE u : u = Body(u))
    OBVIOUS
  <2> HIDE DEF Body
  <2>4. s = Body(s)
    BY <2>2, <2>3
  <2>5. Multiple(n, p) = s[n]
    BY <2>3 DEF Multiple, Body
  <2> DEFINE Same == {k \in Nat : k <= n => s[k] = r[k]}
  <2>6. 0 \in Same
    BY <1>3, <2>4 DEF Body
  <2>7. ASSUME NEW k \in Same PROVE k + 1 \in Same
    <3>1. CASE k + 1 <= n
      <4>1. k + 1 \in 0 .. n /\ s[k] = r[k] /\ (k + 1) - 1 = k /\ k + 1 # 0
        BY <3>1
      <4>2. s[k + 1] = PointSum(s[k], p)
        BY <2>4, <4>1 DEF Body
      <4> QED BY <1>4, <4>1, <4>2
    <3> QED BY <3>1
  <2>8. Same = Nat
    <3> HIDE DEF Same
    <3>1. Same \in SUBSET Nat
      BY DEF Same
    <3> QED BY <2>6, <2>7, <3>1, Inductive
  <2> QED BY <2>5, <2>8
<1> QED BY <1>3, <1>4, <1>5

LEMMA MultipleGoesOn ==
    ASSUME NEW p \in Curve
    PROVE  /\ Multiple(0, p) = Zero
           /\ \A n \in Nat : Multiple(n, p) \in Curve /\ Multiple(n + 1, p) = PointSum(Multiple(n, p), p)
<1>1. PICK r \in [Nat -> Curve] :
          /\ r[0] = Zero /\ \A n \in Nat : r[n + 1] = PointSum(r[n], p)
          /\ \A n \in Nat : Multiple(n, p) = r[n]
  BY MultipleIs
<1>2. ASSUME NEW n \in Nat
      PROVE  Multiple(n, p) \in Curve /\ Multiple(n + 1, p) = PointSum(Multiple(n, p), p)
  <2>1. n + 1 \in Nat
    OBVIOUS
  <2> QED BY <1>1, <2>1
<1> QED BY <1>1, <1>2

LEMMA MultipleAdds ==
    ASSUME NEW p \in Curve, NEW g \in Nat, NEW n \in Nat
    PROVE  Multiple(g + n, p) = PointSum(Multiple(g, p), Multiple(n, p))
<1> DEFINE Good == {k \in Nat : Multiple(g + k, p) = PointSum(Multiple(g, p), Multiple(k, p))}
<1>1. 0 \in Good
  <2>1. g + 0 = g
    OBVIOUS
  <2> QED BY <2>1, MultipleGoesOn, SumWithZero
<1>2. ASSUME NEW k \in Good PROVE k + 1 \in Good
  <2>1. g + k \in Nat /\ g + (k + 1) = (g + k) + 1 /\ k + 1 \in Nat
    OBVIOUS
  <2>2. PICK a \in Curve, b \in Curve : a = Multiple(g, p) /\ b = Multiple(k, p)
    BY MultipleGoesOn
  <2>3. Multiple(g + (k + 1), p) = PointSum(PointSum(a, b), p)
    BY <2>1, <2>2, MultipleGoesOn
  <2>4. Multiple(k + 1, p) = PointSum(b, p)
    BY <2>2, MultipleGoesOn
  <2> QED BY <2>1, <2>2, <2>3, <2>4, SumAssociates
<1> HIDE DEF Good
<1>3. Good \in SUBSET Nat
  BY DEF Good
<1>4. n \in Good
  BY <1>1, <1>2, <1>3, Inductive
<1> QED BY <1>4 DEF Good

\* n times p for any integer n: the order of every point divides Order.
Times(n, p) == Multiple(n % Order, p)

LEMMA OrderIs == Order \in Nat /\ Order > 0 /\ Base \in Curve /\ \A p \in Curve : Multiple(Order, p) = Zero
BY OrderAssumption

LEMMA OrderSplits ==
    ASSUME NEW n \in Int
    PROVE  \E w \in Nat, g \in Nat, k \in Int :
             w = Order /\ g = n % Order /\ g < w /\ n = w * k + g /\ (n >= 0 => k >= 0)
<1>1. PICK w \in Nat : w = Order /\ w > 0
  BY OrderIs
<1>2. n = (n \div w) * w + (n % w) /\ n % w \in 0 .. w - 1 /\ n \div w \in Int
  BY <1>1
<1>3. PICK k \in Int, g \in Nat : k = n \div w /\ g = n % w /\ g < w
  BY <1>2
<1>4. n = w * k + g
  BY <1>2, <1>3
<1>5. n >= 0 => k >= 0
  <2>1. SUFFICES ASSUME n >= 0, k <= -1 PROVE FALSE
    OBVIOUS
  <2>2. w * k <= -w
    BY <1>1, <2>1
  <2> QED BY <1>3, <1>4, <2>1, <2>2
<1> QED BY <1>1, <1>3, <1>4, <1>5

LEMMA TimesStays == ASSUME NEW n \in Int, NEW p \in Curve PROVE Times(n, p) \in Curve
<1>1. n % Order \in Nat
  BY OrderSplits
<1> QED BY <1>1, MultipleGoesOn DEF Times

LEMMA MultipleOfOrder ==
    ASSUME NEW p \in Curve, NEW g \in Nat, NEW k \in Nat
    PROVE  Multiple(g + Order * k, p) = Multiple(g, p)
<1> DEFINE Good == {j \in Nat : Multiple(g + Order * j, p) = Multiple(g, p)}
<1>1. 0 \in Good
  <2>1. g + Order * 0 = g
    BY OrderIs
  <2> QED BY <2>1
<1>2. ASSUME NEW j \in Good PROVE j + 1 \in Good
  <2>1. PICK w \in Nat : w = g + Order * j
    BY OrderIs
  <2>2. g + Order * (j + 1) = w + Order
    BY <2>1, OrderIs
  <2>3. Multiple(w + Order, p) = PointSum(Multiple(w, p), Multiple(Order, p))
    BY OrderIs, MultipleAdds
  <2>4. Multiple(w + Order, p) = Multiple(w, p)
    BY <2>3, OrderIs, SumWithZero, MultipleGoesOn
  <2> QED BY <2>1, <2>2, <2>4
<1> HIDE DEF Good
<1>3. Good \in SUBSET Nat
  BY DEF Good
<1>4. k \in Good
  BY <1>1, <1>2, <1>3, Inductive
<1> QED BY <1>4 DEF Good

LEMMA TimesOfNat == ASSUME NEW p \in Curve, NEW n \in Nat PROVE Times(n, p) = Multiple(n, p)
<1>1. PICK w \in Nat, g \in Nat, k \in Int :
          w = Order /\ g = n % Order /\ g < w /\ n = w * k + g /\ (n >= 0 => k >= 0)
  <2>1. n \in Int
    OBVIOUS
  <2> QED BY <2>1, OrderSplits, Zenon
<1>2. k \in Nat /\ n = g + w * k
  BY <1>1
<1>3. n = g + Order * k
  BY <1>1, <1>2
<1>4. Multiple(n, p) = Multiple(g, p)
  BY <1>2, <1>3, MultipleOfOrder
<1> QED BY <1>1, <1>4 DEF Times

\* Division is unique.
LEMMA ModIs ==
    ASSUME NEW a \in Int, NEW b \in Int, NEW k \in Int, a - b = k * Order
    PROVE  a % Order = b % Order
<1>1. PICK r \in Nat, s \in Nat, u \in Int, v \in Int, w \in Nat :
          /\ w = Order /\ w > 0 /\ r = a % Order /\ s = b % Order /\ r < w /\ s < w
          /\ a = w * u + r /\ b = w * v + s
  <2>1. PICK w \in Nat, r \in Nat, u \in Int :
            w = Order /\ r = a % Order /\ r < w /\ a = w * u + r /\ (a >= 0 => u >= 0)
    BY OrderSplits, Zenon
  <2>2. PICK x \in Nat, s \in Nat, v \in Int :
            x = Order /\ s = b % Order /\ s < x /\ b = x * v + s /\ (b >= 0 => v >= 0)
    BY OrderSplits, Zenon
  <2> QED BY <2>1, <2>2, OrderIs
<1>2. PICK n \in Int, g \in Int : n = k - u + v /\ g = w * n
  BY <1>1
<1>3. g = r - s
  <2>1. a - b = k * w
    BY <1>1
  <2> QED BY <1>1, <1>2, <2>1
<1>4. n = 0
  <2>1. CASE n >= 1
    <3>1. w * n >= w
      BY <1>1, <2>1
    <3> QED BY <1>1, <1>2, <1>3, <3>1
  <2>2. CASE n <= -1
    <3>1. w * n <= -w
      BY <1>1, <2>2
    <3> QED BY <1>1, <1>2, <1>3, <3>1
  <2> QED BY <1>2, <2>1, <2>2
<1>5. g = 0
  BY <1>1, <1>2, <1>4
<1> QED BY <1>1, <1>3, <1>5

LEMMA TimesSame ==
    ASSUME NEW p, NEW a \in Int, NEW b \in Int, NEW k \in Int, a - b = k * Order
    PROVE  Times(a, p) = Times(b, p)
BY ModIs DEF Times

LEMMA TimesAdds ==
    ASSUME NEW p \in Curve, NEW a \in Int, NEW b \in Int, NEW c \in Int, c = a + b
    PROVE  Times(c, p) = PointSum(Times(a, p), Times(b, p))
<1>1. PICK g \in Nat, n \in Nat, u \in Int, v \in Int :
          g = a % Order /\ n = b % Order /\ a = Order * u + g /\ b = Order * v + n
  <2>1. PICK w \in Nat, g \in Nat, u \in Int :
            w = Order /\ g = a % Order /\ g < w /\ a = w * u + g /\ (a >= 0 => u >= 0)
    BY OrderSplits, Zenon
  <2>2. PICK x \in Nat, n \in Nat, v \in Int :
            x = Order /\ n = b % Order /\ n < x /\ b = x * v + n /\ (b >= 0 => v >= 0)
    BY OrderSplits, Zenon
  <2> QED BY <2>1, <2>2
<1>2. PICK w \in Nat, k \in Int : w = g + n /\ k = u + v
  BY <1>1
<1>3. c - w = k * Order
  BY <1>1, <1>2, OrderIs
<1>4. Times(c, p) = Times(w, p)
  BY <1>3, TimesSame
<1>5. Times(w, p) = Multiple(w, p)
  BY TimesOfNat
<1>6. Multiple(w, p) = PointSum(Multiple(g, p), Multiple(n, p))
  BY <1>2, MultipleAdds
<1> QED BY <1>1, <1>4, <1>5, <1>6 DEF Times

LEMMA TimesSmall == ASSUME NEW p \in Curve PROVE Times(0, p) = Zero /\ Times(1, p) = p
<1>1. Times(0, p) = Zero
  BY TimesOfNat, MultipleGoesOn
<1>2. Multiple(0 + 1, p) = p
  BY MultipleGoesOn, SumWithZero
<1> QED BY <1>1, <1>2, TimesOfNat

LEMMA TimesOpposite ==
    ASSUME NEW p \in Curve, NEW a \in Int, NEW b \in Int, b = -a
    PROVE  Times(b, p) = Opposite(Times(a, p))
<1>1. 0 = a + b
  OBVIOUS
<1>2. PointSum(Times(a, p), Times(b, p)) = Zero
  BY <1>1, TimesAdds, TimesSmall
<1> QED BY <1>2, TimesStays, OppositeIsUnique

-----------------------------------------------------------------------------
(* Numbers by their digits: from the highest down, as the double loop and Residue
   take them, and as a sum of bytes times powers of 256. *)

IsHorner(u, radix, g, x) == u \in [Nat -> Int] /\ u[0] = 0 /\ \A k \in 0 .. g - 1 : u[k + 1] = radix * u[k] + x[g - 1 - k]
Horner(radix, g, x) == CHOOSE u : IsHorner(u, radix, g, x)

DigitsOf(g) == [0 .. g - 1 -> Int]

LEMMA HornerIs ==
    ASSUME NEW radix \in Int, NEW w \in Nat, NEW x \in DigitsOf(w)
    PROVE  IsHorner(Horner(radix, w, x), radix, w, x)
<1>1. PICK g : g = [q \in Nat \X Int |-> IF q[1] < w THEN radix * q[2] + x[w - 1 - q[1]] ELSE 0]
  OBVIOUS
<1>2. g \in Steps(Int)
  <2>1. ASSUME NEW n \in Nat, NEW v \in Int PROVE g[<<n, v>>] \in Int
    <3>1. g[<<n, v>>] = IF n < w THEN radix * v + x[w - 1 - n] ELSE 0
      BY <1>1
    <3>2. n < w => w - 1 - n \in 0 .. w - 1
      OBVIOUS
    <3>3. n < w => x[w - 1 - n] \in Int
      BY <3>2 DEF DigitsOf
    <3> QED BY <3>1, <3>3
  <2> QED BY <1>1, <2>1 DEF Steps
<1>3. PICK u : Follows(u, Int, 0, g)
  <2>1. 0 \in Int
    OBVIOUS
  <2> QED BY <1>2, <2>1, Recursion, Zenon
<1>4. IsHorner(u, radix, w, x)
  <2>1. u \in [Nat -> Int] /\ u[0] = 0 /\ \A n \in Nat : u[n + 1] = g[<<n, u[n]>>]
    BY <1>3 DEF Follows
  <2>2. ASSUME NEW k \in 0 .. w - 1 PROVE u[k + 1] = radix * u[k] + x[w - 1 - k]
    <3>1. k \in Nat /\ k < w /\ u[k] \in Int
      BY <2>1
    <3> QED BY <1>1, <2>1, <3>1
  <2> QED BY <2>1, <2>2 DEF IsHorner
<1> QED BY <1>4 DEF Horner

IsPower(p) == p \in [Nat -> Nat] /\ p[0] = 1 /\ \A k \in Nat : p[k + 1] = 256 * p[k]
Powers == CHOOSE p : IsPower(p)

LEMMA PowersAre == IsPower(Powers)
<1>1. PICK g : g = [q \in Nat \X Nat |-> 256 * q[2]]
  OBVIOUS
<1>2. g \in Steps(Nat)
  BY <1>1 DEF Steps
<1>3. PICK p : Follows(p, Nat, 1, g)
  BY <1>2, Recursion
<1>4. IsPower(p)
  <2>1. p \in [Nat -> Nat] /\ p[0] = 1 /\ \A n \in Nat : p[n + 1] = g[<<n, p[n]>>]
    BY <1>3 DEF Follows
  <2> QED BY <1>1, <2>1 DEF IsPower
<1> QED BY <1>4 DEF Powers

Digit256 == 0 .. 31
IsWeighted(o, x) == o \in [Nat -> Int] /\ o[0] = 0 /\ \A k \in Digit256 : o[k + 1] = o[k] + x[k] * Powers[k]
Weighted(x) == CHOOSE o : IsWeighted(o, x)

LEMMA WeightedIs == ASSUME NEW x \in [Digit256 -> Int] PROVE IsWeighted(Weighted(x), x)
<1>1. PICK g : g = [q \in Nat \X Int |-> IF q[1] < 32 THEN q[2] + x[q[1]] * Powers[q[1]] ELSE 0]
  OBVIOUS
<1>2. g \in Steps(Int)
  <2>1. ASSUME NEW n \in Nat, NEW v \in Int PROVE g[<<n, v>>] \in Int
    <3>1. g[<<n, v>>] = IF n < 32 THEN v + x[n] * Powers[n] ELSE 0
      BY <1>1
    <3>2. n < 32 => x[n] \in Int
      BY DEF Digit256
    <3>3. Powers[n] \in Nat
      BY PowersAre DEF IsPower
    <3> QED BY <3>1, <3>2, <3>3
  <2> QED BY <1>1, <2>1 DEF Steps
<1>3. PICK o : Follows(o, Int, 0, g)
  BY <1>2, Recursion
<1>4. IsWeighted(o, x)
  <2>1. o \in [Nat -> Int] /\ o[0] = 0 /\ \A n \in Nat : o[n + 1] = g[<<n, o[n]>>]
    BY <1>3 DEF Follows
  <2>2. ASSUME NEW k \in Digit256 PROVE o[k + 1] = o[k] + x[k] * Powers[k]
    <3>1. k \in Nat /\ k < 32 /\ o[k] \in Int
      BY <2>1 DEF Digit256
    <3> QED BY <1>1, <2>1, <3>1
  <2> QED BY <2>1, <2>2 DEF IsWeighted
<1> QED BY <1>4 DEF Weighted

LEMMA UpTo ==
    ASSUME NEW g \in Nat, NEW S \in SUBSET Nat, 0 \in S, \A k \in 0 .. g - 1 : k \in S => k + 1 \in S
    PROVE  \A k \in 0 .. g : k \in S
<1> DEFINE Good == {k \in Nat : k <= g => k \in S}
<1>1. 0 \in Good
  OBVIOUS
<1>2. ASSUME NEW k \in Good PROVE k + 1 \in Good
  OBVIOUS
<1> HIDE DEF Good
<1>3. Good \in SUBSET Nat
  BY DEF Good
<1>4. Good = Nat
  BY <1>1, <1>2, <1>3, Inductive
<1> QED BY <1>4 DEF Good

-----------------------------------------------------------------------------
(* The scalar by its bytes. *)

Scalars == [1 .. 32 -> 0 .. 255]
BytesOf(s) == [k \in Digit256 |-> s[k + 1]]
ValueOf(s) == Horner(256, 32, BytesOf(s))

LEMMA BytesAre ==
    ASSUME NEW s \in Scalars
    PROVE  BytesOf(s) \in [Digit256 -> Int] /\ \A k \in Digit256 : BytesOf(s)[k] = s[k + 1] /\ s[k + 1] \in 0 .. 255
<1>1. ASSUME NEW k \in Digit256 PROVE s[k + 1] \in 0 .. 255
  <2>1. k + 1 \in 1 .. 32
    BY DEF Digit256
  <2> QED BY <2>1 DEF Scalars
<1> QED BY <1>1 DEF BytesOf

LEMMA ValueIs ==
    ASSUME NEW s \in Scalars
    PROVE  /\ ValueOf(s) \in [Nat -> Int] /\ ValueOf(s)[0] = 0
           /\ \A k \in 0 .. 31 : ValueOf(s)[k + 1] = 256 * ValueOf(s)[k] + s[32 - k]
<1>1. PICK x : x = BytesOf(s) /\ x \in DigitsOf(32) /\ \A k \in 0 .. 31 : x[k] = s[k + 1]
  <2>1. 0 .. 32 - 1 = Digit256 /\ 0 .. 31 = Digit256
    BY DEF Digit256
  <2>2. BytesOf(s) \in DigitsOf(32)
    BY <2>1, BytesAre DEF DigitsOf
  <2> QED BY <2>1, <2>2, BytesAre
<1>2. PICK u : u = ValueOf(s) /\ IsHorner(u, 256, 32, x)
  BY <1>1, HornerIs DEF ValueOf
<1>3. ASSUME NEW k \in 0 .. 31 PROVE u[k + 1] = 256 * u[k] + s[32 - k]
  <2>1. u[k + 1] = 256 * u[k] + x[32 - 1 - k]
    BY <1>2 DEF IsHorner
  <2>2. 31 - k \in 0 .. 31 /\ (31 - k) + 1 = 32 - k /\ 32 - 1 - k = 31 - k
    OBVIOUS
  <2>3. x[31 - k] = s[32 - k]
    BY <1>1, <2>2
  <2> QED BY <2>1, <2>2, <2>3
<1> QED BY <1>2, <1>3 DEF IsHorner

LEMMA WeightedByTop ==
    ASSUME NEW s \in Scalars PROVE Weighted(BytesOf(s))[32] = ValueOf(s)[32]
<1>1. PICK v : v = ValueOf(s) /\ v \in [Nat -> Int] /\ v[0] = 0 /\ \A k \in 0 .. 31 : v[k + 1] = 256 * v[k] + s[32 - k]
  BY ValueIs
<1>2. PICK o : o = Weighted(BytesOf(s)) /\ o \in [Nat -> Int] /\ o[0] = 0
               /\ \A k \in Digit256 : o[k + 1] = o[k] + s[k + 1] * Powers[k]
  BY WeightedIs, BytesAre DEF IsWeighted
<1>3. Powers \in [Nat -> Nat] /\ Powers[0] = 1 /\ \A k \in Nat : Powers[k + 1] = 256 * Powers[k]
  BY PowersAre DEF IsPower
<1> DEFINE Good == {k \in Nat : o[k] + Powers[k] * v[32 - k] = v[32]}
<1>4. 0 \in Good
  BY <1>1, <1>2, <1>3
<1>5. ASSUME NEW k \in 0 .. 31, k \in Good PROVE k + 1 \in Good
  <2>1. PICK a \in Int, b \in Int, c \in Int, g \in Int, w \in Int, n \in Int, u \in Int, t \in Int :
            /\ a = o[k] /\ b = o[k + 1] /\ c = Powers[k] /\ g = Powers[k + 1] /\ w = s[k + 1]
            /\ n = v[31 - k] /\ u = v[32 - k] /\ t = v[32]
    <3>1. k + 1 \in 1 .. 32 /\ k \in Nat /\ k + 1 \in Nat /\ 31 - k \in Nat /\ 32 - k \in Nat
      OBVIOUS
    <3>2. s[k + 1] \in Int
      BY <3>1 DEF Scalars
    <3>3. o[k] \in Int /\ o[k + 1] \in Int
      BY <1>2, <3>1
    <3>4. Powers[k] \in Int /\ Powers[k + 1] \in Int
      BY <1>3, <3>1
    <3>5. v[31 - k] \in Int /\ v[32 - k] \in Int /\ v[32] \in Int
      BY <1>1, <3>1
    <3> QED BY <3>2, <3>3, <3>4, <3>5
  <2>2. b = a + w * c
    BY <1>2, <2>1 DEF Digit256
  <2>3. g = 256 * c
    BY <1>3, <2>1
  <2>4. u = 256 * n + w
    <3>1. 31 - k \in 0 .. 31 /\ (31 - k) + 1 = 32 - k /\ 32 - (31 - k) = k + 1
      OBVIOUS
    <3> QED BY <1>1, <2>1, <3>1
  <2>5. a + c * u = t
    BY <1>5, <2>1
  <2>6. b + g * n = t
    BY <2>2, <2>3, <2>4, <2>5
  <2>7. 32 - (k + 1) = 31 - k
    OBVIOUS
  <2> QED BY <2>1, <2>6, <2>7
<1> HIDE DEF Good
<1>6. Good \in SUBSET Nat
  BY DEF Good
<1>7. 32 \in Good
  <2>1. \A k \in 0 .. 32 - 1 : k \in Good => k + 1 \in Good
    BY <1>5
  <2> QED BY <1>4, <1>6, <2>1, UpTo
<1>8. o[32] + Powers[32] * v[0] = v[32]
  BY <1>7 DEF Good
<1> QED BY <1>1, <1>2, <1>3, <1>8

-----------------------------------------------------------------------------
(* Residue and Power256 are the scalar and the powers of 256 modulo Order. *)

Meets(a, b) == \E k \in Int : a - b = k * Order

LEMMA MeetsMod == ASSUME NEW a \in Int, NEW b \in Int, Meets(a, b) PROVE a % Order = b % Order
BY ModIs DEF Meets

LEMMA MeetsTimes ==
    ASSUME NEW p, NEW a \in Int, NEW b \in Int, Meets(a, b) PROVE Times(a, p) = Times(b, p)
BY MeetsMod DEF Times

LEMMA ModMeets ==
    ASSUME NEW a \in Int PROVE a % Order \in Nat /\ a % Order \in 0 .. Order - 1 /\ Meets(a % Order, a)
<1>1. PICK w \in Nat, g \in Nat, k \in Int :
          w = Order /\ g = a % Order /\ g < w /\ a = w * k + g /\ (a >= 0 => k >= 0)
  BY OrderSplits, Zenon
<1>2. PICK n \in Int : n = -k
  OBVIOUS
<1>3. g - a = n * w
  BY <1>1, <1>2
<1>4. Meets(g, a)
  BY <1>1, <1>2, <1>3 DEF Meets
<1> QED BY <1>1, <1>4

LEMMA MeetsOn ==
    ASSUME NEW a \in Int, NEW b \in Int, NEW c \in Int, Meets(a, b), Meets(b, c) PROVE Meets(a, c)
<1>1. PICK w \in Int, k \in Int, l \in Int : w = Order /\ a - b = k * w /\ b - c = l * w
  BY OrderIs DEF Meets
<1>2. PICK n \in Int : n = k + l
  OBVIOUS
<1>3. a - c = n * w
  BY <1>1, <1>2
<1> QED BY <1>1, <1>3 DEF Meets

Linear(n, a, c, u) == u = n * a + c
LEMMA MeetsLinear ==
    ASSUME NEW a \in Int, NEW b \in Int, NEW c \in Int, NEW n \in Int, Meets(a, b),
           NEW u \in Int, Linear(n, a, c, u), NEW v \in Int, Linear(n, b, c, v)
    PROVE  Meets(u, v)
<1>1. PICK w \in Int, k \in Int : w = Order /\ a - b = k * w
  BY OrderIs DEF Meets
<1>2. PICK g \in Int : g = n * k
  OBVIOUS
<1>3. u - v = g * w
  <2>1. n * (a - b) = n * (k * w)
    BY <1>1
  <2>2. n * a - n * b = n * (k * w)
    BY <2>1
  <2>3. u - v = n * a - n * b
    BY DEF Linear
  <2> QED BY <1>2, <2>2, <2>3
<1> QED BY <1>1, <1>3 DEF Meets

LEMMA ResidueIs ==
    ASSUME NEW s \in Scalars
    PROVE  Residue(s) \in 0 .. Order - 1 /\ Meets(Residue(s), ValueOf(s)[32])
<1>1. PICK v : v = ValueOf(s) /\ v \in [Nat -> Int] /\ v[0] = 0 /\ \A k \in 0 .. 31 : v[k + 1] = 256 * v[k] + s[32 - k]
  BY ValueIs
<1> DEFINE Body(r) == [k \in 0 .. 32 |-> IF k = 0 THEN 0 ELSE (256 * r[k - 1] + s[33 - k]) % Order]
<1>2. ASSUME NEW k \in 1 .. 32
      PROVE  v[k] = 256 * v[k - 1] + s[33 - k] /\ v[k] \in Int /\ v[k - 1] \in Int /\ s[33 - k] \in Int
  <2>1. k - 1 \in 0 .. 31 /\ (k - 1) + 1 = k /\ 32 - (k - 1) = 33 - k /\ 33 - k \in 1 .. 32 /\ k \in Nat /\ k - 1 \in Nat
    OBVIOUS
  <2>2. s[33 - k] \in Int
    BY <2>1 DEF Scalars
  <2> QED BY <1>1, <2>1, <2>2
<1>3. PICK q : q = [k \in 0 .. 32 |-> IF k = 0 THEN 0 ELSE v[k] % Order]
  OBVIOUS
<1>4. q = Body(q)
  <2>1. ASSUME NEW k \in 0 .. 32, k # 0 PROVE q[k] = (256 * q[k - 1] + s[33 - k]) % Order
    <3> k \in 1 .. 32
      BY <2>1
    <3>1. PICK a \in Int, b \in Int, c \in Int : a = v[k] /\ b = v[k - 1] /\ c = s[33 - k] /\ a = 256 * b + c
      <4>1. v[k] = 256 * v[k - 1] + s[33 - k] /\ v[k] \in Int /\ v[k - 1] \in Int /\ s[33 - k] \in Int
        BY <1>2
      <4> QED BY <4>1
    <3>2. PICK g \in Int : g = q[k - 1] /\ Meets(g, b)
      <4>1. k - 1 \in 0 .. 32
        BY <2>1
      <4>2. CASE k - 1 = 0
        <5>1. q[k - 1] = 0 /\ b = 0
          BY <1>1, <1>3, <3>1, <4>1, <4>2
        <5>2. 0 - 0 = 0 * Order
          BY OrderIs
        <5> QED BY <5>1, <5>2 DEF Meets
      <4>3. CASE k - 1 # 0
        <5>1. q[k - 1] = b % Order
          BY <1>3, <3>1, <4>1, <4>3
        <5> QED BY <3>1, <5>1, ModMeets
      <4> QED BY <4>2, <4>3
    <3>3. PICK w \in Int, n \in Int : w = 256 * g + c /\ n = 256 * b + c
      OBVIOUS
    <3>4. Meets(w, n)
      <4>1. Linear(256, g, c, w) /\ Linear(256, b, c, n)
        BY <3>3 DEF Linear
      <4> QED BY <3>1, <3>2, <3>3, <4>1, MeetsLinear
    <3>5. w % Order = n % Order
      BY <3>4, MeetsMod
    <3>6. q[k] = a % Order
      BY <1>3, <2>1, <3>1
    <3>7. n = a /\ 256 * q[k - 1] + s[33 - k] = w
      BY <3>1, <3>2, <3>3
    <3> QED BY <3>5, <3>6, <3>7
  <2> QED BY <1>3, <2>1
<1>5. PICK r : r = (CHOOSE u : u = Body(u))
  OBVIOUS
<1> HIDE DEF Body
<1>6. r = Body(r)
  BY <1>4, <1>5
<1>7. Residue(s) = r[32]
  BY <1>5 DEF Residue, Body
<1> DEFINE Good == {k \in Nat : r[k] \in Int /\ Meets(r[k], v[k])}
<1>8. 0 \in Good
  <2>1. r[0] = 0
    BY <1>6 DEF Body
  <2>2. 0 - 0 = 0 * Order
    BY OrderIs
  <2> QED BY <1>1, <2>1, <2>2 DEF Meets
<1>9. ASSUME NEW k \in 0 .. 31, k \in Good PROVE k + 1 \in Good
  <2>1. k + 1 \in 1 .. 32 /\ (k + 1) - 1 = k /\ k + 1 \in Nat
    OBVIOUS
  <2>2. PICK a \in Int, b \in Int, c \in Int : a = v[k + 1] /\ b = v[k] /\ c = s[33 - (k + 1)] /\ a = 256 * b + c
    <3>1. PICK n \in 1 .. 32 : n = k + 1 /\ n - 1 = k
      BY <2>1
    <3>2. v[n] = 256 * v[n - 1] + s[33 - n] /\ v[n] \in Int /\ v[n - 1] \in Int /\ s[33 - n] \in Int
      BY <1>2
    <3> QED BY <3>1, <3>2
  <2>3. PICK g \in Int : g = r[k] /\ Meets(g, b)
    BY <1>9, <2>2
  <2>4. PICK w \in Int : w = 256 * g + c
    OBVIOUS
  <2>5. r[k + 1] = w % Order
    BY <1>6, <2>1, <2>2, <2>3, <2>4 DEF Body
  <2>6. Meets(w, a)
    <3>1. Linear(256, g, c, w) /\ Linear(256, b, c, a)
      BY <2>2, <2>4 DEF Linear
    <3> QED BY <2>2, <2>3, <2>4, <3>1, MeetsLinear
  <2>7. Meets(w % Order, a) /\ w % Order \in Int
    BY <2>6, ModMeets, MeetsOn
  <2> QED BY <2>1, <2>2, <2>5, <2>7
<1>10. 32 \in Good
  <2> HIDE DEF Good
  <2>1. Good \in SUBSET Nat
    BY DEF Good
  <2>2. \A k \in 0 .. 32 - 1 : k \in Good => k + 1 \in Good
    BY <1>9
  <2> QED BY <1>8, <2>1, <2>2, UpTo
<1>11. r[32] \in 0 .. Order - 1
  <2>1. 31 \in Nat /\ 31 \in 0 .. 31 /\ r[31] \in Int
    <3> HIDE DEF Good
    <3>1. Good \in SUBSET Nat
      BY DEF Good
    <3>2. \A k \in 0 .. 32 - 1 : k \in Good => k + 1 \in Good
      BY <1>9
    <3>3. 31 \in Good
      BY <1>8, <3>1, <3>2, UpTo
    <3> QED BY <3>3 DEF Good
  <2>2. PICK w \in Int : w = 256 * r[31] + s[1]
    <3>1. 32 \in 1 .. 32 /\ 33 - 32 = 1
      OBVIOUS
    <3>2. s[1] \in Int
      BY <1>2, <3>1
    <3> QED BY <2>1, <3>2
  <2>3. r[32] = w % Order
    BY <1>6, <2>2 DEF Body
  <2> QED BY <2>3, ModMeets
<1> QED BY <1>1, <1>7, <1>10, <1>11

LEMMA Power256Is ==
    ASSUME NEW n \in Nat PROVE Power256(n) \in Int /\ Meets(Power256(n), Powers[n])
<1>1. Powers \in [Nat -> Nat] /\ Powers[0] = 1 /\ \A k \in Nat : Powers[k + 1] = 256 * Powers[k]
  BY PowersAre DEF IsPower
<1> DEFINE Body(r) == [j \in 0 .. n |-> IF j = 0 THEN 1 ELSE (256 * r[j - 1]) % Order]
<1>2. ASSUME NEW k \in 1 .. n
      PROVE  Powers[k] = 256 * Powers[k - 1] /\ Powers[k] \in Int /\ Powers[k - 1] \in Int
  <2>1. k - 1 \in Nat /\ (k - 1) + 1 = k /\ k \in Nat
    OBVIOUS
  <2> QED BY <1>1, <2>1
<1>3. PICK q : q = [k \in 0 .. n |-> IF k = 0 THEN 1 ELSE Powers[k] % Order]
  OBVIOUS
<1>4. q = Body(q)
  <2>1. ASSUME NEW k \in 0 .. n, k # 0 PROVE q[k] = (256 * q[k - 1]) % Order
    <3>1. PICK a \in Int, b \in Int : a = Powers[k] /\ b = Powers[k - 1] /\ a = 256 * b
      BY <1>2, <2>1
    <3>2. PICK g \in Int : g = q[k - 1] /\ Meets(g, b)
      <4>1. k - 1 \in 0 .. n
        BY <2>1
      <4>2. CASE k - 1 = 0
        <5>1. q[k - 1] = 1 /\ b = 1
          BY <1>1, <1>3, <3>1, <4>1, <4>2
        <5>2. 1 - 1 = 0 * Order
          BY OrderIs
        <5> QED BY <5>1, <5>2 DEF Meets
      <4>3. CASE k - 1 # 0
        <5>1. q[k - 1] = b % Order
          BY <1>3, <3>1, <4>1, <4>3
        <5> QED BY <3>1, <5>1, ModMeets
      <4> QED BY <4>2, <4>3
    <3>3. PICK w \in Int, o \in Int : w = 256 * g /\ o = 256 * b
      OBVIOUS
    <3>4. Meets(w, o)
      <4>1. Linear(256, g, 0, w) /\ Linear(256, b, 0, o)
        BY <3>3 DEF Linear
      <4> QED BY <3>1, <3>2, <3>3, <4>1, MeetsLinear
    <3>5. w % Order = o % Order
      BY <3>4, MeetsMod
    <3>6. q[k] = a % Order
      BY <1>3, <2>1, <3>1
    <3>7. o = a /\ 256 * q[k - 1] = w
      BY <3>1, <3>2, <3>3
    <3> QED BY <3>5, <3>6, <3>7
  <2> QED BY <1>3, <2>1
<1>5. PICK r : r = (CHOOSE u : u = Body(u))
  OBVIOUS
<1> HIDE DEF Body
<1>6. r = Body(r)
  BY <1>4, <1>5
<1>7. Power256(n) = r[n]
  BY <1>5 DEF Power256, Body
<1> DEFINE Good == {k \in Nat : r[k] \in Int /\ Meets(r[k], Powers[k])}
<1>8. 0 \in Good
  <2>1. r[0] = 1
    BY <1>6 DEF Body
  <2>2. 1 - 1 = 0 * Order
    BY OrderIs
  <2> QED BY <1>1, <2>1, <2>2 DEF Meets
<1>9. ASSUME NEW k \in 0 .. n - 1, k \in Good PROVE k + 1 \in Good
  <2>1. k + 1 \in 1 .. n /\ (k + 1) - 1 = k /\ k + 1 \in Nat
    OBVIOUS
  <2>2. PICK a \in Int, b \in Int : a = Powers[k + 1] /\ b = Powers[k] /\ a = 256 * b
    BY <1>2, <2>1
  <2>3. PICK g \in Int : g = r[k] /\ Meets(g, b)
    BY <1>9, <2>2
  <2>4. PICK w \in Int : w = 256 * g
    OBVIOUS
  <2>5. r[k + 1] = w % Order
    BY <1>6, <2>1, <2>3, <2>4 DEF Body
  <2>6. Meets(w, a)
    <3>1. PICK o \in Int : o = 256 * b
      OBVIOUS
    <3>2. Linear(256, g, 0, w) /\ Linear(256, b, 0, o)
      BY <2>4, <3>1 DEF Linear
    <3>3. Meets(w, o)
      BY <2>2, <2>3, <2>4, <3>1, <3>2, MeetsLinear
    <3> QED BY <2>2, <3>1, <3>3
  <2>7. Meets(w % Order, a) /\ w % Order \in Int
    BY <2>6, ModMeets, MeetsOn
  <2> QED BY <2>1, <2>2, <2>5, <2>7
<1>10. n \in Good
  <2> HIDE DEF Good
  <2>1. Good \in SUBSET Nat
    BY DEF Good
  <2> QED BY <1>8, <1>9, <2>1, UpTo
<1> QED BY <1>7, <1>10

-----------------------------------------------------------------------------
(* Two arrays of digits are one number if carries lead from one to the other. *)

IsCarry(c, of, digits, radix, n) ==
    /\ c \in [Nat -> Int] /\ c[0] = 0 /\ c[n] = 0
    /\ \A j \in 0 .. n - 1 : of[j] + c[j] = digits[j] + radix * c[j + 1]
Carried(of, digits, radix, n) == \E c : IsCarry(c, of, digits, radix, n)

LEMMA CarriedItself ==
    ASSUME NEW n \in Nat, NEW of \in DigitsOf(n), NEW radix \in Int PROVE Carried(of, of, radix, n)
<1>1. PICK c : c = [k \in Nat |-> 0]
  OBVIOUS
<1>2. \A j \in 0 .. n - 1 : of[j] + c[j] = of[j] + radix * c[j + 1]
  <2> TAKE j \in 0 .. n - 1
  <2>1. of[j] \in Int /\ c[j] = 0 /\ c[j + 1] = 0 /\ radix * 0 = 0
    BY <1>1 DEF DigitsOf
  <2> QED BY <2>1
<1> QED BY <1>1, <1>2 DEF Carried, IsCarry

LEMMA CarriedOn ==
    ASSUME NEW n \in Nat, NEW radix \in Int,
           NEW x \in DigitsOf(n), NEW y \in DigitsOf(n), NEW z \in DigitsOf(n),
           Carried(x, y, radix, n), Carried(y, z, radix, n)
    PROVE  Carried(x, z, radix, n)
<1>1. PICK c : IsCarry(c, x, y, radix, n)
  BY DEF Carried
<1>2. PICK g : IsCarry(g, y, z, radix, n)
  BY DEF Carried
<1>3. PICK t : t = [k \in Nat |-> c[k] + g[k]]
  OBVIOUS
<1>4. t \in [Nat -> Int] /\ t[0] = 0 /\ t[n] = 0
  BY <1>1, <1>2, <1>3 DEF IsCarry
<1>5. ASSUME NEW j \in 0 .. n - 1 PROVE x[j] + t[j] = z[j] + radix * t[j + 1]
  <2>1. PICK c0 \in Int, c1 \in Int, g0 \in Int, g1 \in Int :
            c0 = c[j] /\ c1 = c[j + 1] /\ g0 = g[j] /\ g1 = g[j + 1]
    BY <1>1, <1>2 DEF IsCarry
  <2>2. PICK a \in Int, b \in Int, w \in Int : a = x[j] /\ b = y[j] /\ w = z[j]
    BY DEF DigitsOf
  <2>3. t[j] = c0 + g0 /\ t[j + 1] = c1 + g1
    BY <1>3, <2>1
  <2>4. a + c0 = b + radix * c1
    BY <1>1, <2>1, <2>2 DEF IsCarry
  <2>5. b + g0 = w + radix * g1
    BY <1>2, <2>1, <2>2 DEF IsCarry
  <2>6. a + (c0 + g0) = w + radix * (c1 + g1)
    BY <2>4, <2>5
  <2> QED BY <2>2, <2>3, <2>6
<1> QED BY <1>4, <1>5 DEF Carried, IsCarry

LEMMA CarriedIsSame ==
    ASSUME NEW n \in Nat, NEW radix \in {2, 16}, NEW of \in DigitsOf(n), NEW digits \in DigitsOf(n),
           Carried(of, digits, radix, n)
    PROVE  SameNumber(of, digits, radix, n)
<1>1. PICK c : IsCarry(c, of, digits, radix, n)
  BY DEF Carried
<1> DEFINE Body(u) == [j \in 0 .. n |-> IF j = 0 THEN 0 ELSE (u[j - 1] + of[j - 1] - digits[j - 1]) \div radix]
<1>2. ASSUME NEW j \in 1 .. n PROVE (c[j - 1] + of[j - 1] - digits[j - 1]) \div radix = c[j]
  <2>1. j - 1 \in 0 .. n - 1 /\ (j - 1) + 1 = j /\ j \in Nat /\ j - 1 \in Nat
    OBVIOUS
  <2>2. of[j - 1] \in Int /\ digits[j - 1] \in Int /\ c[j - 1] \in Int /\ c[j] \in Int
    BY <1>1, <2>1 DEF DigitsOf, IsCarry
  <2>3. PICK a \in Int, b \in Int, c0 \in Int, c1 \in Int :
            a = of[j - 1] /\ b = digits[j - 1] /\ c0 = c[j - 1] /\ c1 = c[j]
    BY <2>2
  <2>4. of[j - 1] + c[j - 1] = digits[j - 1] + radix * c[(j - 1) + 1]
    BY <1>1, <2>1 DEF IsCarry
  <2>5. a + c0 = b + radix * c1
    BY <2>1, <2>3, <2>4
  <2>6. CASE radix = 2
    <3>1. c0 + a - b = 2 * c1
      BY <2>5, <2>6
    <3> QED BY <2>3, <2>6, <3>1
  <2>7. CASE radix = 16
    <3>1. c0 + a - b = 16 * c1
      BY <2>5, <2>7
    <3> QED BY <2>3, <2>7, <3>1
  <2> QED BY <2>6, <2>7
<1>3. PICK q : q = [j \in 0 .. n |-> c[j]]
  OBVIOUS
<1>4. c[0] = 0
  BY <1>1 DEF IsCarry
<1>5. q = Body(q)
  <2>1. ASSUME NEW j \in 0 .. n, j # 0 PROVE q[j] = (q[j - 1] + of[j - 1] - digits[j - 1]) \div radix
    <3>1. j \in 1 .. n /\ j - 1 \in 0 .. n
      BY <2>1
    <3>2. q[j] = c[j] /\ q[j - 1] = c[j - 1]
      BY <1>3, <3>1
    <3>3. (c[j - 1] + of[j - 1] - digits[j - 1]) \div radix = c[j]
      BY <1>2, <3>1
    <3> QED BY <3>2, <3>3
  <2> QED BY <1>3, <1>4, <2>1
<1>6. PICK u : u = (CHOOSE v : v = Body(v))
  OBVIOUS
<1> HIDE DEF Body
<1>7. u = Body(u)
  BY <1>5, <1>6
<1> DEFINE Good == {k \in Nat : u[k] = c[k]}
<1>8. 0 \in Good
  BY <1>4, <1>7 DEF Body
<1>9. ASSUME NEW k \in 0 .. n - 1, k \in Good PROVE k + 1 \in Good
  <2>1. PICK j \in 1 .. n : j = k + 1 /\ j - 1 = k
    OBVIOUS
  <2>2. (c[j - 1] + of[j - 1] - digits[j - 1]) \div radix = c[j]
    BY <1>2
  <2>3. u[j] = (u[j - 1] + of[j - 1] - digits[j - 1]) \div radix
    BY <1>7 DEF Body
  <2>4. u[j - 1] = c[j - 1]
    BY <1>9, <2>1
  <2> QED BY <2>1, <2>2, <2>3, <2>4
<1> HIDE DEF Good
<1>10. Good \in SUBSET Nat
  BY DEF Good
<1>11. ASSUME NEW g \in 0 .. n PROVE u[g] = c[g]
  <2>1. g \in Good
    <3>1. \A k \in 0 .. g - 1 : k \in Good => k + 1 \in Good
      BY <1>9
    <3> QED BY <1>8, <1>10, <3>1, UpTo
  <2> QED BY <2>1 DEF Good
<1>12. u[n] = 0
  BY <1>1, <1>11 DEF IsCarry
<1>13. \A j \in 0 .. n - 1 : of[j] + u[j] = digits[j] + radix * u[j + 1]
  BY <1>1, <1>11 DEF IsCarry
<1> QED BY <1>6, <1>12, <1>13 DEF SameNumber, Body

LEMMA RecodedCarries ==
    ASSUME NEW r \in DigitsOf(64), NEW j \in 0 .. 62
    PROVE  Recoded(r, j) \in DigitsOf(64) /\ Carried(r, Recoded(r, j), 16, 64)
<1>1. PICK x \in Int, y \in Int : x = r[j] /\ y = r[j + 1]
  BY DEF DigitsOf
<1>2. PICK k \in Int : k = (x + 8) \div 16
  OBVIOUS
<1>3. PICK q : q = [r EXCEPT ![j] = x - 16 * k, ![j + 1] = y + k]
  OBVIOUS
<1>4. j # j + 1 /\ j \in 0 .. 63 /\ j + 1 \in 0 .. 63 /\ 64 - 1 = 63
  OBVIOUS
<1>5. Recoded(r, j) = q
  BY <1>1, <1>2, <1>3, <1>4 DEF Recoded
<1>6. r \in [0 .. 63 -> Int]
  BY <1>4 DEF DigitsOf
<1>7. /\ q \in [0 .. 63 -> Int] /\ q[j] = x - 16 * k /\ q[j + 1] = y + k
      /\ \A g \in 0 .. 63 : g # j /\ g # j + 1 => q[g] = r[g]
  <2>1. x - 16 * k \in Int /\ y + k \in Int
    OBVIOUS
  <2>2. q \in [0 .. 63 -> Int]
    BY <1>3, <1>6, <2>1
  <2>3. q[j] = x - 16 * k /\ q[j + 1] = y + k
    BY <1>3, <1>4, <1>6
  <2> QED BY <1>3, <1>6, <2>2, <2>3
<1>8. PICK c : c = [g \in Nat |-> IF g = j + 1 THEN k ELSE 0]
  OBVIOUS
<1>9. c \in [Nat -> Int] /\ c[0] = 0 /\ c[64] = 0
  <2>1. 0 # j + 1 /\ 64 # j + 1
    OBVIOUS
  <2> QED BY <1>8, <2>1
<1>10. ASSUME NEW g \in 0 .. 63 PROVE r[g] + c[g] = q[g] + 16 * c[g + 1]
  <2>1. r[g] \in Int
    BY <1>6
  <2>2. CASE g = j
    <3>1. c[g] = 0 /\ c[g + 1] = k
      BY <1>8, <2>2
    <3> QED BY <1>1, <1>7, <2>2, <3>1
  <2>3. CASE g = j + 1
    <3>1. c[g] = k /\ c[g + 1] = 0
      BY <1>8, <2>3
    <3> QED BY <1>1, <1>7, <2>3, <3>1
  <2>4. CASE g # j /\ g # j + 1
    <3>1. c[g] = 0 /\ c[g + 1] = 0
      BY <1>8, <2>4
    <3> QED BY <1>7, <2>1, <2>4, <3>1
  <2> QED BY <2>2, <2>3, <2>4
<1>11. IsCarry(c, r, q, 16, 64)
  BY <1>4, <1>9, <1>10 DEF IsCarry
<1> QED BY <1>4, <1>5, <1>7, <1>11 DEF DigitsOf, Carried

LEMMA LeastIs ==
    ASSUME NEW S \in SUBSET Nat, S # {} PROVE \E k \in S : \A l \in S : k <= l
<1> DEFINE R == {p \in Nat \X Nat : p[1] < p[2]}
<1>1. IsWellFoundedOn(R, Nat)
  BY LessIsWellFounded
<1> HIDE DEF R
<1>2. PICK k \in S : \A l \in S : ~(<<l, k>> \in R)
  BY <1>1, WFMin
<1>3. ASSUME NEW l \in S PROVE k <= l
  <2>1. k \in Nat /\ l \in Nat /\ <<l, k>> \in Nat \X Nat
    OBVIOUS
  <2>2. ~ (l < k)
    BY <1>2, <2>1 DEF R
  <2> QED BY <2>1, <2>2
<1> QED BY <1>3

\* 2 ^ t
Two == [t \in 0 .. 4 |-> IF t = 0 THEN 1 ELSE IF t = 1 THEN 2 ELSE IF t = 2 THEN 4 ELSE IF t = 3 THEN 8 ELSE 16]

LEMMA TwoIs ==
    /\ Two \in [0 .. 4 -> Int] /\ Two[0] = 1 /\ \A t \in 0 .. 3 : Two[t + 1] = 2 * Two[t]
    /\ \A b \in 1 .. 4 : 2 ^ b = Two[b]
<1>1. Two[0] = 1 /\ Two[1] = 2 /\ Two[2] = 4 /\ Two[3] = 8 /\ Two[4] = 16
  BY DEF Two
<1>2. 2 ^ 1 = 2 /\ 2 ^ 2 = 4 /\ 2 ^ 3 = 8 /\ 2 ^ 4 = 16
  OBVIOUS
<1>3. \A t \in 0 .. 3 : Two[t + 1] = 2 * Two[t]
  <2> TAKE t \in 0 .. 3
  <2>1. t = 0 \/ t = 1 \/ t = 2 \/ t = 3
    OBVIOUS
  <2> QED BY <1>1, <2>1
<1>4. \A b \in 1 .. 4 : 2 ^ b = Two[b]
  <2> TAKE b \in 1 .. 4
  <2>1. b = 1 \/ b = 2 \/ b = 3 \/ b = 4
    OBVIOUS
  <2> QED BY <1>1, <1>2, <2>1
<1>5. Two \in [0 .. 4 -> Int]
  BY DEF Two
<1> QED BY <1>1, <1>3, <1>4, <1>5

Bits256 == DigitsOf(256)

LEMMA Bits256Are == Bits256 = [Bit -> Int] /\ 0 .. 256 - 1 = Bit
<1>1. 0 .. 256 - 1 = Bit
  BY DEF Bit
<1> QED BY <1>1 DEF Bits256, DigitsOf

\* The bit at j + b goes into the digit at j.
LEMMA BitTaken ==
    ASSUME NEW r \in [Bit -> Int], NEW j \in Bit, NEW b \in 1 .. 4, j + b <= 255, r[j + b] = 1,
           NEW q, q = [r EXCEPT ![j] = r[j] + Two[b], ![j + b] = 0]
    PROVE  Carried(r, q, 2, 256)
<1>1. PICK c : c = [g \in Nat |-> IF j < g /\ g <= j + b THEN -Two[j + b - g] ELSE 0]
  OBVIOUS
<1>2. j \in 0 .. 255 /\ j + b \in Bit /\ j # j + b
  BY DEF Bit
<1>3. ASSUME NEW g \in Nat, j < g, g <= j + b PROVE j + b - g \in 0 .. 3 /\ Two[j + b - g] \in Int
  <2>1. j + b - g \in 0 .. 3 /\ j + b - g \in 0 .. 4
    BY <1>2, <1>3
  <2> QED BY <2>1, TwoIs
<1>4. c \in [Nat -> Int]
  <2>1. ASSUME NEW g \in Nat PROVE (IF j < g /\ g <= j + b THEN -Two[j + b - g] ELSE 0) \in Int
    <3>1. CASE j < g /\ g <= j + b
      BY <1>3, <3>1
    <3>2. CASE ~ (j < g /\ g <= j + b)
      BY <3>2
    <3> QED BY <3>1, <3>2
  <2> QED BY <1>1, <2>1
<1>5. c[0] = 0 /\ c[256] = 0
  BY <1>1, <1>2
<1>6. Two[b] \in Int /\ r[j] \in Int /\ r[j] + Two[b] \in Int
  BY <1>2, TwoIs DEF Bit
<1>7. /\ q[j] = r[j] + Two[b] /\ q[j + b] = 0
      /\ \A g \in Bit : g # j /\ g # j + b => q[g] = r[g]
  BY <1>2, <1>6
<1>8. ASSUME NEW g \in Bit PROVE r[g] + c[g] = q[g] + 2 * c[g + 1]
  <2>1. r[g] \in Int /\ g \in Nat /\ g + 1 \in Nat
    BY DEF Bit
  <2>2. CASE g = j
    <3>1. c[g] = 0
      BY <1>1, <1>2, <2>1, <2>2
    <3>2. j < g + 1 /\ g + 1 <= j + b /\ j + b - (g + 1) = b - 1
      BY <1>2, <2>2
    <3>3. c[g + 1] = -Two[b - 1]
      BY <1>1, <2>1, <3>2
    <3>4. b - 1 \in 0 .. 3 /\ (b - 1) + 1 = b /\ b - 1 \in 0 .. 4
      OBVIOUS
    <3>5. Two[b] = 2 * Two[b - 1] /\ Two[b - 1] \in Int
      BY <3>4, TwoIs
    <3> QED BY <1>6, <1>7, <2>2, <3>1, <3>3, <3>5
  <2>3. CASE j < g /\ g < j + b
    <3>1. j < g + 1 /\ g + 1 <= j + b /\ g <= j + b
      BY <1>2, <2>1, <2>3
    <3>2. c[g] = -Two[j + b - g] /\ c[g + 1] = -Two[j + b - (g + 1)]
      BY <1>1, <2>1, <2>3, <3>1
    <3>3. PICK k \in 0 .. 3 : k = j + b - (g + 1) /\ k + 1 = j + b - g
      <4>1. j + b - (g + 1) \in 0 .. 3 /\ (j + b - (g + 1)) + 1 = j + b - g
        BY <1>2, <2>1, <2>3
      <4> QED BY <4>1
    <3>4. Two[k + 1] = 2 * Two[k] /\ Two[k] \in Int
      BY TwoIs
    <3>5. q[g] = r[g]
      BY <1>2, <1>7, <2>1, <2>3
    <3> QED BY <2>1, <3>2, <3>3, <3>4, <3>5
  <2>4. CASE g = j + b
    <3>1. j < g /\ g <= j + b /\ j + b - g = 0 /\ ~ (g + 1 <= j + b)
      BY <1>2, <2>4
    <3>2. c[g] = -Two[0] /\ c[g + 1] = 0
      BY <1>1, <2>1, <3>1
    <3>3. c[g] = -1
      BY <3>2, TwoIs
    <3> QED BY <1>7, <2>4, <3>2, <3>3
  <2>5. CASE g < j \/ g > j + b
    <3>1. ~ (j < g /\ g <= j + b) /\ ~ (j < g + 1 /\ g + 1 <= j + b) /\ g # j /\ g # j + b
      BY <1>2, <2>1, <2>5
    <3>2. c[g] = 0 /\ c[g + 1] = 0
      BY <1>1, <2>1, <3>1
    <3> QED BY <1>7, <2>1, <3>1, <3>2
  <2>6. g = j \/ (j < g /\ g < j + b) \/ g = j + b \/ g < j \/ g > j + b
    BY <1>2, <2>1
  <2> QED BY <2>2, <2>3, <2>4, <2>5, <2>6
<1> QED BY <1>4, <1>5, <1>8, Bits256Are DEF Carried, IsCarry

\* The bit at j + b is subtracted from the digit at j, and carried to the next bit that is 0.
BitsAbove(r, j) == \A g \in Bit : g > j => r[g] \in {0, 1}
CarriedOver(r, j, b, q) ==
    /\ Carried(r, q, 2, 256)
    /\ q[j] = r[j] - Two[b] /\ \A g \in Bit : g # j /\ g < j + b => q[g] = r[g]
    /\ q[255] = 0 \/ \A g \in Bit : j + b <= g /\ g < 255 => q[g] = 0

LEMMA BitCarried ==
    ASSUME NEW r \in [Bit -> Int], NEW j \in Bit, NEW b \in 1 .. 4, j + b < 255, r[j + b] = 1, r[255] = 0,
           BitsAbove(r, j), NEW q, q = CarryInto([r EXCEPT ![j] = r[j] - Two[b]], j + b)
    PROVE  CarriedOver(r, j, b, q)
<1> USE DEF BitsAbove
<1>1. j \in 0 .. 255 /\ j + b \in Bit /\ j # j + b /\ 255 \in Bit /\ Bit \subseteq Int
  BY DEF Bit
<1>2. PICK p : p = [r EXCEPT ![j] = r[j] - Two[b]]
  OBVIOUS
<1>3. Two[b] \in Int /\ r[j] \in Int /\ r[j] - Two[b] \in Int
  BY TwoIs DEF Bit
<1>4. p \in [Bit -> Int] /\ p[j] = r[j] - Two[b] /\ \A g \in Bit : g # j => p[g] = r[g]
  BY <1>2, <1>3
<1>5. PICK from \in Bit : from = j + b
  BY <1>1
<1>6. PICK zeros : zeros = {k \in from .. 255 : p[k] = 0}
  OBVIOUS
<1>7. 255 \in zeros /\ zeros \in SUBSET Nat
  <2>1. p[255] = 0
    BY <1>1, <1>4, <1>5
  <2> QED BY <1>1, <1>5, <1>6, <2>1
<1>8. PICK k0 : k0 = (CHOOSE k \in zeros : \A l \in zeros : k <= l)
  OBVIOUS
<1>9. k0 \in zeros /\ \A l \in zeros : k0 <= l
  <2>1. \E k \in zeros : \A l \in zeros : k <= l
    BY <1>7, LeastIs
  <2> QED BY <1>8, <2>1
<1>10. k0 \in from .. 255 /\ p[k0] = 0 /\ \A k \in from .. 255 : k < k0 => p[k] # 0
  <2>1. k0 \in from .. 255 /\ p[k0] = 0
    BY <1>6, <1>9
  <2>2. ASSUME NEW k \in from .. 255, k < k0 PROVE p[k] # 0
    <3>1. k \notin zeros
      BY <1>9, <2>1, <2>2
    <3> QED BY <1>6, <3>1
  <2> QED BY <2>1, <2>2
<1>11. q = [k \in Bit |-> IF k < from THEN p[k] ELSE IF k < k0 THEN 0 ELSE IF k = k0 THEN 1 ELSE p[k]]
  <2>1. zeros # {}
    BY <1>7
  <2>2. q = CarryInto(p, from)
    BY <1>2, <1>5
  <2> QED BY <1>6, <1>8, <2>1, <2>2 DEF CarryInto
<1>12. from < k0
  <2>1. p[from] = 1
    BY <1>1, <1>4, <1>5
  <2> QED BY <1>5, <1>10, <2>1 DEF Bit
<1>13. ASSUME NEW g \in Bit, from <= g, g < k0 PROVE p[g] = 1 /\ r[g] = 1
  <2>1. g \in from .. 255 /\ g > j /\ g # j
    BY <1>1, <1>5, <1>13 DEF Bit
  <2>2. p[g] # 0 /\ p[g] = r[g] /\ r[g] \in {0, 1}
    BY <1>4, <1>10, <1>13, <2>1
  <2> QED BY <2>2
<1>14. PICK c : c = [g \in Nat |-> IF j < g /\ g <= from THEN Two[from - g]
                                   ELSE IF from < g /\ g <= k0 THEN 1 ELSE 0]
  OBVIOUS
<1>15. ASSUME NEW g \in Nat, j < g, g <= from PROVE from - g \in 0 .. 3 /\ Two[from - g] \in Int
  <2>1. from - g \in 0 .. 3 /\ from - g \in 0 .. 4
    BY <1>1, <1>5, <1>15
  <2> QED BY <2>1, TwoIs
<1>16. c \in [Nat -> Int]
  <2>1. ASSUME NEW g \in Nat
        PROVE (IF j < g /\ g <= from THEN Two[from - g] ELSE IF from < g /\ g <= k0 THEN 1 ELSE 0) \in Int
    <3>1. CASE j < g /\ g <= from
      BY <1>15, <3>1
    <3>2. CASE ~ (j < g /\ g <= from)
      BY <3>2
    <3> QED BY <3>1, <3>2
  <2> QED BY <1>14, <2>1
<1>17. k0 \in 0 .. 255 /\ from \in 0 .. 255
  BY <1>1, <1>10 DEF Bit
<1>18. c[0] = 0 /\ c[256] = 0
  BY <1>1, <1>5, <1>14, <1>17
<1>19. ASSUME NEW g \in Bit PROVE r[g] + c[g] = q[g] + 2 * c[g + 1]
  <2>1. r[g] \in Int /\ p[g] \in Int /\ g \in Nat /\ g + 1 \in Nat
    BY <1>4 DEF Bit
  <2>2. CASE g < from
    <3>1. q[g] = p[g]
      BY <1>11, <2>2
    <3>2. CASE g = j
      <4>1. j < g + 1 /\ g + 1 <= from /\ from - (g + 1) = b - 1 /\ ~ (j < g) /\ ~ (from < g)
        BY <1>1, <1>5, <3>2
      <4>2. c[g] = 0 /\ c[g + 1] = Two[b - 1]
        BY <1>14, <2>1, <4>1
      <4>3. b - 1 \in 0 .. 3 /\ (b - 1) + 1 = b /\ b - 1 \in 0 .. 4
        OBVIOUS
      <4>4. Two[b] = 2 * Two[b - 1] /\ Two[b - 1] \in Int
        BY <4>3, TwoIs
      <4> QED BY <1>3, <1>4, <3>1, <3>2, <4>2, <4>4
    <3>3. CASE j < g
      <4>1. j < g + 1 /\ g + 1 <= from /\ g <= from
        BY <1>1, <1>17, <2>1, <2>2, <3>3
      <4>2. c[g] = Two[from - g] /\ c[g + 1] = Two[from - (g + 1)]
        BY <1>14, <2>1, <3>3, <4>1
      <4>3. PICK k \in 0 .. 3 : k = from - (g + 1) /\ k + 1 = from - g
        <5>1. from - (g + 1) \in 0 .. 3 /\ (from - (g + 1)) + 1 = from - g
          BY <1>1, <1>5, <1>17, <2>1, <2>2, <3>3
        <5> QED BY <5>1
      <4>4. Two[k + 1] = 2 * Two[k] /\ Two[k] \in Int
        BY TwoIs
      <4>5. q[g] = r[g]
        BY <1>1, <1>4, <2>1, <3>1, <3>3
      <4> QED BY <2>1, <4>2, <4>3, <4>4, <4>5
    <3>4. CASE g < j
      <4>1. ~ (j < g) /\ ~ (j < g + 1) /\ ~ (from < g) /\ ~ (from < g + 1) /\ g # j
        BY <1>1, <1>5, <2>1, <3>4
      <4>2. c[g] = 0 /\ c[g + 1] = 0
        BY <1>14, <2>1, <4>1
      <4> QED BY <1>4, <2>1, <3>1, <4>1, <4>2
    <3>5. g = j \/ j < g \/ g < j
      BY <1>1, <2>1
    <3> QED BY <3>2, <3>3, <3>4, <3>5
  <2>3. CASE from <= g /\ g < k0
    <3> ~ (g < from)
      BY <1>17, <2>1, <2>3
    <3>1. q[g] = 0 /\ r[g] = 1
      BY <1>11, <1>13, <2>3
    <3>2. j < g /\ from < g + 1 /\ g + 1 <= k0 /\ ~ (g + 1 <= from)
      BY <1>1, <1>5, <1>17, <2>1, <2>3
    <3>3. c[g + 1] = 1
      BY <1>14, <2>1, <3>2
    <3>4. c[g] = 1
      <4>1. CASE g = from
        <5>1. g <= from /\ from - g = 0
          BY <1>17, <4>1
        <5>2. c[g] = Two[0]
          BY <1>14, <2>1, <3>2, <5>1
        <5> QED BY <5>2, TwoIs
      <4>2. CASE g # from
        <5>1. from < g /\ g <= k0 /\ ~ (g <= from)
          BY <1>17, <2>1, <2>3, <4>2
        <5> QED BY <1>14, <2>1, <5>1
      <4> QED BY <4>1, <4>2
    <3> QED BY <3>1, <3>3, <3>4
  <2>4. CASE g = k0
    <3>1. ~ (g < from) /\ ~ (g < k0) /\ ~ (g <= from) /\ from < g /\ g <= k0 /\ ~ (g + 1 <= from) /\ ~ (g + 1 <= k0)
      BY <1>12, <1>17, <2>1, <2>4
    <3>2. q[g] = 1 /\ c[g] = 1 /\ c[g + 1] = 0
      BY <1>11, <1>14, <2>1, <2>4, <3>1
    <3>3. r[g] = 0
      BY <1>1, <1>4, <1>5, <1>10, <1>17, <2>4
    <3> QED BY <3>2, <3>3
  <2>5. CASE g > k0
    <3>1. /\ ~ (g < from) /\ ~ (g < k0) /\ g # k0 /\ ~ (g <= from) /\ ~ (g <= k0) /\ ~ (g + 1 <= from)
          /\ ~ (g + 1 <= k0) /\ g # j
      BY <1>1, <1>5, <1>12, <1>17, <2>1, <2>5
    <3>2. q[g] = p[g] /\ c[g] = 0 /\ c[g + 1] = 0
      BY <1>11, <1>14, <2>1, <3>1
    <3> QED BY <1>4, <2>1, <3>1, <3>2
  <2>6. g < from \/ (from <= g /\ g < k0) \/ g = k0 \/ g > k0
    BY <1>17, <2>1
  <2> QED BY <2>2, <2>3, <2>4, <2>5, <2>6
<1>20. Carried(r, q, 2, 256)
  BY <1>16, <1>18, <1>19, Bits256Are DEF Carried, IsCarry
<1>21. q[j] = r[j] - Two[b]
  <2>1. j < from
    BY <1>1, <1>5
  <2> QED BY <1>4, <1>11, <2>1
<1>22. \A g \in Bit : g # j /\ g < j + b => q[g] = r[g]
  BY <1>4, <1>5, <1>11
<1>23. q[255] = 0 \/ \A g \in Bit : j + b <= g /\ g < 255 => q[g] = 0
  <2>1. CASE k0 = 255
    <3>1. ASSUME NEW g \in Bit, j + b <= g, g < 255 PROVE q[g] = 0
      <4>1. ~ (g < from) /\ g < k0
        BY <1>1, <1>5, <1>17, <2>1, <3>1
      <4> QED BY <1>11, <4>1
    <3> QED BY <3>1
  <2>2. CASE k0 # 255
    <3>0. ~ (255 < from) /\ ~ (255 < k0) /\ 255 # k0
      BY <1>17, <2>2
    <3>1. PICK g \in Bit : g = 255
      BY DEF Bit
    <3>2. ~ (g < from) /\ ~ (g < k0) /\ g # k0
      BY <3>0, <3>1
    <3>4. q[g] = p[g]
      BY <1>11, <3>2
    <3>3. p[255] = 0
      BY <1>6, <1>7
    <3> QED BY <3>1, <3>3, <3>4
  <2> QED BY <2>1, <2>2
<1> QED BY <1>20, <1>21, <1>22, <1>23 DEF CarriedOver

\* The top digit is 0, or is the carry that came over zeros only.
Room(r, j) == r[255] = 0 \/ \A g \in Bit : j <= g /\ g < 255 => r[g] = 0

\* A window that has only added bits: those it has seen are 0.
OpenWindow(s, j, b) ==
    /\ s.more = TRUE /\ s.r \in [Bit -> Int]
    /\ s.r[j] \in 1 .. (Two[b - 1] + Two[b - 1] - 1)
    /\ \A g \in Bit : j < g /\ g < j + b => s.r[g] = 0
    /\ \A g \in Bit : j < g => s.r[g] \in {0, 1}
    /\ s.r[255] = 0

LEMMA WindowAdds ==
    ASSUME NEW j \in Bit, j < 255, NEW s, NEW b \in 1 .. 3, OpenWindow(s, j, b)
    PROVE  OpenWindow(Window(s, j, b), j, b + 1) /\ Carried(s.r, Window(s, j, b).r, 2, 256)
<1>1. PICK r \in [Bit -> Int] : r = s.r
  BY DEF OpenWindow
<1>2. PICK w \in {2, 4, 8} : w = Two[b] /\ w = 2 * Two[b - 1]
  <2>1. b = 1 \/ b = 2 \/ b = 3
    OBVIOUS
  <2>2. Two[1] = 2 /\ Two[2] = 4 /\ Two[3] = 8 /\ Two[0] = 1
    BY DEF Two
  <2> QED BY <2>1, <2>2
<1>3. r[j] \in 1 .. w - 1
  <2>1. Two[b - 1] \in Int
    <3>1. b - 1 \in 0 .. 4
      OBVIOUS
    <3> QED BY <3>1, TwoIs
  <2>2. Two[b - 1] + Two[b - 1] - 1 = w - 1
    BY <1>2, <2>1
  <2> QED BY <1>1, <2>2 DEF OpenWindow
<1>4. (b + 1) - 1 = b /\ b \in 1 .. 4 /\ w + w - 1 \in Int /\ 255 \in Bit /\ j \in 0 .. 254 /\ Bit \subseteq Int
  BY DEF Bit
<1>5. 2 ^ b = w
  BY <1>2, <1>4, TwoIs
<1>6. CASE j + b > 255 \/ r[j + b] = 0
  <2>1. Window(s, j, b) = s
    BY <1>1, <1>6 DEF Window
  <2>2. \A g \in Bit : j < g /\ g < j + (b + 1) => r[g] = 0
    <3> SUFFICES ASSUME NEW g \in Bit, j < g, g < j + (b + 1) PROVE r[g] = 0
      OBVIOUS
    <3>1. CASE g = j + b
      BY <1>6, <3>1 DEF Bit
    <3>2. CASE g # j + b
      <4>1. g < j + b
        BY <1>4, <3>2 DEF Bit
      <4> QED BY <1>1, <4>1 DEF OpenWindow
    <3> QED BY <3>1, <3>2
  <2>3. r[j] \in 1 .. (w + w - 1)
    BY <1>3
  <2>4. OpenWindow(s, j, b + 1)
    BY <1>1, <1>2, <1>4, <2>2, <2>3 DEF OpenWindow
  <2>5. Carried(r, r, 2, 256)
    BY Bits256Are, CarriedItself DEF Bits256
  <2> QED BY <1>1, <2>1, <2>4, <2>5
<1>7. CASE j + b <= 255 /\ r[j + b] # 0
  <2>1. j + b \in Bit /\ j < j + b /\ j # j + b /\ ~ (j + b > 255)
    BY <1>4, <1>7 DEF Bit
  <2>2. r[j + b] = 1
    BY <1>1, <1>7, <2>1 DEF OpenWindow
  <2>3. PICK q : q = [r EXCEPT ![j] = r[j] + w, ![j + b] = 0]
    OBVIOUS
  <2>4. Window(s, j, b) = Taken(r, j, b)
    BY <1>1, <1>7, <2>1 DEF Window, OpenWindow
  <2>5. 2 ^ b * r[j + b] = w
    BY <1>5, <2>2
  <2>6. r[j] + w <= 15
    BY <1>3
  <2>7. Taken(r, j, b) = [more |-> TRUE, r |-> q]
    BY <2>3, <2>5, <2>6 DEF Taken
  <2>8. r[j] + w \in Int
    BY <1>3
  <2>9. q \in [Bit -> Int] /\ q[j] = r[j] + w /\ q[j + b] = 0 /\ \A g \in Bit : g # j /\ g # j + b => q[g] = r[g]
    BY <2>1, <2>3, <2>8
  <2>10. Carried(r, q, 2, 256)
    BY <1>2, <1>4, <1>7, <2>2, <2>3, BitTaken
  <2>11. q[j] \in 1 .. (w + w - 1)
    BY <1>3, <2>9
  <2>12. ASSUME NEW g \in Bit, j < g, g < j + (b + 1) PROVE q[g] = 0
    <3>1. CASE g = j + b
      BY <2>9, <3>1
    <3>2. CASE g # j + b
      <4>1. g < j + b /\ g # j
        BY <1>4, <2>12, <3>2
      <4> QED BY <1>1, <2>9, <2>12, <3>2, <4>1 DEF OpenWindow
    <3> QED BY <3>1, <3>2
  <2>13. ASSUME NEW g \in Bit, j < g PROVE q[g] \in {0, 1}
    <3>1. CASE g = j + b
      BY <2>9, <3>1
    <3>2. CASE g # j + b
      <4>1. g # j
        BY <1>4, <2>13
      <4> QED BY <1>1, <2>9, <2>13, <3>2, <4>1 DEF OpenWindow
    <3> QED BY <3>1, <3>2
  <2>14. q[255] = 0
    <3>1. r[255] = 0
      BY <1>1 DEF OpenWindow
    <3>2. PICK g \in Bit : g = 255
      BY DEF Bit
    <3>3. g # j
      BY <1>4, <3>2
    <3> QED BY <2>9, <3>1, <3>2, <3>3
  <2>15. PICK t : t = Window(s, j, b) /\ t.more = TRUE /\ t.r = q
    BY <2>4, <2>7
  <2>16. OpenWindow(t, j, b + 1)
    <3>1. PICK n \in Int : n = b + 1 /\ n - 1 = b
      OBVIOUS
    <3>2. q[j] \in 1 .. (Two[n - 1] + Two[n - 1] - 1)
      BY <1>2, <2>11, <3>1
    <3>3. OpenWindow(t, j, n)
      BY <2>9, <2>12, <2>13, <2>14, <2>15, <3>1, <3>2 DEF OpenWindow
    <3> QED BY <3>1, <3>3
  <2> QED BY <1>1, <2>10, <2>15, <2>16
<1> QED BY <1>6, <1>7 DEF Bit

LEMMA WindowSubtracts ==
    ASSUME NEW j \in Bit, j < 255, NEW s, OpenWindow(s, j, 4)
    PROVE  /\ Carried(s.r, Window(s, j, 4).r, 2, 256)
           /\ Window(s, j, 4).r[j] \in -15 .. 15 /\ Room(Window(s, j, 4).r, j + 1)
<1>1. PICK r \in [Bit -> Int] : r = s.r
  BY DEF OpenWindow
<1>2. Two[3] = 8 /\ Two[4] = 16 /\ 2 ^ 4 = 16 /\ 4 - 1 = 3
  BY DEF Two
<1>3. r[j] \in 1 .. 15
  BY <1>1, <1>2 DEF OpenWindow
<1>4. 255 \in Bit /\ j \in 0 .. 254 /\ Bit \subseteq Int
  BY DEF Bit
<1>5. r[255] = 0
  BY <1>1 DEF OpenWindow
<1>6. CASE j + 4 > 255 \/ r[j + 4] = 0
  <2>1. Window(s, j, 4) = s
    BY <1>1, <1>6 DEF Window
  <2>2. Carried(r, r, 2, 256)
    BY Bits256Are, CarriedItself DEF Bits256
  <2>3. r[j] \in -15 .. 15
    BY <1>3
  <2> QED BY <1>1, <1>5, <2>1, <2>2, <2>3 DEF Room
<1>7. CASE j + 4 <= 255 /\ r[j + 4] # 0
  <2>1. j + 4 \in Bit /\ j < j + 4 /\ j # j + 4 /\ ~ (j + 4 > 255)
    BY <1>4, <1>7 DEF Bit
  <2>2. r[j + 4] = 1 /\ j + 4 < 255
    BY <1>1, <1>4, <1>5, <1>7, <2>1 DEF OpenWindow
  <2>3. PICK q : q = CarryInto([r EXCEPT ![j] = r[j] - 16], j + 4)
    OBVIOUS
  <2>4. Window(s, j, 4) = Taken(r, j, 4)
    BY <1>1, <1>7, <2>1 DEF Window, OpenWindow
  <2>5. 2 ^ 4 * r[j + 4] = 16
    BY <1>2, <2>2
  <2>6. ~ (r[j] + 16 <= 15) /\ r[j] - 16 >= -15 /\ r[j] - 16 \in -15 .. 15
    BY <1>3
  <2>7. Taken(r, j, 4) = [more |-> TRUE, r |-> q]
    BY <2>3, <2>5, <2>6 DEF Taken
  <2>8. \A g \in Bit : g > j => r[g] \in {0, 1}
    BY <1>1 DEF OpenWindow
  <2>9. 4 \in 1 .. 4
    OBVIOUS
  <2>10. PICK b \in 1 .. 4 : b = 4
    BY <2>9
  <2>11. CarriedOver(r, j, b, q)
    <3>2. BitsAbove(r, j)
      BY <2>8 DEF BitsAbove
    <3>1. j + b < 255 /\ r[j + b] = 1 /\ q = CarryInto([r EXCEPT ![j] = r[j] - Two[b]], j + b)
      BY <1>2, <2>2, <2>3, <2>10
    <3> QED BY <1>5, <3>1, <3>2, BitCarried
  <2>12. q[j] \in -15 .. 15
    BY <1>2, <2>6, <2>10, <2>11 DEF CarriedOver
  <2>13. Room(q, j + 1)
    <3>1. CASE q[255] = 0
      BY <3>1 DEF Room
    <3>2. CASE \A g \in Bit : j + 4 <= g /\ g < 255 => q[g] = 0
      <4>1. ASSUME NEW g \in Bit, j + 1 <= g, g < 255 PROVE q[g] = 0
        <5>1. CASE j + 4 <= g
          BY <3>2, <4>1, <5>1
        <5>2. CASE ~ (j + 4 <= g)
          <6>1. g # j /\ g < j + 4 /\ j < g
            BY <1>4, <4>1, <5>2
          <6>2. r[g] = 0
            BY <1>1, <6>1 DEF OpenWindow
          <6> QED BY <2>10, <2>11, <6>1, <6>2 DEF CarriedOver
        <5> QED BY <5>1, <5>2
      <4> QED BY <4>1 DEF Room
    <3> QED BY <2>10, <2>11, <3>1, <3>2 DEF CarriedOver
  <2>14. PICK t : t = Window(s, j, 4) /\ t.r = q
    BY <2>4, <2>7
  <2> QED BY <1>1, <2>11, <2>12, <2>13, <2>14 DEF CarriedOver
<1> QED BY <1>6, <1>7 DEF Bit

LEMMA WindowEnds ==
    ASSUME NEW j \in Bit, NEW s, NEW b \in 5 .. 6, s.r[j] \in -15 .. 15,
           \A g \in Bit : g > j => s.r[g] \in {0, 1}
    PROVE  Window(s, j, b).r = s.r
<1>1. CASE ~ s.more \/ j + b > 255 \/ s.r[j + b] = 0
  BY <1>1 DEF Window
<1>2. CASE ~ (~ s.more \/ j + b > 255 \/ s.r[j + b] = 0)
  <2>1. j + b \in Bit /\ j + b > j
    BY <1>2 DEF Bit
  <2>2. s.r[j + b] = 1
    BY <1>2, <2>1
  <2>3. PICK w \in {32, 64} : w = 2 ^ b
    <3>1. 2 ^ 5 = 32 /\ 2 ^ 6 = 64 /\ (b = 5 \/ b = 6)
      OBVIOUS
    <3> QED BY <3>1
  <2>4. PICK x \in -15 .. 15 : x = s.r[j]
    OBVIOUS
  <2>5. ~ (x + w <= 15) /\ ~ (x - w >= -15)
    OBVIOUS
  <2>6. 2 ^ b * s.r[j + b] = w
    BY <2>2, <2>3
  <2>7. Taken(s.r, j, b) = [more |-> FALSE, r |-> s.r]
    BY <2>4, <2>5, <2>6 DEF Taken
  <2>8. Window(s, j, b) = Taken(s.r, j, b)
    BY <1>2 DEF Window
  <2> QED BY <2>7, <2>8
<1> QED BY <1>1, <1>2

LEMMA WindowIdles ==
    ASSUME NEW s, NEW j, NEW b, ~ s.more \/ j + b > 255 PROVE Window(s, j, b) = s
BY DEF Window

LEMMA SlideCarries ==
    ASSUME NEW j \in Bit, NEW r, Slidden(r, j), Room(r, j)
    PROVE  /\ r \in Bits256 /\ Slid(r, j) \in Bits256
           /\ Carried(r, Slid(r, j), 2, 256) /\ Room(Slid(r, j), j + 1)
<1> DEFINE w0 == [more |-> r[j] # 0, r |-> r]
           w1 == Window(w0, j, 1)
           w2 == Window(w1, j, 2)
           w3 == Window(w2, j, 3)
           w4 == Window(w3, j, 4)
           w5 == Window(w4, j, 5)
           w6 == Window(w5, j, 6)
<1>1. r \in Bits256 /\ Slid(r, j) \in Bits256
  <2>1. Slidden(Slid(r, j), j + 1)
    BY SlidGoesOn
  <2> QED BY <2>1, Bits256Are DEF Slidden
<1>2. w0.r = r /\ w0.more = (r[j] # 0) /\ Slid(r, j) = w6.r
  BY DEF Slid
<1>3. j \in 0 .. 255 /\ 255 \in Bit /\ Bit \subseteq Int
  BY DEF Bit
<1> HIDE DEF w0
<1>4. CASE r[j] = 0 \/ j = 255
  <2>1. \A b \in 1 .. 6 : ~ w0.more \/ j + b > 255
    <3>1. CASE r[j] = 0
      <4>1. ~ w0.more
        BY <1>2, <3>1
      <4> QED BY <4>1
    <3>2. CASE j = 255
      BY <3>2
    <3> QED BY <1>4, <3>1, <3>2
  <2>2. w1 = w0
    BY <2>1, WindowIdles
  <2>3. w2 = w0
    BY <2>1, <2>2, WindowIdles
  <2>4. w3 = w0
    BY <2>1, <2>3, WindowIdles
  <2>5. w4 = w0
    BY <2>1, <2>4, WindowIdles
  <2>6. w5 = w0
    BY <2>1, <2>5, WindowIdles
  <2>7. w6 = w0
    BY <2>1, <2>6, WindowIdles
  <2>8. Slid(r, j) = r
    BY <1>2, <2>7
  <2>9. Carried(r, r, 2, 256)
    BY <1>1, CarriedItself DEF Bits256
  <2>10. Room(r, j + 1)
    <3>1. \A g \in Bit : j + 1 <= g /\ g < 255 => j <= g
      BY <1>3
    <3> QED BY <3>1 DEF Room
  <2> QED BY <1>1, <2>8, <2>9, <2>10
<1>5. CASE r[j] # 0 /\ j # 255
  <2>1. j < 255
    BY <1>3, <1>5
  <2>2. r[j] = 1 /\ \A g \in Bit : j < g => r[g] \in {0, 1}
    BY <1>3, <1>5 DEF Slidden
  <2>3. r[255] = 0
    <3>1. j <= j
      BY <1>3
    <3> QED BY <1>5, <2>1, <3>1 DEF Room
  <2>4. OpenWindow(w0, j, 1)
    <3>1. Two[1 - 1] + Two[1 - 1] - 1 = 1
      BY DEF Two
    <3>2. \A g \in Bit : ~ (j < g /\ g < j + 1)
      BY <1>3
    <3>3. r \in [Bit -> Int] /\ r[j] \in 1 .. 1
      BY <1>1, <2>2, Bits256Are
    <3>4. w0.more = TRUE
      BY <1>2, <1>5
    <3> QED BY <1>2, <2>2, <2>3, <3>1, <3>2, <3>3, <3>4 DEF OpenWindow
  <2>5. Taking(w0, j)
    <3>1. OddWindow(1)
      BY DEF OddWindow
    <3>2. \A k \in Bit : k <= j => r[k] = 0 \/ OddWindow(r[k])
      BY <1>3, <2>2, <3>1 DEF Slidden
    <3>3. \A k \in Bit : k > j => r[k] \in {0, 1}
      BY <1>3, <2>2
    <3>4. r \in [Bit -> Int] /\ OddWindow(r[j])
      BY <1>1, <2>2, <3>1, Bits256Are
    <3>5. w0.more = TRUE
      BY <1>2, <1>5
    <3> QED BY <1>2, <3>2, <3>3, <3>4, <3>5 DEF Taking
  <2>6. Taking(w1, j) /\ OpenWindow(w1, j, 2) /\ Carried(r, w1.r, 2, 256)
    <3>1. Taking(w1, j)
      BY <2>5, WindowTakes
    <3>2. 1 \in 1 .. 3 /\ 1 + 1 = 2
      OBVIOUS
    <3> QED BY <1>2, <2>1, <2>4, <3>1, <3>2, WindowAdds
  <2> HIDE DEF w1
  <2>7. Taking(w2, j) /\ OpenWindow(w2, j, 3) /\ Carried(w1.r, w2.r, 2, 256)
    <3>1. Taking(w2, j)
      BY <2>6, WindowTakes
    <3>2. 2 \in 1 .. 3 /\ 2 + 1 = 3
      OBVIOUS
    <3> QED BY <2>1, <2>6, <3>1, <3>2, WindowAdds
  <2> HIDE DEF w2
  <2>8. Taking(w3, j) /\ OpenWindow(w3, j, 4) /\ Carried(w2.r, w3.r, 2, 256)
    <3>1. Taking(w3, j)
      BY <2>7, WindowTakes
    <3>2. 3 \in 1 .. 3 /\ 3 + 1 = 4
      OBVIOUS
    <3> QED BY <2>1, <2>7, <3>1, <3>2, WindowAdds
  <2> HIDE DEF w3
  <2>9. Taking(w4, j) /\ Carried(w3.r, w4.r, 2, 256) /\ w4.r[j] \in -15 .. 15 /\ Room(w4.r, j + 1)
    <3>1. Taking(w4, j)
      BY <2>8, WindowTakes
    <3> QED BY <2>1, <2>8, <3>1, WindowSubtracts
  <2> HIDE DEF w4
  <2>10. w5.r = w4.r
    <3>1. \A g \in Bit : g > j => w4.r[g] \in {0, 1}
      BY <2>9 DEF Taking
    <3>2. 5 \in 5 .. 6
      OBVIOUS
    <3> QED BY <2>9, <3>1, <3>2, WindowEnds
  <2> HIDE DEF w5
  <2>11. w6.r = w4.r
    <3>1. \A g \in Bit : g > j => w5.r[g] \in {0, 1}
      BY <2>9, <2>10 DEF Taking
    <3>2. 6 \in 5 .. 6
      OBVIOUS
    <3> QED BY <2>9, <2>10, <3>1, <3>2, WindowEnds
  <2>12. w1.r \in Bits256 /\ w2.r \in Bits256 /\ w3.r \in Bits256 /\ w4.r \in Bits256
    BY <2>6, <2>7, <2>8, <2>9, Bits256Are DEF Taking
  <2>13. Carried(r, w4.r, 2, 256)
    <3>1. Carried(r, w2.r, 2, 256)
      BY <1>1, <2>6, <2>7, <2>12, CarriedOn DEF Bits256
    <3>2. Carried(r, w3.r, 2, 256)
      BY <1>1, <2>8, <2>12, <3>1, CarriedOn DEF Bits256
    <3> QED BY <1>1, <2>9, <2>12, <3>2, CarriedOn DEF Bits256
  <2> QED BY <1>1, <1>2, <2>9, <2>11, <2>13
<1> QED BY <1>4, <1>5

-----------------------------------------------------------------------------
(* What the digits make up. *)

LEMMA CarriedHorner ==
    ASSUME NEW n \in Nat, NEW radix \in Int, NEW x \in DigitsOf(n), NEW y \in DigitsOf(n),
           Carried(x, y, radix, n)
    PROVE  Horner(radix, n, x)[n] = Horner(radix, n, y)[n]
<1>1. PICK c : IsCarry(c, x, y, radix, n)
  BY DEF Carried
<1>2. PICK u : u = Horner(radix, n, x) /\ IsHorner(u, radix, n, x)
  BY HornerIs
<1>3. PICK v : v = Horner(radix, n, y) /\ IsHorner(v, radix, n, y)
  BY HornerIs
<1> DEFINE Good == {k \in Nat : v[k] = u[k] + c[n - k]}
<1>4. 0 \in Good
  <2>1. v[0] = 0 /\ u[0] = 0 /\ c[n - 0] = 0
    BY <1>1, <1>2, <1>3 DEF IsCarry, IsHorner
  <2> QED BY <2>1
<1>5. ASSUME NEW k \in 0 .. n - 1, k \in Good PROVE k + 1 \in Good
  <2>1. PICK j \in 0 .. n - 1 : j = n - 1 - k /\ j + 1 = n - k /\ j = n - (k + 1)
    <3>1. n - 1 - k \in 0 .. n - 1 /\ (n - 1 - k) + 1 = n - k /\ n - 1 - k = n - (k + 1)
      OBVIOUS
    <3> QED BY <3>1
  <2>2. u[k + 1] = radix * u[k] + x[j] /\ v[k + 1] = radix * v[k] + y[j]
    BY <1>2, <1>3, <2>1 DEF IsHorner
  <2>3. x[j] + c[j] = y[j] + radix * c[j + 1]
    BY <1>1 DEF IsCarry
  <2>4. PICK u0 \in Int, v0 \in Int, a \in Int, b \in Int, c0 \in Int, c1 \in Int :
            u0 = u[k] /\ v0 = v[k] /\ a = x[j] /\ b = y[j] /\ c0 = c[j] /\ c1 = c[j + 1]
    <3>1. u[k] \in Int /\ v[k] \in Int
      BY <1>2, <1>3 DEF IsHorner
    <3>2. x[j] \in Int /\ y[j] \in Int
      BY DEF DigitsOf
    <3>3. c[j] \in Int /\ c[j + 1] \in Int
      BY <1>1 DEF IsCarry
    <3> QED BY <3>1, <3>2, <3>3
  <2>5. v0 = u0 + c1
    BY <1>5, <2>1, <2>4
  <2>6. a + c0 = b + radix * c1
    BY <2>3, <2>4
  <2>7. radix * v0 + b = radix * u0 + a + c0
    <3>1. radix * v0 = radix * u0 + radix * c1
      BY <2>5
    <3> QED BY <2>6, <3>1
  <2>8. v[k + 1] = u[k + 1] + c[n - (k + 1)]
    BY <2>1, <2>2, <2>4, <2>7
  <2> QED BY <2>8
<1> HIDE DEF Good
<1>6. n \in Good
  <2>1. Good \in SUBSET Nat
    BY DEF Good
  <2> QED BY <1>4, <1>5, <2>1, UpTo
<1>7. v[n] = u[n] + c[0] /\ u[n] \in Int
  <2>1. n - n = 0
    OBVIOUS
  <2>2. u[n] \in Int
    BY <1>2 DEF IsHorner
  <2> QED BY <1>6, <2>1, <2>2 DEF Good
<1> QED BY <1>1, <1>2, <1>3, <1>7 DEF IsCarry

LEMMA Halves ==
    ASSUME NEW x \in Int PROVE \E y \in Int, z \in Int : y = x \div 2 /\ z = x % 2 /\ x = 2 * y + z
<1>1. PICK y \in Int, z \in Int : y = x \div 2 /\ z = x % 2
  OBVIOUS
<1>2. x = 2 * y + z
  BY <1>1
<1> QED BY <1>1, <1>2

LEMMA EightBits ==
    ASSUME NEW x \in 0 .. 255
    PROVE  \E y0 \in Int, y1 \in Int, y2 \in Int, y3 \in Int, y4 \in Int, y5 \in Int, y6 \in Int, y7 \in Int :
              /\ y0 = x % 2 /\ y1 = (x \div 2) % 2 /\ y2 = (x \div 4) % 2 /\ y3 = (x \div 8) % 2
              /\ y4 = (x \div 16) % 2 /\ y5 = (x \div 32) % 2 /\ y6 = (x \div 64) % 2 /\ y7 = (x \div 128) % 2
              /\ x = 128 * y7 + 64 * y6 + 32 * y5 + 16 * y4 + 8 * y3 + 4 * y2 + 2 * y1 + y0
<1>1. PICK x1 \in Int, y0 \in Int : x1 = x \div 2 /\ y0 = x % 2 /\ x = 2 * x1 + y0
  BY Halves
<1>2. PICK x2 \in Int, y1 \in Int : x2 = x1 \div 2 /\ y1 = x1 % 2 /\ x1 = 2 * x2 + y1
  BY Halves
<1>3. PICK x3 \in Int, y2 \in Int : x3 = x2 \div 2 /\ y2 = x2 % 2 /\ x2 = 2 * x3 + y2
  BY Halves
<1>4. PICK x4 \in Int, y3 \in Int : x4 = x3 \div 2 /\ y3 = x3 % 2 /\ x3 = 2 * x4 + y3
  BY Halves
<1>5. PICK x5 \in Int, y4 \in Int : x5 = x4 \div 2 /\ y4 = x4 % 2 /\ x4 = 2 * x5 + y4
  BY Halves
<1>6. PICK x6 \in Int, y5 \in Int : x6 = x5 \div 2 /\ y5 = x5 % 2 /\ x5 = 2 * x6 + y5
  BY Halves
<1>7. PICK x7 \in Int, y6 \in Int : x7 = x6 \div 2 /\ y6 = x6 % 2 /\ x6 = 2 * x7 + y6
  BY Halves
<1>8. x2 = x \div 4 /\ x3 = x \div 8 /\ x4 = x \div 16
  BY <1>1, <1>2, <1>3, <1>4
<1>9. x5 = x \div 32 /\ x6 = x \div 64 /\ x7 = x \div 128
  BY <1>5, <1>6, <1>7, <1>8
<1>10. x7 = x7 % 2
  <2>1. x7 \in 0 .. 1
    BY <1>9
  <2> QED BY <2>1
<1>11. x = 128 * x7 + 64 * y6 + 32 * y5 + 16 * y4 + 8 * y3 + 4 * y2 + 2 * y1 + y0
  <2>1. x = 2 * x1 + y0 /\ x1 = 2 * x2 + y1 /\ x2 = 2 * x3 + y2 /\ x3 = 2 * x4 + y3
    BY <1>1, <1>2, <1>3, <1>4, Zenon
  <2>2. x4 = 2 * x5 + y4 /\ x5 = 2 * x6 + y5 /\ x6 = 2 * x7 + y6
    BY <1>5, <1>6, <1>7, Zenon
  <2> QED BY <2>1, <2>2
<1>12. y1 = (x \div 2) % 2 /\ y2 = (x \div 4) % 2 /\ y3 = (x \div 8) % 2
  BY <1>1, <1>2, <1>3, <1>4, <1>8
<1>13. y4 = (x \div 16) % 2 /\ y5 = (x \div 32) % 2 /\ y6 = (x \div 64) % 2 /\ x7 = (x \div 128) % 2
  BY <1>5, <1>6, <1>7, <1>8, <1>9, <1>10, Zenon
<1>14. y0 = x % 2
  BY <1>1
<1> WITNESS y0 \in Int, y1 \in Int, y2 \in Int, y3 \in Int, y4 \in Int, y5 \in Int, y6 \in Int, x7 \in Int
<1> QED BY <1>11, <1>12, <1>13, <1>14, Zenon

BitsOf(s) == [j \in Bit |-> BitOf(s, j)]
NibblesOf(s) == [j \in Digit16 |-> Nibble(s, j)]

LEMMA BitsAre ==
    ASSUME NEW s \in Scalars
    PROVE  /\ BitsOf(s) \in Bits256 /\ \A j \in Bit : BitsOf(s)[j] \in {0, 1}
           /\ \A j \in Bit : BitsOf(s)[j] = BitOf(s, j)
<1>1. s \in [1 .. 32 -> 0 .. 255]
  BY DEF Scalars
<1>2. \A j \in Bit : BitOf(s, j) \in {0, 1}
  BY <1>1, BitIsBit
<1> QED BY <1>2, Bits256Are DEF BitsOf

LEMMA ByteIs ==
    ASSUME NEW s \in Scalars, NEW k \in 0 .. 31
    PROVE  LET b(t) == BitsOf(s)[8 * k + t]
           IN s[k + 1] = 128 * b(7) + 64 * b(6) + 32 * b(5) + 16 * b(4) + 8 * b(3) + 4 * b(2) + 2 * b(1) + b(0)
<1>1. PICK x \in 0 .. 255 : x = s[k + 1]
  BY DEF Scalars
<1>2. ASSUME NEW t \in 0 .. 7 PROVE BitsOf(s)[8 * k + t] = (x \div 2 ^ t) % 2
  <2>1. (8 * k + t) \div 8 = k /\ (8 * k + t) % 8 = t /\ 8 * k + t \in Bit
    BY DEF Bit
  <2> QED BY <1>1, <2>1, BitsAre DEF BitOf
<1>3. 2 ^ 0 = 1 /\ 2 ^ 1 = 2 /\ 2 ^ 2 = 4 /\ 2 ^ 3 = 8 /\ 2 ^ 4 = 16 /\ 2 ^ 5 = 32 /\ 2 ^ 6 = 64 /\ 2 ^ 7 = 128
  OBVIOUS
<1>4. x \div 1 = x
  OBVIOUS
<1>5. /\ BitsOf(s)[8 * k + 0] = x % 2 /\ BitsOf(s)[8 * k + 1] = (x \div 2) % 2
      /\ BitsOf(s)[8 * k + 2] = (x \div 4) % 2 /\ BitsOf(s)[8 * k + 3] = (x \div 8) % 2
  BY <1>2, <1>3, <1>4
<1>6. /\ BitsOf(s)[8 * k + 4] = (x \div 16) % 2 /\ BitsOf(s)[8 * k + 5] = (x \div 32) % 2
      /\ BitsOf(s)[8 * k + 6] = (x \div 64) % 2 /\ BitsOf(s)[8 * k + 7] = (x \div 128) % 2
  BY <1>2, <1>3
<1>7. PICK y0 \in Int, y1 \in Int, y2 \in Int, y3 \in Int, y4 \in Int, y5 \in Int, y6 \in Int, y7 \in Int :
          /\ y0 = x % 2 /\ y1 = (x \div 2) % 2 /\ y2 = (x \div 4) % 2 /\ y3 = (x \div 8) % 2
          /\ y4 = (x \div 16) % 2 /\ y5 = (x \div 32) % 2 /\ y6 = (x \div 64) % 2 /\ y7 = (x \div 128) % 2
          /\ x = 128 * y7 + 64 * y6 + 32 * y5 + 16 * y4 + 8 * y3 + 4 * y2 + 2 * y1 + y0
  BY EightBits
<1> QED BY <1>1, <1>5, <1>6, <1>7

LEMMA BitsMakeValue == ASSUME NEW s \in Scalars PROVE Horner(2, 256, BitsOf(s))[256] = ValueOf(s)[32]
<1>1. PICK u : u = Horner(2, 256, BitsOf(s)) /\ IsHorner(u, 2, 256, BitsOf(s))
  BY BitsAre, HornerIs DEF Bits256
<1>2. PICK v : v = ValueOf(s) /\ v \in [Nat -> Int] /\ v[0] = 0 /\ \A k \in 0 .. 31 : v[k + 1] = 256 * v[k] + s[32 - k]
  BY ValueIs
<1>3. PICK x : x = BitsOf(s) /\ \A j \in Bit : x[j] \in {0, 1}
  BY BitsAre
<1>4. u \in [Nat -> Int] /\ u[0] = 0 /\ \A k \in Bit : u[k + 1] = 2 * u[k] + x[255 - k]
  <2>1. \A k \in Bit : 256 - 1 - k = 255 - k
    BY DEF Bit
  <2>2. \A k \in Bit : u[k + 1] = 2 * u[k] + x[256 - 1 - k]
    BY <1>1, <1>3, Bits256Are DEF IsHorner
  <2> QED BY <1>1, <2>1, <2>2 DEF IsHorner
<1> DEFINE Good == {k \in Nat : u[8 * k] = v[k]}
<1>5. 0 \in Good
  <2>1. 8 * 0 = 0
    OBVIOUS
  <2> QED BY <1>2, <1>4, <2>1
<1>6. ASSUME NEW k \in 0 .. 31, k \in Good PROVE k + 1 \in Good
  <2>1. PICK j \in 0 .. 31 : j = 31 - k
    OBVIOUS
  <2> DEFINE b(t) == x[8 * j + t]
  <2>2. ASSUME NEW t \in 0 .. 7 PROVE u[8 * k + t + 1] = 2 * u[8 * k + t] + b(7 - t)
    <3>1. PICK n \in Bit : n = 8 * k + t
      BY DEF Bit
    <3>2. 255 - n = 8 * j + (7 - t)
      BY <2>1, <3>1
    <3>3. u[n + 1] = 2 * u[n] + x[255 - n]
      BY <1>4
    <3> QED BY <3>1, <3>2, <3>3
  <2>3. ASSUME NEW t \in 0 .. 7 PROVE b(t) \in Int
    <3>1. 8 * j + t \in Bit
      BY DEF Bit
    <3> QED BY <1>3, <3>1
  <2>4. ASSUME NEW t \in 0 .. 8 PROVE u[8 * k + t] \in Int
    BY <1>4
  <2>5. s[j + 1] = 128 * b(7) + 64 * b(6) + 32 * b(5) + 16 * b(4) + 8 * b(3) + 4 * b(2) + 2 * b(1) + b(0)
    BY <1>3, ByteIs
  <2> HIDE DEF b
  <2>6. PICK b0 \in Int, b1 \in Int, b2 \in Int, b3 \in Int :
            b0 = b(0) /\ b1 = b(1) /\ b2 = b(2) /\ b3 = b(3)
    <3>1. b(0) \in Int /\ b(1) \in Int /\ b(2) \in Int /\ b(3) \in Int
      BY <2>3
    <3> QED BY <3>1
  <2>7. PICK b4 \in Int, b5 \in Int, b6 \in Int, b7 \in Int :
            b4 = b(4) /\ b5 = b(5) /\ b6 = b(6) /\ b7 = b(7)
    <3>1. b(4) \in Int /\ b(5) \in Int /\ b(6) \in Int /\ b(7) \in Int
      BY <2>3
    <3> QED BY <3>1
  <2>8. PICK u0 \in Int, u4 \in Int, u8 \in Int :
            u0 = u[8 * k] /\ u4 = u[8 * k + 4] /\ u8 = u[8 * k + 8]
    BY <1>4
  <2>9. u4 = 16 * u0 + 8 * b7 + 4 * b6 + 2 * b5 + b4
    <3>1. PICK u1 \in Int, u2 \in Int, u3 \in Int :
              u1 = u[8 * k + 1] /\ u2 = u[8 * k + 2] /\ u3 = u[8 * k + 3]
      BY <1>4
    <3>2. u1 = 2 * u0 + b7
      <4>1. u[8 * k + 0 + 1] = 2 * u[8 * k + 0] + b(7 - 0)
        BY <2>2
      <4>2. 8 * k + 0 + 1 = 8 * k + 1 /\ 8 * k + 0 = 8 * k /\ 7 - 0 = 7
        OBVIOUS
      <4> QED BY <2>7, <2>8, <3>1, <4>1, <4>2
    <3>3. u2 = 2 * u1 + b6
      <4>1. u[8 * k + 1 + 1] = 2 * u[8 * k + 1] + b(7 - 1)
        BY <2>2
      <4>2. 8 * k + 1 + 1 = 8 * k + 2 /\ 7 - 1 = 6
        OBVIOUS
      <4> QED BY <2>7, <3>1, <4>1, <4>2
    <3>4. u3 = 2 * u2 + b5
      <4>1. u[8 * k + 2 + 1] = 2 * u[8 * k + 2] + b(7 - 2)
        BY <2>2
      <4>2. 8 * k + 2 + 1 = 8 * k + 3 /\ 7 - 2 = 5
        OBVIOUS
      <4> QED BY <2>7, <3>1, <4>1, <4>2
    <3>5. u4 = 2 * u3 + b4
      <4>1. u[8 * k + 3 + 1] = 2 * u[8 * k + 3] + b(7 - 3)
        BY <2>2
      <4>2. 8 * k + 3 + 1 = 8 * k + 4 /\ 7 - 3 = 4
        OBVIOUS
      <4> QED BY <2>7, <2>8, <3>1, <4>1, <4>2
    <3> QED BY <3>2, <3>3, <3>4, <3>5
  <2>10. u8 = 16 * u4 + 8 * b3 + 4 * b2 + 2 * b1 + b0
    <3>1. PICK u5 \in Int, u6 \in Int, u7 \in Int :
              u5 = u[8 * k + 5] /\ u6 = u[8 * k + 6] /\ u7 = u[8 * k + 7]
      BY <1>4
    <3>2. u5 = 2 * u4 + b3
      <4>1. u[8 * k + 4 + 1] = 2 * u[8 * k + 4] + b(7 - 4)
        BY <2>2
      <4>2. 8 * k + 4 + 1 = 8 * k + 5 /\ 7 - 4 = 3
        OBVIOUS
      <4> QED BY <2>6, <2>8, <3>1, <4>1, <4>2
    <3>3. u6 = 2 * u5 + b2
      <4>1. u[8 * k + 5 + 1] = 2 * u[8 * k + 5] + b(7 - 5)
        BY <2>2
      <4>2. 8 * k + 5 + 1 = 8 * k + 6 /\ 7 - 5 = 2
        OBVIOUS
      <4> QED BY <2>6, <3>1, <4>1, <4>2
    <3>4. u7 = 2 * u6 + b1
      <4>1. u[8 * k + 6 + 1] = 2 * u[8 * k + 6] + b(7 - 6)
        BY <2>2
      <4>2. 8 * k + 6 + 1 = 8 * k + 7 /\ 7 - 6 = 1
        OBVIOUS
      <4> QED BY <2>6, <3>1, <4>1, <4>2
    <3>5. u8 = 2 * u7 + b0
      <4>1. u[8 * k + 7 + 1] = 2 * u[8 * k + 7] + b(7 - 7)
        BY <2>2
      <4>2. 8 * k + 7 + 1 = 8 * k + 8 /\ 7 - 7 = 0
        OBVIOUS
      <4> QED BY <2>6, <2>8, <3>1, <4>1, <4>2
    <3> QED BY <3>2, <3>3, <3>4, <3>5
  <2>11. PICK y \in Int : y = s[j + 1] /\ y = 128 * b7 + 64 * b6 + 32 * b5 + 16 * b4 + 8 * b3 + 4 * b2 + 2 * b1 + b0
    BY <2>5, <2>6, <2>7 DEF Scalars
  <2>12. u8 = 256 * u0 + y
    BY <2>9, <2>10, <2>11
  <2>13. v[k + 1] = 256 * v[k] + s[32 - k] /\ 32 - k = j + 1 /\ 8 * (k + 1) = 8 * k + 8
    BY <1>2, <2>1
  <2>14. u0 = v[k]
    BY <1>6, <2>8
  <2>15. u[8 * (k + 1)] = v[k + 1]
    <3>1. v[k + 1] = 256 * u0 + y
      BY <2>11, <2>13, <2>14
    <3> QED BY <2>8, <2>12, <2>13, <3>1
  <2> QED BY <2>15
<1> HIDE DEF Good
<1>7. 32 \in Good
  <2>1. Good \in SUBSET Nat
    BY DEF Good
  <2>2. \A k \in 0 .. 32 - 1 : k \in Good => k + 1 \in Good
    BY <1>6
  <2> QED BY <1>5, <2>1, <2>2, UpTo
<1>8. u[8 * 32] = v[32] /\ 8 * 32 = 256
  BY <1>7 DEF Good
<1> QED BY <1>1, <1>2, <1>8

LEMMA NibblesAre ==
    ASSUME NEW s \in Scalars
    PROVE  /\ NibblesOf(s) \in DigitsOf(64)
           /\ \A k \in Digit256 : s[k + 1] = NibblesOf(s)[2 * k] + 16 * NibblesOf(s)[2 * k + 1]
<1>1. ASSUME NEW j \in Digit16 PROVE Nibble(s, j) \in Int
  <2>1. j \div 2 + 1 \in 1 .. 32
    BY DEF Digit16
  <2>2. PICK x \in 0 .. 255 : x = s[j \div 2 + 1]
    BY <2>1 DEF Scalars
  <2>3. x % 16 \in Int /\ x \div 16 \in Int
    OBVIOUS
  <2> QED BY <2>2, <2>3 DEF Nibble
<1>2. ASSUME NEW k \in Digit256 PROVE s[k + 1] = NibblesOf(s)[2 * k] + 16 * NibblesOf(s)[2 * k + 1]
  <2>1. PICK x \in 0 .. 255 : x = s[k + 1]
    BY DEF Scalars, Digit256
  <2>2. PICK y \in Int, z \in Int : y = x \div 16 /\ z = x % 16 /\ x = z + 16 * y
    <3>1. PICK y \in Int, z \in Int : y = x \div 16 /\ z = x % 16
      OBVIOUS
    <3>2. x = z + 16 * y
      BY <3>1
    <3> QED BY <3>1, <3>2
  <2>3. 2 * k \in Digit16 /\ (2 * k) % 2 = 0 /\ (2 * k) \div 2 = k
    BY DEF Digit16, Digit256
  <2>4. 2 * k + 1 \in Digit16 /\ (2 * k + 1) % 2 = 1 /\ (2 * k + 1) \div 2 = k
    BY DEF Digit16, Digit256
  <2>5. Nibble(s, 2 * k) = z
    BY <2>1, <2>2, <2>3 DEF Nibble
  <2>6. Nibble(s, 2 * k + 1) = y
    <3>1. PICK j \in Digit16 : j = 2 * k + 1 /\ ~ (j % 2 = 0) /\ j \div 2 = k
      BY <2>4
    <3>2. Nibble(s, j) = s[j \div 2 + 1] \div 16
      BY <3>1, Zenon DEF Nibble
    <3> QED BY <2>1, <2>2, <3>1, <3>2
  <2> QED BY <2>1, <2>2, <2>3, <2>4, <2>5, <2>6 DEF NibblesOf
<1>3. Digit16 = 0 .. 64 - 1
  BY DEF Digit16
<1> QED BY <1>1, <1>2, <1>3 DEF NibblesOf, DigitsOf

EvenOf(x) == [k \in Digit256 |-> x[2 * k]]
OddOf(x) == [k \in Digit256 |-> x[2 * k + 1]]

LEMMA HalvesAre ==
    ASSUME NEW x \in DigitsOf(64)
    PROVE  /\ EvenOf(x) \in [Digit256 -> Int] /\ OddOf(x) \in [Digit256 -> Int]
           /\ \A k \in Digit256 : EvenOf(x)[k] = x[2 * k] /\ OddOf(x)[k] = x[2 * k + 1]
<1>1. \A k \in Digit256 : 2 * k \in 0 .. 64 - 1 /\ 2 * k + 1 \in 0 .. 64 - 1
  BY DEF Digit256
<1> QED BY <1>1 DEF EvenOf, OddOf, DigitsOf

\* The digits of the two loops of ge_scalarmult_base make up the scalar.
LEMMA DigitsMakeValue ==
    ASSUME NEW s \in Scalars, NEW x \in DigitsOf(64), Carried(NibblesOf(s), x, 16, 64)
    PROVE  16 * Weighted(OddOf(x))[32] + Weighted(EvenOf(x))[32] = ValueOf(s)[32]
<1>1. PICK c : IsCarry(c, NibblesOf(s), x, 16, 64)
  BY DEF Carried
<1>2. PICK n : n = NibblesOf(s) /\ n \in DigitsOf(64) /\ \A k \in Digit256 : s[k + 1] = n[2 * k] + 16 * n[2 * k + 1]
  BY NibblesAre
<1>3. PICK o : o = Weighted(OddOf(x)) /\ IsWeighted(o, OddOf(x))
  BY HalvesAre, WeightedIs
<1>4. PICK v : v = Weighted(EvenOf(x)) /\ IsWeighted(v, EvenOf(x))
  BY HalvesAre, WeightedIs
<1>5. PICK l : l = Weighted(BytesOf(s)) /\ l \in [Nat -> Int] /\ l[0] = 0
               /\ \A k \in Digit256 : l[k + 1] = l[k] + s[k + 1] * Powers[k]
  BY WeightedIs, BytesAre DEF IsWeighted
<1>6. Powers \in [Nat -> Nat] /\ \A k \in Nat : Powers[k + 1] = 256 * Powers[k]
  BY PowersAre DEF IsPower
<1> DEFINE Good == {k \in Nat : l[k] = v[k] + 16 * o[k] + c[2 * k] * Powers[k]}
<1>7. 0 \in Good
  <2>1. l[0] = 0 /\ v[0] = 0 /\ o[0] = 0 /\ c[2 * 0] = 0 /\ Powers[0] \in Int
    BY <1>1, <1>3, <1>4, <1>5, <1>6 DEF IsWeighted, IsCarry
  <2> QED BY <2>1
<1>8. ASSUME NEW k \in 0 .. 31, k \in Good PROVE k + 1 \in Good
  <2>1. k \in Digit256 /\ k \in Nat /\ k + 1 \in Nat /\ 2 * k \in 0 .. 64 - 1 /\ 2 * k + 1 \in 0 .. 64 - 1
        /\ (2 * k + 1) + 1 = 2 * (k + 1) /\ 2 * k \in Nat /\ 2 * k + 1 \in Nat /\ 2 * (k + 1) \in Nat
    BY DEF Digit256
  <2>2. PICK p \in Int, q \in Int : p = Powers[k] /\ q = Powers[k + 1] /\ q = 256 * p
    BY <1>6, <2>1
  <2>3. PICK c0 \in Int, c1 \in Int, c2 \in Int : c0 = c[2 * k] /\ c1 = c[2 * k + 1] /\ c2 = c[2 * (k + 1)]
    <3>1. c[2 * k] \in Int /\ c[2 * k + 1] \in Int /\ c[2 * (k + 1)] \in Int
      BY <1>1, <2>1 DEF IsCarry
    <3> QED BY <3>1
  <2>4. PICK n0 \in Int, n1 \in Int, x0 \in Int, x1 \in Int :
            n0 = n[2 * k] /\ n1 = n[2 * k + 1] /\ x0 = x[2 * k] /\ x1 = x[2 * k + 1]
    <3>1. n[2 * k] \in Int /\ n[2 * k + 1] \in Int
      BY <1>2, <2>1 DEF DigitsOf
    <3>2. x[2 * k] \in Int /\ x[2 * k + 1] \in Int
      BY <2>1 DEF DigitsOf
    <3> QED BY <3>1, <3>2
  <2>5. PICK l0 \in Int, v0 \in Int, o0 \in Int : l0 = l[k] /\ v0 = v[k] /\ o0 = o[k]
    <3>1. l[k] \in Int /\ v[k] \in Int /\ o[k] \in Int
      BY <1>3, <1>4, <1>5, <2>1 DEF IsWeighted
    <3> QED BY <3>1
  <2>6. n0 + c0 = x0 + 16 * c1
    <3>1. n[2 * k] + c[2 * k] = x[2 * k] + 16 * c[2 * k + 1]
      BY <1>1, <1>2, <2>1 DEF IsCarry
    <3> QED BY <2>3, <2>4, <3>1
  <2>7. n1 + c1 = x1 + 16 * c2
    <3>1. n[2 * k + 1] + c[2 * k + 1] = x[2 * k + 1] + 16 * c[2 * (k + 1)]
      <4>1. PICK j \in 0 .. 64 - 1 : j = 2 * k + 1 /\ j + 1 = 2 * (k + 1)
        BY <2>1
      <4>2. n[j] + c[j] = x[j] + 16 * c[j + 1]
        BY <1>1, <1>2 DEF IsCarry
      <4> QED BY <4>1, <4>2
    <3> QED BY <2>3, <2>4, <3>1
  <2>8. PICK y \in Int : y = s[k + 1] /\ y = n0 + 16 * n1
    BY <1>2, <2>1, <2>4
  <2>9. y + c0 = x0 + 16 * x1 + 256 * c2
    BY <2>6, <2>7, <2>8
  <2>10. l[k + 1] = l0 + y * p /\ v[k + 1] = v0 + x0 * p /\ o[k + 1] = o0 + x1 * p
    <3>1. v[k + 1] = v[k] + EvenOf(x)[k] * Powers[k] /\ o[k + 1] = o[k] + OddOf(x)[k] * Powers[k]
      BY <1>3, <1>4, <2>1 DEF IsWeighted
    <3>2. EvenOf(x)[k] = x0 /\ OddOf(x)[k] = x1
      BY <2>1, <2>4, HalvesAre
    <3> QED BY <1>5, <2>1, <2>2, <2>5, <2>8, <3>1, <3>2
  <2>11. l0 = v0 + 16 * o0 + c0 * p
    BY <1>8, <2>2, <2>3, <2>5
  <2>12. l0 + y * p = (v0 + x0 * p) + 16 * (o0 + x1 * p) + c2 * q
    <3>1. y = x0 + 16 * x1 + 256 * c2 - c0
      BY <2>9
    <3> QED BY <2>2, <2>11, <3>1
  <2> QED BY <2>1, <2>2, <2>3, <2>10, <2>12
<1> HIDE DEF Good
<1>9. 32 \in Good
  <2>1. Good \in SUBSET Nat
    BY DEF Good
  <2>2. \A k \in 0 .. 32 - 1 : k \in Good => k + 1 \in Good
    BY <1>8
  <2> QED BY <1>7, <2>1, <2>2, UpTo
<1>10. l[32] = v[32] + 16 * o[32] + c[2 * 32] * Powers[32] /\ 2 * 32 = 64
  BY <1>9 DEF Good
<1>11. l[32] = 16 * o[32] + v[32]
  <2>1. c[64] = 0 /\ Powers[32] \in Int /\ v[32] \in Int /\ o[32] \in Int
    BY <1>1, <1>3, <1>4, <1>6 DEF IsCarry, IsWeighted
  <2> QED BY <1>10, <2>1
<1> QED BY <1>3, <1>4, <1>5, <1>11, WeightedByTop

-----------------------------------------------------------------------------
(* The tables: what select, Bi and Ai give. *)

LimbsFit(t) == t.yplusx.b \in 0 .. 100 /\ t.yminusx.b \in 0 .. 100 /\ t.xy2d.b \in 0 .. 100
Holds(t, x, y, k) ==
    k = 2 * D * (x * y) /\ Worth(t.yplusx, y + x) /\ Worth(t.yminusx, y - x) /\ Worth(t.xy2d, k)
\* t, a ge_precomp, is the point q.
Tabled(t, q) ==
    LimbsFit(t) /\ \E x \in Int, y \in Int, k \in Int : q[1] = x /\ q[2] = y /\ Holds(t, x, y, k)

LEMMA TabledFits ==
    ASSUME NEW p, Within(p, Tight), NEW t, LimbsFit(t) PROVE Within(ge_madd(p, t), MulIn)
<1>1. fe_add(p.Y, p.X).b \in 0 .. 202 /\ fe_sub(p.Y, p.X).b \in 0 .. 202 /\ fe_add(p.Z, p.Z).b \in 0 .. 2 * Tight
  <2>1. 2 * Tight = 202
    BY DEF Tight
  <2> QED BY <2>1, WithinAll, SumOfTight
<1>2. t.yplusx.b \in 0 .. MulIn /\ t.yminusx.b \in 0 .. MulIn /\ t.xy2d.b \in 0 .. MulIn
  BY DEF LimbsFit, MulIn
<1>3. fe_mul(t.xy2d, p.T).b = Tight
  <2>1. p.T.b \in 0 .. MulIn
    BY WithinAll DEF Tight, MulIn
  <2> QED BY <1>2, <2>1, MulTight
<1>4. fe_mul(fe_add(p.Y, p.X), t.yplusx).b = Tight /\ fe_mul(fe_sub(p.Y, p.X), t.yminusx).b = Tight
  <2>1. fe_add(p.Y, p.X).b \in 0 .. MulIn /\ fe_sub(p.Y, p.X).b \in 0 .. MulIn
    BY <1>1 DEF MulIn
  <2> QED BY <1>2, <2>1, MulTight
<1> QED BY <1>1, <1>3, <1>4, CompletedFits DEF ge_madd

LEMMA TabledAdds ==
    ASSUME NEW r, NEW p \in Curve, Represents(r, p), Within(r, Tight), NEW t, NEW q \in Curve, Tabled(t, q)
    PROVE  /\ Represents(ge_p1p1_to_p3(ge_madd(r, t)), PointSum(p, q))
           /\ Within(ge_p1p1_to_p3(ge_madd(r, t)), Tight)
<1>1. Within(ge_p1p1_to_p3(ge_madd(r, t)), Tight)
  BY TabledFits, CompletedIsTight DEF Tabled
<1>2. PICK x \in Int, y \in Int, k \in Int : q[1] = x /\ q[2] = y /\ Holds(t, x, y, k)
  BY DEF Tabled
<1>3. k = 2 * D * (x * y) /\ Worth(t.yplusx, y + x) /\ Worth(t.yminusx, y - x) /\ Worth(t.xy2d, k)
  BY <1>2 DEF Holds
<1>4. Completes(ge_madd(r, t), PointSum(p, q))
  BY <1>2, <1>3, MaddCompletes
<1> QED BY <1>1, <1>4, SumStays, CompletedRepresents

LEMMA TabledAffine == ASSUME NEW q \in Curve PROVE Tabled(Affine(q), q)
<1>1. PICK x \in Int, y \in Int : q[1] = x /\ q[2] = y
  BY CurvePoint
<1>2. PICK k \in Int : k = 2 * D * (x * y)
  BY FieldAssumption, QIsOdd
<1>3. q[1] \cong x
  BY <1>1, SameIsSame
<1>4. PICK t : t = Affine(q)
  OBVIOUS
<1>5. Worth(t.yplusx, y + x) /\ Worth(t.yminusx, y - x) /\ Worth(t.xy2d, k)
  BY <1>1, <1>2, <1>3, <1>4, AffineSays
<1>6. LimbsFit(t)
  <2>1. t.yplusx.b = 100 /\ t.yminusx.b = 100 /\ t.xy2d.b = 100
    BY <1>4, BoundOf DEF Affine, ge_precomp
  <2> QED BY <2>1 DEF LimbsFit
<1>7. Tabled(t, q)
  BY <1>1, <1>2, <1>5, <1>6 DEF Tabled, Holds
<1> QED BY <1>4, <1>7

LEMMA TabledZero == Tabled(ge_precomp_0, Zero)
<1>1. PICK t : t = ge_precomp_0
  OBVIOUS
<1>2. t.yplusx = fe_1 /\ t.yminusx = fe_1 /\ t.xy2d = fe_0
  BY <1>1 DEF ge_precomp_0, ge_precomp
<1>3. PICK x \in Int, y \in Int, k \in Int : x = 0 /\ y = 1 /\ k = 0
  OBVIOUS
<1>4. k = 2 * D * (x * y)
  <2>1. PICK dd \in Int : dd = D
    BY FieldAssumption, QIsOdd
  <2>2. 2 * dd * (x * y) = 0
    BY <1>3
  <2> QED BY <1>3, <2>1, <2>2
<1>5. y + x = 1 /\ y - x = 1
  BY <1>3
<1>6. Holds(t, x, y, k)
  BY <1>2, <1>3, <1>4, <1>5, WorthOfOne DEF Holds
<1>7. LimbsFit(t)
  BY <1>2, BoundOf DEF LimbsFit, fe_0, fe_1
<1> QED BY <1>1, <1>3, <1>6, <1>7, ZeroIsOnCurve DEF Tabled

LEMMA TabledOpposite ==
    ASSUME NEW t, NEW q \in Curve, Tabled(t, q)
    PROVE  Tabled(ge_precomp(fe_copy(t.yminusx), fe_copy(t.yplusx), fe_neg(t.xy2d)), Opposite(q))
<1>1. PICK x \in Int, y \in Int, k \in Int : q[1] = x /\ q[2] = y /\ Holds(t, x, y, k)
  BY DEF Tabled
<1>2. k = 2 * D * (x * y) /\ Worth(t.yplusx, y + x) /\ Worth(t.yminusx, y - x) /\ Worth(t.xy2d, k)
  BY <1>1 DEF Holds
<1>3. PICK o \in Curve : o = Opposite(q) /\ o[1] \cong -x /\ o[2] = y
  BY <1>1, OppositeSays
<1>4. PICK u \in Int : o[1] = u /\ u \cong -x
  BY <1>3, CurvePoint
<1>5. PICK n \in Int : n = -x /\ u \cong n
  BY <1>4
<1>6. PICK l \in Int : l = 2 * D * (u * y)
  BY FieldAssumption, QIsOdd
<1>7. PICK w : w = ge_precomp(fe_copy(t.yminusx), fe_copy(t.yplusx), fe_neg(t.xy2d))
  OBVIOUS
<1>8. w.yplusx = t.yminusx /\ w.yminusx = t.yplusx /\ w.xy2d = fe_neg(t.xy2d)
  BY <1>7 DEF ge_precomp, fe_copy
<1>9. LimbsFit(w)
  <2>1. fe_neg(t.xy2d).b = t.xy2d.b
    BY BoundOf DEF fe_neg
  <2> QED BY <1>8, <2>1 DEF Tabled, LimbsFit
<1>10. n \cong u
  BY <1>5, SameBack
<1>11. PICK a \in Int, b \in Int, c \in Int, g \in Int : a = y - x /\ b = y + u /\ c = y + x /\ g = y - u
  OBVIOUS
<1>12. a \cong b /\ c \cong g
  <2>1. y \cong y
    BY SameIsSame
  <2>2. y + n \cong y + u /\ y - n \cong y - u
    BY <1>10, <2>1, SameSum
  <2>3. a = y + n /\ c = y - n
    BY <1>5, <1>11
  <2> QED BY <1>11, <2>2, <2>3
<1>13. Worth(w.yplusx, b) /\ Worth(w.yminusx, g)
  <2>1. Worth(w.yplusx, a) /\ Worth(w.yminusx, c)
    BY <1>2, <1>8, <1>11
  <2> QED BY <1>12, <2>1, WorthSame
<1>14. Worth(w.xy2d, l)
  <2>1. PICK v \in Int : v = -k /\ Worth(w.xy2d, v)
    BY <1>2, <1>8, WorthNeg
  <2>2. PICK e2 \in Int : e2 = 2 * D
    BY FieldAssumption, QIsOdd
  <2>3. PICK z \in Int : z = e2 * y
    OBVIOUS
  <2>4. v = z * n
    BY <1>2, <1>5, <2>1, <2>2, <2>3
  <2>5. l = z * u
    BY <1>6, <2>2, <2>3
  <2>6. v \cong l
    BY <1>10, <2>4, <2>5, SameTimes
  <2> QED BY <2>1, <2>6, WorthSame
<1>15. Holds(w, u, y, l)
  BY <1>6, <1>11, <1>13, <1>14 DEF Holds
<1>16. Tabled(w, o)
  BY <1>3, <1>4, <1>9, <1>15 DEF Tabled
<1> QED BY <1>3, <1>7, <1>16

LEMMA CmovIs ==
    ASSUME NEW t, NEW u, NEW b
    PROVE  /\ b = 1 => cmov(t, u, b) = ge_precomp(u.yplusx, u.yminusx, u.xy2d)
           /\ b # 1 => cmov(t, u, b) = ge_precomp(t.yplusx, t.yminusx, t.xy2d)
BY DEF cmov, fe_cmov

LEMMA EntryAsIs ==
    ASSUME NEW p, NEW g, NEW x
    PROVE  LET t == ge_precomp(p, g, x) IN ge_precomp(t.yplusx, t.yminusx, t.xy2d) = t
BY DEF ge_precomp

\* What the loop of select has after j entries of the row.
RowAt(pos, n, j) == IF n \in 1 .. j THEN base(pos, n - 1) ELSE ge_precomp_0

LEMMA RowAsIs ==
    ASSUME NEW pos, NEW n \in 0 .. 8, NEW j \in 0 .. 8
    PROVE  ge_precomp(RowAt(pos, n, j).yplusx, RowAt(pos, n, j).yminusx, RowAt(pos, n, j).xy2d) = RowAt(pos, n, j)
<1>1. ge_precomp(base(pos, n - 1).yplusx, base(pos, n - 1).yminusx, base(pos, n - 1).xy2d) = base(pos, n - 1)
  BY EntryAsIs DEF base, Affine
<1>2. ge_precomp(ge_precomp_0.yplusx, ge_precomp_0.yminusx, ge_precomp_0.xy2d) = ge_precomp_0
  BY EntryAsIs DEF ge_precomp_0
<1> QED BY <1>1, <1>2 DEF RowAt

LEMMA RowGoesOn ==
    ASSUME NEW pos, NEW n \in 0 .. 8, NEW j \in 1 .. 8
    PROVE  RowAt(pos, n, j) = cmov(RowAt(pos, n, j - 1), base(pos, j - 1), equal(n, j))
<1>1. CASE n = j
  <2>1. equal(n, j) = 1 /\ n \in 1 .. j
    BY <1>1 DEF equal
  <2>2. RowAt(pos, n, j) = base(pos, j - 1)
    BY <1>1, <2>1 DEF RowAt
  <2>3. j \in 0 .. 8
    OBVIOUS
  <2>4. ge_precomp(base(pos, j - 1).yplusx, base(pos, j - 1).yminusx, base(pos, j - 1).xy2d) = base(pos, j - 1)
    BY <2>2, <2>3, RowAsIs
  <2> QED BY <2>1, <2>2, <2>4, CmovIs
<1>2. CASE n # j
  <2>1. equal(n, j) # 1 /\ j - 1 \in 0 .. 8 /\ (n \in 1 .. j <=> n \in 1 .. j - 1)
    BY <1>2 DEF equal
  <2>2. RowAt(pos, n, j) = RowAt(pos, n, j - 1)
    BY <2>1 DEF RowAt
  <2>3. PICK t : t = RowAt(pos, n, j - 1)
    OBVIOUS
  <2>4. ge_precomp(t.yplusx, t.yminusx, t.xy2d) = t
    BY <2>1, <2>3, RowAsIs
  <2> QED BY <2>1, <2>2, <2>3, <2>4, CmovIs
<1> QED BY <1>1, <1>2

LEMMA SelectIs ==
    ASSUME NEW pos, NEW b \in -8 .. 8, NEW n \in 0 .. 8, n = IF b < 0 THEN -b ELSE b
    PROVE  LET t == RowAt(pos, n, 8)
           IN select(pos, b) = cmov(t, ge_precomp(fe_copy(t.yminusx), fe_copy(t.yplusx), fe_neg(t.xy2d)), negative(b))
<1> DEFINE Body(r) == [j \in 0 .. 8 |-> IF j = 0 THEN ge_precomp_0
                                        ELSE cmov(r[j - 1], base(pos, j - 1), equal(n, j))]
<1>1. PICK q : q = [j \in 0 .. 8 |-> RowAt(pos, n, j)]
  OBVIOUS
<1>2. RowAt(pos, n, 0) = ge_precomp_0
  <2>1. n \notin 1 .. 0
    OBVIOUS
  <2> QED BY <2>1 DEF RowAt
<1>3. q = Body(q)
  <2>1. ASSUME NEW j \in 0 .. 8, j # 0 PROVE q[j] = cmov(q[j - 1], base(pos, j - 1), equal(n, j))
    <3>1. j \in 1 .. 8 /\ j - 1 \in 0 .. 8
      BY <2>1
    <3>2. q[j] = RowAt(pos, n, j) /\ q[j - 1] = RowAt(pos, n, j - 1)
      BY <1>1, <3>1
    <3> QED BY <3>1, <3>2, RowGoesOn
  <2> QED BY <1>1, <1>2, <2>1
<1>4. PICK r : r = (CHOOSE u : u = Body(u))
  OBVIOUS
<1>5. select(pos, b) = cmov(r[8], ge_precomp(fe_copy(r[8].yminusx), fe_copy(r[8].yplusx), fe_neg(r[8].xy2d)), negative(b))
  BY <1>4 DEF select
<1> HIDE DEF Body
<1>6. r = Body(r)
  BY <1>3, <1>4
<1> DEFINE Good == {j \in Nat : r[j] = RowAt(pos, n, j)}
<1>7. 0 \in Good
  BY <1>2, <1>6 DEF Body
<1>8. ASSUME NEW k \in 0 .. 7, k \in Good PROVE k + 1 \in Good
  <2>1. PICK j \in 1 .. 8 : j = k + 1 /\ j - 1 = k
    OBVIOUS
  <2>2. r[j] = cmov(r[j - 1], base(pos, j - 1), equal(n, j))
    BY <1>6 DEF Body
  <2>3. r[j - 1] = RowAt(pos, n, j - 1)
    BY <1>8, <2>1
  <2>4. r[j] = RowAt(pos, n, j)
    BY <2>2, <2>3, RowGoesOn
  <2> QED BY <2>1, <2>4
<1> HIDE DEF Good
<1>9. 8 \in Good
  <2>1. Good \in SUBSET Nat
    BY DEF Good
  <2>2. \A k \in 0 .. 8 - 1 : k \in Good => k + 1 \in Good
    BY <1>8
  <2> QED BY <1>7, <2>1, <2>2, UpTo
<1>10. r[8] = RowAt(pos, n, 8)
  BY <1>9 DEF Good
<1> QED BY <1>5, <1>10

LEMMA MultipleOfBaseIs ==
    ASSUME NEW n \in Int PROVE MultipleOfBase[n % Order] = Times(n, Base)
<1>1. n % Order \in 0 .. Order - 1
  BY ModMeets
<1> QED BY <1>1 DEF MultipleOfBase, Times

LEMMA BaseIs ==
    ASSUME NEW pos \in Nat, NEW n \in Int, NEW k \in Int, k = n * Powers[pos]
    PROVE  base(pos, n - 1) = Affine(Times(k, Base))
<1>1. PICK p \in Int, g \in Int : p = Powers[pos] /\ g = Power256(pos) /\ Meets(g, p)
  <2>1. Powers[pos] \in Int
    BY PowersAre DEF IsPower
  <2> QED BY <2>1, Power256Is
<1>2. PICK u \in Int : u = n * g
  OBVIOUS
<1>3. Meets(u, k)
  <2>1. Linear(n, g, 0, u) /\ Linear(n, p, 0, k)
    BY <1>1, <1>2 DEF Linear
  <2> QED BY <1>1, <1>2, <2>1, MeetsLinear
<1>4. Times(u, Base) = Times(k, Base)
  BY <1>3, MeetsTimes
<1>5. (n - 1) + 1 = n
  OBVIOUS
<1>6. base(pos, n - 1) = Affine(MultipleOfBase[u % Order])
  BY <1>1, <1>2, <1>5 DEF base
<1> QED BY <1>4, <1>6, MultipleOfBaseIs

\* The entry that select gives is the point b * 256 ^ pos * B.
LEMMA SelectSays ==
    ASSUME NEW pos \in Nat, NEW b \in -8 .. 8, NEW k \in Int, k = b * Powers[pos]
    PROVE  Times(k, Base) \in Curve /\ Tabled(select(pos, b), Times(k, Base))
<1>1. PICK p \in Int : p = Powers[pos]
  BY PowersAre DEF IsPower
<1>2. PICK n \in 0 .. 8 : n = IF b < 0 THEN -b ELSE b
  OBVIOUS
<1>3. PICK t : t = RowAt(pos, n, 8)
  OBVIOUS
<1>4. select(pos, b) = cmov(t, ge_precomp(fe_copy(t.yminusx), fe_copy(t.yplusx), fe_neg(t.xy2d)), negative(b))
  BY <1>2, <1>3, SelectIs
<1>5. PICK g \in Int : g = n * p
  OBVIOUS
<1>6. Base \in Curve /\ Times(g, Base) \in Curve /\ Times(k, Base) \in Curve
  BY OrderIs, TimesStays
<1>7. Tabled(t, Times(g, Base))
  <2>1. CASE n = 0
    <3>1. n \notin 1 .. 8
      BY <2>1
    <3>2. t = ge_precomp_0
      BY <1>3, <3>1 DEF RowAt
    <3>3. g = 0
      BY <1>5, <2>1
    <3>4. Times(g, Base) = Zero
      BY <1>6, <3>3, TimesSmall
    <3> QED BY <3>2, <3>4, TabledZero
  <2>2. CASE n # 0
    <3>1. t = base(pos, n - 1)
      BY <1>3, <2>2 DEF RowAt
    <3>2. base(pos, n - 1) = Affine(Times(g, Base))
      BY <1>1, <1>5, BaseIs
    <3> QED BY <1>6, <3>1, <3>2, TabledAffine
  <2> QED BY <2>1, <2>2
<1>8. CASE b < 0
  <2>1. PICK w : w = ge_precomp(fe_copy(t.yminusx), fe_copy(t.yplusx), fe_neg(t.xy2d))
    OBVIOUS
  <2>2. select(pos, b) = ge_precomp(w.yplusx, w.yminusx, w.xy2d)
    BY <1>4, <1>8, <2>1, CmovIs DEF negative
  <2>3. ge_precomp(w.yplusx, w.yminusx, w.xy2d) = w
    BY <2>1, EntryAsIs
  <2>4. k = -g
    BY <1>1, <1>2, <1>5, <1>8
  <2>5. Times(k, Base) = Opposite(Times(g, Base))
    BY <1>6, <2>4, TimesOpposite
  <2> QED BY <1>6, <1>7, <2>1, <2>2, <2>3, <2>5, TabledOpposite
<1>9. CASE ~ (b < 0)
  <2>1. select(pos, b) = ge_precomp(t.yplusx, t.yminusx, t.xy2d)
    BY <1>4, <1>9, CmovIs DEF negative
  <2>2. 8 \in 0 .. 8
    OBVIOUS
  <2>3. ge_precomp(t.yplusx, t.yminusx, t.xy2d) = t
    BY <1>3, <2>2, RowAsIs
  <2>4. k = g
    BY <1>1, <1>2, <1>5, <1>9
  <2> QED BY <1>6, <1>7, <2>1, <2>3, <2>4
<1> QED BY <1>8, <1>9

-----------------------------------------------------------------------------
(* The turns of the loops. *)

LEMMA DigitAdded ==
    ASSUME NEW r, NEW g \in Int, Represents(r, Times(g, Base)), Within(r, Tight),
           NEW pos \in Nat, NEW b \in -8 .. 8, NEW n \in Int, n = g + b * Powers[pos]
    PROVE  LET u == ge_p1p1_to_p3(ge_madd(r, select(pos, b)))
           IN Represents(u, Times(n, Base)) /\ Within(u, Tight)
<1>1. PICK k \in Int : k = b * Powers[pos]
  BY PowersAre DEF IsPower
<1>2. PICK p \in Curve, q \in Curve : p = Times(g, Base) /\ q = Times(k, Base) /\ Tabled(select(pos, b), q)
  BY <1>1, SelectSays, TimesStays, OrderIs
<1>3. PICK t : t = select(pos, b)
  OBVIOUS
<1>4. Represents(ge_p1p1_to_p3(ge_madd(r, t)), PointSum(p, q)) /\ Within(ge_p1p1_to_p3(ge_madd(r, t)), Tight)
  BY <1>2, <1>3, TabledAdds
<1>5. n = g + k
  BY <1>1
<1>6. Times(n, Base) = PointSum(p, q)
  BY <1>2, <1>5, TimesAdds, OrderIs
<1> QED BY <1>3, <1>4, <1>6

\* A ge_p2 whose limbs the next call can take.
Flat(r) == r.X.b \in 0 .. Tight /\ r.Y.b \in 0 .. Tight /\ r.Z.b \in 0 .. Tight

LEMMA CompletedIsFlat == ASSUME NEW r, Within(r, MulIn) PROVE Flat(ge_p1p1_to_p2(r))
<1>1. PICK t : t = ge_p1p1_to_p2(r)
  OBVIOUS
<1>2. t.X = fe_mul(r.X, r.T) /\ t.Y = fe_mul(r.Y, r.Z) /\ t.Z = fe_mul(r.Z, r.T)
  BY <1>1 DEF ge_p1p1_to_p2, ge_p2
<1>3. t.X.b = Tight /\ t.Y.b = Tight /\ t.Z.b = Tight
  BY <1>2, WithinAll, MulTight
<1> QED BY <1>1, <1>3 DEF Flat, Tight

LEMMA FlatDoubles ==
    ASSUME NEW r, NEW p \in Curve, Projective(r, p), Flat(r)
    PROVE  LET t == ge_p2_dbl(r)
           IN Within(t, MulIn) /\ Completes(t, PointSum(p, p)) /\ PointSum(p, p) \in Curve
BY DoubleFits, DoubleCompletes, SumStays DEF Flat

LEMMA CompletedGoesOn ==
    ASSUME NEW r, NEW p \in Curve, Completes(r, p), Within(r, MulIn)
    PROVE  /\ Projective(ge_p1p1_to_p2(r), p) /\ Flat(ge_p1p1_to_p2(r))
           /\ Represents(ge_p1p1_to_p3(r), p) /\ Within(ge_p1p1_to_p3(r), Tight)
BY CompletedRepresents, CompletedIsFlat, CompletedIsTight

LEMMA TimesTwo ==
    ASSUME NEW p \in Curve, NEW g \in Int, NEW n \in Int, n = 2 * g
    PROVE  Times(n, p) = PointSum(Times(g, p), Times(g, p))
<1>1. n = g + g
  OBVIOUS
<1> QED BY <1>1, TimesAdds

LEMMA SixteenTimes ==
    ASSUME NEW r, NEW g \in Int, Represents(r, Times(g, Base)), Within(r, Tight), NEW n \in Int, n = 16 * g
    PROVE  LET two == ge_p1p1_to_p2(ge_p3_dbl(r))
               four == ge_p1p1_to_p2(ge_p2_dbl(two))
               eight == ge_p1p1_to_p2(ge_p2_dbl(four))
               u == ge_p1p1_to_p3(ge_p2_dbl(eight))
           IN Represents(u, Times(n, Base)) /\ Within(u, Tight)
<1>1. PICK r2 : r2 = ge_p3_to_p2(r)
  OBVIOUS
<1>2. r2.X = r.X /\ r2.Y = r.Y /\ r2.Z = r.Z
  BY <1>1 DEF ge_p3_to_p2, ge_p2, fe_copy
<1>3. PICK m2 \in Int, m4 \in Int, m8 \in Int : m2 = 2 * g /\ m4 = 2 * m2 /\ m8 = 2 * m4 /\ n = 2 * m8
  OBVIOUS
<1>4. PICK p \in Curve, p2 \in Curve, p4 \in Curve, p8 \in Curve, p16 \in Curve :
          p = Times(g, Base) /\ p2 = Times(m2, Base) /\ p4 = Times(m4, Base) /\ p8 = Times(m8, Base) /\ p16 = Times(n, Base)
  BY TimesStays, OrderIs
<1>5. p2 = PointSum(p, p) /\ p4 = PointSum(p2, p2) /\ p8 = PointSum(p4, p4) /\ p16 = PointSum(p8, p8)
  BY <1>3, <1>4, TimesTwo, OrderIs
<1>6. Projective(r2, p) /\ Flat(r2)
  BY <1>2, <1>4, WithinAll DEF Represents, Projective, Flat
<1>7. PICK t2 : t2 = ge_p1p1_to_p2(ge_p3_dbl(r)) /\ Projective(t2, p2) /\ Flat(t2)
  BY <1>1, <1>5, <1>6, FlatDoubles, CompletedGoesOn DEF ge_p3_dbl
<1>8. PICK t4 : t4 = ge_p1p1_to_p2(ge_p2_dbl(t2)) /\ Projective(t4, p4) /\ Flat(t4)
  BY <1>5, <1>7, FlatDoubles, CompletedGoesOn
<1>9. PICK t8 : t8 = ge_p1p1_to_p2(ge_p2_dbl(t4)) /\ Projective(t8, p8) /\ Flat(t8)
  BY <1>5, <1>8, FlatDoubles, CompletedGoesOn
<1>10. Represents(ge_p1p1_to_p3(ge_p2_dbl(t8)), p16) /\ Within(ge_p1p1_to_p3(ge_p2_dbl(t8)), Tight)
  BY <1>5, <1>9, FlatDoubles, CompletedGoesOn
<1> QED BY <1>4, <1>7, <1>8, <1>9, <1>10

\* The table of the multiples of A.
LEMMA AiIs ==
    ASSUME NEW A, NEW a \in Curve, Represents(A, a), Within(A, Tight)
    PROVE  \A j \in 0 .. 7 : \E u : /\ Ai(A)[j] = ge_p3_to_cached(u) /\ Represents(u, Times(2 * j + 1, a))
                                    /\ Within(u, Tight)
<1>1. PICK A2 : A2 = ge_p1p1_to_p3(ge_p3_dbl(A))
  OBVIOUS
<1>2. Represents(A2, Times(2, a)) /\ Within(A2, Tight)
  <2>1. PICK r2 : r2 = ge_p3_to_p2(A)
    OBVIOUS
  <2>2. r2.X = A.X /\ r2.Y = A.Y /\ r2.Z = A.Z
    BY <2>1 DEF ge_p3_to_p2, ge_p2, fe_copy
  <2>3. Projective(r2, a) /\ Flat(r2)
    BY <2>2, WithinAll DEF Represents, Projective, Flat
  <2>4. PICK one \in Int, two \in Int : one = 1 /\ two = 2 * one /\ two = 2
    OBVIOUS
  <2>5. Times(two, a) = PointSum(Times(one, a), Times(one, a))
    BY <2>4, TimesTwo
  <2>6. Times(2, a) = PointSum(a, a)
    BY <2>4, <2>5, TimesSmall
  <2>7. Completes(ge_p3_dbl(A), PointSum(a, a)) /\ Within(ge_p3_dbl(A), MulIn) /\ PointSum(a, a) \in Curve
    BY <2>1, <2>3, FlatDoubles DEF ge_p3_dbl
  <2> QED BY <1>1, <2>6, <2>7, CompletedGoesOn
<1> DEFINE G(x) == ge_p3_to_cached(ge_p1p1_to_p3(ge_add(A2, x)))
           Body(r) == [j \in 0 .. 7 |-> IF j = 0 THEN ge_p3_to_cached(A) ELSE G(r[j - 1])]
<1>3. PICK r : r = (CHOOSE u : u = Body(u))
  OBVIOUS
<1>4. Ai(A) = r
  BY <1>1, <1>3 DEF Ai
<1>5. \E q : q = Body(q)
  <2> HIDE DEF G
  <2>1. PICK t0, t1, t2, t3 : t0 = ge_p3_to_cached(A) /\ t1 = G(t0) /\ t2 = G(t1) /\ t3 = G(t2)
    OBVIOUS
  <2>2. PICK t4, t5, t6, t7 : t4 = G(t3) /\ t5 = G(t4) /\ t6 = G(t5) /\ t7 = G(t6)
    OBVIOUS
  <2>3. PICK q : q = [j \in 0 .. 7 |-> IF j = 0 THEN t0 ELSE IF j = 1 THEN t1 ELSE IF j = 2 THEN t2
                                       ELSE IF j = 3 THEN t3 ELSE IF j = 4 THEN t4 ELSE IF j = 5 THEN t5
                                       ELSE IF j = 6 THEN t6 ELSE t7]
    OBVIOUS
  <2>4. /\ q[0] = t0 /\ q[1] = t1 /\ q[2] = t2 /\ q[3] = t3
        /\ q[4] = t4 /\ q[5] = t5 /\ q[6] = t6 /\ q[7] = t7
    BY <2>3
  <2>5. ASSUME NEW j \in 0 .. 7, j # 0 PROVE q[j] = G(q[j - 1])
    <3>1. j = 1 \/ j = 2 \/ j = 3 \/ j = 4 \/ j = 5 \/ j = 6 \/ j = 7
      BY <2>5
    <3>2. j = 1 => j - 1 = 0
      OBVIOUS
    <3>3. j = 2 => j - 1 = 1
      OBVIOUS
    <3>4. j = 3 => j - 1 = 2
      OBVIOUS
    <3>5. j = 4 => j - 1 = 3
      OBVIOUS
    <3>6. j = 5 => j - 1 = 4
      OBVIOUS
    <3>7. j = 6 => j - 1 = 5
      OBVIOUS
    <3>8. j = 7 => j - 1 = 6
      OBVIOUS
    <3> QED BY <2>1, <2>2, <2>4, <3>1, <3>2, <3>3, <3>4, <3>5, <3>6, <3>7, <3>8
  <2>6. q = Body(q)
    BY <2>1, <2>3, <2>4, <2>5
  <2> QED BY <2>6
<1> HIDE DEF Body
<1>6. r = Body(r)
  BY <1>3, <1>5
<1> DEFINE Entry(x, n) == \E u : x = ge_p3_to_cached(u) /\ Represents(u, Times(n, a)) /\ Within(u, Tight)
<1>7. r[0] = ge_p3_to_cached(A)
  BY <1>6 DEF Body
<1>8. Entry(r[0], 2 * 0 + 1)
  <2>1. Times(2 * 0 + 1, a) = a
    BY TimesSmall
  <2> QED BY <1>7, <2>1
<1>9. ASSUME NEW k \in 0 .. 6, Entry(r[k], 2 * k + 1) PROVE Entry(r[k + 1], 2 * (k + 1) + 1)
  <2>1. PICK u : r[k] = ge_p3_to_cached(u) /\ Represents(u, Times(2 * k + 1, a)) /\ Within(u, Tight)
    BY <1>9
  <2>2. PICK n \in Int, g \in Int, two \in Int : n = 2 * k + 1 /\ g = 2 * (k + 1) + 1 /\ two = 2 /\ g = two + n
    OBVIOUS
  <2>3. PICK p \in Curve, q \in Curve, s \in Curve : p = Times(two, a) /\ q = Times(n, a) /\ s = Times(g, a)
    BY TimesStays
  <2>4. s = PointSum(p, q)
    BY <2>2, <2>3, TimesAdds
  <2>5. PICK w : w = ge_p1p1_to_p3(ge_add(A2, ge_p3_to_cached(u)))
    OBVIOUS
  <2>6. Represents(A2, p) /\ Represents(u, q)
    BY <1>2, <2>1, <2>2, <2>3
  <2>7. Represents(w, s)
    BY <2>4, <2>5, <2>6, AddSays
  <2>8. Within(w, Tight)
    BY <1>2, <2>1, <2>5, AddFits, CompletedIsTight
  <2>9. r[k + 1] = ge_p3_to_cached(w)
    <3>1. PICK j \in 0 .. 7 : j = k + 1 /\ j # 0 /\ j - 1 = k
      OBVIOUS
    <3>2. r[j] = G(r[j - 1])
      BY <1>6, <3>1 DEF Body
    <3> QED BY <2>1, <2>5, <3>1, <3>2
  <2> QED BY <2>2, <2>3, <2>7, <2>8, <2>9
<1> HIDE DEF Entry
<1> DEFINE Good == {k \in Nat : Entry(r[k], 2 * k + 1)}
<1>10. 0 \in Good
  BY <1>8
<1>11. ASSUME NEW k \in 0 .. 6, k \in Good PROVE k + 1 \in Good
  BY <1>9, <1>11
<1> HIDE DEF Good
<1>12. ASSUME NEW j \in 0 .. 7 PROVE j \in Good
  <2>1. Good \in SUBSET Nat
    BY DEF Good
  <2>2. \A k \in 0 .. j - 1 : k \in Good => k + 1 \in Good
    BY <1>11
  <2> QED BY <1>10, <2>1, <2>2, UpTo
<1> QED BY <1>4, <1>12 DEF Good, Entry

\* Half of an odd digit is the index of its entry.
LEMMA OddIndex ==
    ASSUME NEW x, OddWindow(x), x > 0
    PROVE  \E j \in 0 .. 7 : j = x \div 2 /\ x = 2 * j + 1 /\ x \in Int
<1>1. PICK y \in 1 .. 15 : y = x /\ y % 2 = 1
  BY DEF OddWindow
<1>2. y \div 2 \in 0 .. 7 /\ y = 2 * (y \div 2) + 1
  BY <1>1
<1> QED BY <1>1, <1>2

LEMMA OddTurns == ASSUME NEW x, OddWindow(x), x < 0 PROVE OddWindow(-x) /\ -x > 0 /\ x \in Int
<1>1. PICK y \in -15 .. 15 : y = x /\ y % 2 = 1
  BY DEF OddWindow
<1>2. (-y) % 2 = 1 /\ -y \in -15 .. 15 /\ -y > 0
  BY <1>1
<1> QED BY <1>1, <1>2 DEF OddWindow

WithDigitOfA(t, A, x) ==
    IF x > 0 THEN ge_add(ge_p1p1_to_p3(t), Ai(A)[x \div 2])
    ELSE IF x < 0 THEN ge_sub(ge_p1p1_to_p3(t), Ai(A)[(-x) \div 2]) ELSE t
WithDigitOfB(u, y) ==
    IF y > 0 THEN ge_madd(ge_p1p1_to_p3(u), Bi(y \div 2))
    ELSE IF y < 0 THEN ge_msub(ge_p1p1_to_p3(u), Bi((-y) \div 2)) ELSE u

LEMMA DoubledIs ==
    ASSUME NEW r, NEW A, NEW x, NEW y
    PROVE  Doubled(r, A, x, y) = ge_p1p1_to_p2(WithDigitOfB(WithDigitOfA(ge_p2_dbl(r), A, x), y))
BY DEF Doubled, WithDigitOfA, WithDigitOfB

LEMMA DigitOfAAdds ==
    ASSUME NEW t, NEW p \in Curve, Completes(t, p), Within(t, MulIn),
           NEW A, NEW a \in Curve, Represents(A, a), Within(A, Tight), NEW x \in Int, x = 0 \/ OddWindow(x),
           NEW u, u = WithDigitOfA(t, A, x)
    PROVE  Completes(u, PointSum(p, Times(x, a))) /\ Within(u, MulIn)
<1>1. PICK r : r = ge_p1p1_to_p3(t) /\ Represents(r, p) /\ Within(r, Tight)
  BY CompletedGoesOn
<1>2. CASE x > 0
  <2>1. PICK j \in 0 .. 7 : j = x \div 2 /\ x = 2 * j + 1
    BY <1>2, OddIndex
  <2>2. PICK w : Ai(A)[j] = ge_p3_to_cached(w) /\ Represents(w, Times(2 * j + 1, a)) /\ Within(w, Tight)
    BY AiIs
  <2>3. PICK q \in Curve : q = Times(x, a)
    BY TimesStays
  <2>4. Represents(w, q)
    BY <2>1, <2>2, <2>3
  <2>5. u = ge_add(r, Ai(A)[j])
    BY <1>1, <1>2, <2>1 DEF WithDigitOfA
  <2>6. Completes(u, PointSum(p, q)) /\ Within(u, MulIn)
    BY <1>1, <2>2, <2>4, <2>5, AddOfCached, AddFits
  <2> QED BY <2>3, <2>6
<1>3. CASE x < 0
  <2>1. PICK n \in Int : n = -x /\ OddWindow(n) /\ n > 0 /\ x = -n
    BY <1>3, OddTurns
  <2>2. PICK j \in 0 .. 7 : j = n \div 2 /\ n = 2 * j + 1
    BY <2>1, OddIndex
  <2>3. PICK w : Ai(A)[j] = ge_p3_to_cached(w) /\ Represents(w, Times(2 * j + 1, a)) /\ Within(w, Tight)
    BY AiIs
  <2>4. PICK q \in Curve : q = Times(n, a)
    BY TimesStays
  <2>5. Represents(w, q)
    BY <2>2, <2>3, <2>4
  <2>6. u = ge_sub(r, Ai(A)[j])
    <3>1. ~ (x > 0)
      BY <1>3
    <3> QED BY <1>1, <1>3, <2>1, <2>2, <3>1 DEF WithDigitOfA
  <2>7. Completes(u, PointSum(p, Opposite(q))) /\ Within(u, MulIn)
    BY <1>1, <2>3, <2>5, <2>6, AddOfCached, AddFits
  <2>8. Times(x, a) = Opposite(q)
    BY <2>1, <2>4, TimesOpposite
  <2> QED BY <2>7, <2>8
<1>4. CASE x = 0
  <2>1. u = t
    BY <1>4 DEF WithDigitOfA
  <2>2. PointSum(p, Times(x, a)) = p
    BY <1>4, TimesSmall, SumWithZero
  <2> QED BY <2>1, <2>2
<1> QED BY <1>2, <1>3, <1>4

LEMMA DigitOfBAdds ==
    ASSUME NEW t, NEW p \in Curve, Completes(t, p), Within(t, MulIn), NEW y \in Int, y = 0 \/ OddWindow(y),
           NEW u, u = WithDigitOfB(t, y)
    PROVE  Completes(u, PointSum(p, Times(y, Base))) /\ Within(u, MulIn)
<1>1. PICK r : r = ge_p1p1_to_p3(t) /\ Represents(r, p) /\ Within(r, Tight)
  BY CompletedGoesOn
<1>a. Base \in Curve
  BY OrderIs
<1>2. CASE y > 0
  <2>1. PICK j \in 0 .. 7 : j = y \div 2 /\ y = 2 * j + 1
    BY <1>2, OddIndex
  <2>2. PICK q \in Curve : q = Times(y, Base)
    BY <1>a, TimesStays
  <2>3. Bi(j) = Affine(q)
    BY <2>1, <2>2, MultipleOfBaseIs DEF Bi
  <2>4. u = ge_madd(r, Bi(j))
    BY <1>1, <1>2, <2>1 DEF WithDigitOfB
  <2>5. Completes(u, PointSum(p, q)) /\ Within(u, MulIn)
    BY <1>1, <2>3, <2>4, MaddOfAffine, MaddFits
  <2> QED BY <2>2, <2>5
<1>3. CASE y < 0
  <2>1. PICK n \in Int : n = -y /\ OddWindow(n) /\ n > 0 /\ y = -n
    BY <1>3, OddTurns
  <2>2. PICK j \in 0 .. 7 : j = n \div 2 /\ n = 2 * j + 1
    BY <2>1, OddIndex
  <2>3. PICK q \in Curve : q = Times(n, Base)
    BY <1>a, TimesStays
  <2>4. Bi(j) = Affine(q)
    BY <2>1, <2>2, <2>3, MultipleOfBaseIs DEF Bi
  <2>5. u = ge_msub(r, Bi(j))
    <3>1. ~ (y > 0)
      BY <1>3
    <3> QED BY <1>1, <1>3, <2>1, <2>2, <3>1 DEF WithDigitOfB
  <2>6. Completes(u, PointSum(p, Opposite(q))) /\ Within(u, MulIn)
    BY <1>1, <2>4, <2>5, MaddOfAffine, MaddFits
  <2>7. Times(y, Base) = Opposite(q)
    BY <1>a, <2>1, <2>3, TimesOpposite
  <2> QED BY <2>6, <2>7
<1>4. CASE y = 0
  <2>1. u = t
    BY <1>4 DEF WithDigitOfB
  <2>2. PointSum(p, Times(y, Base)) = p
    BY <1>a, <1>4, TimesSmall, SumWithZero
  <2> QED BY <2>1, <2>2
<1> QED BY <1>2, <1>3, <1>4

\* A turn of the last loop, for a point that is a sum of multiples of A and of B.
LEMMA DoubledSays ==
    ASSUME NEW r, NEW A, NEW a \in Curve, Represents(A, a), Within(A, Tight),
           NEW ua \in Int, NEW ub \in Int, Projective(r, PointSum(Times(ua, a), Times(ub, Base))), Flat(r),
           NEW x \in Int, x = 0 \/ OddWindow(x), NEW y \in Int, y = 0 \/ OddWindow(y),
           NEW va \in Int, Linear(2, ua, x, va), NEW vb \in Int, Linear(2, ub, y, vb),
           NEW w, w = Doubled(r, A, x, y)
    PROVE  Projective(w, PointSum(Times(va, a), Times(vb, Base))) /\ Flat(w)
<1>1. PICK p \in Curve, q \in Curve, s \in Curve : p = Times(ua, a) /\ q = Times(ub, Base) /\ s = PointSum(p, q)
  BY OrderIs, TimesStays, SumStays
<1>2. PICK t : t = ge_p2_dbl(r)
  OBVIOUS
<1>3. PICK dbl \in Curve : dbl = PointSum(s, s) /\ Completes(t, dbl) /\ Within(t, MulIn)
  BY <1>1, <1>2, FlatDoubles
<1>4. PICK X \in Curve, Y \in Curve : X = Times(x, a) /\ Y = Times(y, Base)
  BY OrderIs, TimesStays
<1>5. PICK u : u = WithDigitOfA(t, A, x) /\ Completes(u, PointSum(dbl, X)) /\ Within(u, MulIn)
  BY <1>3, <1>4, DigitOfAAdds
<1>6. PICK n \in Curve : n = PointSum(dbl, X)
  BY SumStays
<1>7. PICK v : v = WithDigitOfB(u, y) /\ Completes(v, PointSum(n, Y)) /\ Within(v, MulIn)
  BY <1>4, <1>5, <1>6, DigitOfBAdds
<1>8. w = ge_p1p1_to_p2(v)
  BY <1>2, <1>5, <1>7, DoubledIs
<1>9. PointSum(n, Y) \in Curve
  BY SumStays
<1>10. Projective(w, PointSum(n, Y)) /\ Flat(w)
  BY <1>7, <1>8, <1>9, CompletedGoesOn
<1>11. PICK ta \in Int, tb \in Int : ta = 2 * ua /\ tb = 2 * ub /\ va = ta + x /\ vb = tb + y
  BY DEF Linear
<1>12. PICK pp \in Curve, qq \in Curve : pp = Times(ta, a) /\ qq = Times(tb, Base)
  BY OrderIs, TimesStays
<1>13. pp = PointSum(p, p) /\ qq = PointSum(q, q)
  BY <1>1, <1>11, <1>12, TimesTwo, OrderIs
<1>14. dbl = PointSum(pp, qq)
  BY <1>1, <1>3, <1>13, SumShuffles
<1>15. Times(va, a) = PointSum(pp, X) /\ Times(vb, Base) = PointSum(qq, Y)
  BY <1>4, <1>11, <1>12, TimesAdds, OrderIs
<1>16. PointSum(n, Y) = PointSum(PointSum(pp, X), PointSum(qq, Y))
  <2>1. PointSum(PointSum(pp, X), PointSum(qq, Y)) = PointSum(PointSum(pp, qq), PointSum(X, Y))
    BY SumShuffles
  <2>2. PointSum(n, Y) = PointSum(dbl, PointSum(X, Y))
    BY <1>6, SumAssociates
  <2> QED BY <1>14, <2>1, <2>2
<1> QED BY <1>10, <1>15, <1>16

-----------------------------------------------------------------------------
(* ge_scalarmult_base. *)

\* What the digits at odd places, and at even ones, up to the k-th make.
OddSum(x, k) == Weighted(OddOf(x))[k]
EvenSum(x, k) == 16 * Weighted(OddOf(x))[32] + Weighted(EvenOf(x))[k]

LEMMA PartialSums ==
    ASSUME NEW x \in DigitsOf(64)
    PROVE  /\ OddSum(x, 0) = 0 /\ EvenSum(x, 0) = 16 * OddSum(x, 32)
           /\ \A k \in 0 .. 32 : OddSum(x, k) \in Int /\ EvenSum(x, k) \in Int
<1>1. PICK o \in [Nat -> Int], g \in [Nat -> Int] :
          o = Weighted(OddOf(x)) /\ g = Weighted(EvenOf(x)) /\ o[0] = 0 /\ g[0] = 0
  BY HalvesAre, WeightedIs DEF IsWeighted
<1>2. \A k \in 0 .. 32 : k \in Nat
  OBVIOUS
<1>3. 32 \in 0 .. 32 /\ 0 \in 0 .. 32
  OBVIOUS
<1>4. \A k \in 0 .. 32 : o[k] \in Int /\ g[k] \in Int
  BY <1>2
<1>5. 16 * o[32] + g[0] = 16 * o[32]
  BY <1>1, <1>3, <1>4
<1> QED BY <1>1, <1>3, <1>4, <1>5 DEF OddSum, EvenSum

LEMMA PartialSumsGoOn ==
    ASSUME NEW x \in DigitsOf(64), NEW k \in Digit256
    PROVE  /\ OddSum(x, k + 1) = OddSum(x, k) + x[2 * k + 1] * Powers[k]
           /\ EvenSum(x, k + 1) = EvenSum(x, k) + x[2 * k] * Powers[k]
           /\ x[2 * k] \in Int /\ x[2 * k + 1] \in Int /\ Powers[k] \in Int
<1>1. PICK a \in [Digit256 -> Int], b \in [Digit256 -> Int] : a = OddOf(x) /\ b = EvenOf(x)
  BY HalvesAre
<1>2. PICK o, g : o = Weighted(a) /\ g = Weighted(b) /\ IsWeighted(o, a) /\ IsWeighted(g, b)
  BY WeightedIs
<1>3. /\ o \in [Nat -> Int] /\ g \in [Nat -> Int]
      /\ o[k + 1] = o[k] + a[k] * Powers[k] /\ g[k + 1] = g[k] + b[k] * Powers[k]
  BY <1>2 DEF IsWeighted
<1>4. a[k] = x[2 * k + 1] /\ b[k] = x[2 * k]
  BY <1>1, HalvesAre
<1>5. k \in Nat /\ 32 \in Nat
  BY DEF Digit256
<1>6. Powers[k] \in Int
  BY <1>5, PowersAre DEF IsPower
<1>7. a[k] \in Int /\ b[k] \in Int
  BY <1>1
<1>8. PICK u \in Int, g0 \in Int, g1 \in Int, w \in Int : u = 16 * o[32] /\ g0 = g[k] /\ g1 = g[k + 1] /\ w = b[k] * Powers[k]
  BY <1>3, <1>5, <1>6, <1>7
<1>9. u + g1 = u + g0 + w
  BY <1>3, <1>8
<1> QED BY <1>1, <1>2, <1>3, <1>4, <1>6, <1>7, <1>8, <1>9 DEF OddSum, EvenSum

LEMMA PartialSumsEnd ==
    ASSUME NEW s \in Scalars, NEW x \in DigitsOf(64), Carried(NibblesOf(s), x, 16, 64)
    PROVE  EvenSum(x, 32) = ValueOf(s)[32]
BY DigitsMakeValue DEF EvenSum

\* What h is in each loop: the multiple of B that the digits added so far make.
BaseSums ==
    /\ e \in DigitsOf(64) /\ Carried(NibblesOf(task.a), e, 16, 64)
    /\ Within(h, Tight)
    /\ loop = "recode" => h = ge_p3_0
    /\ loop = "odd" => \E k \in Digit256 : i = 2 * k + 1 /\ Represents(h, Times(OddSum(e, k), Base))
    /\ loop = "times_16" => Represents(h, Times(OddSum(e, 32), Base))
    /\ loop = "even" => \E k \in Digit256 : i = 2 * k /\ Represents(h, Times(EvenSum(e, k), Base))
    /\ loop = "done" => Represents(h, Times(ValueOf(task.a)[32], Base))

LEMMA TaskIs ==
    ASSUME NEW t \in Tasks PROVE t.a \in Scalars /\ t.b \in Scalars /\ t.A \in Curve /\ t.what \in {"base", "double"}
<1>1. t.a \in [1 .. 32 -> 0 .. 255] /\ t.b \in [1 .. 32 -> 0 .. 255]
  BY TasksAssumption, Zenon
<1>2. t.A \in Curve /\ t.what \in {"base", "double"}
  BY TasksAssumption, Zenon
<1> QED BY <1>1, <1>2, Zenon DEF Scalars

LEMMA BaseSumsBegin == ASSUME MInit, task.what = "base" PROVE BaseSums
<1>1. task.a \in Scalars
  BY TaskIs DEF MInit
<1>2. loop = "recode" /\ e = NibblesOf(task.a) /\ h = ge_p3_0
  BY DEF MInit, NibblesOf
<1>3. e \in DigitsOf(64) /\ Carried(NibblesOf(task.a), e, 16, 64)
  BY <1>1, <1>2, NibblesAre, CarriedItself
<1>4. Within(h, Tight)
  BY <1>2, MadeIsTight
<1> QED BY <1>2, <1>3, <1>4 DEF BaseSums

\* A digit of one of the two loops is added.
LEMMA DigitOfSum ==
    ASSUME NEW r, NEW g \in Int, Represents(r, Times(g, Base)), Within(r, Tight),
           NEW k \in Digit256, NEW b \in -8 .. 8, NEW n \in Int, n = g + b * Powers[k], NEW j, j = 2 * k \/ j = 2 * k + 1,
           NEW u, u = ge_p1p1_to_p3(ge_madd(r, select(j \div 2, b)))
    PROVE  Represents(u, Times(n, Base)) /\ Within(u, Tight)
<1>1. k \in Nat
  BY DEF Digit256
<1>2. (2 * k) \div 2 = k /\ (2 * k + 1) \div 2 = k
  BY <1>1
<1>3. j \div 2 = k
  BY <1>2
<1> QED BY <1>1, <1>3, DigitAdded

LEMMA RecodeSums == ASSUME task \in Tasks, BaseSums, BaseDigits, Recode PROVE BaseSums'
<1>1. /\ loop = "recode" /\ i \in 0 .. 62 /\ e' = Recoded(e, i) /\ h' = h /\ task' = task
      /\ Turn(62, 1, "odd", 1)
  BY DEF Recode, BaseDigits
<1>2. /\ e \in DigitsOf(64) /\ Carried(NibblesOf(task.a), e, 16, 64) /\ Within(h, Tight)
      /\ h = ge_p3_0
  BY <1>1 DEF BaseSums
<1>3. e' \in DigitsOf(64) /\ Carried(e, e', 16, 64)
  BY <1>1, <1>2, RecodedCarries
<1>4. task.a \in Scalars
  BY TaskIs
<1>5. PICK n \in DigitsOf(64) : n = NibblesOf(task.a)
  BY <1>4, NibblesAre
<1>6. 64 \in Nat /\ 16 \in Int
  OBVIOUS
<1>7. Carried(NibblesOf(task.a), e', 16, 64)
  BY <1>2, <1>3, <1>5, <1>6, CarriedOn
<1>8. CASE i = 62
  <2>1. loop' = "odd" /\ i' = 1
    BY <1>1, <1>8 DEF Turn
  <2>2. PICK x : x = e' /\ x \in DigitsOf(64)
    BY <1>3
  <2>3. OddSum(x, 0) = 0
    BY <2>2, PartialSums
  <2>4. Represents(h, Times(OddSum(x, 0), Base))
    BY <1>2, <2>3, ResetSays, TimesSmall, OrderIs
  <2>5. 0 \in Digit256 /\ 1 = 2 * 0 + 1
    BY DEF Digit256
  <2>6. \E k \in Digit256 : i' = 2 * k + 1 /\ Represents(h', Times(OddSum(e', k), Base))
    BY <1>1, <2>1, <2>2, <2>4, <2>5
  <2> QED BY <1>1, <1>2, <1>3, <1>7, <2>1, <2>6 DEF BaseSums
<1>9. CASE i # 62
  <2>1. loop' = "recode"
    BY <1>1, <1>9 DEF Turn
  <2> QED BY <1>1, <1>2, <1>3, <1>7, <2>1 DEF BaseSums
<1> QED BY <1>8, <1>9

LEMMA OddSums == ASSUME task \in Tasks, BaseSums, BaseDigits, AddOdd PROVE BaseSums'
<1>1. /\ loop = "odd" /\ e' = e /\ task' = task /\ Turn(63, 2, "times_16", 0)
      /\ h' = ge_p1p1_to_p3(ge_madd(h, select(i \div 2, e[i])))
  BY DEF AddOdd, AddDigit
<1>2. /\ e \in DigitsOf(64) /\ Carried(NibblesOf(task.a), e, 16, 64) /\ Within(h, Tight)
  BY DEF BaseSums
<1>3. PICK k \in Digit256 : i = 2 * k + 1 /\ Represents(h, Times(OddSum(e, k), Base))
  BY <1>1 DEF BaseSums
<1>4. i \in Digit16 /\ i \in Int /\ k \in 0 .. 32 /\ k + 1 \in 0 .. 32 /\ k \in Int
  BY <1>3 DEF Digit256, Digit16
<1>5. e[i] \in -8 .. 8
  BY <1>1, <1>4 DEF BaseDigits
<1>6. PICK g \in Int, n \in Int, b \in -8 .. 8 : g = OddSum(e, k) /\ n = OddSum(e, k + 1) /\ b = e[i]
  BY <1>2, <1>4, <1>5, PartialSums
<1>7. n = g + b * Powers[k]
  BY <1>2, <1>3, <1>6, PartialSumsGoOn
<1>8. Represents(h', Times(n, Base)) /\ Within(h', Tight)
  BY <1>1, <1>2, <1>3, <1>6, <1>7, DigitOfSum
<1>9. CASE i = 63
  <2>1. loop' = "times_16" /\ k + 1 = 32
    BY <1>1, <1>3, <1>4, <1>9 DEF Turn
  <2> QED BY <1>1, <1>2, <1>6, <1>8, <2>1 DEF BaseSums
<1>10. CASE i # 63
  <2>1. loop' = "odd" /\ i' = i + 2
    BY <1>1, <1>10 DEF Turn
  <2>2. PICK j \in Digit256 : j = k + 1 /\ i' = 2 * j + 1
    BY <1>3, <1>4, <1>10, <2>1 DEF Digit256
  <2> QED BY <1>1, <1>2, <1>6, <1>8, <2>1, <2>2 DEF BaseSums
<1> QED BY <1>9, <1>10

LEMMA SixteenSums == ASSUME task \in Tasks, BaseSums, TimesSixteen PROVE BaseSums'
<1>1. loop = "times_16" /\ loop' = "even" /\ i' = 0 /\ e' = e /\ task' = task
  BY DEF TimesSixteen
<1>2. /\ e \in DigitsOf(64) /\ Carried(NibblesOf(task.a), e, 16, 64) /\ Within(h, Tight)
      /\ Represents(h, Times(OddSum(e, 32), Base))
  BY <1>1 DEF BaseSums
<1>3. 32 \in 0 .. 32 /\ 0 \in 0 .. 32
  OBVIOUS
<1>4. PICK g \in Int, n \in Int : g = OddSum(e, 32) /\ n = EvenSum(e, 0) /\ n = 16 * g
  BY <1>2, <1>3, PartialSums
<1>5. Represents(h', Times(n, Base)) /\ Within(h', Tight)
  BY <1>2, <1>4, SixteenTimes DEF TimesSixteen
<1>6. 0 \in Digit256 /\ 0 = 2 * 0
  BY DEF Digit256
<1>7. \E k \in Digit256 : i' = 2 * k /\ Represents(h', Times(EvenSum(e', k), Base))
  BY <1>1, <1>4, <1>5, <1>6
<1> QED BY <1>1, <1>2, <1>5, <1>7 DEF BaseSums

LEMMA EvenSums == ASSUME task \in Tasks, BaseSums, BaseDigits, AddEven PROVE BaseSums'
<1>1. /\ loop = "even" /\ e' = e /\ task' = task /\ Turn(62, 2, "done", 0)
      /\ h' = ge_p1p1_to_p3(ge_madd(h, select(i \div 2, e[i])))
  BY DEF AddEven, AddDigit
<1>2. /\ e \in DigitsOf(64) /\ Carried(NibblesOf(task.a), e, 16, 64) /\ Within(h, Tight)
  BY DEF BaseSums
<1>3. PICK k \in Digit256 : i = 2 * k /\ Represents(h, Times(EvenSum(e, k), Base))
  BY <1>1 DEF BaseSums
<1>4. i \in Digit16 /\ i \in Int /\ k \in 0 .. 32 /\ k + 1 \in 0 .. 32 /\ k \in Int
  BY <1>3 DEF Digit256, Digit16
<1>5. e[i] \in -8 .. 8
  BY <1>1, <1>4 DEF BaseDigits
<1>6. PICK g \in Int, n \in Int, b \in -8 .. 8 : g = EvenSum(e, k) /\ n = EvenSum(e, k + 1) /\ b = e[i]
  BY <1>2, <1>4, <1>5, PartialSums
<1>7. n = g + b * Powers[k]
  BY <1>2, <1>3, <1>6, PartialSumsGoOn
<1>8. Represents(h', Times(n, Base)) /\ Within(h', Tight)
  BY <1>1, <1>2, <1>3, <1>6, <1>7, DigitOfSum
<1>9. CASE i = 62
  <2>1. loop' = "done" /\ k + 1 = 32
    BY <1>1, <1>3, <1>4, <1>9 DEF Turn
  <2>2. task.a \in Scalars
    BY TaskIs
  <2>3. EvenSum(e, 32) = ValueOf(task.a)[32]
    BY <1>2, <2>2, PartialSumsEnd
  <2> QED BY <1>1, <1>2, <1>6, <1>8, <2>1, <2>3 DEF BaseSums
<1>10. CASE i # 62
  <2>1. loop' = "even" /\ i' = i + 2
    BY <1>1, <1>10 DEF Turn
  <2>2. PICK j \in Digit256 : j = k + 1 /\ i' = 2 * j
    BY <1>3, <1>4, <1>10, <2>1 DEF Digit256
  <2> QED BY <1>1, <1>2, <1>6, <1>8, <2>1, <2>2 DEF BaseSums
<1> QED BY <1>9, <1>10

LEMMA BaseSumsGoOn ==
    ASSUME task \in Tasks, BaseSums, BaseDigits, [MNext]_mvars
    PROVE  BaseSums'
<1>1. CASE SlideA \/ SlideB \/ SkipZeros \/ DoubleAndAdd
  BY <1>1 DEF BaseDigits, SlideA, SlideB, SkipZeros, DoubleAndAdd
<1>2. CASE UNCHANGED mvars
  BY <1>2 DEF BaseSums, mvars
<1> QED BY <1>1, <1>2, RecodeSums, OddSums, SixteenSums, EvenSums DEF MNext

-----------------------------------------------------------------------------
(* ge_double_scalarmult_vartime. *)

\* What the k highest digits make.
Made(x, k) == Horner(2, 256, x)[k]

LEMMA MadeGoesOn ==
    ASSUME NEW x \in Bits256, NEW k \in Bit
    PROVE  /\ Made(x, 0) = 0 /\ Made(x, k) \in Int /\ Made(x, k + 1) \in Int
           /\ Made(x, k + 1) = 2 * Made(x, k) + x[255 - k]
<1>1. 256 \in Nat /\ 2 \in Int
  OBVIOUS
<1>2. PICK u : u = Horner(2, 256, x) /\ IsHorner(u, 2, 256, x)
  BY <1>1, HornerIs DEF Bits256
<1>3. k \in 0 .. 256 - 1 /\ k \in Nat /\ k + 1 \in Nat /\ 256 - 1 - k = 255 - k
  BY DEF Bit
<1>4. u \in [Nat -> Int] /\ u[0] = 0 /\ u[k + 1] = 2 * u[k] + x[256 - 1 - k]
  BY <1>2, <1>3 DEF IsHorner
<1> QED BY <1>2, <1>3, <1>4 DEF Made

\* Zeros above j add nothing.
LEMMA LeadingZeros ==
    ASSUME NEW x \in Bits256, NEW j \in -1 .. 255, \A n \in Bit : n > j => x[n] = 0
    PROVE  Made(x, 255 - j) = 0
<1> DEFINE Good == {k \in Nat : Made(x, k) = 0}
<1>1. 0 \in Good
  <2>1. 0 \in Bit
    BY DEF Bit
  <2> QED BY <2>1, MadeGoesOn
<1>2. PICK n \in Nat : n = 255 - j
  OBVIOUS
<1>3. ASSUME NEW k \in 0 .. n - 1, k \in Good PROVE k + 1 \in Good
  <2>1. k \in Bit /\ 255 - k \in Bit /\ 255 - k > j /\ k + 1 \in Nat
    BY <1>2 DEF Bit
  <2>2. x[255 - k] = 0 /\ Made(x, k) = 0
    BY <1>3, <2>1
  <2>3. Made(x, k + 1) = 2 * Made(x, k) + x[255 - k]
    BY <2>1, MadeGoesOn
  <2>4. Made(x, k + 1) = 0
    BY <2>2, <2>3
  <2> QED BY <2>1, <2>4
<1>4. Good \in SUBSET Nat
  OBVIOUS
<1>5. n \in 0 .. n
  OBVIOUS
<1> HIDE DEF Good
<1>6. n \in Good
  BY <1>1, <1>3, <1>4, <1>5, UpTo
<1> QED BY <1>2, <1>6 DEF Good

LEMMA GreatestIs ==
    ASSUME NEW S \in SUBSET Bit, S # {} PROVE \E j \in S : \A k \in S : k <= j
<1> DEFINE T == {n \in Bit : 255 - n \in S}
<1>1. T \in SUBSET Nat
  BY DEF Bit
<1>2. T # {}
  <2>1. PICK j \in S : j \in Bit
    OBVIOUS
  <2>2. PICK n \in Bit : n = 255 - j /\ 255 - n = j
    BY <2>1 DEF Bit
  <2> QED BY <2>1, <2>2
<1>3. PICK n \in T : \A k \in T : n <= k
  BY <1>1, <1>2, LeastIs
<1>4. 255 - n \in S /\ n \in Bit
  BY <1>3
<1>5. ASSUME NEW k \in S PROVE k <= 255 - n
  <2>1. k \in Bit
    BY <1>5
  <2>2. PICK l \in Bit : l = 255 - k /\ 255 - l = k
    BY <2>1 DEF Bit
  <2>3. l \in T
    BY <2>2
  <2>4. n <= l
    BY <1>3, <2>3
  <2> QED BY <1>4, <2>1, <2>2, <2>4 DEF Bit
<1> QED BY <1>4, <1>5

LEMMA NoTopBit ==
    ASSUME NEW s \in Scalars, Below255(s) PROVE Room(BitsOf(s), 0)
<1>1. 255 \in Bit /\ 255 \div 8 + 1 = 32 /\ 255 % 8 = 7 /\ 2 ^ 7 = 128
  BY DEF Bit
<1>2. BitOf(s, 255) = (s[32] \div 128) % 2
  BY <1>1 DEF BitOf
<1>3. PICK x \in 0 .. 127 : x = s[32]
  BY DEF Scalars, Below255
<1>4. (x \div 128) % 2 = 0
  OBVIOUS
<1>5. BitsOf(s)[255] = 0
  BY <1>1, <1>2, <1>3, <1>4 DEF BitsOf
<1> QED BY <1>5 DEF Room

\* r is what the k highest digits of both scalars make.
Reached(r, A, x, y, k) ==
    Projective(r, PointSum(Times(Made(x, k), A), Times(Made(y, k), Base))) /\ Flat(r)

SameBits(s, x) == Carried(BitsOf(s), x, 2, 256)

\* What the digits and h are in each loop.
DoubleSums ==
    /\ loop = "slide_a" => /\ f = BitsOf(task.b)
                           /\ Below255(task.a) => SameBits(task.a, e) /\ Room(e, i)
    /\ loop = "slide_b" => /\ Below255(task.a) => SameBits(task.a, e)
                           /\ Below255(task.b) => SameBits(task.b, f) /\ Room(f, i)
    /\ loop \in {"leading", "double", "done"} => /\ Below255(task.a) => SameBits(task.a, e)
                                                 /\ Below255(task.b) => SameBits(task.b, f)
    /\ loop \in {"slide_a", "slide_b", "leading"} => h = ge_p2_0
    /\ loop = "double" => i \in Bit /\ Reached(h, task.A, e, f, 255 - i)
    /\ loop = "done" => Reached(h, task.A, e, f, 256)

LEMMA DoubleSumsBegin == ASSUME MInit, task.what = "double" PROVE DoubleSums
<1>1. task.a \in Scalars /\ i = 0
  BY TaskIs DEF MInit
<1>2. loop = "slide_a" /\ e = BitsOf(task.a) /\ f = BitsOf(task.b) /\ h = ge_p2_0
  BY DEF MInit, BitsOf
<1>3. 256 \in Nat /\ 2 \in Int
  OBVIOUS
<1>4. SameBits(task.a, e)
  BY <1>1, <1>2, <1>3, BitsAre, CarriedItself DEF SameBits, Bits256
<1>5. Below255(task.a) => Room(e, i)
  BY <1>1, <1>2, NoTopBit
<1> QED BY <1>2, <1>4, <1>5 DEF DoubleSums

LEMMA SlidKeeps ==
    ASSUME NEW s \in Scalars, NEW r, NEW j \in Bit, Slidden(r, j), SameBits(s, r), Room(r, j)
    PROVE  SameBits(s, Slid(r, j)) /\ Room(Slid(r, j), j + 1)
<1>1. PICK q : q = Slid(r, j) /\ r \in Bits256 /\ q \in Bits256 /\ Carried(r, q, 2, 256) /\ Room(q, j + 1)
  BY SlideCarries
<1>2. 256 \in Nat /\ 2 \in Int
  OBVIOUS
<1>3. PICK b \in Bits256 : b = BitsOf(s)
  BY BitsAre
<1>4. Carried(b, q, 2, 256)
  BY <1>1, <1>2, <1>3, CarriedOn DEF Bits256, SameBits
<1> QED BY <1>1, <1>3, <1>4 DEF SameBits

LEMMA SlideASums == ASSUME task \in Tasks, DoubleSums, DoubleDigits, SlideA PROVE DoubleSums'
<1>1. /\ loop = "slide_a" /\ i \in Bit /\ Slidden(e, i) /\ e' = Slid(e, i) /\ f' = f /\ h' = h /\ task' = task
      /\ Turn(255, 1, "slide_b", 0)
  BY DEF SlideA, DoubleDigits
<1>2. /\ f = BitsOf(task.b) /\ h = ge_p2_0
      /\ Below255(task.a) => SameBits(task.a, e) /\ Room(e, i)
  BY <1>1 DEF DoubleSums
<1>3. task.a \in Scalars /\ task.b \in Scalars
  BY TaskIs
<1>4. Below255(task.a) => SameBits(task.a, e') /\ Room(e', i + 1)
  BY <1>1, <1>2, <1>3, SlidKeeps
<1>5. CASE i = 255
  <2>1. loop' = "slide_b" /\ i' = 0
    BY <1>1, <1>5 DEF Turn
  <2>2. 256 \in Nat /\ 2 \in Int
    OBVIOUS
  <2>3. SameBits(task.b, f)
    BY <1>2, <1>3, <2>2, BitsAre, CarriedItself DEF SameBits, Bits256
  <2>4. Below255(task.b) => Room(f, 0)
    BY <1>2, <1>3, NoTopBit
  <2> QED BY <1>1, <1>2, <1>4, <2>1, <2>3, <2>4 DEF DoubleSums
<1>6. CASE i # 255
  <2>1. loop' = "slide_a" /\ i' = i + 1
    BY <1>1, <1>6 DEF Turn
  <2> QED BY <1>1, <1>2, <1>4, <2>1 DEF DoubleSums
<1> QED BY <1>5, <1>6

LEMMA SlideBSums == ASSUME task \in Tasks, DoubleSums, DoubleDigits, SlideB PROVE DoubleSums'
<1>1. /\ loop = "slide_b" /\ i \in Bit /\ Slidden(f, i) /\ f' = Slid(f, i) /\ e' = e /\ h' = h /\ task' = task
      /\ Turn(255, 1, "leading", 255)
  BY DEF SlideB, DoubleDigits
<1>2. /\ h = ge_p2_0
      /\ Below255(task.a) => SameBits(task.a, e)
      /\ Below255(task.b) => SameBits(task.b, f) /\ Room(f, i)
  BY <1>1 DEF DoubleSums
<1>3. task.b \in Scalars
  BY TaskIs
<1>4. Below255(task.b) => SameBits(task.b, f') /\ Room(f', i + 1)
  BY <1>1, <1>2, <1>3, SlidKeeps
<1>5. CASE i = 255
  <2>1. loop' = "leading"
    BY <1>1, <1>5 DEF Turn
  <2> QED BY <1>1, <1>2, <1>4, <2>1 DEF DoubleSums
<1>6. CASE i # 255
  <2>1. loop' = "slide_b" /\ i' = i + 1
    BY <1>1, <1>6 DEF Turn
  <2> QED BY <1>1, <1>2, <1>4, <2>1 DEF DoubleSums
<1> QED BY <1>5, <1>6

\* r is ge_p2_0 and nothing is made yet.
LEMMA NothingReached ==
    ASSUME NEW A \in Curve, NEW x, NEW y, NEW k, Made(x, k) = 0, Made(y, k) = 0
    PROVE  Reached(ge_p2_0, A, x, y, k)
<1>1. Times(0, A) = Zero /\ Times(0, Base) = Zero /\ PointSum(Zero, Zero) = Zero /\ Zero[1] = 0 /\ Zero[2] = 1
  BY OrderIs, TimesSmall, ZeroIsOnCurve, SumWithZero
<1>2. PICK r : r = ge_p2_0 /\ r.X = fe_0 /\ r.Y = fe_1 /\ r.Z = fe_1
  <2>1. ge_p2_0.X = fe_0 /\ ge_p2_0.Y = fe_1 /\ ge_p2_0.Z = fe_1
    BY DEF ge_p2_0, ge_p2
  <2> QED BY <2>1
<1>3. Projective(r, Zero)
  <2>1. ~ (1 \cong 0) /\ Worth(r.Z, 1) /\ Worth(r.X, 0 * 1) /\ Worth(r.Y, 1 * 1)
    BY <1>2, TwoIsSome, WorthOfOne
  <2> QED BY <1>1, <2>1 DEF Projective
<1>4. Flat(r)
  BY <1>2, BoundOf DEF Flat, fe_0, fe_1, Tight
<1> QED BY <1>1, <1>2, <1>3, <1>4 DEF Reached

LEMMA SkippedSums == ASSUME task \in Tasks, DoubleSums, DoubleDigits, SkipZeros PROVE DoubleSums'
<1>1. /\ loop = "leading" /\ e' = e /\ f' = f /\ h' = h /\ task' = task /\ Slidden(e, 256) /\ Slidden(f, 256)
  BY DEF SkipZeros, DoubleDigits
<1>2. /\ h = ge_p2_0
      /\ Below255(task.a) => SameBits(task.a, e)
      /\ Below255(task.b) => SameBits(task.b, f)
  BY <1>1 DEF DoubleSums
<1>3. e \in Bits256 /\ f \in Bits256 /\ task.A \in Curve
  BY <1>1, Bits256Are, TaskIs DEF Slidden
<1>4. PICK digits \in SUBSET Bit : digits = {j \in Bit : e[j] # 0 \/ f[j] # 0}
  OBVIOUS
<1>5. CASE digits = {}
  <2>1. loop' = "done"
    BY <1>4, <1>5 DEF SkipZeros
  <2>2. \A n \in Bit : e[n] = 0 /\ f[n] = 0
    BY <1>4, <1>5
  <2>3. -1 \in -1 .. 255 /\ 255 - (-1) = 256
    OBVIOUS
  <2>4. Made(e, 256) = 0 /\ Made(f, 256) = 0
    BY <1>3, <2>2, <2>3, LeadingZeros
  <2>5. Reached(h, task.A, e, f, 256)
    BY <1>2, <1>3, <2>4, NothingReached
  <2> QED BY <1>1, <1>2, <2>1, <2>5 DEF DoubleSums
<1>6. CASE digits # {}
  <2>1. loop' = "double" /\ i' = CHOOSE j \in digits : \A k \in digits : k <= j
    BY <1>4, <1>6 DEF SkipZeros
  <2>2. i' \in digits /\ \A k \in digits : k <= i'
    BY <1>6, <2>1, GreatestIs
  <2>3. PICK j \in -1 .. 255 : j = i'
    BY <2>2 DEF Bit
  <2>4. ASSUME NEW n \in Bit, n > j PROVE e[n] = 0 /\ f[n] = 0
    <3>1. ~ (n <= j)
      BY <2>4 DEF Bit
    <3>2. n \notin digits
      BY <2>2, <2>3, <3>1
    <3> QED BY <1>4, <3>2
  <2>5. Made(e, 255 - j) = 0 /\ Made(f, 255 - j) = 0
    BY <1>3, <2>4, LeadingZeros
  <2>6. Reached(h, task.A, e, f, 255 - j)
    BY <1>2, <1>3, <2>5, NothingReached
  <2> QED BY <1>1, <1>2, <2>1, <2>2, <2>3, <2>6 DEF DoubleSums
<1> QED BY <1>5, <1>6

LEMMA DoubledSums == ASSUME task \in Tasks, DoubleSums, DoubleDigits, DoubleAndAdd PROVE DoubleSums'
<1>1. /\ loop = "double" /\ e' = e /\ f' = f /\ task' = task /\ Slidden(e, 256) /\ Slidden(f, 256)
      /\ h' = Doubled(h, Extended(task.A, 1), e[i], f[i]) /\ Turn(0, -1, "done", 0)
  BY DEF DoubleAndAdd, DoubleDigits
<1>2. /\ i \in Bit /\ Reached(h, task.A, e, f, 255 - i)
      /\ Below255(task.a) => SameBits(task.a, e)
      /\ Below255(task.b) => SameBits(task.b, f)
  BY <1>1 DEF DoubleSums
<1>3. e \in Bits256 /\ f \in Bits256 /\ task.A \in Curve
  BY <1>1, Bits256Are, TaskIs DEF Slidden
<1>4. PICK A : A = Extended(task.A, 1) /\ Represents(A, task.A) /\ Within(A, Tight)
  <2>1. 1 \in 1 .. Q - 1
    BY QIsOdd
  <2> QED BY <1>3, <2>1, ExtendedSays, MadeIsTight
<1>5. PICK x \in Int, y \in Int : x = e[i] /\ y = f[i] /\ (x = 0 \/ OddWindow(x)) /\ (y = 0 \/ OddWindow(y))
  <2>1. i < 256
    BY <1>2 DEF Bit
  <2> QED BY <1>1, <1>2, <2>1 DEF Slidden
<1>6. PICK k \in Bit : k = 255 - i /\ 255 - k = i /\ k + 1 = 256 - i
  BY <1>2 DEF Bit
<1>7. PICK ua \in Int, ub \in Int, va \in Int, vb \in Int :
          /\ ua = Made(e, k) /\ ub = Made(f, k) /\ va = Made(e, k + 1) /\ vb = Made(f, k + 1)
          /\ va = 2 * ua + x /\ vb = 2 * ub + y
  <2>1. ASSUME NEW g \in Bits256
        PROVE  Made(g, k) \in Int /\ Made(g, k + 1) \in Int /\ Made(g, k + 1) = 2 * Made(g, k) + g[i]
    BY <1>6, MadeGoesOn
  <2>2. Made(e, k) \in Int /\ Made(e, k + 1) \in Int /\ Made(e, k + 1) = 2 * Made(e, k) + x
    BY <1>3, <1>5, <2>1
  <2>3. Made(f, k) \in Int /\ Made(f, k + 1) \in Int /\ Made(f, k + 1) = 2 * Made(f, k) + y
    BY <1>3, <1>5, <2>1
  <2> QED BY <2>2, <2>3
<1>8. Projective(h, PointSum(Times(ua, task.A), Times(ub, Base))) /\ Flat(h)
  BY <1>2, <1>6, <1>7 DEF Reached
<1>9. PICK w : w = Doubled(h, A, x, y)
  OBVIOUS
<1>10. Projective(w, PointSum(Times(va, task.A), Times(vb, Base))) /\ Flat(w)
  <2>1. Linear(2, ua, x, va) /\ Linear(2, ub, y, vb)
    BY <1>7 DEF Linear
  <2> QED BY <1>3, <1>4, <1>5, <1>8, <1>9, <2>1, DoubledSays
<1>11. h' = w
  BY <1>1, <1>4, <1>5, <1>9
<1>12. Reached(h', task.A, e, f, k + 1)
  BY <1>7, <1>10, <1>11 DEF Reached
<1>13. CASE i = 0
  <2>1. loop' = "done" /\ k + 1 = 256
    BY <1>1, <1>6, <1>13 DEF Turn
  <2> QED BY <1>1, <1>2, <1>12, <2>1 DEF DoubleSums
<1>14. CASE i # 0
  <2>1. loop' = "double" /\ i' = i + -1
    BY <1>1, <1>14 DEF Turn
  <2>2. i' \in Bit /\ 255 - i' = k + 1
    BY <1>2, <1>6, <1>14, <2>1 DEF Bit
  <2> QED BY <1>1, <1>2, <1>12, <2>1, <2>2 DEF DoubleSums
<1> QED BY <1>13, <1>14

LEMMA DoubleSumsGoOn ==
    ASSUME task \in Tasks, DoubleSums, DoubleDigits, [MNext]_mvars
    PROVE  DoubleSums'
<1>1. CASE Recode \/ AddOdd \/ AddEven \/ TimesSixteen
  BY <1>1 DEF DoubleDigits, Recode, AddOdd, AddEven, TimesSixteen
<1>2. CASE UNCHANGED mvars
  BY <1>2 DEF DoubleSums, mvars
<1> QED BY <1>1, <1>2, SlideASums, SlideBSums, SkippedSums, DoubledSums DEF MNext

-----------------------------------------------------------------------------
(* What is returned. *)

LEMMA ProjectiveMeans ==
    ASSUME NEW r, NEW s \in Curve, Projective(r, s)
    PROVE  r.Z.v # 0 /\ r.X.v = (s[1] * r.Z.v) % Q /\ r.Y.v = (s[2] * r.Z.v) % Q
<1>1. PICK x \in Int, y \in Int : s[1] = x /\ s[2] = y
  BY CurvePoint
<1>2. PICK z \in Int : ~ (z \cong 0) /\ Worth(r.Z, z) /\ Worth(r.X, s[1] * z) /\ Worth(r.Y, s[2] * z)
  BY DEF Projective
<1>3. PICK n \in Int : n = x * y * z
  OBVIOUS
<1>4. PICK T : Worth(T, n)
  BY WorthElement
<1>5. PICK t : t = [X |-> r.X, Y |-> r.Y, Z |-> r.Z, T |-> T]
  OBVIOUS
<1>6. t.X = r.X /\ t.Y = r.Y /\ t.Z = r.Z /\ t.T = T
  BY <1>5
<1>7. n = s[1] * s[2] * z
  BY <1>1, <1>3
<1>8. Represents(t, s)
  BY <1>2, <1>4, <1>6, <1>7 DEF Represents
<1> QED BY <1>6, <1>8, RepresentsMeans

LEMMA ValueTimes ==
    ASSUME NEW s \in Scalars, NEW p \in Curve
    PROVE  /\ Times(ValueOf(s)[32], p) = Multiple(Residue(s), p)
           /\ MultipleOfBase[Residue(s)] = Multiple(Residue(s), Base)
<1>1. PICK n \in 0 .. Order - 1 : n = Residue(s) /\ Meets(n, ValueOf(s)[32])
  BY ResidueIs
<1>2. n \in Int /\ n \in Nat
  BY OrderIs
<1>3. PICK v \in Int : v = ValueOf(s)[32]
  BY ValueIs
<1>4. Times(v, p) = Times(n, p)
  BY <1>1, <1>2, <1>3, MeetsTimes
<1>5. Times(n, p) = Multiple(n, p)
  BY <1>2, TimesOfNat
<1>6. MultipleOfBase[n] = Multiple(n, Base)
  BY <1>1 DEF MultipleOfBase
<1> QED BY <1>1, <1>3, <1>4, <1>5, <1>6

MultInv ==
    /\ DigitInv
    /\ task.what = "base" => BaseSums
    /\ task.what = "double" => DoubleSums

LEMMA MultBegins == MInit => MultInv
BY DigitsBegin, BaseSumsBegin, DoubleSumsBegin DEF MultInv

LEMMA MultGoesOn == MultInv /\ [MNext]_mvars => MultInv'
<1> SUFFICES ASSUME MultInv, [MNext]_mvars PROVE MultInv'
  OBVIOUS
<1>1. DigitInv /\ DigitInv' /\ task \in Tasks
  BY DigitsGoOn DEF MultInv, DigitInv
<1>2. task' = task
  BY DEF MNext, mvars, Recode, AddOdd, AddEven, AddDigit, TimesSixteen, SlideA, SlideB,
         SkipZeros, DoubleAndAdd
<1>3. task.what = "base" => BaseSums'
  BY <1>1, BaseSumsGoOn DEF MultInv, DigitInv
<1>4. task.what = "double" => DoubleSums'
  BY <1>1, DoubleSumsGoOn DEF MultInv, DigitInv
<1> QED BY <1>1, <1>2, <1>3, <1>4 DEF MultInv

LEMMA DigitsKeep == MultInv => DigitsKeepScalar
<1> SUFFICES ASSUME MultInv PROVE DigitsKeepScalar
  OBVIOUS
<1>1. task \in Tasks /\ DigitInv
  BY DEF MultInv, DigitInv
<1>2. task.a \in Scalars /\ task.b \in Scalars /\ task.what \in {"base", "double"}
  BY <1>1, TaskIs
<1>3. ASSUME loop = "odd" PROVE SameNumber(NibblesOf(task.a), e, 16, 64)
  <2>1. task.what = "base"
    BY <1>1, <1>2, <1>3 DEF DigitInv, DoubleDigits
  <2>2. e \in DigitsOf(64) /\ Carried(NibblesOf(task.a), e, 16, 64)
    BY <2>1 DEF MultInv, BaseSums
  <2>3. NibblesOf(task.a) \in DigitsOf(64) /\ 64 \in Nat /\ 16 \in {2, 16}
    BY <1>2, NibblesAre
  <2> QED BY <2>2, <2>3, CarriedIsSame
<1>4. ASSUME loop = "leading"
      PROVE  /\ Below255(task.a) => SameNumber(BitsOf(task.a), e, 2, 256)
             /\ Below255(task.b) => SameNumber(BitsOf(task.b), f, 2, 256)
  <2>1. task.what = "double"
    BY <1>1, <1>2, <1>4 DEF DigitInv, BaseDigits
  <2>2. Slidden(e, 256) /\ Slidden(f, 256)
    BY <1>1, <1>4, <2>1 DEF DigitInv, DoubleDigits
  <2>3. e \in DigitsOf(256) /\ f \in DigitsOf(256)
    BY <2>2, Bits256Are DEF Slidden, Bits256
  <2>4. /\ Below255(task.a) => Carried(BitsOf(task.a), e, 2, 256)
        /\ Below255(task.b) => Carried(BitsOf(task.b), f, 2, 256)
    BY <1>4, <2>1 DEF MultInv, DoubleSums, SameBits
  <2>5. BitsOf(task.a) \in DigitsOf(256) /\ BitsOf(task.b) \in DigitsOf(256) /\ 256 \in Nat /\ 2 \in {2, 16}
    BY <1>2, BitsAre DEF Bits256
  <2> QED BY <2>3, <2>4, <2>5, CarriedIsSame
<1>5. loop = "leading" => \A s \in {<<e, task.a>>, <<f, task.b>>} : Below255(s[2]) => SameNumber(BitsOf(s[2]), s[1], 2, 256)
  BY <1>4
<1> QED BY <1>3, <1>5 DEF DigitsKeepScalar, NibblesOf, BitsOf

LEMMA MadeValue ==
    ASSUME NEW s \in Scalars, NEW x \in Bits256, SameBits(s, x) PROVE Made(x, 256) = ValueOf(s)[32]
<1>1. 256 \in Nat /\ 2 \in Int
  OBVIOUS
<1>2. PICK b \in DigitsOf(256) : b = BitsOf(s) /\ Carried(b, x, 2, 256)
  BY BitsAre DEF SameBits, Bits256
<1>3. Horner(2, 256, b)[256] = Horner(2, 256, x)[256]
  BY <1>1, <1>2, CarriedHorner DEF Bits256
<1> QED BY <1>2, <1>3, BitsMakeValue DEF Made

\* What MultiplesAreReached says of h.
Returned == h.Z.v # 0 /\ h.X.v = (Result[1] * h.Z.v) % Q /\ h.Y.v = (Result[2] * h.Z.v) % Q /\ h.X.b <= Tight

LEMMA MultReturns ==
    ASSUME MultInv, loop = "done", task.what = "double" => Below255(task.a) /\ Below255(task.b)
    PROVE  Returned
<1>1. task \in Tasks /\ DigitInv
  BY DEF MultInv, DigitInv
<1>2. task.a \in Scalars /\ task.b \in Scalars /\ task.A \in Curve /\ task.what \in {"base", "double"}
  BY <1>1, TaskIs
<1>3. CASE task.what = "base"
  <2>1. Represents(h, Times(ValueOf(task.a)[32], Base)) /\ Within(h, Tight)
    BY <1>3 DEF MultInv, BaseSums
  <2>2. PICK v \in Int : v = ValueOf(task.a)[32]
    BY <1>2, ValueIs
  <2>3. PICK p \in Curve : p = Times(v, Base)
    BY TimesStays, OrderIs
  <2>4. Result = p
    BY <1>2, <1>3, <2>2, <2>3, ValueTimes, OrderIs DEF Result
  <2>5. h.X.b <= Tight
    BY <2>1, WithinAll DEF Tight
  <2> QED BY <2>1, <2>2, <2>3, <2>4, <2>5, RepresentsMeans DEF Returned
<1>4. CASE task.what = "double"
  <2>1. /\ Reached(h, task.A, e, f, 256) /\ SameBits(task.a, e) /\ SameBits(task.b, f)
    BY <1>4 DEF MultInv, DoubleSums
  <2>2. e \in Bits256 /\ f \in Bits256
    BY <1>1, <1>4, Bits256Are DEF DigitInv, DoubleDigits, Slidden
  <2>3. PICK va \in Int, vb \in Int : va = ValueOf(task.a)[32] /\ vb = ValueOf(task.b)[32]
    BY <1>2, ValueIs
  <2>4. Made(e, 256) = va /\ Made(f, 256) = vb
    BY <1>2, <2>1, <2>2, <2>3, MadeValue
  <2>5. PICK p \in Curve, q \in Curve : p = Times(va, task.A) /\ q = Times(vb, Base)
    BY <1>2, TimesStays, OrderIs
  <2>6. Projective(h, PointSum(p, q)) /\ Flat(h)
    BY <2>1, <2>4, <2>5 DEF Reached
  <2>7. Result = PointSum(p, q)
    <3>1. p = Multiple(Residue(task.a), task.A)
      BY <1>2, <2>3, <2>5, ValueTimes
    <3>2. q = MultipleOfBase[Residue(task.b)]
      BY <1>2, <2>3, <2>5, ValueTimes, OrderIs
    <3>3. task.what # "base"
      BY <1>4
    <3> QED BY <3>1, <3>2, <3>3 DEF Result
  <2>8. PICK s \in Curve : s = PointSum(p, q)
    BY SumStays
  <2>9. h.X.b <= Tight
    BY <2>6 DEF Flat, Tight
  <2> QED BY <2>6, <2>7, <2>8, <2>9, ProjectiveMeans DEF Returned
<1> QED BY <1>2, <1>3, <1>4

\* For every scalar and every point A of every such curve: ge_scalarmult_base
\* returns a * B, and ge_double_scalarmult_vartime a * A + b * B when neither
\* scalar has its top bit, whatever carries the digits need, and A and its
\* multiples may be neutral, B, or each other's opposites.  The digits that
\* slide and the recoding leave are still the scalars.
THEOREM ScalarsMultiply == MSpec => []MultiplesAreReached
<1>1. MultInv => MultiplesAreReached
  BY DigitsKeep, MultReturns DEF MultiplesAreReached, Returned
<1> QED BY <1>1, MultBegins, MultGoesOn, PTL DEF MSpec

-----------------------------------------------------------------------------
(* Signatures. *)

LEMMA MultipleOfZero == ASSUME NEW n \in Nat PROVE Multiple(n, Zero) = Zero
<1> DEFINE Good == {k \in Nat : Multiple(k, Zero) = Zero}
<1>1. 0 \in Good
  BY ZeroIsOnCurve, MultipleGoesOn
<1>2. ASSUME NEW k \in Good PROVE k + 1 \in Good
  <2>1. k + 1 \in Nat /\ Multiple(k + 1, Zero) = PointSum(Multiple(k, Zero), Zero)
    BY ZeroIsOnCurve, MultipleGoesOn
  <2> QED BY <2>1, ZeroIsOnCurve, SumWithZero
<1> HIDE DEF Good
<1>3. Good \in SUBSET Nat
  BY DEF Good
<1>4. n \in Good
  BY <1>1, <1>2, <1>3, Inductive
<1> QED BY <1>4 DEF Good

LEMMA MultipleOfSum ==
    ASSUME NEW p \in Curve, NEW q \in Curve, NEW n \in Nat
    PROVE  Multiple(n, PointSum(p, q)) = PointSum(Multiple(n, p), Multiple(n, q))
<1> DEFINE Good == {k \in Nat : Multiple(k, PointSum(p, q)) = PointSum(Multiple(k, p), Multiple(k, q))}
<1>1. PICK u \in Curve : u = PointSum(p, q)
  BY SumStays
<1>2. 0 \in Good
  BY <1>1, ZeroIsOnCurve, MultipleGoesOn, SumWithZero
<1>3. ASSUME NEW k \in Good PROVE k + 1 \in Good
  <2>1. PICK a \in Curve, b \in Curve : a = Multiple(k, p) /\ b = Multiple(k, q)
    BY MultipleGoesOn
  <2>2. k + 1 \in Nat /\ Multiple(k + 1, p) = PointSum(a, p) /\ Multiple(k + 1, q) = PointSum(b, q)
    BY <2>1, MultipleGoesOn
  <2>3. Multiple(k + 1, u) = PointSum(PointSum(a, b), PointSum(p, q))
    BY <1>1, <2>1, MultipleGoesOn
  <2>4. PointSum(PointSum(a, b), PointSum(p, q)) = PointSum(PointSum(a, p), PointSum(b, q))
    BY <2>1, SumShuffles
  <2> QED BY <1>1, <2>2, <2>3, <2>4
<1> HIDE DEF Good
<1>4. Good \in SUBSET Nat
  BY DEF Good
<1>5. n \in Good
  BY <1>2, <1>3, <1>4, Inductive
<1> QED BY <1>5 DEF Good

LEMMA MultipleOfMultiple ==
    ASSUME NEW p \in Curve, NEW g \in Nat, NEW n \in Nat
    PROVE  Multiple(n * g, p) = Multiple(n, Multiple(g, p))
<1>1. PICK q \in Curve : q = Multiple(g, p)
  BY MultipleGoesOn
<1> DEFINE Good == {k \in Nat : Multiple(k * g, p) = Multiple(k, q)}
<1>2. 0 \in Good
  <2>1. 0 * g = 0
    OBVIOUS
  <2> QED BY <1>1, <2>1, MultipleGoesOn
<1>3. ASSUME NEW k \in Good PROVE k + 1 \in Good
  <2>1. PICK u \in Nat : u = k * g
    OBVIOUS
  <2>2. (k + 1) * g = u + g
    BY <2>1
  <2>3. Multiple(u + g, p) = PointSum(Multiple(u, p), q)
    BY <1>1, MultipleAdds
  <2>4. Multiple(k + 1, q) = PointSum(Multiple(k, q), q) /\ k + 1 \in Nat
    BY <1>1, MultipleGoesOn
  <2> QED BY <2>1, <2>2, <2>3, <2>4
<1> HIDE DEF Good
<1>4. Good \in SUBSET Nat
  BY DEF Good
<1>5. n \in Good
  BY <1>2, <1>3, <1>4, Inductive
<1> QED BY <1>1, <1>5 DEF Good

\* Multiples of opposite points cancel each other.
LEMMA MultiplesCancel ==
    ASSUME NEW p \in Curve, NEW q \in Curve, PointSum(p, q) = Zero, NEW n \in Nat
    PROVE  PointSum(Multiple(n, p), Multiple(n, q)) = Zero
BY MultipleOfSum, MultipleOfZero

LEMMA Undone ==
    ASSUME NEW x \in Curve, NEW y \in Curve, PointSum(x, y) = Zero, NEW u \in Curve
    PROVE  PointSum(PointSum(x, u), y) = u
<1>1. PointSum(x, u) = PointSum(u, x)
  BY SumTurns
<1>2. PointSum(PointSum(u, x), y) = PointSum(u, PointSum(x, y))
  BY SumAssociates
<1> QED BY <1>1, <1>2, SumWithZero

LEMMA ShortIs ==
    /\ L \in Nat /\ L >= 1 /\ L <= Short /\ Short \in Nat /\ Multiple(L, Base) = Zero
    /\ Answer \subseteq Nat
BY SignAssumption

LEMMA ReducedIs ==
    ASSUME NEW n \in Nat
    PROVE  sc_reduce(n) \in 0 .. L - 1 /\ sc_reduce(n) \in Nat /\ Multiple(sc_reduce(n), Base) = Multiple(n, Base)
<1>1. PICK w \in Nat : w = L /\ w >= 1
  BY ShortIs
<1>2. PICK g \in Nat, k \in Int : g = n % w /\ k = n \div w /\ g < w /\ n = w * k + g
  BY <1>1
<1>3. k >= 0
  <2>1. SUFFICES ASSUME k <= -1 PROVE FALSE
    OBVIOUS
  <2>2. w * k <= -w
    BY <1>1, <2>1
  <2> QED BY <1>2, <2>2
<1>4. PICK u \in Nat : u = k * w
  BY <1>3
<1>5. Multiple(u, Base) = Zero
  <2>1. Multiple(k * w, Base) = Multiple(k, Multiple(w, Base))
    BY <1>1, <1>3, OrderIs, MultipleOfMultiple
  <2> QED BY <1>1, <1>3, <1>4, <2>1, ShortIs, MultipleOfZero
<1>6. Multiple(u + g, Base) = PointSum(Multiple(u, Base), Multiple(g, Base))
  BY OrderIs, MultipleAdds
<1>7. Multiple(u + g, Base) = Multiple(g, Base)
  BY <1>5, <1>6, OrderIs, MultipleGoesOn, SumWithZero
<1>8. n = u + g
  BY <1>2, <1>4
<1>9. sc_reduce(n) = g
  BY <1>1, <1>2 DEF sc_reduce
<1> QED BY <1>1, <1>2, <1>7, <1>8, <1>9

\* L is the least that takes B to Zero, so numbers below it name its multiples.
LEMMA LeastOrder ==
    ASSUME NEW a \in 0 .. L - 1, NEW b \in 0 .. L - 1, Multiple(a, Base) = Multiple(b, Base)
    PROVE  a = b
<1>1. ASSUME NEW x \in 0 .. L - 1, NEW y \in 0 .. L - 1, x < y PROVE Multiple(x, Base) # Multiple(y, Base)
  <2>1. PICK k \in 1 .. L - 1 : k = y - x
    BY <1>1, ShortIs
  <2>2. x \in Nat /\ k \in Nat /\ y = x + k
    BY <2>1, ShortIs
  <2>3. PICK p \in Curve, q \in Curve : p = Multiple(x, Base) /\ q = Multiple(k, Base)
    BY <2>2, OrderIs, MultipleGoesOn
  <2>4. Multiple(y, Base) = PointSum(p, q)
    BY <2>2, <2>3, OrderIs, MultipleAdds
  <2>5. SUFFICES ASSUME p = PointSum(p, q) PROVE FALSE
    BY <2>3, <2>4
  <2>6. PICK o \in Curve : PointSum(p, o) = Zero
    BY SumWithOpposite, OppositeSays
  <2>7. PointSum(PointSum(p, q), o) = q
    BY <2>6, Undone
  <2>8. q = Zero
    BY <2>5, <2>6, <2>7
  <2> QED BY <2>1, <2>3, <2>8, SignAssumption
<1>2. a < b \/ a = b \/ b < a
  BY ShortIs
<1> QED BY <1>1, <1>2

\* The string that a point of the curve is written as.
StringOf(p) == ge_p3_tobytes(Extended(p, 1))

LEMMA StringOfIs ==
    ASSUME NEW p \in Curve PROVE StringOf(p) \in String /\ Named(StringOf(p)) = {p}
<1>1. 1 \in 1 .. Q - 1
  BY QIsOdd
<1>2. Represents(Extended(p, 1), p) /\ Within(Extended(p, 1), Tight)
  BY <1>1, ExtendedSays, MadeIsTight
<1> QED BY <1>2, WriteSays DEF StringOf

LEMMA StringsDiffer ==
    ASSUME NEW p \in Curve, NEW q \in Curve, StringOf(p) = StringOf(q) PROVE p = q
<1>1. {p} = {q}
  BY StringOfIs
<1> QED BY <1>1

LEMMA TurnedBack ==
    ASSUME NEW p \in Curve, NEW q \in Curve, Opposite(q) = p PROVE q = Opposite(p)
<1>1. PointSum(p, q) = Zero
  BY SumTurns, SumWithOpposite
<1> QED BY <1>1, OppositeIsUnique

\* A key that was written is read as the opposite of its point.
LEMMA KeyRead ==
    ASSUME NEW p \in Curve, NEW r, r = ge_frombytes_negate_vartime(StringOf(p))
    PROVE  r.status = 0 /\ <<r.h.X.v, r.h.Y.v>> = Opposite(p)
<1>1. PICK s \in String : s = StringOf(p) /\ Named(s) = {p}
  BY StringOfIs
<1>2. PICK q : q = <<r.h.X.v, r.h.Y.v>>
  OBVIOUS
<1>3. /\ r.status = 0 => q \in Curve /\ Opposite(q) \in Named(s)
      /\ r.status # 0 => \A o \in Curve : o[2] # s.y % Q
  BY <1>1, <1>2, ReadSays
<1>4. p[2] = s.y % Q
  BY <1>1 DEF Named
<1>5. r.status = 0
  BY <1>3, <1>4
<1>6. Opposite(q) = p
  BY <1>1, <1>3, <1>5
<1> QED BY <1>2, <1>3, <1>5, <1>6, TurnedBack

LEMMA PointOfIs ==
    ASSUME NEW n \in Nat
    PROVE  Multiple(n, Base) \in Curve /\ ge_p3_tobytes(PointOf(n)) = StringOf(Multiple(n, Base))
<1>1. Multiple(n, Base) \in Curve
  BY OrderIs, MultipleGoesOn
<1>2. MultipleOfBase[n % Order] = Multiple(n, Base)
  <2>1. n \in Int
    OBVIOUS
  <2> QED BY <2>1, OrderIs, MultipleOfBaseIs, TimesOfNat
<1> QED BY <1>1, <1>2 DEF PointOf, StringOf

LEMMA CheckIs ==
    ASSUME NEW A, NEW p \in Curve, <<A.X.v, A.Y.v>> = p, NEW n \in Nat, NEW S \in Nat
    PROVE  ge_tobytes(Check(A, n, S)) = StringOf(PointSum(Multiple(n, p), Multiple(S, Base)))
<1>1. MultipleOfBase[S % Order] = Multiple(S, Base)
  <2>1. S \in Int
    OBVIOUS
  <2> QED BY <2>1, OrderIs, MultipleOfBaseIs, TimesOfNat
<1>2. Multiple(n % Order, p) = Multiple(n, p)
  BY TimesOfNat DEF Times
<1> QED BY <1>1, <1>2 DEF Check, StringOf, ge_p3_tobytes

\* What the check of an S comes to that was made of a key and a nonce.
LEMMA MadeChecks ==
    ASSUME NEW key \in Nat, NEW r \in 0 .. L - 1, NEW n \in Nat, NEW S, S = sc_muladd(n, key, r),
           NEW p \in Curve, p = Opposite(Multiple(key, Base))
    PROVE  /\ S \in 0 .. L - 1 /\ S \in Nat /\ r \in Nat
           /\ PointSum(Multiple(n, p), Multiple(S, Base)) = Multiple(r, Base)
<1>1. r \in Nat
  BY ShortIs
<1>2. PICK u \in Nat : u = n * key
  OBVIOUS
<1>3. u + r \in Nat /\ S = sc_reduce(u + r)
  BY <1>1, <1>2 DEF sc_muladd, sc_reduce
<1>4. PICK k \in Curve, t \in Curve, x \in Curve :
          k = Multiple(key, Base) /\ t = Multiple(r, Base) /\ x = Multiple(n, k)
  BY <1>1, OrderIs, MultipleGoesOn
<1>5. Multiple(S, Base) = PointSum(x, t)
  <2>1. Multiple(S, Base) = PointSum(Multiple(u, Base), t)
    BY <1>1, <1>3, <1>4, ReducedIs, OrderIs, MultipleAdds
  <2>2. Multiple(n * key, Base) = Multiple(n, k)
    BY <1>4, OrderIs, MultipleOfMultiple
  <2> QED BY <1>2, <1>4, <2>1, <2>2
<1>6. PICK y \in Curve : y = Multiple(n, p)
  BY MultipleGoesOn
<1>7. PointSum(x, y) = Zero
  <2>1. PointSum(k, p) = Zero
    BY <1>4, SumWithOpposite
  <2> QED BY <1>4, <1>6, <2>1, MultiplesCancel
<1>8. PointSum(PointSum(x, t), y) = t
  BY <1>7, Undone
<1>9. PointSum(y, PointSum(x, t)) = t
  <2>1. PointSum(x, t) \in Curve
    BY SumStays
  <2> QED BY <1>8, <2>1, SumTurns
<1> QED BY <1>1, <1>3, <1>4, <1>5, <1>6, <1>9, ReducedIs

\* What the steps keep: the key and the strings are what they are said to be, and what crypto_sign
\* made came from some nonce r and some answer x, which the hash remembers.
PublicKey == StringOf(Multiple(az, Base))
Asking(r) == <<StringOf(Multiple(r, Base)), PublicKey, made[2]>>
SignedAs(r, x) ==
    /\ made[1] = [R |-> StringOf(Multiple(r, Base)), S |-> sc_muladd(sc_reduce(x), az, r)]
    /\ made[3] = PublicKey
    /\ Asking(r) \in DOMAIN asked /\ asked[Asking(r)] = x
SignKept ==
    /\ az \in Nat /\ sig \in [R : String, S : Nat] /\ pk \in String
    /\ made = <<>> => pk = PublicKey /\ opened = None
    /\ made # <<>> => \E r \in 0 .. L - 1, x \in Answer : SignedAs(r, x)

LEMMA HashIs ==
    ASSUME NEW q, NEW x, Hash(q, x)
    PROVE  /\ x \in Answer /\ (q \in DOMAIN asked => asked[q] = x)
           /\ q \in DOMAIN asked' /\ asked'[q] = x
           /\ \A k \in DOMAIN asked : k \in DOMAIN asked' /\ asked'[k] = asked[k]
BY DEF Hash

\* A made signature is short, and its key is read.
LEMMA MadeIsRead ==
    ASSUME SignKept, made # <<>>, <<sig, m, pk>> = made, NEW A, A = ge_frombytes_negate_vartime(pk)
    PROVE  ~ TooLong(sig.S) /\ A.status = 0
<1>1. PICK r \in 0 .. L - 1, x \in Answer : SignedAs(r, x)
  BY DEF SignKept
<1>2. PICK p \in Curve : p = Multiple(az, Base) /\ Opposite(p) \in Curve
  BY OrderIs, MultipleGoesOn, OppositeSays DEF SignKept
<1>3. pk = StringOf(p) /\ sig.S = sc_muladd(sc_reduce(x), az, r)
  <2>1. made[1] = sig /\ made[3] = pk
    OBVIOUS
  <2> QED BY <1>1, <1>2, <2>1 DEF SignedAs, PublicKey
<1>4. sig.S \in 0 .. L - 1
  <2>1. x \in Nat
    BY ShortIs
  <2>2. sc_reduce(x) \in Nat /\ az \in Nat
    BY <2>1, ReducedIs DEF SignKept
  <2> QED BY <1>2, <1>3, <2>2, MadeChecks
<1>5. ~ TooLong(sig.S)
  BY <1>4, ShortIs DEF TooLong
<1> QED BY <1>2, <1>3, <1>5, KeyRead

\* An answer of crypto_sign_open to strings that are not refused before they are hashed.
Answers(A, p, n, C, x) ==
    /\ p = <<A.X.v, A.Y.v>> /\ p \in Curve /\ Opposite(p) \in Named(pk)
    /\ x \in Nat /\ n = sc_reduce(x) /\ n \in Nat
    /\ C \in Curve /\ C = PointSum(Multiple(n, p), Multiple(sig.S, Base))
    /\ opened' = IF StringOf(C) = sig.R THEN 0 ELSE -1

LEMMA AnswersAre ==
    ASSUME SignKept, NEW A, A = ge_frombytes_negate_vartime(pk), A.status = 0, NEW x \in Answer,
           opened' = IF ge_tobytes(Check(A.h, sc_reduce(x), sig.S)) = sig.R THEN 0 ELSE -1
    PROVE  \E p, n, C : Answers(A.h, p, n, C, x)
<1>1. PICK p : p = <<A.h.X.v, A.h.Y.v>>
  OBVIOUS
<1>2. p \in Curve /\ Opposite(p) \in Named(pk)
  BY <1>1, ReadSays DEF SignKept
<1>3. x \in Nat
  BY ShortIs
<1>4. PICK n \in Nat : n = sc_reduce(x)
  BY <1>3, ReducedIs
<1>5. sig.S \in Nat
  BY DEF SignKept
<1>6. PICK C \in Curve : C = PointSum(Multiple(n, p), Multiple(sig.S, Base))
  BY <1>2, <1>5, OrderIs, MultipleGoesOn, SumStays
<1>7. ge_tobytes(Check(A.h, n, sig.S)) = StringOf(C)
  BY <1>1, <1>2, <1>5, <1>6, CheckIs
<1>8. opened' = IF StringOf(C) = sig.R THEN 0 ELSE -1
  BY <1>4, <1>7
<1> QED BY <1>1, <1>2, <1>3, <1>4, <1>6, <1>8 DEF Answers

\* For the key and the R that were made, the check comes to R with the S that was made.
LEMMA AnswersMade ==
    ASSUME SignKept, NEW r \in 0 .. L - 1, NEW x, SignedAs(r, x), NEW A, A = ge_frombytes_negate_vartime(pk),
           NEW p, NEW n, NEW C, Answers(A.h, p, n, C, x), pk = PublicKey
    PROVE  /\ made[1].S \in 0 .. L - 1 /\ made[1].S \in Nat /\ Multiple(r, Base) \in Curve
           /\ PointSum(Multiple(n, p), Multiple(made[1].S, Base)) = Multiple(r, Base)
<1>1. PICK k \in Curve : k = Multiple(az, Base) /\ pk = StringOf(k)
  BY OrderIs, MultipleGoesOn DEF SignKept, PublicKey
<1>2. p = Opposite(k) /\ p \in Curve /\ n \in Nat /\ n = sc_reduce(x)
  BY <1>1, KeyRead DEF Answers
<1>3. made[1].S = sc_muladd(n, az, r)
  BY <1>2 DEF SignedAs
<1>4. az \in Nat
  BY DEF SignKept
<1>5. r \in Nat
  BY ShortIs
<1> QED BY <1>1, <1>2, <1>3, <1>4, <1>5, MadeChecks, OrderIs, MultipleGoesOn

LEMMA OpensWhatWasMade ==
    ASSUME SignKept, made # <<>>, <<sig, m, pk>> = made, NEW A, A = ge_frombytes_negate_vartime(pk),
           NEW x, NEW p, NEW n, NEW C, Answers(A.h, p, n, C, x), Hash(<<sig.R, pk, m>>, x)
    PROVE  opened' = 0
<1>1. PICK r \in 0 .. L - 1, y \in Answer : SignedAs(r, y)
  BY DEF SignKept
<1>2. made[1] = sig /\ made[2] = m /\ made[3] = pk
  OBVIOUS
<1>3. pk = PublicKey /\ sig.R = StringOf(Multiple(r, Base))
  BY <1>1, <1>2 DEF SignedAs
<1>4. <<sig.R, pk, m>> = Asking(r)
  BY <1>2, <1>3 DEF Asking
<1>5. x = y
  <2>1. Asking(r) \in DOMAIN asked /\ asked[Asking(r)] = y
    BY <1>1 DEF SignedAs
  <2> QED BY <1>4, <2>1, HashIs
<1>6. PointSum(Multiple(n, p), Multiple(sig.S, Base)) = Multiple(r, Base)
  BY <1>1, <1>2, <1>3, <1>5, AnswersMade
<1>7. C = Multiple(r, Base)
  BY <1>6 DEF Answers
<1> QED BY <1>3, <1>7 DEF Answers

LEMMA OpenedMeets ==
    ASSUME SignKept, NEW A, NEW x, NEW p, NEW n, NEW C, Answers(A, p, n, C, x), opened' = 0
    PROVE  \E a \in Named(pk), R \in Named(sig.R) :
              MultipleOfBase[sig.S % Order] = PointSum(R, Multiple(sc_reduce(x), a))
<1>1. PICK a \in Curve : a = Opposite(p) /\ a \in Named(pk)
  BY OppositeSays DEF Answers
<1>2. p \in Curve /\ n \in Nat /\ n = sc_reduce(x) /\ C \in Curve
      /\ C = PointSum(Multiple(n, p), Multiple(sig.S, Base))
  BY DEF Answers
<1>3. sig.R = StringOf(C)
  BY DEF Answers
<1>4. C \in Named(sig.R)
  BY <1>2, <1>3, StringOfIs
<1>5. sig.S \in Nat /\ sig.S \in Int
  BY DEF SignKept
<1>6. MultipleOfBase[sig.S % Order] = Multiple(sig.S, Base)
  BY <1>5, OrderIs, MultipleOfBaseIs, TimesOfNat
<1>7. PICK u \in Curve, v \in Curve, t \in Curve :
          u = Multiple(n, p) /\ v = Multiple(n, a) /\ t = Multiple(sig.S, Base)
  BY <1>2, <1>5, OrderIs, MultipleGoesOn
<1>8. PointSum(u, v) = Zero
  <2>1. PointSum(p, a) = Zero
    BY <1>1, <1>2, SumWithOpposite
  <2> QED BY <1>2, <1>7, <2>1, MultiplesCancel
<1>9. PointSum(C, v) = t
  BY <1>2, <1>7, <1>8, Undone
<1> QED BY <1>1, <1>2, <1>4, <1>6, <1>7, <1>9

LEMMA OpenedSame ==
    ASSUME SignKept, made # <<>>, <<sig.R, m, pk>> = <<made[1].R, made[2], made[3]>>,
           NEW A, A = ge_frombytes_negate_vartime(pk),
           NEW x, NEW p, NEW n, NEW C, Answers(A.h, p, n, C, x), Hash(<<sig.R, pk, m>>, x), opened' = 0
    PROVE  sig.S % L = made[1].S
<1>1. PICK r \in 0 .. L - 1, y \in Answer : SignedAs(r, y)
  BY DEF SignKept
<1>2. sig.R = made[1].R /\ m = made[2] /\ pk = made[3]
  OBVIOUS
<1>3. pk = PublicKey /\ sig.R = StringOf(Multiple(r, Base))
  BY <1>1, <1>2 DEF SignedAs
<1>4. <<sig.R, pk, m>> = Asking(r)
  BY <1>2, <1>3 DEF Asking
<1>5. x = y
  <2>1. Asking(r) \in DOMAIN asked /\ asked[Asking(r)] = y
    BY <1>1 DEF SignedAs
  <2> QED BY <1>4, <2>1, HashIs
<1>6. /\ made[1].S \in 0 .. L - 1 /\ made[1].S \in Nat /\ Multiple(r, Base) \in Curve
      /\ PointSum(Multiple(n, p), Multiple(made[1].S, Base)) = Multiple(r, Base)
  BY <1>1, <1>3, <1>5, AnswersMade
<1>7. p \in Curve /\ n \in Nat /\ C \in Curve /\ C = PointSum(Multiple(n, p), Multiple(sig.S, Base))
  BY DEF Answers
<1>8. C = Multiple(r, Base)
  <2>1. StringOf(C) = StringOf(Multiple(r, Base))
    BY <1>3 DEF Answers
  <2> QED BY <1>6, <1>7, <2>1, StringsDiffer
<1>9. sig.S \in Nat
  BY DEF SignKept
<1>10. PICK u \in Curve, s \in Curve, t \in Curve :
           u = Multiple(n, p) /\ s = Multiple(made[1].S, Base) /\ t = Multiple(sig.S, Base)
  BY <1>6, <1>7, <1>9, OrderIs, MultipleGoesOn
<1>11. PICK v \in Curve : PointSum(u, v) = Zero
  BY SumWithOpposite, OppositeSays
<1>12. s = t
  <2>1. PointSum(u, s) = PointSum(u, t)
    BY <1>6, <1>7, <1>8, <1>10
  <2>2. PointSum(PointSum(u, s), v) = s /\ PointSum(PointSum(u, t), v) = t
    BY <1>11, Undone
  <2> QED BY <2>1, <2>2
<1>13. sc_reduce(sig.S) \in 0 .. L - 1 /\ Multiple(sc_reduce(sig.S), Base) = t
  BY <1>9, <1>10, ReducedIs
<1>14. sc_reduce(sig.S) = made[1].S
  BY <1>6, <1>10, <1>12, <1>13, LeastOrder
<1> QED BY <1>14 DEF sc_reduce

LEMMA OpenSays == ASSUME SignKept, Open PROVE OpensAsSigned'
<1>1. made # <<>> /\ made' = made /\ sig' = sig /\ m' = m /\ pk' = pk
  BY DEF Open
<1>2. PICK A : A = ge_frombytes_negate_vartime(pk)
  OBVIOUS
<1>3. CASE TooLong(sig.S) \/ A.status # 0
  <2>1. opened' = -1
    BY <1>2, <1>3 DEF Open
  <2>2. <<sig, m, pk>> # made
    BY <1>1, <1>2, <1>3, MadeIsRead
  <2>3. opened' # 0
    BY <2>1
  <2> QED BY <1>1, <2>2, <2>3 DEF OpensAsSigned
<1>4. CASE ~ (TooLong(sig.S) \/ A.status # 0)
  <2>1. PICK x \in Answer :
            /\ Hash(<<sig.R, pk, m>>, x)
            /\ opened' = IF ge_tobytes(Check(A.h, sc_reduce(x), sig.S)) = sig.R THEN 0 ELSE -1
    BY <1>2, <1>4 DEF Open
  <2>2. PICK p, n, C : Answers(A.h, p, n, C, x)
    BY <1>2, <1>4, <2>1, AnswersAre
  <2>3. asked'[<<sig.R, pk, m>>] = x
    BY <2>1, HashIs
  <2>4. <<sig, m, pk>> = made => opened' = 0
    BY <1>1, <1>2, <2>1, <2>2, OpensWhatWasMade
  <2>5. ASSUME opened' = 0
        PROVE  \E a \in Named(pk), R \in Named(sig.R) :
                  MultipleOfBase[sig.S % Order] = PointSum(R, Multiple(sc_reduce(x), a))
    BY <2>2, <2>5, OpenedMeets
  <2>6. ASSUME opened' = 0, <<sig.R, m, pk>> = <<made[1].R, made[2], made[3]>>
        PROVE  sig.S % L = made[1].S
    BY <1>1, <1>2, <2>1, <2>2, <2>6, OpenedSame
  <2> QED BY <1>1, <1>4, <2>3, <2>4, <2>5, <2>6 DEF OpensAsSigned, MultipleOfBase, sc_reduce, TooLong
<1> QED BY <1>3, <1>4

SignInv == SignKept /\ OpensAsSigned

LEMMA SignBegins == SInit => SignInv
<1> SUFFICES ASSUME SInit PROVE SignInv
  OBVIOUS
<1>1. az \in Nat
  <2>1. PICK x \in Answer : az = TopBit + 8 * ((x \div 8) % (TopBit \div 8))
    BY DEF SInit, Clamped
  <2>2. PICK t \in Nat : t = TopBit /\ t >= 8
    BY SignAssumption
  <2>3. x \in Nat
    BY ShortIs
  <2>4. PICK b \in Nat : b = t \div 8 /\ b >= 1
    BY <2>2
  <2>5. PICK y \in Nat : y = x \div 8
    BY <2>3
  <2>6. y % b \in Nat
    BY <2>4
  <2>7. az = t + 8 * (y % b)
    BY <2>1, <2>2, <2>4, <2>5
  <2> QED BY <2>2, <2>6, <2>7
<1>2. pk = PublicKey /\ pk \in String
  BY <1>1, PointOfIs, StringOfIs DEF SInit, PublicKey
<1>3. ge_p3_tobytes(ge_p3_0) \in String
  <2>1. Within(ge_p3_0, Tight)
    BY MadeIsTight
  <2> QED BY <2>1, ResetSays, WriteSays
<1>4. sig \in [R : String, S : Nat]
  BY <1>3 DEF SInit
<1>5. made = <<>> /\ opened = None /\ opened # 0
  BY DEF SInit, None
<1> QED BY <1>1, <1>2, <1>4, <1>5 DEF SignInv, SignKept, OpensAsSigned

\* What was asked stays answered, so that what was made stays made.
LEMMA StaysSigned ==
    ASSUME NEW r, NEW x, SignedAs(r, x), made' = made, az' = az,
           \A k \in DOMAIN asked : k \in DOMAIN asked' /\ asked'[k] = asked[k]
    PROVE  SignedAs(r, x)'
<1>1. PublicKey' = PublicKey
  BY DEF PublicKey
<1>2. Asking(r)' = Asking(r)
  BY <1>1 DEF Asking
<1>3. Asking(r) \in DOMAIN asked' /\ asked'[Asking(r)] = x
  BY DEF SignedAs
<1> QED BY <1>1, <1>2, <1>3 DEF SignedAs

LEMMA SignKeeps == ASSUME SignKept, Sign PROVE SignInv'
<1>1. /\ made = <<>> /\ opened = None /\ pk = PublicKey /\ az \in Nat /\ pk \in String
      /\ az' = az /\ pk' = pk /\ opened' = opened
  BY DEF SignKept, Sign
<1>2. PICK nonce \in Answer : \E hram \in Answer :
          LET R == ge_p3_tobytes(PointOf(sc_reduce(nonce)))
          IN /\ Hash(<<R, pk, m>>, hram)
             /\ sig' = [R |-> R, S |-> sc_muladd(sc_reduce(hram), az, sc_reduce(nonce))]
             /\ made' = <<sig', m, pk>>
  BY DEF Sign
<1> DEFINE R == ge_p3_tobytes(PointOf(sc_reduce(nonce)))
<1>3. PICK hram \in Answer :
           /\ Hash(<<R, pk, m>>, hram)
           /\ sig' = [R |-> R, S |-> sc_muladd(sc_reduce(hram), az, sc_reduce(nonce))]
           /\ made' = <<sig', m, pk>>
  BY <1>2
<1>4. PICK r \in 0 .. L - 1 : r = sc_reduce(nonce) /\ r \in Nat
  <2>1. nonce \in Nat
    BY ShortIs
  <2> QED BY <2>1, ReducedIs
<1>5. R = StringOf(Multiple(r, Base)) /\ R \in String
  BY <1>3, <1>4, PointOfIs, StringOfIs
<1>6. sc_muladd(sc_reduce(hram), az, r) \in Nat
  <2>1. hram \in Nat
    BY ShortIs
  <2>2. sc_reduce(hram) \in Nat /\ Opposite(Multiple(az, Base)) \in Curve
    BY <1>1, <2>1, ReducedIs, OrderIs, MultipleGoesOn, OppositeSays
  <2> QED BY <1>1, <2>2, MadeChecks
<1>7. sig' \in [R : String, S : Nat]
  BY <1>3, <1>4, <1>5, <1>6
<1>8. made' # <<>> /\ made'[1] = sig' /\ made'[2] = m /\ made'[3] = pk
  BY <1>3
<1>9. PublicKey' = PublicKey
  BY <1>1 DEF PublicKey
<1>10. Asking(r)' = <<R, pk, m>>
  BY <1>1, <1>5, <1>8, <1>9 DEF Asking
<1>11. SignedAs(r, hram)'
  <2>1. Asking(r)' \in DOMAIN asked' /\ asked'[Asking(r)'] = hram
    BY <1>3, <1>10, HashIs
  <2> QED BY <1>1, <1>3, <1>4, <1>5, <1>8, <1>9, <2>1 DEF SignedAs
<1>12. opened' # 0 /\ opened' = None
  BY <1>1 DEF None
<1> QED BY <1>1, <1>7, <1>8, <1>11, <1>12 DEF SignInv, SignKept, OpensAsSigned

LEMMA AlteredKeeps == ASSUME SignKept, Altered PROVE SignInv'
<1>1. made # <<>> /\ made' = made /\ opened' = None /\ az' = az /\ asked' = asked
  BY DEF Altered
<1>2. sig' \in [R : String, S : Nat] /\ pk' \in String
  <2>1. sig \in [R : String, S : Nat] /\ pk \in String
    BY DEF SignKept
  <2>2. CASE \E S \in 0 .. 2 * Short - 1 : S # sig.S /\ sig' = [sig EXCEPT !.S = S] /\ UNCHANGED <<m, pk>>
    BY <2>1, <2>2, ShortIs
  <2>3. CASE \E R \in String : R # sig.R /\ sig' = [sig EXCEPT !.R = R] /\ UNCHANGED <<m, pk>>
    BY <2>1, <2>3
  <2>4. CASE \E n \in Message \ {m} : m' = n /\ UNCHANGED <<sig, pk>>
    BY <2>1, <2>4
  <2>5. CASE \E k \in String \ {pk} : pk' = k /\ UNCHANGED <<sig, m>>
    BY <2>1, <2>5
  <2> QED BY <2>2, <2>3, <2>4, <2>5 DEF Altered
<1>3. PICK r \in 0 .. L - 1, x \in Answer : SignedAs(r, x)
  BY <1>1 DEF SignKept
<1>4. SignedAs(r, x)'
  BY <1>1, <1>3, StaysSigned
<1>5. az \in Nat /\ opened' # 0
  BY <1>1 DEF SignKept, None
<1> QED BY <1>1, <1>2, <1>3, <1>4, <1>5 DEF SignInv, SignKept, OpensAsSigned

LEMMA OpenKeeps == ASSUME SignKept, Open PROVE SignInv'
<1>1. made # <<>> /\ made' = made /\ az' = az /\ sig' = sig /\ pk' = pk
  BY DEF Open
<1>2. PICK r \in 0 .. L - 1, x \in Answer : SignedAs(r, x)
  BY <1>1 DEF SignKept
<1>3. \A k \in DOMAIN asked : k \in DOMAIN asked' /\ asked'[k] = asked[k]
  <2>1. asked' = asked \/ \E x1 \in Answer : Hash(<<sig.R, pk, m>>, x1)
    BY DEF Open
  <2> QED BY <2>1, HashIs
<1>4. SignedAs(r, x)'
  BY <1>1, <1>2, <1>3, StaysSigned
<1>5. SignKept'
  BY <1>1, <1>2, <1>4 DEF SignKept
<1> QED BY <1>5, OpenSays DEF SignInv

LEMMA SigningGoesOn == SignInv /\ [SNext]_svars => SignInv'
<1> SUFFICES ASSUME SignInv, [SNext]_svars PROVE SignInv'
  OBVIOUS
<1>1. SignKept
  BY DEF SignInv
<1>2. CASE Sign
  BY <1>1, <1>2, SignKeeps
<1>3. CASE Altered
  BY <1>1, <1>3, AlteredKeeps
<1>4. CASE Open
  BY <1>1, <1>4, OpenKeeps
<1>5. CASE UNCHANGED svars
  <2>1. az' = az /\ pk' = pk /\ sig' = sig /\ m' = m /\ asked' = asked /\ made' = made /\ opened' = opened
    BY <1>5 DEF svars
  <2>2. PublicKey' = PublicKey
    BY <2>1 DEF PublicKey
  <2>3. ASSUME NEW r, NEW x, SignedAs(r, x) PROVE SignedAs(r, x)'
    BY <2>1, <2>3, StaysSigned
  <2>4. SignKept'
    BY <1>1, <2>1, <2>2, <2>3 DEF SignKept
  <2>5. OpensAsSigned'
    BY <2>1 DEF SignInv, OpensAsSigned, MultipleOfBase, sc_reduce, TooLong
  <2> QED BY <2>4, <2>5 DEF SignInv
<1> QED BY <1>2, <1>3, <1>4, <1>5 DEF SNext

\* For every curve, base point of order L, key, hash and message: what
\* crypto_sign made opens under the key that crypto_sign_pubkey made, and what
\* crypto_sign_open takes is R + h * A for the hash of the very strings that it
\* was given, with an S below 2^253 that is S of the signature up to a multiple
\* of L when only S was altered.
THEOREM SignaturesOpen == SSpec => []OpensAsSigned
<1>1. SignInv => OpensAsSigned
  BY DEF SignInv
<1> QED BY <1>1, SignBegins, SigningGoesOn, PTL DEF SSpec
=============================================================================
