------------------------------ MODULE EdProofs ------------------------------
(***************************************************************************)
(* Theorems about the points of contrib/ref10.  For every field that a     *)
(* prime gives and every curve whose d is no square, the formulas have no  *)
(* case where they fail, and strings name points; for every scalar, the    *)
(* digits of the multiplications stay inside the tables.  A point stands   *)
(* for one of the curve by Represents; that its formulas are complete      *)
(* comes from Complete, that sums stay on the curve from SumIsOnCurve.     *)
(***************************************************************************)
EXTENDS EdScalarMult, TLAPS

-----------------------------------------------------------------------------
(* The limbs of the points. *)

Coordinate == {"X", "Y", "Z", "T"}

\* The limbs of the four elements of p stay within n.
Within(p, n) == \A c \in Coordinate : p[c].b \in 0 .. n

LEMMA BoundOf == ASSUME NEW v, NEW b PROVE Element(v, b).b = b
BY DEF Element

LEMMA KeptIsTight == ASSUME NEW b \in 0 .. MulIn PROVE Kept(b) = Tight
BY DEF Kept, MulIn

LEMMA MulTight ==
    ASSUME NEW x, NEW y, x.b \in 0 .. MulIn, y.b \in 0 .. MulIn
    PROVE  fe_mul(x, y).b = Tight
<1>1. Kept(Wider(x.b, y.b)) = Tight
  BY KeptIsTight DEF Wider
<1> QED BY <1>1, BoundOf DEF fe_mul

LEMMA SqTight ==
    ASSUME NEW x, x.b \in 0 .. MulIn
    PROVE  fe_sq(x).b = Tight /\ fe_sq2(x).b = Tight /\ fe_pow22523(x).b = Tight
BY MulTight, BoundOf, KeptIsTight DEF fe_sq, fe_sq2, fe_pow22523

LEMMA SumBound ==
    ASSUME NEW x, NEW y
    PROVE  fe_add(x, y).b = x.b + y.b /\ fe_sub(x, y).b = x.b + y.b
BY BoundOf DEF fe_add, fe_sub

LEMMA SumOfTight ==
    ASSUME NEW x, NEW y, x.b \in 0 .. Tight, y.b \in 0 .. Tight
    PROVE  fe_add(x, y).b \in 0 .. 202 /\ fe_sub(x, y).b \in 0 .. 202
<1>1. PICK m \in 0 .. 101 : m = x.b
  BY DEF Tight
<1>2. PICK n \in 0 .. 101 : n = y.b
  BY DEF Tight
<1>3. m + n \in 0 .. 202
  OBVIOUS
<1> QED BY <1>1, <1>2, <1>3, SumBound

LEMMA WithinAll ==
    ASSUME NEW p, NEW n
    PROVE  Within(p, n) <=> p.X.b \in 0 .. n /\ p.Y.b \in 0 .. n /\ p.Z.b \in 0 .. n /\ p.T.b \in 0 .. n
BY DEF Within, Coordinate

LEMMA CompletedIsTight ==
    ASSUME NEW p, Within(p, MulIn) PROVE Within(ge_p1p1_to_p3(p), Tight)
BY MulTight DEF ge_p1p1_to_p3, ge_p3, Within, Coordinate, Tight

\* Four products or what is not more than two of them: nothing is too large.
LEMMA CompletedFits ==
    ASSUME NEW A, NEW B, NEW C, NEW E, A.b = Tight, B.b = Tight, C.b = Tight, E.b \in 0 .. 2 * Tight
    PROVE  Within(Completed(A, B, C, E), MulIn) /\ Within(Swapped(Completed(A, B, C, E)), MulIn)
BY SumBound DEF Completed, Swapped, ge_p1p1, Within, Coordinate, Tight, MulIn

LEMMA DoubleFits ==
    ASSUME NEW p, p.X.b \in 0 .. Tight, p.Y.b \in 0 .. Tight, p.Z.b \in 0 .. Tight
    PROVE  Within(ge_p2_dbl(p), MulIn)
<1> DEFINE XX == fe_sq(p.X)
           YY == fe_sq(p.Y)
           AA == fe_sq(fe_add(p.X, p.Y))
           ZZ == fe_sq2(p.Z)
           YpX == fe_add(YY, XX)
           YmX == fe_sub(YY, XX)
<1>1. XX.b = Tight /\ YY.b = Tight /\ ZZ.b = Tight
  BY SqTight DEF Tight, MulIn
<1>2. AA.b = Tight
  <2>1. fe_add(p.X, p.Y).b \in 0 .. MulIn
    BY SumOfTight DEF MulIn
  <2> QED BY <2>1, SqTight
<1>3. YpX.b = 202 /\ YmX.b = 202
  BY <1>1, SumBound DEF Tight
<1>4. fe_sub(AA, YpX).b = 303 /\ fe_sub(ZZ, YmX).b = 303
  BY <1>1, <1>2, <1>3, SumBound DEF Tight
<1>5. ge_p2_dbl(p) = [X |-> fe_sub(AA, YpX), Y |-> YpX, Z |-> YmX, T |-> fe_sub(ZZ, YmX)]
  BY DEF ge_p2_dbl, ge_p1p1
<1> HIDE DEF XX, YY, AA, ZZ, YpX, YmX
<1> QED BY <1>3, <1>4, <1>5 DEF Within, Coordinate, MulIn

LEMMA AddFits ==
    ASSUME NEW p, Within(p, Tight), NEW q, Within(q, Tight)
    PROVE  /\ Within(ge_add(p, ge_p3_to_cached(q)), MulIn)
           /\ Within(ge_sub(p, ge_p3_to_cached(q)), MulIn)
<1> DEFINE c == ge_p3_to_cached(q)
           ZZ == fe_mul(p.Z, c.Z)
<1>1. c = [YplusX |-> fe_add(q.Y, q.X), YminusX |-> fe_sub(q.Y, q.X), Z |-> q.Z, T2d |-> fe_mul(q.T, d2)]
  BY DEF ge_p3_to_cached, fe_copy
<1>2. d2.b = 100
  BY BoundOf DEF d2
<1>3. c.YplusX.b \in 0 .. 202 /\ c.YminusX.b \in 0 .. 202 /\ c.Z.b \in 0 .. Tight /\ c.T2d.b = Tight
  <2>1. fe_mul(q.T, d2).b = Tight
    BY <1>2, WithinAll, MulTight DEF Tight, MulIn
  <2>2. fe_add(q.Y, q.X).b \in 0 .. 202 /\ fe_sub(q.Y, q.X).b \in 0 .. 202
    BY WithinAll, SumOfTight
  <2> QED BY <1>1, <2>1, <2>2, WithinAll
<1>4. fe_add(p.Y, p.X).b \in 0 .. 202 /\ fe_sub(p.Y, p.X).b \in 0 .. 202
  BY WithinAll, SumOfTight
<1> HIDE DEF c
<1>5. ZZ.b = Tight /\ fe_mul(c.T2d, p.T).b = Tight
  BY <1>3, MulTight DEF Within, Coordinate, Tight, MulIn
<1>6. fe_add(ZZ, ZZ).b = 202
  BY <1>5, SumBound DEF Tight
<1>7. /\ fe_mul(fe_add(p.Y, p.X), c.YplusX).b = Tight /\ fe_mul(fe_sub(p.Y, p.X), c.YminusX).b = Tight
      /\ fe_mul(fe_add(p.Y, p.X), c.YminusX).b = Tight /\ fe_mul(fe_sub(p.Y, p.X), c.YplusX).b = Tight
  BY <1>3, <1>4, MulTight DEF MulIn
<1>8. 202 \in 0 .. 2 * Tight
  BY DEF Tight
<1>9. Within(ge_add(p, c), MulIn)
  BY <1>5, <1>6, <1>7, <1>8, CompletedFits DEF ge_add
<1>10. Within(ge_sub(p, c), MulIn)
  BY <1>5, <1>6, <1>7, <1>8, CompletedFits DEF ge_sub
<1> QED BY <1>9, <1>10 DEF c

LEMMA MaddFits ==
    ASSUME NEW p, Within(p, Tight), NEW q
    PROVE  Within(ge_madd(p, Affine(q)), MulIn) /\ Within(ge_msub(p, Affine(q)), MulIn)
<1> DEFINE t == Affine(q)
<1>1. t.yplusx.b = 100 /\ t.yminusx.b = 100 /\ t.xy2d.b = 100
  BY BoundOf DEF Affine, ge_precomp
<1> HIDE DEF t
<1>2. fe_add(p.Y, p.X).b \in 0 .. 202 /\ fe_sub(p.Y, p.X).b \in 0 .. 202 /\ fe_add(p.Z, p.Z).b \in 0 .. 2 * Tight
  <2>1. 2 * Tight = 202
    BY DEF Tight
  <2> QED BY <2>1, WithinAll, SumOfTight
<1>3. fe_mul(t.xy2d, p.T).b = Tight
  BY <1>1, MulTight DEF Within, Coordinate, Tight, MulIn
<1>4. /\ fe_mul(fe_add(p.Y, p.X), t.yplusx).b = Tight /\ fe_mul(fe_sub(p.Y, p.X), t.yminusx).b = Tight
      /\ fe_mul(fe_add(p.Y, p.X), t.yminusx).b = Tight /\ fe_mul(fe_sub(p.Y, p.X), t.yplusx).b = Tight
  BY <1>1, <1>2, MulTight DEF MulIn
<1>5. Within(ge_madd(p, t), MulIn)
  BY <1>2, <1>3, <1>4, CompletedFits DEF ge_madd
<1>6. Within(ge_msub(p, t), MulIn)
  BY <1>2, <1>3, <1>4, CompletedFits DEF ge_msub
<1> QED BY <1>5, <1>6 DEF t

\* The values of ge_frombytes_negate_vartime, by its own names.
ReadU(s) == fe_sub(fe_sq(fe_frombytes(s)), fe_1)
ReadV(s) == fe_add(fe_mul(fe_sq(fe_frombytes(s)), d), fe_1)
ReadV3(s) == fe_mul(fe_sq(ReadV(s)), ReadV(s))
ReadUv7(s) == fe_mul(fe_mul(fe_sq(ReadV3(s)), ReadV(s)), ReadU(s))
ReadX(s) == fe_mul(fe_mul(fe_pow22523(ReadUv7(s)), ReadV3(s)), ReadU(s))
ReadVxx(s) == fe_mul(fe_sq(ReadX(s)), ReadV(s))
NotU(s) == fe_isnonzero(fe_sub(ReadVxx(s), ReadU(s)))            \* v x^2 is not u
NotMinusU(s) == fe_isnonzero(fe_add(ReadVxx(s), ReadU(s)))       \* nor - u
Turned(s) == IF NotU(s) THEN fe_mul(ReadX(s), sqrtm1) ELSE ReadX(s)
Signed(s) == IF fe_isnegative(Turned(s)) = s.top THEN fe_neg(Turned(s)) ELSE Turned(s)

LEMMA ReadIs ==
    ASSUME NEW s
    PROVE  /\ ge_frombytes_negate_vartime(s).status = IF NotU(s) /\ NotMinusU(s) THEN -1 ELSE 0
           /\ ge_frombytes_negate_vartime(s).h
                = [X |-> Signed(s), Y |-> fe_frombytes(s), Z |-> fe_1, T |-> fe_mul(Signed(s), fe_frombytes(s))]
BY DEF ge_frombytes_negate_vartime, ge_p3, Signed, Turned, NotMinusU, NotU, ReadVxx, ReadX, ReadUv7, ReadV3, ReadV, ReadU

\* The point that is read from a string: its root is a product, negated or not.
LEMMA ReadIsTight ==
    ASSUME NEW s
    PROVE  /\ ReadU(s).b = 102 /\ ReadVxx(s).b = Tight /\ Turned(s).b = Tight
           /\ Within(ge_frombytes_negate_vartime(s).h, Tight)
<1> DEFINE y == fe_frombytes(s)
           u == ReadU(s)
           v == ReadV(s)
           v3 == ReadV3(s)
           uv7 == ReadUv7(s)
           x == ReadX(s)
<1>1. y.b = Tight /\ fe_1.b = 1 /\ d.b = 100 /\ sqrtm1.b = 100
  BY BoundOf DEF fe_frombytes, fe_1, d, sqrtm1
<1>2. fe_sq(y).b = Tight /\ fe_mul(fe_sq(y), d).b = Tight
  BY <1>1, SqTight, MulTight DEF Tight, MulIn
<1>3. u.b = 102 /\ v.b = 102
  BY <1>1, <1>2, SumBound DEF Tight, ReadU, ReadV
<1>4. fe_sq(v).b = Tight
  BY <1>3, SqTight DEF MulIn
<1>5. v3.b = Tight
  BY <1>3, <1>4, MulTight DEF Tight, MulIn, ReadV3
<1>6. fe_sq(v3).b = Tight
  BY <1>5, SqTight DEF Tight, MulIn
<1>7. fe_mul(fe_sq(v3), v).b = Tight
  BY <1>3, <1>6, MulTight DEF Tight, MulIn
<1>8. uv7.b = Tight
  BY <1>3, <1>7, MulTight DEF Tight, MulIn, ReadUv7
<1>9. fe_pow22523(uv7).b = Tight
  BY <1>8, SqTight DEF Tight, MulIn
<1>10. fe_mul(fe_pow22523(uv7), v3).b = Tight
  BY <1>5, <1>9, MulTight DEF Tight, MulIn
<1>11. x.b = Tight
  BY <1>3, <1>10, MulTight DEF Tight, MulIn, ReadX
<1>12. fe_mul(x, sqrtm1).b = Tight /\ fe_sq(x).b = Tight
  BY <1>1, <1>11, MulTight, SqTight DEF Tight, MulIn
<1>13. ReadVxx(s).b = Tight
  BY <1>3, <1>12, MulTight DEF Tight, MulIn, ReadVxx
<1>14. Turned(s).b = Tight
  BY <1>11, <1>12 DEF Turned
<1>15. fe_neg(Turned(s)).b = Tight
  BY <1>14, BoundOf DEF fe_neg
<1>16. Signed(s).b = Tight
  BY <1>14, <1>15 DEF Signed
<1>17. fe_mul(Signed(s), y).b = Tight
  BY <1>1, <1>16, MulTight DEF Tight, MulIn
<1> HIDE DEF y, u
<1>18. 1 \in 0 .. Tight /\ Tight \in 0 .. Tight
  BY DEF Tight
<1>19. Within(ge_frombytes_negate_vartime(s).h, Tight)
  <2>1. PICK hh : hh = ge_frombytes_negate_vartime(s).h
    OBVIOUS
  <2>2. hh.X.b = Tight /\ hh.Y.b = Tight /\ hh.Z.b = 1 /\ hh.T.b = Tight
    <3>1. hh = [X |-> Signed(s), Y |-> y, Z |-> fe_1, T |-> fe_mul(Signed(s), y)]
      BY <2>1, ReadIs DEF y
    <3> QED BY <1>1, <1>16, <1>17, <3>1
  <2> QED BY <1>18, <2>1, <2>2, WithinAll
<1> QED BY <1>3, <1>13, <1>14, <1>19 DEF u

LEMMA MadeIsTight ==
    ASSUME NEW p, NEW z PROVE Within(Extended(p, z), Tight) /\ Within(ge_p3_0, Tight)
<1>1. Tight \in 0 .. Tight /\ 0 \in 0 .. Tight /\ 1 \in 0 .. Tight
  BY DEF Tight
<1>2. fe_0.b = 0 /\ fe_1.b = 1
  BY BoundOf DEF fe_0, fe_1
<1>3. Within(ge_p3_0, Tight)
  BY <1>1, <1>2, WithinAll DEF ge_p3_0, ge_p3
<1>4. Within(Extended(p, z), Tight)
  BY <1>1, BoundOf, WithinAll DEF Extended, ge_p3
<1> QED BY <1>3, <1>4

LEMMA DoubledIsTight ==
    ASSUME NEW p, Within(p, Tight)
    PROVE  Within(ge_p1p1_to_p3(ge_p2_dbl(ge_p1p1_to_p2(ge_p3_dbl(p)))), Tight)
<1>1. Within(ge_p3_dbl(p), MulIn)
  BY WithinAll, DoubleFits DEF ge_p3_dbl, ge_p3_to_p2, ge_p2, fe_copy
<1>2. PICK q : q = ge_p3_dbl(p)
  OBVIOUS
<1>3. fe_mul(q.X, q.T).b = Tight /\ fe_mul(q.Y, q.Z).b = Tight /\ fe_mul(q.Z, q.T).b = Tight
  BY <1>1, <1>2, WithinAll, MulTight
<1>4. ge_p1p1_to_p2(q) = [X |-> fe_mul(q.X, q.T), Y |-> fe_mul(q.Y, q.Z), Z |-> fe_mul(q.Z, q.T)]
  BY DEF ge_p1p1_to_p2, ge_p2
<1>5. Tight \in 0 .. Tight
  BY DEF Tight
<1> QED BY <1>2, <1>3, <1>4, <1>5, DoubleFits, CompletedIsTight

-----------------------------------------------------------------------------
(* Numbers modulo Q. *)

a \cong b == \E k \in Int : a - b = k * Q

LEMMA QIsOdd == Q \in Nat /\ Q >= 5 /\ Q % 8 = 5
<1>1. Q \in Nat /\ Q % 8 = 5
  BY FieldAssumption
<1> QED BY <1>1

LEMMA SameIsSame == ASSUME NEW a \in Int PROVE a \cong a
<1>1. a - a = 0 * Q
  BY QIsOdd
<1> QED BY <1>1 DEF \cong

LEMMA SameBack == ASSUME NEW a \in Int, NEW b \in Int, a \cong b PROVE b \cong a
<1>1. PICK k \in Int : a - b = k * Q
  BY DEF \cong
<1>2. b - a = (-k) * Q
  BY <1>1, QIsOdd
<1> QED BY <1>2 DEF \cong

LEMMA SameOn ==
    ASSUME NEW a \in Int, NEW b \in Int, NEW c \in Int, a \cong b, b \cong c
    PROVE  a \cong c
<1>1. PICK k \in Int : a - b = k * Q
  BY DEF \cong
<1>2. PICK l \in Int : b - c = l * Q
  BY DEF \cong
<1>3. a - c = (k + l) * Q
  BY <1>1, <1>2, QIsOdd
<1> QED BY <1>3 DEF \cong

LEMMA SameSum ==
    ASSUME NEW a \in Int, NEW b \in Int, NEW c \in Int, NEW n \in Int, a \cong b, c \cong n
    PROVE  a + c \cong b + n /\ a - c \cong b - n
<1>1. PICK k \in Int : a - b = k * Q
  BY DEF \cong
<1>2. PICK l \in Int : c - n = l * Q
  BY DEF \cong
<1>3. (a + c) - (b + n) = (k + l) * Q
  BY <1>1, <1>2, QIsOdd
<1>4. (a - c) - (b - n) = (k - l) * Q
  BY <1>1, <1>2, QIsOdd
<1> QED BY <1>3, <1>4 DEF \cong

LEMMA SameProduct ==
    ASSUME NEW a \in Int, NEW b \in Int, NEW c \in Int, NEW n \in Int, a \cong b, c \cong n
    PROVE  a * c \cong b * n
<1>1. PICK k \in Int : a - b = k * Q
  BY DEF \cong
<1>2. PICK l \in Int : c - n = l * Q
  BY DEF \cong
<1>3. a = b + k * Q /\ c = n + l * Q
  BY <1>1, <1>2, QIsOdd
<1>4. a * c = (b + k * Q) * (n + l * Q)
  BY <1>3
<1>5. (b + k * Q) * (n + l * Q) - b * n = (k * n + b * l + k * l * Q) * Q
  BY QIsOdd
<1>6. a * c - b * n = (k * n + b * l + k * l * Q) * Q
  BY <1>4, <1>5
<1>7. k * n + b * l + k * l * Q \in Int
  BY QIsOdd
<1> QED BY <1>6, <1>7 DEF \cong

LEMMA SameTimes ==
    ASSUME NEW a \in Int, NEW b \in Int, NEW c \in Int, a \cong b PROVE c * a \cong c * b
BY SameIsSame, SameProduct

LEMMA SameByOne ==
    ASSUME NEW a \in Int, NEW c \in Int, c \cong 1 PROVE a * c \cong a
<1>1. PICK k \in Int : c - 1 = k * Q
  BY DEF \cong
<1>2. a * c - a = a * (c - 1) /\ a * (k * Q) = (a * k) * Q /\ a * k \in Int
  BY QIsOdd
<1>3. a * c - a = (a * k) * Q
  BY <1>1, <1>2
<1> QED BY <1>2, <1>3 DEF \cong

LEMMA SameSquare ==
    ASSUME NEW a \in Int, NEW b \in Int, a \cong b PROVE a * a \cong b * b
BY SameProduct

LEMMA ModIsSame ==
    ASSUME NEW a \in Int PROVE a % Q \in 0 .. Q - 1 /\ (a % Q) \cong a /\ a \cong (a % Q)
<1>1. a = (a \div Q) * Q + (a % Q) /\ a % Q \in 0 .. Q - 1 /\ a \div Q \in Int
  BY QIsOdd
<1>2. PICK k \in Int, r \in 0 .. Q - 1 : k = a \div Q /\ r = a % Q
  BY <1>1
<1>3. a - r = k * Q
  BY <1>1, <1>2, QIsOdd
<1>4. a \cong r
  BY <1>3 DEF \cong
<1>5. r \cong a
  BY <1>4, SameBack, QIsOdd
<1> QED BY <1>2, <1>4, <1>5

LEMMA SameIsEqual ==
    ASSUME NEW a \in 0 .. Q - 1, NEW b \in 0 .. Q - 1, a \cong b PROVE a = b
<1>1. PICK k \in Int : a - b = k * Q
  BY DEF \cong
<1>2. CASE k >= 1
  <2>1. k * Q >= Q
    BY <1>2, QIsOdd
  <2> QED BY <1>1, <2>1, QIsOdd
<1>3. CASE k <= -1
  <2>1. k * Q <= -Q
    BY <1>3, QIsOdd
  <2> QED BY <1>1, <2>1, QIsOdd
<1>4. CASE k = 0
  BY <1>1, <1>4, QIsOdd
<1> QED BY <1>2, <1>3, <1>4

LEMMA SameMod ==
    ASSUME NEW a \in Int, NEW b \in Int PROVE a % Q = b % Q <=> a \cong b
<1>1. ASSUME a \cong b PROVE a % Q = b % Q
  <2>1. (a % Q) \cong b
    BY <1>1, ModIsSame, SameOn, QIsOdd
  <2>2. (a % Q) \cong (b % Q)
    BY <2>1, ModIsSame, SameOn, QIsOdd
  <2> QED BY <2>2, ModIsSame, SameIsEqual
<1>2. ASSUME a % Q = b % Q PROVE a \cong b
  <2>1. PICK r \in 0 .. Q - 1 : r = a % Q /\ r = b % Q
    BY <1>2, ModIsSame
  <2>2. a \cong r /\ r \cong b
    BY <2>1, ModIsSame
  <2> QED BY <2>2, SameOn, QIsOdd
<1> QED BY <1>1, <1>2

LEMMA SmallMod == ASSUME NEW a \in 0 .. Q - 1 PROVE a % Q = a
BY QIsOdd, ModIsSame, SameIsEqual

\* A difference is 0 exactly if both are the same.
LEMMA SameIfNone ==
    ASSUME NEW a \in Int, NEW b \in Int PROVE a \cong b <=> a - b \cong 0
<1>1. (a - b) - 0 = a - b
  OBVIOUS
<1> QED BY <1>1 DEF \cong

\* x has an inverse unless it is 0.
LEMMA Inverse ==
    ASSUME NEW a \in Int, ~ (a \cong 0)
    PROVE  /\ Power(a % Q, Q - 2) \in 0 .. Q - 1
           /\ a * Power(a % Q, Q - 2) \cong 1
<1>1. PICK x \in 0 .. Q - 1 : x = a % Q /\ a \cong x
  BY ModIsSame
<1>2. x # 0
  BY <1>1
<1>3. PICK r \in 0 .. Q - 1 : r = Power(x, Q - 2) /\ (x * r) % Q = 1
  <2>1. x \in 1 .. Q - 1
    BY <1>2
  <2> QED BY <2>1, FieldAssumption
<1>4. x * r \cong 1
  <2>1. PICK n \in Int : n = x * r
    BY QIsOdd
  <2>2. n \cong 1
    BY <1>3, <2>1, ModIsSame
  <2> QED BY <2>1, <2>2
<1>5. x \in Int /\ r \in Int
  BY QIsOdd
<1>6. a * r \cong 1
  <2>1. PICK m \in Int, n \in Int : m = a * r /\ n = x * r
    BY <1>5
  <2>2. m \cong n
    BY <1>1, <1>5, <2>1, SameIsSame, SameProduct
  <2> QED BY <1>4, <2>1, <2>2, SameOn
<1> QED BY <1>1, <1>3, <1>6

LEMMA HasInverse == ASSUME NEW a \in Int, ~ (a \cong 0) PROVE \E r \in Int : a * r \cong 1
<1>1. PICK r \in 0 .. Q - 1 : r = Power(a % Q, Q - 2) /\ a * r \cong 1
  BY Inverse
<1>2. r \in Int
  BY QIsOdd
<1> QED BY <1>1, <1>2

LEMMA Cancels ==
    ASSUME NEW a \in Int, NEW b \in Int, NEW c \in Int, ~ (c \cong 0), c * a \cong c * b
    PROVE  a \cong b
<1>1. PICK r \in Int : c * r \cong 1
  BY HasInverse
<1>2. PICK ca \in Int, cb \in Int, one \in Int : ca = c * a /\ cb = c * b /\ one = c * r
  OBVIOUS
<1>3. r * ca \cong r * cb /\ a * one \cong a /\ b * one \cong b
  <2>1. ca \cong cb /\ one \cong 1
    BY <1>1, <1>2
  <2>2. r * ca \cong r * cb
    BY <2>1, SameTimes
  <2> QED BY <2>1, <2>2, SameByOne
<1>4. r * ca = a * one /\ r * cb = b * one
  BY <1>2
<1>5. PICK m \in Int, n \in Int : m = a * one /\ n = b * one
  OBVIOUS
<1>6. m \cong n /\ m \cong a /\ n \cong b
  BY <1>3, <1>4, <1>5
<1> QED BY <1>6, SameBack, SameOn

LEMMA NoneFromTwo ==
    ASSUME NEW a \in Int, NEW b \in Int, ~ (a \cong 0), ~ (b \cong 0) PROVE ~ (a * b \cong 0)
<1> SUFFICES ASSUME a * b \cong 0 PROVE FALSE
  OBVIOUS
<1>1. a * b \cong a * 0
  OBVIOUS
<1> QED BY <1>1, Cancels

LEMMA TwoIsSome == ~ (2 \cong 0) /\ ~ (1 \cong 0)
BY QIsOdd, SameIsEqual

-----------------------------------------------------------------------------
(* The curve: which of its facts make the formulas complete. *)

OnCurve(x, y) == y * y - x * x \cong 1 + D * (x * x * y * y)

\* 1 and this, added or subtracted, are the denominators of a sum.
Twist(x1, y1, x2, y2) == D * (x1 * x2 * y1 * y2)

LEMMA CurveSays ==
    ASSUME NEW x \in 0 .. Q - 1, NEW y \in 0 .. Q - 1
    PROVE  <<x, y>> \in Curve <=> OnCurve(x, y)
<1>1. D \in Int /\ x \in Int /\ y \in Int
  BY FieldAssumption, QIsOdd
<1>2. PICK c \in Int, n \in Int : c = y * y - x * x - 1 /\ n = x * x * y * y
  BY <1>1
<1>3. PICK m \in Int : m = n % Q /\ m \cong n
  BY ModIsSame, QIsOdd
<1>4. PICK dm \in Int, dn \in Int : dm = D * m /\ dn = D * n
  BY <1>1
<1>5. dm \cong dn
  BY <1>1, <1>3, <1>4, SameTimes
<1>6. c - dm \cong c - dn
  BY <1>5, SameIsSame, SameSum
<1>7. <<x, y>> \in Curve <=> (c - dm) % Q = 0
  BY <1>2, <1>3, <1>4 DEF Curve
<1>8. (c - dm) % Q = 0 <=> c - dm \cong 0
  <2>1. 0 % Q = 0
    BY SmallMod, QIsOdd
  <2>2. c - dm \in Int
    OBVIOUS
  <2> QED BY <2>1, <2>2, SameMod
<1>9. c - dm \cong 0 <=> c - dn \cong 0
  <2>1. c - dm \in Int /\ c - dn \in Int
    OBVIOUS
  <2> QED BY <1>6, <2>1, SameBack, SameOn
<1>10. c - dn \cong 0 <=> y * y - x * x \cong 1 + dn
  <2>1. PICK fe \in Int, g \in Int : fe = y * y - x * x /\ g = 1 + dn
    BY <1>1
  <2>2. fe - g = c - dn
    BY <1>2, <2>1
  <2> QED BY <2>1, <2>2, SameIfNone
<1> QED BY <1>2, <1>4, <1>7, <1>8, <1>9, <1>10 DEF OnCurve

LEMMA NoSquareTimesD ==
    ASSUME NEW a \in Int, NEW b \in Int, NEW fe \in {D, Root}, ~ (b \cong 0)
    PROVE  ~ (a * a \cong fe * (b * b))
<1> SUFFICES ASSUME a * a \cong fe * (b * b) PROVE FALSE
  OBVIOUS
<1>1. fe \in 0 .. Q - 1 /\ fe \in Int
  BY FieldAssumption, QIsOdd
<1>2. PICK r \in Int : b * r \cong 1
  BY HasInverse
<1>3. PICK ar \in Int, br \in Int, aa \in Int, bb \in Int, rr \in Int :
          ar = a * r /\ br = b * r /\ aa = a * a /\ bb = fe * (b * b) /\ rr = r * r
  BY <1>1
<1>4. rr * aa \cong rr * bb
  BY <1>3, SameTimes
<1>5. rr * aa = ar * ar /\ rr * bb = fe * (br * br)
  BY <1>1, <1>3
<1>6. br * br \cong 1
  <2>1. br * br \cong br
    BY <1>2, <1>3, SameByOne
  <2>2. br * br \in Int
    OBVIOUS
  <2> QED BY <1>2, <1>3, <2>1, <2>2, SameOn
<1>7. fe * (br * br) \cong fe
  BY <1>1, <1>6, SameByOne
<1>8. PICK x \in 0 .. Q - 1 : x \cong ar
  BY ModIsSame
<1>9. x * x \cong ar * ar
  BY <1>8, SameSquare, QIsOdd
<1>10. PICK m \in Int, n \in Int, l \in Int : m = x * x /\ n = ar * ar /\ l = fe * (br * br)
  BY <1>1, QIsOdd
<1>11. m \cong fe
  <2>1. m \cong n /\ n \cong l /\ l \cong fe
    BY <1>4, <1>5, <1>7, <1>9, <1>10
  <2> QED BY <1>1, <2>1, SameOn
<1>12. m % Q = fe
  BY <1>1, <1>11, SameMod, SmallMod
<1>13. Squared(x) = fe
  BY <1>10, <1>12 DEF Squared
<1> QED BY <1>13, FieldAssumption

LEMMA NoneTimes ==
    ASSUME NEW hh \in Int, hh \cong 0, NEW c \in Int, NEW n \in Int, n = c * hh
    PROVE  n \cong 0
<1>1. PICK k \in Int : hh - 0 = k * Q
  BY DEF \cong
<1>2. hh = k * Q
  BY <1>1, QIsOdd
<1>3. c * (k * Q) - 0 = (c * k) * Q /\ c * k \in Int
  BY QIsOdd
<1> QED BY <1>2, <1>3 DEF \cong

LEMMA NoneSum ==
    ASSUME NEW hh \in Int, NEW k \in Int, hh \cong 0, k \cong 0, NEW n \in Int, n = hh + k
    PROVE  n \cong 0
<1>1. hh + k \cong 0 + 0
  BY SameSum
<1> QED BY <1>1

LEMMA CurveNone ==
    ASSUME NEW x \in Int, NEW y \in Int, OnCurve(x, y)
    PROVE  \E hh \in Int : hh = y * y - x * x - (1 + D * (x * x * y * y)) /\ hh \cong 0
<1>1. D \in Int
  BY FieldAssumption, QIsOdd
<1>2. PICK a \in Int, b \in Int : a = y * y - x * x /\ b = 1 + D * (x * x * y * y)
  BY <1>1
<1>3. a - b \cong 0
  BY <1>2, SameIfNone DEF OnCurve
<1> QED BY <1>2, <1>3

LEMMA SquaresMeet ==
    ASSUME NEW x1 \in Int, NEW y1 \in Int, NEW x2 \in Int, NEW y2 \in Int, NEW im \in Int,
           OnCurve(x1, y1), OnCurve(x2, y2), im * im + 1 \cong 0,
           NEW s \in Int, s = Twist(x1, y1, x2, y2), s * s \cong 1,
           NEW u \in Int, u = im * x1 + s * y1,
           NEW w \in Int, w = (x1 * y1) * (im * x2 + y2)
    PROVE  u * u \cong D * (w * w)
<1>1. PICK dd \in Int : dd = D
  BY FieldAssumption, QIsOdd
<1>2. PICK h1 \in Int, h2 \in Int : h1 = im * im + 1 /\ h2 = s * s - 1
  OBVIOUS
<1>3. PICK h3 \in Int : h3 = y1 * y1 - x1 * x1 - (1 + dd * (x1 * x1 * y1 * y1)) /\ h3 \cong 0
  BY <1>1, CurveNone
<1>4. PICK h4 \in Int : h4 = y2 * y2 - x2 * x2 - (1 + dd * (x2 * x2 * y2 * y2)) /\ h4 \cong 0
  BY <1>1, CurveNone
<1>5. h1 \cong 0 /\ h2 \cong 0
  <2>1. PICK n \in Int : n = s * s
    OBVIOUS
  <2>2. n - 1 \cong 0
    BY <2>1, SameIfNone
  <2> QED BY <1>2, <2>1, <2>2
<1>6. PICK c4 \in Int : c4 = -(dd * (x1 * x1 * y1 * y1))
  OBVIOUS
<1>7. PICK c1 \in Int, c2 \in Int : c1 = x1 * x1 + c4 * (x2 * x2) /\ c2 = y1 * y1 - 1
  OBVIOUS
<1>8. PICK m1 \in Int, m2 \in Int, m4 \in Int : m1 = c1 * h1 /\ m2 = c2 * h2 /\ m4 = c4 * h4
  OBVIOUS
<1>9. PICK a \in Int, b \in Int : a = u * u /\ b = dd * (w * w)
  OBVIOUS
<1>10. a - b = (m1 + m2) + (h3 + m4)
  <2>1. s = dd * (x1 * x2 * y1 * y2)
    BY <1>1 DEF Twist
  <2> QED BY <1>2, <1>3, <1>4, <1>6, <1>7, <1>8, <1>9, <2>1
<1>11. m1 \cong 0 /\ m2 \cong 0 /\ m4 \cong 0
  BY <1>4, <1>5, <1>8, NoneTimes
<1>12. PICK l \in Int, n \in Int : l = m1 + m2 /\ n = h3 + m4
  OBVIOUS
<1>13. l \cong 0 /\ n \cong 0
  BY <1>3, <1>11, <1>12, NoneSum
<1>14. a - b \cong 0
  <2>1. a - b \in Int /\ a - b = l + n
    BY <1>10, <1>12
  <2> QED BY <1>13, <2>1, NoneSum
<1> QED BY <1>1, <1>9, <1>14, SameIfNone

LEMMA RootIs == Root \in Int /\ Root * Root + 1 \cong 0 /\ (-Root) * (-Root) + 1 \cong 0
<1>1. PICK im \in Int, n \in Int : im = Root /\ n = im * im
  BY FieldAssumption, QIsOdd
<1>2. n % Q = Q - 1
  BY <1>1, FieldAssumption DEF Squared
<1>3. n \cong Q - 1
  BY <1>2, ModIsSame
<1>4. (n + 1) - 0 = (n - (Q - 1)) + Q
  BY QIsOdd
<1>5. PICK k \in Int : n - (Q - 1) = k * Q
  BY <1>3 DEF \cong
<1>6. (n + 1) - 0 = (k + 1) * Q
  BY <1>5, QIsOdd
<1>7. n + 1 \cong 0
  BY <1>6 DEF \cong
<1>8. im * im + 1 = n + 1 /\ (-im) * (-im) + 1 = n + 1
  BY <1>1
<1> QED BY <1>1, <1>7, <1>8

LEMMA TwiceNone == ASSUME NEW a \in Int, 2 * a \cong 0 PROVE a \cong 0
<1>1. 2 * 0 = 0
  OBVIOUS
<1> QED BY <1>1, Cancels, TwoIsSome

LEMMA OneLess ==
    ASSUME NEW s \in Int, NEW n \in Int, n = 1 - s * s
    PROVE  n = (1 - s) * (1 + s) /\ n = (1 + s) * (1 - s)
OBVIOUS

\* The denominators of a sum are never 0.
LEMMA Complete ==
    ASSUME NEW x1 \in Int, NEW y1 \in Int, NEW x2 \in Int, NEW y2 \in Int,
           OnCurve(x1, y1), OnCurve(x2, y2), NEW s \in Int, s = Twist(x1, y1, x2, y2)
    PROVE  ~ (1 + s \cong 0) /\ ~ (1 - s \cong 0)
<1>1. D \in Int
  BY FieldAssumption, QIsOdd
<1>2. ASSUME s * s \cong 1 PROVE FALSE
  <2>1. PICK g \in Int, k \in Int : g = x1 * y1 /\ k = x2 * y2
    OBVIOUS
  <2>2. PICK m \in Int, n \in Int, ss \in Int : m = D * k /\ n = D * g * x2 /\ ss = s * s
    BY <1>1
  <2>3. s = m * g /\ s = n * y2
    BY <1>1, <2>1, <2>2 DEF Twist
  <2>4. ~ (s \cong 0)
    <3> SUFFICES ASSUME s \cong 0 PROVE FALSE
      OBVIOUS
    <3>1. ss \cong 0
      BY <2>2, NoneTimes
    <3>2. ss \cong 1
      BY <1>2, <2>2
    <3> QED BY <3>1, <3>2, SameBack, SameOn, TwoIsSome
  <2>5. ~ (g \cong 0) /\ ~ (y2 \cong 0)
    BY <2>3, <2>4, NoneTimes
  <2>6. ASSUME NEW im \in Int, im * im + 1 \cong 0, NEW v \in Int, v = im * x2 + y2 PROVE v \cong 0
    <3>1. PICK u \in Int, w \in Int : u = im * x1 + s * y1 /\ w = g * v
      OBVIOUS
    <3>2. w = (x1 * y1) * (im * x2 + y2)
      BY <2>1, <2>6, <3>1
    <3>3. u * u \cong D * (w * w)
      BY <1>2, <2>6, <3>1, <3>2, SquaresMeet
    <3>4. w \cong 0
      BY <3>3, NoSquareTimesD
    <3> QED BY <2>5, <3>1, <3>4, NoneFromTwo
  <2>7. PICK im \in Int, j \in Int : im = Root /\ j = -Root
    BY RootIs
  <2>8. PICK a \in Int, b \in Int : a = im * x2 + y2 /\ b = j * x2 + y2
    OBVIOUS
  <2>9. a \cong 0 /\ b \cong 0
    BY <2>6, <2>7, <2>8, RootIs
  <2>10. PICK t \in Int : t = 2 * y2 /\ t = a + b
    BY <2>7, <2>8
  <2>11. t \cong 0
    BY <2>9, <2>10, NoneSum
  <2> QED BY <2>5, <2>10, <2>11, TwiceNone
<1>3. PICK p \in Int, q \in Int, ss \in Int : p = 1 + s /\ q = 1 - s /\ ss = s * s
  OBVIOUS
<1>4. ASSUME p \cong 0 \/ q \cong 0 PROVE FALSE
  <2>1. PICK n \in Int : n = 1 - ss
    OBVIOUS
  <2>2. n = q * p /\ n = p * q
    BY <1>3, <2>1, OneLess
  <2>3. n \cong 0
    BY <1>4, <2>2, NoneTimes
  <2>4. ss \cong 1
    BY <2>1, <2>3, SameIfNone, SameBack
  <2> QED BY <1>2, <1>3, <2>4
<1> QED BY <1>3, <1>4

\* The equation of the curve for X / p and Y / q, without the divisions.
Quartic(p, q, X, Y) ==
    (p * Y) * (p * Y) - (q * X) * (q * X) - (p * q) * (p * q) - D * ((X * Y) * (X * Y))

\* The sum of two points, without its divisions, meets the equation of the curve.
LEMMA SumMeets ==
    ASSUME NEW x1 \in Int, NEW y1 \in Int, NEW x2 \in Int, NEW y2 \in Int,
           OnCurve(x1, y1), OnCurve(x2, y2), NEW tw \in Int, tw = Twist(x1, y1, x2, y2),
           NEW N \in Int, N = x1 * y2 + x2 * y1, NEW M \in Int, M = y1 * y2 + x1 * x2,
           NEW p \in Int, p = 1 + tw, NEW q \in Int, q = 1 - tw
    PROVE  Quartic(p, q, N, M) \cong 0
<1>1. PICK dd \in Int : dd = D
  BY FieldAssumption, QIsOdd
<1>2. PICK F1 \in Int, F2 \in Int, g1 \in Int, g2 \in Int :
          /\ F1 = y1 * y1 - x1 * x1 /\ F2 = y2 * y2 - x2 * x2
          /\ g1 = dd * (x1 * x1 * y1 * y1) /\ g2 = dd * (x2 * x2 * y2 * y2)
  OBVIOUS
<1>3. PICK h1 \in Int : h1 = F1 - (1 + g1) /\ h1 \cong 0
  BY <1>1, <1>2, CurveNone
<1>4. PICK h2 \in Int : h2 = F2 - (1 + g2) /\ h2 \cong 0
  BY <1>1, <1>2, CurveNone
<1>5. PICK ee \in Int : ee = g1 * g2
  OBVIOUS
<1>6. PICK c1 \in Int, c2 \in Int :
          /\ c1 = (1 + ee) * F2 - g2 * (1 + g1 + F1)
          /\ c2 = (1 + ee) * (1 + g1) - g1 * (1 + g2 + F2)
  OBVIOUS
<1>7. PICK m1 \in Int, m2 \in Int : m1 = c1 * h1 /\ m2 = c2 * h2
  OBVIOUS
<1>8. PICK n \in Int :
          n = (p * M) * (p * M) - (q * N) * (q * N) - (p * q) * (p * q) - dd * ((N * M) * (N * M))
  OBVIOUS
<1>9. tw = dd * (x1 * x2 * y1 * y2)
  BY <1>1 DEF Twist
<1>10. tw * tw = ee
  BY <1>2, <1>5, <1>9
<1>11. n = (1 + ee) * (F1 * F2) - (1 - ee) * (1 - ee) - g1 * (F2 * F2) - g2 * (F1 * F1)
  BY <1>2, <1>5, <1>8, <1>9
<1>12. m1 + m2 = (1 + ee) * (F1 * F2) - (1 - ee) * (1 - ee) - g1 * (F2 * F2) - g2 * (F1 * F1)
  BY <1>3, <1>4, <1>5, <1>6, <1>7
<1>13. n \cong 0
  <2>1. m1 \cong 0 /\ m2 \cong 0
    BY <1>3, <1>4, <1>7, NoneTimes
  <2>2. n = m1 + m2
    BY <1>11, <1>12
  <2> QED BY <2>1, <2>2, NoneSum
<1> QED BY <1>1, <1>8, <1>13 DEF Quartic

LEMMA SameQuartic ==
    ASSUME NEW p \in Int, NEW q \in Int, NEW X \in Int, NEW Y \in Int, NEW N \in Int, NEW M \in Int,
           X \cong N, Y \cong M
    PROVE  Quartic(p, q, X, Y) \cong Quartic(p, q, N, M)
<1>1. PICK dd \in Int : dd = D
  BY FieldAssumption, QIsOdd
<1>2. PICK a \in Int, b \in Int, c \in Int, k \in Int, l \in Int, m \in Int :
          a = p * Y /\ b = p * M /\ c = q * X /\ k = q * N /\ l = X * Y /\ m = N * M
  OBVIOUS
<1>3. a \cong b /\ c \cong k /\ l \cong m
  BY <1>2, SameTimes, SameProduct
<1>4. PICK aa \in Int, bb \in Int, cc \in Int, kk \in Int, ll \in Int, mm \in Int, o \in Int :
          aa = a * a /\ bb = b * b /\ cc = c * c /\ kk = k * k /\ ll = l * l /\ mm = m * m /\ o = (p * q) * (p * q)
  OBVIOUS
<1>5. aa \cong bb /\ cc \cong kk /\ ll \cong mm /\ o \cong o
  BY <1>3, <1>4, SameSquare, SameIsSame
<1>6. PICK dl \in Int, dm \in Int : dl = dd * ll /\ dm = dd * mm
  OBVIOUS
<1>7. dl \cong dm
  BY <1>5, <1>6, SameTimes
<1>8. aa - cc \cong bb - kk
  BY <1>5, SameSum
<1>9. PICK r \in Int, s \in Int : r = aa - cc /\ s = bb - kk
  OBVIOUS
<1>10. r - o \cong s - o
  BY <1>5, <1>8, <1>9, SameSum
<1>11. PICK t \in Int, u \in Int : t = r - o /\ u = s - o
  OBVIOUS
<1>12. t - dl \cong u - dm
  BY <1>7, <1>10, <1>11, SameSum
<1> QED BY <1>1, <1>2, <1>4, <1>6, <1>9, <1>11, <1>12 DEF Quartic

LEMMA SumIsOnCurve ==
    ASSUME NEW x1 \in Int, NEW y1 \in Int, NEW x2 \in Int, NEW y2 \in Int,
           OnCurve(x1, y1), OnCurve(x2, y2), NEW tw \in Int, tw = Twist(x1, y1, x2, y2),
           NEW x3 \in Int, NEW y3 \in Int,
           x3 * (1 + tw) \cong x1 * y2 + x2 * y1, y3 * (1 - tw) \cong y1 * y2 + x1 * x2
    PROVE  OnCurve(x3, y3)
<1>1. PICK dd \in Int : dd = D
  BY FieldAssumption, QIsOdd
<1>2. PICK p \in Int, q \in Int, N \in Int, M \in Int :
          p = 1 + tw /\ q = 1 - tw /\ N = x1 * y2 + x2 * y1 /\ M = y1 * y2 + x1 * x2
  OBVIOUS
<1>3. PICK X \in Int, Y \in Int : X = x3 * p /\ Y = y3 * q
  OBVIOUS
<1>4. X \cong N /\ Y \cong M
  BY <1>2, <1>3
<1>5. PICK k \in Int, l \in Int : k = Quartic(p, q, X, Y) /\ l = Quartic(p, q, N, M)
  BY <1>1 DEF Quartic
<1>6. k \cong l
  BY <1>4, <1>5, SameQuartic
<1>7. l \cong 0
  <2>1. Quartic(p, q, N, M) \cong 0
    BY <1>2, SumMeets
  <2> QED BY <1>5, <2>1
<1>8. k \cong 0
  BY <1>6, <1>7, SameOn
<1>9. PICK hh \in Int, o \in Int, w \in Int :
          o = p * q /\ w = o * o /\ hh = (y3 * y3 - x3 * x3) - (1 + dd * (x3 * x3 * y3 * y3))
  OBVIOUS
<1>10. k = w * hh
  <2>1. k = (p * Y) * (p * Y) - (q * X) * (q * X) - (p * q) * (p * q) - dd * ((X * Y) * (X * Y))
    BY <1>1, <1>5 DEF Quartic
  <2> QED BY <1>3, <1>9, <2>1
<1>11. ~ (w \cong 0)
  <2>1. ~ (p \cong 0) /\ ~ (q \cong 0)
    BY <1>2, Complete
  <2>2. ~ (o \cong 0)
    BY <1>9, <2>1, NoneFromTwo
  <2> QED BY <1>9, <2>2, NoneFromTwo
<1>12. hh \cong 0
  BY <1>8, <1>10, <1>11, NoneFromTwo
<1>13. PICK a \in Int, b \in Int : a = y3 * y3 - x3 * x3 /\ b = 1 + dd * (x3 * x3 * y3 * y3)
  OBVIOUS
<1>14. a \cong b
  BY <1>9, <1>12, <1>13, SameIfNone
<1> QED BY <1>1, <1>13, <1>14 DEF OnCurve

-----------------------------------------------------------------------------
(* The sum that the points are compared with is a sum of the curve. *)

LEMMA SameFromOne ==
    ASSUME NEW a \in Int, NEW b \in Int, a \cong b PROVE 1 + a \cong 1 + b /\ 1 - a \cong 1 - b
<1>1. 1 \cong 1
  BY SameIsSame
<1> QED BY <1>1, SameSum

LEMMA CurvePoint ==
    ASSUME NEW p \in Curve
    PROVE  /\ p = <<p[1], p[2]>> /\ p[1] \in 0 .. Q - 1 /\ p[2] \in 0 .. Q - 1
           /\ p[1] \in Int /\ p[2] \in Int /\ OnCurve(p[1], p[2])
<1>1. p \in (0 .. Q - 1) \X (0 .. Q - 1)
  BY DEF Curve
<1>2. p = <<p[1], p[2]>> /\ p[1] \in 0 .. Q - 1 /\ p[2] \in 0 .. Q - 1
  BY <1>1
<1>3. p[1] \in Int /\ p[2] \in Int
  BY <1>2, QIsOdd
<1> QED BY <1>2, <1>3, CurveSays

LEMMA OverTimes ==
    ASSUME NEW n \in Int, NEW m \in Int, ~ (m \cong 0)
    PROVE  Over(n, m) \in 0 .. Q - 1 /\ Over(n, m) * m \cong n
<1>1. PICK r \in Int : r = Power(m % Q, Q - 2) /\ m * r \cong 1
  BY Inverse, QIsOdd
<1>2. PICK nr \in Int, one \in Int : nr = n * r /\ one = m * r
  OBVIOUS
<1>3. PICK o \in 0 .. Q - 1 : o = nr % Q /\ o \cong nr
  BY ModIsSame
<1>4. o = Over(n, m)
  BY <1>1, <1>2, <1>3 DEF Over
<1>5. PICK a \in Int, b \in Int, c \in Int : a = m * o /\ b = m * nr /\ c = n * one
  BY QIsOdd
<1>6. a \cong b
  BY <1>3, <1>5, SameTimes, QIsOdd
<1>7. b = c
  BY <1>2, <1>5
<1>8. c \cong n
  BY <1>1, <1>2, <1>5, SameByOne
<1>9. a \cong n
  BY <1>6, <1>7, <1>8, SameOn
<1>10. o * m = a
  BY <1>5, QIsOdd
<1> QED BY <1>4, <1>9, <1>10

LEMMA SumSays ==
    ASSUME NEW p \in Curve, NEW q \in Curve, NEW tw \in Int, tw = Twist(p[1], p[2], q[1], q[2])
    PROVE  /\ PointSum(p, q) \in Curve
           /\ PointSum(p, q)[1] * (1 + tw) \cong p[1] * q[2] + p[2] * q[1]
           /\ PointSum(p, q)[2] * (1 - tw) \cong p[2] * q[2] + p[1] * q[1]
<1>1. PICK x1 \in Int, y1 \in Int : p[1] = x1 /\ p[2] = y1 /\ OnCurve(x1, y1)
  BY CurvePoint
<1>2. PICK x2 \in Int, y2 \in Int : q[1] = x2 /\ q[2] = y2 /\ OnCurve(x2, y2)
  BY CurvePoint
<1>3. PICK dd \in Int : dd = D
  BY FieldAssumption, QIsOdd
<1>4. PICK a \in Int, b \in Int : a = x1 * x2 * y1 /\ b = a % Q /\ b \cong a
  <2>1. PICK a \in Int : a = x1 * x2 * y1
    OBVIOUS
  <2>2. PICK b \in 0 .. Q - 1 : b = a % Q /\ b \cong a
    BY ModIsSame
  <2> QED BY <2>1, <2>2, QIsOdd
<1>5. PICK c \in Int, k \in Int : c = y2 * b /\ k = y2 * a
  OBVIOUS
<1>6. PICK fe \in Int, g \in Int : fe = dd * c /\ g = dd * k
  OBVIOUS
<1>7. fe \cong g
  BY <1>4, <1>5, <1>6, SameTimes
<1>8. g = tw
  BY <1>1, <1>2, <1>3, <1>4, <1>5, <1>6 DEF Twist
<1>9. 1 + fe \cong 1 + tw /\ 1 - fe \cong 1 - tw
  BY <1>7, <1>8, SameFromOne
<1>10. ~ (1 + tw \cong 0) /\ ~ (1 - tw \cong 0)
  BY <1>1, <1>2, Complete
<1>11. PICK m \in Int, w \in Int : m = 1 + fe /\ w = 1 - fe
  OBVIOUS
<1>12. PICK n \in Int, v \in Int : n = 1 + tw /\ v = 1 - tw
  OBVIOUS
<1>13. ~ (m \cong 0) /\ ~ (w \cong 0)
  BY <1>9, <1>10, <1>11, <1>12, SameBack, SameOn
<1>14. PICK s \in Int, t \in Int : s = x1 * y2 + y1 * x2 /\ t = y1 * y2 + x1 * x2
  OBVIOUS
<1>15. PICK x3 \in 0 .. Q - 1, y3 \in 0 .. Q - 1 : x3 = Over(s, m) /\ y3 = Over(t, w)
  BY <1>13, OverTimes
<1>16. x3 * m \cong s /\ y3 * w \cong t
  BY <1>13, <1>15, OverTimes
<1>17. x3 * n \cong s /\ y3 * v \cong t
  <2>1. x3 \in Int /\ y3 \in Int
    BY QIsOdd
  <2>2. PICK hh \in Int, im \in Int, j \in Int, l \in Int : hh = x3 * m /\ im = x3 * n /\ j = y3 * w /\ l = y3 * v
    BY <2>1
  <2>3. im \cong hh /\ l \cong j
    <3>1. n \cong m /\ v \cong w
      BY <1>9, <1>11, <1>12, SameBack
    <3> QED BY <2>1, <2>2, <3>1, SameTimes
  <2> QED BY <1>16, <2>2, <2>3, SameOn
<1>18. PointSum(p, q) = <<x3, y3>>
  <2>1. D * (((p[1] * q[1] * p[2]) % Q) * q[2]) = fe
    BY <1>1, <1>2, <1>3, <1>4, <1>5, <1>6
  <2>2. p[1] * q[2] + p[2] * q[1] = s /\ p[2] * q[2] + p[1] * q[1] = t
    BY <1>1, <1>2, <1>14
  <2> QED BY <1>11, <1>15, <2>1, <2>2 DEF PointSum
<1>19. s = x1 * y2 + x2 * y1 /\ t = y1 * y2 + x1 * x2
  BY <1>14
<1>20. OnCurve(x3, y3)
  <2>1. x3 \in Int /\ y3 \in Int
    BY QIsOdd
  <2>2. x3 * (1 + tw) \cong x1 * y2 + x2 * y1 /\ y3 * (1 - tw) \cong y1 * y2 + x1 * x2
    BY <1>12, <1>17, <1>19
  <2>3. tw = Twist(x1, y1, x2, y2)
    BY <1>1, <1>2
  <2> QED BY <1>1, <1>2, <2>1, <2>2, <2>3, SumIsOnCurve
<1>21. <<x3, y3>> \in Curve
  BY <1>20, CurveSays
<1> QED BY <1>1, <1>2, <1>12, <1>14, <1>17, <1>18, <1>21

LEMMA SumStays == ASSUME NEW p \in Curve, NEW q \in Curve PROVE PointSum(p, q) \in Curve
<1>1. D \in Int /\ p[1] \in Int /\ p[2] \in Int /\ q[1] \in Int /\ q[2] \in Int
  BY CurvePoint, FieldAssumption, QIsOdd
<1>2. PICK tw \in Int : tw = Twist(p[1], p[2], q[1], q[2])
  BY <1>1 DEF Twist
<1> QED BY <1>2, SumSays

\* The equation has only the square of x.
LEMMA CurveBySquare ==
    ASSUME NEW x \in Int, NEW r \in Int, NEW y \in Int, OnCurve(x, y), x * x \cong r * r
    PROVE  OnCurve(r, y)
<1>1. PICK rr \in Int, xx \in Int, yy \in Int, fe \in Int : rr = r * r /\ xx = x * x /\ yy = y * y /\ fe = D * yy
  BY FieldAssumption, QIsOdd
<1>2. PICK a \in Int, b \in Int : a = fe * rr /\ b = fe * xx
  OBVIOUS
<1>3. xx \cong rr /\ rr \cong xx
  BY <1>1, SameBack
<1>4. b \cong a
  BY <1>2, <1>3, SameTimes
<1>5. yy - rr \cong yy - xx /\ 1 + b \cong 1 + a
  <2>1. yy \cong yy
    BY SameIsSame
  <2> QED BY <1>3, <1>4, <2>1, SameSum, SameFromOne
<1>6. PICK k \in Int, l \in Int, m \in Int, n \in Int : k = yy - rr /\ l = yy - xx /\ m = 1 + b /\ n = 1 + a
  OBVIOUS
<1>7. PICK dd \in Int : dd = D
  BY FieldAssumption, QIsOdd
<1>8. l = y * y - x * x /\ m = 1 + dd * (x * x * y * y) /\ k = y * y - r * r /\ n = 1 + dd * (r * r * y * y)
  BY <1>1, <1>2, <1>6, <1>7
<1>9. l \cong m
  BY <1>7, <1>8 DEF OnCurve
<1>10. k \cong n
  BY <1>5, <1>6, <1>9, SameOn
<1> QED BY <1>7, <1>8, <1>10 DEF OnCurve

LEMMA OppositeSays ==
    ASSUME NEW p \in Curve
    PROVE  Opposite(p) \in Curve /\ Opposite(p)[1] \cong -p[1] /\ Opposite(p)[2] = p[2]
<1>1. PICK x \in Int, y \in 0 .. Q - 1 : p[1] = x /\ p[2] = y /\ OnCurve(x, y)
  BY CurvePoint
<1>2. PICK r \in 0 .. Q - 1 : r = (-x) % Q /\ r \cong -x
  BY ModIsSame
<1>3. Opposite(p) = <<r, y>>
  BY <1>1, <1>2 DEF Opposite
<1>4. y \in Int /\ r \in Int
  BY QIsOdd
<1>5. x * x \cong r * r
  <2>1. PICK xx \in Int, rr \in Int : xx = x * x /\ rr = r * r
    BY <1>4
  <2>2. (-x) * (-x) = xx
    BY <2>1
  <2>3. r * r \cong (-x) * (-x)
    BY <1>2, <1>4, SameSquare
  <2>4. rr \cong xx
    BY <2>1, <2>2, <2>3
  <2> QED BY <2>1, <2>4, SameBack
<1>6. OnCurve(r, y)
  BY <1>1, <1>4, <1>5, CurveBySquare
<1> QED BY <1>1, <1>2, <1>3, <1>6, CurveSays

-----------------------------------------------------------------------------
(* What an element of the field is worth, and the points that the four ways to
   write one stand for. *)

Worth(fe, n) == fe.v \in 0 .. Q - 1 /\ fe.v \cong n

LEMMA WorthElement == ASSUME NEW n \in Int, NEW b PROVE Worth(Element(n, b), n)
<1>1. Element(n, b).v = n % Q
  BY DEF Element
<1> QED BY <1>1, ModIsSame DEF Worth

LEMMA WorthSame ==
    ASSUME NEW fe, NEW a \in Int, NEW b \in Int, Worth(fe, a), a \cong b PROVE Worth(fe, b)
<1>1. fe.v \in 0 .. Q - 1 /\ fe.v \in Int /\ fe.v \cong a
  BY QIsOdd DEF Worth
<1> QED BY <1>1, SameOn DEF Worth

LEMMA WorthOf == ASSUME NEW fe, NEW a \in Int, Worth(fe, a) PROVE fe.v \in Int /\ fe.v \cong a
BY QIsOdd DEF Worth

LEMMA WorthAdd ==
    ASSUME NEW fe, NEW g, NEW a \in Int, NEW b \in Int, Worth(fe, a), Worth(g, b)
    PROVE  Worth(fe_add(fe, g), a + b) /\ Worth(fe_sub(fe, g), a - b)
<1>1. PICK m \in Int, n \in Int : m = fe.v /\ n = g.v /\ m \cong a /\ n \cong b
  BY WorthOf
<1>2. m + n \cong a + b /\ m - n \cong a - b
  BY <1>1, SameSum
<1>3. Worth(fe_add(fe, g), m + n) /\ Worth(fe_sub(fe, g), m - n)
  BY <1>1, WorthElement DEF fe_add, fe_sub
<1>4. m + n \in Int /\ m - n \in Int /\ a + b \in Int /\ a - b \in Int
  OBVIOUS
<1> QED BY <1>2, <1>3, <1>4, WorthSame

LEMMA WorthMul ==
    ASSUME NEW fe, NEW g, NEW a \in Int, NEW b \in Int, Worth(fe, a), Worth(g, b),
           NEW c \in Int, c = a * b
    PROVE  Worth(fe_mul(fe, g), c)
<1>1. PICK m \in Int, n \in Int : m = fe.v /\ n = g.v /\ m \cong a /\ n \cong b
  BY WorthOf
<1>2. PICK k \in Int : k = m * n
  OBVIOUS
<1>3. k \cong c
  BY <1>1, <1>2, SameProduct
<1>4. Worth(fe_mul(fe, g), k)
  BY <1>1, <1>2, WorthElement DEF fe_mul
<1> QED BY <1>3, <1>4, WorthSame

LEMMA WorthSq ==
    ASSUME NEW fe, NEW a \in Int, Worth(fe, a), NEW c \in Int, c = a * a
    PROVE  Worth(fe_sq(fe), c)
BY WorthMul DEF fe_sq

LEMMA WorthSq2 ==
    ASSUME NEW fe, NEW a \in Int, Worth(fe, a), NEW c \in Int, c = 2 * (a * a)
    PROVE  Worth(fe_sq2(fe), c)
<1>1. PICK m \in Int : m = fe.v /\ m \cong a
  BY WorthOf
<1>2. PICK k \in Int, l \in Int, n \in Int : k = m * m /\ l = a * a /\ n = 2 * k
  OBVIOUS
<1>3. k \cong l
  BY <1>1, <1>2, SameSquare
<1>4. n \cong c
  BY <1>2, <1>3, SameTimes
<1>5. n = 2 * m * m
  BY <1>2
<1>6. Worth(fe_sq2(fe), n)
  BY <1>1, <1>5, WorthElement DEF fe_sq2
<1> QED BY <1>4, <1>6, WorthSame

LEMMA WorthNeg == ASSUME NEW fe, NEW a \in Int, Worth(fe, a) PROVE Worth(fe_neg(fe), -a)
<1>1. PICK m \in Int : m = fe.v /\ m \cong a
  BY WorthOf
<1>2. PICK k \in Int : m - a = k * Q
  BY <1>1 DEF \cong
<1>3. (-m) - (-a) = (-k) * Q
  BY <1>2, QIsOdd
<1>4. -m \cong -a
  BY <1>3 DEF \cong
<1>5. Worth(fe_neg(fe), -m)
  BY <1>1, WorthElement DEF fe_neg
<1>6. -m \in Int /\ -a \in Int
  OBVIOUS
<1> QED BY <1>4, <1>5, <1>6, WorthSame

LEMMA WorthOfOne == Worth(fe_0, 0) /\ Worth(fe_1, 1) /\ Worth(d, D) /\ Worth(d2, 2 * D) /\ Worth(sqrtm1, Root)
<1>1. D \in Int /\ 2 * D \in Int /\ Root \in Int
  BY FieldAssumption, QIsOdd
<1> QED BY <1>1, WorthElement DEF fe_0, fe_1, d, d2, sqrtm1

-----------------------------------------------------------------------------
\* X / Z and Y / Z are the point s.
Projective(p, s) ==
    \E z \in Int : ~ (z \cong 0) /\ Worth(p.Z, z) /\ Worth(p.X, s[1] * z) /\ Worth(p.Y, s[2] * z)
\* and T / Z is the product of its coordinates.
Represents(p, s) ==
    \E z \in Int : /\ ~ (z \cong 0) /\ Worth(p.Z, z) /\ Worth(p.X, s[1] * z) /\ Worth(p.Y, s[2] * z)
                   /\ Worth(p.T, s[1] * s[2] * z)
\* X / Z and Y / T are s.
Completes(r, s) ==
    \E g, hh \in Int : /\ ~ (g \cong 0) /\ ~ (hh \cong 0) /\ Worth(r.Z, g) /\ Worth(r.T, hh)
                      /\ Worth(r.X, s[1] * g) /\ Worth(r.Y, s[2] * hh)

LEMMA CompletedRepresents ==
    ASSUME NEW r, NEW s \in Curve, Completes(r, s)
    PROVE  Represents(ge_p1p1_to_p3(r), s) /\ Projective(ge_p1p1_to_p2(r), s)
<1>1. PICK x \in Int, y \in Int : s[1] = x /\ s[2] = y
  BY CurvePoint
<1>2. PICK g \in Int, hh \in Int : /\ ~ (g \cong 0) /\ ~ (hh \cong 0) /\ Worth(r.Z, g) /\ Worth(r.T, hh)
                                  /\ Worth(r.X, s[1] * g) /\ Worth(r.Y, s[2] * hh)
  BY DEF Completes
<1>3. PICK a \in Int, b \in Int, z \in Int : a = x * g /\ b = y * hh /\ z = g * hh
  OBVIOUS
<1>4. PICK k \in Int, l \in Int, m \in Int : k = x * z /\ l = y * z /\ m = x * y * z
  OBVIOUS
<1>5. ~ (z \cong 0)
  BY <1>2, <1>3, NoneFromTwo
<1>6. z = g * hh /\ k = a * hh /\ l = b * g /\ m = a * b
  BY <1>3, <1>4
<1>7. Worth(r.X, a) /\ Worth(r.Y, b)
  BY <1>1, <1>2, <1>3
<1>8. Worth(fe_mul(r.Z, r.T), z) /\ Worth(fe_mul(r.X, r.T), k) /\ Worth(fe_mul(r.Y, r.Z), l) /\ Worth(fe_mul(r.X, r.Y), m)
  BY <1>2, <1>6, <1>7, WorthMul
<1>9. /\ ge_p1p1_to_p3(r) = [X |-> fe_mul(r.X, r.T), Y |-> fe_mul(r.Y, r.Z), Z |-> fe_mul(r.Z, r.T), T |-> fe_mul(r.X, r.Y)]
      /\ ge_p1p1_to_p2(r) = [X |-> fe_mul(r.X, r.T), Y |-> fe_mul(r.Y, r.Z), Z |-> fe_mul(r.Z, r.T)]
  BY DEF ge_p1p1_to_p3, ge_p1p1_to_p2, ge_p3, ge_p2
<1>10. Worth(fe_mul(r.X, r.T), s[1] * z) /\ Worth(fe_mul(r.Y, r.Z), s[2] * z) /\ Worth(fe_mul(r.X, r.Y), s[1] * s[2] * z)
  BY <1>1, <1>4, <1>8
<1>11. Projective(ge_p1p1_to_p2(r), s)
  BY <1>5, <1>8, <1>9, <1>10 DEF Projective
<1>12. Represents(ge_p1p1_to_p3(r), s)
  BY <1>5, <1>8, <1>9, <1>10 DEF Represents
<1> QED BY <1>11, <1>12

\* What the four values of a sum have to be, up to a factor that is not 0.
LEMMA SumCompletes ==
    ASSUME NEW p \in Curve, NEW q \in Curve, NEW tw \in Int, tw = Twist(p[1], p[2], q[1], q[2]),
           NEW w \in Int, ~ (w \cong 0), NEW r, NEW a \in Int, NEW b \in Int, NEW g \in Int, NEW hh \in Int,
           Worth(r.X, a), Worth(r.Y, b), Worth(r.Z, g), Worth(r.T, hh),
           a = w * (p[1] * q[2] + p[2] * q[1]), b = w * (p[2] * q[2] + p[1] * q[1]),
           g = w * (1 + tw), hh = w * (1 - tw)
    PROVE  Completes(r, PointSum(p, q))
<1>1. PICK x1 \in Int, y1 \in Int : p[1] = x1 /\ p[2] = y1 /\ OnCurve(x1, y1)
  BY CurvePoint
<1>2. PICK x2 \in Int, y2 \in Int : q[1] = x2 /\ q[2] = y2 /\ OnCurve(x2, y2)
  BY CurvePoint
<1>3. PICK s \in Curve : s = PointSum(p, q)
  BY SumSays
<1>4. PICK x \in Int, y \in Int : s[1] = x /\ s[2] = y
  BY CurvePoint
<1>5. PICK n \in Int, m \in Int, u \in Int, v \in Int :
          n = x1 * y2 + y1 * x2 /\ m = y1 * y2 + x1 * x2 /\ u = 1 + tw /\ v = 1 - tw
  OBVIOUS
<1>6. PICK k \in Int, l \in Int : k = x * u /\ l = y * v
  OBVIOUS
<1>7. k \cong n /\ l \cong m
  BY <1>1, <1>2, <1>3, <1>4, <1>5, <1>6, SumSays
<1>8. PICK wk \in Int, wn \in Int, wl \in Int, wm \in Int : wk = w * k /\ wn = w * n /\ wl = w * l /\ wm = w * m
  OBVIOUS
<1>9. wn \cong wk /\ wm \cong wl
  BY <1>7, <1>8, SameTimes, SameBack
<1>10. a = wn /\ b = wm
  BY <1>1, <1>2, <1>5, <1>8
<1>11. Worth(r.X, wk) /\ Worth(r.Y, wl)
  BY <1>9, <1>10, WorthSame
<1>12. wk = x * g /\ wl = y * hh
  BY <1>5, <1>6, <1>8
<1>13. ~ (g \cong 0) /\ ~ (hh \cong 0)
  <2>1. ~ (u \cong 0) /\ ~ (v \cong 0)
    BY <1>1, <1>2, <1>5, Complete
  <2> QED BY <1>5, <2>1, NoneFromTwo
<1> QED BY <1>3, <1>4, <1>11, <1>12, <1>13 DEF Completes

\* The four products of a sum, of c = 2 e z or, to subtract, of c = - 2 e z.
LEMMA CompletedAdds ==
    ASSUME NEW p \in Curve, NEW q \in Curve, NEW tw \in Int, tw = Twist(p[1], p[2], q[1], q[2]),
           NEW z \in Int, ~ (z \cong 0), NEW A, NEW B, NEW C, NEW E,
           NEW a \in Int, NEW b \in Int, NEW c \in Int,
           Worth(A, a), Worth(B, b), Worth(C, c), Worth(E, 2 * z),
           a = (p[2] + p[1]) * (q[2] + q[1]) * z, b = (p[2] - p[1]) * (q[2] - q[1]) * z
    PROVE  /\ c = 2 * (tw * z) => Completes(Completed(A, B, C, E), PointSum(p, q))
           /\ c = -(2 * (tw * z)) => Completes(Swapped(Completed(A, B, C, E)), PointSum(p, q))
<1>1. PICK x1 \in Int, y1 \in Int : p[1] = x1 /\ p[2] = y1
  BY CurvePoint
<1>2. PICK x2 \in Int, y2 \in Int : q[1] = x2 /\ q[2] = y2
  BY CurvePoint
<1>3. PICK w \in Int : w = 2 * z
  OBVIOUS
<1>4. ~ (w \cong 0)
  BY <1>3, TwoIsSome, NoneFromTwo
<1>5. PICK r : r = Completed(A, B, C, E)
  OBVIOUS
<1>6. /\ r = [X |-> fe_sub(A, B), Y |-> fe_add(A, B), Z |-> fe_add(E, C), T |-> fe_sub(E, C)]
      /\ Swapped(r) = [X |-> fe_sub(A, B), Y |-> fe_add(A, B), Z |-> fe_sub(E, C), T |-> fe_add(E, C)]
  BY <1>5 DEF Completed, Swapped, ge_p1p1
<1>7. Worth(r.X, a - b) /\ Worth(r.Y, a + b) /\ Worth(r.Z, w + c) /\ Worth(r.T, w - c)
  BY <1>3, <1>6, WorthAdd
<1>8. PICK k \in Int, l \in Int, m \in Int, n \in Int : k = a - b /\ l = a + b /\ m = w + c /\ n = w - c
  OBVIOUS
<1>9. a = (y1 + x1) * (y2 + x2) * z /\ b = (y1 - x1) * (y2 - x2) * z
  BY <1>1, <1>2
<1>10. k = w * (x1 * y2 + y1 * x2) /\ l = w * (y1 * y2 + x1 * x2)
  BY <1>3, <1>8, <1>9
<1>11. k = w * (p[1] * q[2] + p[2] * q[1]) /\ l = w * (p[2] * q[2] + p[1] * q[1])
  BY <1>1, <1>2, <1>10
<1>12. ASSUME c = 2 * (tw * z) PROVE Completes(r, PointSum(p, q))
  <2>1. m = w * (1 + tw) /\ n = w * (1 - tw)
    BY <1>3, <1>8, <1>12
  <2>2. Worth(r.X, k) /\ Worth(r.Y, l) /\ Worth(r.Z, m) /\ Worth(r.T, n)
    BY <1>7, <1>8
  <2> QED BY <1>4, <1>11, <2>1, <2>2, SumCompletes
<1>13. ASSUME c = -(2 * (tw * z)) PROVE Completes(Swapped(r), PointSum(p, q))
  <2>1. n = w * (1 + tw) /\ m = w * (1 - tw)
    BY <1>3, <1>8, <1>13
  <2>2. PICK t : t = Swapped(r)
    OBVIOUS
  <2>3. Worth(t.X, k) /\ Worth(t.Y, l) /\ Worth(t.Z, n) /\ Worth(t.T, m)
    BY <1>6, <1>7, <1>8, <2>2
  <2>4. Completes(t, PointSum(p, q))
    BY <1>4, <1>11, <2>1, <2>3, SumCompletes
  <2> QED BY <2>2, <2>4
<1> QED BY <1>5, <1>12, <1>13

LEMMA RepresentsSays ==
    ASSUME NEW r, NEW s \in Curve, Represents(r, s), NEW x \in Int, NEW y \in Int, s[1] = x, s[2] = y
    PROVE  \E z \in Int : /\ ~ (z \cong 0) /\ Worth(r.Z, z) /\ Worth(r.X, x * z) /\ Worth(r.Y, y * z)
                          /\ Worth(r.T, x * y * z) /\ x * z \in Int /\ y * z \in Int /\ x * y * z \in Int
<1>1. \A z \in Int : x * z \in Int /\ y * z \in Int /\ x * y * z \in Int
  OBVIOUS
<1> QED BY <1>1 DEF Represents

LEMMA RepresentsOpposite ==
    ASSUME NEW r, NEW s \in Curve, Represents(r, s), NEW x \in Int, NEW y \in Int,
           Opposite(s)[1] = x, Opposite(s)[2] = y
    PROVE  \E z \in Int : /\ ~ (z \cong 0) /\ Worth(r.Z, z) /\ Worth(r.X, (-x) * z) /\ Worth(r.Y, y * z)
                          /\ Worth(r.T, (-x) * y * z)
<1>1. PICK u \in Int, v \in Int : s[1] = u /\ s[2] = v
  BY CurvePoint
<1>2. x \cong -u /\ y = v
  BY <1>1, OppositeSays
<1>3. PICK z \in Int : /\ ~ (z \cong 0) /\ Worth(r.Z, z) /\ Worth(r.X, u * z) /\ Worth(r.Y, v * z)
                       /\ Worth(r.T, u * v * z)
  BY <1>1, RepresentsSays
<1>4. PICK o \in Int, a \in Int, b \in Int, g \in Int, hh \in Int, m \in Int :
          o = -x /\ a = z * u /\ b = z * o /\ m = v * z /\ g = m * u /\ hh = m * o
  OBVIOUS
<1>5. u \cong o
  <2>1. PICK k \in Int : x - (-u) = k * Q
    BY <1>2 DEF \cong
  <2>2. u - o = k * Q
    BY <1>4, <2>1, QIsOdd
  <2> QED BY <2>2 DEF \cong
<1>6. a \cong b /\ g \cong hh
  BY <1>4, <1>5, SameTimes
<1>7. a = u * z /\ b = (-x) * z /\ g = u * v * z /\ hh = (-x) * y * z
  BY <1>2, <1>4
<1>8. Worth(r.X, b) /\ Worth(r.T, hh)
  BY <1>3, <1>6, <1>7, WorthSame
<1> QED BY <1>2, <1>3, <1>7, <1>8

LEMMA AddCompletes ==
    ASSUME NEW r, NEW p \in Curve, Represents(r, p), NEW q \in Curve, NEW t,
           NEW x2 \in Int, NEW y2 \in Int, NEW z2 \in Int, ~ (z2 \cong 0),
           Worth(t.Z, z2), Worth(t.X, x2 * z2), Worth(t.Y, y2 * z2), Worth(t.T, x2 * y2 * z2), q[2] = y2
    PROVE  /\ q[1] = x2 => Completes(ge_add(r, ge_p3_to_cached(t)), PointSum(p, q))
           /\ q[1] = -x2 => Completes(ge_sub(r, ge_p3_to_cached(t)), PointSum(p, q))
<1>1. PICK x1 \in Int, y1 \in Int : p[1] = x1 /\ p[2] = y1
  BY CurvePoint
<1>2. PICK z1 \in Int : /\ ~ (z1 \cong 0) /\ Worth(r.Z, z1) /\ Worth(r.X, x1 * z1) /\ Worth(r.Y, y1 * z1)
                        /\ Worth(r.T, x1 * y1 * z1)
  BY <1>1, RepresentsSays
<1>3. PICK dd \in Int : dd = D
  BY FieldAssumption, QIsOdd
<1>4. PICK z \in Int, tw \in Int : z = z1 * z2 /\ tw = dd * (x1 * x2 * y1 * y2)
  OBVIOUS
<1>5. ~ (z \cong 0)
  BY <1>2, <1>4, NoneFromTwo
<1>6. PICK X1 \in Int, Y1 \in Int, X2 \in Int, Y2 \in Int, T1 \in Int, T2 \in Int :
          X1 = x1 * z1 /\ Y1 = y1 * z1 /\ X2 = x2 * z2 /\ Y2 = y2 * z2 /\ T1 = x1 * y1 * z1 /\ T2 = x2 * y2 * z2
  OBVIOUS
<1>7. /\ Worth(r.X, X1) /\ Worth(r.Y, Y1) /\ Worth(r.T, T1)
      /\ Worth(t.X, X2) /\ Worth(t.Y, Y2) /\ Worth(t.T, T2)
  BY <1>2, <1>6
<1> DEFINE c == ge_p3_to_cached(t)
           ZZ == fe_mul(r.Z, c.Z)
           plus == fe_add(r.Y, r.X)
           minus == fe_sub(r.Y, r.X)
<1>8. c = [YplusX |-> fe_add(t.Y, t.X), YminusX |-> fe_sub(t.Y, t.X), Z |-> t.Z, T2d |-> fe_mul(t.T, d2)]
  BY DEF ge_p3_to_cached, fe_copy
<1>9. PICK f1 \in Int, g1 \in Int, f2 \in Int, g2 \in Int, k2 \in Int :
          f1 = Y1 + X1 /\ g1 = Y1 - X1 /\ f2 = Y2 + X2 /\ g2 = Y2 - X2 /\ k2 = T2 * (2 * dd)
  OBVIOUS
<1>10. Worth(plus, f1) /\ Worth(minus, g1) /\ Worth(c.YplusX, f2) /\ Worth(c.YminusX, g2)
  <2>1. Worth(plus, Y1 + X1) /\ Worth(minus, Y1 - X1)
    BY <1>7, WorthAdd
  <2>2. Worth(fe_add(t.Y, t.X), Y2 + X2) /\ Worth(fe_sub(t.Y, t.X), Y2 - X2)
    BY <1>7, WorthAdd
  <2> QED BY <1>8, <1>9, <2>1, <2>2
<1>11. Worth(c.T2d, k2) /\ Worth(c.Z, z2)
  <2>1. Worth(d2, 2 * dd) /\ 2 * dd \in Int
    BY <1>3, WorthOfOne
  <2> QED BY <1>7, <1>8, <1>9, <2>1, WorthMul
<1> HIDE DEF c, plus, minus
<1>12. PICK ff \in Int, gg \in Int, fg \in Int, gf \in Int, cc \in Int :
           ff = f1 * f2 /\ gg = g1 * g2 /\ fg = f1 * g2 /\ gf = g1 * f2 /\ cc = k2 * T1
  OBVIOUS
<1>13. /\ Worth(fe_mul(plus, c.YplusX), ff) /\ Worth(fe_mul(minus, c.YminusX), gg)
       /\ Worth(fe_mul(plus, c.YminusX), fg) /\ Worth(fe_mul(minus, c.YplusX), gf)
  BY <1>10, <1>12, WorthMul
<1>14. Worth(fe_mul(c.T2d, r.T), cc)
  BY <1>7, <1>11, <1>12, WorthMul
<1>15. Worth(fe_add(ZZ, ZZ), 2 * z)
  <2>1. Worth(ZZ, z)
    BY <1>2, <1>4, <1>11, WorthMul
  <2>2. z + z = 2 * z
    OBVIOUS
  <2> QED BY <2>1, <2>2, WorthAdd
<1>16. /\ ff = (y1 + x1) * (y2 + x2) * z /\ gg = (y1 - x1) * (y2 - x2) * z
       /\ fg = (y1 + x1) * (y2 + (-x2)) * z /\ gf = (y1 - x1) * (y2 - (-x2)) * z
  BY <1>4, <1>6, <1>9, <1>12
<1>17. cc = 2 * (tw * z) /\ cc = -(2 * ((-tw) * z))
  BY <1>4, <1>6, <1>9, <1>12
<1> HIDE DEF ZZ
<1>18. ASSUME q[1] = x2 PROVE Completes(ge_add(r, c), PointSum(p, q))
  <2>1. ff = (p[2] + p[1]) * (q[2] + q[1]) * z /\ gg = (p[2] - p[1]) * (q[2] - q[1]) * z
    BY <1>1, <1>16, <1>18
  <2>2. tw = Twist(p[1], p[2], q[1], q[2])
    BY <1>1, <1>3, <1>4, <1>18 DEF Twist
  <2>3. Completes(Completed(fe_mul(plus, c.YplusX), fe_mul(minus, c.YminusX), fe_mul(c.T2d, r.T), fe_add(ZZ, ZZ)),
                  PointSum(p, q))
    BY <1>5, <1>13, <1>14, <1>15, <1>17, <2>1, <2>2, CompletedAdds
  <2> QED BY <2>3 DEF ge_add, ZZ, plus, minus
<1>19. ASSUME q[1] = -x2 PROVE Completes(ge_sub(r, c), PointSum(p, q))
  <2>1. fg = (p[2] + p[1]) * (q[2] + q[1]) * z /\ gf = (p[2] - p[1]) * (q[2] - q[1]) * z
    BY <1>1, <1>16, <1>19
  <2>2. PICK o \in Int : o = -tw
    OBVIOUS
  <2>3. o = Twist(p[1], p[2], q[1], q[2])
    <3>1. o = dd * (x1 * (-x2) * y1 * y2)
      BY <1>4, <2>2
    <3> QED BY <1>1, <1>3, <1>19, <3>1 DEF Twist
  <2>4. cc = -(2 * (o * z))
    BY <1>17, <2>2
  <2>5. Completes(Swapped(Completed(fe_mul(plus, c.YminusX), fe_mul(minus, c.YplusX), fe_mul(c.T2d, r.T),
                                    fe_add(ZZ, ZZ))),
                  PointSum(p, q))
    BY <1>5, <1>13, <1>14, <1>15, <2>1, <2>3, <2>4, CompletedAdds
  <2> QED BY <2>5 DEF ge_sub, ZZ, plus, minus
<1> QED BY <1>18, <1>19 DEF c

LEMMA MaddCompletes ==
    ASSUME NEW r, NEW p \in Curve, Represents(r, p), NEW q \in Curve, NEW t,
           NEW x2 \in Int, NEW y2 \in Int, NEW k2 \in Int, k2 = 2 * D * (x2 * y2),
           Worth(t.yplusx, y2 + x2), Worth(t.yminusx, y2 - x2), Worth(t.xy2d, k2), q[2] = y2
    PROVE  /\ q[1] = x2 => Completes(ge_madd(r, t), PointSum(p, q))
           /\ q[1] = -x2 => Completes(ge_msub(r, t), PointSum(p, q))
<1>1. PICK x1 \in Int, y1 \in Int : p[1] = x1 /\ p[2] = y1
  BY CurvePoint
<1>2. PICK z \in Int : /\ ~ (z \cong 0) /\ Worth(r.Z, z) /\ Worth(r.X, x1 * z) /\ Worth(r.Y, y1 * z)
                       /\ Worth(r.T, x1 * y1 * z)
  BY <1>1, RepresentsSays
<1>3. PICK dd \in Int : dd = D
  BY FieldAssumption, QIsOdd
<1>4. PICK tw \in Int : tw = dd * (x1 * x2 * y1 * y2)
  OBVIOUS
<1>5. PICK X1 \in Int, Y1 \in Int, T1 \in Int : X1 = x1 * z /\ Y1 = y1 * z /\ T1 = x1 * y1 * z
  OBVIOUS
<1>6. Worth(r.X, X1) /\ Worth(r.Y, Y1) /\ Worth(r.T, T1)
  BY <1>2, <1>5
<1> DEFINE plus == fe_add(r.Y, r.X)
           minus == fe_sub(r.Y, r.X)
<1>7. PICK f1 \in Int, g1 \in Int, f2 \in Int, g2 \in Int : f1 = Y1 + X1 /\ g1 = Y1 - X1 /\ f2 = y2 + x2 /\ g2 = y2 - x2
  OBVIOUS
<1>8. Worth(plus, f1) /\ Worth(minus, g1) /\ Worth(t.yplusx, f2) /\ Worth(t.yminusx, g2)
  <2>1. Worth(plus, Y1 + X1) /\ Worth(minus, Y1 - X1)
    BY <1>6, WorthAdd
  <2> QED BY <1>7, <2>1
<1> HIDE DEF plus, minus
<1>9. PICK ff \in Int, gg \in Int, fg \in Int, gf \in Int, cc \in Int :
          ff = f1 * f2 /\ gg = g1 * g2 /\ fg = f1 * g2 /\ gf = g1 * f2 /\ cc = k2 * T1
  OBVIOUS
<1>10. /\ Worth(fe_mul(plus, t.yplusx), ff) /\ Worth(fe_mul(minus, t.yminusx), gg)
       /\ Worth(fe_mul(plus, t.yminusx), fg) /\ Worth(fe_mul(minus, t.yplusx), gf)
  BY <1>8, <1>9, WorthMul
<1>11. Worth(fe_mul(t.xy2d, r.T), cc)
  BY <1>6, <1>9, WorthMul
<1>12. Worth(fe_add(r.Z, r.Z), 2 * z)
  <2>1. z + z = 2 * z
    OBVIOUS
  <2> QED BY <1>2, <2>1, WorthAdd
<1>13. /\ ff = (y1 + x1) * (y2 + x2) * z /\ gg = (y1 - x1) * (y2 - x2) * z
       /\ fg = (y1 + x1) * (y2 + (-x2)) * z /\ gf = (y1 - x1) * (y2 - (-x2)) * z
  BY <1>5, <1>7, <1>9
<1>14. cc = 2 * (tw * z) /\ cc = -(2 * ((-tw) * z))
  <2>1. k2 = 2 * dd * (x2 * y2)
    BY <1>3
  <2> QED BY <1>4, <1>5, <1>9, <2>1
<1>15. ASSUME q[1] = x2 PROVE Completes(ge_madd(r, t), PointSum(p, q))
  <2>1. ff = (p[2] + p[1]) * (q[2] + q[1]) * z /\ gg = (p[2] - p[1]) * (q[2] - q[1]) * z
    BY <1>1, <1>13, <1>15
  <2>2. tw = Twist(p[1], p[2], q[1], q[2])
    BY <1>1, <1>3, <1>4, <1>15 DEF Twist
  <2>3. Completes(Completed(fe_mul(plus, t.yplusx), fe_mul(minus, t.yminusx), fe_mul(t.xy2d, r.T), fe_add(r.Z, r.Z)),
                  PointSum(p, q))
    BY <1>2, <1>10, <1>11, <1>12, <1>14, <2>1, <2>2, CompletedAdds
  <2> QED BY <2>3 DEF ge_madd, plus, minus
<1>16. ASSUME q[1] = -x2 PROVE Completes(ge_msub(r, t), PointSum(p, q))
  <2>1. fg = (p[2] + p[1]) * (q[2] + q[1]) * z /\ gf = (p[2] - p[1]) * (q[2] - q[1]) * z
    BY <1>1, <1>13, <1>16
  <2>2. PICK o \in Int : o = -tw
    OBVIOUS
  <2>3. o = Twist(p[1], p[2], q[1], q[2])
    <3>1. o = dd * (x1 * (-x2) * y1 * y2)
      BY <1>4, <2>2
    <3> QED BY <1>1, <1>3, <1>16, <3>1 DEF Twist
  <2>4. cc = -(2 * (o * z))
    BY <1>14, <2>2
  <2>5. Completes(Swapped(Completed(fe_mul(plus, t.yminusx), fe_mul(minus, t.yplusx), fe_mul(t.xy2d, r.T),
                                    fe_add(r.Z, r.Z))),
                  PointSum(p, q))
    BY <1>2, <1>10, <1>11, <1>12, <2>1, <2>3, <2>4, CompletedAdds
  <2> QED BY <2>5 DEF ge_msub, plus, minus
<1> QED BY <1>15, <1>16

\* What the tables hold is the point and, to subtract, its opposite.
LEMMA AffineSays ==
    ASSUME NEW q \in Curve, NEW x \in Int, NEW y \in Int, q[1] \cong x, q[2] = y,
           NEW k \in Int, k = 2 * D * (x * y)
    PROVE  /\ Worth(Affine(q).yplusx, y + x) /\ Worth(Affine(q).yminusx, y - x)
           /\ Worth(Affine(q).xy2d, k)
<1>1. PICK u \in Int : q[1] = u /\ u \cong x
  BY CurvePoint
<1>2. PICK dd \in Int, dd2 \in Int : dd = D /\ dd2 = 2 * D
  BY FieldAssumption, QIsOdd
<1>3. PICK a \in Int, b \in Int : a = u * y /\ b = x * y
  OBVIOUS
<1>4. PICK m \in Int : m = a % Q /\ m \cong a
  BY ModIsSame, QIsOdd
<1>5. a \cong b
  <2>1. a = y * u /\ b = y * x
    BY <1>3
  <2> QED BY <1>1, <1>3, <2>1, SameTimes
<1>6. m \cong b
  BY <1>4, <1>5, SameOn
<1>7. PICK c \in Int, s \in Int : c = dd2 * m /\ s = dd2 * b
  OBVIOUS
<1>8. c \cong s
  BY <1>6, <1>7, SameTimes
<1>9. c = 2 * D * ((q[1] * q[2]) % Q) /\ s = k
  BY <1>1, <1>2, <1>3, <1>4, <1>7
<1>10. PICK t : t = Affine(q)
  OBVIOUS
<1>11. t.yplusx = Element(y + u, 100) /\ t.yminusx = Element(y - u, 100) /\ t.xy2d = Element(c, 100)
  BY <1>1, <1>9, <1>10 DEF Affine, ge_precomp
<1>12. y + u \in Int /\ y - u \in Int /\ y + x \in Int /\ y - x \in Int
  OBVIOUS
<1>13. y + u \cong y + x /\ y - u \cong y - x
  <2>1. y \cong y
    BY SameIsSame
  <2> QED BY <1>1, <2>1, SameSum
<1>14. Worth(t.yplusx, y + u) /\ Worth(t.yminusx, y - u) /\ Worth(t.xy2d, c)
  BY <1>11, <1>12, WorthElement
<1> QED BY <1>8, <1>9, <1>10, <1>12, <1>13, <1>14, WorthSame

LEMMA DoubleCompletes ==
    ASSUME NEW r, NEW p \in Curve, Projective(r, p)
    PROVE  Completes(ge_p2_dbl(r), PointSum(p, p))
<1>1. PICK x \in Int, y \in Int : p[1] = x /\ p[2] = y /\ OnCurve(x, y)
  BY CurvePoint
<1>2. PICK z \in Int : ~ (z \cong 0) /\ Worth(r.Z, z) /\ Worth(r.X, x * z) /\ Worth(r.Y, y * z)
  BY <1>1 DEF Projective
<1>3. PICK X \in Int, Y \in Int : X = x * z /\ Y = y * z /\ Worth(r.X, X) /\ Worth(r.Y, Y)
  BY <1>2
<1>4. PICK dd \in Int : dd = D
  BY FieldAssumption, QIsOdd
<1>5. PICK w \in Int, tw \in Int : w = z * z /\ tw = dd * (x * x * y * y)
  OBVIOUS
<1>6. ~ (w \cong 0)
  BY <1>2, <1>5, NoneFromTwo
<1>7. PICK xx \in Int, yy \in Int, s \in Int, aa \in Int, zz \in Int :
          xx = X * X /\ yy = Y * Y /\ s = X + Y /\ aa = s * s /\ zz = 2 * (z * z)
  OBVIOUS
<1> DEFINE XX == fe_sq(r.X)
           YY == fe_sq(r.Y)
           AA == fe_sq(fe_add(r.X, r.Y))
           ZZ == fe_sq2(r.Z)
           YpX == fe_add(YY, XX)
           YmX == fe_sub(YY, XX)
<1>8. Worth(XX, xx) /\ Worth(YY, yy) /\ Worth(ZZ, zz)
  BY <1>2, <1>3, <1>7, WorthSq, WorthSq2
<1>9. Worth(AA, aa)
  <2>1. Worth(fe_add(r.X, r.Y), s)
    BY <1>3, <1>7, WorthAdd
  <2> QED BY <1>7, <2>1, WorthSq
<1> HIDE DEF XX, YY, AA, ZZ
<1>10. PICK b \in Int, g0 \in Int : b = yy + xx /\ g0 = yy - xx
  OBVIOUS
<1>11. Worth(YpX, b) /\ Worth(YmX, g0)
  BY <1>8, <1>10, WorthAdd
<1> HIDE DEF YpX, YmX
<1>12. PICK a \in Int, h0 \in Int : a = aa - b /\ h0 = zz - g0
  OBVIOUS
<1>13. Worth(fe_sub(AA, YpX), a) /\ Worth(fe_sub(ZZ, YmX), h0)
  BY <1>8, <1>9, <1>11, <1>12, WorthAdd
<1>14. PICK g \in Int, hh \in Int : g = w * (1 + tw) /\ hh = w * (1 - tw)
  OBVIOUS
<1>15. g0 \cong g /\ h0 \cong hh
  <2>1. PICK k \in Int, l \in Int : k = y * y - x * x /\ l = 1 + tw
    OBVIOUS
  <2>2. k \cong l
    BY <1>1, <1>4, <1>5, <2>1 DEF OnCurve
  <2>3. PICK m \in Int, n \in Int : m = 2 - k /\ n = 2 - l
    OBVIOUS
  <2>4. m \cong n
    <3>1. 2 \cong 2
      BY SameIsSame
    <3> QED BY <2>2, <2>3, <3>1, SameSum
  <2>5. PICK wk \in Int, wl \in Int, wm \in Int, wn \in Int : wk = w * k /\ wl = w * l /\ wm = w * m /\ wn = w * n
    OBVIOUS
  <2>6. wk \cong wl /\ wm \cong wn
    BY <2>2, <2>4, <2>5, SameTimes
  <2>7. g0 = wk /\ h0 = wm
    BY <1>3, <1>5, <1>7, <1>10, <1>12, <2>1, <2>3, <2>5
  <2>8. g = wl /\ hh = wn
    BY <1>14, <2>1, <2>3, <2>5
  <2> QED BY <2>6, <2>7, <2>8
<1>16. Worth(YmX, g) /\ Worth(fe_sub(ZZ, YmX), hh)
  BY <1>11, <1>13, <1>15, WorthSame
<1>17. a = w * (x * y + y * x) /\ b = w * (y * y + x * x)
  BY <1>3, <1>5, <1>7, <1>10, <1>12
<1>18. PICK t : t = ge_p2_dbl(r)
  OBVIOUS
<1>19. t = [X |-> fe_sub(AA, YpX), Y |-> YpX, Z |-> YmX, T |-> fe_sub(ZZ, YmX)]
  BY <1>18 DEF ge_p2_dbl, ge_p1p1, AA, XX, YY, ZZ, YpX, YmX
<1>20. Worth(t.X, a) /\ Worth(t.Y, b) /\ Worth(t.Z, g) /\ Worth(t.T, hh)
  BY <1>11, <1>13, <1>16, <1>19
<1>21. tw = Twist(p[1], p[2], p[1], p[2])
  BY <1>1, <1>4, <1>5 DEF Twist
<1>22. a = w * (p[1] * p[2] + p[2] * p[1]) /\ b = w * (p[2] * p[2] + p[1] * p[1])
  BY <1>1, <1>17
<1>23. Completes(t, PointSum(p, p))
  BY <1>6, <1>14, <1>20, <1>21, <1>22, SumCompletes
<1> QED BY <1>18, <1>23

LEMMA AddOfCached ==
    ASSUME NEW r, NEW p \in Curve, Represents(r, p), NEW t, NEW q \in Curve, Represents(t, q)
    PROVE  /\ Completes(ge_add(r, ge_p3_to_cached(t)), PointSum(p, q))
           /\ Completes(ge_sub(r, ge_p3_to_cached(t)), PointSum(p, Opposite(q)))
<1>1. Completes(ge_add(r, ge_p3_to_cached(t)), PointSum(p, q))
  <2>1. PICK x \in Int, y \in Int : q[1] = x /\ q[2] = y
    BY CurvePoint
  <2>2. PICK z \in Int : /\ ~ (z \cong 0) /\ Worth(t.Z, z) /\ Worth(t.X, x * z) /\ Worth(t.Y, y * z)
                         /\ Worth(t.T, x * y * z)
    BY <2>1, RepresentsSays
  <2> QED BY <2>1, <2>2, AddCompletes
<1>2. Completes(ge_sub(r, ge_p3_to_cached(t)), PointSum(p, Opposite(q)))
  <2>1. PICK o \in Curve : o = Opposite(q)
    BY OppositeSays
  <2>2. PICK x \in Int, y \in Int : o[1] = x /\ o[2] = y
    BY CurvePoint
  <2>3. PICK z \in Int : /\ ~ (z \cong 0) /\ Worth(t.Z, z) /\ Worth(t.X, (-x) * z) /\ Worth(t.Y, y * z)
                         /\ Worth(t.T, (-x) * y * z)
    BY <2>1, <2>2, RepresentsOpposite
  <2>4. PICK n \in Int : n = -x
    OBVIOUS
  <2>5. Worth(t.X, n * z) /\ Worth(t.T, n * y * z) /\ o[1] = -n
    BY <2>2, <2>3, <2>4
  <2>6. Completes(ge_sub(r, ge_p3_to_cached(t)), PointSum(p, o))
    BY <2>2, <2>3, <2>5, AddCompletes
  <2> QED BY <2>1, <2>6
<1> QED BY <1>1, <1>2

LEMMA AddSays ==
    ASSUME NEW r, NEW p \in Curve, Represents(r, p), NEW t, NEW q \in Curve, Represents(t, q)
    PROVE  /\ Represents(ge_p1p1_to_p3(ge_add(r, ge_p3_to_cached(t))), PointSum(p, q))
           /\ Represents(ge_p1p1_to_p3(ge_sub(r, ge_p3_to_cached(t))), PointSum(p, Opposite(q)))
<1>1. PointSum(p, q) \in Curve /\ PointSum(p, Opposite(q)) \in Curve
  BY OppositeSays, SumStays
<1> QED BY <1>1, AddOfCached, CompletedRepresents

LEMMA MaddOfAffine ==
    ASSUME NEW r, NEW p \in Curve, Represents(r, p), NEW q \in Curve
    PROVE  /\ Completes(ge_madd(r, Affine(q)), PointSum(p, q))
           /\ Completes(ge_msub(r, Affine(q)), PointSum(p, Opposite(q)))
<1>1. PICK x \in Int, y \in Int : q[1] = x /\ q[2] = y
  BY CurvePoint
<1>2. PICK o \in Curve : o = Opposite(q)
  BY OppositeSays
<1>3. PICK u \in Int : o[1] = u /\ o[2] = y /\ u \cong -x
  BY <1>1, <1>2, CurvePoint, OppositeSays
<1>4. PICK n \in Int : n = -u /\ o[1] = -n
  BY <1>3
<1>5. x \cong n
  <2>1. PICK k \in Int : u - (-x) = k * Q
    BY <1>3 DEF \cong
  <2>2. x - n = k * Q
    BY <1>4, <2>1, <1>3, QIsOdd
  <2> QED BY <2>2 DEF \cong
<1>6. x \cong x
  BY SameIsSame
<1>7. PICK k \in Int, l \in Int : k = 2 * D * (x * y) /\ l = 2 * D * (n * y)
  BY FieldAssumption, QIsOdd
<1>8. PICK t : t = Affine(q)
  OBVIOUS
<1>9. Completes(ge_madd(r, t), PointSum(p, q))
  <2>1. Worth(t.yplusx, y + x) /\ Worth(t.yminusx, y - x) /\ Worth(t.xy2d, k)
    BY <1>1, <1>6, <1>7, <1>8, AffineSays
  <2> QED BY <1>1, <1>7, <2>1, MaddCompletes
<1>10. Completes(ge_msub(r, t), PointSum(p, o))
  <2>1. Worth(t.yplusx, y + n) /\ Worth(t.yminusx, y - n) /\ Worth(t.xy2d, l)
    BY <1>1, <1>5, <1>7, <1>8, AffineSays
  <2> QED BY <1>3, <1>4, <1>7, <2>1, MaddCompletes
<1> QED BY <1>2, <1>8, <1>9, <1>10

LEMMA MaddSays ==
    ASSUME NEW r, NEW p \in Curve, Represents(r, p), NEW q \in Curve
    PROVE  /\ Represents(ge_p1p1_to_p3(ge_madd(r, Affine(q))), PointSum(p, q))
           /\ Represents(ge_p1p1_to_p3(ge_msub(r, Affine(q))), PointSum(p, Opposite(q)))
<1>1. PointSum(p, q) \in Curve /\ PointSum(p, Opposite(q)) \in Curve
  BY OppositeSays, SumStays
<1> QED BY <1>1, MaddOfAffine, CompletedRepresents

LEMMA DoubleSays ==
    ASSUME NEW r, NEW p \in Curve, Represents(r, p), NEW t \in Curve, t = PointSum(p, p)
    PROVE  Represents(ge_p1p1_to_p3(ge_p2_dbl(ge_p1p1_to_p2(ge_p3_dbl(r)))), PointSum(t, t))
<1>1. PICK r2 : r2 = ge_p3_to_p2(r)
  OBVIOUS
<1>2. Projective(r2, p)
  BY <1>1 DEF ge_p3_to_p2, ge_p2, fe_copy, Represents, Projective
<1>3. Completes(ge_p3_dbl(r), t)
  BY <1>1, <1>2, DoubleCompletes DEF ge_p3_dbl
<1>4. Projective(ge_p1p1_to_p2(ge_p3_dbl(r)), t)
  BY <1>3, CompletedRepresents
<1>5. Completes(ge_p2_dbl(ge_p1p1_to_p2(ge_p3_dbl(r))), PointSum(t, t))
  BY <1>4, DoubleCompletes
<1>6. PointSum(t, t) \in Curve
  BY SumStays
<1> QED BY <1>5, <1>6, CompletedRepresents

LEMMA ExtendedSays == ASSUME NEW p \in Curve, NEW z \in 1 .. Q - 1 PROVE Represents(Extended(p, z), p)
<1>1. PICK x \in Int, y \in Int : p[1] = x /\ p[2] = y
  BY CurvePoint
<1>2. z \in Int /\ ~ (z \cong 0)
  <2>1. z \in 0 .. Q - 1 /\ z # 0 /\ 0 \in 0 .. Q - 1
    BY QIsOdd
  <2> QED BY <2>1, SameIsEqual, QIsOdd
<1>3. PICK a \in Int, b \in Int, c \in Int : a = x * z /\ b = y * z /\ c = x * y * z
  BY <1>2
<1>4. PICK t : t = Extended(p, z)
  OBVIOUS
<1>5. t.X = Element(a, Tight) /\ t.Y = Element(b, Tight) /\ t.Z = Element(z, Tight) /\ t.T = Element(c, Tight)
  BY <1>1, <1>3, <1>4 DEF Extended, ge_p3
<1>6. Worth(t.X, a) /\ Worth(t.Y, b) /\ Worth(t.Z, z) /\ Worth(t.T, c)
  BY <1>2, <1>5, WorthElement
<1>7. Worth(t.X, p[1] * z) /\ Worth(t.Y, p[2] * z) /\ Worth(t.T, p[1] * p[2] * z)
  BY <1>1, <1>3, <1>6
<1> QED BY <1>2, <1>4, <1>6, <1>7 DEF Represents

LEMMA ResetSays == Zero \in Curve /\ Represents(ge_p3_0, Zero)
<1>1. Zero \in Curve
  <2>1. 0 \in 0 .. Q - 1 /\ 1 \in 0 .. Q - 1
    BY QIsOdd
  <2>2. OnCurve(0, 1)
    <3>1. 1 * 1 - 0 * 0 = 1 /\ 1 + D * (0 * 0 * 1 * 1) = 1
      BY FieldAssumption, QIsOdd
    <3>2. 1 \cong 1
      BY SameIsSame
    <3> QED BY <3>1, <3>2 DEF OnCurve
  <2> QED BY <2>1, <2>2, CurveSays DEF Zero
<1>2. Zero[1] = 0 /\ Zero[2] = 1 /\ Zero[1] * 1 = 0 /\ Zero[2] * 1 = 1 /\ Zero[1] * Zero[2] * 1 = 0
  BY DEF Zero
<1>3. PICK t : t = ge_p3_0
  OBVIOUS
<1>4. t.X = fe_0 /\ t.Y = fe_1 /\ t.Z = fe_1 /\ t.T = fe_0
  BY <1>3 DEF ge_p3_0, ge_p3
<1>5. Represents(t, Zero)
  BY <1>2, <1>4, WorthOfOne, TwoIsSome DEF Represents
<1> QED BY <1>1, <1>3, <1>5

-----------------------------------------------------------------------------
(* The point that a string names. *)

\* n / v is the square of x, which y asks to be u / v.
Tried(x, y, u, v, n) == u = y * y - 1 /\ v = (y * y) * D + 1 /\ n = (x * x) * v

LEMMA TriedMeets ==
    ASSUME NEW x \in Int, NEW y \in Int, NEW u \in Int, NEW v \in Int, NEW n \in Int, Tried(x, y, u, v, n)
    PROVE  n \cong u <=> OnCurve(x, y)
<1>1. PICK dd \in Int : dd = D
  BY FieldAssumption, QIsOdd
<1>2. PICK a \in Int, b \in Int : a = y * y - x * x /\ b = 1 + dd * (x * x * y * y)
  OBVIOUS
<1>3. n - u = b - a
  <2>1. u = y * y - 1 /\ v = (y * y) * dd + 1 /\ n = (x * x) * v
    BY <1>1 DEF Tried
  <2> QED BY <1>2, <2>1
<1>4. n \cong u <=> b \cong a
  BY <1>3 DEF \cong
<1>5. b \cong a <=> a \cong b
  BY SameBack
<1> QED BY <1>1, <1>2, <1>4, <1>5 DEF OnCurve

LEMMA DenominatorIsSome ==
    ASSUME NEW y \in Int, NEW v \in Int, v = (y * y) * D + 1 PROVE ~ (v \cong 0)
<1> SUFFICES ASSUME v \cong 0 PROVE FALSE
  OBVIOUS
<1>1. PICK im \in Int, dd \in Int : im = Root /\ dd = D
  BY FieldAssumption, QIsOdd
<1>2. PICK k \in Int : v - 0 = k * Q
  BY DEF \cong
<1>3. PICK l \in Int, m \in Int : l = im * im /\ m = dd * (y * y)
  OBVIOUS
<1>4. PICK n \in Int : l + 1 - 0 = n * Q
  BY <1>1, <1>3, RootIs DEF \cong
<1>5. l - m = (n - k) * Q
  BY <1>1, <1>2, <1>3, <1>4, QIsOdd
<1>6. l \cong m
  BY <1>5 DEF \cong
<1>7. y \cong 0
  BY <1>1, <1>3, <1>6, NoSquareTimesD
<1>8. v = (dd * y) * y + 1
  BY <1>1
<1>9. PICK hh \in Int : hh = (dd * y) * y /\ hh \cong 0
  BY <1>7, NoneTimes
<1>10. v = hh + 1
  BY <1>8, <1>9
<1>11. PICK j \in Int : hh - 0 = j * Q
  BY <1>9 DEF \cong
<1>12. 1 - 0 = (k - j) * Q
  BY <1>2, <1>10, <1>11, QIsOdd
<1>13. 1 \cong 0
  BY <1>12 DEF \cong
<1> QED BY <1>13, TwoIsSome

LEMMA SquaredSays == ASSUME NEW x \in Int PROVE Squared(x) \in Int /\ Squared(x) \cong x * x
<1>1. PICK n \in Int : n = x * x
  OBVIOUS
<1>2. n % Q \in Int /\ n % Q \cong n
  BY ModIsSame, QIsOdd
<1> QED BY <1>1, <1>2 DEF Squared

\* What fe_pow22523 gives, squared and times its argument, is a root of 1 of the fourth degree.
LEMMA ChainSays ==
    ASSUME NEW w \in Int, ~ (w \cong 0), NEW P \in Int, P = Power(w % Q, (Q - 5) \div 8),
           NEW r \in Int, r = P * P * w, NEW rr \in Int, rr = r * r
    PROVE  rr * rr \cong 1
<1>1. PICK x \in 0 .. Q - 1 : x = w % Q /\ x \cong w
  BY ModIsSame
<1>2. x \in Int
  BY QIsOdd
<1>3. x \in 1 .. Q - 1
  <2>1. x # 0
    BY <1>1, SameBack, QIsOdd
  <2> QED BY <2>1
<1>4. PICK a \in Int, b \in Int, c \in Int, fe \in Int, g \in Int :
          /\ a = Squared(P) /\ b = Squared(a) /\ c = Squared(b) /\ fe = Squared(x) /\ g = Squared(fe)
          /\ a \cong P * P /\ b \cong a * a /\ c \cong b * b /\ fe \cong x * x /\ g \cong fe * fe
  <2>1. PICK a \in Int : a = Squared(P) /\ a \cong P * P
    BY SquaredSays
  <2>2. PICK b \in Int : b = Squared(a) /\ b \cong a * a
    BY SquaredSays
  <2>3. PICK c \in Int : c = Squared(b) /\ c \cong b * b
    BY SquaredSays
  <2>4. PICK fe \in Int : fe = Squared(x) /\ fe \cong x * x
    BY <1>2, SquaredSays
  <2>5. PICK g \in Int : g = Squared(fe) /\ g \cong fe * fe
    BY SquaredSays
  <2> QED BY <2>1, <2>2, <2>3, <2>4, <2>5
<1>5. (c * g) % Q = 1
  BY <1>1, <1>3, <1>4, FieldAssumption
<1>6. PICK n \in Int : n = c * g /\ n \cong 1
  <2>1. PICK n \in Int : n = c * g
    OBVIOUS
  <2> QED BY <1>5, <2>1, ModIsSame
<1>7. PICK P2 \in Int, P4 \in Int, P8 \in Int, w2 \in Int, w4 \in Int :
          P2 = P * P /\ P4 = P2 * P2 /\ P8 = P4 * P4 /\ w2 = w * w /\ w4 = w2 * w2
  OBVIOUS
<1>8. PICK aa \in Int, bb \in Int, xx \in Int, ff \in Int : aa = a * a /\ bb = b * b /\ xx = x * x /\ ff = fe * fe
  OBVIOUS
<1>9. a \cong P2 /\ b \cong aa /\ c \cong bb /\ fe \cong xx /\ g \cong ff
  BY <1>4, <1>7, <1>8
<1>10. aa \cong P4 /\ xx \cong w2
  BY <1>1, <1>2, <1>7, <1>8, <1>9, SameSquare
<1>11. b \cong P4 /\ fe \cong w2
  BY <1>9, <1>10, SameOn
<1>12. bb \cong P8 /\ ff \cong w4
  BY <1>7, <1>8, <1>11, SameSquare
<1>13. c \cong P8 /\ g \cong w4
  BY <1>9, <1>12, SameOn
<1>14. PICK m \in Int : m = P8 * w4
  OBVIOUS
<1>15. n \cong m
  BY <1>6, <1>13, <1>14, SameProduct
<1>16. m \cong 1
  BY <1>6, <1>15, SameBack, SameOn
<1>17. m = rr * rr
  BY <1>7, <1>14
<1> QED BY <1>16, <1>17

\* The candidate x for y: w is u v^7, P its power.
Candidate(y, u, v, v3, w, P, x, n) ==
    /\ Tried(x, y, u, v, n)
    /\ v3 = (v * v) * v /\ w = ((v3 * v3) * v) * u
    /\ P = Power(w % Q, (Q - 5) \div 8) /\ x = (P * v3) * u

\* If a point has y, then the candidate for its x is a root up to the sign.
LEMMA CandidateMeets ==
    ASSUME NEW a \in Int, NEW y \in Int, OnCurve(a, y), NEW u \in Int, NEW v \in Int, NEW v3 \in Int,
           NEW w \in Int, NEW P \in Int, NEW x \in Int, NEW n \in Int, Candidate(y, u, v, v3, w, P, x, n)
    PROVE  n - u \cong 0 \/ n + u \cong 0
<1>0. /\ u = y * y - 1 /\ v = (y * y) * D + 1 /\ n = (x * x) * v
      /\ v3 = (v * v) * v /\ w = ((v3 * v3) * v) * u /\ P = Power(w % Q, (Q - 5) \div 8) /\ x = (P * v3) * u
  BY DEF Candidate, Tried
<1>1. ~ (v \cong 0)
  BY <1>0, DenominatorIsSome
<1>2. PICK m \in Int : m = (a * a) * v /\ m \cong u
  <2>1. PICK m \in Int : m = (a * a) * v
    OBVIOUS
  <2>2. Tried(a, y, u, v, m)
    BY <1>0, <2>1 DEF Tried
  <2> QED BY <2>1, <2>2, TriedMeets
<1>3. CASE u \cong 0
  <2>1. PICK c \in Int : c = (P * v3) * (x * v) - 1
    OBVIOUS
  <2>2. PICK k \in Int : k = n - u
    OBVIOUS
  <2>3. k = c * u
    BY <1>0, <2>1, <2>2
  <2>4. k \cong 0
    BY <1>3, <2>3, NoneTimes
  <2> QED BY <2>2, <2>4
<1>4. CASE ~ (u \cong 0)
  <2>1. ~ (w \cong 0)
    <3>1. PICK v2 \in Int, v6 \in Int, v7 \in Int : v2 = v * v /\ v6 = v3 * v3 /\ v7 = v6 * v
      OBVIOUS
    <3>2. ~ (v2 \cong 0)
      BY <1>1, <3>1, NoneFromTwo
    <3>3. ~ (v3 \cong 0)
      BY <1>0, <1>1, <3>1, <3>2, NoneFromTwo
    <3>4. ~ (v7 \cong 0)
      BY <1>1, <3>1, <3>3, NoneFromTwo
    <3> QED BY <1>0, <1>4, <3>1, <3>4, NoneFromTwo
  <2>2. PICK r \in Int, rr \in Int : r = P * P * w /\ rr = r * r
    OBVIOUS
  <2>3. rr * rr \cong 1
    BY <1>0, <2>1, <2>2, ChainSays
  <2>4. n = r * u
    <3>1. n = (P * P) * (((v3 * v3) * v) * u) * u
      BY <1>0
    <3> QED BY <1>0, <2>2, <3>1
  <2>5. rr - 1 \cong 0 \/ rr + 1 \cong 0
    <3>1. PICK p \in Int, q \in Int, pq \in Int, k \in Int :
              p = rr - 1 /\ q = rr + 1 /\ pq = p * q /\ k = rr * rr
      OBVIOUS
    <3>2. k - 1 \cong 0
      BY <2>3, <3>1, SameIfNone
    <3>3. pq = k - 1
      BY <3>1
    <3> QED BY <3>1, <3>2, <3>3, NoneFromTwo
  <2>6. CASE rr - 1 \cong 0
    <3>1. PICK p \in Int, q \in Int, pq \in Int : p = r - 1 /\ q = r + 1 /\ pq = p * q
      OBVIOUS
    <3>2. pq = rr - 1
      BY <2>2, <3>1
    <3>3. p \cong 0 \/ q \cong 0
      BY <2>6, <3>1, <3>2, NoneFromTwo
    <3>4. PICK k \in Int, l \in Int : k = n - u /\ l = n + u
      OBVIOUS
    <3>5. k = u * p /\ l = u * q
      BY <2>4, <3>1, <3>4
    <3>6. k \cong 0 \/ l \cong 0
      BY <3>3, <3>5, NoneTimes
    <3> QED BY <3>4, <3>6
  <2>7. CASE rr + 1 \cong 0
    <3>1. PICK im \in Int, j \in Int : im = Root /\ j = im * im /\ j + 1 \cong 0
      BY RootIs
    <3>2. PICK p \in Int, q \in Int, pq \in Int : p = r - im /\ q = r + im /\ pq = p * q
      OBVIOUS
    <3>3. pq \cong 0
      <4>1. PICK k \in Int : rr + 1 - 0 = k * Q
        BY <2>7 DEF \cong
      <4>2. PICK l \in Int : j + 1 - 0 = l * Q
        BY <3>1 DEF \cong
      <4>3. pq = rr - j
        BY <2>2, <3>1, <3>2
      <4>4. pq - 0 = (k - l) * Q
        BY <4>1, <4>2, <4>3, QIsOdd
      <4> QED BY <4>4 DEF \cong
    <3>4. p \cong 0 \/ q \cong 0
      BY <3>2, <3>3, NoneFromTwo
    <3>5. PICK b \in Int, bb \in Int, s \in Int :
              b = P * (a * (v * v) * (v * v)) /\ bb = b * b /\ s = (P * P) * (v * v * v * v * v * v * v)
      OBVIOUS
    <3>6. bb \cong r
      <4>1. PICK sm \in Int, su \in Int : sm = s * m /\ su = s * u
        OBVIOUS
      <4>2. sm \cong su
        BY <1>2, <4>1, SameTimes
      <4>3. bb = sm
        BY <1>2, <3>5, <4>1
      <4>4. r = su
        <5>1. PICK pp \in Int, v7 \in Int : pp = P * P /\ v7 = v * v * v * v * v * v * v
          OBVIOUS
        <5>2. w = v7 * u
          BY <1>0, <5>1
        <5>3. r = pp * w /\ su = (pp * v7) * u
          BY <2>2, <3>5, <4>1, <5>1
        <5> QED BY <5>2, <5>3
      <4> QED BY <4>2, <4>3, <4>4
    <3>7. CASE p \cong 0
      <4>1. r \cong im
        BY <3>2, <3>7, SameIfNone
      <4>2. bb \cong im
        BY <3>6, <4>1, SameOn
      <4>3. PICK o \in Int, c \in Int : o = 1 /\ c = im * (o * o)
        OBVIOUS
      <4>4. c = im
        BY <4>3
      <4>5. bb \cong c /\ ~ (o \cong 0)
        BY <4>2, <4>3, <4>4, TwoIsSome
      <4> QED BY <3>1, <3>5, <4>3, <4>5, NoSquareTimesD
    <3>8. CASE q \cong 0
      <4>1. PICK k \in Int : q - 0 = k * Q
        BY <3>8 DEF \cong
      <4>2. PICK l \in Int : j + 1 - 0 = l * Q
        BY <3>1 DEF \cong
      <4>3. PICK c \in Int : c = im * j
        OBVIOUS
      <4>4. c = im * (l * Q - 1)
        BY <4>2, <4>3, QIsOdd
      <4>5. c = (im * l) * Q - im
        BY <4>4, QIsOdd
      <4>6. r = k * Q - im
        BY <3>2, <4>1, QIsOdd
      <4>7. r - c = (k - im * l) * Q
        <5>1. PICK il \in Int : il = im * l
          OBVIOUS
        <5> QED BY <4>5, <4>6, <5>1, QIsOdd
      <4>8. r \cong c
        BY <4>7 DEF \cong
      <4>9. bb \cong c
        BY <3>6, <4>8, SameOn
      <4>10. ~ (im \cong 0)
        <5> SUFFICES ASSUME im \cong 0 PROVE FALSE
          OBVIOUS
        <5>1. j \cong 0
          BY <3>1, NoneTimes
        <5>2. PICK hh \in Int : j - 0 = hh * Q
          BY <5>1 DEF \cong
        <5>3. 1 - 0 = (l - hh) * Q
          BY <4>2, <5>2, QIsOdd
        <5>4. 1 \cong 0
          BY <5>3 DEF \cong
        <5> QED BY <5>4, TwoIsSome
      <4>11. c = im * (im * im)
        BY <3>1, <4>3
      <4> QED BY <3>1, <3>5, <4>9, <4>10, <4>11, NoSquareTimesD
    <3> QED BY <3>4, <3>7, <3>8
  <2> QED BY <2>5, <2>6, <2>7
<1> QED BY <1>3, <1>4

LEMMA StoredSays ==
    ASSUME NEW fe, NEW n \in Int, Worth(fe, n)
    PROVE  /\ ~ fe_isnonzero(fe) => n \cong 0
           /\ fe.b <= Storable => /\ ~ fe_isnonzero(fe) <=> n \cong 0
                                  /\ fe_isnegative(fe) = fe.v % 2 /\ fe_tobytes(fe).y = fe.v
<1>1. PICK m \in 0 .. Q - 1 : fe.v = m /\ m \cong n
  BY DEF Worth
<1>2. m \in Int
  BY QIsOdd
<1>3. fe_tobytes(fe).y = IF fe.b <= Storable THEN m ELSE Wild
  BY <1>1 DEF fe_tobytes
<1>4. n \cong 0 => m = 0
  <2> SUFFICES ASSUME n \cong 0 PROVE m = 0
    OBVIOUS
  <2>1. m \cong 0
    BY <1>1, <1>2, SameOn
  <2> QED BY <2>1, SameIsEqual, QIsOdd
<1>5. m = 0 => n \cong 0
  BY <1>1, SameBack
<1>6. Wild # 0
  BY DEF Wild
<1> QED BY <1>1, <1>3, <1>4, <1>5, <1>6 DEF fe_isnonzero, fe_isnegative

LEMMA ReadWorths ==
    ASSUME NEW s \in String
    PROVE  \E y \in 0 .. Q - 1, u, v, v3, w, P, x, n \in Int :
             /\ y = s.y % Q /\ Worth(fe_frombytes(s), y) /\ fe_frombytes(s).v = y
             /\ Worth(ReadU(s), u) /\ Worth(ReadX(s), x) /\ Worth(ReadVxx(s), n)
             /\ Candidate(y, u, v, v3, w, P, x, n)
<1>1. s.y \in Int
  BY QIsOdd DEF String
<1>2. PICK y \in 0 .. Q - 1 : y = s.y % Q /\ y \cong y
  BY <1>1, ModIsSame, SameIsSame, QIsOdd
<1>3. y \in Int
  BY QIsOdd
<1>4. fe_frombytes(s).v = y /\ Worth(fe_frombytes(s), y)
  BY <1>2 DEF fe_frombytes, Element, Worth
<1>5. PICK dd \in Int : dd = D
  BY FieldAssumption, QIsOdd
<1>6. PICK yy \in Int, yd \in Int, u \in Int, v \in Int : yy = y * y /\ yd = yy * dd /\ u = yy - 1 /\ v = yd + 1
  BY <1>3
<1>7. Worth(fe_sq(fe_frombytes(s)), yy)
  BY <1>3, <1>4, <1>6, WorthSq
<1>8. Worth(fe_1, 1) /\ Worth(d, dd)
  BY <1>5, WorthOfOne
<1>9. Worth(ReadU(s), u)
  <2>1. PICK one \in Int : one = 1 /\ Worth(fe_1, one)
    BY <1>8
  <2>2. Worth(fe_sub(fe_sq(fe_frombytes(s)), fe_1), yy - one)
    BY <1>7, <2>1, WorthAdd
  <2> QED BY <1>6, <2>1, <2>2 DEF ReadU
<1>10. Worth(ReadV(s), v)
  <2>1. Worth(fe_mul(fe_sq(fe_frombytes(s)), d), yd)
    BY <1>6, <1>7, <1>8, WorthMul
  <2> QED BY <1>6, <1>8, <2>1, WorthAdd DEF ReadV
<1>11. PICK v2 \in Int, v3 \in Int, v6 \in Int, v7 \in Int, w \in Int :
           v2 = v * v /\ v3 = v2 * v /\ v6 = v3 * v3 /\ v7 = v6 * v /\ w = v7 * u
  OBVIOUS
<1>12. Worth(ReadV3(s), v3)
  <2>1. Worth(fe_sq(ReadV(s)), v2)
    BY <1>10, <1>11, WorthSq
  <2> QED BY <1>10, <1>11, <2>1, WorthMul DEF ReadV3
<1>13. Worth(ReadUv7(s), w)
  <2>1. Worth(fe_sq(ReadV3(s)), v6)
    BY <1>11, <1>12, WorthSq
  <2>2. Worth(fe_mul(fe_sq(ReadV3(s)), ReadV(s)), v7)
    BY <1>10, <1>11, <2>1, WorthMul
  <2> QED BY <1>9, <1>11, <2>2, WorthMul DEF ReadUv7
<1>14. PICK P \in Int : P = Power(w % Q, (Q - 5) \div 8) /\ Worth(fe_pow22523(ReadUv7(s)), P)
  <2>1. PICK m \in 0 .. Q - 1 : m = ReadUv7(s).v /\ m \cong w
    BY <1>13 DEF Worth
  <2>2. m \in Int
    BY QIsOdd
  <2>3. m % Q = w % Q
    BY <2>1, <2>2, SameMod
  <2>4. m = w % Q
    BY <2>3, SmallMod
  <2>5. PICK P \in 0 .. Q - 1 : P = Power(m, (Q - 5) \div 8)
    BY FieldAssumption
  <2>6. P \in Int
    BY QIsOdd
  <2>7. Worth(fe_pow22523(ReadUv7(s)), P)
    BY <2>1, <2>5, <2>6, WorthElement DEF fe_pow22523
  <2> QED BY <2>4, <2>5, <2>6, <2>7
<1>15. PICK c \in Int, x \in Int, xx \in Int, n \in Int : c = P * v3 /\ x = c * u /\ xx = x * x /\ n = xx * v
  OBVIOUS
<1>16. Worth(ReadX(s), x)
  <2>1. Worth(fe_mul(fe_pow22523(ReadUv7(s)), ReadV3(s)), c)
    BY <1>12, <1>14, <1>15, WorthMul
  <2> QED BY <1>9, <1>15, <2>1, WorthMul DEF ReadX
<1>17. Worth(ReadVxx(s), n)
  <2>1. Worth(fe_sq(ReadX(s)), xx)
    BY <1>15, <1>16, WorthSq
  <2> QED BY <1>10, <1>15, <2>1, WorthMul DEF ReadVxx
<1>18. /\ u = y * y - 1 /\ v = (y * y) * D + 1 /\ v3 = (v * v) * v /\ w = ((v3 * v3) * v) * u
       /\ x = (P * v3) * u /\ n = (x * x) * v
  BY <1>5, <1>6, <1>11, <1>15
<1>19. Candidate(y, u, v, v3, w, P, x, n)
  BY <1>14, <1>18 DEF Candidate, Tried
<1> QED BY <1>2, <1>4, <1>9, <1>16, <1>17, <1>19

\* An element and its opposite have different parities, unless both are 0.
LEMMA OppositeParity ==
    ASSUME NEW t \in 0 .. Q - 1, NEW g \in 0 .. Q - 1, g \cong -t
    PROVE  g = (IF t = 0 THEN 0 ELSE Q - t) /\ (t # 0 => g % 2 # t % 2)
<1>1. PICK k \in Int : g - (-t) = k * Q
  BY DEF \cong
<1>2. PICK q \in Int : q = Q
  BY QIsOdd
<1>3. k = 0 \/ k = 1
  <2>1. 0 <= k * q /\ k * q < 2 * q /\ q >= 5
    BY <1>1, <1>2, QIsOdd
  <2>2. ASSUME k <= -1 PROVE FALSE
    <3>1. k * q <= -q
      BY <2>1, <2>2
    <3> QED BY <2>1, <3>1
  <2>3. ASSUME k >= 2 PROVE FALSE
    <3>1. k * q >= 2 * q
      BY <2>1, <2>3
    <3> QED BY <2>1, <3>1
  <2> QED BY <2>2, <2>3
<1>4. g = (IF t = 0 THEN 0 ELSE q - t)
  BY <1>1, <1>2, <1>3, QIsOdd
<1>5. ASSUME t # 0 PROVE g % 2 # t % 2
  <2>1. q % 2 = 1
    BY <1>2, QIsOdd
  <2>2. g = q - t
    BY <1>4, <1>5
  <2> QED BY <1>2, <2>1, <2>2, QIsOdd
<1> QED BY <1>2, <1>4, <1>5

LEMMA SquareOfRootIs ==
    ASSUME NEW x \in Int, NEW n \in Int, NEW u \in Int, NEW v \in Int, n = (x * x) * v, n + u \cong 0,
           NEW im \in Int, im = Root, NEW t \in Int, t = x * im, NEW m \in Int, m = (t * t) * v
    PROVE  m \cong u
<1>1. PICK j \in Int : j = im * im /\ j + 1 \cong 0
  BY RootIs
<1>2. PICK k \in Int : j + 1 - 0 = k * Q
  BY <1>1 DEF \cong
<1>3. PICK l \in Int : n + u - 0 = l * Q
  BY DEF \cong
<1>4. PICK q \in Int : q = Q
  BY QIsOdd
<1>5. m = n * j
  BY <1>1
<1>6. m = n * (k * q - 1)
  BY <1>2, <1>4, <1>5
<1>7. m - u = (n * k - l) * q
  BY <1>3, <1>4, <1>6
<1>8. n * k - l \in Int
  OBVIOUS
<1> QED BY <1>4, <1>7, <1>8 DEF \cong

LEMMA ReadSays ==
    ASSUME NEW s \in String, NEW r, r = ge_frombytes_negate_vartime(s), NEW p, p = <<r.h.X.v, r.h.Y.v>>
    PROVE  /\ r.status = 0 => p \in Curve /\ Represents(r.h, p) /\ Opposite(p) \in Named(s)
           /\ r.status # 0 => \A q \in Curve : q[2] # s.y % Q
<1>1. PICK y \in 0 .. Q - 1, u \in Int, v \in Int, v3 \in Int, w \in Int, P \in Int, x \in Int, n \in Int :
             /\ y = s.y % Q /\ Worth(fe_frombytes(s), y) /\ fe_frombytes(s).v = y
             /\ Worth(ReadU(s), u) /\ Worth(ReadX(s), x) /\ Worth(ReadVxx(s), n)
             /\ Candidate(y, u, v, v3, w, P, x, n)
  BY ReadWorths
<1>2. y \in Int
  BY QIsOdd
<1>3. Tried(x, y, u, v, n) /\ n = (x * x) * v
  BY <1>1 DEF Candidate, Tried
<1>4. (NotU(s) <=> ~ (n - u \cong 0)) /\ (NotMinusU(s) <=> ~ (n + u \cong 0))
  <2>1. PICK a \in Int, b \in Int : a = n - u /\ b = n + u
    OBVIOUS
  <2>2. Worth(fe_sub(ReadVxx(s), ReadU(s)), a) /\ Worth(fe_add(ReadVxx(s), ReadU(s)), b)
    <3>1. Worth(fe_sub(ReadVxx(s), ReadU(s)), n - u) /\ Worth(fe_add(ReadVxx(s), ReadU(s)), n + u)
      BY <1>1, WorthAdd
    <3> QED BY <2>1, <3>1
  <2>3. fe_sub(ReadVxx(s), ReadU(s)).b <= Storable /\ fe_add(ReadVxx(s), ReadU(s)).b <= Storable
    BY ReadIsTight, SumBound DEF Tight, Storable
  <2>4. (NotU(s) <=> ~ (a \cong 0)) /\ (NotMinusU(s) <=> ~ (b \cong 0))
    BY <2>2, <2>3, StoredSays DEF NotU, NotMinusU
  <2> QED BY <2>1, <2>4
<1>5. /\ r.h.X = Signed(s) /\ r.h.Y = fe_frombytes(s) /\ r.h.Z = fe_1
      /\ r.h.T = fe_mul(Signed(s), fe_frombytes(s))
  <2>1. PICK hh : hh = r.h
    OBVIOUS
  <2>2. hh = [X |-> Signed(s), Y |-> fe_frombytes(s), Z |-> fe_1, T |-> fe_mul(Signed(s), fe_frombytes(s))]
    BY <2>1, ReadIs
  <2> QED BY <2>1, <2>2
<1>6. r.status = (IF NotU(s) /\ NotMinusU(s) THEN -1 ELSE 0)
  BY ReadIs
<1>7. CASE NotU(s) /\ NotMinusU(s)
  <2>1. ASSUME NEW q \in Curve, q[2] = s.y % Q PROVE FALSE
    <3>1. PICK a \in Int : OnCurve(a, y)
      <4>1. PICK a \in Int : OnCurve(a, q[2])
        BY CurvePoint
      <4> QED BY <1>1, <2>1, <4>1
    <3>2. n - u \cong 0 \/ n + u \cong 0
      BY <1>1, <1>2, <3>1, CandidateMeets
    <3> QED BY <1>4, <1>7, <3>2
  <2> QED BY <1>6, <1>7, <2>1
<1>8. CASE ~ (NotU(s) /\ NotMinusU(s))
  <2>1. PICK t \in 0 .. Q - 1 : t = Turned(s).v /\ OnCurve(t, y)
    <3>1. PICK k \in Int : Worth(Turned(s), k) /\ OnCurve(k, y)
      <4>1. CASE ~ NotU(s)
        <5>1. n \cong u
          BY <1>4, <4>1, SameIfNone
        <5>2. OnCurve(x, y)
          BY <1>3, <1>2, <5>1, TriedMeets
        <5> QED BY <1>1, <4>1, <5>2 DEF Turned
      <4>2. CASE NotU(s)
        <5>1. n + u \cong 0
          BY <1>4, <1>8, <4>2
        <5>2. PICK im \in Int, k \in Int, m \in Int : im = Root /\ k = x * im /\ m = (k * k) * v
          BY RootIs
        <5>3. m \cong u
          BY <1>3, <5>1, <5>2, SquareOfRootIs
        <5>4. OnCurve(k, y)
          <6>1. Tried(k, y, u, v, m)
            BY <1>3, <5>2 DEF Tried
          <6> QED BY <1>2, <5>3, <6>1, TriedMeets
        <5>5. Worth(sqrtm1, im)
          BY <5>2, WorthOfOne
        <5>6. Worth(fe_mul(ReadX(s), sqrtm1), k)
          BY <1>1, <5>2, <5>5, WorthMul
        <5> QED BY <4>2, <5>4, <5>6 DEF Turned
      <4> QED BY <4>1, <4>2
    <3>2. PICK t \in 0 .. Q - 1 : t = Turned(s).v /\ t \cong k
      BY <3>1 DEF Worth
    <3>3. t \in Int
      BY QIsOdd
    <3>4. k * k \cong t * t
      <4>1. k \cong t
        BY <3>2, <3>3, SameBack
      <4> QED BY <3>3, <4>1, SameSquare
    <3> QED BY <1>2, <3>1, <3>2, <3>3, <3>4, CurveBySquare
  <2>2. t \in Int /\ Worth(Turned(s), t)
    BY <2>1, SameIsSame, QIsOdd DEF Worth
  <2>3. fe_isnegative(Turned(s)) = t % 2
    <3>1. Turned(s).b <= Storable
      BY ReadIsTight DEF Tight, Storable
    <3> QED BY <2>1, <2>2, <3>1, StoredSays
  <2>4. <<t, y>> \in Curve
    BY <2>1, CurveSays
  <2>5. PICK o \in 0 .. Q - 1 : Opposite(<<t, y>>) = <<o, y>> /\ o \cong -t /\ <<o, y>> \in Curve
    <3>1. PICK o \in 0 .. Q - 1 : o = (-t) % Q /\ o \cong -t
      BY <2>2, ModIsSame
    <3>2. Opposite(<<t, y>>) = <<o, y>>
      BY <3>1 DEF Opposite
    <3> QED BY <2>4, <3>1, <3>2, OppositeSays
  <2>6. o = (IF t = 0 THEN 0 ELSE Q - t) /\ (t # 0 => o % 2 # t % 2)
    BY <2>5, OppositeParity
  <2>7. Opposite(<<o, y>>) = <<t, y>>
    <3>1. PICK b \in 0 .. Q - 1 : b = (-o) % Q /\ b \cong -o
      BY ModIsSame, QIsOdd
    <3>2. b = (IF o = 0 THEN 0 ELSE Q - o)
      BY <3>1, OppositeParity
    <3>3. b = t
      BY <2>6, <3>2, QIsOdd
    <3> QED BY <3>1, <3>3 DEF Opposite
  <2>8. fe_neg(Turned(s)).v = o
    <3>1. fe_neg(Turned(s)).v = (-t) % Q
      BY <2>1 DEF fe_neg, Element
    <3>2. Opposite(<<t, y>>)[1] = (-t) % Q
      BY DEF Opposite
    <3> QED BY <2>5, <3>1, <3>2
  <2>9. PICK g \in 0 .. Q - 1 : /\ g = Signed(s).v /\ <<g, y>> \in Curve /\ Opposite(<<g, y>>) \in Curve
                                /\ Opposite(<<g, y>>)[2] = y
                                /\ Opposite(<<g, y>>)[1] = 0 \/ Opposite(<<g, y>>)[1] % 2 = s.top
    <3>1. CASE t % 2 = s.top
      <4>1. Signed(s).v = o
        BY <2>3, <2>8, <3>1 DEF Signed
      <4> QED BY <2>4, <2>5, <2>7, <3>1, <4>1
    <3>2. CASE t % 2 # s.top
      <4>1. Signed(s).v = t
        BY <2>1, <2>3, <3>2 DEF Signed
      <4>2. o = 0 \/ o % 2 = s.top
        <5>1. s.top \in {0, 1} /\ t % 2 \in {0, 1} /\ o % 2 \in {0, 1}
          BY QIsOdd DEF String
        <5> QED BY <2>6, <3>2, <5>1
      <4> QED BY <2>4, <2>5, <4>1, <4>2
    <3> QED BY <3>1, <3>2
  <2>10. p = <<g, y>>
    BY <1>1, <1>5, <2>9
  <2>11. Opposite(p) \in Named(s)
    BY <1>1, <2>9, <2>10 DEF Named
  <2>12. Represents(r.h, p)
    <3>1. g \in Int /\ Worth(Signed(s), g)
      BY <2>9, SameIsSame, QIsOdd DEF Worth
    <3>2. PICK m \in Int : m = g * y
      BY <1>2, <3>1
    <3>3. Worth(fe_mul(Signed(s), fe_frombytes(s)), m)
      BY <1>1, <1>2, <3>1, <3>2, WorthMul
    <3>4. p[1] * 1 = g /\ p[2] * 1 = y /\ p[1] * p[2] * 1 = m
      BY <1>2, <2>10, <3>1, <3>2
    <3>5. PICK hh : hh = r.h
      OBVIOUS
    <3>6. hh.X = Signed(s) /\ hh.Y = fe_frombytes(s) /\ hh.Z = fe_1 /\ hh.T = fe_mul(Signed(s), fe_frombytes(s))
      BY <1>5, <3>5
    <3>7. Worth(hh.X, p[1] * 1) /\ Worth(hh.Y, p[2] * 1) /\ Worth(hh.Z, 1) /\ Worth(hh.T, p[1] * p[2] * 1)
      BY <1>1, <3>1, <3>3, <3>4, <3>6, WorthOfOne
    <3>8. Represents(hh, p)
      BY <3>7, TwoIsSome DEF Represents
    <3> QED BY <3>5, <3>8
  <2> QED BY <1>6, <1>8, <2>9, <2>10, <2>11, <2>12
<1> QED BY <1>7, <1>8

\* Two points with the same y have the same x, up to its sign.
LEMMA TwoRoots ==
    ASSUME NEW a \in Int, NEW b \in Int, NEW y \in Int, OnCurve(a, y), OnCurve(b, y)
    PROVE  a \cong b \/ a \cong -b
<1>1. PICK u \in Int, v \in Int, m \in Int, n \in Int :
          u = y * y - 1 /\ v = (y * y) * D + 1 /\ m = (a * a) * v /\ n = (b * b) * v
  BY FieldAssumption, QIsOdd
<1>2. m \cong u /\ n \cong u
  <2>1. Tried(a, y, u, v, m) /\ Tried(b, y, u, v, n)
    BY <1>1 DEF Tried
  <2> QED BY <2>1, TriedMeets
<1>3. ~ (v \cong 0)
  BY <1>1, DenominatorIsSome
<1>4. PICK p \in Int, q \in Int, pq \in Int, k \in Int : p = a - b /\ q = a + b /\ pq = p * q /\ k = m - n
  OBVIOUS
<1>5. k = v * pq
  BY <1>1, <1>4
<1>6. m \cong n
  BY <1>2, SameBack, SameOn
<1>7. k \cong 0
  BY <1>4, <1>6, SameIfNone
<1>8. p \cong 0 \/ q \cong 0
  BY <1>3, <1>4, <1>5, <1>7, NoneFromTwo
<1>9. PICK o \in Int : o = -b
  OBVIOUS
<1>10. q = a - o
  BY <1>4, <1>9
<1> QED BY <1>4, <1>8, <1>9, <1>10, SameIfNone

LEMMA WriteSays ==
    ASSUME NEW r, NEW s \in Curve, Represents(r, s), Within(r, Tight), NEW t, t = ge_p3_tobytes(r)
    PROVE  t \in String /\ t.y < Q /\ t.top = s[1] % 2 /\ Named(t) = {s}
<1>1. PICK x \in 0 .. Q - 1, y \in 0 .. Q - 1 : s[1] = x /\ s[2] = y /\ s = <<x, y>> /\ OnCurve(x, y)
  BY CurvePoint
<1>2. x \in Int /\ y \in Int
  BY QIsOdd
<1>3. PICK z \in Int : ~ (z \cong 0) /\ Worth(r.Z, z) /\ Worth(r.X, x * z) /\ Worth(r.Y, y * z)
  BY <1>1, <1>2, RepresentsSays
<1>4. PICK inv \in Int : Worth(fe_invert(r.Z), inv) /\ z * inv \cong 1
  <2>1. PICK m \in 0 .. Q - 1 : m = r.Z.v /\ m \cong z
    BY <1>3 DEF Worth
  <2>2. m \in Int
    BY QIsOdd
  <2>3. m = z % Q
    <3>1. m % Q = z % Q
      BY <2>1, <2>2, SameMod
    <3> QED BY <3>1, SmallMod
  <2>4. PICK inv \in 0 .. Q - 1 : inv = Power(z % Q, Q - 2) /\ z * inv \cong 1
    BY <1>3, Inverse
  <2>5. inv \in Int
    BY QIsOdd
  <2>6. fe_invert(r.Z) = Element(inv, Kept(r.Z.b))
    BY <2>1, <2>3, <2>4 DEF fe_invert
  <2> QED BY <2>4, <2>5, <2>6, WorthElement
<1>5. PICK X \in Int, Y \in Int, a \in Int, b \in Int, one \in Int :
          X = x * z /\ Y = y * z /\ a = X * inv /\ b = Y * inv /\ one = z * inv
  BY <1>2
<1>6. a \cong x /\ b \cong y
  <2>1. a = x * one /\ b = y * one
    BY <1>2, <1>5
  <2>2. one \cong 1
    BY <1>4, <1>5
  <2> QED BY <1>2, <2>1, <2>2, SameByOne
<1> DEFINE recip == fe_invert(r.Z)
           fx == fe_mul(r.X, recip)
           fy == fe_mul(r.Y, recip)
<1>7. Worth(fx, x) /\ Worth(fy, y)
  <2>1. Worth(r.X, X) /\ Worth(r.Y, Y)
    BY <1>3, <1>5
  <2>2. Worth(fx, a) /\ Worth(fy, b)
    BY <1>4, <1>5, <2>1, WorthMul
  <2> QED BY <1>2, <1>6, <2>2, WorthSame
<1>8. fx.v = x /\ fy.v = y
  <2>1. PICK m \in 0 .. Q - 1, n \in 0 .. Q - 1 : m = fx.v /\ n = fy.v /\ m \cong x /\ n \cong y
    BY <1>7 DEF Worth
  <2> QED BY <2>1, SameIsEqual
<1>9. fx.b <= Storable /\ fy.b <= Storable
  <2>1. r.Z.b \in 0 .. MulIn /\ r.X.b \in 0 .. MulIn /\ r.Y.b \in 0 .. MulIn
    BY WithinAll DEF Tight, MulIn
  <2>2. recip.b = Tight
    BY <2>1, BoundOf, KeptIsTight DEF fe_invert
  <2>3. fx.b = Tight /\ fy.b = Tight
    BY <2>1, <2>2, MulTight DEF Tight, MulIn
  <2> QED BY <2>3 DEF Tight, Storable
<1>10. fe_isnegative(fx) = x % 2 /\ fe_tobytes(fy) = [y |-> y, top |-> 0]
  BY <1>2, <1>7, <1>8, <1>9, StoredSays DEF fe_tobytes
<1>11. t = [fe_tobytes(fy) EXCEPT !.top = fe_isnegative(fx)]
  BY DEF ge_p3_tobytes, ge_p3_to_p2, ge_p2, ge_tobytes, fe_copy
<1>12. t.y = y /\ t.top = x % 2
  BY <1>10, <1>11
<1>13. y % Q = y
  BY SmallMod
<1>14. s \in Named(t)
  BY <1>1, <1>12, <1>13 DEF Named
<1>15. ASSUME NEW p \in Named(t) PROVE p = s
  <2>1. PICK c \in 0 .. Q - 1 : p = <<c, y>> /\ OnCurve(c, y) /\ (c = 0 \/ c % 2 = x % 2)
    <3>1. p \in Curve /\ p[2] = y /\ (p[1] = 0 \/ p[1] % 2 = x % 2)
      BY <1>12, <1>13 DEF Named
    <3> QED BY <3>1, CurvePoint
  <2>2. c \in Int
    BY QIsOdd
  <2>3. c \cong x \/ c \cong -x
    BY <1>1, <1>2, <2>1, <2>2, TwoRoots
  <2>4. CASE c \cong x
    BY <1>1, <2>1, <2>4, SameIsEqual
  <2>5. CASE c \cong -x
    <3>1. c = (IF x = 0 THEN 0 ELSE Q - x) /\ (x # 0 => c % 2 # x % 2)
      BY <2>5, OppositeParity
    <3>2. c = x
      BY <2>1, <3>1, QIsOdd
    <3> QED BY <1>1, <2>1, <3>2
  <2> QED BY <2>3, <2>4, <2>5
<1>16. t \in String
  <2>1. t = [y |-> y, top |-> x % 2]
    BY <1>10, <1>11
  <2>2. x % 2 \in {0, 1} /\ y \in 0 .. Q + 2
    BY <1>2, QIsOdd
  <2> QED BY <2>1, <2>2 DEF String
<1> QED BY <1>1, <1>12, <1>14, <1>15, <1>16, QIsOdd

LEMMA RepresentsMeans ==
    ASSUME NEW r, NEW s \in Curve, Represents(r, s)
    PROVE  /\ r.Z.v # 0 /\ r.X.v = (s[1] * r.Z.v) % Q /\ r.Y.v = (s[2] * r.Z.v) % Q
           /\ (r.X.v * r.Y.v) % Q = (r.Z.v * r.T.v) % Q
<1>1. PICK x \in Int, y \in Int : s[1] = x /\ s[2] = y
  BY CurvePoint
<1>2. PICK z \in Int : /\ ~ (z \cong 0) /\ Worth(r.Z, z) /\ Worth(r.X, x * z) /\ Worth(r.Y, y * z)
                       /\ Worth(r.T, x * y * z)
  BY <1>1, RepresentsSays
<1>3. PICK xz \in Int, yz \in Int, t \in Int : xz = x * z /\ yz = y * z /\ t = x * y * z
  OBVIOUS
<1>4. PICK X \in 0 .. Q - 1, Y \in 0 .. Q - 1, Z \in 0 .. Q - 1, T \in 0 .. Q - 1 :
          /\ X = r.X.v /\ Y = r.Y.v /\ Z = r.Z.v /\ T = r.T.v
          /\ X \cong xz /\ Y \cong yz /\ Z \cong z /\ T \cong t
  BY <1>2, <1>3 DEF Worth
<1>5. X \in Int /\ Y \in Int /\ Z \in Int /\ T \in Int
  BY QIsOdd
<1>6. Z # 0
  BY <1>2, <1>4, <1>5, SameBack
<1>7. PICK xZ \in Int, yZ \in Int : xZ = x * Z /\ yZ = y * Z
  BY <1>5
<1>8. X = xZ % Q /\ Y = yZ % Q
  <2>1. xZ \cong xz /\ yZ \cong yz
    BY <1>3, <1>4, <1>5, <1>7, SameTimes
  <2>2. X \cong xZ /\ Y \cong yZ
    BY <1>4, <1>5, <2>1, SameBack, SameOn
  <2>3. X % Q = xZ % Q /\ Y % Q = yZ % Q
    BY <1>5, <2>2, SameMod
  <2> QED BY <2>3, SmallMod
<1>9. PICK a \in Int, b \in Int, m \in Int, n \in Int : a = X * Y /\ b = Z * T /\ m = xz * yz /\ n = z * t
  BY <1>5
<1>10. a \cong m /\ b \cong n
  BY <1>4, <1>5, <1>9, SameProduct
<1>11. m = n
  BY <1>3, <1>9
<1>12. a \cong b
  BY <1>10, <1>11, SameBack, SameOn
<1>13. a % Q = b % Q
  BY <1>12, SameMod
<1> QED BY <1>1, <1>4, <1>6, <1>7, <1>8, <1>9, <1>13

\* What every call keeps: the four coordinates are a point of the curve, with limbs that the next
\* call can take.
Stands == stands \in Curve /\ Represents(point, stands) /\ Within(point, Tight)

LEMMA StandsFirst == ASSUME GInit PROVE Stands
<1>1. PICK p \in Curve, z \in Scale : point = Extended(p, z) /\ stands = p
  BY DEF GInit
<1> QED BY <1>1, ScaleAssumption, ExtendedSays, MadeIsTight DEF Stands

LEMMA StandsOn == ASSUME Stands, [GNext]_gvars PROVE Stands'
<1>1. CASE GAdd
  <2>1. PICK p \in Curve, z \in Scale :
            /\ point' = ge_p1p1_to_p3(ge_add(point, ge_p3_to_cached(Extended(p, z))))
            /\ stands' = PointSum(stands, p)
    BY <1>1 DEF GAdd, Becomes
  <2>2. PICK t : t = Extended(p, z) /\ Represents(t, p) /\ Within(t, Tight)
    BY ScaleAssumption, ExtendedSays, MadeIsTight
  <2>3. Represents(point', stands')
    BY <2>1, <2>2, AddSays DEF Stands
  <2>4. Within(point', Tight)
    BY <2>1, <2>2, AddFits, CompletedIsTight DEF Stands
  <2> QED BY <2>1, <2>3, <2>4, SumStays DEF Stands
<1>2. CASE GSub
  <2>1. PICK p \in Curve, z \in Scale :
            /\ point' = ge_p1p1_to_p3(ge_sub(point, ge_p3_to_cached(Extended(p, z))))
            /\ stands' = PointSum(stands, Opposite(p))
    BY <1>2 DEF GSub, Becomes
  <2>2. PICK t : t = Extended(p, z) /\ Represents(t, p) /\ Within(t, Tight)
    BY ScaleAssumption, ExtendedSays, MadeIsTight
  <2>3. Represents(point', stands')
    BY <2>1, <2>2, AddSays DEF Stands
  <2>4. Within(point', Tight)
    BY <2>1, <2>2, AddFits, CompletedIsTight DEF Stands
  <2> QED BY <2>1, <2>3, <2>4, SumStays, OppositeSays DEF Stands
<1>3. CASE GMadd
  <2>1. PICK p \in Curve : point' = ge_p1p1_to_p3(ge_madd(point, Affine(p))) /\ stands' = PointSum(stands, p)
    BY <1>3 DEF GMadd, Becomes
  <2>2. Represents(point', stands')
    BY <2>1, MaddSays DEF Stands
  <2>3. Within(point', Tight)
    BY <2>1, MaddFits, CompletedIsTight DEF Stands
  <2> QED BY <2>1, <2>2, <2>3, SumStays DEF Stands
<1>4. CASE GMsub
  <2>1. PICK p \in Curve : /\ point' = ge_p1p1_to_p3(ge_msub(point, Affine(p)))
                           /\ stands' = PointSum(stands, Opposite(p))
    BY <1>4 DEF GMsub, Becomes
  <2>2. Represents(point', stands')
    BY <2>1, MaddSays DEF Stands
  <2>3. Within(point', Tight)
    BY <2>1, MaddFits, CompletedIsTight DEF Stands
  <2> QED BY <2>1, <2>2, <2>3, SumStays, OppositeSays DEF Stands
<1>5. CASE GDouble
  <2>1. /\ point' = ge_p1p1_to_p3(ge_p2_dbl(ge_p1p1_to_p2(ge_p3_dbl(point))))
        /\ stands' = PointSum(Twice, Twice)
    BY <1>5 DEF GDouble, Becomes
  <2>2. PICK t \in Curve : t = PointSum(stands, stands) /\ t = Twice
    BY SumStays DEF Stands, Twice
  <2>3. Represents(point', stands') /\ stands' \in Curve
    BY <2>1, <2>2, DoubleSays, SumStays DEF Stands
  <2>4. Within(point', Tight)
    BY <2>1, DoubledIsTight DEF Stands
  <2> QED BY <2>3, <2>4 DEF Stands
<1>6. CASE GReset
  BY <1>6, ResetSays, MadeIsTight DEF GReset, Becomes, Stands
<1>7. CASE GRead
  <2> DEFINE Read(s) == ge_frombytes_negate_vartime(s)
  <2>0. PICK s \in String :
            /\ point' = (IF Read(s).status = 0 THEN Read(s).h ELSE point)
            /\ stands' = (IF Read(s).status = 0 THEN <<Read(s).h.X.v, Read(s).h.Y.v>> ELSE stands)
    BY <1>7 DEF GRead
  <2>1. PICK r : r = ge_frombytes_negate_vartime(s)
    OBVIOUS
  <2>2. CASE r.status = 0
    BY <2>0, <2>1, <2>2, ReadSays, ReadIsTight DEF Stands
  <2>3. CASE r.status # 0
    BY <2>0, <2>1, <2>3 DEF Stands
  <2> QED BY <2>2, <2>3
<1>8. CASE GWrite
  BY <1>8 DEF GWrite, Stands
<1>9. CASE UNCHANGED gvars
  BY <1>9 DEF gvars, Stands
<1> QED BY <1>1, <1>2, <1>3, <1>4, <1>5, <1>6, <1>7, <1>8, <1>9 DEF GNext

\* For every field and every curve with a d that is no square, and every order of calls: after each
\* of them the four coordinates are those of the sum, whichever the two points are.
THEOREM SumsAreOfTheGroup == GSpec => []PointsAdd
<1>1. GInit => Stands
  BY StandsFirst
<1>2. Stands /\ [GNext]_gvars => Stands'
  BY StandsOn
<1>3. Stands => PointsAdd
  BY RepresentsMeans DEF Stands, PointsAdd, Within, Coordinate
<1> QED BY <1>1, <1>2, <1>3, PTL DEF GSpec

\* For every such curve: a string is refused exactly if no point has its y, else read as one that it
\* names, and what is written names one point, the one that the coordinates stand for.
THEOREM StringsNamePoints == GSpec => []StringsArePoints
<1>1. GInit => Stands /\ StringsArePoints
  BY StandsFirst DEF GInit, StringsArePoints
<1>2. Stands /\ StringsArePoints /\ [GNext]_gvars => (Stands /\ StringsArePoints)'
  <2> SUFFICES ASSUME Stands, StringsArePoints, [GNext]_gvars PROVE StringsArePoints'
    BY StandsOn
  <2>1. CASE GAdd \/ GSub \/ GMadd \/ GMsub \/ GDouble \/ GReset
    <3>1. did' = "made"
      BY <2>1 DEF GAdd, GSub, GMadd, GMsub, GDouble, GReset, Becomes
    <3> QED BY <3>1 DEF StringsArePoints
  <2>2. CASE GRead
    <3> DEFINE Read(s) == ge_frombytes_negate_vartime(s)
    <3>0. PICK s \in String :
              /\ text' = s
              /\ did' = (IF Read(s).status = 0 THEN "read" ELSE "refused")
              /\ stands' = (IF Read(s).status = 0 THEN <<Read(s).h.X.v, Read(s).h.Y.v>> ELSE stands)
      BY <2>2 DEF GRead
    <3>1. PICK r : r = ge_frombytes_negate_vartime(s)
      OBVIOUS
    <3>2. CASE r.status = 0
      <4>1. Opposite(stands') \in Named(s)
        BY <3>0, <3>1, <3>2, ReadSays
      <4>2. did' = "read"
        BY <3>0, <3>1, <3>2
      <4> QED BY <3>0, <4>1, <4>2 DEF StringsArePoints
    <3>3. CASE r.status # 0
      <4>1. \A q \in Curve : q[2] # s.y % Q
        BY <3>0, <3>1, <3>3, ReadSays
      <4>2. did' = "refused"
        BY <3>0, <3>1, <3>3
      <4> QED BY <3>0, <4>1, <4>2 DEF StringsArePoints
    <3> QED BY <3>2, <3>3
  <2>3. CASE GWrite
    <3>1. text' = ge_p3_tobytes(point) /\ did' = "written" /\ stands' = stands
      BY <2>3 DEF GWrite
    <3>2. text'.y < Q /\ text'.top = stands[1] % 2 /\ Named(text') = {stands}
      BY <3>1, WriteSays DEF Stands
    <3> QED BY <3>1, <3>2 DEF StringsArePoints
  <2>4. CASE UNCHANGED gvars
    BY <2>4 DEF gvars, StringsArePoints
  <2> QED BY <2>1, <2>2, <2>3, <2>4 DEF GNext
<1> QED BY <1>1, <1>2, PTL DEF GSpec

-----------------------------------------------------------------------------
(* The digits of the scalars. *)

LEMMA OddStaysOdd ==
    ASSUME NEW n \in Int, n % 2 = 1, NEW w \in {2, 4, 8, 16, 32, 64}
    PROVE  (n + w) % 2 = 1 /\ (n - w) % 2 = 1
OBVIOUS

LEMMA ShiftIsEven == ASSUME NEW b \in 1 .. 6 PROVE 2 ^ b \in {2, 4, 8, 16, 32, 64}
<1>1. 2 ^ 1 = 2 /\ 2 ^ 2 = 4 /\ 2 ^ 3 = 8 /\ 2 ^ 4 = 16 /\ 2 ^ 5 = 32 /\ 2 ^ 6 = 64
  OBVIOUS
<1>2. b \in {1, 2, 3, 4, 5, 6}
  OBVIOUS
<1> QED BY <1>1, <1>2

\* Below n the digits are those of windows, from there on they are bits.
Slidden(r, n) ==
    /\ r \in [Bit -> Int]
    /\ \A j \in Bit : j < n => r[j] = 0 \/ OddWindow(r[j])
    /\ \A j \in Bit : j >= n => r[j] \in {0, 1}

\* The window that begins with r[j] and has taken some bits.
Taking(s, j) ==
    /\ s.more \in BOOLEAN
    /\ s.r \in [Bit -> Int]
    /\ s.more => OddWindow(s.r[j])
    /\ \A k \in Bit : k <= j => s.r[k] = 0 \/ OddWindow(s.r[k])
    /\ \A k \in Bit : k > j => s.r[k] \in {0, 1}

LEMMA CarryKeeps ==
    ASSUME NEW r \in [Bit -> Int], NEW from \in Bit, \A k \in from .. 255 : r[k] \in {0, 1}
    PROVE  /\ CarryInto(r, from) \in [Bit -> Int]
           /\ \A k \in Bit : k < from => CarryInto(r, from)[k] = r[k]
           /\ \A k \in Bit : k >= from => CarryInto(r, from)[k] \in {0, 1}
<1> DEFINE zeros == {k \in from .. 255 : r[k] = 0}
           k0 == IF zeros = {} THEN 256 ELSE CHOOSE k \in zeros : \A l \in zeros : k <= l
           at(k) == IF k < from THEN r[k] ELSE IF k < k0 THEN 0 ELSE IF k = k0 THEN 1 ELSE r[k]
<1>1. CarryInto(r, from) = [k \in Bit |-> at(k)]
  BY DEF CarryInto
<1> HIDE DEF k0
<1>2. \A k \in Bit : k < from => at(k) = r[k]
  OBVIOUS
<1>3. Bit \subseteq Int
  BY DEF Bit
<1>4. ASSUME NEW k \in Bit, ~ (k < from) PROVE at(k) \in {0, 1}
  <2>1. CASE k < k0
    BY <1>4, <2>1
  <2>2. CASE ~ (k < k0)
    <3>1. CASE k = k0
      BY <1>4, <2>2, <3>1
    <3>2. CASE k # k0
      <4>1. at(k) = r[k]
        BY <1>4, <2>2, <3>2
      <4>2. k \in from .. 255
        BY <1>4 DEF Bit
      <4> QED BY <4>1, <4>2
    <3> QED BY <3>1, <3>2
  <2> QED BY <2>1, <2>2
<1> HIDE DEF at
<1>5. \A k \in Bit : at(k) \in Int
  <2> TAKE k \in Bit
  <2>1. CASE k < from
    BY <1>2, <2>1
  <2>2. CASE ~ (k < from)
    BY <1>4, <2>2
  <2> QED BY <2>1, <2>2
<1>6. \A k \in Bit : k >= from => ~ (k < from)
  BY <1>3
<1> QED BY <1>1, <1>2, <1>4, <1>5, <1>6

LEMMA WindowTakes ==
    ASSUME NEW j \in Bit, NEW s, Taking(s, j), NEW b \in 1 .. 6
    PROVE  Taking(Window(s, j, b), j)
<1>1. CASE ~ s.more \/ j + b > 255 \/ s.r[j + b] = 0
  BY <1>1 DEF Window
<1>2. CASE s.more /\ j + b <= 255 /\ s.r[j + b] # 0
  <2>1. PICK r \in [Bit -> Int] : r = s.r
    BY DEF Taking
  <2>2. j + b \in Bit /\ j < j + b /\ j \in Int
    BY <1>2 DEF Bit
  <2>3. PICK w \in {2, 4, 8, 16, 32, 64} : w = 2 ^ b
    BY ShiftIsEven
  <2>4. r[j + b] = 1 /\ OddWindow(r[j]) /\ r[j] \in Int
    BY <1>2, <2>1, <2>2 DEF Taking, Bit
  <2>5. (r[j] + w) % 2 = 1 /\ (r[j] - w) % 2 = 1
    BY <2>4, OddStaysOdd DEF OddWindow
  <2>6. Window(s, j, b) = Taken(r, j, b)
    BY <1>2, <2>1, <2>2 DEF Window, Bit
  <2>7. 2 ^ b * r[j + b] = w
    BY <2>3, <2>4
  <2> DEFINE Done(n) == n = 0 \/ OddWindow(n)
  <2>8. /\ \A k \in Bit : k <= j => Done(r[k])
        /\ \A k \in Bit : k > j => r[k] \in {0, 1}
    BY <2>1 DEF Taking
  <2>9. Bit \subseteq Int
    BY DEF Bit
  <2>10. CASE r[j] + w <= 15
    <3>1. PICK q : q = [r EXCEPT ![j] = r[j] + w, ![j + b] = 0]
      OBVIOUS
    <3>2. Taken(r, j, b) = [more |-> TRUE, r |-> q]
      BY <2>7, <2>10, <3>1 DEF Taken
    <3>3. OddWindow(r[j] + w)
      BY <2>4, <2>5, <2>10 DEF OddWindow
    <3>4. /\ q \in [Bit -> Int] /\ q[j] = r[j] + w /\ q[j + b] = 0
          /\ \A k \in Bit \ {j, j + b} : q[k] = r[k]
      <4>1. r[j] + w \in Int /\ j # j + b
        BY <2>2, <2>4
      <4> QED BY <2>2, <3>1, <4>1
    <3>5. Done(q[j])
      BY <3>3, <3>4
    <3> HIDE DEF Done
    <3>6. ASSUME NEW k \in Bit, k <= j PROVE Done(q[k])
      BY <2>2, <2>8, <2>9, <3>4, <3>5, <3>6
    <3>7. ASSUME NEW k \in Bit, k > j PROVE q[k] \in {0, 1}
      BY <2>2, <2>8, <2>9, <3>4, <3>7
    <3>8. PICK t : t = Window(s, j, b) /\ t.more = TRUE /\ t.r = q
      BY <2>6, <3>2
    <3>9. OddWindow(q[j])
      BY <3>3, <3>4
    <3>10. /\ \A k \in Bit : k <= j => q[k] = 0 \/ OddWindow(q[k])
           /\ \A k \in Bit : k > j => q[k] \in {0, 1}
      BY <3>6, <3>7 DEF Done
    <3>11. Taking(t, j)
      BY <3>4, <3>8, <3>9, <3>10 DEF Taking
    <3> QED BY <3>8, <3>11
  <2>11. CASE ~ (r[j] + w <= 15) /\ r[j] - w >= -15
    <3>1. PICK q : q = [r EXCEPT ![j] = r[j] - w]
      OBVIOUS
    <3>2. Taken(r, j, b) = [more |-> TRUE, r |-> CarryInto(q, j + b)]
      BY <2>7, <2>11, <3>1 DEF Taken
    <3>3. OddWindow(r[j] - w)
      BY <2>4, <2>5, <2>11 DEF OddWindow
    <3>4. q \in [Bit -> Int] /\ q[j] = r[j] - w /\ \A k \in Bit \ {j} : q[k] = r[k]
      <4>1. r[j] - w \in Int
        BY <2>4
      <4> QED BY <3>1, <4>1
    <3>5. \A k \in Bit : k > j => q[k] \in {0, 1}
      BY <2>8, <2>9, <3>4
    <3>6. PICK c : c = CarryInto(q, j + b)
      OBVIOUS
    <3>7. /\ c \in [Bit -> Int]
          /\ \A k \in Bit : k < j + b => c[k] = q[k]
          /\ \A k \in Bit : k >= j + b => c[k] \in {0, 1}
      <4>1. \A k \in (j + b) .. 255 : q[k] \in {0, 1}
        BY <2>2, <3>5 DEF Bit
      <4> QED BY <2>2, <3>4, <3>6, <4>1, CarryKeeps
    <3>8. c[j] = r[j] - w
      BY <2>2, <3>4, <3>7
    <3>9. Done(c[j])
      BY <3>3, <3>8
    <3> HIDE DEF Done
    <3>10. ASSUME NEW k \in Bit, k <= j PROVE Done(c[k])
      BY <2>2, <2>8, <2>9, <3>4, <3>7, <3>9, <3>10
    <3>11. ASSUME NEW k \in Bit, k > j PROVE c[k] \in {0, 1}
      BY <2>2, <2>9, <3>5, <3>7, <3>11
    <3>12. PICK t : t = Window(s, j, b) /\ t.more = TRUE /\ t.r = c
      BY <2>6, <3>2, <3>6
    <3>13. OddWindow(c[j])
      BY <3>3, <3>8
    <3>14. /\ \A k \in Bit : k <= j => c[k] = 0 \/ OddWindow(c[k])
           /\ \A k \in Bit : k > j => c[k] \in {0, 1}
      BY <3>10, <3>11 DEF Done
    <3>15. Taking(t, j)
      BY <3>7, <3>12, <3>13, <3>14 DEF Taking
    <3> QED BY <3>12, <3>15
  <2>12. CASE ~ (r[j] + w <= 15) /\ ~ (r[j] - w >= -15)
    <3>1. Taken(r, j, b) = [more |-> FALSE, r |-> r]
      BY <2>7, <2>12 DEF Taken
    <3> QED BY <2>1, <2>6, <3>1 DEF Taking
  <2> QED BY <2>10, <2>11, <2>12
<1>3. s.more \in BOOLEAN
  BY DEF Taking
<1> QED BY <1>1, <1>2, <1>3 DEF Bit

LEMMA SlidGoesOn ==
    ASSUME NEW j \in Bit, NEW r, Slidden(r, j) PROVE Slidden(Slid(r, j), j + 1)
<1> DEFINE w0 == [more |-> r[j] # 0, r |-> r]
           w1 == Window(w0, j, 1)
           w2 == Window(w1, j, 2)
           w3 == Window(w2, j, 3)
           w4 == Window(w3, j, 4)
           w5 == Window(w4, j, 5)
           w6 == Window(w5, j, 6)
<1>1. OddWindow(1)
  BY DEF OddWindow
<1>2. r[j] \in {0, 1}
  BY DEF Slidden, Bit
<1>3. Taking(w0, j)
  <2>1. w0.more = (r[j] # 0) /\ w0.r = r
    OBVIOUS
  <2>2. r \in [Bit -> Int] /\ (r[j] # 0 => OddWindow(r[j]))
    BY <1>1, <1>2 DEF Slidden
  <2>3. \A k \in Bit : k <= j => r[k] = 0 \/ OddWindow(r[k])
    BY <1>1, <1>2 DEF Slidden, Bit
  <2>4. \A k \in Bit : k > j => r[k] \in {0, 1}
    BY DEF Slidden, Bit
  <2> HIDE DEF w0
  <2> QED BY <2>1, <2>2, <2>3, <2>4 DEF Taking
<1>4. Slid(r, j) = w6.r
  BY DEF Slid
<1> HIDE DEF w0
<1>5. Taking(w1, j)
  BY <1>3, WindowTakes
<1> HIDE DEF w1
<1>6. Taking(w2, j)
  BY <1>5, WindowTakes
<1> HIDE DEF w2
<1>7. Taking(w3, j)
  BY <1>6, WindowTakes
<1> HIDE DEF w3
<1>8. Taking(w4, j)
  BY <1>7, WindowTakes
<1> HIDE DEF w4
<1>9. Taking(w5, j)
  BY <1>8, WindowTakes
<1> HIDE DEF w5
<1>10. Taking(w6, j)
  BY <1>9, WindowTakes
<1> HIDE DEF w6
<1>11. PICK q : q = w6.r
  OBVIOUS
<1>12. /\ q \in [Bit -> Int]
       /\ \A k \in Bit : k <= j => q[k] = 0 \/ OddWindow(q[k])
       /\ \A k \in Bit : k > j => q[k] \in {0, 1}
  BY <1>10, <1>11 DEF Taking
<1>13. \A k \in Bit : (k < j + 1 <=> k <= j) /\ (k >= j + 1 <=> k > j)
  BY DEF Bit
<1> QED BY <1>4, <1>11, <1>12, <1>13 DEF Slidden

LEMMA BitIsBit ==
    ASSUME NEW s \in [1 .. 32 -> 0 .. 255], NEW j \in Bit PROVE BitOf(s, j) \in {0, 1}
<1>1. j \div 8 + 1 \in 1 .. 32 /\ j % 8 \in 0 .. 7
  BY DEF Bit
<1>2. PICK x \in 0 .. 255 : x = s[j \div 8 + 1]
  BY <1>1
<1>3. 2 ^ 0 = 1 /\ 2 ^ 7 = 128
  OBVIOUS
<1>4. 2 ^ (j % 8) \in {1, 2, 4, 8, 16, 32, 64, 128}
  <2>1. j % 8 = 0 \/ j % 8 = 7 \/ j % 8 \in 1 .. 6
    BY <1>1
  <2> QED BY <1>3, <2>1, ShiftIsEven
<1>5. PICK c \in {1, 2, 4, 8, 16, 32, 64, 128} : c = 2 ^ (j % 8)
  BY <1>4
<1>6. x \div c \in Int
  OBVIOUS
<1>7. (x \div c) % 2 \in {0, 1}
  BY <1>6
<1> QED BY <1>2, <1>5, <1>7 DEF BitOf

LEMMA BitsSlide ==
    ASSUME NEW s \in [1 .. 32 -> 0 .. 255] PROVE Slidden([j \in Bit |-> BitOf(s, j)], 0)
<1>1. \A j \in Bit : BitOf(s, j) \in {0, 1}
  BY BitIsBit
<1>2. [j \in Bit |-> BitOf(s, j)] \in [Bit -> Int]
  BY <1>1
<1>3. \A j \in Bit : ~ (j < 0)
  BY DEF Bit
<1> QED BY <1>1, <1>2, <1>3 DEF Slidden

\* Below n the digits are in their new form, r[n] has the carry from there, and
\* the last one stays small, since the scalar is without its top bit.
Recoding(r, n) ==
    /\ r \in [Digit16 -> Int]
    /\ \A j \in Digit16 : j < n => r[j] \in -8 .. 7
    /\ \A j \in Digit16 : j > n => r[j] \in 0 .. 15
    /\ r[n] \in 0 .. 16
    /\ r[63] \in 0 .. (IF n = 63 THEN 8 ELSE 7)

LEMMA NibblesRecode ==
    ASSUME NEW s \in [1 .. 32 -> 0 .. 255], s[32] <= 127
    PROVE  Recoding([j \in Digit16 |-> Nibble(s, j)], 0)
<1>1. ASSUME NEW j \in Digit16 PROVE Nibble(s, j) \in 0 .. 15
  <2>1. j \div 2 + 1 \in 1 .. 32
    BY DEF Digit16
  <2>2. PICK x \in 0 .. 255 : x = s[j \div 2 + 1]
    BY <2>1
  <2>3. x % 16 \in 0 .. 15 /\ x \div 16 \in 0 .. 15
    OBVIOUS
  <2> QED BY <2>2, <2>3 DEF Nibble
<1>2. Nibble(s, 63) \in 0 .. 7
  <2>1. 63 % 2 = 1 /\ 63 \div 2 + 1 = 32
    OBVIOUS
  <2>2. PICK x \in 0 .. 127 : x = s[32]
    OBVIOUS
  <2>3. x \div 16 \in 0 .. 7
    OBVIOUS
  <2> QED BY <2>1, <2>2, <2>3 DEF Nibble
<1>3. 0 \in Digit16 /\ 63 \in Digit16 /\ \A j \in Digit16 : ~ (j < 0)
  BY DEF Digit16
<1>4. PICK r : r = [j \in Digit16 |-> Nibble(s, j)]
  OBVIOUS
<1>5. r \in [Digit16 -> Int] /\ r[63] \in 0 .. 7 /\ \A j \in Digit16 : r[j] \in 0 .. 15
  BY <1>1, <1>2, <1>3, <1>4
<1> QED BY <1>3, <1>4, <1>5 DEF Recoding

LEMMA RecodedGoesOn ==
    ASSUME NEW n \in 0 .. 62, NEW r, Recoding(r, n) PROVE Recoding(Recoded(r, n), n + 1)
<1>1. PICK x \in 0 .. 16 : x = r[n]
  BY DEF Recoding
<1>2. PICK y \in 0 .. 15 : y = r[n + 1]
  BY DEF Recoding, Digit16
<1>3. PICK carry \in 0 .. 1 : carry = (x + 8) \div 16 /\ x - 16 * carry \in -8 .. 7
  <2>1. (x + 8) \div 16 \in 0 .. 1 /\ x - 16 * ((x + 8) \div 16) \in -8 .. 7
    OBVIOUS
  <2> QED BY <2>1
<1>4. PICK q : q = Recoded(r, n)
  OBVIOUS
<1>5. n \in Digit16 /\ n + 1 \in Digit16 /\ 63 \in Digit16 /\ Digit16 \subseteq Int
  BY DEF Digit16
<1>6. q = [r EXCEPT ![n] = r[n] - 16 * carry, ![n + 1] = r[n + 1] + carry]
  <2>1. n # n + 1
    OBVIOUS
  <2> QED BY <1>1, <1>3, <1>4, <2>1 DEF Recoded
<1>7. r \in [Digit16 -> Int]
  BY DEF Recoding
<1>8. /\ q \in [Digit16 -> Int] /\ q[n] \in -8 .. 7 /\ q[n + 1] = y + carry
      /\ \A j \in Digit16 \ {n, n + 1} : q[j] = r[j]
  <2>1. n # n + 1 /\ x - 16 * carry \in Int /\ y + carry \in Int
    OBVIOUS
  <2>2. q = [r EXCEPT ![n] = x - 16 * carry, ![n + 1] = y + carry]
    BY <1>1, <1>2, <1>6
  <2>3. q \in [Digit16 -> Int]
    BY <1>5, <1>7, <2>1, <2>2
  <2>4. q[n] = x - 16 * carry /\ q[n + 1] = y + carry
    BY <1>5, <1>7, <2>1, <2>2
  <2>5. \A j \in Digit16 \ {n, n + 1} : q[j] = r[j]
    BY <1>5, <1>7, <2>2
  <2> QED BY <1>3, <2>3, <2>4, <2>5
<1>9. /\ \A j \in Digit16 : j < n + 1 => q[j] \in -8 .. 7
      /\ \A j \in Digit16 : j > n + 1 => q[j] \in 0 .. 15
  BY <1>5, <1>8 DEF Recoding
<1>10. q[n + 1] \in 0 .. 16
  BY <1>8
<1>11. q[63] \in 0 .. (IF n + 1 = 63 THEN 8 ELSE 7)
  <2>1. r[63] \in 0 .. 7 /\ n # 63
    BY DEF Recoding
  <2>2. CASE n + 1 = 63
    BY <1>2, <1>8, <2>1, <2>2
  <2>3. CASE n + 1 # 63
    BY <1>5, <1>8, <2>1, <2>3
  <2> QED BY <2>2, <2>3
<1> QED BY <1>4, <1>8, <1>9, <1>10, <1>11 DEF Recoding

\* What is known of the digits in each loop.
BaseDigits ==
    /\ loop \in {"recode", "odd", "times_16", "even", "done"}
    /\ loop = "recode" => i \in 0 .. 62 /\ Recoding(e, i)
    /\ loop # "recode" => \A j \in Digit16 : e[j] \in -8 .. 8

DoubleDigits ==
    /\ loop \in {"slide_a", "slide_b", "leading", "double", "done"}
    /\ loop = "slide_a" => i \in Bit /\ Slidden(e, i) /\ Slidden(f, 0)
    /\ loop = "slide_b" => i \in Bit /\ Slidden(e, 256) /\ Slidden(f, i)
    /\ loop \in {"leading", "double", "done"} => Slidden(e, 256) /\ Slidden(f, 256)

DigitInv ==
    /\ task \in Tasks
    /\ task.what = "base" => BaseDigits
    /\ task.what = "double" => DoubleDigits

LEMMA DigitsBegin == MInit => DigitInv
<1> SUFFICES ASSUME MInit PROVE DigitInv
  OBVIOUS
<1>1. task \in Tasks /\ i = 0
  BY DEF MInit
<1>2. task.a \in [1 .. 32 -> 0 .. 255] /\ task.b \in [1 .. 32 -> 0 .. 255]
  BY <1>1, TasksAssumption
<1>3. CASE task.what = "base"
  <2>1. task.a[32] <= 127
    BY <1>1, <1>3, TasksAssumption
  <2>2. loop = "recode" /\ e = [j \in Digit16 |-> Nibble(task.a, j)]
    BY <1>3 DEF MInit
  <2>3. Recoding(e, 0)
    BY <1>2, <2>1, <2>2, NibblesRecode
  <2> QED BY <1>1, <1>3, <2>2, <2>3 DEF DigitInv, BaseDigits
<1>4. CASE task.what = "double"
  <2>1. /\ loop = "slide_a"
        /\ e = [j \in Bit |-> BitOf(task.a, j)] /\ f = [j \in Bit |-> BitOf(task.b, j)]
    BY <1>4 DEF MInit
  <2>2. Slidden(e, 0) /\ Slidden(f, 0)
    BY <1>2, <2>1, BitsSlide
  <2>3. 0 \in Bit
    BY DEF Bit
  <2> QED BY <1>1, <1>4, <2>1, <2>2, <2>3 DEF DigitInv, DoubleDigits
<1> QED BY <1>1, <1>3, <1>4, TasksAssumption

LEMMA DigitsGoOn == DigitInv /\ [MNext]_mvars => DigitInv'
<1> SUFFICES ASSUME DigitInv, [MNext]_mvars PROVE DigitInv'
  OBVIOUS
<1>1. task \in Tasks /\ task' = task
  BY DEF DigitInv, MNext, mvars, Recode, AddOdd, AddEven, AddDigit, TimesSixteen, SlideA, SlideB,
         SkipZeros, DoubleAndAdd
<1>2. task.what \in {"base", "double"}
  BY <1>1, TasksAssumption
<1>3. ASSUME task.what = "base" PROVE BaseDigits'
  <2>1. BaseDigits
    BY <1>3 DEF DigitInv
  <2>2. CASE Recode
    <3>1. i \in 0 .. 62 /\ e' = Recoded(e, i) /\ Recoding(e', i + 1)
      BY <2>1, <2>2, RecodedGoesOn DEF Recode, BaseDigits
    <3>2. CASE i = 62
      <4>1. loop' = "odd" /\ Recoding(e', 63)
        BY <2>2, <3>1, <3>2 DEF Recode, Turn
      <4>2. \A j \in Digit16 : e'[j] \in -8 .. 8
        BY <4>1 DEF Recoding, Digit16
      <4> QED BY <4>1, <4>2 DEF BaseDigits
    <3>3. CASE i # 62
      <4>1. loop' = "recode" /\ i' = i + 1 /\ i' \in 0 .. 62
        BY <2>2, <3>1, <3>3 DEF Recode, Turn
      <4> QED BY <3>1, <4>1 DEF BaseDigits
    <3> QED BY <3>2, <3>3
  <2>3. CASE AddOdd \/ AddEven \/ TimesSixteen
    BY <2>1, <2>3 DEF BaseDigits, AddOdd, AddEven, AddDigit, TimesSixteen, Turn
  <2>4. CASE SlideA \/ SlideB \/ SkipZeros \/ DoubleAndAdd
    BY <2>1, <2>4 DEF BaseDigits, SlideA, SlideB, SkipZeros, DoubleAndAdd, Turn
  <2>5. CASE UNCHANGED mvars
    BY <2>1, <2>5 DEF BaseDigits, mvars
  <2> QED BY <2>2, <2>3, <2>4, <2>5 DEF MNext
<1>4. ASSUME task.what = "double" PROVE DoubleDigits'
  <2>1. DoubleDigits
    BY <1>4 DEF DigitInv
  <2>2. CASE SlideA
    <3>1. i \in Bit /\ f' = f /\ Slidden(e', i + 1) /\ Slidden(f, 0)
      BY <2>1, <2>2, SlidGoesOn DEF SlideA, DoubleDigits
    <3>4. loop = "slide_a" /\ Turn(255, 1, "slide_b", 0)
      BY <2>2 DEF SlideA
    <3>2. CASE i = 255
      <4>1. loop' = "slide_b" /\ i' = 0 /\ 0 \in Bit
        BY <3>2, <3>4 DEF Turn, Bit
      <4> QED BY <3>1, <3>2, <4>1 DEF DoubleDigits
    <3>3. CASE i # 255
      <4>1. loop' = "slide_a" /\ i' = i + 1 /\ i' \in Bit
        BY <3>1, <3>3, <3>4 DEF Turn, Bit
      <4> QED BY <3>1, <4>1 DEF DoubleDigits
    <3> QED BY <3>2, <3>3
  <2>3. CASE SlideB
    <3>1. i \in Bit /\ e' = e /\ Slidden(f', i + 1) /\ Slidden(e, 256)
      BY <2>1, <2>3, SlidGoesOn DEF SlideB, DoubleDigits
    <3>4. loop = "slide_b" /\ Turn(255, 1, "leading", 255)
      BY <2>3 DEF SlideB
    <3>2. CASE i = 255
      <4>1. loop' = "leading"
        BY <3>2, <3>4 DEF Turn
      <4> QED BY <3>1, <3>2, <4>1 DEF DoubleDigits
    <3>3. CASE i # 255
      <4>1. loop' = "slide_b" /\ i' = i + 1 /\ i' \in Bit
        BY <3>1, <3>3, <3>4 DEF Turn, Bit
      <4> QED BY <3>1, <4>1 DEF DoubleDigits
    <3> QED BY <3>2, <3>3
  <2>4. CASE SkipZeros \/ DoubleAndAdd
    BY <2>1, <2>4 DEF DoubleDigits, SkipZeros, DoubleAndAdd, Turn
  <2>5. CASE Recode \/ AddOdd \/ AddEven \/ TimesSixteen
    BY <2>1, <2>5 DEF DoubleDigits, Recode, AddOdd, AddEven, TimesSixteen
  <2>6. CASE UNCHANGED mvars
    BY <2>1, <2>6 DEF DoubleDigits, mvars
  <2> QED BY <2>2, <2>3, <2>4, <2>5, <2>6 DEF MNext
<1> QED BY <1>1, <1>3, <1>4 DEF DigitInv

\* For every scalar: the comment of ge_scalarmult_base that each e[i] is between
\* -8 and 8 holds for those without their top bit, and the digits that slide
\* leaves, for any bits, choose one of the eight entries of Ai and of Bi.
THEOREM TablesAreReadInside == MSpec => []DigitsHaveEntries
<1>1. ASSUME DigitInv PROVE DigitsHaveEntries
  <2>1. task.what = "base" => BaseDigits
    BY <1>1 DEF DigitInv
  <2>2. task.what = "double" /\ loop \notin {"slide_a", "slide_b"} => Slidden(e, 256) /\ Slidden(f, 256)
    BY <1>1 DEF DigitInv, DoubleDigits
  <2>3. \A j \in Bit : j < 256
    BY DEF Bit
  <2> QED BY <2>1, <2>2, <2>3 DEF DigitsHaveEntries, BaseDigits, Slidden
<1> QED BY <1>1, DigitsBegin, DigitsGoOn, PTL DEF MSpec
=============================================================================
