---------------------------- MODULE EdScalarMult ----------------------------
(***************************************************************************)
(* ge_scalarmult_base and ge_double_scalarmult_vartime of contrib/ref10: a *)
(* turn of a loop a step.  Scalars have their 256 bits; the points are     *)
(* those of a small curve (EdGroup), so that a*A + b*B is known from the   *)
(* definition of the group.                                                *)
(***************************************************************************)
EXTENDS EdGroup

CONSTANTS
    Base,           \* B
    Order,          \* as many times any point is Zero: 8l in the source
    Tasks           \* [what : {"base", "double"}, a, b : strings of 32 bytes, A : Curve]

ASSUME OrderAssumption ==
    /\ Base \in Curve
    /\ Order \in Nat \ {0} /\ \A p \in Curve : Multiple(Order, p) = Zero

\* ge_scalarmult_base takes scalars without their top bit: a[31] <= 127
ASSUME TasksAssumption ==
    \A t \in Tasks :
        /\ t.what \in {"base", "double"}
        /\ t.a \in [1 .. 32 -> 0 .. 255] /\ t.b \in [1 .. 32 -> 0 .. 255] /\ t.A \in Curve
        /\ t.what = "base" => t.a[32] <= 127

VARIABLES
    task,
    loop,           \* the loop that is running, or "done"
    i,              \* its variable
    e,              \* the digits of a: e, or aslide
    f,              \* bslide
    h               \* the point that is returned, a ge_p3 or the ge_p2 r

mvars == <<task, loop, i, e, f, h>>

Bit == 0 .. 255
Digit16 == 0 .. 63
BitOf(s, j) == (s[j \div 8 + 1] \div 2 ^ (j % 8)) % 2
Nibble(s, j) == IF j % 2 = 0 THEN s[j \div 2 + 1] % 16 ELSE s[j \div 2 + 1] \div 16

\* n modulo the order of the group, from its bytes or as 256^k
Residue(s) ==
    LET r[k \in 0 .. 32] == IF k = 0 THEN 0 ELSE (256 * r[k - 1] + s[33 - k]) % Order IN r[32]
Power256(k) == LET p[j \in 0 .. k] == IF j = 0 THEN 1 ELSE (256 * p[j - 1]) % Order IN p[k]
MultipleOfBase == [n \in 0 .. Order - 1 |-> Multiple(n, Base)]

\* base.h: base[pos][j] = (j+1)*256^pos*B; base2.h: Bi[j] = (2j+1)*B
base(pos, j) == Affine(MultipleOfBase[((j + 1) * Power256(pos)) % Order])
Bi(j) == Affine(MultipleOfBase[(2 * j + 1) % Order])

-----------------------------------------------------------------------------
cmov(t, u, b) == ge_precomp(fe_cmov(t.yplusx, u.yplusx, b), fe_cmov(t.yminusx, u.yminusx, b),
                            fe_cmov(t.xy2d, u.xy2d, b))
equal(b, c) == IF b = c THEN 1 ELSE 0
negative(b) == IF b < 0 THEN 1 ELSE 0

\* every entry of the row is gone through; b = 0 leaves the neutral point
select(pos, b) ==
    LET babs == IF b < 0 THEN -b ELSE b
        row[j \in 0 .. 8] == IF j = 0 THEN ge_precomp_0 ELSE cmov(row[j - 1], base(pos, j - 1), equal(babs, j))
        t == row[8]
    IN cmov(t, ge_precomp(fe_copy(t.yminusx), fe_copy(t.yplusx), fe_neg(t.xy2d)), negative(b))

\* one turn of the loop that makes digits of -8 to 8: a carry of 16 from e[j] to the next
\* mutant: the half is not added before the shift
RecodedDown(digits, j) ==
    LET carry == digits[j] \div 16
    IN [digits EXCEPT ![j] = @ - 16 * carry, ![j + 1] = @ + carry]
Recoded(digits, j) ==
    LET carry == (digits[j] + 8) \div 16
    IN [digits EXCEPT ![j] = @ - 16 * carry, ![j + 1] = @ + carry]

\* slide: the window that begins with r[j] takes bits from j + 1 to j + 6 while it stays within
\* -15 and 15; one that must be subtracted is carried into the next bit that is zero
\* mutant: the ones that the carry passes stay
CarryIntoOver(r, from) ==
    LET zeros == {k \in from .. 255 : r[k] = 0}
    IN IF zeros = {} THEN r ELSE [r EXCEPT ![CHOOSE k \in zeros : \A l \in zeros : k <= l] = 1]
CarryInto(r, from) ==
    LET zeros == {k \in from .. 255 : r[k] = 0}
        k0 == IF zeros = {} THEN 256 ELSE CHOOSE k \in zeros : \A l \in zeros : k <= l
    IN [k \in Bit |-> IF k < from THEN r[k] ELSE IF k < k0 THEN 0 ELSE IF k = k0 THEN 1 ELSE r[k]]

Taken(r, j, b) ==
    IF r[j] + 2 ^ b * r[j + b] <= 15
    THEN [more |-> TRUE, r |-> [r EXCEPT ![j] = @ + 2 ^ b * r[j + b], ![j + b] = 0]]
    ELSE IF r[j] - 2 ^ b * r[j + b] >= -15
    THEN [more |-> TRUE, r |-> CarryInto([r EXCEPT ![j] = @ - 2 ^ b * r[j + b]], j + b)]
    ELSE [more |-> FALSE, r |-> r]

\* one turn of the loop over b
Window(s, j, b) == IF ~ s.more \/ j + b > 255 \/ s.r[j + b] = 0 THEN s ELSE Taken(s.r, j, b)

Slid(r, j) ==
    LET w1 == Window([more |-> r[j] # 0, r |-> r], j, 1)
        w2 == Window(w1, j, 2)
        w3 == Window(w2, j, 3)
        w4 == Window(w3, j, 4)
        w5 == Window(w4, j, 5)
    IN Window(w5, j, 6).r

\* A, 3A, ..., 15A, each from the one before and 2A
Ai(A) ==
    LET A2 == ge_p1p1_to_p3(ge_p3_dbl(A))
        t[j \in 0 .. 7] == IF j = 0 THEN ge_p3_to_cached(A)
                           ELSE ge_p3_to_cached(ge_p1p1_to_p3(ge_add(A2, t[j - 1])))
    IN t

\* a turn of the last loop: r doubled, and what the two digits say added or subtracted
Doubled(r, A, x, y) ==
    LET t == ge_p2_dbl(r)
        u == IF x > 0 THEN ge_add(ge_p1p1_to_p3(t), Ai(A)[x \div 2])
             ELSE IF x < 0 THEN ge_sub(ge_p1p1_to_p3(t), Ai(A)[(-x) \div 2]) ELSE t
        v == IF y > 0 THEN ge_madd(ge_p1p1_to_p3(u), Bi(y \div 2))
             ELSE IF y < 0 THEN ge_msub(ge_p1p1_to_p3(u), Bi((-y) \div 2)) ELSE u
    IN ge_p1p1_to_p2(v)

-----------------------------------------------------------------------------
MInit ==
    /\ task \in Tasks
    /\ i = 0
    /\ \/ /\ task.what = "base" /\ loop = "recode"
          /\ e = [j \in Digit16 |-> Nibble(task.a, j)] /\ f = <<>>
          /\ h = ge_p3_0
       \/ /\ task.what = "double" /\ loop = "slide_a"
          /\ e = [j \in Bit |-> BitOf(task.a, j)] /\ f = [j \in Bit |-> BitOf(task.b, j)]
          /\ h = ge_p2_0

\* the loop goes on with its variable at j, or the one that follows begins
Turn(last, step, next, first) ==
    IF i = last THEN loop' = next /\ i' = first ELSE loop' = loop /\ i' = i + step

Recode ==
    /\ loop = "recode"
    /\ e' = Recoded(e, i)
    /\ Turn(62, 1, "odd", 1)
    /\ UNCHANGED <<task, f, h>>

AddDigit(last, next) ==
    /\ h' = ge_p1p1_to_p3(ge_madd(h, select(i \div 2, e[i])))
    /\ Turn(last, 2, next, 0)
    /\ UNCHANGED <<task, e, f>>
AddOdd == loop = "odd" /\ AddDigit(63, "times_16")
AddEven == loop = "even" /\ AddDigit(62, "done")

TimesSixteen ==
    /\ loop = "times_16"
    /\ LET two == ge_p1p1_to_p2(ge_p3_dbl(h))
           four == ge_p1p1_to_p2(ge_p2_dbl(two))
           eight == ge_p1p1_to_p2(ge_p2_dbl(four))
       IN h' = ge_p1p1_to_p3(ge_p2_dbl(eight))
    /\ loop' = "even" /\ i' = 0
    /\ UNCHANGED <<task, e, f>>

SlideA ==
    /\ loop = "slide_a"
    /\ e' = Slid(e, i)
    /\ Turn(255, 1, "slide_b", 0)
    /\ UNCHANGED <<task, f, h>>
SlideB ==
    /\ loop = "slide_b"
    /\ f' = Slid(f, i)
    /\ Turn(255, 1, "leading", 255)
    /\ UNCHANGED <<task, e, h>>

\* for (i = 255;i >= 0;--i) if (aslide[i] || bslide[i]) break;
SkipZeros ==
    /\ loop = "leading"
    /\ LET digits == {j \in Bit : e[j] # 0 \/ f[j] # 0}
       IN IF digits = {} THEN loop' = "done" /\ i' = -1
          ELSE loop' = "double" /\ i' = CHOOSE j \in digits : \A k \in digits : k <= j
    /\ UNCHANGED <<task, e, f, h>>

DoubleAndAdd ==
    /\ loop = "double"
    /\ h' = Doubled(h, Extended(task.A, 1), e[i], f[i])
    /\ Turn(0, -1, "done", 0)
    /\ UNCHANGED <<task, e, f>>

MNext == Recode \/ AddOdd \/ AddEven \/ TimesSixteen \/ SlideA \/ SlideB \/ SkipZeros \/ DoubleAndAdd

MSpec == MInit /\ [][MNext]_mvars

-----------------------------------------------------------------------------
Below255(s) == s[32] <= 127

\* Two arrays of n digits are one number: what of has more than digits at a place is carried to the next.
SameNumber(of, digits, radix, n) ==
    LET carry[j \in 0 .. n] == IF j = 0 THEN 0 ELSE (carry[j - 1] + of[j - 1] - digits[j - 1]) \div radix
    IN /\ \A j \in 0 .. n - 1 : of[j] + carry[j] = digits[j] + radix * carry[j + 1]
       /\ carry[n] = 0
DigitsKeepScalar ==
    /\ loop = "odd" => SameNumber([j \in Digit16 |-> Nibble(task.a, j)], e, 16, 64)
    /\ loop = "leading" =>
        \A s \in {<<e, task.a>>, <<f, task.b>>} :
            Below255(s[2]) => SameNumber([j \in Bit |-> BitOf(s[2], j)], s[1], 2, 256)

(* The digits by which a point is taken from a table have an entry there, for
   any bits of the scalar: -8 to 8 in select, and in aslide and bslide, beside
   the zeros that take nothing, odd ones of -15 to 15, whichever carries come
   from below. *)
OddWindow(n) == n % 2 = 1 /\ n \in -15 .. 15
DigitsHaveEntries ==
    /\ task.what = "base" /\ loop # "recode" => \A j \in Digit16 : e[j] \in -8 .. 8
    /\ task.what = "double" /\ loop \notin {"slide_a", "slide_b"} =>
        \A j \in Bit : \A n \in {e[j], f[j]} : n = 0 \/ OddWindow(n)

(* What is returned is a * B, or a * A + b * B: for every A of the curve, those
   of small order and B's own multiples among them, where the loop adds a point
   to itself or to its opposite.  On the way the digits make up the scalar: no
   carry is lost in the array, unless the scalar has its top bit set and needs a
   digit behind it. *)
Result ==
    IF task.what = "base" THEN MultipleOfBase[Residue(task.a)]
    ELSE PointSum(Multiple(Residue(task.a), task.A), MultipleOfBase[Residue(task.b)])
MultiplesAreReached ==
    /\ DigitsKeepScalar
    /\ loop = "done" /\ (task.what = "double" => Below255(task.a) /\ Below255(task.b)) =>
        /\ h.Z.v # 0
        /\ h.X.v = (Result[1] * h.Z.v) % Q
        /\ h.Y.v = (Result[2] * h.Z.v) % Q
        /\ h.X.b <= Tight
=============================================================================
