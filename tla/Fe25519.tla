------------------------------ MODULE Fe25519 ------------------------------
(***************************************************************************)
(* The field of 2^255 - 19 of contrib/ref10 (fe.h, fe_*.c).  An element is *)
(* ten signed 32-bit limbs, of 26 and 25 bits in turn; many limbs stand    *)
(* for one element, and each function says in a comment how large the      *)
(* limbs that it takes may be and how large those it returns are.          *)
(*                                                                         *)
(* Limb i of the source is h[i + 1] here.  Limbs are integers of TLC,      *)
(* which refuses what does not fit 32 bits; the 64-bit words of a product  *)
(* are numbers of Wide.                                                    *)
(***************************************************************************)
EXTENDS Wide

CONSTANTS
    Sample,         \* strings of 32 bytes
    Corner,         \* elements at the edge of what fe_mul takes
    MaxOps          \* how many operations a behaviour has

Limb == 1 .. 10
Width(i) == IF i % 2 = 1 THEN 26 ELSE 25
\* the weight of limb i is 2^Weight(i)
Weight(i) == <<0, 26, 51, 77, 102, 128, 153, 179, 204, 230>>[i]
Above(i) == IF i = 10 THEN 1 ELSE i + 1
Fe(h) == SubSeq(h, 1, 10)

Abs(x) == IF x < 0 THEN -x ELSE x
\* pct percent of 2^25, 2^24, 2^25, 2^24, ...: "1.1*2^26,1.1*2^25,etc." is 220
Edge(pct, i) == ((pct * 2 ^ (Width(i) - 4)) \div 100) * 8
Bounded(f, pct) == \A i \in Limb : Abs(f[i]) <= Edge(pct, i)

\* the element that limbs stand for
ModP(a) == Modulo(a, 255, Num(19))
Value(f) == Sum([i \in Limb |-> ShiftLeft(Num(f[i]), Weight(i))])

-----------------------------------------------------------------------------
fe_0 == [i \in Limb |-> 0]
fe_1 == [i \in Limb |-> IF i = 1 THEN 1 ELSE 0]
fe_copy(f) == f
fe_add(f, g) == Fe([i \in Limb |-> f[i] + g[i]])
fe_sub(f, g) == Fe([i \in Limb |-> f[i] - g[i]])
fe_neg(f) == Fe([i \in Limb |-> - f[i]])
\* the mask -b is all ones or all zeros
fe_cmov(f, g, b) == IF b = 1 THEN g ELSE f

\* a word of 64 bits
Int64(a) == Fit(a, 5)

\* one carry, rounded to the nearest; what leaves the top returns 19 times
CarryOf(word, i) == ShiftRight(Plus(word, Num(2 ^ (Width(i) - 1))), Width(i))
Carry(h, i, carry) ==
    [h EXCEPT ![i] = Int64(Minus(@, ShiftLeft(carry, Width(i)))),
              ![Above(i)] = Int64(Plus(@, IF i = 10 THEN Times(carry, Num(19)) ELSE carry))]
Carried(h, i) == Carry(h, i, CarryOf(h[i], i))

CarryAll(h, order) ==
    LET after[j \in 0 .. Len(order)] == IF j = 0 THEN h ELSE Carried(after[j - 1], order[j])
    IN after[Len(order)]

\* h[i] = words[i], narrowed to 32 bits
Narrow(words) == Fe([i \in Limb |-> Small(words[i])])

MulCarries == <<1, 5, 2, 6, 3, 7, 4, 8, 5, 9, 10, 1>>

\* f[i] * g[j] goes to limb i + j: twice where both weights were rounded up, 19 times past the top
\* mutant: the factor 2 of two odd limbs is forgotten
TermOnce(f, g, i, j) == Times(Num(f[i]), Num((IF i + j > 11 THEN 19 ELSE 1) * g[j]))
Term(f, g, i, j) ==
    LET twice == IF i % 2 = 0 /\ j % 2 = 0 THEN 2 ELSE 1
        wrap == IF i + j > 11 THEN 19 ELSE 1
    IN Times(Num(twice * f[i]), Num(wrap * g[j]))

Word(f, g, k) ==
    Int64(Sum([i \in Limb |-> Term(f, g, i, IF i <= k THEN k + 1 - i ELSE k + 11 - i)]))

Products(f, g) == <<Word(f, g, 1), Word(f, g, 2), Word(f, g, 3), Word(f, g, 4), Word(f, g, 5),
                    Word(f, g, 6), Word(f, g, 7), Word(f, g, 8), Word(f, g, 9), Word(f, g, 10)>>

fe_mul(f, g) == Narrow(CarryAll(Products(f, g), MulCarries))

-----------------------------------------------------------------------------
\* a square adds each pair of different limbs once, doubled: two doubled limbs when both weights
\* were rounded up, and 38 = 2 * 19 past the top
SquareTerm(f, i, j) ==
    LET both == IF i = j THEN 1 ELSE 2
        twice == IF i % 2 = 0 /\ j % 2 = 0 THEN 2 ELSE 1
        wrap == IF i + j > 11 THEN 19 ELSE 1
    IN Times(Num(both * f[i]), Num(twice * wrap * f[j]))

SquareWord(f, k) ==
    LET other(i) == IF i <= k THEN k + 1 - i ELSE k + 11 - i
    IN Int64(Sum([i \in Limb |-> IF i <= other(i) THEN SquareTerm(f, i, other(i)) ELSE Num(0)]))

Squares(f) == <<SquareWord(f, 1), SquareWord(f, 2), SquareWord(f, 3), SquareWord(f, 4),
                SquareWord(f, 5), SquareWord(f, 6), SquareWord(f, 7), SquareWord(f, 8),
                SquareWord(f, 9), SquareWord(f, 10)>>

fe_sq(f) == Narrow(CarryAll(Squares(f), MulCarries))

\* h += h before the carries
Doubled(words) == [i \in Limb |-> Int64(Plus(words[i], words[i]))]
fe_sq2(f) == Narrow(CarryAll(Fe(Doubled(Squares(f))), MulCarries))

-----------------------------------------------------------------------------
\* load_3 and load_4 at s + from
Load(s, from, n) == OfBytes(SubSeq(s, from + 1, from + n))

LoadAt == <<0, 4, 7, 10, 13, 16, 20, 23, 26, 29>>
LoadLen == <<4, 3, 3, 3, 3, 4, 3, 3, 3, 3>>
LoadShift == <<0, 6, 5, 3, 2, 0, 7, 5, 4, 2>>
FromCarries == <<10, 2, 4, 6, 8, 1, 3, 5, 7, 9>>

\* & 8388607 on the last three bytes: the top bit of the string is ignored
Loaded(s, i) ==
    ShiftLeft(IF i = 10 THEN Low(Load(s, LoadAt[i], 3), 23) ELSE Load(s, LoadAt[i], LoadLen[i]), LoadShift[i])

fe_frombytes(s) == Narrow(CarryAll(Fe([i \in Limb |-> Loaded(s, i)]), FromCarries))

\* q of fe_tobytes: how often p lies in the element
\* mutant: the quotient of the bits without the half that is added first
QuotientDown(h) ==
    LET q[i \in 0 .. 10] ==
            IF i = 0 THEN (19 * h[10]) \div 2 ^ 25 ELSE (h[i] + q[i - 1]) \div 2 ^ Width(i)
    IN q[10]
Quotient(h) ==
    LET q[i \in 0 .. 10] ==
            IF i = 0 THEN (19 * h[10] + 2 ^ 24) \div 2 ^ 25
            ELSE (h[i] + q[i - 1]) \div 2 ^ Width(i)
    IN q[10]

\* h0 += 19 * q, and the carries upwards, rounded down; the carry out of the top is q and is dropped
Reduced(h) ==
    LET in(i) == IF i = 1 THEN h[1] + 19 * Quotient(h) ELSE h[i]
        carry[i \in 0 .. 10] == IF i = 0 THEN 0 ELSE (in(i) + carry[i - 1]) \div 2 ^ Width(i)
    IN Fe([i \in Limb |-> (in(i) + carry[i - 1]) % 2 ^ Width(i)])

\* the reduced limbs are bits, laid side by side
fe_tobytes(h) == Bytes(Value(Reduced(h)), 32)

fe_isnegative(f) == fe_tobytes(f)[1] % 2
ZeroBytes == SubSeq([i \in 1 .. 32 |-> 0], 1, 32)
fe_isnonzero(f) == fe_tobytes(f) # ZeroBytes

-----------------------------------------------------------------------------
(***************************************************************************)
(* Two elements in the hands of a caller that keeps to the comments: bnd   *)
(* is the bound that the comment of the function which made acc promises,  *)
(* and an operation is called only where the bounds that its own comment   *)
(* asks for follow.  ref is the element that acc should stand for.         *)
(***************************************************************************)
VARIABLES
    acc,            \* the limbs of the element that the operations change
    ref,            \* the integer below p that it stands for
    bnd,            \* what its limbs are promised to be, in percent of 2^25, 2^24, ...
    arg,            \* the limbs of a second element, which stays
    ops

fvars == <<acc, ref, bnd, arg, ops>>

Tight == 101        \* what fe_mul, fe_sq, fe_sq2 and fe_frombytes return
AddIn == 110
AddOut == 220
MulIn == 330

BytesValue(s) == ModP(Low(Load(s, 0, 32), 255))

FInit ==
    /\ arg \in {fe_frombytes(s) : s \in Sample}
    /\ \/ \E s \in Sample : acc = fe_frombytes(s) /\ ref = BytesValue(s) /\ bnd = Tight
       \/ \E f \in Corner : acc = f /\ ref = ModP(Value(f)) /\ bnd = IF Bounded(f, AddOut) THEN AddOut ELSE MulIn
    /\ ops = 0

Becomes(limbs, integer, bound) ==
    /\ ops < MaxOps
    /\ ops' = ops + 1
    /\ acc' = limbs
    /\ ref' = integer
    /\ bnd' = bound
    /\ UNCHANGED arg

Other == ModP(Value(arg))

Add == bnd <= AddIn /\ Becomes(fe_add(acc, arg), ModP(Plus(ref, Other)), AddOut)
Sub == bnd <= AddIn /\ Becomes(fe_sub(arg, acc), ModP(Minus(Other, ref)), AddOut)
Neg == bnd <= AddIn /\ Becomes(fe_neg(acc), ModP(Minus(Num(0), ref)), AddIn)
Mul == bnd <= MulIn /\ Becomes(fe_mul(acc, arg), ModP(Times(ref, Other)), Tight)
Sq == bnd <= MulIn /\ Becomes(fe_sq(acc), ModP(Times(ref, ref)), Tight)
Sq2 == bnd <= MulIn /\ Becomes(fe_sq2(acc), ModP(Times(Num(2), Times(ref, ref))), Tight)
Store == bnd <= AddOut /\ Becomes(fe_frombytes(fe_tobytes(acc)), ref, Tight)
Cmov == \E b \in {0, 1} :
            Becomes(fe_cmov(acc, arg, b), IF b = 1 THEN Other ELSE ref, IF b = 1 THEN Tight ELSE bnd)
Set == \/ Becomes(fe_0, Fit(Num(0), 20), Tight)
       \/ Becomes(fe_1, Fit(Num(1), 20), Tight)

FNext == Add \/ Sub \/ Neg \/ Mul \/ Sq \/ Sq2 \/ Store \/ Cmov \/ Set

-----------------------------------------------------------------------------
(* The limbs always stand for the element that the operations of the field
   make, in whatever form they come: products, squares and sums lose nothing
   to the carries and to what wraps at the top.  And the comments of the
   functions fit each other: limbs keep the bounds that the function which made
   them promises; from what fe_mul may be given, the words of a product stay in
   64 bits, as its comment computes. *)
WordLimit(k) == IF k % 2 = 1 THEN ShiftLeft(Num(14), 60) ELSE ShiftLeft(Num(17), 59)
FieldAgrees ==
    /\ ModP(Value(acc)) = ref
    /\ Bounded(acc, bnd)
    /\ bnd <= MulIn =>
        \A k \in Limb : AtMost(Times(Num(10), Magnitude(Word(acc, acc, k))), WordLimit(k))

(* An element has one string of bytes, its least value, whichever limbs stand
   for it; so the parity that a point's sign is taken from, and the test for
   zero, say something of the element. *)
OneString ==
    bnd <= AddOut =>
        /\ fe_tobytes(acc) = Bytes(ref, 32)
        /\ fe_isnegative(acc) = ref[1] % 2
        /\ fe_isnonzero(acc) <=> ~ IsZero(ref)
=============================================================================
