------------------------------ MODULE Sc25519 ------------------------------
(***************************************************************************)
(* Scalars modulo l, the order of the base point, of contrib/ref10:        *)
(* sc_reduce of 64 bytes and sc_muladd of three times 32 bytes.  Both load *)
(* words of 21 bits into 64-bit variables s0..s23, word i of weight        *)
(* 2^(21 * i), and then run one schedule: what lies above s11 is folded    *)
(* down, as 2^252 is small modulo l, and carries keep the words short.  A  *)
(* line of the schedule is a step here.  Word i is s[i + 1].               *)
(***************************************************************************)
EXTENDS Wide

CONSTANTS
    Long,           \* strings of 64 bytes for sc_reduce
    Triples         \* tuples of three strings of 32 bytes for sc_muladd

\* l = 2^252 + 27742317777372353535851937790883648493
LTail == <<5101, 1966, 1687, 1222, 1409, 3691, 3038, 7124, 7929, 166>>
ModL(a) == Modulo(a, 252, Minus(Num(0), LTail))

LoadBytes(s, from, n) == OfBytes(SubSeq(s, from + 1, from + n))

\* word i of a string: load_3 or load_4 at the byte its first bit lies in, shifted and masked; the last
\* word of the string takes all that is left
WordOf(s, i, last) ==
    LET shift == (21 * i) % 8
        loaded == ShiftRight(LoadBytes(s, (21 * i) \div 8, IF i = last \/ shift + 21 > 24 THEN 4 ELSE 3), shift)
    IN Fit(IF i = last THEN loaded ELSE Low(loaded, 21), 5)

LoadReduce(s) == SubSeq([j \in 1 .. 24 |-> WordOf(s, j - 1, 23)], 1, 24)

\* s0 = c0 + a0*b0; s1 = c1 + a0*b1 + a1*b0; ... s22 = a11*b11; s23 = 0
LoadMulAdd(a, b, c) ==
    LET x == SubSeq([j \in 1 .. 12 |-> WordOf(a, j - 1, 11)], 1, 12)
        y == SubSeq([j \in 1 .. 12 |-> WordOf(b, j - 1, 11)], 1, 12)
        term(i, k) ==
            IF i = 0 THEN IF k < 12 THEN WordOf(c, k, 11) ELSE Num(0)
            ELSE IF k + 1 - i \in 0 .. 11 THEN Times(x[i], y[k + 2 - i])
            ELSE Num(0)
        column(k) == Fit(Sum([i \in 1 .. 13 |-> term(i - 1, k)]), 5)
    IN SubSeq([j \in 1 .. 24 |-> column(j - 1)], 1, 24)

-----------------------------------------------------------------------------
\* a line of the schedule: fold word i, carry from word i rounded to the nearest or rounded down
Steps(op, words) == [j \in 1 .. Len(words) |-> [op |-> op, i |-> words[j]]]

RippleSteps ==
    Steps("round", <<0, 2, 4, 6, 8, 10, 12, 14, 16, 18, 20, 22>>)
        \o Steps("round", <<1, 3, 5, 7, 9, 11, 13, 15, 17, 19, 21>>)
HighSteps ==
    Steps("fold", <<23, 22, 21, 20, 19, 18>>)
        \o Steps("round", <<6, 8, 10, 12, 14, 16>>) \o Steps("round", <<7, 9, 11, 13, 15>>)
MiddleSteps ==
    Steps("fold", <<17, 16, 15, 14, 13, 12>>)
        \o Steps("round", <<0, 2, 4, 6, 8, 10>>) \o Steps("round", <<1, 3, 5, 7, 9, 11>>)
LowSteps ==
    Steps("fold", <<12>>) \o Steps("floor", <<0, 1, 2, 3, 4, 5, 6, 7, 8, 9, 10, 11>>)
        \o Steps("fold", <<12>>) \o Steps("floor", <<0, 1, 2, 3, 4, 5, 6, 7, 8, 9, 10>>)

sc_reduce == HighSteps \o MiddleSteps \o LowSteps
sc_muladd == RippleSteps \o HighSteps \o MiddleSteps \o LowSteps

VARIABLES
    s,              \* the words
    call,           \* "sc_reduce" or "sc_muladd"
    line,           \* the next line of the schedule
    total,          \* the integer below l that the call is to return
    bytes           \* what it has written

svars == <<s, call, line, total, bytes>>

Schedule == IF call = "sc_reduce" THEN sc_reduce ELSE sc_muladd

SInit ==
    /\ line = 1 /\ bytes = <<>>
    /\ \/ \E x \in Long :
            /\ call = "sc_reduce"
            /\ s = LoadReduce(x)
            /\ total = ModL(LoadBytes(x, 0, 64))
       \/ \E t \in Triples :
            /\ call = "sc_muladd"
            /\ s = LoadMulAdd(t[1], t[2], t[3])
            /\ total = ModL(Plus(Times(LoadBytes(t[1], 0, 32), LoadBytes(t[2], 0, 32)), LoadBytes(t[3], 0, 32)))

Word64(a) == Fit(a, 5)
\* mutant: the last word is added
FactorAllAdded == <<666643, 470296, 654183, -997805, 136657, 683901>>
Factor == <<666643, 470296, 654183, -997805, 136657, -683901>>

\* s(i-12) += si * 666643; ... s(i-7) -= si * 683901; si = 0
FoldWord ==
    LET i == Schedule[line].i
        share(j) == Times(s[i + 1], Num(Factor[j - i + 12]))
    IN /\ line <= Len(Schedule)
       /\ Schedule[line].op = "fold"
       /\ s' = [j \in 1 .. 24 |-> IF j = i + 1 THEN Word64(Num(0))
                                  ELSE IF j \in i - 11 .. i - 6 THEN Word64(Plus(s[j], share(j)))
                                  ELSE s[j]]

\* carry = (si + (1<<20)) >> 21, or si >> 21; s(i+1) += carry; si -= carry << 21
CarryWord ==
    LET i == Schedule[line].i
        half == IF Schedule[line].op = "round" THEN 2 ^ 20 ELSE 0
        carry == ShiftRight(Plus(s[i + 1], Num(half)), 21)
    IN /\ line <= Len(Schedule)
       /\ Schedule[line].op \in {"round", "floor"}
       /\ s' = [s EXCEPT ![i + 1] = Word64(Minus(@, ShiftLeft(carry, 21))),
                         ![i + 2] = Word64(Plus(@, carry))]

SumOfWords == Sum([j \in 1 .. 24 |-> ShiftLeft(s[j], 21 * (j - 1))])

\* s[0] = s0 >> 0; ... s[31] = s11 >> 17: words that are bits, side by side
StoreBytes ==
    /\ line = Len(Schedule) + 1
    /\ bytes = <<>>
    /\ bytes' = Bytes(SumOfWords, 32)
    /\ UNCHANGED s

SNext ==
    \/ (FoldWord \/ CarryWord) /\ line' = line + 1 /\ UNCHANGED <<call, total, bytes>>
    \/ StoreBytes /\ UNCHANGED <<call, total, line>>

-----------------------------------------------------------------------------
(* No line of the schedule changes the scalar modulo l, and no word leaves
   the 64 bits of its variable on the way.  The 32 bytes that come out are those
   of the least scalar, also for what is a multiple of l or just beside one: two
   fold-and-carry rounds are enough, and every word that is packed is a word of
   21 bits. *)
ScalarReduced ==
    /\ ModL(SumOfWords) = total
    /\ \A j \in 1 .. 24 : AtMost(Magnitude(s[j]), ShiftLeft(Num(1), 62))
    /\ bytes # <<>> =>
        /\ bytes = Bytes(total, 32)
        /\ \A j \in 1 .. 24 : AtMost(Num(0), s[j]) /\ (j = 12 \/ IsZero(ShiftRight(s[j], 21)))
=============================================================================
