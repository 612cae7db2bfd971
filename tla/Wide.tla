-------------------------------- MODULE Wide --------------------------------
(***************************************************************************)
(* Integers of any size, for the 64-bit words and the 255-bit numbers of   *)
(* the Ed25519 reference that TLC's own integers cannot hold.  A number is *)
(* a tuple of digits of thirteen bits, the lowest first: d stands for the sum   *)
(* of d[i] * 8192^(i-1).  In the form that Fit gives, all digits but the   *)
(* last are in 0..8191 and the last carries the sign, so that two numbers  *)
(* of one length are equal exactly when their tuples are.                  *)
(***************************************************************************)
EXTENDS Integers, Sequences

Bits  == 13
Radix == 2 ^ Bits

Digit(a, i) == IF i \in DOMAIN a THEN a[i] ELSE 0

Longer(a, b) == IF Len(a) >= Len(b) THEN Len(a) ELSE Len(b)

\* the integer that a stands for from digit i on, when it is small
From(a, i) ==
    LET value[k \in i .. Len(a) + 1] == IF k > Len(a) THEN 0 ELSE a[k] + Radix * value[k + 1]
    IN IF i > Len(a) THEN 0 ELSE value[i]
Small(a) == From(a, 1)

\* the number a in n digits, which have to be enough of them
Fit(a, n) ==
    LET carry[i \in 0 .. n - 1] == IF i = 0 THEN 0 ELSE (carry[i - 1] + Digit(a, i)) \div Radix
    IN SubSeq([i \in 1 .. n |-> IF i < n THEN (carry[i - 1] + Digit(a, i)) % Radix
                                ELSE carry[n - 1] + From(a, n)], 1, n)

\* a small integer as a number
Num(x) == Fit(<<x>>, 3)

Plus(a, b)  == Fit([i \in 1 .. Longer(a, b) |-> Digit(a, i) + Digit(b, i)], Longer(a, b) + 1)
Minus(a, b) == Fit([i \in 1 .. Longer(a, b) |-> Digit(a, i) - Digit(b, i)], Longer(a, b) + 1)

\* the sum of a tuple of numbers, by halves
Sum(terms) ==
    LET sum[lo, hi \in 1 .. Len(terms)] ==
            IF lo = hi THEN terms[lo]
            ELSE Plus(sum[lo, (lo + hi) \div 2], sum[((lo + hi) \div 2) + 1, hi])
    IN sum[1, Len(terms)]

Times(a, b) ==
    LET column(k) ==
            LET part[i \in 0 .. Len(a)] ==
                    IF i = 0 THEN 0 ELSE part[i - 1] + a[i] * Digit(b, k + 1 - i)
            IN part[Len(a)]
    IN Fit([k \in 1 .. Len(a) + Len(b) |-> column(k)], Len(a) + Len(b))

\* a >> k, which rounds down as the shift of a negative word does here
ShiftRight(a, k) ==
    LET q == k \div Bits
        r == 2 ^ (k % Bits)
        digit(i) == (a[i] \div r) + (Digit(a, i + 1) % r) * (Radix \div r)
    IN IF q >= Len(a) THEN <<IF a[Len(a)] < 0 THEN -1 ELSE 0>>
       ELSE Fit([i \in 1 .. Len(a) - q |-> digit(i + q)], Len(a) - q)

\* a << k
ShiftLeft(a, k) ==
    Fit([i \in 1 .. (k \div Bits) |-> 0] \o [i \in DOMAIN a |-> a[i] * 2 ^ (k % Bits)],
        Len(a) + (k \div Bits) + 1)

Low(a, k) == Minus(a, ShiftLeft(ShiftRight(a, k), k))

\* the number in a string of bytes, the lowest first, and the n bytes of a number that is not negative
OfBytes(b) ==
    LET digit(k) == LET bit == Bits * (k - 1)
                        at(j) == Digit(b, (bit \div 8) + j)
                    IN ((at(1) + 256 * at(2) + 65536 * at(3)) \div 2 ^ (bit % 8)) % Radix
    IN SubSeq([k \in 1 .. ((8 * Len(b)) \div Bits) + 2 |-> digit(k)], 1, ((8 * Len(b)) \div Bits) + 2)

Bytes(a, n) ==
    LET byte(k) == LET bit == 8 * (k - 1)
                       at(j) == Digit(a, (bit \div Bits) + j)
                   IN ((at(1) + Radix * (at(2) % Radix)) \div 2 ^ (bit % Bits)) % 256
    IN SubSeq([k \in 1 .. n |-> byte(k)], 1, n)

Negative(a) == a[Len(a)] < 0
IsZero(a) == \A i \in DOMAIN Fit(a, Len(a)) : Fit(a, Len(a))[i] = 0
Equal(a, b) == IsZero(Minus(a, b))
AtMost(a, b) == ~ Negative(Minus(b, a))
Magnitude(a) == IF Negative(a) THEN Minus(Num(0), a) ELSE a

\* what lies above bit k counts s times, modulo 2^k - s
Fold(a, k, s) == Plus(Low(a, k), Times(s, ShiftRight(a, k)))

\* a modulo 2^k - s, for a up to 2k bits long and s at most half as long as k
Modulo(a, k, s) ==
    LET m == Minus(ShiftLeft(Num(1), k), s)
        folded == Fold(Fold(Fold(a, k, s), k, s), k, s)
        positive == IF Negative(folded) THEN Plus(folded, m) ELSE folded
        least == IF AtMost(m, positive) THEN Minus(positive, m) ELSE positive
    IN Fit(least, (k \div Bits) + 1)
=============================================================================
