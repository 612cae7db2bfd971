----------------------------- MODULE MCIdentity -----------------------------
(* Identities and, apart from them, the encodings their texts are made of: byte
   strings of up to MaxBytes bytes, and texts of up to MaxText characters, grown
   by one at a time. *)
EXTENDS Identity

CONSTANTS MaxBytes, MaxText

Byte == {0, 1, 90, 255}
Character == {0, 22, 48, 63, Pad, Foreign}

VARIABLES bytes, chars

Grow ==
    \/ chars = <<>> /\ Len(bytes) < MaxBytes
       /\ \E b \in Byte : bytes' = Append(bytes, b) /\ UNCHANGED chars
    \/ bytes = <<>> /\ Len(chars) < MaxText
       /\ \E c \in Character : chars' = Append(chars, c) /\ UNCHANGED bytes

MCInit == Init /\ bytes = <<>> /\ chars = <<>>

MCNext ==
    \/ Init /\ Grow /\ UNCHANGED vars
    \/ bytes = <<>> /\ chars = <<>> /\ Next /\ UNCHANGED <<bytes, chars>>

MCSpec == MCInit /\ [][MCNext]_<<vars, bytes, chars>>

-----------------------------------------------------------------------------
(* Reference: the bits of the bytes in digits of w bits, the last filled up. *)

Bit(b, i) ==    \* i counts from 0
    IF i < 8 * Len(b) THEN (b[(i \div 8) + 1] \div 2 ^ (7 - (i % 8))) % 2 ELSE 0

Digits(b, w) ==
    [j \in 1 .. (8 * Len(b) + w - 1) \div w |->
        FoldLeft(LAMBDA acc, k : 2 * acc + Bit(b, w * (j - 1) + k - 1),
                 0, [k \in 1 .. w |-> k])]

\* mnet_base64_encode writes the digits of six bits and fills up to a multiple
\* of four characters, and nothing if the buffer is too small; mnet_base32_encode
\* the digits of five bits, as many as there is room for, of any input but the
\* empty one.
EncodesInDigits ==
    LET d == Digits(bytes, 6)
        h == Digits(bytes, 5)
    IN  /\ EncodeStr(bytes) = d \o [i \in 1 .. (3 * Len(d)) % 4 |-> Pad]
        /\ bytes # <<>> => Encode(bytes, Len(EncodeStr(bytes)) - 1) = <<>>
        /\ bytes # <<>> => \A room \in 0 .. 2 * MaxBytes :
               Base32Encode(bytes, room) = SubSeq(h, 1, IF room < Len(h) THEN room ELSE Len(h))

\* A text of whole groups in the alphabet, with one or two padding characters
\* at the end and no bits set that they leave over.
Canonical(c) ==
    LET n    == Len(c)
        last == n - Padding(c)
    IN  /\ n % 4 = 0 /\ n > 0 /\ Padding(c) <= 2
        /\ \A i \in 1 .. last : c[i] < Pad
        /\ Padding(c) = 1 => c[last] % 4 = 0
        /\ Padding(c) = 2 => c[last] % 16 = 0

\* mnet_base64_decode_str finds the bytes that a text was encoded from, however
\* many they are; and a canonical text is the text of the bytes it is decoded
\* to, so that no other one names the same identity.
DecodeInverts ==
    /\ LET d == DecodeStr(EncodeStr(bytes)) IN d.out = bytes /\ d.count = Len(bytes)
    /\ Canonical(chars) => EncodeStr(DecodeStr(chars).out) = chars
=============================================================================
