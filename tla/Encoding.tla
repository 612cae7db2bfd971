------------------------------ MODULE Encoding ------------------------------
(***************************************************************************)
(* The encodings of mnet/encoding.c.  A byte is a number up to 255; a      *)
(* character is the number of its place in the alphabet T64 or T32, the    *)
(* padding character P64 or one that is not in the alphabet.               *)
(***************************************************************************)
EXTENDS Integers, Sequences, SequencesExt, Bitwise

Pad == 64
Foreign == 65

Group(s, i, n) == SubSeq(s, n * (i - 1) + 1, n * i)

\* mnet_base64_encoding_buffer_size
Base64Size(n) == 4 * ((n \div 3) + (IF n % 3 = 0 THEN 0 ELSE 1))

\* Mutant of EncodeGroup: the low half of the second byte is not shifted.
EncodeGroupUnshifted(g) ==
    << g[1] \div 4,
       ((g[1] * 16) % 64) + (g[2] \div 16),
       (g[2] % 16) | (g[3] \div 64),
       g[3] % 64 >>

\* Three bytes.
EncodeGroup(g) ==
    << g[1] \div 4,
       ((g[1] * 16) % 64) + (g[2] \div 16),
       ((g[2] % 16) * 4) + (g[3] \div 64),
       g[3] % 64 >>

\* The one or two bytes after the last group of three.
EncodeRest(r) ==
    CASE Len(r) = 1 -> << r[1] \div 4, (r[1] * 16) % 64, Pad, Pad >>
      [] Len(r) = 2 -> << r[1] \div 4, ((r[1] * 16) % 64) + (r[2] \div 16), (r[2] % 16) * 4, Pad >>
      [] OTHER -> <<>>

\* mnet_base64_encode into a buffer of room characters; what a caller of
\* mnet_base64_encode_str gets has the room.
Encode(b, room) ==
    LET n == Len(b) \div 3
    IN  IF Base64Size(Len(b)) > room THEN <<>>
        ELSE FlattenSeq([i \in 1 .. n |-> EncodeGroup(Group(b, i, 3))])
                 \o EncodeRest(SubSeq(b, 3 * n + 1, Len(b)))

EncodeStr(b) == Encode(b, Base64Size(Len(b)))

\* iT64, of which every character outside the alphabet is -1 in a byte.
CharValue(c) == CASE c = Pad -> 0 [] c = Foreign -> 255 [] OTHER -> c

\* Four characters, in 8-bit registers.
DecodeGroup(g) ==
    LET v == [i \in 1 .. 4 |-> CharValue(g[i])]
    IN  << ((v[1] * 4) % 256) | (v[2] \div 16),
           ((v[2] * 16) % 256) | (v[3] \div 4),
           v[4] | ((v[3] * 64) % 256) >>

\* Padding characters at the end of t.
Padding(t) ==
    LET last == SelectLastInSeq(t, LAMBDA c : c # Pad) IN Len(t) - last

\* Mutant of Decode: the padding is counted as data.
DecodeWithPadding(t, room) ==
    LET n     == Len(t) \div 4
        count == 3 * n
    IN  IF t = <<>> \/ Len(t) % 4 # 0 THEN [count |-> 0, out |-> <<>>]
        ELSE IF count > room THEN [count |-> -1, out |-> <<>>]
        ELSE [count |-> count,
              out |-> FlattenSeq([i \in 1 .. n |-> DecodeGroup(Group(t, i, 4))])]

\* mnet_base64_decode into a buffer of room bytes.  A count below zero is a
\* size_t above every room, and -1 one itself.
Decode(t, room) ==
    LET n     == Len(t) \div 4
        count == 3 * n - Padding(t)
    IN  IF t = <<>> \/ Len(t) % 4 # 0 THEN [count |-> 0, out |-> <<>>]
        ELSE IF count < 0 \/ count > room THEN [count |-> -1, out |-> <<>>]
        ELSE [count |-> count,
              out |-> SubSeq(FlattenSeq([i \in 1 .. n |-> DecodeGroup(Group(t, i, 4))]), 1, count)]

\* mnet_base64_decode_str: a count of -1 is not zero and counts as success.
DecodeStr(t) == Decode(t, Len(t))

-----------------------------------------------------------------------------

\* tmp is an int that takes in all bytes; more than 16 bits of it are never
\* looked at.
Shifted(tmp, by) == (tmp * 2 ^ by) % 2 ^ 16

\* The loop of mnet_base32_encode: characters that are still to come with pos
\* bytes read and bits of tmp unused, into a buffer with that much room.
RECURSIVE Base32(_, _, _, _, _)

Base32(b, pos, tmp, bits, room) ==
    IF room = 0 \/ (bits = 0 /\ pos >= Len(b)) THEN <<>>
    ELSE LET more == bits < 5 /\ pos < Len(b)
             fill == bits < 5 /\ pos >= Len(b)
             t    == CASE more -> Shifted(tmp, 8) + b[pos + 1]
                       [] fill -> Shifted(tmp, 5 - bits)
                       [] OTHER -> tmp
             left == (CASE more -> bits + 8 [] fill -> 5 [] OTHER -> bits) - 5
         IN  <<(t \div 2 ^ left) % 32>>
                 \o Base32(b, IF more THEN pos + 1 ELSE pos, t, left, room - 1)

\* The first byte is read before the length is looked at.
Base32Encode(b, room) == Base32(b, 1, b[1], 8, room)
=============================================================================
