----------------------------- MODULE MCEd25519 -----------------------------
(***************************************************************************)
(* The parts of contrib/ref10 in one run: the field, the addition chains   *)
(* and the scalars over their real numbers; points, multiplications and    *)
(* signatures over the curve of 40 points over 37, whose base point has    *)
(* order 5.  A behaviour is one of one part; the others stand still.       *)
(***************************************************************************)
EXTENDS Ed25519, Wide

CONSTANTS Sample, Corner, MaxOps, Long, Triples

VARIABLES part, acc, ref, bnd, arg, ops, which, alias, pow, at, turn, s, call, line, total, bytes

Field == INSTANCE Fe25519
Chain == INSTANCE FeChains
Scalar == INSTANCE Sc25519

String32(lo, mid, hi) == SubSeq([k \in 1 .. 32 |-> IF k = 1 THEN lo ELSE IF k = 32 THEN hi ELSE mid], 1, 32)
Full(n) == SubSeq([k \in 1 .. n |-> 255], 1, n)

\* 0, 2^255 + 18 which is no least string, p - 1, p, and one with every limb in use
MCSample == {String32(0, 0, 0), String32(18, 255, 255), String32(236, 255, 127),
             String32(237, 255, 127), String32(7, 85, 42)}
\* limbs at the bounds of fe_mul and of fe_add, of one sign and of both; and p, which fe_add can make
Bound(pct, k) == ((pct * 2 ^ (21 + (k % 2))) \div 100) * 8
MCCorner == {SubSeq([k \in 1 .. 10 |-> Bound(330, k)], 1, 10),
             SubSeq([k \in 1 .. 10 |-> IF k % 4 \in {0, 3} THEN - Bound(330, k) ELSE Bound(330, k)], 1, 10),
             SubSeq([k \in 1 .. 10 |-> - Bound(220, k)], 1, 10),
             SubSeq([k \in 1 .. 10 |-> IF k = 1 THEN 2 ^ 26 - 19 ELSE 2 ^ (25 + (k % 2)) - 1], 1, 10)}

\* l in bytes; 0, l, l - 1, a large multiple of l, all ones, 2^252
BytesOfL == <<237, 211, 245, 92, 26, 99, 18, 88, 214, 156, 247, 162, 222, 249, 222, 20,
              0, 0, 0, 0, 0, 0, 0, 0, 0, 0, 0, 0, 0, 0, 0, 16>>
BeforeL == [BytesOfL EXCEPT ![1] = 236]
MCLong == {Bytes(x, 64) : x \in {Num(0), OfBytes(BytesOfL), OfBytes(BeforeL), ShiftLeft(Num(1), 252),
                                 Minus(ShiftLeft(OfBytes(BytesOfL), 252), OfBytes(BytesOfL))}}
              \cup {Full(64)}
MCTriples == {<<Full(32), Full(32), Full(32)>>,
              <<BeforeL, BeforeL, BeforeL>>,
              <<String32(1, 0, 0), BeforeL, String32(1, 0, 0)>>}

MCBase == <<8, 10>>
None32 == String32(0, 0, 0)
Eights == String32(136, 136, 120)
Mixed(a, b, hi) == SubSeq([k \in 1 .. 32 |-> IF k = 32 THEN hi ELSE (k * a + b) % 256], 1, 32)
MCTasks ==
    {[what |-> "base", a |-> x, b |-> None32, A |-> Zero] :
        x \in {None32, Eights, String32(255, 255, 127), Mixed(89, 37, 16)}}
    \cup {[what |-> "double", a |-> t[1], b |-> t[2], A |-> t[3]] :
            t \in {<<None32, None32, MCBase>>, <<String32(1, 0, 0), Full(32), MCBase>>,
                   <<String32(255, 255, 127), Eights, <<0, 36>>>>, <<Mixed(151, 201, 31), String32(1, 0, 0), MCBase>>,
                   <<Mixed(89, 37, 16), Mixed(151, 201, 31), Opposite(MCBase)>>,
                   <<Eights, Mixed(89, 37, 16), <<6, 0>>>>}}

fieldvars == <<acc, ref, bnd, arg, ops>>
chainvars == <<which, alias, pow, at, turn>>
scalarvars == <<s, call, line, total, bytes>>

\* a part that does not move
FieldRests == acc = <<>> /\ ref = <<>> /\ bnd = 0 /\ arg = <<>> /\ ops = 0
ChainRests == which = "none" /\ alias = FALSE /\ pow = <<>> /\ at = 0 /\ turn = 0
ScalarRests == s = <<>> /\ call = "none" /\ line = 0 /\ total = <<>> /\ bytes = <<>>
GroupRests == GInit /\ stands = Zero
MultRests == MInit /\ task.what = "base" /\ task.a = None32
SignRests == SInit /\ az = 32 /\ m = CHOOSE n \in Message : TRUE

MCInit ==
    \/ part = "field" /\ Field!FInit /\ ChainRests /\ ScalarRests /\ GroupRests /\ MultRests /\ SignRests
    \/ part = "chain" /\ FieldRests /\ Chain!CInit /\ ScalarRests /\ GroupRests /\ MultRests /\ SignRests
    \/ part = "scalar" /\ FieldRests /\ ChainRests /\ Scalar!SInit /\ GroupRests /\ MultRests /\ SignRests
    \/ part = "group" /\ FieldRests /\ ChainRests /\ ScalarRests /\ GInit /\ MultRests /\ SignRests
    \/ part = "mult" /\ FieldRests /\ ChainRests /\ ScalarRests /\ GroupRests /\ MInit /\ SignRests
    \/ part = "sign" /\ FieldRests /\ ChainRests /\ ScalarRests /\ GroupRests /\ MultRests /\ SInit

MCNext ==
    /\ UNCHANGED part
    /\ \/ part = "field" /\ Field!FNext /\ UNCHANGED <<chainvars, scalarvars, gvars, mvars, svars>>
       \/ part = "chain" /\ Chain!CNext /\ UNCHANGED <<fieldvars, scalarvars, gvars, mvars, svars>>
       \/ part = "scalar" /\ Scalar!SNext /\ UNCHANGED <<fieldvars, chainvars, gvars, mvars, svars>>
       \/ part = "group" /\ GNext /\ UNCHANGED <<fieldvars, chainvars, scalarvars, mvars, svars>>
       \/ part = "mult" /\ MNext /\ UNCHANGED <<fieldvars, chainvars, scalarvars, gvars, svars>>
       \/ part = "sign" /\ SNext /\ UNCHANGED <<fieldvars, chainvars, scalarvars, gvars, mvars>>

MCSpec == MCInit /\ [][MCNext]_<<part, fieldvars, chainvars, scalarvars, gvars, mvars, svars>>

(* What Fe25519, FeChains and Sc25519 claim of their parts. *)
FieldAgrees == part = "field" => Field!FieldAgrees
OneString == part = "field" => Field!OneString
ChainMeets == part = "chain" => Chain!ChainMeets
ScalarReduced == part = "scalar" => Scalar!ScalarReduced
=============================================================================
