------------------------------ MODULE EdGroup ------------------------------
(***************************************************************************)
(* A caller of the points of contrib/ref10: one point, changed by the      *)
(* calls of Ge25519 with the conversions between them that                 *)
(* ge_scalarmult_base.c and ge_double_scalarmult.c make, next to the point *)
(* of the group that it should be.                                         *)
(***************************************************************************)
EXTENDS SmallField

INSTANCE Ge25519

CONSTANTS
    Scale,          \* the Z that points given to the calls have
    MaxCalls        \* how many calls a behaviour has

ASSUME ScaleAssumption == Scale \subseteq 1 .. Q - 1

VARIABLES
    point,          \* a ge_p3
    stands,         \* the point of the curve that it is
    text,           \* the string last read or written
    did,            \* what was last done with it: "made", "read", "refused" or "written"
    calls

gvars == <<point, stands, text, did, calls>>

\* p over Z = z
Extended(p, z) == ge_p3(Element(p[1] * z, Tight), Element(p[2] * z, Tight), Element(z, Tight),
                        Element(p[1] * p[2] * z, Tight))
\* as the tables hold it
Affine(p) == ge_precomp(Element(p[2] + p[1], 100), Element(p[2] - p[1], 100),
                        Element(2 * D * ((p[1] * p[2]) % Q), 100))

Blank == [y |-> 0, top |-> 0]

GInit ==
    /\ \E p \in Curve, z \in Scale : point = Extended(p, z) /\ stands = p
    /\ text = Blank /\ did = "made" /\ calls = 0

Called == calls < MaxCalls /\ calls' = calls + 1

Becomes(r, p) == Called /\ point' = r /\ stands' = p /\ text' = Blank /\ did' = "made"

GAdd == \E p \in Curve, z \in Scale :
            Becomes(ge_p1p1_to_p3(ge_add(point, ge_p3_to_cached(Extended(p, z)))), PointSum(stands, p))
GSub == \E p \in Curve, z \in Scale :
            Becomes(ge_p1p1_to_p3(ge_sub(point, ge_p3_to_cached(Extended(p, z)))), PointSum(stands, Opposite(p)))
GMadd == \E p \in Curve : Becomes(ge_p1p1_to_p3(ge_madd(point, Affine(p))), PointSum(stands, p))
GMsub == \E p \in Curve : Becomes(ge_p1p1_to_p3(ge_msub(point, Affine(p))), PointSum(stands, Opposite(p)))
\* twice, the first time through a ge_p2
Twice == PointSum(stands, stands)
GDouble == Becomes(ge_p1p1_to_p3(ge_p2_dbl(ge_p1p1_to_p2(ge_p3_dbl(point)))), PointSum(Twice, Twice))
GReset == Becomes(ge_p3_0, Zero)

\* the points that a string names: the y below its top bit, taken modulo Q, and the x whose parity is
\* the top bit
Named(s) == {p \in Curve : p[2] = s.y % Q /\ (p[1] = 0 \/ p[1] % 2 = s.top)}

GRead ==
    \E s \in String :
        LET r == ge_frombytes_negate_vartime(s)
        IN /\ Called
           /\ text' = s
           /\ did' = IF r.status = 0 THEN "read" ELSE "refused"
           /\ point' = IF r.status = 0 THEN r.h ELSE point
           /\ stands' = IF r.status = 0 THEN <<r.h.X.v, r.h.Y.v>> ELSE stands
GWrite ==
    /\ Called
    /\ text' = ge_p3_tobytes(point)
    /\ did' = "written"
    /\ UNCHANGED <<point, stands>>

GNext == GAdd \/ GSub \/ GMadd \/ GMsub \/ GDouble \/ GReset \/ GRead \/ GWrite

GSpec == GInit /\ [][GNext]_gvars

-----------------------------------------------------------------------------
(* Sums, differences and doubles are those of the group for every two points,
   equal, opposite or neutral ones among them: the formulas have no case where
   they fail, the fourth coordinate stays the product that they need, and the
   limbs of the four are what the next call can take, whatever the comments of
   fe_add and fe_sub ask. *)
PointsAdd ==
    /\ point.Z.v # 0
    /\ point.X.v = (stands[1] * point.Z.v) % Q
    /\ point.Y.v = (stands[2] * point.Z.v) % Q
    /\ (point.X.v * point.Y.v) % Q = (point.Z.v * point.T.v) % Q
    /\ \A c \in {"X", "Y", "Z", "T"} : point[c].b <= Tight

(* A string is refused exactly if no point of the curve has its y; else it is
   read as the point with the parity that it says, negated. A point is written
   as the one string of it whose y is least. *)
StringsArePoints ==
    /\ did = "refused" => \A p \in Curve : p[2] # text.y % Q
    /\ did = "read" => Opposite(stands) \in Named(text)
    /\ did = "written" => Named(text) = {stands} /\ text.y < Q /\ text.top = stands[1] % 2
=============================================================================
