------------------------------ MODULE Ge25519 ------------------------------
(***************************************************************************)
(* The points of contrib/ref10 (ge.h, ge_*.c, ge_*.h): four ways to write  *)
(* a point of the curve, and the calls of fe_* that take one to another.   *)
(* The field is a parameter, so that the same formulas can be checked over *)
(* a field where every point can be tried.                                 *)
(***************************************************************************)
EXTENDS Integers

CONSTANTS
    fe_0, fe_1, fe_copy(_), fe_neg(_), fe_sq(_), fe_sq2(_), fe_invert(_), fe_pow22523(_),
    fe_add(_, _), fe_sub(_, _), fe_mul(_, _), fe_cmov(_, _, _),
    fe_frombytes(_), fe_tobytes(_), fe_isnegative(_), fe_isnonzero(_),
    d, d2, sqrtm1

ge_p2(x, y, z) == [X |-> x, Y |-> y, Z |-> z]
ge_p3(x, y, z, t) == [X |-> x, Y |-> y, Z |-> z, T |-> t]
ge_p1p1(x, y, z, t) == [X |-> x, Y |-> y, Z |-> z, T |-> t]
ge_precomp(p, m, t) == [yplusx |-> p, yminusx |-> m, xy2d |-> t]

ge_p2_0 == ge_p2(fe_0, fe_1, fe_1)
ge_p3_0 == ge_p3(fe_0, fe_1, fe_1, fe_0)
ge_precomp_0 == ge_precomp(fe_1, fe_1, fe_0)

ge_p1p1_to_p2(p) == ge_p2(fe_mul(p.X, p.T), fe_mul(p.Y, p.Z), fe_mul(p.Z, p.T))
ge_p1p1_to_p3(p) == ge_p3(fe_mul(p.X, p.T), fe_mul(p.Y, p.Z), fe_mul(p.Z, p.T), fe_mul(p.X, p.Y))
ge_p3_to_p2(p) == ge_p2(fe_copy(p.X), fe_copy(p.Y), fe_copy(p.Z))
ge_p3_to_cached(p) ==
    [YplusX |-> fe_add(p.Y, p.X), YminusX |-> fe_sub(p.Y, p.X), Z |-> fe_copy(p.Z), T2d |-> fe_mul(p.T, d2)]

\* from A, B, C and D of the comments: X3 = A - B, Y3 = A + B, Z3 = D + C, T3 = D - C
Completed(A, B, C, D) == ge_p1p1(fe_sub(A, B), fe_add(A, B), fe_add(D, C), fe_sub(D, C))
\* to subtract, Z3 and T3 change places, as the two factors of q do
\* mutant: they do not
SwappedNot(r) == r
Swapped(r) == ge_p1p1(r.X, r.Y, r.T, r.Z)

ge_add(p, q) ==
    LET ZZ == fe_mul(p.Z, q.Z)
    IN Completed(fe_mul(fe_add(p.Y, p.X), q.YplusX), fe_mul(fe_sub(p.Y, p.X), q.YminusX),
                 fe_mul(q.T2d, p.T), fe_add(ZZ, ZZ))

ge_sub(p, q) ==
    LET ZZ == fe_mul(p.Z, q.Z)
    IN Swapped(Completed(fe_mul(fe_add(p.Y, p.X), q.YminusX), fe_mul(fe_sub(p.Y, p.X), q.YplusX),
                         fe_mul(q.T2d, p.T), fe_add(ZZ, ZZ)))

ge_madd(p, q) ==
    Completed(fe_mul(fe_add(p.Y, p.X), q.yplusx), fe_mul(fe_sub(p.Y, p.X), q.yminusx),
              fe_mul(q.xy2d, p.T), fe_add(p.Z, p.Z))

ge_msub(p, q) ==
    Swapped(Completed(fe_mul(fe_add(p.Y, p.X), q.yminusx), fe_mul(fe_sub(p.Y, p.X), q.yplusx),
                      fe_mul(q.xy2d, p.T), fe_add(p.Z, p.Z)))

ge_p2_dbl(p) ==
    LET XX == fe_sq(p.X)
        YY == fe_sq(p.Y)
        AA == fe_sq(fe_add(p.X, p.Y))
        Y3 == fe_add(YY, XX)
        Z3 == fe_sub(YY, XX)
    IN ge_p1p1(fe_sub(AA, Y3), Y3, Z3, fe_sub(fe_sq2(p.Z), Z3))

ge_p3_dbl(p) == ge_p2_dbl(ge_p3_to_p2(p))

-----------------------------------------------------------------------------
\* mutant: the sign is left out
ge_tobytesUnsigned(h) == fe_tobytes(fe_mul(h.Y, fe_invert(h.Z)))
ge_tobytes(h) ==
    LET recip == fe_invert(h.Z)
    IN [fe_tobytes(fe_mul(h.Y, recip)) EXCEPT !.top = fe_isnegative(fe_mul(h.X, recip))]

ge_p3_tobytes(h) == ge_tobytes(ge_p3_to_p2(h))

\* h is what s is the string of, negated, if status is 0
ge_frombytes_negate_vartime(s) ==
    LET y == fe_frombytes(s)
        z == fe_1
        yy == fe_sq(y)
        u == fe_sub(yy, z)
        v == fe_add(fe_mul(yy, d), z)
        v3 == fe_mul(fe_sq(v), v)
        uv7 == fe_mul(fe_mul(fe_sq(v3), v), u)
        x == fe_mul(fe_mul(fe_pow22523(uv7), v3), u)
        vxx == fe_mul(fe_sq(x), v)
        root == ~ fe_isnonzero(fe_sub(vxx, u))
        turned == IF root THEN x ELSE fe_mul(x, sqrtm1)
        signed == IF fe_isnegative(turned) = s.top THEN fe_neg(turned) ELSE turned
    IN [status |-> IF ~ root /\ fe_isnonzero(fe_add(vxx, u)) THEN -1 ELSE 0,
        h |-> ge_p3(signed, y, z, fe_mul(signed, y))]
=============================================================================
