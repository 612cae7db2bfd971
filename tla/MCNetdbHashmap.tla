--------------------------- MODULE MCNetdbHashmap ---------------------------
(* A table of three buckets: bucket 1 with two colliding idents, buckets 0
   and 2 with one each.  Two router infos share the ident i1. *)
EXTENDS NetdbHashmap

CONSTANTS i0, i1, i2, i3, r0, r1, r1b, r2, r3

MCIdent == {i0, i1, i2, i3}
MCRI == {r0, r1, r1b, r2, r3}
MCIdentOf == [ri \in MCRI |->
    CASE ri = r0 -> i0 [] ri \in {r1, r1b} -> i1 [] ri = r2 -> i2 [] ri = r3 -> i3]
MCSlotOf == [k \in MCIdent |-> CASE k = i0 -> 0 [] k \in {i1, i2} -> 1 [] k = i3 -> 2]
=============================================================================
