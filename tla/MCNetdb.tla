------------------------------- MODULE MCNetdb -------------------------------
(* Two subdirectories and four node files.  The ident k0 falls in bucket 0,
   k1 and k2 collide in bucket 1.  The file x is named after no ident: it may
   hold a second router info of k1, or the one of k0. *)
EXTENDS Netdb

CONSTANTS k0, k1, k2, r0, r1, r1b, r2, n0, n1, n2, x

MCIdent == {k0, k1, k2}
MCRI == {r0, r1, r1b, r2}
MCIdentOf == [ri \in MCRI |->
    CASE ri = r0 -> k0 [] ri \in {r1, r1b} -> k1 [] ri = r2 -> k2]
MCSlotOf == [k \in MCIdent |-> IF k = k0 THEN 0 ELSE 1]
MCFile == {n0, n1, n2, x}
MCDirOf == [f \in MCFile |-> IF f \in {n0, x} THEN 1 ELSE 2]
MCNodeFile == [k \in MCIdent |-> CASE k = k0 -> n0 [] k = k1 -> n1 [] k = k2 -> n2]

\* Files that cannot be opened or parsed among them.
MCMixed == [f \in MCFile |->
    CASE f = n0 -> {r0} [] f = n1 -> {r1, "noaccess"} [] f = n2 -> {r2, "garbage"}
      [] f = x -> {r1b}]
=============================================================================
