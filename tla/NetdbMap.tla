------------------------------ MODULE NetdbMap ------------------------------
(***************************************************************************)
(* What netdb_hashmap.h promises, without buckets, chains or a counter:    *)
(* a put-if-absent map from ident hashes to router infos.  The module      *)
(* NetdbHashmap is shown to implement this specification.                  *)
(***************************************************************************)
EXTENDS Integers, FiniteSets

CONSTANTS
    Ident,      \* ident hashes
    RI,         \* router_info objects
    NoRI,       \* the NULL that a failed lookup stores in *ri
    IdentOf     \* router_info_hash: the ident hash of a router info

VARIABLES
    map,        \* the router info bound to an ident hash, or NoRI
    reply       \* the last call that returned: <<operation, argument, result>>

mvars == <<map, reply>>

Bindings == {k \in Ident : map[k] # NoRI}

MInit ==
    /\ map = [k \in Ident |-> NoRI]
    /\ reply = <<"none", NoRI, 0>>

\* insert: the first router info of an ident stays, a second is refused.
MInsert(ri) ==
    \/ /\ map[IdentOf[ri]] = NoRI
       /\ map' = [map EXCEPT ![IdentOf[ri]] = ri]
       /\ reply' = <<"insert", ri, 1>>
    \/ /\ map[IdentOf[ri]] # NoRI
       /\ reply' = <<"insert", ri, 0>>
       /\ UNCHANGED map

MGet(k) ==
    /\ reply' = <<"get", k, map[k]>>
    /\ UNCHANGED map

MSize ==
    /\ reply' = <<"size", NoRI, Cardinality(Bindings)>>
    /\ UNCHANGED map

\* free: every binding goes.
MFree ==
    /\ map' = [k \in Ident |-> NoRI]
    /\ reply' = <<"free", NoRI, 0>>

MNext ==
    \/ \E ri \in RI : MInsert(ri)
    \/ \E k \in Ident : MGet(k)
    \/ MSize
    \/ MFree

MSpec == MInit /\ [][MNext]_mvars

=============================================================================
