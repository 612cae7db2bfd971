---------------------------- MODULE TunnelTable ----------------------------
(***************************************************************************)
(* The table of tunnels by id of mnet/tunnel_context.c.  A bucket is the   *)
(* chain behind a first node that is part of the table and holds nothing.  *)
(***************************************************************************)
EXTENDS Integers, Sequences, FiniteSets

CONSTANTS
    Buckets,    \* TC_BUCKETS
    Tids,       \* tunnel ids, 0 among them
    Tunnel,     \* tunnels
    MaxPuts     \* bound: calls of put

ASSUME TableAssumption == Buckets \in Nat \ {0} /\ Tids \subseteq Nat

VARIABLES
    nodes,      \* [bucket -> the chain behind its first node]
    ret,        \* what the last call returned
    calls,      \* calls of put
    taken,      \* [tunnel -> times put has taken it]
    freed,      \* [tunnel -> times it has been freed]
    live        \* the table has not been freed

tvars == <<nodes, ret, calls, taken, freed, live>>

Bucket == 0 .. Buckets - 1

\* mnet_garlic_tc_hashnode_hash
HashOf(tid) == tid % Buckets

\* mnet_garlic_tc_hashmap_get
Found(tid) == {i \in DOMAIN nodes[HashOf(tid)] : nodes[HashOf(tid)][i].tid = tid}
Get(tid) ==     \* the tunnel of the first of them, or nothing
    {nodes[HashOf(tid)][i].tunnel :
        i \in {k \in Found(tid) : \A j \in Found(tid) : k <= j}}

\* Mutant of HaveIt: only the first node is compared.
HaveItFirst(tid, chain) == chain # <<>> /\ tid \in {0, chain[1].tid}

\* The loop of put looks at the nodes that have one behind them: the first one,
\* whose id is 0, and all of the chain but the last.
HaveIt(tid, chain) ==
    /\ chain # <<>>
    /\ tid = 0 \/ \E i \in 1 .. Len(chain) - 1 : chain[i].tid = tid

\* Mutant of Linked: the node goes to the beginning.
LinkedFirst(chain, node) == <<node>> \o chain

Linked(chain, node) == Append(chain, node)

-----------------------------------------------------------------------------

\* mnet_garlic_tc_hashmap_init
TInit ==
    /\ nodes = [b \in Bucket |-> <<>>]
    /\ ret = 0 /\ calls = 0 /\ live = TRUE
    /\ taken = [t \in Tunnel |-> 0] /\ freed = [t \in Tunnel |-> 0]

\* mnet_garlic_tc_hashmap_put
Put(tid, t) ==
    /\ live /\ calls < MaxPuts
    /\ calls' = calls + 1
    /\ IF HaveIt(tid, nodes[HashOf(tid)])
       THEN ret' = 0 /\ UNCHANGED <<nodes, taken>>
       ELSE /\ ret' = 1
            /\ nodes' = [nodes EXCEPT ![HashOf(tid)] = Linked(@, [tid |-> tid, tunnel |-> t])]
            /\ taken' = [taken EXCEPT ![t] = @ + 1]
    /\ UNCHANGED <<freed, live>>

\* mnet_garlic_tc_hashmap_remove goes through the bucket and leaves it alone.
RemoveTid ==
    /\ live
    /\ ret' = 0
    /\ UNCHANGED <<nodes, calls, taken, freed, live>>

\* Mutant of FreedOf: the last node of a chain is taken for its end.
FreedOfAllButLast(t) ==
    {p \in Bucket \X (1 .. calls) :
        p[2] < Len(nodes[p[1]]) /\ nodes[p[1]][p[2]].tunnel = t}

\* Nodes that mnet_garlic_tc_hashnode_free frees together with the tunnel t.
FreedOf(t) ==
    {p \in Bucket \X (1 .. calls) :
        p[2] <= Len(nodes[p[1]]) /\ nodes[p[1]][p[2]].tunnel = t}

\* mnet_garlic_tc_hashmap_free
Free ==
    /\ live /\ live' = FALSE
    /\ freed' = [t \in Tunnel |-> freed[t] + Cardinality(FreedOf(t))]
    /\ nodes' = [b \in Bucket |-> <<>>]
    /\ UNCHANGED <<ret, calls, taken>>

TNext == (\E tid \in Tids, t \in Tunnel : Put(tid, t)) \/ RemoveTid \/ Free

TSpec == TInit /\ [][TNext]_tvars

-----------------------------------------------------------------------------
(* Properties. *)

\* Though put does not look at the last node, an id has two nodes at most, one
\* right behind the other.
AdjacentCopies ==
    \A b \in Bucket : \A i, j \in DOMAIN nodes[b] :
        i < j /\ nodes[b][i].tid = nodes[b][j].tid => j = i + 1

\* The tunnel that get finds under an id stays the one that was put there
\* first, whatever is put or removed afterwards.
FirstStays == [][live' => \A tid \in Tids : Get(tid) # {} => Get(tid)' = Get(tid)]_tvars

\* Freeing the table frees every tunnel as often as put has taken it, a tunnel
\* under two nodes of its id included.
FreedAsTaken == ~live => freed = taken
=============================================================================
