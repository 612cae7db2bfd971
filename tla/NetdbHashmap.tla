---------------------------- MODULE NetdbHashmap ----------------------------
(***************************************************************************)
(* mnet/netdb_hashmap.c: the chained hash table that holds the network     *)
(* database in memory.  One state variable per field of the C structure,   *)
(* plus the local variables of netdb_hashmap_for_each: its callback may    *)
(* call back into the map, so an iteration is not atomic.                  *)
(***************************************************************************)
EXTENDS Integers, Sequences, FiniteSets

CONSTANTS
    Ident,      \* ident hashes
    RI,         \* router_info objects a caller may own
    NoRI,       \* NULL
    IdentOf,    \* router_info_hash of each router info
    Buckets,    \* BUCKETS, 128 in the code
    SlotOf      \* map->hash: the first word of an ident hash % BUCKETS

Slot == 0 .. Buckets - 1

ASSUME BucketsAssumption == Buckets \in Nat \ {0}
ASSUME SlotOfAssumption  == SlotOf \in [Ident -> Slot]
ASSUME IdentOfAssumption == IdentOf \in [RI -> Ident]
ASSUME NoRIAssumption    == NoRI \notin RI
ASSUME IdentAssumption   == IsFiniteSet(Ident)

VARIABLES
    pc,         \* "null": no map; "idle"; inside for_each: "scan", "callback"
    table,      \* the chain behind the anchor node of each bucket
    sz,         \* map->sz
    mem,        \* each router info: "live", "freed", or freed "twice"
    idx, pos,   \* for_each: the bucket, and how many of its nodes were passed
    seen,       \* for_each: the idents handed to the callback, in order
    atStart,    \* the idents bound when for_each was called (history)
    reply       \* the last call that returned: <<operation, argument, result>>

iter == <<idx, pos, seen, atStart>>
vars == <<pc, table, sz, mem, idx, pos, seen, atStart, reply>>

Node == [h : Ident, ri : RI]

-----------------------------------------------------------------------------
(* Walking a chain. *)

\* map->cmp
Matches(node, k) == node.h = k

Chain(k) == table[SlotOf[k]]

\* The places of a chain where a walk for ident k stops.
Hits(k) == {j \in DOMAIN Chain(k) : Matches(Chain(k)[j], k)}

\* The walk takes the first of them.
FirstHit(k) == CHOOSE j \in Hits(k) : \A i \in Hits(k) : j <= i

\* What netdb_hashmap_get stores in *ri.
Lookup(k) == IF Hits(k) = {} THEN NoRI ELSE Chain(k)[FirstHit(k)].ri

\* The idents a lookup finds.
Bound == {k \in Ident : Hits(k) # {}}

\* Every node that is linked into some chain.
Linked == UNION {{s} \X DOMAIN table[s] : s \in Slot}

\* router_info_free on a router info whose memory is in state m.
Released(m) == IF m = "live" THEN "freed" ELSE "twice"

EmptyTable == [s \in Slot |-> <<>>]

-----------------------------------------------------------------------------
(* The operations. *)

Init ==
    /\ pc = "null"
    /\ table = EmptyTable
    /\ sz = 0
    /\ mem = [ri \in RI |-> "live"]
    /\ idx = 0 /\ pos = 0 /\ seen = <<>> /\ atStart = {}
    /\ reply = <<"none", NoRI, 0>>

\* netdb_hashmap_init: zeroed memory, so every anchor's next is NULL.
InitMap ==
    /\ pc = "null"
    /\ pc' = "idle"
    /\ table' = EmptyTable
    /\ sz' = 0
    /\ UNCHANGED <<mem, iter, reply>>

\* A call may come from the owner of the map or from a for_each callback.
CanCall == pc \in {"idle", "callback"}

\* Mutant of Link: the new node becomes the head of the chain.
LinkFirst(chain, node) == <<node>> \o chain

\* A new node goes to the end of its chain.
Link(chain, node) == Append(chain, node)

InsertNew(ri) ==
    /\ CanCall
    /\ mem[ri] = "live"
    /\ Hits(IdentOf[ri]) = {}
    /\ table' = [table EXCEPT ![SlotOf[IdentOf[ri]]] =
                    Link(@, [h |-> IdentOf[ri], ri |-> ri])]
    /\ sz' = sz + 1
    /\ reply' = <<"insert", ri, 1>>
    /\ UNCHANGED <<pc, mem, iter>>

\* Mutant of InsertDuplicate: the refused router info is freed, which is
\* wrong when it is the very object the map holds.
InsertDuplicateFreed(ri) ==
    /\ CanCall /\ mem[ri] = "live" /\ Hits(IdentOf[ri]) # {}
    /\ mem' = [mem EXCEPT ![ri] = Released(@)]
    /\ reply' = <<"insert", ri, 0>>
    /\ UNCHANGED <<pc, table, sz, iter>>

InsertDuplicate(ri) ==
    /\ CanCall
    /\ mem[ri] = "live"
    /\ Hits(IdentOf[ri]) # {}
    /\ reply' = <<"insert", ri, 0>>
    /\ UNCHANGED <<pc, table, sz, mem, iter>>

\* Mutant of Get: the head of the bucket is returned without comparing.
GetBucketHead(k) ==
    /\ CanCall
    /\ reply' = <<"get", k, IF Chain(k) = <<>> THEN NoRI ELSE Chain(k)[1].ri>>
    /\ UNCHANGED <<pc, table, sz, mem, iter>>

Get(k) ==
    /\ CanCall
    /\ reply' = <<"get", k, Lookup(k)>>
    /\ UNCHANGED <<pc, table, sz, mem, iter>>

Size ==
    /\ CanCall
    /\ reply' = <<"size", NoRI, sz>>
    /\ UNCHANGED <<pc, table, sz, mem, iter>>

\* The linked nodes that hold the router info ri.
NodesOf(ri) == {n \in Linked : table[n[1]][n[2]].ri = ri}

\* netdb_hashmap_free: each chain is freed node by node, each node's router
\* info with it; the map pointer becomes NULL.
Free ==
    /\ pc = "idle"
    /\ pc' = "null"
    /\ mem' = [ri \in RI |->
                  IF NodesOf(ri) = {} THEN mem[ri]
                  ELSE IF \E n \in Linked : NodesOf(ri) = {n}
                       THEN Released(mem[ri])
                       ELSE "twice"]
    /\ table' = EmptyTable
    /\ sz' = 0
    /\ reply' = <<"free", NoRI, 0>>
    /\ UNCHANGED iter

(* netdb_hashmap_for_each.  The loop is "idx = BUCKETS; while(--idx)": it
   leaves bucket 0 out.  Only the callback gives control away. *)

\* Mutant of FirstIdx: one decrement too many.
FirstIdxTwice == IF Buckets > 1 THEN Buckets - 2 ELSE 0

\* The bucket "--idx" makes the first one.
FirstIdx == Buckets - 1

ForEach ==
    /\ pc = "idle"
    /\ pc' = "scan"
    /\ idx' = FirstIdx
    /\ pos' = 0
    /\ seen' = <<>>
    /\ atStart' = Bound
    /\ UNCHANGED <<table, sz, mem, reply>>

CallCallback ==
    /\ pc = "scan" /\ idx # 0
    /\ pos < Len(table[idx])
    /\ pc' = "callback"
    /\ seen' = Append(seen, table[idx][pos + 1].h)
    /\ UNCHANGED <<table, sz, mem, idx, pos, atStart, reply>>

\* The next link is read only when the callback has returned.
CallbackReturns ==
    /\ pc = "callback"
    /\ pc' = "scan"
    /\ pos' = pos + 1
    /\ UNCHANGED <<table, sz, mem, idx, seen, atStart, reply>>

\* Mutant of NextBucket: an empty bucket skips the decrement.
NextBucketEmptyStays ==
    /\ pc = "scan" /\ idx # 0
    /\ pos = Len(table[idx])
    /\ idx' = IF table[idx] = <<>> THEN idx ELSE idx - 1
    /\ pos' = 0
    /\ UNCHANGED <<pc, table, sz, mem, seen, atStart, reply>>

NextBucket ==
    /\ pc = "scan" /\ idx # 0
    /\ pos = Len(table[idx])
    /\ idx' = idx - 1
    /\ pos' = 0
    /\ UNCHANGED <<pc, table, sz, mem, seen, atStart, reply>>

ForEachReturns ==
    /\ pc = "scan" /\ idx = 0
    /\ pc' = "idle"
    /\ UNCHANGED <<table, sz, mem, iter, reply>>

Iterate == CallCallback \/ CallbackReturns \/ NextBucket \/ ForEachReturns

(* netdb_hashmap_remove, which netdb_hashmap.h exports and nothing in the
   daemon calls.  Its "node" is the address of the link that leads to the
   match: once the link skips the match, "*node" is the match's
   successor, and that is the node it frees.  The first node of a chain has
   no prev: it is freed and stays linked.  What the map does after that is
   undefined, so the model takes no further Remove. *)

RemoveFrom(chain, j) ==
    IF j = 1 THEN chain
    ELSE [i \in 1 .. Len(chain) - 1 |-> chain[IF i < j THEN i ELSE i + 1]]

\* The node netdb_hash_node_free gets: none when the match was the last.
FreedByRemove(chain, j) ==
    LET victim == IF j = 1 THEN 1 ELSE j + 1
    IN  {chain[i].ri : i \in {victim} \cap DOMAIN chain}

Remove(k) ==
    /\ pc = "idle"
    /\ \A s \in Slot : \A i \in DOMAIN table[s] : mem[table[s][i].ri] = "live"
    /\ Hits(k) # {}
    /\ table' = [table EXCEPT ![SlotOf[k]] = RemoveFrom(@, FirstHit(k))]
    /\ sz' = sz - 1
    /\ mem' = [ri \in RI |-> IF ri \in FreedByRemove(Chain(k), FirstHit(k))
                             THEN Released(mem[ri]) ELSE mem[ri]]
    /\ reply' = <<"remove", k, 1>>
    /\ UNCHANGED <<pc, iter>>

RemoveAbsent(k) ==
    /\ pc = "idle"
    /\ Hits(k) = {}
    /\ reply' = <<"remove", k, 0>>
    /\ UNCHANGED <<pc, table, sz, mem, iter>>

-----------------------------------------------------------------------------
Next ==
    \/ InitMap
    \/ \E ri \in RI : InsertNew(ri) \/ InsertDuplicate(ri)
    \/ \E k \in Ident : Get(k)
    \/ Size
    \/ Free
    \/ ForEach
    \/ Iterate

Spec == Init /\ [][Next]_vars

\* for_each is a loop on the daemon's only thread, and the callback of the
\* daemon returns: an iteration under way takes its next step.
FairSpec == Spec /\ WF_vars(Iterate)

\* The whole exported interface.
ApiNext == Next \/ \E k \in Ident : Remove(k) \/ RemoveAbsent(k)

ApiSpec == Init /\ [][ApiNext]_vars

-----------------------------------------------------------------------------
(* Properties. *)

\* Every variable has its type.
TypeOK ==
    /\ pc \in {"null", "idle", "scan", "callback"}
    /\ table \in [Slot -> Seq(Node)]
    /\ sz \in Nat
    /\ mem \in [RI -> {"live", "freed", "twice"}]
    /\ idx \in Slot
    /\ pos \in Nat
    /\ seen \in Seq(Ident)
    /\ atStart \in SUBSET Ident

\* A node holds the hash of its router info and sits in the bucket a lookup
\* of that hash walks, and no two nodes share a hash: what makes the first
\* hit of netdb_hashmap_get the only one.
OneNodePerIdent ==
    /\ \A s \in Slot : \A i \in DOMAIN table[s] :
           /\ table[s][i].h = IdentOf[table[s][i].ri]
           /\ SlotOf[table[s][i].h] = s
    /\ \A s, t \in Slot : \A i \in DOMAIN table[s], j \in DOMAIN table[t] :
           table[s][i].h = table[t][j].h => s = t /\ i = j

\* netdb_hashmap_size, which the peer-count check of the router tick reads,
\* is the number of idents a lookup finds, also between two callbacks.
SizeExact == sz = Cardinality(Bound)

\* What the map frees, it frees once, and it keeps no freed router info in a
\* chain (netdb_hash_node_free frees the router info with its node).
NoDanglingRI ==
    /\ \A ri \in RI : mem[ri] # "twice"
    /\ \A s \in Slot : \A i \in DOMAIN table[s] : mem[table[s][i].ri] = "live"

\* One for_each hands no ident out twice, however the callback grows the
\* chain under the iteration.
NoIdentTwice == \A i, j \in DOMAIN seen : seen[i] = seen[j] => i = j

\* When for_each is through, every ident bound when it began was handed out,
\* bucket 0 excepted.
ResidentsVisited ==
    pc = "scan" /\ idx = 0 =>
        \A k \in atStart : SlotOf[k] # 0 => \E i \in DOMAIN seen : seen[i] = k

\* netdb_hashmap.h: "iterate over every item in hashmap".
EveryItemVisited ==
    pc = "scan" /\ idx = 0 => \A k \in atStart : \E i \in DOMAIN seen : seen[i] = k

\* netdb_hashmap.h: "remove rotuer info by ident hash, returns 1 if removed".
RemovedIsGone == \A k \in Bound : reply # <<"remove", k, 1>>

\* The router info first bound to an ident hash is the one every later lookup
\* returns until the map is freed: an insert never replaces or hides it.
FirstInsertWins ==
    [][\A k \in Bound : pc' # "null" => k \in Bound' /\ Lookup(k)' = Lookup(k)]_vars

\* for_each comes to its end, also with callbacks that insert (each router
\* info can be inserted once, so a callback cannot grow a chain for ever).
ForEachEnds == pc \in {"scan", "callback"} ~> pc = "idle"

\* The table implements the put-if-absent map of netdb_hashmap.h.
Abstract == INSTANCE NetdbMap WITH map <- [k \in Ident |-> Lookup(k)]
ImplementsMap == Abstract!MSpec

=============================================================================
