----------------------------- MODULE BencodeDict -----------------------------
(***************************************************************************)
(* The dict of mnet/bencode.c: a chain of nodes behind a head that holds   *)
(* no key, kept in the order of the keys by bencode_obj_dict_set, walked   *)
(* by bencode_obj_iter_dict and by bencode_obj_free.  A step here is one   *)
(* turn of a loop, so that what the pointers do shows.                     *)
(***************************************************************************)
EXTENDS Integers, FiniteSets

CONSTANTS
    Key,        \* the keys, as their ranks in strcmp's order
    MaxNodes    \* bound: calls of dict_set on one dict

ASSUME KeyAssumption == Key \subseteq Nat
ASSUME MaxNodesAssumption == MaxNodes \in Nat

NULL == -1
HEAD == 0

VARIABLES
    phase,      \* idle, in one of the loops, returned to no one or crashed
    count,      \* nodes allocated behind the head, named 1 .. count
    next,       \* node -> node, or NULL
    key,        \* node -> key
    arg,        \* k of the dict_set under way
    curr, nxt,  \* its two pointers
    node,       \* the node an iteration or a free has reached
    got,        \* nodes the iteration has handed out
    freed       \* nodes whose key.data has been freed

vars == <<phase, count, next, key, arg, curr, nxt, node, got, freed>>

Nodes == 1 .. count

Init ==
    /\ phase = "idle" /\ count = 0
    /\ next = [n \in {HEAD} |-> NULL]
    /\ key = [n \in {} |-> 0]
    /\ arg = 0 /\ curr = NULL /\ nxt = NULL /\ node = NULL
    /\ got = {} /\ freed = {}

-----------------------------------------------------------------------------
(* bencode_obj_dict_set *)

DictSet(k) ==
    /\ phase = "idle" /\ count < MaxNodes
    /\ phase' = "seek" /\ arg' = k
    /\ curr' = HEAD /\ nxt' = next[HEAD]
    /\ UNCHANGED <<count, next, key, node, got, freed>>

Before(n) == IF n = NULL THEN TRUE ELSE key[n] > arg

\* Mutant of Seek: curr = curr->next is missing.
SeekStays ==
    /\ phase = "seek" /\ ~Before(nxt)
    /\ nxt' = next[curr]
    /\ UNCHANGED <<phase, count, next, key, arg, curr, node, got, freed>>

\* Both pointers are given curr->next: from here on they are the same.
Seek ==
    /\ phase = "seek" /\ ~Before(nxt)
    /\ nxt' = next[curr] /\ curr' = next[curr]
    /\ UNCHANGED <<phase, count, next, key, arg, node, got, freed>>

New == count + 1

\* Mutant of Link: the new node ends the chain.
LinkAsLast ==
    /\ phase = "seek" /\ Before(nxt) /\ curr # NULL
    /\ count' = New
    /\ key' = [n \in 1 .. New |-> IF n = New THEN arg ELSE key[n]]
    /\ next' = [n \in 0 .. New |->
                  CASE n = curr -> New [] n = New -> NULL [] OTHER -> next[n]]
    /\ phase' = "idle" /\ curr' = NULL /\ nxt' = NULL
    /\ UNCHANGED <<arg, node, got, freed>>

\* The new node goes between the two pointers.
Link ==
    /\ phase = "seek" /\ Before(nxt) /\ curr # NULL
    /\ count' = New
    /\ key' = [n \in 1 .. New |-> IF n = New THEN arg ELSE key[n]]
    /\ next' = [n \in 0 .. New |->
                  CASE n = curr -> New [] n = New -> nxt [] OTHER -> next[n]]
    /\ phase' = "idle" /\ curr' = NULL /\ nxt' = NULL
    /\ UNCHANGED <<arg, node, got, freed>>

\* curr->next = node through a NULL.
LinkNull ==
    /\ phase = "seek" /\ nxt = NULL /\ curr = NULL
    /\ phase' = "crashed"
    /\ UNCHANGED <<count, next, key, arg, curr, nxt, node, got, freed>>

-----------------------------------------------------------------------------
(* bencode_obj_iter_dict and the loop over a dict in bencode_obj_free *)

IterDict ==
    /\ phase = "idle"
    /\ phase' = "iter" /\ node' = HEAD /\ got' = {}
    /\ UNCHANGED <<count, next, key, arg, curr, nxt, freed>>

\* The head has no key and is passed over.
IterStep ==
    /\ phase = "iter" /\ node # NULL
    /\ got' = got \cup ({node} \ {HEAD})
    /\ node' = next[node]
    /\ UNCHANGED <<phase, count, next, key, arg, curr, nxt, freed>>

IterReturns ==
    /\ phase = "iter" /\ node = NULL
    /\ phase' = "idle"
    /\ UNCHANGED <<count, next, key, arg, curr, nxt, node, got, freed>>

ObjFree ==
    /\ phase = "idle"
    /\ phase' = "free" /\ node' = HEAD
    /\ UNCHANGED <<count, next, key, arg, curr, nxt, got, freed>>

\* Key and value go, the node itself is never freed; a key freed twice ends
\* the process.
FreeStep ==
    /\ phase = "free" /\ node # NULL
    /\ IF node \in freed
       THEN phase' = "crashed" /\ UNCHANGED <<freed, node>>
       ELSE /\ freed' = freed \cup ({node} \ {HEAD})
            /\ node' = next[node] /\ UNCHANGED phase
    /\ UNCHANGED <<count, next, key, arg, curr, nxt, got>>

\* Mutant of FreeReturns: the chain stays in the caller's dict.
FreeReturnsDangling ==
    /\ phase = "free" /\ node = NULL
    /\ phase' = "idle"
    /\ UNCHANGED <<count, next, key, arg, curr, nxt, node, got, freed>>

\* *o is cleared; the caller goes on with a dict of its own.
FreeReturns ==
    /\ phase = "free" /\ node = NULL
    /\ phase' = "idle" /\ count' = 0
    /\ next' = [n \in {HEAD} |-> NULL] /\ key' = [n \in {} |-> 0]
    /\ got' = {} /\ freed' = {} /\ arg' = 0
    /\ UNCHANGED <<curr, nxt, node>>

Step ==
    \/ Seek \/ Link \/ LinkNull
    \/ IterStep \/ IterReturns
    \/ FreeStep \/ FreeReturns

Next ==
    \/ \E k \in Key : DictSet(k)
    \/ IterDict
    \/ ObjFree
    \/ Step

Spec == Init /\ [][Next]_vars

\* A call that has begun goes on until it returns.
FairSpec == Spec /\ WF_vars(Step)

-----------------------------------------------------------------------------
(* Properties. *)

\* The nodes a walk from the head comes to.
Linked ==
    {n \in 0 .. count :
        \A S \in SUBSET (0 .. count) :
            HEAD \in S /\ (\A s \in S : next[s] = NULL \/ next[s] \in S) => n \in S}

Circular == \A n \in Linked : next[n] # NULL

\* A dict that ends has every key that was set, once, in ascending order.
SortedOrCircular ==
    phase # "crashed" /\ ~Circular =>
        /\ Linked = 0 .. count
        /\ \A n \in Nodes : next[n] # NULL => key[n] < key[next[n]]

\* A set crashes for a key not below any that the dict has, and for no other:
\* the descending order in which mnet_identity_keys_write sets its two is safe.
CrashForLargest ==
    phase = "crashed" /\ ~Circular => count > 0 /\ \A n \in Nodes : key[n] <= arg

\* A call on a dict whose chain is no circle comes to its end, a crash
\* included: nothing but Link can close the circle, and it ends its call.
CallsEnd ==
    phase \in {"seek", "iter", "free"} /\ ~Circular ~> phase \in {"idle", "crashed"}
=============================================================================
