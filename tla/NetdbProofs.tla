----------------------------- MODULE NetdbProofs -----------------------------
(***************************************************************************)
(* Theorems about the network database: its hash table, for every set of   *)
(* idents and router infos and every number of buckets, and the database   *)
(* over it, for every tree, every set of files and every kill of the       *)
(* process.  The table rests on one fact about insertion                   *)
(* (InsertionAppends): a new node is appended to one chain, all that was   *)
(* linked stays where it was.  It keeps its invariant in the database,     *)
(* since every step is one of the table's own or makes a new process; what *)
(* is on the way from the disk to the table is described by the files that *)
(* load_all is done with.                                                  *)
(***************************************************************************)
EXTENDS Netdb, TLAPS, FiniteSetTheorems, SequenceTheorems

USE SlotOfAssumption, IdentOfAssumption, BucketsAssumption

\* An anchor without a chain is a chain of the right type.
LEMMA EmptyTableType == EmptyTable \in [Slot -> Seq(Node)]
BY EmptySeq DEF EmptyTable

\* Every index of a chain is an index up to its length, its node a node.
LEMMA ChainType ==
    ASSUME table \in [Slot -> Seq(Node)], NEW s \in Slot
    PROVE  /\ table[s] \in Seq(Node)
           /\ Len(table[s]) \in Nat
           /\ DOMAIN table[s] = 1 .. Len(table[s])
           /\ \A i \in DOMAIN table[s] : /\ table[s][i] \in Node
                                         /\ table[s][i].h \in Ident
                                         /\ table[s][i].ri \in RI
<1>1. table[s] \in Seq(Node)
  OBVIOUS
<1>2. Len(table[s]) \in Nat /\ DOMAIN table[s] = 1 .. Len(table[s])
  BY <1>1, LenProperties
<1>3. \A i \in DOMAIN table[s] : table[s][i] \in Node
  BY <1>1, <1>2, ElementOfSeq
<1> QED
  BY <1>1, <1>2, <1>3 DEF Node

\* Insertion of a new ident (netdb_hashmap_insert): one node is added at the
\* end of one chain.
LEMMA InsertionAppends ==
    ASSUME table \in [Slot -> Seq(Node)], NEW ri \in RI, InsertNew(ri)
    PROVE  LET k == IdentOf[ri]
               s == SlotOf[k]
           IN  /\ k \in Ident /\ s \in Slot
               /\ table' \in [Slot -> Seq(Node)]
               /\ \A t \in Slot : t # s => table'[t] = table[t]
               /\ DOMAIN table'[s] = DOMAIN table[s] \cup {Len(table[s]) + 1}
               /\ \A i \in DOMAIN table[s] : table'[s][i] = table[s][i]
               /\ Len(table[s]) + 1 \notin DOMAIN table[s]
               /\ table'[s][Len(table[s]) + 1].h = k
               /\ table'[s][Len(table[s]) + 1].ri = ri
<1> DEFINE k == IdentOf[ri]
           s == SlotOf[k]
           n == [h |-> k, ri |-> ri]
<1>1. k \in Ident /\ s \in Slot /\ n \in Node
  BY DEF Node
<1>2. table[s] \in Seq(Node) /\ Len(table[s]) \in Nat
      /\ DOMAIN table[s] = 1 .. Len(table[s])
  BY <1>1, ChainType
<1>3. table' = [table EXCEPT ![s] = Append(table[s], n)]
  BY <1>1 DEF InsertNew, Link
<1>4. /\ Append(table[s], n) \in Seq(Node)
      /\ Len(Append(table[s], n)) = Len(table[s]) + 1
      /\ \A i \in 1 .. Len(table[s]) : Append(table[s], n)[i] = table[s][i]
      /\ Append(table[s], n)[Len(table[s]) + 1] = n
  BY <1>1, <1>2, AppendProperties
<1>5. DOMAIN Append(table[s], n) = 1 .. Len(table[s]) + 1
  BY <1>4, LenProperties
<1> HIDE DEF n
<1>6. /\ table'[s] = Append(table[s], n)
      /\ \A t \in Slot : t # s => table'[t] = table[t]
      /\ table' \in [Slot -> Seq(Node)]
  BY <1>1, <1>3, <1>4
<1>7. 1 .. Len(table[s]) + 1 = 1 .. Len(table[s]) \cup {Len(table[s]) + 1}
      /\ Len(table[s]) + 1 \notin 1 .. Len(table[s])
  BY <1>2
<1>8. /\ DOMAIN table'[s] = DOMAIN table[s] \cup {Len(table[s]) + 1}
      /\ Len(table[s]) + 1 \notin DOMAIN table[s]
  BY <1>2, <1>5, <1>6, <1>7
<1>9. \A i \in DOMAIN table[s] : table'[s][i] = table[s][i]
  BY <1>2, <1>4, <1>6
<1>10. table'[s][Len(table[s]) + 1] = n
  BY <1>4, <1>6
<1>11. n.h = k /\ n.ri = ri
  BY DEF n
<1> QED
  BY <1>1, <1>6, <1>8, <1>9, <1>10, <1>11

-----------------------------------------------------------------------------
(* Type correctness. *)

\* Every step of the hash table keeps the types.
LEMMA TypeOKStep == TypeOK /\ [Next]_vars => TypeOK'
<1> SUFFICES ASSUME TypeOK, [Next]_vars
             PROVE  TypeOK'
  OBVIOUS
<1> USE DEF TypeOK, iter
<1>1. CASE InitMap
  BY <1>1, EmptyTableType DEF InitMap
<1>2. ASSUME NEW ri \in RI, InsertNew(ri)
      PROVE  TypeOK'
  <2>1. table' \in [Slot -> Seq(Node)]
    BY <1>2, InsertionAppends
  <2> QED
    BY <1>2, <2>1 DEF InsertNew
<1>3. ASSUME NEW ri \in RI, InsertDuplicate(ri)
      PROVE  TypeOK'
  BY <1>3 DEF InsertDuplicate
<1>4. ASSUME NEW k \in Ident, Get(k)
      PROVE  TypeOK'
  BY <1>4 DEF Get
<1>5. CASE Size
  BY <1>5 DEF Size
<1>6. CASE Free
  BY <1>6, EmptyTableType DEF Free, Released
<1>7. CASE ForEach
  <2>1. Bound \in SUBSET Ident /\ FirstIdx \in Slot
    BY DEF Bound, FirstIdx, Slot
  <2>2. <<>> \in Seq(Ident)
    BY EmptySeq
  <2> QED
    BY <1>7, <2>1, <2>2 DEF ForEach
<1>8. CASE CallCallback
  <2>1. table[idx][pos + 1].h \in Ident
    <3>1. pos + 1 \in DOMAIN table[idx]
      BY <1>8, ChainType DEF CallCallback
    <3> QED
      BY <3>1, ChainType
  <2>2. Append(seen, table[idx][pos + 1].h) \in Seq(Ident)
    BY <2>1, AppendProperties
  <2> QED
    BY <1>8, <2>2 DEF CallCallback
<1>9. CASE CallbackReturns
  BY <1>9 DEF CallbackReturns
<1>10. CASE NextBucket
  BY <1>10 DEF NextBucket, Slot
<1>11. CASE ForEachReturns
  BY <1>11 DEF ForEachReturns
<1>12. CASE UNCHANGED vars
  BY <1>12 DEF vars
<1> QED
  BY <1>1, <1>2, <1>3, <1>4, <1>5, <1>6, <1>7, <1>8, <1>9, <1>10, <1>11,
     <1>12 DEF Next, Iterate

\* Every variable of the hash table keeps its type.
THEOREM TypeCorrect == Spec => []TypeOK
<1>1. Init => TypeOK
  <2>1. 0 \in Slot
    BY DEF Slot
  <2>2. <<>> \in Seq(Ident)
    BY EmptySeq
  <2> QED
    BY <2>1, <2>2, EmptyTableType DEF Init, TypeOK
<1> QED
  BY <1>1, TypeOKStep, PTL DEF Spec

-----------------------------------------------------------------------------
(* The inductive invariant. *)

\* Without a map nothing is linked and nothing is counted.
EmptyWhenNull == pc = "null" => table = EmptyTable /\ sz = 0

\* What holds of the table itself, at every step of every iteration.
TableInv == TypeOK /\ OneNodePerIdent /\ SizeExact /\ NoDanglingRI /\ EmptyWhenNull

\* How many nodes of the current bucket for_each has handed out.
Reach == IF pc = "callback" THEN pos + 1 ELSE pos

\* The node in place j of bucket s is behind the iteration.
Behind(s, j) == s > idx \/ (s = idx /\ j <= Reach)

\* What is behind the iteration was handed out if it was there from the
\* start, and what was handed out is behind the iteration.
IterInv ==
    pc \in {"scan", "callback"} =>
        /\ atStart \subseteq Bound
        /\ Reach <= Len(table[idx])
        /\ pc = "callback" => idx # 0
        /\ \A i \in DOMAIN seen :
               \E s \in Slot : \E j \in DOMAIN table[s] :
                   Behind(s, j) /\ table[s][j].h = seen[i]
        /\ \A s \in Slot \ {0} : \A j \in DOMAIN table[s] :
               Behind(s, j) /\ table[s][j].h \in atStart =>
                   \E i \in DOMAIN seen : seen[i] = table[s][j].h

Inv == TableInv /\ NoIdentTwice /\ IterInv

\* The idents bound after an insertion: the new one, which was not bound, and
\* all the others.
LEMMA InsertionBinds ==
    ASSUME TypeOK, NEW ri \in RI, InsertNew(ri)
    PROVE  /\ IdentOf[ri] \notin Bound
           /\ Bound' = Bound \cup {IdentOf[ri]}
<1> DEFINE k == IdentOf[ri]
           s == SlotOf[k]
<1>1. /\ k \in Ident /\ s \in Slot
      /\ \A t \in Slot : t # s => table'[t] = table[t]
      /\ DOMAIN table'[s] = DOMAIN table[s] \cup {Len(table[s]) + 1}
      /\ \A i \in DOMAIN table[s] : table'[s][i] = table[s][i]
      /\ Len(table[s]) + 1 \notin DOMAIN table[s]
      /\ table'[s][Len(table[s]) + 1].h = k
  BY InsertionAppends DEF TypeOK
<1>2. k \notin Bound
  BY DEF InsertNew, Bound
<1>3. ASSUME NEW l \in Ident
      PROVE  l \in Bound' <=> l \in Bound \/ l = k
  <2>1. SlotOf[l] \in Slot
    OBVIOUS
  <2>2. CASE SlotOf[l] # s
    BY <1>1, <2>1, <2>2 DEF Bound, Hits, Chain, Matches
  <2>3. CASE SlotOf[l] = s
    BY <1>1, <2>1, <2>3 DEF Bound, Hits, Chain, Matches
  <2> QED
    BY <2>2, <2>3
<1>4. Bound \subseteq Ident /\ Bound' \subseteq Ident
  BY DEF Bound
<1> QED
  BY <1>1, <1>2, <1>3, <1>4

\* With no chain, no ident is bound.
LEMMA NothingBound == table = EmptyTable => Bound = {}
BY DEF EmptyTable, Bound, Hits, Chain

\* The table invariant is inductive.
LEMMA TableInvStep == TableInv /\ TypeOK' /\ [Next]_vars => TableInv'
<1> SUFFICES ASSUME TableInv, TypeOK', [Next]_vars
             PROVE  TableInv'
  OBVIOUS
<1> USE DEF TableInv
<1> DEFINE SameTable == UNCHANGED <<table, sz, mem>> /\ (pc' = "null" => pc = "null")
<1>1. ASSUME SameTable
      PROVE  TableInv'
  <2>1. Bound' = Bound
    BY <1>1 DEF Bound, Hits, Chain, Matches
  <2> QED
    BY <1>1, <2>1 DEF OneNodePerIdent, SizeExact, NoDanglingRI, EmptyWhenNull
<1>2. ASSUME table' = EmptyTable, sz' = 0, \A ri \in RI : mem'[ri] # "twice"
      PROVE  TableInv'
  <2>1. \A s \in Slot : DOMAIN table'[s] = {}
    BY <1>2 DEF EmptyTable
  <2>2. OneNodePerIdent' /\ NoDanglingRI'
    BY <1>2, <2>1 DEF OneNodePerIdent, NoDanglingRI
  <2>3. Bound' = {}
    BY <1>2 DEF EmptyTable, Bound, Hits, Chain
  <2>4. SizeExact'
    BY <1>2, <2>3, FS_EmptySet DEF SizeExact
  <2> QED
    BY <1>2, <2>2, <2>4 DEF EmptyWhenNull
<1>3. CASE InitMap
  BY <1>2, <1>3 DEF InitMap, NoDanglingRI
<1>4. ASSUME NEW ri \in RI, InsertNew(ri)
      PROVE  TableInv'
  <2> DEFINE k == IdentOf[ri]
             s == SlotOf[k]
             e == Len(table[s]) + 1
  <2>1. /\ k \in Ident /\ s \in Slot
        /\ \A t \in Slot : t # s => table'[t] = table[t]
        /\ DOMAIN table'[s] = DOMAIN table[s] \cup {e}
        /\ \A i \in DOMAIN table[s] : table'[s][i] = table[s][i]
        /\ e \notin DOMAIN table[s]
        /\ table'[s][e].h = k /\ table'[s][e].ri = ri
    <3>1. table \in [Slot -> Seq(Node)]
      BY DEF TypeOK
    <3> QED
      BY <1>4, <3>1, InsertionAppends
  <2>2. \A i \in DOMAIN table[s] : table[s][i].h # k
    BY <1>4, <2>1 DEF InsertNew, Hits, Chain, Matches
  <2> HIDE DEF e, s, k
  <2>3. \A t \in Slot : \A i \in DOMAIN table'[t] :
            \/ /\ i \in DOMAIN table[t] /\ table'[t][i] = table[t][i]
               /\ table'[t][i].h # k
            \/ t = s /\ i = e
    <3>1. \A t \in Slot : t # s =>
              \A i \in DOMAIN table[t] : table[t][i].h # k
      BY DEF OneNodePerIdent, s
    <3> QED
      BY <2>1, <2>2, <3>1
  <2>4. OneNodePerIdent'
    <3>1. table'[s][e].h = IdentOf[table'[s][e].ri] /\ SlotOf[table'[s][e].h] = s
      BY <2>1 DEF k, s
    <3>2. ASSUME NEW t \in Slot, NEW i \in DOMAIN table'[t]
          PROVE  /\ table'[t][i].h = IdentOf[table'[t][i].ri]
                 /\ SlotOf[table'[t][i].h] = t
      BY <2>3, <3>1 DEF OneNodePerIdent
    <3>3. ASSUME NEW t \in Slot, NEW u \in Slot,
                 NEW i \in DOMAIN table'[t], NEW j \in DOMAIN table'[u],
                 table'[t][i].h = table'[u][j].h
          PROVE  t = u /\ i = j
      BY <2>1, <2>3, <3>3 DEF OneNodePerIdent
    <3> QED
      BY <3>2, <3>3 DEF OneNodePerIdent
  <2>5. NoDanglingRI'
    BY <1>4, <2>1, <2>3 DEF NoDanglingRI, InsertNew
  <2>6. SizeExact'
    <3>1. IsFiniteSet(Bound)
      BY IdentAssumption, FS_Subset DEF Bound
    <3>2. Bound' = Bound \cup {k} /\ k \notin Bound
      BY <1>4, InsertionBinds DEF k
    <3>3. Cardinality(Bound') = Cardinality(Bound) + 1
      BY <3>1, <3>2, FS_AddElement
    <3> QED
      BY <1>4, <3>3 DEF SizeExact, InsertNew
  <2> QED
    BY <1>4, <2>4, <2>5, <2>6 DEF EmptyWhenNull, InsertNew, CanCall
<1>5. ASSUME NEW ri \in RI, InsertDuplicate(ri)
      PROVE  TableInv'
  BY <1>1, <1>5 DEF InsertDuplicate
<1>6. ASSUME NEW k \in Ident, Get(k)
      PROVE  TableInv'
  BY <1>1, <1>6 DEF Get
<1>7. CASE Size
  BY <1>1, <1>7 DEF Size
<1>8. CASE Free
  <2>1. ASSUME NEW ri \in RI
        PROVE  mem'[ri] # "twice"
    <3>1. CASE NodesOf(ri) = {}
      BY <1>8, <3>1 DEF Free, NoDanglingRI
    <3>2. CASE NodesOf(ri) # {}
      <4>1. PICK n \in Linked : table[n[1]][n[2]].ri = ri
        BY <3>2 DEF NodesOf
      <4>2. \A m \in Linked : m = <<m[1], m[2]>> /\ m[1] \in Slot
                              /\ m[2] \in DOMAIN table[m[1]]
        BY DEF Linked
      <4>3. \A m \in Linked : table[m[1]][m[2]].ri = ri => m = n
        BY <4>1, <4>2 DEF OneNodePerIdent
      <4>4. NodesOf(ri) = {n}
        BY <4>1, <4>3 DEF NodesOf
      <4>5. mem[ri] = "live"
        BY <4>1, <4>2 DEF NoDanglingRI
      <4> QED
        BY <1>8, <4>4, <4>5 DEF Free, Released
    <3> QED
      BY <3>1, <3>2
  <2> QED
    BY <1>2, <1>8, <2>1 DEF Free
<1>9. CASE ForEach
  BY <1>1, <1>9 DEF ForEach
<1>10. CASE Iterate
  BY <1>1, <1>10 DEF Iterate, CallCallback, CallbackReturns, NextBucket, ForEachReturns
<1>11. CASE UNCHANGED vars
  BY <1>1, <1>11 DEF vars
<1> QED
  BY <1>3, <1>4, <1>5, <1>6, <1>7, <1>8, <1>9, <1>10, <1>11 DEF Next

\* The iteration invariant is inductive, given the table invariant: a node
\* inserted by the callback is never behind the iteration in its own bucket,
\* and never one of atStart.
LEMMA IterInvStep ==
    TableInv /\ TableInv' /\ NoIdentTwice /\ IterInv /\ [Next]_vars
        => NoIdentTwice' /\ IterInv'
<1> SUFFICES ASSUME TableInv, TableInv', NoIdentTwice, IterInv, [Next]_vars
             PROVE  NoIdentTwice' /\ IterInv'
  OBVIOUS
<1>0. TypeOK /\ TypeOK' /\ OneNodePerIdent /\ pos \in Nat /\ idx \in Slot
      /\ seen \in Seq(Ident) /\ table \in [Slot -> Seq(Node)]
  BY DEF TableInv, TypeOK
<1> DEFINE InForEach == pc \in {"scan", "callback"}
<1>1. ASSUME UNCHANGED <<pc, table, iter>>
      PROVE  NoIdentTwice' /\ IterInv'
  <2>1. Bound' = Bound
    BY <1>1 DEF Bound, Hits, Chain, Matches
  <2> QED
    BY <1>1, <2>1 DEF iter, NoIdentTwice, IterInv, Behind, Reach
<1>2. ASSUME UNCHANGED iter, pc' \notin {"scan", "callback"}
      PROVE  NoIdentTwice' /\ IterInv'
  BY <1>2 DEF iter, NoIdentTwice, IterInv
<1>3. CASE InitMap
  BY <1>2, <1>3 DEF InitMap
<1>4. ASSUME NEW ri \in RI, InsertNew(ri)
      PROVE  NoIdentTwice' /\ IterInv'
  <2> DEFINE k == IdentOf[ri]
             s == SlotOf[k]
             e == Len(table[s]) + 1
  <2>1. /\ k \in Ident /\ s \in Slot
        /\ \A t \in Slot : t # s => table'[t] = table[t]
        /\ DOMAIN table'[s] = DOMAIN table[s] \cup {e}
        /\ \A i \in DOMAIN table[s] : table'[s][i] = table[s][i]
        /\ e \notin DOMAIN table[s]
        /\ table'[s][e].h = k
    BY <1>0, <1>4, InsertionAppends
  <2>2. k \notin Bound /\ Bound' = Bound \cup {k}
    BY <1>0, <1>4, InsertionBinds
  <2>3. UNCHANGED <<pc, idx, pos, seen, atStart>>
    BY <1>4 DEF InsertNew, iter
  <2>4. \A t \in Slot : Len(table[t]) \in Nat /\ Len(table'[t]) \in Nat
                        /\ DOMAIN table[t] = 1 .. Len(table[t])
                        /\ DOMAIN table'[t] = 1 .. Len(table'[t])
    BY <1>0, LenProperties DEF TypeOK
  <2>5. \A t \in Slot : /\ Len(table[t]) <= Len(table'[t])
                        /\ DOMAIN table[t] \subseteq DOMAIN table'[t]
                        /\ \A i \in DOMAIN table[t] : table'[t][i] = table[t][i]
    <3>1. \A t \in Slot : /\ DOMAIN table[t] \subseteq DOMAIN table'[t]
                          /\ \A i \in DOMAIN table[t] : table'[t][i] = table[t][i]
      BY <2>1
    <3>2. ASSUME NEW t \in Slot
          PROVE  Len(table[t]) <= Len(table'[t])
      <4>1. 1 .. Len(table[t]) \subseteq 1 .. Len(table'[t])
        BY <2>4, <3>1
      <4>2. Len(table[t]) = 0 \/ Len(table[t]) \in 1 .. Len(table[t])
        BY <2>4
      <4> QED
        BY <2>4, <4>1, <4>2
    <3> QED
      BY <3>1, <3>2
  <2> HIDE DEF e, s, k
  <2>6. ASSUME InForEach
        PROVE  IterInv'
    <3>1. atStart' \subseteq Bound'
      BY <2>2, <2>3, <2>6 DEF IterInv
    <3>2. Reach' = Reach /\ Reach \in Nat
      BY <1>0, <2>3 DEF Reach
    <3>3. Reach' <= Len(table'[idx'])
      <4>1. Reach <= Len(table[idx])
        BY <2>6 DEF IterInv
      <4> QED
        BY <1>0, <2>3, <2>4, <2>5, <3>2, <4>1
    <3>4. \A t, i : Behind(t, i)' <=> Behind(t, i)
      BY <2>3, <3>2 DEF Behind
    <3>5. \A i \in DOMAIN seen' :
              \E t \in Slot : \E j \in DOMAIN table'[t] :
                  Behind(t, j)' /\ table'[t][j].h = seen'[i]
      BY <2>3, <2>5, <2>6, <3>4 DEF IterInv
    <3>6. ASSUME NEW t \in Slot \ {0}, NEW j \in DOMAIN table'[t],
                 Behind(t, j)', table'[t][j].h \in atStart'
          PROVE  \E i \in DOMAIN seen' : seen'[i] = table'[t][j].h
      <4>1. table'[t][j].h # k
        BY <2>2, <2>3, <2>6, <3>6 DEF IterInv
      <4>2. j \in DOMAIN table[t]
        BY <2>1, <4>1
      <4> QED
        BY <2>3, <2>5, <2>6, <3>4, <3>6, <4>2 DEF IterInv
    <3> QED
      BY <2>3, <2>6, <3>1, <3>3, <3>5, <3>6 DEF IterInv
  <2> QED
    BY <2>3, <2>6 DEF NoIdentTwice, IterInv
<1>5. ASSUME NEW ri \in RI, InsertDuplicate(ri)
      PROVE  NoIdentTwice' /\ IterInv'
  BY <1>1, <1>5 DEF InsertDuplicate
<1>6. ASSUME NEW k \in Ident, Get(k)
      PROVE  NoIdentTwice' /\ IterInv'
  BY <1>1, <1>6 DEF Get
<1>7. CASE Size
  BY <1>1, <1>7 DEF Size
<1>8. CASE Free
  BY <1>2, <1>8 DEF Free
<1>9. CASE ForEach
  <2>1. Bound' = Bound
    BY <1>9 DEF ForEach, Bound, Hits, Chain, Matches
  <2>2. DOMAIN seen' = {} /\ pc' = "scan" /\ pos' = 0 /\ idx' = Buckets - 1
        /\ atStart' = Bound
    BY <1>9 DEF ForEach, FirstIdx
  <2>3. \A t \in Slot : \A j \in DOMAIN table'[t] : ~ Behind(t, j)'
    <3>1. \A t \in Slot : DOMAIN table'[t] = 1 .. Len(table'[t])
      BY <1>0, LenProperties DEF TypeOK
    <3> QED
      BY <2>2, <3>1 DEF Behind, Reach, Slot
  <2>4. Reach' <= Len(table'[idx'])
    <3>1. Len(table'[idx']) \in Nat
      BY <1>0, LenProperties DEF TypeOK
    <3> QED
      BY <2>2, <3>1 DEF Reach
  <2> QED
    BY <2>1, <2>2, <2>3, <2>4 DEF NoIdentTwice, IterInv
<1>10. CASE CallCallback
  <2> DEFINE h == table[idx][pos + 1].h
             n == Len(seen) + 1
  <2>1. pos + 1 \in DOMAIN table[idx] /\ h \in Ident
    <3>1. /\ DOMAIN table[idx] = 1 .. Len(table[idx]) /\ Len(table[idx]) \in Nat
          /\ \A i \in DOMAIN table[idx] : table[idx][i].h \in Ident
      BY <1>0, ChainType
    <3> QED
      BY <1>0, <1>10, <3>1 DEF CallCallback
  <2>2. /\ DOMAIN seen' = DOMAIN seen \cup {n}
        /\ \A i \in DOMAIN seen : seen'[i] = seen[i]
        /\ n \notin DOMAIN seen
        /\ seen'[n] = h
    <3>1. seen' = Append(seen, h)
      BY <1>10 DEF CallCallback
    <3>2. Len(seen) \in Nat /\ DOMAIN seen = 1 .. Len(seen)
      BY <1>0, LenProperties
    <3>3. /\ Len(seen') = Len(seen) + 1 /\ seen' \in Seq(Ident)
          /\ \A i \in 1 .. Len(seen) : seen'[i] = seen[i]
          /\ seen'[Len(seen) + 1] = h
      BY <1>0, <2>1, <3>1, AppendProperties
    <3>4. DOMAIN seen' = 1 .. Len(seen) + 1
      BY <3>3, LenProperties
    <3> QED
      BY <3>2, <3>3, <3>4
  <2>3. /\ pc = "scan" /\ pc' = "callback" /\ idx # 0
        /\ UNCHANGED <<table, idx, pos, atStart>>
    BY <1>10 DEF CallCallback
  <2>4. Bound' = Bound
    BY <2>3 DEF Bound, Hits, Chain, Matches
  <2>5. Reach = pos /\ Reach' = pos + 1
    BY <2>3 DEF Reach
  <2> HIDE DEF h, n
  <2>6. \A t \in Slot : \A j \in DOMAIN table[t] :
            Behind(t, j)' <=> Behind(t, j) \/ (t = idx /\ j = pos + 1)
    <3>1. \A t \in Slot : DOMAIN table[t] = 1 .. Len(table[t]) /\ Len(table[t]) \in Nat
      BY <1>0, ChainType
    <3> QED
      BY <1>0, <2>3, <2>5, <3>1 DEF Behind
  <2>7. \A i \in DOMAIN seen : seen[i] # h
    <3>1. ASSUME NEW i \in DOMAIN seen, seen[i] = h
          PROVE  FALSE
      <4>0. PICK t \in Slot : \E j \in DOMAIN table[t] :
                Behind(t, j) /\ table[t][j].h = seen[i]
        BY <2>3 DEF IterInv
      <4>1. PICK j \in DOMAIN table[t] : Behind(t, j) /\ table[t][j].h = seen[i]
        BY <4>0
      <4>2. t = idx /\ j = pos + 1
        BY <1>0, <2>1, <3>1, <4>1 DEF OneNodePerIdent, h
      <4> QED
        BY <1>0, <2>5, <4>1, <4>2 DEF Behind, Slot
    <3> QED
      BY <3>1
  <2>8. NoIdentTwice'
    BY <2>2, <2>7 DEF NoIdentTwice
  <2>9. \A i \in DOMAIN seen' :
            \E t \in Slot : \E j \in DOMAIN table'[t] :
                Behind(t, j)' /\ table'[t][j].h = seen'[i]
    <3>1. \A t \in Slot : \A j \in DOMAIN table[t] :
              t = idx /\ j = pos + 1 => Behind(t, j)' /\ table[t][j].h = seen'[n]
      BY <2>2, <2>6 DEF h
    <3>2. \A i \in DOMAIN seen :
              \E t \in Slot : \E j \in DOMAIN table[t] :
                  Behind(t, j)' /\ table[t][j].h = seen[i]
      BY <2>3, <2>6 DEF IterInv
    <3> SUFFICES ASSUME NEW i \in DOMAIN seen'
                 PROVE  \E t \in Slot : \E j \in DOMAIN table[t] :
                            Behind(t, j)' /\ table[t][j].h = seen'[i]
      BY <2>3
    <3>3. CASE i = n
      <4>1. idx \in Slot
        BY <1>0
      <4>2. pos + 1 \in DOMAIN table[idx]
        BY <2>1
      <4> QED
        BY <3>1, <3>3, <4>1, <4>2
    <3>4. CASE i \in DOMAIN seen
      BY <2>2, <3>2, <3>4
    <3> QED
      BY <2>2, <3>3, <3>4
  <2>10. \A t \in Slot \ {0} : \A j \in DOMAIN table'[t] :
             Behind(t, j)' /\ table'[t][j].h \in atStart' =>
                 \E i \in DOMAIN seen' : seen'[i] = table'[t][j].h
    BY <2>2, <2>3, <2>6 DEF IterInv, h
  <2>11. Reach' <= Len(table'[idx'])
    <3>1. DOMAIN table[idx] = 1 .. Len(table[idx]) /\ Len(table[idx]) \in Nat
      BY <1>0, ChainType
    <3> QED
      BY <2>1, <2>3, <2>5, <3>1
  <2> QED
    BY <2>3, <2>4, <2>8, <2>9, <2>10, <2>11 DEF IterInv
<1>11. CASE CallbackReturns
  <2>1. /\ pc = "callback" /\ pc' = "scan" /\ pos' = pos + 1
        /\ UNCHANGED <<table, idx, seen, atStart>>
    BY <1>11 DEF CallbackReturns
  <2>2. Bound' = Bound
    BY <2>1 DEF Bound, Hits, Chain, Matches
  <2>3. Reach' = Reach
    BY <2>1 DEF Reach
  <2> QED
    BY <2>1, <2>2, <2>3 DEF NoIdentTwice, IterInv, Behind
<1>12. CASE NextBucket
  <2>1. /\ pc = "scan" /\ pc' = "scan" /\ idx # 0 /\ pos = Len(table[idx])
        /\ idx' = idx - 1 /\ pos' = 0
        /\ UNCHANGED <<table, seen, atStart>>
    BY <1>12 DEF NextBucket
  <2>2. Bound' = Bound
    BY <2>1 DEF Bound, Hits, Chain, Matches
  <2>3. \A t \in Slot : DOMAIN table[t] = 1 .. Len(table[t]) /\ Len(table[t]) \in Nat
    BY <1>0, ChainType
  <2>4. Reach = Len(table[idx]) /\ Reach' = 0
    BY <2>1 DEF Reach
  <2>5. \A t \in Slot : \A j \in DOMAIN table[t] : Behind(t, j)' <=> Behind(t, j)
    BY <1>0, <2>1, <2>3, <2>4 DEF Behind, Slot
  <2>6. Reach' <= Len(table'[idx'])
    BY <1>0, <2>1, <2>3, <2>4 DEF TypeOK
  <2> QED
    BY <2>1, <2>2, <2>5, <2>6 DEF NoIdentTwice, IterInv
<1>13. CASE ForEachReturns
  BY <1>2, <1>13 DEF ForEachReturns
<1>14. CASE UNCHANGED vars
  BY <1>1, <1>14 DEF vars, iter
<1> QED
  BY <1>3, <1>4, <1>5, <1>6, <1>7, <1>8, <1>9, <1>10, <1>11, <1>12, <1>13,
     <1>14 DEF Next, Iterate

\* The invariant holds in every reachable state.
THEOREM InvHolds == Spec => []Inv
<1>1. Init => TableInv /\ NoIdentTwice /\ IterInv
  <2> SUFFICES ASSUME Init PROVE TableInv /\ NoIdentTwice /\ IterInv
    OBVIOUS
  <2> USE DEF Init
  <2>1. \A s \in Slot : DOMAIN table[s] = {}
    BY DEF EmptyTable
  <2>2. OneNodePerIdent /\ NoDanglingRI /\ EmptyWhenNull
    BY <2>1 DEF OneNodePerIdent, NoDanglingRI, EmptyWhenNull
  <2>3. SizeExact
    BY NothingBound, FS_EmptySet DEF SizeExact
  <2>4. 0 \in Slot /\ <<>> \in Seq(Ident)
    BY EmptySeq DEF Slot
  <2>5. TypeOK
    BY <2>4, EmptyTableType DEF TypeOK
  <2> QED
    BY <2>2, <2>3, <2>5 DEF TableInv, NoIdentTwice, IterInv
<1> QED
  BY <1>1, TypeCorrect, TableInvStep, IterInvStep, PTL DEF Spec, Inv, TableInv

-----------------------------------------------------------------------------
(* What the runs check, for every table. *)

\* A lookup has one place to stop at most, and the counter behind the peer
\* count is exact.
THEOREM TableIsSound == Spec => [](OneNodePerIdent /\ SizeExact)
<1>1. Inv => OneNodePerIdent /\ SizeExact
  BY DEF Inv, TableInv
<1> QED
  BY <1>1, InvHolds, PTL

\* No node holds a router info that netdb_hashmap_free has freed, and none is
\* freed twice: what a lookup returns can be used.
THEOREM InfosAreAlive == Spec => []NoDanglingRI
<1>1. Inv => NoDanglingRI
  BY DEF Inv, TableInv
<1> QED
  BY <1>1, InvHolds, PTL

\* An iteration hands out no ident twice, also when its callback inserts into
\* the bucket that is gone through.
THEOREM NoneVisitedTwice == Spec => []NoIdentTwice
<1>1. Inv => NoIdentTwice
  BY DEF Inv
<1> QED
  BY <1>1, InvHolds, PTL

\* An iteration hands out every resident of buckets 1 and up.
THEOREM IterationVisits == Spec => []ResidentsVisited
<1>1. Inv => ResidentsVisited
  <2> SUFFICES ASSUME Inv, pc = "scan", idx = 0,
                      NEW k \in atStart, SlotOf[k] # 0
               PROVE  \E i \in DOMAIN seen : seen[i] = k
    BY DEF Inv, ResidentsVisited
  <2>1. k \in Bound /\ k \in Ident /\ SlotOf[k] \in Slot \ {0}
    BY DEF Inv, IterInv, Bound
  <2>2. PICK j \in DOMAIN table[SlotOf[k]] : table[SlotOf[k]][j].h = k
    BY <2>1 DEF Bound, Hits, Chain, Matches
  <2>3. Behind(SlotOf[k], j)
    BY <2>1 DEF Behind, Slot
  <2> QED
    BY <2>1, <2>2, <2>3 DEF Inv, IterInv
<1> QED
  BY <1>1, InvHolds, PTL

\* The walk of netdb_hashmap_get stops at the only node with its ident.
LookupCorrect ==
    \A k \in Ident : \A j \in DOMAIN table[SlotOf[k]] :
        table[SlotOf[k]][j].h = k =>
            k \in Bound /\ Lookup(k) = table[SlotOf[k]][j].ri

\* It follows from the uniqueness of the node.
LEMMA LookupIs == TableInv => LookupCorrect
<1> SUFFICES ASSUME TableInv, NEW k \in Ident,
                    NEW j \in DOMAIN table[SlotOf[k]],
                    table[SlotOf[k]][j].h = k
             PROVE  k \in Bound /\ Lookup(k) = table[SlotOf[k]][j].ri
  BY DEF LookupCorrect
<1>1. SlotOf[k] \in Slot /\ DOMAIN table[SlotOf[k]] \subseteq Nat
  <2>1. SlotOf[k] \in Slot
    OBVIOUS
  <2>2. DOMAIN table[SlotOf[k]] = 1 .. Len(table[SlotOf[k]])
    BY <2>1, ChainType DEF TableInv, TypeOK
  <2> QED
    BY <2>1, <2>2
<1>2. Hits(k) = {j}
  BY <1>1 DEF Hits, Chain, Matches, TableInv, OneNodePerIdent
<1>3. FirstHit(k) = j
  BY <1>1, <1>2 DEF FirstHit
<1> QED
  BY <1>2, <1>3 DEF Lookup, Bound, Chain

\* In a reachable state lookups are correct, too.
LEMMA InvAndLookup == Spec => [](TableInv /\ LookupCorrect)
<1>1. Inv => TableInv
  BY DEF Inv
<1> QED
  BY <1>1, LookupIs, InvHolds, PTL

\* The effect of an insertion on lookups: the new ident gets its router info,
\* every other ident keeps what it had.
LEMMA InsertionLookups ==
    ASSUME TableInv, LookupCorrect, LookupCorrect', NEW ri \in RI, InsertNew(ri)
    PROVE  /\ Lookup(IdentOf[ri])' = ri
           /\ \A l \in Ident : l # IdentOf[ri] => Lookup(l)' = Lookup(l)
<1> DEFINE k == IdentOf[ri]
           s == SlotOf[k]
           e == Len(table[s]) + 1
<1>0. TypeOK /\ table \in [Slot -> Seq(Node)]
  BY DEF TableInv, TypeOK
<1>1. /\ k \in Ident /\ s \in Slot
      /\ \A t \in Slot : t # s => table'[t] = table[t]
      /\ DOMAIN table'[s] = DOMAIN table[s] \cup {e}
      /\ \A i \in DOMAIN table[s] : table'[s][i] = table[s][i]
      /\ table'[s][e].h = k /\ table'[s][e].ri = ri
  BY <1>0, InsertionAppends
<1>2. Bound' = Bound \cup {k}
  BY <1>0, InsertionBinds
<1>3. Lookup(k)' = ri
  BY <1>1 DEF LookupCorrect
<1> HIDE DEF e
<1>4. ASSUME NEW l \in Ident, l # k
      PROVE  Lookup(l)' = Lookup(l)
  <2>1. SlotOf[l] \in Slot
    OBVIOUS
  <2>2. CASE l \in Bound
    <3>1. PICK j \in DOMAIN table[SlotOf[l]] : table[SlotOf[l]][j].h = l
      BY <2>2 DEF Bound, Hits, Chain, Matches
    <3>2. j \in DOMAIN table'[SlotOf[l]] /\ table'[SlotOf[l]][j] = table[SlotOf[l]][j]
      BY <1>1, <2>1, <3>1
    <3>3. Lookup(l) = table[SlotOf[l]][j].ri
      BY <3>1 DEF LookupCorrect
    <3>4. Lookup(l)' = table'[SlotOf[l]][j].ri
      BY <3>1, <3>2 DEF LookupCorrect
    <3> QED
      BY <3>2, <3>3, <3>4
  <2>3. CASE l \notin Bound
    <3>1. l \notin Bound'
      BY <1>2, <1>4, <2>3
    <3> QED
      BY <2>3, <3>1 DEF Lookup, Bound
  <2> QED
    BY <2>2, <2>3
<1> QED
  BY <1>3, <1>4

\* When the chains stay, so does every lookup.
LEMMA SameTableSameLookups ==
    ASSUME table' = table
    PROVE  Bound' = Bound /\ \A k \in Ident : Lookup(k)' = Lookup(k)
BY DEF Bound, Lookup, FirstHit, Hits, Chain, Matches

\* An insert never replaces or hides an earlier router info of its ident.
THEOREM FirstInsertStays == Spec => FirstInsertWins
<1> DEFINE Keeps == \A k \in Bound : pc' # "null" =>
                        k \in Bound' /\ Lookup(k)' = Lookup(k)
<1>1. TableInv /\ LookupCorrect /\ LookupCorrect' /\ [Next]_vars => Keeps
  <2> SUFFICES ASSUME TableInv, LookupCorrect, LookupCorrect', [Next]_vars
               PROVE  Keeps
    OBVIOUS
  <2>0. Bound \subseteq Ident
    BY DEF Bound
  <2>1. CASE InitMap
    <3>1. Bound = {}
      BY <2>1, NothingBound DEF InitMap, TableInv, EmptyWhenNull
    <3> QED
      BY <3>1
  <2>2. ASSUME NEW ri \in RI, InsertNew(ri)
        PROVE  Keeps
    <3>1. TypeOK
      BY DEF TableInv
    <3> QED
      BY <2>0, <2>2, <3>1, InsertionBinds, InsertionLookups
  <2>3. ASSUME table' = table
        PROVE  Keeps
    BY <2>0, <2>3, SameTableSameLookups
  <2>4. CASE Free
    BY <2>4 DEF Free
  <2> QED
    BY <2>1, <2>2, <2>3, <2>4 DEF Next, vars, InsertDuplicate, Get, Size,
       ForEach, Iterate, CallCallback, CallbackReturns, NextBucket, ForEachReturns
<1> QED
  BY <1>1, InvAndLookup, PTL DEF Spec, FirstInsertWins

\* The table implements the put-if-absent map: every step is a step of
\* NetdbMap or leaves its two variables alone.
THEOREM TableImplementsMap == Spec => ImplementsMap
<1> DEFINE amap == [k \in Ident |-> Lookup(k)]
<1>1. Init => Abstract!MInit
  <2> SUFFICES ASSUME Init PROVE Abstract!MInit
    OBVIOUS
  <2>1. \A k \in Ident : Hits(k) = {}
    BY DEF Init, EmptyTable, Hits, Chain
  <2> QED
    BY <2>1 DEF Init, Lookup, Abstract!MInit
<1>2. TableInv /\ LookupCorrect /\ LookupCorrect' /\ [Next]_vars
          => [Abstract!MNext]_(Abstract!mvars)
  <2> SUFFICES ASSUME TableInv, LookupCorrect, LookupCorrect', [Next]_vars
               PROVE  [Abstract!MNext]_(Abstract!mvars)
    OBVIOUS
  <2>1. ASSUME table' = table
        PROVE  amap' = amap
    BY <2>1, SameTableSameLookups
  <2>2. \A k \in Ident : Lookup(k) # NoRI <=> Hits(k) # {}
    <3> SUFFICES ASSUME NEW k \in Ident, Hits(k) # {}
                 PROVE  Lookup(k) # NoRI
      BY DEF Lookup
    <3>1. PICK j \in DOMAIN table[SlotOf[k]] : table[SlotOf[k]][j].h = k
      BY DEF Hits, Chain, Matches
    <3>2. SlotOf[k] \in Slot /\ table \in [Slot -> Seq(Node)]
      BY DEF TableInv, TypeOK
    <3>3. table[SlotOf[k]][j].ri \in RI
      BY <3>1, <3>2, ChainType
    <3> QED
      BY <3>1, <3>3, NoRIAssumption DEF LookupCorrect
  <2>3. ASSUME table' = EmptyTable
        PROVE  amap' = [k \in Ident |-> NoRI]
    BY <2>3 DEF EmptyTable, Lookup, Hits, Chain
  <2>4. CASE InitMap
    <3>1. table' = table /\ reply' = reply
      BY <2>4 DEF InitMap, TableInv, EmptyWhenNull
    <3> QED
      BY <2>1, <3>1 DEF Abstract!mvars
  <2>5. ASSUME NEW ri \in RI, InsertNew(ri)
        PROVE  Abstract!MNext
    <3> DEFINE k == IdentOf[ri]
    <3>1. k \in Ident /\ amap[k] = NoRI
      BY <2>2, <2>5 DEF InsertNew
    <3>2. Lookup(k)' = ri /\ \A l \in Ident : l # k => Lookup(l)' = Lookup(l)
      BY <2>5, InsertionLookups
    <3>3. amap' = [amap EXCEPT ![k] = ri]
      BY <3>1, <3>2
    <3>4. reply' = <<"insert", ri, 1>>
      BY <2>5 DEF InsertNew
    <3>5. Abstract!MInsert(ri)
      BY <3>1, <3>3, <3>4 DEF Abstract!MInsert
    <3> QED
      BY <3>5 DEF Abstract!MNext
  <2>6. ASSUME NEW ri \in RI, InsertDuplicate(ri)
        PROVE  Abstract!MNext
    <3>1. /\ IdentOf[ri] \in Ident /\ amap[IdentOf[ri]] # NoRI
          /\ table' = table /\ reply' = <<"insert", ri, 0>>
      BY <2>2, <2>6 DEF InsertDuplicate
    <3>2. amap' = amap
      BY <2>1, <3>1
    <3>3. Abstract!MInsert(ri)
      BY <3>1, <3>2 DEF Abstract!MInsert
    <3> QED
      BY <3>3 DEF Abstract!MNext
  <2>7. ASSUME NEW k \in Ident, Get(k)
        PROVE  Abstract!MNext
    <3>1. table' = table /\ reply' = <<"get", k, amap[k]>>
      BY <2>7 DEF Get
    <3>2. amap' = amap
      BY <2>1, <3>1
    <3>3. Abstract!MGet(k)
      BY <3>1, <3>2 DEF Abstract!MGet
    <3> QED
      BY <3>3 DEF Abstract!MNext
  <2>8. CASE Size
    <3>1. Abstract!Bindings = Bound
      BY <2>2 DEF Abstract!Bindings, Bound
    <3>2. table' = table /\ reply' = <<"size", NoRI, Cardinality(Bound)>>
      BY <2>8 DEF Size, TableInv, SizeExact
    <3>3. amap' = amap
      BY <2>1, <3>2
    <3>4. reply' = <<"size", NoRI, Cardinality(Abstract!Bindings)>>
      BY <3>1, <3>2
    <3>5. Abstract!MSize
      BY <3>3, <3>4 DEF Abstract!MSize, Abstract!Cardinality, Cardinality
    <3> QED
      BY <3>5 DEF Abstract!MNext
  <2>9. CASE Free
    <3>1. Abstract!MFree
      BY <2>3, <2>9 DEF Free, Abstract!MFree
    <3> QED
      BY <3>1 DEF Abstract!MNext
  <2>10. ASSUME table' = table, reply' = reply
         PROVE  UNCHANGED Abstract!mvars
    BY <2>1, <2>10 DEF Abstract!mvars
  <2> QED
    BY <2>4, <2>5, <2>6, <2>7, <2>8, <2>9, <2>10 DEF Next, vars, ForEach,
       Iterate, CallCallback, CallbackReturns, NextBucket, ForEachReturns
<1> QED
  BY <1>1, <1>2, InvAndLookup, PTL DEF Spec, ImplementsMap, Abstract!MSpec

-----------------------------------------------------------------------------
(* The table under the steps of the database. *)

\* A process that has no table.
NoTable ==
    /\ pc = "null" /\ table = EmptyTable /\ sz = 0
    /\ mem = [ri \in RI |-> "live"]
    /\ idx = 0 /\ pos = 0 /\ seen = <<>> /\ atStart = {}

\* A step of the database makes a step of the table, leaves it alone, or ends
\* the process.
LEMMA StepOfTable ==
    [NNext]_nvars => [Next]_vars \/ UNCHANGED <<pc, table, sz, mem, iter>> \/ NoTable'
<1> SUFFICES ASSUME [NNext]_nvars
             PROVE  Next \/ UNCHANGED <<pc, table, sz, mem, iter>> \/ NoTable'
  OBVIOUS
<1> USE DEF table_vars, iter
<1>1. CASE Start
  BY <1>1 DEF Start, Next
<1>2. CASE EnsureRoot \/ EnsureSubdir \/ BeginLoad \/ LoadReturns
  BY <1>2 DEF EnsureRoot, EnsureSubdir, BeginLoad, LoadReturns
<1>3. ASSUME NEW d \in Letter, ListSubdir(d)
      PROVE  UNCHANGED <<pc, table, sz, mem, iter>>
  BY <1>3 DEF ListSubdir
<1>4. ASSUME NEW f \in File, ReadUnopened(f) \/ ReadBadEntry(f)
      PROVE  UNCHANGED <<pc, table, sz, mem, iter>>
  BY <1>4 DEF ReadUnopened, ReadBadEntry
<1>5. ASSUME NEW f \in File, ReadRouterInfo(f)
      PROVE  Next
  BY <1>5, ParsableAssumption DEF ReadRouterInfo, Next
<1>6. ASSUME NEW k \in Ident, Find(k)
      PROVE  Next
  BY <1>6 DEF Find, Next
<1>7. CASE PeerCount \/ BeginVisit \/ BeginFlush
  BY <1>7 DEF PeerCount, BeginVisit, BeginFlush, Next
<1>8. ASSUME NEW ri \in RI, Put(ri)
      PROVE  UNCHANGED <<pc, table, sz, mem, iter>>
  BY <1>8 DEF Put
<1>9. CASE IterateOn \/ VisitCallbackReturns \/ WriteEntry \/ IterationReturns
  BY <1>9 DEF IterateOn, VisitCallbackReturns, WriteEntry, Calling, IterationReturns,
              Next, Iterate
<1>10. CASE Close
  BY <1>10 DEF Close, Next
<1>11. CASE Ends
  BY <1>11 DEF Ends, NoTable, EmptyTable
<1>12. ASSUME NEW f \in File, Place(f)
       PROVE  UNCHANGED <<pc, table, sz, mem, iter>>
  BY <1>12 DEF Place
<1>13. CASE UNCHANGED nvars
  BY <1>13 DEF nvars
<1> QED
  BY <1>1, <1>2, <1>3, <1>4, <1>5, <1>6, <1>7, <1>8, <1>9, <1>10, <1>11, <1>12,
     <1>13 DEF NNext

\* An empty table satisfies the invariant of the table.
LEMMA EmptyTableInv == NoTable => TableInv
<1> SUFFICES ASSUME NoTable
             PROVE  TableInv
  OBVIOUS
<1>1. \A s \in Slot : DOMAIN table[s] = {}
  BY DEF NoTable, EmptyTable
<1>2. OneNodePerIdent /\ NoDanglingRI /\ EmptyWhenNull
  BY <1>1 DEF NoTable, OneNodePerIdent, NoDanglingRI, EmptyWhenNull
<1>3. SizeExact
  BY NothingBound, FS_EmptySet DEF NoTable, SizeExact
<1>4. TypeOK
  <2>1. 0 \in Slot
    BY DEF Slot
  <2>2. <<>> \in Seq(Ident)
    BY EmptySeq
  <2> QED
    BY <2>1, <2>2, EmptyTableType DEF NoTable, TypeOK
<1> QED
  BY <1>2, <1>3, <1>4 DEF TableInv

\* The invariant of the table is one of the database.
LEMMA TableStays == TableInv /\ [NNext]_nvars => TableInv'
<1> SUFFICES ASSUME TableInv, [NNext]_nvars
             PROVE  TableInv'
  OBVIOUS
<1>1. CASE [Next]_vars
  BY <1>1, TypeOKStep, TableInvStep DEF TableInv
<1>2. CASE UNCHANGED <<pc, table, sz, mem, iter>>
  BY <1>2 DEF TableInv, TypeOK, OneNodePerIdent, SizeExact, NoDanglingRI, EmptyWhenNull,
              Bound, Hits, Chain, Matches, iter
<1>3. CASE NoTable'
  BY <1>3, EmptyTableInv, PTL
<1> QED
  BY <1>1, <1>2, <1>3, StepOfTable

-----------------------------------------------------------------------------
(* The tree: every subdirectory below the one ensure_skiplist is at is there,
   whoever made it. *)

NTypeOK ==
    /\ proc \in {"down", "ensure", "refused", "loading", "crashed", "up", "visiting",
                 "flushing", "closed"}
    /\ sub \in [Letter -> Path] /\ content \in [File -> Content]
    /\ letter \in 0 .. Letters + 1
    /\ dirs \in SUBSET Letter /\ files \in SUBSET File
    /\ loaded \in Nat /\ failed \in Nat /\ result \in {0, 1}

TreeInv ==
    /\ proc = "down" => letter = 0
    /\ proc = "ensure" /\ letter # 0 =>
           root = "dir" /\ \A d \in Letter : d < letter => sub[d] # "absent"
    /\ SkiplistComplete

LEMMA NTypeStep == NTypeOK /\ [NNext]_nvars => NTypeOK'
<1> SUFFICES ASSUME NTypeOK, [NNext]_nvars
             PROVE  NTypeOK'
  OBVIOUS
<1> USE LettersAssumption DEF NTypeOK, disk, load
<1>1. CASE Start
  BY <1>1 DEF Start
<1>2. CASE EnsureRoot
  BY <1>2 DEF EnsureRoot
<1>3. CASE EnsureSubdir
  <2>1. "dir" \in Path
    BY DEF Path
  <2>2. letter + 1 \in 0 .. Letters + 1
    BY <1>3 DEF EnsureSubdir, Letter
  <2> QED
    BY <1>3, <2>1, <2>2 DEF EnsureSubdir
<1>4. CASE BeginLoad
  BY <1>4 DEF BeginLoad
<1>5. ASSUME NEW d \in Letter, ListSubdir(d)
      PROVE  NTypeOK'
  BY <1>5 DEF ListSubdir
<1>6. ASSUME NEW f \in File, ReadUnopened(f) \/ ReadRouterInfo(f) \/ ReadBadEntry(f)
      PROVE  NTypeOK'
  BY <1>6 DEF ReadUnopened, ReadRouterInfo, ReadBadEntry, Reading
<1>7. CASE LoadReturns
  BY <1>7 DEF LoadReturns
<1>8. ASSUME NEW k \in Ident, Find(k)
      PROVE  NTypeOK'
  BY <1>8 DEF Find
<1>9. CASE PeerCount
  BY <1>9 DEF PeerCount
<1>10. ASSUME NEW ri \in RI, Put(ri)
       PROVE  NTypeOK'
  BY <1>10 DEF Put
<1>11. CASE BeginVisit \/ BeginFlush
  BY <1>11 DEF BeginVisit, BeginFlush
<1>12. CASE IterateOn \/ VisitCallbackReturns \/ IterationReturns
  BY <1>12 DEF IterateOn, VisitCallbackReturns, IterationReturns
<1>13. CASE WriteEntry
  <2>1. /\ UNCHANGED <<proc, sub, letter, load>>
        /\ result' = 0
        /\ content' = content
             \/ content' = [content EXCEPT ![NodeFile[Handed]] = "empty"]
    BY <1>13 DEF WriteEntry, Calling, Written
  <2>2. "empty" \in Content
    BY DEF Content, Damaged
  <2> QED
    BY <2>1, <2>2
<1>14. CASE Close
  BY <1>14 DEF Close
<1>15. CASE Ends
  BY <1>15 DEF Ends
<1>16. ASSUME NEW f \in File, Place(f)
       PROVE  NTypeOK'
  <2>1. PICK c \in Contents[f] : content' = [content EXCEPT ![f] = c]
    BY <1>16 DEF Place
  <2>2. c \in Content
    BY <2>1, ContentsAssumption
  <2> QED
    BY <1>16, <2>1, <2>2 DEF Place
<1>17. CASE UNCHANGED nvars
  BY <1>17 DEF nvars
<1> QED
  BY <1>1, <1>2, <1>3, <1>4, <1>5, <1>6, <1>7, <1>8, <1>9, <1>10, <1>11, <1>12,
     <1>13, <1>14, <1>15, <1>16, <1>17 DEF NNext

LEMMA TreeStep == NTypeOK /\ TreeInv /\ [NNext]_nvars => TreeInv'
<1> SUFFICES ASSUME NTypeOK, TreeInv, [NNext]_nvars
             PROVE  TreeInv'
  OBVIOUS
<1> DEFINE Past == {"loading", "up", "visiting", "flushing"}
<1> USE DEF TreeInv, SkiplistComplete
<1>1. ASSUME UNCHANGED <<root, sub>>, proc' = proc, letter' = letter
      PROVE  TreeInv'
  BY <1>1
<1>2. ASSUME UNCHANGED <<root, sub>>, proc \in Past,
             proc' \in Past \cup {"crashed", "closed"}
      PROVE  TreeInv'
  BY <1>2
<1>3. CASE Start
  BY <1>3 DEF Start, disk
<1>4. CASE EnsureRoot
  BY <1>4 DEF EnsureRoot, Letter
<1>5. CASE EnsureSubdir
  <2> USE DEF EnsureSubdir, NTypeOK
  <2>1. letter \in Letter /\ root = "dir" /\ root' = root
        /\ \A d \in Letter : d < letter => sub[d] # "absent"
    BY <1>5 DEF Letter
  <2>2. CASE proc' = "refused"
    BY <2>2
  <2>3. CASE proc' = proc
    <3>1. letter' = letter + 1 /\ sub'[letter] # "absent"
          /\ \A d \in Letter : d # letter => sub'[d] = sub[d]
      BY <1>5, <2>1, <2>3
    <3>2. \A d \in Letter : d < letter' => sub'[d] # "absent"
      BY <2>1, <3>1 DEF Letter
    <3>3. proc' = "ensure"
      BY <1>5, <2>3
    <3> QED
      BY <2>1, <3>2, <3>3
  <2> QED
    BY <1>5, <2>2, <2>3
<1>6. CASE BeginLoad
  <2>1. letter = Letters + 1 /\ letter # 0 /\ \A d \in Letter : d < letter
    BY <1>6, LettersAssumption DEF BeginLoad, Letter
  <2> QED
    BY <1>6, <2>1 DEF BeginLoad, disk
<1>7. ASSUME NEW d \in Letter, ListSubdir(d)
      PROVE  TreeInv'
  BY <1>1, <1>7 DEF ListSubdir, disk
<1>8. ASSUME NEW f \in File, ReadUnopened(f) \/ ReadRouterInfo(f) \/ ReadBadEntry(f)
      PROVE  TreeInv'
  BY <1>2, <1>8 DEF ReadUnopened, ReadRouterInfo, ReadBadEntry, Reading, disk
<1>9. CASE LoadReturns \/ BeginVisit \/ BeginFlush \/ IterationReturns \/ Close
  BY <1>2, <1>9 DEF LoadReturns, BeginVisit, BeginFlush, IterationReturns, Close, disk
<1>10. ASSUME NEW k \in Ident, Find(k)
       PROVE  TreeInv'
  BY <1>1, <1>10 DEF Find, disk
<1>11. ASSUME NEW ri \in RI, Put(ri)
       PROVE  TreeInv'
  BY <1>1, <1>11 DEF Put, disk
<1>12. CASE PeerCount \/ IterateOn \/ VisitCallbackReturns \/ WriteEntry
  BY <1>1, <1>12 DEF PeerCount, IterateOn, VisitCallbackReturns, WriteEntry, Calling, disk
<1>13. CASE Ends
  BY <1>13 DEF Ends
<1>14. ASSUME NEW f \in File, Place(f)
       PROVE  TreeInv'
  BY <1>1, <1>14 DEF Place
<1>15. CASE UNCHANGED nvars
  BY <1>1, <1>15 DEF nvars
<1> QED
  BY <1>3, <1>4, <1>5, <1>6, <1>7, <1>8, <1>9, <1>10, <1>11, <1>12, <1>13, <1>14,
     <1>15 DEF NNext

-----------------------------------------------------------------------------
(* A flush: what the callback was given is bound and not of bucket 0, and of
   the files at most the one of such an ident has changed. *)

CallInv == pc = "callback" => Handed \in Bound /\ SlotOf[Handed] # 0

\* Only the file of ident k may differ from what it was before the flush.
OthersStay(k) == \A f \in File : f # NodeFile[k] => content[f] = before[f]

FlushInv ==
    proc = "flushing" =>
        \/ content = before
        \/ result = 0 /\ \E k \in Bound : SlotOf[k] # 0 /\ OthersStay(k)

LEMMA CallStep == TableInv /\ CallInv /\ [NNext]_nvars => CallInv'
<1> SUFFICES ASSUME TableInv, CallInv, [NNext]_nvars
             PROVE  CallInv'
  OBVIOUS
<1>1. CASE pc' # "callback"
  BY <1>1 DEF CallInv
<1>2. ASSUME Bound \subseteq Bound', pc = "callback", seen' = seen
      PROVE  CallInv'
  BY <1>2 DEF CallInv, Handed
<1>3. CASE [Next]_vars
  <2>1. ASSUME NEW ri \in RI, InsertNew(ri)
        PROVE  CallInv'
    <3>1. Bound \subseteq Bound'
      BY <2>1, InsertionBinds DEF TableInv
    <3> QED
      BY <1>1, <1>2, <2>1, <3>1 DEF InsertNew, iter
  <2>2. ASSUME table' = table, pc' = pc, seen' = seen
        PROVE  CallInv'
    BY <1>1, <1>2, <2>2, SameTableSameLookups
  <2>3. ASSUME NEW ri \in RI, InsertDuplicate(ri)
        PROVE  CallInv'
    BY <2>2, <2>3 DEF InsertDuplicate, iter
  <2>4. ASSUME NEW k \in Ident, Get(k)
        PROVE  CallInv'
    BY <2>2, <2>4 DEF Get, iter
  <2>5. CASE Size \/ UNCHANGED vars
    BY <2>2, <2>5 DEF Size, iter, vars
  <2>6. CASE InitMap \/ Free \/ ForEach \/ CallbackReturns \/ ForEachReturns
    BY <1>1, <2>6 DEF InitMap, Free, ForEach, CallbackReturns, ForEachReturns
  <2>7. CASE NextBucket
    BY <1>1, <2>7 DEF NextBucket
  <2>8. CASE CallCallback
    <3> DEFINE k == table[idx][pos + 1].h
    <3>1. /\ idx \in Slot /\ idx # 0 /\ pos \in Nat /\ pos < Len(table[idx])
          /\ table' = table /\ seen \in Seq(Ident) /\ seen' = Append(seen, k)
          /\ table \in [Slot -> Seq(Node)]
      BY <2>8 DEF CallCallback, TableInv, TypeOK
    <3>2. pos + 1 \in DOMAIN table[idx]
      BY <3>1, ChainType
    <3>3. k \in Ident
      BY <3>1, <3>2, ChainType
    <3>4. SlotOf[k] = idx
      BY <3>1, <3>2, <3>3 DEF TableInv, OneNodePerIdent
    <3>5. k \in Bound
      BY <3>2, <3>3, <3>4 DEF Bound, Hits, Chain, Matches
    <3> HIDE DEF k
    <3>6. seen'[Len(seen')] = k
      BY <3>1, <3>3, AppendProperties
    <3> QED
      BY <3>1, <3>4, <3>5, <3>6, SameTableSameLookups DEF CallInv, Handed
  <2> QED
    BY <1>3, <2>1, <2>3, <2>4, <2>5, <2>6, <2>7, <2>8 DEF Next, Iterate
<1>4. CASE UNCHANGED <<pc, table, sz, mem, iter>>
  BY <1>1, <1>2, <1>4, SameTableSameLookups DEF iter
<1>5. CASE NoTable'
  BY <1>1, <1>5 DEF NoTable
<1> QED
  BY <1>3, <1>4, <1>5, StepOfTable

LEMMA FlushStep == NTypeOK /\ CallInv /\ FlushInv /\ [NNext]_nvars => FlushInv'
<1> SUFFICES ASSUME NTypeOK, CallInv, FlushInv, [NNext]_nvars, proc' = "flushing"
             PROVE  FlushInv'
  BY DEF FlushInv
<1>1. ASSUME proc = "flushing", table' = table, UNCHANGED <<content, before, result>>
      PROVE  FlushInv'
  BY <1>1, SameTableSameLookups DEF FlushInv, OthersStay
<1>2. CASE BeginFlush
  BY <1>2 DEF BeginFlush, disk, FlushInv
<1>3. CASE IterateOn
  BY <1>1, <1>3 DEF IterateOn, disk, CallCallback, NextBucket
<1>4. CASE WriteEntry
  <2>1. /\ proc = "flushing" /\ pc = "callback" /\ table' = table /\ before' = before
        /\ result' = 0
        /\ \/ content' = content
           \/ result = 1 /\ content' = [content EXCEPT ![NodeFile[Handed]] = "empty"]
    BY <1>4 DEF WriteEntry, Writing, Calling, CallbackReturns, Written
  <2>2. Bound' = Bound
    BY <2>1, SameTableSameLookups
  <2>3. CASE content' = content
    BY <2>1, <2>2, <2>3 DEF FlushInv, OthersStay
  <2>4. CASE result = 1 /\ content' = [content EXCEPT ![NodeFile[Handed]] = "empty"]
    <3>1. content = before
      BY <2>1, <2>4 DEF FlushInv
    <3>2. Handed \in Bound' /\ SlotOf[Handed] # 0
      BY <2>1, <2>2 DEF CallInv
    <3>3. \A f \in File : f # NodeFile[Handed] => content'[f] = before'[f]
      BY <2>1, <2>4, <3>1 DEF NTypeOK
    <3> HIDE DEF Handed
    <3>4. \E k \in Bound' : SlotOf[k] # 0
                          /\ \A f \in File : f # NodeFile[k] => content'[f] = before'[f]
      BY <3>2, <3>3
    <3> QED
      BY <2>1, <3>4 DEF FlushInv, OthersStay
  <2> QED
    BY <2>1, <2>3, <2>4
<1>5. CASE UNCHANGED nvars
  BY <1>1, <1>5 DEF nvars, table_vars
<1>6. ASSUME NEW f \in File, Place(f)
      PROVE  FALSE
  BY <1>6 DEF Place
<1>7. CASE Start \/ EnsureRoot \/ EnsureSubdir \/ BeginLoad \/ LoadReturns \/ BeginVisit
           \/ PeerCount \/ VisitCallbackReturns \/ IterationReturns \/ Close \/ Ends
  BY <1>7 DEF Start, EnsureRoot, EnsureSubdir, BeginLoad, LoadReturns, BeginVisit,
              PeerCount, VisitCallbackReturns, IterationReturns, Close, Ends
<1>8. ASSUME NEW f \in File, ReadUnopened(f) \/ ReadRouterInfo(f) \/ ReadBadEntry(f)
      PROVE  FALSE
  BY <1>8 DEF ReadUnopened, ReadRouterInfo, ReadBadEntry, Reading
<1>9. ASSUME NEW d \in Letter, ListSubdir(d)
      PROVE  FALSE
  BY <1>9 DEF ListSubdir
<1>10. ASSUME NEW k \in Ident, Find(k)
       PROVE  FALSE
  BY <1>10 DEF Find
<1>11. ASSUME NEW ri \in RI, Put(ri)
       PROVE  FALSE
  BY <1>11 DEF Put
<1> QED
  BY <1>2, <1>3, <1>4, <1>5, <1>6, <1>7, <1>8, <1>9, <1>10, <1>11 DEF NNext

-----------------------------------------------------------------------------
(* A load: the table and the counts are those of the files that load_all is
   done with, in whatever order it comes to the directories and the files. *)

Done == {f \in Listed : DirOf[f] \notin dirs /\ f \notin files}

DoneReadable == {f \in Done : content[f] \in Parsable}
DoneUnopened == {f \in Done : content[f] = "noaccess"}

\* What of the tree is still to come.
ToCome ==
    /\ \A d \in dirs : sub[d] = "dir"
    /\ files \subseteq Listed
    /\ \A f \in files : DirOf[f] \notin dirs

BoundAreDone ==
    /\ Bound = {IdentOf[content[f]] : f \in DoneReadable}
    /\ \A k \in Bound : \E f \in DoneReadable : content[f] = Lookup(k)

LoadInv ==
    /\ proc \in {"down", "ensure"} => dirs = {} /\ files = {} /\ loaded = 0 /\ failed = 0
    /\ proc = "ensure" => table = EmptyTable
    /\ proc = "loading" =>
           /\ ToCome /\ BoundAreDone
           /\ loaded = Cardinality(DoneReadable)
           /\ failed = Cardinality(DoneUnopened)

\* The files of a run of the loader are finitely many.
LEMMA DoneIsFinite ==
    /\ IsFiniteSet(DoneReadable) /\ IsFiniteSet(DoneUnopened)
<1>1. DoneReadable \subseteq File /\ DoneUnopened \subseteq File
  BY DEF DoneReadable, DoneUnopened, Done, Listed
<1> QED
  BY <1>1, FileAssumption, FS_Subset

\* Reading a file adds that file, and no other, to those that are done.
LEMMA ReadingIsDone ==
    ASSUME NTypeOK, LoadInv, NEW f \in File, Reading(f)
    PROVE  /\ ToCome'
           /\ f \notin Done /\ Done' = Done \cup {f}
           /\ content' = content
<1>1. /\ ToCome /\ f \in files /\ files' = files \ {f}
      /\ dirs' = dirs /\ sub' = sub /\ content' = content
  BY DEF Reading, LoadInv, disk
<1>2. f \in Listed /\ DirOf[f] \notin dirs /\ Listed' = Listed
  BY <1>1 DEF ToCome, Listed
<1> QED
  BY <1>1, <1>2 DEF ToCome, Done

\* A step that keeps the table and the readable files that are done keeps what
\* they have in common.
LEMMA BoundStaysDone ==
    ASSUME BoundAreDone, table' = table, content' = content, DoneReadable' = DoneReadable
    PROVE  BoundAreDone'
<1>1. Bound' = Bound /\ \A k \in Ident : Lookup(k)' = Lookup(k)
  BY SameTableSameLookups
<1>2. Bound \subseteq Ident
  BY DEF Bound
<1>3. Bound' = {IdentOf[content'[f]] : f \in DoneReadable'}
  BY <1>1 DEF BoundAreDone
<1>4. \A k \in Bound' : \E f \in DoneReadable' : content'[f] = Lookup(k)'
  BY <1>1, <1>2 DEF BoundAreDone
<1> QED
  BY <1>3, <1>4 DEF BoundAreDone

LEMMA LoadStep == TableInv /\ NTypeOK /\ LoadInv /\ [NNext]_nvars => LoadInv'
<1> SUFFICES ASSUME TableInv, NTypeOK, LoadInv, [NNext]_nvars
             PROVE  LoadInv'
  OBVIOUS
<1>1. ASSUME proc' \notin {"down", "ensure", "loading"}
      PROVE  LoadInv'
  BY <1>1 DEF LoadInv
<1>2. ASSUME UNCHANGED <<proc, sub, content, load>>, table' = table
      PROVE  LoadInv'
  <2>1. Listed' = Listed /\ Done' = Done
    BY <1>2 DEF Listed, Done, load
  <2>2. DoneReadable' = DoneReadable /\ DoneUnopened' = DoneUnopened
    BY <1>2, <2>1 DEF DoneReadable, DoneUnopened
  <2>3. ToCome => ToCome'
    BY <1>2, <2>1 DEF ToCome, load
  <2>4. BoundAreDone => BoundAreDone'
    BY <1>2, <2>2, BoundStaysDone
  <2> QED
    BY <1>2, <2>2, <2>3, <2>4 DEF LoadInv, load
<1>3. CASE Start
  BY <1>3 DEF Start, LoadInv, load, InitMap
<1>4. CASE EnsureRoot \/ EnsureSubdir
  BY <1>4 DEF EnsureRoot, EnsureSubdir, LoadInv, load, table_vars
<1>5. CASE BeginLoad
  <2>1. /\ dirs' = {d \in Letter : sub[d] = "dir"} /\ files' = {} /\ sub' = sub
        /\ content' = content /\ table' = EmptyTable /\ loaded' = 0 /\ failed' = 0
        /\ proc' = "loading"
    BY <1>5 DEF BeginLoad, LoadInv, disk, table_vars
  <2>2. \A f \in File : sub[DirOf[f]] = "dir" => DirOf[f] \in dirs'
    BY <2>1, DirOfAssumption
  <2>3. Done' = {}
    BY <2>1, <2>2 DEF Done, Listed
  <2>4. DoneReadable' = {} /\ DoneUnopened' = {}
    BY <2>3 DEF DoneReadable, DoneUnopened
  <2>5. Bound' = {}
    BY <2>1 DEF EmptyTable, Bound, Hits, Chain
  <2>6. Cardinality({}) = 0
    BY FS_EmptySet
  <2>7. ToCome'
    BY <2>1 DEF ToCome, Listed
  <2>8. BoundAreDone'
    BY <2>4, <2>5 DEF BoundAreDone
  <2> QED
    BY <2>1, <2>4, <2>6, <2>7, <2>8 DEF LoadInv
<1>6. ASSUME NEW d \in Letter, ListSubdir(d)
      PROVE  LoadInv'
  <2>1. /\ ToCome /\ d \in dirs /\ files = {} /\ dirs' = dirs \ {d}
        /\ files' = {f \in File : DirOf[f] = d /\ content[f] # "none"}
        /\ sub' = sub /\ content' = content /\ table' = table /\ proc = "loading"
        /\ proc' = proc /\ loaded' = loaded /\ failed' = failed
    BY <1>6 DEF ListSubdir, LoadInv, disk, table_vars
  <2>2. Listed' = Listed
    BY <2>1 DEF Listed
  <2>3. Done' = Done
    BY <2>1, <2>2 DEF Done, Listed
  <2>4. DoneReadable' = DoneReadable /\ DoneUnopened' = DoneUnopened
    BY <2>1, <2>3 DEF DoneReadable, DoneUnopened
  <2>5. ToCome'
    BY <2>1, <2>2 DEF ToCome, Listed
  <2>6. BoundAreDone'
    BY <2>1, <2>4, BoundStaysDone DEF LoadInv
  <2> QED
    BY <2>1, <2>4, <2>5, <2>6 DEF LoadInv
<1>7. ASSUME NEW f \in File, ReadUnopened(f)
      PROVE  LoadInv'
  <2>1. /\ content[f] = "noaccess" /\ proc = "loading" /\ proc' = proc /\ table' = table
        /\ loaded' = loaded /\ failed' = failed + 1 /\ Reading(f)
    BY <1>7 DEF ReadUnopened, Reading, table_vars
  <2>2. ToCome' /\ f \notin Done /\ Done' = Done \cup {f} /\ content' = content
    BY <2>1, ReadingIsDone
  <2>3. content[f] \notin Parsable
    BY <2>1, ContentsAssumption, ParsableAssumption DEF Damaged
  <2>4. DoneReadable' = DoneReadable
    BY <2>2, <2>3 DEF DoneReadable
  <2>5. f \notin DoneUnopened /\ DoneUnopened' = DoneUnopened \cup {f}
    BY <2>1, <2>2 DEF DoneUnopened
  <2>6. Cardinality(DoneUnopened') = Cardinality(DoneUnopened) + 1
    BY <2>5, DoneIsFinite, FS_AddElement
  <2>7. BoundAreDone'
    BY <2>1, <2>2, <2>4, BoundStaysDone DEF LoadInv
  <2> QED
    BY <2>1, <2>2, <2>4, <2>6, <2>7 DEF LoadInv
<1>8. ASSUME NEW f \in File, ReadRouterInfo(f)
      PROVE  LoadInv'
  <2>0. PICK ri \in Parsable : ri = content[f]
    BY <1>8 DEF ReadRouterInfo
  <2> DEFINE k == IdentOf[ri]
  <2>1. /\ content[f] = ri /\ proc = "loading" /\ proc' = proc
        /\ loaded' = loaded + 1 /\ failed' = failed /\ Reading(f)
        /\ InsertNew(ri) \/ InsertDuplicate(ri)
        /\ ri \in RI /\ k \in Ident
    BY <1>8, <2>0, ParsableAssumption DEF ReadRouterInfo, Reading
  <2>2. ToCome' /\ f \notin Done /\ Done' = Done \cup {f} /\ content' = content
    BY <2>1, ReadingIsDone
  <2>3. content[f] # "noaccess"
    BY <2>0, <2>1, ContentsAssumption, ParsableAssumption DEF Damaged
  <2>4. DoneUnopened' = DoneUnopened
    BY <2>2, <2>3 DEF DoneUnopened
  <2>5. f \notin DoneReadable /\ DoneReadable' = DoneReadable \cup {f}
    BY <2>0, <2>1, <2>2 DEF DoneReadable
  <2>6. Cardinality(DoneReadable') = Cardinality(DoneReadable) + 1
    BY <2>5, DoneIsFinite, FS_AddElement
  <2>7. BoundAreDone
    BY <2>1 DEF LoadInv
  <2>8. CASE InsertNew(ri)
    <3>1. Bound' = Bound \cup {k} /\ k \notin Bound
      BY <2>1, <2>8, InsertionBinds DEF TableInv
    <3>2. LookupCorrect /\ LookupCorrect'
      BY TableStays, LookupIs, PTL
    <3>3. Lookup(k)' = ri /\ \A l \in Ident : l # k => Lookup(l)' = Lookup(l)
      BY <2>1, <2>8, <3>2, InsertionLookups
    <3>4. Bound \subseteq Ident
      BY DEF Bound
    <3>5. Bound' = {IdentOf[content'[g]] : g \in DoneReadable'}
      BY <2>1, <2>2, <2>5, <2>7, <3>1 DEF BoundAreDone
    <3>6. \A l \in Bound' : \E g \in DoneReadable' : content'[g] = Lookup(l)'
      BY <2>1, <2>2, <2>5, <2>7, <3>1, <3>3, <3>4 DEF BoundAreDone
    <3> QED
      BY <2>1, <2>2, <2>4, <2>6, <3>5, <3>6 DEF LoadInv, BoundAreDone
  <2>9. CASE InsertDuplicate(ri)
    <3>1. table' = table /\ k \in Bound
      BY <2>1, <2>9 DEF InsertDuplicate, Bound
    <3>2. Bound' = Bound /\ \A l \in Ident : Lookup(l)' = Lookup(l)
      BY <3>1, SameTableSameLookups
    <3>3. Bound \subseteq Ident
      BY DEF Bound
    <3>4. Bound' = {IdentOf[content'[g]] : g \in DoneReadable'}
      BY <2>1, <2>2, <2>5, <2>7, <3>1, <3>2 DEF BoundAreDone
    <3>5. \A l \in Bound' : \E g \in DoneReadable' : content'[g] = Lookup(l)'
      BY <2>1, <2>2, <2>5, <2>7, <3>2, <3>3 DEF BoundAreDone
    <3> QED
      BY <2>1, <2>2, <2>4, <2>6, <3>4, <3>5 DEF LoadInv, BoundAreDone
  <2> QED
    BY <2>1, <2>8, <2>9
<1>9. ASSUME NEW f \in File, ReadBadEntry(f)
      PROVE  LoadInv'
  BY <1>1, <1>9 DEF ReadBadEntry
<1>10. CASE LoadReturns \/ BeginVisit \/ BeginFlush \/ IterationReturns \/ Close
  BY <1>1, <1>10 DEF LoadReturns, BeginVisit, BeginFlush, IterationReturns, Close
<1>11. ASSUME NEW k \in Ident, Find(k)
       PROVE  LoadInv'
  BY <1>1, <1>11 DEF Find
<1>12. ASSUME NEW ri \in RI, Put(ri)
       PROVE  LoadInv'
  BY <1>1, <1>12 DEF Put
<1>13. CASE PeerCount \/ IterateOn \/ VisitCallbackReturns \/ WriteEntry
  BY <1>1, <1>13 DEF PeerCount, IterateOn, VisitCallbackReturns, WriteEntry, Writing, Calling
<1>14. CASE Ends
  BY <1>14 DEF Ends, LoadInv
<1>15. ASSUME NEW f \in File, Place(f)
       PROVE  LoadInv'
  BY <1>15 DEF Place, LoadInv, load
<1>16. CASE UNCHANGED nvars
  BY <1>2, <1>16 DEF nvars, load, table_vars
<1> QED
  BY <1>3, <1>4, <1>5, <1>6, <1>7, <1>8, <1>9, <1>10, <1>11, <1>12, <1>13, <1>14,
     <1>15, <1>16 DEF NNext

-----------------------------------------------------------------------------
(* The invariant, and what the run checks of it. *)

NInv == TableInv /\ NTypeOK /\ TreeInv /\ CallInv /\ FlushInv /\ LoadInv

\* The invariant holds in every reachable state of the database.
THEOREM NInvHolds == NSpec => []NInv
<1>1. NInit => NInv
  <2> SUFFICES ASSUME NInit
               PROVE  NInv
    OBVIOUS
  <2>1. NoTable
    BY DEF NInit, Init, NoTable
  <2>2. NTypeOK
    <3>1. letter \in 0 .. Letters + 1
      BY LettersAssumption DEF NInit
    <3> QED
      BY <3>1 DEF NInit, NTypeOK
  <2>3. TreeInv /\ CallInv /\ FlushInv /\ LoadInv
    BY DEF NInit, Init, TreeInv, SkiplistComplete, CallInv, FlushInv, LoadInv
  <2> QED
    BY <2>1, <2>2, <2>3, EmptyTableInv DEF NInv
<1>2. NInv /\ [NNext]_nvars => NInv'
  BY TableStays, NTypeStep, TreeStep, CallStep, FlushStep, LoadStep DEF NInv
<1> QED
  BY <1>1, <1>2, PTL DEF NSpec

\* A tree is complete when it is loaded from, whatever a process that was
\* killed in ensure_skiplist has left.
THEOREM TreeIsCompleted == NSpec => []SkiplistComplete
<1>1. NInv => SkiplistComplete
  BY DEF NInv, TreeInv
<1> QED
  BY <1>1, NInvHolds, PTL

\* A load binds the idents of the readable files, each to the router info of
\* one of them, and counts the files.
THEOREM LoadIsOfDisk == NSpec => []LoadAgreesWithDisk
<1>1. NInv => LoadAgreesWithDisk
  <2> SUFFICES ASSUME NInv, Loaded
               PROVE  /\ Bound = {IdentOf[content[f]] : f \in Readable}
                      /\ \A k \in Bound : \E f \in Readable : content[f] = Lookup(k)
                      /\ loaded = Cardinality(Readable)
                      /\ failed = Cardinality({f \in Listed : content[f] = "noaccess"})
                      /\ sz = Cardinality({IdentOf[content[f]] : f \in Readable})
    BY DEF LoadAgreesWithDisk
  <2>1. Done = Listed
    BY DEF Loaded, Done
  <2>2. DoneReadable = Readable /\ DoneUnopened = {f \in Listed : content[f] = "noaccess"}
    BY <2>1 DEF DoneReadable, Readable, DoneUnopened
  <2>3. BoundAreDone /\ loaded = Cardinality(DoneReadable) /\ failed = Cardinality(DoneUnopened)
    BY DEF Loaded, NInv, LoadInv
  <2>4. sz = Cardinality(Bound)
    BY DEF NInv, TableInv, SizeExact
  <2>5. Bound = {IdentOf[content[f]] : f \in Readable}
    BY <2>2, <2>3 DEF BoundAreDone
  <2> QED
    BY <2>2, <2>3, <2>4, <2>5 DEF BoundAreDone
<1> QED
  BY <1>1, NInvHolds, PTL

\* A flush that fails damages one file at most, that of a resident of buckets 1
\* and up, and does not report success: once result is 0, no later call of
\* netdb_write_entry opens a file.
THEOREM FlushDamagesOne == NSpec => []FlushDamage
<1>1. NInv => FlushDamage
  <2> DEFINE damaged == {f \in File : content[f] # before[f] /\ content[f] \in Damaged}
  <2> SUFFICES ASSUME NInv, proc = "flushing"
               PROVE  /\ Cardinality(damaged) <= 1
                      /\ \A f \in damaged : \E k \in Bound : f = NodeFile[k] /\ SlotOf[k] # 0
                      /\ damaged # {} => result = 0
    BY DEF FlushDamage
  <2>1. CASE content = before
    <3>1. damaged = {}
      BY <2>1
    <3> HIDE DEF damaged
    <3>2. Cardinality({}) = 0
      BY FS_EmptySet
    <3> QED
      BY <3>1, <3>2
  <2>2. CASE content # before
    <3>1. PICK k \in Bound : SlotOf[k] # 0 /\ OthersStay(k) /\ result = 0
      BY <2>2 DEF NInv, FlushInv
    <3>2. damaged = {} \/ damaged = {NodeFile[k]}
      BY <3>1 DEF OthersStay
    <3> HIDE DEF damaged
    <3>3. Cardinality({}) = 0 /\ Cardinality({NodeFile[k]}) = 1
      BY FS_EmptySet, FS_Singleton
    <3> QED
      BY <3>1, <3>2, <3>3
  <2> QED
    BY <2>1, <2>2
<1> QED
  BY <1>1, NInvHolds, PTL
=============================================================================
