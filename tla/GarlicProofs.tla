---------------------------- MODULE GarlicProofs ----------------------------
(***************************************************************************)
(* Theorems about the two tables of the garlic layer.  The transport muxer *)
(* holds one transport of a name and implements the set of transports its  *)
(* header promises, for every number of slots and every set of transports. *)
(* In the tunnel table, for every number of buckets and every set of ids,  *)
(* an id has two nodes at most, side by side, what is found under it does  *)
(* not change, and the free of the table gives back what was put.          *)
(***************************************************************************)
EXTENDS TransportMux, TunnelTable, FiniteSetTheorems, TLAPS

-----------------------------------------------------------------------------
(* The transport muxer. *)

MuxInv == MuxTypeOK /\ OneSlotPerName

LEMMA FirstEmptyExists == ASSUME Slot # Used PROVE \E s \in Slot : s \notin Used
BY DEF Used

\* The call finds a slot or refuses: it does one or the other.
LEMMA RegisterCases ==
    ASSUME MuxTypeOK, NEW i \in Impl, Register(i)
    PROVE  \/ /\ ~IsRegistered(i)
              /\ \E s \in Slot \ Used : links' = [links EXCEPT ![s] = i]
              /\ result' = 1
           \/ /\ IsRegistered(i) \/ Slot = Used
              /\ result' = 0 /\ links' = links
BY DEF Register, FirstEmpty

LEMMA DeregisterCases ==
    ASSUME MuxTypeOK, NEW i \in Impl, Deregister(i)
    PROVE  /\ \/ \E s \in Used :
                   /\ NameOf[links[s]] = NameOf[i]
                   /\ links' = [links EXCEPT ![s] = NoImpl]
              \/ ~IsRegistered(i) /\ links' = links
           /\ result' = result
BY DEF Deregister

LEMMA MuxInvStep == ASSUME MuxInv, [MuxNext]_muxvars PROVE MuxInv'
<1> USE NoImplAssumption DEF MuxInv
<1>1. ASSUME NEW i \in Impl, NEW s \in Slot \ Used, ~IsRegistered(i),
             links' = [links EXCEPT ![s] = i], result' = 1
      PROVE  MuxInv'
  <2>1. MuxTypeOK'
    BY <1>1 DEF MuxTypeOK
  <2>2. Used' = Used \cup {s} /\ \A r \in Used : links'[r] = links[r] /\ links'[s] = i
    BY <1>1 DEF MuxTypeOK, Used
  <2>3. OneSlotPerName'
    BY <1>1, <2>2 DEF OneSlotPerName, IsRegistered
  <2> QED
    BY <2>1, <2>3
<1>2. ASSUME NEW s \in Used, links' = [links EXCEPT ![s] = NoImpl], result' = result
      PROVE  MuxInv'
  <2>1. MuxTypeOK'
    BY <1>2 DEF MuxTypeOK
  <2>2. Used' \subseteq Used /\ \A r \in Used' : links'[r] = links[r]
    BY <1>2 DEF MuxTypeOK, Used
  <2>3. OneSlotPerName'
    BY <2>2 DEF OneSlotPerName
  <2> QED
    BY <2>1, <2>3
<1>3. ASSUME links' = links, result' \in {0, 1} PROVE MuxInv'
  BY <1>3 DEF MuxTypeOK, OneSlotPerName, Used
<1>4. ASSUME NEW i \in Impl, Register(i) PROVE MuxInv'
  BY <1>1, <1>3, <1>4, RegisterCases
<1>5. ASSUME NEW i \in Impl, Deregister(i) PROVE MuxInv'
  <2>1. result \in {0, 1}
    BY DEF MuxTypeOK
  <2> QED
    BY <1>2, <1>3, <1>5, <2>1, DeregisterCases
<1> QED
  BY <1>3, <1>4, <1>5 DEF MuxNext, muxvars, MuxTypeOK

\* Every slot keeps its type and no two slots hold one name
\* (mnet_garlic_transport_register looks past the holes).
THEOREM OneOfAName == MuxSpec => [](MuxTypeOK /\ OneSlotPerName)
<1>1. MuxInit => MuxInv
  BY NoImplAssumption DEF MuxInit, MuxInv, MuxTypeOK, OneSlotPerName, Used
<1> QED
  BY <1>1, MuxInvStep, PTL DEF MuxSpec, MuxInv

\* Registered counts the used slots.
LEMMA UsedCounted ==
    ASSUME MuxInv
    PROVE  /\ IsFiniteSet(Registered)
           /\ Cardinality(Registered) <= Slots
           /\ Cardinality(Registered) = Slots <=> Slot = Used
<1> DEFINE at == [s \in Used |-> links[s]]
<1>1. IsFiniteSet(Slot) /\ Cardinality(Slot) = Slots
  BY FS_Interval, SlotsAssumption DEF Slot
<1>2. /\ IsFiniteSet(Used) /\ Cardinality(Used) <= Slots
      /\ Cardinality(Used) = Slots => Slot = Used
  <2>1. Used \in SUBSET Slot
    BY DEF Used
  <2> QED
    BY <1>1, <2>1, FS_Subset
<1>3. at \in Surjection(Used, Registered)
  BY DEF Surjection, Registered
<1>4. at \in Injection(Used, Registered)
  BY <1>3 DEF Injection, IsInjective, Surjection, MuxInv, OneSlotPerName
<1>5. IsFiniteSet(Registered) /\ Cardinality(Registered) = Cardinality(Used)
  BY <1>2, <1>3, <1>4, FS_Surjection
<1> QED
  BY <1>1, <1>2, <1>5

\* A refusal has its cause: a transport of the name, or as many transports as
\* there are slots.
THEOREM RefusalHasCause == MuxSpec => RefusedForCause
<1>1. ASSUME MuxInv, NEW i \in Impl, Register(i), result' = 0
      PROVE  \/ NameOf[i] \in {NameOf[j] : j \in Registered}
             \/ Cardinality(Registered) = Slots
  <2>1. IsRegistered(i) \/ Slot = Used
    BY <1>1, RegisterCases DEF MuxInv
  <2> QED
    BY <1>1, <2>1, UsedCounted DEF IsRegistered, Registered
<1>2. MuxInv /\ [MuxNext]_muxvars =>
        [\A i \in Impl : Register(i) /\ result' = 0 =>
            NameOf[i] \in {NameOf[j] : j \in Registered} \/ Cardinality(Registered) = Slots]_muxvars
  BY <1>1
<1>3. MuxSpec => []MuxInv
  BY OneOfAName DEF MuxInv
<1> QED
  BY <1>2, <1>3, PTL DEF MuxSpec, RefusedForCause

-----------------------------------------------------------------------------
(* The slots implement the set. *)

LEMMA RegisterAbstract ==
    ASSUME MuxInv, NEW i \in Impl, Register(i) PROVE Abstract!SRegister(i)
<1> USE NoImplAssumption DEF MuxInv, Abstract!SRegister, Abstract!NameTaken
<1>1. IsRegistered(i) <=> \E j \in Registered : NameOf[j] = NameOf[i]
  BY DEF IsRegistered, Registered
<1>2. Abstract!Cardinality(Registered) < Slots <=> Slot # Used
  <2>1. IsFiniteSet(Registered)
    BY UsedCounted
  <2>2. Cardinality(Registered) \in Nat
    BY <2>1, FS_CardinalityType
  <2>3. Cardinality(Registered) = Abstract!Cardinality(Registered)
    BY DEF Cardinality, Abstract!Cardinality
  <2> QED
    BY <2>2, <2>3, UsedCounted, SlotsAssumption
<1>3. CASE /\ ~IsRegistered(i)
           /\ \E s \in Slot \ Used : links' = [links EXCEPT ![s] = i]
           /\ result' = 1
  <2>1. PICK s \in Slot \ Used : links' = [links EXCEPT ![s] = i]
    BY <1>3
  <2>2. Used' = Used \cup {s} /\ \A r \in Used : links'[r] = links[r] /\ links'[s] = i
    BY <2>1 DEF MuxTypeOK, Used
  <2>3. Registered' = Registered \cup {i}
    BY <2>2, <2>1 DEF Registered, Used
  <2>4. Slot # Used
    BY <2>1
  <2> QED
    BY <1>1, <1>2, <1>3, <2>3, <2>4
<1>4. CASE (IsRegistered(i) \/ Slot = Used) /\ result' = 0 /\ links' = links
  <2>1. Registered' = Registered
    BY <1>4 DEF Registered, Used
  <2> QED
    BY <1>1, <1>2, <1>4, <2>1
<1> QED
  BY <1>3, <1>4, RegisterCases

LEMMA DeregisterAbstract ==
    ASSUME MuxInv, NEW i \in Impl, Deregister(i) PROVE Abstract!SDeregister(i)
<1> USE NoImplAssumption DEF MuxInv, Abstract!SDeregister
<1>1. ASSUME NEW s \in Used, NameOf[links[s]] = NameOf[i],
             links' = [links EXCEPT ![s] = NoImpl]
      PROVE  Registered' = {j \in Registered : NameOf[j] # NameOf[i]}
  <2>1. Used' = Used \ {s} /\ \A r \in Used' : links'[r] = links[r]
    BY <1>1 DEF MuxTypeOK, Used
  <2>2. \A r \in Used : NameOf[links[r]] # NameOf[i] <=> r # s
    BY <1>1 DEF OneSlotPerName
  <2> QED
    BY <2>1, <2>2 DEF Registered
<1>2. ASSUME ~IsRegistered(i), links' = links
      PROVE  Registered' = {j \in Registered : NameOf[j] # NameOf[i]}
  BY <1>2 DEF IsRegistered, Registered, Used
<1> QED
  BY <1>1, <1>2, DeregisterCases

\* The muxer is a set of at most Slots transports, one of a name: a register
\* succeeds exactly when the name is free and the set not full, and holes in
\* the array show nowhere.
THEOREM MuxImplementsSet == MuxSpec => ImplementsSet
<1>1. MuxInit => Abstract!SInit
  BY DEF MuxInit, Abstract!SInit, Registered, Used
<1>2. MuxInv /\ [MuxNext]_muxvars => [Abstract!SNext]_<<Registered, result>>
  BY RegisterAbstract, DeregisterAbstract
     DEF MuxNext, muxvars, Abstract!SNext, Registered, Used
<1>3. MuxSpec => []MuxInv
  BY OneOfAName DEF MuxInv
<1> QED
  BY <1>1, <1>2, <1>3, PTL DEF MuxSpec, ImplementsSet, Abstract!SSpec

-----------------------------------------------------------------------------
(* The tunnel table. *)

Node == [tid : Tids, tunnel : Tunnel]

Chains == nodes \in [Bucket -> Seq(Node)]

TableInv == Chains /\ AdjacentCopies

LEMMA HashInBucket == ASSUME NEW tid \in Tids PROVE HashOf(tid) \in Bucket
BY TableAssumption DEF HashOf, Bucket

\* A chain that put takes an id for has it in its last node or not at all.
LEMMA LastOrAbsent ==
    ASSUME NEW chain \in Seq(Node), NEW tid, ~HaveIt(tid, chain),
           NEW i \in DOMAIN chain, chain[i].tid = tid
    PROVE  i = Len(chain)
BY DEF HaveIt

\* What a successful put leaves of the buckets.
LEMMA PutAppends ==
    ASSUME Chains, NEW tid \in Tids, NEW t \in Tunnel,
           nodes' = [nodes EXCEPT ![HashOf(tid)] = Linked(@, [tid |-> tid, tunnel |-> t])]
    PROVE  /\ Chains'
           /\ nodes'[HashOf(tid)] = Append(nodes[HashOf(tid)], [tid |-> tid, tunnel |-> t])
           /\ \A b \in Bucket \ {HashOf(tid)} : nodes'[b] = nodes[b]
<1>1. HashOf(tid) \in Bucket
  BY HashInBucket
<1>2. [tid |-> tid, tunnel |-> t] \in Node
  BY DEF Node
<1>3. Append(nodes[HashOf(tid)], [tid |-> tid, tunnel |-> t]) \in Seq(Node)
  BY <1>1, <1>2 DEF Chains
<1> QED BY <1>1, <1>3 DEF Chains, Linked

LEMMA TableInvInit == TInit => TableInv
BY DEF TInit, TableInv, Chains, AdjacentCopies

LEMMA TableInvStep == TableInv /\ [TNext]_tvars => TableInv'
<1> SUFFICES ASSUME TableInv, [TNext]_tvars PROVE TableInv'
  OBVIOUS
<1>1. CASE nodes' = nodes
  BY <1>1 DEF TableInv, Chains, AdjacentCopies
<1>2. ASSUME NEW tid \in Tids, NEW t \in Tunnel, Put(tid, t), nodes' # nodes PROVE TableInv'
  <2> DEFINE h == HashOf(tid)
             chain == nodes[h]
  <2>1. /\ ~HaveIt(tid, chain)
        /\ nodes' = [nodes EXCEPT ![HashOf(tid)] = Linked(@, [tid |-> tid, tunnel |-> t])]
    BY <1>2 DEF Put
  <2>2. /\ Chains'
        /\ nodes'[h] = Append(chain, [tid |-> tid, tunnel |-> t])
        /\ \A b \in Bucket \ {h} : nodes'[b] = nodes[b]
    BY <2>1, PutAppends DEF TableInv
  <2>3. h \in Bucket /\ chain \in Seq(Node)
    BY HashInBucket DEF TableInv, Chains
  <2>4. ASSUME NEW i \in DOMAIN nodes'[h], NEW j \in DOMAIN nodes'[h],
               i < j, nodes'[h][i].tid = nodes'[h][j].tid
        PROVE  j = i + 1
    <3>1. CASE j \in DOMAIN chain
      <4>1. i \in DOMAIN chain /\ nodes'[h][i] = chain[i] /\ nodes'[h][j] = chain[j]
        BY <2>2, <2>3, <2>4, <3>1
      <4> QED BY <4>1, <3>1, <2>3, <2>4 DEF TableInv, AdjacentCopies
    <3>2. CASE j = Len(chain) + 1
      <4>1. i \in DOMAIN chain /\ nodes'[h][i] = chain[i] /\ nodes'[h][j].tid = tid
        BY <2>2, <2>3, <2>4, <3>2
      <4>2. i = Len(chain)
        BY <4>1, <2>1, <2>3, <2>4, LastOrAbsent
      <4> QED BY <4>2, <3>2
    <3> QED BY <2>2, <2>3, <3>1, <3>2
  <2>5. ASSUME NEW b \in Bucket \ {h}, NEW i \in DOMAIN nodes'[b], NEW j \in DOMAIN nodes'[b],
               i < j, nodes'[b][i].tid = nodes'[b][j].tid
        PROVE  j = i + 1
    BY <2>2, <2>5 DEF TableInv, AdjacentCopies
  <2> QED BY <2>2, <2>4, <2>5 DEF TableInv, AdjacentCopies
<1>3. CASE RemoveTid
  BY <1>1, <1>3 DEF RemoveTid
<1>4. CASE Free
  BY <1>4 DEF Free, TableInv, Chains, AdjacentCopies
<1>5. CASE UNCHANGED tvars
  BY <1>1, <1>5 DEF tvars
<1> QED BY <1>1, <1>2, <1>3, <1>4, <1>5 DEF TNext

\* An id has at most two nodes in its bucket, the second right behind the
\* first: mnet_garlic_tc_hashmap_put misses the last node of a chain, and then
\* only.
THEOREM AtMostTwoCopies == TSpec => []AdjacentCopies
<1>1. TableInv => AdjacentCopies
  BY DEF TableInv
<1> QED BY TableInvInit, TableInvStep, <1>1, PTL DEF TSpec

\* A put behind the nodes of a chain leaves what get finds first.
LEMMA PutKeepsGet ==
    ASSUME TableInv, NEW tid \in Tids, NEW t \in Tunnel, Put(tid, t),
           NEW id \in Tids, Get(id) # {}
    PROVE  Get(id)' = Get(id)
<1> DEFINE b == HashOf(id)
<1>0. b \in Bucket /\ nodes[b] \in Seq(Node)
  BY HashInBucket DEF TableInv, Chains
<1>1. CASE nodes'[b] = nodes[b]
  BY <1>1 DEF Get, Found
<1>2. CASE nodes'[b] # nodes[b]
  <2>1. nodes' = [nodes EXCEPT ![HashOf(tid)] = Linked(@, [tid |-> tid, tunnel |-> t])]
    BY <1>2 DEF Put
  <2>2. nodes'[b] = Append(nodes[b], [tid |-> tid, tunnel |-> t])
    BY <1>0, <1>2, <2>1, PutAppends DEF TableInv
  <2>3. PICK k \in Found(id) : \A j \in Found(id) : k <= j
    BY DEF Get
  <2>4. /\ k \in DOMAIN nodes[b] /\ nodes[b][k].tid = id
        /\ \A j \in DOMAIN nodes[b] : nodes[b][j].tid = id => k <= j
    BY <2>3 DEF Found
  <2>5. /\ DOMAIN nodes'[b] = 1 .. Len(nodes[b]) + 1
        /\ \A i \in DOMAIN nodes[b] : nodes'[b][i] = nodes[b][i]
        /\ DOMAIN nodes[b] = 1 .. Len(nodes[b]) /\ Len(nodes[b]) \in Nat
    BY <1>0, <2>2
  <2>6. /\ k \in Found(id)' /\ nodes'[b][k] = nodes[b][k]
        /\ \A j \in Found(id)' : k <= j
    BY <2>4, <2>5 DEF Found
  <2>7. Get(id) = {nodes[b][k].tunnel}
    <3>1. \A i \in Found(id) : (\A j \in Found(id) : i <= j) => i = k
      BY <2>3, <2>4, <2>5 DEF Found
    <3> QED BY <2>3, <3>1 DEF Get
  <2>8. Get(id)' = {nodes'[b][k].tunnel}
    <3>1. \A i \in Found(id)' : (\A j \in Found(id)' : i <= j) => i = k
      BY <2>6, <2>4, <2>5 DEF Found
    <3> QED BY <2>6, <3>1 DEF Get
  <2> QED BY <2>6, <2>7, <2>8
<1> QED BY <1>1, <1>2

\* What mnet_garlic_tc_hashmap_get finds under an id it finds until the table
\* is freed.
THEOREM FirstTunnelStays == TSpec => FirstStays
<1>1. TableInv /\ [TNext]_tvars =>
        [live' => \A tid \in Tids : Get(tid) # {} => Get(tid)' = Get(tid)]_tvars
  <2> SUFFICES ASSUME TableInv, [TNext]_tvars, live', NEW id \in Tids, Get(id) # {}, tvars' # tvars
               PROVE  Get(id)' = Get(id)
    OBVIOUS
  <2>1. ASSUME NEW tid \in Tids, NEW t \in Tunnel, Put(tid, t) PROVE Get(id)' = Get(id)
    BY <2>1, PutKeepsGet
  <2>2. CASE RemoveTid
    BY <2>2 DEF RemoveTid, Get, Found
  <2>3. CASE Free
    BY <2>3 DEF Free
  <2> QED BY <2>1, <2>2, <2>3 DEF TNext
<1> QED BY TableInvInit, TableInvStep, <1>1, PTL DEF TSpec, FirstStays

-----------------------------------------------------------------------------
(* What the free of the table gives back. *)

\* A tunnel has been taken as often as there are nodes with it, as long as the
\* table lives.
Books ==
    /\ calls \in Nat
    /\ \A b \in Bucket : Len(nodes[b]) <= calls
    /\ taken \in [Tunnel -> Nat] /\ freed \in [Tunnel -> Nat]
    /\ live => \A t \in Tunnel : freed[t] = 0 /\ taken[t] = Cardinality(FreedOf(t))
    /\ FreedAsTaken

LEMMA FreedOfIsFinite == ASSUME calls \in Nat, NEW t PROVE IsFiniteSet(FreedOf(t))
<1>1. IsFiniteSet(Bucket) /\ IsFiniteSet(1 .. calls)
  BY FS_Interval, TableAssumption DEF Bucket
<1>2. IsFiniteSet(Bucket \X (1 .. calls))
  BY <1>1, FS_Product
<1> QED BY <1>2, FS_Subset DEF FreedOf

\* A put that is taken adds one node, of its own tunnel.
LEMMA PutAddsOne ==
    ASSUME Chains, Books, NEW tid \in Tids, NEW t \in Tunnel, calls' = calls + 1,
           nodes' = [nodes EXCEPT ![HashOf(tid)] = Linked(@, [tid |-> tid, tunnel |-> t])]
    PROVE  /\ \A b \in Bucket : Len(nodes'[b]) <= calls'
           /\ \A u \in Tunnel :
                 Cardinality(FreedOf(u)') = Cardinality(FreedOf(u)) + (IF u = t THEN 1 ELSE 0)
<1> DEFINE h == HashOf(tid)
           n == Len(nodes[h]) + 1
<1>1. /\ h \in Bucket /\ nodes[h] \in Seq(Node) /\ calls \in Nat
      /\ nodes'[h] = Append(nodes[h], [tid |-> tid, tunnel |-> t])
      /\ \A b \in Bucket \ {h} : nodes'[b] = nodes[b]
      /\ \A b \in Bucket : Len(nodes[b]) \in Nat /\ Len(nodes[b]) <= calls
  <2>1. h \in Bucket
    BY HashInBucket
  <2>2. /\ nodes'[h] = Append(nodes[h], [tid |-> tid, tunnel |-> t])
        /\ \A b \in Bucket \ {h} : nodes'[b] = nodes[b]
    BY PutAppends
  <2>3. calls \in Nat /\ \A b \in Bucket : nodes[b] \in Seq(Node) /\ Len(nodes[b]) <= calls
    BY DEF Chains, Books
  <2>4. \A b \in Bucket : Len(nodes[b]) \in Nat
    BY <2>3
  <2> QED BY <2>1, <2>2, <2>3, <2>4
<1>2. /\ Len(nodes'[h]) = n /\ nodes'[h][n].tunnel = t /\ n \in 1 .. calls + 1
      /\ \A i \in 1 .. Len(nodes[h]) : nodes'[h][i] = nodes[h][i]
  BY <1>1
<1>3. \A b \in Bucket : Len(nodes'[b]) <= calls'
  BY <1>1, <1>2
<1>4. ASSUME NEW u \in Tunnel
      PROVE  Cardinality(FreedOf(u)') = Cardinality(FreedOf(u)) + (IF u = t THEN 1 ELSE 0)
  <2> HIDE DEF h, n
  <2>1. <<h, n>> \notin FreedOf(u)
    BY <1>1 DEF FreedOf, n
  <2>2. ASSUME NEW b \in Bucket, NEW i \in 1 .. calls + 1
        PROVE  <<b, i>> \in FreedOf(u)' <=>
                  <<b, i>> \in FreedOf(u) \/ (u = t /\ b = h /\ i = n)
    <3>1. <<b, i>> \in FreedOf(u)' <=> i <= Len(nodes'[b]) /\ nodes'[b][i].tunnel = u
      BY DEF FreedOf
    <3>2. <<b, i>> \in FreedOf(u) <=> i <= Len(nodes[b]) /\ nodes[b][i].tunnel = u
      BY <1>1 DEF FreedOf
    <3>3. CASE b # h
      BY <1>1, <3>1, <3>2, <3>3
    <3>4. CASE b = h
      <4>1. n = Len(nodes[h]) + 1 /\ Len(nodes[h]) \in Nat
        BY <1>1 DEF n
      <4>2. i <= Len(nodes'[b]) <=> i <= Len(nodes[b]) \/ i = n
        BY <1>2, <3>4, <4>1
      <4>3. i <= Len(nodes[b]) => i # n /\ nodes'[b][i] = nodes[b][i]
        BY <1>2, <3>4, <4>1
      <4> QED BY <1>2, <3>1, <3>2, <3>4, <4>2, <4>3
    <3> QED BY <3>3, <3>4
  <2>3. FreedOf(u)' \subseteq Bucket \X (1 .. calls + 1)
        /\ FreedOf(u) \subseteq Bucket \X (1 .. calls + 1)
    BY <1>1 DEF FreedOf
  <2>4. CASE u = t
    <3>1. FreedOf(u)' = FreedOf(u) \cup {<<h, n>>}
      BY <1>1, <1>2, <2>2, <2>3, <2>4
    <3>2. IsFiniteSet(FreedOf(u))
      BY <1>1, FreedOfIsFinite
    <3>3. Cardinality(FreedOf(u) \cup {<<h, n>>}) = Cardinality(FreedOf(u)) + 1
      BY <2>1, <3>2, FS_AddElement
    <3> QED BY <2>4, <3>1, <3>3
  <2>5. CASE u # t
    <3>1. FreedOf(u)' = FreedOf(u)
      BY <2>2, <2>3, <2>5
    <3>2. Cardinality(FreedOf(u)) \in Nat
      BY <1>1, FreedOfIsFinite, FS_CardinalityType
    <3> QED BY <2>5, <3>1, <3>2
  <2> QED BY <2>4, <2>5
<1> QED BY <1>3, <1>4

LEMMA BooksStep == Chains /\ Books /\ [TNext]_tvars => Books'
<1> SUFFICES ASSUME Chains, Books, [TNext]_tvars PROVE Books'
  OBVIOUS
<1>1. ASSUME UNCHANGED <<nodes, calls, taken, freed, live>> PROVE Books'
  BY <1>1 DEF Books, FreedOf, FreedAsTaken
<1>2. ASSUME NEW tid \in Tids, NEW t \in Tunnel, Put(tid, t) PROVE Books'
  <2>1. /\ live /\ live' = live /\ freed' = freed /\ calls \in Nat /\ calls' = calls + 1
        /\ taken \in [Tunnel -> Nat] /\ freed \in [Tunnel -> Nat]
        /\ \A u \in Tunnel : freed[u] = 0 /\ taken[u] = Cardinality(FreedOf(u))
        /\ \A b \in Bucket : Len(nodes[b]) \in Nat /\ Len(nodes[b]) <= calls
    BY <1>2 DEF Put, Books, Chains
  <2>2. CASE UNCHANGED <<nodes, taken>>
    <3>1. ASSUME NEW u \in Tunnel PROVE FreedOf(u)' = FreedOf(u)
      BY <2>1, <2>2 DEF FreedOf
    <3> QED BY <2>1, <2>2, <3>1 DEF Books, FreedAsTaken
  <2>3. CASE /\ nodes' = [nodes EXCEPT ![HashOf(tid)] = Linked(@, [tid |-> tid, tunnel |-> t])]
             /\ taken' = [taken EXCEPT ![t] = @ + 1]
    <3>1. /\ \A b \in Bucket : Len(nodes'[b]) <= calls'
          /\ \A u \in Tunnel :
                Cardinality(FreedOf(u)') = Cardinality(FreedOf(u)) + (IF u = t THEN 1 ELSE 0)
      BY <2>1, <2>3, PutAddsOne
    <3>2. taken' \in [Tunnel -> Nat]
          /\ \A u \in Tunnel : taken'[u] = taken[u] + (IF u = t THEN 1 ELSE 0)
      BY <2>1, <2>3
    <3>3. \A u \in Tunnel : freed'[u] = 0 /\ taken'[u] = Cardinality(FreedOf(u)')
      BY <2>1, <3>1, <3>2
    <3> QED BY <2>1, <3>1, <3>2, <3>3 DEF Books, FreedAsTaken
  <2> QED BY <1>2, <2>2, <2>3 DEF Put
<1>3. CASE RemoveTid
  BY <1>1, <1>3 DEF RemoveTid
<1>4. CASE Free
  <2>1. /\ live' = FALSE /\ calls' = calls /\ taken' = taken /\ calls \in Nat
        /\ nodes' = [b \in Bucket |-> <<>>]
        /\ taken \in [Tunnel -> Nat]
        /\ freed' = [t \in Tunnel |-> freed[t] + Cardinality(FreedOf(t))]
        /\ \A t \in Tunnel : freed[t] = 0 /\ taken[t] = Cardinality(FreedOf(t))
    BY <1>4 DEF Free, Books
  <2>2. freed' = taken'
    BY <2>1
  <2> QED BY <2>1, <2>2 DEF Books, FreedAsTaken
<1>5. CASE UNCHANGED tvars
  BY <1>1, <1>5 DEF tvars
<1> QED BY <1>2, <1>3, <1>4, <1>5 DEF TNext

\* The free of a table frees every tunnel exactly as often as put has taken it,
\* in whatever buckets and under however many nodes of its id it is.
THEOREM FreesAsTaken == TSpec => []FreedAsTaken
<1>1. TInit => Chains /\ Books
  <2> SUFFICES ASSUME TInit PROVE Chains /\ Books
    OBVIOUS
  <2>1. ASSUME NEW t \in Tunnel PROVE Cardinality(FreedOf(t)) = 0
    <3>1. FreedOf(t) = {}
      BY DEF FreedOf, TInit
    <3> QED BY <3>1, FS_EmptySet
  <2>2. Chains
    BY TableInvInit DEF TableInv
  <2> QED BY <2>1, <2>2 DEF TInit, Books, FreedAsTaken
<1>2. TableInv /\ Books /\ [TNext]_tvars => Books'
  BY BooksStep DEF TableInv
<1>3. Books => FreedAsTaken
  BY DEF Books
<1> QED BY TableInvInit, TableInvStep, <1>1, <1>2, <1>3, PTL DEF TSpec
=============================================================================
