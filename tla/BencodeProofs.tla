---------------------------- MODULE BencodeProofs ----------------------------
(***************************************************************************)
(* Theorems about bencode.  What the insertion loop of the dict leaves,    *)
(* for every set of keys and any number of sets, is either a chain in      *)
(* which each node was put before all earlier ones, since it can do no     *)
(* other insertion, or a circle that nothing opens again.  The streaming   *)
(* reader writes a string and a key inside the memory it has for them,     *)
(* for every number of frames, every first size of a buffer and every      *)
(* text, whole or not bencode at all.                                      *)
(***************************************************************************)
EXTENDS BencodeDict, BencodeStream, WellFoundedInduction, TLAPS

-----------------------------------------------------------------------------
(* A set of naturals has a least element. *)

LEMMA LessIsWellFounded == IsWellFoundedOn({p \in Nat \X Nat : p[1] < p[2]}, Nat)
BY NatLessThanWellFounded DEF OpToRel

LEMMA LeastNatural ==
    ASSUME NEW T, T \subseteq Nat, T # {}
    PROVE  \E n \in T : \A m \in T : n <= m
<1> DEFINE R == {p \in Nat \X Nat : p[1] < p[2]}
<1>1. IsWellFoundedOn(R, Nat)
  BY LessIsWellFounded
<1> HIDE DEF R
<1>2. \E n \in T : \A m \in T : ~(<<m, n>> \in R)
  BY <1>1, WFMin
<1>3. PICK n \in T : \A m \in T : ~(<<m, n>> \in R)
  BY <1>2
<1>4. ASSUME NEW m \in T PROVE n <= m
  <2>1. ~(<<m, n>> \in R)
    BY <1>3
  <2>2. ~(m < n)
    BY <2>1 DEF R
  <2> QED BY <2>2
<1> QED BY <1>4

-----------------------------------------------------------------------------
(* The two shapes of a dict. *)

Place == 0 .. count

\* Each node was put before those that were there.
Chain ==
    /\ next[HEAD] = IF count = 0 THEN NULL ELSE count
    /\ count > 0 => next[1] = NULL
    /\ \A n \in Nodes : n > 1 => next[n] = n - 1 /\ key[n] < key[n - 1]

\* The nodes of S lead to one another and nowhere else, the loop of a
\* dict_set included.
Closed(S) ==
    /\ HEAD \in S
    /\ \A s \in S : next[s] \in S
    /\ phase = "seek" => curr \in S /\ nxt \in S

Circle == \E S \in SUBSET Place : Closed(S)

\* While the two pointers differ they are at the beginning; when they are the
\* same, the keys behind them are not above the new one.
SeekInv ==
    phase = "seek" =>
        \/ curr = HEAD /\ nxt = next[HEAD]
        \/ /\ count > 0 /\ curr = nxt /\ nxt \in Nodes \cup {NULL}
           /\ \A n \in Nodes : n > nxt => key[n] <= arg

\* A free goes down the chain and has freed what is above it.
FreeInv ==
    phase = "free" =>
        \/ node = HEAD /\ freed = {}
        \/ node \in Nodes \cup {NULL} /\ \A n \in freed : n > node

CrashInv == phase = "crashed" => count > 0 /\ \A n \in Nodes : key[n] <= arg

DTypeOK ==
    /\ phase \in {"idle", "seek", "iter", "free", "crashed"}
    /\ count \in Nat
    /\ next \in [Place -> Place \cup {NULL}]
    /\ key \in [Nodes -> Nat] /\ arg \in Nat
    /\ node \in Place \cup {NULL} /\ freed \subseteq Nodes
    /\ phase \notin {"free", "crashed"} => freed = {}

\* What a dict is: of one shape or the other.
Shape == Circle \/ (Chain /\ SeekInv /\ FreeInv /\ CrashInv)

DInv == DTypeOK /\ Shape

-----------------------------------------------------------------------------
(* What each step makes of them. *)

USE KeyAssumption DEF HEAD, NULL, Nodes, Place

LEMMA DInit == Init => DInv
BY DEF Init, DInv, DTypeOK, Shape, Chain, SeekInv, FreeInv, CrashInv

\* Nothing that leaves the pointers alone opens a circle.
LEMMA CircleStays ==
    ASSUME Circle, UNCHANGED <<count, next>>, phase' = "seek" => UNCHANGED <<phase, curr, nxt>>
    PROVE  Circle'
<1>1. PICK S \in SUBSET Place : Closed(S)
  BY DEF Circle
<1>2. S \in SUBSET Place' /\ Closed(S)'
  BY <1>1 DEF Closed
<1> QED BY <1>2 DEF Circle

LEMMA DictSetStep == ASSUME DInv, NEW k \in Key, DictSet(k) PROVE DInv'
<1>1. /\ phase = "idle" /\ phase' = "seek" /\ arg' = k /\ curr' = HEAD /\ nxt' = next[HEAD]
      /\ UNCHANGED <<count, next, key, node, freed>> /\ k \in Nat
  BY DEF DictSet
<1>2. DTypeOK'
  BY <1>1 DEF DInv, DTypeOK
<1>3. CASE Circle
  <2>1. PICK S \in SUBSET Place : Closed(S)
    BY <1>3 DEF Circle
  <2>2. S \in SUBSET Place' /\ Closed(S)'
    BY <1>1, <2>1 DEF Closed
  <2> QED BY <1>2, <2>2 DEF DInv, Shape, Circle
<1>4. CASE Chain
  BY <1>1, <1>2, <1>4 DEF DInv, Shape, Chain, SeekInv, FreeInv, CrashInv
<1> QED BY <1>3, <1>4 DEF DInv, Shape

LEMMA SeekStep == ASSUME DInv, Seek PROVE DInv'
<1>1. /\ phase = "seek" /\ phase' = "seek" /\ ~Before(nxt) /\ curr' = next[curr] /\ nxt' = next[curr]
      /\ UNCHANGED <<count, next, key, arg, node, freed>>
  BY DEF Seek
<1>2. DTypeOK'
  BY <1>1 DEF DInv, DTypeOK
<1>3. CASE Circle
  <2>1. PICK S \in SUBSET Place : Closed(S)
    BY <1>3 DEF Circle
  <2>2. S \in SUBSET Place' /\ Closed(S)'
    BY <1>1, <2>1 DEF Closed
  <2> QED BY <1>2, <2>2 DEF DInv, Shape, Circle
<1>4. CASE Chain /\ SeekInv
  <2>1. nxt # NULL /\ ~(key[nxt] > arg)
    BY <1>1 DEF Before
  <2>2. Chain' /\ FreeInv' /\ CrashInv'
    BY <1>1, <1>4 DEF Chain, FreeInv, CrashInv
  <2>3. /\ count \in Nat /\ key \in [Nodes -> Nat] /\ arg \in Nat
        /\ next \in [Place -> Place \cup {NULL}]
    BY DEF DInv, DTypeOK
  <2>4. CASE curr = HEAD /\ nxt = next[HEAD]
    <3>1. count > 0 /\ nxt = count /\ nxt' = count /\ curr' = nxt'
      BY <1>1, <1>4, <2>1, <2>3, <2>4 DEF Chain
    <3> QED BY <1>1, <1>2, <2>2, <2>3, <3>1 DEF DInv, Shape, SeekInv
  <2>5. CASE /\ count > 0 /\ curr = nxt /\ nxt \in Nodes \cup {NULL}
             /\ \A n \in Nodes : n > nxt => key[n] <= arg
    <3>1. nxt \in Nodes /\ key[nxt] <= arg /\ curr' = nxt' /\ nxt' = next[nxt]
      BY <1>1, <2>1, <2>3, <2>5
    <3>2. nxt' = IF nxt = 1 THEN NULL ELSE nxt - 1
      BY <1>4, <2>3, <2>5, <3>1 DEF Chain
    <3>3. \A n \in Nodes : n > nxt' => key[n] <= arg
      BY <2>3, <2>5, <3>1, <3>2
    <3>4. nxt' \in Nodes \cup {NULL}
      BY <2>3, <3>1, <3>2
    <3> QED BY <1>1, <1>2, <2>2, <2>5, <3>1, <3>3, <3>4 DEF DInv, Shape, SeekInv
  <2> QED BY <1>1, <1>4, <2>4, <2>5 DEF SeekInv
<1> QED BY <1>3, <1>4 DEF DInv, Shape

\* The new node is the first of the chain, or it closes a circle with those that
\* were passed: both of its pointers are the node that the loop has stopped at.
LEMMA LinkStep == ASSUME DInv, Link PROVE DInv'
<1>1. /\ phase = "seek" /\ phase' = "idle" /\ Before(nxt) /\ curr # NULL /\ count' = count + 1
      /\ key' = [n \in 1 .. count + 1 |-> IF n = count + 1 THEN arg ELSE key[n]]
      /\ next' = [n \in 0 .. count + 1 |->
                    CASE n = curr -> count + 1 [] n = count + 1 -> nxt [] OTHER -> next[n]]
      /\ UNCHANGED <<arg, node, freed>>
  BY DEF Link, New
<1>2. /\ count \in Nat /\ key \in [Nodes -> Nat] /\ arg \in Nat /\ freed = {}
      /\ next \in [Place -> Place \cup {NULL}]
  BY <1>1 DEF DInv, DTypeOK
<1>3. CASE Circle
  <2>1. PICK S \in SUBSET Place : Closed(S)
    BY <1>3 DEF Circle
  <2>2. curr \in S /\ nxt \in S /\ curr \in Place /\ nxt \in Place
    BY <1>1, <2>1 DEF Closed
  <2>3. \A n \in Place : n # count + 1
    BY <1>2
  <2>4. /\ next'[curr] = count + 1 /\ next'[count + 1] = nxt
        /\ \A n \in Place : n # curr => next'[n] = next[n]
    BY <1>1, <1>2, <2>2, <2>3
  <2> PICK C : C = S \cup {count + 1}
    OBVIOUS
  <2>5. C \in SUBSET Place'
    BY <1>1, <1>2
  <2>6. Closed(C)'
    <3>1. HEAD \in C
      BY <2>1 DEF Closed
    <3>2. ASSUME NEW s \in C PROVE next'[s] \in C
      <4>1. CASE s \in S /\ s # curr
        BY <2>1, <2>4, <4>1 DEF Closed
      <4>2. CASE s = curr \/ s = count + 1
        BY <2>2, <2>4, <4>2
      <4> QED BY <4>1, <4>2
    <3> QED BY <1>1, <3>1, <3>2 DEF Closed
  <2>7. DTypeOK'
    <3>1. next' \in [Place' -> Place' \cup {NULL}]
      BY <1>1, <1>2, <2>2
    <3>2. key' \in [Nodes' -> Nat]
      BY <1>1, <1>2
    <3> QED BY <1>1, <1>2, <3>1, <3>2 DEF DInv, DTypeOK
  <2> QED BY <2>5, <2>6, <2>7 DEF DInv, Shape, Circle
<1>4. CASE Chain /\ SeekInv
  <2>1. nxt = NULL \/ key[nxt] > arg
    BY <1>1 DEF Before
  <2>2. CASE curr = HEAD /\ nxt = next[HEAD]
    <3>1. nxt = IF count = 0 THEN NULL ELSE count
      BY <1>4, <2>2 DEF Chain
    <3>2. /\ next'[HEAD] = count + 1 /\ next'[count + 1] = nxt
          /\ \A n \in Nodes : next'[n] = next[n]
          /\ key'[count + 1] = arg /\ \A n \in Nodes : key'[n] = key[n]
      BY <1>1, <1>2, <2>2
    <3>3. Chain'
      <4>1. \A n \in 1 .. count + 1 : n > 1 => next'[n] = n - 1 /\ key'[n] < key'[n - 1]
        <5>1. ASSUME NEW n \in Nodes, n > 1
              PROVE  next'[n] = n - 1 /\ key'[n] < key'[n - 1]
          BY <1>2, <1>4, <3>2, <5>1 DEF Chain
        <5>2. count > 0 => next'[count + 1] = count /\ key'[count + 1] < key'[count]
          <6> SUFFICES ASSUME count > 0
                       PROVE  next'[count + 1] = count /\ key'[count + 1] < key'[count]
            OBVIOUS
          <6>1. nxt = count /\ count \in Nodes /\ key[count] \in Nat
            BY <1>2, <3>1
          <6>2. key[count] > arg
            BY <1>2, <2>1, <6>1
          <6>3. key'[count] = key[count] /\ key'[count + 1] = arg /\ next'[count + 1] = count
            BY <1>2, <3>2, <6>1
          <6> QED BY <1>2, <6>1, <6>2, <6>3
        <5> SUFFICES ASSUME NEW n \in 1 .. count + 1, n > 1
                     PROVE  next'[n] = n - 1 /\ key'[n] < key'[n - 1]
          OBVIOUS
        <5>3. CASE n = count + 1
          <6>1. count > 0 /\ n - 1 = count
            BY <1>2, <5>3
          <6> QED BY <5>2, <5>3, <6>1
        <5>4. CASE n # count + 1
          <6>1. n \in Nodes
            BY <1>2, <5>4
          <6> QED BY <5>1, <6>1
        <5> QED BY <5>3, <5>4
      <4>2. next'[1] = NULL
        BY <1>2, <1>4, <3>1, <3>2 DEF Chain
      <4>3. next'[HEAD] = IF count' = 0 THEN NULL ELSE count'
        BY <1>1, <1>2, <3>2
      <4> QED BY <1>1, <4>1, <4>2, <4>3 DEF Chain
    <3>4. DTypeOK'
      <4>1. next' \in [Place' -> Place' \cup {NULL}]
        BY <1>1, <1>2, <2>2
      <4>2. key' \in [Nodes' -> Nat]
        BY <1>1, <1>2
      <4> QED BY <1>1, <1>2, <4>1, <4>2 DEF DInv, DTypeOK
    <3> QED BY <1>1, <3>3, <3>4 DEF DInv, Shape, SeekInv, FreeInv, CrashInv
  <2>3. CASE /\ count > 0 /\ curr = nxt /\ nxt \in Nodes \cup {NULL}
             /\ \A n \in Nodes : n > nxt => key[n] <= arg
    <3> PICK S : S = {HEAD} \cup (curr .. count + 1)
      OBVIOUS
    <3>1. curr \in Nodes
      BY <1>1, <2>3
    <3>2. /\ next'[curr] = count + 1 /\ next'[count + 1] = curr /\ next'[HEAD] = count
          /\ \A n \in Nodes : n > curr => next'[n] = n - 1
      <4>1. next'[curr] = count + 1 /\ next'[count + 1] = curr
        BY <1>1, <1>2, <2>3, <3>1
      <4>2. next'[HEAD] = next[HEAD]
        BY <1>1, <1>2, <3>1
      <4>3. \A n \in Nodes : n > curr => next'[n] = next[n] /\ n > 1
        BY <1>1, <1>2, <3>1
      <4> QED BY <1>2, <1>4, <2>3, <4>1, <4>2, <4>3 DEF Chain
    <3>3. S \in SUBSET Place'
      BY <1>1, <1>2, <3>1
    <3>4. \A s \in S : next'[s] \in S
      <4>1. ASSUME NEW s \in curr .. count + 1
            PROVE  next'[s] \in curr .. count + 1
        <5>1. CASE s = curr \/ s = count + 1
          <6>1. next'[s] = count + 1 \/ next'[s] = curr
            BY <3>2, <5>1
          <6> QED BY <1>2, <3>1, <6>1
        <5>2. CASE s > curr /\ s \in Nodes
          BY <1>2, <3>1, <3>2, <5>2
        <5> QED BY <1>2, <3>1, <5>1, <5>2
      <4>2. next'[HEAD] \in curr .. count + 1
        BY <1>2, <3>1, <3>2
      <4> QED BY <4>1, <4>2
    <3>5. Closed(S)'
      BY <1>1, <3>4 DEF Closed
    <3>6. DTypeOK'
      <4>1. next' \in [Place' -> Place' \cup {NULL}]
        BY <1>1, <1>2, <2>3, <3>1
      <4>2. key' \in [Nodes' -> Nat]
        BY <1>1, <1>2
      <4> QED BY <1>1, <1>2, <4>1, <4>2 DEF DInv, DTypeOK
    <3> QED BY <3>3, <3>5, <3>6 DEF DInv, Shape, Circle
  <2> QED BY <1>1, <1>4, <2>2, <2>3 DEF SeekInv
<1> QED BY <1>3, <1>4 DEF DInv, Shape

LEMMA LinkNullStep == ASSUME DInv, LinkNull PROVE DInv'
<1>1. /\ phase = "seek" /\ phase' = "crashed" /\ nxt = NULL /\ curr = NULL
      /\ UNCHANGED <<count, next, key, arg, node, freed>>
  BY DEF LinkNull
<1>2. DTypeOK'
  BY <1>1 DEF DInv, DTypeOK
<1>3. CASE Circle
  BY <1>1, <1>2, <1>3, CircleStays DEF DInv, Shape
<1>4. CASE Chain /\ SeekInv
  <2>1. count > 0 /\ \A n \in Nodes : key[n] <= arg
    BY <1>1, <1>4 DEF SeekInv, DInv, DTypeOK
  <2> QED BY <1>1, <1>2, <1>4, <2>1 DEF DInv, Shape, Chain, SeekInv, FreeInv, CrashInv
<1> QED BY <1>3, <1>4 DEF DInv, Shape

\* Iterating changes nothing; a free that has begun has freed nothing yet.
LEMMA IterStays ==
    ASSUME DInv, IterDict \/ IterStep \/ IterReturns \/ ObjFree
    PROVE  DInv'
<1>1. /\ phase \in {"idle", "iter"} /\ phase' \in {"iter", "idle", "free"}
      /\ phase' = "free" => node' = HEAD
      /\ UNCHANGED <<count, next, key, arg, curr, nxt, freed>>
  BY DEF IterDict, IterStep, IterReturns, ObjFree
<1>2. DTypeOK' /\ freed' = {}
  <2>1. node' \in Place \cup {NULL}
    BY DEF IterDict, IterStep, IterReturns, ObjFree, DInv, DTypeOK
  <2> QED BY <1>1, <2>1 DEF DInv, DTypeOK
<1>3. CASE Circle
  BY <1>1, <1>2, <1>3, CircleStays DEF DInv, Shape
<1>4. CASE Chain
  BY <1>1, <1>2, <1>4 DEF DInv, Shape, Chain, SeekInv, FreeInv, CrashInv
<1> QED BY <1>3, <1>4 DEF DInv, Shape

LEMMA FreeStepStays == ASSUME DInv, FreeStep PROVE DInv'
<1>1. /\ phase = "free" /\ node # NULL /\ phase' \in {"free", "crashed"}
      /\ UNCHANGED <<count, next, key, arg, curr, nxt>>
      /\ \/ node \in freed /\ phase' = "crashed" /\ UNCHANGED <<freed, node>>
         \/ /\ node \notin freed /\ phase' = "free"
            /\ freed' = freed \cup ({node} \ {HEAD}) /\ node' = next[node]
  BY DEF FreeStep
<1>2. /\ count \in Nat /\ next \in [Place -> Place \cup {NULL}] /\ freed \subseteq Nodes
  BY DEF DInv, DTypeOK
<1>3. CASE Chain /\ FreeInv
  <2>1. CASE node = HEAD /\ freed = {}
    <3>1. freed' = {} /\ phase' = "free" /\ node' \in Nodes \cup {NULL}
      BY <1>1, <1>2, <1>3, <2>1 DEF Chain
    <3> QED BY <1>1, <1>3, <2>1, <3>1 DEF DInv, DTypeOK, Shape, Chain, SeekInv, FreeInv, CrashInv
  <2>2. CASE node \in Nodes \cup {NULL} /\ \A n \in freed : n > node
    <3>1. node \in Nodes /\ node \notin freed
      BY <1>1, <1>2, <2>2
    <3>2. phase' = "free" /\ freed' = freed \cup {node}
      BY <1>1, <1>2, <3>1
    <3>3. node' = IF node = 1 THEN NULL ELSE node - 1
      BY <1>1, <1>2, <1>3, <3>1 DEF Chain
    <3>4. node' \in Nodes \cup {NULL} /\ node > node' /\ \A n \in freed : n > node'
      BY <1>2, <2>2, <3>1, <3>3
    <3>5. DTypeOK' /\ Chain' /\ SeekInv' /\ CrashInv'
      BY <1>1, <1>3, <3>1, <3>2 DEF DInv, DTypeOK, Chain, SeekInv, CrashInv
    <3>6. FreeInv'
      BY <1>1, <3>2, <3>4 DEF FreeInv
    <3> QED BY <3>5, <3>6 DEF DInv, Shape
  <2> QED BY <1>1, <1>3, <2>1, <2>2 DEF FreeInv
<1>4. CASE Circle
  <2>1. freed' \subseteq Nodes
    <3>1. node \in Place \cup {NULL}
      BY DEF DInv, DTypeOK
    <3>2. node \in Nodes \cup {HEAD}
      BY <1>1, <1>2, <3>1
    <3>3. {node} \ {HEAD} \subseteq Nodes
      BY <3>2
    <3> QED BY <1>1, <1>2, <3>3
  <2>2. DTypeOK'
    BY <1>1, <1>2, <2>1 DEF DInv, DTypeOK
  <2> QED BY <1>1, <1>4, <2>2, CircleStays DEF DInv, Shape
<1> QED BY <1>3, <1>4 DEF DInv, Shape

LEMMA FreeReturnsStep == ASSUME DInv, FreeReturns PROVE DInv'
BY DEF FreeReturns, DInv, DTypeOK, Shape, Chain, SeekInv, FreeInv, CrashInv

\* The invariant is that of every sequence of calls.
LEMMA DInvHolds == Spec => []DInv
<1>1. DInv /\ [Next]_vars => DInv'
  <2> SUFFICES ASSUME DInv, [Next]_vars PROVE DInv'
    OBVIOUS
  <2>1. ASSUME NEW k \in Key, DictSet(k) PROVE DInv'
    BY <2>1, DictSetStep
  <2>2. CASE IterDict \/ ObjFree
    BY <2>2, IterStays
  <2>3. CASE Step
    BY <2>3, SeekStep, LinkStep, LinkNullStep, IterStays, FreeStepStays, FreeReturnsStep DEF Step
  <2>4. CASE UNCHANGED vars
    <3>1. Circle => Circle'
      BY <2>4, CircleStays DEF vars
    <3> QED
      BY <2>4, <3>1 DEF vars, DInv, DTypeOK, Shape, Chain, SeekInv, FreeInv, CrashInv
  <2> QED BY <2>1, <2>2, <2>3, <2>4 DEF Next
<1> QED BY DInit, <1>1, PTL DEF Spec

-----------------------------------------------------------------------------
(* What the shapes mean for those who walk the dict. *)

\* A walk on a closed set comes to no end.
LEMMA CircleIsCircular == DTypeOK /\ Circle => Circular
<1> SUFFICES ASSUME DTypeOK, Circle, NEW n \in Linked PROVE next[n] # NULL
  BY DEF Circular
<1>1. PICK S \in SUBSET Place : Closed(S)
  BY DEF Circle
<1>2. n \in S
  BY <1>1 DEF Linked, Closed
<1>3. next[n] \in Place
  BY <1>1, <1>2 DEF Closed
<1> QED BY <1>3 DEF DTypeOK

\* A walk down the chain comes to all of it: were one left out, the last of them
\* would be the next of one that is not.
LEMMA ChainIsLinked == DTypeOK /\ Chain => Linked = Place
<1> SUFFICES ASSUME DTypeOK, Chain,
                    NEW S \in SUBSET Place, HEAD \in S,
                    \A s \in S : next[s] = NULL \/ next[s] \in S,
                    NEW n \in Place
             PROVE  n \in S
  BY DEF Linked
<1> SUFFICES ASSUME n \notin S PROVE FALSE
  OBVIOUS
<1> DEFINE T == {m \in Nat : m <= count /\ count - m \notin S}
<1>1. count \in Nat /\ count - n \in T
  BY DEF DTypeOK
<1> HIDE DEF T
<1>2. PICK m \in T : \A l \in T : m <= l
  <2>1. T \subseteq Nat /\ T # {}
    BY <1>1 DEF T
  <2> QED BY <2>1, LeastNatural
<1> DEFINE last == count - m
<1>3. /\ m \in Nat /\ last \in Nodes /\ last \notin S
  <2>1. m \in Nat /\ m <= count /\ last \notin S
    BY <1>2 DEF T
  <2> QED BY <1>1, <2>1
<1>4. CASE m = 0
  BY <1>1, <1>3, <1>4 DEF Chain
<1>5. CASE m # 0
  <2>1. m - 1 \in Nat /\ m - 1 \notin T /\ m - 1 <= count
    BY <1>1, <1>2, <1>3, <1>5
  <2>2. last + 1 \in S
    BY <1>1, <1>3, <2>1 DEF T
  <2>3. last + 1 \in Nodes /\ last + 1 > 1
    BY <1>1, <1>3, <2>1
  <2>4. next[last + 1] = last
    BY <1>1, <1>3, <2>3 DEF Chain
  <2> QED BY <1>3, <2>2, <2>4
<1> QED BY <1>4, <1>5

\* Whatever keys are set in whatever order, a dict that ends has all of them in
\* ascending order.
THEOREM DictIsSorted == Spec => []SortedOrCircular
<1>1. DInv => SortedOrCircular
  <2> SUFFICES ASSUME DInv, ~Circular
               PROVE  /\ Linked = 0 .. count
                      /\ \A n \in Nodes : next[n] # NULL => key[n] < key[next[n]]
    BY DEF SortedOrCircular
  <2>1. DTypeOK /\ Chain
    BY CircleIsCircular DEF DInv, Shape
  <2>2. Linked = 0 .. count
    BY <2>1, ChainIsLinked
  <2>3. \A n \in Nodes : next[n] # NULL => key[n] < key[next[n]]
    BY <2>1 DEF Chain, DTypeOK
  <2> QED BY <2>2, <2>3
<1> QED BY <1>1, DInvHolds, PTL

\* A set that ends the process had a key not below any that the dict has.
THEOREM CrashHasCause == Spec => []CrashForLargest
<1>1. DInv => CrashForLargest
  BY CircleIsCircular DEF DInv, Shape, CrashInv, CrashForLargest
<1> QED BY <1>1, DInvHolds, PTL

-----------------------------------------------------------------------------
(* What holds of the frames between two bytes. *)

Type == {"none", "val", "int", "list", "dict", "strlen", "str", "keylen", "key"}

FrameSet == [type : Type, key : Seq(Int), part : Seq(Int), len : Int, num : Int,
             kroom : Nat, room : Nat]

\* WritesInRoom of one frame.
Fits(f) ==
    /\ f.type = "str" /\ f.part # <<>> => Len(f.part) < f.room
    /\ f.type = "key" => Len(f.part) < f.kroom
    /\ f.key \notin {Unset, Null} => Len(f.key) < f.kroom

\* A frame that was pushed has room for a key; the one at the bottom, which never
\* is, reads none.
Good(r) ==
    /\ r = [stk |-> r.stk, d |-> r.d, out |-> r.out, end |-> r.end]
    /\ r.d \in 0 .. Depth
    /\ r.stk \in [0 .. Depth -> FrameSet]
    /\ \A n \in 0 .. Depth : Fits(r.stk[n])
    /\ \A n \in 1 .. r.d : r.stk[n].kroom > 0
    /\ r.stk[0].type \notin {"keylen", "key"}

\* A buffer is taken only by a reader that has frames to push.
SInv ==
    /\ Good(reader)
    /\ inside => Depth > 0
    /\ rest \in Seq(Byte)

\* q has the stack of r.
SameStack(q, r) == q = [stk |-> r.stk, d |-> r.d, out |-> q.out, end |-> q.end]

LEMMA SameIsGood ==
    ASSUME NEW r, Good(r), NEW q, SameStack(q, r)
    PROVE  Good(q) /\ q.d = r.d /\ q.stk = r.stk /\ Top(q) = Top(r)
<1>1. q.d = r.d /\ q.stk = r.stk
  BY DEF SameStack
<1>2. q = [stk |-> q.stk, d |-> q.d, out |-> q.out, end |-> q.end]
  BY <1>1 DEF SameStack
<1> QED BY <1>1, <1>2 DEF Good, Top

LEMMA EndsSame ==
    ASSUME NEW r, Good(r), NEW how PROVE SameStack(Ends(r, how), r)
BY DEF Good, Ends, SameStack

LEMMA ReportSame ==
    ASSUME NEW r, Good(r), NEW kind, NEW k, NEW v PROVE SameStack(Report(r, kind, k, v), r)
BY DEF Good, Report, SameStack

LEMMA LeaveSame == ASSUME NEW r, Good(r) PROVE SameStack(Leave(r), r)
<1>1. SameStack(r, r)
  BY DEF Good, SameStack
<1> QED BY <1>1, ReportSame DEF Leave

LEMMA GoOnSame == ASSUME NEW r, Good(r) PROVE SameStack(GoOn(r), r)
<1>1. SameStack(r, r)
  BY DEF Good, SameStack
<1> QED BY <1>1, ReportSame DEF GoOn

LEMMA TopFits ==
    ASSUME NEW r, Good(r)
    PROVE  /\ Top(r) \in FrameSet /\ Fits(Top(r)) /\ r.d \in 0 .. Depth
           /\ r.d > 0 => Top(r).kroom > 0
           /\ Top(r).type \in {"keylen", "key"} => r.d > 0
BY RoomAssumption DEF Good, Top

\* The frame on top is f instead.
LEMMA TopReplaced ==
    ASSUME NEW r, Good(r), NEW f \in FrameSet, Fits(f),
           r.d > 0 => f.kroom > 0,
           r.d = 0 => f.type \notin {"keylen", "key"},
           NEW q, q = [stk |-> [r.stk EXCEPT ![r.d] = f], d |-> r.d, out |-> q.out, end |-> q.end]
    PROVE  Good(q) /\ q.d = r.d /\ Top(q) = f
<1>1. q.d = r.d /\ q.stk = [r.stk EXCEPT ![r.d] = f] /\ r.d \in 0 .. Depth /\ Depth \in Nat
  BY RoomAssumption DEF Good
<1>2. q = [stk |-> q.stk, d |-> q.d, out |-> q.out, end |-> q.end]
  BY <1>1
<1>3. /\ q.stk \in [0 .. Depth -> FrameSet] /\ q.stk[r.d] = f
      /\ \A n \in 0 .. Depth : n # r.d => q.stk[n] = r.stk[n]
  BY <1>1 DEF Good
<1>4. \A n \in 0 .. Depth : Fits(q.stk[n])
  BY <1>3 DEF Good
<1>5. \A n \in 1 .. q.d : q.stk[n].kroom > 0
  <2> SUFFICES ASSUME NEW n \in 1 .. q.d PROVE q.stk[n].kroom > 0
    OBVIOUS
  <2>1. n \in 0 .. Depth /\ n \in 1 .. r.d
    BY <1>1
  <2>2. CASE n = r.d
    BY <1>1, <1>3, <2>1, <2>2
  <2>3. CASE n # r.d
    BY <1>3, <2>1, <2>3 DEF Good
  <2> QED BY <2>2, <2>3
<1>6. q.stk[0].type \notin {"keylen", "key"}
  <2>1. 0 \in 0 .. Depth
    BY <1>1
  <2> QED BY <1>1, <1>3, <2>1 DEF Good
<1> QED BY <1>1, <1>2, <1>3, <1>4, <1>5, <1>6 DEF Good, Top

LEMMA OnTopIs ==
    ASSUME NEW r, r = [stk |-> r.stk, d |-> r.d, out |-> r.out, end |-> r.end], NEW f
    PROVE  OnTop(r, f) = [stk |-> [r.stk EXCEPT ![r.d] = f], d |-> r.d, out |-> r.out, end |-> r.end]
BY DEF OnTop

LEMMA FrameChanged ==
    ASSUME NEW f \in FrameSet, NEW t \in Type
    PROVE  /\ [f EXCEPT !.type = t, !.part = <<>>] \in FrameSet
           /\ [f EXCEPT !.type = t, !.part = <<>>].type = t
           /\ [f EXCEPT !.type = t, !.part = <<>>].part = <<>>
           /\ [f EXCEPT !.type = t, !.part = <<>>].key = f.key
           /\ [f EXCEPT !.type = t, !.part = <<>>].kroom = f.kroom
<1>1. <<>> \in Seq(Int)
  OBVIOUS
<1> QED BY <1>1 DEF FrameSet

LEMMA PushedIs ==
    ASSUME NEW f \in FrameSet
    PROVE  /\ Pushed(f) \in FrameSet /\ Pushed(f).type = "none" /\ Pushed(f).key = f.key
           /\ Pushed(f).kroom = IF f.kroom = 0 THEN FirstRoom ELSE f.kroom
<1>1. PICK k \in Nat : k = IF f.kroom = 0 THEN FirstRoom ELSE f.kroom
  BY RoomAssumption DEF FrameSet
<1>2. PICK m \in Nat : m = IF f.room = 0 THEN FirstRoom ELSE f.room
  BY RoomAssumption DEF FrameSet
<1>3. Pushed(f) = [Frame EXCEPT !.key = f.key, !.kroom = k, !.room = m]
  BY <1>1, <1>2 DEF Pushed
<1>4. Pushed(f) = [type |-> "none", key |-> f.key, part |-> <<>>, len |-> 0, num |-> 0,
                   kroom |-> k, room |-> m]
  BY <1>3 DEF Frame
<1>5. "none" \in Type /\ <<>> \in Seq(Int) /\ f.key \in Seq(Int)
  BY DEF Type, FrameSet
<1> QED BY <1>1, <1>4, <1>5 DEF FrameSet

\* A frame on top that fits and keeps its room for a key.
LEMMA OnTopGood ==
    ASSUME NEW r, Good(r), NEW f \in FrameSet, Fits(f),
           r.d > 0 => f.kroom > 0,
           r.d = 0 => f.type \notin {"keylen", "key"}
    PROVE  Good(OnTop(r, f)) /\ OnTop(r, f).d = r.d /\ Top(OnTop(r, f)) = f
<1>1. PICK q : q = OnTop(r, f)
  OBVIOUS
<1>2. q = [stk |-> [r.stk EXCEPT ![r.d] = f], d |-> r.d, out |-> r.out, end |-> r.end]
  BY <1>1, OnTopIs DEF Good
<1>3. q = [stk |-> [r.stk EXCEPT ![r.d] = f], d |-> r.d, out |-> q.out, end |-> q.end]
  BY <1>2
<1> QED BY <1>1, <1>3, TopReplaced

LEMMA BecomesGood ==
    ASSUME NEW r, Good(r), NEW t \in Type, t \in {"keylen", "key"} => r.d > 0
    PROVE  Good(Becomes(r, t)) /\ Becomes(r, t).d = r.d
           /\ Top(Becomes(r, t)) = [Top(r) EXCEPT !.type = t, !.part = <<>>]
<1> DEFINE f == [Top(r) EXCEPT !.type = t, !.part = <<>>]
           q == Becomes(r, t)
<1>1. Top(r) \in FrameSet /\ Fits(Top(r)) /\ (r.d > 0 => Top(r).kroom > 0)
  BY TopFits
<1>2. f \in FrameSet /\ f.kroom = Top(r).kroom /\ f.type = t /\ f.part = <<>> /\ f.key = Top(r).key
  BY <1>1, FrameChanged
<1>3. Fits(f)
  <2>1. t = "key" => Len(<<>>) < f.kroom
    <3>1. t = "key" => f.kroom > 0
      BY <1>1, <1>2
    <3> QED BY <3>1
  <2> QED BY <1>1, <1>2, <2>1 DEF Fits
<1>4. q = OnTop(r, f)
  BY DEF Becomes
<1> HIDE DEF f, q
<1>5. Good(q) /\ q.d = r.d /\ Top(q) = f
  BY <1>1, <1>2, <1>3, <1>4, OnTopGood
<1> QED BY <1>5 DEF f, q

LEMMA PushGood ==
    ASSUME NEW r, Good(r), Depth > 0
    PROVE  Good(Push(r)) /\ Push(r).d > 0
<1> DEFINE f == Pushed(r.stk[r.d + 1])
           q == Push(r)
<1>0. Depth \in Nat /\ r.d \in 0 .. Depth
  BY RoomAssumption DEF Good
<1>1. CASE r.d >= Depth
  <2>1. SameStack(Push(r), r)
    BY <1>1, EndsSame DEF Push
  <2> QED BY <1>0, <1>1, <2>1, SameIsGood
<1>2. CASE r.d < Depth
  <2>1. r.d + 1 \in 0 .. Depth /\ r.d + 1 # 0
    BY <1>0, <1>2
  <2>2. PICK g \in FrameSet : g = r.stk[r.d + 1] /\ Fits(g)
    BY <2>1 DEF Good
  <2>3. /\ f \in FrameSet /\ f.type = "none" /\ f.key = g.key
        /\ f.kroom = (IF g.kroom = 0 THEN FirstRoom ELSE g.kroom)
    BY <2>2, PushedIs
  <2>4. f.kroom > 0
    BY <2>2, <2>3, RoomAssumption DEF FrameSet
  <2>5. Fits(f)
    <3>1. g.key \notin {Unset, Null} => g.kroom # 0
      BY <2>2 DEF Fits, FrameSet
    <3> QED BY <2>2, <2>3, <3>1 DEF Fits
  <2>6. q = [stk |-> [r.stk EXCEPT ![r.d + 1] = f], d |-> r.d + 1, out |-> r.out, end |-> r.end]
    <3>1. PICK p : p = [r EXCEPT !.d = @ + 1]
      OBVIOUS
    <3>2. /\ p.d = r.d + 1 /\ p.stk = r.stk /\ p.out = r.out /\ p.end = r.end
          /\ p = [stk |-> p.stk, d |-> p.d, out |-> p.out, end |-> p.end]
      BY <3>1 DEF Good
    <3>3. q = OnTop(p, f)
      BY <1>0, <1>2, <3>1 DEF Push
    <3> HIDE DEF f
    <3>4. OnTop(p, f) = [stk |-> [r.stk EXCEPT ![r.d + 1] = f], d |-> r.d + 1, out |-> r.out, end |-> r.end]
      BY <3>2, OnTopIs
    <3> QED BY <3>3, <3>4
  <2> HIDE DEF f, q
  <2>7. q.d = r.d + 1 /\ q.stk = [r.stk EXCEPT ![r.d + 1] = f]
        /\ q = [stk |-> q.stk, d |-> q.d, out |-> q.out, end |-> q.end]
    BY <2>6
  <2>8. /\ q.stk \in [0 .. Depth -> FrameSet] /\ q.stk[r.d + 1] = f
        /\ \A n \in 0 .. Depth : n # r.d + 1 => q.stk[n] = r.stk[n]
    BY <2>1, <2>3, <2>7 DEF Good
  <2>9. \A n \in 0 .. Depth : Fits(q.stk[n])
    BY <2>5, <2>8 DEF Good
  <2>10. \A n \in 1 .. q.d : q.stk[n].kroom > 0
    <3> SUFFICES ASSUME NEW n \in 1 .. r.d + 1 PROVE q.stk[n].kroom > 0
      BY <2>7
    <3>1. CASE n = r.d + 1
      BY <2>4, <2>8, <3>1
    <3>2. CASE n # r.d + 1
      <4>1. n \in 0 .. Depth /\ n \in 1 .. r.d
        BY <1>0, <3>2
      <4> QED BY <2>8, <3>2, <4>1 DEF Good
    <3> QED BY <3>1, <3>2
  <2>11. q.stk[0].type \notin {"keylen", "key"}
    <3>1. 0 \in 0 .. Depth /\ 0 # r.d + 1
      BY <1>0
    <3> QED BY <2>8, <3>1 DEF Good
  <2>12. q.d \in 0 .. Depth /\ q.d > 0
    BY <1>0, <2>1, <2>7
  <2> QED BY <2>7, <2>8, <2>9, <2>10, <2>11, <2>12 DEF Good, q
<1> QED BY <1>0, <1>1, <1>2

LEMMA PopGood == ASSUME NEW r, Good(r) PROVE Good(Pop(r))
<1>1. SameStack(Leave(r), r) /\ Good(Leave(r)) /\ Leave(r).d = r.d /\ Leave(r).stk = r.stk
  BY LeaveSame, SameIsGood
<1>2. CASE r.d = 0
  BY <1>1, <1>2 DEF Pop
<1>3. CASE r.d # 0
  <2>1. PICK l : l = Leave(r)
    OBVIOUS
  <2>2. PICK q : q = [l EXCEPT !.d = @ - 1]
    OBVIOUS
  <2>3. q.d = r.d - 1 /\ q.stk = r.stk
        /\ q = [stk |-> q.stk, d |-> q.d, out |-> q.out, end |-> q.end]
    BY <1>1, <2>1, <2>2 DEF Good
  <2>4. Depth \in Nat /\ r.d \in 0 .. Depth
    BY RoomAssumption DEF Good
  <2>5. q.d \in 0 .. Depth /\ \A n \in 1 .. q.d : n \in 1 .. r.d
    BY <1>3, <2>3, <2>4
  <2>6. Good(q)
    BY <2>3, <2>5 DEF Good
  <2>7. Pop(r) = GoOn(q)
    BY <1>3, <2>1, <2>2 DEF Pop
  <2> QED BY <2>6, <2>7, GoOnSame, SameIsGood
<1> QED BY <1>2, <1>3

-----------------------------------------------------------------------------
(* One byte. *)

\* A byte is put behind what is there: the buffer grows before it is full.
LEMMA RoomGrows ==
    ASSUME NEW room \in Nat, NEW used \in Nat, used < room \/ used = 0
    PROVE  Room(room, used) \in Nat /\ used + 1 < Room(room, used) /\ room <= Room(room, used)
BY DEF Room

LEMMA NumberedIs ==
    ASSUME NEW n \in Int, NEW c \in Byte PROVE Numbered(n, c) \in Int
BY DEF Numbered, Byte

LEMMA BeginGood ==
    ASSUME NEW r, Good(r), NEW c \in Byte, Depth > 0
    PROVE  Good(Begin(r, c))
<1>1. CASE c = Ci
  <2>1. Begin(r, c) = Becomes(r, "int")
    BY <1>1 DEF Begin, Ci, Cd, Cl, Digit
  <2> QED BY <2>1, BecomesGood DEF Type
<1>2. CASE c = Cd
  <2>1. Good(Becomes(r, "dict"))
    BY BecomesGood DEF Type
  <2>2. PICK q : q = Report(Becomes(r, "dict"), "dict_enter", Top(r).key, <<>>)
    OBVIOUS
  <2>3. Good(q)
    BY <2>1, <2>2, ReportSame, SameIsGood
  <2>4. Good(Push(q)) /\ Push(q).d > 0
    BY <2>3, PushGood
  <2>5. Good(Becomes(Push(q), "keylen"))
    BY <2>4, BecomesGood DEF Type
  <2>6. Begin(r, c) = StartDict(r)
    BY <1>2 DEF Begin, Ci, Cd, Cl, Digit
  <2>7. StartDict(r) = Becomes(Push(q), "keylen")
    BY <2>2 DEF StartDict
  <2> QED BY <2>5, <2>6, <2>7
<1>3. CASE c = Cl
  <2>1. Good(Becomes(r, "list"))
    BY BecomesGood DEF Type
  <2>2. Begin(r, c) = Report(Becomes(r, "list"), "list_enter", Top(r).key, <<>>)
    BY <1>3 DEF Begin, Ci, Cd, Cl, Digit
  <2> QED BY <2>1, <2>2, ReportSame, SameIsGood
<1>4. CASE c \in Digit
  <2> DEFINE f == [Top(r) EXCEPT !.type = "strlen", !.part = <<>>, !.len = Numbered(@, c)]
  <2>1. Top(r) \in FrameSet /\ Fits(Top(r)) /\ (r.d > 0 => Top(r).kroom > 0)
    BY TopFits
  <2>2. PICK g \in FrameSet : g = Top(r)
    BY <2>1
  <2>3. PICK n \in Int : n = Numbered(g.len, c)
    BY NumberedIs DEF FrameSet
  <2>4. "strlen" \in Type /\ <<>> \in Seq(Int)
    BY DEF Type
  <2>5. f = [g EXCEPT !.type = "strlen", !.part = <<>>, !.len = n]
    BY <2>2, <2>3
  <2>6. f \in FrameSet /\ f.type = "strlen" /\ f.key = g.key /\ f.kroom = g.kroom
    BY <2>4, <2>5 DEF FrameSet
  <2>7. Begin(r, c) = OnTop(r, f)
    BY <1>4 DEF Begin, Cd, Ci, Cl, StartStr, Digit
  <2> HIDE DEF f
  <2>8. Fits(f)
    BY <2>1, <2>2, <2>6 DEF Fits
  <2> QED BY <2>1, <2>2, <2>6, <2>7, <2>8, OnTopGood
<1>5. CASE c \notin {Ci, Cd, Cl} \cup Digit
  <2>1. Begin(r, c) = Ends(r, "refused")
    BY <1>5 DEF Begin
  <2> QED BY <2>1, EndsSame, SameIsGood
<1> QED BY <1>1, <1>2, <1>3, <1>4, <1>5

LEMMA InListGood ==
    ASSUME NEW r, Good(r), NEW c \in Byte, Depth > 0 PROVE Good(InList(r, c))
<1>1. CASE c = Ce
  BY <1>1, PopGood DEF InList, Ce, Ci, Cd, Cl, Digit
<1>2. CASE c \in {Ci, Cd, Cl} \cup Digit
  <2>1. Good(Push(r))
    BY PushGood
  <2>2. Good(Begin(Push(r), c))
    BY <2>1, BeginGood
  <2>3. InList(r, c) = Begin(Push(r), c)
    BY <1>2 DEF InList, Ce, Ci, Cd, Cl, Digit
  <2> QED BY <2>2, <2>3
<1>3. CASE c \notin {Ce, Ci, Cd, Cl} \cup Digit
  <2>1. InList(r, c) = Ends(r, "refused")
    BY <1>3 DEF InList
  <2> QED BY <2>1, EndsSame, SameIsGood
<1> QED BY <1>1, <1>2, <1>3

LEMMA InIntGood ==
    ASSUME NEW r, Good(r), NEW c \in Byte PROVE Good(InInt(r, c))
<1>1. CASE c = Ce
  <2>1. InInt(r, c) = Pop(Report(r, "hit_int", Top(r).key, <<Top(r).num>>))
    BY <1>1 DEF InInt, Ce, Digit
  <2> QED BY <2>1, ReportSame, SameIsGood, PopGood
<1>2. CASE c \in Digit
  <2> DEFINE f == [Top(r) EXCEPT !.num = Numbered(@, c)]
  <2>1. Fits(Top(r)) /\ (r.d > 0 => Top(r).kroom > 0) /\ (r.d = 0 => Top(r).type \notin {"keylen", "key"})
    BY TopFits
  <2>2. PICK g \in FrameSet : g = Top(r)
    BY TopFits
  <2>3. PICK n \in Int : n = Numbered(g.num, c)
    BY NumberedIs DEF FrameSet
  <2>4. f = [g EXCEPT !.num = n]
    BY <2>2, <2>3
  <2>5. /\ f \in FrameSet /\ f.type = g.type /\ f.part = g.part /\ f.key = g.key
        /\ f.kroom = g.kroom /\ f.room = g.room
    BY <2>4 DEF FrameSet
  <2>6. InInt(r, c) = OnTop(r, f)
    BY <1>2 DEF InInt, Ce, Digit
  <2> HIDE DEF f
  <2>7. Fits(f)
    BY <2>1, <2>2, <2>5 DEF Fits
  <2> QED BY <2>1, <2>2, <2>5, <2>6, <2>7, OnTopGood
<1>3. CASE c \notin {Ce} \cup Digit
  <2>1. InInt(r, c) = Ends(r, "assert")
    BY <1>3 DEF InInt
  <2> QED BY <2>1, EndsSame, SameIsGood
<1> QED BY <1>1, <1>2, <1>3

\* Another digit of a length.
LEMMA LengthGood ==
    ASSUME NEW r, Good(r), NEW c \in Byte
    PROVE  Good(OnTop(r, [Top(r) EXCEPT !.len = Numbered(@, c)]))
<1> DEFINE f == [Top(r) EXCEPT !.len = Numbered(@, c)]
<1>1. Fits(Top(r)) /\ (r.d > 0 => Top(r).kroom > 0) /\ (r.d = 0 => Top(r).type \notin {"keylen", "key"})
  BY TopFits
<1>2. PICK g \in FrameSet : g = Top(r)
  BY TopFits
<1>3. PICK n \in Int : n = Numbered(g.len, c)
  BY NumberedIs DEF FrameSet
<1>4. f = [g EXCEPT !.len = n]
  BY <1>2, <1>3
<1>5. /\ f \in FrameSet /\ f.type = g.type /\ f.part = g.part /\ f.key = g.key
      /\ f.kroom = g.kroom /\ f.room = g.room
  BY <1>4 DEF FrameSet
<1> HIDE DEF f
<1>6. Fits(f)
  BY <1>1, <1>2, <1>5 DEF Fits
<1>7. Good(OnTop(r, f))
  BY <1>1, <1>2, <1>5, <1>6, OnTopGood
<1> QED BY <1>7 DEF f

LEMMA InStrLenGood ==
    ASSUME NEW r, Good(r), NEW c \in Byte PROVE Good(InStrLen(r, c))
<1>1. CASE c = Colon /\ Top(r).len = 0
  <2>1. InStrLen(r, c) = Pop(Report(r, "hit_str", Top(r).key, <<>>))
    BY <1>1 DEF InStrLen, Colon, Digit
  <2> QED BY <2>1, ReportSame, SameIsGood, PopGood
<1>2. CASE c = Colon /\ Top(r).len # 0
  <2>1. InStrLen(r, c) = Becomes(r, "str")
    BY <1>2 DEF InStrLen, Colon, Digit
  <2> QED BY <2>1, BecomesGood DEF Type
<1>3. CASE c \in Digit
  <2>1. InStrLen(r, c) = OnTop(r, [Top(r) EXCEPT !.len = Numbered(@, c)])
    BY <1>3 DEF InStrLen, Colon, Digit
  <2> QED BY <2>1, LengthGood
<1>4. CASE c \notin {Colon} \cup Digit
  <2>1. InStrLen(r, c) = Ends(r, "assert")
    BY <1>4 DEF InStrLen
  <2> QED BY <2>1, EndsSame, SameIsGood
<1> QED BY <1>1, <1>2, <1>3, <1>4

LEMMA InKeyLenGood ==
    ASSUME NEW r, Good(r), r.d > 0, NEW c \in Byte PROVE Good(InKeyLen(r, c))
<1>1. CASE c = Colon
  <2>1. InKeyLen(r, c) = Becomes(r, "key")
    BY <1>1 DEF InKeyLen, Colon, Digit, Ce
  <2> QED BY <2>1, BecomesGood DEF Type
<1>2. CASE c \in Digit
  <2>1. InKeyLen(r, c) = OnTop(r, [Top(r) EXCEPT !.len = Numbered(@, c)])
    BY <1>2 DEF InKeyLen, Colon, Digit, Ce
  <2> QED BY <2>1, LengthGood
<1>3. CASE c = Ce
  <2>1. InKeyLen(r, c) = Pop(r)
    BY <1>3 DEF InKeyLen, Colon, Digit, Ce
  <2> QED BY <2>1, PopGood
<1>4. CASE c \notin {Colon, Ce} \cup Digit
  <2>1. InKeyLen(r, c) = Ends(r, "refused")
    BY <1>4 DEF InKeyLen
  <2> QED BY <2>1, EndsSame, SameIsGood
<1> QED BY <1>1, <1>2, <1>3, <1>4

LEMMA InDictGood ==
    ASSUME NEW r, Good(r), NEW c \in Byte, Depth > 0 PROVE Good(InDict(r, c))
<1>1. Good(Push(r)) /\ Push(r).d > 0
  BY PushGood
<1>2. Good(Becomes(Push(r), "keylen")) /\ Becomes(Push(r), "keylen").d > 0
  BY <1>1, BecomesGood DEF Type
<1>3. Good(InKeyLen(Becomes(Push(r), "keylen"), c))
  BY <1>2, InKeyLenGood
<1> QED BY <1>3, PopGood DEF InDict

LEMMA OneMore ==
    ASSUME NEW s \in Seq(Int), NEW c \in Int
    PROVE  Append(s, c) \in Seq(Int) /\ Len(Append(s, c)) = Len(s) + 1
OBVIOUS

\* A byte of a string is written behind those that are there.
LEMMA InStrGood ==
    ASSUME NEW r, Good(r), Top(r).type = "str", NEW c \in Byte PROVE Good(InStr(r, c))
<1>1. Fits(Top(r)) /\ (r.d > 0 => Top(r).kroom > 0)
  BY TopFits
<1>2. PICK g \in FrameSet : g = Top(r)
  BY TopFits
<1>3. PICK used \in Nat : used = Len(g.part)
  BY DEF FrameSet
<1>4. g.part \in Seq(Int) /\ g.room \in Nat /\ c \in Int
  BY DEF FrameSet, Byte
<1>5. used < g.room \/ used = 0
  BY <1>1, <1>2, <1>3, <1>4 DEF Fits
<1>6. PICK room \in Nat : room = Room(g.room, used) /\ used + 1 < room
  BY <1>4, <1>5, RoomGrows
<1>7. PICK part \in Seq(Int) : part = Append(g.part, c) /\ Len(part) = used + 1
  BY <1>3, <1>4, OneMore
<1>8. PICK f : f = [g EXCEPT !.room = room, !.part = part]
  OBVIOUS
<1>9. /\ f \in FrameSet /\ f.type = "str" /\ f.part = part /\ f.room = room
      /\ f.key = g.key /\ f.kroom = g.kroom
  BY <1>2, <1>8 DEF FrameSet
<1>10. Fits(f)
  BY <1>1, <1>2, <1>6, <1>7, <1>9 DEF Fits
<1>11. Good(OnTop(r, f))
  BY <1>1, <1>2, <1>9, <1>10, OnTopGood
<1>12. OnTop(r, f) = OnTop(r, [Top(r) EXCEPT !.room = Room(@, Len(Top(r).part)), !.part = Append(@, c)])
  BY <1>2, <1>3, <1>6, <1>7, <1>8
<1>13. PICK q : q = OnTop(r, f)
  OBVIOUS
<1>14. \/ InStr(r, c) = q
       \/ InStr(r, c) = Pop(Report(q, "hit_str", Top(r).key, Top(q).part))
  BY <1>12, <1>13 DEF InStr
<1>15. Good(Pop(Report(q, "hit_str", Top(r).key, Top(q).part)))
  BY <1>11, <1>13, ReportSame, SameIsGood, PopGood
<1> QED BY <1>11, <1>13, <1>14, <1>15

LEMMA InKeyGood ==
    ASSUME NEW r, Good(r), Top(r).type = "key", NEW c \in Byte PROVE Good(InKey(r, c))
<1>1. Fits(Top(r)) /\ r.d > 0
  BY TopFits
<1>2. PICK g \in FrameSet : g = Top(r)
  BY TopFits
<1>3. PICK used \in Nat : used = Len(g.part)
  BY DEF FrameSet
<1>4. g.part \in Seq(Int) /\ g.kroom \in Nat /\ c \in Int
  BY DEF FrameSet, Byte
<1>5. used < g.kroom
  BY <1>1, <1>2, <1>3 DEF Fits
<1>6. PICK room \in Nat : room = Room(g.kroom, used) /\ used + 1 < room /\ g.kroom <= room
  BY <1>4, <1>5, RoomGrows
<1>7. PICK part \in Seq(Int) : part = Append(g.part, c) /\ Len(part) = used + 1
  BY <1>3, <1>4, OneMore
<1>8. PICK f : f = [g EXCEPT !.kroom = room, !.part = part]
  OBVIOUS
<1>9. /\ f \in FrameSet /\ f.type = "key" /\ f.part = part /\ f.kroom = room /\ f.key = g.key
  BY <1>2, <1>8 DEF FrameSet
<1>10. Fits(f)
  <2>1. g.key \notin {Unset, Null} => Len(g.key) < g.kroom
    BY <1>1, <1>2 DEF Fits
  <2>2. Len(g.key) \in Nat
    BY DEF FrameSet
  <2>3. g.key \notin {Unset, Null} => Len(g.key) < room
    BY <1>4, <1>6, <2>1, <2>2
  <2> QED BY <1>6, <1>7, <1>9, <2>3 DEF Fits
<1>11. PICK v : v = [f EXCEPT !.type = "val", !.key = f.part, !.part = <<>>, !.len = 0]
  OBVIOUS
<1>12. /\ v \in FrameSet /\ v.type = "val" /\ v.key = part /\ v.kroom = room
  <2>1. "val" \in Type /\ <<>> \in Seq(Int)
    BY DEF Type
  <2>2. /\ f = [type |-> f.type, key |-> f.key, part |-> part, len |-> f.len, num |-> f.num,
               kroom |-> room, room |-> f.room]
        /\ f.num \in Int /\ f.room \in Nat
    BY <1>9 DEF FrameSet
  <2>3. v = [type |-> "val", key |-> part, part |-> <<>>, len |-> 0, num |-> f.num,
             kroom |-> room, room |-> f.room]
    BY <1>9, <1>11, <2>2, Zenon
  <2>4. v.type = "val" /\ v.key = part /\ v.kroom = room
    BY <2>3, Zenon
  <2>5. v \in FrameSet
    BY <2>1, <2>2, <2>3 DEF FrameSet
  <2> QED BY <2>4, <2>5
<1>13. Fits(v)
  BY <1>6, <1>7, <1>12 DEF Fits
<1>14. room > 0
  BY <1>6
<1>15. Good(OnTop(r, f)) /\ Good(OnTop(r, v))
  BY <1>1, <1>9, <1>10, <1>12, <1>13, <1>14, OnTopGood
<1>16. f = [Top(r) EXCEPT !.kroom = Room(@, Len(Top(r).part)), !.part = Append(@, c)]
  BY <1>2, <1>3, <1>6, <1>7, <1>8
<1>17. InKey(r, c) = OnTop(r, IF Len(Top(r).part) + 1 = Top(r).len THEN v ELSE f)
  BY <1>11, <1>16 DEF InKey
<1> QED BY <1>15, <1>17

\* The frame decides what the byte is.
LEMMA ProcessGood ==
    ASSUME NEW r, Good(r), Depth > 0, NEW c \in Byte PROVE Good(Process(r, c))
<1>1. Top(r).type \in Type /\ (Top(r).type = "keylen" => r.d > 0)
  BY TopFits DEF FrameSet
<1>2. PICK t \in Type : t = Top(r).type
  BY <1>1
<1>3. CASE t \in {"none", "val"}
  <2>1. Process(r, c) = Begin(r, c)
    BY <1>2, <1>3 DEF Process
  <2> QED BY <2>1, BeginGood
<1>4. CASE t = "list"
  <2>1. Process(r, c) = InList(r, c)
    BY <1>2, <1>4 DEF Process
  <2> QED BY <2>1, InListGood
<1>5. CASE t = "int"
  <2>1. Process(r, c) = InInt(r, c)
    BY <1>2, <1>5 DEF Process
  <2> QED BY <2>1, InIntGood
<1>6. CASE t = "strlen"
  <2>1. Process(r, c) = InStrLen(r, c)
    BY <1>2, <1>6 DEF Process
  <2> QED BY <2>1, InStrLenGood
<1>7. CASE t = "str"
  <2>1. Process(r, c) = InStr(r, c)
    BY <1>2, <1>7 DEF Process
  <2> QED BY <1>2, <1>7, <2>1, InStrGood
<1>8. CASE t = "dict"
  <2>1. Process(r, c) = InDict(r, c)
    BY <1>2, <1>8 DEF Process
  <2> QED BY <2>1, InDictGood
<1>9. CASE t = "keylen"
  <2>1. Process(r, c) = InKeyLen(r, c)
    BY <1>2, <1>9 DEF Process
  <2> QED BY <1>1, <1>2, <1>9, <2>1, InKeyLenGood
<1>10. CASE t = "key"
  <2>1. Process(r, c) = InKey(r, c)
    BY <1>2, <1>10 DEF Process
  <2> QED BY <1>2, <1>10, <2>1, InKeyGood
<1> QED BY <1>2, <1>3, <1>4, <1>5, <1>6, <1>7, <1>8, <1>9, <1>10 DEF Type

-----------------------------------------------------------------------------
(* The invariant. *)

LEMMA SInitGood == SInit => SInv
<1> SUFFICES ASSUME SInit PROVE SInv
  OBVIOUS
<1>1. \A n \in 0 .. Depth :
         reader.stk[n] = [type |-> "none", key |-> IF n = 0 THEN Null ELSE Unset, part |-> <<>>,
                          len |-> 0, num |-> 0, kroom |-> 0, room |-> 0]
  BY DEF SInit, Fresh, Frame
<1>2. \A n \in 0 .. Depth : reader.stk[n] \in FrameSet /\ Fits(reader.stk[n])
  <2>1. "none" \in Type /\ <<>> \in Seq(Int) /\ Null \in Seq(Int) /\ Unset \in Seq(Int)
    BY DEF Type, Null, Unset
  <2>2. \A k \in {Null, Unset} :
           LET f == [type |-> "none", key |-> k, part |-> <<>>, len |-> 0, num |-> 0, kroom |-> 0, room |-> 0]
           IN  f \in FrameSet /\ Fits(f)
    BY <2>1 DEF FrameSet, Fits
  <2> QED BY <1>1, <2>2
<1>3. reader.d = 0 /\ reader.stk \in [0 .. Depth -> FrameSet]
  BY <1>2 DEF SInit, Fresh
<1>4. reader = [stk |-> reader.stk, d |-> reader.d, out |-> reader.out, end |-> reader.end]
  BY DEF SInit, Fresh
<1>5. 0 \in 0 .. Depth /\ \A n \in 1 .. 0 : FALSE
  BY RoomAssumption
<1>6. reader.stk[0].type = "none"
  <2>1. PICK f : f = reader.stk[0]
    OBVIOUS
  <2>2. f = [type |-> "none", key |-> Null, part |-> <<>>,
             len |-> 0, num |-> 0, kroom |-> 0, room |-> 0]
    BY <1>1, <1>5, <2>1
  <2>3. f.type = "none"
    BY <2>2
  <2> QED BY <2>1, <2>3
<1>7. Good(reader)
  BY <1>2, <1>3, <1>4, <1>5, <1>6 DEF Good
<1>8. <<>> \in Seq(Byte)
  OBVIOUS
<1> QED BY <1>7, <1>8 DEF SInit, SInv

LEMMA SNextGood == SInv /\ [SNext]_svars => SInv'
<1> SUFFICES ASSUME SInv, [SNext]_svars PROVE SInv'
  OBVIOUS
<1> USE DEF SInv
<1>1. ASSUME NEW v \in Value, Choose(v) PROVE SInv'
  BY <1>1, ByteAssumption DEF Choose
<1>2. CASE Dispatch
  <2>1. CASE reader.d >= Depth
    <3>1. reader' = Ends(reader, "refused") /\ inside' = inside /\ rest' = rest
      BY <1>2, <2>1 DEF Dispatch
    <3>2. Good(Ends(reader, "refused"))
      BY EndsSame, SameIsGood
    <3> QED BY <3>1, <3>2
  <2>2. CASE ~(reader.d >= Depth)
    <3>1. reader' = reader /\ rest' = rest
      BY <1>2, <2>2 DEF Dispatch
    <3>2. Depth > 0
      BY <2>2, RoomAssumption DEF Good
    <3> QED BY <3>1, <3>2
  <2> QED BY <2>1, <2>2
<1>3. CASE Feed
  <2>1. /\ Depth > 0 /\ Head(rest) \in Byte /\ Tail(rest) \in Seq(Byte)
        /\ reader' = Process(reader, Head(rest)) /\ rest' = Tail(rest) /\ inside' = inside
    BY <1>3 DEF Feed
  <2>2. Good(Process(reader, Head(rest)))
    BY <2>1, ProcessGood
  <2> QED BY <2>1, <2>2
<1>4. ASSUME NEW c \in Symbol, FeedFree(c) PROVE SInv'
  <2>1. /\ Depth > 0 /\ c \in Byte
        /\ reader' = Process(reader, c) /\ rest' = rest /\ inside' = inside
    BY <1>4, ByteAssumption DEF FeedFree
  <2>2. Good(Process(reader, c))
    BY <2>1, ProcessGood
  <2> QED BY <2>1, <2>2
<1>5. CASE Return
  BY <1>5 DEF Return
<1>6. CASE UNCHANGED svars
  BY <1>6 DEF svars
<1> QED BY <1>1, <1>2, <1>3, <1>4, <1>5, <1>6 DEF SNext

\* However long a string or a key is and however its text is cut into buffers,
\* with frames used over and over: the reallocations of __process_tok come in
\* time, and a frame whose buffers have not been allocated reads no key.
THEOREM WritesStayInRoom == SSpec => []WritesInRoom
<1>1. SInv => WritesInRoom
  BY DEF SInv, Good, Fits, WritesInRoom
<1> QED BY <1>1, SInitGood, SNextGood, PTL DEF SSpec
=============================================================================
