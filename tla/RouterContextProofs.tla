------------------------- MODULE RouterContextProofs -------------------------
(***************************************************************************)
(* What starts of the daemon do with router.keys, for every set of daemons *)
(* and of keys: unless two were up at once, a start never touches a whole  *)
(* router.keys, and a bad one is a cut one.                                *)
(***************************************************************************)
EXTENDS RouterContext, TLAPS

\* Before a start reads router.keys its context holds no keys.
NoKeysYet ==
    \A d \in Daemon :
        proc[d] \in {"down", "datadir", "check", "open", "reopen", "write"} => priv[d] = "null"

\* A start that writes has generated keys.
WritesKeys == \A d \in Daemon : At(d, "write") => gen[d] \in Key

\* What a daemon knows by itself.
Local == TypeOK /\ NoKeysYet /\ WritesKeys

\* At most one daemon is up.
OneUp == \A d, e \in Daemon : ~At(d, "down") /\ ~At(e, "down") => d = e

\* A start that regenerates does so over no file, then over the empty file it
\* has open.
RegeneratesOverNothing ==
    \A d \in Daemon :
        /\ At(d, "open") \/ At(d, "reopen") => keys = "none"
        /\ At(d, "write") => keys = "empty" /\ d \in linked

Apart == OneUp /\ RegeneratesOverNothing /\ BadKeysAreCut /\ MemoryAgrees

IInv == Local /\ (~met => Apart)

\* Keys are told from the other contents and from the marks of privkeys.
LEMMA KeysAreKeys ==
    \A k \in Key : k \notin {"none", "empty", "cut", "null", "blank"} \cup Foreign
BY KeyAssumption

LEMMA InitIInv == Init => IInv
BY KeysAreKeys DEF Init, IInv, Local, TypeOK, NoKeysYet, WritesKeys, Apart, OneUp,
    RegeneratesOverNothing, BadKeysAreCut, MemoryAgrees, At, Label, KeysContent, InfoContent

LEMMA StepLocal ==
    ASSUME Local, [Next]_vars PROVE Local'
<1> USE KeysAreKeys DEF Local, At, Goto, FailTo, TypeOK, NoKeysYet, WritesKeys, Label
<1>1. ASSUME NEW d \in Daemon, Start(d) PROVE Local'
  BY <1>1 DEF Start, disk
<1>2. ASSUME NEW d \in Daemon, EnsureDataDir(d) PROVE Local'
  BY <1>2 DEF EnsureDataDir
<1>3. ASSUME NEW d \in Daemon, CheckKeys(d) PROVE Local'
  BY <1>3 DEF CheckKeys, disk
<1>4. ASSUME NEW d \in Daemon, OpenKeys(d) PROVE Local'
  <2>1. gen' \in [Daemon -> {"null"} \cup Key] /\ (At(d, "write")' => gen'[d] \in Key)
    BY <1>4 DEF OpenKeys
  <2>2. keys' \in KeysContent /\ cut' \in BOOLEAN /\ linked' \subseteq Daemon
    BY <1>4 DEF OpenKeys, KeysContent
  <2>3. proc' \in [Daemon -> Label] /\ fault' \in [Daemon -> BOOLEAN]
    BY <1>4 DEF OpenKeys
  <2>4. TypeOK'
    BY <1>4, <2>1, <2>2, <2>3 DEF OpenKeys
  <2>5. NoKeysYet'
    BY <1>4 DEF OpenKeys
  <2>6. WritesKeys'
    BY <1>4, <2>1 DEF OpenKeys
  <2> QED
    BY <2>4, <2>5, <2>6
<1>5. ASSUME NEW d \in Daemon, CloseKeys(d) PROVE Local'
  <2>1. TypeOK'
    BY <1>5 DEF CloseKeys, Writes, KeysContent
  <2>2. NoKeysYet' /\ WritesKeys'
    BY <1>5 DEF CloseKeys
  <2> QED
    BY <2>1, <2>2
<1>6. ASSUME NEW d \in Daemon, ReadKeys(d) PROVE Local'
  BY <1>6 DEF ReadKeys, ReadEnds, disk
<1>7. ASSUME NEW d \in Daemon, UpdateInfo(d) PROVE Local'
  BY <1>7 DEF UpdateInfo, InfoContent
<1>8. ASSUME NEW d \in Daemon, WriteInfo(d) PROVE Local'
  BY <1>8 DEF WriteInfo, disk
<1>9. ASSUME NEW d \in Daemon, OpenInfo(d) PROVE Local'
  BY <1>9 DEF OpenInfo, disk
<1>10. ASSUME NEW d \in Daemon, Ends(d) PROVE Local'
  BY <1>10 DEF Ends
<1>11. CASE PlaceKeys
  BY <1>11 DEF PlaceKeys, KeysContent
<1>12. CASE PlaceInfo
  BY <1>12 DEF PlaceInfo, InfoContent
<1>13. CASE UNCHANGED vars
  BY <1>13 DEF vars, disk
<1> QED
  BY <1>1, <1>2, <1>3, <1>4, <1>5, <1>6, <1>7, <1>8, <1>9, <1>10, <1>11, <1>12, <1>13
     DEF Next

\* Two daemons that were up at once stay on record.
LEMMA MetStays ==
    ASSUME [Next]_vars, met PROVE met'
BY DEF Next, vars, Start, EnsureDataDir, CheckKeys, OpenKeys, CloseKeys, ReadKeys, UpdateInfo,
    WriteInfo, OpenInfo, Ends, PlaceKeys, PlaceInfo

\* A step up to which no two daemons were up at once: the daemon that takes it
\* is the only one.
LEMMA StepApart ==
    ASSUME Local, Apart, [Next]_vars, ~met, ~met' PROVE Apart'
<1> USE KeysAreKeys DEF Local, TypeOK, Apart, At, Goto, FailTo
<1>1. ASSUME NEW d \in Daemon, Start(d) PROVE Apart'
  BY <1>1 DEF Start, Idle, disk, OneUp, RegeneratesOverNothing, BadKeysAreCut, MemoryAgrees
<1>2. ASSUME NEW d \in Daemon, EnsureDataDir(d) PROVE Apart'
  BY <1>2 DEF EnsureDataDir, OneUp, RegeneratesOverNothing, BadKeysAreCut, MemoryAgrees
<1>3. ASSUME NEW d \in Daemon, CheckKeys(d) PROVE Apart'
  BY <1>3 DEF CheckKeys, disk, OneUp, RegeneratesOverNothing, BadKeysAreCut, MemoryAgrees
<1>4. ASSUME NEW d \in Daemon, OpenKeys(d) PROVE Apart'
  <2>1. \A e \in Daemon \ {d} : At(e, "down") /\ priv[e] = "null"
    BY <1>4 DEF OpenKeys, OneUp, NoKeysYet
  <2>2. priv[d] = "null"
    BY <1>4 DEF OpenKeys, NoKeysYet
  <2>3. OneUp'
    BY <1>4, <2>1 DEF OpenKeys, OneUp
  <2>4. RegeneratesOverNothing'
    BY <1>4, <2>1 DEF OpenKeys, RegeneratesOverNothing
  <2>5. BadKeysAreCut' /\ MemoryAgrees'
    BY <1>4, <2>1, <2>2 DEF OpenKeys, BadKeysAreCut, MemoryAgrees
  <2> QED
    BY <2>3, <2>4, <2>5
<1>5. ASSUME NEW d \in Daemon, CloseKeys(d) PROVE Apart'
  <2>1. \A e \in Daemon \ {d} : At(e, "down") /\ priv[e] = "null"
    BY <1>5 DEF CloseKeys, OneUp, NoKeysYet
  <2>2. gen[d] \in Key /\ d \in linked /\ keys = "empty"
    BY <1>5 DEF CloseKeys, RegeneratesOverNothing, WritesKeys
  <2>3. OneUp'
    BY <1>5, <2>1 DEF CloseKeys, OneUp
  <2>4. RegeneratesOverNothing'
    BY <1>5, <2>1 DEF CloseKeys, RegeneratesOverNothing
  <2>5. BadKeysAreCut'
    BY <1>5, <2>2 DEF CloseKeys, Writes, BadKeysAreCut
  <2>6. MemoryAgrees'
    BY <1>5, <2>1, <2>2 DEF CloseKeys, Writes, MemoryAgrees
  <2> QED
    BY <2>3, <2>4, <2>5, <2>6
<1>6. ASSUME NEW d \in Daemon, ReadKeys(d) PROVE Apart'
  BY <1>6 DEF ReadKeys, ReadEnds, disk, OneUp, RegeneratesOverNothing, BadKeysAreCut, MemoryAgrees
<1>7. ASSUME NEW d \in Daemon, UpdateInfo(d) PROVE Apart'
  BY <1>7 DEF UpdateInfo, OneUp, RegeneratesOverNothing, BadKeysAreCut, MemoryAgrees
<1>8. ASSUME NEW d \in Daemon, WriteInfo(d) PROVE Apart'
  BY <1>8 DEF WriteInfo, disk, OneUp, RegeneratesOverNothing, BadKeysAreCut, MemoryAgrees
<1>9. ASSUME NEW d \in Daemon, OpenInfo(d) PROVE Apart'
  BY <1>9 DEF OpenInfo, disk, OneUp, RegeneratesOverNothing, BadKeysAreCut, MemoryAgrees
<1>10. ASSUME NEW d \in Daemon, Ends(d) PROVE Apart'
  <2>1. \A e \in Daemon \ {d} : At(e, "down")
    BY <1>10 DEF Ends, OneUp
  <2> QED
    BY <1>10, <2>1 DEF Ends, OneUp, RegeneratesOverNothing, BadKeysAreCut, MemoryAgrees
<1>11. CASE PlaceKeys
  <2>1. \A d \in Daemon : At(d, "down") /\ priv[d] = "null"
    BY <1>11 DEF PlaceKeys, Idle, NoKeysYet
  <2>2. keys' \notin {"empty", "cut"}
    BY <1>11 DEF PlaceKeys, Foreign
  <2> QED
    BY <1>11, <2>1, <2>2 DEF PlaceKeys, OneUp, RegeneratesOverNothing, BadKeysAreCut,
        MemoryAgrees
<1>12. CASE PlaceInfo
  BY <1>12 DEF PlaceInfo, OneUp, RegeneratesOverNothing, BadKeysAreCut, MemoryAgrees
<1>13. CASE UNCHANGED vars
  BY <1>13 DEF vars, disk, OneUp, RegeneratesOverNothing, BadKeysAreCut, MemoryAgrees
<1> QED
  BY <1>1, <1>2, <1>3, <1>4, <1>5, <1>6, <1>7, <1>8, <1>9, <1>10, <1>11, <1>12, <1>13
     DEF Next

\* The inductive invariant: what each daemon knows by itself, and, unless two
\* were up at once, that router.keys is opened for writing only over no file
\* and keys are in memory only after they are on disk.
THEOREM InvHolds == Spec => []IInv
<1>1. IInv /\ [Next]_vars => IInv'
  BY StepLocal, MetStays, StepApart DEF IInv
<1> QED
  BY InitIInv, <1>1, PTL DEF Spec

\* Unless a write was lost or two daemons were up at once, a start goes on only
\* with keys that the next start will find, and every router.keys that cannot
\* be read is the work of a write cut short (mnet_identity_keys_write, fclose).
THEOREM MemoryIsOnDisk == Spec => [](TypeOK /\ MemoryAgrees /\ BadKeysAreCut)
<1>1. IInv => TypeOK /\ MemoryAgrees /\ BadKeysAreCut
  BY DEF IInv, Local, Apart, MemoryAgrees, BadKeysAreCut
<1> QED
  BY InvHolds, <1>1, PTL

LEMMA StepKeepsKeys ==
    ASSUME IInv, [Next]_vars, ~met, ~Idle, keys \in Key PROVE keys' = keys
<1> USE KeysAreKeys DEF IInv, Apart, At
<1>1. ASSUME NEW d \in Daemon, OpenKeys(d) PROVE FALSE
  BY <1>1 DEF OpenKeys, RegeneratesOverNothing
<1>2. ASSUME NEW d \in Daemon, CloseKeys(d) PROVE FALSE
  BY <1>2 DEF CloseKeys, RegeneratesOverNothing
<1> QED
  BY <1>1, <1>2 DEF Next, vars, disk, Idle, Start, EnsureDataDir, CheckKeys, ReadKeys,
      UpdateInfo, WriteInfo, OpenInfo, Ends, PlaceKeys, PlaceInfo

\* Daemons that are not up at once never change or delete a whole router.keys,
\* whatever fails and wherever they are killed
\* (router_context_regenerate_identity runs over no file only).
THEOREM IdentityStays == Spec => KeysStay
<1>1. IInv /\ [Next]_vars => [~met /\ ~Idle /\ keys \in Key => keys' = keys]_vars
  BY StepKeepsKeys
<1> QED
  BY InvHolds, <1>1, PTL DEF Spec, KeysStay
=============================================================================
