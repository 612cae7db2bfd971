---------------------------- MODULE TransportSet ----------------------------
(***************************************************************************)
(* What the transport muxer promises (include/mnet/transport.h): a set of  *)
(* at most Slots transports, one of a name.                                *)
(***************************************************************************)
EXTENDS Naturals, FiniteSets

CONSTANTS Impl, NameOf, Slots

VARIABLES registered, result

SInit == registered = {} /\ result = 0

NameTaken(i) == \E j \in registered : NameOf[j] = NameOf[i]

\* "return 1 if we registered successfully otherwise return 0"
SRegister(i) ==
    IF ~NameTaken(i) /\ Cardinality(registered) < Slots
    THEN registered' = registered \cup {i} /\ result' = 1
    ELSE UNCHANGED registered /\ result' = 0

\* A transport is known by its name.
SDeregister(i) ==
    /\ registered' = {j \in registered : NameOf[j] # NameOf[i]}
    /\ UNCHANGED result

SNext == \E i \in Impl : SRegister(i) \/ SDeregister(i)

SSpec == SInit /\ [][SNext]_<<registered, result>>
=============================================================================
