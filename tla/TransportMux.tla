---------------------------- MODULE TransportMux ----------------------------
(***************************************************************************)
(* mnet/transport.c: the transport muxer, an array of slots in which link  *)
(* transports register under a name.  A deregistered transport leaves a    *)
(* hole that the next one fills.                                           *)
(***************************************************************************)
EXTENDS Naturals, FiniteSets

CONSTANTS
    Impl,       \* the mnet_garlic_transport_impl records of the callers
    NameOf,     \* impl -> name
    Slots,      \* MAX_GARLIC_TRANSPORTS, 3 in the code
    NoImpl      \* a slot whose name is NULL

Slot == 0 .. Slots - 1

ASSUME SlotsAssumption == Slots \in Nat
ASSUME NoImplAssumption == NoImpl \notin Impl

VARIABLES
    links,      \* t->links
    result      \* what the last register returned

muxvars == <<links, result>>

MuxInit == links = [s \in Slot |-> NoImpl] /\ result = 0

Used == {s \in Slot : links[s] # NoImpl}

\* The transports registered.
Registered == {links[s] : s \in Used}

IsRegistered(i) == \E s \in Used : NameOf[links[s]] = NameOf[i]

FirstEmpty(s) == s \in Slot \ Used /\ \A r \in 0 .. s - 1 : r \in Used

\* Mutant of Register: a name that is taken counts as success.
RegisterTakenIsOk(i) ==
    \/ /\ ~IsRegistered(i)
       /\ \E s \in Slot : FirstEmpty(s) /\ links' = [links EXCEPT ![s] = i]
       /\ result' = 1
    \/ IsRegistered(i) /\ result' = 1 /\ UNCHANGED links
    \/ ~IsRegistered(i) /\ Slot = Used /\ result' = 0 /\ UNCHANGED links

\* mnet_garlic_transport_register
Register(i) ==
    \/ /\ ~IsRegistered(i)
       /\ \E s \in Slot : FirstEmpty(s) /\ links' = [links EXCEPT ![s] = i]
       /\ result' = 1
    \/ /\ IsRegistered(i) \/ Slot = Used
       /\ result' = 0 /\ UNCHANGED links

\* mnet_garlic_transport_deregister looks at the name only; the first slot
\* that has it is cleared.
Deregister(i) ==
    /\ \/ \E s \in Used :
            /\ NameOf[links[s]] = NameOf[i]
            /\ \A r \in 0 .. s - 1 : r \in Used => NameOf[links[r]] # NameOf[i]
            /\ links' = [links EXCEPT ![s] = NoImpl]
       \/ ~IsRegistered(i) /\ UNCHANGED links
    /\ UNCHANGED result

MuxNext == \E i \in Impl : Register(i) \/ Deregister(i)

MuxSpec == MuxInit /\ [][MuxNext]_muxvars

-----------------------------------------------------------------------------
(* Properties. *)

\* Every variable has its type.
MuxTypeOK == links \in [Slot -> Impl \cup {NoImpl}] /\ result \in {0, 1}

\* No two slots hold a name, whatever holes deregistering has left between.
OneSlotPerName ==
    \A r, s \in Used : NameOf[links[r]] = NameOf[links[s]] => r = s

\* register refuses a transport only for a name that is taken or when no slot
\* is free: holes are found again.
RefusedForCause ==
    [][\A i \in Impl : Register(i) /\ result' = 0 =>
          NameOf[i] \in {NameOf[j] : j \in Registered} \/ Cardinality(Registered) = Slots]_muxvars

\* The array implements the set of transports.
Abstract == INSTANCE TransportSet WITH registered <- Registered
ImplementsSet == Abstract!SSpec
=============================================================================
