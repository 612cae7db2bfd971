------------------------------ MODULE MCDaemon ------------------------------
(***************************************************************************)
(* The parts of the daemon that share no state, in one run: the start of   *)
(* router.c, one daemon or two over one data directory; its timer and the  *)
(* identity of its keys; the two tables of the garlic layer; and the       *)
(* configuration with main.  A behaviour is one of one part; the others    *)
(* stand still.                                                            *)
(***************************************************************************)
EXTENDS MCRouterContext, MCBootstrap, TransportMux, TunnelTable, Config

CONSTANTS iwp, iwp2, ntcp, ssu, tor

VARIABLE part

\* Five transports, two of one name, for the three slots of the code.
MCImpl == {iwp, iwp2, ntcp, ssu, tor}
MCNameOf == [i \in MCImpl |-> IF i = iwp2 THEN iwp ELSE i]

\* Pieces of a configuration file: entries with and without blanks, a comment
\* after a value, a key without an "=", an empty line; and lines they make
\* longer than the buffer.
MCChunks == {
    CheckKey \o <<Equals>> \o One,
    DirKey \o <<Space, Equals, Space, Other>>,
    <<Equals, "a">>, <<Space, Hash>>, <<Space>>, <<Newline>>, CheckKey}

\* A home directory with a comment sign in its name, one without, and none.
MCHomes == {NoHome, <<Other>>, <<Other, Hash>>}

-----------------------------------------------------------------------------
\* a part that does not move
RouterRests == Init /\ datadir
BootRests == OInit /\ bootstrap /\ peers = MinPeers /\ bootfile = CHOOSE f \in File : TRUE
ConfigRests == CfgInit /\ env = [home |-> NoHome, root |-> FALSE]

bootvars == <<bvars, ovars>>

MCInit ==
    \/ part = "router" /\ Init /\ BootRests /\ MuxInit /\ TInit /\ ConfigRests
    \/ part = "boot" /\ RouterRests /\ OInit /\ MuxInit /\ TInit /\ ConfigRests
    \/ part \in {"mux", "tunnels"} /\ RouterRests /\ BootRests /\ MuxInit /\ TInit /\ ConfigRests
    \/ part = "config" /\ RouterRests /\ BootRests /\ MuxInit /\ TInit /\ CfgInit

MCNext ==
    /\ UNCHANGED part
    /\ \/ part = "router" /\ Next /\ UNCHANGED <<bootvars, muxvars, tvars, cfgvars>>
       \/ part = "boot" /\ ONext /\ UNCHANGED <<vars, muxvars, tvars, cfgvars>>
       \/ part = "mux" /\ MuxNext /\ UNCHANGED <<vars, bootvars, tvars, cfgvars>>
       \/ part = "tunnels" /\ TNext /\ UNCHANGED <<vars, bootvars, muxvars, cfgvars>>
       \/ part = "config" /\ CfgNext /\ UNCHANGED <<vars, bootvars, muxvars, tvars>>

MCSpec == MCInit /\ [][MCNext]_<<part, vars, bootvars, muxvars, tvars, cfgvars>>
=============================================================================
