----------------------------- MODULE Bootstrap -----------------------------
(***************************************************************************)
(* The running router of mnet/router.c: every few seconds a timer of the   *)
(* event loop has it look for too few peers and read the router info of a  *)
(* node to begin with, from a file that others write.                      *)
(***************************************************************************)
EXTENDS Integers

CONSTANTS
    MinPeers,   \* NETDB_MIN_PEERS
    Peers,      \* counts of the peers that are loaded
    File,       \* what the bootstrap file may be
    MaxInfos    \* bound: unfreed router infos, and reads, that are counted

ASSUME PeersAssumption == MinPeers \in Nat /\ Peers \subseteq Nat

VARIABLES
    mode,       \* "idle", "running", "closed", "crashed", or "hung"
    bootstrap,  \* the context has the path of a file
    peers,      \* mnet_netdb_loaded_peer_count
    bootfile,   \* the file
    infos,      \* router infos a tick has left allocated
    reads,      \* loads that have returned: each leaves the lines of getdelim,
                \* the nodes of the object and the bytes of the identity behind
    unopened,   \* ticks that could not open the file
    tried       \* a bootstrap from a router has been tried

bvars == <<mode, bootstrap, peers, bootfile, infos, reads, unopened, tried>>

\* The file, by what a tick makes of it: it cannot be opened, is not read, is
\* a list with items, or is a dict with the items that router_info_process looks
\* at.  reader is what reading it does: all goes well, or bencode_obj_dict_set
\* dereferences NULL (for a largest key that comes late, a list or a dict of two
\* entries inside), or closes a circle.
Contents ==
    [kind : {"unopened", "other", "list", "dict"},
     reader : {"well", "null", "circle"},
     caps : {"none", "string", "empty", "other"},
     ident : {"none", "blank", "whole"},    \* blank: mnet_identity_from_base64 failed early
     iwp : {"none", "part", "whole"}]

Counted(n) == IF n < MaxInfos THEN n + 1 ELSE n

-----------------------------------------------------------------------------
(* What a file leaves in a router_info: its identity, its link, its caps. *)

EmptyInfo == [ident |-> "NULL", link |-> FALSE, caps |-> FALSE]

\* iwp_config_load_dict wants an address and a key; the config is freed without
\* them.
HasLink(f) == f.iwp = "whole"

\* How router_info_load ends.  An iwp dict with an address and a key is one of
\* two entries, which bencode_obj_clone sets in rising order.  The caps are those
\* of the bencoded object; of an empty string they are NULL and written to.  The
\* free at the end frees the items of a list again, which may go by unnoticed;
\* over a circle router_info_process frees its caps again or goes on for ever.
LoadOutcomes(f) ==
    CASE f.reader = "null" -> {"crashed"}
      [] f.reader = "circle" -> {"crashed", "hung"}
      [] OTHER ->
            CASE f.kind = "list" -> {"crashed", "hung", "running"}
              [] f.kind = "dict" /\ (HasLink(f) \/ f.caps = "empty") -> {"crashed"}
              [] OTHER -> {"running"}
Loaded(f) == f.kind = "dict"
Info(f) ==
    IF Loaded(f)
    THEN [ident |-> IF f.ident = "none" THEN "NULL" ELSE f.ident,
          link |-> HasLink(f), caps |-> f.caps = "string"]
    ELSE EmptyInfo

\* router_info_base64_ident goes through the identity and its key.
HashCrashes(i) == i.ident # "whole"

\* router_info_verify: what is left of the length without the signature has to
\* be more than nothing, and the length of a router info is never set.
InfoLen == 0
SigLen == 64
Verified(i) == InfoLen - SigLen > 0 /\ i.ident = "whole"

\* router_info_free: iwp_config_free goes through the link, and the caps have
\* been freed before, after which anything may be.
FreeOutcomes(i) ==
    CASE ~i.link -> {"crashed"}
      [] i.link /\ i.caps -> {"crashed", "running"}
      [] OTHER -> {"running"}

-----------------------------------------------------------------------------

BInit ==
    /\ mode = "idle" /\ bootstrap \in BOOLEAN
    /\ peers \in Peers /\ bootfile \in File
    /\ infos = 0 /\ reads = 0 /\ unopened = 0 /\ tried = FALSE

\* router_context_run starts the ticker, the first time at once.
Run ==
    /\ mode = "idle" /\ mode' = "running"
    /\ UNCHANGED <<bootstrap, peers, bootfile, infos, reads, unopened, tried>>

\* router_context_close stops the ticker.
Close ==
    /\ mode = "running" /\ mode' = "closed"
    /\ UNCHANGED <<bootstrap, peers, bootfile, infos, reads, unopened, tried>>

TooFew == peers < MinPeers

\* The process ends inside router_info_load.
LoadEnds ==
    /\ mode' \in LoadOutcomes(bootfile) \ {"running"}
    /\ UNCHANGED <<infos, reads, tried>>

\* Mutant of ReadFile: what did not load is not freed.
ReadFileKeeps ==
    LET i == Info(bootfile)
    IN  \/ LoadEnds
        \/ /\ "running" \in LoadOutcomes(bootfile) /\ reads' = Counted(reads)
           /\ IF Loaded(bootfile) /\ HashCrashes(i)
              THEN mode' = "crashed" /\ UNCHANGED <<infos, tried>>
              ELSE IF ~Loaded(bootfile) \/ Verified(i)
              THEN tried' = Verified(i) /\ infos' = Counted(infos) /\ UNCHANGED mode
              ELSE mode' \in FreeOutcomes(i) /\ UNCHANGED <<infos, tried>>

\* The file is open: a router info that loads and verifies is tried and left
\* allocated, every other is freed.
ReadFile ==
    LET i == Info(bootfile)
    IN  \/ LoadEnds
        \/ /\ "running" \in LoadOutcomes(bootfile) /\ reads' = Counted(reads)
           /\ IF Loaded(bootfile) /\ HashCrashes(i)
              THEN mode' = "crashed" /\ UNCHANGED <<infos, tried>>
              ELSE IF Loaded(bootfile) /\ Verified(i)
              THEN tried' = TRUE /\ infos' = Counted(infos) /\ UNCHANGED mode
              ELSE mode' \in FreeOutcomes(i) /\ UNCHANGED <<infos, tried>>

\* router_context_handle_tick and router_context_ensure_min_peers.  The router
\* info is allocated before the file is opened.
Tick ==
    /\ mode = "running"
    /\ IF TooFew /\ bootstrap
       THEN \/ bootfile.kind # "unopened" /\ ReadFile /\ UNCHANGED unopened
            \/ /\ bootfile.kind = "unopened"
               /\ infos' = Counted(infos) /\ unopened' = Counted(unopened)
               /\ UNCHANGED <<mode, reads, tried>>
       ELSE UNCHANGED <<mode, infos, reads, unopened, tried>>
    /\ UNCHANGED <<bootstrap, peers, bootfile>>

\* Somebody writes or removes the file.
Write(f) ==
    /\ bootfile' = f
    /\ UNCHANGED <<mode, bootstrap, peers, infos, reads, unopened, tried>>

BNext == Run \/ Close \/ Tick \/ \E f \in File : Write(f)

BSpec == BInit /\ [][BNext]_bvars

-----------------------------------------------------------------------------
(* Properties. *)

\* In a process that still runs, memory has been lost only to ticks that could
\* not open the file, or handed to a bootstrap that is tried: whatever is left by
\* a read, of a router info or of the bencoded object, goes with the process, of
\* which no such tick is survived.
LeaksAreUnopened ==
    mode \in {"crashed", "hung"} \/ tried \/ (infos <= unopened /\ reads = 0)

\* router.c over its two branches for a file that does not do: "invalid file or
\* signature", "invalid format".  Each logs and goes on to the next tick, but
\* loading the file, hashing it or freeing it ends the process.
BadFilesAreReported == [][Tick /\ bootfile.kind # "unopened" => mode' = "running"]_bvars
=============================================================================
