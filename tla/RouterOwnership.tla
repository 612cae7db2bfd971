--------------------------- MODULE RouterOwnership ---------------------------
(***************************************************************************)
(* Who owns the identity of the router.  router_info_generate gives the    *)
(* router info the identity of the keys itself, not a copy                 *)
(* (mnet_identity_keys_to_public), and both structures have a free of      *)
(* their own.  The calls of router.h on a context, in any order, next to   *)
(* the timer of Bootstrap.                                                 *)
(***************************************************************************)
EXTENDS Bootstrap

CONSTANT MaxIdents    \* bound: identities that are generated

VARIABLES
    made,       \* identities allocated so far, named 1 .. made
    gone,       \* those of them that have been freed
    privkeys,   \* the identity of ctx->privkeys, or NULL when there are no keys
    our_ri      \* the identity of ctx->our_ri, or NULL when there is none

ovars == <<made, gone, privkeys, our_ri>>

NULL == 0

OInit == BInit /\ made = 0 /\ gone = {} /\ privkeys = NULL /\ our_ri = NULL

\* The context exists and the process runs.
Usable == mode \in {"idle", "running", "closed"}

Crash == mode' = "crashed"

rest == <<bootstrap, peers, bootfile, infos, reads, unopened, tried>>

\* Mutant of Regenerate: the keys that are replaced take their identity along.
RegenerateFreesIdentity ==
    /\ Usable /\ made < MaxIdents
    /\ made' = made + 1 /\ privkeys' = made + 1
    /\ gone' = gone \cup ({privkeys} \ {NULL})
    /\ UNCHANGED <<mode, rest, our_ri>>

\* router_context_regenerate_identity: mnet_identity_keys_free frees the signer
\* of the keys that are replaced and leaves their identity.  A call whose fopen
\* fails changes nothing.
Regenerate ==
    /\ Usable /\ made < MaxIdents
    /\ made' = made + 1 /\ privkeys' = made + 1
    /\ UNCHANGED <<mode, rest, gone, our_ri>>

\* A generated router info has an identity and no link, so that nothing it is
\* made of saves its router_info_free.
GeneratedInfo == [ident |-> "whole", link |-> FALSE, caps |-> FALSE]

\* router_info_free of the router info there is: its identity first, which the
\* keys may share, then its link, which it does not have.
FreeInfo ==
    /\ gone' = gone \cup {our_ri}
    /\ mode' \in FreeOutcomes(GeneratedInfo)
    /\ UNCHANGED our_ri

\* router_context_update_router_info with a configuration: without keys
\* mnet_identity_keys_to_public goes through a NULL pointer.
UpdateRouterInfo ==
    /\ Usable
    /\ IF our_ri # NULL THEN FreeInfo
       ELSE /\ IF privkeys = NULL THEN Crash /\ UNCHANGED our_ri
               ELSE our_ri' = privkeys /\ UNCHANGED mode
            /\ UNCHANGED gone
    /\ UNCHANGED <<rest, made, privkeys>>

\* ... and without one: router_info_generate reads config->caps, after the
\* router info there is has been freed.
UpdateRouterInfoNull ==
    /\ Usable /\ Crash
    /\ gone' = gone \cup ({our_ri} \ {NULL})
    /\ UNCHANGED <<rest, made, privkeys, our_ri>>

\* router_context_free: neither the keys nor the router info are freed, nor
\* what router_context_run has allocated.
FreeContext ==
    /\ mode \in {"idle", "closed"}
    /\ mode' = "freed"
    /\ UNCHANGED <<rest, ovars>>

ONext ==
    \/ BNext /\ UNCHANGED ovars
    \/ Regenerate
    \/ UpdateRouterInfo
    \/ UpdateRouterInfoNull
    \/ FreeContext

OSpec == OInit /\ [][ONext]_<<bvars, ovars>>

-----------------------------------------------------------------------------
(* Properties. *)

\* As long as the process runs, keys and router info have an identity that has
\* not been freed, in whatever order the calls of router.h come and however
\* long the old router info outlives the keys it was made from
\* (mnet_identity_keys_to_public; router_info_free, which does not return for
\* a router info that shares its identity).
IdentityOutlivesUse == mode # "crashed" => {privkeys, our_ri} \cap gone = {}
=============================================================================
