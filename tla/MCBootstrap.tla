---------------------------- MODULE MCBootstrap ----------------------------
(* Every file; one peer less than the minimum, and the minimum; three keys. *)
EXTENDS RouterOwnership

MCItem(f) == f.caps # "none" \/ f.ident # "none" \/ f.iwp # "none"

\* Only a dict has items that router_info_process looks at.
MCFile ==
    {f \in Contents :
        /\ f.kind # "dict" => ~MCItem(f)
        /\ f.kind = "unopened" => f.reader = "well"}

MCPeers == {MinPeers - 1, MinPeers}
=============================================================================
