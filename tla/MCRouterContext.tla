--------------------------- MODULE MCRouterContext ---------------------------
(* One daemon or two over one data directory, two keys to draw from. *)
EXTENDS RouterContext

CONSTANTS d1, d2, ka, kb

MCOne == {d1}
MCTwo == {d1, d2}
MCKey == {ka, kb}
=============================================================================
