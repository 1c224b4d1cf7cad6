--------------------------- MODULE MCPeerRequests ---------------------------
(* An honest peer with the fast extension, one without that need not answer, *)
(* and a webseed; a piece of two blocks and a piece of one.                  *)
EXTENDS PeerRequests, TLC

CONSTANTS honest, silent, web, a, b

MCPieceOf == (0 :> a) @@ (1 :> a) @@ (2 :> b)
MCPeerHas == [p \in Peers |-> {a, b}]
=============================================================================
