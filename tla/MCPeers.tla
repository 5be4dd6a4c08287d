------------------------------- MODULE MCPeers -------------------------------
(***************************************************************************)
(* Two peers of one network prefix, of which only one may be connected at  *)
(* a time unless it is whitelisted.                                        *)
(***************************************************************************)
EXTENDS Peers

CONSTANTS h1, h2
MCClassOf == [h \in Host |-> 1]
=============================================================================
