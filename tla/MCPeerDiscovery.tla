-------------------------- MODULE MCPeerDiscovery --------------------------
(***************************************************************************)
(* A small instance of PeerDiscovery for TLC: two nodes that lose and find *)
(* one another.                                                            *)
(***************************************************************************)
EXTENDS PeerDiscovery

MCZones == {1, 2}
MCLinks == {<<1, 2>>, <<2, 1>>}
=============================================================================
