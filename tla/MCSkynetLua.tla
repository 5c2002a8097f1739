---------------------------- MODULE MCSkynetLua ----------------------------
(* SkynetLua for TLC: three coroutines and one peer.                       *)
EXTENDS SkynetLua, TLC

CONSTANTS c1, c2, c3, p1

MCCo == {c1, c2, c3}
MCPeer == {p1}
Symmetry == Permutations(MCCo)
=============================================================================
