--------------------------- MODULE MCSocketServer ---------------------------
(* SocketServer for TLC: one thread that sends, one that opens and closes,  *)
(* and the poll thread; two slots, the listening socket in one of them, so  *)
(* that the ids 2 and 4 share the other one.                                *)
EXTENDS SocketServer

CONSTANTS w1, w2

MCSender == {w1}
MCOpener == {w2}
=============================================================================
