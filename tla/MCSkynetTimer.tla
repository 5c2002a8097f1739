---------------------------- MODULE MCSkynetTimer ----------------------------
(* SkynetTimer for TLC: a wheel with a clock of five bits and two timeouts. *)
EXTENDS SkynetTimer

CONSTANTS s1, s2

MCSession == {s1, s2}
=============================================================================
