---------------------------- MODULE MCSkynetStart ----------------------------
(* SkynetStart for TLC: the bounds are in the configuration.               *)
EXTENDS SkynetStart
=============================================================================
