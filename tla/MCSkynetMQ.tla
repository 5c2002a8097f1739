----------------------------- MODULE MCSkynetMQ -----------------------------
(* SkynetMQ for TLC: a ring of two slots that expands twice, and an        *)
(* overload threshold below the bound so that it is raised twice.          *)
EXTENDS SkynetMQ

CONSTANTS m1, m2

MCMsg == {m1, m2}
=============================================================================
