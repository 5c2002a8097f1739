--------------------------- MODULE MCSkynetHandle ---------------------------
(* SkynetHandle for TLC: handles of two or three bits, and a table of one  *)
(* or two slots that is expanded.                                          *)
EXTENDS SkynetHandle, TLC

CONSTANTS l1, l2, c1, c2, c3

MCOneLauncher == {l1}
MCTwoLaunchers == {l1, l2}
MCCtx == {c1, c2, c3}
MCName == 1..3
MCNoName == {}
MCSymmetry == Permutations(MCCtx)
=============================================================================
