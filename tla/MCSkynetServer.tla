--------------------------- MODULE MCSkynetServer ---------------------------
(* SkynetServer for TLC: two workers of different weight, one outside      *)
(* thread, three contexts of which one exists from the start.              *)
EXTENDS SkynetServer, TLC

CONSTANTS w1, w2, o1, boot, c1, c2

MCWorker == {w1, w2}
MCOutside == {o1}
MCCtx == {boot, c1, c2}
\* the contexts that do not exist yet are interchangeable
MCSymmetry == Permutations({c1, c2})
MCCtx2 == {boot, c1}
MCWeight == [w \in MCWorker |-> IF w = w1 THEN -1 ELSE 0]
=============================================================================
