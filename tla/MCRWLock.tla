------------------------------ MODULE MCRWLock ------------------------------
(* RWLock for TLC: four threads, each of which may read and write.         *)
EXTENDS RWLock

CONSTANTS t1, t2, t3, t4

MCThread == {t1, t2, t3, t4}
=============================================================================
