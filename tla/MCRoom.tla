------------------------------- MODULE MCRoom -------------------------------
(* Room for TLC: three users, the first of whom owns the room.             *)
EXTENDS Room

CONSTANTS u1, u2, u3

MCUser == {u1, u2, u3}
=============================================================================
