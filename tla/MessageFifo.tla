----------------------------- MODULE MessageFifo -----------------------------
(***************************************************************************)
(* What the message queue of a service promises: an unbounded first in,    *)
(* first out queue that loses, duplicates and reorders nothing.            *)
(***************************************************************************)
EXTENDS Sequences, Naturals

CONSTANTS Msg, None

VARIABLES
    fifo,   \* the messages in the queue, oldest first
    out     \* what the last pop returned: a message, or None

FifoInit == fifo = <<>> /\ out = None

FifoPush(m) == fifo' = Append(fifo, m) /\ out' = out

FifoPop ==
    /\ fifo # <<>>
    /\ out' = Head(fifo)
    /\ fifo' = Tail(fifo)

FifoPopEmpty == fifo = <<>> /\ out' = None /\ fifo' = fifo

FifoNext == (\E m \in Msg : FifoPush(m)) \/ FifoPop \/ FifoPopEmpty

FifoSpec == FifoInit /\ [][FifoNext]_<<fifo, out>>
=============================================================================
