------------------------------ MODULE SkynetMQ ------------------------------
(***************************************************************************)
(* The ring buffer of one service's message queue and its overload warning *)
(* (skynet-src/skynet_mq.c).  The flags in_global and release, and the     *)
(* global queue, are in module SkynetServer.                               *)
(*                                                                         *)
(* Any thread pushes; the worker that owns the queue pops, and asks for an *)
(* overload after each message it got (skynet_context_message_dispatch).   *)
(* skynet_mq_push, skynet_mq_pop and skynet_mq_length run under the        *)
(* queue's lock; skynet_mq_overload does not.                              *)
(***************************************************************************)
EXTENDS Integers, Sequences

CONSTANTS
    Msg,                \* messages
    None,               \* no message
    DEFAULT_QUEUE_SIZE,
    MQ_OVERLOAD,
    MaxLength           \* bound: messages in the queue at one time

ASSUME MQAssumption ==
    /\ None \notin Msg
    /\ DEFAULT_QUEUE_SIZE \in Nat \ {0}
    /\ MQ_OVERLOAD \in Nat \ {0}
    /\ MaxLength \in Nat

VARIABLES
    queue, head, tail, cap,         \* the ring
    overload, overload_threshold,
    out,        \* what the last skynet_mq_pop returned
    popped,     \* the worker got a message and has not asked for overload yet
    warned      \* the last "May overload" warning since the queue was empty

ring == <<queue, head, tail, cap>>
mqvars == <<ring, overload, overload_threshold, out, popped, warned>>

Init ==
    /\ cap = DEFAULT_QUEUE_SIZE
    /\ queue = [i \in 0..cap - 1 |-> None]
    /\ head = 0
    /\ tail = 0
    /\ overload = 0
    /\ overload_threshold = MQ_OVERLOAD
    /\ out = None
    /\ popped = FALSE
    /\ warned = 0

\* skynet_mq_length
Length == IF head <= tail THEN tail - head ELSE tail + cap - head

\* mutant: the messages are copied without regard to head
expand_queue_unrotated(q, h) == [i \in 0..2 * cap - 1 |-> IF i < cap THEN q[i] ELSE None]

\* expand_queue: the messages of the full ring q, oldest first, in a ring
\* twice as large
expand_queue(q, h) == [i \in 0..2 * cap - 1 |-> IF i < cap THEN q[(h + i) % cap] ELSE None]

\* skynet_mq_push
Push(m) ==
    LET q == [queue EXCEPT ![tail] = m]
        tl == IF tail + 1 >= cap THEN 0 ELSE tail + 1
    IN
    /\ Length < MaxLength
    /\ \/ /\ head # tl
          /\ queue' = q
          /\ tail' = tl
          /\ UNCHANGED <<head, cap>>
       \/ /\ head = tl
          /\ queue' = expand_queue(q, head)
          /\ head' = 0
          /\ tail' = cap
          /\ cap' = 2 * cap
    /\ UNCHANGED <<overload, overload_threshold, out, popped, warned>>

\* th, 2*th, 4*th, ...: the threshold after each turn of its loop
Thresholds(n, th) ==
    LET t[k \in 0..n] == IF k = 0 THEN th ELSE 2 * t[k - 1]
    IN  t

\* the threshold after `while (length > threshold) threshold *= 2': the first
\* that is not below the length n
Doubled(n, th) ==
    LET reach == {x \in {Thresholds(n, th)[k] : k \in 0..n} : n <= x}
    IN  CHOOSE x \in reach : \A y \in reach : x <= y

\* mutant: the threshold is not raised by the warning
PopSameThreshold ==
    LET h == IF head + 1 >= cap THEN 0 ELSE head + 1
        length == IF tail - h < 0 THEN tail - h + cap ELSE tail - h
    IN
    /\ head # tail
    /\ ~popped
    /\ out' = queue[head]
    /\ head' = h
    /\ overload' = IF length > overload_threshold THEN length ELSE overload
    /\ popped' = TRUE
    /\ UNCHANGED <<queue, tail, cap, overload_threshold, warned>>

\* skynet_mq_pop of a queue with messages
Pop ==
    LET h == IF head + 1 >= cap THEN 0 ELSE head + 1
        length == IF tail - h < 0 THEN tail - h + cap ELSE tail - h
    IN
    /\ head # tail
    /\ ~popped
    /\ out' = queue[head]
    /\ head' = h
    /\ overload' = IF length > overload_threshold THEN length ELSE overload
    /\ overload_threshold' = Doubled(length, overload_threshold)
    /\ popped' = TRUE
    /\ UNCHANGED <<queue, tail, cap, warned>>

\* skynet_mq_pop of an empty queue
PopEmpty ==
    /\ head = tail
    /\ ~popped
    /\ out' = None
    /\ overload_threshold' = MQ_OVERLOAD
    /\ warned' = 0
    /\ UNCHANGED <<ring, overload, popped>>

\* skynet_mq_overload, after the message was taken and the lock released:
\* a length that is not zero is logged
Overload ==
    /\ popped
    /\ popped' = FALSE
    /\ overload' = 0
    /\ warned' = IF overload # 0 THEN overload ELSE warned
    /\ UNCHANGED <<ring, overload_threshold, out>>

Next == (\E m \in Msg : Push(m)) \/ Pop \/ PopEmpty \/ Overload

Spec == Init /\ [][Next]_mqvars

-----------------------------------------------------------------------------
(* Properties                                                              *)

\* The ring is well formed: both indices are inside the buffer, and every
\* slot from head up to tail holds a message, not an uninitialized value.
RingOK ==
    /\ cap \in Nat \ {0}
    /\ head \in 0..cap - 1
    /\ tail \in 0..cap - 1
    /\ queue \in [0..cap - 1 -> Msg \cup {None}]
    /\ \A i \in 0..cap - 1 :
         (head <= i /\ i < tail) \/ (tail < head /\ (i < tail \/ head <= i)) => queue[i] \in Msg
    /\ out \in Msg \cup {None}

\* Every variable keeps its type, and the ring is well formed.
TypeOK ==
    /\ RingOK
    /\ overload \in Nat
    /\ overload_threshold \in Nat \ {0}
    /\ popped \in BOOLEAN
    /\ warned \in Nat

\* position i of the queue, counted from the oldest message
At(i) == IF head + i < cap THEN head + i ELSE head + i - cap

\* the messages of the ring, oldest first
Contents == [i \in 1..Length |-> queue[At(i - 1)]]

Fifo == INSTANCE MessageFifo WITH fifo <- Contents

\* The ring with its wrap-around and its expansion is a first in, first out
\* queue: no push overwrites a message and no pop returns a stale one.
ImplementsFifo == Fifo!FifoSpec

\* A warning states a length the queue really had above the threshold, and
\* the threshold is then at least this length and below twice it.
WarningExact ==
    /\ overload # 0 => /\ MQ_OVERLOAD < overload
                       /\ overload <= overload_threshold
                       /\ overload_threshold < 2 * overload
    /\ warned # 0 => MQ_OVERLOAD < warned /\ warned <= overload_threshold
=============================================================================
