----------------------------- MODULE TimerQueue -----------------------------
(***************************************************************************)
(* What the timer promises: a timeout of d ticks is answered exactly d     *)
(* ticks later, once, and timeouts due at the same tick are answered in    *)
(* the order in which they were set.                                       *)
(***************************************************************************)
EXTENDS Naturals, Sequences

CONSTANTS Session, Horizon     \* delays are below Horizon

VARIABLES
    due,        \* due[d]: the sessions to answer d ticks from now
    answered    \* sessions whose response is on its way to their service

QueueInit == due = [d \in 0..Horizon - 1 |-> <<>>] /\ answered = {}

Set(s, d) ==
    /\ answered' = answered
    /\ due'[d] = Append(due[d], s)
    /\ due' = [due EXCEPT ![d] = due'[d]]

SetNow(s) ==
    /\ answered' = answered \cup {s}
    /\ UNCHANGED due

\* time goes on only when everything due has been answered
Tick ==
    /\ due[0] = <<>>
    /\ due' = [d \in 0..Horizon - 1 |-> IF d + 1 < Horizon THEN due[d + 1] ELSE <<>>]
    /\ UNCHANGED answered

Answer ==
    /\ due[0] # <<>>
    /\ answered' = answered \cup {Head(due[0])}
    /\ due' = [due EXCEPT ![0] = Tail(@)]

Consume(s) == s \in answered /\ answered' = answered \ {s} /\ UNCHANGED due

QueueNext ==
    \/ \E s \in Session : SetNow(s) \/ Consume(s) \/ \E d \in 1..Horizon - 1 : Set(s, d)
    \/ Tick
    \/ Answer

QueueSpec == QueueInit /\ [][QueueNext]_<<due, answered>>
=============================================================================
