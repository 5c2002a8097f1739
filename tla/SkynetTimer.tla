----------------------------- MODULE SkynetTimer -----------------------------
(***************************************************************************)
(* The timing wheel of skynet-src/skynet_timer.c: one array of lists for   *)
(* the near future and four levels of coarser lists, which are moved       *)
(* towards the near array as the 32 bit clock T->time goes on and wraps.   *)
(*                                                                         *)
(* The sizes are constants: TIME_NEAR = 2^8 and TIME_LEVEL = 2^6 in the    *)
(* source, where TIME_NEAR * TIME_LEVEL^4 = 2^32 is the range of the       *)
(* clock; smaller powers keep every one of these relations.  The bit       *)
(* operations are written as quotients and remainders by powers of two.    *)
(*                                                                         *)
(* The timer thread runs timer_update; the services call skynet_timeout    *)
(* from any thread, whenever the timer thread does not hold T->lock.       *)
(***************************************************************************)
EXTENDS Integers, Sequences, SequencesExt

CONSTANTS
    TIME_NEAR,
    TIME_LEVEL,
    Session,    \* the timeouts that can be pending at one time
    MaxDiff     \* bound: ticks the clock advances between two updates

ASSUME TimerAssumption ==
    /\ TIME_NEAR \in Nat \ {0, 1}
    /\ TIME_LEVEL \in Nat \ {0, 1}
    /\ MaxDiff \in Nat \ {0}

\* the ticks one list of level i stands for, and all of them together: each
\* level shifts by TIME_LEVEL_SHIFT bits more
Span ==
  [i \in 0..4 |->
    CASE i = 0 -> TIME_NEAR
      [] i = 1 -> TIME_NEAR * TIME_LEVEL
      [] i = 2 -> TIME_NEAR * TIME_LEVEL * TIME_LEVEL
      [] i = 3 -> TIME_NEAR * TIME_LEVEL * TIME_LEVEL * TIME_LEVEL
      [] i = 4 -> TIME_NEAR * TIME_LEVEL * TIME_LEVEL * TIME_LEVEL * TIME_LEVEL]

\* the values of a uint32_t
Range32 == Span[4]

\* mutant: a timeout of 0 is put into the wheel
DelayFromZero == 0..Range32 \div 2 - 1

\* the positive values of an int
Delay == 1..Range32 \div 2 - 1

VARIABLES
    time,       \* T->time
    near,       \* T->near
    level,      \* T->t
    moving,     \* the rest of the list that move_list walks
    pc,         \* where the timer thread is
    firing,     \* the list dispatch_list walks
    diff,       \* timer_update calls left in skynet_updatetime
    answered    \* sessions whose response was pushed and not yet handled

timervars == <<time, near, level, moving, pc, firing, diff, answered>>

\* a timer_node: its session stands for the event it carries
Node == [session : Session, expire : 0..Range32 - 1]

Init ==
    /\ time = 0
    /\ near = [k \in 0..TIME_NEAR - 1 |-> <<>>]
    /\ level = [i \in 0..3 |-> [k \in 0..TIME_LEVEL - 1 |-> <<>>]]
    /\ moving = <<>>
    /\ pc = "sleep"
    /\ firing = <<>>
    /\ diff = 0
    /\ answered = {}

-----------------------------------------------------------------------------
(* add_node: where a node that expires at e belongs when the time is now   *)

IsNear(e, now) == e \div TIME_NEAR = now \div TIME_NEAR

\* mutant: the search for the level stops one level early
LevelOfShort(e, now) ==
    CHOOSE i \in 0..3 :
       /\ i < 2 => e \div Span[i + 1] = now \div Span[i + 1]
       /\ \A j \in 0..i - 1 :
            e \div Span[j + 1] # now \div Span[j + 1]

\* the first level whose span e shares with now, level 3 if none does
LevelOf(e, now) ==
    CHOOSE i \in 0..3 :
       /\ i < 3 => e \div Span[i + 1] = now \div Span[i + 1]
       /\ \A j \in 0..i - 1 :
            e \div Span[j + 1] # now \div Span[j + 1]

IndexOf(e, i) == (e \div Span[i]) % TIME_LEVEL

\* link appends the node to the list of the near array or of a level
AddNode(x) ==
    \/ /\ IsNear(x.expire, time)
       /\ near' = [near EXCEPT ![x.expire % TIME_NEAR] = Append(@, x)]
       /\ UNCHANGED level
    \/ /\ ~IsNear(x.expire, time)
       /\ LET i == LevelOf(x.expire, time)
          IN  level' = [level EXCEPT ![i][IndexOf(x.expire, i)] = Append(@, x)]
       /\ UNCHANGED near

-----------------------------------------------------------------------------
(* skynet_timeout                                                          *)

\* all the lists a node can be in
Lists ==
    {near[k] : k \in 0..TIME_NEAR - 1} \cup {moving, firing}
      \cup UNION {{level[i][k] : k \in 0..TIME_LEVEL - 1} : i \in 0..3}

Waiting == {x.session : x \in UNION {ToSet(l) : l \in Lists}}

\* a session is used again only after its service handled the response
Idle(s) == s \notin Waiting \cup answered

\* T->lock is free
Unlocked == pc \in {"sleep", "update", "dispatch0", "dispatch1"}

\* time > 0: timer_add
TimeoutLater(s, d) ==
    /\ Idle(s)
    /\ Unlocked
    /\ AddNode([session |-> s, expire |-> (time + d) % Range32])
    /\ UNCHANGED <<time, moving, pc, firing, diff, answered>>

\* time <= 0: the response is pushed at once
TimeoutNow(s) ==
    /\ Idle(s)
    /\ answered' = answered \cup {s}
    /\ UNCHANGED <<time, near, level, moving, pc, firing, diff>>

\* external: the service's worker handles the response
HandleResponse(s) ==
    /\ s \in answered
    /\ answered' = answered \ {s}
    /\ UNCHANGED <<time, near, level, moving, pc, firing, diff>>

-----------------------------------------------------------------------------
(* The timer thread                                                        *)

\* skynet_updatetime finds the clock d ticks further.  A clock that did not
\* advance, or went back, only sets current_point: nothing changes here.
UpdateTime(d) ==
    /\ pc = "sleep"
    /\ diff' = d
    /\ pc' = "update"
    /\ UNCHANGED <<time, near, level, moving, firing, answered>>

\* the loop of skynet_updatetime: lock T for the next timer_update, or end
UpdateLoop ==
    /\ pc = "update"
    /\ diff > 0
    /\ pc' = "execute0"
    /\ diff' = diff - 1
    /\ UNCHANGED <<time, near, level, moving, firing, answered>>

UpdateDone ==
    /\ pc = "update"
    /\ diff = 0
    /\ pc' = "sleep"
    /\ UNCHANGED <<time, near, level, moving, firing, diff, answered>>

Now == time % TIME_NEAR

\* timer_execute (0 before, 1 after the shift) found nodes due: take the
\* list and unlock T
ExecuteTake ==
    /\ pc \in {"execute0", "execute1"}
    /\ near[Now] # <<>>
    /\ firing' = near[Now]
    /\ near' = [near EXCEPT ![Now] = <<>>]
    /\ pc' = IF pc = "execute0" THEN "dispatch0" ELSE "dispatch1"
    /\ UNCHANGED <<time, level, moving, diff, answered>>

\* dispatch_list: push the response of one node; after the last one
\* timer_execute looks again
Dispatch ==
    /\ pc \in {"dispatch0", "dispatch1"}
    /\ answered' = answered \cup {Head(firing).session}
    /\ firing' = Tail(firing)
    /\ pc' = CASE Len(firing) > 1 -> pc
               [] pc = "dispatch0" -> "execute0"
               [] OTHER -> "execute1"
    /\ UNCHANGED <<time, near, level, moving, diff>>

\* the lists timer_shift moves when the time becomes ct: one at most, of the
\* lowest level whose index is not 0
CascadeAt(ct, i) == ct % Span[i] = 0 /\ IndexOf(ct, i) # 0

\* mutant: the wrap of the clock to 0 moves nothing
CascadeNoWrap(ct) == {<<i, IndexOf(ct, i)>> : i \in {j \in 0..3 : CascadeAt(ct, j)}}

Cascade(ct) ==
    IF ct = 0 THEN {<<3, 0>>}
              ELSE {<<i, IndexOf(ct, i)>> : i \in {j \in 0..3 : CascadeAt(ct, j)}}

\* the first timer_execute found nothing: timer_shift advances the time, and
\* link_clear takes the list to move towards the near array
TimerShift ==
    LET ct == (time + 1) % Range32 IN
    /\ pc = "execute0"
    /\ near[Now] = <<>>
    /\ time' = ct
    /\ \/ Cascade(ct) = {} /\ UNCHANGED <<level, moving>>
       \/ \E p \in Cascade(ct) :
            /\ moving' = level[p[1]][p[2]]
            /\ level' = [level EXCEPT ![p[1]][p[2]] = <<>>]
    /\ pc' = "move"
    /\ UNCHANGED <<near, firing, diff, answered>>

\* the loop of move_list
MoveNode ==
    /\ pc = "move"
    /\ moving # <<>>
    /\ AddNode(Head(moving))
    /\ moving' = Tail(moving)
    /\ UNCHANGED <<time, pc, firing, diff, answered>>

MoveDone ==
    /\ pc = "move"
    /\ moving = <<>>
    /\ pc' = "execute1"
    /\ UNCHANGED <<time, near, level, moving, firing, diff, answered>>

\* the second timer_execute found nothing (any more): unlock T
ExecuteDone ==
    /\ pc = "execute1"
    /\ near[Now] = <<>>
    /\ pc' = "update"
    /\ UNCHANGED <<time, near, level, moving, firing, diff, answered>>

TimerThread ==
    \/ \E d \in 1..MaxDiff : UpdateTime(d)
    \/ UpdateLoop \/ UpdateDone \/ ExecuteTake \/ Dispatch \/ TimerShift
    \/ MoveNode \/ MoveDone \/ ExecuteDone

Service(s) == TimeoutNow(s) \/ HandleResponse(s) \/ \E d \in Delay : TimeoutLater(s, d)

Next == TimerThread \/ \E s \in Session : Service(s)

Spec == Init /\ [][Next]_timervars

\* thread_timer calls skynet_updatetime every 2.5 ms and the clock advances
FairSpec == Spec /\ WF_timervars(TimerThread)

-----------------------------------------------------------------------------
(* Properties                                                              *)

\* Every variable keeps its type.
TypeOK ==
    /\ time \in 0..Range32 - 1
    /\ \A l \in Lists : l \in Seq(Node)
    /\ pc \in {"sleep", "update", "execute0", "move", "execute1", "dispatch0", "dispatch1"}
    /\ diff \in 0..MaxDiff
    /\ answered \subseteq Session

\* Timeouts fire on time: dispatch_list walks only nodes that expire at
\* T->time, and whenever an update begins or is over, no list at all holds
\* such a node any more.  In particular the first timer_execute of an update
\* finds nothing: the "timeout 0 (rare condition)" it looks for never occurs.
OnTime ==
    /\ \A n \in DOMAIN firing : firing[n].expire = time
    /\ pc \in {"sleep", "update", "execute0"} =>
         /\ near[Now] = <<>>
         /\ \A list \in Lists : \A n \in DOMAIN list : list[n].expire # time

\* the sessions of the nodes that expire d ticks from now, in list order
DueIn(d) ==
    LET e == (time + d) % Range32
        list == IF IsNear(e, time) THEN near[e % TIME_NEAR]
                ELSE LET i == LevelOf(e, time) IN level[i][IndexOf(e, i)]
        sel == SelectSeq(list \o moving, LAMBDA x : x.expire = e)
        all == IF d = 0 THEN firing \o sel ELSE sel
    IN  [i \in 1..Len(all) |-> all[i].session]

Queue == INSTANCE TimerQueue WITH
           Horizon <- Range32 \div 2,
           due <- [d \in 0..Range32 \div 2 - 1 |-> DueIn(d)]

\* The wheel answers every timeout exactly when T->time has advanced by its
\* delay, once, and in the order of setting among equals, across cascades,
\* the wrap of the clock and timeouts set while a list is dispatched.
ImplementsQueue == Queue!QueueSpec

\* Every timeout is answered.
EveryTimeoutFires == \A s \in Session : s \in Waiting ~> s \in answered
=============================================================================
