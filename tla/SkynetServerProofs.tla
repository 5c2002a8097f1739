------------------------- MODULE SkynetServerProofs -------------------------
(***************************************************************************)
(* The safety properties of SkynetServer, proved for any number of worker  *)
(* and other threads, services, weights and operations.                    *)
(*                                                                         *)
(* IndInv is inductive: there is one lemma for each of its conjuncts, with *)
(* one step per action, and it holds initially (InitEstablishes).  The     *)
(* properties follow from it at the end of the module.                     *)
(***************************************************************************)
EXTENDS SkynetServer, FiniteSetTheorems, TLAPS

\* A reference somebody holds is counted, so its context is alive.
LEMMA ReferenceCounts ==
    ASSUME TypeOK, RefCount, LifeInv, NEW c \in Ctx, NEW h \in Holders(c)
    PROVE  ref[c] > 0 /\ life[c] = "live"
<1>1. IsFiniteSet(Holders(c)) /\ ref[c] = Cardinality(Holders(c)) /\ ref[c] \in Nat
  BY DEF TypeOK, RefCount
<1>2. ref[c] > 0
  BY <1>1, FS_EmptySet
<1>. QED
  BY <1>2 DEF LifeInv

\* The slot of a handle and the references in the local variables of the
\* threads point to contexts with a positive count that are alive.
LEMMA Held ==
    ASSUME IndInv
    PROVE  /\ \A c \in slot : c \in Ctx /\ ref[c] > 0 /\ life[c] = "live"
           /\ \A t \in Thread :
                /\ dst[t] # None => dst[t] \in Ctx /\ ref[dst[t]] > 0 /\ life[dst[t]] = "live"
                /\ cur[t] # None => cur[t] \in Ctx /\ ref[cur[t]] > 0 /\ life[cur[t]] = "live"
                /\ born[t] # None => born[t] \in Ctx /\ ref[born[t]] > 0 /\ life[born[t]] = "live"
<1>. USE DEF IndInv
<1>1. \A c \in Ctx : \A h \in Holders(c) : ref[c] > 0 /\ life[c] = "live"
  BY ReferenceCounts
<1>2. \A c \in slot : c \in Ctx /\ <<"slot", None>> \in Holders(c)
  BY DEF Holders, TypeOK
<1>3. \A t \in Thread : \A c \in Ctx : /\ dst[t] = c => <<"dst", t>> \in Holders(c)
                                       /\ cur[t] = c => <<"cur", t>> \in Holders(c)
                                       /\ born[t] = c => <<"born", t>> \in Holders(c)
  BY DEF Holders
<1>4. \A t \in Thread : dst[t] \in Ptr /\ cur[t] \in Ptr /\ born[t] \in Ptr
  BY DEF TypeOK
<1>. QED
  BY <1>1, <1>2, <1>3, <1>4 DEF Ptr

\* At each place in the code the local variables it uses are not NULL.
LEMMA Locals ==
    ASSUME IndInv, NEW t \in Thread
    PROVE  /\ pc[t] \in PC /\ ret[t] \in PC
           /\ pc[t] \in {"spush", "rel"} => dst[t] \in Ctx
           /\ pc[t] = "del" => dead[t] \in Ctx
           /\ pc[t] \in {"grab", "pop0", "weigh", "pop", "cb", "yield", "pushback"}
                => held[t] \in Ctx
           /\ pc[t] = "pushback" => nq[t] \in Ctx
           /\ pc[t] = "init" => born[t] \in Ctx
           /\ pc[t] \in {"setinit", "newpush", "failretire"} => newq[t] \in Ctx
           /\ pc[t] \in {"mqrel", "drop"} => DropQueue(t) \in Ctx
           /\ pc[t] = "weigh" => Weight[t] \in 0..3
           /\ pc[t] = "pop" => left[t] > 0
           /\ pc[t] = "spush" => Source(t) \in Ptr
<1>. USE ServerAssumption DEF IndInv
<1>1. /\ pc[t] \in PC /\ ret[t] \in PC
      /\ {held[t], nq[t], cur[t], dst[t], dead[t], born[t], newq[t]} \subseteq Ptr
  BY DEF TypeOK
<1>2. /\ pc[t] \in {"spush", "rel"} => dst[t] \in Ctx
      /\ pc[t] = "del" => dead[t] \in Ctx
  BY <1>1 DEF ControlInv, Control, Ptr
<1>3. pc[t] \in {"grab", "pop0", "weigh", "pop", "cb", "yield", "pushback"} => held[t] \in Ctx
  BY <1>1 DEF ControlInv, Control, Ptr, At, Dispatching
<1>4. /\ pc[t] = "pushback" => nq[t] \in Ctx
      /\ pc[t] = "init" => born[t] \in Ctx
      /\ pc[t] \in {"setinit", "newpush", "failretire"} => newq[t] \in Ctx
  BY <1>1 DEF ControlInv, Control, Ptr, At, Launching
<1>5. /\ pc[t] \in {"mqrel", "drop"} => DropQueue(t) \in Ctx
      /\ pc[t] = "spush" => Source(t) \in Ptr
  BY <1>1 DEF ControlInv, Control, Ptr, At, Launching, Running, ReturnPoint, DropQueue, Source
<1>6. pc[t] = "weigh" => Weight[t] \in 0..3
  <2>1. pc[t] = "weigh" => t \in Worker /\ Weight[t] >= 0
    BY DEF ControlInv, Control, At, Thread
  <2>. QED BY <2>1
<1>7. pc[t] = "pop" => left[t] > 0
  BY DEF ControlInv, Control
<1>. QED
  BY <1>1, <1>2, <1>3, <1>4, <1>5, <1>6, <1>7

\* Every step keeps the types; a count is only lowered by a holder.
LEMMA TypeStep == IndInv /\ [Next]_vars => TypeOK'
<1>. SUFFICES ASSUME IndInv, [Next]_vars PROVE TypeOK'
  OBVIOUS
<1>0. TypeOK
  BY DEF IndInv
<1>. USE <1>0 DEF TypeOK, ctxVars, queueVars, dispatchVars, launchVars, Goto, PC, Running, Ptr
<1>1. ASSUME NEW t \in Thread, ContextRelease(t) PROVE TypeOK'
  <2>1. dst[t] \in Ctx /\ ref[dst[t]] \in Nat /\ ref[dst[t]] > 0 /\ ret[t] \in PC
    BY <1>1, Locals, Held, ServerAssumption DEF ContextRelease
  <2>2. ref' \in [Ctx -> Nat] /\ dst' \in [Thread -> Ptr]
    BY <1>1, <2>1 DEF ContextRelease
  <2>3. CASE ref[dst[t]] = 1
    <3>1. pc' = [pc EXCEPT ![t] = "del"] /\ dead' = [dead EXCEPT ![t] = dst[t]]
      BY <1>1, <2>3 DEF ContextRelease
    <3>. QED BY <1>1, <2>1, <2>2, <3>1 DEF ContextRelease
  <2>4. CASE ref[dst[t]] # 1
    <3>1. pc' = [pc EXCEPT ![t] = ret[t]] /\ UNCHANGED dead
      BY <1>1, <2>4 DEF ContextRelease
    <3>. QED BY <1>1, <2>1, <2>2, <3>1 DEF ContextRelease
  <2>. QED BY <2>3, <2>4
<1>2. ASSUME NEW t \in Thread, DeleteContext(t) PROVE TypeOK'
  BY <1>2, Locals, Held DEF DeleteContext
<1>3. ASSUME NEW t \in Thread, MqPush(t) PROVE TypeOK'
  <2>1. dst[t] \in Ctx /\ [src |-> Source(t), err |-> ret[t] = "drop"] \in Msg
    BY <1>3, Locals DEF MqPush, Msg
  <2>2. Append(mq[dst[t]], [src |-> Source(t), err |-> ret[t] = "drop"]) \in Seq(Msg)
    BY <2>1
  <2>3. mq' \in [Ctx -> Seq(Msg)]
    BY <1>3, <2>1, <2>2 DEF MqPush
  <2>. QED BY <1>3, <2>1, <2>3 DEF MqPush
<1>4. ASSUME NEW t \in Thread, InitOk(t) PROVE TypeOK'
  BY <1>4, Locals, Held DEF InitOk, CallRelease
<1>5. ASSUME NEW t \in Thread, SetInit(t) PROVE TypeOK'
  BY <1>5, Locals, Held DEF SetInit
<1>6. ASSUME NEW t \in Thread, NewPush(t) PROVE TypeOK'
  BY <1>6, Locals, Held DEF NewPush
<1>7. ASSUME NEW t \in Thread, InitFail(t) PROVE TypeOK'
  BY <1>7, Locals, Held DEF InitFail, CallRelease
<1>8. ASSUME NEW t \in Thread, FailRetire(t) PROVE TypeOK'
  <2>1. newq[t] \in Ctx
    BY <1>8, Locals DEF FailRetire
  <2>2. CASE newq[t] \in slot
    <3>1. /\ slot' = slot \ {newq[t]} /\ dst' = [dst EXCEPT ![t] = newq[t]]
          /\ ret' = [ret EXCEPT ![t] = "mqrel"] /\ pc' = [pc EXCEPT ![t] = "rel"]
      BY <1>8, <2>2 DEF FailRetire, CallRelease
    <3>. QED BY <1>8, <2>1, <3>1 DEF FailRetire
  <2>3. CASE newq[t] \notin slot
    <3>1. UNCHANGED <<slot, dst, ret>> /\ pc' = [pc EXCEPT ![t] = "mqrel"]
      BY <1>8, <2>3 DEF FailRetire
    <3>. QED BY <1>8, <3>1 DEF FailRetire
  <2>. QED BY <2>2, <2>3
<1>9. ASSUME NEW t \in Thread, GlobalPop(t) PROVE TypeOK'
  BY <1>9, Locals, Held DEF GlobalPop
<1>10. ASSUME NEW t \in Thread, KeepQueue(t) PROVE TypeOK'
  BY <1>10, Locals, Held DEF KeepQueue
<1>11. ASSUME NEW t \in Thread, DispatchGrab(t) PROVE TypeOK'
  <2>1. held[t] \in Ctx
    BY <1>11, Locals DEF DispatchGrab
  <2>2. CASE held[t] \in slot
    <3>1. ref' = [ref EXCEPT ![held[t]] = ref[held[t]] + 1]
      BY <1>11, <2>2 DEF DispatchGrab
    <3>2. ref' \in [Ctx -> Nat]
      BY <2>1, <3>1
    <3>. QED BY <1>11, <2>1, <2>2, <3>2 DEF DispatchGrab
  <2>3. CASE held[t] \notin slot
    BY <1>11, <2>1, <2>3 DEF DispatchGrab
  <2>. QED BY <2>2, <2>3
<1>12. ASSUME NEW t \in Thread, PopEmpty(t) PROVE TypeOK'
  BY <1>12, Locals, Held DEF PopEmpty, CallRelease
<1>13. ASSUME NEW t \in Thread, PopMessage(t) PROVE TypeOK'
  BY <1>13, Locals, Held DEF PopMessage
<1>14. ASSUME NEW t \in Thread, Weigh(t) PROVE TypeOK'
  <2>1. held[t] \in Ctx /\ Weight[t] \in 0..3
    BY <1>14, Locals DEF Weigh
  <2>2. Len(mq[held[t]]) \in Nat
    BY <2>1
  <2>3. BatchSize(Len(mq[held[t]]), Weight[t]) \in Nat
    BY <2>1, <2>2 DEF BatchSize
  <2>. QED BY <1>14, <2>3 DEF Weigh
<1>15. ASSUME NEW t \in Thread, CallbackDone(t) PROVE TypeOK'
  BY <1>15, Locals, Held DEF CallbackDone
<1>16. ASSUME NEW t \in Thread, YieldKeep(t) PROVE TypeOK'
  BY <1>16, Locals, Held DEF YieldKeep, CallRelease
<1>17. ASSUME NEW t \in Thread, YieldTake(t) PROVE TypeOK'
  BY <1>17, Locals, Held DEF YieldTake
<1>18. ASSUME NEW t \in Thread, PushBack(t) PROVE TypeOK'
  BY <1>18, Locals, Held DEF PushBack, CallRelease
<1>19. ASSUME NEW t \in Thread, MqReleaseLater(t) PROVE TypeOK'
  <2>1. DropQueue(t) \in Ctx
    BY <1>19, Locals DEF MqReleaseLater
  <2>2. held' \in [Thread -> Ptr] /\ newq' \in [Thread -> Ptr] /\ pc' \in [Thread -> PC]
    <3>1. CASE newq[t] # None
      <4>1. UNCHANGED held /\ newq' = [newq EXCEPT ![t] = None] /\ pc' = [pc EXCEPT ![t] = "cb"]
        BY <1>19, <3>1 DEF MqReleaseLater, GiveUpQueue
      <4>. QED BY <4>1
    <3>2. CASE newq[t] = None
      <4>1. UNCHANGED newq /\ held' = [held EXCEPT ![t] = None] /\ pc' = [pc EXCEPT ![t] = "loop"]
        BY <1>19, <3>2 DEF MqReleaseLater, GiveUpQueue
      <4>. QED BY <4>1
    <3>. QED BY <3>1, <3>2
  <2>. QED BY <1>19, <2>1, <2>2 DEF MqReleaseLater
<1>20. ASSUME NEW t \in Thread, MqReleaseNow(t) PROVE TypeOK'
  BY <1>20, Locals, Held DEF MqReleaseNow
<1>21. ASSUME NEW t \in Thread, DropMessage(t) PROVE TypeOK'
  <2>1. DropQueue(t) \in Ctx
    BY <1>21, Locals DEF DropMessage
  <2>2. Tail(mq[DropQueue(t)]) \in Seq(Msg)
    BY <1>21, <2>1 DEF DropMessage
  <2>3. mq' \in [Ctx -> Seq(Msg)]
    BY <1>21, <2>1, <2>2 DEF DropMessage
  <2>4. CASE Head(mq[DropQueue(t)]).src \in slot
    <3>. DEFINE s == Head(mq[DropQueue(t)]).src
    <3>1. ref' = [ref EXCEPT ![s] = ref[s] + 1] /\ dst' = [dst EXCEPT ![t] = s]
      BY <1>21, <2>4 DEF DropMessage, GrabInto
    <3>2. s \in Ctx
      BY <2>4
    <3>. HIDE DEF s
    <3>3. ref' \in [Ctx -> Nat]
      BY <3>1, <3>2
    <3>4. dst' \in [Thread -> Ptr]
      BY <3>1, <3>2
    <3>5. /\ ret' = [ret EXCEPT ![t] = "drop"] /\ pc' = [pc EXCEPT ![t] = "spush"]
          /\ UNCHANGED <<slot, life, inited, inGlobal, release, mqlife, Q, dispatchVars, dead,
                         launchVars, ops>>
      BY <1>21, <2>4 DEF DropMessage
    <3>. QED BY <2>3, <3>3, <3>4, <3>5
  <2>5. CASE Head(mq[DropQueue(t)]).src \notin slot
    BY <1>21, <2>1, <2>3, <2>5 DEF DropMessage
  <2>. QED BY <2>4, <2>5
<1>22. ASSUME NEW t \in Thread, DropDone(t) PROVE TypeOK'
  <2>1. DropQueue(t) \in Ctx
    BY <1>22, Locals DEF DropDone
  <2>2. held' \in [Thread -> Ptr] /\ newq' \in [Thread -> Ptr] /\ pc' \in [Thread -> PC]
    <3>1. CASE newq[t] # None
      <4>1. UNCHANGED held /\ newq' = [newq EXCEPT ![t] = None] /\ pc' = [pc EXCEPT ![t] = "cb"]
        BY <1>22, <3>1 DEF DropDone, GiveUpQueue
      <4>. QED BY <4>1
    <3>2. CASE newq[t] = None
      <4>1. UNCHANGED newq /\ held' = [held EXCEPT ![t] = None] /\ pc' = [pc EXCEPT ![t] = "loop"]
        BY <1>22, <3>2 DEF DropDone, GiveUpQueue
      <4>. QED BY <4>1
    <3>. QED BY <3>1, <3>2
  <2>. QED BY <1>22, <2>1, <2>2 DEF DropDone
<1>23. ASSUME NEW t \in Thread, NEW c \in Ctx, Send(t, c) PROVE TypeOK'
  <2>1. ops' \in 0..MaxOps
    BY <1>23, ServerAssumption DEF Send, UserOp
  <2>. QED BY <1>23, <2>1 DEF Send, UserOp, GrabInto
<1>24. ASSUME NEW t \in Thread, NEW c \in Ctx, Touch(t, c) PROVE TypeOK'
  <2>1. ops' \in 0..MaxOps
    BY <1>24, ServerAssumption DEF Touch, UserOp
  <2>. QED BY <1>24, <2>1 DEF Touch, UserOp, GrabInto
<1>25. ASSUME NEW t \in Thread, NEW c \in Ctx, Kill(t, c) PROVE TypeOK'
  <2>1. ops' \in 0..MaxOps
    BY <1>25, ServerAssumption DEF Kill, UserOp
  <2>. QED BY <1>25, <2>1 DEF Kill, UserOp, CallRelease
<1>26. ASSUME NEW t \in Thread, NEW c \in Ctx, Launch(t, c) PROVE TypeOK'
  <2>1. ops' \in 0..MaxOps
    BY <1>26, ServerAssumption DEF Launch, UserOp
  <2>. QED BY <1>26, <2>1 DEF Launch, UserOp
<1>27. CASE UNCHANGED vars
  BY <1>27 DEF vars
<1>. QED
  BY <1>1, <1>2, <1>3, <1>4, <1>5, <1>6, <1>7, <1>8, <1>9, <1>10, <1>11, <1>12, <1>13, <1>14,
     <1>15, <1>16, <1>17, <1>18, <1>19, <1>20, <1>21, <1>22, <1>23, <1>24, <1>25, <1>26, <1>27
     DEF Next, Progress, UserCode

\* The place and the local variables of thread u are not touched.
SameLocals(u) ==
    /\ pc'[u] = pc[u] /\ ret'[u] = ret[u] /\ held'[u] = held[u] /\ nq'[u] = nq[u]
    /\ cur'[u] = cur[u] /\ left'[u] = left[u] /\ dst'[u] = dst[u] /\ dead'[u] = dead[u]
    /\ born'[u] = born[u] /\ newq'[u] = newq[u]

\* A thread that does not move keeps its place consistent.
LEMMA ControlFrame ==
    ASSUME NEW u \in Thread, Control(u), SameLocals(u)
    PROVE  Control(u)'
  BY DEF Control, At, SameLocals

\* Every step keeps the relation between a thread's place in the code and its
\* local variables.
LEMMA ControlStep == IndInv /\ [Next]_vars => ControlInv'
<1>. SUFFICES ASSUME IndInv, [Next]_vars, NEW u \in Thread PROVE Control(u)'
  BY DEF ControlInv
<1>0. TypeOK /\ ControlInv
  BY DEF IndInv
<1>. USE ServerAssumption, <1>0
     DEF TypeOK, ControlInv, Control, At, ReturnPoint, Launching, Dispatching, Ptr, Running,
         ctxVars, queueVars, dispatchVars, launchVars, Goto
<1>1. ASSUME NEW t \in Thread, ContextRelease(t) PROVE Control(u)'
  <2>1. CASE u # t
    <3>. HIDE DEF Control
    <3>1. SameLocals(u)
      BY <1>1, <2>1 DEF ContextRelease, SameLocals
    <3>. QED BY <3>1, ControlFrame
  <2>2. CASE u = t
    <3>1. CASE ref[dst[t]] = 1
      BY <1>1, <2>2, <3>1 DEF ContextRelease
    <3>2. CASE ref[dst[t]] # 1
      BY SMTT(40), <1>1, <2>2, <3>2 DEF ContextRelease
    <3>. QED BY <3>1, <3>2
  <2>. QED BY <2>1, <2>2
<1>2. ASSUME NEW t \in Thread, DeleteContext(t) PROVE Control(u)'
  <2>1. CASE u # t
    <3>. HIDE DEF Control
    <3>1. SameLocals(u)
      BY <1>2, <2>1 DEF DeleteContext, SameLocals
    <3>. QED BY <3>1, ControlFrame
  <2>2. CASE u = t
    BY SMTT(40), <1>2, <2>2 DEF DeleteContext
  <2>. QED BY <2>1, <2>2
<1>3. ASSUME NEW t \in Thread, MqPush(t) PROVE Control(u)'
  <2>1. CASE u # t
    <3>. HIDE DEF Control
    <3>1. SameLocals(u)
      BY <1>3, <2>1 DEF MqPush, SameLocals
    <3>. QED BY <3>1, ControlFrame
  <2>2. CASE u = t
    BY <1>3, <2>2 DEF MqPush
  <2>. QED BY <2>1, <2>2
<1>4. ASSUME NEW t \in Thread, InitOk(t) PROVE Control(u)'
  <2>1. CASE u # t
    <3>. HIDE DEF Control
    <3>1. SameLocals(u)
      BY <1>4, <2>1 DEF InitOk, CallRelease, SameLocals
    <3>. QED BY <3>1, ControlFrame
  <2>2. CASE u = t
    BY <1>4, <2>2 DEF InitOk, CallRelease
  <2>. QED BY <2>1, <2>2
<1>5. ASSUME NEW t \in Thread, SetInit(t) PROVE Control(u)'
  BY <1>5 DEF SetInit
<1>6. ASSUME NEW t \in Thread, NewPush(t) PROVE Control(u)'
  <2>1. CASE u # t
    <3>. HIDE DEF Control
    <3>1. SameLocals(u)
      BY <1>6, <2>1 DEF NewPush, SameLocals
    <3>. QED BY <3>1, ControlFrame
  <2>2. CASE u = t
    BY <1>6, <2>2 DEF NewPush
  <2>. QED BY <2>1, <2>2
<1>7. ASSUME NEW t \in Thread, InitFail(t) PROVE Control(u)'
  <2>1. CASE u # t
    <3>. HIDE DEF Control
    <3>1. SameLocals(u)
      BY <1>7, <2>1 DEF InitFail, CallRelease, SameLocals
    <3>. QED BY <3>1, ControlFrame
  <2>2. CASE u = t
    BY <1>7, <2>2 DEF InitFail, CallRelease
  <2>. QED BY <2>1, <2>2
<1>8. ASSUME NEW t \in Thread, FailRetire(t) PROVE Control(u)'
  <2>1. UNCHANGED <<held, nq, cur, left, dead, born, newq>> /\ pc[t] = "failretire"
    BY <1>8 DEF FailRetire
  <2>2. CASE newq[t] \in slot
    <3>1. /\ dst' = [dst EXCEPT ![t] = newq[t]] /\ ret' = [ret EXCEPT ![t] = "mqrel"]
          /\ pc' = [pc EXCEPT ![t] = "rel"]
      BY <1>8, <2>2 DEF FailRetire, CallRelease
    <3>2. CASE u = t
      BY <2>1, <2>2, <3>1, <3>2
    <3>3. CASE u # t
      BY <2>1, <3>1, <3>3
    <3>. QED BY <3>2, <3>3
  <2>3. CASE newq[t] \notin slot
    <3>1. pc' = [pc EXCEPT ![t] = "mqrel"] /\ UNCHANGED <<dst, ret>>
      BY <1>8, <2>3 DEF FailRetire
    <3>. QED BY <2>1, <3>1
  <2>. QED BY <2>2, <2>3
<1>9. ASSUME NEW t \in Thread, GlobalPop(t) PROVE Control(u)'
  <2>1. CASE u # t
    <3>. HIDE DEF Control
    <3>1. SameLocals(u)
      BY <1>9, <2>1 DEF GlobalPop, SameLocals
    <3>. QED BY <3>1, ControlFrame
  <2>2. CASE u = t
    BY SMTT(40), <1>9, <2>2 DEF GlobalPop
  <2>. QED BY <2>1, <2>2
<1>10. ASSUME NEW t \in Thread, KeepQueue(t) PROVE Control(u)'
  BY SMTT(40), <1>10 DEF KeepQueue
<1>11. ASSUME NEW t \in Thread, DispatchGrab(t) PROVE Control(u)'
  <2>1. UNCHANGED <<ret, held, nq, left, dst, dead, born, newq>> /\ pc[t] = "grab"
    BY <1>11 DEF DispatchGrab
  <2>2. CASE held[t] \in slot
    <3>1. cur' = [cur EXCEPT ![t] = held[t]] /\ pc' = [pc EXCEPT ![t] = "pop0"]
      BY <1>11, <2>2 DEF DispatchGrab
    <3>2. CASE u = t
      <4>1. /\ pc'[t] = "pop0" /\ cur'[t] = held[t] /\ ret'[t] = ret[t] /\ held'[t] = held[t]
            /\ nq'[t] = nq[t] /\ left'[t] = left[t] /\ dst'[t] = dst[t] /\ dead'[t] = dead[t]
            /\ born'[t] = born[t] /\ newq'[t] = newq[t]
        BY <2>1, <3>1
      <4>2. Control(t) /\ held[t] # None
        BY <2>2
      <4>. HIDE DEF TypeOK, ControlInv
      <4>. QED BY <2>1, <3>2, <4>1, <4>2
    <3>3. CASE u # t
      BY <2>1, <3>1, <3>3
    <3>. QED BY <3>2, <3>3
  <2>3. CASE held[t] \notin slot
    <3>1. pc' = [pc EXCEPT ![t] = "mqrel"] /\ UNCHANGED cur
      BY <1>11, <2>3 DEF DispatchGrab
    <3>. QED BY <2>1, <3>1
  <2>. QED BY <2>2, <2>3
<1>12. ASSUME NEW t \in Thread, PopEmpty(t) PROVE Control(u)'
  <2>1. CASE u # t
    <3>. HIDE DEF Control
    <3>1. SameLocals(u)
      BY <1>12, <2>1 DEF PopEmpty, CallRelease, SameLocals
    <3>. QED BY <3>1, ControlFrame
  <2>2. CASE u = t
    <3>1. /\ pc[t] \in {"pop0", "pop"} /\ pc'[t] = "rel" /\ ret'[t] = "loop" /\ dst'[t] = cur[t]
          /\ held'[t] = None /\ cur'[t] = None /\ nq'[t] = nq[t] /\ left'[t] = left[t]
          /\ dead'[t] = dead[t] /\ born'[t] = born[t] /\ newq'[t] = newq[t]
      BY <1>12 DEF PopEmpty, CallRelease
    <3>2. Control(t)
      OBVIOUS
    <3>. HIDE DEF TypeOK, ControlInv
    <3>. QED BY <2>2, <3>1, <3>2
  <2>. QED BY <2>1, <2>2
<1>13. ASSUME NEW t \in Thread, PopMessage(t) PROVE Control(u)'
  <2>1. CASE u # t
    <3>. HIDE DEF Control
    <3>1. SameLocals(u)
      BY <1>13, <2>1 DEF PopMessage, SameLocals
    <3>. QED BY <3>1, ControlFrame
  <2>2. CASE u = t
    BY <1>13, <2>2 DEF PopMessage
  <2>. QED BY <2>1, <2>2
<1>14. ASSUME NEW t \in Thread, Weigh(t) PROVE Control(u)'
  BY SMTT(40), <1>14 DEF Weigh
<1>15. ASSUME NEW t \in Thread, CallbackDone(t) PROVE Control(u)'
  BY SMTT(40), <1>15 DEF CallbackDone
<1>16. ASSUME NEW t \in Thread, YieldKeep(t) PROVE Control(u)'
  <2>1. CASE u # t
    <3>. HIDE DEF Control
    <3>1. SameLocals(u)
      BY <1>16, <2>1 DEF YieldKeep, CallRelease, SameLocals
    <3>. QED BY <3>1, ControlFrame
  <2>2. CASE u = t
    <3>1. /\ pc[t] = "yield" /\ pc'[t] = "rel" /\ ret'[t] = "loop" /\ dst'[t] = cur[t]
          /\ held'[t] = held[t] /\ cur'[t] = None /\ nq'[t] = nq[t] /\ left'[t] = left[t]
          /\ dead'[t] = dead[t] /\ born'[t] = born[t] /\ newq'[t] = newq[t]
      BY <1>16 DEF YieldKeep, CallRelease
    <3>2. Control(t)
      OBVIOUS
    <3>. HIDE DEF TypeOK, ControlInv
    <3>. QED BY <2>2, <3>1, <3>2
  <2>. QED BY <2>1, <2>2
<1>17. ASSUME NEW t \in Thread, YieldTake(t) PROVE Control(u)'
  <2>0. Head(Q) \in Ctx
    BY <1>17 DEF YieldTake
  <2>1. CASE u # t
    <3>. HIDE DEF Control
    <3>1. SameLocals(u)
      BY <1>17, <2>1 DEF YieldTake, SameLocals
    <3>. QED BY <3>1, ControlFrame
  <2>2. CASE u = t
    BY <1>17, <2>2, <2>0 DEF YieldTake
  <2>. QED BY <2>1, <2>2
<1>18. ASSUME NEW t \in Thread, PushBack(t) PROVE Control(u)'
  <2>1. CASE u # t
    <3>. HIDE DEF Control
    <3>1. SameLocals(u)
      BY <1>18, <2>1 DEF PushBack, CallRelease, SameLocals
    <3>. QED BY <3>1, ControlFrame
  <2>2. CASE u = t
    <3>1. /\ pc[t] = "pushback" /\ pc'[t] = "rel" /\ ret'[t] = "loop" /\ dst'[t] = cur[t]
          /\ held'[t] = nq[t] /\ cur'[t] = None /\ nq'[t] = None /\ left'[t] = left[t]
          /\ dead'[t] = dead[t] /\ born'[t] = born[t] /\ newq'[t] = newq[t]
      BY <1>18 DEF PushBack, CallRelease
    <3>2. Control(t)
      OBVIOUS
    <3>. HIDE DEF TypeOK, ControlInv
    <3>. QED BY <2>2, <3>1, <3>2
  <2>. QED BY <2>1, <2>2
<1>19. ASSUME NEW t \in Thread, MqReleaseLater(t) PROVE Control(u)'
  <2>1. UNCHANGED <<ret, nq, cur, left, dst, dead, born>> /\ GiveUpQueue(t)
             /\ pc[t] \in {"mqrel", "drop"}
    BY <1>19 DEF MqReleaseLater
  <2>2. CASE newq[t] # None
    <3>1. UNCHANGED held /\ newq' = [newq EXCEPT ![t] = None] /\ pc' = [pc EXCEPT ![t] = "cb"]
      BY <2>1, <2>2 DEF GiveUpQueue
    <3>2. CASE u = t
      BY <2>1, <2>2, <3>1, <3>2
    <3>3. CASE u # t
      BY <2>1, <3>1, <3>3
    <3>. QED BY <3>2, <3>3
  <2>3. CASE newq[t] = None
    <3>1. UNCHANGED newq /\ held' = [held EXCEPT ![t] = None] /\ pc' = [pc EXCEPT ![t] = "loop"]
      BY <2>1, <2>3 DEF GiveUpQueue
    <3>2. CASE u = t
      <4>1. /\ pc'[t] = "loop" /\ held'[t] = None /\ newq'[t] = None /\ ret'[t] = ret[t]
            /\ nq'[t] = nq[t] /\ cur'[t] = cur[t] /\ left'[t] = left[t] /\ dst'[t] = dst[t]
            /\ dead'[t] = dead[t] /\ born'[t] = born[t]
        BY <2>1, <2>3, <3>1
      <4>2. Control(t)
        OBVIOUS
      <4>. HIDE DEF TypeOK, ControlInv
      <4>. QED BY <2>1, <2>3, <3>2, <4>1, <4>2
    <3>3. CASE u # t
      BY <2>1, <3>1, <3>3
    <3>. QED BY <3>2, <3>3
  <2>. QED BY <2>2, <2>3
<1>20. ASSUME NEW t \in Thread, MqReleaseNow(t) PROVE Control(u)'
  BY <1>20 DEF MqReleaseNow
<1>21. ASSUME NEW t \in Thread, DropMessage(t) PROVE Control(u)'
  <2>. DEFINE s == Head(mq[DropQueue(t)]).src
  <2>1. UNCHANGED <<dispatchVars, dead, launchVars>> /\ pc[t] = "drop"
    BY <1>21 DEF DropMessage
  <2>2. CASE s \in slot
    <3>1. s \in Ctx /\ dst' = [dst EXCEPT ![t] = s]
      BY <1>21, <2>2 DEF DropMessage, GrabInto
    <3>2. ret' = [ret EXCEPT ![t] = "drop"] /\ pc' = [pc EXCEPT ![t] = "spush"]
      BY <1>21, <2>2 DEF DropMessage
    <3>. HIDE DEF s
    <3>. QED BY SMTT(40), <2>1, <3>1, <3>2
  <2>3. CASE s \notin slot
    <3>1. UNCHANGED <<dst, ret, pc>>
      BY <1>21, <2>3 DEF DropMessage
    <3>. QED BY <2>1, <3>1
  <2>. QED BY <2>2, <2>3
<1>22. ASSUME NEW t \in Thread, DropDone(t) PROVE Control(u)'
  <2>1. UNCHANGED <<ret, nq, cur, left, dst, dead, born>> /\ GiveUpQueue(t)
             /\ pc[t] \in {"mqrel", "drop"}
    BY <1>22 DEF DropDone
  <2>2. CASE newq[t] # None
    <3>1. UNCHANGED held /\ newq' = [newq EXCEPT ![t] = None] /\ pc' = [pc EXCEPT ![t] = "cb"]
      BY <2>1, <2>2 DEF GiveUpQueue
    <3>2. CASE u = t
      BY <2>1, <2>2, <3>1, <3>2
    <3>3. CASE u # t
      BY <2>1, <3>1, <3>3
    <3>. QED BY <3>2, <3>3
  <2>3. CASE newq[t] = None
    <3>1. UNCHANGED newq /\ held' = [held EXCEPT ![t] = None] /\ pc' = [pc EXCEPT ![t] = "loop"]
      BY <2>1, <2>3 DEF GiveUpQueue
    <3>2. CASE u = t
      <4>1. /\ pc'[t] = "loop" /\ held'[t] = None /\ newq'[t] = None /\ ret'[t] = ret[t]
            /\ nq'[t] = nq[t] /\ cur'[t] = cur[t] /\ left'[t] = left[t] /\ dst'[t] = dst[t]
            /\ dead'[t] = dead[t] /\ born'[t] = born[t]
        BY <2>1, <2>3, <3>1
      <4>2. Control(t)
        OBVIOUS
      <4>. HIDE DEF TypeOK, ControlInv
      <4>. QED BY <2>1, <2>3, <3>2, <4>1, <4>2
    <3>3. CASE u # t
      BY <2>1, <3>1, <3>3
    <3>. QED BY <3>2, <3>3
  <2>. QED BY <2>2, <2>3
<1>23. ASSUME NEW t \in Thread, NEW c \in Ctx, Send(t, c) PROVE Control(u)'
  <2>1. CASE u # t
    <3>. HIDE DEF Control
    <3>1. SameLocals(u)
      BY <1>23, <2>1 DEF Send, UserOp, GrabInto, SameLocals
    <3>. QED BY <3>1, ControlFrame
  <2>2. CASE u = t
    BY <1>23, <2>2 DEF Send, UserOp, GrabInto
  <2>. QED BY <2>1, <2>2
<1>24. ASSUME NEW t \in Thread, NEW c \in Ctx, Touch(t, c) PROVE Control(u)'
  <2>1. CASE u # t
    <3>. HIDE DEF Control
    <3>1. SameLocals(u)
      BY <1>24, <2>1 DEF Touch, UserOp, GrabInto, SameLocals
    <3>. QED BY <3>1, ControlFrame
  <2>2. CASE u = t
    BY <1>24, <2>2 DEF Touch, UserOp, GrabInto
  <2>. QED BY <2>1, <2>2
<1>25. ASSUME NEW t \in Thread, NEW c \in Ctx, Kill(t, c) PROVE Control(u)'
  <2>1. CASE u # t
    <3>. HIDE DEF Control
    <3>1. SameLocals(u)
      BY <1>25, <2>1 DEF Kill, UserOp, CallRelease, SameLocals
    <3>. QED BY <3>1, ControlFrame
  <2>2. CASE u = t
    BY <1>25, <2>2 DEF Kill, UserOp, CallRelease
  <2>. QED BY <2>1, <2>2
<1>26. ASSUME NEW t \in Thread, NEW c \in Ctx, Launch(t, c) PROVE Control(u)'
  <2>1. CASE u # t
    <3>. HIDE DEF Control
    <3>1. SameLocals(u)
      BY <1>26, <2>1 DEF Launch, UserOp, SameLocals
    <3>. QED BY <3>1, ControlFrame
  <2>2. CASE u = t
    BY <1>26, <2>2 DEF Launch, UserOp
  <2>. QED BY <2>1, <2>2
<1>27. CASE UNCHANGED vars
  BY <1>27 DEF vars
<1>. HIDE DEF TypeOK, ControlInv, Control, At, ReturnPoint, Launching, Dispatching, Ptr,
              Running, ctxVars, queueVars, dispatchVars, launchVars, Goto
<1>. QED
  BY <1>1, <1>2, <1>3, <1>4, <1>5, <1>6, <1>7, <1>8, <1>9, <1>10, <1>11, <1>12, <1>13, <1>14,
     <1>15, <1>16, <1>17, <1>18, <1>19, <1>20, <1>21, <1>22, <1>23, <1>24, <1>25, <1>26, <1>27
     DEF Next, Progress, UserCode

\* Exchanging one element of a finite set for a new one keeps its size.
LEMMA MovedHolder ==
    ASSUME NEW S, NEW x \in S, NEW y, y \notin S, IsFiniteSet(S)
    PROVE  /\ IsFiniteSet((S \ {x}) \cup {y})
           /\ Cardinality((S \ {x}) \cup {y}) = Cardinality(S)
<1>1. IsFiniteSet(S \ {x}) /\ Cardinality(S \ {x}) = Cardinality(S) - 1
  BY FS_RemoveElement
<1>2. Cardinality(S) \in Nat
  BY FS_CardinalityType
<1>3. /\ IsFiniteSet((S \ {x}) \cup {y})
      /\ Cardinality((S \ {x}) \cup {y}) = Cardinality(S \ {x}) + 1
  BY <1>1, FS_AddElement
<1>. QED
  BY <1>1, <1>2, <1>3

\* A step that touches no reference keeps the counts right.
LEMMA RefsUntouched ==
    ASSUME RefCount, UNCHANGED <<ref, slot, cur, dst, born>>
    PROVE  RefCount'
<1>1. \A c \in Ctx : Holders(c)' = Holders(c)
  BY DEF Holders
<1>. QED
  BY <1>1 DEF RefCount

\* skynet_handle_grab for a send: one more reference, one more holder.
LEMMA RefGrabbedDst ==
    ASSUME TypeOK, RefCount, NEW t \in Thread, NEW c \in Ctx, dst[t] = None,
           dst' = [dst EXCEPT ![t] = c], ref' = [ref EXCEPT ![c] = ref[c] + 1],
           UNCHANGED <<slot, cur, born>>
    PROVE  RefCount'
<1>. USE ServerAssumption
<1>. DEFINE new == <<"dst", t>>
<1>1. Holders(c)' = Holders(c) \cup {new}
  BY DEF Holders, TypeOK, Ptr
<1>2. new \notin Holders(c)
  BY DEF Holders, TypeOK, Ptr
<1>3. \A d \in Ctx \ {c} : Holders(d)' = Holders(d)
  BY DEF Holders, TypeOK, Ptr
<1>4. IsFiniteSet(Holders(c)') /\ Cardinality(Holders(c)') = Cardinality(Holders(c)) + 1
  <2>. HIDE DEF new
  <2>1. IsFiniteSet(Holders(c))
    BY DEF RefCount
  <2>. QED BY <1>1, <1>2, <2>1, FS_AddElement
<1>5. \A d \in Ctx : ref'[d] = IF d = c THEN ref[c] + 1 ELSE ref[d]
  BY DEF TypeOK
<1>. QED
  BY <1>3, <1>4, <1>5 DEF RefCount

\* skynet_handle_grab for a dispatch: one more reference, one more holder.
LEMMA RefGrabbedCur ==
    ASSUME TypeOK, RefCount, NEW t \in Thread, NEW c \in Ctx, cur[t] = None,
           cur' = [cur EXCEPT ![t] = c], ref' = [ref EXCEPT ![c] = ref[c] + 1],
           UNCHANGED <<slot, dst, born>>
    PROVE  RefCount'
<1>. USE ServerAssumption
<1>. DEFINE new == <<"cur", t>>
<1>1. Holders(c)' = Holders(c) \cup {new}
  BY DEF Holders, TypeOK, Ptr
<1>2. new \notin Holders(c)
  BY DEF Holders, TypeOK, Ptr
<1>3. \A d \in Ctx \ {c} : Holders(d)' = Holders(d)
  BY DEF Holders, TypeOK, Ptr
<1>4. IsFiniteSet(Holders(c)') /\ Cardinality(Holders(c)') = Cardinality(Holders(c)) + 1
  <2>. HIDE DEF new
  <2>1. IsFiniteSet(Holders(c))
    BY DEF RefCount
  <2>. QED BY <1>1, <1>2, <2>1, FS_AddElement
<1>5. \A d \in Ctx : ref'[d] = IF d = c THEN ref[c] + 1 ELSE ref[d]
  BY DEF TypeOK
<1>. QED
  BY <1>3, <1>4, <1>5 DEF RefCount

\* skynet_context_release: one reference less, one holder less.
LEMMA RefReleased ==
    ASSUME TypeOK, RefCount, NEW t \in Thread, NEW c \in Ctx, dst[t] = c,
           ref' = [ref EXCEPT ![c] = ref[c] - 1],
           dst' = [dst EXCEPT ![t] = None], UNCHANGED <<slot, cur, born>>
    PROVE  RefCount'
<1>. USE ServerAssumption
<1>. DEFINE old == <<"dst", t>>
<1>1. Holders(c)' = Holders(c) \ {old} /\ old \in Holders(c)
  BY DEF Holders, TypeOK, Ptr
<1>2. \A d \in Ctx \ {c} : Holders(d)' = Holders(d)
  BY DEF Holders, TypeOK, Ptr
<1>3. IsFiniteSet(Holders(c)') /\ Cardinality(Holders(c)') = Cardinality(Holders(c)) - 1
  <2>. HIDE DEF old
  <2>1. IsFiniteSet(Holders(c))
    BY DEF RefCount
  <2>2. /\ IsFiniteSet(Holders(c) \ {old})
        /\ Cardinality(Holders(c) \ {old}) = Cardinality(Holders(c)) - 1
    BY <1>1, <2>1, FS_RemoveElement
  <2>. QED BY <1>1, <2>2
<1>4. \A d \in Ctx : ref'[d] = IF d = c THEN ref[c] - 1 ELSE ref[d]
  BY DEF TypeOK
<1>. QED
  BY <1>2, <1>3, <1>4 DEF RefCount

\* skynet_context_new: the count of 2 stands for the slot and the creator.
LEMMA RefCreated ==
    ASSUME TypeOK, RefCount, NEW t \in Thread, NEW c \in Ctx, ref[c] = 0, born[t] = None,
           ref' = [ref EXCEPT ![c] = 2], slot' = slot \cup {c},
           born' = [born EXCEPT ![t] = c], UNCHANGED <<cur, dst>>
    PROVE  RefCount'
<1>. USE ServerAssumption
<1>1. Holders(c) = {}
  BY FS_EmptySet DEF RefCount
<1>2. Holders(c)' = {<<"slot", None>>, <<"born", t>>}
  BY <1>1 DEF Holders, TypeOK, Ptr
<1>3. \A d \in Ctx \ {c} : Holders(d)' = Holders(d)
  BY DEF Holders, TypeOK, Ptr
<1>4. IsFiniteSet({<<"slot", None>>}) /\ Cardinality({<<"slot", None>>}) = 1
  BY FS_Singleton
<1>5. <<"born", t>> \notin {<<"slot", None>>}
  OBVIOUS
<1>6. IsFiniteSet(Holders(c)') /\ Cardinality(Holders(c)') = 2
  <2>1. Holders(c)' = {<<"slot", None>>} \cup {<<"born", t>>}
    BY <1>2
  <2>2. /\ IsFiniteSet({<<"slot", None>>} \cup {<<"born", t>>})
        /\ Cardinality({<<"slot", None>>} \cup {<<"born", t>>})
             = Cardinality({<<"slot", None>>}) + 1
    BY <1>4, <1>5, FS_AddElement
  <2>. QED BY <1>4, <2>1, <2>2
<1>7. \A d \in Ctx : ref'[d] = IF d = c THEN 2 ELSE ref[d]
  BY DEF TypeOK
<1>. QED
  BY <1>3, <1>6, <1>7 DEF RefCount

\* skynet_handle_retire hands the slot's reference to the release it calls.
LEMMA RefMovedFromSlot ==
    ASSUME TypeOK, RefCount, NEW t \in Thread, NEW c \in Ctx, dst[t] = None,
           dst' = [dst EXCEPT ![t] = c], UNCHANGED ref,
           c \in slot, slot' = slot \ {c}, UNCHANGED <<cur, born>>
    PROVE  RefCount'
<1>. USE ServerAssumption
<1>. DEFINE old == <<"slot", None>>
            new == <<"dst", t>>
<1>1. /\ Holders(c)' = (Holders(c) \ {old}) \cup {new}
      /\ old \in Holders(c) /\ new \notin Holders(c)
  BY DEF Holders, TypeOK, Ptr
<1>2. \A d \in Ctx \ {c} : Holders(d)' = Holders(d)
  BY DEF Holders, TypeOK, Ptr
<1>3. IsFiniteSet(Holders(c)') /\ Cardinality(Holders(c)') = Cardinality(Holders(c))
  <2>. HIDE DEF old, new
  <2>1. IsFiniteSet(Holders(c))
    BY DEF RefCount
  <2>2. /\ IsFiniteSet((Holders(c) \ {old}) \cup {new})
        /\ Cardinality((Holders(c) \ {old}) \cup {new}) = Cardinality(Holders(c))
    BY <1>1, <2>1, MovedHolder
  <2>. QED BY <1>1, <2>2
<1>. QED
  BY <1>2, <1>3 DEF RefCount

\* The end of a dispatch hands its reference to the release it calls.
LEMMA RefMovedFromCur ==
    ASSUME TypeOK, RefCount, NEW t \in Thread, NEW c \in Ctx, dst[t] = None,
           dst' = [dst EXCEPT ![t] = c], UNCHANGED ref,
           cur[t] = c, cur' = [cur EXCEPT ![t] = None], UNCHANGED <<slot, born>>
    PROVE  RefCount'
<1>. USE ServerAssumption
<1>. DEFINE old == <<"cur", t>>
            new == <<"dst", t>>
<1>1. /\ Holders(c)' = (Holders(c) \ {old}) \cup {new}
      /\ old \in Holders(c) /\ new \notin Holders(c)
  BY DEF Holders, TypeOK, Ptr
<1>2. \A d \in Ctx \ {c} : Holders(d)' = Holders(d)
  BY DEF Holders, TypeOK, Ptr
<1>3. IsFiniteSet(Holders(c)') /\ Cardinality(Holders(c)') = Cardinality(Holders(c))
  <2>. HIDE DEF old, new
  <2>1. IsFiniteSet(Holders(c))
    BY DEF RefCount
  <2>2. /\ IsFiniteSet((Holders(c) \ {old}) \cup {new})
        /\ Cardinality((Holders(c) \ {old}) \cup {new}) = Cardinality(Holders(c))
    BY <1>1, <2>1, MovedHolder
  <2>. QED BY <1>1, <2>2
<1>. QED
  BY <1>2, <1>3 DEF RefCount

\* The end of skynet_context_new hands the creator's reference to the release.
LEMMA RefMovedFromBorn ==
    ASSUME TypeOK, RefCount, NEW t \in Thread, NEW c \in Ctx, dst[t] = None,
           dst' = [dst EXCEPT ![t] = c], UNCHANGED ref,
           born[t] = c, born' = [born EXCEPT ![t] = None], UNCHANGED <<slot, cur>>
    PROVE  RefCount'
<1>. USE ServerAssumption
<1>. DEFINE old == <<"born", t>>
            new == <<"dst", t>>
<1>1. /\ Holders(c)' = (Holders(c) \ {old}) \cup {new}
      /\ old \in Holders(c) /\ new \notin Holders(c)
  BY DEF Holders, TypeOK, Ptr
<1>2. \A d \in Ctx \ {c} : Holders(d)' = Holders(d)
  BY DEF Holders, TypeOK, Ptr
<1>3. IsFiniteSet(Holders(c)') /\ Cardinality(Holders(c)') = Cardinality(Holders(c))
  <2>. HIDE DEF old, new
  <2>1. IsFiniteSet(Holders(c))
    BY DEF RefCount
  <2>2. /\ IsFiniteSet((Holders(c) \ {old}) \cup {new})
        /\ Cardinality((Holders(c) \ {old}) \cup {new}) = Cardinality(Holders(c))
    BY <1>1, <2>1, MovedHolder
  <2>. QED BY <1>1, <2>2
<1>. QED
  BY <1>2, <1>3 DEF RefCount

\* Every step keeps the reference counts equal to the references held.
LEMMA RefStep == IndInv /\ [Next]_vars => RefCount'
<1>. SUFFICES ASSUME IndInv, [Next]_vars PROVE RefCount'
  OBVIOUS
<1>0. TypeOK /\ ControlInv /\ RefCount /\ LifeInv
  BY DEF IndInv
<1>. USE <1>0 DEF ctxVars, queueVars, dispatchVars, launchVars
<1>1. ASSUME NEW t \in Thread, ContextRelease(t) PROVE RefCount'
  <2>1. dst[t] \in Ctx
    BY <1>1, Locals DEF ContextRelease
  <2>. QED BY <1>1, <2>1, RefReleased DEF ContextRelease
<1>2. ASSUME NEW t \in Thread, DeleteContext(t) PROVE RefCount'
  BY <1>2, RefsUntouched DEF DeleteContext
<1>3. ASSUME NEW t \in Thread, MqPush(t) PROVE RefCount'
  BY <1>3, RefsUntouched DEF MqPush
<1>4. ASSUME NEW t \in Thread, InitOk(t) PROVE RefCount'
  <2>1. born[t] \in Ctx /\ dst[t] = None
    BY <1>4, Locals DEF InitOk, ControlInv, Control
  <2>. QED BY <1>4, <2>1, RefMovedFromBorn DEF InitOk, CallRelease
<1>5. ASSUME NEW t \in Thread, SetInit(t) PROVE RefCount'
  BY <1>5, RefsUntouched DEF SetInit
<1>6. ASSUME NEW t \in Thread, NewPush(t) PROVE RefCount'
  BY <1>6, RefsUntouched DEF NewPush
<1>7. ASSUME NEW t \in Thread, InitFail(t) PROVE RefCount'
  <2>1. born[t] \in Ctx /\ dst[t] = None
    BY <1>7, Locals DEF InitFail, ControlInv, Control
  <2>. QED BY <1>7, <2>1, RefMovedFromBorn DEF InitFail, CallRelease
<1>8. ASSUME NEW t \in Thread, FailRetire(t) PROVE RefCount'
  <2>1. newq[t] \in Ctx /\ dst[t] = None
    BY <1>8, Locals DEF FailRetire, ControlInv, Control
  <2>2. CASE newq[t] \in slot
    BY <1>8, <2>1, <2>2, RefMovedFromSlot DEF FailRetire, CallRelease
  <2>3. CASE newq[t] \notin slot
    BY <1>8, <2>3, RefsUntouched DEF FailRetire
  <2>. QED BY <2>2, <2>3
<1>9. ASSUME NEW t \in Thread, GlobalPop(t) PROVE RefCount'
  BY <1>9, RefsUntouched DEF GlobalPop
<1>10. ASSUME NEW t \in Thread, KeepQueue(t) PROVE RefCount'
  BY <1>10, RefsUntouched DEF KeepQueue
<1>11. ASSUME NEW t \in Thread, DispatchGrab(t) PROVE RefCount'
  <2>1. held[t] \in Ctx /\ cur[t] = None
    BY <1>11, Locals DEF DispatchGrab, ControlInv, Control, At, Launching, Dispatching
  <2>2. CASE held[t] \in slot
    BY <1>11, <2>1, <2>2, RefGrabbedCur DEF DispatchGrab
  <2>3. CASE held[t] \notin slot
    BY <1>11, <2>3, RefsUntouched DEF DispatchGrab
  <2>. QED BY <2>2, <2>3
<1>12. ASSUME NEW t \in Thread, PopEmpty(t) PROVE RefCount'
  <2>1. cur[t] \in Ctx /\ dst[t] = None
    BY <1>12, Held DEF PopEmpty, ControlInv, Control, At, Dispatching
  <2>. QED BY <1>12, <2>1, RefMovedFromCur DEF PopEmpty, CallRelease
<1>13. ASSUME NEW t \in Thread, PopMessage(t) PROVE RefCount'
  BY <1>13, RefsUntouched DEF PopMessage
<1>14. ASSUME NEW t \in Thread, Weigh(t) PROVE RefCount'
  BY <1>14, RefsUntouched DEF Weigh
<1>15. ASSUME NEW t \in Thread, CallbackDone(t) PROVE RefCount'
  BY <1>15, RefsUntouched DEF CallbackDone
<1>16. ASSUME NEW t \in Thread, YieldKeep(t) PROVE RefCount'
  <2>1. cur[t] \in Ctx /\ dst[t] = None
    BY <1>16, Held DEF YieldKeep, ControlInv, Control, At, Dispatching
  <2>. QED BY <1>16, <2>1, RefMovedFromCur DEF YieldKeep, CallRelease
<1>17. ASSUME NEW t \in Thread, YieldTake(t) PROVE RefCount'
  BY <1>17, RefsUntouched DEF YieldTake
<1>18. ASSUME NEW t \in Thread, PushBack(t) PROVE RefCount'
  <2>1. cur[t] \in Ctx /\ dst[t] = None
    BY <1>18, Held DEF PushBack, ControlInv, Control, At, Dispatching
  <2>. QED BY <1>18, <2>1, RefMovedFromCur DEF PushBack, CallRelease
<1>19. ASSUME NEW t \in Thread, MqReleaseLater(t) PROVE RefCount'
  BY <1>19, RefsUntouched DEF MqReleaseLater
<1>20. ASSUME NEW t \in Thread, MqReleaseNow(t) PROVE RefCount'
  BY <1>20, RefsUntouched DEF MqReleaseNow
<1>21. ASSUME NEW t \in Thread, DropMessage(t) PROVE RefCount'
  <2>. DEFINE s == Head(mq[DropQueue(t)]).src
  <2>1. dst[t] = None
    BY <1>21 DEF DropMessage, ControlInv, Control
  <2>2. CASE s \in slot
    <3>1. s \in Ctx /\ ref' = [ref EXCEPT ![s] = ref[s] + 1] /\ dst' = [dst EXCEPT ![t] = s]
          /\ UNCHANGED <<slot, cur, born>>
      BY <1>21, <2>2, Held DEF DropMessage, GrabInto
    <3>. HIDE DEF s
    <3>. QED BY <2>1, <3>1, RefGrabbedDst
  <2>3. CASE s \notin slot
    BY <1>21, <2>3, RefsUntouched DEF DropMessage
  <2>. QED BY <2>2, <2>3
<1>22. ASSUME NEW t \in Thread, DropDone(t) PROVE RefCount'
  BY <1>22, RefsUntouched DEF DropDone
<1>23. ASSUME NEW t \in Thread, NEW c \in Ctx, Send(t, c) PROVE RefCount'
  <2>1. dst[t] = None
    BY <1>23 DEF Send, UserOp, Running, ControlInv, Control
  <2>. QED BY <1>23, <2>1, RefGrabbedDst DEF Send, GrabInto
<1>24. ASSUME NEW t \in Thread, NEW c \in Ctx, Touch(t, c) PROVE RefCount'
  <2>1. dst[t] = None
    BY <1>24 DEF Touch, UserOp, Running, ControlInv, Control
  <2>. QED BY <1>24, <2>1, RefGrabbedDst DEF Touch, GrabInto
<1>25. ASSUME NEW t \in Thread, NEW c \in Ctx, Kill(t, c) PROVE RefCount'
  <2>1. dst[t] = None
    BY <1>25 DEF Kill, UserOp, Running, ControlInv, Control
  <2>. QED BY <1>25, <2>1, RefMovedFromSlot DEF Kill, CallRelease
<1>26. ASSUME NEW t \in Thread, NEW c \in Ctx, Launch(t, c) PROVE RefCount'
  <2>1. ref[c] = 0
    <3>1. life[c] = "none"
      BY <1>26 DEF Launch
    <3>2. ref[c] \in Nat /\ (ref[c] > 0 => life[c] = "live")
      BY DEF LifeInv, TypeOK
    <3>. QED BY <3>1, <3>2
  <2>2. born[t] = None
    BY <1>26 DEF Launch, ControlInv, Control, At
  <2>. QED BY <1>26, <2>1, <2>2, RefCreated DEF Launch
<1>27. CASE UNCHANGED vars
  BY <1>27, RefsUntouched DEF vars
<1>. QED
  BY <1>1, <1>2, <1>3, <1>4, <1>5, <1>6, <1>7, <1>8, <1>9, <1>10, <1>11, <1>12, <1>13, <1>14,
     <1>15, <1>16, <1>17, <1>18, <1>19, <1>20, <1>21, <1>22, <1>23, <1>24, <1>25, <1>26, <1>27
     DEF Next, Progress, UserCode

\* Grabbing a context that is alive does not disturb the life times.
LEMMA LifeGrabbed ==
    ASSUME TypeOK, LifeInv, NEW c \in Ctx, ref[c] > 0, ref' = [ref EXCEPT ![c] = ref[c] + 1],
           UNCHANGED <<life, release, mqlife, dead>>,
           \A d \in Ctx : life[d] = "none" => mq'[d] = mq[d]
    PROVE  LifeInv'
<1>1. \A d \in Ctx : ref'[d] = IF d = c THEN ref[c] + 1 ELSE ref[d]
  BY DEF TypeOK
<1>2. \A t \in Thread : dead[t] # None => dead[t] # c /\ dead[t] \in Ctx
  BY DEF LifeInv, TypeOK, Ptr
<1>3. \A d \in Ctx : (ref'[d] > 0 <=> ref[d] > 0) /\ (ref'[d] = 0 <=> ref[d] = 0)
  BY <1>1 DEF TypeOK
<1>. QED
  BY <1>2, <1>3 DEF LifeInv

\* Every step keeps the relation between counts, flags and life times: only
\* the thread that dropped the last reference deletes a context.
LEMMA LifeStep == IndInv /\ [Next]_vars => LifeInv'
<1>. SUFFICES ASSUME IndInv, [Next]_vars PROVE LifeInv'
  OBVIOUS
<1>0. TypeOK /\ ControlInv /\ DropInv /\ LifeInv
  BY DEF IndInv
<1>. USE ServerAssumption, <1>0
     DEF TypeOK, Ptr, LifeInv, ctxVars, queueVars, dispatchVars, launchVars
<1>1. ASSUME NEW t \in Thread, ContextRelease(t) PROVE LifeInv'
  <2>. DEFINE c == dst[t]
  <2>1. c \in Ctx /\ ref[c] \in Nat /\ ref[c] > 0 /\ life[c] = "live"
    BY <1>1, Locals, Held DEF ContextRelease
  <2>2. dead[t] = None
    BY <1>1 DEF ContextRelease, ControlInv, Control
  <2>3. /\ ref' = [ref EXCEPT ![c] = ref[c] - 1]
        /\ UNCHANGED <<life, release, mqlife, mq>>
    BY <1>1 DEF ContextRelease
  <2>4. ASSUME NEW u \in Thread, dead[u] = c PROVE FALSE
    <3>1. dead[u] # None
      BY <2>1, <2>4
    <3>2. ref[dead[u]] = 0
      BY <3>1
    <3>. QED BY <2>1, <2>4, <3>2
  <2>5. CASE ref[c] = 1
    <3>1. dead' = [dead EXCEPT ![t] = c]
      BY <1>1, <2>5 DEF ContextRelease
    <3>. HIDE DEF c
    <3>. QED BY <2>1, <2>2, <2>3, <2>4, <2>5, <3>1
  <2>6. CASE ref[c] # 1
    <3>1. UNCHANGED dead
      BY <1>1, <2>6 DEF ContextRelease
    <3>2. ref'[c] > 0
      BY <2>1, <2>3, <2>6
    <3>. HIDE DEF c
    <3>. QED BY <2>1, <2>3, <2>4, <3>1, <3>2
  <2>. QED BY <2>5, <2>6
<1>2. ASSUME NEW t \in Thread, DeleteContext(t) PROVE LifeInv'
  <2>. DEFINE c == dead[t]
  <2>1. c \in Ctx /\ c # None
    BY <1>2, Locals DEF DeleteContext
  <2>2. ref[c] = 0 /\ life[c] = "live" /\ (\A u \in Thread : u # t => dead[u] # c)
    BY <2>1
  <2>3. /\ release' = [release EXCEPT ![c] = TRUE]
        /\ life' = [life EXCEPT ![c] = "freed"]
        /\ dead' = [dead EXCEPT ![t] = None]
        /\ UNCHANGED <<ref, mq, mqlife>>
    BY <1>2 DEF DeleteContext
  <2>. HIDE DEF c
  <2>4. /\ \A d \in Ctx : ref'[d] > 0 => life'[d] = "live"
        /\ \A d \in Ctx : release'[d] <=> life'[d] = "freed"
    <3>1. \A d \in Ctx : ref'[d] > 0 => life'[d] = "live"
      BY <2>1, <2>2, <2>3
    <3>2. release'[c] /\ life'[c] = "freed"
      BY <2>1, <2>3
    <3>3. \A d \in Ctx \ {c} : release'[d] = release[d] /\ life'[d] = life[d]
      BY <2>1, <2>3
    <3>4. \A d \in Ctx : release'[d] <=> life'[d] = "freed"
      <4>. SUFFICES ASSUME NEW d \in Ctx PROVE release'[d] <=> life'[d] = "freed"
        OBVIOUS
      <4>1. CASE d = c
        BY <3>2, <4>1
      <4>2. CASE d # c
        <5>1. release[d] <=> life[d] = "freed"
          BY DEF LifeInv
        <5>2. release'[d] = release[d] /\ life'[d] = life[d]
          BY <3>3, <4>2
        <5>. QED BY <5>1, <5>2
      <4>. QED BY <4>1, <4>2
    <3>. QED BY <3>1, <3>4
  <2>5. /\ \A d \in Ctx : mqlife'[d] = "none" <=> life'[d] = "none"
        /\ \A d \in Ctx : mqlife'[d] = "freed" => life'[d] = "freed"
        /\ \A d \in Ctx : life'[d] = "none" => mq'[d] = <<>>
    BY <2>1, <2>2, <2>3
  <2>6. \A d \in Ctx : life'[d] = "live" /\ ref'[d] = 0 => \E u \in Thread : dead'[u] = d
    <3>. SUFFICES ASSUME NEW d \in Ctx, life'[d] = "live", ref'[d] = 0
                  PROVE \E u \in Thread : dead'[u] = d
      OBVIOUS
    <3>1. d # c /\ life[d] = "live" /\ ref[d] = 0
      BY <2>1, <2>3
    <3>2. PICK u \in Thread : dead[u] = d
      BY <3>1
    <3>3. u # t
      BY <3>1, <3>2 DEF c
    <3>. QED BY <2>3, <3>2, <3>3
  <2>7. \A u \in Thread : dead'[u] # None => ref'[dead'[u]] = 0 /\ life'[dead'[u]] = "live"
    <3>. SUFFICES ASSUME NEW u \in Thread, dead'[u] # None
                  PROVE ref'[dead'[u]] = 0 /\ life'[dead'[u]] = "live"
      OBVIOUS
    <3>1. u # t /\ dead'[u] = dead[u] /\ dead[u] \in Ctx
      BY <2>3
    <3>2. dead[u] # c /\ ref[dead[u]] = 0 /\ life[dead[u]] = "live"
      BY <2>2, <3>1
    <3>. QED BY <2>3, <3>1, <3>2
  <2>8. \A u, v \in Thread : dead'[u] # None /\ dead'[u] = dead'[v] => u = v
    BY <2>3
  <2>. QED BY <2>4, <2>5, <2>6, <2>7, <2>8
<1>3. ASSUME NEW t \in Thread, MqPush(t) PROVE LifeInv'
  <2>1. dst[t] \in Ctx /\ life[dst[t]] = "live"
    BY <1>3, Locals, Held DEF MqPush
  <2>2. \A d \in Ctx : life[d] = "none" => mq'[d] = mq[d]
    BY <1>3, <2>1 DEF MqPush
  <2>3. UNCHANGED <<ref, life, release, mqlife, dead>>
    BY <1>3 DEF MqPush
  <2>. QED BY <2>2, <2>3
<1>4. ASSUME NEW t \in Thread, InitOk(t) PROVE LifeInv'
  BY <1>4 DEF InitOk, CallRelease
<1>5. ASSUME NEW t \in Thread, SetInit(t) PROVE LifeInv'
  BY <1>5 DEF SetInit
<1>6. ASSUME NEW t \in Thread, NewPush(t) PROVE LifeInv'
  BY <1>6 DEF NewPush
<1>7. ASSUME NEW t \in Thread, InitFail(t) PROVE LifeInv'
  BY <1>7 DEF InitFail, CallRelease
<1>8. ASSUME NEW t \in Thread, FailRetire(t) PROVE LifeInv'
  BY <1>8 DEF FailRetire, CallRelease
<1>9. ASSUME NEW t \in Thread, GlobalPop(t) PROVE LifeInv'
  BY <1>9 DEF GlobalPop
<1>10. ASSUME NEW t \in Thread, KeepQueue(t) PROVE LifeInv'
  BY <1>10 DEF KeepQueue
<1>11. ASSUME NEW t \in Thread, DispatchGrab(t) PROVE LifeInv'
  <2>1. CASE held[t] \in slot
    <3>1. held[t] \in Ctx /\ ref[held[t]] > 0
      BY <2>1, Held
    <3>2. ref' = [ref EXCEPT ![held[t]] = ref[held[t]] + 1]
      BY <1>11, <2>1 DEF DispatchGrab
    <3>. QED BY <1>11, <3>1, <3>2, LifeGrabbed DEF DispatchGrab
  <2>2. CASE held[t] \notin slot
    BY <1>11, <2>2 DEF DispatchGrab
  <2>. QED BY <2>1, <2>2
<1>12. ASSUME NEW t \in Thread, PopEmpty(t) PROVE LifeInv'
  BY <1>12 DEF PopEmpty, CallRelease
<1>13. ASSUME NEW t \in Thread, PopMessage(t) PROVE LifeInv'
  BY <1>13, Locals DEF PopMessage
<1>14. ASSUME NEW t \in Thread, Weigh(t) PROVE LifeInv'
  BY <1>14 DEF Weigh
<1>15. ASSUME NEW t \in Thread, CallbackDone(t) PROVE LifeInv'
  BY <1>15 DEF CallbackDone
<1>16. ASSUME NEW t \in Thread, YieldKeep(t) PROVE LifeInv'
  BY <1>16 DEF YieldKeep, CallRelease
<1>17. ASSUME NEW t \in Thread, YieldTake(t) PROVE LifeInv'
  BY <1>17 DEF YieldTake
<1>18. ASSUME NEW t \in Thread, PushBack(t) PROVE LifeInv'
  BY <1>18 DEF PushBack, CallRelease
<1>19. ASSUME NEW t \in Thread, MqReleaseLater(t) PROVE LifeInv'
  BY <1>19 DEF MqReleaseLater, GiveUpQueue
<1>20. ASSUME NEW t \in Thread, MqReleaseNow(t) PROVE LifeInv'
  BY <1>20 DEF MqReleaseNow
<1>21. ASSUME NEW t \in Thread, DropMessage(t) PROVE LifeInv'
  <2>. DEFINE s == Head(mq[DropQueue(t)]).src
  <2>1. DropQueue(t) \in Ctx /\ life[DropQueue(t)] = "freed"
    BY <1>21, Locals DEF DropMessage, DropInv, At
  <2>2. /\ \A d \in Ctx : life[d] = "none" => mq'[d] = mq[d]
        /\ UNCHANGED <<life, release, mqlife, dead>>
    BY <1>21, <2>1 DEF DropMessage
  <2>3. CASE s \in slot
    <3>1. s \in Ctx /\ ref[s] > 0 /\ ref' = [ref EXCEPT ![s] = ref[s] + 1]
      BY <1>21, <2>3, Held DEF DropMessage, GrabInto
    <3>. HIDE DEF s
    <3>. QED BY <2>2, <3>1, LifeGrabbed
  <2>4. CASE s \notin slot
    <3>1. UNCHANGED ref
      BY <1>21, <2>4 DEF DropMessage
    <3>. QED BY <2>2, <3>1
  <2>. QED BY <2>3, <2>4
<1>22. ASSUME NEW t \in Thread, DropDone(t) PROVE LifeInv'
  <2>1. DropQueue(t) \in Ctx /\ life[DropQueue(t)] = "freed"
    BY <1>22, Locals DEF DropDone, DropInv, At
  <2>2. /\ mqlife' = [mqlife EXCEPT ![DropQueue(t)] = "freed"]
        /\ UNCHANGED <<ref, life, release, mq, dead>>
    BY <1>22 DEF DropDone
  <2>. QED BY <2>1, <2>2
<1>23. ASSUME NEW t \in Thread, NEW c \in Ctx, Send(t, c) PROVE LifeInv'
  BY <1>23, Held DEF Send, UserOp, GrabInto
<1>24. ASSUME NEW t \in Thread, NEW c \in Ctx, Touch(t, c) PROVE LifeInv'
  BY <1>24, Held DEF Touch, UserOp, GrabInto
<1>25. ASSUME NEW t \in Thread, NEW c \in Ctx, Kill(t, c) PROVE LifeInv'
  BY <1>25 DEF Kill, UserOp, CallRelease
<1>26. ASSUME NEW t \in Thread, NEW c \in Ctx, Launch(t, c) PROVE LifeInv'
  BY <1>26 DEF Launch, UserOp
<1>27. CASE UNCHANGED vars
  BY <1>27 DEF vars
<1>. QED
  BY <1>1, <1>2, <1>3, <1>4, <1>5, <1>6, <1>7, <1>8, <1>9, <1>10, <1>11, <1>12, <1>13, <1>14,
     <1>15, <1>16, <1>17, <1>18, <1>19, <1>20, <1>21, <1>22, <1>23, <1>24, <1>25, <1>26, <1>27
     DEF Next, Progress, UserCode

\* The queue a thread gives up is its own and has not been freed.
LEMMA DropQueueLive ==
    ASSUME IndInv, NEW t \in Thread, At(t) \in {"mqrel", "drop"}
    PROVE  /\ DropQueue(t) \in Ctx
           /\ OwnedBy(t, DropQueue(t))
           /\ mqlife[DropQueue(t)] = "live"
           /\ life[DropQueue(t)] # "none"
<1>. USE DEF IndInv
<1>1. DropQueue(t) \in Ctx
  BY DEF ControlInv, Control, DropQueue, TypeOK, Ptr
<1>2. OwnedBy(t, DropQueue(t))
  BY DEF DropQueue, OwnedBy
<1>3. mqlife[DropQueue(t)] = "live"
  BY <1>1, <1>2 DEF OwnerInv, Owned
<1>. QED
  BY <1>1, <1>2, <1>3 DEF LifeInv

\* Every step keeps the queues that are given up those of retired handles,
\* and drops only queues of deleted contexts.
LEMMA DropStep == IndInv /\ [Next]_vars => DropInv'
<1>. SUFFICES ASSUME IndInv, [Next]_vars, NEW u \in Thread
              PROVE /\ At(u)' \in {"mqrel", "drop"} => DropQueue(u)' \notin slot'
                    /\ At(u)' = "drop" => release'[DropQueue(u)']
  BY DEF DropInv
<1>. DEFINE G == /\ At(u)' \in {"mqrel", "drop"} => DropQueue(u)' \notin slot'
                 /\ At(u)' = "drop" => release'[DropQueue(u)']
<1>0. TypeOK /\ ControlInv /\ DropInv
  BY DEF IndInv
<1>. USE ServerAssumption, <1>0
     DEF TypeOK, ControlInv, Control, DropInv, At, DropQueue, ReturnPoint, Launching, Dispatching, Ptr,
         Running, ctxVars, queueVars, dispatchVars, launchVars, Goto
<1>1. ASSUME NEW t \in Thread, ContextRelease(t) PROVE G
  <2>1. UNCHANGED <<slot, release, held, newq, ret>> /\ pc[t] = "rel"
    BY <1>1 DEF ContextRelease
  <2>2. pc' = [pc EXCEPT ![t] = "del"] \/ pc' = [pc EXCEPT ![t] = ret[t]]
    BY <1>1 DEF ContextRelease
  <2>3. At(u)' = At(u)
    BY <2>1, <2>2
  <2>. QED BY <2>1, <2>3
<1>2. ASSUME NEW t \in Thread, DeleteContext(t) PROVE G
  BY <1>2 DEF DeleteContext
<1>3. ASSUME NEW t \in Thread, MqPush(t) PROVE G
  BY <1>3 DEF MqPush
<1>4. ASSUME NEW t \in Thread, InitOk(t) PROVE G
  BY <1>4 DEF InitOk, CallRelease
<1>5. ASSUME NEW t \in Thread, SetInit(t) PROVE G
  BY <1>5 DEF SetInit
<1>6. ASSUME NEW t \in Thread, NewPush(t) PROVE G
  BY <1>6 DEF NewPush
<1>7. ASSUME NEW t \in Thread, InitFail(t) PROVE G
  BY <1>7 DEF InitFail, CallRelease
<1>8. ASSUME NEW t \in Thread, FailRetire(t) PROVE G
  <2>1. slot' \subseteq slot /\ newq[t] \notin slot' /\ UNCHANGED <<release, held, newq>>
        /\ pc[t] = "failretire"
    BY <1>8 DEF FailRetire
  <2>2. CASE u = t
    <3>1. newq[t] # None
      BY <2>1
    <3>2. At(t)' = "mqrel"
      BY <1>8 DEF FailRetire, CallRelease
    <3>. QED BY <2>1, <2>2, <3>1, <3>2
  <2>3. CASE u # t
    <3>1. At(u)' = At(u)
      BY <1>8, <2>3 DEF FailRetire, CallRelease
    <3>. QED BY <2>1, <3>1
  <2>. QED BY <2>2, <2>3
<1>9. ASSUME NEW t \in Thread, GlobalPop(t) PROVE G
  BY <1>9 DEF GlobalPop
<1>10. ASSUME NEW t \in Thread, KeepQueue(t) PROVE G
  BY <1>10 DEF KeepQueue
<1>11. ASSUME NEW t \in Thread, DispatchGrab(t) PROVE G
  <2>1. UNCHANGED <<slot, release, held, newq, ret>> /\ pc[t] = "grab"
    BY <1>11 DEF DispatchGrab
  <2>2. CASE u = t
    <3>1. newq[t] = None
      BY <2>1
    <3>2. \/ held[t] \in slot /\ pc' = [pc EXCEPT ![t] = "pop0"]
          \/ held[t] \notin slot /\ pc' = [pc EXCEPT ![t] = "mqrel"]
      BY <1>11 DEF DispatchGrab
    <3>. QED BY <2>1, <2>2, <3>1, <3>2
  <2>3. CASE u # t
    <3>1. pc'[u] = pc[u]
      BY <1>11, <2>3 DEF DispatchGrab
    <3>. QED BY <2>1, <3>1
  <2>. QED BY <2>2, <2>3
<1>12. ASSUME NEW t \in Thread, PopEmpty(t) PROVE G
  BY <1>12 DEF PopEmpty, CallRelease
<1>13. ASSUME NEW t \in Thread, PopMessage(t) PROVE G
  BY <1>13 DEF PopMessage
<1>14. ASSUME NEW t \in Thread, Weigh(t) PROVE G
  BY <1>14 DEF Weigh
<1>15. ASSUME NEW t \in Thread, CallbackDone(t) PROVE G
  BY <1>15 DEF CallbackDone
<1>16. ASSUME NEW t \in Thread, YieldKeep(t) PROVE G
  BY <1>16 DEF YieldKeep, CallRelease
<1>17. ASSUME NEW t \in Thread, YieldTake(t) PROVE G
  BY <1>17 DEF YieldTake
<1>18. ASSUME NEW t \in Thread, PushBack(t) PROVE G
  BY <1>18 DEF PushBack, CallRelease
<1>19. ASSUME NEW t \in Thread, MqReleaseLater(t) PROVE G
  <2>1. UNCHANGED <<slot, release, ret>> /\ GiveUpQueue(t)
    BY <1>19 DEF MqReleaseLater
  <2>2. CASE u = t
    <3>1. pc'[u] \in {"cb", "loop"}
      BY <2>1, <2>2 DEF GiveUpQueue
    <3>. QED BY <3>1
  <2>3. CASE u # t
    <3>1. pc'[u] = pc[u] /\ held'[u] = held[u] /\ newq'[u] = newq[u]
      BY <2>1, <2>3 DEF GiveUpQueue
    <3>. QED BY <2>1, <3>1
  <2>. QED BY <2>2, <2>3
<1>20. ASSUME NEW t \in Thread, MqReleaseNow(t) PROVE G
  BY <1>20 DEF MqReleaseNow
<1>21. ASSUME NEW t \in Thread, DropMessage(t) PROVE G
  BY <1>21 DEF DropMessage, GrabInto
<1>22. ASSUME NEW t \in Thread, DropDone(t) PROVE G
  <2>1. UNCHANGED <<slot, release, ret>> /\ GiveUpQueue(t)
    BY <1>22 DEF DropDone
  <2>2. CASE u = t
    <3>1. pc'[u] \in {"cb", "loop"}
      BY <2>1, <2>2 DEF GiveUpQueue
    <3>. QED BY <3>1
  <2>3. CASE u # t
    <3>1. pc'[u] = pc[u] /\ held'[u] = held[u] /\ newq'[u] = newq[u]
      BY <2>1, <2>3 DEF GiveUpQueue
    <3>. QED BY <2>1, <3>1
  <2>. QED BY <2>2, <2>3
<1>23. ASSUME NEW t \in Thread, NEW c \in Ctx, Send(t, c) PROVE G
  BY <1>23 DEF Send, UserOp, GrabInto
<1>24. ASSUME NEW t \in Thread, NEW c \in Ctx, Touch(t, c) PROVE G
  BY <1>24 DEF Touch, UserOp, GrabInto
<1>25. ASSUME NEW t \in Thread, NEW c \in Ctx, Kill(t, c) PROVE G
  BY <1>25 DEF Kill, UserOp, CallRelease
<1>26. ASSUME NEW t \in Thread, NEW c \in Ctx, Launch(t, c) PROVE G
  <2>1. /\ slot' = slot \cup {c} /\ life[c] = "none" /\ UNCHANGED <<release, held, ret>>
        /\ newq' = [newq EXCEPT ![t] = c] /\ pc' = [pc EXCEPT ![t] = "init"]
    BY <1>26 DEF Launch
  <2>2. CASE u = t
    BY <2>1, <2>2
  <2>3. CASE u # t
    <3>1. At(u)' = At(u) /\ DropQueue(u)' = DropQueue(u)
      BY <2>1, <2>3
    <3>2. At(u) \in {"mqrel", "drop"} => DropQueue(u) # c
      BY <2>1, DropQueueLive
    <3>. QED BY <2>1, <3>1, <3>2
  <2>. QED BY <2>2, <2>3
<1>27. CASE UNCHANGED vars
  BY <1>27 DEF vars
<1>. QED
  BY <1>1, <1>2, <1>3, <1>4, <1>5, <1>6, <1>7, <1>8, <1>9, <1>10, <1>11, <1>12, <1>13, <1>14,
     <1>15, <1>16, <1>17, <1>18, <1>19, <1>20, <1>21, <1>22, <1>23, <1>24, <1>25, <1>26, <1>27
     DEF Next, Progress, UserCode

\* skynet_globalmq_push of a queue that is not linked keeps the list free of
\* duplicates and adds this queue only.
LEMMA QAppend ==
    ASSUME Q \in Seq(Ctx), QDistinct, NEW q \in Ctx, ~InQ(q), Q' = Append(Q, q)
    PROVE  QDistinct' /\ \A c \in Ctx : InQ(c)' <=> InQ(c) \/ c = q
<1>1. /\ Len(Q') = Len(Q) + 1 /\ Q'[Len(Q) + 1] = q
      /\ \A i \in 1..Len(Q) : Q'[i] = Q[i]
      /\ Len(Q) \in Nat
  OBVIOUS
<1>2. QDistinct'
  BY <1>1 DEF QDistinct, InQ
<1>3. ASSUME NEW c \in Ctx PROVE InQ(c)' <=> InQ(c) \/ c = q
  <2>1. InQ(c)' => InQ(c) \/ c = q
    BY <1>1 DEF InQ
  <2>2. InQ(c) => InQ(c)'
    BY <1>1 DEF InQ
  <2>3. c = q => InQ(c)'
    <3>1. Len(Q) + 1 \in 1..Len(Q')
      BY <1>1
    <3>. QED BY <1>1, <3>1 DEF InQ
  <2>. QED BY <2>1, <2>2, <2>3
<1>. QED
  BY <1>2, <1>3

\* skynet_globalmq_pop takes the first queue out of the list and no other.
LEMMA QPop ==
    ASSUME Q \in Seq(Ctx), QDistinct, Q # <<>>, Q' = Tail(Q)
    PROVE  /\ QDistinct' /\ Head(Q) \in Ctx /\ InQ(Head(Q))
           /\ \A c \in Ctx : InQ(c)' <=> InQ(c) /\ c # Head(Q)
<1>1. /\ Len(Q) \in Nat /\ Len(Q) > 0 /\ Head(Q) = Q[1] /\ Head(Q) \in Ctx
      /\ Len(Q') = Len(Q) - 1
      /\ \A i \in 1..Len(Q) - 1 : Q'[i] = Q[i + 1]
  OBVIOUS
<1>2. QDistinct'
  BY <1>1 DEF QDistinct
<1>3. InQ(Head(Q))
  <2>1. 1 \in 1..Len(Q)
    BY <1>1
  <2>. QED BY <1>1, <2>1 DEF InQ
<1>4. ASSUME NEW c \in Ctx PROVE InQ(c)' <=> InQ(c) /\ c # Head(Q)
  <2>1. InQ(c)' => InQ(c) /\ c # Head(Q)
    <3>. SUFFICES ASSUME NEW i \in 1..Len(Q'), Q'[i] = c PROVE InQ(c) /\ c # Head(Q)
      BY DEF InQ
    <3>1. i + 1 \in 1..Len(Q) /\ i + 1 # 1 /\ 1 \in 1..Len(Q) /\ Q[i + 1] = c
      BY <1>1
    <3>. QED BY <1>1, <3>1 DEF InQ, QDistinct
  <2>2. InQ(c) /\ c # Head(Q) => InQ(c)'
    <3>. SUFFICES ASSUME NEW i \in 1..Len(Q), Q[i] = c, c # Head(Q) PROVE InQ(c)'
      BY DEF InQ
    <3>1. i - 1 \in 1..Len(Q') /\ Q'[i - 1] = Q[(i - 1) + 1] /\ (i - 1) + 1 = i
      BY <1>1
    <3>. QED BY <3>1 DEF InQ
  <2>. QED BY <2>1, <2>2
<1>. QED
  BY <1>1, <1>2, <1>3, <1>4

\* A step that moves no queue keeps every owner.
LEMMA OwnersUntouched ==
    ASSUME OwnerInv, UNCHANGED <<Q, held, nq, newq, inGlobal, release, mqlife>>,
           \A c \in Ctx : Owned(c) \/ mq'[c] = mq[c]
    PROVE  OwnerInv'
<1>1. \A c \in Ctx : Owned(c)' <=> Owned(c)
  BY DEF Owned, OwnedBy, InQ
<1>2. OneOwner'
  BY DEF OwnerInv, OneOwner, OwnedBy, InQ, QDistinct
<1>. QED
  BY <1>1, <1>2 DEF OwnerInv, UnownedIsIdle

\* A step that only passes queues from owner to owner keeps the invariant.
LEMMA OwnersMoved ==
    ASSUME OwnerInv, UNCHANGED <<mq, inGlobal, release, mqlife>>, OneOwner',
           \A c \in Ctx : Owned(c)' <=> Owned(c)
    PROVE  OwnerInv'
BY DEF OwnerInv, UnownedIsIdle

\* A step that changes the ownership of one queue has to be checked for this
\* queue only.
LEMMA OwnersOfOthersKept ==
    ASSUME OwnerInv, NEW c \in Ctx, OneOwner',
           mqlife'[c] = "live" /\ ~Owned(c)' => mq'[c] = <<>> /\ ~release'[c] /\ ~inGlobal'[c],
           Owned(c)' => mqlife'[c] = "live" /\ (inGlobal'[c] \/ release'[c]),
           \A d \in Ctx \ {c} : Owned(d)' <=> Owned(d),
           \A d \in Ctx \ {c} : /\ mq'[d] = mq[d] /\ mqlife'[d] = mqlife[d]
                                /\ inGlobal'[d] = inGlobal[d] /\ release'[d] = release[d]
    PROVE  OwnerInv'
<1>. SUFFICES ASSUME NEW d \in Ctx
              PROVE  /\ mqlife'[d] = "live" /\ ~Owned(d)'
                          => mq'[d] = <<>> /\ ~release'[d] /\ ~inGlobal'[d]
                     /\ Owned(d)' => mqlife'[d] = "live" /\ (inGlobal'[d] \/ release'[d])
  BY DEF OwnerInv, UnownedIsIdle
<1>1. CASE d = c
  BY <1>1
<1>2. CASE d # c
  <2>1. /\ mqlife[d] = "live" /\ ~Owned(d) => mq[d] = <<>> /\ ~release[d] /\ ~inGlobal[d]
        /\ Owned(d) => mqlife[d] = "live" /\ (inGlobal[d] \/ release[d])
    BY DEF OwnerInv, UnownedIsIdle
  <2>2. /\ mq'[d] = mq[d] /\ mqlife'[d] = mqlife[d]
        /\ inGlobal'[d] = inGlobal[d] /\ release'[d] = release[d]
        /\ Owned(d)' <=> Owned(d)
    BY <1>2
  <2>. QED BY <2>1, <2>2
<1>. QED
  BY <1>1, <1>2

\* skynet_mq_push and skynet_mq_mark_release link a queue exactly when in_global
\* says that it has no owner.
LEMMA OwnerPushed ==
    ASSUME TypeOK, OwnerInv, NEW c \in Ctx, mqlife[c] = "live", ~release[c],
           Q' = (IF inGlobal[c] THEN Q ELSE Append(Q, c)), UNCHANGED <<held, nq, newq>>
    PROVE  /\ OneOwner' /\ Owned(c)'
           /\ \A d \in Ctx \ {c} : Owned(d)' <=> Owned(d)
<1>1. CASE inGlobal[c]
  <2>1. Owned(c)
    BY <1>1 DEF OwnerInv, UnownedIsIdle
  <2>2. \A d \in Ctx : Owned(d)' <=> Owned(d)
    BY <1>1 DEF Owned, OwnedBy, InQ
  <2>3. OneOwner'
    BY <1>1 DEF OwnerInv, OneOwner, OwnedBy, InQ, QDistinct
  <2>. QED BY <2>1, <2>2, <2>3
<1>2. CASE ~inGlobal[c]
  <2>1. ~Owned(c)
    BY <1>2 DEF OwnerInv
  <2>2. QDistinct' /\ \A d \in Ctx : InQ(d)' <=> InQ(d) \/ d = c
    BY <1>2, <2>1, QAppend DEF OwnerInv, OneOwner, Owned, TypeOK
  <2>3. OneOwner'
    BY <2>1, <2>2 DEF OwnerInv, OneOwner, OwnedBy, Owned
  <2>4. \A d \in Ctx : Owned(d)' <=> Owned(d) \/ d = c
    BY <2>2 DEF Owned, OwnedBy
  <2>. QED BY <2>3, <2>4
<1>. QED
  BY <1>1, <1>2

\* A thread that forgets its queue leaves it without an owner.
LEMMA OwnerLeft ==
    ASSUME TypeOK, OwnerInv, NEW t \in Thread, NEW q \in Ctx, UNCHANGED <<Q, nq>>,
           \/ q = held[t] /\ held' = [held EXCEPT ![t] = None] /\ UNCHANGED newq
           \/ q = newq[t] /\ newq' = [newq EXCEPT ![t] = None] /\ UNCHANGED held
    PROVE  /\ OneOwner' /\ ~Owned(q)'
           /\ \A d \in Ctx \ {q} : Owned(d)' <=> Owned(d)
<1>. USE ServerAssumption
<1>1. OwnedBy(t, q)
  BY DEF OwnedBy
<1>2. (\A d \in Ctx : InQ(d)' <=> InQ(d)) /\ QDistinct'
  BY DEF InQ, OwnerInv, OneOwner, QDistinct
<1>3. \A u \in Thread : ~OwnedBy(u, q)'
  <2>1. CASE UNCHANGED newq
    BY <1>1, <2>1 DEF OwnerInv, OneOwner, OwnedBy, TypeOK
  <2>2. CASE UNCHANGED held
    BY <1>1, <2>2 DEF OwnerInv, OneOwner, OwnedBy, TypeOK
  <2>. QED BY <2>1, <2>2
<1>4. \A u \in Thread, d \in Ctx \ {q} : OwnedBy(u, d)' <=> OwnedBy(u, d)
  BY DEF OwnedBy, TypeOK
<1>5. OneOwner'
  <2>1. \A u \in Thread : /\ held'[u] \in {held[u], None} /\ newq'[u] \in {newq[u], None}
                          /\ nq'[u] = nq[u]
    BY DEF TypeOK
  <2>2. \A u \in Thread, d \in Ctx : OwnedBy(u, d)' => OwnedBy(u, d)
    BY <2>1 DEF OwnedBy
  <2>3. \A u \in Thread :
           /\ held'[u] # None => held'[u] # nq'[u] /\ held'[u] # newq'[u]
           /\ nq'[u] # None => nq'[u] # newq'[u]
    BY <2>1 DEF OwnerInv, OneOwner
  <2>. QED BY <1>2, <2>2, <2>3 DEF OwnerInv, OneOwner
<1>6. ~InQ(q)
  BY <1>1 DEF OwnerInv, OneOwner
<1>7. ~Owned(q)'
  BY <1>2, <1>3, <1>6 DEF Owned
<1>8. \A d \in Ctx \ {q} : Owned(d)' <=> Owned(d)
  BY <1>2, <1>4 DEF Owned
<1>. QED
  BY <1>5, <1>7, <1>8

\* Every step keeps at most one owner per queue, and every queue without an
\* owner idle.
LEMMA OwnerStep == IndInv /\ [Next]_vars => OwnerInv'
<1>. SUFFICES ASSUME IndInv, [Next]_vars PROVE OwnerInv'
  OBVIOUS
<1>0. TypeOK /\ OwnerInv
  BY DEF IndInv
<1>. USE ServerAssumption, <1>0
     DEF ctxVars, queueVars, dispatchVars, launchVars, Goto
<1>1. ASSUME NEW t \in Thread, ContextRelease(t) PROVE OwnerInv'
  BY <1>1, OwnersUntouched DEF ContextRelease
<1>2. ASSUME NEW t \in Thread, DeleteContext(t) PROVE OwnerInv'
  <2>0. PICK c \in Ctx : c = dead[t]
    BY <1>2, Locals DEF DeleteContext
  <2>1. c \in Ctx /\ life[c] = "live"
    BY <1>2, <2>0, Locals DEF DeleteContext, IndInv, LifeInv
  <2>2. mqlife[c] = "live" /\ ~release[c]
    BY <2>1 DEF IndInv, LifeInv, TypeOK
  <2>3. /\ Q' = (IF inGlobal[c] THEN Q ELSE Append(Q, c))
        /\ release' = [release EXCEPT ![c] = TRUE]
        /\ UNCHANGED <<held, nq, newq, mq, inGlobal, mqlife>>
    BY <1>2, <2>0 DEF DeleteContext
  <2>4. OneOwner' /\ Owned(c)' /\ \A d \in Ctx \ {c} : Owned(d)' <=> Owned(d)
    BY <2>1, <2>2, <2>3, OwnerPushed
  <2>5. \A d \in Ctx \ {c} : /\ mq'[d] = mq[d] /\ mqlife'[d] = mqlife[d]
                              /\ inGlobal'[d] = inGlobal[d] /\ release'[d] = release[d]
    BY <2>1, <2>3 DEF TypeOK
  <2>6. mqlife'[c] = "live" /\ (inGlobal'[c] \/ release'[c])
    BY <2>1, <2>2, <2>3 DEF TypeOK
  <2>. QED BY <2>1, <2>4, <2>5, <2>6, OwnersOfOthersKept
<1>3. ASSUME NEW t \in Thread, MqPush(t) PROVE OwnerInv'
  <2>0. PICK c \in Ctx : c = dst[t]
    BY <1>3, Locals DEF MqPush
  <2>1. c \in Ctx /\ life[c] = "live"
    BY <1>3, <2>0, Locals, Held DEF MqPush
  <2>2. mqlife[c] = "live" /\ ~release[c]
    BY <2>1 DEF IndInv, LifeInv, TypeOK
  <2>3. /\ Q' = (IF inGlobal[c] THEN Q ELSE Append(Q, c))
        /\ inGlobal' = [inGlobal EXCEPT ![c] = TRUE]
        /\ \A d \in Ctx \ {c} : mq'[d] = mq[d]
        /\ UNCHANGED <<held, nq, newq, release, mqlife>>
    BY <1>3, <2>0, <2>1 DEF MqPush, TypeOK
  <2>4. OneOwner' /\ Owned(c)' /\ \A d \in Ctx \ {c} : Owned(d)' <=> Owned(d)
    BY <2>1, <2>2, <2>3, OwnerPushed
  <2>5. \A d \in Ctx \ {c} : /\ mq'[d] = mq[d] /\ mqlife'[d] = mqlife[d]
                              /\ inGlobal'[d] = inGlobal[d] /\ release'[d] = release[d]
    BY <2>1, <2>3 DEF TypeOK
  <2>6. mqlife'[c] = "live" /\ (inGlobal'[c] \/ release'[c])
    BY <2>1, <2>2, <2>3 DEF TypeOK
  <2>. QED BY <2>1, <2>4, <2>5, <2>6, OwnersOfOthersKept
<1>4. ASSUME NEW t \in Thread, InitOk(t) PROVE OwnerInv'
  BY <1>4, OwnersUntouched DEF InitOk
<1>5. ASSUME NEW t \in Thread, SetInit(t) PROVE OwnerInv'
  BY <1>5, OwnersUntouched DEF SetInit
<1>6. ASSUME NEW t \in Thread, NewPush(t) PROVE OwnerInv'
  <2>. DEFINE q == newq[t]
  <2>1. q \in Ctx /\ ~InQ(q) /\ Q' = Append(Q, q) /\ QDistinct
    BY <1>6, Locals DEF NewPush, OwnerInv, OneOwner, OwnedBy
  <2>2. QDistinct' /\ \A c \in Ctx : InQ(c)' <=> InQ(c) \/ c = q
    BY <2>1, QAppend DEF TypeOK
  <2>3. newq' = [newq EXCEPT ![t] = None] /\ UNCHANGED <<held, nq>>
    BY <1>6 DEF NewPush
  <2>4. OneOwner'
    <3>1. \A u \in Thread, c \in Ctx : OwnedBy(u, c)' => ~InQ(c)'
      BY <2>1, <2>2, <2>3 DEF OwnerInv, OneOwner, OwnedBy, TypeOK, Ptr
    <3>2. \A u, v \in Thread, c \in Ctx : OwnedBy(u, c)' /\ OwnedBy(v, c)' => u = v
      BY <2>1, <2>2, <2>3 DEF OwnerInv, OneOwner, OwnedBy, TypeOK, Ptr
    <3>3. \A u \in Thread : /\ held'[u] # None => held'[u] # nq'[u] /\ held'[u] # newq'[u]
                            /\ nq'[u] # None => nq'[u] # newq'[u]
      BY <2>1, <2>2, <2>3 DEF OwnerInv, OneOwner, OwnedBy, TypeOK, Ptr
    <3>. QED BY <2>2, <3>1, <3>2, <3>3 DEF OneOwner
  <2>5. \A c \in Ctx : Owned(c)' <=> Owned(c)
    BY <2>1, <2>2, <2>3 DEF Owned, OwnedBy, TypeOK, Ptr
  <2>. QED BY <1>6, <2>4, <2>5, OwnersMoved DEF NewPush
<1>7. ASSUME NEW t \in Thread, InitFail(t) PROVE OwnerInv'
  BY <1>7, OwnersUntouched DEF InitFail
<1>8. ASSUME NEW t \in Thread, FailRetire(t) PROVE OwnerInv'
  BY <1>8, OwnersUntouched DEF FailRetire
<1>9. ASSUME NEW t \in Thread, GlobalPop(t) PROVE OwnerInv'
  <2>. DEFINE q == Head(Q)
  <2>1. held[t] = None /\ held' = [held EXCEPT ![t] = q] /\ UNCHANGED <<nq, newq>>
    BY <1>9 DEF GlobalPop, IndInv, ControlInv, Control, At
  <2>2. QDistinct' /\ q \in Ctx /\ InQ(q) /\ \A c \in Ctx : InQ(c)' <=> InQ(c) /\ c # q
    BY <1>9, QPop DEF GlobalPop, OwnerInv, OneOwner, TypeOK
  <2>. HIDE DEF q
  <2>3. \A u \in Thread : ~OwnedBy(u, q)
    BY <2>2 DEF OwnerInv, OneOwner
  <2>4. OneOwner'
    <3>1. \A u \in Thread, c \in Ctx : OwnedBy(u, c)' => ~InQ(c)'
      BY <2>1, <2>2, <2>3 DEF OwnerInv, OneOwner, OwnedBy, TypeOK, Ptr
    <3>2. \A u, v \in Thread, c \in Ctx : OwnedBy(u, c)' /\ OwnedBy(v, c)' => u = v
      BY <2>1, <2>2, <2>3 DEF OwnerInv, OneOwner, OwnedBy, TypeOK, Ptr
    <3>3. \A u \in Thread : /\ held'[u] # None => held'[u] # nq'[u] /\ held'[u] # newq'[u]
                            /\ nq'[u] # None => nq'[u] # newq'[u]
      BY <2>1, <2>2, <2>3 DEF OwnerInv, OneOwner, OwnedBy, TypeOK, Ptr
    <3>. QED BY <2>2, <3>1, <3>2, <3>3 DEF OneOwner
  <2>5. \A c \in Ctx : Owned(c)' <=> Owned(c)
    BY <2>1, <2>2, <2>3 DEF Owned, OwnedBy, TypeOK, Ptr
  <2>. QED BY <1>9, <2>4, <2>5, OwnersMoved DEF GlobalPop
<1>10. ASSUME NEW t \in Thread, KeepQueue(t) PROVE OwnerInv'
  BY <1>10, OwnersUntouched DEF KeepQueue
<1>11. ASSUME NEW t \in Thread, DispatchGrab(t) PROVE OwnerInv'
  BY <1>11, OwnersUntouched DEF DispatchGrab
<1>12. ASSUME NEW t \in Thread, PopEmpty(t) PROVE OwnerInv'
  <2>0. PICK q \in Ctx : q = held[t]
    BY <1>12, Locals DEF PopEmpty
  <2>1. q \in Ctx /\ cur[t] = q
    BY <1>12, <2>0, Locals DEF PopEmpty, IndInv, ControlInv, Control, At, Dispatching
  <2>2. life[q] = "live"
    BY <2>1, Held
  <2>3. ~release[q] /\ mq[q] = <<>>
    BY <1>12, <2>0, <2>1, <2>2 DEF PopEmpty, IndInv, LifeInv
  <2>4. /\ held' = [held EXCEPT ![t] = None]
        /\ inGlobal' = [inGlobal EXCEPT ![q] = FALSE]
        /\ UNCHANGED <<Q, nq, newq, mq, release, mqlife>>
    BY <1>12, <2>0 DEF PopEmpty
  <2>5. OneOwner' /\ ~Owned(q)' /\ \A d \in Ctx \ {q} : Owned(d)' <=> Owned(d)
    BY <2>0, <2>4, OwnerLeft
  <2>6. \A d \in Ctx \ {q} : /\ mq'[d] = mq[d] /\ mqlife'[d] = mqlife[d]
                              /\ inGlobal'[d] = inGlobal[d] /\ release'[d] = release[d]
    BY <2>1, <2>4 DEF TypeOK
  <2>7. mq'[q] = <<>> /\ ~release'[q] /\ ~inGlobal'[q]
    BY <2>1, <2>3, <2>4 DEF TypeOK
  <2>. QED BY <2>1, <2>5, <2>6, <2>7, OwnersOfOthersKept
<1>13. ASSUME NEW t \in Thread, PopMessage(t) PROVE OwnerInv'
  <2>1. held[t] \in Ctx /\ Owned(held[t])
    BY <1>13, Locals DEF PopMessage, Owned, OwnedBy
  <2>. QED BY <1>13, <2>1, OwnersUntouched DEF PopMessage, TypeOK
<1>14. ASSUME NEW t \in Thread, Weigh(t) PROVE OwnerInv'
  BY <1>14, OwnersUntouched DEF Weigh
<1>15. ASSUME NEW t \in Thread, CallbackDone(t) PROVE OwnerInv'
  BY <1>15, OwnersUntouched DEF CallbackDone
<1>16. ASSUME NEW t \in Thread, YieldKeep(t) PROVE OwnerInv'
  BY <1>16, OwnersUntouched DEF YieldKeep
<1>17. ASSUME NEW t \in Thread, YieldTake(t) PROVE OwnerInv'
  <2>. DEFINE q == Head(Q)
  <2>1. nq[t] = None /\ nq' = [nq EXCEPT ![t] = q] /\ UNCHANGED <<held, newq>>
    BY <1>17 DEF YieldTake, IndInv, ControlInv, Control, At
  <2>2. QDistinct' /\ q \in Ctx /\ InQ(q) /\ \A c \in Ctx : InQ(c)' <=> InQ(c) /\ c # q
    BY <1>17, QPop DEF YieldTake, OwnerInv, OneOwner, TypeOK
  <2>. HIDE DEF q
  <2>3. \A u \in Thread : ~OwnedBy(u, q)
    BY <2>2 DEF OwnerInv, OneOwner
  <2>4. OneOwner'
    <3>1. \A u \in Thread, c \in Ctx : OwnedBy(u, c)' => ~InQ(c)'
      BY <2>1, <2>2, <2>3 DEF OwnerInv, OneOwner, OwnedBy, TypeOK, Ptr
    <3>2. \A u, v \in Thread, c \in Ctx : OwnedBy(u, c)' /\ OwnedBy(v, c)' => u = v
      BY <2>1, <2>2, <2>3 DEF OwnerInv, OneOwner, OwnedBy, TypeOK, Ptr
    <3>3. \A u \in Thread : /\ held'[u] # None => held'[u] # nq'[u] /\ held'[u] # newq'[u]
                            /\ nq'[u] # None => nq'[u] # newq'[u]
      BY <2>1, <2>2, <2>3 DEF OwnerInv, OneOwner, OwnedBy, TypeOK, Ptr
    <3>. QED BY <2>2, <3>1, <3>2, <3>3 DEF OneOwner
  <2>5. \A c \in Ctx : Owned(c)' <=> Owned(c)
    BY <2>1, <2>2, <2>3 DEF Owned, OwnedBy, TypeOK, Ptr
  <2>. QED BY <1>17, <2>4, <2>5, OwnersMoved DEF YieldTake
<1>18. ASSUME NEW t \in Thread, PushBack(t) PROVE OwnerInv'
  <2>. DEFINE q == held[t]
  <2>1. q \in Ctx /\ ~InQ(q) /\ Q' = Append(Q, q) /\ QDistinct
    BY <1>18, Locals DEF PushBack, OwnerInv, OneOwner, OwnedBy
  <2>2. QDistinct' /\ \A c \in Ctx : InQ(c)' <=> InQ(c) \/ c = q
    BY <2>1, QAppend DEF TypeOK
  <2>3. /\ held' = [held EXCEPT ![t] = nq[t]] /\ nq' = [nq EXCEPT ![t] = None]
        /\ UNCHANGED newq /\ nq[t] \in Ctx
    BY <1>18, Locals DEF PushBack
  <2>4. OneOwner'
    <3>1. \A u \in Thread, c \in Ctx : OwnedBy(u, c)' => ~InQ(c)'
      BY <2>1, <2>2, <2>3 DEF OwnerInv, OneOwner, OwnedBy, TypeOK, Ptr
    <3>2. \A u, v \in Thread, c \in Ctx : OwnedBy(u, c)' /\ OwnedBy(v, c)' => u = v
      BY <2>1, <2>2, <2>3 DEF OwnerInv, OneOwner, OwnedBy, TypeOK, Ptr
    <3>3. \A u \in Thread : /\ held'[u] # None => held'[u] # nq'[u] /\ held'[u] # newq'[u]
                            /\ nq'[u] # None => nq'[u] # newq'[u]
      BY <2>1, <2>2, <2>3 DEF OwnerInv, OneOwner, OwnedBy, TypeOK, Ptr
    <3>. QED BY <2>2, <3>1, <3>2, <3>3 DEF OneOwner
  <2>5. \A c \in Ctx : Owned(c)' <=> Owned(c)
    BY <2>1, <2>2, <2>3 DEF Owned, OwnedBy, TypeOK, Ptr
  <2>. QED BY <1>18, <2>4, <2>5, OwnersMoved DEF PushBack
<1>19. ASSUME NEW t \in Thread, MqReleaseLater(t) PROVE OwnerInv'
  <2>. DEFINE q == DropQueue(t)
  <2>1. q \in Ctx /\ OwnedBy(t, q)
    BY <1>19, DropQueueLive DEF MqReleaseLater, At
  <2>2. ~InQ(q) /\ Q' = Append(Q, q) /\ QDistinct
    BY <1>19, <2>1 DEF MqReleaseLater, OwnerInv, OneOwner
  <2>3. QDistinct' /\ \A c \in Ctx : InQ(c)' <=> InQ(c) \/ c = q
    BY <2>1, <2>2, QAppend DEF TypeOK
  <2>4. \/ q = newq[t] /\ newq' = [newq EXCEPT ![t] = None] /\ UNCHANGED <<held, nq>>
        \/ q = held[t] /\ held' = [held EXCEPT ![t] = None] /\ UNCHANGED <<newq, nq>>
    BY <1>19 DEF MqReleaseLater, GiveUpQueue, DropQueue
  <2>. HIDE DEF q
  <2>5. OneOwner'
    <3>1. CASE q = newq[t] /\ newq' = [newq EXCEPT ![t] = None] /\ UNCHANGED <<held, nq>>
      BY SMTT(40), <2>1, <2>2, <2>3, <3>1 DEF OwnerInv, OneOwner, OwnedBy, TypeOK, Ptr
    <3>2. CASE q = held[t] /\ held' = [held EXCEPT ![t] = None] /\ UNCHANGED <<newq, nq>>
      BY SMTT(40), <2>1, <2>2, <2>3, <3>2 DEF OwnerInv, OneOwner, OwnedBy, TypeOK, Ptr
    <3>. QED BY <2>4, <3>1, <3>2
  <2>6. \A c \in Ctx : Owned(c)' <=> Owned(c)
    BY <2>1, <2>3, <2>4 DEF Owned, OwnedBy, TypeOK, Ptr
  <2>. QED BY <1>19, <2>5, <2>6, OwnersMoved DEF MqReleaseLater
<1>20. ASSUME NEW t \in Thread, MqReleaseNow(t) PROVE OwnerInv'
  BY <1>20, OwnersUntouched DEF MqReleaseNow
<1>21. ASSUME NEW t \in Thread, DropMessage(t) PROVE OwnerInv'
  <2>1. DropQueue(t) \in Ctx /\ Owned(DropQueue(t))
    BY <1>21, DropQueueLive DEF DropMessage, At, Owned
  <2>. QED BY <1>21, <2>1, OwnersUntouched DEF DropMessage, TypeOK
<1>22. ASSUME NEW t \in Thread, DropDone(t) PROVE OwnerInv'
  <2>0. PICK q \in Ctx : q = DropQueue(t)
    BY <1>22, Locals DEF DropDone
  <2>1. q \in Ctx
    BY <1>22, <2>0, Locals DEF DropDone
  <2>2. \/ q = held[t] /\ held' = [held EXCEPT ![t] = None] /\ UNCHANGED newq
        \/ q = newq[t] /\ newq' = [newq EXCEPT ![t] = None] /\ UNCHANGED held
    BY <1>22, <2>0 DEF DropDone, GiveUpQueue, DropQueue
  <2>3. /\ inGlobal' = [inGlobal EXCEPT ![q] = FALSE]
        /\ mqlife' = [mqlife EXCEPT ![q] = "freed"]
        /\ UNCHANGED <<Q, nq, mq, release>>
    BY <1>22, <2>0 DEF DropDone
  <2>4. OneOwner' /\ ~Owned(q)' /\ \A d \in Ctx \ {q} : Owned(d)' <=> Owned(d)
    BY <2>1, <2>2, <2>3, OwnerLeft
  <2>5. \A d \in Ctx \ {q} : /\ mq'[d] = mq[d] /\ mqlife'[d] = mqlife[d]
                              /\ inGlobal'[d] = inGlobal[d] /\ release'[d] = release[d]
    BY <2>1, <2>3 DEF TypeOK
  <2>6. mqlife'[q] = "freed"
    BY <2>1, <2>3 DEF TypeOK
  <2>. QED BY <2>1, <2>4, <2>5, <2>6, OwnersOfOthersKept
<1>23. ASSUME NEW t \in Thread, NEW c \in Ctx, Send(t, c) PROVE OwnerInv'
  BY <1>23, OwnersUntouched DEF Send
<1>24. ASSUME NEW t \in Thread, NEW c \in Ctx, Touch(t, c) PROVE OwnerInv'
  BY <1>24, OwnersUntouched DEF Touch
<1>25. ASSUME NEW t \in Thread, NEW c \in Ctx, Kill(t, c) PROVE OwnerInv'
  BY <1>25, OwnersUntouched DEF Kill
<1>26. ASSUME NEW t \in Thread, NEW c \in Ctx, Launch(t, c) PROVE OwnerInv'
  <2>1. mqlife[c] = "none" /\ newq[t] = None
    BY <1>26 DEF Launch, IndInv, LifeInv, ControlInv, Control, At, Launching
  <2>2. ~Owned(c)
    BY <2>1 DEF OwnerInv
  <2>3. /\ newq' = [newq EXCEPT ![t] = c]
        /\ inGlobal' = [inGlobal EXCEPT ![c] = TRUE]
        /\ mqlife' = [mqlife EXCEPT ![c] = "live"]
        /\ UNCHANGED <<Q, held, nq, mq, release>>
    BY <1>26 DEF Launch
  <2>4. (\A d \in Ctx : InQ(d)' <=> InQ(d)) /\ QDistinct'
    BY <2>3 DEF InQ, OwnerInv, OneOwner, QDistinct
  <2>5. OneOwner'
    BY <2>1, <2>2, <2>3, <2>4 DEF OwnerInv, OneOwner, OwnedBy, Owned, TypeOK, Ptr
  <2>6. \A d \in Ctx : Owned(d)' <=> Owned(d) \/ d = c
    BY <2>1, <2>3, <2>4 DEF Owned, OwnedBy, TypeOK, Ptr
  <2>7. \A d \in Ctx \ {c} : /\ mq'[d] = mq[d] /\ mqlife'[d] = mqlife[d]
                              /\ inGlobal'[d] = inGlobal[d] /\ release'[d] = release[d]
    BY <2>3 DEF TypeOK
  <2>8. mqlife'[c] = "live" /\ inGlobal'[c]
    BY <2>3 DEF TypeOK
  <2>. QED BY <2>5, <2>6, <2>7, <2>8, OwnersOfOthersKept
<1>27. CASE UNCHANGED vars
  BY <1>27, OwnersUntouched DEF vars
<1>. QED
  BY <1>1, <1>2, <1>3, <1>4, <1>5, <1>6, <1>7, <1>8, <1>9, <1>10, <1>11, <1>12, <1>13, <1>14,
     <1>15, <1>16, <1>17, <1>18, <1>19, <1>20, <1>21, <1>22, <1>23, <1>24, <1>25, <1>26, <1>27
     DEF Next, Progress, UserCode

\* A step that grabs nothing and ends no launch keeps the services initialised.
LEMMA InitKept ==
    ASSUME TypeOK, InitInv, UNCHANGED inited, slot' \subseteq slot,
           \A t \in Thread : cur'[t] \in {cur[t], None},
           \A t \in Thread : At(t) \in {"init", "setinit", "failretire"} =>
              \/ At(t)' \in {"init", "setinit", "failretire"} /\ newq'[t] = newq[t]
              \/ newq[t] \notin slot'
    PROVE  InitInv'
<1>1. InitBeforeDispatch'
  BY DEF InitInv, InitBeforeDispatch
<1>2. ASSUME NEW c \in slot', ~inited'[c]
      PROVE  \E t \in Thread : newq'[t] = c /\ At(t)' \in {"init", "setinit", "failretire"}
  <2>1. PICK t \in Thread : newq[t] = c /\ At(t) \in {"init", "setinit", "failretire"}
    BY <1>2 DEF InitInv
  <2>. QED BY <2>1, <1>2
<1>. QED
  BY <1>1, <1>2 DEF InitInv

\* Every step keeps every dispatched service initialised.
LEMMA InitStep == IndInv /\ [Next]_vars => InitInv'
<1>. SUFFICES ASSUME IndInv, [Next]_vars PROVE InitInv'
  OBVIOUS
<1>0. TypeOK /\ ControlInv /\ InitInv
  BY DEF IndInv
<1>. USE ServerAssumption, <1>0
     DEF ctxVars, queueVars, dispatchVars, launchVars, Goto
<1>1. ASSUME NEW t \in Thread, ContextRelease(t) PROVE InitInv'
  <2>1. UNCHANGED <<inited, slot, cur, newq, ret>> /\ pc[t] = "rel"
    BY <1>1 DEF ContextRelease
  <2>2. pc' = [pc EXCEPT ![t] = "del"] \/ pc' = [pc EXCEPT ![t] = ret[t]]
    BY <1>1 DEF ContextRelease
  <2>3. \A u \in Thread : At(u)' = At(u)
    BY <2>1, <2>2 DEF At, TypeOK, ControlInv, Control, ReturnPoint, Running
  <2>. QED BY <2>1, <2>3, InitKept
<1>2. ASSUME NEW t \in Thread, DeleteContext(t) PROVE InitInv'
  <2>1. UNCHANGED <<inited, slot, cur, newq, ret>> /\ pc[t] = "del"
        /\ pc' = [pc EXCEPT ![t] = IF ret[t] = "setinit" THEN "newpush" ELSE ret[t]]
    BY <1>2 DEF DeleteContext
  <2>2. dead[t] \in Ctx /\ dead[t] \notin slot
    <3>1. dead[t] \in Ctx /\ ref[dead[t]] = 0
      BY <2>1, Locals DEF IndInv, LifeInv
    <3>. QED BY <3>1, Held
  <2>3. \A u \in Thread : At(u) \in {"init", "setinit", "failretire"} =>
           \/ At(u)' = At(u)
           \/ newq[u] \notin slot'
    BY <2>1, <2>2 DEF At, TypeOK, ControlInv, Control, ReturnPoint, Running
  <2>. QED BY <2>1, <2>3, InitKept
<1>3. ASSUME NEW t \in Thread, MqPush(t) PROVE InitInv'
  <2>1. \A u \in Thread : At(u) \in {"init", "setinit", "failretire"} =>
           At(u)' \in {"init", "setinit", "failretire"} /\ newq'[u] = newq[u]
    BY <1>3 DEF MqPush, At, TypeOK, ControlInv, Control, ReturnPoint, Running
  <2>2. UNCHANGED inited /\ slot' \subseteq slot /\ \A u \in Thread : cur'[u] \in {cur[u], None}
    BY <1>3 DEF MqPush, TypeOK
  <2>. QED BY <2>1, <2>2, InitKept
<1>4. ASSUME NEW t \in Thread, InitOk(t) PROVE InitInv'
  <2>1. \A u \in Thread : At(u) \in {"init", "setinit", "failretire"} =>
           At(u)' \in {"init", "setinit", "failretire"} /\ newq'[u] = newq[u]
    BY <1>4 DEF InitOk, CallRelease, At, TypeOK, ControlInv, Control, ReturnPoint, Running
  <2>2. UNCHANGED inited /\ slot' \subseteq slot /\ \A u \in Thread : cur'[u] \in {cur[u], None}
    BY <1>4 DEF InitOk, TypeOK
  <2>. QED BY <2>1, <2>2, InitKept
<1>5. ASSUME NEW t \in Thread, SetInit(t) PROVE InitInv'
  <2>1. /\ inited' = [inited EXCEPT ![newq[t]] = TRUE] /\ UNCHANGED <<slot, cur, newq, ret>>
        /\ pc' = [pc EXCEPT ![t] = "newpush"] /\ newq[t] \in Ctx
    BY <1>5, Locals DEF SetInit
  <2>2. \A c \in Ctx : inited[c] => inited'[c]
    BY <2>1 DEF TypeOK
  <2>3. inited'[newq[t]]
    BY <2>1 DEF TypeOK
  <2>4. \A u \in Thread : u # t => At(u)' = At(u)
    BY <2>1 DEF At, TypeOK
  <2>5. InitBeforeDispatch'
    BY <2>1, <2>2, Held DEF InitInv, InitBeforeDispatch
  <2>6. ASSUME NEW c \in slot', ~inited'[c]
        PROVE  \E u \in Thread : newq'[u] = c /\ At(u)' \in {"init", "setinit", "failretire"}
    <3>1. c \in slot /\ ~inited[c] /\ c # newq[t]
      BY <2>1, <2>2, <2>3, <2>6 DEF TypeOK
    <3>2. PICK u \in Thread : newq[u] = c /\ At(u) \in {"init", "setinit", "failretire"}
      BY <3>1 DEF InitInv
    <3>. QED BY <2>1, <2>4, <3>1, <3>2
  <2>. QED BY <2>5, <2>6 DEF InitInv
<1>6. ASSUME NEW t \in Thread, NewPush(t) PROVE InitInv'
  <2>1. \A u \in Thread : At(u) \in {"init", "setinit", "failretire"} =>
           At(u)' \in {"init", "setinit", "failretire"} /\ newq'[u] = newq[u]
    BY <1>6 DEF NewPush, At, TypeOK, ControlInv, Control, ReturnPoint, Running
  <2>2. UNCHANGED inited /\ slot' \subseteq slot /\ \A u \in Thread : cur'[u] \in {cur[u], None}
    BY <1>6 DEF NewPush, TypeOK
  <2>. QED BY <2>1, <2>2, InitKept
<1>7. ASSUME NEW t \in Thread, InitFail(t) PROVE InitInv'
  <2>1. \A u \in Thread : At(u) \in {"init", "setinit", "failretire"} =>
           At(u)' \in {"init", "setinit", "failretire"} /\ newq'[u] = newq[u]
    BY <1>7 DEF InitFail, CallRelease, At, TypeOK, ControlInv, Control, ReturnPoint, Running
  <2>2. UNCHANGED inited /\ slot' \subseteq slot /\ \A u \in Thread : cur'[u] \in {cur[u], None}
    BY <1>7 DEF InitFail, TypeOK
  <2>. QED BY <2>1, <2>2, InitKept
<1>8. ASSUME NEW t \in Thread, FailRetire(t) PROVE InitInv'
  <2>1. /\ UNCHANGED <<inited, cur, newq>> /\ slot' \subseteq slot
        /\ newq[t] \notin slot' /\ \A u \in Thread : u # t => pc'[u] = pc[u] /\ ret'[u] = ret[u]
    BY <1>8 DEF FailRetire, CallRelease, TypeOK
  <2>2. \A u \in Thread : u # t => At(u)' = At(u)
    BY <2>1 DEF At
  <2>. QED BY <2>1, <2>2, InitKept
<1>9. ASSUME NEW t \in Thread, GlobalPop(t) PROVE InitInv'
  <2>1. \A u \in Thread : At(u) \in {"init", "setinit", "failretire"} =>
           At(u)' \in {"init", "setinit", "failretire"} /\ newq'[u] = newq[u]
    BY <1>9 DEF GlobalPop, At, TypeOK, ControlInv, Control, ReturnPoint, Running
  <2>2. UNCHANGED inited /\ slot' \subseteq slot /\ \A u \in Thread : cur'[u] \in {cur[u], None}
    BY <1>9 DEF GlobalPop, TypeOK
  <2>. QED BY <2>1, <2>2, InitKept
<1>10. ASSUME NEW t \in Thread, KeepQueue(t) PROVE InitInv'
  <2>1. \A u \in Thread : At(u) \in {"init", "setinit", "failretire"} =>
           At(u)' \in {"init", "setinit", "failretire"} /\ newq'[u] = newq[u]
    BY <1>10 DEF KeepQueue, At, TypeOK, ControlInv, Control, ReturnPoint, Running
  <2>2. UNCHANGED inited /\ slot' \subseteq slot /\ \A u \in Thread : cur'[u] \in {cur[u], None}
    BY <1>10 DEF KeepQueue, TypeOK
  <2>. QED BY <2>1, <2>2, InitKept
<1>11. ASSUME NEW t \in Thread, DispatchGrab(t) PROVE InitInv'
  <2>1. UNCHANGED <<inited, slot, newq, ret>> /\ pc[t] = "grab" /\ held[t] \in Ctx
    BY <1>11, Locals DEF DispatchGrab
  <2>2. \A u \in Thread : At(u) \in {"init", "setinit", "failretire"} => At(u)' = At(u)
    BY <1>11, <2>1 DEF DispatchGrab, At, TypeOK
  <2>3. CASE held[t] \in slot
    <3>1. inited[held[t]]
      <4>1. \A u \in Thread : newq[u] # held[t]
        BY <2>1 DEF IndInv, OwnerInv, OneOwner, OwnedBy
      <4>. QED BY <2>3, <4>1 DEF InitInv
    <3>2. cur' = [cur EXCEPT ![t] = held[t]]
      BY <1>11, <2>3 DEF DispatchGrab
    <3>3. InitBeforeDispatch'
      BY <2>1, <3>1, <3>2 DEF InitInv, InitBeforeDispatch, TypeOK
    <3>4. ASSUME NEW c \in slot', ~inited'[c]
          PROVE  \E u \in Thread : newq'[u] = c /\ At(u)' \in {"init", "setinit", "failretire"}
      BY <2>1, <2>2, <3>4 DEF InitInv
    <3>. QED BY <3>3, <3>4 DEF InitInv
  <2>4. CASE held[t] \notin slot
    <3>1. UNCHANGED cur
      BY <1>11, <2>4 DEF DispatchGrab
    <3>. QED BY <2>1, <2>2, <3>1, InitKept
  <2>. QED BY <2>3, <2>4
<1>12. ASSUME NEW t \in Thread, PopEmpty(t) PROVE InitInv'
  <2>1. \A u \in Thread : At(u) \in {"init", "setinit", "failretire"} =>
           At(u)' \in {"init", "setinit", "failretire"} /\ newq'[u] = newq[u]
    BY <1>12 DEF PopEmpty, CallRelease, At, TypeOK, ControlInv, Control, ReturnPoint, Running
  <2>2. UNCHANGED inited /\ slot' \subseteq slot /\ \A u \in Thread : cur'[u] \in {cur[u], None}
    BY <1>12 DEF PopEmpty, TypeOK
  <2>. QED BY <2>1, <2>2, InitKept
<1>13. ASSUME NEW t \in Thread, PopMessage(t) PROVE InitInv'
  <2>1. \A u \in Thread : At(u) \in {"init", "setinit", "failretire"} =>
           At(u)' \in {"init", "setinit", "failretire"} /\ newq'[u] = newq[u]
    BY <1>13 DEF PopMessage, At, TypeOK, ControlInv, Control, ReturnPoint, Running
  <2>2. UNCHANGED inited /\ slot' \subseteq slot /\ \A u \in Thread : cur'[u] \in {cur[u], None}
    BY <1>13 DEF PopMessage, TypeOK
  <2>. QED BY <2>1, <2>2, InitKept
<1>14. ASSUME NEW t \in Thread, Weigh(t) PROVE InitInv'
  <2>1. \A u \in Thread : At(u) \in {"init", "setinit", "failretire"} =>
           At(u)' \in {"init", "setinit", "failretire"} /\ newq'[u] = newq[u]
    BY <1>14 DEF Weigh, At, TypeOK, ControlInv, Control, ReturnPoint, Running
  <2>2. UNCHANGED inited /\ slot' \subseteq slot /\ \A u \in Thread : cur'[u] \in {cur[u], None}
    BY <1>14 DEF Weigh, TypeOK
  <2>. QED BY <2>1, <2>2, InitKept
<1>15. ASSUME NEW t \in Thread, CallbackDone(t) PROVE InitInv'
  <2>1. \A u \in Thread : At(u) \in {"init", "setinit", "failretire"} =>
           At(u)' \in {"init", "setinit", "failretire"} /\ newq'[u] = newq[u]
    BY <1>15 DEF CallbackDone, At, TypeOK, ControlInv, Control, ReturnPoint, Running
  <2>2. UNCHANGED inited /\ slot' \subseteq slot /\ \A u \in Thread : cur'[u] \in {cur[u], None}
    BY <1>15 DEF CallbackDone, TypeOK
  <2>. QED BY <2>1, <2>2, InitKept
<1>16. ASSUME NEW t \in Thread, YieldKeep(t) PROVE InitInv'
  <2>1. \A u \in Thread : At(u) \in {"init", "setinit", "failretire"} =>
           At(u)' \in {"init", "setinit", "failretire"} /\ newq'[u] = newq[u]
    BY <1>16 DEF YieldKeep, CallRelease, At, TypeOK, ControlInv, Control, ReturnPoint, Running
  <2>2. UNCHANGED inited /\ slot' \subseteq slot /\ \A u \in Thread : cur'[u] \in {cur[u], None}
    BY <1>16 DEF YieldKeep, TypeOK
  <2>. QED BY <2>1, <2>2, InitKept
<1>17. ASSUME NEW t \in Thread, YieldTake(t) PROVE InitInv'
  <2>1. \A u \in Thread : At(u) \in {"init", "setinit", "failretire"} =>
           At(u)' \in {"init", "setinit", "failretire"} /\ newq'[u] = newq[u]
    BY <1>17 DEF YieldTake, At, TypeOK, ControlInv, Control, ReturnPoint, Running
  <2>2. UNCHANGED inited /\ slot' \subseteq slot /\ \A u \in Thread : cur'[u] \in {cur[u], None}
    BY <1>17 DEF YieldTake, TypeOK
  <2>. QED BY <2>1, <2>2, InitKept
<1>18. ASSUME NEW t \in Thread, PushBack(t) PROVE InitInv'
  <2>1. \A u \in Thread : At(u) \in {"init", "setinit", "failretire"} =>
           At(u)' \in {"init", "setinit", "failretire"} /\ newq'[u] = newq[u]
    BY <1>18 DEF PushBack, CallRelease, At, TypeOK, ControlInv, Control, ReturnPoint, Running
  <2>2. UNCHANGED inited /\ slot' \subseteq slot /\ \A u \in Thread : cur'[u] \in {cur[u], None}
    BY <1>18 DEF PushBack, TypeOK
  <2>. QED BY <2>1, <2>2, InitKept
<1>19. ASSUME NEW t \in Thread, MqReleaseLater(t) PROVE InitInv'
  <2>1. GiveUpQueue(t) /\ UNCHANGED <<inited, slot, cur, ret>> /\ pc[t] \in {"mqrel", "drop"}
    BY <1>19 DEF MqReleaseLater
  <2>2. \A u \in Thread : u # t => pc'[u] = pc[u] /\ newq'[u] = newq[u]
    BY <2>1 DEF GiveUpQueue, TypeOK
  <2>3. \A u \in Thread : At(u) \in {"init", "setinit", "failretire"} =>
           At(u)' \in {"init", "setinit", "failretire"} /\ newq'[u] = newq[u]
    BY <2>1, <2>2 DEF At
  <2>. QED BY <2>1, <2>3, InitKept
<1>20. ASSUME NEW t \in Thread, MqReleaseNow(t) PROVE InitInv'
  <2>1. \A u \in Thread : At(u) \in {"init", "setinit", "failretire"} =>
           At(u)' \in {"init", "setinit", "failretire"} /\ newq'[u] = newq[u]
    BY <1>20 DEF MqReleaseNow, At, TypeOK, ControlInv, Control, ReturnPoint, Running
  <2>2. UNCHANGED inited /\ slot' \subseteq slot /\ \A u \in Thread : cur'[u] \in {cur[u], None}
    BY <1>20 DEF MqReleaseNow, TypeOK
  <2>. QED BY <2>1, <2>2, InitKept
<1>21. ASSUME NEW t \in Thread, DropMessage(t) PROVE InitInv'
  <2>1. UNCHANGED <<inited, slot, cur, newq>> /\ pc[t] = "drop"
    BY <1>21 DEF DropMessage
  <2>2. \A u \in Thread : u # t => pc'[u] = pc[u] /\ ret'[u] = ret[u]
    BY <1>21 DEF DropMessage, TypeOK
  <2>3. \A u \in Thread : At(u) \in {"init", "setinit", "failretire"} =>
           At(u)' \in {"init", "setinit", "failretire"} /\ newq'[u] = newq[u]
    BY <2>1, <2>2 DEF At
  <2>. QED BY <2>1, <2>3, InitKept
<1>22. ASSUME NEW t \in Thread, DropDone(t) PROVE InitInv'
  <2>1. GiveUpQueue(t) /\ UNCHANGED <<inited, slot, cur, ret>> /\ pc[t] \in {"mqrel", "drop"}
    BY <1>22 DEF DropDone
  <2>2. \A u \in Thread : u # t => pc'[u] = pc[u] /\ newq'[u] = newq[u]
    BY <2>1 DEF GiveUpQueue, TypeOK
  <2>3. \A u \in Thread : At(u) \in {"init", "setinit", "failretire"} =>
           At(u)' \in {"init", "setinit", "failretire"} /\ newq'[u] = newq[u]
    BY <2>1, <2>2 DEF At
  <2>. QED BY <2>1, <2>3, InitKept
<1>23. ASSUME NEW t \in Thread, NEW c \in Ctx, Send(t, c) PROVE InitInv'
  <2>1. \A u \in Thread : At(u) \in {"init", "setinit", "failretire"} =>
           At(u)' \in {"init", "setinit", "failretire"} /\ newq'[u] = newq[u]
    BY <1>23 DEF Send, UserOp, GrabInto, At, TypeOK, ControlInv, Control, ReturnPoint, Running
  <2>2. UNCHANGED inited /\ slot' \subseteq slot /\ \A u \in Thread : cur'[u] \in {cur[u], None}
    BY <1>23 DEF Send, TypeOK
  <2>. QED BY <2>1, <2>2, InitKept
<1>24. ASSUME NEW t \in Thread, NEW c \in Ctx, Touch(t, c) PROVE InitInv'
  <2>1. \A u \in Thread : At(u) \in {"init", "setinit", "failretire"} =>
           At(u)' \in {"init", "setinit", "failretire"} /\ newq'[u] = newq[u]
    BY <1>24 DEF Touch, UserOp, GrabInto, At, TypeOK, ControlInv, Control, ReturnPoint, Running
  <2>2. UNCHANGED inited /\ slot' \subseteq slot /\ \A u \in Thread : cur'[u] \in {cur[u], None}
    BY <1>24 DEF Touch, TypeOK
  <2>. QED BY <2>1, <2>2, InitKept
<1>25. ASSUME NEW t \in Thread, NEW c \in Ctx, Kill(t, c) PROVE InitInv'
  <2>1. \A u \in Thread : At(u) \in {"init", "setinit", "failretire"} =>
           At(u)' \in {"init", "setinit", "failretire"} /\ newq'[u] = newq[u]
    BY <1>25 DEF Kill, UserOp, CallRelease, At, TypeOK, ControlInv, Control, ReturnPoint, Running
  <2>2. UNCHANGED inited /\ slot' \subseteq slot /\ \A u \in Thread : cur'[u] \in {cur[u], None}
    BY <1>25 DEF Kill, TypeOK
  <2>. QED BY <2>1, <2>2, InitKept
<1>26. ASSUME NEW t \in Thread, NEW c \in Ctx, Launch(t, c) PROVE InitInv'
  <2>1. /\ slot' = slot \cup {c} /\ UNCHANGED <<inited, cur, ret>> /\ pc[t] = "cb"
        /\ newq' = [newq EXCEPT ![t] = c] /\ pc' = [pc EXCEPT ![t] = "init"]
    BY <1>26 DEF Launch
  <2>2. \A u \in Thread : At(u) \in {"init", "setinit", "failretire"} =>
           u # t /\ At(u)' = At(u) /\ newq'[u] = newq[u]
    BY <2>1 DEF At, TypeOK
  <2>3. newq'[t] = c /\ At(t)' = "init"
    BY <2>1 DEF At, TypeOK
  <2>4. InitBeforeDispatch'
    BY <2>1 DEF InitInv, InitBeforeDispatch
  <2>5. ASSUME NEW d \in slot', ~inited'[d]
        PROVE  \E u \in Thread : newq'[u] = d /\ At(u)' \in {"init", "setinit", "failretire"}
    <3>1. CASE d = c
      BY <2>3, <3>1
    <3>2. CASE d # c
      BY <2>1, <2>2, <2>5, <3>2 DEF InitInv
    <3>. QED BY <3>1, <3>2
  <2>. QED BY <2>4, <2>5 DEF InitInv
<1>27. CASE UNCHANGED vars
  <2>1. UNCHANGED <<inited, slot, cur, newq>> /\ \A u \in Thread : At(u)' = At(u)
    BY <1>27 DEF vars, At
  <2>. QED BY <2>1, InitKept
<1>. QED
  BY <1>1, <1>2, <1>3, <1>4, <1>5, <1>6, <1>7, <1>8, <1>9, <1>10, <1>11, <1>12, <1>13, <1>14,
     <1>15, <1>16, <1>17, <1>18, <1>19, <1>20, <1>21, <1>22, <1>23, <1>24, <1>25, <1>26, <1>27
     DEF Next, Progress, UserCode

\* A step that adds no message keeps the error reports from retired services.
LEMMA ErrorsKept ==
    ASSUME ErrorInv, slot' \subseteq slot, \A d \in Ctx : life[d] # "none" => life'[d] # "none",
           \A c \in Ctx : \A i \in 1..Len(mq'[c]) : \E j \in 1..Len(mq[c]) : mq'[c][i] = mq[c][j]
    PROVE  ErrorInv'
<1>. SUFFICES ASSUME NEW c \in Ctx, NEW i \in 1..Len(mq'[c]), mq'[c][i].err
              PROVE  mq'[c][i].src \in Ctx \ slot' /\ life'[mq'[c][i].src] # "none"
  BY DEF ErrorInv
<1>1. PICK j \in 1..Len(mq[c]) : mq'[c][i] = mq[c][j]
  OBVIOUS
<1>2. mq[c][j].src \in Ctx \ slot /\ life[mq[c][j].src] # "none"
  BY <1>1 DEF ErrorInv
<1>. QED
  BY <1>1, <1>2

\* Taking a message out of a queue keeps the error reports.
LEMMA ErrorsKeptByPop ==
    ASSUME TypeOK, ErrorInv, UNCHANGED <<slot, life>>, NEW q \in Ctx, mq[q] # <<>>,
           mq' = [mq EXCEPT ![q] = Tail(mq[q])]
    PROVE  ErrorInv'
<1>1. /\ mq[q] \in Seq(Msg) /\ Len(mq[q]) \in Nat /\ Len(mq'[q]) = Len(mq[q]) - 1
      /\ \A i \in 1..Len(mq[q]) - 1 : mq'[q][i] = mq[q][i + 1]
      /\ \A c \in Ctx \ {q} : mq'[c] = mq[c]
  BY DEF TypeOK
<1>2. \A c \in Ctx : \A i \in 1..Len(mq'[c]) : \E j \in 1..Len(mq[c]) : mq'[c][i] = mq[c][j]
  <2>1. ASSUME NEW i \in 1..Len(mq'[q]) PROVE \E j \in 1..Len(mq[q]) : mq'[q][i] = mq[q][j]
    <3>1. i + 1 \in 1..Len(mq[q]) /\ mq'[q][i] = mq[q][i + 1]
      BY <1>1
    <3>. QED BY <3>1
  <2>. QED BY <1>1, <2>1
<1>. QED
  BY <1>2, ErrorsKept

\* Every step keeps every error report naming a retired service.
LEMMA ErrorStep == IndInv /\ [Next]_vars => ErrorInv'
<1>. SUFFICES ASSUME IndInv, [Next]_vars PROVE ErrorInv'
  OBVIOUS
<1>0. TypeOK /\ LifeInv /\ ErrorInv
  BY DEF IndInv
<1>. USE ServerAssumption, <1>0
     DEF ctxVars, queueVars, dispatchVars, launchVars, Goto
<1>1. ASSUME NEW t \in Thread, ContextRelease(t) PROVE ErrorInv'
  BY <1>1, ErrorsKept DEF ContextRelease
<1>2. ASSUME NEW t \in Thread, DeleteContext(t) PROVE ErrorInv'
  <2>1. UNCHANGED <<slot, mq>> /\ \A d \in Ctx : life[d] # "none" => life'[d] # "none"
    BY <1>2 DEF DeleteContext, TypeOK
  <2>. QED BY <2>1, ErrorsKept
<1>3. ASSUME NEW t \in Thread, MqPush(t) PROVE ErrorInv'
  <2>. DEFINE m == [src |-> Source(t), err |-> ret[t] = "drop"]
  <2>1. dst[t] \in Ctx /\ UNCHANGED <<slot, life>> /\ pc[t] = "spush"
        /\ mq' = [mq EXCEPT ![dst[t]] = Append(mq[dst[t]], m)]
    BY <1>3, Locals DEF MqPush
  <2>2. m.err => Source(t) \in Ctx \ slot /\ life[Source(t)] # "none"
    <3>. SUFFICES ASSUME ret[t] = "drop"
                  PROVE  Source(t) \in Ctx \ slot /\ life[Source(t)] # "none"
      OBVIOUS
    <3>1. At(t) = "drop" /\ Source(t) = DropQueue(t)
      BY <2>1 DEF At, Source
    <3>. QED BY <3>1, DropQueueLive DEF IndInv, DropInv
  <2>. SUFFICES ASSUME NEW d \in Ctx, NEW i \in 1..Len(mq'[d]), mq'[d][i].err
                PROVE  mq'[d][i].src \in Ctx \ slot /\ life[mq'[d][i].src] # "none"
    BY <2>1 DEF ErrorInv
  <2>3. mq[d] \in Seq(Msg) /\ Len(mq[d]) \in Nat
    BY DEF TypeOK
  <2>4. CASE i \in 1..Len(mq[d]) /\ mq'[d][i] = mq[d][i]
    BY <2>4 DEF ErrorInv
  <2>5. CASE mq'[d][i] = m
    BY <2>2, <2>5
  <2>6. \/ i \in 1..Len(mq[d]) /\ mq'[d][i] = mq[d][i]
        \/ mq'[d][i] = m
    <3>1. CASE d = dst[t]
      <4>. HIDE DEF m
      <4>1. mq'[d] = Append(mq[d], m)
        BY <2>1, <3>1 DEF TypeOK
      <4>. QED BY <2>3, <4>1
    <3>2. CASE d # dst[t]
      BY <2>1, <3>2 DEF TypeOK
    <3>. QED BY <3>1, <3>2
  <2>. QED BY <2>4, <2>5, <2>6
<1>4. ASSUME NEW t \in Thread, InitOk(t) PROVE ErrorInv'
  BY <1>4, ErrorsKept DEF InitOk
<1>5. ASSUME NEW t \in Thread, SetInit(t) PROVE ErrorInv'
  BY <1>5, ErrorsKept DEF SetInit
<1>6. ASSUME NEW t \in Thread, NewPush(t) PROVE ErrorInv'
  BY <1>6, ErrorsKept DEF NewPush
<1>7. ASSUME NEW t \in Thread, InitFail(t) PROVE ErrorInv'
  BY <1>7, ErrorsKept DEF InitFail
<1>8. ASSUME NEW t \in Thread, FailRetire(t) PROVE ErrorInv'
  <2>1. UNCHANGED <<life, mq>> /\ slot' \subseteq slot
    BY <1>8 DEF FailRetire
  <2>. QED BY <2>1, ErrorsKept
<1>9. ASSUME NEW t \in Thread, GlobalPop(t) PROVE ErrorInv'
  BY <1>9, ErrorsKept DEF GlobalPop
<1>10. ASSUME NEW t \in Thread, KeepQueue(t) PROVE ErrorInv'
  BY <1>10, ErrorsKept DEF KeepQueue
<1>11. ASSUME NEW t \in Thread, DispatchGrab(t) PROVE ErrorInv'
  BY <1>11, ErrorsKept DEF DispatchGrab
<1>12. ASSUME NEW t \in Thread, PopEmpty(t) PROVE ErrorInv'
  BY <1>12, ErrorsKept DEF PopEmpty
<1>13. ASSUME NEW t \in Thread, PopMessage(t) PROVE ErrorInv'
  <2>1. held[t] \in Ctx
    BY <1>13, Locals DEF PopMessage
  <2>. QED BY <1>13, <2>1, ErrorsKeptByPop DEF PopMessage
<1>14. ASSUME NEW t \in Thread, Weigh(t) PROVE ErrorInv'
  BY <1>14, ErrorsKept DEF Weigh
<1>15. ASSUME NEW t \in Thread, CallbackDone(t) PROVE ErrorInv'
  BY <1>15, ErrorsKept DEF CallbackDone
<1>16. ASSUME NEW t \in Thread, YieldKeep(t) PROVE ErrorInv'
  BY <1>16, ErrorsKept DEF YieldKeep
<1>17. ASSUME NEW t \in Thread, YieldTake(t) PROVE ErrorInv'
  BY <1>17, ErrorsKept DEF YieldTake
<1>18. ASSUME NEW t \in Thread, PushBack(t) PROVE ErrorInv'
  BY <1>18, ErrorsKept DEF PushBack
<1>19. ASSUME NEW t \in Thread, MqReleaseLater(t) PROVE ErrorInv'
  BY <1>19, ErrorsKept DEF MqReleaseLater
<1>20. ASSUME NEW t \in Thread, MqReleaseNow(t) PROVE ErrorInv'
  BY <1>20, ErrorsKept DEF MqReleaseNow
<1>21. ASSUME NEW t \in Thread, DropMessage(t) PROVE ErrorInv'
  <2>1. DropQueue(t) \in Ctx
    BY <1>21, Locals DEF DropMessage
  <2>. QED BY <1>21, <2>1, ErrorsKeptByPop DEF DropMessage
<1>22. ASSUME NEW t \in Thread, DropDone(t) PROVE ErrorInv'
  BY <1>22, ErrorsKept DEF DropDone
<1>23. ASSUME NEW t \in Thread, NEW c \in Ctx, Send(t, c) PROVE ErrorInv'
  BY <1>23, ErrorsKept DEF Send
<1>24. ASSUME NEW t \in Thread, NEW c \in Ctx, Touch(t, c) PROVE ErrorInv'
  BY <1>24, ErrorsKept DEF Touch
<1>25. ASSUME NEW t \in Thread, NEW c \in Ctx, Kill(t, c) PROVE ErrorInv'
  <2>1. UNCHANGED <<life, mq>> /\ slot' \subseteq slot
    BY <1>25 DEF Kill
  <2>. QED BY <2>1, ErrorsKept
<1>26. ASSUME NEW t \in Thread, NEW c \in Ctx, Launch(t, c) PROVE ErrorInv'
  <2>1. /\ slot' = slot \cup {c} /\ life[c] = "none" /\ UNCHANGED mq
        /\ life' = [life EXCEPT ![c] = "live"]
    BY <1>26 DEF Launch
  <2>. SUFFICES ASSUME NEW d \in Ctx, NEW i \in 1..Len(mq'[d]), mq'[d][i].err
                PROVE  mq'[d][i].src \in Ctx \ slot' /\ life'[mq'[d][i].src] # "none"
    BY DEF ErrorInv
  <2>2. mq[d][i].src \in Ctx \ slot /\ life[mq[d][i].src] # "none"
    BY <2>1 DEF ErrorInv
  <2>. QED BY <2>1, <2>2 DEF TypeOK
<1>27. CASE UNCHANGED vars
  BY <1>27, ErrorsKept DEF vars
<1>. QED
  BY <1>1, <1>2, <1>3, <1>4, <1>5, <1>6, <1>7, <1>8, <1>9, <1>10, <1>11, <1>12, <1>13, <1>14,
     <1>15, <1>16, <1>17, <1>18, <1>19, <1>20, <1>21, <1>22, <1>23, <1>24, <1>25, <1>26, <1>27
     DEF Next, Progress, UserCode

\* The node as bootstrap leaves it satisfies the inductive invariant.
LEMMA InitEstablishes == Init => IndInv
<1>. SUFFICES ASSUME Init PROVE IndInv
  OBVIOUS
<1>. USE ServerAssumption DEF Init
<1>0. [src |-> Boot, err |-> FALSE] \in Msg
  BY DEF Msg
<1>1. TypeOK
  <2>1. mq \in [Ctx -> Seq(Msg)]
    BY <1>0
  <2>2. Q \in Seq(Ctx)
    OBVIOUS
  <2>3. /\ ref \in [Ctx -> Nat] /\ slot \subseteq Ctx
        /\ life \in [Ctx -> {"none", "live", "freed"}]
        /\ mqlife \in [Ctx -> {"none", "live", "freed"}]
    OBVIOUS
  <2>4. inited \in [Ctx -> BOOLEAN] /\ inGlobal \in [Ctx -> BOOLEAN] /\ release \in [Ctx -> BOOLEAN]
    OBVIOUS
  <2>5. pc \in [Thread -> PC] /\ ret \in [Thread -> PC]
    BY DEF PC, Running
  <2>6. /\ held \in [Thread -> Ptr] /\ nq \in [Thread -> Ptr] /\ cur \in [Thread -> Ptr]
        /\ dst \in [Thread -> Ptr] /\ dead \in [Thread -> Ptr] /\ born \in [Thread -> Ptr]
        /\ newq \in [Thread -> Ptr] /\ left \in [Thread -> Nat] /\ ops \in 0..MaxOps
    BY DEF Ptr
  <2>. QED BY <2>1, <2>2, <2>3, <2>4, <2>5, <2>6 DEF TypeOK
<1>2. \A c \in Ctx : Holders(c) = IF c = Boot THEN {<<"slot", None>>} ELSE {}
  BY DEF Holders
<1>3. RefCount
  <2>1. IsFiniteSet({}) /\ Cardinality({}) = 0
    BY FS_EmptySet
  <2>2. IsFiniteSet({<<"slot", None>>}) /\ Cardinality({<<"slot", None>>}) = 1
    BY FS_Singleton
  <2>. QED BY <1>2, <2>1, <2>2 DEF RefCount
<1>4. Q = <<Boot>> /\ Len(Q) = 1 /\ Q[1] = Boot
  OBVIOUS
<1>5. \A c \in Ctx : Owned(c) <=> c = Boot
  BY <1>4 DEF Owned, OwnedBy, InQ
<1>6. ControlInv /\ DropInv
  BY DEF ControlInv, Control, DropInv, At, Launching, Dispatching, Thread
<1>7. LifeInv
  BY DEF LifeInv
<1>8. OwnerInv
  <2>1. OneOwner
    BY <1>4 DEF OneOwner, QDistinct, OwnedBy
  <2>. QED BY <1>5, <2>1 DEF OwnerInv, UnownedIsIdle
<1>9. InitInv
  BY DEF InitInv, InitBeforeDispatch
<1>10. ErrorInv
  <2>1. ASSUME NEW c \in Ctx, NEW i \in 1..Len(mq[c]) PROVE ~mq[c][i].err
    <3>1. CASE c = Boot
      <4>. DEFINE m == [src |-> Boot, err |-> FALSE]
      <4>1. mq[c] = <<m>> /\ ~m.err
        BY <3>1
      <4>. HIDE DEF m
      <4>2. Len(<<m>>) = 1 /\ <<m>>[1] = m
        OBVIOUS
      <4>. QED BY <2>1, <4>1, <4>2
    <3>2. CASE c # Boot
      BY <2>1, <3>2
    <3>. QED BY <3>1, <3>2
  <2>. QED BY <2>1 DEF ErrorInv
<1>. QED
  BY <1>1, <1>3, <1>6, <1>7, <1>8, <1>9, <1>10 DEF IndInv

\* The invariant is inductive: every reachable state, for any number of threads,
\* services and operations, satisfies it.
THEOREM Invariance == Spec => []IndInv
<1>1. Init => IndInv
  BY InitEstablishes
<1>2. IndInv /\ [Next]_vars => IndInv'
  BY TypeStep, ControlStep, DropStep, RefStep, LifeStep, OwnerStep, InitStep, ErrorStep
     DEF IndInv
<1>. QED
  BY <1>1, <1>2, PTL DEF Spec

\* Every variable keeps its type, and no reference count falls below zero.
THEOREM TypeCorrect == Spec => []TypeOK
<1>1. IndInv => TypeOK
  BY DEF IndInv
<1>. QED
  BY <1>1, Invariance, PTL

\* The reference count of every context is the number of references held by
\* the handle storage and the threads (skynet_context_grab and _release).
THEOREM ReferencesCounted == Spec => []RefCount
<1>1. IndInv => RefCount
  BY DEF IndInv
<1>. QED
  BY <1>1, Invariance, PTL

\* Every message queue has at most one owner: the in_global protocol of
\* skynet_mq_push and skynet_mq_pop links no queue twice.
THEOREM QueuesOwnedOnce == Spec => []OneOwner
<1>1. IndInv => OneOwner
  BY DEF IndInv, OwnerInv
<1>. QED
  BY <1>1, Invariance, PTL

\* A message queue without an owner is idle: the in_global protocol loses no
\* wakeup, whatever the order of a push and of the pop that finds the queue empty.
THEOREM NoWakeupLost == Spec => []UnownedIsIdle
<1>1. IndInv => UnownedIsIdle
  BY DEF IndInv, OwnerInv
<1>. QED
  BY <1>1, Invariance, PTL

\* No service is dispatched or initialised by two threads at once.
THEOREM DispatchExclusive == Spec => []ExclusiveDispatch
<1>1. IndInv => ExclusiveDispatch
  <2>. SUFFICES ASSUME IndInv, NEW t \in Thread, NEW u \in Thread
                PROVE  /\ t # u /\ cur[t] # None => cur[u] # cur[t]
                       /\ born[t] # None => /\ cur[u] # born[t]
                                            /\ t # u => born[u] # born[t]
    BY DEF ExclusiveDispatch
  <2>1. \A v \in Thread : /\ cur[v] # None => cur[v] \in Ctx /\ held[v] = cur[v]
                          /\ born[v] # None => born[v] \in Ctx /\ newq[v] = born[v]
    BY Held DEF IndInv, ControlInv, Control
  <2>2. \A v, w \in Thread, c \in Ctx : OwnedBy(v, c) /\ OwnedBy(w, c) => v = w
    BY DEF IndInv, OwnerInv, OneOwner
  <2>3. \A v \in Thread : held[v] # None => held[v] # newq[v]
    BY DEF IndInv, OwnerInv, OneOwner
  <2>. QED
    BY <2>1, <2>2, <2>3 DEF OwnedBy
<1>. QED
  BY <1>1, Invariance, PTL

\* No message is dispatched before the init of its service: assert(ctx->init).
THEOREM InitDone == Spec => []InitBeforeDispatch
<1>1. IndInv => InitBeforeDispatch
  BY DEF IndInv, InitInv
<1>. QED
  BY <1>1, Invariance, PTL

\* No thread uses a deleted context or a freed queue.
THEOREM MemorySafe == Spec => []NoUseAfterFree
<1>1. IndInv => NoUseAfterFree
  <2>. SUFFICES ASSUME IndInv PROVE NoUseAfterFree
    OBVIOUS
  <2>1. \A t \in Thread : \A c \in {cur[t], dst[t], dead[t], born[t]} \ {None} :
           c \in Ctx /\ life[c] = "live"
    BY Held DEF IndInv, LifeInv, TypeOK, Ptr
  <2>2. \A c \in Ctx : life[c] = "live" => mqlife[c] = "live" /\ ~release[c]
    BY DEF IndInv, LifeInv, TypeOK
  <2>3. \A c \in Ctx : Owned(c) => mqlife[c] = "live"
    BY DEF IndInv, OwnerInv
  <2>4. \A t \in Thread : \A q \in {held[t], nq[t], newq[t]} \ {None} : q \in Ctx /\ Owned(q)
    BY DEF Owned, OwnedBy, IndInv, TypeOK, Ptr
  <2>5. \A i \in 1..Len(Q) : Q[i] \in Ctx /\ Owned(Q[i])
    BY DEF Owned, InQ, IndInv, TypeOK
  <2>. QED
    BY <2>1, <2>2, <2>3, <2>4, <2>5 DEF NoUseAfterFree
<1>. QED
  BY <1>1, Invariance, PTL

\* An error report names a service that is gone, so reports end.
THEOREM ErrorsEnd == Spec => []ErrorsFromDead
<1>1. IndInv => ErrorsFromDead
  BY ServerAssumption DEF IndInv, ErrorInv, ErrorsFromDead
<1>. QED
  BY <1>1, Invariance, PTL

\* When all workers are about to sleep, no message and no deleted service is
\* left behind.
THEOREM IdleNodeIsDone == Spec => []IdleMeansDone
<1>1. IndInv => IdleMeansDone
  <2>. SUFFICES ASSUME IndInv, Q = <<>>,
                       \A w \in Worker : pc[w] = "loop" /\ held[w] = None,
                       \A t \in Outside : pc[t] = "out",
                       NEW c \in Ctx, mqlife[c] = "live"
                PROVE  mq[c] = <<>> /\ life[c] = "live" /\ c \in slot
    BY DEF IdleMeansDone
  <2>. USE ServerAssumption
  <2>1. \A t \in Thread : /\ pc[t] \in {"loop", "out"} /\ nq[t] = None /\ newq[t] = None
                          /\ cur[t] = None /\ dst[t] = None /\ dead[t] = None /\ born[t] = None
    BY DEF IndInv, ControlInv, Control, At, Launching, Dispatching, Thread
  <2>2. \A t \in Thread : held[t] = None \/ t \in Outside
    BY DEF Thread
  <2>3. \A t \in Outside : t \in Thread /\ held[t] = None
    BY <2>1 DEF IndInv, ControlInv, Control, At, Thread
  <2>4. ~Owned(c)
    BY <2>1, <2>2, <2>3 DEF Owned, OwnedBy, InQ
  <2>5. mq[c] = <<>> /\ ~release[c]
    BY <2>4 DEF IndInv, OwnerInv, UnownedIsIdle
  <2>6. life[c] = "live"
    BY <2>5 DEF IndInv, LifeInv, TypeOK
  <2>7. c \in slot
    <3>. SUFFICES ASSUME c \notin slot PROVE FALSE
      OBVIOUS
    <3>1. Holders(c) = {}
      BY <2>1 DEF Holders
    <3>2. ref[c] = 0
      BY <3>1, FS_EmptySet DEF IndInv, RefCount
    <3>. QED BY <2>1, <2>6, <3>2 DEF IndInv, LifeInv
  <2>. QED BY <2>5, <2>6, <2>7
<1>. QED
  BY <1>1, Invariance, PTL

\* What a thread pushes is a message.
LEMMA SourceIsMsg ==
    ASSUME IndInv, NEW t \in Thread, pc[t] = "spush"
    PROVE  [src |-> Source(t), err |-> ret[t] = "drop"] \in Msg
<1>1. Source(t) \in Ctx \cup {None}
  BY DEF Source, DropQueue, IndInv, TypeOK, Ptr
<1>. QED
  BY <1>1 DEF Msg

\* Every step keeps the rest of a batch in the queue: only the owner pops.
LEMMA BatchStep == IndInv /\ BatchFits /\ [Next]_vars => BatchFits'
<1>. SUFFICES ASSUME IndInv, BatchFits, [Next]_vars, NEW w \in Worker
              PROVE  cur'[w] # None /\ pc'[w] # "pop0" => left'[w] <= Len(mq'[held'[w]])
  BY DEF BatchFits
<1>. DEFINE G == cur'[w] # None /\ pc'[w] # "pop0" => left'[w] <= Len(mq'[held'[w]])
<1>a. /\ w \in Thread /\ left[w] \in Nat
      /\ cur[w] # None => /\ held[w] = cur[w] /\ cur[w] \in Ctx
                          /\ mq[cur[w]] \in Seq(Msg) /\ Len(mq[cur[w]]) \in Nat
      /\ cur[w] # None /\ pc[w] # "pop0" => left[w] <= Len(mq[cur[w]])
  BY DEF Thread, IndInv, TypeOK, ControlInv, Control, Ptr, BatchFits
<1>b. /\ pc \in [Thread -> PC] /\ cur \in [Thread -> Ptr] /\ held \in [Thread -> Ptr]
      /\ left \in [Thread -> Nat] /\ mq \in [Ctx -> Seq(Msg)]
  BY DEF IndInv, TypeOK
<1>c. \A q \in Ctx, t \in Thread : q = held[t] /\ cur[t] # None /\ cur[w] = q => t = w
  BY <1>a, ServerAssumption DEF IndInv, OwnerInv, OneOwner, OwnedBy
<1>1. ASSUME NEW t \in Thread, ContextRelease(t) PROVE G
  <2>1. ret[t] # "pop0"
    BY <1>1 DEF ContextRelease, IndInv, ControlInv, Control, ReturnPoint, Running
  <2>. QED
    BY <1>1, <1>a, <1>b, <2>1 DEF ContextRelease, Goto, queueVars, dispatchVars
<1>2. ASSUME NEW t \in Thread, DeleteContext(t) PROVE G
  BY <1>2, <1>a, <1>b DEF DeleteContext, Goto, ctxVars, queueVars, dispatchVars, launchVars
<1>3. ASSUME NEW t \in Thread, MqPush(t) PROVE G
  <2>1. PICK c \in Ctx : c = dst[t]
    BY <1>3, Locals DEF MqPush
  <2>2. PICK m \in Msg : mq' = [mq EXCEPT ![c] = Append(mq[c], m)]
    <3>1. [src |-> Source(t), err |-> ret[t] = "drop"] \in Msg
      BY <1>3, SourceIsMsg DEF MqPush
    <3>. QED
      BY <1>3, <2>1, <3>1 DEF MqPush
  <2>3. cur[w] # None => Len(mq'[cur[w]]) >= Len(mq[cur[w]])
    BY <1>a, <1>b, <2>1, <2>2
  <2>. QED
    BY <1>3, <1>a, <1>b, <2>3 DEF MqPush, Goto, dispatchVars
<1>4. ASSUME NEW t \in Thread, InitOk(t) PROVE G
  BY <1>4, <1>a, <1>b DEF InitOk, CallRelease, Goto, ctxVars, queueVars, dispatchVars, launchVars
<1>5. ASSUME NEW t \in Thread, SetInit(t) PROVE G
  BY <1>5, <1>a, <1>b DEF SetInit, Goto, ctxVars, queueVars, dispatchVars, launchVars
<1>6. ASSUME NEW t \in Thread, NewPush(t) PROVE G
  BY <1>6, <1>a, <1>b DEF NewPush, Goto, ctxVars, queueVars, dispatchVars, launchVars
<1>7. ASSUME NEW t \in Thread, InitFail(t) PROVE G
  BY <1>7, <1>a, <1>b DEF InitFail, CallRelease, Goto, ctxVars, queueVars, dispatchVars, launchVars
<1>8. ASSUME NEW t \in Thread, FailRetire(t) PROVE G
  BY <1>8, <1>a, <1>b DEF FailRetire, CallRelease, Goto, ctxVars, queueVars, dispatchVars, launchVars
<1>9. ASSUME NEW t \in Thread, GlobalPop(t) PROVE G
  <2>1. CASE w = t
    BY <1>9, <1>a, <1>b, <2>1 DEF GlobalPop, Goto
  <2>2. CASE w # t
    BY <1>9, <1>a, <1>b, <2>2 DEF GlobalPop, Goto
  <2>. QED
    BY <2>1, <2>2
<1>10. ASSUME NEW t \in Thread, KeepQueue(t) PROVE G
  BY <1>10, <1>a, <1>b DEF KeepQueue, Goto, ctxVars, queueVars, dispatchVars, launchVars
<1>11. ASSUME NEW t \in Thread, DispatchGrab(t) PROVE G
  <2>1. CASE w = t
    <3>1. cur[w] = None
      BY <1>11, <2>1 DEF DispatchGrab, IndInv, ControlInv, Control, At, Dispatching, Launching
    <3>2. cur'[w] = None \/ pc'[w] = "pop0"
      BY <1>11, <1>b, <2>1, <3>1, <1>a DEF DispatchGrab, Goto
    <3>. QED
      BY <3>2
  <2>2. CASE w # t
    BY <1>11, <1>a, <1>b, <2>2 DEF DispatchGrab, Goto, queueVars
  <2>. QED
    BY <2>1, <2>2
<1>12. ASSUME NEW t \in Thread, PopEmpty(t) PROVE G
  BY <1>12, <1>a, <1>b DEF PopEmpty, CallRelease, Goto, ctxVars, queueVars, dispatchVars, launchVars
<1>13. ASSUME NEW t \in Thread, PopMessage(t) PROVE G
  <2>1. PICK q \in Ctx : q = held[t] /\ mq[q] # <<>> /\ mq' = [mq EXCEPT ![q] = Tail(mq[q])]
    BY <1>13, Locals DEF PopMessage
  <2>2. cur[t] # None /\ (pc[t] = "pop" => left[t] > 0) /\ left[t] \in Nat
    BY <1>13, <1>b DEF PopMessage, IndInv, ControlInv, Control, At, Dispatching
  <2>3. mq[q] \in Seq(Msg) /\ Len(mq[q]) \in Nat /\ Len(Tail(mq[q])) = Len(mq[q]) - 1
        /\ Len(mq[q]) > 0
    BY <1>b, <2>1
  <2>4. CASE w = t
    <3>1. cur[w] = q
      BY <1>a, <2>1, <2>2, <2>4
    <3>2. left'[w] = (IF pc[t] = "pop0" THEN 0 ELSE left[w] - 1) /\ held'[w] = q
      BY <1>13, <1>b, <2>1, <2>4, <1>a DEF PopMessage
    <3>3. mq'[q] = Tail(mq[q])
      BY <1>b, <2>1
    <3>4. pc[t] \in {"pop0", "pop"}
      BY <1>13 DEF PopMessage
    <3>. QED
      BY <1>a, <2>2, <2>3, <2>4, <3>1, <3>2, <3>3, <3>4
  <2>5. CASE w # t
    <3>1. cur[w] # None => cur[w] # q
      BY <1>c, <2>1, <2>2, <2>5
    <3>2. /\ cur'[w] = cur[w] /\ held'[w] = held[w] /\ left'[w] = left[w] /\ pc'[w] = pc[w]
          /\ cur[w] # None => mq'[cur[w]] = mq[cur[w]]
      BY <1>13, <1>a, <1>b, <2>1, <2>5, <3>1 DEF PopMessage, Goto
    <3>. QED
      BY <1>a, <3>2
  <2>. QED
    BY <2>4, <2>5
<1>14. ASSUME NEW t \in Thread, Weigh(t) PROVE G
  <2>1. UNCHANGED <<cur, held, mq>>
    BY <1>14 DEF Weigh, queueVars
  <2>2. CASE w # t
    BY <1>14, <1>a, <1>b, <2>1, <2>2 DEF Weigh, Goto
  <2>3. CASE w = t
    <3>1. Weight[t] \in 0..3 /\ held[t] \in Ctx
      BY <1>14, <2>3, Locals, ServerAssumption
         DEF Weigh, IndInv, ControlInv, Control
    <3>2. PICK n \in Nat : n = Len(mq[held[t]])
      BY <3>1, <1>b
    <3>3. PICK k \in {1, 2, 4, 8} : k = <<1, 2, 4, 8>>[Weight[t] + 1]
      BY <3>1
    <3>4. PICK m \in Nat : m = n \div k /\ m <= n
      BY <3>3
    <3>5. left'[w] = IF m > 0 THEN m - 1 ELSE 0
      BY <1>14, <1>b, <2>3, <3>2, <3>3, <3>4 DEF Weigh, BatchSize
    <3>6. Len(mq'[held'[w]]) = n
      BY <2>1, <2>3, <3>2
    <3>. QED
      BY <3>4, <3>5, <3>6
  <2>. QED
    BY <2>2, <2>3
<1>15. ASSUME NEW t \in Thread, CallbackDone(t) PROVE G
  BY <1>15, <1>a, <1>b DEF CallbackDone, Goto, ctxVars, queueVars, dispatchVars, launchVars
<1>16. ASSUME NEW t \in Thread, YieldKeep(t) PROVE G
  BY <1>16, <1>a, <1>b DEF YieldKeep, CallRelease, Goto, ctxVars, queueVars, dispatchVars, launchVars
<1>17. ASSUME NEW t \in Thread, YieldTake(t) PROVE G
  BY <1>17, <1>a, <1>b DEF YieldTake, Goto, ctxVars, queueVars, dispatchVars, launchVars
<1>18. ASSUME NEW t \in Thread, PushBack(t) PROVE G
  BY <1>18, <1>a, <1>b DEF PushBack, CallRelease, Goto, ctxVars, queueVars, dispatchVars, launchVars
<1>19. ASSUME NEW t \in Thread, MqReleaseLater(t) PROVE G
  <2>1. newq[t] = None => cur[t] = None
    BY <1>19 DEF MqReleaseLater, IndInv, ControlInv, Control, At, Dispatching
  <2>. QED
    BY <1>19, <1>a, <1>b, <2>1 DEF MqReleaseLater, GiveUpQueue, Goto
<1>20. ASSUME NEW t \in Thread, MqReleaseNow(t) PROVE G
  BY <1>20, <1>a, <1>b DEF MqReleaseNow, Goto, ctxVars, queueVars, dispatchVars, launchVars
<1>21. ASSUME NEW t \in Thread, DropMessage(t) PROVE G
  <2>1. PICK q \in Ctx : q = DropQueue(t) /\ mq' = [mq EXCEPT ![q] = Tail(mq[q])]
    BY <1>21, DropQueueLive DEF DropMessage, At
  <2>2. cur[w] # None => cur[w] # q
    <3>1. OwnedBy(t, q)
      BY <1>21, <2>1, DropQueueLive DEF DropMessage, At
    <3>2. cur[w] = q => t = w
      BY <1>a, <3>1, ServerAssumption DEF IndInv, OwnerInv, OneOwner, OwnedBy
    <3>3. newq[t] = None => cur[t] = None
      BY <1>21 DEF DropMessage, IndInv, ControlInv, Control, At, Dispatching
    <3>4. newq[t] # None /\ cur[t] # None => held[t] = cur[t] /\ held[t] # newq[t]
      BY DEF IndInv, ControlInv, Control, OwnerInv, OneOwner
    <3>. QED
      BY <2>1, <3>2, <3>3, <3>4 DEF DropQueue
  <2>3. /\ UNCHANGED <<cur, held, left>> /\ (pc'[w] = "pop0" <=> pc[w] = "pop0")
        /\ cur[w] # None => mq'[cur[w]] = mq[cur[w]]
    BY <1>21, <1>a, <1>b, <2>1, <2>2 DEF DropMessage, Goto, dispatchVars
  <2>. QED
    BY <1>a, <2>3
<1>22. ASSUME NEW t \in Thread, DropDone(t) PROVE G
  <2>1. newq[t] = None => cur[t] = None
    BY <1>22 DEF DropDone, IndInv, ControlInv, Control, At, Dispatching
  <2>. QED
    BY <1>22, <1>a, <1>b, <2>1 DEF DropDone, GiveUpQueue, Goto
<1>23. ASSUME NEW t \in Thread, NEW c \in Ctx, Send(t, c) PROVE G
  BY <1>23, <1>a, <1>b DEF Send, UserOp, GrabInto, Running, Goto, ctxVars, queueVars, dispatchVars, launchVars
<1>24. ASSUME NEW t \in Thread, NEW c \in Ctx, Touch(t, c) PROVE G
  BY <1>24, <1>a, <1>b DEF Touch, UserOp, GrabInto, Running, Goto, ctxVars, queueVars, dispatchVars, launchVars
<1>25. ASSUME NEW t \in Thread, NEW c \in Ctx, Kill(t, c) PROVE G
  BY <1>25, <1>a, <1>b DEF Kill, UserOp, CallRelease, Running, Goto, ctxVars, queueVars, dispatchVars, launchVars
<1>26. ASSUME NEW t \in Thread, NEW c \in Ctx, Launch(t, c) PROVE G
  BY <1>26, <1>a, <1>b DEF Launch, UserOp, Running, Goto, ctxVars, queueVars, dispatchVars, launchVars
<1>27. CASE UNCHANGED vars
  BY <1>27, <1>a, <1>b DEF vars, Goto, ctxVars, queueVars, dispatchVars, launchVars
<1>. QED
  BY <1>1, <1>2, <1>3, <1>4, <1>5, <1>6, <1>7, <1>8, <1>9, <1>10, <1>11, <1>12, <1>13, <1>14,
     <1>15, <1>16, <1>17, <1>18, <1>19, <1>20, <1>21, <1>22, <1>23, <1>24, <1>25, <1>26, <1>27
     DEF Next, Progress, UserCode

\* The messages of a batch counted by skynet_mq_length are still there when they
\* are popped, although the lock was released in between.
THEOREM BatchesFit == Spec => []BatchFits
<1>1. Init => BatchFits
  BY DEF Init, BatchFits, Thread
<1>. QED
  BY <1>1, BatchStep, Invariance, PTL DEF Spec

\* the steps that touch the memory of a context or the messages of a queue
MemorySteps ==
    \/ UNCHANGED <<mq, mqlife, life>>
    \/ \E t \in Thread :
         \/ MqPush(t) \/ PopMessage(t) \/ DropMessage(t) \/ DropDone(t) \/ DeleteContext(t)
         \/ \E c \in Ctx : Launch(t, c)

\* Every step is one of MemorySteps.
LEMMA MemoryStep == [Next]_vars => MemorySteps
<1>. SUFFICES ASSUME [Next]_vars PROVE MemorySteps
  OBVIOUS
<1>1. ASSUME NEW t \in Thread, ContextRelease(t) PROVE MemorySteps
  BY <1>1 DEF ContextRelease, MemorySteps, ctxVars, queueVars
<1>2. ASSUME NEW t \in Thread, DeleteContext(t) PROVE MemorySteps
  BY <1>2 DEF MemorySteps
<1>3. ASSUME NEW t \in Thread, MqPush(t) PROVE MemorySteps
  BY <1>3 DEF MemorySteps
<1>4. ASSUME NEW t \in Thread, InitOk(t) PROVE MemorySteps
  BY <1>4 DEF InitOk, CallRelease, MemorySteps, ctxVars, queueVars
<1>5. ASSUME NEW t \in Thread, SetInit(t) PROVE MemorySteps
  BY <1>5 DEF SetInit, MemorySteps, ctxVars, queueVars
<1>6. ASSUME NEW t \in Thread, NewPush(t) PROVE MemorySteps
  BY <1>6 DEF NewPush, MemorySteps, ctxVars, queueVars
<1>7. ASSUME NEW t \in Thread, InitFail(t) PROVE MemorySteps
  BY <1>7 DEF InitFail, CallRelease, MemorySteps, ctxVars, queueVars
<1>8. ASSUME NEW t \in Thread, FailRetire(t) PROVE MemorySteps
  BY <1>8 DEF FailRetire, CallRelease, MemorySteps, ctxVars, queueVars
<1>9. ASSUME NEW t \in Thread, GlobalPop(t) PROVE MemorySteps
  BY <1>9 DEF GlobalPop, MemorySteps, ctxVars, queueVars
<1>10. ASSUME NEW t \in Thread, KeepQueue(t) PROVE MemorySteps
  BY <1>10 DEF KeepQueue, MemorySteps, ctxVars, queueVars
<1>11. ASSUME NEW t \in Thread, DispatchGrab(t) PROVE MemorySteps
  BY <1>11 DEF DispatchGrab, MemorySteps, ctxVars, queueVars
<1>12. ASSUME NEW t \in Thread, PopEmpty(t) PROVE MemorySteps
  BY <1>12 DEF PopEmpty, CallRelease, MemorySteps, ctxVars, queueVars
<1>13. ASSUME NEW t \in Thread, PopMessage(t) PROVE MemorySteps
  BY <1>13 DEF MemorySteps
<1>14. ASSUME NEW t \in Thread, Weigh(t) PROVE MemorySteps
  BY <1>14 DEF Weigh, MemorySteps, ctxVars, queueVars
<1>15. ASSUME NEW t \in Thread, CallbackDone(t) PROVE MemorySteps
  BY <1>15 DEF CallbackDone, MemorySteps, ctxVars, queueVars
<1>16. ASSUME NEW t \in Thread, YieldKeep(t) PROVE MemorySteps
  BY <1>16 DEF YieldKeep, CallRelease, MemorySteps, ctxVars, queueVars
<1>17. ASSUME NEW t \in Thread, YieldTake(t) PROVE MemorySteps
  BY <1>17 DEF YieldTake, MemorySteps, ctxVars, queueVars
<1>18. ASSUME NEW t \in Thread, PushBack(t) PROVE MemorySteps
  BY <1>18 DEF PushBack, CallRelease, MemorySteps, ctxVars, queueVars
<1>19. ASSUME NEW t \in Thread, MqReleaseLater(t) PROVE MemorySteps
  BY <1>19 DEF MqReleaseLater, GiveUpQueue, MemorySteps, ctxVars, queueVars
<1>20. ASSUME NEW t \in Thread, MqReleaseNow(t) PROVE MemorySteps
  BY <1>20 DEF MqReleaseNow, MemorySteps, ctxVars, queueVars
<1>21. ASSUME NEW t \in Thread, DropMessage(t) PROVE MemorySteps
  BY <1>21 DEF MemorySteps
<1>22. ASSUME NEW t \in Thread, DropDone(t) PROVE MemorySteps
  BY <1>22 DEF MemorySteps
<1>23. ASSUME NEW t \in Thread, NEW c \in Ctx, Send(t, c) PROVE MemorySteps
  BY <1>23 DEF Send, UserOp, GrabInto, Running, MemorySteps, ctxVars, queueVars
<1>24. ASSUME NEW t \in Thread, NEW c \in Ctx, Touch(t, c) PROVE MemorySteps
  BY <1>24 DEF Touch, UserOp, GrabInto, Running, MemorySteps, ctxVars, queueVars
<1>25. ASSUME NEW t \in Thread, NEW c \in Ctx, Kill(t, c) PROVE MemorySteps
  BY <1>25 DEF Kill, UserOp, CallRelease, Running, MemorySteps, ctxVars, queueVars
<1>26. ASSUME NEW t \in Thread, NEW c \in Ctx, Launch(t, c) PROVE MemorySteps
  BY <1>26 DEF MemorySteps
<1>27. CASE UNCHANGED vars
  BY <1>27 DEF vars, MemorySteps, ctxVars, queueVars
<1>. QED
  BY <1>1, <1>2, <1>3, <1>4, <1>5, <1>6, <1>7, <1>8, <1>9, <1>10, <1>11, <1>12, <1>13, <1>14,
     <1>15, <1>16, <1>17, <1>18, <1>19, <1>20, <1>21, <1>22, <1>23, <1>24, <1>25, <1>26, <1>27
     DEF Next, Progress, UserCode

\* No message is pushed to a released queue and nothing freed is written.
THEOREM ReleasedQueuesShrink == Spec => NoPushAfterRelease
<1>1. IndInv /\ [Next]_vars => [\A c \in Ctx : ReleasedShrinks(c)]_vars
  <2>. SUFFICES ASSUME IndInv, [Next]_vars, NEW d \in Ctx PROVE ReleasedShrinks(d)
    OBVIOUS
  <2>. USE DEF ReleasedShrinks
  <2>0. /\ mq \in [Ctx -> Seq(Msg)] /\ mqlife \in [Ctx -> {"none", "live", "freed"}]
        /\ life \in [Ctx -> {"none", "live", "freed"}]
        /\ mqlife[d] = "freed" => release[d] /\ life[d] = "freed"
        /\ release[d] => life[d] = "freed"
        /\ mq[d] \in Seq(Msg) /\ Len(mq[d]) \in Nat
    BY DEF IndInv, TypeOK, LifeInv
  <2>1. CASE UNCHANGED <<mq, mqlife, life>>
    BY <2>0, <2>1
  <2>2. ASSUME NEW t \in Thread, MqPush(t) PROVE ReleasedShrinks(d)
    <3>1. dst[t] \in Ctx /\ dst[t] # None /\ life[dst[t]] = "live"
      BY <2>2, Locals, Held, ServerAssumption DEF MqPush
    <3>2. d # dst[t] \/ ~release[d]
      BY <2>0, <3>1
    <3>3. release[d] => mq'[d] = mq[d]
      BY <2>0, <2>2, <3>1, <3>2 DEF MqPush
    <3>4. UNCHANGED <<mqlife, life>>
      BY <2>2 DEF MqPush, ctxVars
    <3>. QED
      BY <2>0, <3>3, <3>4
  <2>3. ASSUME NEW t \in Thread, PopMessage(t) PROVE ReleasedShrinks(d)
    <3>1. PICK q \in Ctx : q = held[t] /\ mq[q] # <<>> /\ mq' = [mq EXCEPT ![q] = Tail(mq[q])]
      BY <2>3, Locals DEF PopMessage
    <3>2. mqlife[q] = "live"
      BY <3>1 DEF IndInv, OwnerInv, Owned, OwnedBy
    <3>3. Len(mq'[d]) <= Len(mq[d]) /\ (d # q => mq'[d] = mq[d])
      BY <2>0, <3>1
    <3>4. UNCHANGED <<mqlife, life>>
      BY <2>3 DEF PopMessage, ctxVars
    <3>. QED
      BY <3>2, <3>3, <3>4
  <2>4. ASSUME NEW t \in Thread, DropMessage(t) PROVE ReleasedShrinks(d)
    <3>1. PICK q \in Ctx : /\ q = DropQueue(t) /\ mq[q] # <<>> /\ mqlife[q] = "live"
                           /\ mq' = [mq EXCEPT ![q] = Tail(mq[q])]
      BY <2>4, DropQueueLive DEF DropMessage, At
    <3>2. Len(mq'[d]) <= Len(mq[d]) /\ (d # q => mq'[d] = mq[d])
      BY <2>0, <3>1
    <3>3. UNCHANGED <<mqlife, life>>
      BY <2>4 DEF DropMessage
    <3>. QED
      BY <3>1, <3>2, <3>3
  <2>5. ASSUME NEW t \in Thread, DropDone(t) PROVE ReleasedShrinks(d)
    <3>1. DropQueue(t) \in Ctx /\ mqlife[DropQueue(t)] = "live"
      BY <2>5, DropQueueLive DEF DropDone, At
    <3>. QED
      BY <2>0, <2>5, <3>1 DEF DropDone, ctxVars
  <2>6. ASSUME NEW t \in Thread, DeleteContext(t) PROVE ReleasedShrinks(d)
    <3>1. dead[t] \in Ctx /\ life[dead[t]] = "live"
      BY <2>6, Locals, ServerAssumption DEF DeleteContext, IndInv, LifeInv
    <3>. QED
      BY <2>0, <2>6, <3>1 DEF DeleteContext
  <2>7. ASSUME NEW t \in Thread, NEW c \in Ctx, Launch(t, c) PROVE ReleasedShrinks(d)
    <3>1. life[c] = "none" /\ mqlife[c] # "freed"
      BY <2>7 DEF Launch, IndInv, LifeInv
    <3>. QED
      BY <2>0, <2>7, <3>1 DEF Launch
  <2>. QED
    BY <2>1, <2>2, <2>3, <2>4, <2>5, <2>6, <2>7, MemoryStep DEF MemorySteps
<1>. QED
  BY <1>1, Invariance, PTL DEF Spec, NoPushAfterRelease
=============================================================================
