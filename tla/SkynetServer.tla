---------------------------- MODULE SkynetServer ----------------------------
(***************************************************************************)
(* The life of skynet services (contexts) and of their message queues      *)
(* under the worker threads: skynet-src/skynet_server.c, the protocol part *)
(* of skynet-src/skynet_mq.c (global queue, in_global, release) and the    *)
(* grab/retire part of skynet-src/skynet_handle.c.                         *)
(*                                                                         *)
(* A context, its handle and its message queue are named by one element of *)
(* Ctx.  A handle is not reused: handle_index only grows, so a handle      *)
(* comes back only after 2^24 registrations.                               *)
(*                                                                         *)
(* Every region under a spin lock or the handle rwlock is one step, and so *)
(* is every atomic operation on a reference count.  A thread stops between *)
(* two such regions wherever another thread can observe the difference.    *)
(***************************************************************************)
EXTENDS Integers, Sequences, FiniteSets

CONSTANTS
    Worker,     \* threads running thread_worker (skynet_start.c)
    Outside,    \* the timer, socket and monitor threads
    Ctx,        \* contexts that can be created during a behaviour
    Boot,       \* the context bootstrap() launched before the threads start
    None,       \* NULL
    Weight,     \* weight[w] of thread_worker's worker_parm
    MaxOps      \* bound: sends, kills, launches and grabs by user code

Thread == Worker \cup Outside

ASSUME ServerAssumption ==
    /\ Boot \in Ctx
    /\ None \notin Ctx \cup Thread
    /\ Worker \cap Outside = {}
    /\ Weight \in [Worker -> -1..3]
    /\ MaxOps \in Nat

VARIABLES
    \* struct skynet_context and the handle storage H
    ref,        \* ref[c]: the reference count
    slot,       \* the contexts found by skynet_handle_grab
    life,       \* life[c]: "none" (not created), "live" or "freed"
    inited,     \* ctx->init
    \* struct message_queue and the global queue Q
    mq,         \* mq[c]: the messages in c's queue
    inGlobal,   \* in_global
    release,    \* release
    mqlife,     \* life of the message_queue structure
    Q,          \* the global queue of message queues
    \* thread-local variables
    pc,         \* where the thread is
    ret,        \* where it goes on after a send, a release or a delete
    held,       \* q of skynet_context_message_dispatch
    nq,         \* nq of skynet_context_message_dispatch
    cur,        \* its ctx: the reference the dispatch holds
    left,       \* n - i - 1: messages left of this batch
    dst,        \* the reference a send, a retire or a release holds
    dead,       \* the context delete_context is working on
    born,       \* the creator's reference in skynet_context_new
    newq,       \* queue of skynet_context_new
    ops         \* operations of user code so far

ctxVars == <<ref, slot, life, inited>>
queueVars == <<mq, inGlobal, release, mqlife, Q>>
dispatchVars == <<held, nq, cur, left>>
launchVars == <<born, newq>>
vars == <<ctxVars, queueVars, pc, ret, dispatchVars, dst, dead, launchVars, ops>>

\* A message keeps what its handling depends on: its source (None is the
\* system, source 0) and whether its type is PTYPE_ERROR.
Msg == [src : Ctx \cup {None}, err : BOOLEAN]

Ptr == Ctx \cup {None}

\* "cb", "init" and "out" are the places where user code runs: a message
\* callback, a module's init function, a socket/timer/monitor thread.
Running == {"cb", "init", "out"}

PC == Running \cup
      {"loop", "grab", "pop0", "weigh", "pop", "yield", "pushback",
       "mqrel", "drop", "spush", "rel", "del",
       "setinit", "newpush", "failretire"}

Init ==
    /\ ref = [c \in Ctx |-> IF c = Boot THEN 1 ELSE 0]
    /\ slot = {Boot}
    /\ life = [c \in Ctx |-> IF c = Boot THEN "live" ELSE "none"]
    /\ inited = [c \in Ctx |-> c = Boot]
    \* snlua_init sends its service a first message
    /\ mq = [c \in Ctx |-> IF c = Boot THEN <<[src |-> Boot, err |-> FALSE]>> ELSE <<>>]
    /\ inGlobal = [c \in Ctx |-> c = Boot]
    /\ release = [c \in Ctx |-> FALSE]
    /\ mqlife = life
    /\ Q = <<Boot>>
    /\ pc = [t \in Thread |-> IF t \in Worker THEN "loop" ELSE "out"]
    /\ ret = [t \in Thread |-> "out"]
    /\ held = [t \in Thread |-> None]
    /\ nq = [t \in Thread |-> None]
    /\ cur = [t \in Thread |-> None]
    /\ left = [t \in Thread |-> 0]
    /\ dst = [t \in Thread |-> None]
    /\ dead = [t \in Thread |-> None]
    /\ born = [t \in Thread |-> None]
    /\ newq = [t \in Thread |-> None]
    /\ ops = 0

-----------------------------------------------------------------------------
(* Steps shared by the paths below                                         *)

Goto(t, l) == pc' = [pc EXCEPT ![t] = l]

\* thread t takes a reference to c (skynet_handle_grab found it)
GrabInto(t, c) ==
    /\ ref' = [ref EXCEPT ![c] = @ + 1]
    /\ dst' = [dst EXCEPT ![t] = c]

\* thread t calls skynet_context_release(c) and goes on at `after'
CallRelease(t, c, after) ==
    /\ dst' = [dst EXCEPT ![t] = c]
    /\ ret' = [ret EXCEPT ![t] = after]
    /\ Goto(t, "rel")

\* skynet_context_release: the last reference deletes the context
ContextRelease(t) ==
    LET c == dst[t] IN
    /\ pc[t] = "rel"
    /\ ref' = [ref EXCEPT ![c] = @ - 1]
    /\ dst' = [dst EXCEPT ![t] = None]
    /\ IF ref[c] = 1
         THEN /\ dead' = [dead EXCEPT ![t] = c]
              /\ Goto(t, "del")
         ELSE /\ Goto(t, ret[t])
              /\ UNCHANGED dead
    /\ UNCHANGED <<slot, life, inited, queueVars, ret, dispatchVars, launchVars, ops>>

\* mutant: mark_release does not put an idle queue back
DeleteContextQuiet(t) ==
    LET c == dead[t] IN
    /\ pc[t] = "del"
    /\ release' = [release EXCEPT ![c] = TRUE]
    /\ life' = [life EXCEPT ![c] = "freed"]
    /\ dead' = [dead EXCEPT ![t] = None]
    /\ Goto(t, IF ret[t] = "setinit" THEN "newpush" ELSE ret[t])
    /\ UNCHANGED <<ref, slot, inited, mq, inGlobal, mqlife, Q, ret, dispatchVars,
                   dst, launchVars, ops>>

\* delete_context with skynet_mq_mark_release.  A launcher whose release
\* deleted the context got NULL back, and skips ctx->init = true.
DeleteContext(t) ==
    LET c == dead[t] IN
    /\ pc[t] = "del"
    /\ release' = [release EXCEPT ![c] = TRUE]
    /\ Q' = IF inGlobal[c] THEN Q ELSE Append(Q, c)
    /\ life' = [life EXCEPT ![c] = "freed"]
    /\ dead' = [dead EXCEPT ![t] = None]
    /\ Goto(t, IF ret[t] = "setinit" THEN "newpush" ELSE ret[t])
    /\ UNCHANGED <<ref, slot, inited, mq, inGlobal, mqlife, ret, dispatchVars,
                   dst, launchVars, ops>>

\* the queue thread t gives up: of its failed launch, or of its dispatch
DropQueue(t) == IF newq[t] # None THEN newq[t] ELSE held[t]

\* mutant: the error report carries source 0 instead of the dead handle
SourceZero(t) == CASE ret[t] = "cb" -> cur[t]
                   [] ret[t] = "init" -> born[t]
                   [] OTHER -> None

\* the source of the message thread t is sending
Source(t) == CASE ret[t] = "cb" -> cur[t]
               [] ret[t] = "init" -> born[t]
               [] ret[t] = "drop" -> DropQueue(t)
               [] OTHER -> None

\* mutant: skynet_mq_push does not look at in_global
MqPushAlways(t) ==
    LET c == dst[t] IN
    /\ pc[t] = "spush"
    /\ mq' = [mq EXCEPT ![c] = Append(@, [src |-> Source(t), err |-> ret[t] = "drop"])]
    /\ inGlobal' = [inGlobal EXCEPT ![c] = TRUE]
    /\ Q' = Append(Q, c)
    /\ Goto(t, "rel")
    /\ UNCHANGED <<ctxVars, release, mqlife, ret, dispatchVars, dst, dead, launchVars, ops>>

\* skynet_mq_push, and the release that ends skynet_context_push
MqPush(t) ==
    LET c == dst[t] IN
    /\ pc[t] = "spush"
    /\ mq' = [mq EXCEPT ![c] = Append(@, [src |-> Source(t), err |-> ret[t] = "drop"])]
    /\ inGlobal' = [inGlobal EXCEPT ![c] = TRUE]
    /\ Q' = IF inGlobal[c] THEN Q ELSE Append(Q, c)
    /\ Goto(t, "rel")
    /\ UNCHANGED <<ctxVars, release, mqlife, ret, dispatchVars, dst, dead, launchVars, ops>>

-----------------------------------------------------------------------------
(* What user code does.  A send, kill or grab that names a handle which is *)
(* not registered returns at once and changes nothing.                     *)

UserOp(t) ==
    /\ pc[t] \in Running
    /\ ops < MaxOps
    /\ ops' = ops + 1

\* mutant: the context is looked up without taking a reference
SendUngrabbed(t, c) ==
    /\ UserOp(t)
    /\ c \in slot
    /\ dst' = [dst EXCEPT ![t] = c]
    /\ ret' = [ret EXCEPT ![t] = pc[t]]
    /\ Goto(t, "spush")
    /\ UNCHANGED <<ctxVars, queueVars, dispatchVars, dead, launchVars>>

\* skynet_send to c: skynet_context_push grabs c ...
Send(t, c) ==
    /\ UserOp(t)
    /\ c \in slot
    /\ GrabInto(t, c)
    /\ ret' = [ret EXCEPT ![t] = pc[t]]
    /\ Goto(t, "spush")
    /\ UNCHANGED <<slot, life, inited, queueVars, dispatchVars, dead, launchVars>>

\* skynet_context_endless, cmd_logon, cmd_logoff, cmd_signal: grab and release
Touch(t, c) ==
    /\ UserOp(t)
    /\ pc[t] # "init"
    /\ c \in slot
    /\ GrabInto(t, c)
    /\ ret' = [ret EXCEPT ![t] = pc[t]]
    /\ Goto(t, "rel")
    /\ UNCHANGED <<slot, life, inited, queueVars, dispatchVars, dead, launchVars>>

\* cmd_exit, cmd_kill: handle_exit retires c and releases the slot's reference
Kill(t, c) ==
    /\ UserOp(t)
    /\ pc[t] # "out"
    /\ c \in slot
    /\ slot' = slot \ {c}
    /\ CallRelease(t, c, pc[t])
    /\ UNCHANGED <<ref, life, inited, queueVars, dispatchVars, dead, launchVars>>

\* mutant: skynet_mq_create leaves in_global 0
LaunchNotInGlobal(t, c) ==
    /\ UserOp(t)
    /\ pc[t] = "cb"
    /\ life[c] = "none"
    /\ ref' = [ref EXCEPT ![c] = 2]
    /\ slot' = slot \cup {c}
    /\ life' = [life EXCEPT ![c] = "live"]
    /\ mqlife' = [mqlife EXCEPT ![c] = "live"]
    /\ born' = [born EXCEPT ![t] = c]
    /\ newq' = [newq EXCEPT ![t] = c]
    /\ Goto(t, "init")
    /\ UNCHANGED <<inited, mq, inGlobal, release, Q, ret, dispatchVars, dst, dead>>

\* cmd_launch: skynet_context_new up to the call of the module's init.
\* No other thread can know the new handle before init runs.
Launch(t, c) ==
    /\ UserOp(t)
    /\ pc[t] = "cb"
    /\ life[c] = "none"
    /\ ref' = [ref EXCEPT ![c] = 2]
    /\ slot' = slot \cup {c}
    /\ life' = [life EXCEPT ![c] = "live"]
    /\ inGlobal' = [inGlobal EXCEPT ![c] = TRUE]
    /\ mqlife' = [mqlife EXCEPT ![c] = "live"]
    /\ born' = [born EXCEPT ![t] = c]
    /\ newq' = [newq EXCEPT ![t] = c]
    /\ Goto(t, "init")
    /\ UNCHANGED <<inited, mq, release, Q, ret, dispatchVars, dst, dead>>

-----------------------------------------------------------------------------
(* The end of skynet_context_new                                           *)

\* init returned 0: release the creator's reference
InitOk(t) ==
    /\ pc[t] = "init"
    /\ born' = [born EXCEPT ![t] = None]
    /\ CallRelease(t, born[t], "setinit")
    /\ UNCHANGED <<ctxVars, queueVars, dispatchVars, dead, newq, ops>>

\* ctx->init = true.  The launcher no longer holds a reference here.
SetInit(t) ==
    /\ pc[t] = "setinit"
    /\ inited' = [inited EXCEPT ![newq[t]] = TRUE]
    /\ Goto(t, "newpush")
    /\ UNCHANGED <<ref, slot, life, queueVars, ret, dispatchVars, dst, dead, launchVars, ops>>

\* skynet_globalmq_push(queue), and skynet_context_new returns
NewPush(t) ==
    /\ pc[t] = "newpush"
    /\ Q' = Append(Q, newq[t])
    /\ newq' = [newq EXCEPT ![t] = None]
    /\ Goto(t, "cb")
    /\ UNCHANGED <<ctxVars, mq, inGlobal, release, mqlife, ret, dispatchVars, dst, dead,
                   born, ops>>

\* init failed: release the creator's reference, retire the handle, and
\* give up the queue (MqRelease)
InitFail(t) ==
    /\ pc[t] = "init"
    /\ born' = [born EXCEPT ![t] = None]
    /\ CallRelease(t, born[t], "failretire")
    /\ UNCHANGED <<ctxVars, queueVars, dispatchVars, dead, newq, ops>>

\* skynet_handle_retire of the failed service: init may have retired it
FailRetire(t) ==
    LET c == newq[t] IN
    /\ pc[t] = "failretire"
    /\ \/ /\ c \in slot
          /\ slot' = slot \ {c}
          /\ CallRelease(t, c, "mqrel")
       \/ /\ c \notin slot
          /\ Goto(t, "mqrel")
          /\ UNCHANGED <<slot, dst, ret>>
    /\ UNCHANGED <<ref, life, inited, queueVars, dispatchVars, dead, launchVars, ops>>

-----------------------------------------------------------------------------
(* skynet_context_message_dispatch                                         *)

\* take a queue from the global queue, when the last dispatch left none
GlobalPop(w) ==
    /\ pc[w] = "loop"
    /\ held[w] = None
    /\ Q # <<>>
    /\ held' = [held EXCEPT ![w] = Head(Q)]
    /\ Q' = Tail(Q)
    /\ Goto(w, "grab")
    /\ UNCHANGED <<ctxVars, mq, inGlobal, release, mqlife, ret, nq, cur, left, dst, dead,
                   launchVars, ops>>

\* go on with the queue the last dispatch returned
KeepQueue(w) ==
    /\ pc[w] = "loop"
    /\ held[w] # None
    /\ Goto(w, "grab")
    /\ UNCHANGED <<ctxVars, queueVars, ret, dispatchVars, dst, dead, launchVars, ops>>

\* skynet_handle_grab of the queue's handle
DispatchGrab(w) ==
    LET c == held[w] IN
    /\ pc[w] = "grab"
    /\ \/ /\ c \in slot
          /\ ref' = [ref EXCEPT ![c] = @ + 1]
          /\ cur' = [cur EXCEPT ![w] = c]
          /\ Goto(w, "pop0")
       \/ /\ c \notin slot
          /\ Goto(w, "mqrel")
          /\ UNCHANGED <<ref, cur>>
    /\ UNCHANGED <<slot, life, inited, queueVars, ret, held, nq, left, dst, dead,
                   launchVars, ops>>

\* mutant: skynet_mq_pop leaves in_global set on an empty queue
PopEmptyStillGlobal(w) ==
    /\ pc[w] \in {"pop0", "pop"}
    /\ mq[held[w]] = <<>>
    /\ held' = [held EXCEPT ![w] = None]
    /\ cur' = [cur EXCEPT ![w] = None]
    /\ CallRelease(w, cur[w], "loop")
    /\ UNCHANGED <<ctxVars, queueVars, nq, left, dead, launchVars, ops>>

\* skynet_mq_pop found no message: the queue leaves the global protocol
PopEmpty(w) ==
    LET q == held[w] IN
    /\ pc[w] \in {"pop0", "pop"}
    /\ mq[q] = <<>>
    /\ inGlobal' = [inGlobal EXCEPT ![q] = FALSE]
    /\ held' = [held EXCEPT ![w] = None]
    /\ cur' = [cur EXCEPT ![w] = None]
    /\ CallRelease(w, cur[w], "loop")
    /\ UNCHANGED <<ctxVars, mq, release, mqlife, Q, nq, left, dead, launchVars, ops>>

\* skynet_mq_pop returned a message.  Only the first one of a dispatch
\* determines the size of the batch.
PopMessage(w) ==
    LET q == held[w] IN
    /\ pc[w] \in {"pop0", "pop"}
    /\ mq[q] # <<>>
    /\ mq' = [mq EXCEPT ![q] = Tail(@)]
    /\ Goto(w, IF pc[w] = "pop0" /\ Weight[w] >= 0 THEN "weigh" ELSE "cb")
    /\ left' = [left EXCEPT ![w] = IF pc[w] = "pop0" THEN 0 ELSE @ - 1]
    /\ UNCHANGED <<ctxVars, inGlobal, release, mqlife, Q, ret, held, nq, cur, dst, dead,
                   launchVars, ops>>

\* n = skynet_mq_length(q) >> weight, read after the pop and after its unlock
BatchSize(n, weight) == n \div <<1, 2, 4, 8>>[weight + 1]

Weigh(w) ==
    LET n == BatchSize(Len(mq[held[w]]), Weight[w]) IN
    /\ pc[w] = "weigh"
    /\ left' = [left EXCEPT ![w] = IF n > 0 THEN n - 1 ELSE 0]
    /\ Goto(w, "cb")
    /\ UNCHANGED <<ctxVars, queueVars, ret, held, nq, cur, dst, dead, launchVars, ops>>

\* the callback returns (dispatch_message, or no callback was set)
CallbackDone(w) ==
    /\ pc[w] = "cb"
    /\ Goto(w, IF left[w] > 0 THEN "pop" ELSE "yield")
    /\ UNCHANGED <<ctxVars, queueVars, ret, dispatchVars, dst, dead, launchVars, ops>>

\* mutant: the queue is kept and pushed back as well
YieldKeepPush(w) ==
    /\ pc[w] = "yield"
    /\ Q = <<>>
    /\ Q' = <<held[w]>>
    /\ cur' = [cur EXCEPT ![w] = None]
    /\ CallRelease(w, cur[w], "loop")
    /\ UNCHANGED <<ctxVars, mq, inGlobal, release, mqlife, held, nq, left, dead,
                   launchVars, ops>>

\* the batch is done and no other queue waits: keep this one
YieldKeep(w) ==
    /\ pc[w] = "yield"
    /\ Q = <<>>
    /\ cur' = [cur EXCEPT ![w] = None]
    /\ CallRelease(w, cur[w], "loop")
    /\ UNCHANGED <<ctxVars, queueVars, held, nq, left, dead, launchVars, ops>>

\* another queue waits: take it ...
YieldTake(w) ==
    /\ pc[w] = "yield"
    /\ Q # <<>>
    /\ nq' = [nq EXCEPT ![w] = Head(Q)]
    /\ Q' = Tail(Q)
    /\ Goto(w, "pushback")
    /\ UNCHANGED <<ctxVars, mq, inGlobal, release, mqlife, ret, held, cur, left, dst, dead,
                   launchVars, ops>>

\* ... and push this one back
PushBack(w) ==
    /\ pc[w] = "pushback"
    /\ Q' = Append(Q, held[w])
    /\ held' = [held EXCEPT ![w] = nq[w]]
    /\ nq' = [nq EXCEPT ![w] = None]
    /\ cur' = [cur EXCEPT ![w] = None]
    /\ CallRelease(w, cur[w], "loop")
    /\ UNCHANGED <<ctxVars, mq, inGlobal, release, mqlife, left, dead, launchVars, ops>>

-----------------------------------------------------------------------------
(* skynet_mq_release of a queue whose handle is gone: held by a dispatch,  *)
(* or newq of a launch that failed                                         *)

GiveUpQueue(t) ==
    IF newq[t] # None
      THEN /\ newq' = [newq EXCEPT ![t] = None]
           /\ Goto(t, "cb")
           /\ UNCHANGED held
      ELSE /\ held' = [held EXCEPT ![t] = None]
           /\ Goto(t, "loop")
           /\ UNCHANGED newq

\* mutant: a queue that cannot be dropped yet is forgotten
MqReleaseForget(t) ==
    /\ pc[t] = "mqrel"
    /\ ~release[DropQueue(t)]
    /\ GiveUpQueue(t)
    /\ UNCHANGED <<ctxVars, queueVars, ret, nq, cur, left, dst, dead, born, ops>>

\* somebody still holds a reference: back into the global queue
MqReleaseLater(t) ==
    LET q == DropQueue(t) IN
    /\ pc[t] = "mqrel"
    /\ ~release[q]
    /\ Q' = Append(Q, q)
    /\ GiveUpQueue(t)
    /\ UNCHANGED <<ctxVars, mq, inGlobal, release, mqlife, ret, nq, cur, left, dst, dead,
                   born, ops>>

\* mutant: the queue is dropped as soon as the handle is gone
MqReleaseEager(t) ==
    /\ pc[t] = "mqrel"
    /\ Goto(t, "drop")
    /\ UNCHANGED <<ctxVars, queueVars, ret, dispatchVars, dst, dead, launchVars, ops>>

\* the context is deleted: drop the queue
MqReleaseNow(t) ==
    /\ pc[t] = "mqrel"
    /\ release[DropQueue(t)]
    /\ Goto(t, "drop")
    /\ UNCHANGED <<ctxVars, queueVars, ret, dispatchVars, dst, dead, launchVars, ops>>

\* _drop_queue: pop one message and report an error to its source.  The
\* pop is joined with the grab of drop_message: the context is freed, so no
\* other thread reaches this queue any more.
DropMessage(t) ==
    LET q == DropQueue(t)
        s == Head(mq[q]).src
    IN
    /\ pc[t] = "drop"
    /\ mq[q] # <<>>
    /\ mq' = [mq EXCEPT ![q] = Tail(@)]
    /\ \/ /\ s \in slot
          /\ GrabInto(t, s)
          /\ ret' = [ret EXCEPT ![t] = "drop"]
          /\ Goto(t, "spush")
       \/ /\ s \notin slot
          /\ UNCHANGED <<ref, dst, ret, pc>>
    /\ UNCHANGED <<slot, life, inited, inGlobal, release, mqlife, Q, dispatchVars, dead,
                   launchVars, ops>>

\* the queue is empty: _release frees it
DropDone(t) ==
    LET q == DropQueue(t) IN
    /\ pc[t] = "drop"
    /\ mq[q] = <<>>
    /\ inGlobal' = [inGlobal EXCEPT ![q] = FALSE]
    /\ mqlife' = [mqlife EXCEPT ![q] = "freed"]
    /\ GiveUpQueue(t)
    /\ UNCHANGED <<ctxVars, mq, release, Q, ret, nq, cur, left, dst, dead, born, ops>>

-----------------------------------------------------------------------------
\* what a thread does by itself, once user code has returned
Progress(t) ==
    \/ ContextRelease(t) \/ DeleteContext(t) \/ MqPush(t)
    \/ InitOk(t) \/ SetInit(t) \/ NewPush(t) \/ InitFail(t) \/ FailRetire(t)
    \/ GlobalPop(t) \/ KeepQueue(t) \/ DispatchGrab(t)
    \/ PopEmpty(t) \/ PopMessage(t) \/ Weigh(t) \/ CallbackDone(t)
    \/ YieldKeep(t) \/ YieldTake(t) \/ PushBack(t)
    \/ MqReleaseLater(t) \/ MqReleaseNow(t) \/ DropMessage(t) \/ DropDone(t)

UserCode(t) == \E c \in Ctx : Send(t, c) \/ Touch(t, c) \/ Kill(t, c) \/ Launch(t, c)

Next == \E t \in Thread : Progress(t) \/ UserCode(t)

Spec == Init /\ [][Next]_vars

\* The scheduler of the operating system runs every thread, and callbacks
\* return; nothing makes user code send, kill or launch.
FairSpec == Spec /\ \A t \in Thread : WF_vars(Progress(t))

-----------------------------------------------------------------------------
(* Properties                                                              *)

\* Every variable keeps its type; in particular no reference count goes
\* below zero and user code stays within its bound.
TypeOK ==
    /\ ref \in [Ctx -> Nat]
    /\ slot \subseteq Ctx
    /\ life \in [Ctx -> {"none", "live", "freed"}]
    /\ inited \in [Ctx -> BOOLEAN]
    /\ mq \in [Ctx -> Seq(Msg)]
    /\ inGlobal \in [Ctx -> BOOLEAN]
    /\ release \in [Ctx -> BOOLEAN]
    /\ mqlife \in [Ctx -> {"none", "live", "freed"}]
    /\ Q \in Seq(Ctx)
    /\ pc \in [Thread -> PC]
    /\ ret \in [Thread -> PC]
    /\ held \in [Thread -> Ptr]
    /\ nq \in [Thread -> Ptr]
    /\ cur \in [Thread -> Ptr]
    /\ left \in [Thread -> Nat]
    /\ dst \in [Thread -> Ptr]
    /\ dead \in [Thread -> Ptr]
    /\ born \in [Thread -> Ptr]
    /\ newq \in [Thread -> Ptr]
    /\ ops \in 0..MaxOps

\* the references to c that the code holds: the slot of the handle storage
\* and the local variables of the threads
Holders(c) ==
    {<<"slot", None>> : x \in slot \cap {c}}
      \cup {<<"cur", t>> : t \in {u \in Thread : cur[u] = c}}
      \cup {<<"dst", t>> : t \in {u \in Thread : dst[u] = c}}
      \cup {<<"born", t>> : t \in {u \in Thread : born[u] = c}}

\* The reference count is the number of references held: nothing leaks a
\* reference and nothing releases one twice.
RefCount ==
    \A c \in Ctx : IsFiniteSet(Holders(c)) /\ ref[c] = Cardinality(Holders(c))

InQ(c) == \E i \in 1..Len(Q) : Q[i] = c

QDistinct == \A i, j \in 1..Len(Q) : Q[i] = Q[j] => i = j

\* A local variable of thread t holds queue c
OwnedBy(t, c) == held[t] = c \/ nq[t] = c \/ newq[t] = c

Owned(c) == InQ(c) \/ \E t \in Thread : OwnedBy(t, c)

\* Every queue has at most one owner: a position of the global queue, or one
\* local variable of the worker dispatching it or launching its service.  So
\* no queue is linked into the global queue twice (the assertions on
\* queue->next) or popped by two workers.
OneOwner ==
    /\ QDistinct
    /\ \A t \in Thread, c \in Ctx : OwnedBy(t, c) => ~InQ(c)
    /\ \A t, u \in Thread, c \in Ctx : OwnedBy(t, c) /\ OwnedBy(u, c) => t = u
    /\ \A t \in Thread :
         /\ held[t] # None => held[t] # nq[t] /\ held[t] # newq[t]
         /\ nq[t] # None => nq[t] # newq[t]

\* A queue nobody owns is empty, belongs to a context that is not deleted, and
\* will be put back by the next push or mark_release: no wakeup is lost.
UnownedIsIdle ==
    \A c \in Ctx : mqlife[c] = "live" /\ ~Owned(c)
                      => mq[c] = <<>> /\ ~release[c] /\ ~inGlobal[c]

\* A context's callback and its init function never run on two threads at
\* once (CHECKCALLING_BEGIN), although any worker may dispatch it.
ExclusiveDispatch ==
    \A t, u \in Thread :
       /\ t # u /\ cur[t] # None => cur[u] # cur[t]
       /\ born[t] # None => cur[u] # born[t] /\ (t # u => born[u] # born[t])

\* dispatch_message's assert(ctx->init): no message is dispatched to a
\* service before skynet_context_new has finished with it.
InitBeforeDispatch == \A t \in Thread : cur[t] # None => inited[cur[t]]

\* No reference in use points to a deleted context, no queue in use has been
\* freed, and a message is never pushed to a queue that is being dropped.
NoUseAfterFree ==
    /\ \A t \in Thread :
         /\ \A c \in {cur[t], dst[t], dead[t], born[t]} \ {None} :
              life[c] = "live" /\ mqlife[c] = "live" /\ ~release[c]
         /\ \A q \in {held[t], nq[t], newq[t]} \ {None} : mqlife[q] = "live"
    /\ \A i \in 1..Len(Q) : mqlife[Q[i]] = "live"

\* The messages a worker still has to handle in its batch are in the queue:
\* only the first pop of a dispatch can find the queue empty.
BatchFits ==
    \A w \in Worker : cur[w] # None /\ pc[w] # "pop0" => left[w] <= Len(mq[held[w]])

\* An error report names a service that is gone, so dropping it reports
\* nothing further: error reports do not go back and forth between dying
\* services.
ErrorsFromDead ==
    \A c \in Ctx : \A i \in 1..Len(mq[c]) :
       mq[c][i].err => mq[c][i].src # None /\ mq[c][i].src \notin slot

\* When every worker is about to sleep and no other thread is in the middle of
\* anything, no message is left undelivered and no deleted service's queue is
\* left behind.
IdleMeansDone ==
    /\ \A w \in Worker : pc[w] = "loop" /\ held[w] = None
    /\ \A t \in Outside : pc[t] = "out"
    /\ Q = <<>>
    => \A c \in Ctx : mqlife[c] = "live" => mq[c] = <<>> /\ life[c] = "live" /\ c \in slot

\* a released queue does not grow, and what is freed does not change
ReleasedShrinks(c) ==
    /\ release[c] => Len(mq'[c]) <= Len(mq[c])
    /\ mqlife[c] = "freed" => UNCHANGED <<mq[c], mqlife[c], life[c]>>

\* No step pushes to a queue whose context is deleted, or writes to a queue
\* that is freed: a sender's reference keeps both alive until it has pushed.
NoPushAfterRelease == [][\A c \in Ctx : ReleasedShrinks(c)]_vars

\* Every message is eventually dispatched, or dropped with an error report.
EveryMessageHandled == \A c \in Ctx : mq[c] # <<>> ~> mq[c] = <<>>

\* A retired service is eventually deleted together with its queue.
EventuallyReclaimed ==
    \A c \in Ctx : life[c] # "none" /\ c \notin slot ~> mqlife[c] = "freed"

-----------------------------------------------------------------------------
(* The inductive invariant behind these properties                         *)

\* where thread t is, or goes on after the send or release it is making
At(t) == IF pc[t] \in {"spush", "rel", "del"} THEN ret[t] ELSE pc[t]

Launching == {"init", "setinit", "newpush", "failretire"}

Dispatching == {"pop0", "weigh", "pop", "cb", "yield", "pushback"}

ReturnPoint == Running \cup {"loop", "setinit", "failretire", "mqrel", "drop"}

\* how the local variables of a thread follow its program counter
Control(t) ==
    /\ pc[t] \in {"spush", "rel", "del"} => ret[t] \in ReturnPoint
    /\ At(t) = "out" <=> t \in Outside
    /\ At(t) = "out" => held[t] = None
    /\ dst[t] # None <=> pc[t] \in {"spush", "rel"}
    /\ pc[t] = "spush" => ret[t] \in {"cb", "init", "out", "drop"}
    /\ dead[t] # None <=> pc[t] = "del"
    /\ born[t] # None <=> At(t) = "init"
    /\ born[t] # None => newq[t] = born[t]
    /\ pc[t] = "rel" /\ ret[t] = "setinit" => dst[t] = newq[t]
    /\ pc[t] = "del" /\ ret[t] = "setinit" => dead[t] = newq[t]
    /\ At(t) \in Launching => newq[t] # None
    /\ newq[t] # None => At(t) \in Launching \cup {"mqrel", "drop"}
    /\ cur[t] # None <=> At(t) \in Dispatching \/ newq[t] # None
    /\ cur[t] # None => held[t] = cur[t]
    /\ nq[t] # None <=> At(t) = "pushback"
    /\ At(t) \in {"grab", "mqrel", "drop"} => held[t] # None
    /\ pc[t] = "weigh" => Weight[t] >= 0
    /\ pc[t] = "pop" => left[t] > 0

ControlInv == \A t \in Thread : Control(t)

\* a queue is given up only after its handle is gone, and dropped only after
\* its context is
DropInv ==
    \A t \in Thread :
      /\ At(t) \in {"mqrel", "drop"} => DropQueue(t) \notin slot
      /\ At(t) = "drop" => release[DropQueue(t)]

\* a reference keeps its context alive, and the thread that drops the last
\* one is the only one to delete it
LifeInv ==
    /\ \A c \in Ctx : ref[c] > 0 => life[c] = "live"
    /\ \A c \in Ctx : release[c] <=> life[c] = "freed"
    /\ \A c \in Ctx : mqlife[c] = "none" <=> life[c] = "none"
    /\ \A c \in Ctx : mqlife[c] = "freed" => life[c] = "freed"
    /\ \A c \in Ctx : life[c] = "none" => mq[c] = <<>>
    /\ \A c \in Ctx : life[c] = "live" /\ ref[c] = 0 => \E t \in Thread : dead[t] = c
    /\ \A t \in Thread : dead[t] # None => ref[dead[t]] = 0 /\ life[dead[t]] = "live"
    /\ \A t, u \in Thread : dead[t] # None /\ dead[t] = dead[u] => t = u

\* an owned queue has not been freed, and is marked in_global unless its
\* context is deleted
OwnerInv ==
    /\ OneOwner
    /\ UnownedIsIdle
    /\ \A c \in Ctx : Owned(c) => mqlife[c] = "live"
    /\ \A c \in Ctx : Owned(c) /\ ~inGlobal[c] => release[c]

\* a registered service is initialised, or its launcher still owns its queue
InitInv ==
    /\ InitBeforeDispatch
    /\ \A c \in slot : \/ inited[c]
                        \/ \E t \in Thread :
                             newq[t] = c /\ At(t) \in {"init", "setinit", "failretire"}

\* the source of an error report was a service, and it is retired
ErrorInv ==
    \A c \in Ctx : \A i \in 1..Len(mq[c]) :
       mq[c][i].err => /\ mq[c][i].src \in Ctx \ slot
                       /\ life[mq[c][i].src] # "none"

\* The inductive invariant: with the local state of every thread it explains
\* why the counts, the owners, the life times and the error reports agree.
IndInv == TypeOK /\ ControlInv /\ DropInv /\ RefCount /\ LifeInv /\ OwnerInv /\ InitInv /\ ErrorInv
=============================================================================
