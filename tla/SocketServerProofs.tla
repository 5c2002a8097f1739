------------------------- MODULE SocketServerProofs -------------------------
(***************************************************************************)
(* Proofs about the socket server, for any number of threads, slots, ids   *)
(* and messages.  What is shown of a slot holds as long as none of the     *)
(* races that SocketServer names has hit it; the invariant therefore is    *)
(* one per slot, and a step that does not touch a slot keeps it (Frame).   *)
(***************************************************************************)
EXTENDS SocketServer, FiniteSetTheorems, SequenceTheorems, WellFoundedInduction, TLAPS

Id == 1..MaxId

Unit == Nat \X {1, 2}

SockType ==
    [type : {"INVALID", "RESERVE", "PLISTEN", "LISTEN", "CONNECTING", "CONNECTED", "HALFCLOSE", "PACCEPT"},
     id : 0..MaxId, fd : 0..MaxId, high : Seq(Unit), low : Seq(Unit), dw : Seq(Unit),
     lock : Worker \cup {Nobody, "poll"}, add : BOOLEAN, wr : BOOLEAN]

RequestType == [c : {"O", "L", "K", "H", "S"}, id : Id] \cup [c : {"D", "P"}, id : Id, n : Nat]

WorkerType ==
    [pc : {"idle"}] \cup [pc : {"reserved"}, id : Id, c : {"O", "L"}]
      \cup [pc : {"try", "locked", "post"}, n : Nat] \cup [pc : {"store"}, n : Nat, rest : Seq(Unit)]

DecideType == [pc : {"decide"}, slot : Slot, c : {"K", "H"}]

SendType ==
    {p \in [pc : {"send"}, slot : Slot, then : DecideType \cup {Top}] : p.then # Top => p.then.slot = p.slot}

PollType ==
    [pc : {"top", "event"}] \cup [pc : {"close"}, slot : Slot, why : {"K", "H", "err"}, ctrl : BOOLEAN]
      \cup SendType \cup DecideType
      \cup [pc : {"clear", "failed"}, slot : Slot, id : 0..MaxId] \cup [pc : {"conn"}, slot : Slot]

EventType == [slot : Slot, id : 0..MaxId, r : BOOLEAN, w : BOOLEAN]

MsgType == [by : Worker, to : Id, low : BOOLEAN]

\* a socket's id and its descriptor belong to its slot
SocketsTyped ==
    /\ sock \in [Slot -> SockType]
    /\ \A s \in Slot : /\ sock[s].id # 0 => HashId(sock[s].id) = s
                       /\ sock[s].fd # 0 => HashId(sock[s].fd) = s

\* a message goes where it was sent
PipeTyped ==
    /\ pipe \in Seq(RequestType)
    /\ \A i \in DOMAIN pipe : pipe[i].c \in {"D", "P"} => pipe[i].n \in DOMAIN msg /\ msg[pipe[i].n].to = pipe[i].id

\* a batch has one event of a socket
EventsTyped ==
    /\ ev \in Seq(EventType)
    /\ \A i, j \in DOMAIN ev : ev[i].slot = ev[j].slot => i = j

WorkersTyped ==
    /\ wk \in [Worker -> WorkerType]
    /\ \A w \in Worker : wk[w].pc \in {"try", "locked", "store", "post"} => wk[w].n \in DOMAIN msg

\* Types, and what holds in every slot.
SocketType ==
    /\ SocketsTyped /\ PipeTyped /\ EventsTyped /\ WorkersTyped
    /\ alloc \in Nat
    /\ poll \in PollType
    /\ known \subseteq Id
    /\ msg \in Seq(MsgType)
    /\ wire \in [Id -> Seq(Unit)]
    /\ raced \subseteq Nat

-----------------------------------------------------------------------------
(* The invariant of a slot that no race has hit                            *)

Dead == {"INVALID", "RESERVE"}

On(pc, s) == poll.pc = pc /\ poll.slot = s

\* the poll thread is in the middle of something with slot s
About(s) == poll.pc \notin {"top", "event"} /\ poll.slot = s

\* worker w has the lock of slot s, as far as it knows
Holds(w, s) == wk[w].pc \in {"locked", "store"} /\ HashId(msg[wk[w].n].to) = s

\* worker w has reserved slot s; the request i is to open it
Opening(w, s) == wk[w].pc = "reserved" /\ HashId(wk[w].id) = s

Asks(r, s) == r.c \in {"O", "L"} /\ HashId(r.id) = s

\* the units in list were sent to id
To(list, id) == \A i \in DOMAIN list : list[i][1] \in DOMAIN msg /\ msg[list[i][1]].to = id

Bound(s) ==
    sock[s].type \notin Dead => sock[s].fd = sock[s].id /\ sock[s].id \in Id /\ HashId(sock[s].id) = s

\* Only a socket that connects or is connected has anything to write.
Bare(s) ==
    sock[s].type \in Dead \cup {"PACCEPT", "PLISTEN", "LISTEN"} =>
        sock[s].high = <<>> /\ sock[s].low = <<>> /\ sock[s].dw = <<>>

\* One thread at a time opens the slot: it has reserved it, or its request is
\* in the pipe.
Reserved(s) ==
    /\ \A w \in Worker : Opening(w, s) =>
          /\ sock[s].type = "RESERVE"
          /\ \A v \in Worker : Opening(v, s) => v = w
          /\ \A i \in DOMAIN pipe : ~Asks(pipe[i], s)
    /\ \A i \in DOMAIN pipe : Asks(pipe[i], s) =>
          /\ sock[s].type = "RESERVE" /\ sock[s].id = pipe[i].id
          /\ \A j \in DOMAIN pipe : Asks(pipe[j], s) => i = j

\* The lock is held by the worker that thinks so; while a worker has a rest to
\* store the socket stays connected.
Locked(s) ==
    /\ \A w \in Worker : Holds(w, s) => sock[s].lock = w
    /\ \A w \in Worker : Holds(w, s) /\ wk[w].pc = "store" =>
          /\ sock[s].type \in {"CONNECTED", "HALFCLOSE"}
          /\ sock[s].id = msg[wk[w].n].to
          /\ sock[s].dw = <<>>
          /\ To(wk[w].rest, sock[s].id)
    /\ On("send", s) => sock[s].lock = "poll" /\ sock[s].dw = <<>>

\* The poll thread works on a socket that is open, or has failed to open one.
Polled(s) ==
    /\ On("send", s) \/ On("close", s) \/ On("decide", s) \/ On("conn", s) => sock[s].type \notin Dead
    /\ On("conn", s) => sock[s].type = "CONNECTED" /\ sock[s].wr
    /\ On("failed", s) => sock[s].type = "INVALID"
    /\ On("send", s) /\ poll.then = Top => sock[s].type # "CONNECTING"

Addressed(s) == To(sock[s].high, sock[s].id) /\ To(sock[s].low, sock[s].id) /\ To(sock[s].dw, sock[s].id)

\* An event is of the socket that is open, or was closed and clear_closed_event
\* comes next; the event that closes a socket was the last one of it.
Fresh(s) ==
    /\ \A i \in DOMAIN ev : ev[i].slot = s =>
          /\ sock[s].id = ev[i].id
          /\ sock[s].type \in Dead => sock[s].type = "INVALID" /\ On("clear", s) /\ poll.id = sock[s].id
    /\ (On("close", s) /\ ~poll.ctrl) \/ (On("send", s) /\ poll.then = Top) =>
          \A i \in DOMAIN ev : ev[i].slot # s

\* epoll watches an open connection, and for writing while there is something
\* to write or a connect is under way.
Watched(s) ==
    /\ sock[s].type \in {"CONNECTED", "CONNECTING", "HALFCLOSE"} /\ ~On("close", s) => sock[s].add
    /\ sock[s].add => sock[s].type \notin Dead
    /\ sock[s].type = "CONNECTING" => sock[s].wr \/ On("close", s) \/ (On("decide", s) /\ SendBufferEmpty(s))
    /\ /\ sock[s].type \in {"CONNECTED", "HALFCLOSE"} /\ ~On("close", s)
       /\ sock[s].high # <<>> \/ sock[s].low # <<>> \/ sock[s].dw # <<>>
       => sock[s].wr

Delivered(s) == \A id \in Id : HashId(id) = s => To(wire[id], id)

SlotInv(s) ==
    /\ Bound(s) /\ Bare(s) /\ Reserved(s) /\ Locked(s) /\ Polled(s)
    /\ Addressed(s) /\ Fresh(s) /\ Watched(s) /\ Delivered(s)

SocketInv ==
    /\ SocketType
    /\ \A s \in Slot : Calm(s) => SlotInv(s)
    /\ AbortsAreExplained

-----------------------------------------------------------------------------
\* Every id has its slot.
LEMMA HashSlot == \A id \in Nat : HashId(id) \in Slot
BY SocketAssumption DEF HashId, Slot

\* The invariant holds of an empty socket server.
LEMMA SocketInit == Init => SocketInv
<1> SUFFICES ASSUME Init PROVE SocketInv
  OBVIOUS
<1>0. 1 \in Id /\ HashId(1) \in Slot /\ 0 # 1 /\ 1 \in 0..MaxId /\ 0 \in 0..MaxId
  BY HashSlot, SocketAssumption DEF Id
<1>a. pipe = <<>> /\ ev = <<>> /\ msg = <<>> /\ (\A id \in Id : wire[id] = <<>>)
  BY Zenon DEF Init, Id
<1>b. DOMAIN pipe = {} /\ DOMAIN ev = {} /\ DOMAIN msg = {} /\ (\A id \in Id : DOMAIN wire[id] = {})
  BY <1>a
<1>1. /\ pipe \in Seq(RequestType) /\ ev \in Seq(EventType) /\ msg \in Seq(MsgType)
      /\ \A id \in Id : wire[id] \in Seq(Unit)
  <2>1. \A S : <<>> \in Seq(S)
    OBVIOUS
  <2> QED
    BY <1>a, <2>1
<1>2. poll = Top /\ poll.pc = "top" /\ poll \in PollType
  BY Zenon DEF Init, Top, PollType
<1>3. \A w \in Worker : wk[w] = Idle /\ wk[w].pc = "idle" /\ wk[w] \in WorkerType
  BY Zenon DEF Init, Idle, WorkerType
<1>4. ASSUME NEW s \in Slot
      PROVE  /\ sock[s] \in SockType
             /\ sock[s].high = <<>> /\ sock[s].low = <<>> /\ sock[s].dw = <<>>
             /\ \/ s # HashId(1) /\ sock[s].type = "INVALID" /\ sock[s].id = 0 /\ sock[s].fd = 0 /\ ~sock[s].add
                \/ s = HashId(1) /\ sock[s].type = "LISTEN" /\ sock[s].id = 1 /\ sock[s].fd = 1
  <2>1. Free \in SockType
    BY <1>0 DEF Free, SockType
  <2>2. CASE s # HashId(1)
    <3>1. sock[s] = Free
      BY Zenon, <2>2 DEF Init
    <3> QED
      BY <2>1, <2>2, <3>1 DEF Free
  <2>3. CASE s = HashId(1)
    <3>1. sock[s] = [Free EXCEPT !.type = "LISTEN", !.id = 1, !.fd = 1, !.add = TRUE]
      BY Zenon, <2>3 DEF Init
    <3>2. sock[s] \in SockType
      BY <1>0, <2>1, <3>1 DEF SockType
    <3> QED
      BY <2>3, <3>1, <3>2 DEF Free
  <2> QED
    BY <2>2, <2>3
<1>5. SocketType
  <2>1. sock \in [Slot -> SockType]
    BY Zenon, <1>4 DEF Init
  <2>2. wk \in [Worker -> WorkerType]
    BY Zenon, <1>3 DEF Init
  <2>3. wire \in [Id -> Seq(Unit)]
    BY Zenon, <1>1 DEF Init, Id
  <2>4. alloc \in Nat /\ known \subseteq Id /\ raced \subseteq Nat
    BY Zenon, <1>0 DEF Init
  <2> QED
    BY <1>0, <1>b, <1>1, <1>2, <1>3, <1>4, <2>1, <2>2, <2>3, <2>4 DEF SocketType, SocketsTyped, PipeTyped, EventsTyped, WorkersTyped
<1>6. ASSUME NEW s \in Slot PROVE SlotInv(s)
  <2>0. DOMAIN sock[s].high = {} /\ DOMAIN sock[s].low = {} /\ DOMAIN sock[s].dw = {}
    BY <1>4
  <2>1. Bound(s) /\ Bare(s) /\ Watched(s)
    BY <1>0, <1>4 DEF Bound, Bare, Watched, Dead
  <2>2. Reserved(s) /\ Locked(s) /\ Polled(s) /\ Fresh(s)
    BY <1>b, <1>2, <1>3 DEF Reserved, Locked, Polled, Fresh, Opening, Holds, On
  <2>3. Delivered(s) /\ Addressed(s)
    BY <1>b, <2>0 DEF Delivered, Addressed, To
  <2> QED
    BY <2>1, <2>2, <2>3 DEF SlotInv
<1>7. AbortsAreExplained
  BY Zenon DEF Init, AbortsAreExplained
<1> QED
  BY <1>5, <1>6, <1>7 DEF SocketInv

-----------------------------------------------------------------------------
(* What a step leaves alone                                                *)

MsgKept == \A n \in DOMAIN msg : n \in DOMAIN msg' /\ msg'[n] = msg[n]

\* The requests to open slot t that are in the pipe now were there before, one
\* place later when the step has taken a request.
PipeKept(t) ==
    \E d \in {0, 1} : \A i \in DOMAIN pipe' :
        Asks(pipe'[i], t) => i + d \in DOMAIN pipe /\ pipe[i + d] = pipe'[i]

EvKept(t) ==
    \A i \in DOMAIN ev' : ev'[i].slot = t => \E j \in DOMAIN ev : ev[j].slot = t /\ ev[j].id = ev'[i].id

OpeningKept(t) == \A w \in Worker : Opening(w, t)' => Opening(w, t)

HoldsKept(t) == \A w \in Worker : Holds(w, t)' => Holds(w, t) /\ wk'[w] = wk[w]

WireKept(t) == \A id \in Id : HashId(id) = t => wire'[id] = wire[id]

\* (clear_closed_event of a socket that was not open does no harm)
PollKept(t) == poll' = poll \/ (~About(t) /\ (About(t)' => poll'.pc = "clear"))

Untouched(t) ==
    sock'[t] = sock[t] /\ OpeningKept(t) /\ PipeKept(t) /\ HoldsKept(t) /\ EvKept(t) /\ WireKept(t) /\ PollKept(t)

\* A slot stays reserved by one thread or one request.
LEMMA ReservedFrame ==
  ASSUME NEW t \in Slot, Reserved(t), OpeningKept(t), PipeKept(t), pipe' \in Seq(RequestType),
         sock[t].type = "RESERVE" => sock'[t].type = "RESERVE" /\ sock'[t].id = sock[t].id
  PROVE  Reserved(t)'
<1>1. PICK d \in {0, 1} : \A i \in DOMAIN pipe' : Asks(pipe'[i], t) => i + d \in DOMAIN pipe /\ pipe[i + d] = pipe'[i]
  BY DEF PipeKept
<1>2. \A w \in Worker : Opening(w, t)' => Opening(w, t)
  BY DEF OpeningKept
<1>3. \A i \in DOMAIN pipe' : Asks(pipe'[i], t) =>
        /\ i + d \in DOMAIN pipe /\ Asks(pipe[i + d], t) /\ pipe[i + d].id = pipe'[i].id
        /\ sock'[t].type = "RESERVE" /\ sock'[t].id = pipe'[i].id
  BY <1>1 DEF Reserved
<1>4. \A w \in Worker : Opening(w, t)' =>
          /\ sock'[t].type = "RESERVE"
          /\ \A v \in Worker : Opening(v, t)' => v = w
          /\ \A i \in DOMAIN pipe' : ~Asks(pipe'[i], t)
  BY <1>2, <1>3 DEF Reserved
<1>5. \A i, j \in DOMAIN pipe' : Asks(pipe'[i], t) /\ Asks(pipe'[j], t) => i = j
  <2> SUFFICES ASSUME NEW i \in DOMAIN pipe', NEW j \in DOMAIN pipe', Asks(pipe'[i], t), Asks(pipe'[j], t)
               PROVE  i = j
    OBVIOUS
  <2>1. i + d = j + d
    BY <1>3 DEF Reserved
  <2>2. i \in Nat /\ j \in Nat /\ d \in Nat
    OBVIOUS
  <2> QED
    BY <2>1, <2>2
<1> QED
  BY <1>3, <1>4, <1>5 DEF Reserved, Asks

\* A worker that did not move holds the lock for the same message.
LEMMA HoldsMsg ==
  ASSUME SocketType, MsgKept, NEW w \in Worker, NEW t \in Slot, wk'[w] = wk[w]
  PROVE  /\ Holds(w, t) <=> Holds(w, t)'
         /\ Holds(w, t) => wk[w].n \in DOMAIN msg /\ msg'[wk[w].n].to = msg[wk[w].n].to
BY DEF SocketType, WorkersTyped, MsgKept, Holds

\* A lock that is not touched is still held by the same worker, for the same
\* socket.
LEMMA LockedFrame ==
  ASSUME NEW t \in Slot, SocketType, Locked(t), HoldsKept(t), MsgKept,
         sock'[t].lock = sock[t].lock, sock'[t].dw = sock[t].dw,
         sock[t].type \in {"CONNECTED", "HALFCLOSE"} =>
            sock'[t].id = sock[t].id /\ sock'[t].type \in {"CONNECTED", "HALFCLOSE"},
         On("send", t)' => On("send", t)
  PROVE  Locked(t)'
<1>1. ASSUME NEW w \in Worker, Holds(w, t)' PROVE sock'[t].lock = w
  BY <1>1 DEF HoldsKept, Locked
<1>2. ASSUME NEW w \in Worker, Holds(w, t)', wk'[w].pc = "store"
      PROVE  /\ sock'[t].type \in {"CONNECTED", "HALFCLOSE"}
             /\ sock'[t].id = msg'[wk'[w].n].to
             /\ sock'[t].dw = <<>>
             /\ To(wk[w].rest, sock[t].id)'
  <2>1. Holds(w, t) /\ wk'[w] = wk[w] /\ wk[w].pc = "store"
    BY <1>2 DEF HoldsKept
  <2>2. /\ sock[t].type \in {"CONNECTED", "HALFCLOSE"} /\ sock[t].id = msg[wk[w].n].to
        /\ sock[t].dw = <<>> /\ To(wk[w].rest, sock[t].id)
    BY <2>1 DEF Locked
  <2>3. To(wk[w].rest, sock[t].id)'
    BY <2>1, <2>2 DEF To, MsgKept
  <2>4. msg'[wk[w].n].to = msg[wk[w].n].to
    BY <2>1, HoldsMsg
  <2> QED
    BY <2>1, <2>2, <2>3, <2>4
<1>3. On("send", t)' => sock'[t].lock = "poll" /\ sock'[t].dw = <<>>
  BY DEF Locked
<1> QED
  BY <1>1, <1>2, <1>3 DEF Locked

\* Lists that are not touched hold what was sent to their id.
LEMMA AddressedFrame ==
  ASSUME NEW t \in Slot, Addressed(t), MsgKept, sock'[t].id = sock[t].id,
         sock'[t].high = sock[t].high, sock'[t].low = sock[t].low, sock'[t].dw = sock[t].dw
  PROVE  Addressed(t)'
<1>1. To(sock[t].high, sock[t].id)' /\ To(sock[t].low, sock[t].id)' /\ To(sock[t].dw, sock[t].id)'
  BY DEF Addressed, To, MsgKept
<1> QED
  BY <1>1 DEF Addressed

\* A wire that is not touched carries what was sent to its id.
LEMMA DeliveredFrame ==
  ASSUME NEW t \in Slot, Delivered(t), MsgKept, WireKept(t)
  PROVE  Delivered(t)'
<1> SUFFICES ASSUME NEW id \in Id, HashId(id) = t PROVE To(wire[id], id)'
  BY DEF Delivered
<1>1. wire'[id] = wire[id] /\ To(wire[id], id)
  BY DEF WireKept, Delivered
<1> QED
  BY <1>1 DEF To, MsgKept

\* Events stay fresh while the slot is not given to another socket.
LEMMA FreshFrame ==
  ASSUME NEW t \in Slot, Fresh(t), EvKept(t), PollKept(t), sock'[t].id = sock[t].id,
         sock'[t].type = sock[t].type \/ sock'[t].type \notin Dead
  PROVE  Fresh(t)'
<1>1. ASSUME NEW i \in DOMAIN ev', ev'[i].slot = t
      PROVE  /\ sock'[t].id = ev'[i].id
             /\ sock'[t].type \in Dead => sock'[t].type = "INVALID" /\ On("clear", t)' /\ poll'.id = sock'[t].id
  <2>1. PICK j \in DOMAIN ev : ev[j].slot = t /\ ev[j].id = ev'[i].id
    BY <1>1 DEF EvKept
  <2> QED
    BY <2>1 DEF Fresh, PollKept, About, On
<1>2. (On("close", t)' /\ ~poll'.ctrl) \/ (On("send", t)' /\ poll'.then = Top) => \A i \in DOMAIN ev' : ev'[i].slot # t
  BY DEF Fresh, PollKept, About, On, EvKept
<1> QED
  BY <1>1, <1>2 DEF Fresh

\* A step that does not touch a slot keeps its invariant.
LEMMA Frame ==
  ASSUME SocketType, SocketType', MsgKept, NEW t \in Slot, SlotInv(t), Untouched(t)
  PROVE  SlotInv(t)'
<1>1. Reserved(t)'
  BY ReservedFrame DEF SlotInv, Untouched, SocketType, PipeTyped
<1>2. Locked(t)'
  <2>1. On("send", t)' => On("send", t)
    BY DEF Untouched, PollKept, On, About
  <2> QED
    BY <2>1, LockedFrame DEF SlotInv, Untouched
<1>3. Addressed(t)' /\ Delivered(t)'
  BY AddressedFrame, DeliveredFrame DEF SlotInv, Untouched
<1>4. Fresh(t)'
  BY FreshFrame DEF SlotInv, Untouched
<1>5. Bound(t)' /\ Bare(t)'
  BY DEF Untouched, Bound, Bare, SlotInv
<1>6. Polled(t)' /\ Watched(t)'
  BY DEF Untouched, Polled, Watched, SlotInv, PollKept, On, About, SendBufferEmpty
<1> QED
  BY <1>1, <1>2, <1>3, <1>4, <1>5, <1>6 DEF SlotInv

\* What is left to show for a step: the types, and the slots it touches.
LEMMA Assemble ==
  ASSUME SocketInv, SocketType', MsgKept, raced \subseteq raced', AbortsAreExplained',
         \A t \in Slot : Calm(t)' /\ Calm(t) /\ SlotInv(t) => Untouched(t) \/ SlotInv(t)'
  PROVE  SocketInv'
<1>1. ASSUME NEW t \in Slot, Calm(t)' PROVE SlotInv(t)'
  <2>1. Calm(t)
    BY <1>1 DEF Calm
  <2>2. SlotInv(t)
    BY <2>1 DEF SocketInv
  <2> QED
    BY <1>1, <2>1, <2>2, Frame DEF SocketInv
<1> QED
  BY <1>1 DEF SocketInv

\* The types of the sockets after a step that changes one.
LEMMA SockUpdate ==
  ASSUME SocketType, NEW s \in Slot, NEW x \in SockType, sock' = [sock EXCEPT ![s] = x],
         x.id # 0 => HashId(x.id) = s, x.fd # 0 => HashId(x.fd) = s
  PROVE  SocketsTyped' /\ sock'[s] = x /\ \A t \in Slot \ {s} : sock'[t] = sock[t]
BY DEF SocketType, SocketsTyped

\* A pipe that is not touched.
LEMMA PipeSame ==
  ASSUME SocketType, MsgKept, pipe' = pipe
  PROVE  PipeTyped' /\ \A t \in Slot : PipeKept(t)
<1>1. PipeTyped'
  BY DEF SocketType, PipeTyped, MsgKept
<1>2. \A t \in Slot : PipeKept(t)
  <2>1. \A i \in DOMAIN pipe : i + 0 = i
    BY DEF SocketType, PipeTyped
  <2> QED
    BY <2>1 DEF PipeKept
<1> QED
  BY <1>1, <1>2

\* A pipe whose first request is taken.
LEMMA PipeTaken ==
  ASSUME SocketType, msg' = msg, pipe # <<>>, pipe' = Tail(pipe)
  PROVE  /\ 1 \in DOMAIN pipe /\ Head(pipe) = pipe[1] /\ Head(pipe) \in RequestType
         /\ PipeTyped' /\ \A t \in Slot : PipeKept(t)
<1>1. /\ 1 \in DOMAIN pipe /\ Head(pipe) = pipe[1] /\ Head(pipe) \in RequestType
      /\ pipe' \in Seq(RequestType)
      /\ \A i \in DOMAIN pipe' : i + 1 \in DOMAIN pipe /\ pipe'[i] = pipe[i + 1]
  BY DEF SocketType, PipeTyped
<1>2. PipeTyped'
  BY <1>1 DEF SocketType, PipeTyped
<1>3. \A t \in Slot : PipeKept(t)
  BY <1>1 DEF PipeKept
<1> QED
  BY <1>1, <1>2, <1>3

\* A pipe with one more request.
LEMMA PipePosted ==
  ASSUME SocketType, MsgKept, NEW r \in RequestType, pipe' = Append(pipe, r),
         r.c \in {"D", "P"} => r.n \in DOMAIN msg' /\ msg'[r.n].to = r.id
  PROVE  /\ PipeTyped' /\ \A t \in Slot : ~Asks(r, t) => PipeKept(t)
         /\ DOMAIN pipe' = DOMAIN pipe \cup {Len(pipe) + 1}
         /\ Len(pipe) + 1 \notin DOMAIN pipe
         /\ pipe'[Len(pipe) + 1] = r
         /\ \A i \in DOMAIN pipe : pipe'[i] = pipe[i]
<1>1. /\ pipe' \in Seq(RequestType)
      /\ DOMAIN pipe' = DOMAIN pipe \cup {Len(pipe) + 1}
      /\ Len(pipe) + 1 \notin DOMAIN pipe
      /\ pipe'[Len(pipe) + 1] = r
      /\ \A i \in DOMAIN pipe : pipe'[i] = pipe[i]
  BY DEF SocketType, PipeTyped
<1>2. PipeTyped'
  BY <1>1 DEF SocketType, PipeTyped, MsgKept
<1>3. \A i \in DOMAIN pipe : i + 0 = i
  BY DEF SocketType, PipeTyped
<1>4. \A t \in Slot : ~Asks(r, t) => PipeKept(t)
  BY <1>1, <1>3 DEF PipeKept
<1> QED
  BY <1>1, <1>2, <1>4

\* Events that are not touched.
LEMMA EventsSame ==
  ASSUME SocketType, ev' = ev
  PROVE  EventsTyped' /\ \A t \in Slot : EvKept(t)
BY DEF SocketType, EventsTyped, EvKept

\* The first event is taken, and no other is of its slot.
LEMMA EventTaken ==
  ASSUME SocketType, ev # <<>>, ev' = Tail(ev)
  PROVE  /\ 1 \in DOMAIN ev /\ Head(ev) = ev[1] /\ Head(ev) \in EventType
         /\ EventsTyped' /\ \A t \in Slot : EvKept(t)
         /\ \A i \in DOMAIN ev' : ev'[i].slot # Head(ev).slot
<1>1. /\ 1 \in DOMAIN ev /\ Head(ev) = ev[1] /\ Head(ev) \in EventType
      /\ ev' \in Seq(EventType)
      /\ \A i \in DOMAIN ev' : i \in Nat /\ i + 1 \in DOMAIN ev /\ i + 1 # 1 /\ ev'[i] = ev[i + 1]
  BY DEF SocketType, EventsTyped
<1>2. \A i, j \in DOMAIN ev' : ev'[i].slot = ev'[j].slot => i + 1 = j + 1
  BY <1>1 DEF SocketType, EventsTyped
<1>3. EventsTyped'
  BY <1>1, <1>2 DEF EventsTyped
<1>4. \A i \in DOMAIN ev' : ev'[i].slot # Head(ev).slot
  BY <1>1 DEF SocketType, EventsTyped
<1>5. \A t \in Slot : EvKept(t)
  BY <1>1 DEF EvKept
<1> QED
  BY <1>1, <1>3, <1>4, <1>5

\* The first event has been read and is still to be written.
LEMMA EventRead ==
  ASSUME SocketType, ev # <<>>, ev' = [ev EXCEPT ![1].r = FALSE]
  PROVE  EventsTyped' /\ \A t \in Slot : EvKept(t)
<1>1. /\ 1 \in DOMAIN ev /\ ev' \in Seq(EventType) /\ DOMAIN ev' = DOMAIN ev
      /\ \A i \in DOMAIN ev : ev'[i].slot = ev[i].slot /\ ev'[i].id = ev[i].id
  <2> DEFINE e == [ev[1] EXCEPT !.r = FALSE]
  <2>1. 1 \in DOMAIN ev /\ ev[1] \in EventType
    BY DEF SocketType, EventsTyped
  <2>2. e \in EventType /\ e.slot = ev[1].slot /\ e.id = ev[1].id
    BY <2>1 DEF EventType
  <2>3. ev' = [ev EXCEPT ![1] = e]
    OBVIOUS
  <2> HIDE DEF e
  <2>4. ev \in [1..Len(ev) -> EventType] /\ Len(ev) \in Nat
    BY DEF SocketType, EventsTyped
  <2>5. ev' \in [1..Len(ev) -> EventType] /\ DOMAIN ev' = DOMAIN ev
    BY <2>1, <2>2, <2>3, <2>4
  <2>6. ev' \in Seq(EventType)
    BY <2>4, <2>5, SeqDef
  <2> QED
    BY <2>1, <2>2, <2>3, <2>5, <2>6
<1> QED
  BY <1>1 DEF SocketType, EventsTyped, EvKept

\* Workers that do not move.
LEMMA WorkersSame ==
  ASSUME SocketType, MsgKept, wk' = wk
  PROVE  WorkersTyped' /\ \A t \in Slot : HoldsKept(t) /\ OpeningKept(t)
<1>1. WorkersTyped'
  BY DEF SocketType, WorkersTyped, MsgKept
<1> QED
  BY <1>1, HoldsMsg DEF HoldsKept, OpeningKept, Opening

\* One worker moves.
LEMMA WorkerStepped ==
  ASSUME SocketType, MsgKept, NEW w \in Worker, NEW x \in WorkerType, wk' = [wk EXCEPT ![w] = x],
         x.pc \in {"try", "locked", "store", "post"} => x.n \in DOMAIN msg'
  PROVE  /\ WorkersTyped' /\ wk'[w] = x /\ \A v \in Worker \ {w} : wk'[v] = wk[v]
         /\ \A t \in Slot : ~Holds(w, t)' => HoldsKept(t)
         /\ \A t \in Slot : ~Opening(w, t)' => OpeningKept(t)
<1>1. wk' \in [Worker -> WorkerType] /\ wk'[w] = x /\ \A v \in Worker \ {w} : wk'[v] = wk[v]
  BY DEF SocketType, WorkersTyped
<1>2. WorkersTyped'
  BY <1>1 DEF SocketType, WorkersTyped, MsgKept
<1>3. \A t \in Slot : ~Holds(w, t)' => HoldsKept(t)
  BY <1>1, HoldsMsg DEF HoldsKept
<1>4. \A t \in Slot : ~Opening(w, t)' => OpeningKept(t)
  BY <1>1 DEF OpeningKept, Opening
<1> QED
  BY <1>1, <1>2, <1>3, <1>4

-----------------------------------------------------------------------------
(* The workers                                                             *)

\* A set of numbers has a least one.
LEMMA Least ==
  ASSUME NEW T, T \subseteq Nat, T # {}
  PROVE  \E x \in T : \A y \in T : x <= y
<1>1. PICK x \in T : \A y \in T : ~ (<<y, x>> \in OpToRel(<, Nat))
  BY Zenon, NatLessThanWellFounded, WFMin
<1>2. \A y \in T : ~ (y < x)
  BY <1>1 DEF OpToRel
<1> QED
  BY <1>2

\* The next id is one of a slot that is free.
LEMMA NextIdFree ==
  ASSUME SocketType, FreeIds # {}
  PROVE  /\ NextId \in Id /\ NextId \in Nat /\ HashId(NextId) \in Slot /\ sock[HashId(NextId)].type = "INVALID"
<1>1. FreeIds \subseteq Nat
  BY SocketAssumption DEF FreeIds, SocketType
<1>2. \E id \in FreeIds : \A other \in FreeIds : id <= other
  BY <1>1, Least
<1>3. NextId \in FreeIds
  BY <1>2 DEF NextId
<1> QED
  BY <1>1, <1>3, HashSlot, SocketAssumption DEF FreeIds, Id, SocketType

\* reserve_id takes a free slot, whose id is still the old one.
LEMMA ReserveInv ==
  ASSUME SocketInv, NEW w \in Opener, NEW c \in {"O", "L"}, Reserve(w, c)
  PROVE  SocketInv'
<1>1. SocketType /\ w \in Worker
  BY DEF SocketInv, Worker
<1>a. PICK id \in Id : id = NextId /\ id \in Nat
  BY <1>1, NextIdFree DEF Reserve
<1>s. PICK s \in Slot : s = HashId(id)
  BY <1>a, HashSlot
<1>2. sock[s].type = "INVALID"
  BY <1>1, <1>a, <1>s, NextIdFree DEF Reserve
<1>3. /\ sock' = [sock EXCEPT ![s].type = "RESERVE"]
      /\ alloc' = id
      /\ wk' = [wk EXCEPT ![w] = [pc |-> "reserved", id |-> id, c |-> c]]
      /\ raced' = IF poll.pc \in {"failed", "clear"} /\ poll.slot = s THEN raced \cup {id} ELSE raced
      /\ pipe' = pipe /\ ev' = ev /\ poll' = poll /\ known' = known /\ msg' = msg /\ wire' = wire /\ aborted' = aborted
  BY <1>a, <1>s DEF Reserve
<1>m. MsgKept
  BY <1>3 DEF MsgKept
<1>4. /\ sock'[s].type = "RESERVE" /\ sock'[s].id = sock[s].id /\ sock'[s].fd = sock[s].fd
      /\ sock'[s].high = sock[s].high /\ sock'[s].low = sock[s].low /\ sock'[s].dw = sock[s].dw
      /\ sock'[s].lock = sock[s].lock /\ sock'[s].add = sock[s].add /\ sock'[s].wr = sock[s].wr
      /\ \A t \in Slot \ {s} : sock'[t] = sock[t]
      /\ SocketsTyped'
  BY ZenonT(60), <1>1, <1>2, <1>3 DEF SocketType, SocketsTyped, SockType
<1>5. PipeTyped' /\ \A t \in Slot : PipeKept(t)
  BY <1>1, <1>3, <1>m, PipeSame
<1>6. EventsTyped' /\ \A t \in Slot : EvKept(t)
  BY <1>1, <1>3, EventsSame
<1>7. [pc |-> "reserved", id |-> id, c |-> c] \in WorkerType
  BY <1>2 DEF WorkerType
<1>8. /\ WorkersTyped' /\ wk'[w] = [pc |-> "reserved", id |-> id, c |-> c]
      /\ \A t \in Slot : ~Holds(w, t)' => HoldsKept(t)
      /\ \A t \in Slot : ~Opening(w, t)' => OpeningKept(t)
      /\ \A v \in Worker \ {w} : wk'[v] = wk[v]
  BY <1>1, <1>3, <1>7, <1>m, WorkerStepped
<1>9. \A t \in Slot : HoldsKept(t) /\ (t # s => OpeningKept(t))
  BY <1>8, <1>s DEF Holds, Opening
<1>10. SocketType'
  <2>1. raced' \subseteq Nat /\ alloc' \in Nat
    BY <1>1, <1>3, <1>a DEF SocketType
  <2> QED
    BY <1>1, <1>3, <1>4, <1>5, <1>6, <1>8, <2>1 DEF SocketType
<1>11. ASSUME NEW t \in Slot, t # s PROVE Untouched(t)
  BY <1>3, <1>4, <1>5, <1>6, <1>9, <1>11 DEF Untouched, WireKept, PollKept
<1>12. ASSUME SlotInv(s), Calm(s)' PROVE SlotInv(s)'
  <2>0. ~On("clear", s) /\ ~On("failed", s)
    BY <1>2, <1>3, <1>12, <1>s DEF Calm, On
  <2>1. Bound(s)' /\ Bare(s)'
    BY <1>2, <1>4, <1>12 DEF Bound, Bare, SlotInv, Dead
  <2>2. Reserved(s)'
    BY <1>2, <1>3, <1>4, <1>8, <1>12 DEF SlotInv, Reserved, Opening
  <2>3. Locked(s)'
    BY <1>1, <1>2, <1>3, <1>4, <1>9, <1>12, <1>m, LockedFrame DEF SlotInv, On
  <2>4. Polled(s)' /\ Watched(s)'
    BY <1>2, <1>3, <1>4, <1>12, <2>0 DEF SlotInv, Polled, Watched, On, Dead
  <2>5. Addressed(s)' /\ Delivered(s)'
    BY <1>3, <1>4, <1>12, <1>m, AddressedFrame, DeliveredFrame DEF SlotInv, WireKept
  <2>6. Fresh(s)'
    BY <1>2, <1>3, <1>4, <1>12, <2>0 DEF SlotInv, Fresh, Polled, On, Dead
  <2> QED
    BY <2>1, <2>2, <2>3, <2>4, <2>5, <2>6 DEF SlotInv
<1>13. raced \subseteq raced' /\ AbortsAreExplained'
  BY <1>3 DEF SocketInv, AbortsAreExplained, Calm
<1> QED
  BY <1>10, <1>11, <1>12, <1>13, <1>m, Assemble

\* The reserved slot gets its id, and the request to open it goes into the pipe.
LEMMA SendRequestInv ==
  ASSUME SocketInv, NEW w \in Worker, SendRequest(w)
  PROVE  SocketInv'
<1>1. SocketType
  BY DEF SocketInv
<1>2. wk[w] \in [pc : {"reserved"}, id : Id, c : {"O", "L"}]
  BY <1>1 DEF SendRequest, SocketType, WorkersTyped, WorkerType
<1>a. PICK id \in Id : id = wk[w].id /\ id \in Nat /\ id # 0 /\ id \in 0..MaxId
  BY <1>2, SocketAssumption DEF Id
<1>r. PICK r \in RequestType : r = [c |-> wk[w].c, id |-> id]
  BY <1>2, <1>a DEF RequestType
<1>s. PICK s \in Slot : s = HashId(id)
  BY <1>a, HashSlot
<1>3. /\ sock' = [sock EXCEPT ![s].id = id, ![s].fd = 0]
      /\ pipe' = Append(pipe, r)
      /\ known' = known \cup {id}
      /\ wk' = [wk EXCEPT ![w] = Idle]
      /\ wk[w].pc = "reserved"
      /\ ev' = ev /\ poll' = poll /\ alloc' = alloc /\ msg' = msg /\ wire' = wire /\ aborted' = aborted /\ raced' = raced
  BY <1>a, <1>r, <1>s DEF SendRequest
<1>m. MsgKept
  BY <1>3 DEF MsgKept
<1>4. /\ sock'[s].type = sock[s].type /\ sock'[s].id = id
      /\ sock'[s].high = sock[s].high /\ sock'[s].low = sock[s].low /\ sock'[s].dw = sock[s].dw
      /\ sock'[s].lock = sock[s].lock /\ sock'[s].add = sock[s].add /\ sock'[s].wr = sock[s].wr
      /\ \A t \in Slot \ {s} : sock'[t] = sock[t]
      /\ SocketsTyped'
  <2>1. sock[s] \in SockType
    BY <1>1 DEF SocketType, SocketsTyped
  <2>x. PICK x \in SockType : x = [sock[s] EXCEPT !.id = id, !.fd = 0]
    <3>1. 0 \in 0..MaxId
      BY SocketAssumption
    <3> QED
      BY <1>a, <2>1, <3>1 DEF SockType
  <2>2. /\ x.type = sock[s].type /\ x.id = id /\ x.fd = 0
        /\ x.high = sock[s].high /\ x.low = sock[s].low /\ x.dw = sock[s].dw
        /\ x.lock = sock[s].lock /\ x.add = sock[s].add /\ x.wr = sock[s].wr
    BY <2>1, <2>x DEF SockType
  <2>3. sock' = [sock EXCEPT ![s] = x]
    BY <1>1, <1>3, <2>x DEF SocketType, SocketsTyped
  <2> QED
    BY <1>1, <1>s, <2>2, <2>3, SockUpdate
<1>c. r.c \in {"O", "L"} /\ r.id = id /\ r.c \notin {"D", "P"}
  BY <1>2, <1>r
<1>5. /\ PipeTyped' /\ \A t \in Slot : ~Asks(r, t) => PipeKept(t)
      /\ DOMAIN pipe' = DOMAIN pipe \cup {Len(pipe) + 1}
      /\ Len(pipe) + 1 \notin DOMAIN pipe
      /\ pipe'[Len(pipe) + 1] = r
      /\ \A i \in DOMAIN pipe : pipe'[i] = pipe[i]
  BY <1>1, <1>3, <1>m, <1>c, PipePosted
<1>6. EventsTyped' /\ \A t \in Slot : EvKept(t)
  BY <1>1, <1>3, EventsSame
<1>7. Idle \in WorkerType /\ Idle.pc = "idle"
  BY DEF WorkerType, Idle
<1>8. /\ WorkersTyped' /\ wk'[w] = Idle
      /\ \A t \in Slot : ~Holds(w, t)' => HoldsKept(t)
      /\ \A t \in Slot : ~Opening(w, t)' => OpeningKept(t)
      /\ \A v \in Worker \ {w} : wk'[v] = wk[v]
  BY <1>1, <1>3, <1>7, <1>m, WorkerStepped
<1>9. \A t \in Slot : HoldsKept(t) /\ OpeningKept(t)
  BY <1>7, <1>8 DEF Holds, Opening
<1>10. SocketType'
  <2>1. known' \subseteq Id
    BY <1>1, <1>3 DEF SocketType
  <2> QED
    BY <1>1, <1>3, <1>4, <1>5, <1>6, <1>8, <2>1 DEF SocketType
<1>11. ASSUME NEW t \in Slot, t # s PROVE Untouched(t)
  <2>1. ~Asks(r, t)
    BY <1>c, <1>s, <1>11 DEF Asks
  <2> QED
    BY <1>3, <1>4, <1>5, <1>6, <1>9, <1>11, <2>1 DEF Untouched, WireKept, PollKept
<1>12. ASSUME SlotInv(s) PROVE SlotInv(s)'
  <2>0. Opening(w, s) /\ sock[s].type = "RESERVE" /\ \A i \in DOMAIN pipe : ~Asks(pipe[i], s)
    BY <1>3, <1>a, <1>s, <1>12 DEF SlotInv, Reserved, Opening
  <2>1. Bound(s)' /\ Bare(s)'
    BY <1>4, <1>12, <2>0 DEF Bound, Bare, SlotInv, Dead
  <2>2. Reserved(s)'
    <3>1. \A v \in Worker : ~Opening(v, s)'
      BY <1>7, <1>8, <1>12, <2>0 DEF SlotInv, Reserved, Opening
    <3>2. \A i \in DOMAIN pipe' : Asks(pipe'[i], s) => i = Len(pipe) + 1
      BY <1>5, <2>0
    <3> QED
      BY <1>4, <1>5, <1>c, <2>0, <3>1, <3>2 DEF Reserved, Asks
  <2>3. Locked(s)'
    BY <1>1, <1>3, <1>4, <1>9, <1>12, <1>m, <2>0, LockedFrame DEF SlotInv, On
  <2>4. Polled(s)' /\ Watched(s)'
    BY <1>3, <1>4, <1>12, <2>0 DEF SlotInv, Polled, Watched, On, Dead
  <2>5. Delivered(s)'
    BY <1>3, <1>12, <1>m, DeliveredFrame DEF SlotInv, WireKept
  <2>6. Addressed(s)'
    <3>1. sock'[s].high = <<>> /\ sock'[s].low = <<>> /\ sock'[s].dw = <<>>
      BY <1>4, <1>12, <2>0 DEF SlotInv, Bare, Dead
    <3>2. \A i \in DOMAIN <<>> : FALSE
      OBVIOUS
    <3> QED
      BY <3>1, <3>2 DEF Addressed, To
  <2>7. Fresh(s)'
    BY <1>3, <1>4, <1>12, <2>0 DEF SlotInv, Fresh, Polled, On, Dead
  <2> QED
    BY <2>1, <2>2, <2>3, <2>4, <2>5, <2>6, <2>7 DEF SlotInv
<1>13. raced \subseteq raced' /\ AbortsAreExplained'
  BY <1>3 DEF SocketInv, AbortsAreExplained, Calm
<1> QED
  BY <1>10, <1>11, <1>12, <1>13, <1>m, Assemble

\* A step that leaves the sockets, the poll thread and the wires alone, gives no
\* worker a lock or a slot and posts no request to open one.
LEMMA Harmless ==
  ASSUME SocketInv, SocketType', MsgKept, UNCHANGED <<sock, ev, poll, wire, aborted, raced>>,
         \A t \in Slot : HoldsKept(t) /\ OpeningKept(t) /\ PipeKept(t)
  PROVE  SocketInv'
<1>1. \A t \in Slot : EvKept(t)
  BY EventsSame DEF SocketInv
<1>2. \A t \in Slot : Untouched(t)
  BY <1>1 DEF Untouched, WireKept, PollKept
<1>3. raced \subseteq raced' /\ AbortsAreExplained'
  BY DEF SocketInv, AbortsAreExplained, Calm
<1> QED
  BY <1>2, <1>3, Assemble

\* A request to close, shut down or start keeps the invariant.
LEMMA RequestInv ==
  ASSUME SocketInv, NEW w \in Worker, NEW c \in {"K", "H", "S"}, NEW id \in known, Request(w, c, id)
  PROVE  SocketInv'
<1>1. SocketType /\ id \in Id
  BY DEF SocketInv, SocketType
<1>r. PICK r \in RequestType : r = [c |-> c, id |-> id]
  BY <1>1 DEF RequestType
<1>2. /\ pipe' = Append(pipe, r)
      /\ UNCHANGED <<sock, alloc, ev, poll, wk, known, msg, wire, aborted, raced>>
  BY <1>r DEF Request
<1>m. MsgKept
  BY <1>2 DEF MsgKept
<1>3. r.c \notin {"D", "P"} /\ \A t \in Slot : ~Asks(r, t)
  BY <1>r DEF Asks
<1>4. PipeTyped' /\ \A t \in Slot : PipeKept(t)
  BY <1>1, <1>2, <1>3, <1>m, PipePosted
<1>5. WorkersTyped' /\ \A t \in Slot : HoldsKept(t) /\ OpeningKept(t)
  BY <1>1, <1>2, <1>m, WorkersSame
<1>6. SocketType'
  BY <1>1, <1>2, <1>4, <1>5 DEF SocketType, SocketsTyped, EventsTyped
<1> QED
  BY <1>2, <1>4, <1>5, <1>6, <1>m, Harmless

\* A new message has the next number.
LEMMA MessageAdded ==
  ASSUME SocketType, NEW w \in Worker, NEW id \in Id, NEW low \in BOOLEAN, NewMessage(w, id, low)
  PROVE  /\ MsgKept /\ msg' \in Seq(MsgType)
         /\ Len(msg) + 1 \in Nat /\ Len(msg) + 1 \in DOMAIN msg' /\ msg'[Len(msg) + 1].to = id
<1>r. PICK r \in MsgType : r = [by |-> w, to |-> id, low |-> low]
  BY DEF MsgType
<1>1. msg' = Append(msg, r) /\ msg \in Seq(MsgType)
  BY <1>r DEF NewMessage, SocketType
<1>2. /\ msg' \in Seq(MsgType) /\ Len(msg) + 1 \in Nat
      /\ Len(msg) + 1 \in DOMAIN msg' /\ msg'[Len(msg) + 1] = r
      /\ \A i \in DOMAIN msg : i \in DOMAIN msg' /\ msg'[i] = msg[i]
  BY <1>1
<1> QED
  BY <1>2, <1>r DEF MsgKept

\* socket_server_send_lowpriority keeps the invariant.
LEMMA SendLowInv ==
  ASSUME SocketInv, NEW w \in Worker, NEW id \in known, SendLow(w, id)
  PROVE  SocketInv'
<1>1. SocketType /\ id \in Id
  BY DEF SocketInv, SocketType
<1>2. NewMessage(w, id, TRUE) /\ UNCHANGED <<sock, alloc, ev, poll, wk, known, wire, aborted, raced>>
  BY DEF SendLow
<1>3. /\ MsgKept /\ msg' \in Seq(MsgType)
      /\ Len(msg) + 1 \in Nat /\ Len(msg) + 1 \in DOMAIN msg' /\ msg'[Len(msg) + 1].to = id
  BY <1>1, <1>2, MessageAdded
<1>4. PipeTyped' /\ \A t \in Slot : PipeKept(t)
  <2>1. CASE pipe' = pipe
    BY <1>1, <1>3, <2>1, PipeSame
  <2>2. CASE pipe' = Append(pipe, [c |-> "P", id |-> id, n |-> Len(msg) + 1])
    <3>r. PICK r \in RequestType : r = [c |-> "P", id |-> id, n |-> Len(msg) + 1]
      BY <1>1, <1>3 DEF RequestType
    <3>1. /\ \A t \in Slot : ~Asks(r, t)
          /\ r.n \in DOMAIN msg' /\ msg'[r.n].to = r.id
      BY <3>r, <1>3 DEF Asks
    <3> QED
      BY <1>1, <1>3, <2>2, <3>r, <3>1, PipePosted
  <2> QED
    BY <2>1, <2>2 DEF SendLow
<1>5. WorkersTyped' /\ \A t \in Slot : HoldsKept(t) /\ OpeningKept(t)
  BY <1>1, <1>2, <1>3, WorkersSame
<1>6. SocketType'
  BY <1>1, <1>2, <1>3, <1>4, <1>5 DEF SocketType, SocketsTyped, EventsTyped
<1> QED
  BY <1>2, <1>3, <1>4, <1>5, <1>6, Harmless

\* The first look of socket_server_send, without the lock, keeps the invariant.
LEMMA SendStartInv ==
  ASSUME SocketInv, NEW w \in Worker, NEW id \in known, SendStart(w, id)
  PROVE  SocketInv'
<1>1. SocketType /\ id \in Id
  BY DEF SocketInv, SocketType
<1>2. NewMessage(w, id, FALSE) /\ UNCHANGED <<sock, alloc, pipe, ev, poll, known, wire, aborted, raced>>
  BY DEF SendStart
<1>3. /\ MsgKept /\ msg' \in Seq(MsgType)
      /\ Len(msg) + 1 \in Nat /\ Len(msg) + 1 \in DOMAIN msg' /\ msg'[Len(msg) + 1].to = id
  BY <1>1, <1>2, MessageAdded
<1>4. PipeTyped' /\ \A t \in Slot : PipeKept(t)
  BY <1>1, <1>2, <1>3, PipeSame
<1>5. WorkersTyped' /\ \A t \in Slot : HoldsKept(t) /\ OpeningKept(t)
  <2>1. CASE wk' = wk
    BY <1>1, <1>3, <2>1, WorkersSame
  <2>2. CASE wk' = [wk EXCEPT ![w] = [pc |-> IF CanDirectWrite(id) THEN "try" ELSE "post", n |-> Len(msg) + 1]]
    <3>p. PICK pc \in {"try", "post"} : pc = IF CanDirectWrite(id) THEN "try" ELSE "post"
      OBVIOUS
    <3>x. PICK x \in WorkerType : x = [pc |-> pc, n |-> Len(msg) + 1]
      BY <1>3 DEF WorkerType
    <3>1. x.n \in DOMAIN msg' /\ x.pc \notin {"locked", "store", "reserved"}
      BY <3>x, <1>3
    <3>2. /\ WorkersTyped' /\ wk'[w] = x
          /\ \A t \in Slot : ~Holds(w, t)' => HoldsKept(t)
          /\ \A t \in Slot : ~Opening(w, t)' => OpeningKept(t)
      BY <1>1, <1>3, <2>2, <3>p, <3>x, <3>1, WorkerStepped
    <3> QED
      BY <3>1, <3>2 DEF Holds, Opening
  <2> QED
    BY <2>1, <2>2 DEF SendStart
<1>6. SocketType'
  BY <1>1, <1>2, <1>3, <1>4, <1>5 DEF SocketType, SocketsTyped, EventsTyped
<1> QED
  BY <1>2, <1>3, <1>4, <1>5, <1>6, Harmless

\* A message that could not be written directly goes into the pipe.
LEMMA PostDataInv ==
  ASSUME SocketInv, NEW w \in Worker, PostData(w)
  PROVE  SocketInv'
<1>1. SocketType
  BY DEF SocketInv
<1>2. wk[w] \in [pc : {"post"}, n : Nat] /\ wk[w].n \in DOMAIN msg /\ msg[wk[w].n] \in MsgType
  BY <1>1 DEF PostData, SocketType, WorkersTyped, WorkerType
<1>r. PICK r \in RequestType : r = [c |-> "D", id |-> msg[wk[w].n].to, n |-> wk[w].n]
  BY <1>2 DEF RequestType, MsgType
<1>3. /\ pipe' = Append(pipe, r) /\ wk' = [wk EXCEPT ![w] = Idle]
      /\ UNCHANGED <<sock, alloc, ev, poll, known, msg, wire, aborted, raced>>
  BY <1>r DEF PostData
<1>m. MsgKept
  BY <1>3 DEF MsgKept
<1>4. PipeTyped' /\ \A t \in Slot : PipeKept(t)
  <2>1. /\ \A t \in Slot : ~Asks(r, t)
        /\ r.n \in DOMAIN msg' /\ msg'[r.n].to = r.id
    BY <1>r, <1>2, <1>3 DEF Asks
  <2> QED
    BY <1>1, <1>3, <1>m, <2>1, PipePosted
<1>7. Idle \in WorkerType /\ Idle.pc = "idle"
  BY DEF WorkerType, Idle
<1>8. /\ WorkersTyped' /\ wk'[w] = Idle
      /\ \A t \in Slot : ~Holds(w, t)' => HoldsKept(t)
      /\ \A t \in Slot : ~Opening(w, t)' => OpeningKept(t)
  BY <1>1, <1>3, <1>7, <1>m, WorkerStepped
<1>9. \A t \in Slot : HoldsKept(t) /\ OpeningKept(t)
  BY <1>7, <1>8 DEF Holds, Opening
<1>10. SocketType'
  BY <1>1, <1>3, <1>4, <1>8 DEF SocketType, SocketsTyped, EventsTyped
<1> QED
  BY <1>3, <1>4, <1>9, <1>10, <1>m, Harmless

\* x differs from y in the lock at most
Relocked(x, y) ==
    /\ x.type = y.type /\ x.id = y.id /\ x.fd = y.fd
    /\ x.high = y.high /\ x.low = y.low /\ x.dw = y.dw /\ x.add = y.add /\ x.wr = y.wr

\* A step that changes only the lock keeps what does not depend on it.
LEMMA LockChange ==
  ASSUME SocketType, SocketType', MsgKept, NEW s \in Slot, SlotInv(s), poll' = poll, ev' = ev, PipeKept(s),
         OpeningKept(s), Relocked(sock'[s], sock[s])
  PROVE  Bound(s)' /\ Bare(s)' /\ Reserved(s)' /\ Polled(s)' /\ Addressed(s)' /\ Fresh(s)' /\ Watched(s)'
<1>1. Bound(s)' /\ Bare(s)' /\ Polled(s)' /\ Watched(s)'
  BY DEF Relocked, Bound, Bare, Polled, Watched, SlotInv, On, SendBufferEmpty
<1>2. Reserved(s)'
  BY ReservedFrame DEF Relocked, SlotInv, SocketType, PipeTyped
<1>3. Addressed(s)'
  BY AddressedFrame DEF Relocked, SlotInv
<1>4. EvKept(s) /\ PollKept(s)
  BY EventsSame DEF PollKept
<1>5. Fresh(s)'
  BY <1>4, FreshFrame DEF Relocked, SlotInv
<1> QED
  BY <1>1, <1>2, <1>3, <1>5

\* The sockets after a change of one lock.
LEMMA Relock ==
  ASSUME SocketType, NEW s \in Slot, NEW l \in Worker \cup {Nobody, "poll"}, sock' = [sock EXCEPT ![s].lock = l]
  PROVE  /\ SocketsTyped' /\ Relocked(sock'[s], sock[s]) /\ sock'[s].lock = l
         /\ \A t \in Slot \ {s} : sock'[t] = sock[t]
BY ZenonT(60) DEF SocketType, SocketsTyped, SockType, Relocked

\* Whoever gives up the lock of a slot was the only one to hold it.
LEMMA Unlock ==
  ASSUME SocketType, NEW s \in Slot, Locked(s), NEW w \in Worker, Holds(w, s), HoldsKept(s), ~Holds(w, s)', poll' = poll
  PROVE  Locked(s)'
<1>1. sock[s].lock = w /\ w # "poll"
  BY SocketAssumption DEF Locked, Worker
<1>2. \A v \in Worker : ~Holds(v, s)'
  BY <1>1 DEF HoldsKept, Locked
<1>3. ~On("send", s)'
  BY <1>1 DEF Locked, On
<1> QED
  BY <1>2, <1>3 DEF Locked

\* socket_trylock keeps the invariant.
LEMMA TryLockInv ==
  ASSUME SocketInv, NEW w \in Worker, TryLock(w)
  PROVE  SocketInv'
<1>1. SocketType
  BY DEF SocketInv
<1>2. wk[w] \in [pc : {"try"}, n : Nat] /\ wk[w].n \in DOMAIN msg /\ msg[wk[w].n] \in MsgType
  BY <1>1 DEF TryLock, SocketType, WorkersTyped, WorkerType
<1>a. PICK id \in Id : id = msg[wk[w].n].to /\ id \in Nat
  BY <1>2 DEF MsgType, Id
<1>s. PICK s \in Slot : s = HashId(id)
  BY <1>a, HashSlot
<1>3. UNCHANGED <<alloc, pipe, ev, poll, known, msg, wire, aborted, raced>>
  BY DEF TryLock
<1>m. MsgKept
  BY <1>3 DEF MsgKept
<1>5. PipeTyped' /\ \A t \in Slot : PipeKept(t)
  BY <1>1, <1>3, <1>m, PipeSame
<1>6. EventsTyped' /\ \A t \in Slot : EvKept(t)
  BY <1>1, <1>3, EventsSame
<1>7. CASE sock[s].lock # Nobody /\ wk' = [wk EXCEPT ![w].pc = "post"] /\ sock' = sock
  <2>x. PICK x \in WorkerType : x = [wk[w] EXCEPT !.pc = "post"]
    BY <1>2 DEF WorkerType
  <2>1. x.n \in DOMAIN msg' /\ x.pc = "post" /\ wk' = [wk EXCEPT ![w] = x]
    BY <1>2, <1>3, <1>7, <2>x
  <2>2. /\ WorkersTyped' /\ wk'[w] = x
        /\ \A t \in Slot : ~Holds(w, t)' => HoldsKept(t)
        /\ \A t \in Slot : ~Opening(w, t)' => OpeningKept(t)
    BY <1>1, <1>m, <2>x, <2>1, WorkerStepped
  <2>3. \A t \in Slot : HoldsKept(t) /\ OpeningKept(t)
    BY <2>1, <2>2 DEF Holds, Opening
  <2>4. SocketType'
    BY <1>1, <1>3, <1>5, <1>6, <1>7, <2>2 DEF SocketType, SocketsTyped
  <2> QED
    BY <1>3, <1>5, <1>7, <1>m, <2>3, <2>4, Harmless
<1>8. CASE sock[s].lock = Nobody /\ wk' = [wk EXCEPT ![w].pc = "locked"] /\ sock' = [sock EXCEPT ![s].lock = w]
  <2>x. PICK x \in WorkerType : x = [wk[w] EXCEPT !.pc = "locked"]
    BY <1>2 DEF WorkerType
  <2>1. x.n \in DOMAIN msg' /\ x.pc = "locked" /\ x.n = wk[w].n /\ wk' = [wk EXCEPT ![w] = x]
    BY <1>2, <1>3, <1>8, <2>x
  <2>2. /\ WorkersTyped' /\ wk'[w] = x
        /\ \A t \in Slot : ~Holds(w, t)' => HoldsKept(t)
        /\ \A t \in Slot : ~Opening(w, t)' => OpeningKept(t)
        /\ \A v \in Worker \ {w} : wk'[v] = wk[v]
    BY <1>1, <1>m, <2>x, <2>1, WorkerStepped
  <2>3. \A t \in Slot : OpeningKept(t) /\ (t # s => HoldsKept(t))
    BY <1>3, <1>a, <1>s, <2>1, <2>2 DEF Holds, Opening
  <2>4. /\ SocketsTyped' /\ Relocked(sock'[s], sock[s]) /\ sock'[s].lock = w
        /\ \A t \in Slot \ {s} : sock'[t] = sock[t]
    BY <1>1, <1>8, Relock
  <2>5. SocketType'
    BY <1>1, <1>3, <1>5, <1>6, <2>2, <2>4 DEF SocketType
  <2>6. ASSUME NEW t \in Slot, t # s PROVE Untouched(t)
    BY <1>3, <1>5, <1>6, <2>3, <2>4, <2>6 DEF Untouched, WireKept, PollKept
  <2>7. ASSUME SlotInv(s) PROVE SlotInv(s)'
    <3>1. Bound(s)' /\ Bare(s)' /\ Reserved(s)' /\ Polled(s)' /\ Addressed(s)' /\ Fresh(s)' /\ Watched(s)'
      BY <1>1, <1>3, <1>5, <1>m, <2>3, <2>4, <2>5, <2>7, LockChange
    <3>2. Delivered(s)'
      BY <1>3, <1>m, <2>7, DeliveredFrame DEF SlotInv, WireKept
    <3>3. ~On("send", s)' /\ \A v \in Worker : ~Holds(v, s)
      BY <1>3, <1>8, <2>7, SocketAssumption DEF SlotInv, Locked, On, Worker
    <3>4. \A v \in Worker : Holds(v, s)' => v = w
      BY <1>1, <1>m, <2>2, <3>3, HoldsMsg
    <3>5. Locked(s)'
      BY <2>1, <2>2, <2>4, <3>3, <3>4 DEF Locked
    <3> QED
      BY <3>1, <3>2, <3>5 DEF SlotInv
  <2>8. raced \subseteq raced' /\ AbortsAreExplained'
    BY <1>3 DEF SocketInv, AbortsAreExplained, Calm
  <2> QED
    BY <1>m, <2>5, <2>6, <2>7, <2>8, Assemble
<1> QED
  BY <1>7, <1>8, <1>a, <1>s DEF TryLock

-----------------------------------------------------------------------------
(* Units and lists                                                         *)

\* Nothing is sent to any id.
LEMMA ToEmpty == \A id : To(<<>>, id)
<1>1. \A i \in DOMAIN <<>> : FALSE
  OBVIOUS
<1> QED
  BY <1>1 DEF To

\* Lists of units to one id put together.
LEMMA ToConcat ==
  ASSUME NEW a \in Seq(Unit), NEW b \in Seq(Unit), NEW id, To(a, id), To(b, id)
  PROVE  To(a \o b, id) /\ a \o b \in Seq(Unit)
<1>1. a \o b \in Seq(Unit) /\ DOMAIN (a \o b) = 1..(Len(a) + Len(b))
  OBVIOUS
<1>2. ASSUME NEW i \in DOMAIN (a \o b)
      PROVE  (a \o b)[i][1] \in DOMAIN msg /\ msg[(a \o b)[i][1]].to = id
  <2>1. CASE i <= Len(a)
    <3>1. i \in DOMAIN a /\ (a \o b)[i] = a[i]
      BY <1>1, <2>1
    <3> QED
      BY <3>1 DEF To
  <2>2. CASE ~(i <= Len(a))
    <3>1. i - Len(a) \in DOMAIN b /\ (a \o b)[i] = b[i - Len(a)]
      BY <1>1, <2>2
    <3> QED
      BY <3>1 DEF To
  <2> QED
    BY <2>1, <2>2
<1> QED
  BY <1>1, <1>2 DEF To

\* A part of a list of units to one id.
LEMMA ToSub ==
  ASSUME NEW a \in Seq(Unit), NEW id, To(a, id), NEW i \in Nat \ {0}, NEW j \in Nat, j <= Len(a)
  PROVE  To(SubSeq(a, i, j), id) /\ SubSeq(a, i, j) \in Seq(Unit)
<1>1. /\ SubSeq(a, i, j) \in Seq(Unit)
      /\ \A k \in DOMAIN SubSeq(a, i, j) : i + k - 1 \in DOMAIN a /\ SubSeq(a, i, j)[k] = a[i + k - 1]
  OBVIOUS
<1> QED
  BY <1>1 DEF To

\* The two units of a message are to its id.
LEMMA UnitsTo ==
  ASSUME NEW n \in Nat, n \in DOMAIN msg
  PROVE  To(Units(n), msg[n].to) /\ Units(n) \in Seq(Unit) /\ Len(Units(n)) = 2
<1>1. Units(n) \in Seq(Unit) /\ Len(Units(n)) = 2 /\ \A i \in DOMAIN Units(n) : Units(n)[i][1] = n
  BY DEF Units, Unit
<1> QED
  BY <1>1 DEF To

\* Units go to the connection of the socket in slot s.
LEMMA Written ==
  ASSUME SocketType, MsgKept, NEW s \in Slot, NEW u \in Seq(Unit), wire' = [wire EXCEPT ![sock[s].fd] = @ \o u]
  PROVE  /\ wire' \in [Id -> Seq(Unit)]
         /\ \A t \in Slot \ {s} : WireKept(t)
         /\ Delivered(s) /\ sock[s].fd # 0 /\ To(u, sock[s].fd) => Delivered(s)'
<1>f. PICK fd \in 0..MaxId : fd = sock[s].fd /\ (fd # 0 => fd \in Id /\ HashId(fd) = s)
  BY SocketAssumption DEF SocketType, SocketsTyped, SockType, Id
<1>1. wire \in [Id -> Seq(Unit)] /\ wire' = [wire EXCEPT ![fd] = @ \o u]
  BY <1>f DEF SocketType
<1>2. wire' \in [Id -> Seq(Unit)] /\ \A id \in Id : id # fd => wire'[id] = wire[id]
  <2>1. ASSUME NEW id \in Id PROVE wire'[id] \in Seq(Unit) /\ (id # fd => wire'[id] = wire[id])
    <3>1. wire[id] \in Seq(Unit) /\ wire[id] \o u \in Seq(Unit)
      BY <1>1
    <3> QED
      BY <1>1, <3>1
  <2>2. DOMAIN wire' = Id /\ wire' = [id \in Id |-> wire'[id]]
    BY <1>1
  <2> QED
    BY <2>1, <2>2
<1>3. \A t \in Slot \ {s} : WireKept(t)
  BY SMTT(40), <1>f, <1>2, SocketAssumption DEF WireKept, Id
<1>4. ASSUME Delivered(s), fd # 0, To(u, fd) PROVE Delivered(s)'
  <2> SUFFICES ASSUME NEW id \in Id, HashId(id) = s PROVE To(wire[id], id)'
    BY DEF Delivered
  <2>1. To(wire[id], id) /\ wire[id] \in Seq(Unit)
    BY <1>1, <1>4 DEF Delivered
  <2>2. To(wire'[id], id)
    <3>1. CASE id # fd
      BY <1>2, <2>1, <3>1
    <3>2. CASE id = fd
      <4>1. wire'[id] = wire[id] \o u
        BY Zenon, <1>1, <3>2
      <4> QED
        BY <1>4, <2>1, <3>2, <4>1, ToConcat
    <3> QED
      BY <3>1, <3>2
  <2> QED
    BY <2>2 DEF To, MsgKept
<1> QED
  BY <1>f, <1>2, <1>3, <1>4

\* A direct write, under the lock, goes to the connection of its id.
LEMMA DirectWriteInv ==
  ASSUME SocketInv, NEW w \in Worker, DirectWrite(w)
  PROVE  SocketInv'
<1>1. SocketType
  BY DEF SocketInv
<1>2. wk[w] \in [pc : {"locked"}, n : Nat] /\ wk[w].n \in DOMAIN msg /\ msg[wk[w].n] \in MsgType
  <2>1. wk[w] \in WorkerType /\ wk[w].pc = "locked" /\ (wk[w].n \in DOMAIN msg)
    BY Zenon, <1>1 DEF DirectWrite, SocketType, WorkersTyped
  <2>2. msg[wk[w].n] \in MsgType
    BY <1>1, <2>1 DEF SocketType
  <2> QED
    BY SMTT(40), <2>1, <2>2 DEF WorkerType
<1>n. PICK n \in Nat : n = wk[w].n /\ n \in DOMAIN msg
  BY <1>2
<1>a. PICK id \in Id : id = msg[n].to /\ id \in Nat
  BY <1>2, <1>n DEF MsgType, Id
<1>s. PICK s \in Slot : s = HashId(id)
  BY SMTT(40), <1>a, HashSlot
<1>3. UNCHANGED <<alloc, pipe, ev, poll, known, msg, aborted, raced>>
  BY Zenon DEF DirectWrite
<1>m. MsgKept
  BY <1>3 DEF MsgKept
<1>5. PipeTyped' /\ \A t \in Slot : PipeKept(t)
  BY <1>1, <1>3, <1>m, PipeSame
<1>6. EventsTyped' /\ \A t \in Slot : EvKept(t)
  BY <1>1, <1>3, EventsSame
<1>7. Holds(w, s) /\ \A t \in Slot : t # s => ~Holds(w, t)
  BY <1>2, <1>n, <1>a, <1>s DEF Holds
<1>8. raced \subseteq raced' /\ AbortsAreExplained'
  BY <1>3 DEF SocketInv, AbortsAreExplained, Calm
\* the unlock, with what is on the wire
<1>9. ASSUME NEW x \in WorkerType, wk' = [wk EXCEPT ![w] = x], x.pc \in {"idle", "post"}, x.pc = "post" => x.n = n,
             sock' = [sock EXCEPT ![s].lock = Nobody],
             wire' \in [Id -> Seq(Unit)], \A t \in Slot \ {s} : WireKept(t), SlotInv(s) => Delivered(s)'
      PROVE  SocketInv'
  <2>1. x.pc \in {"try", "locked", "store", "post"} => x.n \in DOMAIN msg'
    BY <1>3, <1>n, <1>9
  <2>2. /\ WorkersTyped' /\ wk'[w] = x
        /\ \A t \in Slot : ~Holds(w, t)' => HoldsKept(t)
        /\ \A t \in Slot : ~Opening(w, t)' => OpeningKept(t)
    BY <1>1, <1>m, <1>9, <2>1, WorkerStepped
  <2>3. \A t \in Slot : ~Holds(w, t)' /\ OpeningKept(t) /\ HoldsKept(t)
    BY <1>9, <2>2 DEF Holds, Opening
  <2>4. /\ SocketsTyped' /\ Relocked(sock'[s], sock[s]) /\ sock'[s].lock = Nobody
        /\ \A t \in Slot \ {s} : sock'[t] = sock[t]
    BY <1>1, <1>9, Relock
  <2>5. SocketType'
    BY <1>1, <1>3, <1>5, <1>6, <1>9, <2>2, <2>4 DEF SocketType
  <2>6. ASSUME NEW t \in Slot, t # s PROVE Untouched(t)
    BY <1>3, <1>5, <1>6, <1>9, <2>3, <2>4, <2>6 DEF Untouched, PollKept
  <2>7. ASSUME SlotInv(s) PROVE SlotInv(s)'
    <3>1. Bound(s)' /\ Bare(s)' /\ Reserved(s)' /\ Polled(s)' /\ Addressed(s)' /\ Fresh(s)' /\ Watched(s)'
      BY <1>1, <1>3, <1>5, <1>m, <2>3, <2>4, <2>5, <2>7, LockChange
    <3>2. Locked(s)'
      BY <1>1, <1>3, <1>7, <2>3, <2>7, Unlock DEF SlotInv
    <3> QED
      BY <1>9, <2>7, <3>1, <3>2 DEF SlotInv
  <2> QED
    BY <1>8, <1>m, <2>5, <2>6, <2>7, Assemble
<1>10. CASE sock' = [sock EXCEPT ![s].lock = Nobody] /\ wk' = [wk EXCEPT ![w].pc = "post"] /\ wire' = wire
  <2>x. PICK x \in WorkerType : x = [wk[w] EXCEPT !.pc = "post"]
    BY <1>2 DEF WorkerType
  <2>1. x.n = n /\ x.pc = "post" /\ wk' = [wk EXCEPT ![w] = x]
    BY <1>2, <1>n, <1>10, <2>x
  <2>2. wire' \in [Id -> Seq(Unit)] /\ \A t \in Slot : WireKept(t)
    BY <1>1, <1>10 DEF SocketType, WireKept
  <2>3. SlotInv(s) => Delivered(s)'
    BY <1>m, <2>2, DeliveredFrame DEF SlotInv
  <2> QED
    BY <1>9, <1>10, <2>1, <2>2, <2>3
<1>11. ASSUME CanDirectWrite(id), NEW k \in 0..2, wire' = [wire EXCEPT ![sock[s].fd] = @ \o SubSeq(Units(n), 1, k)],
              IF k = 2
              THEN sock' = [sock EXCEPT ![s].lock = Nobody] /\ wk' = [wk EXCEPT ![w] = Idle]
              ELSE /\ wk' = [wk EXCEPT ![w] = [pc |-> "store", n |-> n, rest |-> SubSeq(Units(n), k + 1, 2)]]
                   /\ sock' = sock
       PROVE  SocketInv'
  <2>1. sock[s].id = id /\ sock[s].type = "CONNECTED" /\ sock[s].dw = <<>>
    BY <1>11, <1>s DEF CanDirectWrite
  <2>2. To(Units(n), id) /\ Units(n) \in Seq(Unit) /\ Len(Units(n)) = 2
    BY <1>n, <1>a, UnitsTo
  <2>k. 1 \in Nat \ {0} /\ k \in Nat /\ k <= Len(Units(n)) /\ k + 1 \in Nat \ {0} /\ 2 \in Nat /\ 2 <= Len(Units(n))
    BY <2>2
  <2>u. PICK u \in Seq(Unit) : u = SubSeq(Units(n), 1, k) /\ To(u, id)
    BY <2>2, <2>k, ToSub
  <2>r. PICK r \in Seq(Unit) : r = SubSeq(Units(n), k + 1, 2) /\ To(r, id)
    BY <2>2, <2>k, ToSub
  <2>3. /\ wire' \in [Id -> Seq(Unit)]
        /\ \A t \in Slot \ {s} : WireKept(t)
        /\ Delivered(s) /\ sock[s].fd # 0 /\ To(u, sock[s].fd) => Delivered(s)'
    BY <1>1, <1>m, <1>11, <2>u, Written
  <2>4. SlotInv(s) => Delivered(s)'
    <3>1. SlotInv(s) => sock[s].fd = id /\ id # 0
      BY <2>1, SocketAssumption DEF SlotInv, Bound, Dead, Id
    <3> QED
      BY <2>3, <2>u, <3>1 DEF SlotInv
  <2>5. CASE k = 2
    <3>1. Idle \in WorkerType /\ Idle.pc = "idle"
      BY DEF Idle, WorkerType
    <3> QED
      BY <1>9, <1>11, <2>3, <2>4, <2>5, <3>1
  <2>6. CASE k # 2
    <3>x. PICK x \in WorkerType : x = [pc |-> "store", n |-> n, rest |-> r]
      BY DEF WorkerType
    <3>1. sock' = sock /\ wk' = [wk EXCEPT ![w] = x] /\ x.pc = "store" /\ x.n = n /\ x.rest = r
      BY <1>11, <2>6, <2>r, <3>x
    <3>2. /\ WorkersTyped' /\ wk'[w] = x
          /\ \A t \in Slot : ~Holds(w, t)' => HoldsKept(t)
          /\ \A t \in Slot : ~Opening(w, t)' => OpeningKept(t)
          /\ \A v \in Worker \ {w} : wk'[v] = wk[v]
      BY <1>1, <1>3, <1>m, <1>n, <3>x, <3>1, WorkerStepped
    <3>3. /\ Holds(w, s)'
          /\ \A t \in Slot : OpeningKept(t) /\ (t # s => HoldsKept(t))
      BY <1>3, <1>a, <1>s, <3>1, <3>2 DEF Holds, Opening
    <3>5. SocketType'
      BY <1>1, <1>3, <1>5, <1>6, <2>3, <3>1, <3>2 DEF SocketType, SocketsTyped
    <3>6. ASSUME NEW t \in Slot, t # s PROVE Untouched(t)
      BY <1>3, <1>5, <1>6, <2>3, <3>1, <3>3, <3>6 DEF Untouched, PollKept
    <3>7. ASSUME SlotInv(s) PROVE SlotInv(s)'
      <4>0. Relocked(sock'[s], sock[s])
        BY <3>1 DEF Relocked
      <4>1. Bound(s)' /\ Bare(s)' /\ Reserved(s)' /\ Polled(s)' /\ Addressed(s)' /\ Fresh(s)' /\ Watched(s)'
        BY <1>1, <1>3, <1>5, <1>m, <3>3, <3>5, <3>7, <4>0, LockChange
      <4>2. sock[s].lock = w /\ ~On("send", s)
        BY <1>7, <3>7, SocketAssumption DEF SlotInv, Locked, Worker
      <4>3. \A v \in Worker : Holds(v, s)' => v = w
        BY <1>1, <1>m, <3>2, <3>7, <4>2, HoldsMsg DEF SlotInv, Locked
      <4>4. To(wk[w].rest, sock[s].id)'
        <5>1. wk'[w].rest = r /\ sock'[s].id = id
          BY <2>1, <3>1, <3>2
        <5>2. To(r, id)'
          BY <1>3, <2>r DEF To
        <5> QED
          BY <5>1, <5>2 DEF To
      <4>5. ~On("send", s)' /\ sock'[s].id = msg'[wk'[w].n].to
        BY <1>3, <1>a, <2>1, <3>1, <3>2, <4>2 DEF On
      <4>6. Locked(s)'
        BY <2>1, <3>1, <4>2, <4>3, <4>4, <4>5 DEF Locked
      <4> QED
        BY <2>4, <3>7, <4>1, <4>6 DEF SlotInv
    <3> QED
      BY <1>8, <1>m, <3>5, <3>6, <3>7, Assemble
  <2> QED
    BY <2>5, <2>6
<1> QED
  BY Zenon, <1>10, <1>11, <1>n, <1>a, <1>s DEF DirectWrite

\* The rest of a direct write is stored in dw_buffer, which is empty, and
\* watched.
LEMMA StoreRestInv ==
  ASSUME SocketInv, NEW w \in Worker, StoreRest(w)
  PROVE  SocketInv'
<1>1. SocketType
  BY DEF SocketInv
<1>2. wk[w] \in [pc : {"store"}, n : Nat, rest : Seq(Unit)] /\ wk[w].n \in DOMAIN msg /\ msg[wk[w].n] \in MsgType
  <2>1. wk[w] \in WorkerType /\ wk[w].pc = "store" /\ (wk[w].n \in DOMAIN msg)
    BY <1>1 DEF StoreRest, SocketType, WorkersTyped
  <2>2. msg[wk[w].n] \in MsgType
    BY <1>1, <2>1 DEF SocketType
  <2> QED
    BY SMTT(40), <2>1, <2>2 DEF WorkerType
<1>a. PICK id \in Id : id = msg[wk[w].n].to /\ id \in Nat
  BY SMTT(40), <1>2 DEF MsgType, Id
<1>s. PICK s \in Slot : s = HashId(id)
  BY <1>a, HashSlot
<1>3. /\ sock' = [sock EXCEPT ![s].dw = wk[w].rest, ![s].lock = Nobody, ![s].wr = @ \/ sock[s].add]
      /\ wk' = [wk EXCEPT ![w] = Idle]
      /\ UNCHANGED <<alloc, pipe, ev, poll, known, msg, wire, aborted, raced>>
  BY Zenon, <1>a, <1>s DEF StoreRest
<1>m. MsgKept
  BY <1>3 DEF MsgKept
<1>4. /\ sock'[s].type = sock[s].type /\ sock'[s].id = sock[s].id /\ sock'[s].fd = sock[s].fd
      /\ sock'[s].high = sock[s].high /\ sock'[s].low = sock[s].low /\ sock'[s].dw = wk[w].rest
      /\ sock'[s].lock = Nobody /\ sock'[s].add = sock[s].add /\ (sock'[s].wr <=> sock[s].wr \/ sock[s].add)
      /\ \A t \in Slot \ {s} : sock'[t] = sock[t]
      /\ SocketsTyped'
  <2>1. sock[s] \in SockType /\ wk[w].rest \in Seq(Unit)
    BY <1>1, <1>2 DEF SocketType, SocketsTyped
  <2>x. PICK x \in SockType : x = [sock[s] EXCEPT !.dw = wk[w].rest, !.lock = Nobody, !.wr = @ \/ sock[s].add]
    BY <2>1 DEF SockType
  <2>2. /\ x.type = sock[s].type /\ x.id = sock[s].id /\ x.fd = sock[s].fd
        /\ x.high = sock[s].high /\ x.low = sock[s].low /\ x.dw = wk[w].rest
        /\ x.lock = Nobody /\ x.add = sock[s].add /\ (x.wr <=> sock[s].wr \/ sock[s].add)
    BY <2>1, <2>x DEF SockType
  <2>3. sock' = [sock EXCEPT ![s] = x]
    BY <1>1, <1>3, <2>x DEF SocketType, SocketsTyped
  <2>4. (x.id # 0 => HashId(x.id) = s) /\ (x.fd # 0 => HashId(x.fd) = s)
    BY <1>1, <2>2 DEF SocketType, SocketsTyped
  <2> QED
    BY <1>1, <2>2, <2>3, <2>4, SockUpdate
<1>5. PipeTyped' /\ \A t \in Slot : PipeKept(t)
  BY <1>1, <1>3, <1>m, PipeSame
<1>6. EventsTyped' /\ \A t \in Slot : EvKept(t)
  BY <1>1, <1>3, EventsSame
<1>7. Idle \in WorkerType /\ Idle.pc = "idle"
  BY DEF WorkerType, Idle
<1>8. /\ WorkersTyped' /\ wk'[w] = Idle
      /\ \A t \in Slot : ~Holds(w, t)' => HoldsKept(t)
      /\ \A t \in Slot : ~Opening(w, t)' => OpeningKept(t)
  BY <1>1, <1>3, <1>7, <1>m, WorkerStepped
<1>9. \A t \in Slot : ~Holds(w, t)' /\ HoldsKept(t) /\ OpeningKept(t)
  BY <1>7, <1>8 DEF Holds, Opening
<1>10. SocketType'
  BY <1>1, <1>3, <1>4, <1>5, <1>6, <1>8 DEF SocketType
<1>11. ASSUME NEW t \in Slot, t # s PROVE Untouched(t)
  BY <1>3, <1>4, <1>5, <1>6, <1>9, <1>11 DEF Untouched, WireKept, PollKept
<1>12. ASSUME SlotInv(s) PROVE SlotInv(s)'
  <2>0. Holds(w, s) /\ wk[w].pc = "store"
    BY <1>2, <1>a, <1>s DEF Holds
  <2>1. sock[s].type \in {"CONNECTED", "HALFCLOSE"} /\ To(wk[w].rest, sock[s].id)
    BY <1>12, <2>0 DEF SlotInv, Locked
  <2>2. sock[s].type \notin Dead /\ ~On("send", s)
    BY <1>12, <2>0, <2>1, SocketAssumption DEF SlotInv, Locked, Worker, Dead
  <2>3. Bound(s)' /\ Bare(s)'
    BY <1>4, <1>12, <2>1 DEF SlotInv, Bound, Bare, Dead
  <2>4. Reserved(s)'
    BY <1>4, <1>5, <1>9, <1>10, <1>12, <2>1, ReservedFrame DEF SlotInv, SocketType, PipeTyped
  <2>5. Locked(s)'
    BY <1>1, <1>3, <1>9, <1>12, <2>0, Unlock DEF SlotInv
  <2>6. Polled(s)' /\ Watched(s)'
    BY <1>3, <1>4, <1>12, <2>1, <2>2 DEF SlotInv, Polled, Watched, On, Dead
  <2>7. Addressed(s)'
    <3>1. To(sock[s].high, sock[s].id)' /\ To(sock[s].low, sock[s].id)' /\ To(sock[s].dw, sock[s].id)'
      <4>1. To(sock[s].high, sock[s].id) /\ To(sock[s].low, sock[s].id)
        BY <1>12 DEF SlotInv, Addressed
      <4>2. /\ sock'[s].high = sock[s].high /\ sock'[s].low = sock[s].low /\ sock'[s].dw = wk[w].rest
            /\ sock'[s].id = sock[s].id /\ msg' = msg
        BY <1>3, <1>4
      <4> QED
        BY <2>1, <4>1, <4>2 DEF To
    <3> QED
      BY <3>1 DEF Addressed
  <2>8. Fresh(s)'
    <3>1. PollKept(s)
      BY <1>3 DEF PollKept
    <3> QED
      BY <1>4, <1>6, <1>12, <3>1, FreshFrame DEF SlotInv
  <2>9. Delivered(s)'
    BY <1>3, <1>12, <1>m, DeliveredFrame DEF SlotInv, WireKept
  <2> QED
    BY <2>3, <2>4, <2>5, <2>6, <2>7, <2>8, <2>9 DEF SlotInv
<1>13. raced \subseteq raced' /\ AbortsAreExplained'
  BY <1>3 DEF SocketInv, AbortsAreExplained, Calm
<1> QED
  BY <1>10, <1>11, <1>12, <1>13, <1>m, Assemble

-----------------------------------------------------------------------------
(* The poll thread                                                         *)

\* What every step of the poll thread has in common, when it is at or about
\* slot s and goes on with slot s.
PollBase(s) ==
    /\ wk' = wk /\ msg' = msg
    /\ alloc' \in Nat /\ known' \subseteq Id /\ raced \subseteq raced' /\ raced' \subseteq Nat
    /\ PipeTyped' /\ EventsTyped'
    /\ \A t \in Slot : EvKept(t) /\ (t # s => PipeKept(t) /\ ~About(t))

\* A step of the poll thread on slot s keeps the invariant if it keeps that of s.
LEMMA PollOnly ==
  ASSUME SocketInv, NEW s \in Slot, PollBase(s), SocketsTyped', poll' \in PollType, wire' \in [Id -> Seq(Unit)],
         \A t \in Slot \ {s} : sock'[t] = sock[t] /\ WireKept(t) /\ (About(t)' => poll'.pc = "clear"),
         AbortsAreExplained',
         MsgKept /\ HoldsKept(s) /\ OpeningKept(s) /\ SocketType' /\ Calm(s)' /\ Calm(s) /\ SlotInv(s) => SlotInv(s)'
  PROVE  SocketInv'
<1>1. MsgKept /\ SocketType
  BY DEF PollBase, MsgKept, SocketInv
<1>2. WorkersTyped' /\ \A t \in Slot : HoldsKept(t) /\ OpeningKept(t)
  BY <1>1, WorkersSame DEF PollBase
<1>3. SocketType'
  BY <1>1, <1>2 DEF PollBase, SocketType
<1>4. ASSUME NEW t \in Slot, t # s PROVE Untouched(t)
  BY <1>2, <1>4 DEF PollBase, Untouched, PollKept
<1> QED
  BY <1>1, <1>2, <1>3, <1>4, Assemble DEF PollBase

\* The poll thread leaves the sockets alone.
LEMMA PollIdle ==
  ASSUME SocketInv, NEW s \in Slot, PollBase(s), PipeKept(s), sock' = sock, wire' = wire, poll' \in PollType,
         \A t \in Slot : poll' = poll \/ (~About(t) /\ (About(t)' => poll'.pc = "clear")), AbortsAreExplained'
  PROVE  SocketInv'
<1>1. MsgKept /\ SocketType
  BY DEF PollBase, MsgKept, SocketInv
<1>2. WorkersTyped' /\ \A t \in Slot : HoldsKept(t) /\ OpeningKept(t)
  BY <1>1, WorkersSame DEF PollBase
<1>3. SocketType'
  BY <1>1, <1>2 DEF PollBase, SocketType, SocketsTyped
<1>4. \A t \in Slot : Untouched(t)
  BY <1>2 DEF PollBase, Untouched, PollKept, WireKept
<1> QED
  BY <1>1, <1>3, <1>4, Assemble DEF PollBase

\* An assertion that fails in a slot that is not calm is explained.
LEMMA NotCalm ==
  ASSUME NEW s \in Slot, ~Calm(s), raced \subseteq raced', \A a \in aborted' : a.slot = s
  PROVE  AbortsAreExplained'
BY DEF Calm, AbortsAreExplained

\* force_close of an open socket keeps the invariant.
LEMMA ForceCloseInv ==
  ASSUME SocketInv, NEW s \in Slot, NEW why \in {"K", "H", "err"}, NEW ctrl \in BOOLEAN, ForceClose(s, why, ctrl),
         PollBase(s), PipeKept(s),
         Calm(s) => sock[s].type \notin Dead,
         ~ctrl => \A i \in DOMAIN ev' : ev'[i].slot # s
  PROVE  SocketInv'
<1>1. SocketType /\ sock[s] \in SockType
  BY DEF SocketInv, SocketType, SocketsTyped
<1>2. CASE sock[s].type = "RESERVE"
  <2>1. sock' = sock /\ poll' = poll /\ wire' = wire /\ raced' = raced /\ \A a \in aborted' : a.slot = s
    BY <1>2 DEF ForceClose, Abort
  <2>2. AbortsAreExplained'
    BY <1>2, <2>1, NotCalm DEF Dead
  <2> QED
    BY <1>1, <2>1, <2>2, PollIdle DEF SocketType
<1>3. CASE sock[s].type # "RESERVE"
  <2>1. /\ sock' = [sock EXCEPT ![s].high = <<>>, ![s].low = <<>>, ![s].add = FALSE, ![s].wr = FALSE]
        /\ poll' = [pc |-> "close", slot |-> s, why |-> why, ctrl |-> ctrl]
        /\ wire' = wire /\ aborted' = aborted /\ raced' = raced
    BY <1>3 DEF ForceClose
  <2>x. PICK x \in SockType : x = [sock[s] EXCEPT !.high = <<>>, !.low = <<>>, !.add = FALSE, !.wr = FALSE]
    <3>1. <<>> \in Seq(Unit)
      OBVIOUS
    <3> QED
      BY <1>1, <3>1 DEF SockType
  <2>2. /\ x.type = sock[s].type /\ x.id = sock[s].id /\ x.fd = sock[s].fd
        /\ x.high = <<>> /\ x.low = <<>> /\ x.dw = sock[s].dw
        /\ x.lock = sock[s].lock /\ ~x.add /\ ~x.wr
    BY <1>1, <2>x DEF SockType
  <2>3. sock' = [sock EXCEPT ![s] = x]
    BY <1>1, <2>1, <2>x DEF SocketType, SocketsTyped
  <2>4. SocketsTyped' /\ sock'[s] = x /\ \A t \in Slot \ {s} : sock'[t] = sock[t]
    <3>1. (x.id # 0 => HashId(x.id) = s) /\ (x.fd # 0 => HashId(x.fd) = s)
      BY <1>1, <2>2 DEF SocketType, SocketsTyped
    <3> QED
      BY <1>1, <2>3, <3>1, SockUpdate
  <2>5. poll' \in PollType /\ poll'.pc = "close" /\ poll'.slot = s /\ poll'.ctrl = ctrl
    BY <2>1 DEF PollType
  <2>6. /\ \A t \in Slot \ {s} : WireKept(t) /\ ~About(t)'
        /\ wire' \in [Id -> Seq(Unit)]
    BY <1>1, <2>1, <2>5 DEF SocketType, WireKept, About
  <2>7. ASSUME MsgKept, HoldsKept(s), OpeningKept(s), SocketType', Calm(s), SlotInv(s) PROVE SlotInv(s)'
    <3>0. sock[s].type \notin Dead /\ sock[s].type # "RESERVE"
      BY <2>7 DEF Dead
    <3>1. Bound(s)' /\ Bare(s)' /\ Polled(s)' /\ Watched(s)'
      BY <2>2, <2>4, <2>5, <2>7, <3>0 DEF SlotInv, Bound, Bare, Polled, Watched, On
    <3>2. Reserved(s)'
      BY <2>7, <3>0, ReservedFrame DEF SlotInv, SocketType, PipeTyped
    <3>3. Locked(s)'
      <4>1. ~On("send", s)'
        BY <2>5 DEF On
      <4> QED
        BY <1>1, <2>2, <2>4, <2>7, <4>1, LockedFrame DEF SlotInv
    <3>4. Addressed(s)'
      <4>1. To(sock[s].dw, sock[s].id)' /\ To(<<>>, sock[s].id)'
        BY <2>2, <2>4, <2>7 DEF SlotInv, Addressed, To, MsgKept
      <4> QED
        BY <2>2, <2>4, <4>1 DEF Addressed
    <3>5. Fresh(s)'
      <4>1. \A i \in DOMAIN ev' : ev'[i].slot = s => sock'[s].id = ev'[i].id
        BY <2>2, <2>4, <2>7 DEF PollBase, EvKept, SlotInv, Fresh
      <4>2. ~On("send", s)' /\ sock'[s].type \notin Dead
        BY <2>2, <2>4, <2>5, <3>0 DEF On
      <4>3. ~poll'.ctrl => \A i \in DOMAIN ev' : ev'[i].slot # s
        BY <2>5
      <4> QED
        BY <4>1, <4>2, <4>3 DEF Fresh
    <3>6. Delivered(s)'
      BY <2>1, <2>7, DeliveredFrame DEF SlotInv, WireKept
    <3> QED
      BY <3>1, <3>2, <3>3, <3>4, <3>5, <3>6 DEF SlotInv
  <2>8. AbortsAreExplained'
    BY <2>1 DEF SocketInv, AbortsAreExplained, Calm
  <2> QED
    BY <2>4, <2>5, <2>6, <2>7, <2>8, PollOnly
<1> QED
  BY <1>2, <1>3

\* new_fd may only add races.
LEMMA NewFdRaced ==
  ASSUME SocketType, NEW s, NEW id \in Id, NEW type, NEW add, NewFd(s, id, type, add)
  PROVE  raced \subseteq raced' /\ raced' \subseteq Nat
BY SocketAssumption DEF NewFd, SocketType, Id

\* new_fd in a slot that is reserved keeps the invariant.
LEMMA NewFdInv ==
  ASSUME SocketInv, NEW s \in Slot, NEW id \in Id, s = HashId(id),
         NEW type \in {"CONNECTED", "CONNECTING", "PLISTEN", "PACCEPT"}, NEW add \in BOOLEAN,
         type \in {"CONNECTED", "CONNECTING"} => add,
         NewFd(s, id, type, add), PollBase(s), PipeKept(s), ~About(s), poll' = poll \/ poll' = Top,
         Calm(s) /\ SlotInv(s) =>
            /\ sock[s].type = IF type = "PACCEPT" THEN "INVALID" ELSE "RESERVE"
            /\ \A w \in Worker : ~Opening(w, s)
            /\ \A i \in DOMAIN pipe' : ~Asks(pipe'[i], s)
  PROVE  SocketInv'
<1>1. SocketType /\ sock[s] \in SockType /\ id \in 0..MaxId /\ id # 0
  BY SocketAssumption DEF SocketInv, SocketType, SocketsTyped, Id
<1>c. Calm(s) => SlotInv(s)
  BY DEF SocketInv
<1>f. PICK from \in Dead : from = (IF type = "PACCEPT" THEN "INVALID" ELSE "RESERVE")
  BY DEF Dead
<1>2. CASE ~(SendBufferEmpty(s) /\ sock[s].type = from)
  <2>1. sock' = sock /\ wire' = wire /\ raced' = raced /\ \A a \in aborted' : a.slot = s
    BY <1>2, <1>f DEF NewFd
  <2>2. ~Calm(s)
    BY <1>2, <1>c, <1>f DEF SlotInv, Bare, SendBufferEmpty
  <2>3. AbortsAreExplained'
    BY <2>1, <2>2, NotCalm
  <2>4. poll' \in PollType /\ \A t \in Slot : poll' = poll \/ (~About(t) /\ ~About(t)')
    <3>1. Top \in PollType /\ Top.pc = "top"
      BY DEF Top, PollType
    <3> QED
      BY <1>1, <3>1 DEF SocketType, PollBase, About
  <2> QED
    BY <1>1, <2>1, <2>3, <2>4, PollIdle
<1>3. CASE SendBufferEmpty(s) /\ sock[s].type = from
  <2>w. PICK wr \in BOOLEAN : wr = (type = "CONNECTING")
    OBVIOUS
  <2>x. PICK x \in SockType : x = [sock[s] EXCEPT !.id = id, !.fd = id, !.type = type, !.dw = <<>>,
                                                  !.lock = Nobody, !.add = add, !.wr = wr]
    <3>1. <<>> \in Seq(Unit)
      OBVIOUS
    <3> QED
      BY ZenonT(60), <1>1, <3>1 DEF SockType
  <2>1. /\ sock' = [sock EXCEPT ![s] = x]
        /\ raced' = IF sock[s].lock = Nobody THEN raced ELSE raced \cup {id}
        /\ wire' = wire /\ aborted' = aborted
    BY <1>3, <1>f, <2>w, <2>x DEF NewFd
  <2>2. /\ x.type = type /\ x.id = id /\ x.fd = id
        /\ x.high = sock[s].high /\ x.low = sock[s].low /\ x.dw = <<>>
        /\ x.lock = Nobody /\ x.add = add /\ x.wr = wr
    BY <1>1, <2>x DEF SockType
  <2>4. SocketsTyped' /\ sock'[s] = x /\ \A t \in Slot \ {s} : sock'[t] = sock[t]
    BY <1>1, <2>1, <2>2, SockUpdate
  <2>5. poll' \in PollType /\ \A t \in Slot : ~About(t)'
    <3>1. Top \in PollType /\ Top.pc = "top"
      BY DEF Top, PollType
    <3> QED
      BY <1>1, <3>1 DEF SocketType, PollBase, About
  <2>6. /\ \A t \in Slot \ {s} : WireKept(t)
        /\ wire' \in [Id -> Seq(Unit)]
    BY <1>1, <2>1 DEF SocketType, WireKept
  <2>7. ASSUME MsgKept, HoldsKept(s), OpeningKept(s), SocketType', Calm(s), Calm(s)', SlotInv(s) PROVE SlotInv(s)'
    <3>0. /\ sock[s].lock = Nobody
          /\ sock'[s].high = <<>> /\ sock'[s].low = <<>> /\ sock'[s].dw = <<>>
      BY <1>3, <2>1, <2>2, <2>4, <2>7 DEF Calm, SendBufferEmpty
    <3>a. /\ ~On("send", s)' /\ ~On("close", s)' /\ ~On("decide", s)' /\ ~On("conn", s)' /\ ~On("clear", s)'
          /\ ~On("failed", s)' /\ ~On("clear", s)
      BY <2>5 DEF About, On
    <3>1. Bound(s)' /\ Bare(s)' /\ Polled(s)'
      BY <2>2, <2>4, <3>0, <3>a DEF Bound, Bare, Polled
    <3>b. Watched(s)'
      BY <2>2, <2>4, <2>w, <3>0, <3>a DEF Watched, Dead
    <3>2. Reserved(s)'
      BY <2>7 DEF OpeningKept, Reserved
    <3>3. Locked(s)'
      <4>1. \A w \in Worker : ~Holds(w, s)'
        BY <2>7, <3>0, SocketAssumption DEF HoldsKept, SlotInv, Locked, Worker
      <4> QED
        BY <3>a, <4>1 DEF Locked
    <3>4. Addressed(s)'
      <4>1. To(<<>>, sock[s].id)'
        BY DEF To
      <4> QED
        BY <3>0, <4>1 DEF Addressed
    <3>5. Fresh(s)'
      <4>1. \A i \in DOMAIN ev' : ev'[i].slot # s
        BY <1>3, <1>f, <2>7, <3>a DEF PollBase, EvKept, SlotInv, Fresh
      <4> QED
        BY <4>1 DEF Fresh
    <3>6. Delivered(s)'
      BY <2>1, <2>7, DeliveredFrame DEF SlotInv, WireKept
    <3> QED
      BY <3>1, <3>b, <3>2, <3>3, <3>4, <3>5, <3>6 DEF SlotInv
  <2>8. AbortsAreExplained'
    BY <2>1 DEF SocketInv, AbortsAreExplained, Calm
  <2> QED
    BY <2>4, <2>5, <2>6, <2>7, <2>8, PollOnly
<1> QED
  BY <1>2, <1>3

\* send_buffer, which takes the lock or gives up, keeps the invariant.
LEMMA SendBufferInv ==
  ASSUME SocketInv, NEW s \in Slot, NEW then \in DecideType \cup {Top}, then # Top => then.slot = s,
         SendBuffer(s, then, then) \/ (poll' = then /\ UNCHANGED <<sock, wire, aborted>>),
         PollBase(s), PipeKept(s), ~About(s),
         Calm(s)' /\ SlotInv(s) => sock[s].type \notin Dead /\ (then = Top => sock[s].type # "CONNECTING"),
         then = Top => \A i \in DOMAIN ev' : ev'[i].slot # s
  PROVE  SocketInv'
<1>1. SocketType /\ sock[s] \in SockType
  BY DEF SocketInv, SocketType, SocketsTyped
<1>2. wire' = wire /\ aborted' = aborted
  BY DEF SendBuffer
<1>3. /\ \A t \in Slot : WireKept(t)
      /\ wire' \in [Id -> Seq(Unit)]
  BY <1>1, <1>2 DEF SocketType, WireKept
<1>4. AbortsAreExplained'
  BY <1>2 DEF SocketInv, AbortsAreExplained, Calm, PollBase
<1>5. then \in PollType /\ then.pc \in {"top", "decide"} /\ (then.pc = "top" <=> then = Top)
  BY DEF DecideType, PollType, Top
<1>6. /\ ~On("send", s) /\ ~On("close", s) /\ ~On("decide", s) /\ ~On("conn", s) /\ ~On("clear", s)
  BY DEF About, On
<1>7. CASE poll' = then /\ sock' = sock
  <2>1. poll' \in PollType /\ SocketsTyped' /\ \A t \in Slot \ {s} : ~About(t)' /\ sock'[t] = sock[t]
    BY <1>1, <1>5, <1>7 DEF About, SocketType, SocketsTyped
  <2>2. ~On("send", s)' /\ ~On("close", s)' /\ ~On("conn", s)' /\ ~On("clear", s)' /\ ~On("failed", s)'
    BY <1>5, <1>7 DEF On
  <2>3. ASSUME MsgKept, HoldsKept(s), OpeningKept(s), SocketType', Calm(s)', SlotInv(s) PROVE SlotInv(s)'
    <3>1. Bound(s)' /\ Bare(s)' /\ Polled(s)' /\ Watched(s)'
      BY <1>6, <1>7, <2>2, <2>3 DEF SlotInv, Bound, Bare, Polled, Watched
    <3>2. Reserved(s)'
      BY <1>7, <2>3, ReservedFrame DEF SlotInv, SocketType, PipeTyped
    <3>3. Locked(s)'
      BY <1>1, <1>7, <2>2, <2>3, LockedFrame DEF SlotInv
    <3>4. Addressed(s)' /\ Delivered(s)'
      BY <1>3, <1>7, <2>3, AddressedFrame, DeliveredFrame DEF SlotInv
    <3>5. Fresh(s)'
      BY <1>6, <1>7, <2>2, <2>3 DEF SlotInv, Fresh, PollBase, EvKept
    <3> QED
      BY <3>1, <3>2, <3>3, <3>4, <3>5 DEF SlotInv
  <2> QED
    BY <1>3, <1>4, <2>1, <2>3, PollOnly
<1>8. CASE /\ sock[s].lock = Nobody
           /\ sock' = [sock EXCEPT ![s].lock = "poll", ![s].high = sock[s].dw \o @, ![s].dw = <<>>]
           /\ poll' = [pc |-> "send", slot |-> s, then |-> then]
  <2>h. PICK high \in Seq(Unit) : high = sock[s].dw \o sock[s].high
    <3>1. sock[s].dw \in Seq(Unit) /\ sock[s].high \in Seq(Unit)
      BY <1>1 DEF SockType
    <3>2. sock[s].dw \o sock[s].high \in Seq(Unit)
      BY <3>1
    <3> QED
      BY <3>2
  <2>x. PICK x \in SockType : x = [sock[s] EXCEPT !.lock = "poll", !.high = high, !.dw = <<>>]
    <3>1. <<>> \in Seq(Unit)
      OBVIOUS
    <3> QED
      BY <1>1, <3>1 DEF SockType
  <2>1. sock' = [sock EXCEPT ![s] = x]
    BY ZenonT(60), <1>1, <1>8, <2>h, <2>x DEF SocketType, SocketsTyped, SockType
  <2>2. /\ x.type = sock[s].type /\ x.id = sock[s].id /\ x.fd = sock[s].fd
        /\ x.high = high /\ x.low = sock[s].low /\ x.dw = <<>>
        /\ x.lock = "poll" /\ x.add = sock[s].add /\ x.wr = sock[s].wr
    BY <1>1, <2>x DEF SockType
  <2>4. SocketsTyped' /\ sock'[s] = x /\ \A t \in Slot \ {s} : sock'[t] = sock[t]
    <3>1. (x.id # 0 => HashId(x.id) = s) /\ (x.fd # 0 => HashId(x.fd) = s)
      BY <1>1, <2>2 DEF SocketType, SocketsTyped
    <3> QED
      BY <1>1, <2>1, <3>1, SockUpdate
  <2>5. poll' \in PollType /\ poll'.pc = "send" /\ poll'.slot = s /\ poll'.then = then
    BY <1>8 DEF PollType, SendType
  <2>6. \A t \in Slot \ {s} : ~About(t)'
    BY <2>5 DEF About
  <2>7. ASSUME MsgKept, HoldsKept(s), OpeningKept(s), SocketType', Calm(s)', SlotInv(s) PROVE SlotInv(s)'
    <3>0. high # <<>> => sock[s].dw # <<>> \/ sock[s].high # <<>>
      BY <2>h
    <3>a. ~On("close", s)' /\ ~On("decide", s)' /\ ~On("conn", s)' /\ ~On("clear", s)' /\ ~On("failed", s)' /\ On("send", s)'
      BY <2>5 DEF On
    <3>1. Bound(s)' /\ Bare(s)' /\ Watched(s)'
      BY <1>6, <2>2, <2>4, <2>7, <3>0, <3>a DEF SlotInv, Bound, Bare, Watched
    <3>2. Polled(s)'
      BY <2>2, <2>4, <2>5, <2>7, <3>a DEF Polled
    <3>3. Reserved(s)'
      BY <2>2, <2>4, <2>7, ReservedFrame DEF SlotInv, SocketType, PipeTyped
    <3>4. Locked(s)'
      <4>1. \A w \in Worker : ~Holds(w, s)'
        BY <1>8, <2>7, SocketAssumption DEF HoldsKept, SlotInv, Locked, Worker
      <4> QED
        BY <2>2, <2>4, <4>1 DEF Locked
    <3>5. Addressed(s)'
      <4>1. To(high, sock[s].id) /\ To(sock[s].low, sock[s].id)
        BY <1>1, <2>7, <2>h, ToConcat DEF SlotInv, Addressed, SockType
      <4>2. To(sock[s].high, sock[s].id)' /\ To(sock[s].low, sock[s].id)' /\ To(<<>>, sock[s].id)'
        BY <2>2, <2>4, <2>7, <4>1 DEF To, MsgKept
      <4> QED
        BY <2>2, <2>4, <4>2 DEF Addressed
    <3>6. Fresh(s)'
      <4>1. \A i \in DOMAIN ev' : ev'[i].slot = s => sock'[s].id = ev'[i].id
        BY <2>2, <2>4, <2>7 DEF PollBase, EvKept, SlotInv, Fresh
      <4>2. sock'[s].type \notin Dead
        BY <2>2, <2>4, <2>7
      <4> QED
        BY <2>5, <3>a, <4>1, <4>2 DEF Fresh
    <3>7. Delivered(s)'
      BY <1>3, <2>7, DeliveredFrame DEF SlotInv
    <3> QED
      BY <3>1, <3>2, <3>3, <3>4, <3>5, <3>6, <3>7 DEF SlotInv
  <2> QED
    BY <1>3, <1>4, <2>4, <2>5, <2>6, <2>7, PollOnly
<1> QED
  BY <1>7, <1>8 DEF SendBuffer

\* The socket is closed and its lock is free.
LEMMA ClosedInv ==
  ASSUME SocketInv, NEW s \in Slot, sock' = [sock EXCEPT ![s] = Closed(s)], PollBase(s), PipeKept(s), ev' = ev,
         poll' = Top \/ poll' = Clear(sock[s].id), aborted' = aborted,
         wire' \in [Id -> Seq(Unit)], \A t \in Slot \ {s} : WireKept(t),
         Calm(s) /\ SlotInv(s) =>
            /\ Delivered(s)' /\ sock[s].type \notin Dead
            /\ \A w \in Worker : ~Holds(w, s)
            /\ poll' = Top => \A i \in DOMAIN ev : ev[i].slot # s
  PROVE  SocketInv'
<1>1. SocketType /\ sock[s] \in SockType
  BY DEF SocketInv, SocketType, SocketsTyped
<1>x. PICK x \in SockType : x = Closed(s)
  <2>1. <<>> \in Seq(Unit)
    OBVIOUS
  <2> QED
    BY <1>1, <2>1 DEF Closed, SockType
<1>2. /\ x.type = "INVALID" /\ x.id = sock[s].id /\ x.fd = sock[s].fd
      /\ x.high = <<>> /\ x.low = <<>> /\ x.dw = <<>> /\ x.lock = Nobody /\ ~x.add /\ ~x.wr
  BY <1>1, <1>x DEF Closed, SockType
<1>3. SocketsTyped' /\ sock'[s] = x /\ \A t \in Slot \ {s} : sock'[t] = sock[t]
  <2>1. (x.id # 0 => HashId(x.id) = s) /\ (x.fd # 0 => HashId(x.fd) = s)
    BY <1>1, <1>2 DEF SocketType, SocketsTyped
  <2> QED
    BY <1>1, <1>x, <2>1, SockUpdate
<1>4. poll' \in PollType /\ poll'.pc \in {"top", "clear"} /\ (poll'.pc = "top" => poll' = Top)
  <2>1. Top \in PollType /\ Top.pc = "top"
    BY DEF Top, PollType
  <2>2. sock[s].id \in 0..MaxId /\ sock[s].id \in Nat
    BY <1>1, SocketAssumption DEF SockType
  <2>3. Clear(sock[s].id) \in PollType /\ Clear(sock[s].id).pc = "clear"
    BY <2>2, HashSlot DEF Clear, PollType
  <2> QED
    BY <2>1, <2>3
<1>5. \A t \in Slot : About(t)' => poll'.pc = "clear"
  BY <1>4 DEF About
<1>6. ASSUME MsgKept, HoldsKept(s), OpeningKept(s), SocketType', Calm(s), SlotInv(s) PROVE SlotInv(s)'
  <2>0. /\ Delivered(s)' /\ sock[s].type \notin Dead /\ sock[s].type # "RESERVE"
        /\ \A w \in Worker : ~Holds(w, s)
        /\ poll' = Top => \A i \in DOMAIN ev : ev[i].slot # s
    BY <1>6 DEF Dead
  <2>1. ~On("send", s)' /\ ~On("close", s)' /\ ~On("decide", s)' /\ ~On("conn", s)'
    BY <1>4 DEF On
  <2>2. Bound(s)' /\ Bare(s)' /\ Watched(s)' /\ Polled(s)'
    BY <1>2, <1>3, <2>1 DEF Bound, Bare, Watched, Polled, Dead
  <2>3. Reserved(s)'
    BY <1>6, <2>0, ReservedFrame DEF SlotInv, SocketType, PipeTyped
  <2>4. Locked(s)'
    BY <1>6, <2>0, <2>1 DEF HoldsKept, Locked
  <2>5. Addressed(s)'
    <3>1. To(<<>>, sock[s].id)'
      BY DEF To
    <3> QED
      BY <1>2, <1>3, <3>1 DEF Addressed
  <2>6. Fresh(s)'
    <3>1. CASE poll' = Top
      BY <2>0, <2>1, <3>1 DEF Fresh
    <3>2. CASE poll' = Clear(sock[s].id)
      <4>1. HashId(sock[s].id) = s
        BY <1>6, <2>0 DEF SlotInv, Bound
      <4>2. On("clear", s)' /\ poll'.id = sock[s].id
        BY <3>2, <4>1 DEF On, Clear
      <4>3. \A i \in DOMAIN ev : ev[i].slot = s => sock[s].id = ev[i].id
        BY <1>6 DEF SlotInv, Fresh
      <4> QED
        BY <1>2, <1>3, <2>1, <4>2, <4>3 DEF Fresh
    <3> QED
      BY <3>1, <3>2
  <2> QED
    BY <2>0, <2>2, <2>3, <2>4, <2>5, <2>6 DEF SlotInv
<1>7. AbortsAreExplained'
  BY DEF SocketInv, AbortsAreExplained, Calm, PollBase
<1> QED
  BY <1>3, <1>4, <1>5, <1>6, <1>7, PollOnly

\* PollBase for a step that takes nothing from the pipe
LEMMA SamePollBase ==
  ASSUME SocketInv, NEW s \in Slot, UNCHANGED <<alloc, pipe, wk, known, msg>>, EventsTyped',
         raced \subseteq raced', raced' \subseteq Nat, \A t \in Slot : EvKept(t) /\ (t # s => ~About(t))
  PROVE  PollBase(s) /\ PipeKept(s)
<1>1. SocketType /\ MsgKept
  BY DEF SocketInv, MsgKept
<1> QED
  BY <1>1, PipeSame DEF SocketType, PollBase

\* ... and for a request
LEMMA CmdPollBase ==
  ASSUME SocketInv, NEW c, Cmd(c), NEW s \in Slot, raced \subseteq raced', raced' \subseteq Nat
  PROVE  /\ PollBase(s) /\ PipeKept(s) /\ ev' = ev /\ poll.pc = "top" /\ \A t \in Slot : ~About(t)
         /\ 1 \in DOMAIN pipe /\ Head(pipe) = pipe[1] /\ Head(pipe) \in RequestType /\ Head(pipe).c = c
         /\ Head(pipe).id \in Id /\ Head(pipe).id \in Nat
         /\ \A i \in DOMAIN pipe' : i + 1 \in DOMAIN pipe /\ i + 1 # 1 /\ pipe'[i] = pipe[i + 1]
<1>1. SocketType
  BY DEF SocketInv
<1>2. /\ poll.pc = "top" /\ pipe # <<>> /\ pipe' = Tail(pipe) /\ Head(pipe).c = c
      /\ UNCHANGED <<alloc, ev, wk, known, msg>>
  BY DEF Cmd
<1>3. EventsTyped' /\ \A t \in Slot : EvKept(t)
  BY <1>1, <1>2, EventsSame
<1>4. /\ 1 \in DOMAIN pipe /\ Head(pipe) = pipe[1] /\ Head(pipe) \in RequestType
      /\ PipeTyped' /\ \A t \in Slot : PipeKept(t)
  BY <1>1, <1>2, PipeTaken
<1>5. \A i \in DOMAIN pipe' : i + 1 \in DOMAIN pipe /\ i + 1 # 1 /\ pipe'[i] = pipe[i + 1]
  BY <1>1, <1>2 DEF SocketType, PipeTyped
<1>6. \A t \in Slot : ~About(t)
  BY <1>2 DEF About
<1>7. Head(pipe).id \in Id /\ Head(pipe).id \in Nat
  <2>1. Head(pipe).id \in Id
    BY <1>4 DEF RequestType
  <2> QED
    BY <2>1 DEF Id
<1> QED
  BY <1>1, <1>2, <1>3, <1>4, <1>5, <1>6, <1>7 DEF PollBase, SocketType

\* Only a request to open a slot may go on with it: it found the slot reserved
\* for it.
LEMMA AskedSlot ==
  ASSUME SocketType, NEW s \in Slot, SlotInv(s), 1 \in DOMAIN pipe, Asks(pipe[1], s),
         \A i \in DOMAIN pipe' : i + 1 \in DOMAIN pipe /\ i + 1 # 1 /\ pipe'[i] = pipe[i + 1]
  PROVE  /\ sock[s].type = "RESERVE" /\ sock[s].id = pipe[1].id
         /\ \A w \in Worker : ~Opening(w, s)
         /\ \A i \in DOMAIN pipe' : ~Asks(pipe'[i], s)
BY DEF SlotInv, Reserved

\* A slot that nobody opens is freed by open_socket, which fails.
LEMMA FreedInv ==
  ASSUME SocketInv, NEW s \in Slot, NEW id \in 0..MaxId, NEW pc \in {"clear", "failed"},
         PollBase(s), PipeKept(s), ev' = ev, ~On("clear", s),
         sock' = [sock EXCEPT ![s].type = "INVALID"], poll' = [pc |-> pc, slot |-> s, id |-> id],
         UNCHANGED <<wire, aborted, raced>>,
         SlotInv(s) => /\ sock[s].type \in Dead
                       /\ \A w \in Worker : ~Opening(w, s)
                       /\ \A i \in DOMAIN pipe' : ~Asks(pipe'[i], s)
  PROVE  SocketInv'
<1>1. SocketType
  BY DEF SocketInv
<1>2. /\ sock'[s].type = "INVALID" /\ sock'[s].id = sock[s].id /\ sock'[s].fd = sock[s].fd
      /\ sock'[s].high = sock[s].high /\ sock'[s].low = sock[s].low /\ sock'[s].dw = sock[s].dw
      /\ sock'[s].lock = sock[s].lock /\ sock'[s].add = sock[s].add /\ sock'[s].wr = sock[s].wr
      /\ \A t \in Slot \ {s} : sock'[t] = sock[t]
      /\ SocketsTyped'
  BY ZenonT(60), <1>1 DEF SocketType, SocketsTyped, SockType
<1>3. poll' \in PollType /\ poll'.pc = pc /\ poll'.slot = s
  BY DEF PollType
<1>4. \A t \in Slot \ {s} : ~About(t)'
  BY <1>3 DEF About
<1>5. wire' \in [Id -> Seq(Unit)] /\ (\A t \in Slot : WireKept(t)) /\ AbortsAreExplained'
  BY <1>1 DEF SocketType, WireKept, SocketInv, AbortsAreExplained, Calm
<1>6. ASSUME MsgKept, HoldsKept(s), OpeningKept(s), SocketType', SlotInv(s) PROVE SlotInv(s)'
  <2>1. ~On("send", s)' /\ ~On("close", s)' /\ ~On("decide", s)' /\ ~On("conn", s)'
    BY <1>3 DEF On
  <2>2. Bound(s)' /\ Bare(s)' /\ Polled(s)' /\ Watched(s)'
    BY <1>2, <1>6, <2>1 DEF SlotInv, Bound, Bare, Polled, Watched, Dead
  <2>3. Reserved(s)'
    BY <1>6 DEF OpeningKept, Reserved
  <2>4. Locked(s)'
    BY <1>1, <1>2, <1>6, <2>1, LockedFrame DEF SlotInv, Dead
  <2>5. Addressed(s)' /\ Delivered(s)'
    BY <1>2, <1>5, <1>6, AddressedFrame, DeliveredFrame DEF SlotInv
  <2>6. Fresh(s)'
    BY <1>6, <2>1 DEF SlotInv, Fresh
  <2> QED
    BY <2>2, <2>3, <2>4, <2>5, <2>6 DEF SlotInv
<1> QED
  BY <1>2, <1>3, <1>4, <1>5, <1>6, PollOnly

\* open_socket keeps the invariant.
LEMMA OpenSocketInv ==
  ASSUME SocketInv, OpenSocket
  PROVE  SocketInv'
<1>1. SocketType /\ Cmd("O")
  BY DEF SocketInv, OpenSocket
<1>r. raced \subseteq raced' /\ raced' \subseteq Nat
  <2>1. Head(pipe).id \in Id
    BY <1>1 DEF SocketType, PipeTyped, RequestType, Cmd
  <2> QED
    BY <1>1, <2>1, NewFdRaced DEF OpenSocket, NewFdFails, SocketType
<1>a. PICK id \in Id : id = Head(pipe).id /\ id \in Nat
  <2>1. Head(pipe).id \in Id
    BY <1>1 DEF SocketType, PipeTyped, RequestType, Cmd
  <2> QED
    BY <2>1 DEF Id
<1>s. PICK s \in Slot : s = HashId(id)
  BY <1>a, HashSlot
<1>2. /\ PollBase(s) /\ PipeKept(s) /\ ev' = ev /\ poll.pc = "top" /\ \A t \in Slot : ~About(t)
      /\ 1 \in DOMAIN pipe /\ Head(pipe) = pipe[1] /\ Head(pipe) \in RequestType /\ Head(pipe).c = "O"
      /\ \A i \in DOMAIN pipe' : i + 1 \in DOMAIN pipe /\ i + 1 # 1 /\ pipe'[i] = pipe[i + 1]
  BY <1>1, <1>r, CmdPollBase
<1>3. SlotInv(s) => /\ sock[s].type = "RESERVE" /\ sock[s].id = id
                    /\ \A w \in Worker : ~Opening(w, s)
                    /\ \A i \in DOMAIN pipe' : ~Asks(pipe'[i], s)
  <2>1. Asks(pipe[1], s)
    BY <1>2, <1>a, <1>s DEF Asks
  <2> QED
    BY <1>1, <1>2, <1>a, <2>1, AskedSlot
<1>d. id \in 0..MaxId
  BY SocketAssumption DEF Id
<1>4. ASSUME NEW type \in {"CONNECTED", "CONNECTING"}, NewFd(s, id, type, TRUE), poll' = poll PROVE SocketInv'
  BY <1>2, <1>3, <1>4, <1>s, NewFdInv DEF Dead
<1>5. CASE sock' = [sock EXCEPT ![s].type = "INVALID"] /\ poll' = Clear(id) /\ UNCHANGED <<wire, aborted, raced>>
  BY <1>2, <1>3, <1>5, <1>s, <1>d, FreedInv DEF Clear, On, Dead
<1>6. CASE NewFdFails(s, id)
  BY <1>2, <1>3, <1>6, <1>d, FreedInv DEF NewFdFails, On, Dead
<1> QED
  BY <1>4, <1>5, <1>6, <1>a, <1>s DEF OpenSocket

\* listen_socket keeps the invariant.
LEMMA ListenSocketInv ==
  ASSUME SocketInv, ListenSocket
  PROVE  SocketInv'
<1>1. SocketType /\ Cmd("L")
  BY DEF SocketInv, ListenSocket
<1>a. PICK id \in Id : id = Head(pipe).id /\ id \in Nat
  <2>1. Head(pipe).id \in Id
    BY <1>1 DEF SocketType, PipeTyped, RequestType, Cmd
  <2> QED
    BY <2>1 DEF Id
<1>s. PICK s \in Slot : s = HashId(id)
  BY <1>a, HashSlot
<1>0. NewFd(s, id, "PLISTEN", FALSE) /\ poll' = poll
  BY <1>a, <1>s DEF ListenSocket
<1>2. /\ PollBase(s) /\ PipeKept(s) /\ ev' = ev /\ poll.pc = "top" /\ \A t \in Slot : ~About(t)
      /\ 1 \in DOMAIN pipe /\ Head(pipe) = pipe[1] /\ Head(pipe) \in RequestType /\ Head(pipe).c = "L"
      /\ \A i \in DOMAIN pipe' : i + 1 \in DOMAIN pipe /\ i + 1 # 1 /\ pipe'[i] = pipe[i + 1]
  BY <1>0, <1>1, NewFdRaced, CmdPollBase
<1>3. SlotInv(s) => /\ sock[s].type = "RESERVE" /\ sock[s].id = id
                    /\ \A w \in Worker : ~Opening(w, s)
                    /\ \A i \in DOMAIN pipe' : ~Asks(pipe'[i], s)
  <2>1. Asks(pipe[1], s)
    BY <1>2, <1>a, <1>s DEF Asks
  <2> QED
    BY <1>1, <1>2, <1>a, <2>1, AskedSlot
<1> QED
  BY <1>0, <1>2, <1>3, <1>s, NewFdInv DEF Dead

\* start_socket keeps the invariant.
LEMMA StartSocketInv ==
  ASSUME SocketInv, StartSocket
  PROVE  SocketInv'
<1>1. SocketType /\ Cmd("S") /\ raced \subseteq Nat
  BY DEF SocketInv, StartSocket, SocketType
<1>a. PICK id \in Id : id = Head(pipe).id /\ id \in Nat
  <2>1. Head(pipe).id \in Id
    BY SMTT(40), <1>1 DEF SocketType, PipeTyped, RequestType, Cmd
  <2> QED
    BY <2>1 DEF Id
<1>s. PICK s \in Slot : s = HashId(id)
  BY <1>a, HashSlot
<1>r. raced' = raced
  BY DEF StartSocket, ForceClose, Abort
<1>2. PollBase(s) /\ PipeKept(s) /\ ev' = ev /\ poll.pc = "top" /\ \A t \in Slot : ~About(t)
  BY <1>1, <1>r, CmdPollBase
<1>3. CASE poll' = Clear(id) /\ UNCHANGED <<sock, wire, aborted, raced>>
  <2>1. poll' \in PollType /\ poll'.pc = "clear"
    BY <1>3, <1>s, SocketAssumption DEF Clear, PollType, Id
  <2>2. AbortsAreExplained'
    BY <1>3 DEF SocketInv, AbortsAreExplained, Calm
  <2> QED
    BY <1>2, <1>3, <2>1, <2>2, PollIdle
<1>4. CASE UNCHANGED <<sock, poll, wire, aborted, raced>>
  <2>1. AbortsAreExplained' /\ poll' \in PollType
    BY <1>1, <1>4 DEF SocketInv, AbortsAreExplained, Calm, SocketType
  <2> QED
    BY <1>2, <1>4, <2>1, PollIdle
<1>5. CASE sock[s].type \in {"PACCEPT", "PLISTEN"} /\ ForceClose(s, "err", TRUE)
  BY <1>2, <1>5, ForceCloseInv DEF Dead
<1>6. CASE /\ sock[s].type \in {"PACCEPT", "PLISTEN"}
           /\ sock' = [sock EXCEPT ![s].add = TRUE, ![s].type = IF @ = "PACCEPT" THEN "CONNECTED" ELSE "LISTEN"]
           /\ UNCHANGED <<poll, wire, aborted, raced>>
  <2>t. PICK type \in {"CONNECTED", "LISTEN"} : type = IF sock[s].type = "PACCEPT" THEN "CONNECTED" ELSE "LISTEN"
    OBVIOUS
  <2>1. /\ sock'[s].type = type /\ sock'[s].id = sock[s].id /\ sock'[s].fd = sock[s].fd
        /\ sock'[s].high = sock[s].high /\ sock'[s].low = sock[s].low /\ sock'[s].dw = sock[s].dw
        /\ sock'[s].lock = sock[s].lock /\ sock'[s].add /\ sock'[s].wr = sock[s].wr
        /\ \A t \in Slot \ {s} : sock'[t] = sock[t]
        /\ SocketsTyped'
    <3>1. sock[s] \in SockType
      BY <1>1 DEF SocketType, SocketsTyped
    <3>x. PICK x \in SockType : x = [sock[s] EXCEPT !.add = TRUE, !.type = type]
      BY <3>1 DEF SockType
    <3>2. /\ x.type = type /\ x.id = sock[s].id /\ x.fd = sock[s].fd
          /\ x.high = sock[s].high /\ x.low = sock[s].low /\ x.dw = sock[s].dw
          /\ x.lock = sock[s].lock /\ x.add /\ x.wr = sock[s].wr
      BY <3>1, <3>x DEF SockType
    <3>3. sock' = [sock EXCEPT ![s] = x]
      BY <1>1, <1>6, <2>t, <3>1, <3>x DEF SocketType, SocketsTyped, SockType
    <3>4. (x.id # 0 => HashId(x.id) = s) /\ (x.fd # 0 => HashId(x.fd) = s)
      BY <1>1, <3>2 DEF SocketType, SocketsTyped
    <3> QED
      BY <1>1, <3>2, <3>3, <3>4, SockUpdate
  <2>2. poll' \in PollType /\ \A t \in Slot : ~About(t)'
    BY <1>1, <1>2, <1>6 DEF SocketType, About
  <2>4. wire' \in [Id -> Seq(Unit)] /\ (\A t \in Slot : WireKept(t)) /\ AbortsAreExplained'
    BY <1>1, <1>6 DEF SocketType, WireKept, SocketInv, AbortsAreExplained, Calm
  <2>5. ASSUME MsgKept, HoldsKept(s), OpeningKept(s), SocketType', SlotInv(s) PROVE SlotInv(s)'
    <3>1. /\ ~On("send", s)' /\ ~On("close", s)' /\ ~On("decide", s)' /\ ~On("conn", s)' /\ ~On("failed", s)'
      BY <1>2, <1>6 DEF On
    <3>2. Bound(s)' /\ Bare(s)' /\ Polled(s)' /\ Watched(s)'
      BY <1>6, <2>1, <2>5, <3>1 DEF SlotInv, Bound, Bare, Polled, Watched, Dead
    <3>3. Reserved(s)'
      BY <1>2, <1>6, <2>5, ReservedFrame DEF SlotInv, SocketType, PipeTyped
    <3>4. Locked(s)'
      BY <1>1, <1>6, <2>1, <2>5, <3>1, LockedFrame DEF SlotInv
    <3>5. Addressed(s)' /\ Delivered(s)'
      BY <2>1, <2>4, <2>5, AddressedFrame, DeliveredFrame DEF SlotInv
    <3>6. Fresh(s)'
      <4>1. EvKept(s) /\ PollKept(s)
        BY <1>2, <1>6 DEF PollBase, PollKept
      <4> QED
        BY <2>1, <2>5, <4>1, FreshFrame DEF SlotInv, Dead
    <3> QED
      BY <3>2, <3>3, <3>4, <3>5, <3>6 DEF SlotInv
  <2> QED
    BY <1>2, <2>1, <2>2, <2>4, <2>5, PollOnly
<1> QED
  BY <1>3, <1>4, <1>5, <1>6, <1>a, <1>s DEF StartSocket

\* A request that meets a reserved slot is a race.
LEMMA StolenRaced ==
  ASSUME SocketType, NEW id \in Id, raced' = raced \cup Stolen(id)
  PROVE  /\ raced \subseteq raced' /\ raced' \subseteq Nat
         /\ Valid(id) /\ Calm(HashId(id))' => sock[HashId(id)].type \notin Dead /\ sock[HashId(id)].id = id
<1>1. Stolen(id) \subseteq Nat
  <2>1. \A v \in Opener : wk[v].pc = "reserved" => wk[v].id \in Nat
    BY DEF SocketType, WorkersTyped, WorkerType, Worker, Id
  <2>2. id \in Nat
    BY DEF Id
  <2> QED
    BY <2>1, <2>2 DEF Stolen
<1>2. Valid(id) /\ sock[HashId(id)].type = "RESERVE" => id \in raced'
  BY DEF Stolen
<1>3. Valid(id) /\ Calm(HashId(id))' => sock[HashId(id)].type \notin Dead /\ sock[HashId(id)].id = id
  BY <1>2 DEF Calm, Valid, Dead
<1> QED
  BY <1>1, <1>3 DEF SocketType

\* close_socket, up to its send_buffer, keeps the invariant.
LEMMA CloseSocketInv ==
  ASSUME SocketInv, NEW c \in {"K", "H"}, CloseSocket(c)
  PROVE  SocketInv'
<1>1. SocketType /\ Cmd(c)
  BY DEF SocketInv, CloseSocket
<1>a. PICK id \in Id : id = Head(pipe).id /\ id \in Nat
  <2>1. Head(pipe).id \in Id
    BY <1>1 DEF SocketType, PipeTyped, RequestType, Cmd
  <2> QED
    BY <2>1 DEF Id
<1>s. PICK s \in Slot : s = HashId(id)
  BY <1>a, HashSlot
<1>d. PICK decide \in DecideType : decide = [pc |-> "decide", slot |-> s, c |-> c]
  BY DEF DecideType
<1>r. /\ raced \subseteq raced' /\ raced' \subseteq Nat
      /\ Valid(id) /\ Calm(s)' => sock[s].type \notin Dead
  <2>1. raced' = raced \cup Stolen(id)
    BY <1>a DEF CloseSocket
  <2> QED
    BY <1>1, <1>s, <2>1, StolenRaced
<1>2. PollBase(s) /\ PipeKept(s) /\ ev' = ev /\ poll.pc = "top" /\ \A t \in Slot : ~About(t)
  BY <1>1, <1>r, CmdPollBase
<1>3. CASE poll' = Clear(id) /\ UNCHANGED <<sock, wire, aborted>>
  <2>1. poll' \in PollType /\ poll'.pc = "clear"
    BY <1>3, <1>s, SocketAssumption DEF Clear, PollType, Id
  <2>2. AbortsAreExplained'
    BY <1>3, <1>r DEF SocketInv, AbortsAreExplained, Calm
  <2> QED
    BY <1>2, <1>3, <2>1, <2>2, PollIdle
<1>4. CASE Valid(id) /\ (SendBuffer(s, decide, decide) \/ (poll' = decide /\ UNCHANGED <<sock, wire, aborted>>))
  <2>1. decide # Top /\ decide.slot = s
    BY <1>d DEF Top
  <2> QED
    BY <1>2, <1>4, <1>r, <2>1, SendBufferInv
<1> QED
  BY <1>3, <1>4, <1>a, <1>s, <1>d DEF CloseSocket

\* send_socket keeps the invariant.
LEMMA SendSocketInv ==
  ASSUME SocketInv, NEW c \in {"D", "P"}, SendSocket(c)
  PROVE  SocketInv'
<1>1. SocketType /\ Cmd(c)
  BY DEF SocketInv, SendSocket
<1>a. PICK id \in Id : id = Head(pipe).id /\ id \in Nat
  <2>1. Head(pipe).id \in Id
    BY <1>1 DEF SocketType, PipeTyped, RequestType, Cmd
  <2> QED
    BY <2>1 DEF Id
<1>s. PICK s \in Slot : s = HashId(id)
  BY <1>a, HashSlot
<1>r. /\ raced \subseteq raced' /\ raced' \subseteq Nat
      /\ Valid(id) /\ Calm(s)' => sock[s].type \notin Dead /\ sock[s].id = id
  <2>1. raced' = raced \cup Stolen(id)
    BY <1>a DEF SendSocket
  <2> QED
    BY SMTT(40), <1>1, <1>s, <2>1, StolenRaced
<1>2. /\ PollBase(s) /\ PipeKept(s) /\ ev' = ev /\ poll.pc = "top" /\ \A t \in Slot : ~About(t)
      /\ 1 \in DOMAIN pipe /\ Head(pipe) = pipe[1] /\ Head(pipe).c = c
  BY <1>1, <1>r, CmdPollBase
<1>n. PICK n \in Nat : n = Head(pipe).n /\ n \in DOMAIN msg /\ msg[n].to = id
  <2>1. Head(pipe).n \in DOMAIN msg /\ msg[Head(pipe).n].to = id
    BY <1>1, <1>2, <1>a DEF SocketType, PipeTyped
  <2>2. Head(pipe).n \in Nat
    BY SMTT(40), <1>1, <2>1 DEF SocketType
  <2> QED
    BY <2>1, <2>2
<1>3. UNCHANGED <<poll, wire, aborted>>
  BY DEF SendSocket
<1>4. AbortsAreExplained' /\ poll' \in PollType
  BY <1>1, <1>3, <1>r DEF SocketInv, AbortsAreExplained, Calm, SocketType
<1>5. CASE sock' = sock
  BY <1>2, <1>3, <1>4, <1>5, PollIdle
<1>6. ASSUME Valid(id), sock[s].type \notin {"HALFCLOSE", "PACCEPT", "PLISTEN", "LISTEN"}, NEW first \in BOOLEAN,
             first = (SendBufferEmpty(s) /\ sock[s].type = "CONNECTED"),
             sock' = IF c = "D" \/ first
                     THEN [sock EXCEPT ![s].high = @ \o Units(n), ![s].wr = @ \/ first]
                     ELSE [sock EXCEPT ![s].low = @ \o Units(n)]
      PROVE  SocketInv'
  <2>0. /\ sock[s] \in SockType
        /\ sock[s].high \in Seq(Unit) /\ sock[s].low \in Seq(Unit)
        /\ Units(n) \in Seq(Unit) /\ To(Units(n), id)
    BY <1>1, <1>n, UnitsTo DEF SocketType, SocketsTyped, SockType
  <2>c. sock[s].high \o Units(n) \in Seq(Unit) /\ sock[s].low \o Units(n) \in Seq(Unit)
    BY <2>0
  <2>h. PICK high \in Seq(Unit) : high = IF c = "D" \/ first THEN sock[s].high \o Units(n) ELSE sock[s].high
    BY <2>0, <2>c
  <2>l. PICK low \in Seq(Unit) : low = IF c = "D" \/ first THEN sock[s].low ELSE sock[s].low \o Units(n)
    BY <2>0, <2>c
  <2>w. PICK wr \in BOOLEAN : wr = (sock[s].wr \/ first)
    OBVIOUS
  <2>x. PICK x \in SockType : x = [sock[s] EXCEPT !.high = high, !.low = low, !.wr = wr]
    BY <2>0 DEF SockType
  <2>1. /\ x.type = sock[s].type /\ x.id = sock[s].id /\ x.fd = sock[s].fd
        /\ x.high = high /\ x.low = low /\ x.dw = sock[s].dw
        /\ x.lock = sock[s].lock /\ x.add = sock[s].add /\ x.wr = wr
    BY <2>0, <2>x DEF SockType
  <2>2. sock' = [sock EXCEPT ![s] = x]
    <3>1. CASE c = "D" \/ first
      <4>1. sock' = [sock EXCEPT ![s].high = sock[s].high \o Units(n), ![s].wr = sock[s].wr \/ first]
        BY <1>1, <1>6, <3>1 DEF SocketType, SocketsTyped
      <4>2. sock' = [sock EXCEPT ![s].high = high, ![s].wr = wr]
        BY <2>h, <2>w, <3>1, <4>1
      <4>3. x = [sock[s] EXCEPT !.high = high, !.wr = wr]
        BY <2>0, <2>l, <2>x, <3>1 DEF SockType
      <4> QED
        BY <1>1, <4>2, <4>3 DEF SocketType, SocketsTyped
    <3>2. CASE ~(c = "D" \/ first)
      <4>1. sock' = [sock EXCEPT ![s].low = sock[s].low \o Units(n)]
        BY <1>1, <1>6, <3>2 DEF SocketType, SocketsTyped
      <4>2. sock' = [sock EXCEPT ![s].low = low]
        BY <2>l, <3>2, <4>1
      <4>3. wr = sock[s].wr
        BY <2>0, <2>w, <3>2 DEF SockType
      <4>4. x = [sock[s] EXCEPT !.low = low]
        BY <2>0, <2>h, <2>x, <3>2, <4>3 DEF SockType
      <4> QED
        BY <1>1, <4>2, <4>4 DEF SocketType, SocketsTyped
    <3> QED
      BY <3>1, <3>2
  <2>3. SocketsTyped' /\ sock'[s] = x /\ \A t \in Slot \ {s} : sock'[t] = sock[t]
    <3>1. (x.id # 0 => HashId(x.id) = s) /\ (x.fd # 0 => HashId(x.fd) = s)
      BY <1>1, <2>1 DEF SocketType, SocketsTyped
    <3> QED
      BY <1>1, <2>2, <3>1, SockUpdate
  <2>4. wire' \in [Id -> Seq(Unit)] /\ (\A t \in Slot : WireKept(t)) /\ \A t \in Slot : ~About(t)'
    BY <1>1, <1>2, <1>3 DEF SocketType, WireKept, About
  <2>5. ASSUME MsgKept, HoldsKept(s), OpeningKept(s), SocketType', Calm(s)', SlotInv(s) PROVE SlotInv(s)'
    <3>0. sock[s].type \in {"CONNECTED", "CONNECTING"} /\ sock[s].id = id
      BY <1>6, <1>r, <2>0, <2>5 DEF SockType, Dead
    <3>1. /\ ~On("send", s)' /\ ~On("close", s)' /\ ~On("decide", s)' /\ ~On("conn", s)' /\ ~On("failed", s)'
          /\ ~On("send", s) /\ ~On("close", s) /\ ~On("decide", s) /\ ~On("conn", s)
      BY <1>2, <1>3 DEF On
    <3>2. Bound(s)' /\ Bare(s)' /\ Polled(s)'
      BY <2>1, <2>3, <2>5, <3>0, <3>1 DEF SlotInv, Bound, Bare, Polled, Dead
    <3>w. Watched(s)'
      <4>2. sock[s].type = "CONNECTED" => wr
        BY <1>6, <2>5, <2>w, <3>1 DEF SlotInv, Watched, SendBufferEmpty
      <4>3. sock[s].type = "CONNECTING" => wr
        BY <2>5, <2>w, <3>1 DEF SlotInv, Watched
      <4> QED
        BY <2>1, <2>3, <2>5, <3>0, <3>1, <4>2, <4>3 DEF SlotInv, Watched, Dead
    <3>3. Reserved(s)'
      BY <1>2, <2>1, <2>3, <2>5, ReservedFrame DEF SlotInv, SocketType, PipeTyped
    <3>4. Locked(s)'
      BY <1>1, <2>1, <2>3, <2>5, <3>1, LockedFrame DEF SlotInv
    <3>5. Addressed(s)'
      <4>1. To(sock[s].high, id) /\ To(sock[s].low, id) /\ To(sock[s].dw, id)
        BY <2>5, <3>0 DEF SlotInv, Addressed
      <4>2. To(high, id) /\ To(low, id)
        BY <2>0, <2>h, <2>l, <4>1, ToConcat
      <4>3. To(sock[s].high, sock[s].id)' /\ To(sock[s].low, sock[s].id)' /\ To(sock[s].dw, sock[s].id)'
        BY <2>1, <2>3, <2>5, <3>0, <4>1, <4>2 DEF To, MsgKept
      <4> QED
        BY <4>3 DEF Addressed
    <3>6. Fresh(s)'
      <4>1. EvKept(s) /\ PollKept(s)
        BY <1>2, <1>3 DEF PollBase, PollKept
      <4> QED
        BY <2>1, <2>3, <2>5, <4>1, FreshFrame DEF SlotInv
    <3>7. Delivered(s)'
      BY <2>4, <2>5, DeliveredFrame DEF SlotInv
    <3> QED
      BY <3>2, <3>w, <3>3, <3>4, <3>5, <3>6, <3>7 DEF SlotInv
  <2> QED
    BY <1>2, <1>4, <2>3, <2>4, <2>5, PollOnly
<1>f. PICK first \in BOOLEAN : first = (SendBufferEmpty(s) /\ sock[s].type = "CONNECTED")
  OBVIOUS
<1> QED
  BY ZenonT(60), <1>5, <1>6, <1>a, <1>s, <1>n, <1>f DEF SendSocket

\* The end of close_socket, a close or a half close, keeps the invariant.
LEMMA CloseDecideInv ==
  ASSUME SocketInv, CloseDecide
  PROVE  SocketInv'
<1>1. SocketType /\ poll \in DecideType /\ poll.pc = "decide" /\ UNCHANGED <<alloc, pipe, ev, wk, known, msg>>
  BY DEF SocketInv, SocketType, PollType, SendType, Top, DecideType, CloseDecide
<1>s. PICK s \in Slot : s = poll.slot /\ On("decide", s)
  BY <1>1 DEF DecideType, On
<1>r. raced' = raced /\ raced \subseteq Nat
  BY <1>1 DEF CloseDecide, ForceClose, Abort, SocketType
<1>2. PollBase(s) /\ PipeKept(s) /\ (\A t \in Slot \ {s} : ~About(t)) /\ EvKept(s)
  <2>1. EventsTyped' /\ \A t \in Slot : EvKept(t)
    BY <1>1, EventsSame
  <2>2. \A t \in Slot \ {s} : ~About(t)
    BY <1>s DEF About
  <2> QED
    BY <1>1, <1>r, <2>1, <2>2, SamePollBase
<1>3. Calm(s) => SlotInv(s) /\ sock[s].type \notin Dead
  BY <1>s DEF SocketInv, SlotInv, Polled
<1>4. CASE ForceClose(s, poll.c, TRUE)
  <2>c. PICK why \in {"K", "H", "err"} : why = poll.c
    BY <1>1 DEF DecideType
  <2> QED
    BY <1>2, <1>3, <1>4, <2>c, ForceCloseInv
<1>5. CASE /\ ~SendBufferEmpty(s)
           /\ sock' = [sock EXCEPT ![s].type = "HALFCLOSE"]
           /\ poll' = Top
           /\ UNCHANGED <<wire, aborted, raced>>
  <2>1. /\ sock'[s].type = "HALFCLOSE" /\ sock'[s].id = sock[s].id /\ sock'[s].fd = sock[s].fd
        /\ sock'[s].high = sock[s].high /\ sock'[s].low = sock[s].low /\ sock'[s].dw = sock[s].dw
        /\ sock'[s].lock = sock[s].lock /\ sock'[s].add = sock[s].add /\ sock'[s].wr = sock[s].wr
        /\ \A t \in Slot \ {s} : sock'[t] = sock[t]
        /\ SocketsTyped'
    BY ZenonT(60), <1>1, <1>5 DEF SocketType, SocketsTyped, SockType
  <2>2. poll' \in PollType /\ poll'.pc = "top"
    BY <1>5 DEF Top, PollType
  <2>3. wire' \in [Id -> Seq(Unit)] /\ (\A t \in Slot : WireKept(t)) /\ (\A t \in Slot : ~About(t)') /\ AbortsAreExplained'
    BY <1>1, <1>5, <2>2 DEF SocketType, WireKept, About, SocketInv, AbortsAreExplained, Calm
  <2>5. ASSUME MsgKept, HoldsKept(s), OpeningKept(s), SocketType', Calm(s), SlotInv(s) PROVE SlotInv(s)'
    <3>0. sock[s].type \in {"CONNECTED", "CONNECTING", "HALFCLOSE"}
      <4>1. sock[s] \in SockType
        BY <1>1 DEF SocketType, SocketsTyped
      <4> QED
        BY <1>3, <1>5, <2>5, <4>1 DEF SlotInv, Bare, SendBufferEmpty, Dead, SockType
    <3>1. /\ ~On("send", s)' /\ ~On("close", s)' /\ ~On("decide", s)' /\ ~On("conn", s)' /\ ~On("failed", s)'
          /\ ~On("send", s) /\ ~On("close", s)
      BY <1>1, <2>2 DEF On
    <3>2. Bound(s)' /\ Bare(s)' /\ Polled(s)' /\ Watched(s)'
      BY <1>5, <2>1, <2>5, <3>0, <3>1 DEF SlotInv, Bound, Bare, Polled, Watched, Dead, SendBufferEmpty
    <3>3. Reserved(s)'
      BY <1>2, <2>1, <2>5, <3>0, ReservedFrame DEF SlotInv, SocketType, PipeTyped
    <3>4. Locked(s)'
      BY <1>1, <2>1, <2>5, <3>1, LockedFrame DEF SlotInv
    <3>5. Addressed(s)' /\ Delivered(s)'
      BY <2>1, <2>3, <2>5, AddressedFrame, DeliveredFrame DEF SlotInv
    <3>6. Fresh(s)'
      BY <1>2, <2>1, <2>5, <3>1 DEF SlotInv, Fresh, EvKept, Dead
    <3> QED
      BY <3>2, <3>3, <3>4, <3>5, <3>6 DEF SlotInv
  <2> QED
    BY <1>2, <2>1, <2>2, <2>3, <2>5, PollOnly
<1> QED
  BY <1>4, <1>5, <1>s DEF CloseDecide

\* send_buffer_ has written some of the lists.
LEMMA SentInv ==
  ASSUME SocketInv, NEW s \in Slot, On("send", s), PollBase(s), PipeKept(s), ev' = ev,
         NEW x \in SockType, sock' = [sock EXCEPT ![s] = x],
         x.type = sock[s].type /\ x.id = sock[s].id /\ x.fd = sock[s].fd /\ x.dw = sock[s].dw /\ x.add = sock[s].add,
         (x.lock = Nobody /\ poll' = poll.then) \/ (x.lock = sock[s].lock /\ poll' = poll),
         \/ x.wr = sock[s].wr /\ (sock[s].high # <<>> \/ sock[s].low # <<>>)
         \/ x.lock = Nobody /\ x.high = <<>> /\ x.low = <<>>,
         AbortsAreExplained', wire' \in [Id -> Seq(Unit)], \A t \in Slot \ {s} : WireKept(t),
         SlotInv(s) => Delivered(s)' /\ To(x.high, sock[s].id) /\ To(x.low, sock[s].id)
  PROVE  SocketInv'
<1>1. SocketType /\ sock[s] \in SockType
  BY DEF SocketInv, SocketType, SocketsTyped
<1>2. /\ x.type = sock[s].type /\ x.id = sock[s].id /\ x.fd = sock[s].fd /\ x.dw = sock[s].dw /\ x.add = sock[s].add
  OBVIOUS
<1>3. SocketsTyped' /\ sock'[s] = x /\ \A t \in Slot \ {s} : sock'[t] = sock[t]
  <2>1. (x.id # 0 => HashId(x.id) = s) /\ (x.fd # 0 => HashId(x.fd) = s)
    BY <1>1, <1>2 DEF SocketType, SocketsTyped
  <2> QED
    BY <1>1, <2>1, SockUpdate
<1>4. /\ poll \in SendType /\ poll.slot = s /\ poll.then \in PollType
      /\ poll.then = Top \/ (poll.then.pc = "decide" /\ poll.then.slot = s)
  <2>1. poll \in SendType /\ poll.slot = s
    BY <1>1 DEF SocketType, PollType, DecideType, On
  <2> QED
    BY <2>1 DEF SendType, PollType, DecideType, Top
<1>5. poll' \in PollType /\ \A t \in Slot \ {s} : ~About(t)'
  BY <1>1, <1>4 DEF SocketType, About, Top
<1>6. ASSUME MsgKept, HoldsKept(s), OpeningKept(s), SocketType', Calm(s), SlotInv(s) PROVE SlotInv(s)'
  <2>0. sock[s].type \notin Dead /\ (poll.then = Top => sock[s].type # "CONNECTING") /\ sock[s].dw = <<>> /\ sock[s].lock = "poll"
    BY <1>6 DEF SlotInv, Polled, Locked
  <2>1. ~On("close", s)' /\ ~On("conn", s)' /\ ~On("failed", s)' /\ ~On("close", s) /\ ~On("decide", s)
    BY <1>4 DEF On, Top
  <2>a. "poll" # Nobody
    BY SocketAssumption
  <2>2. x.lock = Nobody => ~On("send", s)' /\ (On("decide", s)' \/ poll.then = Top)
    BY <1>4, <2>0, <2>a DEF On, Top
  <2>3. x.lock # Nobody => ~On("decide", s)' /\ On("send", s)' /\ poll' = poll /\ x.lock = "poll"
    BY <1>4, <2>0 DEF On
  <2>4. Bound(s)' /\ Bare(s)' /\ Polled(s)'
    <3>1. Bound(s)' /\ Bare(s)'
      BY <1>2, <1>3, <1>6 DEF SlotInv, Bound, Bare
    <3>2. Polled(s)'
      BY <1>2, <1>3, <2>0, <2>1, <2>2, <2>3 DEF Polled
    <3> QED
      BY <3>1, <3>2
  <2>5. Watched(s)'
    <3>1. CASE x.wr = sock[s].wr /\ (sock[s].high # <<>> \/ sock[s].low # <<>>)
      BY <1>2, <1>3, <1>6, <2>1, <3>1 DEF SlotInv, Watched
    <3>2. CASE x.lock = Nobody /\ x.high = <<>> /\ x.low = <<>>
      BY <1>2, <1>3, <1>6, <2>0, <2>1, <2>2, <3>2 DEF SlotInv, Watched, SendBufferEmpty
    <3> QED
      BY <3>1, <3>2
  <2>6. Reserved(s)'
    BY <1>2, <1>3, <1>6, ReservedFrame DEF SlotInv, SocketType, PipeTyped
  <2>7. Locked(s)'
    <3>1. \A w \in Worker : ~Holds(w, s)'
      BY <1>6, <2>0, SocketAssumption DEF HoldsKept, SlotInv, Locked, Worker
    <3>2. On("send", s)' => sock'[s].lock = "poll" /\ sock'[s].dw = <<>>
      BY <1>2, <1>3, <2>0, <2>2, <2>3
    <3> QED
      BY <3>1, <3>2 DEF Locked
  <2>8. Addressed(s)'
    <3>1. To(x.high, sock[s].id) /\ To(x.low, sock[s].id) /\ To(sock[s].dw, sock[s].id)
      BY <1>6 DEF SlotInv, Addressed
    <3>2. To(sock[s].high, sock[s].id)' /\ To(sock[s].low, sock[s].id)' /\ To(sock[s].dw, sock[s].id)'
      BY <1>2, <1>3, <1>6, <3>1 DEF To, MsgKept
    <3> QED
      BY <3>2 DEF Addressed
  <2>9. Fresh(s)'
    <3>1. \A i \in DOMAIN ev' : ev'[i].slot = s => sock'[s].id = ev'[i].id
      BY <1>2, <1>3, <1>6 DEF SlotInv, Fresh
    <3>2. sock'[s].type \notin Dead
      BY <1>2, <1>3, <2>0
    <3>3. On("send", s)' /\ poll'.then = Top => \A i \in DOMAIN ev' : ev'[i].slot # s
      BY <1>6, <2>2, <2>3 DEF SlotInv, Fresh
    <3> QED
      BY <2>1, <3>1, <3>2, <3>3 DEF Fresh
  <2> QED
    BY <1>6, <2>4, <2>5, <2>6, <2>7, <2>8, <2>9 DEF SlotInv
<1> QED
  BY <1>3, <1>5, <1>6, PollOnly

\* The poll thread is at or about slot s and takes no request and no event.
LEMMA AtPollBase ==
  ASSUME SocketInv, NEW s \in Slot, poll.slot = s, UNCHANGED <<alloc, pipe, ev, wk, known, msg>>,
         raced \subseteq raced', raced' \subseteq Nat
  PROVE  PollBase(s) /\ PipeKept(s) /\ EvKept(s) /\ EventsTyped' /\ \A t \in Slot \ {s} : ~About(t)
<1>1. EventsTyped' /\ \A t \in Slot : EvKept(t)
  BY EventsSame DEF SocketInv
<1>2. \A t \in Slot \ {s} : ~About(t)
  BY DEF About
<1> QED
  BY <1>1, <1>2, SamePollBase

\* The end of an open_socket that failed keeps the invariant.
LEMMA OpenFailedInv ==
  ASSUME SocketInv, OpenFailed
  PROVE  SocketInv'
<1>1. /\ SocketType /\ poll.pc = "failed" /\ poll.slot \in Slot /\ poll.id \in 0..MaxId
      /\ UNCHANGED <<alloc, pipe, ev, wk, known, msg, wire, aborted, raced>> /\ raced \subseteq Nat
  BY DEF SocketInv, SocketType, PollType, DecideType, SendType, OpenFailed
<1>s. PICK s \in Slot : s = poll.slot /\ On("failed", s) /\ ~On("clear", s)
  BY <1>1 DEF On
<1>2. PollBase(s) /\ PipeKept(s)
  BY <1>1, <1>s, AtPollBase
<1>3. sock' = [sock EXCEPT ![s].type = "INVALID"] /\ poll' = [pc |-> "clear", slot |-> s, id |-> poll.id]
  BY <1>s DEF OpenFailed
<1>4. SlotInv(s) => /\ sock[s].type \in Dead
                    /\ \A w \in Worker : ~Opening(w, s)
                    /\ \A i \in DOMAIN pipe' : ~Asks(pipe'[i], s)
  BY <1>1, <1>s DEF SlotInv, Polled, Reserved, Dead
<1> QED
  BY <1>1, <1>2, <1>3, <1>4, <1>s, FreedInv

\* The writes of send_buffer keep the invariant.
LEMMA PollSendInv ==
  ASSUME SocketInv, PollSend
  PROVE  SocketInv'
<1>1. SocketType /\ poll \in SendType /\ poll.pc = "send" /\ UNCHANGED <<alloc, pipe, ev, wk, known, msg>>
  BY DEF SocketInv, SocketType, PollType, DecideType, PollSend
<1>s. PICK s \in Slot : s = poll.slot /\ On("send", s)
  BY <1>1 DEF SendType, On
<1>r. raced' = raced /\ raced \subseteq Nat
  BY Zenon, <1>1 DEF PollSend, SendBuffer_, SendFails, Abort, SocketType
<1>2. PollBase(s) /\ PipeKept(s)
  BY <1>1, <1>r, <1>s, AtPollBase
<1>m. MsgKept
  BY <1>1 DEF MsgKept
<1>3. sock[s] \in SockType
  BY <1>1 DEF SocketType, SocketsTyped
<1>h. PICK high \in Seq(Unit) : high = sock[s].high
  BY <1>3 DEF SockType
<1>l. PICK low \in Seq(Unit) : low = sock[s].low
  BY <1>3 DEF SockType
<1>4. SlotInv(s) =>
         /\ sock[s].type \notin Dead /\ sock[s].fd = sock[s].id /\ sock[s].id # 0
         /\ To(high, sock[s].id) /\ To(low, sock[s].id)
         /\ \A w \in Worker : ~Holds(w, s)
         /\ poll.then = Top => \A i \in DOMAIN ev : ev[i].slot # s
  <2>1. SlotInv(s) => sock[s].type \notin Dead /\ sock[s].fd = sock[s].id /\ sock[s].id # 0
    BY <1>s, SocketAssumption DEF SlotInv, Polled, Bound, Id
  <2>2. SlotInv(s) => \A w \in Worker : ~Holds(w, s)
    BY <1>s, SocketAssumption DEF SlotInv, Locked, Worker
  <2> QED
    BY <1>s, <1>h, <1>l, <2>1, <2>2 DEF SlotInv, Addressed, Fresh
<1>5. ASSUME SendFails PROVE SocketInv'
  <2>1. CASE sock[s].type = "RESERVE" /\ Abort("force_close", s)
    <3>1. UNCHANGED <<sock, poll, wire, raced>> /\ \A a \in aborted' : a.slot = s
      BY <2>1 DEF Abort
    <3>2. ~Calm(s)
      BY <1>4, <2>1 DEF SocketInv, Dead
    <3>3. AbortsAreExplained'
      BY <1>r, <3>1, <3>2, NotCalm
    <3> QED
      BY <1>1, <1>2, <3>1, <3>3, PollIdle DEF SocketType
  <2>2. CASE /\ sock' = [sock EXCEPT ![s] = Closed(s)]
             /\ poll' = IF poll.then = Top THEN Top ELSE Clear(sock[s].id)
             /\ UNCHANGED <<wire, aborted, raced>>
    <3>1. wire' \in [Id -> Seq(Unit)] /\ \A t \in Slot : WireKept(t)
      BY <1>1, <2>2 DEF SocketType, WireKept
    <3>2. SlotInv(s) => Delivered(s)'
      BY <1>m, <3>1, DeliveredFrame DEF SlotInv
    <3>3. Clear(sock[s].id) # Top
      BY DEF Clear, Top
    <3> QED
      BY <1>1, <1>2, <1>4, <2>2, <3>1, <3>2, <3>3, ClosedInv
  <2> QED
    BY <1>5, <1>s, <2>1, <2>2 DEF SendFails
<1>6. ASSUME NEW k \in 0..Len(high \o low), SendBuffer_(k) PROVE SocketInv'
  <2>1. high \o low \in Seq(Unit) /\ Len(high \o low) = Len(high) + Len(low) /\ Len(high) \in Nat /\ Len(low) \in Nat
    OBVIOUS
  <2>2. SlotInv(s) => To(high \o low, sock[s].id)
    BY SMTT(40), <1>4, ToConcat
  <2>3. /\ wire' \in [Id -> Seq(Unit)] /\ \A t \in Slot \ {s} : WireKept(t)
        /\ SlotInv(s) => Delivered(s)'
    <3>1. CASE wire' = wire
      <4>1. wire' \in [Id -> Seq(Unit)] /\ \A t \in Slot : WireKept(t)
        BY <1>1, <3>1 DEF SocketType, WireKept
      <4> QED
        BY <1>m, <4>1, DeliveredFrame DEF SlotInv
    <3>2. CASE wire' = [wire EXCEPT ![sock[s].fd] = @ \o SubSeq(high \o low, 1, k)]
      <4>0. 1 \in Nat \ {0} /\ k \in Nat /\ k <= Len(high \o low)
        BY <2>1
      <4>v. SubSeq(high \o low, 1, k) \in Seq(Unit)
        BY <2>1, <4>0
      <4>u. PICK u \in Seq(Unit) : u = SubSeq(high \o low, 1, k)
        BY <4>v
      <4>1. SlotInv(s) => To(u, sock[s].id)
        BY <2>1, <2>2, <4>0, <4>u, ToSub
      <4>2. /\ wire' \in [Id -> Seq(Unit)] /\ \A t \in Slot \ {s} : WireKept(t)
            /\ Delivered(s) /\ sock[s].fd # 0 /\ To(u, sock[s].fd) => Delivered(s)'
        BY <1>1, <1>m, <3>2, <4>u, Written
      <4> QED
        BY <1>4, <4>1, <4>2 DEF SlotInv
    <3> QED
      BY Zenon, <1>6, <1>s, <1>h, <1>l, <3>1, <3>2 DEF SendBuffer_
  <2>4. CASE /\ k < Len(high)
             /\ \/ sock' = [sock EXCEPT ![s].lock = Nobody, ![s].high = SubSeq(high, k + 1, Len(high))] /\ poll' = poll.then
                \/ sock' = [sock EXCEPT ![s].high = SubSeq(high, k + 1, Len(high))] /\ poll' = poll
             /\ aborted' = aborted
    <3>0. k + 1 \in Nat \ {0} /\ Len(high) \in Nat /\ Len(high) <= Len(high) /\ high # <<>>
      BY <2>1, <2>4
    <3>g. SubSeq(high, k + 1, Len(high)) \in Seq(Unit)
      BY <3>0
    <3>h. PICK h \in Seq(Unit) : h = SubSeq(high, k + 1, Len(high))
      BY <3>g
    <3>1. SlotInv(s) => To(h, sock[s].id)
      BY <1>4, <3>0, <3>h, ToSub
    <3>k. PICK lock \in {Nobody, sock[s].lock} :
            /\ sock' = [sock EXCEPT ![s].lock = lock, ![s].high = h]
            /\ (lock = Nobody /\ poll' = poll.then) \/ (lock = sock[s].lock /\ poll' = poll)
      <4>1. sock \in [Slot -> SockType]
        BY <1>1 DEF SocketType, SocketsTyped
      <4>2. CASE sock' = [sock EXCEPT ![s].high = h] /\ poll' = poll
        <5>1. sock' = [sock EXCEPT ![s].lock = sock[s].lock, ![s].high = h]
          BY <4>1, <4>2 DEF SockType
        <5> QED
          BY <4>2, <5>1
      <4> QED
        BY <2>4, <3>h, <4>2
    <3>x. PICK x \in SockType : x = [sock[s] EXCEPT !.lock = lock, !.high = h]
      BY <1>3 DEF SockType
    <3>2. /\ x.type = sock[s].type /\ x.id = sock[s].id /\ x.fd = sock[s].fd /\ x.dw = sock[s].dw /\ x.add = sock[s].add
          /\ x.lock = lock /\ x.high = h /\ x.low = low /\ x.wr = sock[s].wr
      BY <1>3, <1>l, <3>x DEF SockType
    <3>4. sock' = [sock EXCEPT ![s] = x]
      BY <1>1, <3>k, <3>x DEF SocketType, SocketsTyped
    <3>3. AbortsAreExplained'
      BY <1>r, <2>4 DEF SocketInv, AbortsAreExplained, Calm
    <3> QED
      BY <1>1, <1>2, <1>4, <1>h, <1>s, <2>3, <3>0, <3>1, <3>2, <3>3, <3>4, <3>k, SentInv
  <2> DEFINE rest0 == SubSeq(low, k - Len(high) + 1, Len(low))
  <2>5. ASSUME k >= Len(high)
        PROVE  rest0 \in Seq(Unit) /\ (rest0 # <<>> => low # <<>>) /\ (SlotInv(s) => To(rest0, sock[s].id))
    <3>0. k - Len(high) + 1 \in Nat \ {0} /\ Len(low) \in Nat /\ Len(low) <= Len(low)
      BY <2>1, <2>5
    <3>1. rest0 \in Seq(Unit) /\ (rest0 # <<>> => low # <<>>)
      BY <3>0
    <3>2. SlotInv(s) => To(rest0, sock[s].id)
      BY <1>4, <3>0, ToSub
    <3> QED
      BY <3>1, <3>2
  <2>r. PICK rest : rest = rest0
    OBVIOUS
  <2> HIDE DEF rest0
  <2>6. CASE /\ k >= Len(high) /\ rest # <<>>
             /\ sock' = [sock EXCEPT ![s].lock = Nobody, ![s].high = <<Head(rest)>>, ![s].low = Tail(rest)]
             /\ poll' = poll.then /\ aborted' = aborted
    <3>0. rest \in Seq(Unit) /\ low # <<>> /\ Len(rest) \in Nat
      BY <2>5, <2>6, <2>r
    <3>h. PICK h \in Seq(Unit) : h = <<Head(rest)>> /\ (SlotInv(s) => To(h, sock[s].id))
      <4>1. <<Head(rest)>> \in Seq(Unit) /\ 1 \in DOMAIN rest /\ Head(rest) = rest[1]
            /\ \A i \in DOMAIN <<Head(rest)>> : <<Head(rest)>>[i] = rest[1]
        BY <3>0, <2>6
      <4> QED
        BY <2>5, <2>6, <2>r, <4>1 DEF To
    <3>l. PICK l \in Seq(Unit) : l = Tail(rest) /\ (SlotInv(s) => To(l, sock[s].id))
      <4>1. Tail(rest) \in Seq(Unit) /\ \A i \in DOMAIN Tail(rest) : i + 1 \in DOMAIN rest /\ Tail(rest)[i] = rest[i + 1]
        BY <3>0, <2>6
      <4> QED
        BY ZenonT(60), <2>5, <2>6, <2>r, <4>1 DEF To
    <3>x. PICK x \in SockType : x = [sock[s] EXCEPT !.lock = Nobody, !.high = h, !.low = l]
      BY <1>3 DEF SockType
    <3>2. /\ x.type = sock[s].type /\ x.id = sock[s].id /\ x.fd = sock[s].fd /\ x.dw = sock[s].dw /\ x.add = sock[s].add
          /\ x.lock = Nobody /\ x.high = h /\ x.low = l /\ x.wr = sock[s].wr
      BY <1>3, <3>x DEF SockType
    <3>4. sock' = [sock EXCEPT ![s] = x]
      BY <1>1, <2>6, <3>h, <3>l, <3>x DEF SocketType, SocketsTyped
    <3>3. AbortsAreExplained'
      BY <1>r, <2>6 DEF SocketInv, AbortsAreExplained, Calm
    <3>5. SlotInv(s) => Delivered(s)' /\ To(x.high, sock[s].id) /\ To(x.low, sock[s].id)
      BY <2>3, <3>h, <3>l, <3>2
    <3>6. \/ x.wr = sock[s].wr /\ (sock[s].high # <<>> \/ sock[s].low # <<>>)
          \/ x.lock = Nobody /\ x.high = <<>> /\ x.low = <<>>
      BY <1>l, <3>0, <3>2
    <3>7. (x.lock = Nobody /\ poll' = poll.then) \/ (x.lock = sock[s].lock /\ poll' = poll)
      BY <2>6, <3>2
    <3>8. ev' = ev
      BY <1>1
    <3> QED
      BY <1>2, <1>s, <2>3, <3>2, <3>3, <3>4, <3>5, <3>6, <3>7, <3>8, SentInv
  <2>7. CASE /\ k >= Len(high) /\ rest # <<>>
             /\ sock' = [sock EXCEPT ![s].high = <<>>, ![s].low = rest]
             /\ poll' = poll /\ aborted' \in {aborted, {[in |-> "send_buffer_", slot |-> s]}}
    <3>0. rest \in Seq(Unit) /\ low # <<>> /\ (SlotInv(s) => To(rest, sock[s].id))
      BY <2>5, <2>7, <2>r
    <3>h. PICK h \in Seq(Unit) : h = <<>> /\ To(h, sock[s].id)
      <4>1. <<>> \in Seq(Unit)
        OBVIOUS
      <4> QED
        BY <4>1, ToEmpty
    <3>x. PICK x \in SockType : x = [sock[s] EXCEPT !.high = h, !.low = rest]
      BY <1>3, <3>0 DEF SockType
    <3>2. /\ x.type = sock[s].type /\ x.id = sock[s].id /\ x.fd = sock[s].fd /\ x.dw = sock[s].dw /\ x.add = sock[s].add
          /\ x.lock = sock[s].lock /\ x.high = h /\ x.low = rest /\ x.wr = sock[s].wr
      BY <1>3, <3>x DEF SockType
    <3>4. sock' = [sock EXCEPT ![s] = x]
      BY <1>1, <2>7, <3>h, <3>x DEF SocketType, SocketsTyped
    <3>3. AbortsAreExplained'
      BY <1>r, <2>7 DEF SocketInv, AbortsAreExplained, Calm
    <3>5. SlotInv(s) => Delivered(s)' /\ To(x.high, sock[s].id) /\ To(x.low, sock[s].id)
      BY <2>3, <3>0, <3>h, <3>2
    <3>6. \/ x.wr = sock[s].wr /\ (sock[s].high # <<>> \/ sock[s].low # <<>>)
          \/ x.lock = Nobody /\ x.high = <<>> /\ x.low = <<>>
      BY <1>l, <3>0, <3>2
    <3>7. (x.lock = Nobody /\ poll' = poll.then) \/ (x.lock = sock[s].lock /\ poll' = poll)
      BY <2>7, <3>2
    <3>8. ev' = ev
      BY <1>1
    <3> QED
      BY <1>2, <1>s, <2>3, <3>2, <3>3, <3>4, <3>5, <3>6, <3>7, <3>8, SentInv
  <2>8. CASE sock' = [sock EXCEPT ![s] = Closed(s)] /\ poll' = (IF poll.then = Top THEN Top ELSE Clear(sock[s].id)) /\ aborted' = aborted
    <3>1. Clear(sock[s].id) # Top
      BY DEF Clear, Top
    <3> QED
      BY <1>1, <1>2, <1>4, <2>3, <2>8, <3>1, ClosedInv
  <2>9. CASE /\ sock' = [sock EXCEPT ![s].lock = Nobody, ![s].high = <<>>, ![s].low = <<>>, ![s].wr = FALSE]
             /\ poll' = poll.then /\ aborted' = aborted
    <3>h. PICK h \in Seq(Unit) : h = <<>> /\ To(h, sock[s].id)
      <4>1. <<>> \in Seq(Unit)
        OBVIOUS
      <4> QED
        BY <4>1, ToEmpty
    <3>x. PICK x \in SockType : x = [sock[s] EXCEPT !.lock = Nobody, !.high = h, !.low = h, !.wr = FALSE]
      BY <1>3 DEF SockType
    <3>2. /\ x.type = sock[s].type /\ x.id = sock[s].id /\ x.fd = sock[s].fd /\ x.dw = sock[s].dw /\ x.add = sock[s].add
          /\ x.lock = Nobody /\ x.high = h /\ x.low = h
      BY <1>3, <3>x DEF SockType
    <3>4. sock' = [sock EXCEPT ![s] = x]
      BY <1>1, <2>9, <3>h, <3>x DEF SocketType, SocketsTyped
    <3>3. AbortsAreExplained'
      BY <1>r, <2>9 DEF SocketInv, AbortsAreExplained, Calm
    <3>5. SlotInv(s) => Delivered(s)' /\ To(x.high, sock[s].id) /\ To(x.low, sock[s].id)
      BY <2>3, <3>h, <3>2
    <3>6. \/ x.wr = sock[s].wr /\ (sock[s].high # <<>> \/ sock[s].low # <<>>)
          \/ x.lock = Nobody /\ x.high = <<>> /\ x.low = <<>>
      BY <3>h, <3>2
    <3>7. (x.lock = Nobody /\ poll' = poll.then) \/ (x.lock = sock[s].lock /\ poll' = poll)
      BY <2>9, <3>2
    <3>8. ev' = ev
      BY <1>1
    <3> QED
      BY <1>2, <1>s, <2>3, <3>2, <3>3, <3>4, <3>5, <3>6, <3>7, <3>8, SentInv
  <2> QED
    BY Zenon, <1>6, <1>s, <1>h, <1>l, <2>4, <2>6, <2>7, <2>8, <2>9, <2>r DEF SendBuffer_, rest0
<1> QED
  BY Zenon, <1>5, <1>6, <1>s, <1>h, <1>l DEF PollSend

\* The end of force_close, which frees the slot, keeps the invariant.
LEMMA CloseEndInv ==
  ASSUME SocketInv, CloseEnd
  PROVE  SocketInv'
<1>1. /\ SocketType /\ poll.pc = "close" /\ poll.slot \in Slot /\ poll.ctrl \in BOOLEAN
      /\ UNCHANGED <<alloc, pipe, ev, wk, known, msg, wire, aborted, raced>>
  BY DEF SocketInv, SocketType, PollType, SendType, DecideType, CloseEnd
<1>s. PICK s \in Slot : s = poll.slot /\ On("close", s)
  BY <1>1 DEF On
<1>2. /\ sock[s].lock = Nobody /\ sock' = [sock EXCEPT ![s] = Closed(s)]
      /\ poll' = IF poll.ctrl THEN Clear(sock[s].id) ELSE Top
  BY <1>s DEF CloseEnd
<1>3. PollBase(s) /\ PipeKept(s)
  BY <1>1, <1>s, AtPollBase DEF SocketType
<1>4. MsgKept /\ wire' \in [Id -> Seq(Unit)] /\ \A t \in Slot : WireKept(t)
  BY <1>1 DEF SocketType, WireKept, MsgKept
<1>5. ASSUME SlotInv(s)
      PROVE  /\ Delivered(s)' /\ sock[s].type \notin Dead
             /\ \A w \in Worker : ~Holds(w, s)
             /\ poll' = Top => \A i \in DOMAIN ev : ev[i].slot # s
  <2>1. Delivered(s)' /\ sock[s].type \notin Dead
    BY <1>s, <1>4, <1>5, DeliveredFrame DEF SlotInv, Polled
  <2>2. \A w \in Worker : ~Holds(w, s)
    BY <1>2, <1>5, SocketAssumption DEF SlotInv, Locked, Worker
  <2>3. Clear(sock[s].id) # Top
    BY DEF Clear, Top
  <2> QED
    BY <1>1, <1>2, <1>5, <1>s, <2>1, <2>2, <2>3 DEF SlotInv, Fresh
<1> QED
  BY <1>1, <1>2, <1>3, <1>4, <1>5, ClosedInv

\* An event is removed, and no other is of its slot.
LEMMA EventRemoved ==
  ASSUME SocketType, NEW i \in DOMAIN ev, ev' = RemoveAt(ev, i)
  PROVE  /\ EventsTyped' /\ \A t \in Slot : EvKept(t)
         /\ \A j \in DOMAIN ev' : ev'[j].slot # ev[i].slot
<1> DEFINE from(j) == IF j < i THEN j ELSE j + 1
           a == SubSeq(ev, 1, i - 1)
           b == SubSeq(ev, i + 1, Len(ev))
<1>1. ev \in Seq(EventType) /\ i \in Nat /\ i >= 1 /\ i <= Len(ev) /\ Len(ev) \in Nat /\ DOMAIN ev = 1..Len(ev)
  BY DEF SocketType, EventsTyped
<1>2. a \in Seq(EventType) /\ Len(a) = i - 1 /\ \A j \in 1..(i - 1) : a[j] = ev[j]
  BY <1>1
<1>3. b \in Seq(EventType) /\ Len(b) = Len(ev) - i /\ \A j \in 1..(Len(ev) - i) : b[j] = ev[j + i]
  BY <1>1
<1>4. ev' = a \o b
  BY DEF RemoveAt
<1> HIDE DEF a, b
<1>5. ev' \in Seq(EventType) /\ DOMAIN ev' = 1..(Len(ev) - 1)
  <2>1. ev' \in Seq(EventType) /\ DOMAIN ev' = 1..Len(ev') /\ Len(ev') = Len(a) + Len(b)
    <3>1. \A S : \A x, y \in Seq(S) : x \o y \in Seq(S) /\ Len(x \o y) = Len(x) + Len(y) /\ DOMAIN (x \o y) = 1..Len(x \o y)
      OBVIOUS
    <3> QED
      BY <1>2, <1>3, <1>4, <3>1
  <2>2. Len(a) + Len(b) = Len(ev) - 1
    BY <1>1, <1>2, <1>3
  <2> QED
    BY <2>1, <2>2
<1>6. ASSUME NEW j \in DOMAIN ev' PROVE j \in Nat /\ from(j) \in DOMAIN ev /\ from(j) # i /\ ev'[j] = ev[from(j)]
  <2>0. j \in Nat /\ j >= 1 /\ j <= Len(ev) - 1
    BY <1>1, <1>5
  <2>1. CASE j < i
    <3>1. ev'[j] = a[j] /\ a[j] = ev[j]
      BY <1>1, <1>2, <1>3, <1>4, <2>0, <2>1
    <3> QED
      BY <1>1, <2>0, <2>1, <3>1
  <2>2. CASE ~(j < i)
    <3>1. ev'[j] = b[j - (i - 1)] /\ j - (i - 1) \in 1..(Len(ev) - i)
      BY SMTT(40), <1>1, <1>2, <1>3, <1>4, <2>0, <2>2
    <3>2. b[j - (i - 1)] = ev[(j - (i - 1)) + i] /\ (j - (i - 1)) + i = j + 1
      BY <1>1, <1>3, <2>0, <3>1
    <3> QED
      BY <1>1, <2>0, <2>2, <3>1, <3>2
  <2> QED
    BY <2>1, <2>2
<1>7. \A j, k \in DOMAIN ev' : from(j) = from(k) => j = k
  BY <1>1, <1>6
<1> HIDE DEF from
<1>8. \A j, k \in DOMAIN ev' : ev'[j].slot = ev'[k].slot => j = k
  BY <1>6, <1>7 DEF SocketType, EventsTyped
<1>9. EventsTyped' /\ \A j \in DOMAIN ev' : ev'[j].slot # ev[i].slot
  BY <1>5, <1>6, <1>8 DEF SocketType, EventsTyped
<1>10. \A t \in Slot : EvKept(t)
  BY <1>6 DEF EvKept
<1> QED
  BY <1>9, <1>10

\* clear_closed_event removes the event of the closed socket before it meets
\* another.
LEMMA ClearClosedEventInv ==
  ASSUME SocketInv, ClearClosedEvent
  PROVE  SocketInv'
<1>1. /\ SocketType /\ poll.pc = "clear" /\ poll.slot \in Slot
      /\ UNCHANGED <<sock, alloc, pipe, wk, known, msg, wire, aborted, raced>> /\ poll' = Top
  BY DEF SocketInv, SocketType, PollType, SendType, DecideType, ClearClosedEvent
<1>s. PICK s \in Slot : s = poll.slot /\ On("clear", s)
  BY <1>1 DEF On
<1> DEFINE stale == {i \in DOMAIN ev : sock[s].type = "INVALID" /\ sock[s].id = poll.id /\ ev[i].slot = s}
<1>2. (stale = {} /\ ev' = ev) \/ (\E i \in stale : ev' = RemoveAt(ev, i))
  BY <1>s DEF ClearClosedEvent
<1>3. /\ EventsTyped' /\ \A t \in Slot : EvKept(t)
      /\ \A i \in DOMAIN ev' : ev'[i].slot = s => ~(sock[s].type = "INVALID" /\ sock[s].id = poll.id)
  <2>1. CASE stale = {} /\ ev' = ev
    BY <1>1, <2>1, EventsSame
  <2>2. ASSUME NEW i \in stale, ev' = RemoveAt(ev, i)
        PROVE  /\ EventsTyped' /\ \A t \in Slot : EvKept(t)
               /\ \A j \in DOMAIN ev' : ev'[j].slot # s
    BY <1>1, <2>2, EventRemoved
  <2> QED
    BY <1>2, <2>1, <2>2
<1> HIDE DEF stale
<1>4. PollBase(s) /\ PipeKept(s)
  <2>1. \A t \in Slot \ {s} : ~About(t)
    BY <1>s DEF About
  <2> QED
    BY <1>1, <1>3, <2>1, SamePollBase DEF SocketType
<1>5. poll' \in PollType /\ poll'.pc = "top" /\ \A t \in Slot : ~About(t)'
  BY <1>1 DEF Top, PollType, About
<1>6. wire' \in [Id -> Seq(Unit)] /\ (\A t \in Slot : WireKept(t)) /\ AbortsAreExplained' /\ SocketsTyped'
  BY <1>1 DEF SocketType, WireKept, SocketInv, AbortsAreExplained, Calm, SocketsTyped
<1>7. ASSUME MsgKept, HoldsKept(s), OpeningKept(s), SocketType', SlotInv(s) PROVE SlotInv(s)'
  <2>1. /\ ~On("send", s)' /\ ~On("close", s)' /\ ~On("decide", s)' /\ ~On("conn", s)' /\ ~On("failed", s)'
        /\ ~On("send", s) /\ ~On("close", s) /\ ~On("decide", s) /\ ~On("conn", s)
    BY <1>1, <1>5 DEF On
  <2>2. Bound(s)' /\ Bare(s)' /\ Polled(s)' /\ Watched(s)'
    BY <1>1, <1>7, <2>1 DEF SlotInv, Bound, Bare, Polled, Watched
  <2>3. Reserved(s)' /\ Locked(s)' /\ Addressed(s)' /\ Delivered(s)'
    BY <1>1, <1>4, <1>6, <1>7, <2>1, ReservedFrame, LockedFrame, AddressedFrame, DeliveredFrame
       DEF SlotInv, SocketType, PipeTyped
  <2>4. Fresh(s)'
    <3>1. \A i \in DOMAIN ev' : ev'[i].slot = s => sock[s].id = ev'[i].id /\ sock[s].type \notin Dead
      BY <1>3, <1>7, <1>s DEF EvKept, SlotInv, Fresh
    <3> QED
      BY <1>1, <2>1, <3>1 DEF Fresh
  <2> QED
    BY <2>2, <2>3, <2>4 DEF SlotInv
<1> QED
  BY <1>1, <1>4, <1>5, <1>6, <1>7, PollOnly

-----------------------------------------------------------------------------
(* Events                                                                  *)

\* What every step begins with that takes an event.
LEMMA EventBase ==
  ASSUME SocketInv, NEW types, TakeEvent(types), ev' = Tail(ev) \/ ev' = [ev EXCEPT ![1].r = FALSE],
         alloc' \in Nat, known' \subseteq Id, raced \subseteq raced', raced' \subseteq Nat
  PROVE  /\ \A s \in Slot : PollBase(s) /\ PipeKept(s) /\ ~About(s)
         /\ Head(ev).slot \in Slot /\ sock[Head(ev).slot].type \in types
         /\ \A s \in Slot : SlotInv(s) /\ Head(ev).slot = s => sock[s].type \notin Dead
         /\ ev' = Tail(ev) => \A i \in DOMAIN ev' : ev'[i].slot # Head(ev).slot
<1>1. /\ SocketType /\ MsgKept /\ ev # <<>> /\ poll.pc \in {"top", "event"} /\ sock[Head(ev).slot].type \in types
      /\ UNCHANGED <<pipe, wk, msg>>
  BY DEF SocketInv, TakeEvent, MsgKept
<1>2. /\ EventsTyped' /\ \A t \in Slot : EvKept(t)
      /\ ev' = Tail(ev) => \A i \in DOMAIN ev' : ev'[i].slot # Head(ev).slot
  <2>1. CASE ev' = Tail(ev)
    BY <1>1, <2>1, EventTaken
  <2>2. CASE ev' = [ev EXCEPT ![1].r = FALSE] /\ ev' # Tail(ev)
    BY <1>1, <2>2, EventRead
  <2> QED
    BY <2>1, <2>2
<1>3. 1 \in DOMAIN ev /\ Head(ev) = ev[1] /\ Head(ev).slot \in Slot
  <2>1. 1 \in DOMAIN ev /\ Head(ev) = ev[1] /\ Head(ev) \in EventType
    BY <1>1 DEF SocketType, EventsTyped
  <2> QED
    BY <2>1 DEF EventType
<1>4. \A s \in Slot : ~About(s) /\ ~On("clear", s)
  BY <1>1 DEF About, On
<1>5. PipeTyped' /\ \A t \in Slot : PipeKept(t)
  BY <1>1, PipeSame
<1>6. \A s \in Slot : SlotInv(s) /\ Head(ev).slot = s => sock[s].type \notin Dead
  BY <1>3, <1>4 DEF SlotInv, Fresh
<1> QED
  BY <1>1, <1>2, <1>3, <1>4, <1>5, <1>6 DEF PollBase

\* sp_wait reports events of open sockets.
LEMMA PollWaitInv ==
  ASSUME SocketInv, PollWait
  PROVE  SocketInv'
<1>1. /\ SocketType /\ MsgKept /\ poll.pc = "top" /\ ev = <<>> /\ poll' \in {Top, [pc |-> "event"]}
      /\ UNCHANGED <<sock, alloc, pipe, wk, known, msg, wire, aborted, raced>>
  BY DEF SocketInv, PollWait, MsgKept
<1>a. PICK S \in SUBSET {s \in Slot : sock[s].add} :
        \E order \in SetToSeqs(S) :
        \E e \in [1..Len(order) -> UNION {Event(s) : s \in S}] :
          /\ \A i \in DOMAIN order : e[i].slot = order[i]
          /\ ev' = e
  BY DEF PollWait
<1>2. PICK order \in SetToSeqs(S) :
        \E e \in [1..Len(order) -> UNION {Event(s) : s \in S}] :
          /\ \A i \in DOMAIN order : e[i].slot = order[i]
          /\ ev' = e
  BY <1>a
<1>3. S \subseteq Slot /\ IsFiniteSet(S) /\ Cardinality(S) \in Nat /\ \A s \in S : sock[s].add
  <2>1. IsFiniteSet(Slot)
    <3>1. 0 \in Int /\ MaxSocket - 1 \in Int
      BY SocketAssumption
    <3> QED
      BY <3>1, FS_Interval, Zenon DEF Slot
  <2> QED
    BY <2>1, FS_Subset, FS_CardinalityType
<1>n. PICK n \in Nat : n = Cardinality(S)
  BY <1>3
<1>4. /\ order \in [1..n -> S] /\ Len(order) = n /\ DOMAIN order = 1..n
      /\ \A i, j \in 1..n : i # j => order[i] # order[j]
  <2>1. order \in [1..n -> S] /\ \A i, j \in 1..n : i # j => order[i] # order[j]
    BY <1>n DEF SetToSeqs
  <2>2. order \in Seq(S)
    BY <2>1, SeqDef
  <2> QED
    BY <2>1, <2>2, LenProperties
<1>5. ev' \in [1..n -> UNION {Event(s) : s \in S}] /\ \A i \in 1..n : ev'[i].slot = order[i]
  BY <1>2, <1>4
<1>6. ASSUME NEW s \in S, NEW e \in Event(s) PROVE e \in EventType /\ e.slot = s /\ e.id = sock[s].id
  <2>1. s \in Slot /\ sock[s].wr \in BOOLEAN /\ sock[s].id \in 0..MaxId
    BY <1>1, <1>3 DEF SocketType, SocketsTyped, SockType
  <2>2. PICK r \in {TRUE, sock[s].type = "LISTEN"}, w \in {FALSE, sock[s].wr} :
          e = [slot |-> s, id |-> sock[s].id, r |-> r, w |-> w]
    BY DEF Event
  <2>3. r \in BOOLEAN /\ w \in BOOLEAN
    BY <2>1
  <2> QED
    BY <2>1, <2>2, <2>3 DEF EventType
<1>7. ASSUME NEW i \in 1..n PROVE ev'[i] \in EventType /\ ev'[i].slot \in S /\ ev'[i].id = sock[ev'[i].slot].id
  <2>1. PICK s \in S : ev'[i] \in Event(s)
    BY <1>5
  <2> QED
    BY <1>6, <2>1
<1>8. ev' \in Seq(EventType) /\ DOMAIN ev' = 1..n
  <2>1. DOMAIN ev' = 1..n /\ ev' = [i \in 1..n |-> ev'[i]]
    BY <1>5
  <2>2. ev' \in [1..n -> EventType]
    BY <1>7, <2>1
  <2> QED
    BY <2>1, <2>2, SeqDef
<1>9. EventsTyped'
  BY <1>4, <1>5, <1>8 DEF EventsTyped
<1>10. WorkersTyped' /\ PipeTyped' /\ \A t \in Slot : HoldsKept(t) /\ OpeningKept(t) /\ PipeKept(t)
  BY <1>1, WorkersSame, PipeSame
<1>11. poll' \in PollType /\ poll'.pc \in {"top", "event"}
  BY <1>1 DEF PollType, Top
<1>12. SocketType'
  BY <1>1, <1>9, <1>10, <1>11 DEF SocketType, SocketsTyped
<1>13. ASSUME NEW t \in Slot, SlotInv(t) PROVE SlotInv(t)'
  <2>1. /\ ~On("send", t)' /\ ~On("close", t)' /\ ~On("decide", t)' /\ ~On("conn", t)' /\ ~On("failed", t)'
        /\ ~On("send", t) /\ ~On("close", t) /\ ~On("decide", t) /\ ~On("conn", t)
    BY <1>1, <1>11 DEF On
  <2>2. Bound(t)' /\ Bare(t)' /\ Polled(t)' /\ Watched(t)'
    BY <1>1, <1>13, <2>1 DEF SlotInv, Bound, Bare, Polled, Watched
  <2>3. Reserved(t)' /\ Locked(t)' /\ Addressed(t)'
    BY <1>1, <1>10, <1>12, <1>13, <2>1, ReservedFrame, LockedFrame, AddressedFrame DEF SlotInv, SocketType, PipeTyped
  <2>4. Delivered(t)'
    BY <1>1, <1>13, DeliveredFrame DEF SlotInv, WireKept
  <2>5. Fresh(t)'
    <3>1. \A i \in DOMAIN ev' : ev'[i].slot = t => sock'[t].id = ev'[i].id /\ sock[t].add
      BY <1>1, <1>3, <1>7, <1>8
    <3>2. sock[t].add => sock'[t].type \notin Dead
      BY <1>1, <1>13 DEF SlotInv, Watched
    <3> QED
      BY <2>1, <3>1, <3>2 DEF Fresh
  <2> QED
    BY <2>2, <2>3, <2>4, <2>5 DEF SlotInv
<1>14. raced \subseteq raced' /\ AbortsAreExplained'
  BY <1>1 DEF SocketInv, AbortsAreExplained, Calm
<1> QED
  BY <1>1, <1>12, <1>13, <1>14, Assemble

\* report_connect, up to its look at the lists, keeps the invariant.
LEMMA ReportConnectInv ==
  ASSUME SocketInv, ReportConnect
  PROVE  SocketInv'
<1>1. SocketType /\ TakeEvent({"CONNECTING"}) /\ ev' = Tail(ev) /\ alloc' = alloc /\ known' = known
  BY DEF SocketInv, ReportConnect
<1>r. raced' = raced /\ raced \subseteq Nat
  BY <1>1 DEF ReportConnect, ForceClose, Abort, SocketType
<1>2. /\ \A s \in Slot : PollBase(s) /\ PipeKept(s) /\ ~About(s)
      /\ Head(ev).slot \in Slot /\ sock[Head(ev).slot].type = "CONNECTING"
      /\ \A i \in DOMAIN ev' : ev'[i].slot # Head(ev).slot
  BY <1>1, <1>r, EventBase DEF SocketType
<1>s. PICK s \in Slot : s = Head(ev).slot
  BY <1>2
<1>3. CASE ForceClose(s, "err", FALSE)
  BY <1>2, <1>3, <1>s, ForceCloseInv DEF Dead
<1>4. CASE sock' = [sock EXCEPT ![s].type = "CONNECTED"] /\ poll' = [pc |-> "conn", slot |-> s] /\ UNCHANGED <<wire, aborted, raced>>
  <2>1. /\ sock'[s].type = "CONNECTED" /\ sock'[s].id = sock[s].id /\ sock'[s].fd = sock[s].fd
        /\ sock'[s].high = sock[s].high /\ sock'[s].low = sock[s].low /\ sock'[s].dw = sock[s].dw
        /\ sock'[s].lock = sock[s].lock /\ sock'[s].add = sock[s].add /\ sock'[s].wr = sock[s].wr
        /\ \A t \in Slot \ {s} : sock'[t] = sock[t]
        /\ SocketsTyped'
    BY ZenonT(60), <1>1, <1>4 DEF SocketType, SocketsTyped, SockType
  <2>2. poll' \in PollType /\ poll'.pc = "conn" /\ poll'.slot = s
    BY <1>4 DEF PollType
  <2>3. wire' \in [Id -> Seq(Unit)] /\ (\A t \in Slot : WireKept(t)) /\ (\A t \in Slot \ {s} : ~About(t)') /\ AbortsAreExplained'
    BY <1>1, <1>4, <2>2 DEF SocketType, WireKept, About, SocketInv, AbortsAreExplained, Calm
  <2>5. ASSUME MsgKept, HoldsKept(s), OpeningKept(s), SocketType', SlotInv(s) PROVE SlotInv(s)'
    <3>0. sock[s].type = "CONNECTING"
      BY <1>2, <1>s
    <3>1. /\ ~On("send", s)' /\ ~On("close", s)' /\ ~On("decide", s)' /\ On("conn", s)' /\ ~On("failed", s)'
          /\ ~On("send", s) /\ ~On("close", s) /\ ~On("decide", s)
      BY <1>2, <2>2 DEF On, About
    <3>2. Bound(s)' /\ Bare(s)' /\ Polled(s)' /\ Watched(s)'
      BY <2>1, <2>5, <3>0, <3>1 DEF SlotInv, Bound, Bare, Polled, Watched, Dead
    <3>3. Reserved(s)'
      BY <1>2, <2>1, <2>5, <3>0, ReservedFrame DEF SlotInv, SocketType, PipeTyped
    <3>4. Locked(s)'
      BY <1>1, <2>1, <2>5, <3>0, <3>1, LockedFrame DEF SlotInv
    <3>5. Addressed(s)' /\ Delivered(s)'
      BY <2>1, <2>3, <2>5, AddressedFrame, DeliveredFrame DEF SlotInv
    <3>6. Fresh(s)'
      BY <1>2, <1>s, <3>1 DEF Fresh
    <3> QED
      BY <3>2, <3>3, <3>4, <3>5, <3>6 DEF SlotInv
  <2> QED
    BY <1>2, <2>1, <2>2, <2>3, <2>5, PollOnly
<1> QED
  BY <1>3, <1>4, <1>s DEF ReportConnect

\* The end of report_connect keeps the invariant.
LEMMA ReportConnectDoneInv ==
  ASSUME SocketInv, ReportConnectDone
  PROVE  SocketInv'
<1>1. /\ SocketType /\ poll.pc = "conn" /\ poll.slot \in Slot /\ poll' = Top
      /\ UNCHANGED <<alloc, pipe, ev, wk, known, msg, wire, aborted>>
  BY DEF SocketInv, SocketType, PollType, SendType, DecideType, ReportConnectDone
<1>s. PICK s \in Slot : s = poll.slot /\ On("conn", s)
  BY <1>1 DEF On
<1>2. sock[s] \in SockType
  BY <1>1 DEF SocketType, SocketsTyped
<1>w. PICK wr \in BOOLEAN : wr = (sock[s].wr /\ ~SendBufferEmpty(s))
  OBVIOUS
<1>3. /\ sock' = [sock EXCEPT ![s].wr = wr]
      /\ raced' = IF SendBufferEmpty(s) /\ sock[s].dw # <<>> THEN raced \cup {sock[s].id} ELSE raced
  BY <1>s, <1>w DEF ReportConnectDone
<1>r. raced \subseteq raced' /\ raced' \subseteq Nat
  BY <1>1, <1>2, <1>3, SocketAssumption DEF SocketType, SockType
<1>4. PollBase(s) /\ PipeKept(s) /\ EvKept(s) /\ \A t \in Slot \ {s} : ~About(t)
  BY <1>1, <1>s, <1>r, AtPollBase
<1>5. /\ sock'[s].type = sock[s].type /\ sock'[s].id = sock[s].id /\ sock'[s].fd = sock[s].fd
      /\ sock'[s].high = sock[s].high /\ sock'[s].low = sock[s].low /\ sock'[s].dw = sock[s].dw
      /\ sock'[s].lock = sock[s].lock /\ sock'[s].add = sock[s].add /\ sock'[s].wr = wr
      /\ \A t \in Slot \ {s} : sock'[t] = sock[t]
      /\ SocketsTyped'
  BY ZenonT(60), <1>1, <1>3 DEF SocketType, SocketsTyped, SockType
<1>6. poll' \in PollType /\ poll'.pc = "top" /\ \A t \in Slot : ~About(t)'
  BY <1>1 DEF Top, PollType, About
<1>7. wire' \in [Id -> Seq(Unit)] /\ (\A t \in Slot : WireKept(t)) /\ AbortsAreExplained'
  BY <1>1, <1>r DEF SocketType, WireKept, SocketInv, AbortsAreExplained, Calm
<1>8. ASSUME MsgKept, HoldsKept(s), OpeningKept(s), SocketType', Calm(s)', SlotInv(s) PROVE SlotInv(s)'
  <2>0. sock[s].type = "CONNECTED" /\ sock[s].wr /\ HashId(sock[s].id) = s
    BY <1>8, <1>s DEF SlotInv, Polled, Bound, Dead
  <2>1. SendBufferEmpty(s) => sock[s].dw = <<>>
    BY <1>3, <1>8, <2>0 DEF Calm
  <2>2. /\ ~On("send", s)' /\ ~On("close", s)' /\ ~On("decide", s)' /\ ~On("conn", s)' /\ ~On("failed", s)'
        /\ ~On("send", s) /\ ~On("close", s) /\ ~On("decide", s)
    BY <1>1, <1>6 DEF On
  <2>3. Bound(s)' /\ Bare(s)' /\ Polled(s)'
    BY <1>5, <1>8, <2>0, <2>2 DEF SlotInv, Bound, Bare, Polled, Dead
  <2>4. Watched(s)'
    <3>1. sock[s].high # <<>> \/ sock[s].low # <<>> \/ sock[s].dw # <<>> => wr
      BY <1>w, <2>0, <2>1 DEF SendBufferEmpty
    <3> QED
      BY <1>5, <1>8, <2>0, <2>2, <3>1 DEF SlotInv, Watched
  <2>5. Reserved(s)'
    BY <1>4, <1>5, <1>8, <2>0, ReservedFrame DEF SlotInv, SocketType, PipeTyped
  <2>6. Locked(s)'
    BY <1>1, <1>5, <1>8, <2>2, LockedFrame DEF SlotInv
  <2>7. Addressed(s)' /\ Delivered(s)'
    BY <1>5, <1>7, <1>8, AddressedFrame, DeliveredFrame DEF SlotInv
  <2>8. Fresh(s)'
    BY <1>4, <1>5, <1>8, <2>0, <2>2 DEF SlotInv, Fresh, EvKept, Dead
  <2> QED
    BY <2>3, <2>4, <2>5, <2>6, <2>7, <2>8 DEF SlotInv
<1> QED
  BY <1>4, <1>5, <1>6, <1>7, <1>8, PollOnly

\* The poll thread at the top of its loop.
LEMMA TopTyped == Top \in PollType /\ Top.pc = "top"
BY DEF Top, PollType

\* report_accept keeps the invariant.
LEMMA ReportAcceptInv ==
  ASSUME SocketInv, ReportAccept
  PROVE  SocketInv'
<1>1. SocketType /\ TakeEvent({"LISTEN"}) /\ ev' = Tail(ev) /\ poll' = Top
  BY DEF SocketInv, ReportAccept
<1>2. CASE UNCHANGED <<sock, alloc, known, wire, aborted, raced>>
  <2>1. /\ \A s \in Slot : PollBase(s) /\ PipeKept(s) /\ ~About(s)
        /\ Head(ev).slot \in Slot
    BY <1>1, <1>2, EventBase DEF SocketType
  <2>s. PICK s \in Slot : s = Head(ev).slot
    BY <2>1
  <2>2. poll' \in PollType /\ (\A t \in Slot : ~About(t)') /\ AbortsAreExplained'
    BY <1>1, <1>2, TopTyped DEF About, SocketInv, AbortsAreExplained, Calm
  <2> QED
    BY <1>2, <2>1, <2>2, PollIdle
<1>3. CASE /\ FreeIds # {} /\ alloc' = NextId
           /\ NewFd(HashId(NextId), NextId, "PACCEPT", FALSE)
           /\ known' = known \cup {NextId}
  <2>a. PICK id \in Id : id = NextId /\ id \in Nat
    BY <1>1, <1>3, NextIdFree
  <2>s. PICK s \in Slot : s = HashId(id)
    BY <2>a, HashSlot
  <2>1. sock[s].type = "INVALID" /\ NewFd(s, id, "PACCEPT", FALSE)
    BY <1>1, <1>3, <2>a, <2>s, NextIdFree
  <2>2. raced \subseteq raced' /\ raced' \subseteq Nat /\ alloc' \in Nat /\ known' \subseteq Id
    BY <1>1, <1>3, <2>a, <2>1, NewFdRaced DEF SocketType
  <2>3. PollBase(s) /\ PipeKept(s) /\ ~About(s)
    BY <1>1, <2>2, EventBase
  <2>4. SlotInv(s) => /\ \A w \in Worker : ~Opening(w, s)
                      /\ \A i \in DOMAIN pipe' : ~Asks(pipe'[i], s)
    BY <1>1, <2>1 DEF SlotInv, Reserved, TakeEvent
  <2> QED
    BY <1>1, <2>1, <2>3, <2>4, <2>s, NewFdInv DEF Dead
<1> QED
  BY <1>2, <1>3 DEF ReportAccept

\* An event of a closed socket does nothing.
LEMMA InvalidSocketInv ==
  ASSUME SocketInv, InvalidSocket
  PROVE  SocketInv'
<1>1. /\ SocketType /\ TakeEvent({"INVALID"}) /\ ev' = Tail(ev) /\ poll' = Top
      /\ UNCHANGED <<sock, alloc, known, wire, aborted, raced>>
  BY DEF SocketInv, InvalidSocket
<1>2. /\ \A s \in Slot : PollBase(s) /\ PipeKept(s) /\ ~About(s)
      /\ Head(ev).slot \in Slot
  BY <1>1, EventBase DEF SocketType
<1>s. PICK s \in Slot : s = Head(ev).slot
  BY <1>2
<1>3. poll' \in PollType /\ (\A t \in Slot : ~About(t)') /\ AbortsAreExplained'
  BY <1>1, TopTyped DEF About, SocketInv, AbortsAreExplained, Calm
<1> QED
  BY <1>1, <1>2, <1>3, PollIdle

\* forward_message, with a close at the end of the stream, keeps the invariant.
LEMMA ForwardMessageInv ==
  ASSUME SocketInv, ForwardMessage
  PROVE  SocketInv'
<1>1. SocketType /\ TakeEvent(Open) /\ (ev' = Tail(ev) \/ ev' = [ev EXCEPT ![1].r = FALSE]) /\ UNCHANGED <<alloc, known>>
  BY DEF SocketInv, ForwardMessage
<1>r. raced' = raced /\ raced \subseteq Nat
  BY <1>1 DEF ForwardMessage, ForceClose, Abort, SocketType
<1>2. /\ \A s \in Slot : PollBase(s) /\ PipeKept(s) /\ ~About(s)
      /\ Head(ev).slot \in Slot
      /\ \A s \in Slot : SlotInv(s) /\ Head(ev).slot = s => sock[s].type \notin Dead
      /\ ev' = Tail(ev) => \A i \in DOMAIN ev' : ev'[i].slot # Head(ev).slot
  BY <1>1, <1>r, EventBase DEF SocketType
<1>s. PICK s \in Slot : s = Head(ev).slot
  BY <1>2
<1>3. CASE ForceClose(s, "err", FALSE) /\ ev' = Tail(ev)
  <2>1. Calm(s) => sock[s].type \notin Dead
    BY <1>2, <1>s DEF SocketInv
  <2> QED
    BY <1>2, <1>3, <1>s, <2>1, ForceCloseInv
<1>4. CASE poll' = Top /\ UNCHANGED <<sock, wire, aborted, raced>>
  <2>1. poll' \in PollType /\ (\A t \in Slot : ~About(t)') /\ AbortsAreExplained'
    BY <1>4, TopTyped DEF About, SocketInv, AbortsAreExplained, Calm
  <2> QED
    BY <1>2, <1>4, <2>1, PollIdle
<1> QED
  BY <1>3, <1>4, <1>s DEF ForwardMessage

\* A write event keeps the invariant.
LEMMA WriteEventInv ==
  ASSUME SocketInv, WriteEvent
  PROVE  SocketInv'
<1>1. /\ SocketType /\ TakeEvent(Open) /\ ev' = Tail(ev) /\ UNCHANGED <<alloc, known, raced>>
      /\ SendBuffer(Head(ev).slot, Top, Top)
  BY DEF SocketInv, WriteEvent
<1>2. /\ \A s \in Slot : PollBase(s) /\ PipeKept(s) /\ ~About(s)
      /\ Head(ev).slot \in Slot /\ sock[Head(ev).slot].type \in Open
      /\ \A s \in Slot : SlotInv(s) /\ Head(ev).slot = s => sock[s].type \notin Dead
      /\ \A i \in DOMAIN ev' : ev'[i].slot # Head(ev).slot
  BY <1>1, EventBase DEF SocketType
<1>s. PICK s \in Slot : s = Head(ev).slot
  BY <1>2
<1>3. SlotInv(s) => sock[s].type \notin Dead /\ sock[s].type # "CONNECTING"
  BY <1>2, <1>s DEF Open
<1> QED
  BY <1>1, <1>2, <1>3, <1>s, SendBufferInv

\* An error event keeps the invariant.
LEMMA ErrorEventInv ==
  ASSUME SocketInv, ErrorEvent
  PROVE  SocketInv'
<1>1. /\ SocketType /\ TakeEvent(Open) /\ ev' = Tail(ev) /\ UNCHANGED <<alloc, known>>
      /\ ForceClose(Head(ev).slot, "err", FALSE)
  BY DEF SocketInv, ErrorEvent
<1>r. raced' = raced /\ raced \subseteq Nat
  BY <1>1 DEF ForceClose, Abort, SocketType
<1>2. /\ \A s \in Slot : PollBase(s) /\ PipeKept(s) /\ ~About(s)
      /\ Head(ev).slot \in Slot
      /\ \A s \in Slot : SlotInv(s) /\ Head(ev).slot = s => sock[s].type \notin Dead
      /\ \A i \in DOMAIN ev' : ev'[i].slot # Head(ev).slot
  BY <1>1, <1>r, EventBase DEF SocketType
<1>s. PICK s \in Slot : s = Head(ev).slot
  BY <1>2
<1>3. Calm(s) => sock[s].type \notin Dead
  BY <1>2, <1>s DEF SocketInv
<1> QED
  BY <1>1, <1>2, <1>3, <1>s, ForceCloseInv

-----------------------------------------------------------------------------
(* The theorems                                                            *)

\* Every step keeps the invariant.
LEMMA SocketNext == SocketInv /\ [Next]_sockvars => SocketInv'
<1> SUFFICES ASSUME SocketInv, [Next]_sockvars PROVE SocketInv'
  OBVIOUS
<1>1. CASE UNCHANGED sockvars
  <2>1. SocketType' /\ MsgKept /\ \A t \in Slot : HoldsKept(t) /\ OpeningKept(t) /\ PipeKept(t)
    <3>1. SocketType'
      BY <1>1 DEF sockvars, SocketInv, SocketType, SocketsTyped, PipeTyped, EventsTyped, WorkersTyped
    <3>2. MsgKept
      BY <1>1 DEF sockvars, MsgKept
    <3>3. ASSUME NEW t \in Slot PROVE HoldsKept(t) /\ OpeningKept(t)
      BY <1>1 DEF sockvars, HoldsKept, OpeningKept, Holds, Opening
    <3>4. ASSUME NEW t \in Slot PROVE PipeKept(t)
      BY <1>1, <3>2, PipeSame DEF sockvars, SocketInv
    <3> QED
      BY <3>1, <3>2, <3>3, <3>4
  <2> QED
    BY <1>1, <2>1, Harmless DEF sockvars
<1>2. CASE \E w \in Worker : WorkerStep(w)
  BY <1>2, SendRequestInv, TryLockInv, DirectWriteInv, StoreRestInv, PostDataInv DEF WorkerStep
<1>3. CASE \E w \in Opener : \/ Reserve(w, "O") \/ Reserve(w, "L")
                             \/ \E c \in {"K", "H", "S"}, id \in known : Request(w, c, id)
  <2>1. PICK w \in Opener : \/ Reserve(w, "O") \/ Reserve(w, "L")
                            \/ \E c \in {"K", "H", "S"}, id \in known : Request(w, c, id)
    BY <1>3
  <2>2. CASE Reserve(w, "O") \/ Reserve(w, "L")
    BY <2>2, ReserveInv
  <2>3. CASE \E c \in {"K", "H", "S"}, id \in known : Request(w, c, id)
    <3>1. w \in Worker
      BY DEF Worker
    <3> QED
      BY <2>3, <3>1, RequestInv
  <2> QED
    BY <2>1, <2>2, <2>3
<1>4. CASE \E w \in Sender, id \in known \ {1} : SendStart(w, id) \/ SendLow(w, id)
  <2>1. PICK w \in Sender, id \in known : SendStart(w, id) \/ SendLow(w, id)
    BY <1>4
  <2>2. w \in Worker
    BY DEF Worker
  <2> QED
    BY <2>1, <2>2, SendStartInv, SendLowInv
<1>5. CASE OpenSocket \/ ListenSocket \/ StartSocket \/ CloseSocket("K") \/ CloseSocket("H")
            \/ SendSocket("D") \/ SendSocket("P")
  BY <1>5, OpenSocketInv, ListenSocketInv, StartSocketInv, CloseSocketInv, SendSocketInv
<1>6. CASE OpenFailed \/ CloseDecide \/ PollSend \/ CloseEnd \/ ClearClosedEvent
  BY <1>6, OpenFailedInv, CloseDecideInv, PollSendInv, CloseEndInv, ClearClosedEventInv
<1>7. CASE PollWait \/ ReportConnect \/ ReportConnectDone \/ ReportAccept \/ InvalidSocket
            \/ ForwardMessage \/ WriteEvent \/ ErrorEvent
  BY <1>7, PollWaitInv, ReportConnectInv, ReportConnectDoneInv, ReportAcceptInv, InvalidSocketInv,
     ForwardMessageInv, WriteEventInv, ErrorEventInv
<1>8. CASE PollStep
  BY <1>5, <1>6, <1>7, <1>8 DEF PollStep
<1>9. CASE Next
  BY <1>2, <1>3, <1>4, <1>8, <1>9, Zenon DEF Next
<1> QED
  BY <1>1, <1>9

\* In every slot that no race has hit, the socket, the lock, the pipe, the events
\* of the batch, the poll thread and the workers agree with each other: one
\* thread opens the slot at a time, the lock is held by who believes to hold it,
\* what is pending and written was sent to the socket's id, events are of the
\* socket that is open.
THEOREM SocketInvariance == Spec => []SocketInv
<1>1. Init => SocketInv
  BY SocketInit
<1>2. SocketInv /\ [Next]_sockvars => SocketInv'
  BY SocketNext
<1> QED
  BY <1>1, <1>2, PTL DEF Spec

\* Nothing is written to a connection that was sent to another id: neither by a
\* direct write of socket_server_send nor by send_buffer of the poll thread, however
\* often the slot is closed and used again while messages are under way, as long
\* as no race hits the slot.
THEOREM ConnectionsAreOwn == Spec => []OwnConnection
<1>1. SocketInv => OwnConnection
  <2> SUFFICES ASSUME SocketInv, NEW id \in Id, Calm(HashId(id)), NEW i \in DOMAIN wire[id]
               PROVE  msg[wire[id][i][1]].to = id
    BY DEF OwnConnection, Id
  <2>1. HashId(id) \in Slot
    BY HashSlot, SocketAssumption DEF Id
  <2>2. Delivered(HashId(id))
    BY <2>1 DEF SocketInv, SlotInv
  <2> QED
    BY <2>2 DEF Delivered, To
<1> QED
  BY <1>1, SocketInvariance, PTL

\* An event that socket_server_poll takes from its batch is of the socket that is
\* open in the slot, or finds the slot free: clear_closed_event removes the events
\* of a socket that a request closes before the slot can be used again.
THEOREM EventsStayFresh == Spec => []EventsAreFresh
<1>1. SocketInv => EventsAreFresh
  <2> SUFFICES ASSUME SocketInv, NEW i \in DOMAIN ev, Calm(ev[i].slot)
               PROVE  sock[ev[i].slot].id = ev[i].id
    BY DEF EventsAreFresh
  <2>1. ev[i].slot \in Slot
    <3>1. ev \in Seq(EventType)
      BY DEF SocketInv, SocketType, EventsTyped
    <3>2. ev[i] \in EventType
      BY <3>1
    <3> QED
      BY <3>2 DEF EventType
  <2>2. Fresh(ev[i].slot)
    BY <2>1 DEF SocketInv, SlotInv
  <2> QED
    BY <2>2 DEF Fresh
<1> QED
  BY <1>1, SocketInvariance, PTL

\* The rest of a message is never forgotten: when something is to be written to a
\* connection, in dw_buffer or in the lists, and nobody holds its lock, epoll
\* watches the descriptor for writing.
THEOREM WritesStayWatched == Spec => []WritesAreWatched
<1>1. SocketInv => WritesAreWatched
  <2> SUFFICES ASSUME SocketInv, NEW s \in Carrying, Pending(s) # <<>>, sock[s].lock = Nobody
               PROVE  sock[s].wr
    BY DEF WritesAreWatched
  <2>1. s \in Slot /\ Calm(s) /\ sock[s].type \in {"CONNECTED", "HALFCLOSE"} /\ ~On("close", s)
    BY DEF Carrying, On
  <2>2. Locked(s) /\ Watched(s)
    BY <2>1 DEF SocketInv, SlotInv
  <2>3. {w \in Sender : Rest(w) # <<>> /\ HashId(msg[wk[w].n].to) = s} = {}
    <3> SUFFICES ASSUME NEW w \in Sender, Rest(w) # <<>>, HashId(msg[wk[w].n].to) = s PROVE FALSE
      OBVIOUS
    <3>1. w \in Worker /\ Holds(w, s)
      BY DEF Rest, Holds, Worker
    <3>2. sock[s].lock = w
      BY <2>2, <3>1 DEF Locked
    <3> QED
      BY <3>2, SocketAssumption
  <2>4. Pending(s) = <<>> \o sock[s].dw \o sock[s].high \o sock[s].low
    BY <2>3, Zenon DEF Pending
  <2>5. sock[s].dw # <<>> \/ sock[s].high # <<>> \/ sock[s].low # <<>>
    BY <2>4
  <2> QED
    BY <2>1, <2>2, <2>5 DEF Watched
<1> QED
  BY <1>1, SocketInvariance, PTL

\* The assertions of force_close (the slot is not reserved) and of new_fd (the
\* slot is free and has nothing to write) hold unless one of the named races took
\* place.
THEOREM AssertionsHoldUnlessRaced == Spec => []AbortsAreExplained
<1>1. SocketInv => AbortsAreExplained
  BY DEF SocketInv
<1> QED
  BY <1>1, SocketInvariance, PTL

-----------------------------------------------------------------------------
(* Who sent what, and what is on its way                                   *)

\* worker w is sending; none of it is written or posted yet
Busy(w) == wk[w].pc \in {"try", "locked", "store", "post"}

Unsent(w) == wk[w].pc \in {"try", "locked", "post"}

IsData(r) == r.c \in {"D", "P"}

\* the messages that the units in list belong to
Of(list) == {list[i][1] : i \in DOMAIN list}

Queues(n, s) == n \in Of(sock[s].dw) \/ n \in Of(sock[s].high) \/ n \in Of(sock[s].low)

\* a unit of message n is written or in a list
Used(n) == (\E id \in Id : n \in Of(wire[id])) \/ (\E s \in Slot : Queues(n, s))

\* A worker that is sending is at its own last message, which is not in the pipe.
Sending(w) ==
    /\ Busy(w) =>
        /\ msg[wk[w].n].by = w /\ wk[w].n \notin piped
        /\ \A m \in DOMAIN msg : msg[m].by = w => m <= wk[w].n
    /\ Unsent(w) => ~Used(wk[w].n)
    /\ wk[w].pc = "store" => Of(wk[w].rest) \subseteq {wk[w].n}

\* A message in the pipe is not used yet; it is later than what its sender has
\* put into the pipe before it, there or used by now.
Queued(i) ==
    /\ pipe[i].n \in piped /\ ~Used(pipe[i].n)
    /\ pipe[i].c = "P" => msg[pipe[i].n].low
    /\ \A j \in DOMAIN pipe : IsData(pipe[j]) /\ i < j /\ msg[pipe[i].n].by = msg[pipe[j].n].by => pipe[i].n < pipe[j].n
    /\ \A m \in piped : Used(m) /\ msg[m].by = msg[pipe[i].n].by => m < pipe[i].n

BookInv ==
    /\ \A n \in DOMAIN msg : msg[n].by \in Sender
    /\ piped \subseteq DOMAIN msg
    /\ \A n \in Nat : Used(n) => n \in DOMAIN msg
    /\ \A w \in Worker : Sending(w)
    /\ \A i \in DOMAIN pipe : IsData(pipe[i]) => Queued(i)

-----------------------------------------------------------------------------
(* Steps that put nothing into a list                                      *)

PipeLoses ==
    \E d \in {0, 1} : \A i \in DOMAIN pipe' :
        IsData(pipe'[i]) => i + d \in DOMAIN pipe /\ pipe[i + d] = pipe'[i]

WorkerKept(w) == (~Busy(w) /\ ~Busy(w)') \/ wk'[w] = wk[w] \/ (Unsent(w) /\ Unsent(w)' /\ wk'[w].n = wk[w].n)

\* lists are kept or freed, and with another descriptor they are empty
Lesser(t) ==
    /\ sock'[t].dw \in {sock[t].dw, <<>>}
    /\ sock'[t].high \in {sock[t].high, <<>>}
    /\ sock'[t].low \in {sock[t].low, <<>>}
    /\ sock'[t].fd \in {sock[t].fd, 0} \/ (sock'[t].dw = <<>> /\ sock'[t].high = <<>>)

Loses ==
    /\ UNCHANGED <<msg, wire, piped, listed>>
    /\ PipeLoses
    /\ \A w \in Worker : WorkerKept(w)
    /\ \A t \in Slot : Lesser(t)

\* send_buffer has the lock
Fetches(s) ==
    /\ UNCHANGED <<msg, wire, piped, listed, wk>>
    /\ PipeLoses
    /\ sock[s].lock = Nobody /\ poll.pc # "close" /\ On("send", s)'
    /\ sock' = [sock EXCEPT ![s].lock = "poll", ![s].high = sock[s].dw \o @, ![s].dw = <<>>]

-----------------------------------------------------------------------------
\* A socket that is not touched has no more than before.
LEMMA LesserSame ==
  ASSUME NEW t \in Slot, sock'[t] = sock[t]
  PROVE  Lesser(t)
BY DEF Lesser

\* A pipe that is not touched has no new data.
LEMMA PipeLosesSame ==
  ASSUME SocketType, pipe' = pipe
  PROVE  PipeLoses
<1>1. \A i \in DOMAIN pipe : i + 0 = i
  BY DEF SocketType, PipeTyped
<1> QED
  BY <1>1 DEF PipeLoses

\* A pipe whose first request is taken has no new data.
LEMMA PipeLosesTail ==
  ASSUME SocketType, pipe # <<>>, pipe' = Tail(pipe)
  PROVE  PipeLoses
<1>1. \A i \in DOMAIN pipe' : i + 1 \in DOMAIN pipe /\ pipe'[i] = pipe[i + 1]
  BY DEF SocketType, PipeTyped
<1> QED
  BY <1>1 DEF PipeLoses

\* A pipe with a request that is not data has no new data.
LEMMA PipeLosesAppend ==
  ASSUME SocketType, NEW r \in RequestType, ~IsData(r), pipe' = Append(pipe, r)
  PROVE  PipeLoses
<1>1. /\ \A i \in DOMAIN pipe' : i \in DOMAIN pipe \/ i = Len(pipe) + 1
      /\ pipe'[Len(pipe) + 1] = r
      /\ \A i \in DOMAIN pipe : pipe'[i] = pipe[i] /\ i + 0 = i
  BY DEF SocketType, PipeTyped
<1> QED
  BY <1>1 DEF PipeLoses

\* A step of the poll thread that adds nothing to a list or a wire.
LEMMA LosesPoll ==
  ASSUME SocketType, UNCHANGED <<msg, wire, piped, listed, wk>>, pipe' = pipe \/ (pipe # <<>> /\ pipe' = Tail(pipe)),
         \A t \in Slot : Lesser(t)
  PROVE  Loses
BY PipeLosesSame, PipeLosesTail DEF Loses, WorkerKept

\* A step of the poll thread that leaves the sockets alone.
LEMMA LosesIdle ==
  ASSUME SocketType, UNCHANGED <<msg, wire, piped, listed, wk, sock>>, pipe' = pipe \/ (pipe # <<>> /\ pipe' = Tail(pipe))
  PROVE  Loses
BY LosesPoll, LesserSame

\* force_close frees lists and writes nothing.
LEMMA ForceCloseLesser ==
  ASSUME SocketType, NEW s \in Slot, NEW why, NEW ctrl, ForceClose(s, why, ctrl)
  PROVE  wire' = wire /\ \A t \in Slot : Lesser(t)
<1>1. CASE sock' = sock /\ wire' = wire
  BY <1>1, LesserSame
<1>2. CASE /\ sock' = [sock EXCEPT ![s].high = <<>>, ![s].low = <<>>, ![s].add = FALSE, ![s].wr = FALSE]
           /\ wire' = wire
  BY <1>2 DEF SocketType, SocketsTyped, SockType, Lesser
<1> QED
  BY <1>1, <1>2 DEF ForceClose, Abort

\* new_fd begins with empty lists and writes nothing.
LEMMA NewFdLesser ==
  ASSUME SocketType, NEW s \in Slot, NEW id, NEW type, NEW add, NewFd(s, id, type, add)
  PROVE  wire' = wire /\ \A t \in Slot : Lesser(t)
<1>1. CASE sock' = sock /\ wire' = wire
  BY <1>1, LesserSame
<1>2. CASE /\ SendBufferEmpty(s) /\ wire' = wire
           /\ sock' = [sock EXCEPT ![s] = [@ EXCEPT !.id = id, !.fd = id, !.type = type, !.dw = <<>>,
                                                  !.lock = Nobody, !.add = add,
                                                  !.wr = type = "CONNECTING"]]
  <2>1. \A t \in Slot : t # s => sock'[t] = sock[t]
    BY <1>2 DEF SocketType, SocketsTyped
  <2>2. sock'[s].dw = <<>> /\ sock'[s].high = sock[s].high /\ sock'[s].low = sock[s].low
    BY <1>2 DEF SocketType, SocketsTyped, SockType
  <2>3. Lesser(s)
    BY <1>2, <2>2 DEF Lesser, SendBufferEmpty
  <2> QED
    BY <1>2, <2>1, <2>3, LesserSame
<1> QED
  BY <1>1, <1>2 DEF NewFd

\* A socket that is closed has lost its lists.
LEMMA ClosedLesser ==
  ASSUME SocketType, NEW s \in Slot, sock' = [sock EXCEPT ![s] = Closed(s)]
  PROVE  \A t \in Slot : Lesser(t)
BY DEF SocketType, SocketsTyped, SockType, Lesser, Closed

Moved(s, k) == On("send", s) /\ k \in Nat /\ k <= Len(sock[s].high \o sock[s].low) /\ SendBuffer_(k) /\ UNCHANGED <<pipe, wk, msg, piped, listed>>

\* send_buffer puts dw_buffer in front of the high list, or does nothing.
LEMMA SendBufferForm ==
  ASSUME SocketType, NEW s \in Slot, NEW then, NEW after, SendBuffer(s, then, after), poll.pc # "close",
         UNCHANGED <<msg, piped, listed, wk>>, pipe' = pipe \/ (pipe # <<>> /\ pipe' = Tail(pipe))
  PROVE  Loses \/ Fetches(s)
<1>1. CASE sock' = sock /\ wire' = wire
  BY <1>1, LosesIdle
<1>2. CASE /\ sock[s].lock = Nobody /\ wire' = wire
           /\ sock' = [sock EXCEPT ![s].lock = "poll", ![s].high = sock[s].dw \o @, ![s].dw = <<>>]
           /\ poll' = [pc |-> "send", slot |-> s, then |-> then]
  <2>1. On("send", s)'
    BY <1>2 DEF On
  <2> QED
    BY <1>2, <2>1, PipeLosesSame, PipeLosesTail DEF Fetches
<1> QED
  BY <1>1, <1>2 DEF SendBuffer

\* reserve_id sends nothing.
LEMMA ReserveLoses ==
  ASSUME SocketType, NEW w \in Worker, NEW c, Reserve(w, c)
  PROVE  Loses
<1>1. HashId(NextId) \in Slot
  BY NextIdFree DEF Reserve
<1>s. PICK s \in Slot : s = HashId(NextId)
  BY <1>1
<1>2. sock' = [sock EXCEPT ![s].type = "RESERVE"] /\ UNCHANGED <<msg, wire, piped, listed, pipe>>
  BY <1>s DEF Reserve
<1>3. \A t \in Slot : Lesser(t)
  BY <1>2 DEF SocketType, SocketsTyped, SockType, Lesser
<1>4. \A v \in Worker : WorkerKept(v)
  <2>1. wk' = [wk EXCEPT ![w] = [pc |-> "reserved", id |-> NextId, c |-> c]]
    BY DEF Reserve
  <2>2. wk[w].pc = "idle"
    BY DEF Reserve
  <2> QED
    BY <2>1, <2>2 DEF SocketType, WorkersTyped, WorkerKept, Busy
<1> QED
  BY <1>2, <1>3, <1>4, PipeLosesSame DEF Loses

\* A request to open a socket sends nothing.
LEMMA SendRequestLoses ==
  ASSUME SocketType, NEW w \in Worker, SendRequest(w)
  PROVE  Loses
<1>1. wk[w].id \in Id /\ wk[w].c \in {"O", "L"} /\ wk[w].pc = "reserved"
  <2>1. wk[w] \in WorkerType /\ wk[w].pc = "reserved"
    BY DEF SocketType, WorkersTyped, SendRequest
  <2> QED
    BY <2>1 DEF WorkerType
<1>a. PICK id \in Id : id = wk[w].id /\ id \in Nat
  BY <1>1 DEF Id
<1>s. PICK s \in Slot : s = HashId(id)
  BY <1>a, HashSlot
<1>2. /\ sock' = [sock EXCEPT ![s].id = id, ![s].fd = 0] /\ UNCHANGED <<msg, wire, piped, listed>>
      /\ wk' = [wk EXCEPT ![w] = Idle]
  BY <1>a, <1>s DEF SendRequest
<1>3. \A t \in Slot : Lesser(t)
  BY <1>2 DEF SocketType, SocketsTyped, SockType, Lesser
<1>4. \A v \in Worker : WorkerKept(v)
  BY <1>1, <1>2 DEF SocketType, WorkersTyped, WorkerKept, Busy, Idle
<1>r. PICK r \in RequestType : r = [c |-> wk[w].c, id |-> id] /\ ~IsData(r)
  <2>2. [c |-> wk[w].c, id |-> id] \in RequestType
    BY <1>1 DEF RequestType
  <2>3. ~IsData([c |-> wk[w].c, id |-> id])
    BY <1>1 DEF IsData
  <2> QED
    BY <2>2, <2>3
<1>5. pipe' = Append(pipe, r)
  BY <1>r, <1>a DEF SendRequest
<1> QED
  BY <1>2, <1>3, <1>4, <1>5, <1>r, PipeLosesAppend DEF Loses

\* A request to close, shut down or start sends nothing.
LEMMA RequestLoses ==
  ASSUME SocketType, NEW w \in Worker, NEW c \in {"K", "H", "S"}, NEW id \in known, Request(w, c, id)
  PROVE  Loses
<1>1. UNCHANGED <<msg, wire, piped, listed, sock, wk>>
  BY DEF Request
<1>r. PICK r \in RequestType : r = [c |-> c, id |-> id] /\ ~IsData(r)
  <2>1. id \in Id
    BY DEF SocketType
  <2>2. [c |-> c, id |-> id] \in RequestType
    BY <2>1 DEF RequestType
  <2>3. ~IsData([c |-> c, id |-> id])
    BY DEF IsData
  <2> QED
    BY <2>2, <2>3
<1>2. pipe' = Append(pipe, r)
  BY <1>r DEF Request
<1>3. \A v \in Worker : WorkerKept(v)
  BY SMTT(40), <1>1 DEF WorkerKept
<1> QED
  BY <1>1, <1>2, <1>3, <1>r, PipeLosesAppend, LesserSame DEF Loses

\* socket_trylock sends nothing.
LEMMA TryLockLoses ==
  ASSUME SocketType, NEW w \in Worker, TryLock(w)
  PROVE  Loses
<1>0. /\ wk[w] \in WorkerType /\ wk[w].pc = "try" /\ wk[w].n \in DOMAIN msg
      /\ UNCHANGED <<msg, wire, piped, listed, pipe>>
  BY DEF SocketType, WorkersTyped, TryLock
<1>1. /\ wk[w] \in WorkerType /\ wk[w].pc = "try" /\ msg[wk[w].n].to \in Id
      /\ UNCHANGED <<msg, wire, piped, listed, pipe>>
  <2>1. msg[wk[w].n] \in MsgType
    BY <1>0 DEF SocketType
  <2> QED
    BY <1>0, <2>1 DEF MsgType
<1>s. PICK s \in Slot : s = HashId(msg[wk[w].n].to)
  BY <1>1, HashSlot DEF Id
<1>2. ASSUME NEW pc \in {"locked", "post"}, wk' = [wk EXCEPT ![w].pc = pc] PROVE \A v \in Worker : WorkerKept(v)
  <2>1. \A v \in Worker : v # w => wk'[v] = wk[v]
    BY <1>2 DEF SocketType, WorkersTyped
  <2>2. wk'[w] = [wk[w] EXCEPT !.pc = pc]
    BY <1>2 DEF SocketType, WorkersTyped
  <2>3. wk'[w].pc = pc /\ wk'[w].n = wk[w].n
    BY <1>1, <2>2 DEF WorkerType
  <2> QED
    BY <1>1, <2>1, <2>3 DEF WorkerKept, Unsent
<1>3. CASE sock' = [sock EXCEPT ![s].lock = w] /\ wk' = [wk EXCEPT ![w].pc = "locked"]
  <2>1. \A t \in Slot : Lesser(t)
    BY <1>3 DEF SocketType, SocketsTyped, SockType, Lesser
  <2> QED
    BY <1>1, <1>2, <1>3, <2>1, PipeLosesSame DEF Loses
<1>4. CASE wk' = [wk EXCEPT ![w].pc = "post"] /\ UNCHANGED sock
  BY <1>1, <1>2, <1>4, PipeLosesSame, LesserSame DEF Loses
<1> QED
  BY <1>3, <1>4, <1>s DEF TryLock

\* What every step begins with that takes a request.
LEMMA CommandSlot ==
  ASSUME SocketType, NEW c, Cmd(c)
  PROVE  /\ Head(pipe).id \in Id /\ HashId(Head(pipe).id) \in Slot
         /\ UNCHANGED <<msg, piped, wk>> /\ pipe # <<>> /\ pipe' = Tail(pipe)
<1>1. Head(pipe) \in RequestType
  BY DEF SocketType, PipeTyped, Cmd
<1>2. Head(pipe).id \in Id
  BY <1>1 DEF RequestType
<1> QED
  BY <1>2, HashSlot DEF Cmd, Id

\* Requests without data add nothing to lists and wires.
LEMMA CommandForm ==
  ASSUME SocketType, OpenSocket \/ ListenSocket \/ StartSocket \/ CloseSocket("K") \/ CloseSocket("H")
  PROVE  Loses \/ \E s \in Slot : Fetches(s)
<1>0. PICK c \in {"O", "L", "S", "K", "H"} : Cmd(c)
  BY DEF OpenSocket, ListenSocket, StartSocket, CloseSocket
<1>1. /\ Head(pipe).id \in Id /\ HashId(Head(pipe).id) \in Slot
      /\ UNCHANGED <<msg, piped, wk>> /\ pipe # <<>> /\ pipe' = Tail(pipe)
  BY <1>0, CommandSlot
<1>2. listed' = listed
  BY DEF OpenSocket, ListenSocket, StartSocket, CloseSocket
<1>a. PICK id \in Id : id = Head(pipe).id
  BY <1>1
<1>s. PICK s \in Slot : s = HashId(id)
  BY <1>1, <1>a
<1>i. ASSUME sock' = sock, wire' = wire PROVE Loses
  BY <1>1, <1>2, <1>i, LosesIdle
<1>l. ASSUME wire' = wire, \A t \in Slot : Lesser(t) PROVE Loses
  BY <1>1, <1>2, <1>l, LosesPoll
<1>3. CASE OpenSocket
  <2>1. CASE sock' = [sock EXCEPT ![s].type = "INVALID"] /\ wire' = wire
    <3>1. \A t \in Slot : Lesser(t)
      BY <2>1 DEF SocketType, SocketsTyped, SockType, Lesser
    <3> QED
      BY <2>1, <3>1, <1>l
  <2>2. CASE \E type \in {"CONNECTED", "CONNECTING"} : NewFd(s, id, type, TRUE)
    BY <1>l, <2>2, NewFdLesser
  <2> QED
    BY <1>3, <1>a, <1>s, <2>1, <2>2 DEF OpenSocket, NewFdFails
<1>4. CASE ListenSocket
  BY <1>4, <1>a, <1>s, <1>l, NewFdLesser DEF ListenSocket
<1>5. CASE StartSocket
  <2>1. CASE UNCHANGED <<sock, wire>>
    BY <2>1, <1>i
  <2>2. CASE /\ sock' = [sock EXCEPT ![s].add = TRUE, ![s].type = IF @ = "PACCEPT" THEN "CONNECTED" ELSE "LISTEN"]
             /\ wire' = wire
    <3>1. \A t \in Slot : Lesser(t)
      BY <2>2 DEF SocketType, SocketsTyped, SockType, Lesser
    <3> QED
      BY <2>2, <3>1, <1>l
  <2>3. CASE ForceClose(s, "err", TRUE)
    BY <1>l, <2>3, ForceCloseLesser
  <2> QED
    BY <1>5, <1>a, <1>s, <2>1, <2>2, <2>3 DEF StartSocket
<1>6. ASSUME NEW x \in {"K", "H"}, CloseSocket(x) PROVE Loses \/ Fetches(s)
  <2>d. PICK decide : decide = [pc |-> "decide", slot |-> s, c |-> x]
    OBVIOUS
  <2>1. CASE UNCHANGED <<sock, wire>>
    BY <2>1, <1>i
  <2>2. CASE SendBuffer(s, decide, decide)
    <3>1. poll.pc # "close"
      BY <1>6 DEF CloseSocket, Cmd
    <3> QED
      BY <1>1, <1>2, <2>2, <3>1, SendBufferForm
  <2> QED
    BY <1>6, <1>a, <1>s, <2>d, <2>1, <2>2 DEF CloseSocket
<1> QED
  BY <1>3, <1>4, <1>5, <1>6

\* The steps within a request or an event add nothing, or write from the lists.
LEMMA PollForm ==
  ASSUME SocketType, OpenFailed \/ CloseDecide \/ PollSend \/ CloseEnd \/ ClearClosedEvent \/ ReportConnectDone
  PROVE  Loses \/ \E s \in Slot, k \in Nat : Moved(s, k)
<1>1. UNCHANGED <<msg, piped, wk, pipe, listed>>
  BY DEF OpenFailed, CloseDecide, PollSend, CloseEnd, ClearClosedEvent, ReportConnectDone
<1>l. ASSUME wire' = wire, \A t \in Slot : Lesser(t) PROVE Loses
  BY <1>1, <1>l, LosesPoll
<1>2. CASE ClearClosedEvent
  BY <1>1, <1>2, LosesIdle DEF ClearClosedEvent
<1>3. ASSUME poll.pc \in {"decide", "send", "close", "conn", "failed"} PROVE poll.slot \in Slot
  BY <1>3 DEF SocketType, PollType, DecideType, SendType
<1>4. CASE CloseDecide
  <2>s. PICK s \in Slot : s = poll.slot
    BY <1>3, <1>4 DEF CloseDecide
  <2>1. CASE sock' = [sock EXCEPT ![s].type = "HALFCLOSE"] /\ wire' = wire
    <3>1. \A t \in Slot : Lesser(t)
      BY <2>1 DEF SocketType, SocketsTyped, SockType, Lesser
    <3> QED
      BY <2>1, <3>1, <1>l
  <2>2. CASE ForceClose(s, poll.c, TRUE)
    BY <1>l, <2>2, ForceCloseLesser
  <2> QED
    BY <1>4, <2>s, <2>1, <2>2 DEF CloseDecide
<1>5. CASE CloseEnd
  <2>s. PICK s \in Slot : s = poll.slot
    BY <1>3, <1>5 DEF CloseEnd
  <2> QED
    BY <1>5, <2>s, <1>l, ClosedLesser DEF CloseEnd
<1>6. CASE ReportConnectDone
  <2>s. PICK s \in Slot : s = poll.slot
    BY <1>3, <1>6 DEF ReportConnectDone
  <2>1. sock' = [sock EXCEPT ![s].wr = @ /\ ~SendBufferEmpty(s)] /\ wire' = wire
    BY <1>6, <2>s DEF ReportConnectDone
  <2>2. \A t \in Slot : Lesser(t)
    BY <2>1 DEF SocketType, SocketsTyped, SockType, Lesser
  <2> QED
    BY <2>1, <2>2, <1>l
<1>7. CASE PollSend
  <2>s. PICK s \in Slot : s = poll.slot /\ On("send", s)
    BY <1>3, <1>7 DEF PollSend, On
  <2>1. CASE SendFails
    <3>1. CASE sock' = sock /\ wire' = wire
      BY <3>1, <1>1, LosesIdle
    <3>2. CASE sock' = [sock EXCEPT ![s] = Closed(s)] /\ wire' = wire
      BY <3>2, <1>l, ClosedLesser
    <3> QED
      BY <2>1, <2>s, <3>1, <3>2 DEF SendFails, Abort
  <2>2. ASSUME NEW k \in 0..Len(sock[s].high \o sock[s].low), SendBuffer_(k) PROVE \E j \in Nat : Moved(s, j)
    <3>1. sock[s].high \o sock[s].low \in Seq(Unit)
      BY DEF SocketType, SocketsTyped, SockType
    <3>2. k \in Nat /\ k <= Len(sock[s].high \o sock[s].low)
      <4> DEFINE len == Len(sock[s].high \o sock[s].low)
      <4>1. len \in Nat
        BY <3>1, LenProperties
      <4>2. k \in 0..len
        OBVIOUS
      <4> HIDE DEF len
      <4>3. k \in Nat /\ k <= len
        BY <4>1, <4>2
      <4> QED
        BY <4>3 DEF len
    <3>3. Moved(s, k)
      BY <1>1, <2>s, <2>2, <3>2 DEF Moved
    <3> QED
      BY <3>2, <3>3
  <2> QED
    BY <1>7, <2>s, <2>1, <2>2 DEF PollSend
<1>8. CASE OpenFailed
  <2>s. PICK s \in Slot : s = poll.slot
    BY <1>3, <1>8 DEF OpenFailed
  <2>1. sock' = [sock EXCEPT ![s].type = "INVALID"] /\ wire' = wire
    BY <1>8, <2>s DEF OpenFailed
  <2>2. \A t \in Slot : Lesser(t)
    BY <2>1 DEF SocketType, SocketsTyped, SockType, Lesser
  <2> QED
    BY <2>1, <2>2, <1>l
<1> QED
  BY <1>2, <1>4, <1>5, <1>6, <1>7, <1>8

\* The first steps of events add nothing, but may begin to write.
LEMMA EventForm ==
  ASSUME SocketType, ReportConnect \/ ReportAccept \/ InvalidSocket \/ ForwardMessage \/ WriteEvent \/ ErrorEvent \/ PollWait
  PROVE  Loses \/ \E s \in Slot : Fetches(s)
<1>1. UNCHANGED <<msg, piped, wk, pipe, listed>>
  BY DEF ReportConnect, ReportAccept, InvalidSocket, ForwardMessage, WriteEvent, ErrorEvent, PollWait, TakeEvent
<1>l. ASSUME wire' = wire, \A t \in Slot : Lesser(t) PROVE Loses
  BY <1>1, <1>l, LosesPoll
<1>i. ASSUME sock' = sock, wire' = wire PROVE Loses
  BY <1>1, <1>i, LosesIdle
<1>2. CASE PollWait \/ InvalidSocket
  BY <1>i, <1>2 DEF PollWait, InvalidSocket
<1>3. ASSUME ev # <<>> PROVE Head(ev).slot \in Slot
  <2>1. Head(ev) \in EventType
    BY <1>3 DEF SocketType, EventsTyped
  <2> QED
    BY <2>1 DEF EventType
<1>4. CASE ReportAccept
  <2>1. CASE UNCHANGED <<sock, wire>>
    BY <2>1, <1>i
  <2>2. CASE FreeIds # {} /\ NewFd(HashId(NextId), NextId, "PACCEPT", FALSE)
    BY <1>l, <2>2, NextIdFree, NewFdLesser
  <2> QED
    BY <1>4, <2>1, <2>2 DEF ReportAccept
<1>5. CASE ReportConnect \/ ForwardMessage \/ WriteEvent \/ ErrorEvent
  <2>0. ev # <<>>
    BY <1>5 DEF ReportConnect, ForwardMessage, WriteEvent, ErrorEvent, TakeEvent
  <2>s. PICK s \in Slot : s = Head(ev).slot
    BY <2>0, <1>3
  <2>1. CASE UNCHANGED <<sock, wire>>
    BY <2>1, <1>i
  <2>2. CASE ForceClose(s, "err", FALSE)
    BY <1>l, <2>2, ForceCloseLesser
  <2>3. CASE sock' = [sock EXCEPT ![s].type = "CONNECTED"] /\ wire' = wire
    <3>1. \A t \in Slot : Lesser(t)
      BY <2>3 DEF SocketType, SocketsTyped, SockType, Lesser
    <3> QED
      BY <2>3, <3>1, <1>l
  <2>4. CASE SendBuffer(s, Top, Top)
    <3>1. poll.pc # "close"
      BY <1>5 DEF ReportConnect, ForwardMessage, WriteEvent, ErrorEvent, TakeEvent
    <3> QED
      BY <1>1, <2>4, <3>1, SendBufferForm
  <2> QED
    BY <1>5, <2>s, <2>1, <2>2, <2>3, <2>4 DEF ReportConnect, ForwardMessage, WriteEvent, ErrorEvent
<1> QED
  BY <1>2, <1>4, <1>5

\* Every step is one of these: it puts nothing into a list, or it sends a
\* message, writes it directly, stores the rest, posts it, lists it, or moves what
\* is listed on.
LEMMA Forms ==
  ASSUME SocketType, [Next]_sockvars
  PROVE  \/ Loses
         \/ \E w \in Sender, id \in known : SendStart(w, id) \/ SendLow(w, id)
         \/ \E w \in Worker : DirectWrite(w) \/ StoreRest(w) \/ PostData(w)
         \/ \E c \in {"D", "P"} : SendSocket(c)
         \/ \E s \in Slot : Fetches(s)
         \/ \E s \in Slot, k \in Nat : Moved(s, k)
<1>1. CASE UNCHANGED sockvars
  BY <1>1, LosesIdle DEF sockvars
<1>2. CASE \E w \in Worker : WorkerStep(w)
  BY <1>2, SendRequestLoses, TryLockLoses DEF WorkerStep
<1>3. CASE \E w \in Opener : \/ Reserve(w, "O") \/ Reserve(w, "L")
                             \/ \E c \in {"K", "H", "S"}, id \in known : Request(w, c, id)
  <2>1. PICK w \in Worker : \/ Reserve(w, "O") \/ Reserve(w, "L")
                            \/ \E c \in {"K", "H", "S"}, id \in known : Request(w, c, id)
    BY <1>3 DEF Worker
  <2> QED
    BY <2>1, ReserveLoses, RequestLoses
<1>4. CASE \E w \in Sender, id \in known \ {1} : SendStart(w, id) \/ SendLow(w, id)
  BY <1>4
<1>5. CASE PollStep
  BY <1>5, CommandForm, PollForm, EventForm DEF PollStep
<1>6. CASE Next
  BY <1>2, <1>3, <1>4, <1>5, <1>6, Zenon DEF Next
<1> QED
  BY <1>1, <1>6

-----------------------------------------------------------------------------
(* Lists of units, and the messages they belong to                         *)

\* No message is in an empty list.
LEMMA OfEmpty == Of(<<>>) = {}
BY DEF Of

\* The messages of two lists put together.
LEMMA OfConcat ==
  ASSUME NEW a \in Seq(Unit), NEW b \in Seq(Unit)
  PROVE  Of(a \o b) = Of(a) \cup Of(b)
<1>0. /\ a \o b \in Seq(Unit) /\ DOMAIN (a \o b) = 1..(Len(a) + Len(b))
      /\ DOMAIN a = 1..Len(a) /\ DOMAIN b = 1..Len(b) /\ Len(a) \in Nat /\ Len(b) \in Nat
  OBVIOUS
<1>1. ASSUME NEW i \in DOMAIN (a \o b) PROVE (a \o b)[i][1] \in Of(a) \cup Of(b)
  <2>1. CASE i <= Len(a)
    <3>1. i \in DOMAIN a /\ (a \o b)[i] = a[i]
      BY <1>0, <2>1
    <3> QED
      BY <3>1 DEF Of
  <2>2. CASE ~(i <= Len(a))
    <3>1. i - Len(a) \in DOMAIN b /\ (a \o b)[i] = b[i - Len(a)]
      BY <1>0, <2>2
    <3> QED
      BY <3>1 DEF Of
  <2> QED
    BY <2>1, <2>2
<1>2. ASSUME NEW i \in DOMAIN a PROVE a[i][1] \in Of(a \o b)
  <2>1. i \in DOMAIN (a \o b) /\ (a \o b)[i] = a[i]
    BY <1>0
  <2> QED
    BY <2>1 DEF Of
<1>3. ASSUME NEW i \in DOMAIN b PROVE b[i][1] \in Of(a \o b)
  <2>1. i + Len(a) \in DOMAIN (a \o b) /\ (a \o b)[i + Len(a)] = b[i]
    BY <1>0
  <2> QED
    BY <2>1 DEF Of
<1>4. Of(a \o b) \subseteq Of(a) \cup Of(b)
  BY <1>1 DEF Of
<1>5. Of(a) \subseteq Of(a \o b) /\ Of(b) \subseteq Of(a \o b)
  BY <1>2, <1>3 DEF Of
<1> QED
  BY <1>4, <1>5

\* The messages of a part of a list.
LEMMA OfSub ==
  ASSUME NEW a \in Seq(Unit), NEW i \in Nat \ {0}, NEW j \in Nat, j <= Len(a)
  PROVE  Of(SubSeq(a, i, j)) \subseteq Of(a) /\ SubSeq(a, i, j) \in Seq(Unit)
<1>1. /\ SubSeq(a, i, j) \in Seq(Unit)
      /\ \A k \in DOMAIN SubSeq(a, i, j) : i + k - 1 \in DOMAIN a /\ SubSeq(a, i, j)[k] = a[i + k - 1]
  OBVIOUS
<1> QED
  BY <1>1 DEF Of

\* The message of its units.
LEMMA OfUnits ==
  ASSUME NEW n \in Nat
  PROVE  Of(Units(n)) = {n} /\ Units(n) \in Seq(Unit) /\ Len(Units(n)) = 2
<1>1. /\ Units(n) \in Seq(Unit) /\ Len(Units(n)) = 2 /\ 1 \in DOMAIN Units(n)
      /\ \A i \in DOMAIN Units(n) : Units(n)[i][1] = n
  BY DEF Units, Unit
<1> QED
  BY <1>1 DEF Of

\* Messages are numbers.
LEMMA OfNat ==
  ASSUME NEW a \in Seq(Unit)
  PROVE  Of(a) \subseteq Nat
<1>1. \A i \in DOMAIN a : a[i] \in Unit
  BY SMTT(40)
<1> QED
  BY <1>1 DEF Of, Unit

\* What send_buffer_ has done to the lists: of what was listed, u was written and h
\* and l are left, in this order.
Sent(s, u, h, l) ==
    /\ sock'[s].high = h /\ sock'[s].low = l
    /\ sock'[s].id = sock[s].id /\ sock'[s].fd = sock[s].fd /\ sock'[s].dw \in {sock[s].dw, <<>>}
    /\ \/ sock'[s].type = sock[s].type /\ sock'[s].dw = sock[s].dw
       \/ sock[s].type = "HALFCLOSE" /\ sock'[s].type = "INVALID" /\ h = <<>> /\ l = <<>>
    /\ \A t \in Slot \ {s} : sock'[t] = sock[t]
    /\ \A id \in Id : wire'[id] = IF id = sock[s].fd THEN wire[id] \o u ELSE wire[id]
    /\ \/ sock[s].high = u \o h /\ l = sock[s].low
       \/ \E p \in Seq(Unit) :
            /\ u = sock[s].high \o p /\ sock[s].low = (p \o h) \o l
            /\ h = <<>> => l = <<>> \/ l[1][2] # 2
            /\ h # <<>> => Len(h) = 1 /\ h[1][2] = 2

\* A list is its first k units and the others.
LEMMA Split ==
  ASSUME NEW a \in Seq(Unit), NEW k \in Nat, k <= Len(a)
  PROVE  /\ SubSeq(a, 1, k) \in Seq(Unit) /\ SubSeq(a, k + 1, Len(a)) \in Seq(Unit)
         /\ a = SubSeq(a, 1, k) \o SubSeq(a, k + 1, Len(a))
<1>1. Len(a) \in Nat
  OBVIOUS
<1>2. 1 \in 1..Len(a) + 1 /\ k \in 1-1..Len(a) /\ Len(a) \in k..Len(a)
  BY <1>1
<1>3. SubSeq(a, 1, k) \o SubSeq(a, k + 1, Len(a)) = SubSeq(a, 1, Len(a))
  BY <1>2, ConcatAdjacentSubSeq
<1>4. SubSeq(a, 1, Len(a)) = a
  BY SubSeqFull
<1>5. SubSeq(a, 1, k) \in Seq(Unit) /\ SubSeq(a, k + 1, Len(a)) \in Seq(Unit)
  OBVIOUS
<1> QED
  BY Zenon, <1>3, <1>4, <1>5

\* The first k units of a list.
LEMMA FirstOf ==
  ASSUME NEW a \in Seq(Unit), NEW k \in Nat, k <= Len(a)
  PROVE  SubSeq(a, 1, k) \in Seq(Unit) /\ Len(SubSeq(a, 1, k)) = k /\ \A i \in 1..k : SubSeq(a, 1, k)[i] = a[i]
OBVIOUS

\* the first k of two lists
LEMMA FirstOfTwo ==
  ASSUME NEW a \in Seq(Unit), NEW b \in Seq(Unit), NEW k \in Nat, k <= Len(a \o b)
  PROVE  /\ Len(a \o b) = Len(a) + Len(b)
         /\ k <= Len(a) => SubSeq(a \o b, 1, k) = SubSeq(a, 1, k)
         /\ k >= Len(a) => SubSeq(a \o b, 1, k) = a \o SubSeq(b, 1, k - Len(a))
<1>1. /\ a \o b \in Seq(Unit) /\ Len(a \o b) = Len(a) + Len(b) /\ Len(a) \in Nat /\ Len(b) \in Nat
      /\ \A i \in 1..(Len(a) + Len(b)) : (a \o b)[i] = IF i <= Len(a) THEN a[i] ELSE b[i - Len(a)]
  BY ConcatProperties, LenProperties
<1>c. PICK c \in Seq(Unit) : c = a \o b
  BY <1>1
<1>u. PICK u \in Seq(Unit) : u = SubSeq(c, 1, k) /\ Len(u) = k /\ \A i \in 1..k : u[i] = c[i]
  <2>1. k <= Len(c)
    BY <1>c
  <2> QED
    BY <2>1, FirstOf
<1>2. Len(u) = k /\ \A i \in 1..k : u[i] = (a \o b)[i]
  BY <1>c, <1>u
<1>3. ASSUME k <= Len(a) PROVE u = SubSeq(a, 1, k)
  <2>1. SubSeq(a, 1, k) \in Seq(Unit) /\ Len(SubSeq(a, 1, k)) = k /\ \A i \in 1..k : SubSeq(a, 1, k)[i] = a[i]
    BY <1>3
  <2>2. \A i \in 1..k : u[i] = a[i]
    BY <1>1, <1>2, <1>3
  <2> QED
    BY <1>2, <2>1, <2>2, SeqEqual
<1>4. ASSUME k >= Len(a) PROVE u = a \o SubSeq(b, 1, k - Len(a))
  <2>j. PICK j \in Nat : j = k - Len(a) /\ j <= Len(b)
    BY <1>1, <1>4
  <2>p. PICK p \in Seq(Unit) : p = SubSeq(b, 1, j) /\ Len(p) = j /\ \A i \in 1..j : p[i] = b[i]
    BY ZenonT(60), <2>j, FirstOf
  <2>1. a \o p \in Seq(Unit) /\ Len(a \o p) = k
    BY <1>1, <2>j, <2>p
  <2>2. ASSUME NEW i \in 1..k PROVE u[i] = (a \o p)[i]
    <3>0. i \in 1..(Len(a) + Len(b))
      BY <1>1
    <3>1. u[i] = IF i <= Len(a) THEN a[i] ELSE b[i - Len(a)]
      BY <1>1, <1>2, <3>0
    <3>2. (a \o p)[i] = IF i <= Len(a) THEN a[i] ELSE p[i - Len(a)]
      BY <1>1, <2>j, <2>p, ConcatProperties
    <3>3. i > Len(a) => i - Len(a) \in 1..j
      BY <1>1, <2>j
    <3> QED
      BY SMTT(60), <1>1, <2>p, <3>1, <3>2, <3>3
  <2>3. u = a \o p
    BY <1>2, <2>1, <2>2, SeqEqual
  <2> QED
    BY <2>3, <2>p, <2>j
<1> QED
  BY <1>1, <1>c, <1>u, <1>3, <1>4

\* Putting lists together is associative.
LEMMA Associative == \A a, b, c \in Seq(Unit) : (a \o b) \o c = a \o (b \o c)
OBVIOUS

\* The wires after a write to one of them.
LEMMA WireWritten ==
  ASSUME SocketType, NEW s \in Slot, NEW u \in Seq(Unit),
         (wire' = wire /\ u = <<>>) \/ wire' = [wire EXCEPT ![sock[s].fd] = @ \o u]
  PROVE  \A id \in Id : wire'[id] = IF id = sock[s].fd THEN wire[id] \o u ELSE wire[id]
<1> SUFFICES ASSUME NEW id \in Id PROVE wire'[id] = IF id = sock[s].fd THEN wire[id] \o u ELSE wire[id]
  OBVIOUS
<1>1. wire \in [Id -> Seq(Unit)] /\ wire[id] \in Seq(Unit) /\ wire[id] \o <<>> = wire[id]
  BY ConcatEmptySeq DEF SocketType
<1> QED
  BY <1>1

\* What the writes of send_buffer take from the lists, by lists.
LEMMA MovedLists ==
  ASSUME SocketType, NEW s \in Slot, NEW k \in Nat, Moved(s, k)
  PROVE  \E u, h, l \in Seq(Unit) : Sent(s, u, h, l)
<1>0. sock[s] \in SockType /\ poll.slot = s /\ SendBuffer_(k)
  BY DEF SocketType, SocketsTyped, Moved, On
<1>h. PICK high \in Seq(Unit) : high = sock[s].high
  BY <1>0 DEF SockType
<1>l. PICK low \in Seq(Unit) : low = sock[s].low
  BY <1>0 DEF SockType
<1>1. k <= Len(high \o low) /\ Len(high) \in Nat /\ Len(low) \in Nat
  <2>1. k <= Len(high \o low)
    BY <1>h, <1>l, Zenon DEF Moved
  <2> QED
    BY <2>1, LenProperties, Zenon
<1>2. /\ Len(high \o low) = Len(high) + Len(low)
      /\ k <= Len(high) => SubSeq(high \o low, 1, k) = SubSeq(high, 1, k)
      /\ k >= Len(high) => SubSeq(high \o low, 1, k) = high \o SubSeq(low, 1, k - Len(high))
  BY <1>1, FirstOfTwo
<1>e. <<>> \in Seq(Unit)
  OBVIOUS
<1>u. PICK u \in Seq(Unit) : u = SubSeq(high \o low, 1, k) /\ (k = 0 => u = <<>>)
  <2>1. CASE k <= Len(high)
    <3>1. SubSeq(high, 1, k) \in Seq(Unit) /\ (k = 0 => SubSeq(high, 1, k) = <<>>)
      BY <2>1, Split, EmptySeq
    <3> QED
      BY <1>2, <2>1, <3>1
  <2>2. CASE k > Len(high)
    <3>j. PICK j \in Nat : j = k - Len(high) /\ j <= Len(low) /\ k # 0
      BY <1>1, <1>2, <2>2
    <3>1. SubSeq(low, 1, j) \in Seq(Unit)
      BY <3>j, Split
    <3>2. high \o SubSeq(low, 1, j) \in Seq(Unit)
      BY <3>1
    <3>3. k >= Len(high)
      BY <1>1, <2>2
    <3>4. SubSeq(high \o low, 1, k) = high \o SubSeq(low, 1, j)
      BY <1>2, <3>j, <3>3, Zenon
    <3> QED
      BY <3>j, <3>2, <3>4, Zenon
  <2> QED
    BY SMTT(40), <1>1, <2>1, <2>2
<1>3. \A id \in Id : wire'[id] = IF id = sock[s].fd THEN wire[id] \o u ELSE wire[id]
  <2>1. (k = 0 /\ wire' = wire) \/ wire' = [wire EXCEPT ![sock[s].fd] = @ \o u]
    BY Zenon, <1>0, <1>h, <1>l, <1>u DEF SendBuffer_
  <2> QED
    BY Zenon, <1>u, <2>1, WireWritten
<1>4. CASE k < Len(high)
  <2>x. PICK h \in Seq(Unit) : h = SubSeq(high, k + 1, Len(high)) /\ high = u \o h
    <3>1. k <= Len(high)
      BY <1>1, <1>4
    <3>2. /\ SubSeq(high, k + 1, Len(high)) \in Seq(Unit)
          /\ high = SubSeq(high, 1, k) \o SubSeq(high, k + 1, Len(high))
      BY <3>1, Split
    <3> QED
      BY <1>2, <1>u, <3>1, <3>2, Zenon
  <2>1. sock' = [sock EXCEPT ![s].lock = Nobody, ![s].high = h] \/ sock' = [sock EXCEPT ![s].high = h]
    <3>1. ~(k >= Len(high))
      BY <1>1, <1>4
    <3> QED
      BY <1>0, <1>h, <2>x, <3>1, ZenonT(60) DEF SendBuffer_
  <2>2. /\ sock'[s].high = h /\ sock'[s].low = low /\ sock'[s].type = sock[s].type
        /\ sock'[s].id = sock[s].id /\ sock'[s].fd = sock[s].fd /\ sock'[s].dw = sock[s].dw
        /\ \A t \in Slot \ {s} : sock'[t] = sock[t]
    BY SMTT(40), <1>l, <2>1 DEF SocketType, SocketsTyped, SockType
  <2>3. Sent(s, u, h, low)
    BY <1>3, <1>h, <1>l, <2>2, <2>x DEF Sent
  <2> QED
    BY <2>3
<1>5. CASE k >= Len(high)
  <2>j. PICK j \in Nat : j = k - Len(high) /\ j <= Len(low)
    BY <1>1, <1>2, <1>5
  <2>p. PICK p \in Seq(Unit) : p = SubSeq(low, 1, j)
    BY <2>j, Split
  <2>r. PICK rest \in Seq(Unit) : rest = SubSeq(low, j + 1, Len(low)) /\ low = p \o rest
    <3>1. /\ SubSeq(low, j + 1, Len(low)) \in Seq(Unit)
          /\ low = SubSeq(low, 1, j) \o SubSeq(low, j + 1, Len(low))
      BY <2>j, Split
    <3> QED
      BY <2>p, <3>1, Zenon
  <2>0. u = high \o p /\ rest = SubSeq(low, k - Len(high) + 1, Len(low)) /\ ~(k < Len(high))
    <3>1. ~(k < Len(high))
      BY <1>1, <1>5
    <3> QED
      BY <1>2, <1>5, <1>u, <2>j, <2>p, <2>r, <3>1, Zenon
  <2>1. ASSUME rest # <<>>, Head(rest)[2] = 2, sock' = [sock EXCEPT ![s].lock = Nobody, ![s].high = <<Head(rest)>>, ![s].low = Tail(rest)]
        PROVE  Sent(s, u, <<Head(rest)>>, Tail(rest)) /\ <<Head(rest)>> \in Seq(Unit) /\ Tail(rest) \in Seq(Unit)
    <3>t. Head(rest) \in Unit /\ Tail(rest) \in Seq(Unit)
      BY <2>1, HeadTailProperties
    <3>x. PICK x \in Unit : x = Head(rest) /\ x[2] = 2
      BY <2>1, <3>t, Zenon
    <3>h. PICK h \in Seq(Unit) : h = <<x>> /\ h # <<>> /\ Len(h) = 1 /\ h[1][2] = 2
      <4>1. <<x>> \in Seq(Unit) /\ <<x>> # <<>> /\ Len(<<x>>) = 1 /\ <<x>>[1] = x
        OBVIOUS
      <4> QED
        BY <3>x, <4>1, Zenon
    <3>l. PICK l \in Seq(Unit) : l = Tail(rest)
      BY <3>t, Zenon
    <3>1. rest = h \o l
      <4>1. /\ h \o l \in Seq(Unit) /\ Len(h \o l) = Len(rest)
            /\ \A i \in 1..Len(rest) : (h \o l)[i] = IF i = 1 THEN Head(rest) ELSE l[i - 1]
        BY <2>1, <3>h, <3>l, <3>x
      <4>2. \A i \in 1..Len(rest) : rest[i] = (h \o l)[i]
        BY SMTT(40), <2>1, <3>l, <4>1
      <4> QED
        BY <4>1, <4>2, SeqEqual
    <3>2. low = (p \o h) \o l
      <4>1. (p \o h) \o l = p \o (h \o l)
        BY ZenonT(60), Associative
      <4> QED
        BY <2>r, <3>1, <4>1, Zenon
    <3>3. /\ sock'[s].high = h /\ sock'[s].low = l /\ sock'[s].type = sock[s].type
          /\ sock'[s].id = sock[s].id /\ sock'[s].fd = sock[s].fd /\ sock'[s].dw = sock[s].dw
          /\ \A t \in Slot \ {s} : sock'[t] = sock[t]
      BY <2>1, <3>h, <3>l, <3>x DEF SocketType, SocketsTyped, SockType
    <3>4. Sent(s, u, h, l)
      BY <1>3, <1>h, <1>l, <2>0, <3>2, <3>3, <3>h DEF Sent
    <3> QED
      BY <3>4, <3>h, <3>l, <3>x, Zenon
  <2>2. ASSUME rest # <<>>, ~(Head(rest)[2] = 2), sock' = [sock EXCEPT ![s].high = <<>>, ![s].low = rest]
        PROVE  Sent(s, u, <<>>, rest)
    <3>1. low = (p \o <<>>) \o rest
      BY <2>r, ConcatEmptySeq
    <3>3. /\ sock'[s].high = <<>> /\ sock'[s].low = rest /\ sock'[s].type = sock[s].type
          /\ sock'[s].id = sock[s].id /\ sock'[s].fd = sock[s].fd /\ sock'[s].dw = sock[s].dw
          /\ \A t \in Slot \ {s} : sock'[t] = sock[t]
      BY <2>2 DEF SocketType, SocketsTyped, SockType
    <3>4. rest[1][2] # 2
      BY <2>2
    <3> QED
      BY Zenon, <1>3, <1>h, <1>l, <2>0, <3>1, <3>3, <3>4 DEF Sent
  <2>3. ASSUME rest = <<>>, NEW type, (type = sock[s].type /\ sock'[s].dw = sock[s].dw) \/ (sock[s].type = "HALFCLOSE" /\ type = "INVALID"),
               sock'[s].type = type, sock'[s].high = <<>>, sock'[s].low = <<>>,
               sock'[s].id = sock[s].id, sock'[s].fd = sock[s].fd, sock'[s].dw \in {sock[s].dw, <<>>},
               \A t \in Slot \ {s} : sock'[t] = sock[t]
        PROVE  Sent(s, u, <<>>, <<>>)
    <3>1. low = (p \o <<>>) \o <<>>
      BY <2>r, <2>3, ConcatEmptySeq
    <3> QED
      BY <1>3, <1>h, <1>l, <2>0, <2>3, <3>1 DEF Sent
  <2>4. CASE rest = <<>> /\ sock[s].type = "HALFCLOSE" /\ sock' = [sock EXCEPT ![s] = Closed(s)]
    <3>1. /\ sock'[s].type = "INVALID" /\ sock'[s].high = <<>> /\ sock'[s].low = <<>>
          /\ sock'[s].id = sock[s].id /\ sock'[s].fd = sock[s].fd /\ sock'[s].dw = <<>>
          /\ \A t \in Slot \ {s} : sock'[t] = sock[t]
      BY <2>4 DEF SocketType, SocketsTyped, SockType, Closed
    <3> QED
      BY <1>e, <2>3, <2>4, <3>1
  <2>5. CASE rest = <<>> /\ sock' = [sock EXCEPT ![s].lock = Nobody, ![s].high = <<>>, ![s].low = <<>>, ![s].wr = FALSE]
    <3>1. /\ sock'[s].type = sock[s].type /\ sock'[s].high = <<>> /\ sock'[s].low = <<>>
          /\ sock'[s].id = sock[s].id /\ sock'[s].fd = sock[s].fd /\ sock'[s].dw = sock[s].dw
          /\ \A t \in Slot \ {s} : sock'[t] = sock[t]
      BY <2>5 DEF SocketType, SocketsTyped, SockType
    <3> QED
      BY <1>e, <2>3, <2>5, <3>1
  <2>6. \/ rest # <<>> /\ Head(rest)[2] = 2 /\ sock' = [sock EXCEPT ![s].lock = Nobody, ![s].high = <<Head(rest)>>, ![s].low = Tail(rest)]
        \/ rest # <<>> /\ ~(Head(rest)[2] = 2) /\ sock' = [sock EXCEPT ![s].high = <<>>, ![s].low = rest]
        \/ rest = <<>> /\ sock[s].type = "HALFCLOSE" /\ sock' = [sock EXCEPT ![s] = Closed(s)]
        \/ rest = <<>> /\ sock' = [sock EXCEPT ![s].lock = Nobody, ![s].high = <<>>, ![s].low = <<>>, ![s].wr = FALSE]
    BY <1>0, <1>h, <1>l, <2>0, ZenonT(60) DEF SendBuffer_
  <2> QED
    BY <1>e, <2>1, <2>2, <2>4, <2>5, <2>6
<1> QED
  BY <1>1, <1>4, <1>5

-----------------------------------------------------------------------------
(* The books are kept                                                      *)

\* The types that the books depend on.
LEMMA BookTypes ==
  ASSUME SocketType
  PROVE  /\ \A s \in Slot : sock[s].dw \in Seq(Unit) /\ sock[s].high \in Seq(Unit) /\ sock[s].low \in Seq(Unit)
         /\ \A id \in Id : wire[id] \in Seq(Unit)
         /\ DOMAIN msg \subseteq Nat
         /\ \A w \in Worker : Busy(w) => wk[w].n \in DOMAIN msg
         /\ \A w \in Worker : wk[w].pc = "store" => wk[w].rest \in Seq(Unit)
         /\ \A i \in DOMAIN pipe : IsData(pipe[i]) => pipe[i].n \in DOMAIN msg
<1>1. \A s \in Slot : sock[s].dw \in Seq(Unit) /\ sock[s].high \in Seq(Unit) /\ sock[s].low \in Seq(Unit)
  BY DEF SocketType, SocketsTyped, SockType
<1>2. (\A id \in Id : wire[id] \in Seq(Unit)) /\ DOMAIN msg \subseteq Nat
  BY DEF SocketType
<1>3. \A w \in Worker : Busy(w) => wk[w].n \in DOMAIN msg
  BY DEF SocketType, WorkersTyped, Busy
<1>4. ASSUME NEW w \in Worker, wk[w].pc = "store" PROVE wk[w].rest \in Seq(Unit)
  <2>1. wk[w] \in WorkerType
    BY DEF SocketType, WorkersTyped
  <2> QED
    BY <1>4, <2>1 DEF WorkerType
<1>5. \A i \in DOMAIN pipe : IsData(pipe[i]) => pipe[i].n \in DOMAIN msg
  BY DEF SocketType, PipeTyped, IsData
<1> QED
  BY <1>1, <1>2, <1>3, <1>4, <1>5

\* A step that sends nothing and uses no message keeps the books.
LEMMA BookFrame ==
  ASSUME SocketType, BookInv, UNCHANGED <<msg, piped>>, PipeLoses, pipe' \in Seq(RequestType),
         \A w \in Worker : WorkerKept(w),
         \A n \in Nat : Used(n)' => Used(n)
  PROVE  BookInv'
<1>t. DOMAIN msg \subseteq Nat /\ \A w \in Worker : Busy(w) => wk[w].n \in DOMAIN msg
  BY BookTypes
<1>d. PICK d \in {0, 1} : \A i \in DOMAIN pipe' : IsData(pipe'[i]) => i + d \in DOMAIN pipe /\ pipe[i + d] = pipe'[i]
  BY DEF PipeLoses
<1>n. DOMAIN pipe \subseteq Nat /\ DOMAIN pipe' \subseteq Nat /\ d \in Nat
  BY DEF SocketType, PipeTyped
<1>1. ASSUME NEW w \in Worker PROVE Sending(w)'
  <2>1. Sending(w) /\ WorkerKept(w)
    BY DEF BookInv
  <2>2. Busy(w)' => Busy(w) /\ wk'[w].n = wk[w].n
    BY <2>1 DEF WorkerKept, Busy, Unsent
  <2>3. Unsent(w)' => Unsent(w) /\ Busy(w)'
    BY <2>1 DEF WorkerKept, Busy, Unsent
  <2>4. wk'[w].pc = "store" => wk'[w] = wk[w]
    BY <2>1 DEF WorkerKept, Busy, Unsent
  <2>5. Busy(w)' => /\ msg'[wk'[w].n].by = w /\ wk'[w].n \notin piped'
                    /\ \A m \in DOMAIN msg' : msg'[m].by = w => m <= wk'[w].n
    BY <2>1, <2>2 DEF Sending
  <2>6. Unsent(w)' => ~Used(wk[w].n)'
    <3>1. Unsent(w)' => ~Used(wk[w].n) /\ wk'[w].n = wk[w].n /\ wk[w].n \in Nat
      BY <1>t, <2>1, <2>2, <2>3 DEF Sending
    <3>2. \A n \in Nat : n = wk[w].n /\ Used(n)' => Used(wk[w].n)
      OBVIOUS
    <3>3. \A n \in Nat : n = wk'[w].n => (Used(n)' <=> Used(wk[w].n)')
      BY DEF Used, Queues
    <3> QED
      BY <3>1, <3>2, <3>3
  <2>7. wk'[w].pc = "store" => Of(wk'[w].rest) \subseteq {wk'[w].n}
    BY <2>1, <2>4 DEF Sending
  <2> QED
    BY <2>5, <2>6, <2>7 DEF Sending, Of
<1>2. ASSUME NEW i \in DOMAIN pipe', IsData(pipe'[i]) PROVE Queued(i)'
  <2>1. i + d \in DOMAIN pipe /\ pipe[i + d] = pipe'[i] /\ IsData(pipe[i + d]) /\ Queued(i + d)
    BY <1>d, <1>2 DEF BookInv, IsData
  <2>2. pipe'[i].n \in piped' /\ (pipe'[i].c = "P" => msg'[pipe'[i].n].low)
    BY <2>1 DEF Queued
  <2>3. ~Used(pipe[i].n)'
    <3>1. pipe'[i].n \in Nat /\ ~Used(pipe[i + d].n)
      BY <1>t, <2>1 DEF Queued, BookInv
    <3>2. \A n \in Nat : n = pipe[i + d].n /\ Used(n) => Used(pipe[i + d].n)
      OBVIOUS
    <3>3. \A n \in Nat : n = pipe'[i].n => (Used(n)' <=> Used(pipe[i].n)')
      BY DEF Used, Queues
    <3> QED
      BY <2>1, <3>1, <3>2, <3>3
  <2>4. ASSUME NEW j \in DOMAIN pipe', IsData(pipe'[j]), i < j, msg'[pipe'[i].n].by = msg'[pipe'[j].n].by
        PROVE  pipe'[i].n < pipe'[j].n
    <3>1. j + d \in DOMAIN pipe /\ pipe[j + d] = pipe'[j] /\ IsData(pipe[j + d]) /\ i + d < j + d
      BY <1>d, <1>n, <2>4 DEF IsData
    <3> QED
      BY <2>1, <2>4, <3>1 DEF Queued
  <2>5. ASSUME NEW m \in piped', Used(m)', msg'[m].by = msg'[pipe'[i].n].by PROVE m < pipe'[i].n
    <3>1. m \in piped /\ m \in Nat
      BY <1>t DEF BookInv
    <3>2. Used(m)
      BY <2>5, <3>1
    <3> QED
      BY <2>1, <2>5, <3>1, <3>2 DEF Queued
  <2> QED
    BY <2>2, <2>3, <2>4, <2>5 DEF Queued
<1>3. \A n \in Nat : Used(n)' => n \in DOMAIN msg'
  BY DEF BookInv
<1>4. (\A n \in DOMAIN msg' : msg'[n].by \in Sender) /\ piped' \subseteq DOMAIN msg'
  BY DEF BookInv
<1> QED
  BY <1>1, <1>2, <1>3, <1>4 DEF BookInv

\* send_socket takes message n of the pipe
Takes(c, n, s) ==
    /\ n = Head(pipe).n /\ n \in Nat /\ n \in DOMAIN msg /\ Head(pipe).id = msg[n].to /\ s = HashId(msg[n].to)
    /\ pipe # <<>> /\ Head(pipe) = pipe[1] /\ 1 \in DOMAIN pipe /\ pipe[1].c = c /\ pipe' = Tail(pipe)
    /\ UNCHANGED <<msg, piped, wk, wire, poll>> /\ poll.pc = "top"

\* ... and puts it into a list
Lists(c, n, s) ==
    /\ Valid(msg[n].to) /\ listed' = listed \cup {n} /\ (sock[s].type = "RESERVE" => msg[n].to \in raced')
    /\ \/ sock'[s].high = sock[s].high \o Units(n) /\ sock'[s].low = sock[s].low
       \/ sock'[s].high = sock[s].high /\ sock'[s].low = sock[s].low \o Units(n) /\ c = "P"
    /\ sock'[s].id = sock[s].id /\ sock'[s].fd = sock[s].fd /\ sock'[s].dw = sock[s].dw
    /\ sock'[s].type = sock[s].type /\ sock'[s].lock = sock[s].lock
    /\ \A t \in Slot \ {s} : sock'[t] = sock[t]

\* send_socket puts the message into a list or drops it.
LEMMA SendSocketForm ==
  ASSUME SocketType, NEW c \in {"D", "P"}, SendSocket(c)
  PROVE  \E n \in Nat, s \in Slot : Takes(c, n, s) /\ ((sock' = sock /\ listed' = listed) \/ Lists(c, n, s))
<1>1. Cmd(c) /\ UNCHANGED <<poll, wire>> /\ poll.pc = "top"
  BY DEF SendSocket, Cmd
<1>2. /\ Head(pipe).id \in Id /\ HashId(Head(pipe).id) \in Slot
      /\ UNCHANGED <<msg, piped, wk>> /\ pipe # <<>> /\ pipe' = Tail(pipe)
  BY <1>1, CommandSlot
<1>3. Head(pipe) = pipe[1] /\ 1 \in DOMAIN pipe /\ Head(pipe).c = c
  BY <1>1 DEF Cmd, SocketType, PipeTyped
<1>4. Head(pipe).n \in DOMAIN msg /\ msg[Head(pipe).n].to = Head(pipe).id
  BY <1>3 DEF SocketType, PipeTyped
<1>n. PICK n \in Nat : n = Head(pipe).n /\ n \in DOMAIN msg /\ Head(pipe).id = msg[n].to
  BY <1>4, BookTypes
<1>s. PICK s \in Slot : s = HashId(msg[n].to)
  BY <1>2, <1>n
<1>5. Takes(c, n, s)
  BY <1>1, <1>2, <1>3, <1>n, <1>s DEF Takes
<1>6. CASE sock' = sock /\ listed' = listed
  BY SMTT(40), <1>5, <1>6
<1>r. Valid(msg[n].to) /\ sock[s].type = "RESERVE" => msg[n].to \in raced'
  BY <1>n, <1>s DEF SendSocket, Stolen
<1>7. ASSUME Valid(msg[n].to), listed' = listed \cup {n}, NEW first,
             sock' = IF c = "D" \/ first
                     THEN [sock EXCEPT ![s].high = @ \o Units(n), ![s].wr = @ \/ first]
                     ELSE [sock EXCEPT ![s].low = @ \o Units(n)]
      PROVE  Lists(c, n, s)
  <2>0. sock[s] \in SockType
    BY SMTT(40) DEF SocketType, SocketsTyped
  <2>1. CASE sock' = [sock EXCEPT ![s].high = @ \o Units(n), ![s].wr = @ \/ first]
    <3>1. /\ sock'[s].high = sock[s].high \o Units(n) /\ sock'[s].low = sock[s].low
          /\ sock'[s].id = sock[s].id /\ sock'[s].fd = sock[s].fd /\ sock'[s].dw = sock[s].dw
          /\ sock'[s].type = sock[s].type /\ sock'[s].lock = sock[s].lock
          /\ \A t \in Slot \ {s} : sock'[t] = sock[t]
      BY SMTT(40), <2>1 DEF SocketType, SocketsTyped, SockType
    <3> QED
      BY <1>7, <1>r, <3>1 DEF Lists
  <2>2. CASE c # "D" /\ sock' = [sock EXCEPT ![s].low = @ \o Units(n)]
    <3>1. /\ sock'[s].high = sock[s].high /\ sock'[s].low = sock[s].low \o Units(n)
          /\ sock'[s].id = sock[s].id /\ sock'[s].fd = sock[s].fd /\ sock'[s].dw = sock[s].dw
          /\ sock'[s].type = sock[s].type /\ sock'[s].lock = sock[s].lock
          /\ \A t \in Slot \ {s} : sock'[t] = sock[t]
      BY <2>2 DEF SocketType, SocketsTyped, SockType
    <3> QED
      BY <1>7, <1>r, <2>2, <3>1 DEF Lists
  <2> QED
    BY <1>7, <2>1, <2>2
<1>8. (sock' = sock /\ listed' = listed) \/ Lists(c, n, s)
  BY <1>7, <1>n, <1>s, ZenonT(60) DEF SendSocket
<1> QED
  BY SMTT(40), <1>5, <1>8

\* A direct write of worker w took u of message n and leaves r.
Writes(w, n, s, u, r) ==
    /\ Units(n) = u \o r /\ CanDirectWrite(msg[n].to)
    /\ \A id \in Id : wire'[id] = IF id = sock[s].fd THEN wire[id] \o u ELSE wire[id]
    /\ \/ r = <<>> /\ sock' = [sock EXCEPT ![s].lock = Nobody] /\ wk' = [wk EXCEPT ![w] = Idle]
       \/ sock' = sock /\ wk' = [wk EXCEPT ![w] = [pc |-> "store", n |-> n, rest |-> r]]

Works(w, n, s) == wk[w].n = n /\ n \in DOMAIN msg /\ s = HashId(msg[n].to)

\* A worker that sends has a message and a slot.
LEMMA WorksOn ==
  ASSUME SocketType, NEW w \in Worker, Busy(w)
  PROVE  \E n \in Nat, s \in Slot : Works(w, n, s)
<1>1. wk[w].n \in DOMAIN msg /\ wk[w].n \in Nat
  BY BookTypes
<1>2. msg[wk[w].n] \in MsgType
  BY <1>1 DEF SocketType
<1>3. msg[wk[w].n].to \in Id /\ msg[wk[w].n].to \in Nat
  BY <1>2 DEF MsgType, Id
<1> QED
  BY <1>1, <1>3, HashSlot DEF Works

\* A direct write writes a part of the message, or finds that it must not.
LEMMA DirectWriteForm ==
  ASSUME SocketType, NEW w \in Worker, DirectWrite(w), NEW n \in Nat, NEW s \in Slot, Works(w, n, s)
  PROVE  \/ /\ ~CanDirectWrite(msg[n].to) /\ wire' = wire
            /\ sock' = [sock EXCEPT ![s].lock = Nobody] /\ wk' = [wk EXCEPT ![w].pc = "post"]
         \/ \E u, r \in Seq(Unit) : Writes(w, n, s, u, r)
<1>1. Units(n) \in Seq(Unit) /\ Len(Units(n)) = 2
  BY OfUnits
<1>2. ASSUME CanDirectWrite(msg[n].to), NEW k \in 0..2, wire' = [wire EXCEPT ![sock[s].fd] = @ \o SubSeq(Units(n), 1, k)],
             IF k = 2
             THEN sock' = [sock EXCEPT ![s].lock = Nobody] /\ wk' = [wk EXCEPT ![w] = Idle]
             ELSE /\ wk' = [wk EXCEPT ![w] = [pc |-> "store", n |-> n, rest |-> SubSeq(Units(n), k + 1, 2)]]
                  /\ UNCHANGED sock
      PROVE  \E u, r \in Seq(Unit) : Writes(w, n, s, u, r)
  <2>1. k \in Nat /\ k <= Len(Units(n))
    BY <1>1
  <2>u. PICK u \in Seq(Unit) : u = SubSeq(Units(n), 1, k)
    BY <1>1, <2>1, Split
  <2>r. PICK r \in Seq(Unit) : r = SubSeq(Units(n), k + 1, 2)
    BY <1>1, <2>1, Split
  <2>2. Units(n) = u \o r
    <3>1. Units(n) = SubSeq(Units(n), 1, k) \o SubSeq(Units(n), k + 1, Len(Units(n)))
      BY <1>1, <2>1, Split
    <3> QED
      BY <1>1, <2>u, <2>r, <3>1, Zenon
  <2>3. wire' = [wire EXCEPT ![sock[s].fd] = @ \o u]
    BY <1>2, <2>u
  <2>4. \A id \in Id : wire'[id] = IF id = sock[s].fd THEN wire[id] \o u ELSE wire[id]
    BY <2>3, WireWritten
  <2>5. CASE k = 2
    <3>1. r = <<>>
      BY <2>5, <2>r, SubSeqEmpty
    <3>2. Writes(w, n, s, u, r)
      BY <1>2, <2>2, <2>4, <2>5, <3>1 DEF Writes
    <3> QED
      BY <3>2
  <2>6. CASE k # 2
    <3>1. sock' = sock /\ wk' = [wk EXCEPT ![w] = [pc |-> "store", n |-> n, rest |-> r]]
      BY <1>2, <2>6, <2>r
    <3>2. Writes(w, n, s, u, r)
      BY <1>2, <2>2, <2>4, <3>1 DEF Writes
    <3> QED
      BY <3>2
  <2> QED
    BY <2>5, <2>6
<1>3. CASE /\ CanDirectWrite(msg[n].to)
           /\ \E k \in 0..2 :
             /\ wire' = [wire EXCEPT ![sock[s].fd] = @ \o SubSeq(Units(n), 1, k)]
             /\ IF k = 2
                THEN /\ sock' = [sock EXCEPT ![s].lock = Nobody]
                     /\ wk' = [wk EXCEPT ![w] = Idle]
                ELSE /\ wk' = [wk EXCEPT ![w] = [pc |-> "store", n |-> n,
                                                 rest |-> SubSeq(Units(n), k + 1, 2)]]
                     /\ UNCHANGED sock
  BY <1>2, <1>3
<1>4. CASE /\ ~CanDirectWrite(msg[n].to) /\ wire' = wire
           /\ sock' = [sock EXCEPT ![s].lock = Nobody] /\ wk' = [wk EXCEPT ![w].pc = "post"]
  BY <1>4
<1> QED
  BY <1>3, <1>4, ZenonT(60) DEF DirectWrite, Works

\* What is used after a step that adds nothing was used before.
LEMMA UsedLoses ==
  ASSUME Loses, NEW n \in Nat, Used(n)'
  PROVE  Used(n)
<1>0. \A list : list = <<>> => n \notin Of(list)
  BY OfEmpty
<1>1. CASE \E id \in Id : n \in Of(wire'[id])
  BY <1>1 DEF Loses, Used
<1>2. CASE \E s \in Slot : n \in Of(sock'[s].dw) \/ n \in Of(sock'[s].high) \/ n \in Of(sock'[s].low)
  <2>1. PICK s \in Slot : n \in Of(sock'[s].dw) \/ n \in Of(sock'[s].high) \/ n \in Of(sock'[s].low)
    BY <1>2
  <2>2. Lesser(s)
    BY DEF Loses
  <2>3. Queues(n, s)
    BY <1>0, <2>1, <2>2 DEF Lesser, Queues
  <2> QED
    BY <2>3 DEF Used
<1> QED
  BY <1>1, <1>2 DEF Used, Queues, Of

\* What is used after dw_buffer moved was used before.
LEMMA UsedFetches ==
  ASSUME SocketType, NEW s \in Slot, Fetches(s), NEW n \in Nat, Used(n)'
  PROVE  Used(n)
<1>0. /\ sock'[s].dw = <<>> /\ sock'[s].high = sock[s].dw \o sock[s].high /\ sock'[s].low = sock[s].low
      /\ \A t \in Slot \ {s} : sock'[t] = sock[t]
  BY ZenonT(60) DEF Fetches, SocketType, SocketsTyped, SockType
<1>1. Of(sock'[s].high) = Of(sock[s].dw) \cup Of(sock[s].high) /\ Of(sock'[s].dw) = {}
  BY <1>0, BookTypes, OfConcat, OfEmpty
<1>2. CASE \E id \in Id : n \in Of(wire'[id])
  BY <1>2 DEF Fetches, Used
<1>3. CASE \E t \in Slot : n \in Of(sock'[t].dw) \/ n \in Of(sock'[t].high) \/ n \in Of(sock'[t].low)
  BY <1>0, <1>1, <1>3 DEF Used, Queues
<1> QED
  BY <1>2, <1>3 DEF Used, Queues, Of

\* What send_buffer writes and leaves was in the lists.
LEMMA SentOf ==
  ASSUME SocketType, NEW s \in Slot, NEW u \in Seq(Unit), NEW h \in Seq(Unit), NEW l \in Seq(Unit), Sent(s, u, h, l)
  PROVE  /\ Of(u) \subseteq Of(sock[s].high) \cup Of(sock[s].low)
         /\ Of(h) \subseteq Of(sock[s].high) \cup Of(sock[s].low)
         /\ Of(l) \subseteq Of(sock[s].low)
<1>1. CASE sock[s].high = u \o h /\ l = sock[s].low
  BY <1>1, OfConcat
<1>2. CASE \E p \in Seq(Unit) : u = sock[s].high \o p /\ sock[s].low = (p \o h) \o l
  <2>1. PICK p \in Seq(Unit) : u = sock[s].high \o p /\ sock[s].low = (p \o h) \o l
    BY <1>2
  <2>2. p \o h \in Seq(Unit) /\ sock[s].high \in Seq(Unit)
    BY BookTypes
  <2>3. Of(u) = Of(sock[s].high) \cup Of(p)
    BY <2>1, <2>2, OfConcat
  <2>4. Of(p \o h) = Of(p) \cup Of(h)
    BY OfConcat
  <2>5. Of((p \o h) \o l) = Of(p \o h) \cup Of(l)
    BY <2>2, OfConcat
  <2> QED
    BY <2>1, <2>3, <2>4, <2>5, Zenon
<1> QED
  BY <1>1, <1>2 DEF Sent

\* What is used after a write from the lists was used before.
LEMMA UsedSent ==
  ASSUME SocketType, NEW s \in Slot, NEW u \in Seq(Unit), NEW h \in Seq(Unit), NEW l \in Seq(Unit), Sent(s, u, h, l),
         NEW n \in Nat, Used(n)'
  PROVE  Used(n)
<1>0. /\ Of(u) \subseteq Of(sock[s].high) \cup Of(sock[s].low)
      /\ Of(h) \subseteq Of(sock[s].high) \cup Of(sock[s].low)
      /\ Of(l) \subseteq Of(sock[s].low)
  BY SentOf
<1>2. CASE \E id \in Id : n \in Of(wire'[id])
  <2>1. PICK id \in Id : n \in Of(wire'[id])
    BY <1>2
  <2>2. wire'[id] = IF id = sock[s].fd THEN wire[id] \o u ELSE wire[id]
    BY DEF Sent
  <2>3. n \in Of(wire[id]) \/ n \in Of(u)
    BY <2>1, <2>2, BookTypes, OfConcat
  <2> QED
    BY <1>0, <2>3 DEF Used, Queues
<1>3. CASE \E t \in Slot : n \in Of(sock'[t].dw) \/ n \in Of(sock'[t].high) \/ n \in Of(sock'[t].low)
  <2>1. PICK t \in Slot : n \in Of(sock'[t].dw) \/ n \in Of(sock'[t].high) \/ n \in Of(sock'[t].low)
    BY <1>3
  <2>2. CASE t # s
    BY <2>1, <2>2 DEF Sent, Used, Queues
  <2>3. CASE t = s
    <3>1. n \in Of(sock[s].dw) \/ n \in Of(h) \/ n \in Of(l)
      BY <2>1, <2>3, OfEmpty DEF Sent
    <3>2. Queues(n, s)
      BY <1>0, <3>1 DEF Queues
    <3> QED
      BY <3>2 DEF Used
  <2> QED
    BY <2>2, <2>3
<1> QED
  BY <1>2, <1>3 DEF Used, Queues, Of

\* Units of the message at which worker w is are written or stored.
LEMMA BookWrites ==
  ASSUME SocketType, BookInv, UNCHANGED <<msg, piped, pipe>>, NEW w \in Worker, NEW n \in Nat, Busy(w), wk[w].n = n,
         \A v \in Worker \ {w} : wk'[v] = wk[v],
         ~Busy(w)' \/ (wk'[w].pc = "store" /\ wk'[w].n = n /\ Of(wk'[w].rest) \subseteq {n}),
         \A m \in Nat : Used(m)' => Used(m) \/ m = n
  PROVE  BookInv'
<1>t. DOMAIN msg \subseteq Nat /\ \A v \in Worker : Busy(v) => wk[v].n \in DOMAIN msg
  BY BookTypes
<1>0. n \in DOMAIN msg /\ msg[n].by = w /\ n \notin piped /\ \A m \in DOMAIN msg : msg[m].by = w => m <= n
  BY <1>t DEF BookInv, Sending
<1>1. ASSUME NEW v \in Worker, v # w PROVE Sending(v)'
  <2>1. Sending(v) /\ wk'[v] = wk[v]
    BY <1>1 DEF BookInv
  <2>2. Busy(v)' <=> Busy(v)
    BY <2>1 DEF Busy
  <2>3. Unsent(v)' <=> Unsent(v)
    BY <2>1 DEF Unsent
  <2>4. Unsent(v) => Busy(v) /\ wk[v].n # n /\ wk[v].n \in Nat /\ ~Used(wk[v].n)
    BY <1>0, <1>1, <1>t, <2>1 DEF Sending, Busy, Unsent
  <2>5. Unsent(v) => ~Used(wk[v].n)'
    <3>1. \A m \in Nat : m = wk[v].n /\ Used(m) => Used(wk[v].n)
      OBVIOUS
    <3>2. \A m \in Nat : m = wk'[v].n => (Used(m)' <=> Used(wk[v].n)')
      BY DEF Used, Queues
    <3> QED
      BY <2>1, <2>4, <3>1, <3>2
  <2>6. Busy(v)' => /\ msg'[wk'[v].n].by = v /\ wk'[v].n \notin piped'
                    /\ \A m \in DOMAIN msg' : msg'[m].by = v => m <= wk'[v].n
    BY <2>1, <2>2 DEF Sending
  <2>7. wk'[v].pc = "store" => Of(wk'[v].rest) \subseteq {wk'[v].n}
    BY <2>1 DEF Sending
  <2> QED
    BY <2>3, <2>5, <2>6, <2>7 DEF Sending, Of
<1>2. Sending(w)'
  <2>1. Busy(w)' => wk'[w].pc = "store" /\ wk'[w].n = n /\ Of(wk'[w].rest) \subseteq {n}
    OBVIOUS
  <2>2. wk'[w].pc = "store" => Busy(w)'
    BY DEF Busy
  <2>3. ~Unsent(w)'
    BY <2>1 DEF Unsent, Busy
  <2>4. Busy(w)' => /\ msg'[wk'[w].n].by = w /\ wk'[w].n \notin piped'
                    /\ \A m \in DOMAIN msg' : msg'[m].by = w => m <= wk'[w].n
    BY <1>0, <2>1
  <2> QED
    BY <2>1, <2>2, <2>3, <2>4 DEF Sending, Of
<1>3. ASSUME NEW i \in DOMAIN pipe', IsData(pipe'[i]) PROVE Queued(i)'
  <2>1. IsData(pipe[i]) /\ Queued(i) /\ pipe'[i] = pipe[i]
    BY <1>3 DEF BookInv, IsData
  <2>2. pipe[i].n # n /\ pipe[i].n \in Nat /\ ~Used(pipe[i].n)
    BY <1>0, <1>t, <2>1 DEF Queued, BookInv
  <2>3. ~Used(pipe[i].n)'
    <3>1. \A m \in Nat : m = pipe[i].n /\ Used(m) => Used(pipe[i].n)
      OBVIOUS
    <3>2. \A m \in Nat : m = pipe'[i].n => (Used(m)' <=> Used(pipe[i].n)')
      BY DEF Used, Queues
    <3> QED
      BY <2>1, <2>2, <3>1, <3>2
  <2>4. ASSUME NEW m \in piped', Used(m)', msg'[m].by = msg'[pipe'[i].n].by PROVE m < pipe'[i].n
    <3>1. m \in piped /\ m \in Nat /\ m # n
      BY <1>0, <1>t DEF BookInv
    <3>2. Used(m)
      BY <2>4, <3>1
    <3> QED
      BY <2>1, <2>4, <3>1, <3>2 DEF Queued
  <2>5. /\ pipe'[i].n \in piped'
        /\ pipe'[i].c = "P" => msg'[pipe'[i].n].low
        /\ \A j \in DOMAIN pipe' : IsData(pipe'[j]) /\ i < j /\ msg'[pipe'[i].n].by = msg'[pipe'[j].n].by => pipe'[i].n < pipe'[j].n
    BY <2>1 DEF Queued
  <2> QED
    BY <2>3, <2>4, <2>5 DEF Queued, IsData
<1>4. \A m \in Nat : Used(m)' => m \in DOMAIN msg'
  BY <1>0 DEF BookInv
<1>5. (\A m \in DOMAIN msg' : msg'[m].by \in Sender) /\ piped' \subseteq DOMAIN msg'
  BY DEF BookInv
<1>6. \A v \in Worker : Sending(v)'
  BY <1>1, <1>2
<1> QED
  BY <1>3, <1>4, <1>5, <1>6 DEF BookInv

\* Message n, the last of w so far and not used yet, is sent: it goes into the
\* pipe, or w goes on with it, or it is dropped.
Sends(w, n, r) ==
    /\ UNCHANGED <<sock, wire, listed, poll>>
    /\ ~Used(n) /\ n \notin piped /\ n \in DOMAIN msg' /\ msg'[n].by = w
    /\ \A m \in DOMAIN msg : m \in DOMAIN msg' /\ msg'[m] = msg[m]
    /\ \A m \in DOMAIN msg' : m \in DOMAIN msg \/ m = n
    /\ \A m \in DOMAIN msg : msg[m].by = w => m <= n
    /\ \A v \in Worker \ {w} : wk'[v] = wk[v]
    /\ wk[w].pc # "store" /\ r.n = n /\ (r.c = "P" => msg'[n].low) /\ IsData(r)
    /\ \/ ~Busy(w)'
       \/ Unsent(w)' /\ wk'[w].n = n /\ piped' = piped
    /\ \/ pipe' = pipe /\ piped' = piped
       \/ pipe' = Append(pipe, r) /\ piped' = piped \cup {n}

\* Sending keeps the books.
LEMMA BookSends ==
  ASSUME SocketType, BookInv, NEW w \in Sender, NEW n \in Nat, NEW r \in RequestType, Sends(w, n, r)
  PROVE  BookInv'
<1> USE DEF Sends
<1>t. DOMAIN msg \subseteq Nat /\ \A v \in Worker : Busy(v) => wk[v].n \in DOMAIN msg
  BY BookTypes
<1>u. \A m \in Nat : Used(m)' <=> Used(m)
  BY DEF Used, Queues
<1>w. w \in Worker
  BY DEF Worker
<1>q. piped' \subseteq piped \cup {n}
  OBVIOUS
<1>1. ASSUME NEW v \in Worker, v # w PROVE Sending(v)'
  <2>1. Sending(v) /\ wk'[v] = wk[v]
    BY <1>1 DEF BookInv
  <2>2. Busy(v)' <=> Busy(v)
    BY <2>1 DEF Busy
  <2>3. Unsent(v)' <=> Unsent(v)
    BY <2>1 DEF Unsent
  <2>4. Busy(v) => wk[v].n \in DOMAIN msg /\ msg[wk[v].n].by = v /\ wk[v].n # n
    BY <1>1, <1>t, <2>1 DEF Sending
  <2>5. Unsent(v) => ~Used(wk[v].n)'
    <3>1. Unsent(v) => wk[v].n \in Nat /\ ~Used(wk[v].n)
      BY <1>t, <2>1 DEF Sending, Busy, Unsent
    <3>2. \A m \in Nat : m = wk[v].n /\ Used(m) => Used(wk[v].n)
      OBVIOUS
    <3>3. \A m \in Nat : m = wk'[v].n => (Used(m)' <=> Used(wk[v].n)')
      BY DEF Used, Queues
    <3> QED
      BY <1>u, <2>1, <3>1, <3>2, <3>3
  <2>6. Busy(v)' => msg'[wk'[v].n].by = v /\ wk'[v].n \notin piped'
    BY <1>q, <2>1, <2>2, <2>4 DEF Sending
  <2>7. Busy(v)' => \A m \in DOMAIN msg' : msg'[m].by = v => m <= wk'[v].n
    BY <1>1, <2>1, <2>2 DEF Sending
  <2>8. wk'[v].pc = "store" => Of(wk'[v].rest) \subseteq {wk'[v].n}
    BY <2>1 DEF Sending
  <2> QED
    BY <2>3, <2>5, <2>6, <2>7, <2>8 DEF Sending, Of
<1>2. Sending(w)'
  <2>1. Busy(w)' => Unsent(w)' /\ wk'[w].n = n /\ piped' = piped
    OBVIOUS
  <2>2. wk'[w].pc = "store" => Busy(w)' /\ ~Unsent(w)'
    BY DEF Busy, Unsent
  <2>3. Unsent(w)' => Busy(w)'
    BY DEF Busy, Unsent
  <2>4. Unsent(w)' => ~Used(wk[w].n)'
    <3>1. \A m \in Nat : m = wk'[w].n => (Used(m)' <=> Used(wk[w].n)')
      BY DEF Used, Queues
    <3> QED
      BY <1>u, <2>1, <2>3, <3>1
  <2>5. Busy(w)' => /\ msg'[wk'[w].n].by = w /\ wk'[w].n \notin piped'
                    /\ \A m \in DOMAIN msg' : msg'[m].by = w => m <= wk'[w].n
    BY <2>1
  <2> QED
    BY <2>1, <2>2, <2>4, <2>5 DEF Sending, Of
<1>p. ASSUME NEW i \in DOMAIN pipe'
      PROVE  \/ i \in DOMAIN pipe /\ pipe'[i] = pipe[i]
             \/ i = Len(pipe) + 1 /\ pipe'[i] = r /\ piped' = piped \cup {n}
  BY SMTT(40) DEF SocketType, PipeTyped
<1>l. DOMAIN pipe = 1..Len(pipe) /\ Len(pipe) \in Nat
  BY DEF SocketType, PipeTyped
<1>3. ASSUME NEW i \in DOMAIN pipe', IsData(pipe'[i]), i \in DOMAIN pipe, pipe'[i] = pipe[i] PROVE Queued(i)'
  <2>1. IsData(pipe[i]) /\ Queued(i)
    BY <1>3 DEF BookInv, IsData
  <2>2. pipe[i].n # n /\ pipe[i].n \in Nat /\ ~Used(pipe[i].n) /\ pipe[i].n \in DOMAIN msg /\ pipe[i].n \in piped
    BY <1>t, <2>1 DEF Queued, BookInv
  <2>3. ~Used(pipe[i].n)'
    <3>1. \A m \in Nat : m = pipe[i].n /\ Used(m) => Used(pipe[i].n)
      OBVIOUS
    <3>2. \A m \in Nat : m = pipe'[i].n => (Used(m)' <=> Used(pipe[i].n)')
      BY DEF Used, Queues
    <3> QED
      BY <1>u, <1>3, <2>2, <3>1, <3>2
  <2>4. ASSUME NEW m \in piped', Used(m)', msg'[m].by = msg'[pipe'[i].n].by PROVE m < pipe'[i].n
    <3>0. m # n
      BY <1>u, <2>4
    <3>1. m \in piped /\ m \in Nat /\ m \in DOMAIN msg
      BY <1>q, <1>t, <3>0 DEF BookInv
    <3>2. Used(m)
      BY <1>u, <2>4, <3>1
    <3> QED
      BY <1>3, <2>1, <2>2, <2>4, <3>1, <3>2 DEF Queued
  <2>5. ASSUME NEW j \in DOMAIN pipe', IsData(pipe'[j]), i < j, msg'[pipe'[i].n].by = msg'[pipe'[j].n].by
        PROVE  pipe'[i].n < pipe'[j].n
    <3>1. CASE j \in DOMAIN pipe /\ pipe'[j] = pipe[j]
      <4>1. IsData(pipe[j]) /\ Queued(j)
        BY <2>5, <3>1 DEF IsData, BookInv
      <4>2. pipe[j].n \in DOMAIN msg
        BY <4>1 DEF Queued, BookInv
      <4> QED
        BY <1>3, <2>1, <2>2, <2>5, <3>1, <4>1, <4>2 DEF Queued
    <3>2. CASE pipe'[j] = r
      <4>1. msg[pipe[i].n].by = w
        BY <1>3, <2>2, <2>5, <3>2
      <4> QED
        BY <1>3, <1>t, <2>2, <3>2, <4>1
    <3> QED
      BY <1>p, <3>1, <3>2
  <2>6. pipe'[i].n \in piped' /\ (pipe'[i].c = "P" => msg'[pipe'[i].n].low)
    BY <1>3, <2>1, <2>2 DEF Queued
  <2> QED
    BY <2>3, <2>4, <2>5, <2>6 DEF Queued, IsData
<1>4. ASSUME NEW i \in DOMAIN pipe', i = Len(pipe) + 1, pipe'[i] = r, piped' = piped \cup {n} PROVE Queued(i)'
  <2>1. ~Used(pipe[i].n)'
    <3>2. \A m \in Nat : m = pipe'[i].n => (Used(m)' <=> Used(pipe[i].n)')
      BY DEF Used, Queues
    <3> QED
      BY <1>u, <1>4, <3>2
  <2>2. \A j \in DOMAIN pipe' : ~(i < j)
    BY <1>4, <1>p, <1>l
  <2>3. ASSUME NEW m \in piped', Used(m)', msg'[m].by = msg'[pipe'[i].n].by PROVE m < pipe'[i].n
    <3>0. m # n
      BY <1>u, <2>3
    <3>1. m \in piped /\ m \in Nat /\ m \in DOMAIN msg
      BY <1>q, <1>t, <3>0 DEF BookInv
    <3> QED
      BY <1>4, <2>3, <3>0, <3>1
  <2> QED
    BY <1>4, <2>1, <2>2, <2>3 DEF Queued
<1>5. \A m \in Nat : Used(m)' => m \in DOMAIN msg'
  BY <1>u DEF BookInv
<1>6. (\A m \in DOMAIN msg' : msg'[m].by \in Sender) /\ piped' \subseteq DOMAIN msg'
  BY <1>q DEF BookInv
<1>7. \A v \in Worker : Sending(v)'
  BY <1>1, <1>2
<1>8. ASSUME NEW i \in DOMAIN pipe', IsData(pipe'[i]) PROVE Queued(i)'
  BY <1>p, <1>3, <1>4, <1>8
<1> QED
  BY <1>5, <1>6, <1>7, <1>8 DEF BookInv

\* send_socket takes the first message of the pipe.
LEMMA BookTakes ==
  ASSUME SocketType, BookInv, NEW c \in {"D", "P"}, NEW n \in Nat, NEW s \in Slot, Takes(c, n, s),
         \A m \in Nat : Used(m)' => Used(m) \/ m = n
  PROVE  BookInv'
<1>t. DOMAIN msg \subseteq Nat /\ \A v \in Worker : Busy(v) => wk[v].n \in DOMAIN msg
  BY BookTypes
<1>0. /\ 1 \in DOMAIN pipe /\ pipe[1].n = n /\ IsData(pipe[1]) /\ Queued(1) /\ n \in DOMAIN msg
      /\ UNCHANGED <<msg, piped, wk>>
  BY DEF Takes, IsData, BookInv
<1>q. n \in piped /\ ~Used(n)
  BY <1>0 DEF Queued, Used, Queues
<1>p. ASSUME NEW i \in DOMAIN pipe' PROVE i + 1 \in DOMAIN pipe /\ pipe'[i] = pipe[i + 1] /\ 1 < i + 1
  BY DEF Takes, SocketType, PipeTyped
<1>n. DOMAIN pipe' \subseteq Nat
  BY DEF Takes, SocketType, PipeTyped
<1>1. ASSUME NEW v \in Worker PROVE Sending(v)'
  <2>1. Sending(v) /\ wk'[v] = wk[v]
    BY <1>0 DEF BookInv
  <2>5. Unsent(v) => ~Used(wk[v].n)'
    <3>1. Unsent(v) => wk[v].n \in Nat /\ ~Used(wk[v].n) /\ wk[v].n # n
      BY <1>q, <1>t, <2>1 DEF Sending, Busy, Unsent
    <3>2. \A m \in Nat : m = wk[v].n /\ Used(m) => Used(wk[v].n)
      OBVIOUS
    <3>3. \A m \in Nat : m = wk'[v].n => (Used(m)' <=> Used(wk[v].n)')
      BY DEF Used, Queues
    <3> QED
      BY <2>1, <3>1, <3>2, <3>3
  <2>6. Busy(v)' => /\ msg'[wk'[v].n].by = v /\ wk'[v].n \notin piped'
                    /\ \A m \in DOMAIN msg' : msg'[m].by = v => m <= wk'[v].n
    BY <1>0, <2>1 DEF Sending, Busy
  <2>7. wk'[v].pc = "store" => Of(wk'[v].rest) \subseteq {wk'[v].n}
    BY <2>1 DEF Sending
  <2>8. Unsent(v)' <=> Unsent(v)
    BY <2>1 DEF Unsent
  <2> QED
    BY <2>5, <2>6, <2>7, <2>8 DEF Sending, Of
<1>3. ASSUME NEW i \in DOMAIN pipe', IsData(pipe'[i]) PROVE Queued(i)'
  <2>1. i + 1 \in DOMAIN pipe /\ pipe'[i] = pipe[i + 1] /\ IsData(pipe[i + 1]) /\ Queued(i + 1)
    BY <1>3, <1>p DEF BookInv, IsData
  <2>2. pipe'[i].n \in Nat /\ ~Used(pipe[i + 1].n) /\ pipe'[i].n \in piped
    BY <1>t, <2>1 DEF Queued, BookInv
  <2>3. msg[n].by = msg[pipe'[i].n].by => n < pipe'[i].n
    BY <1>0, <1>p, <2>1 DEF Queued
  <2>4. pipe'[i].n # n
    BY <2>3
  <2>5. ~Used(pipe[i].n)'
    <3>1. \A m \in Nat : m = pipe[i + 1].n /\ Used(m) => Used(pipe[i + 1].n)
      OBVIOUS
    <3>2. \A m \in Nat : m = pipe'[i].n => (Used(m)' <=> Used(pipe[i].n)')
      BY DEF Used, Queues
    <3> QED
      BY <2>1, <2>2, <2>4, <3>1, <3>2
  <2>6. ASSUME NEW m \in piped', Used(m)', msg'[m].by = msg'[pipe'[i].n].by PROVE m < pipe'[i].n
    <3>1. m \in piped /\ m \in Nat
      BY <1>0, <1>t DEF BookInv
    <3>2. Used(m) \/ m = n
      BY <2>6, <3>1
    <3> QED
      BY <1>0, <2>1, <2>3, <2>6, <3>1, <3>2 DEF Queued
  <2>7. ASSUME NEW j \in DOMAIN pipe', IsData(pipe'[j]), i < j, msg'[pipe'[i].n].by = msg'[pipe'[j].n].by
        PROVE  pipe'[i].n < pipe'[j].n
    <3>1. j + 1 \in DOMAIN pipe /\ pipe'[j] = pipe[j + 1] /\ IsData(pipe[j + 1]) /\ i + 1 < j + 1
      BY <1>n, <1>p, <2>7 DEF IsData
    <3> QED
      BY <1>0, <2>1, <2>7, <3>1 DEF Queued
  <2>8. pipe'[i].n \in piped' /\ (pipe'[i].c = "P" => msg'[pipe'[i].n].low)
    BY <1>0, <2>1 DEF Queued
  <2> QED
    BY <2>5, <2>6, <2>7, <2>8 DEF Queued, IsData
<1>4. \A m \in Nat : Used(m)' => m \in DOMAIN msg'
  BY <1>0 DEF BookInv
<1>5. (\A m \in DOMAIN msg' : msg'[m].by \in Sender) /\ piped' \subseteq DOMAIN msg'
  BY <1>0 DEF BookInv
<1> QED
  BY <1>1, <1>3, <1>4, <1>5 DEF BookInv

\* A new message is unused and the last of its sender.
LEMMA NewMessageForm ==
  ASSUME SocketType, BookInv, NEW w \in Sender, NEW id \in Id, NEW low \in BOOLEAN, NewMessage(w, id, low)
  PROVE  \E n \in Nat :
           /\ n = Len(msg) + 1 /\ ~Used(n) /\ n \notin piped /\ n \in DOMAIN msg' /\ msg'[n].by = w
           /\ msg'[n].low = low /\ msg'[n].to = id
           /\ \A m \in DOMAIN msg : m \in DOMAIN msg' /\ msg'[m] = msg[m]
           /\ \A m \in DOMAIN msg' : m \in DOMAIN msg \/ m = n
           /\ \A m \in DOMAIN msg : m <= n
<1>n. PICK n \in Nat : n = Len(msg) + 1
  BY DEF SocketType
<1>r. PICK r \in MsgType : r = [by |-> w, to |-> id, low |-> low]
  BY DEF MsgType, Worker
<1>1. msg' = Append(msg, r) /\ msg \in Seq(MsgType)
  BY <1>r DEF NewMessage, SocketType
<1>2. /\ n \in DOMAIN msg' /\ msg'[n] = r
      /\ \A i \in DOMAIN msg : i \in DOMAIN msg' /\ msg'[i] = msg[i]
      /\ \A i \in DOMAIN msg' : i \in DOMAIN msg \/ i = n
      /\ n \notin DOMAIN msg
      /\ \A i \in DOMAIN msg : i <= n
  BY <1>1, <1>n
<1>3. ~Used(n) /\ n \notin piped
  BY <1>2 DEF BookInv
<1>4. msg'[n].by = w /\ msg'[n].low = low /\ msg'[n].to = id
  BY <1>2, <1>r
<1> QED
  BY <1>n, <1>2, <1>3, <1>4

\* socket_server_send_lowpriority sends a new message through the pipe.
LEMMA SendLowForm ==
  ASSUME SocketType, BookInv, NEW w \in Sender, NEW id \in Id, SendLow(w, id)
  PROVE  \E n \in Nat, r \in RequestType : Sends(w, n, r)
<1>1. NewMessage(w, id, TRUE)
  BY DEF SendLow
<1>n. PICK n \in Nat :
           /\ n = Len(msg) + 1 /\ ~Used(n) /\ n \notin piped /\ n \in DOMAIN msg' /\ msg'[n].by = w
           /\ msg'[n].low = TRUE /\ msg'[n].to = id
           /\ \A m \in DOMAIN msg : m \in DOMAIN msg' /\ msg'[m] = msg[m]
           /\ \A m \in DOMAIN msg' : m \in DOMAIN msg \/ m = n
           /\ \A m \in DOMAIN msg : m <= n
  BY <1>1, NewMessageForm
<1>r. PICK r \in RequestType : r = [c |-> "P", id |-> id, n |-> n]
  BY DEF RequestType
<1>2. r.n = n /\ r.c = "P" /\ IsData(r)
  BY <1>r DEF IsData
<1>3. wk' = wk /\ wk[w].pc # "store" /\ ~Busy(w)' /\ UNCHANGED <<sock, wire, listed, poll>>
  BY DEF SendLow, Busy
<1>4. \/ pipe' = pipe /\ piped' = piped
      \/ pipe' = Append(pipe, r) /\ piped' = piped \cup {n}
  BY <1>n, <1>r, Zenon DEF SendLow
<1>5. Sends(w, n, r)
  BY <1>n, <1>2, <1>3, <1>4, Zenon DEF Sends
<1> QED
  BY <1>5

\* socket_server_send begins with a new message.
LEMMA SendStartForm ==
  ASSUME SocketType, BookInv, NEW w \in Sender, NEW id \in Id, SendStart(w, id)
  PROVE  \E n \in Nat, r \in RequestType : Sends(w, n, r)
<1>1. NewMessage(w, id, FALSE)
  BY DEF SendStart
<1>n. PICK n \in Nat :
           /\ n = Len(msg) + 1 /\ ~Used(n) /\ n \notin piped /\ n \in DOMAIN msg' /\ msg'[n].by = w
           /\ msg'[n].low = FALSE /\ msg'[n].to = id
           /\ \A m \in DOMAIN msg : m \in DOMAIN msg' /\ msg'[m] = msg[m]
           /\ \A m \in DOMAIN msg' : m \in DOMAIN msg \/ m = n
           /\ \A m \in DOMAIN msg : m <= n
  BY ZenonT(60), <1>1, NewMessageForm
<1>r. PICK r \in RequestType : r = [c |-> "D", id |-> id, n |-> n]
  BY DEF RequestType
<1>2. r.n = n /\ r.c = "D" /\ IsData(r)
  BY <1>r DEF IsData
<1>3. UNCHANGED <<sock, wire, listed, poll, pipe, piped>> /\ wk[w].pc # "store"
  BY DEF SendStart
<1>w. w \in Worker /\ wk \in [Worker -> WorkerType]
  BY DEF Worker, SocketType, WorkersTyped
<1>4. CASE wk' = wk
  <2>1. ~Busy(w)'
    BY <1>4 DEF SendStart, Busy
  <2>2. Sends(w, n, r)
    BY <1>n, <1>2, <1>3, <1>4, <2>1 DEF Sends
  <2> QED
    BY <2>2
<1>5. ASSUME NEW pc \in {"try", "post"}, wk' = [wk EXCEPT ![w] = [pc |-> pc, n |-> n]]
      PROVE  Sends(w, n, r)
  <2>1. wk'[w].pc = pc /\ wk'[w].n = n /\ \A v \in Worker \ {w} : wk'[v] = wk[v]
    BY <1>5, <1>w
  <2>2. Unsent(w)'
    BY <2>1 DEF Unsent
  <2> QED
    BY <1>n, <1>2, <1>3, <2>1, <2>2 DEF Sends
<1>6. CASE wk' = [wk EXCEPT ![w] = [pc |-> IF CanDirectWrite(id) THEN "try" ELSE "post", n |-> Len(msg) + 1]]
  <2>1. CASE CanDirectWrite(id)
    <3>1. wk' = [wk EXCEPT ![w] = [pc |-> "try", n |-> n]]
      BY <1>6, <1>n, <2>1
    <3> QED
      BY <1>5, <3>1
  <2>2. CASE ~CanDirectWrite(id)
    <3>1. wk' = [wk EXCEPT ![w] = [pc |-> "post", n |-> n]]
      BY <1>6, <1>n, <2>2
    <3> QED
      BY <1>5, <3>1
  <2> QED
    BY <2>1, <2>2
<1> QED
  BY <1>4, <1>6, Zenon DEF SendStart

\* The message that was not written directly is sent through the pipe.
LEMMA PostDataForm ==
  ASSUME SocketType, BookInv, NEW w \in Worker, PostData(w)
  PROVE  w \in Sender /\ \E n \in Nat, r \in RequestType : Sends(w, n, r)
<1>0. Busy(w) /\ Unsent(w) /\ Sending(w)
  BY DEF PostData, Busy, Unsent, BookInv
<1>n. PICK n \in Nat : n = wk[w].n /\ n \in DOMAIN msg
  BY <1>0, BookTypes
<1>1. msg[n].by = w /\ n \notin piped /\ ~Used(n) /\ \A m \in DOMAIN msg : msg[m].by = w => m <= n
  BY <1>0, <1>n DEF Sending, Used, Queues
<1>2. w \in Sender
  BY <1>1, <1>n DEF BookInv
<1>3. msg[n].to \in Id
  <2>1. msg[n] \in MsgType
    BY <1>n DEF SocketType
  <2> QED
    BY <2>1 DEF MsgType
<1>r. PICK r \in RequestType : r = [c |-> "D", id |-> msg[n].to, n |-> n]
  BY <1>3 DEF RequestType
<1>4. r.n = n /\ r.c = "D" /\ IsData(r)
  BY <1>r DEF IsData
<1>5. /\ UNCHANGED <<msg, sock, wire, listed, poll>> /\ wk[w].pc # "store" /\ wk' = [wk EXCEPT ![w] = Idle]
      /\ pipe' = Append(pipe, r) /\ piped' = piped \cup {n}
  BY <1>n, <1>r DEF PostData
<1>6. ~Busy(w)' /\ \A v \in Worker \ {w} : wk'[v] = wk[v]
  BY <1>5 DEF SocketType, WorkersTyped, Busy, Idle
<1>7. Sends(w, n, r)
  BY <1>n, <1>1, <1>4, <1>5, <1>6 DEF Sends
<1> QED
  BY <1>2, <1>7

\* The rest of message n is stored.
Puts(w, n, s) ==
    /\ UNCHANGED <<wire, msg, piped, pipe, listed, poll>> /\ wk' = [wk EXCEPT ![w] = Idle]
    /\ \A t \in Slot \ {s} : sock'[t] = sock[t]
    /\ sock'[s].dw = wk[w].rest /\ sock'[s].high = sock[s].high /\ sock'[s].low = sock[s].low
    /\ sock'[s].id = sock[s].id /\ sock'[s].fd = sock[s].fd /\ sock'[s].type = sock[s].type
    /\ sock'[s].lock = Nobody

\* The rest of a direct write goes to dw_buffer.
LEMMA StoreRestForm ==
  ASSUME SocketType, NEW w \in Worker, StoreRest(w), NEW n \in Nat, NEW s \in Slot, Works(w, n, s)
  PROVE  Puts(w, n, s)
<1>1. wk[w].rest \in Seq(Unit)
  BY Zenon, BookTypes DEF StoreRest
<1>2. /\ sock' = [sock EXCEPT ![s].dw = wk[w].rest, ![s].lock = Nobody, ![s].wr = @ \/ sock[s].add]
      /\ UNCHANGED <<wire, msg, piped, pipe, listed, poll>> /\ wk' = [wk EXCEPT ![w] = Idle]
  BY DEF StoreRest, Works
<1>3. /\ \A t \in Slot \ {s} : sock'[t] = sock[t]
      /\ sock'[s].dw = wk[w].rest /\ sock'[s].high = sock[s].high /\ sock'[s].low = sock[s].low
      /\ sock'[s].id = sock[s].id /\ sock'[s].fd = sock[s].fd /\ sock'[s].type = sock[s].type
      /\ sock'[s].lock = Nobody
  BY <1>2 DEF SocketType, SocketsTyped, SockType
<1> QED
  BY Zenon, <1>2, <1>3 DEF Puts

\* Worker w at message n writes u of it directly.
Hits(w, n, s, u, r) ==
    wk[w].pc = "locked" /\ Works(w, n, s) /\ Writes(w, n, s, u, r) /\ UNCHANGED <<msg, piped, pipe, listed, poll>>

Stows(w, n, s) == wk[w].pc = "store" /\ Works(w, n, s) /\ Puts(w, n, s)

Flushes(s, u, h, l) == On("send", s) /\ Sent(s, u, h, l) /\ UNCHANGED <<pipe, wk, msg, piped, listed>>

\* A worker that gives the lock back has sent nothing.
LEMMA UnlockLoses ==
  ASSUME SocketType, NEW w \in Worker, NEW s \in Slot, wk[w].pc = "locked", UNCHANGED <<msg, wire, piped, listed, pipe>>,
         sock' = [sock EXCEPT ![s].lock = Nobody], wk' = [wk EXCEPT ![w].pc = "post"]
  PROVE  Loses
<1>1. \A t \in Slot : Lesser(t)
  BY DEF SocketType, SocketsTyped, SockType, Lesser
<1>2. \A v \in Worker \ {w} : wk'[v] = wk[v]
  BY DEF SocketType, WorkersTyped
<1>3. wk'[w].pc = "post" /\ wk'[w].n = wk[w].n
  <2>1. wk[w] \in [pc : {"locked"}, n : Nat]
    BY DEF SocketType, WorkersTyped, WorkerType
  <2>2. wk'[w] = [wk[w] EXCEPT !.pc = "post"]
    BY DEF SocketType, WorkersTyped
  <2> QED
    BY <2>1, <2>2
<1>4. \A v \in Worker : WorkerKept(v)
  BY <1>2, <1>3 DEF WorkerKept, Unsent
<1> QED
  BY <1>1, <1>4, PipeLosesSame DEF Loses

\* Every step loses something at most, or sends a message, writes it directly,
\* stows the rest, lists it, fetches the rest, or flushes what is listed.
LEMMA Steps ==
  ASSUME SocketType, BookInv, [Next]_sockvars
  PROVE  \/ Loses
         \/ \E w \in Sender, n \in Nat, r \in RequestType : Sends(w, n, r)
         \/ \E w \in Worker, n \in Nat, s \in Slot, u, r \in Seq(Unit) : Hits(w, n, s, u, r)
         \/ \E w \in Worker, n \in Nat, s \in Slot : Stows(w, n, s)
         \/ \E c \in {"D", "P"}, n \in Nat, s \in Slot : Takes(c, n, s) /\ Lists(c, n, s)
         \/ \E s \in Slot : Fetches(s)
         \/ \E s \in Slot, u, h, l \in Seq(Unit) : Flushes(s, u, h, l)
<1>1. CASE \E w \in Sender, id \in known : SendStart(w, id) \/ SendLow(w, id)
  <2>1. PICK w \in Sender, id \in known : SendStart(w, id) \/ SendLow(w, id)
    BY <1>1
  <2>2. id \in Id
    BY DEF SocketType
  <2> QED
    BY <2>1, <2>2, SendStartForm, SendLowForm
<1>2. CASE \E w \in Worker : PostData(w)
  BY <1>2, PostDataForm
<1>3. CASE \E w \in Worker : StoreRest(w)
  <2>1. PICK w \in Worker : StoreRest(w)
    BY Zenon, <1>3
  <2>2. Busy(w) /\ wk[w].pc = "store"
    BY Zenon, <2>1 DEF StoreRest, Busy
  <2>3. PICK n \in Nat, s \in Slot : Works(w, n, s)
    BY <2>2, WorksOn
  <2>4. Stows(w, n, s)
    BY <2>1, <2>2, <2>3, StoreRestForm DEF Stows
  <2> QED
    BY <2>4
<1>4. CASE \E w \in Worker : DirectWrite(w)
  <2>1. PICK w \in Worker : DirectWrite(w)
    BY <1>4
  <2>2. Busy(w) /\ wk[w].pc = "locked" /\ UNCHANGED <<msg, piped, listed, pipe, poll>>
    BY Zenon, <2>1 DEF DirectWrite, Busy
  <2>3. PICK n \in Nat, s \in Slot : Works(w, n, s)
    BY <2>2, WorksOn
  <2>4. CASE wire' = wire /\ sock' = [sock EXCEPT ![s].lock = Nobody] /\ wk' = [wk EXCEPT ![w].pc = "post"]
    BY <2>2, <2>4, UnlockLoses
  <2>5. CASE \E u, r \in Seq(Unit) : Writes(w, n, s, u, r)
    BY <2>2, <2>3, <2>5 DEF Hits
  <2> QED
    BY Zenon, <2>1, <2>3, <2>4, <2>5, DirectWriteForm
<1>5. CASE \E c \in {"D", "P"} : SendSocket(c)
  <2>1. PICK c \in {"D", "P"} : SendSocket(c)
    BY <1>5
  <2>2. PICK n \in Nat, s \in Slot : Takes(c, n, s) /\ ((sock' = sock /\ listed' = listed) \/ Lists(c, n, s))
    BY <2>1, SendSocketForm
  <2>3. CASE sock' = sock /\ listed' = listed
    BY <2>2, <2>3, LosesIdle DEF Takes
  <2> QED
    BY <2>2, <2>3
<1>6. CASE \E s \in Slot, k \in Nat : Moved(s, k)
  <2>1. PICK s \in Slot, k \in Nat : Moved(s, k)
    BY <1>6
  <2>2. PICK u, h, l \in Seq(Unit) : Sent(s, u, h, l)
    BY <2>1, MovedLists
  <2>3. Flushes(s, u, h, l)
    BY <2>1, <2>2 DEF Flushes, Moved
  <2> QED
    BY <2>3
<1> QED
  BY <1>1, <1>2, <1>3, <1>4, <1>5, <1>6, Forms

\* A direct write uses its own message only.
LEMMA UsedHits ==
  ASSUME SocketType, NEW w \in Worker, NEW n \in Nat, NEW s \in Slot, NEW u \in Seq(Unit), NEW r \in Seq(Unit),
         Hits(w, n, s, u, r), NEW m \in Nat, Used(m)'
  PROVE  Used(m) \/ m = n
<1>0. Of(u) \subseteq {n} /\ Of(r) \subseteq {n}
  BY OfConcat, OfUnits DEF Hits, Writes
<1>1. \A t \in Slot : sock'[t].dw = sock[t].dw /\ sock'[t].high = sock[t].high /\ sock'[t].low = sock[t].low
  <2>1. CASE sock' = sock
    BY <2>1
  <2>2. CASE sock' = [sock EXCEPT ![s].lock = Nobody]
    BY <2>2 DEF SocketType, SocketsTyped, SockType
  <2> QED
    BY <2>1, <2>2 DEF Hits, Writes
<1>2. CASE \E id \in Id : m \in Of(wire'[id])
  <2>1. PICK id \in Id : m \in Of(wire'[id])
    BY <1>2
  <2>2. wire'[id] = IF id = sock[s].fd THEN wire[id] \o u ELSE wire[id]
    BY DEF Hits, Writes
  <2>3. m \in Of(wire[id]) \/ m \in Of(u)
    BY <2>1, <2>2, BookTypes, OfConcat
  <2> QED
    BY <1>0, <2>3 DEF Used
<1>3. CASE \E t \in Slot : m \in Of(sock'[t].dw) \/ m \in Of(sock'[t].high) \/ m \in Of(sock'[t].low)
  BY <1>1, <1>3 DEF Used, Queues
<1> QED
  BY <1>2, <1>3 DEF Used, Queues, Of

\* Storing a rest uses its own message only.
LEMMA UsedStows ==
  ASSUME SocketType, BookInv, NEW w \in Worker, NEW n \in Nat, NEW s \in Slot, Stows(w, n, s), NEW m \in Nat, Used(m)'
  PROVE  Used(m) \/ m = n
<1>0. Of(sock'[s].dw) \subseteq {n}
  <2>1. Sending(w) /\ wk[w].pc = "store" /\ wk[w].n = n /\ sock'[s].dw = wk[w].rest
    BY DEF BookInv, Stows, Works, Puts
  <2> QED
    BY <2>1 DEF Sending
<1>2. CASE \E id \in Id : m \in Of(wire'[id])
  BY <1>2 DEF Stows, Puts, Used
<1>3. CASE \E t \in Slot : m \in Of(sock'[t].dw) \/ m \in Of(sock'[t].high) \/ m \in Of(sock'[t].low)
  BY <1>0, <1>3 DEF Stows, Puts, Used, Queues
<1> QED
  BY <1>2, <1>3 DEF Used, Queues, Of

\* Listing a message uses this one only.
LEMMA UsedLists ==
  ASSUME SocketType, NEW c \in {"D", "P"}, NEW n \in Nat, NEW s \in Slot, Takes(c, n, s), Lists(c, n, s),
         NEW m \in Nat, Used(m)'
  PROVE  Used(m) \/ m = n
<1>t. sock[s].high \in Seq(Unit) /\ sock[s].low \in Seq(Unit) /\ Units(n) \in Seq(Unit) /\ Of(Units(n)) = {n}
  BY BookTypes, OfUnits
<1>0. Of(sock'[s].high) \subseteq Of(sock[s].high) \cup {n} /\ Of(sock'[s].low) \subseteq Of(sock[s].low) \cup {n}
  <2>1. Of(sock[s].high \o Units(n)) = Of(sock[s].high) \cup {n}
    BY <1>t, OfConcat
  <2>2. Of(sock[s].low \o Units(n)) = Of(sock[s].low) \cup {n}
    BY <1>t, OfConcat
  <2> QED
    BY <2>1, <2>2 DEF Lists
<1>2. CASE \E id \in Id : m \in Of(wire'[id])
  BY <1>2 DEF Takes, Used
<1>3. CASE \E t \in Slot : m \in Of(sock'[t].dw) \/ m \in Of(sock'[t].high) \/ m \in Of(sock'[t].low)
  <2>1. PICK t \in Slot : m \in Of(sock'[t].dw) \/ m \in Of(sock'[t].high) \/ m \in Of(sock'[t].low)
    BY <1>3
  <2>2. CASE t # s
    <3>1. sock'[t] = sock[t]
      BY <2>2 DEF Lists
    <3> QED
      BY <2>1, <3>1 DEF Used, Queues
  <2>3. CASE t = s
    <3>1. sock'[s].dw = sock[s].dw
      BY DEF Lists
    <3>2. Queues(m, s) \/ m = n
      BY <1>0, <2>1, <2>3, <3>1 DEF Queues
    <3> QED
      BY <3>2 DEF Used
  <2> QED
    BY <2>2, <2>3
<1> QED
  BY <1>2, <1>3 DEF Used, Queues, Of

\* A direct write keeps the books.
LEMMA BookHits ==
  ASSUME SocketType, BookInv, NEW w \in Worker, NEW n \in Nat, NEW s \in Slot, NEW u \in Seq(Unit), NEW r \in Seq(Unit),
         Hits(w, n, s, u, r)
  PROVE  BookInv'
<1>1. Busy(w) /\ wk[w].n = n /\ UNCHANGED <<msg, piped, pipe>>
  BY DEF Hits, Works, Busy
<1>2. Of(r) \subseteq {n}
  BY OfConcat, OfUnits DEF Hits, Writes
<1>3. \A v \in Worker \ {w} : wk'[v] = wk[v]
  BY DEF Hits, Writes, SocketType, WorkersTyped
<1>4. ~Busy(w)' \/ (wk'[w].pc = "store" /\ wk'[w].n = n /\ Of(wk'[w].rest) \subseteq {n})
  <2>1. CASE wk' = [wk EXCEPT ![w] = Idle]
    BY <2>1 DEF SocketType, WorkersTyped, Busy, Idle
  <2>2. CASE wk' = [wk EXCEPT ![w] = [pc |-> "store", n |-> n, rest |-> r]]
    <3>1. wk'[w].pc = "store" /\ wk'[w].n = n /\ wk'[w].rest = r
      BY <2>2 DEF SocketType, WorkersTyped
    <3> QED
      BY <1>2, <3>1
  <2> QED
    BY <2>1, <2>2 DEF Hits, Writes
<1> QED
  BY <1>1, <1>3, <1>4, BookWrites, UsedHits

\* Storing a rest keeps the books.
LEMMA BookStows ==
  ASSUME SocketType, BookInv, NEW w \in Worker, NEW n \in Nat, NEW s \in Slot, Stows(w, n, s)
  PROVE  BookInv'
<1>1. Busy(w) /\ wk[w].n = n /\ UNCHANGED <<msg, piped, pipe>> /\ wk' = [wk EXCEPT ![w] = Idle]
  BY DEF Stows, Works, Puts, Busy
<1>2. ~Busy(w)' /\ \A v \in Worker \ {w} : wk'[v] = wk[v]
  BY <1>1 DEF SocketType, WorkersTyped, Busy, Idle
<1> QED
  BY <1>1, <1>2, BookWrites, UsedStows

\* Every step keeps the books.
LEMMA BookNext == SocketType /\ SocketType' /\ BookInv /\ [Next]_sockvars => BookInv'
<1> SUFFICES ASSUME SocketType, SocketType', BookInv, [Next]_sockvars PROVE BookInv'
  OBVIOUS
<1>p. pipe' \in Seq(RequestType)
  BY DEF SocketType, PipeTyped
<1>1. CASE Loses
  <2>1. UNCHANGED <<msg, piped>> /\ PipeLoses /\ \A w \in Worker : WorkerKept(w)
    BY <1>1 DEF Loses
  <2> QED
    BY <1>1, <1>p, <2>1, UsedLoses, BookFrame
<1>2. CASE \E s \in Slot : Fetches(s)
  <2>1. PICK s \in Slot : Fetches(s)
    BY <1>2
  <2>2. UNCHANGED <<msg, piped>> /\ PipeLoses /\ \A w \in Worker : WorkerKept(w)
    BY <2>1 DEF Fetches, WorkerKept
  <2>3. \A n \in Nat : Used(n)' => Used(n)
    BY <2>1, UsedFetches
  <2> QED
    BY <1>p, <2>2, <2>3, BookFrame
<1>3. CASE \E s \in Slot, u, h, l \in Seq(Unit) : Flushes(s, u, h, l)
  <2>1. PICK s \in Slot, u, h, l \in Seq(Unit) : Flushes(s, u, h, l)
    BY <1>3
  <2>2. UNCHANGED <<msg, piped>> /\ PipeLoses /\ \A w \in Worker : WorkerKept(w)
    BY <2>1, PipeLosesSame DEF Flushes, WorkerKept
  <2>3. \A n \in Nat : Used(n)' => Used(n)
    BY <2>1, UsedSent DEF Flushes
  <2> QED
    BY <1>p, <2>2, <2>3, BookFrame
<1>4. CASE \E c \in {"D", "P"}, n \in Nat, s \in Slot : Takes(c, n, s) /\ Lists(c, n, s)
  BY <1>4, BookTakes, UsedLists
<1> QED
  BY <1>1, <1>2, <1>3, <1>4, Steps, BookSends, BookHits, BookStows

\* The books begin empty.
LEMMA BookInit == Init => BookInv
<1> SUFFICES ASSUME Init PROVE BookInv
  OBVIOUS
<1>1. /\ pipe = <<>> /\ msg = <<>> /\ piped = {} /\ \A w \in Worker : wk[w].pc = "idle"
      /\ \A id \in Id : wire[id] = <<>>
      /\ \A s \in Slot : sock[s].dw = <<>> /\ sock[s].high = <<>> /\ sock[s].low = <<>>
  BY Zenon DEF Init, Idle, Free, Id
<1>2. \A n \in Nat : ~Used(n)
  BY <1>1, OfEmpty DEF Used, Queues
<1>3. \A w \in Worker : Sending(w)
  BY <1>1 DEF Sending, Busy, Unsent
<1> QED
  BY <1>1, <1>2, <1>3 DEF BookInv

-----------------------------------------------------------------------------
(* The order of one sender's messages                                      *)

\* message late must not be written before message early
Overtakes(late, early) ==
    /\ early < late /\ msg[early].by = msg[late].by
    /\ ~(early \in piped /\ (late \notin piped \/ msg[early].low))

Tidy(list) == \A i, j \in DOMAIN list : i < j => ~Overtakes(list[i][1], list[j][1])

Ahead(A, B) == \A m \in A, n \in B : ~Overtakes(m, n)

\* What is written, dw_buffer and the high list are in order in this sequence; the
\* low list holds what may always be overtaken.  While the lists are written
\* dw_buffer is empty or was set since.
Ordered(s) ==
    /\ Tidy(sock[s].dw) /\ Tidy(sock[s].high) /\ Ahead(Of(sock[s].dw), Of(sock[s].high))
    /\ sock[s].fd # 0 =>
          Ahead(Of(wire[sock[s].fd]), Of(sock[s].dw)) /\ Ahead(Of(wire[sock[s].fd]), Of(sock[s].high))
    /\ On("send", s) => Ahead(Of(sock[s].high) \cup Of(sock[s].low), Of(sock[s].dw))
    /\ \A n \in Of(sock[s].low) : n \in piped /\ msg[n].low

\* What a worker is about to store in dw_buffer overtakes what went through the
\* pipe only.
Storing(w) ==
    \A s \in Slot : wk[w].pc = "store" /\ s = HashId(msg[wk[w].n].to) =>
        \A m \in Of(sock[s].dw) \cup Of(sock[s].high) : msg[m].by = w => m \in piped

OrderInv ==
    /\ \A id \in Id : Tidy(wire[id])
    /\ \A s \in Slot : Ordered(s)
    /\ \A w \in Worker : Storing(w)

\* An empty list is in order.
LEMMA TidyEmpty == Tidy(<<>>)
BY DEF Tidy

\* Two lists in order, one ahead of the other, are in order together.
LEMMA TidyConcat ==
  ASSUME NEW a \in Seq(Unit), NEW b \in Seq(Unit), Tidy(a), Tidy(b), Ahead(Of(a), Of(b))
  PROVE  Tidy(a \o b)
<1>0. /\ DOMAIN (a \o b) = 1..(Len(a) + Len(b)) /\ DOMAIN a = 1..Len(a) /\ DOMAIN b = 1..Len(b)
      /\ Len(a) \in Nat /\ Len(b) \in Nat
      /\ \A i \in 1..(Len(a) + Len(b)) : (a \o b)[i] = IF i <= Len(a) THEN a[i] ELSE b[i - Len(a)]
  BY ConcatProperties, LenProperties
<1>c. PICK c : c = a \o b
  OBVIOUS
<1>1. ASSUME NEW i \in DOMAIN c, NEW j \in DOMAIN c, i < j PROVE ~Overtakes(c[i][1], c[j][1])
  <2>0. i \in 1..(Len(a) + Len(b)) /\ j \in 1..(Len(a) + Len(b))
    BY <1>0, <1>c
  <2>1. CASE j <= Len(a)
    <3>1. i \in DOMAIN a /\ j \in DOMAIN a /\ c[i] = a[i] /\ c[j] = a[j]
      BY <1>0, <1>1, <1>c, <2>0, <2>1
    <3> QED
      BY <1>1, <3>1 DEF Tidy
  <2>2. CASE ~(i <= Len(a))
    <3>1. i - Len(a) \in DOMAIN b /\ j - Len(a) \in DOMAIN b /\ c[i] = b[i - Len(a)] /\ c[j] = b[j - Len(a)] /\ i - Len(a) < j - Len(a)
      BY <1>0, <1>1, <1>c, <2>0, <2>2
    <3> QED
      BY <3>1 DEF Tidy
  <2>3. CASE i <= Len(a) /\ ~(j <= Len(a))
    <3>1. i \in DOMAIN a /\ j - Len(a) \in DOMAIN b /\ c[i] = a[i] /\ c[j] = b[j - Len(a)]
      BY <1>0, <1>c, <2>0, <2>3
    <3>2. c[i][1] \in Of(a) /\ c[j][1] \in Of(b)
      BY <3>1 DEF Of
    <3> QED
      BY <3>2 DEF Ahead
  <2> QED
    BY <1>0, <1>1, <2>0, <2>1, <2>2, <2>3
<1> QED
  BY <1>1, <1>c DEF Tidy

\* The parts of a list in order are in order, one ahead of the other.
LEMMA TidySplit ==
  ASSUME NEW a \in Seq(Unit), NEW b \in Seq(Unit), Tidy(a \o b)
  PROVE  Tidy(a) /\ Tidy(b) /\ Ahead(Of(a), Of(b))
<1>0. /\ DOMAIN (a \o b) = 1..(Len(a) + Len(b)) /\ DOMAIN a = 1..Len(a) /\ DOMAIN b = 1..Len(b)
      /\ Len(a) \in Nat /\ Len(b) \in Nat
      /\ \A i \in 1..(Len(a) + Len(b)) : (a \o b)[i] = IF i <= Len(a) THEN a[i] ELSE b[i - Len(a)]
  BY ConcatProperties, LenProperties
<1>c. PICK c : c = a \o b
  OBVIOUS
<1>1. \A i \in DOMAIN a : i \in DOMAIN c /\ c[i] = a[i]
  BY <1>0, <1>c
<1>2. \A i \in DOMAIN b : i + Len(a) \in DOMAIN c /\ c[i + Len(a)] = b[i]
  <2>1. ASSUME NEW i \in DOMAIN b PROVE i + Len(a) \in 1..(Len(a) + Len(b)) /\ ~(i + Len(a) <= Len(a)) /\ i + Len(a) - Len(a) = i
    BY <1>0
  <2> QED
    BY <1>0, <1>c, <2>1
<1>t. \A i, j \in DOMAIN c : i < j => ~Overtakes(c[i][1], c[j][1])
  BY <1>c DEF Tidy
<1>3. Tidy(a)
  BY <1>t, <1>1 DEF Tidy
<1>4. Tidy(b)
  <2>1. \A i, j \in DOMAIN b : i < j => i + Len(a) < j + Len(a)
    BY <1>0
  <2> QED
    BY <1>t, <1>2, <2>1 DEF Tidy
<1>5. \A i \in DOMAIN a, j \in DOMAIN b : ~Overtakes(a[i][1], b[j][1])
  <2>1. \A i \in DOMAIN a, j \in DOMAIN b : i < j + Len(a)
    BY <1>0
  <2> QED
    BY <1>t, <1>1, <1>2, <2>1
<1>6. Ahead(Of(a), Of(b))
  BY <1>5 DEF Ahead, Of
<1> QED
  BY <1>3, <1>4, <1>6

\* A list none of whose messages overtakes another is in order.
LEMMA TidyAhead ==
  ASSUME NEW a, Ahead(Of(a), Of(a))
  PROVE  Tidy(a)
BY DEF Ahead, Tidy, Of

\* Messages of low priority that went through the pipe may be overtaken.
LEMMA AheadOfLow ==
  ASSUME NEW A, NEW B, \A n \in B : n \in piped /\ msg[n].low
  PROVE  Ahead(A, B)
BY DEF Ahead, Overtakes

\* The last message of a worker is behind all others.
LEMMA AheadOfLast ==
  ASSUME NEW A, NEW B, NEW n \in Nat, A \subseteq Nat, B \subseteq {n}, \A m \in A : m \in DOMAIN msg,
         \A m \in DOMAIN msg : msg[m].by = msg[n].by => m <= n
  PROVE  Ahead(A, B)
BY DEF Ahead, Overtakes

\* What is ahead of several is ahead of each.
LEMMA AheadUnion ==
  ASSUME NEW A, NEW B, NEW C
  PROVE  /\ Ahead(A \cup B, C) <=> Ahead(A, C) /\ Ahead(B, C)
         /\ Ahead(A, B \cup C) <=> Ahead(A, B) /\ Ahead(A, C)
BY DEF Ahead

\* What is ahead is ahead in part.
LEMMA AheadSubset ==
  ASSUME NEW A, NEW B, NEW C, NEW D, Ahead(A, B), C \subseteq A, D \subseteq B
  PROVE  Ahead(C, D)
BY DEF Ahead

\* The order depends only on the messages and on which of them were piped.
LEMMA OrderSame ==
  ASSUME UNCHANGED <<msg, piped>>
  PROVE  (\A x : Tidy(x)' <=> Tidy(x)) /\ \A A, B : Ahead(A, B)' <=> Ahead(A, B)
<1>1. \A m, n : Overtakes(m, n)' <=> Overtakes(m, n)
  BY DEF Overtakes
<1> QED
  BY <1>1 DEF Tidy, Ahead

\* The slot t after a step.
LEMMA OrderedAfter ==
  ASSUME UNCHANGED <<msg, piped>>, NEW t \in Slot, NEW d \in Seq(Unit), NEW h \in Seq(Unit), NEW l \in Seq(Unit),
         sock'[t].dw = d, sock'[t].high = h, sock'[t].low = l,
         Tidy(d), Tidy(h), Ahead(Of(d), Of(h)),
         sock'[t].fd # 0 => Ahead(Of(wire'[sock'[t].fd]), Of(d)) /\ Ahead(Of(wire'[sock'[t].fd]), Of(h)),
         On("send", t)' => Ahead(Of(h) \cup Of(l), Of(d)),
         \A n \in Of(l) : n \in piped /\ msg[n].low
  PROVE  Ordered(t)'
<1>1. Tidy(d)' /\ Tidy(h)' /\ Ahead(Of(d), Of(h))'
  BY OrderSame DEF Of
<1>2. \A m, n : Overtakes(m, n)' <=> Overtakes(m, n)
  BY DEF Overtakes
<1>3. Tidy(sock[t].dw)' /\ Tidy(sock[t].high)' /\ Ahead(Of(sock[t].dw), Of(sock[t].high))'
  BY <1>1 DEF Tidy, Ahead, Of, Overtakes
<1>4. sock'[t].fd # 0 =>
          Ahead(Of(wire[sock[t].fd]), Of(sock[t].dw))' /\ Ahead(Of(wire[sock[t].fd]), Of(sock[t].high))'
  BY <1>2 DEF Ahead, Of
<1>5. On("send", t)' => Ahead(Of(sock[t].high) \cup Of(sock[t].low), Of(sock[t].dw))'
  BY <1>2 DEF Ahead, Of
<1> QED
  BY <1>3, <1>4, <1>5 DEF Ordered, Of

\* The poll thread comes to write the lists with dw_buffer empty.
LEMMA SendEntered ==
  ASSUME SocketType, [Next]_sockvars, NEW s \in Slot, On("send", s)'
  PROVE  On("send", s) \/ sock'[s].dw = <<>>
<1> DEFINE Kept == poll' = poll \/ poll'.pc # "send"
<1>k. Kept => On("send", s)
  BY SMTT(40) DEF On
<1>b. ASSUME NEW x, NEW then, NEW after, SendBuffer(x, then, after), after.pc # "send"
      PROVE  Kept \/ (s = x /\ sock' = [sock EXCEPT ![s].lock = "poll", ![s].high = sock[s].dw \o @, ![s].dw = <<>>])
  <2>1. CASE poll' = after
    BY <1>b, <2>1
  <2>2. CASE /\ sock' = [sock EXCEPT ![x].lock = "poll", ![x].high = sock[x].dw \o @, ![x].dw = <<>>]
             /\ poll' = [pc |-> "send", slot |-> x, then |-> then]
    <3>1. s = x
      BY <2>2 DEF On
    <3> QED
      BY <2>2, <3>1
  <2> QED
    BY <1>b, <2>1, <2>2 DEF SendBuffer
<1>c. ASSUME sock' = [sock EXCEPT ![s].lock = "poll", ![s].high = sock[s].dw \o @, ![s].dw = <<>>] PROVE sock'[s].dw = <<>>
  BY <1>c DEF SocketType, SocketsTyped, SockType
<1>f. ASSUME NEW x, NEW why, NEW ctrl, ForceClose(x, why, ctrl) PROVE Kept
  BY <1>f DEF ForceClose, Abort
<1>t. Top.pc # "send" /\ \A id : Clear(id).pc # "send"
  BY DEF Top, Clear
<1> HIDE DEF Kept
<1>1. CASE UNCHANGED sockvars
  BY Zenon, <1>1, <1>k DEF sockvars, Kept
<1>2. CASE \E w \in Worker : WorkerStep(w)
  BY Zenon, <1>2, <1>k DEF WorkerStep, SendRequest, TryLock, DirectWrite, StoreRest, PostData, Kept
<1>3. CASE \E w \in Opener : \/ Reserve(w, "O") \/ Reserve(w, "L")
                             \/ \E c \in {"K", "H", "S"}, id \in known : Request(w, c, id)
  BY <1>3, <1>k DEF Reserve, Request, Kept
<1>4. CASE \E w \in Sender, id \in known \ {1} : SendStart(w, id) \/ SendLow(w, id)
  BY Zenon, <1>4, <1>k DEF SendStart, SendLow, Kept
<1>5. CASE OpenSocket \/ ListenSocket \/ StartSocket \/ SendSocket("D") \/ SendSocket("P")
  <2>1. CASE OpenSocket \/ ListenSocket \/ SendSocket("D") \/ SendSocket("P")
    <3>1. ASSUME NEW x, NEW id, NewFdFails(x, id) PROVE Kept
      BY <3>1 DEF NewFdFails, Kept
    <3> QED
      BY Zenon, <1>k, <1>t, <2>1, <3>1 DEF OpenSocket, ListenSocket, SendSocket, Kept
  <2>2. CASE StartSocket
    BY <1>f, <1>k, <1>t, <2>2 DEF StartSocket, Kept
  <2> QED
    BY <1>5, <2>1, <2>2
<1>6. CASE CloseSocket("K") \/ CloseSocket("H")
  <2>1. ASSUME NEW c, CloseSocket(c)
        PROVE  \/ Kept
               \/ \E x, then, after : SendBuffer(x, then, after) /\ after.pc # "send"
    <3>1. \A x : [pc |-> "decide", slot |-> x, c |-> c].pc # "send"
      OBVIOUS
    <3> QED
      BY <1>t, <2>1, <3>1 DEF CloseSocket, Kept
  <2> QED
    BY <1>6, <1>k, <1>b, <1>c, <2>1
<1>7. CASE OpenFailed \/ CloseDecide \/ CloseEnd \/ ClearClosedEvent
  <2>1. CASE OpenFailed
    BY <1>k, <1>t, <2>1 DEF OpenFailed, Kept
  <2>2. CASE CloseDecide \/ CloseEnd \/ ClearClosedEvent
    BY <1>k, <1>f, <1>t, <2>2 DEF CloseDecide, CloseEnd, ClearClosedEvent, Kept
  <2> QED
    BY <1>7, <2>1, <2>2
<1>8. CASE PollSend
  <2>1. poll.then.pc # "send"
    <3>1. poll \in SendType
      BY <1>8 DEF PollSend, SocketType, PollType, DecideType
    <3>2. poll.then \in DecideType \cup {Top}
      BY Zenon, <3>1 DEF SendType
    <3> QED
      BY <1>t, <3>2 DEF DecideType
  <2>2. ASSUME NEW k, SendBuffer_(k) PROVE Kept
    BY Zenon, <1>t, <2>1, <2>2 DEF SendBuffer_, Kept
  <2>3. ASSUME SendFails PROVE Kept
    BY <1>t, <2>3 DEF SendFails, Abort, Kept
  <2> QED
    BY <1>8, <1>k, <2>2, <2>3 DEF PollSend
<1>9. CASE PollWait \/ ReportConnect \/ ReportConnectDone \/ ReportAccept \/ InvalidSocket \/ ForwardMessage \/ ErrorEvent
  <2>1. CASE PollWait
    <3>1. poll' = Top \/ poll' = [pc |-> "event"]
      BY <2>1 DEF PollWait
    <3> QED
      BY <1>k, <1>t, <3>1 DEF Kept
  <2>2. CASE ReportConnectDone \/ ReportAccept \/ InvalidSocket
    BY <1>k, <1>t, <2>2 DEF ReportConnectDone, ReportAccept, InvalidSocket, Kept
  <2>3. CASE ReportConnect \/ ForwardMessage \/ ErrorEvent
    <3>1. \/ \E x, why, ctrl : ForceClose(x, why, ctrl)
          \/ poll' = Top
          \/ poll' = [pc |-> "conn", slot |-> Head(ev).slot]
      BY <2>3, Zenon DEF ReportConnect, ForwardMessage, ErrorEvent
    <3> QED
      BY <1>f, <1>k, <1>t, <3>1 DEF Kept
  <2> QED
    BY <1>9, <2>1, <2>2, <2>3
<1>10. CASE WriteEvent
  BY <1>10, <1>k, <1>b, <1>c, <1>t DEF WriteEvent
<1>11. CASE PollStep
  BY <1>11, <1>5, <1>6, <1>7, <1>8, <1>9, <1>10, Zenon DEF PollStep
<1>12. CASE Next
  BY <1>2, <1>3, <1>4, <1>11, <1>12, Zenon DEF Next
<1> QED
  BY <1>1, <1>12

\* A worker that stores goes on as before when nothing of it comes to the lists.
LEMMA StoringAfter ==
  ASSUME UNCHANGED <<msg, piped>>, NEW w \in Worker, Storing(w), wk'[w].pc = "store" => wk'[w] = wk[w],
         \A t \in Slot : \A m \in Of(sock'[t].dw) \cup Of(sock'[t].high) :
             m \in Of(sock[t].dw) \cup Of(sock[t].high) \/ m \in piped \/ msg[m].by # w
  PROVE  Storing(w)'
<1>1. ASSUME NEW s \in Slot, wk'[w].pc = "store", s = HashId(msg'[wk'[w].n].to),
             NEW m \in Of(sock'[s].dw) \cup Of(sock'[s].high), msg'[m].by = w
      PROVE  m \in piped'
  <2>1. wk'[w] = wk[w] /\ s = HashId(msg[wk[w].n].to) /\ msg[m].by = w
    BY <1>1 DEF HashId
  <2> QED
    BY <1>1, <2>1 DEF Storing
<1> QED
  BY Zenon, <1>1 DEF Storing, Of, HashId

\* Wires in order are in order after the step.
LEMMA WiresAfter ==
  ASSUME UNCHANGED <<msg, piped>>, \A id \in Id : Tidy(wire'[id])
  PROVE  \A id \in Id : Tidy(wire[id])'
<1>1. \A m, n : Overtakes(m, n)' <=> Overtakes(m, n)
  BY DEF Overtakes
<1> QED
  BY <1>1 DEF Tidy

\* A step that adds nothing keeps the order.
LEMMA OrderLoses ==
  ASSUME SocketType, OrderInv, Loses, \A s \in Slot : On("send", s)' => On("send", s) \/ sock'[s].dw = <<>>
  PROVE  OrderInv'
<1>m. UNCHANGED <<msg, piped, wire>>
  BY DEF Loses
<1>1. ASSUME NEW t \in Slot
      PROVE  /\ Ordered(t)'
             /\ Of(sock'[t].dw) \subseteq Of(sock[t].dw) /\ Of(sock'[t].high) \subseteq Of(sock[t].high)
  <2>0. Ordered(t) /\ Lesser(t)
    BY DEF OrderInv, Loses
  <2>y. sock[t].dw \in Seq(Unit) /\ sock[t].high \in Seq(Unit) /\ sock[t].low \in Seq(Unit) /\ <<>> \in Seq(Unit)
    BY BookTypes
  <2>d. PICK d \in Seq(Unit) : d = sock'[t].dw /\ d \in {sock[t].dw, <<>>}
    BY <2>0, <2>y DEF Lesser
  <2>h. PICK h \in Seq(Unit) : h = sock'[t].high /\ h \in {sock[t].high, <<>>}
    BY <2>0, <2>y DEF Lesser
  <2>l. PICK l \in Seq(Unit) : l = sock'[t].low /\ l \in {sock[t].low, <<>>}
    BY <2>0, <2>y DEF Lesser
  <2>1. Of(d) \subseteq Of(sock[t].dw) /\ Of(h) \subseteq Of(sock[t].high) /\ Of(l) \subseteq Of(sock[t].low)
    BY <2>d, <2>h, <2>l, OfEmpty
  <2>2. Tidy(d) /\ Tidy(h)
    BY <2>0, <2>d, <2>h, TidyEmpty DEF Ordered
  <2>3. Ahead(Of(d), Of(h))
    BY <2>0, <2>1 DEF Ordered, Ahead
  <2>4. sock'[t].fd # 0 => Ahead(Of(wire'[sock'[t].fd]), Of(d)) /\ Ahead(Of(wire'[sock'[t].fd]), Of(h))
    <3>1. CASE sock'[t].fd \in {sock[t].fd, 0}
      BY <1>m, <2>0, <2>1, <3>1 DEF Ordered, Ahead
    <3>2. CASE sock'[t].dw = <<>> /\ sock'[t].high = <<>>
      <4>1. Of(d) = {} /\ Of(h) = {}
        BY <2>d, <2>h, <3>2, OfEmpty
      <4> QED
        BY <4>1 DEF Ahead
    <3> QED
      BY <2>0, <3>1, <3>2 DEF Lesser
  <2>5. On("send", t)' => Ahead(Of(h) \cup Of(l), Of(d))
    <3>1. CASE d = <<>>
      BY <3>1, OfEmpty DEF Ahead
    <3>2. CASE On("send", t)
      BY <2>0, <2>1, <3>2 DEF Ordered, Ahead
    <3> QED
      BY <2>d, <3>1, <3>2
  <2>6. \A n \in Of(l) : n \in piped /\ msg[n].low
    BY <2>0, <2>1 DEF Ordered
  <2>7. Ordered(t)'
    BY <1>m, <2>d, <2>h, <2>l, <2>2, <2>3, <2>4, <2>5, <2>6, OrderedAfter
  <2> QED
    BY <2>1, <2>7, <2>d, <2>h
<1>2. ASSUME NEW w \in Worker PROVE Storing(w)'
  <2>1. WorkerKept(w) /\ Storing(w)
    BY DEF Loses, OrderInv
  <2>2. wk'[w].pc = "store" => wk'[w] = wk[w]
    BY <2>1 DEF WorkerKept, Busy, Unsent
  <2> QED
    BY <1>m, <1>1, <2>1, <2>2, StoringAfter
<1>3. \A id \in Id : Tidy(wire[id])'
  BY <1>m, WiresAfter DEF OrderInv
<1> QED
  BY <1>1, <1>2, <1>3 DEF OrderInv

\* The socket after dw_buffer moved in front of the high list.
LEMMA FetchedLists ==
  ASSUME SocketType, NEW s \in Slot, Fetches(s)
  PROVE  /\ sock'[s].dw = <<>> /\ sock'[s].high = sock[s].dw \o sock[s].high /\ sock'[s].low = sock[s].low
         /\ sock'[s].fd = sock[s].fd /\ sock'[s].id = sock[s].id /\ sock'[s].type = sock[s].type
         /\ sock'[s].lock = "poll"
         /\ \A t \in Slot \ {s} : sock'[t] = sock[t]
<1>1. /\ sock'[s].dw = <<>> /\ sock'[s].high = sock[s].dw \o sock[s].high /\ sock'[s].low = sock[s].low
      /\ \A t \in Slot \ {s} : sock'[t] = sock[t]
  BY ZenonT(60) DEF Fetches, SocketType, SocketsTyped, SockType
<1>2. /\ sock'[s].fd = sock[s].fd /\ sock'[s].id = sock[s].id /\ sock'[s].type = sock[s].type
      /\ sock'[s].lock = "poll"
  BY DEF Fetches, SocketType, SocketsTyped, SockType
<1> QED
  BY <1>1, <1>2

\* Moving dw_buffer in front of the high list keeps the order.
LEMMA OrderFetches ==
  ASSUME SocketType, OrderInv, NEW s \in Slot, Fetches(s), \A t \in Slot : On("send", t)' => On("send", t) \/ sock'[t].dw = <<>>
  PROVE  OrderInv'
<1>m. UNCHANGED <<msg, piped, wire, wk>>
  BY DEF Fetches
<1>0. /\ sock'[s].dw = <<>> /\ sock'[s].high = sock[s].dw \o sock[s].high /\ sock'[s].low = sock[s].low
      /\ \A t \in Slot \ {s} : sock'[t] = sock[t]
  BY FetchedLists
<1>f. sock'[s].fd = sock[s].fd
  BY FetchedLists
<1>1. ASSUME NEW t \in Slot, t # s PROVE Ordered(t)'
  <2>0. Ordered(t) /\ sock'[t] = sock[t]
    BY <1>0, <1>1 DEF OrderInv
  <2>y. sock[t].dw \in Seq(Unit) /\ sock[t].high \in Seq(Unit) /\ sock[t].low \in Seq(Unit)
    BY BookTypes
  <2>1. On("send", t)' => Ahead(Of(sock[t].high) \cup Of(sock[t].low), Of(sock[t].dw))
    BY <2>0, OfEmpty DEF Ordered, Ahead
  <2> QED
    BY <1>m, <2>0, <2>1, <2>y, OrderedAfter DEF Ordered
<1>2. Ordered(s)'
  <2>0. Ordered(s)
    BY DEF OrderInv
  <2>y. sock[s].dw \in Seq(Unit) /\ sock[s].high \in Seq(Unit) /\ sock[s].low \in Seq(Unit) /\ <<>> \in Seq(Unit)
    BY BookTypes
  <2>a. sock[s].dw \o sock[s].high \in Seq(Unit)
    BY <2>y
  <2>h. PICK h \in Seq(Unit) : h = sock[s].dw \o sock[s].high
    BY <2>a
  <2>1. Of(h) = Of(sock[s].dw) \cup Of(sock[s].high) /\ Of(<<>>) = {}
    BY <2>h, <2>y, OfConcat, OfEmpty
  <2>2. Tidy(h) /\ Tidy(<<>>)
    BY <2>0, <2>h, <2>y, TidyConcat, TidyEmpty DEF Ordered
  <2>3. Ahead(Of(<<>>), Of(h))
    BY <2>1 DEF Ahead
  <2>4. sock[s].fd # 0 => Ahead(Of(wire[sock[s].fd]), Of(<<>>)) /\ Ahead(Of(wire[sock[s].fd]), Of(h))
    BY <2>0, <2>1 DEF Ordered, Ahead
  <2>5. Ahead(Of(h) \cup Of(sock[s].low), Of(<<>>))
    BY <2>1 DEF Ahead
  <2>6. \A n \in Of(sock[s].low) : n \in piped /\ msg[n].low
    BY <2>0 DEF Ordered
  <2> QED
    BY <1>m, <1>0, <1>f, <2>y, <2>h, <2>2, <2>3, <2>4, <2>5, <2>6, OrderedAfter
<1>3. \A t \in Slot : Of(sock'[t].dw) \cup Of(sock'[t].high) = Of(sock[t].dw) \cup Of(sock[t].high)
  <2>1. Of(sock[s].dw \o sock[s].high) = Of(sock[s].dw) \cup Of(sock[s].high) /\ Of(<<>>) = {}
    BY BookTypes, OfConcat, OfEmpty
  <2> QED
    BY <1>0, <2>1
<1>4. ASSUME NEW w \in Worker PROVE Storing(w)'
  BY <1>m, <1>3, StoringAfter DEF OrderInv
<1>5. \A id \in Id : Tidy(wire[id])'
  BY <1>m, WiresAfter DEF OrderInv
<1> QED
  BY <1>1, <1>2, <1>4, <1>5 DEF OrderInv

\* A slot that the step does not touch.
LEMMA OrderedOther ==
  ASSUME SocketType, OrderInv, UNCHANGED <<msg, piped>>, NEW t \in Slot, sock'[t] = sock[t],
         sock[t].fd # 0 => wire'[sock[t].fd] = wire[sock[t].fd],
         On("send", t)' => On("send", t) \/ sock'[t].dw = <<>>
  PROVE  Ordered(t)'
<1>0. Ordered(t)
  BY DEF OrderInv
<1>1. sock[t].dw \in Seq(Unit) /\ sock[t].high \in Seq(Unit) /\ sock[t].low \in Seq(Unit)
  BY BookTypes
<1>2. On("send", t)' => Ahead(Of(sock[t].high) \cup Of(sock[t].low), Of(sock[t].dw))
  BY <1>0, OfEmpty DEF Ordered, Ahead
<1>3. sock'[t].fd # 0 =>
        Ahead(Of(wire'[sock'[t].fd]), Of(sock[t].dw)) /\ Ahead(Of(wire'[sock'[t].fd]), Of(sock[t].high))
  BY <1>0 DEF Ordered
<1> QED
  BY <1>0, <1>1, <1>2, <1>3, OrderedAfter DEF Ordered

\* Another slot has another descriptor.
LEMMA OtherWire ==
  ASSUME SocketType, NEW s \in Slot, NEW t \in Slot, t # s, sock[t].fd # 0
  PROVE  sock[t].fd \in Id /\ sock[t].fd # sock[s].fd
<1>1. sock[t].fd \in 0..MaxId /\ HashId(sock[t].fd) = t /\ (sock[s].fd # 0 => HashId(sock[s].fd) = s)
  BY DEF SocketType, SocketsTyped, SockType
<1>2. sock[t].fd \in Id
  BY <1>1, SocketAssumption DEF Id
<1> QED
  BY <1>1, <1>2

\* What is written from the lists is in order and ahead of what is left.
LEMMA FlushTidy ==
  ASSUME SocketType, NEW s \in Slot, Ordered(s), NEW u \in Seq(Unit), NEW h \in Seq(Unit), NEW l \in Seq(Unit), Sent(s, u, h, l)
  PROVE  Tidy(u) /\ Tidy(h) /\ Ahead(Of(u), Of(h))
<1>t. sock[s].high \in Seq(Unit) /\ sock[s].low \in Seq(Unit)
  BY BookTypes
<1>1. CASE sock[s].high = u \o h /\ l = sock[s].low
  BY <1>1, TidySplit DEF Ordered
<1>2. CASE \E p \in Seq(Unit) : u = sock[s].high \o p /\ sock[s].low = (p \o h) \o l
  <2>1. PICK p \in Seq(Unit) : u = sock[s].high \o p /\ sock[s].low = (p \o h) \o l
    BY <1>2
  <2>2. p \o h \in Seq(Unit)
    OBVIOUS
  <2>3. Of(p \o h) = Of(p) \cup Of(h)
    BY OfConcat
  <2>4. Of((p \o h) \o l) = Of(p \o h) \cup Of(l)
    BY <2>2, OfConcat
  <2>5. Of(p) \subseteq Of(sock[s].low) /\ Of(h) \subseteq Of(sock[s].low)
    BY <2>1, <2>3, <2>4, Zenon
  <2>6. (\A n \in Of(p) : n \in piped /\ msg[n].low) /\ \A n \in Of(h) : n \in piped /\ msg[n].low
    BY <2>5 DEF Ordered
  <2>7. Tidy(p) /\ Tidy(h) /\ Ahead(Of(u), Of(h)) /\ Ahead(Of(sock[s].high), Of(p))
    BY <2>6, TidyAhead, AheadOfLow
  <2>8. Tidy(u)
    BY <1>t, <2>1, <2>7, TidyConcat DEF Ordered
  <2> QED
    BY <2>7, <2>8
<1> QED
  BY <1>1, <1>2 DEF Sent

\* Writing from the lists keeps the order.
LEMMA OrderFlushes ==
  ASSUME SocketType, OrderInv, NEW s \in Slot, NEW u \in Seq(Unit), NEW h \in Seq(Unit), NEW l \in Seq(Unit),
         Flushes(s, u, h, l), \A t \in Slot : On("send", t)' => On("send", t) \/ sock'[t].dw = <<>>
  PROVE  OrderInv'
<1>m. UNCHANGED <<msg, piped, wk>> /\ On("send", s) /\ Sent(s, u, h, l)
  BY DEF Flushes
<1>o. Ordered(s)
  BY DEF OrderInv
<1>w. \A id \in Id : wire'[id] = IF id = sock[s].fd THEN wire[id] \o u ELSE wire[id]
  BY <1>m DEF Sent
<1>0. /\ Of(u) \subseteq Of(sock[s].high) \cup Of(sock[s].low)
      /\ Of(h) \subseteq Of(sock[s].high) \cup Of(sock[s].low)
      /\ Of(l) \subseteq Of(sock[s].low)
  BY <1>m, SentOf
<1>t. sock[s].dw \in Seq(Unit) /\ sock[s].high \in Seq(Unit) /\ sock[s].low \in Seq(Unit) /\ <<>> \in Seq(Unit)
  BY BookTypes
<1>d. PICK d \in Seq(Unit) : d = sock'[s].dw /\ d \in {sock[s].dw, <<>>}
  BY <1>m, <1>t DEF Sent
<1>e. Of(d) \subseteq Of(sock[s].dw) /\ Tidy(d)
  BY <1>d, <1>o, OfEmpty, TidyEmpty DEF Ordered
<1>u. Tidy(u) /\ Tidy(h) /\ Ahead(Of(u), Of(h))
  BY <1>m, <1>o, FlushTidy
<1>l. \A A : Ahead(A, Of(sock[s].low))
  BY <1>o, AheadOfLow DEF Ordered
<1>1. ASSUME NEW t \in Slot, t # s PROVE Ordered(t)'
  <2>1. sock'[t] = sock[t] /\ (sock[t].fd # 0 => wire'[sock[t].fd] = wire[sock[t].fd])
    BY <1>1, <1>m, <1>w, OtherWire DEF Sent
  <2> QED
    BY <1>m, <2>1, OrderedOther
<1>2. Ordered(s)'
  <2>1. Ahead(Of(d), Of(h))
    <3>1. Ahead(Of(sock[s].dw), Of(sock[s].high)) /\ Ahead(Of(sock[s].dw), Of(sock[s].low))
      BY <1>l, <1>o DEF Ordered
    <3> QED
      BY <1>0, <1>e, <3>1 DEF Ahead
  <2>2. Ahead(Of(h) \cup Of(l), Of(d)) /\ Ahead(Of(u), Of(d))
    <3>1. Ahead(Of(sock[s].high) \cup Of(sock[s].low), Of(sock[s].dw))
      BY <1>m, <1>o DEF Ordered
    <3> QED
      BY <1>0, <1>e, <3>1 DEF Ahead
  <2>3. ASSUME sock[s].fd # 0
        PROVE  Ahead(Of(wire'[sock'[s].fd]), Of(d)) /\ Ahead(Of(wire'[sock'[s].fd]), Of(h))
    <3>0. sock[s].fd \in 0..MaxId
      BY DEF SocketType, SocketsTyped, SockType
    <3>1. sock[s].fd \in Id /\ sock'[s].fd = sock[s].fd
      BY <1>m, <2>3, <3>0, SocketAssumption DEF Id, Sent
    <3>2. wire'[sock[s].fd] = wire[sock[s].fd] \o u /\ wire[sock[s].fd] \in Seq(Unit)
      BY <1>w, <3>1, BookTypes
    <3>3. Of(wire'[sock[s].fd]) = Of(wire[sock[s].fd]) \cup Of(u)
      BY <3>2, OfConcat
    <3>4. /\ Ahead(Of(wire[sock[s].fd]), Of(sock[s].dw)) /\ Ahead(Of(wire[sock[s].fd]), Of(sock[s].high))
          /\ Ahead(Of(wire[sock[s].fd]), Of(sock[s].low))
      BY <1>l, <1>o, <2>3 DEF Ordered
    <3>5. Ahead(Of(wire[sock[s].fd]), Of(d)) /\ Ahead(Of(wire[sock[s].fd]), Of(h))
      BY <1>0, <1>e, <3>4 DEF Ahead
    <3> QED
      BY <1>u, <2>2, <3>1, <3>3, <3>5 DEF Ahead
  <2>4. \A n \in Of(l) : n \in piped /\ msg[n].low
    BY <1>0, <1>o DEF Ordered
  <2>5. sock'[s].high = h /\ sock'[s].low = l /\ sock'[s].fd = sock[s].fd
    BY <1>m DEF Sent
  <2> QED
    BY <1>m, <1>d, <1>e, <1>u, <2>1, <2>2, <2>3, <2>4, <2>5, OrderedAfter
<1>3. ASSUME NEW w \in Worker PROVE Storing(w)'
  <2>1. \A m \in Of(sock[s].low) : m \in piped
    BY <1>o DEF Ordered
  <2>2. ASSUME NEW t \in Slot, NEW m \in Of(sock'[t].dw) \cup Of(sock'[t].high)
        PROVE  m \in Of(sock[t].dw) \cup Of(sock[t].high) \/ m \in piped
    <3>1. CASE t = s
      <4>1. sock'[s].high = h
        BY <1>m DEF Sent
      <4> QED
        BY <1>0, <1>d, <1>e, <2>1, <2>2, <3>1, <4>1
    <3>2. CASE t # s
      BY <1>m, <2>2, <3>2 DEF Sent
    <3> QED
      BY <3>1, <3>2
  <2> QED
    BY <1>m, <2>2, StoringAfter DEF OrderInv
<1>4. ASSUME NEW id \in Id PROVE Tidy(wire'[id])
  <2>1. Tidy(wire[id]) /\ wire[id] \in Seq(Unit)
    BY BookTypes DEF OrderInv
  <2>2. CASE id = sock[s].fd
    <3>1. sock[s].fd # 0
      BY <2>2 DEF Id
    <3>2. Ahead(Of(wire[id]), Of(sock[s].high)) /\ Ahead(Of(wire[id]), Of(sock[s].low))
      BY <1>l, <1>o, <2>2, <3>1 DEF Ordered
    <3>3. Ahead(Of(wire[id]), Of(u))
      BY <1>0, <3>2 DEF Ahead
    <3> QED
      BY <1>u, <1>w, <2>1, <2>2, <3>3, TidyConcat
  <2> QED
    BY <1>w, <2>1, <2>2
<1>5. \A id \in Id : Tidy(wire[id])'
  BY <1>4, <1>m, WiresAfter
<1> QED
  BY <1>1, <1>2, <1>3, <1>5 DEF OrderInv

\* A list of one message is in order.
LEMMA OneTidy ==
  ASSUME NEW a, NEW n \in Nat, Of(a) \subseteq {n}
  PROVE  Tidy(a)
<1>1. Ahead(Of(a), Of(a))
  BY DEF Ahead, Overtakes
<1> QED
  BY <1>1, TidyAhead

\* What is in the lists and on the wire of a slot is used.
LEMMA OfUsed ==
  ASSUME SocketType, NEW t \in Slot
  PROVE  /\ \A m \in Of(sock[t].dw) \cup Of(sock[t].high) \cup Of(sock[t].low) : m \in Nat /\ Used(m)
         /\ sock[t].fd # 0 => \A m \in Of(wire[sock[t].fd]) : m \in Nat /\ Used(m)
<1>0. sock[t].dw \in Seq(Unit) /\ sock[t].high \in Seq(Unit) /\ sock[t].low \in Seq(Unit)
  BY BookTypes
<1>1. \A m \in Of(sock[t].dw) \cup Of(sock[t].high) \cup Of(sock[t].low) : m \in Nat /\ Used(m)
  BY <1>0, OfNat DEF Used, Queues
<1>2. ASSUME sock[t].fd # 0 PROVE \A m \in Of(wire[sock[t].fd]) : m \in Nat /\ Used(m)
  <2>1. sock[t].fd \in 0..MaxId
    BY DEF SocketType, SocketsTyped, SockType
  <2>2. sock[t].fd \in Id
    BY <1>2, <2>1, SocketAssumption DEF Id
  <2>3. wire[sock[t].fd] \in Seq(Unit)
    BY <2>2, BookTypes
  <2> QED
    BY <2>2, <2>3, OfNat DEF Used
<1> QED
  BY <1>1, <1>2

\* A message from the pipe is behind all that its sender sent before through the
\* pipe.
LEMMA OrderLists ==
  ASSUME SocketType, BookInv, OrderInv, NEW c \in {"D", "P"}, NEW n \in Nat, NEW s \in Slot, Takes(c, n, s), Lists(c, n, s)
  PROVE  OrderInv'
<1>m. UNCHANGED <<msg, piped, wk, wire, poll>> /\ poll.pc = "top"
  BY DEF Takes
<1>o. Ordered(s)
  BY DEF OrderInv
<1>t. /\ sock[s].dw \in Seq(Unit) /\ sock[s].high \in Seq(Unit) /\ sock[s].low \in Seq(Unit)
      /\ Units(n) \in Seq(Unit) /\ Of(Units(n)) = {n} /\ Tidy(Units(n))
  BY BookTypes, OfUnits, OneTidy
<1>q. n \in piped /\ (c = "P" => msg[n].low) /\ \A m \in piped : Used(m) /\ msg[m].by = msg[n].by => m < n
  <2>1. 1 \in DOMAIN pipe /\ pipe[1].n = n /\ IsData(pipe[1]) /\ Queued(1) /\ pipe[1].c = c
    BY DEF Takes, IsData, BookInv
  <2> QED
    BY <2>1 DEF Queued
<1>a. ASSUME NEW A, \A m \in A : m \in Nat /\ Used(m) PROVE Ahead(A, {n})
  <2>1. ASSUME NEW m \in A PROVE ~Overtakes(m, n)
    BY <1>a, <1>q, <2>1 DEF Overtakes
  <2> QED
    BY <2>1 DEF Ahead
<1>n. \A t \in Slot : ~On("send", t)'
  BY <1>m DEF On
<1>k. sock'[s].fd = sock[s].fd /\ sock'[s].dw = sock[s].dw /\ \A t \in Slot \ {s} : sock'[t] = sock[t]
  BY DEF Lists
<1>l. \A m \in Of(sock[s].low) : m \in piped /\ msg[m].low
  BY <1>o DEF Ordered
<1>1. ASSUME NEW t \in Slot, t # s PROVE Ordered(t)'
  BY <1>1, <1>k, <1>m, <1>n, OrderedOther
<1>2. Ordered(s)'
  <2>1. CASE sock'[s].high = sock[s].high \o Units(n) /\ sock'[s].low = sock[s].low
    <3>0. sock[s].high \o Units(n) \in Seq(Unit)
      BY <1>t
    <3>h. PICK h \in Seq(Unit) : h = sock[s].high \o Units(n)
      BY <3>0
    <3>1. Of(h) = Of(sock[s].high) \cup {n}
      BY <1>t, <3>h, OfConcat
    <3>2. Ahead(Of(sock[s].dw), {n}) /\ Ahead(Of(sock[s].high), {n})
      BY <1>a, OfUsed
    <3>3. Tidy(h)
      BY <1>o, <1>t, <3>2, <3>h, TidyConcat DEF Ordered
    <3>4. Ahead(Of(sock[s].dw), Of(h))
      BY <1>o, <3>1, <3>2 DEF Ahead, Ordered
    <3>5. sock[s].fd # 0 => Ahead(Of(wire[sock[s].fd]), Of(h)) /\ Ahead(Of(wire[sock[s].fd]), Of(sock[s].dw))
      <4>1. sock[s].fd # 0 => Ahead(Of(wire[sock[s].fd]), {n})
        BY <1>a, OfUsed
      <4> QED
        BY <1>o, <3>1, <4>1 DEF Ahead, Ordered
    <3>6. Tidy(sock[s].dw)
      BY <1>o DEF Ordered
    <3>7. sock'[s].dw = sock[s].dw /\ sock'[s].high = h /\ sock'[s].low = sock[s].low
      BY <1>k, <2>1, <3>h
    <3>8. sock'[s].fd # 0 => Ahead(Of(wire'[sock'[s].fd]), Of(sock[s].dw)) /\ Ahead(Of(wire'[sock'[s].fd]), Of(h))
      BY <1>k, <1>m, <3>5
    <3>9. sock[s].dw \in Seq(Unit) /\ sock[s].low \in Seq(Unit)
      BY <1>t
    <3> QED
      BY <1>l, <1>m, <1>n, <3>3, <3>4, <3>6, <3>7, <3>8, <3>9, OrderedAfter
  <2>2. CASE sock'[s].high = sock[s].high /\ sock'[s].low = sock[s].low \o Units(n) /\ c = "P"
    <3>0. sock[s].low \o Units(n) \in Seq(Unit)
      BY <1>t
    <3>h. PICK l \in Seq(Unit) : l = sock[s].low \o Units(n)
      BY <3>0
    <3>1. Of(l) = Of(sock[s].low) \cup {n}
      BY <1>t, <3>h, OfConcat
    <3>2. \A m \in Of(l) : m \in piped /\ msg[m].low
      BY <1>l, <1>q, <2>2, <3>1
    <3>3. /\ Tidy(sock[s].dw) /\ Tidy(sock[s].high) /\ Ahead(Of(sock[s].dw), Of(sock[s].high))
          /\ sock[s].fd # 0 => Ahead(Of(wire[sock[s].fd]), Of(sock[s].dw)) /\ Ahead(Of(wire[sock[s].fd]), Of(sock[s].high))
      BY <1>o DEF Ordered
    <3>7. sock'[s].dw = sock[s].dw /\ sock'[s].high = sock[s].high /\ sock'[s].low = l
      BY <1>k, <2>2, <3>h
    <3>8. sock'[s].fd # 0 =>
            Ahead(Of(wire'[sock'[s].fd]), Of(sock[s].dw)) /\ Ahead(Of(wire'[sock'[s].fd]), Of(sock[s].high))
      BY <1>k, <1>m, <3>3
    <3>9. sock[s].dw \in Seq(Unit) /\ sock[s].high \in Seq(Unit)
      BY <1>t
    <3> QED
      BY <1>m, <1>n, <3>2, <3>3, <3>7, <3>8, <3>9, OrderedAfter
  <2> QED
    BY <2>1, <2>2 DEF Lists
<1>3. ASSUME NEW w \in Worker PROVE Storing(w)'
  <2>1. Of(sock'[s].high) \subseteq Of(sock[s].high) \cup {n}
    <3>1. Of(sock[s].high \o Units(n)) = Of(sock[s].high) \cup {n}
      BY <1>t, OfConcat
    <3> QED
      BY <3>1 DEF Lists
  <2>2. ASSUME NEW t \in Slot, NEW m \in Of(sock'[t].dw) \cup Of(sock'[t].high)
        PROVE  m \in Of(sock[t].dw) \cup Of(sock[t].high) \/ m \in piped
    <3>1. CASE t = s
      BY <1>k, <1>q, <2>1, <2>2, <3>1
    <3>2. CASE t # s
      BY <1>k, <2>2, <3>2
    <3> QED
      BY <3>1, <3>2
  <2> QED
    BY <1>m, <2>2, StoringAfter DEF OrderInv
<1>4. \A id \in Id : Tidy(wire[id])'
  BY <1>m, WiresAfter DEF OrderInv
<1> QED
  BY <1>1, <1>2, <1>3, <1>4 DEF OrderInv

\* The message a worker is at is the last of its sender.
LEMMA LastOf ==
  ASSUME SocketType, BookInv, NEW w \in Worker, Busy(w), NEW n \in Nat, wk[w].n = n
  PROVE  /\ n \in DOMAIN msg /\ msg[n].by = w /\ n \notin piped
         /\ \A A, B : (\A m \in A : m \in Nat /\ Used(m)) /\ B \subseteq {n} => Ahead(A, B)
<1>1. n \in DOMAIN msg /\ msg[n].by = w /\ n \notin piped /\ \A m \in DOMAIN msg : msg[m].by = w => m <= n
  <2>1. Sending(w)
    BY DEF BookInv
  <2> QED
    BY <2>1, BookTypes DEF Sending
<1>2. ASSUME NEW A, NEW B, \A m \in A : m \in Nat /\ Used(m), B \subseteq {n} PROVE Ahead(A, B)
  <2>1. A \subseteq Nat /\ \A m \in A : m \in DOMAIN msg
    BY <1>2 DEF BookInv
  <2>2. \A m \in DOMAIN msg : msg[m].by = msg[n].by => m <= n
    BY <1>1
  <2> QED
    BY <1>2, <2>1, <2>2, AheadOfLast
<1> QED
  BY <1>1, <1>2

\* A direct write, only with empty lists, keeps the order.
LEMMA OrderHits ==
  ASSUME SocketType, BookInv, OrderInv, NEW w \in Worker, NEW n \in Nat, NEW s \in Slot, NEW u \in Seq(Unit), NEW r \in Seq(Unit),
         Hits(w, n, s, u, r)
  PROVE  OrderInv'
<1>m. UNCHANGED <<msg, piped, poll>>
  BY DEF Hits
<1>b. Busy(w) /\ wk[w].n = n /\ s = HashId(msg[n].to)
  BY DEF Hits, Works, Busy
<1>a. \A A, B : (\A m \in A : m \in Nat /\ Used(m)) /\ B \subseteq {n} => Ahead(A, B)
  BY <1>b, LastOf
<1>0. Of(u) \subseteq {n} /\ Of(r) \subseteq {n}
  BY OfConcat, OfUnits DEF Hits, Writes
<1>k. /\ \A t \in Slot \ {s} : sock'[t] = sock[t]
      /\ sock'[s].fd = sock[s].fd /\ sock'[s].dw = sock[s].dw /\ sock'[s].high = sock[s].high /\ sock'[s].low = sock[s].low
  <2>1. CASE sock' = sock
    BY <2>1
  <2>2. CASE sock' = [sock EXCEPT ![s].lock = Nobody]
    BY <2>2 DEF SocketType, SocketsTyped, SockType
  <2> QED
    BY <2>1, <2>2 DEF Hits, Writes
<1>e. sock[s].dw = <<>> /\ sock[s].high = <<>> /\ sock[s].low = <<>>
  BY <1>b DEF Hits, Writes, CanDirectWrite, SendBufferEmpty
<1>w. \A id \in Id : wire'[id] = IF id = sock[s].fd THEN wire[id] \o u ELSE wire[id]
  BY DEF Hits, Writes
<1>n. \A t \in Slot : On("send", t)' => On("send", t)
  BY <1>m DEF On
<1>1. ASSUME NEW t \in Slot, t # s PROVE Ordered(t)'
  <2>1. sock'[t] = sock[t] /\ (sock[t].fd # 0 => wire'[sock[t].fd] = wire[sock[t].fd])
    BY <1>1, <1>k, <1>w, OtherWire
  <2> QED
    BY <1>m, <1>n, <2>1, OrderedOther
<1>2. Ordered(s)'
  <2>1. \A A : Ahead(A, Of(<<>>))
    BY OfEmpty DEF Ahead
  <2>2. Tidy(<<>>) /\ <<>> \in Seq(Unit) /\ Of(<<>>) = {}
    BY TidyEmpty, OfEmpty
  <2> QED
    BY <1>e, <1>k, <1>m, <2>1, <2>2, OrderedAfter
<1>3. ASSUME NEW v \in Worker PROVE Storing(v)'
  <2>1. \A t \in Slot : Of(sock'[t].dw) = Of(sock[t].dw) /\ Of(sock'[t].high) = Of(sock[t].high)
    BY <1>k
  <2>2. CASE v # w
    <3>1. wk'[v] = wk[v]
      BY Zenon, <2>2 DEF Hits, Writes, SocketType, WorkersTyped
    <3> QED
      BY <1>m, <2>1, <3>1, StoringAfter DEF OrderInv
  <2>3. CASE v = w
    <3>1. wk'[w].pc = "store" => wk'[w].n = n
      BY DEF Hits, Writes, SocketType, WorkersTyped, Idle
    <3>2. ASSUME NEW t \in Slot, wk'[w].pc = "store", t = HashId(msg'[wk'[w].n].to)
          PROVE  Of(sock'[t].dw) \cup Of(sock'[t].high) = {}
      <4>1. t = s
        BY <1>b, <1>m, <3>1, <3>2 DEF HashId
      <4> QED
        BY <1>e, <1>k, <4>1, OfEmpty
    <3> QED
      BY Zenon, <2>3, <3>2 DEF Storing, Of, HashId
  <2> QED
    BY <2>2, <2>3
<1>4. ASSUME NEW id \in Id PROVE Tidy(wire'[id])
  <2>1. Tidy(wire[id]) /\ wire[id] \in Seq(Unit)
    BY BookTypes DEF OrderInv
  <2>2. CASE id = sock[s].fd
    <3>1. \A m \in Of(wire[id]) : m \in Nat /\ Used(m)
      BY <2>1, OfNat DEF Used
    <3>2. Ahead(Of(wire[id]), Of(u)) /\ Tidy(u)
      BY <1>0, <1>a, <3>1, OneTidy
    <3> QED
      BY <1>w, <2>1, <2>2, <3>2, TidyConcat
  <2> QED
    BY <1>w, <2>1, <2>2
<1>5. \A id \in Id : Tidy(wire[id])'
  BY <1>4, <1>m, WiresAfter
<1> QED
  BY <1>1, <1>2, <1>3, <1>5 DEF OrderInv

\* Storing the rest of a direct write keeps the order.
LEMMA OrderStows ==
  ASSUME SocketType, BookInv, OrderInv, NEW w \in Worker, NEW n \in Nat, NEW s \in Slot, Stows(w, n, s)
  PROVE  OrderInv'
<1>m. UNCHANGED <<msg, piped, poll, wire>> /\ wk' = [wk EXCEPT ![w] = Idle]
  BY DEF Stows, Puts
<1>b. Busy(w) /\ wk[w].n = n /\ s = HashId(msg[n].to) /\ wk[w].pc = "store"
  BY DEF Stows, Works, Busy
<1>a. /\ n \in DOMAIN msg /\ msg[n].by = w /\ n \notin piped
      /\ \A A, B : (\A m \in A : m \in Nat /\ Used(m)) /\ B \subseteq {n} => Ahead(A, B)
  BY <1>b, LastOf
<1>t. sock[s].dw \in Seq(Unit) /\ sock[s].high \in Seq(Unit) /\ sock[s].low \in Seq(Unit)
  BY BookTypes
<1>d. PICK d \in Seq(Unit) : d = wk[w].rest
  BY <1>b, BookTypes
<1>0. Of(d) \subseteq {n}
  BY <1>b, <1>d DEF BookInv, Sending
<1>k. /\ \A t \in Slot \ {s} : sock'[t] = sock[t]
      /\ sock'[s].fd = sock[s].fd /\ sock'[s].dw = d /\ sock'[s].high = sock[s].high /\ sock'[s].low = sock[s].low
  BY <1>d DEF Stows, Puts
<1>n. \A t \in Slot : On("send", t)' => On("send", t)
  BY <1>m DEF On
<1>o. Ordered(s) /\ Storing(w)
  BY DEF OrderInv
<1>1. ASSUME NEW t \in Slot, t # s PROVE Ordered(t)'
  BY <1>1, <1>k, <1>m, <1>n, OrderedOther
<1>2. Ordered(s)'
  <2>1. Tidy(d)
    BY <1>0, OneTidy
  <2>2. Ahead(Of(d), Of(sock[s].high))
    <3>1. \A m \in Of(sock[s].high) : msg[m].by = w => m \in piped
      BY <1>b, <1>o DEF Storing
    <3> QED
      BY <1>0, <1>a, <3>1 DEF Ahead, Overtakes
  <2>3. sock'[s].fd # 0 => Ahead(Of(wire'[sock'[s].fd]), Of(d)) /\ Ahead(Of(wire'[sock'[s].fd]), Of(sock[s].high))
    <3>1. sock[s].fd # 0 => Ahead(Of(wire[sock[s].fd]), Of(d))
      BY <1>0, <1>a, OfUsed
    <3> QED
      BY <1>k, <1>m, <1>o, <3>1 DEF Ordered
  <2>4. Ahead(Of(sock[s].high) \cup Of(sock[s].low), Of(d))
    BY <1>0, <1>a, OfUsed
  <2>5. Tidy(sock[s].high) /\ \A m \in Of(sock[s].low) : m \in piped /\ msg[m].low
    BY <1>o DEF Ordered
  <2> QED
    BY <1>k, <1>m, <1>t, <2>1, <2>2, <2>3, <2>4, <2>5, OrderedAfter
<1>3. ASSUME NEW v \in Worker PROVE Storing(v)'
  <2>1. CASE v = w
    <3>1. wk'[w].pc # "store"
      BY <1>m DEF SocketType, WorkersTyped, Idle
    <3> QED
      BY <2>1, <3>1 DEF Storing
  <2>2. CASE v # w
    <3>1. wk'[v] = wk[v]
      BY <1>m, <2>2 DEF SocketType, WorkersTyped
    <3>2. ASSUME NEW t \in Slot, NEW m \in Of(sock'[t].dw) \cup Of(sock'[t].high)
          PROVE  m \in Of(sock[t].dw) \cup Of(sock[t].high) \/ msg[m].by # v
      <4>1. CASE t = s
        BY <1>0, <1>a, <1>k, <2>2, <3>2, <4>1
      <4>2. CASE t # s
        BY <1>k, <3>2, <4>2
      <4> QED
        BY <4>1, <4>2
    <3> QED
      BY <1>m, <3>1, <3>2, StoringAfter DEF OrderInv
  <2> QED
    BY <2>1, <2>2
<1>4. \A id \in Id : Tidy(wire[id])'
  BY <1>m, WiresAfter DEF OrderInv
<1> QED
  BY <1>1, <1>2, <1>3, <1>4 DEF OrderInv

\* Sending keeps the order of what was sent.
LEMMA OrderSends ==
  ASSUME SocketType, BookInv, OrderInv, NEW w \in Sender, NEW n \in Nat, NEW r \in RequestType, Sends(w, n, r)
  PROVE  OrderInv'
<1>m. UNCHANGED <<sock, wire, poll>> /\ ~Used(n)
  BY DEF Sends
<1>q. piped \subseteq piped' /\ piped' \subseteq piped \cup {n}
  BY DEF Sends
<1>u. ASSUME NEW m \in Nat, Used(m)
      PROVE  m \in DOMAIN msg /\ msg'[m] = msg[m] /\ (m \in piped' <=> m \in piped)
  <2>1. m # n
    BY <1>m, <1>u
  <2> QED
    BY <1>q, <1>u, <2>1 DEF BookInv, Sends
<1>o. \A m, k \in Nat : Used(m) /\ Used(k) => (Overtakes(m, k)' <=> Overtakes(m, k))
  BY <1>u DEF Overtakes
<1>t. ASSUME NEW x, NEW y, \A m \in Of(x) \cup Of(y) : m \in Nat /\ Used(m)
      PROVE  (Tidy(x)' <=> Tidy(x)) /\ (Ahead(Of(x), Of(y))' <=> Ahead(Of(x), Of(y)))
  <2>1. (\A i \in DOMAIN x : x[i][1] \in Of(x)) /\ \A m \in Of(x) \cup Of(y) : m \in Nat /\ Used(m)
    BY <1>t DEF Of
  <2>2. Tidy(x)' <=> Tidy(x)
    BY <1>o, <2>1 DEF Tidy
  <2>3. Ahead(Of(x), Of(y))' <=> Ahead(Of(x), Of(y))
    BY <1>o, <2>1 DEF Ahead, Of
  <2> QED
    BY <2>2, <2>3
<1>1. ASSUME NEW s \in Slot PROVE Ordered(s)'
  <2>0. Ordered(s)
    BY DEF OrderInv
  <2>u. /\ \A m \in Of(sock[s].dw) \cup Of(sock[s].high) \cup Of(sock[s].low) : m \in Nat /\ Used(m)
        /\ sock[s].fd # 0 => \A m \in Of(wire[sock[s].fd]) : m \in Nat /\ Used(m)
    BY OfUsed
  <2>d. PICK d : d = sock[s].dw
    OBVIOUS
  <2>h. PICK h : h = sock[s].high
    OBVIOUS
  <2>l. PICK l : l = sock[s].low
    OBVIOUS
  <2>f. PICK f : f = wire[sock[s].fd]
    OBVIOUS
  <2>1. Tidy(d)' /\ Tidy(h)' /\ Ahead(Of(d), Of(h))'
    BY <1>t, <2>0, <2>u, <2>d, <2>h DEF Ordered
  <2>2. sock[s].fd # 0 => Ahead(Of(f), Of(d))' /\ Ahead(Of(f), Of(h))'
    BY <1>t, <2>0, <2>u, <2>d, <2>h, <2>f DEF Ordered
  <2>3. On("send", s) => Ahead(Of(h), Of(d))' /\ Ahead(Of(l), Of(d))'
    <3>1. On("send", s) => Ahead(Of(h), Of(d)) /\ Ahead(Of(l), Of(d))
      BY <2>0, <2>d, <2>h, <2>l DEF Ordered, Ahead
    <3> QED
      BY <1>t, <2>u, <2>d, <2>h, <2>l, <3>1
  <2>4. \A m \in Of(l) : m \in piped' /\ msg'[m].low
    BY <1>u, <2>0, <2>l, <2>u DEF Ordered
  <2>5. sock'[s].dw = d /\ sock'[s].high = h /\ sock'[s].low = l /\ wire'[sock'[s].fd] = f /\ sock'[s].fd = sock[s].fd
    BY <1>m, <2>d, <2>h, <2>l, <2>f
  <2>6. Tidy(sock[s].dw)' /\ Tidy(sock[s].high)'
    BY <2>1, <2>5 DEF Tidy
  <2>7. Ahead(Of(sock[s].dw), Of(sock[s].high))'
    BY <2>1, <2>5 DEF Ahead, Of
  <2>8. sock'[s].fd # 0 =>
          Ahead(Of(wire[sock[s].fd]), Of(sock[s].dw))' /\ Ahead(Of(wire[sock[s].fd]), Of(sock[s].high))'
    BY <2>2, <2>5 DEF Ahead, Of
  <2>9. On("send", s)' => Ahead(Of(sock[s].high) \cup Of(sock[s].low), Of(sock[s].dw))'
    BY SMTT(40), <1>m, <2>3, <2>5 DEF Ahead, Of, On
  <2> QED
    BY <2>4, <2>5, <2>6, <2>7, <2>8, <2>9 DEF Ordered, Of
<1>2. ASSUME NEW v \in Worker PROVE Storing(v)'
  <2>1. ASSUME NEW s \in Slot, wk'[v].pc = "store", s = HashId(msg'[wk'[v].n].to),
               NEW m \in Of(sock'[s].dw) \cup Of(sock'[s].high), msg'[m].by = v
        PROVE  m \in piped'
    <3>1. v # w
      BY <2>1 DEF Sends, Busy, Unsent
    <3>2. wk'[v] = wk[v] /\ Busy(v)
      BY <2>1, <3>1 DEF Sends, Busy
    <3>3. wk[v].n \in DOMAIN msg
      BY <3>2, BookTypes
    <3>4. msg'[wk[v].n] = msg[wk[v].n]
      BY <3>3 DEF Sends
    <3>5. m \in Of(sock[s].dw) \cup Of(sock[s].high) /\ m \in Nat /\ Used(m)
      BY <1>m, <2>1, OfUsed
    <3>6. msg[m].by = v
      BY <1>u, <2>1, <3>5
    <3>7. s = HashId(msg[wk[v].n].to) /\ wk[v].pc = "store"
      BY <2>1, <3>2, <3>4 DEF HashId
    <3>8. m \in piped
      BY <3>5, <3>6, <3>7 DEF OrderInv, Storing
    <3> QED
      BY <1>q, <3>8
  <2> QED
    BY Zenon, <2>1 DEF Storing, Of, HashId
<1>3. ASSUME NEW id \in Id PROVE Tidy(wire[id])'
  <2>1. Tidy(wire[id]) /\ wire[id] \in Seq(Unit)
    BY BookTypes DEF OrderInv
  <2>2. \A m \in Of(wire[id]) : m \in Nat /\ Used(m)
    BY <2>1, OfNat DEF Used
  <2>f. PICK f : f = wire[id]
    OBVIOUS
  <2>3. Tidy(f)'
    BY <1>t, <2>1, <2>2, <2>f
  <2> QED
    BY <1>m, <2>3, <2>f DEF Tidy
<1> QED
  BY <1>1, <1>2, <1>3 DEF OrderInv

\* Every step keeps the order.
LEMMA OrderNext == SocketType /\ BookInv /\ OrderInv /\ [Next]_sockvars => OrderInv'
<1> SUFFICES ASSUME SocketType, BookInv, OrderInv, [Next]_sockvars PROVE OrderInv'
  OBVIOUS
<1>1. \A s \in Slot : On("send", s)' => On("send", s) \/ sock'[s].dw = <<>>
  BY SendEntered
<1> QED
  BY <1>1, Steps, OrderLoses, OrderSends, OrderHits, OrderStows, OrderLists, OrderFetches, OrderFlushes

\* The order holds at the start.
LEMMA OrderInit == Init => OrderInv
<1> SUFFICES ASSUME Init PROVE OrderInv
  OBVIOUS
<1>1. /\ \A w \in Worker : wk[w].pc = "idle"
      /\ \A id \in Id : wire[id] = <<>>
      /\ \A s \in Slot : sock[s].dw = <<>> /\ sock[s].high = <<>> /\ sock[s].low = <<>>
  BY Zenon DEF Init, Idle, Free, Id
<1>2. \A A : Ahead(A, Of(<<>>))
  BY OfEmpty DEF Ahead
<1>3. \A s \in Slot : Ordered(s)
  BY <1>1, <1>2, TidyEmpty, OfEmpty DEF Ordered
<1>4. \A w \in Worker : Storing(w)
  BY <1>1 DEF Storing
<1> QED
  BY <1>1, <1>3, <1>4, TidyEmpty DEF OrderInv

\* Who sent what and what is under way: a message that is written or in a list is
\* not in the pipe any more, a worker that sends is at its own last message, and
\* the messages of one thread are in the pipe in the order of sending.
THEOREM BooksAreKept == Spec => []BookInv
<1>1. Init => BookInv
  BY BookInit
<1>2. SocketInv /\ SocketInv' /\ BookInv /\ [Next]_sockvars => BookInv'
  BY BookNext DEF SocketInv
<1> QED
  BY <1>1, <1>2, SocketInvariance, PTL DEF Spec

\* Messages of one thread to one socket are written in the order of sending, except
\* that a message written directly may overtake one that is still in the pipe, and
\* any message one of low priority: whatever direct writes, the pipe and the lists
\* of socket_server.c do to them in whatever interleaving.
THEOREM SenderOrderKept == Spec => []SenderOrder
<1>1. Init => OrderInv
  BY OrderInit
<1>2. SocketInv /\ BookInv /\ OrderInv /\ [Next]_sockvars => OrderInv'
  BY OrderNext DEF SocketInv
<1>3. OrderInv => SenderOrder
  BY DEF OrderInv, SenderOrder, Tidy, Overtakes, Id
<1> QED
  BY <1>1, <1>2, <1>3, SocketInvariance, BooksAreKept, PTL DEF Spec

-----------------------------------------------------------------------------
(* Ids are given out once                                                  *)

\* Nobody is told an id that is only reserved, and messages go to known ids.
IdInv ==
    /\ \A id \in known : id <= alloc
    /\ \A w \in Worker : wk[w].pc = "reserved" =>
          /\ wk[w].id <= alloc /\ wk[w].id \notin known
          /\ \A v \in Worker : wk[v].pc = "reserved" /\ wk[v].id = wk[w].id => v = w
    /\ \A n \in DOMAIN msg : msg[n].to \in known

\* The next id is greater than all before.
LEMMA NextIdNew ==
  ASSUME SocketType, FreeIds # {}
  PROVE  NextId > alloc
<1>1. FreeIds \subseteq Nat
  BY SocketAssumption DEF FreeIds, SocketType
<1>2. \E id \in FreeIds : \A other \in FreeIds : id <= other
  BY <1>1, Least
<1>3. NextId \in FreeIds
  BY <1>2 DEF NextId
<1> QED
  BY <1>3, SocketAssumption DEF FreeIds, SocketType

\* The types of the ids.
LEMMA ReservedIds ==
  ASSUME SocketType
  PROVE  /\ \A w \in Worker : wk[w].pc = "reserved" => wk[w].id \in Id /\ wk[w].id \in Nat
         /\ known \subseteq Nat /\ alloc \in Nat
<1>1. ASSUME NEW w \in Worker, wk[w].pc = "reserved" PROVE wk[w].id \in Id /\ wk[w].id \in Nat
  <2>1. wk[w] \in WorkerType
    BY DEF SocketType, WorkersTyped
  <2>2. wk[w].id \in Id
    BY <1>1, <2>1 DEF WorkerType
  <2> QED
    BY <2>2 DEF Id
<1> QED
  BY <1>1 DEF SocketType, Id

\* A step that gives out no id keeps what is known of them.
LEMMA IdFrame ==
  ASSUME IdInv, UNCHANGED <<alloc, known>>, \A w \in Worker : wk'[w].pc = "reserved" => wk'[w] = wk[w],
         \A n \in DOMAIN msg' : (n \in DOMAIN msg /\ msg'[n] = msg[n]) \/ msg'[n].to \in known
  PROVE  IdInv'
BY DEF IdInv

\* reserve_id gives a new id to one worker.
LEMMA IdReserve ==
  ASSUME SocketType, IdInv, NEW w \in Worker, NEW c, Reserve(w, c)
  PROVE  IdInv'
<1>n. PICK n \in Nat : n = NextId /\ n > alloc
  BY NextIdFree, NextIdNew DEF Reserve
<1>t. /\ \A v \in Worker : wk[v].pc = "reserved" => wk[v].id \in Nat
      /\ known \subseteq Nat /\ alloc \in Nat
  BY ReservedIds
<1>1. /\ alloc' = n /\ UNCHANGED <<known, msg>> /\ wk' = [wk EXCEPT ![w] = [pc |-> "reserved", id |-> n, c |-> c]]
  BY <1>n DEF Reserve
<1>2. wk'[w].pc = "reserved" /\ wk'[w].id = n /\ \A v \in Worker \ {w} : wk'[v] = wk[v]
  BY <1>1 DEF SocketType, WorkersTyped
<1>3. \A id \in known' : id <= alloc'
  BY <1>1, <1>n, <1>t DEF IdInv
<1>4. n \notin known
  BY <1>n, <1>t DEF IdInv
<1>5. ASSUME NEW v \in Worker, wk'[v].pc = "reserved" PROVE wk'[v].id <= alloc' /\ wk'[v].id \notin known'
  <2>1. CASE v = w
    BY <1>1, <1>2, <1>4, <2>1
  <2>2. CASE v # w
    BY <1>1, <1>2, <1>5, <1>n, <1>t, <2>2 DEF IdInv
  <2> QED
    BY <2>1, <2>2
<1>6. ASSUME NEW v \in Worker \ {w}, wk[v].pc = "reserved" PROVE wk[v].id # n
  BY <1>6, <1>n, <1>t DEF IdInv
<1>7. ASSUME NEW v \in Worker, NEW x \in Worker, wk'[v].pc = "reserved", wk'[x].pc = "reserved", wk'[x].id = wk'[v].id
      PROVE  x = v
  <2>1. CASE v = w \/ x = w
    BY <1>2, <1>6, <1>7, <2>1
  <2>2. CASE v # w /\ x # w
    BY <1>2, <1>7, <2>2 DEF IdInv
  <2> QED
    BY <2>1, <2>2
<1>8. \A m \in DOMAIN msg' : msg'[m].to \in known'
  BY <1>1 DEF IdInv
<1> QED
  BY <1>3, <1>5, <1>7, <1>8 DEF IdInv

\* The id is told when it is stored.
LEMMA IdRequest ==
  ASSUME SocketType, IdInv, NEW w \in Worker, SendRequest(w)
  PROVE  IdInv'
<1>1. /\ wk[w].pc = "reserved" /\ known' = known \cup {wk[w].id} /\ UNCHANGED <<alloc, msg>> /\ wk' = [wk EXCEPT ![w] = Idle]
  BY DEF SendRequest
<1>2. wk'[w].pc # "reserved" /\ \A v \in Worker \ {w} : wk'[v] = wk[v]
  BY <1>1 DEF SocketType, WorkersTyped, Idle
<1>3. \A id \in known' : id <= alloc'
  BY <1>1 DEF IdInv
<1>4. ASSUME NEW v \in Worker, wk'[v].pc = "reserved" PROVE wk'[v].id <= alloc' /\ wk'[v].id \notin known' /\ v # w
  <2>1. v # w /\ wk'[v] = wk[v] /\ wk[v].pc = "reserved"
    BY <1>2, <1>4
  <2> QED
    BY <1>1, <2>1 DEF IdInv
<1>5. ASSUME NEW v \in Worker, NEW x \in Worker, wk'[v].pc = "reserved", wk'[x].pc = "reserved", wk'[x].id = wk'[v].id
      PROVE  x = v
  BY <1>2, <1>4, <1>5 DEF IdInv
<1>6. \A m \in DOMAIN msg' : msg'[m].to \in known'
  BY <1>1 DEF IdInv
<1> QED
  BY <1>3, <1>4, <1>5, <1>6 DEF IdInv

\* report_accept gives and tells a new id.
LEMMA IdAccept ==
  ASSUME SocketType, IdInv, FreeIds # {}, alloc' = NextId, known' = known \cup {NextId}, UNCHANGED <<wk, msg>>
  PROVE  IdInv'
<1>n. PICK n \in Nat : n = NextId /\ n > alloc
  BY NextIdFree, NextIdNew
<1>t. /\ \A v \in Worker : wk[v].pc = "reserved" => wk[v].id \in Nat
      /\ known \subseteq Nat /\ alloc \in Nat
  BY ReservedIds
<1>1. alloc' = n /\ known' = known \cup {n}
  BY <1>n
<1>2. ASSUME NEW id \in known' PROVE id <= alloc'
  <2>1. CASE id \in known
    <3>1. id <= alloc /\ id \in Nat
      BY <1>t, <2>1 DEF IdInv
    <3> QED
      BY <1>1, <1>n, <1>t, <3>1
  <2> QED
    BY <1>1, <2>1
<1>3. ASSUME NEW v \in Worker, wk[v].pc = "reserved" PROVE wk[v].id <= alloc' /\ wk[v].id \notin known'
  BY <1>1, <1>3, <1>n, <1>t DEF IdInv
<1> QED
  BY <1>1, <1>2, <1>3 DEF IdInv

\* Every step keeps what is known of the ids.
LEMMA IdNext == SocketType /\ IdInv /\ [Next]_sockvars => IdInv'
<1> SUFFICES ASSUME SocketType, IdInv, [Next]_sockvars PROVE IdInv'
  OBVIOUS
<1>f. ASSUME UNCHANGED <<alloc, known, wk, msg>> PROVE IdInv'
  BY <1>f, IdFrame
<1>1. CASE UNCHANGED sockvars
  BY <1>1, <1>f DEF sockvars
<1>2. CASE \E w \in Worker : TryLock(w) \/ DirectWrite(w) \/ StoreRest(w) \/ PostData(w)
  <2>1. PICK w \in Worker : TryLock(w) \/ DirectWrite(w) \/ StoreRest(w) \/ PostData(w)
    BY Zenon, <1>2
  <2>2. UNCHANGED <<alloc, known, msg>>
    BY ZenonT(60), <2>1 DEF TryLock, DirectWrite, StoreRest, PostData
  <2>3. \/ \E pc \in {"locked", "post"} : wk' = [wk EXCEPT ![w].pc = pc]
        \/ wk' = [wk EXCEPT ![w] = Idle]
        \/ \E n, r : wk' = [wk EXCEPT ![w] = [pc |-> "store", n |-> n, rest |-> r]]
    BY Zenon, <2>1 DEF TryLock, DirectWrite, StoreRest, PostData
  <2>4. CASE \E pc \in {"locked", "post"} : wk' = [wk EXCEPT ![w].pc = pc]
    <3>1. PICK pc \in {"locked", "post"} : wk' = [wk EXCEPT ![w].pc = pc]
      BY Zenon, <2>4
    <3>2. wk[w] \in [pc : {"try", "locked"}, n : Nat] \/ wk[w].pc = "store" \/ wk[w].pc = "post"
      BY Zenon, <2>1 DEF TryLock, DirectWrite, StoreRest, PostData, SocketType, WorkersTyped, WorkerType
    <3>3. wk'[w] = [wk[w] EXCEPT !.pc = pc] /\ \A v \in Worker \ {w} : wk'[v] = wk[v]
      BY <3>1 DEF SocketType, WorkersTyped
    <3>4. wk[w] \in WorkerType
      BY DEF SocketType, WorkersTyped
    <3>5. wk'[w].pc = pc
      BY <3>3, <3>4 DEF WorkerType
    <3> QED
      BY <2>2, <3>3, <3>5, IdFrame
  <2>5. CASE wk' = [wk EXCEPT ![w] = Idle] \/ \E n, r : wk' = [wk EXCEPT ![w] = [pc |-> "store", n |-> n, rest |-> r]]
    <3>1. wk'[w].pc # "reserved" /\ \A v \in Worker \ {w} : wk'[v] = wk[v]
      BY <2>5 DEF SocketType, WorkersTyped, Idle
    <3> QED
      BY <2>2, <3>1, IdFrame
  <2> QED
    BY <2>3, <2>4, <2>5
<1>3. CASE \E w \in Opener : \/ Reserve(w, "O") \/ Reserve(w, "L")
                             \/ \E c \in {"K", "H", "S"}, id \in known : Request(w, c, id)
  <2>1. PICK w \in Worker : \/ Reserve(w, "O") \/ Reserve(w, "L")
                            \/ \E c \in {"K", "H", "S"}, id \in known : Request(w, c, id)
    BY <1>3 DEF Worker
  <2> QED
    BY <1>f, <2>1, IdReserve DEF Request
<1>4. CASE \E w \in Sender, id \in known \ {1} : SendStart(w, id) \/ SendLow(w, id)
  <2>1. PICK w \in Sender, id \in known : SendStart(w, id) \/ SendLow(w, id)
    BY <1>4
  <2>2. UNCHANGED <<alloc, known>> /\ \E low \in BOOLEAN : NewMessage(w, id, low)
    BY <2>1 DEF SendStart, SendLow
  <2>3. \A n \in DOMAIN msg' : (n \in DOMAIN msg /\ msg'[n] = msg[n]) \/ msg'[n].to \in known
    <3>1. PICK low \in BOOLEAN : NewMessage(w, id, low)
      BY <2>2
    <3>2. w \in Worker /\ id \in Id
      BY DEF Worker, SocketType
    <3>a. [by |-> w, to |-> id, low |-> low] \in MsgType /\ [by |-> w, to |-> id, low |-> low].to = id
      BY <3>2 DEF MsgType
    <3>r. PICK r \in MsgType : r = [by |-> w, to |-> id, low |-> low] /\ r.to = id
      BY <3>a
    <3>3. msg' = Append(msg, r) /\ msg \in Seq(MsgType)
      BY <3>1, <3>r DEF NewMessage, SocketType
    <3>4. \A n \in DOMAIN msg' : (n \in DOMAIN msg /\ msg'[n] = msg[n]) \/ msg'[n] = r
      BY <3>3
    <3> QED
      BY <3>4, <3>r
  <2>4. \A v \in Worker : wk'[v].pc = "reserved" => wk'[v] = wk[v]
    <3>1. wk' = wk \/ \E pc \in {"try", "post"} : \E n : wk' = [wk EXCEPT ![w] = [pc |-> pc, n |-> n]]
      BY Zenon, <2>1 DEF SendStart, SendLow
    <3>2. ASSUME NEW pc \in {"try", "post"}, NEW n, wk' = [wk EXCEPT ![w] = [pc |-> pc, n |-> n]]
          PROVE  \A v \in Worker : wk'[v].pc = "reserved" => wk'[v] = wk[v]
      BY <3>2 DEF SocketType, WorkersTyped, Worker
    <3> QED
      BY <3>1, <3>2
  <2> QED
    BY <2>2, <2>3, <2>4, IdFrame
<1>5. CASE OpenSocket \/ ListenSocket \/ StartSocket \/ CloseSocket("K") \/ CloseSocket("H") \/ SendSocket("D") \/ SendSocket("P")
  BY Zenon, <1>5, <1>f DEF OpenSocket, ListenSocket, StartSocket, CloseSocket, SendSocket, Cmd
<1>6. CASE OpenFailed \/ CloseDecide \/ PollSend \/ CloseEnd \/ ClearClosedEvent \/ PollWait \/ ReportConnectDone
  BY <1>6, <1>f DEF OpenFailed, CloseDecide, PollSend, CloseEnd, ClearClosedEvent, PollWait, ReportConnectDone
<1>7. CASE ReportConnect \/ InvalidSocket \/ ForwardMessage \/ WriteEvent \/ ErrorEvent
  BY <1>7, <1>f DEF ReportConnect, InvalidSocket, ForwardMessage, WriteEvent, ErrorEvent, TakeEvent
<1>8. CASE ReportAccept
  BY <1>8, <1>f, IdAccept DEF ReportAccept, TakeEvent
<1>9. CASE PollStep
  BY <1>9, <1>5, <1>6, <1>7, <1>8, Zenon DEF PollStep
<1>10. CASE \E w \in Worker : WorkerStep(w)
  BY <1>2, <1>10, IdRequest DEF WorkerStep
<1>11. CASE Next
  BY <1>3, <1>4, <1>9, <1>10, <1>11, Zenon DEF Next
<1> QED
  BY <1>1, <1>11

\* No id is given at the start.
LEMMA IdInit == Init => IdInv
<1> SUFFICES ASSUME Init PROVE IdInv
  OBVIOUS
<1>1. known = {1} /\ alloc = 1 /\ msg = <<>> /\ \A w \in Worker : wk[w].pc = "idle"
  BY Zenon DEF Init, Idle
<1> QED
  BY <1>1 DEF IdInv

\* An id that services do not know has no traffic.
LEMMA UnknownUnwritten ==
  ASSUME SocketInv, IdInv, NEW id \in Id, id \notin known, Calm(HashId(id))
  PROVE  wire[id] = <<>>
<1>1. SocketType /\ HashId(id) \in Slot
  BY HashSlot DEF SocketInv, Id
<1>s. PICK s \in Slot : s = HashId(id)
  BY <1>1
<1>2. Delivered(s)
  BY <1>s DEF SocketInv, SlotInv
<1>3. To(wire[id], id)
  BY <1>2, <1>s DEF Delivered
<1>4. DOMAIN wire[id] = {}
  BY <1>3 DEF To, IdInv
<1>5. wire[id] \in Seq(Unit)
  BY <1>1, BookTypes
<1>6. ASSUME NEW q \in Seq(Unit), DOMAIN q = {} PROVE q = <<>>
  <2>1. DOMAIN q = 1..Len(q) /\ Len(q) \in Nat
    OBVIOUS
  <2>2. Len(q) = 0
    BY <1>6, <2>1
  <2> QED
    BY <2>2
<1> QED
  BY <1>4, <1>5, <1>6

\* Races are not forgotten.
LEMMA RacedGrows ==
  ASSUME [Next]_sockvars
  PROVE  raced \subseteq raced'
<1>f. ASSUME NEW s, NEW why, NEW ctrl, ForceClose(s, why, ctrl) PROVE raced \subseteq raced'
  BY <1>f DEF ForceClose, Abort
<1>n. ASSUME NEW s, NEW id, NEW type, NEW add, NewFd(s, id, type, add) PROVE raced \subseteq raced'
  BY <1>n DEF NewFd
<1>1. CASE UNCHANGED sockvars
  BY Zenon, <1>1 DEF sockvars
<1>2. CASE \E w \in Worker : WorkerStep(w)
  BY Zenon, <1>2 DEF WorkerStep, SendRequest, TryLock, DirectWrite, StoreRest, PostData
<1>3. CASE \E w \in Opener : \/ Reserve(w, "O") \/ Reserve(w, "L")
                             \/ \E c \in {"K", "H", "S"}, id \in known : Request(w, c, id)
  BY <1>3 DEF Reserve, Request
<1>4. CASE \E w \in Sender, id \in known \ {1} : SendStart(w, id) \/ SendLow(w, id)
  BY <1>4 DEF SendStart, SendLow
<1>5. CASE OpenSocket \/ ListenSocket \/ StartSocket
  BY Zenon, <1>5, <1>f, <1>n DEF OpenSocket, NewFdFails, ListenSocket, StartSocket
<1>6. CASE CloseSocket("K") \/ CloseSocket("H") \/ SendSocket("D") \/ SendSocket("P")
  BY Zenon, <1>6 DEF CloseSocket, SendSocket
<1>7. CASE OpenFailed \/ CloseDecide \/ CloseEnd \/ ClearClosedEvent
  BY <1>7, <1>f DEF OpenFailed, CloseDecide, CloseEnd, ClearClosedEvent
<1>8. CASE PollSend
  <2>1. ASSUME NEW k, SendBuffer_(k) PROVE raced \subseteq raced'
    BY Zenon, <2>1 DEF SendBuffer_
  <2>2. ASSUME SendFails PROVE raced \subseteq raced'
    BY <2>2 DEF SendFails, Abort
  <2> QED
    BY Zenon, <1>8, <2>1, <2>2 DEF PollSend
<1>9. CASE PollWait \/ ReportConnectDone \/ InvalidSocket \/ WriteEvent
  BY <1>9 DEF PollWait, ReportConnectDone, InvalidSocket, WriteEvent
<1>10. CASE ReportConnect \/ ForwardMessage \/ ErrorEvent
  BY <1>10, <1>f DEF ReportConnect, ForwardMessage, ErrorEvent
<1>11. CASE ReportAccept
  BY <1>11, <1>n DEF ReportAccept
<1>12. CASE PollStep
  BY <1>12, <1>5, <1>6, <1>7, <1>8, <1>9, <1>10, <1>11, Zenon DEF PollStep
<1>13. CASE Next
  BY <1>2, <1>3, <1>4, <1>12, <1>13, Zenon DEF Next
<1> QED
  BY <1>1, <1>13

\* A slot that is calm was calm before.
LEMMA CalmBefore ==
  ASSUME [Next]_sockvars, NEW s \in Slot, Calm(s)'
  PROVE  Calm(s)
BY RacedGrows DEF Calm, HashId

\* A request to open a socket carries the id of the thread that has reserved it.
LEMMA PipeForm ==
  ASSUME SocketType, [Next]_sockvars
  PROVE  \/ pipe' = pipe
         \/ pipe # <<>> /\ pipe' = Tail(pipe)
         \/ \E r \in RequestType : /\ pipe' = Append(pipe, r)
                                   /\ r.c \in {"O", "L"} => /\ UNCHANGED <<wire, listed, msg>>
                                                            /\ \E w \in Worker : wk[w].pc = "reserved" /\ r.id = wk[w].id
<1> DEFINE Posts == \E r \in RequestType : /\ pipe' = Append(pipe, r)
                                           /\ r.c \in {"O", "L"} => /\ UNCHANGED <<wire, listed, msg>>
                                                                    /\ \E w \in Worker : wk[w].pc = "reserved" /\ r.id = wk[w].id
<1>1. CASE UNCHANGED sockvars
  BY <1>1 DEF sockvars
<1>2. ASSUME NEW w \in Worker, SendRequest(w) PROVE Posts
  <2>1. wk[w].pc = "reserved" /\ wk[w] \in WorkerType
    BY <1>2 DEF SendRequest, SocketType, WorkersTyped
  <2>2. wk[w].id \in Id /\ wk[w].c \in {"O", "L"}
    BY <2>1 DEF WorkerType
  <2>3. [c |-> wk[w].c, id |-> wk[w].id] \in RequestType
    BY <2>2 DEF RequestType
  <2>r. PICK r \in RequestType : r = [c |-> wk[w].c, id |-> wk[w].id]
    BY <2>3
  <2>4. r.id = wk[w].id /\ pipe' = Append(pipe, r) /\ UNCHANGED <<wire, listed, msg>>
    BY <1>2, <2>r DEF SendRequest
  <2> QED
    BY <2>1, <2>4
<1>3. ASSUME NEW w \in Worker, PostData(w) PROVE Posts
  <2>1. wk[w].n \in Nat /\ wk[w].n \in DOMAIN msg
    BY <1>3, BookTypes DEF PostData, Busy
  <2>2. msg[wk[w].n] \in MsgType
    BY <2>1 DEF SocketType
  <2>3. msg[wk[w].n].to \in Id
    BY <2>2 DEF MsgType
  <2>4. [c |-> "D", id |-> msg[wk[w].n].to, n |-> wk[w].n] \in RequestType
    BY <2>1, <2>3 DEF RequestType
  <2>r. PICK r \in RequestType : r = [c |-> "D", id |-> msg[wk[w].n].to, n |-> wk[w].n]
    BY <2>4
  <2>5. r.c = "D" /\ pipe' = Append(pipe, r)
    BY <1>3, <2>r DEF PostData
  <2> QED
    BY <2>5
<1>4. ASSUME NEW w \in Sender, NEW id \in known, SendLow(w, id) PROVE pipe' = pipe \/ Posts
  <2>1. Len(msg) + 1 \in Nat /\ id \in Id
    BY DEF SocketType
  <2>4. [c |-> "P", id |-> id, n |-> Len(msg) + 1] \in RequestType
    BY <2>1 DEF RequestType
  <2>r. PICK r \in RequestType : r = [c |-> "P", id |-> id, n |-> Len(msg) + 1]
    BY <2>4
  <2>5. r.c = "P" /\ (pipe' = pipe \/ pipe' = Append(pipe, r))
    BY <1>4, <2>r DEF SendLow
  <2> QED
    BY <2>5
<1>5. ASSUME NEW w \in Worker, NEW c \in {"K", "H", "S"}, NEW id \in known, Request(w, c, id) PROVE Posts
  <2>1. id \in Id
    BY DEF SocketType
  <2>4. [c |-> c, id |-> id] \in RequestType
    BY <2>1 DEF RequestType
  <2>r. PICK r \in RequestType : r = [c |-> c, id |-> id]
    BY <2>4
  <2>5. r.c = c /\ pipe' = Append(pipe, r)
    BY <1>5, <2>r DEF Request
  <2> QED
    BY <2>5
<1> HIDE DEF Posts
<1>6. CASE \E w \in Worker : WorkerStep(w)
  <2>1. pipe' = pipe \/ Posts
    BY Zenon, <1>2, <1>3, <1>6 DEF WorkerStep, TryLock, DirectWrite, StoreRest
  <2> QED
    BY Zenon, <2>1 DEF Posts
<1>7. CASE \E w \in Opener : \/ Reserve(w, "O") \/ Reserve(w, "L")
                             \/ \E c \in {"K", "H", "S"}, id \in known : Request(w, c, id)
  <2>1. PICK w \in Worker : \/ Reserve(w, "O") \/ Reserve(w, "L")
                            \/ \E c \in {"K", "H", "S"}, id \in known : Request(w, c, id)
    BY <1>7 DEF Worker
  <2>2. pipe' = pipe \/ Posts
    BY <1>5, <2>1 DEF Reserve
  <2> QED
    BY <2>2 DEF Posts
<1>8. CASE \E w \in Sender, id \in known \ {1} : SendStart(w, id) \/ SendLow(w, id)
  <2>1. pipe' = pipe \/ Posts
    BY Zenon, <1>4, <1>8 DEF SendStart
  <2> QED
    BY <2>1 DEF Posts
<1>9. CASE PollStep
  <2>1. pipe' = pipe \/ (pipe # <<>> /\ pipe' = Tail(pipe))
    BY Zenon, <1>9 DEF PollStep, OpenSocket, OpenFailed, ListenSocket, StartSocket, CloseSocket, SendSocket, Cmd, CloseDecide, PollSend, CloseEnd,
         ClearClosedEvent, PollWait, ReportConnect, ReportConnectDone, ReportAccept, InvalidSocket, ForwardMessage, WriteEvent,
         ErrorEvent, TakeEvent
  <2> QED
    BY <2>1
<1>10. CASE Next
  <2>1. CASE pipe' = pipe \/ Posts
    BY <2>1 DEF Posts
  <2> QED
    BY <1>6, <1>7, <1>8, <1>9, <1>10, <2>1, Zenon DEF Next
<1> QED
  BY <1>1, <1>10

-----------------------------------------------------------------------------
(* A connection starts with nothing written                                *)

\* nothing was written to the connection of id or listed for it
Virgin(id) == wire[id] = <<>> /\ \A n \in listed : msg[n].to # id

\* Until the request to open a socket is taken its id is without traffic.
FirstInv ==
    /\ listed \subseteq DOMAIN msg
    /\ \A s \in Slot : Calm(s) => \A i \in DOMAIN pipe : Asks(pipe[i], s) => Virgin(pipe[i].id)

\* What may happen to the traffic of an id that is asked for.
LEMMA VirginKept ==
  ASSUME SocketInv, BookInv, FirstInv, [Next]_sockvars, NEW s \in Slot, Calm(s)', sock[s].type = "RESERVE",
         NEW id \in Id, HashId(id) = s, Virgin(id)
  PROVE  Virgin(id)'
<1>0. SocketType /\ Calm(s) /\ SlotInv(s)
  BY CalmBefore DEF SocketInv
<1>1. ~On("send", s)
  BY <1>0 DEF SlotInv, Polled, Dead
<1>2. ASSUME NEW t \in Slot, t # s, NEW u, \A i \in Id : wire'[i] = IF i = sock[t].fd THEN wire[i] \o u ELSE wire[i]
      PROVE  wire'[id] = wire[id]
  <2>1. sock[t].fd # 0 => HashId(sock[t].fd) = t
    BY <1>0 DEF SocketType, SocketsTyped
  <2>2. id # 0
    BY DEF Id
  <2> QED
    BY <1>2, <2>1, <2>2
<1>3. ASSUME wire'[id] = wire[id], listed' = listed, \A n \in DOMAIN msg : msg'[n] = msg[n]
      PROVE  Virgin(id)'
  BY <1>3 DEF Virgin, FirstInv
<1>4. CASE Loses
  BY <1>3, <1>4 DEF Loses
<1>5. CASE \E w \in Sender, n \in Nat, r \in RequestType : Sends(w, n, r)
  BY <1>3, <1>5 DEF Sends
<1>6. CASE \E w \in Worker, n \in Nat, t \in Slot, u, r \in Seq(Unit) : Hits(w, n, t, u, r)
  <2>1. PICK w \in Worker, n \in Nat, t \in Slot, u \in Seq(Unit), r \in Seq(Unit) : Hits(w, n, t, u, r)
    BY <1>6
  <2>2. sock[t].type = "CONNECTED"
    BY <2>1 DEF Hits, Works, Writes, CanDirectWrite
  <2>3. wire'[id] = wire[id]
    BY Zenon, <1>2, <2>1, <2>2 DEF Hits, Writes
  <2> QED
    BY <1>3, <2>1, <2>3 DEF Hits
<1>7. CASE \E w \in Worker, n \in Nat, t \in Slot : Stows(w, n, t)
  BY <1>3, <1>7 DEF Stows, Puts
<1>8. CASE \E c \in {"D", "P"}, n \in Nat, t \in Slot : Takes(c, n, t) /\ Lists(c, n, t)
  <2>1. PICK c \in {"D", "P"}, n \in Nat, t \in Slot : Takes(c, n, t) /\ Lists(c, n, t)
    BY Zenon, <1>8
  <2>2. msg[n].to # id
    BY Zenon, <2>1 DEF Takes, Lists, Calm
  <2> QED
    BY Zenon, <2>1, <2>2 DEF Takes, Lists, Virgin
<1>9. CASE \E t \in Slot : Fetches(t)
  BY <1>3, <1>9 DEF Fetches
<1>10. CASE \E t \in Slot, u, h, l \in Seq(Unit) : Flushes(t, u, h, l)
  <2>1. PICK t \in Slot, u \in Seq(Unit), h \in Seq(Unit), l \in Seq(Unit) : Flushes(t, u, h, l)
    BY <1>10
  <2>2. wire'[id] = wire[id]
    BY <1>1, <1>2, <2>1 DEF Flushes, Sent
  <2> QED
    BY <1>3, <2>1, <2>2 DEF Flushes
<1> QED
  BY <1>0, <1>4, <1>5, <1>6, <1>7, <1>8, <1>9, <1>10, Steps

\* Nothing was written to an id that nobody was told, or listed for it.
LEMMA UnknownVirgin ==
  ASSUME SocketInv, IdInv, FirstInv, NEW id \in Id, id \notin known, Calm(HashId(id))
  PROVE  Virgin(id)
BY UnknownUnwritten DEF Virgin, FirstInv, IdInv

\* What is listed was sent.
LEMMA ListedKept ==
  ASSUME SocketInv, BookInv, FirstInv, [Next]_sockvars
  PROVE  listed' \subseteq DOMAIN msg'
<1>0. SocketType
  BY DEF SocketInv
<1>1. CASE Loses
  BY <1>1 DEF Loses, FirstInv
<1>2. CASE \E w \in Sender, n \in Nat, r \in RequestType : Sends(w, n, r)
  BY <1>2 DEF Sends, FirstInv
<1>3. CASE \E w \in Worker, n \in Nat, t \in Slot, u, r \in Seq(Unit) : Hits(w, n, t, u, r)
  BY <1>3 DEF Hits, FirstInv
<1>4. CASE \E w \in Worker, n \in Nat, t \in Slot : Stows(w, n, t)
  BY Zenon, <1>4 DEF Stows, Puts, FirstInv
<1>5. CASE \E c \in {"D", "P"}, n \in Nat, t \in Slot : Takes(c, n, t) /\ Lists(c, n, t)
  BY Zenon, <1>5 DEF Takes, Lists, FirstInv
<1>6. CASE \E t \in Slot : Fetches(t)
  BY <1>6 DEF Fetches, FirstInv
<1>7. CASE \E t \in Slot, u, h, l \in Seq(Unit) : Flushes(t, u, h, l)
  BY <1>7 DEF Flushes, FirstInv
<1> QED
  BY <1>0, <1>1, <1>2, <1>3, <1>4, <1>5, <1>6, <1>7, Steps

\* Every step keeps the ids without traffic that are asked for.
LEMMA FirstNext == SocketInv /\ BookInv /\ IdInv /\ FirstInv /\ [Next]_sockvars => FirstInv'
<1> SUFFICES ASSUME SocketInv, BookInv, IdInv, FirstInv, [Next]_sockvars PROVE FirstInv'
  OBVIOUS
<1> DEFINE VirginThen(id) == wire'[id] = <<>> /\ \A n \in listed' : msg'[n].to # id
<1>0. SocketType
  BY DEF SocketInv
<1>1. ASSUME NEW s \in Slot, Calm(s)', NEW i \in DOMAIN pipe', Asks(pipe'[i], s)
      PROVE  VirginThen(pipe'[i].id)
  <2>0. Calm(s) /\ SlotInv(s) /\ pipe \in Seq(RequestType)
    BY <1>0, <1>1, CalmBefore DEF SocketInv, SocketType, PipeTyped
  <2>1. ASSUME NEW j \in DOMAIN pipe, pipe'[i] = pipe[j] PROVE VirginThen(pipe'[i].id)
    <3>1. Asks(pipe[j], s)
      BY <1>1, <2>1
    <3>2. sock[s].type = "RESERVE" /\ Virgin(pipe[j].id) /\ HashId(pipe[j].id) = s
      BY <2>0, <3>1 DEF SlotInv, Reserved, FirstInv, Asks
    <3>3. pipe[j].id \in Id
      BY <2>0, <2>1 DEF RequestType
    <3>d. PICK d \in Id : d = pipe[j].id
      BY <3>3
    <3>4. Virgin(d)'
      BY <1>1, <3>2, <3>d, VirginKept
    <3> QED
      BY <2>1, <3>d, <3>4 DEF Virgin
  <2>2. CASE pipe' = pipe
    BY <1>1, <2>1, <2>2
  <2>3. CASE pipe # <<>> /\ pipe' = Tail(pipe)
    <3>1. i + 1 \in DOMAIN pipe /\ pipe'[i] = pipe[i + 1]
      BY <1>1, <2>0, <2>3
    <3> QED
      BY <2>1, <3>1
  <2>4. ASSUME NEW r \in RequestType, pipe' = Append(pipe, r), pipe'[i] = r,
               r.c \in {"O", "L"} => /\ UNCHANGED <<wire, listed, msg>>
                                     /\ \E w \in Worker : wk[w].pc = "reserved" /\ r.id = wk[w].id
        PROVE  VirginThen(pipe'[i].id)
    <3>1. UNCHANGED <<wire, listed, msg>> /\ \E w \in Worker : wk[w].pc = "reserved" /\ r.id = wk[w].id
      BY <1>1, <2>4 DEF Asks
    <3>2. r.id \in Id /\ r.id \notin known /\ HashId(r.id) = s
      BY <1>0, <1>1, <2>4, <3>1, ReservedIds DEF IdInv, Asks
    <3>3. Virgin(r.id)
      BY <2>0, <3>2, UnknownVirgin
    <3> QED
      BY <2>4, <3>1, <3>3 DEF Virgin
  <2>5. CASE \E r \in RequestType : /\ pipe' = Append(pipe, r)
                                    /\ r.c \in {"O", "L"} => /\ UNCHANGED <<wire, listed, msg>>
                                                             /\ \E w \in Worker : wk[w].pc = "reserved" /\ r.id = wk[w].id
    <3>1. PICK r \in RequestType : /\ pipe' = Append(pipe, r)
                                   /\ r.c \in {"O", "L"} => /\ UNCHANGED <<wire, listed, msg>>
                                                            /\ \E w \in Worker : wk[w].pc = "reserved" /\ r.id = wk[w].id
      BY <2>5
    <3>2. (i \in DOMAIN pipe /\ pipe'[i] = pipe[i]) \/ pipe'[i] = r
      BY <1>1, <2>0, <3>1
    <3> QED
      BY <2>1, <2>4, <3>1, <3>2
  <2> QED
    BY <1>0, <2>2, <2>3, <2>5, PipeForm
<1> QED
  BY <1>1, ListedKept DEF FirstInv, Virgin, Calm, Asks, HashId

\* Nothing is asked for at the start.
LEMMA FirstInit == Init => FirstInv
<1> SUFFICES ASSUME Init PROVE FirstInv
  OBVIOUS
<1>1. pipe = <<>> /\ listed = {}
  BY Zenon DEF Init
<1> QED
  BY <1>1 DEF FirstInv

-----------------------------------------------------------------------------
(* Steps that write and list nothing                                       *)

\* a socket whose lists are not freed
Live(s) == sock[s].type \notin Dead /\ ~On("close", s)

Same(t) ==
    /\ sock'[t].fd = sock[t].fd /\ sock'[t].id = sock[t].id
    /\ sock'[t].dw = sock[t].dw /\ sock'[t].high = sock[t].high /\ sock'[t].low = sock[t].low
    /\ sock'[t].type \notin Dead => sock[t].type \notin Dead
    /\ On("close", t) \/ On("close", t)' => poll' = poll

Opens(t) ==
    /\ sock'[t].fd \in Id /\ sock'[t].id = sock'[t].fd /\ Virgin(sock'[t].fd)
    /\ sock'[t].dw = <<>> /\ sock'[t].high = <<>> /\ sock'[t].low = <<>> /\ sock'[t].lock = Nobody
    /\ ~On("close", t)'

Closes(t) ==
    /\ ~On("close", t) /\ On("close", t)'
    /\ sock'[t].fd = sock[t].fd /\ sock'[t].id = sock[t].id /\ sock'[t].type = sock[t].type
    /\ poll'.why = "K" => SendBufferEmpty(t)

Quiet(t) == sock'[t].type \in Dead \/ Same(t) \/ Opens(t) \/ Closes(t)

NoClose == poll' = poll \/ (poll.pc # "close" /\ poll'.pc # "close")

\* A socket that is not touched is quiet.
LEMMA QuietSame ==
  ASSUME NEW t \in Slot, sock'[t] = sock[t], NoClose
  PROVE  Quiet(t)
BY DEF Quiet, Same, NoClose, On

\* A step changes the slot s in what does not matter here.
LEMMA QuietMinor ==
  ASSUME SocketType, NEW s \in Slot, NoClose, NEW x \in SockType, sock' = [sock EXCEPT ![s] = x],
         \/ x.type \in Dead
         \/ /\ x.fd = sock[s].fd /\ x.id = sock[s].id /\ x.dw = sock[s].dw /\ x.high = sock[s].high /\ x.low = sock[s].low
            /\ sock[s].type \notin Dead \/ x.type = sock[s].type
  PROVE  \A t \in Slot : Quiet(t)
<1>1. sock'[s] = x /\ \A t \in Slot \ {s} : sock'[t] = sock[t]
  BY DEF SocketType, SocketsTyped
<1>2. Quiet(s)
  BY <1>1 DEF Quiet, Same, NoClose, On
<1> QED
  BY <1>1, <1>2, QuietSame

\* force_close writes and lists nothing, and with the reason of a service only
\* when the lists are empty.
LEMMA ForceCloseQuiet ==
  ASSUME SocketType, NEW s \in Slot, NEW why, NEW ctrl, ForceClose(s, why, ctrl), poll.pc # "close",
         why = "K" => SendBufferEmpty(s)
  PROVE  \A t \in Slot : Quiet(t)
<1>1. CASE sock[s].type = "RESERVE"
  <2>1. sock' = sock /\ poll' = poll
    BY <1>1 DEF ForceClose, Abort
  <2> QED
    BY <2>1, QuietSame DEF NoClose
<1>2. CASE sock[s].type # "RESERVE"
  <2>1. /\ sock' = [sock EXCEPT ![s].high = <<>>, ![s].low = <<>>, ![s].add = FALSE, ![s].wr = FALSE]
        /\ poll' = [pc |-> "close", slot |-> s, why |-> why, ctrl |-> ctrl]
    BY <1>2 DEF ForceClose
  <2>2. \A t \in Slot \ {s} : sock'[t] = sock[t]
    BY <2>1 DEF SocketType, SocketsTyped
  <2>3. sock'[s].fd = sock[s].fd /\ sock'[s].id = sock[s].id /\ sock'[s].type = sock[s].type
    BY <2>1 DEF SocketType, SocketsTyped, SockType
  <2>4. poll'.pc = "close" /\ poll'.slot = s /\ poll'.why = why
    BY <2>1
  <2>5. Quiet(s)
    BY <2>3, <2>4 DEF Quiet, Closes, On
  <2>6. ASSUME NEW t \in Slot \ {s} PROVE Quiet(t)
    BY <2>2, <2>4 DEF Quiet, Same, On
  <2> QED
    BY <2>5, <2>6
<1> QED
  BY <1>1, <1>2

\* new_fd opens a socket without traffic.
LEMMA NewFdQuiet ==
  ASSUME SocketType, NEW s \in Slot, NEW id \in Id, NEW type, NEW add, NewFd(s, id, type, add), NoClose, poll.pc # "close",
         Calm(s)' => Virgin(id)
  PROVE  \A t \in Slot : Calm(t)' => Quiet(t)
<1>0. poll'.pc # "close"
  BY DEF NoClose
<1>1. CASE sock' = sock
  BY <1>1, QuietSame
<1>2. CASE sock' # sock
  <2>1. /\ SendBufferEmpty(s)
        /\ sock' = [sock EXCEPT ![s] = [@ EXCEPT !.id = id, !.fd = id, !.type = type, !.dw = <<>>,
                                                 !.lock = Nobody, !.add = add,
                                                 !.wr = type = "CONNECTING"]]
    BY <1>2 DEF NewFd
  <2>2. \A t \in Slot \ {s} : sock'[t] = sock[t]
    BY <2>1 DEF SocketType, SocketsTyped
  <2>3. /\ sock'[s].fd = id /\ sock'[s].id = id /\ sock'[s].dw = <<>> /\ sock'[s].lock = Nobody
        /\ sock'[s].high = sock[s].high /\ sock'[s].low = sock[s].low
    BY <2>1 DEF SocketType, SocketsTyped, SockType
  <2>4. ASSUME Calm(s)' PROVE Opens(s)
    BY <1>0, <2>1, <2>3, <2>4 DEF Opens, SendBufferEmpty, On
  <2> QED
    BY <2>2, <2>4, QuietSame DEF Quiet
<1> QED
  BY <1>1, <1>2

\* The id of a request to open a socket is without traffic.
LEMMA AskedVirgin ==
  ASSUME SocketType, FirstInv, NEW c \in {"O", "L"}, Cmd(c), NEW s \in Slot, s = HashId(Head(pipe).id), Calm(s)
  PROVE  Virgin(Head(pipe).id)
<1>1. 1 \in DOMAIN pipe /\ Head(pipe) = pipe[1] /\ Head(pipe).c = c
  BY DEF Cmd, SocketType, PipeTyped
<1>2. Asks(pipe[1], s)
  BY <1>1 DEF Asks
<1> QED
  BY <1>1, <1>2 DEF FirstInv

AllQuiet == \A t \in Slot : Calm(t)' => Quiet(t)

\* A step that touches no socket is quiet.
LEMMA QuietIdle ==
  ASSUME sock' = sock, NoClose
  PROVE  AllQuiet
BY QuietSame DEF AllQuiet

\* A change of a lock is quiet.
LEMMA QuietLock ==
  ASSUME SocketType, NEW s \in Slot, NEW l \in Worker \cup {Nobody, "poll"}, sock' = [sock EXCEPT ![s].lock = l], NoClose
  PROVE  AllQuiet
<1>x. PICK x \in SockType : x = [sock[s] EXCEPT !.lock = l]
  BY ZenonT(60) DEF SocketType, SocketsTyped, SockType
<1>1. /\ x.fd = sock[s].fd /\ x.id = sock[s].id /\ x.dw = sock[s].dw /\ x.high = sock[s].high /\ x.low = sock[s].low
      /\ x.type = sock[s].type
  BY <1>x DEF SocketType, SocketsTyped, SockType
<1>2. sock' = [sock EXCEPT ![s] = x]
  BY <1>x
<1> QED
  BY <1>1, <1>2, QuietMinor DEF AllQuiet

\* Workers that reserve, ask or lock are quiet.
LEMMA QuietWorkers ==
  ASSUME SocketInv, NEW w \in Worker,
         (\E c : Reserve(w, c)) \/ SendRequest(w) \/ TryLock(w) \/ \E c, id : Request(w, c, id)
  PROVE  AllQuiet
<1>0. SocketType /\ NoClose
  BY DEF SocketInv, Reserve, SendRequest, TryLock, Request, NoClose
<1>1. CASE \E c : Reserve(w, c)
  <2>1. HashId(NextId) \in Slot /\ sock' = [sock EXCEPT ![HashId(NextId)].type = "RESERVE"]
    BY <1>0, <1>1, NextIdFree DEF Reserve
  <2>s. PICK s \in Slot : s = HashId(NextId)
    BY <2>1
  <2>x. PICK x \in SockType : x = [sock[s] EXCEPT !.type = "RESERVE"]
    BY ZenonT(60), <1>0 DEF SocketType, SocketsTyped, SockType
  <2>2. sock' = [sock EXCEPT ![s] = x] /\ x.type \in Dead
    BY <1>0, <2>1, <2>s, <2>x DEF Dead, SocketType, SocketsTyped, SockType
  <2> QED
    BY <1>0, <2>2, QuietMinor DEF AllQuiet
<1>2. CASE SendRequest(w)
  <2>1. wk[w].id \in Id /\ wk[w].pc = "reserved"
    <3>1. wk[w] \in WorkerType /\ wk[w].pc = "reserved"
      BY <1>0, <1>2 DEF SocketType, WorkersTyped, SendRequest
    <3> QED
      BY <3>1 DEF WorkerType
  <2>a. PICK id \in Id : id = wk[w].id /\ id \in Nat
    BY <2>1 DEF Id
  <2>s. PICK s \in Slot : s = HashId(id)
    BY <2>a, HashSlot
  <2>2. sock' = [sock EXCEPT ![s].id = id, ![s].fd = 0] /\ raced' = raced
    BY <1>2, <2>a, <2>s DEF SendRequest
  <2>3. (\A t \in Slot \ {s} : sock'[t] = sock[t]) /\ sock'[s].type = sock[s].type
    BY <1>0, <2>2 DEF SocketType, SocketsTyped, SockType
  <2>4. ASSUME Calm(s)' PROVE sock[s].type = "RESERVE"
    BY <2>1, <2>2, <2>4, <2>a, <2>s DEF SocketInv, Calm, SlotInv, Reserved, Opening
  <2> QED
    BY <1>0, <2>3, <2>4, QuietSame DEF AllQuiet, Quiet, Dead
<1>3. CASE TryLock(w)
  <2>1. sock' = sock \/ sock' = [sock EXCEPT ![HashId(msg[wk[w].n].to)].lock = w]
    BY SMTT(40), <1>3 DEF TryLock
  <2>2. Busy(w)
    BY <1>3 DEF TryLock, Busy
  <2>3. PICK n \in Nat, s \in Slot : Works(w, n, s)
    BY <1>0, <2>2, WorksOn
  <2>4. sock' = sock \/ sock' = [sock EXCEPT ![s].lock = w]
    BY <2>1, <2>3 DEF Works
  <2> QED
    BY SMTT(40), <1>0, <2>4, QuietIdle, QuietLock
<1>4. CASE \E c, id : Request(w, c, id)
  BY <1>0, <1>4, QuietIdle DEF Request
<1> QED
  BY SMTT(40), <1>1, <1>2, <1>3, <1>4

\* send_buffer is quiet, or puts dw_buffer in front of the high list.
LEMMA QuietSendBuffer ==
  ASSUME SocketType, NEW s \in Slot, NEW then, NEW after, SendBuffer(s, then, after), poll.pc # "close", after.pc # "close",
         UNCHANGED <<msg, piped, listed, wk>>, pipe' = pipe \/ (pipe # <<>> /\ pipe' = Tail(pipe))
  PROVE  AllQuiet \/ Fetches(s)
<1>1. CASE sock' = sock /\ poll' = after
  BY <1>1, QuietIdle DEF NoClose
<1>2. CASE /\ sock[s].lock = Nobody /\ wire' = wire
           /\ sock' = [sock EXCEPT ![s].lock = "poll", ![s].high = sock[s].dw \o @, ![s].dw = <<>>]
           /\ poll' = [pc |-> "send", slot |-> s, then |-> then]
  <2>1. On("send", s)'
    BY <1>2 DEF On
  <2> QED
    BY <1>2, <2>1, PipeLosesSame, PipeLosesTail DEF Fetches
<1> QED
  BY <1>1, <1>2 DEF SendBuffer

\* So are requests without data.
LEMMA QuietCommands ==
  ASSUME SocketInv, FirstInv, [Next]_sockvars, OpenSocket \/ ListenSocket \/ StartSocket \/ CloseSocket("K") \/ CloseSocket("H")
  PROVE  AllQuiet \/ \E s \in Slot : Fetches(s)
<1>t. SocketType
  BY DEF SocketInv
<1>0. PICK c \in {"O", "L", "S", "K", "H"} : Cmd(c)
  BY DEF OpenSocket, ListenSocket, StartSocket, CloseSocket
<1>1. /\ Head(pipe).id \in Id /\ HashId(Head(pipe).id) \in Slot
      /\ UNCHANGED <<msg, piped, wk>> /\ pipe # <<>> /\ pipe' = Tail(pipe)
  BY <1>t, <1>0, CommandSlot
<1>2. listed' = listed /\ poll.pc # "close"
  BY <1>0 DEF OpenSocket, ListenSocket, StartSocket, CloseSocket, Cmd
<1>a. PICK id \in Id : id = Head(pipe).id
  BY <1>1
<1>s. PICK s \in Slot : s = HashId(id)
  BY <1>1, <1>a
<1>c. Clear(id).pc = "clear"
  BY DEF Clear
<1>n. ASSUME NEW type, NEW add, NewFd(s, id, type, add), poll' = poll, OpenSocket \/ ListenSocket PROVE AllQuiet
  <2>1. PICK d \in {"O", "L"} : Cmd(d)
    BY <1>n DEF OpenSocket, ListenSocket
  <2>2. Calm(s)' => Virgin(id)
    BY <1>t, <1>a, <1>s, <2>1, AskedVirgin, CalmBefore
  <2> QED
    BY <1>t, <1>2, <1>n, <2>2, NewFdQuiet DEF AllQuiet, NoClose
<1>m. ASSUME NEW x \in SockType, sock' = [sock EXCEPT ![s] = x], NoClose,
             \/ x.type \in Dead
             \/ /\ x.fd = sock[s].fd /\ x.id = sock[s].id /\ x.dw = sock[s].dw /\ x.high = sock[s].high /\ x.low = sock[s].low
                /\ sock[s].type \notin Dead \/ x.type = sock[s].type
      PROVE  AllQuiet
  BY <1>t, <1>m, QuietMinor DEF AllQuiet
<1>3. CASE OpenSocket
  <2>1. CASE sock' = [sock EXCEPT ![s].type = "INVALID"] /\ poll'.pc # "close"
    <3>x. PICK x \in SockType : x = [sock[s] EXCEPT !.type = "INVALID"]
      BY ZenonT(60), <1>t DEF SocketType, SocketsTyped, SockType
    <3>1. sock' = [sock EXCEPT ![s] = x] /\ x.type \in Dead
      BY <1>t, <2>1, <3>x DEF Dead, SocketType, SocketsTyped, SockType
    <3> QED
      BY <1>2, <1>m, <2>1, <3>1 DEF NoClose
  <2>2. CASE (\E type \in {"CONNECTED", "CONNECTING"} : NewFd(s, id, type, TRUE)) /\ poll' = poll
    BY <1>3, <1>n, <2>2
  <2>3. CASE NewFdFails(s, id)
    <3>1. sock' = [sock EXCEPT ![s].type = "INVALID"] /\ poll'.pc # "close"
      BY <2>3 DEF NewFdFails
    <3> QED
      BY <2>1, <3>1
  <2> QED
    BY <1>3, <1>a, <1>c, <1>s, <2>1, <2>2, <2>3 DEF OpenSocket
<1>4. CASE ListenSocket
  BY <1>4, <1>a, <1>s, <1>n DEF ListenSocket
<1>5. CASE StartSocket
  <2>1. CASE sock' = sock /\ (poll' = poll \/ poll' = Clear(id))
    BY <1>2, <1>c, <2>1, QuietIdle DEF NoClose
  <2>2. CASE /\ sock' = [sock EXCEPT ![s].add = TRUE, ![s].type = IF @ = "PACCEPT" THEN "CONNECTED" ELSE "LISTEN"]
             /\ sock[s].type \in {"PACCEPT", "PLISTEN"} /\ poll' = poll
    <3>y. PICK y \in {"CONNECTED", "LISTEN"} : y = IF sock[s].type = "PACCEPT" THEN "CONNECTED" ELSE "LISTEN"
      OBVIOUS
    <3>x. PICK x \in SockType : x = [sock[s] EXCEPT !.add = TRUE, !.type = y]
      BY ZenonT(60), <1>t DEF SocketType, SocketsTyped, SockType
    <3>0. sock \in [Slot -> SockType]
      BY <1>t DEF SocketType, SocketsTyped
    <3>1. sock' = [sock EXCEPT ![s] = x]
      BY <2>2, <3>0, <3>x, <3>y DEF SockType
    <3>2. /\ x.fd = sock[s].fd /\ x.id = sock[s].id /\ x.dw = sock[s].dw /\ x.high = sock[s].high /\ x.low = sock[s].low
          /\ sock[s].type \notin Dead
      BY <1>t, <2>2, <3>x DEF Dead, SocketType, SocketsTyped, SockType
    <3> QED
      BY <1>m, <2>2, <3>1, <3>2 DEF NoClose
  <2>3. CASE ForceClose(s, "err", TRUE)
    BY <1>t, <1>2, <2>3, ForceCloseQuiet DEF AllQuiet
  <2> QED
    BY <1>5, <1>a, <1>s, <2>1, <2>2, <2>3 DEF StartSocket
<1>6. ASSUME NEW x \in {"K", "H"}, CloseSocket(x) PROVE AllQuiet \/ Fetches(s)
  <2>d. PICK decide : decide = [pc |-> "decide", slot |-> s, c |-> x]
    OBVIOUS
  <2>e. decide.pc = "decide"
    BY <2>d
  <2>1. CASE sock' = sock /\ (poll' = decide \/ poll' = Clear(id))
    BY <1>2, <1>c, <2>e, <2>1, QuietIdle DEF NoClose
  <2>2. CASE SendBuffer(s, decide, decide)
    BY <1>t, <1>1, <1>2, <2>e, <2>2, QuietSendBuffer
  <2> QED
    BY <1>6, <1>a, <1>s, <2>d, <2>1, <2>2 DEF CloseSocket
<1> QED
  BY <1>3, <1>4, <1>5, <1>6

\* A socket that is closed is quiet.
LEMMA QuietClosed ==
  ASSUME SocketType, NEW s \in Slot, sock' = [sock EXCEPT ![s] = Closed(s)], poll.pc # "close" \/ poll.slot = s, poll'.pc # "close"
  PROVE  AllQuiet
<1>1. \A t \in Slot \ {s} : sock'[t] = sock[t]
  BY DEF SocketType, SocketsTyped
<1>2. sock'[s].type \in Dead
  BY DEF SocketType, SocketsTyped, SockType, Closed, Dead
<1>3. ASSUME NEW t \in Slot \ {s} PROVE Same(t)
  BY <1>1 DEF Same, On
<1> QED
  BY <1>2, <1>3 DEF AllQuiet, Quiet

\* A step that changes neither lists nor ids of a slot is quiet.
LEMMA QuietAt ==
  ASSUME NEW s \in Slot, NoClose, \A t \in Slot \ {s} : sock'[t] = sock[t],
         /\ sock'[s].fd = sock[s].fd /\ sock'[s].id = sock[s].id /\ sock'[s].dw = sock[s].dw
         /\ sock'[s].high = sock[s].high /\ sock'[s].low = sock[s].low,
         Calm(s)' => sock[s].type \notin Dead \/ sock'[s].type = sock[s].type
  PROVE  AllQuiet
<1>1. ASSUME Calm(s)' PROVE Same(s)
  BY <1>1 DEF Same, NoClose, On
<1> QED
  BY <1>1, QuietSame DEF AllQuiet, Quiet

\* The steps within a request or an event are quiet, or write from the lists.
LEMMA QuietPoll ==
  ASSUME SocketInv, [Next]_sockvars, OpenFailed \/ CloseDecide \/ PollSend \/ CloseEnd \/ ClearClosedEvent \/ ReportConnectDone
  PROVE  AllQuiet \/ \E s \in Slot, k \in Nat : Moved(s, k)
<1>0. SocketType
  BY DEF SocketInv
<1>y. sock \in [Slot -> SockType]
  BY <1>0 DEF SocketType, SocketsTyped
<1>1. UNCHANGED <<msg, piped, wk, pipe, listed>>
  BY DEF OpenFailed, CloseDecide, PollSend, CloseEnd, ClearClosedEvent, ReportConnectDone
<1>t. Top.pc = "top" /\ \A id : Clear(id).pc = "clear"
  BY DEF Top, Clear
<1>2. CASE ClearClosedEvent
  BY <1>t, <1>2, QuietIdle DEF ClearClosedEvent, NoClose
<1>3. ASSUME poll.pc \in {"decide", "send", "close", "conn", "failed"} PROVE poll.slot \in Slot
  BY <1>0, <1>3 DEF SocketType, PollType, DecideType, SendType
<1>4. CASE CloseDecide
  <2>s. PICK s \in Slot : s = poll.slot /\ On("decide", s)
    BY <1>3, <1>4 DEF CloseDecide, On
  <2>2. CASE ForceClose(s, poll.c, TRUE) /\ (poll.c = "H" \/ SendBufferEmpty(s))
    <3>1. poll.pc # "close" /\ (poll.c = "K" => SendBufferEmpty(s))
      BY <1>4, <2>2 DEF CloseDecide
    <3> QED
      BY <1>0, <2>2, <3>1, ForceCloseQuiet DEF AllQuiet
  <2>3. CASE sock' = [sock EXCEPT ![s].type = "HALFCLOSE"] /\ poll' = Top
    <3>1. \A t \in Slot \ {s} : sock'[t] = sock[t]
      BY <1>y, <2>3
    <3>2. /\ sock'[s].fd = sock[s].fd /\ sock'[s].id = sock[s].id /\ sock'[s].dw = sock[s].dw
          /\ sock'[s].high = sock[s].high /\ sock'[s].low = sock[s].low
      BY <1>y, <2>3 DEF SockType
    <3>3. Calm(s)' => sock[s].type \notin Dead
      BY <2>s, CalmBefore DEF SocketInv, SlotInv, Polled
    <3>4. NoClose
      BY <1>t, <2>s, <2>3 DEF On, NoClose
    <3> QED
      BY <3>1, <3>2, <3>3, <3>4, QuietAt
  <2> QED
    BY <1>4, <2>s, <2>2, <2>3 DEF CloseDecide
<1>5. CASE CloseEnd
  <2>s. PICK s \in Slot : s = poll.slot
    BY <1>3, <1>5 DEF CloseEnd
  <2>1. poll'.pc # "close"
    BY <1>t, <1>5 DEF CloseEnd
  <2> QED
    BY <1>0, <1>5, <2>s, <2>1, QuietClosed DEF CloseEnd
<1>6. CASE ReportConnectDone
  <2>s. PICK s \in Slot : s = poll.slot
    BY <1>3, <1>6 DEF ReportConnectDone
  <2>1. sock' = [sock EXCEPT ![s].wr = @ /\ ~SendBufferEmpty(s)] /\ NoClose
    BY <1>t, <1>6, <2>s DEF ReportConnectDone, NoClose
  <2>2. \A t \in Slot \ {s} : sock'[t] = sock[t]
    BY <1>y, <2>1
  <2>3. /\ sock'[s].fd = sock[s].fd /\ sock'[s].id = sock[s].id /\ sock'[s].dw = sock[s].dw
        /\ sock'[s].high = sock[s].high /\ sock'[s].low = sock[s].low /\ sock'[s].type = sock[s].type
    BY <1>y, <2>1 DEF SockType
  <2> QED
    BY <2>1, <2>2, <2>3, QuietAt
<1>7. CASE PollSend
  <2>s. PICK s \in Slot : s = poll.slot /\ On("send", s)
    BY <1>3, <1>7 DEF PollSend, On
  <2>1. CASE SendFails
    <3>1. CASE sock' = sock /\ poll' = poll
      BY <3>1, QuietIdle DEF NoClose
    <3>2. CASE sock' = [sock EXCEPT ![s] = Closed(s)] /\ poll' = IF poll.then = Top THEN Top ELSE Clear(sock[s].id)
      <4>1. poll'.pc # "close" /\ poll.pc # "close"
        BY <1>t, <2>s, <3>2 DEF On
      <4> QED
        BY <1>0, <3>2, <4>1, QuietClosed
    <3> QED
      BY <2>1, <2>s, <3>1, <3>2 DEF SendFails, Abort
  <2>2. ASSUME NEW k \in 0..Len(sock[s].high \o sock[s].low), SendBuffer_(k) PROVE \E j \in Nat : Moved(s, j)
    <3>1. sock[s].high \o sock[s].low \in Seq(Unit)
      BY <1>0 DEF SocketType, SocketsTyped, SockType
    <3>2. k \in Nat /\ k <= Len(sock[s].high \o sock[s].low)
      <4> DEFINE len == Len(sock[s].high \o sock[s].low)
      <4>1. len \in Nat
        BY <3>1, LenProperties
      <4>2. k \in 0..len
        OBVIOUS
      <4> HIDE DEF len
      <4>3. k \in Nat /\ k <= len
        BY <4>1, <4>2
      <4> QED
        BY <4>3 DEF len
    <3>3. Moved(s, k)
      BY <1>1, <2>s, <2>2, <3>2 DEF Moved
    <3> QED
      BY <3>2, <3>3
  <2> QED
    BY <1>7, <2>s, <2>1, <2>2 DEF PollSend
<1>8. CASE OpenFailed
  <2>s. PICK s \in Slot : s = poll.slot
    BY <1>3, <1>8 DEF OpenFailed
  <2>1. sock' = [sock EXCEPT ![s].type = "INVALID"] /\ NoClose
    BY <1>8, <2>s DEF OpenFailed, NoClose
  <2>x. PICK x \in SockType : x = [sock[s] EXCEPT !.type = "INVALID"]
    BY ZenonT(60), <1>y DEF SockType
  <2>2. sock' = [sock EXCEPT ![s] = x] /\ x.type \in Dead
    BY <1>y, <2>1, <2>x DEF Dead, SockType
  <2> QED
    BY <1>0, <2>1, <2>2, QuietMinor DEF AllQuiet
<1> QED
  BY <1>2, <1>4, <1>5, <1>6, <1>7, <1>8

\* The first steps of events are quiet, or put dw_buffer in front of the high
\* list.
LEMMA QuietEvents ==
  ASSUME SocketInv, IdInv, FirstInv, [Next]_sockvars,
         ReportConnect \/ ReportAccept \/ InvalidSocket \/ ForwardMessage \/ WriteEvent \/ ErrorEvent \/ PollWait
  PROVE  AllQuiet \/ \E s \in Slot : Fetches(s)
<1>0. SocketType
  BY DEF SocketInv
<1>y. sock \in [Slot -> SockType]
  BY <1>0 DEF SocketType, SocketsTyped
<1>1. UNCHANGED <<msg, piped, wk, pipe, listed>> /\ poll.pc # "close"
  BY DEF ReportConnect, ReportAccept, InvalidSocket, ForwardMessage, WriteEvent, ErrorEvent, PollWait, TakeEvent
<1>t. Top.pc = "top"
  BY DEF Top
<1>i. ASSUME sock' = sock, poll'.pc # "close" PROVE AllQuiet
  BY <1>1, <1>i, QuietIdle DEF NoClose
<1>2. CASE PollWait \/ InvalidSocket
  <2>1. sock' = sock /\ (poll' = [pc |-> "event"] \/ poll' = Top)
    BY <1>2 DEF PollWait, InvalidSocket
  <2>2. poll'.pc # "close"
    BY <1>t, <2>1
  <2> QED
    BY <1>i, <2>1, <2>2
<1>3. ASSUME ev # <<>> PROVE Head(ev).slot \in Slot
  <2>1. Head(ev) \in EventType
    BY <1>0, <1>3 DEF SocketType, EventsTyped
  <2> QED
    BY <2>1 DEF EventType
<1>4. CASE ReportAccept
  <2>0. poll' = Top
    BY <1>4 DEF ReportAccept
  <2>1. CASE sock' = sock
    BY <1>i, <1>t, <2>0, <2>1
  <2>2. CASE FreeIds # {} /\ NewFd(HashId(NextId), NextId, "PACCEPT", FALSE)
    <3>1. NextId \in Id /\ HashId(NextId) \in Slot /\ NextId > alloc
      BY <1>0, <2>2, NextIdFree, NextIdNew
    <3>2. NextId \notin known
      <4>1. NextId \in Nat /\ alloc \in Nat /\ known \subseteq Nat
        BY <1>0, <3>1, ReservedIds DEF Id
      <4> QED
        BY <3>1, <4>1 DEF IdInv
    <3>a. PICK id \in Id : id = NextId
      BY <3>1
    <3>s. PICK s \in Slot : s = HashId(id)
      BY <3>1, <3>a
    <3>3. Calm(s)' => Virgin(id)
      BY <3>2, <3>a, <3>s, CalmBefore, UnknownVirgin
    <3>4. NewFd(s, id, "PACCEPT", FALSE)
      BY <2>2, <3>a, <3>s
    <3>5. NoClose
      BY <1>1, <1>t, <2>0 DEF NoClose
    <3> QED
      BY <1>0, <1>1, <3>3, <3>4, <3>5, NewFdQuiet DEF AllQuiet
  <2> QED
    BY <1>4, <2>1, <2>2 DEF ReportAccept
<1>5. CASE ReportConnect \/ ForwardMessage \/ WriteEvent \/ ErrorEvent
  <2>0. ev # <<>>
    BY <1>5 DEF ReportConnect, ForwardMessage, WriteEvent, ErrorEvent, TakeEvent
  <2>s. PICK s \in Slot : s = Head(ev).slot
    BY <2>0, <1>3
  <2>1. CASE sock' = sock /\ poll' = Top
    BY <2>1, <1>i, <1>t
  <2>2. CASE ForceClose(s, "err", FALSE)
    BY <1>0, <1>1, <2>2, ForceCloseQuiet DEF AllQuiet
  <2>3. CASE sock' = [sock EXCEPT ![s].type = "CONNECTED"] /\ poll' = [pc |-> "conn", slot |-> s] /\ sock[s].type = "CONNECTING"
    <3>1. \A t \in Slot \ {s} : sock'[t] = sock[t]
      BY <1>y, <2>3
    <3>2. /\ sock'[s].fd = sock[s].fd /\ sock'[s].id = sock[s].id /\ sock'[s].dw = sock[s].dw
          /\ sock'[s].high = sock[s].high /\ sock'[s].low = sock[s].low
      BY <1>y, <2>3 DEF SockType
    <3>3. sock[s].type \notin Dead
      BY <2>3 DEF Dead
    <3>4. NoClose
      BY <1>1, <2>3 DEF NoClose
    <3> QED
      BY <3>1, <3>2, <3>3, <3>4, QuietAt
  <2>4. CASE SendBuffer(s, Top, Top)
    BY <1>0, <1>1, <1>t, <2>4, QuietSendBuffer
  <2> QED
    BY <1>5, <2>s, <2>1, <2>2, <2>3, <2>4 DEF ReportConnect, ForwardMessage, WriteEvent, ErrorEvent, TakeEvent
<1> QED
  BY <1>2, <1>4, <1>5

\* All other steps are quiet.
LEMMA QuietForms ==
  ASSUME SocketInv, IdInv, FirstInv, [Next]_sockvars
  PROVE  \/ AllQuiet
         \/ \E w \in Sender, id \in known : SendStart(w, id) \/ SendLow(w, id)
         \/ \E w \in Worker : DirectWrite(w) \/ StoreRest(w) \/ PostData(w)
         \/ \E c \in {"D", "P"} : SendSocket(c)
         \/ \E s \in Slot : Fetches(s)
         \/ \E s \in Slot, k \in Nat : Moved(s, k)
<1>1. CASE UNCHANGED sockvars
  BY <1>1, QuietIdle DEF sockvars, NoClose
<1>2. CASE \E w \in Worker : WorkerStep(w)
  BY <1>2, QuietWorkers DEF WorkerStep
<1>3. CASE \E w \in Opener : \/ Reserve(w, "O") \/ Reserve(w, "L")
                             \/ \E c \in {"K", "H", "S"}, id \in known : Request(w, c, id)
  <2>1. PICK w \in Worker : \/ Reserve(w, "O") \/ Reserve(w, "L")
                            \/ \E c \in {"K", "H", "S"}, id \in known : Request(w, c, id)
    BY <1>3 DEF Worker
  <2> QED
    BY <2>1, QuietWorkers
<1>4. CASE \E w \in Sender, id \in known \ {1} : SendStart(w, id) \/ SendLow(w, id)
  BY <1>4
<1>5. CASE PollStep
  BY <1>5, QuietCommands, QuietPoll, QuietEvents DEF PollStep
<1>6. CASE Next
  BY <1>2, <1>3, <1>4, <1>5, <1>6, Zenon DEF Next
<1> QED
  BY <1>1, <1>6

\* A write from the lists does not begin a close in two steps.
LEMMA SendLeft ==
  ASSUME SocketType, [Next]_sockvars, poll.pc = "send"
  PROVE  poll'.pc # "close"
<1>t. Top.pc = "top" /\ \A id : Clear(id).pc = "clear"
  BY DEF Top, Clear
<1>1. CASE UNCHANGED sockvars
  BY Zenon, <1>1 DEF sockvars
<1>2. CASE \E w \in Worker : WorkerStep(w)
  BY Zenon, <1>2 DEF WorkerStep, SendRequest, TryLock, DirectWrite, StoreRest, PostData
<1>3. CASE \E w \in Opener : \/ Reserve(w, "O") \/ Reserve(w, "L")
                             \/ \E c \in {"K", "H", "S"}, id \in known : Request(w, c, id)
  BY <1>3 DEF Reserve, Request
<1>4. CASE \E w \in Sender, id \in known \ {1} : SendStart(w, id) \/ SendLow(w, id)
  BY <1>4 DEF SendStart, SendLow
<1>5. CASE PollStep
  <2>1. PollSend
    BY <1>5 DEF PollStep, OpenSocket, OpenFailed, ListenSocket, StartSocket, CloseSocket, SendSocket, Cmd, CloseDecide, CloseEnd,
         ClearClosedEvent, PollWait, ReportConnect, ReportConnectDone, ReportAccept, InvalidSocket, ForwardMessage, WriteEvent,
         ErrorEvent, TakeEvent
  <2>2. poll.then \in DecideType \cup {Top}
    BY DEF SocketType, PollType, SendType, DecideType
  <2>3. poll.then.pc # "close"
    BY <1>t, <2>2 DEF DecideType
  <2>4. ASSUME NEW k, SendBuffer_(k) PROVE poll'.pc # "close"
    <3>1. poll' = poll \/ poll' = poll.then \/ poll' = Top \/ poll' = Clear(sock[poll.slot].id)
      BY Zenon, <2>4 DEF SendBuffer_
    <3> QED
      BY Zenon, <1>t, <2>3, <3>1
  <2>5. ASSUME SendFails PROVE poll'.pc # "close"
    <3>1. poll' = poll \/ poll' = Top \/ poll' = Clear(sock[poll.slot].id)
      BY <2>5 DEF SendFails, Abort
    <3> QED
      BY <1>t, <3>1
  <2> QED
    BY <2>1, <2>4, <2>5 DEF PollSend
<1>6. CASE Next
  BY <1>2, <1>3, <1>4, <1>5, <1>6, Zenon DEF Next
<1> QED
  BY <1>1, <1>6

\* A direct write that must not write is quiet.
LEMMA WritesQuiet ==
  ASSUME SocketType, BookInv, NEW w \in Worker, DirectWrite(w)
  PROVE  AllQuiet \/ \E n \in Nat, s \in Slot, u, r \in Seq(Unit) : Hits(w, n, s, u, r)
<1>2. Busy(w) /\ wk[w].pc = "locked" /\ UNCHANGED <<msg, piped, listed, pipe, poll>>
  BY Zenon DEF DirectWrite, Busy
<1>3. PICK n \in Nat, s \in Slot : Works(w, n, s)
  BY <1>2, WorksOn
<1>4. CASE wire' = wire /\ sock' = [sock EXCEPT ![s].lock = Nobody] /\ wk' = [wk EXCEPT ![w].pc = "post"]
  BY <1>2, <1>4, QuietLock DEF NoClose
<1>5. CASE \E u, r \in Seq(Unit) : Writes(w, n, s, u, r)
  BY <1>2, <1>3, <1>5 DEF Hits
<1> QED
  BY Zenon, <1>3, <1>4, <1>5, DirectWriteForm

\* A message that is dropped is quiet.
LEMMA ListsQuiet ==
  ASSUME SocketType, NEW c \in {"D", "P"}, SendSocket(c)
  PROVE  AllQuiet \/ \E n \in Nat, s \in Slot : Takes(c, n, s) /\ Lists(c, n, s)
<1>1. PICK n \in Nat, s \in Slot : Takes(c, n, s) /\ ((sock' = sock /\ listed' = listed) \/ Lists(c, n, s))
  BY SendSocketForm
<1>2. CASE sock' = sock
  BY <1>1, <1>2, QuietIdle DEF NoClose, Takes
<1> QED
  BY <1>1, <1>2

\* Steps, with what the steps that lose something leave alone.
LEMMA Traffic ==
  ASSUME SocketInv, BookInv, IdInv, FirstInv, [Next]_sockvars
  PROVE  \/ Loses /\ AllQuiet
         \/ \E w \in Sender, n \in Nat, r \in RequestType : Sends(w, n, r)
         \/ \E w \in Worker, n \in Nat, s \in Slot, u, r \in Seq(Unit) : Hits(w, n, s, u, r)
         \/ \E w \in Worker, n \in Nat, s \in Slot : Stows(w, n, s)
         \/ \E c \in {"D", "P"}, n \in Nat, s \in Slot : Takes(c, n, s) /\ Lists(c, n, s)
         \/ \E s \in Slot : Fetches(s)
         \/ \E s \in Slot, u, h, l \in Seq(Unit) : Flushes(s, u, h, l) /\ poll'.pc # "close"
<1>0. SocketType
  BY DEF SocketInv
<1>1. CASE AllQuiet
  <2>1. ASSUME NEW s \in Slot, NEW u \in Seq(Unit), NEW h \in Seq(Unit), NEW l \in Seq(Unit), Flushes(s, u, h, l)
        PROVE  poll'.pc # "close"
    BY <1>0, <2>1, SendLeft DEF Flushes, On
  <2> QED
    BY <1>0, <1>1, <2>1, Steps
<1>2. CASE \E w \in Sender, id \in known : SendStart(w, id) \/ SendLow(w, id)
  <2>1. PICK w \in Sender, id \in known : SendStart(w, id) \/ SendLow(w, id)
    BY <1>2
  <2>2. id \in Id
    BY <1>0 DEF SocketType
  <2> QED
    BY <1>0, <2>1, <2>2, SendStartForm, SendLowForm
<1>3. CASE \E w \in Worker : PostData(w)
  BY <1>0, <1>3, PostDataForm
<1>4. CASE \E w \in Worker : StoreRest(w)
  <2>1. PICK w \in Worker : StoreRest(w)
    BY Zenon, <1>4
  <2>2. Busy(w) /\ wk[w].pc = "store"
    BY Zenon, <2>1 DEF StoreRest, Busy
  <2>3. PICK n \in Nat, s \in Slot : Works(w, n, s)
    BY <1>0, <2>2, WorksOn
  <2>4. Stows(w, n, s)
    BY <1>0, <2>1, <2>2, <2>3, StoreRestForm DEF Stows
  <2> QED
    BY <2>4
<1>5. CASE \E w \in Worker : DirectWrite(w)
  BY <1>0, <1>1, <1>5, WritesQuiet
<1>6. CASE \E c \in {"D", "P"} : SendSocket(c)
  BY <1>0, <1>1, <1>6, ListsQuiet
<1>7. CASE \E s \in Slot, k \in Nat : Moved(s, k)
  <2>1. PICK s \in Slot, k \in Nat : Moved(s, k)
    BY <1>7
  <2>2. PICK u, h, l \in Seq(Unit) : Sent(s, u, h, l)
    BY <1>0, <2>1, MovedLists
  <2>3. Flushes(s, u, h, l)
    BY <2>1, <2>2 DEF Flushes, Moved
  <2>4. poll'.pc # "close"
    BY <1>0, <2>3, SendLeft DEF Flushes, On
  <2> QED
    BY <2>3, <2>4
<1> QED
  BY <1>1, <1>2, <1>3, <1>4, <1>5, <1>6, <1>7, QuietForms

-----------------------------------------------------------------------------
(* Whole messages                                                          *)

\* the two units of a message are next to each other
Paired(q) ==
    \A i \in DOMAIN q :
        \/ q[i][2] = 1 /\ i < Len(q) /\ q[i + 1] = <<q[i][1], 2>>
        \/ q[i][2] = 2 /\ i > 1 /\ q[i - 1] = <<q[i][1], 1>>

\* The elements of two lists put together.
LEMMA ConcatAt ==
  ASSUME NEW a \in Seq(Unit), NEW b \in Seq(Unit)
  PROVE  /\ a \o b \in Seq(Unit) /\ DOMAIN (a \o b) = 1..(Len(a) + Len(b)) /\ DOMAIN a = 1..Len(a) /\ DOMAIN b = 1..Len(b)
         /\ Len(a \o b) = Len(a) + Len(b) /\ Len(a) \in Nat /\ Len(b) \in Nat
         /\ \A i \in 1..Len(a) : (a \o b)[i] = a[i]
         /\ \A i \in 1..Len(b) : (a \o b)[Len(a) + i] = b[i]
OBVIOUS

\* Whole messages behind whole messages.
LEMMA PairedConcat ==
  ASSUME NEW a \in Seq(Unit), NEW b \in Seq(Unit), Paired(a), Paired(b)
  PROVE  Paired(a \o b)
<1>c. PICK c \in Seq(Unit) : c = a \o b
  BY ConcatAt
<1>l. PICK la \in Nat, lb \in Nat : la = Len(a) /\ lb = Len(b)
  BY ConcatAt
<1>0. /\ DOMAIN c = 1..(la + lb) /\ DOMAIN a = 1..la /\ DOMAIN b = 1..lb /\ Len(c) = la + lb
      /\ \A i \in 1..la : c[i] = a[i]
      /\ \A i \in 1..lb : c[la + i] = b[i]
  BY <1>c, <1>l, ConcatAt
<1>1. ASSUME NEW i \in 1..la
      PROVE  \/ c[i][2] = 1 /\ i < Len(c) /\ c[i + 1] = <<c[i][1], 2>>
             \/ c[i][2] = 2 /\ i > 1 /\ c[i - 1] = <<c[i][1], 1>>
  <2>1. CASE a[i][2] = 1 /\ i < Len(a) /\ a[i + 1] = <<a[i][1], 2>>
    <3>1. i + 1 \in 1..la /\ i < la + lb
      BY <1>l, <2>1
    <3> QED
      BY <1>0, <2>1, <3>1
  <2>2. CASE a[i][2] = 2 /\ i > 1 /\ a[i - 1] = <<a[i][1], 1>>
    <3>1. i - 1 \in 1..la
      BY <2>2
    <3> QED
      BY <1>0, <2>2, <3>1
  <2> QED
    BY <1>0, <2>1, <2>2 DEF Paired
<1>2. ASSUME NEW i \in 1..(la + lb), NEW j \in 1..lb, i = la + j
      PROVE  \/ c[i][2] = 1 /\ i < Len(c) /\ c[i + 1] = <<c[i][1], 2>>
             \/ c[i][2] = 2 /\ i > 1 /\ c[i - 1] = <<c[i][1], 1>>
  <2>0. c[i] = b[j]
    BY <1>0, <1>2
  <2>1. CASE b[j][2] = 1 /\ j < Len(b) /\ b[j + 1] = <<b[j][1], 2>>
    <3>1. j + 1 \in 1..lb /\ i < la + lb /\ la + (j + 1) = i + 1
      BY <1>2, <1>l, <2>1
    <3>2. c[i + 1] = b[j + 1]
      BY <1>0, <3>1
    <3> QED
      BY <1>0, <2>0, <2>1, <3>1, <3>2
  <2>2. CASE b[j][2] = 2 /\ j > 1 /\ b[j - 1] = <<b[j][1], 1>>
    <3>1. j - 1 \in 1..lb /\ i > 1 /\ la + (j - 1) = i - 1
      BY <1>2, <2>2
    <3>2. c[i - 1] = b[j - 1]
      BY <1>0, <3>1
    <3> QED
      BY <2>0, <2>2, <3>1, <3>2
  <2> QED
    BY <1>0, <2>1, <2>2 DEF Paired
<1>3. ASSUME NEW i \in DOMAIN c
      PROVE  \/ c[i][2] = 1 /\ i < Len(c) /\ c[i + 1] = <<c[i][1], 2>>
             \/ c[i][2] = 2 /\ i > 1 /\ c[i - 1] = <<c[i][1], 1>>
  <2>1. i \in 1..la \/ (i - la \in 1..lb /\ i = la + (i - la) /\ i \in 1..(la + lb))
    BY <1>0, <1>3
  <2>2. CASE i - la \in 1..lb /\ i = la + (i - la) /\ i \in 1..(la + lb)
    BY <1>2, <2>2
  <2> QED
    BY <1>1, <2>1, <2>2
<1>4. Paired(c)
  BY <1>3 DEF Paired
<1> QED
  BY <1>4, <1>c

\* A stream may be cut where no message is torn.
LEMMA PairedCut ==
  ASSUME NEW a \in Seq(Unit), NEW b \in Seq(Unit), Paired(a \o b), b = <<>> \/ b[1][2] # 2
  PROVE  Paired(a) /\ Paired(b)
<1>c. PICK c \in Seq(Unit) : c = a \o b
  BY ConcatAt
<1>l. PICK la \in Nat, lb \in Nat : la = Len(a) /\ lb = Len(b)
  BY ConcatAt
<1>0. /\ DOMAIN c = 1..(la + lb) /\ DOMAIN a = 1..la /\ DOMAIN b = 1..lb /\ Len(c) = la + lb
      /\ \A i \in 1..la : c[i] = a[i]
      /\ \A i \in 1..lb : c[la + i] = b[i]
  BY <1>c, <1>l, ConcatAt
<1>p. \A i \in 1..(la + lb) : \/ c[i][2] = 1 /\ i < la + lb /\ c[i + 1] = <<c[i][1], 2>>
                              \/ c[i][2] = 2 /\ i > 1 /\ c[i - 1] = <<c[i][1], 1>>
  BY <1>c, <1>0 DEF Paired
<1>b. lb > 0 => b[1][2] # 2
  BY <1>l
<1>1. ASSUME NEW i \in 1..la
      PROVE  \/ a[i][2] = 1 /\ i < la /\ a[i + 1] = <<a[i][1], 2>>
             \/ a[i][2] = 2 /\ i > 1 /\ a[i - 1] = <<a[i][1], 1>>
  <2>0. i \in 1..(la + lb) /\ c[i] = a[i]
    BY <1>0
  <2>1. CASE c[i][2] = 1 /\ i < la + lb /\ c[i + 1] = <<c[i][1], 2>>
    <3>1. i < la
      <4> SUFFICES ASSUME i = la PROVE FALSE
        OBVIOUS
      <4>1. 1 \in 1..lb /\ lb > 0
        BY <2>1
      <4>2. c[la + 1] = b[1]
        BY <1>0, <4>1
      <4>3. b[1] = <<c[i][1], 2>>
        BY <2>1, <4>2
      <4> QED
        BY <1>b, <4>1, <4>3
    <3>2. i + 1 \in 1..la
      BY <3>1
    <3> QED
      BY <1>0, <2>0, <2>1, <3>1, <3>2
  <2>2. CASE c[i][2] = 2 /\ i > 1 /\ c[i - 1] = <<c[i][1], 1>>
    <3>1. i - 1 \in 1..la
      BY <2>2
    <3> QED
      BY <1>0, <2>0, <2>2, <3>1
  <2> QED
    BY <1>p, <2>0, <2>1, <2>2
<1>2. ASSUME NEW j \in 1..lb
      PROVE  \/ b[j][2] = 1 /\ j < lb /\ b[j + 1] = <<b[j][1], 2>>
             \/ b[j][2] = 2 /\ j > 1 /\ b[j - 1] = <<b[j][1], 1>>
  <2>0. la + j \in 1..(la + lb) /\ c[la + j] = b[j]
    BY <1>0
  <2>1. CASE c[la + j][2] = 1 /\ la + j < la + lb /\ c[la + j + 1] = <<c[la + j][1], 2>>
    <3>1. j + 1 \in 1..lb /\ la + (j + 1) = la + j + 1 /\ j < lb
      BY <2>1
    <3>2. c[la + (j + 1)] = b[j + 1]
      BY <1>0, <3>1
    <3>3. c[la + j + 1] = b[j + 1]
      BY <3>1, <3>2
    <3> QED
      BY <2>0, <2>1, <3>1, <3>3
  <2>2. CASE c[la + j][2] = 2 /\ la + j > 1 /\ c[la + j - 1] = <<c[la + j][1], 1>>
    <3>1. j > 1
      <4> SUFFICES ASSUME j = 1 PROVE FALSE
        OBVIOUS
      <4> QED
        BY <1>b, <2>0, <2>2
    <3>2. j - 1 \in 1..lb /\ la + (j - 1) = la + j - 1
      BY <3>1
    <3>3. c[la + (j - 1)] = b[j - 1]
      BY <1>0, <3>2
    <3>4. c[la + j - 1] = b[j - 1]
      BY <3>2, <3>3
    <3> QED
      BY <2>0, <2>2, <3>1, <3>4
  <2> QED
    BY SMTT(40), <1>p, <2>0, <2>1, <2>2
<1> QED
  BY <1>0, <1>1, <1>2, <1>l DEF Paired

\* ... for instance behind the second unit of one.
LEMMA CutBehind ==
  ASSUME NEW a \in Seq(Unit), NEW b \in Seq(Unit), Paired(a \o b), a # <<>>, a[Len(a)][2] = 2
  PROVE  b = <<>> \/ b[1][2] # 2
<1> SUFFICES ASSUME b # <<>>, b[1][2] = 2 PROVE FALSE
  OBVIOUS
<1>c. PICK c \in Seq(Unit) : c = a \o b
  BY ConcatAt
<1>l. PICK la \in Nat, lb \in Nat : la = Len(a) /\ lb = Len(b)
  BY ConcatAt
<1>1. la > 0 /\ lb > 0
  BY <1>l
<1>2. /\ DOMAIN c = 1..(la + lb) /\ Len(c) = la + lb
      /\ c[la] = a[la] /\ c[la + 1] = b[1]
  BY <1>1, <1>c, <1>l, ConcatAt
<1>3. la + 1 \in DOMAIN c /\ (la + 1) - 1 = la
  BY <1>1, <1>2
<1>p. Paired(c) /\ c[la + 1][2] = 2
  BY <1>2, <1>c
<1>4. c[(la + 1) - 1] = <<c[la + 1][1], 1>>
  BY <1>3, <1>p DEF Paired
<1>5. a[la] = <<b[1][1], 1>>
  BY <1>2, <1>3, <1>4
<1> QED
  BY <1>5, <1>l

\* The units of a message are whole.
LEMMA PairedUnits ==
  ASSUME NEW n \in Nat
  PROVE  Paired(Units(n)) /\ IsInjective(Units(n)) /\ Range(Units(n)) = {<<n, 1>>, <<n, 2>>}
<1>1. Len(Units(n)) = 2 /\ DOMAIN Units(n) = {1, 2} /\ Units(n)[1] = <<n, 1>> /\ Units(n)[2] = <<n, 2>>
  BY DEF Units
<1>2. Units(n)[1][1] = n /\ Units(n)[1][2] = 1 /\ Units(n)[2][1] = n /\ Units(n)[2][2] = 2
  BY <1>1
<1>3. Paired(Units(n))
  BY <1>1, <1>2 DEF Paired
<1>4. IsInjective(Units(n))
  BY <1>1, <1>2 DEF IsInjective
<1> QED
  BY <1>1, <1>3, <1>4 DEF Range

\* The units of two lists put together.
LEMMA RangeConcat ==
  ASSUME NEW a \in Seq(Unit), NEW b \in Seq(Unit)
  PROVE  Range(a \o b) = Range(a) \cup Range(b)
<1>c. PICK c \in Seq(Unit) : c = a \o b
  BY ConcatAt
<1>l. PICK la \in Nat, lb \in Nat : la = Len(a) /\ lb = Len(b)
  BY ConcatAt
<1>0. /\ DOMAIN c = 1..(la + lb) /\ DOMAIN a = 1..la /\ DOMAIN b = 1..lb
      /\ \A i \in 1..la : c[i] = a[i]
      /\ \A i \in 1..lb : c[la + i] = b[i]
  BY <1>c, <1>l, ConcatAt
<1>1. ASSUME NEW i \in 1..(la + lb) PROVE c[i] \in Range(a) \cup Range(b)
  <2>1. i \in 1..la \/ (i - la \in 1..lb /\ la + (i - la) = i)
    OBVIOUS
  <2> QED
    BY <1>0, <2>1 DEF Range
<1>2. ASSUME NEW i \in 1..la PROVE a[i] \in Range(c)
  BY <1>0 DEF Range
<1>3. ASSUME NEW i \in 1..lb PROVE b[i] \in Range(c)
  <2>1. la + i \in DOMAIN c
    BY <1>0
  <2> QED
    BY <1>0, <2>1 DEF Range
<1>4. Range(c) = Range(a) \cup Range(b)
  BY ZenonT(60), <1>0, <1>1, <1>2, <1>3 DEF Range
<1> QED
  BY <1>4, <1>c

\* Two lists put together are without duplicates if each is and they share
\* nothing.
LEMMA InjConcat ==
  ASSUME NEW a \in Seq(Unit), NEW b \in Seq(Unit)
  PROVE  IsInjective(a \o b) <=> IsInjective(a) /\ IsInjective(b) /\ Range(a) \cap Range(b) = {}
<1>c. PICK c \in Seq(Unit) : c = a \o b
  BY ConcatAt
<1>l. PICK la \in Nat, lb \in Nat : la = Len(a) /\ lb = Len(b)
  BY ConcatAt
<1>0. /\ DOMAIN c = 1..(la + lb) /\ DOMAIN a = 1..la /\ DOMAIN b = 1..lb
      /\ \A i \in 1..la : c[i] = a[i]
      /\ \A i \in 1..lb : c[la + i] = b[i]
  BY <1>c, <1>l, ConcatAt
<1>1. ASSUME IsInjective(c) PROVE IsInjective(a) /\ IsInjective(b) /\ Range(a) \cap Range(b) = {}
  <2>0. \A i, j \in 1..(la + lb) : c[i] = c[j] => i = j
    BY <1>0, <1>1 DEF IsInjective
  <2>1. IsInjective(a)
    <3>1. ASSUME NEW i \in 1..la, NEW j \in 1..la, a[i] = a[j] PROVE i = j
      BY <1>0, <2>0, <3>1
    <3> QED
      BY <1>0, <3>1 DEF IsInjective
  <2>2. IsInjective(b)
    <3>1. ASSUME NEW i \in 1..lb, NEW j \in 1..lb, b[i] = b[j] PROVE i = j
      <4>1. la + i \in 1..(la + lb) /\ la + j \in 1..(la + lb) /\ c[la + i] = c[la + j]
        BY <1>0, <3>1
      <4>2. la + i = la + j
        BY <2>0, <4>1
      <4> QED
        BY <4>2
    <3> QED
      BY <1>0, <3>1 DEF IsInjective
  <2>3. ASSUME NEW i \in 1..la, NEW j \in 1..lb, a[i] = b[j] PROVE FALSE
    <3>1. i \in 1..(la + lb) /\ la + j \in 1..(la + lb) /\ c[i] = c[la + j]
      BY <1>0, <2>3
    <3>2. i = la + j
      BY <2>0, <3>1
    <3> QED
      BY <3>2
  <2> QED
    BY <1>0, <2>1, <2>2, <2>3 DEF Range
<1>2. ASSUME IsInjective(a), IsInjective(b), Range(a) \cap Range(b) = {} PROVE IsInjective(c)
  <2>a. \A i, j \in 1..la : a[i] = a[j] => i = j
    BY <1>0, <1>2 DEF IsInjective
  <2>b. \A i, j \in 1..lb : b[i] = b[j] => i = j
    BY <1>0, <1>2 DEF IsInjective
  <2>c. \A i \in 1..la, j \in 1..lb : a[i] # b[j]
    BY <1>0, <1>2 DEF Range
  <2>1. ASSUME NEW i \in 1..(la + lb), NEW j \in 1..(la + lb), c[i] = c[j] PROVE i = j
    <3>1. i \in 1..la \/ (i - la \in 1..lb /\ c[i] = b[i - la])
      <4>1. i \in 1..la \/ (i - la \in 1..lb /\ la + (i - la) = i)
        OBVIOUS
      <4> QED
        BY <1>0, <4>1
    <3>2. j \in 1..la \/ (j - la \in 1..lb /\ c[j] = b[j - la])
      <4>1. j \in 1..la \/ (j - la \in 1..lb /\ la + (j - la) = j)
        OBVIOUS
      <4> QED
        BY <1>0, <4>1
    <3>3. CASE i \in 1..la /\ j \in 1..la
      BY <1>0, <2>a, <2>1, <3>3
    <3>4. CASE i \in 1..la /\ ~(j \in 1..la)
      BY <1>0, <2>c, <2>1, <3>2, <3>4
    <3>5. CASE ~(i \in 1..la) /\ j \in 1..la
      BY <1>0, <2>c, <2>1, <3>1, <3>5
    <3>6. CASE ~(i \in 1..la) /\ ~(j \in 1..la)
      <4>1. i - la = j - la
        BY <2>b, <2>1, <3>1, <3>2, <3>6
      <4> QED
        BY <4>1
    <3> QED
      BY <3>3, <3>4, <3>5, <3>6
  <2> QED
    BY <1>0, <2>1 DEF IsInjective
<1>3. IsInjective(c) <=> IsInjective(a) /\ IsInjective(b) /\ Range(a) \cap Range(b) = {}
  BY <1>1, <1>2
<1> QED
  BY <1>3, <1>c

\* What is written (f), the rest of a direct write (x) and the high list (h) are
\* whole messages in this sequence, and so is the low list (l).
Stream(f, x, h, l) == Paired((f \o x) \o h) /\ Paired(l) /\ IsInjective(((f \o x) \o h) \o l)

\* Types of lists put together.
LEMMA Concat ==
  /\ \A a, b \in Seq(Unit) : a \o b \in Seq(Unit)
  /\ \A a \in Seq(Unit) : <<>> \o a = a /\ a \o <<>> = a
  /\ <<>> \in Seq(Unit)
OBVIOUS

\* Putting three lists together is associative.
LEMMA AssociativeAt ==
  ASSUME NEW a \in Seq(Unit), NEW b \in Seq(Unit), NEW c \in Seq(Unit)
  PROVE  (a \o b) \o c = a \o (b \o c)
BY Associative

\* The units of a new message are new.
LEMMA NewUnits ==
  ASSUME NEW a \in Seq(Unit), NEW n \in Nat, n \notin Of(a)
  PROVE  Range(a) \cap Range(Units(n)) = {}
<1>1. ASSUME NEW i \in DOMAIN a PROVE a[i] # <<n, 1>> /\ a[i] # <<n, 2>>
  <2>1. a[i][1] # n
    BY <1>1 DEF Of
  <2>2. <<n, 1>>[1] = n /\ <<n, 2>>[1] = n
    OBVIOUS
  <2> QED
    BY <2>1, <2>2
<1> QED
  BY <1>1, PairedUnits DEF Range

\* An empty stream is whole.
LEMMA StreamEmpty == Stream(<<>>, <<>>, <<>>, <<>>)
<1>1. Paired(<<>>) /\ IsInjective(<<>>)
  BY DEF Paired, IsInjective
<1> QED
  BY <1>1, Concat DEF Stream

\* A direct write with its rest keeps the stream whole.
LEMMA StreamWrite ==
  ASSUME NEW f \in Seq(Unit), NEW n \in Nat, NEW u \in Seq(Unit), NEW r \in Seq(Unit), Units(n) = u \o r,
         n \notin Of(f), Stream(f, <<>>, <<>>, <<>>)
  PROVE  Stream(f \o u, r, <<>>, <<>>)
<1>u. PICK v \in Seq(Unit) : v = Units(n)
  BY OfUnits
<1>1. Paired(f) /\ IsInjective(f) /\ Paired(<<>>)
  BY Concat DEF Stream
<1>2. Paired(f \o v) /\ IsInjective(f \o v)
  BY <1>1, <1>u, PairedConcat, PairedUnits, InjConcat, NewUnits
<1>3. (f \o u) \o r = f \o v
  BY <1>u, Associative
<1>g. PICK g \in Seq(Unit) : g = f \o v
  BY Concat
<1>4. ((f \o u) \o r) \o <<>> = g
  BY <1>3, <1>g, Concat
<1>5. (((f \o u) \o r) \o <<>>) \o <<>> = g
  BY <1>4, Concat
<1> QED
  BY <1>1, <1>2, <1>4, <1>5, <1>g DEF Stream

\* A new message in the high list keeps the stream whole.
LEMMA StreamHigh ==
  ASSUME NEW f \in Seq(Unit), NEW x \in Seq(Unit), NEW h \in Seq(Unit), NEW l \in Seq(Unit), NEW n \in Nat,
         n \notin Of(f), n \notin Of(x), n \notin Of(h), n \notin Of(l), Stream(f, x, h, l)
  PROVE  Stream(f, x, h \o Units(n), l)
<1>u. PICK v \in Seq(Unit) : v = Units(n)
  BY OfUnits
<1>a. PICK a \in Seq(Unit) : a = (f \o x) \o h
  BY Concat
<1>1. n \notin Of(a)
  <2>1. Of(f \o x) = Of(f) \cup Of(x) /\ f \o x \in Seq(Unit)
    BY OfConcat, Concat
  <2> QED
    BY ZenonT(60), <1>a, <2>1, OfConcat
<1>2. Paired(a) /\ Paired(l) /\ IsInjective(a \o l)
  BY <1>a DEF Stream
<1>3. IsInjective(a) /\ IsInjective(l) /\ Range(a) \cap Range(l) = {}
  BY <1>2, InjConcat
<1>4. Range(a) \cap Range(v) = {} /\ Range(l) \cap Range(v) = {} /\ Paired(v) /\ IsInjective(v)
  BY <1>1, <1>u, NewUnits, PairedUnits
<1>b. PICK b \in Seq(Unit) : b = a \o v
  BY Concat
<1>5. Paired(b) /\ IsInjective(b) /\ Range(b) = Range(a) \cup Range(v)
  BY <1>2, <1>3, <1>4, <1>b, PairedConcat, InjConcat, RangeConcat
<1>6. IsInjective(b \o l)
  BY <1>3, <1>4, <1>5, InjConcat
<1>7. (f \o x) \o (h \o v) = b
  <2>1. PICK g \in Seq(Unit) : g = f \o x
    BY Concat
  <2>2. (g \o h) \o v = g \o (h \o v)
    BY ZenonT(60), Associative
  <2> QED
    BY <1>a, <1>b, <2>1, <2>2, Zenon
<1> QED
  BY <1>2, <1>5, <1>6, <1>7, <1>u DEF Stream

\* A new message in the low list keeps the stream whole.
LEMMA StreamLow ==
  ASSUME NEW f \in Seq(Unit), NEW x \in Seq(Unit), NEW h \in Seq(Unit), NEW l \in Seq(Unit), NEW n \in Nat,
         n \notin Of(f), n \notin Of(x), n \notin Of(h), n \notin Of(l), Stream(f, x, h, l)
  PROVE  Stream(f, x, h, l \o Units(n))
<1>u. PICK v \in Seq(Unit) : v = Units(n)
  BY OfUnits
<1>a. PICK a \in Seq(Unit) : a = (f \o x) \o h
  BY Concat
<1>1. n \notin Of(a)
  <2>1. PICK g \in Seq(Unit) : g = f \o x
    BY Concat
  <2>2. Of(g) = Of(f) \cup Of(x)
    BY <2>1, OfConcat
  <2>3. Of(a) = Of(g) \cup Of(h)
    BY <1>a, <2>1, OfConcat
  <2> QED
    BY <2>2, <2>3
<1>2. Paired(a) /\ Paired(l) /\ IsInjective(a \o l)
  BY <1>a DEF Stream
<1>b. PICK b \in Seq(Unit) : b = a \o l
  BY Concat
<1>3. IsInjective(b) /\ n \notin Of(b)
  BY <1>1, <1>2, <1>b, OfConcat
<1>4. Range(b) \cap Range(v) = {} /\ Paired(v) /\ IsInjective(v)
  BY <1>3, <1>u, NewUnits, PairedUnits
<1>5. IsInjective(b \o v) /\ Paired(l \o v)
  BY <1>2, <1>3, <1>4, InjConcat, PairedConcat
<1>6. a \o (l \o v) = b \o v
  BY SMTT(60), <1>b, Associative
<1> QED
  BY <1>2, <1>5, <1>6, <1>a, <1>u DEF Stream

\* Moving dw_buffer in front of the high list keeps the stream whole.
LEMMA StreamFetch ==
  ASSUME NEW f \in Seq(Unit), NEW x \in Seq(Unit), NEW h \in Seq(Unit), NEW l \in Seq(Unit), Stream(f, x, h, l)
  PROVE  Stream(f, <<>>, x \o h, l)
<1>1. (f \o <<>>) \o (x \o h) = (f \o x) \o h
  <2>1. f \o <<>> = f /\ f \o (x \o h) = (f \o x) \o h
    BY Concat, Associative
  <2> QED
    BY <2>1
<1> QED
  BY <1>1 DEF Stream

\* Writing from the high list keeps the stream whole.
LEMMA StreamFlushHigh ==
  ASSUME NEW f \in Seq(Unit), NEW u \in Seq(Unit), NEW h \in Seq(Unit), NEW l \in Seq(Unit), Stream(f, <<>>, u \o h, l)
  PROVE  Stream(f \o u, <<>>, h, l)
<1>g. PICK g \in Seq(Unit) : g = f \o u
  BY Concat
<1>1. (f \o <<>>) \o (u \o h) = (g \o <<>>) \o h
  <2>1. f \o <<>> = f /\ g \o <<>> = g /\ f \o (u \o h) = g \o h
    BY SMTT(40), <1>g, Concat, Associative
  <2> QED
    BY <2>1
<1> QED
  BY <1>1, <1>g DEF Stream

\* The last unit of two lists put together.
LEMMA LastConcat ==
  ASSUME NEW p \in Seq(Unit), NEW h \in Seq(Unit), Len(h) = 1
  PROVE  p \o h # <<>> /\ (p \o h)[Len(p \o h)] = h[1]
<1>1. 1 \in 1..Len(h) /\ Len(p \o h) = Len(p) + 1 /\ Len(p) \in Nat /\ (p \o h)[Len(p) + 1] = h[1]
  BY SMTT(40), ConcatAt
<1> QED
  BY <1>1

\* What is written from both lists, with what is left, in two ways.
LEMMA FlushShape ==
  ASSUME NEW f \in Seq(Unit), NEW q \in Seq(Unit), NEW p \in Seq(Unit), NEW h \in Seq(Unit)
  PROVE  \E g \in Seq(Unit) : g = f \o (q \o p) /\ g \o h = (f \o q) \o (p \o h)
<1>1. (f \o q) \o p = f \o (q \o p)
  BY AssociativeAt
<1>a. PICK a \in Seq(Unit) : a = f \o q
  BY Concat
<1>2. (a \o p) \o h = a \o (p \o h)
  BY AssociativeAt
<1>g. PICK g \in Seq(Unit) : g = f \o (q \o p)
  BY Concat
<1>3. g \o h = (f \o q) \o (p \o h)
  BY <1>1, <1>2, <1>a, <1>g, Zenon
<1> QED
  BY <1>3, <1>g, Zenon

\* A stream without a rest from its parts.
LEMMA StreamOf ==
  ASSUME NEW g \in Seq(Unit), NEW h \in Seq(Unit), NEW l \in Seq(Unit), Paired(g \o h), Paired(l), IsInjective((g \o h) \o l)
  PROVE  Stream(g, <<>>, h, l)
<1>1. g \o <<>> = g
  BY Concat
<1> QED
  BY <1>1, Zenon DEF Stream

\* Two whole lists are whole together.
LEMMA JoinCut ==
  ASSUME NEW a \in Seq(Unit), NEW b \in Seq(Unit), NEW l \in Seq(Unit), Paired(a), Paired(b), IsInjective(a \o (b \o l))
  PROVE  Paired(a \o b) /\ IsInjective((a \o b) \o l)
<1>1. (a \o b) \o l = a \o (b \o l)
  BY AssociativeAt
<1>2. Paired(a \o b)
  BY PairedConcat
<1> QED
  BY <1>1, <1>2, Zenon

\* Writing from both lists, of the low one up to a half that goes to the high
\* one, keeps the stream whole.
LEMMA FlushJoin ==
  ASSUME NEW f \in Seq(Unit), NEW q \in Seq(Unit), NEW p \in Seq(Unit), NEW h \in Seq(Unit), NEW l \in Seq(Unit),
         Paired((f \o q) \o (p \o h)), Paired(l), IsInjective(((f \o q) \o (p \o h)) \o l)
  PROVE  Stream(f \o (q \o p), <<>>, h, l)
<1>1. \A y, z \in Seq(Unit) : \E g \in Seq(Unit) : g = f \o (q \o y) /\ g \o z = (f \o q) \o (y \o z)
  BY ZenonT(60), FlushShape
<1>g. PICK g \in Seq(Unit) : g = f \o (q \o p) /\ g \o h = (f \o q) \o (p \o h)
  BY <1>1
<1>2. Paired(g \o h) /\ IsInjective((g \o h) \o l)
  BY <1>g, Zenon
<1>3. Stream(g, <<>>, h, l)
  BY <1>2, StreamOf
<1> QED
  BY <1>3, <1>g

\* A low message that is written in part goes to the high list.
LEMMA StreamFlushLow ==
  ASSUME NEW f \in Seq(Unit), NEW q \in Seq(Unit), NEW p \in Seq(Unit), NEW h \in Seq(Unit), NEW l \in Seq(Unit),
         Stream(f, <<>>, q, (p \o h) \o l), h = <<>> => l = <<>> \/ l[1][2] # 2, h # <<>> => Len(h) = 1 /\ h[1][2] = 2
  PROVE  Stream(f \o (q \o p), <<>>, h, l)
<1>a. PICK a \in Seq(Unit) : a = f \o q
  BY Concat
<1>b. PICK b \in Seq(Unit) : b = p \o h
  BY Concat
<1>1. f \o <<>> = f
  BY Concat
<1>2. Paired(a) /\ Paired(b \o l) /\ IsInjective(a \o (b \o l))
  BY <1>1, <1>a, <1>b DEF Stream
<1>3. l = <<>> \/ l[1][2] # 2
  <2>1. CASE h # <<>>
    <3>1. b # <<>> /\ b[Len(b)] = h[1]
      BY <1>b, <2>1, LastConcat
    <3> QED
      BY <1>2, <2>1, <3>1, CutBehind
  <2> QED
    BY <2>1
<1>4. Paired(b) /\ Paired(l)
  BY <1>2, <1>3, PairedCut
<1>5. Paired(a \o b) /\ IsInjective((a \o b) \o l)
  BY <1>2, <1>4, JoinCut
<1>6. Paired((f \o q) \o (p \o h)) /\ IsInjective(((f \o q) \o (p \o h)) \o l)
  BY <1>5, <1>a, <1>b, Zenon
<1> QED
  BY <1>4, <1>6, FlushJoin

\* worker w is about to store the rest of a message to slot s
Stores(w, s) == Holds(w, s) /\ wk[w].pc = "store"

\* x is what comes first in what is still to be written to slot s
Leads(s, x) ==
    \/ \E w \in Worker : Stores(w, s) /\ x = wk[w].rest
    \/ (\A w \in Worker : ~Stores(w, s)) /\ x = sock[s].dw

Whole(s) ==
    Live(s) => \A x \in Seq(Unit) : Leads(s, x) => Stream(wire[sock[s].fd], x, sock[s].high, sock[s].low)

WholeInv == \A s \in Slot : Calm(s) => Whole(s)

\* A slot whose wire and lists are not touched stays whole.
LEMMA WholeFrame ==
  ASSUME NEW t \in Slot, Whole(t), Live(t)' => Live(t), Live(t) => wire'[sock'[t].fd] = wire[sock[t].fd],
         sock'[t].high = sock[t].high, sock'[t].low = sock[t].low, \A x \in Seq(Unit) : Leads(t, x)' => Leads(t, x)
  PROVE  Whole(t)'
<1> SUFFICES ASSUME Live(t)', NEW x \in Seq(Unit), Leads(t, x)'
             PROVE  Stream(wire'[sock'[t].fd], x, sock'[t].high, sock'[t].low)
  BY DEF Whole, Stream
<1>1. Stream(wire[sock[t].fd], x, sock[t].high, sock[t].low)
  BY DEF Whole
<1> QED
  BY <1>1

\* What comes first behind the wire is the same when dw_buffer and rests are.
LEMMA LeadsSame ==
  ASSUME NEW t \in Slot, sock'[t].dw = sock[t].dw,
         \A w \in Worker : /\ Stores(w, t) <=> Stores(w, t)'
                           /\ Stores(w, t) => wk'[w].rest = wk[w].rest
  PROVE  \A x \in Seq(Unit) : Leads(t, x)' => Leads(t, x)
BY DEF Leads

\* A worker that does not move stores the same.
LEMMA StoresSame ==
  ASSUME SocketType, MsgKept, NEW w \in Worker, NEW t \in Slot, wk'[w] = wk[w] \/ (wk[w].pc # "store" /\ wk'[w].pc # "store")
  PROVE  /\ Stores(w, t) <=> Stores(w, t)'
         /\ Stores(w, t) => wk'[w].rest = wk[w].rest
<1>1. CASE wk'[w] = wk[w]
  BY <1>1, HoldsMsg DEF Stores
<1>2. CASE wk[w].pc # "store" /\ wk'[w].pc # "store"
  BY <1>2 DEF Stores
<1> QED
  BY <1>1, <1>2

\* nobody has the lock, or the poll thread
LEMMA NobodyStores ==
  ASSUME NEW s \in Slot, Locked(s), sock[s].lock \in {Nobody, "poll"}
  PROVE  \A w \in Worker : ~Stores(w, s)
BY SocketAssumption DEF Locked, Stores, Worker

\* When no worker stores, dw_buffer comes first.
LEMMA NobodyLeads ==
  ASSUME NEW s \in Slot, \A w \in Worker : ~Stores(w, s), NEW x, Leads(s, x)
  PROVE  x = sock[s].dw
BY DEF Leads

\* Another slot than the one that is written or listed to.
LEMMA WholeOther ==
  ASSUME SocketInv, MsgKept, NEW s \in Slot, NEW t \in Slot, t # s, Calm(t), Whole(t), sock'[t] = sock[t],
         On("close", t) => On("close", t)',
         \A id \in Id : id # sock[s].fd => wire'[id] = wire[id],
         \A w \in Worker : /\ Stores(w, t) <=> Stores(w, t)'
                           /\ Stores(w, t) => wk'[w].rest = wk[w].rest
  PROVE  Whole(t)'
<1>0. SocketType /\ Bound(t)
  BY DEF SocketInv, SlotInv
<1>1. Live(t)' => Live(t)
  BY DEF Live
<1>2. ASSUME Live(t) PROVE wire'[sock'[t].fd] = wire[sock[t].fd]
  <2>1. sock[t].fd # 0
    BY <1>0, <1>2 DEF Live, Bound, Id
  <2> QED
    BY <1>0, <2>1, OtherWire
<1>3. \A x \in Seq(Unit) : Leads(t, x)' => Leads(t, x)
  BY LeadsSame
<1> QED
  BY <1>1, <1>2, <1>3, WholeFrame

\* A quiet step keeps the streams whole.
LEMMA WholeLoses ==
  ASSUME SocketInv, SocketInv', FirstInv, Loses, NEW t \in Slot, Calm(t)', Whole(t), Quiet(t)
  PROVE  Whole(t)'
<1>0. SocketType /\ MsgKept /\ wire' = wire
  BY DEF SocketInv, Loses, MsgKept
<1>w. ASSUME NEW w \in Worker
      PROVE  /\ Stores(w, t) <=> Stores(w, t)'
             /\ Stores(w, t) => wk'[w].rest = wk[w].rest
  <2>1. wk'[w] = wk[w] \/ (wk[w].pc # "store" /\ wk'[w].pc # "store")
    BY DEF Loses, WorkerKept, Busy, Unsent
  <2> QED
    BY <1>0, <2>1, StoresSame
<1>1. CASE ~Live(t)'
  BY <1>1 DEF Whole
<1>2. CASE Same(t)
  <2>1. Live(t)' => Live(t)
    BY <1>2 DEF Same, Live, On
  <2>2. \A x \in Seq(Unit) : Leads(t, x)' => Leads(t, x)
    BY <1>w, <1>2, LeadsSame DEF Same
  <2> QED
    BY <1>0, <1>2, <2>1, <2>2, WholeFrame DEF Same
<1>3. CASE Opens(t)
  <2>1. Locked(t)'
    BY DEF SocketInv, SlotInv
  <2>2. (\A w \in Worker : ~Stores(w, t))'
    BY <1>3, <2>1, SocketAssumption DEF Locked, Stores, Worker, Opens
  <2>3. ASSUME NEW x \in Seq(Unit), Leads(t, x)' PROVE x = <<>>
    BY <1>3, <2>2, <2>3 DEF Leads, Opens
  <2>4. wire'[sock'[t].fd] = <<>>
    BY <1>0, <1>3 DEF Opens, Virgin
  <2>5. ASSUME NEW x \in Seq(Unit), Leads(t, x)' PROVE Stream(wire'[sock'[t].fd], x, sock'[t].high, sock'[t].low)
    BY <1>3, <2>3, <2>4, <2>5, StreamEmpty DEF Opens
  <2> QED
    BY <2>5 DEF Whole, Stream
<1>4. CASE sock'[t].type \in Dead \/ Closes(t)
  <2>1. ~Live(t)'
    BY <1>4 DEF Live, Closes
  <2> QED
    BY <1>1, <2>1
<1> QED
  BY <1>2, <1>3, <1>4 DEF Quiet

\* Sending keeps the streams whole.
LEMMA WholeSends ==
  ASSUME SocketInv, NEW t \in Slot, Whole(t), NEW w \in Sender, NEW n \in Nat, NEW r \in RequestType, Sends(w, n, r)
  PROVE  Whole(t)'
<1>0. SocketType /\ MsgKept /\ sock' = sock /\ wire' = wire /\ poll' = poll /\ w \in Worker
  BY DEF SocketInv, Sends, MsgKept, Worker
<1>1. ASSUME NEW v \in Worker
      PROVE  /\ Stores(v, t) <=> Stores(v, t)'
             /\ Stores(v, t) => wk'[v].rest = wk[v].rest
  <2>1. wk'[v] = wk[v] \/ (wk[v].pc # "store" /\ wk'[v].pc # "store")
    BY DEF Sends, Busy, Unsent
  <2> QED
    BY <1>0, <2>1, StoresSame
<1>2. Live(t)' => Live(t)
  BY <1>0 DEF Live, On
<1>3. \A x \in Seq(Unit) : Leads(t, x)' => Leads(t, x)
  BY <1>0, <1>1, LeadsSame
<1> QED
  BY <1>0, <1>2, <1>3, WholeFrame

\* A message from the pipe is neither on the wire nor in a list.
LEMMA TakenNew ==
  ASSUME SocketInv, BookInv, NEW c \in {"D", "P"}, NEW n \in Nat, NEW s \in Slot, Takes(c, n, s), sock[s].fd # 0
  PROVE  /\ n \notin Of(wire[sock[s].fd]) /\ n \notin Of(sock[s].high) /\ n \notin Of(sock[s].low)
         /\ \A x : Leads(s, x) => n \notin Of(x)
<1>0. SocketType
  BY DEF SocketInv
<1>1. 1 \in DOMAIN pipe /\ IsData(pipe[1]) /\ pipe[1].n = n
  BY DEF Takes, IsData
<1>2. n \in piped /\ ~Used(n)
  BY <1>1 DEF BookInv, Queued
<1>3. ASSUME NEW x, Leads(s, x) PROVE n \notin Of(x)
  <2>1. CASE x = sock[s].dw
    BY <1>0, <1>2, <2>1, OfUsed
  <2>2. ASSUME NEW w \in Worker, Stores(w, s), x = wk[w].rest PROVE n \notin Of(x)
    BY <1>2, <2>2 DEF Stores, BookInv, Sending, Busy
  <2> QED
    BY <1>3, <2>1, <2>2 DEF Leads
<1> QED
  BY <1>0, <1>2, <1>3, OfUsed

\* Listing a message keeps the streams whole.
LEMMA WholeLists ==
  ASSUME SocketInv, BookInv, WholeInv, NEW c \in {"D", "P"}, NEW n \in Nat, NEW s \in Slot, Takes(c, n, s), Lists(c, n, s),
         NEW t \in Slot, Calm(t)
  PROVE  Whole(t)'
<1>0. SocketType /\ MsgKept /\ wire' = wire /\ wk' = wk /\ poll' = poll /\ Whole(t)
  BY DEF SocketInv, Takes, MsgKept, WholeInv
<1>1. \A w \in Worker : /\ Stores(w, t) <=> Stores(w, t)'
                        /\ Stores(w, t) => wk'[w].rest = wk[w].rest
  BY <1>0, StoresSame
<1>2. CASE t # s
  <2>1. sock'[t] = sock[t] /\ (On("close", t) => On("close", t)')
    BY <1>0, <1>2 DEF Lists, On
  <2> QED
    BY <1>0, <1>1, <1>2, <2>1, WholeOther
<1>3. CASE t = s
  <2>0. sock'[s].dw = sock[s].dw /\ sock'[s].fd = sock[s].fd /\ sock'[s].type = sock[s].type
    BY DEF Lists
  <2> SUFFICES ASSUME Live(s)', NEW x \in Seq(Unit), Leads(s, x)'
               PROVE  Stream(wire'[sock'[s].fd], x, sock'[s].high, sock'[s].low)
    BY <1>3 DEF Whole, Stream
  <2>1. Live(s)
    BY <1>0, <2>0 DEF Live, On
  <2>2. Leads(s, x)
    BY <1>1, <1>3, <2>0, LeadsSame
  <2>3. sock[s].fd \in Id /\ sock[s].fd # 0
    BY <1>3, <2>1 DEF SocketInv, SlotInv, Bound, Live, Id
  <2>f. PICK f \in Seq(Unit) : f = wire[sock[s].fd]
    BY <1>0, <2>3, BookTypes
  <2>h. PICK h \in Seq(Unit), l \in Seq(Unit) : h = sock[s].high /\ l = sock[s].low
    BY <1>0, BookTypes
  <2>4. n \notin Of(f) /\ n \notin Of(x) /\ n \notin Of(h) /\ n \notin Of(l)
    BY <2>2, <2>3, <2>f, <2>h, TakenNew
  <2>5. Stream(f, x, h, l)
    BY <1>0, <1>3, <2>1, <2>2, <2>f, <2>h DEF Whole
  <2>6. Stream(f, x, h \o Units(n), l)
    BY <2>4, <2>5, StreamHigh
  <2>7. Stream(f, x, h, l \o Units(n))
    BY <2>4, <2>5, StreamLow
  <2>8. wire'[sock'[s].fd] = f
    BY <1>0, <2>0, <2>f
  <2>9. CASE sock'[s].high = sock[s].high \o Units(n) /\ sock'[s].low = sock[s].low
    BY <2>6, <2>8, <2>9, <2>h
  <2>10. CASE sock'[s].high = sock[s].high /\ sock'[s].low = sock[s].low \o Units(n)
    BY <2>7, <2>8, <2>10, <2>h
  <2> QED
    BY <2>9, <2>10 DEF Lists
<1> QED
  BY <1>2, <1>3

\* Moving dw_buffer in front of the high list keeps the streams whole.
LEMMA WholeFetches ==
  ASSUME SocketInv, WholeInv, NEW s \in Slot, Fetches(s), NEW t \in Slot, Calm(t)
  PROVE  Whole(t)'
<1>0. SocketType /\ MsgKept /\ wire' = wire /\ wk' = wk /\ Whole(t) /\ SlotInv(t)
  BY DEF SocketInv, Fetches, MsgKept, WholeInv
<1>1. \A w \in Worker : /\ Stores(w, t) <=> Stores(w, t)'
                        /\ Stores(w, t) => wk'[w].rest = wk[w].rest
  BY <1>0, StoresSame
<1>p. poll.pc # "close" /\ sock[s].lock = Nobody
  BY DEF Fetches
<1>2. CASE t # s
  <2>1. sock'[t] = sock[t]
    BY <1>0, <1>2, FetchedLists
  <2>2. ~On("close", t)
    BY <1>p DEF On
  <2> QED
    BY <1>0, <1>1, <1>2, <2>1, <2>2, WholeOther
<1>3. CASE t = s
  <2>0. /\ sock'[s].dw = <<>> /\ sock'[s].high = sock[s].dw \o sock[s].high /\ sock'[s].low = sock[s].low
        /\ sock'[s].fd = sock[s].fd /\ sock'[s].type = sock[s].type
    BY <1>0, FetchedLists
  <2> SUFFICES ASSUME Live(s)', NEW x \in Seq(Unit), Leads(s, x)'
               PROVE  Stream(wire'[sock'[s].fd], x, sock'[s].high, sock'[s].low)
    BY <1>3 DEF Whole, Stream
  <2>1. Live(s)
    BY <1>p, <2>0 DEF Live, On
  <2>2. \A w \in Worker : ~Stores(w, s)
    BY <1>0, <1>3, <1>p, NobodyStores DEF SlotInv
  <2>3. x = <<>>
    BY <1>1, <1>3, <2>0, <2>2 DEF Leads
  <2>4. Leads(s, sock[s].dw)
    BY <2>2 DEF Leads
  <2>5. sock[s].fd \in Id
    BY <1>0, <1>3, <2>1 DEF SlotInv, Bound, Live
  <2>f. PICK f \in Seq(Unit) : f = wire[sock[s].fd]
    BY <1>0, <2>5, BookTypes
  <2>h. PICK d \in Seq(Unit), h \in Seq(Unit), l \in Seq(Unit) : d = sock[s].dw /\ h = sock[s].high /\ l = sock[s].low
    BY <1>0, BookTypes
  <2>6. Stream(f, d, h, l)
    BY <1>0, <1>3, <2>1, <2>4, <2>f, <2>h DEF Whole
  <2>7. Stream(f, <<>>, d \o h, l)
    BY <2>6, StreamFetch
  <2> QED
    BY <1>0, <2>0, <2>3, <2>7, <2>f, <2>h
<1> QED
  BY <1>2, <1>3

\* Writing from the lists keeps the streams whole.
LEMMA WholeFlushes ==
  ASSUME SocketInv, WholeInv, NEW s \in Slot, NEW u \in Seq(Unit), NEW h \in Seq(Unit), NEW l \in Seq(Unit),
         Flushes(s, u, h, l), poll'.pc # "close", NEW t \in Slot, Calm(t)
  PROVE  Whole(t)'
<1>0. SocketType /\ MsgKept /\ wk' = wk /\ Whole(t) /\ SlotInv(t)
  BY DEF SocketInv, Flushes, MsgKept, WholeInv
<1>1. \A w \in Worker : /\ Stores(w, t) <=> Stores(w, t)'
                        /\ Stores(w, t) => wk'[w].rest = wk[w].rest
  BY <1>0, StoresSame
<1>p. On("send", s) /\ Sent(s, u, h, l) /\ poll.pc # "close"
  BY DEF Flushes, On
<1>2. CASE t # s
  <2>1. sock'[t] = sock[t] /\ \A id \in Id : id # sock[s].fd => wire'[id] = wire[id]
    BY <1>2, <1>p DEF Sent
  <2>2. ~On("close", t)
    BY <1>p DEF On
  <2> QED
    BY <1>0, <1>1, <1>2, <2>1, <2>2, WholeOther
<1>3. CASE t = s
  <2>0. sock[s].lock = "poll" /\ sock[s].dw = <<>> /\ sock[s].type \notin Dead
    BY <1>0, <1>3, <1>p DEF SlotInv, Locked, Polled
  <2>a. sock'[s].high = h /\ sock'[s].low = l /\ sock'[s].fd = sock[s].fd /\ sock'[s].dw = <<>>
    BY <1>p, <2>0 DEF Sent
  <2> SUFFICES ASSUME Live(s)', NEW x \in Seq(Unit), Leads(s, x)'
               PROVE  Stream(wire'[sock'[s].fd], x, sock'[s].high, sock'[s].low)
    BY <1>3 DEF Whole, Stream
  <2>1. Live(s)
    BY <1>p, <2>0 DEF Live, On
  <2>2. \A w \in Worker : ~Stores(w, s)
    BY <1>0, <1>3, <2>0, NobodyStores DEF SlotInv
  <2>3. x = <<>>
    BY <1>1, <1>3, <2>a, <2>2 DEF Leads
  <2>4. Leads(s, <<>>)
    BY <2>0, <2>2 DEF Leads
  <2>5. sock[s].fd \in Id
    BY <1>0, <1>3, <2>1 DEF SlotInv, Bound, Live
  <2>f. PICK f \in Seq(Unit) : f = wire[sock[s].fd]
    BY <1>0, <2>5, BookTypes
  <2>h. PICK q \in Seq(Unit), z \in Seq(Unit) : q = sock[s].high /\ z = sock[s].low
    BY <1>0, BookTypes
  <2>6. Stream(f, <<>>, q, z)
    BY <1>0, <1>3, <2>1, <2>4, <2>f, <2>h, Concat DEF Whole
  <2>7. wire'[sock'[s].fd] = f \o u
    BY <1>p, <2>5, <2>a, <2>f DEF Sent
  <2>8. CASE sock[s].high = u \o h /\ l = sock[s].low
    <3>1. Stream(f, <<>>, u \o h, l)
      BY <2>6, <2>8, <2>h
    <3>2. Stream(f \o u, <<>>, h, l)
      BY <3>1, StreamFlushHigh
    <3> QED
      BY <2>3, <2>7, <2>a, <3>2
  <2>9. CASE \E p \in Seq(Unit) :
               /\ u = sock[s].high \o p /\ sock[s].low = (p \o h) \o l
               /\ h = <<>> => l = <<>> \/ l[1][2] # 2
               /\ h # <<>> => Len(h) = 1 /\ h[1][2] = 2
    <3>1. PICK p \in Seq(Unit) :
               /\ u = sock[s].high \o p /\ sock[s].low = (p \o h) \o l
               /\ h = <<>> => l = <<>> \/ l[1][2] # 2
               /\ h # <<>> => Len(h) = 1 /\ h[1][2] = 2
      BY <2>9
    <3>2. Stream(f, <<>>, q, (p \o h) \o l) /\ u = q \o p
      BY <2>6, <2>h, <3>1
    <3>3. Stream(f \o (q \o p), <<>>, h, l)
      BY <3>1, <3>2, StreamFlushLow
    <3> QED
      BY <2>3, <2>7, <2>a, <3>2, <3>3
  <2> QED
    BY <1>p, <2>8, <2>9 DEF Sent
<1> QED
  BY <1>2, <1>3

\* A worker that has or had the lock of slot s stores to no other slot.
LEMMA StoresElsewhere ==
  ASSUME SocketType, MsgKept, NEW w \in Worker, NEW n \in Nat, NEW s \in Slot, NEW t \in Slot, t # s, Works(w, n, s),
         \A v \in Worker \ {w} : wk'[v] = wk[v],
         wk'[w].pc = "idle" \/ wk'[w].n = n
  PROVE  \A v \in Worker : /\ Stores(v, t) <=> Stores(v, t)'
                           /\ Stores(v, t) => wk'[v].rest = wk[v].rest
<1>1. ~Stores(w, t) /\ ~Stores(w, t)'
  BY DEF Stores, Holds, Works, MsgKept
<1>2. ASSUME NEW v \in Worker, v # w
      PROVE  /\ Stores(v, t) <=> Stores(v, t)'
             /\ Stores(v, t) => wk'[v].rest = wk[v].rest
  BY <1>2, StoresSame
<1> QED
  BY <1>1, <1>2

\* A direct write keeps the streams whole, since the lists are empty under the
\* lock.
LEMMA WholeHits ==
  ASSUME SocketInv, BookInv, WholeInv, NEW w \in Worker, NEW n \in Nat, NEW s \in Slot, NEW u \in Seq(Unit), NEW r \in Seq(Unit),
         Hits(w, n, s, u, r), NEW t \in Slot, Calm(t)
  PROVE  Whole(t)'
<1>0. SocketType /\ MsgKept /\ poll' = poll /\ Whole(t) /\ SlotInv(t) /\ Works(w, n, s)
  BY DEF SocketInv, Hits, MsgKept, WholeInv
<1>w. /\ \A v \in Worker \ {w} : wk'[v] = wk[v]
      /\ wk'[w].pc = "idle" \/ wk'[w].n = n
  BY <1>0 DEF Hits, Writes, SocketType, WorkersTyped, Idle
<1>s. /\ \A v \in Slot \ {s} : sock'[v] = sock[v]
      /\ sock'[s].dw = sock[s].dw /\ sock'[s].fd = sock[s].fd /\ sock'[s].type = sock[s].type
      /\ sock'[s].high = sock[s].high /\ sock'[s].low = sock[s].low
  BY SMTT(40), <1>0 DEF Hits, Writes, SocketType, SocketsTyped, SockType
<1>i. \A id \in Id : wire'[id] = IF id = sock[s].fd THEN wire[id] \o u ELSE wire[id]
  BY DEF Hits, Writes
<1>2. CASE t # s
  <2>1. On("close", t) => On("close", t)'
    BY <1>0 DEF On
  <2>2. \A v \in Worker : /\ Stores(v, t) <=> Stores(v, t)'
                          /\ Stores(v, t) => wk'[v].rest = wk[v].rest
    BY <1>0, <1>2, <1>w, StoresElsewhere
  <2> QED
    BY <1>0, <1>2, <1>s, <1>i, <2>1, <2>2, WholeOther
<1>3. CASE t = s
  <2>0. sock[s].dw = <<>> /\ sock[s].high = <<>> /\ sock[s].low = <<>> /\ Units(n) = u \o r
    BY <1>0 DEF Hits, Writes, Works, CanDirectWrite, SendBufferEmpty
  <2> SUFFICES ASSUME Live(s)', NEW x \in Seq(Unit), Leads(s, x)'
               PROVE  Stream(wire'[sock'[s].fd], x, sock'[s].high, sock'[s].low)
    BY <1>3 DEF Whole, Stream
  <2>1. Live(s)
    BY <1>0, <1>s DEF Live, On
  <2>l. sock[s].lock = w
    BY <1>0, <1>3 DEF SlotInv, Locked, Holds, Hits, Works
  <2>2. \A v \in Worker : ~Stores(v, s)
    BY <1>0, <1>3, <2>l DEF SlotInv, Locked, Stores, Holds, Hits
  <2>3. \A v \in Worker \ {w} : ~Stores(v, s)'
    BY <1>0, <1>w, <2>2, StoresSame
  <2>4. x = r
    <3>1. CASE r = <<>> /\ wk' = [wk EXCEPT ![w] = Idle]
      <4>1. ~Stores(w, s)'
        BY <1>0, <3>1 DEF Stores, Idle, SocketType, WorkersTyped
      <4> QED
        BY <1>s, <2>0, <2>3, <3>1, <4>1 DEF Leads
    <3>2. CASE wk' = [wk EXCEPT ![w] = [pc |-> "store", n |-> n, rest |-> r]]
      <4>1. wk'[w].pc = "store" /\ wk'[w].n = n /\ wk'[w].rest = r
        BY <1>0, <3>2 DEF SocketType, WorkersTyped
      <4>2. Stores(w, s)'
        BY <1>0, <4>1 DEF Stores, Holds, Works, MsgKept
      <4> QED
        BY <2>3, <4>1, <4>2 DEF Leads
    <3> QED
      BY <3>1, <3>2 DEF Hits, Writes
  <2>5. Leads(s, <<>>)
    BY <2>0, <2>2 DEF Leads
  <2>6. sock[s].fd \in Id /\ sock[s].fd # 0
    BY <1>0, <1>3, <2>1 DEF SlotInv, Bound, Live, Id
  <2>f. PICK f \in Seq(Unit) : f = wire[sock[s].fd]
    BY <1>0, <2>6, BookTypes
  <2>7. n \notin Of(f)
    <3>1. ~Used(n)
      BY <1>0 DEF BookInv, Sending, Unsent, Hits, Works
    <3> QED
      BY <1>0, <2>6, <2>f, <3>1, OfUsed
  <2>8. Stream(f, <<>>, <<>>, <<>>)
    BY <1>0, <1>3, <2>0, <2>1, <2>5, <2>f, Concat DEF Whole
  <2>9. Stream(f \o u, r, <<>>, <<>>)
    BY <2>0, <2>7, <2>8, StreamWrite
  <2>10. wire'[sock'[s].fd] = f \o u
    BY <1>s, <1>i, <2>6, <2>f
  <2> QED
    BY <1>s, <2>0, <2>4, <2>9, <2>10
<1> QED
  BY <1>2, <1>3

\* Storing a rest, under the lock, keeps the streams whole.
LEMMA WholeStows ==
  ASSUME SocketInv, WholeInv, NEW w \in Worker, NEW n \in Nat, NEW s \in Slot, Stows(w, n, s), NEW t \in Slot, Calm(t)
  PROVE  Whole(t)'
<1>0. SocketType /\ MsgKept /\ poll' = poll /\ wire' = wire /\ Whole(t) /\ SlotInv(t) /\ Works(w, n, s) /\ Puts(w, n, s)
  BY DEF SocketInv, Stows, Puts, MsgKept, WholeInv
<1>w. /\ \A v \in Worker \ {w} : wk'[v] = wk[v]
      /\ wk'[w].pc = "idle"
  BY <1>0 DEF Puts, SocketType, WorkersTyped, Idle
<1>2. CASE t # s
  <2>1. (On("close", t) => On("close", t)') /\ sock'[t] = sock[t]
    BY <1>0, <1>2 DEF On, Puts
  <2>2. \A v \in Worker : /\ Stores(v, t) <=> Stores(v, t)'
                          /\ Stores(v, t) => wk'[v].rest = wk[v].rest
    BY <1>0, <1>2, <1>w, StoresElsewhere
  <2> QED
    BY <1>0, <1>2, <2>1, <2>2, WholeOther
<1>3. CASE t = s
  <2>1. Stores(w, s)
    BY <1>0 DEF Stores, Holds, Works, Stows
  <2>2. \A v \in Worker : Stores(v, s) => v = w
    BY <1>0, <1>3, <2>1 DEF SlotInv, Locked, Stores
  <2>3. \A v \in Worker : ~Stores(v, s)'
    BY <1>0, <1>w, <2>2, StoresSame DEF Stores
  <2>4. \A x \in Seq(Unit) : Leads(s, x)' => Leads(s, x)
    BY <1>0, <2>1, <2>3 DEF Leads, Puts
  <2>5. Live(s)' => Live(s)
    BY <1>0 DEF Live, On, Puts
  <2> QED
    BY <1>0, <1>3, <2>4, <2>5, WholeFrame DEF Puts
<1> QED
  BY <1>2, <1>3

\* Every step keeps the streams whole.
LEMMA WholeNext == SocketInv /\ SocketInv' /\ BookInv /\ IdInv /\ FirstInv /\ WholeInv /\ [Next]_sockvars => WholeInv'
<1> SUFFICES ASSUME SocketInv, SocketInv', BookInv, IdInv, FirstInv, WholeInv, [Next]_sockvars,
                    NEW t \in Slot, Calm(t)'
             PROVE  Whole(t)'
  BY DEF WholeInv
<1>1. Calm(t) /\ Whole(t)
  BY CalmBefore DEF WholeInv
<1>2. CASE Loses /\ AllQuiet
  BY <1>1, <1>2, WholeLoses DEF AllQuiet
<1>3. CASE \E w \in Sender, n \in Nat, r \in RequestType : Sends(w, n, r)
  BY <1>1, <1>3, WholeSends
<1>4. CASE \E w \in Worker, n \in Nat, s \in Slot, u, r \in Seq(Unit) : Hits(w, n, s, u, r)
  BY <1>1, <1>4, WholeHits
<1>5. CASE \E w \in Worker, n \in Nat, s \in Slot : Stows(w, n, s)
  BY <1>1, <1>5, WholeStows
<1>6. CASE \E c \in {"D", "P"}, n \in Nat, s \in Slot : Takes(c, n, s) /\ Lists(c, n, s)
  BY <1>1, <1>6, WholeLists
<1>7. CASE \E s \in Slot : Fetches(s)
  BY <1>1, <1>7, WholeFetches
<1>8. CASE \E s \in Slot, u, h, l \in Seq(Unit) : Flushes(s, u, h, l) /\ poll'.pc # "close"
  BY <1>1, <1>8, WholeFlushes
<1> QED
  BY <1>2, <1>3, <1>4, <1>5, <1>6, <1>7, <1>8, Traffic

\* There are no streams at the start.
LEMMA WholeInit == Init => WholeInv
<1> SUFFICES ASSUME Init, NEW s \in Slot, Live(s), NEW x \in Seq(Unit), Leads(s, x)
             PROVE  Stream(wire[sock[s].fd], x, sock[s].high, sock[s].low)
  BY DEF WholeInv, Whole
<1>1. /\ \A w \in Worker : wk[w].pc = "idle"
      /\ \A id \in Id : wire[id] = <<>>
      /\ sock[s].dw = <<>> /\ sock[s].high = <<>> /\ sock[s].low = <<>>
  BY Zenon DEF Init, Idle, Free, Id
<1>2. sock[s].fd \in Id
  <2>1. s = HashId(1)
    BY Zenon DEF Init, Live, Free, Dead
  <2>2. sock[s] = [Free EXCEPT !.type = "LISTEN", !.id = 1, !.fd = 1, !.add = TRUE]
    BY Zenon, <2>1 DEF Init
  <2>3. sock[s].fd = 1
    BY <2>2 DEF Free
  <2> QED
    BY <2>3, SocketAssumption DEF Id
<1>3. x = <<>>
  BY <1>1 DEF Leads, Stores
<1> QED
  BY <1>1, <1>2, <1>3, StreamEmpty

\* What a worker is about to store and dw_buffer, in this sequence, are what leads.
LEMMA PendingLeads ==
  ASSUME SocketInv, BookInv, NEW s \in Slot, Calm(s)
  PROVE  \E x \in Seq(Unit) : Leads(s, x) /\ Pending(s) = (x \o sock[s].high) \o sock[s].low
<1>0. SocketType /\ Locked(s)
  BY DEF SocketInv, SlotInv
<1>1. sock[s].dw \in Seq(Unit)
  BY <1>0, BookTypes
<1>2. ASSUME NEW w \in Worker, Stores(w, s)
      PROVE  /\ w \in Sender /\ HashId(msg[wk[w].n].to) = s /\ Rest(w) = wk[w].rest
             /\ sock[s].dw = <<>> /\ wk[w].rest \in Seq(Unit)
  <2>1. wk[w].pc = "store" /\ Holds(w, s) /\ Busy(w)
    BY <1>2 DEF Stores, Busy
  <2>2. wk[w].n \in DOMAIN msg /\ wk[w].rest \in Seq(Unit)
    BY <1>0, <2>1, BookTypes
  <2>3. w \in Sender
    BY <2>1, <2>2 DEF BookInv, Sending
  <2> QED
    BY <1>0, <2>1, <2>2, <2>3 DEF Locked, Holds, Rest
<1> DEFINE storing == {w \in Sender : Rest(w) # <<>> /\ HashId(msg[wk[w].n].to) = s}
<1>3. ASSUME NEW w \in storing PROVE w \in Worker /\ Stores(w, s)
  BY DEF Stores, Holds, Rest, Worker
<1>4. CASE storing = {}
  <2>1. Pending(s) = ((<<>> \o sock[s].dw) \o sock[s].high) \o sock[s].low
    BY <1>4, Zenon DEF Pending
  <2>2. <<>> \o sock[s].dw = sock[s].dw
    BY <1>1, Concat
  <2>3. ASSUME NEW w \in Worker, Stores(w, s) PROVE wk[w].rest = sock[s].dw
    BY <1>2, <1>4, <2>3
  <2>4. Leads(s, sock[s].dw)
    BY <2>3 DEF Leads
  <2> QED
    BY <1>1, <2>1, <2>2, <2>4
<1>5. CASE storing # {}
  <2>w. PICK w \in storing : w = CHOOSE v \in storing : TRUE
    BY <1>5
  <2>1. Pending(s) = ((Rest(w) \o sock[s].dw) \o sock[s].high) \o sock[s].low
    BY <1>5, <2>w, Zenon DEF Pending
  <2>2. Rest(w) = wk[w].rest /\ sock[s].dw = <<>> /\ wk[w].rest \in Seq(Unit) /\ Leads(s, wk[w].rest)
    BY <1>2, <1>3 DEF Leads
  <2>3. Rest(w) \o sock[s].dw = wk[w].rest
    BY <2>2, Concat
  <2> QED
    BY <2>1, <2>2, <2>3
<1> QED
  BY <1>4, <1>5

\* A whole stream in the order of WholeMessages.
LEMMA StreamWhole ==
  ASSUME NEW f \in Seq(Unit), NEW x \in Seq(Unit), NEW h \in Seq(Unit), NEW l \in Seq(Unit), Stream(f, x, h, l)
  PROVE  Paired(f \o ((x \o h) \o l)) /\ IsInjective(f \o ((x \o h) \o l))
<1>a. PICK a \in Seq(Unit) : a = (f \o x) \o h
  BY Concat
<1>1. Paired(a \o l) /\ IsInjective(a \o l)
  BY <1>a, PairedConcat DEF Stream
<1>b. PICK b \in Seq(Unit) : b = x \o h
  BY Concat
<1>2. a = f \o b
  BY SMTT(40), <1>a, <1>b, AssociativeAt
<1>3. a \o l = f \o (b \o l)
  BY SMTT(40), <1>2, AssociativeAt
<1> QED
  BY <1>1, <1>3, <1>b

\* Whole streams are what WholeMessages asks for.
LEMMA WholeSuffices == SocketInv /\ BookInv /\ WholeInv => WholeMessages
<1> SUFFICES ASSUME SocketInv, BookInv, WholeInv, NEW s \in Carrying
             PROVE  Paired(wire[sock[s].fd] \o Pending(s)) /\ IsInjective(wire[sock[s].fd] \o Pending(s))
  BY DEF WholeMessages, Paired
<1>1. s \in Slot /\ Calm(s) /\ Live(s)
  BY DEF Carrying, Live, Dead, On
<1>2. SocketType /\ sock[s].fd \in Id
  BY <1>1 DEF SocketInv, SlotInv, Bound, Live
<1>f. PICK f \in Seq(Unit) : f = wire[sock[s].fd]
  BY <1>2, BookTypes
<1>h. PICK h \in Seq(Unit), l \in Seq(Unit) : h = sock[s].high /\ l = sock[s].low
  BY <1>1, <1>2, BookTypes
<1>x. PICK x \in Seq(Unit) : Leads(s, x) /\ Pending(s) = (x \o sock[s].high) \o sock[s].low
  BY <1>1, PendingLeads
<1>3. Stream(f, x, h, l)
  BY <1>1, <1>f, <1>h, <1>x DEF WholeInv, Whole
<1> QED
  BY <1>3, <1>f, <1>h, <1>x, StreamWhole

\* Ids are given out in increasing order and a service is told an id only when it
\* is stored in its slot; nobody writes to an id whose socket is still to be opened.
THEOREM FirstComesTheSocket == Spec => [](IdInv /\ FirstInv)
<1>1. Init => IdInv /\ FirstInv
  BY IdInit, FirstInit
<1>2. SocketInv /\ BookInv /\ (IdInv /\ FirstInv) /\ [Next]_sockvars => (IdInv /\ FirstInv)'
  BY IdNext, FirstNext DEF SocketInv
<1> QED
  BY <1>1, <1>2, SocketInvariance, BooksAreKept, PTL DEF Spec

\* The bytes of two messages are never mixed: in what was written to a connection
\* and, on from there, in what a worker is about to store, in dw_buffer and in the
\* lists, the second half of a message stands right behind its first half, and
\* nothing stands there twice, however the direct writes of socket_server_send
\* meet send_buffer and send_socket of the poll thread.
THEOREM MessagesStayWhole == Spec => []WholeMessages
<1>1. Init => WholeInv
  BY WholeInit
<1>2. SocketInv /\ SocketInv' /\ BookInv /\ (IdInv /\ FirstInv) /\ WholeInv /\ [Next]_sockvars => WholeInv'
  BY WholeNext
<1>3. SocketInv /\ BookInv /\ WholeInv => WholeMessages
  BY WholeSuffices
<1> QED
  BY <1>1, <1>2, <1>3, SocketInvariance, BooksAreKept, FirstComesTheSocket, PTL DEF Spec

-----------------------------------------------------------------------------
(* What is listed is written before a socket closes                        *)

\* the units that were written to the socket in slot s or are in its lists
Carried(s) == Range(wire[sock[s].fd]) \cup Range(sock[s].high) \cup Range(sock[s].low)

\* the socket in slot s is being closed because a service asked for it
Ending(s) == On("close", s) /\ poll.why = "K" /\ sock[s].type \notin Dead

\* What was listed for the socket in slot s is there, and is written when the
\* socket closes.
Flushed(s) ==
    \A n \in listed : msg[n].to = sock[s].id =>
        /\ Live(s) => Range(Units(n)) \subseteq Carried(s)
        /\ Ending(s) => Range(Units(n)) \subseteq Range(wire[sock[s].fd])

FlushInv == \A s \in Slot : Calm(s) => Flushed(s)

\* A slot that loses neither wire nor lists keeps what was listed.
LEMMA FlushFrame ==
  ASSUME FirstInv, MsgKept, listed' = listed, NEW t \in Slot, Flushed(t), sock'[t].id = sock[t].id,
         Live(t)' => Live(t) /\ Carried(t) \subseteq Carried(t)',
         Ending(t)' => Ending(t) /\ Range(wire[sock[t].fd]) \subseteq Range(wire'[sock'[t].fd])
  PROVE  Flushed(t)'
<1> SUFFICES ASSUME NEW n \in listed, msg'[n].to = sock'[t].id
             PROVE  /\ Live(t)' => Range(Units(n)) \subseteq Carried(t)'
                    /\ Ending(t)' => Range(Units(n)) \subseteq Range(wire'[sock'[t].fd])
  BY Zenon DEF Flushed, Units
<1>1. msg[n].to = sock[t].id
  BY DEF FirstInv, MsgKept
<1>2. /\ Live(t) => Range(Units(n)) \subseteq Carried(t)
      /\ Ending(t) => Range(Units(n)) \subseteq Range(wire[sock[t].fd])
  BY <1>1 DEF Flushed
<1> QED
  BY <1>2

\* Another slot than the one that is written or listed to.
LEMMA FlushOther ==
  ASSUME SocketInv, FirstInv, MsgKept, listed' = listed, NEW s \in Slot, NEW t \in Slot, t # s, Calm(t), Flushed(t),
         sock'[t] = sock[t], On("close", t)' => poll' = poll, On("close", t) => On("close", t)',
         \A id \in Id : id # sock[s].fd => wire'[id] = wire[id]
  PROVE  Flushed(t)'
<1>0. SocketType /\ Bound(t)
  BY DEF SocketInv, SlotInv
<1>1. ASSUME sock[t].type \notin Dead PROVE wire'[sock'[t].fd] = wire[sock[t].fd]
  <2>1. sock[t].fd # 0
    BY <1>0, <1>1 DEF Bound, Id
  <2> QED
    BY <1>0, <2>1, OtherWire
<1>2. Live(t)' => Live(t) /\ sock[t].type \notin Dead
  BY DEF Live
<1>3. Ending(t)' => Ending(t) /\ sock[t].type \notin Dead
  BY DEF Ending, On
<1>4. Live(t)' => Carried(t) \subseteq Carried(t)'
  BY <1>1, <1>2 DEF Carried
<1> QED
  BY <1>1, <1>2, <1>3, <1>4, FlushFrame

\* A quiet step keeps what was listed.
LEMMA FlushLoses ==
  ASSUME FirstInv, Loses, NEW t \in Slot, Flushed(t), Quiet(t)
  PROVE  Flushed(t)'
<1>0. MsgKept /\ wire' = wire /\ listed' = listed /\ msg' = msg
  BY DEF Loses, MsgKept
<1>1. CASE sock'[t].type \in Dead
  BY <1>1 DEF Flushed, Live, Ending
<1>2. CASE Same(t) /\ sock'[t].type \notin Dead
  <2>1. Live(t)' => Live(t)
    BY <1>2 DEF Same, Live, On
  <2>2. Ending(t)' => Ending(t)
    BY <1>2 DEF Same, Ending, On
  <2>3. Carried(t)' = Carried(t) /\ sock'[t].fd = sock[t].fd /\ sock'[t].id = sock[t].id
    BY <1>0, <1>2 DEF Same, Carried
  <2> QED
    BY <1>0, <2>1, <2>2, <2>3, FlushFrame
<1>3. CASE Opens(t)
  <2>1. \A n \in listed' : msg'[n].to # sock'[t].id
    BY <1>0, <1>3 DEF Opens, Virgin
  <2> QED
    BY <2>1 DEF Flushed
<1>4. CASE Closes(t) /\ sock'[t].type \notin Dead
  <2>0. /\ Live(t) /\ ~Live(t)' /\ sock'[t].id = sock[t].id /\ sock'[t].fd = sock[t].fd
        /\ Ending(t)' => sock[t].high = <<>> /\ sock[t].low = <<>>
    BY <1>4 DEF Closes, Live, Ending, SendBufferEmpty
  <2>1. ASSUME NEW n \in listed, msg[n].to = sock[t].id, Ending(t)'
        PROVE  Range(Units(n)) \subseteq Range(wire[sock[t].fd])
    <3>1. Range(Units(n)) \subseteq Carried(t)
      BY <2>0, <2>1 DEF Flushed
    <3>2. Range(<<>>) = {}
      BY DEF Range
    <3> QED
      BY <2>0, <2>1, <3>1, <3>2 DEF Carried
  <2> QED
    BY Zenon, <1>0, <2>0, <2>1 DEF Flushed, Units
<1> QED
  BY <1>1, <1>2, <1>3, <1>4 DEF Quiet

\* Sending keeps what was listed.
LEMMA FlushSends ==
  ASSUME FirstInv, NEW t \in Slot, Flushed(t), NEW w \in Sender, NEW n \in Nat, NEW r \in RequestType, Sends(w, n, r)
  PROVE  Flushed(t)'
<1>1. sock' = sock /\ wire' = wire /\ poll' = poll /\ listed' = listed /\ MsgKept
  BY DEF Sends, MsgKept
<1>2. (Live(t)' => Live(t)) /\ (Ending(t)' => Ending(t)) /\ Carried(t)' = Carried(t)
  BY <1>1 DEF Live, Ending, On, Carried
<1> QED
  BY <1>1, <1>2, FlushFrame

\* A direct write keeps what was listed.
LEMMA FlushHits ==
  ASSUME SocketInv, FirstInv, FlushInv, NEW w \in Worker, NEW n \in Nat, NEW s \in Slot, NEW u \in Seq(Unit), NEW r \in Seq(Unit),
         Hits(w, n, s, u, r), NEW t \in Slot, Calm(t)
  PROVE  Flushed(t)'
<1>0. SocketType /\ MsgKept /\ poll' = poll /\ Flushed(t) /\ SlotInv(t) /\ listed' = listed
  BY DEF SocketInv, Hits, MsgKept, FlushInv
<1>s. /\ \A v \in Slot \ {s} : sock'[v] = sock[v]
      /\ sock'[s].id = sock[s].id /\ sock'[s].fd = sock[s].fd /\ sock'[s].type = sock[s].type
      /\ sock'[s].high = sock[s].high /\ sock'[s].low = sock[s].low
  BY SMTT(40), <1>0 DEF Hits, Writes, SocketType, SocketsTyped, SockType
<1>i. \A id \in Id : wire'[id] = IF id = sock[s].fd THEN wire[id] \o u ELSE wire[id]
  BY DEF Hits, Writes
<1>2. CASE t # s
  <2>1. (On("close", t) => On("close", t)') /\ (On("close", t)' => poll' = poll)
    BY <1>0 DEF On
  <2> QED
    BY <1>0, <1>2, <1>s, <1>i, <2>1, FlushOther
<1>3. CASE t = s
  <2>1. (Live(t)' => Live(t)) /\ (Ending(t)' => Ending(t)) /\ (Live(t) \/ Ending(t) => sock[t].type \notin Dead)
    BY <1>0, <1>s, <1>3 DEF Live, Ending, On
  <2>2. ASSUME sock[t].type \notin Dead PROVE Range(wire[sock[t].fd]) \subseteq Range(wire'[sock'[t].fd])
    <3>1. sock[t].fd \in Id
      BY <1>0, <2>2 DEF SlotInv, Bound
    <3>2. PICK f \in Seq(Unit) : f = wire[sock[t].fd]
      BY <1>0, <3>1, BookTypes
    <3>3. wire'[sock'[t].fd] = f \o u
      BY <1>s, <1>i, <1>3, <3>1, <3>2
    <3> QED
      BY <3>2, <3>3, RangeConcat
  <2>3. sock[t].type \notin Dead => Carried(t) \subseteq Carried(t)'
    BY <1>s, <1>3, <2>2 DEF Carried
  <2> QED
    BY <1>0, <1>s, <1>3, <2>1, <2>2, <2>3, FlushFrame
<1> QED
  BY <1>2, <1>3

\* Storing a rest keeps what was listed.
LEMMA FlushStows ==
  ASSUME SocketInv, FirstInv, FlushInv, NEW w \in Worker, NEW n \in Nat, NEW s \in Slot, Stows(w, n, s), NEW t \in Slot, Calm(t)
  PROVE  Flushed(t)'
<1>0. MsgKept /\ poll' = poll /\ wire' = wire /\ listed' = listed /\ Flushed(t)
  BY DEF Stows, Puts, MsgKept, FlushInv
<1>1. /\ sock'[t].id = sock[t].id /\ sock'[t].fd = sock[t].fd /\ sock'[t].type = sock[t].type
      /\ sock'[t].high = sock[t].high /\ sock'[t].low = sock[t].low
  BY DEF Stows, Puts
<1>2. (Live(t)' => Live(t)) /\ (Ending(t)' => Ending(t)) /\ Carried(t)' = Carried(t)
  BY <1>0, <1>1 DEF Live, Ending, On, Carried
<1> QED
  BY <1>0, <1>1, <1>2, FlushFrame

\* A message that is listed is carried.
LEMMA FlushLists ==
  ASSUME SocketInv, FirstInv, FlushInv, NEW c \in {"D", "P"}, NEW n \in Nat, NEW s \in Slot, Takes(c, n, s), Lists(c, n, s),
         NEW t \in Slot, Calm(t)
  PROVE  Flushed(t)'
<1>0. /\ SocketType /\ wire' = wire /\ poll' = poll /\ msg' = msg /\ Flushed(t) /\ SlotInv(t) /\ ~On("close", t)
      /\ listed' = listed \cup {n} /\ sock[s].id = msg[n].to /\ s = HashId(msg[n].to)
  BY Zenon DEF SocketInv, Takes, Lists, FlushInv, On, Valid
<1>1. sock'[t].id = sock[t].id /\ sock'[t].fd = sock[t].fd /\ sock'[t].type = sock[t].type
  BY DEF Lists
<1>v. PICK v \in Seq(Unit) : v = Units(n)
  BY OfUnits
<1>h. PICK h \in Seq(Unit), l \in Seq(Unit) : h = sock[t].high /\ l = sock[t].low
  BY <1>0, BookTypes
<1>2. Range(h \o v) = Range(h) \cup Range(v) /\ Range(l \o v) = Range(l) \cup Range(v)
  BY RangeConcat
<1>3. CASE t = s
  <2>1. Range(sock'[s].high) \cup Range(sock'[s].low) = (Range(h) \cup Range(l)) \cup Range(v)
    <3>1. CASE sock'[s].high = h \o v /\ sock'[s].low = l
      BY <1>2, <3>1, Zenon
    <3>2. CASE sock'[s].high = h /\ sock'[s].low = l \o v
      BY <1>2, <3>2, Zenon
    <3> QED
      BY <1>3, <1>h, <1>v, <3>1, <3>2 DEF Lists
  <2>2. Carried(t) \subseteq Carried(t)' /\ Range(Units(n)) \subseteq Carried(t)'
    BY <1>0, <1>1, <1>3, <1>h, <1>v, <2>1 DEF Carried
  <2>3. ASSUME NEW m \in listed', msg'[m].to = sock'[t].id, Live(t)' PROVE Range(Units(m)) \subseteq Carried(t)'
    <3>1. CASE m = n
      BY <2>2, <3>1
    <3>2. CASE m \in listed
      <4>1. Live(t)
        BY <1>0, <1>1, <2>3 DEF Live
      <4>2. Range(Units(m)) \subseteq Carried(t)
        BY <1>0, <1>1, <2>3, <3>2, <4>1 DEF Flushed
      <4> QED
        BY <2>2, <4>2
    <3> QED
      BY <1>0, <3>1, <3>2
  <2>4. ~Ending(t)'
    BY <1>0 DEF Ending, On
  <2> QED
    BY Zenon, <2>3, <2>4 DEF Flushed, Units
<1>4. CASE t # s
  <2>1. sock'[t] = sock[t] /\ Carried(t)' = Carried(t)
    BY Zenon, <1>0, <1>4 DEF Lists, Carried
  <2>2. ASSUME NEW m \in listed', msg'[m].to = sock'[t].id, Live(t)' PROVE Range(Units(m)) \subseteq Carried(t)'
    <3>1. Live(t)
      BY <1>0, <1>1, <2>2 DEF Live
    <3>2. m # n
      BY <1>0, <1>1, <1>4, <2>2, <3>1 DEF SlotInv, Bound, Live
    <3> QED
      BY <1>0, <1>1, <2>1, <2>2, <3>1, <3>2 DEF Flushed
  <2>3. ~Ending(t)'
    BY <1>0 DEF Ending, On
  <2> QED
    BY Zenon, <2>2, <2>3 DEF Flushed, Units
<1> QED
  BY Zenon, <1>3, <1>4

\* Moving dw_buffer in front of the high list keeps what was listed.
LEMMA FlushFetches ==
  ASSUME SocketInv, FirstInv, FlushInv, NEW s \in Slot, Fetches(s), NEW t \in Slot, Calm(t)
  PROVE  Flushed(t)'
<1>0. SocketType /\ MsgKept /\ wire' = wire /\ listed' = listed /\ Flushed(t)
  BY DEF SocketInv, Fetches, MsgKept, FlushInv
<1>p. poll.pc # "close" /\ poll'.pc # "close" /\ ~On("close", t) /\ ~On("close", t)'
  BY DEF Fetches, On
<1>2. CASE t # s
  <2>1. sock'[t] = sock[t]
    BY <1>0, <1>2, FetchedLists
  <2> QED
    BY <1>0, <1>2, <1>p, <2>1, FlushOther
<1>3. CASE t = s
  <2>0. /\ sock'[s].high = sock[s].dw \o sock[s].high /\ sock'[s].low = sock[s].low /\ sock'[s].id = sock[s].id
        /\ sock'[s].fd = sock[s].fd /\ sock'[s].type = sock[s].type
    BY <1>0, FetchedLists
  <2>h. PICK d \in Seq(Unit), h \in Seq(Unit) : d = sock[s].dw /\ h = sock[s].high
    BY <1>0, BookTypes
  <2>1. Range(sock'[s].high) = Range(d) \cup Range(h)
    BY <2>0, <2>h, RangeConcat
  <2>2. Carried(t) \subseteq Carried(t)'
    BY <1>0, <1>3, <2>0, <2>1, <2>h DEF Carried
  <2>3. (Live(t)' => Live(t)) /\ ~Ending(t)'
    BY <1>3, <1>p, <2>0 DEF Live, Ending
  <2> QED
    BY <1>0, <1>3, <2>0, <2>2, <2>3, FlushFrame
<1> QED
  BY <1>2, <1>3

\* send_buffer_ loses nothing.
LEMMA SentRange ==
  ASSUME SocketType, NEW s \in Slot, NEW u \in Seq(Unit), NEW h \in Seq(Unit), NEW l \in Seq(Unit), Sent(s, u, h, l),
         sock[s].fd \in Id
  PROVE  /\ Range(wire'[sock[s].fd]) = Range(wire[sock[s].fd]) \cup Range(u)
         /\ Carried(s) \subseteq (Range(wire'[sock[s].fd]) \cup Range(h)) \cup Range(l)
<1>f. PICK f \in Seq(Unit) : f = wire[sock[s].fd]
  BY BookTypes
<1>1. Range(wire'[sock[s].fd]) = Range(f) \cup Range(u)
  <2>1. wire'[sock[s].fd] = f \o u
    BY <1>f DEF Sent
  <2> QED
    BY SMTT(40), <2>1, RangeConcat
<1>2. Range(sock[s].high) \cup Range(sock[s].low) \subseteq (Range(u) \cup Range(h)) \cup Range(l)
  <2>1. CASE sock[s].high = u \o h /\ l = sock[s].low
    BY <2>1, RangeConcat
  <2>2. CASE \E p \in Seq(Unit) : u = sock[s].high \o p /\ sock[s].low = (p \o h) \o l
    <3>1. PICK p \in Seq(Unit) : u = sock[s].high \o p /\ sock[s].low = (p \o h) \o l
      BY <2>2
    <3>2. PICK q \in Seq(Unit), a \in Seq(Unit) : q = sock[s].high /\ a = p \o h
      BY BookTypes, Concat
    <3>3. Range(u) = Range(q) \cup Range(p) /\ Range(a) = Range(p) \cup Range(h)
      BY <3>1, <3>2, RangeConcat
    <3>4. Range(sock[s].low) = Range(a) \cup Range(l)
      BY <3>1, <3>2, RangeConcat
    <3> QED
      BY <3>2, <3>3, <3>4, Zenon
  <2> QED
    BY <2>1, <2>2 DEF Sent
<1> QED
  BY <1>1, <1>2, <1>f DEF Carried

\* Writing from the lists keeps what was listed.
LEMMA FlushFlushes ==
  ASSUME SocketInv, FirstInv, FlushInv, NEW s \in Slot, NEW u \in Seq(Unit), NEW h \in Seq(Unit), NEW l \in Seq(Unit),
         Flushes(s, u, h, l), poll'.pc # "close", NEW t \in Slot, Calm(t)
  PROVE  Flushed(t)'
<1>0. SocketType /\ MsgKept /\ listed' = listed /\ Flushed(t) /\ SlotInv(t)
  BY DEF SocketInv, Flushes, MsgKept, FlushInv
<1>p. On("send", s) /\ Sent(s, u, h, l) /\ poll.pc # "close" /\ ~On("close", t) /\ ~On("close", t)'
  BY DEF Flushes, On
<1>2. CASE t # s
  <2>1. sock'[t] = sock[t] /\ \A id \in Id : id # sock[s].fd => wire'[id] = wire[id]
    BY <1>2, <1>p DEF Sent
  <2> QED
    BY <1>0, <1>2, <1>p, <2>1, FlushOther
<1>3. CASE t = s
  <2>0. sock'[s].high = h /\ sock'[s].low = l /\ sock'[s].fd = sock[s].fd /\ sock'[s].id = sock[s].id /\ sock[s].type \notin Dead
    BY <1>0, <1>3, <1>p DEF Sent, SlotInv, Polled
  <2>1. sock[s].fd \in Id
    BY <1>0, <1>3, <2>0 DEF SlotInv, Bound
  <2>2. Carried(t) \subseteq Carried(t)'
    BY <1>0, <1>3, <1>p, <2>0, <2>1, SentRange DEF Carried
  <2>3. Live(t) /\ ~Ending(t)'
    BY <1>3, <1>p, <2>0 DEF Live, Ending
  <2> QED
    BY <1>0, <1>3, <2>0, <2>2, <2>3, FlushFrame
<1> QED
  BY <1>2, <1>3

\* Every step keeps what was listed.
LEMMA FlushNext == SocketInv /\ BookInv /\ IdInv /\ FirstInv /\ FlushInv /\ [Next]_sockvars => FlushInv'
<1> SUFFICES ASSUME SocketInv, BookInv, IdInv, FirstInv, FlushInv, [Next]_sockvars, NEW t \in Slot, Calm(t)'
             PROVE  Flushed(t)'
  BY DEF FlushInv
<1>1. Calm(t) /\ Flushed(t)
  BY CalmBefore DEF FlushInv
<1>2. CASE Loses /\ AllQuiet
  BY <1>1, <1>2, FlushLoses DEF AllQuiet
<1>3. CASE \E w \in Sender, n \in Nat, r \in RequestType : Sends(w, n, r)
  BY <1>1, <1>3, FlushSends
<1>4. CASE \E w \in Worker, n \in Nat, s \in Slot, u, r \in Seq(Unit) : Hits(w, n, s, u, r)
  BY <1>1, <1>4, FlushHits
<1>5. CASE \E w \in Worker, n \in Nat, s \in Slot : Stows(w, n, s)
  BY <1>1, <1>5, FlushStows
<1>6. CASE \E c \in {"D", "P"}, n \in Nat, s \in Slot : Takes(c, n, s) /\ Lists(c, n, s)
  BY <1>1, <1>6, FlushLists
<1>7. CASE \E s \in Slot : Fetches(s)
  BY <1>1, <1>7, FlushFetches
<1>8. CASE \E s \in Slot, u, h, l \in Seq(Unit) : Flushes(s, u, h, l) /\ poll'.pc # "close"
  BY <1>1, <1>8, FlushFlushes
<1> QED
  BY <1>2, <1>3, <1>4, <1>5, <1>6, <1>7, <1>8, Traffic

\* Nothing is listed at the start.
LEMMA FlushInit == Init => FlushInv
BY Zenon DEF Init, FlushInv, Flushed

\* A step that writes is a direct write or one of send_buffer_; what is written stays.
LEMMA WireGrows ==
  ASSUME SocketInv, BookInv, IdInv, FirstInv, [Next]_sockvars
  PROVE  /\ \A id \in Id : Range(wire[id]) \subseteq Range(wire'[id])
         /\ wire' # wire => \/ \A t \in Slot : sock'[t].type = sock[t].type
                            \/ \E s \in Slot, u, h, l \in Seq(Unit) : Flushes(s, u, h, l)
<1>0. SocketType
  BY DEF SocketInv
<1>1. ASSUME NEW s \in Slot, NEW u \in Seq(Unit), \A id \in Id : wire'[id] = IF id = sock[s].fd THEN wire[id] \o u ELSE wire[id],
             NEW id \in Id
      PROVE  Range(wire[id]) \subseteq Range(wire'[id])
  <2>1. PICK f \in Seq(Unit) : f = wire[id]
    BY <1>0, BookTypes
  <2>2. wire'[id] = f \o u \/ wire'[id] = f
    BY <1>1, <2>1
  <2> QED
    BY <2>1, <2>2, RangeConcat
<1>2. CASE wire' = wire
  BY <1>2
<1>3. ASSUME NEW w \in Worker, NEW n \in Nat, NEW s \in Slot, NEW u \in Seq(Unit), NEW r \in Seq(Unit), Hits(w, n, s, u, r)
      PROVE  /\ \A id \in Id : Range(wire[id]) \subseteq Range(wire'[id])
             /\ \A t \in Slot : sock'[t].type = sock[t].type
  <2>1. \A id \in Id : wire'[id] = IF id = sock[s].fd THEN wire[id] \o u ELSE wire[id]
    BY <1>3 DEF Hits, Writes
  <2>2. \A t \in Slot : sock'[t].type = sock[t].type
    <3>1. (\A t \in Slot \ {s} : sock'[t] = sock[t]) /\ sock'[s].type = sock[s].type
      BY <1>0, <1>3 DEF Hits, Writes, SocketType, SocketsTyped, SockType
    <3> QED
      BY <3>1
  <2> QED
    BY <1>1, <2>1, <2>2
<1>4. ASSUME NEW s \in Slot, NEW u \in Seq(Unit), NEW h \in Seq(Unit), NEW l \in Seq(Unit), Flushes(s, u, h, l)
      PROVE  \A id \in Id : Range(wire[id]) \subseteq Range(wire'[id])
  <2>1. \A id \in Id : wire'[id] = IF id = sock[s].fd THEN wire[id] \o u ELSE wire[id]
    BY SMTT(40), <1>4 DEF Flushes, Sent
  <2> QED
    BY <1>1, <2>1
<1>5. \/ wire' = wire
      \/ \E w \in Worker, n \in Nat, s \in Slot, u, r \in Seq(Unit) : Hits(w, n, s, u, r)
      \/ \E s \in Slot, u, h, l \in Seq(Unit) : Flushes(s, u, h, l)
  BY Zenon, Traffic DEF Loses, Sends, Stows, Puts, Takes, Fetches
<1> QED
  BY <1>2, <1>3, <1>4, <1>5

\* What a step does that closes a socket gracefully.
LEMMA CloseStep ==
  ASSUME SocketInv, BookInv, IdInv, FirstInv, FlushInv, [Next]_sockvars, NEW s \in Slot, Calm(s), ClosesGracefully(s),
         NEW n \in listed, msg[n].to = sock[s].id
  PROVE  Range(Units(n)) \subseteq Range(wire'[sock[s].fd])
<1>0. SocketType /\ SlotInv(s) /\ Flushed(s)
  BY DEF SocketInv, FlushInv
<1>1. On("close", s) \/ On("send", s)
  BY DEF ClosesGracefully, On
<1>2. sock[s].type \notin Dead /\ sock[s].fd \in Id
  BY <1>0, <1>1 DEF SlotInv, Polled, Bound
<1>3. CASE On("close", s) /\ poll.why = "K"
  <2>1. Range(Units(n)) \subseteq Range(wire[sock[s].fd])
    BY <1>0, <1>2, <1>3 DEF Flushed, Ending
  <2> QED
    BY <1>2, <2>1, WireGrows
<1>4. CASE On("send", s) /\ wire' # wire
  <2>1. sock'[s].type # sock[s].type
    BY DEF ClosesGracefully
  <2>2. PICK t \in Slot, u, h, l \in Seq(Unit) : Flushes(t, u, h, l)
    BY <1>4, <2>1, WireGrows
  <2>3. t = s /\ Sent(s, u, h, l)
    BY <1>4, <2>2 DEF Flushes, On
  <2>4. h = <<>> /\ l = <<>>
    BY <2>1, <2>3 DEF Sent
  <2>5. Range(Units(n)) \subseteq Carried(s)
    BY <1>0, <1>2, <1>4 DEF Flushed, Live, On
  <2>6. Range(<<>>) = {}
    BY DEF Range
  <2> QED
    BY <1>0, <1>2, <2>3, <2>4, <2>5, <2>6, SentRange
<1> QED
  BY <1>3, <1>4 DEF ClosesGracefully, On

\* A connection that a service closes, and that does not fail, has carried every
\* message that send_socket had put into its lists: close_socket waits for the
\* lists, as a half closed socket if need be, and send_buffer_ closes that one only
\* with the last byte.
THEOREM ClosesFlush == Spec => CloseFlushes
<1>1. Init => FlushInv
  BY FlushInit
<1>2. SocketInv /\ BookInv /\ (IdInv /\ FirstInv) /\ FlushInv /\ [Next]_sockvars => FlushInv'
  BY FlushNext
<1>3. SocketInv /\ BookInv /\ (IdInv /\ FirstInv) /\ FlushInv /\ [Next]_sockvars =>
         [\A s \in Slot : Calm(s) /\ ClosesGracefully(s) =>
             \A n \in listed : msg[n].to = sock[s].id => Range(Units(n)) \subseteq Range(wire'[sock[s].fd])]_sockvars
  BY CloseStep
<1> QED
  BY <1>1, <1>2, <1>3, SocketInvariance, BooksAreKept, FirstComesTheSocket, PTL DEF Spec, CloseFlushes
=============================================================================
