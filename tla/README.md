# A verification of M2_SERVER: the skynet runtime and its services

M2_SERVER is a server for mahjong games. It consists of a fork of the skynet actor
framework (C, `src/skynet-src`, `src/service-src`, with its Lua layer in `src/lualib` and
`src/service`) and of the game services written in Lua on top of it (`src/service_center`).
This directory holds TLA+ models of the runtime, of its Lua scheduler and of the room of a game,
TLC configurations that check them on small instances, and TLAPS proofs that hold for all sizes.

## 1. The system

| component | state | operations | what makes it correct |
|---|---|---|---|
| services and dispatch, `skynet_server.c` | contexts with reference count, `init`, callback; the number of live contexts | `skynet_context_new`, `grab`, `release`, `skynet_send`, `skynet_context_message_dispatch`, `EXIT`, `KILL`, `LAUNCH` | a service runs on one thread at a time, references are counted, nothing freed is used, messages are handled or their senders told |
| message queues, `skynet_mq.c` | one ring buffer per service with `in_global` and `release`; the global queue | `push`, `pop`, `mark_release`, `release`, global push and pop | a queue with work is in the global queue once or held by one worker; first in, first out |
| handle storage, `skynet_handle.c` | hash table of contexts, sorted names, `handle_index` | `register`, `retire`, `retireall`, `grab`, `findname`, `namehandle` | a handle finds its own service, names are unique and do not outlive the service |
| timer, `skynet_timer.c` | near array and four levels of lists, 32 bit clock | `skynet_timeout`, `skynet_updatetime` | every timeout fires, at its tick, also over the wrap of the clock |
| threads, `skynet_start.c` | `sleep`, `quit`, mutex and condition variable | worker, timer, socket and monitor threads | no work is left while all sleep; all threads end with the last service |
| monitor, `skynet_monitor.c` | version counters per worker | `trigger`, `check` | reports a message that runs for more than five seconds |
| locks, `rwlock.h`, `spinlock.h` | `write` and `read` counters | lock, unlock | exclusion, no deadlock |
| socket server, `socket_server.c` | slots, send lists, a command pipe | open, listen, send, close, poll | bytes of a socket in order, ids not mixed up, closing reported once |
| gate, harbor, launcher, `skynet.lua` | connection and session tables, coroutines | calls, responses, errors | every call gets one answer |
| agent manager, `agent_manager/init.lua` | connections, logins, rooms | login, kick, heartbeat, create and join room | one connection per user, one room per user |
| room, `room/init.lua`, `room/room.lua` | players, seats, rounds, votes | join, sit, start, leave, dissolve, recover | rounds and money are counted once, no game without its players |
| games, `room/*/game.lua`, `card_engine` | hands, the wall, pending operations | play, peng, gang, hu, pass | cards are conserved, one player is to act |

How they interact: worker threads take message queues from the global queue, look the service
up by its handle and call it back. A callback sends (push into another service's queue), sets
timeouts, launches and kills. The timer and socket threads only push messages. A push that finds
a queue outside the global queue puts it there. The threads share all of this under spin locks
(queues, wheel), a read-write lock (handles), atomic counters (references) and one mutex with a
condition variable (sleeping workers).

What is hard: everything between two locked regions. A queue is popped, pushed and marked for
release by different threads; a context may be retired while it is dispatched, looked up or
still being launched; the timer's lock is released in the middle of an update; `m->sleep` and
`m->quit` are read without the mutex; a handle is assigned after the lock it was found under;
workers write to a socket that the poll thread is closing. In Lua there is one thread per service,
and everything between two waits is atomic, but every call, sleep and query lets other requests
in, and what a handler found out before may be wrong afterwards.
The `hazards` of `PROJECT.json` list these places by line, with the properties that cover them.

## 2. The modules

| module | models |
|---|---|
| `SkynetServer` | `skynet_server.c` with the protocol of `skynet_mq.c` (`in_global`, `release`, dropping, the global queue) and grab and retire of `skynet_handle.c` |
| `SkynetServerProofs` | the inductive invariant and the theorems about it |
| `SkynetMQ` | the ring buffer and the overload warning of `skynet_mq.c` |
| `MessageFifo` | what the ring promises: a first in, first out queue |
| `SkynetMQProofs` | the ring implements the queue; the warnings are exact |
| `SkynetTimer` | the timing wheel of `skynet_timer.c` |
| `TimerQueue` | what the wheel promises: timeouts sorted by the ticks they have left |
| `SkynetTimerProofs` | every node is where a cascade finds it in time; a timeout is answered once, at its tick |
| `SkynetHandle` | the handle storage and the names of `skynet_handle.c` |
| `SkynetHandleProofs` | lookups, the assertion of the rehash, names and retireall, for one launcher |
| `SkynetStart` | the threads of `skynet_start.c` and the monitor of `skynet_monitor.c` |
| `RWLock` | the read-write lock of `rwlock.h` |
| `ThreadProofs` | the lock excludes; the sleeping workers are counted |
| `SocketServer` | the TCP sockets of `socket_server.c` |
| `SocketServerProofs` | the invariant of a slot that no race has hit, and all properties of the run |
| `SkynetLua` | the coroutine scheduler of `lualib/skynet.lua` |
| `SkynetLuaProofs` | all safety properties of the scheduler |
| `Room` | `room/init.lua` and `room/room.lua`, with what `agent_manager/init.lua` sends them and the row of the room in the database |
| `RoomProofs` | seats and fee |
| `MC...` | the constants for TLC |

`SkynetServer` takes the ring of `SkynetMQ` as a sequence, which `MessageFifo` justifies, and the
table of `SkynetHandle` as a set, which `Findable` justifies (proved for one launcher). `SkynetStart` reduces what workers
dispatch to a number of queues. All models of C code take a region under a lock as one step;
`RWLock` justifies this for the handle storage. `SkynetLua` takes the delivery of messages, which
`SkynetServer` is about, as the choice of which pending response, timer or error comes next, and
`Room` takes the scheduler of `SkynetLua` as handlers that give way only where they wait.

### SkynetServer

The state is that of the structures: `ref`, `slot` (registered contexts), `life`, `inited` of a
context; `mq`, `inGlobal`, `release`, `mqlife` of its queue; `Q`, the global queue. A thread has a
program counter and the local variables of the functions it is in: `held`, `nq`, `cur`, `left` of
`skynet_context_message_dispatch`, `dst` of a send or release, `dead` of `delete_context`, `born`
and `newq` of `skynet_context_new`. Every region under a lock and every atomic operation is one
step. `delete_context` is one step because its thread is the only one left that knows the context;
`mark_release` in it is the part others can see.

User code runs at three places: in a callback (`cb`), in the `init` function of a service being
launched (`init`) and in the threads that are not workers (`out`). There a thread may `Send`,
`Touch` (take and release a reference), `Kill` or `Launch`; `ops` bounds how often. A message keeps
its source and whether it is an error report, which is what dropping a queue depends on. A service,
its handle and its queue are one element of `Ctx`; handles are not used again in this module, since
an index comes back only after 2^24 registrations.

### SkynetMQ

`queue`, `head`, `tail`, `cap` as in the source, where `Push` wraps or expands, and `Pop` raises the
overload threshold by doubling. `out` is what the last pop returned. `skynet_mq_overload` is a step
of its own because it runs after the lock is released.

### SkynetTimer

The bit masks are written as quotients and remainders. `TIME_NEAR` and `TIME_LEVEL` are constants;
the clock counts modulo `TIME_NEAR * TIME_LEVEL^4`, which is 2^32 with the values of the source.
`timer_update` is split where it unlocks the wheel; services call `skynet_timeout` there, and at all
other times when the timer thread does not hold the lock. `TimerShift` takes the list of a cascade out of
its level, and `MoveNode` puts its nodes (`moving`) back one by one with `AddNode`, all under the lock;
services add nodes by the same `AddNode`. `firing` is the list that `dispatch_list` walks without the
lock. The refinement mapping reads the wheel as a function from remaining ticks to lists.

### SkynetHandle

The table is an array; `Register` tries handles from `handle_index`, expands a full table and
rehashes by `ctx->handle`. `AssignHandle` is separate, since the assignment happens after the unlock.
`retireall` is a walk of single reads and retirements. Names are numbers ordered as `strcmp` orders
strings, and the binary search is the one of the source. Contexts are addresses: a freed one is used
again.

### SkynetStart

Workers check `quit`, dispatch, lock the mutex, count themselves, wait, and wake up by a signal, by
the broadcast or spuriously. The timer thread wakes a sleeper at every round and ends the node when
no service is left. The socket thread wakes a worker only if all are asleep, and not at all while
more events are ready. Of `skynet_monitor` the model keeps whether the version has moved since the
last check and whether a destination is set; `skynet_monitor_check` runs in the two steps of its
reads, between which the worker goes on. A callback may never return ("stuck").

### RWLock

One step per access to `lock->write` and `lock->read`: a reader waits for the flag, announces itself,
looks at the flag again and withdraws if it is set; a writer takes the flag by test-and-set and waits
until no reader is announced.

### SocketServer

`sock[s]` is `ss->slot[s]`: type, id, descriptor, the two send lists, `dw_buffer`, the lock, and what
epoll watches. The poll thread (`poll`) takes a request from the pipe, an event, or waits for events;
a request or an event that takes a lock, writes or closes does so in several steps, between which
workers run. A worker (`wk[w]`) reserves an id in two steps (the compare-and-swap of the type, the
store of the id), sends a request, or sends a message: it looks at the socket without the lock, takes
it with `socket_trylock`, looks again, writes, and stores the rest in `dw_buffer`, or else falls back
to the pipe. A message is two units, so that a write can be partial; how much is written, and whether
the connection fails, after nothing or after a part of the lists was written, is chosen by the kernel.
`sp_wait` returns some of the events that are there, possibly none but the pipe's. `sp_add` may fail:
`new_fd` then frees the slot (`NewFdFails`), and `open_socket` frees it again (`OpenFailed`), with
steps of workers in between. `aborted` names the function and the slot where an `assert` of the source fails.

The history variables name what the properties exempt, because the code does not prevent it:

* `piped`: a message sent directly overtakes an earlier one that is still in the pipe (`SenderOrder`);
* `raced`: ids that met a race. `reserve_id` sets the type before the id, so a late request for the
  old id of the slot is applied to the new socket, and can fail the assertions of `new_fd` and
  `force_close`; `force_close` gives the slot free before `clear_closed_event`, so that a socket reserved
  in between can meet an old event; a slot that is reserved between the two places where a failing
  `open_socket` frees it is free again although its owner opens it, and the owner's request fails
  the assertion of `new_fd`; `spinlock_init` in `new_fd` resets a lock that a worker of the
  slot's former socket holds;
  `report_connect` reads that the lists are empty, a worker writes a part directly and
  turns the write event on, and `report_connect` turns it off: the rest waits for the next send;
* `listed`: a graceful close waits for the lists only, not for what a direct write left in `dw_buffer`
  (`CloseFlushes`).

A race can outlive its socket: a worker whose lock was initialised again believes that it holds it, and
its unlock later frees the lock of another thread, on a later socket of the slot. The properties about
connections, events and watches therefore leave out the slots that one of the races has hit at any time
(`Calm`), and not only the ids; so does `AbortsAreExplained`, by the slot whose assertion failed, because
in such slots the assertions can really fail. A race of one slot explains nothing of another. `clear_closed_event` removes one event, since a batch of epoll has one per
descriptor.

`force_close` frees the send lists before it takes the lock, so a worker may still write directly to a
connection that is being closed; the properties about pending messages leave that connection out.
The assertion at the end of `send_buffer_` fails when the low list stops between two messages, and the
process aborts; the model does the same, and the hazard is listed without a property.

### SkynetLua

One service. The variables are the tables of `skynet.lua`: `session_id_coroutine` (`sid`),
`sleep_session`, `session_coroutine_id` and `_address` (`serves`), `session_response`, `unresponse`
(`closure`), `watching_session`, `watching_service`, `dead_service`, and the three queues. `phase` and
`owed` say where in `suspend` and `dispatch_message` the thread is; `suspend` calls itself through
`dispatch_error_queue`, and the frames that are still to return are counted. The running coroutine
takes any operation: `call`, `send`, `ret`, `response` and its closure, `sleep`, `wait`, `wakeup`,
`timeout`, `fork`, `exit`, end, or an error. Peers answer late, with errors, or die.

What the properties exempt is named by history variables: `forgot` (a handler ended without an answer,
which nothing in the library notices), `broken` (a handler failed after it had made a closure: its
caller gets an error and later a response), `cut` (an error left `suspend` before the queues had
their turn; or a coroutine was woken twice, and the second entry of the queue hits it in its next
wait; or a call in the error queue was answered meanwhile, and its coroutine is nil), and `retested`
(a closure that was used or found dead before is asked `"TEST"` again after its caller's death: it does not look
at `f` and lowers `watching_service` once more, so that the count can fall below the handlers and promises
that are left, and a later `skynet.response` for this caller throws, `ResponseAgain`; `CallersWatched` adds these
surplus calls to the count). After
`skynet.exit` the frames of `suspend` that are still open may resume a coroutine once more (`exited`).

### Room

Handlers are one step up to the point where they wait for the database, and `pending` holds those that
wait. `Join` is the manager's part, which asks the database first; `JoinRoom`, `Back` and `Return` are
what the room does with the answer. A write is a record of the columns it changes; `WriteDone` applies
any of them, as the ten connections of `mysql_pool` do. `Crash` loses memory and writes,
`Recover` is `recoverRoomList` with `room:recover`. Timers (`starts`, `votes`) are counters: they are
never cancelled in the code. `Settled` is an assumption on time: a round lasts longer
than the 10 ms and the query of a start that was already under way. While the loop of an
`AUTO_CONFIRM` timer waits in `room:distroy`, other handlers run, and the loop goes on afterwards, with a later
vote too (`TimerWaits`, `AutoConfirm`); of two such loops the model runs one after the other.
`PerRound` is what the end of a round adds to `over_round`: game 2 adds one before `room:roundOver`
does (`room/2/game.lua:850`), and where it calls `distroy` once more after it, that is a step of `Expire`.
The runs have `PerRound = 1`, the proofs hold for both.

Two history variables name what `FeeOnce` exempts. `lost`: a crash loses the write of a round that is
over, or an older write overtakes it, and the room is recovered as if the round had not been played; or
a crash loses the write of the start of the game when that of a round's end has reached the row already (`Forgets`),
and the room is recovered as one that has not begun. A crash that loses only the start, before any round's
end was stored, is not exempted.
`revived`: a game begins in a room that has ended. The timer of `sit_down` and a `back_room` that waits
for the database do not look at the state again, so a room that was dissolved in between goes back to
`PLAYING`, and its first round charges the fee a second time. No document says that this
cannot happen; the case came up when the fee was to be proved for more users than the run has.

Kept as in the code: `sit_down` accepts position 0; destroyed rooms are recovered too (the comment at
`mysql_pool/command.lua:138` speaks of rooms that are not destroyed, its query has no such condition)
with the players of their row, a column that `room:distroy` does not clear; the map of an earlier vote is not cleared when a new one is asked for; telling
the players about a user who is none fails and leaves the handler in the middle. Left out: the fee paid
by the winner (`settleAccounts` reads a variable `cost` that is not defined there).

## 3. The runs

| run | instance | shows |
|---|---|---|
| `server` | two workers (weights -1 and 0), one other thread, three services, four operations of user code; the two services not yet launched are symmetric (the run checks no liveness); 610 thousand states | all safety properties |
| `server_live` | the same threads, two services, three operations, fair threads | messages are handled, retired services reclaimed |
| `mq` | initial size 2, threshold 1, at most six messages | `ImplementsFifo`; a warning gives the length that crossed the threshold |
| `timer` | `TIME_NEAR = TIME_LEVEL = 2` (a clock of five bits that wraps), two timeouts, up to two ticks per update | `ImplementsQueue`; only what is due is dispatched and nothing due is left behind by the unlocked dispatch; every timeout fires; 140 thousand states |
| `handle` | one launcher, three contexts, handles 0..3, a table of one slot, three names | lookups, names and abort |
| `handle_rehash` | two launchers, handles 0..7 | violation, see findings |
| `start` | two workers, one event (a send, a socket event or a spurious wakeup) besides the bootstrap; 430 thousand states | counting of sleepers, work is done, all threads stop, an endless callback is reported |
| `rwlock` | four threads | exclusion; a writer is not starved by readers |
| `socket` | two slots, four ids, two messages, three other operations, one sender and one opener; 3.5 million states | whole messages, in order, to their own connection; events, watches, assertions, graceful close |
| `lua` | three coroutines, one peer, two requests, three sessions, nine operations; 2.2 million states | calls are answered once, coroutines are resumed by what they wait for |
| `room` | three users, two seats, two rounds, five requests or crashes, one vote at a time, two writes under way when a handler runs; 1.4 million states | seats, fee |
| `room_vote` | three users, three seats, one round | violation, see findings |

Why the bounds are enough. Four operations suffice for a launch during which the new service is
sent to and killed, and for a kill racing with two sends; two workers suffice for every race on one
queue, and the third service makes a queue wait while one is held. The ring of two slots expands
twice, from every position of `head`, and its threshold is raised twice. With two lists per level the
wheel passes every cascade, of each level and of the wrap, and `Delay` has all values an int can
have. The handle table is expanded to its largest size and all handles are used up and wrap. In
`start`, the event can be a send between the check of a sleeper and its wait, while the other worker sleeps,
works or is stuck. In `socket` each of the two slots is used by two ids, so that a close, a new socket
in the slot and a stale message, request or event meet; two messages are enough for one to be torn or
overtaken by the other. In `lua` nine operations allow a request whose handler calls, is woken or failed
by the peer's death, and answers, while a second request interferes. In `room`, three users want two
seats, and five operations allow two players to sit, a round to be played, and two crashes
or a vote; rounds, timers and writes are not counted among them. The proofs of section 4 do not
depend on bounds.

Deadlock is not checked in `server`, `server_live` and `start`: a node at rest, whose workers wait
for the next event, and one whose threads have all ended, have no next step. Nor is it in `socket`, `lua`,
`room` and `room_vote`, which stop when the operations of users are used up (and the first also by
`abort`). `IdleMeansDone`,
`WorkIsDone` and `EveryoneStops` say what such a node at rest must look like.

Fairness. `server_live` and `start` assume that the operating system runs every thread that can run,
and that callbacks return: weak fairness of each thread's own steps. Nothing makes user code send,
kill or launch, a client write, or a condition wait end by itself. In `start` a callback that has got
stuck takes no step; `WorkIsDone` asks for one worker that has not. In `rwlock` every thread that is
inside the lock or on its way goes on, as the short regions of `skynet_handle.c` do; nobody has to ask
for the lock. In `timer` it is assumed
that the timer thread, which calls `skynet_updatetime` every 2.5 ms, keeps running and that the
monotonic clock advances. A mutex is modelled as free or taken and waiting for it is only weakly fair;
its holders always release it in a later step of their own.

### Findings

* `handle_rehash`. `skynet_context_new` assigns `ctx->handle` after `skynet_handle_register` has
  released the lock. A second launcher that expands the table in between hashes the context with
  handle 0. Either the assertion on the new slot fails, or the context is put where its handle does
  not find it. It takes two services that run `LAUNCH` at the same time; `skynet.newservice` goes
  through one launcher service, which is why the passing run `handle` has one launcher.
* `room_vote`. `confirm_distroy_room` ends the room when the number of agreements equals the number of
  players, "if everybody clicked confirm". But users who are no players count: in the run the second user asks
  for the vote while its join still waits for the database, the third one joins, and when the owner or the third
  confirms, there are two agreements and two players. The room ends although one of its players has not agreed.
  (Agreements also stay in `confirm_map` when their users leave.)

Seen on the way, without a run: the handle after `HANDLE_MASK` is 0, which `skynet_handle_init` reserves
for the system ("reserve 0 for system"); in the instances of `SkynetHandle` a service gets it.

## 4. The proofs

`SkynetServerProofs` proves, for every set of threads and services, all weights and every number
of operations, that `IndInv` is an invariant, and from it each safety property of the run `server`.
The assumptions are those of `ServerAssumption`: the bootstrap service is a service, workers and
other threads are different, NULL is neither, and weights are the ones of the source's table.
`QueuesOwnedOnce` and `NoWakeupLost` are the two halves of what the global queue has to guarantee.

The properties are not inductive by themselves. That a queue has one owner depends on `in_global` being
set as long as it is owned, except after the deletion of its context; that depends on deletion
happening once, by the thread that dropped the last reference; that depends on the count being
exact, which depends on where each thread is. `IndInv` has these parts:

* `ControlInv`: which local variables are set at each place of the code;
* `RefCount`: the count equals the number of references in the slot and in local variables;
* `LifeInv`: a counted context is alive, a context without references is being deleted by one thread,
  and `release` is set exactly for deleted ones;
* `OwnerInv`: one owner, no owner means idle, owned queues are not freed and are `in_global` unless
  released;
* `DropInv`, `InitInv`, `ErrorInv`: queues are given up after the handle is gone and dropped after the
  context is; a registered service is initialised or still owned by its launcher; error reports come
  from retired services.

There is one lemma per part with one step for each action, and `Invariance` combines them.
`BatchFits` and the action property `NoPushAfterRelease` have inductions of their own on top.

`SkynetMQProofs` proves that the indices of the ring stay in range and that every occupied slot holds
a message (`RingWellFormed`), and that every step of the ring is a step of `MessageFifo` or leaves it
unchanged (`FifoImplemented`), for every initial size, every threshold and any load. The lemmas
`PushAppends` and `PopTakesHead` state what a push, with or without expansion, and a pop do to the
contents read from `head`.

`WarningsExact` needs what the loop `while (length > threshold) threshold *= 2` computes: the thresholds it
passes are a recursive function (`Thresholds`), the lemmas give its values and its growth, and the
smallest one that is not below the length is below twice the length. The invariant adds that a
length waits to be reported only after a pop, whose thread holds the queue.

`SkynetHandleProofs` is about one launcher at a time (`OneLauncher`, a hypothesis of the theorems; the run
`handle_rehash` shows that they are false without it) and any number of contexts and names, any initial
size and any mask with `HANDLE_MASK + 1` a power of two that the size divides, as in the source.
`Placed` says that a context is in the slot that its handle hashes to, and a context whose handle is not
written yet in the slot of the handle its launcher got. A full table then has its contexts in
different slots of the table of double size, since handles that differ modulo n differ modulo 2n
(`ExpandedPlaced`), which is the assertion of the rehash, and a free slot is left for the next try. That the
search for a free slot ends with the handle of the first one needs that `HANDLE_MASK + 1` consecutive handles
meet every slot, also over the wrap. For `AbortIsComplete`, `AbortInv` says that a pass that has
retired nothing has every context it owes still before itself or just read it; that `retireall`
repeats a pass that has found something makes expansions between its reads harmless. `NamesAreSound` adds
that names are sorted and that each one bound to a service leads to it (`NameInv`). The two loops are
recursive functions in the model: the pass of `skynet_handle_retire` over the names (`Without`) and the
binary search for every range (`Searches`). For each the proof first gives a solution of the recursive equation and
then, by the least counterexample, what every solution computes (`WithoutKeeps`, `SearchFinds`).

`SkynetTimerProofs` proves, for all `TIME_NEAR` and `TIME_LEVEL` from 2 on, that timeouts fire on time
(`TimeoutsOnTime`) and that each is answered exactly once (`AnsweredOnceOnTime`). Lemmas on quotients and
remainders say how the blocks of `Span[i]` ticks nest, in which the levels divide the clock. A node fits a
list of level i if it is not in the present block of `Span[i]` ticks but later in the present one of
`Span[i + 1]`; at level 3 it may be in any other block, since the clock may wrap before the node is due
(`LevelFits`). It fits `near[k]` if it expires in the present block, at tick k, and is
not over (`NearFits`). `WheelInv` says this of all nodes (`NearPlaced`, `LevelPlaced`), with the
nodes that are being moved or dispatched (`WalkPlaced`) and where they may be (`WheelControl`). That
`timer_add` gives a node such a place needs that a delay is less than half the range of the clock, as an
`int` is (`NewExpire`); that the clock may go on needs that at most one list stops fitting, the one that
`Cascade` names (`ShiftNear`, `ShiftLevel`, `CascadeOne`), and that its nodes fit a finer list afterwards
(`MovedInTime`). That nothing is due when an update begins is part of the invariant, and so the first
`timer_execute` of an update, for the "timeout 0 (rare condition)", finds nothing.
For exactly once, all lists are put into one `Store`, in which a session has one place (`Once`); a cascade
moves its nodes without changing the set of those that wait (`Agenda`). `AgendaNext` is what the wheel
then does: a timeout is entered, one that expires now is answered and gone, or the clock goes
on when none expires now. It is all that `ImplementsQueue` says, except for the order among timeouts of
one tick.

`ThreadProofs` is about `RWLock` and `SkynetStart`. `LockExcludes` is `Exclusion` for every finite set of
threads. It follows from an invariant that counts: `lock->read` is the number of announced threads
(`CountExact`), and the flag is set exactly if one thread has set it (`OneFlag`). A writer goes in when
the count is 0, so no announced reader is there; a reader that announced itself later sees the flag and
withdraws. `SleepersCounted` is `SleepExact` for every number of workers. The invariant adds where the
workers and the monitor can be; each action moves at most one worker into or out of the counted
places, and the broadcast moves workers only within them.

`SocketServerProofs` proves the seven properties of the run `socket` for any number of slots, ids, workers
and messages. For `OwnConnection`, `EventsAreFresh`, `WritesAreWatched` and `AbortsAreExplained` the
invariant is types and, of
each slot that no race has hit, `SlotInv`: id and descriptor belong to the slot (`Bound`); a socket
that is not connected has nothing to write (`Bare`); one thread opens a reserved slot, as a worker or by
one request in the pipe (`Reserved`); a worker that believes to have the lock has it, and while it has
a rest to store the connection stays and `dw_buffer` is empty (`Locked`); the poll thread works on open sockets
(`Polled`); what is in the lists and on the wire was sent to this id (`Addressed`, `Delivered`); events
are of the socket that is open or of the one about to be cleared (`Fresh`); data to write is watched
(`Watched`). They need each other: an event is fresh because nobody opens the slot before it is cleared,
which is `Reserved`; a message reaches its own connection because the check under the lock still holds at
the write, which is `Locked`; and the lock is still the worker's because no slot is initialised
twice. Most steps touch one slot, and the lemma `Frame` keeps the invariant of the others; there is
one lemma per action for the slot it touches.

`SenderOrder`, `WholeMessages` and `CloseFlushes` are about the units of messages in pipe, lists, buffer and
wire together. The thirty actions do only a few things to these (`Steps`, `Traffic`): they lose something
(`Loses`), put `dw_buffer` in front of the high list (`Fetches`), write from the lists (`Flushes`), take a
message from the pipe into a list (`Lists`), write directly (`Hits`), store the rest of a direct write
(`Stows`) or send a message on its way (`Sends`). Each invariant has one lemma for each of these forms:

* `BookInv`: a message in a list or on a wire has left the pipe, a worker that sends is at its own last
  message, the messages of a thread are in the pipe in the order of sending;
* `OrderInv`: a wire is in the order of `SenderOrder` (`Tidy`); wire, `dw_buffer` and high list are so in this
  sequence, and the low list holds only what may be overtaken (`Ordered`); and the rest that a worker is about to store has
  overtaken nothing but messages of the pipe (`Storing`). `SenderOrder` needs no calm slots: it holds also
  where races have mixed up sockets;
* `IdInv`, `FirstInv`: an id is given once and told when it is stored, so a connection starts with nothing
  written to it or listed for it (`Virgin`);
* `WholeInv`: the wire, the rest that a worker holds or else `dw_buffer`, and the high list are in this sequence
  made of whole messages, so is the low list, and no unit is there twice (`Stream`). The invariant needs
  the lock (`Locked`): while a worker holds a rest, the poll thread writes nothing;
* `FlushInv`: what was listed for the present socket of a slot is in the lists or written, and all of it is
  written when a graceful close is about to end. `ClosesFlush` is an action property on top of it.

TLC checked each of these invariants on the instance of the run before it was proved.

`SkynetLuaProofs` proves all five safety properties of the run `lua`, for any number of coroutines, peers,
requests, sessions and operations. `LuaInv` has four parts besides types. `Waits`: a coroutine that waits is known
under one session, and under no other; sessions are fresh; a session with a timer is not one of a call.
It is what lets a late timer or answer do no harm. `Queues`: while `suspend` was
not left by an error, the wakeup queue is empty when the error queue has its turn, and both are when the
forks have theirs. `Answers`: a request is served by one coroutine, which has answered, promised to,
or sent nothing; a promise that is open has sent no response. `CallersWatched` counts handlers and
promises, and each action changes a count by the coroutine or promise it takes or gives up, except a `"TEST"` of a
closed closure, which lowers the count and is booked in `retested` (`RetestCounts`). Steps that do
not touch the tables of a part keep it by one lemma per part.

`RoomProofs` proves `SeatsFit` and `FeeOnce` for any number of users, seats and rounds, any crashes,
recoveries and orders of the writes. `SeatsFit` is inductive once it is stated (`Fits`) of the list of
players in memory, of the row and of every write under way, each of which a recovery may see. For the
fee, `FeeInv` relates memory, row and writes: the row is never ahead of the room (`Basics`); a room that
has not begun has no rounds, or the write of its first round is under way (`Beginning`); there is one fee,
charged or being written (`OneFee`); and once it is charged, at the end of some round o, memory, row and
writes know of a round from o on, so that no game plays a first round again (`AfterFee`, `Since`).

The library's induction theorems cannot be used here, as no backend instantiates an operator
parameter. What needs induction over numbers (thresholds, names, slots, seats) is proved by the
least counterexample instead, from `WFMin` and `NatLessThanWellFounded`, which speak of sets.

Only model-checked: liveness (`EveryMessageHandled`, `EventuallyReclaimed`, `EveryTimeoutFires`,
`WorkIsDone`, `EveryoneStops`, `LoopIsReported`, `WriterGetsIn`), which needs fairness and is outside
the prover's reach; and `ImplementsQueue` of the timer, of which `AnsweredOnceOnTime` is everything but the
order among timeouts of one tick: its refinement mapping selects nodes from lists with `SelectSeq`, whose
values for every list need induction over data. Every other property of a passing run is a theorem.

## 5. What is not modelled

* Weak memory. Locks and atomic operations are taken to order memory; `m->sleep`, `m->quit` and
  `q->overload` are read without them, and a model step reads the current value.
* `ctx->init` written by the launcher after it released its reference: the step is there (`SetInit`),
  but that the context may be freed by then, when another thread kills it at that moment, is
  listed as a hazard and not part of `NoUseAfterFree`.
* Failure of allocation, of `pthread` calls and of module loading (each ends the process or returns
  before any state has changed).
* Reserved contexts, remote messages and the harbor services: all configurations have `harbor = 0`.
* `MONITOR`, of which only the examples make use, message logs and statistics.
* Of `socket_server.c`: UDP, bound descriptors, socket options, the warning about long send lists, and the
  owner of a socket. Of `skynet.lua`: debugging, unknown protocols and the queues of `queue.lua`.
* The connection and login tables of the agent manager, the gate, and the rules of the games.
* The components with status `not_modelled` in `PROJECT.json`, each with its reason.

The map covers the files that carry the concurrent and the persistent behaviour of the program; most
lines of the repository's C are vendored (Lua, jemalloc, lpeg, cjson, md5, pbc), bindings and
codecs, which the models do not touch, so that the share of all lines that is mapped is small.

## 6. Plan

Done: the scheduler and the queues, the timer, the handle storage, the threads and the monitor, the lock,
the sockets, the Lua scheduler and the room, each with the proofs of section 4. Left, in this order:

1. `AgentManager`: login against the late close of a replaced connection, two requests of one user to
   create a room; its composition with `Room`.
2. `Gate` on top of `SocketServer`.
3. Turns and cards of the games.
