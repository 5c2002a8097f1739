---------------------------- MODULE SocketServer ----------------------------
(***************************************************************************)
(* The TCP sockets of a node: skynet-src/socket_server.c.  One poll thread *)
(* runs socket_server_poll: it takes requests from a pipe and events from  *)
(* epoll and owns the sockets.  Workers reserve ids and send requests, and *)
(* a worker may write to a socket directly while its send lists are empty, *)
(* under the socket's dw_lock.  Ids map to slots by HASH_ID, so a slot is  *)
(* used again by later ids while stale ids are still around.               *)
(*                                                                         *)
(* A message is two units (bytes), the fewest that a write can tear; the   *)
(* lists and dw_buffer hold the units still to be written.  What epoll     *)
(* reports, how much a write takes and whether it fails is the kernel's    *)
(* choice.  Left out: UDP, bound descriptors, the overload warning, the    *)
(* owner of a socket (opaque) and the contents of what is received.        *)
(***************************************************************************)
EXTENDS Integers, Sequences, SequencesExt, FiniteSets

CONSTANTS
    Sender,     \* the threads that call socket_server_send and its kind
    Opener,     \* the threads that connect, listen, start, close and shut down
    MaxSocket,  \* MAX_SOCKET, the number of slots
    Nobody,     \* nobody holds the lock
    MaxId,      \* bound: ids given out
    MaxMsg,     \* bound: messages sent
    MaxOps      \* bound: connects, listens, starts, closes and shutdowns

ASSUME SocketAssumption ==
    /\ IsFiniteSet(Sender) /\ IsFiniteSet(Opener)
    /\ Nobody \notin Sender \cup Opener /\ "poll" \notin Sender \cup Opener \cup {Nobody}
    /\ MaxSocket \in Nat \ {0} /\ MaxId \in Nat \ {0}
    /\ MaxMsg \in Nat /\ MaxOps \in Nat

Worker == Sender \cup Opener
Slot == 0..(MaxSocket - 1)
HashId(id) == id % MaxSocket

VARIABLES
    sock,       \* ss->slot, with what epoll watches of it (add, wr)
    alloc,      \* ss->alloc_id
    pipe,       \* the requests in the pipe
    ev,         \* the events of the last sp_wait that are not handled yet
    checkctrl,  \* ss->checkctrl
    poll,       \* where the poll thread is
    wk,         \* wk[w]: where worker w is
    known,      \* the ids that services have been told
    msg,        \* msg[n]: who sent message n to which id
    wire,       \* wire[id]: the units written to the connection of id
    aborted,    \* the assertion that failed: its function and the slot
    piped,      \* history: messages that went through the pipe
    listed,     \* history: messages that send_socket put into a list
    raced,      \* history: ids born in, or hit by, a race named where it happens
    ops         \* operations so far

sockvars == <<sock, alloc, pipe, ev, checkctrl, poll, wk, known, msg, wire, aborted, piped,
              listed, raced, ops>>

Idle == [pc |-> "idle"]
Top == [pc |-> "top"]

Free == [type |-> "INVALID", id |-> 0, fd |-> 0, high |-> <<>>, low |-> <<>>, dw |-> <<>>,
         lock |-> Nobody, add |-> FALSE, wr |-> FALSE]

\* A node that listens: its first socket, id 1, was opened and started.
Init ==
    /\ sock = [s \in Slot |-> IF s # HashId(1) THEN Free
                              ELSE [Free EXCEPT !.type = "LISTEN", !.id = 1, !.fd = 1, !.add = TRUE]]
    /\ alloc = 1
    /\ pipe = <<>> /\ ev = <<>>
    /\ checkctrl = TRUE
    /\ poll = Top
    /\ wk = [w \in Worker |-> Idle]
    /\ known = {1}
    /\ msg = <<>>
    /\ wire = [id \in 1..MaxId |-> <<>>]
    /\ aborted = {}
    /\ piped = {} /\ listed = {} /\ raced = {}
    /\ ops = 0

Units(n) == <<<<n, 1>>, <<n, 2>>>>

\* The slot of id still belongs to id.
Valid(id) == sock[HashId(id)].type # "INVALID" /\ sock[HashId(id)].id = id

\* ... or seems to: a worker has reserved it and not yet stored the new id.
Stolen(id) ==
    IF Valid(id) /\ sock[HashId(id)].type = "RESERVE"
    THEN {id} \cup {wk[w].id : w \in {v \in Opener : wk[v].pc = "reserved" /\ HashId(wk[v].id) = HashId(id)}}
    ELSE {}

SendBufferEmpty(s) == sock[s].high = <<>> /\ sock[s].low = <<>>

\* mutant: what a direct write left over is not looked at
CanDirectWriteAgain(id) ==
    LET s == HashId(id) IN
    sock[s].id = id /\ SendBufferEmpty(s) /\ sock[s].type = "CONNECTED"

CanDirectWrite(id) ==
    LET s == HashId(id) IN
    sock[s].id = id /\ SendBufferEmpty(s) /\ sock[s].type = "CONNECTED" /\ sock[s].dw = <<>>

\* The first id after alloc_id whose slot is free, as reserve_id looks for it.
FreeIds == {id \in (alloc + 1)..(alloc + MaxSocket) :
               id <= MaxId /\ sock[HashId(id)].type = "INVALID"}
NextId == CHOOSE id \in FreeIds : \A other \in FreeIds : id <= other

-----------------------------------------------------------------------------
(* Workers                                                                 *)

Op == ops < MaxOps /\ ops' = ops + 1

\* socket_server_connect ("O") and socket_server_listen ("L"), first half:
\* the compare-and-swap of reserve_id.  A slot reserved between force_close
\* and clear_closed_event of its last socket inherits that one's events; one
\* reserved before OpenFailed is freed again.
Reserve(w, c) ==
    /\ wk[w].pc = "idle"
    /\ Op
    /\ FreeIds # {}
    /\ sock' = [sock EXCEPT ![HashId(NextId)].type = "RESERVE"]
    /\ alloc' = NextId
    /\ wk' = [wk EXCEPT ![w] = [pc |-> "reserved", id |-> NextId, c |-> c]]
    /\ raced' = IF poll.pc \in {"failed", "clear"} /\ poll.slot = HashId(NextId)
                THEN raced \cup {NextId} ELSE raced
    /\ UNCHANGED <<pipe, ev, checkctrl, poll, known, msg, wire, aborted, piped, listed>>

\* ... second half: the id is stored and the request sent.
SendRequest(w) ==
    /\ wk[w].pc = "reserved"
    /\ LET id == wk[w].id IN
       /\ sock' = [sock EXCEPT ![HashId(id)].id = id, ![HashId(id)].fd = 0]
       /\ pipe' = Append(pipe, [c |-> wk[w].c, id |-> id])
       /\ known' = known \cup {id}
    /\ wk' = [wk EXCEPT ![w] = Idle]
    /\ UNCHANGED <<alloc, ev, checkctrl, poll, msg, wire, aborted, piped, listed, raced, ops>>

\* socket_server_close ("K"), socket_server_shutdown ("H"), socket_server_start ("S")
Request(w, c, id) ==
    /\ wk[w].pc = "idle"
    /\ Op
    /\ pipe' = Append(pipe, [c |-> c, id |-> id])
    /\ UNCHANGED <<sock, alloc, ev, checkctrl, poll, wk, known, msg, wire, aborted, piped, listed,
                   raced>>

NewMessage(w, id, low) ==
    /\ Len(msg) < MaxMsg
    /\ msg' = Append(msg, [by |-> w, to |-> id, low |-> low])

\* socket_server_send_lowpriority
SendLow(w, id) ==
    /\ wk[w].pc = "idle"
    /\ NewMessage(w, id, TRUE)
    /\ \/ ~Valid(id) /\ UNCHANGED <<pipe, piped>>
       \/ /\ Valid(id)
          /\ pipe' = Append(pipe, [c |-> "P", id |-> id, n |-> Len(msg) + 1])
          /\ piped' = piped \cup {Len(msg) + 1}
    /\ UNCHANGED <<sock, alloc, ev, checkctrl, poll, wk, known, wire, aborted, listed, raced, ops>>

\* socket_server_send up to the first can_direct_write
SendStart(w, id) ==
    /\ wk[w].pc = "idle"
    /\ NewMessage(w, id, FALSE)
    /\ \/ ~Valid(id) /\ UNCHANGED wk
       \/ /\ Valid(id)
          /\ wk' = [wk EXCEPT ![w] = [pc |-> IF CanDirectWrite(id) THEN "try" ELSE "post",
                                      n |-> Len(msg) + 1]]
    /\ UNCHANGED <<sock, alloc, pipe, ev, checkctrl, poll, known, wire, aborted, piped, listed,
                   raced, ops>>

\* socket_trylock
TryLock(w) ==
    /\ wk[w].pc = "try"
    /\ LET s == HashId(msg[wk[w].n].to) IN
       \/ /\ sock[s].lock = Nobody
          /\ sock' = [sock EXCEPT ![s].lock = w]
          /\ wk' = [wk EXCEPT ![w].pc = "locked"]
       \/ /\ sock[s].lock # Nobody
          /\ wk' = [wk EXCEPT ![w].pc = "post"]
          /\ UNCHANGED sock
    /\ UNCHANGED <<alloc, pipe, ev, checkctrl, poll, known, msg, wire, aborted, piped, listed,
                   raced, ops>>

\* mutant: only the state of the socket is checked again, not its id
DirectWriteUnchecked(w) ==
    /\ wk[w].pc = "locked"
    /\ LET n == wk[w].n
           s == HashId(msg[n].to) IN
       \/ /\ sock[s].type = "CONNECTED" /\ SendBufferEmpty(s) /\ sock[s].dw = <<>>
          /\ wire' = [wire EXCEPT ![sock[s].fd] = @ \o Units(n)]
          /\ wk' = [wk EXCEPT ![w] = Idle]
       \/ /\ sock[s].type # "CONNECTED"
          /\ wk' = [wk EXCEPT ![w].pc = "post"]
          /\ UNCHANGED wire
    /\ sock' = [sock EXCEPT ![HashId(msg[wk[w].n].to)].lock = Nobody]
    /\ UNCHANGED <<alloc, pipe, ev, checkctrl, poll, known, msg, aborted, piped, listed, raced, ops>>

\* The second can_direct_write and the write, which takes k units (an error
\* counts as none); when all are written, or the check fails, the unlock.
DirectWrite(w) ==
    /\ wk[w].pc = "locked"
    /\ LET n == wk[w].n
           id == msg[n].to
           s == HashId(id) IN
       \/ /\ CanDirectWrite(id)
          /\ \E k \in 0..2 :
             /\ wire' = [wire EXCEPT ![sock[s].fd] = @ \o SubSeq(Units(n), 1, k)]
             /\ IF k = 2
                THEN /\ sock' = [sock EXCEPT ![s].lock = Nobody]
                     /\ wk' = [wk EXCEPT ![w] = Idle]
                ELSE /\ wk' = [wk EXCEPT ![w] = [pc |-> "store", n |-> n,
                                                 rest |-> SubSeq(Units(n), k + 1, 2)]]
                     /\ UNCHANGED sock
       \/ /\ ~CanDirectWrite(id)
          /\ sock' = [sock EXCEPT ![s].lock = Nobody]
          /\ wk' = [wk EXCEPT ![w].pc = "post"]
          /\ UNCHANGED wire
    /\ UNCHANGED <<alloc, pipe, ev, checkctrl, poll, known, msg, aborted, piped, listed, raced, ops>>

\* mutant: the poll thread is not asked to watch for writing
StoreRestQuiet(w) ==
    /\ wk[w].pc = "store"
    /\ LET s == HashId(msg[wk[w].n].to) IN
       sock' = [sock EXCEPT ![s].dw = wk[w].rest, ![s].lock = Nobody]
    /\ wk' = [wk EXCEPT ![w] = Idle]
    /\ UNCHANGED <<alloc, pipe, ev, checkctrl, poll, known, msg, wire, aborted, piped, listed,
                   raced, ops>>

\* The rest goes to dw_buffer, the poll thread is asked to write it, unlock.
StoreRest(w) ==
    /\ wk[w].pc = "store"
    /\ LET s == HashId(msg[wk[w].n].to) IN
       sock' = [sock EXCEPT ![s].dw = wk[w].rest, ![s].lock = Nobody, ![s].wr = @ \/ sock[s].add]
    /\ wk' = [wk EXCEPT ![w] = Idle]
    /\ UNCHANGED <<alloc, pipe, ev, checkctrl, poll, known, msg, wire, aborted, piped, listed,
                   raced, ops>>

\* The message goes to the poll thread through the pipe.
PostData(w) ==
    /\ wk[w].pc = "post"
    /\ pipe' = Append(pipe, [c |-> "D", id |-> msg[wk[w].n].to, n |-> wk[w].n])
    /\ piped' = piped \cup {wk[w].n}
    /\ wk' = [wk EXCEPT ![w] = Idle]
    /\ UNCHANGED <<sock, alloc, ev, checkctrl, poll, known, msg, wire, aborted, listed, raced, ops>>

-----------------------------------------------------------------------------
(* The poll thread: what its handlers have in common                       *)

Abort(f, s) ==
    /\ aborted' = {[in |-> f, slot |-> s]}
    /\ UNCHANGED <<sock, poll, wire, raced>>

\* new_fd: the descriptor of id, with a fresh lock.  It asserts that the slot is
\* reserved (report_accept reserves it in the same step) and that the lists are
\* empty.  A worker with a stale id may hold the lock that is initialised.
\* (A failing sp_add, which frees the slot, is NewFdFails.)
NewFd(s, id, type, add) ==
    IF SendBufferEmpty(s) /\ sock[s].type = (IF type = "PACCEPT" THEN "INVALID" ELSE "RESERVE")
    THEN /\ sock' = [sock EXCEPT ![s] = [@ EXCEPT !.id = id, !.fd = id, !.type = type, !.dw = <<>>,
                                                  !.lock = Nobody, !.add = add,
                                                  !.wr = type = "CONNECTING"]]
         /\ raced' = IF sock[s].lock = Nobody THEN raced ELSE raced \cup {id}
         /\ UNCHANGED <<wire, aborted>>
    ELSE aborted' = {[in |-> "new_fd", slot |-> s]} /\ UNCHANGED <<sock, wire, raced>>

\* force_close up to its lock: the lists are freed and epoll forgets the
\* descriptor.  Why: the graceful close of a request ("K") or anything else;
\* ctrl: it was called for a request.
ForceClose(s, why, ctrl) ==
    IF sock[s].type = "RESERVE"
    THEN Abort("force_close", s)
    ELSE /\ sock' = [sock EXCEPT ![s].high = <<>>, ![s].low = <<>>, ![s].add = FALSE,
                                 ![s].wr = FALSE]
         /\ poll' = [pc |-> "close", slot |-> s, why |-> why, ctrl |-> ctrl]
         /\ UNCHANGED <<wire, aborted, raced>>

\* mutant: the lists are not freed
ClosedListed(s) == [sock[s] EXCEPT !.type = "INVALID", !.dw = <<>>, !.lock = Nobody,
                                   !.add = FALSE, !.wr = FALSE]

\* The closed socket, once the lock is taken.
Closed(s) == [sock[s] EXCEPT !.type = "INVALID", !.dw = <<>>, !.lock = Nobody,
                             !.high = <<>>, !.low = <<>>, !.add = FALSE, !.wr = FALSE]

\* After a request was answered with SOCKET_CLOSE or SOCKET_ERR for id.
Clear(id) == [pc |-> "clear", slot |-> HashId(id), id |-> id]

\* mutant: dw_buffer is put behind the high list
SendBufferBehind(s, then, after) ==
    /\ \/ /\ sock[s].lock # Nobody
          /\ poll' = after
          /\ UNCHANGED sock
       \/ /\ sock[s].lock = Nobody
          /\ sock' = [sock EXCEPT ![s].lock = "poll", ![s].high = @ \o sock[s].dw, ![s].dw = <<>>]
          /\ poll' = [pc |-> "send", slot |-> s, then |-> then]
    /\ UNCHANGED <<wire, aborted>>

\* send_buffer: give up when a direct write has the lock, else take it and put
\* dw_buffer in front of the high list.  "then" is what comes after.
SendBuffer(s, then, after) ==
    /\ \/ /\ sock[s].lock # Nobody
          /\ poll' = after
          /\ UNCHANGED sock
       \/ /\ sock[s].lock = Nobody
          /\ sock' = [sock EXCEPT ![s].lock = "poll", ![s].high = sock[s].dw \o @, ![s].dw = <<>>]
          /\ poll' = [pc |-> "send", slot |-> s, then |-> then]
    /\ UNCHANGED <<wire, aborted>>

-----------------------------------------------------------------------------
(* ctrl_cmd: the requests in the pipe                                      *)

Cmd(c) ==
    /\ poll.pc = "top" /\ checkctrl
    /\ pipe # <<>> /\ Head(pipe).c = c
    /\ pipe' = Tail(pipe)
    /\ UNCHANGED <<alloc, ev, checkctrl, wk, known, msg, piped, ops>>

\* new_fd when epoll refuses the descriptor: the slot is free, and open_socket
\* has still to go to _failed
NewFdFails(s, id) ==
    /\ sock[s].type = "RESERVE"
    /\ sock' = [sock EXCEPT ![s].type = "INVALID"]
    /\ poll' = [pc |-> "failed", slot |-> s, id |-> id]
    /\ UNCHANGED <<wire, aborted, raced>>

\* open_socket: it fails before new_fd or in it, or is connected at once, or
\* connects
OpenSocket ==
    /\ Cmd("O")
    /\ LET id == Head(pipe).id
           s == HashId(id) IN
       \/ /\ sock' = [sock EXCEPT ![s].type = "INVALID"]
          /\ poll' = Clear(id)
          /\ UNCHANGED <<wire, aborted, raced>>
       \/ NewFdFails(s, id)
       \/ /\ \E type \in {"CONNECTED", "CONNECTING"} : NewFd(s, id, type, TRUE)
          /\ poll' = poll
    /\ UNCHANGED listed

\* ... _failed, after a failing new_fd: the slot is freed a second time, although
\* a worker may have reserved it by now
OpenFailed ==
    /\ poll.pc = "failed"
    /\ sock' = [sock EXCEPT ![poll.slot].type = "INVALID"]
    /\ poll' = [pc |-> "clear", slot |-> poll.slot, id |-> poll.id]
    /\ UNCHANGED <<alloc, pipe, ev, checkctrl, wk, known, msg, wire, aborted, piped, listed, raced,
                   ops>>

\* listen_socket
ListenSocket ==
    /\ Cmd("L")
    /\ NewFd(HashId(Head(pipe).id), Head(pipe).id, "PLISTEN", FALSE)
    /\ poll' = poll
    /\ UNCHANGED listed

\* start_socket: epoll watches an accepted or a listening socket, or refuses
StartSocket ==
    /\ Cmd("S")
    /\ LET id == Head(pipe).id
           s == HashId(id) IN
       \/ /\ ~Valid(id)
          /\ poll' = Clear(id)
          /\ UNCHANGED <<sock, wire, aborted, raced>>
       \/ /\ Valid(id) /\ sock[s].type \in {"PACCEPT", "PLISTEN"}
          /\ \/ /\ sock' = [sock EXCEPT ![s].add = TRUE,
                              ![s].type = IF @ = "PACCEPT" THEN "CONNECTED" ELSE "LISTEN"]
                /\ UNCHANGED <<poll, wire, aborted, raced>>
             \/ ForceClose(s, "err", TRUE)
       \/ /\ Valid(id) /\ sock[s].type \notin {"PACCEPT", "PLISTEN"}
          /\ UNCHANGED <<sock, poll, wire, aborted, raced>>
    /\ UNCHANGED listed

\* close_socket: a socket that is gone is reported closed; what is listed is
\* sent as far as possible before CloseDecide
CloseSocket(c) ==
    /\ Cmd(c)
    /\ LET id == Head(pipe).id
           s == HashId(id)
           decide == [pc |-> "decide", slot |-> s, c |-> c] IN
       /\ raced' = raced \cup Stolen(id)
       /\ \/ /\ ~Valid(id)
             /\ poll' = Clear(id)
             /\ UNCHANGED <<sock, wire, aborted>>
          \/ /\ Valid(id) /\ ~SendBufferEmpty(s)
             /\ SendBuffer(s, decide, decide)
          \/ /\ Valid(id) /\ SendBufferEmpty(s)
             /\ poll' = decide
             /\ UNCHANGED <<sock, wire, aborted>>
    /\ UNCHANGED listed

\* mutant: a close does not wait for what is listed
CloseDecideNow ==
    /\ poll.pc = "decide"
    /\ ForceClose(poll.slot, poll.c, TRUE)
    /\ UNCHANGED <<alloc, pipe, ev, checkctrl, wk, known, msg, piped, listed, ops>>

CloseDecide ==
    /\ poll.pc = "decide"
    /\ \/ /\ poll.c = "H" \/ SendBufferEmpty(poll.slot)
          /\ ForceClose(poll.slot, poll.c, TRUE)
       \/ /\ poll.c = "K" /\ ~SendBufferEmpty(poll.slot)
          /\ sock' = [sock EXCEPT ![poll.slot].type = "HALFCLOSE"]
          /\ poll' = Top
          /\ UNCHANGED <<wire, aborted, raced>>
    /\ UNCHANGED <<alloc, pipe, ev, checkctrl, wk, known, msg, piped, listed, ops>>

\* send_socket, for "D" and "P": dropped when the socket is gone, closing, not
\* started or listening.  The first message of a connected socket goes to the
\* high list whatever its priority, and epoll watches for writing.
SendSocket(c) ==
    /\ Cmd(c)
    /\ LET id == Head(pipe).id
           n == Head(pipe).n
           s == HashId(id)
           first == SendBufferEmpty(s) /\ sock[s].type = "CONNECTED" IN
       /\ raced' = raced \cup Stolen(id)
       /\ \/ /\ ~Valid(id) \/ sock[s].type \in {"HALFCLOSE", "PACCEPT", "PLISTEN", "LISTEN"}
             /\ UNCHANGED <<sock, listed>>
          \/ /\ Valid(id) /\ sock[s].type \notin {"HALFCLOSE", "PACCEPT", "PLISTEN", "LISTEN"}
             /\ sock' = IF c = "D" \/ first
                        THEN [sock EXCEPT ![s].high = @ \o Units(n), ![s].wr = @ \/ first]
                        ELSE [sock EXCEPT ![s].low = @ \o Units(n)]
             /\ listed' = listed \cup {n}
    /\ UNCHANGED <<poll, wire, aborted>>

-----------------------------------------------------------------------------
(* Writing and closing                                                     *)

\* send_buffer_, after the writes of send_list took k units in all.  The low
\* list is written once the high list is empty; a low message that is written
\* in part moves to the high list; when both are empty epoll need not watch
\* for writing, and a half closed socket closes.  The function asserts that
\* both lists are empty although a write may stop between two low messages.
\* After whole messages the writes may also go on, to fail at the next one.
SendBuffer_(k) ==
    LET s == poll.slot
        high == sock[s].high
        low == sock[s].low
        rest == SubSeq(low, k - Len(high) + 1, Len(low))
        torn == rest # <<>> /\ Head(rest)[2] = 2
        done == [sock EXCEPT ![s].lock = Nobody, ![s].high = <<>>, ![s].low = <<>>, ![s].wr = FALSE]
        id == sock[s].id
    IN
    /\ \/ k = 0 /\ UNCHANGED wire
       \/ /\ k > 0 /\ sock[s].type # "RESERVE"      \* which has no descriptor
          /\ wire' = [wire EXCEPT ![sock[s].fd] = @ \o SubSeq(high \o low, 1, k)]
    /\ UNCHANGED raced
    /\ \/ /\ k < Len(high)
          /\ \/ /\ sock' = [sock EXCEPT ![s].lock = Nobody, ![s].high = SubSeq(high, k + 1, Len(high))]
                /\ poll' = poll.then
             \/ /\ high[k + 1][2] = 1
                /\ sock' = [sock EXCEPT ![s].high = SubSeq(high, k + 1, Len(high))]
                /\ poll' = poll
          /\ UNCHANGED aborted
       \/ /\ k >= Len(high) /\ torn
          /\ sock' = [sock EXCEPT ![s].lock = Nobody, ![s].high = <<Head(rest)>>,
                                  ![s].low = Tail(rest)]
          /\ poll' = poll.then
          /\ UNCHANGED aborted
       \/ /\ k >= Len(high) /\ rest # <<>> /\ ~torn
          /\ aborted' \in {aborted, {[in |-> "send_buffer_", slot |-> s]}}
          /\ sock' = [sock EXCEPT ![s].high = <<>>, ![s].low = rest]
          /\ UNCHANGED poll
       \/ /\ k >= Len(high) /\ rest = <<>>
          /\ IF sock[s].type = "HALFCLOSE"
             THEN /\ sock' = [sock EXCEPT ![s] = Closed(s)]
                  /\ poll' = IF poll.then = Top THEN Top ELSE Clear(id)
             ELSE /\ sock' = done
                  /\ poll' = poll.then
          /\ UNCHANGED aborted

\* ... a write fails: force_close under the lock that send_buffer holds
SendFails ==
    LET s == poll.slot IN
    /\ ~SendBufferEmpty(s)
    /\ \/ sock[s].type = "RESERVE" /\ Abort("force_close", s)
       \/ /\ sock[s].type # "RESERVE"
          /\ sock' = [sock EXCEPT ![s] = Closed(s)]
          /\ poll' = IF poll.then = Top THEN Top ELSE Clear(sock[s].id)
          /\ UNCHANGED <<wire, aborted, raced>>

PollSend ==
    /\ poll.pc = "send"
    /\ LET s == poll.slot IN
       (\E k \in 0..Len(sock[s].high \o sock[s].low) : SendBuffer_(k)) \/ SendFails
    /\ UNCHANGED <<alloc, pipe, ev, checkctrl, wk, known, msg, piped, listed, ops>>

\* force_close from its lock on
CloseEnd ==
    /\ poll.pc = "close"
    /\ sock[poll.slot].lock = Nobody
    /\ sock' = [sock EXCEPT ![poll.slot] = Closed(poll.slot)]
    /\ poll' = IF poll.ctrl THEN Clear(sock[poll.slot].id) ELSE Top
    /\ UNCHANGED <<alloc, pipe, ev, checkctrl, wk, known, msg, wire, aborted, piped, listed, raced,
                   ops>>

\* mutant: the events that are already read stay
ClearNothing ==
    /\ poll.pc = "clear"
    /\ poll' = Top
    /\ UNCHANGED <<sock, alloc, pipe, ev, checkctrl, wk, known, msg, wire, aborted, piped, listed,
                   raced, ops>>

\* clear_closed_event: the event of the closed socket that is already read, of
\* which a batch has one at most
ClearClosedEvent ==
    /\ poll.pc = "clear"
    /\ LET closed == sock[poll.slot].type = "INVALID" /\ sock[poll.slot].id = poll.id
           stale == {i \in DOMAIN ev : closed /\ ev[i].slot = poll.slot} IN
       \/ stale = {} /\ UNCHANGED ev
       \/ \E i \in stale : ev' = RemoveAt(ev, i)
    /\ poll' = Top
    /\ UNCHANGED <<sock, alloc, pipe, checkctrl, wk, known, msg, wire, aborted, piped, listed, raced,
                   ops>>

-----------------------------------------------------------------------------
(* Events                                                                  *)

\* What epoll may say of slot s: readable (or hung up), writable, both, or an
\* error alone; a listening socket is readable.
Event(s) == {[slot |-> s, id |-> sock[s].id, r |-> r, w |-> w] :
                r \in {TRUE, sock[s].type = "LISTEN"}, w \in {FALSE, sock[s].wr}}

\* sp_wait: a batch of events of watched sockets, in any order.  It is interrupted,
\* or the first event is the pipe's: back to the top; else the first is handled
\* before the pipe is looked at.
PollWait ==
    /\ poll.pc = "top"
    /\ ev = <<>> /\ (checkctrl => pipe = <<>>)
    /\ \E S \in SUBSET {s \in Slot : sock[s].add} :
       \E order \in SetToSeqs(S) :
       \E e \in [1..Len(order) -> UNION {Event(s) : s \in S}] :
          /\ \A i \in DOMAIN order : e[i].slot = order[i]
          /\ ev' = e
    /\ checkctrl' = TRUE
    /\ \/ (ev' = <<>> \/ pipe # <<>>) /\ poll' = Top
       \/ ev' # <<>> /\ poll' = [pc |-> "event"]
    /\ UNCHANGED <<sock, alloc, pipe, wk, known, msg, wire, aborted, piped, listed, raced, ops>>

\* The next event: straight after sp_wait, or when no request is to be read.
TakeEvent(types) ==
    /\ \/ poll.pc = "event" /\ UNCHANGED checkctrl
       \/ /\ poll.pc = "top" /\ (checkctrl => pipe = <<>>)
          /\ checkctrl' = FALSE
    /\ ev # <<>> /\ sock[Head(ev).slot].type \in types
    /\ UNCHANGED <<pipe, wk, msg, piped, listed, ops>>

\* report_connect: an error, or connected; then ReportConnectDone
ReportConnect ==
    /\ TakeEvent({"CONNECTING"})
    /\ ev' = Tail(ev)
    /\ LET s == Head(ev).slot IN
       \/ ForceClose(s, "err", FALSE)
       \/ /\ sock' = [sock EXCEPT ![s].type = "CONNECTED"]
          /\ poll' = [pc |-> "conn", slot |-> s]
          /\ UNCHANGED <<wire, aborted, raced>>
    /\ UNCHANGED <<alloc, known>>

\* ... with nothing listed epoll need not watch for writing; dw_buffer, which a
\* worker may have set since the type is CONNECTED, is not looked at
ReportConnectDone ==
    /\ poll.pc = "conn"
    /\ LET s == poll.slot IN
       /\ sock' = [sock EXCEPT ![s].wr = @ /\ ~SendBufferEmpty(s)]
       /\ raced' = IF SendBufferEmpty(s) /\ sock[s].dw # <<>> THEN raced \cup {sock[s].id} ELSE raced
    /\ poll' = Top
    /\ UNCHANGED <<alloc, pipe, ev, checkctrl, wk, known, msg, wire, aborted, piped, listed, ops>>

\* report_accept: a new id, unless accept fails or no slot is free
ReportAccept ==
    /\ TakeEvent({"LISTEN"})
    /\ ev' = Tail(ev)
    /\ poll' = Top
    /\ \/ UNCHANGED <<sock, alloc, known, wire, aborted, raced>>
       \/ /\ FreeIds # {}
          /\ alloc' = NextId
          /\ NewFd(HashId(NextId), NextId, "PACCEPT", FALSE)
          /\ known' = known \cup {NextId}

\* an event of a slot that is free by now
InvalidSocket ==
    /\ TakeEvent({"INVALID"})
    /\ ev' = Tail(ev)
    /\ poll' = Top
    /\ UNCHANGED <<sock, alloc, known, wire, aborted, raced>>

Open == {"RESERVE", "PLISTEN", "CONNECTED", "HALFCLOSE", "PACCEPT"}

\* forward_message_tcp: something is received (or nothing yet), or the peer has
\* closed, or there is an error.  An event that is also writable is kept for
\* that.  A slot that is only reserved has no descriptor to read from.
ForwardMessage ==
    /\ TakeEvent(Open)
    /\ Head(ev).r
    /\ \/ /\ sock[Head(ev).slot].type # "RESERVE"
          /\ ev' = IF Head(ev).w THEN [ev EXCEPT ![1].r = FALSE] ELSE Tail(ev)
          /\ poll' = Top
          /\ UNCHANGED <<sock, wire, aborted, raced>>
       \/ /\ ForceClose(Head(ev).slot, "err", FALSE)
          /\ ev' = Tail(ev)
    /\ UNCHANGED <<alloc, known>>

\* a writable socket: send_buffer
WriteEvent ==
    /\ TakeEvent(Open)
    /\ ~Head(ev).r /\ Head(ev).w
    /\ ev' = Tail(ev)
    /\ SendBuffer(Head(ev).slot, Top, Top)
    /\ UNCHANGED <<alloc, known, raced>>

\* an error and nothing else
ErrorEvent ==
    /\ TakeEvent(Open)
    /\ ~Head(ev).r /\ ~Head(ev).w
    /\ ev' = Tail(ev)
    /\ ForceClose(Head(ev).slot, "err", FALSE)
    /\ UNCHANGED <<alloc, known>>

-----------------------------------------------------------------------------
WorkerStep(w) ==
    SendRequest(w) \/ TryLock(w) \/ DirectWrite(w) \/ StoreRest(w) \/ PostData(w)

PollStep ==
    \/ OpenSocket \/ OpenFailed \/ ListenSocket \/ StartSocket \/ CloseSocket("K") \/ CloseSocket("H")
    \/ SendSocket("D") \/ SendSocket("P")
    \/ CloseDecide \/ PollSend \/ CloseEnd \/ ClearClosedEvent
    \/ PollWait \/ ReportConnect \/ ReportConnectDone \/ ReportAccept \/ InvalidSocket
    \/ ForwardMessage \/ WriteEvent \/ ErrorEvent

Next ==
    /\ aborted = {}
    /\ \/ PollStep
       \/ \E w \in Worker : WorkerStep(w)
       \/ \E w \in Opener : \/ Reserve(w, "O") \/ Reserve(w, "L")
                            \/ \E c \in {"K", "H", "S"}, id \in known : Request(w, c, id)
       \/ \E w \in Sender, id \in known \ {1} : SendStart(w, id) \/ SendLow(w, id)

Spec == Init /\ [][Next]_sockvars

-----------------------------------------------------------------------------
(* Properties                                                              *)

\* No socket of slot s was born in, or hit by, one of the races.  (What a race
\* leaves behind, such as a worker with a lock that is initialised again, may
\* hit a later socket of the slot.)
Calm(s) == \A id \in raced : HashId(id) # s

Rest(w) == IF wk[w].pc = "store" THEN wk[w].rest ELSE <<>>

\* What is still to be written to the socket in slot s, in the order in which
\* it will be: what a worker is about to store, dw_buffer and the lists.
Pending(s) ==
    LET storing == {w \in Sender : Rest(w) # <<>> /\ HashId(msg[wk[w].n].to) = s}
        rest == IF storing = {} THEN <<>> ELSE Rest(CHOOSE w \in storing : TRUE)
    IN rest \o sock[s].dw \o sock[s].high \o sock[s].low

\* The sockets that carry data, up to the moment force_close frees their lists.
Carrying == {s \in Slot : /\ sock[s].type \in {"CONNECTED", "HALFCLOSE"}
                          /\ Calm(s)
                          /\ ~(poll.pc = "close" /\ poll.slot = s)}

\* A connection carries whole messages: behind the first half of a message
\* comes its second half, in what is written and on from there in what is
\* pending, although workers write directly and the lists are filled without
\* the lock.
WholeMessages ==
    \A s \in Carrying :
        LET stream == wire[sock[s].fd] \o Pending(s) IN
        /\ IsInjective(stream)
        /\ \A i \in DOMAIN stream :
              \/ stream[i][2] = 1 /\ i < Len(stream) /\ stream[i + 1] = <<stream[i][1], 2>>
              \/ stream[i][2] = 2 /\ i > 1 /\ stream[i - 1] = <<stream[i][1], 1>>

\* Nothing is ever written to a connection that was sent to another id, not
\* even when the slot was closed and used again while the message was under way,
\* as long as no race hits the slot.
OwnConnection ==
    \A id \in 1..MaxId : Calm(HashId(id)) =>
        \A i \in DOMAIN wire[id] : msg[wire[id][i][1]].to = id

\* Messages of one thread to one socket are written in the order of sending,
\* except that a message written directly may overtake one that is still in the
\* pipe, and any message one of low priority.
SenderOrder ==
    \A id \in 1..MaxId : \A i, j \in DOMAIN wire[id] :
        LET late == wire[id][i][1]
            early == wire[id][j][1]
        IN (i < j /\ early < late /\ msg[early].by = msg[late].by)
              => early \in piped /\ (late \notin piped \/ msg[early].low)

\* An event that was read before its socket was closed never meets the next
\* socket of the slot, as long as no race hits the slot.
EventsAreFresh ==
    \A i \in DOMAIN ev :
        Calm(ev[i].slot) => sock[ev[i].slot].type = "INVALID" \/ sock[ev[i].slot].id = ev[i].id

\* While something is to be written and nobody is at it, epoll watches for
\* writing, so that the rest of a message is not forgotten.
WritesAreWatched ==
    \A s \in Carrying :
        (Pending(s) # <<>> /\ sock[s].lock = Nobody /\ poll.pc # "conn") => sock[s].wr

\* The assertions of force_close and new_fd fail only in a slot that one of the
\* races has hit: it was reserved before open_socket or force_close was done
\* with its last socket (Reserve), a request met it while a worker that had
\* reserved it had not yet stored its id (Stolen), its lock was initialised
\* while a worker held it (NewFd), or report_connect forgot what a worker had
\* left in dw_buffer (ReportConnectDone).  In any other slot no order of
\* requests, stale events and stale ids gets there.
AbortsAreExplained ==
    \A a \in aborted : a.in \in {"force_close", "new_fd"} => ~Calm(a.slot)

\* The step ends the socket in slot s for a close request, not for an error:
\* at once, or when the last unit of a half closed socket is written.
ClosesGracefully(s) ==
    /\ sock[s].type # "INVALID" /\ sock'[s].type = "INVALID"
    /\ \/ poll.pc = "close" /\ poll.slot = s /\ poll.why = "K"
       \/ poll.pc = "send" /\ poll.slot = s /\ wire' # wire

\* A connection that a service closes without shutting it down, and that does
\* not fail, has first carried every message that send_socket had put into its
\* lists.  (What a direct write left in dw_buffer is not waited for.)
CloseFlushes ==
    [][\A s \in Slot : Calm(s) /\ ClosesGracefully(s) =>
          \A n \in listed : msg[n].to = sock[s].id =>
              Range(Units(n)) \subseteq Range(wire'[sock[s].fd])]_sockvars
=============================================================================
