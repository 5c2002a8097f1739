----------------------------- MODULE SkynetLua -----------------------------
(***************************************************************************)
(* The scheduler of one Lua service, lualib/skynet.lua: a coroutine serves *)
(* each request, waits in calls and sleeps, and is resumed by the response *)
(* to its session, by skynet.wakeup or by an error.  Between two messages  *)
(* the service is idle; a message runs coroutines, one at a time, until    *)
(* wakeup_queue, error_queue and fork_queue have had their turn.           *)
(*                                                                         *)
(* What handlers do is left open: at every point the running coroutine     *)
(* takes any operation the library offers.  Peers answer calls as services *)
(* with this same library can: late, by errors, and more than once.        *)
(***************************************************************************)
EXTENDS Integers, FiniteSets, Sequences, SequencesExt

CONSTANTS
    Co,         \* coroutine objects
    Peer,       \* the other services
    None,       \* nil
    Break,      \* the value "BREAK" of session_id_coroutine
    MaxReq,     \* bound: requests
    MaxSession, \* bound: sessions of calls, sleeps and timeouts
    MaxOps      \* bound: messages and operations of coroutines

ASSUME LuaAssumption ==
    /\ IsFiniteSet(Co) /\ IsFiniteSet(Peer)
    /\ None \notin Co \cup Peer \cup {Break} /\ Break \notin Co
    /\ MaxReq \in Nat /\ MaxSession \in Nat /\ MaxOps \in Nat

Req == 1..MaxReq
Session == 1..MaxSession

VARIABLES
    \* the tables of skynet.lua
    sid,        \* session_id_coroutine[session]
    sleeping,   \* sleep_session[co], 0 for nil
    serves,     \* serves[co]: the request in session_coroutine_id and _address
    responded,  \* session_response: the coroutines that answered
    closure,    \* closure[r]: the function skynet.response made ("none", "open", "false", "used")
    watching,   \* watching_session[session]: the service called
    refs,       \* watching_service[peer], 0 for nil
    dead,       \* dead_service
    wakeq,      \* wakeup_queue
    errq,       \* error_queue
    forks,      \* fork_queue
    \* the machine
    co,         \* the running coroutine
    state,      \* state[c]: "free" (new or in coroutine_pool), "ready" (not started), "empty"
                \* (remove_timeout_cb), "run", "call", "sleep", "wait", "over" (dead or lost)
    phase,      \* "idle", "run", "wake" and "errs" (the end of suspend), "forks"
    owed,       \* suspend frames whose dispatch_error_queue is still to come
    \* the world
    source,     \* source[r]: who sent request r
    wants,      \* wants[r]: request r is a call (session # 0)
    sent,       \* sent[r]: the answers to request r
    due,        \* sessions of timers that have not fired
    asked,      \* sessions of calls whose callee has not sent a response
    session,    \* sessions used
    exited,     \* skynet.exit was called
    ops,        \* messages and operations so far
    cut,        \* history: queues were left unfinished and have not been empty since
    forgot,     \* history: requests whose handler ended without an answer
    broken,     \* history: requests whose handler failed with its closure open
    retested    \* history, retested[peer]: "TEST"s of closures that were closed already

tables == <<sid, sleeping, serves, responded, closure, watching, refs, dead, forks>>
queues == <<wakeq, errq>>
machine == <<co, state, phase, owed>>
world == <<source, wants, sent, due, asked, session, exited>>
ghosts == <<forgot, broken, retested>>
luavars == <<tables, queues, machine, world, ops, cut, ghosts>>

Init ==
    /\ sid = [s \in Session |-> None]
    /\ sleeping = [c \in Co |-> 0]
    /\ serves = [c \in Co |-> 0]
    /\ responded = {}
    /\ closure = [r \in Req |-> "none"]
    /\ watching = [s \in Session |-> None]
    /\ refs = [p \in Peer |-> 0]
    /\ dead = {}
    /\ wakeq = <<>> /\ errq = <<>> /\ forks = {}
    /\ co = None
    /\ state = [c \in Co |-> "free"]
    /\ phase = "idle"
    /\ owed = 0
    /\ source = <<>> /\ wants = <<>>
    /\ sent = [r \in Req |-> <<>>]
    /\ due = {} /\ asked = {} /\ session = 0
    /\ exited = FALSE
    /\ ops = 0
    /\ cut = FALSE
    /\ forgot = {} /\ broken = {} /\ retested = [p \in Peer |-> 0]

Free == {c \in Co : state[c] = "free"}

Op == ops < MaxOps /\ ops' = ops + 1

\* an operation of the running coroutine
Running == phase = "run" /\ Op

\* a message arrives, after the last one was dealt with
Message == phase = "idle" /\ ~exited /\ Op

\* c.send back to the source of request r
Answer(r, kind) == sent' = [sent EXCEPT ![r] = Append(@, kind)]

\* the next session of the service
NewSession == session < MaxSession /\ session' = session + 1

release_watching(p) == refs' = [refs EXCEPT ![p] = IF @ > 0 THEN @ - 1 ELSE 0]

-----------------------------------------------------------------------------
(* Control: resume, the end of suspend, error                              *)

\* coroutine_resume of c, which leaves its call, sleep or wait: what these do
\* first when they go on.  known is session_id_coroutine as the caller left it.
Resume(c, known) ==
    /\ co' = c
    /\ state' = [state EXCEPT ![c] = "run"]
    /\ phase' = "run"
    /\ sleeping' = [sleeping EXCEPT ![c] = 0]
    /\ sid' = IF state[c] = "wait" THEN [known EXCEPT ![sleeping[c]] = None] ELSE known
    /\ watching' = [s \in Session |-> IF state[c] = "call" /\ sid[s] = c THEN None ELSE watching[s]]

\* the coroutine yields or ends as s, and suspend goes on to its last two lines
Suspend(s) ==
    /\ state' = [state EXCEPT ![co] = s]
    /\ co' = None
    /\ phase' = "wake"

\* an error leaves suspend; dispatch_message catches it and runs the forks.
\* What is still queued stays.
Throw ==
    /\ co' = None
    /\ phase' = "forks"
    /\ owed' = 0
    /\ cut' = (cut \/ wakeq # <<>> \/ errq # <<>>)

Drained(w, e) == cut' = (cut /\ (w # <<>> \/ e # <<>>))

\* mutant: the session of a broken sleep is forgotten
dispatch_wakeup_nil ==
    /\ phase = "wake" /\ wakeq # <<>> /\ sleeping[Head(wakeq)] # 0
    /\ Resume(Head(wakeq), [sid EXCEPT ![sleeping[Head(wakeq)]] = None])
    /\ wakeq' = Tail(wakeq)
    /\ owed' = owed + 1
    /\ Drained(wakeq', errq)
    /\ UNCHANGED <<serves, responded, closure, refs, dead, forks, errq, world, ops, ghosts>>

\* dispatch_wakeup resumes the first sleeper
dispatch_wakeup ==
    /\ phase = "wake" /\ wakeq # <<>> /\ sleeping[Head(wakeq)] # 0
    /\ Resume(Head(wakeq), [sid EXCEPT ![sleeping[Head(wakeq)]] = Break])
    /\ wakeq' = Tail(wakeq)
    /\ owed' = owed + 1
    /\ Drained(wakeq', errq)
    /\ UNCHANGED <<serves, responded, closure, refs, dead, forks, errq, world, ops, ghosts>>

\* ... unless it sleeps no more (it was woken twice): then the others wait
\* for the next message.
WakeupStale ==
    /\ phase = "wake" /\ wakeq # <<>> /\ sleeping[Head(wakeq)] = 0
    /\ wakeq' = Tail(wakeq)
    /\ phase' = "errs"
    /\ cut' = (wakeq' # <<>> \/ (cut /\ errq # <<>>))
    /\ UNCHANGED <<tables, errq, co, state, owed, world, ops, ghosts>>

WakeupNone ==
    /\ phase = "wake" /\ wakeq = <<>>
    /\ phase' = "errs"
    /\ UNCHANGED <<tables, queues, co, state, owed, world, ops, cut, ghosts>>

\* dispatch_error_queue fails the first call ...
dispatch_error_queue ==
    /\ phase = "errs" /\ errq # <<>> /\ sid[Head(errq)] # None
    /\ Resume(sid[Head(errq)], [sid EXCEPT ![Head(errq)] = None])
    /\ errq' = Tail(errq)
    /\ Drained(wakeq, errq')
    /\ UNCHANGED <<serves, responded, closure, refs, dead, forks, wakeq, owed, world, ops, ghosts>>

\* ... or throws, because the call was answered meanwhile and there is no
\* coroutine to resume.
ErrorUnknown ==
    /\ phase = "errs" /\ errq # <<>> /\ sid[Head(errq)] = None
    /\ errq' = Tail(errq)
    /\ co' = None /\ phase' = "forks" /\ owed' = 0
    /\ Drained(wakeq, errq')
    /\ UNCHANGED <<tables, wakeq, state, world, ops, ghosts>>

\* all suspend frames return
ErrorNone ==
    /\ phase = "errs" /\ errq = <<>>
    /\ phase' = "forks"
    /\ owed' = 0
    /\ UNCHANGED <<tables, queues, co, state, world, ops, cut, ghosts>>

\* the loop of dispatch_message over fork_queue, each in its own pcall
RunFork(c) ==
    /\ phase = "forks"
    /\ c \in forks
    /\ forks' = forks \ {c}
    /\ Resume(c, sid)
    /\ UNCHANGED <<serves, responded, closure, refs, dead, queues, owed, world, ops, cut, ghosts>>

MessageDone ==
    /\ phase = "forks"
    /\ forks = {}
    /\ phase' = "idle"
    /\ UNCHANGED <<tables, queues, co, state, owed, world, ops, cut, ghosts>>

-----------------------------------------------------------------------------
(* raw_dispatch_message                                                    *)

\* A request of p for a protocol with a dispatch function: a coroutine starts.
Request(p, call, c) ==
    /\ Message
    /\ Len(source) < MaxReq
    /\ c \in Free
    /\ source' = Append(source, p)
    /\ wants' = Append(wants, call)
    /\ serves' = [serves EXCEPT ![c] = Len(source')]
    /\ refs' = [refs EXCEPT ![p] = @ + 1]
    /\ Resume(c, sid)
    /\ UNCHANGED <<responded, closure, dead, forks, queues, owed, sent, due, asked, session, exited, cut, ghosts>>

\* A response, of a timer or of a callee, to a session that waits for it
ResponseKnown(s) ==
    /\ Message
    /\ s \in due \cup asked
    /\ sid[s] \in Co /\ state[sid[s]] # "empty"
    /\ Resume(sid[s], [sid EXCEPT ![s] = None])
    /\ due' = due \ {s} /\ asked' = asked \ {s}
    /\ UNCHANGED <<serves, responded, closure, refs, dead, forks, queues, owed, source, wants, sent, session,
                   exited, cut, ghosts>>

\* ... to a timeout that remove_timeout replaced: remove_timeout_cb returns
ResponseRemoved(s) ==
    /\ Message
    /\ s \in due
    /\ sid[s] \in Co /\ state[sid[s]] = "empty"
    /\ sid' = [sid EXCEPT ![s] = None]
    /\ state' = [state EXCEPT ![sid[s]] = "free"]
    /\ phase' = "wake"
    /\ due' = due \ {s}
    /\ UNCHANGED <<sleeping, serves, responded, closure, watching, refs, dead, forks, queues, co, owed, source,
                   wants, sent, asked, session, exited, cut, ghosts>>

\* ... to a sleep that was broken, or to no known session (unknown_response
\* throws): no coroutine runs, and no queue is looked at
ResponseLate(s) ==
    /\ Message
    /\ s \in due \cup asked
    /\ sid[s] \in {Break, None}
    /\ sid' = [sid EXCEPT ![s] = None]
    /\ phase' = "forks"
    /\ due' = due \ {s} /\ asked' = asked \ {s}
    /\ UNCHANGED <<sleeping, serves, responded, closure, watching, refs, dead, forks, queues, co, state, owed,
                   source, wants, sent, session, exited, cut, ghosts>>

\* mutant: a call that was answered is failed too
ErrorMessageAny(s) ==
    /\ Message
    /\ s \in 1..session
    /\ errq' = Append(errq, s)
    /\ phase' = "wake"
    /\ UNCHANGED <<tables, wakeq, co, state, owed, world, cut, ghosts>>

\* An error message for session s: _error_dispatch, run by a coroutine that
\* ends at once
ErrorMessage(s) ==
    /\ Message
    /\ s \in 1..session
    /\ errq' = IF watching[s] # None THEN Append(errq, s) ELSE errq
    /\ phase' = "wake"
    /\ UNCHANGED <<tables, wakeq, co, state, owed, world, cut, ghosts>>

\* An error message without a session: p is down, which is noted if p is
\* watched, and every call to it fails, in the order of a table traversal
ServiceDown(p) ==
    /\ Message
    /\ dead' = IF refs[p] > 0 THEN dead \cup {p} ELSE dead
    /\ \E q \in SetToSeqs({s \in Session : watching[s] = p}) : errq' = errq \o q
    /\ phase' = "wake"
    /\ UNCHANGED <<sid, sleeping, serves, responded, closure, watching, refs, forks, wakeq, co, state, owed,
                   world, cut, ghosts>>

-----------------------------------------------------------------------------
(* What the running coroutine does: waiting                                *)

\* skynet.call
Call(p) ==
    /\ Running
    /\ NewSession
    /\ watching' = [watching EXCEPT ![session'] = p]
    /\ sid' = [sid EXCEPT ![session'] = co]
    /\ asked' = asked \cup {session'}
    /\ Suspend("call")
    /\ UNCHANGED <<sleeping, serves, responded, closure, refs, dead, forks, queues, owed, source, wants, sent,
                   due, exited, cut, ghosts>>

\* skynet.sleep, with a timer, and skynet.wait, without one
Sleep(how) ==
    /\ Running
    /\ NewSession
    /\ sid' = [sid EXCEPT ![session'] = co]
    /\ sleeping' = [sleeping EXCEPT ![co] = session']
    /\ due' = IF how = "sleep" THEN due \cup {session'} ELSE due
    /\ Suspend(how)
    /\ UNCHANGED <<serves, responded, closure, watching, refs, dead, forks, queues, owed, source, wants, sent,
                   asked, exited, cut, ghosts>>

\* skynet.wakeup
Wakeup(c) ==
    /\ Running
    /\ sleeping[c] # 0
    /\ wakeq' = Append(wakeq, c)
    /\ UNCHANGED <<tables, errq, machine, world, cut, ghosts>>

\* skynet.timeout
Timeout(c) ==
    /\ Running
    /\ NewSession
    /\ c \in Free
    /\ state' = [state EXCEPT ![c] = "ready"]
    /\ sid' = [sid EXCEPT ![session'] = c]
    /\ due' = due \cup {session'}
    /\ UNCHANGED <<sleeping, serves, responded, closure, watching, refs, dead, forks, queues, co, phase, owed,
                   source, wants, sent, asked, exited, cut, ghosts>>

\* skynet.remove_timeout, of a timeout that has not fired
remove_timeout(s, c) ==
    /\ Running
    /\ sid[s] \in Co /\ state[sid[s]] = "ready"
    /\ c \in Free
    /\ state' = [state EXCEPT ![c] = "empty", ![sid[s]] = "over"]
    /\ sid' = [sid EXCEPT ![s] = c]
    /\ UNCHANGED <<sleeping, serves, responded, closure, watching, refs, dead, forks, queues, co, phase, owed,
                   world, cut, ghosts>>

\* skynet.fork
Fork(c) ==
    /\ Running
    /\ c \in Free
    /\ state' = [state EXCEPT ![c] = "ready"]
    /\ forks' = forks \cup {c}
    /\ UNCHANGED <<sid, sleeping, serves, responded, closure, watching, refs, dead, queues, co, phase, owed,
                   world, cut, ghosts>>

-----------------------------------------------------------------------------
(* What the running coroutine does: answering and ending                   *)

\* skynet.ret to a call: a response, or an error when the package is too
\* large; nothing is sent to a service that is down.
Ret ==
    /\ Running
    /\ serves[co] # 0 /\ wants[serves[co]] /\ co \notin responded
    /\ responded' = responded \cup {co}
    /\ IF source[serves[co]] \in dead
       THEN UNCHANGED sent
       ELSE \E kind \in {"RESPONSE", "ERROR"} : Answer(serves[co], kind)
    /\ UNCHANGED <<sid, sleeping, serves, closure, watching, refs, dead, forks, queues, machine, source, wants,
                   due, asked, session, exited, cut, ghosts>>

\* skynet.ret to a send has no effect.  Answering twice, or where nothing was
\* asked, throws out of suspend: the coroutine is never resumed, and keeps
\* its request.
RetAgain ==
    /\ Running
    /\ serves[co] # 0 => wants[serves[co]] /\ co \in responded
    /\ state' = [state EXCEPT ![co] = "over"]
    /\ Throw
    /\ UNCHANGED <<tables, queues, world, ghosts>>

\* skynet.response
Response ==
    /\ Running
    /\ serves[co] # 0 /\ co \notin responded /\ refs[source[serves[co]]] # 0
    /\ responded' = responded \cup {co}
    /\ closure' = [closure EXCEPT ![serves[co]] = "open"]
    /\ refs' = [refs EXCEPT ![source[serves[co]]] = @ + 1]
    /\ UNCHANGED <<sid, sleeping, serves, watching, dead, forks, queues, machine, world, cut, ghosts>>

\* ... throws in the same way after an answer, also to a send, and where
\* there is no count of watching_service to add one to.
ResponseAgain ==
    /\ Running
    /\ serves[co] # 0 /\ co \notin responded => refs[source[serves[co]]] = 0
    /\ state' = [state EXCEPT ![co] = "over"]
    /\ Throw
    /\ UNCHANGED <<tables, queues, world, ghosts>>

\* mutant: the closure can be called again
RespondAgain(r, ok) ==
    /\ Running
    /\ closure[r] = "open"
    /\ release_watching(source[r])
    /\ IF wants[r] /\ source[r] \notin dead
       THEN \E kind \in {"ERROR"} \cup (IF ok THEN {"RESPONSE"} ELSE {}) : Answer(r, kind)
       ELSE UNCHANGED sent
    /\ UNCHANGED <<sid, sleeping, serves, responded, closure, watching, dead, forks, queues, machine, source,
                   wants, due, asked, session, exited, cut, ghosts>>

\* the closure of request r is called, with a result or without.  Called again
\* it throws (Fail), or does nothing if a "TEST" had found the caller dead.
Respond(r, ok) ==
    /\ Running
    /\ closure[r] = "open"
    /\ closure' = [closure EXCEPT ![r] = "used"]
    /\ release_watching(source[r])
    /\ IF wants[r] /\ source[r] \notin dead
       THEN \E kind \in {"ERROR"} \cup (IF ok THEN {"RESPONSE"} ELSE {}) : Answer(r, kind)
       ELSE UNCHANGED sent
    /\ UNCHANGED <<sid, sleeping, serves, responded, watching, dead, forks, queues, machine, source, wants, due,
                   asked, session, exited, cut, ghosts>>

\* ... with "TEST", and finds its caller dead.  It does not look whether it was
\* used or found so before: each such call releases the caller once more.
Test(r) ==
    /\ Running
    /\ closure[r] # "none" /\ source[r] \in dead
    /\ closure' = [closure EXCEPT ![r] = "false"]
    /\ release_watching(source[r])
    /\ retested' = IF closure[r] = "open" THEN retested ELSE [retested EXCEPT ![source[r]] = @ + 1]
    /\ UNCHANGED <<sid, sleeping, serves, responded, watching, dead, forks, queues, machine, world, cut, forgot,
                   broken>>

\* the function returns: EXIT
Finish ==
    /\ Running
    /\ serves' = [serves EXCEPT ![co] = 0]
    /\ responded' = responded \ {co}
    /\ IF serves[co] # 0 THEN release_watching(source[serves[co]]) ELSE UNCHANGED refs
    /\ forgot' = IF serves[co] # 0 /\ co \notin responded THEN forgot \cup {serves[co]} ELSE forgot
    /\ Suspend("free")
    /\ UNCHANGED <<sid, sleeping, closure, watching, dead, forks, queues, owed, world, cut, broken, retested>>

\* an error in the function (a failed call among others): the caller is told,
\* and the error leaves suspend.  release_watching is not called.
Fail ==
    /\ Running
    /\ serves' = [serves EXCEPT ![co] = 0]
    /\ IF serves[co] # 0 /\ wants[serves[co]] THEN Answer(serves[co], "ERROR") ELSE UNCHANGED sent
    /\ broken' = IF serves[co] # 0 /\ closure[serves[co]] = "open" THEN broken \cup {serves[co]} ELSE broken
    /\ state' = [state EXCEPT ![co] = "over"]
    /\ Throw
    /\ UNCHANGED <<sid, sleeping, responded, closure, watching, refs, dead, forks, queues, source, wants, due,
                   asked, session, exited, forgot, retested>>

\* the calls still open: those a coroutine serves, and those of closures
Served == {r \in 1..Len(source) : wants[r] /\ \E c \in Co : serves[c] = r}
Promised == {r \in 1..Len(source) : closure[r] = "open"}

\* mutant: the promised answers are not reported
ExitQuiet ==
    /\ Running
    /\ ~exited
    /\ exited' = TRUE
    /\ forks' = {}
    /\ sent' = [r \in Req |-> IF r \in Served THEN Append(sent[r], "ERROR") ELSE sent[r]]
    /\ closure' = [r \in Req |-> IF r \in Promised THEN "used" ELSE closure[r]]
    /\ state' = [state EXCEPT ![co] = "over"]
    /\ co' = None
    /\ phase' = IF owed > 0 THEN "errs" ELSE "forks"
    /\ owed' = IF owed > 0 THEN owed - 1 ELSE 0
    /\ UNCHANGED <<sid, sleeping, serves, responded, watching, refs, dead, queues, source, wants, due, asked,
                   session, cut, ghosts>>

\* skynet.exit reports an error to all callers and yields QUIT, at which
\* suspend returns.  Suspend frames below still dispatch the error queue.
Exit ==
    /\ Running
    /\ ~exited
    /\ exited' = TRUE
    /\ forks' = {}
    /\ sent' = [r \in Req |->
                  LET first == IF r \in Served THEN Append(sent[r], "ERROR") ELSE sent[r]
                  IN  IF r \in Promised /\ wants[r] /\ source[r] \notin dead
                      THEN Append(first, "ERROR") ELSE first]
    /\ closure' = [r \in Req |-> IF r \in Promised THEN "used" ELSE closure[r]]
    /\ refs' = [p \in Peer |-> LET n == Cardinality({r \in Promised : source[r] = p})
                               IN  IF refs[p] > n THEN refs[p] - n ELSE 0]
    /\ state' = [state EXCEPT ![co] = "over"]
    /\ co' = None
    /\ phase' = IF owed > 0 THEN "errs" ELSE "forks"
    /\ owed' = IF owed > 0 THEN owed - 1 ELSE 0
    /\ UNCHANGED <<sid, sleeping, serves, responded, watching, dead, queues, source, wants, due, asked, session,
                   cut, ghosts>>

-----------------------------------------------------------------------------
Incoming ==
    \/ \E p \in Peer, call \in BOOLEAN, c \in Co : Request(p, call, c)
    \/ \E s \in Session : ResponseKnown(s) \/ ResponseRemoved(s) \/ ResponseLate(s) \/ ErrorMessage(s)
    \/ \E p \in Peer : ServiceDown(p)

Operation ==
    \/ \E p \in Peer : Call(p)
    \/ \E how \in {"sleep", "wait"} : Sleep(how)
    \/ \E c \in Co : Wakeup(c) \/ Timeout(c) \/ Fork(c)
    \/ \E s \in Session, c \in Co : remove_timeout(s, c)
    \/ Ret \/ RetAgain \/ Response \/ ResponseAgain \/ Finish \/ Fail \/ Exit
    \/ \E r \in Req : Test(r) \/ \E ok \in BOOLEAN : Respond(r, ok)

Scheduler ==
    \/ dispatch_wakeup \/ WakeupStale \/ WakeupNone
    \/ dispatch_error_queue \/ ErrorUnknown \/ ErrorNone
    \/ MessageDone \/ \E c \in Co : RunFork(c)

Next == Incoming \/ Operation \/ Scheduler

Spec == Init /\ [][Next]_luavars

-----------------------------------------------------------------------------
(* Properties                                                              *)

TypeOK ==
    /\ sid \in [Session -> Co \cup {None, Break}]
    /\ sleeping \in [Co -> 0..MaxSession]
    /\ serves \in [Co -> 0..MaxReq]
    /\ responded \subseteq Co /\ forks \subseteq Co
    /\ closure \in [Req -> {"none", "open", "false", "used"}]
    /\ watching \in [Session -> Peer \cup {None}]
    /\ refs \in [Peer -> Nat]
    /\ dead \subseteq Peer
    /\ wakeq \in Seq(Co) /\ errq \in Seq(Session)
    /\ co \in Co \cup {None}
    /\ state \in [Co -> {"free", "ready", "empty", "run", "call", "sleep", "wait", "over"}]
    /\ phase \in {"idle", "run", "wake", "errs", "forks"}
    /\ owed \in Nat /\ ops \in 0..MaxOps /\ session \in 0..MaxSession
    /\ source \in Seq(Peer) /\ wants \in Seq(BOOLEAN) /\ Len(source) = Len(wants)
    /\ sent \in [Req -> Seq({"RESPONSE", "ERROR"})]
    /\ due \subseteq Session /\ asked \subseteq Session
    /\ exited \in BOOLEAN /\ cut \in BOOLEAN
    /\ forgot \subseteq Req /\ broken \subseteq Req /\ retested \in [Peer -> Nat]

Calls == {r \in 1..Len(source) : wants[r]}

\* No call is left without an answer: one that nobody serves or has promised
\* to answer any more was answered, unless its caller is down or the handler
\* returned without answering (which nothing in the library notices).  After
\* skynet.exit this holds of the calls whose handlers were still waiting too.
EveryCallAnswered ==
    \A r \in Calls :
        \/ sent[r] # <<>>
        \/ source[r] \in dead
        \/ r \in forgot
        \/ ~exited /\ (r \in Served \/ r \in Promised)

\* A call gets at most one response; an error may follow it (a handler that
\* fails after skynet.ret), but no response follows an error, unless the
\* handler failed with its promise open or went on after skynet.exit.
OneResponse ==
    \A r \in Calls : \A i, j \in 1..Len(sent[r]) :
        i < j /\ sent[r][j] = "RESPONSE" => sent[r][i] = "ERROR" /\ (r \in broken \/ exited)

\* A coroutine that waits is known under exactly one session, the one whose
\* response is still to come, and one that does not wait is known under none:
\* no answer, timer or wakeup resumes a coroutine that waits for another.
\* A timer that fires always finds its session (a broken sleep leaves "BREAK").
WaitersKnown ==
    /\ \A c \in Co :
        LET known == {s \in Session : sid[s] = c}
        IN  CASE state[c] = "sleep" -> known = {sleeping[c]} /\ known \subseteq due
              [] state[c] = "wait" -> known = {sleeping[c]}
              [] state[c] = "call" -> \E s \in Session : known = {s} /\ watching[s] # None
              [] state[c] = "empty" -> \E s \in due : known = {s}
              [] state[c] = "ready" -> c \in forks \/ exited \/ \E s \in due : known = {s}
              [] OTHER -> known = {} /\ sleeping[c] = 0
    /\ \A s \in due : sid[s] # None

\* When a message is dealt with, no wakeup and no failed call waits for the
\* next one, unless an error left suspend or a coroutine was woken twice; and
\* every failed call in the queue still waits for its answer.
QueuesDone ==
    cut \/ exited \/
        /\ phase = "idle" => wakeq = <<>> /\ errq = <<>>
        /\ \A i, j \in 1..Len(errq) : watching[errq[i]] # None /\ (i # j => errq[i] # errq[j])

\* watching_service covers the handlers and the promises of a caller, so that
\* skynet.response finds a count to add to and a caller's death is noticed.
\* Only a "TEST" of a closure that was closed already takes away from it what
\* it does not own, one for each such call.
CallersWatched ==
    \A p \in Peer :
        refs[p] + retested[p] >= Cardinality({c \in Co : serves[c] # 0 /\ source[serves[c]] = p})
                                   + Cardinality({r \in Promised : source[r] = p})
=============================================================================
