---------------------------- MODULE SkynetStart ----------------------------
(***************************************************************************)
(* How the threads of a node sleep, wake each other and stop:              *)
(* skynet-src/skynet_start.c.  What a worker dispatches is abstracted to   *)
(* the number of queues in the global queue (module SkynetServer says what *)
(* happens to them).                                                       *)
(*                                                                         *)
(* m->sleep and m->quit are written under m->mutex and read without it by  *)
(* wakeup and by the loop of thread_worker.                                *)
(***************************************************************************)
EXTENDS Integers, FiniteSets

CONSTANTS
    Count,      \* m->count: the threads running thread_worker
    None,       \* nobody
    MaxEvents   \* bound: sends, socket events and spurious wakeups

ASSUME StartAssumption ==
    /\ Count \in Nat \ {0}
    /\ None \notin 1..Count
    /\ MaxEvents \in Nat

Worker == 1..Count

VARIABLES
    work,       \* queues in the global queue
    alive,      \* skynet_context_total() # 0
    quit,       \* m->quit
    sleep,      \* m->sleep
    mutex,      \* the worker that holds m->mutex
    wpc,        \* wpc[w]: where worker w is; "wait" is pthread_cond_wait
    tpc,        \* where the timer thread is
    spc,        \* where the socket thread is
    mpc,        \* where the monitor thread is
    socketExit, \* skynet_socket_exit was called
    events,     \* events so far
    moved,      \* moved[w]: sm->version # sm->check_version, for worker w
    target,     \* target[w]: sm->destination # 0
    checking,   \* the worker whose skynet_monitor the monitor thread checks
    endless     \* the workers whose service was marked by skynet_context_endless

watchvars == <<moved, target, checking, endless>>
startvars == <<work, alive, quit, sleep, mutex, wpc, tpc, spc, mpc, socketExit, events, watchvars>>

Init ==
    /\ work = 1                 \* the bootstrap service
    /\ alive = TRUE
    /\ quit = FALSE
    /\ sleep = 0
    /\ mutex = None
    /\ wpc = [w \in Worker |-> "loop"]
    /\ tpc = "update"
    /\ spc = "poll"
    /\ mpc = "run"
    /\ socketExit = FALSE
    /\ events = 0
    /\ moved = [w \in Worker |-> FALSE]
    /\ target = [w \in Worker |-> FALSE]
    /\ checking = 1
    /\ endless = {}

Waiting == {w \in Worker : wpc[w] = "wait"}

Goto(w, l) == wpc' = [wpc EXCEPT ![w] = l]

Event == events < MaxEvents /\ events' = events + 1

\* pthread_cond_signal: one of the waiting workers, if there is one
Signal ==
    \/ Waiting = {} /\ UNCHANGED wpc
    \/ \E w \in Waiting : Goto(w, "relock")

-----------------------------------------------------------------------------
(* thread_worker                                                           *)

\* while (!m->quit)
CheckQuit(w) ==
    /\ wpc[w] = "loop"
    /\ Goto(w, IF quit THEN "stopped" ELSE "dispatch")
    /\ UNCHANGED <<work, alive, quit, sleep, mutex, tpc, spc, mpc, socketExit, events, watchvars>>

\* skynet_context_message_dispatch finds a queue, or returns NULL; before the
\* callback skynet_monitor_trigger writes sm->destination ...
Dispatch(w) ==
    /\ wpc[w] = "dispatch"
    /\ \/ /\ work > 0
          /\ work' = work - 1
          /\ target' = [target EXCEPT ![w] = TRUE]
          /\ Goto(w, "enter")
       \/ /\ work = 0
          /\ Goto(w, "lock")
          /\ UNCHANGED <<work, target>>
    /\ UNCHANGED <<alive, quit, sleep, mutex, tpc, spc, mpc, socketExit, events, moved, checking, endless>>

\* ... and adds one to sm->version
Enter(w) ==
    /\ wpc[w] = "enter"
    /\ moved' = [moved EXCEPT ![w] = TRUE]
    /\ Goto(w, "busy")
    /\ UNCHANGED <<work, alive, quit, sleep, mutex, tpc, spc, mpc, socketExit, events, target, checking,
                   endless>>

\* what a callback may do: send, end the last service, or never return
BusySend(w) ==
    /\ wpc[w] = "busy"
    /\ Event
    /\ work' = work + 1
    /\ UNCHANGED <<alive, quit, sleep, mutex, wpc, tpc, spc, mpc, socketExit, watchvars>>

BusyExit(w) ==
    /\ wpc[w] = "busy"
    /\ alive
    /\ alive' = FALSE
    /\ UNCHANGED <<work, quit, sleep, mutex, wpc, tpc, spc, mpc, socketExit, events, watchvars>>

BusyLoop(w) ==
    /\ wpc[w] = "busy"
    /\ Goto(w, "stuck")
    /\ UNCHANGED <<work, alive, quit, sleep, mutex, tpc, spc, mpc, socketExit, events, watchvars>>

\* the callback returns: skynet_monitor_trigger(sm, 0, 0), in two writes
BusyDone(w) ==
    /\ wpc[w] = "busy"
    /\ target' = [target EXCEPT ![w] = FALSE]
    /\ Goto(w, "leave")
    /\ UNCHANGED <<work, alive, quit, sleep, mutex, tpc, spc, mpc, socketExit, events, moved, checking,
                   endless>>

Leave(w) ==
    /\ wpc[w] = "leave"
    /\ moved' = [moved EXCEPT ![w] = TRUE]
    /\ Goto(w, "loop")
    /\ UNCHANGED <<work, alive, quit, sleep, mutex, tpc, spc, mpc, socketExit, events, target, checking,
                   endless>>

\* pthread_mutex_lock and ++ m->sleep
Lock(w) ==
    /\ wpc[w] = "lock"
    /\ mutex = None
    /\ mutex' = w
    /\ sleep' = sleep + 1
    /\ Goto(w, "locked")
    /\ UNCHANGED <<work, alive, quit, tpc, spc, mpc, socketExit, events, watchvars>>

\* if (!m->quit) pthread_cond_wait, which releases the mutex
Wait(w) ==
    /\ wpc[w] = "locked"
    /\ \/ ~quit /\ Goto(w, "wait") /\ mutex' = None
       \/ quit /\ Goto(w, "awake") /\ UNCHANGED mutex
    /\ UNCHANGED <<work, alive, quit, sleep, tpc, spc, mpc, socketExit, events, watchvars>>

\* pthread_cond_wait returns although nobody signalled
Spurious(w) ==
    /\ wpc[w] = "wait"
    /\ Event
    /\ Goto(w, "relock")
    /\ UNCHANGED <<work, alive, quit, sleep, mutex, tpc, spc, mpc, socketExit, watchvars>>

\* pthread_cond_wait takes the mutex back
Relock(w) ==
    /\ wpc[w] = "relock"
    /\ mutex = None
    /\ mutex' = w
    /\ Goto(w, "awake")
    /\ UNCHANGED <<work, alive, quit, sleep, tpc, spc, mpc, socketExit, events, watchvars>>

\* mutant: a worker that leaves because of quit stays counted
UnlockCounted(w) ==
    /\ wpc[w] = "awake"
    /\ sleep' = IF quit THEN sleep ELSE sleep - 1
    /\ mutex' = None
    /\ Goto(w, "loop")
    /\ UNCHANGED <<work, alive, quit, tpc, spc, mpc, socketExit, events, watchvars>>

\* -- m->sleep and pthread_mutex_unlock
Unlock(w) ==
    /\ wpc[w] = "awake"
    /\ sleep' = sleep - 1
    /\ mutex' = None
    /\ Goto(w, "loop")
    /\ UNCHANGED <<work, alive, quit, tpc, spc, mpc, socketExit, events, watchvars>>

-----------------------------------------------------------------------------
(* thread_timer                                                            *)

\* skynet_updatetime: a timeout may fire (or signal_hup, after the sleep of
\* the last round, wrote to the logger)
TimerUpdate ==
    /\ tpc = "update"
    /\ tpc' = "check"
    /\ \/ Event /\ work' = work + 1
       \/ UNCHANGED <<work, events>>
    /\ UNCHANGED <<alive, quit, sleep, mutex, wpc, spc, mpc, socketExit, watchvars>>

\* mutant: the timer wakes nobody
TimerCheckQuiet ==
    /\ tpc = "check"
    /\ tpc' = IF alive THEN "update" ELSE "exit"
    /\ UNCHANGED <<work, alive, quit, sleep, mutex, wpc, spc, mpc, socketExit, events, watchvars>>

\* CHECK_ABORT and the test of wakeup(m, m->count-1): does anyone sleep?
TimerCheck ==
    /\ tpc = "check"
    /\ tpc' = CASE ~alive -> "exit"
                [] alive /\ sleep >= 1 -> "signal"
                [] OTHER -> "update"
    /\ UNCHANGED <<work, alive, quit, sleep, mutex, wpc, spc, mpc, socketExit, events, watchvars>>

TimerSignal ==
    /\ tpc = "signal"
    /\ Signal
    /\ tpc' = "update"
    /\ UNCHANGED <<work, alive, quit, sleep, mutex, spc, mpc, socketExit, events, watchvars>>

\* the end of thread_timer: skynet_socket_exit ...
TimerSocketExit ==
    /\ tpc = "exit"
    /\ tpc' = "quit"
    /\ socketExit' = TRUE
    /\ UNCHANGED <<work, alive, quit, sleep, mutex, wpc, spc, mpc, events, watchvars>>

\* mutant: one worker is signalled instead of all
TimerQuitSignal ==
    /\ tpc = "quit"
    /\ mutex = None
    /\ quit' = TRUE
    /\ Signal
    /\ tpc' = "stopped"
    /\ UNCHANGED <<work, alive, sleep, mutex, spc, mpc, socketExit, events, watchvars>>

\* ... and quit with pthread_cond_broadcast, under the mutex
TimerQuit ==
    /\ tpc = "quit"
    /\ mutex = None
    /\ quit' = TRUE
    /\ wpc' = [w \in Worker |-> IF w \in Waiting THEN "relock" ELSE wpc[w]]
    /\ tpc' = "stopped"
    /\ UNCHANGED <<work, alive, sleep, mutex, spc, mpc, socketExit, events, watchvars>>

-----------------------------------------------------------------------------
(* thread_socket and thread_monitor                                        *)

\* skynet_socket_poll handled an event, which may put a service's queue into
\* the global queue.  It returns 1, or -1 when more events are ready: then
\* nobody is woken, and CHECK_ABORT may end the thread.
SocketPoll ==
    /\ spc = "poll"
    /\ Event
    /\ work' \in {work, work + 1}
    /\ spc' \in {"wakeup", IF alive THEN "poll" ELSE "stopped"}
    /\ UNCHANGED <<alive, quit, sleep, mutex, wpc, tpc, mpc, socketExit, watchvars>>

\* wakeup(m, 0): are all workers asleep?
SocketCheck ==
    /\ spc = "wakeup"
    /\ spc' = IF sleep >= Count THEN "signal" ELSE "poll"
    /\ UNCHANGED <<work, alive, quit, sleep, mutex, wpc, tpc, mpc, socketExit, events, watchvars>>

SocketSignal ==
    /\ spc = "signal"
    /\ Signal
    /\ spc' = "poll"
    /\ UNCHANGED <<work, alive, quit, sleep, mutex, tpc, mpc, socketExit, events, watchvars>>

\* skynet_socket_poll returned 0, after skynet_socket_exit
SocketStop ==
    /\ spc = "poll"
    /\ socketExit
    /\ spc' = "stopped"
    /\ UNCHANGED <<work, alive, quit, sleep, mutex, wpc, tpc, mpc, socketExit, events, watchvars>>

\* CHECK_ABORT of thread_monitor, between two rounds
MonitorRound ==
    /\ mpc = "run"
    /\ mpc' = IF alive THEN "compare" ELSE "stopped"
    /\ UNCHANGED <<work, alive, quit, sleep, mutex, wpc, tpc, spc, socketExit, events, watchvars>>

\* skynet_monitor_check compares the versions of the next worker ...
MonitorCompare ==
    /\ mpc = "compare"
    /\ mpc' = IF moved[checking] THEN "record" ELSE "accuse"
    /\ UNCHANGED <<work, alive, quit, sleep, mutex, wpc, tpc, spc, socketExit, events, watchvars>>

\* on to the next worker, or to sleep until the next round
NextCheck ==
    /\ checking' = (checking % Count) + 1
    /\ mpc' = IF checking = Count THEN "run" ELSE "compare"

\* ... and, when they differ, reads the version once more to remember it, ...
MonitorRecord ==
    /\ mpc = "record"
    /\ NextCheck
    /\ moved' = [moved EXCEPT ![checking] = FALSE]
    /\ UNCHANGED <<work, alive, quit, sleep, mutex, wpc, tpc, spc, socketExit, events, target, endless>>

\* mutant: nobody is accused while a worker sleeps
MonitorAccuseBusy ==
    /\ mpc = "accuse"
    /\ NextCheck
    /\ endless' = IF target[checking] /\ sleep = 0 THEN endless \cup {checking} ELSE endless
    /\ UNCHANGED <<work, alive, quit, sleep, mutex, wpc, tpc, spc, socketExit, events, moved, target>>

\* ... or reads the destination, which the worker may have changed meanwhile
MonitorAccuse ==
    /\ mpc = "accuse"
    /\ NextCheck
    /\ endless' = IF target[checking] THEN endless \cup {checking} ELSE endless
    /\ UNCHANGED <<work, alive, quit, sleep, mutex, wpc, tpc, spc, socketExit, events, moved, target>>

-----------------------------------------------------------------------------
WorkerStep(w) ==
    CheckQuit(w) \/ Dispatch(w) \/ Enter(w) \/ BusyDone(w) \/ Leave(w) \/ Lock(w) \/ Wait(w) \/ Relock(w) \/ Unlock(w)

TimerStep ==
    TimerUpdate \/ TimerCheck \/ TimerSignal \/ TimerSocketExit \/ TimerQuit

MonitorStep == MonitorRound \/ MonitorCompare \/ MonitorRecord \/ MonitorAccuse

SocketStep == SocketCheck \/ SocketSignal \/ SocketStop

Next ==
    \/ \E w \in Worker : WorkerStep(w) \/ BusySend(w) \/ BusyExit(w) \/ BusyLoop(w) \/ Spurious(w)
    \/ TimerStep \/ SocketStep \/ SocketPoll
    \/ MonitorStep

Spec == Init /\ [][Next]_startvars

\* The operating system runs every thread.  Nothing makes a callback send,
\* loop or end the last service, a client write, a poll return early or a
\* wait end spuriously; a callback that does not loop returns.
FairSpec ==
    /\ Spec
    /\ \A w \in Worker : WF_startvars(WorkerStep(w))
    /\ WF_startvars(TimerStep) /\ WF_startvars(SocketStep) /\ WF_startvars(MonitorStep)

-----------------------------------------------------------------------------
(* Properties                                                              *)

\* Every variable keeps its type, and the count of sleepers is not negative.
TypeOK ==
    /\ work \in Nat /\ sleep \in Nat /\ events \in 0..MaxEvents
    /\ alive \in BOOLEAN /\ quit \in BOOLEAN /\ socketExit \in BOOLEAN
    /\ mutex \in Worker \cup {None}
    /\ wpc \in [Worker -> {"loop", "dispatch", "enter", "busy", "stuck", "leave", "lock", "locked", "wait", "relock",
                           "awake", "stopped"}]
    /\ tpc \in {"update", "check", "signal", "exit", "quit", "stopped"}
    /\ spc \in {"poll", "wakeup", "signal", "stopped"}
    /\ mpc \in {"run", "compare", "record", "accuse", "stopped"}
    /\ moved \in [Worker -> BOOLEAN] /\ target \in [Worker -> BOOLEAN]
    /\ checking \in Worker /\ endless \subseteq Worker

Sleeping == {w \in Worker : wpc[w] \in {"locked", "wait", "relock", "awake"}}

\* m->sleep is the number of workers between their two visits to the mutex:
\* no worker is counted twice or stays counted, so wakeup's tests are right
\* whenever nobody holds the mutex.
SleepExact == sleep = Cardinality(Sleeping)

Stuck == {w \in Worker : wpc[w] = "stuck"}

\* As long as the node has services, no message waits forever because all
\* workers sleep: a signal lost between a worker's last look at the global
\* queue and its wait is repeated by the timer.  One worker whose callback
\* does not loop is enough.
WorkIsDone == work > 0 /\ alive ~> work = 0 \/ ~alive \/ Stuck = Worker

\* When the last service is gone every thread ends, so that start can join
\* them: nobody waits for a signal that will not come, only for a callback
\* that never returns.
EveryoneStops ==
    ~alive ~> /\ \A w \in Worker : wpc[w] \in {"stopped", "stuck"}
              /\ tpc = "stopped" /\ spc = "stopped" /\ mpc = "stopped"

\* A callback that never returns is reported while the node has services: no
\* order of the monitor's two reads and the worker's writes hides it.
LoopIsReported == \A w \in Worker : wpc[w] = "stuck" ~> w \in endless \/ ~alive
=============================================================================
