---------------------------- MODULE ThreadProofs ----------------------------
(***************************************************************************)
(* The two counters that the threads of a node share are exact, for any    *)
(* number of threads: m->sleep of skynet_start.c counts the workers        *)
(* between ++ m->sleep and -- m->sleep, although they leave their wait by  *)
(* a signal, by the broadcast, spuriously, or do not wait at all; and      *)
(* lock->read of rwlock.h counts the announced readers, from which, with   *)
(* the one thread that set lock->write, the exclusion of the read-write    *)
(* lock follows.                                                           *)
(***************************************************************************)
EXTENDS SkynetStart, RWLock, FiniteSetTheorems, TLAPS

\* One more or one less in a finite set.
LEMMA Counting ==
  ASSUME NEW T, IsFiniteSet(T), NEW S \in SUBSET T, NEW t
  PROVE  /\ IsFiniteSet(S) /\ Cardinality(S) \in Nat
         /\ Cardinality(S) = 0 <=> S = {}
         /\ t \notin S => Cardinality(S \cup {t}) = Cardinality(S) + 1
         /\ t \in S => Cardinality(S \ {t}) = Cardinality(S) - 1
<1>1. IsFiniteSet(S)
  BY FS_Subset
<1>2. Cardinality(S) \in Nat
  BY <1>1, FS_CardinalityType
<1>3. Cardinality(S) = 0 <=> S = {}
  BY <1>1, FS_EmptySet
<1>. QED
  BY <1>1, <1>2, <1>3, FS_AddElement, FS_RemoveElement

-----------------------------------------------------------------------------
(* m->sleep                                                                *)

\* Counting a set of workers with one more or one less.
LEMMA CountingWorkers ==
  ASSUME NEW S \in SUBSET Worker, NEW w \in Worker
  PROVE  /\ Cardinality(S) \in Nat
         /\ w \notin S => Cardinality(S \cup {w}) = Cardinality(S) + 1
         /\ w \in S => Cardinality(S \ {w}) = Cardinality(S) - 1
<1>1. IsFiniteSet(Worker)
  BY StartAssumption, FS_Interval DEF Worker
<1>. QED
  BY <1>1, Counting

\* Where a worker can be.
Place == {"loop", "dispatch", "enter", "busy", "stuck", "leave", "lock", "locked", "wait", "relock", "awake",
          "stopped"}

SleepInv == wpc \in [Worker -> Place] /\ SleepExact

\* All workers are at the head of their loop.
LEMMA InitSleep == Init => SleepInv
<1>. SUFFICES ASSUME Init PROVE SleepInv
  OBVIOUS
<1>1. Sleeping = {} /\ Cardinality(Sleeping) = 0
  BY FS_EmptySet DEF Init, Sleeping
<1>2. wpc \in [Worker -> Place]
  BY DEF Init, Place
<1>. QED
  BY <1>1, <1>2 DEF SleepInv, SleepExact, Init

\* The count of sleepers moves with Lock and Unlock only; every way out of
\* pthread_cond_wait leaves the worker among those that are counted.
LEMMA SleepStep == SleepInv /\ Next => SleepExact'
<1>. SUFFICES ASSUME SleepInv, Next PROVE SleepExact'
  OBVIOUS
<1>t. sleep = Cardinality(Sleeping) /\ Sleeping \in SUBSET Worker /\ wpc \in [Worker -> Place]
  BY DEF SleepInv, SleepExact, Sleeping
<1>1. ASSUME NEW w \in Worker, Lock(w) PROVE SleepExact'
  <2>1. w \notin Sleeping /\ Sleeping' = Sleeping \cup {w} /\ sleep' = sleep + 1
    BY <1>t, <1>1 DEF Lock, Goto, Sleeping
  <2>. QED
    BY <1>t, <2>1, CountingWorkers DEF SleepExact
<1>2. ASSUME NEW w \in Worker, Unlock(w) PROVE SleepExact'
  <2>1. w \in Sleeping /\ Sleeping' = Sleeping \ {w} /\ sleep' = sleep - 1
    BY <1>t, <1>2 DEF Unlock, Goto, Sleeping
  <2>. QED
    BY <1>t, <2>1, CountingWorkers DEF SleepExact
<1>3. ASSUME NEW w \in Worker,
             \/ CheckQuit(w) \/ Dispatch(w) \/ Enter(w) \/ BusyDone(w) \/ Leave(w) \/ BusySend(w)
             \/ BusyExit(w) \/ BusyLoop(w)
      PROVE  SleepExact'
  <2>1. Sleeping' = Sleeping /\ sleep' = sleep
    BY <1>t, <1>3 DEF CheckQuit, Dispatch, Enter, BusyDone, Leave, BusySend, BusyExit, BusyLoop, Goto, Sleeping
  <2>. QED
    BY <1>t, <2>1 DEF SleepExact
<1>4. ASSUME NEW w \in Worker, Wait(w) \/ Relock(w) \/ Spurious(w) PROVE SleepExact'
  <2>1. Sleeping' = Sleeping /\ sleep' = sleep
    BY <1>t, <1>4 DEF Wait, Relock, Spurious, Goto, Sleeping
  <2>. QED
    BY <1>t, <2>1 DEF SleepExact
<1>5. CASE TimerSignal \/ SocketSignal
  <2>1. Sleeping' = Sleeping /\ sleep' = sleep
    BY <1>t, <1>5 DEF TimerSignal, SocketSignal, Signal, Waiting, Goto, Sleeping
  <2>. QED
    BY <1>t, <2>1 DEF SleepExact
<1>6. CASE TimerQuit
  <2>1. Sleeping' = Sleeping /\ sleep' = sleep
    BY <1>t, <1>6 DEF TimerQuit, Waiting, Sleeping
  <2>. QED
    BY <1>t, <2>1 DEF SleepExact
<1>7. CASE TimerUpdate \/ TimerCheck \/ TimerSocketExit \/ SocketCheck \/ SocketStop \/ SocketPoll \/ MonitorStep
  <2>1. wpc' = wpc /\ sleep' = sleep
    BY <1>7 DEF TimerUpdate, TimerCheck, TimerSocketExit, SocketCheck, SocketStop, SocketPoll, MonitorStep,
       MonitorRound, MonitorCompare, MonitorRecord, MonitorAccuse
  <2>. QED
    BY <1>t, <2>1 DEF SleepExact, Sleeping
<1>. QED
  BY <1>1, <1>2, <1>3, <1>4, <1>5, <1>6, <1>7 DEF Next, WorkerStep, TimerStep, SocketStep

\* No step takes a worker anywhere else.
LEMMA PlaceStep == SleepInv /\ Next => (wpc \in [Worker -> Place])'
<1>. SUFFICES ASSUME wpc \in [Worker -> Place], Next PROVE wpc' \in [Worker -> Place]
  BY DEF SleepInv
<1>1. ASSUME NEW w \in Worker,
             WorkerStep(w) \/ BusySend(w) \/ BusyExit(w) \/ BusyLoop(w) \/ Spurious(w)
      PROVE  wpc' = wpc \/ \E l \in Place : Goto(w, l)
  BY <1>1 DEF WorkerStep, CheckQuit, Dispatch, Enter, BusyDone, Leave, Lock, Wait, Relock, Unlock, BusySend,
     BusyExit, BusyLoop, Spurious, Place
<1>2. CASE TimerStep \/ SocketStep \/ SocketPoll \/ MonitorStep
  BY <1>2 DEF TimerStep, TimerUpdate, TimerCheck, TimerSignal, TimerSocketExit, TimerQuit, SocketStep, SocketCheck,
     SocketSignal, SocketStop, SocketPoll, MonitorStep, MonitorRound, MonitorCompare, MonitorRecord, MonitorAccuse,
     Signal, Waiting, Goto, Place
<1>3. ASSUME NEW w \in Worker, \E l \in Place : Goto(w, l) PROVE wpc' \in [Worker -> Place]
  BY <1>3 DEF Goto
<1>. QED
  BY <1>1, <1>2, <1>3 DEF Next

\* The count that wakeup reads is the number of workers between their two
\* visits to the mutex, in every behaviour and for any number of workers.
THEOREM SleepersCounted == Spec => []SleepExact
<1>1. SleepInv /\ Next => SleepInv'
  BY SleepStep, PlaceStep DEF SleepInv
<1>2. SleepInv /\ UNCHANGED startvars => SleepInv'
  BY DEF SleepInv, SleepExact, Sleeping, startvars
<1>3. SleepInv => SleepExact
  BY DEF SleepInv
<1>. QED
  BY InitSleep, <1>1, <1>2, <1>3, PTL DEF Spec

-----------------------------------------------------------------------------
(* The read-write lock                                                     *)

\* Counting a set of threads with one more or one less.
LEMMA CountingThreads ==
  ASSUME NEW S \in SUBSET Thread, NEW t \in Thread
  PROVE  /\ IsFiniteSet(S) /\ Cardinality(S) \in Nat
         /\ Cardinality(S) = 0 <=> S = {}
         /\ t \notin S => Cardinality(S \cup {t}) = Cardinality(S) + 1
         /\ t \in S => Cardinality(S \ {t}) = Cardinality(S) - 1
BY RWLockAssumption, Counting

\* Which sets of threads a step of thread t from one place to another changes.
LEMMA Moves ==
  ASSUME LockTypeOK, NEW t \in Thread, NEW from, NEW to, Move(t, from, to)
  PROVE  /\ pc[t] = from /\ pc'[t] = to
         /\ \A u \in Thread \ {t} : pc'[u] = pc[u]
         /\ DOMAIN pc' = Thread
  BY DEF LockTypeOK, Move

\* rwlock_init: nobody is announced and the flag is down.
LEMMA InitExcludes == LockInit => IndInv
<1>. SUFFICES ASSUME LockInit PROVE IndInv
  OBVIOUS
<1>1. Announced = {} /\ Flagged = {} /\ Writing = {}
  BY DEF LockInit, Announced, Flagged, Writing
<1>2. Cardinality(Announced) = 0
  BY <1>1, FS_EmptySet
<1>. QED
  BY <1>1, <1>2 DEF LockInit, IndInv, LockTypeOK, CountExact, OneFlag

\* The types are kept; a count of readers that somebody is in can be lowered.
LEMMA TypeStep == IndInv /\ LockNext => LockTypeOK'
<1>. SUFFICES ASSUME IndInv, NEW t \in Thread, Step(t) \/ StartRead(t) \/ StartWrite(t)
              PROVE  LockTypeOK'
  BY DEF LockNext
<1>1. pc[t] \in {"rback", "reading"} => read - 1 \in Nat
  <2>1. pc[t] \in {"rback", "reading"} => t \in Announced
    BY DEF Announced
  <2>2. t \in Announced => Cardinality(Announced) \in Nat \ {0}
    BY CountingThreads DEF Announced
  <2>. QED
    BY <2>1, <2>2 DEF IndInv, CountExact
<1>. QED
  BY <1>1 DEF IndInv, LockTypeOK, Step, SeesNoWriter, Announce, CheckWriter, Withdraw, RUnlock, TestAndSet,
     SeesNoReader, WUnlock, StartRead, StartWrite, Move

\* lock->read stays exact: it moves with Announce, Withdraw and RUnlock only.
LEMMA CountStep == IndInv /\ LockNext => CountExact'
<1>. SUFFICES ASSUME IndInv, NEW t \in Thread, Step(t) \/ StartRead(t) \/ StartWrite(t)
              PROVE  CountExact'
  BY DEF LockNext
<1>t. LockTypeOK /\ read = Cardinality(Announced) /\ Announced \in SUBSET Thread
  BY DEF IndInv, CountExact, Announced
<1>1. CASE Announce(t)
  <2>1. t \notin Announced /\ Announced' = Announced \cup {t} /\ read' = read + 1
    BY <1>t, <1>1, Moves DEF Announce, Announced
  <2>. QED
    BY <1>t, <2>1, CountingThreads DEF CountExact
<1>2. CASE Withdraw(t) \/ RUnlock(t)
  <2>1. t \in Announced /\ Announced' = Announced \ {t} /\ read' = read - 1
    BY <1>t, <1>2, Moves DEF Withdraw, RUnlock, Announced
  <2>. QED
    BY <1>t, <2>1, CountingThreads DEF CountExact
<1>3. CASE SeesNoWriter(t) \/ CheckWriter(t) \/ TestAndSet(t) \/ SeesNoReader(t) \/ WUnlock(t)
           \/ StartRead(t) \/ StartWrite(t)
  <2>1. Announced' = Announced /\ read' = read
    BY <1>t, <1>3, Moves DEF SeesNoWriter, CheckWriter, TestAndSet, SeesNoReader, WUnlock, StartRead,
       StartWrite, Announced
  <2>. QED
    BY <1>t, <2>1 DEF CountExact
<1>. QED
  BY <1>1, <1>2, <1>3 DEF Step

\* lock->write stays with the thread that set it.
LEMMA FlagStep == IndInv /\ LockNext => OneFlag'
<1>. SUFFICES ASSUME IndInv, NEW t \in Thread, Step(t) \/ StartRead(t) \/ StartWrite(t)
              PROVE  OneFlag'
  BY DEF LockNext
<1>t. LockTypeOK /\ OneFlag
  BY DEF IndInv
<1>1. CASE TestAndSet(t)
  <2>1. Flagged = {} /\ Flagged' = {t} /\ write' = 1
    BY <1>t, <1>1, Moves DEF TestAndSet, OneFlag, Flagged
  <2>. QED
    BY <2>1 DEF OneFlag
<1>2. CASE WUnlock(t)
  <2>1. Flagged = {t} /\ Flagged' = Flagged \ {t}
    BY <1>t, <1>2, Moves DEF WUnlock, OneFlag, Flagged
  <2>. QED
    BY <2>1 DEF OneFlag
<1>3. CASE SeesNoWriter(t) \/ CheckWriter(t) \/ Announce(t) \/ Withdraw(t) \/ RUnlock(t) \/ SeesNoReader(t)
           \/ StartRead(t) \/ StartWrite(t)
  <2>1. Flagged' = Flagged /\ write' = write
    BY <1>t, <1>3, Moves DEF SeesNoWriter, CheckWriter, Announce, Withdraw, RUnlock, SeesNoReader, StartRead,
       StartWrite, Flagged
  <2>. QED
    BY <1>t, <2>1 DEF OneFlag
<1>. QED
  BY <1>1, <1>2, <1>3 DEF Step

\* No reader gets in while the flag is up, and the writer goes in only when
\* no reader is announced.
LEMMA ExclusionStep == IndInv /\ LockNext => (Writing # {} => Reading = {})'
<1>. SUFFICES ASSUME IndInv, NEW t \in Thread, Step(t) \/ StartRead(t) \/ StartWrite(t)
              PROVE  (Writing # {} => Reading = {})'
  BY DEF LockNext
<1>t. /\ LockTypeOK /\ OneFlag /\ read = Cardinality(Announced)
      /\ Writing # {} => Reading = {}
      /\ Writing \subseteq Flagged /\ Reading \subseteq Announced /\ Announced \in SUBSET Thread
  BY DEF IndInv, CountExact, Writing, Flagged, Reading, Announced
<1>1. CASE SeesNoReader(t)
  <2>1. Reading = {}
    BY <1>t, <1>1, CountingThreads DEF SeesNoReader
  <2>2. Reading' = Reading
    BY <1>t, <1>1, Moves DEF SeesNoReader, Reading
  <2>. QED
    BY <2>1, <2>2
<1>2. CASE CheckWriter(t)
  <2>1. CASE write = 0
    <3>1. Writing = {} /\ Writing' = Writing
      BY <1>t, <1>2, <2>1, Moves DEF CheckWriter, OneFlag, Writing
    <3>. QED
      BY <3>1
  <2>2. CASE write # 0
    <3>1. Reading' = Reading /\ Writing' = Writing
      BY <1>t, <1>2, <2>2, Moves DEF CheckWriter, Reading, Writing
    <3>. QED
      BY <1>t, <3>1
  <2>. QED
    BY <2>1, <2>2
<1>3. CASE SeesNoWriter(t) \/ Announce(t) \/ Withdraw(t) \/ RUnlock(t) \/ TestAndSet(t) \/ WUnlock(t)
           \/ StartRead(t) \/ StartWrite(t)
  <2>1. Reading' \subseteq Reading /\ Writing' \subseteq Writing
    BY <1>t, <1>3, Moves DEF SeesNoWriter, Announce, Withdraw, RUnlock, TestAndSet, WUnlock, StartRead,
       StartWrite, Reading, Writing
  <2>. QED
    BY <1>t, <2>1
<1>. QED
  BY <1>1, <1>2, <1>3 DEF Step

\* The counters are exact and a writer is alone with them, in every behaviour
\* of rwlock.h.
THEOREM LockInvariance == LockSpec => []IndInv
<1>1. IndInv /\ UNCHANGED lockvars => IndInv'
  BY DEF IndInv, LockTypeOK, CountExact, OneFlag, Announced, Flagged, Reading, Writing, lockvars
<1>2. IndInv /\ [LockNext]_lockvars => IndInv'
  BY <1>1, TypeStep, CountStep, FlagStep, ExclusionStep DEF IndInv
<1>. QED
  BY InitExcludes, <1>2, PTL DEF LockSpec

\* A thread that holds the lock to write is alone, with any number of readers
\* and writers (rwlock_rlock and rwlock_wlock).
THEOREM LockExcludes == LockSpec => []Exclusion
<1>1. IndInv => Exclusion
  BY DEF IndInv, Exclusion, OneFlag, Writing, Flagged
<1>. QED
  BY <1>1, LockInvariance, PTL
=============================================================================
