------------------------------- MODULE RWLock -------------------------------
(***************************************************************************)
(* The read-write spin lock of skynet-src/rwlock.h, which guards the handle *)
(* storage: a reader announces itself in lock->read and withdraws when it   *)
(* then finds lock->write set; a writer sets lock->write and waits until no *)
(* reader is announced.  Every access is a step of its own, in one order    *)
(* for all threads (the code puts a full barrier between them).             *)
(***************************************************************************)
EXTENDS Integers, FiniteSets

CONSTANT Thread     \* the threads that use the lock

ASSUME RWLockAssumption == IsFiniteSet(Thread)

VARIABLES
    write,      \* lock->write
    read,       \* lock->read
    pc          \* pc[t]: where thread t is; "out" is outside of the lock

lockvars == <<write, read, pc>>

\* rwlock_init
LockInit ==
    /\ write = 0
    /\ read = 0
    /\ pc = [t \in Thread |-> "out"]

Move(t, from, to) ==
    /\ pc[t] = from
    /\ pc' = [pc EXCEPT ![t] = to]

-----------------------------------------------------------------------------
(* rwlock_rlock and rwlock_runlock                                         *)

StartRead(t) == Move(t, "out", "rspin") /\ UNCHANGED <<write, read>>

\* while (lock->write) ends
SeesNoWriter(t) == Move(t, "rspin", "rarrive") /\ write = 0 /\ UNCHANGED <<write, read>>

Announce(t) ==
    /\ Move(t, "rarrive", "rcheck")
    /\ read' = read + 1
    /\ UNCHANGED write

\* mutant: the reader does not look at lock->write again
CheckWriterNot(t) == Move(t, "rcheck", "reading") /\ UNCHANGED <<write, read>>

\* lock->write is looked at again: the reader goes in, or has to withdraw
CheckWriter(t) ==
    /\ \/ write = 0 /\ Move(t, "rcheck", "reading")
       \/ write # 0 /\ Move(t, "rcheck", "rback")
    /\ UNCHANGED <<write, read>>

\* mutant: the reader looks at lock->write again without having withdrawn
WithdrawNot(t) == Move(t, "rback", "rcheck") /\ UNCHANGED <<write, read>>

Withdraw(t) ==
    /\ Move(t, "rback", "rspin")
    /\ read' = read - 1
    /\ UNCHANGED write

RUnlock(t) ==
    /\ Move(t, "reading", "out")
    /\ read' = read - 1
    /\ UNCHANGED write

-----------------------------------------------------------------------------
(* rwlock_wlock and rwlock_wunlock                                         *)

StartWrite(t) == Move(t, "out", "wspin") /\ UNCHANGED <<write, read>>

\* __sync_lock_test_and_set returned 0
TestAndSet(t) ==
    /\ Move(t, "wspin", "wwait")
    /\ write = 0
    /\ write' = 1
    /\ UNCHANGED read

\* while (lock->read) ends
SeesNoReader(t) == Move(t, "wwait", "writing") /\ read = 0 /\ UNCHANGED <<write, read>>

WUnlock(t) ==
    /\ Move(t, "writing", "out")
    /\ write' = 0
    /\ UNCHANGED read

-----------------------------------------------------------------------------
\* What a thread does once it has asked for the lock.
Step(t) ==
    \/ SeesNoWriter(t) \/ Announce(t) \/ CheckWriter(t) \/ Withdraw(t) \/ RUnlock(t)
    \/ TestAndSet(t) \/ SeesNoReader(t) \/ WUnlock(t)

LockNext == \E t \in Thread : Step(t) \/ StartRead(t) \/ StartWrite(t)

LockSpec == LockInit /\ [][LockNext]_lockvars

\* The operating system runs every thread, and every holder lets go of the
\* lock; nothing makes a thread ask for it.
FairLockSpec == LockSpec /\ \A t \in Thread : WF_lockvars(Step(t))

-----------------------------------------------------------------------------
(* Properties                                                              *)

Announced == {t \in Thread : pc[t] \in {"rcheck", "rback", "reading"}}
Reading == {t \in Thread : pc[t] = "reading"}
Writing == {t \in Thread : pc[t] = "writing"}
Flagged == {t \in Thread : pc[t] \in {"wwait", "writing"}}

LockTypeOK ==
    /\ write \in {0, 1}
    /\ read \in Nat
    /\ pc \in [Thread -> {"out", "rspin", "rarrive", "rcheck", "rback", "reading", "wspin", "wwait",
                          "writing"}]

\* lock->read counts the announced readers, those that will withdraw too.
CountExact == read = Cardinality(Announced)

\* lock->write is set by one thread at a time.
OneFlag ==
    /\ write = 0 => Flagged = {}
    /\ \A t, u \in Flagged : t = u

\* A thread that is inside to write is alone: no other writer and no reader,
\* although a reader may be announced and about to withdraw.
Exclusion == \A t \in Writing : Writing = {t} /\ Reading = {}

\* The exclusion as it is preserved by every step: the writer is the thread
\* that set the flag, and no reader got in under it.
IndInv == LockTypeOK /\ CountExact /\ OneFlag /\ (Writing # {} => Reading = {})

\* A writer that has set lock->write gets in: the readers that announce
\* themselves from then on all withdraw, and the announced ones let go.
WriterGetsIn == \A t \in Thread : pc[t] = "wwait" ~> pc[t] = "writing"
=============================================================================
