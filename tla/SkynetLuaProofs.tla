-------------------------- MODULE SkynetLuaProofs --------------------------
(***************************************************************************)
(* Proofs about the scheduler of a Lua service, for any number of          *)
(* coroutines, peers, requests and sessions.  The invariant has four       *)
(* parts, each about tables of its own: who waits under which session, what *)
(* the queues hold, what became of every request, and what watching_service *)
(* counts.                                                                 *)
(***************************************************************************)
EXTENDS SkynetLua, FiniteSetTheorems, SequenceTheorems, TLAPS

-----------------------------------------------------------------------------
(* Who waits under which session                                           *)

\* coroutine c is known under session s and no other, or under none
Only(c, s) == \A t \in Session : sid[t] = c <=> t = s
Unknown(c) == \A t \in Session : sid[t] # c

Runner ==
    /\ co # None <=> phase = "run"
    /\ \A c \in Co : state[c] = "run" <=> co = c

Waiter(c) ==
    /\ sleeping[c] # 0 <=> state[c] \in {"sleep", "wait"}
    /\ state[c] = "sleep" => Only(c, sleeping[c]) /\ sleeping[c] \in due
    /\ state[c] = "wait" => Only(c, sleeping[c]) /\ sleeping[c] \notin due
    /\ state[c] = "call" => \E s \in Session : Only(c, s) /\ watching[s] # None
    /\ state[c] = "empty" => \E s \in due : Only(c, s)
    /\ state[c] = "ready" => (Unknown(c) /\ (c \in forks \/ exited)) \/ \E s \in due : Only(c, s)
    /\ state[c] \in {"free", "run", "over"} => Unknown(c)
    /\ c \in forks => state[c] = "ready" /\ Unknown(c)

Timed(s) ==
    /\ s > session => sid[s] = None /\ watching[s] = None /\ s \notin due
    /\ s \in due => sid[s] # None
    /\ watching[s] # None => s \notin due /\ sid[s] \in Co /\ state[sid[s]] = "call"

\* A session in error_queue is of a call, which waits or has been answered.
Failing(s) == s <= session /\ s \notin due /\ (sid[s] = None \/ watching[s] # None)

Waits ==
    /\ Runner
    /\ \A c \in Co : Waiter(c)
    /\ \A s \in Session : Timed(s)
    /\ \A i \in DOMAIN errq : Failing(errq[i])

\* While no queue was left unfinished, wakeup_queue is empty when error_queue
\* has its turn, and both are when the forks have theirs.
Queues ==
    cut \/ exited \/
        /\ phase \in {"idle", "forks"} => wakeq = <<>> /\ errq = <<>>
        /\ phase = "errs" => wakeq = <<>>
        /\ \A i \in DOMAIN errq : watching[errq[i]] # None
        /\ \A i, j \in DOMAIN errq : errq[i] = errq[j] => i = j

-----------------------------------------------------------------------------
(* What became of every request                                            *)

Settled(r) == sent[r] # <<>> \/ source[r] \in dead

\* q consists of errors; of the answers q only the last may be a response, and
\* that after errors, if ok
Errors(q) == \A i \in 1..Len(q) : q[i] = "ERROR"
Once(q, ok) == \A i, j \in 1..Len(q) : i < j /\ q[j] = "RESPONSE" => q[i] = "ERROR" /\ ok

Answered(r) == Settled(r) \/ r \in forgot \/ (~exited /\ (r \in Served \/ r \in Promised))

\* A request is served by one coroutine; until that has answered or promised to,
\* nothing was sent but the error of skynet.exit.
Server(c) ==
    /\ state[c] \in {"free", "empty"} => serves[c] = 0 /\ c \notin responded
    /\ serves[c] # 0 =>
          /\ serves[c] \in 1..Len(source)
          /\ \A d \in Co : serves[d] = serves[c] => d = c
          /\ c \notin responded =>
                closure[serves[c]] = "none" /\ Errors(sent[serves[c]]) /\ (sent[serves[c]] = <<>> \/ exited)
          /\ c \in responded /\ wants[serves[c]] => Settled(serves[c]) \/ closure[serves[c]] = "open"

Promise(r) ==
    /\ r > Len(source) => closure[r] = "none" /\ sent[r] = <<>>
    /\ closure[r] = "open" => Errors(sent[r]) /\ (sent[r] = <<>> \/ r \in broken \/ exited)

Answers ==
    /\ Len(source) <= MaxReq
    /\ \A c \in Co : Server(c)
    /\ \A r \in Req : Promise(r)
    /\ EveryCallAnswered
    /\ OneResponse

LuaInv == TypeOK /\ Waits /\ Queues /\ Answers /\ CallersWatched

-----------------------------------------------------------------------------
\* A new service is in order.
LEMMA LuaInit == Init => LuaInv
<1> SUFFICES ASSUME Init PROVE LuaInv
  OBVIOUS
<1> USE LuaAssumption
<1>1. TypeOK
  <2>1. \A S : <<>> \in Seq(S) /\ Len(<<>>) = 0
    OBVIOUS
  <2>2. /\ wakeq \in Seq(Co) /\ errq \in Seq(Session) /\ source \in Seq(Peer) /\ wants \in Seq(BOOLEAN)
        /\ Len(source) = Len(wants) /\ sent \in [Req -> Seq({"RESPONSE", "ERROR"})]
    BY <2>1 DEF Init
  <2>3. sleeping \in [Co -> 0..MaxSession] /\ serves \in [Co -> 0..MaxReq] /\ ops \in 0..MaxOps /\ session \in 0..MaxSession
    BY DEF Init
  <2>4. /\ sid \in [Session -> Co \cup {None, Break}] /\ watching \in [Session -> Peer \cup {None}]
        /\ closure \in [Req -> {"none", "open", "false", "used"}] /\ refs \in [Peer -> Nat] /\ owed \in Nat
        /\ retested \in [Peer -> Nat]
        /\ state \in [Co -> {"free", "ready", "empty", "run", "call", "sleep", "wait", "over"}]
    BY DEF Init
  <2> QED
    BY <2>2, <2>3, <2>4 DEF Init, TypeOK
<1>2. Waits
  <2>1. Runner /\ errq = <<>>
    BY DEF Init, Runner
  <2>2. ASSUME NEW c \in Co PROVE Waiter(c)
    BY DEF Init, Waiter, Unknown
  <2>3. ASSUME NEW s \in Session PROVE Timed(s)
    BY DEF Init, Timed
  <2> QED
    BY <2>1, <2>2, <2>3 DEF Waits
<1>3. Queues
  BY DEF Init, Queues
<1>4. Answers
  <2>1. Len(source) = 0 /\ 1..0 = {} /\ Len(source) <= MaxReq
    BY DEF Init
  <2>2. ASSUME NEW c \in Co PROVE Server(c)
    BY DEF Init, Server
  <2>3. ASSUME NEW r \in Req PROVE Promise(r)
    BY DEF Init, Promise
  <2> QED
    BY <2>1, <2>2, <2>3 DEF Answers, EveryCallAnswered, OneResponse, Calls
<1>5. CallersWatched
  <2>1. Promised = {}
    BY DEF Init, Promised
  <2>2. ASSUME NEW p \in Peer
        PROVE  {c \in Co : serves[c] # 0 /\ source[serves[c]] = p} = {} /\ {r \in Promised : source[r] = p} = {}
    BY <2>1 DEF Init
  <2>3. Cardinality({}) = 0
    BY FS_EmptySet
  <2>4. \A p \in Peer : refs[p] = 0 /\ retested[p] = 0
    BY DEF Init
  <2> QED
    BY <2>2, <2>3, <2>4 DEF CallersWatched
<1> QED
  BY <1>1, <1>2, <1>3, <1>4, <1>5 DEF LuaInv

-----------------------------------------------------------------------------
(* Types                                                                   *)

\* While a coroutine runs, co names it.
LEMMA RunningCo == ASSUME TypeOK, Waits, phase = "run" PROVE co \in Co
BY DEF TypeOK, Waits, Runner

\* A new session is a session.
LEMMA NextSession ==
  ASSUME TypeOK, NewSession
  PROVE  session' \in Session /\ session' = session + 1 /\ session \in Nat /\ session' \in 0..MaxSession
BY LuaAssumption DEF TypeOK, NewSession, Session

\* Head and tail of a queue.
LEMMA TailSeq == \A S : \A q \in Seq(S) : q # <<>> => Head(q) \in S /\ Tail(q) \in Seq(S)
OBVIOUS

\* Resume keeps the types, given what it resumes.
LEMMA ResumeType ==
  ASSUME TypeOK, NEW c \in Co, NEW known \in [Session -> Co \cup {None, Break}], Resume(c, known)
  PROVE  /\ sid' \in [Session -> Co \cup {None, Break}]
         /\ sleeping' \in [Co -> 0..MaxSession]
         /\ watching' \in [Session -> Peer \cup {None}]
         /\ co' \in Co \cup {None}
         /\ state' \in [Co -> {"free", "ready", "empty", "run", "call", "sleep", "wait", "over"}]
         /\ phase' \in {"idle", "run", "wake", "errs", "forks"}
<1>1. sid' \in [Session -> Co \cup {None, Break}]
  BY DEF TypeOK, Resume
<1>2. sleeping' \in [Co -> 0..MaxSession]
  BY LuaAssumption DEF TypeOK, Resume
<1>3. watching' \in [Session -> Peer \cup {None}]
  BY DEF TypeOK, Resume
<1>4. state' \in [Co -> {"free", "ready", "empty", "run", "call", "sleep", "wait", "over"}]
  BY DEF TypeOK, Resume
<1> QED
  BY <1>1, <1>2, <1>3, <1>4 DEF Resume

\* SetToSeqs gives the sequences of a finite set's elements, each once.
LEMMA Orders ==
  ASSUME NEW S, IsFiniteSet(S), NEW q \in SetToSeqs(S)
  PROVE  q \in Seq(S) /\ \A i, j \in DOMAIN q : q[i] = q[j] => i = j
<1>n. PICK n \in Nat : n = Cardinality(S)
  BY FS_CardinalityType
<1>1. q \in [1..n -> S] /\ \A i, j \in 1..n : i # j => q[i] # q[j]
  BY <1>n DEF SetToSeqs
<1> QED
  BY <1>1, SeqDef

\* Sessions are finitely many.
LEMMA SessionsFinite == \A P \in SUBSET Session : IsFiniteSet(P)
<1>1. IsFiniteSet(Session)
  BY LuaAssumption, FS_Interval DEF Session
<1> QED
  BY <1>1, FS_Subset

\* The scheduler keeps the types.
LEMMA SchedulerType ==
  ASSUME TypeOK, Waits, Scheduler
  PROVE  TypeOK'
<1> USE DEF tables, queues, machine, world, ghosts
<1>1. ASSUME dispatch_wakeup PROVE TypeOK'
  <2>1. Head(wakeq) \in Co /\ Tail(wakeq) \in Seq(Co)
    BY <1>1, TailSeq DEF TypeOK, dispatch_wakeup
  <2>2. [sid EXCEPT ![sleeping[Head(wakeq)]] = Break] \in [Session -> Co \cup {None, Break}]
    BY DEF TypeOK
  <2>3. Resume(Head(wakeq), [sid EXCEPT ![sleeping[Head(wakeq)]] = Break])
    BY <1>1 DEF dispatch_wakeup
  <2>4. cut' \in BOOLEAN /\ owed' \in Nat
    BY <1>1 DEF TypeOK, dispatch_wakeup, Drained
  <2> QED
    BY <1>1, <2>1, <2>2, <2>3, <2>4, ResumeType DEF TypeOK, dispatch_wakeup
<1>2. ASSUME WakeupStale \/ WakeupNone \/ ErrorNone \/ MessageDone PROVE TypeOK'
  <2>1. CASE WakeupStale
    <3>1. cut' \in BOOLEAN /\ wakeq' \in Seq(Co)
      BY <2>1, TailSeq DEF TypeOK, WakeupStale
    <3> QED
      BY <2>1, <3>1 DEF TypeOK, WakeupStale
  <2>2. CASE WakeupNone
    BY <2>2 DEF TypeOK, WakeupNone
  <2>3. CASE ErrorNone
    BY <2>3 DEF TypeOK, ErrorNone
  <2>4. CASE MessageDone
    BY <2>4 DEF TypeOK, MessageDone
  <2> QED
    BY <1>2, <2>1, <2>2, <2>3, <2>4
<1>3. ASSUME dispatch_error_queue PROVE TypeOK'
  <2>1. Head(errq) \in Session /\ Tail(errq) \in Seq(Session) /\ 1 \in DOMAIN errq /\ errq[1] = Head(errq)
    BY <1>3, TailSeq DEF TypeOK, dispatch_error_queue
  <2>2. sid[Head(errq)] \in Co
    BY <1>3, <2>1 DEF Waits, Failing, Timed, dispatch_error_queue
  <2>3. [sid EXCEPT ![Head(errq)] = None] \in [Session -> Co \cup {None, Break}]
    BY DEF TypeOK
  <2> QED
    BY <1>3, <2>1, <2>2, <2>3, ResumeType DEF TypeOK, dispatch_error_queue, Drained
<1>4. ASSUME ErrorUnknown PROVE TypeOK'
  BY <1>4, TailSeq DEF TypeOK, ErrorUnknown, Drained
<1>5. ASSUME NEW c \in Co, RunFork(c) PROVE TypeOK'
  <2>1. sid \in [Session -> Co \cup {None, Break}]
    BY DEF TypeOK
  <2> QED
    BY <1>5, <2>1, ResumeType DEF TypeOK, RunFork
<1> QED
  BY <1>1, <1>2, <1>3, <1>4, <1>5 DEF Scheduler

\* A message that comes in keeps the types.
LEMMA IncomingType ==
  ASSUME TypeOK, Waits, Incoming
  PROVE  TypeOK'
<1> USE DEF tables, queues, machine, world, ghosts
<1>0. Message => ops' \in 0..MaxOps
  BY LuaAssumption DEF Message, Op, TypeOK
<1>1. ASSUME NEW p \in Peer, NEW call \in BOOLEAN, NEW c \in Co, Request(p, call, c) PROVE TypeOK'
  <2>1. sid \in [Session -> Co \cup {None, Break}]
    BY DEF TypeOK
  <2>2. /\ source' \in Seq(Peer) /\ wants' \in Seq(BOOLEAN) /\ Len(source') = Len(wants')
        /\ Len(source') \in 0..MaxReq
    BY <1>1, LuaAssumption DEF TypeOK, Request
  <2>3. serves' \in [Co -> 0..MaxReq]
    BY <1>1, <2>2 DEF TypeOK, Request
  <2>4. refs' \in [Peer -> Nat]
    BY <1>1 DEF TypeOK, Request
  <2>5. Resume(c, sid)
    BY <1>1 DEF Request
  <2> QED
    BY <1>0, <1>1, <2>1, <2>2, <2>3, <2>4, <2>5, ResumeType DEF TypeOK, Request
<1>2. ASSUME NEW s \in Session, ResponseKnown(s) PROVE TypeOK'
  <2>1. [sid EXCEPT ![s] = None] \in [Session -> Co \cup {None, Break}] /\ sid[s] \in Co
    BY <1>2 DEF TypeOK, ResponseKnown
  <2>2. Resume(sid[s], [sid EXCEPT ![s] = None])
    BY <1>2 DEF ResponseKnown
  <2> QED
    BY <1>0, <1>2, <2>1, <2>2, ResumeType DEF TypeOK, ResponseKnown
<1>3. ASSUME NEW s \in Session, ResponseRemoved(s) PROVE TypeOK'
  BY <1>0, <1>3 DEF TypeOK, ResponseRemoved
<1>4. ASSUME NEW s \in Session, ResponseLate(s) PROVE TypeOK'
  BY <1>0, <1>4 DEF TypeOK, ResponseLate
<1>5. ASSUME NEW s \in Session, ErrorMessage(s) PROVE TypeOK'
  BY SMTT(40), <1>0, <1>5 DEF TypeOK, ErrorMessage
<1>6. ASSUME NEW p \in Peer, ServiceDown(p) PROVE TypeOK'
  <2>1. errq' \in Seq(Session)
    <3>1. PICK q \in SetToSeqs({s \in Session : watching[s] = p}) : errq' = errq \o q
      BY <1>6 DEF ServiceDown
    <3>2. q \in Seq({s \in Session : watching[s] = p})
      BY Orders, SessionsFinite
    <3>3. q \in Seq(Session)
      BY <3>2
    <3> QED
      BY <3>1, <3>3 DEF TypeOK
  <2> QED
    BY <1>0, <1>6, <2>1 DEF TypeOK, ServiceDown
<1> QED
  BY <1>1, <1>2, <1>3, <1>4, <1>5, <1>6 DEF Incoming

\* An answer is appended to the answers of its request.
LEMMA AnswerType ==
  ASSUME TypeOK, NEW r, NEW kind \in {"RESPONSE", "ERROR"}, Answer(r, kind)
  PROVE  sent' \in [Req -> Seq({"RESPONSE", "ERROR"})]
<1>1. \A q \in Seq({"RESPONSE", "ERROR"}) : Append(q, kind) \in Seq({"RESPONSE", "ERROR"})
  OBVIOUS
<1>2. sent \in [Req -> Seq({"RESPONSE", "ERROR"})] /\ sent' = [sent EXCEPT ![r] = Append(@, kind)]
  BY DEF TypeOK, Answer
<1> QED
  BY <1>1, <1>2

\* release_watching takes one from the count of a caller, and not below 0.
LEMMA ReleaseType == ASSUME TypeOK, NEW p, release_watching(p) PROVE refs' \in [Peer -> Nat]
<1>1. refs \in [Peer -> Nat] /\ refs' = [refs EXCEPT ![p] = IF @ > 0 THEN @ - 1 ELSE 0]
  BY DEF TypeOK, release_watching
<1>2. ASSUME NEW q \in Peer PROVE refs'[q] \in Nat
  <2>1. refs[q] \in Nat /\ refs'[q] \in {refs[q], IF refs[q] > 0 THEN refs[q] - 1 ELSE 0}
    BY <1>1
  <2> QED
    BY <2>1
<1>3. refs' = [q \in Peer |-> refs'[q]]
  BY <1>1
<1> QED
  BY <1>2, <1>3

\* A coroutine that stops serving keeps the types.
LEMMA ServesType == ASSUME TypeOK, serves' = [serves EXCEPT ![co] = 0] PROVE serves' \in [Co -> 0..MaxReq]
<1>1. 0 \in 0..MaxReq
  BY LuaAssumption
<1> QED
  BY <1>1 DEF TypeOK

\* What the running coroutine does keeps the types.
LEMMA OperationType ==
  ASSUME TypeOK, Waits, Operation
  PROVE  TypeOK'
<1> USE DEF tables, queues, machine, world, ghosts
<1>0. Running => co \in Co /\ ops' \in 0..MaxOps
  BY LuaAssumption, RunningCo DEF Running, Op, TypeOK
<1>s. NewSession => session' \in Session /\ session' \in 0..MaxSession
  BY NextSession
<1>w. Running /\ serves[co] # 0 => serves[co] \in Req
  BY <1>0, LuaAssumption DEF TypeOK, Req
<1>1. ASSUME NEW p \in Peer, Call(p) PROVE TypeOK'
  BY <1>0, <1>1, <1>s DEF TypeOK, Call, Suspend
<1>2. ASSUME NEW how \in {"sleep", "wait"}, Sleep(how) PROVE TypeOK'
  BY <1>0, <1>2, <1>s DEF TypeOK, Sleep, Suspend
<1>3. ASSUME NEW c \in Co, Wakeup(c) PROVE TypeOK'
  BY SMTT(40), <1>0, <1>3 DEF TypeOK, Wakeup
<1>4. ASSUME NEW c \in Co, Timeout(c) PROVE TypeOK'
  BY <1>0, <1>4, <1>s DEF TypeOK, Timeout
<1>5. ASSUME NEW c \in Co, Fork(c) PROVE TypeOK'
  BY <1>0, <1>5 DEF TypeOK, Fork
<1>6. ASSUME NEW s \in Session, NEW c \in Co, remove_timeout(s, c) PROVE TypeOK'
  BY <1>0, <1>6 DEF TypeOK, remove_timeout
<1>7. ASSUME Ret PROVE TypeOK'
  <2>1. sent' \in [Req -> Seq({"RESPONSE", "ERROR"})]
    <3>1. CASE UNCHANGED sent
      BY <3>1 DEF TypeOK
    <3>2. CASE \E kind \in {"RESPONSE", "ERROR"} : Answer(serves[co], kind)
      BY <3>2, AnswerType
    <3> QED
      BY <1>7, <3>1, <3>2 DEF Ret
  <2> QED
    BY <1>0, <1>7, <2>1 DEF TypeOK, Ret
<1>8. ASSUME RetAgain \/ ResponseAgain PROVE TypeOK'
  <2>1. cut' \in BOOLEAN
    BY <1>8 DEF TypeOK, RetAgain, ResponseAgain, Throw
  <2>2. CASE RetAgain
    BY <1>0, <2>1, <2>2 DEF TypeOK, RetAgain, Throw
  <2>3. CASE ResponseAgain
    BY <1>0, <2>1, <2>3 DEF TypeOK, ResponseAgain, Throw
  <2> QED
    BY <1>8, <2>2, <2>3
<1>9. ASSUME Response PROVE TypeOK'
  <2>1. closure' \in [Req -> {"none", "open", "false", "used"}]
    BY <1>9 DEF TypeOK, Response
  <2>2. refs' \in [Peer -> Nat]
    <3>1. refs \in [Peer -> Nat] /\ refs' = [refs EXCEPT ![source[serves[co]]] = @ + 1]
      BY <1>9 DEF TypeOK, Response
    <3>2. ASSUME NEW q \in Peer PROVE refs'[q] \in Nat
      <4>1. refs[q] \in Nat /\ refs'[q] \in {refs[q], refs[q] + 1}
        BY <3>1
      <4> QED
        BY <4>1
    <3>3. refs' = [q \in Peer |-> refs'[q]]
      BY <3>1
    <3> QED
      BY <3>2, <3>3
  <2> QED
    BY <1>0, <1>9, <2>1, <2>2 DEF TypeOK, Response
<1>10. ASSUME NEW r \in Req, NEW ok \in BOOLEAN, Respond(r, ok) PROVE TypeOK'
  <2>1. sent' \in [Req -> Seq({"RESPONSE", "ERROR"})]
    <3>1. CASE UNCHANGED sent
      BY <3>1 DEF TypeOK
    <3>2. CASE \E kind \in {"RESPONSE", "ERROR"} : Answer(r, kind)
      BY <3>2, AnswerType
    <3> QED
      BY <1>10, <3>1, <3>2 DEF Respond
  <2>2. refs' \in [Peer -> Nat]
    BY <1>10, ReleaseType DEF Respond
  <2> QED
    BY <1>0, <1>10, <2>1, <2>2 DEF TypeOK, Respond
<1>11. ASSUME NEW r \in Req, Test(r) PROVE TypeOK'
  <2>1. refs' \in [Peer -> Nat]
    BY <1>11, ReleaseType DEF Test
  <2>2. retested' \in [Peer -> Nat]
    <3>1. retested \in [Peer -> Nat] /\ retested' \in {retested, [retested EXCEPT ![source[r]] = @ + 1]}
      BY <1>11 DEF TypeOK, Test
    <3>2. ASSUME NEW q \in Peer PROVE retested'[q] \in Nat
      <4>1. retested[q] \in Nat /\ retested'[q] \in {retested[q], retested[q] + 1}
        BY <3>1
      <4> QED
        BY <4>1
    <3>3. retested' = [q \in Peer |-> retested'[q]]
      BY <3>1
    <3> QED
      BY <3>2, <3>3
  <2>3. closure' \in [Req -> {"none", "open", "false", "used"}]
    BY <1>11 DEF TypeOK, Test
  <2> QED
    BY <1>0, <1>11, <2>1, <2>2, <2>3 DEF TypeOK, Test
<1>12. ASSUME Finish PROVE TypeOK'
  <2>1. refs' \in [Peer -> Nat]
    BY <1>12, ReleaseType DEF TypeOK, Finish
  <2>2. forgot' \subseteq Req
    BY <1>12, <1>w DEF TypeOK, Finish
  <2>3. serves' \in [Co -> 0..MaxReq]
    BY <1>12, ServesType DEF Finish
  <2> QED
    BY <1>0, <1>12, <2>1, <2>2, <2>3 DEF TypeOK, Finish, Suspend
<1>13. ASSUME Fail PROVE TypeOK'
  <2>1. sent' \in [Req -> Seq({"RESPONSE", "ERROR"})]
    BY <1>13, AnswerType DEF TypeOK, Fail
  <2>2. broken' \subseteq Req
    BY <1>13, <1>w DEF TypeOK, Fail
  <2>3. serves' \in [Co -> 0..MaxReq]
    BY <1>13, ServesType DEF Fail
  <2>4. cut' \in BOOLEAN
    BY <1>13 DEF TypeOK, Fail, Throw
  <2> QED
    BY <1>0, <1>13, <2>1, <2>2, <2>3, <2>4 DEF TypeOK, Fail, Throw
<1>14. ASSUME Exit PROVE TypeOK'
  <2>1. sent' \in [Req -> Seq({"RESPONSE", "ERROR"})]
    <3>1. \A r \in Req : sent[r] \in Seq({"RESPONSE", "ERROR"})
      BY DEF TypeOK
    <3>2. \A q \in Seq({"RESPONSE", "ERROR"}) : Append(q, "ERROR") \in Seq({"RESPONSE", "ERROR"})
      OBVIOUS
    <3> QED
      BY <1>14, <3>1, <3>2 DEF Exit
  <2>2. refs' \in [Peer -> Nat]
    <3>1. ASSUME NEW p \in Peer PROVE Cardinality({r \in Promised : source[r] = p}) \in Nat
      <4>1. IsFiniteSet(1..Len(source))
        BY FS_Interval DEF TypeOK
      <4>2. {r \in Promised : source[r] = p} \subseteq 1..Len(source)
        BY DEF Promised
      <4> QED
        BY <4>1, <4>2, FS_Subset, FS_CardinalityType
    <3>2. ASSUME NEW p \in Peer PROVE refs'[p] \in Nat
      <4>1. PICK n \in Nat : n = Cardinality({r \in Promised : source[r] = p})
        BY <3>1
      <4>2. refs'[p] = IF refs[p] > n THEN refs[p] - n ELSE 0
        BY <1>14, <4>1 DEF Exit
      <4> QED
        BY <4>2 DEF TypeOK
    <3> QED
      BY <1>14, <3>2 DEF Exit
  <2>3. closure' \in [Req -> {"none", "open", "false", "used"}]
    BY <1>14 DEF TypeOK, Exit
  <2>4. phase' \in {"idle", "run", "wake", "errs", "forks"} /\ owed' \in Nat
    BY <1>14 DEF TypeOK, Exit
  <2> QED
    BY <1>0, <1>14, <2>1, <2>2, <2>3, <2>4 DEF TypeOK, Exit
<1> QED
  BY <1>1, <1>2, <1>3, <1>4, <1>5, <1>6, <1>7, <1>8, <1>9, <1>10, <1>11, <1>12, <1>13, <1>14 DEF Operation

-----------------------------------------------------------------------------
(* Waits                                                                   *)

\* Nothing that concerns coroutine d changes; skynet.exit may drop it from
\* fork_queue.
LEMMA WaiterFrame ==
  ASSUME TypeOK, NEW d \in Co, Waiter(d), state'[d] = state[d], sleeping'[d] = sleeping[d],
         \A s \in Session : sid'[s] = d <=> sid[s] = d,
         \A s \in Session : sid[s] = d => (s \in due' <=> s \in due) /\ watching'[s] = watching[s],
         d \in forks' => d \in forks, d \in forks => d \in forks' \/ exited', exited => exited'
  PROVE  Waiter(d)'
<1>1. (Unknown(d)' <=> Unknown(d)) /\ \A s : Only(d, s)' <=> Only(d, s)
  BY DEF Unknown, Only
<1>2. sleeping[d] # 0 => sleeping[d] \in Session
  BY LuaAssumption DEF TypeOK, Session
<1>3. \A s \in Session : Only(d, s) => sid[s] = d
  BY DEF Only
<1>4. due \subseteq Session
  BY DEF TypeOK
<1> QED
  BY <1>1, <1>2, <1>3, <1>4 DEF Waiter

\* What a coroutine that is resumed was waiting for is of nobody else.
LEMMA Resumed ==
  ASSUME TypeOK, Waits, NEW c \in Co, NEW known, Resume(c, known), co = None,
         \A s \in Session : sid'[s] = sid[s] \/ (sid[s] = c /\ (sid'[s] = None \/ (sid'[s] = Break /\ sleeping[c] # 0))),
         Unknown(c)', due' \subseteq due, \A s \in due \ due' : sid[s] = c \/ sid[s] \notin Co,
         \A s \in due' : sid'[s] # None,
         forks' = forks \ {c}, session' = session, exited' = exited,
         \A i \in DOMAIN errq' : \E j \in DOMAIN errq : errq'[i] = errq[j],
         errq' \in Seq(Session)
  PROVE  Waits'
<1>1. Runner'
  BY LuaAssumption DEF TypeOK, Waits, Runner, Resume
<1>2. ASSUME NEW d \in Co PROVE Waiter(d)'
  <2>1. CASE d = c
    BY <2>1 DEF TypeOK, Waiter, Resume
  <2>2. CASE d # c
    <3>1. state'[d] = state[d] /\ sleeping'[d] = sleeping[d]
      BY <2>2 DEF TypeOK, Resume
    <3>2. \A s \in Session : sid[s] = d => watching'[s] = watching[s]
      BY <2>2 DEF Resume
    <3>3. \A s \in Session : (sid'[s] = d <=> sid[s] = d) /\ (sid[s] = d => (s \in due' <=> s \in due))
      BY <2>2, LuaAssumption
    <3> QED
      BY <2>2, <3>1, <3>2, <3>3, WaiterFrame DEF Waits
  <2> QED
    BY <2>1, <2>2
<1>3. ASSUME NEW s \in Session PROVE Timed(s)'
  <2>1. Timed(s) /\ Waiter(c) /\ sid[s] \in Co \cup {None, Break}
    BY DEF Waits, TypeOK
  <2>2. watching'[s] = watching[s] \/ watching'[s] = None
    BY DEF Resume
  <2>3. watching'[s] # None => sid[s] # c \/ state[c] # "call"
    BY DEF Resume
  <2>4. \A d \in Co \ {c} : state'[d] = state[d]
    BY DEF Resume, TypeOK
  <2> QED
    BY <2>1, <2>2, <2>3, <2>4, LuaAssumption DEF Timed
<1>4. ASSUME NEW i \in DOMAIN errq' PROVE Failing(errq[i])'
  <2>1. PICK j \in DOMAIN errq : errq'[i] = errq[j]
    OBVIOUS
  <2>2. errq[j] \in Session /\ Failing(errq[j]) /\ Timed(errq[j]) /\ Waiter(c)
    BY DEF Waits, TypeOK
  <2>3. PICK s \in Session : s = errq[j]
    BY <2>2
  <2>4. sid[s] # c => watching'[s] = watching[s]
    BY DEF Resume
  <2>5. sid[s] = c => state[c] = "call" /\ sid'[s] = None
    <3>1. sid[s] = c => watching[s] # None /\ state[c] = "call"
      BY <2>2, <2>3, LuaAssumption DEF Failing, Timed
    <3>2. state[c] = "call" => sleeping[c] = 0
      BY <2>2 DEF Waiter
    <3>3. sid[s] = c => sid'[s] # c
      BY DEF Unknown
    <3> QED
      BY <3>1, <3>2, <3>3
  <2>6. Failing(s)'
    BY <2>2, <2>3, <2>4, <2>5 DEF Failing
  <2> QED
    BY <2>1, <2>3, <2>6 DEF Failing
<1> QED
  BY <1>1, <1>2, <1>3, <1>4 DEF Waits

\* What is left of the error queue when its head is taken.
LEMMA TailErrors ==
  ASSUME TypeOK, errq # <<>>, errq' = Tail(errq)
  PROVE  \A i \in DOMAIN errq' : i + 1 \in DOMAIN errq /\ errq'[i] = errq[i + 1]
<1>1. errq \in Seq(Session) /\ Len(Tail(errq)) = Len(errq) - 1 /\ DOMAIN errq = 1..Len(errq) /\ DOMAIN Tail(errq) = 1..Len(Tail(errq))
  BY DEF TypeOK
<1> QED
  BY <1>1

\* An error queue that is not touched.
LEMMA SameErrors ==
  ASSUME errq' = errq
  PROVE  \A i \in DOMAIN errq' : \E j \in DOMAIN errq : errq'[i] = errq[j]
OBVIOUS

\* dispatch_wakeup resumes a coroutine that nothing else waits for any more.
LEMMA WakeupWaits ==
  ASSUME TypeOK, Waits, dispatch_wakeup
  PROVE  Waits'
<1> USE DEF world
<1>1. PICK c \in Co : c = Head(wakeq)
  BY TailSeq DEF TypeOK, dispatch_wakeup
<1>2. /\ sleeping[c] # 0 /\ phase = "wake" /\ UNCHANGED <<due, forks, session, exited, errq>>
      /\ Resume(c, [sid EXCEPT ![sleeping[c]] = Break])
  BY <1>1 DEF dispatch_wakeup
<1>3. PICK t \in Session : t = sleeping[c]
  BY <1>2, LuaAssumption DEF TypeOK, Session
<1>4. Waiter(c) /\ Only(c, t) /\ sid[t] = c /\ co = None /\ c \notin forks /\ state[c] \in {"sleep", "wait"}
  BY <1>2, <1>3 DEF Waits, Waiter, Only, Runner
<1>5. \A s \in Session : IF s = t THEN sid'[s] = IF state[c] = "wait" THEN None ELSE Break ELSE sid'[s] = sid[s]
  BY <1>2, <1>3 DEF Resume, TypeOK
<1>6. Unknown(c)' /\ \A s \in Session : sid'[s] = sid[s] \/ (sid[s] = c /\ (sid'[s] = None \/ (sid'[s] = Break /\ sleeping[c] # 0)))
  BY <1>2, <1>4, <1>5, LuaAssumption DEF Unknown, Only
<1>7. ASSUME NEW s \in due' PROVE sid'[s] # None
  <2>1. s \in Session /\ s \in due /\ Timed(s)
    BY <1>2 DEF TypeOK, Waits
  <2>2. s = t => state[c] = "sleep"
    BY <1>3, <1>4, <2>1 DEF Waiter
  <2> QED
    BY <1>5, <2>1, <2>2, LuaAssumption DEF Timed
<1>8. forks' = forks \ {c} /\ errq' \in Seq(Session)
  BY <1>2, <1>4 DEF TypeOK
<1> QED
  BY <1>2, <1>4, <1>6, <1>7, <1>8, SameErrors, Resumed

\* The session s of a call of c that is resumed, in error or with its response, or
\* of a timer of c that fires.
LEMMA ResumedBy ==
  ASSUME TypeOK, Waits, NEW s \in Session, NEW c \in Co, sid[s] = c, state[c] # "empty",
         Resume(c, [sid EXCEPT ![s] = None]), phase # "run",
         due' \subseteq due, s \notin due', \A t \in due \ due' : t = s,
         UNCHANGED <<forks, session, exited>>,
         \A i \in DOMAIN errq' : \E j \in DOMAIN errq : errq'[i] = errq[j], errq' \in Seq(Session)
  PROVE  Waits'
<1>1. Waiter(c) /\ co = None
  BY DEF Waits, Runner
<1>2. Only(c, s) /\ c \notin forks /\ (sleeping[c] # 0 => sleeping[c] = s)
  <2>1. state[c] \notin {"free", "run", "over"} /\ ~Unknown(c)
    BY <1>1 DEF Waiter, Unknown
  <2>2. \A t : Only(c, t) => t = s
    BY DEF Only
  <2> QED
    BY <1>1, <2>1, <2>2 DEF Waiter, TypeOK
<1>3. \A t \in Session : sid'[t] = IF t = s THEN None ELSE sid[t]
  BY <1>1, <1>2 DEF Resume, TypeOK, Waiter
<1>4. Unknown(c)' /\ \A t \in Session : sid'[t] = sid[t] \/ (sid[t] = c /\ sid'[t] = None)
  BY <1>2, <1>3, LuaAssumption DEF Unknown, Only
<1>5. \A t \in due' : sid'[t] # None
  BY <1>3 DEF TypeOK, Waits, Timed
<1>6. forks' = forks \ {c}
  BY <1>2
<1> QED
  BY <1>1, <1>4, <1>5, <1>6, Resumed

\* dispatch_error_queue resumes the caller of a dead service under its session.
LEMMA ErrorQueueWaits ==
  ASSUME TypeOK, Waits, dispatch_error_queue
  PROVE  Waits'
<1> USE DEF world
<1>1. /\ phase = "errs" /\ errq # <<>> /\ sid[Head(errq)] # None /\ errq' = Tail(errq)
      /\ UNCHANGED <<due, forks, session, exited>>
      /\ Resume(sid[Head(errq)], [sid EXCEPT ![Head(errq)] = None])
  BY DEF dispatch_error_queue
<1>2. errq' \in Seq(Session) /\ Head(errq) \in Session /\ 1 \in DOMAIN errq /\ errq[1] = Head(errq)
  BY <1>1, TailSeq DEF TypeOK
<1>3. PICK s \in Session : s = Head(errq)
  BY <1>2
<1>4. Failing(s) /\ Timed(s)
  BY <1>2, <1>3 DEF Waits
<1>5. sid[s] \in Co /\ state[sid[s]] = "call" /\ s \notin due
  BY <1>1, <1>3, <1>4 DEF Failing, Timed
<1>6. \A i \in DOMAIN errq' : \E j \in DOMAIN errq : errq'[i] = errq[j]
  BY <1>1, TailErrors
<1> QED
  BY <1>1, <1>2, <1>3, <1>5, <1>6, ResumedBy

\* A response resumes the coroutine of its session, which is forgotten.
LEMMA ResponseKnownWaits ==
  ASSUME TypeOK, Waits, NEW s \in Session, ResponseKnown(s)
  PROVE  Waits'
<1>1. /\ phase = "idle" /\ sid[s] \in Co /\ state[sid[s]] # "empty" /\ due' = due \ {s}
      /\ UNCHANGED <<forks, session, exited, errq>>
      /\ Resume(sid[s], [sid EXCEPT ![s] = None])
  BY DEF ResponseKnown, Message, queues
<1>2. errq' \in Seq(Session)
  BY <1>1 DEF TypeOK
<1> QED
  BY <1>1, <1>2, SameErrors, ResumedBy

\* A coroutine that starts was known under no session.
LEMMA Started ==
  ASSUME TypeOK, Waits, NEW c \in Co, Unknown(c), state[c] \in {"free", "ready"}, Resume(c, sid), phase # "run",
         UNCHANGED <<due, session, exited, errq>>, forks' = forks \ {c}
  PROVE  Waits'
<1>1. sid' = sid /\ co = None /\ errq' \in Seq(Session)
  BY DEF Resume, Waits, Runner, TypeOK
<1>2. Unknown(c)' /\ \A s \in due' : sid'[s] # None
  BY <1>1 DEF Unknown, Waits, Timed, TypeOK
<1> QED
  BY <1>1, <1>2, SameErrors, Resumed

\* A request takes a coroutine that waits for nothing.
LEMMA RequestWaits ==
  ASSUME TypeOK, Waits, NEW p \in Peer, NEW call \in BOOLEAN, NEW c \in Co, Request(p, call, c)
  PROVE  Waits'
<1>1. /\ phase = "idle" /\ state[c] = "free" /\ Resume(c, sid) /\ UNCHANGED <<due, session, exited, errq, forks>>
  BY DEF Request, Message, Free, queues
<1>2. Unknown(c) /\ forks' = forks \ {c}
  BY <1>1 DEF Waits, Waiter
<1> QED
  BY <1>1, <1>2, Started

\* A forked function begins in a coroutine of its own.
LEMMA RunForkWaits ==
  ASSUME TypeOK, Waits, NEW c \in Co, RunFork(c)
  PROVE  Waits'
<1>1. /\ phase = "forks" /\ c \in forks /\ Resume(c, sid) /\ UNCHANGED <<due, session, exited, errq>>
      /\ forks' = forks \ {c}
  BY DEF RunFork, queues, world
<1>2. Unknown(c) /\ state[c] = "ready"
  BY <1>1 DEF Waits, Waiter
<1> QED
  BY <1>1, <1>2, Started

\* The running coroutine ends, or the step does not touch the waiters at all.
LEMMA Ended ==
  ASSUME TypeOK, Waits, UNCHANGED <<sid, sleeping, watching, due, session>>,
         \/ state' = state /\ co' = co /\ (phase' = "run" <=> phase = "run")
         \/ /\ phase = "run" /\ phase' # "run" /\ co' = None
            /\ \E x \in {"free", "over"} : state' = [state EXCEPT ![co] = x],
         forks' = forks \/ (forks' = {} /\ exited'), exited => exited',
         \A i \in DOMAIN errq' : \E j \in DOMAIN errq : errq'[i] = errq[j]
  PROVE  Waits'
<1>0. phase = "run" => co \in Co
  BY RunningCo
<1>1. Runner'
  <2>1. CASE state' = state /\ co' = co /\ (phase' = "run" <=> phase = "run")
    BY <2>1 DEF Waits, Runner
  <2>2. CASE /\ phase = "run" /\ phase' # "run" /\ co' = None
             /\ \E x \in {"free", "over"} : state' = [state EXCEPT ![co] = x]
    <3>1. \A c \in Co : c # None
      BY LuaAssumption
    <3>2. \A c \in Co : c # co => state'[c] = state[c] /\ state[c] # "run"
      BY <2>2 DEF TypeOK, Waits, Runner
    <3>3. state'[co] # "run"
      BY <1>0, <2>2 DEF TypeOK
    <3>4. \A c \in Co : state'[c] # "run"
      BY <3>2, <3>3
    <3> QED
      BY <2>2, <3>1, <3>4 DEF Runner
  <2> QED
    BY <2>1, <2>2
<1>2. ASSUME NEW d \in Co PROVE Waiter(d)'
  <2>1. CASE state'[d] = state[d]
    BY <2>1, WaiterFrame DEF Waits
  <2>2. CASE state'[d] # state[d]
    <3>1. d = co /\ state[d] = "run" /\ state'[d] \in {"free", "over"} /\ Waiter(d)
      BY <2>2, <1>0 DEF TypeOK, Waits, Runner
    <3>2. Unknown(d) /\ d \notin forks /\ sleeping[d] = 0
      BY <3>1 DEF Waiter
    <3>3. Unknown(d)' /\ d \notin forks' /\ sleeping'[d] = 0
      BY <3>2 DEF Unknown
    <3> QED
      BY <3>1, <3>3 DEF Waiter
  <2> QED
    BY <2>1, <2>2
<1>3. ASSUME NEW s \in Session PROVE Timed(s)'
  <2>1. Timed(s)
    BY DEF Waits
  <2>2. \A d \in Co : state[d] = "call" => state'[d] = "call"
    BY <1>0 DEF TypeOK, Waits, Runner
  <2> QED
    BY <2>1, <2>2 DEF Timed
<1>4. ASSUME NEW i \in DOMAIN errq' PROVE Failing(errq[i])'
  <2>1. PICK j \in DOMAIN errq : errq'[i] = errq[j]
    OBVIOUS
  <2> QED
    BY <2>1 DEF Waits, Failing
<1> QED
  BY <1>1, <1>2, <1>3, <1>4 DEF Waits

\* Session t is new: no coroutine is known under it and no error is about it.
\* It becomes the session of c, which is the running coroutine or a free one.
LEMMA Enters ==
  ASSUME TypeOK, Waits, NewSession, NEW c \in Co, state[c] \in {"run", "free"},
         sid' = [sid EXCEPT ![session'] = c],
         NEW x \in {"call", "sleep", "wait", "ready"}, state' = [state EXCEPT ![c] = x],
         sleeping' = IF x \in {"sleep", "wait"} THEN [sleeping EXCEPT ![c] = session'] ELSE sleeping,
         IF x = "call" THEN \E p \in Peer : watching' = [watching EXCEPT ![session'] = p] ELSE watching' = watching,
         due' = IF x \in {"sleep", "ready"} THEN due \cup {session'} ELSE due,
         IF state[c] = "run" THEN co' = None /\ phase' # "run" ELSE co' = co /\ phase' = phase,
         UNCHANGED <<forks, exited, errq>>
  PROVE  Waits'
<1>t. PICK t \in Session : t = session' /\ t = session + 1 /\ session \in Nat
  BY NextSession
<1>0. Timed(t) /\ sid[t] = None /\ watching[t] = None /\ t \notin due
  BY <1>t DEF Waits, Timed, Session
<1>a. Waiter(c) /\ Unknown(c) /\ c \notin forks /\ sleeping[c] = 0
  BY DEF Waits, Waiter
<1>b. \A s \in Session : sid'[s] = IF s = t THEN c ELSE sid[s]
  BY <1>t DEF TypeOK
<1>c. \A s \in Session \ {t} : watching'[s] = watching[s] /\ (s \in due' <=> s \in due)
  BY <1>t DEF TypeOK
<1>d. state'[c] = x /\ \A d \in Co \ {c} : state'[d] = state[d] /\ sleeping'[d] = sleeping[d]
  BY DEF TypeOK
<1>1. Runner'
  BY <1>d, LuaAssumption DEF TypeOK, Waits, Runner
<1>2. ASSUME NEW d \in Co PROVE Waiter(d)'
  <2>1. CASE d # c
    <3>1. Waiter(d) /\ d # None /\ \A s \in Session : sid'[s] = d <=> sid[s] = d
      BY <1>0, <1>b, <2>1, LuaAssumption DEF Waits
    <3>2. \A s \in Session : sid[s] = d => (s \in due' <=> s \in due) /\ watching'[s] = watching[s]
      BY <1>0, <1>c, <3>1
    <3> QED
      BY <1>d, <2>1, <3>1, <3>2, WaiterFrame
  <2>2. CASE d = c
    <3>1. Only(c, t)'
      BY <1>a, <1>b DEF Only, Unknown
    <3>2. t # 0 /\ (x \in {"sleep", "wait"} => sleeping'[c] = t) /\ (x \in {"call", "ready"} => sleeping'[c] = 0)
      BY <1>t, <1>a DEF TypeOK
    <3>3. x \in {"sleep", "ready"} <=> t \in due'
      BY <1>0, <1>t
    <3>4. x = "call" => watching'[t] # None
      BY <1>t, LuaAssumption DEF TypeOK
    <3>5. c \notin forks'
      BY <1>a
    <3> QED
      BY <1>d, <2>2, <3>1, <3>2, <3>3, <3>4, <3>5 DEF Waiter
  <2> QED
    BY <2>1, <2>2
<1>3. ASSUME NEW s \in Session PROVE Timed(s)'
  <2>1. CASE s # t
    <3>1. Timed(s) /\ sid[s] # c
      BY <1>a DEF Waits, Unknown
    <3> QED
      BY <1>t, <1>b, <1>c, <1>d, <2>1, <3>1 DEF Timed, Session
  <2>2. CASE s = t
    <3>1. sid'[t] = c /\ c # None
      BY <1>b, LuaAssumption
    <3>2. watching'[t] # None => x = "call"
      BY <1>0
    <3>3. x = "call" => t \notin due'
      BY <1>0
    <3> QED
      BY <1>t, <1>d, <2>2, <3>1, <3>2, <3>3 DEF Timed
  <2> QED
    BY <2>1, <2>2
<1>4. ASSUME NEW i \in DOMAIN errq' PROVE Failing(errq[i])'
  <2>1. errq[i] \in Session /\ Failing(errq[i]) /\ errq' = errq
    BY DEF TypeOK, Waits
  <2>2. errq[i] # t
    BY <1>t, <2>1 DEF Failing
  <2> QED
    BY <1>t, <1>b, <1>c, <2>1, <2>2 DEF Failing, Session
<1> QED
  BY <1>1, <1>2, <1>3, <1>4 DEF Waits

\* skynet.fork takes a coroutine that waits for nothing.
LEMMA ForkWaits ==
  ASSUME TypeOK, Waits, NEW c \in Co, Fork(c)
  PROVE  Waits'
<1>1. /\ state[c] = "free" /\ state' = [state EXCEPT ![c] = "ready"] /\ forks' = forks \cup {c}
      /\ UNCHANGED <<sid, sleeping, watching, due, session, exited, errq, co, phase>>
  BY DEF Fork, Free, queues, world
<1>2. Runner'
  BY <1>1, LuaAssumption DEF TypeOK, Waits, Runner
<1>3. ASSUME NEW d \in Co PROVE Waiter(d)'
  <2>1. CASE d # c
    <3>1. Waiter(d) /\ state'[d] = state[d] /\ (d \in forks' <=> d \in forks)
      BY <1>1, <2>1 DEF Waits, TypeOK
    <3> QED
      BY <1>1, <3>1, WaiterFrame
  <2>2. CASE d = c
    <3>1. Unknown(c) /\ sleeping[c] = 0 /\ state'[c] = "ready"
      BY <1>1 DEF Waits, Waiter, TypeOK
    <3>2. Unknown(c)'
      BY <1>1, <3>1 DEF Unknown
    <3> QED
      BY <1>1, <2>2, <3>1, <3>2 DEF Waiter
  <2> QED
    BY <2>1, <2>2
<1>4. ASSUME NEW s \in Session PROVE Timed(s)'
  BY <1>1 DEF Waits, Timed, TypeOK
<1> QED
  BY <1>1, <1>2, <1>3, <1>4 DEF Waits, Failing

\* A timeout that is removed leaves its session to a coroutine that does nothing.
LEMMA RemoveTimeoutWaits ==
  ASSUME TypeOK, Waits, NEW s \in Session, NEW c \in Co, remove_timeout(s, c)
  PROVE  Waits'
<1>1. /\ sid[s] \in Co /\ state[sid[s]] = "ready" /\ state[c] = "free"
      /\ state' = [state EXCEPT ![c] = "empty", ![sid[s]] = "over"]
      /\ sid' = [sid EXCEPT ![s] = c]
      /\ UNCHANGED <<sleeping, watching, due, session, forks, exited, errq, co, phase>>
  BY DEF remove_timeout, Free, queues, world
<1>o. PICK o \in Co : o = sid[s]
  BY <1>1
<1>2. Waiter(o) /\ Waiter(c) /\ o # c /\ Unknown(c) /\ c \notin forks /\ sleeping[c] = 0 /\ sleeping[o] = 0
  BY <1>1, <1>o DEF Waits, Waiter
<1>3. Only(o, s) /\ s \in due /\ o \notin forks
  <2>1. ~Unknown(o) /\ \A t : Only(o, t) => t = s
    BY <1>o DEF Unknown, Only
  <2> QED
    BY <1>1, <1>o, <1>2, <2>1 DEF Waiter, TypeOK
<1>a. \A t \in Session : sid'[t] = IF t = s THEN c ELSE sid[t]
  BY <1>1 DEF TypeOK
<1>b. state'[c] = "empty" /\ state'[o] = "over" /\ \A d \in Co \ {c, o} : state'[d] = state[d]
  BY <1>1, <1>o, <1>2 DEF TypeOK
<1>4. Runner'
  BY <1>1, <1>b, <1>o, LuaAssumption DEF TypeOK, Waits, Runner
<1>5. ASSUME NEW d \in Co PROVE Waiter(d)'
  <2>1. CASE d \notin {c, o}
    <3>1. Waiter(d) /\ \A t \in Session : sid'[t] = d <=> sid[t] = d
      BY <1>a, <1>o, <2>1 DEF Waits
    <3> QED
      BY <1>1, <1>b, <2>1, <3>1, WaiterFrame
  <2>2. CASE d = c
    <3>1. Only(c, s)'
      BY <1>2, <1>a DEF Only, Unknown
    <3> QED
      BY <1>1, <1>2, <1>3, <1>b, <2>2, <3>1 DEF Waiter
  <2>3. CASE d = o
    <3>1. Unknown(o)'
      BY <1>2, <1>3, <1>a DEF Only, Unknown
    <3> QED
      BY <1>1, <1>2, <1>3, <1>b, <2>3, <3>1 DEF Waiter
  <2> QED
    BY <2>1, <2>2, <2>3
<1>6. watching[s] = None
  BY <1>3 DEF Waits, Timed
<1>7. ASSUME NEW t \in Session PROVE Timed(t)'
  <2>1. Timed(t)
    BY DEF Waits
  <2>2. \A d \in Co : state[d] = "call" => state'[d] = "call"
    BY <1>1, <1>b, <1>o
  <2> QED
    BY <1>1, <1>6, <1>a, <2>1, <2>2, LuaAssumption DEF Timed
<1>8. ASSUME NEW i \in DOMAIN errq' PROVE Failing(errq[i])'
  <2>1. errq[i] \in Session /\ Failing(errq[i]) /\ errq' = errq
    BY <1>1 DEF TypeOK, Waits
  <2>2. errq[i] # s
    BY <1>3, <2>1 DEF Failing
  <2> QED
    BY <1>1, <1>a, <2>1, <2>2 DEF Failing
<1> QED
  BY <1>4, <1>5, <1>7, <1>8 DEF Waits

\* A timer's session ends, and with it the coroutine that remove_timeout put in
\* the place of another.
LEMMA TimerWaits ==
  ASSUME TypeOK, Waits, NEW s \in Session, ResponseRemoved(s) \/ ResponseLate(s)
  PROVE  Waits'
<1>1. /\ phase = "idle" /\ phase' # "run" /\ co' = co /\ sid' = [sid EXCEPT ![s] = None] /\ due' = due \ {s}
      /\ UNCHANGED <<sleeping, watching, session, forks, exited, errq>>
      /\ \/ s \in due /\ sid[s] \in Co /\ state[sid[s]] = "empty" /\ state' = [state EXCEPT ![sid[s]] = "free"]
         \/ sid[s] \notin Co /\ state' = state
  BY LuaAssumption DEF ResponseRemoved, ResponseLate, Message, queues
<1>a. \A t \in Session : sid'[t] = IF t = s THEN None ELSE sid[t]
  BY <1>1 DEF TypeOK
<1>2. Runner'
  BY <1>1, LuaAssumption DEF TypeOK, Waits, Runner
<1>3. ASSUME NEW d \in Co PROVE Waiter(d)'
  <2>0. Waiter(d)
    BY DEF Waits
  <2>1. CASE d # sid[s]
    <3>1. state'[d] = state[d]
      BY <1>1, <2>1 DEF TypeOK
    <3>2. \A t \in Session : sid'[t] = d <=> sid[t] = d
      BY <1>a, <2>1, LuaAssumption
    <3>3. \A t \in Session : sid[t] = d => (t \in due' <=> t \in due)
      BY <1>1, <2>1
    <3> QED
      BY <1>1, <2>0, <3>1, <3>2, <3>3, WaiterFrame
  <2>2. CASE d = sid[s]
    <3>1. state[d] = "empty" /\ state'[d] = "free"
      BY <1>1, <2>2 DEF TypeOK
    <3>2. Only(d, s) /\ sleeping[d] = 0 /\ d \notin forks
      <4>1. \A t : Only(d, t) => t = s
        BY <2>2 DEF Only
      <4> QED
        BY <2>0, <3>1, <4>1 DEF Waiter
    <3>3. Unknown(d)'
      BY <1>a, <3>2, LuaAssumption DEF Only, Unknown
    <3> QED
      BY <1>1, <3>1, <3>2, <3>3 DEF Waiter
  <2> QED
    BY <2>1, <2>2
<1>4. ASSUME NEW t \in Session PROVE Timed(t)'
  <2>1. Timed(t)
    BY DEF Waits
  <2>2. \A d \in Co : state[d] = "call" => state'[d] = "call"
    BY <1>1 DEF TypeOK
  <2>3. watching[s] = None
    BY <1>1 DEF Waits, Timed
  <2> QED
    BY <1>1, <1>a, <2>1, <2>2, <2>3 DEF Timed
<1>5. ASSUME NEW i \in DOMAIN errq' PROVE Failing(errq[i])'
  <2>1. errq[i] \in Session /\ Failing(errq[i]) /\ errq' = errq
    BY <1>1 DEF TypeOK, Waits
  <2> QED
    BY <1>1, <1>a, <2>1 DEF Failing
<1> QED
  BY <1>2, <1>3, <1>4, <1>5 DEF Waits

\* The new entries of error_queue are sessions of calls that wait.
LEMMA ErrorWaits ==
  ASSUME TypeOK, Waits, phase # "run", phase' # "run",
         UNCHANGED <<sid, sleeping, watching, due, session, forks, exited, state, co>>,
         \A i \in DOMAIN errq' : (\E j \in DOMAIN errq : errq'[i] = errq[j]) \/ (errq'[i] \in Session /\ watching[errq'[i]] # None)
  PROVE  Waits'
<1>1. Runner'
  BY DEF Waits, Runner
<1>2. ASSUME NEW d \in Co PROVE Waiter(d)'
  BY WaiterFrame DEF Waits
<1>3. ASSUME NEW s \in Session PROVE Timed(s)'
  BY DEF Waits, Timed
<1>4. ASSUME NEW i \in DOMAIN errq' PROVE Failing(errq[i])'
  <2>1. CASE \E j \in DOMAIN errq : errq'[i] = errq[j]
    BY <2>1 DEF Waits, Failing
  <2>2. CASE errq'[i] \in Session /\ watching[errq'[i]] # None
    <3>1. PICK s \in Session : s = errq'[i]
      BY <2>2
    <3>2. Timed(s) /\ s <= session
      BY <2>2, <3>1 DEF Waits, Timed, TypeOK, Session
    <3> QED
      BY <2>2, <3>1, <3>2 DEF Failing, Timed
  <2> QED
    BY <2>1, <2>2
<1> QED
  BY <1>1, <1>2, <1>3, <1>4 DEF Waits

\* A message that comes in keeps every waiting coroutine known.
LEMMA IncomingWaits ==
  ASSUME TypeOK, Waits, Incoming
  PROVE  Waits'
<1>1. ASSUME NEW s \in Session, ErrorMessage(s) PROVE Waits'
  <2>1. /\ phase # "run" /\ phase' # "run" /\ errq' = (IF watching[s] # None THEN Append(errq, s) ELSE errq)
        /\ UNCHANGED <<sid, sleeping, watching, due, session, forks, exited, state, co>>
    BY <1>1 DEF ErrorMessage, Message, tables, world
  <2>2. \A i \in DOMAIN errq' : (\E j \in DOMAIN errq : errq'[i] = errq[j]) \/ (errq'[i] \in Session /\ watching[errq'[i]] # None)
    BY <2>1 DEF TypeOK
  <2> QED
    BY <2>1, <2>2, ErrorWaits
<1>2. ASSUME NEW p \in Peer, ServiceDown(p) PROVE Waits'
  <2>1. /\ phase # "run" /\ phase' # "run"
        /\ UNCHANGED <<sid, sleeping, watching, due, session, forks, exited, state, co>>
    BY <1>2 DEF ServiceDown, Message, world
  <2>2. PICK q \in SetToSeqs({s \in Session : watching[s] = p}) : errq' = errq \o q
    BY <1>2 DEF ServiceDown
  <2>3. q \in Seq({s \in Session : watching[s] = p}) /\ errq \in Seq(Session) /\ p # None
    BY Orders, SessionsFinite, LuaAssumption DEF TypeOK
  <2>4. \A i \in DOMAIN errq' : (\E j \in DOMAIN errq : errq'[i] = errq[j]) \/ (errq'[i] \in Session /\ watching[errq'[i]] # None)
    BY <2>2, <2>3
  <2> QED
    BY <2>1, <2>4, ErrorWaits
<1> QED
  BY <1>1, <1>2, RequestWaits, ResponseKnownWaits, TimerWaits DEF Incoming

\* What the running coroutine does keeps every waiting coroutine known.
LEMMA OperationWaits ==
  ASSUME TypeOK, Waits, Operation
  PROVE  Waits'
<1> USE DEF tables, queues, machine, world
<1>0. Running => phase = "run" /\ co \in Co /\ state[co] = "run"
  BY RunningCo DEF Running, Waits, Runner
<1>1. ASSUME NEW p \in Peer, Call(p) PROVE Waits'
  <2>1. /\ sid' = [sid EXCEPT ![session'] = co] /\ state' = [state EXCEPT ![co] = "call"] /\ sleeping' = sleeping
        /\ watching' = [watching EXCEPT ![session'] = p] /\ due' = due /\ co' = None /\ phase' # "run"
        /\ UNCHANGED <<forks, exited, errq>> /\ NewSession /\ co \in Co /\ state[co] = "run"
    BY <1>0, <1>1 DEF Call, Suspend
  <2> QED
    BY <2>1, Enters
<1>2. ASSUME NEW how \in {"sleep", "wait"}, Sleep(how) PROVE Waits'
  <2>1. /\ sid' = [sid EXCEPT ![session'] = co] /\ state' = [state EXCEPT ![co] = how]
        /\ sleeping' = [sleeping EXCEPT ![co] = session']
        /\ watching' = watching /\ due' = (IF how = "sleep" THEN due \cup {session'} ELSE due)
        /\ co' = None /\ phase' # "run"
        /\ UNCHANGED <<forks, exited, errq>> /\ NewSession /\ co \in Co /\ state[co] = "run"
    BY <1>0, <1>2 DEF Sleep, Suspend
  <2> QED
    BY <2>1, Enters
<1>3. ASSUME NEW c \in Co, Timeout(c) PROVE Waits'
  <2>1. /\ sid' = [sid EXCEPT ![session'] = c] /\ state' = [state EXCEPT ![c] = "ready"] /\ sleeping' = sleeping
        /\ watching' = watching /\ due' = due \cup {session'} /\ co' = co /\ phase' = phase
        /\ UNCHANGED <<forks, exited, errq>> /\ NewSession /\ state[c] = "free"
    BY <1>3 DEF Timeout, Free
  <2> QED
    BY <2>1, Enters
<1>4. ASSUME (\E c \in Co : Wakeup(c)) \/ Ret \/ Response \/ (\E r \in Req : Test(r) \/ \E ok \in BOOLEAN : Respond(r, ok))
      PROVE  Waits'
  <2>1. UNCHANGED <<sid, sleeping, watching, due, session, state, co, phase, forks, exited, errq>>
    BY <1>4 DEF Wakeup, Ret, Response, Test, Respond
  <2> QED
    BY <2>1, SameErrors, Ended
<1>5. ASSUME RetAgain \/ ResponseAgain \/ Fail PROVE Waits'
  <2>1. /\ UNCHANGED <<sid, sleeping, watching, due, session, forks, exited, errq>>
        /\ phase = "run" /\ phase' # "run" /\ co' = None /\ state' = [state EXCEPT ![co] = "over"]
    BY <1>0, <1>5 DEF RetAgain, ResponseAgain, Fail, Throw
  <2> QED
    BY <2>1, SameErrors, Ended
<1>6. ASSUME Finish PROVE Waits'
  <2>1. /\ UNCHANGED <<sid, sleeping, watching, due, session, forks, exited, errq>>
        /\ phase = "run" /\ phase' # "run" /\ co' = None /\ state' = [state EXCEPT ![co] = "free"]
    BY <1>0, <1>6 DEF Finish, Suspend
  <2> QED
    BY <2>1, SameErrors, Ended
<1>7. ASSUME Exit PROVE Waits'
  <2>1. /\ UNCHANGED <<sid, sleeping, watching, due, session, errq>> /\ forks' = {} /\ exited'
        /\ phase = "run" /\ phase' # "run" /\ co' = None /\ state' = [state EXCEPT ![co] = "over"]
    BY <1>0, <1>7 DEF Exit
  <2> QED
    BY <2>1, SameErrors, Ended
<1> QED
  BY <1>1, <1>2, <1>3, <1>4, <1>5, <1>6, <1>7, ForkWaits, RemoveTimeoutWaits DEF Operation

\* The scheduler keeps every waiting coroutine known.
LEMMA SchedulerWaits ==
  ASSUME TypeOK, Waits, Scheduler
  PROVE  Waits'
<1> USE DEF tables, queues, world
<1>1. ASSUME WakeupStale \/ WakeupNone \/ ErrorNone \/ MessageDone PROVE Waits'
  <2>1. /\ UNCHANGED <<sid, sleeping, watching, due, session, state, co, forks, exited, errq>>
        /\ phase # "run" /\ phase' # "run"
    BY <1>1 DEF WakeupStale, WakeupNone, ErrorNone, MessageDone
  <2> QED
    BY <2>1, SameErrors, Ended
<1>2. ASSUME ErrorUnknown PROVE Waits'
  <2>1. /\ UNCHANGED <<sid, sleeping, watching, due, session, state, forks, exited>>
        /\ phase # "run" /\ phase' # "run" /\ co' = None /\ errq # <<>> /\ errq' = Tail(errq)
    BY <1>2 DEF ErrorUnknown
  <2>2. co = None
    BY <2>1 DEF Waits, Runner
  <2>3. \A i \in DOMAIN errq' : \E j \in DOMAIN errq : errq'[i] = errq[j]
    BY <2>1, TailErrors
  <2> QED
    BY <2>1, <2>2, <2>3, Ended
<1> QED
  BY <1>1, <1>2, WakeupWaits, ErrorQueueWaits, RunForkWaits DEF Scheduler

-----------------------------------------------------------------------------
(* Queues                                                                  *)

\* error_queue holds different calls that wait.
Sound == /\ \A i \in DOMAIN errq : watching[errq[i]] # None
         /\ \A i, j \in DOMAIN errq : errq[i] = errq[j] => i = j

\* An empty error queue has no call that was answered meanwhile.
LEMMA EmptySound == errq = <<>> => Sound
BY DEF Sound

\* The invariant of the queues in terms of the sound error queue.
LEMMA QueuesSound ==
  Queues <=> (cut \/ exited \/ /\ phase \in {"idle", "forks"} => wakeq = <<>> /\ errq = <<>>
                               /\ phase = "errs" => wakeq = <<>>
                               /\ Sound)
BY DEF Queues, Sound

\* A message that comes in finds the queues done.
LEMMA IncomingQueues ==
  ASSUME TypeOK, Waits, Queues, Incoming
  PROVE  Queues'
<1> USE DEF tables, queues, machine, world
<1>1. phase = "idle" /\ cut' = cut /\ exited' = exited /\ wakeq' = wakeq /\ phase' \in {"run", "wake", "forks"}
  BY DEF Incoming, Request, ResponseKnown, ResponseRemoved, ResponseLate, ErrorMessage, ServiceDown, Message, Resume
<1>2. CASE cut \/ exited
  BY <1>1, <1>2 DEF Queues
<1>3. CASE ~cut /\ ~exited
  <2>1. wakeq = <<>> /\ errq = <<>>
    BY <1>1, <1>3 DEF Queues
  <2>2. CASE errq' = errq
    BY <1>1, <2>1, <2>2, EmptySound DEF Queues
  <2>3. ASSUME NEW s \in Session, ErrorMessage(s) PROVE Queues'
    <3>1. errq' = errq \/ (watching[s] # None /\ errq' = <<s>>)
      BY <2>1, <2>3 DEF ErrorMessage
    <3>2. CASE watching[s] # None /\ errq' = <<s>>
      <4>1. phase' = "wake" /\ watching' = watching
        BY <2>3 DEF ErrorMessage
      <4>2. DOMAIN <<s>> = 1..1 /\ <<s>>[1] = s
        OBVIOUS
      <4>3. \A i \in DOMAIN errq' : i = 1 /\ errq'[i] = s
        BY <3>2, <4>2
      <4> QED
        BY <3>2, <4>1, <4>3 DEF Queues
    <3> QED
      BY <2>2, <3>1, <3>2
  <2>4. ASSUME NEW p \in Peer, ServiceDown(p) PROVE Queues'
    <3>1. PICK q \in SetToSeqs({s \in Session : watching[s] = p}) : errq' = errq \o q
      BY <2>4 DEF ServiceDown
    <3>2. q \in Seq({s \in Session : watching[s] = p}) /\ \A i, j \in DOMAIN q : q[i] = q[j] => i = j
      BY Orders, SessionsFinite
    <3>3. errq' = q
      BY <2>1, <3>1, <3>2
    <3>4. phase' = "wake" /\ watching' = watching /\ p # None
      BY <2>4, LuaAssumption DEF ServiceDown
    <3>5. \A i \in DOMAIN q : watching[q[i]] = p
      BY <3>2
    <3> QED
      BY <3>2, <3>3, <3>4, <3>5 DEF Queues
  <2>5. ASSUME \/ \E p \in Peer, call \in BOOLEAN, c \in Co : Request(p, call, c)
               \/ \E s \in Session : ResponseKnown(s) \/ ResponseRemoved(s) \/ ResponseLate(s)
        PROVE  errq' = errq
    BY <2>5 DEF Request, ResponseKnown, ResponseRemoved, ResponseLate
  <2> QED
    BY <2>2, <2>3, <2>4, <2>5 DEF Incoming
<1> QED
  BY <1>2, <1>3

\* What the running coroutine queues is done before the service is idle.
LEMMA OperationQueues ==
  ASSUME TypeOK, Waits, Queues, Operation
  PROVE  Queues'
<1> USE DEF tables, queues, machine, world
<1>1. phase = "run" /\ errq' = errq
  BY DEF Operation, Call, Sleep, Wakeup, Timeout, Fork, remove_timeout, Ret, RetAgain, Response, ResponseAgain, Finish, Fail,
         Exit, Test, Respond, Running
<1>2. ASSUME UNCHANGED <<cut, exited>>, phase' \in {"run", "wake"}, Sound => Sound' PROVE Queues'
  BY <1>1, <1>2, QueuesSound DEF Queues, Sound
<1>3. ASSUME NEW p \in Peer, Call(p) PROVE Queues'
  <2>1. NewSession /\ watching' = [watching EXCEPT ![session'] = p] /\ phase' = "wake" /\ UNCHANGED <<cut, exited>>
    BY <1>3 DEF Call, Suspend
  <2>2. \A i \in DOMAIN errq : errq[i] # session' /\ errq[i] \in Session
    BY <2>1, NextSession DEF Waits, Failing, TypeOK
  <2>3. Sound => Sound'
    BY <1>1, <2>1, <2>2 DEF Sound, TypeOK
  <2> QED
    BY <1>2, <2>1, <2>3
<1>4. ASSUME RetAgain \/ ResponseAgain \/ Fail PROVE Queues'
  BY <1>1, <1>4 DEF RetAgain, ResponseAgain, Fail, Throw, Queues
<1>5. ASSUME Exit PROVE Queues'
  BY <1>5 DEF Exit, Queues
<1>6. ASSUME UNCHANGED <<cut, exited, watching>>, phase' \in {"run", "wake"} PROVE Queues'
  <2>1. Sound => Sound'
    BY <1>1, <1>6 DEF Sound
  <2> QED
    BY <1>2, <1>6, <2>1
<1>7. ASSUME \/ \E how \in {"sleep", "wait"} : Sleep(how)
             \/ \E c \in Co : Wakeup(c) \/ Timeout(c) \/ Fork(c)
             \/ \E s \in Session, c \in Co : remove_timeout(s, c)
             \/ Ret \/ Response \/ Finish
             \/ \E r \in Req : Test(r) \/ \E ok \in BOOLEAN : Respond(r, ok)
      PROVE  UNCHANGED <<cut, exited, watching>> /\ phase' \in {"run", "wake"}
  BY <1>1, <1>7 DEF Sleep, Wakeup, Timeout, Fork, remove_timeout, Ret, Response, Finish, Test, Respond, Suspend
<1> QED
  BY <1>3, <1>4, <1>5, <1>6, <1>7 DEF Operation

\* suspend empties the wakeup queue first and the error queue next.
LEMMA SchedulerQueues ==
  ASSUME TypeOK, Waits, Queues, Scheduler
  PROVE  Queues'
<1> USE DEF tables, queues, machine, world
<1>0. exited' = exited
  BY DEF Scheduler, dispatch_wakeup, WakeupStale, WakeupNone, dispatch_error_queue, ErrorUnknown, ErrorNone,
         MessageDone, RunFork
<1>a. wakeq' = <<>> /\ errq' = <<>> => Queues'
  BY DEF Queues
<1>1. ASSUME dispatch_wakeup PROVE Queues'
  <2>1. PICK c \in Co : c = Head(wakeq)
    BY <1>1, TailSeq DEF TypeOK, dispatch_wakeup
  <2>2. state[c] # "call"
    BY <1>1, <2>1 DEF dispatch_wakeup, Waits, Waiter
  <2>3. watching' = watching /\ errq' = errq /\ phase' = "run"
    BY <1>1, <2>1, <2>2 DEF dispatch_wakeup, Resume, TypeOK
  <2>4. cut' = (cut /\ (wakeq' # <<>> \/ errq' # <<>>))
    BY <1>1, <2>3 DEF dispatch_wakeup, Drained
  <2>5. Sound => Sound'
    BY <2>3 DEF Sound
  <2>6. CASE cut
    BY <1>a, <2>4, <2>6 DEF Queues
  <2>7. CASE ~cut
    BY <1>0, <2>3, <2>5, <2>7, QueuesSound DEF Queues, Sound
  <2> QED
    BY <2>6, <2>7
<1>2. ASSUME WakeupStale PROVE Queues'
  <2>1. /\ phase' = "errs" /\ errq' = errq /\ watching' = watching
        /\ cut' = (wakeq' # <<>> \/ (cut /\ errq # <<>>))
    BY <1>2 DEF WakeupStale
  <2>2. Sound => Sound'
    BY <2>1 DEF Sound
  <2>3. CASE cut
    BY <1>a, <2>1, <2>3 DEF Queues
  <2>4. CASE ~cut
    BY <1>0, <2>1, <2>2, <2>4, QueuesSound DEF Queues, Sound
  <2> QED
    BY <2>3, <2>4
<1>3. ASSUME WakeupNone \/ ErrorNone \/ MessageDone PROVE Queues'
  <2>1. /\ UNCHANGED <<errq, wakeq, watching, cut, exited>>
        /\ \/ wakeq = <<>> /\ phase' = "errs"
           \/ errq = <<>> /\ phase = "errs"
           \/ phase = "forks"
    BY <1>3 DEF WakeupNone, ErrorNone, MessageDone
  <2>2. Sound => Sound'
    BY <2>1 DEF Sound
  <2> QED
    BY <1>a, <2>1, <2>2, QueuesSound DEF Queues, Sound
<1>4. ASSUME dispatch_error_queue \/ ErrorUnknown PROVE Queues'
  <2>1. /\ phase = "errs" /\ errq # <<>> /\ errq' = Tail(errq) /\ wakeq' = wakeq
        /\ cut' = (cut /\ (wakeq' # <<>> \/ errq' # <<>>))
    BY <1>4 DEF dispatch_error_queue, ErrorUnknown, Drained
  <2>2. CASE cut
    BY <1>a, <2>1, <2>2 DEF Queues
  <2>3. CASE exited
    BY <1>0, <2>3 DEF Queues
  <2>4. CASE ~cut /\ ~exited
    <3>1. Sound /\ wakeq = <<>>
      BY <2>1, <2>4 DEF Queues, Sound
    <3>2. PICK s \in Session : s = errq[1] /\ s = Head(errq) /\ 1 \in DOMAIN errq
      BY <2>1, TailSeq DEF TypeOK
    <3>3. watching[s] # None /\ Timed(s) /\ \A t \in Session : Timed(t)
      BY <3>1, <3>2 DEF Sound, Waits
    <3>4. PICK c \in Co : c = sid[s] /\ state[c] = "call" /\ c # None
      BY <3>3, LuaAssumption DEF Timed
    <3>5. \A t \in Session : sid[t] = c => t = s
      BY <3>4 DEF Waits, Waiter, Only
    <3>6. dispatch_error_queue
      BY <1>4, <3>2, <3>4 DEF ErrorUnknown
    <3>7. phase' = "run" /\ \A t \in Session \ {s} : watching'[t] = watching[t]
      BY <3>2, <3>4, <3>5, <3>6 DEF dispatch_error_queue, Resume
    <3>8. ASSUME NEW i \in DOMAIN errq'
          PROVE  i + 1 \in DOMAIN errq /\ errq'[i] = errq[i + 1] /\ errq'[i] \in Session \ {s} /\ i \in Nat
      <4>1. i + 1 \in DOMAIN errq /\ errq'[i] = errq[i + 1]
        BY <2>1, TailErrors
      <4>2. i \in Nat /\ i # 0
        BY <2>1 DEF TypeOK
      <4>3. errq[i + 1] \in Session
        BY <4>1 DEF TypeOK
      <4>4. errq[i + 1] # s
        BY <3>1, <3>2, <4>1, <4>2 DEF Sound
      <4> QED
        BY <4>1, <4>2, <4>3, <4>4
    <3>9. \A i \in DOMAIN errq' : watching'[errq'[i]] # None
      BY <3>1, <3>7, <3>8 DEF Sound
    <3>10. \A i, j \in DOMAIN errq' : errq'[i] = errq'[j] => i = j
      <4> SUFFICES ASSUME NEW i \in DOMAIN errq', NEW j \in DOMAIN errq', errq'[i] = errq'[j] PROVE i = j
        OBVIOUS
      <4>1. i + 1 = j + 1
        BY <3>1, <3>8 DEF Sound
      <4> QED
        BY <3>8, <4>1
    <3> QED
      BY <3>7, <3>9, <3>10 DEF Queues
  <2> QED
    BY <2>2, <2>3, <2>4
<1>5. ASSUME NEW c \in Co, RunFork(c) PROVE Queues'
  <2>1. phase = "forks" /\ phase' = "run" /\ UNCHANGED <<errq, wakeq, cut, exited>>
    BY <1>5 DEF RunFork, Resume
  <2> QED
    BY <1>a, <2>1 DEF Queues
<1> QED
  BY <1>1, <1>2, <1>3, <1>4, <1>5 DEF Scheduler

-----------------------------------------------------------------------------
(* Answers                                                                 *)

Kind == {"RESPONSE", "ERROR"}

\* What the invariant says of a call that came in.
LEMMA AnswersParts ==
  ASSUME TypeOK, Answers
  PROVE  /\ Calls \subseteq Req
         /\ \A r \in Calls : Answered(r) /\ Once(sent[r], r \in broken \/ exited)
<1>1. Calls \subseteq Req
  BY LuaAssumption DEF Answers, Calls, Req, TypeOK
<1>2. ASSUME NEW r \in Calls PROVE Answered(r)
  <2>1. EveryCallAnswered
    BY DEF Answers
  <2> QED
    BY <2>1, Zenon DEF EveryCallAnswered, Answered, Settled
<1>3. ASSUME NEW r \in Calls PROVE Once(sent[r], r \in broken \/ exited)
  BY DEF Answers, OneResponse, Once
<1> QED
  BY <1>1, <1>2, <1>3

\* The invariant of the answers from its parts.
LEMMA AnswersStep ==
  ASSUME Len(source') <= MaxReq, \A c \in Co : Server(c)', \A r \in Req : Promise(r)',
         \A r \in Calls' : Answered(r)' /\ Once(sent'[r], (r \in broken \/ exited)')
  PROVE  Answers'
<1>1. EveryCallAnswered'
  BY DEF EveryCallAnswered, Answered, Settled
<1>2. OneResponse'
  BY DEF OneResponse, Once
<1> QED
  BY <1>1, <1>2 DEF Answers

\* An answer is added to those of a request that may still get it.
LEMMA Told ==
  ASSUME NEW q \in Seq(Kind), NEW kind \in Kind, NEW ok \in BOOLEAN, NEW then \in BOOLEAN,
         Once(q, ok), ok => then, kind = "ERROR" \/ (Errors(q) /\ (q = <<>> \/ then))
  PROVE  Append(q, kind) \in Seq(Kind) /\ Append(q, kind) # <<>> /\ Once(Append(q, kind), then)
<1>1. /\ Append(q, kind) \in Seq(Kind) /\ Len(Append(q, kind)) = Len(q) + 1 /\ Len(q) \in Nat
      /\ Append(q, kind)[Len(q) + 1] = kind /\ \A i \in 1..Len(q) : Append(q, kind)[i] = q[i]
  OBVIOUS
<1>2. ASSUME NEW i \in 1..(Len(q) + 1), NEW j \in 1..(Len(q) + 1), i < j, Append(q, kind)[j] = "RESPONSE"
      PROVE  Append(q, kind)[i] = "ERROR" /\ then
  <2>1. i \in 1..Len(q) /\ Append(q, kind)[i] = q[i]
    BY <1>1, <1>2
  <2>2. CASE j \in 1..Len(q)
    BY <1>1, <1>2, <2>1, <2>2 DEF Once
  <2>3. CASE j = Len(q) + 1
    <3>1. kind = "RESPONSE" /\ q # <<>>
      BY <1>1, <1>2, <2>1, <2>3
    <3> QED
      BY <2>1, <3>1 DEF Errors
  <2> QED
    BY <1>1, <2>2, <2>3
<1> QED
  BY <1>1, <1>2 DEF Once

\* Errors stay errors with one more.
LEMMA ToldError == ASSUME NEW q \in Seq(Kind), Errors(q) PROVE Errors(Append(q, "ERROR"))
BY DEF Errors, Kind

\* Exempting more keeps a request answered once.
LEMMA OnceKept == ASSUME NEW q, NEW ok \in BOOLEAN, NEW then \in BOOLEAN, Once(q, ok), ok => then PROVE Once(q, then)
BY DEF Once

\* Nothing changes for the coroutine d and the request that it serves.
LEMMA ServerFrame ==
  ASSUME NEW d \in Co, Server(d), serves'[d] = serves[d], d \in responded' <=> d \in responded,
         state'[d] \in {"free", "empty"} => state[d] \in {"free", "empty"},
         \A c \in Co : serves'[c] \in {serves[c], 0}, UNCHANGED <<source, wants>>,
         serves[d] # 0 => sent'[serves[d]] = sent[serves[d]] /\ closure'[serves[d]] = closure[serves[d]],
         dead \subseteq dead', exited => exited'
  PROVE  Server(d)'
BY DEF Server, Settled

\* A step that leaves a request and its server alone keeps what is known of it.
LEMMA RequestFrame ==
  ASSUME NEW r \in Req, r \in Calls => Answered(r), Promise(r),
         r \in Calls => Once(sent[r], r \in broken \/ exited),
         sent'[r] = sent[r], closure'[r] = closure[r], UNCHANGED <<source, wants, exited>>,
         \A c \in Co : serves[c] = r => serves'[c] = r,
         dead \subseteq dead', forgot \subseteq forgot', broken \subseteq broken'
  PROVE  Promise(r)' /\ (r \in Calls' => Answered(r)' /\ Once(sent'[r], (r \in broken \/ exited)'))
<1>1. Promise(r)'
  BY DEF Promise
<1>2. r \in Calls' => Answered(r)'
  BY DEF Answered, Settled, Served, Promised, Calls
<1>3. r \in Calls' => Once(sent'[r], (r \in broken \/ exited)')
  BY OnceKept DEF Calls
<1> QED
  BY <1>1, <1>2, <1>3

\* A step that touches no request keeps the invariant of the answers.
LEMMA AnswersFrame ==
  ASSUME TypeOK, Answers, UNCHANGED <<serves, responded, closure, sent, source, wants, forgot, broken, exited>>,
         dead \subseteq dead',
         \A c \in Co : state'[c] \in {"free", "empty"} => state[c] \in {"free", "empty"}
  PROVE  Answers'
<1>1. \A c \in Co : Server(c)'
  BY ServerFrame DEF Answers
<1>2. \A r \in Req : Promise(r)'
  BY RequestFrame, AnswersParts DEF Answers
<1>3. Calls' = Calls
  BY DEF Calls
<1>4. \A r \in Calls' : Answered(r)' /\ Once(sent'[r], (r \in broken \/ exited)')
  BY <1>3, RequestFrame, AnswersParts DEF Answers
<1> QED
  BY <1>1, <1>2, <1>4, AnswersStep DEF Answers

\* The request q of the running coroutine, or of a closure, is settled by a step
\* that leaves the other requests alone.
LEMMA OneRequest ==
  ASSUME TypeOK, Answers, NEW q \in Req,
         UNCHANGED <<source, wants, dead, exited>>, forgot \subseteq forgot', broken \subseteq broken',
         \A r \in Req \ {q} : sent'[r] = sent[r] /\ closure'[r] = closure[r],
         \A c \in Co : serves'[c] = serves[c] \/ (serves[c] = q /\ serves'[c] = 0),
         \A c \in Co : Server(c)', Promise(q)',
         q \in Calls => Answered(q)' /\ Once(sent'[q], (q \in broken \/ exited)')
  PROVE  Answers'
<1>1. Calls' = Calls /\ Calls \subseteq Req
  BY AnswersParts DEF Calls
<1>2. ASSUME NEW r \in Req \ {q}
      PROVE  Promise(r)' /\ (r \in Calls' => Answered(r)' /\ Once(sent'[r], (r \in broken \/ exited)'))
  <2>1. Promise(r) /\ (r \in Calls => Answered(r) /\ Once(sent[r], r \in broken \/ exited))
    BY AnswersParts DEF Answers
  <2>2. \A c \in Co : serves[c] = r => serves'[c] = r
    OBVIOUS
  <2> QED
    BY <2>1, <2>2, RequestFrame
<1> QED
  BY <1>1, <1>2, AnswersStep DEF Answers

\* The running coroutine is the only server of its request.
LEMMA RunningServer ==
  ASSUME TypeOK, Waits, Answers, Running, serves[co] # 0
  PROVE  /\ co \in Co /\ state[co] = "run" /\ serves[co] \in Req /\ serves[co] \in 1..Len(source) /\ Server(co)
         /\ \A d \in Co \ {co} : Server(d) /\ serves[d] # serves[co]
         /\ sent[serves[co]] \in Seq(Kind) /\ closure[serves[co]] \in {"none", "open", "false", "used"}
<1>1. co \in Co /\ state[co] = "run"
  BY RunningCo DEF Running, Waits, Runner
<1>2. Server(co) /\ serves[co] \in Req /\ serves[co] \in 1..Len(source)
  BY <1>1, LuaAssumption DEF Answers, Server, TypeOK, Req
<1> QED
  BY <1>1, <1>2 DEF Answers, Server, TypeOK, Kind

\* skynet.ret answers a request that had none.
LEMMA RetAnswers ==
  ASSUME TypeOK, Waits, Answers, Ret
  PROVE  Answers'
<1> USE DEF machine
<1>1. /\ Running /\ serves[co] # 0 /\ wants[serves[co]] /\ co \notin responded /\ responded' = responded \cup {co}
      /\ UNCHANGED <<serves, closure, dead, source, wants, exited, forgot, broken, state>>
      /\ IF source[serves[co]] \in dead THEN sent' = sent ELSE \E kind \in Kind : sent' = [sent EXCEPT ![serves[co]] = Append(@, kind)]
  BY DEF Ret, Answer, Kind, ghosts
<1>q. PICK q \in Req : q = serves[co]
  BY <1>1, RunningServer
<1>2. /\ co \in Co /\ q \in 1..Len(source) /\ Server(co) /\ sent[q] \in Seq(Kind)
      /\ \A d \in Co \ {co} : Server(d) /\ serves[d] # q
  BY <1>1, <1>q, RunningServer
<1>3. closure[q] = "none" /\ Errors(sent[q]) /\ (sent[q] = <<>> \/ exited)
  BY <1>1, <1>2, <1>q DEF Server
<1>4. Promise(q)'
  BY <1>1, <1>2, <1>3, <1>q DEF Promise, TypeOK
<1>5. /\ Settled(q)'
      /\ q \in Calls => Once(sent'[q], (q \in broken \/ exited)')
  <2>1. CASE source[q] \in dead
    BY <1>1, <1>q, <2>1, AnswersParts DEF Settled
  <2>2. CASE source[q] \notin dead
    <3>1. PICK kind \in Kind : sent'[q] = Append(sent[q], kind)
      BY <1>1, <1>q, <2>2 DEF TypeOK
    <3>2. q \in Calls /\ Once(sent[q], q \in broken \/ exited)
      BY <1>1, <1>2, <1>q, AnswersParts DEF Calls
    <3>3. Append(sent[q], kind) # <<>> /\ Once(Append(sent[q], kind), q \in broken \/ exited)
      <4>1. (q \in broken \/ exited) \in BOOLEAN
        OBVIOUS
      <4> QED
        BY <1>2, <1>3, <3>2, <4>1, Told
    <3> QED
      BY <1>1, <3>1, <3>3 DEF Settled
  <2> QED
    BY <2>1, <2>2
<1>6. \A r \in Req \ {q} : sent'[r] = sent[r]
  BY <1>1, <1>q DEF TypeOK
<1>7. ASSUME NEW d \in Co PROVE Server(d)'
  <2>1. CASE d = co
    BY <1>1, <1>2, <1>5, <1>q, <2>1 DEF Server, Settled
  <2>2. CASE d # co
    <3>1. serves[d] # 0 => serves[d] \in Req \ {q}
      BY <1>2, <2>2, LuaAssumption DEF TypeOK, Req
    <3> QED
      BY <1>1, <1>2, <1>6, <2>2, <3>1, ServerFrame
  <2> QED
    BY <2>1, <2>2
<1>8. Answered(q)'
  BY <1>5 DEF Answered
<1> QED
  BY <1>1, <1>4, <1>5, <1>6, <1>7, <1>8, OneRequest

\* skynet.response turns the request into a promise.
LEMMA ResponseAnswers ==
  ASSUME TypeOK, Waits, Answers, Response
  PROVE  Answers'
<1> USE DEF machine, world
<1>1. /\ Running /\ serves[co] # 0 /\ co \notin responded /\ responded' = responded \cup {co}
      /\ closure' = [closure EXCEPT ![serves[co]] = "open"]
      /\ UNCHANGED <<serves, sent, dead, source, wants, exited, forgot, broken, state>>
  BY DEF Response, ghosts
<1>q. PICK q \in Req : q = serves[co]
  BY <1>1, RunningServer
<1>2. /\ co \in Co /\ state[co] = "run" /\ q \in 1..Len(source) /\ Server(co) /\ sent[q] \in Seq(Kind)
      /\ \A d \in Co \ {co} : Server(d) /\ serves[d] # q
  BY <1>1, <1>q, RunningServer
<1>3. closure'[q] = "open" /\ Errors(sent[q]) /\ (sent[q] = <<>> \/ exited) /\ \A r \in Req \ {q} : closure'[r] = closure[r]
  BY <1>1, <1>2, <1>q DEF Server, TypeOK
<1>4. Promise(q)'
  BY <1>1, <1>2, <1>3, <1>q DEF Promise, TypeOK
<1>5. ASSUME NEW d \in Co PROVE Server(d)'
  <2>1. CASE d = co
    BY <1>1, <1>2, <1>3, <1>q, <2>1 DEF Server
  <2>2. CASE d # co
    <3>1. serves[d] # 0 => serves[d] \in Req \ {q}
      BY <1>2, <2>2, LuaAssumption DEF TypeOK, Req
    <3> QED
      BY <1>1, <1>2, <1>3, <2>2, <3>1, ServerFrame
  <2> QED
    BY <2>1, <2>2
<1>6. q \in Calls => Answered(q)' /\ Once(sent'[q], (q \in broken \/ exited)')
  <2>1. q \in Calls => Answered(q) /\ Once(sent[q], q \in broken \/ exited)
    BY AnswersParts
  <2>2. (q \in Promised)'
    BY <1>1, <1>2, <1>3 DEF Promised
  <2> QED
    BY <1>1, <2>1, <2>2 DEF Answered, Settled
<1> QED
  BY <1>1, <1>3, <1>4, <1>5, <1>6, OneRequest

\* A closure was promised for one request, which its coroutine has responded to.
LEMMA OpenClosure ==
  ASSUME TypeOK, Answers, NEW q \in Req, closure[q] = "open"
  PROVE  /\ q \in 1..Len(source) /\ sent[q] \in Seq(Kind) /\ Errors(sent[q])
         /\ sent[q] = <<>> \/ q \in broken \/ exited
         /\ \A d \in Co : Server(d) /\ (serves[d] = q => d \in responded)
<1>1. Promise(q) /\ q \in Nat /\ q >= 1 /\ Len(source) \in Nat
  BY DEF Answers, Req, TypeOK
<1>2. q \in 1..Len(source) /\ Errors(sent[q]) /\ (sent[q] = <<>> \/ q \in broken \/ exited)
  BY <1>1 DEF Promise
<1>3. \A d \in Co : Server(d) /\ (serves[d] = q => d \in responded)
  BY <1>1 DEF Answers, Server
<1> QED
  BY <1>2, <1>3 DEF TypeOK, Kind

\* A closure answers its request, once, or is only tested.
LEMMA RespondAnswers ==
  ASSUME TypeOK, Waits, Answers, NEW q \in Req, closure[q] = "open", Test(q) \/ \E ok \in BOOLEAN : Respond(q, ok)
  PROVE  Answers'
<1> USE DEF machine, world
<1>1. /\ closure[q] = "open" /\ \E x \in {"used", "false"} : closure' = [closure EXCEPT ![q] = x]
      /\ UNCHANGED <<serves, responded, dead, source, wants, exited, forgot, broken, state>>
      /\ \/ sent' = sent /\ (wants[q] => source[q] \in dead)
         \/ \E kind \in Kind : sent' = [sent EXCEPT ![q] = Append(@, kind)]
  BY DEF Test, Respond, Answer, Kind, ghosts
<1>2. /\ q \in 1..Len(source) /\ sent[q] \in Seq(Kind) /\ Errors(sent[q])
      /\ sent[q] = <<>> \/ q \in broken \/ exited
      /\ \A d \in Co : Server(d) /\ (serves[d] = q => d \in responded)
  BY <1>1, OpenClosure
<1>3. closure'[q] \in {"used", "false"} /\ \A r \in Req \ {q} : closure'[r] = closure[r] /\ sent'[r] = sent[r]
  BY <1>1 DEF TypeOK
<1>4. Promise(q)'
  BY <1>1, <1>2, <1>3 DEF Promise, TypeOK
<1>5. /\ wants[q] => Settled(q)'
      /\ q \in Calls => Once(sent'[q], (q \in broken \/ exited)')
  <2>0. (q \in broken \/ exited) \in BOOLEAN /\ (q \in Calls => Once(sent[q], q \in broken \/ exited))
    BY AnswersParts
  <2>1. CASE sent' = sent /\ (wants[q] => source[q] \in dead)
    BY <1>1, <2>0, <2>1 DEF Settled
  <2>2. CASE \E kind \in Kind : sent' = [sent EXCEPT ![q] = Append(@, kind)]
    <3>1. PICK kind \in Kind : sent'[q] = Append(sent[q], kind)
      BY <2>2 DEF TypeOK
    <3>2. Append(sent[q], kind) # <<>>
      <4>1. Len(Append(sent[q], kind)) = Len(sent[q]) + 1 /\ Len(sent[q]) \in Nat
        BY <1>2
      <4> QED
        BY <4>1
    <3>3. q \in Calls => Once(Append(sent[q], kind), q \in broken \/ exited)
      BY <1>2, <2>0, Told
    <3> QED
      BY <1>1, <3>1, <3>2, <3>3 DEF Settled
  <2> QED
    BY <1>1, <2>1, <2>2
<1>6. ASSUME NEW d \in Co PROVE Server(d)'
  <2>1. CASE serves[d] = q
    BY <1>1, <1>2, <1>5, <2>1 DEF Server
  <2>2. CASE serves[d] # q
    <3>1. serves[d] # 0 => serves[d] \in Req \ {q}
      BY <2>2, LuaAssumption DEF TypeOK, Req
    <3> QED
      BY <1>1, <1>2, <1>3, <2>2, <3>1, ServerFrame
  <2> QED
    BY <2>1, <2>2
<1>7. q \in Calls => Answered(q)'
  BY <1>5 DEF Answered, Calls
<1> QED
  BY <1>1, <1>3, <1>4, <1>5, <1>6, <1>7, OneRequest

\* A "TEST" of a closure that is closed changes no answer.
LEMMA RetestAnswers ==
  ASSUME TypeOK, Answers, NEW q \in Req, closure[q] # "open", Test(q)
  PROVE  Answers'
<1> USE DEF machine, world
<1>1. /\ closure[q] # "none" /\ closure' = [closure EXCEPT ![q] = "false"] /\ source[q] \in dead
      /\ UNCHANGED <<serves, responded, sent, dead, source, wants, exited, forgot, broken, state>>
  BY DEF Test
<1>2. closure'[q] = "false" /\ \A r \in Req \ {q} : closure'[r] = closure[r]
  BY <1>1 DEF TypeOK
<1>3. Promise(q)'
  BY <1>1, <1>2 DEF Promise, Answers
<1>4. Settled(q)' /\ (q \in Calls => Once(sent'[q], (q \in broken \/ exited)'))
  BY <1>1, AnswersParts DEF Settled
<1>5. ASSUME NEW d \in Co PROVE Server(d)'
  <2>0. Server(d)
    BY DEF Answers
  <2>1. CASE serves[d] = q
    BY <1>1, <1>4, <2>0, <2>1 DEF Server, Settled
  <2>2. CASE serves[d] # q
    <3>1. serves[d] # 0 => serves[d] \in Req \ {q}
      BY <2>2, LuaAssumption DEF TypeOK, Req
    <3> QED
      BY <1>1, <1>2, <2>0, <2>2, <3>1, ServerFrame
  <2> QED
    BY <2>1, <2>2
<1> QED
  BY <1>1, <1>2, <1>3, <1>4, <1>5, OneRequest DEF Answered

\* The coroutine that ends has served nothing: the tables stay as they are.
LEMMA EndedIdle ==
  ASSUME TypeOK, Waits, Answers, Running, serves[co] = 0, Finish \/ Fail
  PROVE  Answers'
<1> USE DEF machine, world
<1>1. /\ serves' = serves /\ (responded' = responded \ {co} \/ responded' = responded)
      /\ UNCHANGED <<sent, closure, dead, source, wants, exited, forgot, broken>>
      /\ co \in Co
      /\ \/ responded' = responded \ {co} /\ state' = [state EXCEPT ![co] = "free"]
         \/ responded' = responded /\ state' = [state EXCEPT ![co] = "over"]
  BY RunningCo DEF Finish, Fail, ghosts, Suspend, Running, TypeOK
<1>2. ASSUME NEW d \in Co PROVE Server(d)'
  <2>1. Server(d)
    BY DEF Answers
  <2>2. CASE d # co
    <3>1. state'[d] = state[d] /\ (d \in responded' <=> d \in responded)
      BY <1>1, <2>2 DEF TypeOK
    <3> QED
      BY <1>1, <2>1, <3>1, ServerFrame
  <2>3. CASE d = co
    BY <1>1, <2>3 DEF Server, TypeOK
  <2> QED
    BY <2>2, <2>3
<1>3. \A r \in Req : Promise(r)'
  BY <1>1, RequestFrame, AnswersParts DEF Answers
<1>4. Calls' = Calls
  BY <1>1 DEF Calls
<1>5. \A r \in Calls' : Answered(r)' /\ Once(sent'[r], (r \in broken \/ exited)')
  BY <1>1, <1>4, RequestFrame, AnswersParts DEF Answers
<1> QED
  BY <1>1, <1>2, <1>3, <1>5, AnswersStep DEF Answers

\* A handler that ends has answered, promised to, or is recorded as one that
\* forgot.
LEMMA FinishAnswers ==
  ASSUME TypeOK, Waits, Answers, Finish, serves[co] # 0
  PROVE  Answers'
<1> USE DEF machine, world
<1>1. /\ Running /\ serves' = [serves EXCEPT ![co] = 0] /\ responded' = responded \ {co}
      /\ forgot' = (IF co \notin responded THEN forgot \cup {serves[co]} ELSE forgot)
      /\ state' = [state EXCEPT ![co] = "free"]
      /\ UNCHANGED <<closure, sent, dead, source, wants, exited, broken>>
  BY DEF Finish, Suspend
<1>q. PICK q \in Req : q = serves[co]
  BY <1>1, RunningServer
<1>2. /\ co \in Co /\ q \in 1..Len(source) /\ Server(co) /\ \A d \in Co \ {co} : Server(d) /\ serves[d] # q
  BY <1>1, <1>q, RunningServer
<1>3. ASSUME NEW d \in Co PROVE Server(d)'
  <2>1. CASE d = co
    BY <1>1, <2>1 DEF Server, TypeOK
  <2>2. CASE d # co
    <3>1. serves'[d] = serves[d] /\ state'[d] = state[d] /\ (d \in responded' <=> d \in responded)
      BY <1>1, <2>2 DEF TypeOK
    <3>2. \A c \in Co : serves'[c] \in {serves[c], 0}
      BY <1>1 DEF TypeOK
    <3> QED
      BY <1>1, <1>2, <2>2, <3>1, <3>2, ServerFrame
  <2> QED
    BY <2>1, <2>2
<1>4. Promise(q)'
  BY <1>1 DEF Answers, Promise
<1>5. q \in Calls => Answered(q)' /\ Once(sent'[q], (q \in broken \/ exited)')
  <2> SUFFICES ASSUME q \in Calls PROVE Answered(q)' /\ Once(sent'[q], (q \in broken \/ exited)')
    OBVIOUS
  <2>1. Answered(q) /\ Once(sent[q], q \in broken \/ exited) /\ wants[q]
    BY AnswersParts DEF Calls
  <2>2. CASE co \notin responded
    BY <1>1, <1>q, <2>1, <2>2 DEF Answered
  <2>3. CASE co \in responded
    <3>1. Settled(q) \/ closure[q] = "open"
      BY <1>2, <1>q, <2>1, <2>3 DEF Server
    <3>2. closure[q] = "open" => (q \in Promised)'
      BY <1>1, <1>2 DEF Promised
    <3> QED
      BY <1>1, <2>1, <3>1, <3>2 DEF Answered, Settled
  <2> QED
    BY <2>2, <2>3
<1>6. \A c \in Co : serves'[c] = serves[c] \/ (serves[c] = q /\ serves'[c] = 0)
  BY <1>1, <1>q DEF TypeOK
<1> QED
  BY <1>1, <1>3, <1>4, <1>5, <1>6, OneRequest

\* A handler that fails tells its caller.
LEMMA FailAnswers ==
  ASSUME TypeOK, Waits, Answers, Fail, serves[co] # 0
  PROVE  Answers'
<1> USE DEF machine, world
<1>1. /\ Running /\ serves' = [serves EXCEPT ![co] = 0]
      /\ sent' = (IF wants[serves[co]] THEN [sent EXCEPT ![serves[co]] = Append(@, "ERROR")] ELSE sent)
      /\ broken' = (IF closure[serves[co]] = "open" THEN broken \cup {serves[co]} ELSE broken)
      /\ state' = [state EXCEPT ![co] = "over"]
      /\ UNCHANGED <<responded, closure, dead, source, wants, exited, forgot>>
  BY DEF Fail, Answer
<1>q. PICK q \in Req : q = serves[co]
  BY <1>1, RunningServer
<1>2. /\ co \in Co /\ q \in 1..Len(source) /\ Server(co) /\ sent[q] \in Seq(Kind)
      /\ \A d \in Co \ {co} : Server(d) /\ serves[d] # q
  BY <1>1, <1>q, RunningServer
<1>a. /\ sent'[q] = (IF wants[q] THEN Append(sent[q], "ERROR") ELSE sent[q])
      /\ \A r \in Req \ {q} : sent'[r] = sent[r]
  BY <1>1, <1>q DEF TypeOK
<1>3. ASSUME NEW d \in Co PROVE Server(d)'
  <2>1. CASE d = co
    BY <1>1, <2>1 DEF Server, TypeOK
  <2>2. CASE d # co
    <3>1. serves'[d] = serves[d] /\ state'[d] = state[d] /\ (serves[d] # 0 => serves[d] \in Req \ {q})
      BY <1>1, <1>2, <2>2, LuaAssumption DEF TypeOK, Req
    <3>2. \A c \in Co : serves'[c] \in {serves[c], 0}
      BY <1>1 DEF TypeOK
    <3> QED
      BY <1>1, <1>2, <1>a, <2>2, <3>1, <3>2, ServerFrame
  <2> QED
    BY <2>1, <2>2
<1>4. Promise(q)'
  <2>1. closure'[q] = "open" => Errors(sent'[q]) /\ q \in broken'
    BY <1>1, <1>2, <1>a, <1>q, ToldError DEF Answers, Promise
  <2>2. ~(q > Len(source'))
    BY <1>1, <1>2 DEF TypeOK
  <2> QED
    BY <2>1, <2>2 DEF Promise
<1>5. q \in Calls => Answered(q)' /\ Once(sent'[q], (q \in broken \/ exited)')
  <2> SUFFICES ASSUME q \in Calls PROVE Answered(q)' /\ Once(sent'[q], (q \in broken \/ exited)')
    OBVIOUS
  <2>1. Once(sent[q], q \in broken \/ exited) /\ wants[q]
    BY AnswersParts DEF Calls
  <2>2. (q \in broken \/ exited) \in BOOLEAN /\ (q \in broken \/ exited)' \in BOOLEAN /\ "ERROR" \in Kind
        /\ (q \in broken \/ exited => (q \in broken \/ exited)')
    BY <1>1 DEF Kind
  <2>3. Append(sent[q], "ERROR") # <<>> /\ Once(Append(sent[q], "ERROR"), (q \in broken \/ exited)')
    BY <1>2, <2>1, <2>2, Told
  <2> QED
    BY <1>a, <2>1, <2>3 DEF Answered, Settled
<1>6. \A c \in Co : serves'[c] = serves[c] \/ (serves[c] = q /\ serves'[c] = 0)
  BY <1>1, <1>q DEF TypeOK
<1>7. broken \subseteq broken'
  BY <1>1
<1> QED
  BY <1>1, <1>3, <1>4, <1>5, <1>6, <1>7, <1>a, OneRequest

\* skynet.exit tells all callers that are still waiting.
LEMMA ExitAnswers ==
  ASSUME TypeOK, Waits, Answers, Exit
  PROVE  Answers'
<1> USE DEF machine, world
<1>1. /\ Running /\ ~exited /\ exited' = TRUE /\ state' = [state EXCEPT ![co] = "over"]
      /\ closure' = [r \in Req |-> IF r \in Promised THEN "used" ELSE closure[r]]
      /\ UNCHANGED <<serves, responded, dead, source, wants, forgot, broken>>
  BY DEF Exit, ghosts
<1>2. ASSUME NEW r \in Req
      PROVE  \E first \in {sent[r], Append(sent[r], "ERROR")} :
                /\ r \in Served => first = Append(sent[r], "ERROR")
                /\ r \notin Served => first = sent[r]
                /\ sent'[r] = IF r \in Promised /\ wants[r] /\ source[r] \notin dead THEN Append(first, "ERROR") ELSE first
  BY DEF Exit
<1>3. ASSUME NEW r \in Req
      PROVE  /\ Errors(sent[r]) => Errors(sent'[r])
             /\ Once(sent[r], r \in broken \/ exited) => Once(sent'[r], (r \in broken \/ exited)')
             /\ sent[r] # <<>> \/ r \in Served \/ (r \in Promised /\ wants[r] /\ source[r] \notin dead) => sent'[r] # <<>>
             /\ r \notin Served /\ r \notin Promised => sent'[r] = sent[r]
  <2>1. PICK first \in {sent[r], Append(sent[r], "ERROR")} :
            /\ r \in Served => first = Append(sent[r], "ERROR")
            /\ r \notin Served => first = sent[r]
            /\ sent'[r] = IF r \in Promised /\ wants[r] /\ source[r] \notin dead THEN Append(first, "ERROR") ELSE first
    BY <1>2
  <2>2. sent[r] \in Seq(Kind) /\ "ERROR" \in Kind
    BY DEF TypeOK, Kind
  <2>3. ASSUME NEW q \in Seq(Kind)
        PROVE  /\ Append(q, "ERROR") \in Seq(Kind) /\ Append(q, "ERROR") # <<>>
               /\ Errors(q) => Errors(Append(q, "ERROR"))
               /\ Once(q, TRUE) => Once(Append(q, "ERROR"), TRUE)
    <3>1. Append(q, "ERROR") \in Seq(Kind) /\ Len(Append(q, "ERROR")) = Len(q) + 1 /\ Len(q) \in Nat
      BY <2>2
    <3>2. Once(q, TRUE) => Once(Append(q, "ERROR"), TRUE)
      BY <2>2, Told
    <3>3. Append(q, "ERROR") # <<>>
      BY <3>1
    <3>4. Errors(q) => Errors(Append(q, "ERROR"))
      BY ToldError
    <3> QED
      BY <3>1, <3>2, <3>3, <3>4
  <2>4. first \in Seq(Kind)
    BY <2>1, <2>2, <2>3
  <2>5. Once(sent[r], r \in broken \/ exited) => Once(sent[r], TRUE)
    BY DEF Once
  <2>6. Once(sent'[r], TRUE) => Once(sent'[r], (r \in broken \/ exited)')
    BY <1>1 DEF Once
  <2>7. /\ Errors(sent[r]) => Errors(first)
        /\ Once(sent[r], TRUE) => Once(first, TRUE)
        /\ sent[r] # <<>> \/ r \in Served => first # <<>>
    BY <2>1, <2>2, <2>3
  <2>8. CASE r \in Promised /\ wants[r] /\ source[r] \notin dead
    BY <2>1, <2>3, <2>4, <2>5, <2>6, <2>7, <2>8
  <2>9. CASE ~(r \in Promised /\ wants[r] /\ source[r] \notin dead)
    BY <2>1, <2>5, <2>6, <2>7, <2>9
  <2> QED
    BY <2>8, <2>9
<1>4. \A r \in Req : closure'[r] = (IF r \in Promised THEN "used" ELSE closure[r]) /\ (closure[r] = "open" /\ r \in 1..Len(source) => r \in Promised)
  BY <1>1 DEF Promised
<1>5. ASSUME NEW d \in Co PROVE Server(d)'
  <2>1. Server(d)
    BY DEF Answers
  <2>2. state'[d] \in {"free", "empty"} => state[d] \in {"free", "empty"}
    BY <1>1 DEF TypeOK
  <2>3. CASE serves[d] = 0
    BY <1>1, <2>1, <2>2, <2>3 DEF Server
  <2>4. CASE serves[d] # 0
    <3>q. PICK q \in Req : q = serves[d]
      BY <2>4, LuaAssumption DEF TypeOK, Req
    <3>1. q \in 1..Len(source) /\ \A c \in Co : serves[c] = q => c = d
      BY <2>1, <2>4, <3>q DEF Server
    <3>2. d \notin responded => closure'[q] = "none" /\ Errors(sent'[q])
      <4>1. d \notin responded => closure[q] = "none" /\ Errors(sent[q])
        BY <2>1, <2>4, <3>q DEF Server
      <4>2. closure[q] = "none" => q \notin Promised
        BY DEF Promised
      <4> QED
        BY <1>3, <1>4, <4>1, <4>2
    <3>3. d \in responded /\ wants[q] => Settled(q)'
      <4>1. d \in responded /\ wants[q] => Settled(q) \/ q \in Promised
        BY <2>1, <2>4, <3>1, <3>q, <1>4 DEF Server
      <4> QED
        BY <1>1, <1>3, <4>1 DEF Settled
    <3>4. state'[d] \notin {"free", "empty"}
      BY <2>1, <2>2, <2>4 DEF Server
    <3> QED
      BY <1>1, <3>q, <3>1, <3>2, <3>3, <3>4 DEF Server
  <2> QED
    BY <2>3, <2>4
<1>6. ASSUME NEW r \in Req PROVE Promise(r)'
  <2>1. Promise(r) /\ (r > Len(source) => r \notin Served /\ r \notin Promised)
    BY DEF Answers, Served, Promised, TypeOK, Req
  <2>2. closure'[r] # "open"
    <3>1. closure[r] = "open" => r \in Promised
      <4>1. closure[r] = "open" => ~(r > Len(source))
        BY <2>1 DEF Promise
      <4> QED
        BY <1>4, <4>1 DEF TypeOK, Req
    <3> QED
      BY <1>4, <3>1
  <2> QED
    BY <1>1, <1>3, <1>4, <2>1, <2>2 DEF Promise
<1>7. Calls' = Calls
  BY <1>1 DEF Calls
<1>8. ASSUME NEW r \in Calls' PROVE Answered(r)' /\ Once(sent'[r], (r \in broken \/ exited)')
  <2>1. r \in Req /\ Answered(r) /\ Once(sent[r], r \in broken \/ exited) /\ wants[r]
    BY <1>7, AnswersParts DEF Calls
  <2>2. Settled(r)' \/ r \in forgot'
    BY <1>1, <1>3, <2>1 DEF Answered, Settled
  <2> QED
    BY <1>3, <2>1, <2>2 DEF Answered
<1> QED
  BY <1>1, <1>5, <1>6, <1>8, AnswersStep DEF Answers

\* A request that comes in gets a server.
LEMMA RequestAnswers ==
  ASSUME TypeOK, Waits, Answers, NEW p \in Peer, NEW call \in BOOLEAN, NEW c \in Co, Request(p, call, c)
  PROVE  Answers'
<1> USE DEF world
<1>1. /\ ~exited /\ Len(source) < MaxReq /\ state[c] = "free" /\ source' = Append(source, p) /\ wants' = Append(wants, call)
      /\ serves' = [serves EXCEPT ![c] = Len(source')] /\ state' = [state EXCEPT ![c] = "run"]
      /\ UNCHANGED <<responded, closure, dead, sent, exited, forgot, broken>>
  BY DEF Request, Message, Free, ghosts, Resume
<1>n. PICK n \in Nat : n = Len(source) + 1
  BY DEF TypeOK
<1>2. /\ Len(source) = n - 1 /\ Len(source') = n /\ n \in Req /\ n # 0 /\ n <= MaxReq
      /\ \A r \in 1..(n - 1) : source'[r] = source[r] /\ wants'[r] = wants[r]
  BY SMTT(40), <1>1, <1>n, LuaAssumption DEF TypeOK, Req
<1>3. Server(c) /\ serves[c] = 0 /\ c \notin responded
  BY <1>1 DEF Answers, Server
<1>4. closure[n] = "none" /\ sent[n] = <<>>
  BY <1>2, <1>n DEF Answers, Promise
<1>5. serves'[c] = n /\ \A d \in Co \ {c} : serves'[d] = serves[d] /\ state'[d] = state[d]
  BY <1>1, <1>2 DEF TypeOK
<1>6. \A d \in Co : serves[d] # 0 => serves[d] \in 1..(n - 1)
  BY <1>2 DEF Answers, Server
<1>7. ASSUME NEW d \in Co PROVE Server(d)'
  <2>1. CASE d = c
    <3>1. \A e \in Co : serves'[e] = n => e = c
      BY <1>2, <1>5, <1>6
    <3>2. Errors(sent[n])
      BY <1>4 DEF Errors
    <3>3. state'[c] = "run"
      BY <1>1 DEF TypeOK
    <3>4. n \in 1..n
      BY <1>2
    <3> QED
      BY <1>1, <1>2, <1>3, <1>4, <1>5, <2>1, <3>1, <3>2, <3>3, <3>4 DEF Server
  <2>2. CASE d # c
    <3>1. Server(d) /\ serves'[d] = serves[d] /\ state'[d] = state[d]
      BY <1>5, <2>2 DEF Answers
    <3>2. serves[d] # 0 => /\ serves[d] \in 1..(n - 1) /\ serves[d] \in 1..n /\ serves[d] # n
                           /\ \A e \in Co : serves'[e] = serves[d] => e = d
      BY <1>2, <1>5, <1>6, <3>1 DEF Server
    <3>3. CASE serves[d] = 0
      BY <1>1, <3>1, <3>3 DEF Server
    <3>4. CASE serves[d] # 0
      <4>q. PICK q \in 1..(n - 1) : q = serves[d]
        BY <3>2, <3>4
      <4>1. source'[q] = source[q] /\ wants'[q] = wants[q] /\ (Settled(q)' <=> Settled(q))
        BY <1>1, <1>2 DEF Settled
      <4>2. state'[d] \notin {"free", "empty"}
        BY <3>1, <3>4 DEF Server
      <4>3. /\ d \notin responded => closure[q] = "none" /\ Errors(sent[q]) /\ (sent[q] = <<>> \/ exited)
            /\ d \in responded /\ wants[q] => Settled(q) \/ closure[q] = "open"
        BY <3>1, <3>4, <4>q DEF Server
      <4> QED
        BY ZenonT(60), <1>1, <1>2, <3>1, <3>2, <4>q, <4>1, <4>2, <4>3 DEF Server
    <3> QED
      BY <3>3, <3>4
  <2> QED
    BY <2>1, <2>2
<1>8. ASSUME NEW r \in Req PROVE Promise(r)'
  BY <1>1, <1>2 DEF Answers, Promise, Req
<1>9. ASSUME NEW r \in Calls' PROVE Answered(r)' /\ Once(sent'[r], (r \in broken \/ exited)')
  <2>1. r \in 1..n /\ wants'[r]
    BY <1>2 DEF Calls
  <2>2. CASE r = n
    <3>1. (n \in Served)'
      BY <1>2, <1>5, <2>1, <2>2 DEF Served
    <3>2. Once(<<>>, (r \in broken \/ exited)')
      BY DEF Once
    <3> QED
      BY <1>1, <1>4, <2>2, <3>1, <3>2 DEF Answered
  <2>3. CASE r \in 1..(n - 1)
    <3>1. r \in Calls /\ source'[r] = source[r] /\ wants[r]
      BY <1>2, <2>1, <2>3 DEF Calls
    <3>2. Answered(r) /\ Once(sent[r], r \in broken \/ exited)
      BY <3>1, AnswersParts
    <3>3. r \in Served => (r \in Served)'
      <4> SUFFICES ASSUME NEW d \in Co, serves[d] = r PROVE (r \in Served)'
        BY DEF Served
      <4>1. d # c /\ serves'[d] = r
        BY <1>3, <1>5, <2>3
      <4> QED
        BY <1>2, <2>1, <4>1 DEF Served
    <3>4. r \in Promised => (r \in Promised)'
      BY <1>1, <1>2, <2>1 DEF Promised
    <3> QED
      BY <1>1, <3>1, <3>2, <3>3, <3>4 DEF Answered, Settled
  <2> QED
    BY <1>2, <2>1, <2>2, <2>3
<1> QED
  BY <1>2, <1>7, <1>8, <1>9, AnswersStep

\* Every step keeps the invariant of the answers.
LEMMA AnswersNext ==
  ASSUME TypeOK, Waits, Answers, Next
  PROVE  Answers'
<1> USE DEF tables, queues, machine, world, ghosts
<1>0. Running => co \in Co
  BY RunningCo DEF Running
<1>1. ASSUME UNCHANGED <<serves, responded, closure, sent, source, wants, forgot, broken, exited>>, dead \subseteq dead',
             \/ state' = state
             \/ \E c \in Co, x \in {"run", "call", "sleep", "wait", "ready", "over"} : state' = [state EXCEPT ![c] = x]
      PROVE  Answers'
  <2>1. \A c \in Co : state'[c] \in {"free", "empty"} => state[c] \in {"free", "empty"}
    BY <1>1 DEF TypeOK
  <2> QED
    BY <1>1, <2>1, AnswersFrame
<1>2. ASSUME Scheduler PROVE Answers'
  <2>1. UNCHANGED <<serves, responded, closure, sent, source, wants, forgot, broken, exited, dead>>
    BY <1>2 DEF Scheduler, dispatch_wakeup, WakeupStale, WakeupNone, dispatch_error_queue, ErrorUnknown, ErrorNone,
                MessageDone, RunFork
  <2>2. \/ state' = state
        \/ \E c : state' = [state EXCEPT ![c] = "run"]
    BY <1>2 DEF Scheduler, dispatch_wakeup, WakeupStale, WakeupNone, dispatch_error_queue, ErrorUnknown, ErrorNone,
                MessageDone, RunFork, Resume
  <2>3. \A c \in Co : state'[c] \in {"free", "empty"} => state[c] \in {"free", "empty"}
    BY <2>2 DEF TypeOK
  <2> QED
    BY <2>1, <2>3, AnswersFrame
<1>3. ASSUME Incoming PROVE Answers'
  <2>1. ASSUME NEW s \in Session, ResponseKnown(s) PROVE Answers'
    <3>1. UNCHANGED <<serves, responded, closure, sent, source, wants, forgot, broken, exited, dead>>
          /\ state' = [state EXCEPT ![sid[s]] = "run"] /\ sid[s] \in Co
      BY <2>1 DEF ResponseKnown, Resume
    <3> QED
      BY <1>1, <3>1
  <2>2. ASSUME NEW s \in Session, ResponseRemoved(s) PROVE Answers'
    <3>1. UNCHANGED <<serves, responded, closure, sent, source, wants, forgot, broken, exited, dead>>
          /\ state' = [state EXCEPT ![sid[s]] = "free"] /\ state[sid[s]] = "empty"
      BY <2>2 DEF ResponseRemoved
    <3>2. \A c \in Co : state'[c] \in {"free", "empty"} => state[c] \in {"free", "empty"}
      BY <3>1 DEF TypeOK
    <3> QED
      BY <3>1, <3>2, AnswersFrame
  <2>3. ASSUME NEW s \in Session, ResponseLate(s) \/ ErrorMessage(s) PROVE Answers'
    <3>1. UNCHANGED <<serves, responded, closure, sent, source, wants, forgot, broken, exited, dead, state>>
      BY <2>3 DEF ResponseLate, ErrorMessage
    <3> QED
      BY <1>1, <3>1
  <2>4. ASSUME NEW p \in Peer, ServiceDown(p) PROVE Answers'
    <3>1. UNCHANGED <<serves, responded, closure, sent, source, wants, forgot, broken, exited, state>> /\ dead \subseteq dead'
      BY <2>4 DEF ServiceDown
    <3> QED
      BY <1>1, <3>1
  <2> QED
    BY <1>3, <2>1, <2>2, <2>3, <2>4, RequestAnswers DEF Incoming
<1>4. ASSUME Operation PROVE Answers'
  <2>1. ASSUME \/ \E p \in Peer : Call(p)
               \/ \E how \in {"sleep", "wait"} : Sleep(how)
               \/ \E c \in Co : Wakeup(c) \/ Timeout(c) \/ Fork(c)
               \/ RetAgain \/ ResponseAgain
        PROVE  Answers'
    <3>1. UNCHANGED <<serves, responded, closure, sent, source, wants, forgot, broken, exited, dead>>
      BY <2>1 DEF Call, Sleep, Wakeup, Timeout, Fork, RetAgain, ResponseAgain
    <3>2. \/ state' = state
          \/ \E c \in Co, x \in {"run", "call", "sleep", "wait", "ready", "over"} : state' = [state EXCEPT ![c] = x]
      BY <1>0, <2>1 DEF Call, Sleep, Wakeup, Timeout, Fork, RetAgain, ResponseAgain, Suspend
    <3> QED
      BY <1>1, <3>1, <3>2
  <2>2. ASSUME NEW s \in Session, NEW c \in Co, remove_timeout(s, c) PROVE Answers'
    <3>1. UNCHANGED <<serves, responded, closure, sent, source, wants, forgot, broken, exited, dead>>
          /\ state' = [state EXCEPT ![c] = "empty", ![sid[s]] = "over"] /\ state[c] = "free"
      BY <2>2 DEF remove_timeout, Free
    <3>2. \A d \in Co : state'[d] \in {"free", "empty"} => state[d] \in {"free", "empty"}
      BY <3>1 DEF TypeOK
    <3> QED
      BY <3>1, <3>2, AnswersFrame
  <2>3. ASSUME Finish \/ Fail PROVE Answers'
    <3>1. Running
      BY <2>3 DEF Finish, Fail
    <3> QED
      BY <2>3, <3>1, EndedIdle, FinishAnswers, FailAnswers
  <2>4. ASSUME NEW r \in Req, NEW ok \in BOOLEAN, Respond(r, ok) PROVE Answers'
    <3>1. closure[r] = "open"
      BY <2>4 DEF Respond
    <3> QED
      BY <2>4, <3>1, RespondAnswers
  <2>5. ASSUME NEW r \in Req, Test(r) PROVE Answers'
    BY <2>5, RespondAnswers, RetestAnswers
  <2> QED
    BY <1>4, <2>1, <2>2, <2>3, <2>4, <2>5, RetAnswers, ResponseAnswers, ExitAnswers DEF Operation
<1> QED
  BY <1>2, <1>3, <1>4 DEF Next

-----------------------------------------------------------------------------
(* What watching_service counts                                            *)

Serving(p) == {c \in Co : serves[c] # 0 /\ source[serves[c]] = p}
Owing(p) == {r \in Promised : source[r] = p}

\* Handlers and promises of a caller can be counted.
LEMMA CountsFinite ==
  ASSUME TypeOK
  PROVE  \A p \in Peer : /\ IsFiniteSet(Serving(p)) /\ Cardinality(Serving(p)) \in Nat
                         /\ IsFiniteSet(Owing(p)) /\ Cardinality(Owing(p)) \in Nat
                         /\ refs[p] \in Nat /\ retested[p] \in Nat
<1>1. IsFiniteSet(Co) /\ IsFiniteSet(1..Len(source))
  BY LuaAssumption, FS_Interval DEF TypeOK
<1>2. ASSUME NEW p \in Peer PROVE Serving(p) \subseteq Co /\ Owing(p) \subseteq 1..Len(source)
  BY DEF Serving, Owing, Promised
<1>3. ASSUME NEW p \in Peer PROVE IsFiniteSet(Serving(p)) /\ IsFiniteSet(Owing(p)) /\ refs[p] \in Nat /\ retested[p] \in Nat
  BY <1>1, <1>2, FS_Subset DEF TypeOK
<1> QED
  BY <1>3, FS_CardinalityType

\* What the invariant of the callers says of one.
LEMMA CountParts ==
  ASSUME CallersWatched
  PROVE  \A p \in Peer : refs[p] + retested[p] >= Cardinality(Serving(p)) + Cardinality(Owing(p))
BY DEF CallersWatched, Serving, Owing

\* The invariant of the callers from what it says of each.
LEMMA CountStep ==
  ASSUME \A p \in Peer : refs'[p] + retested'[p] >= Cardinality(Serving(p)') + Cardinality(Owing(p)')
  PROVE  CallersWatched'
BY DEF CallersWatched, Serving, Owing

\* The count of p stays, and so do its handlers and promises, or there are fewer.
LEMMA CountKept ==
  ASSUME TypeOK, CallersWatched, NEW p \in Peer, retested'[p] = retested[p],
         refs'[p] = refs[p],
         Serving(p)' \subseteq Serving(p), Owing(p)' \subseteq Owing(p)
  PROVE  refs'[p] + retested'[p] >= Cardinality(Serving(p)') + Cardinality(Owing(p)')
<1>1. /\ Cardinality(Serving(p)') <= Cardinality(Serving(p)) /\ Cardinality(Serving(p)') \in Nat
      /\ Cardinality(Owing(p)') <= Cardinality(Owing(p)) /\ Cardinality(Owing(p)') \in Nat
  BY CountsFinite, FS_Subset, FS_CardinalityType
<1> QED
  BY <1>1, CountsFinite, CountParts

\* One more: a handler or a promise, and the count.
LEMMA CountUp ==
  ASSUME TypeOK, CallersWatched, NEW p \in Peer, retested'[p] = retested[p],
         refs'[p] = refs[p] + 1, NEW x,
         \/ Serving(p)' \subseteq Serving(p) \cup {x} /\ Owing(p)' = Owing(p)
         \/ Serving(p)' = Serving(p) /\ Owing(p)' \subseteq Owing(p) \cup {x}
  PROVE  refs'[p] + retested'[p] >= Cardinality(Serving(p)') + Cardinality(Owing(p)')
<1>1. ASSUME NEW S, NEW T, IsFiniteSet(S), T \subseteq S \cup {x}
      PROVE  Cardinality(T) \in Nat /\ Cardinality(T) <= Cardinality(S) + 1
  <2>1. IsFiniteSet(S \cup {x}) /\ Cardinality(S \cup {x}) <= Cardinality(S) + 1 /\ Cardinality(S) \in Nat
    <3>1. Cardinality(S) \in Nat
      BY <1>1, FS_CardinalityType
    <3>2. IsFiniteSet(S \cup {x}) /\ Cardinality(S \cup {x}) \in {Cardinality(S), Cardinality(S) + 1}
      BY <1>1, FS_AddElement
    <3> QED
      BY <3>1, <3>2
  <2>2. Cardinality(T) \in Nat /\ Cardinality(T) <= Cardinality(S \cup {x}) /\ Cardinality(S \cup {x}) \in Nat
    BY <1>1, <2>1, FS_Subset, FS_CardinalityType
  <2> QED
    BY <2>1, <2>2
<1>2. IsFiniteSet(Serving(p)) /\ IsFiniteSet(Owing(p))
  BY CountsFinite
<1>3. CASE Serving(p)' \subseteq Serving(p) \cup {x} /\ Owing(p)' = Owing(p)
  <2>1. Cardinality(Serving(p)') \in Nat /\ Cardinality(Serving(p)') <= Cardinality(Serving(p)) + 1
    BY <1>1, <1>2, <1>3
  <2> QED
    BY <1>3, <2>1, CountsFinite, CountParts
<1>4. CASE Serving(p)' = Serving(p) /\ Owing(p)' \subseteq Owing(p) \cup {x}
  <2>1. Cardinality(Owing(p)') \in Nat /\ Cardinality(Owing(p)') <= Cardinality(Owing(p)) + 1
    BY <1>1, <1>2, <1>4
  <2> QED
    BY <1>4, <2>1, CountsFinite, CountParts
<1> QED
  BY <1>3, <1>4

\* One less: release_watching, of a handler or a promise that is over.
LEMMA CountDown ==
  ASSUME TypeOK, CallersWatched, NEW p \in Peer, retested'[p] = retested[p],
         refs'[p] = (IF refs[p] > 0 THEN refs[p] - 1 ELSE 0), NEW x,
         \/ x \in Serving(p) /\ Serving(p)' \subseteq Serving(p) \ {x} /\ Owing(p)' = Owing(p)
         \/ x \in Owing(p) /\ Serving(p)' = Serving(p) /\ Owing(p)' \subseteq Owing(p) \ {x}
  PROVE  refs'[p] + retested'[p] >= Cardinality(Serving(p)') + Cardinality(Owing(p)')
<1>1. ASSUME NEW S, NEW T, IsFiniteSet(S), x \in S, T \subseteq S \ {x}
      PROVE  Cardinality(T) \in Nat /\ Cardinality(T) <= Cardinality(S) - 1
  <2>1. IsFiniteSet(S \ {x}) /\ Cardinality(S \ {x}) = Cardinality(S) - 1 /\ Cardinality(S) \in Nat
    BY <1>1, FS_RemoveElement, FS_CardinalityType
  <2>2. Cardinality(T) \in Nat /\ Cardinality(T) <= Cardinality(S \ {x})
    BY <1>1, <2>1, FS_Subset, FS_CardinalityType
  <2> QED
    BY <2>1, <2>2
<1>2. IsFiniteSet(Serving(p)) /\ IsFiniteSet(Owing(p))
  BY CountsFinite
<1>3. CASE x \in Serving(p) /\ Serving(p)' \subseteq Serving(p) \ {x} /\ Owing(p)' = Owing(p)
  <2>1. Cardinality(Serving(p)') \in Nat /\ Cardinality(Serving(p)') <= Cardinality(Serving(p)) - 1
    BY <1>1, <1>2, <1>3
  <2> QED
    BY <1>3, <2>1, CountsFinite, CountParts
<1>4. CASE x \in Owing(p) /\ Serving(p)' = Serving(p) /\ Owing(p)' \subseteq Owing(p) \ {x}
  <2>1. Cardinality(Owing(p)') \in Nat /\ Cardinality(Owing(p)') <= Cardinality(Owing(p)) - 1
    BY <1>1, <1>2, <1>4
  <2> QED
    BY <1>4, <2>1, CountsFinite, CountParts
<1> QED
  BY <1>3, <1>4

\* A "TEST" that takes away what it does not own is counted.
LEMMA CountSurplus ==
  ASSUME TypeOK, CallersWatched, NEW p \in Peer, refs'[p] = (IF refs[p] > 0 THEN refs[p] - 1 ELSE 0),
         retested'[p] = retested[p] + 1, Serving(p)' = Serving(p), Owing(p)' = Owing(p)
  PROVE  refs'[p] + retested'[p] >= Cardinality(Serving(p)') + Cardinality(Owing(p)')
BY CountsFinite, CountParts

\* Steps that take no request, serve none to the end and touch no promise.
LEMMA CountFrame ==
  ASSUME TypeOK, CallersWatched, UNCHANGED <<serves, source, closure, refs, retested>>
  PROVE  CallersWatched'
<1>1. ASSUME NEW p \in Peer PROVE Serving(p)' = Serving(p) /\ Owing(p)' = Owing(p)
  BY DEF Serving, Owing, Promised
<1> QED
  BY <1>1, CountKept, CountStep

\* A request counts its caller once more.
LEMMA RequestCounts ==
  ASSUME TypeOK, Answers, CallersWatched, NEW p \in Peer, NEW call \in BOOLEAN, NEW c \in Co, Request(p, call, c)
  PROVE  CallersWatched'
<1>1. /\ source' = Append(source, p) /\ serves' = [serves EXCEPT ![c] = Len(source')] /\ refs' = [refs EXCEPT ![p] = @ + 1]
      /\ closure' = closure /\ Len(source) < MaxReq /\ retested' = retested
  BY DEF Request, ghosts
<1>n. PICK n \in Nat : n = Len(source) + 1
  BY DEF TypeOK
<1>2. /\ Len(source) = n - 1 /\ Len(source') = n /\ n \in Req /\ n # 0 /\ source'[n] = p
      /\ \A r \in 1..(n - 1) : source'[r] = source[r]
  BY SMTT(40), <1>1, <1>n, LuaAssumption DEF TypeOK, Req
<1>3. closure[n] = "none"
  BY <1>2 DEF Answers, Promise
<1>4. \A d \in Co : serves[d] # 0 => serves[d] \in 1..(n - 1)
  BY <1>2 DEF Answers, Server
<1>5. Promised' = Promised /\ Promised \subseteq 1..(n - 1)
  BY <1>1, <1>2, <1>3 DEF Promised
<1>6. \A d \in Co \ {c} : serves'[d] = serves[d]
  BY <1>1 DEF TypeOK
<1>6c. serves'[c] = n
  BY <1>1, <1>2 DEF TypeOK
<1>7. ASSUME NEW o \in Peer PROVE refs'[o] + retested'[o] >= Cardinality(Serving(o)') + Cardinality(Owing(o)')
  <2>1. Owing(o)' = Owing(o)
    BY <1>2, <1>5 DEF Owing
  <2>2. CASE o = p
    <3>1. Serving(o)' \subseteq Serving(o) \cup {c}
      BY <1>2, <1>4, <1>6 DEF Serving
    <3>2. refs'[o] = refs[o] + 1
      BY <1>1, <2>2 DEF TypeOK
    <3> QED
      BY <1>1, <2>1, <3>1, <3>2, CountUp
  <2>3. CASE o # p
    <3>1. Serving(o)' \subseteq Serving(o)
      BY <1>2, <1>4, <1>6, <1>6c, <2>3 DEF Serving
    <3>2. refs'[o] = refs[o]
      BY <1>1, <2>3 DEF TypeOK
    <3> QED
      BY <1>1, <2>1, <3>1, <3>2, CountKept
  <2> QED
    BY <2>2, <2>3
<1> QED
  BY <1>7, CountStep

\* skynet.response turns one that serves into one that owes.
LEMMA ResponseCounts ==
  ASSUME TypeOK, Waits, Answers, CallersWatched, Response
  PROVE  CallersWatched'
<1>1. /\ Running /\ serves[co] # 0 /\ closure' = [closure EXCEPT ![serves[co]] = "open"]
      /\ refs' = [refs EXCEPT ![source[serves[co]]] = @ + 1] /\ UNCHANGED <<serves, source, retested>>
  BY DEF Response, world, ghosts
<1>q. PICK q \in Req : q = serves[co] /\ q \in 1..Len(source)
  BY <1>1, RunningServer
<1>2. Promised' \subseteq Promised \cup {q}
  BY SMTT(40), <1>1, <1>q DEF Promised, TypeOK
<1>3. ASSUME NEW o \in Peer PROVE refs'[o] + retested'[o] >= Cardinality(Serving(o)') + Cardinality(Owing(o)')
  <2>1. Serving(o)' = Serving(o)
    BY <1>1 DEF Serving
  <2>2. CASE o = source[q]
    <3>1. Owing(o)' \subseteq Owing(o) \cup {q}
      BY <1>1, <1>2 DEF Owing
    <3>2. refs'[o] = refs[o] + 1
      BY <1>1, <1>q, <2>2 DEF TypeOK
    <3> QED
      BY <1>1, <2>1, <3>1, <3>2, CountUp
  <2>3. CASE o # source[q]
    <3>1. Owing(o)' \subseteq Owing(o)
      BY <1>1, <1>2, <2>3 DEF Owing
    <3>2. refs'[o] = refs[o]
      BY <1>1, <1>q, <2>3 DEF TypeOK
    <3> QED
      BY <1>1, <2>1, <3>1, <3>2, CountKept
  <2> QED
    BY <2>2, <2>3
<1> QED
  BY <1>3, CountStep

\* A closure that answers gives up one that owes.
LEMMA RespondCounts ==
  ASSUME TypeOK, Waits, Answers, CallersWatched, NEW q \in Req, closure[q] = "open",
         Test(q) \/ \E ok \in BOOLEAN : Respond(q, ok)
  PROVE  CallersWatched'
<1>1. /\ closure[q] = "open" /\ \E x \in {"used", "false"} : closure' = [closure EXCEPT ![q] = x]
      /\ refs' = [refs EXCEPT ![source[q]] = IF @ > 0 THEN @ - 1 ELSE 0]
      /\ UNCHANGED <<serves, source, retested>>
  BY DEF Test, Respond, release_watching, world, ghosts
<1>2. q \in 1..Len(source)
  BY <1>1, OpenClosure
<1>3. q \in Promised /\ Promised' \subseteq Promised \ {q}
  BY <1>1, <1>2 DEF Promised, TypeOK
<1>4. ASSUME NEW o \in Peer PROVE refs'[o] + retested'[o] >= Cardinality(Serving(o)') + Cardinality(Owing(o)')
  <2>1. Serving(o)' = Serving(o)
    BY <1>1 DEF Serving
  <2>2. CASE o = source[q]
    <3>1. q \in Owing(o) /\ Owing(o)' \subseteq Owing(o) \ {q}
      BY <1>1, <1>3, <2>2 DEF Owing
    <3>2. refs'[o] = (IF refs[o] > 0 THEN refs[o] - 1 ELSE 0)
      BY <1>1, <2>2 DEF TypeOK
    <3> QED
      BY <1>1, <2>1, <3>1, <3>2, CountDown
  <2>3. CASE o # source[q]
    <3>1. Owing(o)' \subseteq Owing(o)
      BY <1>1, <1>3 DEF Owing
    <3>2. refs'[o] = refs[o]
      BY <1>1, <2>3 DEF TypeOK
    <3> QED
      BY <1>1, <2>1, <3>1, <3>2, CountKept
  <2> QED
    BY <2>2, <2>3
<1> QED
  BY <1>4, CountStep

\* A closure that is closed has no more to give up: its "TEST" is counted.
LEMMA RetestCounts ==
  ASSUME TypeOK, Answers, CallersWatched, NEW q \in Req, closure[q] # "open", Test(q)
  PROVE  CallersWatched'
<1>1. /\ closure[q] # "none" /\ closure' = [closure EXCEPT ![q] = "false"] /\ UNCHANGED <<serves, source>>
      /\ refs' = [refs EXCEPT ![source[q]] = IF @ > 0 THEN @ - 1 ELSE 0]
      /\ retested' = [retested EXCEPT ![source[q]] = @ + 1]
  BY DEF Test, release_watching, world
<1>2. q \in 1..Len(source)
  <2>1. Promise(q) /\ q \in Nat /\ q >= 1 /\ Len(source) \in Nat
    BY DEF Answers, Req, TypeOK
  <2> QED
    BY <1>1, <2>1 DEF Promise
<1>3. Promised' = Promised
  BY <1>1 DEF Promised, TypeOK
<1>4. ASSUME NEW o \in Peer PROVE refs'[o] + retested'[o] >= Cardinality(Serving(o)') + Cardinality(Owing(o)')
  <2>1. Serving(o)' = Serving(o) /\ Owing(o)' = Owing(o)
    BY <1>1, <1>3 DEF Serving, Owing
  <2>2. CASE o = source[q]
    <3>1. refs'[o] = (IF refs[o] > 0 THEN refs[o] - 1 ELSE 0) /\ retested'[o] = retested[o] + 1
      BY <1>1, <2>2 DEF TypeOK
    <3> QED
      BY <2>1, <3>1, CountSurplus
  <2>3. CASE o # source[q]
    <3>1. refs'[o] = refs[o] /\ retested'[o] = retested[o]
      BY <1>1, <2>3 DEF TypeOK
    <3> QED
      BY <2>1, <3>1, CountKept
  <2> QED
    BY <2>2, <2>3
<1> QED
  BY <1>4, CountStep

\* A handler that ends gives up one that serves.
LEMMA EndCounts ==
  ASSUME TypeOK, Waits, Answers, CallersWatched, Finish \/ Fail
  PROVE  CallersWatched'
<1>1. /\ Running /\ serves' = [serves EXCEPT ![co] = 0] /\ UNCHANGED <<source, closure, retested>>
      /\ \/ UNCHANGED refs
         \/ serves[co] # 0 /\ refs' = [refs EXCEPT ![source[serves[co]]] = IF @ > 0 THEN @ - 1 ELSE 0]
  BY DEF Finish, Fail, release_watching, world
<1>2. co \in Co
  BY <1>1, RunningCo DEF Running
<1>3. ASSUME NEW o \in Peer PROVE refs'[o] + retested'[o] >= Cardinality(Serving(o)') + Cardinality(Owing(o)')
  <2>1. Owing(o)' = Owing(o)
    BY <1>1 DEF Owing, Promised
  <2>2. Serving(o)' \subseteq Serving(o) \ {co}
    BY <1>1, <1>2 DEF Serving, TypeOK
  <2>3. CASE refs'[o] = refs[o]
    BY <1>1, <2>1, <2>2, <2>3, CountKept
  <2>4. CASE refs'[o] # refs[o]
    <3>1. o = source[serves[co]] /\ serves[co] # 0 /\ refs'[o] = (IF refs[o] > 0 THEN refs[o] - 1 ELSE 0)
      BY <1>1, <2>4 DEF TypeOK
    <3>2. co \in Serving(o)
      BY <1>2, <3>1 DEF Serving
    <3> QED
      BY <1>1, <2>1, <2>2, <3>1, <3>2, CountDown
  <2> QED
    BY <2>3, <2>4
<1> QED
  BY <1>3, CountStep

\* skynet.exit keeps the counts.
LEMMA ExitCounts ==
  ASSUME TypeOK, Waits, Answers, CallersWatched, Exit
  PROVE  CallersWatched'
<1>1. /\ closure' = [r \in Req |-> IF r \in Promised THEN "used" ELSE closure[r]] /\ UNCHANGED <<serves, source>>
      /\ retested' = retested
      /\ \A p \in Peer : refs'[p] = IF refs[p] > Cardinality(Owing(p)) THEN refs[p] - Cardinality(Owing(p)) ELSE 0
  BY DEF Exit, Owing, ghosts
<1>2. Promised' = {}
  <2> SUFFICES ASSUME NEW r \in Promised' PROVE FALSE
    OBVIOUS
  <2>1. r \in 1..Len(source) /\ closure'[r] = "open" /\ r \in Req
    BY <1>1, LuaAssumption DEF Promised, Answers, TypeOK, Req
  <2> QED
    BY <1>1, <2>1 DEF Promised
<1>3. ASSUME NEW o \in Peer PROVE refs'[o] + retested'[o] >= Cardinality(Serving(o)') + Cardinality(Owing(o)')
  <2>1. Serving(o)' = Serving(o) /\ Owing(o)' = {}
    BY <1>1, <1>2 DEF Serving, Owing
  <2>2. Cardinality(Owing(o)') = 0
    BY <2>1, FS_EmptySet
  <2>3. /\ Cardinality(Serving(o)) \in Nat /\ Cardinality(Owing(o)) \in Nat /\ refs[o] \in Nat /\ retested[o] \in Nat
        /\ refs[o] + retested[o] >= Cardinality(Serving(o)) + Cardinality(Owing(o))
    BY CountsFinite, CountParts
  <2>4. refs'[o] = IF refs[o] > Cardinality(Owing(o)) THEN refs[o] - Cardinality(Owing(o)) ELSE 0
    BY <1>1
  <2> QED
    BY <1>1, <2>1, <2>2, <2>3, <2>4
<1> QED
  BY <1>3, CountStep

\* Every step keeps the callers watched.
LEMMA CountNext ==
  ASSUME TypeOK, Waits, Answers, CallersWatched, Next
  PROVE  CallersWatched'
<1> USE DEF tables, queues, machine, world, ghosts
<1>1. ASSUME Scheduler PROVE UNCHANGED <<serves, source, closure, refs, retested>>
  BY <1>1 DEF Scheduler, dispatch_wakeup, WakeupStale, WakeupNone, dispatch_error_queue, ErrorUnknown, ErrorNone,
              MessageDone, RunFork
<1>2. ASSUME \/ \E s \in Session : ResponseKnown(s) \/ ResponseRemoved(s) \/ ResponseLate(s) \/ ErrorMessage(s)
             \/ \E p \in Peer : ServiceDown(p)
      PROVE  UNCHANGED <<serves, source, closure, refs, retested>>
  BY <1>2 DEF ResponseKnown, ResponseRemoved, ResponseLate, ErrorMessage, ServiceDown
<1>3. ASSUME \/ \E p \in Peer : Call(p)
             \/ \E how \in {"sleep", "wait"} : Sleep(how)
             \/ \E c \in Co : Wakeup(c) \/ Timeout(c) \/ Fork(c)
             \/ \E s \in Session, c \in Co : remove_timeout(s, c)
             \/ Ret \/ RetAgain \/ ResponseAgain
      PROVE  UNCHANGED <<serves, source, closure, refs, retested>>
  BY <1>3 DEF Call, Sleep, Wakeup, Timeout, Fork, remove_timeout, Ret, RetAgain, ResponseAgain
<1>4. ASSUME Incoming PROVE CallersWatched'
  BY <1>2, <1>4, CountFrame, RequestCounts DEF Incoming
<1>5. ASSUME Operation PROVE CallersWatched'
  <2>1. ASSUME NEW r \in Req, NEW ok \in BOOLEAN, Respond(r, ok) PROVE CallersWatched'
    <3>1. closure[r] = "open"
      BY <2>1 DEF Respond
    <3> QED
      BY <2>1, <3>1, RespondCounts
  <2>2. ASSUME NEW r \in Req, Test(r) PROVE CallersWatched'
    BY <2>2, RespondCounts, RetestCounts
  <2> QED
    BY <1>3, <1>5, <2>1, <2>2, CountFrame, ResponseCounts, EndCounts, ExitCounts DEF Operation
<1> QED
  BY <1>1, <1>4, <1>5, CountFrame DEF Next

-----------------------------------------------------------------------------
(* The theorems                                                            *)

\* A step that touches nothing keeps the invariant.
LEMMA LuaStutter ==
  ASSUME LuaInv, UNCHANGED luavars
  PROVE  LuaInv'
<1> USE DEF luavars, tables, queues, machine, world, ghosts
<1>1. TypeOK'
  BY DEF LuaInv, TypeOK
<1>2. Waits'
  BY SameErrors, Ended DEF LuaInv
<1>3. Queues'
  BY DEF LuaInv, Queues
<1>4. Answers'
  BY AnswersFrame DEF LuaInv
<1>5. CallersWatched'
  BY CountFrame DEF LuaInv
<1> QED
  BY <1>1, <1>2, <1>3, <1>4, <1>5 DEF LuaInv

\* The tables of skynet.lua agree with each other and with the coroutines: who
\* waits is known under one session, queues hold what still waits, requests are
\* answered or will be, and callers are watched.
THEOREM LuaInvariance == Spec => []LuaInv
<1>1. Init => LuaInv
  BY LuaInit
<1>2. LuaInv /\ [Next]_luavars => LuaInv'
  <2> SUFFICES ASSUME LuaInv, [Next]_luavars PROVE LuaInv'
    OBVIOUS
  <2>1. TypeOK /\ Waits /\ Queues /\ Answers /\ CallersWatched
    BY DEF LuaInv
  <2>2. CASE Next
    <3>1. TypeOK'
      BY <2>1, <2>2, IncomingType, OperationType, SchedulerType DEF Next
    <3>2. Waits'
      BY <2>1, <2>2, IncomingWaits, OperationWaits, SchedulerWaits DEF Next
    <3>3. Queues'
      BY <2>1, <2>2, IncomingQueues, OperationQueues, SchedulerQueues DEF Next
    <3>4. Answers' /\ CallersWatched'
      BY <2>1, <2>2, AnswersNext, CountNext
    <3> QED
      BY <3>1, <3>2, <3>3, <3>4 DEF LuaInv
  <2>3. CASE UNCHANGED luavars
    BY <2>3, LuaStutter
  <2> QED
    BY <2>2, <2>3
<1> QED
  BY <1>1, <1>2, PTL DEF Spec

\* No call is left without an answer: when no coroutine serves it and no
\* closure of skynet.response is open for it, a response or an error was sent, or
\* the caller is down, or the handler returned without answering.
THEOREM CallsAreAnswered == Spec => []EveryCallAnswered
<1>1. LuaInv => EveryCallAnswered
  BY DEF LuaInv, Answers
<1> QED
  BY <1>1, LuaInvariance, PTL

\* A call gets one response at most, and no response follows an error, unless
\* the handler failed with its closure open or went on after skynet.exit.
THEOREM CallsAnsweredOnce == Spec => []OneResponse
<1>1. LuaInv => OneResponse
  BY DEF LuaInv, Answers
<1> QED
  BY <1>1, LuaInvariance, PTL

\* A coroutine that waits is known in session_id_coroutine under the session it
\* waits for and no other, one that does not wait under none: no response, timer
\* or wakeup resumes a coroutine that waits for something else.
THEOREM WaitersStayKnown == Spec => []WaitersKnown
<1>1. LuaInv => WaitersKnown
  <2> SUFFICES ASSUME LuaInv PROVE WaitersKnown
    OBVIOUS
  <2>1. TypeOK /\ Waits
    BY DEF LuaInv
  <2>2. ASSUME NEW c \in Co
        PROVE  LET known == {s \in Session : sid[s] = c}
               IN  CASE state[c] = "sleep" -> known = {sleeping[c]} /\ known \subseteq due
                     [] state[c] = "wait" -> known = {sleeping[c]}
                     [] state[c] = "call" -> \E s \in Session : known = {s} /\ watching[s] # None
                     [] state[c] = "empty" -> \E s \in due : known = {s}
                     [] state[c] = "ready" -> c \in forks \/ exited \/ \E s \in due : known = {s}
                     [] OTHER -> known = {} /\ sleeping[c] = 0
    <3>1. Waiter(c) /\ due \subseteq Session /\ (sleeping[c] # 0 => sleeping[c] \in Session)
      BY <2>1, LuaAssumption DEF Waits, TypeOK, Session
    <3>2. \A s \in Session : Only(c, s) => {t \in Session : sid[t] = c} = {s}
      BY DEF Only
    <3>3. Unknown(c) => {t \in Session : sid[t] = c} = {}
      BY DEF Unknown
    <3>4. state[c] \in {"free", "ready", "empty", "run", "call", "sleep", "wait", "over"}
      BY <2>1 DEF TypeOK
    <3>5. PICK known : known = {s \in Session : sid[s] = c}
      OBVIOUS
    <3>6. /\ state[c] = "sleep" => known = {sleeping[c]} /\ known \subseteq due
          /\ state[c] = "wait" => known = {sleeping[c]}
          /\ state[c] = "call" => \E s \in Session : known = {s} /\ watching[s] # None
          /\ state[c] = "empty" => \E s \in due : known = {s}
          /\ state[c] = "ready" => c \in forks \/ exited \/ \E s \in due : known = {s}
          /\ state[c] \in {"free", "run", "over"} => known = {} /\ sleeping[c] = 0
      BY <3>1, <3>2, <3>3, <3>5 DEF Waiter
    <3> QED
      BY <3>4, <3>5, <3>6
  <2>3. \A s \in due : sid[s] # None
    BY <2>1 DEF Waits, Timed, TypeOK
  <2> QED
    BY <2>2, <2>3 DEF WaitersKnown
<1> QED
  BY <1>1, LuaInvariance, PTL

\* When a message is dealt with, wakeup_queue and error_queue are empty, and what
\* error_queue holds are different calls that wait, unless an error left suspend, a
\* coroutine was woken twice or the service exits.
THEOREM QueuesAreDone == Spec => []QueuesDone
<1>1. LuaInv => QueuesDone
  <2> SUFFICES ASSUME LuaInv PROVE QueuesDone
    OBVIOUS
  <2>1. Queues /\ DOMAIN errq = 1..Len(errq)
    BY DEF LuaInv, TypeOK
  <2> QED
    BY <2>1 DEF Queues, QueuesDone
<1> QED
  BY <1>1, LuaInvariance, PTL

\* watching_service counts at least the handlers that serve a caller and the
\* closures promised to it.
THEOREM CallersStayWatched == Spec => []CallersWatched
<1>1. LuaInv => CallersWatched
  BY DEF LuaInv
<1> QED
  BY <1>1, LuaInvariance, PTL
=============================================================================
