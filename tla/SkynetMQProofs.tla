--------------------------- MODULE SkynetMQProofs ---------------------------
(***************************************************************************)
(* The ring buffer of SkynetMQ is well formed and implements MessageFifo,  *)
(* for every initial size, every number of expansions and every set of     *)
(* messages; the overload warning is exact for every threshold.            *)
(***************************************************************************)
EXTENDS SkynetMQ, WellFoundedInduction, TLAPS

\* The remainder in expand_queue is a single wrap-around.
LEMMA Wrap ==
  ASSUME NEW c \in Nat \ {0}, NEW x \in Nat, x < 2 * c
  PROVE  x % c = IF x < c THEN x ELSE x - c
<1>1. CASE x < c
  BY <1>1
<1>2. CASE x >= c
  <2>1. PICK k \in Nat : x = c + k /\ k < c
    BY <1>2
  <2>2. QED
    BY <2>1, Z3
<1>3. QED
  BY <1>1, <1>2

\* The initial ring, empty, is well formed.
LEMMA RingInit == Init => RingOK
  BY MQAssumption DEF Init, RingOK

\* What expand_queue returns: the full ring from its head on, then free slots.
LEMMA Expanded ==
  ASSUME NEW q \in [0..cap - 1 -> Msg \cup {None}], cap \in Nat \ {0}, head \in 0..cap - 1
  PROVE  /\ expand_queue(q, head) \in [0..2 * cap - 1 -> Msg \cup {None}]
         /\ \A i \in 0..cap - 1 : expand_queue(q, head)[i] = q[At(i)]
<1>1. \A i \in 0..cap - 1 : (head + i) % cap = At(i) /\ At(i) \in 0..cap - 1
  <2>1. SUFFICES ASSUME NEW i \in 0..cap - 1
                 PROVE  (head + i) % cap = At(i) /\ At(i) \in 0..cap - 1
    OBVIOUS
  <2>2. head + i \in Nat /\ head + i < 2 * cap
    OBVIOUS
  <2>3. (head + i) % cap = IF head + i < cap THEN head + i ELSE head + i - cap
    <3>1. PICK c \in Nat \ {0}, x \in Nat : c = cap /\ x = head + i
      BY <2>2
    <3>2. x % c = IF x < c THEN x ELSE x - c
      BY <3>1, <2>2, Wrap
    <3>3. QED
      BY <3>1, <3>2
  <2>4. QED
    BY <2>2, <2>3 DEF At
<1>2. \A i \in 0..cap - 1 : i \in 0..2 * cap - 1 /\ i < cap
  OBVIOUS
<1>3. \A i \in 0..cap - 1 : expand_queue(q, head)[i] = q[At(i)]
  BY <1>1, <1>2 DEF expand_queue
<1>4. \A i \in 0..2 * cap - 1 : i < cap => i \in 0..cap - 1
  OBVIOUS
<1>5. expand_queue(q, head) \in [0..2 * cap - 1 -> Msg \cup {None}]
  BY <1>1, <1>4 DEF expand_queue
<1>6. QED
  BY <1>3, <1>5

\* Every step keeps the ring well formed.
LEMMA RingStep == RingOK /\ [Next]_mqvars => RingOK'
<1>1. SUFFICES ASSUME RingOK, [Next]_mqvars PROVE RingOK'
  OBVIOUS
<1>2. CASE \E m \in Msg : Push(m)
  <2>1. PICK m \in Msg : Push(m)
    BY <1>2
  <2>2. DEFINE q == [queue EXCEPT ![tail] = m]
               tl == IF tail + 1 >= cap THEN 0 ELSE tail + 1
  <2>3. CASE head # tl /\ queue' = q /\ tail' = tl /\ UNCHANGED <<head, cap>>
    BY <2>1, <2>3, <1>1 DEF Push, RingOK
  <2>4. CASE head = tl /\ queue' = expand_queue(q, head) /\ head' = 0 /\ tail' = cap
             /\ cap' = 2 * cap
    <3>1. q \in [0..cap - 1 -> Msg \cup {None}] /\ \A i \in 0..cap - 1 : q[i] \in Msg
      BY <1>1, <2>4 DEF RingOK
    <3>2. queue' \in [0..2 * cap - 1 -> Msg \cup {None}]
          /\ \A i \in 0..cap - 1 : queue'[i] = q[At(i)]
      <4> HIDE DEF q
      <4>1. QED
        BY <3>1, <2>4, <1>1, Expanded DEF RingOK
    <3>3. \A i \in 0..cap - 1 : At(i) \in 0..cap - 1
      BY <1>1 DEF RingOK, At
    <3>4. \A i \in 0..cap - 1 : queue'[i] \in Msg
      BY <3>1, <3>2, <3>3
    <3>5. out' = out
      BY <2>1 DEF Push
    <3>6. \A i \in 0..cap' - 1 : head' <= i /\ i < tail' => queue'[i] \in Msg
      <4>1. \A i \in 0..cap' - 1 : i < cap => i \in 0..cap - 1
        BY <2>4, <1>1 DEF RingOK
      <4>2. QED
        BY <3>4, <4>1, <2>4
    <3>7. cap' \in Nat \ {0} /\ head' \in 0..cap' - 1 /\ tail' \in 0..cap' - 1 /\ ~(tail' < head')
      BY <2>4, <1>1 DEF RingOK
    <3>8. queue' \in [0..cap' - 1 -> Msg \cup {None}] /\ out' \in Msg \cup {None}
      BY <3>2, <3>5, <2>4, <1>1 DEF RingOK
    <3>9. QED
      BY <3>6, <3>7, <3>8 DEF RingOK
  <2>5. QED
    BY <2>1, <2>3, <2>4 DEF Push
<1>3. CASE Pop
  BY <1>1, <1>3 DEF Pop, RingOK
<1>4. CASE PopEmpty
  BY <1>1, <1>4 DEF PopEmpty, RingOK, ring
<1>5. CASE Overload
  BY <1>1, <1>5 DEF Overload, RingOK, ring
<1>6. CASE UNCHANGED mqvars
  BY <1>1, <1>6 DEF mqvars, ring, RingOK
<1>7. QED
  BY <1>1, <1>2, <1>3, <1>4, <1>5, <1>6 DEF Next

\* The length is below the capacity, and the first Length positions from head
\* are distinct slots that hold messages and end before tail.
RingShape ==
    /\ Length \in 0..cap - 1
    /\ Length = 0 <=> head = tail
    /\ At(Length) = tail
    /\ \A i \in 0..Length - 1 : At(i) \in 0..cap - 1 /\ At(i) # tail /\ queue[At(i)] \in Msg
    /\ Contents \in Seq(Msg) /\ Len(Contents) = Length

\* A well formed ring has this shape.
LEMMA Positions == RingOK => RingShape
<1> SUFFICES ASSUME RingOK PROVE RingShape
  OBVIOUS
<1>1. /\ Length \in 0..cap - 1
      /\ Length = 0 <=> head = tail
      /\ At(Length) = tail
      /\ \A i \in 0..Length - 1 : At(i) \in 0..cap - 1 /\ At(i) # tail /\ queue[At(i)] \in Msg
  BY DEF RingOK, Length, At
<1>2. Contents \in Seq(Msg) /\ Len(Contents) = Length
  <2> HIDE DEF Length, At
  <2>1. \A i \in 1..Length : queue[At(i - 1)] \in Msg
    BY <1>1
  <2>2. QED
    BY <1>1, <2>1 DEF Contents
<1>3. QED
  BY <1>1, <1>2 DEF RingShape

\* Two sequences of the same length with the same elements are equal.
LEMMA SameSeq ==
  ASSUME NEW S, NEW s \in Seq(S), NEW r \in Seq(S), Len(s) = Len(r),
         \A i \in 1..Len(s) : s[i] = r[i]
  PROVE  s = r
  OBVIOUS

\* A push appends its message to the contents, expanding the ring or not.
LEMMA PushAppends ==
  ASSUME RingOK, RingOK', NEW m \in Msg, Push(m)
  PROVE  Contents' = Append(Contents, m) /\ out' = out
<1>1. out' = out
  BY DEF Push
<1>2. Contents' \in Seq(Msg) /\ Len(Contents') = Length'
  <2>1. RingShape'
    BY Positions, PTL
  <2>2. QED
    BY <2>1 DEF RingShape
<1>3. Append(Contents, m) \in Seq(Msg) /\ Len(Append(Contents, m)) = Length + 1
  BY Positions DEF RingShape
<1>4. Length' = Length + 1 /\ \A i \in 1..Length + 1 : Contents'[i] = Append(Contents, m)[i]
  <2>1. DEFINE q == [queue EXCEPT ![tail] = m]
               tl == IF tail + 1 >= cap THEN 0 ELSE tail + 1
  <2>2. \A i \in 1..Length + 1 : q[At(i - 1)] = Append(Contents, m)[i]
    <3>1. SUFFICES ASSUME NEW i \in 1..Length + 1
                   PROVE  q[At(i - 1)] = Append(Contents, m)[i]
      OBVIOUS
    <3>2. CASE i = Length + 1
      <4>1. Append(Contents, m)[i] = m
        BY <3>2, Positions DEF RingShape
      <4>2. At(i - 1) = tail
        BY <3>2, Positions DEF RingShape
      <4>3. QED
        BY <4>1, <4>2 DEF RingOK
    <3>3. CASE i \in 1..Length
      <4>1. Append(Contents, m)[i] = queue[At(i - 1)]
        BY <3>3, Positions DEF Contents, RingShape
      <4>2. At(i - 1) # tail /\ At(i - 1) \in 0..cap - 1
        BY <3>3, Positions DEF RingShape
      <4>3. QED
        BY <4>1, <4>2 DEF RingOK
    <3>4. QED
      BY <3>2, <3>3, Positions DEF RingShape
  <2>3. CASE head # tl /\ queue' = q /\ tail' = tl /\ UNCHANGED <<head, cap>>
    <3>1. Length' = Length + 1
      BY <2>3 DEF Length, RingOK
    <3>2. \A i \in 1..Length + 1 : Contents'[i] = q[At(i - 1)]
      <4>1. \A i \in 1..Length + 1 : At(i - 1)' = At(i - 1)
        BY <2>3 DEF At
      <4>2. QED
        BY <3>1, <4>1, <2>3 DEF Contents
    <3>3. QED
      BY <3>1, <3>2, <2>2
  <2>4. CASE head = tl /\ queue' = expand_queue(q, head) /\ head' = 0 /\ tail' = cap
             /\ cap' = 2 * cap
    <3>1. Length = cap - 1 /\ Length' = cap
      BY <2>4 DEF Length, RingOK
    <3>2. \A i \in 1..Length + 1 : queue'[i - 1] = q[At(i - 1)]
      <4>1. q \in [0..cap - 1 -> Msg \cup {None}]
        BY DEF RingOK
      <4>2. \A i \in 0..cap - 1 : queue'[i] = q[At(i)]
        <5> HIDE DEF q
        <5>1. QED
          BY <4>1, <2>4, Expanded DEF RingOK
      <4>3. \A i \in 1..Length + 1 : i - 1 \in 0..cap - 1
        BY <3>1 DEF RingOK
      <4>4. QED
        BY <4>2, <4>3
    <3>3. \A i \in 1..Length + 1 : Contents'[i] = queue'[i - 1]
      <4>1. \A i \in 1..Length + 1 : i \in 1..Length' /\ At(i - 1)' = i - 1
        BY <2>4, <3>1 DEF At, RingOK
      <4>2. QED
        BY <4>1 DEF Contents
    <3>4. Length' = Length + 1
      BY <3>1 DEF RingOK
    <3>5. QED
      BY <3>2, <3>3, <3>4, <2>2
  <2>5. QED
    BY <2>3, <2>4 DEF Push
<1>5. Contents' = Append(Contents, m)
  BY <1>2, <1>3, <1>4, SameSeq, Positions DEF RingShape
<1>6. QED
  BY <1>1, <1>5

\* A pop returns the oldest message and keeps the others in their order.
LEMMA PopTakesHead ==
  ASSUME RingOK, RingOK', Pop
  PROVE  Contents # <<>> /\ out' = Head(Contents) /\ Contents' = Tail(Contents)
<1>1. Length > 0 /\ Contents # <<>> /\ Contents[1] = queue[At(0)]
  BY Positions DEF Pop, Contents, RingShape
<1>2. At(0) = head
  BY DEF At, RingOK
<1>3. out' = Head(Contents)
  BY <1>1, <1>2, Positions DEF Pop, RingShape
<1>a. /\ cap \in Nat \ {0} /\ head \in 0..cap - 1 /\ tail \in 0..cap - 1
      /\ head # tail /\ head' = (IF head + 1 >= cap THEN 0 ELSE head + 1)
      /\ UNCHANGED <<queue, tail, cap>>
  BY DEF Pop, RingOK
<1>4. Length' = Length - 1
  BY <1>a DEF Length
<1>5. Contents' \in Seq(Msg) /\ Len(Contents') = Length'
  <2>1. RingShape'
    BY Positions, PTL
  <2>2. QED
    BY <2>1 DEF RingShape
<1>6. Tail(Contents) \in Seq(Msg) /\ Len(Tail(Contents)) = Length - 1
  BY <1>1, Positions DEF RingShape
<1>7. \A i \in 1..Length - 1 : Contents'[i] = Tail(Contents)[i]
  <2>1. SUFFICES ASSUME NEW i \in 1..Length - 1 PROVE Contents'[i] = Tail(Contents)[i]
    OBVIOUS
  <2>2. Tail(Contents)[i] = Contents[i + 1]
    BY <1>1, Positions DEF RingShape
  <2>3. Contents[i + 1] = queue[At(i)]
    BY <1>1, Positions DEF Contents, RingShape
  <2>4. At(i - 1)' = At(i)
    <3>1. Length \in 0..cap - 1
      BY Positions DEF RingShape
    <3>2. QED
      BY <1>a, <3>1 DEF At
  <2>5. Contents'[i] = queue[At(i)]
    BY <2>4, <1>4, <1>a DEF Contents
  <2>6. QED
    BY <2>2, <2>3, <2>5
<1>8. Contents' = Tail(Contents)
  BY <1>4, <1>5, <1>6, <1>7, SameSeq, Positions DEF RingShape
<1>9. QED
  BY <1>1, <1>3, <1>8

\* The ring stays well formed: no index leaves the buffer and no message slot
\* is uninitialized.
THEOREM RingWellFormed == Spec => []RingOK
<1>1. QED
  BY RingInit, RingStep, PTL DEF Spec

\* skynet_mq.c's ring buffer implements a first in, first out queue.
THEOREM FifoImplemented == Spec => ImplementsFifo
<1>1. Init => Fifo!FifoInit
  <2>1. SUFFICES ASSUME Init PROVE Fifo!FifoInit
    OBVIOUS
  <2>2. head = 0 /\ tail = 0 /\ out = None
    BY <2>1 DEF Init
  <2>3. Length = 0
    BY <2>2 DEF Length
  <2>4. QED
    BY <2>2, <2>3 DEF Fifo!FifoInit, Contents
<1>2. RingOK /\ RingOK' /\ [Next]_mqvars => [Fifo!FifoNext]_<<Contents, out>>
  <2>1. SUFFICES ASSUME RingOK, RingOK', [Next]_mqvars
                 PROVE  [Fifo!FifoNext]_<<Contents, out>>
    OBVIOUS
  <2>2. CASE \E m \in Msg : Push(m)
    <3>1. PICK m \in Msg : Push(m)
      BY <2>2
    <3>2. QED
      BY <3>1, <2>1, PushAppends DEF Fifo!FifoNext, Fifo!FifoPush
  <2>3. CASE Pop
    BY <2>1, <2>3, PopTakesHead DEF Fifo!FifoNext, Fifo!FifoPop
  <2>4. CASE PopEmpty
    <3>1. Length = 0 /\ UNCHANGED <<queue, head, tail, cap>> /\ out' = None
      BY <2>1, <2>4, Positions DEF PopEmpty, ring, RingShape
    <3>2. Contents = <<>> /\ Contents' = Contents
      BY <3>1 DEF Contents, Length, At
    <3>3. QED
      BY <3>1, <3>2 DEF Fifo!FifoNext, Fifo!FifoPopEmpty
  <2>5. CASE Overload
    <3>1. UNCHANGED <<queue, head, tail, cap, out>>
      BY <2>5 DEF Overload, ring
    <3>2. QED
      BY <3>1 DEF Contents, Length, At
  <2>6. CASE UNCHANGED mqvars
    <3>1. UNCHANGED <<queue, head, tail, cap, out>>
      BY <2>6 DEF mqvars, ring
    <3>2. QED
      BY <3>1 DEF Contents, Length, At
  <2>7. QED
    BY <2>1, <2>2, <2>3, <2>4, <2>5, <2>6 DEF Next
<1>3. QED
  BY <1>1, <1>2, RingWellFormed, PTL DEF Spec, ImplementsFifo, Fifo!FifoSpec

-----------------------------------------------------------------------------
(* The overload warning                                                    *)

\* every set of numbers has a least one
LEMMA Least ==
  ASSUME NEW T, T \subseteq Nat, T # {}
  PROVE  \E x \in T : \A y \in T : x <= y
<1>1. PICK x \in T : \A y \in T : ~ (<<y, x>> \in OpToRel(<, Nat))
  BY NatLessThanWellFounded, WFMin
<1>2. \A y \in T : ~ (y < x)
  BY <1>1 DEF OpToRel
<1> QED
  BY <1>2

\* g is a threshold doubled up to n times
Doubles(g, n, th) == g = [k \in 0..n |-> IF k = 0 THEN th ELSE 2 * g[k - 1]]

\* the recursive definition has a solution for every number of turns
LEMMA ThresholdsExist ==
  ASSUME NEW th \in Nat \ {0}, NEW n \in Nat
  PROVE  \E g : Doubles(g, n, th)
<1> DEFINE bad == {m \in Nat : ~ \E g : Doubles(g, m, th)}
<1>1. SUFFICES ASSUME bad # {} PROVE FALSE
  OBVIOUS
<1>2. PICK m \in bad : \A y \in bad : m <= y
  BY <1>1, Least
<1>3. m # 0
  <2> DEFINE g == [k \in 0..0 |-> th]
  <2>1. g = [k \in 0..0 |-> IF k = 0 THEN th ELSE 2 * g[k - 1]]
    OBVIOUS
  <2>2. Doubles(g, 0, th)
    BY <2>1 DEF Doubles
  <2> QED
    BY <2>2, <1>2
<1>4. m - 1 \in Nat /\ m - 1 \notin bad
  BY <1>2, <1>3
<1>5. PICK h : Doubles(h, m - 1, th)
  BY <1>4
<1> DEFINE g == [k \in 0..m |-> IF k = m THEN 2 * h[m - 1] ELSE h[k]]
<1>6. ASSUME NEW k \in 0..m PROVE g[k] = IF k = 0 THEN th ELSE 2 * g[k - 1]
  <2>1. k \in Nat /\ (k # 0 => k - 1 \in 0..(m - 1) /\ k - 1 # m /\ k - 1 \in 0..m)
    BY <1>4
  <2>2. k # m => k \in 0..(m - 1)
    BY <1>4
  <2>3. \A j \in 0..(m - 1) : h[j] = IF j = 0 THEN th ELSE 2 * h[j - 1]
    BY <1>5 DEF Doubles
  <2> QED
    BY <2>1, <2>2, <2>3, <1>3, <1>4
<1>7. Doubles(g, m, th)
  <2>1. g = [k \in 0..m |-> g[k]]
    OBVIOUS
  <2>2. [k \in 0..m |-> g[k]] = [k \in 0..m |-> IF k = 0 THEN th ELSE 2 * g[k - 1]]
    BY <1>6
  <2> QED
    BY <2>1, <2>2 DEF Doubles
<1> QED
  BY <1>7, <1>2

\* Each threshold is twice the one before it.
LEMMA ThresholdsDef ==
  ASSUME NEW th \in Nat \ {0}, NEW n \in Nat
  PROVE  \A k \in 0..n : Thresholds(n, th)[k] = IF k = 0 THEN th ELSE 2 * Thresholds(n, th)[k - 1]
<1>1. PICK g : g = [k \in 0..n |-> IF k = 0 THEN th ELSE 2 * g[k - 1]]
  BY ThresholdsExist DEF Doubles
<1>2. Thresholds(n, th) = [k \in 0..n |-> IF k = 0 THEN th ELSE 2 * Thresholds(n, th)[k - 1]]
  BY <1>1 DEF Thresholds
<1> DEFINE f == Thresholds(n, th)
<1>3. f = [k \in 0..n |-> IF k = 0 THEN th ELSE 2 * f[k - 1]]
  BY <1>2
<1> HIDE DEF f
<1>4. \A k \in 0..n : f[k] = IF k = 0 THEN th ELSE 2 * f[k - 1]
  BY <1>3
<1> QED
  BY <1>4 DEF f

\* the thresholds grow, by one at least
LEMMA ThresholdsGrow ==
  ASSUME NEW th \in Nat \ {0}, NEW n \in Nat, NEW k \in 0..n
  PROVE  /\ Thresholds(n, th)[k] \in Nat
         /\ th <= Thresholds(n, th)[k]
         /\ k < Thresholds(n, th)[k]
<1> DEFINE f == Thresholds(n, th)
           bad == {j \in 0..n : ~(f[j] \in Nat /\ th <= f[j] /\ j < f[j])}
<1>0. \A j \in 0..n : f[j] = IF j = 0 THEN th ELSE 2 * f[j - 1]
  BY ThresholdsDef
<1> HIDE DEF f
<1>1. SUFFICES ASSUME bad # {} PROVE FALSE
  BY DEF f
<1> bad \subseteq Nat
  OBVIOUS
<1>2. PICK m \in bad : \A y \in bad : m <= y
  BY <1>1, Least
<1>3. m # 0
  BY <1>0, <1>2
<1>4. m - 1 \in 0..n /\ m - 1 \notin bad
  BY <1>2, <1>3
<1>5. f[m] = 2 * f[m - 1] /\ f[m - 1] \in Nat /\ th <= f[m - 1] /\ m - 1 < f[m - 1]
  BY <1>0, <1>2, <1>3, <1>4
<1> QED
  BY <1>2, <1>5

\* the loop of skynet_mq_pop: the threshold is not lowered, reaches the length,
\* and when it had to be raised stays below twice the length
LEMMA DoubledExact ==
  ASSUME NEW th \in Nat \ {0}, NEW n \in Nat
  PROVE  /\ Doubled(n, th) \in Nat
         /\ th <= Doubled(n, th)
         /\ n <= Doubled(n, th)
         /\ th < n => Doubled(n, th) < 2 * n
<1> DEFINE f == Thresholds(n, th)
           reach == {x \in {f[k] : k \in 0..n} : n <= x}
           d == CHOOSE x \in reach : \A y \in reach : x <= y
<1>1. \A k \in 0..n : f[k] = IF k = 0 THEN th ELSE 2 * f[k - 1]
  BY ThresholdsDef
<1>2. \A k \in 0..n : f[k] \in Nat /\ th <= f[k] /\ k < f[k]
  BY ThresholdsGrow
<1> HIDE DEF f
<1>3. reach \subseteq Nat /\ reach # {}
  <2>1. n \in 0..n /\ f[n] \in reach
    BY <1>2
  <2> QED
    BY <1>2, <2>1
<1>4. \E x \in reach : \A y \in reach : x <= y
  BY <1>3, Least
<1>5. d \in reach /\ \A y \in reach : d <= y
  BY <1>4
<1> HIDE DEF d
<1>6. PICK k \in 0..n : d = f[k]
  BY <1>5
<1>7. ASSUME th < n PROVE d < 2 * n
  <2>1. k # 0
    BY <1>1, <1>5, <1>6, <1>7
  <2>2. k - 1 \in 0..n /\ f[k] = 2 * f[k - 1]
    BY <2>1, <1>1
  <2>3. f[k - 1] < f[k] /\ f[k - 1] \in Nat /\ f[k] \in Nat
    BY <2>2, <1>2
  <2>4. f[k - 1] \notin reach
    BY <2>3, <1>5, <1>6
  <2>5. f[k - 1] < n
    BY <2>2, <2>3, <2>4
  <2> QED
    BY <2>2, <2>3, <2>5, <1>6
<1>8. Doubled(n, th) = d
  BY DEF Doubled, d, f
<1>9. d \in Nat /\ th <= d /\ n <= d
  BY <1>2, <1>5, <1>6
<1> QED
  BY <1>7, <1>8, <1>9

\* The length that is not yet reported was found by the pop that is under way.
WarningInv ==
    /\ overload \in Nat /\ warned \in Nat /\ overload_threshold \in Nat \ {0}
    /\ MQ_OVERLOAD <= overload_threshold
    /\ overload # 0 => popped
    /\ WarningExact

\* A warning states a length the queue had above the threshold, and the
\* threshold is then at least this length and below twice it.
THEOREM WarningsExact == Spec => []WarningExact
<1>1. Init => WarningInv
  BY MQAssumption DEF Init, WarningInv, WarningExact
<1>2. RingOK /\ WarningInv /\ [Next]_mqvars => WarningInv'
  <2> SUFFICES ASSUME RingOK, WarningInv, [Next]_mqvars PROVE WarningInv'
    OBVIOUS
  <2>1. CASE Pop
    <3> DEFINE h == IF head + 1 >= cap THEN 0 ELSE head + 1
               length == IF tail - h < 0 THEN tail - h + cap ELSE tail - h
    <3>1. /\ overload' = IF length > overload_threshold THEN length ELSE overload
          /\ overload_threshold' = Doubled(length, overload_threshold)
          /\ popped' = TRUE /\ ~popped /\ warned' = warned
      BY <2>1 DEF Pop
    <3>2. length \in Nat
      BY DEF RingOK
    <3> HIDE DEF length
    <3>3. overload = 0
      BY <3>1 DEF WarningInv
    <3>4. /\ overload_threshold' \in Nat /\ overload_threshold <= overload_threshold'
          /\ length <= overload_threshold'
          /\ overload_threshold < length => overload_threshold' < 2 * length
      BY <3>1, <3>2, DoubledExact DEF WarningInv
    <3>5. popped'
      BY <3>1
    <3> QED
      BY <3>1, <3>2, <3>3, <3>4, <3>5, MQAssumption DEF WarningInv, WarningExact
  <2>2. CASE PopEmpty
    <3>1. overload = 0
      BY <2>2 DEF PopEmpty, WarningInv
    <3> QED
      BY <2>2, <3>1, MQAssumption DEF PopEmpty, WarningInv, WarningExact
  <2>3. CASE Overload
    BY <2>3 DEF Overload, WarningInv, WarningExact
  <2>4. CASE (\E m \in Msg : Push(m)) \/ UNCHANGED mqvars
    <3>1. UNCHANGED <<overload, overload_threshold, popped, warned>>
      BY <2>4 DEF Push, mqvars
    <3> QED
      BY <3>1 DEF WarningInv, WarningExact
  <2> QED
    BY <2>1, <2>2, <2>3, <2>4 DEF Next
<1>3. WarningInv => WarningExact
  BY DEF WarningInv
<1> QED
  BY <1>1, <1>2, <1>3, RingWellFormed, PTL DEF Spec
=============================================================================
