-------------------------- MODULE SkynetTimerProofs --------------------------
(***************************************************************************)
(* The timing wheel fires every node exactly on time, for every size of    *)
(* the wheel: no cascade is missed, comes late or puts a node where the    *)
(* clock has already been, across the wrap of the clock.                   *)
(***************************************************************************)
EXTENDS SkynetTimer, TLAPS

-----------------------------------------------------------------------------
(* Quotients and remainders                                                *)

\* What TLA+ takes quotient and remainder to be.
LEMMA DivMod ==
    ASSUME NEW n \in Nat, NEW s \in Nat \ {0}
    PROVE  /\ n \div s \in Nat
           /\ n % s \in 0..s - 1
           /\ n = s * (n \div s) + (n % s)
BY SMT

\* They are the only such pair.
LEMMA DivUnique ==
    ASSUME NEW n \in Nat, NEW s \in Nat \ {0}, NEW q \in Nat, NEW r \in 0..s - 1,
           n = s * q + r
    PROVE  n \div s = q /\ n % s = r
BY SMT

\* A larger factor makes the product larger by at least the other factor.
LEMMA ProductGrows ==
    ASSUME NEW s \in Nat \ {0}, NEW p \in Nat, NEW q \in Nat, p < q
    PROVE  s * p + s <= s * q
BY SMT

\* A later time is in the same block of s ticks or in a later one.
LEMMA DivMonotone ==
    ASSUME NEW s \in Nat \ {0}, NEW m \in Nat, NEW n \in Nat, m <= n
    PROVE  m \div s <= n \div s
<1> SUFFICES ASSUME n \div s < m \div s PROVE FALSE
  BY DivMod
<1>1. s * (n \div s) + s <= s * (m \div s)
  BY DivMod, ProductGrows
<1> QED BY <1>1, DivMod

\* The next tick begins a new block exactly when it is a multiple of s.
LEMMA DivNext ==
    ASSUME NEW s \in Nat \ {0}, NEW n \in Nat
    PROVE  /\ (n + 1) % s = 0 => (n + 1) \div s = (n \div s) + 1
           /\ (n + 1) % s # 0 => (n + 1) \div s = n \div s
<1> DEFINE q == n \div s
           r == n % s
<1>1. q \in Nat /\ r \in 0..s - 1 /\ n = s * q + r
  BY DivMod
<1> HIDE DEF q, r
<1>2. CASE r = s - 1
  <2>1. n + 1 = s * (q + 1) + 0
    BY <1>1, <1>2
  <2>2. (n + 1) \div s = q + 1 /\ (n + 1) % s = 0
    BY <1>1, <2>1, DivUnique, q + 1 \in Nat, n + 1 \in Nat, 0 \in 0..s - 1
  <2> QED BY <2>2 DEF q
<1>3. CASE r # s - 1
  <2>1. n + 1 = s * q + (r + 1) /\ r + 1 \in 0..s - 1 /\ r + 1 # 0
    BY <1>1, <1>3
  <2>2. (n + 1) \div s = q /\ (n + 1) % s = r + 1
    BY <1>1, <2>1, DivUnique, n + 1 \in Nat
  <2> QED BY <2>1, <2>2 DEF q
<1> QED BY <1>2, <1>3

\* A block of s * l ticks is made of l blocks of s ticks.
LEMMA DivNested ==
    ASSUME NEW s \in Nat \ {0}, NEW l \in Nat \ {0}, NEW n \in Nat
    PROVE  n \div (s * l) = (n \div s) \div l
<1> DEFINE q == n \div s
           r == n % s
           p == q \div l
           k == q % l
<1>1. q \in Nat /\ r \in 0..s - 1 /\ n = s * q + r
  BY DivMod
<1>2. p \in Nat /\ k \in 0..l - 1 /\ q = l * p + k
  BY <1>1, DivMod
<1> HIDE DEF q, r, p, k
<1>3. s * l \in Nat \ {0} /\ s * k \in Nat
  BY <1>2
<1>4. s * q = (s * l) * p + s * k
  BY <1>1, <1>2
<1>5. s * k + s <= s * l
  BY <1>2, ProductGrows
<1>6. s * k + r \in 0..(s * l) - 1
  BY <1>1, <1>3, <1>5
<1>7. n = (s * l) * p + (s * k + r)
  BY <1>1, <1>2, <1>3, <1>4
<1>8. n \div (s * l) = p
  BY <1>2, <1>3, <1>6, <1>7, DivUnique
<1> QED BY <1>8 DEF p, q

\* It begins where the first of them begins.
LEMMA ModNested ==
    ASSUME NEW s \in Nat \ {0}, NEW l \in Nat \ {0}, NEW n \in Nat
    PROVE  n % (s * l) = 0 <=> n % s = 0 /\ (n \div s) % l = 0
<1> DEFINE q == n \div s
           r == n % s
           p == q \div l
           k == q % l
<1>1. q \in Nat /\ r \in 0..s - 1 /\ n = s * q + r
  BY DivMod
<1>2. p \in Nat /\ k \in 0..l - 1 /\ q = l * p + k
  BY <1>1, DivMod
<1> HIDE DEF q, r, p, k
<1>3. s * l \in Nat \ {0} /\ s * k \in Nat
  BY <1>2
<1>4. s * q = (s * l) * p + s * k
  BY <1>1, <1>2
<1>5. s * k + s <= s * l
  BY <1>2, ProductGrows
<1>6. s * k + r \in 0..(s * l) - 1
  BY <1>1, <1>3, <1>5
<1>7. n = (s * l) * p + (s * k + r)
  BY <1>1, <1>2, <1>3, <1>4
<1>8. n % (s * l) = s * k + r
  BY <1>2, <1>3, <1>6, <1>7, DivUnique
<1>9. s * k + r = 0 <=> r = 0 /\ k = 0
  BY <1>1, <1>2, <1>3
<1> QED BY <1>8, <1>9 DEF k, q, r

\* Two times in one block differ by less than s, and only in their remainder.
LEMMA SameBlock ==
    ASSUME NEW s \in Nat \ {0}, NEW m \in Nat, NEW n \in Nat, m \div s = n \div s
    PROVE  /\ m % s = n % s => m = n
           /\ n % s = 0 => n <= m
           /\ m - n < s
<1>1. m = s * (n \div s) + (m % s) /\ m % s \in 0..s - 1
  BY DivMod
<1>2. n = s * (n \div s) + (n % s) /\ n % s \in 0..s - 1 /\ n \div s \in Nat
  BY DivMod
<1> QED BY <1>1, <1>2

-----------------------------------------------------------------------------
(* The spans of the levels                                                 *)

Clock == 0..Range32 - 1

\* Each level's span is TIME_LEVEL times that of the level below.
LEMMA SpanFacts ==
    /\ Span[0] = TIME_NEAR
    /\ \A i \in 0..4 : Span[i] \in Nat \ {0}
    /\ \A i \in 0..3 : Span[i + 1] = Span[i] * TIME_LEVEL
    /\ Range32 = Span[4]
    /\ Clock \subseteq Nat
<1> USE TimerAssumption
<1>0. /\ Span[0] = TIME_NEAR
      /\ Span[1] = TIME_NEAR * TIME_LEVEL
      /\ Span[2] = TIME_NEAR * TIME_LEVEL * TIME_LEVEL
      /\ Span[3] = TIME_NEAR * TIME_LEVEL * TIME_LEVEL * TIME_LEVEL
      /\ Span[4] = TIME_NEAR * TIME_LEVEL * TIME_LEVEL * TIME_LEVEL * TIME_LEVEL
  BY DEF Span
<1>1. \A m, n \in Nat \ {0} : m * n \in Nat \ {0}
  OBVIOUS
<1>2. Span[0] \in Nat \ {0}
  BY <1>0
<1>3. Span[1] \in Nat \ {0} /\ Span[1] = Span[0] * TIME_LEVEL
  BY <1>0, <1>1, <1>2
<1>4. Span[2] \in Nat \ {0} /\ Span[2] = Span[1] * TIME_LEVEL
  BY <1>0, <1>1, <1>3
<1>5. Span[3] \in Nat \ {0} /\ Span[3] = Span[2] * TIME_LEVEL
  BY <1>0, <1>1, <1>4
<1>6. Span[4] \in Nat \ {0} /\ Span[4] = Span[3] * TIME_LEVEL
  BY <1>0, <1>1, <1>5
<1>7. \A i \in 0..4 : i \in {0, 1, 2, 3, 4}
  OBVIOUS
<1>8. \A i \in 0..3 : i \in {0, 1, 2, 3}
  OBVIOUS
<1>9. \A i \in 0..4 : Span[i] \in Nat \ {0}
  BY <1>2, <1>3, <1>4, <1>5, <1>6, <1>7
<1>10. \A i \in 0..3 : Span[i + 1] = Span[i] * TIME_LEVEL
  BY <1>3, <1>4, <1>5, <1>6, <1>8
<1> QED
  BY <1>0, <1>6, <1>9, <1>10 DEF Clock, Range32

\* Two times that share a block of level i share one of every level above.
LEMMA BlocksNest ==
    ASSUME NEW e \in Nat, NEW t \in Nat, NEW i \in 0..3, NEW j \in 0..4, i <= j,
           e \div Span[i] = t \div Span[i]
    PROVE  e \div Span[j] = t \div Span[j]
<1>1. ASSUME NEW k \in 0..3, e \div Span[k] = t \div Span[k]
      PROVE  e \div Span[k + 1] = t \div Span[k + 1]
  <2>1. Span[k] \in Nat \ {0} /\ Span[k + 1] = Span[k] * TIME_LEVEL /\ TIME_LEVEL \in Nat \ {0}
    BY SpanFacts, TimerAssumption
  <2>2. e \div (Span[k] * TIME_LEVEL) = (e \div Span[k]) \div TIME_LEVEL
    BY <2>1, DivNested
  <2>3. t \div (Span[k] * TIME_LEVEL) = (t \div Span[k]) \div TIME_LEVEL
    BY <2>1, DivNested
  <2> QED
    BY <1>1, <2>1, <2>2, <2>3, Zenon
<1> DEFINE Same(k) == e \div Span[k] = t \div Span[k]
<1>2. Same(0) => Same(1)
  BY <1>1
<1>3. Same(1) => Same(2)
  BY <1>1
<1>4. Same(2) => Same(3)
  BY <1>1
<1>5. Same(3) => Same(4)
  BY <1>1
<1>6. Same(i)
  OBVIOUS
<1> HIDE DEF Same
<1>7. i \in {0, 1, 2, 3} /\ j \in {0, 1, 2, 3, 4}
  OBVIOUS
<1>8. Same(j)
  BY <1>2, <1>3, <1>4, <1>5, <1>6, <1>7
<1> QED
  BY <1>8 DEF Same

\* A time that begins a block of a level begins one of every level below,
\* the first of its list.
LEMMA BeginningsNest ==
    ASSUME NEW c \in Nat, NEW i \in 0..3, NEW j \in 0..4, i < j, c % Span[j] = 0
    PROVE  c % Span[i] = 0 /\ IndexOf(c, i) = 0
<1>1. ASSUME NEW k \in 0..3, c % Span[k + 1] = 0
      PROVE  c % Span[k] = 0 /\ IndexOf(c, k) = 0
  <2>1. Span[k] \in Nat \ {0} /\ Span[k + 1] = Span[k] * TIME_LEVEL /\ TIME_LEVEL \in Nat \ {0}
    BY SpanFacts, TimerAssumption
  <2>2. c % (Span[k] * TIME_LEVEL) = 0 <=> c % Span[k] = 0 /\ (c \div Span[k]) % TIME_LEVEL = 0
    BY <2>1, ModNested
  <2> QED
    BY <1>1, <2>1, <2>2, Zenon DEF IndexOf
<1> DEFINE Begins(k) == c % Span[k] = 0
           First(k) == IndexOf(c, k) = 0
<1>2. Begins(1) => Begins(0) /\ First(0)
  BY <1>1
<1>3. Begins(2) => Begins(1) /\ First(1)
  BY <1>1
<1>4. Begins(3) => Begins(2) /\ First(2)
  BY <1>1
<1>5. Begins(4) => Begins(3) /\ First(3)
  BY <1>1
<1>6. Begins(j)
  OBVIOUS
<1> HIDE DEF Begins, First
<1>7. i \in {0, 1, 2, 3} /\ j \in {1, 2, 3, 4}
  OBVIOUS
<1>8. Begins(i) /\ First(i)
  BY <1>2, <1>3, <1>4, <1>5, <1>6, <1>7
<1> QED
  BY <1>8 DEF Begins, First

-----------------------------------------------------------------------------
(* Where a node belongs                                                    *)

\* a node of the list near[k] when the time is now
NearFits(e, k, now) ==
    /\ e % TIME_NEAR = k
    /\ IsNear(e, now)
    /\ now <= e

\* a node of the list level[i][k] when the time is now: not of the block the
\* time is in, but of the same block one level up.  At level 3 the clock may
\* wrap before the node is due.
LevelFits(e, i, k, now) ==
    /\ IndexOf(e, i) = k
    /\ e \div Span[i] # now \div Span[i]
    /\ i < 3 => now < e /\ e \div Span[i + 1] = now \div Span[i + 1]

\* The search of add_node for a level always ends at one of the four.
LEMMA LevelOfFinds ==
    ASSUME NEW e \in Nat, NEW now \in Nat
    PROVE  /\ LevelOf(e, now) \in 0..3
           /\ LevelOf(e, now) < 3 =>
                e \div Span[LevelOf(e, now) + 1] = now \div Span[LevelOf(e, now) + 1]
           /\ \A j \in 0..LevelOf(e, now) - 1 : e \div Span[j + 1] # now \div Span[j + 1]
<1> DEFINE Same(k) == e \div Span[k] = now \div Span[k]
           Found(i) == (i < 3 => Same(i + 1)) /\ \A j \in 0..i - 1 : ~Same(j + 1)
<1>1. \E i \in 0..3 : Found(i)
  <2> HIDE DEF Same
  <2>1. CASE Same(1)
    <3>1. Found(0)
      BY <2>1
    <3> QED BY <3>1
  <2>2. CASE ~Same(1) /\ Same(2)
    <3>1. \A j \in 0..1 - 1 : j = 0
      OBVIOUS
    <3>2. Found(1)
      BY <2>2, <3>1
    <3> QED BY <3>2
  <2>3. CASE ~Same(1) /\ ~Same(2) /\ Same(3)
    <3>1. \A j \in 0..2 - 1 : j = 0 \/ j = 1
      OBVIOUS
    <3>2. Found(2)
      BY <2>3, <3>1
    <3> QED BY <3>2
  <2>4. CASE ~Same(1) /\ ~Same(2) /\ ~Same(3)
    <3>1. \A j \in 0..3 - 1 : j = 0 \/ j = 1 \/ j = 2
      OBVIOUS
    <3>2. Found(3)
      BY <2>4, <3>1
    <3> QED BY <3>2
  <2> QED
    BY <2>1, <2>2, <2>3, <2>4
<1>2. LevelOf(e, now) = CHOOSE i \in 0..3 : Found(i)
  BY DEF LevelOf
<1>3. LevelOf(e, now) \in 0..3 /\ Found(LevelOf(e, now))
  <2> HIDE DEF Found
  <2> QED BY <1>1, <1>2, Zenon
<1> QED
  BY <1>3

\* An index is one of a level's lists.
LEMMA IndexInRange ==
    ASSUME NEW e \in Nat, NEW i \in 0..3
    PROVE  IndexOf(e, i) \in 0..TIME_LEVEL - 1
<1>1. Span[i] \in Nat \ {0} /\ TIME_LEVEL \in Nat \ {0}
  BY SpanFacts, TimerAssumption
<1>2. e \div Span[i] \in Nat
  BY <1>1, DivMod
<1> QED
  BY <1>1, <1>2, DivMod DEF IndexOf

\* add_node puts a node where it belongs, if it is later than the time or in
\* no block of level 3 that the time is in.
LEMMA LevelOfFits ==
    ASSUME NEW e \in Clock, NEW now \in Clock, ~IsNear(e, now),
           e \div Span[3] = now \div Span[3] => now < e
    PROVE  /\ LevelOf(e, now) \in 0..3
           /\ IndexOf(e, LevelOf(e, now)) \in 0..TIME_LEVEL - 1
           /\ LevelFits(e, LevelOf(e, now), IndexOf(e, LevelOf(e, now)), now)
<1>0. e \in Nat /\ now \in Nat
  BY SpanFacts
<1> DEFINE i == LevelOf(e, now)
<1>1. /\ i \in 0..3
      /\ i < 3 => e \div Span[i + 1] = now \div Span[i + 1]
      /\ \A j \in 0..i - 1 : e \div Span[j + 1] # now \div Span[j + 1]
  BY <1>0, LevelOfFinds
<1> HIDE DEF i
<1>2. e \div Span[i] # now \div Span[i]
  <2>1. CASE i = 0
    BY <2>1, SpanFacts DEF IsNear
  <2>2. CASE i # 0
    <3>1. i - 1 \in 0..i - 1 /\ (i - 1) + 1 = i
      BY <1>1, <2>2
    <3> QED BY <1>1, <3>1
  <2> QED BY <2>1, <2>2
<1>3. i < 3 => now < e
  <2> SUFFICES ASSUME i < 3 PROVE e \div Span[3] = now \div Span[3]
    OBVIOUS
  <2>0. i \in {0, 1, 2}
    BY <1>1
  <2>1. i + 1 \in 0..3 /\ i + 1 <= 3 /\ 3 \in 0..4
    BY <2>0
  <2> QED BY <1>0, <1>1, <2>1, BlocksNest
<1>4. IndexOf(e, i) \in 0..TIME_LEVEL - 1
  BY <1>0, <1>1, IndexInRange
<1>5. LevelFits(e, i, IndexOf(e, i), now)
  BY <1>1, <1>2, <1>3 DEF LevelFits
<1> QED
  BY <1>1, <1>4, <1>5 DEF i

\* timer_add: the sum wraps only into another block of level 3, because a
\* delay is an int and so at most half of the clock's range.
LEMMA NewExpire ==
    ASSUME NEW t \in Clock, NEW d \in Delay
    PROVE  /\ (t + d) % Range32 \in Clock
           /\ (t + d) % Range32 # t
           /\ ((t + d) % Range32) \div Span[3] = t \div Span[3] => t < (t + d) % Range32
<1> DEFINE e == (t + d) % Range32
<1>0. Range32 \in Nat \ {0} /\ Range32 = Span[3] * TIME_LEVEL /\ Span[3] \in Nat \ {0}
  <2>1. 3 \in 0..3 /\ 3 \in 0..4 /\ 4 \in 0..4 /\ 3 + 1 = 4
    OBVIOUS
  <2> QED BY <2>1, SpanFacts, Zenon
<1>1. t \in Nat /\ t < Range32
  BY <1>0 DEF Clock
<1>3. 2 * (Range32 \div 2) <= Range32 /\ Range32 \div 2 \in Nat
  BY <1>0, DivMod
<1>2. d \in Nat /\ 1 <= d /\ d < Range32 \div 2
  BY <1>3 DEF Delay
<1>4. 2 * Span[3] <= Range32
  <2>1. \A s \in Nat, l \in Nat \ {0, 1} : 2 * s <= s * l
    OBVIOUS
  <2> QED BY <1>0, <2>1, TimerAssumption
<1> HIDE DEF e
<1>5. CASE t + d < Range32
  <2>1. (t + d) % Range32 = t + d
    <3>1. t + d = Range32 * 0 + (t + d) /\ t + d \in 0..Range32 - 1 /\ t + d \in Nat
      BY <1>0, <1>1, <1>2, <1>5
    <3> QED BY <1>0, <3>1, DivUnique
  <2> QED BY <1>0, <1>1, <1>2, <1>5, <2>1 DEF Clock
<1>6. CASE t + d >= Range32
  <2>1. (t + d) % Range32 = t + d - Range32 /\ t + d - Range32 \in 0..Range32 - 1
    <3>1. t + d = Range32 * 1 + (t + d - Range32) /\ t + d - Range32 \in 0..Range32 - 1 /\ t + d \in Nat
      BY <1>0, <1>1, <1>2, <1>3, <1>6
    <3> QED BY <1>0, <3>1, DivUnique
  <2>2. e \in Nat /\ e = t + d - Range32
    BY <2>1 DEF e
  <2>3. t - e >= Span[3] /\ e # t
    BY <1>0, <1>1, <1>2, <1>3, <1>4, <2>2
  <2>4. e \div Span[3] # t \div Span[3]
    <3> SUFFICES ASSUME t \div Span[3] = e \div Span[3] PROVE FALSE
      OBVIOUS
    <3>1. t - e < Span[3]
      BY <1>0, <1>1, <2>2, SameBlock
    <3> QED BY <1>0, <1>1, <2>2, <2>3, <3>1
  <2> QED BY <2>1, <2>3, <2>4 DEF Clock, e
<1> QED
  BY <1>0, <1>1, <1>2, <1>5, <1>6

-----------------------------------------------------------------------------
(* What timer_shift does to the places                                     *)

\* ++T->time
Tick(t) == (t + 1) % Range32

\* The 32 bit clock counts up and wraps to 0.
LEMMA TickFacts ==
    ASSUME NEW t \in Clock
    PROVE  /\ t \in Nat /\ Tick(t) \in Clock /\ Tick(t) \in Nat
           /\ t + 1 < Range32 => Tick(t) = t + 1
           /\ Tick(t) # 0 => Tick(t) = t + 1
<1>0. Range32 \in Nat \ {0}
  BY SpanFacts
<1>1. t \in Nat /\ t < Range32
  BY <1>0 DEF Clock
<1>2. CASE t + 1 < Range32
  <2>1. t + 1 = Range32 * 0 + (t + 1) /\ t + 1 \in 0..Range32 - 1 /\ t + 1 \in Nat
    BY <1>0, <1>1, <1>2
  <2>2. (t + 1) % Range32 = t + 1
    BY <1>0, <2>1, DivUnique
  <2> QED BY <1>1, <1>2, <2>1, <2>2 DEF Tick, Clock
<1>3. CASE ~(t + 1 < Range32)
  <2>1. t + 1 = Range32 * 1 + 0 /\ 0 \in 0..Range32 - 1 /\ t + 1 \in Nat
    BY <1>0, <1>1, <1>3
  <2>2. (t + 1) % Range32 = 0
    BY <1>0, <2>1, DivUnique
  <2> QED BY <1>1, <1>3, <2>1, <2>2 DEF Tick, Clock
<1> QED
  BY <1>2, <1>3

\* The clock stays in the blocks it shares with a later node until it
\* reaches the node.
LEMMA TickTowards ==
    ASSUME NEW t \in Clock, NEW e \in Clock, t < e
    PROVE  /\ Tick(t) = t + 1 /\ Tick(t) <= e
           /\ \A s \in Nat \ {0} : e \div s = t \div s => e \div s = Tick(t) \div s
<1>1. t \in Nat /\ e \in Nat /\ t + 1 \in Nat /\ t + 1 <= e /\ e < Range32 /\ Range32 \in Nat
  BY SpanFacts DEF Clock
<1>2. Tick(t) = t + 1
  BY <1>1, TickFacts
<1>3. ASSUME NEW s \in Nat \ {0}, e \div s = t \div s
      PROVE  e \div s = (t + 1) \div s
  <2>1. t \div s <= (t + 1) \div s /\ (t + 1) \div s <= e \div s
    BY <1>1, DivMonotone
  <2>2. t \div s \in Nat /\ (t + 1) \div s \in Nat
    BY <1>1, DivMod
  <2> QED BY <1>3, <2>1, <2>2
<1> QED
  BY <1>1, <1>2, <1>3

\* A node of the near array that is not due yet keeps its place.
LEMMA ShiftNear ==
    ASSUME NEW t \in Clock, NEW e \in Clock, NEW k, NearFits(e, k, t), e # t
    PROVE  NearFits(e, k, Tick(t))
<1>1. t < e
  BY SpanFacts DEF NearFits, Clock
<1>2. TIME_NEAR \in Nat \ {0}
  BY TimerAssumption
<1>3. e \div TIME_NEAR = t \div TIME_NEAR /\ e % TIME_NEAR = k
  BY DEF NearFits, IsNear
<1>4. e \div TIME_NEAR = Tick(t) \div TIME_NEAR /\ Tick(t) <= e
  BY <1>1, <1>2, <1>3, TickTowards
<1> QED
  BY <1>3, <1>4 DEF NearFits, IsNear

\* The lists of the highest level are the blocks of the whole clock.
LEMMA TopIndex ==
    ASSUME NEW e \in Clock
    PROVE  IndexOf(e, 3) = e \div Span[3] /\ (e # 0 => e % Span[4] # 0)
<1>0. /\ Span[3] \in Nat \ {0} /\ Span[4] \in Nat \ {0} /\ Span[4] = Span[3] * TIME_LEVEL
      /\ Range32 = Span[4] /\ TIME_LEVEL \in Nat \ {0}
  <2>1. 3 \in 0..3 /\ 3 \in 0..4 /\ 4 \in 0..4 /\ 3 + 1 = 4
    OBVIOUS
  <2> QED BY <2>1, SpanFacts, TimerAssumption, Zenon
<1>1. e \in Nat /\ e \in 0..Span[4] - 1
  BY <1>0 DEF Clock
<1>2. e = Span[4] * 0 + e
  BY <1>0, <1>1
<1>3. e \div Span[4] = 0 /\ e % Span[4] = e
  BY <1>0, <1>1, <1>2, DivUnique
<1>4. (e \div Span[3]) \div TIME_LEVEL = 0
  <2>1. e \div (Span[3] * TIME_LEVEL) = (e \div Span[3]) \div TIME_LEVEL
    BY <1>0, <1>1, DivNested
  <2> QED BY <1>0, <1>3, <2>1, Zenon
<1>5. PICK q \in Nat : q = e \div Span[3]
  BY <1>0, <1>1, DivMod
<1>6. q = TIME_LEVEL * 0 + (q % TIME_LEVEL) /\ q % TIME_LEVEL \in Nat
  <2>1. q \div TIME_LEVEL = 0
    BY <1>4, <1>5, Zenon
  <2>2. q = TIME_LEVEL * (q \div TIME_LEVEL) + (q % TIME_LEVEL) /\ q % TIME_LEVEL \in 0..TIME_LEVEL - 1
    BY <1>0, DivMod
  <2> QED BY <1>0, <2>1, <2>2
<1> QED
  BY <1>0, <1>3, <1>5, <1>6 DEF IndexOf

\* timer_shift moves the list whose block the clock has just entered: every
\* other node of the levels keeps its place.
LEMMA ShiftLevel ==
    ASSUME NEW t \in Clock, NEW e \in Clock, NEW i \in 0..3, NEW k,
           LevelFits(e, i, k, t), <<i, k>> \notin Cascade(Tick(t))
    PROVE  LevelFits(e, i, k, Tick(t))
<1> DEFINE ct == Tick(t)
<1>0. t \in Nat /\ e \in Nat /\ ct \in Clock /\ ct \in Nat /\ (ct # 0 => ct = t + 1)
  BY TickFacts, SpanFacts
<1>1. /\ Span[i] \in Nat \ {0} /\ Span[i + 1] \in Nat \ {0}
      /\ Span[i + 1] = Span[i] * TIME_LEVEL /\ TIME_LEVEL \in Nat \ {0}
  <2>1. i \in 0..4 /\ i + 1 \in 0..4
    OBVIOUS
  <2> QED BY <2>1, SpanFacts, TimerAssumption
<1>2. i < 3 => /\ ct = t + 1 /\ ct # 0 /\ ct <= e
               /\ e \div Span[i + 1] = ct \div Span[i + 1]
  <2> SUFFICES ASSUME i < 3 PROVE /\ ct = t + 1 /\ ct # 0 /\ ct <= e
                                  /\ e \div Span[i + 1] = ct \div Span[i + 1]
    OBVIOUS
  <2>1. t < e /\ e \div Span[i + 1] = t \div Span[i + 1]
    BY DEF LevelFits
  <2>2. Tick(t) = t + 1 /\ Tick(t) <= e /\ e \div Span[i + 1] = Tick(t) \div Span[i + 1]
    BY <1>1, <2>1, TickTowards
  <2> QED BY <1>0, <2>2
<1>3. IndexOf(e, i) = k /\ e \div Span[i] # t \div Span[i]
  BY DEF LevelFits
<1> HIDE DEF ct
<1>4. ASSUME e \div Span[i] = ct \div Span[i]
      PROVE  FALSE
  <2>1. IndexOf(ct, i) = k
    BY <1>3, <1>4 DEF IndexOf
  <2>2. CASE ct = 0
    <3>1. i = 3
      BY <1>2, <2>2
    <3>2. ct \div Span[i] = 0
      <4>1. 0 = Span[i] * 0 + 0 /\ 0 \in 0..Span[i] - 1
        BY <1>1
      <4> QED BY <1>1, <2>2, <4>1, DivUnique
    <3>3. k = 0
      BY <1>0, <2>1, <3>1, <3>2, TopIndex
    <3> QED
      BY <2>2, <3>1, <3>3 DEF Cascade, ct
  <2>3. CASE ct # 0
    <3>1. ct = t + 1
      BY <1>0, <2>3
    <3>2. ct % Span[i] = 0
      BY <1>0, <1>1, <1>3, <1>4, <3>1, DivNext
    <3>3. ct % Span[i + 1] # 0
      <4>1. CASE i < 3
        <5>1. t \div Span[i + 1] = ct \div Span[i + 1]
          BY <1>2, <4>1 DEF LevelFits
        <5>2. t \div Span[i + 1] \in Nat
          BY <1>0, <1>1, DivMod
        <5>3. (t + 1) % Span[i + 1] = 0 => (t + 1) \div Span[i + 1] = (t \div Span[i + 1]) + 1
          BY <1>0, <1>1, DivNext
        <5>4. (t + 1) \div Span[i + 1] = t \div Span[i + 1]
          BY <3>1, <5>1, Zenon
        <5>5. (t + 1) % Span[i + 1] # 0
          BY <5>2, <5>3, <5>4
        <5> QED BY <3>1, <5>5, Zenon
      <4>2. CASE ~(i < 3)
        <5>1. i = 3 /\ i + 1 = 4
          BY <4>2
        <5> QED BY <1>0, <2>3, <5>1, TopIndex
      <4> QED BY <4>1, <4>2
    <3>4. (ct \div Span[i]) % TIME_LEVEL # 0
      <4>1. ct % (Span[i] * TIME_LEVEL) = 0 <=> ct % Span[i] = 0 /\ (ct \div Span[i]) % TIME_LEVEL = 0
        BY <1>0, <1>1, ModNested
      <4> QED BY <1>1, <3>2, <3>3, <4>1, Zenon
    <3>5. CascadeAt(ct, i)
      BY <3>2, <3>4 DEF CascadeAt, IndexOf
    <3>6. <<i, k>> \in Cascade(ct)
      BY <2>1, <2>3, <3>5 DEF Cascade
    <3> QED BY <3>6 DEF ct
  <2> QED BY <2>2, <2>3
<1>5. e # ct
  BY <1>4
<1>6. i < 3 => ct < e
  BY <1>0, <1>2, <1>5
<1> QED
  BY <1>2, <1>3, <1>4, <1>6 DEF LevelFits, ct

\* It moves one list at most, which exists.
LEMMA CascadeOne ==
    ASSUME NEW c \in Clock, NEW p \in Cascade(c), NEW q \in Cascade(c)
    PROVE  /\ p = q
           /\ p[1] \in 0..3 /\ p[2] \in 0..TIME_LEVEL - 1 /\ p = <<p[1], p[2]>>
<1>0. c \in Nat /\ TIME_LEVEL \in Nat \ {0}
  BY SpanFacts, TimerAssumption
<1>1. CASE c = 0
  BY <1>0, <1>1 DEF Cascade
<1>2. CASE c # 0
  <2>1. PICK i \in 0..3 : CascadeAt(c, i) /\ p = <<i, IndexOf(c, i)>>
    BY <1>2 DEF Cascade
  <2>2. PICK j \in 0..3 : CascadeAt(c, j) /\ q = <<j, IndexOf(c, j)>>
    BY <1>2 DEF Cascade
  <2>3. ASSUME NEW a \in 0..3, NEW b \in 0..3, CascadeAt(c, a), CascadeAt(c, b)
        PROVE  ~(a < b)
    <3>1. c % Span[b] = 0 /\ IndexOf(c, a) # 0 /\ b \in 0..4
      BY <2>3 DEF CascadeAt
    <3> QED BY <1>0, <3>1, BeginningsNest
  <2>4. i = j
    BY <2>1, <2>2, <2>3
  <2>5. IndexOf(c, i) \in 0..TIME_LEVEL - 1
    BY <1>0, IndexInRange
  <2> QED BY <2>1, <2>2, <2>4, <2>5
<1> QED
  BY <1>1, <1>2

\* No node of the list that is moved is late.
LEMMA MovedInTime ==
    ASSUME NEW t \in Clock, NEW e \in Clock, NEW i \in 0..3, NEW k,
           LevelFits(e, i, k, t), <<i, k>> \in Cascade(Tick(t))
    PROVE  Tick(t) <= e
<1> DEFINE ct == Tick(t)
<1>0. t \in Nat /\ e \in Nat /\ ct \in Clock /\ ct \in Nat /\ (ct # 0 => ct = t + 1)
  BY TickFacts, SpanFacts
<1>1. CASE ct = 0
  BY <1>0, <1>1
<1>2. CASE i < 3
  BY <1>0, <1>2, TickTowards DEF LevelFits
<1>3. CASE ct # 0 /\ ~(i < 3)
  <2>0. i = 3
    BY <1>3
  <2>1. PICK j \in 0..3 : CascadeAt(ct, j) /\ <<i, k>> = <<j, IndexOf(ct, j)>>
    BY <1>3 DEF Cascade
  <2>2. ct % Span[3] = 0 /\ k = IndexOf(ct, 3)
    BY <2>0, <2>1 DEF CascadeAt
  <2>3. IndexOf(e, 3) = k
    BY <2>0 DEF LevelFits
  <2>4. e \div Span[3] = ct \div Span[3]
    BY <1>0, <2>2, <2>3, TopIndex
  <2>5. Span[3] \in Nat \ {0}
    BY SpanFacts
  <2> QED BY <1>0, <2>2, <2>4, <2>5, SameBlock
<1> QED
  BY <1>1, <1>2, <1>3

-----------------------------------------------------------------------------
(* The inductive invariant                                                 *)

WheelType ==
    /\ time \in Clock
    /\ near \in [0..TIME_NEAR - 1 -> Seq(Node)]
    /\ level \in [0..3 -> [0..TIME_LEVEL - 1 -> Seq(Node)]]
    /\ moving \in Seq(Node)
    /\ firing \in Seq(Node)
    /\ pc \in {"sleep", "update", "execute0", "move", "execute1", "dispatch1"}

\* the lists that are being walked belong to their steps, and outside an
\* update nothing is due
WheelControl ==
    /\ pc # "move" => moving = <<>>
    /\ pc = "dispatch1" <=> firing # <<>>
    /\ pc \in {"sleep", "update", "execute0"} => near[Now] = <<>>

NearPlaced ==
    \A k \in 0..TIME_NEAR - 1 : \A n \in DOMAIN near[k] : NearFits(near[k][n].expire, k, time)

LevelPlaced ==
    \A i \in 0..3, k \in 0..TIME_LEVEL - 1 : \A n \in DOMAIN level[i][k] :
       LevelFits(level[i][k][n].expire, i, k, time)

WalkPlaced ==
    /\ \A n \in DOMAIN moving : time <= moving[n].expire
    /\ \A n \in DOMAIN firing : firing[n].expire = time

WheelInv == WheelType /\ WheelControl /\ NearPlaced /\ LevelPlaced /\ WalkPlaced

\* What link does to a list of nodes.
LEMMA AppendNode ==
    ASSUME NEW s \in Seq(Node), NEW x \in Node
    PROVE  /\ Append(s, x) \in Seq(Node)
           /\ \A n \in DOMAIN Append(s, x) :
                Append(s, x)[n] = x \/ (n \in DOMAIN s /\ Append(s, x)[n] = s[n])
OBVIOUS

\* What is left of a list when its first node is taken.
LEMMA TailNodes ==
    ASSUME NEW s \in Seq(Node), s # <<>>
    PROVE  /\ Head(s) \in Node /\ Tail(s) \in Seq(Node)
           /\ 1 \in DOMAIN s /\ Head(s) = s[1]
           /\ \A n \in DOMAIN Tail(s) : n + 1 \in DOMAIN s /\ Tail(s)[n] = s[n + 1]
           /\ Len(s) > 1 <=> Tail(s) # <<>>
<1>1. /\ Head(s) \in Node /\ Tail(s) \in Seq(Node)
      /\ 1 \in DOMAIN s /\ Head(s) = s[1]
      /\ \A n \in DOMAIN Tail(s) : n + 1 \in DOMAIN s /\ Tail(s)[n] = s[n + 1]
  OBVIOUS
<1>2. Len(s) \in Nat /\ Len(s) > 0 /\ Len(Tail(s)) = Len(s) - 1
  OBVIOUS
<1>3. PICK q \in Seq(Node) : q = Tail(s)
  BY <1>1
<1>4. q = <<>> <=> Len(q) = 0
  OBVIOUS
<1> QED BY <1>1, <1>2, <1>3, <1>4

\* The expiry of a node of a list is a time of the clock.
LEMMA NodeClock ==
    ASSUME NEW s \in Seq(Node), NEW n \in DOMAIN s
    PROVE  s[n] \in Node /\ s[n].expire \in Clock
<1>1. s[n] \in Node
  OBVIOUS
<1> QED BY <1>1 DEF Node, Clock

\* The remainder of a time is an index of the near array.
LEMMA NearIndex ==
    ASSUME NEW e \in Clock
    PROVE  e % TIME_NEAR \in 0..TIME_NEAR - 1
<1>1. e \in Nat /\ TIME_NEAR \in Nat \ {0}
  BY SpanFacts, TimerAssumption
<1> QED BY <1>1, DivMod

\* add_node of a node that is not late keeps every list in order, and does
\* not touch the list that is due unless the node is due.
LEMMA AddNodeKeeps ==
    ASSUME WheelType, NearPlaced, LevelPlaced, NEW x \in Node, AddNode(x), time' = time,
           x.expire \div Span[3] = time \div Span[3] => time <= x.expire
    PROVE  /\ near' \in [0..TIME_NEAR - 1 -> Seq(Node)]
           /\ level' \in [0..3 -> [0..TIME_LEVEL - 1 -> Seq(Node)]]
           /\ NearPlaced'
           /\ LevelPlaced'
           /\ x.expire # time => near'[Now] = near[Now]
<1> DEFINE e == x.expire
<1>0. e \in Clock /\ time \in Clock /\ e \in Nat /\ time \in Nat
  BY SpanFacts DEF WheelType, Node, Clock
<1>1. /\ near \in [0..TIME_NEAR - 1 -> Seq(Node)]
      /\ level \in [0..3 -> [0..TIME_LEVEL - 1 -> Seq(Node)]]
  BY DEF WheelType
<1>h. e \div Span[3] = time \div Span[3] => time <= e
  OBVIOUS
<1>2. CASE IsNear(e, time)
  <2>1. near' = [near EXCEPT ![e % TIME_NEAR] = Append(@, x)] /\ level' = level
    BY <1>2 DEF AddNode
  <2>2. PICK j \in 0..TIME_NEAR - 1 : j = e % TIME_NEAR
    BY <1>0, NearIndex
  <2>3. near[j] \in Seq(Node)
    BY <1>1
  <2>4. /\ near'[j] = Append(near[j], x)
        /\ \A k \in 0..TIME_NEAR - 1 : k # j => near'[k] = near[k]
    BY <1>1, <2>1, <2>2
  <2>5. near' \in [0..TIME_NEAR - 1 -> Seq(Node)]
    <3>1. Append(near[j], x) \in Seq(Node)
      BY <2>3, AppendNode
    <3> QED BY <1>1, <2>1, <2>2, <3>1
  <2>6. NearFits(e, j, time)
    <3>1. e \div Span[0] = time \div Span[0] /\ 0 \in 0..3 /\ 3 \in 0..4 /\ 0 <= 3
      BY <1>2, SpanFacts DEF IsNear
    <3>2. e \div Span[3] = time \div Span[3]
      BY <1>0, <3>1, BlocksNest
    <3> QED BY <1>2, <1>h, <2>2, <3>2 DEF NearFits
  <2>7. NearPlaced'
    <3> SUFFICES ASSUME NEW k \in 0..TIME_NEAR - 1, NEW n \in DOMAIN near'[k]
                 PROVE  NearFits(near'[k][n].expire, k, time)
      BY Zenon DEF NearPlaced, NearFits, IsNear
    <3>1. CASE k # j
      BY <2>4, <3>1 DEF NearPlaced
    <3>2. CASE k = j
      <4>1. near'[k] = Append(near[j], x)
        BY <2>4, <3>2
      <4>2. near'[k][n] = x \/ (n \in DOMAIN near[j] /\ near'[k][n] = near[j][n])
        BY <2>3, <4>1, AppendNode
      <4>3. n \in DOMAIN near[j] => NearFits(near[j][n].expire, j, time)
        BY DEF NearPlaced
      <4> QED BY <2>6, <3>2, <4>2, <4>3, Zenon DEF e
    <3> QED BY <3>1, <3>2
  <2>8. LevelPlaced'
    BY <2>1, Zenon DEF LevelPlaced, LevelFits
  <2>9. e # time => near'[Now] = near[Now]
    <3> SUFFICES ASSUME e # time PROVE Now # j
      BY <1>0, <2>4, NearIndex DEF Now
    <3>1. TIME_NEAR \in Nat \ {0} /\ e \div TIME_NEAR = time \div TIME_NEAR
      BY <1>2, TimerAssumption DEF IsNear
    <3>2. e % TIME_NEAR # time % TIME_NEAR
      BY <1>0, <3>1, SameBlock
    <3> QED BY <2>2, <3>2 DEF Now
  <2> QED
    BY <1>1, <2>1, <2>5, <2>7, <2>8, <2>9 DEF Now
<1>3. CASE ~IsNear(e, time)
  <2>0. PICK i, j : i = LevelOf(e, time) /\ j = IndexOf(e, i)
    OBVIOUS
  <2>1. level' = [level EXCEPT ![i][j] = Append(@, x)] /\ near' = near
    BY <1>3, <2>0 DEF AddNode
  <2>2. i \in 0..3 /\ j \in 0..TIME_LEVEL - 1 /\ LevelFits(e, i, j, time)
    <3>1. e # time
      BY <1>3 DEF IsNear
    <3>2. e \div Span[3] = time \div Span[3] => time < e
      BY <1>0, <1>h, <3>1
    <3> QED BY <1>0, <1>3, <2>0, <3>2, LevelOfFits
  <2>3. level[i][j] \in Seq(Node)
    BY <1>1, <2>2
  <2>4. level' \in [0..3 -> [0..TIME_LEVEL - 1 -> Seq(Node)]]
    <3>1. Append(level[i][j], x) \in Seq(Node)
      BY <2>3, AppendNode
    <3> QED BY <1>1, <2>1, <2>2, <3>1
  <2>5. /\ level'[i][j] = Append(level[i][j], x)
        /\ \A p \in 0..3, q \in 0..TIME_LEVEL - 1 : ~(p = i /\ q = j) => level'[p][q] = level[p][q]
    BY <1>1, <2>1, <2>2
  <2>6. LevelPlaced'
    <3> SUFFICES ASSUME NEW p \in 0..3, NEW q \in 0..TIME_LEVEL - 1, NEW n \in DOMAIN level'[p][q]
                 PROVE  LevelFits(level'[p][q][n].expire, p, q, time)
      BY Zenon DEF LevelPlaced, LevelFits
    <3>1. CASE ~(p = i /\ q = j)
      BY <2>5, <3>1 DEF LevelPlaced
    <3>2. CASE p = i /\ q = j
      <4>1. level'[p][q] = Append(level[i][j], x)
        BY <2>5, <3>2
      <4>2. level'[p][q][n] = x \/ (n \in DOMAIN level[i][j] /\ level'[p][q][n] = level[i][j][n])
        BY <2>3, <4>1, AppendNode
      <4>3. n \in DOMAIN level[i][j] => LevelFits(level[i][j][n].expire, i, j, time)
        BY <2>2 DEF LevelPlaced
      <4> QED BY <2>2, <3>2, <4>2, <4>3, Zenon DEF e
    <3> QED BY <3>1, <3>2
  <2>7. NearPlaced'
    BY <2>1, Zenon DEF NearPlaced, NearFits, IsNear
  <2> QED
    BY <1>1, <2>1, <2>4, <2>6, <2>7 DEF Now
<1> QED
  BY <1>2, <1>3

\* The wheel starts empty.
LEMMA WheelInit == Init => WheelInv
<1> SUFFICES ASSUME Init PROVE WheelInv
  OBVIOUS
<1>0. Range32 \in Nat \ {0} /\ TIME_NEAR \in Nat \ {0} /\ TIME_LEVEL \in Nat \ {0}
  BY SpanFacts, TimerAssumption
<1>1. time = 0 /\ 0 \in Clock
  BY <1>0 DEF Init, Clock
<1>2. \A k \in 0..TIME_NEAR - 1 : near[k] = <<>>
  BY DEF Init
<1>3. \A i \in 0..3, k \in 0..TIME_LEVEL - 1 : level[i][k] = <<>>
  BY DEF Init
<1>4. WheelType
  BY <1>1 DEF Init, WheelType
<1>5. WheelControl
  BY <1>1, <1>2, NearIndex DEF Init, WheelControl, Now
<1>6. NearPlaced /\ LevelPlaced
  BY <1>2, <1>3 DEF NearPlaced, LevelPlaced
<1>7. WalkPlaced
  BY DEF Init, WalkPlaced
<1> QED
  BY <1>4, <1>5, <1>6, <1>7 DEF WheelInv

\* skynet_timeout, called while the timer thread sleeps, is between two
\* updates or dispatches, puts no node where it would be late.
LEMMA WheelTimeoutLater ==
    ASSUME WheelInv, NEW s \in Session, NEW d \in Delay, TimeoutLater(s, d)
    PROVE  WheelInv'
<1> DEFINE x == [session |-> s, expire |-> (time + d) % Range32]
<1>1. WheelType /\ WheelControl /\ NearPlaced /\ LevelPlaced /\ WalkPlaced
  BY DEF WheelInv
<1>2. /\ AddNode(x) /\ time' = time /\ moving' = moving /\ pc' = pc /\ firing' = firing
  BY DEF TimeoutLater
<1>3. x \in Node /\ x.expire # time /\ (x.expire \div Span[3] = time \div Span[3] => time <= x.expire)
  <2>1. time \in Clock /\ time \in Nat
    BY <1>1, SpanFacts DEF WheelType
  <2>2. PICK e : e = (time + d) % Range32
    OBVIOUS
  <2>3. e \in Clock /\ e # time /\ (e \div Span[3] = time \div Span[3] => time < e)
    BY <2>1, <2>2, NewExpire
  <2>4. x \in Node
    BY <2>2, <2>3 DEF Node, Clock
  <2>5. e \in Nat
    BY <2>3, SpanFacts
  <2> QED BY <2>1, <2>2, <2>3, <2>4, <2>5
<1> HIDE DEF x
<1>4. /\ near' \in [0..TIME_NEAR - 1 -> Seq(Node)]
      /\ level' \in [0..3 -> [0..TIME_LEVEL - 1 -> Seq(Node)]]
      /\ NearPlaced' /\ LevelPlaced' /\ near'[Now] = near[Now]
  BY <1>1, <1>2, <1>3, AddNodeKeeps
<1>5. WheelType'
  BY <1>1, <1>2, <1>4 DEF WheelType
<1>6. WheelControl'
  BY <1>1, <1>2, <1>4 DEF WheelControl, Now
<1>7. WalkPlaced'
  BY <1>1, <1>2, Zenon DEF WalkPlaced
<1> QED
  BY <1>4, <1>5, <1>6, <1>7 DEF WheelInv

\* timer_execute takes the list that is due, and all of it is.
LEMMA WheelExecuteTake ==
    ASSUME WheelInv, ExecuteTake
    PROVE  WheelInv'
<1>1. WheelType /\ WheelControl /\ NearPlaced /\ LevelPlaced /\ WalkPlaced
  BY DEF WheelInv
<1>2. /\ near[Now] # <<>> /\ firing' = near[Now] /\ near' = [near EXCEPT ![Now] = <<>>]
      /\ time' = time /\ level' = level /\ moving' = moving
  BY DEF ExecuteTake
<1>3. pc = "execute1" /\ pc' = "dispatch1"
  BY <1>1, <1>2 DEF ExecuteTake, WheelControl
<1>4. Now \in 0..TIME_NEAR - 1 /\ near \in [0..TIME_NEAR - 1 -> Seq(Node)] /\ near[Now] \in Seq(Node)
  BY <1>1, NearIndex DEF WheelType, Now
<1>5. near' \in [0..TIME_NEAR - 1 -> Seq(Node)]
  BY <1>2, <1>4
<1>6. \A k \in 0..TIME_NEAR - 1 : near'[k] = near[k] \/ near'[k] = <<>>
  BY <1>2, <1>4
<1>7. WheelType'
  BY <1>1, <1>2, <1>3, <1>4, <1>5 DEF WheelType
<1>8. WheelControl'
  BY <1>1, <1>2, <1>3 DEF WheelControl
<1>9. NearPlaced'
  <2> SUFFICES ASSUME NEW k \in 0..TIME_NEAR - 1, NEW n \in DOMAIN near'[k]
               PROVE  NearFits(near'[k][n].expire, k, time)
    BY <1>2, Zenon DEF NearPlaced, NearFits, IsNear
  <2> QED BY <1>1, <1>6 DEF NearPlaced
<1>10. LevelPlaced'
  BY <1>1, <1>2, Zenon DEF LevelPlaced, LevelFits
<1>11. WalkPlaced'
  <2>1. ASSUME NEW n \in DOMAIN near[Now]
        PROVE  near[Now][n].expire = time
    <3>1. PICK e \in Clock : e = near[Now][n].expire
      BY <1>4, NodeClock
    <3>2. NearFits(e, Now, time)
      BY <1>1, <1>4, <3>1 DEF NearPlaced
    <3>3. TIME_NEAR \in Nat \ {0} /\ e \in Nat /\ time \in Nat
      BY <1>1, SpanFacts, TimerAssumption DEF WheelType
    <3>4. e = time
      BY <3>2, <3>3, SameBlock DEF NearFits, IsNear, Now
    <3> QED BY <3>1, <3>4
  <2> QED BY <1>1, <1>2, <2>1 DEF WalkPlaced
<1> QED
  BY <1>7, <1>8, <1>9, <1>10, <1>11 DEF WheelInv

\* dispatch_list goes through its list.
LEMMA WheelDispatch ==
    ASSUME WheelInv, Dispatch
    PROVE  WheelInv'
<1>1. WheelType /\ WheelControl /\ NearPlaced /\ LevelPlaced /\ WalkPlaced
  BY DEF WheelInv
<1>2. /\ pc = "dispatch1" /\ firing' = Tail(firing)
      /\ time' = time /\ near' = near /\ level' = level /\ moving' = moving
      /\ pc' = IF Len(firing) > 1 THEN "dispatch1" ELSE "execute1"
  BY <1>1 DEF Dispatch, WheelType
<1>3. firing \in Seq(Node)
  BY <1>1 DEF WheelType
<1>4. /\ Tail(firing) \in Seq(Node)
      /\ \A n \in DOMAIN Tail(firing) : n + 1 \in DOMAIN firing /\ Tail(firing)[n] = firing[n + 1]
      /\ Len(firing) > 1 <=> Tail(firing) # <<>>
  <2>1. firing # <<>>
    BY <1>1, <1>2 DEF WheelControl
  <2> QED BY <1>3, <2>1, TailNodes
<1>5. WheelType'
  BY <1>1, <1>2, <1>4 DEF WheelType
<1>6. WheelControl'
  BY <1>1, <1>2, <1>3, <1>4 DEF WheelControl
<1>7. NearPlaced' /\ LevelPlaced'
  BY <1>1, <1>2, Zenon DEF NearPlaced, NearFits, IsNear, LevelPlaced, LevelFits
<1>8. WalkPlaced'
  BY <1>1, <1>2, <1>4 DEF WalkPlaced
<1> QED
  BY <1>5, <1>6, <1>7, <1>8 DEF WheelInv

\* timer_shift: the clock goes on by one tick, and the list whose block it
\* enters, if any, is taken to be moved.
LEMMA WheelTimerShift ==
    ASSUME WheelInv, TimerShift
    PROVE  WheelInv'
<1>1. WheelType /\ WheelControl /\ NearPlaced /\ LevelPlaced /\ WalkPlaced
  BY DEF WheelInv
<1>2. /\ pc = "execute0" /\ near[Now] = <<>> /\ time' = Tick(time) /\ pc' = "move"
      /\ near' = near /\ firing' = firing
  BY DEF TimerShift, Tick
<1>3. moving = <<>> /\ firing = <<>>
  BY <1>1, <1>2 DEF WheelControl
<1>4. /\ time \in Clock /\ near \in [0..TIME_NEAR - 1 -> Seq(Node)]
      /\ level \in [0..3 -> [0..TIME_LEVEL - 1 -> Seq(Node)]]
  BY <1>1 DEF WheelType
<1>5. PICK ct \in Clock : ct = Tick(time)
  BY <1>4, TickFacts
<1>6. NearPlaced'
  <2> SUFFICES ASSUME NEW k \in 0..TIME_NEAR - 1, NEW n \in DOMAIN near[k]
               PROVE  NearFits(near[k][n].expire, k, ct)
    BY <1>2, <1>5, Zenon DEF NearPlaced, NearFits, IsNear
  <2>1. PICK e \in Clock : e = near[k][n].expire
    BY <1>4, NodeClock
  <2>2. NearFits(e, k, time)
    BY <1>1, <2>1 DEF NearPlaced
  <2>3. e # time
    <3>1. k # Now
      BY <1>2
    <3> QED BY <2>2, <3>1 DEF NearFits, Now
  <2> QED BY <1>4, <1>5, <2>1, <2>2, <2>3, ShiftNear
<1>7. ASSUME NEW i \in 0..3, NEW k \in 0..TIME_LEVEL - 1, NEW n \in DOMAIN level[i][k]
      PROVE  /\ <<i, k>> \notin Cascade(ct) => LevelFits(level[i][k][n].expire, i, k, ct)
             /\ <<i, k>> \in Cascade(ct) => ct <= level[i][k][n].expire
  <2>0. level[i][k] \in Seq(Node)
    BY <1>4
  <2>1. PICK e \in Clock : e = level[i][k][n].expire
    BY <2>0, NodeClock
  <2>2. LevelFits(e, i, k, time)
    BY <1>1, <2>1 DEF LevelPlaced
  <2>3. <<i, k>> \notin Cascade(ct) => LevelFits(e, i, k, ct)
    BY <1>4, <1>5, <2>2, ShiftLevel
  <2>4. <<i, k>> \in Cascade(ct) => ct <= e
    BY <1>4, <1>5, <2>2, MovedInTime
  <2> QED BY <2>1, <2>3, <2>4
<1>8. CASE Cascade(ct) = {} /\ level' = level /\ moving' = moving
  <2>1. LevelPlaced'
    <3> SUFFICES ASSUME NEW i \in 0..3, NEW k \in 0..TIME_LEVEL - 1, NEW n \in DOMAIN level[i][k]
                 PROVE  LevelFits(level[i][k][n].expire, i, k, ct)
      BY <1>2, <1>5, <1>8, Zenon DEF LevelPlaced, LevelFits
    <3> QED BY <1>7, <1>8
  <2>2. WheelType'
    BY <1>1, <1>2, <1>5, <1>8 DEF WheelType
  <2>3. WheelControl'
    BY <1>1, <1>2, <1>3 DEF WheelControl
  <2>4. WalkPlaced'
    BY <1>2, <1>3, <1>8 DEF WalkPlaced
  <2> QED BY <1>6, <2>1, <2>2, <2>3, <2>4 DEF WheelInv
<1>9. CASE \E p \in Cascade(ct) : /\ moving' = level[p[1]][p[2]]
                                 /\ level' = [level EXCEPT ![p[1]][p[2]] = <<>>]
  <2>1. PICK p \in Cascade(ct) : /\ moving' = level[p[1]][p[2]]
                                 /\ level' = [level EXCEPT ![p[1]][p[2]] = <<>>]
    BY <1>9
  <2>2. PICK a \in 0..3, b \in 0..TIME_LEVEL - 1 :
          p = <<a, b>> /\ \A q \in Cascade(ct) : q = <<a, b>>
    BY <2>1, CascadeOne
  <2>3. moving' = level[a][b] /\ level' = [level EXCEPT ![a][b] = <<>>]
    BY <2>1, <2>2
  <2>4. /\ level' \in [0..3 -> [0..TIME_LEVEL - 1 -> Seq(Node)]]
        /\ level'[a][b] = <<>>
        /\ \A i \in 0..3, k \in 0..TIME_LEVEL - 1 : ~(i = a /\ k = b) => level'[i][k] = level[i][k]
    <3>1. level[a] \in [0..TIME_LEVEL - 1 -> Seq(Node)] /\ <<>> \in Seq(Node)
      BY <1>4
    <3>2. PICK row : row = [level[a] EXCEPT ![b] = <<>>]
      OBVIOUS
    <3>3. /\ row \in [0..TIME_LEVEL - 1 -> Seq(Node)] /\ row[b] = <<>>
          /\ \A k \in 0..TIME_LEVEL - 1 : k # b => row[k] = level[a][k]
      BY <3>1, <3>2
    <3>4. level' = [level EXCEPT ![a] = row]
      BY <2>3, <3>2
    <3>5. level'[a] = row /\ \A i \in 0..3 : i # a => level'[i] = level[i]
      BY <1>4, <3>4
    <3>6. level' \in [0..3 -> [0..TIME_LEVEL - 1 -> Seq(Node)]]
      BY <1>4, <3>3, <3>4
    <3> QED BY <3>3, <3>5, <3>6
  <2>5. LevelPlaced'
    <3> SUFFICES ASSUME NEW i \in 0..3, NEW k \in 0..TIME_LEVEL - 1, NEW n \in DOMAIN level'[i][k]
                 PROVE  LevelFits(level'[i][k][n].expire, i, k, ct)
      BY <1>2, <1>5, Zenon DEF LevelPlaced, LevelFits
    <3>1. ~(i = a /\ k = b)
      BY <2>4
    <3>2. level'[i][k] = level[i][k] /\ <<i, k>> \notin Cascade(ct)
      BY <2>2, <2>4, <3>1
    <3> QED BY <1>7, <3>2
  <2>6. moving' \in Seq(Node)
    BY <1>4, <2>3
  <2>7. WheelType'
    BY <1>1, <1>2, <1>5, <2>4, <2>6 DEF WheelType
  <2>8. WheelControl'
    BY <1>1, <1>2, <1>3 DEF WheelControl
  <2>9. WalkPlaced'
    <3>1. <<a, b>> \in Cascade(ct)
      BY <2>2
    <3>2. \A n \in DOMAIN level[a][b] : ct <= level[a][b][n].expire
      BY <1>7, <3>1
    <3> QED BY <1>2, <1>3, <1>5, <2>3, <3>2 DEF WalkPlaced
  <2> QED BY <1>6, <2>5, <2>7, <2>8, <2>9 DEF WheelInv
<1>10. \/ Cascade(ct) = {} /\ level' = level /\ moving' = moving
       \/ \E p \in Cascade(ct) : /\ moving' = level[p[1]][p[2]]
                                 /\ level' = [level EXCEPT ![p[1]][p[2]] = <<>>]
  BY <1>5 DEF TimerShift, Tick
<1> QED
  BY <1>8, <1>9, <1>10

\* move_list puts the nodes of its list, one by one, where they belong now.
LEMMA WheelMoveNode ==
    ASSUME WheelInv, MoveNode
    PROVE  WheelInv'
<1>1. WheelType /\ WheelControl /\ NearPlaced /\ LevelPlaced /\ WalkPlaced
  BY DEF WheelInv
<1>2. /\ pc = "move" /\ moving # <<>> /\ AddNode(Head(moving)) /\ moving' = Tail(moving)
      /\ time' = time /\ pc' = pc /\ firing' = firing
  BY DEF MoveNode
<1>3. /\ Head(moving) \in Node /\ Tail(moving) \in Seq(Node)
      /\ 1 \in DOMAIN moving /\ Head(moving) = moving[1]
      /\ \A n \in DOMAIN Tail(moving) : n + 1 \in DOMAIN moving /\ Tail(moving)[n] = moving[n + 1]
  BY <1>1, <1>2, TailNodes DEF WheelType
<1>4. time <= Head(moving).expire
  BY <1>1, <1>3 DEF WalkPlaced
<1>5. /\ near' \in [0..TIME_NEAR - 1 -> Seq(Node)]
      /\ level' \in [0..3 -> [0..TIME_LEVEL - 1 -> Seq(Node)]]
      /\ NearPlaced' /\ LevelPlaced'
  BY <1>1, <1>2, <1>3, <1>4, AddNodeKeeps
<1>6. WheelType'
  BY <1>1, <1>2, <1>3, <1>5 DEF WheelType
<1>7. WheelControl'
  BY <1>1, <1>2 DEF WheelControl
<1>8. WalkPlaced'
  BY <1>1, <1>2, <1>3 DEF WalkPlaced
<1> QED
  BY <1>5, <1>6, <1>7, <1>8 DEF WheelInv

\* The other steps leave the clock and all lists alone.
LEMMA WheelStill ==
    ASSUME WheelInv, UNCHANGED <<time, near, level, moving, firing>>,
           \/ pc' = pc
           \/ pc = "sleep" /\ pc' = "update"
           \/ pc = "update" /\ pc' \in {"sleep", "execute0"}
           \/ pc = "move" /\ pc' = "execute1" /\ moving = <<>>
           \/ pc = "execute1" /\ pc' = "update" /\ near[Now] = <<>>
    PROVE  WheelInv'
<1>1. WheelType /\ WheelControl /\ NearPlaced /\ LevelPlaced /\ WalkPlaced
  BY DEF WheelInv
<1>2. WheelType'
  BY <1>1 DEF WheelType
<1>3. WheelControl'
  BY <1>1 DEF WheelControl, Now
<1>4. NearPlaced' /\ LevelPlaced'
  BY <1>1, Zenon DEF NearPlaced, NearFits, IsNear, LevelPlaced, LevelFits
<1>5. WalkPlaced'
  BY <1>1, Zenon DEF WalkPlaced
<1> QED
  BY <1>2, <1>3, <1>4, <1>5 DEF WheelInv

\* Every step of the timer thread and of the services keeps the invariant.
LEMMA WheelNext == WheelInv /\ [Next]_timervars => WheelInv'
<1> SUFFICES ASSUME WheelInv, [Next]_timervars PROVE WheelInv'
  OBVIOUS
<1>1. CASE \E d \in 1..MaxDiff : UpdateTime(d)
  BY <1>1, WheelStill DEF UpdateTime
<1>2. CASE UpdateLoop
  BY <1>2, WheelStill DEF UpdateLoop
<1>3. CASE UpdateDone
  BY <1>3, WheelStill DEF UpdateDone
<1>4. CASE MoveDone
  BY <1>4, WheelStill DEF MoveDone
<1>5. CASE ExecuteDone
  BY <1>5, WheelStill DEF ExecuteDone
<1>6. ASSUME NEW s \in Session, TimeoutNow(s)
      PROVE  WheelInv'
  BY <1>6, WheelStill DEF TimeoutNow
<1>7. ASSUME NEW s \in Session, HandleResponse(s)
      PROVE  WheelInv'
  BY <1>7, WheelStill DEF HandleResponse
<1>8. CASE UNCHANGED timervars
  BY <1>8, WheelStill DEF timervars
<1> QED
  BY <1>1, <1>2, <1>3, <1>4, <1>5, <1>6, <1>7, <1>8, WheelTimeoutLater, WheelExecuteTake,
     WheelDispatch, WheelTimerShift, WheelMoveNode DEF Next, TimerThread, Service

\* Every node of the wheel is in the list where the cascades will find it
\* in time, whatever the sizes of the wheel and wherever the clock wraps.
THEOREM WheelInOrder == Spec => []WheelInv
BY WheelInit, WheelNext, PTL DEF Spec

\* When no list is walked and nothing is due, no list holds a node that
\* expires now.
LEMMA InvOnTime == WheelInv => OnTime
<1> SUFFICES ASSUME WheelInv PROVE OnTime
  OBVIOUS
<1>1. WheelType /\ WheelControl /\ NearPlaced /\ LevelPlaced /\ WalkPlaced
  BY DEF WheelInv
<1>2. \A n \in DOMAIN firing : firing[n].expire = time
  BY <1>1 DEF WalkPlaced
<1>3. ASSUME pc \in {"sleep", "update", "execute0"}
      PROVE  near[Now] = <<>> /\ \A list \in Lists : \A n \in DOMAIN list : list[n].expire # time
  <2>1. near[Now] = <<>> /\ moving = <<>> /\ firing = <<>>
    BY <1>1, <1>3 DEF WheelControl
  <2>2. ASSUME NEW k \in 0..TIME_NEAR - 1, NEW n \in DOMAIN near[k]
        PROVE  near[k][n].expire # time
    <3>1. k # Now
      BY <2>1
    <3> QED BY <1>1, <3>1 DEF NearPlaced, NearFits, Now
  <2>3. ASSUME NEW i \in 0..3, NEW k \in 0..TIME_LEVEL - 1, NEW n \in DOMAIN level[i][k]
        PROVE  level[i][k][n].expire # time
    BY <1>1 DEF LevelPlaced, LevelFits
  <2> QED BY <2>1, <2>2, <2>3 DEF Lists
<1> QED
  BY <1>2, <1>3 DEF OnTime

\* Timeouts fire on time: dispatch_list walks only nodes that expire at
\* T->time, and no update of the clock leaves such a node behind, in the
\* near array or in a level.
THEOREM TimeoutsOnTime == Spec => []OnTime
BY WheelInOrder, InvOnTime, PTL

-----------------------------------------------------------------------------
(* Nothing is lost or answered twice: the lists together as one store      *)

\* where a node can be: a list of the near array, of a level, or one that is
\* walked
Place ==
    ({-1} \X (0..TIME_NEAR - 1)) \cup ((0..3) \X (0..TIME_LEVEL - 1)) \cup {<<-2, 0>>, <<-3, 0>>}

Stores == [Place -> Seq(Node)]

StoreOf(nr, lv, mv, fr) ==
  [p \in Place |->
    CASE p[1] = -1 -> nr[p[2]]
      [] p[1] = -2 -> mv
      [] p[1] = -3 -> fr
      [] OTHER -> lv[p[1]][p[2]]]

Store == StoreOf(near, level, moving, firing)

Holds(S, x) == \E p \in Place : \E n \in DOMAIN S[p] : S[p][n] = x

\* no session is in two places
Once(S) ==
    \A p, q \in Place : \A m \in DOMAIN S[p], n \in DOMAIN S[q] :
       S[p][m].session = S[q][n].session => p = q /\ m = n

\* The places of one session are the same.
LEMMA OnceAt ==
    ASSUME NEW S, Once(S), NEW p \in Place, NEW q \in Place, NEW m \in DOMAIN S[p],
           NEW n \in DOMAIN S[q], S[p][m].session = S[q][n].session
    PROVE  p = q /\ m = n
BY Zenon DEF Once

\* link of a node with a new session.
LEMMA PutOnce ==
    ASSUME NEW S \in Stores, NEW T \in Stores, NEW a \in Place, NEW x \in Node,
           T[a] = Append(S[a], x), \A p \in Place : p # a => T[p] = S[p]
    PROVE  /\ \A y : Holds(T, y) <=> Holds(S, y) \/ y = x
           /\ Once(S) /\ (\A y : Holds(S, y) => y.session # x.session) => Once(T)
<1>0. S[a] \in Seq(Node) /\ Len(S[a]) \in Nat
  BY DEF Stores
<1>1. /\ DOMAIN T[a] = DOMAIN S[a] \cup {Len(S[a]) + 1} /\ Len(S[a]) + 1 \notin DOMAIN S[a]
      /\ T[a][Len(S[a]) + 1] = x
      /\ \A n \in DOMAIN S[a] : T[a][n] = S[a][n]
  BY <1>0
<1> DEFINE last == Len(S[a]) + 1
<1>2. /\ DOMAIN T[a] = DOMAIN S[a] \cup {last} /\ last \notin DOMAIN S[a]
      /\ T[a][last] = x
      /\ \A n \in DOMAIN S[a] : T[a][n] = S[a][n]
  BY <1>1
<1> HIDE DEF last
<1>3. ASSUME NEW p \in Place, NEW n \in DOMAIN T[p]
      PROVE  \/ p = a /\ n = last /\ T[p][n] = x
             \/ n \in DOMAIN S[p] /\ T[p][n] = S[p][n]
  BY <1>2, Zenon
<1>4. ASSUME NEW y, Holds(T, y)
      PROVE  Holds(S, y) \/ y = x
  BY <1>3, <1>4, Zenon DEF Holds
<1>5. ASSUME NEW y, Holds(S, y) \/ y = x
      PROVE  Holds(T, y)
  BY <1>2, <1>5, Zenon DEF Holds
<1>6. ASSUME Once(S), \A y : Holds(S, y) => y.session # x.session
      PROVE  Once(T)
  <2> SUFFICES ASSUME NEW p \in Place, NEW q \in Place, NEW m \in DOMAIN T[p], NEW n \in DOMAIN T[q],
                      T[p][m].session = T[q][n].session
               PROVE  p = q /\ m = n
    BY Zenon DEF Once
  <2>1. \/ p = a /\ m = last /\ T[p][m] = x
        \/ m \in DOMAIN S[p] /\ T[p][m] = S[p][m]
    BY <1>3
  <2>2. \/ q = a /\ n = last /\ T[q][n] = x
        \/ n \in DOMAIN S[q] /\ T[q][n] = S[q][n]
    BY <1>3
  <2>3. m \in DOMAIN S[p] => S[p][m].session # x.session
    BY <1>6, Zenon DEF Holds
  <2>4. n \in DOMAIN S[q] => S[q][n].session # x.session
    BY <1>6, Zenon DEF Holds
  <2>5. m \in DOMAIN S[p] /\ n \in DOMAIN S[q] /\ S[p][m].session = S[q][n].session => p = q /\ m = n
    BY <1>6, Zenon DEF Once
  <2> QED BY <2>1, <2>2, <2>3, <2>4, <2>5, Zenon
<1> QED
  BY <1>4, <1>5, <1>6

\* The first node of a walked list is taken out.
LEMMA DropOnce ==
    ASSUME NEW S \in Stores, NEW T \in Stores, NEW a \in Place, Once(S), S[a] # <<>>,
           T[a] = Tail(S[a]), \A p \in Place : p # a => T[p] = S[p]
    PROVE  /\ Holds(S, Head(S[a]))
           /\ \A y : Holds(T, y) <=> Holds(S, y) /\ y # Head(S[a])
           /\ \A y : Holds(T, y) => y.session # Head(S[a]).session
           /\ Once(T)
<1>0. S[a] \in Seq(Node) /\ DOMAIN S[a] = 1..Len(S[a]) /\ Len(S[a]) \in Nat
  BY DEF Stores
<1>1. /\ 1 \in DOMAIN S[a] /\ Head(S[a]) = S[a][1]
      /\ \A n \in DOMAIN T[a] : n + 1 \in DOMAIN S[a] /\ T[a][n] = S[a][n + 1]
  BY <1>0, TailNodes
<1>2. DOMAIN T[a] = 1..Len(S[a]) - 1
  BY <1>0
<1>t. \A n \in DOMAIN T[a] : n \in Nat /\ n + 1 # 1
  BY <1>0, <1>2
<1>3. \A n \in DOMAIN S[a] : n # 1 => n - 1 \in DOMAIN T[a] /\ (n - 1) + 1 = n
  BY <1>0, <1>2
<1>4. PICK h : h = Head(S[a])
  OBVIOUS
<1>5. h = S[a][1]
  BY <1>1, <1>4
\* where a node of T was in S
<1>6. ASSUME NEW p \in Place, NEW n \in DOMAIN T[p]
      PROVE  \E m \in DOMAIN S[p] : /\ T[p][n] = S[p][m]
                                    /\ p = a => m = n + 1 /\ m # 1
                                    /\ p # a => m = n
  <2>1. CASE p = a
    BY <1>1, <1>t, <2>1
  <2>2. CASE p # a
    BY <2>2
  <2> QED BY <2>1, <2>2
<1>7. ASSUME NEW y, Holds(T, y)
      PROVE  Holds(S, y) /\ y.session # h.session
  <2>0. PICK p \in Place : \E n \in DOMAIN T[p] : T[p][n] = y
    BY <1>7, Zenon DEF Holds
  <2>1. PICK n \in DOMAIN T[p] : T[p][n] = y
    BY <2>0
  <2>2. PICK m \in DOMAIN S[p] : T[p][n] = S[p][m] /\ (p = a => m # 1)
    BY <1>6
  <2>3. Holds(S, y)
    BY <2>1, <2>2, Zenon DEF Holds
  <2>4. S[p][m].session # S[a][1].session
    <3> SUFFICES ASSUME S[p][m].session = S[a][1].session PROVE FALSE
      OBVIOUS
    <3>1. p = a /\ m = 1
      BY <1>1, OnceAt
    <3> QED BY <2>2, <3>1
  <2> QED BY <1>5, <2>1, <2>2, <2>3, <2>4, Zenon
<1>8. ASSUME NEW y, Holds(S, y), y # h
      PROVE  Holds(T, y)
  <2>0. PICK p \in Place : \E m \in DOMAIN S[p] : S[p][m] = y
    BY <1>8, Zenon DEF Holds
  <2>1. PICK m \in DOMAIN S[p] : S[p][m] = y
    BY <2>0
  <2>2. CASE p = a
    <3>1. m # 1
      BY <1>5, <1>8, <2>1, <2>2, Zenon
    <3>2. PICK n \in DOMAIN T[a] : n + 1 = m
      BY <1>3, <2>1, <2>2, <3>1
    <3>3. T[a][n] = y
      BY <1>1, <2>1, <2>2, <3>2, Zenon
    <3> QED BY <3>2, <3>3, Zenon DEF Holds
  <2>3. CASE p # a
    BY <2>1, <2>3, Zenon DEF Holds
  <2> QED BY <2>2, <2>3
<1>9. Once(T)
  <2> SUFFICES ASSUME NEW p \in Place, NEW q \in Place, NEW m \in DOMAIN T[p], NEW n \in DOMAIN T[q],
                      T[p][m].session = T[q][n].session
               PROVE  p = q /\ m = n
    BY Zenon DEF Once
  <2>1. PICK k \in DOMAIN S[p] : T[p][m] = S[p][k] /\ (p = a => k = m + 1) /\ (p # a => k = m)
    BY <1>6
  <2>2. PICK l \in DOMAIN S[q] : T[q][n] = S[q][l] /\ (q = a => l = n + 1) /\ (q # a => l = n)
    BY <1>6
  <2>s. S[p][k].session = S[q][l].session
    BY <2>1, <2>2, Zenon
  <2>3. p = q /\ k = l
    BY <2>s, OnceAt
  <2>4. p = a => m \in Nat /\ n \in Nat
    BY <1>t, <2>3
  <2> QED BY <2>1, <2>2, <2>3, <2>4
<1>10. Holds(S, h)
  BY <1>1, <1>5, Zenon DEF Holds
<1>11. ~Holds(T, h)
  BY <1>7
<1> QED
  BY <1>4, <1>7, <1>8, <1>9, <1>10, <1>11

\* link_clear: a whole list is taken to be walked.
LEMMA TakeOnce ==
    ASSUME NEW S \in Stores, NEW T \in Stores, NEW a \in Place, NEW b \in Place, a # b,
           S[b] = <<>>, T[b] = S[a], T[a] = <<>>,
           \A p \in Place : p # a /\ p # b => T[p] = S[p]
    PROVE  /\ \A y : Holds(T, y) <=> Holds(S, y)
           /\ Once(S) => Once(T)
<1>0. DOMAIN T[a] = {} /\ DOMAIN S[b] = {}
  OBVIOUS
<1>1. ASSUME NEW y, Holds(S, y)
      PROVE  Holds(T, y)
  <2>0. PICK p \in Place : \E n \in DOMAIN S[p] : S[p][n] = y
    BY <1>1, Zenon DEF Holds
  <2>1. PICK n \in DOMAIN S[p] : S[p][n] = y
    BY <2>0
  <2>2. CASE p = a
    BY <2>1, <2>2, Zenon DEF Holds
  <2>3. CASE p # a
    <3>1. p # b
      BY <1>0, <2>1, Zenon
    <3> QED BY <2>1, <2>3, <3>1, Zenon DEF Holds
  <2> QED BY <2>2, <2>3
<1>2. ASSUME NEW p \in Place, NEW n \in DOMAIN T[p]
      PROVE  \E q \in Place : /\ n \in DOMAIN S[q] /\ T[p][n] = S[q][n]
                              /\ p = b => q = a
                              /\ p # b => q = p /\ p # a
  <2>1. p # a
    BY <1>0, Zenon
  <2>2. CASE p = b
    BY <2>2, Zenon
  <2>3. CASE p # b
    BY <2>1, <2>3, Zenon
  <2> QED BY <2>2, <2>3
<1>3. ASSUME NEW y, Holds(T, y)
      PROVE  Holds(S, y)
  <2>0. PICK p \in Place : \E n \in DOMAIN T[p] : T[p][n] = y
    BY <1>3, Zenon DEF Holds
  <2>1. PICK n \in DOMAIN T[p] : T[p][n] = y
    BY <2>0
  <2>2. PICK q \in Place : n \in DOMAIN S[q] /\ T[p][n] = S[q][n]
    BY <1>2
  <2> QED BY <2>1, <2>2, Zenon DEF Holds
<1>4. ASSUME Once(S)
      PROVE  Once(T)
  <2> SUFFICES ASSUME NEW p \in Place, NEW q \in Place, NEW m \in DOMAIN T[p], NEW n \in DOMAIN T[q],
                      T[p][m].session = T[q][n].session
               PROVE  p = q /\ m = n
    BY Zenon DEF Once
  <2>1. PICK k \in Place : /\ m \in DOMAIN S[k] /\ T[p][m] = S[k][m]
                           /\ p = b => k = a
                           /\ p # b => k = p /\ p # a
    BY <1>2
  <2>2. PICK l \in Place : /\ n \in DOMAIN S[l] /\ T[q][n] = S[l][n]
                           /\ q = b => l = a
                           /\ q # b => l = q /\ q # a
    BY <1>2
  <2>s. S[k][m].session = S[l][n].session
    BY <2>1, <2>2, Zenon
  <2>d. m \in DOMAIN S[k] /\ n \in DOMAIN S[l]
    BY <2>1, <2>2
  <2>3. k = l /\ m = n
    BY <1>4, <2>s, <2>d, OnceAt
  <2> QED BY <2>1, <2>2, <2>3, Zenon
<1> QED
  BY <1>1, <1>3, <1>4

\* what the store S holds at each place
IsStore(S, nr, lv, mv, fr) ==
    /\ S \in Stores
    /\ \A k \in 0..TIME_NEAR - 1 : <<-1, k>> \in Place /\ S[<<-1, k>>] = nr[k]
    /\ \A i \in 0..3, k \in 0..TIME_LEVEL - 1 : <<i, k>> \in Place /\ S[<<i, k>>] = lv[i][k]
    /\ <<-2, 0>> \in Place /\ S[<<-2, 0>>] = mv
    /\ <<-3, 0>> \in Place /\ S[<<-3, 0>>] = fr

\* The lists of the store.
LEMMA StoreOfFacts ==
    ASSUME NEW nr \in [0..TIME_NEAR - 1 -> Seq(Node)],
           NEW lv \in [0..3 -> [0..TIME_LEVEL - 1 -> Seq(Node)]],
           NEW mv \in Seq(Node), NEW fr \in Seq(Node)
    PROVE  IsStore(StoreOf(nr, lv, mv, fr), nr, lv, mv, fr)
<1> DEFINE S == StoreOf(nr, lv, mv, fr)
<1>1. \A k \in 0..TIME_NEAR - 1 : <<-1, k>> \in Place /\ S[<<-1, k>>] = nr[k]
  BY DEF StoreOf, Place
<1>2. <<-2, 0>> \in Place /\ S[<<-2, 0>>] = mv
  BY DEF StoreOf, Place
<1>3. <<-3, 0>> \in Place /\ S[<<-3, 0>>] = fr
  BY DEF StoreOf, Place
<1>4. \A i \in 0..3, k \in 0..TIME_LEVEL - 1 : <<i, k>> \in Place /\ S[<<i, k>>] = lv[i][k]
  <2> SUFFICES ASSUME NEW i \in 0..3, NEW k \in 0..TIME_LEVEL - 1
               PROVE  <<i, k>> \in Place /\ S[<<i, k>>] = lv[i][k]
    OBVIOUS
  <2>1. i # -1 /\ i # -2 /\ i # -3
    OBVIOUS
  <2> QED BY <2>1 DEF StoreOf, Place
<1>5. ASSUME NEW p \in Place
      PROVE  S[p] \in Seq(Node)
  <2>1. CASE p \in {-1} \X (0..TIME_NEAR - 1)
    <3>1. PICK k \in 0..TIME_NEAR - 1 : p = <<-1, k>>
      BY <2>1
    <3> QED BY <1>1, <3>1
  <2>2. CASE p \in (0..3) \X (0..TIME_LEVEL - 1)
    <3>1. PICK i \in 0..3, k \in 0..TIME_LEVEL - 1 : p = <<i, k>>
      BY <2>2
    <3>2. S[<<i, k>>] = lv[i][k]
      BY <1>4
    <3>3. lv[i][k] \in Seq(Node)
      OBVIOUS
    <3> QED BY <3>1, <3>2, <3>3, Zenon
  <2>3. CASE p \in {<<-2, 0>>, <<-3, 0>>}
    BY <1>2, <1>3, <2>3
  <2> QED BY <2>1, <2>2, <2>3 DEF Place
<1>6. S \in Stores
  <2>1. S = [p \in Place |-> S[p]]
    BY DEF StoreOf
  <2> HIDE DEF S
  <2> QED BY <1>5, <2>1 DEF Stores
<1> QED
  BY <1>1, <1>2, <1>3, <1>4, <1>6 DEF IsStore

\* Every place is that of one of the lists.
LEMMA PlaceCases ==
    ASSUME NEW p \in Place
    PROVE  \/ \E k \in 0..TIME_NEAR - 1 : p = <<-1, k>>
           \/ \E i \in 0..3, k \in 0..TIME_LEVEL - 1 : p = <<i, k>>
           \/ p = <<-2, 0>>
           \/ p = <<-3, 0>>
BY DEF Place

\* the nodes in all the lists
Agenda == {x \in Node : Holds(Store, x)}

\* What the wheel does, seen from outside, order among equals apart: a
\* timeout is entered once, is answered when the time is its expiry and is
\* then gone, and time goes on only when nothing more is due.
AgendaNext ==
    \/ /\ \E s \in Session, d \in Delay :
            /\ s \notin answered
            /\ \A y \in Agenda : y.session # s
            /\ Agenda' = Agenda \cup {[session |-> s, expire |-> (time + d) % Range32]}
       /\ UNCHANGED <<time, answered>>
    \/ /\ \E x \in Agenda :
            /\ x.expire = time
            /\ x.session \notin answered
            /\ \A y \in Agenda' : y.session # x.session
            /\ Agenda' = Agenda \ {x}
            /\ answered' = answered \cup {x.session}
       /\ UNCHANGED time
    \/ /\ \A x \in Agenda : x.expire # time
       /\ time' = Tick(time)
       /\ UNCHANGED <<Agenda, answered>>
    \/ /\ \E s \in Session : \/ s \in answered /\ answered' = answered \ {s}
                             \/ /\ \A y \in Agenda : y.session # s
                                /\ answered' = answered \cup {s}
       /\ UNCHANGED <<time, Agenda>>

agendavars == <<time, Agenda, answered>>

\* no session waits in two places, or waits when its answer is on its way
OnceInv == Once(Store) /\ \A x \in Agenda : x.session \notin answered

\* The store at this moment.
LEMMA StoreNow ==
    ASSUME WheelType
    PROVE  /\ IsStore(Store, near, level, moving, firing)
           /\ \A p \in Place : Store[p] \in Lists
<1>2. IsStore(Store, near, level, moving, firing)
  BY StoreOfFacts DEF WheelType, Store
<1>3. ASSUME NEW p \in Place
      PROVE  Store[p] \in Lists
  <2>1. CASE \E k \in 0..TIME_NEAR - 1 : p = <<-1, k>>
    BY <1>2, <2>1 DEF Lists, IsStore
  <2>2. CASE \E i \in 0..3, k \in 0..TIME_LEVEL - 1 : p = <<i, k>>
    <3>1. PICK i \in 0..3, k \in 0..TIME_LEVEL - 1 : p = <<i, k>>
      BY <2>2
    <3>2. Store[p] = level[i][k]
      BY <1>2, <3>1 DEF IsStore
    <3>3. level[i][k] \in UNION {{level[j][q] : q \in 0..TIME_LEVEL - 1} : j \in 0..3}
      OBVIOUS
    <3> QED BY <3>2, <3>3, Zenon DEF Lists
  <2>3. CASE p = <<-2, 0>> \/ p = <<-3, 0>>
    BY <1>2, <2>3 DEF Lists, IsStore
  <2> QED BY <2>1, <2>2, <2>3, PlaceCases
<1> QED
  BY <1>2, <1>3

\* A free session is in no list.
LEMMA IdleFree ==
    ASSUME WheelType, NEW s, Idle(s)
    PROVE  s \notin answered /\ \A y : Holds(Store, y) => y.session # s
<1>1. s \notin answered /\ \A list \in Lists : \A n \in DOMAIN list : list[n].session # s
  BY DEF Idle, Waiting, ToSet
<1>2. \A p \in Place : Store[p] \in Lists
  BY StoreNow
<1> QED
  BY <1>1, <1>2, Zenon DEF Holds

\* add_node puts the node into one list and leaves the others alone.
LEMMA AddNodeStore ==
    ASSUME WheelInv, NEW x \in Node, AddNode(x), time' = time,
           x.expire \div Span[3] = time \div Span[3] => time <= x.expire,
           NEW mv \in Seq(Node), NEW fr \in Seq(Node)
    PROVE  /\ StoreOf(near, level, mv, fr) \in Stores
           /\ StoreOf(near', level', mv, fr) \in Stores
           /\ \E a \in Place :
                /\ a # <<-2, 0>> /\ a # <<-3, 0>>
                /\ StoreOf(near', level', mv, fr)[a] = Append(StoreOf(near, level, mv, fr)[a], x)
                /\ \A p \in Place : p # a =>
                     StoreOf(near', level', mv, fr)[p] = StoreOf(near, level, mv, fr)[p]
<1>1. WheelType /\ NearPlaced /\ LevelPlaced
  BY DEF WheelInv
<1>2. /\ near \in [0..TIME_NEAR - 1 -> Seq(Node)]
      /\ level \in [0..3 -> [0..TIME_LEVEL - 1 -> Seq(Node)]]
      /\ near' \in [0..TIME_NEAR - 1 -> Seq(Node)]
      /\ level' \in [0..3 -> [0..TIME_LEVEL - 1 -> Seq(Node)]]
  BY <1>1, AddNodeKeeps DEF WheelType
<1>3. PICK S : S = StoreOf(near, level, mv, fr)
  OBVIOUS
<1>4. PICK T : T = StoreOf(near', level', mv, fr)
  OBVIOUS
<1>5. IsStore(S, near, level, mv, fr)
  BY <1>2, <1>3, StoreOfFacts
<1>6. IsStore(T, near', level', mv, fr)
  BY <1>2, <1>4, StoreOfFacts
<1>e. x.expire \in Clock /\ time \in Clock /\ x.expire \in Nat /\ time \in Nat
  BY <1>1, SpanFacts DEF WheelType, Node, Clock
<1> SUFFICES \E a \in Place : /\ a # <<-2, 0>> /\ a # <<-3, 0>>
                              /\ T[a] = Append(S[a], x)
                              /\ \A p \in Place : p # a => T[p] = S[p]
  BY <1>3, <1>4, <1>5, <1>6 DEF IsStore
<1>7. CASE IsNear(x.expire, time)
  <2>1. PICK j \in 0..TIME_NEAR - 1 : j = x.expire % TIME_NEAR
    BY <1>e, NearIndex
  <2>2. near' = [near EXCEPT ![j] = Append(@, x)] /\ level' = level
    BY <1>7, <2>1 DEF AddNode
  <2>3. near'[j] = Append(near[j], x) /\ \A k \in 0..TIME_NEAR - 1 : k # j => near'[k] = near[k]
    BY <1>2, <2>2
  <2>4. T[<<-1, j>>] = Append(S[<<-1, j>>], x)
    BY <1>5, <1>6, <2>3 DEF IsStore
  <2>5. ASSUME NEW p \in Place, p # <<-1, j>>
        PROVE  T[p] = S[p]
    <3>1. CASE \E k \in 0..TIME_NEAR - 1 : p = <<-1, k>>
      BY <1>5, <1>6, <2>3, <2>5, <3>1 DEF IsStore
    <3>2. CASE \E i \in 0..3, k \in 0..TIME_LEVEL - 1 : p = <<i, k>>
      BY <1>5, <1>6, <2>2, <3>2 DEF IsStore
    <3>3. CASE p = <<-2, 0>> \/ p = <<-3, 0>>
      BY <1>5, <1>6, <3>3 DEF IsStore
    <3> QED BY <3>1, <3>2, <3>3, PlaceCases
  <2>6. <<-1, j>> \in Place /\ <<-1, j>> # <<-2, 0>> /\ <<-1, j>> # <<-3, 0>>
    BY <1>5 DEF IsStore
  <2> QED BY <2>4, <2>5, <2>6
<1>8. CASE ~IsNear(x.expire, time)
  <2>1. PICK i \in 0..3 : i = LevelOf(x.expire, time)
    BY <1>e, LevelOfFinds
  <2>2. PICK j \in 0..TIME_LEVEL - 1 : j = IndexOf(x.expire, i)
    BY <1>e, IndexInRange
  <2>3. level' = [level EXCEPT ![i][j] = Append(@, x)] /\ near' = near
    BY <1>8, <2>1, <2>2 DEF AddNode
  <2>4. /\ level'[i][j] = Append(level[i][j], x)
        /\ \A p \in 0..3, q \in 0..TIME_LEVEL - 1 : ~(p = i /\ q = j) => level'[p][q] = level[p][q]
    BY <1>2, <2>3
  <2>5. T[<<i, j>>] = Append(S[<<i, j>>], x)
    BY <1>5, <1>6, <2>4 DEF IsStore
  <2>6. ASSUME NEW p \in Place, p # <<i, j>>
        PROVE  T[p] = S[p]
    <3>1. CASE \E k \in 0..TIME_NEAR - 1 : p = <<-1, k>>
      BY <1>5, <1>6, <2>3, <3>1 DEF IsStore
    <3>2. CASE \E h \in 0..3, k \in 0..TIME_LEVEL - 1 : p = <<h, k>>
      BY <1>5, <1>6, <2>4, <2>6, <3>2 DEF IsStore
    <3>3. CASE p = <<-2, 0>> \/ p = <<-3, 0>>
      BY <1>5, <1>6, <3>3 DEF IsStore
    <3> QED BY <3>1, <3>2, <3>3, PlaceCases
  <2>7. <<i, j>> \in Place /\ <<i, j>> # <<-2, 0>> /\ <<i, j>> # <<-3, 0>>
    BY <1>5 DEF IsStore
  <2> QED BY <2>5, <2>6, <2>7
<1> QED
  BY <1>7, <1>8

\* skynet_timeout enters one node.
LEMMA EnterStep ==
    ASSUME WheelInv, OnceInv, NEW s \in Session, NEW d \in Delay, TimeoutLater(s, d)
    PROVE  AgendaNext /\ OnceInv'
<1>1. WheelType
  BY DEF WheelInv
<1>2. PICK x : x = [session |-> s, expire |-> (time + d) % Range32]
  OBVIOUS
<1>3. /\ AddNode(x) /\ time' = time /\ moving' = moving /\ firing' = firing /\ answered' = answered
      /\ Idle(s)
  BY <1>2 DEF TimeoutLater
<1>4. x \in Node /\ (x.expire \div Span[3] = time \div Span[3] => time <= x.expire) /\ x.session = s
  <2>1. time \in Clock /\ time \in Nat
    BY <1>1, SpanFacts DEF WheelType
  <2>2. PICK e : e = (time + d) % Range32
    OBVIOUS
  <2>3. e \in Clock /\ (e \div Span[3] = time \div Span[3] => time < e)
    BY <2>1, <2>2, NewExpire
  <2>4. x \in Node /\ x.expire = e /\ x.session = s
    BY <1>2, <2>2, <2>3 DEF Node, Clock
  <2>5. e \in Nat
    BY <2>3, SpanFacts
  <2> QED BY <2>1, <2>3, <2>4, <2>5
<1>5. s \notin answered /\ \A y : Holds(Store, y) => y.session # x.session
  BY <1>1, <1>3, <1>4, IdleFree
<1>6. moving \in Seq(Node) /\ firing \in Seq(Node)
  BY <1>1 DEF WheelType
<1>7. Store' = StoreOf(near', level', moving, firing)
  BY <1>3 DEF Store
<1>8. /\ Store \in Stores /\ Store' \in Stores
      /\ \E a \in Place : Store'[a] = Append(Store[a], x) /\ \A p \in Place : p # a => Store'[p] = Store[p]
  BY <1>3, <1>4, <1>6, <1>7, AddNodeStore DEF Store
<1>9. PICK a \in Place : Store'[a] = Append(Store[a], x) /\ \A p \in Place : p # a => Store'[p] = Store[p]
  BY <1>8
<1>10. /\ \A y : Holds(Store', y) <=> Holds(Store, y) \/ y = x
       /\ Once(Store')
  BY <1>4, <1>5, <1>8, <1>9, PutOnce DEF OnceInv
<1>11. Agenda' = Agenda \cup {x}
  BY <1>4, <1>10 DEF Agenda
<1>12. AgendaNext
  BY <1>2, <1>3, <1>4, <1>5, <1>11 DEF AgendaNext, Agenda
<1>13. OnceInv'
  <2>1. \A y \in Agenda : y.session \notin answered
    BY DEF OnceInv
  <2>2. \A y \in Agenda' : y.session \notin answered'
    BY <1>3, <1>4, <1>5, <1>11, <2>1
  <2> QED BY <1>10, <2>2 DEF OnceInv
<1> QED
  BY <1>12, <1>13

\* dispatch_list answers a node that is due and takes it out.
LEMMA AnswerStep ==
    ASSUME WheelInv, OnceInv, Dispatch, WheelType'
    PROVE  AgendaNext /\ OnceInv'
<1>1. WheelType /\ WheelControl /\ WalkPlaced
  BY DEF WheelInv
<1>2. /\ firing' = Tail(firing) /\ answered' = answered \cup {Head(firing).session}
      /\ time' = time /\ near' = near /\ level' = level /\ moving' = moving
      /\ firing # <<>>
  BY <1>1 DEF Dispatch, WheelType, WheelControl
<1>3. IsStore(Store, near, level, moving, firing)
  BY <1>1, StoreNow
<1>4. IsStore(Store', near, level, moving, Tail(firing))
  <2>1. /\ near \in [0..TIME_NEAR - 1 -> Seq(Node)]
        /\ level \in [0..3 -> [0..TIME_LEVEL - 1 -> Seq(Node)]]
        /\ moving \in Seq(Node) /\ Tail(firing) \in Seq(Node)
    BY <1>1, <1>2 DEF WheelType
  <2>2. Store' = StoreOf(near, level, moving, Tail(firing))
    BY <1>2 DEF Store
  <2> QED BY <2>1, <2>2, StoreOfFacts
<1>5. PICK S, T : S = Store /\ T = Store'
  OBVIOUS
<1>6. IsStore(S, near, level, moving, firing) /\ IsStore(T, near, level, moving, Tail(firing))
  BY <1>3, <1>4, <1>5
<1>7. PICK f \in Place : f = <<-3, 0>>
  BY <1>6 DEF IsStore
<1>8. S[f] = firing /\ T[f] = Tail(firing) /\ S \in Stores /\ T \in Stores
  BY <1>6, <1>7 DEF IsStore
<1>9. ASSUME NEW p \in Place, p # f
      PROVE  T[p] = S[p]
  <2>1. CASE \E k \in 0..TIME_NEAR - 1 : p = <<-1, k>>
    BY <1>6, <2>1 DEF IsStore
  <2>2. CASE \E i \in 0..3, k \in 0..TIME_LEVEL - 1 : p = <<i, k>>
    BY <1>6, <2>2 DEF IsStore
  <2>3. CASE p = <<-2, 0>>
    BY <1>6, <2>3 DEF IsStore
  <2> QED BY <1>7, <1>9, <2>1, <2>2, <2>3, PlaceCases
<1>10. PICK h : h = Head(firing)
  OBVIOUS
<1>11. Once(S)
  BY <1>5 DEF OnceInv
<1>12. /\ Holds(S, h)
       /\ \A y : Holds(T, y) <=> Holds(S, y) /\ y # h
       /\ \A y : Holds(T, y) => y.session # h.session
       /\ Once(T)
  <2>1. S[f] # <<>> /\ T[f] = Tail(S[f]) /\ h = Head(S[f])
    BY <1>2, <1>8, <1>10
  <2>2. /\ Holds(S, Head(S[f]))
        /\ \A y : Holds(T, y) <=> Holds(S, y) /\ y # Head(S[f])
        /\ \A y : Holds(T, y) => y.session # Head(S[f]).session
        /\ Once(T)
    BY <1>8, <1>9, <1>11, <2>1, DropOnce
  <2> QED BY <2>1, <2>2, Zenon
<1>13. h \in Node /\ h.expire = time
  BY <1>1, <1>2, <1>10, TailNodes DEF WheelType, WalkPlaced
<1>14. h \in Agenda /\ Agenda' = Agenda \ {h} /\ \A y \in Agenda' : y.session # h.session
  BY <1>5, <1>12, <1>13 DEF Agenda
<1>15. \A y \in Agenda : y.session \notin answered
  BY DEF OnceInv
<1>16. AgendaNext
  BY <1>2, <1>10, <1>13, <1>14, <1>15 DEF AgendaNext
<1>17. OnceInv'
  <2>1. \A y \in Agenda' : y.session \notin answered'
    BY <1>2, <1>10, <1>14, <1>15
  <2> QED BY <1>5, <1>12, <2>1 DEF OnceInv
<1> QED
  BY <1>16, <1>17

\* The agenda does not see which list a node is in.
LEMMA SameAgenda ==
    ASSUME OnceInv, answered' = answered, Once(Store'), \A y : Holds(Store', y) <=> Holds(Store, y)
    PROVE  Agenda' = Agenda /\ OnceInv'
<1>1. Agenda' = Agenda
  BY DEF Agenda
<1> QED
  BY <1>1 DEF OnceInv

\* timer_execute takes the list that is due as a whole.
LEMMA TakeStep ==
    ASSUME WheelInv, OnceInv, ExecuteTake, WheelType'
    PROVE  Agenda' = Agenda /\ OnceInv'
<1>1. WheelType /\ WheelControl
  BY DEF WheelInv
<1>2. /\ near[Now] # <<>> /\ firing' = near[Now] /\ near' = [near EXCEPT ![Now] = <<>>]
      /\ level' = level /\ moving' = moving /\ answered' = answered
  BY DEF ExecuteTake
<1>3. pc = "execute1" /\ firing = <<>>
  BY <1>1, <1>2 DEF ExecuteTake, WheelControl
<1>4. PICK j \in 0..TIME_NEAR - 1 : j = Now
  BY <1>1, NearIndex DEF WheelType, Now
<1>5. /\ near'[j] = <<>> /\ firing' = near[j]
      /\ \A k \in 0..TIME_NEAR - 1 : k # j => near'[k] = near[k]
  BY <1>1, <1>2, <1>4 DEF WheelType
<1>6. PICK S, T : S = Store /\ T = Store'
  OBVIOUS
<1>7. IsStore(S, near, level, moving, firing)
  BY <1>1, <1>6, StoreNow
<1>8. IsStore(T, near', level', moving', firing')
  BY <1>6, StoreOfFacts DEF WheelType, Store
<1>9. PICK a \in Place, b \in Place : a = <<-1, j>> /\ b = <<-3, 0>>
  BY <1>7 DEF IsStore
<1>10. a # b /\ S[b] = <<>> /\ T[b] = S[a] /\ T[a] = <<>> /\ S \in Stores /\ T \in Stores
  BY <1>3, <1>5, <1>7, <1>8, <1>9 DEF IsStore
<1>11. ASSUME NEW p \in Place, p # a, p # b
       PROVE  T[p] = S[p]
  <2>1. CASE \E k \in 0..TIME_NEAR - 1 : p = <<-1, k>>
    BY <1>5, <1>7, <1>8, <1>9, <1>11, <2>1 DEF IsStore
  <2>2. CASE \E i \in 0..3, k \in 0..TIME_LEVEL - 1 : p = <<i, k>>
    BY <1>2, <1>7, <1>8, <2>2 DEF IsStore
  <2>3. CASE p = <<-2, 0>>
    BY <1>2, <1>7, <1>8, <2>3 DEF IsStore
  <2> QED BY <1>9, <1>11, <2>1, <2>2, <2>3, PlaceCases
<1>12. (\A y : Holds(T, y) <=> Holds(S, y)) /\ Once(T)
  BY <1>6, <1>10, <1>11, TakeOnce DEF OnceInv
<1> QED
  BY <1>2, <1>6, <1>12, SameAgenda

\* timer_shift lets time go on when nothing is due, and takes a list.
LEMMA TickStep ==
    ASSUME WheelInv, OnceInv, TimerShift, WheelType'
    PROVE  AgendaNext /\ OnceInv'
<1>1. WheelType /\ WheelControl
  BY DEF WheelInv
<1>2. /\ pc = "execute0" /\ time' = Tick(time)
      /\ near' = near /\ firing' = firing /\ answered' = answered
  BY DEF TimerShift, Tick
<1>3. moving = <<>>
  BY <1>1, <1>2 DEF WheelControl
<1>4. \A x \in Agenda : x.expire # time
  <2>1. \A list \in Lists : \A n \in DOMAIN list : list[n].expire # time
    BY <1>2, InvOnTime DEF OnTime
  <2>2. \A p \in Place : Store[p] \in Lists
    BY <1>1, StoreNow
  <2> QED BY <2>1, <2>2, Zenon DEF Agenda, Holds
<1>5. PICK ct \in Clock : ct = Tick(time)
  BY <1>1, TickFacts DEF WheelType
<1>6. Agenda' = Agenda /\ OnceInv'
  <2>1. CASE level' = level /\ moving' = moving
    <3>1. Store' = Store
      BY <1>2, <2>1 DEF Store
    <3>2. Once(Store') /\ \A y : Holds(Store', y) <=> Holds(Store, y)
      BY <3>1 DEF OnceInv
    <3> QED BY <1>2, <3>2, SameAgenda
  <2>2. CASE \E q \in Cascade(ct) : /\ moving' = level[q[1]][q[2]]
                                   /\ level' = [level EXCEPT ![q[1]][q[2]] = <<>>]
    <3>1. PICK q \in Cascade(ct) : /\ moving' = level[q[1]][q[2]]
                                  /\ level' = [level EXCEPT ![q[1]][q[2]] = <<>>]
      BY <2>2
    <3>2. PICK i \in 0..3, j \in 0..TIME_LEVEL - 1 : q = <<i, j>>
      BY <3>1, CascadeOne
    <3>3. moving' = level[i][j] /\ level' = [level EXCEPT ![i][j] = <<>>]
      BY <3>1, <3>2
    <3>4. /\ level'[i][j] = <<>>
          /\ \A h \in 0..3, k \in 0..TIME_LEVEL - 1 : ~(h = i /\ k = j) => level'[h][k] = level[h][k]
      <4>1. level \in [0..3 -> [0..TIME_LEVEL - 1 -> Seq(Node)]]
        BY <1>1 DEF WheelType
      <4>2. PICK row : row = [level[i] EXCEPT ![j] = <<>>]
        OBVIOUS
      <4>3. row[j] = <<>> /\ \A k \in 0..TIME_LEVEL - 1 : k # j => row[k] = level[i][k]
        BY <4>1, <4>2
      <4>4. level' = [level EXCEPT ![i] = row]
        BY <3>3, <4>2
      <4>5. level'[i] = row /\ \A h \in 0..3 : h # i => level'[h] = level[h]
        BY <4>1, <4>4
      <4> QED BY <4>3, <4>5
    <3>5. PICK S, T : S = Store /\ T = Store'
      OBVIOUS
    <3>6. IsStore(S, near, level, moving, firing)
      BY <1>1, <3>5, StoreNow
    <3>7. IsStore(T, near', level', moving', firing')
      BY <3>5, StoreOfFacts DEF WheelType, Store
    <3>8. PICK a \in Place, b \in Place : a = <<i, j>> /\ b = <<-2, 0>>
      BY <3>6 DEF IsStore
    <3>9. a # b /\ S[b] = <<>> /\ T[b] = S[a] /\ T[a] = <<>> /\ S \in Stores /\ T \in Stores
      BY <1>3, <3>3, <3>4, <3>6, <3>7, <3>8 DEF IsStore
    <3>10. ASSUME NEW p \in Place, p # a, p # b
           PROVE  T[p] = S[p]
      <4>1. CASE \E k \in 0..TIME_NEAR - 1 : p = <<-1, k>>
        BY <1>2, <3>6, <3>7, <4>1 DEF IsStore
      <4>2. CASE \E h \in 0..3, k \in 0..TIME_LEVEL - 1 : p = <<h, k>>
        BY <3>4, <3>6, <3>7, <3>8, <3>10, <4>2 DEF IsStore
      <4>3. CASE p = <<-3, 0>>
        BY <1>2, <3>6, <3>7, <4>3 DEF IsStore
      <4> QED BY <3>8, <3>10, <4>1, <4>2, <4>3, PlaceCases
    <3>11. (\A y : Holds(T, y) <=> Holds(S, y)) /\ Once(T)
      BY <3>5, <3>9, <3>10, TakeOnce DEF OnceInv
    <3> QED BY <1>2, <3>5, <3>11, SameAgenda
  <2> QED BY <1>5, <2>1, <2>2 DEF TimerShift, Tick
<1> QED
  BY <1>2, <1>4, <1>6 DEF AgendaNext

\* move_list takes a node from one list to another.
LEMMA MoveStep ==
    ASSUME WheelInv, OnceInv, MoveNode
    PROVE  Agenda' = Agenda /\ OnceInv'
<1>1. WheelType /\ WheelControl /\ WalkPlaced
  BY DEF WheelInv
<1>2. /\ moving # <<>> /\ AddNode(Head(moving)) /\ moving' = Tail(moving)
      /\ time' = time /\ firing' = firing /\ answered' = answered
  BY DEF MoveNode
<1>3. PICK h \in Node : h = Head(moving)
  BY <1>1, <1>2, TailNodes DEF WheelType
<1>4. PICK rest \in Seq(Node) : rest = Tail(moving)
  BY <1>1, <1>2, TailNodes DEF WheelType
<1>5. time <= h.expire
  BY <1>1, <1>2, <1>3, TailNodes DEF WheelType, WalkPlaced
<1>6. PICK S, M, T : S = Store /\ M = StoreOf(near, level, rest, firing) /\ T = Store'
  OBVIOUS
<1>7. T = StoreOf(near', level', rest, firing)
  BY <1>2, <1>4, <1>6 DEF Store
<1>8. IsStore(S, near, level, moving, firing)
  BY <1>1, <1>6, StoreNow
<1>9. IsStore(M, near, level, rest, firing)
  BY <1>1, <1>6, StoreOfFacts DEF WheelType
<1>10. PICK m \in Place : m = <<-2, 0>>
  BY <1>8 DEF IsStore
<1>11. S[m] = moving /\ M[m] = rest /\ S \in Stores /\ M \in Stores
  BY <1>8, <1>9, <1>10 DEF IsStore
<1>12. ASSUME NEW p \in Place, p # m
       PROVE  M[p] = S[p]
  <2>1. CASE \E k \in 0..TIME_NEAR - 1 : p = <<-1, k>>
    BY <1>8, <1>9, <2>1 DEF IsStore
  <2>2. CASE \E i \in 0..3, k \in 0..TIME_LEVEL - 1 : p = <<i, k>>
    BY <1>8, <1>9, <2>2 DEF IsStore
  <2>3. CASE p = <<-3, 0>>
    BY <1>8, <1>9, <2>3 DEF IsStore
  <2> QED BY <1>10, <1>12, <2>1, <2>2, <2>3, PlaceCases
<1>13. /\ Holds(S, h)
       /\ \A y : Holds(M, y) <=> Holds(S, y) /\ y # h
       /\ \A y : Holds(M, y) => y.session # h.session
       /\ Once(M)
  <2>1. Once(S)
    BY <1>6 DEF OnceInv
  <2>2. S[m] # <<>> /\ M[m] = Tail(S[m]) /\ h = Head(S[m])
    BY <1>2, <1>3, <1>4, <1>11
  <2>3. /\ Holds(S, Head(S[m]))
        /\ \A y : Holds(M, y) <=> Holds(S, y) /\ y # Head(S[m])
        /\ \A y : Holds(M, y) => y.session # Head(S[m]).session
        /\ Once(M)
    BY <1>11, <1>12, <2>1, <2>2, DropOnce
  <2> QED BY <2>2, <2>3, Zenon
<1>14. /\ T \in Stores
       /\ \E a \in Place : T[a] = Append(M[a], h) /\ \A p \in Place : p # a => T[p] = M[p]
  <2>1. AddNode(h) /\ firing \in Seq(Node)
    BY <1>1, <1>2, <1>3 DEF WheelType
  <2>2. h.expire \div Span[3] = time \div Span[3] => time <= h.expire
    BY <1>5
  <2>3. /\ StoreOf(near', level', rest, firing) \in Stores
        /\ \E a \in Place :
             /\ StoreOf(near', level', rest, firing)[a] = Append(StoreOf(near, level, rest, firing)[a], h)
             /\ \A p \in Place : p # a =>
                  StoreOf(near', level', rest, firing)[p] = StoreOf(near, level, rest, firing)[p]
    BY <1>2, <2>1, <2>2, AddNodeStore
  <2> QED BY <1>6, <1>7, <2>3, Zenon
<1>15. PICK a \in Place : T[a] = Append(M[a], h) /\ \A p \in Place : p # a => T[p] = M[p]
  BY <1>14
<1>16. (\A y : Holds(T, y) <=> Holds(M, y) \/ y = h) /\ Once(T)
  BY <1>11, <1>13, <1>14, <1>15, PutOnce
<1>17. \A y : Holds(T, y) <=> Holds(S, y)
  BY <1>13, <1>16
<1> QED
  BY <1>2, <1>6, <1>16, <1>17, SameAgenda

\* A step that leaves the lists alone leaves the agenda alone.
LEMMA StillStep ==
    ASSUME OnceInv, UNCHANGED <<near, level, moving, firing>>
    PROVE  Agenda' = Agenda /\ Once(Store')
<1>1. Store' = Store
  BY DEF Store
<1> QED
  BY <1>1 DEF Agenda, OnceInv

\* Every step is one of the agenda, or one that it does not see.
LEMMA AgendaStep ==
    ASSUME WheelInv, WheelInv', OnceInv, [Next]_timervars
    PROVE  [AgendaNext]_agendavars /\ OnceInv'
<1>1. WheelType'
  BY DEF WheelInv
<1>2. ASSUME UNCHANGED <<time, near, level, moving, firing, answered>>
      PROVE  UNCHANGED agendavars /\ OnceInv'
  BY <1>2, StillStep DEF agendavars, OnceInv
<1>3. ASSUME NEW s \in Session, TimeoutNow(s)
      PROVE  AgendaNext /\ OnceInv'
  <2>1. Agenda' = Agenda /\ Once(Store') /\ time' = time /\ answered' = answered \cup {s}
    BY <1>3, StillStep DEF TimeoutNow
  <2>2. \A y \in Agenda : y.session # s
    BY <1>3, IdleFree DEF TimeoutNow, WheelInv, Agenda
  <2> QED BY <2>1, <2>2 DEF AgendaNext, OnceInv
<1>4. ASSUME NEW s \in Session, HandleResponse(s)
      PROVE  AgendaNext /\ OnceInv'
  <2>1. /\ Agenda' = Agenda /\ Once(Store') /\ time' = time
        /\ s \in answered /\ answered' = answered \ {s}
    BY <1>4, StillStep DEF HandleResponse
  <2> QED BY <2>1 DEF AgendaNext, OnceInv
<1>5. CASE ExecuteTake
  BY <1>1, <1>5, TakeStep DEF ExecuteTake, agendavars
<1>6. CASE MoveNode
  BY <1>6, MoveStep DEF MoveNode, agendavars
<1>7. CASE \E d \in 1..MaxDiff : UpdateTime(d)
  BY <1>2, <1>7 DEF UpdateTime
<1>8. CASE UpdateLoop \/ UpdateDone \/ MoveDone \/ ExecuteDone
  BY <1>2, <1>8 DEF UpdateLoop, UpdateDone, MoveDone, ExecuteDone
<1>9. CASE UNCHANGED timervars
  BY <1>2, <1>9 DEF timervars
<1>10. CASE TimerShift \/ Dispatch
  BY <1>1, <1>10, TickStep, AnswerStep
<1>11. ASSUME NEW s \in Session, NEW d \in Delay, TimeoutLater(s, d)
       PROVE  AgendaNext /\ OnceInv'
  BY <1>11, EnterStep
<1> QED
  BY <1>3, <1>4, <1>5, <1>6, <1>7, <1>8, <1>9, <1>10, <1>11 DEF Next, TimerThread, Service

\* The agenda is empty at first.
LEMMA OnceInit == Init => OnceInv
<1> SUFFICES ASSUME Init PROVE OnceInv
  OBVIOUS
<1>1. WheelType
  BY WheelInit DEF WheelInv
<1>2. \A list \in Lists : list = <<>>
  BY DEF Init, Lists
<1>3. \A p \in Place : Store[p] = <<>>
  BY <1>1, <1>2, StoreNow
<1>4. \A p \in Place : DOMAIN Store[p] = {}
  BY <1>3
<1> QED
  BY <1>4, Zenon DEF OnceInv, Once, Agenda, Holds

\* Every timeout is answered once, at its time, and none is lost: whatever
\* the cascades do to the lists, all that is seen from outside is that a
\* timeout is entered, the time goes on when nothing is due, and a timeout
\* that is due is answered and gone.
THEOREM AnsweredOnceOnTime == Spec => [][AgendaNext]_agendavars
<1>1. Init => WheelInv /\ OnceInv
  BY WheelInit, OnceInit
<1>2. (WheelInv /\ OnceInv) /\ [Next]_timervars => (WheelInv /\ OnceInv)' /\ [AgendaNext]_agendavars
  BY WheelNext, AgendaStep
<1> QED
  BY <1>1, <1>2, PTL DEF Spec
==============================================================================
