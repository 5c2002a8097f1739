------------------------- MODULE SkynetHandleProofs -------------------------
(***************************************************************************)
(* Proofs about the handle storage, for one launcher at a time and tables  *)
(* and masks of every size: contexts are found under their handles through *)
(* expansion and wrap-around, the assertion of the expansion holds, names  *)
(* lead to their services, and skynet_handle_retireall is complete.        *)
(***************************************************************************)
EXTENDS SkynetHandle, WellFoundedInduction, TLAPS

-----------------------------------------------------------------------------
(* Remainders                                                              *)

\* Division with remainder.
LEMMA ModDef ==
  ASSUME NEW a \in Nat, NEW n \in Nat \ {0}
  PROVE  /\ a % n \in 0..n-1
         /\ \E q \in Nat : a = n * q + (a % n)
<1>1. a % n \in 0..n-1
  OBVIOUS
<1>2. a = n * (a \div n) + (a % n)
  OBVIOUS
<1>3. a \div n \in Nat
  OBVIOUS
<1> QED
  BY <1>1, <1>2, <1>3

\* The remainder is the only one.
LEMMA ModUnique ==
  ASSUME NEW n \in Nat \ {0}, NEW q \in Nat, NEW r \in 0..n-1
  PROVE  (n * q + r) % n = r
<1> DEFINE a == n * q + r
           s == a % n
<1>1. a \in Nat
  OBVIOUS
<1>2. s \in 0..n-1
  BY <1>1
<1>3. PICK p \in Nat : a = n * p + s
  BY <1>1, ModDef
<1> HIDE DEF s
<1>4. n * q + r = n * p + s
  BY <1>3
<1>5. ASSUME q > p PROVE FALSE
  <2>1. n * (q - p) >= n
    BY <1>5
  <2>2. n * (q - p) = n * q - n * p
    OBVIOUS
  <2> QED
    BY <2>1, <2>2, <1>4, <1>2
<1>6. ASSUME q < p PROVE FALSE
  <2>1. n * (p - q) >= n
    BY <1>6
  <2>2. n * (p - q) = n * p - n * q
    OBVIOUS
  <2> QED
    BY <2>1, <2>2, <1>4, <1>2
<1>7. q = p
  BY <1>5, <1>6
<1>8. s = r
  BY <1>7, <1>4, <1>2
<1> QED
  BY <1>8 DEF s

\* What a table of twice the size does to the slot of a handle.
LEMMA ModDouble ==
  ASSUME NEW a \in Nat, NEW n \in Nat \ {0}
  PROVE  /\ (a % (2 * n)) % n = a % n
         /\ a % (2 * n) >= a % n
<1> DEFINE t == a % (2 * n)
<1>1. 2 * n \in Nat \ {0}
  OBVIOUS
<1>2. t \in 0..2*n-1
  BY <1>1
<1>3. PICK q \in Nat : a = 2 * n * q + t
  BY <1>1, ModDef
<1> HIDE DEF t
<1>4. CASE t < n
  <2>1. a = n * (2 * q) + t /\ 2 * q \in Nat
    BY <1>3
  <2>2. a % n = t
    BY <2>1, <1>4, <1>2, ModUnique
  <2>3. t = n * 0 + t
    BY <1>2
  <2>4. t % n = t
    BY <2>3, <1>4, <1>2, ModUnique
  <2> QED
    BY <2>2, <2>4, <1>2 DEF t
<1>5. CASE t >= n
  <2>1. a = n * (2 * q + 1) + (t - n) /\ 2 * q + 1 \in Nat
    BY <1>3, <1>2
  <2>2. t - n \in 0..n-1
    BY <1>5, <1>2
  <2>3. a % n = t - n
    BY <2>1, <2>2, ModUnique
  <2>4. t = n * 1 + (t - n)
    BY <1>2
  <2>5. t % n = t - n
    BY <2>4, <2>2, ModUnique
  <2> QED
    BY <2>3, <2>5, <1>2 DEF t
<1> QED
  BY <1>4, <1>5, <1>2

\* Masking a handle first changes nothing for a table whose size divides the
\* number of handles.
LEMMA ModMod ==
  ASSUME NEW a \in Nat, NEW n \in Nat \ {0}, NEW m \in Nat \ {0}, m % n = 0
  PROVE  (a % m) % n = a % n
<1>1. PICK k \in Nat : m = n * k
  <2>1. PICK k \in Nat : m = n * k + (m % n)
    BY ModDef
  <2> QED
    BY <2>1
<1> DEFINE r == a % m
<1>2. r \in 0..m-1
  BY ModDef
<1>3. PICK q \in Nat : a = m * q + r
  BY ModDef
<1> HIDE DEF r
<1> DEFINE t == r % n
<1>r. r \in Nat
  BY <1>2
<1>4. t \in 0..n-1
  BY <1>r, ModDef
<1>5. PICK p \in Nat : r = n * p + t
  BY <1>r, ModDef
<1> HIDE DEF t
<1>6. k * q + p \in Nat
  OBVIOUS
<1>7. a = n * (k * q + p) + t
  <2>1. m * q = n * (k * q)
    BY <1>1
  <2>2. n * (k * q + p) = n * (k * q) + n * p
    OBVIOUS
  <2> QED
    BY <2>1, <2>2, <1>3, <1>5, <1>4
<1>8. a % n = t
  BY <1>4, <1>6, <1>7, ModUnique
<1> QED
  BY <1>8 DEF t, r

\* From any start, n consecutive numbers meet every remainder.
LEMMA ModCovers ==
  ASSUME NEW b \in Nat, NEW n \in Nat \ {0}, NEW j \in 0..n-1
  PROVE  \E i \in 0..n-1 : (i + b) % n = j
<1> DEFINE t == b % n
<1>1. t \in 0..n-1
  BY ModDef
<1>2. PICK q \in Nat : b = n * q + t
  BY ModDef
<1> HIDE DEF t
<1>3. CASE t <= j
  <2>1. (j - t) + b = n * q + j
    BY <1>1, <1>2
  <2>2. ((j - t) + b) % n = j
    BY <2>1, ModUnique
  <2>3. j - t \in 0..n-1
    BY <1>1, <1>3
  <2> QED
    BY <2>2, <2>3
<1>4. CASE t > j
  <2>1. (j - t + n) + b = n * (q + 1) + j
    <3>1. n * (q + 1) = n * q + n
      OBVIOUS
    <3> QED
      BY <1>1, <1>2, <3>1
  <2>2. ((j - t + n) + b) % n = j
    BY <2>1, ModUnique
  <2>3. j - t + n \in 0..n-1
    BY <1>1, <1>4
  <2> QED
    BY <2>2, <2>3
<1> QED
  BY <1>3, <1>4, <1>1

\* Every nonempty set of numbers has a least one.
LEMMA Least ==
  ASSUME NEW T, T \subseteq Nat, T # {}
  PROVE  \E x \in T : \A y \in T : x <= y
<1>1. PICK x \in T : \A y \in T : ~ (<<y, x>> \in OpToRel(<, Nat))
  BY NatLessThanWellFounded, WFMin
<1>2. \A y \in T : ~ (y < x)
  BY <1>1 DEF OpToRel
<1> QED
  BY <1>2

-----------------------------------------------------------------------------
(* The invariant                                                           *)

News == {new[l] : l \in Launcher} \ {None}

HandleType ==
    /\ slot_size \in Nat \ {0}
    /\ slot \in [0..slot_size - 1 -> Ctx \cup {None}]
    /\ handle_index \in Nat
    /\ handle \in [Ctx -> Nat]
    /\ new \in [Launcher -> Ctx \cup {None}]
    /\ got \in [Launcher -> Nat]
    /\ (HANDLE_MASK + 1) % slot_size = 0

\* A context is in the slot of its handle; one that is being created, in the
\* slot of the handle it is going to get, and its own handle is still 0.
Placed ==
    /\ \A i \in 0..slot_size - 1 :
          slot[i] # None /\ slot[i] \notin News => handle[slot[i]] % slot_size = i
    /\ \A i \in 0..slot_size - 1 : \A l \in Launcher :
          slot[i] # None /\ slot[i] = new[l] => got[l] % slot_size = i
    /\ \A l \in Launcher : new[l] # None => /\ slot[got[l] % slot_size] = new[l]
                                            /\ handle[new[l]] = 0

TableInv == HandleType /\ Placed

\* A context that skynet_handle_retireall still has to retire is registered,
\* and a pass that has retired nothing so far has it before itself, or has
\* just read it.
AbortInv ==
    /\ ai \in Nat /\ an \in BOOLEAN /\ ah \in Nat
    /\ target \subseteq Ctx
    /\ apc \in {"idle", "done"} => target = {}
    /\ apc = "retire" => ah # 0
    /\ \A c \in target : /\ slot[handle[c] % slot_size] = c
                         /\ c \notin News
                         /\ handle[c] # 0
    /\ apc \in {"scan", "retire"} /\ ~an =>
          \A c \in target : handle[c] % slot_size >= ai \/ (apc = "retire" /\ ah = handle[c])

\* A new table is in order.
LEMMA TableInit == Init => TableInv
<1> SUFFICES ASSUME Init PROVE TableInv
  OBVIOUS
<1>1. HandleType
  BY HandleAssumption DEF Init, HandleType
<1>2. Placed
  BY HandleAssumption DEF Init, Placed, News
<1> QED
  BY <1>1, <1>2 DEF TableInv

\* The size is doubled only below the number of handles, which it then still
\* divides, both being powers of two.
LEMMA DoubleDivides ==
  ASSUME NEW n \in Nat \ {0}, (HANDLE_MASK + 1) % n = 0, 2 * n - 1 <= HANDLE_MASK
  PROVE  (HANDLE_MASK + 1) % (2 * n) = 0
<1> DEFINE M == HANDLE_MASK + 1
<1>1. M \in Nat \ {0} /\ 2 * n <= M
  BY HandleAssumption
<1>2. PICK q \in Nat : M = n * q
  <2>1. PICK q \in Nat : M = n * q + (M % n)
    BY <1>1, ModDef
  <2>2. M % n = 0 /\ n * q \in Nat
    OBVIOUS
  <2>3. M = n * q
    BY <2>1, <2>2
  <2> QED
    BY <2>3
<1>3. q >= 2
  <2>1. ASSUME q <= 1 PROVE FALSE
    <3>1. q = 0 \/ q = 1
      BY <2>1
    <3>2. n * q = 0 \/ n * q = n
      BY <3>1
    <3> QED
      BY <3>2, <1>1, <1>2
  <2> QED
    BY <2>1
<1>4. q <= M
  <2>1. n * q >= q
    OBVIOUS
  <2> QED
    BY <2>1, <1>2
<1>5. M % q = 0
  <2>1. M = q * n + 0
    BY <1>2
  <2>2. q \in Nat \ {0} /\ 0 \in 0..q-1
    BY <1>3
  <2> QED
    BY <2>1, <2>2, ModUnique
<1>6. q % 2 = 0
  <2>1. q \in 2..HANDLE_MASK + 1
    BY <1>3, <1>4, HandleAssumption
  <2> QED
    BY <2>1, <1>5, HandleAssumption
<1>7. PICK p \in Nat : q = 2 * p
  BY <1>6
<1>8. M = (2 * n) * p + 0
  BY <1>2, <1>7
<1>9. 2 * n \in Nat \ {0} /\ 0 \in 0..(2 * n)-1
  OBVIOUS
<1> QED
  BY <1>8, <1>9, ModUnique

\* skynet_handle_register finds a free slot in a table that has one.
LEMMA FreeFound ==
  ASSUME NEW n \in Nat \ {0}, (HANDLE_MASK + 1) % n = 0, handle_index \in Nat,
         NEW s, NEW j \in 0..n-1, s[j] = None
  PROVE  /\ Candidate(Free(s, n)) \in Nat
         /\ Candidate(Free(s, n)) % n \in 0..n-1
         /\ s[Candidate(Free(s, n)) % n] = None
<1>1. \A i \in Nat : Candidate(i) \in Nat /\ Candidate(i) % n = (i + handle_index) % n
  <2> SUFFICES ASSUME NEW i \in Nat
               PROVE  Candidate(i) \in Nat /\ Candidate(i) % n = (i + handle_index) % n
    OBVIOUS
  <2>1. i + handle_index \in Nat /\ HANDLE_MASK + 1 \in Nat \ {0}
    BY HandleAssumption
  <2>2. Candidate(i) \in Nat
    <3>1. (i + handle_index) % (HANDLE_MASK + 1) \in 0..(HANDLE_MASK + 1) - 1
      BY <2>1, ModDef
    <3> QED
      BY <3>1 DEF Candidate
  <2>3. Candidate(i) % n = (i + handle_index) % n
    BY <2>1, ModMod DEF Candidate
  <2> QED
    BY <2>2, <2>3
<1> DEFINE T == {i \in 0..n-1 : s[Candidate(i) % n] = None}
<1>2. T # {} /\ T \subseteq Nat
  <2>1. PICK i \in 0..n-1 : (i + handle_index) % n = j
    BY ModCovers
  <2>i. i \in Nat
    OBVIOUS
  <2>2. Candidate(i) % n = j
    BY <1>1, <2>1, <2>i
  <2>3. i \in T
    BY <2>2
  <2> QED
    BY <2>3
<1>3. PICK x \in T : \A y \in T : x <= y
  BY <1>2, Least
<1>4. \A k \in 0..x - 1 : s[Candidate(k) % n] # None
  BY <1>3
<1>5. \E i \in 0..n - 1 : /\ s[Candidate(i) % n] = None
                          /\ \A k \in 0..i - 1 : s[Candidate(k) % n] # None
  BY <1>3, <1>4
<1>6. Free(s, n) \in 0..n-1 /\ s[Candidate(Free(s, n)) % n] = None
  BY <1>5 DEF Free
<1>7. Free(s, n) \in Nat
  BY <1>6
<1>8. Candidate(Free(s, n)) \in Nat
  BY <1>1, <1>7
<1> QED
  BY <1>6, <1>8, ModDef

\* While no context is being created, all contexts of a full table can be told
\* apart in one of twice the size: the expansion's assertion holds.
LEMMA RehashSafe ==
  ASSUME TableInv, Full, News = {}
  PROVE  Rehashable
<1> SUFFICES ASSUME NEW i \in 0..slot_size - 1, NEW j \in 0..slot_size - 1,
                    handle[slot[i]] % (2 * slot_size) = handle[slot[j]] % (2 * slot_size)
             PROVE  i = j
  BY DEF Rehashable
<1>1. slot[i] \in Ctx /\ slot[j] \in Ctx
  BY DEF TableInv, HandleType, Full
<1>2. handle[slot[i]] \in Nat /\ handle[slot[j]] \in Nat /\ slot_size \in Nat \ {0}
  BY <1>1 DEF TableInv, HandleType
<1>3. handle[slot[i]] % slot_size = i /\ handle[slot[j]] % slot_size = j
  BY <1>1, HandleAssumption DEF TableInv, Placed
<1> QED
  BY <1>2, <1>3, ModDouble

\* ... and the new table holds each of them in the slot of its handle.
LEMMA ExpandedPlaced ==
  ASSUME TableInv, Full, News = {}
  PROVE  /\ Expanded \in [0..2 * slot_size - 1 -> Ctx \cup {None}]
         /\ \A h \in 0..2 * slot_size - 1 : Expanded[h] # None =>
               /\ handle[Expanded[h]] % (2 * slot_size) = h
               /\ \E i \in 0..slot_size - 1 : Expanded[h] = slot[i]
         /\ \A i \in 0..slot_size - 1 : Expanded[handle[slot[i]] % (2 * slot_size)] = slot[i]
         /\ \E h \in 0..2 * slot_size - 1 : Expanded[h] = None
<1> DEFINE n == slot_size
           H(i) == handle[slot[i]] % (2 * n)
<1>1. n \in Nat \ {0} /\ 2 * n \in Nat \ {0}
  BY DEF TableInv, HandleType
<1>2. \A i \in 0..n - 1 : slot[i] \in Ctx /\ slot[i] # None /\ handle[slot[i]] \in Nat
  BY HandleAssumption DEF TableInv, HandleType, Full
<1>3. \A i \in 0..n - 1 : H(i) \in 0..2 * n - 1
  BY <1>1, <1>2, ModDef
<1>4. \A i, j \in 0..n - 1 : H(i) = H(j) => i = j
  BY RehashSafe DEF Rehashable
<1>5. ASSUME NEW i \in 0..n - 1 PROVE Expanded[H(i)] = slot[i]
  <2> DEFINE k == CHOOSE k \in 0..n - 1 : H(k) = H(i)
  <2>1. k \in 0..n - 1 /\ H(k) = H(i)
    OBVIOUS
  <2>2. k = i
    BY <2>1, <1>4
  <2>3. Expanded[H(i)] = slot[k]
    BY <1>3 DEF Expanded
  <2> QED
    BY <2>2, <2>3
<1>6. ASSUME NEW h \in 0..2 * n - 1
      PROVE  \/ \E i \in 0..n - 1 : H(i) = h /\ Expanded[h] = slot[i]
             \/ (~ \E i \in 0..n - 1 : H(i) = h) /\ Expanded[h] = None
  BY <1>5 DEF Expanded
<1>7. \E h \in 0..2 * n - 1 : Expanded[h] = None
  <2>1. CASE H(0) = 0
    <3>1. ASSUME NEW i \in 0..n - 1, H(i) = n PROVE FALSE
      <4>1. H(i) % n = i
        BY <1>1, <1>2, ModDouble DEF TableInv, Placed
      <4>2. n % n = 0
        BY <1>1
      <4>3. i = 0
        BY <4>1, <4>2, <3>1
      <4> QED
        BY <4>3, <2>1, <3>1, <1>1
    <3>2. n \in 0..2 * n - 1
      BY <1>1
    <3> QED
      BY <3>1, <3>2, <1>6
  <2>2. CASE H(0) # 0
    <3>1. ASSUME NEW i \in 0..n - 1, H(i) = 0 PROVE FALSE
      <4>1. H(i) % n = i
        BY <1>1, <1>2, ModDouble DEF TableInv, Placed
      <4>2. 0 % n = 0
        BY <1>1
      <4>3. i = 0
        BY <4>1, <4>2, <3>1
      <4> QED
        BY <4>3, <2>2, <3>1, <1>1
    <3>2. 0 \in 0..2 * n - 1
      BY <1>1
    <3> QED
      BY <3>1, <3>2, <1>6
  <2> QED
    BY <2>1, <2>2
<1>8. Expanded \in [0..2 * n - 1 -> Ctx \cup {None}]
  <2>1. \A h \in 0..2 * n - 1 : Expanded[h] \in Ctx \cup {None}
    BY <1>6, <1>2
  <2> QED
    BY <2>1 DEF Expanded
<1> QED
  BY <1>5, <1>6, <1>7, <1>8

-----------------------------------------------------------------------------
(* The table                                                               *)

\* A registration, with the expansions it takes, keeps the table in order.
LEMMA RegisterTable ==
  ASSUME OneLauncher, TableInv, NEW l \in Launcher, NEW c \in Ctx, Register(l, c)
  PROVE  TableInv'
<1> DEFINE s == IF Full THEN Expanded ELSE slot
           n == IF Full THEN 2 * slot_size ELSE slot_size
           h == Candidate(Free(s, n))
<1>1. /\ new[l] = None /\ c \in Unused
      /\ Full => 2 * slot_size - 1 <= HANDLE_MASK
      /\ slot' = [s EXCEPT ![h % n] = c]
      /\ slot_size' = n
      /\ handle_index' = h + 1
      /\ handle' = [handle EXCEPT ![c] = 0]
      /\ new' = [new EXCEPT ![l] = c]
      /\ got' = [got EXCEPT ![l] = h]
  BY Zenon DEF Register
<1>2. \A k \in Launcher : k = l
  BY DEF OneLauncher
<1>3. News = {} /\ c # None
  BY <1>1, <1>2, HandleAssumption DEF News
<1>4. /\ n \in Nat \ {0} /\ (HANDLE_MASK + 1) % n = 0
      /\ s \in [0..n-1 -> Ctx \cup {None}]
      /\ \E j \in 0..n-1 : s[j] = None
      /\ \A i \in 0..n-1 : s[i] # None => handle[s[i]] % n = i /\ s[i] # c /\ s[i] \in Ctx
  <2>1. CASE Full
    <3>1. n = 2 * slot_size /\ s = Expanded
      BY <2>1
    <3>2. n \in Nat \ {0} /\ (HANDLE_MASK + 1) % n = 0
      BY <1>1, <2>1, <3>1, DoubleDivides DEF TableInv, HandleType
    <3>3. \A i \in 0..slot_size - 1 : slot[i] # c
      BY <1>1, <1>3 DEF Unused, Registered
    <3> QED
      BY <1>3, <2>1, <3>1, <3>2, <3>3, ExpandedPlaced
  <2>2. CASE ~Full
    <3>1. n = slot_size /\ s = slot
      BY <2>2
    <3>3. \A i \in 0..slot_size - 1 : slot[i] # c
      BY <1>1, <1>3 DEF Unused, Registered
    <3> QED
      BY <1>3, <2>2, <3>1, <3>3 DEF TableInv, HandleType, Placed, Full
  <2> QED
    BY <2>1, <2>2
<1> HIDE DEF s, n
<1>5. /\ h \in Nat /\ h % n \in 0..n-1 /\ s[h % n] = None
  BY <1>4, FreeFound DEF TableInv, HandleType
<1> HIDE DEF h
<1>6. HandleType'
  BY <1>1, <1>4, <1>5 DEF TableInv, HandleType
<1>7. News' = {c}
  BY <1>1, <1>2, <1>3 DEF News, TableInv, HandleType
<1>8. Placed'
  <2>1. \A i \in 0..n-1 : slot'[i] = IF i = h % n THEN c ELSE s[i]
    BY <1>1, <1>4
  <2>2. \A i \in 0..n-1 : slot'[i] # None /\ slot'[i] # c => handle'[slot'[i]] % n = i
    BY <2>1, <1>1, <1>4 DEF TableInv, HandleType
  <2>3. \A i \in 0..n-1 : slot'[i] = c => h % n = i
    BY <2>1, <1>4, <1>3
  <2>4. slot'[h % n] = c /\ handle'[c] = 0
    BY <2>1, <1>1, <1>5 DEF TableInv, HandleType
  <2>5. \A k \in Launcher : new'[k] = c /\ got'[k] = h
    BY <1>1, <1>2 DEF TableInv, HandleType
  <2> QED
    BY <2>2, <2>3, <2>4, <2>5, <1>1, <1>7 DEF Placed
<1> QED
  BY <1>6, <1>8 DEF TableInv

\* The context that gets its handle is in the slot of this handle already.
LEMMA AssignTable ==
  ASSUME OneLauncher, TableInv, NEW l \in Launcher, AssignHandle(l)
  PROVE  TableInv'
<1> DEFINE c == new[l]
<1>1. /\ c # None /\ c \in Ctx
      /\ handle' = [handle EXCEPT ![c] = got[l]]
      /\ new' = [new EXCEPT ![l] = None]
      /\ got' = [got EXCEPT ![l] = 0]
      /\ UNCHANGED <<slot, slot_size, handle_index>>
  BY DEF AssignHandle, table, TableInv, HandleType
<1>2. \A k \in Launcher : k = l
  BY DEF OneLauncher
<1>3. HandleType'
  BY <1>1 DEF TableInv, HandleType
<1>4. News = {c} /\ News' = {} /\ \A k \in Launcher : new'[k] = None
  BY <1>1, <1>2 DEF News, TableInv, HandleType
<1>5. ASSUME NEW i \in 0..slot_size - 1, slot[i] # None PROVE handle'[slot[i]] % slot_size = i
  <2>1. CASE slot[i] = c
    BY <2>1, <1>1 DEF TableInv, HandleType, Placed
  <2>2. CASE slot[i] # c
    BY <2>2, <1>1, <1>4, <1>5 DEF TableInv, HandleType, Placed
  <2> QED
    BY <2>1, <2>2
<1>6. Placed'
  BY <1>1, <1>4, <1>5 DEF Placed
<1> QED
  BY <1>3, <1>6 DEF TableInv

\* Lookup finds only what has its handle.
LEMMA LookupFinds ==
  ASSUME TableInv, NEW h \in Nat, Lookup(h) # None
  PROVE  /\ h % slot_size \in 0..slot_size - 1
         /\ slot[h % slot_size] = Lookup(h)
         /\ Lookup(h) \in Ctx /\ handle[Lookup(h)] = h
<1>1. h % slot_size \in 0..slot_size - 1
  BY ModDef DEF TableInv, HandleType
<1> QED
  BY <1>1 DEF Lookup, TableInv, HandleType

\* Taking out a context that is not being created.
LEMMA RetireTable ==
  ASSUME TableInv, NEW h \in Nat, Lookup(h) # None, Lookup(h) \notin News, RetireFound(h),
         UNCHANGED <<slot_size, handle_index, handle, new, got>>
  PROVE  TableInv'
<1> DEFINE x == h % slot_size
<1>1. x \in 0..slot_size - 1 /\ slot[x] = Lookup(h)
  BY LookupFinds
<1>2. slot' = [slot EXCEPT ![x] = None]
  BY DEF RetireFound
<1> HIDE DEF x
<1>3. HandleType'
  BY <1>1, <1>2 DEF TableInv, HandleType
<1>4. News' = News
  BY DEF News
<1>5. \A i \in 0..slot_size - 1 : slot'[i] = IF i = x THEN None ELSE slot[i]
  BY <1>2 DEF TableInv, HandleType
<1>6. \A l \in Launcher : new[l] # None => got[l] % slot_size \in 0..slot_size - 1
  BY ModDef DEF TableInv, HandleType
<1>7. \A l \in Launcher : new[l] # None => got[l] % slot_size # x
  BY <1>1 DEF TableInv, Placed, News
<1>8. Placed'
  BY <1>4, <1>5, <1>6, <1>7 DEF TableInv, Placed
<1> QED
  BY <1>3, <1>8 DEF TableInv

\* Every step keeps the table in order.
LEMMA TableNext == OneLauncher /\ TableInv /\ AbortInv /\ [Next]_handlevars => TableInv'
<1> SUFFICES ASSUME OneLauncher, TableInv, AbortInv, [Next]_handlevars PROVE TableInv'
  OBVIOUS
<1>1. ASSUME NEW l \in Launcher, NEW c \in Ctx, Register(l, c) PROVE TableInv'
  BY <1>1, RegisterTable
<1>2. ASSUME NEW l \in Launcher, AssignHandle(l) PROVE TableInv'
  BY <1>2, AssignTable
<1>3. ASSUME NEW h \in Handle, Retire(h) PROVE TableInv'
  <2>1. h \in Nat
    BY HandleAssumption DEF Handle
  <2>2. Lookup(h) # None /\ Lookup(h) \notin News /\ RetireFound(h)
    BY <1>3 DEF Retire, News
  <2>3. UNCHANGED <<slot_size, handle_index, handle, new, got>>
    BY <1>3 DEF Retire
  <2> QED
    BY <2>1, <2>2, <2>3, RetireTable
<1>4. CASE AbortRetire
  <2>1. CASE Lookup(ah) # None /\ RetireFound(ah)
    <3>1. ah \in Nat /\ ah # 0
      BY <1>4 DEF AbortRetire, AbortInv
    <3>2. Lookup(ah) \notin News
      <4>1. handle[Lookup(ah)] = ah
        BY <2>1, <3>1, LookupFinds
      <4> QED
        BY <4>1, <3>1 DEF News, TableInv, Placed
    <3>3. UNCHANGED <<slot_size, handle_index, handle, new, got>>
      BY <1>4 DEF AbortRetire
    <3> QED
      BY <2>1, <3>1, <3>2, <3>3, RetireTable
  <2>2. CASE UNCHANGED slot
    BY <1>4, <2>2 DEF AbortRetire, TableInv, HandleType, Placed, News
  <2> QED
    BY <1>4, <2>1, <2>2 DEF AbortRetire
<1>5. CASE UNCHANGED <<table, handle, new, got>>
  BY <1>5 DEF table, TableInv, HandleType, Placed, News
<1> QED
  BY <1>1, <1>2, <1>3, <1>4, <1>5
     DEF Next, handlevars, NameHandle, AbortStart, AbortRead, AbortPassEnd

-----------------------------------------------------------------------------
(* skynet_handle_retireall                                                 *)

\* Retiring h leaves every other context where it is.
LEMMA OthersStay ==
  ASSUME TableInv, NEW h \in Nat, Lookup(h) # None, RetireFound(h),
         NEW c \in Ctx \ {Lookup(h)}, slot[handle[c] % slot_size] = c
  PROVE  slot'[handle[c] % slot_size] = c
<1>1. handle[c] % slot_size \in 0..slot_size - 1
  BY ModDef DEF TableInv, HandleType
<1>2. h % slot_size # handle[c] % slot_size
  BY LookupFinds
<1> QED
  BY <1>1, <1>2 DEF RetireFound, TableInv, HandleType

\* Every step keeps what retireall still has to meet.
LEMMA AbortNext == OneLauncher /\ TableInv /\ AbortInv /\ [Next]_handlevars => AbortInv'
<1> SUFFICES ASSUME OneLauncher, TableInv, AbortInv, [Next]_handlevars PROVE AbortInv'
  OBVIOUS
<1>0. \A c \in target : handle[c] \in Nat /\ handle[c] % slot_size \in 0..slot_size - 1
  BY ModDef DEF AbortInv, TableInv, HandleType
<1>1. ASSUME NEW l \in Launcher, NEW c \in Ctx, Register(l, c) PROVE AbortInv'
  <2> DEFINE s == IF Full THEN Expanded ELSE slot
             n == IF Full THEN 2 * slot_size ELSE slot_size
             h == Candidate(Free(s, n))
  <2>1. /\ new[l] = None /\ c \in Unused
        /\ slot' = [s EXCEPT ![h % n] = c]
        /\ slot_size' = n
        /\ handle' = [handle EXCEPT ![c] = 0]
        /\ new' = [new EXCEPT ![l] = c]
        /\ UNCHANGED <<abortVars, target>>
    BY <1>1, Zenon DEF Register
  <2>2. \A k \in Launcher : k = l
    BY DEF OneLauncher
  <2>3. News = {} /\ News' = {c} /\ c # None
    BY <2>1, <2>2, HandleAssumption DEF News, TableInv, HandleType
  <2>4. ASSUME NEW d \in target
        PROVE  d # c /\ handle'[d] = handle[d] /\ s[handle[d] % n] = d /\ handle[d] % n >= handle[d] % slot_size
    <3>1. d \in Ctx /\ slot[handle[d] % slot_size] = d
      BY DEF AbortInv
    <3>2. d # c
      BY <2>1, <2>3, <3>1, <1>0 DEF Unused, Registered
    <3>3. handle'[d] = handle[d]
      BY <2>1, <3>1, <3>2 DEF TableInv, HandleType
    <3>4. CASE ~Full
      BY <3>1, <3>2, <3>3, <3>4, <1>0
    <3>5. CASE Full
      <4>1. s[handle[d] % n] = d
        BY <3>1, <3>5, <1>0, <2>3, ExpandedPlaced
      <4>2. handle[d] % n >= handle[d] % slot_size
        BY <3>5, <1>0, ModDouble DEF TableInv, HandleType
      <4> QED
        BY <4>1, <4>2, <3>2, <3>3
    <3> QED
      BY <3>4, <3>5
  <2>5. /\ n \in Nat \ {0} /\ DOMAIN s = 0..n-1 /\ s[h % n] = None
    <3>1. TableInv'
      BY <1>1, RegisterTable
    <3>2. CASE ~Full
      <4>1. n = slot_size /\ s = slot /\ \E j \in 0..n-1 : s[j] = None
        BY <3>2 DEF Full
      <4>2. s[h % n] = None
        BY SMTT(40), <4>1, FreeFound DEF TableInv, HandleType
      <4> QED
        BY <4>1, <4>2 DEF TableInv, HandleType
    <3>3. CASE Full
      <4>1. n = 2 * slot_size /\ s = Expanded /\ \E j \in 0..n-1 : s[j] = None
        BY <3>3, <2>3, ExpandedPlaced
      <4>2. n \in Nat \ {0} /\ (HANDLE_MASK + 1) % n = 0
        BY <3>1, <2>1 DEF TableInv, HandleType
      <4>3. s[h % n] = None
        BY <4>1, <4>2, FreeFound DEF TableInv, HandleType
      <4> QED
        BY <4>1, <4>2, <4>3 DEF Expanded
    <3> QED
      BY <3>2, <3>3
  <2> HIDE DEF s, n, h
  <2>6. ASSUME NEW d \in target PROVE slot'[handle'[d] % slot_size'] = d /\ d \notin News' /\ handle'[d] # 0
    <3>1. d # None /\ handle[d] % n \in 0..n-1
      BY <1>0, <2>5, ModDef, HandleAssumption DEF AbortInv
    <3>2. slot'[handle[d] % n] = d
      BY <2>1, <2>4, <2>5, <3>1
    <3> QED
      BY <3>2, <2>1, <2>3, <2>4 DEF AbortInv
  <2>7. ASSUME NEW d \in target, handle[d] % slot_size >= ai PROVE handle'[d] % slot_size' >= ai
    <3>0. handle[d] % n \in 0..n-1
      BY <1>0, <2>5, ModDef
    <3>1. handle[d] % n \in Nat
      BY <3>0, <2>5
    <3> QED
      BY <3>1, <1>0, <2>1, <2>4, <2>7 DEF AbortInv
  <2> QED
    BY <2>1, <2>4, <2>6, <2>7 DEF AbortInv, abortVars
<1>2. ASSUME NEW l \in Launcher, AssignHandle(l) PROVE AbortInv'
  <2>1. \A c \in target : handle'[c] = handle[c] /\ c \notin News'
    BY <1>2 DEF AssignHandle, AbortInv, News, TableInv, HandleType
  <2> QED
    BY <1>2, <2>1 DEF AssignHandle, AbortInv, table, abortVars
<1>3. ASSUME NEW h \in Nat, Lookup(h) # None, RetireFound(h), UNCHANGED <<slot_size, handle, new>>,
             NEW c \in target'
      PROVE  /\ c \in target
             /\ slot'[handle'[c] % slot_size'] = c /\ c \notin News' /\ handle'[c] # 0
  <2>1. c \in target /\ c # Lookup(h) /\ c \in Ctx
    BY <1>3 DEF RetireFound, AbortInv
  <2>2. slot[handle[c] % slot_size] = c /\ c \notin News /\ handle[c] # 0
    BY <2>1 DEF AbortInv
  <2>3. slot'[handle[c] % slot_size] = c
    BY <2>1, <2>2, <1>3, OthersStay
  <2> QED
    BY <2>1, <2>2, <2>3, <1>3 DEF News
<1>4. ASSUME NEW h \in Handle, Retire(h) PROVE AbortInv'
  <2>1. h \in Nat
    BY HandleAssumption DEF Handle
  <2>2. Lookup(h) # None /\ RetireFound(h) /\ UNCHANGED <<slot_size, handle, new, abortVars>>
    BY <1>4 DEF Retire
  <2>3. target' \subseteq target
    BY <2>2 DEF RetireFound
  <2> QED
    BY <2>1, <2>2, <2>3, <1>3 DEF AbortInv, abortVars
<1>5. CASE AbortRetire
  <2>1. CASE Lookup(ah) # None /\ RetireFound(ah) /\ an' = TRUE
    <3>1. ah \in Nat /\ UNCHANGED <<slot_size, handle, new, ai>> /\ apc' = "scan" /\ ah' = 0
      BY <1>5 DEF AbortRetire, AbortInv
    <3>2. target' \subseteq target
      BY <2>1 DEF RetireFound
    <3> QED
      BY <2>1, <3>1, <3>2, <1>3 DEF AbortInv
  <2>2. CASE Lookup(ah) = None /\ UNCHANGED <<slot, name, target, an>>
    <3>1. UNCHANGED <<slot_size, handle, new, ai>> /\ apc' = "scan" /\ apc = "retire" /\ ah' = 0
      BY <1>5 DEF AbortRetire
    <3>2. \A c \in target : handle[c] # ah
      BY <2>2, HandleAssumption DEF AbortInv, Lookup
    <3> QED
      BY <2>2, <3>1, <3>2 DEF AbortInv, News
  <2> QED
    BY <1>5, <2>1, <2>2 DEF AbortRetire
<1>6. CASE AbortStart
  <2>1. /\ apc' = "scan" /\ an' = FALSE /\ ai' = 0
        /\ target' = {c \in Registered : handle[c] # 0}
        /\ UNCHANGED <<slot, slot_size, handle, new, ah>>
    BY <1>6 DEF AbortStart, table
  <2>2. ASSUME NEW c \in Registered, handle[c] # 0
        PROVE  c \in Ctx /\ slot[handle[c] % slot_size] = c /\ c \notin News /\ handle[c] % slot_size >= 0
    <3>1. PICK i \in 0..slot_size - 1 : slot[i] = c /\ c # None
      BY DEF Registered
    <3>2. c \in Ctx /\ c \notin News
      BY <2>2, <3>1 DEF TableInv, HandleType, Placed, News
    <3>3. handle[c] % slot_size = i
      BY <3>1, <3>2 DEF TableInv, Placed
    <3> QED
      BY <3>1, <3>2, <3>3
  <2>3. News' = News
    BY <2>1 DEF News
  <2>4. \A c \in target' : /\ c \in Ctx /\ slot'[handle'[c] % slot_size'] = c /\ c \notin News'
                           /\ handle'[c] # 0 /\ handle'[c] % slot_size' >= ai'
    BY <2>1, <2>2, <2>3
  <2> QED
    BY <2>1, <2>4 DEF AbortInv
<1>7. CASE AbortRead
  <2> DEFINE r == slot[ai]
             h == IF r = None THEN 0 ELSE handle[r]
  <2>1. /\ apc = "scan" /\ ai < slot_size /\ ai' = ai + 1
        /\ ah' = h
        /\ apc' = IF h # 0 THEN "retire" ELSE "scan"
        /\ UNCHANGED <<slot, slot_size, handle, new, an, target>>
    BY <1>7 DEF AbortRead, table
  <2>2. ASSUME NEW c \in target, handle[c] % slot_size = ai PROVE h = handle[c] /\ h # 0
    BY <2>2, HandleAssumption DEF AbortInv
  <2>3. \A c \in target : ~an => handle[c] % slot_size >= ai
    BY <2>1 DEF AbortInv
  <2>h. h \in Nat
    BY <2>1 DEF AbortInv, TableInv, HandleType
  <2> HIDE DEF h
  <2>4. ASSUME NEW c \in target, ~an
        PROVE  handle[c] % slot_size >= ai + 1 \/ (apc' = "retire" /\ ah' = handle[c])
    BY <2>1, <2>2, <2>3, <2>4, <1>0 DEF AbortInv
  <2> QED
    BY <2>1, <2>4, <2>h DEF AbortInv, News
<1>8. CASE AbortPassEnd
  <2>1. /\ apc = "scan" /\ ai >= slot_size
        /\ apc' = IF an THEN "scan" ELSE "done"
        /\ ai' = 0 /\ an' = FALSE
        /\ UNCHANGED <<slot, slot_size, handle, new, ah, target>>
    BY <1>8 DEF AbortPassEnd, table
  <2>2. ~an => target = {}
    BY <2>1, <1>0 DEF AbortInv, TableInv, HandleType
  <2>3. \A c \in target : handle[c] % slot_size >= 0
    BY <1>0
  <2>4. /\ ai' \in Nat /\ an' \in BOOLEAN /\ ah' \in Nat /\ target' \subseteq Ctx
        /\ (apc' \in {"idle", "done"} => target' = {}) /\ apc' # "retire"
    BY <2>1, <2>2 DEF AbortInv
  <2>5. News' = News
    BY <2>1 DEF News
  <2>6. \A c \in target' : slot'[handle'[c] % slot_size'] = c /\ c \notin News' /\ handle'[c] # 0
    BY <2>1, <2>5 DEF AbortInv
  <2>7. \A c \in target' : handle'[c] % slot_size' >= ai'
    BY <2>1, <2>3
  <2> QED
    BY <2>4, <2>6, <2>7 DEF AbortInv
<1>9. CASE UNCHANGED <<table, handle, new, abortVars, target>>
  BY <1>9 DEF table, abortVars, AbortInv, News
<1> QED
  BY <1>1, <1>2, <1>4, <1>5, <1>6, <1>7, <1>8, <1>9 DEF Next, handlevars, NameHandle

-----------------------------------------------------------------------------
(* Theorems                                                                *)

\* With one launcher, contexts are in the slots of their handles and the walk
\* of skynet_handle_retireall leaves none of them behind.
THEOREM HandleInvariance == ASSUME OneLauncher PROVE Spec => [](TableInv /\ AbortInv)
<1>1. Init => TableInv /\ AbortInv
  <2> SUFFICES ASSUME Init PROVE AbortInv
    BY TableInit
  <2> QED
    BY DEF Init, AbortInv
<1>2. TableInv /\ AbortInv /\ [Next]_handlevars => (TableInv /\ AbortInv)'
  BY TableNext, AbortNext
<1> QED
  BY <1>1, <1>2, PTL DEF Spec

\* skynet_handle_grab: every context is found under its handle, whatever the
\* size of the table and however far the handles have come.
THEOREM HandlesFindable == ASSUME OneLauncher PROVE Spec => []Findable
<1>1. TableInv => Findable
  <2> SUFFICES ASSUME TableInv PROVE Findable
    OBVIOUS
  <2>1. ASSUME NEW c \in Registered \ {new[l] : l \in Launcher} PROVE Lookup(handle[c]) = c
    <3>1. PICK i \in 0..slot_size - 1 : slot[i] = c /\ c # None
      BY DEF Registered
    <3>2. handle[c] % slot_size = i
      BY <2>1, <3>1 DEF TableInv, Placed, News
    <3> QED
      BY <3>1, <3>2 DEF Lookup
  <2>2. ASSUME NEW l \in Launcher, new[l] \in Registered PROVE slot[got[l] % slot_size] = new[l]
    BY <2>2 DEF Registered, TableInv, Placed
  <2> QED
    BY <2>1, <2>2 DEF Findable
<1> QED
  BY <1>1, HandleInvariance, PTL

\* The assertion in the expansion of skynet_handle_register never fails when
\* services are created by one launcher.
THEOREM RehashNeverFails == ASSUME OneLauncher PROVE Spec => []RehashAssert
<1>1. TableInv => RehashAssert
  BY RehashSafe DEF RehashAssert, News, OneLauncher
<1> QED
  BY <1>1, HandleInvariance, PTL

\* skynet_handle_retireall returns only when every service that had its handle
\* at the call is retired.
THEOREM AbortIsComplete == ASSUME OneLauncher PROVE Spec => []AbortComplete
<1>1. AbortInv => AbortComplete
  BY DEF AbortInv, AbortComplete
<1> QED
  BY <1>1, HandleInvariance, PTL

-----------------------------------------------------------------------------
(* Names: one pass that removes, and the binary search                     *)

Entry == [name : Name, handle : Nat, by : Ctx \cup {None}]

Sorted(q) == \A i, j \in 1..Len(q) : i < j => q[i].name < q[j].name

\* g holds what a pass over the first n names of q leaves, step by step
Pass(g, q, h, n) ==
    g = [i \in 0..n |-> IF i = 0 THEN <<>>
                        ELSE IF q[i].handle = h THEN g[i - 1] ELSE Append(g[i - 1], q[i])]

\* The pass over the names has a solution as a recursive function.
LEMMA PassExists ==
  ASSUME NEW q, NEW h, NEW n \in Nat
  PROVE  \E g : Pass(g, q, h, n)
<1> DEFINE bad == {m \in Nat : ~ \E g : Pass(g, q, h, m)}
<1>1. SUFFICES ASSUME bad # {} PROVE FALSE
  OBVIOUS
<1>2. PICK m \in bad : \A y \in bad : m <= y
  BY <1>1, Least
<1>3. m # 0
  <2> DEFINE g == [i \in 0..0 |-> <<>>]
  <2>1. \A i \in 0..0 : i = 0
    OBVIOUS
  <2>2. g = [i \in 0..0 |-> IF i = 0 THEN <<>>
                            ELSE IF q[i].handle = h THEN g[i - 1] ELSE Append(g[i - 1], q[i])]
    BY <2>1
  <2>3. Pass(g, q, h, 0)
    BY <2>2 DEF Pass
  <2> QED
    BY <2>3, <1>2
<1>4. m - 1 \in Nat /\ m - 1 \notin bad
  BY <1>2, <1>3
<1>5. PICK f : Pass(f, q, h, m - 1)
  BY <1>4
<1> DEFINE last == IF q[m].handle = h THEN f[m - 1] ELSE Append(f[m - 1], q[m])
           g == [i \in 0..m |-> IF i = m THEN last ELSE f[i]]
           Step(i) == IF i = 0 THEN <<>>
                      ELSE IF q[i].handle = h THEN g[i - 1] ELSE Append(g[i - 1], q[i])
<1>6. ASSUME NEW i \in 0..m PROVE g[i] = Step(i)
  <2>1. i \in Nat /\ (i # 0 => i - 1 \in 0..(m - 1) /\ i - 1 # m /\ i - 1 \in 0..m)
    BY <1>4
  <2>2. i # m => i \in 0..(m - 1)
    BY <1>4
  <2>3. \A j \in 0..(m - 1) : f[j] = IF j = 0 THEN <<>>
                                     ELSE IF q[j].handle = h THEN f[j - 1] ELSE Append(f[j - 1], q[j])
    BY <1>5 DEF Pass
  <2>4. i # 0 => g[i - 1] = f[i - 1]
    BY <2>1
  <2>5. CASE i = m
    BY <2>5, <2>4, <1>3
  <2>6. CASE i # m
    BY <2>6, <2>2, <2>3, <2>4
  <2> QED
    BY <2>5, <2>6
<1>7. Pass(g, q, h, m)
  <2>1. g = [i \in 0..m |-> g[i]]
    OBVIOUS
  <2>2. [i \in 0..m |-> g[i]] = [i \in 0..m |-> Step(i)]
    BY <1>6
  <2> QED
    BY <2>1, <2>2 DEF Pass
<1> QED
  BY <1>7, <1>2

\* What the pass over the names does at each name.
LEMMA WithoutDef ==
  ASSUME NEW q, Len(q) \in Nat, NEW h
  PROVE  \A i \in 0..Len(q) :
           Without(q, h)[i] = IF i = 0 THEN <<>>
                              ELSE IF q[i].handle = h THEN Without(q, h)[i - 1]
                                   ELSE Append(Without(q, h)[i - 1], q[i])
<1>0. PICK g : Pass(g, q, h, Len(q))
  BY PassExists
<1>1. g = [i \in 0..Len(q) |-> IF i = 0 THEN <<>>
                        ELSE IF q[i].handle = h THEN g[i - 1] ELSE Append(g[i - 1], q[i])]
  BY <1>0 DEF Pass
<1> DEFINE f == Without(q, h)
<1>2. f = [i \in 0..Len(q) |-> IF i = 0 THEN <<>>
                        ELSE IF q[i].handle = h THEN f[i - 1] ELSE Append(f[i - 1], q[i])]
  BY <1>1 DEF Without
<1> HIDE DEF f
<1>3. \A i \in 0..Len(q) : f[i] = IF i = 0 THEN <<>>
                        ELSE IF q[i].handle = h THEN f[i - 1] ELSE Append(f[i - 1], q[i])
  BY <1>2
<1> QED
  BY <1>3 DEF f

\* The pass keeps names that were there, in their order, and none of h.
LEMMA WithoutKeeps ==
  ASSUME NEW q \in Seq(Entry), Sorted(q), NEW h \in Nat
  PROVE  /\ Without(q, h)[Len(q)] \in Seq(Entry)
         /\ Sorted(Without(q, h)[Len(q)])
         /\ \A k \in 1..Len(Without(q, h)[Len(q)]) :
               /\ \E i \in 1..Len(q) : Without(q, h)[Len(q)][k] = q[i]
               /\ Without(q, h)[Len(q)][k].handle # h
<1> DEFINE f == Without(q, h)
           Good(i) == /\ f[i] \in Seq(Entry)
                      /\ Sorted(f[i])
                      /\ \A k \in 1..Len(f[i]) : /\ \E j \in 1..i : f[i][k] = q[j]
                                                 /\ f[i][k].handle # h
           bad == {i \in 0..Len(q) : ~Good(i)}
<1>0. Len(q) \in Nat
  OBVIOUS
<1>1. \A i \in 0..Len(q) : f[i] = IF i = 0 THEN <<>>
                        ELSE IF q[i].handle = h THEN f[i - 1] ELSE Append(f[i - 1], q[i])
  BY <1>0, WithoutDef
<1> HIDE DEF f
<1>2. SUFFICES ASSUME bad # {} PROVE FALSE
  <2>1. Good(Len(q))
    BY <1>0, <1>2
  <2> QED
    BY <2>1 DEF f
<1>3. PICK m \in bad : \A y \in bad : m <= y
  <2>1. bad \subseteq Nat
    OBVIOUS
  <2> QED
    BY <2>1, <1>2, Least
<1> HIDE DEF bad
<1>4. m \in 0..Len(q) /\ ~Good(m)
  BY <1>3 DEF bad
<1>5. m # 0
  <2>1. ASSUME m = 0 PROVE Good(m)
    <3>1. f[m] = <<>>
      BY <1>4, <1>1, <2>1
    <3> QED
      BY <3>1 DEF Sorted
  <2> QED
    BY <2>1, <1>4
<1>6. m - 1 \in 0..Len(q) /\ m \in 1..Len(q) /\ q[m] \in Entry
  BY <1>4, <1>5
<1>7. Good(m - 1)
  <2>1. m - 1 \notin bad
    BY <1>3, <1>4
  <2> QED
    BY <2>1, <1>6 DEF bad
<1> DEFINE g == f[m - 1]
<1>8. CASE q[m].handle = h
  <2>1. f[m] = g
    BY <1>8, <1>1, <1>4, <1>5
  <2>2. \A j \in 1..m - 1 : j \in 1..m
    BY <1>4
  <2>3. Good(m)
    BY <2>1, <2>2, <1>7
  <2> QED
    BY <2>3, <1>4
<1>9. CASE q[m].handle # h
  <2>1. f[m] = Append(g, q[m])
    BY <1>9, <1>1, <1>4, <1>5
  <2>2. g \in Seq(Entry) /\ Len(g) \in Nat
    BY <1>7
  <2> HIDE DEF g
  <2>3. /\ f[m] \in Seq(Entry) /\ Len(f[m]) = Len(g) + 1
        /\ f[m][Len(g) + 1] = q[m]
        /\ \A k \in 1..Len(g) : f[m][k] = g[k]
    BY <2>1, <2>2, <1>6
  <2>4. \A k \in 1..Len(f[m]) : k \in 1..Len(g) \/ k = Len(g) + 1
    BY <2>3, <2>2
  <2>5. \A k \in 1..Len(g) : /\ \E j \in 1..m - 1 : g[k] = q[j]
                             /\ g[k].handle # h
    BY <1>7 DEF g
  <2>6. \A k \in 1..Len(g) : g[k].name < q[m].name
    <3> TAKE k \in 1..Len(g)
    <3>1. PICK j \in 1..m - 1 : g[k] = q[j]
      BY <2>5
    <3>2. j \in 1..Len(q) /\ j < m
      BY <1>4
    <3> QED
      BY <3>1, <3>2, <1>6 DEF Sorted
  <2>7. Sorted(f[m])
    <3>1. Sorted(g)
      BY <1>7 DEF g
    <3> SUFFICES ASSUME NEW i \in 1..Len(f[m]), NEW j \in 1..Len(f[m]), i < j
                 PROVE  f[m][i].name < f[m][j].name
      BY DEF Sorted
    <3>2. i \in 1..Len(g)
      BY <2>3, <2>2
    <3>3. CASE j \in 1..Len(g)
      BY <3>3, <3>2, <3>1, <2>3 DEF Sorted
    <3>4. CASE j = Len(g) + 1
      BY <3>4, <3>2, <2>3, <2>6
    <3> QED
      BY <3>3, <3>4, <2>4
  <2>8. \A k \in 1..Len(f[m]) : /\ \E j \in 1..m : f[m][k] = q[j]
                                /\ f[m][k].handle # h
    <3> TAKE k \in 1..Len(f[m])
    <3>1. CASE k \in 1..Len(g)
      <4>1. PICK j \in 1..m - 1 : g[k] = q[j]
        BY <3>1, <2>5
      <4>2. j \in 1..m
        BY <1>4
      <4> QED
        BY <4>1, <4>2, <3>1, <2>3, <2>5
    <3>2. CASE k = Len(g) + 1
      <4>1. m \in 1..m
        BY <1>6
      <4> QED
        BY <4>1, <3>2, <2>3, <1>9
    <3> QED
      BY <3>1, <3>2, <2>4
  <2>9. Good(m)
    BY <2>3, <2>7, <2>8
  <2> QED
    BY <2>9, <1>4
<1> QED
  BY <1>8, <1>9

Mid(b, e) == (b + e) \div 2

\* The middle of a range of the binary search is in the range.
LEMMA MidBetween ==
  ASSUME NEW b \in Nat, NEW e \in Int, b <= e
  PROVE  Mid(b, e) \in Nat /\ b <= Mid(b, e) /\ Mid(b, e) <= e
BY DEF Mid

\* One step of the search of s for n in names q, between b and e.
Step(s, q, n, b, e) ==
    IF b > e THEN [found |-> FALSE, at |-> b]
    ELSE IF q[Mid(b, e) + 1].name = n THEN [found |-> TRUE, at |-> Mid(b, e)]
    ELSE IF q[Mid(b, e) + 1].name < n THEN s[<<Mid(b, e) + 1, e>>]
    ELSE s[<<b, Mid(b, e) - 1>>]

Ranges(q) == (0..Len(q)) \X (-1..Len(q) - 1)

\* s is a solution of the recursive definition
Solves(s, q, n) == s = [r \in Ranges(q) |-> Step(s, q, n, r[1], r[2])]

\* what the search finds between b and e: the places of n, the first of the
\* larger names
Places(q, n, b, e) == {i \in b..e : q[i + 1].name = n}
Above(q, n, b, e) == {i \in b..e : n < q[i + 1].name} \cup {e + 1}
First(T) == CHOOSE x \in T : \A y \in T : x <= y

Result(q, n, b, e) ==
    IF Places(q, n, b, e) # {} THEN [found |-> TRUE, at |-> CHOOSE i \in Places(q, n, b, e) : TRUE]
    ELSE [found |-> FALSE, at |-> IF b > e THEN b ELSE First(Above(q, n, b, e))]

\* The first of a set of numbers is its least.
LEMMA FirstIs ==
  ASSUME NEW T, T \subseteq Int, NEW x \in T, \A y \in T : x <= y
  PROVE  First(T) = x
<1>1. First(T) \in T /\ \A y \in T : First(T) <= y
  BY DEF First
<1>2. First(T) \in Int /\ x \in Int
  BY <1>1
<1>3. First(T) <= x /\ x <= First(T)
  BY <1>1
<1> QED
  BY <1>2, <1>3

\* In sorted names the result of a range is that of the half the search goes
\* to.
LEMMA ResultSteps ==
  ASSUME NEW q \in Seq(Entry), Sorted(q), NEW n \in Nat,
         NEW b \in 0..Len(q), NEW e \in -1..Len(q) - 1, b <= e
  PROVE  /\ q[Mid(b, e) + 1].name = n => Result(q, n, b, e) = [found |-> TRUE, at |-> Mid(b, e)]
         /\ q[Mid(b, e) + 1].name < n => Result(q, n, b, e) = Result(q, n, Mid(b, e) + 1, e)
         /\ n < q[Mid(b, e) + 1].name => Result(q, n, b, e) = Result(q, n, b, Mid(b, e) - 1)
<1> DEFINE m == Mid(b, e)
           k(i) == q[i + 1].name
<1>2. b \in Nat /\ e \in Nat /\ Len(q) \in Nat /\ e < Len(q)
  OBVIOUS
<1>1. m \in Nat /\ b <= m /\ m <= e
  BY <1>2, MidBetween
<1> HIDE DEF m
<1>3. \A i \in b..e : k(i) \in Nat
  <2>1. \A i \in b..e : i + 1 \in 1..Len(q)
    BY <1>2
  <2>2. \A i \in b..e : q[i + 1] \in Entry
    BY <2>1
  <2>3. \A i \in b..e : k(i) \in Name
    BY <2>2 DEF Entry
  <2> QED
    BY <2>3, HandleAssumption
<1>4. \A i, j \in b..e : i < j => k(i) < k(j)
  <2>1. \A i \in b..e : i + 1 \in 1..Len(q)
    BY <1>2
  <2>2. \A i, j \in b..e : i < j => i + 1 < j + 1
    BY <1>2
  <2> QED
    BY <2>1, <2>2 DEF Sorted
<1>5. m \in b..e
  BY <1>1, <1>2
<1> HIDE DEF k
<1>6. \A b1 \in Int, e1 \in Int : /\ Places(q, n, b1, e1) = {i \in b1..e1 : k(i) = n}
                                  /\ Above(q, n, b1, e1) = {i \in b1..e1 : n < k(i)} \cup {e1 + 1}
  BY DEF Places, Above, k
<1>7. ASSUME k(m) = n PROVE Result(q, n, b, e) = [found |-> TRUE, at |-> m]
  <2>1. \A i \in b..e : k(i) = n => i = m
    BY <1>3, <1>4, <1>5, <1>7, <1>2
  <2>2. Places(q, n, b, e) = {m}
    BY <2>1, <1>5, <1>6, <1>7, <1>2
  <2> QED
    BY <2>2 DEF Result
<1>8. ASSUME k(m) < n PROVE Result(q, n, b, e) = Result(q, n, m + 1, e)
  <2>1. \A i \in b..e : i <= m => k(i) < n
    BY <1>3, <1>4, <1>5, <1>8, <1>2
  <2>2. \A i \in Int : i \in m + 1..e <=> i \in b..e /\ ~(i <= m)
    BY <1>1, <1>2
  <2>3. Places(q, n, b, e) = Places(q, n, m + 1, e)
    <3>1. {i \in b..e : k(i) = n} = {i \in m + 1..e : k(i) = n}
      BY <2>1, <2>2, <1>3, <1>1, <1>2
    <3> QED
      BY <3>1 DEF Places, k
  <2>4. Above(q, n, b, e) = Above(q, n, m + 1, e)
    <3>1. {i \in b..e : n < k(i)} = {i \in m + 1..e : n < k(i)}
      BY <2>1, <2>2, <1>3, <1>1, <1>2
    <3> QED
      BY <3>1 DEF Above, k
  <2>5. m + 1 > e => First(Above(q, n, b, e)) = m + 1
    <3> SUFFICES ASSUME m + 1 > e PROVE First(Above(q, n, b, e)) = m + 1
      OBVIOUS
    <3>1. Above(q, n, b, e) = {m + 1}
      BY <2>4, <1>6, <1>1, <1>2
    <3> QED
      BY SMTT(40), <3>1, <1>1, FirstIs
  <2>6. ~(b > e) /\ m + 1 \in Int
    BY <1>1, <1>2
  <2> QED
    BY <2>3, <2>4, <2>5, <2>6, Zenon DEF Result
<1>9. ASSUME n < k(m) PROVE Result(q, n, b, e) = Result(q, n, b, m - 1)
  <2>1. \A i \in b..e : m <= i => n < k(i)
    BY <1>3, <1>4, <1>5, <1>9, <1>2
  <2>2. \A i \in Int : i \in b..m - 1 <=> i \in b..e /\ ~(m <= i)
    BY <1>1, <1>2
  <2>3. Places(q, n, b, e) = Places(q, n, b, m - 1)
    <3>1. {i \in b..e : k(i) = n} = {i \in b..m - 1 : k(i) = n}
      BY <2>1, <2>2, <1>3, <1>1, <1>2
    <3> QED
      BY <3>1 DEF Places, k
  <2>4. \A i \in Int : i \in Above(q, n, b, m - 1) <=> i = m \/ (i \in b..e /\ i < m /\ n < k(i))
    BY <2>2, <1>6, <1>1, <1>2
  <2>5. \A i \in Int : i \in Above(q, n, b, e) <=> i = e + 1 \/ (i \in b..e /\ n < k(i))
    BY <1>6, <1>1, <1>2
  <2>6. Above(q, n, b, m - 1) \subseteq Nat /\ Above(q, n, b, e) \subseteq Int
    BY <1>6, <1>1, <1>2
  <2>7. m \in Above(q, n, b, m - 1)
    BY <2>4, <1>1
  <2>8. PICK x \in Above(q, n, b, m - 1) : \A y \in Above(q, n, b, m - 1) : x <= y
    BY <2>6, <2>7, Least
  <2>9. x \in Nat /\ x <= m
    BY <2>6, <2>7, <2>8
  <2>10. x \in Above(q, n, b, e)
    BY <2>4, <2>5, <2>8, <2>9, <1>5, <1>9
  <2>11. \A y \in Above(q, n, b, e) : x <= y
    <3> TAKE y \in Above(q, n, b, e)
    <3>0. y \in Int
      BY <2>6
    <3>1. CASE y >= m
      BY <3>0, <3>1, <2>9, <1>1
    <3>2. CASE y < m
      <4>1. y \in Above(q, n, b, m - 1)
        BY <3>0, <3>2, <2>4, <2>5, <1>1, <1>2
      <4> QED
        BY <4>1, <2>8
    <3> QED
      BY <3>0, <3>1, <3>2, <1>1
  <2>12. First(Above(q, n, b, e)) = x
    BY <2>6, <2>10, <2>11, FirstIs
  <2>13. First(Above(q, n, b, m - 1)) = x
    <3>1. Above(q, n, b, m - 1) \subseteq Int
      BY <2>6
    <3> QED
      BY <3>1, <2>8, FirstIs
  <2>14. b > m - 1 => x = b
    <3>1. b > m - 1 => b = m
      BY <1>1, <1>2
    <3>2. x = m \/ x \in b..e
      BY <2>4, <2>8, <2>9
    <3> QED
      BY <3>1, <3>2, <2>9, <1>1, <1>2
  <2>15. ~(b > e)
    BY <1>2
  <2> QED
    BY <2>3, <2>12, <2>13, <2>14, <2>15, Zenon DEF Result
<1> QED
  BY <1>7, <1>8, <1>9 DEF m, k

\* The binary search has a solution as a recursive function.
LEMMA SolutionExists ==
  ASSUME NEW q \in Seq(Entry), Sorted(q), NEW n \in Nat
  PROVE  \E s : Solves(s, q, n)
<1> DEFINE s == [r \in Ranges(q) |-> Result(q, n, r[1], r[2])]
<1>0. Len(q) \in Nat
  OBVIOUS
<1>1. ASSUME NEW b \in 0..Len(q), NEW e \in -1..Len(q) - 1
      PROVE  Result(q, n, b, e) = Step(s, q, n, b, e)
  <2>0. \A c \in 0..Len(q), d \in -1..Len(q) - 1 : s[<<c, d>>] = Result(q, n, c, d)
    BY DEF Ranges
  <2> HIDE DEF s
  <2>1. CASE b > e
    <3>1. Places(q, n, b, e) = {}
      BY <2>1, <1>0 DEF Places
    <3> QED
      BY <3>1, <2>1 DEF Result, Step
  <2>2. CASE ~(b > e)
    <3> DEFINE m == Mid(b, e)
               k == q[m + 1].name
    <3>1. b \in Nat /\ e \in Nat /\ e \in Int /\ b <= e
      BY <2>2, <1>0
    <3>2. m \in Nat /\ b <= m /\ m <= e
      BY <3>1, MidBetween
    <3> HIDE DEF m
    <3>3. m + 1 \in 0..Len(q) /\ m - 1 \in -1..Len(q) - 1 /\ m + 1 \in 1..Len(q)
      BY <3>1, <3>2, <1>0
    <3>4. k \in Nat
      <4>1. q[m + 1] \in Entry
        BY <3>3
      <4> QED
        BY <4>1, HandleAssumption DEF Entry
    <3>5. /\ k = n => Result(q, n, b, e) = [found |-> TRUE, at |-> m]
          /\ k < n => Result(q, n, b, e) = Result(q, n, m + 1, e)
          /\ n < k => Result(q, n, b, e) = Result(q, n, b, m - 1)
      BY <3>1, ResultSteps DEF m
    <3>6. s[<<m + 1, e>>] = Result(q, n, m + 1, e) /\ s[<<b, m - 1>>] = Result(q, n, b, m - 1)
      BY <2>0, <3>3
    <3>7. k = n \/ k < n \/ n < k
      BY <3>4
    <3>8. k < n => k # n
      BY <3>4
    <3>9. n < k => k # n /\ ~(k < n)
      BY <3>4
    <3>10. Step(s, q, n, b, e) = IF k = n THEN [found |-> TRUE, at |-> m]
                                 ELSE IF k < n THEN s[<<m + 1, e>>] ELSE s[<<b, m - 1>>]
      BY <2>2 DEF Step, m
    <3> HIDE DEF k
    <3> QED
      BY <3>5, <3>6, <3>7, <3>8, <3>9, <3>10, Zenon
  <2> QED
    BY <2>1, <2>2
<1>2. \A r \in Ranges(q) : Result(q, n, r[1], r[2]) = Step(s, q, n, r[1], r[2])
  <2> TAKE r \in Ranges(q)
  <2>1. r[1] \in 0..Len(q) /\ r[2] \in -1..Len(q) - 1
    BY DEF Ranges
  <2> QED
    BY <2>1, <1>1
<1>3. s = [r \in Ranges(q) |-> Step(s, q, n, r[1], r[2])]
  BY <1>2, Zenon
<1> QED
  BY <1>3 DEF Solves

\* What the binary search does with a range.
LEMMA SearchesDef ==
  ASSUME name \in Seq(Entry), Sorted(name), NEW n \in Nat,
         NEW b \in 0..Len(name), NEW e \in -1..Len(name) - 1
  PROVE  Searches(n)[<<b, e>>] = Step(Searches(n), name, n, b, e)
<1> DEFINE Body(s, r) ==
             IF r[1] > r[2] THEN [found |-> FALSE, at |-> r[1]]
             ELSE LET mid == (r[1] + r[2]) \div 2
                      k == name[mid + 1].name
                  IN  CASE k = n -> [found |-> TRUE, at |-> mid]
                        [] k < n -> s[<<mid + 1, r[2]>>]
                        [] OTHER -> s[<<r[1], mid - 1>>]
<1>0. Len(name) \in Nat
  OBVIOUS
<1>1. ASSUME NEW s, NEW r \in Ranges(name) PROVE Body(s, r) = Step(s, name, n, r[1], r[2])
  <2> DEFINE m == Mid(r[1], r[2])
             k == name[m + 1].name
  <2>1. CASE r[1] > r[2]
    BY <2>1 DEF Step
  <2>2. CASE ~(r[1] > r[2])
    <3>1. r[1] \in 0..Len(name) /\ r[2] \in -1..Len(name) - 1
      BY DEF Ranges
    <3>2. r[1] \in Nat /\ r[2] \in Int /\ r[1] <= r[2]
      BY <3>1, <2>2, <1>0
    <3>3. m + 1 \in 1..Len(name)
      <4>1. m \in Nat /\ r[1] <= m /\ m <= r[2]
        BY <3>2, MidBetween
      <4> QED
        BY <4>1, <3>1, <1>0
    <3>4. k \in Nat
      <4>1. name[m + 1] \in Entry
        BY <3>3
      <4> QED
        BY <4>1, HandleAssumption DEF Entry
    <3>5. k = n => ~(k < n)
      BY <3>4
    <3>6. Body(s, r) = CASE k = n -> [found |-> TRUE, at |-> m]
                         [] k < n -> s[<<m + 1, r[2]>>]
                         [] OTHER -> s[<<r[1], m - 1>>]
      BY <2>2 DEF Mid
    <3>7. Step(s, name, n, r[1], r[2]) = IF k = n THEN [found |-> TRUE, at |-> m]
                                 ELSE IF k < n THEN s[<<m + 1, r[2]>>] ELSE s[<<r[1], m - 1>>]
      BY <2>2 DEF Step
    <3> HIDE DEF k, m, Body
    <3> QED
      BY <3>5, <3>6, <3>7
  <2> QED
    BY <2>1, <2>2
<1>2. PICK g : g = [r \in Ranges(name) |-> Step(g, name, n, r[1], r[2])]
  BY SolutionExists DEF Solves
<1>3. g = [r \in Ranges(name) |-> Body(g, r)]
  <2> HIDE DEF Body
  <2> QED
    BY <1>1, <1>2, Zenon
<1> DEFINE f == Searches(n)
<1>4. f = [r \in Ranges(name) |-> Body(f, r)]
  BY <1>3, Zenon DEF Searches, Ranges
<1> HIDE DEF f, Body
<1>5. f[<<b, e>>] = Body(f, <<b, e>>)
  BY <1>4 DEF Ranges
<1>6. <<b, e>> \in Ranges(name)
  BY DEF Ranges
<1> QED
  BY <1>1, <1>5, <1>6 DEF f

\* x is the place of n, or tells that n is not there and where it belongs
Finds(x, q, n) ==
    \/ /\ x.found = TRUE /\ x.at \in 0..Len(q) - 1
       /\ q[x.at + 1].name = n
    \/ /\ x.found = FALSE /\ x.at \in 0..Len(q)
       /\ \A i \in 1..x.at : q[i].name < n
       /\ \A i \in x.at + 1..Len(q) : n < q[i].name

\* The binary search, which narrows the range down, finds the name.
LEMMA SearchFinds ==
  ASSUME name \in Seq(Entry), Sorted(name), NEW n \in Nat
  PROVE  Finds(Search(n), name, n)
<1> DEFINE f == Searches(n)
           L == Len(name)
           Outside(b, e) == /\ \A i \in 1..b : name[i].name < n
                            /\ \A i \in e + 2..L : n < name[i].name
           bad == {w \in Nat : \E b \in 0..L, e \in -1..L - 1 :
                      w = e + 1 - b /\ Outside(b, e) /\ ~Finds(f[<<b, e>>], name, n)}
<1>0. L \in Nat
  OBVIOUS
<1>1. \A b \in 0..L, e \in -1..L - 1 : f[<<b, e>>] = Step(f, name, n, b, e)
  BY SearchesDef
<1>2. \A i \in 1..L : name[i].name \in Nat
  <2>1. \A i \in 1..L : name[i] \in Entry
    OBVIOUS
  <2> QED
    BY <2>1, HandleAssumption DEF Entry
<1>3. \A i, j \in 1..L : i < j => name[i].name < name[j].name
  BY DEF Sorted
<1> HIDE DEF f, L
<1>4. SUFFICES ASSUME bad # {} PROVE FALSE
  <2>1. 0 \in 0..L /\ L - 1 \in -1..L - 1 /\ (L - 1) + 1 - 0 \in Nat
    BY <1>0
  <2>2. Outside(0, L - 1)
    BY <1>0
  <2>3. Finds(f[<<0, L - 1>>], name, n)
    BY <1>4, <2>1, <2>2
  <2> QED
    BY <2>3 DEF Search, f, L
<1>5. PICK w \in bad : \A y \in bad : w <= y
  <2>1. bad \subseteq Nat
    OBVIOUS
  <2> QED
    BY <2>1, <1>4, Least
<1>6. PICK b \in 0..L, e \in -1..L - 1 : w = e + 1 - b /\ Outside(b, e) /\ ~Finds(f[<<b, e>>], name, n)
  BY <1>5
<1>7. w \in Nat /\ b \in Nat /\ e \in Int /\ b <= e + 1
  BY <1>5, <1>6, <1>0
<1>8. \A c \in 0..L, d \in -1..L - 1 :
         c <= d + 1 /\ d + 1 - c < w /\ Outside(c, d) => Finds(f[<<c, d>>], name, n)
  <2> SUFFICES ASSUME NEW c \in 0..L, NEW d \in -1..L - 1, c <= d + 1, d + 1 - c < w, Outside(c, d),
                      ~Finds(f[<<c, d>>], name, n)
               PROVE  FALSE
    BY Zenon
  <2>1. d + 1 - c \in Nat
    BY SMTT(40), <1>0
  <2>2. d + 1 - c \in bad
    BY <2>1
  <2> HIDE DEF bad
  <2>3. w <= d + 1 - c
    BY <2>2, <1>5
  <2> QED
    BY <2>1, <2>3, <1>7
<1> HIDE DEF bad
<1>9. CASE b > e
  <2>1. f[<<b, e>>] = [found |-> FALSE, at |-> b]
    BY <1>1, <1>9 DEF Step
  <2>2. b = e + 1
    BY <1>7, <1>9
  <2>3. Finds([found |-> FALSE, at |-> b], name, n)
    <3>1. b \in 0..Len(name)
      BY DEF L
    <3>2. \A i \in b + 1..Len(name) : n < name[i].name
      BY <2>2, <1>6, <1>7 DEF L
    <3>3. \A i \in 1..b : name[i].name < n
      BY <1>6
    <3> QED
      BY <3>1, <3>2, <3>3 DEF Finds
  <2> QED
    BY <2>1, <2>3, <1>6
<1>10. CASE ~(b > e)
  <2> DEFINE m == Mid(b, e)
             k == name[m + 1].name
  <2>1. b <= e
    BY <1>7, <1>10
  <2>2. m \in Nat /\ b <= m /\ m <= e
    BY <2>1, <1>7, MidBetween
  <2>3. f[<<b, e>>] = IF k = n THEN [found |-> TRUE, at |-> m]
                      ELSE IF k < n THEN f[<<m + 1, e>>] ELSE f[<<b, m - 1>>]
    BY <1>1, <1>10 DEF Step
  <2> HIDE DEF m
  <2>4. m + 1 \in 1..L /\ m + 1 \in 0..L /\ m - 1 \in -1..L - 1 /\ m \in 0..L - 1
    BY <2>2, <1>0, <1>7
  <2>5. k \in Nat
    BY <2>4, <1>2
  <2>6. CASE k = n
    <3>1. Finds([found |-> TRUE, at |-> m], name, n)
      BY <2>4, <2>6 DEF Finds, L
    <3> QED
      BY <3>1, <2>3, <2>6, <1>6
  <2>7. CASE k < n
    <3>1. Outside(m + 1, e)
      <4>1. \A i \in 1..m + 1 : name[i].name < n
        <5> TAKE i \in 1..m + 1
        <5>1. i \in 1..L /\ (i = m + 1 \/ i < m + 1)
          BY <2>4, <2>2, <1>0
        <5>2. name[i].name \in Nat /\ (i = m + 1 \/ name[i].name < k)
          BY <5>1, <2>4, <1>2, <1>3
        <5> QED
          BY <5>2, <2>5, <2>7
      <4> QED
        BY <4>1, <1>6
    <3>2. m + 1 <= e + 1 /\ e + 1 - (m + 1) < w
      BY <2>2, <1>6, <1>7
    <3>3. Finds(f[<<m + 1, e>>], name, n)
      BY <3>1, <3>2, <2>4, <1>8
    <3>4. k # n
      BY <2>5, <2>7
    <3> QED
      BY <3>3, <3>4, <2>3, <2>7, <1>6
  <2>8. CASE n < k
    <3>1. Outside(b, m - 1)
      <4>1. \A i \in (m - 1) + 2..L : n < name[i].name
        <5> TAKE i \in (m - 1) + 2..L
        <5>1. i \in 1..L /\ (i = m + 1 \/ m + 1 < i)
          BY <2>4, <2>2, <1>0
        <5>2. name[i].name \in Nat /\ (i = m + 1 \/ k < name[i].name)
          BY <5>1, <2>4, <1>2, <1>3
        <5> QED
          BY <5>2, <2>5, <2>8
      <4> QED
        BY <4>1, <1>6
    <3>2. b <= (m - 1) + 1 /\ (m - 1) + 1 - b < w
      BY <2>2, <1>6, <1>7
    <3>3. Finds(f[<<b, m - 1>>], name, n)
      BY <3>1, <3>2, <2>4, <1>8
    <3>4. k # n /\ ~(k < n)
      BY <2>5, <2>8
    <3> QED
      BY <3>3, <3>4, <2>3, <1>6
  <2> QED
    BY <2>5, <2>6, <2>7, <2>8
<1> QED
  BY <1>9, <1>10

-----------------------------------------------------------------------------
(* Names and the services they lead to                                     *)

\* entry x was made for a service, which is still found under its handle
Leads(x) == x.by # None => slot[x.handle % slot_size] = x.by /\ handle[x.by] = x.handle

NameInv ==
    /\ name \in Seq(Entry)
    /\ Sorted(name)
    /\ \A i \in 1..Len(name) : name[i].handle # 0 /\ Leads(name[i])

\* A new context leaves the others where their handles find them, in the
\* table or in the larger one.
LEMMA RegisterKeeps ==
  ASSUME OneLauncher, TableInv, NEW l \in Launcher, NEW c \in Ctx, Register(l, c),
         NEW d \in Ctx, slot[handle[d] % slot_size] = d
  PROVE  slot'[handle[d] % slot_size'] = d /\ handle'[d] = handle[d]
<1> DEFINE s == IF Full THEN Expanded ELSE slot
           n == IF Full THEN 2 * slot_size ELSE slot_size
           h == Candidate(Free(s, n))
<1>0. handle[d] \in Nat /\ handle[d] % slot_size \in 0..slot_size - 1
  BY ModDef DEF TableInv, HandleType
<1>1. /\ new[l] = None /\ c \in Unused
      /\ slot' = [s EXCEPT ![h % n] = c]
      /\ slot_size' = n
      /\ handle' = [handle EXCEPT ![c] = 0]
  BY Zenon DEF Register
<1>2. \A k \in Launcher : k = l
  BY DEF OneLauncher
<1>3. News = {} /\ d # None
  BY <1>1, <1>2, HandleAssumption DEF News
<1>4. d # c
  BY <1>0, <1>1, <1>3 DEF Unused, Registered
<1>5. handle'[d] = handle[d]
  BY <1>1, <1>4 DEF TableInv, HandleType
<1>6. n \in Nat \ {0} /\ DOMAIN s = 0..n-1 /\ s[h % n] = None /\ s[handle[d] % n] = d
  <2>1. CASE ~Full
    <3>1. n = slot_size /\ s = slot /\ \E j \in 0..n-1 : s[j] = None
      BY <2>1 DEF Full
    <3>2. s[h % n] = None
      BY SMTT(40), <3>1, FreeFound DEF TableInv, HandleType
    <3> QED
      BY <3>1, <3>2 DEF TableInv, HandleType
  <2>2. CASE Full
    <3>1. n = 2 * slot_size /\ s = Expanded /\ \E j \in 0..n-1 : s[j] = None
      BY <2>2, <1>3, ExpandedPlaced
    <3>2. n \in Nat \ {0} /\ (HANDLE_MASK + 1) % n = 0
      BY <1>1, RegisterTable DEF TableInv, HandleType
    <3>3. s[h % n] = None
      BY <3>1, <3>2, FreeFound DEF TableInv, HandleType
    <3>4. s[handle[d] % n] = d
      BY <3>1, <2>2, <1>0, <1>3, ExpandedPlaced
    <3> QED
      BY <3>1, <3>2, <3>3, <3>4 DEF Expanded
  <2> QED
    BY <2>1, <2>2
<1> HIDE DEF s, n, h
<1>7. handle[d] % n # h % n /\ handle[d] % n \in 0..n-1
  BY <1>0, <1>3, <1>6, ModDef
<1>8. slot'[handle[d] % n] = d
  BY <1>1, <1>6, <1>7
<1> QED
  BY <1>1, <1>5, <1>8

\* Retiring h takes the names of h away, and leaves the others' services.
LEMMA RetireNames ==
  ASSUME TableInv, NameInv, NEW h \in Nat, Lookup(h) # None, RetireFound(h),
         UNCHANGED <<slot_size, handle>>
  PROVE  NameInv'
<1> DEFINE q == Without(name, h)[Len(name)]
<1>1. name' = q
  BY DEF RetireFound
<1>2. /\ q \in Seq(Entry) /\ Sorted(q)
      /\ \A k \in 1..Len(q) : /\ \E i \in 1..Len(name) : q[k] = name[i]
                              /\ q[k].handle # h
  BY WithoutKeeps DEF NameInv
<1> HIDE DEF q
<1>3. ASSUME NEW k \in 1..Len(q)
      PROVE  /\ q[k].handle # 0
             /\ q[k].by # None => slot'[q[k].handle % slot_size] = q[k].by /\ handle[q[k].by] = q[k].handle
  <2>1. PICK i \in 1..Len(name) : q[k] = name[i]
    BY <1>2
  <2> DEFINE x == name[i]
  <2>2. x \in Entry /\ x.handle # 0 /\ Leads(x) /\ x.handle # h
    BY <2>1, <1>2 DEF NameInv
  <2>3. q[k] = x
    BY <2>1
  <2> HIDE DEF x
  <2>4. ASSUME x.by # None PROVE slot'[x.handle % slot_size] = x.by /\ handle[x.by] = x.handle
    <3>1. x.by \in Ctx /\ slot[x.handle % slot_size] = x.by /\ handle[x.by] = x.handle
      BY <2>2, <2>4 DEF Entry, Leads
    <3>2. x.by # Lookup(h)
      BY <3>1, <2>2, LookupFinds
    <3> QED
      BY <3>1, <3>2, OthersStay
  <2> QED
    BY <2>2, <2>3, <2>4
<1>4. \A k \in 1..Len(name') : name'[k].handle # 0 /\ Leads(name[k])'
  <2> TAKE k \in 1..Len(name')
  <2>1. k \in 1..Len(q) /\ name'[k] = q[k]
    BY <1>1
  <2> QED
    BY <2>1, <1>3 DEF Leads
<1> QED
  BY <1>1, <1>2, <1>4 DEF NameInv, Sorted

\* A new name goes between the smaller and the larger ones.
LEMMA NameHandleNames ==
  ASSUME TableInv, NameInv, NEW h \in Handle \ {0}, NEW n \in Name, NameHandle(h, n)
  PROVE  NameInv'
<1> DEFINE at == Search(n).at
           x == [name |-> n, handle |-> h, by |-> Lookup(h)]
           a == SubSeq(name, 1, at)
           z == SubSeq(name, at + 1, Len(name))
<1>0. n \in Nat /\ h \in Nat /\ h # 0 /\ Len(name) \in Nat
  BY HandleAssumption DEF Handle, NameInv
<1>1. /\ ~Search(n).found
      /\ name' = a \o <<x>> \o z
      /\ UNCHANGED <<slot, slot_size, handle>>
  BY DEF NameHandle, table
<1>2. /\ at \in 0..Len(name)
      /\ \A i \in 1..at : name[i].name < n
      /\ \A i \in at + 1..Len(name) : n < name[i].name
  BY <1>0, <1>1, SearchFinds DEF NameInv, Finds
<1>3. x \in Entry /\ x.name = n /\ x.handle # 0 /\ Leads(x)
  <2>1. Lookup(h) \in Ctx \cup {None}
    BY <1>0, LookupFinds
  <2>2. Lookup(h) # None => slot[h % slot_size] = Lookup(h) /\ handle[Lookup(h)] = h
    BY <1>0, LookupFinds
  <2> QED
    BY <1>0, <2>1, <2>2 DEF Entry, Leads
<1> HIDE DEF at, x
<1>4. /\ a \in Seq(Entry) /\ Len(a) = at /\ \A i \in 1..at : a[i] = name[i]
  BY <1>0, <1>2 DEF NameInv
<1>5. /\ z \in Seq(Entry) /\ Len(z) = Len(name) - at
      /\ \A i \in 1..Len(name) - at : z[i] = name[i + at]
  BY <1>0, <1>2 DEF NameInv
<1> HIDE DEF a, z
<1> DEFINE q == a \o <<x>> \o z
<1>6. /\ q \in Seq(Entry) /\ Len(q) = Len(name) + 1
      /\ \A i \in 1..at : q[i] = name[i]
      /\ q[at + 1] = x
      /\ \A i \in at + 2..Len(name) + 1 : q[i] = name[i - 1]
  <2> DEFINE ax == a \o <<x>>
  <2>1. /\ ax \in Seq(Entry) /\ Len(ax) = at + 1
        /\ \A i \in 1..at : ax[i] = a[i]
        /\ ax[at + 1] = x
    BY <1>3, <1>4, <1>2
  <2> HIDE DEF ax
  <2>2. /\ ax \o z \in Seq(Entry) /\ Len(ax \o z) = Len(name) + 1
        /\ \A i \in 1..at + 1 : (ax \o z)[i] = ax[i]
        /\ \A i \in at + 2..Len(name) + 1 : (ax \o z)[i] = z[i - (at + 1)]
    BY <2>1, <1>5, <1>2, <1>0
  <2>3. q = ax \o z
    BY DEF ax
  <2>4. \A i \in at + 2..Len(name) + 1 : i - (at + 1) \in 1..Len(name) - at /\ (i - (at + 1)) + at = i - 1
    BY <1>2, <1>0
  <2> HIDE DEF q
  <2>5. \A i \in at + 2..Len(name) + 1 : q[i] = name[i - 1]
    BY <2>2, <2>3, <2>4, <1>5
  <2>6. \A i \in 1..at : q[i] = name[i]
    BY <2>1, <2>2, <2>3, <1>4, <1>2
  <2>7. q[at + 1] = x
    BY <2>1, <2>2, <2>3, <1>2
  <2> QED
    BY <2>2, <2>3, <2>5, <2>6, <2>7
<1> HIDE DEF q
<1>7. \A i \in 1..Len(q) : \/ i \in 1..at /\ i \in 1..Len(name)
                           \/ i = at + 1
                           \/ i \in at + 2..Len(name) + 1 /\ i - 1 \in at + 1..Len(name) /\ i - 1 \in 1..Len(name)
  BY <1>6, <1>2, <1>0
<1>8. Sorted(q)
  <2> SUFFICES ASSUME NEW i \in 1..Len(q), NEW j \in 1..Len(q), i < j PROVE q[i].name < q[j].name
    BY DEF Sorted
  <2>0. \A r, s \in 1..Len(name) : r < s => name[r].name < name[s].name
    BY DEF NameInv, Sorted
  <2>1. CASE j \in 1..at
    <3>1. i \in 1..at /\ i \in 1..Len(name) /\ j \in 1..Len(name)
      BY <2>1, <1>2, <1>0
    <3> QED
      BY <3>1, <2>0, <2>1, <1>6
  <2>2. CASE j = at + 1
    <3>1. i \in 1..at
      BY <2>2, <1>2
    <3> QED
      BY <3>1, <2>2, <1>6, <1>2, <1>3
  <2>3. CASE j \in at + 2..Len(name) + 1
    <3>1. j - 1 \in at + 1..Len(name) /\ j - 1 \in 1..Len(name) /\ q[j] = name[j - 1]
      BY <2>3, <1>6, <1>2, <1>0
    <3>2. CASE i \in 1..at
      <4>1. i \in 1..Len(name) /\ i < j - 1
        BY <3>2, <2>3, <1>2, <1>0
      <4> QED
        BY <4>1, <3>1, <3>2, <2>0, <1>6
    <3>3. CASE i = at + 1
      BY <3>1, <3>3, <1>2, <1>3, <1>6
    <3>4. CASE i \in at + 2..Len(name) + 1
      <4>1. i - 1 \in 1..Len(name) /\ i - 1 < j - 1 /\ q[i] = name[i - 1]
        BY <3>4, <1>6, <1>2, <1>0
      <4> QED
        BY <4>1, <3>1, <2>0
    <3> QED
      BY <3>2, <3>3, <3>4, <1>7
  <2> QED
    BY <2>1, <2>2, <2>3, <1>7
<1>9. \A i \in 1..Len(q) : q[i].handle # 0 /\ Leads(q[i])
  <2> TAKE i \in 1..Len(q)
  <2>1. q[i] = x \/ \E j \in 1..Len(name) : q[i] = name[j]
    BY <1>6, <1>7
  <2> QED
    BY <2>1, <1>3 DEF NameInv
<1>10. name' = q
  BY <1>1 DEF q
<1>11. \A i \in 1..Len(name') : name'[i].handle # 0 /\ Leads(name[i])'
  <2> TAKE i \in 1..Len(name')
  <2>1. i \in 1..Len(q) /\ name'[i] = q[i]
    BY <1>10
  <2> QED
    BY <2>1, <1>1, <1>9 DEF Leads
<1> QED
  BY <1>6, <1>8, <1>10, <1>11 DEF NameInv, Sorted

\* Every step keeps the names sorted, unique and leading to their services.
LEMMA NamesNext == OneLauncher /\ TableInv /\ AbortInv /\ NameInv /\ [Next]_handlevars => NameInv'
<1> SUFFICES ASSUME OneLauncher, TableInv, AbortInv, NameInv, [Next]_handlevars PROVE NameInv'
  OBVIOUS
<1>0. \A i \in 1..Len(name) : name[i] \in Entry /\ name[i].handle # 0 /\ Leads(name[i])
  BY DEF NameInv
<1>1. ASSUME NEW l \in Launcher, NEW c \in Ctx, Register(l, c) PROVE NameInv'
  <2>1. name' = name
    BY <1>1, Zenon DEF Register
  <2>2. ASSUME NEW i \in 1..Len(name) PROVE Leads(name[i])'
    <3> SUFFICES ASSUME name[i].by # None
                 PROVE  slot'[name[i].handle % slot_size'] = name[i].by /\ handle'[name[i].by] = name[i].handle
      BY <2>1 DEF Leads
    <3>1. name[i].by \in Ctx /\ slot[name[i].handle % slot_size] = name[i].by /\ handle[name[i].by] = name[i].handle
      BY <1>0 DEF Leads, Entry
    <3> QED
      BY <3>1, <1>1, RegisterKeeps
  <2> QED
    BY <2>1, <2>2 DEF NameInv, Sorted
<1>2. ASSUME NEW l \in Launcher, AssignHandle(l) PROVE NameInv'
  <2>1. /\ UNCHANGED <<name, slot, slot_size>>
        /\ new[l] # None /\ handle' = [handle EXCEPT ![new[l]] = got[l]]
    BY <1>2 DEF AssignHandle, table
  <2>2. ASSUME NEW i \in 1..Len(name) PROVE Leads(name[i])'
    <3> SUFFICES ASSUME name[i].by # None
                 PROVE  slot[name[i].handle % slot_size] = name[i].by /\ handle'[name[i].by] = name[i].handle
      BY <2>1 DEF Leads
    <3>1. name[i].by \in Ctx /\ slot[name[i].handle % slot_size] = name[i].by /\ handle[name[i].by] = name[i].handle
      BY <1>0 DEF Leads, Entry
    <3>2. name[i].by # new[l]
      BY <3>1, <1>0, <2>1 DEF TableInv, Placed
    <3> QED
      BY <3>1, <3>2, <2>1 DEF TableInv, HandleType
  <2> QED
    BY <2>1, <2>2 DEF NameInv, Sorted
<1>3. ASSUME NEW h \in Handle, Retire(h) PROVE NameInv'
  <2>1. h \in Nat
    BY HandleAssumption DEF Handle
  <2> QED
    BY <2>1, <1>3, RetireNames DEF Retire
<1>4. ASSUME NEW h \in Handle \ {0}, NEW n \in Name, NameHandle(h, n) PROVE NameInv'
  BY <1>4, NameHandleNames
<1>5. CASE AbortRetire
  <2>1. CASE Lookup(ah) # None /\ RetireFound(ah)
    <3>1. ah \in Nat /\ UNCHANGED <<slot_size, handle>>
      BY <1>5 DEF AbortRetire, AbortInv
    <3> QED
      BY <2>1, <3>1, RetireNames
  <2>2. CASE UNCHANGED <<slot, name>>
    BY <1>5, <2>2 DEF AbortRetire, NameInv, Leads, Sorted
  <2> QED
    BY <1>5, <2>1, <2>2 DEF AbortRetire
<1>6. CASE UNCHANGED <<table, handle, name>>
  BY <1>6 DEF table, NameInv, Leads, Sorted
<1> QED
  BY <1>1, <1>2, <1>3, <1>4, <1>5, <1>6
     DEF Next, handlevars, AbortStart, AbortRead, AbortPassEnd

\* skynet_handle_findname finds every name, no name is bound twice, and a name
\* of a service leads to that service as long as the name exists.
THEOREM NamesAreSound == ASSUME OneLauncher PROVE Spec => []NamesSound
<1>1. Init => NameInv
  BY DEF Init, NameInv, Sorted
<1>2. TableInv /\ NameInv => NamesSound
  <2> SUFFICES ASSUME TableInv, NameInv PROVE NamesSound
    OBVIOUS
  <2>1. \A i \in 1..Len(name) : name[i] \in Entry /\ Leads(name[i])
    BY DEF NameInv
  <2>2. \A i, j \in 1..Len(name) : name[i].name = name[j].name => i = j
    <3> TAKE i, j \in 1..Len(name)
    <3>1. name[i].name \in Nat /\ name[j].name \in Nat
      BY <2>1, HandleAssumption DEF Entry
    <3>2. /\ i < j => name[i].name < name[j].name
          /\ j < i => name[j].name < name[i].name
      BY DEF NameInv, Sorted
    <3> QED
      BY <3>1, <3>2
  <2>3. ASSUME NEW n \in Name
        PROVE  LET at == {i \in 1..Len(name) : name[i].name = n}
               IN  FindName(n) = IF at = {} THEN 0 ELSE name[CHOOSE i \in at : TRUE].handle
    <3> DEFINE at == {i \in 1..Len(name) : name[i].name = n}
               x == Search(n)
    <3>1. n \in Nat /\ Len(name) \in Nat
      BY HandleAssumption DEF NameInv
    <3>2. Finds(x, name, n)
      BY <3>1, SearchFinds DEF NameInv
    <3> HIDE DEF x
    <3>3. CASE x.found = TRUE /\ x.at \in 0..Len(name) - 1 /\ name[x.at + 1].name = n
      <4>1. x.at + 1 \in 1..Len(name)
        BY <3>1, <3>3
      <4>2. at = {x.at + 1}
        BY <4>1, <3>3, <2>2
      <4>3. FindName(n) = name[x.at + 1].handle
        BY <3>3 DEF FindName, x
      <4> QED
        BY <4>2, <4>3
    <3>4. CASE /\ x.found = FALSE /\ x.at \in 0..Len(name)
               /\ \A i \in 1..x.at : name[i].name < n
               /\ \A i \in x.at + 1..Len(name) : n < name[i].name
      <4>1. ASSUME NEW i \in 1..Len(name) PROVE name[i].name # n
        <5>1. name[i].name \in Nat
          BY <2>1, HandleAssumption DEF Entry
        <5>2. i \in 1..x.at \/ i \in x.at + 1..Len(name)
          BY <3>1, <3>4
        <5> QED
          BY <5>1, <5>2, <3>1, <3>4
      <4>2. at = {}
        BY <4>1
      <4>3. FindName(n) = 0
        BY <3>4 DEF FindName, x
      <4> QED
        BY <4>2, <4>3
    <3> QED
      BY <3>2, <3>3, <3>4 DEF Finds
  <2>4. ASSUME NEW i \in 1..Len(name), name[i].by # None PROVE Lookup(name[i].handle) = name[i].by
    BY <2>1, <2>4 DEF Leads, Lookup
  <2> QED
    BY <2>2, <2>3, <2>4 DEF NamesSound
<1> QED
  BY <1>1, <1>2, NamesNext, HandleInvariance, PTL DEF Spec
=============================================================================
