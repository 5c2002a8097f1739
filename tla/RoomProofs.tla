----------------------------- MODULE RoomProofs -----------------------------
(***************************************************************************)
(* Proofs about the room, for any number of users, seats and rounds: the   *)
(* players always fit the seats, also when they come back from the row,    *)
(* and the fee is charged once.                                            *)
(***************************************************************************)
EXTENDS Room, FiniteSetTheorems, WellFoundedInduction, TLAPS

-----------------------------------------------------------------------------
(* Sequences and counting                                                  *)

\* what RemoveAt leaves
LEMMA RemoveAtProperties ==
  ASSUME NEW T, NEW s \in Seq(T), NEW i \in DOMAIN s
  PROVE  /\ RemoveAt(s, i) \in Seq(T)
         /\ Len(RemoveAt(s, i)) = Len(s) - 1
         /\ \A k \in DOMAIN RemoveAt(s, i) :
              RemoveAt(s, i)[k] = IF k < i THEN s[k] ELSE s[k + 1]
<1>1. i \in 1..Len(s) /\ Len(s) \in Nat
  OBVIOUS
<1> DEFINE a == SubSeq(s, 1, i - 1)
           b == SubSeq(s, i + 1, Len(s))
<1>2. a \in Seq(T) /\ Len(a) = i - 1 /\ \A k \in 1..(i - 1) : a[k] = s[k]
  BY <1>1
<1>3. b \in Seq(T) /\ Len(b) = Len(s) - i /\ \A k \in 1..(Len(s) - i) : b[k] = s[i + k]
  BY <1>1
<1> HIDE DEF a, b
<1>4. /\ a \o b \in Seq(T) /\ Len(a \o b) = Len(s) - 1
      /\ \A k \in 1..(Len(s) - 1) : (a \o b)[k] = IF k < i THEN s[k] ELSE s[k + 1]
  <2>1. a \o b \in Seq(T) /\ Len(a \o b) = Len(s) - 1
    BY <1>1, <1>2, <1>3
  <2>2. ASSUME NEW k \in 1..(Len(s) - 1)
        PROVE  (a \o b)[k] = IF k < i THEN s[k] ELSE s[k + 1]
    <3>1. k \in 1..(Len(a) + Len(b))
      BY <1>1, <1>2, <1>3
    <3>2. (a \o b)[k] = IF k <= Len(a) THEN a[k] ELSE b[k - Len(a)]
      BY SMTT(40), <1>2, <1>3, <3>1
    <3>3. CASE k < i
      BY <3>2, <3>3, <1>1, <1>2
    <3>4. CASE ~(k < i)
      <4>1. k - Len(a) \in 1..(Len(s) - i) /\ i + (k - Len(a)) = k + 1
        BY <3>4, <1>1, <1>2
      <4> QED
        BY SMTT(40), <4>1, <3>2, <3>4, <1>1, <1>2, <1>3
    <3> QED
      BY <3>3, <3>4
  <2> QED
    BY <2>1, <2>2
<1>5. RemoveAt(s, i) = a \o b
  BY DEF RemoveAt, a, b
<1>6. DOMAIN RemoveAt(s, i) = 1..(Len(s) - 1)
  BY <1>4, <1>5
<1> QED
  BY <1>4, <1>5, <1>6

\* every set of numbers has a least one
LEMMA Least ==
  ASSUME NEW S \in SUBSET Nat, S # {}
  PROVE  \E p \in S : \A q \in S : p <= q
<1>1. PICK p \in S : \A y \in Nat : <<y, p>> \in OpToRel(<, Nat) => ~(y \in S)
  BY WFMin, NatLessThanWellFounded
<1>2. \A y \in S : ~(y < p)
  BY <1>1 DEF OpToRel
<1> QED
  BY <1>2

\* The numbers up to n are n.
LEMMA UpTo ==
  ASSUME NEW n \in Nat
  PROVE  IsFiniteSet(1..n) /\ Cardinality(1..n) = n
<1>1. IsFiniteSet(1..n) /\ Cardinality(1..n) = IF 1 > n THEN 0 ELSE n - 1 + 1
  BY FS_Interval
<1> QED
  BY <1>1

\* a list shorter than the seats leaves a position free
LEMMA FreePosition ==
  ASSUME NEW list \in Seq([user : User, pos : 0..Seats, sit : BOOLEAN]), Len(list) < Seats
  PROVE  (1..Seats) \ {list[i].pos : i \in DOMAIN list} # {}
<1> DEFINE taken == {list[i].pos : i \in DOMAIN list}
           f == [i \in DOMAIN list |-> list[i].pos]
<1>0. Seats \in Nat /\ Len(list) \in Nat /\ DOMAIN list = 1..Len(list)
  BY RoomAssumption
<1>1. IsFiniteSet(DOMAIN list) /\ Cardinality(DOMAIN list) = Len(list)
  BY <1>0, UpTo
<1>2. f \in Surjection(DOMAIN list, taken)
  BY DEF Surjection
<1>3. IsFiniteSet(taken) /\ Cardinality(taken) <= Len(list)
  BY <1>1, <1>2, FS_Surjection
<1>4. IsFiniteSet(1..Seats) /\ Cardinality(1..Seats) = Seats
  BY <1>0, UpTo
<1>5. ASSUME 1..Seats \subseteq taken PROVE FALSE
  <2>1. Cardinality(1..Seats) <= Cardinality(taken)
    BY <1>5, <1>3, FS_Subset
  <2>2. Cardinality(taken) \in Nat
    BY <1>3, FS_CardinalityType
  <2> QED
    BY <2>1, <2>2, <1>3, <1>4, <1>0
<1> QED
  BY <1>5

-----------------------------------------------------------------------------
(* The players fit the seats                                               *)

Player == [user : User, pos : 0..Seats, sit : BOOLEAN]

Fits(list) ==
    /\ list \in Seq(Player)
    /\ Len(list) <= Seats
    /\ \A i, j \in DOMAIN list : list[i].user # list[j].user => list[i].pos # list[j].pos

\* The kinds of writes: the players, the end of the room, the start of the
\* first round, the end of a round, and the fee.
Row(w) ==
    \/ DOMAIN w = {"players"} /\ Fits(w["players"])
    \/ DOMAIN w = {"state"} /\ w["state"] = "DISTROY"
    \/ /\ DOMAIN w = {"state", "over", "cur"}
       /\ w["state"] = "PLAYING" /\ w["over"] \in Nat /\ w["cur"] = 1
    \/ DOMAIN w = {"over", "cur"} /\ w["over"] \in Nat \ {0} /\ w["cur"] \in Nat
    \/ DOMAIN w = {"fee"}

Handler == [op : {"join", "back", "return", "start", "restart", "distroy", "vote"}, user : User]

\* What is in memory, in the row and on its way to the row all fits.
RoomInv ==
    /\ state \in {"PREPARE", "PLAYING", "DISTROY"}
    /\ game \in {"nil", "playing", "ended"}
    /\ cur \in Nat /\ over \in Nat /\ starts \in Nat /\ fees \in Nat
    /\ pending \in Seq(Handler)
    /\ Fits(players)
    /\ DOMAIN db = {"state", "over", "cur", "players"}
    /\ db["state"] \in {"PREPARE", "PLAYING", "DISTROY"}
    /\ db["over"] \in Nat /\ db["cur"] \in Nat
    /\ Fits(db["players"])
    /\ \A w \in writes : Row(w)

\* A room without players fits.
LEMMA FitsEmpty == Fits(<<>>)
BY RoomAssumption DEF Fits

\* room:addPlayer gives out a position nobody has
LEMMA FitsWith ==
  ASSUME NEW list, Fits(list), Len(list) < Seats, NEW u \in User
  PROVE  Fits(WithPlayer(list, u))
<1> DEFINE taken == {list[i].pos : i \in DOMAIN list}
           pos == CHOOSE p \in (1..Seats) \ taken : \A q \in (1..Seats) \ taken : p <= q
           e == [user |-> u, pos |-> pos, sit |-> FALSE]
<1>0. list \in Seq(Player) /\ Seats \in Nat
  BY RoomAssumption DEF Fits
<1>1. (1..Seats) \ taken # {}
  BY <1>0, FreePosition DEF Player
<1>2. \E p \in (1..Seats) \ taken : \A q \in (1..Seats) \ taken : p <= q
  <2>1. (1..Seats) \ taken \in SUBSET Nat
    BY <1>0
  <2> QED
    BY <1>1, <2>1, Least
<1>3. pos \in (1..Seats) \ taken
  BY <1>2
<1> HIDE DEF pos
<1>4. e \in Player /\ e.user = u /\ e.pos = pos
  BY <1>3, <1>0 DEF Player
<1>5. \A i \in DOMAIN list : list[i].pos # pos
  BY <1>3
<1> HIDE DEF e
<1>6. Append(list, e) \in Seq(Player) /\ Len(Append(list, e)) = Len(list) + 1
  BY <1>0, <1>4
<1>7. \A i \in DOMAIN Append(list, e) : (i \in DOMAIN list /\ Append(list, e)[i] = list[i]) \/ Append(list, e)[i] = e
  BY <1>0, <1>4
<1>8. Fits(Append(list, e))
  BY <1>0, <1>4, <1>5, <1>6, <1>7 DEF Fits
<1>9. WithPlayer(list, u) = Append(list, e)
  BY DEF WithPlayer, e, pos
<1> QED
  BY <1>8, <1>9

\* A player who leaves does not disturb the others.
LEMMA FitsRemove ==
  ASSUME NEW list, Fits(list), NEW k \in DOMAIN list
  PROVE  Fits(RemoveAt(list, k))
<1>0. list \in Seq(Player) /\ Seats \in Nat /\ k \in 1..Len(list) /\ DOMAIN list = 1..Len(list)
  BY SMTT(40), RoomAssumption DEF Fits
<1> DEFINE r == RemoveAt(list, k)
<1>1. /\ r \in Seq(Player) /\ Len(r) = Len(list) - 1
      /\ \A i \in DOMAIN r : r[i] = IF i < k THEN list[i] ELSE list[i + 1]
  BY <1>0, RemoveAtProperties
<1> HIDE DEF r
<1>2. \A i \in DOMAIN r : \E j \in DOMAIN list : r[i] = list[j]
  <2>1. DOMAIN r = 1..(Len(list) - 1)
    BY <1>1
  <2> TAKE i \in DOMAIN r
  <2>2. i \in DOMAIN list /\ i + 1 \in DOMAIN list
    BY <2>1, <1>0
  <2> QED
    BY <2>2, <1>1
<1>3. Len(r) <= Seats
  BY <1>0, <1>1 DEF Fits
<1>4. \A i, j \in DOMAIN r : r[i].user # r[j].user => r[i].pos # r[j].pos
  BY <1>2 DEF Fits
<1> QED
  BY <1>1, <1>3, <1>4 DEF Fits, r

\* room:getPlayerByUserId finds the user
LEMMA EntryFound ==
  ASSUME Fits(players), NEW u \in Users(players)
  PROVE  Entry(u) \in DOMAIN players /\ players[Entry(u)].user = u
<1>0. players \in Seq(Player) /\ DOMAIN players = 1..Len(players) /\ Len(players) \in Nat
  BY DEF Fits
<1> DEFINE own == {i \in DOMAIN players : players[i].user = u}
<1>1. own # {} /\ own \in SUBSET Nat
  BY <1>0 DEF Users
<1>2. PICK i \in own : \A j \in own : i <= j
  BY <1>1, Least
<1>3. i \in DOMAIN players /\ players[i].user = u /\ \A j \in 1..(i - 1) : players[j].user # u
  BY <1>0, <1>2
<1>4. \E k \in DOMAIN players : players[k].user = u /\ \A j \in 1..(k - 1) : players[j].user # u
  BY <1>3
<1> QED
  BY <1>4 DEF Entry

\* sit_down moves a player to a position that nobody else has.
LEMMA FitsSeated ==
  ASSUME NEW list, Fits(list), NEW k \in DOMAIN list, NEW pos \in 0..Seats,
         \A i \in DOMAIN list : list[i].pos = pos => list[i].user = list[k].user
  PROVE  Fits([list EXCEPT ![k] = [user |-> list[k].user, pos |-> pos, sit |-> TRUE]])
<1> DEFINE e == [user |-> list[k].user, pos |-> pos, sit |-> TRUE]
           new == [list EXCEPT ![k] = e]
<1>0. list \in Seq(Player) /\ Len(list) \in Nat /\ DOMAIN list = 1..Len(list)
  BY DEF Fits
<1>1. list[k] \in Player
  BY <1>0
<1>2. e \in Player /\ e.user = list[k].user /\ e.pos = pos
  BY <1>1 DEF Player
<1> HIDE DEF e
<1>3. new \in Seq(Player) /\ Len(new) = Len(list) /\ DOMAIN new = DOMAIN list
  BY <1>0, <1>2
<1>4. \A i \in DOMAIN list : new[i] = IF i = k THEN e ELSE list[i]
  BY <1>0
<1> HIDE DEF new
<1>5. \A i, j \in DOMAIN new : new[i].user # new[j].user => new[i].pos # new[j].pos
  BY <1>2, <1>3, <1>4 DEF Fits
<1> QED
  BY <1>3, <1>5 DEF Fits, e, new

\* The end of a round lets the players stand up and leaves them their positions.
LEMMA FitsStood ==
  ASSUME NEW list, Fits(list)
  PROVE  Fits([i \in DOMAIN list |-> [list[i] EXCEPT !.sit = FALSE]])
<1> DEFINE new == [i \in DOMAIN list |-> [list[i] EXCEPT !.sit = FALSE]]
<1>0. list \in Seq(Player) /\ Len(list) \in Nat /\ DOMAIN list = 1..Len(list)
  BY DEF Fits
<1>1. ASSUME NEW i \in DOMAIN list
      PROVE  new[i] \in Player /\ new[i].user = list[i].user /\ new[i].pos = list[i].pos
  <2>1. list[i] \in Player
    BY <1>0
  <2> QED
    BY <2>1 DEF Player
<1>2. DOMAIN new = 1..Len(list)
  BY <1>0
<1> HIDE DEF new
<1>3. new \in Seq(Player) /\ Len(new) = Len(list)
  <2>1. new = [i \in 1..Len(list) |-> new[i]]
    BY <1>2 DEF new
  <2>2. \A i \in 1..Len(list) : new[i] \in Player
    BY <1>0, <1>1
  <2> QED
    BY <2>1, <2>2, <1>0, <1>2
<1> QED
  BY <1>0, <1>1, <1>2, <1>3 DEF Fits, new

\* Every write of the room is one that a recovery may see.
LEMMA RowKinds ==
  /\ \A list : Fits(list) => Row(PlayersRow(list))
  /\ Row([state |-> "DISTROY"])
  /\ \A o \in Nat : Row([state |-> "PLAYING", over |-> o, cur |-> 1])
  /\ \A o \in Nat \ {0}, c \in Nat : Row([over |-> o, cur |-> c])
  /\ \A o : Row([fee |-> o])
<1>1. ASSUME NEW list, Fits(list) PROVE Row(PlayersRow(list))
  BY <1>1 DEF Row, PlayersRow
<1>2. Row([state |-> "DISTROY"])
  BY DEF Row
<1>3. ASSUME NEW o \in Nat PROVE Row([state |-> "PLAYING", over |-> o, cur |-> 1])
  BY DEF Row
<1>4. ASSUME NEW o \in Nat \ {0}, NEW c \in Nat PROVE Row([over |-> o, cur |-> c])
  BY DEF Row
<1>5. ASSUME NEW o PROVE Row([fee |-> o])
  BY DEF Row
<1> QED
  BY <1>1, <1>2, <1>3, <1>4, <1>5

\* Handlers that begin to wait, and end, are handlers.
LEMMA Handlers ==
  ASSUME NEW s \in Seq(Handler), NEW u \in User, NEW op \in {"join", "back", "return", "start", "restart", "distroy", "vote"}
  PROVE  /\ Append(s, Waiting(op, u)) \in Seq(Handler)
         /\ \A i \in DOMAIN s : RemoveAt(s, i) \in Seq(Handler)
<1>1. Waiting(op, u) \in Handler
  BY DEF Waiting, Handler
<1>2. Append(s, Waiting(op, u)) \in Seq(Handler)
  BY <1>1
<1> QED
  BY <1>2, RemoveAtProperties

\* room:distroy
LEMMA DistroyFits ==
  ASSUME RoomInv, NEW rounds \in Nat, NEW list, Fits(list), NEW rows, \A w \in rows : Row(w),
         NEW op \in {"distroy", "vote"}, Distroy(rounds, list, rows, op)
  PROVE  /\ state' = "DISTROY"
         /\ game' \in {"nil", "playing", "ended"}
         /\ pending' \in Seq(Handler)
         /\ Fits(players')
         /\ \A w \in writes' : Row(w)
<1>1. state' = "DISTROY" /\ \A w \in writes' : Row(w)
  BY RowKinds DEF Distroy, Save, RoomInv
<1>2. CASE rounds >= 1
  BY <1>1, <1>2, Handlers, RoomAssumption DEF Distroy, RoomInv
<1>3. CASE ~(rounds >= 1)
  BY <1>1, <1>3, FitsEmpty DEF Distroy, RoomInv
<1> QED
  BY <1>2, <1>3

\* A new room fits.
LEMMA RoomInit == Init => RoomInv
<1> SUFFICES ASSUME Init PROVE RoomInv
  OBVIOUS
<1>1. Fits(players)
  <2> DEFINE e == [user |-> Owner, pos |-> 1, sit |-> FALSE]
  <2>1. e \in Player /\ players = <<e>>
    BY RoomAssumption DEF Init, Player
  <2> HIDE DEF e
  <2>2. players \in Seq(Player) /\ Len(players) = 1 /\ DOMAIN players = {1}
    BY <2>1
  <2> QED
    BY <2>2, RoomAssumption DEF Fits
<1>2. pending \in Seq(Handler)
  BY DEF Init
<1>3. db = [state |-> "PREPARE", over |-> 0, cur |-> 0, players |-> <<>>] /\ writes = {}
  BY DEF Init
<1>4. /\ DOMAIN db = {"state", "over", "cur", "players"}
      /\ db["state"] = "PREPARE" /\ db["over"] = 0 /\ db["cur"] = 0 /\ db["players"] = <<>>
  BY <1>3
<1>5. Fits(db["players"])
  BY <1>4, FitsEmpty
<1> QED
  BY <1>1, <1>2, <1>3, <1>4, <1>5 DEF Init, RoomInv

\* what a request that neither plays nor saves leaves alone
seatvars == <<state, players, cur, over, game, starts, pending, db, writes, fees>>

\* A step that touches neither players, row nor writes keeps the invariant.
LEMMA RoomStutter ==
  ASSUME RoomInv, UNCHANGED seatvars
  PROVE  RoomInv'
BY DEF RoomInv, seatvars

\* leave_room keeps the players and the writes fitting.
LEMMA LeaveFits ==
  ASSUME RoomInv, NEW u \in User, LeaveRoom(u)
  PROVE  Fits(players') /\ \A w \in writes' : Row(w)
<1>1. Fits(players')
  <2>1. CASE u \in Users(players)
    <3>1. Entry(u) \in DOMAIN players
      BY <2>1, EntryFound DEF RoomInv
    <3> QED
      BY <2>1, <3>1, FitsRemove DEF LeaveRoom, RoomInv
  <2>2. CASE u \notin Users(players)
    BY <2>2 DEF LeaveRoom, RoomInv
  <2> QED
    BY <2>1, <2>2
<1> QED
  BY <1>1, RowKinds DEF LeaveRoom, Save, RoomInv

\* start_game writes the round and leaves the players alone.
LEMMA StartFits ==
  ASSUME RoomInv, NEW c \in Nat, NEW waiting \in Seq(Handler), NEW op \in {"start", "restart"}, NEW u \in User,
         StartGame(c, waiting, op, u)
  PROVE  /\ cur' \in Nat /\ state' = "PLAYING"
         /\ pending' \in Seq(Handler)
         /\ \A w \in writes' : Row(w)
<1>1. pending' \in Seq(Handler)
  BY Handlers DEF StartGame
<1>2. \A w \in writes' : Row(w)
  <2>1. Row([state |-> "PLAYING", over |-> over, cur |-> 1])
    BY RowKinds DEF RoomInv
  <2> QED
    BY <2>1 DEF StartGame, Save, RoomInv
<1> QED
  BY <1>1, <1>2 DEF StartGame

\* An agreement to dissolve keeps the players and the writes fitting, also when
\* it is the last.
LEMMA ConfirmFits ==
  ASSUME RoomInv, NEW u \in User, NEW op \in {"distroy", "vote"}, ConfirmYes(u, op)
  PROVE  /\ state' \in {"PREPARE", "PLAYING", "DISTROY"}
         /\ game' \in {"nil", "playing", "ended"}
         /\ pending' \in Seq(Handler)
         /\ Fits(players')
         /\ \A w \in writes' : Row(w)
<1>1. CASE Cardinality(Agreed((u :> TRUE) @@ confirm)) = Len(players)
  <2>1. Distroy(over, players, {}, op)
    BY <1>1 DEF ConfirmYes
  <2> QED
    BY <2>1, DistroyFits DEF RoomInv
<1>2. CASE Cardinality(Agreed((u :> TRUE) @@ confirm)) # Len(players)
  <2>1. UNCHANGED <<voting, state, players, game, pending, writes>>
    BY <1>2 DEF ConfirmYes
  <2> QED
    BY <2>1 DEF RoomInv
<1> QED
  BY <1>1, <1>2

\* Every request and timer keeps the invariant of the seats.
LEMMA RequestFits ==
  ASSUME RoomInv, Request
  PROVE  RoomInv'
<1>1. ASSUME NEW u \in User, Join(u) PROVE RoomInv'
  <2>1. pending' \in Seq(Handler)
    BY <1>1, Handlers DEF Join, RoomInv
  <2> QED
    BY <1>1, <2>1 DEF Join, storage, RoomInv
<1>2. ASSUME NEW u \in User, Leave(u) PROVE RoomInv'
  <2>1. Fits(players') /\ \A w \in writes' : Row(w)
    BY <1>2, LeaveFits DEF Leave
  <2> QED
    BY <1>2, <2>1 DEF Leave, RoomInv
<1>3. ASSUME NEW u \in User, Disconnect(u) PROVE RoomInv'
  <2>1. Fits(players') /\ \A w \in writes' : Row(w)
    <3>1. LeaveRoom(u) \/ UNCHANGED <<players, writes>>
      BY <1>3 DEF Disconnect
    <3> QED
      BY <3>1, LeaveFits DEF RoomInv
  <2> QED
    BY <1>3, <2>1 DEF Disconnect, RoomInv
<1>4. ASSUME NEW u \in User, AskDistroy(u) PROVE RoomInv'
  <2>1. UNCHANGED seatvars
    BY <1>4 DEF AskDistroy, storage, seatvars
  <2> QED
    BY <2>1, RoomStutter
<1>5. ASSUME NEW u \in User, Confirm(u) PROVE RoomInv'
  <2>1. ConfirmYes(u, "distroy")
    BY <1>5 DEF Confirm
  <2> QED
    BY <1>5, <2>1, ConfirmFits DEF Confirm, RoomInv
<1>6. ASSUME NEW u \in User, Refuse(u) PROVE RoomInv'
  <2>1. UNCHANGED seatvars
    BY <1>6 DEF Refuse, storage, seatvars
  <2> QED
    BY <2>1, RoomStutter
<1>7. ASSUME NEW u \in User, NEW pos \in 0..Seats, SitDown(u, pos) PROVE RoomInv'
  <2>1. Entry(u) \in DOMAIN players /\ players[Entry(u)].user = u
    BY <1>7, EntryFound DEF SitDown, RoomInv
  <2>2. Fits(players')
    BY <1>7, <2>1, FitsSeated DEF SitDown, RoomInv
  <2>3. \A w \in writes' : Row(w)
    BY <1>7, <2>2, RowKinds DEF SitDown, Save, RoomInv
  <2>4. starts' \in Nat
    BY <1>7 DEF SitDown, RoomInv
  <2> QED
    BY <1>7, <2>2, <2>3, <2>4 DEF SitDown, RoomInv
<1>8. ASSUME OwnerDistroy PROVE RoomInv'
  <2>1. Distroy(over, players, {}, "distroy")
    BY <1>8 DEF OwnerDistroy
  <2>2. /\ state' = "DISTROY" /\ game' \in {"nil", "playing", "ended"} /\ pending' \in Seq(Handler)
        /\ Fits(players') /\ \A w \in writes' : Row(w)
    BY <2>1, DistroyFits DEF RoomInv
  <2> QED
    BY <1>8, <2>2 DEF OwnerDistroy, RoomInv
<1> QED
  BY <1>1, <1>2, <1>3, <1>4, <1>5, <1>6, <1>7, <1>8 DEF Request

\* So does every handler that gets its answer from the database: a join checks
\* the seats then.
LEMMA AnswerFits ==
  ASSUME RoomInv, NEW i \in DOMAIN pending, JoinRoom(i) \/ StartDone(i) \/ DistroyDone(i) \/ Back(i) \/ Return(i)
  PROVE  RoomInv'
<1>0. pending[i] \in Handler /\ pending[i].user \in User
  <2>1. pending[i] \in Handler
    BY DEF RoomInv
  <2> QED
    BY <2>1 DEF Handler
<1>r. RemoveAt(pending, i) \in Seq(Handler)
  BY RemoveAtProperties DEF RoomInv
<1>1. ASSUME JoinRoom(i) PROVE RoomInv'
  <2>1. Fits(players')
    <3>1. CASE Len(players) < Seats
      BY <1>1, <3>1, <1>0, FitsWith DEF JoinRoom, RoomInv
    <3>2. CASE ~(Len(players) < Seats)
      BY <1>1, <3>2 DEF JoinRoom, RoomInv
    <3> QED
      BY <3>1, <3>2
  <2>2. pending' \in Seq(Handler)
    BY <1>1, <1>r DEF JoinRoom
  <2> QED
    BY <1>1, <2>1, <2>2 DEF JoinRoom, storage, RoomInv
<1>2. ASSUME StartDone(i) PROVE RoomInv'
  <2>1. \A w \in writes' : Row(w)
    BY <1>2, RowKinds DEF StartDone, Save, RoomInv
  <2>2. pending' \in Seq(Handler)
    BY <1>2, <1>r DEF StartDone
  <2> QED
    BY <1>2, <2>1, <2>2 DEF StartDone, RoomInv
<1>3. ASSUME DistroyDone(i) PROVE RoomInv'
  <2>1. Fits(players') /\ pending' \in Seq(Handler)
    BY <1>3, <1>r, FitsEmpty DEF DistroyDone
  <2> QED
    BY <1>3, <2>1 DEF DistroyDone, storage, RoomInv
<1>4. ASSUME Back(i) PROVE RoomInv'
  <2>1. pending' \in Seq(Handler)
    <3> DEFINE e == [pending[i] EXCEPT !.op = "return"]
    <3>1. e \in Handler
      BY <1>0 DEF Handler
    <3> HIDE DEF e
    <3>2. [pending EXCEPT ![i] = e] \in Seq(Handler)
      BY <3>1 DEF RoomInv
    <3>3. [pending EXCEPT ![i].op = "return"] = [pending EXCEPT ![i] = e]
      BY DEF e
    <3> QED
      BY <1>4, <1>r, <3>2, <3>3 DEF Back
  <2> QED
    BY <1>4, <2>1 DEF Back, storage, RoomInv
<1>5. ASSUME Return(i) PROVE RoomInv'
  <2>1. CASE StartGame(over, RemoveAt(pending, i), "restart", pending[i].user)
    <3>1. cur' \in Nat /\ state' = "PLAYING" /\ pending' \in Seq(Handler) /\ \A w \in writes' : Row(w)
      BY <1>0, <1>r, <2>1, StartFits DEF RoomInv
    <3> QED
      BY <1>5, <3>1 DEF Return, RoomInv
  <2>2. CASE cur' \in {cur, over} /\ pending' = RemoveAt(pending, i) /\ UNCHANGED <<state, writes>>
    <3>1. cur' \in Nat
      BY <2>2 DEF RoomInv
    <3> QED
      BY <1>5, <2>2, <3>1, <1>r DEF Return, RoomInv
  <2> QED
    BY <1>5, <2>1, <2>2 DEF Return
<1> QED
  BY <1>1, <1>2, <1>3, <1>4, <1>5

\* room:roundOver: what is kept of the players, and the row of the round
LEMMA RoundOverFits ==
  ASSUME RoomInv, RoundOver
  PROVE  RoomInv'
<1> DEFINE stood == [i \in DOMAIN players |-> [players[i] EXCEPT !.sit = FALSE]]
           rows == {[over |-> over', cur |-> cur], PlayersRow(stood)}
                     \cup (IF cur = 1 THEN {[fee |-> over]} ELSE {})
<1>1. Fits(stood)
  BY FitsStood DEF RoomInv
<1>2. over' = over + PerRound /\ over' \in Nat \ {0}
  BY RoomAssumption DEF RoundOver, RoomInv
<1>3. \A w \in rows : Row(w)
  <2>1. Row([over |-> over', cur |-> cur]) /\ Row(PlayersRow(stood)) /\ Row([fee |-> over])
    BY <1>1, <1>2, RowKinds DEF RoomInv
  <2> QED
    BY <2>1
<1>4. \/ Distroy(over', stood, rows, "distroy")
      \/ game' = "ended" /\ players' = stood /\ Save(rows) /\ UNCHANGED <<state, pending>>
  BY DEF RoundOver
<1>5. UNCHANGED <<up, cur, recovering, voting, confirm, starts, votes, auto, linked, db, fees>>
  BY DEF RoundOver
<1> HIDE DEF stood, rows
<1>6. /\ state' \in {"PREPARE", "PLAYING", "DISTROY"}
      /\ game' \in {"nil", "playing", "ended"}
      /\ pending' \in Seq(Handler)
      /\ Fits(players')
      /\ \A w \in writes' : Row(w)
  <2>1. CASE Distroy(over', stood, rows, "distroy")
    BY <1>1, <1>2, <1>3, <2>1, DistroyFits
  <2>2. CASE game' = "ended" /\ players' = stood /\ Save(rows) /\ UNCHANGED <<state, pending>>
    BY <1>1, <1>3, <2>2 DEF Save, RoomInv
  <2> QED
    BY <1>4, <2>1, <2>2
<1> QED
  BY <1>2, <1>5, <1>6 DEF RoomInv

\* A write that reaches the row leaves a row that fits, whatever it overtakes.
LEMMA WriteFits ==
  ASSUME RoomInv, NEW w \in writes, WriteDone(w)
  PROVE  RoomInv'
<1>0. Row(w) /\ \A v \in writes' : Row(v)
  BY DEF WriteDone, RoomInv
<1>1. CASE "fee" \in DOMAIN w
  BY <1>0, <1>1 DEF WriteDone, memory, RoomInv
<1>2. CASE "fee" \notin DOMAIN w
  <2>1. db' = Updated(db, w) /\ fees' = fees
    BY <1>2 DEF WriteDone
  <2>2. /\ DOMAIN db' = DOMAIN db
        /\ \A x \in DOMAIN db : db'[x] = IF x \in DOMAIN w THEN w[x] ELSE db[x]
    BY <2>1 DEF Updated
  <2>3. /\ "state" \in DOMAIN w => w["state"] \in {"PREPARE", "PLAYING", "DISTROY"}
        /\ "over" \in DOMAIN w => w["over"] \in Nat
        /\ "cur" \in DOMAIN w => w["cur"] \in Nat
        /\ "players" \in DOMAIN w => Fits(w["players"])
    BY <1>0 DEF Row
  <2>4. /\ db'["state"] \in {"PREPARE", "PLAYING", "DISTROY"}
        /\ db'["over"] \in Nat /\ db'["cur"] \in Nat
        /\ Fits(db'["players"])
        /\ DOMAIN db' = {"state", "over", "cur", "players"}
    BY <2>2, <2>3 DEF RoomInv
  <2>5. UNCHANGED <<state, players, cur, over, game, starts, pending>>
    BY DEF WriteDone, memory
  <2> QED
    BY <1>0, <2>1, <2>4, <2>5 DEF RoomInv
<1> QED
  BY <1>1, <1>2

\* Every step keeps the invariant of the seats.
LEMMA RoomStep == RoomInv /\ [Next]_roomvars => RoomInv'
<1> SUFFICES ASSUME RoomInv, [Next]_roomvars PROVE RoomInv'
  OBVIOUS
<1>1. CASE StartTimer
  <2>1. cur' \in Nat /\ state' = "PLAYING" /\ pending' \in Seq(Handler) /\ \A w \in writes' : Row(w)
    BY <1>1, StartFits, RoomAssumption DEF StartTimer, RoomInv
  <2> QED
    BY <1>1, <2>1 DEF StartTimer, RoomInv
<1>2. CASE VoteTimer
  <2>1. UNCHANGED seatvars
    BY <1>2 DEF VoteTimer, storage, seatvars
  <2> QED
    BY <2>1, RoomStutter
<1>3. ASSUME NEW u \in User, AutoConfirm(u) PROVE RoomInv'
  <2>1. (\E op \in {"distroy", "vote"} : ConfirmYes(u, op)) \/ UNCHANGED <<state, players, game, pending, writes>>
    BY <1>3 DEF AutoConfirm
  <2>2. /\ state' \in {"PREPARE", "PLAYING", "DISTROY"} /\ game' \in {"nil", "playing", "ended"}
        /\ pending' \in Seq(Handler) /\ Fits(players') /\ \A w \in writes' : Row(w)
    BY <2>1, ConfirmFits DEF RoomInv
  <2> QED
    BY <1>3, <2>2 DEF AutoConfirm, RoomInv
<1>4. CASE Expire
  <2>1. Distroy(over, players, {}, "distroy")
    BY <1>4 DEF Expire
  <2>2. /\ state' = "DISTROY" /\ game' \in {"nil", "playing", "ended"} /\ pending' \in Seq(Handler)
        /\ Fits(players') /\ \A w \in writes' : Row(w)
    BY <2>1, DistroyFits DEF RoomInv
  <2> QED
    BY <1>4, <2>2 DEF Expire, RoomInv
<1>5. CASE Crash
  BY <1>5 DEF Crash, memory, RoomInv
<1>6. CASE Recover
  BY <1>6 DEF Recover, storage, RoomInv
<1>7. CASE UNCHANGED roomvars
  BY <1>7 DEF roomvars, memory, storage, RoomInv
<1> QED
  BY <1>1, <1>2, <1>3, <1>4, <1>5, <1>6, <1>7, RequestFits, AnswerFits, RoundOverFits, WriteFits DEF Next, Answer

\* The players fit the seats, however joins, leaves and moves to another seat
\* interleave and whichever of the saved lists a crash leaves in the row.
THEOREM PlayersFit == Spec => []SeatsFit
<1>1. RoomInv => SeatsFit
  BY DEF RoomInv, Fits, SeatsFit
<1> QED
  BY <1>1, RoomInit, RoomStep, PTL DEF Spec

-----------------------------------------------------------------------------
(* The fee is charged once                                                 *)

\* the handlers that wait, and whether one of them starts a game
Ops(list) == {list[i].op : i \in DOMAIN list}

StartPending == Ops(pending) \cap {"start", "restart"} # {}

\* a write with the rounds in it, the one of the first round, the fees
OverRow(w) == "over" \in DOMAIN w

StateRow == \E w \in writes : "over" \in DOMAIN w /\ "state" \in DOMAIN w

FeeRows == {w \in writes : "fee" \in DOMAIN w}

Charged == fees >= 1 \/ FeeRows # {}

\* No write outlives the process; the row is never ahead of the room; a game
\* is only started out of "PREPARE".
Basics ==
    /\ up \in BOOLEAN /\ lost \in BOOLEAN /\ revived \in BOOLEAN
    /\ ~up => writes = {}
    /\ up => db["over"] <= over /\ \A w \in writes : OverRow(w) => w["over"] <= over
    /\ up /\ (game # "nil" \/ StartPending) => state # "PREPARE"

\* A room that has not begun has no rounds, in memory or in the row, or the
\* write of its first round is on its way.
Beginning ==
    /\ up /\ state = "PREPARE" => cur = 0 /\ over = 0
    /\ db["state"] = "PREPARE" =>
          \/ StateRow
          \/ db["cur"] = 0 /\ db["over"] = 0 /\ \A w \in writes : ~OverRow(w)
    /\ up /\ (game # "nil" \/ StartPending \/ state = "PLAYING") /\ db["state"] = "PREPARE" => StateRow
    /\ db["state"] = "PREPARE" /\ db["over"] = 0 => db["cur"] = 0

OneFee == fees <= 1 /\ (fees = 1 => FeeRows = {}) /\ \A v, w \in FeeRows : v = w

\* the fee was charged when round o ended: room and row know of that round, and
\* what they know of it and of later ones has a current round
Since(o) ==
    /\ up => over >= o /\ cur >= 1
    /\ ~up => db["over"] >= o
    /\ db["over"] >= o \/ \E w \in writes : OverRow(w) /\ w["over"] >= o
    /\ \A w \in writes : OverRow(w) /\ w["over"] >= o => w["cur"] >= 1
    /\ db["over"] >= o => db["cur"] >= 1

\* After the fee a game has a later round than the first, and is only started
\* when everybody sits.
AfterFee ==
    Charged =>
      /\ \E o \in Nat \ {0} : Since(o)
      /\ up /\ (game = "playing" \/ (state = "PLAYING" /\ StartPending)) => cur >= 2
      /\ up /\ state = "PLAYING" /\ (starts > 0 \/ StartPending) => SitNum(players) >= Seats

\* a handler waits in room:distroy
DistroyPending == Ops(pending) \cap {"distroy", "vote"} # {}

Ending == up /\ DistroyPending => state = "DISTROY"

FeeInv == Basics /\ (lost \/ revived \/ (Beginning /\ OneFee /\ AfterFee /\ Ending))

\* A new room has paid nothing.
LEMMA FeeInit == Init => FeeInv
<1> SUFFICES ASSUME Init PROVE FeeInv
  OBVIOUS
<1>1. /\ db["state"] = "PREPARE" /\ db["over"] = 0 /\ db["cur"] = 0
      /\ writes = {} /\ fees = 0 /\ game = "nil" /\ cur = 0 /\ over = 0 /\ up = TRUE /\ lost = FALSE /\ revived = FALSE
      /\ state = "PREPARE"
  BY DEF Init
<1>2. Ops(pending) = {}
  BY DEF Init, Ops
<1>3. ~Charged /\ ~StartPending /\ ~DistroyPending /\ FeeRows = {}
  BY <1>1, <1>2 DEF Charged, FeeRows, StartPending, DistroyPending
<1>4. Basics
  <2>1. up \in BOOLEAN /\ lost \in BOOLEAN /\ revived \in BOOLEAN
    BY <1>1
  <2>2. db["over"] <= over /\ \A w \in writes : OverRow(w) => w["over"] <= over
    BY <1>1
  <2>3. up
    BY <1>1
  <2> QED
    BY <1>1, <1>3, <2>1, <2>2, <2>3 DEF Basics
<1>5. Beginning
  BY <1>1, <1>3 DEF Beginning
<1>6. OneFee /\ AfterFee /\ Ending
  BY <1>1, <1>2, <1>3 DEF OneFee, AfterFee, Ending
<1> QED
  BY <1>4, <1>5, <1>6 DEF FeeInv

\* What a handler that begins to wait, or goes on, does to the kinds of those
\* that wait.
LEMMA OpsOf ==
  ASSUME NEW s \in Seq(Handler)
  PROVE  /\ \A op, u : Ops(Append(s, Waiting(op, u))) = Ops(s) \cup {op}
         /\ \A i \in DOMAIN s : Ops(RemoveAt(s, i)) \subseteq Ops(s)
         /\ \A i \in DOMAIN s : Ops([s EXCEPT ![i].op = "return"]) \subseteq Ops(s) \cup {"return"}
<1>1. ASSUME NEW op, NEW u PROVE Ops(Append(s, Waiting(op, u))) = Ops(s) \cup {op}
  <2> DEFINE h == Waiting(op, u)
  <2>1. h.op = op
    BY DEF Waiting
  <2> HIDE DEF h
  <2>2. /\ DOMAIN Append(s, h) = (DOMAIN s) \cup {Len(s) + 1}
        /\ \A k \in DOMAIN s : Append(s, h)[k] = s[k]
        /\ Append(s, h)[Len(s) + 1] = h
    OBVIOUS
  <2>3. Ops(Append(s, h)) = Ops(s) \cup {h.op}
    BY <2>2 DEF Ops
  <2> QED
    BY <2>1, <2>3 DEF h
<1>2. ASSUME NEW i \in DOMAIN s PROVE Ops(RemoveAt(s, i)) \subseteq Ops(s)
  <2> DEFINE r == RemoveAt(s, i)
  <2>1. /\ r \in Seq(Handler) /\ Len(r) = Len(s) - 1
        /\ \A k \in DOMAIN r : r[k] = IF k < i THEN s[k] ELSE s[k + 1]
    BY RemoveAtProperties
  <2> HIDE DEF r
  <2>2. \A k \in DOMAIN r : k \in DOMAIN s /\ k + 1 \in DOMAIN s
    BY <2>1
  <2> QED
    BY <2>1, <2>2 DEF Ops, r
<1>3. ASSUME NEW i \in DOMAIN s PROVE Ops([s EXCEPT ![i].op = "return"]) \subseteq Ops(s) \cup {"return"}
  <2>1. s[i] \in Handler
    OBVIOUS
  <2>2. [s[i] EXCEPT !.op = "return"].op = "return"
    BY <2>1 DEF Handler
  <2> DEFINE n == [s EXCEPT ![i].op = "return"]
  <2>3. DOMAIN n = DOMAIN s /\ \A k \in DOMAIN s : n[k] = IF k = i THEN [s[i] EXCEPT !.op = "return"] ELSE s[k]
    OBVIOUS
  <2> HIDE DEF n
  <2> QED
    BY <2>2, <2>3 DEF Ops, n
<1> QED
  BY <1>1, <1>2, <1>3

\* rows that say nothing of rounds or fees
Plain(w) == "over" \notin DOMAIN w /\ "fee" \notin DOMAIN w

\* A step that starts no game, ends no round, and perhaps ends the room.
LEMMA QuietStep ==
  ASSUME FeeInv, RoomInv, up, up',
         UNCHANGED <<cur, over, db, fees, lost, revived>>,
         state' \in {state, "DISTROY"}, game' \in {game, "nil"},
         Ops(pending') \cap {"start", "restart"} \subseteq Ops(pending),
         DistroyPending' => state' = "DISTROY" \/ DistroyPending,
         writes \subseteq writes', \A w \in writes' \ writes : Plain(w),
         up' = up,
         state' = "PLAYING" /\ (starts' > 0 \/ StartPending') =>
            \/ SitNum(players') >= Seats
            \/ (starts > 0 \/ StartPending) /\ (SitNum(players) >= Seats => SitNum(players') >= Seats)
  PROVE  FeeInv'
<1>1. StartPending' => StartPending
  BY DEF StartPending
<1>2. /\ FeeRows' = FeeRows
      /\ \A w \in writes' : OverRow(w) => w \in writes
      /\ StateRow => StateRow'
      /\ Charged' = Charged
  <2>1. FeeRows' = FeeRows
    BY DEF FeeRows, Plain
  <2> QED
    BY <2>1 DEF OverRow, StateRow, Plain, Charged
<1>3. Basics'
  BY <1>1, <1>2 DEF FeeInv, Basics
<1>4. ASSUME Beginning, OneFee, AfterFee, Ending PROVE (Beginning /\ OneFee /\ AfterFee /\ Ending)'
  <2>1. Beginning'
    BY <1>1, <1>2, <1>4 DEF Beginning
  <2>2. OneFee'
    BY <1>2, <1>4 DEF OneFee
  <2>3. ASSUME NEW o \in Nat \ {0}, Since(o) PROVE Since(o)'
    BY <1>2, <2>3 DEF Since
  <2>4. AfterFee'
    BY <1>1, <1>2, <1>4, <2>3 DEF AfterFee
  <2>5. Ending'
    BY <1>4 DEF Ending
  <2> QED
    BY <2>1, <2>2, <2>4, <2>5
<1> QED
  BY <1>3, <1>4 DEF FeeInv

\* When nobody stands up, no fewer players sit.
LEMMA SitMore ==
  ASSUME NEW list \in Seq(Player), NEW new \in Seq(Player),
         \A i \in DOMAIN list : list[i].sit => i \in DOMAIN new /\ new[i].sit
  PROVE  SitNum(list) \in Nat /\ SitNum(new) \in Nat /\ SitNum(list) <= SitNum(new)
<1> DEFINE a == {i \in DOMAIN list : list[i].sit}
           b == {i \in DOMAIN new : new[i].sit}
<1>1. a \subseteq b
  OBVIOUS
<1>2. IsFiniteSet(b) /\ IsFiniteSet(a)
  <2>1. IsFiniteSet(1..Len(new)) /\ IsFiniteSet(1..Len(list))
    BY UpTo
  <2>2. b \subseteq 1..Len(new) /\ a \subseteq 1..Len(list)
    OBVIOUS
  <2> QED
    BY <2>1, <2>2, FS_Subset
<1>3. Cardinality(a) <= Cardinality(b)
  BY <1>1, <1>2, FS_Subset
<1>4. Cardinality(a) \in Nat /\ Cardinality(b) \in Nat
  BY <1>2, FS_CardinalityType
<1> QED
  BY <1>3, <1>4 DEF SitNum

\* Rows of players and the end of a room say nothing of rounds and fee.
LEMMA PlainRows ==
  /\ \A list : Plain(PlayersRow(list))
  /\ Plain([state |-> "DISTROY"])
BY DEF Plain, PlayersRow

\* room:distroy outside of RoundOver
LEMMA DistroyFee ==
  ASSUME FeeInv, RoomInv, up, up' = up, NEW op \in {"distroy", "vote"}, Distroy(over, players, {}, op),
         UNCHANGED <<cur, over, starts, db, fees, lost, revived>>
  PROVE  FeeInv'
<1>1. state' = "DISTROY" /\ game' \in {game, "nil"}
  BY DEF Distroy
<1>2. writes \subseteq writes' /\ \A w \in writes' \ writes : Plain(w)
  BY PlainRows DEF Distroy, Save
<1>3. Ops(pending') \subseteq Ops(pending) \cup {op}
  <2>1. pending' = pending \/ pending' = Append(pending, Waiting(op, Owner))
    BY DEF Distroy
  <2>2. Ops(Append(pending, Waiting(op, Owner))) = Ops(pending) \cup {op}
    BY OpsOf DEF RoomInv
  <2> QED
    BY <2>1, <2>2
<1> QED
  BY <1>1, <1>2, <1>3, QuietStep DEF StartPending

\* An agreement to dissolve the room keeps the invariant of the fee.
LEMMA ConfirmFee ==
  ASSUME FeeInv, RoomInv, up, up' = up, NEW u, NEW op \in {"distroy", "vote"},
         ConfirmYes(u, op) \/ UNCHANGED <<state, players, game, pending, writes>>,
         UNCHANGED <<cur, over, starts, db, fees, lost, revived>>
  PROVE  FeeInv'
<1>1. CASE Distroy(over, players, {}, op)
  BY <1>1, DistroyFee
<1>2. CASE UNCHANGED <<state, players, game, pending, writes>>
  <2>1. StartPending' = StartPending /\ DistroyPending' = DistroyPending /\ SitNum(players') = SitNum(players)
    BY <1>2 DEF StartPending, DistroyPending
  <2> QED
    BY <1>2, <2>1, QuietStep
<1> QED
  BY <1>1, <1>2 DEF ConfirmYes

\* A player who leaves keeps the invariant of the fee.
LEMMA LeaveFee ==
  ASSUME FeeInv, RoomInv, up, up' = up, NEW u, LeaveRoom(u) \/ UNCHANGED <<players, writes>>,
         UNCHANGED <<state, cur, over, game, starts, pending, db, fees, lost, revived>>
  PROVE  FeeInv'
<1>1. StartPending' = StartPending /\ DistroyPending' = DistroyPending
  BY DEF StartPending, DistroyPending
<1>2. CASE LeaveRoom(u)
  <2>1. writes \subseteq writes' /\ \A w \in writes' \ writes : Plain(w)
    BY <1>2, PlainRows DEF LeaveRoom, Save
  <2>2. state' # "PLAYING"
    BY <1>2 DEF LeaveRoom
  <2> QED
    BY <1>1, <2>1, <2>2, QuietStep
<1>3. CASE UNCHANGED <<players, writes>>
  BY <1>1, <1>3, QuietStep
<1> QED
  BY <1>2, <1>3

\* Every request and timer keeps the invariant of the fee.
LEMMA RequestFee ==
  ASSUME FeeInv, RoomInv, Request
  PROVE  FeeInv'
<1>1. ASSUME NEW u \in User, Join(u) PROVE FeeInv'
  <2>1. /\ up /\ up' = up /\ state' = state /\ game' = game /\ players' = players /\ starts' = starts /\ writes' = writes
        /\ UNCHANGED <<cur, over, db, fees, lost, revived>>
        /\ \E op \in {"join", "back"} : pending' = Append(pending, Waiting(op, u))
    BY <1>1 DEF Join, Op, Ready, storage, history
  <2>2. Ops(pending') \subseteq Ops(pending) \cup {"join", "back"}
    BY <2>1, OpsOf DEF RoomInv
  <2>3. (StartPending' => StartPending) /\ (DistroyPending' => DistroyPending)
    BY <2>2 DEF StartPending, DistroyPending
  <2> QED
    BY <2>1, <2>2, <2>3, QuietStep
<1>2. ASSUME NEW u \in User, Leave(u) PROVE FeeInv'
  <2>1. /\ up /\ up' = up /\ LeaveRoom(u)
        /\ UNCHANGED <<state, cur, over, game, starts, pending, db, fees, lost, revived>>
    BY <1>2 DEF Leave, Op, Ready, history
  <2> QED
    BY <2>1, LeaveFee
<1>3. ASSUME NEW u \in User, Disconnect(u) PROVE FeeInv'
  <2>1. /\ up /\ up' = up /\ (LeaveRoom(u) \/ UNCHANGED <<players, writes>>)
        /\ UNCHANGED <<state, cur, over, game, starts, pending, db, fees, lost, revived>>
    BY <1>3 DEF Disconnect, Op, Ready, history
  <2> QED
    BY <2>1, LeaveFee
<1>4. ASSUME NEW u \in User, AskDistroy(u) \/ Refuse(u) PROVE FeeInv'
  <2>1. /\ up /\ up' = up /\ UNCHANGED <<players, writes>>
        /\ UNCHANGED <<state, cur, over, game, starts, pending, db, fees, lost, revived>>
    BY <1>4 DEF AskDistroy, Refuse, Op, Ready, storage, history
  <2> QED
    BY <2>1, LeaveFee
<1>5. ASSUME NEW u \in User, Confirm(u) PROVE FeeInv'
  <2>1. /\ up /\ up' = up /\ ConfirmYes(u, "distroy")
        /\ UNCHANGED <<cur, over, starts, db, fees, lost, revived>>
    BY <1>5 DEF Confirm, Op, Ready, history
  <2> QED
    BY <2>1, ConfirmFee
<1>6. ASSUME NEW u \in User, NEW pos \in 0..Seats, SitDown(u, pos) PROVE FeeInv'
  <2>1. /\ up /\ up' = up /\ UNCHANGED <<state, cur, over, game, pending, db, fees, lost, revived>>
        /\ writes' = writes \cup {PlayersRow(players')}
        /\ starts' = IF SitNum(players') = Seats THEN starts + 1 ELSE starts
        /\ players' = [players EXCEPT ![Entry(u)] = [user |-> u, pos |-> pos, sit |-> TRUE]]
    BY <1>6 DEF SitDown, Op, Ready, Save, history
  <2>2. RoomInv'
    BY RequestFits
  <2>3. SitNum(players) \in Nat /\ SitNum(players') \in Nat /\ SitNum(players) <= SitNum(players')
    <3>1. players \in Seq(Player) /\ players' \in Seq(Player)
      BY <2>2 DEF RoomInv, Fits
    <3>2. \A i \in DOMAIN players : players[i].sit => i \in DOMAIN players' /\ players'[i].sit
      BY <2>1
    <3> QED
      BY <3>1, <3>2, SitMore
  <2>4. writes \subseteq writes' /\ \A w \in writes' \ writes : Plain(w)
    BY <2>1, PlainRows
  <2>5. StartPending' = StartPending /\ DistroyPending' = DistroyPending
    BY <2>1 DEF StartPending, DistroyPending
  <2>6. starts' > 0 => SitNum(players') >= Seats \/ starts > 0
    BY <2>1, <2>3, RoomAssumption
  <2>7. SitNum(players) >= Seats => SitNum(players') >= Seats
    BY <2>3, RoomAssumption
  <2> QED
    BY <2>1, <2>4, <2>5, <2>6, <2>7, QuietStep
<1>7. ASSUME OwnerDistroy PROVE FeeInv'
  <2>1. /\ up /\ up' = up /\ Distroy(over, players, {}, "distroy") /\ UNCHANGED <<cur, over, starts, db, fees, lost, revived>>
    BY <1>7 DEF OwnerDistroy, Op, Ready, history
  <2> QED
    BY <2>1, DistroyFee
<1> QED
  BY <1>1, <1>2, <1>3, <1>4, <1>5, <1>6, <1>7 DEF Request

\* room:startGame up to its call of the database, by the timer of sit_down or
\* by back_room, which has counted the players who sit
LEMMA StartFee ==
  ASSUME FeeInv, RoomInv, up, up' = up,
         NEW c \in {cur, over}, NEW waiting \in Seq(Handler), NEW op \in {"start", "restart"}, NEW u,
         Ops(waiting) \subseteq Ops(pending),
         StartGame(c, waiting, op, u),
         c = over \/ starts > 0, SitNum(players) >= Seats \/ starts > 0,
         UNCHANGED <<players, over, game, db, fees, lost>>
  PROVE  FeeInv'
<1>1. /\ cur' = c + 1 /\ state' = "PLAYING"
      /\ revived' = (revived \/ state = "DISTROY")
      /\ writes' = writes \cup (IF cur' = 1 THEN {[state |-> "PLAYING", over |-> over, cur |-> 1]} ELSE {})
  BY DEF StartGame, Begins, Save
<1>2. Ops(pending') = Ops(waiting) \cup {op}
  BY OpsOf DEF StartGame
<1> DEFINE r == [state |-> "PLAYING", over |-> over, cur |-> 1]
<1>3. OverRow(r) /\ "state" \in DOMAIN r /\ "fee" \notin DOMAIN r /\ r["over"] = over /\ r["cur"] = 1
  BY DEF OverRow
<1> HIDE DEF r
<1>4. writes' = writes \cup (IF cur' = 1 THEN {r} ELSE {})
  BY <1>1 DEF r
<1>5. FeeRows' = FeeRows /\ Charged' = Charged
  <2>1. FeeRows' = FeeRows
    BY <1>3, <1>4 DEF FeeRows
  <2> QED
    BY <2>1 DEF Charged
<1>6. Basics'
  <2>1. \A w \in writes' : OverRow(w) => w["over"] <= over
    BY <1>3, <1>4 DEF FeeInv, Basics, RoomInv
  <2>2. revived' \in BOOLEAN
    BY <1>1
  <2> QED
    BY <1>1, <2>1, <2>2 DEF FeeInv, Basics
<1>7. ASSUME ~lost', ~revived' PROVE (Beginning /\ OneFee /\ AfterFee /\ Ending)'
  <2>1. state # "DISTROY" /\ Beginning /\ OneFee /\ AfterFee /\ Ending
    BY <1>1, <1>7 DEF FeeInv
  <2>2. state = "PREPARE" => cur' = 1
    BY <1>1, <2>1 DEF Beginning, RoomInv
  <2>3. db["state"] = "PREPARE" => StateRow'
    <3>1. CASE state = "PREPARE"
      BY <2>2, <3>1, <1>3, <1>4 DEF StateRow, OverRow
    <3>2. CASE state = "PLAYING"
      BY <3>2, <2>1, <1>4 DEF Beginning, StateRow
    <3> QED
      BY <3>1, <3>2, <2>1 DEF RoomInv
  <2>4. Beginning'
    BY <1>1, <2>1, <2>3 DEF Beginning
  <2>5. OneFee'
    BY <1>5, <2>1 DEF OneFee
  <2>6. ASSUME Charged PROVE AfterFee'
    <3>1. PICK o \in Nat \ {0} : Since(o)
      BY <2>1, <2>6 DEF AfterFee
    <3>2. over >= 1 /\ cur >= 1 /\ over \in Nat /\ cur \in Nat
      BY <3>1 DEF Since, RoomInv
    <3>3. cur' >= 2 /\ cur' >= 1 /\ writes' = writes
      BY <3>2, <1>1
    <3>4. Since(o)'
      BY <3>1, <3>3 DEF Since
    <3>5. state = "PLAYING"
      BY <3>2, <2>1 DEF Beginning, RoomInv
    <3>6. SitNum(players) >= Seats
      BY <3>5, <2>1, <2>6 DEF AfterFee
    <3> QED
      BY <3>3, <3>4, <3>6 DEF AfterFee
  <2>7. AfterFee'
    BY <2>6, <1>5 DEF AfterFee
  <2>8. Ending'
    BY <1>2, <2>1 DEF Ending, DistroyPending, RoomInv
  <2> QED
    BY <2>4, <2>5, <2>7, <2>8
<1> QED
  BY <1>6, <1>7 DEF FeeInv

\* ... and from there on
LEMMA StartDoneFee ==
  ASSUME FeeInv, RoomInv, NEW i \in DOMAIN pending, StartDone(i)
  PROVE  FeeInv'
<1>1. /\ up /\ up' = up /\ UNCHANGED <<state, players, cur, over, starts, db, fees, lost>>
      /\ game' = "playing"
      /\ revived' = (revived \/ state = "DISTROY")
      /\ pending' = RemoveAt(pending, i)
      /\ pending[i].op \in {"start", "restart"}
      /\ writes' = writes \/ writes' = writes \cup {PlayersRow(players)}
  BY DEF StartDone, Resumed, Ready, Begins, Save
<1>2. Ops(pending') \subseteq Ops(pending) /\ StartPending
  <2>1. Ops(RemoveAt(pending, i)) \subseteq Ops(pending)
    BY OpsOf DEF RoomInv
  <2> QED
    BY <2>1, <1>1 DEF Ops, StartPending
<1>3. writes \subseteq writes' /\ \A w \in writes' \ writes : Plain(w)
  BY <1>1, PlainRows
<1>4. /\ FeeRows' = FeeRows
      /\ \A w \in writes' : OverRow(w) => w \in writes
      /\ StateRow => StateRow'
  BY <1>3 DEF FeeRows, Plain, OverRow, StateRow
<1>5. Charged' = Charged
  BY <1>1, <1>4 DEF Charged
<1>6. Basics'
  <2>1. state # "PREPARE"
    BY <1>1, <1>2 DEF FeeInv, Basics
  <2>2. revived' \in BOOLEAN
    BY <1>1
  <2> QED
    BY <1>1, <1>4, <2>1, <2>2 DEF FeeInv, Basics
<1>7. ASSUME ~lost', ~revived' PROVE (Beginning /\ OneFee /\ AfterFee /\ Ending)'
  <2>1. state # "DISTROY" /\ Beginning /\ OneFee /\ AfterFee /\ Ending
    BY <1>1, <1>7 DEF FeeInv
  <2>2. state = "PLAYING"
    BY <2>1, <1>1, <1>2 DEF FeeInv, Basics, RoomInv
  <2>3. Beginning'
    BY <1>1, <1>2, <1>4, <2>1, <2>2 DEF Beginning
  <2>4. OneFee'
    BY <1>1, <1>4, <2>1 DEF OneFee
  <2>5. ASSUME NEW o \in Nat \ {0}, Since(o) PROVE Since(o)'
    BY <1>1, <1>3, <1>4, <2>5 DEF Since
  <2>6. AfterFee'
    BY <1>1, <1>2, <1>5, <2>1, <2>2, <2>5 DEF AfterFee
  <2>7. Ending'
    BY <1>1, <1>2, <2>1 DEF Ending, DistroyPending
  <2> QED
    BY <2>3, <2>4, <2>6, <2>7
<1> QED
  BY <1>6, <1>7 DEF FeeInv

\* back_room in a recovered room where somebody does not sit yet
LEMMA RewindFee ==
  ASSUME FeeInv, RoomInv, up, up' = up, cur' = over, game = "nil", SitNum(players) < Seats, SitNum(players) \in Nat,
         Ops(pending') \subseteq Ops(pending),
         UNCHANGED <<state, players, over, game, starts, db, writes, fees, lost, revived>>
  PROVE  FeeInv'
<1>1. FeeRows' = FeeRows /\ Charged' = Charged /\ (StartPending' => StartPending) /\ StateRow' = StateRow
  <2>1. FeeRows' = FeeRows
    BY DEF FeeRows
  <2> QED
    BY <2>1 DEF Charged, StartPending, StateRow
<1>2. Basics'
  BY <1>1 DEF FeeInv, Basics
<1>3. ASSUME Beginning, OneFee, AfterFee, Ending PROVE (Beginning /\ OneFee /\ AfterFee /\ Ending)'
  <2>1. Beginning'
    BY <1>1, <1>3 DEF Beginning
  <2>2. OneFee' /\ Ending'
    BY <1>1, <1>3 DEF OneFee, Ending, DistroyPending
  <2>3. ASSUME Charged PROVE AfterFee'
    <3>1. PICK o \in Nat \ {0} : Since(o)
      BY <1>3, <2>3 DEF AfterFee
    <3>2. Since(o)'
      BY <3>1 DEF Since, RoomInv
    <3>3. ~(state = "PLAYING" /\ (starts > 0 \/ StartPending))
      BY <1>3, <2>3, RoomAssumption DEF AfterFee
    <3> QED
      BY <1>1, <3>2, <3>3 DEF AfterFee
  <2>4. AfterFee'
    BY <2>3, <1>1 DEF AfterFee
  <2> QED
    BY <2>1, <2>2, <2>4
<1> QED
  BY <1>2, <1>3 DEF FeeInv

\* So does every handler that gets its answer from the database.
LEMMA AnswerFee ==
  ASSUME FeeInv, RoomInv, NEW i \in DOMAIN pending, JoinRoom(i) \/ StartDone(i) \/ DistroyDone(i) \/ Back(i) \/ Return(i)
  PROVE  FeeInv'
<1>0. /\ Ops(RemoveAt(pending, i)) \subseteq Ops(pending)
      /\ Ops([pending EXCEPT ![i].op = "return"]) \subseteq Ops(pending) \cup {"return"}
      /\ RemoveAt(pending, i) \in Seq(Handler)
  BY OpsOf, RemoveAtProperties DEF RoomInv
<1>t. players \in Seq(Player) /\ SitNum(players) \in Nat
  <2>1. players \in Seq(Player)
    BY DEF RoomInv, Fits
  <2> QED
    BY <2>1, SitMore
<1>1. ASSUME JoinRoom(i) PROVE FeeInv'
  <2>1. /\ up /\ up' = up /\ UNCHANGED <<state, cur, over, game, starts, db, writes, fees, lost, revived>>
        /\ pending' = RemoveAt(pending, i)
        /\ players' = IF Len(players) < Seats THEN WithPlayer(players, pending[i].user) ELSE players
    BY <1>1 DEF JoinRoom, Resumed, Ready, storage, history
  <2>2. Ops(pending') \subseteq Ops(pending) /\ (StartPending' => StartPending) /\ (DistroyPending' => DistroyPending)
    BY <1>0, <2>1 DEF StartPending, DistroyPending
  <2>3. SitNum(players) >= Seats => SitNum(players') >= Seats
    <3>1. players' \in Seq(Player)
      BY <1>1, AnswerFits DEF RoomInv, Fits
    <3>2. players' = players \/ \E e : players' = Append(players, e)
      BY <2>1 DEF WithPlayer
    <3>3. \A k \in DOMAIN players : k \in DOMAIN players' /\ players'[k] = players[k]
      BY <3>2, <1>t
    <3>4. SitNum(players) <= SitNum(players') /\ SitNum(players') \in Nat
      BY <3>1, <3>3, <1>t, SitMore
    <3> QED
      BY <3>4, <1>t, RoomAssumption
  <2> QED
    BY <2>1, <2>2, <2>3, QuietStep
<1>2. ASSUME DistroyDone(i) PROVE FeeInv'
  <2>1. /\ up /\ up' = up /\ UNCHANGED <<state, cur, over, game, starts, db, writes, fees, lost, revived>>
        /\ pending' = RemoveAt(pending, i) /\ pending[i].op \in {"distroy", "vote"}
    BY <1>2 DEF DistroyDone, Resumed, Ready, storage, history
  <2>2. Ops(pending') \subseteq Ops(pending) /\ (StartPending' => StartPending) /\ DistroyPending
    BY <1>0, <2>1 DEF StartPending, DistroyPending, Ops
  <2>3. CASE lost \/ revived
    <3>1. Basics'
      BY <2>1, <2>2 DEF FeeInv, Basics
    <3> QED
      BY <2>1, <2>3, <3>1 DEF FeeInv
  <2>4. CASE ~(lost \/ revived)
    <3>1. state' = "DISTROY"
      BY <2>1, <2>2, <2>4 DEF FeeInv, Ending
    <3> QED
      BY <2>1, <2>2, <3>1, QuietStep
  <2> QED
    BY <2>3, <2>4
<1>3. ASSUME Back(i) PROVE FeeInv'
  <2>1. /\ up /\ up' = up /\ UNCHANGED <<state, players, cur, over, game, starts, db, writes, fees, lost, revived>>
        /\ pending' = RemoveAt(pending, i) \/ pending' = [pending EXCEPT ![i].op = "return"]
    BY <1>3 DEF Back, Resumed, Ready, storage, history
  <2>2. Ops(pending') \subseteq Ops(pending) \cup {"return"}
    BY <1>0, <2>1
  <2>3. (StartPending' => StartPending) /\ (DistroyPending' => DistroyPending)
    BY <2>2 DEF StartPending, DistroyPending
  <2> QED
    BY <2>1, <2>2, <2>3, QuietStep
<1>4. ASSUME Return(i) PROVE FeeInv'
  <2>0. up /\ up' = up /\ UNCHANGED <<players, over, game, starts, db, fees, lost>>
    BY <1>4 DEF Return, Resumed, Ready
  <2>1. CASE /\ SitNum(players) >= Seats
             /\ StartGame(over, RemoveAt(pending, i), "restart", pending[i].user)
    BY <1>0, <2>0, <2>1, StartFee
  <2>2. CASE /\ game = "nil" /\ SitNum(players) < Seats /\ cur' = over /\ pending' = RemoveAt(pending, i)
             /\ UNCHANGED <<state, writes, revived>>
    BY <1>0, <1>t, <2>0, <2>2, RewindFee
  <2>3. CASE pending' = RemoveAt(pending, i) /\ UNCHANGED <<cur, state, writes, revived>>
    <3>1. (StartPending' => StartPending) /\ (DistroyPending' => DistroyPending)
      BY <1>0, <2>3 DEF StartPending, DistroyPending
    <3> QED
      BY <1>0, <2>0, <2>3, <3>1, QuietStep
  <2> QED
    BY <1>4, <2>1, <2>2, <2>3 DEF Return
<1> QED
  BY <1>1, <1>2, <1>3, <1>4, StartDoneFee

\* the fee is charged at the end of the first round, and there is one
LEMMA RoundOverFee ==
  ASSUME FeeInv, RoomInv, RoundOver
  PROVE  FeeInv'
<1> DEFINE stood == [k \in DOMAIN players |-> [players[k] EXCEPT !.sit = FALSE]]
           f == [fee |-> over]
           r == [over |-> over', cur |-> cur]
           d == [state |-> "DISTROY"]
<1>0. over' > over /\ over' \in Nat /\ over \in Nat /\ cur \in Nat
  BY RoomAssumption DEF RoundOver, RoomInv
<1>1. /\ up /\ up' = up /\ UNCHANGED <<cur, starts, db, fees, lost, revived>>
      /\ game = "playing" /\ Settled
  BY DEF RoundOver, Ready, history
<1>2. /\ game' # "playing" /\ state' \in {state, "DISTROY"}
      /\ pending' = pending \/ (state' = "DISTROY" /\ pending' = Append(pending, Waiting("distroy", Owner)))
      /\ \E more \in {{}, {d}} :
            writes' = writes \cup {r, PlayersRow(stood)} \cup (IF cur = 1 THEN {f} ELSE {}) \cup more
  <2>1. CASE Distroy(over', stood, {r, PlayersRow(stood)} \cup (IF cur = 1 THEN {f} ELSE {}), "distroy")
    <3>1. game' = "nil"
      BY <2>1, <1>0 DEF Distroy
    <3>2. pending' = Append(pending, Waiting("distroy", Owner)) /\ state' = "DISTROY"
      BY <2>1, <1>0 DEF Distroy
    <3>3. writes' = writes \cup {r, PlayersRow(stood)} \cup (IF cur = 1 THEN {f} ELSE {}) \cup {d}
      BY <2>1 DEF Distroy, Save
    <3> QED
      BY <3>1, <3>2, <3>3
  <2>2. CASE /\ game' = "ended" /\ UNCHANGED <<state, pending>>
             /\ Save({r, PlayersRow(stood)} \cup (IF cur = 1 THEN {f} ELSE {}))
    <3>1. writes' = writes \cup {r, PlayersRow(stood)} \cup (IF cur = 1 THEN {f} ELSE {}) \cup {}
      BY <2>2 DEF Save
    <3> QED
      BY <2>2, <3>1
  <2> QED
    BY <2>1, <2>2 DEF RoundOver
<1>3. Ops(pending') \subseteq Ops(pending) \cup {"distroy"} /\ (DistroyPending' => state' = "DISTROY" \/ DistroyPending)
  <2>1. Ops(Append(pending, Waiting("distroy", Owner))) = Ops(pending) \cup {"distroy"}
    BY OpsOf DEF RoomInv
  <2> QED
    BY <1>2, <2>1 DEF DistroyPending
<1>4. starts = 0 /\ ~StartPending /\ ~StartPending'
  BY <1>1, <1>3 DEF Settled, StartPending, Ops
<1>5. /\ OverRow(r) /\ "fee" \notin DOMAIN r /\ "state" \notin DOMAIN r /\ r["over"] = over' /\ r["cur"] = cur
      /\ ~OverRow(f) /\ "fee" \in DOMAIN f
      /\ ~OverRow(d) /\ "fee" \notin DOMAIN d
      /\ ~OverRow(PlayersRow(stood)) /\ "fee" \notin DOMAIN PlayersRow(stood)
  BY DEF OverRow, PlayersRow
<1> DEFINE q == PlayersRow(stood)
<1> HIDE DEF r, f, d, q, stood
<1>6. /\ writes \subseteq writes' /\ r \in writes'
      /\ \A w \in writes' \ writes : w \in {r, f, d, q} /\ (w = f => cur = 1)
      /\ cur = 1 => f \in writes'
  BY <1>2, <1>5 DEF q
<1>7. /\ \A w \in writes' : OverRow(w) => w \in writes \/ w = r
      /\ StateRow => StateRow'
      /\ FeeRows' = IF cur = 1 THEN FeeRows \cup {f} ELSE FeeRows
  <2>1. \A w \in writes' : OverRow(w) => w \in writes \/ w = r
    BY <1>5, <1>6 DEF q
  <2>2. StateRow => StateRow'
    BY <1>6 DEF StateRow
  <2>3. FeeRows' = IF cur = 1 THEN FeeRows \cup {f} ELSE FeeRows
    <3>1. CASE cur = 1
      BY <3>1, <1>5, <1>6 DEF FeeRows, q
    <3>2. CASE cur # 1
      BY <3>2, <1>5, <1>6 DEF FeeRows, q
    <3> QED
      BY <3>1, <3>2
  <2> QED
    BY <2>1, <2>2, <2>3
<1>8. Basics'
  <2>1. state # "PREPARE"
    BY <1>1 DEF FeeInv, Basics
  <2>2. db["over"] <= over' /\ \A w \in writes : OverRow(w) => w["over"] <= over'
    <3>1. ASSUME NEW w \in writes, OverRow(w) PROVE w["over"] \in Nat
      BY <3>1 DEF RoomInv, Row, OverRow
    <3> QED
      BY <3>1, <1>0, <1>1 DEF FeeInv, Basics, RoomInv
  <2>3. \A w \in writes' : OverRow(w) => w["over"] <= over'
    BY <1>0, <1>5, <1>7, <2>2
  <2>4. up' \in BOOLEAN /\ lost' \in BOOLEAN /\ revived' \in BOOLEAN /\ up'
    BY <1>1 DEF FeeInv, Basics
  <2>5. state' # "PREPARE" /\ db' = db
    BY <2>1, <1>1, <1>2
  <2> QED
    BY <2>2, <2>3, <2>4, <2>5 DEF Basics
<1>9. ASSUME Beginning, OneFee, AfterFee, Ending PROVE (Beginning /\ OneFee /\ AfterFee /\ Ending)'
  <2>1. Beginning'
    <3>1. state' # "PREPARE"
      BY <1>1, <1>2 DEF FeeInv, Basics
    <3>2. db["state"] = "PREPARE" => StateRow
      BY <1>1, <1>9 DEF Beginning
    <3> QED
      BY <1>1, <1>7, <1>9, <3>1, <3>2 DEF Beginning
  <2>2. Ending'
    BY <1>1, <1>2, <1>3, <1>9 DEF Ending
  <2>3. CASE Charged
    <3>1. PICK o \in Nat \ {0} : Since(o)
      BY <1>9, <2>3 DEF AfterFee
    <3>2. cur >= 2 /\ cur # 1
      BY <1>0, <1>1, <1>9, <2>3 DEF AfterFee
    <3>3. OneFee' /\ Charged'
      BY <1>1, <1>7, <1>9, <3>2, <2>3 DEF OneFee, Charged
    <3>4. Since(o)'
      <4>1. over' >= o /\ cur' >= 1
        BY <3>1, <3>2, <1>0, <1>1 DEF Since
      <4>2. db["over"] >= o \/ \E w \in writes' : OverRow(w) /\ w["over"] >= o
        BY <3>1, <1>6 DEF Since
      <4>3. \A w \in writes' : OverRow(w) /\ w["over"] >= o => w["cur"] >= 1
        BY <3>1, <3>2, <1>0, <1>5, <1>7 DEF Since
      <4> QED
        BY <4>1, <4>2, <4>3, <3>1, <1>1 DEF Since
    <3> QED
      BY <2>1, <2>2, <3>3, <3>4, <1>1, <1>2, <1>4 DEF AfterFee
  <2>4. CASE ~Charged
    <3>1. fees = 0 /\ FeeRows = {}
      BY <2>4 DEF Charged, RoomInv
    <3>2. OneFee'
      BY <1>1, <1>7, <3>1 DEF OneFee
    <3>0. PICK o \in Nat \ {0} : o = over'
      BY <1>0
    <3>3. ASSUME Charged' PROVE Since(o)'
      <4>1. cur = 1
        BY <3>3, <3>1, <1>1, <1>7 DEF Charged
      <4>2. ~(db["over"] >= o)
        BY <3>0, <1>0, <1>1 DEF FeeInv, Basics, RoomInv
      <4>3. ASSUME NEW w \in writes, OverRow(w) PROVE ~(w["over"] >= o)
        <5>1. w["over"] \in Nat
          BY <4>3 DEF RoomInv, Row, OverRow
        <5> QED
          BY <5>1, <4>3, <3>0, <1>0, <1>1 DEF FeeInv, Basics
      <4>4. \A w \in writes' : OverRow(w) /\ w["over"] >= o => w["cur"] >= 1
        BY <4>1, <4>3, <1>5, <1>7
      <4>5. r \in writes' /\ OverRow(r) /\ r["over"] >= o
        BY <3>0, <1>0, <1>5, <1>6
      <4> QED
        BY <4>1, <4>2, <4>4, <4>5, <3>0, <1>0, <1>1 DEF Since
    <3>5. AfterFee'
      BY <3>0, <3>3, <1>1, <1>2, <1>4 DEF AfterFee
    <3> QED
      BY <2>1, <2>2, <3>2, <3>5
  <2> QED
    BY <2>3, <2>4
<1> QED
  BY <1>1, <1>8, <1>9 DEF FeeInv

\* a write is done: unless the end of a round is lost, the row only moves on
LEMMA WriteFee ==
  ASSUME FeeInv, RoomInv, NEW w \in writes, WriteDone(w)
  PROVE  FeeInv'
<1>0. /\ writes' = writes \ {w}
      /\ UNCHANGED <<up, state, players, cur, over, game, starts, pending, revived>>
      /\ StartPending' = StartPending
  BY DEF WriteDone, memory, StartPending
<1>u. up /\ up \in BOOLEAN
  BY DEF FeeInv, Basics
<1>r. Row(w) /\ \A v \in writes : OverRow(v) => v["over"] \in Nat /\ v["cur"] \in Nat
  BY DEF RoomInv, Row, OverRow
<1>1. CASE "fee" \in DOMAIN w
  <2>1. fees' = fees + 1 /\ db' = db /\ lost' = lost
    BY <1>1 DEF WriteDone
  <2>2. ~OverRow(w) /\ "state" \notin DOMAIN w
    BY <1>1, <1>r DEF OverRow, Row
  <2>3. (StateRow' = StateRow) /\ \A v \in writes : OverRow(v) => v \in writes'
    BY <1>0, <2>2 DEF StateRow, OverRow
  <2>4. Basics'
    BY <1>0, <2>1, <2>3 DEF FeeInv, Basics
  <2>5. ASSUME Beginning, OneFee, AfterFee, Ending PROVE (Beginning /\ OneFee /\ AfterFee /\ Ending)'
    <3>1. w \in FeeRows /\ Charged
      BY <1>1 DEF FeeRows, Charged
    <3>2. fees = 0 /\ FeeRows' = {}
      BY <3>1, <2>5, <1>0 DEF OneFee, FeeRows, RoomInv
    <3>3. OneFee' /\ Charged'
      BY <2>1, <3>2 DEF OneFee, Charged
    <3>4. Beginning' /\ Ending'
      BY <1>0, <2>1, <2>3, <2>5 DEF Beginning, Ending, DistroyPending
    <3>5. PICK o \in Nat \ {0} : Since(o)
      BY <3>1, <2>5 DEF AfterFee
    <3>6. Since(o)'
      BY <3>5, <1>0, <2>1, <2>3 DEF Since
    <3>7. AfterFee'
      BY <1>0, <3>1, <3>3, <3>6, <2>5 DEF AfterFee
    <3> QED
      BY <3>3, <3>4, <3>7
  <2> QED
    BY <1>0, <2>1, <2>4, <2>5 DEF FeeInv
<1>2. CASE "fee" \notin DOMAIN w
  <2>1. /\ db' = Updated(db, w) /\ fees' = fees
        /\ lost' = (lost \/ db'.over < db.over)
    BY <1>2 DEF WriteDone
  <2>2. /\ db'["state"] = IF "state" \in DOMAIN w THEN w["state"] ELSE db["state"]
        /\ db'["over"] = IF "over" \in DOMAIN w THEN w["over"] ELSE db["over"]
        /\ db'["cur"] = IF "cur" \in DOMAIN w THEN w["cur"] ELSE db["cur"]
    BY <2>1 DEF Updated, RoomInv
  <2>3. /\ "cur" \in DOMAIN w <=> OverRow(w)
        /\ "state" \in DOMAIN w => w["state"] # "PREPARE"
    BY <1>r, <1>2 DEF Row, OverRow
  <2>4. FeeRows' = FeeRows /\ Charged' = Charged
    <3>1. FeeRows' = FeeRows
      BY <1>0, <1>2 DEF FeeRows
    <3> QED
      BY <3>1, <2>1 DEF Charged
  <2>5. Basics'
    <3>1. db'["over"] <= over
      BY <2>2, <1>u, <1>r DEF FeeInv, Basics, OverRow
    <3>2. lost' \in BOOLEAN
      BY <2>1
    <3> QED
      BY <1>0, <3>1, <3>2 DEF FeeInv, Basics
  <2>6. ASSUME ~lost', ~revived' PROVE (Beginning /\ OneFee /\ AfterFee /\ Ending)'
    <3>0. Beginning /\ OneFee /\ AfterFee /\ Ending /\ ~(db'["over"] < db["over"])
      BY <2>1, <2>6, <1>0 DEF FeeInv
    <3>1. OneFee' /\ Ending'
      BY <1>0, <2>1, <2>4, <3>0 DEF OneFee, Ending, DistroyPending
    <3>2. Beginning'
      <4>1. ASSUME db'["state"] = "PREPARE", StateRow PROVE StateRow'
        BY <4>1, <1>0, <2>2, <2>3 DEF StateRow
      <4>2. db'["state"] = "PREPARE" => db["state"] = "PREPARE"
        BY <2>2, <2>3
      <4>3. ASSUME db'["state"] = "PREPARE", ~StateRow
            PROVE  db'["cur"] = 0 /\ db'["over"] = 0 /\ \A v \in writes' : ~OverRow(v)
        BY <4>2, <4>3, <1>0, <2>2, <2>3, <3>0 DEF Beginning, OverRow
      <4>4. ASSUME db'["state"] = "PREPARE", db'["over"] = 0 PROVE db'["cur"] = 0
        BY <4>2, <4>4, <1>r, <2>2, <2>3, <3>0 DEF Beginning, Row, OverRow
      <4> QED
        BY <1>0, <4>1, <4>2, <4>3, <4>4, <3>0 DEF Beginning
    <3>3. ASSUME NEW o \in Nat \ {0}, Since(o) PROVE Since(o)'
      <4>1. CASE OverRow(w) /\ w["over"] >= o
        BY <4>1, <3>3, <1>0, <1>u, <2>2, <2>3 DEF Since, OverRow
      <4>2. CASE OverRow(w) /\ ~(w["over"] >= o)
        <5>1. w["over"] \in Nat /\ db["over"] \in Nat /\ db'["over"] = w["over"]
          BY <4>2, <1>r, <2>2 DEF RoomInv, OverRow
        <5>2. ~(db["over"] >= o) /\ ~(db'["over"] >= o)
          BY <5>1, <4>2, <3>0
        <5>3. \E v \in writes' : OverRow(v) /\ v["over"] >= o
          BY <5>2, <4>2, <3>3, <1>0 DEF Since
        <5> QED
          BY <5>2, <5>3, <3>3, <1>0, <1>u DEF Since
      <4>3. CASE ~OverRow(w)
        <5>1. db'["over"] = db["over"] /\ db'["cur"] = db["cur"]
          BY <4>3, <2>2, <2>3 DEF OverRow
        <5> QED
          BY <4>3, <5>1, <3>3, <1>0, <1>u DEF Since
      <4> QED
        BY <4>1, <4>2, <4>3
    <3>4. AfterFee'
      BY <1>0, <2>4, <3>0, <3>3 DEF AfterFee
    <3> QED
      BY <3>1, <3>2, <3>4
  <2> QED
    BY <2>5, <2>6 DEF FeeInv
<1> QED
  BY <1>1, <1>2

\* A crash loses memory and writes; what the row still knows is enough.
LEMMA CrashFee ==
  ASSUME FeeInv, RoomInv, Crash
  PROVE  FeeInv'
<1>1. /\ up /\ up' = FALSE /\ writes' = {}
      /\ UNCHANGED <<state, players, cur, over, game, starts, pending, db, fees, revived>>
      /\ lost' = (lost \/ \E w \in writes : Forgets(w))
  BY DEF Crash, Op, Ready, memory
<1>2. FeeRows' = {} /\ (Charged' => Charged)
  BY <1>1 DEF FeeRows, Charged
<1>3. Basics'
  <2>1. lost' \in BOOLEAN /\ up' \in BOOLEAN
    BY <1>1
  <2> QED
    BY <1>1, <2>1 DEF FeeInv, Basics
<1>4. ASSUME ~lost', ~revived' PROVE (Beginning /\ OneFee /\ AfterFee /\ Ending)'
  <2>1. Beginning /\ OneFee /\ AfterFee /\ Ending /\ \A w \in writes : ~Forgets(w)
    BY <1>1, <1>4 DEF FeeInv
  <2>0. db["over"] \in Nat /\ \A w \in writes : OverRow(w) => w["over"] \in Nat
    BY DEF RoomInv, Row, OverRow
  <2>2. /\ StateRow => db["over"] = 0
        /\ \A w \in writes : OverRow(w) => w["over"] <= db["over"]
    BY <2>0, <2>1 DEF StateRow, OverRow, Forgets
  <2>3. Beginning'
    BY <1>1, <2>1, <2>2 DEF Beginning
  <2>4. OneFee' /\ Ending'
    BY <1>1, <1>2, <2>1 DEF OneFee, Ending
  <2>5. ASSUME NEW o \in Nat \ {0}, Since(o) PROVE Since(o)'
    <3>1. db["over"] >= o
      BY <2>0, <2>2, <2>5 DEF Since
    <3> QED
      BY <1>1, <2>5, <3>1 DEF Since
  <2>6. AfterFee'
    BY <1>1, <1>2, <2>1, <2>5 DEF AfterFee
  <2> QED
    BY <2>3, <2>4, <2>6
<1> QED
  BY <1>3, <1>4 DEF FeeInv

\* A recovery takes over what the row knows of rounds and fee.
LEMMA RecoverFee ==
  ASSUME FeeInv, RoomInv, Recover
  PROVE  FeeInv'
<1>1. /\ ~up /\ up' = TRUE /\ state' = db["state"] /\ cur' = db["cur"] /\ over' = db["over"]
      /\ game' = "nil" /\ starts' = 0 /\ pending' = <<>>
      /\ UNCHANGED <<db, writes, fees, lost, revived>>
  BY DEF Recover, storage, history
<1>2. writes = {} /\ Ops(pending') = {} /\ ~StartPending' /\ ~DistroyPending' /\ FeeRows = {} /\ FeeRows' = {} /\ Charged' = Charged
  <2>1. writes = {} /\ Ops(pending') = {}
    BY <1>1 DEF FeeInv, Basics, Ops
  <2>2. FeeRows = {} /\ FeeRows' = {}
    BY <2>1, <1>1 DEF FeeRows
  <2> QED
    BY <1>1, <2>1, <2>2 DEF StartPending, DistroyPending, Charged
<1>3. Basics'
  <2>1. up' \in BOOLEAN /\ lost' \in BOOLEAN /\ revived' \in BOOLEAN /\ up'
    BY <1>1 DEF FeeInv, Basics
  <2>2. db'["over"] <= over' /\ \A w \in writes' : OverRow(w) => w["over"] <= over'
    BY <1>1, <1>2 DEF RoomInv
  <2> QED
    BY <1>1, <1>2, <2>1, <2>2 DEF Basics
<1>4. ASSUME Beginning, OneFee, AfterFee, Ending PROVE (Beginning /\ OneFee /\ AfterFee /\ Ending)'
  <2>1. ~StateRow
    BY <1>2 DEF StateRow
  <2>2. Beginning'
    BY <1>1, <1>2, <1>4, <2>1 DEF Beginning
  <2>3. OneFee' /\ Ending'
    BY <1>1, <1>2, <1>4 DEF OneFee, Ending
  <2>4. ASSUME NEW o \in Nat \ {0}, Since(o) PROVE Since(o)'
    BY <1>1, <1>2, <2>4 DEF Since
  <2>5. AfterFee'
    BY <1>1, <1>2, <1>4, <2>4 DEF AfterFee
  <2> QED
    BY <2>2, <2>3, <2>5
<1> QED
  BY <1>1, <1>3, <1>4 DEF FeeInv

\* Every step keeps the invariant of the fee.
LEMMA FeeStep == FeeInv /\ RoomInv /\ [Next]_roomvars => FeeInv'
<1> SUFFICES ASSUME FeeInv, RoomInv, [Next]_roomvars PROVE FeeInv'
  OBVIOUS
<1>1. CASE StartTimer
  <2>1. /\ up /\ up' = up /\ starts > 0 /\ StartGame(cur, pending, "start", Owner)
        /\ UNCHANGED <<players, over, game, db, fees, lost>>
    BY <1>1 DEF StartTimer, Ready
  <2> QED
    BY <2>1, StartFee DEF RoomInv
<1>2. CASE VoteTimer
  <2>1. /\ up /\ up' = up /\ UNCHANGED <<players, writes>>
        /\ UNCHANGED <<state, cur, over, game, starts, pending, db, fees, lost, revived>>
    BY <1>2 DEF VoteTimer, Ready, storage, history
  <2> QED
    BY <2>1, LeaveFee
<1>3. ASSUME NEW u \in User, AutoConfirm(u) PROVE FeeInv'
  <2>1. /\ up /\ up' = up
        /\ (\E op \in {"distroy", "vote"} : ConfirmYes(u, op)) \/ UNCHANGED <<state, players, game, pending, writes>>
        /\ UNCHANGED <<cur, over, starts, db, fees, lost, revived>>
    BY <1>3 DEF AutoConfirm, history
  <2> QED
    BY <2>1, ConfirmFee
<1>4. CASE Expire
  <2>1. /\ up /\ up' = up /\ Distroy(over, players, {}, "distroy") /\ UNCHANGED <<cur, over, starts, db, fees, lost, revived>>
    BY <1>4 DEF Expire, Op, Ready, history
  <2> QED
    BY <2>1, DistroyFee
<1>5. CASE UNCHANGED roomvars
  <2>1. UNCHANGED <<up, state, players, cur, over, game, starts, pending, db, writes, fees, lost, revived>>
    BY <1>5 DEF roomvars, memory, storage, history
  <2>2. /\ FeeRows' = FeeRows /\ Charged' = Charged /\ StartPending' = StartPending /\ StateRow' = StateRow
        /\ DistroyPending' = DistroyPending
        /\ \A o : Since(o)' = Since(o)
    BY <2>1 DEF FeeRows, Charged, StartPending, DistroyPending, StateRow, Since
  <2> QED
    BY <2>1, <2>2 DEF FeeInv, Basics, Beginning, OneFee, AfterFee, Ending
<1> QED
  BY <1>1, <1>2, <1>3, <1>4, <1>5, RequestFee, AnswerFee, RoundOverFee, WriteFee, CrashFee, RecoverFee DEF Next, Answer

\* The fee is charged once at most, through crashes, recoveries, rounds played
\* again and games started twice, as long as the row keeps the rounds that are
\* over and no game begins in a room that has ended.
THEOREM FeeChargedOnce == Spec => []FeeOnce
<1>1. FeeInv => FeeOnce
  BY DEF FeeInv, OneFee, FeeOnce
<1> QED
  BY <1>1, RoomInit, RoomStep, FeeInit, FeeStep, PTL DEF Spec
=============================================================================
