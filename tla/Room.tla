-------------------------------- MODULE Room --------------------------------
(***************************************************************************)
(* A room of the game server: service_center/room/init.lua and room.lua,   *)
(* what service_center/agent_manager/init.lua sends it, and the row of the *)
(* room in the database, from which it is recovered after a crash.         *)
(*                                                                         *)
(* Handlers run one at a time and give way where they wait for the         *)
(* database; what they still have to do is in pending.  Writes are sent    *)
(* and not waited for; service/mysql_pool spreads them over ten            *)
(* connections, so they arrive in any order.  The game itself (the cards)  *)
(* is left out: a round that was started ends at any time.                 *)
(***************************************************************************)
EXTENDS Integers, Sequences, FiniteSets, TLC, SequencesExt

CONSTANTS
    User,       \* the users
    Owner,      \* room.owner_id
    Seats,      \* room.seat_num
    Rounds,     \* room.round
    PerRound,   \* what the end of a round adds to over_round: 1, or 2 in room/2/game.lua
    MaxOps,     \* bound: requests, expiry and crashes
    MaxVotes,   \* bound: timers of votes at a time
    MaxWrites   \* bound: writes that are not done when a handler runs

ASSUME RoomAssumption ==
    /\ IsFiniteSet(User) /\ Owner \in User
    /\ Seats \in Nat \ {0} /\ Rounds \in Nat \ {0} /\ PerRound \in {1, 2}
    /\ MaxOps \in Nat /\ MaxVotes \in Nat /\ MaxWrites \in Nat

VARIABLES
    up,         \* the room service runs
    state,      \* room.state: "PREPARE", "PLAYING" or "DISTROY"
    players,    \* room.player_list: records of user, pos and sit
    cur,        \* room.cur_round
    over,       \* room.over_round
    game,       \* room.game: "nil", "playing", or "ended" when its round is over
    recovering, \* room.recover_state
    voting,     \* room.can_distroy
    confirm,    \* room.confirm_map: the users in it, and whether they agreed
    starts,     \* timers of sit_down that will start the game
    votes,      \* AUTO_CONFIRM timers
    auto,       \* the users an AUTO_CONFIRM timer is about to confirm
    pending,    \* handlers that wait for the database, in no order: records of op and user
    linked,     \* the users whose connection has info.room_id
    db,         \* the row of room_list: state, over, cur, players
    writes,     \* writes sent to mysql_pool that are not done
    fees,       \* how often the room fee was charged
    ops,        \* operations so far
    lost,       \* history: the row lost the end of a round, or the start after the end
    revived     \* history: a game began in a room that had ended

memory == <<state, players, cur, over, game, recovering, voting, confirm, starts, votes, auto, pending>>
history == <<lost, revived>>
storage == <<db, writes, fees, history>>
roomvars == <<up, memory, linked, storage, ops>>

\* CMD.create_room of the owner, when its writes are done
Init ==
    /\ up = TRUE
    /\ state = "PREPARE"
    /\ players = <<[user |-> Owner, pos |-> 1, sit |-> FALSE]>>
    /\ cur = 0 /\ over = 0
    /\ game = "nil" /\ recovering = FALSE
    /\ voting = FALSE /\ confirm = <<>>
    /\ starts = 0 /\ votes = 0 /\ auto = {}
    /\ pending = <<>>
    /\ linked = {Owner}
    /\ db = [state |-> "PREPARE", over |-> 0, cur |-> 0, players |-> <<>>]
    /\ writes = {}
    /\ fees = 0
    /\ ops = 0
    /\ lost = FALSE /\ revived = FALSE

\* the loop of an AUTO_CONFIRM timer has ended the room and waits in room:distroy
TimerWaits == \E i \in DOMAIN pending : pending[i].op = "vote"

\* No handler is in the middle of something.
Ready == up /\ (auto = {} \/ TimerWaits) /\ Cardinality(writes) <= MaxWrites

Op == Ready /\ ops < MaxOps /\ ops' = ops + 1

Users(list) == {list[i].user : i \in DOMAIN list}

\* the first of a user's entries: room:getPlayerByUserId
Entry(u) == CHOOSE i \in DOMAIN players : players[i].user = u /\ \A j \in 1..(i - 1) : players[j].user # u

\* skynet.send to mysql_pool
Save(rows) == writes' = writes \cup rows

PlayersRow(list) == [players |-> list]

\* room:getSitNums
SitNum(list) == Cardinality({i \in DOMAIN list : list[i].sit})

\* the database answers the handler pending[i], which goes on as op
Resumed(i, op) ==
    /\ Ready
    /\ i \in DOMAIN pending
    /\ pending[i].op = op

Waiting(op, u) == [op |-> op, user |-> u]

-----------------------------------------------------------------------------
(* Joining and leaving                                                     *)

\* The manager asks the database whether the user is in a game, and passes
\* the request on as join_room or as back_room.
Join(u) ==
    /\ Op
    /\ linked' = linked \cup {u}
    /\ \/ /\ u \notin Users(db.players) \/ db.state = "DISTROY"
          /\ pending' = Append(pending, Waiting("join", u))
       \/ /\ u \in Users(db.players) /\ db.state # "DISTROY"
          /\ pending' = Append(pending, Waiting("back", u))
    /\ UNCHANGED <<up, state, players, cur, over, game, recovering, voting, confirm, starts, votes, auto, storage>>

\* room:addPlayer: the lowest position nobody has
WithPlayer(list, u) ==
    LET taken == {list[i].pos : i \in DOMAIN list}
        pos == CHOOSE p \in (1..Seats) \ taken : \A q \in (1..Seats) \ taken : p <= q
    IN  Append(list, [user |-> u, pos |-> pos, sit |-> FALSE])

\* mutant: the seats are counted before the database is asked
JoinRoomUnchecked(i) ==
    /\ Resumed(i, "join")
    /\ pending' = RemoveAt(pending, i)
    /\ players' = IF Len(players) < Seats
                  THEN WithPlayer(players, pending[i].user)
                  ELSE Append(players, [user |-> pending[i].user, pos |-> Seats, sit |-> FALSE])
    /\ UNCHANGED <<up, state, cur, over, game, recovering, voting, confirm, starts, votes, auto, linked, storage, ops>>

\* join_room, when the database has answered
JoinRoom(i) ==
    /\ Resumed(i, "join")
    /\ pending' = RemoveAt(pending, i)
    /\ players' = IF Len(players) < Seats THEN WithPlayer(players, pending[i].user) ELSE players
    /\ UNCHANGED <<up, state, cur, over, game, recovering, voting, confirm, starts, votes, auto, linked, storage, ops>>

\* leave_room, of a user whose connection is in the room or has just closed
LeaveRoom(u) ==
    /\ state \in {"PREPARE", "DISTROY"}
    /\ players' = IF u \in Users(players) THEN RemoveAt(players, Entry(u)) ELSE players
    /\ Save({PlayersRow(players')})

Leave(u) ==
    /\ Op
    /\ u \in linked
    /\ LeaveRoom(u)
    /\ linked' = linked \ {u}
    /\ UNCHANGED <<up, state, cur, over, game, recovering, voting, confirm, starts, votes, auto, pending, db, fees,
                   history>>

\* SOCKET.close and CMD.disconnect: a player who does not sit leaves, before
\* the first round
Disconnect(u) ==
    /\ Op
    /\ u \in linked
    /\ linked' = linked \ {u}
    /\ IF u \in Users(players) /\ ~players[Entry(u)].sit /\ cur < 1 /\ state \in {"PREPARE", "DISTROY"}
       THEN LeaveRoom(u)
       ELSE UNCHANGED <<players, writes>>
    /\ UNCHANGED <<up, state, cur, over, game, recovering, voting, confirm, starts, votes, auto, pending, db, fees,
                   history>>

-----------------------------------------------------------------------------
(* Rounds                                                                  *)

\* CMD.sit_down of a player: the last one sets the timer that starts the game
SitDown(u, pos) ==
    /\ Op
    /\ u \in linked /\ u \in Users(players)
    /\ over # Rounds
    /\ ~players[Entry(u)].sit
    /\ \A i \in DOMAIN players : players[i].pos = pos => players[i].user = u
    /\ players' = [players EXCEPT ![Entry(u)] = [user |-> u, pos |-> pos, sit |-> TRUE]]
    /\ starts' = IF SitNum(players') = Seats THEN starts + 1 ELSE starts
    /\ Save({PlayersRow(players')})
    /\ UNCHANGED <<up, state, cur, over, game, recovering, voting, confirm, votes, auto, pending, linked, db, fees, history>>

\* a game is about to begin, or begins, although the room has ended
Begins == revived' = (revived \/ state = "DISTROY")

\* room:startGame up to its call of the database, counting from round c; the
\* handlers in waiting go on as they are, this one as op of user u
StartGame(c, waiting, op, u) ==
    /\ cur' = c + 1
    /\ state' = "PLAYING"
    /\ Begins
    /\ Save(IF cur' = 1 THEN {[state |-> "PLAYING", over |-> over, cur |-> 1]} ELSE {})
    /\ pending' = Append(waiting, Waiting(op, u))

StartTimer ==
    /\ Ready
    /\ starts > 0
    /\ starts' = starts - 1
    /\ StartGame(cur, pending, "start", Owner)
    /\ UNCHANGED <<up, players, over, game, recovering, voting, confirm, votes, auto, linked, db, fees, lost, ops>>

\* ... and from there on; back_room, when it started the game, also saves the players
StartDone(i) ==
    /\ \/ Resumed(i, "start") /\ UNCHANGED writes
       \/ Resumed(i, "restart") /\ Save({PlayersRow(players)})
    /\ pending' = RemoveAt(pending, i)
    /\ game' = "playing"
    /\ recovering' = FALSE
    /\ Begins
    /\ UNCHANGED <<up, state, players, cur, over, voting, confirm, starts, votes, auto, linked, db, fees, lost, ops>>

\* room:distroy after so many rounds, with the players in list and more rows to
\* save: before the first round's end it is done at once, afterwards it waits
\* for the database, as op, before it empties the room
Distroy(rounds, list, rows, op) ==
    /\ state' = "DISTROY"
    /\ Save(rows \cup {[state |-> "DISTROY"]})
    /\ IF rounds >= 1
       THEN game' = "nil" /\ players' = list /\ pending' = Append(pending, Waiting(op, Owner))
       ELSE UNCHANGED <<game, pending>> /\ players' = <<>>

DistroyDone(i) ==
    /\ \E op \in {"distroy", "vote"} : Resumed(i, op)
    /\ pending' = RemoveAt(pending, i)
    /\ players' = <<>>
    /\ UNCHANGED <<up, state, cur, over, game, recovering, voting, confirm, starts, votes, auto, linked, storage, ops>>

\* A round takes minutes: when it ends, the timers (10 ms) and the queries that
\* start a game are done.
Settled == starts = 0 /\ \A i \in DOMAIN pending : pending[i].op \notin {"start", "restart"}

\* mutant: the end of the round is not saved
RoundOverUnsaved ==
    /\ Ready
    /\ game = "playing" /\ players # <<>>
    /\ Settled
    /\ over' = over + PerRound
    /\ LET stood == [i \in DOMAIN players |-> [players[i] EXCEPT !.sit = FALSE]]
           rows == {PlayersRow(stood)} \cup (IF cur = 1 THEN {[fee |-> over]} ELSE {})
       IN  \/ over' >= Rounds /\ Distroy(over', stood, rows, "distroy")
           \/ over' < Rounds /\ game' = "ended" /\ players' = stood /\ Save(rows) /\ UNCHANGED <<state, pending>>
    /\ UNCHANGED <<up, cur, recovering, voting, confirm, starts, votes, auto, linked, db, fees, history, ops>>

\* room:roundOver, by a move of a player, with updatePlayerGold: the fee is due
\* at the end of the first round.  (room/2/game.lua counts the round itself as
\* well; where it then ends the room a second time, that is a step of Expire.)
RoundOver ==
    /\ Ready
    /\ game = "playing" /\ players # <<>>
    /\ Settled
    /\ over' = over + PerRound
    /\ LET stood == [i \in DOMAIN players |-> [players[i] EXCEPT !.sit = FALSE]]
           rows == {[over |-> over', cur |-> cur], PlayersRow(stood)}
                     \cup (IF cur = 1 THEN {[fee |-> over]} ELSE {})
       IN  \/ over' >= Rounds /\ Distroy(over', stood, rows, "distroy")
           \/ over' < Rounds /\ game' = "ended" /\ players' = stood /\ Save(rows) /\ UNCHANGED <<state, pending>>
    /\ UNCHANGED <<up, cur, recovering, voting, confirm, starts, votes, auto, linked, db, fees, history, ops>>

\* CMD.back_room finds the player ...
Back(i) ==
    /\ Resumed(i, "back")
    /\ pending' = IF pending[i].user \in Users(players)
                  THEN [pending EXCEPT ![i].op = "return"]
                  ELSE RemoveAt(pending, i)
    /\ UNCHANGED <<up, state, players, cur, over, game, recovering, voting, confirm, starts, votes, auto, linked,
                   storage, ops>>

\* ... and, when the database has answered, starts the interrupted round of a
\* recovered room again as soon as all players sit
Return(i) ==
    /\ Resumed(i, "return")
    /\ IF recovering /\ game = "nil"
       THEN \/ /\ SitNum(players) >= Seats
               /\ StartGame(over, RemoveAt(pending, i), "restart", pending[i].user)
            \/ /\ SitNum(players) < Seats
               /\ cur' = over
               /\ pending' = RemoveAt(pending, i)
               /\ UNCHANGED <<state, writes, revived>>
       ELSE pending' = RemoveAt(pending, i) /\ UNCHANGED <<cur, state, writes, revived>>
    /\ UNCHANGED <<up, players, over, game, recovering, voting, confirm, starts, votes, auto, linked, db, fees, lost,
                   ops>>

-----------------------------------------------------------------------------
(* Ending the room                                                         *)

\* CMD.distroy_room of the owner, outside of a game
OwnerDistroy ==
    /\ Op
    /\ Owner \in linked
    /\ game = "nil" \/ cur < 1
    /\ state = "PREPARE"
    /\ Distroy(over, players, {}, "distroy")
    /\ UNCHANGED <<up, cur, over, recovering, voting, confirm, starts, votes, auto, linked, db, fees, history>>

Agreed(map) == {u \in DOMAIN map : map[u]}

\* CMD.distroy_room of anybody else, or during a game: a vote.  The map of an
\* earlier vote is kept, and telling the players fails before the timer is set
\* when someone in it is no player.
AskDistroy(u) ==
    /\ Op
    /\ u \in linked
    /\ (game # "nil" /\ cur >= 1) \/ u # Owner
    /\ voting' = TRUE
    /\ confirm' = (u :> TRUE) @@ [v \in Users(players) |-> FALSE] @@ confirm
    /\ \/ /\ players = <<>> \/ Agreed(confirm') \subseteq Users(players)
          /\ votes < MaxVotes
          /\ votes' = votes + 1
       \/ /\ players # <<>> /\ ~(Agreed(confirm') \subseteq Users(players))
          /\ UNCHANGED votes
    /\ UNCHANGED <<up, state, players, cur, over, game, recovering, starts, auto, pending, linked, storage>>

\* CMD.confirm_distroy_room with confirm, while a vote is on: the room ends
\* when as many have agreed as there are players
ConfirmYes(u, op) ==
    LET map == (u :> TRUE) @@ confirm
    IN  IF Cardinality(Agreed(map)) = Len(players)
        THEN /\ voting' = FALSE
             /\ confirm' = <<>>
             /\ Distroy(over, players, {}, op)
        ELSE /\ confirm' = map
             /\ UNCHANGED <<voting, state, players, game, pending, writes>>

Confirm(u) ==
    /\ Op
    /\ u \in linked
    /\ voting
    /\ ConfirmYes(u, "distroy")
    /\ UNCHANGED <<up, cur, over, recovering, starts, votes, auto, linked, db, fees, history>>

\* ... and without: the vote is over.  (Naming a refuser who is no player fails.)
Refuse(u) ==
    /\ Op
    /\ u \in linked
    /\ voting
    /\ u \in Users(players) \/ players = <<>>
    /\ voting' = FALSE
    /\ confirm' = <<>>
    /\ UNCHANGED <<up, state, players, cur, over, game, recovering, starts, votes, auto, pending, linked, storage>>

\* the AUTO_CONFIRM timer of some vote: all who have not agreed to the vote
\* that is on now ...  (A second loop waits for the first.)
VoteTimer ==
    /\ Ready
    /\ votes > 0
    /\ votes' = votes - 1
    /\ IF state # "DISTROY" /\ voting
       THEN auto = {} /\ auto' = DOMAIN confirm \ Agreed(confirm)
       ELSE UNCHANGED auto
    /\ UNCHANGED <<up, state, players, cur, over, game, recovering, voting, confirm, starts, pending, linked, storage,
                   ops>>

\* ... are confirmed one by one, in a later vote too if one was begun while
\* room:distroy waited, until telling the players of someone who is none fails
AutoConfirm(u) ==
    /\ up /\ ~TimerWaits
    /\ u \in auto
    /\ IF voting
       THEN ConfirmYes(u, IF auto = {u} THEN "distroy" ELSE "vote")
       ELSE UNCHANGED <<voting, confirm, state, players, game, pending, writes>>
    /\ auto' = IF voting' /\ ~(Agreed(confirm') \subseteq Users(players)) THEN {} ELSE auto \ {u}
    /\ UNCHANGED <<up, cur, over, recovering, starts, votes, linked, db, fees, history, ops>>

\* checkExpireRoom and CMD.force_distroy
Expire ==
    /\ Op
    /\ Distroy(over, players, {}, "distroy")
    /\ UNCHANGED <<up, cur, over, recovering, voting, confirm, starts, votes, auto, linked, db, fees, history>>

-----------------------------------------------------------------------------
(* The database, crashes and recovery                                      *)

\* the row after an update of the columns in w
Updated(row, w) == [x \in DOMAIN row |-> IF x \in DOMAIN w THEN w[x] ELSE row[x]]

\* mysql_pool does one of the writes
WriteDone(w) ==
    /\ w \in writes
    /\ writes' = writes \ {w}
    /\ IF "fee" \in DOMAIN w
       THEN fees' = fees + 1 /\ UNCHANGED <<db, lost>>
       ELSE /\ db' = Updated(db, w)
            /\ lost' = (lost \/ db'.over < db.over)
            /\ UNCHANGED fees
    /\ UNCHANGED <<up, memory, linked, revived, ops>>

\* the row will not know of a round that is over, or not of the start of a game
\* of which it knows that a round is over
Forgets(w) ==
    /\ "over" \in DOMAIN w
    /\ w.over > db.over \/ ("state" \in DOMAIN w /\ db.over > 0)

\* the process dies
Crash ==
    /\ Op
    /\ up' = FALSE
    /\ writes' = {}
    /\ lost' = (lost \/ \E w \in writes : Forgets(w))
    /\ linked' = {}
    /\ UNCHANGED <<memory, db, fees, revived>>

\* recoverRoomList and room:recover, after the restart
Recover ==
    /\ ~up
    /\ up' = TRUE
    /\ state' = db.state /\ cur' = db.cur /\ over' = db.over /\ players' = db.players
    /\ game' = "nil" /\ recovering' = TRUE
    /\ voting' = FALSE /\ confirm' = <<>> /\ starts' = 0 /\ votes' = 0 /\ auto' = {} /\ pending' = <<>>
    /\ UNCHANGED <<linked, storage, ops>>

-----------------------------------------------------------------------------
Request ==
    \/ \E u \in User : Join(u) \/ Leave(u) \/ Disconnect(u) \/ AskDistroy(u) \/ Confirm(u) \/ Refuse(u)
    \/ \E u \in User, pos \in 0..Seats : SitDown(u, pos)
    \/ OwnerDistroy

Answer ==
    \E i \in DOMAIN pending : JoinRoom(i) \/ StartDone(i) \/ DistroyDone(i) \/ Back(i) \/ Return(i)

Next ==
    \/ Request \/ Answer
    \/ StartTimer \/ RoundOver \/ VoteTimer \/ (\E u \in User : AutoConfirm(u)) \/ Expire
    \/ (\E w \in writes : WriteDone(w)) \/ Crash \/ Recover

Spec == Init /\ [][Next]_roomvars

-----------------------------------------------------------------------------
(* Properties                                                              *)

TypeOK ==
    /\ up \in BOOLEAN /\ recovering \in BOOLEAN /\ voting \in BOOLEAN /\ lost \in BOOLEAN /\ revived \in BOOLEAN
    /\ state \in {"PREPARE", "PLAYING", "DISTROY"}
    /\ players \in Seq([user : User, pos : 0..Seats, sit : BOOLEAN])
    /\ cur \in Nat /\ over \in Nat /\ fees \in Nat /\ starts \in Nat
    /\ votes \in 0..MaxVotes /\ ops \in 0..MaxOps
    /\ game \in {"nil", "playing", "ended"}
    /\ auto \subseteq User /\ linked \subseteq User
    /\ DOMAIN confirm \subseteq User

\* However joins, which wait for the database, leaves and moves to another
\* seat interleave, the room never holds more players than seats, and no two
\* users have the same position; recovery from the row keeps that.
SeatsFit ==
    /\ Len(players) <= Seats
    /\ \A i, j \in DOMAIN players :
          players[i].user # players[j].user => players[i].pos # players[j].pos

\* The fee of a room is charged once at most, through crashes, recoveries,
\* rounds that are played again and games started twice, as long as the row
\* keeps the rounds that are over (no crash loses that write, or the write of
\* the start behind it, and no older write overtakes it) and no game begins in
\* a room that has ended (a timer of sit_down or a back_room that was under way
\* when the room was dissolved).
FeeOnce == fees <= 1 \/ lost \/ revived

\* A vote ends the room when everybody agrees: the step that ends it is the
\* agreement of the only player who had not agreed.
AllAgreed ==
    [][voting /\ ~voting' /\ state # "DISTROY" /\ state' = "DISTROY" =>
         Cardinality(Users(players) \ Agreed(confirm)) <= 1]_roomvars
=============================================================================
