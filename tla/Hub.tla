-------------------------------- MODULE Hub --------------------------------
(***************************************************************************)
(* Matchmaking, be/realtime/hub.go: the public queues, the private rooms   *)
(* that wait for players, the games under way, and which game each         *)
(* connection and each user belongs to.                                    *)
(*                                                                         *)
(* An action of a socket is one closure of the hub's goroutine, with every *)
(* call it makes.  A closure still in the channel is one whose sender has  *)
(* not acted yet.  The rooms run beside the hub: what it posts to a room   *)
(* waits in that room's event channel, and a room that ends its game       *)
(* releases its clients first and has the hub forget it later.             *)
(*                                                                         *)
(* Of a game only what the hub and its clients can see of it is kept: who  *)
(* sits where, on which socket, who is out, and whether it is over.        *)
(***************************************************************************)
EXTENDS Integers, FiniteSets, SequencesExt

CONSTANTS
  Users,
  Sockets,        \* the connections the users open
  Owner,          \* Owner[c]: the user who opens c
  Codes,          \* the codes of private rooms
  MinPlayers,     \* HubConfig.MinPlayers
  MaxPlayers,     \* HubConfig.MaxPlayers
  MaxRooms,       \* bound: games started and private rooms open
  EventsBound     \* capacity of a room's event channel

NoSocket == <<>>     \* p.client is nil

ASSUME HubAssumption ==
  /\ Owner \in [Sockets -> Users]
  /\ MinPlayers \in Nat /\ MaxPlayers \in Nat
  /\ 2 <= MinPlayers /\ MinPlayers <= MaxPlayers
  /\ MaxRooms \in Nat /\ EventsBound \in Nat
  /\ NoSocket \notin Sockets

Totals == MinPlayers .. MaxPlayers

NoRoom == 0

VARIABLES
  conn,     \* a socket is "new", "open" or "gone", as far as the hub knows
  room,     \* Client.room of every socket
  queues,   \* queues[total]: the sockets that wait for a game of that size
  pending,  \* the private rooms by code, each with its total and its members
  byUID,    \* byUID[u]: the game a new socket of u is bound to
  rooms     \* the games by number, in the order they were started

vars == <<conn, room, queues, pending, byUID, rooms>>

-----------------------------------------------------------------------------
(* Lookups.                                                                 *)
IsQueued(c) == \E t \in Totals : c \in Range(queues[t])

Holds(pr, u) == \E i \in DOMAIN pr.members : Owner[pr.members[i]] = u

(* The private rooms in which the user has a seat; which of several is      *)
(* found depends on the order in which Go walks the map.                    *)
PendingOfUID(u) == {k \in DOMAIN pending : Holds(pending[k], u)}

SeatOf(k, u) == SelectInSeq(pending[k].members, LAMBDA m : Owner[m] = u)

UsersOf(pr) == [i \in DOMAIN pr.members |-> Owner[pr.members[i]]]

HostOf(pr) == Owner[pr.members[1]]

Out(k) == Restrict(pending, DOMAIN pending \ {k})

Put(pend, k, pr) ==
  [j \in DOMAIN pend \cup {k} |-> IF j = k THEN pr ELSE pend[j]]

(* playerOf and playerForUID: the first seat on the socket or of the user,  *)
(* 0 if there is none.                                                      *)
PlayerOf(r, c) == SelectInSeq(rooms[r].players, LAMBDA p : p.client = c)
PlayerForUID(r, u) == SelectInSeq(rooms[r].players, LAMBDA p : p.uid = u)

(* The seats not out yet.                                                   *)
StillIn(rs, r) == {i \in DOMAIN rs[r].players : ~rs[r].players[i].out}

Uids(r) == {rooms[r].players[i].uid : i \in DOMAIN rooms[r].players}

-----------------------------------------------------------------------------
(* The queues after removeFromQueue(c): one entry goes, if there is any.    *)
WithoutQueued(c) ==
  IF IsQueued(c)
  THEN {[queues EXCEPT ![t] = RemoveFirst(@, c)] :
          t \in {t \in Totals : c \in Range(queues[t])}}
  ELSE {queues}

(* Broken: the earlier place is kept; the next member becomes the host.     *)
PendingKept(c) == {pending}
HostPassesOn(c) ==
  LET at == {k \in DOMAIN pending : c \in Range(pending[k].members)}
  IN  IF at = {} THEN {pending}
      ELSE {IF Len(pending[k].members) = 1 THEN Out(k)
            ELSE [pending EXCEPT ![k].members = RemoveFirst(@, c)] : k \in at}

(* The private rooms after removeFromPending(c): a room whose host leaves   *)
(* is disbanded.                                                            *)
WithoutPending(c) ==
  LET at == {k \in DOMAIN pending : c \in Range(pending[k].members)}
  IN  IF at = {} THEN {pending}
      ELSE {IF pending[k].members[1] = c THEN Out(k)
            ELSE [pending EXCEPT ![k].members = RemoveFirst(@, c)] : k \in at}

(* post: an event for a room whose game is over is dropped; a full channel  *)
(* keeps the sender waiting.                                                *)
Post(r, kind, c) ==
  \/ /\ rooms[r].status = "open" /\ Len(rooms[r].events) < EventsBound
     /\ rooms' = [rooms EXCEPT ![r].events =
                    Append(@, [kind |-> kind, client |-> c])]
  \/ rooms[r].status # "open" /\ UNCHANGED rooms

(* Broken: the game is entered under the number after its own.              *)
NextIdLate == Len(rooms) + 2

NextId == Len(rooms) + 1

WithinBound == Len(rooms') + Cardinality(DOMAIN pending') <= MaxRooms

(* startRoom with newRoom.                                                  *)
StartRoom(members) ==
  /\ rooms' = Append(rooms,
       [players |-> [i \in DOMAIN members |->
                       [uid |-> Owner[members[i]], client |-> members[i],
                        out |-> FALSE]],
        status |-> "open",
        events |-> <<>>])
  /\ room' = [c \in Sockets |->
                IF c \in Range(members) THEN NextId ELSE room[c]]
  /\ byUID' = [u \in Users |->
                 IF \E i \in DOMAIN members : Owner[members[i]] = u
                 THEN NextId ELSE byUID[u]]
  /\ WithinBound

NothingStarts == UNCHANGED <<room, byUID, rooms>>

(* Broken: a game starts one player late.                                   *)
FullLate(members, total) == Len(members) > total

Full(members, total) == Len(members) >= total

-----------------------------------------------------------------------------
Init ==
  /\ conn = [c \in Sockets |-> "new"]
  /\ room = [c \in Sockets |-> NoRoom]
  /\ queues = [t \in Totals |-> <<>>]
  /\ pending = [k \in {} |-> <<>>]
  /\ byUID = [u \in Users |-> NoRoom]
  /\ rooms = <<>>

(* Handle: a user's new socket is bound to the user's game or, if there is  *)
(* none, takes over the seat in a private room.                             *)
Connect(c) ==
  LET u == Owner[c]
  IN  /\ conn[c] = "new"
      /\ conn' = [conn EXCEPT ![c] = "open"]
      /\ UNCHANGED <<queues, byUID>>
      /\ \/ /\ byUID[u] # NoRoom
            /\ room' = [room EXCEPT ![c] = byUID[u]]
            /\ Post(byUID[u], "reconnect", c)
            /\ UNCHANGED pending
         \/ /\ byUID[u] = NoRoom
            /\ \E k \in PendingOfUID(u) :
                 pending' = [pending EXCEPT ![k].members[SeatOf(k, u)] = c]
            /\ UNCHANGED <<room, rooms>>
         \/ /\ byUID[u] = NoRoom /\ PendingOfUID(u) = {}
            /\ UNCHANGED <<pending, room, rooms>>

(* A request is served for a connected client that is in no game.           *)
MayWait(c) == conn[c] = "open" /\ room[c] = NoRoom

(* joinQueue: leaves a private room, but no other queue.                    *)
JoinQueue(c, total) ==
  /\ MayWait(c)
  /\ pending' \in WithoutPending(c)
  /\ UNCHANGED conn
  /\ \/ c \in Range(queues[total]) /\ UNCHANGED queues /\ NothingStarts
     \/ /\ c \notin Range(queues[total])
        /\ LET q == Append(queues[total], c)
           IN  \/ /\ Full(q, total)
                  /\ queues' = [queues EXCEPT ![total] =
                                  SubSeq(q, total + 1, Len(q))]
                  /\ StartRoom(SubSeq(q, 1, total))
               \/ /\ ~Full(q, total)
                  /\ queues' = [queues EXCEPT ![total] = q]
                  /\ NothingStarts

(* createRoom: leaves a queue and a private room and opens another.         *)
CreateRoom(c, total) ==
  /\ MayWait(c)
  /\ queues' \in WithoutQueued(c)
  /\ \E pend \in WithoutPending(c), k \in Codes :
       /\ k \notin DOMAIN pend
       /\ pending' = Put(pend, k, [total |-> total, members |-> <<c>>])
  /\ UNCHANGED conn /\ NothingStarts
  /\ WithinBound

(* joinRoom, for a code that is in use and a room that is not full.         *)
JoinRoom(c, k) ==
  /\ MayWait(c)
  /\ k \in DOMAIN pending
  /\ c \notin Range(pending[k].members)
  /\ Len(pending[k].members) < pending[k].total
  /\ queues' \in WithoutQueued(c)
  /\ UNCHANGED conn
  /\ \E pend \in WithoutPending(c) :
       LET members == Append(pend[k].members, c)
       IN  \/ /\ Full(members, pend[k].total)
              /\ pending' = Restrict(pend, DOMAIN pend \ {k})
              /\ StartRoom(members)
           \/ /\ ~Full(members, pend[k].total)
              /\ pending' = [pend EXCEPT ![k].members = members]
              /\ NothingStarts

(* leave: the first place found is given up.                                *)
Leave(c) ==
  /\ conn[c] = "open"
  /\ UNCHANGED <<conn, room, byUID>>
  /\ \/ /\ IsQueued(c)
        /\ queues' \in WithoutQueued(c)
        /\ UNCHANGED <<pending, rooms>>
     \/ /\ ~IsQueued(c) /\ pending \notin WithoutPending(c)
        /\ pending' \in WithoutPending(c)
        /\ UNCHANGED <<queues, rooms>>
     \/ /\ ~IsQueued(c) /\ pending \in WithoutPending(c)
        /\ room[c] # NoRoom
        /\ Post(room[c], "leave", c)
        /\ UNCHANGED <<queues, pending>>

(* Broken: a dropped connection gives up its place like a leaver, which is  *)
(* what an earlier version of disconnect did.                               *)
DisconnectAsLeave(c) ==
  /\ conn[c] = "open"
  /\ conn' = [conn EXCEPT ![c] = "gone"]
  /\ queues' \in WithoutQueued(c)
  /\ pending' \in WithoutPending(c)
  /\ NothingStarts

(* disconnect: a queued client is dropped, a seat in a private room is held *)
(* and a game is told.                                                      *)
Disconnect(c) ==
  LET waits == PendingOfUID(Owner[c]) # {}
  IN  /\ conn[c] = "open"
      /\ conn' = [conn EXCEPT ![c] = "gone"]
      /\ queues' \in WithoutQueued(c)
      /\ UNCHANGED <<room, pending, byUID>>
      /\ \/ /\ IsQueued(c) \/ waits \/ room[c] = NoRoom
            /\ UNCHANGED rooms
         \/ /\ ~IsQueued(c) /\ ~waits /\ room[c] # NoRoom
            /\ Post(room[c], "disconnect", c)

-----------------------------------------------------------------------------
(* The rooms.  rs are the rooms with what the handler has changed so far.   *)

(* A game that is over is asked for nothing but its users any more: the     *)
(* other fields of its seats are never read again and are blanked.          *)
Over(game) ==
  [players |-> [i \in DOMAIN game.players |->
                  [uid |-> game.players[i].uid, client |-> NoSocket,
                   out |-> FALSE]],
   status |-> "over",
   events |-> <<>>]

(* finishGame up to its call of closeRoom: the clients served are released. *)
Finish(rs, r) ==
  /\ rooms' = [rs EXCEPT ![r] = Over(@)]
  /\ room' = [c \in Sockets |->
                IF \E i \in DOMAIN rs[r].players : rs[r].players[i].client = c
                THEN NoRoom ELSE room[c]]

(* forfeit: whether the game is over at once depends on the cards, which    *)
(* are left out.  It may be over with several seats not out, for finished   *)
(* seats are among them, and may go on with one: a last seat that drops out *)
(* of a trick with cards on the table begins a pause, and the game ends     *)
(* after it.                                                                *)
Forfeit(rs, r, i) ==
  LET after == [rs EXCEPT ![r].players[i].out = TRUE]
  IN  \/ rooms' = after /\ UNCHANGED room
      \/ Finish(after, r)

HubIdle == UNCHANGED <<conn, queues, pending, byUID>>

(* run takes the next event the hub has posted.                             *)
HandleEvent(r) ==
  /\ rooms[r].status = "open" /\ rooms[r].events # <<>>
  /\ LET ev == Head(rooms[r].events)
         c  == ev.client
         p  == PlayerOf(r, c)
         q  == PlayerForUID(r, Owner[c])
         rs == [rooms EXCEPT ![r].events = Tail(@)]
     IN  \/ /\ ev.kind = "reconnect" /\ q \in StillIn(rooms, r)
            /\ rooms' = [rs EXCEPT ![r].players[q].client = c]
            /\ room' = [room EXCEPT ![c] = r]
         \/ /\ ev.kind = "reconnect" /\ q \notin StillIn(rooms, r)
            /\ rooms' = rs /\ UNCHANGED room
         \/ /\ ev.kind = "disconnect"
            /\ rooms' = IF p = 0 THEN rs
                        ELSE [rs EXCEPT ![r].players[p].client = NoSocket]
            /\ UNCHANGED room
         \/ /\ ev.kind = "leave" /\ p \in StillIn(rooms, r)
            /\ Forfeit(rs, r, p)
         \/ /\ ev.kind = "leave" /\ p \notin StillIn(rooms, r)
            /\ rooms' = rs /\ UNCHANGED room
  /\ HubIdle

Awaits(r, kinds, c) ==
  \E i \in DOMAIN rooms[r].events :
    rooms[r].events[i].kind \in kinds /\ rooms[r].events[i].client = c

(* onImHere, for the player who is prompted: the click was sent after the   *)
(* reconnect of its socket and before the disconnect.                       *)
ImHere(c) ==
  LET r == room[c]
      q == PlayerForUID(r, Owner[c])
      rs == [rooms EXCEPT ![r].players[q].client = c]
  IN  /\ r # NoRoom /\ rooms[r].status = "open"
      /\ conn[c] = "open" \/ Awaits(r, {"disconnect"}, c)
      /\ ~Awaits(r, {"reconnect"}, c)
      /\ q \in StillIn(rooms, r)
      /\ \/ rooms' = rs /\ UNCHANGED room
         \/ Forfeit(rs, r, q)
      /\ HubIdle

(* A seat is burned, or the last trick is played.                           *)
Burn(r) ==
  /\ rooms[r].status = "open"
  /\ \E i \in StillIn(rooms, r) : Forfeit(rooms, r, i)
  /\ HubIdle

PlayOut(r) == rooms[r].status = "open" /\ Finish(rooms, r) /\ HubIdle

(* Broken: the user's entry goes whatever game it names.                    *)
ReleasedAlways(r) ==
  [u \in Users |-> IF u \in Uids(r) THEN NoRoom ELSE byUID[u]]

Released(r) == [u \in Users |-> IF byUID[u] = r THEN NoRoom ELSE byUID[u]]

(* closeRoom: the hub forgets a game that is over.                          *)
CloseRoom(r) ==
  /\ rooms[r].status = "over"
  /\ rooms' = [rooms EXCEPT ![r].status = "closed"]
  /\ byUID' = Released(r)
  /\ UNCHANGED <<conn, room, queues, pending>>

Next ==
  \/ \E c \in Sockets :
       \/ Connect(c) \/ Disconnect(c) \/ Leave(c) \/ ImHere(c)
       \/ \E t \in Totals : JoinQueue(c, t) \/ CreateRoom(c, t)
       \/ \E k \in Codes : JoinRoom(c, k)
  \/ \E r \in DOMAIN rooms :
       HandleEvent(r) \/ Burn(r) \/ PlayOut(r) \/ CloseRoom(r)

Spec == Init /\ [][Next]_vars

-----------------------------------------------------------------------------
PendingRoom == [total : Totals, members : Seq(Sockets)]

PlayerType ==
  [uid : Users, client : Sockets \cup {NoSocket}, out : BOOLEAN]

EventType == [kind : {"reconnect", "leave", "disconnect"}, client : Sockets]

RoomType ==
  [players : Seq(PlayerType), status : {"open", "over", "closed"},
   events : Seq(EventType)]

(* Every variable keeps its type.                                           *)
TypeOK ==
  /\ conn \in [Sockets -> {"new", "open", "gone"}]
  /\ rooms \in Seq(RoomType)
  /\ room \in [Sockets -> 0 .. Len(rooms)]
  /\ byUID \in [Users -> 0 .. Len(rooms)]
  /\ queues \in [Totals -> Seq(Sockets)]
  /\ DOMAIN pending \subseteq Codes
  /\ pending \in [DOMAIN pending -> PendingRoom]

(* Nobody waits at a full table: after every closure each queue and each    *)
(* private room is short of at least one player, and a private room has its *)
(* host, whatever joins, disbandings and lost connections went before.      *)
WaitersFit ==
  /\ \A t \in Totals : Len(queues[t]) < t
  /\ \A k \in DOMAIN pending :
       Len(pending[k].members) \in 1 .. pending[k].total - 1

(* No list holds a connection twice, so no table is filled with one person  *)
(* for two, and a connection waits in one private room at most, also after  *)
(* it has taken over the seat of a lost one.  It may wait in several lists: *)
(* see OnePlaceAtATime.                                                     *)
WaitsOnce ==
  /\ \A t \in Totals : IsInjective(queues[t])
  /\ \A k \in DOMAIN pending : IsInjective(pending[k].members)
  /\ \A j, k \in DOMAIN pending :
       j # k => Range(pending[j].members) \cap Range(pending[k].members) = {}

(* The places of a connection: queues, private rooms and the game it is     *)
(* bound to.                                                                *)
QueuesOf(c) == {t \in Totals : c \in Range(queues[t])}
RoomsOf(c) == {k \in DOMAIN pending : c \in Range(pending[k].members)}

OnePlace(c) ==
  /\ \A s, t \in QueuesOf(c) : s = t
  /\ \A j, k \in RoomsOf(c) : j = k
  /\ QueuesOf(c) # {} => RoomsOf(c) = {} /\ room[c] = NoRoom
  /\ RoomsOf(c) # {} => room[c] = NoRoom

(* A reconnecting user is sent to the latest game the user was dealt into   *)
(* for as long as the hub knows it, and never to an older one or to one it  *)
(* has forgotten, also when an older game is closed after a newer one has   *)
(* begun.                                                                   *)
ByUIDIsLatest ==
  \A r \in DOMAIN rooms : \A u \in Uids(r) :
    (\A q \in r + 1 .. Len(rooms) : u \notin Uids(q))
      => byUID[u] = IF rooms[r].status = "closed" THEN NoRoom ELSE r

(* Connecting and losing a connection take no seat from anybody in a        *)
(* private room: the same users wait behind the same codes, in the same     *)
(* order.                                                                   *)
SeatsAreHeld ==
  [][conn' # conn =>
       /\ DOMAIN pending' = DOMAIN pending
       /\ \A k \in DOMAIN pending : UsersOf(pending[k])' = UsersOf(pending[k])]_vars

(* A code stands for the same host as long as it is in use: a private room  *)
(* is never taken over by another of its members.                           *)
HostStays ==
  [][\A k \in DOMAIN pending \cap DOMAIN pending' :
       HostOf(pending'[k]) = HostOf(pending[k])]_vars

(* Whoever has one place has one after every step, its own and those of     *)
(* others: a place asked for is had instead of the earlier one, nobody is   *)
(* queued and hosting, and a table that fills takes its players from where  *)
(* they waited.  One request is excepted, for what joinQueue does not do:   *)
(* a queued connection that asks for another size stays in the first queue  *)
(* (hub.go:118), and from then on may host, wait and play at once.          *)
OnePlaceAtATime ==
  [][\A c \in Sockets : OnePlace(c) =>
       \/ OnePlace(c)'
       \/ QueuesOf(c) # {} /\ \E t \in Totals \ QueuesOf(c) : JoinQueue(c, t)]_vars
=============================================================================
