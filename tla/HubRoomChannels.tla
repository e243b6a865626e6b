-------------------------- MODULE HubRoomChannels --------------------------
(***************************************************************************)
(* The channels between the hub and the rooms: Hub.cmds                    *)
(* (be/realtime/hub.go) and Room.events (be/realtime/room.go).  Both are   *)
(* bounded and a sender waits at a full one.  Hub and Room leave them out: *)
(* there a closure or an event that waits is one not yet sent.  This       *)
(* module has the channels and leaves out what the closures and the events *)
(* do, except that a closure of the hub may start a room or post to one,   *)
(* and that an event may end a game.                                       *)
(***************************************************************************)
EXTENDS Naturals, Sequences

CONSTANTS
  Rooms,       \* the games ever started
  CmdsBound,   \* capacity of Hub.cmds
  EventsBound  \* capacity of Room.events

VARIABLES
  cmds,    \* Hub.cmds: requests, and the rooms that sent their closeRoom
  hub,     \* the room that the closure the hub runs is posting to, if any
  events,  \* how many events are in Room.events
  room,    \* the room's goroutine: "none", it "runs", is in "closeRoom", or
           \* has "closed" quit
  held     \* the rooms that byUID leads to

vars == <<cmds, hub, events, room, held>>

Request == "request"
Free == "free"

-----------------------------------------------------------------------------
(* The room in post(): an event goes in, or nobody reads it any more.       *)
PostTo(r) ==
  \/ events[r] < EventsBound /\ events' = [events EXCEPT ![r] = @ + 1]
  \/ room[r] = "closed" /\ UNCHANGED events

(* do(): a read pump or Handle puts a closure into the channel.             *)
Do ==
  /\ Len(cmds) < CmdsBound
  /\ cmds' = Append(cmds, Request)
  /\ UNCHANGED <<hub, events, room, held>>

(* The hub runs a request that concerns lists alone, one that fills a room, *)
(* or one of a client that is bound to a room.                              *)
RunRequest ==
  /\ hub = Free
  /\ cmds # <<>> /\ Head(cmds) = Request
  /\ cmds' = Tail(cmds)
  /\ \/ UNCHANGED <<hub, room, held>>
     \/ \E r \in Rooms :
          /\ room[r] = "none"
          /\ room' = [room EXCEPT ![r] = "runs"]
          /\ held' = held \cup {r}
          /\ UNCHANGED hub
     \/ \E r \in Rooms :
          /\ room[r] # "none"
          /\ hub' = r
          /\ UNCHANGED <<room, held>>
  /\ UNCHANGED events

(* leave, disconnect or Handle gets its event into the channel.             *)
HubPosts ==
  /\ hub # Free
  /\ PostTo(hub)
  /\ hub' = Free
  /\ UNCHANGED <<cmds, room, held>>

(* The closure of closeRoom.                                                *)
RunCloseRoom ==
  /\ hub = Free
  /\ cmds # <<>> /\ Head(cmds) # Request
  /\ held' = held \ {Head(cmds)}
  /\ cmds' = Tail(cmds)
  /\ UNCHANGED <<hub, events, room>>

(* A read pump posts a play or a click, a timer its tick.                   *)
Post(r) ==
  /\ room[r] # "none"
  /\ PostTo(r)
  /\ UNCHANGED <<cmds, hub, room, held>>

(* run(): an event is handled; the game goes on, or finishGame is called.   *)
Handle(r) ==
  /\ room[r] = "runs" /\ events[r] > 0
  /\ events' = [events EXCEPT ![r] = @ - 1]
  /\ room' \in {room, [room EXCEPT ![r] = "closeRoom"]}
  /\ UNCHANGED <<cmds, hub, held>>

(* finishGame and run(): closeRoom gets into the channel, then quit is      *)
(* closed.                                                                  *)
CloseRoom(r) ==
  /\ room[r] = "closeRoom"
  /\ Len(cmds) < CmdsBound
  /\ cmds' = Append(cmds, r)
  /\ room' = [room EXCEPT ![r] = "closed"]
  /\ UNCHANGED <<hub, events, held>>

-----------------------------------------------------------------------------
Init ==
  /\ cmds = <<>>
  /\ hub = Free
  /\ events = [r \in Rooms |-> 0]
  /\ room = [r \in Rooms |-> "none"]
  /\ held = {}

Next ==
  \/ Do \/ RunRequest \/ HubPosts \/ RunCloseRoom
  \/ \E r \in Rooms : Post(r) \/ Handle(r) \/ CloseRoom(r)

(* The goroutines run, and a sender that waits at a channel gets its turn   *)
(* if room is made again and again.                                         *)
FairSpec ==
  /\ Init /\ [][Next]_vars
  /\ WF_vars(RunRequest \/ RunCloseRoom) /\ SF_vars(HubPosts)
  /\ \A r \in Rooms : WF_vars(Handle(r)) /\ SF_vars(CloseRoom(r))

-----------------------------------------------------------------------------
(* What be/realtime/hub.go says and the code does not do.                   *)

(* "closeRoom is called by a room when its game is over so the hub can      *)
(* release references" (hub.go:310): of a game that is over the hub lets go *)
(* in the end.                                                              *)
OverIsReleased ==
  \A r \in Rooms : room[r] = "closeRoom" ~> r \notin held
=============================================================================
