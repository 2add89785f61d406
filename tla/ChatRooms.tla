------------------------------ MODULE ChatRooms -------------------------------
(***************************************************************************)
(* Rooms and who is in them: Network/Room.cpp, RoomManager.cpp,            *)
(* SessionManager.cpp, GameSession.cpp and the login, room, chat, shout    *)
(* and account handlers of ClientPacketHandler.cpp.                        *)
(*                                                                         *)
(* The handlers of one session run one after the other in its DoRead       *)
(* coroutine, those of different sessions concurrently.  A Room is a       *)
(* JobQueue: Enter, Leave and Broadcast are jobs, which run one at a time  *)
(* in the order of the pushes (SerialExecutor; module JobQueue shows that  *)
(* the code implements it).  One step is one operation under the lock of   *)
(* RoomManager or SessionManager, one Push, or one job.                    *)
(***************************************************************************)
EXTENDS Naturals, Sequences, FiniteSets

CONSTANTS Sessions,   \* GameSession objects, one per connection
          Players,    \* User.Id of the accounts
          LoginAs,    \* LoginAs[s]: the accounts the client of s logs in with
          Guest,      \* PlayerId 0: not logged in
          NoSession,  \* no entry
          NoRoom,     \* nullptr
          MaxRooms,   \* bound on the rooms created
          MaxQueue    \* bound on the jobs waiting in a room

ASSUME LoginsArePlayers == /\ LoginAs \in [Sessions -> SUBSET Players]
                           /\ Guest \notin Players
                           /\ NoSession \notin Sessions
ASSUME BoundsAreNat == /\ MaxRooms \in Nat /\ MaxQueue \in Nat
                       /\ NoRoom \notin 1 .. MaxRooms

Rooms == 1 .. MaxRooms

VARIABLES
  listed,    \* RoomManager::Rooms, the ids in it
  created,   \* RoomManager::NextRoomId - 1
  jobs,      \* jobs[r]: what waits in the JobQueue of room r
  members,   \* members[r]: Room::Sessions, from PlayerId to session
  dead,      \* dead[r]: Room::bDead
  online,    \* SessionManager::Sessions, from PlayerId to session
  player,    \* player[s]: PlayerInfo.PlayerId
  room,      \* room[s]: GameSession::CurrentRoom
  handler,   \* handler[s]: where the handler of session s is
  inside,    \* inside[r]: the sessions that entered r and did not leave (history)
  visited    \* the rooms somebody has entered (history)

roomVars == <<listed, created, members, dead, inside, visited>>
vars == <<listed, created, jobs, members, dead, online, player, room, handler,
          inside, visited>>

Keys == Players \cup {Guest}

\* a Broadcast is pushed by a C_CHAT or by a C_SHOUT
Job == [op : {"enter", "leave", "chat", "shout"}, by : Sessions]

\* to: the room of a C_ENTER_ROOM; rest: the rooms a C_SHOUT has still to reach
Handler == [at : {"auth", "register", "idle", "leaveOld", "enterNew", "shout",
                  "unregister", "gone"},
            to : Rooms \cup {NoRoom}, rest : SUBSET Rooms]

Stage(name) == [at |-> name, to |-> NoRoom, rest |-> {}]

TypeOK ==
  /\ listed \subseteq Rooms
  /\ created \in 0 .. MaxRooms
  /\ jobs \in [Rooms -> Seq(Job)]
  /\ members \in [Rooms -> [Keys -> Sessions \cup {NoSession}]]
  /\ dead \in [Rooms -> BOOLEAN]
  /\ online \in [Players -> Sessions \cup {NoSession}]
  /\ player \in [Sessions -> Keys]
  /\ room \in [Sessions -> Rooms \cup {NoRoom}]
  /\ handler \in [Sessions -> Handler]
  /\ inside \in [Rooms -> SUBSET Sessions]
  /\ visited \subseteq Rooms

Init ==
  /\ listed = {}
  /\ created = 0
  /\ jobs = [r \in Rooms |-> <<>>]
  /\ members = [r \in Rooms |-> [p \in Keys |-> NoSession]]
  /\ dead = [r \in Rooms |-> FALSE]
  /\ online = [p \in Players |-> NoSession]
  /\ player = [s \in Sessions |-> Guest]
  /\ room = [s \in Sessions |-> NoRoom]
  /\ handler = [s \in Sessions |-> Stage("auth")]
  /\ inside = [r \in Rooms |-> {}]
  /\ visited = {}

-------------------------------------------------------------------------------
(* Helpers *)

At(s, name) == handler[s].at = name

Goto(s, h) == handler' = [handler EXCEPT ![s] = h]

HasSpace(r) == Len(jobs[r]) < MaxQueue

\* Mutant of Push: the newest job is put in front
PushInFront(r, op, s) == /\ HasSpace(r)
                         /\ jobs' = [jobs EXCEPT ![r] = <<[op |-> op, by |-> s]>> \o @]

\* JobQueue::Push
Push(r, op, s) == /\ HasSpace(r)
                  /\ jobs' = [jobs EXCEPT ![r] = Append(@, [op |-> op, by |-> s])]

\* RoomPtr->Push of a Leave, unless the session is in no room
PushLeave(s) == IF room[s] = NoRoom THEN UNCHANGED jobs ELSE Push(room[s], "leave", s)

-------------------------------------------------------------------------------
(* Login and logout *)

\* C_LOGIN with the right password: the id is stored in the session.  The
\* client may try again, with another account, before it enters the lobby.
Login(s) ==
  /\ At(s, "auth")
  /\ \E p \in LoginAs[s] : player' = [player EXCEPT ![s] = p]
  /\ Goto(s, Stage("register"))
  /\ UNCHANGED <<roomVars, jobs, online, room>>

\* SessionManager::Register overwrites an entry of the same player
Register(s) ==
  /\ At(s, "register")
  /\ online' = [online EXCEPT ![player[s]] = s]
  /\ Goto(s, Stage("auth"))
  /\ UNCHANGED <<roomVars, jobs, player, room>>

\* Mutant of Disconnect: without a room OnDisconnected returns early
DisconnectReturnsEarly(s) ==
  /\ At(s, "auth") \/ At(s, "idle")
  /\ PushLeave(s)
  /\ room' = [room EXCEPT ![s] = NoRoom]
  /\ Goto(s, Stage(IF player[s] = Guest \/ room[s] = NoRoom
                   THEN "gone" ELSE "unregister"))
  /\ UNCHANGED <<roomVars, online, player>>

\* OnDisconnected: a Leave is pushed and CurrentRoom is cleared
Disconnect(s) ==
  /\ At(s, "auth") \/ At(s, "idle")
  /\ PushLeave(s)
  /\ room' = [room EXCEPT ![s] = NoRoom]
  /\ Goto(s, Stage(IF player[s] = Guest THEN "gone" ELSE "unregister"))
  /\ UNCHANGED <<roomVars, online, player>>

\* Mutant of Unregister: the entry of the player is removed, whose ever it is
UnregisterPlayer(s) ==
  /\ At(s, "unregister")
  /\ online' = [online EXCEPT ![player[s]] = NoSession]
  /\ Goto(s, Stage("gone"))
  /\ UNCHANGED <<roomVars, jobs, player, room>>

\* SessionManager::Unregister removes the entry only if it is this session
Unregister(s) ==
  /\ At(s, "unregister")
  /\ online' = IF online[player[s]] = s
               THEN [online EXCEPT ![player[s]] = NoSession] ELSE online
  /\ Goto(s, Stage("gone"))
  /\ UNCHANGED <<roomVars, jobs, player, room>>

-------------------------------------------------------------------------------
(* Rooms *)

\* The client reaches its lobby by a login and never leaves it for another.
InLobby(s) == player[s] # Guest /\ (At(s, "auth") \/ At(s, "idle"))

\* C_CREATE_ROOM; the creator is not in the room yet
CreateRoom(s) ==
  /\ InLobby(s)
  /\ created < MaxRooms
  /\ created' = created + 1
  /\ listed' = listed \cup {created + 1}
  /\ Goto(s, Stage("idle"))
  /\ UNCHANGED <<jobs, members, dead, online, player, room, inside, visited>>

\* C_ENTER_ROOM, FindRoom: a room that is not listed is refused here
EnterFind(s, r) ==
  /\ InLobby(s)
  /\ r \in listed
  /\ Goto(s, [Stage(IF room[s] = NoRoom THEN "enterNew" ELSE "leaveOld")
                EXCEPT !.to = r])
  /\ UNCHANGED <<roomVars, jobs, online, player, room>>

\* Mutant of EnterLeaveOld: the Leave of the old room is forgotten
EnterKeepsOld(s) ==
  /\ At(s, "leaveOld")
  /\ Goto(s, [handler[s] EXCEPT !.at = "enterNew"])
  /\ UNCHANGED <<roomVars, jobs, online, player, room>>

\* OldRoom->Push of a Leave
EnterLeaveOld(s) ==
  /\ At(s, "leaveOld")
  /\ PushLeave(s)
  /\ Goto(s, [handler[s] EXCEPT !.at = "enterNew"])
  /\ UNCHANGED <<roomVars, online, player, room>>

\* SetRoom, Push of an Enter, and S_ENTER_ROOM with success
EnterNew(s) ==
  /\ At(s, "enterNew")
  /\ Push(handler[s].to, "enter", s)
  /\ room' = [room EXCEPT ![s] = handler[s].to]
  /\ Goto(s, Stage("idle"))
  /\ UNCHANGED <<roomVars, online, player>>

\* Mutant of ExitRoom: CurrentRoom is not cleared
ExitKeepsRoom(s) ==
  /\ InLobby(s)
  /\ room[s] # NoRoom
  /\ PushLeave(s)
  /\ UNCHANGED <<roomVars, online, player, room, handler>>

\* Mutant of ExitRoom: the Leave is forgotten
ExitWithoutLeave(s) ==
  /\ InLobby(s)
  /\ room[s] # NoRoom
  /\ room' = [room EXCEPT ![s] = NoRoom]
  /\ UNCHANGED <<roomVars, jobs, online, player, handler>>

\* C_EXIT_ROOM, and C_DELETE_ACCOUNT, which does not unregister the session
ExitRoom(s) ==
  /\ InLobby(s)
  /\ room[s] # NoRoom
  /\ PushLeave(s)
  /\ room' = [room EXCEPT ![s] = NoRoom]
  /\ UNCHANGED <<roomVars, online, player, handler>>

\* C_CHAT
Chat(s) ==
  /\ InLobby(s)
  /\ room[s] # NoRoom
  /\ Push(room[s], "chat", s)
  /\ UNCHANGED <<roomVars, online, player, room, handler>>

\* C_SHOUT: RoomManager::Broadcast takes the list of the rooms ...
Shout(s) ==
  /\ InLobby(s)
  /\ Goto(s, [Stage("shout") EXCEPT !.rest = listed])
  /\ UNCHANGED <<roomVars, jobs, online, player, room>>

\* ... and pushes a job into each of them
ShoutNext(s) ==
  /\ At(s, "shout")
  /\ \/ /\ handler[s].rest = {}
        /\ Goto(s, Stage("idle"))
        /\ UNCHANGED jobs
     \/ \E r \in handler[s].rest :
        /\ Push(r, "shout", s)
        /\ Goto(s, [handler[s] EXCEPT !.rest = @ \ {r}])
  /\ UNCHANGED <<roomVars, online, player, room>>

-------------------------------------------------------------------------------
(* The jobs of a room; the PlayerId is read when the job runs *)

TakeJob(r, ops) == /\ jobs[r] # <<>>
                   /\ Head(jobs[r]).op \in ops
                   /\ jobs' = [jobs EXCEPT ![r] = Tail(@)]

\* Mutant of Enter: bDead is not looked at
EnterDeadToo(r) ==
  LET s == Head(jobs[r]).by IN
  /\ TakeJob(r, {"enter"})
  /\ members' = [members EXCEPT ![r][player[s]] = s]
  /\ inside' = [inside EXCEPT ![r] = @ \cup {s}]
  /\ visited' = visited \cup {r}
  /\ UNCHANGED <<listed, created, dead, online, player, room, handler>>

\* Room::Enter; a dead room lets nobody in
Enter(r) ==
  LET s == Head(jobs[r]).by IN
  /\ TakeJob(r, {"enter"})
  /\ \/ /\ dead[r]
        /\ UNCHANGED <<members, inside, visited>>
     \/ /\ ~dead[r]
        /\ members' = [members EXCEPT ![r][player[s]] = s]
        /\ inside' = [inside EXCEPT ![r] = @ \cup {s}]
        /\ visited' = visited \cup {r}
  /\ UNCHANGED <<listed, created, dead, online, player, room, handler>>

\* Mutant of Leave: the room that became empty stays in RoomManager
LeaveListed(r) ==
  LET s == Head(jobs[r]).by
      left == [members[r] EXCEPT ![player[s]] = NoSession]
      empty == \A p \in Keys : left[p] = NoSession IN
  /\ TakeJob(r, {"leave"})
  /\ members' = [members EXCEPT ![r] = left]
  /\ inside' = [inside EXCEPT ![r] = @ \ {s}]
  /\ dead' = [dead EXCEPT ![r] = @ \/ empty]
  /\ UNCHANGED <<listed, created, online, player, room, handler, visited>>

\* Room::Leave; bDead is seen by later jobs of the room only, so RemoveRoom
\* may be part of the same step
Leave(r) ==
  LET s == Head(jobs[r]).by
      left == [members[r] EXCEPT ![player[s]] = NoSession]
      empty == \A p \in Keys : left[p] = NoSession IN
  /\ TakeJob(r, {"leave"})
  /\ members' = [members EXCEPT ![r] = left]
  /\ inside' = [inside EXCEPT ![r] = @ \ {s}]
  /\ dead' = [dead EXCEPT ![r] = @ \/ empty]
  /\ listed' = IF empty THEN listed \ {r} ELSE listed
  /\ UNCHANGED <<created, online, player, room, handler, visited>>

\* whom Room::Broadcast sends to: the members that still exist
Audience(r) == {s \in Sessions : ~At(s, "gone") /\ \E p \in Keys : members[r][p] = s}

Broadcast(r) ==
  /\ TakeJob(r, {"chat", "shout"})
  /\ UNCHANGED <<roomVars, online, player, room, handler>>

RunJob(r) == Enter(r) \/ Leave(r) \/ Broadcast(r)

-------------------------------------------------------------------------------
Continue(s) == \/ Register(s) \/ Unregister(s)
               \/ EnterLeaveOld(s) \/ EnterNew(s) \/ ShoutNext(s)

Next == \/ \E s \in Sessions :
             \/ Login(s) \/ Disconnect(s) \/ CreateRoom(s)
             \/ \E r \in Rooms : EnterFind(s, r)
             \/ ExitRoom(s) \/ Chat(s) \/ Shout(s)
             \/ Continue(s)
        \/ \E r \in Rooms : RunJob(r)

Spec == Init /\ [][Next]_vars

\* JobQueue runs every job that was pushed (EveryJobRuns of module JobQueue),
\* and a handler that was started runs on.
FairSpec == /\ Spec
            /\ \A r \in Rooms : WF_vars(RunJob(r))
            /\ \A s \in Sessions : WF_vars(Continue(s))

-------------------------------------------------------------------------------
(* Properties *)

Waiting(r, op) == {jobs[r][i].by : i \in {k \in DOMAIN jobs[r] : jobs[r][k].op = op}}

IsMember(s, r) == \E p \in Keys : members[r][p] = s

\* A session in a room is one of its members, or will be when its Enter has
\* run, or the room has died in between and the session will never be; in the
\* middle of C_ENTER_ROOM it may have left the old room already.
CurrentRoomIsReal ==
  \A s \in Sessions : \A r \in Rooms :
     room[s] = r => \/ IsMember(s, r) \/ s \in Waiting(r, "enter")
                    \/ dead[r] \/ At(s, "enterNew")

\* No ghosts: a member that is in the room no more has a Leave on its way.
NoGhostMember ==
  \A s \in Sessions : \A r \in Rooms :
     IsMember(s, r) /\ room[s] # r => s \in Waiting(r, "leave")

\* "A room removed from RoomManager because the last user left" (Room.h:27):
\* nobody who entered and did not leave is in a dead room.
DeadRoomIsEmpty == \A r \in Rooms : dead[r] => inside[r] = {}

\* "A room vanishes when its last user leaves" (README.md:416): once somebody
\* has been in a room, it is listed only as long as somebody is.
UsedRoomIsListed == \A r \in visited : r \in listed => inside[r] # {}

\* Who chats in a room hears it, as do all others who are in the room by then.
SpeakerHears ==
  \A r \in Rooms :
     jobs[r] # <<>> /\ Head(jobs[r]).op = "chat" =>
        LET s == Head(jobs[r]).by IN s \in Audience(r) \/ At(s, "gone") \/ dead[r]

\* "OnDisconnected removes the session from SessionManager" (GameSession.cpp:65):
\* no session that is gone is shown online or offered as a target for ever.
NoGhostOnline == \A p \in Players : \A s \in Sessions :
                    online[p] = s => ~At(s, "gone")

\* "The disconnect of an earlier session must not throw out the new session"
\* of the same player (SessionManager.cpp:15-17): an entry is removed only by
\* the session it names.
NewLoginStaysOnline ==
  [][\A p \in Players : online[p] # NoSession /\ online'[p] = NoSession =>
        At(online[p], "unregister")]_vars

\* A client that has left a room is forgotten by the room in the end.
LeaversAreForgotten ==
  \A s \in Sessions : \A r \in Rooms : (room[s] # r) ~> (~IsMember(s, r) \/ room[s] = r)
===============================================================================
