---------------------------- MODULE ChatRoomsProofs ----------------------------
(***************************************************************************)
(* Rooms and online sessions, for any number of sessions, accounts, rooms  *)
(* and waiting jobs. Where a client has an account of its own, nobody is   *)
(* left behind in a room, no room dies under its members or outlives them, *)
(* and who speaks hears himself.                                           *)
(***************************************************************************)
EXTENDS ChatRooms, SequenceTheorems, TLAPS

\* Each client logs in with one account, and nobody else uses it.
OneAccountEach ==
  \A s, t \in Sessions : \A p \in LoginAs[s], q \in LoginAs[t] : p = q <=> s = t

Is(job, op, s) == job.op = op /\ job.by = s

\* After the first k jobs of q, s is in the room that those of set are in now.
Stays(q, set, s, k) ==
  \/ \E i \in 1 .. k : Is(q[i], "enter", s) /\ \A j \in i + 1 .. k : ~Is(q[j], "leave", s)
  \/ s \in set /\ \A j \in 1 .. k : ~Is(q[j], "leave", s)

\* s is in room r, and its Leave is not pushed yet.
Belongs(s, r) == room[s] = r /\ ~At(s, "enterNew")

-------------------------------------------------------------------------------
(* The inductive invariant *)

\* Without an account a session does nothing in rooms; it changes no account.
Known ==
  \A s \in Sessions :
    /\ player[s] = Guest \/ player[s] \in LoginAs[s]
    /\ player[s] = Guest =>
         /\ room[s] = NoRoom /\ handler[s].at \in {"auth", "gone"}
         /\ \A r \in Rooms : /\ s \notin inside[r]
                             /\ \A i \in 1 .. Len(jobs[r]) : jobs[r][i].by # s

\* The member table is as good as a set of sessions.
MembersOK ==
  \A r \in Rooms, p \in Keys, s \in Sessions :
    members[r][p] = s <=> s \in inside[r] /\ player[s] = p

CreatedOK ==
  /\ listed \subseteq 1 .. created /\ visited \subseteq 1 .. created
  /\ \A r \in Rooms : jobs[r] # <<>> => r \in 1 .. created
  /\ \A s \in Sessions :
       /\ room[s] \in (1 .. created) \cup {NoRoom}
       /\ handler[s].rest \subseteq 1 .. created
       /\ At(s, "leaveOld") \/ At(s, "enterNew") => handler[s].to \in 1 .. created

\* What the jobs of a room come to is what the handlers have in mind.
BelongOK ==
  \A s \in Sessions, r \in Rooms :
    /\ Stays(jobs[r], inside[r], s, Len(jobs[r])) => Belongs(s, r)
    /\ Belongs(s, r) => Stays(jobs[r], inside[r], s, Len(jobs[r])) \/ dead[r]

ChatOK ==
  \A r \in Rooms : \A k \in 1 .. Len(jobs[r]) :
    jobs[r][k].op = "chat" =>
      dead[r] \/ Stays(jobs[r], inside[r], jobs[r][k].by, k)

OnlineOK ==
  \A p \in Players, s \in Sessions : online[p] = s => player[s] = p /\ ~At(s, "gone")

RoomInv ==
  /\ TypeOK /\ Known /\ MembersOK /\ CreatedOK /\ BelongOK /\ ChatOK
  /\ DeadRoomIsEmpty /\ UsedRoomIsListed /\ OnlineOK

-------------------------------------------------------------------------------
(* Stays, of a queue that gets a job or loses its first one *)

LEMMA StaysAppended ==
  ASSUME NEW q \in Seq(Job), NEW x \in Job, NEW set, NEW s, NEW k \in 0 .. Len(q)
  PROVE  Stays(Append(q, x), set, s, k) <=> Stays(q, set, s, k)
<1>1. \A i \in 1 .. k : Append(q, x)[i] = q[i]
  BY AppendProperties
<1>2. \A i \in 1 .. k : \A j \in i + 1 .. k : j \in 1 .. k
  OBVIOUS
<1> QED
  BY <1>1, <1>2 DEF Stays

LEMMA StaysLast ==
  ASSUME NEW q \in Seq(Job), NEW x \in Job, NEW set, NEW s, NEW n, n = Len(q) + 1
  PROVE  /\ Len(Append(q, x)) = n
         /\ Is(x, "enter", s) => Stays(Append(q, x), set, s, n)
         /\ Is(x, "leave", s) => ~Stays(Append(q, x), set, s, n)
         /\ ~Is(x, "enter", s) /\ ~Is(x, "leave", s) =>
              (Stays(Append(q, x), set, s, n) <=> Stays(q, set, s, Len(q)))
<1> DEFINE a == Append(q, x)
<1>0. Len(q) \in Nat /\ n \in Nat /\ n \in 1 .. n
  OBVIOUS
<1>1. Len(a) = n /\ a[n] = x /\ \A i \in 1 .. Len(q) : a[i] = q[i]
  BY AppendProperties
<1> HIDE DEF a
<1>2. ASSUME Is(x, "enter", s) PROVE Stays(a, set, s, n)
  <2>1. \A j \in n + 1 .. n : FALSE
    BY <1>0
  <2> QED
    BY <1>0, <1>1, <1>2, <2>1 DEF Stays
<1>3. ASSUME Is(x, "leave", s) PROVE ~Stays(a, set, s, n)
  <2>1. \A i \in 1 .. n : Is(a[i], "enter", s) => n \in i + 1 .. n
    BY <1>0, <1>1, <1>3 DEF Is
  <2> QED
    BY <1>0, <1>1, <1>3, <2>1 DEF Stays
<1>4. ASSUME ~Is(x, "enter", s), ~Is(x, "leave", s)
      PROVE  Stays(a, set, s, n) <=> Stays(q, set, s, Len(q))
  <2>1. \A i \in 1 .. n : i \in 1 .. Len(q) \/ i = n
    BY <1>0
  <2>2. \A i \in 1 .. Len(q) : i \in 1 .. n /\ \A j \in i + 1 .. n : j \in i + 1 .. Len(q) \/ j = n
    BY <1>0
  <2>3. \A i \in 1 .. Len(q) : \A j \in i + 1 .. Len(q) : j \in i + 1 .. n /\ j \in 1 .. Len(q)
    BY <1>0
  <2> QED
    BY <1>0, <1>1, <1>4, <2>1, <2>2, <2>3 DEF Stays
<1> QED
  BY <1>1, <1>2, <1>3, <1>4 DEF a

\* The first job runs: its effect on the set is the one that Stays expects.
LEMMA StaysTail ==
  ASSUME NEW q \in Seq(Job), q # <<>>, NEW before, NEW after, NEW s, NEW k \in 1 .. Len(q),
         Is(Head(q), "leave", s) => s \notin after,
         ~Is(Head(q), "enter", s) /\ ~Is(Head(q), "leave", s) => (s \in after <=> s \in before)
  PROVE  /\ Stays(Tail(q), after, s, k - 1) /\ (Is(Head(q), "enter", s) \/ s \notin after \/ s \in before)
              => Stays(q, before, s, k)
         /\ Stays(q, before, s, k) /\ (Is(Head(q), "enter", s) => s \in after)
              => Stays(Tail(q), after, s, k - 1)
<1> DEFINE t == Tail(q)
<1>1. /\ t \in Seq(Job) /\ Len(t) = Len(q) - 1 /\ Head(q) = q[1] /\ Len(q) \in Nat
      /\ \A i \in 1 .. k - 1 : t[i] = q[i + 1]
  BY HeadTailProperties
<1> HIDE DEF t
<1>2. k \in Nat /\ k >= 1 /\ 1 \in 1 .. k
  BY <1>1
<1>3. \A i \in 1 .. k - 1 : i + 1 \in 1 .. k /\ \A j \in i + 2 .. k : j - 1 \in i + 1 .. k - 1 /\ q[j] = t[j - 1]
  <2> SUFFICES ASSUME NEW i \in 1 .. k - 1
               PROVE  i + 1 \in 1 .. k /\ \A j \in i + 2 .. k : j - 1 \in i + 1 .. k - 1 /\ q[j] = t[j - 1]
    OBVIOUS
  <2>1. i + 1 \in 1 .. k /\ \A j \in i + 2 .. k : j - 1 \in i + 1 .. k - 1 /\ j - 1 \in 1 .. k - 1 /\ (j - 1) + 1 = j
    BY <1>2
  <2> QED
    BY <1>1, <2>1
<1>4. \A i \in 2 .. k : i - 1 \in 1 .. k - 1 /\ q[i] = t[i - 1]
  <2>1. \A i \in 2 .. k : i - 1 \in 1 .. k - 1 /\ (i - 1) + 1 = i
    BY <1>2
  <2> QED
    BY <1>1, <2>1
<1>5. \A i \in 1 .. k - 1 : \A j \in i + 1 .. k - 1 : j + 1 \in (i + 1) + 1 .. k /\ q[j + 1] = t[j]
  <2>1. \A i \in 1 .. k - 1 : \A j \in i + 1 .. k - 1 : j + 1 \in (i + 1) + 1 .. k /\ j \in 1 .. k - 1
    BY <1>2
  <2> QED
    BY <1>1, <2>1
<1>6. \A i \in 2 .. k : \A j \in (i - 1) + 1 .. k - 1 : j + 1 \in i + 1 .. k /\ q[j + 1] = t[j]
  <2>1. \A i \in 2 .. k : \A j \in (i - 1) + 1 .. k - 1 : j + 1 \in i + 1 .. k /\ j \in 1 .. k - 1
    BY <1>2
  <2> QED
    BY <1>1, <2>1
<1>7. \A j \in 1 .. k - 1 : j + 1 \in 2 .. k /\ j + 1 \in 1 .. k /\ q[j + 1] = t[j]
  BY <1>1, <1>2
<1>8. ASSUME Stays(t, after, s, k - 1), Is(q[1], "enter", s) \/ s \notin after \/ s \in before
      PROVE  Stays(q, before, s, k)
  <2>1. CASE \E i \in 1 .. k - 1 : Is(t[i], "enter", s) /\ \A j \in i + 1 .. k - 1 : ~Is(t[j], "leave", s)
    <3>1. PICK i \in 1 .. k - 1 : Is(t[i], "enter", s) /\ \A j \in i + 1 .. k - 1 : ~Is(t[j], "leave", s)
      BY <2>1
    <3>2. i + 1 \in 1 .. k /\ Is(q[i + 1], "enter", s)
      BY <1>7, <3>1
    <3>3. \A j \in (i + 1) + 1 .. k : ~Is(q[j], "leave", s)
      BY <1>3, <3>1
    <3> QED
      BY <3>2, <3>3 DEF Stays
  <2>2. CASE s \in after /\ \A j \in 1 .. k - 1 : ~Is(t[j], "leave", s)
    <3>1. \A j \in 2 .. k : ~Is(q[j], "leave", s)
      BY <1>4, <2>2
    <3>2. \A j \in 1 + 1 .. k : j \in 2 .. k
      OBVIOUS
    <3>3. CASE Is(q[1], "enter", s)
      BY <1>2, <3>1, <3>2, <3>3 DEF Stays
    <3>4. CASE s \in before
      <4>1. ~Is(q[1], "leave", s)
        BY <1>1, <2>2
      <4>2. \A j \in 1 .. k : j = 1 \/ j \in 2 .. k
        BY <1>2
      <4> QED
        BY <3>1, <3>4, <4>1, <4>2 DEF Stays
    <3> QED
      BY <1>8, <2>2, <3>3, <3>4
  <2> QED
    BY <1>8, <2>1, <2>2 DEF Stays
<1>9. ASSUME Stays(q, before, s, k), Is(q[1], "enter", s) => s \in after
      PROVE  Stays(t, after, s, k - 1)
  <2>1. CASE \E i \in 2 .. k : Is(q[i], "enter", s) /\ \A j \in i + 1 .. k : ~Is(q[j], "leave", s)
    <3>1. PICK i \in 2 .. k : Is(q[i], "enter", s) /\ \A j \in i + 1 .. k : ~Is(q[j], "leave", s)
      BY <2>1
    <3>2. i - 1 \in 1 .. k - 1 /\ Is(t[i - 1], "enter", s)
      BY <1>4, <3>1
    <3>3. \A j \in (i - 1) + 1 .. k - 1 : ~Is(t[j], "leave", s)
      BY <1>6, <3>1
    <3> QED
      BY <3>2, <3>3 DEF Stays
  <2>2. CASE s \in after /\ \A j \in 2 .. k : ~Is(q[j], "leave", s)
    BY <1>7, <2>2 DEF Stays
  <2>3. \A i \in 1 .. k : i = 1 \/ i \in 2 .. k
    BY <1>2
  <2>4. \A j \in 2 .. k : j \in 1 + 1 .. k /\ j \in 1 .. k
    BY <1>2
  <2>5. CASE Is(q[1], "enter", s) /\ \A j \in 1 + 1 .. k : ~Is(q[j], "leave", s)
    BY <1>9, <2>2, <2>4, <2>5
  <2>6. CASE s \in before /\ \A j \in 1 .. k : ~Is(q[j], "leave", s)
    <3>1. s \in after
      BY <1>1, <1>2, <1>9, <2>6
    <3> QED
      BY <2>2, <2>4, <2>6, <3>1
  <2> QED
    BY <1>9, <2>1, <2>3, <2>5, <2>6 DEF Stays
<1> QED
  BY <1>1, <1>8, <1>9 DEF t

-------------------------------------------------------------------------------
(* What steps do to each variable *)

LEMMA RoomInvStarts == Init => RoomInv
<1> SUFFICES ASSUME Init PROVE RoomInv
  OBVIOUS
<1>1. NoSession \notin Sessions /\ NoRoom \notin Rooms /\ Guest \notin Players
  BY LoginsArePlayers, BoundsAreNat DEF Rooms
<1>2. TypeOK
  <2>1. Stage("auth") \in Handler
    BY DEF Stage, Handler
  <2>2. Guest \in Keys /\ 0 \in 0 .. MaxRooms
    BY BoundsAreNat DEF Keys
  <2>3. jobs \in [Rooms -> Seq(Job)]
    BY DEF Init
  <2> QED
    BY <2>1, <2>2, <2>3 DEF Init, TypeOK
<1>3. Known /\ OnlineOK
  BY <1>1 DEF Init, Known, OnlineOK, Stage
<1>4. MembersOK
  BY <1>1 DEF Init, MembersOK
<1>5. CreatedOK
  BY DEF Init, CreatedOK, Stage, At
<1>6. BelongOK /\ ChatOK
  <2>1. \A r \in Rooms : Len(jobs[r]) = 0 /\ inside[r] = {}
    BY DEF Init
  <2>2. \A r \in Rooms, s \in Sessions : ~Stays(jobs[r], inside[r], s, 0)
    BY <2>1 DEF Stays
  <2>3. \A r \in Rooms, s \in Sessions : ~Belongs(s, r)
    BY <1>1 DEF Init, Belongs
  <2> QED
    BY <2>1, <2>2, <2>3 DEF BelongOK, ChatOK
<1>7. DeadRoomIsEmpty /\ UsedRoomIsListed
  BY DEF Init, DeadRoomIsEmpty, UsedRoomIsListed
<1> QED
  BY <1>2, <1>3, <1>4, <1>5, <1>6, <1>7 DEF RoomInv

LEMMA HandlersAreTyped ==
  /\ \A name \in {"auth", "register", "idle", "leaveOld", "enterNew", "shout", "unregister", "gone"} :
       /\ Stage(name) \in Handler
       /\ \A r \in Rooms : [Stage(name) EXCEPT !.to = r] \in Handler
       /\ \A some \in SUBSET Rooms : [Stage(name) EXCEPT !.rest = some] \in Handler
  /\ \A h \in Handler : /\ [h EXCEPT !.at = "enterNew"] \in Handler
                        /\ \A r : [h EXCEPT !.rest = @ \ {r}] \in Handler
BY DEF Stage, Handler

LEMMA PushIsTyped ==
  ASSUME TypeOK, NEW s \in Sessions, NEW op \in {"enter", "leave", "chat", "shout"},
         NEW r, Push(r, op, s)
  PROVE  jobs' \in [Rooms -> Seq(Job)]
<1>1. [op |-> op, by |-> s] \in Job
  BY DEF Job
<1>2. CASE r \in Rooms
  <2>1. Append(jobs[r], [op |-> op, by |-> s]) \in Seq(Job)
    BY <1>1, <1>2, AppendProperties DEF TypeOK
  <2> QED
    BY <2>1 DEF Push, TypeOK
<1>3. CASE r \notin Rooms
  BY <1>3 DEF Push, TypeOK
<1> QED
  BY <1>2, <1>3

LEMMA TypeStep ==
  ASSUME TypeOK, [Next]_vars
  PROVE  TypeOK'
<1>1. ASSUME NEW s \in Sessions,
             \/ Login(s) \/ Register(s) \/ Unregister(s)
             \/ \E r \in Rooms : EnterFind(s, r)
             \/ Shout(s)
      PROVE  TypeOK'
  <2>1. UNCHANGED <<roomVars, jobs, room>>
    BY <1>1 DEF Login, Register, Unregister, EnterFind, Shout
  <2>2. player' \in [Sessions -> Keys]
    BY <1>1, LoginsArePlayers DEF TypeOK, Login, Register, Unregister, EnterFind, Shout, Keys
  <2>3. online' \in [Players -> Sessions \cup {NoSession}]
    BY <1>1 DEF TypeOK, Login, Register, Unregister, EnterFind, Shout
  <2>4. handler' \in [Sessions -> Handler]
    <3>1. Login(s) \/ Register(s) \/ Unregister(s) => \E h \in Handler : Goto(s, h)
      BY HandlersAreTyped DEF Login, Register, Unregister
    <3>2. (\E r \in Rooms : EnterFind(s, r)) => \E h \in Handler : Goto(s, h)
      <4> SUFFICES ASSUME NEW r \in Rooms, EnterFind(s, r) PROVE \E h \in Handler : Goto(s, h)
        OBVIOUS
      <4>1. CASE room[s] = NoRoom
        BY <4>1, HandlersAreTyped DEF EnterFind
      <4>2. CASE room[s] # NoRoom
        BY <4>2, HandlersAreTyped DEF EnterFind
      <4> QED
        BY <4>1, <4>2
    <3>3. Shout(s) => \E h \in Handler : Goto(s, h)
      BY HandlersAreTyped DEF Shout, TypeOK
    <3>4. \E h \in Handler : Goto(s, h)
      BY <1>1, <3>1, <3>2, <3>3
    <3> QED
      BY <3>4 DEF Goto, TypeOK
  <2> QED
    BY <2>1, <2>2, <2>3, <2>4 DEF TypeOK, roomVars
<1>2. ASSUME NEW s \in Sessions,
             Disconnect(s) \/ EnterLeaveOld(s) \/ EnterNew(s) \/ ExitRoom(s) \/ Chat(s) \/ ShoutNext(s)
      PROVE  TypeOK'
  <2>1. UNCHANGED <<roomVars, online, player>>
    BY <1>2 DEF Disconnect, EnterLeaveOld, EnterNew, ExitRoom, Chat, ShoutNext
  <2>2. jobs' \in [Rooms -> Seq(Job)]
    <3>1. jobs' = jobs \/ \E op \in {"enter", "leave", "chat", "shout"} : \E r : Push(r, op, s)
      BY <1>2 DEF Disconnect, EnterLeaveOld, EnterNew, ExitRoom, Chat, ShoutNext, PushLeave
    <3>2. jobs' = jobs => jobs' \in [Rooms -> Seq(Job)]
      BY DEF TypeOK
    <3> QED
      BY <3>1, <3>2, PushIsTyped
  <2>3. handler' \in [Sessions -> Handler]
    <3>1. Disconnect(s) => \E h \in Handler : Goto(s, h)
      <4>1. CASE player[s] = Guest
        BY <4>1, HandlersAreTyped DEF Disconnect
      <4>2. CASE player[s] # Guest
        BY <4>2, HandlersAreTyped DEF Disconnect
      <4> QED
        BY <4>1, <4>2
    <3>2. handler[s] \in Handler
      BY DEF TypeOK
    <3>3. EnterLeaveOld(s) \/ EnterNew(s) => \E h \in Handler : Goto(s, h)
      BY <3>2, HandlersAreTyped DEF EnterLeaveOld, EnterNew
    <3>4. ShoutNext(s) => \E h \in Handler : Goto(s, h)
      BY <3>2, HandlersAreTyped DEF ShoutNext
    <3>5. ExitRoom(s) \/ Chat(s) => handler' = handler
      BY DEF ExitRoom, Chat
    <3>6. (\E h \in Handler : Goto(s, h)) \/ handler' = handler
      BY <1>2, <3>1, <3>3, <3>4, <3>5
    <3> QED
      BY <3>6 DEF Goto, TypeOK
  <2>4. room' \in [Sessions -> Rooms \cup {NoRoom}]
    <3>1. handler[s].to \in Rooms \cup {NoRoom}
      BY DEF TypeOK, Handler
    <3> QED
      BY <1>2, <3>1 DEF TypeOK, Disconnect, EnterLeaveOld, EnterNew, ExitRoom, Chat, ShoutNext
  <2> QED
    BY <2>1, <2>2, <2>3, <2>4 DEF TypeOK, roomVars
<1>3. ASSUME NEW s \in Sessions, CreateRoom(s) PROVE TypeOK'
  <2>1. created' \in 0 .. MaxRooms /\ created + 1 \in Rooms
    BY <1>3, BoundsAreNat DEF TypeOK, CreateRoom, Rooms
  <2>2. handler' \in [Sessions -> Handler]
    BY <1>3, HandlersAreTyped DEF TypeOK, CreateRoom, Goto
  <2> QED
    BY <1>3, <2>1, <2>2 DEF TypeOK, CreateRoom
<1>4. ASSUME NEW r \in Rooms, RunJob(r) PROVE TypeOK'
  <2>1. /\ jobs[r] # <<>> /\ jobs' = [jobs EXCEPT ![r] = Tail(@)]
        /\ UNCHANGED <<created, online, player, room, handler>>
    BY <1>4 DEF RunJob, Enter, Leave, Broadcast, TakeJob, roomVars
  <2>2. Tail(jobs[r]) \in Seq(Job) /\ Head(jobs[r]) \in Job
    BY <2>1, HeadTailProperties DEF TypeOK
  <2>3. Head(jobs[r]).by \in Sessions
    BY <2>2 DEF Job
  <2>4. PICK s \in Sessions : s = Head(jobs[r]).by
    BY <2>3
  <2>5. player[s] \in Keys
    BY DEF TypeOK
  <2>6. CASE Enter(r)
    <3>1. \/ UNCHANGED <<members, inside, visited>>
          \/ /\ members' = [members EXCEPT ![r][player[s]] = s]
             /\ inside' = [inside EXCEPT ![r] = @ \cup {s}]
             /\ visited' = visited \cup {r}
      BY <2>4, <2>6 DEF Enter
    <3> DEFINE joined == [members[r] EXCEPT ![player[s]] = s]
    <3>2. members' \in [Rooms -> [Keys -> Sessions \cup {NoSession}]]
      <4>1. joined \in [Keys -> Sessions \cup {NoSession}]
        BY <2>5 DEF TypeOK
      <4>2. members' = members \/ members' = [members EXCEPT ![r] = joined]
        BY <3>1
      <4> HIDE DEF joined
      <4> QED
        BY <4>1, <4>2 DEF TypeOK
    <3>3. inside' \in [Rooms -> SUBSET Sessions] /\ visited' \subseteq Rooms
      <4>1. inside[r] \cup {s} \in SUBSET Sessions
        BY DEF TypeOK
      <4>2. inside' = inside \/ inside' = [inside EXCEPT ![r] = inside[r] \cup {s}]
        BY <3>1
      <4>3. visited' \subseteq visited \cup {r}
        BY <3>1
      <4> QED
        BY <4>1, <4>2, <4>3 DEF TypeOK
    <3> QED
      BY <2>1, <2>2, <2>6, <3>2, <3>3 DEF TypeOK, Enter
  <2>7. CASE Leave(r)
    <3> DEFINE left == [members[r] EXCEPT ![player[s]] = NoSession]
    <3>1. /\ members' = [members EXCEPT ![r] = left]
          /\ inside' = [inside EXCEPT ![r] = @ \ {s}]
          /\ listed' \subseteq listed /\ visited' = visited
      BY <2>4, <2>7 DEF Leave
    <3>2. members' \in [Rooms -> [Keys -> Sessions \cup {NoSession}]]
      BY <2>5, <3>1 DEF TypeOK
    <3>3. inside' \in [Rooms -> SUBSET Sessions]
      BY <3>1 DEF TypeOK
    <3>4. dead' \in [Rooms -> BOOLEAN]
      BY <2>7, ZenonT(30) DEF TypeOK, Leave
    <3> QED
      BY <2>1, <2>2, <3>1, <3>2, <3>3, <3>4 DEF TypeOK
  <2>8. CASE Broadcast(r)
    BY <2>1, <2>2, <2>8 DEF TypeOK, Broadcast, roomVars
  <2> QED
    BY <1>4, <2>6, <2>7, <2>8 DEF RunJob
<1>5. CASE UNCHANGED vars
  BY <1>5 DEF TypeOK, vars
<1> QED
  BY <1>1, <1>2, <1>3, <1>4, <1>5 DEF Next, Continue

\* A step of the handlers of s
Handles(s) ==
  \/ Login(s) \/ Disconnect(s) \/ CreateRoom(s) \/ (\E r \in Rooms : EnterFind(s, r))
  \/ ExitRoom(s) \/ Chat(s) \/ Shout(s) \/ Continue(s)

\* job x is appended to the queue of r.
Adds(r, x) == jobs' = [jobs EXCEPT ![r] = Append(@, x)]

LEMMA PushAdds ==
  ASSUME NEW s \in Sessions, NEW op \in {"enter", "leave", "chat", "shout"}, NEW r, Push(r, op, s)
  PROVE  \E x \in Job : Is(x, op, s) /\ Adds(r, x)
<1> DEFINE x == [op |-> op, by |-> s]
<1>1. x \in Job /\ Is(x, op, s)
  BY DEF Job, Is
<1>2. Adds(r, x)
  BY DEF Push, Adds
<1> HIDE DEF x
<1> QED
  BY <1>1, <1>2

LEMMA HandlesFrame ==
  ASSUME TypeOK, CreatedOK, NEW s \in Sessions, Handles(s)
  PROVE  /\ UNCHANGED <<members, dead, inside, visited>>
         /\ \A t \in Sessions : t # s =>
              room'[t] = room[t] /\ handler'[t] = handler[t] /\ player'[t] = player[t]
         /\ jobs' = jobs \/ \E r \in Rooms, x \in Job : x.by = s /\ Adds(r, x)
<1>1. UNCHANGED <<members, dead, inside, visited>>
  BY DEF Handles, Continue, Login, Disconnect, CreateRoom, EnterFind, ExitRoom, Chat, Shout,
         Register, Unregister, EnterLeaveOld, EnterNew, ShoutNext, roomVars
<1>2. \A t \in Sessions : t # s => player'[t] = player[t]
  BY DEF TypeOK, Handles, Continue, Login, Disconnect, CreateRoom, EnterFind, ExitRoom, Chat, Shout,
         Register, Unregister, EnterLeaveOld, EnterNew, ShoutNext
<1>3. \A t \in Sessions : t # s => room'[t] = room[t]
  BY DEF TypeOK, Handles, Continue, Login, Disconnect, CreateRoom, EnterFind, ExitRoom, Chat, Shout,
         Register, Unregister, EnterLeaveOld, EnterNew, ShoutNext
<1>4. handler' = handler \/ \E h : Goto(s, h)
  BY DEF Handles, Continue, Login, Disconnect, CreateRoom, EnterFind, ExitRoom, Chat, Shout,
         Register, Unregister, EnterLeaveOld, EnterNew, ShoutNext
<1>5. \A t \in Sessions : t # s => handler'[t] = handler[t]
  BY <1>4 DEF TypeOK, Goto
<1>6. jobs' = jobs \/ \E r \in Rooms, x \in Job : x.by = s /\ Adds(r, x)
  <2>1. 1 .. created \subseteq Rooms
    BY BoundsAreNat DEF TypeOK, Rooms
  <2>2. room[s] # NoRoom => room[s] \in Rooms
    BY DEF TypeOK
  <2>3. \A r \in Rooms : Push(r, "leave", s) \/ Push(r, "enter", s) \/ Push(r, "chat", s)
                           \/ Push(r, "shout", s) => \E x \in Job : x.by = s /\ Adds(r, x)
    BY PushAdds DEF Is
  <2>4. CASE EnterNew(s)
    <3>1. handler[s].to \in Rooms
      BY <2>1, <2>4 DEF CreatedOK, EnterNew
    <3> QED
      BY <2>3, <2>4, <3>1 DEF EnterNew
  <2>5. CASE Chat(s)
    BY <2>2, <2>3, <2>5 DEF Chat
  <2>6. CASE ShoutNext(s)
    <3>1. handler[s].rest \subseteq Rooms
      BY DEF TypeOK, Handler
    <3> QED
      BY <2>3, <2>6, <3>1 DEF ShoutNext
  <2>7. CASE Disconnect(s) \/ ExitRoom(s) \/ EnterLeaveOld(s)
    BY <2>2, <2>3, <2>7 DEF Disconnect, ExitRoom, EnterLeaveOld, PushLeave
  <2>8. CASE Login(s) \/ CreateRoom(s) \/ (\E r \in Rooms : EnterFind(s, r)) \/ Shout(s) \/ Register(s) \/ Unregister(s)
    BY <2>8 DEF Login, CreateRoom, EnterFind, Shout, Register, Unregister
  <2> QED
    BY <2>4, <2>5, <2>6, <2>7, <2>8 DEF Handles, Continue
<1> QED
  BY <1>1, <1>2, <1>3, <1>5, <1>6

LEMMA Pushed ==
  ASSUME TypeOK, NEW r \in Rooms, NEW x \in Job, Adds(r, x)
  PROVE  /\ jobs'[r] = Append(jobs[r], x)
         /\ \A y \in Rooms : y # r => jobs'[y] = jobs[y]
         /\ Len(jobs[r]) \in Nat /\ Len(jobs'[r]) = Len(jobs[r]) + 1
         /\ jobs'[r][Len(jobs[r]) + 1] = x
         /\ \A k \in 1 .. Len(jobs[r]) : jobs'[r][k] = jobs[r][k]
<1>1. jobs[r] \in Seq(Job)
  BY DEF TypeOK
<1>2. jobs'[r] = Append(jobs[r], x) /\ \A y \in Rooms : y # r => jobs'[y] = jobs[y]
  BY DEF Adds, TypeOK
<1> QED
  BY <1>1, <1>2, AppendProperties

-------------------------------------------------------------------------------
(* A handler's step preserves each part *)

LEMMA KnownHandles ==
  ASSUME RoomInv, NEW s \in Sessions, Handles(s)
  PROVE  Known'
<1>0. TypeOK /\ CreatedOK /\ Known
  BY DEF RoomInv
<1>1. UNCHANGED inside /\ \A t \in Sessions : t # s =>
        room'[t] = room[t] /\ handler'[t] = handler[t] /\ player'[t] = player[t]
  BY <1>0, HandlesFrame
<1>2. \A r \in Rooms : \A i \in 1 .. Len(jobs'[r]) :
        jobs'[r][i].by = s \/ (i \in 1 .. Len(jobs[r]) /\ jobs'[r][i] = jobs[r][i])
  <2>1. CASE jobs' = jobs
    BY <2>1
  <2>2. CASE \E r \in Rooms, x \in Job : x.by = s /\ Adds(r, x)
    <3>1. PICK r \in Rooms, x \in Job : x.by = s /\ Adds(r, x)
      BY <2>2
    <3>2. /\ Len(jobs[r]) \in Nat /\ Len(jobs'[r]) = Len(jobs[r]) + 1
          /\ jobs'[r][Len(jobs[r]) + 1].by = s
          /\ \A k \in 1 .. Len(jobs[r]) : jobs'[r][k] = jobs[r][k]
          /\ \A y \in Rooms : y # r => jobs'[y] = jobs[y]
      BY <1>0, <3>1, Pushed
    <3>3. \A i \in 1 .. Len(jobs'[r]) : i \in 1 .. Len(jobs[r]) \/ i = Len(jobs[r]) + 1
      BY <3>2
    <3> QED
      BY <3>2, <3>3
  <2> QED
    BY <1>0, <2>1, <2>2, HandlesFrame
<1>3. \/ player'[s] # Guest /\ player'[s] \in LoginAs[s]
      \/ /\ player'[s] = Guest /\ player[s] = Guest
         /\ jobs' = jobs /\ room'[s] = NoRoom /\ handler'[s].at \in {"auth", "gone"}
  <2>1. CASE player[s] = Guest
    <3>1. room[s] = NoRoom /\ handler[s].at \in {"auth", "gone"}
      BY <1>0, <2>1 DEF Known
    <3>2. CASE Login(s)
      <4>1. PICK p \in LoginAs[s] : player' = [player EXCEPT ![s] = p]
        BY <3>2 DEF Login
      <4>2. p # Guest
        BY LoginsArePlayers
      <4> QED
        BY <1>0, <4>1, <4>2 DEF TypeOK
    <3>3. CASE Disconnect(s)
      <4>1. jobs' = jobs /\ room' = [room EXCEPT ![s] = NoRoom]
            /\ handler' = [handler EXCEPT ![s] = Stage("gone")] /\ player' = player
        BY <2>1, <3>1, <3>3 DEF Disconnect, PushLeave, Goto
      <4> QED
        BY <1>0, <2>1, <4>1 DEF TypeOK, Stage
    <3>4. ~InLobby(s) /\ ~At(s, "register") /\ ~At(s, "unregister") /\ ~At(s, "leaveOld")
          /\ ~At(s, "enterNew") /\ ~At(s, "shout")
      BY <2>1, <3>1 DEF InLobby, At
    <3> QED
      BY <3>2, <3>3, <3>4 DEF Handles, Continue, CreateRoom, EnterFind, ExitRoom, Chat, Shout, Register,
         Unregister, EnterLeaveOld, EnterNew, ShoutNext
  <2>2. CASE player[s] # Guest
    <3>1. player[s] \in LoginAs[s]
      BY <1>0, <2>2 DEF Known
    <3>2. CASE Login(s)
      <4>1. PICK p \in LoginAs[s] : player' = [player EXCEPT ![s] = p]
        BY <3>2 DEF Login
      <4>2. p # Guest
        BY LoginsArePlayers
      <4> QED
        BY <1>0, <4>1, <4>2 DEF TypeOK
    <3>3. CASE ~Login(s)
      BY <2>2, <3>1, <3>3 DEF Handles, Continue, Disconnect, CreateRoom, EnterFind, ExitRoom, Chat, Shout,
         Register, Unregister, EnterLeaveOld, EnterNew, ShoutNext
    <3> QED
      BY <3>2, <3>3
  <2> QED
    BY <2>1, <2>2
<1>4. ASSUME NEW t \in Sessions
      PROVE  /\ player'[t] = Guest \/ player'[t] \in LoginAs[t]
             /\ player'[t] = Guest =>
                  /\ room'[t] = NoRoom /\ handler'[t].at \in {"auth", "gone"}
                  /\ \A r \in Rooms : /\ t \notin inside'[r]
                                      /\ \A i \in 1 .. Len(jobs'[r]) : jobs'[r][i].by # t
  <2>1. CASE t # s
    BY <1>0, <1>1, <1>2, <2>1 DEF Known
  <2>2. CASE t = s
    BY <1>0, <1>1, <1>3, <2>2 DEF Known
  <2> QED
    BY <2>1, <2>2
<1> QED
  BY <1>4 DEF Known

LEMMA LoginOnce ==
  ASSUME OneAccountEach, RoomInv, NEW s \in Sessions, Handles(s)
  PROVE  \A t \in Sessions : player'[t] = player[t] \/ player[t] = Guest
<1>0. TypeOK /\ CreatedOK /\ Known
  BY DEF RoomInv
<1>1. \A t \in Sessions : t # s => player'[t] = player[t]
  BY <1>0, HandlesFrame
<1>2. CASE Login(s)
  <2>1. PICK p \in LoginAs[s] : player' = [player EXCEPT ![s] = p]
    BY <1>2 DEF Login
  <2>2. player[s] = Guest \/ player[s] = p
    BY <1>0, <2>1 DEF Known, OneAccountEach
  <2> QED
    BY <1>0, <1>1, <2>1, <2>2 DEF TypeOK
<1>3. CASE ~Login(s)
  <2>1. player' = player
    BY <1>3 DEF Handles, Continue, Disconnect, CreateRoom, EnterFind, ExitRoom, Chat, Shout,
       Register, Unregister, EnterLeaveOld, EnterNew, ShoutNext
  <2> QED
    BY <2>1
<1> QED
  BY <1>2, <1>3

LEMMA MembersHandles ==
  ASSUME OneAccountEach, RoomInv, NEW s \in Sessions, Handles(s)
  PROVE  MembersOK'
<1>0. TypeOK /\ CreatedOK /\ Known /\ MembersOK
  BY DEF RoomInv
<1>1. UNCHANGED <<members, inside>>
  BY <1>0, HandlesFrame
<1>2. \A t \in Sessions : player'[t] = player[t] \/ \A r \in Rooms : t \notin inside[r]
  BY <1>0, LoginOnce DEF Known
<1>3. ASSUME NEW r \in Rooms, NEW p \in Keys, NEW t \in Sessions
      PROVE  members[r][p] = t <=> t \in inside[r] /\ player'[t] = p
  BY <1>0, <1>2 DEF MembersOK
<1> QED
  BY <1>1, <1>3 DEF MembersOK

LEMMA CreatedHandles ==
  ASSUME RoomInv, NEW s \in Sessions, Handles(s)
  PROVE  CreatedOK'
<1>0. TypeOK /\ CreatedOK
  BY DEF RoomInv
<1>1. /\ UNCHANGED visited
      /\ \A t \in Sessions : t # s => room'[t] = room[t] /\ handler'[t] = handler[t]
  BY <1>0, HandlesFrame
<1>2. /\ created \in Nat /\ created' \in {created, created + 1}
      /\ listed' \subseteq 1 .. created'
  <2>1. created \in Nat /\ listed \subseteq 1 .. created
    BY <1>0 DEF TypeOK, CreatedOK
  <2>2. CASE CreateRoom(s)
    <3>1. created' = created + 1 /\ listed' = listed \cup {created + 1}
      BY <2>2 DEF CreateRoom
    <3> QED
      BY <2>1, <3>1
  <2>3. CASE ~CreateRoom(s)
    <3>1. UNCHANGED <<created, listed>>
      BY <2>3 DEF Handles, Continue, Login, Disconnect, EnterFind, ExitRoom, Chat, Shout, Register,
         Unregister, EnterLeaveOld, EnterNew, ShoutNext, roomVars
    <3> QED
      BY <2>1, <3>1
  <2> QED
    BY <2>2, <2>3
<1>3. 1 .. created \subseteq 1 .. created'
  BY <1>2
<1>4. ASSUME NEW r \in Rooms, jobs'[r] # <<>>
      PROVE  r \in 1 .. created
  <2>1. CASE jobs[r] # <<>>
    BY <1>0, <2>1 DEF CreatedOK
  <2>2. CASE jobs[r] = <<>>
    BY <1>0, <1>4, <2>2 DEF TypeOK, CreatedOK, Handles, Continue, Login, Disconnect, CreateRoom, EnterFind,
       ExitRoom, Chat, Shout, Register, Unregister, EnterLeaveOld, EnterNew, ShoutNext, Push, PushLeave, At
  <2> QED
    BY <2>1, <2>2
<1>5. room'[s] \in (1 .. created) \cup {NoRoom}
  BY <1>0 DEF CreatedOK, TypeOK, Handles, Continue, Login, Disconnect, CreateRoom, EnterFind, ExitRoom,
     Chat, Shout, Register, Unregister, EnterLeaveOld, EnterNew, ShoutNext, At
<1>6. /\ handler'[s].rest \subseteq 1 .. created
      /\ handler'[s].at \in {"leaveOld", "enterNew"} => handler'[s].to \in 1 .. created
  <2>1. handler[s].rest \subseteq 1 .. created /\ handler[s] \in Handler
    BY <1>0 DEF CreatedOK, TypeOK
  <2>2. CASE \E r \in Rooms : EnterFind(s, r)
    <3>1. PICK r \in Rooms : EnterFind(s, r)
      BY <2>2
    <3>2. r \in 1 .. created
      BY <1>0, <3>1 DEF CreatedOK, EnterFind
    <3>3. handler'[s].to = r /\ handler'[s].rest = {}
      BY <1>0, <3>1 DEF EnterFind, Goto, Stage, TypeOK
    <3> QED
      BY <3>2, <3>3
  <2>3. CASE EnterLeaveOld(s)
    <3>1. handler'[s].to = handler[s].to /\ handler'[s].rest = handler[s].rest
      BY <1>0, <2>1, <2>3 DEF EnterLeaveOld, Goto, TypeOK, Handler
    <3> QED
      BY <1>0, <2>1, <2>3, <3>1 DEF CreatedOK, EnterLeaveOld
  <2>4. CASE Shout(s)
    <3>1. handler'[s].rest = listed /\ handler'[s].at = "shout"
      BY <1>0, <2>4 DEF Shout, Goto, Stage, TypeOK
    <3> QED
      BY <1>0, <3>1 DEF CreatedOK
  <2>5. CASE ShoutNext(s)
    <3>1. handler'[s].rest \subseteq handler[s].rest /\ handler'[s].at \in {"shout", "idle"}
      BY <1>0, <2>1, <2>5 DEF ShoutNext, Goto, Stage, TypeOK, Handler, At
    <3> QED
      BY <2>1, <3>1
  <2>6. CASE ExitRoom(s) \/ Chat(s)
    BY <1>0, <2>6 DEF ExitRoom, Chat, CreatedOK, At
  <2>7. CASE Login(s) \/ Register(s) \/ Disconnect(s) \/ Unregister(s) \/ CreateRoom(s) \/ EnterNew(s)
    <3>1. handler'[s].rest = {} /\ handler'[s].at \in {"auth", "register", "gone", "unregister", "idle"}
      BY <1>0, <2>7 DEF Login, Register, Disconnect, Unregister, CreateRoom, EnterNew, Goto, Stage, TypeOK
    <3> QED
      BY <3>1
  <2> QED
    BY <2>2, <2>3, <2>4, <2>5, <2>6, <2>7 DEF Handles, Continue
<1> QED
  BY <1>0, <1>1, <1>2, <1>3, <1>4, <1>5, <1>6 DEF CreatedOK, At

\* No job is pushed, and nobody changes his mind.
LEMMA BelongQuiet ==
  ASSUME BelongOK, ChatOK, UNCHANGED <<jobs, inside, dead>>,
         \A t \in Sessions, y \in Rooms : Belongs(t, y)' <=> Belongs(t, y)
  PROVE  BelongOK' /\ ChatOK'
<1>1. BelongOK'
  BY DEF BelongOK
<1>2. ChatOK'
  BY DEF ChatOK
<1> QED
  BY <1>1, <1>2

\* A job is pushed that says what its session has in mind.
LEMMA BelongPush ==
  ASSUME TypeOK, BelongOK, ChatOK, UNCHANGED <<inside, dead>>,
         NEW s \in Sessions, NEW r \in Rooms, NEW x \in Job, x.by = s, Adds(r, x),
         \A t \in Sessions, y \in Rooms : t # s \/ y # r => (Belongs(t, y)' <=> Belongs(t, y)),
         x.op = "enter" => Belongs(s, r)',
         x.op = "leave" => ~Belongs(s, r)',
         x.op \in {"chat", "shout"} => (Belongs(s, r)' <=> Belongs(s, r)),
         x.op = "chat" => Belongs(s, r)
  PROVE  BelongOK' /\ ChatOK'
<1> DEFINE q == jobs[r]  n == Len(q) + 1
<1>1. q \in Seq(Job)
  BY DEF TypeOK
<1>2. /\ jobs'[r] = Append(q, x) /\ \A y \in Rooms : y # r => jobs'[y] = jobs[y]
      /\ Len(q) \in Nat /\ Len(jobs'[r]) = n /\ jobs'[r][n] = x
      /\ \A k \in 1 .. Len(q) : jobs'[r][k] = q[k]
  BY Pushed
<1>3. x.op \in {"enter", "leave", "chat", "shout"}
  BY DEF Job
<1>4. PICK a : a = jobs'[r]
  OBVIOUS
<1>5. a = Append(q, x) /\ Len(a) = n /\ a[n] = x /\ \A k \in 1 .. Len(q) : a[k] = q[k]
  BY <1>2, <1>4
<1>6. \A t \in Sessions :
        /\ Is(x, "enter", t) => Stays(a, inside[r], t, n)
        /\ Is(x, "leave", t) => ~Stays(a, inside[r], t, n)
        /\ ~Is(x, "enter", t) /\ ~Is(x, "leave", t) =>
             (Stays(a, inside[r], t, n) <=> Stays(q, inside[r], t, Len(q)))
  BY <1>1, <1>5, StaysLast
<1>7. \A t \in Sessions : \A k \in 1 .. Len(q) :
        Stays(a, inside[r], t, k) <=> Stays(q, inside[r], t, k)
  <2>1. \A k \in 1 .. Len(q) : k \in 0 .. Len(q)
    BY <1>2
  <2> QED
    BY <1>1, <1>5, <2>1, StaysAppended
<1> HIDE DEF q, n
<1>8. \A t \in Sessions :
        /\ Stays(q, inside[r], t, Len(q)) => Belongs(t, r)
        /\ Belongs(t, r) => Stays(q, inside[r], t, Len(q)) \/ dead[r]
  BY DEF BelongOK, q
<1>9. ASSUME NEW t \in Sessions
      PROVE  /\ Stays(a, inside[r], t, n) => Belongs(t, r)'
             /\ Belongs(t, r)' => Stays(a, inside[r], t, n) \/ dead[r]
  <2>1. CASE t # s
    BY <1>6, <1>8, <2>1 DEF Is
  <2>2. CASE t = s /\ x.op = "enter"
    BY <1>6, <2>2 DEF Is
  <2>3. CASE t = s /\ x.op = "leave"
    BY <1>6, <2>3 DEF Is
  <2>4. CASE t = s /\ x.op \in {"chat", "shout"}
    BY <1>6, <1>8, <2>4 DEF Is
  <2> QED
    BY <1>3, <2>1, <2>2, <2>3, <2>4
<1>10. ASSUME NEW t \in Sessions, NEW y \in Rooms
       PROVE  /\ Stays(jobs'[y], inside'[y], t, Len(jobs'[y])) => Belongs(t, y)'
              /\ Belongs(t, y)' => Stays(jobs'[y], inside'[y], t, Len(jobs'[y])) \/ dead'[y]
  <2>1. CASE y = r
    BY <1>4, <1>5, <1>9, <2>1
  <2>2. CASE y # r
    BY <1>2, <2>2 DEF BelongOK
  <2> QED
    BY <2>1, <2>2
<1>11. ASSUME NEW y \in Rooms, NEW k \in 1 .. Len(jobs'[y]), jobs'[y][k].op = "chat"
       PROVE  dead'[y] \/ Stays(jobs'[y], inside'[y], jobs'[y][k].by, k)
  <2>1. CASE y # r
    BY <1>2, <1>11, <2>1 DEF ChatOK
  <2>2. CASE y = r /\ k \in 1 .. Len(q)
    <3>1. a[k] = q[k] /\ q[k].op = "chat" /\ q[k].by \in Sessions
      <4>1. a[k] = q[k] /\ a[k].op = "chat"
        BY <1>4, <1>5, <1>11, <2>2
      <4>2. q[k] \in Job
        BY <1>1, <2>2
      <4> QED
        BY <4>1, <4>2 DEF Job
    <3>2. dead[r] \/ Stays(q, inside[r], q[k].by, k)
      BY <2>2, <3>1 DEF ChatOK, q
    <3> QED
      BY <1>4, <1>7, <2>2, <3>1, <3>2
  <2>3. CASE y = r /\ k = n
    <3>1. x.op = "chat"
      BY <1>4, <1>5, <1>11, <2>3
    <3>2. dead[r] \/ Stays(q, inside[r], s, Len(q))
      BY <1>8, <3>1
    <3>3. dead[r] \/ Stays(a, inside[r], s, n)
      BY <1>6, <3>1, <3>2 DEF Is
    <3> QED
      BY <1>4, <1>5, <2>3, <3>3
  <2>4. k \in 1 .. Len(q) \/ k = n \/ y # r
    BY <1>2 DEF n
  <2> QED
    BY <2>1, <2>2, <2>3, <2>4
<1>12. BelongOK'
  BY <1>10 DEF BelongOK
<1>13. ChatOK'
  BY <1>11 DEF ChatOK
<1> QED
  BY <1>12, <1>13

LEMMA BelongHandles ==
  ASSUME RoomInv, NEW s \in Sessions, Handles(s)
  PROVE  BelongOK' /\ ChatOK'
<1>0. TypeOK /\ CreatedOK /\ Known /\ BelongOK /\ ChatOK
  BY DEF RoomInv
<1>1. /\ UNCHANGED <<dead, inside>>
      /\ \A t \in Sessions : t # s => room'[t] = room[t] /\ handler'[t] = handler[t]
  BY <1>0, HandlesFrame
<1>2. \A t \in Sessions, y \in Rooms : t # s => (Belongs(t, y)' <=> Belongs(t, y))
  BY <1>1 DEF Belongs, At
<1>3. NoRoom \notin Rooms /\ room[s] \in Rooms \cup {NoRoom} /\ handler[s] \in Handler
  BY <1>0, BoundsAreNat DEF TypeOK, Rooms
<1>4. ASSUME jobs' = jobs, \A y \in Rooms : Belongs(s, y)' <=> Belongs(s, y)
      PROVE  BelongOK' /\ ChatOK'
  <2>1. \A t \in Sessions, y \in Rooms : Belongs(t, y)' <=> Belongs(t, y)
    BY <1>2, <1>4
  <2> QED
    BY <1>0, <1>1, <1>4, <2>1, BelongQuiet
<1>5. CASE Login(s) \/ Register(s) \/ Unregister(s) \/ CreateRoom(s) \/ Shout(s)
  <2>1. /\ jobs' = jobs /\ room' = room /\ ~At(s, "enterNew")
        /\ handler'[s].at \in {"auth", "register", "gone", "idle", "shout"}
    BY <1>0, <1>5 DEF Login, Register, Unregister, CreateRoom, Shout, InLobby, At, Goto, Stage, TypeOK
  <2>2. \A y \in Rooms : Belongs(s, y)' <=> Belongs(s, y)
    BY <2>1 DEF Belongs, At
  <2> QED
    BY <1>4, <2>1, <2>2
<1>6. CASE \E r \in Rooms : EnterFind(s, r)
  <2>1. PICK r \in Rooms : EnterFind(s, r)
    BY <1>6
  <2>2. jobs' = jobs /\ room' = room /\ ~At(s, "enterNew")
    BY <2>1 DEF EnterFind, InLobby, At
  <2>3. room[s] # NoRoom => handler'[s].at = "leaveOld"
    BY <1>0, <2>1 DEF EnterFind, Goto, Stage, TypeOK
  <2>4. \A y \in Rooms : Belongs(s, y)' <=> Belongs(s, y)
    BY <1>3, <2>2, <2>3 DEF Belongs, At
  <2> QED
    BY <1>4, <2>2, <2>4
<1>7. ASSUME PushLeave(s), ~At(s, "enterNew"), room'[s] = NoRoom \/ At(s, "enterNew")'
      PROVE  BelongOK' /\ ChatOK'
  <2>1. \A y \in Rooms : ~Belongs(s, y)'
    BY <1>3, <1>7 DEF Belongs
  <2>2. CASE room[s] = NoRoom
    <3>1. jobs' = jobs /\ \A y \in Rooms : ~Belongs(s, y)
      BY <1>3, <1>7, <2>2 DEF PushLeave, Belongs
    <3> QED
      BY <1>4, <2>1, <3>1
  <2>3. CASE room[s] # NoRoom
    <3>1. PICK r \in Rooms : r = room[s]
      BY <1>3, <2>3
    <3>2. Push(r, "leave", s)
      BY <1>7, <2>3, <3>1 DEF PushLeave
    <3>3. PICK x \in Job : Is(x, "leave", s) /\ Adds(r, x)
      BY <3>2, PushAdds
    <3>4. x.op = "leave" /\ x.by = s
      BY <3>3 DEF Is
    <3>5. \A t \in Sessions, y \in Rooms : t # s \/ y # r => (Belongs(t, y)' <=> Belongs(t, y))
      BY <1>2, <2>1, <3>1 DEF Belongs
    <3>6. ~Belongs(s, r)'
      BY <2>1
    <3> QED
      BY <1>0, <1>1, <3>3, <3>4, <3>5, <3>6, BelongPush
  <2> QED
    BY <2>2, <2>3
<1>8. CASE Disconnect(s) \/ ExitRoom(s)
  <2>1. PushLeave(s) /\ ~At(s, "enterNew") /\ room'[s] = NoRoom
    BY <1>0, <1>8 DEF Disconnect, ExitRoom, InLobby, At, TypeOK
  <2> QED
    BY <1>7, <2>1
<1>9. CASE EnterLeaveOld(s)
  <2>1. PushLeave(s) /\ ~At(s, "enterNew")
    BY <1>9 DEF EnterLeaveOld, At
  <2>2. At(s, "enterNew")'
    BY <1>0, <1>3, <1>9 DEF EnterLeaveOld, At, Goto, TypeOK, Handler
  <2> QED
    BY <1>7, <2>1, <2>2
<1>10. CASE EnterNew(s)
  <2>1. PICK r \in Rooms : r = handler[s].to
    <3>1. 1 .. created \subseteq Rooms
      BY <1>0, BoundsAreNat DEF TypeOK, Rooms
    <3> QED
      BY <1>0, <1>10, <3>1 DEF CreatedOK, EnterNew
  <2>2. Push(r, "enter", s) /\ room'[s] = r /\ handler'[s].at = "idle" /\ handler[s].at = "enterNew"
    BY <1>0, <1>10, <2>1 DEF EnterNew, Goto, Stage, At, TypeOK
  <2>3. PICK x \in Job : Is(x, "enter", s) /\ Adds(r, x)
    BY <2>2, PushAdds
  <2>4. x.op = "enter" /\ x.by = s
    BY <2>3 DEF Is
  <2>5. \A t \in Sessions, y \in Rooms : t # s \/ y # r => (Belongs(t, y)' <=> Belongs(t, y))
    BY <1>2, <2>2 DEF Belongs, At
  <2>6. Belongs(s, r)'
    BY <2>2 DEF Belongs, At
  <2> QED
    BY <1>0, <1>1, <2>3, <2>4, <2>5, <2>6, BelongPush
<1>11. ASSUME NEW r \in Rooms, NEW x \in Job, x.by = s, Adds(r, x), x.op \in {"chat", "shout"},
              x.op = "chat" => Belongs(s, r), \A y \in Rooms : Belongs(s, y)' <=> Belongs(s, y)
       PROVE  BelongOK' /\ ChatOK'
  <2>1. \A t \in Sessions, y \in Rooms : t # s \/ y # r => (Belongs(t, y)' <=> Belongs(t, y))
    BY <1>2, <1>11
  <2>2. (Belongs(s, r)' <=> Belongs(s, r)) /\ x.op # "enter" /\ x.op # "leave"
    BY <1>11
  <2> QED
    BY <1>0, <1>1, <1>11, <2>1, <2>2, BelongPush
<1>12. CASE Chat(s)
  <2>1. PICK r \in Rooms : r = room[s]
    BY <1>3, <1>12 DEF Chat
  <2>2. Push(r, "chat", s) /\ room' = room /\ handler' = handler /\ ~At(s, "enterNew")
    BY <1>12, <2>1 DEF Chat, InLobby, At
  <2>3. PICK x \in Job : Is(x, "chat", s) /\ Adds(r, x)
    BY <2>2, PushAdds
  <2>4. Belongs(s, r) /\ \A y \in Rooms : Belongs(s, y)' <=> Belongs(s, y)
    BY <2>1, <2>2 DEF Belongs, At
  <2>5. x.op = "chat" /\ x.by = s
    BY <2>3 DEF Is
  <2> QED
    BY <1>11, <2>3, <2>4, <2>5
<1>13. CASE ShoutNext(s)
  <2>1. room' = room /\ ~At(s, "enterNew") /\ handler'[s].at # "enterNew"
    <3>1. room' = room /\ handler[s].at = "shout"
      BY <1>13 DEF ShoutNext, At
    <3>2. \/ handler' = [handler EXCEPT ![s] = Stage("idle")]
          \/ \E r : handler' = [handler EXCEPT ![s] = [handler[s] EXCEPT !.rest = @ \ {r}]]
      BY <1>13 DEF ShoutNext, Goto
    <3>3. handler'[s].at \in {"idle", "shout"}
      BY <1>0, <1>3, <3>1, <3>2 DEF Stage, TypeOK, Handler
    <3> QED
      BY <3>1, <3>3 DEF At
  <2>2. \A y \in Rooms : Belongs(s, y)' <=> Belongs(s, y)
    BY <2>1 DEF Belongs, At
  <2>3. CASE jobs' = jobs
    BY <1>4, <2>2, <2>3
  <2>4. CASE \E r \in handler[s].rest : Push(r, "shout", s)
    <3>1. PICK r \in handler[s].rest : Push(r, "shout", s)
      BY <2>4
    <3>2. r \in Rooms
      BY <1>3, <3>1 DEF Handler
    <3>3. PICK x \in Job : Is(x, "shout", s) /\ Adds(r, x)
      BY <3>1, PushAdds
    <3>4. x.op = "shout" /\ x.by = s
      BY <3>3 DEF Is
    <3> QED
      BY <1>11, <2>2, <3>2, <3>3, <3>4
  <2> QED
    BY <1>13, <2>3, <2>4 DEF ShoutNext
<1> QED
  BY <1>5, <1>6, <1>8, <1>9, <1>10, <1>12, <1>13 DEF Handles, Continue

LEMMA RestHandles ==
  ASSUME OneAccountEach, RoomInv, NEW s \in Sessions, Handles(s)
  PROVE  DeadRoomIsEmpty' /\ UsedRoomIsListed' /\ OnlineOK'
<1>0. TypeOK /\ CreatedOK /\ Known /\ OnlineOK /\ DeadRoomIsEmpty /\ UsedRoomIsListed
  BY DEF RoomInv
<1>1. /\ UNCHANGED <<dead, inside, visited>>
      /\ \A t \in Sessions : t # s => handler'[t] = handler[t] /\ player'[t] = player[t]
  BY <1>0, HandlesFrame
<1>2. DeadRoomIsEmpty'
  BY <1>0, <1>1 DEF DeadRoomIsEmpty
<1>3. UsedRoomIsListed'
  <2>1. listed' \subseteq listed \cup {created + 1}
    BY <1>0 DEF Handles, Continue, Login, Disconnect, CreateRoom, EnterFind, ExitRoom, Chat, Shout,
       Register, Unregister, EnterLeaveOld, EnterNew, ShoutNext, roomVars
  <2>2. created + 1 \notin visited
    BY <1>0 DEF CreatedOK, TypeOK
  <2> QED
    BY <1>0, <1>1, <2>1, <2>2 DEF UsedRoomIsListed
<1>4. Guest \notin Players /\ NoSession \notin Sessions
  BY LoginsArePlayers
<1>5. \A p \in Players, t \in Sessions : online[p] = t => player'[t] = p /\ handler[t].at # "gone"
  BY <1>0, <1>4, LoginOnce DEF OnlineOK, At
<1>6. OnlineOK'
  <2> SUFFICES ASSUME NEW p \in Players, NEW t \in Sessions, online'[p] = t
               PROVE  player'[t] = p /\ handler'[t].at # "gone"
    BY DEF OnlineOK, At
  <2>1. CASE Register(s)
    <3>1. /\ player' = player /\ online' = [online EXCEPT ![player[s]] = s]
          /\ handler'[s].at = "auth" /\ player[s] # Guest
      BY <1>0, <2>1 DEF Register, Goto, Stage, TypeOK, Known, At
    <3>2. CASE p = player[s]
      BY <1>0, <3>1, <3>2 DEF TypeOK
    <3>3. CASE p # player[s]
      <4>1. online[p] = t
        BY <1>0, <3>1, <3>3 DEF TypeOK
      <4> QED
        BY <1>1, <1>5, <3>1, <4>1
    <3> QED
      BY <3>2, <3>3
  <2>2. CASE Unregister(s)
    <3>1. player' = player /\ online' = IF online[player[s]] = s
                                       THEN [online EXCEPT ![player[s]] = NoSession] ELSE online
      BY <2>2 DEF Unregister
    <3>2. online[p] = t
      BY <1>0, <1>4, <3>1 DEF TypeOK
    <3>3. t # s
      BY <1>0, <1>4, <1>5, <3>1, <3>2 DEF TypeOK
    <3> QED
      BY <1>1, <1>5, <3>2, <3>3
  <2>3. CASE Disconnect(s)
    <3>1. online' = online /\ (player[s] # Guest => handler'[s].at = "unregister")
      BY <1>0, <2>3 DEF Disconnect, Goto, Stage, TypeOK
    <3>2. t = s => player[s] # Guest
      BY <1>0, <1>4, <3>1 DEF OnlineOK
    <3> QED
      BY <1>1, <1>5, <3>1, <3>2
  <2>4. CASE ~Register(s) /\ ~Unregister(s) /\ ~Disconnect(s)
    <3>1. online' = online
      BY <2>4 DEF Handles, Continue, Login, CreateRoom, EnterFind, ExitRoom, Chat, Shout,
         EnterLeaveOld, EnterNew, ShoutNext
    <3>2. CASE \E r \in Rooms : EnterFind(s, r)
      <4>1. handler'[s].at \in {"enterNew", "leaveOld"}
        BY <1>0, <3>2 DEF EnterFind, Goto, Stage, TypeOK
      <4> QED
        BY <1>1, <1>5, <3>1, <4>1
    <3>3. CASE ~\E r \in Rooms : EnterFind(s, r)
      <4>1. handler[s] \in Handler
        BY <1>0 DEF TypeOK
      <4>2. handler'[s] = handler[s] \/ handler'[s].at # "gone"
        <5>1. CASE ShoutNext(s)
          <6>1. handler'[s].at \in {"shout", "idle"}
            BY <1>0, <4>1, <5>1 DEF ShoutNext, Goto, Stage, TypeOK, Handler, At
          <6> QED
            BY <6>1
        <5>2. CASE EnterLeaveOld(s)
          BY <1>0, <4>1, <5>2 DEF EnterLeaveOld, Goto, TypeOK, Handler
        <5>3. CASE Login(s) \/ CreateRoom(s) \/ Shout(s) \/ EnterNew(s)
          <6>1. handler'[s].at \in {"register", "idle", "shout"}
            BY <1>0, <5>3 DEF Login, CreateRoom, Shout, EnterNew, Goto, Stage, TypeOK
          <6> QED
            BY <6>1
        <5>4. CASE ExitRoom(s) \/ Chat(s)
          BY <5>4 DEF ExitRoom, Chat
        <5> QED
          BY <2>4, <3>3, <5>1, <5>2, <5>3, <5>4 DEF Handles, Continue
      <4> QED
        BY <1>1, <1>5, <3>1, <4>2
    <3> QED
      BY <3>2, <3>3
  <2> QED
    BY <2>1, <2>2, <2>3, <2>4
<1> QED
  BY <1>2, <1>3, <1>6

-------------------------------------------------------------------------------
(* A job's step preserves each part *)

\* Two sessions with an account do not have the same one.
LEMMA AccountsDiffer ==
  ASSUME OneAccountEach, Known, NEW s \in Sessions, NEW t \in Sessions,
         player[s] # Guest, player[s] = player[t]
  PROVE  s = t
BY DEF OneAccountEach, Known

\* What each job does to the room it runs in
LEMMA JobFrame ==
  ASSUME RoomInv, NEW r \in Rooms, RunJob(r)
  PROVE  /\ UNCHANGED <<created, online, player, room, handler>>
         /\ jobs[r] \in Seq(Job) /\ jobs[r] # <<>> /\ Head(jobs[r]) = jobs[r][1]
         /\ 1 \in 1 .. Len(jobs[r]) /\ Head(jobs[r]) \in Job
         /\ Head(jobs[r]).by \in Sessions /\ player[Head(jobs[r]).by] \in Players
         /\ jobs'[r] = Tail(jobs[r]) /\ Len(jobs'[r]) = Len(jobs[r]) - 1
         /\ \A k \in 1 .. Len(jobs'[r]) : k + 1 \in 1 .. Len(jobs[r]) /\ jobs'[r][k] = jobs[r][k + 1]
         /\ \A y \in Rooms : y # r => /\ jobs'[y] = jobs[y] /\ inside'[y] = inside[y]
                                      /\ members'[y] = members[y] /\ dead'[y] = dead[y]
<1>0. TypeOK /\ Known
  BY DEF RoomInv
<1>1. /\ jobs[r] # <<>> /\ jobs' = [jobs EXCEPT ![r] = Tail(@)]
      /\ UNCHANGED <<created, online, player, room, handler>>
  BY DEF RunJob, Enter, Leave, Broadcast, TakeJob, roomVars
<1>2. jobs[r] \in Seq(Job) /\ jobs'[r] = Tail(jobs[r]) /\ \A y \in Rooms : y # r => jobs'[y] = jobs[y]
  BY <1>0, <1>1 DEF TypeOK
<1>3. PICK q, z : q = jobs[r] /\ z = Tail(q)
  OBVIOUS
<1>4. /\ q \in Seq(Job) /\ q # <<>> /\ Len(q) \in Nat /\ Len(q) # 0 /\ Head(q) = q[1] /\ Head(q) \in Job
      /\ Len(z) = Len(q) - 1 /\ \A k \in 1 .. Len(z) : z[k] = q[k + 1]
  BY <1>1, <1>2, <1>3, HeadTailProperties, EmptySeq
<1>5. 1 \in 1 .. Len(q) /\ \A k \in 1 .. Len(z) : k + 1 \in 1 .. Len(q)
  BY <1>4
<1>6. Head(q).by \in Sessions
  BY <1>4 DEF Job
<1>7. player[Head(q).by] \in Players
  <2>1. player[Head(q).by] # Guest
    BY <1>0, <1>3, <1>4, <1>5, <1>6 DEF Known
  <2> QED
    BY <1>0, <1>6, <2>1 DEF TypeOK, Keys
<1>8. \A y \in Rooms : y # r => inside'[y] = inside[y] /\ members'[y] = members[y] /\ dead'[y] = dead[y]
  <2>1. \A y \in Rooms : y # r => inside'[y] = inside[y]
    BY <1>0 DEF TypeOK, RunJob, Enter, Leave, Broadcast, roomVars
  <2>2. \A y \in Rooms : y # r => members'[y] = members[y]
    BY <1>0 DEF TypeOK, RunJob, Enter, Leave, Broadcast, roomVars
  <2>3. \A y \in Rooms : y # r => dead'[y] = dead[y]
    BY <1>0 DEF TypeOK, RunJob, Enter, Leave, Broadcast, roomVars
  <2> QED
    BY <2>1, <2>2, <2>3
<1> QED
  BY <1>1, <1>2, <1>3, <1>4, <1>5, <1>6, <1>7, <1>8

\* The three jobs, and an Enter that comes too late
LEMMA JobEffect ==
  ASSUME RoomInv, NEW r \in Rooms, RunJob(r), NEW s \in Sessions, s = Head(jobs[r]).by
  PROVE  \/ /\ Head(jobs[r]).op = "enter" /\ ~dead[r] /\ dead' = dead /\ listed' = listed
            /\ inside'[r] = inside[r] \cup {s} /\ visited' = visited \cup {r}
            /\ \A p \in Keys : members'[r][p] = IF p = player[s] THEN s ELSE members[r][p]
         \/ /\ Head(jobs[r]).op = "leave" /\ visited' = visited
            /\ inside'[r] = inside[r] \ {s}
            /\ \A p \in Keys : members'[r][p] = IF p = player[s] THEN NoSession ELSE members[r][p]
            /\ dead'[r] <=> dead[r] \/ \A p \in Keys : members'[r][p] = NoSession
            /\ listed' = IF \A p \in Keys : members'[r][p] = NoSession THEN listed \ {r} ELSE listed
         \/ /\ Head(jobs[r]).op # "leave" /\ (Head(jobs[r]).op = "enter" => dead[r])
            /\ UNCHANGED <<listed, members, dead, inside, visited>>
<1>0. TypeOK
  BY DEF RoomInv
<1>1. CASE Enter(r)
  <2>1. CASE dead[r]
    BY <1>1, <2>1 DEF Enter, TakeJob
  <2>2. CASE ~dead[r]
    <3>1. /\ Head(jobs[r]).op = "enter" /\ dead' = dead /\ listed' = listed
          /\ members' = [members EXCEPT ![r][player[s]] = s]
          /\ inside' = [inside EXCEPT ![r] = @ \cup {s}] /\ visited' = visited \cup {r}
      BY <1>1, <2>2 DEF Enter, TakeJob
    <3>2. inside'[r] = inside[r] \cup {s}
      BY <1>0, <3>1 DEF TypeOK
    <3>3. \A p \in Keys : members'[r][p] = IF p = player[s] THEN s ELSE members[r][p]
      BY <1>0, <3>1 DEF TypeOK
    <3> QED
      BY <2>2, <3>1, <3>2, <3>3
  <2> QED
    BY <2>1, <2>2
<1>2. CASE Leave(r)
  <2> DEFINE left == [members[r] EXCEPT ![player[s]] = NoSession]
             empty == \A p \in Keys : left[p] = NoSession
  <2>1. /\ Head(jobs[r]).op = "leave" /\ visited' = visited
        /\ members' = [members EXCEPT ![r] = left]
        /\ inside' = [inside EXCEPT ![r] = @ \ {s}]
        /\ listed' = IF empty THEN listed \ {r} ELSE listed
    BY <1>2 DEF Leave, TakeJob
  <2>2. dead' = [dead EXCEPT ![r] = @ \/ empty]
    BY <1>2, Zenon DEF Leave
  <2>3. members'[r] = left
    BY <1>0, <2>1 DEF TypeOK
  <2>4. inside'[r] = inside[r] \ {s}
    BY <1>0, <2>1 DEF TypeOK
  <2>5. \A p \in Keys : members'[r][p] = IF p = player[s] THEN NoSession ELSE members[r][p]
    BY <1>0, <2>3 DEF TypeOK
  <2>6. empty <=> \A p \in Keys : members'[r][p] = NoSession
    BY <2>3
  <2> HIDE DEF empty
  <2>7. dead'[r] <=> dead[r] \/ empty
    BY <1>0, <2>2, Zenon DEF TypeOK
  <2> QED
    BY <2>1, <2>4, <2>5, <2>6, <2>7
<1>3. CASE Broadcast(r)
  BY <1>3 DEF Broadcast, TakeJob, roomVars
<1> QED
  BY <1>1, <1>2, <1>3 DEF RunJob

LEMMA TablesRun ==
  ASSUME OneAccountEach, RoomInv, NEW r \in Rooms, RunJob(r)
  PROVE  Known' /\ MembersOK' /\ CreatedOK' /\ OnlineOK'
<1>0. TypeOK /\ Known /\ MembersOK /\ CreatedOK /\ OnlineOK
  BY DEF RoomInv
<1>1. /\ UNCHANGED <<created, online, player, room, handler>>
      /\ jobs[r] # <<>> /\ Head(jobs[r]) = jobs[r][1] /\ 1 \in 1 .. Len(jobs[r])
      /\ \A k \in 1 .. Len(jobs'[r]) : k + 1 \in 1 .. Len(jobs[r]) /\ jobs'[r][k] = jobs[r][k + 1]
      /\ \A y \in Rooms : y # r => /\ jobs'[y] = jobs[y] /\ inside'[y] = inside[y]
                                   /\ members'[y] = members[y]
  BY JobFrame
<1>2. PICK s \in Sessions : s = Head(jobs[r]).by /\ player[s] \in Players
  BY JobFrame
<1>3. Guest \notin Players /\ NoSession \notin Sessions
  BY LoginsArePlayers
<1>4. /\ inside'[r] \subseteq inside[r] \cup {s} /\ visited' \subseteq visited \cup {r} /\ listed' \subseteq listed
  BY <1>2, JobEffect
<1>5. Known'
  <2>1. ASSUME NEW t \in Sessions, player[t] = Guest, NEW y \in Rooms
        PROVE  t \notin inside'[y] /\ \A i \in 1 .. Len(jobs'[y]) : jobs'[y][i].by # t
    <3>1. t # s
      BY <1>2, <1>3, <2>1
    <3>2. t \notin inside[y] /\ \A i \in 1 .. Len(jobs[y]) : jobs[y][i].by # t
      BY <1>0, <2>1 DEF Known
    <3>3. CASE y = r
      <4>1. t \notin inside'[r]
        BY <1>4, <3>1, <3>2, <3>3
      <4>2. \A i \in 1 .. Len(jobs'[r]) : jobs'[r][i].by # t
        BY <1>1, <3>2, <3>3
      <4> QED
        BY <3>3, <4>1, <4>2
    <3>4. CASE y # r
      BY <1>1, <3>2, <3>4
    <3> QED
      BY <3>3, <3>4
  <2> QED
    BY <1>0, <1>1, <2>1 DEF Known
<1>6. MembersOK'
  <2>1. ASSUME NEW p \in Keys, NEW t \in Sessions
        PROVE  members'[r][p] = t <=> t \in inside'[r] /\ player[t] = p
    <3>1. members[r][p] = t <=> t \in inside[r] /\ player[t] = p
      BY <1>0 DEF MembersOK
    <3>2. p = player[s] /\ player[t] = p => t = s
      BY <1>0, <1>2, <1>3, AccountsDiffer
    <3>3. CASE /\ inside'[r] = inside[r] \cup {s}
               /\ members'[r][p] = IF p = player[s] THEN s ELSE members[r][p]
      BY <3>1, <3>2, <3>3
    <3>4. CASE /\ inside'[r] = inside[r] \ {s}
               /\ members'[r][p] = IF p = player[s] THEN NoSession ELSE members[r][p]
      BY <1>3, <3>1, <3>2, <3>4
    <3>5. CASE UNCHANGED <<inside, members>>
      BY <3>1, <3>5
    <3> QED
      BY <1>2, <3>3, <3>4, <3>5, JobEffect
  <2> QED
    BY <1>0, <1>1, <2>1 DEF MembersOK
<1>7. CreatedOK'
  <2>1. r \in 1 .. created
    BY <1>0, <1>1 DEF CreatedOK
  <2>2. listed' \subseteq 1 .. created /\ visited' \subseteq 1 .. created
    BY <1>0, <1>4, <2>1 DEF CreatedOK
  <2>3. \A y \in Rooms : jobs'[y] # <<>> => y \in 1 .. created
    BY <1>0, <1>1, <2>1 DEF CreatedOK
  <2> QED
    BY <1>0, <1>1, <2>2, <2>3 DEF CreatedOK, At
<1>8. OnlineOK'
  BY <1>0, <1>1 DEF OnlineOK, At
<1> QED
  BY <1>5, <1>6, <1>7, <1>8

LEMMA EmptyRun ==
  ASSUME OneAccountEach, RoomInv, NEW r \in Rooms, RunJob(r)
  PROVE  DeadRoomIsEmpty' /\ UsedRoomIsListed'
<1>0. TypeOK /\ MembersOK /\ DeadRoomIsEmpty /\ UsedRoomIsListed
  BY DEF RoomInv
<1>1. TypeOK'
  BY <1>0, TypeStep DEF Next
<1>2. MembersOK'
  BY TablesRun
<1>3. \A y \in Rooms : y # r => inside'[y] = inside[y] /\ dead'[y] = dead[y]
  BY JobFrame
<1>4. PICK s \in Sessions : s = Head(jobs[r]).by
  BY JobFrame
<1>5. NoSession \notin Sessions
  BY LoginsArePlayers
<1>6. inside'[r] = {} <=> \A p \in Keys : members'[r][p] = NoSession
  <2>1. ASSUME NEW t \in inside'[r] PROVE \E p \in Keys : members'[r][p] # NoSession
    <3>1. t \in Sessions /\ player'[t] \in Keys
      BY <1>1 DEF TypeOK
    <3>2. members'[r][player'[t]] = t
      BY <1>2, <3>1 DEF MembersOK
    <3> QED
      BY <1>5, <3>1, <3>2
  <2>2. ASSUME NEW p \in Keys, members'[r][p] # NoSession PROVE inside'[r] # {}
    <3>1. members'[r][p] \in Sessions
      BY <1>1, <2>2 DEF TypeOK
    <3>2. members'[r][p] \in inside'[r]
      BY <1>2, <3>1 DEF MembersOK
    <3> QED
      BY <3>2
  <2> QED
    BY <2>1, <2>2
<1>7. dead[r] => inside[r] = {}
  BY <1>0 DEF DeadRoomIsEmpty
<1>8. dead'[r] => inside'[r] = {}
  <2>1. CASE ~dead[r] /\ dead' = dead
    BY <2>1
  <2>2. CASE inside'[r] = inside[r] \ {s}
             /\ (dead'[r] <=> dead[r] \/ \A p \in Keys : members'[r][p] = NoSession)
    BY <1>6, <1>7, <2>2
  <2>3. CASE UNCHANGED <<dead, inside>>
    BY <1>7, <2>3
  <2> QED
    BY <1>4, <2>1, <2>2, <2>3, JobEffect
<1>9. DeadRoomIsEmpty'
  BY <1>0, <1>3, <1>8 DEF DeadRoomIsEmpty
<1>10. UsedRoomIsListed'
  <2>1. CASE inside'[r] = inside[r] \cup {s} /\ visited' = visited \cup {r} /\ listed' = listed
    <3> SUFFICES ASSUME NEW y \in visited', y \in listed' PROVE inside'[y] # {}
      BY DEF UsedRoomIsListed
    <3>1. CASE y = r
      BY <2>1, <3>1
    <3>2. CASE y # r
      <4>1. y \in visited /\ y \in listed /\ y \in Rooms
        BY <1>0, <2>1, <3>2 DEF TypeOK
      <4> QED
        BY <1>0, <1>3, <3>2, <4>1 DEF UsedRoomIsListed
    <3> QED
      BY <3>1, <3>2
  <2>2. CASE /\ inside'[r] = inside[r] \ {s} /\ visited' = visited
             /\ listed' = IF \A p \in Keys : members'[r][p] = NoSession THEN listed \ {r} ELSE listed
    <3> SUFFICES ASSUME NEW y \in visited, y \in listed' PROVE inside'[y] # {}
      BY <2>2 DEF UsedRoomIsListed
    <3>1. CASE y = r
      BY <1>6, <2>2, <3>1
    <3>2. CASE y # r
      <4>1. y \in listed /\ y \in Rooms
        BY <1>0, <2>2 DEF TypeOK
      <4> QED
        BY <1>0, <1>3, <3>2, <4>1 DEF UsedRoomIsListed
    <3> QED
      BY <3>1, <3>2
  <2>3. CASE UNCHANGED <<listed, inside, visited>>
    BY <1>0, <2>3 DEF UsedRoomIsListed
  <2> QED
    BY <1>4, <2>1, <2>2, <2>3, JobEffect
<1> QED
  BY <1>9, <1>10

LEMMA BelongRun ==
  ASSUME OneAccountEach, RoomInv, NEW r \in Rooms, RunJob(r)
  PROVE  BelongOK' /\ ChatOK'
<1>0. TypeOK /\ BelongOK /\ ChatOK /\ DeadRoomIsEmpty
  BY DEF RoomInv
<1>1. PICK q, before, after : q = jobs[r] /\ before = inside[r] /\ after = inside'[r]
  OBVIOUS
<1>2. /\ UNCHANGED <<room, handler>>
      /\ q \in Seq(Job) /\ q # <<>> /\ Head(q) \in Job /\ Len(q) \in 1 .. Len(q)
      /\ jobs'[r] = Tail(q) /\ Len(Tail(q)) = Len(q) - 1
      /\ \A k \in 1 .. Len(Tail(q)) : k + 1 \in 1 .. Len(q) /\ Tail(q)[k] = q[k + 1]
      /\ \A y \in Rooms : y # r => jobs'[y] = jobs[y] /\ inside'[y] = inside[y] /\ dead'[y] = dead[y]
  <2>1. /\ UNCHANGED <<room, handler>>
        /\ jobs[r] \in Seq(Job) /\ jobs[r] # <<>> /\ Head(jobs[r]) \in Job /\ 1 \in 1 .. Len(jobs[r])
        /\ jobs'[r] = Tail(jobs[r]) /\ Len(jobs'[r]) = Len(jobs[r]) - 1
        /\ \A k \in 1 .. Len(jobs'[r]) : k + 1 \in 1 .. Len(jobs[r]) /\ jobs'[r][k] = jobs[r][k + 1]
        /\ \A y \in Rooms : y # r => jobs'[y] = jobs[y] /\ inside'[y] = inside[y] /\ dead'[y] = dead[y]
    BY JobFrame
  <2>2. Len(jobs[r]) \in Nat /\ Len(jobs[r]) \in 1 .. Len(jobs[r])
    BY <2>1
  <2> QED
    BY <1>1, <2>1, <2>2
<1>3. PICK s \in Sessions : s = Head(q).by
  BY <1>2 DEF Job
<1>4. /\ dead[r] => dead'[r] /\ before = {}
      /\ \/ Head(q).op = "enter" /\ after = before \cup {s} /\ dead'[r] = dead[r]
         \/ Head(q).op = "leave" /\ after = before \ {s}
         \/ /\ Head(q).op # "leave" /\ after = before /\ dead'[r] = dead[r]
            /\ Head(q).op = "enter" => dead[r]
  <2>1. dead[r] => before = {}
    BY <1>0, <1>1 DEF DeadRoomIsEmpty
  <2>2. \/ Head(q).op = "enter" /\ ~dead[r] /\ dead' = dead /\ inside'[r] = inside[r] \cup {s}
        \/ Head(q).op = "leave" /\ inside'[r] = inside[r] \ {s} /\ (dead[r] => dead'[r])
        \/ Head(q).op # "leave" /\ (Head(q).op = "enter" => dead[r]) /\ UNCHANGED <<dead, inside>>
    BY <1>1, <1>3, JobEffect
  <2> QED
    BY <1>1, <2>1, <2>2
\* what StaysTail asks for
<1>5. ASSUME NEW t \in Sessions
      PROVE  /\ Is(Head(q), "leave", t) => t \notin after
             /\ ~Is(Head(q), "enter", t) /\ ~Is(Head(q), "leave", t) => (t \in after <=> t \in before)
             /\ Is(Head(q), "enter", t) \/ t \notin after \/ t \in before
             /\ dead'[r] \/ (Is(Head(q), "enter", t) => t \in after)
  BY <1>3, <1>4 DEF Is
<1>6. ASSUME NEW t \in Sessions, NEW k \in 1 .. Len(q)
      PROVE  /\ Stays(Tail(q), after, t, k - 1) => Stays(q, before, t, k)
             /\ Stays(q, before, t, k) => Stays(Tail(q), after, t, k - 1) \/ dead'[r]
  BY <1>2, <1>5, StaysTail
<1>7. ASSUME NEW t \in Sessions
      PROVE  /\ Stays(Tail(q), after, t, Len(Tail(q))) => Belongs(t, r)
             /\ Belongs(t, r) => Stays(Tail(q), after, t, Len(Tail(q))) \/ dead'[r]
  <2>1. /\ Stays(q, before, t, Len(q)) => Belongs(t, r)
        /\ Belongs(t, r) => Stays(q, before, t, Len(q)) \/ dead[r]
    BY <1>0, <1>1 DEF BelongOK
  <2>2. /\ Stays(Tail(q), after, t, Len(q) - 1) => Stays(q, before, t, Len(q))
        /\ Stays(q, before, t, Len(q)) => Stays(Tail(q), after, t, Len(q) - 1) \/ dead'[r]
    BY <1>2, <1>6
  <2> QED
    BY <1>2, <1>4, <2>1, <2>2
<1>8. BelongOK'
  <2>1. \A t \in Sessions, y \in Rooms : Belongs(t, y)' <=> Belongs(t, y)
    BY <1>2 DEF Belongs, At
  <2>2. ASSUME NEW t \in Sessions, NEW y \in Rooms
        PROVE  /\ Stays(jobs'[y], inside'[y], t, Len(jobs'[y])) => Belongs(t, y)'
               /\ Belongs(t, y)' => Stays(jobs'[y], inside'[y], t, Len(jobs'[y])) \/ dead'[y]
    <3>1. CASE y = r
      BY <1>1, <1>2, <1>7, <2>1, <3>1
    <3>2. CASE y # r
      BY <1>0, <1>2, <2>1, <3>2 DEF BelongOK
    <3> QED
      BY <3>1, <3>2
  <2> QED
    BY <2>2 DEF BelongOK
<1>9. ChatOK'
  <2>1. ASSUME NEW y \in Rooms, NEW k \in 1 .. Len(jobs'[y]), jobs'[y][k].op = "chat"
        PROVE  dead'[y] \/ Stays(jobs'[y], inside'[y], jobs'[y][k].by, k)
    <3>1. CASE y # r
      BY <1>0, <1>2, <2>1, <3>1 DEF ChatOK
    <3>2. CASE y = r
      <4>1. PICK i \in 1 .. Len(q) : i = k + 1 /\ i - 1 = k /\ jobs'[y][k] = q[i]
        BY <1>2, <3>2
      <4>2. q[i] \in Job
        BY <1>2
      <4>3. PICK t \in Sessions : t = q[i].by
        BY <4>2 DEF Job
      <4>4. q[i].op = "chat"
        BY <2>1, <4>1
      <4>5. dead[r] \/ Stays(q, before, t, i)
        BY <1>0, <1>1, <4>3, <4>4 DEF ChatOK
      <4>6. dead'[r] \/ Stays(Tail(q), after, t, i - 1)
        BY <1>4, <1>6, <4>5
      <4> QED
        BY <1>1, <1>2, <3>2, <4>1, <4>3, <4>6
    <3> QED
      BY <3>1, <3>2
  <2> QED
    BY <2>1 DEF ChatOK
<1> QED
  BY <1>8, <1>9

-------------------------------------------------------------------------------
(* The invariant *)

LEMMA RoomInvStep ==
  ASSUME OneAccountEach, RoomInv, [Next]_vars
  PROVE  RoomInv'
<1>1. TypeOK'
  BY TypeStep DEF RoomInv
<1>2. ASSUME NEW s \in Sessions, Handles(s) PROVE RoomInv'
  BY <1>1, <1>2, KnownHandles, MembersHandles, CreatedHandles, BelongHandles, RestHandles DEF RoomInv
<1>3. ASSUME NEW r \in Rooms, RunJob(r) PROVE RoomInv'
  BY <1>1, <1>3, TablesRun, BelongRun, EmptyRun DEF RoomInv
<1>4. CASE UNCHANGED vars
  <2>1. Known' /\ MembersOK' /\ CreatedOK'
    BY <1>4 DEF RoomInv, vars, Known, MembersOK, CreatedOK, At
  <2>2. BelongOK' /\ ChatOK'
    BY <1>4 DEF RoomInv, vars, BelongOK, ChatOK, Belongs, At
  <2>3. DeadRoomIsEmpty' /\ UsedRoomIsListed' /\ OnlineOK'
    BY <1>4 DEF RoomInv, vars, DeadRoomIsEmpty, UsedRoomIsListed, OnlineOK, At
  <2> QED
    BY <1>1, <2>1, <2>2, <2>3 DEF RoomInv
<1> QED
  BY <1>2, <1>3, <1>4 DEF Next, Handles

LEMMA SpecRoomInv == OneAccountEach => (Spec => []RoomInv)
<1>1. Init => RoomInv
  BY RoomInvStarts
<1>2. OneAccountEach /\ RoomInv /\ [Next]_vars => RoomInv'
  BY RoomInvStep
<1>3. SUFFICES ASSUME OneAccountEach PROVE Spec => []RoomInv
  OBVIOUS
<1>4. RoomInv /\ [Next]_vars => RoomInv'
  BY <1>2, <1>3
<1> QED
  BY <1>1, <1>4, PTL DEF Spec

-------------------------------------------------------------------------------
(* What the invariant is good for *)

\* Every variable keeps its type, for whatever accounts the clients use.
THEOREM SpecTypeOK == Spec => []TypeOK
<1>1. Init => TypeOK
  BY RoomInvStarts DEF RoomInv
<1>2. TypeOK /\ [Next]_vars => TypeOK'
  BY TypeStep
<1> QED
  BY <1>1, <1>2, PTL DEF Spec

LEMMA MemberIsInside ==
  ASSUME RoomInv, NEW s \in Sessions, NEW r \in Rooms
  PROVE  IsMember(s, r) <=> s \in inside[r]
<1>1. player[s] \in Keys
  BY DEF RoomInv, TypeOK
<1> QED
  BY <1>1 DEF RoomInv, MembersOK, IsMember

\* Where every client has an account of its own: a session whose CurrentRoom
\* is r is in r or will be, unless r died before its Enter ran.
THEOREM SpecCurrentRoomIsReal == OneAccountEach => (Spec => []CurrentRoomIsReal)
<1>1. RoomInv => CurrentRoomIsReal
  <2> SUFFICES ASSUME RoomInv, NEW s \in Sessions, NEW r \in Rooms, room[s] = r,
                      ~dead[r], ~At(s, "enterNew")
               PROVE  IsMember(s, r) \/ s \in Waiting(r, "enter")
    BY DEF CurrentRoomIsReal
  <2>1. Stays(jobs[r], inside[r], s, Len(jobs[r]))
    BY DEF RoomInv, BelongOK, Belongs
  <2>2. CASE s \in inside[r]
    BY <2>2, MemberIsInside
  <2>3. CASE \E i \in 1 .. Len(jobs[r]) : Is(jobs[r][i], "enter", s)
    <3>1. DOMAIN jobs[r] = 1 .. Len(jobs[r])
      BY DEF RoomInv, TypeOK
    <3> QED
      BY <2>3, <3>1 DEF Is, Waiting
  <2> QED
    BY <2>1, <2>2, <2>3 DEF Stays
<1> QED
  BY <1>1, SpecRoomInv, PTL

\* Nobody is left behind: a member whose CurrentRoom is another room, or
\* none, has a Leave on its way.
THEOREM SpecNoGhostMember == OneAccountEach => (Spec => []NoGhostMember)
<1>1. RoomInv => NoGhostMember
  <2> SUFFICES ASSUME RoomInv, NEW s \in Sessions, NEW r \in Rooms, IsMember(s, r), room[s] # r
               PROVE  s \in Waiting(r, "leave")
    BY DEF NoGhostMember
  <2>1. s \in inside[r]
    BY MemberIsInside
  <2>2. ~Stays(jobs[r], inside[r], s, Len(jobs[r]))
    BY DEF RoomInv, BelongOK, Belongs
  <2>3. PICK i \in 1 .. Len(jobs[r]) : Is(jobs[r][i], "leave", s)
    BY <2>1, <2>2 DEF Stays
  <2>4. DOMAIN jobs[r] = 1 .. Len(jobs[r])
    BY DEF RoomInv, TypeOK
  <2> QED
    BY <2>3, <2>4 DEF Is, Waiting
<1> QED
  BY <1>1, SpecRoomInv, PTL

\* A room dies only when nobody is in it, and a late Enter changes nothing.
THEOREM SpecDeadRoomIsEmpty == OneAccountEach => (Spec => []DeadRoomIsEmpty)
<1>1. RoomInv => DeadRoomIsEmpty
  BY DEF RoomInv
<1> QED
  BY <1>1, SpecRoomInv, PTL

\* A room that has been used leaves the list with its last member.
THEOREM SpecUsedRoomIsListed == OneAccountEach => (Spec => []UsedRoomIsListed)
<1>1. RoomInv => UsedRoomIsListed
  BY DEF RoomInv
<1> QED
  BY <1>1, SpecRoomInv, PTL

\* When a chat job runs, its speaker is in the audience, is gone, or spoke to
\* a room that died before he got in.
THEOREM SpecSpeakerHears == OneAccountEach => (Spec => []SpeakerHears)
<1>1. RoomInv => SpeakerHears
  <2> SUFFICES ASSUME RoomInv, NEW r \in Rooms, jobs[r] # <<>>, Head(jobs[r]).op = "chat", ~dead[r],
                      NEW s, s = Head(jobs[r]).by, ~At(s, "gone")
               PROVE  s \in Audience(r)
    BY DEF SpeakerHears
  <2>1. jobs[r] \in Seq(Job)
    BY DEF RoomInv, TypeOK
  <2>2. Len(jobs[r]) \in Nat /\ Len(jobs[r]) # 0 /\ Head(jobs[r]) = jobs[r][1] /\ Head(jobs[r]) \in Job
    BY <2>1, HeadTailProperties, EmptySeq
  <2>3. s \in Sessions /\ 1 \in 1 .. Len(jobs[r]) /\ \A i \in 1 .. 1 : i = 1
    BY <2>2 DEF Job
  <2>4. Stays(jobs[r], inside[r], s, 1)
    BY <2>2, <2>3 DEF RoomInv, ChatOK
  <2>5. s \in inside[r]
    BY <2>2, <2>3, <2>4 DEF Stays, Is
  <2> QED
    BY <2>3, <2>5, MemberIsInside DEF Audience, IsMember
<1> QED
  BY <1>1, SpecRoomInv, PTL

\* The list of the online players names no session that is gone.
THEOREM SpecNoGhostOnline == OneAccountEach => (Spec => []NoGhostOnline)
<1>1. RoomInv => NoGhostOnline
  BY DEF RoomInv, OnlineOK, NoGhostOnline
<1> QED
  BY <1>1, SpecRoomInv, PTL

\* For whatever accounts the clients use: only the session that an entry of
\* the online list names takes it out again.
THEOREM SpecNewLoginStaysOnline == Spec => NewLoginStaysOnline
<1> DEFINE Kept == \A p \in Players : online[p] # NoSession /\ online'[p] = NoSession =>
                      At(online[p], "unregister")
<1>1. TypeOK /\ [Next]_vars => [Kept]_vars
  <2> SUFFICES ASSUME TypeOK, Next, NEW p \in Players, online[p] # NoSession, online'[p] = NoSession
               PROVE  At(online[p], "unregister")
    BY DEF Kept
  <2>0. NoSession \notin Sessions
    BY LoginsArePlayers
  <2>1. CASE \E s \in Sessions : Unregister(s)
    <3>1. PICK s \in Sessions : Unregister(s)
      BY <2>1
    <3>2. online[player[s]] = s /\ p = player[s]
      BY <3>1 DEF Unregister, TypeOK
    <3> QED
      BY <3>1, <3>2 DEF Unregister
  <2>2. CASE \E s \in Sessions : Register(s)
    BY <2>0, <2>2 DEF Register, TypeOK
  <2>3. CASE ~(\E s \in Sessions : Unregister(s)) /\ ~(\E s \in Sessions : Register(s))
    <3>1. online' = online
      BY <2>3 DEF Next, Continue, Login, Disconnect, CreateRoom, EnterFind, ExitRoom, Chat, Shout,
         EnterLeaveOld, EnterNew, ShoutNext, RunJob, Enter, Leave, Broadcast
    <3> QED
      BY <3>1
  <2> QED
    BY <2>1, <2>2, <2>3
<1>2. Spec => []TypeOK
  BY SpecTypeOK
<1>3. Spec => [][Kept]_vars
  BY <1>1, <1>2, PTL DEF Spec
<1> QED
  BY <1>3 DEF NewLoginStaysOnline
===============================================================================
