----------------------------- MODULE PacketPath ------------------------------
(***************************************************************************)
(* The way of a packet through the server: bytes of a session arrive in    *)
(* its receive buffer, OnReceived cuts packets out of them and calls their *)
(* handlers on the worker that has resumed DoRead, and a handler answers   *)
(* with a packet cut from the send chunk of that worker. Meanwhile other   *)
(* workers make packets of their own (jobs of rooms, AI pieces), and       *)
(* sessions write and drop what was queued.                                *)
(***************************************************************************)
EXTENDS RecvBuffer, SendBufferPool

CONSTANTS
  NoThread,
  MaxPackets,    \* bound: packets the client sends
  MaxMessages    \* bound: packets the server makes beside the answers

ASSUME BoundsAreNat == MaxPackets \in Nat /\ MaxMessages \in Nat /\ NoThread \notin Threads

VARIABLES
  runner,        \* worker that runs DoRead between two async_read_some
  owes           \* the handler running on it has not sent its answer yet

vars == <<recvVars, poolVars, runner, owes>>

Init ==
  /\ RecvInit /\ PoolInit
  /\ runner = NoThread
  /\ owes = FALSE

-----------------------------------------------------------------------------

Client ==
  /\ sent < MaxPackets
  /\ \E n \in Sizes : ClientSends(n)
  /\ UNCHANGED <<poolVars, runner, owes>>

\* Some worker that is not in the middle of a packet resumes DoRead.
Resume(t) ==
  /\ runner = NoThread
  /\ Ready(t)
  /\ \E n \in 1 .. Capacity : Receive(n)
  /\ runner' = t
  /\ UNCHANGED <<poolVars, owes>>

Handler(t) ==
  /\ runner = t /\ ~owes
  /\ HandlePacket
  /\ owes' = TRUE
  /\ UNCHANGED <<poolVars, runner>>

Suspend(t) ==
  /\ runner = t /\ ~owes
  /\ ReadAgain
  /\ runner' = NoThread
  /\ UNCHANGED <<poolVars, owes>>

\* The worker makes a packet: the answer it owes, or one of a job or coroutine.
MayMake(t) == IF runner = t THEN owes ELSE made - handled < MaxMessages

MakePacket(t) ==
  /\ \/ MayMake(t) /\ \E n \in Replies : Open(t, n) \/ PopPooled(t, n) \/ PopCreated(t, n)
     \/ OpenPopped(t)
  /\ UNCHANGED <<recvVars, runner, owes>>

SendPacket(t) ==
  /\ Close(t)
  /\ owes' = (owes /\ runner # t)
  /\ UNCHANGED <<recvVars, runner>>

Written ==
  /\ \E b \in live : Release(b)
  /\ UNCHANGED <<recvVars, runner, owes>>

Deleter ==
  /\ \E c \in dropped : PushGlobal(c)
  /\ UNCHANGED <<recvVars, runner, owes>>

Next ==
  \/ Client
  \/ \E t \in Threads :
       Resume(t) \/ Handler(t) \/ Suspend(t) \/ MakePacket(t) \/ SendPacket(t)
  \/ Written
  \/ Deleter

Spec == Init /\ [][Next]_vars

-----------------------------------------------------------------------------

TypeOK ==
  /\ RecvTypeOK /\ PoolTypeOK
  /\ runner \in Threads \cup {NoThread}
  /\ owes \in BOOLEAN
  /\ reading <=> runner = NoThread
  /\ owes => ~reading
===============================================================================
