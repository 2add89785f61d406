------------------------------ MODULE SessionIO -------------------------------
(***************************************************************************)
(* ServerCore/Session.cpp: any thread may Send to a session; the messages  *)
(* wait in WriteQueue for a DoWrite coroutine, which is spawned by the     *)
(* Send that finds none, while a DoRead coroutine receives.  A write that  *)
(* fails empties the queue and closes the socket, which ends DoRead.       *)
(*                                                                         *)
(* One step is one critical section of WriteMutex, one transmission or one *)
(* call on the socket.  Messages are numbered in the order in which they   *)
(* enter WriteQueue.  asio::async_write sends a message in several writes: *)
(* here in two halves, so that two writers at once would mix up the bytes. *)
(***************************************************************************)
EXTENDS Naturals, Sequences, FiniteSets

CONSTANTS Threads,    \* the threads that call Send
          MaxSends,   \* bound on the number of Send calls
          Transient   \* can a write fail on a connection that still works?

ASSUME ThreadsFinite   == IsFiniteSet(Threads)
ASSUME MaxSendsIsNat   == MaxSends \in Nat
ASSUME TransientIsBool == Transient \in BOOLEAN

Messages == 1 .. MaxSends
Writers  == 1 .. MaxSends  \* a Send spawns at most one DoWrite

VARIABLES
  writeQueue,    \* WriteQueue, guarded by WriteMutex
  bIsWriting,    \* bIsWriting, guarded by WriteMutex
  accepted,      \* number of messages that have entered WriteQueue
  send,          \* send[t]: "spawn" when thread t is to start a writer
  writer,        \* writer[w]: the w-th DoWrite coroutine
  spawned,       \* number of DoWrite coroutines so far
  reader,        \* the DoRead coroutine
  socket,        \* "open", "down" (the connection is lost) or "closed"
  wire           \* the half messages transmitted so far (history)

vars == <<writeQueue, bIsWriting, accepted, send, writer, spawned, reader,
          socket, wire>>

\* buf: the message being written; half: which half comes next
Writer == [at : {"none", "loop", "write", "failed", "close", "done"},
           buf : Messages \cup {0}, half : {1, 2}]

NoWriter == [at |-> "none", buf |-> 0, half |-> 1]

TypeOK ==
  /\ writeQueue \in Seq(Messages)
  /\ bIsWriting \in BOOLEAN
  /\ accepted \in 0 .. MaxSends
  /\ send \in [Threads -> {"out", "spawn"}]
  /\ writer \in [Writers -> Writer]
  /\ spawned \in 0 .. MaxSends
  /\ reader \in {"read", "handle", "ended"}
  /\ socket \in {"open", "down", "closed"}
  /\ wire \in Seq(Messages \X {1, 2})

Init ==
  /\ writeQueue = <<>>
  /\ bIsWriting = FALSE
  /\ accepted = 0
  /\ send = [t \in Threads |-> "out"]
  /\ writer = [w \in Writers |-> NoWriter]
  /\ spawned = 0
  /\ reader = "read"
  /\ socket = "open"
  /\ wire = <<>>

-------------------------------------------------------------------------------
(* Session::Send *)

\* Mutant of SendLocked: bIsWriting is not looked at
SendAlwaysSpawns(t) ==
  /\ send[t] = "out"
  /\ accepted < MaxSends
  /\ accepted' = accepted + 1
  /\ writeQueue' = Append(writeQueue, accepted + 1)
  /\ bIsWriting' = TRUE
  /\ send' = [send EXCEPT ![t] = "spawn"]
  /\ UNCHANGED <<writer, spawned, reader, socket, wire>>

\* the critical section: push, and claim the writer role if nobody has it
SendLocked(t) ==
  /\ send[t] = "out"
  /\ accepted < MaxSends
  /\ accepted' = accepted + 1
  /\ writeQueue' = Append(writeQueue, accepted + 1)
  /\ bIsWriting' = TRUE
  /\ send' = IF bIsWriting THEN send ELSE [send EXCEPT ![t] = "spawn"]
  /\ UNCHANGED <<writer, spawned, reader, socket, wire>>

\* co_spawn(DoWrite), outside the lock
SendSpawns(t) ==
  /\ send[t] = "spawn"
  /\ send' = [send EXCEPT ![t] = "out"]
  /\ spawned' = spawned + 1
  /\ writer' = [writer EXCEPT ![spawned + 1].at = "loop"]
  /\ UNCHANGED <<writeQueue, bIsWriting, accepted, reader, socket, wire>>

-------------------------------------------------------------------------------
(* Session::DoWrite *)

\* Mutant of WriterTakes: bIsWriting is not reset when the queue is empty
WriterKeepsRole(w) ==
  /\ writer[w].at = "loop"
  /\ \/ /\ writeQueue = <<>>
        /\ writer' = [writer EXCEPT ![w].at = "done"]
        /\ UNCHANGED writeQueue
     \/ /\ writeQueue # <<>>
        /\ writeQueue' = Tail(writeQueue)
        /\ writer' = [writer EXCEPT ![w] = [at |-> "write",
                                            buf |-> Head(writeQueue), half |-> 1]]
  /\ UNCHANGED <<bIsWriting, accepted, send, spawned, reader, socket, wire>>

\* the critical section: the next message, or the end of this writer
WriterTakes(w) ==
  /\ writer[w].at = "loop"
  /\ \/ /\ writeQueue = <<>>
        /\ bIsWriting' = FALSE
        /\ writer' = [writer EXCEPT ![w].at = "done"]
        /\ UNCHANGED writeQueue
     \/ /\ writeQueue # <<>>
        /\ writeQueue' = Tail(writeQueue)
        /\ writer' = [writer EXCEPT ![w] = [at |-> "write",
                                            buf |-> Head(writeQueue), half |-> 1]]
        /\ UNCHANGED bIsWriting
  /\ UNCHANGED <<accepted, send, spawned, reader, socket, wire>>

WriterTransmits(w) ==
  /\ writer[w].at = "write"
  /\ socket = "open"
  /\ wire' = Append(wire, <<writer[w].buf, writer[w].half>>)
  /\ writer' = [writer EXCEPT ![w] = IF @.half = 1 THEN [@ EXCEPT !.half = 2]
                                     ELSE [NoWriter EXCEPT !.at = "loop"]]
  /\ UNCHANGED <<writeQueue, bIsWriting, accepted, send, spawned, reader, socket>>

\* async_write throws
WriterFails(w) ==
  /\ writer[w].at = "write"
  /\ socket # "open" \/ Transient
  /\ writer' = [writer EXCEPT ![w] = [NoWriter EXCEPT !.at = "failed"]]
  /\ UNCHANGED <<writeQueue, bIsWriting, accepted, send, spawned, reader, socket,
                 wire>>

\* Mutant of WriterClears: WriteQueue keeps its messages
WriterResigns(w) ==
  /\ writer[w].at = "failed"
  /\ bIsWriting' = FALSE
  /\ writer' = [writer EXCEPT ![w].at = "close"]
  /\ UNCHANGED <<writeQueue, accepted, send, spawned, reader, socket, wire>>

\* the critical section of the catch clause
WriterClears(w) ==
  /\ writer[w].at = "failed"
  /\ writeQueue' = <<>>
  /\ bIsWriting' = FALSE
  /\ writer' = [writer EXCEPT ![w].at = "close"]
  /\ UNCHANGED <<accepted, send, spawned, reader, socket, wire>>

\* Mutant of WriterDisconnects: the socket stays open
WriterEnds(w) ==
  /\ writer[w].at = "close"
  /\ writer' = [writer EXCEPT ![w].at = "done"]
  /\ UNCHANGED <<writeQueue, bIsWriting, accepted, send, spawned, reader, socket,
                 wire>>

\* Disconnect, outside the lock
WriterDisconnects(w) ==
  /\ writer[w].at = "close"
  /\ socket' = "closed"
  /\ writer' = [writer EXCEPT ![w].at = "done"]
  /\ UNCHANGED <<writeQueue, bIsWriting, accepted, send, spawned, reader, wire>>

-------------------------------------------------------------------------------
(* Session::DoRead *)

\* async_read_some completes; OnReceived runs the handlers
ReaderReceives ==
  /\ reader = "read"
  /\ socket = "open"
  /\ reader' = "handle"
  /\ UNCHANGED <<writeQueue, bIsWriting, accepted, send, writer, spawned, socket,
                 wire>>

\* OnReceived has returned
ReaderLoops ==
  /\ reader = "handle"
  /\ reader' = "read"
  /\ UNCHANGED <<writeQueue, bIsWriting, accepted, send, writer, spawned, socket,
                 wire>>

\* async_read_some throws and the catch clause calls OnDisconnected
ReaderThrows ==
  /\ reader = "read"
  /\ socket # "open"
  /\ reader' = "ended"
  /\ UNCHANGED <<writeQueue, bIsWriting, accepted, send, writer, spawned, socket,
                 wire>>

\* the peer closes or resets the connection
ConnectionLost ==
  /\ socket = "open"
  /\ socket' = "down"
  /\ UNCHANGED <<writeQueue, bIsWriting, accepted, send, writer, spawned, reader,
                 wire>>

-------------------------------------------------------------------------------
WriterStep(w) == \/ WriterTakes(w) \/ WriterTransmits(w) \/ WriterFails(w)
                 \/ WriterClears(w) \/ WriterDisconnects(w)

ReaderStep == ReaderLoops \/ ReaderThrows

Next == \/ \E t \in Threads : SendLocked(t) \/ SendSpawns(t)
        \/ \E w \in Writers : WriterStep(w)
        \/ ReaderReceives \/ ReaderStep
        \/ ConnectionLost

Spec == Init /\ [][Next]_vars

\* The workers poll the io_context, so a coroutine that can go on goes on.
\* Nothing makes a client send or a thread call Send.
FairSpec == /\ Spec
            /\ \A t \in Threads : WF_vars(SendSpawns(t))
            /\ \A w \in Writers : WF_vars(WriterStep(w))
            /\ WF_vars(ReaderStep)

-------------------------------------------------------------------------------
(* Properties *)

\* the coroutines between their start and the step that gives up the role
Active == {w \in Writers : writer[w].at \in {"loop", "write", "failed"}}

Spawning == {t \in Threads : send[t] = "spawn"}

\* bIsWriting says whether somebody has the role of the writer, and never
\* two have it: one DoWrite, or one Send on its way to spawn it
\* (Session.h:36-40; two writers mixed up the queue and the bytes).
OneWriter ==
  /\ \A v, w \in Active : v = w
  /\ \A t, u \in Spawning : t = u
  /\ Active = {} \/ Spawning = {}
  /\ bIsWriting <=> (Active # {} \/ Spawning # {})

\* No lost wake-up: a message is never in the queue without a writer that
\* will find it there (Session.cpp:73-75).
QueueHasWriter == writeQueue # <<>> => bIsWriting

\* What the peer receives is made of whole messages in the order of the
\* pushes, none of them twice: a half is followed by its other half or, when
\* its writer has failed, by the beginning of a later message.
StreamInOrder ==
  \A i \in DOMAIN wire \ {1} :
     LET before == wire[i - 1]  now == wire[i] IN
     \/ now = <<before[1], 2>> /\ before[2] = 1
     \/ now[2] = 1 /\ now[1] > before[1]

InHands(n) == \/ n \in {writeQueue[i] : i \in DOMAIN writeQueue}
              \/ \E w \in Writers : writer[w].at = "write" /\ writer[w].buf = n

Failing == \E w \in Writers : writer[w].at \in {"failed", "close"}

\* A message is lost only together with its session: one that was accepted is
\* in the queue, with its writer or received as a whole, or else the socket is
\* closed or a writer that has failed is about to close it.
LostOnlyWithSession ==
  \A n \in 1 .. accepted :
     \/ InHands(n)
     \/ \E i \in DOMAIN wire : wire[i] = <<n, 2>>
     \/ Failing \/ socket = "closed"

\* A message that was sent reaches the peer, unless the connection is lost.
EverythingIsSent ==
  \A n \in Messages : (accepted >= n) ~> (Len(wire) >= 2 * n \/ socket # "open")

\* A failed write ends the session: DoRead leaves with OnDisconnected, which
\* takes the session out of its room and of SessionManager (Session.cpp:91-92).
FailureEndsSession ==
  \A w \in Writers : (writer[w].at = "failed") ~> (reader = "ended")
===============================================================================
