# TLA+ models of Asio_ChatServer

A C++20 chat server on Boost.Asio coroutines: accounts with point transfers,
friends, chat rooms, whispers and an AI partner, with a small ORM over ODBC.
This directory holds TLA+ models of the parts whose correctness depends on
interleavings, failures and order, the instances TLC checks, and proofs that
TLAPS checks. `PROJECT.json` maps every definition to the lines it models
(paths below are relative to the repository, `src/` left out).

- [1. The system](#1-the-system)
- [2. The modules](#2-the-modules)
- [3. What is checked](#3-what-is-checked)
- [4. What is proved](#4-what-is-proved)
- [5. Where code and documentation disagree](#5-where-code-and-documentation-disagree)
- [6. What is not modelled](#6-what-is-not-modelled)
- [7. Plan](#7-plan)

## 1. The system

`ServerApp::Run` starts hardware-concurrency worker threads. Each turns
`DoWorkerLoop`: `io_context::poll()` runs ready handlers and coroutines, then
the thread pops queues from the `GlobalQueue` and executes them until its time
slice (64 ms) is over. All shared state is reached from these threads.

| Component | State | Operations | Talks to |
|---|---|---|---|
| **JobQueue**, GlobalQueue, worker loop (`ServerCore/JobQueue.cpp`, `GlobalQueue.cpp`, `ThreadManager.cpp`) | `Jobs` under `Mutex`, atomic `iJobCount`, the list of registered queues, thread-local `LCurrentJobQueue`, `LEndTickCount` | Push, Execute, GlobalQueue Push/Pop, one turn of the loop | base class of Room; run by workers |
| **Session** (`ServerCore/Session.cpp`) | socket, `WriteQueue` and `bIsWriting` under `WriteMutex`, RecvBuffer | Send, DoWrite, DoRead, Disconnect | handlers and rooms call Send; DoRead calls OnReceived and OnDisconnected |
| **RecvBuffer**, framing (`Packet/RecvBuffer.cpp`, `GameSession.cpp`) | buffer, two positions | Clean, OnRead, OnWrite, the framing loop | Session |
| **SendBuffer pool** (`Packet/SendBuffer.cpp`) | thread-local chunk, global list of chunks | Open, Close, Pop, Push | every packet that is sent |
| **RW spin lock** (`ServerCore/Lock.cpp`) | one 32-bit word | WriteLock/Unlock, ReadLock/Unlock | GlobalQueue, RoomManager, SendBuffer |
| **Rooms** (`Network/Room.cpp`, `RoomManager.cpp`) | members by PlayerId, `bDead`; the room list, next id | Enter, Leave, Broadcast (jobs of the room); create, find, remove, broadcast to all | Session::Send; handlers push the jobs |
| **Online sessions** (`SessionManager.cpp`, `GameSession.cpp`) | session by PlayerId | Register, Unregister, find by nickname | login, disconnect, whisper, transfer, friends |
| **Handlers** (`Network/ClientPacketHandler.cpp`) | PlayerInfo and CurrentRoom of the session | one per packet | all of the above, DBContext |
| **DBContext** (`DB/ORM/DBContext.h`) | IdentityMap with origin and current values, Changes, an open transaction | load, Add, Remove, SaveChanges, BeginTransaction | a pooled ODBC connection, the database |
| **Connection pool** (`DB/DBConnectionPool.cpp`) | idle connections | Pop (blocks), Push | every handler that uses the database |
| **AI chat** (`AI/*`) | `AiBusy`, quota rows, history rows, SSE line buffer | check quota, stream, retry, save | Claude API, Session::Send, DBContext |
| **Console client** (`Client/*`) | screen state, a flag and a value per kind of response | request, wait with time-out, push messages | the server |
| **Start and shutdown** (`ServerApp.cpp`, `Listener.cpp`) | io_context, managers | accept, stop, join, clear, reset | all |

### What is hard, and what must hold

- **JobQueue.** Push counts a job *before* it inserts it, and the executor
  subtracts after it ran a batch: one queue is touched by the count, the mutex,
  the thread-local current queue and the GlobalQueue, and no lock covers two of
  them. A queue must have one executor at a time, no job may be left behind,
  and jobs of one pusher keep their order.
- **Session.** "The queue is empty" and "I stop writing" against a concurrent
  Send; an error path that gives up the writer role before it closes the
  socket. One writer, no lost wake-up, the byte stream is whole messages in
  order, and a broken session is cleaned up.
- **Rooms and sessions.** A room dies when its last member leaves while others
  are between FindRoom and Enter; a handler changes `CurrentRoom` at once and
  the member table later; disconnects run at any time; one account may log in
  twice. No member that has left stays, no live room is taken off the list, no
  session that is gone stays online.
- **Transfers.** Reads, a dirty scan, UPDATEs with every column compared,
  retries with a new context, or a lock order with UPDLOCK; concurrent renames
  and account closings; statements and commits that fail. Each request must be
  one indivisible bank operation, no request may wait for ever, no deadlock.
- **Packets.** The network cuts packets anywhere, and the receive buffer moves its
  rest at some limits only; sent packets are cut from chunks that are shared, go
  back to a pool in any thread, and are written again. Handlers must get whole
  packets in order, a read must have room, and queued bytes must stay as they are.
- **Friends and the connection pool.** Check-then-act on one table by two users
  with several sessions, deletes in opposite orders, and a pool whose `Pop` blocks
  a worker thread while `Push` notifies after its unlock. Each request does its
  one thing or nothing, except for what SaveChanges' dropped results of Begin and
  Commit permit; no connection is lost, and every request ends.
- **AI chat.** The quota is checked before a call and counted after it; a request
  can fail at any step and leaves rows behind; a stream is retried, but not after
  text of it was sent on. Replies are not mixed, the overrun of the usage counter
  and the calls that it misses are bounded, the history stays acceptable, and no
  session stays busy.
- **The rest.** Registration and nicknames, answers after a time-out, the
  spin lock, the order of the shutdown.

`PROJECT.json` lists these as hazards, each at its line.

## 2. The modules

| Module | Models |
|---|---|
| `SerialExecutor` | abstract: each queue runs its jobs one at a time in order of arrival |
| `JobQueue` | JobQueue, GlobalQueue, worker loop and stop signal; implements `SerialExecutor` |
| `JobQueueProofs` | proofs about `JobQueue` |
| `JobQueueRefinement` | proofs that `JobQueue` implements `SerialExecutor` and keeps a producer's order |
| `SessionIO` | Send, DoWrite, DoRead and Disconnect of one session |
| `SessionIOProofs` | proofs about `SessionIO` |
| `RecvBuffer` | a session's receive buffer with the client's byte stream, DoRead's use of it and the framing loop |
| `SendBufferPool` | chunks of the threads, SendBuffers cut out of them, the pool |
| `PacketPath` | both: a packet that arrives is handled by a worker, which answers, while others make messages |
| `PacketPathProofs` | proofs about `PacketPath` |
| `ChatRooms` | rooms, room list, online sessions and their handlers; uses the guarantee of `SerialExecutor` for the jobs of a room |
| `ChatRoomsProofs` | proofs about `ChatRooms` |
| `Bank` | abstract: what a transfer, a nickname change and a closing of an account promise |
| `Transfer` | the handlers, DBContext and the row locks below them; implements `Bank` |
| `TransferProofs` | proofs about `Transfer`: it implements `Bank` and keeps the sum of all balances |
| `TransferNotices` | `Transfer` with the balance each client shows |
| `ConnectionPool` | Pop, Push and the wait of DBConnectionPool |
| `FriendBook` | abstract: what the four requests about friends promise |
| `Friendship` | the four handlers between the loan of a connection and its return; implements `FriendBook` |
| `FriendshipProofs` | proofs about `Friendship` with its pool, and that it implements `FriendBook` |
| `AiChat` | the AI handler, its coroutine and the attempts of the Claude client |
| `AiChatProofs` | proofs about `AiChat` |
| `MC*` | instances: sets of threads, sessions, logins |

Module and code correspond as follows.

**JobQueue.** One step is one atomic operation, one critical section or one
job boundary, so the model interleaves what the hardware may. `push[t]` is
the frame of `JobQueue::Push` (after the `fetch_add`, after the insertion),
`exec[t]` that of `Execute`, with the batch moved out of `Jobs` and `iJobSize`;
`loop[t]` is the place in `DoWorkerLoop`. A thread pushes from a handler run by
`poll()` or from the job it runs, never in between. The clock is nondeterminism
in `ExecuteTick` and `LoopPopped`. A job that throws is not modelled: no job in
the repository does more than look up a map and Send. `done` is history.

**SessionIO.** `writeQueue` and `bIsWriting` change in the critical sections
of `Send`, `DoWrite` and the catch clause. An `async_write` is two transmissions
and may fail before either; with `Transient` it may fail on a connection that
still works, the case in which Send can start a new writer on the same socket
before `Disconnect` ran. Coroutines are numbered in the order of their start.
`DoRead` waits for data, runs the handlers, and ends when the socket is lost or
closed. The early `co_return`s of DoRead (`Session.cpp:33-51`) are left out:
they need a RecvBuffer position outside its range, or a read of zero bytes,
which asio reports as an error.

**PacketPath.** `RecvBuffer` keeps the numbers of the bytes between the two
positions, so that a wrong move shows as a wrong number; `Receive` is a read of any
length that fits, `HandlePacket` one round of the framing loop, `ReadAgain` the end
of the loop with OnRead and Clean. `Clean` moves the rest only when no room is left
for a read, and forgets the positions when nothing is left. In `SendBufferPool` a
packet is made by a thread between Open and Close; the SendBuffer refers to its
chunk by a counted pointer, and its deleter runs in whichever thread drops the
last reference. `PacketPath` lets one worker at a time run DoRead (`runner`), answer
each packet it handles, and other workers make messages meanwhile.

**ChatRooms.** One action per handler section between two locks: `EnterFind`
is FindRoom, `EnterLeaveOld` the push of the old room's Leave, `EnterNew` sets
CurrentRoom and pushes the Enter. `Enter`, `Leave` and `Broadcast` are the jobs;
`RemoveRoom` inside Leave is part of it, since `bDead` is only read by later
jobs of the same room. A session's handlers are sequential (they run inside its
DoRead), so `handler[s]` is one program counter; different sessions and rooms
interleave freely. Members and online sessions are weak pointers in the code:
a session whose handlers have ended counts as expired (`Audience`).

**Transfer.** One step is one SQL statement or connection call, with what the
handler computes from its result. `ctx[s]` is the DBContext: origin and current
value of each loaded row and the set of dirty rows, flushed in the order of the
keys (the IdentityMap is a `std::map`). In OCC mode an UPDATE compares every
column with its origin (`Matches`), a DELETE only the key. `retry[s]` counts the
rounds of `Handle_C_TRANSFER`. `Fail` is the early return with the destructor of
DBContext, which rolls back. The results of `Begin` and `Commit` are dropped, as
in the code: the failing disjuncts go on to flush in autocommit mode and to
answer with success.

**Friendship.** One step is one statement or one step of the pool. Ids are compared
only within one direction of a pair, so they count up for each direction. DELETE
compares the key only and is no conflict when the row is gone; UPDATE compares all
columns; INSERT fails when the direction has a row. SaveChanges does not look at the
result of Begin: a session in `loose` flushes in autocommit mode, each statement for
good (`Writes`), and a row can stay although the request is refused (`InsertStays`: its
id could not be fetched). Nor does it look at the result of Commit: `Commit` may keep
nothing and still answer with success. `IsVictim` is the database ending a deadlock;
the other ways in which a statement fails are apart (`Breaks`), so that fairness
does not rest on them. `NotifyOne` is a step after
`Push` has given the connection back, and `SpuriousWakeup` and the time between a
notification and the check of the condition are in. Accepting, rejecting or
removing oneself is left out, since it finds no row. The constant `Tables` says how
the table may be at the start; the proofs are for any table in which nobody is his own
friend.

**AiChat.** All sessions of one account, since only these share rows. One step is
one SELECT, one SaveChanges or one event of the stream. `at` is the time a row got
before it is inserted, which orders the rows of a history; two rows never get the
same one. A SELECT that fails reads no row, in `Check` as well (`"quota"`). `Throw` is an
exception that leaves `Run`; it is caught in the handler, which still resets `AiBusy`.
`Ends` is SendDone with the end of Run's variables. `shown` are the attempts whose
`text_delta` was sent on, which forbids a retry even if the delta was empty
(`ClaudeClient.cpp:137`); `text` says that `fullText` is not empty, on which the refusal
sentence and the row of the answer depend. SaveQuestion and Count have the failures
of SaveChanges that are noticed (nothing is kept) and those that are not: a Commit
that keeps nothing, and a Begin that leaves autocommit mode, where the question stays
although the request is refused, or the answer is there by itself (`CountAlone`)
before the usage is written, or not (`Tally`). `fate[r]` records, for the properties only, whether an
answered call came into the usage: counted, not counted for a conflict with another
session, or not counted because the database or the code failed (`Uncounted`;
`AiChatService.cpp:255` only logs it).

The database is external and modelled as the code relies on it: READ COMMITTED
with row locks; an UPDATE, a DELETE and a SELECT WITH (UPDLOCK, ROWLOCK) wait for
a row locked by another transaction and keep it until the transaction ends; a
SELECT waits for rows that another transaction has written. Which calls may
fail is the constant `Faults`.

**SerialExecutor, Bank and FriendBook** are refined through `INSTANCE ... WITH`.
For `JobQueue` the abstract state is computed: the running job is the head of
the executor's batch, the waiting ones are the rest of the batch and `Jobs`.
`Bank` sees the committed rows, the request being served and its answer; the
commit of a transaction, or the flush of a row in autocommit mode, is the step
that must be one whole payment, renaming or closing. With `LossyCommit` a Bank may
lose a request and answer it with success, which is what the dropped result of
Commit permits and nothing more. `FriendBook` sees the committed rows; for users
with two sessions it permits what their own sessions do to each other, and for
all others a request is answered "ok" only if it found what it asks for. What the
database may do to that stands in actions of its own: with `LossyCommit` a request may be
lost and answered "ok" (`Lose`); with `LossyBegin` a request can be `loose`, and then a
removal may end one friendship before the other, or instead of it (`RemoveOne`), and a
request that is refused may be there (`RefuseAsked`).

## 3. What is checked

| Run | Instance | Shows |
|---|---|---|
| `JobQueue` | 2 threads, 2 queues, 3 pushes, fair | OneExecutor, NoStrandedQueue, ProducerOrder, ImplementsSerialExecutor, EveryJobRuns |
| `SessionIO` | 2 threads, 4 sends, losses and failing writes, fair | OneWriter, QueueHasWriter, StreamInOrder, LostOnlyWithSession, EverythingIsSent, FailureEndsSession |
| `PacketPath` | 3 packets, a buffer of 8 bytes, 2 threads, 3 chunks of 2 units, symmetric | StreamIsWhole, RoomToRead, QueuedBytesIntact, ChunkHasOnePlace |
| `Rooms` | 2 clients with their own accounts, 2 rooms, at most 2 waiting jobs per room | CurrentRoomIsReal, NoGhostMember, DeadRoomIsEmpty, UsedRoomIsListed, SpeakerHears, NoGhostOnline |
| `RoomsRelogin` | 2 clients with one account, 1 room, fair | NewLoginStaysOnline, LeaversAreForgotten |
| `TransferOcc` | OCC, 3 sessions: two pay, one renames and closes its account; statements fail | TypeOK, NoDeadlock, ImplementsBank |
| `TransferUpdLock` | UPDLOCK, 2 sessions, all requests, every call may fail, fair | NoDeadlock, LockedRowsNeverConflict, ImplementsBank, EveryRequestAnswered |
| `Friendship` | 3 sessions of 2 users, 2 connections, 3 requests, begins, statements and commits fail, fair | NoLostWakeup, ConnectionHasOnePlace, LocksAreBorrowed, OnlyRemovesDeadlock, ImplementsFriendBook, EveryRequestAnswered |
| `AiChat` | 2 sessions, 3 questions, 1 call a day, 2 rows of history, 2 attempts; Claude, begins, statements, commits, SELECTs but that of the quota, and the code fail, fair | OneReplyAtATime, QuotaHolds, HistoryIsAccepted, BusyEnds |
| `TransferUnpaid` | OCC, Commit may fail | SuccessMeansPaid is violated |
| `TransferNotices` | OCC, 3 sessions pay | ShownBalanceIsCurrent is violated |
| `RoomsSharedAccount` | 2 clients with one account | DeadRoomIsEmpty is violated |

Types are not spent a property of a run on, except in `Transfer`, where `TypeOK` says
that balances are not negative: `TypeOK` of `JobQueue`, `SessionIO`, `PacketPath` and
`Friendship` is proved.

**Bounds.** *Pushes* (`MaxJobs` 3): the hazards of a JobQueue are between a
first push, a push that arrives during a batch and one that arrives after the
fetch_sub; three jobs by two threads have all of them, since a thread pushes from
a handler while the other executes, and a job may itself push into its own or the other queue. With two queues a thread can be inside one
while it pushes into the other, which is what registers a queue with the
GlobalQueue. *Sends* (4): a message in transmission, one waiting, one accepted
between a failed write and Disconnect, one after. *Rooms* (2, two clients, two
waiting jobs): a client can leave, re-enter and change rooms while another does
the same; a push into a full room waits, which is a bound of the instance and not
of the code, and with fair jobs only delays it. *Buffers* (`BufferSize` 2, 4 of them, packets of 2 or 3): a packet is cut at every
place, the rest that is moved is empty, a part of a header, a header, or more, and
both positions reach the end of the buffer. *Chunks* (3 of 2 units, answers of
1): a chunk is used up, shared by two messages, and returned while another thread
opens one. *Friends* (2 users, one with two sessions, 3 requests, 2 connections):
two requests of opposite users, or of one user twice, are under way while a third
handler waits for a connection. The run begins with any table in which a request that
waits has no row in the other direction; such a pair of rows takes two requests at
once, which the run has. *Questions* (3, two sessions): one session asks
again while the other is somewhere in its request, and histories of 2 rows begin
with an answer or with a question. *Amounts and balances* (1): every
account can pay once, so each race decides about the last point. *Retries*: the
code's `kMaxTransferRetry` is 3; one or two show a first attempt, a retry, and
the end of the retries, and nothing else depends on the number. *Requests* of
`Transfer` are not bounded: sessions go on for ever. A failing Begin is left out of the OCC
instances: then each row is committed on its own, money can be created again and
again in a conflict between the two rows, and the balances have no bound; in
UPDLOCK mode, where a failed BeginTransaction ends the request, it is in.
`TransferUpdLock` has it in both forms, since renaming and closing go through
SaveChanges; those write one row.

**Deadlock** is checked by TLC in the runs of `Transfer` (a request is always
possible). The other models may stop: the workers exit after Stop, a session
ends, all clients are gone; there the liveness properties say what must still
happen.

**Fairness.** Each worker is scheduled by the operating system, jobs and
handlers return: weak fairness of each thread's own steps in `JobQueue`. Nothing
makes a client send, so no push, request or login is fair, nor is Stop. In
`SessionIO` coroutines that can go on are resumed by some worker: weak fairness
of each writer, of the spawning Send and of the reader's own steps; the arrival
of data and the loss of the connection are not fair. `ChatRooms` assumes that each
room's next job is run, which is `EveryJobRuns` of `JobQueue`, and that handlers go
on. In `Transfer` each handler is strongly fair: the database queues the waiters
of a row lock, so a statement whose row is free again and again is executed;
weak fairness would let two others pass the row between them for ever. In
`Friendship` requests are bounded, and weak fairness is enough; without a bound newcomers
could take each connection before a woken worker looks (`Pop` is not fair).
`EveryRequestAnswered` says that every finite burst of requests is served. Only `Works`
is fair there: a statement that waits for a row is executed once the row is free, or
the database ends the deadlock it is in; it is not got rid of by failing. In
`AiChat` a coroutine goes on, and a stream ends at the latest with the deadline of
`HttpClient.cpp:276-287`.

**Mutants.** In front of some definitions stands a variant named as a mutant,
which is the definition with a plausible bug: a push that is not counted, a write
role that is not given back, a Leave that is forgotten, a comparison left out. No
model uses them; put in the place of the definition behind them, each makes a
run fail at the property listed with it in `PROJECT.json`, which shows that the
property depends on that line of the code.

## 4. What is proved

Every theorem is about the specification the runs check (`Spec`), for every value
of its constants; the assumptions are the named ASSUMEs of the module.

### JobQueueProofs

`JobQueueProofs` proves, for every finite set of threads, every set of queues and
any number of pushes (assumptions `ThreadsFinite`, `NoQueueIsNone`, `MaxJobsIsNat`):

- `SpecTypeOK`: `Spec => []TypeOK`;
- `SpecOneExecutor`: `Spec => []OneExecutor`;
- `SpecNoStrandedQueue`: `Spec => []NoStrandedQueue`.

Neither invariant is inductive alone, and neither needs the time slice: the
argument is about the counter. `IndInv` is the conjunction of

- `TypeOK`;
- `Frames`: how a thread's Push frame, Execute frame, `LCurrentJobQueue` and place in
  the worker loop fit together (for instance `LCurrentJobQueue` is the queue being
  executed except between the end of the time slice and the registration);
- for each queue `QueueOK`: the queue is held once (`OneHolder`); the counter is
  exactly the jobs in `Jobs`, those of the running batch until the fetch_sub,
  and the pushes announced and not yet inserted (`CountExact`); and the queue is
  held *if and only if* the counter is not zero.

The equivalence is what makes it work. A Push may take the right to run a queue
only when its fetch_add returned 0; by the equivalence nobody holds the queue
then. An executor gives the right up only when fetch_sub reaches 0; by
`CountExact` nothing is inserted or announced then. Every other step hands the
right from one holder to one other. The proof has a lemma per action that can
change a holder (`PushCountHolders` ... `LoopPopHolders`), lemmas on the GlobalQueue
(`AppendRegisters`, `PopRegisters`: an append adds one registration, a pop removes
the first), and `SameHolders` for actions that only touch other queues.

### JobQueueRefinement

Under the same assumptions, and `NoQueueIsNoThread` (the entry "no queue" of the model
is not a thread): `SpecImplementsSerialExecutor`, which says that each queue runs its
jobs one at a time in the order of arrival, and `SpecProducerOrder`, which says that
the jobs of one producer run in the order of its Push calls.

The proof looks at a queue as its owner does: the jobs waiting (the rest of an
executor's batch, then `Jobs`), the one running, and those done. By `OneExecutor` there
is at most one batch, so these are well defined, and each action of the code either
appends the pushed job (`ViewPushEnqueue`), starts the first (`ViewExecuteNext`),
finishes the running one (`ViewExecuteJobReturn`) or changes nothing visible: moving
`Jobs` into a batch, entering and leaving Execute, and all of the worker loop
(`ViewExecuteDrain`, `ViewEnterExecute`, `ViewLeaveExecute`, `ViewQuiet`). The invariant is
`OrderInv`: `IndInv`; `Batches`, that a thread outside of its for loop has no batch;
`Ordered`, that of two jobs of one producer in the history of a queue the first has
the smaller serial number; and `Numbered`, that a number announced by a Push is
greater than all numbers its thread already has in any queue. The theorem needs all of
them: without `Numbered` a job pushed now could be older than one that waits.

### SessionIOProofs

For any threads and any number of sends (`MaxSendsIsNat`), with a failing write that
ends the connection or does not: `SpecTypeOK`, `SpecOneWriter`,
`SpecQueueHasWriter`, `SpecStreamInOrder` and `SpecLostOnlyWithSession`.
The inductive invariant is the conjunction of

- `TypeOK`, `OneWriter` and `QueueHasWriter` themselves, which need each other: a
  Send spawns a writer only when `bIsWriting` was false, and by `OneWriter` nobody
  has the role then;
- `Roles`: coroutines not yet spawned are untouched, a transmitting writer has a
  message, and every spawn is paid for by an accepted message, so their numbers
  do not run out;
- `QueueOrder` and `WireOrder`: message numbers increase from the stream over the
  writer to the end of `WriteQueue`, and the first half of the message being
  transmitted is the end of the stream; with them `StreamInOrder` is inductive.

`LostOnlyWithSession` is then preserved by each step (`LostStep`): only a failed
write drops a message, and from there on a writer is about to close the
socket or it is closed (`EndingStays`).

### ChatRoomsProofs

For any sets of sessions, accounts and rooms and any number of waiting jobs
(`LoginsArePlayers`, `BoundsAreNat`): `SpecTypeOK` and `SpecNewLoginStaysOnline`,
whatever accounts the clients share. Under `OneAccountEach` (each client logs in
with one account, which nobody else uses; the runs `RoomsRelogin` and
`RoomsSharedAccount` show what happens without it): `SpecCurrentRoomIsReal`,
`SpecNoGhostMember`, `SpecDeadRoomIsEmpty`, `SpecUsedRoomIsListed`,
`SpecSpeakerHears` and `SpecNoGhostOnline`.

The handlers look at `CurrentRoom` only, and a room at its own table only; what ties
them together is the queue between them. `Stays(q, set, s, k)` says that `s` is in the room
after the first `k` jobs of `q`, when those of `set` are in now. The core of the
invariant is `BelongOK`: a session stays in a room after *all* its waiting jobs if and
only if (unless the room is dead) its handler thinks that it is in the room
(`Belongs`: `CurrentRoom` is the room and no Enter elsewhere is half done). A push moves both sides
together (`BelongPush`, from `StaysLast`); a job that runs moves from the queue into
the set (`BelongRun`, from `StaysTail`). `ChatOK` is the same for the jobs before each
chat. The other conjuncts: `MembersOK` (the table by PlayerId is as good as a set of
sessions, where the one account per client is needed), `Known` (no room jobs of
a session without an account), `CreatedOK` (rooms in use have been created, so a new room
is fresh), `OnlineOK`, and `DeadRoomIsEmpty` and `UsedRoomIsListed` themselves.

### TransferProofs

For any finite sets of users and sessions, any amounts and number of retries, in
both lock modes, with any of the database calls failing (`UserIdsAreKeys`,
`SessionsAreFinite`, `OwnersAreUsers`, `FirstNamesAreNames`, `NumbersAreNat`,
`ModesAndFaults`):

- `SpecTypeOK`: a balance is a natural number, so no account is overdrawn in the
  table, and no context holds a negative balance that could be written;
- `SpecNoDeadlock`: no set of handlers waits only for each other;
- `SpecLockedRowsNeverConflict`: with UPDLOCK the flush never meets a conflict.

`IndInv` adds to `TypeOK` two facts per session. `StageOK`: which stage belongs to
which request, and the dirty rows are those of payer and payee. `LocksOK`: rows are
locked only in the stages after the lock was taken; when a handler asks for the
next row, either that row and all that are left are its own and unchanged
(`Secured`: after the two UPDLOCK reads), or every row it holds has a smaller key
than all that are left (the flush in the order of a `std::map`). A step of one
session cannot disturb another: `OthersKeep` says that users and locks change only
where the acting session may write. From `LocksOK` follows `WaitsUpwards`: whom a
waiting handler waits for, if it waits as well, asks for a row with a greater key.
In a set of handlers that wait only for each other one could then go up for
ever; `SpecNoDeadlock` takes a handler whose set of handlers further up is minimal,
which exists since the set is finite, and finds one above it with fewer.

Three theorems more say what a client may rely on (`AbsentIsNoRow`: the mark of a row
that is not loaded is not a row):

- `SpecImplementsBank`, under `TransfersAreAtomic`: each request is one indivisible
  payment, renaming or closing that is answered with success, or it changes nothing
  and is answered with failure (or, as `Bank` allows it, is lost in a failing Commit).
  `TransfersAreAtomic` says that UPDLOCK is used or Begin does not fail. It is needed:
  TLC finds `ImplementsBank` violated by `TransferOcc` with "begin" among the faults. A
  Begin that fails in `SaveChanges` leaves the connection in autocommit mode; the row
  with the smaller key is then committed alone, and a conflict at the other leaves
  half a transfer in the table.
- `SpecSuccessMeansPaid`: if, besides, no Commit fails, a transfer answered with
  success has moved its amount. The run `TransferUnpaid` shows the same property
  violated when a Commit may fail; the theorem says that this is the only way.

- `SpecMoneyIsKept`, under `TransfersAreAtomic`: no step makes points or loses any. The
  sum of all balances stays, but for an account that is closed, which takes its own
  balance with it. No run states it: it follows from `SpecImplementsBank`, for sums over
  any number of rows.

The invariant `BankInv` adds `Served` to `IndInv`: what a handler has written and what
it has not answer to one request, and (`Prepared`) the values of its dirty rows are
those of its `origin` after the payment. At the Commit all written rows are locked
and still equal to `origin`, so the step is the payment of `Bank` for the balances as
they are then (`CommittedRows`). One lemma per action (`...Outcome`) names the step of
`Bank` it is; all but the Commit, the flush of a single row in autocommit mode, and
the refusals change nothing visible.

For `SpecMoneyIsKept` the sum of the library, `MapThenSumSet`, is opened down to its
recursive function, which is shown to exist (`SumExists`) and to follow a change of
one row (`OneRowChanges`); both are said of a set of rows that fails and from which none
can be taken without its holding again (`LeastSet`). A payment is two such changes.

### PacketPathProofs

For any threads and chunks, any sizes of buffers, chunks and packets, as long as the
buffer has room for two packets and a read (the ASSUMEs of `RecvBuffer` and
`SendBufferPool`): `SpecTypeOK`, `SpecStreamIsWhole`, `SpecRoomToRead`,
`SpecQueuedBytesIntact` and `SpecChunkHasOnePlace`. The two halves of the model share
no variable, so the inductive invariant `IInv` is a conjunction of one for each:

- `StreamIsWhole` becomes inductive when it is said of each packet by itself
  (`Whole`): of the bytes in the buffer and the network taken together, a packet
  begins where the one before it ended, and the first is the next to be handled;
- `BuffersFit`: live SendBuffers of one chunk do not overlap and lie below its
  use counter, so that a unit that is written belongs to none of them;
- `OnePlace`: a chunk is in the pool once, or in a thread's hands, or with its
  deleter, or referenced, and in one of these only.

### FriendshipProofs

For any users, sessions, pool size, tables to begin with, number of requests and any of the
faults (`PoolAssumption`, `OwnersAreUsers`, `TablesAreStatuses`): `SpecTypeOK`, `SpecNoLostWakeup`, `SpecConnectionHasOnePlace`,
`SpecLocksAreBorrowed`. `Inv` adds to them `FlowOK`, which says where a handler has
a connection, waits or owes a notification, and `LocksOK`: a locked row was written
by the transaction that holds it, in SaveChanges. The steps of the pool are
proved by themselves (`PoolStarts`, and a lemma for each of Pop, Recheck, Push and
NotifyOne); all other steps leave the pool as it is.

With `NoCallIsNone` (the mark of an idle session is not a request) also
`SpecImplementsFriendBook` and `SpecOnlyRemovesDeadlock` (two handlers wait for each other's rows only when both
are removals). The first says that each request takes effect at once, in its Commit, or
not at all; but it may be answered with success and do nothing if its Commit fails, and
after a Begin that failed its statements take effect one by one, and stay when it is
refused. Where neither can fail (`"begin"` and `"commit"` not in `Faults`), the book has
no such steps. Both rest on `SpecBookInv`. The handlers read rows before SaveChanges and
without a lock, so the invariant must say what is still true of them later:

- `PlanOK` says, for each kind of request (`RequestPlan`, `AcceptPlan`, `RejectPlan`,
  `RemovePlan`), which changes are left, which rows are written, and what is known of
  those rows. A written row is locked and still what the change assumed; a row that
  was only read is `Seen`: the friendship with that id stays one or vanishes,
  since an id is never given again (`RowsOK`). A rejection has a case of its own: a
  second session of the same user can answer the request in the meantime.
- `RowStep` lists what a session's step does to a row: lock it, insert, commit, write it
  for good in autocommit mode, or nothing; `PlanKept` shows that every plan survives such a step of another session,
  and a lemma per action (`...Moves`) that the step is of that kind.

A Commit is then `Request`, `Accept`, `Reject` or `Remove` of `FriendBook` (`CommitBook`), or
`Lose`. In autocommit mode the last statement is the one that settles the request
(`LastBook`), one before it a `RemoveOne`, a row that stays behind a `RefuseAsked`; a
failure is `Refuse`, SaveChanges without a transaction `BeginFails`, and all other steps
stutter. For the deadlock,
`HolderWhoGoesOn` shows that of all handlers only a removal can hold one row and ask
for another: the others write one row.

### AiChatProofs

For any sessions, requests, attempts and rows, and any faults (`ChatAssumption`):
`SpecOneReplyAtATime`, and, if the SELECT of the quota does not fail,
`SpecQuotaHolds`. `ReplyInv` says that a running request keeps the `AiBusy` of its
session, is the only one to do so, and has shown text of one attempt only, which is
the present one until the stream is over (`Fits`).

`SpecQuotaHolds` is about the *usage counter*, which is what the code compares with the
quota; calls that are not counted can pass it. `QuotaInv` says that the counter and the
number of requests past the check together do not exceed
`DailyCalls + Cardinality(Sessions) - 1`: a request passes the check only
below `DailyCalls`, and by `ReplyInv` those on their way belong to different sessions
(`RunningBound`). `FateInv` accounts for the rest: the counter is the number of calls
that were counted; a stored answer was counted or the database failed on its way; and of
the calls that a conflict keeps out of the usage there are at most
`(Cardinality(Sessions) - 1) * usage`. To be inductive, the last bound must include
the calls that will meet a conflict (`Missed`: the counter has moved since they
loaded it). A step that counts moves the counter by one, and the calls it makes stale
belong to the other sessions (`FateCounted`). Calls that the database or the code keeps out of
the usage have no bound but their number.

`SpecHistoryIsAccepted` needs no assumption on the faults: whatever is stored, the history
sent to Claude begins with the user and alternates, and while one session uses the
account it ends with the question being asked, if that was saved. It has two halves:

- What the functions do to any rows. `BuildHistory` is a fold; opened, it is a recursive
  function over sets of indices, which exists (`LoopExists`) and takes one row at a time
  (`LoopStep`). By induction over the rows the result alternates, and a last row that is
  a question is in its last turn (`BuildHistoryIsAccepted`). `Newest` enumerates its rows
  in the order of their stamps, which some sequence does as the stamps differ
  (`SortedRows`, `NewestRows`).
- What rows there are. `HistoryInv` says that no two rows have a stamp in common and a
  stamp that waits for its INSERT is in no row (`StampsOK`), that the question of the only
  session, if it was saved, is the last row when the history is read (`QuestionOK`), and that a history is
  kept only from Load to the end of the stream (`Accepted`).

### What is only model-checked

Every invariant, action property and refinement of the passing runs has a theorem.
Left to TLC is what the prover cannot reach: liveness under fairness
(`EveryJobRuns`, `EverythingIsSent`, `FailureEndsSession`, `LeaversAreForgotten`,
`EveryRequestAnswered`, `BusyEnds`) and ENABLED. The violations that section 5 rests on are
TLC's as well.

Induction over data is out of reach with the library's theorems, whose parameter is
an operator. Where a proof needs it, it is said of a set: the naturals that have
a property (`LeastNat` and `SetInduction` in `AiChatProofs`), or the sets of rows that have
not (`LeastSet` in `TransferProofs`), with `WFMin` for its least element. The modules
declare no RECURSIVE operator.

## 5. Where code and documentation disagree

- `DBContext::SaveChanges` ignores the results of Begin and Commit
  (`DBContext.h:418`, `:556`), against its own comment at line 414: a transfer is
  answered with success although nothing was paid (`TransferUnpaid`). A dropped
  result of Begin is worse in optimistic mode: the two rows of a transfer are then
  no longer written together, which is why `SpecImplementsBank` excludes it.
  The other callers share both, against `README.md:153` (on failure a transaction is rolled
  back as a whole): a friend request can be answered with success with nothing done;
  after a failed Begin a removal of two rows can be answered "Database error" with one of
  them deleted, and an AI answer can be stored without its call being counted. These
  are the actions `Lose`, `RemoveOne` and `RefuseAsked` of `FriendBook`, and the fate "failed" in
  `AiChat`.
- `AiChatService.cpp:173` says that the history loaded includes the question just saved.
  When the Commit of that question fails it does not: the history then ends with an older
  row, or "Nothing to send" is answered. `HistoryIsAccepted` says "if it was saved".
- `README.md:310` says that calls are added up in the database and refused past the
  daily limit. What is limited is the counter: a call whose count conflicts with that of
  another session, or fails, is logged and never counted (`AiChatService.cpp:255`), so an
  account can have more calls than the limit. `QuotaHolds` bounds how many a conflict hides.
- `README.md:131` says the payee's balance is updated by the notice. Notices of
  two transfers are sent after their commits in no order, and carry balances: the
  client can keep the older one (`TransferNotices`).
- `Room.h:27` calls a dead room one whose last user left. Members are keyed by
  PlayerId and one account can log in twice: the first Leave kills the room with
  the other session in it (`RoomsSharedAccount`).

The second and third bullet have no run of their own, since the passing runs state
what holds instead. One more is known: a client that logs in twice in one
session with different accounts leaves the first registration in SessionManager
for ever (`GameSession.cpp:65`, `SessionManager.cpp:22`). Giving a session two
accounts in `LoginAs` shows it as a violation of `NoGhostOnline`.

## 6. What is not modelled

- *Other parts*: those with status `not_modelled` in `PROJECT.json`. Input
  checks, password hashing, packet tables, generators, ORM metadata and SQL text are
  pure or generated; menus and drawing are I/O. The others are in the plan. Of
  the lines of C++ in the repository most (the four `Protocol.pb` files, 53 000 of
  63 000) are generated by protoc: the map covers a small share of all lines.
- *Calls on one socket from several threads* (`README.md:280`): undefined by
  asio's contract; `SessionIO` takes each call as one step.
- *AI chat*: HTTP, TLS and the assembly of events out of lines; the loan of a
  connection for each of the three blocks; the end of a day; a limit of tokens, which
  is the same test as that of calls. A client that asks again at once after
  the last piece is refused, since `AiBusy` is reset after it was sent
  (`AiChatService.cpp:261`): the model has the step, and no property forbids it.
- *A failing SQLEndTran.* `DBConnection::Commit` and `Rollback` return before
  RestoreAutocommit when the call itself fails (`DBConnection.cpp:136`, `:148`); the
  connection then stays in manual-commit mode until `~DBConnectionScope` restores
  autocommit (`DBConnectionPool.cpp:98`). `Transfer` and `Friendship` assume that the
  database has ended the transaction by then, its rows kept or not, and its locks freed
  at once: the code gives no sign of what the driver does with it. Nor do they model
  a RestoreAutocommit that fails.
- *Foreign keys and Include* (and *INSERT* in `Transfer`), and the *refetch after a conflict* in
  `SaveChanges`: every caller drops the context afterwards, the refetch changes
  nothing a caller reads.
- *Packets as bytes*: `SessionIO` tells the two halves of a message apart;
  `RecvBuffer` numbers the bytes of the stream. The packets are those the
  repository's clients make: a header with its true size, and at most `MaxPacket`.
- *A shout between two rooms* (`RoomManager.cpp:58`): a session that changes rooms
  meanwhile hears it twice or not at all; no document promises otherwise.
- *GlobalQueue's spin lock*: a critical section is a step.
- *Shutdown after Stop*: `JobQueue` ends when the workers have left the loop.
- *Handlers that only read* (room list, balance, friends list), and the sending
  of responses where no property is about them.

## 7. Plan

Done, in this order: the executor, the session, rooms, transfers (first, because
all else runs on them or they are most costly to get wrong), the path of a packet,
the connection pool under the friend requests, and the AI chat. Left:

1. `RWSpinLock` with an abstract lock it implements (mutual exclusion, no lost
   reader), in the place of a critical section of `GlobalQueue`.
2. `ClientRequests`: a late answer against the next request.
3. `Accounts`: registration, nickname change and whisper, as check-then-act over
   one table.
4. `Shutdown`: sessions held by queued jobs.

Bounds stay at two or three actors, two objects, and one more event than the
longest hazard needs.

Proofs left: type correctness and mutual exclusion of the modules above once they are
written.
