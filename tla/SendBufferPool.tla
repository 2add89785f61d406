--------------------------- MODULE SendBufferPool ----------------------------
(***************************************************************************)
(* Where the bytes of a packet to be sent live (SendBuffer.cpp). A thread  *)
(* cuts SendBuffers out of a chunk of its own (LSendBufferChunk); every    *)
(* SendBuffer keeps its chunk alive, and when the last reference to a      *)
(* chunk is dropped, on whichever thread, its deleter puts it into         *)
(* ChunkPool to be used again. Queues of sessions hold SendBuffers until   *)
(* they are written; here any message may be dropped next.                 *)
(***************************************************************************)
EXTENDS Integers, Sequences, FiniteSets

CONSTANTS
  Threads,       \* worker threads
  ChunkSize,     \* CHUNK_SIZE
  ChunkIds,      \* the chunks that can be created: memory is the only bound
  Replies,       \* possible sizes of a packet to send
  NoChunk        \* nullptr

ASSUME RepliesFit ==
  /\ ChunkSize \in Nat \ {0}
  /\ Replies \subseteq 1 .. ChunkSize
  /\ NoChunk \notin ChunkIds

VARIABLES
  created,           \* chunks created so far
  ChunkPool,         \* chunks that wait to be used again
  LSendBufferChunk,  \* the chunk of each thread
  popped,            \* the chunk a thread has got from Pop, for a packet of some size
  dropped,           \* chunks whose deleter runs and has not reached the pool
  iUsedSize,         \* bytes of each chunk that are cut off
  opened,            \* the buffer a thread is writing, between Open and Close
  live,              \* closed buffers somebody still refers to
  memory,            \* which message the bytes of each chunk belong to
  made               \* number of messages made

poolVars == <<created, ChunkPool, LSendBufferChunk, popped, dropped, iUsedSize,
              opened, live, memory, made>>

\* A buffer: message id in bytes from .. from + size - 1 of a chunk.
NoBuffer == [chunk |-> NoChunk, from |-> 0, size |-> 0, id |-> 0]

NoPop == [chunk |-> NoChunk, size |-> 0]

Opened == {opened[t] : t \in {u \in Threads : opened[u] # NoBuffer}}

\* the shared_ptrs to chunk c, those of threads and those of buffers
Referenced(c, tls, buffers) ==
  \/ \E t \in Threads : tls[t] = c
  \/ \E b \in buffers : b.chunk = c

PoolInit ==
  /\ created = {} /\ ChunkPool = <<>> /\ dropped = {}
  /\ LSendBufferChunk = [t \in Threads |-> NoChunk]
  /\ popped = [t \in Threads |-> NoPop]
  /\ iUsedSize = [c \in ChunkIds |-> 0]
  /\ memory = [c \in ChunkIds |-> [i \in 0 .. ChunkSize - 1 |-> 0]]
  /\ opened = [t \in Threads |-> NoBuffer]
  /\ live = {} /\ made = 0

-----------------------------------------------------------------------------

\* SendBufferChunk::Open: the next n bytes of the thread's chunk, with used
\* bytes cut off so far. SerializeToArray fills them before anybody else can
\* see the buffer.
Cut(t, c, used, n) ==
  LET b == [chunk |-> c, from |-> used[c], size |-> n, id |-> made + 1]
  IN  /\ opened' = [opened EXCEPT ![t] = b]
      /\ memory' = [memory EXCEPT ![c] =
                      [i \in 0 .. ChunkSize - 1 |->
                         IF i \in b.from .. b.from + n - 1 THEN b.id ELSE @[i]]]
      /\ made' = made + 1

Ready(t) == opened[t] = NoBuffer /\ popped[t] = NoPop

\* Mutant of Open: forgets that the bytes before the used ones are taken.
OpenFromStart(t, n) ==
  LET c == LSendBufferChunk[t]
  IN  /\ Ready(t)
      /\ c # NoChunk
      /\ ChunkSize - iUsedSize[c] >= n
      /\ Cut(t, c, [iUsedSize EXCEPT ![c] = 0], n)
      /\ UNCHANGED <<created, ChunkPool, LSendBufferChunk, popped, dropped, iUsedSize, live>>

\* SendBufferManager::Open: the thread's chunk has room.
Open(t, n) ==
  LET c == LSendBufferChunk[t]
  IN  /\ Ready(t)
      /\ c # NoChunk
      /\ ChunkSize - iUsedSize[c] >= n
      /\ Cut(t, c, iUsedSize, n)
      /\ UNCHANGED <<created, ChunkPool, LSendBufferChunk, popped, dropped, iUsedSize, live>>

\* The thread has no chunk, or too little of it is left: Pop takes one from the
\* pool under the mutex, or creates one.
NeedsChunk(t, n) ==
  LET c == LSendBufferChunk[t]
  IN  Ready(t) /\ (c # NoChunk => ChunkSize - iUsedSize[c] < n)

PopPooled(t, n) ==
  /\ NeedsChunk(t, n)
  /\ ChunkPool # <<>>
  /\ popped' = [popped EXCEPT ![t] = [chunk |-> ChunkPool[Len(ChunkPool)], size |-> n]]
  /\ ChunkPool' = SubSeq(ChunkPool, 1, Len(ChunkPool) - 1)
  /\ UNCHANGED <<created, LSendBufferChunk, dropped, iUsedSize, opened, live, memory, made>>

PopCreated(t, n) ==
  /\ NeedsChunk(t, n)
  /\ ChunkPool = <<>>
  /\ \E c \in ChunkIds \ created :
       /\ created' = created \cup {c}
       /\ popped' = [popped EXCEPT ![t] = [chunk |-> c, size |-> n]]
  /\ UNCHANGED <<ChunkPool, LSendBufferChunk, dropped, iUsedSize, opened, live, memory, made>>

\* A reference is gone: chunks of gone that nobody refers to any more are
\* handed to their deleter.
Drop(gone, tls, buffers) ==
  dropped' = dropped \cup {c \in gone : ~Referenced(c, tls, buffers)}

\* The chunk becomes the thread's, the old one loses this reference; Reset, Open.
OpenPopped(t) ==
  LET c   == popped[t].chunk
      tls == [LSendBufferChunk EXCEPT ![t] = c]
  IN  /\ popped[t] # NoPop
      /\ LSendBufferChunk' = tls
      /\ popped' = [popped EXCEPT ![t] = NoPop]
      /\ Drop({LSendBufferChunk[t]} \ {NoChunk}, tls, live)
      /\ iUsedSize' = [iUsedSize EXCEPT ![c] = 0]
      /\ Cut(t, c, iUsedSize', popped[t].size)
      /\ UNCHANGED <<created, ChunkPool, live>>

\* SendBuffer::Close with the size that was opened (_MakeSendBuffer), and Send.
Close(t) ==
  LET b == opened[t]
  IN  /\ b # NoBuffer
      /\ iUsedSize' = [iUsedSize EXCEPT ![b.chunk] = @ + b.size]
      /\ live' = live \cup {b}
      /\ opened' = [opened EXCEPT ![t] = NoBuffer]
      /\ UNCHANGED <<created, ChunkPool, LSendBufferChunk, popped, dropped, memory, made>>

\* Mutant of Release: the chunk is never given back.
ReleaseOnly(b) ==
  /\ b \in live
  /\ live' = live \ {b}
  /\ UNCHANGED <<created, ChunkPool, LSendBufferChunk, popped, dropped, iUsedSize, opened, memory, made>>

\* The last queue that held a buffer has written or dropped it.
Release(b) ==
  /\ b \in live
  /\ live' = live \ {b}
  /\ Drop({b.chunk}, LSendBufferChunk, live')
  /\ UNCHANGED <<created, ChunkPool, LSendBufferChunk, popped, iUsedSize, opened, memory, made>>

\* PushGlobal: the deleter puts the chunk into the pool under the mutex.
PushGlobal(c) ==
  /\ c \in dropped
  /\ dropped' = dropped \ {c}
  /\ ChunkPool' = Append(ChunkPool, c)
  /\ UNCHANGED <<created, LSendBufferChunk, popped, iUsedSize, opened, live, memory, made>>

-----------------------------------------------------------------------------

Buffers == [chunk : ChunkIds, from : 0 .. ChunkSize - 1, size : Replies, id : Nat]

PoolTypeOK ==
  /\ created \subseteq ChunkIds
  /\ made \in Nat
  /\ ChunkPool \in Seq(created)
  /\ LSendBufferChunk \in [Threads -> created \cup {NoChunk}]
  /\ popped \in [Threads -> [chunk : created, size : Replies] \cup {NoPop}]
  /\ dropped \subseteq created
  /\ iUsedSize \in [ChunkIds -> 0 .. ChunkSize]
  /\ memory \in [ChunkIds -> [0 .. ChunkSize - 1 -> Nat]]
  /\ opened \in [Threads -> Buffers \cup {NoBuffer}]
  /\ live \subseteq Buffers

(* A message that is being written or waits in a queue still has all its bytes:
   no other message was cut from the same bytes, and its chunk was not reset
   and used again, on any thread (SendBuffer.cpp:52, :79). *)
QueuedBytesIntact ==
  \A b \in live \cup Opened :
    \A i \in b.from .. b.from + b.size - 1 : memory[b.chunk][i] = b.id

InPool == {ChunkPool[k] : k \in 1 .. Len(ChunkPool)}

Taken == {popped[t].chunk : t \in {u \in Threads : popped[u] # NoPop}}

Free == InPool \cup Taken \cup dropped

(* Every chunk is in exactly one place: in the pool once, taken by one thread,
   with its deleter, or referenced by the thread that cuts from it or by
   buffers. So no two threads cut from one chunk, no chunk that can be taken has
   buffers left, and none is lost (SendBuffer.cpp:99, :121). *)
ChunkHasOnePlace ==
  /\ \A j, k \in 1 .. Len(ChunkPool) : ChunkPool[j] = ChunkPool[k] => j = k
  /\ \A t, u \in Threads : t # u =>
       /\ LSendBufferChunk[t] = LSendBufferChunk[u] => LSendBufferChunk[t] = NoChunk
       /\ popped[t].chunk = popped[u].chunk => popped[t] = NoPop
  /\ InPool \cap Taken = {} /\ InPool \cap dropped = {} /\ Taken \cap dropped = {}
  /\ \A c \in created : c \in Free <=> ~Referenced(c, LSendBufferChunk, live)
===============================================================================
