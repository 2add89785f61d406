----------------------------- MODULE RecvBuffer ------------------------------
(***************************************************************************)
(* The receive buffer of a session and the framing loop that cuts packets  *)
(* out of it (RecvBuffer.cpp, GameSession::OnReceived, Session::DoRead).   *)
(* A byte is a record: byte number index of the packet-th packet that the  *)
(* client has sent, whose header says size. The connection is wire, a FIFO *)
(* of bytes; async_read_some takes any number of them.                     *)
(***************************************************************************)
EXTENDS Integers, Sequences

CONSTANTS
  BufferSize,    \* iBufferSize: Clean moves the data when less is free
  BufferCount,   \* BUFFER_COUNT: the capacity is so many times BufferSize
  HeaderSize,    \* sizeof(PacketHeader)
  MaxPacket      \* largest packet a client sends

ASSUME SizesArePositive ==
  /\ BufferSize \in Nat \ {0}
  /\ BufferCount \in Nat \ {0}
  /\ HeaderSize \in Nat \ {0}
  /\ MaxPacket \in Nat

Capacity == BufferCount * BufferSize

\* A packet is cut from one chunk of the sender's pool (6000 bytes), the buffer
\* has 40960: two packets and one BufferSize fit.
ASSUME PacketsFit == 2 * MaxPacket + BufferSize <= Capacity

VARIABLES
  Buffer,        \* the bytes at the positions of the buffer
  iReadPos,      \* first byte not handled when OnReceived was called
  iWritePos,     \* first free position
  iProcessLen,   \* bytes handled by the running OnReceived
  wire,          \* bytes sent and not read
  sent,          \* packets sent
  handled,       \* packets given to HandlePacket
  reading        \* DoRead waits in async_read_some, otherwise it is in OnReceived

recvVars == <<Buffer, iReadPos, iWritePos, iProcessLen, wire, sent, handled, reading>>

Sizes == HeaderSize .. MaxPacket

Byte(p, i, n) == [packet |-> p, index |-> i, size |-> n]

PacketBytes(p, n) == [i \in 1 .. n |-> Byte(p, i, n)]

DataSize == iWritePos - iReadPos
FreeSize == Capacity - iWritePos

RecvInit ==
  /\ Buffer = [i \in 0 .. Capacity - 1 |-> Byte(0, 0, 0)]
  /\ iReadPos = 0 /\ iWritePos = 0 /\ iProcessLen = 0
  /\ wire = <<>>
  /\ sent = 0 /\ handled = 0
  /\ reading = TRUE

-----------------------------------------------------------------------------

\* The client sends a packet: a whole header and body.
ClientSends(n) ==
  /\ wire' = wire \o PacketBytes(sent + 1, n)
  /\ sent' = sent + 1
  /\ UNCHANGED <<Buffer, iReadPos, iWritePos, iProcessLen, handled, reading>>

\* async_read_some completes with n bytes, and OnWrite advances the cursor.
Receive(n) ==
  /\ reading
  /\ n <= Len(wire) /\ n <= FreeSize
  /\ Buffer' = [i \in 0 .. Capacity - 1 |->
                  IF i \in iWritePos .. iWritePos + n - 1 THEN wire[i - iWritePos + 1]
                                                           ELSE Buffer[i]]
  /\ iWritePos' = iWritePos + n
  /\ wire' = SubSeq(wire, n + 1, Len(wire))
  /\ reading' = FALSE
  /\ UNCHANGED <<iReadPos, iProcessLen, sent, handled>>

\* The loop of OnReceived goes on: a header is there, and all that it announces.
PacketComplete ==
  LET iLen == DataSize - iProcessLen
  IN  /\ iLen >= HeaderSize
      /\ iLen >= Buffer[iReadPos + iProcessLen].size

\* One turn of the loop.
HandlePacket ==
  /\ ~reading
  /\ PacketComplete
  /\ iProcessLen' = iProcessLen + Buffer[iReadPos + iProcessLen].size
  /\ handled' = handled + 1
  /\ UNCHANGED <<Buffer, iReadPos, iWritePos, wire, sent, reading>>

\* Mutant of Clean: the write cursor stays where it was after a move.
CleanKeepsWritePos(r) ==
  LET rest == iWritePos - r
  IN  IF rest # 0 /\ FreeSize < BufferSize
      THEN /\ Buffer' = [i \in 0 .. Capacity - 1 |->
                           IF i < rest THEN Buffer[r + i] ELSE Buffer[i]]
           /\ iReadPos' = 0 /\ UNCHANGED iWritePos
      ELSE /\ iReadPos' = (IF rest = 0 THEN 0 ELSE r)
           /\ iWritePos' = (IF rest = 0 THEN 0 ELSE iWritePos)
           /\ UNCHANGED Buffer

\* Mutant of Clean: an empty buffer starts again, but nothing is ever moved.
CleanNeverMoves(r) ==
  /\ iReadPos' = (IF iWritePos = r THEN 0 ELSE r)
  /\ iWritePos' = (IF iWritePos = r THEN 0 ELSE iWritePos)
  /\ UNCHANGED Buffer

\* RecvBuffer::Clean with the read cursor at r: an empty buffer starts again,
\* and when less than BufferSize is free the rest is moved to the front.
Clean(r) ==
  LET rest == iWritePos - r
  IN  IF rest = 0
      THEN /\ iReadPos' = 0 /\ iWritePos' = 0
           /\ UNCHANGED Buffer
      ELSE IF FreeSize < BufferSize
      THEN /\ Buffer' = [i \in 0 .. Capacity - 1 |->
                           IF i < rest THEN Buffer[r + i] ELSE Buffer[i]]
           /\ iReadPos' = 0 /\ iWritePos' = rest
      ELSE /\ iReadPos' = r
           /\ UNCHANGED <<Buffer, iWritePos>>

\* OnReceived returns, OnRead advances the cursor over what was handled, and
\* DoRead goes round: Clean, then async_read_some.
ReadAgain ==
  /\ ~reading
  /\ ~PacketComplete
  /\ Clean(iReadPos + iProcessLen)
  /\ iProcessLen' = 0
  /\ reading' = TRUE
  /\ UNCHANGED <<wire, sent, handled>>

-----------------------------------------------------------------------------

Bytes == [packet : Nat, index : Nat, size : Nat]

RecvTypeOK ==
  /\ Buffer \in [0 .. Capacity - 1 -> Bytes]
  /\ iReadPos \in 0 .. Capacity
  /\ iWritePos \in iReadPos .. Capacity
  /\ iProcessLen \in 0 .. DataSize
  /\ wire \in Seq(Bytes)
  /\ sent \in Nat /\ handled \in Nat
  /\ reading \in BOOLEAN

\* The first position that HandlePacket has not taken.
Pos == iReadPos + iProcessLen

AheadLen == (iWritePos - Pos) + Len(wire)

\* The bytes HandlePacket has not taken: first the buffer, then the wire.
Ahead == [j \in 0 .. AheadLen - 1 |->
            IF j < iWritePos - Pos THEN Buffer[Pos + j] ELSE wire[j - (iWritePos - Pos) + 1]]

(* What is left in the buffer and on the connection is exactly the client's
   stream from the first packet that was not handled: HandlePacket never sees a
   packet torn, twice, out of order or with bytes of its neighbour, wherever
   the network cut the stream and whatever Clean moved (Session.cpp:34-52,
   RecvBuffer.cpp:12, GameSession.cpp:29). *)
StreamIsWhole ==
  /\ Pos <= iWritePos
  /\ IF AheadLen = 0 THEN handled = sent
                     ELSE Ahead[0].packet = handled + 1 /\ Ahead[0].index = 1
  /\ \A j \in 0 .. AheadLen - 1 : Ahead[j].index = 1 =>
       LET p == Ahead[j].packet
           n == Ahead[j].size
       IN  /\ n \in Sizes /\ j + n <= AheadLen
           /\ \A i \in 1 .. n : Ahead[j + i - 1] = Byte(p, i, n)
           /\ IF j + n = AheadLen
              THEN p = sent
              ELSE Ahead[j + n].packet = p + 1 /\ Ahead[j + n].index = 1

(* Whenever DoRead waits for data there is room for BufferSize bytes, so it
   never passes an empty buffer to async_read_some, which would return at once
   for ever (Session.cpp:36); and what Clean has to move (RecvBuffer.cpp:24, a
   memcpy) does not overlap the place it is moved to. *)
RoomToRead ==
  /\ reading => FreeSize >= BufferSize
  /\ ~reading /\ ~PacketComplete /\ FreeSize < BufferSize =>
       iWritePos - Pos <= Pos
===============================================================================
