-------------------------- MODULE PacketPathProofs ---------------------------
(***************************************************************************)
(* Proofs about PacketPath, for any threads, chunk and packet sizes and    *)
(* any number of packets: the framing loop and the send chunks.            *)
(***************************************************************************)
EXTENDS PacketPath, SequenceTheorems, TLAPS

\* StreamIsWhole, of a function P over 0 .. L - 1: the rest of the stream after
\* h of s packets.
Whole(P, L, h, s) ==
  /\ IF L = 0 THEN h = s ELSE P[0].packet = h + 1 /\ P[0].index = 1
  /\ \A j \in 0 .. L - 1 : P[j].index = 1 =>
       LET p == P[j].packet
           n == P[j].size
       IN  /\ n \in Sizes /\ j + n <= L
           /\ \A i \in 1 .. n : P[j + i - 1] = Byte(p, i, n)
           /\ IF j + n = L THEN p = s ELSE P[j + n].packet = p + 1 /\ P[j + n].index = 1

LEMMA StreamIsWholeMeans ==
  StreamIsWhole <=> Pos <= iWritePos /\ Whole(Ahead, AheadLen, handled, sent)
BY DEF StreamIsWhole, Whole

\* The other side of the connection appends one packet.
LEMMA WholeSent ==
  ASSUME NEW P, NEW Q, NEW L \in Nat, NEW h \in Nat, NEW s \in Nat, NEW n \in Sizes,
         Whole(P, L, h, s),
         \A j \in 0 .. L - 1 : Q[j] = P[j],
         \A i \in 1 .. n : Q[L + i - 1] = Byte(s + 1, i, n)
  PROVE  Whole(Q, L + n, h, s + 1)
<1>n. n \in Nat /\ n >= 1
  BY SizesArePositive DEF Sizes
<1>1. Q[L] = Byte(s + 1, 1, n)
  <2>1. 1 \in 1 .. n /\ L + 1 - 1 = L
    BY <1>n
  <2> QED
    BY <2>1
<1>2. Q[0].packet = h + 1 /\ Q[0].index = 1
  <2>1. CASE L = 0
    BY <2>1, <1>1 DEF Whole, Byte
  <2>2. CASE L # 0
    <3>1. 0 \in 0 .. L - 1
      BY <2>2
    <3> QED
      BY <2>2, <3>1 DEF Whole
  <2> QED
    BY <2>1, <2>2
<1> DEFINE M == L + n
<1>3. ASSUME NEW j \in 0 .. M - 1, Q[j].index = 1
      PROVE  LET p == Q[j].packet
                 m == Q[j].size
             IN  /\ m \in Sizes /\ j + m <= M
                 /\ \A i \in 1 .. m : Q[j + i - 1] = Byte(p, i, m)
                 /\ IF j + m = M
                    THEN p = s + 1
                    ELSE Q[j + m].packet = p + 1 /\ Q[j + m].index = 1
  <2>1. CASE j < L
    <3> DEFINE p == P[j].packet
               m == P[j].size
    <3>1. j \in 0 .. L - 1 /\ Q[j] = P[j]
      BY <2>1, <1>n
    <3>2. /\ m \in Sizes /\ j + m <= L
          /\ \A i \in 1 .. m : P[j + i - 1] = Byte(p, i, m)
          /\ IF j + m = L THEN p = s ELSE P[j + m].packet = p + 1 /\ P[j + m].index = 1
      BY <3>1, <1>3 DEF Whole
    <3>3. m \in Nat /\ m >= 1
      BY <3>2, SizesArePositive DEF Sizes
    <3>4. \A i \in 1 .. m : Q[j + i - 1] = Byte(p, i, m)
      <4> SUFFICES ASSUME NEW i \in 1 .. m PROVE Q[j + i - 1] = Byte(p, i, m)
        OBVIOUS
      <4>1. j + i - 1 \in 0 .. L - 1
        BY <3>1, <3>2, <3>3
      <4> QED
        BY <4>1, <3>2
    <3>5. j + m # L + n /\ j + m <= L + n
      BY <3>2, <3>3, <3>1, <1>n
    <3>6. Q[j + m].packet = p + 1 /\ Q[j + m].index = 1
      <4>1. CASE j + m = L
        BY <4>1, <3>2, <1>1 DEF Byte
      <4>2. CASE j + m # L
        <5>1. j + m \in 0 .. L - 1
          BY <4>2, <3>1, <3>2, <3>3
        <5> QED
          BY <5>1, <4>2, <3>2
      <4> QED
        BY <4>1, <4>2
    <3> QED
      BY <3>1, <3>2, <3>4, <3>5, <3>6
  <2>2. CASE j >= L
    <3> DEFINE i == j - L + 1
    <3>1. i \in 1 .. n /\ L + i - 1 = j
      BY <2>2, <1>n
    <3>2. Q[j] = Byte(s + 1, i, n)
      <4> HIDE DEF i
      <4> QED BY <3>1
    <3>3. i = 1 /\ j = L
      BY <3>2, <3>1, <1>3 DEF Byte
    <3>4. Q[j].packet = s + 1 /\ Q[j].size = n
      BY <3>2 DEF Byte
    <3>5. \A k \in 1 .. n : Q[j + k - 1] = Byte(s + 1, k, n)
      BY <3>3
    <3> QED
      BY <3>3, <3>4, <3>5, <1>n
  <2> QED
    BY <2>1, <2>2, <1>n
<1>4. M # 0
  BY <1>n
<1>5. Whole(Q, M, h, s + 1)
  <2> HIDE DEF M
  <2> QED
    BY <1>2, <1>3, <1>4 DEF Whole
<1> QED
  BY <1>5

\* The packet in front is taken away.
LEMMA WholeHandled ==
  ASSUME NEW P, NEW Q, NEW L \in Nat \ {0}, NEW h \in Nat, NEW s \in Nat,
         Whole(P, L, h, s),
         \A j \in 0 .. L - P[0].size - 1 : Q[j] = P[j + P[0].size]
  PROVE  /\ P[0].size \in Sizes /\ P[0].size <= L
         /\ Whole(Q, L - P[0].size, h + 1, s)
<1> DEFINE n == P[0].size
<1>0. 0 \in 0 .. L - 1 /\ P[0].index = 1 /\ P[0].packet = h + 1
  BY DEF Whole
<1>1. /\ n \in Sizes /\ 0 + n <= L
      /\ IF 0 + n = L THEN h + 1 = s ELSE P[0 + n].packet = h + 2 /\ P[0 + n].index = 1
  BY <1>0 DEF Whole
<1>2. n \in Nat /\ n >= 1 /\ 0 + n = n
  BY <1>1, SizesArePositive DEF Sizes
<1> DEFINE M == L - n
<1>3. M \in Nat /\ n <= L
  BY <1>1, <1>2
<1>4. IF M = 0 THEN h + 1 = s ELSE Q[0].packet = h + 1 + 1 /\ Q[0].index = 1
  <2>1. CASE M = 0
    BY <2>1, <1>1, <1>2, <1>3
  <2>2. CASE M # 0
    <3>1. 0 \in 0 .. L - n - 1 /\ 0 + n = n /\ n # L
      BY <2>2, <1>2, <1>3
    <3>2. Q[0] = P[n]
      BY <3>1
    <3> QED
      BY <2>2, <3>1, <3>2, <1>1
  <2> QED
    BY <2>1, <2>2
<1>5. ASSUME NEW j \in 0 .. M - 1, Q[j].index = 1
      PROVE  LET p == Q[j].packet
                 m == Q[j].size
             IN  /\ m \in Sizes /\ j + m <= M
                 /\ \A i \in 1 .. m : Q[j + i - 1] = Byte(p, i, m)
                 /\ IF j + m = M THEN p = s ELSE Q[j + m].packet = p + 1 /\ Q[j + m].index = 1
  <2> DEFINE p == Q[j].packet
             m == Q[j].size
  <2>1. j + n \in 0 .. L - 1 /\ Q[j] = P[j + n]
    BY <1>2, <1>3
  <2>2. /\ m \in Sizes /\ j + n + m <= L
        /\ \A i \in 1 .. m : P[j + n + i - 1] = Byte(p, i, m)
        /\ IF j + n + m = L THEN p = s ELSE P[j + n + m].packet = p + 1 /\ P[j + n + m].index = 1
    BY <2>1, <1>5 DEF Whole
  <2>3. m \in Nat /\ m >= 1
    BY <2>2, SizesArePositive DEF Sizes
  <2> HIDE DEF n, m, p
  <2>4. \A i \in 1 .. m : Q[j + i - 1] = Byte(p, i, m)
    <3> SUFFICES ASSUME NEW i \in 1 .. m PROVE Q[j + i - 1] = Byte(p, i, m)
      OBVIOUS
    <3>1. j + i - 1 \in 0 .. L - n - 1 /\ j + i - 1 + n = j + n + i - 1
      BY <1>2, <1>3, <2>2, <2>3
    <3>2. Q[j + i - 1] = P[j + i - 1 + n]
      BY <3>1 DEF n
    <3> QED
      BY <3>1, <3>2, <2>2
  <2>5. j + m <= M
    BY <1>2, <1>3, <2>2, <2>3
  <2>6. CASE j + m = M
    <3>1. j + n + m = L
      BY <2>6, <1>2, <1>3, <2>3
    <3> QED
      BY <3>1, <2>2, <2>4, <2>5, <2>6 DEF m, p
  <2>7. CASE j + m # M
    <3>1. j + m \in 0 .. L - n - 1 /\ j + m + n = j + n + m /\ j + n + m # L
      BY <2>7, <1>2, <1>3, <2>2, <2>3
    <3>2. Q[j + m] = P[j + m + n]
      BY <3>1 DEF n
    <3> QED
      BY <3>1, <3>2, <2>2, <2>4, <2>5, <2>7 DEF m, p
  <2> QED
    BY <2>6, <2>7
<1>6. Whole(Q, M, h + 1, s)
  <2> HIDE DEF M
  <2> QED BY <1>4, <1>5 DEF Whole
<1> QED
  BY <1>1, <1>2, <1>6

LEMMA WholeSame ==
  ASSUME NEW P, NEW Q, NEW L \in Nat, NEW h \in Nat, NEW s \in Nat,
         Whole(P, L, h, s), \A j \in 0 .. L - 1 : Q[j] = P[j]
  PROVE  Whole(Q, L, h, s)
<1>1. IF L = 0 THEN h = s ELSE Q[0].packet = h + 1 /\ Q[0].index = 1
  <2>1. L # 0 => 0 \in 0 .. L - 1
    OBVIOUS
  <2> QED
    BY <2>1 DEF Whole
<1>2. ASSUME NEW j \in 0 .. L - 1, Q[j].index = 1
      PROVE  LET p == Q[j].packet
                 n == Q[j].size
             IN  /\ n \in Sizes /\ j + n <= L
                 /\ \A i \in 1 .. n : Q[j + i - 1] = Byte(p, i, n)
                 /\ IF j + n = L THEN p = s ELSE Q[j + n].packet = p + 1 /\ Q[j + n].index = 1
  <2> DEFINE p == P[j].packet
             n == P[j].size
  <2>1. /\ n \in Sizes /\ j + n <= L
        /\ \A i \in 1 .. n : P[j + i - 1] = Byte(p, i, n)
        /\ IF j + n = L THEN p = s ELSE P[j + n].packet = p + 1 /\ P[j + n].index = 1
    BY <1>2 DEF Whole
  <2>2. n \in Nat /\ n >= 1
    BY <2>1, SizesArePositive DEF Sizes
  <2>3. \A i \in 1 .. n : j + i - 1 \in 0 .. L - 1
    BY <2>1, <2>2
  <2>4. j + n # L => j + n \in 0 .. L - 1
    BY <2>1, <2>2
  <2> QED
    BY <2>1, <2>3, <2>4
<1> QED
  BY <1>1, <1>2 DEF Whole

-----------------------------------------------------------------------------

LEMMA CapacityIsNat == Capacity \in Nat /\ Capacity >= BufferSize /\ BufferSize >= 1
<1>1. 2 * MaxPacket + BufferSize >= BufferSize /\ BufferSize >= 1
  BY SizesArePositive
<1>2. BufferCount * BufferSize \in Nat
  BY SizesArePositive
<1> QED
  BY <1>1, <1>2, PacketsFit, SizesArePositive DEF Capacity

LEMMA LengthsAreNat ==
  ASSUME RecvTypeOK, Pos <= iWritePos
  PROVE  /\ AheadLen \in Nat /\ Len(wire) \in Nat
         /\ iWritePos \in Nat /\ iReadPos \in Nat /\ iProcessLen \in Nat /\ Pos \in Nat
         /\ iWritePos - Pos \in Nat
         /\ iWritePos <= Capacity
  BY CapacityIsNat DEF RecvTypeOK, DataSize, Pos, AheadLen

\* What RecvTypeOK and StreamIsWhole say of the packet in front.
LEMMA FrontPacket ==
  ASSUME RecvTypeOK, StreamIsWhole, iWritePos - Pos > 0
  PROVE  /\ Buffer[Pos].size \in Sizes
         /\ Buffer[Pos] = Ahead[0]
<1>1. AheadLen \in Nat \ {0} /\ iWritePos - Pos \in Nat /\ Pos \in Nat
  BY LengthsAreNat DEF StreamIsWhole, AheadLen
<1>2. 0 \in 0 .. AheadLen - 1 /\ Pos + 0 = Pos
  BY <1>1
<1>3. Ahead[0] = Buffer[Pos]
  BY <1>1, <1>2 DEF Ahead
<1>4. Ahead[0].index = 1
  BY <1>1 DEF StreamIsWhole
<1>5. Ahead[0].size \in Sizes
  BY <1>2, <1>4 DEF StreamIsWhole
<1> QED
  BY <1>3, <1>5

LEMMA SendsStep ==
  ASSUME RecvTypeOK, StreamIsWhole, NEW n \in Sizes, ClientSends(n)
  PROVE  RecvTypeOK' /\ StreamIsWhole'
<1>n. n \in Nat /\ n >= 1
  BY SizesArePositive DEF Sizes
<1>0. /\ AheadLen \in Nat /\ Len(wire) \in Nat /\ iWritePos - Pos \in Nat
      /\ sent \in Nat /\ handled \in Nat /\ wire \in Seq(Bytes)
  BY LengthsAreNat DEF StreamIsWhole, RecvTypeOK
<1> DEFINE B == PacketBytes(sent + 1, n)
<1>1. B \in Seq(Bytes) /\ Len(B) = n /\ \A i \in 1 .. n : B[i] = Byte(sent + 1, i, n)
  <2>1. \A i \in 1 .. n : Byte(sent + 1, i, n) \in Bytes
    BY <1>0, <1>n DEF Byte, Bytes
  <2>2. B \in [1 .. n -> Bytes]
    BY <2>1 DEF PacketBytes
  <2> QED
    BY <2>2, <1>n, IsASeq DEF PacketBytes
<1>2. /\ wire' \in Seq(Bytes) /\ Len(wire') = Len(wire) + n
      /\ \A i \in 1 .. Len(wire) : wire'[i] = wire[i]
      /\ \A i \in 1 .. n : wire'[Len(wire) + i] = Byte(sent + 1, i, n)
  <2> HIDE DEF B
  <2>1. wire' = wire \o B
    BY DEF ClientSends, B
  <2>2. \A i \in 1 .. n : Len(wire) + i \in 1 .. Len(wire) + n
                        /\ Len(wire) + i > Len(wire) /\ Len(wire) + i - Len(wire) = i
    BY <1>0, <1>n
  <2>3. \A i \in 1 .. Len(wire) : i \in 1 .. Len(wire) + n
    BY <1>0, <1>n
  <2>4. /\ wire \o B \in Seq(Bytes) /\ Len(wire \o B) = Len(wire) + n
        /\ \A i \in 1 .. Len(wire) + n :
             (wire \o B)[i] = IF i <= Len(wire) THEN wire[i] ELSE B[i - Len(wire)]
    BY <1>0, <1>1, ConcatProperties
  <2> QED
    BY <2>1, <2>2, <2>3, <2>4, <1>1, <1>0
<1>3. /\ UNCHANGED <<Buffer, iReadPos, iWritePos, iProcessLen, handled, reading>>
      /\ sent' = sent + 1 /\ Pos' = Pos
  BY DEF ClientSends, Pos
<1>4. RecvTypeOK'
  BY <1>0, <1>2, <1>3 DEF RecvTypeOK, DataSize
<1>5. AheadLen' = AheadLen + n
  BY <1>0, <1>2, <1>3, <1>n DEF AheadLen
<1>6. \A j \in 0 .. AheadLen - 1 : Ahead'[j] = Ahead[j]
  <2> SUFFICES ASSUME NEW j \in 0 .. AheadLen - 1 PROVE Ahead'[j] = Ahead[j]
    OBVIOUS
  <2>1. j \in 0 .. AheadLen' - 1
    BY <1>5, <1>0, <1>n
  <2>2. ~(j < iWritePos - Pos) => j - (iWritePos - Pos) + 1 \in 1 .. Len(wire)
    BY <1>0 DEF AheadLen
  <2> QED
    BY <2>1, <2>2, <1>2, <1>3 DEF Ahead
<1>7. \A i \in 1 .. n : Ahead'[AheadLen + i - 1] = Byte(sent + 1, i, n)
  <2> SUFFICES ASSUME NEW i \in 1 .. n PROVE Ahead'[AheadLen + i - 1] = Byte(sent + 1, i, n)
    OBVIOUS
  <2> DEFINE j == AheadLen + i - 1
  <2>1. j \in 0 .. AheadLen' - 1
    BY <1>5, <1>0, <1>n
  <2>2. ~(j < iWritePos - Pos) /\ j - (iWritePos - Pos) + 1 = Len(wire) + i
    BY <1>0, <1>n DEF AheadLen
  <2>3. Ahead'[j] = wire'[j - (iWritePos - Pos) + 1]
    <3> HIDE DEF j
    <3> QED BY <2>1, <2>2, <1>3 DEF Ahead
  <2> QED
    BY <2>2, <2>3, <1>2
<1>8. Whole(Ahead', AheadLen', handled', sent')
  <2>1. Whole(Ahead, AheadLen, handled, sent)
    BY StreamIsWholeMeans
  <2>2. Whole(Ahead', AheadLen + n, handled, sent + 1)
    BY <2>1, <1>0, <1>6, <1>7, WholeSent
  <2> QED
    BY <2>2, <1>5, <1>3
<1>9. Pos' <= iWritePos'
  BY <1>3 DEF StreamIsWhole
<1>10. StreamIsWhole' <=> Pos' <= iWritePos' /\ Whole(Ahead', AheadLen', handled', sent')
  BY DEF StreamIsWhole, Whole
<1> QED
  BY <1>4, <1>8, <1>9, <1>10

LEMMA ReceiveStep ==
  ASSUME RecvTypeOK, StreamIsWhole, NEW n \in Nat, Receive(n)
  PROVE  RecvTypeOK' /\ StreamIsWhole'
<1>0. /\ AheadLen \in Nat /\ Len(wire) \in Nat /\ iWritePos - Pos \in Nat
      /\ Pos \in Nat /\ iWritePos \in Nat /\ iReadPos \in Nat /\ iProcessLen \in Nat
      /\ wire \in Seq(Bytes) /\ handled \in Nat /\ sent \in Nat
  BY LengthsAreNat DEF StreamIsWhole, RecvTypeOK
<1>1. /\ n <= Len(wire) /\ iWritePos + n <= Capacity /\ iWritePos' = iWritePos + n
      /\ UNCHANGED <<iReadPos, iProcessLen, sent, handled>> /\ reading' = FALSE
      /\ Pos' = Pos
  BY <1>0, CapacityIsNat DEF Receive, FreeSize, Pos
<1>2. /\ wire' \in Seq(Bytes) /\ Len(wire') = Len(wire) - n
      /\ \A i \in 1 .. Len(wire) - n : wire'[i] = wire[n + i]
  <2>1. wire' = SubSeq(wire, n + 1, Len(wire))
    BY DEF Receive
  <2>2. n + 1 \in 1 .. Len(wire) + 1 /\ Len(wire) \in n + 1 - 1 .. Len(wire)
    BY <1>0, <1>1
  <2>3. Len(wire) - (n + 1) + 1 = Len(wire) - n
    BY <1>0
  <2>4. CASE n + 1 <= Len(wire)
    <3>1. /\ wire' \in Seq(Bytes) /\ Len(wire') = Len(wire) - n
          /\ \A i \in 1 .. Len(wire) - n : wire'[i] = wire[n + 1 + i - 1]
      BY <2>1, <2>2, <2>3, <2>4, <1>0, SubSeqProperties
    <3>2. \A i \in 1 .. Len(wire) - n : n + 1 + i - 1 = n + i
      BY <1>0
    <3> QED
      BY <3>1, <3>2
  <2>5. CASE n + 1 > Len(wire)
    <3>1. wire' = << >> /\ Len(wire) - n = 0
      BY <2>1, <2>5, <1>0, <1>1, SubSeqEmpty
    <3> QED
      BY <3>1, <1>0
  <2> QED
    BY <2>4, <2>5, <1>0
<1>3. /\ Buffer' \in [0 .. Capacity - 1 -> Bytes]
      /\ \A i \in 0 .. iWritePos - 1 : Buffer'[i] = Buffer[i]
      /\ \A i \in iWritePos .. iWritePos + n - 1 : Buffer'[i] = wire[i - iWritePos + 1]
  <2>1. Buffer' = [i \in 0 .. Capacity - 1 |->
                     IF i \in iWritePos .. iWritePos + n - 1 THEN wire[i - iWritePos + 1]
                                                              ELSE Buffer[i]]
    BY DEF Receive
  <2>2. \A i \in iWritePos .. iWritePos + n - 1 :
          i - iWritePos + 1 \in 1 .. Len(wire) /\ i \in 0 .. Capacity - 1
    BY <1>0, <1>1, CapacityIsNat
  <2>3. \A k \in 1 .. Len(wire) : wire[k] \in Bytes
    BY <1>0, ElementOfSeq
  <2>4. \A i \in 0 .. iWritePos - 1 :
          i \in 0 .. Capacity - 1 /\ i \notin iWritePos .. iWritePos + n - 1
    BY <1>0, <1>1, CapacityIsNat
  <2>5. Buffer' \in [0 .. Capacity - 1 -> Bytes]
    BY <2>1, <2>2, <2>3 DEF RecvTypeOK
  <2>6. \A i \in 0 .. iWritePos - 1 : Buffer'[i] = Buffer[i]
    BY <2>1, <2>4
  <2>7. \A i \in iWritePos .. iWritePos + n - 1 : Buffer'[i] = wire[i - iWritePos + 1]
    BY <2>1, <2>2
  <2> QED
    BY <2>5, <2>6, <2>7
<1>4. RecvTypeOK'
  <2>1. iReadPos' \in 0 .. Capacity /\ iWritePos' \in iReadPos' .. Capacity
    BY <1>0, <1>1, CapacityIsNat DEF RecvTypeOK
  <2>2. iProcessLen' \in 0 .. DataSize'
    BY <1>0, <1>1 DEF DataSize, RecvTypeOK
  <2> QED
    BY <2>1, <2>2, <1>0, <1>1, <1>2, <1>3 DEF RecvTypeOK
<1>5. AheadLen' = AheadLen
  BY <1>0, <1>1, <1>2 DEF AheadLen
<1>6. \A j \in 0 .. AheadLen - 1 : Ahead'[j] = Ahead[j]
  <2> SUFFICES ASSUME NEW j \in 0 .. AheadLen - 1 PROVE Ahead'[j] = Ahead[j]
    OBVIOUS
  <2> DEFINE d == iWritePos - Pos
  <2>0. d \in Nat /\ (iWritePos - Pos)' = d + n /\ AheadLen = d + Len(wire)
    BY <1>0, <1>1 DEF AheadLen
  <2>1. Ahead'[j] = IF j < d + n THEN Buffer'[Pos + j] ELSE wire'[j - (d + n) + 1]
    BY <2>0, <1>1, <1>5 DEF Ahead
  <2>2. Ahead[j] = IF j < d THEN Buffer[Pos + j] ELSE wire[j - d + 1]
    BY DEF Ahead
  <2>3. CASE j < d
    <3>1. Pos + j \in 0 .. iWritePos - 1 /\ j < d + n
      BY <2>3, <1>0
    <3> QED
      BY <3>1, <2>1, <2>2, <2>3, <1>3
  <2>4. CASE d <= j /\ j < d + n
    <3>1. Pos + j \in iWritePos .. iWritePos + n - 1 /\ (Pos + j) - iWritePos + 1 = j - d + 1
      BY <2>4, <1>0
    <3>2. Buffer'[Pos + j] = wire[(Pos + j) - iWritePos + 1]
      <4> DEFINE k == Pos + j
      <4>1. k \in iWritePos .. iWritePos + n - 1
        BY <3>1
      <4>2. \A i \in iWritePos .. iWritePos + n - 1 : Buffer'[i] = wire[i - iWritePos + 1]
        BY <1>3
      <4> HIDE DEF k
      <4>3. Buffer'[k] = wire[k - iWritePos + 1]
        BY <4>1, <4>2
      <4> QED
        BY <4>3, Zenon DEF k
    <3> HIDE DEF d
    <3> QED
      BY <3>1, <3>2, <2>1, <2>2, <2>4, <2>0
  <2>5. CASE j >= d + n
    <3>1. j - (d + n) + 1 \in 1 .. Len(wire) - n /\ n + (j - (d + n) + 1) = j - d + 1
      BY <2>5, <2>0, <1>0
    <3>2. wire'[j - (d + n) + 1] = wire[j - d + 1]
      BY <3>1, <1>2
    <3>3. ~(j < d + n) /\ ~(j < d)
      BY <2>5, <2>0
    <3> QED
      BY <3>2, <3>3, <2>1, <2>2
  <2> QED
    BY <2>3, <2>4, <2>5, <2>0
<1>7. Whole(Ahead', AheadLen', handled', sent')
  <2>1. Whole(Ahead, AheadLen, handled, sent)
    BY StreamIsWholeMeans
  <2>2. Whole(Ahead', AheadLen, handled, sent)
    BY <2>1, <1>0, <1>6, WholeSame
  <2> QED
    BY <2>2, <1>5, <1>1
<1>8. Pos' <= iWritePos'
  BY <1>0, <1>1
<1>9. StreamIsWhole' <=> Pos' <= iWritePos' /\ Whole(Ahead', AheadLen', handled', sent')
  BY DEF StreamIsWhole, Whole
<1> QED
  BY <1>4, <1>7, <1>8, <1>9

LEMMA HandleStep ==
  ASSUME RecvTypeOK, StreamIsWhole, HandlePacket
  PROVE  RecvTypeOK' /\ StreamIsWhole'
<1> DEFINE d == iWritePos - Pos
           n == Buffer[Pos].size
<1>0. /\ AheadLen \in Nat /\ Len(wire) \in Nat /\ d \in Nat
      /\ Pos \in Nat /\ iWritePos \in Nat /\ iReadPos \in Nat /\ iProcessLen \in Nat
      /\ handled \in Nat /\ sent \in Nat
  BY LengthsAreNat DEF StreamIsWhole, RecvTypeOK
<1>1. DataSize - iProcessLen = d /\ Pos = iReadPos + iProcessLen
  BY <1>0 DEF DataSize, Pos
<1>2. d >= HeaderSize /\ d >= n
  BY <1>1 DEF HandlePacket, PacketComplete, Pos
<1>3. d > 0
  BY <1>0, <1>2, SizesArePositive
<1>4. n \in Sizes /\ Buffer[Pos] = Ahead[0]
  BY <1>3, FrontPacket
<1>5. n \in Nat
  BY <1>4, SizesArePositive DEF Sizes
<1>6. /\ iProcessLen' = iProcessLen + n /\ handled' = handled + 1
      /\ UNCHANGED <<Buffer, iReadPos, iWritePos, wire, sent, reading>>
  BY <1>1 DEF HandlePacket, Pos
<1> HIDE DEF n
<1>7. Pos' = Pos + n /\ iWritePos' - Pos' = d - n
  BY <1>0, <1>5, <1>6 DEF Pos
<1>8. RecvTypeOK'
  BY <1>0, <1>1, <1>2, <1>5, <1>6 DEF RecvTypeOK, DataSize
<1>9. AheadLen' = AheadLen - n /\ AheadLen = d + Len(wire)
  BY <1>0, <1>5, <1>6, <1>7 DEF AheadLen
<1>10. \A j \in 0 .. AheadLen - n - 1 : Ahead'[j] = Ahead[j + n]
  <2> SUFFICES ASSUME NEW j \in 0 .. AheadLen - n - 1 PROVE Ahead'[j] = Ahead[j + n]
    OBVIOUS
  <2>1. Ahead'[j] = IF j < d - n THEN Buffer[Pos + n + j] ELSE wire[j - (d - n) + 1]
    BY <1>6, <1>7, <1>9 DEF Ahead
  <2>2. j + n \in 0 .. AheadLen - 1
    BY <1>0, <1>5
  <2>3. Ahead[j + n] = IF j + n < d THEN Buffer[Pos + (j + n)] ELSE wire[(j + n) - d + 1]
    <3> DEFINE k == j + n
    <3>1. k \in 0 .. AheadLen - 1
      BY <2>2
    <3> HIDE DEF k
    <3>2. Ahead[k] = IF k < d THEN Buffer[Pos + k] ELSE wire[k - d + 1]
      BY <3>1 DEF Ahead
    <3> QED
      BY <3>2, Zenon DEF k, d
  <2>4. /\ (j < d - n) <=> (j + n < d)
        /\ Pos + n + j = Pos + (j + n)
        /\ j - (d - n) + 1 = (j + n) - d + 1
    BY <1>0, <1>5
  <2> HIDE DEF d
  <2> QED
    BY <2>1, <2>3, <2>4
<1>11. Whole(Ahead', AheadLen', handled', sent')
  <2>1. Whole(Ahead, AheadLen, handled, sent)
    BY StreamIsWholeMeans
  <2>2. AheadLen \in Nat \ {0} /\ Ahead[0].size = n
    BY <1>0, <1>3, <1>4, <1>9 DEF n
  <2>3. Whole(Ahead', AheadLen - Ahead[0].size, handled + 1, sent)
    <3>1. \A j \in 0 .. AheadLen - Ahead[0].size - 1 : Ahead'[j] = Ahead[j + Ahead[0].size]
      BY <2>2, <1>10
    <3> QED
      BY <3>1, <2>1, <2>2, <1>0, WholeHandled
  <2> QED
    BY <2>2, <2>3, <1>6, <1>9
<1>12. Pos' <= iWritePos'
  BY <1>0, <1>2, <1>5, <1>6, <1>7
<1>13. StreamIsWhole' <=> Pos' <= iWritePos' /\ Whole(Ahead', AheadLen', handled', sent')
  BY DEF StreamIsWhole, Whole
<1> QED
  BY <1>8, <1>11, <1>12, <1>13

\* Clean keeps the bytes from r on, and puts them where BufferSize is free.
LEMMA CleanMoves ==
  ASSUME RecvTypeOK, NEW r \in Nat, r <= iWritePos, iReadPos <= r, Clean(r)
  PROVE  /\ Buffer' \in [0 .. Capacity - 1 -> Bytes]
         /\ iReadPos' \in Nat /\ iWritePos' \in Nat
         /\ iWritePos' <= Capacity
         /\ iWritePos' - iReadPos' = iWritePos - r
         /\ \A j \in 0 .. iWritePos - r - 1 : Buffer'[iReadPos' + j] = Buffer[r + j]
         /\ FreeSize' >= BufferSize \/ (iReadPos' = 0 /\ iWritePos' = iWritePos - r)
<1> DEFINE rest == iWritePos - r
<1>0. /\ iWritePos \in Nat /\ rest \in Nat /\ iWritePos <= Capacity /\ iReadPos \in Nat
      /\ Capacity \in Nat /\ BufferSize \in Nat
  BY CapacityIsNat, SizesArePositive DEF RecvTypeOK
<1>1. CASE rest = 0
  BY <1>0, <1>1 DEF Clean, RecvTypeOK
<1>2. CASE rest # 0 /\ FreeSize < BufferSize
  <2>1. /\ Buffer' = [i \in 0 .. Capacity - 1 |-> IF i < rest THEN Buffer[r + i] ELSE Buffer[i]]
        /\ iReadPos' = 0 /\ iWritePos' = rest
    BY <1>2 DEF Clean
  <2>2. \A i \in 0 .. rest - 1 : i \in 0 .. Capacity - 1 /\ r + i \in 0 .. Capacity - 1
    BY <1>0
  <2>3. Buffer' \in [0 .. Capacity - 1 -> Bytes]
    <3>1. \A i \in 0 .. Capacity - 1 : i < rest => i \in 0 .. rest - 1
      BY <1>0
    <3> HIDE DEF rest
    <3> QED BY <2>1, <2>2, <3>1 DEF RecvTypeOK
  <2>4. \A j \in 0 .. rest - 1 : Buffer'[0 + j] = Buffer[r + j]
    <3>1. \A j \in 0 .. rest - 1 : 0 + j = j /\ j < rest
      BY <1>0
    <3> HIDE DEF rest
    <3> QED BY <2>1, <2>2, <3>1
  <2> QED
    BY <2>1, <2>3, <2>4, <1>0
<1>3. CASE rest # 0 /\ ~(FreeSize < BufferSize)
  <2>1. iReadPos' = r /\ UNCHANGED <<Buffer, iWritePos>>
    BY <1>3 DEF Clean
  <2>2. FreeSize' >= BufferSize
    BY <2>1, <1>3, <1>0 DEF FreeSize
  <2> QED
    BY <2>1, <2>2, <1>0 DEF RecvTypeOK
<1> QED
  BY <1>1, <1>2, <1>3

\* When the loop of OnReceived ends, less than one packet is left.
LEMMA RestIsShort ==
  ASSUME RecvTypeOK, StreamIsWhole, ~PacketComplete
  PROVE  iWritePos - Pos <= MaxPacket
<1>0. /\ iWritePos - Pos \in Nat /\ Pos \in Nat /\ iWritePos \in Nat
      /\ iReadPos \in Nat /\ iProcessLen \in Nat
  BY LengthsAreNat DEF StreamIsWhole
<1>1. DataSize - iProcessLen = iWritePos - Pos /\ iReadPos + iProcessLen = Pos
  BY <1>0 DEF DataSize, Pos
<1>2. CASE iWritePos - Pos = 0
  BY <1>2, SizesArePositive
<1>3. CASE iWritePos - Pos > 0
  <2>1. Buffer[Pos].size \in Sizes
    BY <1>3, FrontPacket
  <2>2. Buffer[Pos].size \in Nat /\ HeaderSize <= Buffer[Pos].size /\ Buffer[Pos].size <= MaxPacket
    BY <2>1, SizesArePositive DEF Sizes
  <2>3. iWritePos - Pos < HeaderSize \/ iWritePos - Pos < Buffer[Pos].size
    BY <1>0, <1>1, <2>2, SizesArePositive DEF PacketComplete
  <2> QED
    BY <2>2, <2>3, <1>0, SizesArePositive
<1> QED
  BY <1>0, <1>2, <1>3

LEMMA AgainStep ==
  ASSUME RecvTypeOK, StreamIsWhole, ReadAgain
  PROVE  RecvTypeOK' /\ StreamIsWhole' /\ FreeSize' >= BufferSize
<1> DEFINE d == iWritePos - Pos
<1>0. /\ AheadLen \in Nat /\ Len(wire) \in Nat /\ d \in Nat
      /\ Pos \in Nat /\ iWritePos \in Nat /\ iReadPos \in Nat /\ iProcessLen \in Nat
      /\ handled \in Nat /\ sent \in Nat /\ wire \in Seq(Bytes)
      /\ Pos <= iWritePos /\ iReadPos <= Pos
  BY LengthsAreNat DEF StreamIsWhole, RecvTypeOK, Pos
<1>c. Clean(Pos) /\ ~PacketComplete
  BY DEF ReadAgain, Pos
<1>1. iProcessLen' = 0 /\ reading' = TRUE /\ UNCHANGED <<wire, sent, handled>>
  BY DEF ReadAgain
<1>2. /\ Buffer' \in [0 .. Capacity - 1 -> Bytes]
      /\ iReadPos' \in Nat /\ iWritePos' \in Nat
      /\ iWritePos' <= Capacity
      /\ iWritePos' - iReadPos' = d
      /\ \A j \in 0 .. d - 1 : Buffer'[iReadPos' + j] = Buffer[Pos + j]
      /\ FreeSize' >= BufferSize \/ (iReadPos' = 0 /\ iWritePos' = d)
  BY <1>0, <1>c, CleanMoves
<1>a. /\ iReadPos' \in Nat /\ iWritePos' \in Nat /\ Capacity \in Nat /\ d \in Nat
      /\ iWritePos' <= Capacity /\ iWritePos' - iReadPos' = d
  BY <1>0, <1>2, CapacityIsNat
<1>b. iReadPos' \in 0 .. Capacity /\ iWritePos' \in iReadPos' .. Capacity /\ iReadPos' <= iWritePos'
  <2> DEFINE r == iReadPos'
             w == iWritePos'
  <2>1. r \in Nat /\ w \in Nat /\ Capacity \in Nat /\ d \in Nat /\ w <= Capacity /\ w - r = d
    BY <1>a
  <2> HIDE DEF r, w, d
  <2>2. r \in 0 .. Capacity /\ w \in r .. Capacity /\ r <= w
    BY <2>1
  <2> QED
    BY <2>2 DEF r, w
<1>3. Pos' = iReadPos' /\ iWritePos' - Pos' = d
  <2>1. \A r \in Nat : r + 0 = r
    OBVIOUS
  <2>2. Pos' = iReadPos' + 0
    BY <1>1 DEF Pos
  <2>3. Pos' = iReadPos'
    BY <2>1, <2>2, <1>a, Zenon
  <2> QED
    BY <2>3, <1>a
<1>4. RecvTypeOK'
  <2>1. iProcessLen' \in 0 .. DataSize'
    <3>1. \A k \in Nat : 0 \in 0 .. k
      OBVIOUS
    <3>2. DataSize' = d
      BY <1>a DEF DataSize
    <3> HIDE DEF d
    <3> QED
      BY <3>1, <3>2, <1>1, <1>a, Zenon
  <2> QED
    BY <2>1, <1>b, <1>0, <1>1, <1>2 DEF RecvTypeOK
<1>5. AheadLen' = AheadLen /\ AheadLen = d + Len(wire)
  BY <1>1, <1>3 DEF AheadLen
<1>6. \A j \in 0 .. AheadLen - 1 : Ahead'[j] = Ahead[j]
  <2> SUFFICES ASSUME NEW j \in 0 .. AheadLen - 1 PROVE Ahead'[j] = Ahead[j]
    OBVIOUS
  <2>1. Ahead'[j] = IF j < d THEN Buffer'[Pos' + j] ELSE wire[j - d + 1]
    BY <1>1, <1>3, <1>5 DEF Ahead
  <2>2. Ahead[j] = IF j < d THEN Buffer[Pos + j] ELSE wire[j - d + 1]
    BY DEF Ahead
  <2>3. j < d => j \in 0 .. d - 1
    BY <1>0
  <2> HIDE DEF d
  <2> QED
    BY <2>1, <2>2, <2>3, <1>2, <1>3
<1>7. Whole(Ahead', AheadLen', handled', sent')
  <2>1. Whole(Ahead, AheadLen, handled, sent)
    BY StreamIsWholeMeans
  <2>2. Whole(Ahead', AheadLen, handled, sent)
    BY <2>1, <1>0, <1>6, WholeSame
  <2> QED
    BY <2>2, <1>5, <1>1
<1>8. StreamIsWhole' <=> Pos' <= iWritePos' /\ Whole(Ahead', AheadLen', handled', sent')
  BY DEF StreamIsWhole, Whole
<1>9. Pos' <= iWritePos'
  BY <1>b, <1>3
<1>10. FreeSize' >= BufferSize
  <2>1. CASE iWritePos' = d
    <3>1. d <= MaxPacket
      BY <1>c, RestIsShort
    <3>2. FreeSize' = Capacity - d
      BY <2>1 DEF FreeSize, Capacity
    <3>3. d + BufferSize <= 2 * MaxPacket + BufferSize
      BY <3>1, <1>0, SizesArePositive
    <3> QED
      BY <3>2, <3>3, <1>0, PacketsFit, CapacityIsNat, SizesArePositive
  <2> QED
    BY <2>1, <1>2
<1> QED
  BY <1>4, <1>7, <1>8, <1>9, <1>10

\* The memcpy of Clean does not overlap.
LEMMA MovesApart ==
  ASSUME RecvTypeOK, StreamIsWhole, ~PacketComplete, FreeSize < BufferSize
  PROVE  iWritePos - Pos <= Pos
<1>0. iWritePos - Pos \in Nat /\ Pos \in Nat /\ iWritePos \in Nat
  BY LengthsAreNat DEF StreamIsWhole
<1>1. iWritePos - Pos <= MaxPacket
  BY RestIsShort
<1>2. iWritePos > Capacity - BufferSize
  BY <1>0, CapacityIsNat, SizesArePositive DEF FreeSize
<1> QED
  BY <1>0, <1>1, <1>2, PacketsFit, CapacityIsNat, SizesArePositive

-----------------------------------------------------------------------------

\* What keeps QueuedBytesIntact: sent buffers lie below iUsedSize of their chunk,
\* and a buffer being written starts there, in the chunk of its thread.
BuffersFit ==
  /\ \A b \in live : b.chunk \in created /\ b.from + b.size <= iUsedSize[b.chunk]
  /\ \A t \in Threads : opened[t] # NoBuffer =>
       /\ opened[t].chunk = LSendBufferChunk[t] /\ opened[t].chunk \in created
       /\ opened[t].from = iUsedSize[opened[t].chunk]
       /\ opened[t].from + opened[t].size <= ChunkSize
       /\ popped[t] = NoPop

PoolInv == PoolTypeOK /\ BuffersFit /\ QueuedBytesIntact /\ ChunkHasOnePlace

\* The parts of PoolTypeOK, and what they say of single threads and chunks.
LEMMA PoolTypes ==
  ASSUME PoolTypeOK
  PROVE  /\ created \subseteq ChunkIds /\ NoChunk \notin created
         /\ \A t \in Threads : LSendBufferChunk[t] \in created \cup {NoChunk}
         /\ \A t \in Threads : popped[t] # NoPop =>
              popped[t].chunk \in created /\ popped[t].size \in Replies
         /\ \A t \in Threads : popped[t] = NoPop => popped[t].chunk = NoChunk
         /\ \A t \in Threads : opened[t] # NoBuffer => opened[t] \in Buffers
         /\ InPool \subseteq created /\ Taken \subseteq created /\ dropped \subseteq created
<1>1. /\ created \subseteq ChunkIds /\ NoChunk \notin created
      /\ \A t \in Threads : LSendBufferChunk[t] \in created \cup {NoChunk}
      /\ dropped \subseteq created
  BY RepliesFit DEF PoolTypeOK
<1>2. \A t \in Threads : popped[t] \in [chunk : created, size : Replies] \cup {NoPop}
  BY DEF PoolTypeOK
<1>3. \A t \in Threads : popped[t] # NoPop =>
        popped[t].chunk \in created /\ popped[t].size \in Replies
  BY <1>2
<1>4. \A t \in Threads : popped[t] = NoPop => popped[t].chunk = NoChunk
  BY DEF NoPop
<1>5. \A t \in Threads : opened[t] # NoBuffer => opened[t] \in Buffers
  BY DEF PoolTypeOK
<1>6. InPool \subseteq created
  BY ElementOfSeq DEF InPool, PoolTypeOK
<1>7. Taken \subseteq created
  BY <1>3 DEF Taken
<1> QED
  BY <1>1, <1>3, <1>4, <1>5, <1>6, <1>7

LEMMA CutEffect ==
  ASSUME PoolTypeOK, NEW t \in Threads, NEW c \in ChunkIds,
         NEW used \in [ChunkIds -> 0 .. ChunkSize],
         NEW n \in Replies, ChunkSize - used[c] >= n, Cut(t, c, used, n)
  PROVE  \E b \in Buffers :
           /\ b # NoBuffer
           /\ b.chunk = c /\ b.from = used[c] /\ b.size = n
           /\ b.from + b.size <= ChunkSize
           /\ opened' = [opened EXCEPT ![t] = b]
           /\ opened' \in [Threads -> Buffers \cup {NoBuffer}]
           /\ memory' \in [ChunkIds -> [0 .. ChunkSize - 1 -> Nat]]
           /\ \A d \in ChunkIds \ {c} : memory'[d] = memory[d]
           /\ \A i \in 0 .. b.from - 1 : memory'[c][i] = memory[c][i]
           /\ \A i \in b.from .. b.from + b.size - 1 : memory'[c][i] = b.id
           /\ made' \in Nat
<1> DEFINE b == [chunk |-> c, from |-> used[c], size |-> n, id |-> made + 1]
           old == memory[c]
           new == [i \in 0 .. ChunkSize - 1 |-> IF i \in b.from .. b.from + n - 1 THEN b.id ELSE old[i]]
<1>0. /\ used[c] \in Nat /\ used[c] <= ChunkSize /\ ChunkSize \in Nat
      /\ n \in Nat /\ n >= 1 /\ made \in Nat
      /\ old \in [0 .. ChunkSize - 1 -> Nat]
      /\ opened \in [Threads -> Buffers \cup {NoBuffer}]
      /\ memory \in [ChunkIds -> [0 .. ChunkSize - 1 -> Nat]]
  <2>1. /\ made \in Nat
        /\ old \in [0 .. ChunkSize - 1 -> Nat]
        /\ opened \in [Threads -> Buffers \cup {NoBuffer}]
        /\ memory \in [ChunkIds -> [0 .. ChunkSize - 1 -> Nat]]
    BY DEF PoolTypeOK
  <2>2. ChunkSize \in Nat /\ n \in 1 .. ChunkSize
    BY RepliesFit
  <2>3. n \in Nat /\ n >= 1
    BY <2>2
  <2>4. used[c] \in 0 .. ChunkSize
    OBVIOUS
  <2>5. used[c] \in Nat /\ used[c] <= ChunkSize
    BY <2>2, <2>4
  <2> QED
    BY <2>1, <2>2, <2>3, <2>5
<1>1. used[c] + n <= ChunkSize /\ used[c] \in 0 .. ChunkSize - 1 /\ made + 1 \in Nat
  BY <1>0
<1>2. b \in Buffers /\ b.chunk = c /\ b.from = used[c] /\ b.size = n /\ b.id = made + 1
  BY <1>1 DEF Buffers
<1>3. b # NoBuffer
  BY RepliesFit, <1>2 DEF NoBuffer
<1>4. /\ opened' = [opened EXCEPT ![t] = b]
      /\ memory' = [memory EXCEPT ![c] = new]
      /\ made' = made + 1
  BY DEF Cut
<1>5. new \in [0 .. ChunkSize - 1 -> Nat]
  <2> HIDE DEF b, old
  <2> QED BY <1>0, <1>1, <1>2
<1>6. \A i \in 0 .. b.from - 1 : new[i] = old[i]
  <2> HIDE DEF old, b
  <2>1. \A i \in 0 .. b.from - 1 : i \in 0 .. ChunkSize - 1 /\ i \notin b.from .. b.from + n - 1
    BY <1>0, <1>1, <1>2
  <2> QED BY <2>1
<1>7. \A i \in b.from .. b.from + b.size - 1 : new[i] = b.id
  <2> HIDE DEF old, b
  <2>1. \A i \in b.from .. b.from + n - 1 : i \in 0 .. ChunkSize - 1
    BY <1>0, <1>1, <1>2
  <2> QED BY <2>1, <1>2
<1>8. memory' \in [ChunkIds -> [0 .. ChunkSize - 1 -> Nat]] /\ memory'[c] = new
      /\ \A d \in ChunkIds \ {c} : memory'[d] = memory[d]
  <2> HIDE DEF new
  <2> QED BY <1>0, <1>4, <1>5
<1>9. opened' \in [Threads -> Buffers \cup {NoBuffer}]
  <2> HIDE DEF b
  <2> QED BY <1>0, <1>2, <1>4
<1>10. b.from + b.size <= ChunkSize /\ made' \in Nat
  BY <1>1, <1>2, <1>4
<1> HIDE DEF b, new
<1> QED
  BY <1>2, <1>3, <1>4, <1>6, <1>7, <1>8, <1>9, <1>10 DEF old

\* QueuedBytesIntact and BuffersFit after a thread has cut a buffer, when nothing
\* else lies in its chunk from the place of the cut on.
LEMMA CutIntact ==
  ASSUME PoolTypeOK, BuffersFit, QueuedBytesIntact, NEW t \in Threads, NEW c \in created,
         iUsedSize' \in [ChunkIds -> 0 .. ChunkSize],
         \A d \in ChunkIds \ {c} : iUsedSize'[d] = iUsedSize[d],
         NEW n \in Replies, ChunkSize - iUsedSize'[c] >= n, Cut(t, c, iUsedSize', n),
         \A b \in live : b.chunk = c => b.from + b.size <= iUsedSize'[c],
         \A u \in Threads \ {t} : LSendBufferChunk[u] # c,
         LSendBufferChunk' = [LSendBufferChunk EXCEPT ![t] = c],
         \A u \in Threads \ {t} : popped'[u] = popped[u],
         popped'[t] = NoPop,
         UNCHANGED <<live, created>>
  PROVE  /\ BuffersFit' /\ QueuedBytesIntact'
         /\ opened' \in [Threads -> Buffers \cup {NoBuffer}]
         /\ memory' \in [ChunkIds -> [0 .. ChunkSize - 1 -> Nat]]
         /\ made' \in Nat
<1>0. c \in ChunkIds /\ created \subseteq ChunkIds
  BY DEF PoolTypeOK
<1>1. PICK b \in Buffers :
           /\ b # NoBuffer
           /\ b.chunk = c /\ b.from = iUsedSize'[c] /\ b.size = n
           /\ b.from + b.size <= ChunkSize
           /\ opened' = [opened EXCEPT ![t] = b]
           /\ opened' \in [Threads -> Buffers \cup {NoBuffer}]
           /\ memory' \in [ChunkIds -> [0 .. ChunkSize - 1 -> Nat]]
           /\ \A d \in ChunkIds \ {c} : memory'[d] = memory[d]
           /\ \A i \in 0 .. b.from - 1 : memory'[c][i] = memory[c][i]
           /\ \A i \in b.from .. b.from + b.size - 1 : memory'[c][i] = b.id
           /\ made' \in Nat
  BY <1>0, CutEffect
<1>2. opened'[t] = b /\ \A u \in Threads \ {t} : opened'[u] = opened[u]
  BY <1>1 DEF PoolTypeOK
<1>3. /\ LSendBufferChunk'[t] = c
      /\ \A u \in Threads \ {t} : LSendBufferChunk'[u] = LSendBufferChunk[u]
  BY DEF PoolTypeOK
<1>4. \A u \in Threads \ {t} : opened[u] # NoBuffer => opened[u].chunk # c /\ opened[u].chunk \in ChunkIds
  BY <1>0 DEF BuffersFit
<1>5. \A a \in live : a.chunk \in ChunkIds /\ a \in Buffers
  BY <1>0 DEF BuffersFit, PoolTypeOK
<1>6. BuffersFit'
  <2>1. \A a \in live : a.chunk \in created /\ a.from + a.size <= iUsedSize'[a.chunk]
    <3> SUFFICES ASSUME NEW a \in live PROVE a.chunk \in created /\ a.from + a.size <= iUsedSize'[a.chunk]
      OBVIOUS
    <3>1. CASE a.chunk = c
      BY <3>1
    <3>2. CASE a.chunk # c
      BY <3>2, <1>5 DEF BuffersFit
    <3> QED BY <3>1, <3>2
  <2>2. ASSUME NEW u \in Threads, opened'[u] # NoBuffer
        PROVE  /\ opened'[u].chunk = LSendBufferChunk'[u] /\ opened'[u].chunk \in created
               /\ opened'[u].from = iUsedSize'[opened'[u].chunk]
               /\ opened'[u].from + opened'[u].size <= ChunkSize
               /\ popped'[u] = NoPop
    <3>1. CASE u = t
      BY <3>1, <1>1, <1>2, <1>3
    <3>2. CASE u # t
      BY <3>2, <2>2, <1>2, <1>3, <1>4 DEF BuffersFit
    <3> QED BY <3>1, <3>2
  <2> QED
    BY <2>1, <2>2 DEF BuffersFit
<1>7. QueuedBytesIntact'
  <2> SUFFICES ASSUME NEW a \in live \cup Opened', NEW i \in a.from .. a.from + a.size - 1
               PROVE  memory'[a.chunk][i] = a.id
    BY DEF QueuedBytesIntact
  <2>1. CASE a \in live
    <3>1. memory[a.chunk][i] = a.id
      BY <2>1 DEF QueuedBytesIntact
    <3>2. CASE a.chunk = c
      <4>0. iUsedSize'[c] \in Nat /\ a.from \in Nat /\ a.size \in Nat /\ b.from \in Nat
        <5>1. iUsedSize'[c] \in 0 .. ChunkSize /\ ChunkSize \in Nat
          BY <1>0, RepliesFit
        <5>2. a.from \in 0 .. ChunkSize - 1 /\ a.size \in Replies /\ b.from \in 0 .. ChunkSize - 1
          BY <1>5, <2>1 DEF Buffers
        <5>3. a.size \in 1 .. ChunkSize
          BY <5>2, RepliesFit
        <5> QED
          BY <5>1, <5>2, <5>3
      <4>1. a.from + a.size <= b.from
        BY <2>1, <3>2, <1>1
      <4>2. i \in 0 .. b.from - 1
        BY <4>0, <4>1
      <4> QED
        BY <4>2, <3>1, <3>2, <1>1
    <3>3. CASE a.chunk # c
      BY <3>1, <3>3, <2>1, <1>1, <1>5
    <3> QED BY <3>2, <3>3
  <2>2. CASE a \in Opened'
    <3>1. PICK u \in Threads : opened'[u] # NoBuffer /\ a = opened'[u]
      BY <2>2 DEF Opened
    <3>2. CASE u = t
      BY <3>1, <3>2, <1>1, <1>2
    <3>3. CASE u # t
      <4>1. a = opened[u] /\ opened[u] # NoBuffer
        BY <3>1, <3>3, <1>2
      <4>2. memory[a.chunk][i] = a.id
        BY <4>1 DEF QueuedBytesIntact, Opened
      <4>3. a.chunk \in ChunkIds \ {c}
        BY <4>1, <3>3, <1>4
      <4> QED
        BY <4>2, <4>3, <1>1
    <3> QED BY <3>2, <3>3
  <2> QED
    BY <2>1, <2>2
<1> QED
  BY <1>1, <1>6, <1>7

-----------------------------------------------------------------------------

OnceEach(s) == \A j, k \in 1 .. Len(s) : s[j] = s[k] => j = k
Elements(s) == {s[k] : k \in 1 .. Len(s)}

LEMMA TakeLast ==
  ASSUME NEW S, NEW s \in Seq(S), s # << >>, OnceEach(s)
  PROVE  LET r == SubSeq(s, 1, Len(s) - 1)
             e == s[Len(s)]
         IN  /\ r \in Seq(S) /\ OnceEach(r) /\ e \in Elements(s)
             /\ Elements(r) = Elements(s) \ {e}
<1> DEFINE m == Len(s) - 1
           r == SubSeq(s, 1, m)
<1>0. Len(s) \in Nat \ {0} /\ m \in Nat /\ m < Len(s)
  BY EmptySeq
<1>1. r \in Seq(S) /\ Len(r) = m /\ \A i \in 1 .. m : r[i] = s[i]
  <2>1. CASE m = 0
    <3> HIDE DEF m
    <3>0. m \in Int /\ m < 1 /\ 1 \in Int
      BY <2>1
    <3>1. r = << >>
      BY <3>0, SubSeqEmpty
    <3> QED
      BY <3>1, <2>1, EmptySeq
  <2>2. CASE m > 0
    <3>1. 1 \in 1 .. Len(s) + 1 /\ m \in 1 - 1 .. Len(s) /\ 1 <= m /\ m - 1 + 1 = m
      BY <2>2, <1>0
    <3>2. r \in Seq(S) /\ Len(r) = m - 1 + 1 /\ \A i \in 1 .. m - 1 + 1 : r[i] = s[1 + i - 1]
      BY <3>1, SubSeqProperties
    <3>3. \A i \in 1 .. m : 1 + i - 1 = i
      BY <1>0
    <3> HIDE DEF r, m
    <3> QED
      BY <3>1, <3>2, <3>3
  <2> QED
    BY <2>1, <2>2, <1>0
<1> HIDE DEF r
<1>2. \A i \in 1 .. m : i \in 1 .. Len(s) /\ i # Len(s)
  BY <1>0
<1>3. \A i \in 1 .. Len(s) : i \in 1 .. m \/ i = Len(s)
  BY <1>0
<1>4. Len(s) \in 1 .. Len(s)
  BY <1>0
<1>5. OnceEach(r)
  BY <1>1, <1>2 DEF OnceEach
<1>6. Elements(r) = Elements(s) \ {s[Len(s)]}
  <2> HIDE DEF m
  <2> QED BY <1>1, <1>2, <1>3, <1>4 DEF Elements, OnceEach
<1> QED
  BY <1>1, <1>4, <1>5, <1>6 DEF r, Elements

LEMMA PutLast ==
  ASSUME NEW S, NEW s \in Seq(S), NEW e \in S, OnceEach(s), e \notin Elements(s)
  PROVE  LET r == Append(s, e)
         IN  r \in Seq(S) /\ OnceEach(r) /\ Elements(r) = Elements(s) \cup {e}
<1> DEFINE r == Append(s, e)
           m == Len(s) + 1
<1>0. Len(s) \in Nat /\ m \in Nat /\ m > Len(s)
  BY LenProperties
<1>1. /\ r \in Seq(S) /\ Len(r) = m /\ r[m] = e
      /\ \A i \in 1 .. Len(s) : r[i] = s[i]
  BY <1>0, AppendProperties
<1>2. \A i \in 1 .. m : i \in 1 .. Len(s) \/ i = m
  BY <1>0
<1>3. m \in 1 .. m /\ \A i \in 1 .. Len(s) : i \in 1 .. m
  BY <1>0
<1> HIDE DEF r, m
<1>4. OnceEach(r)
  BY <1>1, <1>2 DEF OnceEach, Elements
<1>5. Elements(r) = Elements(s) \cup {e}
  BY <1>1, <1>2, <1>3 DEF Elements
<1> QED
  BY <1>1, <1>4, <1>5 DEF r

Uses(c) == Referenced(c, LSendBufferChunk, live)

OnePlace ==
  /\ OnceEach(ChunkPool)
  /\ \A t, u \in Threads : t # u =>
       /\ LSendBufferChunk[t] = LSendBufferChunk[u] => LSendBufferChunk[t] = NoChunk
       /\ popped[t].chunk = popped[u].chunk => popped[t] = NoPop
  /\ InPool \cap Taken = {} /\ InPool \cap dropped = {} /\ Taken \cap dropped = {}
  /\ \A c \in created : c \in InPool \/ c \in Taken \/ c \in dropped <=> ~Uses(c)

LEMMA OnePlaceMeans == (ChunkHasOnePlace <=> OnePlace) /\ InPool = Elements(ChunkPool)
BY DEF ChunkHasOnePlace, OnePlace, OnceEach, Free, Uses, InPool, Elements

LEMMA OpenStep ==
  ASSUME PoolInv, NEW t \in Threads, NEW n \in Replies, Open(t, n)
  PROVE  PoolInv'
<1> DEFINE c == LSendBufferChunk[t]
<1>0. PoolTypeOK /\ BuffersFit /\ QueuedBytesIntact /\ ChunkHasOnePlace
  BY DEF PoolInv
<1>1. /\ c \in created /\ c # NoChunk /\ popped[t] = NoPop
      /\ ChunkSize - iUsedSize[c] >= n /\ Cut(t, c, iUsedSize, n)
      /\ UNCHANGED <<created, ChunkPool, LSendBufferChunk, popped, dropped, iUsedSize, live>>
  BY <1>0, PoolTypes DEF Open, Ready
<1>2. \A u \in Threads \ {t} : LSendBufferChunk[u] # c
  BY <1>0, <1>1 DEF ChunkHasOnePlace
<1>3. /\ \A b \in live : b.chunk = c => b.from + b.size <= iUsedSize[c]
      /\ LSendBufferChunk = [LSendBufferChunk EXCEPT ![t] = c]
      /\ iUsedSize \in [ChunkIds -> 0 .. ChunkSize]
  BY <1>0 DEF BuffersFit, PoolTypeOK
<1>4. /\ BuffersFit' /\ QueuedBytesIntact'
      /\ opened' \in [Threads -> Buffers \cup {NoBuffer}]
      /\ memory' \in [ChunkIds -> [0 .. ChunkSize - 1 -> Nat]]
      /\ made' \in Nat
  <2>1. iUsedSize' = iUsedSize /\ LSendBufferChunk' = LSendBufferChunk /\ popped' = popped
    BY <1>1
  <2> HIDE DEF c
  <2> QED
    BY <2>1, <1>0, <1>1, <1>2, <1>3, CutIntact
<1>5. PoolTypeOK'
  BY <1>0, <1>1, <1>4 DEF PoolTypeOK
<1>6. ChunkHasOnePlace'
  BY <1>0, <1>1 DEF ChunkHasOnePlace, Free, InPool, Taken, Referenced
<1> QED
  BY <1>4, <1>5, <1>6 DEF PoolInv

\* A thread takes chunk c, which no other place has: Taken and popped after it.
LEMMA TakeChunk ==
  ASSUME PoolTypeOK, ChunkHasOnePlace, NEW t \in Threads, NEW n \in Replies, NEW c,
         c # NoChunk, popped[t] = NoPop, c \notin Taken,
         popped' = [popped EXCEPT ![t] = [chunk |-> c, size |-> n]]
  PROVE  /\ Taken' = Taken \cup {c}
         /\ popped'[t] = [chunk |-> c, size |-> n]
         /\ \A u \in Threads \ {t} : popped'[u] = popped[u]
         /\ \A u, v \in Threads : u # v /\ popped'[u].chunk = popped'[v].chunk => popped'[u] = NoPop
<1> DEFINE x == [chunk |-> c, size |-> n]
<1>1. x.chunk = c /\ x # NoPop
  BY DEF NoPop
<1> HIDE DEF x
<1>2. popped'[t] = x /\ \A u \in Threads \ {t} : popped'[u] = popped[u]
  BY DEF PoolTypeOK, x
<1>3. Taken' = Taken \cup {c}
  <2>1. \A u \in Threads : popped[u] # NoPop => u # t /\ popped'[u] = popped[u]
    BY <1>2
  <2>2. \A u \in Threads : popped'[u] # NoPop => u = t \/ popped'[u] = popped[u]
    BY <1>2
  <2> QED
    BY <2>1, <2>2, <1>1, <1>2 DEF Taken
<1>4. \A u \in Threads \ {t} : popped[u].chunk # c
  BY PoolTypes, RepliesFit DEF Taken
<1>5. ASSUME NEW u \in Threads, NEW v \in Threads, u # v, popped'[u].chunk = popped'[v].chunk
      PROVE  popped'[u] = NoPop
  BY <1>1, <1>2, <1>4, <1>5 DEF ChunkHasOnePlace
<1> QED
  BY <1>2, <1>3, <1>5 DEF x

LEMMA PopPooledStep ==
  ASSUME PoolInv, NEW t \in Threads, NEW n \in Replies, PopPooled(t, n)
  PROVE  PoolInv'
<1> DEFINE c == ChunkPool[Len(ChunkPool)]
<1>0. PoolTypeOK /\ BuffersFit /\ QueuedBytesIntact /\ ChunkHasOnePlace /\ OnePlace
  BY OnePlaceMeans DEF PoolInv
<1>1. /\ ChunkPool # << >> /\ popped[t] = NoPop /\ opened[t] = NoBuffer
      /\ popped' = [popped EXCEPT ![t] = [chunk |-> c, size |-> n]]
      /\ ChunkPool' = SubSeq(ChunkPool, 1, Len(ChunkPool) - 1)
      /\ UNCHANGED <<created, LSendBufferChunk, dropped, iUsedSize, opened, live, memory, made>>
  BY DEF PopPooled, NeedsChunk, Ready
<1>2. /\ ChunkPool' \in Seq(created) /\ OnceEach(ChunkPool')
      /\ c \in InPool /\ InPool' = InPool \ {c}
  <2>1. ChunkPool \in Seq(created) /\ OnceEach(ChunkPool)
    BY <1>0 DEF PoolTypeOK, OnePlace
  <2>2. /\ ChunkPool' \in Seq(created) /\ OnceEach(ChunkPool')
        /\ c \in Elements(ChunkPool) /\ Elements(ChunkPool') = Elements(ChunkPool) \ {c}
    BY <2>1, <1>1, TakeLast
  <2> QED
    BY <2>2 DEF InPool, Elements
<1>3. c \in created /\ c # NoChunk /\ c \notin Taken /\ c \notin dropped
  BY <1>0, <1>2, PoolTypes DEF OnePlace
<1> HIDE DEF c
<1>4. /\ Taken' = Taken \cup {c}
      /\ popped'[t] = [chunk |-> c, size |-> n]
      /\ \A u \in Threads \ {t} : popped'[u] = popped[u]
      /\ \A u, v \in Threads : u # v /\ popped'[u].chunk = popped'[v].chunk => popped'[u] = NoPop
  BY <1>0, <1>1, <1>3, TakeChunk
<1>5. PoolTypeOK'
  <2>1. [chunk |-> c, size |-> n] \in [chunk : created, size : Replies]
    BY <1>3
  <2>2. popped' \in [Threads -> [chunk : created, size : Replies] \cup {NoPop}]
    BY <2>1, <1>0, <1>1 DEF PoolTypeOK
  <2> QED
    BY <2>2, <1>0, <1>1, <1>2 DEF PoolTypeOK
<1>6. BuffersFit'
  BY <1>0, <1>1, <1>4 DEF BuffersFit
<1>7. QueuedBytesIntact'
  BY <1>0, <1>1 DEF QueuedBytesIntact, Opened
<1>8. OnePlace'
  <2>1. \A d \in created : Uses(d)' <=> Uses(d)
    BY <1>1 DEF Uses, Referenced
  <2> QED
    BY <2>1, <1>0, <1>1, <1>2, <1>3, <1>4 DEF OnePlace
<1> QED
  BY <1>5, <1>6, <1>7, <1>8, OnePlaceMeans DEF PoolInv, ChunkHasOnePlace, OnePlace, OnceEach, Free, Uses

LEMMA PopCreatedStep ==
  ASSUME PoolInv, NEW t \in Threads, NEW n \in Replies, PopCreated(t, n)
  PROVE  PoolInv'
<1>0. PoolTypeOK /\ BuffersFit /\ QueuedBytesIntact /\ ChunkHasOnePlace /\ OnePlace
  BY OnePlaceMeans DEF PoolInv
<1>1. PICK c \in ChunkIds \ created :
        /\ created' = created \cup {c}
        /\ popped' = [popped EXCEPT ![t] = [chunk |-> c, size |-> n]]
  BY DEF PopCreated
<1>2. /\ ChunkPool = << >> /\ popped[t] = NoPop /\ opened[t] = NoBuffer
      /\ UNCHANGED <<ChunkPool, LSendBufferChunk, dropped, iUsedSize, opened, live, memory, made>>
  BY DEF PopCreated, NeedsChunk, Ready
<1>3. c # NoChunk /\ c \notin Taken /\ c \notin dropped /\ c \notin InPool
  BY <1>0, <1>1, PoolTypes, RepliesFit
<1>4. /\ Taken' = Taken \cup {c}
      /\ popped'[t] = [chunk |-> c, size |-> n]
      /\ \A u \in Threads \ {t} : popped'[u] = popped[u]
      /\ \A u, v \in Threads : u # v /\ popped'[u].chunk = popped'[v].chunk => popped'[u] = NoPop
  BY <1>0, <1>1, <1>2, <1>3, TakeChunk
<1>5. PoolTypeOK'
  <2>1. [chunk |-> c, size |-> n] \in [chunk : created', size : Replies]
    BY <1>1
  <2>2. popped' \in [Threads -> [chunk : created', size : Replies] \cup {NoPop}]
    <3>1. \A u \in Threads : popped[u] \in [chunk : created', size : Replies] \cup {NoPop}
      BY <1>0, <1>1 DEF PoolTypeOK
    <3> QED
      BY <2>1, <3>1, <1>0, <1>1 DEF PoolTypeOK
  <2>3. ChunkPool' \in Seq(created') /\ created' \subseteq ChunkIds /\ dropped' \subseteq created'
    BY <1>0, <1>1, <1>2, EmptySeq DEF PoolTypeOK
  <2>4. LSendBufferChunk' \in [Threads -> created' \cup {NoChunk}]
    BY <1>0, <1>1, <1>2 DEF PoolTypeOK
  <2> QED
    BY <2>2, <2>3, <2>4, <1>0, <1>2 DEF PoolTypeOK
<1>6. BuffersFit'
  BY <1>0, <1>1, <1>2, <1>4 DEF BuffersFit
<1>7. QueuedBytesIntact'
  BY <1>0, <1>2 DEF QueuedBytesIntact, Opened
<1>8. OnePlace'
  <2>1. \A d \in created' : Uses(d)' <=> Uses(d)
    BY <1>2 DEF Uses, Referenced
  <2>2. ~Uses(c)
    BY <1>0, <1>1, RepliesFit DEF Uses, Referenced, BuffersFit, PoolTypeOK
  <2>3. InPool' = InPool
    BY <1>2 DEF InPool
  <2> QED
    BY <2>1, <2>2, <2>3, <1>0, <1>1, <1>2, <1>3, <1>4 DEF OnePlace
<1> QED
  BY <1>5, <1>6, <1>7, <1>8, OnePlaceMeans DEF PoolInv, ChunkHasOnePlace, OnePlace, OnceEach, Free, Uses

LEMMA OpenPoppedStep ==
  ASSUME PoolInv, NEW t \in Threads, OpenPopped(t)
  PROVE  PoolInv'
<1> DEFINE c   == popped[t].chunk
           n   == popped[t].size
           old == LSendBufferChunk[t]
           tls == [LSendBufferChunk EXCEPT ![t] = c]
           X   == {d \in {old} \ {NoChunk} : ~Referenced(d, tls, live)}
<1>0. PoolTypeOK /\ BuffersFit /\ QueuedBytesIntact /\ ChunkHasOnePlace /\ OnePlace
  BY OnePlaceMeans DEF PoolInv
<1>1. /\ popped[t] # NoPop
      /\ LSendBufferChunk' = tls
      /\ popped' = [popped EXCEPT ![t] = NoPop]
      /\ dropped' = dropped \cup X
      /\ iUsedSize' = [iUsedSize EXCEPT ![c] = 0]
      /\ Cut(t, c, iUsedSize', n)
      /\ UNCHANGED <<created, ChunkPool, live>>
  BY DEF OpenPopped, Drop
<1>2. c \in created /\ n \in Replies /\ c # NoChunk /\ c \in Taken /\ c \in ChunkIds
  BY <1>0, <1>1, PoolTypes DEF Taken
<1>3. ~Uses(c) /\ c \notin InPool /\ c \notin dropped
  BY <1>0, <1>2 DEF OnePlace
<1>4. /\ \A u \in Threads : LSendBufferChunk[u] # c
      /\ \A b \in live : b.chunk # c
  BY <1>3 DEF Uses, Referenced
<1>5. /\ tls[t] = c /\ \A u \in Threads \ {t} : tls[u] = LSendBufferChunk[u]
      /\ popped'[t] = NoPop /\ \A u \in Threads \ {t} : popped'[u] = popped[u]
  BY <1>0, <1>1 DEF PoolTypeOK
<1>6. /\ iUsedSize' \in [ChunkIds -> 0 .. ChunkSize] /\ iUsedSize'[c] = 0
      /\ \A d \in ChunkIds \ {c} : iUsedSize'[d] = iUsedSize[d]
  <2>1. 0 \in 0 .. ChunkSize
    BY RepliesFit
  <2> HIDE DEF c
  <2> QED
    BY <2>1, <1>0, <1>1, <1>2 DEF PoolTypeOK
<1>7. ChunkSize - iUsedSize'[c] >= n
  <2>1. n \in 1 .. ChunkSize /\ ChunkSize \in Nat
    BY <1>2, RepliesFit
  <2>2. ChunkSize - 0 >= n
    BY <2>1
  <2> QED
    BY <1>6, <2>2
<1>8. LSendBufferChunk' = [LSendBufferChunk EXCEPT ![t] = c] /\ UNCHANGED <<live, created>>
  BY <1>1
<1> HIDE DEF c, n, tls, X
<1>9. /\ BuffersFit' /\ QueuedBytesIntact'
      /\ opened' \in [Threads -> Buffers \cup {NoBuffer}]
      /\ memory' \in [ChunkIds -> [0 .. ChunkSize - 1 -> Nat]]
      /\ made' \in Nat
  BY <1>0, <1>1, <1>2, <1>4, <1>5, <1>6, <1>7, <1>8, CutIntact
<1>10. X \subseteq {old} /\ X \subseteq created /\ \A d \in X : Uses(d) /\ d # c
  BY <1>0, <1>4, PoolTypes DEF X, Uses, Referenced
<1>11. PoolTypeOK'
  <2>1. tls \in [Threads -> created \cup {NoChunk}]
    BY <1>0, <1>2 DEF PoolTypeOK, tls
  <2>2. popped' \in [Threads -> [chunk : created, size : Replies] \cup {NoPop}]
    BY <1>0, <1>1 DEF PoolTypeOK
  <2>3. dropped' \subseteq created
    BY <1>0, <1>1, <1>10 DEF PoolTypeOK
  <2> QED
    BY <2>1, <2>2, <2>3, <1>0, <1>1, <1>6, <1>9 DEF PoolTypeOK
<1>12. OnePlace'
  <2>1. InPool' = InPool
    BY <1>1 DEF InPool
  <2>2. Taken' = Taken \ {c}
    <3>1. \A u \in Threads \ {t} : popped[u].chunk # c
      BY <1>0, <1>1 DEF OnePlace, c
    <3> QED
      BY <3>1, <1>5 DEF Taken, c
  <2>3. \A d \in created : Uses(d)' <=> Referenced(d, tls, live)
    BY <1>1 DEF Uses
  <2>4. Referenced(c, tls, live)
    BY <1>5 DEF Referenced
  <2>5. \A d \in created : d # c /\ d # old => (Referenced(d, tls, live) <=> Uses(d))
    BY <1>5 DEF Referenced, Uses
  <2>6. \A d \in created : d = old => Uses(d)
    BY DEF Referenced, Uses
  <2>7. \A d \in created : d = old /\ d # c => (d \in X <=> ~Referenced(d, tls, live))
    BY <1>0, PoolTypes DEF X
  <2>8. c # old
    BY <1>4
  <2>9. \A u, v \in Threads : u # v =>
          /\ LSendBufferChunk'[u] = LSendBufferChunk'[v] => LSendBufferChunk'[u] = NoChunk
          /\ popped'[u].chunk = popped'[v].chunk => popped'[u] = NoPop
    <3>1. \A u \in Threads : popped[u] # NoPop => popped[u].chunk # NoChunk
      BY <1>0, PoolTypes
    <3>2. NoPop.chunk = NoChunk
      BY DEF NoPop
    <3>3. ASSUME NEW u \in Threads, NEW v \in Threads, u # v
          PROVE  tls[u] = tls[v] => tls[u] = NoChunk
      BY <3>3, <1>0, <1>4, <1>5 DEF OnePlace
    <3>4. ASSUME NEW u \in Threads, NEW v \in Threads, u # v
          PROVE  popped'[u].chunk = popped'[v].chunk => popped'[u] = NoPop
      BY <3>1, <3>2, <3>4, <1>0, <1>5 DEF OnePlace
    <3> QED
      BY <3>3, <3>4, <1>1
  <2>10. /\ InPool' \cap Taken' = {} /\ InPool' \cap dropped' = {} /\ Taken' \cap dropped' = {}
    <3>1. \A d \in X : d \notin InPool /\ d \notin Taken
      BY <1>0, <1>10 DEF OnePlace
    <3> QED
      BY <3>1, <2>1, <2>2, <1>0, <1>1 DEF OnePlace
  <2>11. ASSUME NEW d \in created
         PROVE  d \in InPool' \/ d \in Taken' \/ d \in dropped' <=> ~Referenced(d, tls, live)
    <3>1. CASE d = c
      BY <3>1, <2>1, <2>2, <2>4, <1>1, <1>3, <1>10
    <3>2. CASE d = old
      BY <3>2, <2>1, <2>2, <2>6, <2>7, <2>8, <1>0, <1>1 DEF OnePlace
    <3>3. CASE d # c /\ d # old
      BY <3>3, <2>1, <2>2, <2>5, <1>0, <1>1, <1>10 DEF OnePlace
    <3> QED
      BY <3>1, <3>2, <3>3
  <2>12. OnceEach(ChunkPool') /\ created' = created
    BY <1>0, <1>1 DEF OnePlace
  <2> QED
    BY <2>3, <2>9, <2>10, <2>11, <2>12 DEF OnePlace
<1> QED
  BY <1>9, <1>11, <1>12, OnePlaceMeans DEF PoolInv, ChunkHasOnePlace, OnePlace, OnceEach, Free, Uses

LEMMA CloseStep ==
  ASSUME PoolInv, NEW t \in Threads, Close(t)
  PROVE  PoolInv'
<1> DEFINE b == opened[t]
           c == b.chunk
<1>0. PoolTypeOK /\ BuffersFit /\ QueuedBytesIntact /\ ChunkHasOnePlace /\ OnePlace
  BY OnePlaceMeans DEF PoolInv
<1>1. /\ b # NoBuffer
      /\ iUsedSize' = [iUsedSize EXCEPT ![c] = @ + b.size]
      /\ live' = live \cup {b}
      /\ opened' = [opened EXCEPT ![t] = NoBuffer]
      /\ UNCHANGED <<created, ChunkPool, LSendBufferChunk, popped, dropped, memory, made>>
  BY DEF Close
<1>2. /\ b \in Buffers /\ c \in created /\ c \in ChunkIds /\ c = LSendBufferChunk[t]
      /\ b.from = iUsedSize[c] /\ b.from + b.size <= ChunkSize
  BY <1>0, <1>1, PoolTypes DEF BuffersFit
<1>3. /\ iUsedSize[c] \in Nat /\ b.size \in Nat /\ ChunkSize \in Nat
      /\ iUsedSize[c] + b.size <= ChunkSize
  <2>1. iUsedSize[c] \in 0 .. ChunkSize /\ b.size \in Replies
    BY <1>0, <1>2 DEF PoolTypeOK, Buffers
  <2>2. b.size \in 1 .. ChunkSize /\ ChunkSize \in Nat
    BY <2>1, RepliesFit
  <2> QED
    BY <2>1, <2>2, <1>2
<1> DEFINE new == iUsedSize[c] + b.size
<1>4. new \in 0 .. ChunkSize /\ new \in Nat /\ new >= iUsedSize[c] /\ new = b.from + b.size
  BY <1>2, <1>3
<1>5. /\ iUsedSize' \in [ChunkIds -> 0 .. ChunkSize] /\ iUsedSize'[c] = new
      /\ \A d \in ChunkIds \ {c} : iUsedSize'[d] = iUsedSize[d]
  <2>1. iUsedSize' = [iUsedSize EXCEPT ![c] = new]
    BY <1>1
  <2> HIDE DEF c, new
  <2> QED
    BY <2>1, <1>0, <1>2, <1>4 DEF PoolTypeOK
<1>6. opened'[t] = NoBuffer /\ \A u \in Threads \ {t} : opened'[u] = opened[u]
  BY <1>0, <1>1 DEF PoolTypeOK
<1> HIDE DEF b, c, new
<1>7. PoolTypeOK'
  <2>1. opened' \in [Threads -> Buffers \cup {NoBuffer}] /\ live' \subseteq Buffers
    BY <1>0, <1>1, <1>2 DEF PoolTypeOK
  <2> QED
    BY <2>1, <1>0, <1>1, <1>5 DEF PoolTypeOK
<1>8. BuffersFit'
  <2>1. ASSUME NEW a \in live'
        PROVE  a.chunk \in created /\ a.from + a.size <= iUsedSize'[a.chunk]
    <3>1. CASE a = b
      BY <3>1, <1>2, <1>4, <1>5 DEF c
    <3>2. CASE a \in live /\ a.chunk # c
      BY <3>2, <1>0, <1>5 DEF BuffersFit, PoolTypeOK
    <3>3. CASE a \in live /\ a.chunk = c
      <4>1. a.from + a.size <= iUsedSize[c] /\ a \in Buffers
        BY <3>3, <1>0 DEF BuffersFit, PoolTypeOK
      <4>2. a.from \in Nat /\ a.size \in Nat
        <5>1. a.from \in 0 .. ChunkSize - 1 /\ a.size \in Replies
          BY <4>1 DEF Buffers
        <5>2. a.size \in 1 .. ChunkSize /\ ChunkSize \in Nat
          BY <5>1, RepliesFit
        <5> QED BY <5>1, <5>2
      <4>3. a.from + a.size <= new
        BY <4>1, <4>2, <1>3, <1>4
      <4> QED
        BY <4>3, <3>3, <1>2, <1>5
    <3> QED BY <3>1, <3>2, <3>3, <1>1
  <2>2. ASSUME NEW u \in Threads, opened'[u] # NoBuffer
        PROVE  /\ opened'[u].chunk = LSendBufferChunk'[u] /\ opened'[u].chunk \in created
               /\ opened'[u].from = iUsedSize'[opened'[u].chunk]
               /\ opened'[u].from + opened'[u].size <= ChunkSize
               /\ popped'[u] = NoPop
    <3>1. u # t /\ opened'[u] = opened[u] /\ opened[u] # NoBuffer
      BY <2>2, <1>6
    <3>2. opened[u].chunk = LSendBufferChunk[u] /\ opened[u].chunk \in created
      BY <3>1, <1>0 DEF BuffersFit
    <3>3. opened[u].chunk # c /\ opened[u].chunk \in ChunkIds
      BY <3>1, <3>2, <1>0, <1>2, PoolTypes DEF OnePlace
    <3> QED
      BY <3>1, <3>3, <1>0, <1>1, <1>5 DEF BuffersFit
  <2> QED
    BY <2>1, <2>2, <1>1 DEF BuffersFit
<1>9. QueuedBytesIntact'
  <2>1. live' \cup Opened' \subseteq live \cup Opened
    BY <1>1, <1>6 DEF Opened, b
  <2> QED
    BY <2>1, <1>0, <1>1 DEF QueuedBytesIntact
<1>10. OnePlace'
  <2>1. \A d \in created : Uses(d)' <=> Uses(d)
    BY <1>1, <1>2 DEF Uses, Referenced, c
  <2>2. InPool' = InPool /\ Taken' = Taken
    BY <1>1 DEF InPool, Taken
  <2> QED
    BY <2>1, <2>2, <1>0, <1>1 DEF OnePlace
<1> QED
  BY <1>7, <1>8, <1>9, <1>10, OnePlaceMeans DEF PoolInv, ChunkHasOnePlace, OnePlace, OnceEach, Free, Uses

LEMMA ReleaseStep ==
  ASSUME PoolInv, NEW b \in live, Release(b)
  PROVE  PoolInv'
<1> DEFINE c == b.chunk
           X == {d \in {c} : ~Referenced(d, LSendBufferChunk, live')}
<1>0. PoolTypeOK /\ BuffersFit /\ QueuedBytesIntact /\ ChunkHasOnePlace /\ OnePlace
  BY OnePlaceMeans DEF PoolInv
<1>1. /\ live' = live \ {b} /\ dropped' = dropped \cup X
      /\ UNCHANGED <<created, ChunkPool, LSendBufferChunk, popped, iUsedSize, opened, memory, made>>
  BY DEF Release, Drop
<1>2. c \in created /\ Uses(c)
  BY <1>0 DEF BuffersFit, Uses, Referenced
<1>3. \A d \in created : Uses(d)' <=> Referenced(d, LSendBufferChunk, live')
  BY <1>1 DEF Uses
<1>4. \A d \in created \ {c} : Referenced(d, LSendBufferChunk, live') <=> Uses(d)
  BY <1>1 DEF Uses, Referenced
<1>5. X \subseteq {c} /\ (c \in X <=> ~Referenced(c, LSendBufferChunk, live'))
  OBVIOUS
<1> HIDE DEF c, X
<1>6. PoolTypeOK'
  BY <1>0, <1>1, <1>2, <1>5 DEF PoolTypeOK
<1>7. BuffersFit'
  BY <1>0, <1>1 DEF BuffersFit
<1>8. QueuedBytesIntact'
  BY <1>0, <1>1 DEF QueuedBytesIntact, Opened
<1>9. OnePlace'
  <2>1. InPool' = InPool /\ Taken' = Taken
    BY <1>1 DEF InPool, Taken
  <2>2. c \notin InPool /\ c \notin Taken /\ c \notin dropped
    BY <1>0, <1>2 DEF OnePlace
  <2>3. ASSUME NEW d \in created
        PROVE  d \in InPool' \/ d \in Taken' \/ d \in dropped' <=> ~Uses(d)'
    <3>1. CASE d = c
      BY <3>1, <2>1, <2>2, <1>1, <1>3, <1>5
    <3>2. CASE d # c
      BY <3>2, <2>1, <1>0, <1>1, <1>3, <1>4, <1>5 DEF OnePlace
    <3> QED BY <3>1, <3>2
  <2> QED
    BY <2>1, <2>2, <2>3, <1>0, <1>1, <1>5 DEF OnePlace
<1> QED
  BY <1>6, <1>7, <1>8, <1>9, OnePlaceMeans DEF PoolInv, ChunkHasOnePlace, OnePlace, OnceEach, Free, Uses

LEMMA PushGlobalStep ==
  ASSUME PoolInv, NEW c \in dropped, PushGlobal(c)
  PROVE  PoolInv'
<1>0. PoolTypeOK /\ BuffersFit /\ QueuedBytesIntact /\ ChunkHasOnePlace /\ OnePlace
  BY OnePlaceMeans DEF PoolInv
<1>1. /\ dropped' = dropped \ {c} /\ ChunkPool' = Append(ChunkPool, c)
      /\ UNCHANGED <<created, LSendBufferChunk, popped, iUsedSize, opened, live, memory, made>>
  BY DEF PushGlobal
<1>2. c \in created /\ c \notin InPool /\ c \notin Taken
  BY <1>0 DEF OnePlace, PoolTypeOK
<1>3. ChunkPool' \in Seq(created) /\ OnceEach(ChunkPool') /\ InPool' = InPool \cup {c}
  <2>1. ChunkPool \in Seq(created) /\ OnceEach(ChunkPool) /\ c \notin Elements(ChunkPool)
    BY <1>0, <1>2, OnePlaceMeans DEF PoolTypeOK, OnePlace
  <2>2. /\ ChunkPool' \in Seq(created) /\ OnceEach(ChunkPool')
        /\ Elements(ChunkPool') = Elements(ChunkPool) \cup {c}
    BY <2>1, <1>1, <1>2, PutLast
  <2> QED
    BY <2>2 DEF InPool, Elements
<1>4. PoolTypeOK'
  BY <1>0, <1>1, <1>3 DEF PoolTypeOK
<1>5. BuffersFit'
  BY <1>0, <1>1 DEF BuffersFit
<1>6. QueuedBytesIntact'
  BY <1>0, <1>1 DEF QueuedBytesIntact, Opened
<1>7. OnePlace'
  <2>1. \A d \in created : Uses(d)' <=> Uses(d)
    BY <1>1 DEF Uses, Referenced
  <2>2. Taken' = Taken
    BY <1>1 DEF Taken
  <2> QED
    BY <2>1, <2>2, <1>0, <1>1, <1>2, <1>3 DEF OnePlace
<1> QED
  BY <1>4, <1>5, <1>6, <1>7, OnePlaceMeans DEF PoolInv, ChunkHasOnePlace, OnePlace, OnceEach, Free, Uses

-----------------------------------------------------------------------------

Wiring ==
  /\ runner \in Threads \cup {NoThread}
  /\ owes \in BOOLEAN
  /\ reading <=> runner = NoThread
  /\ owes => ~reading

IInv ==
  /\ RecvTypeOK /\ StreamIsWhole /\ (reading => FreeSize >= BufferSize)
  /\ PoolInv
  /\ Wiring

LEMMA InvMeans == IInv => TypeOK /\ StreamIsWhole /\ RoomToRead /\ QueuedBytesIntact /\ ChunkHasOnePlace
BY MovesApart DEF IInv, PoolInv, Wiring, TypeOK, RoomToRead

LEMMA InitInv == Init => IInv
<1> SUFFICES ASSUME Init PROVE IInv
  OBVIOUS
<1>0. RecvInit /\ PoolInit /\ runner = NoThread /\ owes = FALSE
  BY DEF Init
<1>1. RecvTypeOK
  <2>1. Byte(0, 0, 0) \in Bytes
    BY DEF Byte, Bytes
  <2>2. 0 \in 0 .. Capacity
    BY CapacityIsNat
  <2>3. /\ Buffer = [i \in 0 .. Capacity - 1 |-> Byte(0, 0, 0)]
        /\ iReadPos = 0 /\ iWritePos = 0 /\ iProcessLen = 0 /\ wire = << >>
        /\ sent = 0 /\ handled = 0 /\ reading = TRUE
    BY <1>0 DEF RecvInit
  <2>4. Buffer \in [0 .. Capacity - 1 -> Bytes]
    BY <2>1, <2>3
  <2>5. wire \in Seq(Bytes)
    BY <2>3, EmptySeq
  <2>6. 0 \in 0 .. 0 - 0
    OBVIOUS
  <2> QED
    BY <2>2, <2>3, <2>4, <2>5, <2>6 DEF RecvTypeOK, DataSize
<1>2. StreamIsWhole
  <2>1. Pos = 0 /\ iWritePos = 0 /\ AheadLen = 0 /\ handled = sent
    BY <1>0, EmptySeq DEF RecvInit, Pos, AheadLen
  <2>2. 0 .. AheadLen - 1 = {}
    BY <2>1
  <2> QED
    BY <2>1, <2>2 DEF StreamIsWhole
<1>3. FreeSize >= BufferSize
  <2>1. FreeSize = Capacity
    BY <1>0, CapacityIsNat DEF RecvInit, FreeSize
  <2> QED
    BY <2>1, CapacityIsNat
<1>4. PoolInv
  <2>1. PoolTypeOK
    <3>1. 0 \in 0 .. ChunkSize
      BY RepliesFit
    <3>2. iUsedSize \in [ChunkIds -> 0 .. ChunkSize]
      BY <3>1, <1>0 DEF PoolInit
    <3>3. memory \in [ChunkIds -> [0 .. ChunkSize - 1 -> Nat]]
      BY <1>0 DEF PoolInit
    <3>4. ChunkPool \in Seq(created)
      BY <1>0, EmptySeq DEF PoolInit
    <3> QED
      BY <3>2, <3>3, <3>4, <1>0 DEF PoolInit, PoolTypeOK
  <2>2. BuffersFit /\ QueuedBytesIntact
    BY <1>0 DEF PoolInit, BuffersFit, QueuedBytesIntact, Opened
  <2>3. ChunkHasOnePlace
    <3>1. Len(ChunkPool) = 0 /\ 1 .. 0 = {}
      BY <1>0, EmptySeq DEF PoolInit
    <3>2. InPool = {} /\ Taken = {} /\ dropped = {} /\ created = {}
      BY <3>1, <1>0 DEF InPool, Taken, PoolInit
    <3> QED
      BY <3>1, <3>2, <1>0 DEF ChunkHasOnePlace, Free, PoolInit
  <2> QED
    BY <2>1, <2>2, <2>3 DEF PoolInv
<1>5. Wiring
  BY <1>0 DEF RecvInit, Wiring
<1> QED
  BY <1>1, <1>2, <1>3, <1>4, <1>5 DEF IInv

LEMMA PoolUnchanged == PoolInv /\ UNCHANGED poolVars => PoolInv'
<1> SUFFICES ASSUME PoolInv, UNCHANGED poolVars PROVE PoolInv'
  OBVIOUS
<1>0. UNCHANGED <<created, ChunkPool, LSendBufferChunk, popped, dropped, iUsedSize,
                  opened, live, memory, made>>
  BY DEF poolVars
<1>1. PoolTypeOK'
  BY <1>0 DEF PoolInv, PoolTypeOK
<1>2. BuffersFit'
  BY <1>0 DEF PoolInv, BuffersFit
<1>3. QueuedBytesIntact'
  BY <1>0 DEF PoolInv, QueuedBytesIntact, Opened
<1>4. InPool' = InPool /\ Taken' = Taken /\ \A c : Uses(c)' <=> Uses(c)
  BY <1>0 DEF InPool, Taken, Uses, Referenced
<1>5. ChunkHasOnePlace'
  BY <1>0, <1>4 DEF PoolInv, ChunkHasOnePlace, Free, Uses
<1> QED
  BY <1>1, <1>2, <1>3, <1>5 DEF PoolInv

LEMMA RecvUnchanged ==
  RecvTypeOK /\ StreamIsWhole /\ (reading => FreeSize >= BufferSize) /\ UNCHANGED recvVars
    => RecvTypeOK' /\ StreamIsWhole' /\ (reading => FreeSize >= BufferSize)'
<1> SUFFICES ASSUME RecvTypeOK, StreamIsWhole, reading => FreeSize >= BufferSize, UNCHANGED recvVars
             PROVE  RecvTypeOK' /\ StreamIsWhole' /\ (reading => FreeSize >= BufferSize)'
  OBVIOUS
<1>0. UNCHANGED <<Buffer, iReadPos, iWritePos, iProcessLen, wire, sent, handled, reading>>
  BY DEF recvVars
<1>1. RecvTypeOK'
  BY <1>0 DEF RecvTypeOK, DataSize
<1>2. (reading => FreeSize >= BufferSize)'
  BY <1>0 DEF FreeSize, Capacity
<1>3. Pos' = Pos /\ AheadLen' = AheadLen
  BY <1>0 DEF Pos, AheadLen
<1>4. Ahead' = Ahead
  BY <1>0, <1>3 DEF Ahead
<1>5. StreamIsWhole'
  BY <1>0, <1>3, <1>4, StreamIsWholeMeans DEF StreamIsWhole, Whole
<1> QED
  BY <1>1, <1>2, <1>5

LEMMA StepInv == IInv /\ [Next]_vars => IInv'
<1> SUFFICES ASSUME IInv, [Next]_vars PROVE IInv'
  OBVIOUS
<1>0. /\ RecvTypeOK /\ StreamIsWhole /\ (reading => FreeSize >= BufferSize)
      /\ PoolInv /\ Wiring
  BY DEF IInv
<1>1. CASE Client
  <2>1. PICK n \in Sizes : ClientSends(n)
    BY <1>1 DEF Client
  <2>2. RecvTypeOK' /\ StreamIsWhole'
    BY <2>1, <1>0, SendsStep
  <2>3. UNCHANGED <<iWritePos, reading, runner, owes>> /\ UNCHANGED poolVars
    BY <2>1, <1>1 DEF ClientSends, Client
  <2>4. (reading => FreeSize >= BufferSize)'
    BY <2>3, <1>0 DEF FreeSize, Capacity
  <2>5. Wiring'
    BY <2>3, <1>0 DEF Wiring
  <2> QED
    BY <2>2, <2>3, <2>4, <2>5, <1>0, PoolUnchanged DEF IInv
<1>2. ASSUME NEW t \in Threads, Resume(t) PROVE IInv'
  <2>1. PICK n \in 1 .. Capacity : Receive(n)
    BY <1>2 DEF Resume
  <2>2. n \in Nat
    BY CapacityIsNat
  <2>3. RecvTypeOK' /\ StreamIsWhole'
    BY <2>1, <2>2, <1>0, ReceiveStep
  <2>4. reading' = FALSE /\ runner' = t /\ owes' = owes /\ UNCHANGED poolVars /\ ~owes
    <3>1. reading /\ reading' = FALSE
      BY <2>1 DEF Receive
    <3>2. runner' = t /\ owes' = owes /\ UNCHANGED poolVars
      BY <1>2 DEF Resume
    <3>3. ~owes
      BY <3>1, <1>0 DEF Wiring
    <3> QED
      BY <3>1, <3>2, <3>3
  <2>5. Wiring'
    <3>1. owes' \in BOOLEAN /\ ~owes'
      BY <2>4, <1>0, Zenon DEF Wiring
    <3>2. runner' \in Threads \cup {NoThread} /\ runner' # NoThread /\ reading' = FALSE
      BY <2>4, BoundsAreNat
    <3> QED
      BY <3>1, <3>2 DEF Wiring
  <2> QED
    BY <2>3, <2>4, <2>5, <1>0, PoolUnchanged DEF IInv
<1>3. ASSUME NEW t \in Threads, Handler(t) PROVE IInv'
  <2>1. RecvTypeOK' /\ StreamIsWhole'
    BY <1>3, <1>0, HandleStep DEF Handler
  <2>2. reading' = reading /\ ~reading /\ owes' = TRUE /\ runner' = runner /\ UNCHANGED poolVars
    BY <1>3 DEF Handler, HandlePacket
  <2>3. Wiring'
    BY <2>2, <1>0 DEF Wiring
  <2> QED
    BY <2>1, <2>2, <2>3, <1>0, PoolUnchanged DEF IInv
<1>4. ASSUME NEW t \in Threads, Suspend(t) PROVE IInv'
  <2>1. RecvTypeOK' /\ StreamIsWhole' /\ FreeSize' >= BufferSize
    BY <1>4, <1>0, AgainStep DEF Suspend
  <2>2. reading' = TRUE /\ owes' = owes /\ ~owes /\ runner' = NoThread /\ UNCHANGED poolVars
    BY <1>4 DEF Suspend, ReadAgain
  <2>3. Wiring'
    BY <2>2, <1>0 DEF Wiring
  <2> QED
    BY <2>1, <2>2, <2>3, <1>0, PoolUnchanged DEF IInv
<1>5. ASSUME NEW t \in Threads, MakePacket(t) PROVE IInv'
  <2>1. PoolInv'
    <3>1. CASE OpenPopped(t)
      BY <3>1, <1>0, OpenPoppedStep
    <3>2. CASE \E n \in Replies : Open(t, n) \/ PopPooled(t, n) \/ PopCreated(t, n)
      BY <3>2, <1>0, OpenStep, PopPooledStep, PopCreatedStep
    <3> QED
      BY <1>5, <3>1, <3>2 DEF MakePacket
  <2>2. UNCHANGED <<reading, runner, owes>> /\ UNCHANGED recvVars
    BY <1>5 DEF MakePacket, recvVars
  <2>3. Wiring'
    BY <2>2, <1>0 DEF Wiring
  <2> QED
    BY <2>1, <2>2, <2>3, <1>0, RecvUnchanged DEF IInv
<1>6. ASSUME NEW t \in Threads, SendPacket(t) PROVE IInv'
  <2>1. PoolInv'
    BY <1>6, <1>0, CloseStep DEF SendPacket
  <2>2. UNCHANGED <<reading, runner>> /\ UNCHANGED recvVars /\ owes' = (owes /\ runner # t)
    BY <1>6 DEF SendPacket, recvVars
  <2>3. Wiring'
    BY <2>2, <1>0 DEF Wiring
  <2> QED
    BY <2>1, <2>2, <2>3, <1>0, RecvUnchanged DEF IInv
<1>7. CASE Written
  <2>1. PoolInv'
    BY <1>7, <1>0, ReleaseStep DEF Written
  <2>2. UNCHANGED <<reading, runner, owes>> /\ UNCHANGED recvVars
    BY <1>7 DEF Written, recvVars
  <2>3. Wiring'
    BY <2>2, <1>0 DEF Wiring
  <2> QED
    BY <2>1, <2>2, <2>3, <1>0, RecvUnchanged DEF IInv
<1>8. CASE Deleter
  <2>1. PoolInv'
    BY <1>8, <1>0, PushGlobalStep DEF Deleter
  <2>2. UNCHANGED <<reading, runner, owes>> /\ UNCHANGED recvVars
    BY <1>8 DEF Deleter, recvVars
  <2>3. Wiring'
    BY <2>2, <1>0 DEF Wiring
  <2> QED
    BY <2>1, <2>2, <2>3, <1>0, RecvUnchanged DEF IInv
<1>9. CASE UNCHANGED vars
  <2>1. UNCHANGED <<reading, runner, owes>> /\ UNCHANGED recvVars /\ UNCHANGED poolVars
    BY <1>9 DEF vars, recvVars
  <2>2. Wiring'
    BY <2>1, <1>0 DEF Wiring
  <2> QED
    BY <2>1, <2>2, <1>0, RecvUnchanged, PoolUnchanged DEF IInv
<1> QED
  BY <1>1, <1>2, <1>3, <1>4, <1>5, <1>6, <1>7, <1>8, <1>9 DEF Next

LEMMA SpecInv == Spec => []IInv
BY InitInv, StepInv, PTL DEF Spec

(* The cursors stay in the buffer and every chunk, thread and buffer is one that
   exists (RecvBuffer.cpp:34, SendBuffer.cpp:44). *)
THEOREM SpecTypeOK == Spec => []TypeOK
BY SpecInv, InvMeans, PTL

(* However the network cuts the stream, HandlePacket is given the client's packets
   whole and in order (GameSession.cpp:29). *)
THEOREM SpecStreamIsWhole == Spec => []StreamIsWhole
BY SpecInv, InvMeans, PTL

(* DoRead always has BufferSize bytes to read into, and the memcpy of Clean never
   overlaps (RecvBuffer.cpp:24). *)
THEOREM SpecRoomToRead == Spec => []RoomToRead
BY SpecInv, InvMeans, PTL

(* No message that waits to be written loses a byte to another one: no chunk is
   cut twice at one place, or reset while a queue refers to it (SendBuffer.cpp:52). *)
THEOREM SpecQueuedBytesIntact == Spec => []QueuedBytesIntact
BY SpecInv, InvMeans, PTL

(* A chunk is in the pool, taken, with its deleter or in use, and never in two of
   these places, and none is lost (SendBuffer.cpp:99, :121). *)
THEOREM SpecChunkHasOnePlace == Spec => []ChunkHasOnePlace
BY SpecInv, InvMeans, PTL
===============================================================================
