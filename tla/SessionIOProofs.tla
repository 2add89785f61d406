---------------------------- MODULE SessionIOProofs ----------------------------
(***************************************************************************)
(* For any number of threads and of Send calls: a session has one writer   *)
(* at a time, no message waits without one, the stream is made of whole    *)
(* messages in order, and a message is lost only together with the session.*)
(***************************************************************************)
EXTENDS SessionIO, SequenceTheorems, TLAPS

\* A coroutine that was not spawned yet is untouched, and a writer that
\* transmits has a message; spawns are paid for by accepted messages.
Roles ==
  /\ \A w \in Writers : /\ w > spawned => writer[w].at = "none"
                        /\ writer[w].at = "write" => writer[w].buf \in Messages
  /\ spawned <= accepted
  /\ Spawning # {} => spawned < accepted

\* The numbers increase from the stream over the writer to the end of
\* WriteQueue, and none is greater than the number of accepted messages.
QueueOrder ==
  /\ \A i \in 1 .. Len(writeQueue) : writeQueue[i] <= accepted
  /\ \A i, j \in 1 .. Len(writeQueue) : i < j => writeQueue[i] < writeQueue[j]
  /\ \A w \in Writers : writer[w].at = "write" =>
        /\ writer[w].buf <= accepted
        /\ \A i \in 1 .. Len(writeQueue) : writer[w].buf < writeQueue[i]

\* What is on the stream is older than what waits; a writer in the middle of a
\* message has its first half as the end of the stream.
WireOrder ==
  /\ \A k \in 1 .. Len(wire) : wire[k][1] <= accepted
  /\ \A k \in 1 .. Len(wire) : \A i \in 1 .. Len(writeQueue) : wire[k][1] < writeQueue[i]
  /\ \A w \in Writers : writer[w].at = "write" =>
        /\ writer[w].half = 1 => \A k \in 1 .. Len(wire) : wire[k][1] < writer[w].buf
        /\ writer[w].half = 2 => wire # <<>> /\ wire[Len(wire)] = <<writer[w].buf, 1>>

\* The inductive invariant.
IndInv == /\ TypeOK
          /\ Roles
          /\ OneWriter
          /\ QueueHasWriter
          /\ QueueOrder
          /\ WireOrder
          /\ StreamInOrder

-------------------------------------------------------------------------------

\* Init establishes the invariant: nothing was sent and nobody writes.
LEMMA InitIndInv == Init => IndInv
<1> SUFFICES ASSUME Init PROVE IndInv
  OBVIOUS
<1> USE MaxSendsIsNat DEF Init, NoWriter, Messages, Writers
<1>1. TypeOK
  <2>1. writer \in [Writers -> Writer]
    BY DEF Writer
  <2>2. writeQueue \in Seq(Messages) /\ wire \in Seq(Messages \X {1, 2})
    BY EmptySeq
  <2>3. /\ send \in [Threads -> {"out", "spawn"}]
        /\ accepted \in 0 .. MaxSends /\ spawned \in 0 .. MaxSends
    OBVIOUS
  <2>4. /\ bIsWriting \in BOOLEAN /\ reader \in {"read", "handle", "ended"}
        /\ socket \in {"open", "down", "closed"}
    OBVIOUS
  <2>5. QED
    BY <2>1, <2>2, <2>3, <2>4, Zenon DEF TypeOK
<1>2. Roles /\ OneWriter
  BY DEF Roles, OneWriter, Active, Spawning
<1>3. QueueHasWriter /\ QueueOrder /\ WireOrder /\ StreamInOrder
  BY DEF QueueHasWriter, QueueOrder, WireOrder, StreamInOrder
<1>4. QED
  BY <1>1, <1>2, <1>3 DEF IndInv

\* Every step keeps the variables in their types and the roles in order: the
\* index of a new coroutine is in range since its Send was accepted.
LEMMA TypeStep == IndInv /\ [Next]_vars => TypeOK' /\ Roles'
<1> SUFFICES ASSUME IndInv, [Next]_vars PROVE TypeOK' /\ Roles'
  OBVIOUS
<1> USE MaxSendsIsNat
<1>0. TypeOK /\ Roles /\ OneWriter
  BY DEF IndInv
<1>1. CASE UNCHANGED vars
  BY <1>0, <1>1 DEF vars, TypeOK, Roles, Spawning
<1>2. ASSUME NEW t \in Threads, SendLocked(t) PROVE TypeOK' /\ Roles'
  <2>1. accepted + 1 \in Messages /\ accepted' \in 0 .. MaxSends
    BY <1>0, <1>2 DEF TypeOK, SendLocked, Messages
  <2>2. TypeOK'
    BY <1>0, <1>2, <2>1 DEF TypeOK, SendLocked
  <2>3. Roles'
    BY <1>0, <1>2 DEF TypeOK, Roles, SendLocked, Spawning
  <2>4. QED
    BY <2>2, <2>3
<1>3. ASSUME NEW t \in Threads, SendSpawns(t) PROVE TypeOK' /\ Roles'
  <2>1. spawned + 1 \in Writers /\ spawned < accepted
    BY <1>0, <1>3 DEF TypeOK, Roles, SendSpawns, Spawning, Writers
  <2>2. writer' \in [Writers -> Writer]
    BY <1>0, <1>3 DEF TypeOK, SendSpawns, Writer
  <2>3. TypeOK'
    BY <1>0, <1>3, <2>1, <2>2 DEF TypeOK, SendSpawns, Writers
  <2>4. Spawning' = {}
    BY <1>0, <1>3 DEF TypeOK, OneWriter, SendSpawns, Spawning
  <2>5. \A w \in Writers : /\ w > spawned' => writer'[w].at = "none"
                           /\ writer'[w].at = "write" => writer'[w].buf \in Messages
    BY <1>0, <1>3, <2>1 DEF TypeOK, Roles, SendSpawns, Writers
  <2>6. Roles'
    BY <1>0, <1>3, <2>1, <2>4, <2>5 DEF TypeOK, Roles, SendSpawns
  <2>7. QED
    BY <2>3, <2>6
<1>4. ASSUME NEW w \in Writers, WriterStep(w) PROVE TypeOK' /\ Roles'
  <2>0. writer[w] \in Writer /\ writer[w].at \in {"loop", "write", "failed", "close"}
    BY <1>0, <1>4 DEF TypeOK, WriterStep, WriterTakes, WriterTransmits,
                      WriterFails, WriterClears, WriterDisconnects
  <2>1. w <= spawned
    BY <1>0, <2>0 DEF Roles, TypeOK, Writers
  <2>2. /\ UNCHANGED <<accepted, send, spawned, reader>>
        /\ bIsWriting' \in BOOLEAN /\ socket' \in {"open", "down", "closed"}
    BY <1>0, <1>4 DEF TypeOK, WriterStep, WriterTakes, WriterTransmits,
                      WriterFails, WriterClears, WriterDisconnects
  <2>3. writeQueue' \in Seq(Messages)
    <3>1. writeQueue # <<>> => Tail(writeQueue) \in Seq(Messages)
      BY <1>0, HeadTailProperties DEF TypeOK
    <3>2. <<>> \in Seq(Messages)
      BY EmptySeq
    <3>3. QED
      BY <1>0, <1>4, <3>1, <3>2
        DEF TypeOK, WriterStep, WriterTakes, WriterTransmits, WriterFails,
            WriterClears, WriterDisconnects
  <2>4. wire' \in Seq(Messages \X {1, 2})
    <3>1. ASSUME WriterTransmits(w) PROVE <<writer[w].buf, writer[w].half>> \in Messages \X {1, 2}
      BY <1>0, <3>1, <2>0 DEF Roles, WriterTransmits, Writer
    <3>2. CASE WriterTransmits(w)
      BY <1>0, <3>1, <3>2, AppendProperties DEF TypeOK, WriterTransmits
    <3>3. CASE ~WriterTransmits(w)
      BY <1>0, <1>4, <3>3 DEF TypeOK, WriterStep, WriterTakes, WriterFails,
                              WriterClears, WriterDisconnects
    <3>4. QED
      BY <3>2, <3>3
  <2>5. \E r \in Writer : /\ writer' = [writer EXCEPT ![w] = r]
                          /\ r.at = "write" => r.buf \in Messages
    <3>1. CASE WriterTakes(w)
      <4>1. CASE writer' = [writer EXCEPT ![w].at = "done"]
        <5>1. [writer[w] EXCEPT !.at = "done"] \in Writer
          BY <2>0 DEF Writer
        <5>2. QED
          BY <1>0, <4>1, <5>1 DEF TypeOK, Writer
      <4>2. CASE /\ writeQueue # <<>>
                 /\ writer' = [writer EXCEPT ![w] = [at |-> "write",
                                        buf |-> Head(writeQueue), half |-> 1]]
        <5>1. Head(writeQueue) \in Messages
          BY <1>0, <4>2, HeadTailProperties DEF TypeOK
        <5>2. [at |-> "write", buf |-> Head(writeQueue), half |-> 1] \in Writer
          BY <5>1 DEF Writer
        <5>3. QED
          BY <4>2, <5>1, <5>2
      <4>3. QED
        BY <3>1, <4>1, <4>2 DEF WriterTakes
    <3>2. CASE WriterTransmits(w)
      <4>1. CASE writer[w].half = 1
        <5>1. [writer[w] EXCEPT !.half = 2] \in Writer
          BY <2>0 DEF Writer
        <5>2. writer' = [writer EXCEPT ![w] = [writer[w] EXCEPT !.half = 2]]
          BY <3>2, <4>1 DEF WriterTransmits
        <5>3. QED
          BY <1>0, <3>2, <5>1, <5>2 DEF WriterTransmits, Roles, Writer
      <4>2. CASE writer[w].half # 1
        <5>1. [NoWriter EXCEPT !.at = "loop"] \in Writer
          BY DEF NoWriter, Writer
        <5>2. writer' = [writer EXCEPT ![w] = [NoWriter EXCEPT !.at = "loop"]]
          BY <3>2, <4>2 DEF WriterTransmits
        <5>3. QED
          BY <5>1, <5>2 DEF NoWriter
      <4>3. QED
        BY <4>1, <4>2
    <3>3. CASE WriterFails(w)
      <4>1. [NoWriter EXCEPT !.at = "failed"] \in Writer
        BY DEF NoWriter, Writer
      <4>2. QED
        BY <3>3, <4>1 DEF WriterFails, NoWriter
    <3>4. CASE WriterClears(w)
      <4>1. [writer[w] EXCEPT !.at = "close"] \in Writer
        BY <2>0 DEF Writer
      <4>2. QED
        BY <1>0, <3>4, <4>1 DEF WriterClears, TypeOK, Writer
    <3>5. CASE WriterDisconnects(w)
      <4>1. [writer[w] EXCEPT !.at = "done"] \in Writer
        BY <2>0 DEF Writer
      <4>2. QED
        BY <1>0, <3>5, <4>1 DEF WriterDisconnects, TypeOK, Writer
    <3>6. QED
      BY <1>4, <3>1, <3>2, <3>3, <3>4, <3>5 DEF WriterStep
  <2>6. TypeOK'
    BY <1>0, <2>2, <2>3, <2>4, <2>5 DEF TypeOK
  <2>7. Roles'
    BY <1>0, <2>1, <2>2, <2>5 DEF TypeOK, Roles, Spawning, Writers
  <2>8. QED
    BY <2>6, <2>7
<1>5. ASSUME ReaderReceives \/ ReaderStep \/ ConnectionLost PROVE TypeOK' /\ Roles'
  BY <1>0, <1>5 DEF TypeOK, Roles, Spawning, ReaderReceives, ReaderStep,
                    ReaderLoops, ReaderThrows, ConnectionLost
<1>6. QED
  BY <1>1, <1>2, <1>3, <1>4, <1>5 DEF Next

\* The role of the writer is handed on, given up only with an empty queue,
\* and claimed only when nobody has it.
LEMMA RoleStep == IndInv /\ [Next]_vars => OneWriter' /\ QueueHasWriter'
<1> SUFFICES ASSUME IndInv, [Next]_vars PROVE OneWriter' /\ QueueHasWriter'
  OBVIOUS
<1>0. TypeOK /\ Roles /\ OneWriter /\ QueueHasWriter
  BY DEF IndInv
<1>1. CASE UNCHANGED vars
  BY <1>0, <1>1 DEF vars, OneWriter, QueueHasWriter, Active, Spawning
<1>2. ASSUME NEW t \in Threads, SendLocked(t) PROVE OneWriter' /\ QueueHasWriter'
  <2>1. Active' = Active /\ bIsWriting' = TRUE
    BY <1>2 DEF SendLocked, Active
  <2>2. CASE bIsWriting
    <3>1. Spawning' = Spawning
      BY <1>2, <2>2 DEF SendLocked, Spawning
    <3>2. QED
      BY <1>0, <2>1, <2>2, <3>1 DEF OneWriter, QueueHasWriter
  <2>3. CASE ~bIsWriting
    <3>1. Active = {} /\ Spawning = {}
      BY <1>0, <2>3 DEF OneWriter
    <3>2. Spawning' = {t}
      BY <1>0, <1>2, <2>3, <3>1 DEF TypeOK, SendLocked, Spawning
    <3>3. QED
      BY <2>1, <3>1, <3>2 DEF OneWriter, QueueHasWriter
  <2>4. QED
    BY <2>2, <2>3
<1>3. ASSUME NEW t \in Threads, SendSpawns(t) PROVE OneWriter' /\ QueueHasWriter'
  <2>1. t \in Spawning /\ Active = {} /\ bIsWriting
    BY <1>0, <1>3 DEF OneWriter, SendSpawns, Spawning
  <2>2. Spawning' = {}
    BY <1>0, <1>3 DEF TypeOK, OneWriter, SendSpawns, Spawning
  <2>3. spawned + 1 \in Writers
    BY <1>0, <2>1, MaxSendsIsNat DEF TypeOK, Roles, Writers
  <2>4. Active' = {spawned + 1}
    BY <1>0, <1>3, <2>1, <2>3 DEF TypeOK, SendSpawns, Active
  <2>5. QED
    BY <1>3, <2>1, <2>2, <2>4 DEF SendSpawns, OneWriter, QueueHasWriter
<1>4. ASSUME NEW w \in Writers, WriterStep(w) PROVE OneWriter' /\ QueueHasWriter'
  <2>0. /\ Spawning' = Spawning
        /\ \A v \in Writers : v # w => writer'[v] = writer[v]
    BY <1>0, <1>4 DEF TypeOK, Spawning, WriterStep, WriterTakes, WriterTransmits,
                      WriterFails, WriterClears, WriterDisconnects
  <2>1. ASSUME writer[w].at \in {"loop", "failed"}, writer'[w].at \in {"done", "close"},
               writeQueue' = <<>>, bIsWriting' = FALSE
        PROVE  OneWriter' /\ QueueHasWriter'
    <3>1. Active = {w} /\ Spawning = {}
      BY <1>0, <2>1 DEF OneWriter, Active
    <3>2. Active' = {}
      BY <2>0, <2>1, <3>1 DEF Active
    <3>3. QED
      BY <2>0, <2>1, <3>1, <3>2 DEF OneWriter, QueueHasWriter
  <2>2. ASSUME writer[w].at \in {"loop", "write", "failed"}
                  <=> writer'[w].at \in {"loop", "write", "failed"},
               writeQueue # <<>> \/ writeQueue' = writeQueue,
               bIsWriting' = bIsWriting
        PROVE  OneWriter' /\ QueueHasWriter'
    <3>1. Active' = Active
      BY <2>0, <2>2 DEF Active
    <3>2. QED
      BY <1>0, <2>0, <2>2, <3>1 DEF OneWriter, QueueHasWriter
  <2>3. CASE WriterTakes(w)
    <3>1. CASE /\ writeQueue = <<>> /\ bIsWriting' = FALSE /\ UNCHANGED writeQueue
               /\ writer' = [writer EXCEPT ![w].at = "done"]
      <4>1. writer'[w].at = "done" /\ writer[w].at = "loop"
        BY <1>0, <2>3, <3>1 DEF TypeOK, Writer, WriterTakes
      <4>2. QED
        BY <2>1, <3>1, <4>1
    <3>2. CASE /\ writeQueue # <<>> /\ UNCHANGED bIsWriting
               /\ writer' = [writer EXCEPT ![w] = [at |-> "write",
                                      buf |-> Head(writeQueue), half |-> 1]]
      <4>1. writer'[w].at = "write" /\ writer[w].at = "loop"
        BY <1>0, <2>3, <3>2 DEF TypeOK, Writer, WriterTakes
      <4>2. QED
        BY <2>2, <3>2, <4>1
    <3>3. QED
      BY <2>3, <3>1, <3>2 DEF WriterTakes
  <2>4. CASE WriterTransmits(w) \/ WriterFails(w)
    <3>1. /\ writer[w].at = "write" /\ writer'[w].at \in {"loop", "write", "failed"}
          /\ UNCHANGED <<writeQueue, bIsWriting>>
      BY <1>0, <2>4 DEF TypeOK, Writer, NoWriter, WriterTransmits, WriterFails
    <3>2. QED
      BY <2>2, <3>1
  <2>5. CASE WriterClears(w)
    <3>1. writer'[w].at = "close"
      BY <1>0, <2>5 DEF TypeOK, Writer, WriterClears
    <3>2. QED
      BY <2>1, <2>5, <3>1 DEF WriterClears
  <2>6. CASE WriterDisconnects(w)
    <3>1. writer[w].at = "close" /\ writer'[w].at = "done"
      BY <1>0, <2>6 DEF TypeOK, Writer, WriterDisconnects
    <3>2. QED
      BY <2>2, <2>6, <3>1 DEF WriterDisconnects
  <2>7. QED
    BY <1>4, <2>3, <2>4, <2>5, <2>6 DEF WriterStep
<1>5. ASSUME ReaderReceives \/ ReaderStep \/ ConnectionLost PROVE OneWriter' /\ QueueHasWriter'
  BY <1>0, <1>5 DEF OneWriter, QueueHasWriter, Active, Spawning, ReaderReceives,
                    ReaderStep, ReaderLoops, ReaderThrows, ConnectionLost
<1>6. QED
  BY <1>1, <1>2, <1>3, <1>4, <1>5 DEF Next

-------------------------------------------------------------------------------

\* Messages are compared as numbers.
LEMMA NumbersAreNat ==
  ASSUME TypeOK
  PROVE  /\ accepted \in Nat /\ Len(writeQueue) \in Nat /\ Len(wire) \in Nat
         /\ \A i \in 1 .. Len(writeQueue) : writeQueue[i] \in Nat
         /\ \A k \in 1 .. Len(wire) : wire[k][1] \in Nat
         /\ \A w \in Writers : writer[w].buf \in Nat
<1>1. accepted \in Nat
  BY MaxSendsIsNat DEF TypeOK
<1>2. Len(writeQueue) \in Nat /\ \A i \in 1 .. Len(writeQueue) : writeQueue[i] \in Nat
  BY MaxSendsIsNat, ElementOfSeq, LenProperties DEF TypeOK, Messages
<1>3. Len(wire) \in Nat /\ \A k \in 1 .. Len(wire) : wire[k][1] \in Nat
  BY MaxSendsIsNat, ElementOfSeq, LenProperties DEF TypeOK, Messages
<1>4. \A w \in Writers : writer[w].buf \in Nat
  BY MaxSendsIsNat DEF TypeOK, Writer, Messages
<1>5. QED
  BY <1>1, <1>2, <1>3, <1>4

\* The new message is numbered above all others.
LEMMA SendLockedOrder ==
  ASSUME IndInv, NEW t \in Threads, SendLocked(t)
  PROVE  QueueOrder' /\ WireOrder' /\ StreamInOrder'
<1>0. TypeOK /\ QueueOrder /\ WireOrder /\ StreamInOrder
  BY DEF IndInv
<1>1. /\ accepted \in Nat /\ accepted' = accepted + 1
      /\ UNCHANGED <<writer, wire>>
  BY <1>0 DEF TypeOK, SendLocked
<1>2. /\ Len(writeQueue) \in Nat /\ Len(writeQueue') = Len(writeQueue) + 1
      /\ \A i \in 1 .. Len(writeQueue) : /\ writeQueue'[i] = writeQueue[i]
                                         /\ writeQueue[i] \in Nat
      /\ writeQueue'[Len(writeQueue')] = accepted + 1
  <2>1. accepted + 1 \in Messages
    BY <1>0, MaxSendsIsNat DEF TypeOK, SendLocked, Messages
  <2>2. writeQueue \in Seq(Messages) /\ writeQueue' = Append(writeQueue, accepted + 1)
    BY <1>0 DEF TypeOK, SendLocked
  <2>3. QED
    BY <1>0, <2>1, <2>2, AppendProperties, NumbersAreNat
<1>3. \A i \in 1 .. Len(writeQueue') :
         \/ i \in 1 .. Len(writeQueue) /\ writeQueue'[i] = writeQueue[i]
         \/ i = Len(writeQueue) + 1 /\ writeQueue'[i] = accepted + 1
  BY <1>2
<1>4. QueueOrder'
  <2>1. \A i \in 1 .. Len(writeQueue') : writeQueue'[i] <= accepted'
    BY <1>0, <1>1, <1>2, <1>3, NumbersAreNat DEF QueueOrder
  <2>2. \A i, j \in 1 .. Len(writeQueue') : i < j => writeQueue'[i] < writeQueue'[j]
    <3> SUFFICES ASSUME NEW i \in 1 .. Len(writeQueue'), NEW j \in 1 .. Len(writeQueue'),
                        i < j
                 PROVE  writeQueue'[i] < writeQueue'[j]
      OBVIOUS
    <3>1. i \in 1 .. Len(writeQueue) /\ writeQueue'[i] = writeQueue[i]
      BY <1>2
    <3>2. writeQueue[i] \in Nat /\ writeQueue[i] <= accepted
      BY <1>0, <3>1, NumbersAreNat DEF QueueOrder
    <3>3. QED
      BY <1>0, <1>1, <1>3, <3>1, <3>2 DEF QueueOrder
  <2>3. \A w \in Writers : writer'[w].at = "write" =>
           /\ writer'[w].buf <= accepted'
           /\ \A i \in 1 .. Len(writeQueue') : writer'[w].buf < writeQueue'[i]
    BY <1>0, <1>1, <1>3, NumbersAreNat DEF QueueOrder
  <2>4. QED
    BY <2>1, <2>2, <2>3 DEF QueueOrder
<1>5. WireOrder'
  BY <1>0, <1>1, <1>2, <1>3, NumbersAreNat DEF WireOrder
<1>6. StreamInOrder'
  BY <1>0, <1>1 DEF StreamInOrder
<1>7. QED
  BY <1>4, <1>5, <1>6

\* The first message of the queue becomes the writer's; it is numbered below
\* the rest of the queue and above what was transmitted.
LEMMA WriterTakesOrder ==
  ASSUME IndInv, NEW w \in Writers, WriterTakes(w)
  PROVE  QueueOrder' /\ WireOrder' /\ StreamInOrder'
<1>0. TypeOK /\ QueueOrder /\ WireOrder /\ StreamInOrder /\ OneWriter
  BY DEF IndInv
<1>1. /\ UNCHANGED <<accepted, wire>>
      /\ \A v \in Writers : v # w => writer'[v] = writer[v] /\ writer[v].at # "write"
  <2>1. UNCHANGED <<accepted, wire>> /\ writer[w].at = "loop"
    BY DEF WriterTakes
  <2>2. \A v \in Writers : v # w => writer'[v] = writer[v]
    BY <1>0 DEF TypeOK, WriterTakes
  <2>3. \A v \in Writers : v # w => writer[v].at # "write"
    BY <1>0, <2>1 DEF OneWriter, Active
  <2>4. QED
    BY <2>1, <2>2, <2>3
<1>2. StreamInOrder'
  BY <1>0, <1>1 DEF StreamInOrder
<1>3. CASE writeQueue = <<>> /\ UNCHANGED writeQueue /\ writer' = [writer EXCEPT ![w].at = "done"]
  <2>1. \A v \in Writers : writer'[v].at # "write"
    BY <1>0, <1>1, <1>3 DEF TypeOK, Writer
  <2>2. QueueOrder' /\ WireOrder'
    BY <1>0, <1>1, <1>3, <2>1 DEF QueueOrder, WireOrder
  <2>3. QED
    BY <1>2, <2>2
<1>4. CASE /\ writeQueue # <<>> /\ writeQueue' = Tail(writeQueue)
           /\ writer' = [writer EXCEPT ![w] = [at |-> "write",
                                  buf |-> Head(writeQueue), half |-> 1]]
  <2>1. /\ Len(writeQueue) \in Nat \ {0}
        /\ Head(writeQueue) = writeQueue[1]
        /\ Len(writeQueue') = Len(writeQueue) - 1
        /\ \A i \in 1 .. Len(writeQueue') : writeQueue'[i] = writeQueue[i + 1]
    BY <1>0, <1>4, HeadTailProperties, EmptySeq, LenProperties DEF TypeOK
  <2>2. /\ writer'[w].buf = writeQueue[1] /\ writer'[w].half = 1
        /\ 1 \in 1 .. Len(writeQueue)
        /\ \A i \in 1 .. Len(writeQueue') : i + 1 \in 1 .. Len(writeQueue) /\ 1 < i + 1
    BY <1>0, <1>4, <2>1 DEF TypeOK
  <2>3. QueueOrder'
    <3>1. \A i \in 1 .. Len(writeQueue') : writeQueue'[i] <= accepted'
      BY <1>0, <1>1, <2>1, <2>2 DEF QueueOrder
    <3>2. \A i, j \in 1 .. Len(writeQueue') : i < j => writeQueue'[i] < writeQueue'[j]
      BY <1>0, <2>1, <2>2 DEF QueueOrder
    <3>3. \A i \in 1 .. Len(writeQueue') : writer'[w].buf < writeQueue'[i]
      BY <1>0, <2>1, <2>2 DEF QueueOrder
    <3>4. writer'[w].buf <= accepted'
      BY <1>0, <1>1, <2>2 DEF QueueOrder
    <3>5. QED
      BY <1>1, <3>1, <3>2, <3>3, <3>4 DEF QueueOrder
  <2>4. WireOrder'
    <3>1. \A k \in 1 .. Len(wire') : /\ wire'[k][1] <= accepted'
                                     /\ wire'[k][1] < writer'[w].buf
      BY <1>0, <1>1, <2>2 DEF WireOrder
    <3>2. \A k \in 1 .. Len(wire') : \A i \in 1 .. Len(writeQueue') :
             wire'[k][1] < writeQueue'[i]
      BY <1>0, <1>1, <2>1, <2>2 DEF WireOrder
    <3>3. QED
      BY <1>1, <2>2, <3>1, <3>2 DEF WireOrder
  <2>5. QED
    BY <1>2, <2>3, <2>4
<1>5. QED
  BY <1>3, <1>4 DEF WriterTakes

\* The first half continues a stream of smaller numbers, the second half
\* follows the first.
LEMMA WriterTransmitsOrder ==
  ASSUME IndInv, NEW w \in Writers, WriterTransmits(w)
  PROVE  QueueOrder' /\ WireOrder' /\ StreamInOrder'
<1>0. TypeOK /\ Roles /\ QueueOrder /\ WireOrder /\ StreamInOrder /\ OneWriter
  BY DEF IndInv
<1>1. /\ UNCHANGED <<accepted, writeQueue>>
      /\ writer[w].at = "write"
      /\ \A v \in Writers : v # w => writer'[v] = writer[v] /\ writer[v].at # "write"
  BY <1>0 DEF TypeOK, WriterTransmits, OneWriter, Active
<1>2. <<writer[w].buf, writer[w].half>> \in Messages \X {1, 2}
  BY <1>0, <1>1 DEF TypeOK, Writer, Roles
<1>3. /\ Len(wire) \in Nat /\ Len(wire') = Len(wire) + 1
      /\ \A k \in 1 .. Len(wire) : wire'[k] = wire[k]
      /\ wire'[Len(wire) + 1] = <<writer[w].buf, writer[w].half>>
  <2>1. wire \in Seq(Messages \X {1, 2})
        /\ wire' = Append(wire, <<writer[w].buf, writer[w].half>>)
    BY <1>0 DEF TypeOK, WriterTransmits
  <2>2. QED
    BY <1>2, <2>1, AppendProperties, LenProperties
<1>4. \A k \in 1 .. Len(wire') :
         \/ k \in 1 .. Len(wire) /\ wire'[k] = wire[k]
         \/ k = Len(wire) + 1 /\ wire'[k] = <<writer[w].buf, writer[w].half>>
  BY <1>3
<1>5. \/ writer[w].half = 1 /\ writer'[w] = [writer[w] EXCEPT !.half = 2]
      \/ writer[w].half = 2 /\ writer'[w].at = "loop"
  BY <1>0 DEF TypeOK, Writer, NoWriter, WriterTransmits
<1>6. QueueOrder'
  BY <1>0, <1>1, <1>5 DEF QueueOrder, TypeOK, Writer
<1>7. WireOrder'
  <2>1. \A k \in 1 .. Len(wire') : wire'[k][1] <= accepted'
    BY <1>0, <1>1, <1>4 DEF WireOrder, QueueOrder
  <2>2. \A k \in 1 .. Len(wire') : \A i \in 1 .. Len(writeQueue') : wire'[k][1] < writeQueue'[i]
    BY <1>0, <1>1, <1>4 DEF WireOrder, QueueOrder
  <2>3. ASSUME writer'[w].at = "write"
        PROVE  /\ writer'[w].half = 2 /\ wire' # <<>>
               /\ wire'[Len(wire')] = <<writer'[w].buf, 1>>
    <3>1. writer[w].half = 1 /\ writer'[w].half = 2 /\ writer'[w].buf = writer[w].buf
      BY <1>0, <1>5, <2>3 DEF TypeOK, Writer
    <3>2. Len(wire') # 0
      BY <1>3
    <3>3. QED
      BY <1>3, <3>1, <3>2
  <2>4. QED
    BY <1>1, <2>1, <2>2, <2>3 DEF WireOrder
<1>8. StreamInOrder'
  <2>1. DOMAIN wire = 1 .. Len(wire) /\ DOMAIN wire' = 1 .. Len(wire')
    <3>1. wire' \in Seq(Messages \X {1, 2})
      BY TypeStep DEF Next, WriterStep, TypeOK
    <3>2. QED
      BY <1>0, <3>1, LenProperties DEF TypeOK
  <2>2. ASSUME NEW i \in 1 .. Len(wire), i # 1
        PROVE  /\ wire'[i - 1] = wire[i - 1] /\ wire'[i] = wire[i]
               /\ i \in DOMAIN wire \ {1}
    BY <1>3, <2>1, <2>2
  <2>3. ASSUME Len(wire) # 0
        PROVE  LET before == wire'[Len(wire)]  now == wire'[Len(wire) + 1] IN
               \/ now = <<before[1], 2>> /\ before[2] = 1
               \/ now[2] = 1 /\ now[1] > before[1]
    <3>1. wire'[Len(wire)] = wire[Len(wire)] /\ Len(wire) \in 1 .. Len(wire)
      BY <1>3, <2>3
    <3>2. CASE writer[w].half = 1
      <4>1. wire[Len(wire)][1] < writer[w].buf
        BY <1>0, <1>1, <3>1, <3>2 DEF WireOrder
      <4>2. QED
        BY <1>0, <1>3, <3>1, <3>2, <4>1, NumbersAreNat
    <3>3. CASE writer[w].half = 2
      BY <1>0, <1>1, <1>3, <3>1, <3>3 DEF WireOrder
    <3>4. QED
      BY <1>5, <3>2, <3>3
  <2>4. QED
    BY <1>0, <1>3, <2>1, <2>2, <2>3 DEF StreamInOrder
<1>9. QED
  BY <1>6, <1>7, <1>8

\* The other steps transmit nothing, and only take from the queue or from the
\* writer.
LEMMA OtherOrder ==
  ASSUME IndInv,
         \/ \E t \in Threads : SendSpawns(t)
         \/ \E w \in Writers : WriterFails(w) \/ WriterClears(w) \/ WriterDisconnects(w)
         \/ ReaderReceives \/ ReaderStep \/ ConnectionLost \/ UNCHANGED vars
  PROVE  QueueOrder' /\ WireOrder' /\ StreamInOrder'
<1>0. TypeOK /\ QueueOrder /\ WireOrder /\ StreamInOrder
  BY DEF IndInv
<1>1. UNCHANGED <<accepted, wire>>
  BY DEF SendSpawns, WriterFails, WriterClears, WriterDisconnects, ReaderReceives,
         ReaderStep, ReaderLoops, ReaderThrows, ConnectionLost, vars
<1>2. writeQueue' = writeQueue \/ writeQueue' = <<>>
  BY DEF SendSpawns, WriterFails, WriterClears, WriterDisconnects, ReaderReceives,
         ReaderStep, ReaderLoops, ReaderThrows, ConnectionLost, vars
<1>3. \A v \in Writers : writer'[v] = writer[v] \/ writer'[v].at # "write"
  BY <1>0 DEF TypeOK, Writer, NoWriter, SendSpawns, WriterFails, WriterClears,
              WriterDisconnects, ReaderReceives, ReaderStep, ReaderLoops,
              ReaderThrows, ConnectionLost, vars
<1>4. \A i \in 1 .. Len(writeQueue') : /\ i \in 1 .. Len(writeQueue)
                                       /\ writeQueue'[i] = writeQueue[i]
  BY <1>2
<1>5. \A v \in Writers : writer'[v].at = "write" => writer'[v] = writer[v]
  BY <1>3
<1>6. QueueOrder'
  BY <1>0, <1>1, <1>4, <1>5 DEF QueueOrder
<1>7. WireOrder'
  BY <1>0, <1>1, <1>4, <1>5 DEF WireOrder
<1>8. StreamInOrder'
  BY <1>0, <1>1 DEF StreamInOrder
<1>9. QED
  BY <1>6, <1>7, <1>8

-------------------------------------------------------------------------------

\* The invariant holds in every reachable state.
LEMMA SpecIndInv == Spec => []IndInv
<1>1. IndInv /\ [Next]_vars => IndInv'
  <2> SUFFICES ASSUME IndInv, [Next]_vars PROVE IndInv'
    OBVIOUS
  <2>1. QueueOrder' /\ WireOrder' /\ StreamInOrder'
    BY SendLockedOrder, WriterTakesOrder, WriterTransmitsOrder, OtherOrder
      DEF Next, WriterStep
  <2>2. QED
    BY <2>1, TypeStep, RoleStep DEF IndInv
<1>2. QED
  BY InitIndInv, <1>1, PTL DEF Spec

\* Type correctness.
THEOREM SpecTypeOK == Spec => []TypeOK
<1>1. IndInv => TypeOK
  BY DEF IndInv
<1>2. QED
  BY SpecIndInv, <1>1, PTL

\* However many threads send to a session, it has at most one writer, and
\* bIsWriting says whether it has one.
THEOREM SpecOneWriter == Spec => []OneWriter
<1>1. IndInv => OneWriter
  BY DEF IndInv
<1>2. QED
  BY SpecIndInv, <1>1, PTL

\* No message waits in WriteQueue without a writer that will find it.
THEOREM SpecQueueHasWriter == Spec => []QueueHasWriter
<1>1. IndInv => QueueHasWriter
  BY DEF IndInv
<1>2. QED
  BY SpecIndInv, <1>1, PTL

\* The byte stream is made of whole messages in the order of the pushes, also
\* across a failed write and the writer that follows it.
THEOREM SpecStreamInOrder == Spec => []StreamInOrder
<1>1. IndInv => StreamInOrder
  BY DEF IndInv
<1>2. QED
  BY SpecIndInv, <1>1, PTL

-------------------------------------------------------------------------------

Received(n) == \E i \in DOMAIN wire : wire[i] = <<n, 2>>

Ending == Failing \/ socket = "closed"

\* Once a write has failed the session stays on its way to its end.
LEMMA EndingStays == IndInv /\ [Next]_vars /\ Ending => Ending'
<1> SUFFICES ASSUME IndInv, [Next]_vars, Ending PROVE Ending'
  OBVIOUS
<1>0. TypeOK /\ Roles
  BY DEF IndInv
<1>1. CASE socket = "closed"
  BY <1>1 DEF Next, vars, Ending, SendLocked, SendSpawns, WriterStep, WriterTakes,
              WriterTransmits, WriterFails, WriterClears, WriterDisconnects,
              ReaderReceives, ReaderStep, ReaderLoops, ReaderThrows, ConnectionLost
<1>2. CASE Failing
  <2>1. PICK v \in Writers : writer[v].at \in {"failed", "close"}
    BY <1>2 DEF Failing
  <2>2. CASE \E w \in Writers : WriterDisconnects(w)
    BY <2>2 DEF WriterDisconnects, Ending
  <2>3. CASE ~\E w \in Writers : WriterDisconnects(w)
    <3>1. CASE \E t \in Threads : SendSpawns(t)
      <4>1. v <= spawned
        BY <1>0, <2>1 DEF TypeOK, Roles, Writers
      <4>2. writer'[v] = writer[v]
        BY <1>0, <3>1, <4>1, MaxSendsIsNat DEF TypeOK, SendSpawns, Writers
      <4>3. QED
        BY <2>1, <4>2 DEF Ending, Failing
    <3>2. CASE \E w \in Writers : WriterTakes(w) \/ WriterTransmits(w) \/ WriterFails(w)
      <4>1. writer'[v] = writer[v]
        BY <1>0, <2>1, <3>2 DEF TypeOK, WriterTakes, WriterTransmits, WriterFails
      <4>2. QED
        BY <2>1, <4>1 DEF Ending, Failing
    <3>3. CASE \E w \in Writers : WriterClears(w)
      <4>1. writer'[v].at \in {"failed", "close"}
        BY <1>0, <2>1, <3>3 DEF TypeOK, Writer, WriterClears
      <4>2. QED
        BY <4>1 DEF Ending, Failing
    <3>4. CASE UNCHANGED writer
      BY <2>1, <3>4 DEF Ending, Failing
    <3>5. QED
      BY <2>3, <3>1, <3>2, <3>3, <3>4
        DEF Next, vars, WriterStep, SendLocked, ReaderReceives, ReaderStep,
            ReaderLoops, ReaderThrows, ConnectionLost
  <2>4. QED
    BY <2>2, <2>3
<1>3. QED
  BY <1>1, <1>2 DEF Ending

\* Append keeps the elements of a sequence and adds one.
LEMMA AppendKeeps ==
  ASSUME NEW S, NEW seq \in Seq(S), NEW e \in S
  PROVE  LET longer == Append(seq, e) IN
         /\ \A i \in DOMAIN seq : i \in DOMAIN longer /\ longer[i] = seq[i]
         /\ \E i \in DOMAIN longer : longer[i] = e
<1> DEFINE longer == Append(seq, e)
<1>1. /\ longer \in Seq(S) /\ Len(longer) = Len(seq) + 1
      /\ \A i \in 1 .. Len(seq) : longer[i] = seq[i]
      /\ longer[Len(seq) + 1] = e
  BY AppendProperties
<1>2. /\ Len(seq) \in Nat /\ DOMAIN seq = 1 .. Len(seq)
      /\ DOMAIN longer = 1 .. Len(longer)
  BY <1>1, LenProperties
<1>3. Len(seq) + 1 \in DOMAIN longer
  BY <1>1, <1>2
<1>4. QED
  BY <1>1, <1>2, <1>3

\* An accepted message moves from the queue to the writer and from the writer
\* to the peer, or the session ends.
LEMMA LostStep == IndInv /\ LostOnlyWithSession /\ [Next]_vars => LostOnlyWithSession'
<1> SUFFICES ASSUME IndInv, LostOnlyWithSession, [Next]_vars, ~Ending',
                    NEW n \in 1 .. accepted'
             PROVE  InHands(n)' \/ Received(n)'
  BY DEF LostOnlyWithSession, Ending, Received
<1>0. TypeOK /\ Roles /\ TypeOK'
  BY TypeStep DEF IndInv
<1>1. ~Ending
  BY EndingStays
<1>2. n \in 1 .. accepted => InHands(n) \/ Received(n)
  BY <1>1 DEF LostOnlyWithSession, Ending, Received
<1>3. CASE \E t \in Threads : SendLocked(t)
  <2>1. /\ accepted \in Nat /\ accepted' = accepted + 1 /\ UNCHANGED <<writer, wire>>
        /\ writeQueue' = Append(writeQueue, accepted + 1)
    BY <1>0, <1>3, MaxSendsIsNat DEF TypeOK, SendLocked
  <2>2. /\ \A i \in DOMAIN writeQueue : i \in DOMAIN writeQueue' /\ writeQueue'[i] = writeQueue[i]
        /\ \E i \in DOMAIN writeQueue' : writeQueue'[i] = accepted + 1
    <3>1. accepted + 1 \in Messages
      BY <1>0, <1>3, MaxSendsIsNat DEF TypeOK, SendLocked, Messages
    <3>2. QED
      BY <1>0, <2>1, <3>1, AppendKeeps DEF TypeOK
  <2>3. CASE n = accepted + 1
    BY <2>2, <2>3 DEF InHands
  <2>4. CASE n \in 1 .. accepted
    BY <1>2, <2>1, <2>2, <2>4 DEF InHands, Received
  <2>5. QED
    BY <2>1, <2>3, <2>4
<1>4. CASE \E t \in Threads : SendSpawns(t)
  <2>1. /\ UNCHANGED <<accepted, writeQueue, wire>>
        /\ \A v \in Writers : writer[v].at = "write" => writer'[v] = writer[v]
    BY <1>0, <1>4, MaxSendsIsNat DEF TypeOK, Roles, SendSpawns, Writers
  <2>2. QED
    BY <1>2, <2>1 DEF InHands, Received
<1>5. ASSUME NEW w \in Writers, WriterTakes(w) PROVE InHands(n)' \/ Received(n)'
  <2>1. /\ UNCHANGED <<accepted, wire>>
        /\ \A v \in Writers : writer[v].at = "write" => writer'[v] = writer[v]
    BY <1>0, <1>5 DEF TypeOK, WriterTakes
  <2>2. CASE UNCHANGED writeQueue
    BY <1>2, <2>1, <2>2 DEF InHands, Received
  <2>3. CASE /\ writeQueue # <<>> /\ writeQueue' = Tail(writeQueue)
             /\ writer' = [writer EXCEPT ![w] = [at |-> "write",
                                    buf |-> Head(writeQueue), half |-> 1]]
    <3>1. writer'[w].at = "write" /\ writer'[w].buf = writeQueue[1]
      BY <1>0, <2>3, HeadTailProperties DEF TypeOK
    <3>2. \A i \in DOMAIN writeQueue :
             i # 1 => i - 1 \in DOMAIN writeQueue' /\ writeQueue'[i - 1] = writeQueue[i]
      BY <1>0, <2>3, HeadTailProperties, LenProperties DEF TypeOK
    <3>3. QED
      BY <1>2, <2>1, <3>1, <3>2 DEF InHands, Received
  <2>4. QED
    BY <1>5, <2>2, <2>3 DEF WriterTakes
<1>6. ASSUME NEW w \in Writers, WriterTransmits(w) PROVE InHands(n)' \/ Received(n)'
  <2>1. /\ UNCHANGED <<accepted, writeQueue>> /\ writer[w].at = "write"
        /\ \A v \in Writers : v # w => writer'[v] = writer[v]
    BY <1>0, <1>6 DEF TypeOK, WriterTransmits
  <2>2. /\ \A i \in DOMAIN wire : i \in DOMAIN wire' /\ wire'[i] = wire[i]
        /\ \E i \in DOMAIN wire' : wire'[i] = <<writer[w].buf, writer[w].half>>
    <3>1. <<writer[w].buf, writer[w].half>> \in Messages \X {1, 2}
      BY <1>0, <2>1 DEF TypeOK, Writer, Roles
    <3>2. wire \in Seq(Messages \X {1, 2})
          /\ wire' = Append(wire, <<writer[w].buf, writer[w].half>>)
      BY <1>0, <1>6 DEF TypeOK, WriterTransmits
    <3> DEFINE e == <<writer[w].buf, writer[w].half>>
    <3>3. LET longer == Append(wire, e) IN
          /\ \A i \in DOMAIN wire : i \in DOMAIN longer /\ longer[i] = wire[i]
          /\ \E i \in DOMAIN longer : longer[i] = e
      <4> DEFINE S == Messages \X {1, 2}
      <4>1. e \in S /\ wire \in Seq(S)
        BY <3>1, <3>2
      <4> HIDE DEF e, S
      <4>2. QED
        BY <4>1, AppendKeeps
    <3>4. QED
      BY <3>2, <3>3
  <2>3. \/ writer'[w].at = "write" /\ writer'[w].buf = writer[w].buf
        \/ writer[w].half = 2
    BY <1>0, <1>6 DEF TypeOK, Writer, WriterTransmits
  <2>4. QED
    BY <1>2, <2>1, <2>2, <2>3 DEF InHands, Received
<1>7. CASE \E w \in Writers : WriterFails(w) \/ WriterClears(w) \/ WriterDisconnects(w)
  BY <1>0, <1>7 DEF TypeOK, Writer, NoWriter, WriterFails, WriterClears,
                    WriterDisconnects, Ending, Failing
<1>8. CASE ReaderReceives \/ ReaderStep \/ ConnectionLost \/ UNCHANGED vars
  BY <1>2, <1>8 DEF InHands, Received, ReaderReceives, ReaderStep, ReaderLoops,
                    ReaderThrows, ConnectionLost, vars
<1>9. QED
  BY <1>3, <1>4, <1>5, <1>6, <1>7, <1>8 DEF Next, WriterStep

\* A message is lost only together with its session: an early end of DoWrite
\* or a cleared WriteQueue never drops one from a session that goes on.
THEOREM SpecLostOnlyWithSession == Spec => []LostOnlyWithSession
<1>1. Init => LostOnlyWithSession
  BY DEF Init, LostOnlyWithSession
<1>2. QED
  BY SpecIndInv, LostStep, <1>1, PTL DEF Spec
===============================================================================
