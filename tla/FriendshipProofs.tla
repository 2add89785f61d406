--------------------------- MODULE FriendshipProofs ----------------------------
(***************************************************************************)
(* The connection pool under the friend handlers, for any number of users, *)
(* sessions, connections and requests: no wake-up is lost, a connection    *)
(* has one place, and a handler that is not in SaveChanges holds no lock.  *)
(* Each request is one step of FriendBook, and only removals deadlock.     *)
(***************************************************************************)
EXTENDS Friendship, FiniteSetTheorems, SequenceTheorems, TLAPS

\* What is true of a handler at each place of its way
FlowOK ==
  \A s \in Sessions :
    /\ lent[s] = NoConn <=> pc[s] \in {"idle", "pop", "notify"}
    /\ s \in waiting \cup woken => pc[s] = "pop"
    /\ s \in notifying => pc[s] = "notify"
    /\ pc[s] \notin {"idle", "notify"} => call[s] \in Calls
    /\ s \in loose => pc[s] = "flush"

\* A locked row has a writer in its transaction, which knows what it wrote
LocksOK ==
  \A d \in Directions : lock[d] # Free =>
    /\ pc[lock[d]] = "flush" /\ lock[d] \notin loose
    /\ \E w \in written[lock[d]] : w.at = d

TableTypeOK ==
  /\ rows \in [Directions -> Row]
  /\ inserts \in [Directions -> Nat]
  /\ lock \in [Directions -> Sessions \cup {Free}]
  /\ written \in [Sessions -> SUBSET Writing]
  /\ loose \in SUBSET Sessions

HandlerTypeOK ==
  /\ pc \in [Sessions -> Stages]
  /\ call \in [Sessions -> Calls \cup {NoCall}]
  /\ changes \in [Sessions -> Seq(Change)]
  /\ reply \in [Sessions -> {"none", "ok", "fail"}]
  /\ calls \in Nat

Inv ==
  /\ PoolTypeOK /\ TableTypeOK /\ HandlerTypeOK /\ FlowOK /\ LocksOK
  /\ NoLostWakeup /\ ConnectionHasOnePlace

-------------------------------------------------------------------------------
(* The pool by itself *)

LEMMA PoolStarts == PoolInit => PoolTypeOK /\ NoLostWakeup /\ ConnectionHasOnePlace
<1> SUFFICES ASSUME PoolInit PROVE PoolTypeOK /\ NoLostWakeup /\ ConnectionHasOnePlace
  OBVIOUS
<1>1. PoolSize \in Nat
  BY PoolAssumption
<1>2. /\ Connections \in Seq(Pool) /\ Len(Connections) = PoolSize
      /\ \A k \in 1 .. PoolSize : Connections[k] = k
  BY <1>1 DEF PoolInit, Pool
<1>3. PoolTypeOK
  BY <1>2 DEF PoolInit, PoolTypeOK
<1>4. NoLostWakeup
  BY DEF PoolInit, NoLostWakeup
<1>5. \A s \in Sessions : lent[s] = NoConn
  BY DEF PoolInit
<1>6. \A c \in Pool : \E k \in 1 .. Len(Connections) : Connections[k] = c
  BY <1>1, <1>2 DEF Pool
<1>7. \A c \in Pool : c # NoConn
  BY <1>1 DEF Pool, NoConn
<1>8. ConnectionHasOnePlace
  BY <1>1, <1>2, <1>5, <1>6, <1>7 DEF ConnectionHasOnePlace
<1> QED
  BY <1>3, <1>4, <1>8

\* Taking the last connection of the pool
LEMMA TakeFacts ==
  ASSUME NEW s \in Sessions, PoolTypeOK, ConnectionHasOnePlace, lent[s] = NoConn, Take(s)
  PROVE  /\ Connections' \in Seq(Pool) /\ lent' \in [Sessions -> Pool \cup {NoConn}]
         /\ Len(Connections') = Len(Connections) - 1
         /\ lent'[s] # NoConn /\ \A r \in Sessions \ {s} : lent'[r] = lent[r]
         /\ ConnectionHasOnePlace'
<1> DEFINE n == Len(Connections)
<1>1. /\ Connections \in Seq(Pool) /\ Connections # <<>> /\ n \in Nat /\ n > 0
      /\ lent \in [Sessions -> Pool \cup {NoConn}]
  BY EmptySeq, LenProperties DEF PoolTypeOK, Take
<1>2. /\ Connections' \in Seq(Pool) /\ Len(Connections') = n - 1
      /\ \A k \in 1 .. n - 1 : Connections'[k] = Connections[k]
  <2>1. Connections' = SubSeq(Connections, 1, n - 1)
    BY DEF Take
  <2>2. n - 1 \in Int /\ \A k \in 1 .. n - 1 : Connections[k] \in Pool
    BY <1>1, ElementOfSeq
  <2>3. /\ SubSeq(Connections, 1, n - 1) \in Seq(Pool)
        /\ Len(SubSeq(Connections, 1, n - 1)) = IF 1 <= n - 1 THEN n - 1 - 1 + 1 ELSE 0
        /\ \A k \in 1 .. n - 1 - 1 + 1 :
              SubSeq(Connections, 1, n - 1)[k] = Connections[1 + k - 1]
    BY <1>1, <2>2, SubSeqProperties
  <2>a. n \in Nat /\ n > 0
    BY <1>1
  <2>4. n - 1 - 1 + 1 = n - 1 /\ (IF 1 <= n - 1 THEN n - 1 - 1 + 1 ELSE 0) = n - 1
    <3> HIDE DEF n
    <3>1. n - 1 - 1 + 1 = n - 1
      BY <2>a
    <3>2. CASE n = 1
      BY <3>1, <3>2
    <3>3. CASE n > 1
      BY <2>a, <3>1, <3>3
    <3> QED
      BY <2>a, <3>1, <3>2, <3>3
  <2>5. \A k \in 1 .. n - 1 : 1 + k - 1 = k
    BY <1>1
  <2>6. \A k \in 1 .. n - 1 : SubSeq(Connections, 1, n - 1)[k] = Connections[k]
    BY <2>3, <2>4, <2>5
  <2> HIDE DEF n
  <2> QED
    BY <2>1, <2>3, <2>4, <2>6
<1>3. Connections[n] \in Pool
  BY <1>1, ElementOfSeq
<1>4. lent' = [lent EXCEPT ![s] = Connections[n]]
  BY DEF Take
<1>5. \A c \in Pool : c # NoConn
  BY DEF Pool, NoConn
<1>6. /\ lent' \in [Sessions -> Pool \cup {NoConn}]
      /\ lent'[s] = Connections[n] /\ \A r \in Sessions \ {s} : lent'[r] = lent[r]
  BY <1>1, <1>3, <1>4
<1>7. \A r \in Sessions : lent[r] # Connections[n]
  BY <1>1, <1>3 DEF ConnectionHasOnePlace
<1>8. \A j, k \in 1 .. n - 1 : Connections'[j] = Connections'[k] => j = k
  BY <1>1, <1>2 DEF ConnectionHasOnePlace
<1>9. \A p, r \in Sessions : lent'[p] = lent'[r] /\ lent'[p] # NoConn => p = r
  BY <1>6, <1>7 DEF ConnectionHasOnePlace
<1>10. ASSUME NEW c \in Pool
       PROVE  (\E k \in 1 .. n - 1 : Connections'[k] = c) <=> ~ \E r \in Sessions : lent'[r] = c
  <2>1. CASE c = Connections[n]
    <3>1. \A k \in 1 .. n - 1 : Connections'[k] # c
      BY <2>1, <1>1, <1>2 DEF ConnectionHasOnePlace
    <3> QED
      BY <3>1, <2>1, <1>6
  <2>2. CASE c # Connections[n]
    <3>1. (\E k \in 1 .. n - 1 : Connections'[k] = c) <=> \E k \in 1 .. n : Connections[k] = c
      BY <2>2, <1>1, <1>2
    <3>2. (\E r \in Sessions : lent'[r] = c) <=> \E r \in Sessions : lent[r] = c
      BY <2>2, <1>5, <1>6
    <3> QED
      BY <3>1, <3>2 DEF ConnectionHasOnePlace
  <2> QED
    BY <2>1, <2>2
<1>11. ConnectionHasOnePlace'
  BY <1>2, <1>8, <1>9, <1>10 DEF ConnectionHasOnePlace
<1> QED
  BY <1>2, <1>3, <1>5, <1>6, <1>11

\* Giving a connection back
LEMMA PushFacts ==
  ASSUME NEW s \in Sessions, PoolTypeOK, ConnectionHasOnePlace, Push(s)
  PROVE  /\ Connections' \in Seq(Pool) /\ lent' \in [Sessions -> Pool \cup {NoConn}]
         /\ Len(Connections') = Len(Connections) + 1
         /\ lent'[s] = NoConn /\ \A r \in Sessions \ {s} : lent'[r] = lent[r]
         /\ ConnectionHasOnePlace'
<1> DEFINE n == Len(Connections)
<1>1. /\ Connections \in Seq(Pool) /\ n \in Nat
      /\ lent \in [Sessions -> Pool \cup {NoConn}]
  BY LenProperties DEF PoolTypeOK
<1>2. lent[s] \in Pool
  BY <1>1 DEF Push
<1>3. /\ Connections' \in Seq(Pool) /\ Len(Connections') = n + 1
      /\ \A k \in 1 .. n : Connections'[k] = Connections[k]
      /\ Connections'[n + 1] = lent[s]
  BY <1>1, <1>2, AppendProperties DEF Push
<1>4. lent' = [lent EXCEPT ![s] = NoConn]
  BY DEF Push
<1>5. \A c \in Pool : c # NoConn
  BY DEF Pool, NoConn
<1>6. /\ lent' \in [Sessions -> Pool \cup {NoConn}]
      /\ lent'[s] = NoConn /\ \A r \in Sessions \ {s} : lent'[r] = lent[r]
  BY <1>1, <1>4
<1>7. \A k \in 1 .. n : Connections[k] # lent[s]
  BY <1>2 DEF ConnectionHasOnePlace
<1>8. \A j, k \in 1 .. n + 1 : Connections'[j] = Connections'[k] => j = k
  BY <1>1, <1>3, <1>7 DEF ConnectionHasOnePlace
<1>9. \A p, r \in Sessions : lent'[p] = lent'[r] /\ lent'[p] # NoConn => p = r
  BY <1>6 DEF ConnectionHasOnePlace
<1>10. ASSUME NEW c \in Pool
       PROVE  (\E k \in 1 .. n + 1 : Connections'[k] = c) <=> ~ \E r \in Sessions : lent'[r] = c
  <2>1. CASE c = lent[s]
    <3>1. \A r \in Sessions : lent'[r] # c
      BY <2>1, <1>2, <1>5, <1>6 DEF ConnectionHasOnePlace
    <3> QED
      BY <3>1, <2>1, <1>1, <1>3
  <2>2. CASE c # lent[s]
    <3>1. (\E k \in 1 .. n + 1 : Connections'[k] = c) <=> \E k \in 1 .. n : Connections[k] = c
      BY <2>2, <1>1, <1>3
    <3>2. (\E r \in Sessions : lent'[r] = c) <=> \E r \in Sessions : lent[r] = c
      BY <2>2, <1>5, <1>6
    <3> QED
      BY <3>1, <3>2 DEF ConnectionHasOnePlace
  <2> QED
    BY <2>1, <2>2
<1>11. ConnectionHasOnePlace'
  BY <1>3, <1>8, <1>9, <1>10 DEF ConnectionHasOnePlace
<1> QED
  BY <1>3, <1>6, <1>11

\* What a handler does to the pool
PoolStep(s) ==
  \/ lent[s] = NoConn /\ s \notin waiting \cup woken /\ Pop(s)
  \/ lent[s] = NoConn /\ Recheck(s)
  \/ s \notin notifying /\ Push(s)
  \/ NotifyOne(s)
  \/ SpuriousWakeup(s)

LEMMA Added ==
  ASSUME NEW S \in SUBSET Sessions, NEW s \in Sessions \ S
  PROVE  Cardinality(S \cup {s}) = Cardinality(S) + 1 /\ Cardinality(S) \in Nat
<1>1. IsFiniteSet(S)
  BY PoolAssumption, FS_Subset
<1> QED
  BY <1>1, FS_AddElement, FS_CardinalityType

LEMMA Removed ==
  ASSUME NEW S \in SUBSET Sessions, NEW s \in S
  PROVE  Cardinality(S \ {s}) = Cardinality(S) - 1 /\ Cardinality(S) \in Nat
<1>1. IsFiniteSet(S)
  BY PoolAssumption, FS_Subset
<1> QED
  BY <1>1, FS_RemoveElement, FS_CardinalityType

LEMMA PoolStepKeeps ==
  ASSUME NEW s \in Sessions, PoolTypeOK, NoLostWakeup, ConnectionHasOnePlace, PoolStep(s)
  PROVE  PoolTypeOK' /\ NoLostWakeup' /\ ConnectionHasOnePlace'
<1>0. /\ Connections \in Seq(Pool) /\ lent \in [Sessions -> Pool \cup {NoConn}]
      /\ waiting \in SUBSET Sessions /\ woken \in SUBSET Sessions /\ notifying \in SUBSET Sessions
      /\ waiting \cap woken = {}
  BY DEF PoolTypeOK
<1>a. Cardinality(woken) \in Nat /\ Cardinality(notifying) \in Nat
  BY <1>0, PoolAssumption, FS_Subset, FS_CardinalityType
<1>b. Len(Connections) \in Nat /\ Len(<<>>) = 0
  BY <1>0, LenProperties
<1>1. CASE lent[s] = NoConn /\ s \notin waiting \cup woken /\ Pop(s)
  <2>1. UNCHANGED <<woken, notifying>>
    BY <1>1 DEF Pop
  <2>2. CASE Take(s) /\ UNCHANGED waiting
    <3>1. /\ Connections' \in Seq(Pool) /\ lent' \in [Sessions -> Pool \cup {NoConn}]
          /\ Len(Connections') = Len(Connections) - 1
          /\ ConnectionHasOnePlace'
      BY <1>1, <2>2, TakeFacts
    <3>2. PoolTypeOK'
      BY <1>0, <2>1, <2>2, <3>1 DEF PoolTypeOK
    <3>3. NoLostWakeup'
      BY <1>a, <1>b, <2>1, <2>2, <3>1 DEF NoLostWakeup
    <3> QED
      BY <3>1, <3>2, <3>3
  <2>3. CASE /\ Connections = <<>> /\ waiting' = waiting \cup {s}
             /\ UNCHANGED <<Connections, lent>>
    <3>1. PoolTypeOK'
      BY <1>0, <1>1, <2>1, <2>3 DEF PoolTypeOK
    <3>2. NoLostWakeup'
      BY <1>a, <1>b, <2>1, <2>3 DEF NoLostWakeup
    <3>3. ConnectionHasOnePlace'
      BY <2>3 DEF ConnectionHasOnePlace
    <3> QED
      BY <3>1, <3>2, <3>3
  <2> QED
    BY <1>1, <2>2, <2>3 DEF Pop
<1>2. CASE lent[s] = NoConn /\ Recheck(s)
  <2>1. s \in woken /\ woken' = woken \ {s} /\ notifying' = notifying
    BY <1>2 DEF Recheck
  <2>a. Cardinality(woken') = Cardinality(woken) - 1
    BY <1>0, <2>1, Removed
  <2>2. CASE Take(s) /\ UNCHANGED waiting
    <3>1. /\ Connections' \in Seq(Pool) /\ lent' \in [Sessions -> Pool \cup {NoConn}]
          /\ Len(Connections') = Len(Connections) - 1
          /\ ConnectionHasOnePlace'
      BY <1>2, <2>2, TakeFacts
    <3>2. PoolTypeOK'
      BY <1>0, <2>1, <2>2, <3>1 DEF PoolTypeOK
    <3>3. NoLostWakeup'
      BY <1>a, <1>b, <2>1, <2>a, <2>2, <3>1 DEF NoLostWakeup
    <3> QED
      BY <3>1, <3>2, <3>3
  <2>3. CASE /\ Connections = <<>> /\ waiting' = waiting \cup {s}
             /\ UNCHANGED <<Connections, lent>>
    <3>1. PoolTypeOK'
      BY <1>0, <2>1, <2>3 DEF PoolTypeOK
    <3>a. woken' \in SUBSET Sessions
      BY <1>0, <2>1
    <3>b. Cardinality(woken') \in Nat
      BY <3>a, PoolAssumption, FS_Subset, FS_CardinalityType
    <3>2. NoLostWakeup'
      BY <1>a, <1>b, <2>1, <3>b, <2>3 DEF NoLostWakeup
    <3>3. ConnectionHasOnePlace'
      BY <2>3 DEF ConnectionHasOnePlace
    <3> QED
      BY <3>1, <3>2, <3>3
  <2> QED
    BY <1>2, <2>2, <2>3 DEF Recheck
<1>3. CASE s \notin notifying /\ Push(s)
  <2>1. UNCHANGED <<waiting, woken>> /\ notifying' = notifying \cup {s}
    BY <1>3 DEF Push
  <2>2. Cardinality(notifying') = Cardinality(notifying) + 1
    BY <1>0, <1>3, <2>1, Added
  <2>3. /\ Connections' \in Seq(Pool) /\ lent' \in [Sessions -> Pool \cup {NoConn}]
        /\ Len(Connections') = Len(Connections) + 1
        /\ ConnectionHasOnePlace'
    BY <1>3, PushFacts
  <2>4. PoolTypeOK'
    BY <1>0, <2>1, <2>3 DEF PoolTypeOK
  <2>5. NoLostWakeup'
    BY <1>a, <1>b, <2>1, <2>2, <2>3 DEF NoLostWakeup
  <2> QED
    BY <2>3, <2>4, <2>5
<1>4. CASE NotifyOne(s)
  <2>1. /\ s \in notifying /\ notifying' = notifying \ {s}
        /\ UNCHANGED <<Connections, lent>>
    BY <1>4 DEF NotifyOne
  <2>2. Cardinality(notifying') = Cardinality(notifying) - 1
    BY <1>0, <2>1, Removed
  <2>3. ConnectionHasOnePlace'
    BY <2>1 DEF ConnectionHasOnePlace
  <2>4. CASE waiting = {} /\ UNCHANGED <<waiting, woken>>
    BY <1>0, <2>1, <2>3, <2>4 DEF PoolTypeOK, NoLostWakeup
  <2>5. ASSUME NEW w \in waiting, waiting' = waiting \ {w}, woken' = woken \cup {w}
        PROVE  PoolTypeOK' /\ NoLostWakeup'
    <3>1. Cardinality(woken') = Cardinality(woken) + 1
      BY <1>0, <2>5, Added
    <3>2. PoolTypeOK'
      BY <1>0, <2>1, <2>5 DEF PoolTypeOK
    <3>3. NoLostWakeup'
      BY <1>a, <1>b, <2>1, <2>2, <2>5, <3>1 DEF NoLostWakeup
    <3> QED
      BY <3>2, <3>3
  <2> QED
    BY <1>4, <2>3, <2>4, <2>5 DEF NotifyOne
<1>5. CASE SpuriousWakeup(s)
  <2>1. /\ s \in waiting /\ waiting' = waiting \ {s} /\ woken' = woken \cup {s}
        /\ UNCHANGED <<Connections, lent, notifying>>
    BY <1>5 DEF SpuriousWakeup
  <2>2. Cardinality(woken') = Cardinality(woken) + 1
    BY <1>0, <2>1, Added
  <2>3. PoolTypeOK'
    BY <1>0, <2>1 DEF PoolTypeOK
  <2>4. NoLostWakeup'
    BY <1>a, <1>b, <2>1, <2>2 DEF NoLostWakeup
  <2>5. ConnectionHasOnePlace'
    BY <2>1 DEF ConnectionHasOnePlace
  <2> QED
    BY <2>3, <2>4, <2>5
<1> QED
  BY <1>1, <1>2, <1>3, <1>4, <1>5 DEF PoolStep

-------------------------------------------------------------------------------
(* The handlers and the table *)

Rest == TableTypeOK /\ HandlerTypeOK /\ FlowOK /\ LocksOK

\* the handler of s has a connection
Busy(s) == pc[s] \notin {"idle", "pop", "notify"}

LEMMA DirectionsOf ==
  ASSUME NEW s \in Sessions, call[s] \in Calls
  PROVE  In(s) \in Directions /\ Out(s) \in Directions
BY OwnersAreUsers DEF In, Out, Me, Calls, Directions

LEMMA StartingRows ==
  ASSUME Init
  PROVE  \E status \in [Directions -> {"none", "pending", "accepted"}] :
           rows = [d \in Directions |->
                     IF status[d] = "none" THEN NoRow ELSE [id |-> 1, status |-> status[d]]]
BY TablesAreStatuses DEF Init, Statuses

LEMMA RestStarts == Init => Rest
<1> SUFFICES ASSUME Init PROVE Rest
  OBVIOUS
<1>1. PICK status \in [Directions -> {"none", "pending", "accepted"}] :
        rows = [d \in Directions |->
                  IF status[d] = "none" THEN NoRow ELSE [id |-> 1, status |-> status[d]]]
  BY StartingRows
<1>2. rows \in [Directions -> Row]
  BY <1>1 DEF Row, NoRow
<1>4. TableTypeOK
  BY <1>2 DEF Init, TableTypeOK
<1>5. HandlerTypeOK
  BY DEF Init, HandlerTypeOK, Stages
<1>6. FlowOK
  BY DEF Init, PoolInit, FlowOK
<1>7. LocksOK
  BY DEF Init, LocksOK
<1> QED
  BY <1>4, <1>5, <1>6, <1>7 DEF Rest

LEMMA FailKeeps ==
  ASSUME NEW s \in Sessions, Rest, Busy(s), Fail(s)
  PROVE  Rest'
<1>1. TableTypeOK'
  BY DEF Rest, TableTypeOK, Fail
<1>2. HandlerTypeOK'
  <2>1. <<>> \in Seq(Change)
    BY EmptySeq
  <2> QED
    BY <2>1 DEF Rest, HandlerTypeOK, Fail, Goto, Stages
<1>3. FlowOK'
  BY DEF Rest, HandlerTypeOK, FlowOK, Fail, Goto, Busy, poolVars
<1>4. LocksOK'
  BY DEF Rest, HandlerTypeOK, TableTypeOK, LocksOK, Fail, Goto
<1> QED
  BY <1>1, <1>2, <1>3, <1>4 DEF Rest

LEMMA ContinueKeeps ==
  ASSUME NEW s \in Sessions, Rest, Busy(s), pc[s] # "flush",
         NEW stage \in Stages \ {"idle", "pop", "notify"}, Continue(s, stage),
         changes' \in [Sessions -> Seq(Change)]
  PROVE  Rest'
<1>1. TableTypeOK'
  BY DEF Rest, TableTypeOK, Continue, table
<1>2. HandlerTypeOK'
  BY DEF Rest, HandlerTypeOK, Continue, Goto
<1>3. FlowOK'
  BY DEF Rest, HandlerTypeOK, FlowOK, Continue, Goto, Busy, poolVars, table
<1>4. LocksOK'
  BY DEF Rest, HandlerTypeOK, LocksOK, Continue, Goto, table
<1> QED
  BY <1>1, <1>2, <1>3, <1>4 DEF Rest

LEMMA PlanKeeps ==
  ASSUME NEW s \in Sessions, Rest, NEW op \in {"insert", "update", "delete"},
         NEW d \in Directions, NEW id \in Nat, Plan(s, op, d, id)
  PROVE  changes' \in [Sessions -> Seq(Change)]
<1>1. [op |-> op, at |-> d, id |-> id] \in Change
  BY DEF Change
<1>2. changes \in [Sessions -> Seq(Change)]
  BY DEF Rest, HandlerTypeOK
<1>3. Append(changes[s], [op |-> op, at |-> d, id |-> id]) \in Seq(Change)
  BY <1>1, <1>2, AppendProperties
<1> QED
  BY <1>2, <1>3 DEF Plan

LEMMA SaveChangesKeeps ==
  ASSUME NEW s \in Sessions, Rest, Busy(s), pc[s] # "flush", SaveChanges(s),
         changes' \in [Sessions -> Seq(Change)]
  PROVE  Rest'
<1>0. loose' \subseteq loose \cup {s} /\ loose \subseteq loose'
  BY DEF SaveChanges
<1>1. TableTypeOK'
  BY <1>0 DEF Rest, TableTypeOK, SaveChanges
<1>2. HandlerTypeOK'
  BY DEF Rest, HandlerTypeOK, SaveChanges, Goto, Stages
<1>3. FlowOK'
  BY <1>0 DEF Rest, HandlerTypeOK, FlowOK, SaveChanges, Goto, Busy, poolVars
<1>4. LocksOK'
  BY <1>0 DEF Rest, HandlerTypeOK, LocksOK, SaveChanges, Goto
<1> QED
  BY <1>1, <1>2, <1>3, <1>4 DEF Rest

\* A SELECT finds a row
LEMMA FoundRow ==
  ASSUME Rest, NEW d \in Directions, NEW row \in Found(d)
  PROVE  row \in Row /\ row.id \in Nat
<1>1. row \in Row
  BY DEF Rest, TableTypeOK, Found, Row
<1> QED
  BY <1>1 DEF Row, NoRow

\* A statement of SaveChanges that has gone through, writing d or nothing
LEMMA WriteKeeps ==
  ASSUME NEW s \in Sessions, Rest, MayExecute(s), Executed(s),
         NEW d \in Directions, NEW row \in Row, lock[d] = Free,
         \/ Writes(s, d, row)
         \/ UNCHANGED <<rows, lock, written>>,
         inserts' \in [Directions -> Nat]
  PROVE  Rest'
<1>0. /\ lock \in [Directions -> Sessions \cup {Free}]
      /\ written \in [Sessions -> SUBSET Writing]
      /\ rows \in [Directions -> Row] /\ loose' = loose /\ pc' = pc
  BY DEF Rest, TableTypeOK, Executed
<1>1. [at |-> d, row |-> row] \in Writing
  BY DEF Writing
<1>2. TableTypeOK'
  <2>1. rows' \in [Directions -> Row]
    BY <1>0 DEF Writes
  <2> QED
    BY <1>0, <1>1, <2>1 DEF Rest, TableTypeOK, Writes
<1>3. HandlerTypeOK'
  <2>1. changes[s] \in Seq(Change) /\ changes[s] # <<>>
    BY DEF Rest, HandlerTypeOK, MayExecute
  <2>2. Tail(changes[s]) \in Seq(Change)
    BY <2>1, HeadTailProperties
  <2> QED
    BY <2>2 DEF Rest, HandlerTypeOK, Executed
<1>4. FlowOK'
  BY DEF Rest, FlowOK, Executed, poolVars
<1>5. LocksOK'
  <2>1. CASE Writes(s, d, row) /\ s \notin loose
    <3> SUFFICES ASSUME NEW e \in Directions, lock'[e] # Free
                 PROVE  /\ pc[lock'[e]] = "flush" /\ lock'[e] \notin loose
                        /\ \E w \in written'[lock'[e]] : w.at = e
      BY <1>0 DEF LocksOK
    <3>1. \A r \in Sessions : written[r] \subseteq written'[r]
      BY <1>0, <2>1 DEF Writes
    <3>2. CASE e = d
      <4>1. lock'[e] = s /\ [at |-> d, row |-> row] \in written'[s]
        BY <1>0, <2>1, <3>2 DEF Writes
      <4> QED
        BY <2>1, <3>2, <4>1 DEF MayExecute
    <3>3. CASE e # d
      <4>1. lock'[e] = lock[e] /\ lock[e] \in Sessions
        BY <1>0, <2>1, <3>3 DEF Writes
      <4>2. /\ pc[lock[e]] = "flush" /\ lock[e] \notin loose
            /\ \E w \in written[lock[e]] : w.at = e
        BY <4>1 DEF Rest, LocksOK
      <4> QED
        BY <3>1, <4>1, <4>2
    <3> QED
      BY <3>2, <3>3
  <2>2. CASE UNCHANGED <<lock, written>>
    BY <1>0, <2>2 DEF Rest, LocksOK
  <2> QED
    BY <2>1, <2>2 DEF Writes
<1> QED
  BY <1>2, <1>3, <1>4, <1>5 DEF Rest

LEMMA InsertStaysKeeps ==
  ASSUME NEW s \in Sessions, Rest, Busy(s), NEW d \in Directions, d = NextChange(s).at,
         InsertStays(s)
  PROVE  Rest'
<1>0. inserts[d] \in Nat /\ NewRow(d) \in Row
  BY DEF Rest, TableTypeOK, NewRow, Row
<1>1. TableTypeOK'
  BY <1>0 DEF Rest, TableTypeOK, InsertStays
<1>2. HandlerTypeOK'
  <2>1. <<>> \in Seq(Change)
    BY EmptySeq
  <2> QED
    BY <2>1 DEF Rest, HandlerTypeOK, InsertStays, Goto, Stages
<1>3. FlowOK'
  BY DEF Rest, HandlerTypeOK, FlowOK, InsertStays, Goto, Busy, poolVars
<1>4. LocksOK'
  <2>1. \A e \in Directions : lock[e] # s
    BY OwnersAreUsers DEF Rest, LocksOK, InsertStays
  <2> QED
    BY <2>1 DEF Rest, HandlerTypeOK, TableTypeOK, LocksOK, InsertStays, Goto
<1> QED
  BY <1>1, <1>2, <1>3, <1>4 DEF Rest

Kept(s) == Rest' /\ (UNCHANGED poolVars \/ PoolStep(s))

\* Fail and Continue do not touch the pool
LEMMA FailKept ==
  ASSUME NEW s \in Sessions, Rest, Busy(s), Fail(s)
  PROVE  Kept(s)
<1>1. UNCHANGED poolVars
  BY DEF Fail
<1> QED
  BY <1>1, FailKeeps DEF Kept

LEMMA ContinueKept ==
  ASSUME NEW s \in Sessions, Rest, Busy(s), pc[s] # "flush",
         NEW stage \in {"reverse", "removeOut"}, Continue(s, stage),
         changes' \in [Sessions -> Seq(Change)]
  PROVE  Kept(s)
<1>1. UNCHANGED poolVars
  BY DEF Continue
<1>2. stage \in Stages \ {"idle", "pop", "notify"}
  BY DEF Stages
<1> QED
  BY <1>1, <1>2, ContinueKeeps DEF Kept

LEMMA SaveChangesKept ==
  ASSUME NEW s \in Sessions, Rest, Busy(s), pc[s] # "flush", SaveChanges(s),
         changes' \in [Sessions -> Seq(Change)]
  PROVE  Kept(s)
<1>1. UNCHANGED poolVars
  BY DEF SaveChanges
<1> QED
  BY <1>1, SaveChangesKeeps DEF Kept

LEMMA BorrowKeeps ==
  ASSUME NEW s \in Sessions, Rest, PoolTypeOK, ConnectionHasOnePlace, Borrow(s)
  PROVE  Kept(s)
<1>0. /\ pc[s] = "pop" /\ UNCHANGED <<rows, inserts, lock, written, loose, call, changes, reply, calls>>
      /\ pc \in [Sessions -> Stages]
  BY DEF Borrow, table, Rest, HandlerTypeOK
<1>1. lent[s] = NoConn
  BY <1>0 DEF Rest, FlowOK
<1>2. PoolStep(s)
  BY <1>1 DEF Borrow, PoolStep
<1>3. /\ notifying' = notifying
      /\ \/ Take(s)
         \/ UNCHANGED lent
      /\ \A r \in Sessions \ {s} : r \in waiting' \cup woken' <=> r \in waiting \cup woken
      /\ lent'[s] # NoConn => s \notin waiting' \cup woken'
  <2>1. CASE s \notin waiting \cup woken /\ Pop(s)
    BY <1>1, <2>1 DEF Pop
  <2>2. CASE Recheck(s)
    BY <1>1, <2>2 DEF Recheck, PoolTypeOK
  <2> QED
    BY <2>1, <2>2 DEF Borrow
<1>4. \A r \in Sessions \ {s} : lent'[r] = lent[r]
  BY <1>1, <1>3, TakeFacts
<1>5. FirstSelect(s) \in Stages \ {"idle", "pop", "notify", "flush"}
  BY DEF FirstSelect, Stages
<1>6. pc' = IF lent'[s] = NoConn THEN pc ELSE [pc EXCEPT ![s] = FirstSelect(s)]
  BY DEF Borrow, Goto
<1>7. TableTypeOK'
  BY <1>0 DEF Rest, TableTypeOK
<1>8. HandlerTypeOK'
  BY <1>0, <1>5, <1>6 DEF Rest, HandlerTypeOK
<1>9. FlowOK'
  <2> SUFFICES ASSUME NEW r \in Sessions
               PROVE  /\ lent'[r] = NoConn <=> pc'[r] \in {"idle", "pop", "notify"}
                      /\ r \in waiting' \cup woken' => pc'[r] = "pop"
                      /\ r \in notifying' => pc'[r] = "notify"
                      /\ pc'[r] \notin {"idle", "notify"} => call'[r] \in Calls
                      /\ r \in loose' => pc'[r] = "flush"
    BY DEF FlowOK
  <2>1. CASE r = s
    BY <1>0, <1>3, <1>5, <1>6, <2>1 DEF Rest, FlowOK
  <2>2. CASE r # s
    BY <1>0, <1>3, <1>4, <1>6, <2>2 DEF Rest, FlowOK
  <2> QED
    BY <2>1, <2>2
<1>10. LocksOK'
  BY <1>0, <1>6 DEF Rest, LocksOK
<1> QED
  BY <1>2, <1>7, <1>8, <1>9, <1>10 DEF Rest, Kept

LEMMA ReturningKeeps ==
  ASSUME NEW s \in Sessions, Rest, PoolTypeOK, ConnectionHasOnePlace,
         Answer(s) \/ Return(s)
  PROVE  Kept(s)
<1>0. /\ UNCHANGED <<rows, inserts, lock, written, loose, changes, calls>>
      /\ pc \in [Sessions -> Stages] /\ call \in [Sessions -> Calls \cup {NoCall}]
  BY DEF Answer, Return, table, Rest, HandlerTypeOK
<1>1. TableTypeOK'
  BY <1>0 DEF Rest, TableTypeOK
<1>2. HandlerTypeOK'
  BY <1>0 DEF Answer, Return, Goto, Rest, HandlerTypeOK, Stages
<1>3. LocksOK'
  <2>1. pc[s] # "flush" /\ \A r \in Sessions \ {s} : pc'[r] = pc[r]
    BY <1>0 DEF Answer, Return, Goto
  <2>2. lock \in [Directions -> Sessions \cup {Free}]
    BY DEF Rest, TableTypeOK
  <2> QED
    BY <1>0, <2>1, <2>2 DEF Rest, LocksOK
<1>4. CASE Answer(s)
  <2>1. s \notin notifying /\ PoolStep(s)
    BY <1>4 DEF Answer, PoolStep, Rest, FlowOK
  <2>2. /\ lent'[s] = NoConn /\ \A r \in Sessions \ {s} : lent'[r] = lent[r]
        /\ UNCHANGED <<waiting, woken>> /\ notifying' = notifying \cup {s}
    BY <1>4, PushFacts DEF Answer, Push
  <2>3. /\ pc' = [pc EXCEPT ![s] = "notify"] /\ call' = [call EXCEPT ![s] = NoCall]
        /\ pc[s] = "answer"
    BY <1>4 DEF Answer, Goto
  <2>4. FlowOK'
    BY <1>0, <2>2, <2>3 DEF Rest, FlowOK
  <2> QED
    BY <1>1, <1>2, <1>3, <2>1, <2>4 DEF Rest, Kept
<1>5. CASE Return(s)
  <2>1. PoolStep(s)
    BY <1>5 DEF Return, PoolStep
  <2>2. /\ UNCHANGED <<lent, call>> /\ notifying' = notifying \ {s}
        /\ waiting' \cup woken' \subseteq waiting \cup woken
    BY <1>5 DEF Return, NotifyOne
  <2>3. pc' = [pc EXCEPT ![s] = "idle"] /\ pc[s] = "notify"
    BY <1>5 DEF Return, Goto
  <2>4. FlowOK'
    BY <1>0, <2>2, <2>3 DEF Rest, FlowOK
  <2> QED
    BY <1>1, <1>2, <1>3, <2>1, <2>4 DEF Rest, Kept
<1> QED
  BY <1>4, <1>5

LEMMA SelectKeeps ==
  ASSUME NEW s \in Sessions, Rest,
         \/ FindFails(s) \/ SelectSame(s) \/ SelectReverse(s) \/ SelectIncoming(s)
         \/ SelectRemoveIn(s) \/ SelectRemoveOut(s)
  PROVE  Kept(s)
<1>0. pc[s] \in {"same", "reverse", "incoming", "removeIn", "removeOut"}
  BY DEF FindFails, FirstSelect, SelectSame, SelectReverse, SelectIncoming,
         SelectRemoveIn, SelectRemoveOut
<1>1. Busy(s) /\ pc[s] # "flush"
  BY <1>0 DEF Busy
<1>2. call[s] \in Calls
  BY <1>0 DEF Rest, FlowOK
<1>3. In(s) \in Directions /\ Out(s) \in Directions
  BY <1>2, DirectionsOf
<1>4. changes \in [Sessions -> Seq(Change)]
  BY DEF Rest, HandlerTypeOK
<1>5. CASE Fail(s)
  BY <1>1, <1>5, FailKept
<1>6. CASE FindFails(s)
  BY <1>5, <1>6 DEF FindFails
<1>7. CASE SelectSame(s)
  <2>1. Fail(s) \/ (Continue(s, "reverse") /\ UNCHANGED changes)
    BY <1>7 DEF SelectSame
  <2> QED
    BY <1>1, <1>4, <1>5, <2>1, ContinueKept
<1>8. CASE SelectReverse(s)
  <2>1. Fail(s) \/ (SaveChanges(s) /\ Plan(s, "insert", Out(s), 0))
    BY <1>8 DEF SelectReverse
  <2>2. Plan(s, "insert", Out(s), 0) => changes' \in [Sessions -> Seq(Change)]
    BY <1>3, PlanKeeps
  <2> QED
    BY <1>1, <1>5, <2>1, <2>2, SaveChangesKept
<1>9. CASE SelectIncoming(s)
  <2>1. PICK row \in Found(In(s)) :
          IF row.status # "pending" THEN Fail(s)
          ELSE /\ SaveChanges(s)
               /\ Plan(s, IF call[s].kind = "accept" THEN "update" ELSE "delete", In(s), row.id)
    BY <1>9 DEF SelectIncoming
  <2>2. row.id \in Nat
    BY <1>3, FoundRow
  <2> DEFINE op == IF call[s].kind = "accept" THEN "update" ELSE "delete"
  <2>3. op \in {"insert", "update", "delete"}
    OBVIOUS
  <2> HIDE DEF op
  <2>4. Plan(s, op, In(s), row.id) => changes' \in [Sessions -> Seq(Change)]
    BY <1>3, <2>2, <2>3, PlanKeeps
  <2>5. Fail(s) \/ (SaveChanges(s) /\ Plan(s, op, In(s), row.id))
    BY <2>1 DEF op
  <2> QED
    BY <1>1, <1>5, <2>4, <2>5, SaveChangesKept
<1>10. CASE SelectRemoveIn(s)
  <2>1. PICK row \in Found(In(s)) :
          /\ Continue(s, "removeOut")
          /\ IF row.status = "accepted" THEN Plan(s, "delete", In(s), row.id)
                                        ELSE UNCHANGED changes
    BY <1>10 DEF SelectRemoveIn
  <2>2. row.id \in Nat
    BY <1>3, FoundRow
  <2>3. Plan(s, "delete", In(s), row.id) => changes' \in [Sessions -> Seq(Change)]
    BY <1>3, <2>2, PlanKeeps
  <2> QED
    BY <1>1, <1>4, <2>1, <2>3, ContinueKept
<1>11. CASE SelectRemoveOut(s)
  <2>1. PICK row \in Found(Out(s)) :
          IF row.status = "accepted"
          THEN SaveChanges(s) /\ Plan(s, "delete", Out(s), row.id)
          ELSE IF changes[s] = <<>> THEN Fail(s)
          ELSE SaveChanges(s) /\ UNCHANGED changes
    BY <1>11 DEF SelectRemoveOut
  <2>2. row.id \in Nat
    BY <1>3, FoundRow
  <2>3. Plan(s, "delete", Out(s), row.id) => changes' \in [Sessions -> Seq(Change)]
    BY <1>3, <2>2, PlanKeeps
  <2> QED
    BY <1>1, <1>4, <1>5, <2>1, <2>3, SaveChangesKept
<1> QED
  BY <1>6, <1>7, <1>8, <1>9, <1>10, <1>11

LEMMA FlushKeeps ==
  ASSUME NEW s \in Sessions, Rest,
         \/ Insert(s) \/ Update(s) \/ Delete(s) \/ InsertStays(s)
         \/ IsVictim(s) \/ StatementFails(s) \/ Commit(s)
  PROVE  Kept(s)
<1>0. pc[s] = "flush" /\ Busy(s)
  BY DEF Insert, Update, Delete, InsertStays, IsVictim, WaitsFor, StatementFails, Commit,
         MayExecute, Busy
<1>1. call[s] \in Calls /\ changes \in [Sessions -> Seq(Change)]
  BY <1>0 DEF Rest, FlowOK, HandlerTypeOK
<1>2. changes[s] # <<>> => NextChange(s) \in Change
  BY <1>1, HeadTailProperties DEF NextChange
<1>3. /\ rows \in [Directions -> Row] /\ inserts \in [Directions -> Nat]
      /\ lock \in [Directions -> Sessions \cup {Free}]
      /\ written \in [Sessions -> SUBSET Writing] /\ loose \in SUBSET Sessions
  BY DEF Rest, TableTypeOK
<1>4. CASE Fail(s)
  BY <1>0, <1>4, FailKept
<1>5. Executed(s) => UNCHANGED poolVars
  BY DEF Executed
<1>6. CASE Insert(s)
  <2> DEFINE d == NextChange(s).at
             row == NewRow(d)
  <2>1. MayExecute(s) /\ NextChange(s) \in Change
    BY <1>2, <1>6 DEF Insert, MayExecute
  <2>2. d \in Directions /\ inserts[d] \in Nat
    BY <1>3, <2>1 DEF Change
  <2>3. row \in Row
    BY <2>2 DEF Row, NewRow
  <2>4. lock[d] = Free
    BY <1>6, <2>1 DEF Insert, MayExecute, Blocker
  <2>5. CASE /\ Writes(s, d, row) /\ inserts' = [inserts EXCEPT ![d] = @ + 1] /\ Executed(s)
    <3>1. inserts' \in [Directions -> Nat]
      BY <1>3, <2>2, <2>5
    <3> QED
      BY <1>5, <2>1, <2>2, <2>3, <2>4, <2>5, <3>1, WriteKeeps DEF Kept
  <2> QED
    BY <1>4, <1>6, <2>5 DEF Insert
<1>7. CASE Update(s)
  <2> DEFINE d == NextChange(s).at
             row == [id |-> NextChange(s).id, status |-> "accepted"]
  <2>1. MayExecute(s) /\ NextChange(s) \in Change
    BY <1>2, <1>7 DEF Update, MayExecute
  <2>2. d \in Directions /\ row \in Row
    BY <2>1 DEF Change, Row
  <2>3. CASE /\ rows[d] = [id |-> NextChange(s).id, status |-> "pending"]
             /\ Writes(s, d, row) /\ Executed(s) /\ UNCHANGED inserts
    <3>1. lock[d] = Free
      BY <2>1, <2>3 DEF MayExecute, Blocker
    <3> QED
      BY <1>3, <1>5, <2>1, <2>2, <2>3, <3>1, WriteKeeps DEF Kept
  <2> QED
    BY <1>4, <1>7, <2>3 DEF Update
<1>8. CASE Delete(s)
  <2> DEFINE d == NextChange(s).at
  <2>1. MayExecute(s) /\ NextChange(s) \in Change
    BY <1>2, <1>8 DEF Delete, MayExecute
  <2>2. d \in Directions /\ NoRow \in Row
    BY <2>1 DEF Change, Row
  <2>3. Executed(s) /\ UNCHANGED inserts
    BY <1>8 DEF Delete
  <2>4. CASE rows[d].id # NextChange(s).id /\ UNCHANGED <<rows, lock, written>>
    <3>1. TableTypeOK'
      BY <1>3, <2>3, <2>4 DEF TableTypeOK, Executed
    <3>2. HandlerTypeOK'
      <4>1. Tail(changes[s]) \in Seq(Change)
        BY <1>1, <2>1, HeadTailProperties DEF MayExecute
      <4> QED
        BY <2>3, <4>1 DEF Rest, HandlerTypeOK, Executed
    <3>3. FlowOK' /\ LocksOK'
      BY <2>3, <2>4 DEF Rest, FlowOK, LocksOK, Executed, poolVars
    <3> QED
      BY <1>5, <2>3, <3>1, <3>2, <3>3 DEF Rest, Kept
  <2>5. CASE rows[d].id = NextChange(s).id /\ Writes(s, d, NoRow)
    <3>1. lock[d] = Free
      BY <2>1, <2>5 DEF MayExecute, Blocker
    <3> QED
      BY <1>3, <1>5, <2>1, <2>2, <2>3, <2>5, <3>1, WriteKeeps DEF Kept
  <2> QED
    BY <1>8, <2>4, <2>5 DEF Delete
<1>9. CASE IsVictim(s) \/ StatementFails(s)
  BY <1>4, <1>9 DEF IsVictim, StatementFails
<1>11. CASE InsertStays(s)
  <2>1. NextChange(s).at \in Directions /\ UNCHANGED poolVars
    BY <1>2, <1>11 DEF InsertStays, MayExecute, Change
  <2> QED
    BY <1>0, <1>11, <2>1, InsertStaysKeeps DEF Kept
<1>10. CASE Commit(s)
  <2>1. \A d \in Directions : lock[d] = s => \E w \in written[s] : w.at = d
    BY <1>3, OwnersAreUsers DEF Rest, LocksOK
  <2>2. \A d \in Directions :
          lock[d] = s => (CHOOSE w \in written[s] : w.at = d).row \in Row
    BY <1>3, <2>1 DEF Writing
  <2>3. /\ rows' \in {rows, Committed(s)} /\ loose' = loose \ {s}
        /\ lock' = [d \in Directions |-> IF lock[d] = s THEN Free ELSE lock[d]]
        /\ written' = [written EXCEPT ![s] = {}]
        /\ UNCHANGED <<poolVars, inserts, call, changes, calls>>
        /\ reply' = [reply EXCEPT ![s] = "ok"] /\ pc' = [pc EXCEPT ![s] = "answer"]
    BY <1>10 DEF Commit, Goto
  <2>4. rows' \in [Directions -> Row]
    BY <1>3, <2>2, <2>3 DEF Committed
  <2>5. TableTypeOK'
    BY <1>3, <2>3, <2>4 DEF TableTypeOK
  <2>6. HandlerTypeOK'
    BY <2>3 DEF Rest, HandlerTypeOK, Stages
  <2>7. FlowOK'
    BY <1>0, <2>3 DEF Rest, HandlerTypeOK, FlowOK, poolVars
  <2>8. LocksOK'
    BY <1>3, <2>3 DEF Rest, HandlerTypeOK, LocksOK
  <2> QED
    BY <2>3, <2>5, <2>6, <2>7, <2>8 DEF Rest, Kept
<1> QED
  BY <1>6, <1>7, <1>8, <1>9, <1>10, <1>11

-------------------------------------------------------------------------------
(* The invariants *)

LEMMA InvStep ==
  ASSUME Inv, [Next]_vars
  PROVE  Inv'
<1>0. Rest
  BY DEF Inv, Rest
<1>1. ASSUME NEW s \in Sessions, Kept(s)
      PROVE  Inv'
  <2>1. CASE UNCHANGED poolVars
    <3>1. PoolTypeOK' /\ NoLostWakeup' /\ ConnectionHasOnePlace'
      BY <2>1 DEF Inv, poolVars, PoolTypeOK, NoLostWakeup, ConnectionHasOnePlace
    <3> QED
      BY <1>1, <3>1 DEF Inv, Rest, Kept
  <2>2. CASE PoolStep(s)
    <3>1. PoolTypeOK' /\ NoLostWakeup' /\ ConnectionHasOnePlace'
      BY <2>2, PoolStepKeeps DEF Inv
    <3> QED
      BY <1>1, <3>1 DEF Inv, Rest, Kept
  <2> QED
    BY <1>1, <2>1, <2>2 DEF Kept
<1>2. ASSUME NEW s \in Sessions, NEW c \in Calls, Ask(s, c)
      PROVE  Kept(s)
  <2>1. /\ UNCHANGED <<poolVars, table, changes, reply>> /\ pc[s] = "idle"
        /\ pc' = [pc EXCEPT ![s] = "pop"] /\ call' = [call EXCEPT ![s] = c]
        /\ calls' = calls + 1
    BY <1>2 DEF Ask, Goto
  <2>2. TableTypeOK'
    BY <1>0, <2>1 DEF Rest, TableTypeOK, table
  <2>3. HandlerTypeOK'
    BY <1>0, <2>1 DEF Rest, HandlerTypeOK, Stages
  <2>4. FlowOK'
    BY <1>0, <2>1 DEF Rest, HandlerTypeOK, FlowOK, poolVars, table
  <2>5. LocksOK'
    BY <1>0, <2>1 DEF Rest, HandlerTypeOK, TableTypeOK, LocksOK, table
  <2> QED
    BY <2>1, <2>2, <2>3, <2>4, <2>5 DEF Rest, Kept
<1>3. ASSUME NEW s \in Sessions, Wakeup(s)
      PROVE  Kept(s)
  <2>1. /\ UNCHANGED <<table, pc, call, changes, reply, calls>>
        /\ UNCHANGED <<lent, notifying>> /\ waiting' \cup woken' = waiting \cup woken
        /\ PoolStep(s)
    BY <1>3 DEF Wakeup, SpuriousWakeup, PoolStep
  <2>2. TableTypeOK' /\ HandlerTypeOK' /\ LocksOK'
    BY <1>0, <2>1 DEF Rest, TableTypeOK, HandlerTypeOK, LocksOK, table
  <2>3. FlowOK'
    BY <1>0, <2>1 DEF Rest, FlowOK, table
  <2> QED
    BY <2>1, <2>2, <2>3 DEF Rest, Kept
<1>4. ASSUME NEW s \in Sessions, Works(s) \/ Breaks(s)
      PROVE  Kept(s)
  <2>1. PoolTypeOK /\ ConnectionHasOnePlace
    BY DEF Inv
  <2> QED
    BY <1>0, <1>4, <2>1, BorrowKeeps, SelectKeeps, FlushKeeps, ReturningKeeps
       DEF Works, Breaks
<1>5. CASE Next
  BY <1>1, <1>2, <1>3, <1>4, <1>5 DEF Next
<1>6. CASE UNCHANGED vars
  <2>1. UNCHANGED poolVars /\ UNCHANGED table /\ UNCHANGED <<pc, call, changes, reply, calls>>
    BY <1>6 DEF vars
  <2>2. PoolTypeOK' /\ NoLostWakeup' /\ ConnectionHasOnePlace'
    BY <2>1 DEF Inv, poolVars, PoolTypeOK, NoLostWakeup, ConnectionHasOnePlace
  <2>3. TableTypeOK' /\ HandlerTypeOK' /\ FlowOK' /\ LocksOK'
    BY <1>0, <2>1 DEF Rest, TableTypeOK, HandlerTypeOK, FlowOK, LocksOK, poolVars, table
  <2> QED
    BY <2>2, <2>3 DEF Inv
<1> QED
  BY <1>5, <1>6

THEOREM SpecInv == Spec => []Inv
<1>1. Init => Inv
  BY PoolStarts, RestStarts DEF Init, Inv, Rest
<1>2. Inv /\ [Next]_vars => Inv'
  BY InvStep
<1> QED
  BY <1>1, <1>2, PTL DEF Spec

\* Every variable keeps its type, for any users, sessions and connections.
THEOREM SpecTypeOK == Spec => []TypeOK
<1>1. Inv => TypeOK
  BY DEF Inv, TableTypeOK, HandlerTypeOK, TypeOK
<1> QED
  BY <1>1, SpecInv, PTL

\* The condition variable of the pool loses no wake-up.
THEOREM SpecNoLostWakeup == Spec => []NoLostWakeup
<1>1. Inv => NoLostWakeup
  BY DEF Inv
<1> QED
  BY <1>1, SpecInv, PTL

\* No connection is lost or lent twice.
THEOREM SpecConnectionHasOnePlace == Spec => []ConnectionHasOnePlace
<1>1. Inv => ConnectionHasOnePlace
  BY DEF Inv
<1> QED
  BY <1>1, SpecInv, PTL

\* Row locks are held in SaveChanges only, by a handler with a connection.
THEOREM SpecLocksAreBorrowed == Spec => []LocksAreBorrowed
<1>1. Inv => LocksAreBorrowed
  <2> SUFFICES ASSUME Inv, NEW d \in Directions, lock[d] # Free
               PROVE  lent[lock[d]] # NoConn /\ pc[lock[d]] = "flush"
    BY DEF LocksAreBorrowed
  <2>1. lock[d] \in Sessions /\ pc[lock[d]] = "flush"
    BY DEF Inv, TableTypeOK, LocksOK
  <2> QED
    BY <2>1 DEF Inv, FlowOK
<1> QED
  BY <1>1, SpecInv, PTL

-------------------------------------------------------------------------------
(* What a handler has planned and written, and the rows it has read *)

Removal(d, id) == [op |-> "delete", at |-> d, id |-> id]
Written(d, row) == [at |-> d, row |-> row]

\* An id is used once in a direction; a row that is not there has none.
RowsOK == \A d \in Directions : rows[d] = NoRow \/ rows[d].id \in 1 .. inserts[d]

\* A handler has seen row id of direction d as a friendship: a row with that
\* id, if there still is one, is a friendship, and no INSERT will use the id.
Seen(d, id) ==
  /\ id \in 1 .. inserts[d]
  /\ lock[d] # Free /\ call[lock[d]].kind = "request" => id < inserts[d]
  /\ rows[d].id = id => rows[d].status = "accepted"

\* the only session of its user
Single(s) == \A r \in Sessions : Owner[r] = Owner[s] => r = s

RequestPlan(s) ==
  \/ /\ changes[s] = <<[op |-> "insert", at |-> Out(s), id |-> 0]>>
     /\ written[s] = {}
  \/ /\ changes[s] = <<>>
     /\ written[s] = {Written(Out(s), [id |-> inserts[Out(s)], status |-> "pending"])}
     /\ lock[Out(s)] = s
     /\ rows[Out(s)] = NoRow /\ inserts[Out(s)] # 0

AcceptPlan(s) ==
  \E id \in Nat :
    \/ /\ changes[s] = <<[op |-> "update", at |-> In(s), id |-> id]>>
       /\ written[s] = {}
    \/ /\ changes[s] = <<>>
       /\ written[s] = {Written(In(s), [id |-> id, status |-> "accepted"])}
       /\ lock[In(s)] = s
       /\ rows[In(s)] = [id |-> id, status |-> "pending"]

\* Only another session of the user can answer the request in the meantime.
RejectPlan(s) ==
  \E id \in Nat :
    /\ Single(s) => rows[In(s)] = [id |-> id, status |-> "pending"]
    /\ \/ changes[s] = <<Removal(In(s), id)>> /\ written[s] = {}
       \/ changes[s] = <<>> /\ written[s] = {} /\ ~Single(s)
       \/ /\ changes[s] = <<>>
          /\ written[s] = {Written(In(s), NoRow)}
          /\ lock[In(s)] = s

\* The row of the other user's request is deleted first.
RemovePlan(s) ==
  /\ \/ changes[s] = <<>>
     \/ \E d \in {In(s), Out(s)}, id \in Nat :
          changes[s] = <<Removal(d, id)>> /\ Seen(d, id)
     \/ \E id, next \in Nat :
          /\ changes[s] = <<Removal(In(s), id), Removal(Out(s), next)>>
          /\ Seen(In(s), id) /\ Seen(Out(s), next)
  /\ written[s] \subseteq {Written(In(s), NoRow), Written(Out(s), NoRow)}
  /\ \A w \in written[s] : lock[w.at] = s /\ rows[w.at].status = "accepted"
  /\ changes[s] # <<>> /\ written[s] # {} =>
       written[s] = {Written(In(s), NoRow)} /\ NextChange(s).at = Out(s)

FlushPlan(s) ==
  CASE call[s].kind = "request" -> RequestPlan(s)
    [] call[s].kind = "accept"  -> AcceptPlan(s)
    [] call[s].kind = "reject"  -> RejectPlan(s)
    [] call[s].kind = "remove"  -> RemovePlan(s)

PlanOK(s) ==
  /\ pc[s] \in {"idle", "notify"} => call[s] = NoCall
  /\ pc[s] = "answer" <=> reply[s] # "none"
  /\ pc[s] \notin {"removeOut", "flush"} => changes[s] = <<>>
  /\ pc[s] # "flush" \/ s \in loose => written[s] = {}
  /\ pc[s] \in {"same", "reverse"} => call[s].kind = "request"
  /\ pc[s] = "incoming" => call[s].kind \in {"accept", "reject"}
  /\ pc[s] \in {"removeIn", "removeOut"} => call[s].kind = "remove"
  /\ call[s] # NoCall => call[s].other # Me(s)
  /\ pc[s] = "removeOut" =>
       \/ changes[s] = <<>>
       \/ \E id \in Nat : changes[s] = <<Removal(In(s), id)>> /\ Seen(In(s), id)
  /\ pc[s] = "flush" => FlushPlan(s) \/ (s \in loose /\ changes[s] = <<>>)

BookInv == Inv /\ RowsOK /\ \A s \in Sessions : PlanOK(s)

\* What the commit of s makes of a row it has locked
CommitRow(s, d) ==
  \/ /\ call[s].kind = "request" /\ rows[d] = NoRow /\ inserts[d] # 0
     /\ rows'[d] = [id |-> inserts[d], status |-> "pending"]
  \/ /\ call[s].kind = "accept" /\ d = In(s) /\ rows[d].status = "pending"
     /\ rows'[d] = [id |-> rows[d].id, status |-> "accepted"]
  \/ call[s].kind = "reject" /\ d = In(s) /\ rows'[d] = NoRow
  \/ call[s].kind = "remove" /\ rows[d].status = "accepted" /\ rows'[d] = NoRow

\* ... and a statement in autocommit mode of a row that nobody has locked
DirectRow(s, d) ==
  \/ /\ inserts'[d] = inserts[d] /\ call[s].kind # "request" /\ CommitRow(s, d)
  \/ /\ inserts'[d] = inserts[d] + 1 /\ rows[d] = NoRow
     /\ rows'[d] = [id |-> inserts[d] + 1, status |-> "pending"]

\* What a step of s does to a row: its lock, an INSERT, or a commit
RowStep(s, d) ==
  /\ lock'[d] = s => call'[s] = call[s]
  /\ \/ /\ rows'[d] = rows[d] /\ inserts'[d] = inserts[d]
        /\ \/ lock'[d] \in {lock[d], Free}
           \/ lock'[d] = s /\ call[s].kind # "request"
     \/ rows'[d] = rows[d] /\ inserts'[d] = inserts[d] + 1 /\ lock[d] = Free
     \/ /\ lock[d] = s /\ lock'[d] = Free /\ inserts'[d] = inserts[d]
        /\ CommitRow(s, d)
     \/ lock[d] = Free /\ lock'[d] = Free /\ DirectRow(s, d)

\* The other handlers keep their frames and their locks.
OthersAlone(s) ==
  \A r \in Sessions \ {s} :
    /\ pc'[r] = pc[r] /\ call'[r] = call[r] /\ changes'[r] = changes[r]
    /\ written'[r] = written[r] /\ reply'[r] = reply[r]
    /\ r \in loose' <=> r \in loose
    /\ \A d \in Directions : lock'[d] = r <=> lock[d] = r

Moves(s) == OthersAlone(s) /\ (\A d \in Directions : RowStep(s, d)) /\ PlanOK(s)'

\* Nobody can make something else of a row that was seen than its removal.
LEMMA SeenKept ==
  ASSUME Rest, NEW s \in Sessions, OthersAlone(s), NEW d \in Directions, RowStep(s, d),
         NEW id \in Nat, Seen(d, id)
  PROVE  Seen(d, id)'
<1>1. /\ inserts[d] \in Nat /\ lock[d] \in Sessions \cup {Free} /\ Free \notin Sessions
      /\ id \in 1 .. inserts[d]
      /\ rows[d].id = id => rows[d].status = "accepted"
      /\ lock[d] # Free /\ call[lock[d]].kind = "request" => id < inserts[d]
  BY OwnersAreUsers DEF Rest, TableTypeOK, Seen
<1>2. \A r \in Sessions \ {s} : call'[r] = call[r]
  BY DEF OthersAlone
<1>3. CASE /\ rows'[d] = rows[d] /\ inserts'[d] = inserts[d]
           /\ lock'[d] \in {lock[d], Free}
  BY <1>1, <1>2, <1>3 DEF RowStep, Seen
<1>4. CASE /\ rows'[d] = rows[d] /\ inserts'[d] = inserts[d]
           /\ lock'[d] = s /\ call[s].kind # "request"
  BY <1>1, <1>4 DEF RowStep, Seen
<1>5. CASE rows'[d] = rows[d] /\ inserts'[d] = inserts[d] + 1
  <2>1. id \in 1 .. inserts'[d] /\ id < inserts'[d]
    BY <1>1, <1>5
  <2> QED
    BY <1>1, <1>5, <2>1 DEF Seen
<1>6. CASE /\ lock[d] = s /\ lock'[d] = Free /\ inserts'[d] = inserts[d]
           /\ CommitRow(s, d)
  <2>1. CASE call[s].kind = "request"
    <3>1. rows'[d].id = inserts[d] /\ id < inserts[d]
      BY <1>1, <1>6, <2>1 DEF CommitRow
    <3> QED
      BY <1>1, <1>6, <3>1 DEF Seen
  <2>2. CASE call[s].kind # "request"
    <3>1. rows'[d] = NoRow \/ rows'[d].status = "accepted"
      BY <1>6, <2>2 DEF CommitRow
    <3>2. rows'[d].id = id => rows'[d].status = "accepted"
      BY <1>1, <3>1 DEF NoRow
    <3> QED
      BY <1>1, <1>6, <3>2 DEF Seen
  <2> QED
    BY <2>1, <2>2
<1>7. CASE lock'[d] = Free /\ DirectRow(s, d)
  <2>1. CASE /\ inserts'[d] = inserts[d] /\ call[s].kind # "request" /\ CommitRow(s, d)
    <3>1. rows'[d] = NoRow \/ rows'[d].status = "accepted"
      BY <2>1 DEF CommitRow
    <3>2. rows'[d].id = id => rows'[d].status = "accepted"
      BY <1>1, <3>1 DEF NoRow
    <3> QED
      BY <1>1, <1>7, <2>1, <3>2 DEF Seen
  <2>2. CASE inserts'[d] = inserts[d] + 1 /\ rows'[d].id = inserts[d] + 1
    BY <1>1, <1>7, <2>2 DEF Seen
  <2> QED
    BY <1>7, <2>1, <2>2 DEF DirectRow
<1> QED
  BY <1>3, <1>4, <1>5, <1>6, <1>7 DEF RowStep

\* The plans of the others stay what they are.
LEMMA PlanKept ==
  ASSUME Rest, NEW s \in Sessions, OthersAlone(s), \A d \in Directions : RowStep(s, d),
         NEW r \in Sessions \ {s}, PlanOK(r)
  PROVE  PlanOK(r)'
<1>1. /\ pc'[r] = pc[r] /\ call'[r] = call[r] /\ changes'[r] = changes[r]
      /\ written'[r] = written[r] /\ reply'[r] = reply[r]
      /\ r \in loose' <=> r \in loose
      /\ \A d \in Directions : lock'[d] = r <=> lock[d] = r
  BY DEF OthersAlone
<1>2. In(r)' = In(r) /\ Out(r)' = Out(r) /\ Me(r)' = Me(r) /\ Single(r)' = Single(r)
  BY <1>1 DEF In, Out, Me, Single
<1>a. PICK in, out : in = In(r) /\ out = Out(r)
  OBVIOUS
<1>3. NextChange(r)' = NextChange(r)
  BY <1>1 DEF NextChange
<1>4. ASSUME NEW d \in Directions, lock[d] = r
      PROVE  lock'[d] = r /\ rows'[d] = rows[d] /\ inserts'[d] = inserts[d]
  <2>1. RowStep(s, d) /\ lock[d] # s /\ lock[d] # Free
    BY <1>4, OwnersAreUsers
  <2> QED
    BY <1>1, <1>4, <2>1 DEF RowStep
<1>5. pc[r] \notin {"idle", "notify"} => In(r) \in Directions /\ Out(r) \in Directions
  BY DirectionsOf DEF Rest, FlowOK
<1>6. ASSUME NEW d \in Directions, NEW id \in Nat, Seen(d, id)
      PROVE  Seen(d, id)'
  BY <1>6, SeenKept
<1>7. ASSUME pc[r] = "flush", FlushPlan(r)
      PROVE  FlushPlan(r)'
  <2>0. FlushPlan(r) /\ In(r) \in Directions /\ Out(r) \in Directions
    BY <1>5, <1>7
  <2>1. CASE call[r].kind = "request"
    <3>1. RequestPlan(r)
      BY <2>0, <2>1 DEF FlushPlan
    <3>2. RequestPlan(r)'
      BY <1>1, <1>2, <1>4, <2>0, <3>1 DEF RequestPlan, Written
    <3> QED
      BY <1>1, <2>1, <3>2 DEF FlushPlan
  <2>2. CASE call[r].kind = "accept"
    <3>1. AcceptPlan(r)
      BY <2>0, <2>2 DEF FlushPlan
    <3>2. AcceptPlan(r)'
      BY <1>1, <1>2, <1>4, <2>0, <3>1 DEF AcceptPlan, Written
    <3> QED
      BY <1>1, <2>2, <3>2 DEF FlushPlan
  <2>3. CASE call[r].kind = "reject"
    <3>1. PICK id \in Nat :
            /\ Single(r) => rows[In(r)] = [id |-> id, status |-> "pending"]
            /\ \/ changes[r] = <<Removal(In(r), id)>> /\ written[r] = {}
               \/ changes[r] = <<>> /\ written[r] = {} /\ ~Single(r)
               \/ /\ changes[r] = <<>>
                  /\ written[r] = {Written(In(r), NoRow)}
                  /\ lock[In(r)] = r
      BY <2>0, <2>3 DEF FlushPlan, RejectPlan
    <3>2. Single(r) => rows'[In(r)] = rows[In(r)]
      <4> SUFFICES ASSUME Single(r), rows'[In(r)] # rows[In(r)]
                   PROVE  FALSE
        OBVIOUS
      <4>0. rows[In(r)] = [id |-> id, status |-> "pending"] /\ rows[In(r)] # NoRow
        BY <3>1 DEF NoRow
      <4>1. CommitRow(s, In(r)) /\ rows[In(r)] = [id |-> id, status |-> "pending"]
        BY <2>0, <4>0 DEF RowStep, DirectRow
      <4>2. rows[In(r)].status = "pending" /\ rows[In(r)] # NoRow
        BY <4>1 DEF NoRow
      <4>3. In(s) = In(r)
        BY <4>1, <4>2 DEF CommitRow
      <4>4. Owner[s] = Owner[r]
        BY <4>3 DEF In, Me
      <4> QED
        BY <4>4 DEF Single
    <3>3. RejectPlan(r)'
      BY <1>1, <1>2, <1>4, <2>0, <3>1, <3>2 DEF RejectPlan, Written, Removal
    <3> QED
      BY <1>1, <2>3, <3>3 DEF FlushPlan
  <2>4. CASE call[r].kind = "remove"
    <3>1. RemovePlan(r)
      BY <2>0, <2>4 DEF FlushPlan
    <3>2. \/ changes'[r] = <<>>
          \/ \E d \in {in, out}, id \in Nat :
               changes'[r] = <<Removal(d, id)>> /\ Seen(d, id)'
          \/ \E id, next \in Nat :
               /\ changes'[r] = <<Removal(in, id), Removal(out, next)>>
               /\ Seen(in, id)' /\ Seen(out, next)'
      <4>1. \/ changes[r] = <<>>
            \/ \E d \in {in, out}, id \in Nat :
                 changes[r] = <<Removal(d, id)>> /\ Seen(d, id)
            \/ \E id, next \in Nat :
                 /\ changes[r] = <<Removal(in, id), Removal(out, next)>>
                 /\ Seen(in, id) /\ Seen(out, next)
        BY <1>a, <3>1 DEF RemovePlan
      <4> QED
        BY <1>1, <1>6, <1>a, <2>0, <4>1
    <3>3. \A w \in written'[r] : lock'[w.at] = r /\ rows'[w.at].status = "accepted"
      <4> SUFFICES ASSUME NEW w \in written[r]
                   PROVE  lock'[w.at] = r /\ rows'[w.at].status = "accepted"
        BY <1>1
      <4>1. lock[w.at] = r /\ rows[w.at].status = "accepted"
        BY <3>1 DEF RemovePlan
      <4>2. w.at \in Directions
        BY DEF Rest, TableTypeOK, Writing
      <4> QED
        BY <1>4, <4>1, <4>2
    <3>4. RemovePlan(r)'
      BY <1>1, <1>2, <1>3, <1>a, <3>1, <3>2, <3>3 DEF RemovePlan, Written, Removal
    <3> QED
      BY <1>1, <2>4, <3>4 DEF FlushPlan
  <2>5. call[r].kind \in {"request", "accept", "reject", "remove"}
    BY <1>7 DEF Rest, FlowOK, Calls, Kinds
  <2> QED
    BY <2>1, <2>2, <2>3, <2>4, <2>5
<1>8. ASSUME pc[r] = "removeOut", NEW id \in Nat, Seen(in, id)
      PROVE  Seen(in, id)'
  BY <1>5, <1>6, <1>8, <1>a
<1>9. pc[r] = "removeOut" =>
        \/ changes'[r] = <<>>
        \/ \E id \in Nat : changes'[r] = <<Removal(in, id)>> /\ Seen(in, id)'
  BY <1>1, <1>8, <1>a DEF PlanOK
<1> QED
  BY <1>1, <1>2, <1>7, <1>9, <1>a DEF PlanOK, Removal

\* Ids stay ids of rows that were inserted.
LEMMA RowsKept ==
  ASSUME Rest, RowsOK, NEW s \in Sessions, \A d \in Directions : RowStep(s, d)
  PROVE  RowsOK'
<1> SUFFICES ASSUME NEW d \in Directions
             PROVE  rows'[d] = NoRow \/ rows'[d].id \in 1 .. inserts'[d]
  BY DEF RowsOK
<1>1. /\ inserts[d] \in Nat /\ RowStep(s, d)
      /\ rows[d] = NoRow \/ rows[d].id \in 1 .. inserts[d]
  BY DEF Rest, TableTypeOK, RowsOK
<1>2. CASE rows'[d] = rows[d] /\ inserts'[d] \in {inserts[d], inserts[d] + 1}
  BY <1>1, <1>2
<1>3. CASE inserts'[d] = inserts[d] /\ CommitRow(s, d)
  <2>1. CASE rows[d] = NoRow /\ inserts[d] # 0 /\ rows'[d].id = inserts[d]
    BY <1>1, <1>3, <2>1
  <2>2. CASE rows[d].status = "pending" /\ rows'[d].id = rows[d].id
    <3>1. rows[d] # NoRow
      BY <2>2 DEF NoRow
    <3> QED
      BY <1>1, <1>3, <2>2, <3>1
  <2>3. CASE rows'[d] = NoRow
    BY <2>3
  <2> QED
    BY <1>3, <2>1, <2>2, <2>3 DEF CommitRow
<1>4. CASE inserts'[d] = inserts[d] + 1 /\ rows'[d] = [id |-> inserts[d] + 1, status |-> "pending"]
  BY <1>1, <1>4
<1> QED
  BY <1>1, <1>2, <1>3, <1>4 DEF RowStep, DirectRow

\* A step that only moves on in the handler
LEMMA QuietMoves ==
  ASSUME Rest, NEW s \in Sessions, UNCHANGED <<rows, inserts, lock, written>>,
         call'[s] = call[s] \/ pc[s] # "flush",
         \A r \in Sessions \ {s} : /\ pc'[r] = pc[r] /\ call'[r] = call[r]
                                   /\ changes'[r] = changes[r] /\ reply'[r] = reply[r]
                                   /\ r \in loose' <=> r \in loose
  PROVE  OthersAlone(s) /\ \A d \in Directions : RowStep(s, d)
<1>1. OthersAlone(s)
  BY DEF OthersAlone
<1>2. ASSUME NEW d \in Directions
      PROVE  RowStep(s, d)
  <2>1. lock[d] = s => pc[s] = "flush"
    BY OwnersAreUsers DEF Rest, LocksOK
  <2> QED
    BY <2>1 DEF RowStep
<1> QED
  BY <1>1, <1>2

LEMMA FailMoves ==
  ASSUME Rest, NEW s \in Sessions, Busy(s), PlanOK(s), Fail(s)
  PROVE  Moves(s)
<1>1. /\ pc' = [pc EXCEPT ![s] = "answer"] /\ reply' = [reply EXCEPT ![s] = "fail"]
      /\ changes' = [changes EXCEPT ![s] = <<>>] /\ written' = [written EXCEPT ![s] = {}]
      /\ lock' = [d \in Directions |-> IF lock[d] = s THEN Free ELSE lock[d]]
      /\ loose' = loose \ {s} /\ UNCHANGED <<rows, inserts, call>>
  BY DEF Fail, Goto
<1>2. /\ pc'[s] = "answer" /\ reply'[s] = "fail" /\ changes'[s] = <<>> /\ written'[s] = {}
      /\ \A r \in Sessions \ {s} : /\ pc'[r] = pc[r] /\ changes'[r] = changes[r]
                                   /\ written'[r] = written[r] /\ reply'[r] = reply[r]
  BY <1>1 DEF Rest, HandlerTypeOK, TableTypeOK
<1>3. OthersAlone(s)
  BY <1>1, <1>2, OwnersAreUsers DEF OthersAlone
<1>4. \A d \in Directions : RowStep(s, d)
  BY <1>1, OwnersAreUsers DEF RowStep
<1>5. call[s].other # Me(s)
  <2>1. call[s] # NoCall
    BY NoCallIsNone DEF Rest, FlowOK, Busy
  <2> QED
    BY <2>1 DEF PlanOK
<1>6. PlanOK(s)'
  BY <1>1, <1>2, <1>5 DEF PlanOK, Me
<1> QED
  BY <1>3, <1>4, <1>6 DEF Moves

LEMMA AskMoves ==
  ASSUME Rest, NEW s \in Sessions, PlanOK(s), NEW c \in Calls, Ask(s, c)
  PROVE  Moves(s)
<1>1. /\ pc[s] = "idle" /\ c.other # Me(s)
      /\ call' = [call EXCEPT ![s] = c] /\ pc' = [pc EXCEPT ![s] = "pop"]
      /\ UNCHANGED <<rows, inserts, lock, written, loose, changes, reply>>
  BY DEF Ask, Goto, table
<1>2. /\ pc'[s] = "pop" /\ call'[s] = c
      /\ \A r \in Sessions \ {s} : pc'[r] = pc[r] /\ call'[r] = call[r]
  BY <1>1 DEF Rest, HandlerTypeOK
<1>3. OthersAlone(s) /\ \A d \in Directions : RowStep(s, d)
  BY <1>1, <1>2, QuietMoves
<1>4. PlanOK(s)'
  <2>1. changes[s] = <<>> /\ written[s] = {} /\ reply[s] = "none"
    BY <1>1 DEF PlanOK
  <2>2. /\ changes'[s] = <<>> /\ written'[s] = {} /\ reply'[s] = "none"
        /\ call'[s].other # Me(s)
    BY <1>1, <1>2, <2>1
  <2> QED
    BY <1>2, <2>2 DEF PlanOK, Me
<1> QED
  BY <1>3, <1>4 DEF Moves

LEMMA BorrowMoves ==
  ASSUME Rest, NEW s \in Sessions, PlanOK(s), Borrow(s)
  PROVE  Moves(s)
<1>1. /\ pc[s] = "pop"
      /\ UNCHANGED <<rows, inserts, lock, written, loose, call, changes, reply>>
      /\ pc' \in {pc, [pc EXCEPT ![s] = FirstSelect(s)]}
  BY DEF Borrow, Goto, table
<1>2. call[s] \in Calls /\ call[s].kind \in Kinds
  BY <1>1 DEF Rest, FlowOK, Calls
<1>3. /\ FirstSelect(s) \in {"same", "incoming", "removeIn"}
      /\ FirstSelect(s) = "same" => call[s].kind = "request"
      /\ FirstSelect(s) = "incoming" => call[s].kind \in {"accept", "reject"}
      /\ FirstSelect(s) = "removeIn" => call[s].kind = "remove"
  BY <1>2 DEF FirstSelect, Kinds
<1>4. /\ pc'[s] \in {"pop", FirstSelect(s)}
      /\ \A r \in Sessions \ {s} : pc'[r] = pc[r]
  BY <1>1 DEF Rest, HandlerTypeOK
<1>5. OthersAlone(s) /\ \A d \in Directions : RowStep(s, d)
  BY <1>1, <1>4, QuietMoves
<1>6. PlanOK(s)'
  BY <1>1, <1>2, <1>3, <1>4, NoCallIsNone DEF PlanOK, Me
<1> QED
  BY <1>5, <1>6 DEF Moves

LEMMA ReturningMoves ==
  ASSUME Rest, NEW s \in Sessions, PlanOK(s), Answer(s) \/ Return(s)
  PROVE  Moves(s)
<1>1. /\ UNCHANGED <<rows, inserts, lock, written, loose, changes>>
      /\ \/ /\ pc[s] = "answer" /\ pc' = [pc EXCEPT ![s] = "notify"]
            /\ reply' = [reply EXCEPT ![s] = "none"] /\ call' = [call EXCEPT ![s] = NoCall]
         \/ /\ pc[s] = "notify" /\ pc' = [pc EXCEPT ![s] = "idle"]
            /\ UNCHANGED <<reply, call>>
  BY DEF Answer, Return, Goto, table
<1>2. /\ pc[s] # "flush" /\ pc'[s] \in {"notify", "idle"}
      /\ call'[s] = NoCall /\ reply'[s] = "none"
      /\ \A r \in Sessions \ {s} : /\ pc'[r] = pc[r] /\ call'[r] = call[r]
                                   /\ reply'[r] = reply[r]
  BY <1>1 DEF Rest, HandlerTypeOK, PlanOK
<1>3. OthersAlone(s) /\ \A d \in Directions : RowStep(s, d)
  BY <1>1, <1>2, QuietMoves
<1>4. PlanOK(s)'
  BY <1>1, <1>2 DEF PlanOK
<1> QED
  BY <1>3, <1>4 DEF Moves

\* What a SELECT that finds a row knows of it
LEMMA FoundSeen ==
  ASSUME Rest, RowsOK, NEW d \in Directions, NEW row \in Found(d), row # NoRow
  PROVE  /\ row = rows[d] /\ lock[d] = Free /\ row.id \in 1 .. inserts[d]
         /\ row.status = "accepted" => Seen(d, row.id)
<1>1. row = rows[d] /\ lock[d] = Free
  BY DEF Found
<1> QED
  BY <1>1 DEF RowsOK, Seen

\* Going on in the handler, with what the step has planned
LEMMA ContinueMoves ==
  ASSUME Rest, NEW s \in Sessions, NEW stage \in Stages, Continue(s, stage),
         pc[s] \notin {"flush", "answer"}, NEW plan \in Seq(Change),
         changes' = [changes EXCEPT ![s] = plan]
  PROVE  /\ OthersAlone(s) /\ \A d \in Directions : RowStep(s, d)
         /\ pc'[s] = stage /\ changes'[s] = plan
         /\ UNCHANGED <<rows, inserts, lock, written, loose, call, reply>>
<1>1. UNCHANGED <<rows, inserts, lock, written, loose, call, reply>>
  BY DEF Continue, table
<1>2. /\ pc'[s] = stage /\ changes'[s] = plan
      /\ \A r \in Sessions \ {s} : pc'[r] = pc[r] /\ changes'[r] = changes[r]
  BY DEF Continue, Goto, Rest, HandlerTypeOK
<1>3. OthersAlone(s) /\ \A d \in Directions : RowStep(s, d)
  BY <1>1, <1>2, QuietMoves
<1> QED
  BY <1>1, <1>2, <1>3

\* Going on into SaveChanges
LEMMA SaveChangesMoves ==
  ASSUME Rest, NEW s \in Sessions, SaveChanges(s),
         pc[s] \notin {"flush", "answer"}, NEW plan \in Seq(Change),
         changes' = [changes EXCEPT ![s] = plan]
  PROVE  /\ OthersAlone(s) /\ \A d \in Directions : RowStep(s, d)
         /\ pc'[s] = "flush" /\ changes'[s] = plan
         /\ UNCHANGED <<rows, inserts, lock, written, call, reply>>
<1>1. UNCHANGED <<rows, inserts, lock, written, call, reply>>
  BY DEF SaveChanges
<1>2. /\ pc'[s] = "flush" /\ changes'[s] = plan
      /\ \A r \in Sessions \ {s} : /\ pc'[r] = pc[r] /\ changes'[r] = changes[r]
                                   /\ r \in loose' <=> r \in loose
  BY DEF SaveChanges, Goto, Rest, HandlerTypeOK
<1>3. OthersAlone(s) /\ \A d \in Directions : RowStep(s, d)
  BY <1>1, <1>2, QuietMoves
<1> QED
  BY <1>1, <1>2, <1>3

LEMMA OneOf ==
  ASSUME NEW S, NEW b, <<b>> \in Seq(S)
  PROVE  b \in S
OBVIOUS

LEMMA TwoOf ==
  ASSUME NEW S, NEW b \in S, NEW c \in S
  PROVE  Append(<<b>>, c) = <<b, c>>
<1>1. <<b>> \in Seq(S) /\ <<b, c>> \in Seq(S)
  OBVIOUS
<1>2. Len(<<b>>) = 1 /\ Len(<<b, c>>) = 2
  OBVIOUS
<1>3. /\ Append(<<b>>, c) \in Seq(S) /\ Len(Append(<<b>>, c)) = 2
      /\ Append(<<b>>, c)[1] = b /\ Append(<<b>>, c)[2] = c
  BY <1>1, <1>2, AppendProperties
<1>4. \A i \in 1 .. Len(Append(<<b>>, c)) : Append(<<b>>, c)[i] = <<b, c>>[i]
  BY <1>2, <1>3
<1> QED
  BY <1>1, <1>2, <1>3, <1>4, SeqEqual

\* A plan of one change, or of one more
LEMMA PlanIs ==
  ASSUME Rest, NEW s \in Sessions, NEW op \in {"insert", "update", "delete"},
         NEW d \in Directions, NEW id \in Nat, Plan(s, op, d, id),
         NEW c, c = [op |-> op, at |-> d, id |-> id]
  PROVE  /\ changes' = [changes EXCEPT ![s] = Append(changes[s], c)]
         /\ Append(changes[s], c) \in Seq(Change)
         /\ changes[s] = <<>> => Append(changes[s], c) = <<c>>
         /\ \A b : changes[s] = <<b>> => Append(changes[s], c) = <<b, c>>
<1>1. c \in Change
  BY DEF Change
<1>2. changes \in [Sessions -> Seq(Change)]
  BY DEF Rest, HandlerTypeOK
<1>3. Append(changes[s], c) \in Seq(Change)
  BY <1>1, <1>2, AppendProperties
<1>4. changes' = [changes EXCEPT ![s] = Append(changes[s], c)]
  BY <1>2 DEF Plan
<1>5. Append(<<>>, c) = <<c>>
  BY <1>1
<1>6. ASSUME NEW b, changes[s] = <<b>>
      PROVE  Append(<<b>>, c) = <<b, c>>
  <2>1. changes[s] \in Seq(Change)
    BY <1>2
  <2>2. <<b>> \in Seq(Change)
    BY <1>6, <2>1
  <2>3. b \in Change
    BY <2>2, OneOf
  <2> QED
    BY <1>1, <2>3, TwoOf
<1> QED
  BY <1>3, <1>4, <1>5, <1>6

LEMMA PlanOne ==
  ASSUME Rest, NEW s \in Sessions, NEW op \in {"insert", "update", "delete"},
         NEW d \in Directions, NEW id \in Nat, Plan(s, op, d, id),
         NEW c, c = [op |-> op, at |-> d, id |-> id], changes[s] = <<>>
  PROVE  changes' = [changes EXCEPT ![s] = <<c>>] /\ <<c>> \in Seq(Change)
<1>1. c \in Change
  BY DEF Change
<1>2. changes' = [changes EXCEPT ![s] = Append(<<>>, c)]
  BY DEF Plan
<1>3. Append(<<>>, c) = <<c>> /\ <<c>> \in Seq(Change)
  BY <1>1
<1> QED
  BY <1>2, <1>3

LEMMA SelectMoves ==
  ASSUME Rest, RowsOK, NEW s \in Sessions, PlanOK(s),
         \/ FindFails(s) \/ SelectSame(s) \/ SelectReverse(s) \/ SelectIncoming(s)
         \/ SelectRemoveIn(s) \/ SelectRemoveOut(s)
  PROVE  Moves(s)
<1>0. pc[s] \in {"same", "reverse", "incoming", "removeIn", "removeOut"}
  BY DEF FindFails, FirstSelect, SelectSame, SelectReverse, SelectIncoming,
         SelectRemoveIn, SelectRemoveOut
<1>1. Busy(s) /\ pc[s] \notin {"flush", "answer"}
  BY <1>0 DEF Busy
<1>2. call[s] \in Calls /\ call[s] # NoCall
  BY <1>0, NoCallIsNone DEF Rest, FlowOK
<1>3. In(s) \in Directions /\ Out(s) \in Directions
  BY <1>2, DirectionsOf
<1>4. /\ changes \in [Sessions -> Seq(Change)]
      /\ {"reverse", "removeOut", "flush"} \subseteq Stages
  BY DEF Rest, HandlerTypeOK, Stages
<1>5. CASE Fail(s)
  BY <1>1, <1>5, FailMoves
<1>6. CASE FindFails(s)
  BY <1>5, <1>6 DEF FindFails
<1>a. PICK in, out : in = In(s) /\ out = Out(s)
  OBVIOUS
<1>b. written[s] = {} /\ reply[s] = "none"
  BY <1>0 DEF PlanOK
<1>c. ASSUME UNCHANGED call
      PROVE  /\ In(s)' = in /\ Out(s)' = out /\ Me(s)' = Me(s)
             /\ In(s) = in /\ Out(s) = out
  BY <1>a, <1>c DEF In, Out, Me
<1>7. CASE SelectSame(s)
  <2>1. CASE Continue(s, "reverse") /\ UNCHANGED changes
    <3>1. changes[s] = <<>> /\ call[s].kind = "request" /\ call[s].other # Me(s)
      BY <1>2, <1>7 DEF SelectSame, PlanOK
    <3>2. changes' = [changes EXCEPT ![s] = changes[s]] /\ changes[s] \in Seq(Change)
      BY <1>4, <2>1
    <3>3. /\ OthersAlone(s) /\ \A d \in Directions : RowStep(s, d)
          /\ pc'[s] = "reverse" /\ changes'[s] = <<>>
          /\ UNCHANGED <<written, call, reply>>
      BY <1>1, <1>4, <2>1, <3>1, <3>2, ContinueMoves
    <3>4. PlanOK(s)'
      BY <1>b, <1>c, <3>1, <3>3 DEF PlanOK
    <3> QED
      BY <3>3, <3>4 DEF Moves
  <2> QED
    BY <1>5, <1>7, <2>1 DEF SelectSame
<1>8. CASE SelectReverse(s)
  <2>1. CASE SaveChanges(s) /\ Plan(s, "insert", Out(s), 0)
    <3>1. changes[s] = <<>> /\ call[s].kind = "request" /\ call[s].other # Me(s)
      BY <1>2, <1>8 DEF SelectReverse, PlanOK
    <3>c. PICK c : c = [op |-> "insert", at |-> out, id |-> 0]
      OBVIOUS
    <3>2. changes' = [changes EXCEPT ![s] = <<c>>] /\ <<c>> \in Seq(Change)
      <4>1. Plan(s, "insert", out, 0) /\ out \in Directions
        BY <1>3, <1>a, <2>1
      <4> QED
        BY <3>1, <3>c, <4>1, PlanOne
    <3>3. /\ OthersAlone(s) /\ \A d \in Directions : RowStep(s, d)
          /\ pc'[s] = "flush" /\ changes'[s] = <<c>>
          /\ UNCHANGED <<written, call, reply>>
      BY <1>1, <2>1, <3>2, SaveChangesMoves
    <3>4. FlushPlan(s)'
      BY <1>b, <1>c, <3>1, <3>3, <3>c DEF FlushPlan, RequestPlan
    <3>5. PlanOK(s)'
      BY <1>b, <1>c, <3>1, <3>3, <3>4 DEF PlanOK
    <3> QED
      BY <3>3, <3>5 DEF Moves
  <2> QED
    BY <1>5, <1>8, <2>1 DEF SelectReverse
<1>9. CASE SelectIncoming(s) /\ ~Fail(s)
  <2>1. PICK row \in Found(In(s)) :
          /\ row.status = "pending" /\ SaveChanges(s)
          /\ Plan(s, IF call[s].kind = "accept" THEN "update" ELSE "delete", In(s), row.id)
    BY <1>9 DEF SelectIncoming
  <2>2. row # NoRow
    BY <2>1 DEF NoRow
  <2>3. row = rows[in] /\ row.id \in Nat /\ row = [id |-> row.id, status |-> "pending"]
    <3>1. row = rows[in] /\ row \in Row /\ row.id \in Nat
      BY <1>3, <1>a, <2>2, FoundSeen, FoundRow
    <3> QED
      BY <2>1, <2>2, <3>1 DEF Row
  <2>4. PICK op : op = IF call[s].kind = "accept" THEN "update" ELSE "delete"
    OBVIOUS
  <2>5. op \in {"insert", "update", "delete"}
    BY <2>4
  <2>c. PICK c : c = [op |-> op, at |-> in, id |-> row.id]
    OBVIOUS
  <2>6. /\ changes[s] = <<>> /\ call[s].kind \in {"accept", "reject"}
        /\ call[s].other # Me(s)
    BY <1>2, <1>9 DEF SelectIncoming, PlanOK
  <2>7. changes' = [changes EXCEPT ![s] = <<c>>] /\ <<c>> \in Seq(Change)
    <3>1. Plan(s, op, in, row.id) /\ in \in Directions
      BY <1>3, <1>a, <2>1, <2>4
    <3> QED
      BY <2>3, <2>5, <2>6, <2>c, <3>1, PlanOne
  <2>8. /\ OthersAlone(s) /\ \A d \in Directions : RowStep(s, d)
        /\ pc'[s] = "flush" /\ changes'[s] = <<c>>
        /\ UNCHANGED <<rows, written, call, reply>>
    BY <1>1, <2>1, <2>7, SaveChangesMoves
  <2>9. FlushPlan(s)'
    <3>1. CASE call[s].kind = "accept"
      <4>1. AcceptPlan(s)'
        BY <1>b, <1>c, <2>3, <2>4, <2>8, <2>c, <3>1 DEF AcceptPlan
      <4> QED
        BY <2>8, <3>1, <4>1 DEF FlushPlan
    <3>2. CASE call[s].kind = "reject"
      <4>1. RejectPlan(s)'
        BY <1>b, <1>c, <2>3, <2>4, <2>8, <2>c, <3>2 DEF RejectPlan, Removal
      <4> QED
        BY <2>8, <3>2, <4>1 DEF FlushPlan
    <3> QED
      BY <2>6, <3>1, <3>2
  <2>10. PlanOK(s)'
    BY <1>b, <1>c, <2>6, <2>8, <2>9 DEF PlanOK
  <2> QED
    BY <2>8, <2>10 DEF Moves
<1>10. CASE SelectRemoveIn(s)
  <2>1. PICK row \in Found(In(s)) :
          /\ Continue(s, "removeOut")
          /\ IF row.status = "accepted" THEN Plan(s, "delete", In(s), row.id)
                                        ELSE UNCHANGED changes
    BY <1>10 DEF SelectRemoveIn
  <2>2. changes[s] = <<>> /\ call[s].kind = "remove" /\ call[s].other # Me(s)
    BY <1>2, <1>10 DEF SelectRemoveIn, PlanOK
  <2>3. PICK plan \in Seq(Change) :
          /\ changes' = [changes EXCEPT ![s] = plan]
          /\ \/ plan = <<>>
             \/ \E id \in Nat : plan = <<Removal(in, id)>> /\ Seen(in, id)
    <3>1. CASE row.status = "accepted"
      <4>1. row.id \in Nat /\ Seen(in, row.id)
        BY <1>3, <1>a, <3>1, FoundSeen, FoundRow DEF NoRow
      <4>2. /\ changes' = [changes EXCEPT ![s] = <<Removal(in, row.id)>>]
            /\ <<Removal(in, row.id)>> \in Seq(Change)
        <5>1. PICK c : c = Removal(in, row.id)
          OBVIOUS
        <5>2. Plan(s, "delete", in, row.id) /\ in \in Directions
          BY <1>3, <1>a, <2>1, <3>1
        <5> QED
          BY <2>2, <4>1, <5>1, <5>2, PlanOne DEF Removal
      <4> QED
        BY <4>1, <4>2
    <3>2. CASE row.status # "accepted"
      <4>1. changes' = [changes EXCEPT ![s] = changes[s]] /\ changes[s] \in Seq(Change)
        BY <1>4, <2>1, <3>2
      <4> QED
        BY <2>2, <4>1
    <3> QED
      BY <3>1, <3>2
  <2>4. /\ OthersAlone(s) /\ \A d \in Directions : RowStep(s, d)
        /\ pc'[s] = "removeOut" /\ changes'[s] = plan
        /\ UNCHANGED <<rows, inserts, lock, written, call, reply>>
    BY <1>1, <1>4, <2>1, <2>3, ContinueMoves
  <2>5. \/ changes'[s] = <<>>
        \/ \E id \in Nat : changes'[s] = <<Removal(in, id)>> /\ Seen(in, id)'
    BY <2>3, <2>4 DEF Seen
  <2>6. PlanOK(s)'
    BY <1>b, <1>c, <2>2, <2>4, <2>5 DEF PlanOK, Removal
  <2> QED
    BY <2>4, <2>6 DEF Moves
<1>11. CASE SelectRemoveOut(s) /\ ~Fail(s)
  <2>1. PICK row \in Found(Out(s)) :
          IF row.status = "accepted"
          THEN SaveChanges(s) /\ Plan(s, "delete", Out(s), row.id)
          ELSE changes[s] # <<>> /\ SaveChanges(s) /\ UNCHANGED changes
    BY <1>11 DEF SelectRemoveOut
  <2>2. /\ call[s].kind = "remove" /\ call[s].other # Me(s)
        /\ \/ changes[s] = <<>>
           \/ \E id \in Nat : changes[s] = <<Removal(in, id)>> /\ Seen(in, id)
    BY <1>2, <1>11, <1>a DEF SelectRemoveOut, PlanOK
  <2>3. PICK plan \in Seq(Change) :
          /\ changes' = [changes EXCEPT ![s] = plan]
          /\ \/ \E d \in {in, out}, id \in Nat : plan = <<Removal(d, id)>> /\ Seen(d, id)
             \/ \E id, next \in Nat : /\ plan = <<Removal(in, id), Removal(out, next)>>
                                      /\ Seen(in, id) /\ Seen(out, next)
    <3>1. CASE row.status = "accepted"
      <4>1. row.id \in Nat /\ Seen(out, row.id)
        BY <1>3, <1>a, <3>1, FoundSeen, FoundRow DEF NoRow
      <4>c. PICK c : c = Removal(out, row.id)
        OBVIOUS
      <4>2. /\ changes' = [changes EXCEPT ![s] = Append(changes[s], c)]
            /\ Append(changes[s], c) \in Seq(Change)
            /\ changes[s] = <<>> => Append(changes[s], c) = <<c>>
            /\ \A b : changes[s] = <<b>> => Append(changes[s], c) = <<b, c>>
        <5>1. Plan(s, "delete", out, row.id) /\ out \in Directions
          BY <1>3, <1>a, <2>1, <3>1
        <5> QED
          BY <4>1, <4>c, <5>1, PlanIs DEF Removal
      <4>3. CASE changes[s] = <<>>
        BY <4>1, <4>2, <4>3, <4>c
      <4>4. CASE \E id \in Nat : changes[s] = <<Removal(in, id)>> /\ Seen(in, id)
        BY <4>1, <4>2, <4>4, <4>c
      <4> QED
        BY <2>2, <4>3, <4>4
    <3>2. CASE row.status # "accepted"
      <4>1. changes' = [changes EXCEPT ![s] = changes[s]] /\ changes[s] \in Seq(Change)
        BY <1>4, <2>1, <3>2
      <4> QED
        BY <2>1, <2>2, <3>2, <4>1
    <3> QED
      BY <3>1, <3>2
  <2>4. /\ OthersAlone(s) /\ \A d \in Directions : RowStep(s, d)
        /\ pc'[s] = "flush" /\ changes'[s] = plan
        /\ UNCHANGED <<rows, inserts, lock, written, call, reply>>
    BY <1>1, <2>1, <2>3, SaveChangesMoves
  <2>5. \/ \E d \in {in, out}, id \in Nat :
             changes'[s] = <<Removal(d, id)>> /\ Seen(d, id)'
        \/ \E id, next \in Nat : /\ changes'[s] = <<Removal(in, id), Removal(out, next)>>
                                 /\ Seen(in, id)' /\ Seen(out, next)'
    BY <2>3, <2>4 DEF Seen
  <2>6. RemovePlan(s)'
    BY <1>b, <1>c, <2>4, <2>5 DEF RemovePlan, Removal
  <2>7. PlanOK(s)'
    BY <1>b, <1>c, <2>2, <2>4, <2>6 DEF PlanOK, FlushPlan
  <2> QED
    BY <2>4, <2>7 DEF Moves
<1> QED
  BY <1>5, <1>6, <1>7, <1>8, <1>9, <1>10, <1>11

\* A statement that writes row d: an INSERT, or a statement of another request
LEMMA WriteMoves ==
  ASSUME Rest, NEW s \in Sessions, s \notin loose, MayExecute(s), Executed(s),
         NEW d \in Directions, NEW row \in Row, lock[d] = Free, Writes(s, d, row),
         \/ UNCHANGED inserts /\ call[s].kind # "request"
         \/ \A e \in Directions : inserts'[e] = inserts[e] + (IF e = d THEN 1 ELSE 0)
  PROVE  /\ OthersAlone(s) /\ \A e \in Directions : RowStep(s, e)
         /\ UNCHANGED <<rows, loose, pc, call, reply>>
         /\ changes'[s] = Tail(changes[s])
         /\ written'[s] = written[s] \cup {Written(d, row)}
         /\ lock'[d] = s /\ \A e \in Directions \ {d} : lock'[e] = lock[e]
<1>1. UNCHANGED <<rows, loose, pc, call, reply>>
  BY DEF Executed, Writes
<1>2. /\ changes'[s] = Tail(changes[s])
      /\ \A r \in Sessions \ {s} : changes'[r] = changes[r]
  BY DEF Executed, Rest, HandlerTypeOK
<1>3. /\ written'[s] = written[s] \cup {Written(d, row)}
      /\ \A r \in Sessions \ {s} : written'[r] = written[r]
      /\ lock'[d] = s /\ \A e \in Directions \ {d} : lock'[e] = lock[e]
  BY DEF Writes, Written, Rest, TableTypeOK
<1>4. OthersAlone(s)
  BY <1>1, <1>2, <1>3, OwnersAreUsers DEF OthersAlone
<1>5. ASSUME NEW e \in Directions
      PROVE  RowStep(s, e)
  <2>1. \/ e = d /\ inserts'[e] = inserts[e] + 1
        \/ e = d /\ inserts'[e] = inserts[e] /\ call[s].kind # "request"
        \/ e # d /\ inserts'[e] = inserts[e]
    BY DEF Rest, TableTypeOK
  <2> QED
    BY <1>1, <1>3, <2>1 DEF RowStep
<1> QED
  BY <1>1, <1>2, <1>3, <1>4, <1>5

\* ... and one in autocommit mode
LEMMA DirectMoves ==
  ASSUME Rest, NEW s \in Sessions, Executed(s), NEW d \in Directions, lock[d] = Free,
         UNCHANGED <<lock, written>>, DirectRow(s, d),
         \A e \in Directions \ {d} : rows'[e] = rows[e] /\ inserts'[e] = inserts[e]
  PROVE  /\ OthersAlone(s) /\ \A e \in Directions : RowStep(s, e)
         /\ UNCHANGED <<lock, written, loose, pc, call, reply>>
         /\ changes'[s] = Tail(changes[s])
<1>1. UNCHANGED <<lock, written, loose, pc, call, reply>>
  BY DEF Executed
<1>2. /\ changes'[s] = Tail(changes[s])
      /\ \A r \in Sessions \ {s} : changes'[r] = changes[r]
  BY DEF Executed, Rest, HandlerTypeOK
<1>3. OthersAlone(s)
  BY <1>1, <1>2 DEF OthersAlone
<1>4. ASSUME NEW e \in Directions
      PROVE  RowStep(s, e)
  <2>1. CASE e = d
    BY <1>1, <2>1 DEF RowStep
  <2>2. CASE e # d
    BY <1>1, <2>2 DEF RowStep
  <2> QED
    BY <2>1, <2>2
<1> QED
  BY <1>1, <1>2, <1>3, <1>4

LEMMA HeadsAndTails ==
  ASSUME NEW S, NEW b \in S, NEW c \in S
  PROVE  /\ Head(<<b>>) = b /\ Tail(<<b>>) = <<>>
         /\ Head(<<b, c>>) = b /\ Tail(<<b, c>>) = <<c>>
OBVIOUS

\* The next statement, for each kind of request
NextInsert(s) ==
  /\ call[s].kind = "request" /\ written[s] = {}
  /\ NextChange(s) = [op |-> "insert", at |-> Out(s), id |-> 0]
  /\ Tail(changes[s]) = <<>>

NextUpdate(s) ==
  /\ call[s].kind = "accept" /\ written[s] = {}
  /\ \E id \in Nat : NextChange(s) = [op |-> "update", at |-> In(s), id |-> id]
  /\ Tail(changes[s]) = <<>>

NextReject(s) ==
  /\ call[s].kind = "reject" /\ written[s] = {}
  /\ \E id \in Nat : /\ NextChange(s) = Removal(In(s), id)
                     /\ Single(s) => rows[In(s)] = [id |-> id, status |-> "pending"]
  /\ Tail(changes[s]) = <<>>

NextRemove(s) ==
  /\ call[s].kind = "remove"
  /\ \E d \in {In(s), Out(s)}, id \in Nat : NextChange(s) = Removal(d, id) /\ Seen(d, id)
  /\ \/ Tail(changes[s]) = <<>>
     \/ /\ NextChange(s).at = In(s) /\ written[s] = {}
        /\ \E next \in Nat :
             Tail(changes[s]) = <<Removal(Out(s), next)>> /\ Seen(Out(s), next)
  /\ written[s] # {} => NextChange(s).at = Out(s)

LEMMA NextIs ==
  ASSUME Rest, NEW s \in Sessions, pc[s] = "flush", PlanOK(s), changes[s] # <<>>
  PROVE  NextInsert(s) \/ NextUpdate(s) \/ NextReject(s) \/ NextRemove(s)
<1>a. PICK in, out : in = In(s) /\ out = Out(s)
  OBVIOUS
<1>1. /\ FlushPlan(s) /\ call[s] \in Calls /\ call[s].other # Me(s)
      /\ in \in Directions /\ out \in Directions /\ in # out
  <2>1. call[s] \in Calls /\ call[s] # NoCall
    BY NoCallIsNone DEF Rest, FlowOK
  <2>2. FlushPlan(s) /\ call[s].other # Me(s)
    BY <2>1 DEF PlanOK
  <2>3. in # out
    BY <1>a, <2>2 DEF In, Out
  <2> QED
    BY <1>a, <2>1, <2>2, <2>3, DirectionsOf
<1>2. ASSUME NEW c \in Change, changes[s] = <<c>>
      PROVE  NextChange(s) = c /\ Tail(changes[s]) = <<>>
  BY <1>2, HeadsAndTails DEF NextChange
<1>3. ASSUME NEW b \in Change, NEW c \in Change, changes[s] = <<b, c>>
      PROVE  NextChange(s) = b /\ Tail(changes[s]) = <<c>>
  BY <1>3, HeadsAndTails DEF NextChange
<1>4. CASE call[s].kind = "request"
  <2>1. RequestPlan(s)
    BY <1>1, <1>4 DEF FlushPlan
  <2>c. PICK c : c = [op |-> "insert", at |-> out, id |-> 0]
    OBVIOUS
  <2>2. changes[s] = <<c>> /\ written[s] = {} /\ c \in Change
    BY <1>1, <1>a, <2>1, <2>c DEF RequestPlan, Change
  <2> QED
    BY <1>2, <1>4, <1>a, <2>2, <2>c DEF NextInsert
<1>5. CASE call[s].kind = "accept"
  <2>1. AcceptPlan(s)
    BY <1>1, <1>5 DEF FlushPlan
  <2>2. PICK id \in Nat : /\ changes[s] = <<[op |-> "update", at |-> in, id |-> id]>>
                          /\ written[s] = {}
    BY <1>a, <2>1 DEF AcceptPlan
  <2>c. PICK c : c = [op |-> "update", at |-> in, id |-> id]
    OBVIOUS
  <2>3. c \in Change /\ changes[s] = <<c>>
    BY <1>1, <2>2, <2>c DEF Change
  <2> QED
    BY <1>2, <1>5, <1>a, <2>2, <2>3, <2>c DEF NextUpdate
<1>6. CASE call[s].kind = "reject"
  <2>1. RejectPlan(s)
    BY <1>1, <1>6 DEF FlushPlan
  <2>2. PICK id \in Nat : /\ changes[s] = <<Removal(in, id)>> /\ written[s] = {}
                          /\ Single(s) => rows[in] = [id |-> id, status |-> "pending"]
    BY <1>a, <2>1 DEF RejectPlan
  <2>c. PICK c : c = Removal(in, id)
    OBVIOUS
  <2>3. c \in Change /\ changes[s] = <<c>>
    BY <1>1, <2>2, <2>c DEF Change, Removal
  <2> QED
    BY <1>2, <1>6, <1>a, <2>2, <2>3, <2>c DEF NextReject
<1>7. CASE call[s].kind = "remove"
  <2>1. RemovePlan(s)
    BY <1>1, <1>7 DEF FlushPlan
  <2>2. /\ \/ \E d \in {in, out}, id \in Nat :
                changes[s] = <<Removal(d, id)>> /\ Seen(d, id)
           \/ \E id, next \in Nat :
                /\ changes[s] = <<Removal(in, id), Removal(out, next)>>
                /\ Seen(in, id) /\ Seen(out, next)
        /\ written[s] # {} => NextChange(s).at = out
    BY <1>a, <2>1 DEF RemovePlan
  <2>3. CASE \E d \in {in, out}, id \in Nat :
               changes[s] = <<Removal(d, id)>> /\ Seen(d, id)
    <3>1. PICK d \in {in, out}, id \in Nat : changes[s] = <<Removal(d, id)>> /\ Seen(d, id)
      BY <2>3
    <3>c. PICK c : c = Removal(d, id)
      OBVIOUS
    <3>2. c \in Change /\ changes[s] = <<c>>
      BY <1>1, <3>1, <3>c DEF Change, Removal
    <3> QED
      BY <1>2, <1>7, <1>a, <2>2, <3>1, <3>2, <3>c DEF NextRemove
  <2>4. CASE \E id, next \in Nat :
               /\ changes[s] = <<Removal(in, id), Removal(out, next)>>
               /\ Seen(in, id) /\ Seen(out, next)
    <3>1. PICK id \in Nat, next \in Nat :
             /\ changes[s] = <<Removal(in, id), Removal(out, next)>>
             /\ Seen(in, id) /\ Seen(out, next)
      BY <2>4
    <3>c. PICK b, c : b = Removal(in, id) /\ c = Removal(out, next)
      OBVIOUS
    <3>2. b \in Change /\ c \in Change /\ b.at = in
      BY <1>1, <3>c DEF Change, Removal
    <3>3. NextChange(s) = b /\ Tail(changes[s]) = <<c>>
      BY <1>3, <3>1, <3>2, <3>c
    <3> QED
      BY <1>1, <1>7, <1>a, <2>2, <3>1, <3>2, <3>3, <3>c DEF NextRemove
  <2> QED
    BY <2>2, <2>3, <2>4
<1> QED
  BY <1>1, <1>4, <1>5, <1>6, <1>7 DEF Calls, Kinds

\* A statement that has gone through leaves the handler in SaveChanges.
LEMMA FlushStays ==
  ASSUME Rest, NEW s \in Sessions, pc[s] = "flush", PlanOK(s),
         UNCHANGED <<pc, call, reply, loose>>, s \in loose => written'[s] = {},
         FlushPlan(s)' \/ (s \in loose /\ changes'[s] = <<>>)
  PROVE  PlanOK(s)'
<1>1. call[s] # NoCall
  BY NoCallIsNone DEF Rest, FlowOK
<1>2. reply[s] = "none" /\ call[s].other # Me(s)
  BY <1>1 DEF PlanOK
<1> QED
  BY <1>1, <1>2 DEF PlanOK, Me

LEMMA InsertMoves ==
  ASSUME Rest, NEW s \in Sessions, PlanOK(s), Insert(s)
  PROVE  Moves(s)
<1>a. PICK in, out : in = In(s) /\ out = Out(s)
  OBVIOUS
<1>1. /\ MayExecute(s) /\ pc[s] = "flush" /\ changes[s] # <<>> /\ Busy(s)
      /\ NextChange(s).op = "insert"
  BY DEF Insert, MayExecute, Busy
<1>2. /\ call[s].kind = "request" /\ written[s] = {}
      /\ NextChange(s) = [op |-> "insert", at |-> out, id |-> 0]
      /\ Tail(changes[s]) = <<>>
  <2>1. NextInsert(s) \/ NextUpdate(s) \/ NextReject(s) \/ NextRemove(s)
    BY <1>1, NextIs
  <2>2. ~NextUpdate(s)
    BY <1>1 DEF NextUpdate
  <2>3. \A d, id : NextChange(s) # Removal(d, id)
    BY <1>1 DEF Removal
  <2>4. ~NextReject(s)
    BY <2>3 DEF NextReject
  <2>5. ~NextRemove(s)
    BY <2>3 DEF NextRemove
  <2> QED
    BY <1>a, <2>1, <2>2, <2>4, <2>5 DEF NextInsert
<1>3. out \in Directions /\ inserts[out] \in Nat
  BY <1>1, <1>a, DirectionsOf DEF Rest, FlowOK, TableTypeOK
<1>r. PICK row : row = [id |-> inserts[out] + 1, status |-> "pending"]
  OBVIOUS
<1>4. CASE Fail(s)
  BY <1>1, <1>4, FailMoves
<1>5. CASE ~Fail(s) /\ s \notin loose
  <2>1. /\ rows[out] = NoRow /\ Writes(s, out, row) /\ Executed(s)
        /\ inserts' = [inserts EXCEPT ![out] = @ + 1]
    BY <1>2, <1>5, <1>r DEF Insert, NewRow
  <2>2. row \in Row /\ lock[out] = Free
    BY <1>1, <1>2, <1>3, <1>r DEF MayExecute, Blocker, Row
  <2>3. /\ OthersAlone(s) /\ \A e \in Directions : RowStep(s, e)
        /\ UNCHANGED <<rows, loose, pc, call, reply>>
        /\ changes'[s] = Tail(changes[s])
        /\ written'[s] = written[s] \cup {Written(out, row)}
        /\ lock'[out] = s
    <3>1. \A e \in Directions : inserts'[e] = inserts[e] + (IF e = out THEN 1 ELSE 0)
      BY <2>1 DEF Rest, TableTypeOK
    <3> QED
      BY <1>1, <1>3, <1>5, <2>1, <2>2, <3>1, WriteMoves
  <2>4. inserts'[out] = inserts[out] + 1 /\ inserts'[out] # 0
    BY <1>3, <2>1 DEF Rest, TableTypeOK
  <2>5. Out(s)' = out
    BY <1>a, <2>3 DEF Out, Me
  <2>6. RequestPlan(s)'
    BY <1>2, <1>r, <2>1, <2>3, <2>4, <2>5 DEF RequestPlan, Written
  <2>7. FlushPlan(s)'
    BY <1>2, <2>3, <2>6 DEF FlushPlan
  <2> QED
    BY <1>1, <1>5, <2>3, <2>7, FlushStays DEF Moves
<1>6. CASE ~Fail(s) /\ s \in loose
  <2>1. /\ rows[out] = NoRow /\ Executed(s) /\ UNCHANGED <<lock, written>>
        /\ rows' = [rows EXCEPT ![out] = row]
        /\ inserts' = [inserts EXCEPT ![out] = @ + 1]
    BY <1>2, <1>6, <1>r DEF Insert, NewRow, Writes
  <2>2. /\ lock[out] = Free /\ DirectRow(s, out)
        /\ \A e \in Directions \ {out} : rows'[e] = rows[e] /\ inserts'[e] = inserts[e]
    BY <1>1, <1>2, <1>3, <1>r, <2>1 DEF MayExecute, Blocker, DirectRow, Rest, TableTypeOK
  <2>3. /\ OthersAlone(s) /\ \A e \in Directions : RowStep(s, e)
        /\ UNCHANGED <<written, loose, pc, call, reply>>
        /\ changes'[s] = Tail(changes[s])
    BY <1>3, <2>1, <2>2, DirectMoves
  <2> QED
    BY <1>1, <1>2, <1>6, <2>3, FlushStays DEF Moves
<1> QED
  BY <1>4, <1>5, <1>6

\* The INSERT of which the handler does not learn
LEMMA InsertStaysMoves ==
  ASSUME Rest, NEW s \in Sessions, PlanOK(s), InsertStays(s)
  PROVE  Moves(s)
<1>a. PICK d : d = NextChange(s).at
  OBVIOUS
<1>1. /\ s \in loose /\ pc[s] = "flush" /\ changes[s] # <<>> /\ NextChange(s).op = "insert"
      /\ rows[d] = NoRow /\ rows' = [rows EXCEPT ![d] = NewRow(d)]
      /\ inserts' = [inserts EXCEPT ![d] = @ + 1] /\ changes' = [changes EXCEPT ![s] = <<>>]
      /\ reply' = [reply EXCEPT ![s] = "fail"] /\ pc' = [pc EXCEPT ![s] = "answer"]
      /\ loose' = loose \ {s} /\ UNCHANGED <<lock, written, call>>
  BY <1>a DEF InsertStays, MayExecute, Goto
<1>2. /\ call[s] \in Calls /\ NextChange(s) \in Change /\ d \in Directions
      /\ written[s] = {} /\ lock[d] = Free
  <2>1. changes[s] \in Seq(Change) /\ call[s] \in Calls
    BY <1>1 DEF Rest, HandlerTypeOK, FlowOK
  <2>2. NextChange(s) \in Change
    BY <1>1, <2>1, HeadTailProperties DEF NextChange
  <2>3. lock[d] = Free
    BY <1>1, <1>a DEF InsertStays, MayExecute, Blocker
  <2> QED
    BY <1>1, <1>a, <2>1, <2>2, <2>3 DEF Change, PlanOK
<1>3. /\ pc'[s] = "answer" /\ reply'[s] = "fail" /\ changes'[s] = <<>> /\ written'[s] = {}
      /\ \A r \in Sessions \ {s} : /\ pc'[r] = pc[r] /\ changes'[r] = changes[r]
                                   /\ reply'[r] = reply[r] /\ r \in loose' <=> r \in loose
  BY <1>1, <1>2 DEF Rest, HandlerTypeOK
<1>4. OthersAlone(s)
  BY <1>1, <1>3 DEF OthersAlone
<1>5. ASSUME NEW e \in Directions
      PROVE  RowStep(s, e)
  <2>1. CASE e = d
    <3>1. DirectRow(s, d)
      BY <1>1, <1>2 DEF DirectRow, NewRow, Rest, TableTypeOK
    <3> QED
      BY <1>1, <1>2, <2>1, <3>1 DEF RowStep
  <2>2. CASE e # d
    BY <1>1, <2>2 DEF RowStep, Rest, TableTypeOK
  <2> QED
    BY <2>1, <2>2
<1>6. PlanOK(s)'
  <2>1. call[s].other # Me(s)
    BY <1>2, NoCallIsNone DEF PlanOK
  <2> QED
    BY <1>1, <1>3, <2>1 DEF PlanOK, Me
<1> QED
  BY <1>4, <1>5, <1>6 DEF Moves

LEMMA UpdateMoves ==
  ASSUME Rest, NEW s \in Sessions, PlanOK(s), Update(s)
  PROVE  Moves(s)
<1>a. PICK in, out : in = In(s) /\ out = Out(s)
  OBVIOUS
<1>1. /\ MayExecute(s) /\ pc[s] = "flush" /\ changes[s] # <<>> /\ Busy(s)
      /\ NextChange(s).op = "update"
  BY DEF Update, MayExecute, Busy
<1>2. PICK id \in Nat :
        /\ call[s].kind = "accept" /\ written[s] = {} /\ Tail(changes[s]) = <<>>
        /\ NextChange(s) = [op |-> "update", at |-> in, id |-> id]
  <2>1. NextInsert(s) \/ NextUpdate(s) \/ NextReject(s) \/ NextRemove(s)
    BY <1>1, NextIs
  <2>2. ~NextInsert(s)
    BY <1>1 DEF NextInsert
  <2>3. \A d, id : NextChange(s) # Removal(d, id)
    BY <1>1 DEF Removal
  <2>4. ~NextReject(s)
    BY <2>3 DEF NextReject
  <2>5. ~NextRemove(s)
    BY <2>3 DEF NextRemove
  <2> QED
    BY <1>a, <2>1, <2>2, <2>4, <2>5 DEF NextUpdate
<1>3. in \in Directions
  BY <1>1, <1>a, DirectionsOf DEF Rest, FlowOK
<1>r. PICK row : row = [id |-> id, status |-> "accepted"]
  OBVIOUS
<1>4. CASE Fail(s)
  BY <1>1, <1>4, FailMoves
<1>5. CASE ~Fail(s) /\ s \notin loose
  <2>1. /\ rows[in] = [id |-> id, status |-> "pending"]
        /\ Writes(s, in, row) /\ Executed(s) /\ UNCHANGED inserts
    BY <1>2, <1>5, <1>r DEF Update
  <2>2. row \in Row /\ lock[in] = Free
    BY <1>1, <1>2, <1>r, <2>1 DEF MayExecute, Blocker, Row
  <2>3. /\ OthersAlone(s) /\ \A e \in Directions : RowStep(s, e)
        /\ UNCHANGED <<rows, loose, pc, call, reply>>
        /\ changes'[s] = Tail(changes[s])
        /\ written'[s] = written[s] \cup {Written(in, row)}
        /\ lock'[in] = s
    BY <1>1, <1>2, <1>3, <1>5, <2>1, <2>2, WriteMoves
  <2>4. In(s)' = in
    BY <1>a, <2>3 DEF In, Me
  <2>5. AcceptPlan(s)'
    BY <1>2, <1>r, <2>1, <2>3, <2>4 DEF AcceptPlan, Written
  <2>6. FlushPlan(s)'
    BY <1>2, <2>3, <2>5 DEF FlushPlan
  <2> QED
    BY <1>1, <1>5, <2>3, <2>6, FlushStays DEF Moves
<1>6. CASE ~Fail(s) /\ s \in loose
  <2>1. /\ rows[in] = [id |-> id, status |-> "pending"] /\ Executed(s)
        /\ UNCHANGED <<inserts, lock, written>> /\ rows' = [rows EXCEPT ![in] = row]
    BY <1>2, <1>6, <1>r DEF Update, Writes
  <2>2. /\ lock[in] = Free /\ DirectRow(s, in)
        /\ \A e \in Directions \ {in} : rows'[e] = rows[e] /\ inserts'[e] = inserts[e]
    BY <1>1, <1>2, <1>3, <1>a, <1>r, <2>1
       DEF MayExecute, Blocker, DirectRow, CommitRow, Rest, TableTypeOK
  <2>3. /\ OthersAlone(s) /\ \A e \in Directions : RowStep(s, e)
        /\ UNCHANGED <<written, loose, pc, call, reply>>
        /\ changes'[s] = Tail(changes[s])
    BY <1>3, <2>1, <2>2, DirectMoves
  <2>4. written'[s] = {}
    BY <1>2, <2>3
  <2> QED
    BY <1>1, <1>2, <1>6, <2>3, <2>4, FlushStays DEF Moves
<1> QED
  BY <1>4, <1>5, <1>6

\* What a DELETE is of: the request that was seen, or a friendship
DeleteOf(s, d, id) ==
  /\ d \in {In(s), Out(s)} /\ NextChange(s).at = d /\ NextChange(s).id = id
  /\ \/ /\ call[s].kind = "reject" /\ d = In(s) /\ written[s] = {}
        /\ Tail(changes[s]) = <<>>
        /\ Single(s) => rows[In(s)] = [id |-> id, status |-> "pending"]
     \/ /\ call[s].kind = "remove" /\ Seen(d, id) /\ (written[s] # {} => d = Out(s))
        /\ \/ Tail(changes[s]) = <<>>
           \/ /\ d = In(s) /\ written[s] = {}
              /\ \E next \in Nat :
                   Tail(changes[s]) = <<Removal(Out(s), next)>> /\ Seen(Out(s), next)

LEMMA NextDelete ==
  ASSUME Rest, NEW s \in Sessions, PlanOK(s), Delete(s)
  PROVE  \E d \in Directions, id \in Nat : DeleteOf(s, d, id)
<1>1. /\ pc[s] = "flush" /\ changes[s] # <<>> /\ NextChange(s).op = "delete"
      /\ In(s) \in Directions /\ Out(s) \in Directions
  BY DirectionsOf DEF Delete, MayExecute, Rest, FlowOK
<1>2. NextReject(s) \/ NextRemove(s)
  <2>1. NextInsert(s) \/ NextUpdate(s) \/ NextReject(s) \/ NextRemove(s)
    BY <1>1, NextIs
  <2> QED
    BY <1>1, <2>1 DEF NextInsert, NextUpdate
<1>3. CASE NextReject(s)
  <2>1. PICK id \in Nat : /\ NextChange(s) = Removal(In(s), id)
                          /\ Single(s) => rows[In(s)] = [id |-> id, status |-> "pending"]
    BY <1>3 DEF NextReject
  <2>2. NextChange(s).at = In(s) /\ NextChange(s).id = id
    BY <2>1 DEF Removal
  <2> QED
    BY <1>1, <1>3, <2>1, <2>2 DEF NextReject, DeleteOf
<1>4. CASE NextRemove(s)
  <2>1. PICK d \in {In(s), Out(s)}, id \in Nat : NextChange(s) = Removal(d, id) /\ Seen(d, id)
    BY <1>4 DEF NextRemove
  <2>2. NextChange(s).at = d /\ NextChange(s).id = id /\ d \in Directions
    BY <1>1, <2>1 DEF Removal
  <2>3. DeleteOf(s, d, id)
    BY <1>4, <2>1, <2>2 DEF NextRemove, DeleteOf
  <2> QED
    BY <2>2, <2>3
<1> QED
  BY <1>2, <1>3, <1>4

LEMMA DeleteMoves ==
  ASSUME Rest, NEW s \in Sessions, PlanOK(s), Delete(s)
  PROVE  Moves(s)
<1>a. PICK in, out : in = In(s) /\ out = Out(s)
  OBVIOUS
<1>1. /\ MayExecute(s) /\ pc[s] = "flush" /\ changes[s] # <<>> /\ Busy(s)
      /\ NextChange(s).op = "delete" /\ Executed(s) /\ UNCHANGED inserts
  BY DEF Delete, MayExecute, Busy
<1>2. call[s] \in Calls /\ call[s].other # Me(s)
  BY <1>1, NoCallIsNone DEF Rest, FlowOK, PlanOK
<1>3. in \in Directions /\ out \in Directions /\ in # out
  BY <1>2, <1>a, DirectionsOf DEF In, Out
<1>p. PICK d \in Directions, id \in Nat : DeleteOf(s, d, id)
  BY NextDelete
<1>4. /\ d \in {in, out} /\ NextChange(s).at = d /\ NextChange(s).id = id
      /\ \/ /\ call[s].kind = "reject" /\ d = in /\ written[s] = {}
            /\ Tail(changes[s]) = <<>>
            /\ Single(s) => rows[in] = [id |-> id, status |-> "pending"]
         \/ /\ call[s].kind = "remove" /\ Seen(d, id) /\ (written[s] # {} => d = out)
            /\ \/ Tail(changes[s]) = <<>>
               \/ /\ d = in /\ written[s] = {}
                  /\ \E next \in Nat :
                       Tail(changes[s]) = <<Removal(out, next)>> /\ Seen(out, next)
  BY <1>a, <1>p DEF DeleteOf
<1>5. /\ rows[d].id = id => Writes(s, d, NoRow)
      /\ rows[d].id # id => UNCHANGED <<rows, lock, written>>
  BY <1>4 DEF Delete
<1>6. /\ rows[d].id = id => lock[d] = Free
      /\ call[s].kind # "request" /\ d \in Directions /\ NoRow \in Row
  BY <1>1, <1>3, <1>4 DEF MayExecute, Blocker, Row
<1>7. s \in loose => written[s] = {}
  BY DEF PlanOK
<1>8. UNCHANGED <<pc, call, reply, loose>> /\ changes'[s] = Tail(changes[s])
  BY <1>1 DEF Executed, Rest, HandlerTypeOK
<1>9. In(s)' = in /\ Out(s)' = out /\ Single(s)' = Single(s)
  BY <1>a, <1>8 DEF In, Out, Me, Single
<1>10. /\ OthersAlone(s) /\ \A e \in Directions : RowStep(s, e)
       /\ IF s \notin loose /\ rows[d].id = id
          THEN /\ written'[s] = written[s] \cup {Written(d, NoRow)} /\ lock'[d] = s
               /\ rows' = rows /\ \A e \in Directions \ {d} : lock'[e] = lock[e]
          ELSE UNCHANGED <<lock, written>>
       /\ s \notin loose => UNCHANGED rows
  <2>1. CASE s \notin loose /\ rows[d].id = id
    <3>1. Writes(s, d, NoRow) /\ lock[d] = Free
      BY <1>5, <1>6, <2>1
    <3>2. PICK row \in Row : row = NoRow
      BY <1>6
    <3>3. Writes(s, d, row)
      BY <3>1, <3>2
    <3>4. /\ OthersAlone(s) /\ \A e \in Directions : RowStep(s, e)
          /\ UNCHANGED rows /\ written'[s] = written[s] \cup {Written(d, row)}
          /\ lock'[d] = s /\ \A e \in Directions \ {d} : lock'[e] = lock[e]
      BY <1>1, <1>6, <2>1, <3>1, <3>3, WriteMoves
    <3> QED
      BY <2>1, <3>2, <3>4
  <2>2. CASE s \in loose /\ rows[d].id = id
    <3>1. rows' = [rows EXCEPT ![d] = NoRow] /\ UNCHANGED <<lock, written>>
      BY <1>5, <2>2 DEF Writes
    <3>2. /\ rows'[d] = NoRow
          /\ \A e \in Directions \ {d} : rows'[e] = rows[e] /\ inserts'[e] = inserts[e]
      BY <1>1, <1>6, <3>1 DEF Rest, TableTypeOK
    <3>3. CommitRow(s, d)
      <4>1. CASE call[s].kind = "reject"
        BY <1>4, <1>a, <3>2, <4>1 DEF CommitRow
      <4>2. CASE call[s].kind = "remove"
        BY <1>4, <2>2, <3>2, <4>2 DEF CommitRow, Seen
      <4> QED
        BY <1>4, <4>1, <4>2
    <3>4. DirectRow(s, d)
      BY <1>1, <1>6, <3>3 DEF DirectRow
    <3> QED
      BY <1>1, <1>6, <2>2, <3>1, <3>2, <3>4, DirectMoves
  <2>3. CASE rows[d].id # id
    <3>1. UNCHANGED <<rows, inserts, lock, written>>
      BY <1>1, <1>5, <2>3
    <3>2. \A r \in Sessions \ {s} : changes'[r] = changes[r]
      BY <1>1 DEF Executed, Rest, HandlerTypeOK
    <3>3. OthersAlone(s) /\ \A e \in Directions : RowStep(s, e)
      BY <1>8, <3>1, <3>2, QuietMoves
    <3> QED
      BY <2>3, <3>1, <3>3
  <2> QED
    BY <2>1, <2>2, <2>3
<1>11. s \in loose => written'[s] = {}
  BY <1>7, <1>10
<1>12. ASSUME FlushPlan(s)' \/ (s \in loose /\ changes'[s] = <<>>)
       PROVE  Moves(s)
  BY <1>1, <1>8, <1>10, <1>11, <1>12, FlushStays DEF Moves
<1>13. CASE s \in loose /\ Tail(changes[s]) = <<>>
  BY <1>8, <1>12, <1>13
<1>14. CASE call[s].kind = "reject" /\ s \notin loose
  <2>1. /\ Tail(changes[s]) = <<>> /\ d = in /\ written[s] = {}
        /\ Single(s) => rows[in] = [id |-> id, status |-> "pending"]
    BY <1>4, <1>14
  <2>2. CASE rows[d].id = id
    <3>1. RejectPlan(s)'
      BY <1>8, <1>9, <1>10, <1>14, <2>1, <2>2 DEF RejectPlan
    <3> QED
      BY <1>8, <1>12, <1>14, <3>1 DEF FlushPlan
  <2>3. CASE rows[d].id # id
    <3>1. ~Single(s)
      BY <2>1, <2>3
    <3>2. RejectPlan(s)'
      BY <1>8, <1>9, <1>10, <1>14, <2>1, <2>3, <3>1 DEF RejectPlan
    <3> QED
      BY <1>8, <1>12, <1>14, <3>2 DEF FlushPlan
  <2> QED
    BY <2>2, <2>3
<1>15. CASE call[s].kind = "remove" /\ ~(s \in loose /\ Tail(changes[s]) = <<>>)
  <2>0. RemovePlan(s)
    BY <1>1, <1>15 DEF PlanOK, FlushPlan
  <2>1. /\ written[s] \subseteq {Written(in, NoRow), Written(out, NoRow)}
        /\ \A w \in written[s] : lock[w.at] = s /\ rows[w.at].status = "accepted"
    BY <1>a, <2>0 DEF RemovePlan
  <2>2. /\ Seen(d, id) /\ (written[s] # {} => d = out)
        /\ \/ Tail(changes[s]) = <<>>
           \/ /\ d = in /\ written[s] = {}
              /\ \E next \in Nat :
                   Tail(changes[s]) = <<Removal(out, next)>> /\ Seen(out, next)
    BY <1>4, <1>15
  <2>3. written'[s] \subseteq {Written(in, NoRow), Written(out, NoRow)}
    <3>1. written'[s] \subseteq written[s] \cup {Written(d, NoRow)}
      <4>1. CASE s \notin loose /\ rows[d].id = id
        BY <1>10, <4>1
      <4>2. CASE ~(s \notin loose /\ rows[d].id = id)
        <5>1. written' = written
          BY <1>10, <4>2
        <5> QED
          BY <5>1
      <4> QED
        BY <4>1, <4>2
    <3>2. Written(d, NoRow) \in {Written(in, NoRow), Written(out, NoRow)}
      BY <1>4
    <3> QED
      BY <2>1, <3>1, <3>2
  <2>4. \A w \in written'[s] : lock'[w.at] = s /\ rows'[w.at].status = "accepted"
    <3> SUFFICES ASSUME NEW w \in written'[s]
                 PROVE  lock'[w.at] = s /\ rows'[w.at].status = "accepted"
      OBVIOUS
    <3>0. s \notin loose /\ rows' = rows
      BY <1>10, <1>11
    <3>1. CASE rows[d].id = id
      <4>1. rows[d].status = "accepted"
        BY <2>2, <3>1 DEF Seen
      <4>2. CASE w.at = d
        BY <1>10, <3>0, <3>1, <4>1, <4>2
      <4>3. CASE w.at # d
        <5>1. w \in written[s] /\ w.at \in Directions
          BY <1>3, <1>10, <2>1, <3>0, <3>1, <4>3 DEF Written
        <5> QED
          BY <1>10, <2>1, <3>0, <3>1, <4>3, <5>1
      <4> QED
        BY <4>2, <4>3
    <3>2. CASE rows[d].id # id
      BY <1>10, <2>1, <3>0, <3>2
    <3> QED
      BY <3>1, <3>2
  <2>5. CASE Tail(changes[s]) = <<>>
    <3>1. changes'[s] = <<>>
      BY <1>8, <2>5
    <3>2. RemovePlan(s)'
      BY <1>9, <2>3, <2>4, <3>1 DEF RemovePlan, Written
    <3> QED
      BY <1>8, <1>12, <1>15, <3>2 DEF FlushPlan
  <2>6. CASE Tail(changes[s]) # <<>>
    <3>1. PICK next \in Nat : Tail(changes[s]) = <<Removal(out, next)>> /\ Seen(out, next)
      BY <2>2, <2>6
    <3>2. d = in /\ written'[s] \subseteq {Written(in, NoRow)}
      BY <1>10, <2>2, <2>6
    <3>3. changes'[s] = <<Removal(out, next)>>
      BY <1>8, <3>1
    <3>4. Seen(out, next)'
      BY <1>3, <1>10, <3>1, SeenKept
    <3>5. NextChange(s)' = Removal(out, next)
      <4>1. Removal(out, next) \in Change
        BY <1>3 DEF Removal, Change
      <4> QED
        BY <3>3, <4>1, HeadsAndTails DEF NextChange
    <3>6. NextChange(s)'.at = out
      BY <3>5 DEF Removal
    <3>7. RemovePlan(s)'
      BY <1>9, <2>3, <2>4, <3>2, <3>3, <3>4, <3>6 DEF RemovePlan, Written, Removal
    <3> QED
      BY <1>8, <1>12, <1>15, <3>7 DEF FlushPlan
  <2> QED
    BY <2>5, <2>6
<1> QED
  BY <1>4, <1>13, <1>14, <1>15

LEMMA UnchangedPlan ==
  ASSUME Rest, NEW s \in Sessions, PlanOK(s),
         UNCHANGED <<rows, inserts, lock, written, loose, pc, call, changes, reply>>
  PROVE  PlanOK(s)'
<1>1. /\ In(s)' = In(s) /\ Out(s)' = Out(s) /\ Me(s)' = Me(s)
      /\ Single(s)' = Single(s) /\ NextChange(s)' = NextChange(s)
  BY DEF In, Out, Me, Single, NextChange
<1>a. PICK in, out : in = In(s) /\ out = Out(s)
  OBVIOUS
<1>2. \A d, id : Seen(d, id) => Seen(d, id)'
  BY DEF Seen
<1>3. RequestPlan(s) => RequestPlan(s)'
  BY <1>1, <1>a DEF RequestPlan, Written
<1>4. AcceptPlan(s) => AcceptPlan(s)'
  BY <1>1, <1>a DEF AcceptPlan, Written
<1>5. RejectPlan(s) => RejectPlan(s)'
  BY <1>1, <1>a DEF RejectPlan, Written, Removal
<1>6. RemovePlan(s) => RemovePlan(s)'
  BY <1>1, <1>2, <1>a DEF RemovePlan, Written, Removal
<1>7. pc[s] = "flush" /\ FlushPlan(s) => FlushPlan(s)'
  <2> SUFFICES ASSUME pc[s] = "flush", FlushPlan(s)
               PROVE  FlushPlan(s)'
    OBVIOUS
  <2>1. call[s].kind \in Kinds
    BY DEF Rest, FlowOK, Calls
  <2> QED
    BY <1>3, <1>4, <1>5, <1>6, <2>1 DEF FlushPlan, Kinds
<1>8. pc[s] = "removeOut" => \/ changes'[s] = <<>>
                             \/ \E id \in Nat : changes'[s] = <<Removal(in, id)>> /\ Seen(in, id)'
  BY <1>2, <1>a DEF PlanOK
<1> QED
  BY <1>1, <1>7, <1>8, <1>a DEF PlanOK, Removal

\* What is locked when a handler commits, and what becomes of it
LEMMA CommitWrites ==
  ASSUME Rest, NEW s \in Sessions, PlanOK(s), Commit(s), s \notin loose,
         rows' = Committed(s), NEW in, in = In(s), NEW out, out = Out(s)
  PROVE  /\ in \in Directions /\ out \in Directions
         /\ \A d \in Directions : IF lock[d] = s THEN CommitRow(s, d) /\ d \in {in, out}
                                                 ELSE rows'[d] = rows[d]
         /\ \/ /\ call[s].kind = "request" /\ lock[out] = s /\ rows[out] = NoRow
               /\ \A d \in Directions : lock[d] = s => d = out
            \/ call[s].kind = "accept" /\ lock[in] = s
            \/ /\ call[s].kind = "reject"
               /\ Single(s) => rows[in].status = "pending"
               /\ lock[in] = s \/ (~Single(s) /\ \A d \in Directions : lock[d] # s)
            \/ call[s].kind = "remove"
<1>1. /\ pc[s] = "flush" /\ changes[s] = <<>>
      /\ rows' = [d \in Directions |->
                    IF lock[d] = s THEN (CHOOSE w \in written[s] : w.at = d).row ELSE rows[d]]
      /\ UNCHANGED <<inserts, call>>
  BY DEF Commit, Committed
<1>2. call[s] \in Calls /\ FlushPlan(s) /\ in \in Directions /\ out \in Directions
  BY <1>1, DirectionsOf DEF Rest, FlowOK, PlanOK
<1>3. \A d \in Directions : lock[d] # s => rows'[d] = rows[d]
  BY <1>1
<1>4. ASSUME NEW d \in Directions, lock[d] = s
      PROVE  \E w \in written[s] : w.at = d /\ w.row = rows'[d]
  <2>1. \E w \in written[s] : w.at = d
    BY <1>4, OwnersAreUsers DEF Rest, LocksOK
  <2>2. PICK w : w = CHOOSE v \in written[s] : v.at = d
    OBVIOUS
  <2>3. w \in written[s] /\ w.at = d
    BY <2>1, <2>2
  <2>4. rows'[d] = w.row
    BY <1>1, <1>4, <2>2
  <2> QED
    BY <2>3, <2>4
<1>5. CASE call[s].kind = "request"
  <2>1. RequestPlan(s)
    BY <1>2, <1>5 DEF FlushPlan
  <2>2. /\ written[s] = {Written(out, [id |-> inserts[out], status |-> "pending"])}
        /\ lock[out] = s /\ rows[out] = NoRow /\ inserts[out] # 0
    BY <1>1, <2>1 DEF RequestPlan
  <2>3. ASSUME NEW d \in Directions, lock[d] = s
        PROVE  CommitRow(s, d) /\ d = out
    <3>1. d = out /\ rows'[d] = [id |-> inserts[out], status |-> "pending"]
      BY <1>4, <2>2, <2>3 DEF Written
    <3> QED
      BY <1>5, <2>2, <3>1 DEF CommitRow
  <2> QED
    BY <1>2, <1>3, <1>5, <2>2, <2>3
<1>6. CASE call[s].kind = "accept"
  <2>1. AcceptPlan(s)
    BY <1>2, <1>6 DEF FlushPlan
  <2>2. PICK id \in Nat : /\ written[s] = {Written(in, [id |-> id, status |-> "accepted"])}
                          /\ lock[in] = s /\ rows[in] = [id |-> id, status |-> "pending"]
    BY <1>1, <2>1 DEF AcceptPlan
  <2>3. ASSUME NEW d \in Directions, lock[d] = s
        PROVE  CommitRow(s, d) /\ d = in
    <3>1. d = in /\ rows'[d] = [id |-> id, status |-> "accepted"]
      BY <1>4, <2>2, <2>3 DEF Written
    <3> QED
      BY <1>6, <2>2, <3>1 DEF CommitRow
  <2> QED
    BY <1>2, <1>3, <1>6, <2>2, <2>3
<1>7. CASE call[s].kind = "reject"
  <2>1. RejectPlan(s)
    BY <1>2, <1>7 DEF FlushPlan
  <2>2. /\ Single(s) => rows[in].status = "pending"
        /\ \/ written[s] = {} /\ ~Single(s)
           \/ written[s] = {Written(in, NoRow)} /\ lock[in] = s
    BY <1>1, <2>1 DEF RejectPlan
  <2>3. ASSUME NEW d \in Directions, lock[d] = s
        PROVE  CommitRow(s, d) /\ d = in /\ lock[in] = s
    <3>1. d = in /\ rows'[d] = NoRow
      BY <1>4, <2>2, <2>3 DEF Written
    <3> QED
      BY <1>7, <2>3, <3>1 DEF CommitRow
  <2>4. lock[in] = s \/ (~Single(s) /\ \A d \in Directions : lock[d] # s)
    <3>1. CASE written[s] = {} /\ ~Single(s)
      <4>1. \A d \in Directions : lock[d] # s
        BY <1>4, <3>1
      <4> QED
        BY <3>1, <4>1
    <3>2. CASE lock[in] = s
      BY <3>2
    <3> QED
      BY <2>2, <3>1, <3>2
  <2>5. \A d \in Directions : lock[d] = s => CommitRow(s, d) /\ d \in {in, out}
    BY <2>3
  <2> QED
    BY <1>2, <1>3, <1>7, <2>2, <2>4, <2>5
<1>8. CASE call[s].kind = "remove"
  <2>1. RemovePlan(s)
    BY <1>2, <1>8 DEF FlushPlan
  <2>2. /\ written[s] \subseteq {Written(in, NoRow), Written(out, NoRow)}
        /\ \A w \in written[s] : rows[w.at].status = "accepted"
    BY <2>1 DEF RemovePlan
  <2>3. ASSUME NEW d \in Directions, lock[d] = s
        PROVE  CommitRow(s, d) /\ d \in {in, out}
    <3>1. PICK w \in written[s] : w.at = d /\ w.row = rows'[d]
      BY <1>4, <2>3
    <3>2. w \in {Written(in, NoRow), Written(out, NoRow)} /\ rows[d].status = "accepted"
      BY <2>2, <3>1
    <3> QED
      BY <1>8, <3>1, <3>2 DEF CommitRow, Written
  <2> QED
    BY <1>2, <1>3, <1>8, <2>3
<1> QED
  BY <1>2, <1>5, <1>6, <1>7, <1>8 DEF Calls, Kinds

\* Whether the Commit fails or not, and whether there is a transaction
LEMMA CommitRows ==
  ASSUME Rest, NEW s \in Sessions, PlanOK(s), Commit(s)
  PROVE  \A d \in Directions : rows'[d] = rows[d] \/ (lock[d] = s /\ CommitRow(s, d))
<1>1. rows' = Committed(s) \/ rows' = rows
  BY DEF Commit
<1>2. CASE rows' = rows
  BY <1>2
<1>3. CASE rows' = Committed(s) /\ s \notin loose
  BY <1>3, CommitWrites
<1>4. CASE rows' = Committed(s) /\ s \in loose
  BY <1>4, OwnersAreUsers DEF Committed, Rest, LocksOK
<1> QED
  BY <1>1, <1>2, <1>3, <1>4

LEMMA CommitMoves ==
  ASSUME Rest, NEW s \in Sessions, PlanOK(s), Commit(s)
  PROVE  Moves(s)
<1>1. /\ pc[s] = "flush" /\ changes[s] = <<>>
      /\ lock' = [d \in Directions |-> IF lock[d] = s THEN Free ELSE lock[d]]
      /\ written' = [written EXCEPT ![s] = {}] /\ reply' = [reply EXCEPT ![s] = "ok"]
      /\ pc' = [pc EXCEPT ![s] = "answer"] /\ loose' = loose \ {s}
      /\ UNCHANGED <<inserts, call, changes>>
  BY DEF Commit, Goto
<1>2. call[s] # NoCall /\ call[s].other # Me(s)
  BY <1>1, NoCallIsNone DEF Rest, FlowOK, PlanOK
<1>3. /\ pc'[s] = "answer" /\ reply'[s] = "ok" /\ changes'[s] = <<>> /\ written'[s] = {}
      /\ \A r \in Sessions \ {s} : /\ pc'[r] = pc[r] /\ changes'[r] = changes[r]
                                   /\ written'[r] = written[r] /\ reply'[r] = reply[r]
  BY <1>1 DEF Rest, HandlerTypeOK, TableTypeOK
<1>4. OthersAlone(s)
  BY <1>1, <1>3, OwnersAreUsers DEF OthersAlone
<1>5. \A d \in Directions : rows'[d] = rows[d] \/ (lock[d] = s /\ CommitRow(s, d))
  BY <1>1, CommitRows
<1>6. ASSUME NEW d \in Directions
      PROVE  RowStep(s, d)
  <2>1. CASE lock[d] = s
    BY <1>1, <1>5, <2>1, OwnersAreUsers DEF RowStep
  <2>2. CASE lock[d] # s
    BY <1>1, <1>5, <2>2 DEF RowStep
  <2> QED
    BY <2>1, <2>2
<1>7. PlanOK(s)'
  BY <1>1, <1>2, <1>3 DEF PlanOK, Me
<1> QED
  BY <1>4, <1>6, <1>7 DEF Moves

LEMMA FlushMoves ==
  ASSUME Rest, NEW s \in Sessions, PlanOK(s),
         \/ Insert(s) \/ InsertStays(s) \/ Update(s) \/ Delete(s)
         \/ IsVictim(s) \/ StatementFails(s) \/ Commit(s)
  PROVE  Moves(s)
<1>1. CASE IsVictim(s) \/ StatementFails(s)
  BY <1>1, FailMoves DEF IsVictim, WaitsFor, StatementFails, Busy
<1> QED
  BY <1>1, InsertMoves, InsertStaysMoves, UpdateMoves, DeleteMoves, CommitMoves

LEMMA WakeupMoves ==
  ASSUME Rest, NEW s \in Sessions, PlanOK(s), Wakeup(s)
  PROVE  Moves(s)
<1>1. UNCHANGED <<rows, inserts, lock, written, loose, pc, call, changes, reply>>
  BY DEF Wakeup, table
<1>2. OthersAlone(s) /\ \A d \in Directions : RowStep(s, d)
  BY <1>1, QuietMoves
<1>3. PlanOK(s)'
  BY <1>1, UnchangedPlan
<1> QED
  BY <1>2, <1>3 DEF Moves

LEMMA HandlerMoves ==
  ASSUME Rest, RowsOK, NEW s \in Sessions, PlanOK(s), Works(s) \/ Breaks(s)
  PROVE  Moves(s)
BY BorrowMoves, SelectMoves, FlushMoves, ReturningMoves DEF Works, Breaks

\* Every step is a step of one handler.
LEMMA NextMoves ==
  ASSUME BookInv, Next
  PROVE  \E s \in Sessions : Moves(s)
<1>1. Rest /\ RowsOK
  BY DEF BookInv, Inv, Rest
<1>2. PICK s \in Sessions : (\E c \in Calls : Ask(s, c)) \/ Works(s) \/ Breaks(s) \/ Wakeup(s)
  BY DEF Next
<1>3. PlanOK(s)
  BY DEF BookInv
<1>4. CASE \E c \in Calls : Ask(s, c)
  BY <1>1, <1>3, <1>4, AskMoves
<1>5. CASE Wakeup(s)
  BY <1>1, <1>3, <1>5, WakeupMoves
<1>6. CASE Works(s) \/ Breaks(s)
  BY <1>1, <1>3, <1>6, HandlerMoves
<1> QED
  BY <1>2, <1>4, <1>5, <1>6

LEMMA BookInvStep ==
  ASSUME BookInv, [Next]_vars
  PROVE  BookInv'
<1>1. Inv' /\ Rest /\ RowsOK
  BY InvStep DEF BookInv, Inv, Rest
<1>2. CASE Next
  <2>1. PICK s \in Sessions : Moves(s)
    BY <1>2, NextMoves
  <2>2. OthersAlone(s) /\ (\A d \in Directions : RowStep(s, d)) /\ PlanOK(s)'
    BY <2>1 DEF Moves
  <2>3. RowsOK'
    BY <1>1, <2>2, RowsKept
  <2>4. ASSUME NEW r \in Sessions
        PROVE  PlanOK(r)'
    <3>1. CASE r = s
      BY <2>2, <3>1
    <3>2. CASE r # s
      <4>1. PlanOK(r) /\ r \in Sessions \ {s}
        BY <3>2 DEF BookInv
      <4> QED
        BY <1>1, <2>2, <4>1, PlanKept
    <3> QED
      BY <3>1, <3>2
  <2> QED
    BY <1>1, <2>3, <2>4 DEF BookInv
<1>3. CASE UNCHANGED vars
  <2>1. UNCHANGED <<rows, inserts, lock, written, loose, pc, call, changes, reply>>
    BY <1>3 DEF vars, table
  <2>2. RowsOK'
    BY <1>1, <2>1 DEF RowsOK
  <2>3. ASSUME NEW r \in Sessions
        PROVE  PlanOK(r)'
    <3>1. PlanOK(r)
      BY DEF BookInv
    <3> QED
      BY <1>1, <2>1, <3>1, UnchangedPlan
  <2> QED
    BY <1>1, <2>2, <2>3 DEF BookInv
<1> QED
  BY <1>2, <1>3

LEMMA BookInvStarts ==
  ASSUME Init
  PROVE  BookInv
<1>1. Inv
  BY PoolStarts, RestStarts DEF Init, Inv, Rest
<1>2. RowsOK
  <2>1. PICK status \in Tables :
          rows = [d \in Directions |->
                    IF status[d] = "none" THEN NoRow ELSE [id |-> 1, status |-> status[d]]]
    BY DEF Init
  <2>2. inserts = [d \in Directions |-> 1]
    BY DEF Init
  <2> QED
    BY <2>1, <2>2 DEF RowsOK
<1>3. \A s \in Sessions : PlanOK(s)
  BY DEF Init, PlanOK
<1> QED
  BY <1>1, <1>2, <1>3 DEF BookInv

THEOREM SpecBookInv == Spec => []BookInv
<1>1. Init => BookInv
  BY BookInvStarts
<1>2. BookInv /\ [Next]_vars => BookInv'
  BY BookInvStep
<1> QED
  BY <1>1, <1>2, PTL DEF Spec

\* Only a remove holds a lock and has a statement to go.
LEMMA HolderWhoGoesOn ==
  ASSUME Rest, NEW s \in Sessions, PlanOK(s), pc[s] = "flush", changes[s] # <<>>,
         NEW d \in Directions, lock[d] = s
  PROVE  /\ call[s].kind = "remove" /\ d = In(s) /\ rows[d].status = "accepted"
         /\ \E id \in Nat : NextChange(s) = Removal(Out(s), id) /\ Seen(Out(s), id)
<1>1. PICK w \in written[s] : w.at = d
  BY OwnersAreUsers DEF Rest, LocksOK
<1>2. NextRemove(s)
  <2>1. NextInsert(s) \/ NextUpdate(s) \/ NextReject(s) \/ NextRemove(s)
    BY NextIs
  <2> QED
    BY <1>1, <2>1 DEF NextInsert, NextUpdate, NextReject
<1>3. call[s].kind = "remove" /\ RemovePlan(s)
  BY <1>2 DEF NextRemove, PlanOK, FlushPlan
<1>4. /\ written[s] = {Written(In(s), NoRow)} /\ rows[w.at].status = "accepted"
      /\ NextChange(s).at = Out(s)
  BY <1>1, <1>3 DEF RemovePlan
<1>5. d = In(s)
  BY <1>1, <1>4 DEF Written
<1>6. PICK e \in {In(s), Out(s)}, id \in Nat : NextChange(s) = Removal(e, id) /\ Seen(e, id)
  BY <1>2 DEF NextRemove
<1>7. e = Out(s)
  BY <1>4, <1>6 DEF Removal
<1> QED
  BY <1>1, <1>3, <1>4, <1>5, <1>6, <1>7

\* Handlers wait for each other only when both remove the friendship of a
\* pair that has a row in each direction.
THEOREM SpecOnlyRemovesDeadlock == Spec => []OnlyRemovesDeadlock
<1>1. BookInv => OnlyRemovesDeadlock
  <2> SUFFICES ASSUME BookInv, NEW s \in Sessions, NEW r \in Sessions,
                      WaitsFor(s, r), WaitsFor(r, s)
               PROVE  /\ call[s].kind = "remove" /\ call[r].kind = "remove"
                      /\ In(s) = Out(r) /\ rows[In(s)].status = "accepted"
                      /\ rows[Out(s)].status = "accepted"
    BY DEF OnlyRemovesDeadlock
  <2>1. Rest /\ PlanOK(s) /\ PlanOK(r)
    BY DEF BookInv, Inv, Rest
  <2>2. ASSUME NEW u \in Sessions, NEW v \in Sessions, WaitsFor(u, v)
        PROVE  /\ pc[u] = "flush" /\ changes[u] # <<>> /\ NextChange(u).at \in Directions
               /\ lock[NextChange(u).at] = v
    <3>1. changes[u] \in Seq(Change) /\ changes[u] # <<>> /\ pc[u] = "flush" /\ Blocker(u) = v
      BY <2>1, <2>2 DEF Rest, HandlerTypeOK, WaitsFor
    <3>2. NextChange(u) \in Change
      BY <3>1, HeadTailProperties DEF NextChange
    <3> QED
      BY <3>1, <3>2, OwnersAreUsers DEF Blocker, Change
  <2>3. ASSUME NEW u \in Sessions, NEW v \in Sessions, PlanOK(u), WaitsFor(u, v), WaitsFor(v, u)
        PROVE  /\ call[u].kind = "remove" /\ NextChange(v).at = In(u)
               /\ NextChange(u).at = Out(u)
               /\ rows[In(u)].status = "accepted"
    <3>1. /\ pc[u] = "flush" /\ changes[u] # <<>> /\ NextChange(v).at \in Directions
          /\ lock[NextChange(v).at] = u
      BY <2>2, <2>3
    <3>2. /\ call[u].kind = "remove" /\ NextChange(v).at = In(u)
          /\ rows[NextChange(v).at].status = "accepted"
          /\ \E id \in Nat : NextChange(u) = Removal(Out(u), id) /\ Seen(Out(u), id)
      BY <2>1, <2>3, <3>1, HolderWhoGoesOn
    <3> QED
      BY <3>2 DEF Removal
  <2>4. /\ call[s].kind = "remove" /\ NextChange(r).at = In(s) /\ NextChange(s).at = Out(s)
        /\ rows[In(s)].status = "accepted"
    BY <2>1, <2>3
  <2>5. /\ call[r].kind = "remove" /\ NextChange(s).at = In(r) /\ NextChange(r).at = Out(r)
        /\ rows[In(r)].status = "accepted"
    BY <2>1, <2>3
  <2> QED
    BY <2>4, <2>5
<1> QED
  BY <1>1, SpecBookInv, PTL

-------------------------------------------------------------------------------
(* Friendship implements FriendBook *)

\* The other requests stay settled or not.
LEMMA OthersSettled ==
  ASSUME NEW s \in Sessions, OthersAlone(s), NEW r \in Sessions \ {s}
  PROVE  Settled(r)' = Settled(r) /\ (r \in Unsettled' <=> r \in Unsettled)
<1>1. changes'[r] = changes[r] /\ reply'[r] = reply[r] /\ (r \in loose' <=> r \in loose)
  BY DEF OthersAlone
<1> QED
  BY <1>1 DEF Settled, Unsettled

\* A step that settles request s
LEMMA SettleBook ==
  ASSUME Rest, Rest', NEW s \in Sessions, OthersAlone(s), UNCHANGED call, call[s] # NoCall,
         NEW answer, Settled(s) = "none", Settled(s)' = answer, s \notin Unsettled'
  PROVE  Book!Settle(s, answer)
<1>1. \A r \in Sessions \ {s} :
        Settled(r)' = Settled(r) /\ (r \in Unsettled' <=> r \in Unsettled)
  BY OthersSettled
<1>2. Unsettled' = Unsettled \ {s}
  <2>1. Unsettled \subseteq Sessions /\ Unsettled' \subseteq Sessions
    BY DEF Unsettled, Rest, TableTypeOK
  <2> QED
    BY <1>1, <2>1
<1>3. [r \in Sessions |-> Settled(r)]' = [[r \in Sessions |-> Settled(r)] EXCEPT ![s] = answer]
  BY <1>1
<1> QED
  BY <1>2, <1>3 DEF Book!Settle

\* A step that nothing of is seen in the book
LEMMA QuietBook ==
  ASSUME UNCHANGED <<rows, call, changes, reply, loose>>
  PROVE  UNCHANGED Book!vars
BY DEF Book!vars, Settled, Unsettled

LEMMA HiddenBook ==
  ASSUME Rest, Rest', NEW s \in Sessions, OthersAlone(s), UNCHANGED <<rows, call>>,
         Settled(s)' = Settled(s), s \in Unsettled' <=> s \in Unsettled
  PROVE  UNCHANGED Book!vars
<1>1. \A r \in Sessions :
        Settled(r)' = Settled(r) /\ (r \in Unsettled' <=> r \in Unsettled)
  BY OthersSettled
<1>2. Unsettled' = Unsettled
  <2>1. Unsettled \subseteq Sessions /\ Unsettled' \subseteq Sessions
    BY DEF Unsettled, Rest, TableTypeOK
  <2> QED
    BY <1>1, <2>1
<1>3. [r \in Sessions |-> Settled(r)]' = [r \in Sessions |-> Settled(r)]
  BY <1>1
<1> QED
  BY <1>2, <1>3 DEF Book!vars

\* Friendships that go from the book
LEMMA RemoveBook ==
  ASSUME NEW s \in Sessions, Book!Settle(s, "ok"), call[s].kind = "remove",
         NEW D \in SUBSET Directions,
         \A d \in D : /\ d \in {<<call[s].other, Owner[s]>>, <<Owner[s], call[s].other>>}
                      /\ rows[d].status = "accepted",
         \A d \in Directions : rows'[d].status = IF d \in D THEN "none" ELSE rows[d].status
  PROVE  Book!Remove(s)
<1>1. PICK book, after : /\ book = [d \in Directions |-> rows[d].status]
                         /\ after = [d \in Directions |-> rows'[d].status]
  OBVIOUS
<1>2. D \in SUBSET {d \in {Book!In(s), Book!Out(s)} : book[d] = "accepted"}
  BY <1>1 DEF Book!In, Book!Out
<1>3. after = [d \in DOMAIN book |-> IF d \in D THEN "none" ELSE book[d]]
  BY <1>1
<1>4. \E E \in SUBSET {d \in {Book!In(s), Book!Out(s)} : book[d] = "accepted"} :
        after = [d \in DOMAIN book |-> IF d \in E THEN "none" ELSE book[d]]
  BY <1>2, <1>3
<1> QED
  BY <1>1, <1>4 DEF Book!Remove

\* What is in the book after a commit
LEMMA CommitBook ==
  ASSUME Rest, NEW s \in Sessions, PlanOK(s), Commit(s), s \notin loose,
         rows' = Committed(s), Book!Settle(s, "ok")
  PROVE  Book!Next
<1>a. PICK in, out : in = In(s) /\ out = Out(s)
  OBVIOUS
<1>b. PICK book, after : /\ book = [d \in Directions |-> rows[d].status]
                         /\ after = [d \in Directions |-> rows'[d].status]
  OBVIOUS
<1>1. /\ in = <<call[s].other, Owner[s]>> /\ out = <<Owner[s], call[s].other>>
      /\ call[s] # NoCall /\ call[s].other # Owner[s]
  BY <1>a, NoCallIsNone DEF Commit, Rest, FlowOK, PlanOK, In, Out, Me
<1>2. /\ in \in Directions /\ out \in Directions
      /\ \A d \in Directions : IF lock[d] = s THEN CommitRow(s, d) /\ d \in {in, out}
                                              ELSE rows'[d] = rows[d]
  BY <1>a, CommitWrites
<1>3. \/ /\ call[s].kind = "request" /\ lock[out] = s /\ rows[out] = NoRow
         /\ \A d \in Directions : lock[d] = s => d = out
      \/ call[s].kind = "accept" /\ lock[in] = s
      \/ /\ call[s].kind = "reject"
         /\ Single(s) => rows[in].status = "pending"
         /\ lock[in] = s \/ (~Single(s) /\ \A d \in Directions : lock[d] # s)
      \/ call[s].kind = "remove"
  BY <1>a, CommitWrites
<1>4. CASE call[s].kind = "request"
  <2>0. CommitRow(s, out) /\ rows[out] = NoRow
    BY <1>2, <1>3, <1>4
  <2>1. rows[out].status = "none" /\ rows'[out].status = "pending"
    BY <1>4, <2>0 DEF CommitRow, NoRow
  <2>2. \A d \in Directions : d # out => rows'[d] = rows[d]
    BY <1>2, <1>3, <1>4
  <2>3. book[out] = "none" /\ after = [book EXCEPT ![out] = "pending"]
    BY <1>2, <1>b, <2>1, <2>2
  <2>4. Book!Request(s)
    BY <1>1, <1>4, <1>b, <2>3 DEF Book!Request, Book!Out
  <2> QED
    BY <2>4 DEF Book!Next
<1>5. CASE call[s].kind = "accept"
  <2>0. CommitRow(s, in)
    BY <1>2, <1>3, <1>5
  <2>1. /\ rows[in].status = "pending" /\ rows'[in].status = "accepted"
        /\ \A d \in Directions : d # in => rows'[d] = rows[d]
    <3>1. rows[in].status = "pending" /\ rows'[in].status = "accepted"
      BY <1>5, <2>0 DEF CommitRow
    <3>2. ASSUME NEW d \in Directions, d # in
          PROVE  rows'[d] = rows[d]
      <4>1. ~CommitRow(s, d)
        BY <1>5, <1>a, <3>2 DEF CommitRow
      <4> QED
        BY <1>2, <4>1
    <3> QED
      BY <3>1, <3>2
  <2>2. book[in] = "pending" /\ after = [book EXCEPT ![in] = "accepted"]
    BY <1>2, <1>b, <2>1
  <2>3. Book!Accept(s)
    BY <1>1, <1>5, <1>b, <2>2 DEF Book!Accept, Book!In
  <2> QED
    BY <2>3 DEF Book!Next
<1>6. CASE call[s].kind = "reject"
  <2>1. Single(s) <=> s \in Singles
    BY DEF Single, Singles
  <2>2. CASE lock[in] = s
    <3>1. /\ rows'[in].status = "none" /\ (Single(s) => rows[in].status = "pending")
          /\ \A d \in Directions : d # in => rows'[d] = rows[d]
      BY <1>2, <1>3, <1>6, <1>a, <2>2 DEF CommitRow, NoRow
    <3>2. after = [book EXCEPT ![in] = "none"] /\ (Single(s) => book[in] = "pending")
      BY <1>2, <1>b, <3>1
    <3>3. Book!Reject(s)
      BY <1>1, <1>6, <1>b, <2>1, <3>2 DEF Book!Reject, Book!In
    <3> QED
      BY <3>3 DEF Book!Next
  <2>3. CASE ~Single(s) /\ \A d \in Directions : lock[d] # s
    <3>1. after = book
      BY <1>2, <1>b, <2>3
    <3>2. Book!Reject(s)
      BY <1>1, <1>6, <1>b, <2>1, <2>3, <3>1 DEF Book!Reject
    <3> QED
      BY <3>2 DEF Book!Next
  <2> QED
    BY <1>3, <1>6, <2>2, <2>3
<1>7. CASE call[s].kind = "remove"
  <2>1. PICK D : D = {d \in Directions : lock[d] = s}
    OBVIOUS
  <2>2. \A d \in D : /\ d \in {in, out} /\ rows[d].status = "accepted"
                     /\ rows'[d].status = "none"
    BY <1>2, <1>7, <2>1 DEF CommitRow, NoRow
  <2>3. \A d \in Directions : rows'[d].status = IF d \in D THEN "none" ELSE rows[d].status
    BY <1>2, <2>1, <2>2
  <2>4. Book!Remove(s)
    BY <1>1, <1>7, <2>1, <2>2, <2>3, RemoveBook
  <2> QED
    BY <2>4 DEF Book!Next
<1> QED
  BY <1>3, <1>4, <1>5, <1>6, <1>7

LEMMA FailBook ==
  ASSUME Rest, Rest', NEW s \in Sessions, PlanOK(s), Moves(s), Busy(s), pc[s] # "answer",
         pc[s] # "flush" \/ changes[s] # <<>>, Fail(s)
  PROVE  Book!Next
<1>1. call[s] # NoCall /\ reply[s] = "none" /\ (s \in loose => pc[s] = "flush")
  BY NoCallIsNone DEF Rest, FlowOK, Busy, PlanOK
<1>2. rows' = rows /\ call' = call /\ loose' = loose \ {s} /\ reply'[s] = "fail"
  BY DEF Fail, Rest, HandlerTypeOK
<1>3. /\ Settled(s) = "none" /\ Settled(s)' = "fail" /\ s \notin Unsettled'
      /\ OthersAlone(s)
  BY <1>1, <1>2 DEF Settled, Unsettled, Moves
<1>4. Book!Settle(s, "fail")
  BY <1>1, <1>2, <1>3, SettleBook
<1>5. Book!Refuse(s)
  BY <1>2, <1>4 DEF Book!Refuse
<1> QED
  BY <1>5 DEF Book!Next

\* Begin fails, or nothing is seen of it.
LEMMA SaveChangesBook ==
  ASSUME Rest, Rest', NEW s \in Sessions, PlanOK(s), Moves(s), Busy(s), SaveChanges(s),
         pc[s] \notin {"flush", "answer"}, changes'[s] # <<>>
  PROVE  Book!Next \/ UNCHANGED Book!vars
<1>1. /\ s \notin loose /\ reply[s] = "none" /\ call[s] # NoCall /\ OthersAlone(s)
      /\ UNCHANGED <<rows, call, reply>>
  BY NoCallIsNone DEF Rest, FlowOK, PlanOK, Busy, Moves, SaveChanges
<1>2. /\ Settled(s) = "none" /\ Settled(s)' = "none" /\ s \notin Unsettled
      /\ s \in Unsettled' <=> s \in loose'
  BY <1>1 DEF Settled, Unsettled
<1>3. CASE s \notin loose'
  BY <1>1, <1>2, <1>3, HiddenBook
<1>4. CASE s \in loose'
  <2>1. "begin" \in Faults
    BY <1>1, <1>4 DEF SaveChanges
  <2>2. \A r \in Sessions \ {s} :
          Settled(r)' = Settled(r) /\ (r \in Unsettled' <=> r \in Unsettled)
    BY <1>1, OthersSettled
  <2>3. Unsettled' = Unsettled \cup {s}
    <3>1. Unsettled \subseteq Sessions /\ Unsettled' \subseteq Sessions
      BY DEF Unsettled, Rest, TableTypeOK
    <3> QED
      BY <1>2, <1>4, <2>2, <3>1
  <2>4. [r \in Sessions |-> Settled(r)]' = [r \in Sessions |-> Settled(r)]
    BY <1>2, <2>2
  <2>5. Book!BeginFails(s)
    BY <1>1, <1>2, <2>1, <2>3, <2>4 DEF Book!BeginFails
  <2> QED
    BY <2>5 DEF Book!Next
<1> QED
  BY <1>3, <1>4

\* The steps up to SaveChanges
LEMMA SelectBook ==
  ASSUME Rest, Rest', NEW s \in Sessions, PlanOK(s), Moves(s),
         \/ FindFails(s) \/ SelectSame(s) \/ SelectReverse(s) \/ SelectIncoming(s)
         \/ SelectRemoveIn(s) \/ SelectRemoveOut(s)
  PROVE  Book!Next \/ UNCHANGED Book!vars
<1>1. /\ pc[s] \in {"same", "reverse", "incoming", "removeIn", "removeOut"} /\ Busy(s)
      /\ s \notin loose /\ OthersAlone(s)
  BY DEF FindFails, FirstSelect, SelectSame, SelectReverse, SelectIncoming,
         SelectRemoveIn, SelectRemoveOut, Busy, Rest, FlowOK, Moves
<1>2. changes \in [Sessions -> Seq(Change)]
  BY DEF Rest, HandlerTypeOK
<1>3. CASE Fail(s)
  BY <1>1, <1>3, FailBook
<1>4. ASSUME NEW stage, Continue(s, stage)
      PROVE  UNCHANGED Book!vars
  <2>1. UNCHANGED <<rows, call, reply, loose>>
    BY <1>4 DEF Continue, table
  <2>2. /\ Settled(s)' = Settled(s) /\ s \notin Unsettled /\ s \notin Unsettled'
    BY <1>1, <2>1 DEF Settled, Unsettled
  <2> QED
    BY <1>1, <2>1, <2>2, HiddenBook
<1>5. ASSUME SaveChanges(s),
             \/ \E op, d, id : Plan(s, op, d, id)
             \/ changes[s] # <<>> /\ UNCHANGED changes
      PROVE  Book!Next \/ UNCHANGED Book!vars
  <2>1. changes'[s] # <<>>
    <3>1. CASE \E op, d, id : Plan(s, op, d, id)
      <4>1. PICK c : changes' = [changes EXCEPT ![s] = Append(changes[s], c)]
        BY <3>1 DEF Plan
      <4>2. changes'[s] = Append(changes[s], c)
        BY <1>2, <4>1
      <4>3. changes[s] \in Seq(Change \cup {c}) /\ c \in Change \cup {c}
        BY <1>2
      <4>4. Append(changes[s], c) # <<>>
        BY <4>3, AppendProperties
      <4> QED
        BY <4>2, <4>4
    <3>2. CASE changes[s] # <<>> /\ UNCHANGED changes
      BY <3>2
    <3> QED
      BY <1>5, <3>1, <3>2
  <2> QED
    BY <1>1, <1>5, <2>1, SaveChangesBook
<1>6. CASE FindFails(s)
  BY <1>3, <1>6 DEF FindFails
<1>7. CASE SelectSame(s)
  BY <1>3, <1>4, <1>7 DEF SelectSame
<1>8. CASE SelectReverse(s)
  BY <1>3, <1>5, <1>8 DEF SelectReverse
<1>9. CASE SelectIncoming(s)
  BY <1>3, <1>5, <1>9 DEF SelectIncoming
<1>10. CASE SelectRemoveIn(s)
  BY <1>4, <1>10 DEF SelectRemoveIn
<1>11. CASE SelectRemoveOut(s)
  BY <1>3, <1>5, <1>11 DEF SelectRemoveOut
<1> QED
  BY <1>6, <1>7, <1>8, <1>9, <1>10, <1>11

\* A statement in the transaction is not seen.
LEMMA WriteBook ==
  ASSUME Rest, Rest', NEW s \in Sessions, Moves(s), s \notin loose, Executed(s),
         UNCHANGED rows
  PROVE  UNCHANGED Book!vars
<1>1. UNCHANGED <<call, reply, loose>> /\ OthersAlone(s)
  BY DEF Executed, Moves
<1>2. Settled(s)' = Settled(s) /\ s \notin Unsettled /\ s \notin Unsettled'
  BY <1>1 DEF Settled, Unsettled
<1> QED
  BY <1>1, <1>2, HiddenBook

\* In autocommit mode the last statement settles the request.
LEMMA LastBook ==
  ASSUME Rest, Rest', NEW s \in Sessions, PlanOK(s), Moves(s), s \in loose,
         MayExecute(s), Executed(s), Tail(changes[s]) = <<>>
  PROVE  Book!Settle(s, "ok")
<1>1. /\ UNCHANGED <<call, reply, loose>> /\ OthersAlone(s)
      /\ changes'[s] = <<>> /\ changes[s] # <<>> /\ pc[s] = "flush"
  BY DEF Executed, Moves, MayExecute, Rest, HandlerTypeOK
<1>2. call[s] # NoCall /\ reply[s] = "none"
  BY <1>1, NoCallIsNone DEF Rest, FlowOK, PlanOK
<1>3. Settled(s) = "none" /\ Settled(s)' = "ok" /\ s \notin Unsettled'
  BY <1>1, <1>2 DEF Settled, Unsettled
<1> QED
  BY <1>1, <1>2, <1>3, SettleBook

LEMMA InsertBook ==
  ASSUME Rest, Rest', NEW s \in Sessions, PlanOK(s), Moves(s), Insert(s) \/ InsertStays(s)
  PROVE  Book!Next \/ UNCHANGED Book!vars
<1>a. PICK in, out : in = In(s) /\ out = Out(s)
  OBVIOUS
<1>b. PICK book, after : /\ book = [d \in Directions |-> rows[d].status]
                         /\ after = [d \in Directions |-> rows'[d].status]
  OBVIOUS
<1>1. /\ pc[s] = "flush" /\ changes[s] # <<>> /\ NextChange(s).op = "insert"
      /\ MayExecute(s) /\ Busy(s)
  BY DEF Insert, InsertStays, MayExecute, Busy
<1>2. NextInsert(s)
  <2>1. NextInsert(s) \/ NextUpdate(s) \/ NextReject(s) \/ NextRemove(s)
    BY <1>1, NextIs
  <2>2. \A d, id : NextChange(s) # Removal(d, id)
    BY <1>1 DEF Removal
  <2>3. ~NextUpdate(s)
    BY <1>1 DEF NextUpdate
  <2>4. ~NextReject(s)
    BY <2>2 DEF NextReject
  <2>5. ~NextRemove(s)
    BY <2>2 DEF NextRemove
  <2> QED
    BY <2>1, <2>3, <2>4, <2>5
<1>3. /\ call[s].kind = "request" /\ NextChange(s).at = out /\ Tail(changes[s]) = <<>>
      /\ call[s] # NoCall /\ reply[s] = "none"
      /\ out \in Directions /\ out = <<Owner[s], call[s].other>>
  BY <1>1, <1>2, <1>a, DirectionsOf, NoCallIsNone
     DEF NextInsert, Rest, FlowOK, PlanOK, Out, Me
<1>4. ASSUME rows[out] = NoRow, rows' = [rows EXCEPT ![out] = NewRow(out)]
      PROVE  book[out] = "none" /\ after = [book EXCEPT ![out] = "pending"]
  <2>1. rows[out].status = "none" /\ rows'[out].status = "pending"
    BY <1>3, <1>4 DEF NoRow, NewRow, Rest, TableTypeOK
  <2>2. \A d \in Directions : d # out => rows'[d] = rows[d]
    BY <1>4 DEF Rest, TableTypeOK
  <2> QED
    BY <1>3, <1>b, <2>1, <2>2
<1>5. CASE Fail(s)
  BY <1>1, <1>5, FailBook
<1>6. CASE Insert(s) /\ ~Fail(s) /\ s \notin loose
  <2>1. UNCHANGED rows /\ Executed(s)
    BY <1>6 DEF Insert, Writes
  <2> QED
    BY <1>6, <2>1, WriteBook
<1>7. CASE Insert(s) /\ ~Fail(s) /\ s \in loose
  <2>1. /\ rows[out] = NoRow /\ rows' = [rows EXCEPT ![out] = NewRow(out)] /\ Executed(s)
    BY <1>3, <1>7 DEF Insert, Writes
  <2>2. book[out] = "none" /\ after = [book EXCEPT ![out] = "pending"]
    BY <1>4, <2>1
  <2>3. Book!Settle(s, "ok")
    BY <1>1, <1>3, <1>7, <2>1, LastBook
  <2>4. Book!Request(s)
    BY <1>3, <1>b, <2>2, <2>3 DEF Book!Request, Book!Out
  <2> QED
    BY <2>4 DEF Book!Next
<1>8. CASE InsertStays(s)
  <2>1. /\ rows[out] = NoRow /\ rows' = [rows EXCEPT ![out] = NewRow(out)]
        /\ s \in loose /\ loose' = loose \ {s} /\ reply'[s] = "fail" /\ UNCHANGED call
    BY <1>3, <1>8 DEF InsertStays, Rest, HandlerTypeOK
  <2>2. book[out] = "none" /\ after = [book EXCEPT ![out] = "pending"]
    BY <1>4, <2>1
  <2>3. /\ Settled(s) = "none" /\ Settled(s)' = "fail" /\ s \in Unsettled
        /\ s \notin Unsettled' /\ OthersAlone(s)
    BY <1>1, <1>3, <2>1 DEF Settled, Unsettled, Moves
  <2>4. Book!Settle(s, "fail")
    BY <1>3, <2>1, <2>3, SettleBook
  <2>5. Book!RefuseAsked(s)
    BY <1>3, <1>b, <2>2, <2>3, <2>4 DEF Book!RefuseAsked, Book!Out
  <2> QED
    BY <2>5 DEF Book!Next
<1> QED
  BY <1>5, <1>6, <1>7, <1>8

LEMMA UpdateBook ==
  ASSUME Rest, Rest', NEW s \in Sessions, PlanOK(s), Moves(s), Update(s)
  PROVE  Book!Next \/ UNCHANGED Book!vars
<1>a. PICK in : in = In(s)
  OBVIOUS
<1>b. PICK book, after : /\ book = [d \in Directions |-> rows[d].status]
                         /\ after = [d \in Directions |-> rows'[d].status]
  OBVIOUS
<1>1. /\ pc[s] = "flush" /\ changes[s] # <<>> /\ NextChange(s).op = "update"
      /\ MayExecute(s) /\ Busy(s)
  BY DEF Update, MayExecute, Busy
<1>2. NextUpdate(s)
  <2>1. NextInsert(s) \/ NextUpdate(s) \/ NextReject(s) \/ NextRemove(s)
    BY <1>1, NextIs
  <2>2. \A d, id : NextChange(s) # Removal(d, id)
    BY <1>1 DEF Removal
  <2>3. ~NextInsert(s)
    BY <1>1 DEF NextInsert
  <2>4. ~NextReject(s)
    BY <2>2 DEF NextReject
  <2>5. ~NextRemove(s)
    BY <2>2 DEF NextRemove
  <2> QED
    BY <2>1, <2>3, <2>4, <2>5
<1>3. /\ call[s].kind = "accept" /\ NextChange(s).at = in /\ Tail(changes[s]) = <<>>
      /\ in \in Directions /\ in = <<call[s].other, Owner[s]>>
  BY <1>1, <1>2, <1>a, DirectionsOf DEF NextUpdate, Rest, FlowOK, In, Me
<1>4. CASE Fail(s)
  BY <1>1, <1>4, FailBook
<1>5. CASE ~Fail(s) /\ s \notin loose
  <2>1. UNCHANGED rows /\ Executed(s)
    BY <1>5 DEF Update, Writes
  <2> QED
    BY <1>5, <2>1, WriteBook
<1>6. CASE ~Fail(s) /\ s \in loose
  <2>1. PICK id : /\ rows[in] = [id |-> id, status |-> "pending"] /\ Executed(s)
                  /\ rows' = [rows EXCEPT ![in] = [id |-> id, status |-> "accepted"]]
    BY <1>3, <1>6 DEF Update, Writes
  <2>2. /\ rows[in].status = "pending" /\ rows'[in].status = "accepted"
        /\ \A d \in Directions : d # in => rows'[d] = rows[d]
    BY <1>3, <2>1 DEF Rest, TableTypeOK
  <2>3. book[in] = "pending" /\ after = [book EXCEPT ![in] = "accepted"]
    BY <1>3, <1>b, <2>2
  <2>4. Book!Settle(s, "ok")
    BY <1>1, <1>3, <1>6, <2>1, LastBook
  <2>5. Book!Accept(s)
    BY <1>3, <1>b, <2>3, <2>4 DEF Book!Accept, Book!In
  <2> QED
    BY <2>5 DEF Book!Next
<1> QED
  BY <1>4, <1>5, <1>6

LEMMA DeleteBook ==
  ASSUME Rest, Rest', NEW s \in Sessions, PlanOK(s), Moves(s), Delete(s)
  PROVE  Book!Next \/ UNCHANGED Book!vars
<1>a. PICK in, out : in = In(s) /\ out = Out(s)
  OBVIOUS
<1>b. PICK book, after : /\ book = [d \in Directions |-> rows[d].status]
                         /\ after = [d \in Directions |-> rows'[d].status]
  OBVIOUS
<1>1. /\ pc[s] = "flush" /\ changes[s] # <<>> /\ MayExecute(s) /\ Executed(s)
      /\ UNCHANGED <<call, reply, loose>> /\ changes'[s] = Tail(changes[s])
  BY DEF Delete, Executed, MayExecute, Rest, HandlerTypeOK
<1>2. /\ call[s] # NoCall /\ reply[s] = "none"
      /\ in = <<call[s].other, Owner[s]>> /\ out = <<Owner[s], call[s].other>>
  BY <1>1, <1>a, NoCallIsNone DEF Rest, FlowOK, PlanOK, In, Out, Me
<1>3. PICK d \in Directions, id \in Nat : DeleteOf(s, d, id)
  BY NextDelete
<1>4. /\ d \in {in, out} /\ NextChange(s).at = d /\ NextChange(s).id = id
      /\ \/ /\ call[s].kind = "reject" /\ d = in
            /\ Tail(changes[s]) = <<>>
            /\ Single(s) => rows[in] = [id |-> id, status |-> "pending"]
         \/ call[s].kind = "remove" /\ Seen(d, id)
  BY <1>3, <1>a DEF DeleteOf
<1>5. CASE s \notin loose
  <2>1. UNCHANGED rows
    BY <1>5 DEF Delete, Writes
  <2> QED
    BY <1>1, <1>5, <2>1, WriteBook
<1>6. CASE s \in loose
  <2>1. IF rows[d].id = id
        THEN /\ rows'[d].status = "none" /\ \A e \in Directions : e # d => rows'[e] = rows[e]
             /\ after = [book EXCEPT ![d] = "none"]
        ELSE UNCHANGED rows /\ after = book
    <3>1. CASE rows[d].id = id
      <4>1. rows' = [rows EXCEPT ![d] = NoRow]
        BY <1>4, <1>6, <3>1 DEF Delete, Writes
      <4>2. /\ rows'[d].status = "none" /\ \A e \in Directions : e # d => rows'[e] = rows[e]
        BY <4>1 DEF NoRow, Rest, TableTypeOK
      <4> QED
        BY <1>b, <3>1, <4>2
    <3>2. CASE rows[d].id # id
      <4>1. UNCHANGED rows
        BY <1>4, <1>6, <3>2 DEF Delete, Writes
      <4> QED
        BY <1>b, <3>2, <4>1
    <3> QED
      BY <3>1, <3>2
  <2>2. Tail(changes[s]) = <<>> => Book!Settle(s, "ok")
    BY <1>1, <1>6, LastBook
  <2>3. CASE call[s].kind = "reject"
    <3>1. /\ d = in /\ Book!Settle(s, "ok") /\ (Single(s) <=> s \in Singles)
          /\ Single(s) => rows[in].id = id /\ rows[in].status = "pending"
      BY <1>4, <2>2, <2>3 DEF Single, Singles
    <3>2. CASE rows[d].id = id
      <4>1. after = [book EXCEPT ![in] = "none"] /\ (s \in Singles => book[in] = "pending")
        BY <1>b, <2>1, <3>1, <3>2
      <4>2. Book!Reject(s)
        BY <1>2, <1>b, <2>3, <3>1, <4>1 DEF Book!Reject, Book!In
      <4> QED
        BY <4>2 DEF Book!Next
    <3>3. CASE rows[d].id # id
      <4>1. after = book /\ s \notin Singles
        BY <2>1, <3>1, <3>3
      <4>2. Book!Reject(s)
        BY <1>b, <2>3, <3>1, <4>1 DEF Book!Reject
      <4> QED
        BY <4>2 DEF Book!Next
    <3> QED
      BY <3>2, <3>3
  <2>4. CASE call[s].kind = "remove" /\ Tail(changes[s]) = <<>>
    <3>1. Book!Settle(s, "ok") /\ (rows[d].id = id => rows[d].status = "accepted")
      BY <1>4, <2>2, <2>4 DEF Seen
    <3>2. PICK D : D = IF rows[d].id = id THEN {d} ELSE {}
      OBVIOUS
    <3>3. \A e \in Directions : rows'[e].status = IF e \in D THEN "none" ELSE rows[e].status
      BY <2>1, <3>2
    <3>4. \A e \in D : /\ e \in {<<call[s].other, Owner[s]>>, <<Owner[s], call[s].other>>}
                       /\ rows[e].status = "accepted"
      BY <1>2, <1>4, <3>1, <3>2
    <3>5. Book!Remove(s)
      BY <2>4, <3>1, <3>2, <3>3, <3>4, RemoveBook
    <3> QED
      BY <3>5 DEF Book!Next
  <2>5. CASE call[s].kind = "remove" /\ Tail(changes[s]) # <<>>
    <3>1. /\ Settled(s) = "none" /\ Settled(s)' = "none" /\ OthersAlone(s)
          /\ s \in Unsettled /\ s \in Unsettled'
      BY <1>1, <1>2, <1>6, <2>5 DEF Settled, Unsettled, Moves
    <3>2. CASE rows[d].id = id
      <4>1. rows[d].status = "accepted"
        BY <1>4, <2>5, <3>2 DEF Seen
      <4>2. \A r \in Sessions :
              Settled(r)' = Settled(r) /\ (r \in Unsettled' <=> r \in Unsettled)
        BY <3>1, OthersSettled
      <4>3. Unsettled' = Unsettled
        <5>1. Unsettled \subseteq Sessions /\ Unsettled' \subseteq Sessions
          BY DEF Unsettled, Rest, TableTypeOK
        <5> QED
          BY <4>2, <5>1
      <4>4. [r \in Sessions |-> Settled(r)]' = [r \in Sessions |-> Settled(r)]
        BY <4>2
      <4>5. book[d] = "accepted" /\ after = [book EXCEPT ![d] = "none"]
        BY <1>b, <2>1, <3>2, <4>1
      <4>6. d \in {<<call[s].other, Owner[s]>>, <<Owner[s], call[s].other>>}
        BY <1>2, <1>4
      <4>7. Book!RemoveOne(s)
        BY <1>1, <1>2, <1>b, <2>5, <3>1, <4>3, <4>4, <4>5, <4>6
           DEF Book!RemoveOne, Book!In, Book!Out
      <4> QED
        BY <4>7 DEF Book!Next
    <3>3. CASE rows[d].id # id
      BY <1>1, <2>1, <3>1, <3>3, HiddenBook
    <3> QED
      BY <3>2, <3>3
  <2> QED
    BY <1>4, <2>3, <2>4, <2>5
<1> QED
  BY <1>5, <1>6

\* A Commit in autocommit mode is not seen, one that fails does nothing.
LEMMA CommitsBook ==
  ASSUME Rest, Rest', NEW s \in Sessions, PlanOK(s), Moves(s), Commit(s)
  PROVE  Book!Next \/ UNCHANGED Book!vars
<1>1. /\ pc[s] = "flush" /\ changes[s] = <<>> /\ call' = call /\ loose' = loose \ {s}
      /\ reply'[s] = "ok" /\ OthersAlone(s)
  BY DEF Commit, Moves, Rest, HandlerTypeOK
<1>2. call[s] # NoCall /\ reply[s] = "none"
  BY <1>1, NoCallIsNone DEF Rest, FlowOK, PlanOK
<1>3. Settled(s)' = "ok" /\ s \notin Unsettled /\ s \notin Unsettled'
  BY <1>1 DEF Settled, Unsettled
<1>4. CASE s \in loose
  <2>1. Settled(s) = "ok"
    BY <1>1, <1>4 DEF Settled
  <2>2. rows' = rows
    BY <1>4, OwnersAreUsers DEF Commit, Committed, Rest, LocksOK, TableTypeOK
  <2> QED
    BY <1>1, <1>3, <2>1, <2>2, HiddenBook
<1>5. CASE s \notin loose
  <2>1. Settled(s) = "none"
    BY <1>2, <1>5 DEF Settled
  <2>2. Book!Settle(s, "ok")
    BY <1>1, <1>2, <1>3, <2>1, SettleBook
  <2>3. CASE rows' = Committed(s)
    BY <1>5, <2>2, <2>3, CommitBook
  <2>4. CASE "commit" \in Faults /\ UNCHANGED rows
    <3>1. Book!Lose(s)
      BY <1>3, <2>2, <2>4 DEF Book!Lose
    <3> QED
      BY <3>1 DEF Book!Next
  <2> QED
    BY <2>3, <2>4 DEF Commit
<1> QED
  BY <1>4, <1>5

LEMMA AnswerBook ==
  ASSUME Rest, NEW s \in Sessions, PlanOK(s), Answer(s)
  PROVE  Book!Next
<1>1. /\ pc[s] = "answer" /\ reply[s] # "none" /\ s \notin loose
      /\ UNCHANGED <<rows, changes, loose>> /\ call' = [call EXCEPT ![s] = NoCall]
      /\ reply' = [reply EXCEPT ![s] = "none"]
  BY DEF Answer, PlanOK, table, Rest, FlowOK
<1>2. Unsettled' = Unsettled
  BY <1>1 DEF Unsettled
<1>3. /\ Settled(s) # "none" /\ Settled(s)' = "none"
      /\ \A r \in Sessions \ {s} : Settled(r)' = Settled(r)
  BY <1>1 DEF Settled, Rest, HandlerTypeOK
<1>4. [r \in Sessions |-> Settled(r)]' = [[r \in Sessions |-> Settled(r)] EXCEPT ![s] = "none"]
  BY <1>3
<1>5. Book!Answer(s)
  BY <1>1, <1>2, <1>3, <1>4 DEF Book!Answer
<1> QED
  BY <1>5 DEF Book!Next

LEMMA HandlerBook ==
  ASSUME Rest, Rest', NEW s \in Sessions, PlanOK(s), Moves(s), Works(s) \/ Breaks(s)
  PROVE  Book!Next \/ UNCHANGED Book!vars
<1>1. CASE Borrow(s) \/ Return(s)
  BY <1>1, QuietBook DEF Borrow, Return, table
<1>2. CASE IsVictim(s) \/ StatementFails(s)
  BY <1>2, FailBook DEF IsVictim, WaitsFor, StatementFails, Busy
<1> QED
  BY <1>1, <1>2, SelectBook, InsertBook, UpdateBook, DeleteBook, CommitsBook, AnswerBook
     DEF Works, Breaks

LEMMA BookStep ==
  ASSUME BookInv, [Next]_vars
  PROVE  [Book!Next]_Book!vars
<1>0. Rest /\ Rest' /\ RowsOK
  BY InvStep DEF BookInv, Inv, Rest
<1>1. CASE UNCHANGED vars
  BY <1>1, QuietBook DEF vars, table
<1>2. ASSUME NEW s \in Sessions, NEW c \in Calls, Ask(s, c)
      PROVE  Book!Next
  <2>1. PlanOK(s) /\ pc[s] = "idle"
    BY <1>2 DEF BookInv, Ask
  <2>2. /\ call[s] = NoCall /\ call' = [call EXCEPT ![s] = c]
        /\ UNCHANGED <<rows, changes, reply, loose>>
    BY <1>2, <2>1 DEF Ask, PlanOK, table
  <2>3. Book!Ask(s, c)
    BY <2>2 DEF Book!Ask, Settled, Unsettled
  <2> QED
    BY <2>3 DEF Book!Next
<1>3. ASSUME NEW s \in Sessions, Wakeup(s)
      PROVE  UNCHANGED Book!vars
  BY <1>3, QuietBook DEF Wakeup, table
<1>4. ASSUME NEW s \in Sessions, Works(s) \/ Breaks(s)
      PROVE  Book!Next \/ UNCHANGED Book!vars
  <2>1. PlanOK(s)
    BY DEF BookInv
  <2>2. Moves(s)
    BY <1>0, <1>4, <2>1, HandlerMoves
  <2> QED
    BY <1>0, <1>4, <2>1, <2>2, HandlerBook
<1> QED
  BY <1>1, <1>2, <1>3, <1>4 DEF Next

LEMMA BookInit ==
  ASSUME Init
  PROVE  Book!Init
<1>1. PICK status \in Tables :
        rows = [d \in Directions |->
                  IF status[d] = "none" THEN NoRow ELSE [id |-> 1, status |-> status[d]]]
  BY DEF Init
<1>2. status \in [Directions -> {"none", "pending", "accepted"}]
  BY TablesAreStatuses DEF Statuses
<1>3. \A d \in Directions : rows[d].status \in {"none", "pending", "accepted"}
  BY <1>1, <1>2 DEF NoRow
<1>4. [d \in Directions |-> rows[d].status] \in [Users \X Users -> {"none", "pending", "accepted"}]
  BY <1>3 DEF Directions
<1>5. /\ Unsettled = {}
      /\ [s \in Sessions |-> Settled(s)] = [s \in Sessions |-> "none"]
  BY DEF Init, Unsettled, Settled
<1> QED
  BY <1>4, <1>5 DEF Init, Book!Init

\* A friend request that is answered with success has asked, accepted,
\* rejected or removed at once, and one that is answered with failure has done
\* nothing, whatever requests are served beside it: for any number of users,
\* sessions and connections, with statements that fail and transactions that
\* the database ends to resolve a deadlock. SaveChanges looks at the results
\* of neither Begin nor Commit (DBContext.h:416, 556), and so there are two
\* exceptions, which FriendBook names: a request whose Commit fails may be
\* answered with success and have done nothing (Lose), and one whose Begin
\* fails may have done a part of what it is refused (RemoveOne, RefuseAsked).
THEOREM SpecImplementsFriendBook == Spec => ImplementsFriendBook
<1>1. BookInv /\ [Next]_vars => [Book!Next]_Book!vars
  BY BookStep
<1>2. Init => Book!Init
  BY BookInit
<1> QED
  BY SpecBookInv, <1>1, <1>2, PTL DEF Spec, ImplementsFriendBook, Book!Spec
===============================================================================
