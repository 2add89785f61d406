----------------------------- MODULE JobQueueProofs -----------------------------
(***************************************************************************)
(* For any finite set of worker threads and any set of queues: the right   *)
(* to run a queue is never held twice and never lost (OneExecutor,         *)
(* NoStrandedQueue).                                                       *)
(***************************************************************************)
EXTENDS JobQueue, FiniteSetTheorems, SequenceTheorems, TLAPS

\* How the three views a thread has of itself (the Push call, the Execute
\* call, LCurrentJobQueue) and its place in DoWorkerLoop fit together.
Frames ==
  \A t \in Threads :
    /\ push[t].at = "out" <=> push[t].to = NoQueue
    /\ exec[t].at = "out" <=> exec[t].on = NoQueue
    /\ current[t] = IF exec[t].at = "requeue" THEN NoQueue ELSE exec[t].on
    /\ exec[t].at = "job" => exec[t].batch # <<>>
    /\ exec[t].at \notin {"run", "job", "sub"} => exec[t].size = 0
    /\ push[t].at # "out" => \/ exec[t].at = "job"
                             \/ exec[t].at = "out" /\ loop[t] = "poll"
    /\ exec[t].at # "out" => loop[t] \in {"poll", "popped"}

\* iJobCount counts the jobs in Jobs, those of the running batch until the
\* fetch_sub, and those whose fetch_add came before their Jobs.push.
CountExact(q) ==
  /\ \A t \in Executing(q) :
       count[q] = Len(jobs[q]) + exec[t].size + Cardinality(Announcing(q))
  /\ Executing(q) = {} => count[q] = Len(jobs[q]) + Cardinality(Announcing(q))

\* One queue: held once, exactly as long as it has an unfinished job.
QueueOK(q) == /\ OneHolder(q)
              /\ CountExact(q)
              /\ Held(q) <=> count[q] # 0

IndInv == /\ TypeOK
          /\ Frames
          /\ \A q \in Queues : QueueOK(q)

-------------------------------------------------------------------------------

\* The counter of announced pushes is a natural number.
LEMMA AnnouncingFinite ==
  ASSUME NEW q \in Queues
  PROVE  /\ IsFiniteSet(Announcing(q))
         /\ Cardinality(Announcing(q)) \in Nat
<1>1. Announcing(q) \in SUBSET Threads
  BY DEF Announcing
<1>2. QED
  BY <1>1, ThreadsFinite, FS_Subset, FS_CardinalityType

\* Init establishes the invariant: nobody holds anything, nothing is counted.
LEMMA InitIndInv == Init => IndInv
<1> SUFFICES ASSUME Init PROVE IndInv
  OBVIOUS
<1> USE NoQueueIsNone DEF Init, NotPushing, NotExecuting
<1>1. TypeOK
  <2>1. push \in [Threads -> PushCall] /\ exec \in [Threads -> ExecuteCall]
    BY DEF PushCall, ExecuteCall
  <2>2. /\ jobs \in [Queues -> Seq(Job)] /\ done \in [Queues -> Seq(Job)]
        /\ count \in [Queues -> Nat] /\ globalQueue \in Seq(Queues)
    OBVIOUS
  <2>3. QED
    BY <2>1, <2>2 DEF TypeOK
<1>2. Frames
  BY DEF Frames
<1>3. \A q \in Queues : /\ Executing(q) = {} /\ FirstPushing(q) = {}
                        /\ Registered(q) = {} /\ Announcing(q) = {}
  BY DEF Executing, FirstPushing, Registered, Announcing
<1>4. Cardinality({}) = 0
  BY FS_EmptySet
<1>5. ASSUME NEW q \in Queues PROVE QueueOK(q)
  <2>1. count[q] = 0 /\ Len(jobs[q]) = 0 /\ Cardinality(Announcing(q)) = 0
    BY <1>3, <1>4
  <2>2. QED
    BY <1>3, <2>1 DEF QueueOK, OneHolder, CountExact, Held
<1>6. QED
  BY <1>1, <1>2, <1>5 DEF IndInv

\* Every step keeps the variables in their types; only the fetch_sub needs
\* more than the types: the counter covers what is taken from it.
LEMMA TypeStep == IndInv /\ [Next]_vars => TypeOK'
<1> SUFFICES ASSUME IndInv, [Next]_vars PROVE TypeOK'
  OBVIOUS
<1> USE NoQueueIsNone DEF IndInv, TypeOK
<1>0. \A x \in Threads : push[x] \in PushCall /\ exec[x] \in ExecuteCall
  OBVIOUS
<1>1. CASE UNCHANGED vars
  BY <1>1 DEF vars
<1>2. ASSUME NEW t \in Threads, NEW q \in Queues, PushCount(t, q) PROVE TypeOK'
  <2>1. push' \in [Threads -> PushCall]
    BY <1>2 DEF PushCount, PushCall
  <2>2. QED
    BY <1>2, <2>1 DEF PushCount
<1>3. ASSUME NEW t \in Threads, PushEnqueue(t) PROVE TypeOK'
  <2>1. push[t].to \in Queues /\ push[t].id \in Nat
    BY <1>3, <1>0 DEF PushEnqueue, Frames, PushCall
  <2>2. [by |-> t, id |-> push[t].id] \in Job
    BY <2>1 DEF Job
  <2>3. jobs' \in [Queues -> Seq(Job)]
    BY <1>3, <2>1, <2>2 DEF PushEnqueue
  <2>4. push' \in [Threads -> PushCall]
    BY <1>3 DEF PushEnqueue, PushCall
  <2>5. QED
    BY <1>3, <2>3, <2>4 DEF PushEnqueue
<1>4. ASSUME NEW t \in Threads, PushDecide(t) PROVE TypeOK'
  <2>1. push[t].to \in Queues
    BY <1>4, <1>0 DEF PushDecide, Frames, PushCall
  <2>2. push' \in [Threads -> PushCall]
    BY <1>4 DEF PushDecide, PushCall, NotPushing
  <2>3. CASE UNCHANGED <<globalQueue, exec, current>>
    BY <1>4, <2>2, <2>3 DEF PushDecide
  <2>4. CASE EnterExecute(t, push[t].to) /\ UNCHANGED globalQueue
    <3>1. exec' \in [Threads -> ExecuteCall]
      BY <2>1, <2>4 DEF EnterExecute, ExecuteCall
    <3>2. current' \in [Threads -> Queues \cup {NoQueue}]
      BY <2>1, <2>4 DEF EnterExecute
    <3>3. QED
      BY <1>4, <2>2, <2>4, <3>1, <3>2 DEF PushDecide
  <2>5. CASE /\ globalQueue' = Append(globalQueue, push[t].to)
             /\ UNCHANGED <<exec, current>>
    BY <1>4, <2>1, <2>2, <2>5 DEF PushDecide
  <2>6. QED
    BY <1>4, <2>3, <2>4, <2>5 DEF PushDecide
<1>5. ASSUME NEW t \in Threads, ExecuteDrain(t) PROVE TypeOK'
  <2>1. exec[t].on \in Queues
    BY <1>5, <1>0 DEF ExecuteDrain, Frames, ExecuteCall
  <2>2. exec' \in [Threads -> ExecuteCall]
    BY <1>5, <2>1 DEF ExecuteDrain, ExecuteCall
  <2>3. QED
    BY <1>5, <2>1, <2>2 DEF ExecuteDrain
<1>6. ASSUME NEW t \in Threads, ExecuteNext(t) PROVE TypeOK'
  <2>0. PICK a \in {"sub", "job"} : exec' = [exec EXCEPT ![t].at = a]
    BY <1>6 DEF ExecuteNext
  <2>1. exec' \in [Threads -> ExecuteCall]
    BY <2>0 DEF ExecuteCall
  <2>2. QED
    BY <1>6, <2>1 DEF ExecuteNext
<1>7. ASSUME NEW t \in Threads, ExecuteJobReturn(t) PROVE TypeOK'
  <2>1. exec[t].on \in Queues /\ exec[t].batch # <<>> /\ exec[t].batch \in Seq(Job)
    BY <1>7, <1>0 DEF ExecuteJobReturn, Frames, ExecuteCall
  <2>2. Head(exec[t].batch) \in Job /\ Tail(exec[t].batch) \in Seq(Job)
    BY <2>1, HeadTailProperties
  <2>3. exec' \in [Threads -> ExecuteCall]
    <3>1. [exec[t] EXCEPT !.at = "run", !.batch = Tail(@)] \in ExecuteCall
      BY <1>0, <2>2 DEF ExecuteCall
    <3>2. QED
      BY <1>7, <3>1 DEF ExecuteJobReturn
  <2>4. done' \in [Queues -> Seq(Job)]
    BY <1>7, <2>1, <2>2 DEF ExecuteJobReturn
  <2>5. QED
    BY <1>7, <2>3, <2>4 DEF ExecuteJobReturn
<1>8. ASSUME NEW t \in Threads, ExecuteSubtract(t) PROVE TypeOK'
  <2>1. exec[t].on \in Queues /\ t \in Executing(exec[t].on) /\ exec[t].size \in Nat
    BY <1>8, <1>0 DEF ExecuteSubtract, Frames, Executing, ExecuteCall
  <2>2. count[exec[t].on] - exec[t].size \in Nat
    BY <2>1, AnnouncingFinite DEF QueueOK, CountExact
  <2>3. count' \in [Queues -> Nat]
    BY <1>8, <2>1, <2>2 DEF ExecuteSubtract
  <2>4. exec' \in [Threads -> ExecuteCall]
    <3>1. CASE exec' = [exec EXCEPT ![t] = NotExecuting]
      BY <3>1 DEF NotExecuting, ExecuteCall
    <3>2. CASE exec' = [exec EXCEPT ![t].at = "tick", ![t].size = 0]
      <4>1. [exec[t] EXCEPT !.at = "tick", !.size = 0] \in ExecuteCall
        BY <1>0 DEF ExecuteCall
      <4>2. QED
        BY <3>2, <4>1
    <3>3. QED
      BY <1>8, <3>1, <3>2 DEF ExecuteSubtract
  <2>5. current' \in [Threads -> Queues \cup {NoQueue}]
    BY <1>8 DEF ExecuteSubtract
  <2>6. QED
    BY <1>8, <2>3, <2>4, <2>5 DEF ExecuteSubtract
<1>9. ASSUME NEW t \in Threads, ExecuteTick(t) PROVE TypeOK'
  <2>1. CASE exec' = [exec EXCEPT ![t].at = "drain"] /\ UNCHANGED current
    <3>1. exec' \in [Threads -> ExecuteCall]
      BY <2>1 DEF ExecuteCall
    <3>2. QED
      BY <1>9, <2>1, <3>1 DEF ExecuteTick
  <2>2. CASE /\ exec' = [exec EXCEPT ![t].at = "requeue"]
             /\ current' = [current EXCEPT ![t] = NoQueue]
    <3>1. exec' \in [Threads -> ExecuteCall]
      BY <2>2 DEF ExecuteCall
    <3>2. QED
      BY <1>9, <2>2, <3>1 DEF ExecuteTick
  <2>3. QED
    BY <1>9, <2>1, <2>2 DEF ExecuteTick
<1>10. ASSUME NEW t \in Threads, ExecuteRequeue(t) PROVE TypeOK'
  <2>1. exec[t].on \in Queues
    BY <1>10, <1>0 DEF ExecuteRequeue, Frames, ExecuteCall
  <2>2. exec' \in [Threads -> ExecuteCall]
    BY <1>10 DEF ExecuteRequeue, NotExecuting, ExecuteCall
  <2>3. QED
    BY <1>10, <2>1, <2>2 DEF ExecuteRequeue
<1>11. ASSUME NEW t \in Threads, LoopHead(t) PROVE TypeOK'
  BY <1>11 DEF LoopHead
<1>12. ASSUME NEW t \in Threads, PollReturn(t) PROVE TypeOK'
  BY <1>12 DEF PollReturn
<1>13. ASSUME NEW t \in Threads, LoopPop(t) PROVE TypeOK'
  <2>1. CASE globalQueue = <<>>
    BY <1>13, <2>1 DEF LoopPop
  <2>2. CASE globalQueue # <<>>
    <3>1. Head(globalQueue) \in Queues /\ Tail(globalQueue) \in Seq(Queues)
      BY <2>2, HeadTailProperties
    <3>0. EnterExecute(t, Head(globalQueue))
      BY <1>13, <2>2 DEF LoopPop
    <3>2. exec' \in [Threads -> ExecuteCall]
      BY <3>0, <3>1 DEF EnterExecute, ExecuteCall
    <3>3. QED
      BY <1>13, <2>2, <3>1, <3>2 DEF LoopPop, EnterExecute
  <2>3. QED
    BY <2>1, <2>2
<1>14. ASSUME NEW t \in Threads, LoopPopped(t) PROVE TypeOK'
  BY <1>14 DEF LoopPopped
<1>15. CASE Stop
  BY <1>15 DEF Stop
<1>16. QED
  BY <1>1, <1>2, <1>3, <1>4, <1>5, <1>6, <1>7, <1>8, <1>9, <1>10, <1>11,
     <1>12, <1>13, <1>14, <1>15 DEF Next, ThreadStep

\* The frames of a thread stay consistent; another thread's do not change.
LEMMA FramesStep == IndInv /\ [Next]_vars => Frames'
<1> SUFFICES ASSUME IndInv, [Next]_vars PROVE Frames'
  OBVIOUS
<1> USE NoQueueIsNone DEF TypeOK, IndInv, Frames, PushCall, ExecuteCall
<1>1. CASE UNCHANGED vars
  BY <1>1 DEF vars
<1>2. ASSUME NEW t \in Threads, NEW q \in Queues, PushCount(t, q) PROVE Frames'
  BY <1>2 DEF PushCount, MayPush
<1>3. ASSUME NEW t \in Threads, PushEnqueue(t) PROVE Frames'
  BY <1>3 DEF PushEnqueue
<1>4. ASSUME NEW t \in Threads, PushDecide(t) PROVE Frames'
  <2>0. push[t].at = "decide" /\ push' = [push EXCEPT ![t] = NotPushing]
    BY <1>4 DEF PushDecide
  <2>1. CASE UNCHANGED <<exec, current>>
    BY <1>4, <2>0, <2>1 DEF PushDecide, NotPushing
  <2>2. CASE current[t] = NoQueue /\ EnterExecute(t, push[t].to)
    <3>1. exec[t].at = "out" /\ loop[t] = "poll" /\ push[t].to \in Queues
      BY <2>0, <2>2
    <3>2. QED
      BY <1>4, <2>0, <2>2, <3>1 DEF PushDecide, EnterExecute, NotPushing
  <2>3. QED
    BY <1>4, <2>1, <2>2 DEF PushDecide
<1>5. ASSUME NEW t \in Threads, ExecuteDrain(t) PROVE Frames'
  BY <1>5 DEF ExecuteDrain
<1>6. ASSUME NEW t \in Threads, ExecuteNext(t) PROVE Frames'
  BY <1>6 DEF ExecuteNext
<1>7. ASSUME NEW t \in Threads, ExecuteJobReturn(t) PROVE Frames'
  <2>1. exec' = [exec EXCEPT ![t] = [exec[t] EXCEPT !.at = "run", !.batch = Tail(@)]]
    BY <1>7 DEF ExecuteJobReturn
  <2>2. /\ exec'[t].at = "run" /\ exec'[t].on = exec[t].on
        /\ \A u \in Threads \ {t} : exec'[u] = exec[u]
    BY <2>1
  <2>3. exec[t].at = "job" /\ push[t].at = "out" /\ UNCHANGED <<push, current, loop>>
    BY <1>7 DEF ExecuteJobReturn
  <2>4. SUFFICES ASSUME NEW u \in Threads PROVE Frames!(u)'
    OBVIOUS
  <2>5. CASE u = t
    BY <2>2, <2>3, <2>5
  <2>6. CASE u # t
    BY <2>2, <2>3, <2>6
  <2>7. QED
    BY <2>5, <2>6
<1>8. ASSUME NEW t \in Threads, ExecuteSubtract(t) PROVE Frames'
  <2>1. CASE /\ exec' = [exec EXCEPT ![t] = NotExecuting]
             /\ current' = [current EXCEPT ![t] = NoQueue]
    BY <1>8, <2>1 DEF ExecuteSubtract, NotExecuting
  <2>2. CASE /\ exec' = [exec EXCEPT ![t].at = "tick", ![t].size = 0]
             /\ UNCHANGED current
    <3>1. /\ exec'[t].at = "tick" /\ exec'[t].size = 0
          /\ exec'[t].on = exec[t].on
          /\ \A u \in Threads \ {t} : exec'[u] = exec[u]
      BY <2>2
    <3>2. exec[t].at = "sub" /\ UNCHANGED <<push, current, loop>>
      BY <1>8, <2>2 DEF ExecuteSubtract
    <3>3. SUFFICES ASSUME NEW u \in Threads PROVE Frames!(u)'
      OBVIOUS
    <3>4. CASE u = t
      BY <3>1, <3>2, <3>4
    <3>5. CASE u # t
      BY <3>1, <3>2, <3>5
    <3>6. QED
      BY <3>4, <3>5
  <2>3. QED
    BY <1>8, <2>1, <2>2 DEF ExecuteSubtract
<1>9. ASSUME NEW t \in Threads, ExecuteTick(t) PROVE Frames'
  <2>1. CASE exec' = [exec EXCEPT ![t].at = "drain"] /\ UNCHANGED current
    BY <1>9, <2>1 DEF ExecuteTick
  <2>2. CASE /\ exec' = [exec EXCEPT ![t].at = "requeue"]
             /\ current' = [current EXCEPT ![t] = NoQueue]
    BY <1>9, <2>2 DEF ExecuteTick
  <2>3. QED
    BY <1>9, <2>1, <2>2 DEF ExecuteTick
<1>10. ASSUME NEW t \in Threads, ExecuteRequeue(t) PROVE Frames'
  BY <1>10 DEF ExecuteRequeue, NotExecuting
<1>11. ASSUME NEW t \in Threads, LoopHead(t) PROVE Frames'
  BY <1>11 DEF LoopHead
<1>12. ASSUME NEW t \in Threads, PollReturn(t) PROVE Frames'
  BY <1>12 DEF PollReturn
<1>13. ASSUME NEW t \in Threads, LoopPop(t) PROVE Frames'
  <2>1. CASE globalQueue = <<>>
    <3>1. /\ loop' = [loop EXCEPT ![t] = "head"]
          /\ UNCHANGED <<push, exec, current>>
      BY <1>13, <2>1 DEF LoopPop
    <3>2. exec[t].at = "out" /\ push[t].at = "out"
      BY <1>13 DEF LoopPop
    <3>3. QED
      BY <3>1, <3>2
  <2>2. CASE globalQueue # <<>>
    <3>1. Head(globalQueue) \in Queues
      BY <2>2, HeadTailProperties
    <3>2. EnterExecute(t, Head(globalQueue)) /\ loop' = [loop EXCEPT ![t] = "popped"]
      BY <1>13, <2>2 DEF LoopPop
    <3>3. exec[t].at = "out" /\ push[t].at = "out"
      BY <1>13 DEF LoopPop
    <3>4. QED
      BY <1>13, <3>1, <3>2, <3>3 DEF LoopPop, EnterExecute
  <2>3. QED
    BY <2>1, <2>2
<1>14. ASSUME NEW t \in Threads, LoopPopped(t) PROVE Frames'
  BY <1>14 DEF LoopPopped
<1>15. CASE Stop
  BY <1>15 DEF Stop
<1>16. QED
  BY <1>1, <1>2, <1>3, <1>4, <1>5, <1>6, <1>7, <1>8, <1>9, <1>10, <1>11,
     <1>12, <1>13, <1>14, <1>15 DEF Next, ThreadStep

-------------------------------------------------------------------------------

\* A step that leaves a queue's holders, counter and jobs alone.
LEMMA Untouched ==
  ASSUME NEW q \in Queues, QueueOK(q),
         Executing(q)' = Executing(q), FirstPushing(q)' = FirstPushing(q),
         Registered(q)' = Registered(q), Announcing(q)' = Announcing(q),
         count'[q] = count[q], jobs'[q] = jobs[q],
         \A t \in Executing(q) : exec'[t].size = exec[t].size
  PROVE  QueueOK(q)'
BY DEF QueueOK, OneHolder, CountExact, Held

\* Of the four sets, each depends on one field of one call per thread.
LEMMA SameHolders ==
  ASSUME NEW q \in Queues, QueueOK(q), UNCHANGED <<jobs, count, globalQueue>>,
         \A t \in Threads : /\ push'[t].at = push[t].at /\ push'[t].to = push[t].to
                            /\ push'[t].prev = push[t].prev
                            /\ exec'[t].on = exec[t].on
                            /\ exec'[t].size = exec[t].size
  PROVE  QueueOK(q)'
<1>1. /\ Executing(q)' = Executing(q) /\ FirstPushing(q)' = FirstPushing(q)
      /\ Announcing(q)' = Announcing(q)
  BY DEF Executing, FirstPushing, Announcing
<1>2. Registered(q)' = Registered(q)
  BY DEF Registered
<1>3. Executing(q) \subseteq Threads
  BY DEF Executing
<1>4. QED
  BY <1>1, <1>2, <1>3, Untouched

\* Appending to the GlobalQueue registers the appended queue once more and
\* no other.
LEMMA AppendRegisters ==
  ASSUME TypeOK, NEW p \in Queues, globalQueue' = Append(globalQueue, p),
         NEW q \in Queues
  PROVE  Registered(q)' = IF q = p THEN Registered(q) \cup {Len(globalQueue) + 1}
                          ELSE Registered(q)
<1>1. /\ globalQueue \in Seq(Queues) /\ globalQueue' \in Seq(Queues)
      /\ Len(globalQueue') = Len(globalQueue) + 1
      /\ \A i \in 1 .. Len(globalQueue) : globalQueue'[i] = globalQueue[i]
      /\ globalQueue'[Len(globalQueue) + 1] = p
  BY AppendProperties DEF TypeOK
<1>2. /\ DOMAIN globalQueue = 1 .. Len(globalQueue)
      /\ DOMAIN globalQueue' = 1 .. Len(globalQueue) + 1
      /\ Len(globalQueue) \in Nat
  BY <1>1, LenProperties
<1>3. QED
  BY <1>1, <1>2 DEF Registered

\* Pop takes the registration at the head away and shifts the others.
LEMMA PopRegisters ==
  ASSUME TypeOK, globalQueue # <<>>, globalQueue' = Tail(globalQueue),
         NEW q \in Queues, OneHolder(q)
  PROVE  /\ q = Head(globalQueue) => Registered(q) # {} /\ Registered(q)' = {}
         /\ q # Head(globalQueue) =>
              /\ Registered(q)' # {} <=> Registered(q) # {}
              /\ \A i, j \in Registered(q)' : i = j
<1>1. /\ globalQueue \in Seq(Queues) /\ globalQueue' \in Seq(Queues)
      /\ Len(globalQueue') = Len(globalQueue) - 1
      /\ \A i \in 1 .. Len(globalQueue') : globalQueue'[i] = globalQueue[i + 1]
      /\ Len(globalQueue) \in Nat /\ Len(globalQueue) > 0
      /\ Head(globalQueue) = globalQueue[1]
  BY HeadTailProperties, EmptySeq DEF TypeOK
<1>2. /\ DOMAIN globalQueue = 1 .. Len(globalQueue)
      /\ DOMAIN globalQueue' = 1 .. Len(globalQueue) - 1
  BY <1>1, LenProperties
<1>3. \A i \in Registered(q)' : i \in Nat /\ i > 0 /\ i + 1 \in Registered(q)
  BY <1>1, <1>2 DEF Registered
<1>4. \A i \in Registered(q) :
        /\ i \in Nat /\ i > 0
        /\ i # 1 => i - 1 \in Registered(q)'
  BY <1>1, <1>2 DEF Registered
<1>5. 1 \in Registered(q) <=> q = Head(globalQueue)
  BY <1>1, <1>2 DEF Registered
<1>6. \A i, j \in Registered(q) : i = j
  BY DEF OneHolder
<1>7. CASE q = Head(globalQueue)
  <2>1. Registered(q) # {}
    BY <1>5, <1>7
  <2>2. ASSUME NEW i \in Registered(q)' PROVE FALSE
    <3>1. i + 1 = 1
      BY <1>3, <1>5, <1>6, <1>7
    <3>2. QED
      BY <1>3, <3>1
  <2>3. QED
    BY <1>7, <2>1, <2>2
<1>8. CASE q # Head(globalQueue)
  <2>1. Registered(q)' # {} <=> Registered(q) # {}
    <3>1. Registered(q)' # {} => Registered(q) # {}
      BY <1>3
    <3>2. ASSUME NEW i \in Registered(q) PROVE Registered(q)' # {}
      <4>1. i # 1
        BY <1>5, <1>8
      <4>2. i - 1 \in Registered(q)'
        BY <1>4, <4>1
      <4>3. QED
        BY <4>2
    <3>3. QED
      BY <3>1, <3>2
  <2>2. ASSUME NEW i \in Registered(q)', NEW j \in Registered(q)' PROVE i = j
    <3>1. i + 1 = j + 1
      BY <1>3, <1>6
    <3>2. QED
      BY <1>3, <3>1
  <2>3. QED
    BY <1>8, <2>1, <2>2
<1>9. QED
  BY <1>7, <1>8

\* The sizes the counter adds up are natural numbers.
LEMMA Naturals ==
  ASSUME TypeOK, NEW q \in Queues
  PROVE  /\ count[q] \in Nat
         /\ Len(jobs[q]) \in Nat
         /\ Cardinality(Announcing(q)) \in Nat
         /\ \A t \in Executing(q) : exec[t].size \in Nat
<1>1. jobs[q] \in Seq(Job) /\ count[q] \in Nat
  BY DEF TypeOK
<1>2. \A t \in Executing(q) : exec[t].size \in Nat
  BY DEF TypeOK, Executing, ExecuteCall
<1>3. QED
  BY <1>1, <1>2, AnnouncingFinite, LenProperties

\* The fetch_add of a Push that finds the queue idle takes the right to run it;
\* any other leaves that right where it is.
LEMMA PushCountHolders ==
  ASSUME IndInv, NEW t \in Threads, NEW p \in Queues, PushCount(t, p),
         NEW q \in Queues
  PROVE  QueueOK(q)'
<1>0. TypeOK /\ Frames /\ QueueOK(q)
  BY DEF IndInv
<1>1. /\ push' = [push EXCEPT ![t] = [at |-> "enqueue", to |-> p,
                                     prev |-> count[p], id |-> issued]]
      /\ push[t].at = "out" /\ push[t].to = NoQueue
      /\ count' = [count EXCEPT ![p] = @ + 1]
      /\ UNCHANGED <<jobs, globalQueue, exec>>
  BY <1>0 DEF PushCount, MayPush, Frames
<1>2. Executing(q)' = Executing(q) /\ Registered(q)' = Registered(q)
  BY <1>1 DEF Executing, Registered
<1>3. CASE q # p
  <2>1. FirstPushing(q)' = FirstPushing(q) /\ Announcing(q)' = Announcing(q)
    BY <1>0, <1>1, <1>3, NoQueueIsNone DEF FirstPushing, Announcing, TypeOK
  <2>2. count'[q] = count[q]
    BY <1>0, <1>1, <1>3 DEF TypeOK
  <2>3. QED
    BY <1>0, <1>1, <1>2, <2>1, <2>2, Untouched
<1>4. CASE q = p
  <2>1. t \notin Announcing(q) /\ Announcing(q)' = Announcing(q) \cup {t}
    BY <1>0, <1>1, <1>4 DEF Announcing, TypeOK
  <2>2. Cardinality(Announcing(q)') = Cardinality(Announcing(q)) + 1
    BY <2>1, AnnouncingFinite, FS_AddElement
  <2>3. count'[q] = count[q] + 1
    BY <1>0, <1>1, <1>4 DEF TypeOK
  <2>4. CountExact(q)'
    <3>1. /\ count[q] \in Nat /\ Len(jobs[q]) \in Nat
          /\ Cardinality(Announcing(q)) \in Nat
      BY <1>0, Naturals
    <3>2. ASSUME NEW u \in Executing(q)
          PROVE  count'[q] = Len(jobs'[q]) + exec'[u].size + Cardinality(Announcing(q)')
      <4>1. /\ exec'[u].size = exec[u].size /\ exec[u].size \in Nat
            /\ count[q] = Len(jobs[q]) + exec[u].size + Cardinality(Announcing(q))
        BY <1>0, <1>1, Naturals DEF QueueOK, CountExact
      <4>2. QED
        BY <1>1, <2>2, <2>3, <3>1, <4>1
    <3>3. Executing(q) = {} => count'[q] = Len(jobs'[q]) + Cardinality(Announcing(q)')
      BY <1>0, <1>1, <2>2, <2>3, <3>1 DEF QueueOK, CountExact
    <3>4. QED
      BY <1>2, <3>2, <3>3 DEF CountExact
  <2>5. FirstPushing(q)' = IF count[q] = 0 THEN FirstPushing(q) \cup {t} ELSE FirstPushing(q)
    BY <1>0, <1>1, <1>4, NoQueueIsNone DEF FirstPushing, TypeOK
  <2>6. CASE count[q] = 0
    <3>1. Executing(q) = {} /\ FirstPushing(q) = {} /\ Registered(q) = {}
      BY <1>0, <2>6 DEF QueueOK, Held
    <3>2. Executing(q)' = {} /\ FirstPushing(q)' = {t} /\ Registered(q)' = {}
      BY <1>2, <2>5, <2>6, <3>1
    <3>3. count'[q] # 0
      BY <2>3, <2>6
    <3>4. QED
      BY <2>4, <3>2, <3>3 DEF QueueOK, OneHolder, Held
  <2>7. CASE count[q] # 0
    <3>1. FirstPushing(q)' = FirstPushing(q)
      BY <2>5, <2>7
    <3>2. count'[q] # 0
      BY <1>0, <2>3, Naturals
    <3>3. QED
      BY <1>0, <1>2, <2>4, <2>7, <3>1, <3>2 DEF QueueOK, OneHolder, Held
  <2>8. QED
    BY <2>6, <2>7
<1>5. QED
  BY <1>3, <1>4

\* Jobs.push under Mutex turns an announced job into one in Jobs.
LEMMA PushEnqueueHolders ==
  ASSUME IndInv, NEW t \in Threads, PushEnqueue(t), NEW q \in Queues
  PROVE  QueueOK(q)'
<1>0. TypeOK /\ QueueOK(q)
  BY DEF IndInv
<1>1. /\ push[t].at = "enqueue" /\ push' = [push EXCEPT ![t].at = "decide"]
      /\ jobs' = [jobs EXCEPT ![push[t].to] = Append(@, [by |-> t, id |-> push[t].id])]
      /\ UNCHANGED <<count, globalQueue, exec>>
  BY DEF PushEnqueue
<1>2. /\ Executing(q)' = Executing(q) /\ Registered(q)' = Registered(q)
      /\ FirstPushing(q)' = FirstPushing(q)
  BY <1>0, <1>1 DEF Executing, Registered, FirstPushing, TypeOK
<1>3. CASE q # push[t].to
  <2>1. Announcing(q)' = Announcing(q)
    BY <1>0, <1>1, <1>3 DEF Announcing, TypeOK
  <2>2. jobs'[q] = jobs[q]
    BY <1>0, <1>1, <1>3 DEF TypeOK
  <2>3. QED
    BY <1>0, <1>1, <1>2, <2>1, <2>2, Untouched
<1>4. CASE q = push[t].to
  <2>1. t \in Announcing(q) /\ Announcing(q)' = Announcing(q) \ {t}
    BY <1>0, <1>1, <1>4 DEF Announcing, TypeOK
  <2>2. Cardinality(Announcing(q)') = Cardinality(Announcing(q)) - 1
    BY <2>1, AnnouncingFinite, FS_RemoveElement
  <2>3. [by |-> t, id |-> push[t].id] \in Job
    BY <1>0 DEF Job, PushCall, TypeOK
  <2>4. Len(jobs'[q]) = Len(jobs[q]) + 1
    BY <1>0, <1>1, <1>4, <2>3, AppendProperties DEF TypeOK
  <2>5. CountExact(q)'
    <3>1. /\ count[q] \in Nat /\ Len(jobs[q]) \in Nat
          /\ Cardinality(Announcing(q)) \in Nat
      BY <1>0, Naturals
    <3>2. ASSUME NEW u \in Executing(q)
          PROVE  count'[q] = Len(jobs'[q]) + exec'[u].size + Cardinality(Announcing(q)')
      <4>1. /\ exec'[u].size = exec[u].size /\ exec[u].size \in Nat
            /\ count[q] = Len(jobs[q]) + exec[u].size + Cardinality(Announcing(q))
        BY <1>0, <1>1, Naturals DEF QueueOK, CountExact
      <4>2. QED
        BY <1>1, <2>2, <2>4, <3>1, <4>1
    <3>3. Executing(q) = {} => count'[q] = Len(jobs'[q]) + Cardinality(Announcing(q)')
      BY <1>0, <1>1, <2>2, <2>4, <3>1 DEF QueueOK, CountExact
    <3>4. QED
      BY <1>2, <3>2, <3>3 DEF CountExact
  <2>6. QED
    BY <1>0, <1>1, <1>2, <2>5 DEF QueueOK, OneHolder, Held
<1>5. QED
  BY <1>3, <1>4

\* The Push that found the queue idle either runs it or registers it.
LEMMA PushDecideHolders ==
  ASSUME IndInv, NEW t \in Threads, PushDecide(t), NEW q \in Queues
  PROVE  QueueOK(q)'
<1>0. TypeOK /\ Frames /\ QueueOK(q)
  BY DEF IndInv
<1>1. /\ push[t].at = "decide" /\ push' = [push EXCEPT ![t] = NotPushing]
      /\ UNCHANGED <<jobs, count>>
      /\ push[t].to \in Queues /\ exec[t].at \in {"job", "out"}
  BY <1>0 DEF PushDecide, Frames, TypeOK, PushCall
<1>2. Announcing(q)' = Announcing(q)
  BY <1>0, <1>1 DEF Announcing, NotPushing, TypeOK
<1>3. FirstPushing(q)' = FirstPushing(q) \ {t}
  BY <1>0, <1>1, NoQueueIsNone DEF FirstPushing, NotPushing, TypeOK
<1>4. t \in FirstPushing(q) <=> push[t].to = q /\ push[t].prev = 0
  BY DEF FirstPushing
<1>5. CASE UNCHANGED <<globalQueue, exec>> /\ push[t].prev # 0
  <2>1. /\ Executing(q)' = Executing(q) /\ Registered(q)' = Registered(q)
        /\ FirstPushing(q)' = FirstPushing(q)
    BY <1>3, <1>4, <1>5 DEF Executing, Registered
  <2>2. QED
    BY <1>0, <1>1, <1>2, <1>5, <2>1, Untouched
<1>6. CASE /\ push[t].prev = 0 /\ current[t] = NoQueue
           /\ EnterExecute(t, push[t].to) /\ UNCHANGED globalQueue
  <2>1. exec[t].on = NoQueue
    BY <1>0, <1>1, <1>6, NoQueueIsNone DEF Frames
  <2>2. exec' = [exec EXCEPT ![t] = [at |-> "drain", on |-> push[t].to,
                                     batch |-> <<>>, size |-> 0]]
    BY <1>6 DEF EnterExecute
  <2>3. Registered(q)' = Registered(q)
    BY <1>6 DEF Registered
  <2>4. CASE push[t].to # q
    <3>1. Executing(q)' = Executing(q) /\ FirstPushing(q)' = FirstPushing(q)
      BY <1>0, <1>3, <1>4, <2>1, <2>2, <2>4, NoQueueIsNone DEF Executing, TypeOK
    <3>2. \A u \in Executing(q) : exec'[u].size = exec[u].size
      BY <1>0, <2>1, <2>2, NoQueueIsNone DEF Executing, TypeOK
    <3>3. QED
      BY <1>0, <1>1, <1>2, <2>3, <3>1, <3>2, Untouched
  <2>5. CASE push[t].to = q
    <3>1. /\ Executing(q) = {} /\ Registered(q) = {} /\ FirstPushing(q) = {t}
          /\ count[q] # 0
      BY <1>0, <1>4, <1>6, <2>5 DEF QueueOK, OneHolder, Held
    <3>2. Executing(q)' = {t} /\ FirstPushing(q)' = {} /\ exec'[t].size = 0
      BY <1>0, <1>3, <2>2, <2>5, <3>1 DEF Executing, TypeOK
    <3>3. count[q] = Len(jobs[q]) + Cardinality(Announcing(q))
      BY <1>0, <3>1 DEF QueueOK, CountExact
    <3>4. count[q] = Len(jobs[q]) + 0 + Cardinality(Announcing(q))
      BY <1>0, <3>3, Naturals
    <3>5. CountExact(q)'
      BY <1>1, <1>2, <3>2, <3>4 DEF CountExact
    <3>6. OneHolder(q)' /\ Held(q)' /\ count'[q] # 0
      BY <1>1, <2>3, <3>1, <3>2 DEF OneHolder, Held
    <3>7. QED
      BY <3>5, <3>6 DEF QueueOK
  <2>6. QED
    BY <2>4, <2>5
<1>7. CASE /\ push[t].prev = 0 /\ globalQueue' = Append(globalQueue, push[t].to)
           /\ UNCHANGED exec
  <2>1. Executing(q)' = Executing(q)
    BY <1>7 DEF Executing
  <2>2. CASE push[t].to # q
    <3>1. Registered(q)' = Registered(q) /\ FirstPushing(q)' = FirstPushing(q)
      BY <1>0, <1>1, <1>3, <1>4, <1>7, <2>2, AppendRegisters
    <3>2. QED
      BY <1>0, <1>1, <1>2, <1>7, <2>1, <3>1, Untouched
  <2>3. CASE push[t].to = q
    <3>1. /\ Executing(q) = {} /\ Registered(q) = {} /\ FirstPushing(q) = {t}
          /\ count[q] # 0
      BY <1>0, <1>4, <1>7, <2>3 DEF QueueOK, OneHolder, Held
    <3>2. Registered(q)' = {Len(globalQueue) + 1} /\ FirstPushing(q)' = {}
      BY <1>0, <1>3, <1>7, <2>3, <3>1, AppendRegisters
    <3>3. CountExact(q)'
      BY <1>0, <1>1, <1>2, <1>7, <2>1, <3>1 DEF QueueOK, CountExact
    <3>4. OneHolder(q)' /\ Held(q)' /\ count'[q] # 0
      BY <1>1, <2>1, <3>1, <3>2 DEF OneHolder, Held
    <3>5. QED
      BY <3>3, <3>4 DEF QueueOK
  <2>4. QED
    BY <2>2, <2>3
<1>8. QED
  BY <1>5, <1>6, <1>7 DEF PushDecide

\* Moving Jobs into the batch moves their count from Len(Jobs) to iJobSize.
LEMMA ExecuteDrainHolders ==
  ASSUME IndInv, NEW t \in Threads, ExecuteDrain(t), NEW q \in Queues
  PROVE  QueueOK(q)'
<1>0. TypeOK /\ Frames /\ QueueOK(q)
  BY DEF IndInv
<1>1. /\ exec' = [exec EXCEPT ![t] = [at |-> "run", on |-> exec[t].on,
                                     batch |-> jobs[exec[t].on],
                                     size |-> Len(jobs[exec[t].on])]]
      /\ jobs' = [jobs EXCEPT ![exec[t].on] = <<>>]
      /\ UNCHANGED <<count, globalQueue, push>>
      /\ exec[t].size = 0
  BY <1>0 DEF ExecuteDrain, Frames
<1>2. /\ Registered(q)' = Registered(q) /\ FirstPushing(q)' = FirstPushing(q)
      /\ Announcing(q)' = Announcing(q)
  BY <1>1 DEF Registered, FirstPushing, Announcing
<1>3. Executing(q)' = Executing(q)
  BY <1>0, <1>1 DEF Executing, TypeOK
<1>4. CASE exec[t].on # q
  <2>1. \A u \in Executing(q) : exec'[u].size = exec[u].size
    BY <1>0, <1>1, <1>4 DEF Executing, TypeOK
  <2>2. jobs'[q] = jobs[q]
    BY <1>0, <1>1, <1>4 DEF TypeOK
  <2>3. QED
    BY <1>0, <1>1, <1>2, <1>3, <2>1, <2>2, Untouched
<1>5. CASE exec[t].on = q
  <2>1. Executing(q) = {t}
    BY <1>0, <1>5 DEF Executing, QueueOK, OneHolder
  <2>2. /\ jobs'[q] = <<>> /\ Len(<<>>) = 0
        /\ exec'[t].size = Len(jobs[q])
    BY <1>0, <1>1, <1>5 DEF TypeOK
  <2>3. count[q] = Len(jobs[q]) + 0 + Cardinality(Announcing(q))
    BY <1>0, <1>1, <2>1 DEF QueueOK, CountExact
  <2>4. count'[q] = 0 + exec'[t].size + Cardinality(Announcing(q)')
    BY <1>0, <1>1, <1>2, <2>2, <2>3, Naturals
  <2>5. CountExact(q)'
    BY <1>3, <2>1, <2>2, <2>4 DEF CountExact
  <2>6. QED
    BY <1>0, <1>1, <1>2, <1>3, <2>5 DEF QueueOK, OneHolder, Held
<1>6. QED
  BY <1>4, <1>5

\* The fetch_sub lets go of the queue exactly when nothing is counted any more.
LEMMA ExecuteSubtractHolders ==
  ASSUME IndInv, NEW t \in Threads, ExecuteSubtract(t), NEW q \in Queues
  PROVE  QueueOK(q)'
<1>0. TypeOK /\ Frames /\ QueueOK(q)
  BY DEF IndInv
<1>1. /\ exec[t].at = "sub" /\ exec[t].on \in Queues
      /\ count' = [count EXCEPT ![exec[t].on] = @ - exec[t].size]
      /\ UNCHANGED <<jobs, globalQueue, push>>
  BY <1>0 DEF ExecuteSubtract, Frames, TypeOK, ExecuteCall
<1>2. /\ Registered(q)' = Registered(q) /\ FirstPushing(q)' = FirstPushing(q)
      /\ Announcing(q)' = Announcing(q)
  BY <1>1 DEF Registered, FirstPushing, Announcing
<1>3. \/ /\ count[exec[t].on] = exec[t].size
         /\ exec' = [exec EXCEPT ![t] = NotExecuting]
      \/ /\ count[exec[t].on] # exec[t].size
         /\ exec' = [exec EXCEPT ![t] = [exec[t] EXCEPT !.at = "tick", !.size = 0]]
  BY <1>0 DEF ExecuteSubtract, TypeOK
<1>4. CASE exec[t].on # q
  <2>1. \A u \in Threads \ {t} : exec'[u] = exec[u]
    BY <1>0, <1>3 DEF TypeOK
  <2>2. exec'[t].on \in {exec[t].on, NoQueue}
    <3>1. CASE exec' = [exec EXCEPT ![t] = NotExecuting]
      BY <1>0, <3>1 DEF TypeOK, NotExecuting
    <3>2. CASE exec' = [exec EXCEPT ![t] = [exec[t] EXCEPT !.at = "tick", !.size = 0]]
      BY <1>0, <3>2 DEF TypeOK, ExecuteCall
    <3>3. QED
      BY <1>3, <3>1, <3>2
  <2>3. /\ Executing(q)' = Executing(q)
        /\ \A u \in Executing(q) : exec'[u].size = exec[u].size
    BY <1>4, <2>1, <2>2, NoQueueIsNone DEF Executing
  <2>4. count'[q] = count[q]
    BY <1>0, <1>1, <1>4 DEF TypeOK
  <2>5. QED
    BY <1>0, <1>1, <1>2, <2>3, <2>4, Untouched
<1>5. CASE exec[t].on = q
  <2>1. /\ Executing(q) = {t} /\ FirstPushing(q) = {} /\ Registered(q) = {}
        /\ count[q] = Len(jobs[q]) + exec[t].size + Cardinality(Announcing(q))
    BY <1>0, <1>5 DEF Executing, QueueOK, OneHolder, CountExact
  <2>2. /\ count[q] \in Nat /\ Len(jobs[q]) \in Nat /\ exec[t].size \in Nat
        /\ Cardinality(Announcing(q)) \in Nat
    BY <1>0, <2>1, Naturals
  <2>3. count'[q] = count[q] - exec[t].size
    BY <1>0, <1>1, <1>5 DEF TypeOK
  <2>4. count'[q] = Len(jobs'[q]) + Cardinality(Announcing(q)')
    BY <1>1, <1>2, <2>1, <2>2, <2>3
  <2>5. CASE count[q] = exec[t].size
    <3>1. exec' = [exec EXCEPT ![t] = NotExecuting]
      BY <1>3, <1>5, <2>5
    <3>2. Executing(q)' = {}
      BY <1>0, <2>1, <3>1, NoQueueIsNone DEF Executing, NotExecuting, TypeOK
    <3>3. count'[q] = 0
      BY <2>2, <2>3, <2>5
    <3>4. QED
      BY <1>2, <2>1, <2>4, <3>2, <3>3 DEF QueueOK, OneHolder, CountExact, Held
  <2>6. CASE count[q] # exec[t].size
    <3>1. exec' = [exec EXCEPT ![t] = [exec[t] EXCEPT !.at = "tick", !.size = 0]]
      BY <1>3, <1>5, <2>6
    <3>2. /\ exec'[t].on = exec[t].on /\ exec'[t].size = 0
          /\ \A u \in Threads \ {t} : exec'[u] = exec[u]
      BY <1>0, <3>1 DEF TypeOK, ExecuteCall
    <3>3. Executing(q)' = {t}
      BY <2>1, <3>2 DEF Executing
    <3>4. count'[q] # 0
      BY <2>2, <2>3, <2>6
    <3>5. count'[q] = Len(jobs'[q]) + exec'[t].size + Cardinality(Announcing(q)')
      BY <1>1, <1>2, <2>2, <2>4, <3>2
    <3>6. CountExact(q)'
      BY <3>3, <3>5 DEF CountExact
    <3>7. OneHolder(q)' /\ Held(q)'
      BY <1>2, <2>1, <3>3 DEF OneHolder, Held
    <3>8. QED
      BY <3>4, <3>6, <3>7 DEF QueueOK
  <2>7. QED
    BY <2>5, <2>6
<1>6. QED
  BY <1>4, <1>5

\* The hand-over turns the Execute call into a registration.
LEMMA ExecuteRequeueHolders ==
  ASSUME IndInv, NEW t \in Threads, ExecuteRequeue(t), NEW q \in Queues
  PROVE  QueueOK(q)'
<1>0. TypeOK /\ Frames /\ QueueOK(q)
  BY DEF IndInv
<1>1. /\ exec[t].at = "requeue" /\ exec[t].on \in Queues /\ exec[t].size = 0
      /\ globalQueue' = Append(globalQueue, exec[t].on)
      /\ exec' = [exec EXCEPT ![t] = NotExecuting]
      /\ UNCHANGED <<jobs, count, push>>
  BY <1>0 DEF ExecuteRequeue, Frames, TypeOK, ExecuteCall
<1>2. FirstPushing(q)' = FirstPushing(q) /\ Announcing(q)' = Announcing(q)
  BY <1>1 DEF FirstPushing, Announcing
<1>3. Executing(q)' = Executing(q) \ {t}
  BY <1>0, <1>1, NoQueueIsNone DEF Executing, NotExecuting, TypeOK
<1>4. CASE exec[t].on # q
  <2>1. t \notin Executing(q)
    BY <1>4 DEF Executing
  <2>2. /\ Executing(q)' = Executing(q)
        /\ \A u \in Executing(q) : exec'[u].size = exec[u].size
    BY <1>0, <1>1, <1>3, <2>1 DEF Executing, TypeOK
  <2>3. Registered(q)' = Registered(q)
    BY <1>0, <1>1, <1>4, AppendRegisters
  <2>4. QED
    BY <1>0, <1>1, <1>2, <2>2, <2>3, Untouched
<1>5. CASE exec[t].on = q
  <2>1. /\ Executing(q) = {t} /\ FirstPushing(q) = {} /\ Registered(q) = {}
        /\ count[q] = Len(jobs[q]) + exec[t].size + Cardinality(Announcing(q))
        /\ count[q] # 0
    BY <1>0, <1>5 DEF Executing, QueueOK, OneHolder, CountExact, Held
  <2>2. count'[q] = Len(jobs'[q]) + Cardinality(Announcing(q)')
    BY <1>0, <1>1, <1>2, <2>1, Naturals
  <2>3. Executing(q)' = {} /\ Registered(q)' = {Len(globalQueue) + 1}
    BY <1>0, <1>1, <1>3, <1>5, <2>1, AppendRegisters
  <2>4. OneHolder(q)' /\ Held(q)' /\ CountExact(q)'
    BY <1>2, <2>1, <2>2, <2>3 DEF OneHolder, Held, CountExact
  <2>5. QED
    BY <1>1, <2>1, <2>4 DEF QueueOK
<1>6. QED
  BY <1>4, <1>5

\* Pop turns the registration at the head into an Execute call.
LEMMA LoopPopHolders ==
  ASSUME IndInv, NEW t \in Threads, LoopPop(t), NEW q \in Queues
  PROVE  QueueOK(q)'
<1>0. TypeOK /\ Frames /\ QueueOK(q)
  BY DEF IndInv
<1>1. UNCHANGED <<jobs, count, push>> /\ exec[t].on = NoQueue
  BY <1>0 DEF LoopPop, Frames
<1>2. FirstPushing(q)' = FirstPushing(q) /\ Announcing(q)' = Announcing(q)
  BY <1>1 DEF FirstPushing, Announcing
<1>3. CASE globalQueue = <<>>
  <2>1. UNCHANGED <<globalQueue, exec>>
    BY <1>3 DEF LoopPop
  <2>2. QED
    BY <1>0, <1>1, <2>1, SameHolders
<1>4. CASE globalQueue # <<>>
  <2>1. /\ globalQueue' = Tail(globalQueue)
        /\ exec' = [exec EXCEPT ![t] = [at |-> "drain", on |-> Head(globalQueue),
                                       batch |-> <<>>, size |-> 0]]
    BY <1>4 DEF LoopPop, EnterExecute
  <2>2. OneHolder(q)
    BY <1>0 DEF QueueOK
  <2>3. CASE q # Head(globalQueue)
    <3>1. /\ Executing(q)' = Executing(q)
          /\ \A u \in Executing(q) : exec'[u].size = exec[u].size
      BY <1>0, <1>1, <2>1, <2>3, NoQueueIsNone DEF Executing, TypeOK
    <3>2. /\ Registered(q)' # {} <=> Registered(q) # {}
          /\ \A i, j \in Registered(q)' : i = j
      BY <1>0, <1>4, <2>1, <2>2, <2>3, PopRegisters
    <3>3. CountExact(q)'
      BY <1>0, <1>1, <1>2, <3>1 DEF QueueOK, CountExact
    <3>4. OneHolder(q)' /\ (Held(q)' <=> Held(q))
      BY <1>2, <2>2, <3>1, <3>2 DEF OneHolder, Held
    <3>5. QED
      BY <1>0, <1>1, <3>3, <3>4 DEF QueueOK
  <2>4. CASE q = Head(globalQueue)
    <3>1. Registered(q) # {} /\ Registered(q)' = {}
      BY <1>0, <1>4, <2>1, <2>2, <2>4, PopRegisters
    <3>2. Executing(q) = {} /\ FirstPushing(q) = {} /\ count[q] # 0
      BY <1>0, <3>1 DEF QueueOK, OneHolder, Held
    <3>3. Executing(q)' = {t} /\ exec'[t].size = 0
      BY <1>0, <2>1, <2>4, <3>2 DEF Executing, TypeOK
    <3>4. count[q] = Len(jobs[q]) + 0 + Cardinality(Announcing(q))
      BY <1>0, <3>2, Naturals DEF QueueOK, CountExact
    <3>5. CountExact(q)'
      BY <1>1, <1>2, <3>3, <3>4 DEF CountExact
    <3>6. OneHolder(q)' /\ Held(q)'
      BY <1>2, <3>1, <3>2, <3>3 DEF OneHolder, Held
    <3>7. QED
      BY <1>1, <3>2, <3>5, <3>6 DEF QueueOK
  <2>5. QED
    BY <2>3, <2>4
<1>5. QED
  BY <1>3, <1>4

\* Every step keeps every queue held once and exactly while it is counted.
LEMMA QueueStep ==
  ASSUME IndInv, [Next]_vars, NEW q \in Queues
  PROVE  QueueOK(q)'
<1>0. TypeOK /\ QueueOK(q)
  BY DEF IndInv
<1>1. CASE UNCHANGED vars
  BY <1>0, <1>1, SameHolders DEF vars
<1>2. ASSUME NEW t \in Threads, ExecuteNext(t) PROVE QueueOK(q)'
  <2>1. PICK a \in {"sub", "job"} : exec' = [exec EXCEPT ![t].at = a]
    BY <1>2 DEF ExecuteNext
  <2>2. \A u \in Threads : exec'[u].on = exec[u].on /\ exec'[u].size = exec[u].size
    BY <1>0, <2>1 DEF TypeOK, ExecuteCall
  <2>3. QED
    BY <1>0, <1>2, <2>2, SameHolders DEF ExecuteNext
<1>3. ASSUME NEW t \in Threads, ExecuteJobReturn(t) PROVE QueueOK(q)'
  <2>1. exec' = [exec EXCEPT ![t] = [exec[t] EXCEPT !.at = "run", !.batch = Tail(@)]]
    BY <1>0, <1>3 DEF ExecuteJobReturn, TypeOK
  <2>2. \A u \in Threads : exec'[u].on = exec[u].on /\ exec'[u].size = exec[u].size
    BY <1>0, <2>1 DEF TypeOK, ExecuteCall
  <2>3. QED
    BY <1>0, <1>3, <2>2, SameHolders DEF ExecuteJobReturn
<1>4. ASSUME NEW t \in Threads, ExecuteTick(t) PROVE QueueOK(q)'
  <2>1. PICK a \in {"drain", "requeue"} : exec' = [exec EXCEPT ![t].at = a]
    BY <1>4 DEF ExecuteTick
  <2>2. \A u \in Threads : exec'[u].on = exec[u].on /\ exec'[u].size = exec[u].size
    BY <1>0, <2>1 DEF TypeOK, ExecuteCall
  <2>3. QED
    BY <1>0, <1>4, <2>2, SameHolders DEF ExecuteTick
<1>5. ASSUME NEW t \in Threads, LoopHead(t) \/ PollReturn(t) \/ LoopPopped(t)
      PROVE  QueueOK(q)'
  BY <1>0, <1>5, SameHolders DEF LoopHead, PollReturn, LoopPopped
<1>6. CASE Stop
  BY <1>0, <1>6, SameHolders DEF Stop
<1>7. QED
  BY <1>1, <1>2, <1>3, <1>4, <1>5, <1>6, PushCountHolders, PushEnqueueHolders,
     PushDecideHolders, ExecuteDrainHolders, ExecuteSubtractHolders,
     ExecuteRequeueHolders, LoopPopHolders DEF Next, ThreadStep

\* The invariant holds in every reachable state.
LEMMA SpecIndInv == Spec => []IndInv
<1>1. IndInv /\ [Next]_vars => IndInv'
  BY TypeStep, FramesStep, QueueStep DEF IndInv
<1>2. QED
  BY InitIndInv, <1>1, PTL DEF Spec

\* The state of the job queues is well typed in every reachable state; in
\* particular iJobCount never drops below zero at a fetch_sub.
THEOREM SpecTypeOK == Spec => []TypeOK
<1>1. IndInv => TypeOK
  BY DEF IndInv
<1>2. QED
  BY SpecIndInv, <1>1, PTL

\* No two threads ever hold the right to run the same queue, for any number
\* of threads, queues and Push calls.
THEOREM SpecOneExecutor == Spec => []OneExecutor
<1>1. IndInv => OneExecutor
  BY DEF IndInv, QueueOK, OneExecutor
<1>2. QED
  BY SpecIndInv, <1>1, PTL

\* No queue with an unfinished job is ever left without a thread or a
\* GlobalQueue entry that will look at it.
THEOREM SpecNoStrandedQueue == Spec => []NoStrandedQueue
<1>1. IndInv => NoStrandedQueue
  BY DEF IndInv, QueueOK, NoStrandedQueue
<1>2. QED
  BY SpecIndInv, <1>1, PTL
===============================================================================
