------------------------------- MODULE JobQueue -------------------------------
(***************************************************************************)
(* ServerCore/JobQueue.cpp, GlobalQueue.cpp and the worker loop of         *)
(* ThreadManager.cpp: worker threads push jobs into queues, the thread     *)
(* that pushes the first job of an idle queue becomes its executor, and a  *)
(* queue whose executor runs out of its time slice is handed over through  *)
(* the GlobalQueue.                                                        *)
(*                                                                         *)
(* One step is one atomic operation, one critical section or one job       *)
(* boundary.  The clock is abstracted: a test of LEndTickCount may come    *)
(* out either way.  A job is the thread that pushed it with a serial       *)
(* number, so two jobs pushed by one thread are ordered.                   *)
(***************************************************************************)
EXTENDS Naturals, Sequences, FiniteSets

CONSTANTS Threads,   \* the worker threads
          Queues,    \* the JobQueue objects (Rooms)
          NoQueue,   \* nullptr
          MaxJobs    \* bound on the number of Push calls

ASSUME ThreadsFinite == IsFiniteSet(Threads)
ASSUME NoQueueIsNone == NoQueue \notin Queues
ASSUME NoQueueIsNoThread == NoQueue \notin Threads
ASSUME MaxJobsIsNat  == MaxJobs \in Nat

VARIABLES
  jobs,         \* jobs[q]: JobQueue::Jobs, guarded by Mutex
  count,        \* count[q]: JobQueue::iJobCount
  globalQueue,  \* GlobalQueue::JobQueues, guarded by its RW lock
  push,         \* push[t]: the Push call thread t is inside
  exec,         \* exec[t]: the Execute call thread t is inside
  current,      \* current[t]: thread_local LCurrentJobQueue
  loop,         \* loop[t]: where DoWorkerLoop of thread t is
  stopped,      \* Context.stopped()
  issued,       \* number of Push calls made so far
  done          \* done[q]: the jobs of q that have run (history)

vars == <<jobs, count, globalQueue, push, exec, current, loop, stopped,
          issued, done>>

Job == [by : Threads, id : Nat]

\* to: the queue; prev: iPrevCount; id: the serial number of the call
PushCall == [at : {"out", "enqueue", "decide"},
             to : Queues \cup {NoQueue}, prev : Nat, id : Nat]

\* on: this; batch: what is left of CurrentJobs; size: iJobSize
ExecuteCall == [at : {"out", "drain", "run", "job", "sub", "tick", "requeue"},
                on : Queues \cup {NoQueue}, batch : Seq(Job), size : Nat]

NotPushing == [at |-> "out", to |-> NoQueue, prev |-> 0, id |-> 0]
NotExecuting == [at |-> "out", on |-> NoQueue, batch |-> <<>>, size |-> 0]

TypeOK ==
  /\ jobs \in [Queues -> Seq(Job)]
  /\ count \in [Queues -> Nat]
  /\ globalQueue \in Seq(Queues)
  /\ push \in [Threads -> PushCall]
  /\ exec \in [Threads -> ExecuteCall]
  /\ current \in [Threads -> Queues \cup {NoQueue}]
  /\ loop \in [Threads -> {"head", "poll", "pop", "popped", "exited"}]
  /\ stopped \in BOOLEAN
  /\ issued \in Nat
  /\ done \in [Queues -> Seq(Job)]

Init ==
  /\ jobs = [q \in Queues |-> <<>>]
  /\ count = [q \in Queues |-> 0]
  /\ globalQueue = <<>>
  /\ push = [t \in Threads |-> NotPushing]
  /\ exec = [t \in Threads |-> NotExecuting]
  /\ current = [t \in Threads |-> NoQueue]
  /\ loop = [t \in Threads |-> "head"]
  /\ stopped = FALSE
  /\ issued = 0
  /\ done = [q \in Queues |-> <<>>]

-------------------------------------------------------------------------------
(* JobQueue::Push *)

\* A thread may call Push from an I/O handler that Context.poll() runs, or
\* from the job it is executing.
MayPush(t) == /\ push[t].at = "out"
              /\ \/ loop[t] = "poll" /\ exec[t].at = "out"
                 \/ exec[t].at = "job"

\* Mutant of PushCount: the length of Jobs decides, not the counter
PushByLength(t, q) ==
  /\ MayPush(t)
  /\ issued < MaxJobs
  /\ push' = [push EXCEPT ![t] = [at |-> "enqueue", to |-> q,
                                  prev |-> Len(jobs[q]), id |-> issued]]
  /\ count' = [count EXCEPT ![q] = @ + 1]
  /\ issued' = issued + 1
  /\ UNCHANGED <<jobs, globalQueue, exec, current, loop, stopped, done>>

\* iJobCount.fetch_add(1): the previous value is remembered
PushCount(t, q) ==
  /\ MayPush(t)
  /\ issued < MaxJobs
  /\ push' = [push EXCEPT ![t] = [at |-> "enqueue", to |-> q,
                                  prev |-> count[q], id |-> issued]]
  /\ count' = [count EXCEPT ![q] = @ + 1]
  /\ issued' = issued + 1
  /\ UNCHANGED <<jobs, globalQueue, exec, current, loop, stopped, done>>

\* Mutant of PushEnqueue: the newest job is put in front
PushInFront(t) ==
  /\ push[t].at = "enqueue"
  /\ jobs' = [jobs EXCEPT ![push[t].to] = <<[by |-> t, id |-> push[t].id]>> \o @]
  /\ push' = [push EXCEPT ![t].at = "decide"]
  /\ UNCHANGED <<count, globalQueue, exec, current, loop, stopped, issued, done>>

\* Jobs.push under Mutex
PushEnqueue(t) ==
  /\ push[t].at = "enqueue"
  /\ jobs' = [jobs EXCEPT ![push[t].to] =
                 Append(@, [by |-> t, id |-> push[t].id])]
  /\ push' = [push EXCEPT ![t].at = "decide"]
  /\ UNCHANGED <<count, globalQueue, exec, current, loop, stopped, issued, done>>

\* LCurrentJobQueue = this, and the local CurrentJobs is empty
EnterExecute(t, q) ==
  /\ exec' = [exec EXCEPT ![t] = [at |-> "drain", on |-> q,
                                  batch |-> <<>>, size |-> 0]]
  /\ current' = [current EXCEPT ![t] = q]

\* iPrevCount == 0: run it here, or register the queue when this thread is
\* inside another queue; otherwise the executor of the queue sees the job
PushDecide(t) ==
  /\ push[t].at = "decide"
  /\ push' = [push EXCEPT ![t] = NotPushing]
  /\ \/ /\ push[t].prev # 0
        /\ UNCHANGED <<globalQueue, exec, current>>
     \/ /\ push[t].prev = 0
        /\ current[t] = NoQueue
        /\ EnterExecute(t, push[t].to)
        /\ UNCHANGED globalQueue
     \/ /\ push[t].prev = 0
        /\ current[t] # NoQueue
        /\ globalQueue' = Append(globalQueue, push[t].to)
        /\ UNCHANGED <<exec, current>>
  /\ UNCHANGED <<jobs, count, loop, stopped, issued, done>>

-------------------------------------------------------------------------------
(* JobQueue::Execute *)

\* Mutant of ExecuteDrain: Jobs is copied, not moved
ExecuteCopy(t) ==
  LET q == exec[t].on IN
  /\ exec[t].at = "drain"
  /\ exec' = [exec EXCEPT ![t] = [at |-> "run", on |-> q, batch |-> jobs[q],
                                  size |-> Len(jobs[q])]]
  /\ UNCHANGED <<jobs, count, globalQueue, push, current, loop, stopped, issued,
                 done>>

\* all of Jobs moves to CurrentJobs in one critical section
ExecuteDrain(t) ==
  LET q == exec[t].on IN
  /\ exec[t].at = "drain"
  /\ exec' = [exec EXCEPT ![t] = [at |-> "run", on |-> q, batch |-> jobs[q],
                                  size |-> Len(jobs[q])]]
  /\ jobs' = [jobs EXCEPT ![q] = <<>>]
  /\ UNCHANGED <<count, globalQueue, push, current, loop, stopped, issued, done>>

\* the for loop: start the next job of the batch, or leave the loop
ExecuteNext(t) ==
  /\ exec[t].at = "run"
  /\ exec' = [exec EXCEPT ![t].at = IF exec[t].batch = <<>> THEN "sub" ELSE "job"]
  /\ UNCHANGED <<jobs, count, globalQueue, push, current, loop, stopped, issued,
                 done>>

\* CurrentJobs[i]->Execute() returns; a Push it made has returned before
ExecuteJobReturn(t) ==
  LET q == exec[t].on IN
  /\ exec[t].at = "job"
  /\ push[t].at = "out"
  /\ exec' = [exec EXCEPT ![t].at = "run", ![t].batch = Tail(@)]
  /\ done' = [done EXCEPT ![q] = Append(@, Head(exec[t].batch))]
  /\ UNCHANGED <<jobs, count, globalQueue, push, current, loop, stopped, issued>>

\* Mutant of ExecuteSubtract: an empty Jobs ends Execute, whatever the counter
\* says of jobs that are announced and not yet in Jobs
ExecuteEndsWhenEmpty(t) ==
  LET q == exec[t].on IN
  /\ exec[t].at = "sub"
  /\ count' = [count EXCEPT ![q] = @ - exec[t].size]
  /\ IF jobs[q] = <<>>
     THEN /\ exec' = [exec EXCEPT ![t] = NotExecuting]
          /\ current' = [current EXCEPT ![t] = NoQueue]
     ELSE /\ exec' = [exec EXCEPT ![t].at = "tick", ![t].size = 0]
          /\ UNCHANGED current
  /\ UNCHANGED <<jobs, globalQueue, push, loop, stopped, issued, done>>

\* iJobCount.fetch_sub(iJobSize) == iJobSize: nothing left, Execute returns
ExecuteSubtract(t) ==
  LET q == exec[t].on IN
  /\ exec[t].at = "sub"
  /\ count' = [count EXCEPT ![q] = @ - exec[t].size]
  /\ IF count[q] = exec[t].size
     THEN /\ exec' = [exec EXCEPT ![t] = NotExecuting]
          /\ current' = [current EXCEPT ![t] = NoQueue]
     ELSE /\ exec' = [exec EXCEPT ![t].at = "tick", ![t].size = 0]
          /\ UNCHANGED current
  /\ UNCHANGED <<jobs, globalQueue, push, loop, stopped, issued, done>>

\* Now >= LEndTickCount decides between another round and the hand-over
ExecuteTick(t) ==
  /\ exec[t].at = "tick"
  /\ \/ /\ exec' = [exec EXCEPT ![t].at = "drain"]
        /\ UNCHANGED current
     \/ /\ exec' = [exec EXCEPT ![t].at = "requeue"]
        /\ current' = [current EXCEPT ![t] = NoQueue]
  /\ UNCHANGED <<jobs, count, globalQueue, push, loop, stopped, issued, done>>

\* Mutant of ExecuteRequeue: Execute returns at the end of the time slice
\* without the Push into the GlobalQueue
ExecuteGivesUp(t) ==
  /\ exec[t].at = "requeue"
  /\ exec' = [exec EXCEPT ![t] = NotExecuting]
  /\ UNCHANGED <<jobs, count, globalQueue, push, current, loop, stopped, issued,
                 done>>

\* GGlobalQueue->Push(shared_from_this()), then Execute returns
ExecuteRequeue(t) ==
  /\ exec[t].at = "requeue"
  /\ globalQueue' = Append(globalQueue, exec[t].on)
  /\ exec' = [exec EXCEPT ![t] = NotExecuting]
  /\ UNCHANGED <<jobs, count, push, current, loop, stopped, issued, done>>

-------------------------------------------------------------------------------
(* ThreadManager::DoWorkerLoop *)

\* while (!Context.stopped())
LoopHead(t) ==
  /\ loop[t] = "head"
  /\ loop' = [loop EXCEPT ![t] = IF stopped THEN "exited" ELSE "poll"]
  /\ UNCHANGED <<jobs, count, globalQueue, push, exec, current, stopped, issued,
                 done>>

\* Context.poll() returns once the handlers it ran have returned
PollReturn(t) ==
  /\ loop[t] = "poll"
  /\ push[t].at = "out" /\ exec[t].at = "out"
  /\ loop' = [loop EXCEPT ![t] = "pop"]
  /\ UNCHANGED <<jobs, count, globalQueue, push, exec, current, stopped, issued,
                 done>>

\* GGlobalQueue->Pop(): nullptr ends the turn, a queue is executed
LoopPop(t) ==
  /\ loop[t] = "pop"
  /\ \/ /\ globalQueue = <<>>
        /\ loop' = [loop EXCEPT ![t] = "head"]
        /\ UNCHANGED <<globalQueue, exec, current>>
     \/ /\ globalQueue # <<>>
        /\ loop' = [loop EXCEPT ![t] = "popped"]
        /\ globalQueue' = Tail(globalQueue)
        /\ EnterExecute(t, Head(globalQueue))
  /\ UNCHANGED <<jobs, count, push, stopped, issued, done>>

\* back from Execute of a popped queue: break when the time is over
LoopPopped(t) ==
  /\ loop[t] = "popped"
  /\ exec[t].at = "out"
  /\ \E next \in {"pop", "head"} : loop' = [loop EXCEPT ![t] = next]
  /\ UNCHANGED <<jobs, count, globalQueue, push, exec, current, stopped, issued,
                 done>>

\* SIGINT or SIGTERM: Context.stop()
Stop ==
  /\ ~stopped
  /\ stopped' = TRUE
  /\ UNCHANGED <<jobs, count, globalQueue, push, exec, current, loop, issued, done>>

-------------------------------------------------------------------------------
\* What a scheduled thread goes on doing by itself
ThreadStep(t) == \/ PushEnqueue(t) \/ PushDecide(t)
                 \/ ExecuteDrain(t) \/ ExecuteNext(t) \/ ExecuteJobReturn(t)
                 \/ ExecuteSubtract(t) \/ ExecuteTick(t) \/ ExecuteRequeue(t)
                 \/ LoopHead(t) \/ PollReturn(t) \/ LoopPop(t) \/ LoopPopped(t)

Next == \/ \E t \in Threads : \/ \E q \in Queues : PushCount(t, q)
                              \/ ThreadStep(t)
        \/ Stop

Spec == Init /\ [][Next]_vars

\* The operating system schedules every worker; handlers and jobs return.
\* Nothing makes a client send, so PushCount is not fair, and nothing stops
\* the server, so Stop is not.
FairSpec == Spec /\ \A t \in Threads : WF_vars(ThreadStep(t))

-------------------------------------------------------------------------------
(* Properties *)

Executing(q) == {t \in Threads : exec[t].on = q}

\* the Push call whose fetch_add returned 0 owes the queue an executor
FirstPushing(q) == {t \in Threads : push[t].to = q /\ push[t].prev = 0}

Registered(q) == {i \in DOMAIN globalQueue : globalQueue[i] = q}

\* fetch_add was done, Jobs.push was not
Announcing(q) == {t \in Threads : push[t].at = "enqueue" /\ push[t].to = q}

Held(q) == Executing(q) # {} \/ FirstPushing(q) # {} \/ Registered(q) # {}

OneHolder(q) ==
  /\ \A t, u \in Executing(q) : t = u
  /\ \A t, u \in FirstPushing(q) : t = u
  /\ \A i, j \in Registered(q) : i = j
  /\ Executing(q) # {} => FirstPushing(q) = {} /\ Registered(q) = {}
  /\ FirstPushing(q) # {} => Registered(q) = {}

\* The right to run a queue is held once: by one Execute call, by one Push
\* call that found it idle, or by one entry of the GlobalQueue, and by only
\* one of the three.  Two holders would run the jobs of a Room concurrently,
\* which is what JobQueue exists to prevent (Room.h:15).
OneExecutor == \A q \in Queues : OneHolder(q)

\* A queue with an unfinished job always has a holder: no job can be left in
\* a queue that nobody will look at again, whatever happens between the
\* fetch_add, the push under Mutex and the fetch_sub.
NoStrandedQueue == \A q \in Queues : count[q] # 0 => Held(q)

\* Jobs one thread puts in one queue run in the order of its Push calls, also
\* when the executor changes between them: a session's Leave of a room and
\* its next Enter are not swapped (ClientPacketHandler.cpp:321-331).
ProducerOrder ==
  \A q \in Queues : \A i, j \in DOMAIN done[q] :
     i < j /\ done[q][i].by = done[q][j].by => done[q][i].id < done[q][j].id

\* The worker running a queue, as the queue sees it
BatchOf(q) == IF Executing(q) = {} THEN <<>>
              ELSE exec[CHOOSE t \in Executing(q) : TRUE].batch

NoJob == [by |-> NoQueue, id |-> 0]

RunningJob(q) ==
  IF \E t \in Executing(q) : exec[t].at = "job" THEN Head(BatchOf(q)) ELSE NoJob

WaitingJobs(q) ==
  (IF RunningJob(q) = NoJob THEN BatchOf(q) ELSE Tail(BatchOf(q))) \o jobs[q]

Serial == INSTANCE SerialExecutor
            WITH Jobs    <- [by : Threads, id : 0 .. MaxJobs - 1],
                 pending <- [q \in Queues |-> WaitingJobs(q)],
                 running <- [q \in Queues |-> RunningJob(q)]

\* The threads, the counter and the GlobalQueue together implement a serial
\* executor: one job of a queue at a time, in the order of the pushes under
\* Mutex, each exactly once.
ImplementsSerialExecutor == Serial!Spec

\* Every job that was pushed runs, unless the server is told to stop.
EveryJobRuns ==
  \A n \in 0 .. MaxJobs - 1 :
     (issued > n) ~> \/ stopped
                     \/ \E q \in Queues : \E i \in DOMAIN done[q] : done[q][i].id = n
===============================================================================
