-------------------------- MODULE JobQueueRefinement --------------------------
(***************************************************************************)
(* The threads, counters and the GlobalQueue of JobQueue implement the     *)
(* SerialExecutor of each queue, for any finite set of threads, any set of *)
(* queues and any number of Push calls; and the jobs of one producer run   *)
(* in the order of its Push calls (ProducerOrder).                         *)
(*                                                                         *)
(* The proof looks at a queue as its owner does: WaitingJobs, RunningJob   *)
(* and done.  Every step of the code either appends the pushed job to the  *)
(* waiting ones, starts the first of them, finishes the running one, or    *)
(* changes nothing the owner can see (the lemmas View...).                 *)
(***************************************************************************)
EXTENDS JobQueueProofs

\* CurrentJobs holds jobs only between the move out of Jobs and the end of
\* the for loop.
Batches ==
  \A t \in Threads : exec[t].at \notin {"run", "job"} => exec[t].batch = <<>>

\* Everything the queue has ever accepted, in the order of Jobs.push.
History(q) == done[q] \o (IF RunningJob(q) = NoJob THEN <<>> ELSE <<RunningJob(q)>>)
                \o WaitingJobs(q)

\* Of two jobs of one producer the one in front was pushed first.
Ordered(q) ==
  \A i, j \in DOMAIN History(q) :
     i < j /\ History(q)[i].by = History(q)[j].by
       => History(q)[i].id < History(q)[j].id

\* Serial numbers already given are below issued, and a job announced by the
\* fetch_add is newer than every job its thread has in any queue.
Numbered ==
  /\ issued <= MaxJobs
  /\ \A t \in Threads : push[t].at = "enqueue" => push[t].id < issued
  /\ \A q \in Queues : \A i \in DOMAIN History(q) :
       /\ History(q)[i].id < issued
       /\ \A t \in Threads : push[t].at = "enqueue" /\ History(q)[i].by = t
                               => History(q)[i].id < push[t].id

OrderInv == /\ IndInv
            /\ Batches
            /\ \A q \in Queues : Ordered(q)
            /\ Numbered
-------------------------------------------------------------------------------

\* A batch holds jobs, and a job is never mistaken for "nothing is running".
LEMMA NoJobIsNoJob == NoJob \notin Job
BY NoQueueIsNoThread DEF NoJob, Job

\* Taking the first job of a batch takes the first of all waiting jobs.
LEMMA HeadTailConcat ==
  ASSUME NEW S, NEW s \in Seq(S), NEW u \in Seq(S), s # <<>>
  PROVE  /\ s \o u # <<>>
         /\ Head(s \o u) = Head(s)
         /\ Tail(s \o u) = Tail(s) \o u
<1>1. /\ s \o u \in Seq(S) /\ Len(s \o u) = Len(s) + Len(u)
      /\ \A i \in 1 .. Len(s) + Len(u) :
           (s \o u)[i] = IF i <= Len(s) THEN s[i] ELSE u[i - Len(s)]
      /\ Len(s) \in Nat /\ Len(s) > 0 /\ Len(u) \in Nat
  BY ConcatProperties, LenProperties, EmptySeq
<1>2. s \o u # <<>>
  BY <1>1, EmptySeq
<1>3. Head(s \o u) = Head(s)
  <2>1. Head(s \o u) = (s \o u)[1] /\ Head(s) = s[1]
    BY <1>1, <1>2
  <2>2. 1 \in 1 .. Len(s) + Len(u) /\ 1 <= Len(s)
    BY <1>1
  <2>3. QED
    BY <1>1, <2>1, <2>2
<1>4. /\ Tail(s) \in Seq(S) /\ Len(Tail(s)) = Len(s) - 1
      /\ \A i \in 1 .. Len(s) - 1 : Tail(s)[i] = s[i + 1]
  BY HeadTailProperties
<1>5. /\ Tail(s \o u) \in Seq(S) /\ Len(Tail(s \o u)) = Len(s) + Len(u) - 1
      /\ \A i \in 1 .. Len(s) + Len(u) - 1 : Tail(s \o u)[i] = (s \o u)[i + 1]
  BY <1>1, <1>2, HeadTailProperties
<1>6. /\ Tail(s) \o u \in Seq(S) /\ Len(Tail(s) \o u) = Len(s) - 1 + Len(u)
      /\ \A i \in 1 .. Len(s) - 1 + Len(u) :
           (Tail(s) \o u)[i] = IF i <= Len(s) - 1 THEN Tail(s)[i]
                               ELSE u[i - (Len(s) - 1)]
  BY <1>4, ConcatProperties
<1>7. ASSUME NEW i \in 1 .. Len(Tail(s \o u))
      PROVE  Tail(s \o u)[i] = (Tail(s) \o u)[i]
  <2>1. i \in 1 .. Len(s) + Len(u) - 1 /\ i + 1 \in 1 .. Len(s) + Len(u)
    BY <1>1, <1>5
  <2>2. Tail(s \o u)[i] = IF i + 1 <= Len(s) THEN s[i + 1] ELSE u[i + 1 - Len(s)]
    BY <1>1, <1>5, <2>1
  <2>3. CASE i + 1 <= Len(s)
    BY <1>1, <1>4, <1>6, <2>1, <2>2, <2>3
  <2>4. CASE ~(i + 1 <= Len(s))
    <3>1. i - (Len(s) - 1) = i + 1 - Len(s) /\ ~(i <= Len(s) - 1)
      BY <1>1, <2>1, <2>4
    <3>2. QED
      BY <1>1, <1>6, <2>1, <2>2, <2>4, <3>1
  <2>5. QED
    BY <2>3, <2>4
<1>8. Tail(s \o u) = Tail(s) \o u
  <2>1. Len(Tail(s \o u)) = Len(Tail(s) \o u)
    BY <1>1, <1>5, <1>6
  <2>2. QED
    BY <1>5, <1>6, <1>7, <2>1, SeqEqual
<1>9. QED
  BY <1>2, <1>3, <1>8

\* A sequence is its first element followed by the rest.
LEMMA HeadThenTail ==
  ASSUME NEW S, NEW s \in Seq(S), s # <<>>
  PROVE  <<Head(s)>> \o Tail(s) = s
<1>1. /\ Head(s) \in S /\ Tail(s) \in Seq(S) /\ Len(Tail(s)) = Len(s) - 1
      /\ \A i \in 1 .. Len(s) - 1 : Tail(s)[i] = s[i + 1]
      /\ Len(s) \in Nat /\ Len(s) > 0 /\ Head(s) = s[1]
  BY HeadTailProperties, EmptySeq
<1>2. <<Head(s)>> \in Seq(S) /\ Len(<<Head(s)>>) = 1 /\ <<Head(s)>>[1] = s[1]
  BY <1>1
<1>3. /\ <<Head(s)>> \o Tail(s) \in Seq(S)
      /\ Len(<<Head(s)>> \o Tail(s)) = 1 + (Len(s) - 1)
      /\ \A i \in 1 .. 1 + (Len(s) - 1) :
           (<<Head(s)>> \o Tail(s))[i] = IF i <= 1 THEN <<Head(s)>>[i]
                                         ELSE Tail(s)[i - 1]
  BY <1>1, <1>2, ConcatProperties
<1>4. ASSUME NEW i \in 1 .. Len(s) PROVE (<<Head(s)>> \o Tail(s))[i] = s[i]
  BY <1>1, <1>2, <1>3
<1>5. QED
  BY <1>1, <1>3, <1>4, SeqEqual

\* What the owner of a queue sees, told without the choice of a thread: the
\* queue has at most one executor (OneHolder).
ViewOK(q) ==
  /\ \A t \in Executing(q) :
       /\ BatchOf(q) = exec[t].batch
       /\ RunningJob(q) = IF exec[t].at = "job" THEN Head(exec[t].batch) ELSE NoJob
       /\ WaitingJobs(q) = (IF exec[t].at = "job" THEN Tail(exec[t].batch)
                            ELSE exec[t].batch) \o jobs[q]
  /\ Executing(q) = {} => RunningJob(q) = NoJob /\ WaitingJobs(q) = jobs[q]
  /\ RunningJob(q) \in Job \cup {NoJob}
  /\ WaitingJobs(q) \in Seq(Job)

AllViewsOK == \A q \in Queues : ViewOK(q)

LEMMA ViewsOK == IndInv => AllViewsOK
<1> SUFFICES ASSUME IndInv, NEW q \in Queues PROVE ViewOK(q)
  BY DEF AllViewsOK
<1>0. /\ TypeOK /\ Frames /\ jobs[q] \in Seq(Job)
      /\ \A t, u \in Executing(q) : t = u
      /\ Executing(q) \subseteq Threads
  BY DEF IndInv, TypeOK, QueueOK, OneHolder, Executing
<1>1. ASSUME NEW t \in Executing(q)
      PROVE  /\ BatchOf(q) = exec[t].batch
             /\ RunningJob(q) = IF exec[t].at = "job" THEN Head(exec[t].batch)
                                ELSE NoJob
             /\ WaitingJobs(q) = (IF exec[t].at = "job" THEN Tail(exec[t].batch)
                                  ELSE exec[t].batch) \o jobs[q]
             /\ RunningJob(q) \in Job \cup {NoJob}
             /\ WaitingJobs(q) \in Seq(Job)
  <2>1. (CHOOSE u \in Executing(q) : TRUE) = t
    BY <1>0
  <2>2. BatchOf(q) = exec[t].batch
    BY <2>1 DEF BatchOf
  <2>3. exec[t].batch \in Seq(Job)
    BY <1>0 DEF TypeOK, ExecuteCall
  <2>4. CASE exec[t].at = "job"
    <3>1. /\ exec[t].batch # <<>> /\ Head(exec[t].batch) \in Job
          /\ Tail(exec[t].batch) \in Seq(Job)
      BY <1>0, <2>3, <2>4, HeadTailProperties DEF Frames
    <3>2. RunningJob(q) = Head(exec[t].batch) /\ RunningJob(q) # NoJob
      BY <2>2, <2>4, <3>1, NoJobIsNoJob DEF RunningJob
    <3>3. WaitingJobs(q) = Tail(exec[t].batch) \o jobs[q]
      BY <2>2, <3>2 DEF WaitingJobs
    <3>4. QED
      BY <1>0, <2>2, <2>4, <3>1, <3>2, <3>3, ConcatProperties
  <2>5. CASE exec[t].at # "job"
    <3>1. RunningJob(q) = NoJob
      BY <1>0, <2>5 DEF RunningJob
    <3>2. WaitingJobs(q) = exec[t].batch \o jobs[q]
      BY <2>2, <3>1 DEF WaitingJobs
    <3>3. QED
      BY <1>0, <2>2, <2>3, <2>5, <3>1, <3>2, ConcatProperties
  <2>6. QED
    BY <2>4, <2>5
<1>2. CASE Executing(q) = {}
  <2>1. BatchOf(q) = <<>> /\ RunningJob(q) = NoJob
    BY <1>2 DEF BatchOf, RunningJob
  <2>2. WaitingJobs(q) = jobs[q]
    BY <1>0, <2>1, ConcatEmptySeq DEF WaitingJobs
  <2>3. QED
    BY <1>0, <1>2, <2>1, <2>2 DEF ViewOK
<1>3. QED
  BY <1>1, <1>2 DEF ViewOK
LEMMA ViewsOKNext == IndInv' => AllViewsOK'
<1>1. IndInv => AllViewsOK
  BY ViewsOK
<1>2. QED
  BY <1>1, PTL

LEMMA IndInvNext == IndInv /\ [Next]_vars => IndInv'
BY TypeStep, FramesStep, QueueStep DEF IndInv

\* Nothing the owner of the queue can see has changed.
SameView(q) == /\ WaitingJobs(q)' = WaitingJobs(q)
               /\ RunningJob(q)' = RunningJob(q)
               /\ done'[q] = done[q]

\* The executor keeps the queue, its batch and the job it runs.
LEMMA SameBatch ==
  ASSUME IndInv, IndInv', NEW q \in Queues, done'[q] = done[q], jobs'[q] = jobs[q],
         \A t \in Threads : exec[t].on = q \/ exec'[t].on = q =>
           /\ exec'[t].on = exec[t].on
           /\ exec'[t].batch = exec[t].batch
           /\ exec'[t].at = "job" <=> exec[t].at = "job"
  PROVE  SameView(q)
<1>1. ViewOK(q) /\ ViewOK(q)'
  BY ViewsOK, ViewsOKNext DEF AllViewsOK
<1>2. Executing(q)' = Executing(q) /\ Executing(q) \subseteq Threads
  BY DEF Executing
<1>3. CASE Executing(q) = {}
  BY <1>1, <1>2, <1>3 DEF ViewOK, SameView
<1>4. ASSUME NEW t \in Executing(q) PROVE SameView(q)
  <2>1. /\ t \in Executing(q)' /\ exec'[t].batch = exec[t].batch
        /\ exec'[t].at = "job" <=> exec[t].at = "job"
    BY <1>2 DEF Executing
  <2>2. /\ RunningJob(q)' = IF exec'[t].at = "job" THEN Head(exec'[t].batch)
                            ELSE NoJob
        /\ WaitingJobs(q)' = (IF exec'[t].at = "job" THEN Tail(exec'[t].batch)
                              ELSE exec'[t].batch) \o jobs'[q]
    BY <1>1, <2>1 DEF ViewOK
  <2>3. /\ RunningJob(q) = IF exec[t].at = "job" THEN Head(exec[t].batch)
                           ELSE NoJob
        /\ WaitingJobs(q) = (IF exec[t].at = "job" THEN Tail(exec[t].batch)
                             ELSE exec[t].batch) \o jobs[q]
    BY <1>1 DEF ViewOK
  <2>4. CASE exec[t].at = "job"
    BY <2>1, <2>2, <2>3, <2>4 DEF SameView
  <2>5. CASE exec[t].at # "job"
    BY <2>1, <2>2, <2>3, <2>5 DEF SameView
  <2>6. QED
    BY <2>4, <2>5
<1>5. QED
  BY <1>3, <1>4

\* Entering and leaving Execute, and its steps between two batches: no batch
\* before the step and none after it.
LEMMA NoBatch ==
  ASSUME IndInv, IndInv', NEW q \in Queues, done'[q] = done[q], jobs'[q] = jobs[q],
         \A t \in Executing(q) : exec[t].batch = <<>> /\ exec[t].at # "job",
         \A t \in Executing(q)' : exec'[t].batch = <<>> /\ exec'[t].at # "job"
  PROVE  SameView(q)
<1>1. ViewOK(q) /\ ViewOK(q)'
  BY ViewsOK, ViewsOKNext DEF AllViewsOK
<1>2. jobs[q] \in Seq(Job) /\ <<>> \o jobs[q] = jobs[q]
  BY ConcatEmptySeq DEF IndInv, TypeOK
<1>3. RunningJob(q) = NoJob /\ WaitingJobs(q) = jobs[q]
  BY <1>1, <1>2 DEF ViewOK
<1>4. RunningJob(q)' = NoJob /\ WaitingJobs(q)' = jobs[q]
  BY <1>1, <1>2 DEF ViewOK
<1>5. QED
  BY <1>3, <1>4 DEF SameView
\* One thread's call changes, to one that has a batch only where it may.
LEMMA OneBatch ==
  ASSUME IndInv, Batches, NEW t \in Threads, NEW c,
         exec' = [exec EXCEPT ![t] = c], c.at \notin {"run", "job"} => c.batch = <<>>
  PROVE  Batches'
BY DEF Batches, IndInv, TypeOK

\* Drain fills the batch, the for loop is left when it is empty.
LEMMA BatchesStep == IndInv /\ Batches /\ [Next]_vars => Batches'
<1> SUFFICES ASSUME IndInv, Batches, [Next]_vars PROVE Batches'
  OBVIOUS
<1>0. /\ exec \in [Threads -> ExecuteCall]
      /\ \A u \in Threads : exec[u].at \notin {"run", "job"} => exec[u].batch = <<>>
  BY DEF IndInv, TypeOK, Batches
<1>1. CASE UNCHANGED exec
  BY <1>1 DEF Batches
<1>2. ASSUME NEW t \in Threads, NEW q, EnterExecute(t, q) PROVE Batches'
  BY <1>2, OneBatch DEF EnterExecute
<1>3. ASSUME NEW t \in Threads, exec' = [exec EXCEPT ![t] = NotExecuting]
      PROVE  Batches'
  BY <1>3, OneBatch DEF NotExecuting
<1>4. ASSUME NEW t \in Threads, ExecuteDrain(t) PROVE Batches'
  BY <1>4, OneBatch DEF ExecuteDrain
<1>5. ASSUME NEW t \in Threads, ExecuteNext(t) PROVE Batches'
  <2>1. CASE exec[t].batch = <<>>
    <3>1. exec' = [exec EXCEPT ![t] = [exec[t] EXCEPT !.at = "sub"]]
      BY <1>5, <2>1 DEF ExecuteNext
    <3>2. [exec[t] EXCEPT !.at = "sub"].batch = <<>>
      BY <1>0, <2>1 DEF ExecuteCall
    <3>3. QED
      BY <3>1, <3>2, OneBatch
  <2>2. CASE exec[t].batch # <<>>
    <3>1. exec' = [exec EXCEPT ![t] = [exec[t] EXCEPT !.at = "job"]]
      BY <1>5, <2>2 DEF ExecuteNext
    <3>2. [exec[t] EXCEPT !.at = "job"].at = "job"
      BY <1>0 DEF ExecuteCall
    <3>3. QED
      BY <3>1, <3>2, OneBatch
  <2>3. QED
    BY <2>1, <2>2
<1>6. ASSUME NEW t \in Threads, ExecuteJobReturn(t) PROVE Batches'
  <2>1. exec' = [exec EXCEPT ![t] = [exec[t] EXCEPT !.at = "run", !.batch = Tail(@)]]
    BY <1>6 DEF ExecuteJobReturn
  <2>2. [exec[t] EXCEPT !.at = "run", !.batch = Tail(@)].at = "run"
    BY <1>0 DEF ExecuteCall
  <2>3. QED
    BY <2>1, <2>2, OneBatch
<1>7. ASSUME NEW t \in Threads, ExecuteSubtract(t) PROVE Batches'
  <2>1. CASE exec' = [exec EXCEPT ![t].at = "tick", ![t].size = 0]
    <3>1. exec' = [exec EXCEPT ![t] = [exec[t] EXCEPT !.at = "tick", !.size = 0]]
      BY <2>1
    <3>2. [exec[t] EXCEPT !.at = "tick", !.size = 0].batch = <<>>
      BY <1>0, <1>7 DEF ExecuteCall, ExecuteSubtract
    <3>3. QED
      BY <3>1, <3>2, OneBatch
  <2>2. QED
    BY <1>3, <1>7, <2>1 DEF ExecuteSubtract
<1>8. ASSUME NEW t \in Threads, ExecuteTick(t) PROVE Batches'
  <2>1. PICK a \in {"drain", "requeue"} : exec' = [exec EXCEPT ![t].at = a]
    BY <1>8 DEF ExecuteTick
  <2>2. exec' = [exec EXCEPT ![t] = [exec[t] EXCEPT !.at = a]]
    BY <2>1
  <2>3. [exec[t] EXCEPT !.at = a].batch = <<>>
    BY <1>0, <1>8 DEF ExecuteCall, ExecuteTick
  <2>4. QED
    BY <2>2, <2>3, OneBatch
<1>9. ASSUME NEW t \in Threads, PushDecide(t) PROVE Batches'
  BY <1>1, <1>2, <1>9 DEF PushDecide
<1>10. ASSUME NEW t \in Threads, LoopPop(t) PROVE Batches'
  BY <1>1, <1>2, <1>10 DEF LoopPop
<1>11. ASSUME NEW t \in Threads, ExecuteRequeue(t) PROVE Batches'
  BY <1>3, <1>11 DEF ExecuteRequeue
<1>12. ASSUME NEW t \in Threads,
              \/ \E q \in Queues : PushCount(t, q)
              \/ PushEnqueue(t) \/ LoopHead(t) \/ PollReturn(t) \/ LoopPopped(t)
       PROVE  Batches'
  <2>1. UNCHANGED exec
    BY <1>12 DEF PushCount, PushEnqueue, LoopHead, PollReturn, LoopPopped
  <2>2. QED
    BY <1>1, <2>1
<1>13. CASE Stop \/ UNCHANGED vars
  BY <1>1, <1>13 DEF Stop, vars
<1>14. QED
  BY <1>4, <1>5, <1>6, <1>7, <1>8, <1>9, <1>10, <1>11, <1>12, <1>13
     DEF Next, ThreadStep

-------------------------------------------------------------------------------
(* What each step looks like to the owner of a queue *)

\* A job j is accepted: it is the last one waiting.
ViewAccept(q, j) == /\ WaitingJobs(q)' = Append(WaitingJobs(q), j)
                    /\ RunningJob(q)' = RunningJob(q)
                    /\ done'[q] = done[q]

\* Nothing runs, and the first waiting job begins to run.
ViewStart(q) == /\ RunningJob(q) = NoJob
                /\ WaitingJobs(q) # <<>>
                /\ RunningJob(q)' = Head(WaitingJobs(q))
                /\ WaitingJobs(q)' = Tail(WaitingJobs(q))
                /\ done'[q] = done[q]

\* The running job is over.
ViewFinish(q) == /\ RunningJob(q) # NoJob
                 /\ done'[q] = Append(done[q], RunningJob(q))
                 /\ RunningJob(q)' = NoJob
                 /\ WaitingJobs(q)' = WaitingJobs(q)

\* A new job goes behind the waiting ones, wherever the batch ends.
LEMMA ConcatAppend ==
  ASSUME NEW s \in Seq(Job), NEW u \in Seq(Job), NEW e \in Job
  PROVE  s \o Append(u, e) = Append(s \o u, e)
<1>1. /\ Append(u, e) = u \o <<e>> /\ <<e>> \in Seq(Job)
      /\ s \o u \in Seq(Job) /\ Append(s \o u, e) = (s \o u) \o <<e>>
  BY AppendIsConcat, ConcatProperties
<1>2. QED
  BY <1>1, ConcatAssociative

LEMMA ViewPushEnqueue ==
  ASSUME IndInv, IndInv', NEW t \in Threads, PushEnqueue(t),
         NEW q, q = push[t].to, NEW j, j = [by |-> t, id |-> push[t].id]
  PROVE  /\ q \in Queues /\ j \in Job
         /\ ViewAccept(q, j)
         /\ \A r \in Queues \ {q} : SameView(r)
<1>1. q \in Queues /\ j \in Job
  BY DEF PushEnqueue, IndInv, Frames, TypeOK, PushCall, Job
<1>2. jobs' = [jobs EXCEPT ![q] = Append(@, j)] /\ UNCHANGED <<exec, done>>
  BY DEF PushEnqueue
<1>3. jobs \in [Queues -> Seq(Job)] /\ exec \in [Threads -> ExecuteCall]
  BY DEF IndInv, TypeOK
<1>4. ASSUME NEW r \in Queues \ {q} PROVE SameView(r)
  <2>1. jobs'[r] = jobs[r]
    BY <1>2, <1>3
  <2>2. QED
    BY <1>2, <2>1, SameBatch
<1>5. ViewOK(q) /\ ViewOK(q)'
  BY <1>1, ViewsOK, ViewsOKNext DEF AllViewsOK
<1>6. jobs'[q] = Append(jobs[q], j) /\ jobs[q] \in Seq(Job)
  BY <1>1, <1>2, <1>3
<1>7. Executing(q)' = Executing(q) /\ Executing(q) \subseteq Threads
  BY <1>2 DEF Executing
<1>8. ASSUME Executing(q) = {} PROVE ViewAccept(q, j)
  <2>1. RunningJob(q) = NoJob /\ WaitingJobs(q) = jobs[q]
    BY <1>5, <1>8 DEF ViewOK
  <2>2. RunningJob(q)' = NoJob /\ WaitingJobs(q)' = jobs'[q]
    BY <1>5, <1>7, <1>8 DEF ViewOK
  <2>3. QED
    BY <1>2, <1>6, <2>1, <2>2 DEF ViewAccept
<1>9. ASSUME NEW u \in Executing(q) PROVE ViewAccept(q, j)
  <2>0. PICK b : b = IF exec[u].at = "job" THEN Tail(exec[u].batch)
                     ELSE exec[u].batch
    OBVIOUS
  <2>1. b \in Seq(Job)
    <3>1. exec[u].batch \in Seq(Job) /\ (exec[u].at = "job" => exec[u].batch # <<>>)
      BY <1>3, <1>7 DEF IndInv, Frames, ExecuteCall
    <3>2. QED
      BY <2>0, <3>1, HeadTailProperties
  <2>2. WaitingJobs(q) = b \o jobs[q]
    BY <1>5, <2>0 DEF ViewOK
  <2>3. WaitingJobs(q)' = b \o jobs'[q] /\ RunningJob(q)' = RunningJob(q)
    <3>1. u \in Executing(q)' /\ exec'[u] = exec[u]
      BY <1>2, <1>7
    <3>2. /\ RunningJob(q)' = IF exec'[u].at = "job" THEN Head(exec'[u].batch)
                              ELSE NoJob
          /\ WaitingJobs(q)' = (IF exec'[u].at = "job" THEN Tail(exec'[u].batch)
                                ELSE exec'[u].batch) \o jobs'[q]
      BY <1>5, <3>1 DEF ViewOK
    <3>3. RunningJob(q) = IF exec[u].at = "job" THEN Head(exec[u].batch) ELSE NoJob
      BY <1>5 DEF ViewOK
    <3>4. QED
      BY <2>0, <3>1, <3>2, <3>3
  <2>4. WaitingJobs(q)' = Append(WaitingJobs(q), j)
    <3>1. \A x, y \in Seq(Job) : \A e \in Job : x \o Append(y, e) = Append(x \o y, e)
      BY ConcatAppend, Zenon
    <3>2. b \o Append(jobs[q], j) = Append(b \o jobs[q], j)
      BY <1>1, <1>6, <2>1, <3>1, Zenon
    <3>3. QED
      BY <1>6, <2>2, <2>3, <3>2
  <2>5. QED
    BY <1>2, <2>3, <2>4 DEF ViewAccept
<1>10. QED
  BY <1>1, <1>4, <1>8, <1>9
\* The for loop starts the first job of a batch that is not empty; of the end
\* of the loop the owner sees nothing.
LEMMA ViewExecuteNext ==
  ASSUME IndInv, IndInv', NEW t \in Threads, ExecuteNext(t), NEW q, q = exec[t].on
  PROVE  /\ q \in Queues
         /\ \A r \in Queues \ {q} : SameView(r)
         /\ SameView(q) \/ ViewStart(q)
<1>0. /\ exec \in [Threads -> ExecuteCall] /\ exec[t].at = "run"
      /\ q \in Queues /\ t \in Executing(q)
      /\ jobs[q] \in Seq(Job) /\ exec[t].batch \in Seq(Job)
      /\ UNCHANGED <<jobs, done>>
      /\ \A u \in Executing(q) : u = t
  BY DEF ExecuteNext, IndInv, Frames, TypeOK, ExecuteCall, Executing, QueueOK, OneHolder
<1>1. PICK a : /\ a = IF exec[t].batch = <<>> THEN "sub" ELSE "job"
               /\ exec' = [exec EXCEPT ![t].at = a]
  BY DEF ExecuteNext
<1>2. /\ \A u \in Threads : exec'[u].on = exec[u].on /\ exec'[u].batch = exec[u].batch
      /\ \A u \in Threads \ {t} : exec'[u].at = exec[u].at
      /\ exec'[t].at = a
  BY <1>0, <1>1 DEF ExecuteCall
<1>3. ASSUME NEW r \in Queues \ {q} PROVE SameView(r)
  BY <1>0, <1>2, SameBatch
<1>4. CASE exec[t].batch = <<>>
  <2>1. exec'[t].at = "sub"
    BY <1>1, <1>2, <1>4
  <2>2. SameView(q)
    BY <1>0, <1>2, <2>1, SameBatch
  <2>3. QED
    BY <1>0, <1>3, <2>2
<1>5. CASE exec[t].batch # <<>>
  <2>1. ViewOK(q) /\ ViewOK(q)'
    BY <1>0, ViewsOK, ViewsOKNext DEF AllViewsOK
  <2>2. RunningJob(q) = NoJob /\ WaitingJobs(q) = exec[t].batch \o jobs[q]
    BY <1>0, <2>1 DEF ViewOK
  <2>3. exec'[t].at = "job" /\ exec'[t].batch = exec[t].batch /\ t \in Executing(q)'
    BY <1>0, <1>1, <1>2, <1>5 DEF Executing
  <2>4. /\ RunningJob(q)' = Head(exec'[t].batch)
        /\ WaitingJobs(q)' = Tail(exec'[t].batch) \o jobs'[q]
    BY <2>1, <2>3 DEF ViewOK
  <2>5. /\ exec[t].batch \o jobs[q] # <<>>
        /\ Head(exec[t].batch \o jobs[q]) = Head(exec[t].batch)
        /\ Tail(exec[t].batch \o jobs[q]) = Tail(exec[t].batch) \o jobs[q]
    BY <1>0, <1>5, HeadTailConcat
  <2>6. ViewStart(q)
    BY <1>0, <2>2, <2>3, <2>4, <2>5 DEF ViewStart
  <2>7. QED
    BY <1>0, <1>3, <2>6
<1>6. QED
  BY <1>4, <1>5

\* A job returns: the rest of the batch waits on.
LEMMA ViewExecuteJobReturn ==
  ASSUME IndInv, IndInv', NEW t \in Threads, ExecuteJobReturn(t),
         NEW q, q = exec[t].on
  PROVE  /\ q \in Queues
         /\ \A r \in Queues \ {q} : SameView(r)
         /\ ViewFinish(q)
<1>0. /\ exec \in [Threads -> ExecuteCall] /\ exec[t].at = "job"
      /\ q \in Queues /\ t \in Executing(q) /\ done \in [Queues -> Seq(Job)]
      /\ exec[t].batch \in Seq(Job) /\ exec[t].batch # <<>>
      /\ UNCHANGED jobs
      /\ done' = [done EXCEPT ![q] = Append(@, Head(exec[t].batch))]
  BY DEF ExecuteJobReturn, IndInv, Frames, TypeOK, ExecuteCall, Executing
<1>1. exec' = [exec EXCEPT ![t] = [exec[t] EXCEPT !.at = "run", !.batch = Tail(@)]]
  BY <1>0 DEF ExecuteJobReturn
<1>2. /\ exec'[t].at = "run" /\ exec'[t].on = exec[t].on
      /\ exec'[t].batch = Tail(exec[t].batch)
      /\ \A u \in Threads \ {t} : exec'[u] = exec[u]
  BY <1>0, <1>1 DEF ExecuteCall
<1>3. ASSUME NEW r \in Queues \ {q} PROVE SameView(r)
  <2>1. done'[r] = done[r]
    BY <1>0
  <2>2. QED
    BY <1>0, <1>2, <2>1, SameBatch
<1>4. ViewOK(q) /\ ViewOK(q)'
  BY <1>0, ViewsOK, ViewsOKNext DEF AllViewsOK
<1>5. /\ RunningJob(q) = Head(exec[t].batch)
      /\ WaitingJobs(q) = Tail(exec[t].batch) \o jobs[q]
  BY <1>0, <1>4 DEF ViewOK
<1>6. RunningJob(q) # NoJob
  BY <1>0, <1>5, HeadTailProperties, NoJobIsNoJob
<1>7. t \in Executing(q)'
  BY <1>2 DEF Executing
<1>8. RunningJob(q)' = NoJob /\ WaitingJobs(q)' = Tail(exec[t].batch) \o jobs[q]
  BY <1>0, <1>2, <1>4, <1>7 DEF ViewOK
<1>9. done'[q] = Append(done[q], RunningJob(q))
  BY <1>0, <1>5
<1>10. QED
  BY <1>0, <1>3, <1>5, <1>6, <1>8, <1>9 DEF ViewFinish
\* Entering Execute, from Push or from the GlobalQueue, changes no batch.
LEMMA ViewEnterExecute ==
  ASSUME IndInv, IndInv', NEW t \in Threads, NEW p \in Queues, EnterExecute(t, p),
         exec[t].at = "out", UNCHANGED <<jobs, done>>, NEW q \in Queues
  PROVE  SameView(q)
<1>1. /\ exec \in [Threads -> ExecuteCall] /\ exec[t].on = NoQueue
      /\ exec' = [exec EXCEPT ![t] = [at |-> "drain", on |-> p,
                                      batch |-> <<>>, size |-> 0]]
  BY DEF EnterExecute, IndInv, TypeOK, Frames
<1>2. /\ exec'[t].at = "drain" /\ exec'[t].on = p /\ exec'[t].batch = <<>>
      /\ \A u \in Threads \ {t} : exec'[u] = exec[u]
  BY <1>1
<1>3. CASE q # p
  BY <1>1, <1>2, <1>3, NoQueueIsNone, SameBatch
<1>4. CASE q = p
  <2>1. \A u, v \in Executing(q)' : u = v
    BY DEF IndInv, QueueOK, OneHolder
  <2>2. t \in Executing(q)'
    BY <1>2, <1>4 DEF Executing
  <2>3. \A u \in Executing(q) : u \in Executing(q)' /\ u # t
    BY <1>1, <1>2, <1>4, NoQueueIsNone DEF Executing
  <2>4. Executing(q) = {}
    BY <2>1, <2>2, <2>3
  <2>5. \A u \in Executing(q)' : exec'[u].batch = <<>> /\ exec'[u].at # "job"
    BY <1>2, <2>1, <2>2
  <2>6. QED
    BY <2>4, <2>5, NoBatch
<1>5. QED
  BY <1>3, <1>4

\* Execute returns with an empty batch only.
LEMMA ViewLeaveExecute ==
  ASSUME IndInv, IndInv', NEW t \in Threads, exec' = [exec EXCEPT ![t] = NotExecuting],
         exec[t].batch = <<>>, exec[t].at # "job", UNCHANGED <<jobs, done>>,
         NEW q \in Queues
  PROVE  SameView(q)
<1>1. /\ exec'[t].at = "out" /\ exec'[t].on = NoQueue /\ exec'[t].batch = <<>>
      /\ \A u \in Threads \ {t} : exec'[u] = exec[u]
  BY DEF NotExecuting, IndInv, TypeOK
<1>2. CASE q # exec[t].on
  BY <1>1, <1>2, NoQueueIsNone, SameBatch
<1>3. CASE q = exec[t].on
  <2>1. \A u \in Executing(q) : u = t
    BY <1>3 DEF Executing, IndInv, QueueOK, OneHolder
  <2>2. Executing(q)' = {}
    BY <1>1, <2>1, NoQueueIsNone DEF Executing
  <2>3. QED
    BY <2>1, <2>2, NoBatch
<1>4. QED
  BY <1>2, <1>3

\* The move of Jobs into CurrentJobs moves no job for the owner.
LEMMA ViewExecuteDrain ==
  ASSUME IndInv, IndInv', Batches, NEW t \in Threads, ExecuteDrain(t), NEW q \in Queues
  PROVE  SameView(q)
<1>0. PICK p : p = exec[t].on
  OBVIOUS
<1>1. /\ exec \in [Threads -> ExecuteCall] /\ jobs \in [Queues -> Seq(Job)]
      /\ p \in Queues /\ exec[t].at = "drain" /\ exec[t].batch = <<>>
      /\ exec' = [exec EXCEPT ![t] = [at |-> "run", on |-> p, batch |-> jobs[p],
                                      size |-> Len(jobs[p])]]
      /\ jobs' = [jobs EXCEPT ![p] = <<>>]
      /\ UNCHANGED done
  BY <1>0 DEF ExecuteDrain, IndInv, TypeOK, Frames, ExecuteCall, Batches
<1>2. /\ exec'[t].at = "run" /\ exec'[t].on = p /\ exec'[t].batch = jobs[p]
      /\ \A u \in Threads \ {t} : exec'[u] = exec[u]
      /\ jobs'[p] = <<>> /\ \A r \in Queues \ {p} : jobs'[r] = jobs[r]
  BY <1>1
<1>3. CASE q # p
  BY <1>0, <1>1, <1>2, <1>3, SameBatch
<1>4. CASE q = p
  <2>1. ViewOK(q) /\ ViewOK(q)'
    BY ViewsOK, ViewsOKNext DEF AllViewsOK
  <2>2. t \in Executing(q) /\ t \in Executing(q)'
    BY <1>0, <1>2, <1>4 DEF Executing
  <2>3. RunningJob(q) = NoJob /\ WaitingJobs(q) = <<>> \o jobs[q]
    BY <1>1, <2>1, <2>2 DEF ViewOK
  <2>4. RunningJob(q)' = NoJob /\ WaitingJobs(q)' = exec'[t].batch \o jobs'[q]
    BY <1>2, <2>1, <2>2 DEF ViewOK
  <2>5. <<>> \o jobs[q] = jobs[q] /\ jobs[q] \o <<>> = jobs[q]
    BY <1>1, ConcatEmptySeq
  <2>6. QED
    BY <1>1, <1>2, <1>4, <2>3, <2>4, <2>5 DEF SameView
<1>5. QED
  BY <1>3, <1>4

\* A step at which no queue changes for its owner.
LEMMA ViewQuiet ==
  ASSUME IndInv, IndInv', Batches, NEW q \in Queues,
         \/ Stop \/ UNCHANGED vars
         \/ \E t \in Threads :
              \/ \E p \in Queues : PushCount(t, p)
              \/ PushDecide(t) \/ ExecuteDrain(t) \/ ExecuteSubtract(t)
              \/ ExecuteTick(t) \/ ExecuteRequeue(t) \/ LoopHead(t)
              \/ PollReturn(t) \/ LoopPop(t) \/ LoopPopped(t)
  PROVE  SameView(q)
<1>0. /\ exec \in [Threads -> ExecuteCall] /\ push \in [Threads -> PushCall]
      /\ globalQueue \in Seq(Queues)
      /\ \A u \in Threads : exec[u].at \notin {"run", "job"} => exec[u].batch = <<>>
  BY DEF IndInv, TypeOK, Batches
<1>1. CASE UNCHANGED <<jobs, exec, done>>
  BY <1>1, SameBatch
<1>2. ASSUME NEW t \in Threads, PushDecide(t) PROVE SameView(q)
  <2>1. UNCHANGED <<jobs, done>> /\ push[t].to \in Queues
    BY <1>0, <1>2 DEF PushDecide, IndInv, Frames, PushCall
  <2>2. CASE UNCHANGED exec
    BY <1>1, <2>1, <2>2
  <2>3. CASE current[t] = NoQueue /\ EnterExecute(t, push[t].to)
    <3>1. exec[t].at = "out"
      BY <1>0, <1>2, <2>3 DEF PushDecide, IndInv, Frames
    <3>2. QED
      BY <2>1, <2>3, <3>1, ViewEnterExecute
  <2>4. QED
    BY <1>2, <2>2, <2>3 DEF PushDecide
<1>3. ASSUME NEW t \in Threads, LoopPop(t) PROVE SameView(q)
  <2>1. CASE globalQueue = <<>>
    BY <1>1, <1>3, <2>1 DEF LoopPop
  <2>2. CASE globalQueue # <<>>
    <3>1. Head(globalQueue) \in Queues
      BY <1>0, <2>2, HeadTailProperties
    <3>2. exec[t].at = "out" /\ EnterExecute(t, Head(globalQueue)) /\ UNCHANGED <<jobs, done>>
      BY <1>0, <1>3, <2>2 DEF LoopPop, IndInv, Frames
    <3>3. QED
      BY <3>1, <3>2, ViewEnterExecute
  <2>3. QED
    BY <2>1, <2>2
<1>4. ASSUME NEW t \in Threads, ExecuteSubtract(t) PROVE SameView(q)
  <2>1. UNCHANGED <<jobs, done>> /\ exec[t].at = "sub" /\ exec[t].batch = <<>>
    BY <1>0, <1>4 DEF ExecuteSubtract
  <2>2. CASE exec' = [exec EXCEPT ![t] = NotExecuting]
    BY <2>1, <2>2, ViewLeaveExecute
  <2>3. CASE exec' = [exec EXCEPT ![t].at = "tick", ![t].size = 0]
    <3>1. exec' = [exec EXCEPT ![t] = [exec[t] EXCEPT !.at = "tick", !.size = 0]]
      BY <2>3
    <3>2. /\ \A u \in Threads : exec'[u].on = exec[u].on /\ exec'[u].batch = exec[u].batch
          /\ exec'[t].at = "tick" /\ \A u \in Threads \ {t} : exec'[u].at = exec[u].at
      BY <1>0, <3>1 DEF ExecuteCall
    <3>3. QED
      BY <2>1, <3>2, SameBatch
  <2>4. QED
    BY <1>4, <2>2, <2>3 DEF ExecuteSubtract
<1>5. ASSUME NEW t \in Threads, ExecuteTick(t) PROVE SameView(q)
  <2>1. PICK a \in {"drain", "requeue"} : exec' = [exec EXCEPT ![t].at = a]
    BY <1>5 DEF ExecuteTick
  <2>2. /\ \A u \in Threads : exec'[u].on = exec[u].on /\ exec'[u].batch = exec[u].batch
        /\ exec'[t].at = a /\ \A u \in Threads \ {t} : exec'[u].at = exec[u].at
    BY <1>0, <2>1 DEF ExecuteCall
  <2>3. UNCHANGED <<jobs, done>> /\ exec[t].at = "tick"
    BY <1>5 DEF ExecuteTick
  <2>4. QED
    BY <2>2, <2>3, SameBatch
<1>6. ASSUME NEW t \in Threads, ExecuteRequeue(t) PROVE SameView(q)
  <2>1. /\ UNCHANGED <<jobs, done>> /\ exec[t].at = "requeue" /\ exec[t].batch = <<>>
        /\ exec' = [exec EXCEPT ![t] = NotExecuting]
    BY <1>0, <1>6 DEF ExecuteRequeue
  <2>2. QED
    BY <2>1, ViewLeaveExecute
<1>7. ASSUME NEW t \in Threads,
             \/ \E p \in Queues : PushCount(t, p)
             \/ LoopHead(t) \/ PollReturn(t) \/ LoopPopped(t)
      PROVE  SameView(q)
  BY <1>1, <1>7 DEF PushCount, LoopHead, PollReturn, LoopPopped
<1>8. CASE Stop \/ UNCHANGED vars
  BY <1>1, <1>8 DEF Stop, vars
<1>9. QED
  BY <1>2, <1>3, <1>4, <1>5, <1>6, <1>7, <1>8, ViewExecuteDrain
\* Every step is at most one step of one queue, for the owners of the queues.
LEMMA ViewStep ==
  ASSUME IndInv, IndInv', Batches, [Next]_vars
  PROVE  \/ \A q \in Queues : SameView(q)
         \/ \E q \in Queues : /\ \A r \in Queues \ {q} : SameView(r)
                              /\ ViewStart(q) \/ ViewFinish(q)
         \/ \E t \in Threads, q \in Queues, j \in Job :
              /\ \A r \in Queues \ {q} : SameView(r)
              /\ PushEnqueue(t)
              /\ j = [by |-> t, id |-> push[t].id]
              /\ ViewAccept(q, j)
<1> DEFINE Goal1 == \A q \in Queues : SameView(q)
           Goal2 == \E q \in Queues : /\ \A r \in Queues \ {q} : SameView(r)
                                      /\ ViewStart(q) \/ ViewFinish(q)
           Goal3 == \E t \in Threads, q \in Queues, j \in Job :
                      /\ \A r \in Queues \ {q} : SameView(r)
                      /\ PushEnqueue(t)
                      /\ j = [by |-> t, id |-> push[t].id]
                      /\ ViewAccept(q, j)
<1>1. ASSUME NEW t \in Threads, PushEnqueue(t) PROVE Goal3
  <2>1. PICK q, j : q = push[t].to /\ j = [by |-> t, id |-> push[t].id]
    OBVIOUS
  <2>2. /\ q \in Queues /\ j \in Job /\ ViewAccept(q, j)
        /\ \A r \in Queues \ {q} : SameView(r)
    BY <1>1, <2>1, ViewPushEnqueue
  <2>3. QED
    BY <1>1, <2>1, <2>2
<1>2. ASSUME NEW t \in Threads, ExecuteNext(t) PROVE Goal1 \/ Goal2
  <2>1. PICK q : q = exec[t].on
    OBVIOUS
  <2>2. /\ q \in Queues /\ \A r \in Queues \ {q} : SameView(r)
        /\ SameView(q) \/ ViewStart(q)
    BY <1>2, <2>1, ViewExecuteNext
  <2>3. QED
    BY <2>2
<1>3. ASSUME NEW t \in Threads, ExecuteJobReturn(t) PROVE Goal2
  <2>1. PICK q : q = exec[t].on
    OBVIOUS
  <2>2. q \in Queues /\ ViewFinish(q) /\ \A r \in Queues \ {q} : SameView(r)
    BY <1>3, <2>1, ViewExecuteJobReturn
  <2>3. QED
    BY <2>2
<1>4. ASSUME \/ Stop \/ UNCHANGED vars
             \/ \E t \in Threads :
                  \/ \E p \in Queues : PushCount(t, p)
                  \/ PushDecide(t) \/ ExecuteDrain(t) \/ ExecuteSubtract(t)
                  \/ ExecuteTick(t) \/ ExecuteRequeue(t) \/ LoopHead(t)
                  \/ PollReturn(t) \/ LoopPop(t) \/ LoopPopped(t)
      PROVE  Goal1
  BY <1>4, ViewQuiet
<1>5. QED
  BY <1>1, <1>2, <1>3, <1>4 DEF Next, ThreadStep

\* A Push call gets its serial number at the fetch_add and keeps it.
LEMMA PushStep ==
  ASSUME IndInv, [Next]_vars
  PROVE  \/ /\ issued' = issued
            /\ \A u \in Threads : push'[u].at = "enqueue" => push'[u] = push[u]
         \/ /\ issued < MaxJobs /\ issued' = issued + 1
            /\ \E t \in Threads :
                 /\ push[t].at # "enqueue" /\ push'[t].id = issued
                 /\ \A u \in Threads \ {t} : push'[u] = push[u]
<1>0. push \in [Threads -> PushCall]
  BY DEF IndInv, TypeOK
<1>1. ASSUME NEW t \in Threads, NEW q \in Queues, PushCount(t, q)
      PROVE  /\ issued < MaxJobs /\ issued' = issued + 1
             /\ push[t].at # "enqueue" /\ push'[t].id = issued
             /\ \A u \in Threads \ {t} : push'[u] = push[u]
  BY <1>0, <1>1 DEF PushCount, MayPush
<1>2. ASSUME NEW t \in Threads, PushEnqueue(t) \/ PushDecide(t)
      PROVE  /\ issued' = issued
             /\ \A u \in Threads : push'[u].at = "enqueue" => push'[u] = push[u]
  BY <1>0, <1>2 DEF PushEnqueue, PushDecide, PushCall, NotPushing
<1>3. ASSUME NEW t \in Threads,
             \/ ExecuteDrain(t) \/ ExecuteNext(t) \/ ExecuteJobReturn(t)
             \/ ExecuteSubtract(t) \/ ExecuteTick(t) \/ ExecuteRequeue(t)
             \/ LoopHead(t) \/ PollReturn(t) \/ LoopPop(t) \/ LoopPopped(t)
      PROVE  UNCHANGED <<push, issued>>
  BY <1>3 DEF ExecuteDrain, ExecuteNext, ExecuteJobReturn, ExecuteSubtract, ExecuteTick,
     ExecuteRequeue, LoopHead, PollReturn, LoopPop, LoopPopped
<1>4. CASE Stop \/ UNCHANGED vars
  BY <1>4 DEF Stop, vars
<1>5. QED
  BY <1>1, <1>2, <1>3, <1>4 DEF Next, ThreadStep

-------------------------------------------------------------------------------
(* The order of the jobs *)

LEMMA HistoryType ==
  ASSUME IndInv, NEW q \in Queues
  PROVE  /\ History(q) \in Seq(Job)
         /\ done[q] \in Seq(Job) /\ WaitingJobs(q) \in Seq(Job)
         /\ RunningJob(q) # NoJob => RunningJob(q) \in Job
<1>1. /\ done[q] \in Seq(Job) /\ WaitingJobs(q) \in Seq(Job)
      /\ RunningJob(q) \in Job \cup {NoJob}
  BY ViewsOK DEF AllViewsOK, ViewOK, IndInv, TypeOK
<1>2. (IF RunningJob(q) = NoJob THEN <<>> ELSE <<RunningJob(q)>>) \in Seq(Job)
  BY <1>1
<1>3. QED
  BY <1>1, <1>2, ConcatProperties DEF History

\* Only an accepted job makes the history longer.
LEMMA HistoryStep ==
  ASSUME IndInv, NEW q \in Queues
  PROVE  /\ SameView(q) \/ ViewStart(q) \/ ViewFinish(q) => History(q)' = History(q)
         /\ \A j \in Job : ViewAccept(q, j) => History(q)' = Append(History(q), j)
<1>1. PICK d, w, r : d = done[q] /\ w = WaitingJobs(q) /\ r = RunningJob(q)
  OBVIOUS
<1>2. d \in Seq(Job) /\ w \in Seq(Job) /\ (r # NoJob => r \in Job)
  BY <1>1, HistoryType
<1>3. PICK m : m = IF r = NoJob THEN <<>> ELSE <<r>>
  OBVIOUS
<1>4. m \in Seq(Job) /\ d \o m \in Seq(Job) /\ History(q) = (d \o m) \o w
  BY <1>1, <1>2, <1>3, ConcatProperties DEF History
<1>5. History(q)' = (done'[q] \o (IF RunningJob(q)' = NoJob THEN <<>>
                                  ELSE <<RunningJob(q)'>>)) \o WaitingJobs(q)'
  BY DEF History, NoJob
<1>6. ASSUME SameView(q) PROVE History(q)' = History(q)
  BY <1>1, <1>3, <1>4, <1>5, <1>6 DEF SameView
<1>7. ASSUME ViewStart(q) PROVE History(q)' = History(q)
  <2>1. /\ m = <<>> /\ w # <<>> /\ Head(w) \in Job /\ Tail(w) \in Seq(Job)
        /\ RunningJob(q)' = Head(w) /\ WaitingJobs(q)' = Tail(w) /\ done'[q] = d
    BY <1>1, <1>2, <1>3, <1>7, HeadTailProperties DEF ViewStart
  <2>2. History(q)' = (d \o <<Head(w)>>) \o Tail(w)
    BY <1>5, <2>1, NoJobIsNoJob
  <2>3. (d \o <<Head(w)>>) \o Tail(w) = d \o (<<Head(w)>> \o Tail(w))
    BY <1>2, <2>1, ConcatAssociative
  <2>4. <<Head(w)>> \o Tail(w) = w
    BY <1>2, <2>1, HeadThenTail
  <2>5. d \o <<>> = d
    BY <1>2, ConcatEmptySeq
  <2>6. QED
    BY <1>4, <2>1, <2>2, <2>3, <2>4, <2>5
<1>8. ASSUME ViewFinish(q) PROVE History(q)' = History(q)
  <2>1. /\ r \in Job /\ m = <<r>>
        /\ RunningJob(q)' = NoJob /\ WaitingJobs(q)' = w /\ done'[q] = Append(d, r)
    BY <1>1, <1>2, <1>3, <1>8 DEF ViewFinish
  <2>2. Append(d, r) = d \o <<r>> /\ Append(d, r) \in Seq(Job)
    BY <1>2, <2>1, AppendIsConcat, AppendProperties
  <2>3. Append(d, r) \o <<>> = Append(d, r)
    BY <2>2, ConcatEmptySeq
  <2>4. QED
    BY <1>4, <1>5, <2>1, <2>2, <2>3
<1>9. ASSUME NEW j \in Job, ViewAccept(q, j) PROVE History(q)' = Append(History(q), j)
  <2>1. WaitingJobs(q)' = Append(w, j) /\ RunningJob(q)' = r /\ done'[q] = d
    BY <1>1, <1>9 DEF ViewAccept
  <2>2. History(q)' = (d \o m) \o Append(w, j)
    BY <1>3, <1>5, <2>1
  <2>3. (d \o m) \o Append(w, j) = Append((d \o m) \o w, j)
    BY <1>2, <1>4, ConcatAppend
  <2>4. QED
    BY <1>4, <2>2, <2>3
<1>10. QED
  BY <1>6, <1>7, <1>8, <1>9
\* A job behind all jobs of its producer, with a greater serial number, keeps
\* the order.
LEMMA OrderAppend ==
  ASSUME NEW h \in Seq(Job), NEW e \in Job,
         \A i, j \in DOMAIN h : i < j /\ h[i].by = h[j].by => h[i].id < h[j].id,
         \A i \in DOMAIN h : h[i].by = e.by => h[i].id < e.id
  PROVE  \A i, j \in DOMAIN Append(h, e) :
           i < j /\ Append(h, e)[i].by = Append(h, e)[j].by
             => Append(h, e)[i].id < Append(h, e)[j].id
<1>1. PICK g : g = Append(h, e)
  OBVIOUS
<1>2. /\ g \in Seq(Job) /\ Len(g) = Len(h) + 1 /\ Len(h) \in Nat
      /\ \A i \in 1 .. Len(h) : g[i] = h[i]
      /\ g[Len(h) + 1] = e
      /\ DOMAIN h = 1 .. Len(h) /\ DOMAIN g = 1 .. Len(h) + 1
  BY <1>1, AppendProperties, LenProperties
<1>3. ASSUME NEW i \in DOMAIN g, NEW j \in DOMAIN g, i < j, g[i].by = g[j].by
      PROVE  g[i].id < g[j].id
  <2>1. i \in 1 .. Len(h) /\ g[i] = h[i]
    BY <1>2, <1>3
  <2>2. CASE j = Len(h) + 1
    BY <1>2, <1>3, <2>1, <2>2
  <2>3. CASE j # Len(h) + 1
    BY <1>2, <1>3, <2>1, <2>3
  <2>4. QED
    BY <2>2, <2>3
<1>4. QED
  BY <1>1, <1>3

LEMMA InitOrderInv == Init => OrderInv
<1> SUFFICES ASSUME Init PROVE OrderInv
  OBVIOUS
<1>1. IndInv
  BY InitIndInv
<1>2. Batches
  BY DEF Init, NotExecuting, Batches
<1>3. ASSUME NEW q \in Queues PROVE History(q) = <<>>
  <2>1. Executing(q) = {} /\ jobs[q] = <<>> /\ done[q] = <<>>
    BY NoQueueIsNone DEF Init, NotExecuting, Executing
  <2>2. RunningJob(q) = NoJob /\ WaitingJobs(q) = <<>>
    BY <1>1, <2>1, ViewsOK DEF AllViewsOK, ViewOK
  <2>3. <<>> \in Seq(Job) /\ (<<>> \o <<>>) \o <<>> = <<>>
    BY ConcatEmptySeq
  <2>4. QED
    BY <2>1, <2>2, <2>3 DEF History
<1>4. \A q \in Queues : DOMAIN History(q) = {}
  BY <1>3
<1>5. Numbered
  BY <1>4, MaxJobsIsNat DEF Init, NotPushing, Numbered
<1>6. QED
  BY <1>1, <1>2, <1>4, <1>5 DEF OrderInv, Ordered

\* A step that lengthens no history keeps the numbering: a new Push call gets
\* a number above all others.
LEMMA NumberedKept ==
  ASSUME OrderInv, [Next]_vars, \A q \in Queues : History(q)' = History(q)
  PROVE  Numbered'
<1>0. /\ issued \in Nat /\ MaxJobs \in Nat /\ push \in [Threads -> PushCall]
      /\ \A q \in Queues : History(q) \in Seq(Job)
  BY HistoryType, MaxJobsIsNat DEF OrderInv, IndInv, TypeOK
<1>1. ASSUME NEW q \in Queues, NEW i \in DOMAIN History(q)
      PROVE  History(q)[i].id \in Nat
  <2>1. i \in 1 .. Len(History(q)) /\ History(q) \in Seq(Job)
    BY <1>0, LenProperties
  <2>2. History(q)[i] \in Job
    BY <2>1, ElementOfSeq
  <2>3. QED
    BY <2>2 DEF Job
<1>2. CASE /\ issued' = issued
           /\ \A u \in Threads : push'[u].at = "enqueue" => push'[u] = push[u]
  BY <1>2 DEF OrderInv, Numbered
<1>3. ASSUME issued < MaxJobs, issued' = issued + 1, NEW t \in Threads,
             push[t].at # "enqueue", push'[t].id = issued,
             \A u \in Threads \ {t} : push'[u] = push[u]
      PROVE  Numbered'
  <2>1. issued' <= MaxJobs
    BY <1>0, <1>3
  <2>2. ASSUME NEW u \in Threads, push'[u].at = "enqueue" PROVE push'[u].id < issued'
    BY <1>0, <1>3, <2>2 DEF OrderInv, Numbered, PushCall
  <2>3. ASSUME NEW q \in Queues, NEW i \in DOMAIN History(q),
               NEW u \in Threads, push'[u].at = "enqueue", History(q)[i].by = u
        PROVE  History(q)[i].id < push'[u].id
    BY <1>3, <2>3 DEF OrderInv, Numbered
  <2>4. ASSUME NEW q \in Queues, NEW i \in DOMAIN History(q)
        PROVE  History(q)[i].id < issued'
    BY <1>0, <1>1, <1>3, <2>4 DEF OrderInv, Numbered
  <2>5. QED
    BY <2>1, <2>2, <2>3, <2>4 DEF Numbered
<1>4. QED
  BY <1>2, <1>3, PushStep DEF OrderInv

\* An enqueued job leaves the announced ones and joins the numbered ones.
LEMMA EnqueueNumbered ==
  ASSUME OrderInv, NEW t \in Threads, PushEnqueue(t), NEW q \in Queues, NEW j \in Job,
         j = [by |-> t, id |-> push[t].id], History(q)' = Append(History(q), j),
         \A r \in Queues \ {q} : History(r)' = History(r)
  PROVE  Numbered' /\ \A r \in Queues : Ordered(r)'
<1>0. /\ push \in [Threads -> PushCall] /\ push[t].at = "enqueue"
      /\ push' = [push EXCEPT ![t].at = "decide"] /\ issued' = issued
      /\ Numbered
  BY DEF OrderInv, IndInv, TypeOK, PushEnqueue
<1>1. /\ push'[t].at = "decide"
      /\ \A u \in Threads \ {t} : push'[u] = push[u]
  BY <1>0 DEF PushCall
<1>2. PICK h : h = History(q)
  OBVIOUS
<1>3. h \in Seq(Job) /\ DOMAIN h = 1 .. Len(h) /\ Len(h) \in Nat
  BY <1>2, HistoryType, LenProperties DEF OrderInv
<1>4. PICK g : g = Append(h, j)
  OBVIOUS
<1>5. /\ DOMAIN g = 1 .. Len(h) + 1 /\ g[Len(h) + 1] = j
      /\ \A i \in 1 .. Len(h) : g[i] = h[i]
  BY <1>3, <1>4, AppendProperties, LenProperties
<1>6. History(q)' = g
  BY <1>2, <1>4
<1>7. \A i \in DOMAIN h : /\ h[i].id < issued
                          /\ \A u \in Threads : push[u].at = "enqueue" /\ h[i].by = u
                                                  => h[i].id < push[u].id
  BY <1>0, <1>2 DEF Numbered
<1>8. j.by = t /\ j.id = push[t].id /\ push[t].id < issued
  BY <1>0 DEF Numbered
<1>9. ASSUME NEW i \in DOMAIN g
      PROVE  /\ g[i].id < issued
             /\ \A u \in Threads : push'[u].at = "enqueue" /\ g[i].by = u
                                     => g[i].id < push'[u].id
  <2>1. CASE i = Len(h) + 1
    BY <1>1, <1>5, <1>8, <2>1
  <2>2. CASE i # Len(h) + 1
    <3>1. i \in DOMAIN h /\ g[i] = h[i]
      BY <1>3, <1>5, <2>2
    <3>2. QED
      BY <1>1, <1>7, <3>1
  <2>3. QED
    BY <2>1, <2>2
<1>10. Numbered'
  <2>1. ASSUME NEW r \in Queues, NEW i \in DOMAIN History(r)'
        PROVE  /\ History(r)'[i].id < issued'
               /\ \A u \in Threads : push'[u].at = "enqueue" /\ History(r)'[i].by = u
                                       => History(r)'[i].id < push'[u].id
    <3>1. CASE r = q
      BY <1>0, <1>6, <1>9, <2>1, <3>1
    <3>2. CASE r # q
      <4>1. History(r)' = History(r)
        BY <3>2
      <4>2. QED
        BY <1>0, <1>1, <2>1, <4>1 DEF Numbered
    <3>3. QED
      BY <3>1, <3>2
  <2>2. /\ issued' <= MaxJobs
        /\ \A u \in Threads : push'[u].at = "enqueue" => push'[u].id < issued'
    BY <1>0, <1>1 DEF Numbered
  <2>3. QED
    BY <2>1, <2>2 DEF Numbered
<1>11. ASSUME NEW r \in Queues PROVE Ordered(r)'
  <2>1. CASE r # q
    BY <2>1 DEF OrderInv, Ordered
  <2>2. CASE r = q
    <3>1. \A i, k \in DOMAIN h : i < k /\ h[i].by = h[k].by => h[i].id < h[k].id
      BY <1>2 DEF OrderInv, Ordered
    <3>2. \A i \in DOMAIN h : h[i].by = j.by => h[i].id < j.id
      BY <1>0, <1>7, <1>8
    <3>3. \A i, k \in DOMAIN g : i < k /\ g[i].by = g[k].by => g[i].id < g[k].id
      BY <1>3, <1>4, <3>1, <3>2, OrderAppend
    <3>4. QED
      BY <1>6, <2>2, <3>3 DEF Ordered
  <2>3. QED
    BY <2>1, <2>2
<1>12. QED
  BY <1>10, <1>11

LEMMA OrderStep == OrderInv /\ [Next]_vars => OrderInv'
<1> SUFFICES ASSUME OrderInv, [Next]_vars PROVE OrderInv'
  OBVIOUS
<1>1. IndInv /\ IndInv' /\ Batches /\ Batches'
  BY IndInvNext, BatchesStep DEF OrderInv
<1>2. ASSUME \A q \in Queues : History(q)' = History(q)
      PROVE  Numbered' /\ \A q \in Queues : Ordered(q)'
  <2>1. Numbered'
    BY <1>2, NumberedKept
  <2>2. ASSUME NEW q \in Queues PROVE Ordered(q)'
    BY <1>2 DEF OrderInv, Ordered
  <2>3. QED
    BY <2>1, <2>2
<1>3. CASE \A q \in Queues : SameView(q)
  BY <1>1, <1>2, <1>3, HistoryStep DEF OrderInv
<1>4. CASE \E q \in Queues : /\ \A r \in Queues \ {q} : SameView(r)
                             /\ ViewStart(q) \/ ViewFinish(q)
  <2>1. \A q \in Queues : History(q)' = History(q)
    BY <1>1, <1>4, HistoryStep
  <2>2. QED
    BY <1>1, <1>2, <2>1 DEF OrderInv
<1>5. ASSUME NEW t \in Threads, NEW q \in Queues, NEW j \in Job,
             \A r \in Queues \ {q} : SameView(r),
             PushEnqueue(t), j = [by |-> t, id |-> push[t].id], ViewAccept(q, j)
      PROVE  OrderInv'
  <2>1. /\ History(q)' = Append(History(q), j)
        /\ \A r \in Queues \ {q} : History(r)' = History(r)
    BY <1>1, <1>5, HistoryStep
  <2>2. QED
    BY <1>1, <1>5, <2>1, EnqueueNumbered DEF OrderInv
<1>6. QED
  BY <1>1, <1>3, <1>4, <1>5, ViewStep

LEMMA SpecOrderInv == Spec => []OrderInv
<1>1. QED
  BY InitOrderInv, OrderStep, PTL DEF Spec

\* The jobs one thread pushes into one queue run in the order of its Push
\* calls, whichever threads execute them: no hand-over swaps them.
THEOREM SpecProducerOrder == Spec => []ProducerOrder
<1>1. ASSUME OrderInv, NEW q \in Queues,
             NEW i \in DOMAIN done[q], NEW j \in DOMAIN done[q],
             i < j, done[q][i].by = done[q][j].by
      PROVE  done[q][i].id < done[q][j].id
  <2>1. PICK d, h : d = done[q] /\ h = History(q)
    OBVIOUS
  <2>2. PICK m : m = IF RunningJob(q) = NoJob THEN <<>> ELSE <<RunningJob(q)>>
    OBVIOUS
  <2>3. d \in Seq(Job) /\ m \in Seq(Job) /\ WaitingJobs(q) \in Seq(Job)
    BY <1>1, <2>1, <2>2, HistoryType DEF OrderInv
  <2>4. PICK w : w \in Seq(Job) /\ h = d \o w
    <3>1. h = (d \o m) \o WaitingJobs(q)
      BY <2>1, <2>2 DEF History
    <3>2. m \o WaitingJobs(q) \in Seq(Job) /\ h = d \o (m \o WaitingJobs(q))
      BY <2>3, <3>1, ConcatProperties, ConcatAssociative
    <3>3. QED
      BY <3>2
  <2>5. \A k \in DOMAIN d : k \in DOMAIN h /\ h[k] = d[k]
    <3>1. /\ DOMAIN d = 1 .. Len(d) /\ Len(d) \in Nat /\ Len(w) \in Nat
          /\ DOMAIN h = 1 .. Len(d) + Len(w)
      BY <2>3, <2>4, ConcatProperties, LenProperties
    <3>2. QED
      BY <2>3, <2>4, <3>1, ConcatProperties
  <2>6. QED
    BY <1>1, <2>1, <2>5 DEF OrderInv, Ordered
<1>2. OrderInv => ProducerOrder
  BY <1>1 DEF ProducerOrder
<1>3. QED
  BY SpecOrderInv, <1>2, PTL
-------------------------------------------------------------------------------
(* JobQueue implements SerialExecutor *)

\* Every accepted job of the executor is in the history of its queue.
LEMMA AcceptedInHistory ==
  ASSUME IndInv, NEW j \in Job, j \in Serial!Accepted
  PROVE  \E q \in Queues : \E i \in DOMAIN History(q) : History(q)[i] = j
<1>1. PICK q \in Queues : \/ \E i \in DOMAIN WaitingJobs(q) : WaitingJobs(q)[i] = j
                          \/ RunningJob(q) = j
                          \/ \E i \in DOMAIN done[q] : done[q][i] = j
  BY DEF Serial!Accepted, Serial!ToSet
<1>2. PICK d, m, w : /\ d = done[q] /\ w = WaitingJobs(q)
                     /\ m = IF RunningJob(q) = NoJob THEN <<>> ELSE <<RunningJob(q)>>
  OBVIOUS
<1>3. d \in Seq(Job) /\ m \in Seq(Job) /\ w \in Seq(Job)
  BY <1>2, HistoryType
<1>4. PICK h : h = (d \o m) \o w
  OBVIOUS
<1>5. h = History(q)
  BY <1>2, <1>4 DEF History
<1>6. /\ Len(d) \in Nat /\ Len(m) \in Nat /\ Len(w) \in Nat
      /\ DOMAIN d = 1 .. Len(d) /\ DOMAIN m = 1 .. Len(m) /\ DOMAIN w = 1 .. Len(w)
  BY <1>3, LenProperties
<1>7. PICK dm : dm = d \o m
  OBVIOUS
<1>8. /\ dm \in Seq(Job) /\ Len(dm) = Len(d) + Len(m)
      /\ \A i \in 1 .. Len(d) + Len(m) : dm[i] = IF i <= Len(d) THEN d[i]
                                                 ELSE m[i - Len(d)]
  BY <1>3, <1>7, ConcatProperties
<1>9. /\ h \in Seq(Job) /\ Len(h) = Len(dm) + Len(w) /\ DOMAIN h = 1 .. Len(h)
      /\ \A i \in 1 .. Len(dm) + Len(w) : h[i] = IF i <= Len(dm) THEN dm[i]
                                                 ELSE w[i - Len(dm)]
  BY <1>3, <1>4, <1>7, <1>8, ConcatProperties, LenProperties
<1>10. CASE \E i \in DOMAIN d : d[i] = j
  BY <1>5, <1>6, <1>8, <1>9, <1>10
<1>11. CASE RunningJob(q) = j
  <2>1. Len(m) = 1 /\ m[1] = j
    BY <1>2, <1>11, NoJobIsNoJob
  <2>2. Len(d) + 1 \in DOMAIN h /\ h[Len(d) + 1] = j
    BY <1>6, <1>8, <1>9, <2>1
  <2>3. QED
    BY <1>5, <2>2
<1>12. CASE \E i \in DOMAIN w : w[i] = j
  <2>1. PICK i \in 1 .. Len(w) : w[i] = j
    BY <1>6, <1>12
  <2>2. PICK k : k = Len(dm) + i
    OBVIOUS
  <2>3. /\ Len(dm) \in Nat /\ k \in 1 .. Len(dm) + Len(w) /\ ~(k <= Len(dm))
        /\ k - Len(dm) = i
    BY <1>6, <1>8, <2>1, <2>2
  <2>4. k \in DOMAIN h /\ h[k] = j
    BY <1>9, <2>1, <2>3
  <2>5. QED
    BY <1>5, <2>4
<1>13. QED
  BY <1>1, <1>2, <1>10, <1>11, <1>12

\* The initial states agree: every queue is empty.
LEMMA SerialInit == Init => Serial!Init
<1> SUFFICES ASSUME Init PROVE Serial!Init
  OBVIOUS
<1>1. ASSUME NEW q \in Queues PROVE RunningJob(q) = NoJob /\ WaitingJobs(q) = <<>>
  <2>1. Executing(q) = {} /\ jobs[q] = <<>>
    BY NoQueueIsNone DEF Init, NotExecuting, Executing
  <2>2. QED
    BY <2>1, InitIndInv, ViewsOK DEF AllViewsOK, ViewOK
<1>2. done = [q \in Queues |-> <<>>]
  BY DEF Init
<1>3. QED
  BY <1>1, <1>2 DEF Serial!Init

\* Every step of the code is a step of the executor, or leaves it alone.
LEMMA SerialStep == OrderInv /\ [Next]_vars => [Serial!Next]_Serial!vars
<1> SUFFICES ASSUME OrderInv, [Next]_vars PROVE [Serial!Next]_Serial!vars
  OBVIOUS
<1>1. /\ IndInv /\ IndInv' /\ Batches
      /\ done \in [Queues -> Seq(Job)] /\ done' \in [Queues -> Seq(Job)]
  BY IndInvNext DEF OrderInv, IndInv, TypeOK
<1>2. CASE \A q \in Queues : SameView(q)
  <2>1. done' = done
    BY <1>1, <1>2 DEF SameView
  <2>2. [q \in Queues |-> WaitingJobs(q)'] = [q \in Queues |-> WaitingJobs(q)]
    BY <1>2 DEF SameView
  <2>3. [q \in Queues |-> RunningJob(q)'] = [q \in Queues |-> RunningJob(q)]
    BY <1>2 DEF SameView
  <2>4. QED
    BY <2>1, <2>2, <2>3 DEF Serial!vars
<1>3. ASSUME NEW q \in Queues, \A r \in Queues \ {q} : SameView(r), ViewStart(q)
      PROVE  Serial!Start(q)
  <2>1. done' = done
    BY <1>1, <1>3 DEF SameView, ViewStart
  <2>2. [r \in Queues |-> WaitingJobs(r)'] =
          [[r \in Queues |-> WaitingJobs(r)] EXCEPT ![q] = Tail(@)]
    BY <1>3 DEF SameView, ViewStart
  <2>3. [r \in Queues |-> RunningJob(r)'] =
          [[r \in Queues |-> RunningJob(r)] EXCEPT
             ![q] = Head([r \in Queues |-> WaitingJobs(r)][q])]
    BY <1>3 DEF SameView, ViewStart
  <2>4. RunningJob(q) = NoJob /\ WaitingJobs(q) # <<>>
    BY <1>3 DEF ViewStart
  <2>5. QED
    BY <2>1, <2>2, <2>3, <2>4 DEF Serial!Start
<1>4. ASSUME NEW q \in Queues, \A r \in Queues \ {q} : SameView(r), ViewFinish(q)
      PROVE  Serial!Finish(q)
  <2>1. done' = [done EXCEPT ![q] = Append(@, RunningJob(q))]
    BY <1>1, <1>4 DEF SameView, ViewFinish
  <2>2. [r \in Queues |-> WaitingJobs(r)'] = [r \in Queues |-> WaitingJobs(r)]
    BY <1>4 DEF SameView, ViewFinish
  <2>3. [r \in Queues |-> RunningJob(r)'] =
          [[r \in Queues |-> RunningJob(r)] EXCEPT ![q] = NoJob]
    BY <1>4 DEF SameView, ViewFinish
  <2>4. RunningJob(q) # NoJob
    BY <1>4 DEF ViewFinish
  <2>5. QED
    BY <2>1, <2>2, <2>3, <2>4 DEF Serial!Finish
<1>5. ASSUME NEW t \in Threads, NEW q \in Queues, NEW j \in Job,
             \A r \in Queues \ {q} : SameView(r),
             PushEnqueue(t), j = [by |-> t, id |-> push[t].id], ViewAccept(q, j)
      PROVE  \E k \in [by : Threads, id : 0 .. MaxJobs - 1] : Serial!Accept(q, k)
  <2>1. push[t].at = "enqueue"
    BY <1>5 DEF PushEnqueue
  <2>2. j \in [by : Threads, id : 0 .. MaxJobs - 1]
    <3>1. push[t].id \in Nat /\ push[t].id < issued /\ issued <= MaxJobs
          /\ issued \in Nat /\ MaxJobs \in Nat
      BY <1>1, <2>1, MaxJobsIsNat DEF OrderInv, Numbered, IndInv, TypeOK, PushCall
    <3>2. push[t].id \in 0 .. MaxJobs - 1
      BY <3>1
    <3>3. QED
      BY <1>5, <3>2
  <2>3. j \notin Serial!Accepted
    <3>1. SUFFICES ASSUME j \in Serial!Accepted PROVE FALSE
      OBVIOUS
    <3>2. PICK r \in Queues : \E i \in DOMAIN History(r) : History(r)[i] = j
      BY <1>1, <1>5, <3>1, AcceptedInHistory
    <3>3. j.by = t /\ j.id = push[t].id /\ push[t].id \in Nat
      BY <1>1, <1>5 DEF IndInv, TypeOK, PushCall
    <3>4. \A i \in DOMAIN History(r) :
            History(r)[i].by = t => History(r)[i].id < push[t].id
      BY <2>1 DEF OrderInv, Numbered
    <3>5. j.id < push[t].id
      BY <3>2, <3>3, <3>4
    <3>6. QED
      BY <3>3, <3>5
  <2>4. done' = done
    BY <1>1, <1>5 DEF SameView, ViewAccept
  <2>5. [r \in Queues |-> WaitingJobs(r)'] =
          [[r \in Queues |-> WaitingJobs(r)] EXCEPT ![q] = Append(@, j)]
    BY <1>5 DEF SameView, ViewAccept
  <2>6. [r \in Queues |-> RunningJob(r)'] = [r \in Queues |-> RunningJob(r)]
    BY <1>5 DEF SameView, ViewAccept
  <2>7. Serial!Accept(q, j)
    BY <2>3, <2>4, <2>5, <2>6 DEF Serial!Accept
  <2>8. QED
    BY <2>2, <2>7
<1>6. QED
  BY <1>1, <1>2, <1>3, <1>4, <1>5, ViewStep DEF Serial!Next

\* The jobs of a queue run one at a time, in the order in which they were
\* put in, each of them once: the threads, counters and the GlobalQueue
\* implement the serial executor, for any number of threads and queues.
THEOREM SpecImplementsSerialExecutor == Spec => ImplementsSerialExecutor
<1>1. QED
  BY SpecOrderInv, SerialInit, SerialStep, PTL
     DEF Spec, ImplementsSerialExecutor, Serial!Spec
===============================================================================
