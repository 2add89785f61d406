---------------------------- MODULE SerialExecutor ----------------------------
(***************************************************************************)
(* What a JobQueue promises its owner (Room.h:9, "JobQueue를 상속받아 내부 *)
(* 로직을 직렬화한다"): the jobs of one queue run one at a time, in the    *)
(* order in which they were put in the queue, and each of them runs once.  *)
(* Nothing is said here of threads, counters or the GlobalQueue.           *)
(***************************************************************************)
EXTENDS SequencesExt

CONSTANTS Queues,   \* the serialized objects (one per Room)
          Jobs,     \* every job that can ever be put in a queue
          NoJob     \* "nothing is running"

VARIABLES pending,  \* pending[q]: accepted, not started, oldest first
          running,  \* running[q]: the job being executed, or NoJob
          done      \* done[q]: the jobs that have finished, in that order

vars == <<pending, running, done>>

Accepted == UNION {ToSet(pending[q]) \cup {running[q]} \cup ToSet(done[q])
                     : q \in Queues}

Init == /\ pending = [q \in Queues |-> <<>>]
        /\ running = [q \in Queues |-> NoJob]
        /\ done    = [q \in Queues |-> <<>>]

Accept(q, j) == /\ j \notin Accepted
                /\ pending' = [pending EXCEPT ![q] = Append(@, j)]
                /\ UNCHANGED <<running, done>>

Start(q) == /\ running[q] = NoJob
            /\ pending[q] # <<>>
            /\ running' = [running EXCEPT ![q] = Head(pending[q])]
            /\ pending' = [pending EXCEPT ![q] = Tail(@)]
            /\ UNCHANGED done

Finish(q) == /\ running[q] # NoJob
             /\ done'    = [done EXCEPT ![q] = Append(@, running[q])]
             /\ running' = [running EXCEPT ![q] = NoJob]
             /\ UNCHANGED pending

Next == \E q \in Queues : \/ \E j \in Jobs : Accept(q, j)
                          \/ Start(q)
                          \/ Finish(q)

Spec == Init /\ [][Next]_vars
===============================================================================
