---------------------------- MODULE ConnectionPool -----------------------------
(***************************************************************************)
(* The pool of database connections (DBConnectionPool.cpp): Pop blocks its *)
(* worker in a condition variable until there is a connection, Push gives  *)
(* one back and wakes one of those that wait.  A session's handler takes   *)
(* one connection at a time and runs on one worker, so a session stands    *)
(* for the worker of its handler.                                          *)
(***************************************************************************)
EXTENDS Integers, Sequences, FiniteSets

CONSTANTS Sessions,    \* sessions whose handlers use the database
          PoolSize     \* iDBPoolCount

ASSUME PoolAssumption == IsFiniteSet(Sessions) /\ PoolSize \in Nat \ {0}

Pool == 1 .. PoolSize
NoConn == 0

VARIABLES
  Connections, \* connections that are not lent, the last one is taken first
  lent,        \* lent[s]: the connection in the DBConnectionScope of s
  waiting,     \* who sleeps in Cv.wait
  woken,       \* who was woken and has not looked at the pool again
  notifying    \* who is between the critical section of Push and notify_one

poolVars == <<Connections, lent, waiting, woken, notifying>>

\* Connect fills the pool
PoolInit ==
  /\ Connections = [k \in 1 .. PoolSize |-> k]
  /\ lent = [s \in Sessions |-> NoConn]
  /\ waiting = {} /\ woken = {} /\ notifying = {}

-------------------------------------------------------------------------------

Take(s) ==
  /\ Connections # <<>>
  /\ lent' = [lent EXCEPT ![s] = Connections[Len(Connections)]]
  /\ Connections' = SubSeq(Connections, 1, Len(Connections) - 1)

\* Pop, to the first look at the pool
Pop(s) ==
  /\ \/ Take(s) /\ UNCHANGED waiting
     \/ Connections = <<>> /\ waiting' = waiting \cup {s} /\ UNCHANGED <<Connections, lent>>
  /\ UNCHANGED <<woken, notifying>>

\* a woken Pop has the mutex again; somebody else may have been faster
Recheck(s) ==
  /\ s \in woken
  /\ woken' = woken \ {s}
  /\ \/ Take(s) /\ UNCHANGED waiting
     \/ Connections = <<>> /\ waiting' = waiting \cup {s} /\ UNCHANGED <<Connections, lent>>
  /\ UNCHANGED notifying

\* a condition variable may wake without a reason
SpuriousWakeup(s) ==
  /\ s \in waiting
  /\ waiting' = waiting \ {s}
  /\ woken' = woken \cup {s}
  /\ UNCHANGED <<Connections, lent, notifying>>

\* Mutant of Push: notifies nobody
PushSilently(s) ==
  /\ lent[s] # NoConn
  /\ Connections' = Append(Connections, lent[s])
  /\ lent' = [lent EXCEPT ![s] = NoConn]
  /\ UNCHANGED <<waiting, woken, notifying>>

\* ~DBConnectionScope: Push, to the end of its critical section
Push(s) ==
  /\ lent[s] # NoConn
  /\ Connections' = Append(Connections, lent[s])
  /\ lent' = [lent EXCEPT ![s] = NoConn]
  /\ notifying' = notifying \cup {s}
  /\ UNCHANGED <<waiting, woken>>

\* notify_one, after the mutex was released
NotifyOne(s) ==
  /\ s \in notifying
  /\ notifying' = notifying \ {s}
  /\ \/ waiting = {} /\ UNCHANGED <<waiting, woken>>
     \/ \E w \in waiting : waiting' = waiting \ {w} /\ woken' = woken \cup {w}
  /\ UNCHANGED <<Connections, lent>>

-------------------------------------------------------------------------------

PoolTypeOK ==
  /\ Connections \in Seq(Pool)
  /\ lent \in [Sessions -> Pool \cup {NoConn}]
  /\ waiting \subseteq Sessions /\ woken \subseteq Sessions /\ notifying \subseteq Sessions
  /\ waiting \cap woken = {}

\* No wake-up is lost: while somebody sleeps, every connection in the pool has
\* a thread that was woken for it or will be, although notify_one comes after
\* the unlock and a new Pop may take the connection first
\* (DBConnectionPool.cpp:68, :82).
NoLostWakeup ==
  waiting # {} => Len(Connections) <= Cardinality(woken) + Cardinality(notifying)

\* A connection is in the pool once, or lent to one session; none is lost when
\* a handler returns early (README.md:153).
ConnectionHasOnePlace ==
  /\ \A j, k \in 1 .. Len(Connections) : Connections[j] = Connections[k] => j = k
  /\ \A s, r \in Sessions : lent[s] = lent[r] /\ lent[s] # NoConn => s = r
  /\ \A c \in Pool : (\E k \in 1 .. Len(Connections) : Connections[k] = c)
                        <=> ~ \E s \in Sessions : lent[s] = c
===============================================================================
