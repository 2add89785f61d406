------------------------------ MODULE FriendBook -------------------------------
(***************************************************************************)
(* What friend requests promise (README.md:418): a user asks, the user who *)
(* was asked accepts or rejects, and either of two friends can end the     *)
(* friendship.  Each request does this in one step or is refused.  What    *)
(* the database may do to that: a request whose commit fails does nothing  *)
(* and is not refused, and one that could not begin a transaction does not *)
(* keep its changes together.                                              *)
(***************************************************************************)
EXTENDS Naturals

CONSTANTS Sessions, Users, Owner, Calls, NoCall,
          Alone,         \* sessions whose user has no other session
          LossyBegin,    \* a transaction may fail to begin
          LossyCommit    \* ... and to commit

VARIABLES
  book,    \* book[d]: "none", "pending" or "accepted", for d = <<from, to>>
  call,    \* call[s]: the request being served, or NoCall
  reply,   \* reply[s]: what it is answered with, once that is settled
  loose    \* sessions whose request is served without a transaction

vars == <<book, call, reply, loose>>

In(s)  == <<call[s].other, Owner[s]>>
Out(s) == <<Owner[s], call[s].other>>

Init ==
  /\ book \in [Users \X Users -> {"none", "pending", "accepted"}]
  /\ call = [s \in Sessions |-> NoCall]
  /\ reply = [s \in Sessions |-> "none"]
  /\ loose = {}

Ask(s, c) ==
  /\ call[s] = NoCall
  /\ call' = [call EXCEPT ![s] = c]
  /\ UNCHANGED <<book, reply, loose>>

Settle(s, r) ==
  /\ call[s] # NoCall /\ reply[s] = "none"
  /\ reply' = [reply EXCEPT ![s] = r]
  /\ loose' = loose \ {s}
  /\ UNCHANGED call

BeginFails(s) ==
  /\ LossyBegin
  /\ call[s] # NoCall /\ reply[s] = "none"
  /\ loose' = loose \cup {s}
  /\ UNCHANGED <<book, call, reply>>

Request(s) ==
  /\ Settle(s, "ok")
  /\ call[s].kind = "request"
  /\ book[Out(s)] = "none"
  /\ book' = [book EXCEPT ![Out(s)] = "pending"]

Accept(s) ==
  /\ Settle(s, "ok")
  /\ call[s].kind = "accept"
  /\ book[In(s)] = "pending"
  /\ book' = [book EXCEPT ![In(s)] = "accepted"]

\* A second session of the user may have accepted or rejected the request
\* before, and the rejection then deletes the friendship, or finds nothing.
Reject(s) ==
  /\ Settle(s, "ok")
  /\ call[s].kind = "reject"
  /\ \/ /\ s \in Alone => book[In(s)] = "pending"
        /\ book' = [book EXCEPT ![In(s)] = "none"]
     \/ s \notin Alone /\ UNCHANGED book

\* Friendships that began or ended during the request may stay as they are.
Remove(s) ==
  /\ Settle(s, "ok")
  /\ call[s].kind = "remove"
  /\ \E D \in SUBSET {d \in {In(s), Out(s)} : book[d] = "accepted"} :
       book' = [d \in DOMAIN book |-> IF d \in D THEN "none" ELSE book[d]]

\* without a transaction: one of the friendships, while the other is still to go
RemoveOne(s) ==
  /\ s \in loose
  /\ call[s] # NoCall /\ reply[s] = "none"
  /\ call[s].kind = "remove"
  /\ \E d \in {In(s), Out(s)} :
       book[d] = "accepted" /\ book' = [book EXCEPT ![d] = "none"]
  /\ UNCHANGED <<call, reply, loose>>

Refuse(s) ==
  /\ Settle(s, "fail")
  /\ UNCHANGED book

\* without a transaction: a request that is there, and is refused
RefuseAsked(s) ==
  /\ s \in loose
  /\ Settle(s, "fail")
  /\ call[s].kind = "request"
  /\ book[Out(s)] = "none"
  /\ book' = [book EXCEPT ![Out(s)] = "pending"]

\* The commit fails, and nobody notices.
Lose(s) ==
  /\ LossyCommit /\ s \notin loose
  /\ Settle(s, "ok")
  /\ UNCHANGED book

Answer(s) ==
  /\ reply[s] # "none"
  /\ call' = [call EXCEPT ![s] = NoCall]
  /\ reply' = [reply EXCEPT ![s] = "none"]
  /\ UNCHANGED <<book, loose>>

Next == \E s \in Sessions :
          \/ \E c \in Calls : Ask(s, c)
          \/ BeginFails(s) \/ Request(s) \/ Accept(s) \/ Reject(s)
          \/ Remove(s) \/ RemoveOne(s) \/ Refuse(s) \/ RefuseAsked(s) \/ Lose(s)
          \/ Answer(s)

Spec == Init /\ [][Next]_vars
===============================================================================
