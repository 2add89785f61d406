--------------------------------- MODULE Bank ---------------------------------
(***************************************************************************)
(* What the point accounts promise their users (README.md:127-129): a      *)
(* request is answered once, a transfer that is answered with success has  *)
(* moved its amount from one account to another in one indivisible step,   *)
(* and one that is answered with failure has moved nothing.  Nothing is    *)
(* said here of reads, contexts, locks, transactions or retries.           *)
(***************************************************************************)
EXTENDS Naturals

CONSTANTS Sessions,  \* the clients' sessions
          Owner,     \* Owner[s]: the account session s is logged in as
          UserIds,   \* the accounts there can be
          Nicknames, \* the names an account can have
          Calls,     \* every request a session can send
          NoCall,    \* "no request is being served"
          Absent,    \* "there is no such account"
          PayByName, \* is the payee the user who has the name at payment?
          LossyCommit \* may a commit fail without anybody noticing?

VARIABLES accounts,  \* accounts[u]: nickname and balance, or Absent
          call,      \* call[s]: the request being served, or NoCall
          reply      \* reply[s]: what it is answered with, once that is settled

vars == <<accounts, call, reply>>

Init == /\ accounts \in [UserIds -> [nickname : Nicknames, balance : Nat]]
        /\ call = [s \in Sessions |-> NoCall]
        /\ reply = [s \in Sessions |-> "none"]

Ask(s, c) == /\ call[s] = NoCall
             /\ call' = [call EXCEPT ![s] = c]
             /\ UNCHANGED <<accounts, reply>>

Settle(s, r) == /\ reply[s] = "none"
                /\ reply' = [reply EXCEPT ![s] = r]
                /\ UNCHANGED call

Pay(s, to) ==
  LET from == Owner[s]  amount == call[s].amount IN
  /\ call[s].kind = "transfer"
  /\ from # to
  /\ accounts[from] # Absent /\ accounts[to] # Absent
  /\ accounts[from].balance >= amount
  /\ PayByName => accounts[to].nickname = call[s].target
  /\ accounts' = [accounts EXCEPT ![from].balance = @ - amount,
                                  ![to].balance = @ + amount]
  /\ Settle(s, "ok")

Rename(s) == /\ call[s].kind = "rename"
             /\ accounts[Owner[s]] # Absent
             /\ accounts' = [accounts EXCEPT ![Owner[s]].nickname = call[s].target]
             /\ Settle(s, "ok")

Close(s) == /\ call[s].kind = "delete"
            /\ accounts' = [accounts EXCEPT ![Owner[s]] = Absent]
            /\ Settle(s, "ok")

\* The answer is success and nothing is kept.
Lose(s) == /\ LossyCommit
           /\ call[s] # NoCall
           /\ Settle(s, "ok")
           /\ UNCHANGED accounts

Refuse(s) == /\ call[s] # NoCall
             /\ Settle(s, "fail")
             /\ UNCHANGED accounts

Answer(s) == /\ reply[s] # "none"
             /\ call' = [call EXCEPT ![s] = NoCall]
             /\ reply' = [reply EXCEPT ![s] = "none"]
             /\ UNCHANGED accounts

Next == \E s \in Sessions :
           \/ \E c \in Calls : Ask(s, c)
           \/ \E to \in UserIds : Pay(s, to)
           \/ Rename(s)
           \/ Close(s)
           \/ Lose(s)
           \/ Refuse(s)
           \/ Answer(s)

Spec == Init /\ [][Next]_vars
===============================================================================
