------------------------------- MODULE Transfer -------------------------------
(***************************************************************************)
(* The requests that write rows of the User table, served concurrently by  *)
(* the worker threads: Handle_C_TRANSFER in its two lock modes,            *)
(* Handle_C_UPDATE_NICKNAME and Handle_C_DELETE_ACCOUNT                    *)
(* (Network/ClientPacketHandler.cpp), the DBContext they load rows into    *)
(* and flush (DB/ORM/DBContext.h), and the row locks and transactions of   *)
(* the database below it.                                                  *)
(*                                                                         *)
(* One step is one SQL statement or one call on the connection; what the   *)
(* handler computes from a result belongs to the step that fetched it.     *)
(* The database is external.  It is modelled as the code uses it: a        *)
(* statement sees committed rows only (SQL Server READ COMMITTED), waits   *)
(* for a row that another transaction has locked, and an UPDATE or DELETE  *)
(* keeps its row locked until the transaction ends.                        *)
(***************************************************************************)
EXTENDS Integers, FiniteSetsExt

CONSTANTS Sessions,        \* logged-in client sessions; each serves one request at a time
          UserIds,         \* primary keys of User, in the order of the key
          Nicknames,
          Amounts,         \* the amounts a client asks for
          Kinds,           \* Kinds[s]: the requests session s sends in this instance
          Owner,           \* Owner[s]: PlayerInfo.PlayerId of session s
          FirstName,       \* FirstName[u]: the nickname of u at the start
          InitialBalance,  \* kInitialBalance
          MaxRetry,        \* kMaxTransferRetry
          LockMode,        \* CHATSERVER_TRANSFER_LOCK: "occ" or "updlock"
          Faults,          \* the database calls that may fail in this instance
          Free,            \* "no transaction locks the row"
          Absent           \* "no such row", "not in the IdentityMap"

ASSUME UserIdsAreKeys  == UserIds \subseteq Int /\ IsFiniteSet(UserIds)
ASSUME SessionsAreFinite == IsFiniteSet(Sessions) /\ Free \notin Sessions
ASSUME OwnersAreUsers  == Owner \in [Sessions -> UserIds]
ASSUME FirstNamesAreNames == FirstName \in [UserIds -> Nicknames]
ASSUME NumbersAreNat   == /\ Amounts \subseteq Nat \ {0}
                          /\ InitialBalance \in Nat
                          /\ MaxRetry \in Nat
ASSUME ModesAndFaults  == /\ LockMode \in {"occ", "updlock"}
                          /\ Faults \subseteq {"begin", "execute", "commit"}
                          /\ Kinds \in [Sessions -> SUBSET {"transfer", "rename", "delete"}]

VARIABLES
  users,   \* users[u]: the committed row of u, or Absent
  lock,    \* lock[u]: the session whose transaction has locked row u
  conn,    \* conn[s]: transaction open? which rows has it written?
  pc,      \* pc[s]: the handler's next statement
  call,    \* call[s]: the request being served
  ctx,     \* ctx[s]: the DBContext of the request
  retry,   \* retry[s]: Retry of Handle_C_TRANSFER
  reply,   \* reply[s]: the answer that is about to be sent
  name     \* name[s]: PlayerInfo.Nickname

vars == <<users, lock, conn, pc, call, ctx, retry, reply, name>>

Row == [nickname : Nicknames, balance : Nat]

ASSUME AbsentIsNoRow == Absent \notin Row

NoCall == [kind |-> "none"]

Calls == [kind : {"transfer"}, target : Nicknames, amount : Amounts]
           \cup [kind : {"rename"}, target : Nicknames]
           \cup [kind : {"delete"}]

\* IdentityMap with the origin and the current value of every row in it,
\* Changes, and the payee ToId
Context == [origin : [UserIds -> Row \cup {Absent}],
            value : [UserIds -> Row \cup {Absent}],
            changes : SUBSET UserIds,
            payee : UserIds \cup {Absent}]

EmptyContext == [origin |-> [u \in UserIds |-> Absent],
                 value |-> [u \in UserIds |-> Absent],
                 changes |-> {}, payee |-> Absent]

\* autocommit: every statement is its own transaction
Autocommit == [open |-> FALSE, written |-> {}]

Stages == {"idle", "readMe", "readTo", "lookup", "open", "lockLow", "lockHigh",
           "begin", "flush", "answer", "notify"}

TypeOK ==
  /\ users \in [UserIds -> Row \cup {Absent}]
  /\ lock \in [UserIds -> Sessions \cup {Free}]
  /\ conn \in [Sessions -> [open : BOOLEAN, written : SUBSET UserIds]]
  /\ pc \in [Sessions -> Stages]
  /\ call \in [Sessions -> Calls \cup {NoCall}]
  /\ ctx \in [Sessions -> Context]
  /\ retry \in [Sessions -> 0 .. MaxRetry]
  /\ reply \in [Sessions -> {"none", "ok", "fail"}]
  /\ name \in [Sessions -> Nicknames]

Init ==
  /\ users = [u \in UserIds |-> [nickname |-> FirstName[u],
                                 balance |-> InitialBalance]]
  /\ lock = [u \in UserIds |-> Free]
  /\ conn = [s \in Sessions |-> Autocommit]
  /\ pc = [s \in Sessions |-> "idle"]
  /\ call = [s \in Sessions |-> NoCall]
  /\ ctx = [s \in Sessions |-> EmptyContext]
  /\ retry = [s \in Sessions |-> 0]
  /\ reply = [s \in Sessions |-> "none"]
  /\ name = [s \in Sessions |-> FirstName[Owner[s]]]

-------------------------------------------------------------------------------
(* The database *)

\* a SELECT does not see, and waits for, a row somebody else has written
Readable(s, u) == lock[u] \notin {Free, s} => u \notin conn[lock[u]].written

\* an UPDATE, a DELETE or a SELECT WITH (UPDLOCK) waits for any other lock
Lockable(s, u) == lock[u] \in {Free, s}

\* Commit and Rollback end the transaction and unlock its rows. When SQLEndTran
\* itself fails, the database is taken to have ended it.
EndTransaction(s) ==
  /\ lock' = [u \in UserIds |-> IF lock[u] = s THEN Free ELSE lock[u]]
  /\ conn' = [conn EXCEPT ![s] = Autocommit]

-------------------------------------------------------------------------------
(* Requests and answers *)

Me(s) == Owner[s]

FirstStatement(kind) ==
  IF kind = "transfer" /\ LockMode = "updlock" THEN "lookup" ELSE "readMe"

\* A request that passes the input checks; a transfer to one's own session
\* nickname is refused before the database is used.
Request(s, c) ==
  /\ pc[s] = "idle"
  /\ c.kind \in Kinds[s]
  /\ c.kind = "transfer" => c.target # name[s]
  /\ call' = [call EXCEPT ![s] = c]
  /\ pc' = [pc EXCEPT ![s] = FirstStatement(c.kind)]
  /\ UNCHANGED <<users, lock, conn, ctx, retry, reply, name>>

\* Mutant of Fail: ~DBContext leaves an open transaction to the pool
FailInTransaction(s) ==
  /\ pc' = [pc EXCEPT ![s] = "answer"]
  /\ reply' = [reply EXCEPT ![s] = "fail"]
  /\ ctx' = [ctx EXCEPT ![s] = EmptyContext]
  /\ retry' = [retry EXCEPT ![s] = 0]
  /\ UNCHANGED <<users, lock, conn, call, name>>

\* Fail(Msg); ~DBContext rolls back a transaction that is still open
Fail(s) == /\ pc' = [pc EXCEPT ![s] = "answer"]
           /\ reply' = [reply EXCEPT ![s] = "fail"]
           /\ ctx' = [ctx EXCEPT ![s] = EmptyContext]
           /\ retry' = [retry EXCEPT ![s] = 0]
           /\ EndTransaction(s)
           /\ UNCHANGED <<users, call, name>>

Finish(s) == /\ pc' = [pc EXCEPT ![s] = "idle"]
             /\ call' = [call EXCEPT ![s] = NoCall]
             /\ ctx' = [ctx EXCEPT ![s] = EmptyContext]
             /\ retry' = [retry EXCEPT ![s] = 0]
             /\ reply' = [reply EXCEPT ![s] = "none"]
             /\ UNCHANGED <<users, lock, conn, name>>

\* Send of the response; a transfer that succeeded goes on to the payee
Answer(s) ==
  /\ pc[s] = "answer"
  /\ IF reply[s] = "ok" /\ call[s].kind = "transfer"
     THEN /\ pc' = [pc EXCEPT ![s] = "notify"]
          /\ UNCHANGED <<users, lock, conn, call, ctx, retry, reply, name>>
     ELSE Finish(s)

\* S_TRANSFER_RECEIVED to the session of the payee, if there is one
NotifyPayee(s) == pc[s] = "notify" /\ Finish(s)

-------------------------------------------------------------------------------
(* Loading rows into the DBContext and changing them *)

Load(c, u, row) == [c EXCEPT !.origin[u] = row, !.value[u] = row]

\* what a SELECT WHERE Id = u returns; nothing when the statement fails
Found(u) == {users[u]} \cup (IF "execute" \in Faults THEN {Absent} ELSE {})

\* WHERE Nickname = target; nicknames are not unique, any match may be first
Named(s) == {u \in UserIds : users[u] # Absent /\ users[u].nickname = call[s].target}

\* Mutant of CanPay: the comparison is off by one
CanAlmostPay(s, c) ==
  /\ Absent \notin {c.value[Me(s)], c.value[c.payee]}
  /\ c.payee # Me(s)
  /\ c.value[Me(s)].balance + 1 >= call[s].amount

\* both rows were found, they are not the same, and the balance suffices
CanPay(s, c) ==
  /\ Absent \notin {c.value[Me(s)], c.value[c.payee]}
  /\ c.payee # Me(s)
  /\ c.value[Me(s)].balance >= call[s].amount

\* From->Balance -= Amount; To->Balance += Amount
Moved(s, c) ==
  [c EXCEPT !.value[Me(s)].balance = @ - call[s].amount,
            !.value[c.payee].balance = @ + call[s].amount,
            !.changes = {Me(s), c.payee}]

\* Where(Id == me), the first statement of all three handlers; a transfer
\* looks at the result only when it has read the payee too
ReadMe(s) ==
  LET u == Me(s) IN
  /\ pc[s] = "readMe"
  /\ Readable(s, u)
  /\ \E row \in Found(u) :
     LET c == Load(ctx[s], u, row) IN
     \/ call[s].kind # "transfer" /\ row = Absent /\ Fail(s)
     \/ /\ \/ /\ call[s].kind = "transfer"
              /\ ctx' = [ctx EXCEPT ![s] = c]
              /\ pc' = [pc EXCEPT ![s] = "readTo"]
           \/ /\ call[s].kind = "rename" /\ row # Absent
              /\ ctx' = [ctx EXCEPT ![s] =
                   [c EXCEPT !.value[u].nickname = call[s].target, !.changes = {u}]]
              /\ pc' = [pc EXCEPT ![s] = "begin"]
           \/ /\ call[s].kind = "delete" /\ row # Absent
              /\ ctx' = [ctx EXCEPT ![s] =
                   [c EXCEPT !.value[u] = Absent, !.changes = {u}]]
              /\ pc' = [pc EXCEPT ![s] = "begin"]
        /\ UNCHANGED <<users, lock, conn, call, retry, reply, name>>

\* OCC: the payee is read without a lock
ReadTo(s) ==
  /\ pc[s] = "readTo"
  /\ \/ /\ Named(s) = {}
        /\ \A u \in UserIds : Readable(s, u)
        /\ Fail(s)
     \/ \E u \in Named(s) :
        LET c == [Load(ctx[s], u, users[u]) EXCEPT !.payee = u] IN
        /\ Readable(s, u)
        /\ \/ ~CanPay(s, c) /\ Fail(s)
           \/ /\ CanPay(s, c)
              /\ ctx' = [ctx EXCEPT ![s] = Moved(s, c)]
              /\ pc' = [pc EXCEPT ![s] = "begin"]
              /\ UNCHANGED <<users, lock, conn, call, retry, reply, name>>

\* UPDLOCK 1-a: only the Id of the payee is taken from an unlocked read
Lookup(s) ==
  /\ pc[s] = "lookup"
  /\ \/ /\ Named(s) = {}
        /\ \A u \in UserIds : Readable(s, u)
        /\ Fail(s)
     \/ \E u \in Named(s) :
        /\ Readable(s, u)
        /\ \/ u = Me(s) /\ Fail(s)
           \/ /\ u # Me(s)
              /\ ctx' = [ctx EXCEPT ![s].payee = u]
              /\ pc' = [pc EXCEPT ![s] = "open"]
              /\ UNCHANGED <<users, lock, conn, call, retry, reply, name>>

\* UPDLOCK 1-b: BeginTransaction
OpenTransaction(s) ==
  /\ pc[s] = "open"
  /\ \/ "begin" \in Faults /\ Fail(s)
     \/ /\ conn' = [conn EXCEPT ![s].open = TRUE]
        /\ pc' = [pc EXCEPT ![s] = "lockLow"]
        /\ UNCHANGED <<users, lock, call, ctx, retry, reply, name>>

\* Mutant of LockOrder: the payer first
PayerFirst(s) == <<Me(s), ctx[s].payee>>

\* the row with the smaller key is locked first
LockOrder(s) == LET ids == {Me(s), ctx[s].payee} IN <<Min(ids), Max(ids)>>

LowId(s)  == LockOrder(s)[1]
HighId(s) == LockOrder(s)[2]

\* Mutant of LockLow: a plain SELECT, without the UPDLOCK hint
ReadLow(s) ==
  LET u == LowId(s) IN
  /\ pc[s] = "lockLow"
  /\ Lockable(s, u)
  /\ \E row \in Found(u) : ctx' = [ctx EXCEPT ![s] = Load(@, u, row)]
  /\ pc' = [pc EXCEPT ![s] = "lockHigh"]
  /\ UNCHANGED <<users, lock, conn, call, retry, reply, name>>

\* SELECT WITH (UPDLOCK, ROWLOCK): a row that is found is locked and loaded
LockLow(s) ==
  LET u == LowId(s) IN
  /\ pc[s] = "lockLow"
  /\ Lockable(s, u)
  /\ \E row \in Found(u) :
     /\ lock' = IF row = Absent THEN lock ELSE [lock EXCEPT ![u] = s]
     /\ ctx' = [ctx EXCEPT ![s] = Load(@, u, row)]
  /\ pc' = [pc EXCEPT ![s] = "lockHigh"]
  /\ UNCHANGED <<users, conn, call, retry, reply, name>>

\* the results of both are looked at now
LockHigh(s) ==
  LET u == HighId(s) IN
  /\ pc[s] = "lockHigh"
  /\ Lockable(s, u)
  /\ \E row \in Found(u) :
     LET c == Load(ctx[s], u, row) IN
     \/ ~CanPay(s, c) /\ Fail(s)
     \/ /\ CanPay(s, c)
        /\ lock' = [lock EXCEPT ![u] = s]
        /\ ctx' = [ctx EXCEPT ![s] = Moved(s, c)]
        /\ pc' = [pc EXCEPT ![s] = "flush"]
        /\ UNCHANGED <<users, conn, call, retry, reply, name>>

-------------------------------------------------------------------------------
(* DBContext::SaveChanges *)

\* The result of Begin is not looked at: when it fails, SaveChanges goes on
\* in autocommit mode.
Begin(s) ==
  /\ pc[s] = "begin"
  /\ \/ conn' = [conn EXCEPT ![s].open = TRUE]
     \/ "begin" \in Faults /\ UNCHANGED conn
  /\ pc' = [pc EXCEPT ![s] = "flush"]
  /\ UNCHANGED <<users, lock, call, ctx, retry, reply, name>>

\* Mutant of NextChange: in the order in which the rows were loaded
NextLoaded(s) == IF Me(s) \in ctx[s].changes THEN Me(s) ELSE ctx[s].payee

\* The IdentityMap is scanned in the order of the keys
NextChange(s) == Min(ctx[s].changes)

\* Mutant of Matches: WHERE Id only, no optimistic concurrency control
MatchesKey(s, u) == ctx[s].value[u] = Absent \/ users[u] # Absent

\* UPDATE ... WHERE every column has its origin value; DELETE ... WHERE Id
Matches(s, u) == ctx[s].value[u] = Absent \/ users[u] = ctx[s].origin[u]

FlushRow(s) ==
  LET u == NextChange(s) IN
  /\ pc[s] = "flush"
  /\ ctx[s].changes # {}
  /\ Lockable(s, u)
  /\ Matches(s, u)
  /\ IF conn[s].open
     THEN /\ lock' = [lock EXCEPT ![u] = s]
          /\ conn' = [conn EXCEPT ![s].written = @ \cup {u}]
          /\ UNCHANGED users
     ELSE /\ users' = [users EXCEPT ![u] = ctx[s].value[u]]
          /\ UNCHANGED <<lock, conn>>
  /\ ctx' = [ctx EXCEPT ![s].changes = @ \ {u}]
  /\ UNCHANGED <<pc, call, retry, reply, name>>

\* Mutant of FlushConflict: one retry too many
FlushConflictAgain(s) ==
  LET u == NextChange(s) IN
  /\ pc[s] = "flush"
  /\ ctx[s].changes # {}
  /\ Lockable(s, u)
  /\ ~Matches(s, u)
  /\ IF call[s].kind = "transfer" /\ retry[s] <= MaxRetry
     THEN /\ EndTransaction(s)
          /\ retry' = [retry EXCEPT ![s] = @ + 1]
          /\ ctx' = [ctx EXCEPT ![s] = EmptyContext]
          /\ pc' = [pc EXCEPT ![s] = FirstStatement("transfer")]
          /\ UNCHANGED <<users, call, reply, name>>
     ELSE Fail(s)

\* rowCount == 0: Rollback; a transfer starts over with a new DBContext
FlushConflict(s) ==
  LET u == NextChange(s) IN
  /\ pc[s] = "flush"
  /\ ctx[s].changes # {}
  /\ Lockable(s, u)
  /\ ~Matches(s, u)
  /\ IF call[s].kind = "transfer" /\ retry[s] < MaxRetry
     THEN /\ EndTransaction(s)
          /\ retry' = [retry EXCEPT ![s] = @ + 1]
          /\ ctx' = [ctx EXCEPT ![s] = EmptyContext]
          /\ pc' = [pc EXCEPT ![s] = FirstStatement("transfer")]
          /\ UNCHANGED <<users, call, reply, name>>
     ELSE Fail(s)

\* A statement that fails: no payee for a SELECT, allOk = false for a flush
StatementFails(s) ==
  /\ "execute" \in Faults
  /\ \/ pc[s] \in {"readTo", "lookup"}
     \/ pc[s] = "flush" /\ ctx[s].changes # {}
  /\ Fail(s)

\* The result of Commit is not looked at either: when it fails, the database
\* has rolled back or committed, and the handler answers with success.
Commit(s) ==
  /\ pc[s] = "flush"
  /\ ctx[s].changes = {}
  /\ \/ users' = [u \in UserIds |-> IF u \in conn[s].written
                                    THEN ctx[s].value[u] ELSE users[u]]
     \/ "commit" \in Faults /\ UNCHANGED users
  /\ EndTransaction(s)
  /\ reply' = [reply EXCEPT ![s] = "ok"]
  /\ pc' = [pc EXCEPT ![s] = "answer"]
  /\ name' = IF call[s].kind = "rename"
             THEN [name EXCEPT ![s] = call[s].target] ELSE name
  /\ UNCHANGED <<call, ctx, retry>>

-------------------------------------------------------------------------------
HandlerStep(s) == \/ ReadMe(s) \/ ReadTo(s)
                  \/ Lookup(s) \/ OpenTransaction(s) \/ LockLow(s) \/ LockHigh(s)
                  \/ Begin(s) \/ FlushRow(s) \/ FlushConflict(s) \/ Commit(s)
                  \/ StatementFails(s)
                  \/ Answer(s) \/ NotifyPayee(s)

Next == \E s \in Sessions : \/ \E c \in Calls : Request(s, c)
                            \/ HandlerStep(s)

Spec == Init /\ [][Next]_vars

\* A handler that was started runs on; the database grants row locks in the
\* order in which they were asked for, so a statement whose row is free again
\* and again is executed.  Nothing makes a client send.
FairSpec == Spec /\ \A s \in Sessions : SF_vars(HandlerStep(s))

-------------------------------------------------------------------------------
(* Properties *)

\* In autocommit mode the request is settled by the flush of its row.
Settled(s) == IF pc[s] = "flush" /\ ctx[s].changes = {} /\ ~conn[s].open
              THEN "ok" ELSE reply[s]

Accounts == INSTANCE Bank WITH accounts <- users,
                               reply <- [s \in Sessions |-> Settled(s)],
                               PayByName <- (LockMode = "occ"),
                               LossyCommit <- ("commit" \in Faults)

\* However the statements of concurrent requests interleave, each request is
\* one indivisible payment, renaming or closing and is answered with success,
\* or it changes nothing and is answered with failure; a balance never becomes
\* negative, and under OCC the payee is the user who has the name when the
\* money arrives (README.md:127-129).
ImplementsBank == Accounts!Spec

\* the row a handler inside a transaction asks for next
NextRow(s) == CASE pc[s] = "lockLow"  -> LowId(s)
                [] pc[s] = "lockHigh" -> HighId(s)
                [] OTHER              -> NextChange(s)

Locking(s) == \/ pc[s] \in {"lockLow", "lockHigh"}
              \/ pc[s] = "flush" /\ ctx[s].changes # {}

WaitsFor(s, r) == Locking(s) /\ r # s /\ lock[NextRow(s)] = r

\* No set of handlers waits only for each other: the rows are locked in the
\* order of their keys, whichever way the money goes
\* (ClientPacketHandler.cpp:846-849).
NoDeadlock ==
  \A S \in (SUBSET Sessions) \ {{}} : \E s \in S : \A r \in S : ~WaitsFor(s, r)

\* A transfer that has read its two rows WITH (UPDLOCK) never meets a
\* conflict when it flushes them (ClientPacketHandler.cpp:844-845).
LockedRowsNeverConflict ==
  \A s \in Sessions :
     LockMode = "updlock" /\ pc[s] = "flush" /\ call[s].kind = "transfer" =>
        \A u \in ctx[s].changes : lock[u] = s /\ Matches(s, u)

\* Every request is answered: no retry goes on for ever and no handler waits
\* for a row for ever.
EveryRequestAnswered == \A s \in Sessions : (pc[s] # "idle") ~> (pc[s] = "idle")

\* "All succeed: Commit; one fails: Rollback" (DBContext.h:414): a transfer
\* whose answer is success has taken the amount from the payer.
SuccessMeansPaid ==
  [][\A s \in Sessions :
        call[s].kind = "transfer" /\ reply[s] = "none" /\ reply'[s] = "ok" =>
           users'[Me(s)].balance = users[Me(s)].balance - call[s].amount]_vars
===============================================================================
