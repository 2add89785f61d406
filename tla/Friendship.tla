------------------------------ MODULE Friendship -------------------------------
(***************************************************************************)
(* Friend requests: Handle_C_REQUEST_FRIEND, Handle_C_ACCEPT_FRIEND,       *)
(* Handle_C_REJECT_FRIEND and Handle_C_REMOVE_FRIEND                       *)
(* (ClientPacketHandler.cpp:504-833), each from the loan of a connection   *)
(* to its return.  One step is one SQL statement or one step of the pool.  *)
(* The table Friendship has one row per direction (the unique index);      *)
(* inside SaveChanges the database locks the rows it writes until the      *)
(* transaction ends, all other statements wait for them, and it makes a    *)
(* statement fail when transactions wait for each other.  SaveChanges does *)
(* not look at the results of Begin and Commit: when Begin fails it goes   *)
(* on in autocommit mode, when Commit fails it reports success.            *)
(***************************************************************************)
EXTENDS ConnectionPool

CONSTANTS Users,      \* User.Id of the accounts
          Owner,      \* Owner[s]: the account session s is logged in as
          NoCall,     \* no request is being served
          Free,       \* no transaction has written the row
          Tables,     \* what the table may be at the start
          Faults,     \* what may fail: "execute" a statement, "begin", "commit"
          MaxCalls    \* bound on the requests of all sessions

ASSUME OwnersAreUsers == /\ Owner \in [Sessions -> Users]
                         /\ Free \notin Sessions
                         /\ Faults \subseteq {"execute", "begin", "commit"}
                         /\ MaxCalls \in Nat

VARIABLES
  rows,      \* rows[d]: the committed row of direction d = <<from, to>>
  inserts,   \* inserts[d]: rows inserted into d so far, the id of the last one
  lock,      \* lock[d]: the session whose transaction has written d
  pc, call,  \* where the handler of s is, and which request it serves
  changes,   \* DBContext::Changes of s, as far as it is not flushed
  written,   \* what the transaction of s has written
  loose,     \* sessions whose Begin failed: a statement is its own transaction
  reply,     \* the answer that s is about to send
  calls      \* requests so far

table == <<rows, inserts, lock, written, loose>>
vars == <<poolVars, table, pc, call, changes, reply, calls>>

Directions == Users \X Users

Me(s) == Owner[s]
In(s)  == <<call[s].other, Me(s)>>
Out(s) == <<Me(s), call[s].other>>

Kinds == {"request", "accept", "reject", "remove"}
Calls == [kind : Kinds, other : Users]

ASSUME NoCallIsNone == NoCall \notin Calls

\* ids are compared within one direction only, and so count for each of them
NoRow == [id |-> 0, status |-> "none"]
Row == [id : Nat, status : {"pending", "accepted"}] \cup {NoRow}
Change == [op : {"insert", "update", "delete"}, at : Directions, id : Nat]
Writing == [at : Directions, row : Row]

Stages == {"idle", "pop", "same", "reverse", "incoming", "removeIn",
           "removeOut", "flush", "answer", "notify"}

Statuses == [Directions -> {"none", "pending", "accepted"}]

\* Nobody is his own friend.
ASSUME TablesAreStatuses ==
  Tables \subseteq {status \in Statuses : \A u \in Users : status[<<u, u>>] = "none"}

Init ==
  /\ PoolInit
  /\ \E status \in Tables :
       rows = [d \in Directions |->
                 IF status[d] = "none" THEN NoRow ELSE [id |-> 1, status |-> status[d]]]
  /\ inserts = [d \in Directions |-> 1]
  /\ lock = [d \in Directions |-> Free]
  /\ pc = [s \in Sessions |-> "idle"]
  /\ call = [s \in Sessions |-> NoCall]
  /\ changes = [s \in Sessions |-> <<>>]
  /\ written = [s \in Sessions |-> {}]
  /\ loose = {}
  /\ reply = [s \in Sessions |-> "none"]
  /\ calls = 0

-------------------------------------------------------------------------------
(* A handler from its start to its end *)

Goto(s, stage) == pc' = [pc EXCEPT ![s] = stage]

\* Naming oneself is refused, or finds no row, like naming nobody (FindFails).
Ask(s, c) ==
  /\ pc[s] = "idle"
  /\ c.other # Me(s)
  /\ calls < MaxCalls
  /\ calls' = calls + 1
  /\ call' = [call EXCEPT ![s] = c]
  /\ Goto(s, "pop")
  /\ UNCHANGED <<poolVars, table, changes, reply>>

FirstSelect(s) == CASE call[s].kind = "request" -> "same"
                    [] call[s].kind = "remove"  -> "removeIn"
                    [] OTHER                    -> "incoming"

\* HandlerPrelude: the loan of a connection
Borrow(s) ==
  /\ pc[s] = "pop"
  /\ \/ s \notin waiting \cup woken /\ Pop(s)
     \/ Recheck(s)
  /\ IF lent'[s] = NoConn THEN UNCHANGED pc ELSE Goto(s, FirstSelect(s))
  /\ UNCHANGED <<table, call, changes, reply, calls>>

\* Mutant of Fail: leaves the transaction open on the connection
FailOpen(s) ==
  /\ changes' = [changes EXCEPT ![s] = <<>>]
  /\ reply' = [reply EXCEPT ![s] = "fail"]
  /\ Goto(s, "answer")
  /\ UNCHANGED <<poolVars, table, call, calls>>

\* SendFail, after the transaction, if one is open, was rolled back (by the
\* database, if Rollback fails). What autocommit has done stays.
Fail(s) ==
  /\ lock' = [d \in Directions |-> IF lock[d] = s THEN Free ELSE lock[d]]
  /\ written' = [written EXCEPT ![s] = {}]
  /\ changes' = [changes EXCEPT ![s] = <<>>]
  /\ reply' = [reply EXCEPT ![s] = "fail"]
  /\ Goto(s, "answer")
  /\ loose' = loose \ {s}
  /\ UNCHANGED <<poolVars, rows, inserts, call, calls>>

\* Mutant of Answer: an early return that does not give the connection back
AnswerKeeps(s) ==
  /\ pc[s] = "answer"
  /\ reply' = [reply EXCEPT ![s] = "none"]
  /\ call' = [call EXCEPT ![s] = NoCall]
  /\ IF reply[s] = "fail" THEN Goto(s, "idle") /\ UNCHANGED poolVars
                          ELSE Goto(s, "notify") /\ Push(s)
  /\ UNCHANGED <<table, changes, calls>>

\* The answer is sent, the handler returns and gives its connection back.
Answer(s) ==
  /\ pc[s] = "answer"
  /\ reply' = [reply EXCEPT ![s] = "none"]
  /\ call' = [call EXCEPT ![s] = NoCall]
  /\ Push(s)
  /\ Goto(s, "notify")
  /\ UNCHANGED <<table, changes, calls>>

\* Mutant of Return: notifies nobody
ReturnSilently(s) ==
  /\ pc[s] = "notify"
  /\ notifying' = notifying \ {s}
  /\ Goto(s, "idle")
  /\ UNCHANGED <<Connections, lent, waiting, woken, table, call, changes, reply, calls>>

Return(s) ==
  /\ pc[s] = "notify"
  /\ NotifyOne(s)
  /\ Goto(s, "idle")
  /\ UNCHANGED <<table, call, changes, reply, calls>>

-------------------------------------------------------------------------------
(* Statements that read; each is a transaction of its own *)

\* what a SELECT of direction d can find: it waits for a row that is being
\* written, and when it fails ToList is empty
Found(d) == IF lock[d] # Free THEN {}
            ELSE {rows[d]} \cup (IF "execute" \in Faults THEN {NoRow} ELSE {})

Continue(s, stage) ==
  /\ Goto(s, stage)
  /\ UNCHANGED <<poolVars, table, call, reply, calls>>

\* SaveChanges is called, and begins with Begin, which changes no row and
\* nothing that others see; its result is not looked at.
SaveChanges(s) ==
  /\ \/ UNCHANGED loose
     \/ "begin" \in Faults /\ loose' = loose \cup {s}
  /\ Goto(s, "flush")
  /\ UNCHANGED <<poolVars, rows, inserts, lock, written, call, reply, calls>>

\* Changes.push_back
Plan(s, op, d, id) ==
  changes' = [changes EXCEPT ![s] = Append(@, [op |-> op, at |-> d, id |-> id])]

\* FindUserByEmail comes first: the e-mail is nobody's, or the client's own, or
\* the SELECT fails.
FindFails(s) ==
  /\ call[s] # NoCall /\ pc[s] = FirstSelect(s)
  /\ Fail(s)

\* C_REQUEST_FRIEND: no row in the same direction ...
SelectSame(s) ==
  /\ pc[s] = "same"
  /\ \E row \in Found(Out(s)) :
       IF row # NoRow THEN Fail(s) ELSE Continue(s, "reverse") /\ UNCHANGED changes

\* Mutant of SelectReverse: a friendship has a row in each direction
SelectReverseMirrors(s) ==
  /\ pc[s] = "reverse"
  /\ SaveChanges(s)
  /\ changes' = [changes EXCEPT ![s] = <<[op |-> "insert", at |-> Out(s), id |-> 0],
                                        [op |-> "insert", at |-> In(s), id |-> 0]>>]

\* ... and none in the other one
SelectReverse(s) ==
  /\ pc[s] = "reverse"
  /\ \E row \in Found(In(s)) :
       IF row # NoRow THEN Fail(s)
       ELSE SaveChanges(s) /\ Plan(s, "insert", Out(s), 0)

\* C_ACCEPT_FRIEND, C_REJECT_FRIEND: the request that waits for an answer
SelectIncoming(s) ==
  /\ pc[s] = "incoming"
  /\ \E row \in Found(In(s)) :
       IF row.status # "pending" THEN Fail(s)
       ELSE /\ SaveChanges(s)
            /\ Plan(s, IF call[s].kind = "accept" THEN "update" ELSE "delete", In(s), row.id)

\* C_REMOVE_FRIEND: the friendship the other user has asked for ...
SelectRemoveIn(s) ==
  /\ pc[s] = "removeIn"
  /\ \E row \in Found(In(s)) :
       /\ Continue(s, "removeOut")
       /\ IF row.status = "accepted" THEN Plan(s, "delete", In(s), row.id)
                                     ELSE UNCHANGED changes

\* ... and the one this user has asked for; both are deleted, in this order
SelectRemoveOut(s) ==
  /\ pc[s] = "removeOut"
  /\ \E row \in Found(Out(s)) :
       IF row.status = "accepted" THEN SaveChanges(s) /\ Plan(s, "delete", Out(s), row.id)
       ELSE IF changes[s] = <<>> THEN Fail(s)
       ELSE SaveChanges(s) /\ UNCHANGED changes

-------------------------------------------------------------------------------
(* SaveChanges: the changes in the order of Changes, then Commit *)

NextChange(s) == Head(changes[s])

\* Whose uncommitted row the next statement has to wait for. UPDATE and DELETE
\* look for the id of a committed row, INSERT for the pair in the unique index.
Blocker(s) ==
  LET c == NextChange(s) IN
  IF c.op = "insert" \/ rows[c.at].id = c.id THEN lock[c.at] ELSE Free

MayExecute(s) ==
  /\ pc[s] = "flush"
  /\ changes[s] # <<>>
  /\ Blocker(s) = Free

\* in the transaction, or for good
Writes(s, d, row) ==
  IF s \in loose
  THEN rows' = [rows EXCEPT ![d] = row] /\ UNCHANGED <<lock, written>>
  ELSE /\ lock' = [lock EXCEPT ![d] = s]
       /\ written' = [written EXCEPT ![s] = @ \cup {[at |-> d, row |-> row]}]
       /\ UNCHANGED rows

Executed(s) ==
  /\ changes' = [changes EXCEPT ![s] = Tail(@)]
  /\ UNCHANGED <<poolVars, loose, pc, call, reply, calls>>

NewRow(d) == [id |-> inserts[d] + 1, status |-> "pending"]

\* INSERT; the unique index over both users refuses a second row
Insert(s) ==
  LET d == NextChange(s).at IN
  /\ MayExecute(s)
  /\ NextChange(s).op = "insert"
  /\ IF rows[d] # NoRow THEN Fail(s)
     ELSE /\ Writes(s, d, NewRow(d))
          /\ inserts' = [inserts EXCEPT ![d] = @ + 1]
          /\ Executed(s)

\* The row is inserted, but its id cannot be fetched; in autocommit mode the
\* Rollback takes nothing back.
InsertStays(s) ==
  LET d == NextChange(s).at IN
  /\ "execute" \in Faults
  /\ s \in loose /\ MayExecute(s)
  /\ NextChange(s).op = "insert" /\ rows[d] = NoRow
  /\ rows' = [rows EXCEPT ![d] = NewRow(d)]
  /\ inserts' = [inserts EXCEPT ![d] = @ + 1]
  /\ changes' = [changes EXCEPT ![s] = <<>>]
  /\ reply' = [reply EXCEPT ![s] = "fail"]
  /\ loose' = loose \ {s}
  /\ Goto(s, "answer")
  /\ UNCHANGED <<poolVars, lock, written, call, calls>>

\* Mutant of Update: WHERE Id alone
UpdateById(s) ==
  LET c == NextChange(s) IN
  /\ MayExecute(s)
  /\ c.op = "update"
  /\ IF rows[c.at].id # c.id THEN Fail(s)
     ELSE /\ Writes(s, c.at, [id |-> c.id, status |-> "accepted"])
          /\ Executed(s) /\ UNCHANGED inserts

\* UPDATE ... WHERE every column has its origin value; no row is a conflict
Update(s) ==
  LET c == NextChange(s) IN
  /\ MayExecute(s)
  /\ c.op = "update"
  /\ IF rows[c.at] # [id |-> c.id, status |-> "pending"] THEN Fail(s)
     ELSE /\ Writes(s, c.at, [id |-> c.id, status |-> "accepted"])
          /\ Executed(s) /\ UNCHANGED inserts

\* DELETE ... WHERE Id, whatever the other columns are; no row is no conflict
Delete(s) ==
  LET c == NextChange(s) IN
  /\ MayExecute(s)
  /\ c.op = "delete"
  /\ IF rows[c.at].id # c.id THEN UNCHANGED <<rows, lock, written>>
                             ELSE Writes(s, c.at, NoRow)
  /\ Executed(s) /\ UNCHANGED inserts

WaitsFor(s, r) == pc[s] = "flush" /\ changes[s] # <<>> /\ Blocker(s) = r

\* Execute returns false: the database has chosen this transaction as the
\* victim of a deadlock ...
IsVictim(s) == (\E r \in Sessions : WaitsFor(s, r) /\ WaitsFor(r, s)) /\ Fail(s)

\* ... or something else went wrong
StatementFails(s) ==
  /\ "execute" \in Faults
  /\ pc[s] = "flush" /\ changes[s] # <<>>
  /\ Fail(s)

Committed(s) ==
  [d \in Directions |->
     IF lock[d] = s THEN (CHOOSE w \in written[s] : w.at = d).row ELSE rows[d]]

\* The result of Commit is not looked at: when it fails, the transaction was
\* rolled back or not, and the handler answers with success.
Commit(s) ==
  /\ pc[s] = "flush"
  /\ changes[s] = <<>>
  /\ \/ rows' = Committed(s)
     \/ "commit" \in Faults /\ UNCHANGED rows
  /\ lock' = [d \in Directions |-> IF lock[d] = s THEN Free ELSE lock[d]]
  /\ written' = [written EXCEPT ![s] = {}]
  /\ reply' = [reply EXCEPT ![s] = "ok"]
  /\ loose' = loose \ {s}
  /\ Goto(s, "answer")
  /\ UNCHANGED <<poolVars, inserts, call, changes, calls>>

-------------------------------------------------------------------------------
Works(s) ==
  \/ Borrow(s)
  \/ SelectSame(s) \/ SelectReverse(s) \/ SelectIncoming(s)
  \/ SelectRemoveIn(s) \/ SelectRemoveOut(s)
  \/ Insert(s) \/ Update(s) \/ Delete(s) \/ IsVictim(s) \/ Commit(s)
  \/ Answer(s) \/ Return(s)

Breaks(s) == FindFails(s) \/ InsertStays(s) \/ StatementFails(s)

Wakeup(s) == SpuriousWakeup(s) /\ UNCHANGED <<table, pc, call, changes, reply, calls>>

Next == \E s \in Sessions :
          (\E c \in Calls : Ask(s, c)) \/ Works(s) \/ Breaks(s) \/ Wakeup(s)

Spec == Init /\ [][Next]_vars

\* A handler that can go on is run by its worker, and the database ends a
\* deadlock. Nothing makes a client ask, and nothing makes a statement fail.
FairSpec == Spec /\ \A s \in Sessions : WF_vars(Works(s))

-------------------------------------------------------------------------------
TypeOK ==
  /\ PoolTypeOK
  /\ rows \in [Directions -> Row]
  /\ inserts \in [Directions -> Nat]
  /\ lock \in [Directions -> Sessions \cup {Free}]
  /\ pc \in [Sessions -> Stages]
  /\ call \in [Sessions -> Calls \cup {NoCall}]
  /\ changes \in [Sessions -> Seq(Change)]
  /\ written \in [Sessions -> SUBSET Writing]
  /\ loose \in SUBSET Sessions
  /\ reply \in [Sessions -> {"none", "ok", "fail"}]
  /\ calls \in Nat

\* In autocommit mode the last statement settles the request.
Settled(s) == IF s \in loose /\ changes[s] = <<>> THEN "ok" ELSE reply[s]
Unsettled == {s \in loose : changes[s] # <<>>}

\* whose user has no other session
Singles == {s \in Sessions : \A r \in Sessions : Owner[r] = Owner[s] => r = s}

Book == INSTANCE FriendBook WITH
          book <- [d \in Directions |-> rows[d].status],
          reply <- [s \in Sessions |-> Settled(s)],
          loose <- Unsettled,
          Alone <- Singles,
          LossyBegin <- "begin" \in Faults,
          LossyCommit <- "commit" \in Faults

\* Whatever requests are served at the same time, one that is answered with
\* success has done its one thing, at once, or, if its Commit failed, nothing;
\* one that is refused has done nothing, unless its Begin had failed. Only a
\* request opens a pair, only its receiver makes it a friendship, and only
\* friendships are removed. A second row of one direction is never made,
\* although it is looked for before the INSERT (ClientPacketHandler.cpp:532).
ImplementsFriendBook == Book!Spec

\* Row locks of one user's request are held only by a handler in its flush,
\* with a connection of its own: none is left on a connection that went back
\* to the pool (HandlerPrelude.h, order of Scope and Db; DBContext.h:359).
LocksAreBorrowed ==
  \A d \in Directions : lock[d] # Free =>
     lent[lock[d]] # NoConn /\ pc[lock[d]] = "flush"

\* Handlers wait for each other's rows only when both remove a friendship
\* that has a row in each direction: they delete them in opposite orders.
OnlyRemovesDeadlock ==
  \A s, r \in Sessions : WaitsFor(s, r) /\ WaitsFor(r, s) =>
     /\ call[s].kind = "remove" /\ call[r].kind = "remove"
     /\ In(s) = Out(r) /\ rows[In(s)].status = "accepted" /\ rows[Out(s)].status = "accepted"

\* A burst of requests is served to its end: nobody sleeps for ever for a
\* connection, or for a row whose writer sleeps (DBConnectionPool.cpp:68).
\* That newcomers who go on for ever overtake a sleeper is not excluded.
EveryRequestAnswered == <>[](\A s \in Sessions : pc[s] = "idle")
===============================================================================
