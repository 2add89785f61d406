---------------------------- MODULE TransferProofs ----------------------------
(***************************************************************************)
(* For any number of users, sessions and retries, in both lock modes and   *)
(* with any of the database calls failing: balances stay natural numbers,  *)
(* and the handlers never wait for each other in a circle.  As long as a   *)
(* transfer stays in one transaction, each request is one step of Bank,    *)
(* and no points are made or lost.                                         *)
(***************************************************************************)
EXTENDS Transfer, FiniteSetTheorems, WellFoundedInduction, TLAPS

\* The rows the open transaction of session s has locked.
HeldBy(s) == {u \in UserIds : lock[u] = s}

\* Every change that is left to write has its row locked and unchanged.
Secured(s) == \A u \in ctx[s].changes : lock[u] = s /\ users[u] = ctx[s].origin[u]

\* Where a transfer is, and whom it pays.
StageOK(s) ==
  /\ pc[s] \in {"readTo", "lookup", "open", "lockLow", "lockHigh"} =>
        call[s].kind = "transfer"
  /\ pc[s] \in {"open", "lockLow", "lockHigh"} =>
        ctx[s].payee \in UserIds /\ ctx[s].payee # Me(s)
  /\ ctx[s].changes \subseteq {Me(s), ctx[s].payee}
  /\ pc[s] \notin {"begin", "flush"} => ctx[s].changes = {}

\* What a handler has locked lies below what it will lock next.
LocksOK(s) ==
  /\ conn[s].written \subseteq HeldBy(s)
  /\ pc[s] \notin {"lockHigh", "flush"} => HeldBy(s) = {}
  /\ pc[s] = "lockHigh" =>
        /\ HeldBy(s) \subseteq {LowId(s)}
        /\ ctx[s].value[LowId(s)] # Absent =>
              lock[LowId(s)] = s /\ users[LowId(s)] = ctx[s].origin[LowId(s)]
  /\ pc[s] = "flush" => \/ Secured(s)
                        \/ \A u \in HeldBy(s) : \A v \in ctx[s].changes : u < v
  /\ LockMode = "updlock" /\ call[s].kind = "transfer" =>
        /\ pc[s] \notin {"readMe", "readTo", "begin"}
        /\ pc[s] = "flush" => Secured(s)

\* The inductive invariant.
IndInv == TypeOK /\ \A s \in Sessions : StageOK(s) /\ LocksOK(s)

-------------------------------------------------------------------------------

\* The least and the greatest element of a set of at most two keys.
LEMMA PairOrder ==
  ASSUME NEW a \in Int, NEW b \in Int, NEW S \in SUBSET {a, b}, S # {}
  PROVE  /\ Min(S) \in S /\ \A x \in S : Min(S) <= x
         /\ Max(S) \in S /\ \A x \in S : x <= Max(S)
<1>1. (a <= b \/ b <= a) /\ (a >= b \/ b >= a)
  OBVIOUS
<1>2. a \in S \/ b \in S
  <2>1. \E x : x \in S
    OBVIOUS
  <2>2. QED
    BY <2>1
<1>3. \E x \in S : \A y \in S : x =< y
  <2>1. CASE a \in S /\ (b \in S => a <= b)
    BY <2>1
  <2>2. CASE b \in S /\ (a \in S => b <= a)
    BY <2>2
  <2>3. QED
    BY <1>1, <1>2, <2>1, <2>2
<1>4. \E x \in S : \A y \in S : x >= y
  <2>1. CASE a \in S /\ (b \in S => a >= b)
    BY <2>1
  <2>2. CASE b \in S /\ (a \in S => b >= a)
    BY <2>2
  <2>3. QED
    BY <1>1, <1>2, <2>1, <2>2
<1>5. QED
  BY <1>3, <1>4 DEF Min, Max

\* Every set of two keys is locked in their order.
LEMMA Ordered ==
  ASSUME NEW s, Me(s) \in UserIds, ctx[s].payee \in UserIds, ctx[s].payee # Me(s)
  PROVE  /\ LowId(s) \in UserIds /\ HighId(s) \in UserIds
         /\ LowId(s) < HighId(s) /\ LowId(s) # HighId(s)
         /\ {Me(s), ctx[s].payee} = {LowId(s), HighId(s)}
<1> DEFINE a == Me(s)  b == ctx[s].payee
<1>1. a \in Int /\ b \in Int /\ a # b
  BY UserIdsAreKeys
<1>2. LowId(s) = Min({a, b}) /\ HighId(s) = Max({a, b})
  BY DEF LowId, HighId, LockOrder
<1> HIDE DEF a, b
<1>3. /\ Min({a, b}) \in {a, b} /\ Max({a, b}) \in {a, b}
      /\ Min({a, b}) <= a /\ Min({a, b}) <= b
      /\ a <= Max({a, b}) /\ b <= Max({a, b})
  BY <1>1, PairOrder
<1>4. QED
  BY <1>1, <1>2, <1>3 DEF a, b

-------------------------------------------------------------------------------

\* Loading a row into a context.
LEMMA LoadType ==
  ASSUME NEW c \in Context, NEW u \in UserIds, NEW row \in Row \cup {Absent}
  PROVE  /\ Load(c, u, row) \in Context
         /\ Load(c, u, row).changes = c.changes /\ Load(c, u, row).payee = c.payee
         /\ Load(c, u, row).origin[u] = row /\ Load(c, u, row).value[u] = row
         /\ \A x \in UserIds \ {u} : /\ Load(c, u, row).origin[x] = c.origin[x]
                                     /\ Load(c, u, row).value[x] = c.value[x]
<1>1. /\ [c.origin EXCEPT ![u] = row] \in [UserIds -> Row \cup {Absent}]
      /\ [c.value EXCEPT ![u] = row] \in [UserIds -> Row \cup {Absent}]
  BY DEF Context
<1>2. Load(c, u, row) = [origin |-> [c.origin EXCEPT ![u] = row],
                         value |-> [c.value EXCEPT ![u] = row],
                         changes |-> c.changes, payee |-> c.payee]
  <2>1. c = [origin |-> c.origin, value |-> c.value, changes |-> c.changes,
             payee |-> c.payee]
    BY DEF Context
  <2> DEFINE o == [c.origin EXCEPT ![u] = row]  v == [c.value EXCEPT ![u] = row]
  <2>2. Load(c, u, row) = [c EXCEPT !.origin = o, !.value = v]
    BY <2>1 DEF Load
  <2> HIDE DEF o, v
  <2>3. Load(c, u, row) = [origin |-> o, value |-> v, changes |-> c.changes,
                           payee |-> c.payee]
    BY <2>1, <2>2
  <2>4. QED
    BY <2>3 DEF o, v
<1>3. c.changes \in SUBSET UserIds /\ c.payee \in UserIds \cup {Absent}
  BY DEF Context
<1> HIDE DEF Row
<1>4. QED
  BY <1>1, <1>2, <1>3 DEF Context

\* Remembering whom to pay.
LEMMA PayeeType ==
  ASSUME NEW c \in Context, NEW u \in UserIds
  PROVE  LET d == [c EXCEPT !.payee = u] IN
         /\ d \in Context /\ d.payee = u
         /\ d.origin = c.origin /\ d.value = c.value /\ d.changes = c.changes
BY DEF Context

\* A payment keeps both balances natural numbers.
LEMMA MovedType ==
  ASSUME NEW s \in Sessions, NEW c \in Context, CanPay(s, c),
         c.payee \in UserIds, call[s].amount \in Nat
  PROVE  /\ Moved(s, c) \in Context
         /\ Moved(s, c).changes = {Me(s), c.payee} /\ Moved(s, c).payee = c.payee
         /\ Moved(s, c).origin = c.origin
<1> DEFINE me == Me(s)  to == c.payee  amount == call[s].amount
<1>1. me \in UserIds /\ to \in UserIds /\ me # to
  BY OwnersAreUsers DEF Me, CanPay
<1>2. /\ c.value[me] \in Row /\ c.value[to] \in Row
      /\ c.value[me].balance >= amount
  BY <1>1 DEF CanPay, Context
<1>3. /\ [c.value[me] EXCEPT !.balance = @ - amount] \in Row
      /\ [c.value[to] EXCEPT !.balance = @ + amount] \in Row
  BY <1>2 DEF Row
<1> DEFINE v == [c.value EXCEPT ![me].balance = @ - amount,
                                ![to].balance = @ + amount]
<1>4. v \in [UserIds -> Row \cup {Absent}]
  <2>1. v = [c.value EXCEPT ![me] = [c.value[me] EXCEPT !.balance = @ - amount],
                            ![to] = [c.value[to] EXCEPT !.balance = @ + amount]]
    BY <1>1 DEF Context
  <2>2. c.value \in [UserIds -> Row \cup {Absent}]
    BY DEF Context
  <2>3. QED
    BY <1>1, <1>3, <2>1, <2>2
<1>5. Moved(s, c) = [origin |-> c.origin, value |-> v, changes |-> {me, to},
                     payee |-> c.payee]
  <2>1. c = [origin |-> c.origin, value |-> c.value, changes |-> c.changes,
             payee |-> c.payee]
    BY DEF Context
  <2>2. Moved(s, c) = [c EXCEPT !.value = v, !.changes = {me, to}]
    BY <2>1 DEF Moved
  <2>3. QED
    BY <2>1, <2>2
<1>6. c.origin \in [UserIds -> Row \cup {Absent}]
  BY DEF Context
<1> HIDE DEF v
<1>7. QED
  BY <1>1, <1>4, <1>5, <1>6 DEF Context

\* A renaming and a closing change one row.
LEMMA RenamedType ==
  ASSUME NEW c \in Context, NEW u \in UserIds, c.value[u] \in Row, NEW n \in Nicknames
  PROVE  LET d == [c EXCEPT !.value[u].nickname = n, !.changes = {u}] IN
         d \in Context /\ d.changes = {u}
<1> DEFINE v == [c.value EXCEPT ![u].nickname = n]  one == {u}
<1>1. [c.value[u] EXCEPT !.nickname = n] \in Row
  BY DEF Row
<1>2. /\ c.value \in [UserIds -> Row \cup {Absent}]
      /\ v = [c.value EXCEPT ![u] = [c.value[u] EXCEPT !.nickname = n]]
  BY DEF Context
<1>3. v \in [UserIds -> Row \cup {Absent}]
  BY <1>1, <1>2
<1>4. c = [origin |-> c.origin, value |-> c.value, changes |-> c.changes,
           payee |-> c.payee]
  BY DEF Context
<1>5. [c EXCEPT !.value[u].nickname = n, !.changes = {u}]
        = [c EXCEPT !.value = v, !.changes = one]
  BY <1>4
<1> HIDE DEF v, one
<1>6. ASSUME NEW d, d = [c EXCEPT !.value = v, !.changes = one]
      PROVE  d = [origin |-> c.origin, value |-> v, changes |-> one, payee |-> c.payee]
  BY <1>4, <1>6
<1>7. c.origin \in [UserIds -> Row \cup {Absent}] /\ c.payee \in UserIds \cup {Absent}
  BY DEF Context
<1>8. QED
  BY <1>3, <1>5, <1>6, <1>7 DEF Context, one

\* Marking the own row for deletion.
LEMMA ClosedType ==
  ASSUME NEW c \in Context, NEW u \in UserIds
  PROVE  LET d == [c EXCEPT !.value[u] = Absent, !.changes = {u}] IN
         d \in Context /\ d.changes = {u}
<1> DEFINE v == [c.value EXCEPT ![u] = Absent]  one == {u}
<1>1. v \in [UserIds -> Row \cup {Absent}]
  BY DEF Context
<1>2. c = [origin |-> c.origin, value |-> c.value, changes |-> c.changes,
           payee |-> c.payee]
  BY DEF Context
<1>3. [c EXCEPT !.value[u] = Absent, !.changes = {u}]
        = [c EXCEPT !.value = v, !.changes = one]
  BY <1>2
<1> HIDE DEF v, one
<1>4. ASSUME NEW d, d = [c EXCEPT !.value = v, !.changes = one]
      PROVE  d = [origin |-> c.origin, value |-> v, changes |-> one, payee |-> c.payee]
  BY <1>2, <1>4
<1>5. c.origin \in [UserIds -> Row \cup {Absent}] /\ c.payee \in UserIds \cup {Absent}
  BY DEF Context
<1>6. QED
  BY <1>1, <1>3, <1>4, <1>5 DEF Context, one

\* What Found returns is the committed row or nothing.
LEMMA FoundType ==
  ASSUME TypeOK, NEW u \in UserIds, NEW row \in Found(u)
  PROVE  row \in Row \cup {Absent} /\ (row = users[u] \/ row = Absent)
BY DEF TypeOK, Found

\* A new DBContext has loaded nothing.
LEMMA EmptyType ==
  /\ EmptyContext \in Context
  /\ Autocommit \in [open : BOOLEAN, written : SUBSET UserIds]
BY DEF EmptyContext, Context, Autocommit

\* Nothing is locked and nobody is served at the start.
LEMMA InitIndInv == Init => IndInv
<1> SUFFICES ASSUME Init PROVE IndInv
  OBVIOUS
<1>1. TypeOK
  <2>1. users \in [UserIds -> Row \cup {Absent}]
    BY FirstNamesAreNames, NumbersAreNat DEF Init, Row
  <2>2. name \in [Sessions -> Nicknames]
    BY FirstNamesAreNames, OwnersAreUsers DEF Init
  <2>3. ctx \in [Sessions -> Context]
        /\ conn \in [Sessions -> [open : BOOLEAN, written : SUBSET UserIds]]
    BY EmptyType DEF Init
  <2>4. QED
    BY <2>1, <2>2, <2>3, NumbersAreNat DEF Init, TypeOK, Stages
<1>2. ASSUME NEW s \in Sessions PROVE StageOK(s) /\ LocksOK(s)
  <2>1. HeldBy(s) = {}
    BY SessionsAreFinite DEF Init, HeldBy
  <2>2. QED
    BY <2>1 DEF Init, StageOK, LocksOK, EmptyContext, Autocommit, NoCall
<1>3. QED
  BY <1>1, <1>2 DEF IndInv

\* A step of session s leaves the others their frames, their locks and the
\* rows they have locked.
Private(s) ==
  \A r \in Sessions \ {s} :
    /\ pc'[r] = pc[r] /\ call'[r] = call[r] /\ ctx'[r] = ctx[r] /\ conn'[r] = conn[r]
    /\ \A u \in UserIds : /\ lock'[u] = r <=> lock[u] = r
                          /\ lock[u] = r => users'[u] = users[u]

Result(s) == TypeOK' /\ StageOK(s)' /\ LocksOK(s)' /\ Private(s)

\* Such a step keeps the invariant of the others.
LEMMA OthersKeep ==
  ASSUME IndInv, NEW s \in Sessions, Private(s), NEW r \in Sessions, r # s
  PROVE  StageOK(r)' /\ LocksOK(r)'
<1>1. /\ pc'[r] = pc[r] /\ call'[r] = call[r] /\ ctx'[r] = ctx[r] /\ conn'[r] = conn[r]
      /\ \A u \in UserIds : /\ lock'[u] = r <=> lock[u] = r
                            /\ lock[u] = r => users'[u] = users[u]
  BY DEF Private
<1>2. StageOK(r) /\ LocksOK(r) /\ TypeOK
  BY DEF IndInv
<1>3. StageOK(r)'
  BY <1>1, <1>2 DEF StageOK, Me
<1>4. HeldBy(r)' = HeldBy(r)
  BY <1>1 DEF HeldBy
<1>5. ctx[r].changes \subseteq UserIds
  BY <1>2 DEF TypeOK, Context
<1>6. Secured(r) => Secured(r)'
  BY <1>1, <1>5 DEF Secured
<1>7. LowId(r)' = LowId(r)
  BY <1>1 DEF LowId, LockOrder, Me
<1>8. pc[r] = "lockHigh" => LowId(r) \in UserIds
  BY <1>2, Ordered, OwnersAreUsers DEF StageOK, Me
<1>9. QED
  BY <1>1, <1>2, <1>3, <1>4, <1>5, <1>6, <1>7, <1>8 DEF LocksOK

\* The end of a transaction unlocks its rows and no others.
LEMMA EndTransactionUnlocks ==
  ASSUME TypeOK, NEW s \in Sessions, EndTransaction(s)
  PROVE  /\ lock' \in [UserIds -> Sessions \cup {Free}]
         /\ conn' \in [Sessions -> [open : BOOLEAN, written : SUBSET UserIds]]
         /\ conn'[s].written = {} /\ HeldBy(s)' = {}
         /\ \A r \in Sessions \ {s} :
               /\ conn'[r] = conn[r]
               /\ \A u \in UserIds : lock'[u] = r <=> lock[u] = r
<1>1. lock' \in [UserIds -> Sessions \cup {Free}]
  BY DEF EndTransaction, TypeOK
<1>2. conn' = [conn EXCEPT ![s] = Autocommit]
  BY DEF EndTransaction
<1>3. /\ conn' \in [Sessions -> [open : BOOLEAN, written : SUBSET UserIds]]
      /\ conn'[s] = Autocommit /\ \A r \in Sessions \ {s} : conn'[r] = conn[r]
  BY <1>2, EmptyType DEF TypeOK
<1>4. \A u \in UserIds : lock'[u] = IF lock[u] = s THEN Free ELSE lock[u]
  BY DEF EndTransaction
<1>5. HeldBy(s)' = {}
  BY <1>4, SessionsAreFinite DEF HeldBy
<1>6. \A r \in Sessions \ {s} : \A u \in UserIds : lock'[u] = r <=> lock[u] = r
  BY <1>4, SessionsAreFinite
<1>7. QED
  BY <1>1, <1>3, <1>5, <1>6 DEF Autocommit

\* A request that fails gives everything back.
LEMMA FailStep ==
  ASSUME IndInv, NEW s \in Sessions, Fail(s)
  PROVE  Result(s)
<1>0. TypeOK
  BY DEF IndInv
<1>1. EndTransaction(s)
  BY DEF Fail
<1>2. /\ pc'[s] = "answer" /\ ctx'[s] = EmptyContext
      /\ \A r \in Sessions \ {s} : pc'[r] = pc[r] /\ ctx'[r] = ctx[r]
      /\ UNCHANGED <<users, call, name>>
  BY <1>0 DEF Fail, TypeOK
<1>3. TypeOK'
  <2>1. ctx' \in [Sessions -> Context]
    BY <1>0, EmptyType DEF TypeOK, Fail
  <2>2. /\ pc' \in [Sessions -> Stages] /\ retry' \in [Sessions -> 0 .. MaxRetry]
        /\ reply' \in [Sessions -> {"none", "ok", "fail"}]
    BY <1>0, NumbersAreNat DEF TypeOK, Fail, Stages
  <2>3. QED
    BY <1>0, <1>1, <1>2, <2>1, <2>2, EndTransactionUnlocks DEF TypeOK
<1>4. StageOK(s)'
  BY <1>2 DEF StageOK, EmptyContext
<1>5. LocksOK(s)'
  BY <1>0, <1>1, <1>2, EndTransactionUnlocks DEF LocksOK
<1>6. Private(s)
  BY <1>0, <1>1, <1>2, EndTransactionUnlocks DEF Private
<1>7. QED
  BY <1>3, <1>4, <1>5, <1>6 DEF Result

\* A step that touches no row, by a handler that has locked none.
LEMMA QuietStep ==
  ASSUME IndInv, NEW s \in Sessions, UNCHANGED <<users, lock>>,
         pc[s] \notin {"lockHigh", "flush"}, pc'[s] # "lockHigh",
         conn'[s].written = conn[s].written,
         LockMode = "updlock" /\ call'[s].kind = "transfer" =>
            pc'[s] \notin {"readMe", "readTo", "begin", "flush"},
         \A r \in Sessions \ {s} : /\ pc'[r] = pc[r] /\ call'[r] = call[r]
                                   /\ ctx'[r] = ctx[r] /\ conn'[r] = conn[r]
  PROVE  LocksOK(s)' /\ Private(s)
<1>1. HeldBy(s) = {} /\ conn[s].written \subseteq {}
  BY DEF IndInv, LocksOK
<1>2. HeldBy(s)' = {}
  BY <1>1 DEF HeldBy
<1>3. LocksOK(s)'
  BY <1>1, <1>2 DEF LocksOK
<1>4. Private(s)
  BY DEF Private
<1>5. QED
  BY <1>3, <1>4

\* What the requests carry.
LEMMA CallTypes ==
  ASSUME TypeOK, NEW s \in Sessions
  PROVE  /\ call[s].kind = "transfer" => call[s] \in Calls /\ call[s].amount \in Nat
         /\ call[s].kind = "rename" => call[s].target \in Nicknames
<1>1. call[s] \in Calls \cup {NoCall}
  BY DEF TypeOK
<1>2. ASSUME call[s] \in [kind : {"transfer"}, target : Nicknames, amount : Amounts]
      PROVE  call[s] \in Calls /\ call[s].amount \in Nat /\ call[s].kind = "transfer"
  BY <1>2, NumbersAreNat DEF Calls
<1>3. ASSUME call[s] \in [kind : {"rename"}, target : Nicknames]
      PROVE  call[s].target \in Nicknames /\ call[s].kind = "rename"
  BY <1>3
<1>4. ASSUME call[s] \in [kind : {"delete"}] \cup {NoCall}
      PROVE  call[s].kind \notin {"transfer", "rename"}
  BY <1>4 DEF NoCall
<1>5. QED
  BY <1>1, <1>2, <1>3, <1>4 DEF Calls

\* A request starts with no row locked.
LEMMA RequestStep ==
  ASSUME IndInv, NEW s \in Sessions, NEW c \in Calls, Request(s, c)
  PROVE  Result(s)
<1>0. TypeOK /\ StageOK(s)
  BY DEF IndInv
<1>1. /\ pc[s] = "idle" /\ pc'[s] = FirstStatement(c.kind) /\ call'[s] = c
      /\ \A r \in Sessions \ {s} : pc'[r] = pc[r] /\ call'[r] = call[r]
      /\ UNCHANGED <<users, lock, conn, ctx, retry, reply, name>>
  BY <1>0 DEF TypeOK, Request
<1>2. /\ pc'[s] \in {"lookup", "readMe"}
      /\ pc'[s] = "lookup" => c.kind = "transfer"
      /\ LockMode = "updlock" /\ c.kind = "transfer" => pc'[s] = "lookup"
  BY <1>1 DEF FirstStatement
<1>3. TypeOK'
  <2>1. pc' \in [Sessions -> Stages] /\ call' \in [Sessions -> Calls \cup {NoCall}]
    BY <1>0, <1>1, <1>2 DEF TypeOK, Request, Stages
  <2>2. QED
    BY <1>0, <1>1, <2>1 DEF TypeOK
<1>4. StageOK(s)'
  BY <1>0, <1>1, <1>2 DEF StageOK, Me
<1>5. LocksOK(s)' /\ Private(s)
  BY <1>1, <1>2, QuietStep
<1>6. QED
  BY <1>3, <1>4, <1>5 DEF Result

\* An answer, or the notice to the payee, is sent with no row locked.
LEMMA AnswerStep ==
  ASSUME IndInv, NEW s \in Sessions, Answer(s) \/ NotifyPayee(s)
  PROVE  Result(s)
<1>0. TypeOK /\ StageOK(s)
  BY DEF IndInv
<1>1. /\ pc[s] \in {"answer", "notify"} /\ pc'[s] \in {"notify", "idle"}
      /\ \A r \in Sessions \ {s} : /\ pc'[r] = pc[r] /\ call'[r] = call[r]
                                   /\ ctx'[r] = ctx[r]
      /\ UNCHANGED <<users, lock, conn, name>>
      /\ ctx'[s] \in {ctx[s], EmptyContext}
  BY <1>0 DEF TypeOK, Answer, NotifyPayee, Finish
<1>2. TypeOK'
  <2>1. CASE UNCHANGED <<call, ctx, retry, reply>> /\ pc' = [pc EXCEPT ![s] = "notify"]
    BY <1>0, <1>1, <2>1 DEF TypeOK, Stages
  <2>2. CASE Finish(s)
    <3>1. ctx' \in [Sessions -> Context]
      BY <1>0, <2>2, EmptyType DEF TypeOK, Finish
    <3>2. /\ pc' \in [Sessions -> Stages] /\ call' \in [Sessions -> Calls \cup {NoCall}]
          /\ retry' \in [Sessions -> 0 .. MaxRetry]
          /\ reply' \in [Sessions -> {"none", "ok", "fail"}]
      BY <1>0, <2>2, NumbersAreNat DEF TypeOK, Finish, Stages
    <3>3. QED
      BY <1>0, <1>1, <3>1, <3>2 DEF TypeOK
  <2>3. QED
    BY <2>1, <2>2 DEF Answer, NotifyPayee
<1>3. StageOK(s)'
  BY <1>0, <1>1 DEF StageOK, EmptyContext, Me
<1>4. LocksOK(s)' /\ Private(s)
  BY <1>1, QuietStep
<1>5. QED
  BY <1>2, <1>3, <1>4 DEF Result

\* The first read: one row is loaded, and for a renaming or a closing changed.
LEMMA ReadMeStep ==
  ASSUME IndInv, NEW s \in Sessions, ReadMe(s)
  PROVE  Result(s)
<1> DEFINE u == Me(s)
<1>0. TypeOK /\ StageOK(s) /\ LocksOK(s) /\ ctx[s] \in Context /\ u \in UserIds
  BY OwnersAreUsers DEF IndInv, TypeOK, Me
<1> HIDE DEF u
<1>1. CASE Fail(s)
  BY <1>1, FailStep
<1>2. CASE ~Fail(s)
  <2>1. PICK row \in Found(u) :
          \/ /\ call[s].kind = "transfer"
             /\ ctx' = [ctx EXCEPT ![s] = Load(ctx[s], u, row)]
             /\ pc' = [pc EXCEPT ![s] = "readTo"]
          \/ /\ call[s].kind = "rename" /\ row # Absent
             /\ ctx' = [ctx EXCEPT ![s] = [Load(ctx[s], u, row) EXCEPT
                           !.value[u].nickname = call[s].target, !.changes = {u}]]
             /\ pc' = [pc EXCEPT ![s] = "begin"]
          \/ /\ call[s].kind = "delete" /\ row # Absent
             /\ ctx' = [ctx EXCEPT ![s] = [Load(ctx[s], u, row) EXCEPT
                           !.value[u] = Absent, !.changes = {u}]]
             /\ pc' = [pc EXCEPT ![s] = "begin"]
    BY <1>2 DEF ReadMe, u
  <2>2. UNCHANGED <<users, lock, conn, call, retry, reply, name>> /\ pc[s] = "readMe"
    BY <1>2 DEF ReadMe
  <2> DEFINE c == Load(ctx[s], u, row)
  <2>3. row \in Row \cup {Absent}
    BY <1>0, FoundType
  <2>4. c \in Context /\ c.changes = {} /\ c.value[u] = row
    <3>1. /\ Load(ctx[s], u, row) \in Context
          /\ Load(ctx[s], u, row).changes = ctx[s].changes
          /\ Load(ctx[s], u, row).value[u] = row
      BY <1>0, <2>3, LoadType
    <3>2. ctx[s].changes = {}
      BY <1>0, <2>2 DEF StageOK
    <3>3. QED
      BY <3>1, <3>2
  <2> HIDE DEF c
  <2>5. \E d \in Context : /\ ctx' = [ctx EXCEPT ![s] = d]
                           /\ \/ pc' = [pc EXCEPT ![s] = "readTo"] /\ d.changes = {}
                                 /\ call[s].kind = "transfer"
                              \/ pc' = [pc EXCEPT ![s] = "begin"] /\ d.changes = {u}
                                 /\ call[s].kind # "transfer"
    <3>1. CASE call[s].kind = "transfer"
      BY <2>1, <2>4, <3>1 DEF c
    <3>2. CASE call[s].kind = "rename"
      <4> DEFINE d == [c EXCEPT !.value[u].nickname = call[s].target, !.changes = {u}]
      <4>1. c.value[u] \in Row /\ call[s].target \in Nicknames
        BY <1>0, <2>1, <2>3, <2>4, <3>2, CallTypes
      <4>2. d \in Context /\ d.changes = {u}
        BY <1>0, <2>4, <4>1, RenamedType
      <4>3. ctx' = [ctx EXCEPT ![s] = d] /\ pc' = [pc EXCEPT ![s] = "begin"]
        BY <2>1, <3>2 DEF c
      <4> HIDE DEF d
      <4>4. QED
        BY <3>2, <4>2, <4>3
    <3>3. CASE call[s].kind = "delete"
      <4> DEFINE d == [c EXCEPT !.value[u] = Absent, !.changes = {u}]
      <4>1. d \in Context /\ d.changes = {u}
        BY <1>0, <2>4, ClosedType
      <4>2. ctx' = [ctx EXCEPT ![s] = d] /\ pc' = [pc EXCEPT ![s] = "begin"]
        BY <2>1, <3>3 DEF c
      <4> HIDE DEF d
      <4>3. QED
        BY <3>3, <4>1, <4>2
    <3>4. QED
      BY <2>1, <3>1, <3>2, <3>3
  <2>6. /\ ctx' \in [Sessions -> Context] /\ pc' \in [Sessions -> Stages]
        /\ \A r \in Sessions \ {s} : pc'[r] = pc[r] /\ ctx'[r] = ctx[r]
        /\ \/ pc'[s] = "readTo" /\ ctx'[s].changes = {} /\ call[s].kind = "transfer"
           \/ pc'[s] = "begin" /\ ctx'[s].changes = {u} /\ call[s].kind # "transfer"
    BY <1>0, <2>5 DEF TypeOK, Stages
  <2>7. TypeOK'
    BY <1>0, <2>2, <2>6 DEF TypeOK
  <2>8. StageOK(s)'
    BY <2>2, <2>6 DEF StageOK, u, Me
  <2>9. LocksOK(s)' /\ Private(s)
    <3>1. ~(LockMode = "updlock" /\ call[s].kind = "transfer")
      BY <1>0, <2>2 DEF LocksOK
    <3>2. QED
      BY <2>2, <2>6, <3>1, QuietStep
  <2>10. QED
    BY <2>7, <2>8, <2>9 DEF Result
<1>3. QED
  BY <1>1, <1>2

\* The payee is read and the money moved in the context.
LEMMA ReadToStep ==
  ASSUME IndInv, NEW s \in Sessions, ReadTo(s)
  PROVE  Result(s)
<1>0. TypeOK /\ StageOK(s) /\ LocksOK(s) /\ ctx[s] \in Context
  BY DEF IndInv, TypeOK
<1>1. CASE Fail(s)
  BY <1>1, FailStep
<1>2. CASE ~Fail(s)
  <2>1. PICK u \in UserIds :
          /\ users[u] # Absent
          /\ CanPay(s, [Load(ctx[s], u, users[u]) EXCEPT !.payee = u])
          /\ ctx' = [ctx EXCEPT ![s] =
                       Moved(s, [Load(ctx[s], u, users[u]) EXCEPT !.payee = u])]
          /\ pc' = [pc EXCEPT ![s] = "begin"]
          /\ UNCHANGED <<users, lock, conn, call, retry, reply, name>>
    BY <1>2 DEF ReadTo, Named
  <2> DEFINE c == [Load(ctx[s], u, users[u]) EXCEPT !.payee = u]
  <2>2. c \in Context /\ c.payee = u
    <3>1. users[u] \in Row \cup {Absent}
      BY <1>0 DEF TypeOK
    <3>2. Load(ctx[s], u, users[u]) \in Context
      BY <1>0, <3>1, LoadType
    <3>3. QED
      BY <3>2, PayeeType
  <2>3. call[s].kind = "transfer" /\ call[s].amount \in Nat /\ pc[s] = "readTo"
    BY <1>0, <1>2, CallTypes DEF ReadTo, StageOK
  <2> DEFINE d == Moved(s, c)
  <2> HIDE DEF c
  <2>4. d \in Context /\ d.changes = {Me(s), u} /\ d.payee = u
    BY <2>1, <2>2, <2>3, MovedType DEF c
  <2>5. ctx' = [ctx EXCEPT ![s] = d]
    BY <2>1 DEF c
  <2> HIDE DEF d
  <2>6. /\ pc' \in [Sessions -> Stages] /\ ctx' \in [Sessions -> Context]
        /\ pc'[s] = "begin" /\ ctx'[s] = d
        /\ \A r \in Sessions \ {s} : pc'[r] = pc[r] /\ ctx'[r] = ctx[r]
    BY <1>0, <2>1, <2>4, <2>5 DEF TypeOK, Stages
  <2>7. TypeOK'
    BY <1>0, <2>1, <2>6 DEF TypeOK
  <2>8. StageOK(s)'
    BY <2>4, <2>6 DEF StageOK, Me
  <2>9. LocksOK(s)' /\ Private(s)
    <3>1. LockMode # "updlock"
      BY <1>0, <2>3 DEF LocksOK
    <3>2. QED
      BY <2>1, <2>3, <2>6, <3>1, QuietStep
  <2>10. QED
    BY <2>7, <2>8, <2>9 DEF Result
<1>3. QED
  BY <1>1, <1>2

\* Only the key of the payee is kept.
LEMMA LookupStep ==
  ASSUME IndInv, NEW s \in Sessions, Lookup(s)
  PROVE  Result(s)
<1>0. TypeOK /\ StageOK(s) /\ LocksOK(s) /\ ctx[s] \in Context
  BY DEF IndInv, TypeOK
<1>1. CASE Fail(s)
  BY <1>1, FailStep
<1>2. CASE ~Fail(s)
  <2>1. PICK u \in UserIds :
          /\ u # Me(s)
          /\ ctx' = [ctx EXCEPT ![s].payee = u]
          /\ pc' = [pc EXCEPT ![s] = "open"]
          /\ UNCHANGED <<users, lock, conn, call, retry, reply, name>>
    BY <1>2 DEF Lookup, Named
  <2>2. pc[s] = "lookup" /\ call[s].kind = "transfer" /\ ctx[s].changes = {}
    BY <1>0, <1>2 DEF Lookup, StageOK
  <2> DEFINE d == [ctx[s] EXCEPT !.payee = u]
  <2>3. d \in Context /\ d.payee = u /\ d.changes = {}
    BY <1>0, <2>2, PayeeType
  <2>4. ctx' = [ctx EXCEPT ![s] = d]
    BY <2>1
  <2> HIDE DEF d
  <2>5. /\ pc' \in [Sessions -> Stages] /\ ctx' \in [Sessions -> Context]
        /\ pc'[s] = "open" /\ ctx'[s] = d
        /\ \A r \in Sessions \ {s} : pc'[r] = pc[r] /\ ctx'[r] = ctx[r]
    BY <1>0, <2>1, <2>3, <2>4 DEF TypeOK, Stages
  <2>6. TypeOK'
    BY <1>0, <2>1, <2>5 DEF TypeOK
  <2>7. StageOK(s)'
    BY <2>1, <2>2, <2>3, <2>5 DEF StageOK, Me
  <2>8. LocksOK(s)' /\ Private(s)
    BY <2>1, <2>2, <2>5, QuietStep
  <2>9. QED
    BY <2>6, <2>7, <2>8 DEF Result
<1>3. QED
  BY <1>1, <1>2

\* The transaction is opened before the first row is locked.
LEMMA OpenTransactionStep ==
  ASSUME IndInv, NEW s \in Sessions, OpenTransaction(s)
  PROVE  Result(s)
<1>0. TypeOK /\ StageOK(s)
  BY DEF IndInv
<1>1. CASE Fail(s)
  BY <1>1, FailStep
<1>2. CASE ~Fail(s)
  <2>1. /\ pc[s] = "open" /\ conn' = [conn EXCEPT ![s].open = TRUE]
        /\ pc' = [pc EXCEPT ![s] = "lockLow"]
        /\ UNCHANGED <<users, lock, call, ctx, retry, reply, name>>
    BY <1>2 DEF OpenTransaction
  <2>2. /\ pc' \in [Sessions -> Stages] /\ pc'[s] = "lockLow"
        /\ conn' \in [Sessions -> [open : BOOLEAN, written : SUBSET UserIds]]
        /\ conn'[s].written = conn[s].written
        /\ \A r \in Sessions \ {s} : pc'[r] = pc[r] /\ conn'[r] = conn[r]
    BY <1>0, <2>1 DEF TypeOK, Stages
  <2>3. TypeOK'
    BY <1>0, <2>1, <2>2 DEF TypeOK
  <2>4. StageOK(s)'
    BY <1>0, <2>1, <2>2 DEF StageOK, Me
  <2>5. LocksOK(s)' /\ Private(s)
    BY <2>1, <2>2, QuietStep
  <2>6. QED
    BY <2>3, <2>4, <2>5 DEF Result
<1>3. QED
  BY <1>1, <1>2

\* The first row is locked by a handler that has locked none.
LEMMA LockLowStep ==
  ASSUME IndInv, NEW s \in Sessions, LockLow(s)
  PROVE  Result(s)
<1> DEFINE u == LowId(s)
<1>0. TypeOK /\ StageOK(s) /\ LocksOK(s) /\ ctx[s] \in Context
  BY DEF IndInv, TypeOK
<1>1. PICK row \in Found(u) :
         /\ lock' = IF row = Absent THEN lock ELSE [lock EXCEPT ![u] = s]
         /\ ctx' = [ctx EXCEPT ![s] = Load(ctx[s], u, row)]
  BY <1>0 DEF LockLow, TypeOK
<1>2. /\ pc[s] = "lockLow" /\ Lockable(s, u) /\ pc' = [pc EXCEPT ![s] = "lockHigh"]
      /\ UNCHANGED <<users, conn, call, retry, reply, name>>
  BY DEF LockLow
<1>3. /\ ctx[s].payee \in UserIds /\ ctx[s].payee # Me(s) /\ ctx[s].changes = {}
      /\ call[s].kind = "transfer" /\ HeldBy(s) = {} /\ conn[s].written = {}
  BY <1>0, <1>2 DEF StageOK, LocksOK
<1>4. u \in UserIds
  BY <1>3, Ordered, OwnersAreUsers DEF Me
<1> DEFINE d == Load(ctx[s], u, row)
<1>5. /\ d \in Context /\ d.changes = {} /\ d.payee = ctx[s].payee
      /\ d.origin[u] = row /\ d.value[u] = row
      /\ row \in Row \cup {Absent} /\ (row = users[u] \/ row = Absent)
  <2>1. row \in Row \cup {Absent} /\ (row = users[u] \/ row = Absent)
    BY <1>0, <1>4, FoundType
  <2>2. QED
    BY <1>0, <1>3, <1>4, <2>1, LoadType
<1> HIDE DEF d
<1>6. /\ pc' \in [Sessions -> Stages] /\ ctx' \in [Sessions -> Context]
      /\ lock' \in [UserIds -> Sessions \cup {Free}]
      /\ pc'[s] = "lockHigh" /\ ctx'[s] = d
      /\ \A r \in Sessions \ {s} : pc'[r] = pc[r] /\ ctx'[r] = ctx[r]
  BY <1>0, <1>1, <1>2, <1>4, <1>5 DEF TypeOK, Stages, d
<1>7. LowId(s)' = u
  BY <1>5, <1>6 DEF LowId, LockOrder, Me
<1> HIDE DEF u
<1>8. TypeOK'
  BY <1>0, <1>2, <1>6 DEF TypeOK
<1>9. StageOK(s)'
  BY <1>2, <1>3, <1>5, <1>6 DEF StageOK, Me
<1>10. /\ HeldBy(s)' \subseteq {u}
       /\ row # Absent => lock'[u] = s
       /\ \A r \in Sessions \ {s} : \A x \in UserIds : lock'[x] = r <=> lock[x] = r
  <2>1. lock[u] \in {Free, s}
    BY <1>2 DEF Lockable
  <2>2. \A x \in UserIds : lock'[x] = lock[x] \/ (x = u /\ lock'[x] = s /\ row # Absent)
    BY <1>0, <1>1, <1>4 DEF TypeOK, u
  <2>3. row # Absent => lock'[u] = s
    BY <1>0, <1>1, <1>4 DEF TypeOK, u
  <2>4. QED
    BY <1>3, <2>1, <2>2, <2>3, SessionsAreFinite DEF HeldBy
<1>11. LocksOK(s)'
  BY <1>2, <1>3, <1>5, <1>6, <1>7, <1>10 DEF LocksOK
<1>12. Private(s)
  BY <1>2, <1>6, <1>10 DEF Private
<1>13. QED
  BY <1>8, <1>9, <1>11, <1>12 DEF Result

\* The second row is locked; the results of both are known to be current.
LEMMA LockHighStep ==
  ASSUME IndInv, NEW s \in Sessions, LockHigh(s)
  PROVE  Result(s)
<1> DEFINE u == HighId(s)  low == LowId(s)
<1>0. TypeOK /\ StageOK(s) /\ LocksOK(s) /\ ctx[s] \in Context
  BY DEF IndInv, TypeOK
<1>1. CASE Fail(s)
  BY <1>1, FailStep
<1>2. CASE ~Fail(s)
  <2>1. PICK row \in Found(u) :
          /\ CanPay(s, Load(ctx[s], u, row))
          /\ lock' = [lock EXCEPT ![u] = s]
          /\ ctx' = [ctx EXCEPT ![s] = Moved(s, Load(ctx[s], u, row))]
          /\ pc' = [pc EXCEPT ![s] = "flush"]
          /\ UNCHANGED <<users, conn, call, retry, reply, name>>
    BY <1>2 DEF LockHigh
  <2>2. pc[s] = "lockHigh" /\ Lockable(s, u)
    BY DEF LockHigh
  <2>3. /\ ctx[s].payee \in UserIds /\ ctx[s].payee # Me(s) /\ Me(s) \in UserIds
        /\ call[s].kind = "transfer" /\ call[s].amount \in Nat
    BY <1>0, <2>2, CallTypes, OwnersAreUsers DEF StageOK, Me
  <2>4. /\ u \in UserIds /\ low \in UserIds /\ low # u
        /\ {Me(s), ctx[s].payee} = {low, u}
    BY <2>3, Ordered
  <2>5. row \in Row \cup {Absent} /\ (row = users[u] \/ row = Absent)
    BY <1>0, <2>4, FoundType
  <2> HIDE DEF u, low
  <2> DEFINE c == Load(ctx[s], u, row)
  <2>6. /\ c \in Context /\ c.payee = ctx[s].payee
        /\ c.origin[u] = row /\ c.value[u] = row
        /\ c.origin[low] = ctx[s].origin[low] /\ c.value[low] = ctx[s].value[low]
    BY <1>0, <2>4, <2>5, LoadType
  <2>7. CanPay(s, c)
    BY <2>1 DEF u
  <2> HIDE DEF c
  <2>8. c.value[u] # Absent /\ c.value[low] # Absent
    BY <2>4, <2>6, <2>7 DEF CanPay
  <2>9. row = users[u] /\ lock[low] = s /\ users[low] = ctx[s].origin[low]
        /\ HeldBy(s) \subseteq {low} /\ conn[s].written \subseteq HeldBy(s)
    BY <1>0, <2>2, <2>5, <2>6, <2>8 DEF LocksOK, low
  <2> DEFINE d == Moved(s, c)
  <2>10. d \in Context /\ d.changes = {low, u} /\ d.origin = c.origin /\ d.payee = ctx[s].payee
    BY <2>3, <2>4, <2>6, <2>7, MovedType
  <2>11. ctx' = [ctx EXCEPT ![s] = d] /\ lock' = [lock EXCEPT ![u] = s]
    BY <2>1 DEF c, u
  <2> HIDE DEF d
  <2>12. /\ pc' \in [Sessions -> Stages] /\ ctx' \in [Sessions -> Context]
         /\ lock' \in [UserIds -> Sessions \cup {Free}]
         /\ pc'[s] = "flush" /\ ctx'[s] = d
         /\ \A r \in Sessions \ {s} : pc'[r] = pc[r] /\ ctx'[r] = ctx[r]
    BY <1>0, <2>1, <2>4, <2>10, <2>11 DEF TypeOK, Stages
  <2>13. TypeOK'
    BY <1>0, <2>1, <2>12 DEF TypeOK
  <2>14. StageOK(s)'
    BY <2>4, <2>10, <2>12 DEF StageOK, Me
  <2>15. lock'[u] = s /\ lock'[low] = s
    BY <1>0, <2>4, <2>9, <2>11 DEF TypeOK
  <2>16. Secured(s)'
    BY <2>1, <2>6, <2>9, <2>10, <2>12, <2>15 DEF Secured
  <2>17. conn'[s].written \subseteq HeldBy(s)'
    <3>1. conn'[s].written \subseteq {low}
      BY <2>1, <2>9
    <3>2. low \in HeldBy(s)'
      BY <2>4, <2>15 DEF HeldBy
    <3>3. QED
      BY <3>1, <3>2
  <2>18. LocksOK(s)'
    BY <2>12, <2>16, <2>17 DEF LocksOK
  <2>19. Private(s)
    <3>1. \A r \in Sessions \ {s} : \A x \in UserIds : lock'[x] = r <=> lock[x] = r
      BY <1>0, <2>2, <2>4, <2>11, SessionsAreFinite DEF TypeOK, Lockable, u
    <3>2. QED
      BY <2>1, <2>12, <3>1 DEF Private
  <2>20. QED
    BY <2>13, <2>14, <2>18, <2>19 DEF Result
<1>3. QED
  BY <1>1, <1>2

\* The transaction of SaveChanges begins, or does not, with no row locked.
LEMMA BeginStep ==
  ASSUME IndInv, NEW s \in Sessions, Begin(s)
  PROVE  Result(s)
<1>0. TypeOK /\ StageOK(s) /\ LocksOK(s)
  BY DEF IndInv
<1>1. /\ pc[s] = "begin" /\ pc' = [pc EXCEPT ![s] = "flush"]
      /\ conn' = [conn EXCEPT ![s].open = TRUE] \/ conn' = conn
      /\ UNCHANGED <<users, lock, call, ctx, retry, reply, name>>
  BY DEF Begin
<1>2. /\ pc' \in [Sessions -> Stages] /\ pc'[s] = "flush"
      /\ conn' \in [Sessions -> [open : BOOLEAN, written : SUBSET UserIds]]
      /\ conn'[s].written = conn[s].written
      /\ \A r \in Sessions \ {s} : pc'[r] = pc[r] /\ conn'[r] = conn[r]
  <2>1. /\ pc' \in [Sessions -> Stages] /\ pc'[s] = "flush"
        /\ \A r \in Sessions \ {s} : pc'[r] = pc[r]
    BY <1>0, <1>1 DEF TypeOK, Stages
  <2>2. CASE conn' = [conn EXCEPT ![s].open = TRUE]
    BY <1>0, <2>1, <2>2 DEF TypeOK
  <2>3. CASE conn' = conn
    BY <1>0, <2>1, <2>3 DEF TypeOK
  <2>4. QED
    BY <1>1, <2>2, <2>3
<1>3. TypeOK'
  BY <1>0, <1>1, <1>2 DEF TypeOK
<1>4. StageOK(s)'
  BY <1>0, <1>1, <1>2 DEF StageOK, Me
<1>5. LocksOK(s)' /\ Private(s)
  <2>1. ~(LockMode = "updlock" /\ call[s].kind = "transfer")
    BY <1>0, <1>1 DEF LocksOK
  <2>2. QED
    BY <1>1, <1>2, <2>1, QuietStep
<1>6. QED
  BY <1>3, <1>4, <1>5 DEF Result

\* The next change is the one with the smallest key.
LEMMA NextChangeIsLeast ==
  ASSUME IndInv, NEW s \in Sessions, ctx[s].changes # {}
  PROVE  /\ NextChange(s) \in ctx[s].changes /\ NextChange(s) \in UserIds
         /\ \A v \in ctx[s].changes : NextChange(s) <= v
<1> DEFINE S == ctx[s].changes
<1>1. S \subseteq UserIds /\ S \subseteq {Me(s), ctx[s].payee} /\ Me(s) \in UserIds
  BY OwnersAreUsers DEF IndInv, TypeOK, Context, StageOK, Me
<1>2. \E a, b \in Int : S \in SUBSET {a, b}
  <2>1. CASE ctx[s].payee \in UserIds
    BY <1>1, <2>1, UserIdsAreKeys
  <2>2. CASE ctx[s].payee \notin UserIds
    <3>1. S \in SUBSET {Me(s), Me(s)}
      BY <1>1, <2>2
    <3>2. QED
      BY <1>1, <3>1, UserIdsAreKeys
  <2>3. QED
    BY <2>1, <2>2
<1>3. Min(S) \in S /\ \A v \in S : Min(S) <= v
  <2>1. PICK a, b \in Int : S \in SUBSET {a, b}
    BY <1>2
  <2> HIDE DEF S
  <2>2. S # {}
    BY DEF S
  <2>3. QED
    BY <2>1, <2>2, PairOrder
<1>4. QED
  BY <1>1, <1>3 DEF NextChange

\* A row is written: locked until the commit, or committed at once.
LEMMA FlushRowStep ==
  ASSUME IndInv, NEW s \in Sessions, FlushRow(s)
  PROVE  Result(s)
<1> DEFINE u == NextChange(s)
<1>0. TypeOK /\ StageOK(s) /\ LocksOK(s) /\ ctx[s] \in Context
  BY DEF IndInv, TypeOK
<1>1. /\ pc[s] = "flush" /\ ctx[s].changes # {} /\ Lockable(s, u)
      /\ ctx' = [ctx EXCEPT ![s].changes = @ \ {u}]
      /\ UNCHANGED <<pc, call, retry, reply, name>>
  BY DEF FlushRow
<1>2. \/ /\ lock' = [lock EXCEPT ![u] = s]
         /\ conn' = [conn EXCEPT ![s].written = @ \cup {u}]
         /\ UNCHANGED users
      \/ /\ users' = [users EXCEPT ![u] = ctx[s].value[u]]
         /\ UNCHANGED <<lock, conn>>
  BY DEF FlushRow
<1>3. /\ u \in ctx[s].changes /\ u \in UserIds
      /\ \A v \in ctx[s].changes : u <= v /\ v \in Int /\ u \in Int
  BY <1>0, <1>1, NextChangeIsLeast, UserIdsAreKeys DEF Context
<1> HIDE DEF u
<1> DEFINE d == [ctx[s] EXCEPT !.changes = @ \ {u}]
<1>4. /\ d \in Context /\ d.changes = ctx[s].changes \ {u} /\ d.payee = ctx[s].payee
      /\ d.origin = ctx[s].origin /\ d.value = ctx[s].value
  BY <1>0, <1>3 DEF Context
<1>5. ctx' = [ctx EXCEPT ![s] = d]
  BY <1>1
<1> HIDE DEF d
<1>6. /\ ctx' \in [Sessions -> Context] /\ ctx'[s] = d
      /\ \A r \in Sessions \ {s} : ctx'[r] = ctx[r]
  BY <1>0, <1>4, <1>5 DEF TypeOK
<1>7. StageOK(s)'
  BY <1>0, <1>1, <1>4, <1>6 DEF StageOK, Me
<1>8. CASE /\ lock' = [lock EXCEPT ![u] = s]
           /\ conn' = [conn EXCEPT ![s].written = @ \cup {u}]
           /\ UNCHANGED users
  <2>1. /\ lock' \in [UserIds -> Sessions \cup {Free}] /\ lock'[u] = s
        /\ \A x \in UserIds : x # u => lock'[x] = lock[x]
        /\ conn' \in [Sessions -> [open : BOOLEAN, written : SUBSET UserIds]]
        /\ conn'[s].written = conn[s].written \cup {u}
        /\ \A r \in Sessions \ {s} : conn'[r] = conn[r]
    BY <1>0, <1>3, <1>8 DEF TypeOK
  <2>2. TypeOK'
    BY <1>0, <1>1, <1>6, <1>8, <2>1 DEF TypeOK
  <2>3. HeldBy(s)' = HeldBy(s) \cup {u}
    BY <1>3, <2>1 DEF HeldBy
  <2>4. Secured(s) => Secured(s)'
    BY <1>3, <1>4, <1>6, <1>8, <2>1 DEF Secured
  <2>5. (\A x \in HeldBy(s) : \A v \in ctx[s].changes : x < v) =>
           \A x \in HeldBy(s)' : \A v \in ctx'[s].changes : x < v
    <3>1. \A v \in ctx'[s].changes : v \in ctx[s].changes /\ u < v
      BY <1>3, <1>4, <1>6
    <3>2. QED
      BY <2>3, <3>1
  <2>6. LocksOK(s)'
    BY <1>0, <1>1, <2>1, <2>3, <2>4, <2>5 DEF LocksOK
  <2>7. Private(s)
    <3>1. \A r \in Sessions \ {s} : \A x \in UserIds : lock'[x] = r <=> lock[x] = r
      BY <1>1, <2>1, SessionsAreFinite DEF Lockable
    <3>2. QED
      BY <1>1, <1>6, <1>8, <2>1, <3>1 DEF Private
  <2>8. QED
    BY <1>7, <2>2, <2>6, <2>7 DEF Result
<1>9. CASE /\ users' = [users EXCEPT ![u] = ctx[s].value[u]]
           /\ UNCHANGED <<lock, conn>>
  <2>1. /\ users' \in [UserIds -> Row \cup {Absent}]
        /\ \A x \in UserIds : x # u => users'[x] = users[x]
    <3>1. ctx[s].value[u] \in Row \cup {Absent}
      BY <1>0, <1>3 DEF Context
    <3>2. QED
      BY <1>0, <1>3, <1>9, <3>1 DEF TypeOK
  <2>2. TypeOK'
    BY <1>0, <1>1, <1>6, <1>9, <2>1 DEF TypeOK
  <2>3. HeldBy(s)' = HeldBy(s)
    BY <1>9 DEF HeldBy
  <2>4. Secured(s) => Secured(s)'
    BY <1>3, <1>4, <1>6, <1>9, <2>1 DEF Secured
  <2>5. LocksOK(s)'
    BY <1>0, <1>1, <1>4, <1>6, <1>9, <2>3, <2>4 DEF LocksOK
  <2>6. Private(s)
    <3>1. \A r \in Sessions \ {s} : \A x \in UserIds : lock[x] = r => x # u
      BY <1>1, SessionsAreFinite DEF Lockable
    <3>2. QED
      BY <1>1, <1>6, <1>9, <2>1, <3>1 DEF Private
  <2>7. QED
    BY <1>7, <2>2, <2>5, <2>6 DEF Result
<1>10. QED
  BY <1>2, <1>8, <1>9

\* A conflict ends the transaction, and a transfer starts over with nothing.
LEMMA FlushConflictStep ==
  ASSUME IndInv, NEW s \in Sessions, FlushConflict(s)
  PROVE  Result(s)
<1>0. TypeOK
  BY DEF IndInv
<1>1. CASE Fail(s)
  BY <1>1, FailStep
<1>2. CASE ~Fail(s)
  <2>1. /\ call[s].kind = "transfer" /\ retry[s] < MaxRetry
        /\ EndTransaction(s)
        /\ retry' = [retry EXCEPT ![s] = @ + 1]
        /\ ctx' = [ctx EXCEPT ![s] = EmptyContext]
        /\ pc' = [pc EXCEPT ![s] = FirstStatement("transfer")]
        /\ UNCHANGED <<users, call, reply, name>>
    BY <1>2 DEF FlushConflict
  <2>2. /\ FirstStatement("transfer") \in {"lookup", "readMe"}
        /\ LockMode = "updlock" => FirstStatement("transfer") = "lookup"
    BY DEF FirstStatement
  <2>3. /\ pc' \in [Sessions -> Stages] /\ ctx' \in [Sessions -> Context]
        /\ retry' \in [Sessions -> 0 .. MaxRetry]
        /\ pc'[s] = FirstStatement("transfer") /\ ctx'[s] = EmptyContext
        /\ \A r \in Sessions \ {s} : pc'[r] = pc[r] /\ ctx'[r] = ctx[r]
    BY <1>0, <2>1, <2>2, EmptyType, NumbersAreNat DEF TypeOK, Stages
  <2>4. TypeOK'
    BY <1>0, <2>1, <2>3, EndTransactionUnlocks DEF TypeOK
  <2>5. StageOK(s)'
    BY <2>1, <2>2, <2>3 DEF StageOK, EmptyContext
  <2>6. LocksOK(s)'
    BY <1>0, <2>1, <2>2, <2>3, EndTransactionUnlocks DEF LocksOK
  <2>7. Private(s)
    BY <1>0, <2>1, <2>3, EndTransactionUnlocks DEF Private
  <2>8. QED
    BY <2>4, <2>5, <2>6, <2>7 DEF Result
<1>3. QED
  BY <1>1, <1>2

\* Only rows this transaction has locked are committed.
LEMMA CommitStep ==
  ASSUME IndInv, NEW s \in Sessions, Commit(s)
  PROVE  Result(s)
<1>0. TypeOK /\ LocksOK(s) /\ ctx[s] \in Context
  BY DEF IndInv, TypeOK
<1>1. /\ pc[s] = "flush" /\ ctx[s].changes = {} /\ EndTransaction(s)
      /\ reply' = [reply EXCEPT ![s] = "ok"] /\ pc' = [pc EXCEPT ![s] = "answer"]
      /\ UNCHANGED <<call, ctx, retry>>
  BY DEF Commit
<1>2. \A u \in UserIds : \/ users'[u] = users[u]
                         \/ u \in conn[s].written /\ users'[u] = ctx[s].value[u]
  BY DEF Commit
<1>3. users' \in [UserIds -> Row \cup {Absent}]
  <2>1. \A u \in UserIds : /\ users[u] \in Row \cup {Absent}
                           /\ ctx[s].value[u] \in Row \cup {Absent}
    BY <1>0 DEF TypeOK, Context
  <2>2. CASE users' = users
    BY <1>0, <2>2 DEF TypeOK
  <2>3. CASE users' = [u \in UserIds |-> IF u \in conn[s].written
                                         THEN ctx[s].value[u] ELSE users[u]]
    BY <2>1, <2>3
  <2>4. QED
    BY <2>2, <2>3 DEF Commit
<1>4. name' \in [Sessions -> Nicknames]
  <2>1. call[s].kind = "rename" => call[s].target \in Nicknames
    BY <1>0, CallTypes
  <2>2. QED
    BY <1>0, <2>1 DEF TypeOK, Commit
<1>5. TypeOK'
  <2>1. reply' \in [Sessions -> {"none", "ok", "fail"}] /\ pc' \in [Sessions -> Stages]
    BY <1>0, <1>1 DEF TypeOK, Stages
  <2>2. QED
    BY <1>0, <1>1, <1>3, <1>4, <2>1, EndTransactionUnlocks DEF TypeOK
<1>6. pc'[s] = "answer" /\ \A r \in Sessions \ {s} : pc'[r] = pc[r]
  BY <1>0, <1>1 DEF TypeOK
<1>7. StageOK(s)'
  BY <1>1, <1>6 DEF StageOK
<1>8. LocksOK(s)'
  BY <1>0, <1>1, <1>6, EndTransactionUnlocks DEF LocksOK
<1>9. Private(s)
  <2>1. \A r \in Sessions \ {s} : \A u \in UserIds : lock[u] = r => users'[u] = users[u]
    BY <1>0, <1>2 DEF LocksOK, HeldBy
  <2>2. QED
    BY <1>0, <1>1, <1>6, <2>1, EndTransactionUnlocks DEF Private
<1>10. QED
  BY <1>5, <1>7, <1>8, <1>9 DEF Result

-------------------------------------------------------------------------------

\* Every step keeps the invariant.
LEMMA IndInvNext == IndInv /\ [Next]_vars => IndInv'
<1> SUFFICES ASSUME IndInv, [Next]_vars PROVE IndInv'
  OBVIOUS
<1>1. CASE UNCHANGED vars
  <2>1. TypeOK'
    BY <1>1 DEF vars, IndInv, TypeOK
  <2>2. \A s \in Sessions : StageOK(s)'
    BY <1>1 DEF vars, IndInv, StageOK, Me
  <2>3. \A s \in Sessions : LocksOK(s)'
    <3>1. ASSUME NEW s \in Sessions PROVE LocksOK(s)'
      <4>1. LocksOK(s)
        BY DEF IndInv
      <4>2. /\ HeldBy(s)' = HeldBy(s) /\ Secured(s)' = Secured(s)
            /\ LowId(s)' = LowId(s)
        BY <1>1 DEF vars, HeldBy, Secured, Me, LowId, LockOrder
      <4>3. QED
        BY <1>1, <4>1, <4>2 DEF vars, LocksOK
    <3>2. QED
      BY <3>1
  <2>4. QED
    BY <2>1, <2>2, <2>3 DEF IndInv
<1>2. ASSUME NEW s \in Sessions, HandlerStep(s) \/ \E c \in Calls : Request(s, c)
      PROVE  IndInv'
  <2>1. Result(s)
    BY <1>2, RequestStep, AnswerStep, ReadMeStep, ReadToStep, LookupStep,
       OpenTransactionStep, LockLowStep, LockHighStep, BeginStep, FlushRowStep,
       FlushConflictStep, CommitStep, FailStep DEF HandlerStep, StatementFails
  <2>2. \A r \in Sessions \ {s} : StageOK(r)' /\ LocksOK(r)'
    BY <2>1, OthersKeep DEF Result
  <2>3. QED
    BY <2>1, <2>2 DEF Result, IndInv
<1>3. QED
  BY <1>1, <1>2 DEF Next

\* The invariant holds in every reachable state.
LEMMA SpecIndInv == Spec => []IndInv
<1>1. QED
  BY InitIndInv, IndInvNext, PTL DEF Spec

\* Type correctness; a balance is a natural number, so no account is overdrawn.
THEOREM SpecTypeOK == Spec => []TypeOK
<1>1. IndInv => TypeOK
  BY DEF IndInv
<1>2. QED
  BY SpecIndInv, <1>1, PTL

\* A transfer that has read its two rows WITH (UPDLOCK) never meets a conflict
\* when it flushes them, however many handlers write to the table.
THEOREM SpecLockedRowsNeverConflict == Spec => []LockedRowsNeverConflict
<1>1. IndInv => LockedRowsNeverConflict
  BY DEF IndInv, LocksOK, LockedRowsNeverConflict, Secured, Matches
<1>2. QED
  BY SpecIndInv, <1>1, PTL

\* Whom a handler waits for, if that one waits too, waits for a higher row.
LEMMA WaitsUpwards ==
  ASSUME IndInv, NEW s \in Sessions, NEW r \in Sessions, NEW q,
         WaitsFor(s, r), WaitsFor(r, q)
  PROVE  NextRow(s) \in Int /\ NextRow(r) \in Int /\ NextRow(s) < NextRow(r)
<1>1. ASSUME NEW x \in Sessions, Locking(x)
      PROVE  /\ NextRow(x) \in UserIds
             /\ pc[x] = "flush" => NextRow(x) \in ctx[x].changes
             /\ pc[x] = "lockHigh" => NextRow(x) = HighId(x)
  <2>1. CASE pc[x] \in {"lockLow", "lockHigh"}
    <3>1. Me(x) \in UserIds /\ ctx[x].payee \in UserIds /\ ctx[x].payee # Me(x)
      BY <2>1, OwnersAreUsers DEF IndInv, StageOK, Me
    <3>2. QED
      BY <2>1, <3>1, Ordered DEF NextRow
  <2>2. CASE pc[x] = "flush" /\ ctx[x].changes # {}
    BY <2>2, NextChangeIsLeast DEF NextRow
  <2>3. QED
    BY <1>1, <2>1, <2>2 DEF Locking
<1>2. /\ Locking(s) /\ Locking(r) /\ lock[NextRow(s)] = r
      /\ lock[NextRow(r)] = q /\ q # r
  BY DEF WaitsFor
<1>3. NextRow(s) \in HeldBy(r) /\ NextRow(s) \in Int /\ NextRow(r) \in Int
  BY <1>1, <1>2, UserIdsAreKeys DEF HeldBy
<1>4. CASE pc[r] = "lockLow"
  BY <1>3, <1>4 DEF IndInv, LocksOK
<1>5. CASE pc[r] = "lockHigh"
  <2>1. NextRow(s) = LowId(r)
    BY <1>3, <1>5 DEF IndInv, LocksOK
  <2>2. LowId(r) < HighId(r)
    BY <1>5, Ordered, OwnersAreUsers DEF IndInv, StageOK, Me
  <2>3. QED
    BY <1>1, <1>2, <1>3, <1>5, <2>1, <2>2
<1>6. CASE pc[r] = "flush"
  <2>1. NextRow(r) \in ctx[r].changes
    BY <1>1, <1>2, <1>6
  <2>2. ~Secured(r)
    BY <1>2, <2>1 DEF Secured
  <2>3. QED
    BY <1>3, <1>6, <2>1, <2>2 DEF IndInv, LocksOK
<1>7. QED
  BY <1>2, <1>4, <1>5, <1>6 DEF Locking

\* Rows are locked in the order of their keys: among any handlers one waits
\* for none of the others, in both lock modes and whatever they do.
THEOREM SpecNoDeadlock == Spec => []NoDeadlock
<1>1. IndInv => NoDeadlock
  <2> SUFFICES ASSUME IndInv, NEW S \in (SUBSET Sessions) \ {{}},
                      \A s \in S : \E r \in S : WaitsFor(s, r)
               PROVE  FALSE
    BY DEF NoDeadlock
  <2>0. S \subseteq Sessions /\ S # {}
    OBVIOUS
  <2> DEFINE Above(s) == {r \in S : NextRow(s) < NextRow(r)}
             Sets == {Above(s) : s \in S}
  <2>1. Sets \subseteq FiniteSubsetsOf(S) /\ Sets # {}
    <3>1. IsFiniteSet(S)
      BY <2>0, SessionsAreFinite, FS_Subset
    <3>2. \A s \in S : Above(s) \subseteq S /\ IsFiniteSet(Above(s))
      BY <3>1, FS_Subset
    <3>3. \A s \in S : Above(s) \in FiniteSubsetsOf(S)
      BY <3>2 DEF FiniteSubsetsOf
    <3> HIDE DEF Above
    <3>4. QED
      BY <2>0, <3>3
  <2>2. PICK s \in S : \A t \in S :
                          <<Above(t), Above(s)>> \notin StrictSubsetOrdering(S)
    <3> HIDE DEF Above
    <3>1. \E x \in Sets : \A y \in Sets : <<y, x>> \notin StrictSubsetOrdering(S)
      <4> HIDE DEF Sets
      <4>1. QED
        BY <2>1, FS_StrictSubsetOrderingWellFounded, WFMin
    <3>2. QED
      BY <3>1
  <2>3. PICK r \in S : WaitsFor(s, r)
    OBVIOUS
  <2>4. NextRow(s) \in Int /\ NextRow(r) \in Int /\ NextRow(s) < NextRow(r)
    BY <2>0, <2>3, WaitsUpwards
  <2>5. \A t \in S : NextRow(t) \in Int
    BY <2>0, WaitsUpwards
  <2>6. Above(r) \subseteq Above(s) /\ r \in Above(s) /\ r \notin Above(r)
    BY <2>4, <2>5
  <2>7. QED
    BY <2>1, <2>2, <2>6 DEF StrictSubsetOrdering
<1>2. QED
  BY SpecIndInv, <1>1, PTL
-------------------------------------------------------------------------------
(* Transfer implements Bank *)

\* Every transfer that comes to its flush has a transaction open: in the mode
\* "occ" only if Begin, whose result SaveChanges does not look at, succeeds.
TransfersAreAtomic == LockMode = "updlock" \/ "begin" \notin Faults

\* The rows a request writes.
RowsOf(s) == IF call[s].kind = "transfer" THEN {Me(s), ctx[s].payee} ELSE {Me(s)}

\* What the context holds when SaveChanges is called: the rows as they were
\* read, and what is to become of them.
Prepared(s) ==
  LET me == Me(s)  to == ctx[s].payee  origin == ctx[s].origin  value == ctx[s].value IN
  \/ /\ call[s].kind = "transfer"
     /\ to \in UserIds /\ to # me
     /\ origin[me] # Absent /\ origin[to] # Absent
     /\ origin[me].balance >= call[s].amount
     /\ LockMode = "occ" => origin[to].nickname = call[s].target
     /\ value[me] = [origin[me] EXCEPT !.balance = @ - call[s].amount]
     /\ value[to] = [origin[to] EXCEPT !.balance = @ + call[s].amount]
  \/ /\ call[s].kind = "rename"
     /\ origin[me] # Absent
     /\ value[me] = [origin[me] EXCEPT !.nickname = call[s].target]
  \/ call[s].kind = "delete" /\ value[me] = Absent

\* Where the request of a session is, as its context, its connection and its
\* answer tell.  A row that was written stays as it was read until the commit.
Served(s) ==
  /\ IF pc[s] = "idle" THEN call[s] = NoCall ELSE call[s] \in Calls
  /\ pc[s] \in {"answer", "notify"} <=> reply[s] # "none"
  /\ pc[s] \in {"lookup", "open", "lockLow", "lockHigh"} => LockMode = "updlock"
  /\ pc[s] \in {"lockLow", "lockHigh"} => conn[s].open /\ conn[s].written = {}
  /\ pc[s] \notin {"lockLow", "lockHigh", "flush"} => conn[s] = Autocommit
  /\ pc[s] \notin {"begin", "flush", "answer", "notify"} => ctx[s].value = ctx[s].origin
  /\ pc[s] \in {"begin", "flush"} => Prepared(s)
  /\ pc[s] = "begin" => ctx[s].changes = RowsOf(s)
  /\ pc[s] = "flush" =>
       \/ /\ conn[s].open
          /\ ctx[s].changes \cup conn[s].written = RowsOf(s)
          /\ \A u \in conn[s].written : Matches(s, u)
       \/ /\ conn[s] = Autocommit
          /\ call[s].kind # "transfer"
          /\ ctx[s].changes \in {{}, RowsOf(s)}

BankInv == IndInv /\ \A s \in Sessions : Served(s)

\* What the bank sees of a step of session s.
SeesNothing(s) == UNCHANGED <<users, call>> /\ Settled(s)' = Settled(s)

SeesRequest(s) == /\ call[s] = NoCall
                  /\ \E c \in Calls : call' = [call EXCEPT ![s] = c]
                  /\ users' = users
                  /\ Settled(s)' = Settled(s)

SeesRefusal(s) == /\ call[s] # NoCall
                  /\ Settled(s) = "none" /\ Settled(s)' = "fail"
                  /\ UNCHANGED <<users, call>>

SeesAnswer(s) == /\ Settled(s) # "none" /\ Settled(s)' = "none"
                 /\ call' = [call EXCEPT ![s] = NoCall]
                 /\ users' = users

PaysNow(s) ==
  \E to \in UserIds :
    /\ call[s].kind = "transfer"
    /\ Me(s) # to
    /\ users[Me(s)] # Absent /\ users[to] # Absent
    /\ users[Me(s)].balance >= call[s].amount
    /\ LockMode = "occ" => users[to].nickname = call[s].target
    /\ users' = [users EXCEPT ![Me(s)].balance = @ - call[s].amount,
                              ![to].balance = @ + call[s].amount]

RenamesNow(s) == /\ call[s].kind = "rename"
                 /\ users[Me(s)] # Absent
                 /\ users' = [users EXCEPT ![Me(s)].nickname = call[s].target]

ClosesNow(s) == /\ call[s].kind = "delete"
                /\ users' = [users EXCEPT ![Me(s)] = Absent]

LosesNow(s) == /\ "commit" \in Faults /\ call[s] # NoCall
               /\ users' = users

SeesSuccess(s) == /\ Settled(s) = "none" /\ Settled(s)' = "ok"
                  /\ call' = call
                  /\ PaysNow(s) \/ RenamesNow(s) \/ ClosesNow(s) \/ LosesNow(s)

Outcome(s) == /\ Served(s)'
              /\ \A r \in Sessions \ {s} : reply'[r] = reply[r]
              /\ \/ SeesNothing(s) \/ SeesRequest(s) \/ SeesRefusal(s)
                 \/ SeesAnswer(s) \/ SeesSuccess(s)

-------------------------------------------------------------------------------

\* A request that is neither answered nor flushed is not settled.
LEMMA Unsettled ==
  ASSUME NEW s \in Sessions, Served(s), pc[s] \notin {"answer", "notify"},
         pc[s] = "flush" => conn[s].open \/ ctx[s].changes # {}
  PROVE  Settled(s) = "none" /\ reply[s] = "none"
BY DEF Served, Settled

LEMMA NoCallIsNone ==
  /\ NoCall \notin Calls
  /\ \A c \in Calls : c.kind \in {"transfer", "rename", "delete"}
BY DEF NoCall, Calls

\* A request that fails is refused.
LEMMA FailOutcome ==
  ASSUME IndInv, NEW s \in Sessions, Served(s), Fail(s),
         pc[s] \notin {"idle", "answer", "notify"},
         pc[s] = "flush" => ctx[s].changes # {}
  PROVE  Outcome(s)
<1>0. TypeOK
  BY DEF IndInv
<1>1. /\ pc'[s] = "answer" /\ reply'[s] = "fail" /\ conn'[s] = Autocommit
      /\ UNCHANGED <<users, call>>
      /\ \A r \in Sessions \ {s} : reply'[r] = reply[r]
  BY <1>0 DEF Fail, TypeOK, EndTransaction
<1>2. Settled(s) = "none"
  BY Unsettled
<1>3. Settled(s)' = "fail"
  BY <1>1 DEF Settled
<1>4. call[s] \in Calls /\ call[s] # NoCall
  BY NoCallIsNone DEF Served
<1>5. Served(s)'
  BY <1>1, <1>4 DEF Served
<1>6. QED
  BY <1>1, <1>2, <1>3, <1>4, <1>5 DEF Outcome, SeesRefusal

LEMMA RequestOutcome ==
  ASSUME IndInv, NEW s \in Sessions, Served(s), NEW c \in Calls, Request(s, c)
  PROVE  Outcome(s)
<1>0. TypeOK
  BY DEF IndInv
<1>1. /\ pc[s] = "idle" /\ pc'[s] = FirstStatement(c.kind)
      /\ call' = [call EXCEPT ![s] = c] /\ call'[s] = c
      /\ UNCHANGED <<users, lock, conn, ctx, retry, reply, name>>
  BY <1>0 DEF Request, TypeOK
<1>2. /\ pc'[s] \in {"lookup", "readMe"}
      /\ pc'[s] = "lookup" => LockMode = "updlock"
  BY <1>1 DEF FirstStatement
<1>3. call[s] = NoCall /\ reply[s] = "none" /\ conn[s] = Autocommit
      /\ ctx[s].value = ctx[s].origin
  BY <1>1 DEF Served
<1>4. Served(s)'
  BY <1>1, <1>2, <1>3 DEF Served
<1>5. Settled(s)' = Settled(s)
  BY <1>1, <1>2 DEF Settled
<1>6. QED
  BY <1>1, <1>3, <1>4, <1>5 DEF Outcome, SeesRequest

LEMMA AnswerOutcome ==
  ASSUME IndInv, NEW s \in Sessions, Served(s), Answer(s) \/ NotifyPayee(s)
  PROVE  Outcome(s)
<1>0. TypeOK
  BY DEF IndInv
<1>1. /\ pc[s] \in {"answer", "notify"} /\ reply[s] # "none"
      /\ conn[s] = Autocommit /\ call[s] \in Calls
      /\ UNCHANGED <<users, lock, conn, name>>
  BY DEF Answer, NotifyPayee, Finish, Served
<1>2. CASE /\ pc' = [pc EXCEPT ![s] = "notify"]
           /\ UNCHANGED <<call, ctx, retry, reply>>
  <2>1. pc'[s] = "notify"
    BY <1>0, <1>2 DEF TypeOK
  <2>2. Settled(s)' = Settled(s)
    BY <1>1, <1>2, <2>1 DEF Settled
  <2>3. Served(s)'
    BY <1>1, <1>2, <2>1 DEF Served
  <2>4. QED
    BY <1>1, <1>2, <2>2, <2>3 DEF Outcome, SeesNothing
<1>3. CASE Finish(s)
  <2>1. /\ pc'[s] = "idle" /\ call'[s] = NoCall /\ ctx'[s] = EmptyContext
        /\ reply'[s] = "none" /\ \A r \in Sessions \ {s} : reply'[r] = reply[r]
        /\ call' = [call EXCEPT ![s] = NoCall]
    BY <1>0, <1>3 DEF TypeOK, Finish
  <2>2. Settled(s) # "none" /\ Settled(s)' = "none"
    BY <1>1, <2>1 DEF Settled
  <2>3. EmptyContext.value = EmptyContext.origin
    BY DEF EmptyContext
  <2>4. Served(s)'
    BY <1>1, <2>1, <2>3 DEF Served
  <2>5. QED
    BY <1>1, <2>1, <2>2, <2>4 DEF Outcome, SeesAnswer
<1>4. QED
  BY <1>2, <1>3 DEF Answer, NotifyPayee
-------------------------------------------------------------------------------

\* Loading leaves a context without changes.
LEMMA LoadFresh ==
  ASSUME NEW c \in Context, NEW u \in UserIds, NEW row \in Row \cup {Absent},
         c.value = c.origin
  PROVE  Load(c, u, row).value = Load(c, u, row).origin
<1>1. PICK o, v : o = [c.origin EXCEPT ![u] = row] /\ v = [c.value EXCEPT ![u] = row]
  OBVIOUS
<1>2. c = [origin |-> c.origin, value |-> c.value, changes |-> c.changes,
           payee |-> c.payee]
  BY DEF Context
<1>3. Load(c, u, row) = [c EXCEPT !.origin = o, !.value = v]
  BY <1>1, <1>2 DEF Load
<1>4. Load(c, u, row).origin = o /\ Load(c, u, row).value = v
  BY <1>2, <1>3
<1>5. QED
  BY <1>1, <1>4

\* What the three handlers do to the rows they have loaded.
LEMMA MovedValue ==
  ASSUME NEW s \in Sessions, NEW c \in Context, CanPay(s, c), c.payee \in UserIds
  PROVE  /\ Moved(s, c).value[Me(s)] =
              [c.value[Me(s)] EXCEPT !.balance = @ - call[s].amount]
         /\ Moved(s, c).value[c.payee] =
              [c.value[c.payee] EXCEPT !.balance = @ + call[s].amount]
<1>1. PICK me, to, amount : me = Me(s) /\ to = c.payee /\ amount = call[s].amount
  OBVIOUS
<1>2. me \in UserIds /\ to \in UserIds /\ me # to
  BY <1>1, OwnersAreUsers DEF Me, CanPay
<1>3. PICK v : v = [c.value EXCEPT ![me].balance = @ - amount, ![to].balance = @ + amount]
  OBVIOUS
<1>4. c.value \in [UserIds -> Row \cup {Absent}]
  BY DEF Context
<1>5. v = [c.value EXCEPT ![me] = [c.value[me] EXCEPT !.balance = @ - amount],
                          ![to] = [c.value[to] EXCEPT !.balance = @ + amount]]
  BY <1>2, <1>3, <1>4
<1>6. PICK a, b : /\ a = [c.value[me] EXCEPT !.balance = @ - amount]
                  /\ b = [c.value[to] EXCEPT !.balance = @ + amount]
  OBVIOUS
<1>7. v[me] = a /\ v[to] = b
  BY <1>2, <1>4, <1>5, <1>6
<1>8. c = [origin |-> c.origin, value |-> c.value, changes |-> c.changes,
           payee |-> c.payee]
  BY DEF Context
<1>9. Moved(s, c) = [c EXCEPT !.value = v, !.changes = {me, to}]
  <2> DEFINE w == [c.value EXCEPT ![Me(s)].balance = @ - call[s].amount,
                                  ![c.payee].balance = @ + call[s].amount]
  <2>1. Moved(s, c) = [c EXCEPT !.value = w, !.changes = {Me(s), c.payee}]
    BY <1>8 DEF Moved
  <2>2. w = v
    BY <1>1, <1>3
  <2> HIDE DEF w
  <2>3. QED
    BY <1>1, <2>1, <2>2
<1>10. Moved(s, c).value = v
  BY <1>8, <1>9
<1>11. QED
  BY <1>1, <1>6, <1>7, <1>10

LEMMA RenamedValue ==
  ASSUME NEW c \in Context, NEW u \in UserIds, NEW n
  PROVE  LET d == [c EXCEPT !.value[u].nickname = n, !.changes = {u}] IN
         /\ d.value[u] = [c.value[u] EXCEPT !.nickname = n]
         /\ d.origin = c.origin /\ d.changes = {u}
<1>1. PICK v, one : v = [c.value EXCEPT ![u].nickname = n] /\ one = {u}
  OBVIOUS
<1>2. c.value \in [UserIds -> Row \cup {Absent}]
      /\ c = [origin |-> c.origin, value |-> c.value, changes |-> c.changes,
              payee |-> c.payee]
  BY DEF Context
<1>3. v[u] = [c.value[u] EXCEPT !.nickname = n]
  BY <1>1, <1>2
<1>4. [c EXCEPT !.value[u].nickname = n, !.changes = {u}]
        = [c EXCEPT !.value = v, !.changes = one]
  BY <1>1, <1>2
<1>5. ASSUME NEW d, d = [c EXCEPT !.value = v, !.changes = one]
      PROVE  d.value = v /\ d.origin = c.origin /\ d.changes = one
  BY <1>2, <1>5
<1>6. QED
  BY <1>1, <1>3, <1>4, <1>5

LEMMA ClosedValue ==
  ASSUME NEW c \in Context, NEW u \in UserIds
  PROVE  LET d == [c EXCEPT !.value[u] = Absent, !.changes = {u}] IN
         d.value[u] = Absent /\ d.changes = {u}
<1>1. PICK v, one : v = [c.value EXCEPT ![u] = Absent] /\ one = {u}
  OBVIOUS
<1>2. c.value \in [UserIds -> Row \cup {Absent}]
      /\ c = [origin |-> c.origin, value |-> c.value, changes |-> c.changes,
              payee |-> c.payee]
  BY DEF Context
<1>3. v[u] = Absent
  BY <1>1, <1>2
<1>4. [c EXCEPT !.value[u] = Absent, !.changes = {u}]
        = [c EXCEPT !.value = v, !.changes = one]
  BY <1>1, <1>2
<1>5. ASSUME NEW d, d = [c EXCEPT !.value = v, !.changes = one]
      PROVE  d.value = v /\ d.changes = one
  BY <1>2, <1>5
<1>6. QED
  BY <1>1, <1>3, <1>4, <1>5

LEMMA ReadMeOutcome ==
  ASSUME IndInv, NEW s \in Sessions, Served(s), ReadMe(s)
  PROVE  Outcome(s)
<1>0. TypeOK /\ ctx[s] \in Context /\ pc[s] = "readMe"
  BY DEF IndInv, TypeOK, ReadMe
<1>1. CASE Fail(s)
  BY <1>0, <1>1, FailOutcome
<1>2. CASE ~Fail(s)
  <2>0. PICK u : u = Me(s)
    OBVIOUS
  <2>1. PICK row \in Found(u) :
          \/ /\ call[s].kind = "transfer"
             /\ ctx' = [ctx EXCEPT ![s] = Load(ctx[s], u, row)]
             /\ pc' = [pc EXCEPT ![s] = "readTo"]
          \/ /\ call[s].kind = "rename" /\ row # Absent
             /\ ctx' = [ctx EXCEPT ![s] = [Load(ctx[s], u, row) EXCEPT
                           !.value[u].nickname = call[s].target, !.changes = {u}]]
             /\ pc' = [pc EXCEPT ![s] = "begin"]
          \/ /\ call[s].kind = "delete" /\ row # Absent
             /\ ctx' = [ctx EXCEPT ![s] = [Load(ctx[s], u, row) EXCEPT
                           !.value[u] = Absent, !.changes = {u}]]
             /\ pc' = [pc EXCEPT ![s] = "begin"]
    BY <1>2, <2>0 DEF ReadMe
  <2>2. /\ UNCHANGED <<users, lock, conn, call, retry, reply, name>>
        /\ u \in UserIds /\ reply[s] = "none" /\ conn[s] = Autocommit
        /\ call[s] \in Calls /\ ctx[s].value = ctx[s].origin
    BY <1>0, <1>2, <2>0, OwnersAreUsers DEF ReadMe, Served, Me
  <2>3. row \in Row \cup {Absent}
    BY <1>0, <2>2, FoundType
  <2>4. PICK c : c = Load(ctx[s], u, row)
    OBVIOUS
  <2>5. c \in Context /\ c.value = c.origin /\ c.value[u] = row
    BY <1>0, <2>2, <2>3, <2>4, LoadType, LoadFresh
  <2>6. /\ pc'[s] \in {"readTo", "begin"}
        /\ pc'[s] = "readTo" => ctx'[s].value = ctx'[s].origin
        /\ pc'[s] = "begin" => Prepared(s)' /\ ctx'[s].changes = RowsOf(s)'
    <3>1. CASE call[s].kind = "transfer"
      BY <1>0, <2>1, <2>4, <2>5, <3>1 DEF TypeOK
    <3>2. CASE call[s].kind = "rename"
      <4>1. PICK d : d = [c EXCEPT !.value[u].nickname = call[s].target, !.changes = {u}]
        OBVIOUS
      <4>2. /\ d.value[u] = [c.value[u] EXCEPT !.nickname = call[s].target]
            /\ d.origin = c.origin /\ d.changes = {u}
        BY <2>2, <2>5, <4>1, RenamedValue
      <4>3. ctx'[s] = d /\ pc'[s] = "begin" /\ row # Absent
        BY <1>0, <2>1, <2>4, <3>2, <4>1 DEF TypeOK
      <4>4. QED
        BY <2>0, <2>2, <2>5, <3>2, <4>2, <4>3 DEF Prepared, RowsOf, Me
    <3>3. CASE call[s].kind = "delete"
      <4>1. PICK d : d = [c EXCEPT !.value[u] = Absent, !.changes = {u}]
        OBVIOUS
      <4>2. d.value[u] = Absent /\ d.changes = {u}
        BY <2>2, <2>5, <4>1, ClosedValue
      <4>3. ctx'[s] = d /\ pc'[s] = "begin"
        BY <1>0, <2>1, <2>4, <3>3, <4>1 DEF TypeOK
      <4>4. QED
        BY <2>0, <2>2, <3>3, <4>2, <4>3 DEF Prepared, RowsOf, Me
    <3>4. QED
      BY <2>1, <3>1, <3>2, <3>3
  <2>7. Served(s)'
    BY <2>2, <2>6 DEF Served
  <2>8. Settled(s)' = Settled(s)
    BY <1>0, <2>2, <2>6 DEF Settled
  <2>9. QED
    BY <2>2, <2>7, <2>8 DEF Outcome, SeesNothing
<1>3. QED
  BY <1>1, <1>2

LEMMA ReadToOutcome ==
  ASSUME IndInv, NEW s \in Sessions, Served(s), ReadTo(s)
  PROVE  Outcome(s)
<1>0. TypeOK /\ StageOK(s) /\ LocksOK(s) /\ ctx[s] \in Context /\ pc[s] = "readTo"
  BY DEF IndInv, TypeOK, ReadTo
<1>1. CASE Fail(s)
  BY <1>0, <1>1, FailOutcome
<1>2. CASE ~Fail(s)
  <2>1. PICK u \in UserIds :
          /\ users[u] # Absent /\ users[u].nickname = call[s].target
          /\ CanPay(s, [Load(ctx[s], u, users[u]) EXCEPT !.payee = u])
          /\ ctx' = [ctx EXCEPT ![s] =
                       Moved(s, [Load(ctx[s], u, users[u]) EXCEPT !.payee = u])]
          /\ pc' = [pc EXCEPT ![s] = "begin"]
          /\ UNCHANGED <<users, lock, conn, call, retry, reply, name>>
    BY <1>2 DEF ReadTo, Named
  <2>2. PICK c : c = [Load(ctx[s], u, users[u]) EXCEPT !.payee = u]
    OBVIOUS
  <2>3. /\ c \in Context /\ c.payee = u /\ c.value = c.origin /\ c.value[u] = users[u]
    <3>1. PICK l : l = Load(ctx[s], u, users[u])
      OBVIOUS
    <3>2. users[u] \in Row \cup {Absent} /\ ctx[s].value = ctx[s].origin
      BY <1>0 DEF TypeOK, Served
    <3>3. l \in Context /\ l.value = l.origin /\ l.value[u] = users[u]
      BY <1>0, <3>1, <3>2, LoadType, LoadFresh
    <3>4. QED
      BY <2>2, <3>1, <3>3, PayeeType
  <2>4. /\ call[s].kind = "transfer" /\ call[s].amount \in Nat /\ call[s] \in Calls
        /\ reply[s] = "none" /\ conn[s] = Autocommit
    BY <1>0, CallTypes DEF StageOK, Served
  <2>5. PICK d : d = Moved(s, c)
    OBVIOUS
  <2>6. CanPay(s, c)
    BY <2>1, <2>2
  <2>7. /\ d.changes = {Me(s), u} /\ d.payee = u /\ d.origin = c.origin
    BY <2>3, <2>4, <2>5, <2>6, MovedType
  <2>8. /\ d.value[Me(s)] = [c.value[Me(s)] EXCEPT !.balance = @ - call[s].amount]
        /\ d.value[u] = [c.value[u] EXCEPT !.balance = @ + call[s].amount]
    BY <2>3, <2>5, <2>6, MovedValue
  <2>9. ctx'[s] = d /\ pc'[s] = "begin"
    BY <1>0, <2>1, <2>2, <2>5 DEF TypeOK
  <2>10. /\ c.value[Me(s)] # Absent /\ c.value[u] # Absent /\ u # Me(s)
         /\ c.value[Me(s)].balance >= call[s].amount
    BY <2>3, <2>6 DEF CanPay
  <2>11. Prepared(s)' /\ ctx'[s].changes = RowsOf(s)'
    <3>1. Me(s)' = Me(s) /\ call' = call
      BY <2>1 DEF Me
    <3>2. ctx'[s].changes = RowsOf(s)'
      BY <2>4, <2>7, <2>9, <3>1 DEF RowsOf
    <3>3. Prepared(s)'
      BY <2>1, <2>3, <2>4, <2>7, <2>8, <2>9, <2>10, <3>1 DEF Prepared
    <3>4. QED
      BY <3>2, <3>3
  <2>12. Served(s)'
    BY <2>1, <2>4, <2>9, <2>11 DEF Served
  <2>13. Settled(s)' = Settled(s)
    BY <1>0, <2>1, <2>9 DEF Settled
  <2>14. QED
    BY <2>1, <2>12, <2>13 DEF Outcome, SeesNothing
<1>3. QED
  BY <1>1, <1>2

LEMMA LookupOutcome ==
  ASSUME IndInv, NEW s \in Sessions, Served(s), Lookup(s)
  PROVE  Outcome(s)
<1>0. TypeOK /\ ctx[s] \in Context /\ pc[s] = "lookup"
  BY DEF IndInv, TypeOK, Lookup
<1>1. CASE Fail(s)
  BY <1>0, <1>1, FailOutcome
<1>2. CASE ~Fail(s)
  <2>1. PICK u \in UserIds :
          /\ ctx' = [ctx EXCEPT ![s].payee = u]
          /\ pc' = [pc EXCEPT ![s] = "open"]
          /\ UNCHANGED <<users, lock, conn, call, retry, reply, name>>
    BY <1>2 DEF Lookup, Named
  <2>2. PICK d : d = [ctx[s] EXCEPT !.payee = u]
    OBVIOUS
  <2>3. d.value = ctx[s].value /\ d.origin = ctx[s].origin
    BY <1>0, <2>2, PayeeType
  <2>4. ctx'[s] = d /\ pc'[s] = "open"
    BY <1>0, <2>1, <2>2 DEF TypeOK
  <2>5. Served(s)'
    BY <1>0, <2>1, <2>3, <2>4 DEF Served
  <2>6. Settled(s)' = Settled(s)
    BY <1>0, <2>1, <2>4 DEF Settled
  <2>7. QED
    BY <2>1, <2>5, <2>6 DEF Outcome, SeesNothing
<1>3. QED
  BY <1>1, <1>2

LEMMA OpenTransactionOutcome ==
  ASSUME IndInv, NEW s \in Sessions, Served(s), OpenTransaction(s)
  PROVE  Outcome(s)
<1>0. TypeOK /\ pc[s] = "open" /\ conn[s] = Autocommit
  BY DEF IndInv, OpenTransaction, Served
<1>1. CASE Fail(s)
  BY <1>0, <1>1, FailOutcome
<1>2. CASE ~Fail(s)
  <2>1. /\ conn' = [conn EXCEPT ![s].open = TRUE]
        /\ pc' = [pc EXCEPT ![s] = "lockLow"]
        /\ UNCHANGED <<users, lock, call, ctx, retry, reply, name>>
    BY <1>2 DEF OpenTransaction
  <2>2. pc'[s] = "lockLow" /\ conn'[s].open /\ conn'[s].written = {}
    BY <1>0, <2>1 DEF TypeOK, Autocommit
  <2>3. Served(s)'
    BY <1>0, <2>1, <2>2 DEF Served
  <2>4. Settled(s)' = Settled(s)
    BY <1>0, <2>1, <2>2 DEF Settled
  <2>5. QED
    BY <2>1, <2>3, <2>4 DEF Outcome, SeesNothing
<1>3. QED
  BY <1>1, <1>2

LEMMA LockLowOutcome ==
  ASSUME IndInv, NEW s \in Sessions, Served(s), LockLow(s)
  PROVE  Outcome(s)
<1>0. TypeOK /\ StageOK(s) /\ ctx[s] \in Context
  BY DEF IndInv, TypeOK
<1>1. PICK u : u = LowId(s)
  OBVIOUS
<1>2. PICK row \in Found(u) : ctx' = [ctx EXCEPT ![s] = Load(ctx[s], u, row)]
  BY <1>0, <1>1 DEF LockLow, TypeOK
<1>3. /\ pc[s] = "lockLow" /\ pc' = [pc EXCEPT ![s] = "lockHigh"]
      /\ UNCHANGED <<users, conn, call, retry, reply, name>>
  BY DEF LockLow
<1>4. u \in UserIds
  BY <1>0, <1>1, <1>3, Ordered, OwnersAreUsers DEF StageOK, Me
<1>5. PICK d : d = Load(ctx[s], u, row)
  OBVIOUS
<1>6. d.value = d.origin
  <2>1. row \in Row \cup {Absent}
    BY <1>0, <1>4, FoundType
  <2>2. ctx[s].value = ctx[s].origin
    BY <1>3 DEF Served
  <2>3. QED
    BY <1>0, <1>4, <1>5, <2>1, <2>2, LoadFresh
<1>7. ctx'[s] = d /\ pc'[s] = "lockHigh"
  BY <1>0, <1>2, <1>3, <1>5 DEF TypeOK
<1>8. Served(s)'
  BY <1>3, <1>6, <1>7 DEF Served
<1>9. Settled(s)' = Settled(s)
  BY <1>3, <1>7 DEF Settled
<1>10. QED
  BY <1>3, <1>8, <1>9 DEF Outcome, SeesNothing

LEMMA LockHighOutcome ==
  ASSUME IndInv, NEW s \in Sessions, Served(s), LockHigh(s)
  PROVE  Outcome(s)
<1>0. TypeOK /\ StageOK(s) /\ ctx[s] \in Context /\ pc[s] = "lockHigh"
  BY DEF IndInv, TypeOK, LockHigh
<1>1. CASE Fail(s)
  BY <1>0, <1>1, FailOutcome
<1>2. CASE ~Fail(s)
  <2>0. PICK u : u = HighId(s)
    OBVIOUS
  <2>1. PICK row \in Found(u) :
          /\ CanPay(s, Load(ctx[s], u, row))
          /\ ctx' = [ctx EXCEPT ![s] = Moved(s, Load(ctx[s], u, row))]
          /\ pc' = [pc EXCEPT ![s] = "flush"]
          /\ UNCHANGED <<users, conn, call, retry, reply, name>>
    BY <1>2, <2>0 DEF LockHigh
  <2>2. PICK c : c = Load(ctx[s], u, row)
    OBVIOUS
  <2>3. PICK me, to : me = Me(s) /\ to = ctx[s].payee
    OBVIOUS
  <2>4. /\ me \in UserIds /\ to \in UserIds /\ to # me /\ u \in UserIds
        /\ call[s].kind = "transfer" /\ call[s].amount \in Nat /\ call[s] \in Calls
        /\ reply[s] = "none" /\ conn[s].open /\ conn[s].written = {}
        /\ LockMode = "updlock" /\ ctx[s].value = ctx[s].origin
    BY <1>0, <2>0, <2>3, CallTypes, Ordered, OwnersAreUsers DEF StageOK, Served, Me
  <2>5. c \in Context /\ c.payee = to /\ c.value = c.origin
    <3>1. row \in Row \cup {Absent}
      BY <1>0, <2>4, FoundType
    <3>2. QED
      BY <1>0, <2>2, <2>3, <2>4, <3>1, LoadType, LoadFresh
  <2>6. CanPay(s, c)
    BY <2>1, <2>2
  <2>7. PICK d : d = Moved(s, c)
    OBVIOUS
  <2>8. d.changes = {me, to} /\ d.payee = to /\ d.origin = c.origin
    BY <2>3, <2>4, <2>5, <2>6, <2>7, MovedType
  <2>9. /\ d.value[me] = [c.value[me] EXCEPT !.balance = @ - call[s].amount]
        /\ d.value[to] = [c.value[to] EXCEPT !.balance = @ + call[s].amount]
    BY <2>3, <2>4, <2>5, <2>6, <2>7, MovedValue
  <2>10. ctx'[s] = d /\ pc'[s] = "flush"
    BY <1>0, <2>1, <2>2, <2>7 DEF TypeOK
  <2>11. /\ c.value[me] # Absent /\ c.value[to] # Absent
         /\ c.value[me].balance >= call[s].amount
    BY <2>3, <2>5, <2>6 DEF CanPay
  <2>12. Me(s)' = me /\ call' = call /\ conn' = conn
    BY <2>1, <2>3 DEF Me
  <2>13. Prepared(s)'
    BY <2>4, <2>5, <2>8, <2>9, <2>10, <2>11, <2>12, ModesAndFaults DEF Prepared
  <2>14. RowsOf(s)' = {me, to}
    BY <2>4, <2>8, <2>10, <2>12 DEF RowsOf
  <2>15. Served(s)'
    BY <2>1, <2>4, <2>8, <2>10, <2>13, <2>14 DEF Served
  <2>16. Settled(s)' = Settled(s)
    BY <1>0, <2>1, <2>4, <2>10 DEF Settled
  <2>17. QED
    BY <2>1, <2>15, <2>16 DEF Outcome, SeesNothing
<1>3. QED
  BY <1>1, <1>2

\* Begin leaves a transaction open, or the one statement of a renaming or a
\* closing in autocommit mode.
LEMMA BeginOutcome ==
  ASSUME IndInv, NEW s \in Sessions, Served(s), Begin(s), TransfersAreAtomic
  PROVE  Outcome(s)
<1>0. TypeOK /\ LocksOK(s)
  BY DEF IndInv
<1>1. /\ pc[s] = "begin" /\ pc' = [pc EXCEPT ![s] = "flush"]
      /\ UNCHANGED <<users, lock, call, ctx, retry, reply, name>>
  BY DEF Begin
<1>2. pc'[s] = "flush" /\ conn[s] = Autocommit /\ reply[s] = "none" /\ call[s] \in Calls
  BY <1>0, <1>1 DEF TypeOK, Served
<1>3. \/ conn'[s].open /\ conn'[s].written = {}
      \/ conn'[s] = Autocommit /\ call[s].kind # "transfer"
  <2>1. CASE conn' = [conn EXCEPT ![s].open = TRUE]
    BY <1>0, <1>2, <2>1 DEF TypeOK, Autocommit
  <2>2. CASE "begin" \in Faults /\ UNCHANGED conn
    BY <1>0, <1>1, <1>2, <2>2 DEF LocksOK, TransfersAreAtomic
  <2>3. QED
    BY <2>1, <2>2 DEF Begin
<1>4. Prepared(s)' = Prepared(s) /\ RowsOf(s)' = RowsOf(s)
  BY <1>1 DEF Prepared, RowsOf, Me
<1>5. ctx[s].changes = RowsOf(s) /\ ctx[s].changes # {} /\ Prepared(s)
  BY <1>1 DEF Served, RowsOf
<1>6. Served(s)'
  BY <1>1, <1>2, <1>3, <1>4, <1>5 DEF Served
<1>7. Settled(s)' = Settled(s)
  BY <1>1, <1>2, <1>5 DEF Settled
<1>8. QED
  BY <1>1, <1>6, <1>7 DEF Outcome, SeesNothing
-------------------------------------------------------------------------------

\* A payment and a renaming leave rows where they found rows, so that the
\* UPDATE of each compares it with what was read.
LEMMA PreparedRows ==
  ASSUME TypeOK, NEW s \in Sessions, Prepared(s)
  PROVE  /\ call[s].kind = "transfer" =>
              ctx[s].value[Me(s)] # Absent /\ ctx[s].value[ctx[s].payee] # Absent
         /\ call[s].kind = "rename" => ctx[s].value[Me(s)] # Absent
<1>1. PICK me, to : me = Me(s) /\ to = ctx[s].payee
  OBVIOUS
<1>2. PICK origin, value : origin = ctx[s].origin /\ value = ctx[s].value
  OBVIOUS
<1>3. me \in UserIds /\ origin \in [UserIds -> Row \cup {Absent}]
  BY <1>1, <1>2, OwnersAreUsers DEF TypeOK, Context, Me
<1>4. ASSUME call[s].kind = "transfer"
      PROVE  value[me] # Absent /\ value[to] # Absent
  <2>1. PICK amount : amount = call[s].amount
    OBVIOUS
  <2>2. /\ to \in UserIds /\ origin[me] # Absent /\ origin[to] # Absent
        /\ origin[me].balance >= amount /\ amount \in Nat
        /\ value[me] = [origin[me] EXCEPT !.balance = @ - amount]
        /\ value[to] = [origin[to] EXCEPT !.balance = @ + amount]
    BY <1>1, <1>2, <1>4, <2>1, CallTypes DEF Prepared
  <2>3. origin[me] \in Row /\ origin[to] \in Row
    BY <1>3, <2>2
  <2>4. value[me] \in Row /\ value[to] \in Row
    BY <2>2, <2>3 DEF Row
  <2>5. QED
    BY <2>4, AbsentIsNoRow
<1>5. ASSUME call[s].kind = "rename"
      PROVE  value[me] # Absent
  <2>1. /\ origin[me] # Absent /\ call[s].target \in Nicknames
        /\ value[me] = [origin[me] EXCEPT !.nickname = call[s].target]
    BY <1>1, <1>2, <1>5, CallTypes DEF Prepared
  <2>2. value[me] \in Row
    BY <1>3, <2>1 DEF Row
  <2>3. QED
    BY <2>2, AbsentIsNoRow
<1>6. QED
  BY <1>1, <1>2, <1>4, <1>5

\* A renaming or a closing that writes its row in autocommit mode is done.
LEMMA AutocommitRow ==
  ASSUME TypeOK, NEW s \in Sessions, Prepared(s), call[s].kind # "transfer",
         Matches(s, Me(s)), users' = [users EXCEPT ![Me(s)] = ctx[s].value[Me(s)]]
  PROVE  RenamesNow(s) \/ ClosesNow(s)
<1>1. PICK me : me = Me(s)
  OBVIOUS
<1>2. me \in UserIds /\ users \in [UserIds -> Row \cup {Absent}]
  BY <1>1, OwnersAreUsers DEF TypeOK, Me
<1>3. CASE call[s].kind = "rename"
  <2>1. /\ ctx[s].origin[me] # Absent
        /\ ctx[s].value[me] = [ctx[s].origin[me] EXCEPT !.nickname = call[s].target]
    BY <1>1, <1>3 DEF Prepared
  <2>2. users[me] = ctx[s].origin[me]
    BY <1>1, <1>3, PreparedRows DEF Matches
  <2>3. users' = [users EXCEPT ![me] = [users[me] EXCEPT !.nickname = call[s].target]]
    BY <1>1, <2>1, <2>2
  <2>4. users' = [users EXCEPT ![me].nickname = call[s].target]
    BY <1>2, <2>3
  <2>5. QED
    BY <1>1, <1>3, <2>1, <2>2, <2>4 DEF RenamesNow
<1>4. CASE call[s].kind = "delete"
  <2>1. ctx[s].value[me] = Absent
    BY <1>1, <1>4 DEF Prepared
  <2>2. QED
    BY <1>1, <1>4, <2>1 DEF ClosesNow
<1>5. QED
  BY <1>3, <1>4 DEF Prepared

LEMMA FlushRowOutcome ==
  ASSUME IndInv, NEW s \in Sessions, Served(s), FlushRow(s)
  PROVE  Outcome(s)
<1>0. TypeOK /\ ctx[s] \in Context
  BY DEF IndInv, TypeOK
<1>1. PICK u : u = NextChange(s)
  OBVIOUS
<1>2. /\ pc[s] = "flush" /\ ctx[s].changes # {} /\ Matches(s, u)
      /\ ctx' = [ctx EXCEPT ![s].changes = @ \ {u}]
      /\ UNCHANGED <<pc, call, retry, reply, name>>
  BY <1>1 DEF FlushRow
<1>3. u \in ctx[s].changes /\ u \in UserIds
  BY <1>1, <1>2, NextChangeIsLeast
<1>4. /\ ctx'[s].changes = ctx[s].changes \ {u} /\ ctx'[s].payee = ctx[s].payee
      /\ ctx'[s].origin = ctx[s].origin /\ ctx'[s].value = ctx[s].value
  BY <1>0, <1>2 DEF TypeOK, Context
<1>5. /\ Prepared(s) /\ Prepared(s)' = Prepared(s) /\ RowsOf(s)' = RowsOf(s)
      /\ call[s] \in Calls /\ reply[s] = "none"
  BY <1>2, <1>4 DEF Prepared, RowsOf, Me, Served
<1>6. Settled(s) = "none"
  BY <1>2, <1>5 DEF Settled
<1>7. CASE conn[s].open
  <2>1. conn' = [conn EXCEPT ![s].written = @ \cup {u}] /\ users' = users
    BY <1>1, <1>7 DEF FlushRow
  <2>2. conn'[s].open /\ conn'[s].written = conn[s].written \cup {u}
    BY <1>0, <1>7, <2>1 DEF TypeOK
  <2>3. /\ ctx[s].changes \cup conn[s].written = RowsOf(s)
        /\ \A x \in conn[s].written : Matches(s, x)
    BY <1>2, <1>7 DEF Served, Autocommit
  <2>4. ctx'[s].changes \cup conn'[s].written = RowsOf(s)'
    BY <1>3, <1>4, <1>5, <2>2, <2>3
  <2>5. \A x \in conn'[s].written : Matches(s, x)'
    <3>1. ASSUME NEW x \in conn'[s].written
          PROVE  (ctx[s].value[x] = Absent \/ users[x] = ctx[s].origin[x])'
      BY <1>2, <1>4, <2>1, <2>2, <2>3 DEF Matches
    <3>2. QED
      BY <3>1 DEF Matches
  <2>6. Served(s)'
    BY <1>2, <1>5, <2>2, <2>4, <2>5 DEF Served
  <2>7. Settled(s)' = "none"
    BY <1>2, <1>5, <2>2 DEF Settled
  <2>8. QED
    BY <1>2, <1>6, <2>1, <2>6, <2>7 DEF Outcome, SeesNothing
<1>8. CASE ~conn[s].open
  <2>1. users' = [users EXCEPT ![u] = ctx[s].value[u]] /\ conn' = conn
    BY <1>1, <1>8 DEF FlushRow
  <2>2. /\ conn[s] = Autocommit /\ call[s].kind # "transfer"
        /\ ctx[s].changes = {Me(s)} /\ RowsOf(s) = {Me(s)}
    BY <1>2, <1>8 DEF Served, RowsOf
  <2>3. u = Me(s) /\ ctx'[s].changes = {}
    BY <1>3, <1>4, <2>2
  <2>4. RenamesNow(s) \/ ClosesNow(s)
    BY <1>0, <1>2, <1>5, <2>1, <2>2, <2>3, AutocommitRow
  <2>5. Served(s)'
    BY <1>2, <1>5, <2>1, <2>2, <2>3 DEF Served
  <2>6. Settled(s)' = "ok"
    BY <1>2, <2>1, <2>2, <2>3 DEF Settled, Autocommit
  <2>7. QED
    BY <1>2, <1>6, <2>4, <2>5, <2>6 DEF Outcome, SeesSuccess
<1>9. QED
  BY <1>7, <1>8

LEMMA FlushConflictOutcome ==
  ASSUME IndInv, NEW s \in Sessions, Served(s), FlushConflict(s)
  PROVE  Outcome(s)
<1>0. TypeOK /\ pc[s] = "flush" /\ ctx[s].changes # {}
  BY DEF IndInv, FlushConflict
<1>1. CASE Fail(s)
  BY <1>0, <1>1, FailOutcome
<1>2. CASE ~Fail(s)
  <2>1. /\ EndTransaction(s)
        /\ ctx' = [ctx EXCEPT ![s] = EmptyContext]
        /\ pc' = [pc EXCEPT ![s] = FirstStatement("transfer")]
        /\ UNCHANGED <<users, call, reply, name>>
    BY <1>2 DEF FlushConflict
  <2>2. /\ FirstStatement("transfer") \in {"lookup", "readMe"}
        /\ FirstStatement("transfer") = "lookup" => LockMode = "updlock"
    BY DEF FirstStatement
  <2>3. /\ pc'[s] = FirstStatement("transfer") /\ ctx'[s] = EmptyContext
        /\ conn'[s] = Autocommit
    BY <1>0, <2>1 DEF TypeOK, EndTransaction
  <2>4. reply[s] = "none" /\ call[s] \in Calls /\ Settled(s) = "none"
    BY <1>0 DEF Served, Settled
  <2>5. EmptyContext.value = EmptyContext.origin
    BY DEF EmptyContext
  <2>6. Served(s)'
    BY <2>1, <2>2, <2>3, <2>4, <2>5 DEF Served
  <2>7. Settled(s)' = "none"
    BY <2>1, <2>2, <2>3, <2>4 DEF Settled
  <2>8. QED
    BY <2>1, <2>4, <2>6, <2>7 DEF Outcome, SeesNothing
<1>3. QED
  BY <1>1, <1>2

LEMMA StatementFailsOutcome ==
  ASSUME IndInv, NEW s \in Sessions, Served(s), StatementFails(s)
  PROVE  Outcome(s)
BY FailOutcome DEF StatementFails

\* The commit of a transaction makes the change it stands for, all of it.
LEMMA CommittedRows ==
  ASSUME TypeOK, NEW s \in Sessions, Prepared(s), call[s] \in Calls,
         \A u \in RowsOf(s) : Matches(s, u),
         users' = [u \in UserIds |-> IF u \in RowsOf(s)
                                     THEN ctx[s].value[u] ELSE users[u]]
  PROVE  PaysNow(s) \/ RenamesNow(s) \/ ClosesNow(s)
<1>1. PICK me, to : me = Me(s) /\ to = ctx[s].payee
  OBVIOUS
<1>2. me \in UserIds /\ users \in [UserIds -> Row \cup {Absent}]
  BY <1>1, OwnersAreUsers DEF TypeOK, Me
<1>3. CASE call[s].kind = "transfer"
  <2>1. PICK amount : amount = call[s].amount
    OBVIOUS
  <2>2. /\ to \in UserIds /\ to # me
        /\ ctx[s].origin[me] # Absent /\ ctx[s].origin[to] # Absent
        /\ ctx[s].origin[me].balance >= amount
        /\ LockMode = "occ" => ctx[s].origin[to].nickname = call[s].target
        /\ ctx[s].value[me] = [ctx[s].origin[me] EXCEPT !.balance = @ - amount]
        /\ ctx[s].value[to] = [ctx[s].origin[to] EXCEPT !.balance = @ + amount]
    BY <1>1, <1>3, <2>1 DEF Prepared
  <2>3. RowsOf(s) = {me, to}
    BY <1>1, <1>3 DEF RowsOf
  <2>4. users[me] = ctx[s].origin[me] /\ users[to] = ctx[s].origin[to]
    BY <1>1, <1>3, <2>3, PreparedRows DEF Matches
  <2>5. PICK a, b : /\ a = [users[me] EXCEPT !.balance = @ - amount]
                    /\ b = [users[to] EXCEPT !.balance = @ + amount]
    OBVIOUS
  <2>6. users' = [users EXCEPT ![me] = a, ![to] = b]
    <3>1. ctx[s].value[me] = a /\ ctx[s].value[to] = b
      BY <2>2, <2>4, <2>5
    <3>2. users' = [u \in UserIds |-> IF u \in {me, to} THEN ctx[s].value[u] ELSE users[u]]
      BY <2>3
    <3>3. QED
      BY <1>2, <2>2, <3>1, <3>2
  <2>7. users' = [users EXCEPT ![me].balance = @ - amount, ![to].balance = @ + amount]
    BY <1>2, <2>2, <2>5, <2>6
  <2>8. PaysNow(s)
    BY <1>1, <1>3, <2>1, <2>2, <2>4, <2>7 DEF PaysNow
  <2>9. QED
    BY <2>8
<1>4. CASE call[s].kind # "transfer"
  <2>1. RowsOf(s) = {me}
    BY <1>1, <1>4 DEF RowsOf
  <2>2. users' = [users EXCEPT ![me] = ctx[s].value[me]]
    BY <1>2, <2>1
  <2>3. QED
    BY <1>1, <1>4, <2>1, <2>2, AutocommitRow
<1>5. QED
  BY <1>3, <1>4

LEMMA CommitOutcome ==
  ASSUME IndInv, NEW s \in Sessions, Served(s), Commit(s)
  PROVE  Outcome(s)
<1>0. TypeOK
  BY DEF IndInv
<1>1. /\ pc[s] = "flush" /\ ctx[s].changes = {} /\ EndTransaction(s)
      /\ reply' = [reply EXCEPT ![s] = "ok"] /\ pc' = [pc EXCEPT ![s] = "answer"]
      /\ UNCHANGED <<call, ctx>>
  BY DEF Commit
<1>2. \/ users' = [u \in UserIds |-> IF u \in conn[s].written
                                     THEN ctx[s].value[u] ELSE users[u]]
      \/ "commit" \in Faults /\ users' = users
  BY DEF Commit
<1>3. /\ pc'[s] = "answer" /\ reply'[s] = "ok" /\ conn'[s] = Autocommit
      /\ \A r \in Sessions \ {s} : reply'[r] = reply[r]
  BY <1>0, <1>1 DEF TypeOK, EndTransaction
<1>4. Prepared(s) /\ call[s] \in Calls /\ call[s] # NoCall /\ reply[s] = "none"
  BY <1>1, NoCallIsNone DEF Served
<1>5. Served(s)'
  BY <1>1, <1>3, <1>4 DEF Served
<1>6. Settled(s)' = "ok"
  BY <1>3 DEF Settled
<1>7. CASE conn[s].open
  <2>1. /\ conn[s].written = RowsOf(s)
        /\ \A u \in RowsOf(s) : Matches(s, u)
    BY <1>1, <1>7 DEF Served, Autocommit
  <2>2. PaysNow(s) \/ RenamesNow(s) \/ ClosesNow(s) \/ LosesNow(s)
    <3>1. CASE "commit" \in Faults /\ users' = users
      BY <1>4, <3>1 DEF LosesNow
    <3>2. CASE users' = [u \in UserIds |-> IF u \in conn[s].written
                                           THEN ctx[s].value[u] ELSE users[u]]
      BY <1>0, <1>4, <2>1, <3>2, CommittedRows
    <3>3. QED
      BY <1>2, <3>1, <3>2
  <2>3. Settled(s) = "none"
    BY <1>4, <1>7 DEF Settled
  <2>4. QED
    BY <1>1, <1>3, <1>5, <1>6, <2>2, <2>3 DEF Outcome, SeesSuccess
<1>8. CASE ~conn[s].open
  <2>1. conn[s].written = {}
    BY <1>1, <1>8 DEF Served, Autocommit
  <2>2. users' = users
    <3>1. users = [u \in UserIds |-> users[u]]
      BY <1>0 DEF TypeOK
    <3>2. QED
      BY <1>2, <2>1, <3>1
  <2>3. Settled(s) = "ok"
    BY <1>1, <1>8 DEF Settled
  <2>4. QED
    BY <1>1, <1>3, <1>5, <1>6, <2>2, <2>3 DEF Outcome, SeesNothing
<1>9. QED
  BY <1>7, <1>8
-------------------------------------------------------------------------------

\* The other sessions are served as before: their rows are locked.
LEMMA OthersServed ==
  ASSUME BankInv, NEW s \in Sessions, Private(s), NEW r \in Sessions, r # s,
         reply'[r] = reply[r]
  PROVE  Served(r)' /\ Settled(r)' = Settled(r)
<1>1. /\ pc'[r] = pc[r] /\ call'[r] = call[r] /\ ctx'[r] = ctx[r] /\ conn'[r] = conn[r]
      /\ \A u \in UserIds : lock[u] = r => users'[u] = users[u]
  BY DEF Private
<1>2. Served(r) /\ LocksOK(r)
  BY DEF BankInv, IndInv
<1>3. \A u \in conn[r].written : Matches(r, u)' = Matches(r, u)
  BY <1>1, <1>2 DEF LocksOK, HeldBy, Matches
<1>4. Prepared(r)' = Prepared(r) /\ RowsOf(r)' = RowsOf(r)
  BY <1>1 DEF Prepared, RowsOf, Me
<1>5. Served(r)'
  BY <1>1, <1>2, <1>3, <1>4 DEF Served
<1>6. Settled(r)' = Settled(r)
  BY <1>1 DEF Settled
<1>7. QED
  BY <1>5, <1>6

\* What a step of session s is to the bank.
LEMMA SessionOutcome ==
  ASSUME BankInv, TransfersAreAtomic, NEW s \in Sessions,
         HandlerStep(s) \/ \E c \in Calls : Request(s, c)
  PROVE  /\ Result(s) /\ Outcome(s)
         /\ \A r \in Sessions \ {s} : Served(r)' /\ Settled(r)' = Settled(r)
<1>1. IndInv /\ Served(s)
  BY DEF BankInv
<1>2. Result(s)
  BY <1>1, RequestStep, AnswerStep, ReadMeStep, ReadToStep, LookupStep,
     OpenTransactionStep, LockLowStep, LockHighStep, BeginStep, FlushRowStep,
     FlushConflictStep, CommitStep, FailStep DEF HandlerStep, StatementFails
<1>3. Outcome(s)
  BY <1>1, RequestOutcome, AnswerOutcome, ReadMeOutcome, ReadToOutcome, LookupOutcome,
     OpenTransactionOutcome, LockLowOutcome, LockHighOutcome, BeginOutcome,
     FlushRowOutcome, FlushConflictOutcome, CommitOutcome, StatementFailsOutcome
     DEF HandlerStep
<1>4. \A r \in Sessions \ {s} : Served(r)' /\ Settled(r)' = Settled(r)
  BY <1>2, <1>3, OthersServed DEF Result, Outcome
<1>5. QED
  BY <1>2, <1>3, <1>4

LEMMA InitBankInv == Init => BankInv
<1> SUFFICES ASSUME Init PROVE BankInv
  OBVIOUS
<1>1. ASSUME NEW s \in Sessions PROVE Served(s)
  BY DEF Init, Served, EmptyContext
<1>2. QED
  BY <1>1, InitIndInv DEF BankInv

LEMMA BankInvNext == TransfersAreAtomic /\ BankInv /\ [Next]_vars => BankInv'
<1> SUFFICES ASSUME TransfersAreAtomic, BankInv, [Next]_vars PROVE BankInv'
  OBVIOUS
<1>1. IndInv'
  BY IndInvNext DEF BankInv
<1>2. CASE UNCHANGED vars
  <2>1. ASSUME NEW s \in Sessions PROVE Served(s)'
    <3>1. Served(s)
      BY DEF BankInv
    <3>2. /\ Prepared(s)' = Prepared(s) /\ RowsOf(s)' = RowsOf(s)
          /\ \A u \in conn[s].written : Matches(s, u)' = Matches(s, u)
      BY <1>2 DEF vars, Prepared, RowsOf, Matches, Me
    <3>3. QED
      BY <1>2, <3>1, <3>2 DEF vars, Served
  <2>2. QED
    BY <1>1, <2>1 DEF BankInv
<1>3. ASSUME NEW s \in Sessions, HandlerStep(s) \/ \E c \in Calls : Request(s, c)
      PROVE  BankInv'
  <2>1. Served(s)' /\ \A r \in Sessions \ {s} : Served(r)'
    BY <1>3, SessionOutcome DEF Outcome
  <2>2. QED
    BY <1>1, <2>1 DEF BankInv
<1>4. QED
  BY <1>2, <1>3 DEF Next

\* The initial states agree.
LEMMA BankInit == Init => Accounts!Init
<1> SUFFICES ASSUME Init PROVE Accounts!Init
  OBVIOUS
<1>1. users \in [UserIds -> [nickname : Nicknames, balance : Nat]]
  BY FirstNamesAreNames, NumbersAreNat DEF Init
<1>2. \A s \in Sessions : Settled(s) = "none"
  BY DEF Init, Settled
<1>3. QED
  BY <1>1, <1>2 DEF Init, Accounts!Init

\* Every step of the code is a step of the bank, or leaves it alone.
LEMMA BankStep ==
  TransfersAreAtomic /\ BankInv /\ [Next]_vars => [Accounts!Next]_Accounts!vars
<1> SUFFICES ASSUME TransfersAreAtomic, BankInv, [Next]_vars
             PROVE  [Accounts!Next]_Accounts!vars
  OBVIOUS
<1>1. CASE UNCHANGED vars
  <2>1. \A s \in Sessions : Settled(s)' = Settled(s)
    BY <1>1 DEF vars, Settled
  <2>2. [s \in Sessions |-> Settled(s)'] = [s \in Sessions |-> Settled(s)]
    BY <2>1
  <2>3. QED
    BY <1>1, <2>2 DEF vars, Accounts!vars
<1>2. ASSUME NEW s \in Sessions, HandlerStep(s) \/ \E c \in Calls : Request(s, c)
      PROVE  [Accounts!Next]_Accounts!vars
  <2>1. Outcome(s) /\ \A r \in Sessions \ {s} : Settled(r)' = Settled(r)
    BY <1>2, SessionOutcome
  <2>2. ASSUME NEW v, Settled(s)' = v
        PROVE  [r \in Sessions |-> Settled(r)'] =
                 [[r \in Sessions |-> Settled(r)] EXCEPT ![s] = v]
    BY <2>1, <2>2
  <2>3. [r \in Sessions |-> Settled(r)][s] = Settled(s)
    OBVIOUS
  <2>4. ASSUME Settled(s)' = Settled(s)
        PROVE  [r \in Sessions |-> Settled(r)'] = [r \in Sessions |-> Settled(r)]
    BY <2>1, <2>4
  <2>5. CASE SeesNothing(s)
    BY <2>4, <2>5 DEF SeesNothing, Accounts!vars
  <2>6. CASE SeesRequest(s)
    <3>1. PICK c \in Calls : call[s] = NoCall /\ call' = [call EXCEPT ![s] = c]
      BY <2>6 DEF SeesRequest
    <3>2. Accounts!Ask(s, c)
      BY <2>4, <2>6, <3>1 DEF SeesRequest, Accounts!Ask
    <3>3. QED
      BY <3>2 DEF Accounts!Next
  <2>7. CASE SeesRefusal(s)
    <3>1. Accounts!Refuse(s)
      BY <2>2, <2>3, <2>7 DEF SeesRefusal, Accounts!Refuse, Accounts!Settle
    <3>2. QED
      BY <3>1 DEF Accounts!Next
  <2>8. CASE SeesAnswer(s)
    <3>1. Accounts!Answer(s)
      BY <2>2, <2>3, <2>8 DEF SeesAnswer, Accounts!Answer
    <3>2. QED
      BY <3>1 DEF Accounts!Next
  <2>9. CASE SeesSuccess(s)
    <3>1. Accounts!Settle(s, "ok")
      BY <2>2, <2>3, <2>9 DEF SeesSuccess, Accounts!Settle
    <3>2. CASE PaysNow(s)
      <4>1. PICK to \in UserIds : Accounts!Pay(s, to)
        BY <3>1, <3>2 DEF PaysNow, Accounts!Pay, Me
      <4>2. QED
        BY <4>1 DEF Accounts!Next
    <3>3. CASE RenamesNow(s)
      BY <3>1, <3>3 DEF RenamesNow, Accounts!Rename, Accounts!Next, Me
    <3>4. CASE ClosesNow(s)
      BY <3>1, <3>4 DEF ClosesNow, Accounts!Close, Accounts!Next, Me
    <3>5. CASE LosesNow(s)
      BY <3>1, <3>5 DEF LosesNow, Accounts!Lose, Accounts!Next
    <3>6. QED
      BY <2>9, <3>2, <3>3, <3>4, <3>5 DEF SeesSuccess
  <2>10. QED
    BY <2>1, <2>5, <2>6, <2>7, <2>8, <2>9 DEF Outcome
<1>3. QED
  BY <1>1, <1>2 DEF Next

\* Each request is one indivisible payment, renaming or closing, answered with
\* success, or it changes nothing and is answered with failure: for any
\* number of users, sessions and retries, with statements and commits that
\* fail, and in the mode "occ" for as long as no Begin fails.
THEOREM SpecImplementsBank ==
  ASSUME TransfersAreAtomic
  PROVE  Spec => ImplementsBank
<1>1. BankInv /\ [Next]_vars => BankInv'
  BY BankInvNext
<1>2. BankInv /\ [Next]_vars => [Accounts!Next]_Accounts!vars
  BY BankStep
<1>3. QED
  BY InitBankInv, BankInit, <1>1, <1>2, PTL DEF Spec, ImplementsBank, Accounts!Spec

\* If no Commit fails unnoticed, a transfer that is answered with success has
\* taken its amount from the payer: the dropped result of Commit is the only
\* way to lose one (DBContext.h:556).
THEOREM SpecSuccessMeansPaid ==
  ASSUME TransfersAreAtomic, "commit" \notin Faults
  PROVE  Spec => SuccessMeansPaid
<1>1. ASSUME BankInv, [Next]_vars, NEW s \in Sessions,
             call[s].kind = "transfer", reply[s] = "none", reply'[s] = "ok"
      PROVE  users'[Me(s)].balance = users[Me(s)].balance - call[s].amount
  <2>1. HandlerStep(s) \/ \E c \in Calls : Request(s, c)
    <3>1. PICK r \in Sessions : HandlerStep(r) \/ \E c \in Calls : Request(r, c)
      BY <1>1 DEF Next, vars
    <3>2. r = s
      BY <1>1, <3>1, SessionOutcome DEF Outcome
    <3>3. QED
      BY <3>1, <3>2
  <2>2. Outcome(s)
    BY <1>1, <2>1, SessionOutcome
  <2>3. Settled(s) = "none" /\ Settled(s)' = "ok"
    <3>1. Served(s)
      BY <1>1 DEF BankInv
    <3>2. QED
      BY <1>1, <3>1 DEF Served, Autocommit, Settled
  <2>4. PaysNow(s)
    BY <1>1, <2>2, <2>3 DEF Outcome, SeesNothing, SeesRequest, SeesRefusal, SeesAnswer,
       SeesSuccess, RenamesNow, ClosesNow, LosesNow
  <2>5. PICK to \in UserIds :
          /\ Me(s) # to /\ users[Me(s)] # Absent
          /\ users' = [users EXCEPT ![Me(s)].balance = @ - call[s].amount,
                                    ![to].balance = @ + call[s].amount]
    BY <2>4 DEF PaysNow
  <2>6. users \in [UserIds -> Row \cup {Absent}] /\ Me(s) \in UserIds
    BY <1>1, OwnersAreUsers DEF BankInv, IndInv, TypeOK, Me
  <2>7. users'[Me(s)] = [users[Me(s)] EXCEPT !.balance = @ - call[s].amount]
    BY <2>5, <2>6
  <2>8. users[Me(s)] \in Row
    BY <2>5, <2>6
  <2>9. QED
    BY <2>7, <2>8 DEF Row
<1>2. BankInv /\ [Next]_vars => BankInv'
  BY BankInvNext
<1>3. BankInv /\ [Next]_vars =>
        [\A s \in Sessions :
            call[s].kind = "transfer" /\ reply[s] = "none" /\ reply'[s] = "ok" =>
               users'[Me(s)].balance = users[Me(s)].balance - call[s].amount]_vars
  BY <1>1
<1>4. QED
  BY InitBankInv, <1>2, <1>3, PTL DEF Spec, SuccessMeansPaid

-------------------------------------------------------------------------------
(* The points in the table *)

Worth(row) == IF row = Absent THEN 0 ELSE row.balance

Funds(table) == MapThenSumSet(LAMBDA u : Worth(table[u]), UserIds)

\* No step makes points or loses them, whatever fails and in whatever order the
\* statements come: but for an account that is closed, with its balance, the
\* sum of all balances stays (README.md:127-129).
MoneyIsKept ==
  [][\/ Funds(users') = Funds(users)
     \/ \E s \in Sessions :
          /\ call[s].kind = "delete"
          /\ users' = [users EXCEPT ![Me(s)] = Absent]
          /\ Funds(users') = Funds(users) - Worth(users[Me(s)])]_vars

Tables == [UserIds -> Row \cup {Absent}]

AnyOf(ids) == CHOOSE u \in ids : TRUE

\* sum[ids] is the worth of the rows ids of the table
Sums(table, sum, sets) ==
  sum = [ids \in sets |-> IF ids = {} THEN 0
                          ELSE Worth(table[AnyOf(ids)]) + sum[ids \ {AnyOf(ids)}]]

LEMMA FundsIsSum ==
  ASSUME NEW table
  PROVE  Funds(table) = (CHOOSE sum : Sums(table, sum, SUBSET UserIds))[UserIds]
BY DEF Funds, MapThenSumSet, MapThenFoldSet, Sums, AnyOf

\* A set of finite sets has a least one: what fails for some set fails for one
\* from which no element can be taken without its holding again.
LEMMA LeastSet ==
  ASSUME NEW B, B \subseteq SUBSET UserIds, B # {}
  PROVE  \E ids \in B : \A u \in ids : ids \ {u} \notin B
<1>1. B \subseteq FiniteSubsetsOf(UserIds)
  BY UserIdsAreKeys, FS_Subset DEF FiniteSubsetsOf
<1>2. PICK ids \in B : \A x \in B : <<x, ids>> \notin StrictSubsetOrdering(UserIds)
  BY <1>1, FS_StrictSubsetOrderingWellFounded, WFMin
<1>3. ASSUME NEW u \in ids, ids \ {u} \in B PROVE FALSE
  <2>1. <<ids \ {u}, ids>> \in StrictSubsetOrdering(UserIds)
    BY <1>3 DEF StrictSubsetOrdering
  <2>2. QED
    BY <1>2, <1>3, <2>1
<1>4. QED
  BY <1>2, <1>3

\* The sets of at most k rows.
UpTo(k) == {ids \in SUBSET UserIds : Cardinality(ids) <= k}

LEMMA SetsOfRows ==
  ASSUME NEW k \in Nat
  PROVE  /\ UpTo(0) = {{}}
         /\ UpTo(k) \subseteq UpTo(k + 1)
         /\ \A ids \in UpTo(k + 1) :
               ids # {} => AnyOf(ids) \in ids /\ ids \ {AnyOf(ids)} \in UpTo(k)
         /\ UpTo(Cardinality(UserIds)) = SUBSET UserIds
         /\ Cardinality(UserIds) \in Nat
<1>1. \A ids \in SUBSET UserIds :
         IsFiniteSet(ids) /\ Cardinality(ids) \in Nat /\ Cardinality(ids) <= Cardinality(UserIds)
  BY UserIdsAreKeys, FS_Subset, FS_CardinalityType
<1>2. UpTo(0) = {{}}
  <2>1. Cardinality({}) = 0 /\ \A ids \in SUBSET UserIds : Cardinality(ids) = 0 => ids = {}
    BY <1>1, FS_EmptySet
  <2>2. QED
    BY <1>1, <2>1 DEF UpTo
<1>3. UpTo(k) \subseteq UpTo(k + 1)
  BY <1>1 DEF UpTo
<1>4. ASSUME NEW ids \in UpTo(k + 1), ids # {}
      PROVE  AnyOf(ids) \in ids /\ ids \ {AnyOf(ids)} \in UpTo(k)
  <2>1. AnyOf(ids) \in ids
    BY <1>4 DEF AnyOf
  <2>2. ids \in SUBSET UserIds /\ Cardinality(ids) <= k + 1
    BY DEF UpTo
  <2>3. Cardinality(ids \ {AnyOf(ids)}) = Cardinality(ids) - 1
    BY <1>1, <2>1, <2>2, FS_RemoveElement
  <2>4. Cardinality(ids) - 1 <= k
    BY <1>1, <2>2
  <2>5. QED
    BY <2>1, <2>2, <2>3, <2>4 DEF UpTo
<1>5. UpTo(Cardinality(UserIds)) = SUBSET UserIds
  BY <1>1 DEF UpTo
<1>6. QED
  BY <1>1, <1>2, <1>3, <1>4, <1>5

\* The sum is defined for every table.
LEMMA SumExists ==
  ASSUME NEW table
  PROVE  \E sum : Sums(table, sum, SUBSET UserIds)
<1> DEFINE Defined(k) == \E sum : Sums(table, sum, UpTo(k))
<1>1. Defined(0)
  <2>1. PICK sum : sum = [ids \in UpTo(0) |-> 0]
    OBVIOUS
  <2>2. \A ids \in UpTo(0) : ids = {}
    BY SetsOfRows
  <2>3. Sums(table, sum, UpTo(0))
    BY <2>1, <2>2 DEF Sums
  <2>4. QED
    BY <2>3
<1>2. ASSUME NEW k \in Nat, Defined(k) PROVE Defined(k + 1)
  <2>1. PICK f : Sums(table, f, UpTo(k))
    BY <1>2
  <2>2. PICK g : g = [ids \in UpTo(k + 1) |->
                        IF ids = {} THEN 0
                        ELSE Worth(table[AnyOf(ids)]) + f[ids \ {AnyOf(ids)}]]
    OBVIOUS
  <2>3. \A ids \in UpTo(k) : g[ids] = f[ids]
    <3>1. UpTo(k) \subseteq UpTo(k + 1)
      BY SetsOfRows
    <3>2. QED
      BY <2>1, <2>2, <3>1 DEF Sums
  <2>4. \A ids \in UpTo(k + 1) :
           ids # {} => g[ids \ {AnyOf(ids)}] = f[ids \ {AnyOf(ids)}]
    BY <2>3, SetsOfRows
  <2>5. Sums(table, g, UpTo(k + 1))
    BY <2>2, <2>4 DEF Sums
  <2>6. QED
    BY <2>5
<1> HIDE DEF Defined
<1>3. \A k \in Nat : Defined(k)
  <2> DEFINE Missing == {k \in Nat : ~Defined(k)}
  <2>1. SUFFICES ASSUME Missing # {} PROVE FALSE
    OBVIOUS
  <2>2. PICK R : R = OpToRel(<, Nat)
    OBVIOUS
  <2>3. PICK k \in Missing : \A m \in Missing : <<m, k>> \notin R
    BY <2>1, <2>2, NatLessThanWellFounded, WFMin
  <2>4. k - 1 \in Nat /\ k - 1 < k
    BY <1>1, <2>3
  <2>5. <<k - 1, k>> \in R
    BY <2>2, <2>4 DEF OpToRel
  <2>6. Defined(k - 1)
    BY <2>3, <2>4, <2>5
  <2>7. QED
    BY <1>2, <2>3, <2>4, <2>6
<1>4. Cardinality(UserIds) \in Nat /\ UpTo(Cardinality(UserIds)) = SUBSET UserIds
  BY SetsOfRows
<1>5. QED
  BY <1>3, <1>4 DEF Defined

\* Funds is what a sum of natural numbers is.
LEMMA FundsHasSum ==
  ASSUME NEW table \in Tables
  PROVE  \E sum : /\ Sums(table, sum, SUBSET UserIds)
                  /\ Funds(table) = sum[UserIds]
                  /\ \A ids \in SUBSET UserIds : sum[ids] \in Nat
<1>1. PICK sum : sum = CHOOSE f : Sums(table, f, SUBSET UserIds)
  OBVIOUS
<1>2. Sums(table, sum, SUBSET UserIds)
  BY <1>1, SumExists
<1>3. \A ids \in SUBSET UserIds : sum[ids] \in Nat
  <2> DEFINE Wrong == {ids \in SUBSET UserIds : sum[ids] \notin Nat}
  <2>1. SUFFICES ASSUME Wrong # {} PROVE FALSE
    OBVIOUS
  <2>2. PICK ids \in Wrong : \A u \in ids : ids \ {u} \notin Wrong
    BY <2>1, LeastSet
  <2>3. ids \in SUBSET UserIds /\ sum[ids] \notin Nat
    BY <2>2
  <2>4. ids # {}
    BY <1>2, <2>3 DEF Sums
  <2>5. AnyOf(ids) \in ids
    BY <2>4 DEF AnyOf
  <2>6. sum[ids] = Worth(table[AnyOf(ids)]) + sum[ids \ {AnyOf(ids)}]
    BY <1>2, <2>3, <2>4 DEF Sums
  <2>7. sum[ids \ {AnyOf(ids)}] \in Nat
    BY <2>2, <2>3, <2>5
  <2>8. Worth(table[AnyOf(ids)]) \in Nat
    BY <2>3, <2>5 DEF Tables, Worth, Row
  <2>9. QED
    BY <2>3, <2>6, <2>7, <2>8
<1>4. QED
  BY <1>1, <1>2, <1>3, FundsIsSum

\* A row that changes its worth changes the funds by as much.
LEMMA OneRowChanges ==
  ASSUME NEW old \in Tables, NEW new \in Tables, NEW u \in UserIds,
         \A v \in UserIds \ {u} : new[v] = old[v]
  PROVE  Funds(new) = Funds(old) - Worth(old[u]) + Worth(new[u]) /\ Funds(old) \in Nat
<1>1. PICK f : /\ Sums(old, f, SUBSET UserIds) /\ Funds(old) = f[UserIds]
               /\ \A ids \in SUBSET UserIds : f[ids] \in Nat
  BY FundsHasSum
<1>2. PICK g : /\ Sums(new, g, SUBSET UserIds) /\ Funds(new) = g[UserIds]
               /\ \A ids \in SUBSET UserIds : g[ids] \in Nat
  BY FundsHasSum
<1>3. Worth(old[u]) \in Nat /\ Worth(new[u]) \in Nat
  BY DEF Tables, Worth, Row
<1> DEFINE Follows(ids) == IF u \in ids THEN g[ids] = f[ids] - Worth(old[u]) + Worth(new[u])
                                        ELSE g[ids] = f[ids]
           Wrong == {ids \in SUBSET UserIds : ~Follows(ids)}
<1>4. \A ids \in SUBSET UserIds : Follows(ids)
  <2>1. SUFFICES ASSUME Wrong # {} PROVE FALSE
    OBVIOUS
  <2>2. PICK ids \in Wrong : \A v \in ids : ids \ {v} \notin Wrong
    <3>1. Wrong \subseteq SUBSET UserIds
      OBVIOUS
    <3> HIDE DEF Wrong
    <3>2. QED
      BY <2>1, <3>1, LeastSet
  <2>3. ids \in SUBSET UserIds /\ ~Follows(ids)
    BY <2>2
  <2>4. ids # {}
    BY <1>1, <1>2, <2>3 DEF Sums
  <2>5. PICK v : v = AnyOf(ids)
    OBVIOUS
  <2>6. v \in ids /\ v \in UserIds
    BY <2>3, <2>4, <2>5 DEF AnyOf
  <2>7. /\ f[ids] = Worth(old[v]) + f[ids \ {v}]
        /\ g[ids] = Worth(new[v]) + g[ids \ {v}]
    BY <1>1, <1>2, <2>3, <2>4, <2>5 DEF Sums
  <2>8. ids \ {v} \in SUBSET UserIds /\ Follows(ids \ {v})
    <3>1. ids \ {v} \in SUBSET UserIds /\ ids \ {v} \notin Wrong
      BY <2>2, <2>3, <2>6
    <3> HIDE DEF Follows
    <3>2. QED
      BY <3>1
  <2>9. f[ids \ {v}] \in Nat /\ g[ids \ {v}] \in Nat
    BY <1>1, <1>2, <2>8
  <2>10. Worth(old[v]) \in Nat /\ Worth(new[v]) \in Nat
    BY <2>6 DEF Tables, Worth, Row
  <2>11. CASE v = u
    <3>1. g[ids \ {v}] = f[ids \ {v}] /\ u \in ids
      BY <2>6, <2>8, <2>11
    <3>2. g[ids] = f[ids] - Worth(old[u]) + Worth(new[u])
      BY <2>7, <2>9, <2>10, <2>11, <3>1
    <3>3. QED
      BY <2>3, <3>1, <3>2
  <2>12. CASE v # u
    <3>1. Worth(new[v]) = Worth(old[v]) /\ (u \in ids <=> u \in ids \ {v})
      BY <2>6, <2>12
    <3>2. QED
      BY <1>3, <2>3, <2>7, <2>8, <2>9, <2>10, <3>1
  <2>13. QED
    BY <2>11, <2>12
<1>5. Follows(UserIds) /\ Funds(old) \in Nat
  BY <1>1, <1>4
<1>6. QED
  BY <1>1, <1>2, <1>5

Payment(table, from, to, amount) ==
  [table EXCEPT ![from].balance = @ - amount, ![to].balance = @ + amount]

\* A payment moves points from one row to another.
LEMMA PaymentKeepsFunds ==
  ASSUME NEW old \in Tables, NEW from \in UserIds, NEW to \in UserIds, from # to,
         old[from] # Absent, old[to] # Absent, NEW amount \in Nat,
         old[from].balance >= amount, NEW new,
         new = Payment(old, from, to, amount)
  PROVE  Funds(new) = Funds(old)
<1>1. PICK payer : payer = [old[from] EXCEPT !.balance = @ - amount]
  OBVIOUS
<1>2. PICK payee : payee = [old[to] EXCEPT !.balance = @ + amount]
  OBVIOUS
<1>3. PICK mid : mid = [old EXCEPT ![from] = payer]
  OBVIOUS
<1>4. /\ old[from] \in Row /\ old[from].balance \in Nat
      /\ old[to] \in Row /\ old[to].balance \in Nat
  BY DEF Tables, Row
<1>5. payer \in Row /\ payer.balance = old[from].balance - amount
  BY <1>1, <1>4 DEF Row
<1>6. payee \in Row /\ payee.balance = old[to].balance + amount
  BY <1>2, <1>4 DEF Row
<1>7. /\ mid \in Tables /\ mid[from] = payer
      /\ \A v \in UserIds \ {from} : mid[v] = old[v]
  BY <1>3, <1>5 DEF Tables
<1>8. new = [mid EXCEPT ![to] = payee]
  BY <1>1, <1>2, <1>3 DEF Tables, Payment
<1>9. /\ new \in Tables /\ new[to] = payee
      /\ \A v \in UserIds \ {to} : new[v] = mid[v]
  BY <1>6, <1>7, <1>8 DEF Tables
<1>10. mid[to] = old[to]
  BY <1>7
<1>11. \A row \in Row : Worth(row) = row.balance
  BY AbsentIsNoRow DEF Worth
<1>12. Funds(mid) = Funds(old) - Worth(old[from]) + Worth(mid[from]) /\ Funds(old) \in Nat
  BY <1>7, OneRowChanges
<1>13. Funds(new) = Funds(mid) - Worth(mid[to]) + Worth(new[to])
  BY <1>7, <1>9, OneRowChanges
<1>14. /\ Worth(old[from]) = old[from].balance /\ Worth(old[to]) = old[to].balance
       /\ Worth(payer) = old[from].balance - amount
       /\ Worth(payee) = old[to].balance + amount
  BY <1>4, <1>5, <1>6, <1>11
<1>15. /\ Funds(mid) = Funds(old) - old[from].balance + (old[from].balance - amount)
       /\ Funds(new) = Funds(mid) - old[to].balance + (old[to].balance + amount)
  BY <1>7, <1>9, <1>10, <1>12, <1>13, <1>14
<1>16. QED
  BY <1>4, <1>12, <1>15

Renaming(table, u, target) == [table EXCEPT ![u].nickname = target]

LEMMA RenamingKeepsFunds ==
  ASSUME NEW old \in Tables, NEW u \in UserIds, old[u] # Absent, NEW target \in Nicknames,
         NEW new, new = Renaming(old, u, target)
  PROVE  Funds(new) = Funds(old)
<1>1. PICK row : row = [old[u] EXCEPT !.nickname = target]
  OBVIOUS
<1>2. old[u] \in Row /\ old[u].balance \in Nat
  BY DEF Tables, Row
<1>3. row \in Row /\ row.balance = old[u].balance
  BY <1>1, <1>2 DEF Row
<1>4. new = [old EXCEPT ![u] = row]
  BY <1>1 DEF Renaming
<1>5. /\ new \in Tables /\ new[u] = row
      /\ \A v \in UserIds \ {u} : new[v] = old[v]
  BY <1>3, <1>4 DEF Tables
<1>6. Worth(row) = old[u].balance /\ Worth(old[u]) = old[u].balance
  BY <1>2, <1>3, AbsentIsNoRow DEF Worth
<1>7. Funds(new) = Funds(old) - Worth(old[u]) + Worth(new[u]) /\ Funds(old) \in Nat
  BY <1>5, OneRowChanges
<1>8. QED
  BY <1>2, <1>5, <1>6, <1>7

LEMMA ClosingTakesFunds ==
  ASSUME NEW old \in Tables, NEW u \in UserIds, NEW new, new = [old EXCEPT ![u] = Absent]
  PROVE  Funds(new) = Funds(old) - Worth(old[u])
<1>1. new \in Tables /\ Worth(new[u]) = 0 /\ \A v \in UserIds \ {u} : new[v] = old[v]
  BY DEF Tables, Worth
<1>2. Worth(old[u]) \in Nat
  BY DEF Tables, Worth, Row
<1>3. Funds(new) = Funds(old) - Worth(old[u]) + Worth(new[u]) /\ Funds(old) \in Nat
  BY <1>1, OneRowChanges
<1>4. QED
  BY <1>1, <1>2, <1>3

\* The points of the table stay in the table: for any number of users and
\* sessions, in both lock modes and whatever fails, as long as a transfer stays
\* in one transaction.
THEOREM SpecMoneyIsKept ==
  ASSUME TransfersAreAtomic
  PROVE  Spec => MoneyIsKept
<1> DEFINE Kept == \/ Funds(users') = Funds(users)
                   \/ \E s \in Sessions :
                        /\ call[s].kind = "delete"
                        /\ users' = [users EXCEPT ![Me(s)] = Absent]
                        /\ Funds(users') = Funds(users) - Worth(users[Me(s)])
<1>1. ASSUME BankInv, [Next]_vars PROVE Kept
  <2>1. users \in Tables /\ users' \in Tables
    <3>1. BankInv'
      BY <1>1, BankInvNext
    <3>2. QED
      BY <1>1, <3>1 DEF BankInv, IndInv, TypeOK, Tables
  <2>2. CASE users' = users
    BY <2>2
  <2>3. CASE users' # users
    <3>1. PICK s \in Sessions : HandlerStep(s) \/ \E c \in Calls : Request(s, c)
      BY <1>1, <2>3 DEF Next, vars
    <3>2. SeesSuccess(s)
      <4>1. Outcome(s)
        BY <1>1, <3>1, SessionOutcome
      <4>2. QED
        BY <2>3, <4>1 DEF Outcome, SeesNothing, SeesRequest, SeesRefusal, SeesAnswer
    <3>3. Me(s) \in UserIds
      BY OwnersAreUsers DEF Me
    <3>4. CASE PaysNow(s)
      <4>1. call[s] \in Calls /\ call[s].kind = "transfer"
        BY <1>1, <3>4 DEF PaysNow, BankInv, IndInv, TypeOK, NoCall
      <4>2. call[s].amount \in Nat
        BY <4>1, NumbersAreNat DEF Calls
      <4>3. PICK to \in UserIds :
              /\ Me(s) # to
              /\ users[Me(s)] # Absent /\ users[to] # Absent
              /\ users[Me(s)].balance >= call[s].amount
              /\ users' = [users EXCEPT ![Me(s)].balance = @ - call[s].amount,
                                        ![to].balance = @ + call[s].amount]
        BY <3>4 DEF PaysNow
      <4>4. Funds(users') = Funds(users)
        <5>1. PICK old, new, from, amount :
                old = users /\ new = users' /\ from = Me(s) /\ amount = call[s].amount
          OBVIOUS
        <5>2. /\ old \in Tables /\ from \in UserIds /\ amount \in Nat /\ from # to
              /\ old[from] # Absent /\ old[to] # Absent /\ old[from].balance >= amount
          BY <2>1, <3>3, <4>2, <4>3, <5>1
        <5>3. new = Payment(old, from, to, amount)
          BY <4>3, <5>1 DEF Payment
        <5>4. Funds(new) = Funds(old)
          BY <5>2, <5>3, PaymentKeepsFunds
        <5>5. QED
          BY <5>1, <5>4
      <4>5. QED
        BY <4>4
    <3>5. CASE RenamesNow(s)
      <4>1. call[s] \in Calls /\ call[s].kind = "rename"
        BY <1>1, <3>5 DEF RenamesNow, BankInv, IndInv, TypeOK, NoCall
      <4>2. call[s].target \in Nicknames
        BY <4>1 DEF Calls
      <4>3. /\ users[Me(s)] # Absent
            /\ users' = [users EXCEPT ![Me(s)].nickname = call[s].target]
        BY <3>5 DEF RenamesNow
      <4>4. Funds(users') = Funds(users)
        <5>1. PICK old, new, me, target :
                old = users /\ new = users' /\ me = Me(s) /\ target = call[s].target
          OBVIOUS
        <5>2. /\ old \in Tables /\ me \in UserIds /\ target \in Nicknames /\ old[me] # Absent
          BY <2>1, <3>3, <4>2, <4>3, <5>1
        <5>3. new = Renaming(old, me, target)
          BY <4>3, <5>1 DEF Renaming
        <5>4. Funds(new) = Funds(old)
          BY <5>2, <5>3, RenamingKeepsFunds
        <5>5. QED
          BY <5>1, <5>4
      <4>5. QED
        BY <4>4
    <3>6. CASE ClosesNow(s)
      <4>1. call[s].kind = "delete" /\ users' = [users EXCEPT ![Me(s)] = Absent]
        BY <3>6 DEF ClosesNow
      <4>2. Funds(users') = Funds(users) - Worth(users[Me(s)])
        BY <2>1, <3>3, <4>1, ClosingTakesFunds
      <4>3. QED
        BY <4>1, <4>2
    <3>7. QED
      BY <2>3, <3>2, <3>4, <3>5, <3>6 DEF SeesSuccess, LosesNow
  <2>4. QED
    BY <2>2, <2>3
<1>2. BankInv /\ [Next]_vars => BankInv'
  BY BankInvNext
<1>3. BankInv /\ [Next]_vars => [Kept]_vars
  BY <1>1
<1>4. QED
  BY InitBankInv, <1>2, <1>3, PTL DEF Spec, MoneyIsKept
===============================================================================
