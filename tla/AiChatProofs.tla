----------------------------- MODULE AiChatProofs ------------------------------
(***************************************************************************)
(* AI chat for any number of sessions, requests, attempts and rows: one    *)
(* reply at a time; what the quota bounds, if it can be read; and the      *)
(* history that is sent to Claude is one that its API takes.               *)
(***************************************************************************)
EXTENDS AiChat, FiniteSetTheorems, SequenceTheorems, WellFoundedInduction, TLAPS

\* A request that runs keeps its session busy, and is the only one to do so
BusyOK ==
  \A r \in Requests : Running(r) =>
    /\ r <= asked /\ owner[r] \in Sessions /\ AiBusy[owner[r]]
    /\ \A q \in Requests : Running(q) /\ owner[q] = owner[r] => q = r

Texts == {"stream", "store", "count", "tally"}

\* Text of one attempt, in a stream of the one that goes on
Fits(texts, next, n) ==
  /\ \E k \in Nat : texts \subseteq {k}
  /\ next = "stream" => texts \subseteq {n}
  /\ next \notin Texts => texts = {}

ShownOK == \A r \in Requests : Fits(shown[r], stage[r], attempt[r])

TypeInv ==
  /\ AiBusy \in [Sessions -> BOOLEAN]
  /\ asked \in 0 .. MaxAsks
  /\ owner \in [Requests -> Sessions \cup {NoSession}]
  /\ stage \in [Requests -> Stages]
  /\ shown \in [Requests -> SUBSET Nat]
  /\ attempt \in [Requests -> Nat]

ReplyInv == TypeInv /\ BusyOK /\ ShownOK

\* What a step of the coroutine of r other than the last one looks like
GoesOn(r) ==
  /\ Running(r)
  /\ UNCHANGED <<AiBusy, asked, owner>>
  /\ \E next \in Stages \ {"none", "over"}, n \in Nat, texts \in SUBSET Nat :
       /\ Fits(texts, next, n)
       /\ Goto(r, next)
       /\ attempt' = [attempt EXCEPT ![r] = n]
       /\ shown' = [shown EXCEPT ![r] = texts]

-------------------------------------------------------------------------------
(* One reply at a time *)

LEMMA Constants ==
  /\ MaxAsks \in Nat /\ MaxAttempts \in Nat /\ DailyCalls \in Nat /\ DailyCalls >= 1
  /\ IsFiniteSet(Sessions) /\ Cardinality(Sessions) \in Nat /\ Cardinality(Sessions) >= 1
  /\ NoSession \notin Sessions
<1>1. IsFiniteSet(Sessions) /\ Sessions # {} /\ NoSession \notin Sessions
  BY ChatAssumption
<1>2. Cardinality(Sessions) \in Nat /\ Cardinality(Sessions) # 0
  BY <1>1, FS_CardinalityType, FS_EmptySet
<1>3. MaxAsks \in Nat /\ MaxAttempts \in Nat /\ DailyCalls \in Nat /\ DailyCalls # 0
  BY ChatAssumption
<1> QED
  BY <1>1, <1>2, <1>3

LEMMA NoTextFits == \A next, n : Fits({}, next, n)
<1>1. 0 \in Nat /\ {} \subseteq {0}
  OBVIOUS
<1> QED
  BY <1>1 DEF Fits

LEMMA ReplyStarts == Init => ReplyInv
<1> SUFFICES ASSUME Init PROVE ReplyInv
  OBVIOUS
<1>1. TypeInv
  BY Constants DEF Init, TypeInv, Stages
<1>2. BusyOK
  BY DEF Init, BusyOK, Running, Requests
<1>3. ShownOK
  BY NoTextFits DEF Init, ShownOK
<1> QED
  BY <1>1, <1>2, <1>3 DEF ReplyInv

\* A step that keeps attempt and shown goes on if it drops no text.
LEMMA KeepsText ==
  ASSUME ReplyInv, NEW r \in Requests, UNCHANGED <<AiBusy, asked, owner, attempt, shown>>,
         NEW next \in Stages \ {"none", "over", "stream"}, Goto(r, next), Running(r),
         stage[r] \notin Texts \/ next \in Texts
  PROVE  GoesOn(r)
<1>1. attempt[r] \in Nat /\ shown[r] \in SUBSET Nat /\ Fits(shown[r], stage[r], attempt[r])
  BY DEF ReplyInv, TypeInv, ShownOK
<1>2. Fits(shown[r], next, attempt[r])
  BY <1>1 DEF Fits
<1>3. attempt' = [attempt EXCEPT ![r] = attempt[r]] /\ shown' = [shown EXCEPT ![r] = shown[r]]
  BY DEF ReplyInv, TypeInv
<1> QED
  BY <1>1, <1>2, <1>3 DEF GoesOn

LEMMA EndsGoesOn ==
  ASSUME NEW r \in Requests, Running(r), Ends(r)
  PROVE  GoesOn(r)
<1>1. attempt' = [attempt EXCEPT ![r] = 0] /\ shown' = [shown EXCEPT ![r] = {}]
  BY DEF Ends, Forget
<1>2. Goto(r, "leave") /\ "leave" \in Stages \ {"none", "over"}
  BY DEF Ends, Stages
<1>3. UNCHANGED <<AiBusy, asked, owner>>
  BY DEF Ends
<1>4. 0 \in Nat /\ {} \in SUBSET Nat /\ Fits({}, "leave", 0)
  BY NoTextFits
<1> QED
  BY <1>1, <1>2, <1>3, <1>4 DEF GoesOn

LEMMA RetryGoesOn ==
  ASSUME ReplyInv, NEW r \in Requests, stage[r] = "stream", attempt[r] \notin shown[r], Retry(r)
  PROVE  GoesOn(r)
<1>1. shown[r] = {} /\ attempt[r] + 1 \in Nat
  BY DEF ReplyInv, TypeInv, ShownOK, Fits
<1>2. stage' = [stage EXCEPT ![r] = "stream"]
  BY DEF Retry, ReplyInv, TypeInv
<1>3. attempt' = [attempt EXCEPT ![r] = attempt[r] + 1] /\ shown' = [shown EXCEPT ![r] = {}]
  BY <1>1 DEF Retry, ReplyInv, TypeInv
<1>4. "stream" \in Stages \ {"none", "over"} /\ Running(r)
  BY DEF Stages, Running
<1>5. UNCHANGED <<AiBusy, asked, owner>>
  BY DEF Retry
<1>6. {} \in SUBSET Nat /\ Fits({}, "stream", attempt[r] + 1)
  BY NoTextFits
<1> QED
  BY <1>1, <1>2, <1>3, <1>4, <1>5, <1>6 DEF GoesOn, Goto

\* Text that is shown is text of the attempt that goes on.
LEMMA DeltaGoesOn ==
  ASSUME ReplyInv, NEW r \in Requests, Delta(r)
  PROVE  GoesOn(r)
<1>1. /\ stage[r] = "stream" /\ UNCHANGED <<AiBusy, asked, owner, stage, attempt>>
      /\ shown' = [shown EXCEPT ![r] = shown[r] \cup {attempt[r]}]
  BY DEF Delta
<1>2. /\ attempt[r] \in Nat /\ shown[r] \cup {attempt[r]} \in SUBSET Nat
      /\ shown[r] \cup {attempt[r]} \subseteq {attempt[r]}
  BY <1>1 DEF ReplyInv, TypeInv, ShownOK, Fits
<1>3. Fits(shown[r] \cup {attempt[r]}, "stream", attempt[r])
  BY <1>2 DEF Fits, Texts
<1>4. attempt' = [attempt EXCEPT ![r] = attempt[r]] /\ Goto(r, "stream")
  BY <1>1 DEF ReplyInv, TypeInv, Goto
<1>5. "stream" \in Stages \ {"none", "over"} /\ Running(r)
  BY <1>1 DEF Stages, Running
<1> QED
  BY <1>1, <1>2, <1>3, <1>4, <1>5 DEF GoesOn

LEMMA ReturnsGoesOn ==
  ASSUME ReplyInv, NEW r \in Requests, stage[r] = "stream", Returns(r),
         shown' = shown \/ shown' = [shown EXCEPT ![r] = @ \cup {attempt[r]}]
  PROVE  GoesOn(r)
<1>1. /\ shown[r] \in SUBSET Nat /\ shown[r] \subseteq {attempt[r]} /\ attempt[r] \in Nat
      /\ shown \in [Requests -> SUBSET Nat]
  BY DEF ReplyInv, TypeInv, ShownOK, Fits
<1>2. PICK texts \in SUBSET Nat : texts \subseteq {attempt[r]} /\ shown' = [shown EXCEPT ![r] = texts]
  <2>1. shown = [shown EXCEPT ![r] = shown[r]]
    BY <1>1
  <2>2. shown[r] \cup {attempt[r]} \in SUBSET Nat /\ shown[r] \cup {attempt[r]} \subseteq {attempt[r]}
    BY <1>1
  <2> QED
    BY <1>1, <2>1, <2>2
<1>3. Fits(texts, "store", 0)
  BY <1>1, <1>2 DEF Fits, Texts
<1>4. /\ Goto(r, "store") /\ attempt' = [attempt EXCEPT ![r] = 0]
      /\ UNCHANGED <<AiBusy, asked, owner>>
  BY DEF Returns
<1>5. "store" \in Stages \ {"none", "over"} /\ Running(r) /\ 0 \in Nat
  BY DEF Stages, Running
<1> QED
  BY <1>2, <1>3, <1>4, <1>5 DEF GoesOn

LEMMA CoroutineGoesOn ==
  ASSUME ReplyInv, NEW r \in Requests, Coroutine(r), ~Leave(r)
  PROVE  GoesOn(r)
<1>0. ASSUME Running(r), Done(r) \/ \E why \in Fates : Uncounted(r, why) PROVE GoesOn(r)
  BY <1>0, EndsGoesOn DEF Done, Uncounted
<1>1. CASE Check(r)
  <2>1. /\ Running(r) /\ "save" \in Stages \ {"none", "over", "stream"}
        /\ stage[r] \notin Texts \/ "save" \in Texts
    BY <1>1 DEF Check, Running, Stages, Texts
  <2>2. CASE ~Done(r)
    BY <1>1, <2>1, <2>2, KeepsText DEF Check, frame
  <2> QED
    BY <1>0, <2>1, <2>2
<1>2. CASE StampQuestion(r)
  <2>1. /\ Running(r) /\ "insert" \in Stages \ {"none", "over", "stream"}
        /\ stage[r] \notin Texts \/ "insert" \in Texts
    BY <1>2 DEF StampQuestion, Running, Stages, Texts
  <2> QED
    BY <1>2, <2>1, KeepsText DEF StampQuestion
<1>3. CASE SaveQuestion(r)
  <2>1. /\ Running(r) /\ "load" \in Stages \ {"none", "over", "stream"}
        /\ stage[r] \notin Texts \/ "load" \in Texts
    BY <1>3 DEF SaveQuestion, Running, Stages, Texts
  <2>2. CASE Ends(r)
    BY <2>1, <2>2, EndsGoesOn
  <2>3. CASE ~Ends(r)
    BY <1>3, <2>1, <2>3, KeepsText DEF SaveQuestion, Done, frame
  <2> QED
    BY <2>2, <2>3
<1>4. CASE Load(r)
  <2>1. Running(r) /\ "stream" \in Stages \ {"none", "over"}
    BY <1>4 DEF Load, Running, Stages
  <2>2. CASE Done(r)
    BY <1>0, <2>1, <2>2
  <2>3. CASE ~Done(r)
    <3>1. /\ attempt' = [attempt EXCEPT ![r] = 1] /\ Goto(r, "stream")
          /\ UNCHANGED <<AiBusy, asked, owner, shown>>
      BY <1>4, <2>3 DEF Load
    <3>2. shown[r] = {} /\ Running(r)
      BY <1>4 DEF Load, ReplyInv, ShownOK, Fits, Running, Texts
    <3>3. shown' = [shown EXCEPT ![r] = {}]
      BY <3>1, <3>2 DEF ReplyInv, TypeInv
    <3>4. 1 \in Nat /\ {} \in SUBSET Nat /\ Fits({}, "stream", 1)
      BY NoTextFits
    <3> QED
      BY <2>1, <3>1, <3>2, <3>3, <3>4 DEF GoesOn
  <2> QED
    BY <2>2, <2>3
<1>5. CASE Delta(r)
  BY <1>5, DeltaGoesOn
<1>6. CASE NetworkError(r)
  <2>1. stage[r] = "stream" /\ Running(r)
    BY <1>6 DEF NetworkError, Running
  <2> QED
    BY <1>0, <1>6, <2>1, RetryGoesOn DEF NetworkError
<1>7. CASE Overloaded(r)
  <2>1. stage[r] = "stream" /\ Running(r)
    BY <1>7 DEF Overloaded, Running
  <2> QED
    BY <1>0, <1>7, <2>1, RetryGoesOn DEF Overloaded
<1>8. CASE Rejected(r)
  BY <1>0, <1>8 DEF Rejected, Running
<1>9. CASE StreamEnds(r)
  BY <1>9, ReturnsGoesOn DEF StreamEnds
<1>10. CASE Refusal(r)
  BY <1>10, ReturnsGoesOn DEF Refusal
<1>11. CASE LoadUsage(r)
  <2>1. /\ Running(r) /\ "count" \in Stages \ {"none", "over", "stream"}
        /\ stage[r] \notin Texts \/ "count" \in Texts
    BY <1>11 DEF LoadUsage, Running, Stages, Texts
  <2> QED
    BY <1>11, <2>1, KeepsText DEF LoadUsage
<1>12. CASE Count(r) \/ Tally(r)
  <2>1. Running(r) /\ Ends(r)
    BY <1>12 DEF Count, Tally, Counted, Uncounted, Running
  <2> QED
    BY <2>1, EndsGoesOn
<1>13. CASE CountAlone(r)
  <2>1. /\ Running(r) /\ "tally" \in Stages \ {"none", "over", "stream"}
        /\ stage[r] \notin Texts \/ "tally" \in Texts
    BY <1>13 DEF CountAlone, Running, Stages, Texts
  <2>2. CASE Ends(r)
    BY <2>1, <2>2, EndsGoesOn
  <2>3. CASE ~Ends(r)
    BY <1>13, <2>1, <2>3, KeepsText DEF CountAlone, frame
  <2> QED
    BY <2>2, <2>3
<1>14. CASE Throw(r)
  BY <1>0, <1>14 DEF Throw, Running, Fates
<1> QED
  BY <1>1, <1>2, <1>3, <1>4, <1>5, <1>6, <1>7, <1>8, <1>9, <1>10, <1>11, <1>12, <1>13, <1>14
  DEF Coroutine

LEMMA ReplyGoesOn ==
  ASSUME ReplyInv, NEW r \in Requests, GoesOn(r)
  PROVE  ReplyInv'
<1>1. PICK next \in Stages \ {"none", "over"}, n \in Nat, texts \in SUBSET Nat :
        /\ Fits(texts, next, n)
        /\ stage' = [stage EXCEPT ![r] = next]
        /\ attempt' = [attempt EXCEPT ![r] = n]
        /\ shown' = [shown EXCEPT ![r] = texts]
  BY DEF GoesOn, Goto
<1>2. Running(r) /\ UNCHANGED <<AiBusy, asked, owner>>
  BY DEF GoesOn
<1>3. TypeInv'
  BY <1>1, <1>2 DEF ReplyInv, TypeInv
<1>4. ShownOK'
  BY <1>1 DEF ReplyInv, TypeInv, ShownOK, Fits
<1>5. \A q \in Requests : Running(q)' <=> Running(q)
  BY <1>1, <1>2 DEF ReplyInv, TypeInv, Running
<1>6. BusyOK'
  BY <1>2, <1>5 DEF ReplyInv, BusyOK
<1> QED
  BY <1>3, <1>4, <1>6 DEF ReplyInv

LEMMA ReplyAsk ==
  ASSUME ReplyInv, NEW s \in Sessions, Ask(s)
  PROVE  ReplyInv' /\ ~Running(asked') /\ asked' \in Requests
<1>0. asked + 1 \in Requests /\ asked \in Nat /\ asked' = asked + 1
  BY Constants DEF ReplyInv, TypeInv, Ask, Requests
<1> PICK r \in Requests : r = asked + 1
  BY <1>0
<1>1. r \in Requests /\ asked \in Nat /\ asked' = r /\ r = asked + 1
  BY <1>0
<1>2. ~Running(r) /\ stage[r] \in {"none", "over"}
  BY <1>1 DEF ReplyInv, BusyOK, Running
<1>3. /\ owner' = [owner EXCEPT ![r] = s] /\ AiBusy' = [AiBusy EXCEPT ![s] = TRUE]
      /\ stage' = [stage EXCEPT ![r] = IF AiBusy[s] THEN "over" ELSE "check"]
      /\ UNCHANGED <<attempt, shown>>
  BY DEF Ask, Goto, frame
<1>4. TypeInv'
  <2>1. asked' \in 0 .. MaxAsks
    BY <1>1 DEF Requests
  <2>2. stage' \in [Requests -> Stages]
    BY <1>1, <1>3 DEF ReplyInv, TypeInv, Stages
  <2>3. owner' \in [Requests -> Sessions \cup {NoSession}] /\ AiBusy' \in [Sessions -> BOOLEAN]
    BY <1>1, <1>3 DEF ReplyInv, TypeInv
  <2> QED
    BY <1>3, <2>1, <2>2, <2>3 DEF ReplyInv, TypeInv
<1>5. ShownOK'
  BY <1>1, <1>2, <1>3 DEF ReplyInv, TypeInv, ShownOK, Fits, Texts
<1>6. \A q \in Requests : q # r => (Running(q)' <=> Running(q)) /\ owner'[q] = owner[q]
  BY <1>1, <1>3 DEF ReplyInv, TypeInv, Running
<1>7. \A q \in Requests : Running(q) => q # r /\ q <= r /\ owner[q] \in Sessions /\ AiBusy'[owner[q]]
  BY <1>1, <1>2, <1>3 DEF ReplyInv, TypeInv, BusyOK, Requests
<1>8. owner'[r] = s /\ AiBusy'[s] /\ (AiBusy[s] => ~Running(r)')
  BY <1>1, <1>3 DEF ReplyInv, TypeInv, Running
<1>9. \A q \in Requests : Running(q) /\ owner[q] = s => AiBusy[s]
  BY DEF ReplyInv, BusyOK
<1>10. BusyOK'
  <2> SUFFICES ASSUME NEW p \in Requests, Running(p)'
               PROVE  /\ p <= asked' /\ owner'[p] \in Sessions /\ AiBusy'[owner'[p]]
                      /\ \A q \in Requests : Running(q)' /\ owner'[q] = owner'[p] => q = p
    BY DEF BusyOK
  <2>1. p <= asked' /\ owner'[p] \in Sessions /\ AiBusy'[owner'[p]]
    BY <1>1, <1>6, <1>7, <1>8 DEF Requests
  <2>2. \A q \in Requests : Running(q)' /\ owner'[q] = owner'[p] => q = p
    <3> SUFFICES ASSUME NEW q \in Requests, Running(q)', owner'[q] = owner'[p] PROVE q = p
      OBVIOUS
    <3>1. CASE p # r /\ q # r
      BY <1>6, <3>1 DEF ReplyInv, BusyOK
    <3>2. CASE p = r /\ q # r
      BY <1>6, <1>8, <1>9, <3>2
    <3>3. CASE p # r /\ q = r
      BY <1>6, <1>8, <1>9, <3>3
    <3> QED
      BY <3>1, <3>2, <3>3
  <2> QED
    BY <2>1, <2>2
<1> QED
  BY <1>1, <1>2, <1>4, <1>5, <1>10 DEF ReplyInv

LEMMA ReplyLeave ==
  ASSUME ReplyInv, NEW r \in Requests, Leave(r)
  PROVE  ReplyInv'
<1>1. /\ stage[r] = "leave" /\ stage' = [stage EXCEPT ![r] = "over"]
      /\ AiBusy' = [AiBusy EXCEPT ![owner[r]] = FALSE]
      /\ UNCHANGED <<asked, owner, attempt, shown>>
  BY DEF Leave, Goto, frame
<1>2. Running(r) /\ "over" \in Stages
  BY <1>1 DEF Running, Stages
<1>3. TypeInv'
  BY <1>1, <1>2 DEF ReplyInv, TypeInv
<1>4. ShownOK'
  BY <1>1 DEF ReplyInv, TypeInv, ShownOK, Fits, Texts
<1>5. \A q \in Requests : Running(q)' => Running(q) /\ q # r
  BY <1>1 DEF ReplyInv, TypeInv, Running
<1>6. \A q \in Requests : Running(q) /\ q # r => owner[q] # owner[r]
  BY <1>2 DEF ReplyInv, BusyOK
<1>7. BusyOK'
  BY <1>1, <1>5, <1>6 DEF ReplyInv, TypeInv, BusyOK
<1> QED
  BY <1>3, <1>4, <1>7 DEF ReplyInv

LEMMA ReplyStep == ReplyInv /\ [Next]_vars => ReplyInv'
<1> SUFFICES ASSUME ReplyInv, [Next]_vars PROVE ReplyInv'
  OBVIOUS
<1>1. CASE \E s \in Sessions : Ask(s)
  BY <1>1, ReplyAsk
<1>2. CASE \E r \in Requests : Coroutine(r)
  BY <1>2, CoroutineGoesOn, ReplyGoesOn, ReplyLeave
<1>3. CASE UNCHANGED vars
  BY <1>3 DEF vars, frame, ReplyInv, TypeInv, BusyOK, ShownOK, Fits, Running
<1> QED
  BY <1>1, <1>2, <1>3 DEF Next

\* AiBusy of a session is set as long as a coroutine of it runs, and its
\* text is of one attempt (ClientPacketHandler.cpp:1014).
THEOREM SpecReply == Spec => []ReplyInv
<1> QED
  BY ReplyStarts, ReplyStep, PTL DEF Spec

\* A session has one running request, and a request shows text of one attempt.
THEOREM SpecOneReplyAtATime == Spec => []OneReplyAtATime
<1>1. ReplyInv => OneReplyAtATime
  <2> SUFFICES ASSUME ReplyInv PROVE OneReplyAtATime
    OBVIOUS
  <2>1. \A r, q \in Requests : Running(r) /\ Running(q) /\ owner[r] = owner[q] => r = q
    BY DEF ReplyInv, BusyOK
  <2>2. ASSUME NEW r \in Requests PROVE Cardinality(shown[r]) <= 1
    <3>1. \E k \in Nat : shown[r] = {} \/ shown[r] = {k}
      BY DEF ReplyInv, ShownOK, Fits
    <3>2. Cardinality(shown[r]) \in {0, 1}
      BY <3>1, FS_EmptySet, FS_Singleton
    <3> QED
      BY <3>2
  <2> QED
    BY <2>1, <2>2 DEF OneReplyAtATime
<1> QED
  BY <1>1, SpecReply, PTL

-------------------------------------------------------------------------------
(* The quota *)

\* Requests that have passed the check and are not counted yet
PassedStages == {"save", "insert", "load", "stream", "store", "count", "tally"}
Passed == {r \in Requests : stage[r] \in PassedStages}

Bound == DailyCalls + Cardinality(Sessions) - 1

\* Calls that a conflict keeps out of the usage, now or when they are counted
Missed ==
  With("conflict") \cup
  {r \in Requests : fate[r] = "none" /\ stage[r] = "count" /\ seen[r] # usage}

Kept == {"counted", "failed"}

\* What is known of a call before and after it is counted
FateOK(next, f) ==
  /\ next \notin {"count", "tally", "leave", "over"} => f = "none"
  /\ next = "count" => f \in {"none", "failed"}
  /\ next = "tally" => f = "failed"

FateTypes ==
  /\ usage \in Nat /\ seen \in [Requests -> Nat] /\ fate \in [Requests -> Fates]
  /\ \A r \in Requests : FateOK(stage[r], fate[r]) /\ (r > asked => fate[r] = "none")
  /\ \A m \in Answers : m.req \in Requests /\ fate[m.req] \in Kept

FateInv ==
  /\ FateTypes
  /\ usage = Cardinality(With("counted"))
  /\ Cardinality(Missed) <= (Cardinality(Sessions) - 1) * usage

QuotaInv == usage \in Nat /\ usage + Cardinality(Passed) <= Bound

LEMMA RequestsFinite == \A R \in SUBSET Requests : IsFiniteSet(R) /\ Cardinality(R) \in Nat
<1>1. IsFiniteSet(Requests)
  BY Constants, FS_Interval DEF Requests
<1> QED
  BY <1>1, FS_Subset, FS_CardinalityType

\* The running requests are of different sessions, so there are not more.
LEMMA RunningBound ==
  ASSUME ReplyInv, NEW R \in SUBSET Requests, \A r \in R : Running(r)
  PROVE  Cardinality(R) <= Cardinality(Sessions)
<1> DEFINE f == [r \in R |-> owner[r]]
<1>1. f \in [R -> Sessions]
  BY DEF ReplyInv, BusyOK
<1>2. \A r, q \in R : f[r] = f[q] => r = q
  BY DEF ReplyInv, BusyOK
<1>3. f \in Injection(R, Sessions)
  BY <1>1, <1>2 DEF Injection, IsInjective
<1> QED
  BY <1>3, Constants, FS_Injection

LEMMA QuotaStarts == Init => FateInv /\ QuotaInv
<1> SUFFICES ASSUME Init PROVE FateInv /\ QuotaInv
  OBVIOUS
<1>1. /\ Passed = {} /\ Answers = {} /\ usage = 0 /\ With("counted") = {} /\ Missed = {}
  BY DEF Init, Passed, PassedStages, Answers, With, Missed
<1>2. FateTypes
  BY <1>1 DEF Init, FateTypes, FateOK, Fates
<1>3. Cardinality({}) = 0
  BY FS_EmptySet
<1>4. (Cardinality(Sessions) - 1) * usage = 0
  BY <1>1, Constants
<1>5. FateInv
  BY <1>1, <1>2, <1>3, <1>4 DEF FateInv
<1>6. QuotaInv
  BY <1>1, <1>3, Constants DEF QuotaInv, Bound
<1> QED
  BY <1>5, <1>6

\* A step of r that counts nothing: an answer is added only if the call fails
\* to be counted, and no further call is missed.
Moves(r, next, f, n) ==
  /\ Goto(r, next) /\ fate' = [fate EXCEPT ![r] = f] /\ seen' = [seen EXCEPT ![r] = n]
  /\ FateOK(next, f)
  /\ f = "counted" <=> fate[r] = "counted"
  /\ f = "conflict" \/ (f = "none" /\ next = "count" /\ n # usage) => r \in Missed
  /\ fate[r] \in Kept => f \in Kept
  /\ \A m \in Answers' \ Answers : m.req = r /\ f \in Kept

Uncounting(r) ==
  /\ Running(r) /\ UNCHANGED <<asked, usage>>
  /\ \E next \in Stages, f \in Fates, n \in Nat : Moves(r, next, f, n)

LEMMA FateUncounting ==
  ASSUME ReplyInv, FateInv, NEW r \in Requests, Uncounting(r)
  PROVE  FateInv'
<1>1. PICK next \in Stages, f \in Fates, n \in Nat : Moves(r, next, f, n)
  BY DEF Uncounting
<1>2. /\ Running(r) /\ UNCHANGED <<asked, usage>> /\ r <= asked
  BY DEF Uncounting, ReplyInv, BusyOK
<1>3. /\ usage \in Nat /\ seen \in [Requests -> Nat] /\ fate \in [Requests -> Fates]
      /\ stage \in [Requests -> Stages] /\ asked \in Nat /\ r \in Nat
  BY DEF FateInv, FateTypes, ReplyInv, TypeInv, Requests
<1>4. /\ seen' \in [Requests -> Nat] /\ fate' \in [Requests -> Fates]
      /\ stage'[r] = next /\ fate'[r] = f /\ seen'[r] = n
      /\ \A q \in Requests \ {r} : stage'[q] = stage[q] /\ fate'[q] = fate[q] /\ seen'[q] = seen[q]
  BY <1>1, <1>3 DEF Moves, Goto
<1>5. FateTypes'
  <2>1. ASSUME NEW q \in Requests
        PROVE  FateOK(stage[q], fate[q])' /\ (q > asked' => fate'[q] = "none")
    <3>1. CASE q = r
      BY <1>1, <1>2, <1>3, <1>4, <3>1 DEF Moves, FateOK
    <3>2. CASE q # r
      BY <1>2, <1>4, <3>2 DEF FateInv, FateTypes, FateOK
    <3> QED
      BY <3>1, <3>2
  <2>2. ASSUME NEW m \in Answers' PROVE m.req \in Requests /\ fate'[m.req] \in Kept
    <3>1. CASE m \in Answers
      <4>1. m.req \in Requests /\ fate[m.req] \in Kept
        BY <3>1 DEF FateInv, FateTypes
      <4> QED
        BY <1>1, <1>4, <4>1 DEF Moves
    <3>2. CASE m \notin Answers
      BY <1>1, <1>4, <3>2 DEF Moves
    <3> QED
      BY <3>1, <3>2
  <2>3. Kept' = Kept
    BY DEF Kept
  <2> QED
    BY <1>2, <1>3, <1>4, <2>1, <2>2, <2>3 DEF FateTypes
<1>6. With("counted")' = With("counted")
  BY <1>1, <1>4 DEF With, Moves
<1>7. Missed' \subseteq Missed
  <2> SUFFICES ASSUME NEW q \in Missed' PROVE q \in Missed
    OBVIOUS
  <2>1. q \in Requests
    BY DEF Missed, With
  <2>2. CASE q = r
    BY <1>1, <1>2, <1>4, <2>2 DEF Missed, With, Moves
  <2>3. CASE q # r
    BY <1>2, <1>4, <2>1, <2>3 DEF Missed, With
  <2> QED
    BY <2>2, <2>3
<1>8. Cardinality(Missed') <= Cardinality(Missed) /\ {Cardinality(Missed), Cardinality(Missed')} \subseteq Nat
  <2>1. Missed \in SUBSET Requests /\ Missed' \in SUBSET Requests
    BY <1>7 DEF Missed, With
  <2> QED
    BY <1>7, <2>1, RequestsFinite, FS_Subset
<1>9. PICK b : b = (Cardinality(Sessions) - 1) * usage
  OBVIOUS
<1>10. b \in Int /\ Cardinality(Missed) <= b /\ b = (Cardinality(Sessions) - 1) * usage'
  BY <1>2, <1>3, <1>9, Constants DEF FateInv
<1>11. Cardinality(Missed') <= b
  BY <1>8, <1>10
<1>12. usage' = Cardinality(With("counted")')
  BY <1>2, <1>6 DEF FateInv
<1> QED
  BY <1>5, <1>9, <1>10, <1>11, <1>12 DEF FateInv

\* A step before the call is answered, or after it is counted or is not
LEMMA KeepsFate ==
  ASSUME ReplyInv, FateInv, NEW r \in Requests, Running(r),
         NEW next \in Stages \ {"count", "tally"}, Goto(r, next),
         next \in {"leave", "over"} \/ stage[r] \notin {"count", "tally", "leave"},
         UNCHANGED <<asked, fate, usage>>, Answers' = Answers,
         seen' = seen \/ seen' = [seen EXCEPT ![r] = 0]
  PROVE  FateInv'
<1>1. /\ seen \in [Requests -> Nat] /\ fate \in [Requests -> Fates] /\ FateOK(stage[r], fate[r])
  BY DEF FateInv, FateTypes
<1>2. PICK n \in Nat : seen' = [seen EXCEPT ![r] = n]
  <2>1. seen = [seen EXCEPT ![r] = seen[r]] /\ seen[r] \in Nat /\ 0 \in Nat
    BY <1>1
  <2> QED
    BY <2>1
<1>3. fate' = [fate EXCEPT ![r] = fate[r]] /\ fate[r] \in Fates
  BY <1>1
<1>4. FateOK(next, fate[r])
  BY <1>1 DEF FateOK, Running
<1>5. fate[r] = "conflict" => r \in Missed
  BY DEF Missed, With
<1>6. Moves(r, next, fate[r], n)
  BY <1>2, <1>3, <1>4, <1>5 DEF Moves
<1> QED
  BY <1>2, <1>3, <1>6, FateUncounting DEF Uncounting

LEMMA FateDone ==
  ASSUME ReplyInv, FateInv, NEW r \in Requests, Running(r), Done(r)
  PROVE  FateInv'
<1>1. /\ Goto(r, "leave") /\ "leave" \in Stages \ {"count", "tally"}
      /\ seen' = [seen EXCEPT ![r] = 0] /\ UNCHANGED <<asked, fate, usage, messages>>
  BY DEF Done, Ends, Forget, tables, Stages
<1>2. Answers' = Answers
  BY <1>1 DEF Answers
<1> QED
  BY <1>1, <1>2, KeepsFate

\* What cannot be counted because of a conflict is in Missed already.
LEMMA FateUncounted ==
  ASSUME ReplyInv, FateInv, NEW r \in Requests, stage[r] \in {"count", "tally"},
         NEW why, Uncounted(r, why),
         why = "failed" \/ (why = "conflict" /\ stage[r] = "count" /\ fate[r] # "failed" /\ usage # seen[r])
  PROVE  FateInv'
<1>1. /\ Goto(r, "leave") /\ fate' = [fate EXCEPT ![r] = why] /\ seen' = [seen EXCEPT ![r] = 0]
      /\ UNCHANGED <<asked, usage, messages>>
  BY DEF Uncounted, Ends, Forget, tables
<1>2. FateOK(stage[r], fate[r])
  BY DEF FateInv, FateTypes
<1>3. fate[r] \in {"none", "failed"}
  BY <1>2 DEF FateOK
<1>4. why = "conflict" => r \in Missed
  BY <1>3 DEF Missed
<1>5. FateOK("leave", why) /\ "leave" \in Stages /\ why \in Fates /\ 0 \in Nat
  BY DEF FateOK, Stages, Fates
<1>6. Answers' = Answers
  BY <1>1 DEF Answers
<1>7. fate[r] \in Kept => why \in Kept
  BY <1>3 DEF Kept
<1>8. why # "counted" /\ fate[r] # "counted"
  BY <1>3
<1>9. Moves(r, "leave", why, 0)
  BY <1>1, <1>4, <1>5, <1>6, <1>7, <1>8 DEF Moves
<1>10. Running(r)
  BY DEF Running
<1> QED
  BY <1>1, <1>5, <1>9, <1>10, FateUncounting DEF Uncounting

LEMMA FateSaveQuestion ==
  ASSUME ReplyInv, FateInv, NEW r \in Requests, SaveQuestion(r)
  PROVE  FateInv'
<1>1. Running(r) /\ stage[r] = "insert"
  BY DEF SaveQuestion, Running
<1>2. CASE Done(r)
  BY <1>1, <1>2, FateDone
<1>3. CASE ~Done(r)
  <2>1. PICK m : m = [at |-> at[r], role |-> "user", req |-> r]
    OBVIOUS
  <2>2. messages' = messages \cup {m} \/ messages' = messages
    BY <1>3, <2>1 DEF SaveQuestion
  <2>3. Answers' = Answers
    BY <2>1, <2>2 DEF Answers
  <2>4. \E next \in {"load", "leave"} : Goto(r, next)
    BY <1>3 DEF SaveQuestion, Ends
  <2>5. UNCHANGED <<asked, fate, usage>> /\ (seen' = seen \/ seen' = [seen EXCEPT ![r] = 0])
    BY <1>3 DEF SaveQuestion, Ends, Forget, frame
  <2>6. {"load", "leave"} \subseteq Stages \ {"count", "tally"}
    BY DEF Stages
  <2> QED
    BY <1>1, <2>3, <2>4, <2>5, <2>6, KeepsFate
<1> QED
  BY <1>2, <1>3

LEMMA FateLoadUsage ==
  ASSUME ReplyInv, FateInv, NEW r \in Requests, LoadUsage(r)
  PROVE  FateInv'
<1>1. PICK n \in Calls("select") :
        /\ seen' = [seen EXCEPT ![r] = n]
        /\ fate' = [fate EXCEPT ![r] = IF n = usage THEN "none" ELSE "failed"]
  BY DEF LoadUsage
<1>2. /\ stage[r] = "store" /\ Goto(r, "count") /\ UNCHANGED <<asked, usage, messages>>
  BY DEF LoadUsage
<1>3. n \in Nat
  BY DEF Calls, FateInv, FateTypes
<1>4. FateOK(stage[r], fate[r])
  BY DEF FateInv, FateTypes
<1>5. fate[r] = "none"
  BY <1>2, <1>4 DEF FateOK
<1>6. PICK f : f = IF n = usage THEN "none" ELSE "failed"
  OBVIOUS
<1>7. f \in Fates /\ f \in {"none", "failed"} /\ FateOK("count", f) /\ "count" \in Stages
  BY <1>6 DEF FateOK, Fates, Stages
<1>8. Answers' = Answers
  BY <1>2 DEF Answers
<1>9. fate[r] \notin Kept /\ fate[r] # "counted" /\ f # "counted" /\ f # "conflict"
  BY <1>5, <1>7 DEF Kept
<1>10. f = "none" => n = usage
  BY <1>6
<1>11. Moves(r, "count", f, n)
  BY <1>1, <1>2, <1>6, <1>7, <1>8, <1>9, <1>10 DEF Moves
<1>12. Running(r)
  BY <1>2 DEF Running
<1> QED
  BY <1>2, <1>3, <1>7, <1>11, <1>12, FateUncounting DEF Uncounting

LEMMA FateCountAlone ==
  ASSUME ReplyInv, FateInv, NEW r \in Requests, CountAlone(r)
  PROVE  FateInv'
<1>1. /\ stage[r] = "count" /\ UNCHANGED <<asked, usage>> /\ messages' = messages \cup Answer(r)
      /\ fate' = [fate EXCEPT ![r] = "failed"]
  BY DEF CountAlone, Ends
<1>2. PICK next \in {"tally", "leave"} : Goto(r, next)
  BY DEF CountAlone, Ends
<1>3. seen \in [Requests -> Nat] /\ FateOK(stage[r], fate[r])
  BY DEF FateInv, FateTypes
<1>4. PICK n \in Nat : seen' = [seen EXCEPT ![r] = n]
  <2>1. seen = [seen EXCEPT ![r] = seen[r]] /\ seen[r] \in Nat /\ 0 \in Nat
    BY <1>3
  <2>2. seen' = seen \/ seen' = [seen EXCEPT ![r] = 0]
    BY DEF CountAlone, Ends, Forget, frame
  <2> QED
    BY <2>1, <2>2
<1>5. next \in Stages /\ "failed" \in Fates /\ FateOK(next, "failed")
  BY DEF Stages, Fates, FateOK
<1>6. fate[r] # "counted"
  BY <1>1, <1>3 DEF FateOK
<1>7. \A m \in Answers' \ Answers : m.req = r
  BY <1>1 DEF Answers, Answer
<1>8. Moves(r, next, "failed", n)
  BY <1>1, <1>2, <1>4, <1>5, <1>6, <1>7 DEF Moves, Kept
<1>9. Running(r)
  BY <1>1 DEF Running
<1> QED
  BY <1>1, <1>2, <1>4, <1>5, <1>8, <1>9, FateUncounting DEF Uncounting

\* A count is one more call of the usage, and every other running request, at
\* most one of each further session, may now meet a conflict.
LEMMA FateCounted ==
  ASSUME ReplyInv, FateInv, NEW r \in Requests, stage[r] \in {"count", "tally"}, Counted(r),
         messages' = messages \/ messages' = messages \cup Answer(r)
  PROVE  FateInv'
<1>1. /\ usage' = usage + 1 /\ fate' = [fate EXCEPT ![r] = "counted"] /\ UNCHANGED asked
      /\ stage' = [stage EXCEPT ![r] = "leave"] /\ seen' = [seen EXCEPT ![r] = 0]
  BY DEF Counted, Ends, Forget, Goto
<1>2. /\ usage \in Nat /\ seen \in [Requests -> Nat] /\ fate \in [Requests -> Fates]
      /\ stage \in [Requests -> Stages] /\ asked \in Nat /\ r \in Nat
  BY DEF FateInv, FateTypes, ReplyInv, TypeInv, Requests
<1>3. /\ seen' \in [Requests -> Nat] /\ fate' \in [Requests -> Fates]
      /\ stage'[r] = "leave" /\ fate'[r] = "counted"
      /\ \A q \in Requests \ {r} : stage'[q] = stage[q] /\ fate'[q] = fate[q] /\ seen'[q] = seen[q]
  BY <1>1, <1>2 DEF Fates
<1>4. Running(r) /\ r <= asked
  BY DEF Running, ReplyInv, BusyOK
<1>5. FateTypes'
  <2>1. ASSUME NEW q \in Requests
        PROVE  FateOK(stage[q], fate[q])' /\ (q > asked' => fate'[q] = "none")
    <3>1. CASE q = r
      BY <1>1, <1>2, <1>3, <1>4, <3>1 DEF FateOK
    <3>2. CASE q # r
      BY <1>1, <1>3, <3>2 DEF FateInv, FateTypes, FateOK
    <3> QED
      BY <3>1, <3>2
  <2>2. ASSUME NEW m \in Answers' PROVE m.req \in Requests /\ fate'[m.req] \in Kept
    <3>1. CASE m \in Answers
      <4>1. m.req \in Requests /\ fate[m.req] \in Kept
        BY <3>1 DEF FateInv, FateTypes
      <4> QED
        BY <1>3, <4>1 DEF Kept
    <3>2. CASE m \notin Answers
      <4>1. m.req = r
        BY <3>2 DEF Answers, Answer
      <4> QED
        BY <1>3, <4>1 DEF Kept
    <3> QED
      BY <3>1, <3>2
  <2>3. Kept' = Kept /\ usage' \in Nat
    BY <1>1, <1>2 DEF Kept
  <2> QED
    BY <1>1, <1>3, <2>1, <2>2, <2>3 DEF FateTypes
<1>6. usage' = Cardinality(With("counted")')
  <2>1. FateOK(stage[r], fate[r])
    BY DEF FateInv, FateTypes
  <2>2. With("counted")' = With("counted") \cup {r} /\ r \notin With("counted")
    BY <1>3, <2>1 DEF With, FateOK
  <2>3. With("counted") \in SUBSET Requests
    BY DEF With
  <2>4. Cardinality(With("counted") \cup {r}) = Cardinality(With("counted")) + 1
    BY <2>2, <2>3, RequestsFinite, FS_AddElement
  <2> QED
    BY <1>1, <2>2, <2>4 DEF FateInv
<1>7. PICK Others : Others = {q \in Requests \ {r} : Running(q)}
  OBVIOUS
<1>8. Missed' \subseteq Missed \cup Others
  <2> SUFFICES ASSUME NEW q \in Missed', q \notin Missed PROVE q \in Others
    OBVIOUS
  <2>1. q \in Requests /\ q # r
    BY <1>3 DEF Missed, With
  <2> QED
    BY <1>3, <1>7, <2>1 DEF Missed, With, Running
<1>9. Cardinality(Others) <= Cardinality(Sessions) - 1 /\ IsFiniteSet(Others) /\ Cardinality(Others) \in Nat
  <2>1. Others \cup {r} \in SUBSET Requests /\ \A q \in Others \cup {r} : Running(q)
    BY <1>4, <1>7
  <2>2. Cardinality(Others \cup {r}) <= Cardinality(Sessions)
    BY <2>1, RunningBound
  <2>3. Others \in SUBSET Requests /\ r \notin Others
    BY <1>7
  <2>4. IsFiniteSet(Others) /\ Cardinality(Others) \in Nat
    BY <2>3, RequestsFinite
  <2>5. Cardinality(Others \cup {r}) = Cardinality(Others) + 1
    BY <2>3, <2>4, FS_AddElement
  <2> QED
    BY <2>2, <2>4, <2>5, Constants
<1>10. Cardinality(Missed') <= Cardinality(Missed) + Cardinality(Others) /\ Cardinality(Missed) \in Nat /\ Cardinality(Missed') \in Nat
  <2>1. Missed \in SUBSET Requests /\ Missed' \in SUBSET Requests /\ Missed \cup Others \in SUBSET Requests
    BY <1>7 DEF Missed, With
  <2>2. IsFiniteSet(Missed) /\ IsFiniteSet(Missed') /\ IsFiniteSet(Missed \cup Others)
    BY <2>1, RequestsFinite
  <2>3. /\ Cardinality(Missed') <= Cardinality(Missed \cup Others)
        /\ {Cardinality(Missed), Cardinality(Missed'), Cardinality(Missed \cup Others)} \subseteq Nat
    BY <1>8, <2>1, <2>2, RequestsFinite, FS_Subset
  <2>4. /\ Cardinality(Missed \cup Others) =
             Cardinality(Missed) + Cardinality(Others) - Cardinality(Missed \cap Others)
    BY <1>9, <2>2, FS_Union
  <2>5. Cardinality(Missed \cap Others) \in Nat
    <3>1. Missed \cap Others \in SUBSET Requests
      BY <2>1
    <3> QED
      BY <3>1, RequestsFinite
  <2> QED
    BY <1>9, <2>3, <2>4, <2>5
<1>11. Cardinality(Missed') <= (Cardinality(Sessions) - 1) * usage'
  <2>1. PICK k : k = Cardinality(Sessions) - 1
    OBVIOUS
  <2>2. k \in Nat /\ Cardinality(Others) <= k /\ Cardinality(Missed) <= k * usage
    BY <1>9, <2>1, Constants DEF FateInv
  <2>3. k * (usage + 1) = k * usage + k /\ k * usage \in Nat
    BY <1>2, <2>2
  <2>4. Cardinality(Missed') <= k * (usage + 1)
    BY <1>9, <1>10, <2>2, <2>3
  <2> QED
    BY <1>1, <2>1, <2>4
<1> QED
  BY <1>5, <1>6, <1>11 DEF FateInv

LEMMA FateCoroutine ==
  ASSUME ReplyInv, FateInv, NEW r \in Requests, Coroutine(r)
  PROVE  FateInv'
<1>0. /\ stage \in [Requests -> Stages]
      /\ {"save", "insert", "stream", "store", "over"} \subseteq Stages \ {"count", "tally"}
  BY DEF ReplyInv, TypeInv, Stages
<1>1. CASE Check(r)
  <2>1. Running(r) /\ stage[r] = "check"
    BY <1>1 DEF Check, Running
  <2>2. CASE Done(r)
    BY <2>1, <2>2, FateDone
  <2>3. CASE ~Done(r)
    <3>1. Goto(r, "save") /\ UNCHANGED <<asked, fate, usage, seen, messages>>
      BY <1>1, <2>3 DEF Check, frame, tables
    <3>2. Answers' = Answers
      BY <3>1 DEF Answers
    <3> QED
      BY <1>0, <2>1, <3>1, <3>2, KeepsFate
  <2> QED
    BY <2>2, <2>3
<1>2. CASE StampQuestion(r)
  <2>1. /\ Running(r) /\ stage[r] = "save" /\ Goto(r, "insert")
        /\ UNCHANGED <<asked, fate, usage, seen, messages>>
    BY <1>2 DEF StampQuestion, Running
  <2>2. Answers' = Answers
    BY <2>1 DEF Answers
  <2> QED
    BY <1>0, <2>1, <2>2, KeepsFate
<1>3. CASE SaveQuestion(r)
  BY <1>3, FateSaveQuestion
<1>4. CASE Load(r)
  <2>1. Running(r) /\ stage[r] = "load"
    BY <1>4 DEF Load, Running
  <2>2. CASE Done(r)
    BY <2>1, <2>2, FateDone
  <2>3. CASE ~Done(r)
    <3>1. Goto(r, "stream") /\ UNCHANGED <<asked, fate, usage, seen, messages>>
      BY <1>4, <2>3 DEF Load, tables
    <3>2. Answers' = Answers
      BY <3>1 DEF Answers
    <3> QED
      BY <1>0, <2>1, <3>1, <3>2, KeepsFate
  <2> QED
    BY <2>2, <2>3
<1>5. ASSUME stage[r] = "stream", UNCHANGED <<stage, asked, seen, fate, tables>>
      PROVE  FateInv'
  <2>1. Running(r) /\ Goto(r, "stream") /\ UNCHANGED usage
    BY <1>0, <1>5 DEF Running, Goto, tables
  <2>2. Answers' = Answers
    BY <1>5 DEF Answers, tables
  <2> QED
    BY <1>0, <1>5, <2>1, <2>2, KeepsFate
<1>6. ASSUME stage[r] = "stream", Done(r) PROVE FateInv'
  BY <1>6, FateDone DEF Running
<1>7. CASE Delta(r)
  BY <1>5, <1>7 DEF Delta
<1>8. CASE NetworkError(r) \/ Overloaded(r) \/ Rejected(r)
  BY <1>5, <1>6, <1>8 DEF NetworkError, Overloaded, Rejected, Retry
<1>9. CASE StreamEnds(r) \/ Refusal(r)
  <2>1. /\ stage[r] = "stream" /\ Goto(r, "store")
        /\ UNCHANGED <<asked, fate, usage, seen, messages>>
    BY <1>9 DEF StreamEnds, Refusal, Returns, tables
  <2>2. Answers' = Answers /\ Running(r)
    BY <2>1 DEF Answers, Running
  <2> QED
    BY <1>0, <2>1, <2>2, KeepsFate
<1>10. CASE LoadUsage(r)
  BY <1>10, FateLoadUsage
<1>11. CASE Count(r)
  <2>1. stage[r] = "count"
    BY <1>11 DEF Count
  <2>2. CASE Counted(r) /\ messages' = messages \cup Answer(r)
    BY <2>1, <2>2, FateCounted
  <2>3. CASE Uncounted(r, "failed")
    BY <2>1, <2>3, FateUncounted
  <2>4. CASE Uncounted(r, "conflict") /\ fate[r] # "failed" /\ usage # seen[r]
    BY <2>1, <2>4, FateUncounted
  <2> QED
    BY <1>11, <2>2, <2>3, <2>4 DEF Count
<1>12. CASE CountAlone(r)
  BY <1>12, FateCountAlone
<1>13. CASE Tally(r)
  <2>1. stage[r] = "tally"
    BY <1>13 DEF Tally
  <2>2. CASE Counted(r) /\ UNCHANGED messages
    BY <2>1, <2>2, FateCounted
  <2>3. CASE Uncounted(r, "failed")
    BY <2>1, <2>3, FateUncounted
  <2> QED
    BY <1>13, <2>2, <2>3 DEF Tally
<1>14. CASE Throw(r)
  <2>1. ASSUME Running(r), Done(r) PROVE FateInv'
    BY <2>1, FateDone
  <2>2. ASSUME stage[r] \in {"count", "tally"}, Uncounted(r, "failed") PROVE FateInv'
    BY <2>2, FateUncounted
  <2> QED
    BY <1>14, <2>1, <2>2 DEF Throw, Running
<1>15. CASE Leave(r)
  <2>1. /\ Running(r) /\ stage[r] = "leave" /\ Goto(r, "over")
        /\ UNCHANGED <<asked, fate, usage, seen, messages>>
    BY <1>15 DEF Leave, Running, frame, tables
  <2>2. Answers' = Answers
    BY <2>1 DEF Answers
  <2> QED
    BY <1>0, <2>1, <2>2, KeepsFate
<1> QED
  BY <1>1, <1>2, <1>3, <1>4, <1>7, <1>8, <1>9, <1>10, <1>11, <1>12, <1>13, <1>14, <1>15
  DEF Coroutine

LEMMA FateAsk ==
  ASSUME ReplyInv, FateInv, NEW s \in Sessions, Ask(s)
  PROVE  FateInv'
<1>1. PICK r \in Requests : r = asked + 1
  BY ReplyAsk DEF Ask
<1>2. /\ asked' = r /\ UNCHANGED <<seen, fate, messages, usage>>
      /\ \E next \in {"over", "check"} : stage' = [stage EXCEPT ![r] = next]
  BY <1>1 DEF Ask, Goto, frame, tables
<1>3. /\ stage \in [Requests -> Stages] /\ asked \in Nat /\ r \in Nat
      /\ seen \in [Requests -> Nat] /\ fate \in [Requests -> Fates]
  BY DEF ReplyInv, TypeInv, Requests, FateInv, FateTypes
<1>4. stage'[r] \in {"over", "check"} /\ \A q \in Requests \ {r} : stage'[q] = stage[q]
  BY <1>2, <1>3
<1>5. fate[r] = "none"
  BY <1>1, <1>3 DEF FateInv, FateTypes
<1>6. Answers' = Answers /\ With("counted")' = With("counted") /\ Kept' = Kept
  BY <1>2 DEF Answers, With, Kept
<1>7. Missed' \subseteq Missed
  BY <1>2, <1>4 DEF Missed, With
<1>8. FateTypes'
  <2>1. ASSUME NEW q \in Requests
        PROVE  FateOK(stage[q], fate[q])' /\ (q > asked' => fate'[q] = "none")
    <3>1. CASE q = r
      BY <1>2, <1>4, <1>5, <3>1 DEF FateOK
    <3>2. CASE q # r
      <4>1. FateOK(stage[q], fate[q]) /\ (q > asked => fate[q] = "none") /\ q \in Nat
        BY DEF FateInv, FateTypes, Requests
      <4> QED
        BY <1>1, <1>2, <1>3, <1>4, <3>2, <4>1 DEF FateOK
    <3> QED
      BY <3>1, <3>2
  <2> QED
    BY <1>2, <1>6, <2>1 DEF FateInv, FateTypes
<1>9. Cardinality(Missed') <= Cardinality(Missed) /\ {Cardinality(Missed), Cardinality(Missed')} \subseteq Nat
  <2>1. Missed \in SUBSET Requests /\ Missed' \in SUBSET Requests
    BY <1>7 DEF Missed, With
  <2> QED
    BY <1>7, <2>1, RequestsFinite, FS_Subset
<1>10. PICK b : b = (Cardinality(Sessions) - 1) * usage
  OBVIOUS
<1>11. b \in Int /\ Cardinality(Missed) <= b /\ b = (Cardinality(Sessions) - 1) * usage'
  BY <1>2, <1>10, Constants DEF FateInv, FateTypes
<1>12. Cardinality(Missed') <= b
  BY <1>9, <1>11
<1> QED
  BY <1>2, <1>6, <1>8, <1>11, <1>12 DEF FateInv

LEMMA FateUnchanged ==
  ASSUME FateInv, UNCHANGED vars
  PROVE  FateInv'
<1>1. UNCHANGED <<asked, stage, seen, fate, messages, usage>>
  BY DEF vars, frame, tables
<1> QED
  BY <1>1 DEF FateInv, FateTypes, FateOK, Missed, With, Answers, Kept

\* A step that lets nobody past the check and counts nobody
LEMMA QuietStep ==
  ASSUME QuotaInv, Passed' \subseteq Passed, usage' = usage
  PROVE  QuotaInv'
<1>1. Passed \in SUBSET Requests
  BY DEF Passed
<1>2. /\ Cardinality(Passed) \in Nat /\ Cardinality(Passed') \in Nat
      /\ Cardinality(Passed') <= Cardinality(Passed)
  BY <1>1, RequestsFinite, FS_Subset
<1>3. Bound \in Int /\ Bound' = Bound
  BY Constants DEF Bound
<1> QED
  BY <1>2, <1>3 DEF QuotaInv

LEMMA QuietGoto ==
  ASSUME ReplyInv, QuotaInv, NEW r \in Requests, NEW next, Goto(r, next),
         stage[r] \in PassedStages \/ next \notin PassedStages, usage' = usage
  PROVE  QuotaInv'
<1>1. Passed' \subseteq Passed
  BY DEF Goto, ReplyInv, TypeInv, Passed
<1> QED
  BY <1>1, QuietStep

LEMMA QuietEnds ==
  ASSUME ReplyInv, QuotaInv, NEW r \in Requests, Ends(r), usage' = usage
  PROVE  QuotaInv'
<1>1. Goto(r, "leave") /\ "leave" \notin PassedStages
  BY DEF Ends, PassedStages
<1> QED
  BY <1>1, QuietGoto

LEMMA QuotaCheck ==
  ASSUME "quota" \notin Faults, ReplyInv, QuotaInv, NEW r \in Requests, Check(r)
  PROVE  QuotaInv'
<1>1. CASE Done(r)
  BY <1>1, QuietEnds DEF Done, tables
<1>2. CASE ~Done(r)
  <2>1. Goto(r, "save") /\ stage[r] = "check" /\ usage < DailyCalls /\ usage' = usage
    BY <1>2, Constants DEF Check, Calls, tables, QuotaInv
  <2>2. Passed' = Passed \cup {r}
    BY <2>1 DEF Goto, ReplyInv, TypeInv, Passed, PassedStages
  <2>3. Passed \cup {r} \in SUBSET Requests /\ \A q \in Passed \cup {r} : Running(q)
    BY <2>1 DEF Passed, PassedStages, Running
  <2>4. Cardinality(Passed') \in Nat /\ Cardinality(Passed') <= Cardinality(Sessions)
    BY <2>2, <2>3, RunningBound, RequestsFinite
  <2>5. Bound' = Bound
    BY DEF Bound
  <2>6. usage' + Cardinality(Passed') <= Bound
    BY <2>1, <2>4, Constants DEF Bound, QuotaInv
  <2> QED
    BY <2>1, <2>5, <2>6 DEF QuotaInv
<1> QED
  BY <1>1, <1>2

LEMMA QuotaCounted ==
  ASSUME ReplyInv, QuotaInv, NEW r \in Requests, stage[r] \in {"count", "tally"}, Counted(r)
  PROVE  QuotaInv'
<1>1. usage' = usage + 1 /\ Goto(r, "leave")
  BY DEF Counted, Ends
<1>2. Passed' = Passed \ {r} /\ r \in Passed /\ Passed \in SUBSET Requests
  BY <1>1 DEF Goto, ReplyInv, TypeInv, Passed, PassedStages
<1>3. Cardinality(Passed) \in Nat /\ Cardinality(Passed') = Cardinality(Passed) - 1
  BY <1>2, RequestsFinite, FS_RemoveElement
<1>4. Bound' = Bound /\ Bound \in Int
  BY Constants DEF Bound
<1> QED
  BY <1>1, <1>3, <1>4 DEF QuotaInv

LEMMA QuotaCoroutine ==
  ASSUME "quota" \notin Faults, ReplyInv, QuotaInv, NEW r \in Requests, Coroutine(r)
  PROVE  QuotaInv'
<1>0. ASSUME Done(r) \/ \E why \in Fates : Uncounted(r, why) PROVE QuotaInv'
  BY <1>0, QuietEnds DEF Done, Uncounted, tables
<1>1. CASE Check(r)
  BY <1>1, QuotaCheck
<1>2. CASE StampQuestion(r)
  BY <1>2, QuietGoto DEF StampQuestion, PassedStages
<1>3. CASE SaveQuestion(r)
  <2>1. stage[r] \in PassedStages /\ usage' = usage
    BY <1>3 DEF SaveQuestion, Done, tables, PassedStages
  <2>2. \E next \in {"load", "leave"} : Goto(r, next)
    BY <1>3 DEF SaveQuestion, Done, Ends
  <2> QED
    BY <2>1, <2>2, QuietGoto
<1>4. CASE Load(r)
  <2>1. stage[r] \in PassedStages /\ usage' = usage
    BY <1>4 DEF Load, Done, tables, PassedStages
  <2>2. \E next \in {"stream", "leave"} : Goto(r, next)
    BY <1>4 DEF Load, Done, Ends
  <2> QED
    BY <2>1, <2>2, QuietGoto
<1>5. ASSUME UNCHANGED <<stage, tables>> PROVE QuotaInv'
  <2>1. Passed' \subseteq Passed /\ usage' = usage
    BY <1>5 DEF Passed, tables
  <2> QED
    BY <2>1, QuietStep
<1>6. CASE Delta(r)
  BY <1>5, <1>6 DEF Delta
<1>7. CASE NetworkError(r) \/ Overloaded(r) \/ Rejected(r)
  BY <1>0, <1>5, <1>7 DEF NetworkError, Overloaded, Rejected, Retry
<1>8. CASE StreamEnds(r) \/ Refusal(r)
  <2>1. stage[r] \in PassedStages /\ Goto(r, "store") /\ usage' = usage
    BY <1>8 DEF StreamEnds, Refusal, Returns, tables, PassedStages
  <2> QED
    BY <2>1, QuietGoto
<1>9. CASE LoadUsage(r)
  BY <1>9, QuietGoto DEF LoadUsage, PassedStages
<1>10. CASE Count(r)
  BY <1>0, <1>10, QuotaCounted DEF Count, Fates
<1>11. CASE CountAlone(r)
  <2>1. stage[r] \in PassedStages /\ usage' = usage
    BY <1>11 DEF CountAlone, PassedStages
  <2>2. \E next \in {"tally", "leave"} : Goto(r, next)
    BY <1>11 DEF CountAlone, Ends
  <2> QED
    BY <2>1, <2>2, QuietGoto
<1>12. CASE Tally(r)
  BY <1>0, <1>12, QuotaCounted DEF Tally, Fates
<1>13. CASE Throw(r)
  BY <1>0, <1>13 DEF Throw, Fates
<1>14. CASE Leave(r)
  BY <1>14, QuietGoto DEF Leave, tables, PassedStages
<1> QED
  BY <1>1, <1>2, <1>3, <1>4, <1>6, <1>7, <1>8, <1>9, <1>10, <1>11, <1>12, <1>13, <1>14
  DEF Coroutine

LEMMA QuotaAsk ==
  ASSUME ReplyInv, QuotaInv, NEW s \in Sessions, Ask(s)
  PROVE  QuotaInv'
<1>1. usage' = usage /\ \E next \in {"over", "check"} : Goto(asked + 1, next)
  BY DEF Ask, tables
<1>2. asked + 1 \in Requests
  BY ReplyAsk DEF Ask
<1> QED
  BY <1>1, <1>2, QuietGoto DEF PassedStages

\* The usage is the number of the calls that were counted, it hides at most one
\* call of every further session for each of them, besides the calls on whose
\* way the database has failed, and only such a call can leave an answer that
\* is not counted. If the SELECT of the check does not fail, the usage exceeds
\* the quota by less than the sessions of the account. This bounds the counter,
\* and the calls only through it (AiChatService.cpp:255).
THEOREM SpecQuotaHolds == "quota" \notin Faults => (Spec => []QuotaHolds)
<1> SUFFICES ASSUME "quota" \notin Faults PROVE Spec => []QuotaHolds
  OBVIOUS
<1>1. ReplyInv /\ FateInv /\ [Next]_vars => (FateInv)'
  BY FateCoroutine, FateAsk, FateUnchanged DEF Next
<1>2. ReplyInv /\ QuotaInv /\ [Next]_vars => (QuotaInv)'
  <2>1. ASSUME UNCHANGED vars, QuotaInv PROVE QuotaInv'
    <3>1. Passed' \subseteq Passed /\ usage' = usage
      BY <2>1 DEF vars, tables, Passed
    <3> QED
      BY <2>1, <3>1, QuietStep
  <2> QED
    BY <2>1, QuotaCoroutine, QuotaAsk DEF Next
<1>3. FateInv /\ QuotaInv => QuotaHolds
  <2> SUFFICES ASSUME FateInv, QuotaInv PROVE QuotaHolds
    OBVIOUS
  <2>1. Passed \in SUBSET Requests /\ Missed \in SUBSET Requests /\ With("conflict") \subseteq Missed
    BY DEF Passed, Missed, With
  <2>2. /\ Cardinality(Passed) \in Nat /\ Cardinality(With("conflict")) <= Cardinality(Missed)
        /\ {Cardinality(With("conflict")), Cardinality(Missed)} \subseteq Nat
    BY <2>1, RequestsFinite, FS_Subset
  <2>3. usage <= DailyCalls + Cardinality(Sessions) - 1
    BY <2>2, Constants DEF QuotaInv, Bound
  <2>4. PICK b : b = (Cardinality(Sessions) - 1) * usage
    OBVIOUS
  <2>5. b \in Int /\ Cardinality(Missed) <= b
    BY <2>4, Constants DEF QuotaInv, FateInv
  <2>6. Cardinality(With("conflict")) <= b
    BY <2>2, <2>5
  <2>7. \A m \in Answers : fate[m.req] \in {"counted", "failed"}
    BY DEF FateInv, FateTypes, Kept
  <2> QED
    BY <2>3, <2>4, <2>6, <2>7 DEF QuotaHolds, FateInv
<1> QED
  BY <1>1, <1>2, <1>3, QuotaStarts, SpecReply, PTL DEF Spec

-------------------------------------------------------------------------------
(* Induction over the natural numbers, said of a set *)

LEMMA LeastNat ==
  ASSUME NEW T, T \subseteq Nat, T # {}
  PROVE  \E n \in T : \A m \in T : n <= m
<1>1. PICK R : R = OpToRel(<, Nat)
  OBVIOUS
<1>2. \E n \in T : \A m \in T : <<m, n>> \notin R
  BY <1>1, NatLessThanWellFounded, WFMin
<1>3. \A m, n \in Nat : m < n => <<m, n>> \in R
  BY <1>1 DEF OpToRel
<1>4. PICK n \in T : \A m \in T : <<m, n>> \notin R
  BY <1>2
<1>5. ASSUME NEW m \in T PROVE n <= m
  <2>1. m \in Nat /\ n \in Nat /\ ~(m < n)
    BY <1>3, <1>4
  <2> QED
    BY <2>1
<1> QED
  BY <1>5

LEMMA SetInduction ==
  ASSUME NEW T, 0 \in T, \A n \in Nat : n \in T => n + 1 \in T
  PROVE  Nat \subseteq T
<1> SUFFICES ASSUME Nat \ T # {} PROVE FALSE
  OBVIOUS
<1>1. PICK n \in Nat \ T : \A m \in Nat \ T : n <= m
  BY LeastNat
<1>2. n - 1 \in Nat /\ n - 1 \in T
  BY <1>1
<1> QED
  BY <1>1, <1>2

LEMMA MaxIs ==
  ASSUME NEW S, S \subseteq Nat, NEW m \in S, \A k \in S : k <= m
  PROVE  Max(S) = m
<1>1. \A k \in S : m >= k
  OBVIOUS
<1>2. PICK x : x = Max(S)
  OBVIOUS
<1>3. x \in S /\ \A k \in S : x >= k
  BY <1>1, <1>2 DEF Max
<1> QED
  BY <1>2, <1>3

LEMMA MaxExists ==
  ASSUME NEW n \in Nat, NEW S \in SUBSET (1 .. n), S # {}
  PROVE  Max(S) \in S /\ \A k \in S : k <= Max(S)
<1>1. PICK T : T = {k \in Nat : n - k \in S}
  OBVIOUS
<1>2. T \subseteq Nat /\ T # {}
  <2>1. PICK s \in S : TRUE
    OBVIOUS
  <2>2. n - s \in Nat /\ n - (n - s) = s
    OBVIOUS
  <2> QED
    BY <1>1, <2>2
<1>3. PICK t \in T : \A k \in T : t <= k
  BY <1>2, LeastNat
<1>4. n - t \in S
  BY <1>1, <1>3
<1>5. ASSUME NEW k \in S PROVE k <= n - t
  <2>1. n - k \in Nat /\ n - (n - k) = k
    OBVIOUS
  <2>2. n - k \in T
    BY <1>1, <2>1
  <2> QED
    BY <1>3, <1>2, <2>2
<1>6. Max(S) = n - t
  <2>1. S \subseteq Nat
    OBVIOUS
  <2> QED
    BY <1>4, <1>5, <2>1, MaxIs
<1> QED
  BY <1>4, <1>5, <1>6

-------------------------------------------------------------------------------
(* What BuildHistory makes of a sequence of rows *)

\* One turn of the loop
AddRow(out, m) ==
  IF out = <<>> /\ m.role # "user" THEN out
  ELSE IF out # <<>> /\ Last(out).role = m.role
  THEN [out EXCEPT ![Len(out)].of = @ \cup {m.req}]
  ELSE Append(out, [role |-> m.role, of |-> {m.req}])

\* out[s] is the result for the rows of s, whose last one is added last
Loop(rows, out, sets) ==
  out = [s \in sets |-> IF s = {} THEN <<>>
                        ELSE AddRow(out[s \ {Max(s)}], rows[Max(s)])]

LEMMA BuildHistoryIsLoop ==
  ASSUME NEW rows
  PROVE  BuildHistory(rows) =
           (CHOOSE out : Loop(rows, out, SUBSET DOMAIN rows))[DOMAIN rows]
  BY DEF BuildHistory, FoldLeft, MapThenFoldSet, AddRow, Loop

Small(n, k) == {s \in SUBSET (1 .. n) : Cardinality(s) <= k}

LEMMA SmallSets ==
  ASSUME NEW n \in Nat, NEW k \in Nat
  PROVE  /\ {} \in Small(n, k)
         /\ Small(n, 0) = {{}}
         /\ Small(n, k) \subseteq Small(n, k + 1)
         /\ \A s \in Small(n, k + 1) : s # {} => s \ {Max(s)} \in Small(n, k)
         /\ n <= k => Small(n, k) = SUBSET (1 .. n)
<1>1. \A s \in SUBSET (1 .. n) : IsFiniteSet(s) /\ Cardinality(s) \in Nat /\ Cardinality(s) <= n
  <2>1. IsFiniteSet(1 .. n) /\ Cardinality(1 .. n) = n
    BY FS_Interval
  <2> QED
    BY <2>1, FS_Subset, FS_CardinalityType
<1>2. IsFiniteSet({}) /\ Cardinality({}) = 0
  BY FS_EmptySet
<1>3. \A s \in SUBSET (1 .. n) : Cardinality(s) = 0 => s = {}
  BY <1>1, FS_EmptySet
<1>4. {} \in Small(n, k) /\ Small(n, 0) = {{}}
  BY <1>1, <1>2, <1>3 DEF Small
<1>5. Small(n, k) \subseteq Small(n, k + 1)
  BY <1>1 DEF Small
<1>6. ASSUME NEW s \in Small(n, k + 1), s # {} PROVE s \ {Max(s)} \in Small(n, k)
  <2>1. s \in SUBSET (1 .. n) /\ Cardinality(s) <= k + 1
    BY DEF Small
  <2>2. Max(s) \in s
    BY <1>6, <2>1, MaxExists
  <2>3. Cardinality(s \ {Max(s)}) = Cardinality(s) - 1
    BY <1>1, <2>1, <2>2, FS_RemoveElement
  <2>4. Cardinality(s) \in Nat
    BY <1>1, <2>1
  <2>5. Cardinality(s \ {Max(s)}) <= k
    BY <2>1, <2>3, <2>4
  <2> QED
    BY <2>1, <2>5 DEF Small
<1>7. n <= k => Small(n, k) = SUBSET (1 .. n)
  <2>1. ASSUME n <= k, NEW s \in SUBSET (1 .. n) PROVE s \in Small(n, k)
    <3>1. Cardinality(s) \in Nat /\ Cardinality(s) <= n
      BY <1>1
    <3> QED
      BY <2>1, <3>1 DEF Small
  <2> QED
    BY <2>1 DEF Small
<1> QED
  BY <1>4, <1>5, <1>6, <1>7

\* The loop is defined for any number of rows.
LEMMA LoopExists ==
  ASSUME NEW rows, NEW n \in Nat
  PROVE  \E out : Loop(rows, out, SUBSET (1 .. n))
<1>1. PICK T : T = {k \in Nat : \E out : Loop(rows, out, Small(n, k))}
  OBVIOUS
<1>2. 0 \in T
  <2>1. PICK out : out = [s \in Small(n, 0) |-> <<>>]
    OBVIOUS
  <2>2. \A s \in Small(n, 0) : s = {}
    BY SmallSets
  <2>3. Loop(rows, out, Small(n, 0))
    BY <2>1, <2>2 DEF Loop
  <2> QED
    BY <1>1, <2>3
<1>3. ASSUME NEW k \in Nat, k \in T PROVE k + 1 \in T
  <2>1. PICK f : Loop(rows, f, Small(n, k))
    BY <1>1, <1>3
  <2>2. PICK g : g = [s \in Small(n, k + 1) |->
                        IF s = {} THEN <<>> ELSE AddRow(f[s \ {Max(s)}], rows[Max(s)])]
    OBVIOUS
  <2>3. \A s \in Small(n, k) : g[s] = f[s]
    <3>1. Small(n, k) \subseteq Small(n, k + 1)
      BY SmallSets
    <3> QED
      BY <2>1, <2>2, <3>1 DEF Loop
  <2>4. \A s \in Small(n, k + 1) : s # {} => g[s \ {Max(s)}] = f[s \ {Max(s)}]
    BY <2>3, SmallSets
  <2>5. g = [s \in Small(n, k + 1) |->
               IF s = {} THEN <<>> ELSE AddRow(g[s \ {Max(s)}], rows[Max(s)])]
    BY <2>2, <2>4
  <2>6. Loop(rows, g, Small(n, k + 1))
    BY <2>5 DEF Loop
  <2> QED
    BY <1>1, <2>6
<1>4. n \in T
  BY <1>2, <1>3, SetInduction
<1>5. Small(n, n) = SUBSET (1 .. n)
  BY SmallSets
<1> QED
  BY <1>1, <1>4, <1>5

LEMMA LoopStep ==
  ASSUME NEW rows, NEW n \in Nat, DOMAIN rows = 1 .. n
  PROVE  \E out : /\ BuildHistory(rows) = out[n]
                  /\ out[0] = <<>>
                  /\ \A k \in 0 .. n - 1 : out[k + 1] = AddRow(out[k], rows[k + 1])
<1>1. PICK f : f = CHOOSE out : Loop(rows, out, SUBSET (1 .. n))
  OBVIOUS
<1>2. Loop(rows, f, SUBSET (1 .. n))
  BY <1>1, LoopExists
<1>3. BuildHistory(rows) = f[1 .. n]
  BY <1>1, BuildHistoryIsLoop
<1>4. PICK out : out = [k \in 0 .. n |-> f[1 .. k]]
  OBVIOUS
<1>5. out[n] = f[1 .. n] /\ out[0] = f[1 .. 0] /\ 1 .. 0 = {}
  BY <1>4
<1>6. f[{}] = <<>>
  BY <1>2 DEF Loop
<1>7. ASSUME NEW k \in 0 .. n - 1 PROVE out[k + 1] = AddRow(out[k], rows[k + 1])
  <2>1. out[k + 1] = f[1 .. k + 1] /\ out[k] = f[1 .. k]
    BY <1>4
  <2>2. 1 .. k + 1 \in SUBSET (1 .. n) /\ 1 .. k + 1 # {} /\ (1 .. k + 1) \ {k + 1} = 1 .. k
    OBVIOUS
  <2>3. Max(1 .. k + 1) = k + 1
    <3>1. /\ 1 .. k + 1 \subseteq Nat /\ k + 1 \in 1 .. k + 1
          /\ \A j \in 1 .. k + 1 : j <= k + 1
      OBVIOUS
    <3> QED
      BY <3>1, MaxIs
  <2>4. f[1 .. k + 1] = AddRow(f[(1 .. k + 1) \ {Max(1 .. k + 1)}], rows[Max(1 .. k + 1)])
    BY <1>2, <2>2 DEF Loop
  <2> QED
    BY <2>1, <2>2, <2>3, <2>4
<1> QED
  BY <1>3, <1>5, <1>6, <1>7

Turn == [role : {"user", "assistant"}, of : SUBSET Requests]

Alternates(h) ==
  \A k \in 1 .. Len(h) : h[k].role = IF k % 2 = 1 THEN "user" ELSE "assistant"

LEMMA AddRowAlternates ==
  ASSUME NEW h \in Seq(Turn), Alternates(h), NEW m \in Message
  PROVE  /\ AddRow(h, m) \in Seq(Turn) /\ Alternates(AddRow(h, m))
         /\ m.role = "user" => /\ AddRow(h, m) # <<>>
                               /\ Last(AddRow(h, m)).role = "user"
                               /\ m.req \in Last(AddRow(h, m)).of
<1>0. m.role \in {"user", "assistant"} /\ m.req \in Requests
  BY DEF Message
<1>1. PICK g : g = AddRow(h, m)
  OBVIOUS
<1>2. CASE h = <<>> /\ m.role # "user"
  BY <1>2 DEF AddRow
<1>3. CASE h # <<>> /\ Last(h).role = m.role
  <2>1. PICK n : n = Len(h)
    OBVIOUS
  <2>2. n \in Nat /\ n > 0 /\ n \in 1 .. n /\ h \in [1 .. n -> Turn] /\ h[n].role = m.role
    BY <1>3, <2>1 DEF Last
  <2>3. PICK e : e = [h[n] EXCEPT !.of = @ \cup {m.req}]
    OBVIOUS
  <2>4. g = [h EXCEPT ![n] = e]
    BY <1>1, <1>3, <2>1, <2>3 DEF AddRow
  <2>5. h[n] \in Turn
    BY <2>2
  <2>6. e \in Turn /\ e.role = h[n].role /\ m.req \in e.of
    BY <1>0, <2>3, <2>5 DEF Turn
  <2>7. g \in Seq(Turn) /\ Len(g) = n /\ g[n] = e
    BY <2>1, <2>2, <2>4, <2>6
  <2>8. \A k \in 1 .. n : g[k].role = h[k].role
    BY <2>2, <2>4, <2>6
  <2>9. Alternates(g)
    BY <2>1, <2>7, <2>8 DEF Alternates
  <2> QED
    BY <1>1, <2>2, <2>6, <2>7, <2>9 DEF Last
<1>4. CASE ~(h = <<>> /\ m.role # "user") /\ ~(h # <<>> /\ Last(h).role = m.role)
  <2>1. PICK n : n = Len(h)
    OBVIOUS
  <2>2. PICK e : e = [role |-> m.role, of |-> {m.req}]
    OBVIOUS
  <2>3. e \in Turn /\ e.role = m.role /\ m.req \in e.of
    BY <1>0, <2>2 DEF Turn
  <2>4. g = Append(h, e)
    BY <1>1, <1>4, <2>2 DEF AddRow
  <2>5. /\ n \in Nat /\ g \in Seq(Turn) /\ Len(g) = n + 1 /\ g[n + 1] = e
        /\ \A k \in 1 .. n : g[k] = h[k]
    BY <2>1, <2>3, <2>4
  <2>6. e.role = IF (n + 1) % 2 = 1 THEN "user" ELSE "assistant"
    <3>1. CASE n = 0
      <4>1. h = <<>>
        BY <2>1, <3>1, EmptySeq
      <4>2. m.role = "user"
        BY <1>4, <4>1
      <4> QED
        BY <2>3, <3>1, <4>2
    <3>2. CASE n # 0
      <4>1. n \in 1 .. n /\ h # <<>>
        BY <2>1, <2>5, <3>2
      <4>2. h[n].role # m.role
        BY <1>4, <2>1, <4>1 DEF Last
      <4>3. h[n].role = IF n % 2 = 1 THEN "user" ELSE "assistant"
        BY <2>1, <4>1 DEF Alternates
      <4>4. n % 2 = 1 <=> (n + 1) % 2 # 1
        BY <2>5
      <4> QED
        BY <1>0, <2>3, <4>2, <4>3, <4>4
    <3> QED
      BY <3>1, <3>2
  <2>7. Alternates(g)
    <3>1. \A k \in 1 .. n : g[k].role = IF k % 2 = 1 THEN "user" ELSE "assistant"
      BY <2>1, <2>5 DEF Alternates
    <3>2. \A k \in 1 .. Len(g) : k \in 1 .. n \/ k = n + 1
      BY <2>5
    <3> QED
      BY <2>5, <2>6, <3>1, <3>2 DEF Alternates
  <2>8. g # <<>> /\ Last(g) = e
    BY <2>5 DEF Last
  <2> QED
    BY <1>1, <2>3, <2>5, <2>7, <2>8
<1> QED
  BY <1>2, <1>3, <1>4

\* Any rows give a history that Claude takes, and one whose last row is a
\* question ends with this question.
LEMMA BuildHistoryIsAccepted ==
  ASSUME NEW rows \in Seq(Message)
  PROVE  /\ BuildHistory(rows) \in Seq(Turn) /\ Alternates(BuildHistory(rows))
         /\ rows # <<>> /\ Last(rows).role = "user" =>
              /\ Last(BuildHistory(rows)).role = "user"
              /\ Last(rows).req \in Last(BuildHistory(rows)).of
<1>1. PICK n : n = Len(rows)
  OBVIOUS
<1>2. n \in Nat /\ DOMAIN rows = 1 .. n /\ \A k \in 1 .. n : rows[k] \in Message
  BY <1>1
<1>3. PICK out : /\ BuildHistory(rows) = out[n] /\ out[0] = <<>>
                 /\ \A k \in 0 .. n - 1 : out[k + 1] = AddRow(out[k], rows[k + 1])
  BY <1>2, LoopStep
<1>4. PICK T : T = {k \in Nat : k <= n => out[k] \in Seq(Turn) /\ Alternates(out[k])}
  OBVIOUS
<1>5. 0 \in T
  <2>1. <<>> \in Seq(Turn) /\ Len(<<>>) = 0
    BY EmptySeq
  <2>2. Alternates(<<>>)
    <3>1. 1 .. 0 = {}
      OBVIOUS
    <3>2. ASSUME NEW h, Len(h) = 0 PROVE Alternates(h)
      BY <3>1, <3>2 DEF Alternates
    <3> QED
      BY <2>1, <3>2
  <2>3. out[0] \in Seq(Turn) /\ Alternates(out[0])
    BY <1>3, <2>1, <2>2
  <2> QED
    BY <1>4, <2>3
<1>6. ASSUME NEW k \in Nat, k \in T PROVE k + 1 \in T
  <2> SUFFICES ASSUME k + 1 <= n
               PROVE  out[k + 1] \in Seq(Turn) /\ Alternates(out[k + 1])
    BY <1>4
  <2>1. k \in 0 .. n - 1 /\ k + 1 \in 1 .. n /\ k <= n
    BY <1>2
  <2>2. out[k] \in Seq(Turn) /\ Alternates(out[k])
    BY <1>4, <1>6, <2>1
  <2>3. rows[k + 1] \in Message /\ out[k + 1] = AddRow(out[k], rows[k + 1])
    BY <1>2, <1>3, <2>1
  <2> QED
    BY <2>2, <2>3, AddRowAlternates
<1>7. \A k \in Nat : k \in T
  BY <1>5, <1>6, SetInduction
<1>8. \A k \in 0 .. n : out[k] \in Seq(Turn) /\ Alternates(out[k])
  BY <1>2, <1>4, <1>7
<1>9. ASSUME rows # <<>>, Last(rows).role = "user"
      PROVE  Last(out[n]).role = "user" /\ Last(rows).req \in Last(out[n]).of
  <2>1. n # 0 /\ n - 1 \in 0 .. n - 1 /\ n - 1 \in 0 .. n /\ n \in 1 .. n /\ (n - 1) + 1 = n
    BY <1>1, <1>2, <1>9
  <2>2. out[n] = AddRow(out[n - 1], rows[n])
    BY <1>3, <2>1
  <2>3. out[n - 1] \in Seq(Turn) /\ Alternates(out[n - 1])
    BY <1>8, <2>1
  <2>4. Last(rows) = rows[n] /\ rows[n] \in Message
    BY <1>1, <1>2, <2>1 DEF Last
  <2>5. PICK h, m : h = out[n - 1] /\ m = rows[n]
    OBVIOUS
  <2>6. /\ h \in Seq(Turn) /\ Alternates(h) /\ m \in Message /\ m.role = "user"
        /\ out[n] = AddRow(h, m) /\ Last(rows) = m
    BY <1>9, <2>2, <2>3, <2>4, <2>5
  <2>7. Last(AddRow(h, m)).role = "user" /\ m.req \in Last(AddRow(h, m)).of
    BY <2>6, AddRowAlternates
  <2> QED
    BY <2>6, <2>7
<1> QED
  BY <1>2, <1>3, <1>8, <1>9

-------------------------------------------------------------------------------
(* The rows as the SELECT returns them *)

Stamps(M) == \A m, k \in M : m.at = k.at => m = k

Increases(rows) == \A i, j \in DOMAIN rows : i < j => rows[i].at < rows[j].at

\* All rows of M in the order of their stamps
Enumerates(rows, n, M) ==
  /\ n \in Nat /\ rows \in [1 .. n -> M] /\ Increases(rows)
  /\ \A m \in M : \E i \in 1 .. n : rows[i] = m

\* The rows of a table can be put in order of their stamps.
LEMMA SortedRows ==
  ASSUME NEW M, M \subseteq Message, Stamps(M),
         NEW c \in Nat, \A m \in M : m.at <= c
  PROVE  \E n, rows : Enumerates(rows, n, M)
<1> DEFINE
           Sorted(b, n, rows) ==
             /\ rows \in [1 .. n -> M] /\ Increases(rows)
             /\ \A i \in 1 .. n : rows[i].at < b
             /\ \A m \in M : m.at < b => \E i \in 1 .. n : rows[i] = m
<1>1. \A m \in M : m.at \in Nat
  BY DEF Message
<1>2. PICK T : T = {b \in Nat : \E n \in Nat : \E rows : Sorted(b, n, rows)}
  OBVIOUS
<1>3. 0 \in T
  <2>1. PICK rows : rows = [i \in 1 .. 0 |-> {}]
    OBVIOUS
  <2>2. Sorted(0, 0, rows)
    BY <1>1, <2>1 DEF Increases
  <2> QED
    BY <1>2, <2>2
<1>4. ASSUME NEW b \in Nat, b \in T PROVE b + 1 \in T
  <2>0. PICK n \in Nat : \E rows : Sorted(b, n, rows)
    BY <1>2, <1>4
  <2>1. PICK rows : Sorted(b, n, rows)
    BY <2>0
  <2>2. CASE \E m \in M : m.at = b
    <3>1. PICK m \in M : m.at = b
      BY <2>2
    <3>2. PICK more : more = [i \in 1 .. n + 1 |-> IF i <= n THEN rows[i] ELSE m]
      OBVIOUS
    <3>3. /\ \A i \in 1 .. n : more[i] = rows[i]
          /\ more[n + 1] = m /\ more \in [1 .. n + 1 -> M]
      BY <2>1, <3>2
    <3>4. \A i \in 1 .. n + 1 : i \in 1 .. n \/ i = n + 1
      OBVIOUS
    <3>5. Increases(more)
      <4> SUFFICES ASSUME NEW i \in 1 .. n + 1, NEW j \in 1 .. n + 1, i < j
                   PROVE  more[i].at < more[j].at
        BY <3>3 DEF Increases
      <4>1. i \in 1 .. n
        OBVIOUS
      <4>2. CASE j \in 1 .. n
        BY <2>1, <3>3, <4>1, <4>2 DEF Increases
      <4>3. CASE j = n + 1
        BY <2>1, <3>1, <3>3, <4>1, <4>3
      <4> QED
        BY <3>4, <4>2, <4>3
    <3>6. \A i \in 1 .. n + 1 : more[i].at < b + 1
      BY <1>1, <2>1, <3>1, <3>3, <3>4
    <3>7. ASSUME NEW k \in M, k.at < b + 1 PROVE \E i \in 1 .. n + 1 : more[i] = k
      <4>1. CASE k.at < b
        <5>1. PICK i \in 1 .. n : rows[i] = k
          BY <2>1, <4>1
        <5>2. i \in 1 .. n + 1
          OBVIOUS
        <5> QED
          BY <3>3, <5>1, <5>2
      <4>2. CASE k.at = b
        <5>1. k = m
          BY <3>1, <4>2 DEF Stamps
        <5> QED
          BY <3>3, <5>1
      <4> QED
        BY <1>1, <3>7, <4>1, <4>2
    <3>8. Sorted(b + 1, n + 1, more)
      BY <3>3, <3>5, <3>6, <3>7
    <3>9. n + 1 \in Nat /\ b + 1 \in Nat
      OBVIOUS
    <3> HIDE DEF Sorted
    <3> QED
      BY <1>2, <3>8, <3>9
  <2>3. CASE \A m \in M : m.at # b
    <3>1. \A m \in M : m.at < b + 1 => m.at < b
      BY <1>1, <2>3
    <3>2. \A m \in M : m.at < b => m.at < b + 1
      BY <1>1
    <3>3. Sorted(b + 1, n, rows)
      BY <2>1, <3>1, <3>2
    <3> HIDE DEF Sorted
    <3> QED
      BY <1>2, <3>3
  <2> QED
    BY <2>2, <2>3
<1>5. c + 1 \in T
  BY <1>3, <1>4, SetInduction
<1>6. PICK n \in Nat : \E rows : Sorted(c + 1, n, rows)
  BY <1>2, <1>5
<1>7. PICK rows : Sorted(c + 1, n, rows)
  BY <1>6
<1>8. \A m \in M : m.at < c + 1
  BY <1>1
<1>9. Enumerates(rows, n, M)
  BY <1>7, <1>8 DEF Enumerates
<1> QED
  BY <1>9

LEMMA NewestRows ==
  ASSUME NEW n \in Nat, n # 0, messages \subseteq Message, Stamps(messages),
         clock \in Nat, \A m \in messages : m.at <= clock
  PROVE  /\ Newest(n) \in Seq(Message)
         /\ \A m \in messages : (\A k \in messages : k.at <= m.at) =>
              Newest(n) # <<>> /\ Last(Newest(n)) = m
<1>1. PICK top : top = {m \in messages : Cardinality({k \in messages : k.at > m.at}) < n}
  OBVIOUS
<1>2. \A m \in messages : m.at \in Nat
  BY DEF Message
<1>3. top \subseteq Message /\ Stamps(top) /\ \A m \in top : m.at <= clock
  BY <1>1 DEF Stamps
<1>4. PICK c \in Nat : \E rows : Enumerates(rows, c, top)
  <2>1. PICK b : b = clock
    OBVIOUS
  <2>2. b \in Nat /\ \A m \in top : m.at <= b
    BY <1>3, <2>1
  <2>3. \E c, rows : Enumerates(rows, c, top)
    BY <1>3, <2>2, SortedRows
  <2> QED
    BY <2>3 DEF Enumerates
<1>5. PICK rows : Enumerates(rows, c, top)
  BY <1>4
<1>6. /\ /\ rows \in [1 .. c -> top] /\ Increases(rows)
      /\ \A m \in top : \E i \in 1 .. c : rows[i] = m
  BY <1>5 DEF Enumerates
<1>7. \A i, j \in 1 .. c : rows[i] = rows[j] => i = j
  <2> SUFFICES ASSUME NEW i \in 1 .. c, NEW j \in 1 .. c, rows[i] = rows[j], i < j
               PROVE  FALSE
    OBVIOUS
  <2>1. rows[i].at < rows[j].at /\ rows[i].at \in Nat
    BY <1>1, <1>2, <1>6 DEF Increases
  <2> QED
    BY <2>1
<1>8. IsFiniteSet(top) /\ Cardinality(top) = c
  <2>1. rows \in Bijection(1 .. c, top)
    BY <1>6, <1>7 DEF Bijection, Injection, Surjection, IsInjective
  <2>2. IsFiniteSet(1 .. c) /\ Cardinality(1 .. c) = c
    BY FS_Interval
  <2> QED
    BY <2>1, <2>2, FS_Bijection DEF ExistsBijection
<1>9. rows \in SetToSeqs(top)
  BY <1>6, <1>7, <1>8 DEF SetToSeqs
<1>10. PICK q : q = Newest(n)
  OBVIOUS
<1>11. q \in SetToSeqs(top) /\ Increases(q)
  <2>1. q = CHOOSE r \in SetToSeqs(top) :
              \A i, j \in DOMAIN r : i < j => r[i].at < r[j].at
    BY <1>1, <1>10 DEF Newest
  <2>2. \A i, j \in DOMAIN rows : i < j => rows[i].at < rows[j].at
    BY <1>6 DEF Increases
  <2>3. q \in SetToSeqs(top) /\ \A i, j \in DOMAIN q : i < j => q[i].at < q[j].at
    BY <1>9, <2>1, <2>2
  <2> QED
    BY <2>3 DEF Increases
<1>12. /\ q \in [1 .. c -> top]
       /\ \A i, j \in 1 .. c : i # j => q[i] # q[j]
  BY <1>8, <1>11 DEF SetToSeqs
<1>13. q \in Seq(Message) /\ Len(q) = c
  <2>1. q \in [1 .. c -> Message]
    BY <1>3, <1>12
  <2> QED
    BY <2>1
<1>14. ASSUME NEW m \in messages, \A k \in messages : k.at <= m.at
       PROVE  q # <<>> /\ Last(q) = m
  <2>1. m \in top
    <3>1. {k \in messages : k.at > m.at} = {}
      BY <1>2, <1>14
    <3>2. Cardinality({}) < n
      BY FS_EmptySet
    <3> QED
      BY <1>1, <3>1, <3>2
  <2>2. PICK i \in 1 .. c : q[i] = m
    <3>1. q \in Injection(1 .. c, top)
      BY <1>12 DEF Injection, IsInjective
    <3>2. IsFiniteSet(1 .. c) /\ Cardinality(1 .. c) = c
      BY FS_Interval
    <3>3. q \in Surjection(1 .. c, top)
      BY <1>8, <3>1, <3>2, FS_Injection
    <3> QED
      BY <2>1, <3>3 DEF Surjection
  <2>3. c \in 1 .. c /\ q[c] \in messages
    <3>1. c \in 1 .. c
      OBVIOUS
    <3> QED
      BY <1>1, <1>12, <3>1
  <2>4. i = c
    <3> SUFFICES ASSUME i < c PROVE FALSE
      OBVIOUS
    <3>1. DOMAIN q = 1 .. c
      BY <1>12
    <3>2. q[i].at < q[c].at
      BY <1>11, <2>3, <3>1 DEF Increases
    <3>3. q[c].at <= m.at /\ m.at \in Nat /\ q[c].at \in Nat
      BY <1>2, <1>14, <2>3
    <3> QED
      BY <2>2, <3>2, <3>3
  <2> QED
    BY <1>13, <2>2, <2>3, <2>4 DEF Last
<1> QED
  BY <1>10, <1>13, <1>14

-------------------------------------------------------------------------------
(* What is sent to Claude *)

\* A stamp that waits for its row is in no row, and no other request has it.
Stamped(r) == stage[r] \in {"insert", "count"}

StampsOK ==
  \A r \in Requests : Stamped(r) =>
    /\ at[r] <= clock /\ \A m \in messages : m.at # at[r]
    /\ \A q \in Requests : Stamped(q) /\ at[q] = at[r] => q = r

\* All requests so far are of the session of r
Alone(r) == \A q \in 1 .. asked : owner[q] = owner[r]

\* The question of m is the last row of the table.
LastRow(m, r) ==
  m.role = "user" /\ m.req = r /\ \A k \in messages : k.at <= m.at

\* The question of r cannot be saved yet.
Early(r) == r > asked \/ stage[r] \in {"check", "save", "insert"}

\* Nobody inserts after the question of the only session.
QuestionOK(r) ==
  /\ Early(r) => ~Saved(r)
  /\ Alone(r) => /\ stage[r] = "insert" => at[r] = clock
                 /\ stage[r] = "load" /\ Saved(r) => \E m \in messages : LastRow(m, r)

Accepted(r) ==
  history[r] # <<>> =>
    /\ stage[r] = "stream"
    /\ Alternates(history[r])
    /\ Saved(r) /\ Alone(r) => Last(history[r]).role = "user" /\ r \in Last(history[r]).of

TablesOK ==
  /\ clock \in Nat /\ at \in [Requests -> Nat]
  /\ history \in [Requests -> Seq(Turn)]
  /\ messages \subseteq Message /\ Stamps(messages) /\ \A m \in messages : m.at <= clock

HistoryInv ==
  /\ TablesOK /\ StampsOK
  /\ \A r \in Requests : QuestionOK(r) /\ Accepted(r)

LEMMA HistoryStarts == Init => HistoryInv
<1> SUFFICES ASSUME Init PROVE HistoryInv
  OBVIOUS
<1>1. TablesOK
  <2>1. <<>> \in Seq(Turn)
    BY EmptySeq
  <2> QED
    BY <2>1 DEF Init, TablesOK, Stamps
<1>2. \A r \in Requests : stage[r] = "none" /\ history[r] = <<>> /\ ~Saved(r)
  BY DEF Init, Saved
<1>3. StampsOK /\ \A r \in Requests : QuestionOK(r) /\ Accepted(r)
  BY <1>2 DEF StampsOK, Stamped, QuestionOK, Accepted
<1> QED
  BY <1>1, <1>3 DEF HistoryInv

\* What a step of the coroutine of r leaves alone
Beside(r) ==
  /\ UNCHANGED <<asked, owner>>
  /\ \A m \in messages' \ messages : m.req = r
  /\ stage' \in [Requests -> Stages]
  /\ \A q \in Requests \ {r} :
       stage'[q] = stage[q] /\ at'[q] = at[q] /\ history'[q] = history[q]

\* No row and no stamp is added in a step of r.
Quiet(r) ==
  /\ Beside(r) /\ UNCHANGED <<clock, messages>>
  /\ at' \in [Requests -> Nat] /\ history' \in [Requests -> Seq(Turn)]
  /\ ~Stamped(r)' /\ stage'[r] # "load" /\ (Early(r)' => Early(r))
  /\ history'[r] = <<>> \/ (history'[r] = history[r] /\ stage'[r] = "stream")

LEMMA SameRows ==
  ASSUME HistoryInv, NEW q \in Requests, UNCHANGED <<asked, owner, clock, messages>>,
         stage'[q] = stage[q], at'[q] = at[q], history'[q] = history[q]
  PROVE  QuestionOK(q)' /\ Accepted(q)'
<1>1. QuestionOK(q) /\ Accepted(q)
  BY DEF HistoryInv
<1>2. (Alone(q)' => Alone(q)) /\ (Saved(q)' <=> Saved(q)) /\ (Early(q)' => Early(q))
  BY DEF Alone, Saved, Early
<1>3. QuestionOK(q)'
  BY <1>1, <1>2 DEF QuestionOK, LastRow
<1>4. Accepted(q)'
  BY <1>1, <1>2 DEF Accepted, Alternates
<1> QED
  BY <1>3, <1>4

LEMMA QuietHistory ==
  ASSUME HistoryInv, NEW r \in Requests, Quiet(r)
  PROVE  HistoryInv'
<1>1. TablesOK'
  BY DEF HistoryInv, TablesOK, Quiet, Stamps
<1>2. StampsOK'
  <2>1. \A q \in Requests : Stamped(q)' => q # r /\ Stamped(q) /\ at'[q] = at[q]
    BY DEF Quiet, Beside, Stamped
  <2> QED
    BY <2>1 DEF HistoryInv, StampsOK, Quiet
<1>3. ASSUME NEW q \in Requests \ {r} PROVE QuestionOK(q)' /\ Accepted(q)'
  BY SameRows DEF Quiet, Beside
<1>4. QuestionOK(r)'
  <2>1. (Saved(r)' <=> Saved(r)) /\ (Early(r) => ~Saved(r))
    BY DEF Saved, Quiet, HistoryInv, QuestionOK
  <2>2. (Early(r)' => Early(r)) /\ stage'[r] # "insert" /\ stage'[r] # "load"
    BY DEF Quiet, Stamped
  <2> QED
    BY <2>1, <2>2 DEF QuestionOK
<1>5. Accepted(r)'
  <2>1. CASE history'[r] = <<>>
    BY <2>1 DEF Accepted
  <2>2. CASE history'[r] = history[r] /\ stage'[r] = "stream"
    <3>1. Accepted(r)
      BY DEF HistoryInv
    <3>2. (Alone(r)' => Alone(r)) /\ (Saved(r)' <=> Saved(r))
      BY DEF Alone, Saved, Quiet, Beside
    <3> QED
      BY <2>2, <3>1, <3>2 DEF Accepted, Alternates
  <2> QED
    BY <2>1, <2>2 DEF Quiet
<1> QED
  BY <1>1, <1>2, <1>3, <1>4, <1>5 DEF HistoryInv

\* Beside a running request no other one of its session runs.
LEMMA OnlyOne ==
  ASSUME ReplyInv, NEW r \in Requests, NEW q \in Requests \ {r},
         Running(r), Alone(q)
  PROVE  ~Running(q)
<1> SUFFICES ASSUME Running(q) PROVE FALSE
  OBVIOUS
<1>1. r <= asked /\ r \in 1 .. asked
  BY DEF ReplyInv, BusyOK, TypeInv, Requests
<1>2. owner[r] = owner[q]
  BY <1>1 DEF Alone
<1> QED
  BY <1>2 DEF ReplyInv, BusyOK

\* A step that gives out a stamp or inserts a row matters to no other request
\* that is alone.
LEMMA BesideHistory ==
  ASSUME ReplyInv, HistoryInv, NEW r \in Requests, Running(r), Beside(r),
         NEW q \in Requests \ {r}
  PROVE  QuestionOK(q)' /\ Accepted(q)'
<1>1. (Alone(q)' => Alone(q)) /\ (Saved(q)' => Saved(q)) /\ (Early(q)' => Early(q))
  BY DEF Alone, Saved, Early, Beside
<1>2. stage'[q] = stage[q] /\ at'[q] = at[q] /\ history'[q] = history[q]
  BY DEF Beside
<1>3. Accepted(q)'
  <2>1. Accepted(q)
    BY DEF HistoryInv
  <2> QED
    BY <1>1, <1>2, <2>1 DEF Accepted, Alternates
<1>4. QuestionOK(q)'
  <2>1. ASSUME Alone(q) PROVE stage[q] # "insert" /\ stage[q] # "load"
    BY <2>1, OnlyOne DEF Running
  <2>2. Early(q) => ~Saved(q)
    BY DEF HistoryInv, QuestionOK
  <2> QED
    BY <1>1, <1>2, <2>1, <2>2 DEF QuestionOK
<1> QED
  BY <1>3, <1>4

LEMMA LeavesHistory ==
  ASSUME ReplyInv, HistoryInv, NEW r \in Requests,
         stage' = [stage EXCEPT ![r] = "leave"], UNCHANGED <<asked, owner, clock, messages>>,
         at' = [at EXCEPT ![r] = 0], history' = [history EXCEPT ![r] = <<>>]
  PROVE  HistoryInv'
<1>1. /\ stage \in [Requests -> Stages] /\ at \in [Requests -> Nat]
      /\ history \in [Requests -> Seq(Turn)]
  BY DEF ReplyInv, TypeInv, HistoryInv, TablesOK
<1>2. stage' \in [Requests -> Stages] /\ stage'[r] = "leave"
  BY <1>1 DEF Stages
<1>3. <<>> \in Seq(Turn)
  BY EmptySeq
<1>4. at' \in [Requests -> Nat] /\ history' \in [Requests -> Seq(Turn)] /\ history'[r] = <<>>
  BY <1>1, <1>3
<1>5. Beside(r)
  BY <1>1, <1>2 DEF Beside
<1>6. ~Stamped(r)' /\ stage'[r] # "load" /\ (Early(r)' => Early(r))
  BY <1>2 DEF Stamped, Early
<1>7. UNCHANGED <<clock, messages>>
  OBVIOUS
<1>8. Quiet(r)
  BY <1>4, <1>5, <1>6, <1>7 DEF Quiet
<1> QED
  BY <1>8, QuietHistory

LEMMA EndsHistory ==
  ASSUME ReplyInv, HistoryInv, NEW r \in Requests, Ends(r), UNCHANGED tables
  PROVE  HistoryInv'
  BY LeavesHistory DEF Ends, Goto, Forget, tables

\* A step to a stage where nothing is inserted or loaded
LEMMA GotoHistory ==
  ASSUME ReplyInv, HistoryInv, NEW r \in Requests, NEW next, Goto(r, next),
         next \in {"save", "over", "stream", "store"}, next = "save" => stage[r] = "check",
         UNCHANGED <<asked, owner, at, clock, messages>>,
         history' = [history EXCEPT ![r] = <<>>] \/ (UNCHANGED history /\ (stage[r] = "stream" => next = "stream"))
  PROVE  HistoryInv'
<1>1. /\ stage \in [Requests -> Stages] /\ at \in [Requests -> Nat]
      /\ history \in [Requests -> Seq(Turn)]
  BY DEF ReplyInv, TypeInv, HistoryInv, TablesOK
<1>2. stage' \in [Requests -> Stages] /\ stage'[r] = next
      /\ \A q \in Requests \ {r} : stage'[q] = stage[q]
  BY <1>1 DEF Goto, Stages
<1>3. history[r] = <<>> \/ stage[r] = "stream"
  BY DEF HistoryInv, Accepted
<1>4. ~Stamped(r)' /\ stage'[r] # "load" /\ (Early(r)' => Early(r))
  BY <1>2 DEF Stamped, Early
<1>5. <<>> \in Seq(Turn)
  BY EmptySeq
<1>6. /\ history' \in [Requests -> Seq(Turn)]
      /\ history'[r] = <<>> \/ (history'[r] = history[r] /\ stage'[r] = "stream")
      /\ \A q \in Requests \ {r} : history'[q] = history[q]
  BY <1>1, <1>2, <1>3, <1>5
<1>7. at' \in [Requests -> Nat] /\ Beside(r)
  BY <1>1, <1>2, <1>6 DEF Beside
<1>8. Quiet(r)
  BY <1>4, <1>6, <1>7 DEF Quiet
<1> QED
  BY <1>8, QuietHistory

\* A new stamp is greater than all others.
LEMMA StampHistory ==
  ASSUME ReplyInv, HistoryInv, NEW r \in Requests, Running(r), NEW next, Goto(r, next),
         next = "count" \/ (next = "insert" /\ stage[r] = "save"), Stamp(r),
         UNCHANGED <<asked, owner, history, messages>>, history[r] = <<>>
  PROVE  HistoryInv'
<1>1. /\ stage \in [Requests -> Stages] /\ at \in [Requests -> Nat] /\ clock \in Nat
      /\ history \in [Requests -> Seq(Turn)]
      /\ \A m \in messages : m.at <= clock /\ m.at \in Nat
  BY DEF ReplyInv, TypeInv, HistoryInv, TablesOK, Message
<1>2. stage' \in [Requests -> Stages] /\ stage'[r] = next
      /\ \A q \in Requests \ {r} : stage'[q] = stage[q]
  BY <1>1 DEF Goto, Stages
<1>3. /\ clock' = clock + 1 /\ at' \in [Requests -> Nat] /\ at'[r] = clock + 1
      /\ \A q \in Requests \ {r} : at'[q] = at[q]
  BY <1>1 DEF Stamp
<1>4. Beside(r)
  BY <1>1, <1>2, <1>3 DEF Beside
<1>5. TablesOK'
  <2>1. \A m \in messages' : m.at <= clock'
    BY <1>1, <1>3
  <2> QED
    BY <1>1, <1>3, <2>1 DEF HistoryInv, TablesOK, Stamps
<1>6. StampsOK'
  <2>1. ASSUME NEW q \in Requests, Stamped(q)', q # r
        PROVE  at'[q] <= clock /\ \A m \in messages' : m.at # at'[q]
    BY <1>2, <1>3, <2>1 DEF Stamped, HistoryInv, StampsOK
  <2>2. at'[r] <= clock' /\ \A m \in messages' : m.at # at'[r]
    BY <1>1, <1>3
  <2>3. ASSUME NEW q \in Requests, Stamped(q)'
        PROVE  at'[q] <= clock' /\ \A m \in messages' : m.at # at'[q]
    <3>1. CASE q = r
      BY <2>2, <3>1
    <3>2. CASE q # r
      BY <1>1, <1>3, <2>1, <2>3, <3>2
    <3> QED
      BY <3>1, <3>2
  <2>4. ASSUME NEW p \in Requests, NEW q \in Requests, Stamped(p)', Stamped(q)', at'[p] = at'[q]
        PROVE  p = q
    <3>1. CASE p # r /\ q # r
      BY <1>2, <1>3, <2>4, <3>1 DEF Stamped, HistoryInv, StampsOK
    <3>2. CASE p = r /\ q # r
      BY <1>1, <1>3, <2>1, <2>4, <3>2
    <3>3. CASE p # r /\ q = r
      BY <1>1, <1>3, <2>1, <2>4, <3>3
    <3> QED
      BY <3>1, <3>2, <3>3
  <2> QED
    BY <2>3, <2>4 DEF StampsOK
<1>7. QuestionOK(r)'
  <2>1. (Early(r)' => Early(r)) /\ (Saved(r)' <=> Saved(r)) /\ (Early(r) => ~Saved(r))
    BY <1>2 DEF Early, Saved, HistoryInv, QuestionOK
  <2> QED
    BY <1>2, <1>3, <2>1 DEF QuestionOK
<1>8. Accepted(r)'
  BY DEF Accepted
<1>9. \A q \in Requests \ {r} : QuestionOK(q)' /\ Accepted(q)'
  BY <1>4, BesideHistory
<1> QED
  BY <1>5, <1>6, <1>7, <1>8, <1>9 DEF HistoryInv

\* The row of a stamp is inserted.
LEMMA InsertHistory ==
  ASSUME ReplyInv, HistoryInv, NEW r \in Requests, Running(r), Stamped(r), Beside(r),
         clock' = clock, at' \in [Requests -> Nat], history' \in [Requests -> Seq(Turn)],
         NEW m \in Message, m.at = at[r], messages' \in {messages, messages \cup {m}},
         ~Stamped(r)', history'[r] = <<>>, QuestionOK(r)'
  PROVE  HistoryInv'
<1>1. /\ clock \in Nat /\ messages \subseteq Message /\ Stamps(messages)
      /\ \A k \in messages : k.at <= clock
      /\ at[r] <= clock /\ \A k \in messages : k.at # at[r]
  BY DEF HistoryInv, TablesOK, StampsOK
<1>2. TablesOK'
  <2>1. messages' \subseteq Message /\ \A k \in messages' : k.at <= clock
    BY <1>1
  <2>2. Stamps(messages')
    BY <1>1 DEF Stamps
  <2> QED
    BY <1>1, <2>1, <2>2 DEF TablesOK, Stamps
<1>3. StampsOK'
  <2>1. \A q \in Requests : Stamped(q)' => q # r /\ Stamped(q) /\ at'[q] = at[q]
    BY DEF Stamped, Beside
  <2>2. \A q \in Requests : Stamped(q)' =>
          at'[q] <= clock' /\ \A k \in messages' : k.at # at'[q]
    BY <2>1 DEF HistoryInv, StampsOK
  <2>3. \A p, q \in Requests : Stamped(p)' /\ Stamped(q)' /\ at'[p] = at'[q] => p = q
    BY <2>1 DEF HistoryInv, StampsOK
  <2> QED
    BY <2>2, <2>3 DEF StampsOK
<1>4. \A q \in Requests \ {r} : QuestionOK(q)' /\ Accepted(q)'
  BY BesideHistory
<1>5. Accepted(r)'
  BY DEF Accepted
<1> QED
  BY <1>2, <1>3, <1>4, <1>5 DEF HistoryInv

LEMMA NoRowsNoHistory == BuildHistory(<<>>) = <<>>
<1>1. PICK rows : rows = <<>>
  OBVIOUS
<1>2. DOMAIN rows = 1 .. 0
  BY <1>1
<1>3. BuildHistory(rows) = <<>>
  BY <1>2, LoopStep
<1> QED
  BY <1>1, <1>3

LEMMA HistorySaveQuestion ==
  ASSUME ReplyInv, HistoryInv, NEW r \in Requests, SaveQuestion(r)
  PROVE  HistoryInv'
<1>1. CASE Done(r)
  BY <1>1, EndsHistory DEF Done
<1>2. CASE ~Done(r)
  <2>1. PICK m : m = [at |-> at[r], role |-> "user", req |-> r]
    OBVIOUS
  <2>2. /\ stage[r] = "insert" /\ messages' \in {messages, messages \cup {m}}
        /\ UNCHANGED <<asked, owner, clock>>
        /\ \/ Goto(r, "load") /\ UNCHANGED <<at, history>>
           \/ Ends(r)
    BY <1>2, <2>1 DEF SaveQuestion, Ends, frame
  <2>3. /\ stage \in [Requests -> Stages] /\ at \in [Requests -> Nat] /\ clock \in Nat
        /\ history \in [Requests -> Seq(Turn)] /\ \A k \in messages : k.at <= clock
        /\ <<>> \in Seq(Turn)
    BY EmptySeq DEF ReplyInv, TypeInv, HistoryInv, TablesOK
  <2>4. m \in Message /\ m.at = at[r] /\ m.role = "user" /\ m.req = r
    BY <2>1, <2>3 DEF Message
  <2>5. stage' \in [Requests -> Stages] /\ stage'[r] \in {"load", "leave"}
        /\ \A q \in Requests \ {r} : stage'[q] = stage[q]
    BY <2>2, <2>3 DEF Goto, Ends, Stages
  <2>6. history[r] = <<>>
    BY <2>2 DEF HistoryInv, Accepted
  <2>7. /\ at' \in [Requests -> Nat] /\ history' \in [Requests -> Seq(Turn)]
        /\ history'[r] = <<>>
        /\ \A q \in Requests \ {r} : at'[q] = at[q] /\ history'[q] = history[q]
    <3>1. CASE UNCHANGED <<at, history>>
      BY <2>3, <2>6, <3>1
    <3>2. CASE at' = [at EXCEPT ![r] = 0] /\ history' = [history EXCEPT ![r] = <<>>]
      BY <2>3, <3>2
    <3> QED
      BY <2>2, <3>1, <3>2 DEF Ends, Forget
  <2>8. Beside(r) /\ Running(r) /\ Stamped(r) /\ ~Stamped(r)'
    BY <2>2, <2>4, <2>5, <2>7 DEF Beside, Running, Stamped
  <2>9. ~Early(r)' /\ Early(r)
    <3>1. r <= asked /\ r \in Nat /\ asked \in Nat
      BY <2>8 DEF ReplyInv, TypeInv, BusyOK, Requests
    <3> QED
      BY <2>2, <2>5, <3>1 DEF Early
  <2>10. QuestionOK(r)'
    <3> SUFFICES ASSUME Alone(r)', Saved(r)' PROVE \E k \in messages' : LastRow(k, r)'
      BY <2>5, <2>9 DEF QuestionOK
    <3>1. Alone(r) /\ ~Saved(r)
      BY <2>2, <2>9 DEF Alone, HistoryInv, QuestionOK
    <3>2. m.at = clock
      BY <2>2, <2>4, <3>1 DEF HistoryInv, QuestionOK
    <3>3. messages' # messages
      BY <3>1 DEF Saved
    <3>4. m \in messages' /\ \A k \in messages' : k.at <= m.at
      BY <2>2, <2>3, <3>2, <3>3
    <3> QED
      BY <2>4, <3>4 DEF LastRow
  <2> QED
    BY <2>2, <2>4, <2>7, <2>8, <2>10, InsertHistory
<1> QED
  BY <1>1, <1>2

\* What is loaded is a history that Claude takes.
LEMMA LoadedHistory ==
  ASSUME HistoryInv, NEW r \in Requests, stage[r] = "load",
         NEW rows, rows = Newest(HistoryRows) \/ rows = <<>>, BuildHistory(rows) # <<>>
  PROVE  /\ BuildHistory(rows) \in Seq(Turn) /\ Alternates(BuildHistory(rows))
         /\ Saved(r) /\ Alone(r) =>
              Last(BuildHistory(rows)).role = "user" /\ r \in Last(BuildHistory(rows)).of
<1>1. rows = Newest(HistoryRows)
  BY NoRowsNoHistory
<1>2. HistoryRows \in Nat /\ HistoryRows # 0
  BY ChatAssumption
<1>3. /\ messages \subseteq Message /\ Stamps(messages)
      /\ clock \in Nat /\ \A m \in messages : m.at <= clock
  BY DEF HistoryInv, TablesOK
<1>4. PICK n : n = HistoryRows
  OBVIOUS
<1>5. /\ Newest(n) \in Seq(Message)
      /\ \A m \in messages : (\A k \in messages : k.at <= m.at) =>
           Newest(n) # <<>> /\ Last(Newest(n)) = m
  BY <1>2, <1>3, <1>4, NewestRows
<1>6. rows \in Seq(Message)
  BY <1>1, <1>4, <1>5
<1>7. ASSUME Alone(r), Saved(r)
      PROVE  rows # <<>> /\ Last(rows).role = "user" /\ Last(rows).req = r
  <2>1. PICK m \in messages : LastRow(m, r)
    BY <1>7 DEF HistoryInv, QuestionOK
  <2>2. m.role = "user" /\ m.req = r /\ \A k \in messages : k.at <= m.at
    BY <2>1 DEF LastRow
  <2> QED
    BY <1>1, <1>4, <1>5, <2>2
<1> QED
  BY <1>6, <1>7, BuildHistoryIsAccepted

LEMMA HistoryLoad ==
  ASSUME ReplyInv, HistoryInv, NEW r \in Requests, Load(r)
  PROVE  HistoryInv'
<1>1. CASE Done(r)
  BY <1>1, EndsHistory DEF Done
<1>2. CASE ~Done(r)
  <2>1. PICK rows \in {Newest(HistoryRows)} \cup {<<>>} :
          /\ BuildHistory(rows) # <<>>
          /\ history' = [history EXCEPT ![r] = BuildHistory(rows)]
          /\ Goto(r, "stream")
          /\ UNCHANGED <<asked, owner, at, clock, messages>>
    BY <1>2 DEF Load, tables
  <2>2. PICK h : h = BuildHistory(rows)
    OBVIOUS
  <2>3. stage[r] = "load"
    BY DEF Load
  <2>4. /\ h \in Seq(Turn) /\ Alternates(h)
        /\ Saved(r) /\ Alone(r) => Last(h).role = "user" /\ r \in Last(h).of
    BY <2>1, <2>2, <2>3, LoadedHistory
  <2>5. /\ stage \in [Requests -> Stages] /\ at \in [Requests -> Nat]
        /\ history \in [Requests -> Seq(Turn)]
    BY DEF ReplyInv, TypeInv, HistoryInv, TablesOK
  <2>6. stage' \in [Requests -> Stages] /\ stage'[r] = "stream"
        /\ \A q \in Requests \ {r} : stage'[q] = stage[q]
    BY <2>1, <2>5 DEF Goto, Stages
  <2>7. /\ history' \in [Requests -> Seq(Turn)] /\ history'[r] = h
        /\ \A q \in Requests \ {r} : history'[q] = history[q]
    BY <2>1, <2>2, <2>4, <2>5
  <2>8. UNCHANGED <<asked, owner, at, clock, messages>>
    BY <2>1
  <2>9. TablesOK'
    BY <2>5, <2>7, <2>8 DEF HistoryInv, TablesOK, Stamps
  <2>10. StampsOK'
    <3>1. \A q \in Requests : Stamped(q)' => Stamped(q)
      BY <2>6 DEF Stamped
    <3> QED
      BY <2>8, <3>1 DEF HistoryInv, StampsOK
  <2>11. \A q \in Requests \ {r} : QuestionOK(q)' /\ Accepted(q)'
    BY <2>6, <2>7, <2>8, SameRows
  <2>12. QuestionOK(r)'
    <3>1. (Early(r)' => Early(r)) /\ (Saved(r)' <=> Saved(r)) /\ (Early(r) => ~Saved(r))
      BY <2>6, <2>8 DEF Early, Saved, HistoryInv, QuestionOK
    <3> QED
      BY <2>6, <3>1 DEF QuestionOK
  <2>13. Accepted(r)'
    <3>1. (Alone(r)' => Alone(r)) /\ (Saved(r)' <=> Saved(r))
      BY <2>8 DEF Alone, Saved
    <3>2. Alternates(history[r])'
      BY <2>4, <2>7 DEF Alternates
    <3> QED
      BY <2>4, <2>6, <2>7, <3>1, <3>2 DEF Accepted
  <2> QED
    BY <2>9, <2>10, <2>11, <2>12, <2>13 DEF HistoryInv
<1> QED
  BY <1>1, <1>2

\* An answer is inserted, with the usage or before it.
LEMMA AnswerHistory ==
  ASSUME ReplyInv, HistoryInv, NEW r \in Requests, stage[r] = "count",
         messages' = messages \cup Answer(r), UNCHANGED <<asked, owner, clock>>,
         Ends(r) \/ (Goto(r, "tally") /\ UNCHANGED <<at, history>>)
  PROVE  HistoryInv'
<1>1. PICK m : m = [at |-> at[r], role |-> "assistant", req |-> r]
  OBVIOUS
<1>2. /\ stage \in [Requests -> Stages] /\ at \in [Requests -> Nat]
      /\ history \in [Requests -> Seq(Turn)] /\ <<>> \in Seq(Turn)
  BY EmptySeq DEF ReplyInv, TypeInv, HistoryInv, TablesOK
<1>3. m \in Message /\ m.at = at[r] /\ m.role = "assistant" /\ m.req = r
  BY <1>1, <1>2 DEF Message
<1>4. messages' \in {messages, messages \cup {m}}
  BY <1>1 DEF Answer
<1>5. stage' \in [Requests -> Stages] /\ stage'[r] \in {"tally", "leave"}
      /\ \A q \in Requests \ {r} : stage'[q] = stage[q]
  BY <1>2 DEF Goto, Ends, Stages
<1>6. history[r] = <<>>
  BY DEF HistoryInv, Accepted
<1>7. /\ at' \in [Requests -> Nat] /\ history' \in [Requests -> Seq(Turn)]
      /\ history'[r] = <<>>
      /\ \A q \in Requests \ {r} : at'[q] = at[q] /\ history'[q] = history[q]
  <2>1. CASE UNCHANGED <<at, history>>
    BY <1>2, <1>6, <2>1
  <2>2. CASE at' = [at EXCEPT ![r] = 0] /\ history' = [history EXCEPT ![r] = <<>>]
    BY <1>2, <2>2
  <2> QED
    BY <2>1, <2>2 DEF Ends, Forget
<1>8. Beside(r) /\ Running(r) /\ Stamped(r) /\ ~Stamped(r)'
  BY <1>3, <1>4, <1>5, <1>7 DEF Beside, Running, Stamped
<1>9. ~Early(r)'
  <2>1. r <= asked /\ r \in Nat /\ asked \in Nat
    BY <1>8 DEF ReplyInv, TypeInv, BusyOK, Requests
  <2> QED
    BY <1>5, <2>1 DEF Early
<1>10. QuestionOK(r)'
  BY <1>5, <1>9 DEF QuestionOK
<1> QED
  BY <1>3, <1>4, <1>7, <1>8, <1>10, InsertHistory

LEMMA UncountedHistory ==
  ASSUME ReplyInv, HistoryInv, NEW r \in Requests, \E why \in Fates : Uncounted(r, why)
  PROVE  HistoryInv'
  BY EndsHistory DEF Uncounted

LEMMA HistoryTally ==
  ASSUME ReplyInv, HistoryInv, NEW r \in Requests, Tally(r)
  PROVE  HistoryInv'
<1>1. CASE \E why \in Fates : Uncounted(r, why)
  BY <1>1, UncountedHistory
<1>2. CASE Counted(r) /\ UNCHANGED messages
  <2>1. /\ stage' = [stage EXCEPT ![r] = "leave"] /\ UNCHANGED <<asked, owner, clock, messages>>
        /\ at' = [at EXCEPT ![r] = 0] /\ history' = [history EXCEPT ![r] = <<>>]
    BY <1>2 DEF Counted, Ends, Goto, Forget
  <2> QED
    BY <2>1, LeavesHistory
<1> QED
  BY <1>1, <1>2 DEF Tally, Fates

LEMMA HistoryCoroutine ==
  ASSUME ReplyInv, HistoryInv, NEW r \in Requests, Coroutine(r)
  PROVE  HistoryInv'
<1>0. stage \in [Requests -> Stages]
  BY DEF ReplyInv, TypeInv
<1>1. CASE Check(r)
  <2>1. CASE Done(r)
    BY <2>1, EndsHistory DEF Done
  <2>2. CASE ~Done(r)
    <3>1. /\ stage[r] = "check" /\ Goto(r, "save")
          /\ UNCHANGED <<asked, owner, at, history, clock, messages>>
      BY <1>1, <2>2 DEF Check, frame, tables
    <3> QED
      BY <3>1, GotoHistory
  <2> QED
    BY <2>1, <2>2
<1>2. CASE StampQuestion(r)
  <2>1. stage[r] = "save" /\ Running(r) /\ history[r] = <<>>
    BY <1>2 DEF StampQuestion, Running, HistoryInv, Accepted
  <2> QED
    BY <1>2, <2>1, StampHistory DEF StampQuestion
<1>3. CASE SaveQuestion(r)
  BY <1>3, HistorySaveQuestion
<1>4. CASE Load(r)
  BY <1>4, HistoryLoad
<1>5. ASSUME stage[r] = "stream", UNCHANGED <<stage, asked, owner, at, history, tables>>
      PROVE  HistoryInv'
  <2>1. Goto(r, "stream")
    BY <1>0, <1>5 DEF Goto
  <2>2. UNCHANGED <<asked, owner, at, history, clock, messages>>
    BY <1>5 DEF tables
  <2> QED
    BY <2>1, <2>2, GotoHistory
<1>6. CASE Delta(r)
  BY <1>5, <1>6 DEF Delta
<1>7. ASSUME Done(r) PROVE HistoryInv'
  BY <1>7, EndsHistory DEF Done
<1>8. CASE NetworkError(r)
  BY <1>5, <1>7, <1>8 DEF NetworkError, Retry
<1>9. CASE Overloaded(r)
  BY <1>5, <1>7, <1>9 DEF Overloaded, Retry
<1>10. CASE Rejected(r)
  BY <1>7, <1>10 DEF Rejected
<1>11. CASE StreamEnds(r) \/ Refusal(r)
  <2>1. /\ Goto(r, "store") /\ history' = [history EXCEPT ![r] = <<>>]
        /\ UNCHANGED <<asked, owner, at, clock, messages>>
    BY <1>11 DEF StreamEnds, Refusal, Returns, tables
  <2> QED
    BY <2>1, GotoHistory
<1>12. CASE LoadUsage(r)
  <2>1. Running(r) /\ history[r] = <<>>
    BY <1>12 DEF LoadUsage, Running, HistoryInv, Accepted
  <2> QED
    BY <1>12, <2>1, StampHistory DEF LoadUsage
<1>13. CASE Count(r)
  <2>1. CASE \E why \in Fates : Uncounted(r, why)
    BY <2>1, UncountedHistory
  <2>2. CASE Counted(r) /\ messages' = messages \cup Answer(r)
    BY <1>13, <2>2, AnswerHistory DEF Count, Counted, Ends
  <2> QED
    BY <1>13, <2>1, <2>2 DEF Count, Fates
<1>14. CASE CountAlone(r)
  BY <1>14, AnswerHistory DEF CountAlone, Ends, frame
<1>15. CASE Tally(r)
  BY <1>15, HistoryTally
<1>16. CASE Throw(r)
  BY <1>7, <1>16, UncountedHistory DEF Throw, Fates
<1>17. CASE Leave(r)
  <2>1. /\ stage[r] = "leave" /\ Goto(r, "over")
        /\ UNCHANGED <<asked, owner, at, history, clock, messages>>
    BY <1>17 DEF Leave, frame, tables
  <2> QED
    BY <2>1, GotoHistory
<1> QED
  BY <1>1, <1>2, <1>3, <1>4, <1>6, <1>8, <1>9, <1>10, <1>11, <1>12, <1>13, <1>14, <1>15,
     <1>16, <1>17 DEF Coroutine

LEMMA HistoryAsk ==
  ASSUME ReplyInv, HistoryInv, NEW s \in Sessions, Ask(s)
  PROVE  HistoryInv'
<1>1. PICK r : r = asked + 1
  OBVIOUS
<1>2. /\ asked' = r /\ owner' = [owner EXCEPT ![r] = s]
      /\ asked \in 0 .. MaxAsks /\ asked < MaxAsks /\ MaxAsks \in Nat
      /\ UNCHANGED <<at, history, clock, messages>>
  BY <1>1, Constants DEF Ask, ReplyInv, TypeInv, frame, tables
<1>3. r \in Requests
  BY <1>1, <1>2 DEF Requests
<1>4. /\ stage \in [Requests -> Stages] /\ owner \in [Requests -> Sessions \cup {NoSession}]
  BY DEF ReplyInv, TypeInv
<1>5. \E next \in {"over", "check"} : stage' = [stage EXCEPT ![r] = next]
  BY <1>1 DEF Ask, Goto
<1>6. stage'[r] \in {"over", "check"} /\ \A q \in Requests \ {r} : stage'[q] = stage[q]
  BY <1>3, <1>4, <1>5
<1>7. \A q \in Requests : q <= asked => owner'[q] = owner[q]
  BY <1>1, <1>2, <1>4
<1>8. stage[r] = "none" \/ stage[r] = "over"
  BY <1>1, <1>2, <1>3 DEF ReplyInv, BusyOK, Running
<1>9. TablesOK'
  BY <1>2 DEF HistoryInv, TablesOK, Stamps
<1>10. StampsOK'
  <2>1. \A q \in Requests : Stamped(q)' => Stamped(q)
    BY <1>6 DEF Stamped
  <2> QED
    BY <1>2, <2>1 DEF HistoryInv, StampsOK
<1>11. ASSUME NEW q \in Requests PROVE QuestionOK(q)' /\ Accepted(q)'
  <2>0. (Saved(q)' <=> Saved(q)) /\ (q > asked' => q > asked) /\ asked < r
    BY <1>1, <1>2 DEF Saved, Requests
  <2>1. QuestionOK(q) /\ Accepted(q)
    BY DEF HistoryInv
  <2>2. CASE q = r
    <3>1. history'[q] = <<>>
      BY <1>2, <1>8, <2>1, <2>2 DEF Accepted
    <3>2. ~Saved(q)'
      BY <2>0, <2>1, <2>2 DEF QuestionOK, Early
    <3> QED
      BY <1>6, <2>2, <3>1, <3>2 DEF QuestionOK, Accepted
  <2>3. CASE q # r
    <3>1. stage'[q] = stage[q] /\ (Early(q)' => ~Saved(q)')
      BY <1>6, <2>0, <2>1, <2>3 DEF Early, QuestionOK
    <3>2. CASE ~Running(q)
      <4>1. history'[q] = <<>>
        BY <1>2, <2>1, <3>2 DEF Accepted, Running
      <4> QED
        BY <3>1, <3>2, <4>1 DEF QuestionOK, Accepted, Running
    <3>3. CASE Running(q)
      <4>1. q <= asked
        BY <3>3 DEF ReplyInv, BusyOK
      <4>2. Alone(q)' => Alone(q)
        <5> SUFFICES ASSUME Alone(q)', NEW p \in 1 .. asked PROVE owner[p] = owner[q]
          BY DEF Alone
        <5>0. asked \in Nat /\ MaxAsks \in Nat /\ asked' = asked + 1 /\ asked < MaxAsks
          BY <1>1, <1>2
        <5>1. p \in 1 .. asked' /\ p \in Requests
          BY <5>0 DEF Requests
        <5>2. owner'[p] = owner'[q]
          BY <5>1 DEF Alone
        <5> QED
          BY <1>7, <4>1, <5>0, <5>1, <5>2
      <4>3. QuestionOK(q)'
        BY <1>2, <2>0, <2>1, <3>1, <4>2 DEF QuestionOK, LastRow
      <4>4. Accepted(q)'
        BY <1>2, <2>0, <2>1, <3>1, <4>2 DEF Accepted, Alternates
      <4> QED
        BY <4>3, <4>4
    <3> QED
      BY <3>2, <3>3
  <2> QED
    BY <2>2, <2>3
<1> QED
  BY <1>9, <1>10, <1>11 DEF HistoryInv

LEMMA HistoryUnchanged ==
  ASSUME HistoryInv, UNCHANGED vars
  PROVE  HistoryInv'
<1>1. UNCHANGED <<asked, owner, stage, at, history, clock, messages>>
  BY DEF vars, frame, tables
<1>2. TablesOK' /\ StampsOK'
  BY <1>1 DEF HistoryInv, TablesOK, Stamps, StampsOK, Stamped
<1>3. \A q \in Requests : QuestionOK(q)' /\ Accepted(q)'
  BY <1>1, SameRows
<1> QED
  BY <1>2, <1>3 DEF HistoryInv

\* Claude gets a question first, then answers and questions in turn, whatever
\* of the Faults happens and whatever other sessions of the account do. The
\* history of the only session ends with the question that is asked, if that
\* was saved, which SaveChanges does not tell (DBContext.h:556).
THEOREM SpecHistoryIsAccepted == Spec => []HistoryIsAccepted
<1>1. ReplyInv /\ HistoryInv /\ [Next]_vars => HistoryInv'
  BY HistoryCoroutine, HistoryAsk, HistoryUnchanged DEF Next
<1>2. ReplyInv /\ HistoryInv => HistoryIsAccepted
  BY DEF HistoryInv, Accepted, Alternates, Alone, HistoryIsAccepted
<1> QED
  BY <1>1, <1>2, HistoryStarts, SpecReply, PTL DEF Spec
===============================================================================
