-------------------------------- MODULE AiChat ---------------------------------
(***************************************************************************)
(* AI chat: Handle_C_AI_CHAT, AiChatService::Run and the retries of        *)
(* Claude::StreamMessage, for the sessions that are logged in to one       *)
(* account: only these share its history and its quota.  A request runs as *)
(* a coroutine on any worker.  A SELECT is one step and so is SaveChanges, *)
(* whose rows nobody else sees before its Commit, unless its Begin fails;  *)
(* SaveChanges looks at the results of neither Begin nor Commit.  The      *)
(* limit of tokens is the same test as the one of calls, and a day does    *)
(* not end.                                                                *)
(***************************************************************************)
EXTENDS Integers, Sequences, FiniteSets, SequencesExt, FiniteSetsExt

CONSTANTS Sessions,      \* sessions of the account
          NoSession,
          DailyCalls,    \* GDailyCalls
          HistoryRows,   \* kHistoryRows
          MaxAttempts,   \* kMaxAttempts
          Faults,        \* what may fail, see FaultKinds
          MaxAsks        \* bound on the requests of all sessions

\* Claude, the SELECT of the quota, a later one, and the steps of SaveChanges;
\* or there is an exception
FaultKinds == {"claude", "quota", "select", "begin", "execute", "commit", "throw"}

ASSUME ChatAssumption ==
  /\ IsFiniteSet(Sessions) /\ Sessions # {} /\ NoSession \notin Sessions
  /\ {DailyCalls, HistoryRows, MaxAttempts, MaxAsks} \subseteq Nat \ {0}
  /\ Faults \subseteq FaultKinds

Requests == 1 .. MaxAsks

VARIABLES
  AiBusy,    \* AiBusy[s] of the session
  asked,     \* requests so far
  owner,     \* owner[r]: the session that has sent request r
  stage,     \* stage[r]: where the coroutine of r is
  attempt,   \* attempt[r]: which attempt of StreamMessage
  shown,     \* shown[r]: the attempts whose text was sent on to the client
  text,      \* text[r]: fullText is not empty
  at,        \* at[r]: the NowMs() of the row that is saved next
  history,   \* history[r]: what was sent to Claude
  seen,      \* seen[r]: the calls that the usage row had when it was loaded
  fate,      \* fate[r]: whether a call that was answered is in the usage
  clock, messages, usage   \* the tables AiMessage and AiUsage; no row is 0 calls

tables == <<clock, messages, usage>>
frame == <<attempt, shown, text, at, history, seen>>
vars == <<AiBusy, asked, owner, stage, frame, fate, tables>>

Stages == {"none", "check", "save", "insert", "load", "stream", "store", "count", "tally",
           "leave", "over"}

Fates == {"none", "counted", "conflict", "failed"}

Message == [at : Nat, role : {"user", "assistant"}, req : Requests]

Running(r) == stage[r] \notin {"none", "over"}

Init ==
  /\ AiBusy = [s \in Sessions |-> FALSE]
  /\ asked = 0
  /\ owner = [r \in Requests |-> NoSession]
  /\ stage = [r \in Requests |-> "none"]
  /\ attempt = [r \in Requests |-> 0]
  /\ shown = [r \in Requests |-> {}]
  /\ text = [r \in Requests |-> FALSE]
  /\ at = [r \in Requests |-> 0]
  /\ history = [r \in Requests |-> <<>>]
  /\ seen = [r \in Requests |-> 0]
  /\ fate = [r \in Requests |-> "none"]
  /\ clock = 0 /\ messages = {} /\ usage = 0

-------------------------------------------------------------------------------
(* Between the client and the coroutine *)

Goto(r, next) == stage' = [stage EXCEPT ![r] = next]

\* C_AI_CHAT: refused while AiBusy, otherwise co_spawn
Ask(s) ==
  LET r == asked + 1 IN
  /\ asked < MaxAsks
  /\ asked' = r
  /\ owner' = [owner EXCEPT ![r] = s]
  /\ AiBusy' = [AiBusy EXCEPT ![s] = TRUE]
  /\ Goto(r, IF AiBusy[s] THEN "over" ELSE "check")
  /\ UNCHANGED <<frame, fate, tables>>

\* Run returns, and its variables end with it
Forget(r) ==
  /\ attempt' = [attempt EXCEPT ![r] = 0]
  /\ shown' = [shown EXCEPT ![r] = {}]
  /\ text' = [text EXCEPT ![r] = FALSE]
  /\ at' = [at EXCEPT ![r] = 0]
  /\ history' = [history EXCEPT ![r] = <<>>]
  /\ seen' = [seen EXCEPT ![r] = 0]

\* SendDone; the client can ask again before AiBusy is reset
Ends(r) ==
  /\ Goto(r, "leave")
  /\ Forget(r)
  /\ UNCHANGED <<AiBusy, asked, owner>>

Done(r) == Ends(r) /\ UNCHANGED <<fate, tables>>

\* The call was answered, and is not in the usage.
Uncounted(r, why) ==
  /\ fate' = [fate EXCEPT ![r] = why]
  /\ Ends(r)
  /\ UNCHANGED tables

\* Mutant of Throw: an exception skips the reset of AiBusy
ThrowPast(r) ==
  /\ "throw" \in Faults
  /\ stage[r] \in {"check", "insert", "load", "stream", "count"}
  /\ Goto(r, "over")
  /\ UNCHANGED <<AiBusy, asked, owner, frame, fate, tables>>

\* an exception anywhere in Run; a transaction is rolled back
Throw(r) ==
  /\ "throw" \in Faults
  /\ \/ stage[r] \in {"check", "insert", "load", "stream"} /\ Done(r)
     \/ stage[r] \in {"count", "tally"} /\ Uncounted(r, "failed")

Leave(r) ==
  /\ stage[r] = "leave"
  /\ AiBusy' = [AiBusy EXCEPT ![owner[r]] = FALSE]
  /\ Goto(r, "over")
  /\ UNCHANGED <<asked, owner, frame, fate, tables>>

-------------------------------------------------------------------------------
(* Before the call *)

\* the calls of today as a SELECT reads them: one that fails reads no row
Calls(fault) == {usage} \cup (IF fault \in Faults THEN {0} ELSE {})

Check(r) ==
  /\ stage[r] = "check"
  /\ \E calls \in Calls("quota") :
       IF calls >= DailyCalls THEN Done(r)
       ELSE /\ Goto(r, "save")
            /\ UNCHANGED <<AiBusy, asked, owner, frame, fate, tables>>

\* NowMs() of a row that is inserted later; no two rows get the same one
Stamp(r) == clock' = clock + 1 /\ at' = [at EXCEPT ![r] = clock + 1]

StampQuestion(r) ==
  /\ stage[r] = "save"
  /\ Stamp(r)
  /\ Goto(r, "insert")
  /\ UNCHANGED <<AiBusy, asked, owner, attempt, shown, text, history, seen, fate, messages, usage>>

\* A Commit that fails goes unnoticed. Without a transaction the row stays
\* when its id cannot be fetched.
SaveQuestion(r) ==
  /\ stage[r] = "insert"
  /\ \/ /\ \/ messages' = messages \cup {[at |-> at[r], role |-> "user", req |-> r]}
           \/ "commit" \in Faults /\ UNCHANGED messages
        /\ Goto(r, "load")
        /\ UNCHANGED <<AiBusy, asked, owner, frame, fate, clock, usage>>
     \/ "execute" \in Faults /\ Done(r)
     \/ /\ {"begin", "execute"} \subseteq Faults
        /\ messages' = messages \cup {[at |-> at[r], role |-> "user", req |-> r]}
        /\ Ends(r)
        /\ UNCHANGED <<fate, clock, usage>>

\* ORDER BY CreatedAt DESC, TOP n, turned round
Newest(n) ==
  LET top == {m \in messages : Cardinality({k \in messages : k.at > m.at}) < n}
  IN  CHOOSE rows \in SetToSeqs(top) :
        \A i, j \in DOMAIN rows : i < j => rows[i].at < rows[j].at

\* Mutant of BuildHistory: keeps an answer at the front
BuildHistoryFromAnswer(rows) ==
  FoldLeft(LAMBDA out, m :
             IF out # <<>> /\ Last(out).role = m.role
             THEN [out EXCEPT ![Len(out)].of = @ \cup {m.req}]
             ELSE Append(out, [role |-> m.role, of |-> {m.req}]),
           <<>>, rows)

\* Rows of one role in a row are one message, of all their requests.
BuildHistory(rows) ==
  FoldLeft(LAMBDA out, m :
             IF out = <<>> /\ m.role # "user" THEN out
             ELSE IF out # <<>> /\ Last(out).role = m.role
             THEN [out EXCEPT ![Len(out)].of = @ \cup {m.req}]
             ELSE Append(out, [role |-> m.role, of |-> {m.req}]),
           <<>>, rows)

Load(r) ==
  /\ stage[r] = "load"
  /\ \E rows \in {Newest(HistoryRows)} \cup (IF "select" \in Faults THEN {<<>>} ELSE {}) :
       IF BuildHistory(rows) = <<>> THEN Done(r)
       ELSE /\ history' = [history EXCEPT ![r] = BuildHistory(rows)]
            /\ attempt' = [attempt EXCEPT ![r] = 1]
            /\ Goto(r, "stream")
            /\ UNCHANGED <<AiBusy, asked, owner, shown, text, at, seen, fate, tables>>

-------------------------------------------------------------------------------
(* StreamMessage *)

\* text_delta: text of this attempt goes to the client, if only an empty one
Delta(r) ==
  /\ stage[r] = "stream"
  /\ shown' = [shown EXCEPT ![r] = @ \cup {attempt[r]}]
  /\ \/ UNCHANGED text
     \/ text' = [text EXCEPT ![r] = TRUE]
  /\ UNCHANGED <<AiBusy, asked, owner, stage, attempt, at, history, seen, fate, tables>>

Retry(r) ==
  /\ attempt' = [attempt EXCEPT ![r] = @ + 1]
  /\ UNCHANGED <<AiBusy, asked, owner, stage, shown, text, at, history, seen, fate, tables>>

\* Mutant of NetworkError: retries although there was text
NetworkErrorRetry(r) ==
  /\ stage[r] = "stream" /\ "claude" \in Faults
  /\ IF attempt[r] = MaxAttempts THEN Done(r) ELSE Retry(r)

\* the connection fails, is closed too early, or the time is up
NetworkError(r) ==
  /\ stage[r] = "stream" /\ "claude" \in Faults
  /\ IF attempt[r] \in shown[r] \/ attempt[r] = MaxAttempts THEN Done(r) ELSE Retry(r)

\* 429 or 5xx, which come before any text
Overloaded(r) ==
  /\ stage[r] = "stream" /\ "claude" \in Faults
  /\ attempt[r] \notin shown[r]
  /\ IF attempt[r] = MaxAttempts THEN Done(r) ELSE Retry(r)

\* any other status, or an error event in the stream
Rejected(r) == stage[r] = "stream" /\ "claude" \in Faults /\ Done(r)

\* StreamMessage returns, and its arguments and variables end with it
Returns(r) ==
  /\ attempt' = [attempt EXCEPT ![r] = 0]
  /\ history' = [history EXCEPT ![r] = <<>>]
  /\ Goto(r, "store")
  /\ UNCHANGED <<AiBusy, asked, owner, at, seen, fate, tables>>

\* the end of the stream, perhaps without text
StreamEnds(r) ==
  /\ stage[r] = "stream"
  /\ Returns(r)
  /\ UNCHANGED <<shown, text>>

\* stop_reason "refusal" without text: the service sends a sentence of its own
Refusal(r) ==
  /\ stage[r] = "stream" /\ ~text[r]
  /\ shown' = [shown EXCEPT ![r] = @ \cup {attempt[r]}]
  /\ text' = [text EXCEPT ![r] = TRUE]
  /\ Returns(r)

-------------------------------------------------------------------------------
(* After the call *)

LoadUsage(r) ==
  /\ stage[r] = "store"
  /\ Stamp(r)
  /\ \E calls \in Calls("select") :
       /\ seen' = [seen EXCEPT ![r] = calls]
       /\ fate' = [fate EXCEPT ![r] = IF calls = usage THEN "none" ELSE "failed"]
  /\ Goto(r, "count")
  /\ UNCHANGED <<AiBusy, asked, owner, attempt, shown, text, history, messages, usage>>

Answer(r) == IF text[r] THEN {[at |-> at[r], role |-> "assistant", req |-> r]} ELSE {}

\* Mutant of Count: the UPDATE does not compare the row with what was loaded
CountAnyway(r) ==
  /\ stage[r] = "count"
  /\ usage' = seen[r] + 1
  /\ fate' = [fate EXCEPT ![r] = "counted"]
  /\ messages' = messages \cup Answer(r)
  /\ Ends(r)
  /\ UNCHANGED clock

Counted(r) ==
  /\ usage = seen[r]
  /\ usage' = usage + 1
  /\ fate' = [fate EXCEPT ![r] = "counted"]
  /\ Ends(r)
  /\ UNCHANGED clock

\* The answer and the usage, if nobody has counted since: a row that has
\* changed is a conflict, one that is there now violates the unique index.
\* What fails is only logged, or not noticed.
Count(r) ==
  /\ stage[r] = "count"
  /\ \/ Counted(r) /\ messages' = messages \cup Answer(r)
     \/ usage # seen[r] /\ Uncounted(r, IF fate[r] = "failed" THEN "failed" ELSE "conflict")
     \/ Faults \cap {"execute", "commit"} # {} /\ Uncounted(r, "failed")

\* Begin has failed: the answer is there by itself ...
CountAlone(r) ==
  /\ "begin" \in Faults
  /\ stage[r] = "count" /\ text[r]
  /\ messages' = messages \cup Answer(r)
  /\ fate' = [fate EXCEPT ![r] = "failed"]
  /\ \/ Goto(r, "tally") /\ UNCHANGED <<AiBusy, asked, owner, frame>>
     \/ "execute" \in Faults /\ Ends(r)
  /\ UNCHANGED <<clock, usage>>

\* ... and then the usage
Tally(r) ==
  /\ stage[r] = "tally"
  /\ \/ Counted(r) /\ UNCHANGED messages
     \/ (usage # seen[r] \/ "execute" \in Faults) /\ Uncounted(r, "failed")

-------------------------------------------------------------------------------
Coroutine(r) ==
  \/ Check(r) \/ StampQuestion(r) \/ SaveQuestion(r) \/ Load(r)
  \/ Delta(r) \/ NetworkError(r) \/ Overloaded(r) \/ Rejected(r)
  \/ StreamEnds(r) \/ Refusal(r)
  \/ LoadUsage(r) \/ Count(r) \/ CountAlone(r) \/ Tally(r) \/ Throw(r) \/ Leave(r)

Next == (\E s \in Sessions : Ask(s)) \/ \E r \in Requests : Coroutine(r)

Spec == Init /\ [][Next]_vars

\* A coroutine goes on; Claude ends a stream or the deadline does.
FairSpec == Spec /\ \A r \in Requests : WF_vars(Coroutine(r))

-------------------------------------------------------------------------------
TypeOK ==
  /\ AiBusy \in [Sessions -> BOOLEAN]
  /\ asked \in 0 .. MaxAsks
  /\ owner \in [Requests -> Sessions \cup {NoSession}]
  /\ stage \in [Requests -> Stages]
  /\ attempt \in [Requests -> 0 .. MaxAttempts]
  /\ shown \in [Requests -> SUBSET (1 .. MaxAttempts)]
  /\ text \in [Requests -> BOOLEAN]
  /\ at \in [Requests -> Nat]
  /\ seen \in [Requests -> Nat]
  /\ fate \in [Requests -> Fates]
  /\ clock \in Nat /\ messages \in SUBSET Message /\ usage \in Nat

\* A client reads one reply at a time, and the text of one attempt only:
\* neither a second request nor a retry mixes another text into it
\* (README.md:312, ClientPacketHandler.cpp:1014, ClaudeClient.cpp:177).
OneReplyAtATime ==
  /\ \A r, q \in Requests : Running(r) /\ Running(q) /\ owner[r] = owner[q] => r = q
  /\ \A r \in Requests : Cardinality(shown[r]) <= 1

Answers == {m \in messages : m.role = "assistant"}

With(f) == {r \in Requests : fate[r] = f}

\* Calls that are checked together and counted later overrun the quota by one
\* call for each further session at most, and no count is lost. But the quota
\* bounds the counter, not the calls (README.md:310): one that meets a count
\* of another session is only logged (AiChatService.cpp:255), and so each
\* count may hide a call of every further session. An answer that is kept was
\* counted, unless the database has failed on its way. The first bound rests
\* on the SELECT of the check: with "quota" in Faults, one that fails lets a
\* further request through.
QuotaHolds ==
  /\ usage <= DailyCalls + Cardinality(Sessions) - 1
  /\ usage = Cardinality(With("counted"))
  /\ Cardinality(With("conflict")) <= (Cardinality(Sessions) - 1) * usage
  /\ \A m \in Answers : fate[m.req] \in {"counted", "failed"}

Saved(r) == \E m \in messages : m.role = "user" /\ m.req = r

\* Claude gets what its API takes, whatever failed before or is going on in
\* other sessions: a question first, then questions and answers in turn. With
\* one session it ends with the question that is asked (AiChatService.cpp:85),
\* if that was saved: when its Commit fails, it is not in the history that is
\* said to include it (AiChatService.cpp:173).
HistoryIsAccepted ==
  \A r \in Requests : history[r] # <<>> =>
    /\ \A k \in 1 .. Len(history[r]) :
         history[r][k].role = IF k % 2 = 1 THEN "user" ELSE "assistant"
    /\ Saved(r) /\ (\A q \in 1 .. asked : owner[q] = owner[r]) =>
         Last(history[r]).role = "user" /\ r \in Last(history[r]).of

\* A session that has asked can ask again in the end, however its request ends.
BusyEnds == <>[](\A s \in Sessions : ~AiBusy[s])
===============================================================================
