--------------------------- MODULE TransferNotices ----------------------------
(***************************************************************************)
(* What the clients see of the transfers: Handle_C_TRANSFER commits and    *)
(* then sends S_TRANSFER to the payer and S_TRANSFER_RECEIVED to the       *)
(* payee, each with the balance its DBContext computed, and the client     *)
(* shows the balance of the last message (ServerPacketHandler.cpp:264-284).*)
(***************************************************************************)
EXTENDS Transfer

VARIABLE shown  \* shown[s]: GMyBalance of the client of session s; every
                \* instance gives each user one session

nvars == <<vars, shown>>

NInit == Init /\ shown = [s \in Sessions |-> InitialBalance]

Sent(s)     == pc[s] = "answer" /\ pc'[s] = "notify"
Notified(s) == pc[s] = "notify" /\ pc'[s] = "idle"

\* the balance in the message that this step sends to the client of r
Message(r) == {ctx[s].value[Me(r)].balance :
                 s \in {x \in Sessions : \/ x = r /\ Sent(x)
                                         \/ Notified(x) /\ ctx[x].payee = Me(r)}}

NNext == /\ Next
         /\ shown' = [r \in Sessions |-> IF Message(r) = {} THEN shown[r]
                                         ELSE CHOOSE b \in Message(r) : TRUE]

NSpec == NInit /\ [][NNext]_nvars

\* "S_TRANSFER_RECEIVED is pushed to a receiver who is online and updates the
\* balance at once" (README.md:131): when every transfer has sent its
\* messages, a client shows the balance of its account.
ShownBalanceIsCurrent ==
  (\A s \in Sessions : pc[s] \notin {"answer", "notify"}) =>
     \A s \in Sessions : users[Me(s)] # Absent => shown[s] = users[Me(s)].balance
===============================================================================
