----------------------------- MODULE MCChatRooms ------------------------------
(* Small instances of ChatRooms for TLC. *)
EXTENDS ChatRooms, TLC

CONSTANTS s1, s2, p1, p2

TwoSessions == {s1, s2}

\* every client has an account of its own
OwnAccounts == s1 :> {p1} @@ s2 :> {p2}

\* both clients log in with the same account
SharedAccount == s1 :> {p1} @@ s2 :> {p1}
===============================================================================
