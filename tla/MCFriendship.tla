----------------------------- MODULE MCFriendship ------------------------------
(* A small instance of Friendship for TLC. *)
EXTENDS Friendship, TLC

CONSTANTS s1, s2, s3

\* ann is logged in twice
Owners == s1 :> "ann" @@ s2 :> "bob" @@ s3 :> "ann"

\* A request that waits beside a row in the other direction is left to the
\* run: it takes two requests at once.
Starts == {status \in Statuses : \A u, v \in Users :
             status[<<u, v>>] # "none" =>
               u # v /\ (status[<<u, v>>] = "pending" => status[<<v, u>>] = "none")}
===============================================================================
