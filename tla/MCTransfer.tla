------------------------------ MODULE MCTransfer ------------------------------
(* Small instances of Transfer for TLC. *)
EXTENDS Transfer, TLC

CONSTANTS s1, s2, s3, ann, bob, cat

TwoSessions   == {s1, s2}
ThreeSessions == {s1, s2, s3}

\* one session per user, in the order of the keys
OneEach2 == s1 :> 1 @@ s2 :> 2
OneEach3 == s1 :> 1 @@ s2 :> 2 @@ s3 :> 3

\* two sessions pay each other while the third renames and closes its account
PayersAndOther == s1 :> {"transfer"} @@ s2 :> {"transfer"} @@ s3 :> {"rename", "delete"}

AllPay == [s \in ThreeSessions |-> {"transfer"}]

AllKinds == [s \in TwoSessions |-> {"transfer", "rename", "delete"}]

OnlyPay == [s \in TwoSessions |-> {"transfer"}]

TwoNames == <<ann, bob>>
ThreeNames == <<ann, bob, cat>>
===============================================================================
