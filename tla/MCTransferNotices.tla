--------------------------- MODULE MCTransferNotices ---------------------------
(* Small instances of TransferNotices for TLC. *)
EXTENDS TransferNotices, TLC

CONSTANTS s1, s2, s3, ann, bob, cat

ThreeSessions == {s1, s2, s3}
OneEach3 == s1 :> 1 @@ s2 :> 2 @@ s3 :> 3
AllPay == [s \in ThreeSessions |-> {"transfer"}]
ThreeNames == <<ann, bob, cat>>
===============================================================================
