---------------------------- MODULE MCPacketPath -----------------------------
(* A small instance of PacketPath for TLC. *)
EXTENDS PacketPath, TLC

CONSTANTS t1, t2, c1, c2, c3

TwoThreads == {t1, t2}
Symmetry == Permutations({c1, c2, c3}) \cup Permutations(TwoThreads)
===============================================================================
