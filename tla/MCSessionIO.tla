----------------------------- MODULE MCSessionIO ------------------------------
(* A small instance of SessionIO for TLC. *)
EXTENDS SessionIO

CONSTANTS t1, t2

TwoThreads == {t1, t2}
===============================================================================
