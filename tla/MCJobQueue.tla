------------------------------ MODULE MCJobQueue ------------------------------
(* A small instance of JobQueue for TLC. After Stop all workers leave their   *)
(* loop and the process goes on to the shutdown sequence of ServerApp::Run:   *)
(* the model ends there.                                                      *)
EXTENDS JobQueue

CONSTANTS t1, t2, q1, q2

TwoThreads == {t1, t2}
TwoQueues  == {q1, q2}
===============================================================================
