------------------------------ MODULE MCAiChat ---------------------------------
(* A small instance of AiChat for TLC. *)
EXTENDS AiChat

CONSTANTS s1, s2
===============================================================================
