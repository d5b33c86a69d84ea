----------------------------- MODULE MCServiceHost -----------------------------
(***************************************************************************)
(* Instances of ServiceHost for TLC: two or three caller threads.        *)
(***************************************************************************)
EXTENDS ServiceHost

CONSTANTS t1, t2, t3

===============================================================================
