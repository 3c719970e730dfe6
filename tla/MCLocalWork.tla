----------------------------- MODULE MCLocalWork ----------------------------
(* Instance of LocalWork for TLC. *)
EXTENDS LocalWork

CONSTANTS t1, t2, t3

MCTask == {t1, t2, t3}
=============================================================================
