----------------------------- MODULE MCChildren ------------------------------
(* Instance of Children for TLC: all four signals, one of each pending.    *)
EXTENDS Children
=============================================================================
