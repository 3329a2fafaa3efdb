----------------------------- MODULE MCLimboGroup -----------------------------
(* Groups of three slots; four pointers, one of them a callback.     *)
EXTENDS LimboGroup
===============================================================================
