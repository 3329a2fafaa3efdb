------------------------------ MODULE MCLimboTSO ------------------------------
(* Two threads, a reader and one that unlinks; no callbacks.               *)
EXTENDS LimboTSO
===============================================================================
