------------------------------- MODULE MCLimbo -------------------------------
(* Limbo on two threads.  Objects are interchangeable in the code.          *)
EXTENDS LimboInvariant, TLC

ObjectSymmetry == Permutations(Objects)
===============================================================================
