------------------------------ MODULE MCDynArray ------------------------------
(* Three levels of arrays of two; the last index of the first level, the first of the second, and neighbours in two leaves of the third. *)
EXTENDS DynArray, TLC
RECURSIVE ElementsBefore(_)
ElementsBefore(i) == IF i = 0 THEN 0 ELSE ElementsBefore(i - 1) + DYNARRAY_LEVEL_LENGTH ^ i
InPrevLevels == [i \in 0 .. DYNARRAY_LEVELS |-> ElementsBefore(i)]
InPrevLevel == [i \in 0 .. DYNARRAY_LEVELS |-> IF i = 0 THEN 0 ELSE DYNARRAY_LEVEL_LENGTH ^ i]
ThreadSymmetry == Permutations(Threads)
===============================================================================
