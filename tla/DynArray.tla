------------------------------- MODULE DynArray -------------------------------
(***************************************************************************)
(* DynArray (src/include/lf/dyn_array.hh, src/src/dyn_array.cc): an array  *)
(* that grows without a lock.  Level i is a tree of arrays, i deep, whose  *)
(* leaves hold the elements; threads that miss an array allocate one and   *)
(* race to install it.  Each read, and each compare and swap, of a pointer *)
(* is a step; an allocation is private until it is installed.             *)
(***************************************************************************)
EXTENDS Integers, FiniteSets

CONSTANTS Threads,
          DYNARRAY_LEVEL_LENGTH,
          DYNARRAY_LEVELS,
          dynarray_idxes_in_prev_levels, \* table: elements of the levels before i
          dynarray_idxes_in_prev_level,  \* table: elements below each pointer of an array of level i
          Asked,     \* bound: the indices asked for
          Blocks,    \* bound: the memory that malloc has, as numbers
          Root,      \* the array level_
          Null,
          MaxCalls   \* bound: calls of a thread
LEN == DYNARRAY_LEVEL_LENGTH
LEVELS == DYNARRAY_LEVELS

ASSUME LengthAssumption == LEN \in Nat \ {0} /\ LEVELS \in Nat \ {0}
\* The last entries, which the code has no use for, are beyond what 32 bits can ask for.
ASSUME TablesAssumption ==
    /\ dynarray_idxes_in_prev_levels \in [0 .. LEVELS -> Nat]
    /\ dynarray_idxes_in_prev_level \in [0 .. LEVELS -> Nat]
    /\ dynarray_idxes_in_prev_levels[0] = 0 /\ dynarray_idxes_in_prev_level[0] = 0
    /\ dynarray_idxes_in_prev_level[1] = LEN
    /\ \A i \in 1 .. LEVELS - 1 : dynarray_idxes_in_prev_level[i + 1] = LEN * dynarray_idxes_in_prev_level[i]
    /\ \A i \in 0 .. LEVELS - 1 : dynarray_idxes_in_prev_levels[i + 1]
                                    = dynarray_idxes_in_prev_levels[i] + dynarray_idxes_in_prev_level[i + 1]
ASSUME AskedAssumption == Asked \subseteq 0 .. dynarray_idxes_in_prev_levels[LEVELS] - 1
ASSUME BlocksAssumption == Blocks \subseteq Nat /\ Root \notin Blocks /\ Null \notin Blocks
ASSUME CallsAssumption == MaxCalls \in Nat

VARIABLES ptr,       \* the pointers, by array and place in it
          allocated, \* blocks in use
          th,        \* what each thread does
          trail,     \* history: every place that a call got to, on its way to which index
          alive      \* the destructor has not run
vars == <<ptr, allocated, th, trail, alive>>

Slots == ({Root} \X (0 .. LEVELS - 1)) \cup (Blocks \X (0 .. LEN - 1))
Pointers == Blocks \cup {Null}

\* The level that has the index: the search goes down from the last one.
StartsTooHigh(idx, i) == /\ idx >= dynarray_idxes_in_prev_levels[i]
                         /\ \A j \in i + 1 .. LEVELS - 1 : idx <= dynarray_idxes_in_prev_levels[j]
Starts(idx, i) == /\ idx >= dynarray_idxes_in_prev_levels[i]
                  /\ \A j \in i + 1 .. LEVELS - 1 : idx < dynarray_idxes_in_prev_levels[j]

\* A place on the way: the pointer to follow, i levels above the elements, for the element rest of those below it.
Place(idx, i, rest, slot) == [idx |-> idx, i |-> i, rest |-> rest, slot |-> slot]
Idle == [at |-> "idle", op |-> "none", place |-> Place(0, 0, 0, <<Root, 0>>), new |-> Null, calls |-> 0]

Init ==
    /\ ptr = [s \in Slots |-> Null]
    /\ allocated = {}
    /\ th = [t \in Threads |-> Idle]
    /\ trail = {}
    /\ alive = TRUE

Goes(t, at, place, new) ==
    /\ th' = [th EXCEPT ![t].at = at, ![t].place = place, ![t].new = new]
    /\ trail' = trail \cup {place}

\* lvalue and value begin at the root of the level that has the index.
First(idx, level) == Place(idx, level, idx - dynarray_idxes_in_prev_levels[level], <<Root, level>>)
Call(t, op, idx) ==
    /\ th[t].at = "idle" /\ alive /\ th[t].calls < MaxCalls
    /\ \E level \in 0 .. LEVELS - 1 :
        /\ Starts(idx, level)
        /\ th' = [th EXCEPT ![t] = [at |-> "read", op |-> op, place |-> First(idx, level), new |-> Null, calls |-> @.calls + 1]]
        /\ trail' = trail \cup {First(idx, level)}
    /\ UNCHANGED <<ptr, allocated, alive>>

\* From a place on through p: to the next pointer, or to the element.
Below(place, p) ==
    IF place.i = 0 THEN Place(place.idx, -1, 0, <<p, place.rest>>)
    ELSE LET n == dynarray_idxes_in_prev_level[place.i]
         IN  Place(place.idx, place.i - 1, place.rest % n, <<p, place.rest \div n>>)
Down(t, p) == Goes(t, IF th[t].place.i = 0 THEN "idle" ELSE "read", Below(th[t].place, p), Null)

ReturnsNull(t) == /\ th' = [th EXCEPT ![t].at = "idle"]
                  /\ UNCHANGED <<ptr, allocated, trail, alive>>
Read(t) ==
    /\ th[t].at = "read"
    /\ ptr[th[t].place.slot] # Null
    /\ Down(t, ptr[th[t].place.slot])
    /\ UNCHANGED <<ptr, allocated, alive>>
\* There is no array: value returns, and so does lvalue if there is no memory.
Missing(t) ==
    /\ th[t].at = "read"
    /\ ptr[th[t].place.slot] = Null
    /\ ReturnsNull(t)
\* malloc and memset.  Which block it is makes no difference.
Malloc(t) ==
    /\ th[t].at = "read" /\ th[t].op = "lvalue"
    /\ ptr[th[t].place.slot] = Null
    /\ \E b \in Blocks \ allocated :
        /\ \A c \in Blocks \ allocated : b <= c
        /\ allocated' = allocated \cup {b}
        /\ ptr' = [s \in Slots |-> IF s[1] = b THEN Null ELSE ptr[s]]
        /\ th' = [th EXCEPT ![t].at = "install", ![t].new = b]
    /\ UNCHANGED <<trail, alive>>

Install(t) ==
    LET slot == th[t].place.slot
    IN  /\ th[t].at = "install"
        /\ ptr[slot] = Null
        /\ ptr' = [ptr EXCEPT ![slot] = th[t].new]
        /\ Down(t, th[t].new)
        /\ UNCHANGED <<allocated, alive>>
LoseLeaks(t) ==
    /\ th[t].at = "install"
    /\ ptr[th[t].place.slot] # Null
    /\ Down(t, ptr[th[t].place.slot])
    /\ UNCHANGED <<ptr, allocated, alive>>
\* Another thread was faster: its array is used, and the own one freed.
Lose(t) ==
    LET slot == th[t].place.slot
    IN  /\ th[t].at = "install"
        /\ ptr[slot] # Null
        /\ allocated' = allocated \ {th[t].new}
        /\ Down(t, ptr[slot])
        /\ UNCHANGED <<ptr, alive>>

\* What rescursive_free(array, level) frees.
rescursive_free[level \in 0 .. LEVELS - 1] ==
    [a \in Pointers |-> IF a = Null THEN {}
                        ELSE IF level = 0 THEN {a}
                        ELSE {a} \cup UNION {rescursive_free[level - 1][ptr[<<a, k>>]] : k \in 0 .. LEN - 1}]
DestroyArrays == \* starts with level 1
    /\ alive
    /\ \A t \in Threads : th[t].at = "idle"
    /\ allocated' = allocated \ UNION {rescursive_free[i][ptr[<<Root, i>>]] : i \in 1 .. LEVELS - 1}
    /\ alive' = FALSE
    /\ UNCHANGED <<ptr, th, trail>>
\* ~DynArray, when nobody uses the array any more.
Destroy ==
    /\ alive
    /\ \A t \in Threads : th[t].at = "idle"
    /\ allocated' = allocated \ UNION {rescursive_free[i][ptr[<<Root, i>>]] : i \in 0 .. LEVELS - 1}
    /\ alive' = FALSE
    /\ UNCHANGED <<ptr, th, trail>>

Next == \/ \E t \in Threads : \/ \E op \in {"lvalue", "value"}, idx \in Asked : Call(t, op, idx)
                              \/ Read(t) \/ Missing(t) \/ Malloc(t) \/ Install(t) \/ Lose(t)
        \/ Destroy
Spec == Init /\ [][Next]_vars
-------------------------------------------------------------------------------
Elements == {x \in trail : x.i = -1}

\* Whoever asks for an index gets one element, the same one whoever won the races for the arrays above it, and no other index has it (dyn_array.cc:57-141: the bounds of the levels, and the compare and swaps at 80 and 107).
OneCellPerIndex == \A x, y \in Elements : /\ x.slot \in Slots
                                           /\ x.idx = y.idx <=> x.slot = y.slot

\* A block is in use for one pointer, or for one thread that is about to install it: no array is lost in a race, and none is reached that was freed (dyn_array.cc:73-84, 88-111).
ArraysInOnePlace ==
    alive =>
        /\ \A s, r \in Slots : ptr[s] = ptr[r] /\ ptr[s] # Null => s = r
        /\ \A t \in Threads : th[t].new # Null => /\ \A s \in Slots : ptr[s] # th[t].new
                                                  /\ \A u \in Threads \ {t} : th[u].new # th[t].new
        /\ allocated = ({ptr[s] : s \in Slots} \cup {th[t].new : t \in Threads}) \ {Null}

\* The destructor frees every array, of all levels and whoever installed it (dyn_array.cc:28-52).
DestroyFreesAll == ~alive => allocated = {}
=============================================================================
