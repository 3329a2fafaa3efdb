------------------------------- MODULE KeyMap -------------------------------
(***************************************************************************)
(* What the maps of lf promise their callers, whatever happens inside      *)
(* (HashMap in src/include/lf/hash_map.hh, BasicTable in                   *)
(* src/include/masstree/masstree.hh): every operation takes effect at one  *)
(* moment between its call and its return.  An operation that changes      *)
(* nothing returns something that was true at one moment in between.       *)
(***************************************************************************)
CONSTANTS Threads, Keys, Values,
          None    \* no value

VARIABLES map,    \* the value of every key, or None
          call    \* per thread: its operation, and what it may return

Operations == {"get", "insert", "put", "remove"}
Results == Values \cup {None} \cup BOOLEAN
Returned(r) == [op |-> "none", result |-> r]
Calls == {Returned(r) : r \in Results} \cup [op : Operations, key : Keys, val : Values \cup {None},
                      seen : SUBSET (Values \cup {None}), \* values of the key since the call
                      took : BOOLEAN]                     \* the map was changed

Init == /\ map = [k \in Keys |-> None]
        /\ call = [t \in Threads |-> Returned(None)]

Invoke(t, op, k, v) ==
    /\ call[t].op = "none"
    /\ call' = [call EXCEPT ![t] = [op |-> op, key |-> k, val |-> v, seen |-> {map[k]}, took |-> FALSE]]
    /\ UNCHANGED map

Watch(c, k, v) == IF c.op \in Operations /\ c.key = k THEN [c EXCEPT !.seen = @ \cup {v}] ELSE c

TakeEffect(t) ==
    LET c == call[t]
        v == IF c.op = "remove" THEN None ELSE c.val
    IN  /\ c.op \in Operations
        /\ ~c.took
        /\ \/ c.op = "insert" /\ map[c.key] = None
           \/ c.op = "put"
           \/ c.op = "remove" /\ map[c.key] # None
        /\ map' = [map EXCEPT ![c.key] = v]
        /\ call' = [u \in Threads |-> IF u = t THEN [Watch(c, c.key, v) EXCEPT !.took = TRUE]
                                               ELSE Watch(call[u], c.key, v)]

\* result: the value read; for the others, whether they did it.
Return(t, result) ==
    LET c == call[t]
    IN  /\ c.op \in Operations
        /\ CASE c.op = "get"    -> result \in c.seen
             [] c.op = "put"    -> c.took /\ result = TRUE
             [] c.op = "insert" -> result = c.took /\ (c.took \/ c.seen # {None})
             [] c.op = "remove" -> result = c.took /\ (c.took \/ None \in c.seen)
        /\ call' = [call EXCEPT ![t] = Returned(result)]
        /\ UNCHANGED map

\* (That call[t] changes is implied, and spares the model checker the search for a call.)
Next == \E t \in Threads :
            \/ call'[t] # call[t] /\ \E op \in Operations, k \in Keys, v \in Values \cup {None} : Invoke(t, op, k, v)
            \/ TakeEffect(t)
            \/ \E result \in Results : Return(t, result)

Spec == Init /\ [][Next]_<<map, call>>
===============================================================================
