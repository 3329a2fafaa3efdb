----------------------------- MODULE OrderedMap -----------------------------
(***************************************************************************)
(* KeyMap with scans (BasicTable::scan in src/include/masstree/mt_scan.hh). *)
(* A scan is not atomic.  It visits keys in ascending order, each with a   *)
(* value the key had since the scan began, and it passes over a key only   *)
(* if the key was absent at one moment since then.                         *)
(***************************************************************************)
EXTENDS KeyMap, Naturals, Sequences

VARIABLE scan \* per thread: its scan, or NoScan

\* Keys are strings of slices, in lexicographic order.
Before(a, b) ==
    \E i \in 1 .. Len(b) : /\ i <= Len(a) + 1
                           /\ \A j \in 1 .. i - 1 : a[j] = b[j]
                           /\ i <= Len(a) => a[i] < b[i]

InScan == [op |-> "scan"]
NoScan == [on |-> FALSE]
NewScan(k, first) ==
    [on |-> TRUE, val |-> None,
     last |-> k, first |-> first, \* the scan goes on behind last, or with it
     was |-> {}]                  \* what keys had been since the scan began, before they changed

Ahead(s, k) == Before(s.last, k) \/ (s.first /\ k = s.last)
Had(s, k, v) == map[k] = v \/ <<k, v>> \in s.was
MayPass(s, k) == Ahead(s, k) => Had(s, k, None)
Visited(s, k, v) == [s EXCEPT !.last = k, !.val = v, !.first = FALSE]
WatchScan(s) == IF ~s.on THEN s ELSE [s EXCEPT !.was = @ \cup {<<k, map[k]>> : k \in {j \in Keys : map'[j] # map[j]}}]

StartScan(t, k, first) ==
    /\ call[t].op = "none"
    /\ call' = [call EXCEPT ![t] = InScan]
    /\ scan' = [scan EXCEPT ![t] = NewScan(k, first)]
    /\ UNCHANGED map

Visit(t, k, v) ==
    LET s == scan[t]
    IN  /\ s.on
        /\ scan' = [scan EXCEPT ![t] = Visited(s, k, v)]
        /\ UNCHANGED <<map, call>>
        /\ v # None /\ Had(s, k, v)
        /\ Ahead(s, k)
        /\ \A j \in Keys : Before(j, k) => MayPass(s, j)

EndScan(t) ==
    /\ scan[t].on
    /\ scan' = [scan EXCEPT ![t] = NoScan]
    /\ call' = [call EXCEPT ![t] = Returned(None)]
    /\ UNCHANGED map
    /\ \A j \in Keys : MayPass(scan[t], j)

ScanNext ==
    \/ Next /\ scan' = [t \in Threads |-> WatchScan(scan[t])]
    \/ \E t \in Threads : \/ scan'[t] # scan[t] /\ \E k \in Keys, first \in BOOLEAN : StartScan(t, k, first)
                          \/ scan'[t] # scan[t] /\ \E k \in Keys, v \in Values : Visit(t, k, v)
                          \/ EndScan(t)

OrderedSpec == Init /\ scan = [t \in Threads |-> NoScan] /\ [][ScanNext]_<<map, call, scan>>
=============================================================================
