------------------------------- MODULE LimboTSO -------------------------------
(***************************************************************************)
(* Limbo as x86 runs it: the relaxed stores to min_epoch_ (limbo.cc:113    *)
(* and 134, compiler.hh:132) are plain moves that wait in the store buffer *)
(* of the thread while it goes on reading.  Locked instructions (the add   *)
(* to global_epoch, the unlink of an object) first drain the buffer.       *)
(***************************************************************************)
EXTENDS Limbo

VARIABLE buffer    \* per thread: stores to its min_epoch_ not yet in memory

varsTSO == <<vars, buffer>>

Drained(t) == buffer[t] = <<>>

InitTSO == Init /\ buffer = [t \in Threads |-> <<>>]

\* A store of Limbo is redirected into the buffer.
Buffered(t, e) == buffer' = [buffer EXCEPT ![t] = Append(@, e)]

PublishTSO(t) ==
    /\ pc[t] = "publish"
    /\ handles' = [handles EXCEPT ![t] = Append(@, hdl[t])]
    /\ IF handles[t] = <<>> THEN Buffered(t, hdl[t]) ELSE UNCHANGED buffer
    /\ hdl' = [hdl EXCEPT ![t] = 0]
    /\ Goto(t, "idle")
    /\ UNCHANGED <<globalEpoch, minEpoch, cache, limbo, obj, scanned, ae, count, client, ghost>>

UnlinkHandleTSO(t) ==
    /\ pc[t] = "unlink"
    /\ LET left == Without(handles[t], hdl[t])
       IN  /\ handles' = [handles EXCEPT ![t] = left]
           /\ IF Oldest(left) # Oldest(handles[t])
              THEN Buffered(t, Oldest(left)) /\ StartScan(t)
              ELSE Goto(t, "idle") /\ UNCHANGED <<scanned, ae, count, buffer>>
    /\ hdl' = [hdl EXCEPT ![t] = 0]
    /\ UNCHANGED <<globalEpoch, minEpoch, cache, limbo, obj, client, ghost>>

Drain(t) ==
    /\ ~Drained(t)
    /\ minEpoch' = [minEpoch EXCEPT ![t] = Head(buffer[t])]
    /\ buffer' = [buffer EXCEPT ![t] = Tail(@)]
    /\ UNCHANGED <<globalEpoch, handles, cache, limbo, local, client, ghost>>

\* A thread reads its own min_epoch_ through its buffer.
ScanTSO(t) ==
    /\ pc[t] = "scan"
    /\ LET u == scanned[t]
           m == IF u = t /\ ~Drained(t) THEN buffer[t][Len(buffer[t])] ELSE minEpoch[u]
       IN  ae' = [ae EXCEPT ![t] = IF m # 0 /\ m < @ THEN m ELSE @]
    /\ scanned' = [scanned EXCEPT ![t] = @ + 1]
    /\ Goto(t, IF scanned[t] + 1 = NThreads THEN "free" ELSE "scan")
    /\ UNCHANGED <<shared, hdl, obj, count, client, ghost, buffer>>

Locked(t) ==
    /\ Drained(t)
    /\ \/ NewHandle(t)
       \/ \E h \in RangeOf(handles[t]), o \in Objects : Unlink(t, h, o)
       \/ \E o \in Objects : CallbackUnlink(t, o)
    /\ UNCHANGED buffer

Unaffected(t) ==
    /\ \/ HardFreeReturns(t) \/ CallbackReturns(t)
       \/ \E h \in RangeOf(handles[t]) : DeleteHandle(t, h)
       \/ \E o \in Objects : \/ HandleDealloc(t, o) \/ ThreadDealloc(t, o) \/ Free(t, o)
                             \/ CallbackRecord(t, o)
       \/ \E c \in Callbacks : RegisterRcu(t, c) \/ FirstCall(t, c) \/ RunCallback(t, c)
    /\ UNCHANGED buffer

NextTSO == \E t \in Threads : \/ PublishTSO(t) \/ UnlinkHandleTSO(t) \/ Drain(t)
                              \/ ScanTSO(t) \/ Locked(t) \/ Unaffected(t)

SpecTSO == InitTSO /\ [][NextTSO]_varsTSO
===============================================================================
