--------------------------- MODULE LimboInvariant ---------------------------
(***************************************************************************)
(* Why an epoch bound read without a lock is enough: the facts that every  *)
(* step of Limbo preserves and that together imply SafeAcrossPasses.       *)
(***************************************************************************)
EXTENDS Limbo

\* What a call in progress may rely on.
CallOKFor(t) ==
    /\ pc[t] = "publish" => hdl[t] \in Handles
    /\ pc[t] = "dealloc" => hdl[t] \in RangeOf(handles[t])
    /\ pc[t] = "unlink" => hdl[t] \in RangeOf(handles[t]) /\ cache[hdl[t]] = <<>>
    /\ pc[t] = "scan" => scanned[t] < NThreads
    /\ pc[t] \in {"free", "callback", "record"} => scanned[t] = NThreads

CallOK == \A t \in Threads : CallOKFor(t)

\* No epoch is used before global_epoch reached it.
EpochsIssued ==
    /\ \A t \in Threads : RangeOf(handles[t]) \subseteq Issued
    /\ \A o \in Objects : blockers[o] \subseteq Issued
    /\ \A t \in Threads : \A e \in RangeOf(limbo[t]) : e.epoch <= globalEpoch

\* A thread's list holds its handles in the order of their epochs.
Ascending(s) == \A i, j \in 1 .. Len(s) : i < j => s[i] < s[j]
OldestFirst == \A t \in Threads : Ascending(handles[t])

\* The published min_epoch_ is the oldest handle's, or 0.
MinEpochIsOldest == \A t \in Threads : minEpoch[t] = Oldest(handles[t])

\* Between the atomic add and the link, a handle's epoch is its own: nobody's
\* list holds it and it blocks nothing.
FreshUntilPublished ==
    \A t \in Threads : pc[t] = "publish" =>
        /\ hdl[t] \in Issued \ Active
        /\ \A o \in Objects : hdl[t] \notin blockers[o]
        /\ \A h \in RangeOf(handles[t]) : h < hdl[t]
        /\ \A u \in Threads : pc[u] = "publish" /\ u # t => hdl[u] # hdl[t]

\* A handle is in one thread's list.
OneOwner == \A t, u \in Threads : \A h \in RangeOf(handles[t]) \cap RangeOf(handles[u]) : t = u

\* An object still linked has not been deallocated.
LinkedNotRetired ==
    \A o \in linked :
        /\ o \notin freed
        /\ \A t \in Threads : o \notin obj[t]
        /\ \A h \in Handles : o \notin RangeOf(cache[h])
        /\ \A t \in Threads : \A e \in RangeOf(limbo[t]) : e.item # o

\* A recorded object carries an epoch no older than the handles that block it.
RetiredAfter ==
    \A t \in Threads : \A e \in RangeOf(limbo[t]) :
        e.item \in Objects => \A h \in blockers[e.item] : h <= e.epoch

SamePassFreed == samePass \subseteq freed

\* STRENGTHENING.  Together with TypeOK, ScanIsSound and SafeAcrossPasses, what
\* new_handle, dealloc, delete_handle and hard_free keep true at every step.
Strengthening ==
    /\ CallOK
    /\ EpochsIssued
    /\ OldestFirst
    /\ MinEpochIsOldest
    /\ FreshUntilPublished
    /\ OneOwner
    /\ LinkedNotRetired
    /\ RetiredAfter
    /\ SamePassFreed
=============================================================================
