-------------------------------- MODULE Limbo --------------------------------
(***************************************************************************)
(* Epoch based reclamation: LimboHandle, ThreadInfo and min_active_epoch   *)
(* of src/include/lf/limbo.hh and src/src/limbo.cc, one action per access  *)
(* to memory another thread can see, under sequentially consistent memory. *)
(*                                                                         *)
(* A handle is named by its my_epoch_, which the atomic add makes unique.  *)
(* The group chain of a thread is the sequence of what it records; module  *)
(* LimboGroup refines that sequence into the chain of LimboGroups.         *)
(***************************************************************************)
EXTENDS Integers, Sequences

CONSTANTS NThreads,    \* g_all_threads->size()
          Objects,     \* memory the threads unlink and deallocate
          Callbacks,   \* MrcuCallback objects
          MaxEpoch,    \* bound on global_epoch
          CacheSize,   \* LimboHandle::dealloc_cache_size
          Budget       \* elements one hard_free may free (1024 * 10)

Threads == 0 .. NThreads - 1
Handles == 1 .. MaxEpoch
NoEpoch == MaxEpoch + 1     \* min_active_epoch's 1UL << 63: above every epoch

ASSUME ConstantsOK == /\ NThreads \in Nat \ {0}
                      /\ MaxEpoch \in Nat \ {0}
                      /\ CacheSize \in Nat \ {0}
                      /\ Budget \in Nat \ {0}
                      /\ Objects \cap Callbacks = {}

VARIABLES globalEpoch,  \* global_epoch
          handles,      \* per thread: the handle list, oldest first
          minEpoch,     \* per thread: min_epoch_
          cache,        \* per handle: ptrbuf_
          limbo,        \* per thread: recorded elements not yet freed
          pc,           \* per thread: where in a call of limbo it is
          hdl,          \* per thread: the handle that call is about
          obj,          \* per thread: what the caller has just unlinked
          scanned,      \* per thread: threads read so far by min_active_epoch
          ae,           \* per thread: min_active_epoch's ae
          count,        \* per thread: what is left of hard_free's count
          deinit,       \* deinit_lf_library has begun
          spare,        \* callbacks not registered yet
          ran,          \* callbacks that ran at least once (count_ >= 1)
          linked,       \* objects reachable from the shared structures
          blockers,     \* per object: handles active when it was unlinked
          freed,        \* objects given back to the allocator
          recorded,     \* per thread: what it recorded in the hard_free it runs
          samePass      \* objects freed by the hard_free that recorded them

shared == <<globalEpoch, handles, minEpoch, cache, limbo>>
local  == <<pc, hdl, obj, scanned, ae, count>>
client == <<deinit, spare, ran, linked, blockers>>
ghost  == <<freed, recorded, samePass>>
vars   == <<shared, local, client, ghost>>

Element == [item : Objects \cup Callbacks, epoch : 0 .. MaxEpoch]
RangeOf(s) == {s[i] : i \in 1 .. Len(s)}
Active == UNION {RangeOf(handles[t]) : t \in Threads}

Goto(t, label) == pc' = [pc EXCEPT ![t] = label]

Init == /\ globalEpoch = 0
        /\ handles = [t \in Threads |-> <<>>]
        /\ minEpoch = [t \in Threads |-> 0]
        /\ cache = [h \in Handles |-> <<>>]
        /\ limbo = [t \in Threads |-> <<>>]
        /\ pc = [t \in Threads |-> "idle"]
        /\ hdl = [t \in Threads |-> 0]
        /\ obj = [t \in Threads |-> {}]
        /\ scanned = [t \in Threads |-> 0]
        /\ ae = [t \in Threads |-> NoEpoch]
        /\ count = [t \in Threads |-> 0]
        /\ deinit = FALSE
        /\ spare = Callbacks
        /\ ran = {}
        /\ linked = Objects
        /\ blockers = [o \in Objects |-> {}]
        /\ freed = {}
        /\ recorded = [t \in Threads |-> {}]
        /\ samePass = {}
-------------------------------------------------------------------------------
(* new_handle: the atomic add, then the thread-local link and the store.   *)

NewHandle(t) ==
    /\ pc[t] = "idle"
    /\ globalEpoch < MaxEpoch
    /\ globalEpoch' = globalEpoch + 1
    /\ hdl' = [hdl EXCEPT ![t] = globalEpoch + 1]
    /\ Goto(t, "publish")
    /\ UNCHANGED <<handles, minEpoch, cache, limbo, obj, scanned, ae, count, client, ghost>>

\* MUTANT: every handle publishes its epoch, the oldest or not.
PublishAlways(t) ==
    /\ pc[t] = "publish"
    /\ handles' = [handles EXCEPT ![t] = Append(@, hdl[t])]
    /\ minEpoch' = [minEpoch EXCEPT ![t] = hdl[t]]
    /\ hdl' = [hdl EXCEPT ![t] = 0]
    /\ Goto(t, "idle")
    /\ UNCHANGED <<globalEpoch, cache, limbo, obj, scanned, ae, count, client, ghost>>

Publish(t) ==
    /\ pc[t] = "publish"
    /\ handles' = [handles EXCEPT ![t] = Append(@, hdl[t])]
    /\ minEpoch' = [minEpoch EXCEPT ![t] = IF handles[t] = <<>> THEN hdl[t] ELSE @]
    /\ hdl' = [hdl EXCEPT ![t] = 0]
    /\ Goto(t, "idle")
    /\ UNCHANGED <<globalEpoch, cache, limbo, obj, scanned, ae, count, client, ghost>>
-------------------------------------------------------------------------------
(* The caller unlinks an object under a handle, then deallocates it: with  *)
(* LimboHandle::dealloc, which caches, or with ThreadInfo::dealloc.        *)

Elements(s) == [i \in 1 .. Len(s) |-> [item |-> s[i], epoch |-> globalEpoch]]

Record(t, s) == limbo' = [limbo EXCEPT ![t] = @ \o Elements(s)]

TakeOut(t, o) ==
    /\ linked' = linked \ {o}
    /\ blockers' = [blockers EXCEPT ![o] = Active]
    /\ obj' = [obj EXCEPT ![t] = {o}]

Unlink(t, h, o) ==
    /\ pc[t] = "idle"
    /\ h \in RangeOf(handles[t])
    /\ o \in linked
    /\ TakeOut(t, o)
    /\ hdl' = [hdl EXCEPT ![t] = h]
    /\ Goto(t, "dealloc")
    /\ UNCHANGED <<shared, scanned, ae, count, deinit, spare, ran, ghost>>

DeallocReturns(t) ==
    /\ obj' = [obj EXCEPT ![t] = {}]
    /\ hdl' = [hdl EXCEPT ![t] = 0]
    /\ Goto(t, "idle")

\* MUTANT: a full cache is recorded but not emptied.
HandleDeallocKeepsCache(t, o) ==
    /\ pc[t] = "dealloc"
    /\ o \in obj[t]
    /\ LET full == Append(cache[hdl[t]], o)
       IN  /\ cache' = [cache EXCEPT ![hdl[t]] = full]
           /\ IF Len(full) = CacheSize THEN Record(t, full) ELSE UNCHANGED limbo
    /\ DeallocReturns(t)
    /\ UNCHANGED <<globalEpoch, handles, minEpoch, scanned, ae, count, client, ghost>>

HandleDealloc(t, o) ==
    /\ pc[t] = "dealloc"
    /\ o \in obj[t]
    /\ LET full == Append(cache[hdl[t]], o)
       IN  IF Len(full) = CacheSize
           THEN /\ Record(t, full)
                /\ cache' = [cache EXCEPT ![hdl[t]] = <<>>]
           ELSE /\ cache' = [cache EXCEPT ![hdl[t]] = full]
                /\ UNCHANGED limbo
    /\ DeallocReturns(t)
    /\ UNCHANGED <<globalEpoch, handles, minEpoch, scanned, ae, count, client, ghost>>

ThreadDealloc(t, o) ==
    /\ pc[t] = "dealloc"
    /\ o \in obj[t]
    /\ Record(t, <<o>>)
    /\ DeallocReturns(t)
    /\ UNCHANGED <<globalEpoch, handles, minEpoch, cache, scanned, ae, count, client, ghost>>

\* A callback may register another one, as remove_leaf does for an empty layer.
RegisterRcu(t, c) ==
    /\ pc[t] \in {"idle", "callback"}
    /\ c \in spare
    /\ Record(t, <<c>>)
    /\ spare' = spare \ {c}
    /\ UNCHANGED <<globalEpoch, handles, minEpoch, cache, local, deinit, ran, linked, blockers, ghost>>
-------------------------------------------------------------------------------
(* delete_handle: the destructor flushes the cache under one sample of     *)
(* global_epoch; the handle leaves the list; if it was the oldest, the new *)
(* oldest epoch is stored and hard_free runs.                              *)

DeleteHandle(t, h) ==
    /\ pc[t] = "idle"
    /\ h \in RangeOf(handles[t])
    /\ Record(t, cache[h])
    /\ cache' = [cache EXCEPT ![h] = <<>>]
    /\ hdl' = [hdl EXCEPT ![t] = h]
    /\ Goto(t, "unlink")
    /\ UNCHANGED <<globalEpoch, handles, minEpoch, obj, scanned, ae, count, client, ghost>>

Position(s, h) == CHOOSE i \in 1 .. Len(s) : s[i] = h
Without(s, h) == [i \in 1 .. Len(s) - 1 |-> s[IF i < Position(s, h) THEN i ELSE i + 1]]
Oldest(s) == IF s = <<>> THEN 0 ELSE Head(s)

\* hard_free begins: its locals, and min_active_epoch's.
StartScan(t) ==
    /\ scanned' = [scanned EXCEPT ![t] = 0]
    /\ ae' = [ae EXCEPT ![t] = NoEpoch]
    /\ count' = [count EXCEPT ![t] = Budget]
    /\ Goto(t, "scan")

\* MUTANT: min_epoch_ is cleared although younger handles are left.
UnlinkHandleClears(t) ==
    /\ pc[t] = "unlink"
    /\ LET left == Without(handles[t], hdl[t])
       IN  /\ handles' = [handles EXCEPT ![t] = left]
           /\ IF Oldest(left) # Oldest(handles[t])
              THEN minEpoch' = [minEpoch EXCEPT ![t] = 0] /\ StartScan(t)
              ELSE Goto(t, "idle") /\ UNCHANGED <<minEpoch, scanned, ae, count>>
    /\ hdl' = [hdl EXCEPT ![t] = 0]
    /\ UNCHANGED <<globalEpoch, cache, limbo, obj, client, ghost>>

UnlinkHandle(t) ==
    /\ pc[t] = "unlink"
    /\ LET left == Without(handles[t], hdl[t])
       IN  /\ handles' = [handles EXCEPT ![t] = left]
           /\ IF Oldest(left) # Oldest(handles[t])
              THEN /\ minEpoch' = [minEpoch EXCEPT ![t] = Oldest(left)]
                   /\ StartScan(t)
              ELSE /\ Goto(t, "idle")
                   /\ UNCHANGED <<minEpoch, scanned, ae, count>>
    /\ hdl' = [hdl EXCEPT ![t] = 0]
    /\ UNCHANGED <<globalEpoch, cache, limbo, obj, client, ghost>>

\* hard_free is public: the masstree test calls it on its own.
HardFree(t) ==
    /\ pc[t] = "idle"
    /\ StartScan(t)
    /\ UNCHANGED <<shared, hdl, obj, client, ghost>>
-------------------------------------------------------------------------------
(* hard_free: min_active_epoch reads each min_epoch_ in turn; then the     *)
(* elements up to the bound are freed oldest first, callbacks are run.     *)

Scan(t) ==
    /\ pc[t] = "scan"
    /\ LET m == minEpoch[scanned[t]]
       IN  ae' = [ae EXCEPT ![t] = IF m # 0 /\ m < @ THEN m ELSE @]
    /\ scanned' = [scanned EXCEPT ![t] = @ + 1]
    /\ Goto(t, IF scanned[t] + 1 = NThreads THEN "free" ELSE "scan")
    /\ UNCHANGED <<shared, hdl, obj, count, client, ghost>>

\* MUTANT: the bound is min_active_epoch() itself, not one less.
MayFreeAtBound(t) == count[t] > 0 /\ limbo[t] # <<>> /\ Head(limbo[t]).epoch <= ae[t]

\* MUTANT: clean_until does not look at the markers.
MayFreeUnbounded(t) == count[t] > 0 /\ limbo[t] # <<>>

MayFree(t) == /\ count[t] > 0
              /\ limbo[t] # <<>>
              /\ Head(limbo[t]).epoch <= ae[t] - 1

PopElement(t) ==
    /\ pc[t] = "free"
    /\ MayFree(t)
    /\ limbo' = [limbo EXCEPT ![t] = Tail(@)]
    /\ count' = [count EXCEPT ![t] = @ - 1]

Free(t, o) ==
    /\ PopElement(t)
    /\ Head(limbo[t]).item = o
    /\ freed' = freed \cup {o}
    /\ samePass' = IF o \in recorded[t] \ freed THEN samePass \cup {o} ELSE samePass
    /\ UNCHANGED <<globalEpoch, handles, minEpoch, cache, pc, hdl, obj, scanned, ae,
                   client, recorded>>

\* MUTANT: the callback never counts its calls and always registers again.
FirstCallAgain(t, c) ==
    /\ pc[t] = "free"
    /\ MayFree(t)
    /\ Head(limbo[t]).item = c
    /\ count' = [count EXCEPT ![t] = @ - 1]
    /\ limbo' = [limbo EXCEPT ![t] = Tail(@) \o Elements(<<c>>)]
    /\ UNCHANGED <<globalEpoch, handles, minEpoch, cache, pc, hdl, obj, scanned, ae,
                   client, ghost>>

\* The first call of a callback that re-registers itself for a second grace
\* period, as DestroyRcuCallback does.
FirstCall(t, c) ==
    /\ pc[t] = "free"
    /\ MayFree(t)
    /\ Head(limbo[t]).item = c
    /\ c \notin ran
    /\ ran' = ran \cup {c}
    /\ count' = [count EXCEPT ![t] = @ - 1]
    /\ limbo' = [limbo EXCEPT ![t] = Tail(@) \o Elements(<<c>>)]
    /\ UNCHANGED <<globalEpoch, handles, minEpoch, cache, pc, hdl, obj, scanned, ae,
                   deinit, spare, linked, blockers, ghost>>

\* A call that works on the shared structures, with no handle open for it.
RunCallback(t, c) ==
    /\ PopElement(t)
    /\ Head(limbo[t]).item = c
    /\ Goto(t, "callback")
    /\ UNCHANGED <<globalEpoch, handles, minEpoch, cache, hdl, obj, scanned, ae,
                   client, ghost>>

CallbackUnlink(t, o) ==
    /\ pc[t] = "callback"
    /\ o \in linked
    /\ TakeOut(t, o)
    /\ Goto(t, "record")
    /\ UNCHANGED <<shared, hdl, scanned, ae, count, deinit, spare, ran, ghost>>

CallbackRecord(t, o) ==
    /\ pc[t] = "record"
    /\ o \in obj[t]
    /\ Record(t, <<o>>)
    /\ recorded' = [recorded EXCEPT ![t] = @ \cup {o}]
    /\ obj' = [obj EXCEPT ![t] = {}]
    /\ Goto(t, "callback")
    /\ UNCHANGED <<globalEpoch, handles, minEpoch, cache, hdl, scanned, ae, count, client,
                   freed, samePass>>

CallbackReturns(t) ==
    /\ pc[t] = "callback"
    /\ Goto(t, "free")
    /\ UNCHANGED <<shared, hdl, obj, scanned, ae, count, client, ghost>>

\* MUTANT: hard_free loops until the list is empty, as destroy does.
HardFreeDrains(t) ==
    /\ pc[t] = "free"
    /\ limbo[t] = <<>>
    /\ scanned' = [scanned EXCEPT ![t] = 0]
    /\ ae' = [ae EXCEPT ![t] = NoEpoch]
    /\ count' = [count EXCEPT ![t] = 0]
    /\ recorded' = [recorded EXCEPT ![t] = {}]
    /\ Goto(t, IF deinit THEN "destroy" ELSE "idle")
    /\ UNCHANGED <<shared, hdl, obj, client, freed, samePass>>

HardFreeReturns(t) ==
    /\ pc[t] = "free"
    /\ ~MayFree(t)
    /\ scanned' = [scanned EXCEPT ![t] = 0]
    /\ ae' = [ae EXCEPT ![t] = NoEpoch]
    /\ count' = [count EXCEPT ![t] = 0]
    /\ recorded' = [recorded EXCEPT ![t] = {}]
    /\ Goto(t, IF deinit THEN "destroy" ELSE "idle")
    /\ UNCHANGED <<shared, hdl, obj, client, freed, samePass>>
-------------------------------------------------------------------------------
(* deinit_lf_library: every worker has returned and holds no handle; the   *)
(* threads' garbage is drained one thread after the other.                 *)

Deinit ==
    /\ \A t \in Threads : pc[t] = "idle" /\ handles[t] = <<>>
    /\ ~deinit
    /\ deinit' = TRUE
    /\ pc' = [t \in Threads |-> IF t = 0 THEN "destroy" ELSE "joined"]
    /\ UNCHANGED <<shared, hdl, obj, scanned, ae, count, spare, ran, linked, blockers, ghost>>

DestroyLoop(t) ==
    /\ pc[t] = "destroy"
    /\ limbo[t] # <<>>
    /\ StartScan(t)
    /\ UNCHANGED <<shared, hdl, obj, client, ghost>>

DestroyReturns(t) ==
    /\ pc[t] = "destroy"
    /\ limbo[t] = <<>>
    /\ pc' = [u \in Threads |-> CASE u = t -> "destroyed"
                                  [] u = t + 1 -> "destroy"
                                  [] OTHER -> pc[u]]
    /\ UNCHANGED <<shared, hdl, obj, scanned, ae, count, client, ghost>>
-------------------------------------------------------------------------------
\* Steps the caller chooses, and steps a call in progress must take.
Call(t) ==
    \/ NewHandle(t) \/ HardFree(t)
    \/ \E h \in RangeOf(handles[t]) : DeleteHandle(t, h) \/ \E o \in Objects : Unlink(t, h, o)
    \/ \E c \in Callbacks : RegisterRcu(t, c)

Proceed(t) ==
    \/ Publish(t) \/ UnlinkHandle(t)
    \/ Scan(t) \/ HardFreeReturns(t) \/ CallbackReturns(t)
    \/ DestroyLoop(t) \/ DestroyReturns(t)
    \/ \E o \in Objects : \/ HandleDealloc(t, o) \/ ThreadDealloc(t, o) \/ Free(t, o)
                          \/ CallbackUnlink(t, o) \/ CallbackRecord(t, o)
    \/ \E c \in Callbacks : FirstCall(t, c) \/ RunCallback(t, c)

Next == Deinit \/ \E t \in Threads : Call(t) \/ Proceed(t)

Spec == Init /\ [][Next]_vars

\* A thread inside a call of limbo goes on running.
FairSpec == Spec /\ \A t \in Threads : WF_vars(Proceed(t))
-------------------------------------------------------------------------------
Labels == {"idle", "publish", "dealloc", "unlink", "scan", "free", "callback", "record",
           "joined", "destroy", "destroyed"}

TypeOK ==
    /\ globalEpoch \in 0 .. MaxEpoch
    /\ handles \in [Threads -> Seq(Handles)]
    /\ minEpoch \in [Threads -> 0 .. MaxEpoch]
    /\ cache \in [Handles -> Seq(Objects)]
    /\ limbo \in [Threads -> Seq(Element)]
    /\ pc \in [Threads -> Labels]
    /\ hdl \in [Threads -> 0 .. MaxEpoch]
    /\ obj \in [Threads -> SUBSET Objects]
    /\ scanned \in [Threads -> 0 .. NThreads]
    /\ ae \in [Threads -> 1 .. NoEpoch]
    /\ count \in [Threads -> 0 .. Budget]
    /\ spare \in SUBSET Callbacks
    /\ ran \in SUBSET Callbacks
    /\ linked \in SUBSET Objects
    /\ blockers \in [Objects -> SUBSET Handles]
    /\ freed \in SUBSET Objects
    /\ recorded \in [Threads -> SUBSET Objects]
    /\ samePass \in SUBSET Objects
    /\ deinit \in BOOLEAN
-------------------------------------------------------------------------------
InPass(t) == pc[t] \in {"scan", "free", "callback", "record"}

\* SAFETY (limbo.hh:13,137).  An object is freed only after every handle that
\* was active when it was unlinked is deleted - unless the hard_free that freed
\* it had also recorded it, through a callback it ran: there the bound was read
\* before the record.
SafeAcrossPasses == \A o \in freed \ samePass : blockers[o] \cap Active = {}

\* The claim of limbo.hh:13,137 without that exception.
NoUseAfterFree == \A o \in freed : blockers[o] \cap Active = {}

\* An unlinked object is in exactly one place: with the caller that unlinked it,
\* in one cache slot, in one limbo slot or freed.  A flush that leaves the cache
\* full frees it twice; a path that drops it leaks it.
Places(o) ==
    {<<"caller", t, 0>> : t \in {t \in Threads : o \in obj[t]}}
    \cup {<<"cache", p[1], p[2]>> : p \in {p \in Handles \X (1 .. CacheSize) :
                p[2] <= Len(cache[p[1]]) /\ cache[p[1]][p[2]] = o}}
    \cup (UNION {{<<"limbo", t, i>> : i \in {i \in 1 .. Len(limbo[t]) : limbo[t][i].item = o}}
                   : t \in Threads})
    \cup {<<"linked", 0, 0>> : x \in linked \cap {o}}
    \cup {<<"freed", 0, 0>> : x \in freed \cap {o}}
ExactlyOnePlace == \A o \in Objects : \E p \in Places(o) : Places(o) = {p}

\* The scan of min_active_epoch is sound: a thread already read either shows the
\* pass an epoch no later than its handles that may reach recorded objects, or
\* those handles started after the object was unlinked.
ScanIsSound ==
    \A t \in Threads : InPass(t) =>
        \A e \in RangeOf(limbo[t]) : e.item \in Objects \ recorded[t] =>
            \A u \in 0 .. scanned[t] - 1 :
                \A h \in blockers[e.item] \cap RangeOf(handles[u]) : ae[t] <= h

\* Every call of limbo returns, however long other threads keep their handles.
CallsReturn == \A t \in Threads : []<>(pc[t] = "idle" \/ deinit)

\* deinit_lf_library returns, though callbacks record and register themselves again
\* in its destroy loops, and has then freed all that was unlinked (limbo.cc:60-68).
DeinitReturns == deinit ~> ((\A t \in Threads : pc[t] = "destroyed") /\ linked \cup freed = Objects)

\* The code refines grace-period reclamation for every object not recorded by
\* the pass that frees it.
Issued == 1 .. globalEpoch
Unpublished == {hdl[t] : t \in {t \in Threads : pc[t] = "publish"}}

GP == INSTANCE GracePeriod WITH
        Sections <- Handles,
        entered  <- Issued \ Unpublished,
        active   <- Active,
        freed    <- freed \ samePass

ReclaimsByGracePeriod == GP!Spec
===============================================================================
