------------------------------- MODULE PinBox -------------------------------
(***************************************************************************)
(* PinBox and Allocator (src/include/lf/alloc_pin.hh, src/src/alloc_pin.cc)*)
(* one action per access to memory another thread can see: the versioned   *)
(* stack of unused Pins, pins and the scan that looks for them before it   *)
(* frees, and the stack of free objects, which is itself read under a pin. *)
(*                                                                         *)
(* The clients follow the protocol of the header comment: one pointer that *)
(* they share, read with pin 0, copied up to pin 1.                        *)
(***************************************************************************)
EXTENDS Naturals, Sequences, FiniteSets, SequencesExt

CONSTANTS Threads,
          Objects,        \* what malloc may return
          MaxPins,        \* PINBOX_MAX_PINS
          PinCount,       \* PINBOX_PINS
          PurgatorySize,  \* PURGATORY_SIZE
          Versions,       \* the versions of pinstack_top_ver_ (2^16)
          Budgets,        \* what the threads may do: per thread, counts of calls
          Null            \* nullptr

Indices == 1 .. MaxPins - 1
Slots == Indices \X (1 .. PinCount)
Pointers == Objects \cup {Null}
Top == [top : 0 .. MaxPins - 1, ver : 0 .. Versions - 1]

ASSUME PinBoxConstants ==
    /\ IsFiniteSet(Objects) /\ Null \notin Objects
    /\ {PurgatorySize, Versions} \subseteq Nat \ {0}
    /\ {MaxPins, PinCount} \subseteq Nat \ {0, 1}
    /\ \A b \in Budgets : b \in [Threads -> [{"get", "alloc", "protect", "copy", "unlink"} -> Nat]]

VARIABLES pinstack,   \* pinstack_top_ver_: index of the first unused Pins, and version
          allocated,  \* pins_in_array_
          link,       \* per Pins: link
          pin,        \* per Pins: pin[]
          purgatory,  \* per Pins: the purgatory, newest first (purgatory_count long)
          top,        \* Allocator::top_
          next,       \* per object: the word that links it (free_ptr_offset_)
          born,       \* the objects malloc has returned
          shared,     \* the pointer clients share
          th,         \* per thread: where it is, and its local variables
          own,        \* per thread: an object it has allocated and not yet shared
          held,       \* per thread and pin: the object it may use, or null
          budget

pinbox    == <<pinstack, allocated, link>>
allocator == <<top, next, born>>
client    == <<shared, own, held, budget>>
vars      == <<pinbox, allocator, client, pin, purgatory, th>>

Labels == {"out", "idle", "get", "pop", "init", "put", "link", "push", "read", "pin", "check",
           "malloc", "next", "take", "unpin", "free", "scan", "give", "chain", "swap",
           "load", "guard", "again"}
Locals == [at : Labels, pins : 0 .. MaxPins - 1, seen : Top, nextPins : 0 .. MaxPins - 1,
           node : Pointers, nextNode : Pointers, old : Seq(Objects), slot : Slots, then : {"idle", "put"}]
Outside == [at |-> "out", pins |-> 0, seen |-> [top |-> 0, ver |-> 0], nextPins |-> 0,
            node |-> Null, nextNode |-> Null, old |-> <<>>, slot |-> <<1, 1>>, then |-> "idle"]
NoPins == [i \in 1 .. PinCount |-> Null]

Init == /\ pinstack = [top |-> 0, ver |-> 0]
        /\ allocated = 0
        /\ link = [p \in Indices |-> 0]
        /\ pin = [p \in Indices |-> NoPins]
        /\ purgatory = [p \in Indices |-> <<>>]
        /\ top = Null
        /\ next = [o \in Objects |-> Null]
        /\ born = {}
        /\ shared = Null
        /\ th = [t \in Threads |-> Outside]
        /\ own = [t \in Threads |-> Null]
        /\ held = [t \in Threads |-> NoPins]
        /\ budget \in Budgets

At(t, label) == th[t].at = label
Mine(t) == th[t].pins
Local(t, l) == th' = [th EXCEPT ![t] = l]
Go(t, label) == Local(t, [th[t] EXCEPT !.at = label])
Fresh(p, label) == [Outside EXCEPT !.at = label, !.pins = p]
Idle(t) == Local(t, Fresh(Mine(t), "idle"))
Spend(t, what) == /\ budget[t][what] > 0
                  /\ budget' = [budget EXCEPT ![t][what] = @ - 1]
First(s) == IF s = <<>> THEN Null ELSE Head(s)
Position(s, x) == CHOOSE i \in DOMAIN s : s[i] = x
\* MUTANT: the version stays.
PushedSameVersion(s) == [top |-> s, ver |-> pinstack.ver]

Pushed(s) == [top |-> s, ver |-> (pinstack.ver + 1) % Versions]
-------------------------------------------------------------------------------
(* get_pins and put_pins: the versioned stack of unused Pins.               *)

GetPins(t) ==
    /\ At(t, "out")
    /\ Spend(t, "get")
    /\ Local(t, [th[t] EXCEPT !.at = "get", !.seen = pinstack])
    /\ UNCHANGED <<pinbox, allocator, shared, own, held, pin, purgatory>>

\* The stack was empty: a new Pins, if the array is not full.
NewPins(t) ==
    /\ At(t, "get")
    /\ th[t].seen.top = 0
    /\ allocated' = allocated + 1
    /\ Local(t, IF allocated + 1 < MaxPins THEN Fresh(allocated + 1, "init") ELSE Outside)
    /\ UNCHANGED <<pinstack, link, allocator, client, pin, purgatory>>

ReadLink(t) ==
    /\ At(t, "get")
    /\ th[t].seen.top # 0
    /\ Local(t, [th[t] EXCEPT !.at = "pop", !.nextPins = link[th[t].seen.top]])
    /\ UNCHANGED <<pinbox, allocator, client, pin, purgatory>>

PopPins(t) ==
    LET l == th[t]
    IN  /\ At(t, "pop")
        /\ IF pinstack = l.seen
           THEN /\ pinstack' = Pushed(l.nextPins)
                /\ Local(t, Fresh(l.seen.top, "init"))
           ELSE /\ Local(t, [l EXCEPT !.at = "get", !.seen = pinstack])
                /\ UNCHANGED pinstack
        /\ UNCHANGED <<allocated, link, allocator, client, pin, purgatory>>

InitPins(t) ==
    /\ At(t, "init")
    /\ link' = [link EXCEPT ![Mine(t)] = Mine(t)]
    /\ Idle(t)
    /\ UNCHANGED <<pinstack, allocated, allocator, client, pin, purgatory>>

\* The caller has removed its pins.  The purgatory is scanned until it is empty.
PutPins(t) ==
    /\ At(t, "idle")
    /\ held[t] = NoPins /\ pin[Mine(t)] = NoPins /\ own[t] = Null
    /\ Go(t, "put")
    /\ UNCHANGED <<pinbox, allocator, client, pin, purgatory>>

\* pinbox_real_free: the purgatory becomes the list to free.
StartScan(t, l) == /\ purgatory' = [purgatory EXCEPT ![Mine(t)] = <<>>]
                   /\ Local(t, [l EXCEPT !.at = "scan", !.slot = <<1, 1>>])

Drain(t) ==
    /\ At(t, "put")
    /\ IF purgatory[Mine(t)] # <<>>
       THEN StartScan(t, [th[t] EXCEPT !.then = "put", !.old = purgatory[Mine(t)]])
       ELSE Local(t, [th[t] EXCEPT !.at = "link", !.seen = pinstack]) /\ UNCHANGED purgatory
    /\ UNCHANGED <<pinbox, allocator, client, pin>>

LinkPins(t) ==
    /\ At(t, "link")
    /\ link' = [link EXCEPT ![Mine(t)] = th[t].seen.top]
    /\ Go(t, "push")
    /\ UNCHANGED <<pinstack, allocated, allocator, client, pin, purgatory>>

\* MUTANT: a lost race for the stack is retried with what was seen before.
PushPinsStale(t) ==
    /\ At(t, "push")
    /\ IF pinstack = th[t].seen
       THEN pinstack' = Pushed(Mine(t)) /\ Local(t, Outside)
       ELSE Go(t, "link") /\ UNCHANGED pinstack
    /\ UNCHANGED <<allocated, link, allocator, client, pin, purgatory>>

PushPins(t) ==
    /\ At(t, "push")
    /\ IF pinstack = th[t].seen
       THEN pinstack' = Pushed(Mine(t)) /\ Local(t, Outside)
       ELSE Local(t, [th[t] EXCEPT !.at = "link", !.seen = pinstack]) /\ UNCHANGED pinstack
    /\ UNCHANGED <<allocated, link, allocator, client, pin, purgatory>>
-------------------------------------------------------------------------------
(* Allocator::alloc: the stack of free objects, read under pin 0.           *)

\* The caller does not use pin 0.
Alloc(t) ==
    /\ At(t, "idle")
    /\ own[t] = Null /\ held[t][1] = Null
    /\ Spend(t, "alloc")
    /\ Go(t, "read")
    /\ UNCHANGED <<pinbox, allocator, shared, own, held, pin, purgatory>>

ReadTop(t) ==
    /\ At(t, "read")
    /\ Local(t, [th[t] EXCEPT !.at = "pin", !.node = top])
    /\ UNCHANGED <<pinbox, allocator, client, pin, purgatory>>

PinTop(t) ==
    /\ At(t, "pin")
    /\ pin' = [pin EXCEPT ![Mine(t)][1] = th[t].node]
    /\ Go(t, "check")
    /\ UNCHANGED <<pinbox, allocator, client, purgatory>>

\* MUTANT: the top is not read again after it is pinned.
CheckTopOnce(t) ==
    /\ At(t, "check")
    /\ Go(t, IF th[t].node = Null THEN "malloc" ELSE "next")
    /\ UNCHANGED <<pinbox, allocator, client, pin, purgatory>>

CheckTop(t) ==
    /\ At(t, "check")
    /\ IF th[t].node # top THEN Local(t, Fresh(Mine(t), "read"))
                           ELSE Go(t, IF top = Null THEN "malloc" ELSE "next")
    /\ UNCHANGED <<pinbox, allocator, client, pin, purgatory>>

Malloc(t) ==
    /\ At(t, "malloc")
    /\ \/ born = Objects /\ UNCHANGED <<born, own>>
       \/ \E o \in Objects \ born : /\ born' = born \cup {o}
                                    /\ own' = [own EXCEPT ![t] = o]
    /\ Go(t, "unpin")
    /\ UNCHANGED <<pinbox, top, next, shared, held, budget, pin, purgatory>>

ReadNext(t) ==
    /\ At(t, "next")
    /\ Local(t, [th[t] EXCEPT !.at = "take", !.nextNode = next[th[t].node]])
    /\ UNCHANGED <<pinbox, allocator, client, pin, purgatory>>

TakeTop(t) ==
    /\ At(t, "take")
    /\ IF top = th[t].node
       THEN /\ top' = th[t].nextNode
            /\ own' = [own EXCEPT ![t] = top]
            /\ Local(t, Fresh(Mine(t), "unpin"))
       ELSE Local(t, Fresh(Mine(t), "read")) /\ UNCHANGED <<top, own>>
    /\ UNCHANGED <<pinbox, next, born, shared, held, budget, pin, purgatory>>

AllocReturns(t) ==
    /\ At(t, "unpin")
    /\ pin' = [pin EXCEPT ![Mine(t)][1] = Null]
    /\ Idle(t)
    /\ UNCHANGED <<pinbox, allocator, client, purgatory>>
-------------------------------------------------------------------------------
(* pins_free, and pinbox_real_free with alloc_free as the free function.    *)

Free(t) ==
    LET p == Mine(t)
        new == <<th[t].node>> \o purgatory[p]
        l == [th[t] EXCEPT !.node = Null]
    IN  /\ At(t, "free")
        /\ next' = [next EXCEPT ![th[t].node] = First(purgatory[p])]
        /\ IF Len(new) % PurgatorySize = 0
           THEN StartScan(t, [l EXCEPT !.then = "idle", !.old = new])
           ELSE purgatory' = [purgatory EXCEPT ![p] = new] /\ Idle(t)
        /\ UNCHANGED <<pinbox, top, born, client, pin>>

\* match_and_save, one pin: an object it holds goes back to the purgatory.
NextSlot(s) == IF s[2] < PinCount THEN <<s[1], s[2] + 1>> ELSE <<s[1] + 1, 1>>
LastSlot == <<MaxPins - 1, PinCount>>

\* MUTANT: a pin is compared with the first object of the list only.
ScanPinFirstOnly(t) ==
    LET l == th[t]
        v == pin[l.slot[1]][l.slot[2]]
        old == IF v = First(l.old) THEN Tail(l.old) ELSE l.old
    IN  /\ At(t, "scan")
        /\ IF v = First(l.old)
           THEN /\ purgatory' = [purgatory EXCEPT ![Mine(t)] = <<v>> \o @]
                /\ next' = [next EXCEPT ![v] = First(purgatory[Mine(t)])]
           ELSE UNCHANGED <<purgatory, next>>
        /\ Local(t, IF old = <<>>          THEN [l EXCEPT !.at = l.then, !.old = old]
                    ELSE IF l.slot = LastSlot THEN [l EXCEPT !.at = "give", !.old = old]
                    ELSE [l EXCEPT !.slot = NextSlot(@), !.old = old])
        /\ UNCHANGED <<pinbox, top, born, client, pin>>

ScanPin(t) ==
    LET l == th[t]
        v == pin[l.slot[1]][l.slot[2]]
        old == IF v \in ToSet(l.old) THEN RemoveAt(l.old, Position(l.old, v)) ELSE l.old
    IN  /\ At(t, "scan")
        /\ IF v \in ToSet(l.old)
           THEN /\ purgatory' = [purgatory EXCEPT ![Mine(t)] = <<v>> \o @]
                /\ next' = [next EXCEPT ![v] = First(purgatory[Mine(t)])]
           ELSE UNCHANGED <<purgatory, next>>
        /\ Local(t, IF old = <<>>          THEN [l EXCEPT !.at = l.then, !.old = old]
                    ELSE IF l.slot = LastSlot THEN [l EXCEPT !.at = "give", !.old = old]
                    ELSE [l EXCEPT !.slot = NextSlot(@), !.old = old])
        /\ UNCHANGED <<pinbox, top, born, client, pin>>

\* alloc_free: the list that is left goes to the stack of free objects.
ReadTopToFree(t) ==
    /\ At(t, "give")
    /\ Local(t, [th[t] EXCEPT !.at = "chain", !.node = top])
    /\ UNCHANGED <<pinbox, allocator, client, pin, purgatory>>

Chain(t) ==
    LET old == th[t].old
    IN  /\ At(t, "chain")
        /\ next' = [o \in Objects |->
               IF o \notin ToSet(old) THEN next[o]
               ELSE LET i == Position(old, o)
                    IN  IF i = Len(old) THEN th[t].node ELSE old[i + 1]]
        /\ Go(t, "swap")
        /\ UNCHANGED <<pinbox, top, born, client, pin, purgatory>>

GiveBack(t) ==
    LET l == th[t]
    IN  /\ At(t, "swap")
        /\ IF top = l.node
           THEN /\ top' = Head(l.old)
                /\ Local(t, [l EXCEPT !.at = l.then, !.old = <<>>, !.node = Null])
           ELSE Local(t, [l EXCEPT !.at = "chain", !.node = top]) /\ UNCHANGED top
        /\ UNCHANGED <<pinbox, next, born, client, pin, purgatory>>
-------------------------------------------------------------------------------
(* The clients.                                                             *)

\* Share an object, or none, in place of the one shared so far, and free that.
Exchange(t) ==
    /\ At(t, "idle")
    /\ IF own[t] = Null THEN shared # Null /\ Spend(t, "unlink") ELSE UNCHANGED budget
    /\ shared' = own[t]
    /\ own' = [own EXCEPT ![t] = Null]
    /\ IF shared = Null THEN Idle(t) ELSE Local(t, [th[t] EXCEPT !.at = "free", !.node = shared])
    /\ UNCHANGED <<pinbox, allocator, held, pin, purgatory>>

\* The loop of the pinning protocol.
Protect(t) ==
    /\ At(t, "idle")
    /\ Spend(t, "protect")
    /\ Go(t, "load")
    /\ UNCHANGED <<pinbox, allocator, shared, own, held, pin, purgatory>>

LoadShared(t) ==
    /\ At(t, "load")
    /\ Local(t, [th[t] EXCEPT !.at = "guard", !.node = shared])
    /\ UNCHANGED <<pinbox, allocator, client, pin, purgatory>>

PinShared(t) ==
    /\ At(t, "guard")
    /\ pin' = [pin EXCEPT ![Mine(t)][1] = th[t].node]
    /\ held' = [held EXCEPT ![t][1] = Null]
    /\ Go(t, "again")
    /\ UNCHANGED <<pinbox, allocator, shared, own, budget, purgatory>>

CheckShared(t) ==
    /\ At(t, "again")
    /\ IF th[t].node = shared
       THEN held' = [held EXCEPT ![t][1] = shared] /\ Idle(t)
       ELSE Local(t, Fresh(Mine(t), "load")) /\ UNCHANGED held
    /\ UNCHANGED <<pinbox, allocator, shared, own, budget, pin, purgatory>>

CopyUp(t) ==
    /\ At(t, "idle")
    /\ held[t][1] # Null
    /\ Spend(t, "copy")
    /\ pin' = [pin EXCEPT ![Mine(t)][2] = held[t][1]]
    /\ held' = [held EXCEPT ![t][2] = held[t][1]]
    /\ UNCHANGED <<pinbox, allocator, shared, own, purgatory, th>>

Unpin(t) ==
    \E i \in 1 .. PinCount :
        /\ At(t, "idle")
        /\ pin[Mine(t)][i] # Null
        /\ pin' = [pin EXCEPT ![Mine(t)][i] = Null]
        /\ held' = [held EXCEPT ![t][i] = Null]
        /\ UNCHANGED <<pinbox, allocator, shared, own, budget, purgatory, th>>
-------------------------------------------------------------------------------
Inside(t) ==
    \/ NewPins(t) \/ ReadLink(t) \/ PopPins(t) \/ InitPins(t)
    \/ Drain(t) \/ LinkPins(t) \/ PushPins(t)
    \/ ReadTop(t) \/ PinTop(t) \/ CheckTop(t) \/ Malloc(t) \/ ReadNext(t) \/ TakeTop(t)
    \/ AllocReturns(t) \/ Free(t) \/ ScanPin(t) \/ ReadTopToFree(t) \/ Chain(t) \/ GiveBack(t)
    \/ LoadShared(t) \/ PinShared(t) \/ CheckShared(t)

Calls(t) == \/ GetPins(t) \/ PutPins(t) \/ Alloc(t) \/ Exchange(t) \/ Protect(t)
            \/ CopyUp(t) \/ Unpin(t)

Next == \E t \in Threads : Inside(t) \/ Calls(t)

Spec == Init /\ [][Next]_vars

\* A call goes on, and a client does not keep its pins for ever (alloc_pin.cc:47).
FairSpec == Spec /\ \A t \in Threads : WF_vars(Inside(t) \/ Unpin(t))
-------------------------------------------------------------------------------
TypeOK ==
    /\ pinstack \in Top
    /\ allocated \in Nat
    /\ link \in [Indices -> 0 .. MaxPins - 1]
    /\ pin \in [Indices -> [1 .. PinCount -> Pointers]]
    /\ purgatory \in [Indices -> Seq(Objects)]
    /\ top \in Pointers
    /\ next \in [Objects -> Pointers]
    /\ born \subseteq Objects
    /\ shared \in Pointers
    /\ th \in [Threads -> Locals]
    /\ own \in [Threads -> Pointers]
    /\ held \in [Threads -> [1 .. PinCount -> Pointers]]

\* What is on the stack of free objects, and on the stack of unused Pins: the
\* n-th element, or null behind the last one.
FreeAt[n \in 0 .. Cardinality(Objects)] ==
    IF n = 0 THEN top ELSE IF FreeAt[n - 1] = Null THEN Null ELSE next[FreeAt[n - 1]]
UnusedAt[n \in 0 .. MaxPins] ==
    IF n = 0 THEN pinstack.top ELSE IF UnusedAt[n - 1] = 0 THEN 0 ELSE link[UnusedAt[n - 1]]

\* An object a thread has pinned and seen again is not freed: it is shared, on its
\* way to a purgatory, in one, or in a list the scan has not gone through
\* (alloc_pin.cc:31-32, 46).
HeldIsSafe ==
    \A t \in Threads : \A i \in 1 .. PinCount : held[t][i] # Null =>
        \/ held[t][i] = shared
        \/ \E p \in Indices : held[t][i] \in ToSet(purgatory[p])
        \/ \E u \in Threads : \/ At(u, "free") /\ th[u].node = held[t][i]
                              \/ At(u, "scan") /\ held[t][i] \in ToSet(th[u].old)

\* Every object is in one place: owned by the thread that allocated it, shared, on
\* its way to a purgatory, in one, in the list of a scan, or once on the free stack.
\* None is handed out twice and none is lost, though pops race with pushes.
Places(o) ==
    {<<"own", t>> : t \in {t \in Threads : own[t] = o}}
    \cup {<<"shared", n>> : n \in IF shared = o THEN {0} ELSE {}}
    \cup {<<"freed", t>> : t \in {t \in Threads : At(t, "free") /\ th[t].node = o}}
    \cup {<<"purgatory", p>> : p \in {p \in Indices : o \in ToSet(purgatory[p])}}
    \cup {<<"old", t>> : t \in {t \in Threads : o \in ToSet(th[t].old)}}
    \cup {<<"stack", n>> : n \in {n \in 0 .. Cardinality(Objects) : FreeAt[n] = o}}
ObjectsInOnePlace == \A o \in born : Cardinality(Places(o)) = 1

\* The same of Pins: in use by one thread, or once on the stack of unused ones.
Users(p) == {<<"thread", t>> : t \in {t \in Threads : Mine(t) = p}}
            \cup {<<"stack", n>> : n \in {n \in 0 .. MaxPins : UnusedAt[n] = p}}
PinsInOnePlace == \A p \in Indices : p <= allocated => Cardinality(Users(p)) = 1

\* No thread sleeps between its read of the stack and its compare and swap while the
\* stack changes so often that the version comes round (alloc_pin.cc:58-59, 106-108).
NoWrap == \A t \in Threads :
    At(t, "get") \/ At(t, "pop") =>
        (th'[t] = th[t] /\ pinstack' # pinstack => pinstack'.ver # th[t].seen.ver)

\* Every call returns, put_pins too: the others do not keep their pins for ever.
CallsReturn == <>[](\A t \in Threads : th[t].at \in {"out", "idle"})
===============================================================================
