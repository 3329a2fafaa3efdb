---------------------------- MODULE PinBoxProofs ----------------------------
(***************************************************************************)
(* Theorems about PinBox for any number of threads, objects, Pins and pins *)
(* of a thread.                                                            *)
(*                                                                         *)
(* TypeInv says what a thread's label says of its local variables.         *)
(* PinsInv follows the chain of unused Pins through the links, and tells   *)
(* what the Pins a thread has read are as long as the version stays.       *)
(* ObjectsInv does the same for the free objects, whose stack has no       *)
(* version: there a thread's pin keeps the object it has read from coming  *)
(* back to the stack.  The claims about Pins and objects suppose NoWrap:   *)
(* versions are numbers modulo Versions, and a compare and swap whose      *)
(* version has come round cannot see it.                                   *)
(***************************************************************************)
EXTENDS PinBox, DataLemmas

-------------------------------------------------------------------------------
(* Types, and what a thread's label says of its local variables.            *)

InAlloc == {"read", "pin", "check", "malloc", "next", "take"}
Giving == {"scan", "give", "chain", "swap"}
NoPinsYet == {"out", "get", "pop"}

\* A thread with local variables l, that owns o and may use h.
LocalOK(l, o, h) ==
    /\ l.at \in NoPinsYet <=> l.pins = 0
    /\ l.at = "pop" => l.seen.top # 0
    /\ o # Null => l.at \in {"idle", "unpin", "load", "guard", "again"}
    /\ h # NoPins => \/ l.at \notin NoPinsYet \cup Giving \cup {"init", "put", "link", "push"}
                     \/ l.at \in Giving /\ l.then = "idle"
    /\ h[1] # Null => l.at \notin InAlloc \cup {"unpin", "again"}
    /\ l.old # <<>> <=> l.at \in Giving
    /\ l.at \in {"free", "next", "take"} => l.node # Null

LocalsOK == \A t \in Threads : LocalOK(th[t], own[t], held[t])
TypeInv == TypeOK /\ LocalsOK

MemoryOK ==
    /\ pinstack \in Top
    /\ allocated \in Nat
    /\ link \in [Indices -> 0 .. MaxPins - 1]
    /\ pin \in [Indices -> [1 .. PinCount -> Pointers]]
    /\ purgatory \in [Indices -> Seq(Objects)]
    /\ top \in Pointers
    /\ next \in [Objects -> Pointers]
    /\ born \subseteq Objects
    /\ shared \in Pointers
    /\ own \in [Threads -> Pointers]
    /\ held \in [Threads -> [1 .. PinCount -> Pointers]]

\* A step of t that leaves its local variables at l.
LEMMA StepTyped ==
  ASSUME TypeInv, NEW t \in Threads, NEW l, Local(t, l), l \in Locals, MemoryOK',
         \A u \in Threads : u # t => own'[u] = own[u] /\ held'[u] = held[u],
         LocalOK(l, own'[t], held'[t])
  PROVE  TypeInv'
<1>1. th' \in [Threads -> Locals] /\ th'[t] = l /\ \A u \in Threads : u # t => th'[u] = th[u]
  BY DEF TypeInv, TypeOK, Local
<1>2. TypeOK'
  BY <1>1 DEF TypeInv, TypeOK, MemoryOK
<1>3. ASSUME NEW u \in Threads PROVE LocalOK(th'[u], own'[u], held'[u])
  <2>1. CASE u = t
    BY <1>1, <2>1
  <2>2. CASE u # t
    BY <1>1, <2>2 DEF TypeInv, LocalsOK
  <2>. QED BY <2>1, <2>2
<1>. QED BY <1>2, <1>3 DEF TypeInv, LocalsOK

\* The local variables of a thread outside, and of one that starts something.
LEMMA OutsideTyped ==
  /\ Outside \in Locals
  /\ Outside.at = "out" /\ Outside.pins = 0 /\ Outside.old = <<>> /\ Outside.node = Null
<1>1. [top |-> 0, ver |-> 0] \in Top
  BY PinBoxConstants DEF Top
<1>2. <<1, 1>> \in Slots
  BY PinBoxConstants DEF Slots, Indices
<1>3. 0 \in 0 .. MaxPins - 1 /\ Null \in Pointers /\ <<>> \in Seq(Objects)
  BY PinBoxConstants DEF Pointers
<1>. QED BY <1>1, <1>2, <1>3 DEF Outside, Locals, Labels

LEMMA FreshTyped ==
  ASSUME NEW p \in 0 .. MaxPins - 1, NEW x \in Labels
  PROVE  /\ Fresh(p, x) \in Locals
         /\ Fresh(p, x).at = x /\ Fresh(p, x).pins = p /\ Fresh(p, x).old = <<>>
         /\ Fresh(p, x).node = Null
<1>1. PICK g, f : g = Outside /\ f = Fresh(p, x)
  OBVIOUS
<1>2. g \in Locals /\ g.old = <<>> /\ g.node = Null
  BY <1>1, OutsideTyped
<1>3. f = [g EXCEPT !.pins = p, !.at = x]
  BY <1>1 DEF Fresh
<1>4. f \in Locals /\ f.at = x /\ f.pins = p /\ f.old = <<>> /\ f.node = Null
  BY <1>2, <1>3 DEF Locals
<1>. QED BY <1>1, <1>4

LEMMA FirstSlot == <<1, 1>> \in Slots
BY PinBoxConstants DEF Slots, Indices

LEMMA NextSlotTyped ==
  ASSUME NEW s \in Slots, s # LastSlot
  PROVE  NextSlot(s) \in Slots
BY PinBoxConstants DEF Slots, Indices, LastSlot, NextSlot

LEMMA PositionIs ==
  ASSUME NEW s \in Seq(Objects), NEW x \in ToSet(s)
  PROVE  Position(s, x) \in 1 .. Len(s) /\ s[Position(s, x)] = x
BY LenProperties DEF Position, ToSet

LEMMA Fields ==
  ASSUME NEW l \in Locals
  PROVE  /\ l.at \in Labels /\ l.pins \in 0 .. MaxPins - 1 /\ l.seen \in Top
         /\ l.nextPins \in 0 .. MaxPins - 1 /\ l.node \in Pointers /\ l.nextNode \in Pointers
         /\ l.old \in Seq(Objects) /\ l.slot \in Slots /\ l.then \in {"idle", "put"}
BY DEF Locals

LEMMA TypeStep ==
  ASSUME TypeInv, [Next]_vars
  PROVE  TypeInv'
<1>0. MemoryOK /\ th \in [Threads -> Locals] /\ \A t \in Threads : LocalOK(th[t], own[t], held[t])
  BY DEF TypeInv, TypeOK, LocalsOK, MemoryOK
<1>1. ASSUME NEW t \in Threads, GetPins(t) PROVE TypeInv'
  <2>. DEFINE l == [th[t] EXCEPT !.at = "get", !.seen = pinstack]
  <2>1. Local(t, l) /\ th[t].at = "out"
    BY <1>1 DEF GetPins, Go, At
  <2>2. l \in Locals
    <3>1. th[t] \in Locals /\ pinstack \in Top
      BY <1>0 DEF MemoryOK
    <3>. QED BY <3>1 DEF Locals, Labels
  <2>3. MemoryOK'
    BY <1>0, <1>1, Fields DEF GetPins, MemoryOK, pinbox, allocator, client, Mine
  <2>4. own' = own /\ held' = held
    BY <1>1 DEF GetPins, client
  <2>5. LocalOK(l, own[t], held[t])
    <3>1. th[t] \in Locals /\ LocalOK(th[t], own[t], held[t])
      BY <1>0
    <3>2. /\ l.at = "get" /\ l.pins = th[t].pins /\ l.old = th[t].old /\ l.then = th[t].then
          /\ l.node = th[t].node
      BY <3>1 DEF Locals
    <3>. QED BY <1>1, <2>1, <3>1, <3>2 DEF GetPins, LocalOK, NoPinsYet, Giving, InAlloc
  <2>. QED BY <2>1, <2>2, <2>3, <2>4, <2>5, StepTyped
<1>2. ASSUME NEW t \in Threads, ReadLink(t) PROVE TypeInv'
  <2>. DEFINE l == [th[t] EXCEPT !.at = "pop", !.nextPins = link[th[t].seen.top]]
  <2>1. Local(t, l) /\ th[t].at = "get"
    BY <1>2 DEF ReadLink, Go, At
  <2>2. l \in Locals
    <3>1. th[t] \in Locals /\ th[t].seen.top \in Indices
      BY <1>0, <1>2, Fields DEF ReadLink, Top, Indices
    <3>2. link[th[t].seen.top] \in 0 .. MaxPins - 1
      BY <1>0, <3>1 DEF MemoryOK
    <3>. QED BY <3>1, <3>2 DEF Locals, Labels
  <2>3. MemoryOK'
    BY <1>0, <1>2, Fields DEF ReadLink, MemoryOK, pinbox, allocator, client, Mine
  <2>4. own' = own /\ held' = held
    BY <1>2 DEF ReadLink, client
  <2>5. LocalOK(l, own[t], held[t])
    <3>1. th[t] \in Locals /\ LocalOK(th[t], own[t], held[t])
      BY <1>0
    <3>2. /\ l.at = "pop" /\ l.pins = th[t].pins /\ l.old = th[t].old /\ l.then = th[t].then
          /\ l.node = th[t].node
      BY <3>1 DEF Locals
    <3>. QED BY <1>2, <2>1, <3>1, <3>2 DEF ReadLink, LocalOK, NoPinsYet, Giving, InAlloc
  <2>. QED BY <2>1, <2>2, <2>3, <2>4, <2>5, StepTyped
<1>3. ASSUME NEW t \in Threads, PutPins(t) PROVE TypeInv'
  <2>. DEFINE l == [th[t] EXCEPT !.at = "put"]
  <2>1. Local(t, l) /\ th[t].at = "idle"
    BY <1>3 DEF PutPins, Go, At
  <2>2. l \in Locals
    <3>1. th[t] \in Locals
      BY <1>0 DEF MemoryOK
    <3>. QED BY <3>1 DEF Locals, Labels
  <2>3. MemoryOK'
    BY <1>0, <1>3, Fields DEF PutPins, MemoryOK, pinbox, allocator, client, Mine
  <2>4. own' = own /\ held' = held
    BY <1>3 DEF PutPins, client
  <2>5. LocalOK(l, own[t], held[t])
    <3>1. th[t] \in Locals /\ LocalOK(th[t], own[t], held[t])
      BY <1>0
    <3>2. /\ l.at = "put" /\ l.pins = th[t].pins /\ l.old = th[t].old /\ l.then = th[t].then
          /\ l.node = th[t].node
      BY <3>1 DEF Locals
    <3>. QED BY <1>3, <2>1, <3>1, <3>2 DEF PutPins, LocalOK, NoPinsYet, Giving, InAlloc
  <2>. QED BY <2>1, <2>2, <2>3, <2>4, <2>5, StepTyped
<1>4. ASSUME NEW t \in Threads, LinkPins(t) PROVE TypeInv'
  <2>. DEFINE l == [th[t] EXCEPT !.at = "push"]
  <2>1. Local(t, l) /\ th[t].at = "link"
    BY <1>4 DEF LinkPins, Go, At
  <2>2. l \in Locals
    <3>1. th[t] \in Locals
      BY <1>0 DEF MemoryOK
    <3>. QED BY <3>1 DEF Locals, Labels
  <2>3. MemoryOK'
    <3>1. th[t].seen.top \in 0 .. MaxPins - 1
      BY <1>0, Fields DEF Top
    <3>2. link' \in [Indices -> 0 .. MaxPins - 1]
      BY <1>0, <1>4, <3>1 DEF LinkPins, MemoryOK
    <3>. QED BY <1>0, <1>4, <3>2 DEF LinkPins, MemoryOK, allocator, client
  <2>4. own' = own /\ held' = held
    BY <1>4 DEF LinkPins, client
  <2>5. LocalOK(l, own[t], held[t])
    <3>1. th[t] \in Locals /\ LocalOK(th[t], own[t], held[t])
      BY <1>0
    <3>2. /\ l.at = "push" /\ l.pins = th[t].pins /\ l.old = th[t].old /\ l.then = th[t].then
          /\ l.node = th[t].node
      BY <3>1 DEF Locals
    <3>. QED BY <1>4, <2>1, <3>1, <3>2 DEF LinkPins, LocalOK, NoPinsYet, Giving, InAlloc
  <2>. QED BY <2>1, <2>2, <2>3, <2>4, <2>5, StepTyped
<1>5. ASSUME NEW t \in Threads, Alloc(t) PROVE TypeInv'
  <2>. DEFINE l == [th[t] EXCEPT !.at = "read"]
  <2>1. Local(t, l) /\ th[t].at = "idle"
    BY <1>5 DEF Alloc, Go, At
  <2>2. l \in Locals
    <3>1. th[t] \in Locals
      BY <1>0 DEF MemoryOK
    <3>. QED BY <3>1 DEF Locals, Labels
  <2>3. MemoryOK'
    BY <1>0, <1>5, Fields DEF Alloc, MemoryOK, pinbox, allocator, client, Mine
  <2>4. own' = own /\ held' = held
    BY <1>5 DEF Alloc, client
  <2>5. LocalOK(l, own[t], held[t])
    <3>1. th[t] \in Locals /\ LocalOK(th[t], own[t], held[t])
      BY <1>0
    <3>2. /\ l.at = "read" /\ l.pins = th[t].pins /\ l.old = th[t].old /\ l.then = th[t].then
          /\ l.node = th[t].node
      BY <3>1 DEF Locals
    <3>. QED BY <1>5, <2>1, <3>1, <3>2 DEF Alloc, LocalOK, NoPinsYet, Giving, InAlloc
  <2>. QED BY <2>1, <2>2, <2>3, <2>4, <2>5, StepTyped
<1>6. ASSUME NEW t \in Threads, ReadTop(t) PROVE TypeInv'
  <2>. DEFINE l == [th[t] EXCEPT !.at = "pin", !.node = top]
  <2>1. Local(t, l) /\ th[t].at = "read"
    BY <1>6 DEF ReadTop, Go, At
  <2>2. l \in Locals
    <3>1. th[t] \in Locals /\ top \in Pointers
      BY <1>0 DEF MemoryOK
    <3>. QED BY <3>1 DEF Locals, Labels
  <2>3. MemoryOK'
    BY <1>0, <1>6, Fields DEF ReadTop, MemoryOK, pinbox, allocator, client, Mine
  <2>4. own' = own /\ held' = held
    BY <1>6 DEF ReadTop, client
  <2>5. LocalOK(l, own[t], held[t])
    <3>1. th[t] \in Locals /\ LocalOK(th[t], own[t], held[t])
      BY <1>0
    <3>2. /\ l.at = "pin" /\ l.pins = th[t].pins /\ l.old = th[t].old /\ l.then = th[t].then
          /\ TRUE
      BY <3>1 DEF Locals
    <3>. QED BY <1>6, <2>1, <3>1, <3>2 DEF ReadTop, LocalOK, NoPinsYet, Giving, InAlloc
  <2>. QED BY <2>1, <2>2, <2>3, <2>4, <2>5, StepTyped
<1>7. ASSUME NEW t \in Threads, PinTop(t) PROVE TypeInv'
  <2>. DEFINE l == [th[t] EXCEPT !.at = "check"]
  <2>1. Local(t, l) /\ th[t].at = "pin"
    BY <1>7 DEF PinTop, Go, At
  <2>2. l \in Locals
    <3>1. th[t] \in Locals
      BY <1>0 DEF MemoryOK
    <3>. QED BY <3>1 DEF Locals, Labels
  <2>3. MemoryOK'
    BY <1>0, <1>7, Fields DEF PinTop, MemoryOK, pinbox, allocator, client, Mine
  <2>4. own' = own /\ held' = held
    BY <1>7 DEF PinTop, client
  <2>5. LocalOK(l, own[t], held[t])
    <3>1. th[t] \in Locals /\ LocalOK(th[t], own[t], held[t])
      BY <1>0
    <3>2. /\ l.at = "check" /\ l.pins = th[t].pins /\ l.old = th[t].old /\ l.then = th[t].then
          /\ l.node = th[t].node
      BY <3>1 DEF Locals
    <3>. QED BY <1>7, <2>1, <3>1, <3>2 DEF PinTop, LocalOK, NoPinsYet, Giving, InAlloc
  <2>. QED BY <2>1, <2>2, <2>3, <2>4, <2>5, StepTyped
<1>8. ASSUME NEW t \in Threads, ReadNext(t) PROVE TypeInv'
  <2>. DEFINE l == [th[t] EXCEPT !.at = "take", !.nextNode = next[th[t].node]]
  <2>1. Local(t, l) /\ th[t].at = "next"
    BY <1>8 DEF ReadNext, Go, At
  <2>2. l \in Locals
    <3>1. th[t] \in Locals /\ th[t].node \in Objects
      BY <1>0, <2>1, Fields DEF LocalOK, Pointers
    <3>2. next[th[t].node] \in Pointers
      BY <1>0, <3>1 DEF MemoryOK
    <3>. QED BY <3>1, <3>2 DEF Locals, Labels
  <2>3. MemoryOK'
    BY <1>0, <1>8, Fields DEF ReadNext, MemoryOK, pinbox, allocator, client, Mine
  <2>4. own' = own /\ held' = held
    BY <1>8 DEF ReadNext, client
  <2>5. LocalOK(l, own[t], held[t])
    <3>1. th[t] \in Locals /\ LocalOK(th[t], own[t], held[t])
      BY <1>0
    <3>2. /\ l.at = "take" /\ l.pins = th[t].pins /\ l.old = th[t].old /\ l.then = th[t].then
          /\ l.node = th[t].node
      BY <3>1 DEF Locals
    <3>. QED BY <1>8, <2>1, <3>1, <3>2 DEF ReadNext, LocalOK, NoPinsYet, Giving, InAlloc
  <2>. QED BY <2>1, <2>2, <2>3, <2>4, <2>5, StepTyped
<1>9. ASSUME NEW t \in Threads, ReadTopToFree(t) PROVE TypeInv'
  <2>. DEFINE l == [th[t] EXCEPT !.at = "chain", !.node = top]
  <2>1. Local(t, l) /\ th[t].at = "give"
    BY <1>9 DEF ReadTopToFree, Go, At
  <2>2. l \in Locals
    <3>1. th[t] \in Locals /\ top \in Pointers
      BY <1>0 DEF MemoryOK
    <3>. QED BY <3>1 DEF Locals, Labels
  <2>3. MemoryOK'
    BY <1>0, <1>9, Fields DEF ReadTopToFree, MemoryOK, pinbox, allocator, client, Mine
  <2>4. own' = own /\ held' = held
    BY <1>9 DEF ReadTopToFree, client
  <2>5. LocalOK(l, own[t], held[t])
    <3>1. th[t] \in Locals /\ LocalOK(th[t], own[t], held[t])
      BY <1>0
    <3>2. /\ l.at = "chain" /\ l.pins = th[t].pins /\ l.old = th[t].old /\ l.then = th[t].then
          /\ TRUE
      BY <3>1 DEF Locals
    <3>. QED BY <1>9, <2>1, <3>1, <3>2 DEF ReadTopToFree, LocalOK, NoPinsYet, Giving, InAlloc
  <2>. QED BY <2>1, <2>2, <2>3, <2>4, <2>5, StepTyped
<1>10. ASSUME NEW t \in Threads, Chain(t) PROVE TypeInv'
  <2>. DEFINE l == [th[t] EXCEPT !.at = "swap"]
  <2>1. Local(t, l) /\ th[t].at = "chain"
    BY <1>10 DEF Chain, Go, At
  <2>2. l \in Locals
    <3>1. th[t] \in Locals
      BY <1>0 DEF MemoryOK
    <3>. QED BY <3>1 DEF Locals, Labels
  <2>3. MemoryOK'
    <3>1. ASSUME NEW o \in Objects PROVE next'[o] \in Pointers
      <4>1. th[t].old \in Seq(Objects) /\ th[t].node \in Pointers
        BY <1>0, Fields
      <4>2. CASE o \notin ToSet(th[t].old)
        BY <1>0, <1>10, <4>2 DEF Chain, MemoryOK
      <4>3. CASE o \in ToSet(th[t].old)
        <5>. DEFINE i == Position(th[t].old, o)
        <5>1. i \in 1 .. Len(th[t].old)
          BY <4>1, <4>3, LenProperties DEF Position, ToSet
        <5>2. next'[o] = IF i = Len(th[t].old) THEN th[t].node ELSE th[t].old[i + 1]
          BY <1>10, <4>3 DEF Chain
        <5>3. i # Len(th[t].old) => th[t].old[i + 1] \in Objects
          BY <4>1, <5>1, LenProperties
        <5>. QED BY <4>1, <5>2, <5>3 DEF Pointers
      <4>. QED BY <4>2, <4>3
    <3>2. next' \in [Objects -> Pointers]
      BY <1>10, <3>1 DEF Chain
    <3>. QED BY <1>0, <1>10, <3>2 DEF Chain, MemoryOK, pinbox, client
  <2>4. own' = own /\ held' = held
    BY <1>10 DEF Chain, client
  <2>5. LocalOK(l, own[t], held[t])
    <3>1. th[t] \in Locals /\ LocalOK(th[t], own[t], held[t])
      BY <1>0
    <3>2. /\ l.at = "swap" /\ l.pins = th[t].pins /\ l.old = th[t].old /\ l.then = th[t].then
          /\ l.node = th[t].node
      BY <3>1 DEF Locals
    <3>. QED BY <1>10, <2>1, <3>1, <3>2 DEF Chain, LocalOK, NoPinsYet, Giving, InAlloc
  <2>. QED BY <2>1, <2>2, <2>3, <2>4, <2>5, StepTyped
<1>11. ASSUME NEW t \in Threads, Protect(t) PROVE TypeInv'
  <2>. DEFINE l == [th[t] EXCEPT !.at = "load"]
  <2>1. Local(t, l) /\ th[t].at = "idle"
    BY <1>11 DEF Protect, Go, At
  <2>2. l \in Locals
    <3>1. th[t] \in Locals
      BY <1>0 DEF MemoryOK
    <3>. QED BY <3>1 DEF Locals, Labels
  <2>3. MemoryOK'
    BY <1>0, <1>11, Fields DEF Protect, MemoryOK, pinbox, allocator, client, Mine
  <2>4. own' = own /\ held' = held
    BY <1>11 DEF Protect, client
  <2>5. LocalOK(l, own[t], held[t])
    <3>1. th[t] \in Locals /\ LocalOK(th[t], own[t], held[t])
      BY <1>0
    <3>2. /\ l.at = "load" /\ l.pins = th[t].pins /\ l.old = th[t].old /\ l.then = th[t].then
          /\ l.node = th[t].node
      BY <3>1 DEF Locals
    <3>. QED BY <1>11, <2>1, <3>1, <3>2 DEF Protect, LocalOK, NoPinsYet, Giving, InAlloc
  <2>. QED BY <2>1, <2>2, <2>3, <2>4, <2>5, StepTyped
<1>12. ASSUME NEW t \in Threads, LoadShared(t) PROVE TypeInv'
  <2>. DEFINE l == [th[t] EXCEPT !.at = "guard", !.node = shared]
  <2>1. Local(t, l) /\ th[t].at = "load"
    BY <1>12 DEF LoadShared, Go, At
  <2>2. l \in Locals
    <3>1. th[t] \in Locals /\ shared \in Pointers
      BY <1>0 DEF MemoryOK
    <3>. QED BY <3>1 DEF Locals, Labels
  <2>3. MemoryOK'
    BY <1>0, <1>12, Fields DEF LoadShared, MemoryOK, pinbox, allocator, client, Mine
  <2>4. own' = own /\ held' = held
    BY <1>12 DEF LoadShared, client
  <2>5. LocalOK(l, own[t], held[t])
    <3>1. th[t] \in Locals /\ LocalOK(th[t], own[t], held[t])
      BY <1>0
    <3>2. /\ l.at = "guard" /\ l.pins = th[t].pins /\ l.old = th[t].old /\ l.then = th[t].then
          /\ TRUE
      BY <3>1 DEF Locals
    <3>. QED BY <1>12, <2>1, <3>1, <3>2 DEF LoadShared, LocalOK, NoPinsYet, Giving, InAlloc
  <2>. QED BY <2>1, <2>2, <2>3, <2>4, <2>5, StepTyped
<1>13. ASSUME NEW t \in Threads, NewPins(t) PROVE TypeInv'
  <2>. DEFINE l == IF allocated + 1 < MaxPins THEN Fresh(allocated + 1, "init") ELSE Outside
  <2>1. Local(t, l) /\ th[t].at = "get"
    BY <1>13 DEF NewPins, At
  <2>2. allocated \in Nat
    BY <1>0 DEF MemoryOK
  <2>3. l \in Locals /\ l.node = Null /\ l.old = <<>> /\ (l.at = "out" <=> l.pins = 0) /\ l.at \in {"init", "out"}
    <3>1. CASE allocated + 1 < MaxPins
      <4>1. allocated + 1 \in 0 .. MaxPins - 1 /\ allocated + 1 # 0 /\ "init" \in Labels
        BY <2>2, <3>1, PinBoxConstants DEF Labels
      <4>. QED BY <3>1, <4>1, FreshTyped
    <3>2. CASE ~ (allocated + 1 < MaxPins)
      <4>1. l = Outside
        BY <3>2
      <4>. HIDE DEF l
      <4>. QED BY <4>1, OutsideTyped
    <3>. QED BY <3>1, <3>2
  <2>4. MemoryOK' /\ own' = own /\ held' = held
    BY <1>0, <1>13, <2>2 DEF NewPins, MemoryOK, allocator, client
  <2>5. LocalOK(l, own[t], held[t])
    <3>1. LocalOK(th[t], own[t], held[t])
      BY <1>0
    <3>. QED BY <2>1, <2>3, <3>1 DEF LocalOK, NoPinsYet, Giving, InAlloc
  <2>. QED BY <2>1, <2>3, <2>4, <2>5, StepTyped
<1>14. ASSUME NEW t \in Threads, PopPins(t) PROVE TypeInv'
  <2>1. th[t] \in Locals /\ LocalOK(th[t], own[t], held[t]) /\ th[t].at = "pop"
    BY <1>0, <1>14 DEF PopPins, At
  <2>2. th[t].seen \in Top /\ th[t].seen.top # 0 /\ th[t].nextPins \in 0 .. MaxPins - 1
    BY <2>1, Fields DEF LocalOK
  <2>3. pinstack \in Top
    BY <1>0 DEF MemoryOK
  <2>4. own' = own /\ held' = held
    BY <1>14 DEF PopPins, client
  <2>5. CASE pinstack = th[t].seen
    <3>. DEFINE l == Fresh(th[t].seen.top, "init")
    <3>1. Local(t, l) /\ pinstack' = Pushed(th[t].nextPins)
      BY <1>14, <2>5 DEF PopPins
    <3>2. l \in Locals /\ l.at = "init" /\ l.pins # 0 /\ l.old = <<>> /\ l.node = Null
      <4>1. th[t].seen.top \in 0 .. MaxPins - 1 /\ "init" \in Labels
        BY <2>2 DEF Top, Labels
      <4>. QED BY <2>2, <4>1, FreshTyped
    <3>3. pinstack' \in Top
      BY <2>2, <2>3, <3>1, PinBoxConstants DEF Pushed, Top
    <3>4. MemoryOK'
      BY <1>0, <1>14, <3>3 DEF PopPins, MemoryOK, allocator, client
    <3>5. LocalOK(l, own[t], held[t])
      BY <2>1, <3>2 DEF LocalOK, NoPinsYet, Giving, InAlloc
    <3>. QED BY <2>4, <3>1, <3>2, <3>4, <3>5, StepTyped
  <2>6. CASE pinstack # th[t].seen
    <3>. DEFINE l == [th[t] EXCEPT !.at = "get", !.seen = pinstack]
    <3>1. Local(t, l) /\ pinstack' = pinstack
      BY <1>14, <2>6 DEF PopPins
    <3>2. /\ l \in Locals /\ l.at = "get" /\ l.pins = th[t].pins /\ l.old = th[t].old
          /\ l.then = th[t].then /\ l.node = th[t].node
      BY <2>1, <2>3 DEF Locals, Labels
    <3>3. MemoryOK'
      BY <1>0, <1>14, <3>1 DEF PopPins, MemoryOK, allocator, client
    <3>4. LocalOK(l, own[t], held[t])
      BY <2>1, <3>2 DEF LocalOK, NoPinsYet, Giving, InAlloc
    <3>. QED BY <2>4, <3>1, <3>2, <3>3, <3>4, StepTyped
  <2>. QED BY <2>5, <2>6
<1>15. ASSUME NEW t \in Threads, InitPins(t) PROVE TypeInv'
  <2>. DEFINE l == Fresh(Mine(t), "idle")
  <2>1. Local(t, l) /\ th[t] \in Locals /\ LocalOK(th[t], own[t], held[t]) /\ th[t].at = "init"
    BY <1>0, <1>15 DEF InitPins, At, Idle
  <2>2. Mine(t) \in 0 .. MaxPins - 1 /\ Mine(t) # 0
    BY <2>1, Fields DEF LocalOK, Mine, NoPinsYet
  <2>3. l \in Locals /\ l.at = "idle" /\ l.pins # 0 /\ l.old = <<>> /\ l.node = Null
    BY <2>2, FreshTyped DEF Labels
  <2>4. MemoryOK' /\ own' = own /\ held' = held
    BY <1>0, <1>15, <2>2 DEF InitPins, MemoryOK, allocator, client
  <2>5. LocalOK(l, own[t], held[t])
    BY <2>1, <2>3 DEF LocalOK, NoPinsYet, Giving, InAlloc
  <2>. QED BY <2>1, <2>3, <2>4, <2>5, StepTyped
<1>16. ASSUME NEW t \in Threads, Drain(t) PROVE TypeInv'
  <2>1. th[t] \in Locals /\ LocalOK(th[t], own[t], held[t]) /\ th[t].at = "put"
    BY <1>0, <1>16 DEF Drain, At
  <2>2. Mine(t) \in Indices
    BY <2>1, Fields DEF LocalOK, Mine, NoPinsYet, Indices
  <2>3. purgatory[Mine(t)] \in Seq(Objects) /\ pinstack \in Top
    BY <1>0, <2>2 DEF MemoryOK
  <2>4. own' = own /\ held' = held
    BY <1>16 DEF Drain, client
  <2>5. CASE purgatory[Mine(t)] # <<>>
    <3>. DEFINE m == [th[t] EXCEPT !.then = "put", !.old = purgatory[Mine(t)]]
                l == [m EXCEPT !.at = "scan", !.slot = <<1, 1>>]
    <3>1. Local(t, l) /\ purgatory' = [purgatory EXCEPT ![Mine(t)] = <<>>]
      BY <1>16, <2>5 DEF Drain, StartScan
    <3>2. m \in Locals /\ m.old = purgatory[Mine(t)] /\ m.pins = th[t].pins /\ m.then = "put"
      BY <2>1, <2>3 DEF Locals
    <3>3. l \in Locals /\ l.at = "scan" /\ l.old = m.old /\ l.pins = m.pins /\ l.then = m.then
      BY <3>2, FirstSlot DEF Locals, Labels
    <3>4. MemoryOK'
      <4>1. purgatory' \in [Indices -> Seq(Objects)]
        BY <1>0, <3>1, EmptySeq DEF MemoryOK
      <4>. QED BY <1>0, <1>16, <4>1 DEF Drain, MemoryOK, pinbox, allocator, client
    <3>5. LocalOK(l, own[t], held[t])
      BY <2>1, <2>5, <3>2, <3>3 DEF LocalOK, NoPinsYet, Giving, InAlloc
    <3>. QED BY <2>4, <3>1, <3>3, <3>4, <3>5, StepTyped
  <2>6. CASE purgatory[Mine(t)] = <<>>
    <3>. DEFINE l == [th[t] EXCEPT !.at = "link", !.seen = pinstack]
    <3>1. Local(t, l) /\ purgatory' = purgatory
      BY <1>16, <2>6 DEF Drain
    <3>2. /\ l \in Locals /\ l.at = "link" /\ l.pins = th[t].pins /\ l.old = th[t].old
          /\ l.then = th[t].then /\ l.node = th[t].node
      BY <2>1, <2>3 DEF Locals, Labels
    <3>3. MemoryOK'
      BY <1>0, <1>16, <3>1 DEF Drain, MemoryOK, pinbox, allocator, client
    <3>4. LocalOK(l, own[t], held[t])
      BY <2>1, <3>2 DEF LocalOK, NoPinsYet, Giving, InAlloc
    <3>. QED BY <2>4, <3>1, <3>2, <3>3, <3>4, StepTyped
  <2>. QED BY <2>5, <2>6
<1>17. ASSUME NEW t \in Threads, PushPins(t) PROVE TypeInv'
  <2>1. th[t] \in Locals /\ LocalOK(th[t], own[t], held[t]) /\ th[t].at = "push"
    BY <1>0, <1>17 DEF PushPins, At
  <2>2. pinstack \in Top /\ Mine(t) \in 0 .. MaxPins - 1
    BY <1>0, <2>1, Fields DEF MemoryOK, Mine
  <2>3. own' = own /\ held' = held
    BY <1>17 DEF PushPins, client
  <2>4. CASE pinstack = th[t].seen
    <3>1. Local(t, Outside) /\ pinstack' = Pushed(Mine(t))
      BY <1>17, <2>4 DEF PushPins
    <3>2. pinstack' \in Top
      BY <2>2, <3>1, PinBoxConstants DEF Pushed, Top
    <3>3. MemoryOK'
      BY <1>0, <1>17, <3>2 DEF PushPins, MemoryOK, allocator, client
    <3>4. LocalOK(Outside, own[t], held[t])
      BY <2>1, OutsideTyped DEF LocalOK, NoPinsYet, Giving, InAlloc
    <3>. QED BY <2>3, <3>1, <3>3, <3>4, OutsideTyped, StepTyped
  <2>5. CASE pinstack # th[t].seen
    <3>. DEFINE l == [th[t] EXCEPT !.at = "link", !.seen = pinstack]
    <3>1. Local(t, l) /\ pinstack' = pinstack
      BY <1>17, <2>5 DEF PushPins
    <3>2. /\ l \in Locals /\ l.at = "link" /\ l.pins = th[t].pins /\ l.old = th[t].old
          /\ l.then = th[t].then /\ l.node = th[t].node
      BY <2>1, <2>2 DEF Locals, Labels
    <3>3. MemoryOK'
      BY <1>0, <1>17, <3>1 DEF PushPins, MemoryOK, allocator, client
    <3>4. LocalOK(l, own[t], held[t])
      BY <2>1, <3>2 DEF LocalOK, NoPinsYet, Giving, InAlloc
    <3>. QED BY <2>3, <3>1, <3>2, <3>3, <3>4, StepTyped
  <2>. QED BY <2>4, <2>5
<1>18. ASSUME NEW t \in Threads, CheckTop(t) PROVE TypeInv'
  <2>1. th[t] \in Locals /\ LocalOK(th[t], own[t], held[t]) /\ th[t].at = "check"
    BY <1>0, <1>18 DEF CheckTop, At
  <2>2. MemoryOK' /\ own' = own /\ held' = held
    BY <1>0, <1>18 DEF CheckTop, MemoryOK, pinbox, allocator, client
  <2>3. CASE th[t].node # top
    <3>. DEFINE l == Fresh(Mine(t), "read")
    <3>1. Local(t, l)
      BY <1>18, <2>3 DEF CheckTop
    <3>2. l \in Locals /\ l.at = "read" /\ l.pins = Mine(t) /\ l.old = <<>> /\ l.node = Null
      BY <2>1, Fields, FreshTyped DEF Labels, Mine
    <3>3. LocalOK(l, own[t], held[t])
      BY <2>1, <3>2 DEF LocalOK, NoPinsYet, Giving, InAlloc, Mine
    <3>. QED BY <2>2, <3>1, <3>2, <3>3, StepTyped
  <2>4. CASE th[t].node = top
    <3>. DEFINE l == [th[t] EXCEPT !.at = IF top = Null THEN "malloc" ELSE "next"]
    <3>1. Local(t, l)
      BY <1>18, <2>4 DEF CheckTop, Go
    <3>2. /\ l \in Locals /\ l.at = (IF top = Null THEN "malloc" ELSE "next") /\ l.pins = th[t].pins
          /\ l.old = th[t].old /\ l.node = th[t].node
      BY <2>1 DEF Locals, Labels
    <3>3. LocalOK(l, own[t], held[t])
      BY <2>1, <2>4, <3>2 DEF LocalOK, NoPinsYet, Giving, InAlloc
    <3>. QED BY <2>2, <3>1, <3>2, <3>3, StepTyped
  <2>. QED BY <2>3, <2>4
<1>19. ASSUME NEW t \in Threads, Malloc(t) PROVE TypeInv'
  <2>. DEFINE l == [th[t] EXCEPT !.at = "unpin"]
  <2>1. /\ th[t] \in Locals /\ LocalOK(th[t], own[t], held[t]) /\ th[t].at = "malloc"
        /\ Local(t, l)
    BY <1>0, <1>19 DEF Malloc, At, Go
  <2>2. l \in Locals /\ l.at = "unpin" /\ l.pins = th[t].pins /\ l.old = th[t].old
    BY <2>1 DEF Locals, Labels
  <2>3. born' \subseteq Objects /\ own' \in [Threads -> Pointers]
    BY <1>0, <1>19 DEF Malloc, MemoryOK, Pointers
  <2>4. MemoryOK' /\ held' = held
    BY <1>0, <1>19, <2>3 DEF Malloc, MemoryOK, pinbox
  <2>5. \A u \in Threads : u # t => own'[u] = own[u]
    BY <1>0, <1>19 DEF Malloc, MemoryOK
  <2>6. LocalOK(l, own'[t], held[t])
    BY <2>1, <2>2 DEF LocalOK, NoPinsYet, Giving, InAlloc
  <2>. QED BY <2>1, <2>2, <2>4, <2>5, <2>6, StepTyped
<1>20. ASSUME NEW t \in Threads, TakeTop(t) PROVE TypeInv'
  <2>1. th[t] \in Locals /\ LocalOK(th[t], own[t], held[t]) /\ th[t].at = "take"
    BY <1>0, <1>20 DEF TakeTop, At
  <2>2. th[t].nextNode \in Pointers /\ Mine(t) \in 0 .. MaxPins - 1
    BY <2>1, Fields DEF Mine
  <2>3. top' \in Pointers /\ own' \in [Threads -> Pointers]
    BY <1>0, <1>20, <2>2 DEF TakeTop, MemoryOK
  <2>4. MemoryOK' /\ held' = held
    BY <1>0, <1>20, <2>3 DEF TakeTop, MemoryOK, pinbox
  <2>5. \A u \in Threads : u # t => own'[u] = own[u]
    BY <1>0, <1>20 DEF TakeTop, MemoryOK
  <2>. DEFINE l == Fresh(Mine(t), IF top = th[t].node THEN "unpin" ELSE "read")
  <2>6. Local(t, l)
    BY <1>20 DEF TakeTop
  <2>7. /\ l \in Locals /\ l.at = (IF top = th[t].node THEN "unpin" ELSE "read")
        /\ l.pins = th[t].pins /\ l.old = <<>> /\ l.node = Null
    BY <2>2, FreshTyped DEF Labels, Mine
  <2>8. top # th[t].node => own' = own
    BY <1>20 DEF TakeTop
  <2>9. LocalOK(l, own'[t], held[t])
    BY <2>1, <2>7, <2>8 DEF LocalOK, NoPinsYet, Giving, InAlloc
  <2>. QED BY <2>4, <2>5, <2>6, <2>7, <2>9, StepTyped
<1>21. ASSUME NEW t \in Threads, AllocReturns(t) PROVE TypeInv'
  <2>. DEFINE l == Fresh(Mine(t), "idle")
  <2>1. Local(t, l) /\ th[t] \in Locals /\ LocalOK(th[t], own[t], held[t]) /\ th[t].at = "unpin"
    BY <1>0, <1>21 DEF AllocReturns, At, Idle
  <2>2. l \in Locals /\ l.at = "idle" /\ l.pins = th[t].pins /\ l.old = <<>> /\ l.node = Null
    BY <2>1, Fields, FreshTyped DEF Labels, Mine
  <2>3. pin' \in [Indices -> [1 .. PinCount -> Pointers]]
    BY <1>0, <1>21 DEF AllocReturns, MemoryOK, Pointers
  <2>4. MemoryOK' /\ own' = own /\ held' = held
    BY <1>0, <1>21, <2>3 DEF AllocReturns, MemoryOK, pinbox, allocator, client
  <2>5. LocalOK(l, own[t], held[t])
    BY <2>1, <2>2 DEF LocalOK, NoPinsYet, Giving, InAlloc
  <2>. QED BY <2>1, <2>2, <2>4, <2>5, StepTyped
<1>22. ASSUME NEW t \in Threads, Free(t) PROVE TypeInv'
  <2>. DEFINE p == Mine(t)
              new == <<th[t].node>> \o purgatory[p]
  <2>1. th[t] \in Locals /\ LocalOK(th[t], own[t], held[t]) /\ th[t].at = "free"
    BY <1>0, <1>22 DEF Free, At
  <2>2. p \in Indices /\ th[t].node \in Objects
    BY <2>1, Fields DEF LocalOK, Mine, NoPinsYet, Indices, Pointers
  <2>3. purgatory[p] \in Seq(Objects)
    BY <1>0, <2>2 DEF MemoryOK
  <2>4. new \in Seq(Objects) /\ new # <<>> /\ First(purgatory[p]) \in Pointers
    BY <2>2, <2>3, ConsProperties, HeadTailProperties DEF First, Pointers
  <2>5. own' = own /\ held' = held /\ next' \in [Objects -> Pointers]
    BY <1>0, <1>22, <2>2, <2>4 DEF Free, client, MemoryOK
  <2>. HIDE DEF new
  <2>. DEFINE m == [th[t] EXCEPT !.node = Null]
  <2>6. CASE Len(new) % PurgatorySize = 0
    <3>. DEFINE k == [m EXCEPT !.then = "idle", !.old = new]
                l == [k EXCEPT !.at = "scan", !.slot = <<1, 1>>]
    <3>1. Local(t, l) /\ purgatory' = [purgatory EXCEPT ![p] = <<>>]
      BY <1>22, <2>6 DEF Free, StartScan, new
    <3>2. m \in Locals /\ m.pins = th[t].pins
      BY <2>1 DEF Locals, Pointers
    <3>3. k \in Locals /\ k.old = new /\ k.pins = m.pins /\ k.then = "idle"
      BY <2>4, <3>2 DEF Locals
    <3>4. l \in Locals /\ l.at = "scan" /\ l.old = new /\ l.pins = th[t].pins /\ l.then = "idle"
      BY <3>2, <3>3, FirstSlot DEF Locals, Labels
    <3>5. MemoryOK'
      <4>1. purgatory' \in [Indices -> Seq(Objects)]
        BY <1>0, <3>1, EmptySeq DEF MemoryOK
      <4>. QED BY <1>0, <1>22, <2>5, <4>1 DEF Free, MemoryOK, pinbox, client
    <3>6. LocalOK(l, own[t], held[t])
      BY <2>1, <2>4, <3>4 DEF LocalOK, NoPinsYet, Giving, InAlloc
    <3>. QED BY <2>5, <3>1, <3>4, <3>5, <3>6, StepTyped
  <2>7. CASE Len(new) % PurgatorySize # 0
    <3>. DEFINE l == Fresh(Mine(t), "idle")
    <3>1. Local(t, l) /\ purgatory' = [purgatory EXCEPT ![p] = new]
      BY <1>22, <2>7 DEF Free, Idle, new
    <3>2. l \in Locals /\ l.at = "idle" /\ l.pins = th[t].pins /\ l.old = <<>> /\ l.node = Null
      BY <2>1, Fields, FreshTyped DEF Labels, Mine
    <3>3. MemoryOK'
      <4>1. purgatory' \in [Indices -> Seq(Objects)]
        BY <1>0, <2>4, <3>1 DEF MemoryOK
      <4>. QED BY <1>0, <1>22, <2>5, <4>1 DEF Free, MemoryOK, pinbox, client
    <3>4. LocalOK(l, own[t], held[t])
      BY <2>1, <3>2 DEF LocalOK, NoPinsYet, Giving, InAlloc
    <3>. QED BY <2>5, <3>1, <3>2, <3>3, <3>4, StepTyped
  <2>. QED BY <2>6, <2>7
<1>23. ASSUME NEW t \in Threads, ScanPin(t) PROVE TypeInv'
  <2>. DEFINE v == pin[th[t].slot[1]][th[t].slot[2]]
              old == IF v \in ToSet(th[t].old)
                     THEN RemoveAt(th[t].old, Position(th[t].old, v)) ELSE th[t].old
              l == IF old = <<>>             THEN [th[t] EXCEPT !.at = th[t].then, !.old = old]
                   ELSE IF th[t].slot = LastSlot THEN [th[t] EXCEPT !.at = "give", !.old = old]
                   ELSE [th[t] EXCEPT !.slot = NextSlot(@), !.old = old]
  <2>1. /\ th[t] \in Locals /\ LocalOK(th[t], own[t], held[t]) /\ th[t].at = "scan"
        /\ Local(t, l)
    BY Zenon, <1>0, <1>23 DEF ScanPin, At
  <2>2. Mine(t) \in Indices /\ th[t].old \in Seq(Objects)
    BY <2>1, Fields DEF LocalOK, Mine, NoPinsYet, Indices
  <2>3. purgatory[Mine(t)] \in Seq(Objects)
    BY <1>0, <2>2 DEF MemoryOK
  <2>4. old \in Seq(Objects)
    BY <2>2, PositionIs, RemoveProperties
  <2>5. /\ own' = own /\ held' = held
        /\ next' \in [Objects -> Pointers] /\ purgatory' \in [Indices -> Seq(Objects)]
    <3>1. CASE v \in ToSet(th[t].old)
      <4>1. v \in Objects
        BY <2>2, <3>1, ToSetIs
      <4>2. <<v>> \o purgatory[Mine(t)] \in Seq(Objects) /\ First(purgatory[Mine(t)]) \in Pointers
        BY Zenon, <2>3, <4>1, ConsProperties, HeadTailProperties DEF First, Pointers
      <4>3. /\ purgatory' = [purgatory EXCEPT ![Mine(t)] = <<v>> \o @]
            /\ next' = [next EXCEPT ![v] = First(purgatory[Mine(t)])]
        BY Zenon, <1>23, <3>1 DEF ScanPin
      <4>. QED BY Zenon, <1>0, <1>23, <2>2, <4>2, <4>3 DEF ScanPin, client, MemoryOK
    <3>2. CASE v \notin ToSet(th[t].old)
      BY Zenon, <1>0, <1>23, <3>2 DEF ScanPin, client, MemoryOK
    <3>. QED BY Zenon, <3>1, <3>2
  <2>6. MemoryOK'
    BY Zenon, <1>0, <1>23, <2>5 DEF ScanPin, MemoryOK, pinbox, client
  <2>. HIDE DEF old
  <2>7. /\ l \in Locals /\ l.pins = th[t].pins /\ l.old = old /\ l.then = th[t].then
        /\ l.at = IF old = <<>> THEN th[t].then ELSE IF th[t].slot = LastSlot THEN "give" ELSE "scan"
    <3>1. th[t].then \in Labels /\ "give" \in Labels
      BY <2>1, Fields DEF Labels
    <3>2. CASE old = <<>>
      BY <2>1, <2>4, <3>1, <3>2 DEF Locals
    <3>3. CASE old # <<>> /\ th[t].slot = LastSlot
      BY <2>1, <2>4, <3>1, <3>3 DEF Locals
    <3>4. CASE old # <<>> /\ th[t].slot # LastSlot
      <4>1. NextSlot(th[t].slot) \in Slots
        BY <2>1, <3>4, Fields, NextSlotTyped
      <4>. QED BY <2>1, <2>4, <3>4, <4>1 DEF Locals
    <3>. QED BY <3>2, <3>3, <3>4
  <2>8. LocalOK(l, own[t], held[t])
    <3>1. th[t].then \in {"idle", "put"}
      BY <2>1, Fields
    <3>. HIDE DEF l
    <3>. QED BY <2>1, <2>7, <3>1 DEF LocalOK, NoPinsYet, Giving, InAlloc
  <2>. QED BY <2>1, <2>5, <2>6, <2>7, <2>8, StepTyped
<1>24. ASSUME NEW t \in Threads, GiveBack(t) PROVE TypeInv'
  <2>1. th[t] \in Locals /\ LocalOK(th[t], own[t], held[t]) /\ th[t].at = "swap"
    BY <1>0, <1>24 DEF GiveBack, At
  <2>2. top \in Pointers /\ Head(th[t].old) \in Objects /\ th[t].then \in {"idle", "put"}
    <3>1. th[t].old \in Seq(Objects) /\ th[t].old # <<>>
      BY <2>1, Fields DEF LocalOK, Giving
    <3>. QED BY <1>0, <2>1, <3>1, HeadTailProperties, Fields DEF MemoryOK
  <2>3. top' \in Pointers
    BY <1>24, <2>2 DEF GiveBack, Pointers
  <2>4. MemoryOK' /\ own' = own /\ held' = held
    BY <1>0, <1>24, <2>3 DEF GiveBack, MemoryOK, pinbox, client
  <2>5. CASE top = th[t].node
    <3>. DEFINE l == [th[t] EXCEPT !.at = th[t].then, !.old = <<>>, !.node = Null]
    <3>1. Local(t, l)
      BY <1>24, <2>5 DEF GiveBack
    <3>2. /\ l \in Locals /\ l.at = th[t].then /\ l.pins = th[t].pins
          /\ l.old = <<>> /\ l.then = th[t].then
      BY <2>1, <2>2, EmptySeq DEF Locals, Labels, Pointers
    <3>3. LocalOK(l, own[t], held[t])
      BY <2>1, <2>2, <3>2 DEF LocalOK, NoPinsYet, Giving, InAlloc
    <3>. QED BY <2>4, <3>1, <3>2, <3>3, StepTyped
  <2>6. CASE top # th[t].node
    <3>. DEFINE l == [th[t] EXCEPT !.at = "chain", !.node = top]
    <3>1. Local(t, l)
      BY <1>24, <2>6 DEF GiveBack
    <3>2. /\ l \in Locals /\ l.at = "chain" /\ l.pins = th[t].pins
          /\ l.old = th[t].old /\ l.then = th[t].then
      BY <2>1, <2>2 DEF Locals, Labels
    <3>3. LocalOK(l, own[t], held[t])
      BY <2>1, <3>2 DEF LocalOK, NoPinsYet, Giving, InAlloc
    <3>. QED BY <2>4, <3>1, <3>2, <3>3, StepTyped
  <2>. QED BY <2>5, <2>6
<1>25. ASSUME NEW t \in Threads, Exchange(t) PROVE TypeInv'
  <2>1. th[t] \in Locals /\ LocalOK(th[t], own[t], held[t]) /\ th[t].at = "idle"
    BY <1>0, <1>25 DEF Exchange, At
  <2>2. own' = [own EXCEPT ![t] = Null] /\ held' = held /\ shared' = own[t]
    BY <1>25 DEF Exchange
  <2>3. own' \in [Threads -> Pointers] /\ shared' \in Pointers
    BY <1>0, <2>2 DEF MemoryOK, Pointers
  <2>4. MemoryOK' /\ own'[t] = Null /\ \A u \in Threads : u # t => own'[u] = own[u]
    BY <1>0, <1>25, <2>2, <2>3 DEF Exchange, MemoryOK, pinbox, allocator
  <2>5. CASE shared = Null
    <3>. DEFINE l == Fresh(Mine(t), "idle")
    <3>1. Local(t, l)
      BY <1>25, <2>5 DEF Exchange, Idle
    <3>2. l \in Locals /\ l.at = "idle" /\ l.pins = th[t].pins /\ l.old = <<>> /\ l.node = Null
      BY <2>1, Fields, FreshTyped DEF Labels, Mine
    <3>3. LocalOK(l, own'[t], held[t])
      BY <2>1, <3>2 DEF LocalOK, NoPinsYet, Giving, InAlloc
    <3>. QED BY <2>2, <2>4, <3>1, <3>2, <3>3, StepTyped
  <2>6. CASE shared # Null
    <3>. DEFINE l == [th[t] EXCEPT !.at = "free", !.node = shared]
    <3>1. Local(t, l)
      BY <1>25, <2>6 DEF Exchange
    <3>2. /\ l \in Locals /\ l.at = "free" /\ l.pins = th[t].pins
          /\ l.old = th[t].old /\ l.node = shared
      <4>1. shared \in Pointers
        BY <1>0 DEF MemoryOK
      <4>. QED BY <2>1, <4>1 DEF Locals, Labels
    <3>3. LocalOK(l, own'[t], held[t])
      BY <2>1, <2>4, <2>6, <3>2 DEF LocalOK, NoPinsYet, Giving, InAlloc
    <3>. QED BY <2>2, <2>4, <3>1, <3>2, <3>3, StepTyped
  <2>. QED BY <2>5, <2>6
<1>26. ASSUME NEW t \in Threads, PinShared(t) PROVE TypeInv'
  <2>. DEFINE l == [th[t] EXCEPT !.at = "again"]
  <2>1. /\ th[t] \in Locals /\ LocalOK(th[t], own[t], held[t]) /\ th[t].at = "guard"
        /\ Local(t, l)
    BY <1>0, <1>26 DEF PinShared, At, Go
  <2>2. l \in Locals /\ l.at = "again" /\ l.pins = th[t].pins /\ l.old = th[t].old
    BY <2>1 DEF Locals, Labels
  <2>3. th[t].node \in Pointers /\ 1 \in 1 .. PinCount
    BY <2>1, Fields, PinBoxConstants
  <2>4. /\ pin' \in [Indices -> [1 .. PinCount -> Pointers]]
        /\ held' \in [Threads -> [1 .. PinCount -> Pointers]]
        /\ held'[t][1] = Null /\ \A u \in Threads : u # t => held'[u] = held[u]
    BY <1>0, <1>26, <2>3 DEF PinShared, MemoryOK, Pointers
  <2>5. MemoryOK' /\ own' = own
    BY <1>0, <1>26, <2>4 DEF PinShared, MemoryOK, pinbox, allocator
  <2>6. LocalOK(l, own[t], held'[t])
    BY <2>1, <2>2, <2>4 DEF LocalOK, NoPinsYet, Giving, InAlloc
  <2>. QED BY <2>1, <2>2, <2>4, <2>5, <2>6, StepTyped
<1>27. ASSUME NEW t \in Threads, CheckShared(t) PROVE TypeInv'
  <2>. DEFINE l == Fresh(Mine(t), IF th[t].node = shared THEN "idle" ELSE "load")
  <2>1. /\ th[t] \in Locals /\ LocalOK(th[t], own[t], held[t]) /\ th[t].at = "again"
        /\ Local(t, l)
    BY <1>0, <1>27 DEF CheckShared, At, Idle
  <2>2. /\ l \in Locals /\ l.at \in {"idle", "load"} /\ l.pins = th[t].pins /\ l.old = <<>>
    BY <2>1, Fields, FreshTyped DEF Labels, Mine
  <2>3. /\ held' \in [Threads -> [1 .. PinCount -> Pointers]]
        /\ \A u \in Threads : u # t => held'[u] = held[u]
    <3>1. shared \in Pointers /\ 1 \in 1 .. PinCount
      BY <1>0, PinBoxConstants DEF MemoryOK
    <3>2. CASE held' = [held EXCEPT ![t][1] = shared]
      BY <1>0, <3>1, <3>2 DEF MemoryOK
    <3>3. CASE held' = held
      BY <1>0, <3>3 DEF MemoryOK
    <3>. QED BY <1>27, <3>2, <3>3 DEF CheckShared
  <2>4. MemoryOK' /\ own' = own
    BY <1>0, <1>27, <2>3 DEF CheckShared, MemoryOK, pinbox, allocator
  <2>. HIDE DEF l
  <2>5. LocalOK(l, own[t], held'[t])
    BY <2>1, <2>2 DEF LocalOK, NoPinsYet, Giving, InAlloc
  <2>. QED BY <2>1, <2>2, <2>3, <2>4, <2>5, StepTyped
<1>28. ASSUME NEW t \in Threads, CopyUp(t) \/ Unpin(t) PROVE TypeInv'
  <2>1. /\ th[t] \in Locals /\ LocalOK(th[t], own[t], held[t]) /\ th[t].at = "idle"
        /\ Local(t, th[t])
    BY <1>0, <1>28 DEF CopyUp, Unpin, At, Local
  <2>2. {1, 2} \subseteq 1 .. PinCount
    BY PinBoxConstants
  <2>3. /\ pin' \in [Indices -> [1 .. PinCount -> Pointers]]
        /\ held' \in [Threads -> [1 .. PinCount -> Pointers]]
        /\ \A u \in Threads : u # t => held'[u] = held[u]
    <3>1. Null \in Pointers /\ held[t][1] \in Pointers
      BY <1>0, <2>2 DEF MemoryOK, Pointers
    <3>2. PICK i \in 1 .. PinCount, x \in Pointers :
            /\ pin' = [pin EXCEPT ![Mine(t)][i] = x]
            /\ held' = [held EXCEPT ![t][i] = x]
      BY <1>28, <2>2, <3>1 DEF CopyUp, Unpin
    <3>. QED BY <1>0, <3>2 DEF MemoryOK
  <2>4. MemoryOK' /\ own' = own
    BY <1>0, <1>28, <2>3 DEF CopyUp, Unpin, MemoryOK, pinbox, allocator
  <2>5. LocalOK(th[t], own[t], held'[t])
    BY <2>1 DEF LocalOK, NoPinsYet, Giving, InAlloc
  <2>. QED BY <2>1, <2>3, <2>4, <2>5, StepTyped
<1>29. CASE UNCHANGED vars
  BY <1>0, <1>29 DEF TypeInv, TypeOK, LocalsOK, vars, pinbox, allocator, client
<1>. QED BY <1>1, <1>2, <1>3, <1>4, <1>5, <1>6, <1>7, <1>8, <1>9, <1>10, <1>11, <1>12, <1>13,
            <1>14, <1>15, <1>16, <1>17, <1>18, <1>19, <1>20, <1>21, <1>22, <1>23, <1>24,
            <1>25, <1>26, <1>27, <1>28, <1>29 DEF Next, Inside, Calls

LEMMA TypeInit == Init => TypeInv
<1>. SUFFICES ASSUME Init PROVE TypeInv
  OBVIOUS
<1>1. 0 \in 0 .. MaxPins - 1 /\ 0 \in 0 .. Versions - 1 /\ 1 \in 1 .. PinCount
  BY PinBoxConstants
<1>2. NoPins \in [1 .. PinCount -> Pointers] /\ NoPins[1] = Null /\ <<>> \in Seq(Objects)
  BY <1>1, EmptySeq DEF NoPins, Pointers
<1>3. TypeOK
  BY <1>1, <1>2, OutsideTyped DEF Init, TypeOK, Top, Pointers
<1>4. \A t \in Threads : LocalOK(th[t], own[t], held[t])
  BY <1>2, OutsideTyped DEF Init, LocalOK, NoPinsYet, Giving, InAlloc
<1>. QED BY <1>3, <1>4 DEF TypeInv, LocalsOK

\* The locals, links, pins and purgatories keep their types (alloc_pin.cc:91-178, 253-303),
\* for every number of threads, objects, Pins and pins.
THEOREM TypeCorrect == Spec => []TypeOK
<1>1. TypeInv => TypeOK
  BY DEF TypeInv
<1>. QED BY <1>1, TypeInit, TypeStep, PTL DEF Spec
-------------------------------------------------------------------------------
(* What the steps do to the local variables of the thread that takes them.  *)

\* t goes to the label x, with the same Pins, and no other thread moves.
Moved(t, x) == /\ \A u \in Threads : u # t => th'[u] = th[u]
               /\ th'[t].at = x /\ th'[t].pins = th[t].pins
SameNode(t) == th'[t].node = th[t].node
SameScan(t) == th'[t].old = th[t].old /\ th'[t].slot = th[t].slot /\ th'[t].then = th[t].then

LEMMA GoEffect ==
  ASSUME TypeInv, NEW t \in Threads, NEW x \in Labels, Go(t, x)
  PROVE  /\ Moved(t, x) /\ SameNode(t) /\ SameScan(t) /\ th'[t].nextNode = th[t].nextNode
         /\ th'[t].seen = th[t].seen
<1>1. th \in [Threads -> Locals] /\ th[t] \in Locals
  BY DEF TypeInv, TypeOK
<1>. QED BY <1>1 DEF Go, Local, Moved, SameNode, SameScan, Locals

LEMMA FreshEffect ==
  ASSUME TypeInv, NEW t \in Threads, NEW x \in Labels, Local(t, Fresh(Mine(t), x))
  PROVE  Moved(t, x) /\ th'[t].old = <<>> /\ th'[t].node = Null
<1>1. th \in [Threads -> Locals] /\ th[t].pins \in 0 .. MaxPins - 1
  BY Fields DEF TypeInv, TypeOK
<1>. QED BY <1>1, FreshTyped DEF Local, Moved, Mine

LEMMA GetPinsEffect ==
  ASSUME TypeInv, NEW t \in Threads, GetPins(t)
  PROVE  Moved(t, "get") /\ SameNode(t) /\ SameScan(t) /\ th'[t].seen = pinstack
<1>1. th \in [Threads -> Locals] /\ th[t] \in Locals
  BY DEF TypeInv, TypeOK
<1>. QED BY <1>1 DEF GetPins, Local, At, Moved, SameNode, SameScan, Locals

LEMMA ReadLinkEffect ==
  ASSUME TypeInv, NEW t \in Threads, ReadLink(t)
  PROVE  /\ Moved(t, "pop") /\ SameNode(t) /\ SameScan(t)
         /\ th'[t].seen = th[t].seen /\ th'[t].nextPins = link[th[t].seen.top]
<1>1. th \in [Threads -> Locals] /\ th[t] \in Locals
  BY DEF TypeInv, TypeOK
<1>. QED BY <1>1 DEF ReadLink, Local, At, Moved, SameNode, SameScan, Locals

LEMMA NewPinsEffect ==
  ASSUME TypeInv, NEW t \in Threads, NewPins(t)
  PROVE  /\ \A u \in Threads : u # t => th'[u] = th[u]
         /\ th'[t].old = <<>> /\ th'[t].node = Null
         /\ \/ allocated + 1 < MaxPins /\ th'[t].pins = allocated + 1 /\ th'[t].at = "init"
            \/ ~ (allocated + 1 < MaxPins) /\ th'[t].pins = 0 /\ th'[t].at = "out"
<1>1. th \in [Threads -> Locals] /\ allocated \in Nat
  BY DEF TypeInv, TypeOK
<1>2. CASE allocated + 1 < MaxPins
  <2>1. Local(t, Fresh(allocated + 1, "init"))
    BY <1>2 DEF NewPins
  <2>2. allocated + 1 \in 0 .. MaxPins - 1 /\ "init" \in Labels
    BY <1>1, <1>2, PinBoxConstants DEF Labels
  <2>. QED BY <1>1, <1>2, <2>1, <2>2, FreshTyped DEF Local
<1>3. CASE ~ (allocated + 1 < MaxPins)
  BY <1>1, <1>3, OutsideTyped DEF NewPins, Local
<1>. QED BY <1>2, <1>3

LEMMA PopPinsEffect ==
  ASSUME TypeInv, NEW t \in Threads, PopPins(t)
  PROVE  /\ \A u \in Threads : u # t => th'[u] = th[u]
         /\ \/ /\ pinstack = th[t].seen /\ th'[t].pins = th[t].seen.top /\ th'[t].at = "init"
               /\ th'[t].old = <<>> /\ th'[t].node = Null
            \/ /\ pinstack # th[t].seen /\ Moved(t, "get") /\ SameNode(t) /\ SameScan(t)
               /\ th'[t].seen = pinstack
<1>1. /\ th \in [Threads -> Locals] /\ th[t] \in Locals
      /\ th[t].seen.top \in 0 .. MaxPins - 1 /\ "init" \in Labels
  BY Fields DEF TypeInv, TypeOK, Top, Labels
<1>2. CASE pinstack = th[t].seen
  <2>1. Local(t, Fresh(th[t].seen.top, "init"))
    BY <1>2 DEF PopPins
  <2>. QED BY <1>1, <1>2, <2>1, FreshTyped DEF Local
<1>3. CASE pinstack # th[t].seen
  <2>1. Local(t, [th[t] EXCEPT !.at = "get", !.seen = pinstack])
    BY <1>3 DEF PopPins
  <2>. QED BY <1>1, <1>3, <2>1 DEF Local, Moved, SameNode, SameScan, Locals
<1>. QED BY <1>2, <1>3

LEMMA DrainEffect ==
  ASSUME TypeInv, NEW t \in Threads, Drain(t)
  PROVE  \/ /\ purgatory[Mine(t)] # <<>> /\ purgatory' = [purgatory EXCEPT ![Mine(t)] = <<>>]
            /\ Moved(t, "scan") /\ SameNode(t)
            /\ th'[t].old = purgatory[Mine(t)] /\ th'[t].slot = <<1, 1>> /\ th'[t].then = "put"
         \/ /\ purgatory[Mine(t)] = <<>> /\ purgatory' = purgatory
            /\ Moved(t, "link") /\ SameNode(t) /\ SameScan(t) /\ th'[t].seen = pinstack
<1>1. th \in [Threads -> Locals] /\ th[t] \in Locals
  BY DEF TypeInv, TypeOK
<1>2. CASE purgatory[Mine(t)] # <<>>
  <2>. DEFINE m == [th[t] EXCEPT !.then = "put", !.old = purgatory[Mine(t)]]
              l == [m EXCEPT !.at = "scan", !.slot = <<1, 1>>]
  <2>1. Local(t, l) /\ purgatory' = [purgatory EXCEPT ![Mine(t)] = <<>>]
    BY <1>2 DEF Drain, StartScan
  <2>2. /\ m.old = purgatory[Mine(t)] /\ m.then = "put" /\ m.pins = th[t].pins
        /\ m.node = th[t].node
        /\ DOMAIN m = DOMAIN th[t] /\ {"at", "slot"} \subseteq DOMAIN th[t]
    BY <1>1 DEF Locals
  <2>3. /\ l.at = "scan" /\ l.slot = <<1, 1>> /\ l.old = m.old /\ l.then = m.then
        /\ l.pins = m.pins /\ l.node = m.node
    BY <2>2
  <2>. HIDE DEF l, m
  <2>. QED BY <1>1, <1>2, <2>1, <2>2, <2>3 DEF Local, Moved, SameNode
<1>3. CASE purgatory[Mine(t)] = <<>>
  <2>1. Local(t, [th[t] EXCEPT !.at = "link", !.seen = pinstack]) /\ purgatory' = purgatory
    BY <1>3 DEF Drain
  <2>. QED BY <1>1, <1>3, <2>1 DEF Local, Moved, SameNode, SameScan, Locals
<1>. QED BY <1>2, <1>3

LEMMA PushPinsEffect ==
  ASSUME TypeInv, NEW t \in Threads, PushPins(t)
  PROVE  /\ \A u \in Threads : u # t => th'[u] = th[u]
         /\ \/ /\ pinstack = th[t].seen /\ pinstack' = Pushed(Mine(t)) /\ th'[t].pins = 0
               /\ th'[t].at = "out" /\ th'[t].old = <<>> /\ th'[t].node = Null
            \/ /\ pinstack # th[t].seen /\ pinstack' = pinstack
               /\ Moved(t, "link") /\ SameNode(t) /\ SameScan(t) /\ th'[t].seen = pinstack
<1>1. th \in [Threads -> Locals] /\ th[t] \in Locals
  BY DEF TypeInv, TypeOK
<1>2. CASE pinstack = th[t].seen
  BY <1>1, <1>2, OutsideTyped DEF PushPins, Local
<1>3. CASE pinstack # th[t].seen
  <2>1. Local(t, [th[t] EXCEPT !.at = "link", !.seen = pinstack]) /\ pinstack' = pinstack
    BY <1>3 DEF PushPins
  <2>. QED BY <1>1, <1>3, <2>1 DEF Local, Moved, SameNode, SameScan, Locals
<1>. QED BY <1>2, <1>3

LEMMA ReadTopEffect ==
  ASSUME TypeInv, NEW t \in Threads, ReadTop(t)
  PROVE  Moved(t, "pin") /\ th'[t].node = top /\ SameScan(t)
<1>1. th \in [Threads -> Locals] /\ th[t] \in Locals
  BY DEF TypeInv, TypeOK
<1>. QED BY <1>1 DEF ReadTop, Local, At, Moved, SameNode, SameScan, Locals

LEMMA CheckTopEffect ==
  ASSUME TypeInv, NEW t \in Threads, CheckTop(t)
  PROVE  \/ th[t].node # top /\ Moved(t, "read") /\ th'[t].old = <<>> /\ th'[t].node = Null
         \/ /\ th[t].node = top /\ Moved(t, IF top = Null THEN "malloc" ELSE "next")
            /\ SameNode(t) /\ SameScan(t)
<1>1. "read" \in Labels /\ (IF top = Null THEN "malloc" ELSE "next") \in Labels
  BY DEF Labels
<1>. QED BY <1>1, FreshEffect, GoEffect DEF CheckTop

LEMMA ReadNextEffect ==
  ASSUME TypeInv, NEW t \in Threads, ReadNext(t)
  PROVE  /\ Moved(t, "take") /\ SameNode(t) /\ SameScan(t)
         /\ th'[t].nextNode = next[th[t].node]
<1>1. th \in [Threads -> Locals] /\ th[t] \in Locals
  BY DEF TypeInv, TypeOK
<1>. QED BY <1>1 DEF ReadNext, Local, At, Moved, SameNode, SameScan, Locals

LEMMA TakeTopEffect ==
  ASSUME TypeInv, NEW t \in Threads, TakeTop(t)
  PROVE  \/ top = th[t].node /\ Moved(t, "unpin") /\ th'[t].old = <<>> /\ th'[t].node = Null
         \/ top # th[t].node /\ Moved(t, "read") /\ th'[t].old = <<>> /\ th'[t].node = Null
<1>1. "unpin" \in Labels /\ "read" \in Labels
  BY DEF Labels
<1>. QED BY <1>1, FreshEffect DEF TakeTop

LEMMA FreeEffect ==
  ASSUME TypeInv, NEW t \in Threads, Free(t)
  PROVE  LET new == <<th[t].node>> \o purgatory[Mine(t)]
         IN  \/ /\ purgatory' = [purgatory EXCEPT ![Mine(t)] = <<>>]
                /\ Moved(t, "scan") /\ th'[t].node = Null
                /\ th'[t].old = new /\ th'[t].slot = <<1, 1>> /\ th'[t].then = "idle"
             \/ /\ purgatory' = [purgatory EXCEPT ![Mine(t)] = new]
                /\ Moved(t, "idle") /\ th'[t].old = <<>> /\ th'[t].node = Null
<1>. DEFINE new == <<th[t].node>> \o purgatory[Mine(t)]
<1>1. th \in [Threads -> Locals] /\ th[t] \in Locals
  BY DEF TypeInv, TypeOK
<1>2. CASE Len(new) % PurgatorySize = 0
  <2>. DEFINE m == [th[t] EXCEPT !.node = Null]
              k == [m EXCEPT !.then = "idle", !.old = new]
              l == [k EXCEPT !.at = "scan", !.slot = <<1, 1>>]
  <2>1. Local(t, l) /\ purgatory' = [purgatory EXCEPT ![Mine(t)] = <<>>]
    BY <1>2 DEF Free, StartScan
  <2>. HIDE DEF new
  <2>2. /\ m.pins = th[t].pins /\ m.node = Null
        /\ DOMAIN m = DOMAIN th[t] /\ {"at", "slot", "then", "old"} \subseteq DOMAIN th[t]
    BY <1>1 DEF Locals
  <2>. HIDE DEF m
  <2>3. /\ k.old = new /\ k.then = "idle" /\ k.pins = m.pins /\ k.node = m.node
        /\ DOMAIN k = DOMAIN m
    BY <2>2
  <2>. HIDE DEF k
  <2>4. /\ l.at = "scan" /\ l.slot = <<1, 1>> /\ l.old = k.old /\ l.then = k.then
        /\ l.pins = k.pins /\ l.node = k.node
    BY <2>2, <2>3
  <2>. HIDE DEF l
  <2>5. /\ Moved(t, "scan") /\ th'[t].node = Null
        /\ th'[t].old = new /\ th'[t].slot = <<1, 1>> /\ th'[t].then = "idle"
    BY <1>1, <2>1, <2>2, <2>3, <2>4 DEF Local, Moved
  <2>. QED BY <2>1, <2>5 DEF new
<1>3. CASE Len(new) % PurgatorySize # 0
  <2>1. Local(t, Fresh(Mine(t), "idle")) /\ purgatory' = [purgatory EXCEPT ![Mine(t)] = new]
    BY <1>3 DEF Free, Idle
  <2>2. "idle" \in Labels
    BY Zenon DEF Labels
  <2>. QED BY <2>1, <2>2, FreshEffect
<1>. QED BY <1>2, <1>3

LEMMA ScanPinEffect ==
  ASSUME TypeInv, NEW t \in Threads, ScanPin(t)
  PROVE  LET v == pin[th[t].slot[1]][th[t].slot[2]]
             old == IF v \in ToSet(th[t].old)
                    THEN RemoveAt(th[t].old, Position(th[t].old, v)) ELSE th[t].old
         IN  /\ Moved(t, IF old = <<>> THEN th[t].then
                         ELSE IF th[t].slot = LastSlot THEN "give" ELSE "scan")
             /\ SameNode(t) /\ th'[t].old = old /\ th'[t].then = th[t].then
             /\ old # <<>> /\ th[t].slot # LastSlot => th'[t].slot = NextSlot(th[t].slot)
<1>. DEFINE v == pin[th[t].slot[1]][th[t].slot[2]]
            old == IF v \in ToSet(th[t].old)
                   THEN RemoveAt(th[t].old, Position(th[t].old, v)) ELSE th[t].old
            l == IF old = <<>>             THEN [th[t] EXCEPT !.at = th[t].then, !.old = old]
                 ELSE IF th[t].slot = LastSlot THEN [th[t] EXCEPT !.at = "give", !.old = old]
                 ELSE [th[t] EXCEPT !.slot = NextSlot(@), !.old = old]
<1>1. th \in [Threads -> Locals] /\ th[t] \in Locals
  BY DEF TypeInv, TypeOK
<1>2. Local(t, l) /\ th[t].at = "scan"
  BY Zenon DEF ScanPin, At
<1>. HIDE DEF old
<1>3. /\ l.pins = th[t].pins /\ l.node = th[t].node /\ l.old = old /\ l.then = th[t].then
      /\ l.at = (IF old = <<>> THEN th[t].then ELSE IF th[t].slot = LastSlot THEN "give" ELSE "scan")
      /\ old # <<>> /\ th[t].slot # LastSlot => l.slot = NextSlot(th[t].slot)
  BY <1>1, <1>2 DEF Locals
<1>4. th'[t] = l /\ \A u \in Threads : u # t => th'[u] = th[u]
  BY <1>1, <1>2 DEF Local
<1>. HIDE DEF l
<1>5. /\ Moved(t, IF old = <<>> THEN th[t].then
                  ELSE IF th[t].slot = LastSlot THEN "give" ELSE "scan")
      /\ SameNode(t) /\ th'[t].old = old /\ th'[t].then = th[t].then
      /\ old # <<>> /\ th[t].slot # LastSlot => th'[t].slot = NextSlot(th[t].slot)
  BY <1>3, <1>4 DEF Moved, SameNode
<1>. QED BY Zenon, <1>5 DEF old

LEMMA ReadTopToFreeEffect ==
  ASSUME TypeInv, NEW t \in Threads, ReadTopToFree(t)
  PROVE  Moved(t, "chain") /\ th'[t].node = top /\ SameScan(t)
<1>1. th \in [Threads -> Locals] /\ th[t] \in Locals
  BY DEF TypeInv, TypeOK
<1>. QED BY <1>1 DEF ReadTopToFree, Local, At, Moved, SameNode, SameScan, Locals

LEMMA GiveBackEffect ==
  ASSUME TypeInv, NEW t \in Threads, GiveBack(t)
  PROVE  \/ /\ top = th[t].node /\ top' = Head(th[t].old) /\ Moved(t, th[t].then)
            /\ th'[t].old = <<>> /\ th'[t].node = Null
         \/ /\ top # th[t].node /\ top' = top /\ Moved(t, "chain")
            /\ th'[t].node = top /\ SameScan(t)
<1>1. th \in [Threads -> Locals] /\ th[t] \in Locals
  BY DEF TypeInv, TypeOK
<1>2. CASE top = th[t].node
  <2>1. Local(t, [th[t] EXCEPT !.at = th[t].then, !.old = <<>>, !.node = Null]) /\ top' = Head(th[t].old)
    BY <1>2 DEF GiveBack
  <2>. QED BY <1>1, <1>2, <2>1 DEF Local, Moved, Locals
<1>3. CASE top # th[t].node
  <2>1. Local(t, [th[t] EXCEPT !.at = "chain", !.node = top]) /\ top' = top
    BY <1>3 DEF GiveBack
  <2>. QED BY <1>1, <1>3, <2>1 DEF Local, Moved, SameScan, Locals
<1>. QED BY <1>2, <1>3

LEMMA ExchangeEffect ==
  ASSUME TypeInv, NEW t \in Threads, Exchange(t)
  PROVE  \/ shared = Null /\ Moved(t, "idle") /\ th'[t].old = <<>> /\ th'[t].node = Null
         \/ shared # Null /\ Moved(t, "free") /\ th'[t].node = shared /\ SameScan(t)
<1>1. th \in [Threads -> Locals] /\ th[t] \in Locals /\ "idle" \in Labels
  BY DEF TypeInv, TypeOK, Labels
<1>2. CASE shared = Null
  BY <1>1, <1>2, FreshEffect DEF Exchange, Idle
<1>3. CASE shared # Null
  <2>1. Local(t, [th[t] EXCEPT !.at = "free", !.node = shared])
    BY <1>3 DEF Exchange
  <2>. QED BY <1>1, <1>3, <2>1 DEF Local, Moved, SameScan, Locals
<1>. QED BY <1>2, <1>3

LEMMA LoadSharedEffect ==
  ASSUME TypeInv, NEW t \in Threads, LoadShared(t)
  PROVE  Moved(t, "guard") /\ th'[t].node = shared /\ SameScan(t)
<1>1. th \in [Threads -> Locals] /\ th[t] \in Locals
  BY DEF TypeInv, TypeOK
<1>. QED BY <1>1 DEF LoadShared, Local, At, Moved, SameNode, SameScan, Locals

LEMMA CheckSharedEffect ==
  ASSUME TypeInv, NEW t \in Threads, CheckShared(t)
  PROVE  /\ Moved(t, IF th[t].node = shared THEN "idle" ELSE "load")
         /\ th'[t].old = <<>> /\ th'[t].node = Null
<1>1. "idle" \in Labels /\ "load" \in Labels
  BY DEF Labels
<1>. QED BY <1>1, FreshEffect DEF CheckShared, Idle

-------------------------------------------------------------------------------
(* The stack of unused Pins.                                                *)

PinsDistinct ==
    /\ \A t \in Threads : Mine(t) <= allocated
    /\ \A t, u \in Threads : Mine(t) = Mine(u) => t = u \/ Mine(t) = 0

Unused == {p \in Indices : p <= allocated /\ \A t \in Threads : Mine(t) # p}
UnusedLinked == \E s \in Seq(Indices) :
    IsInjective(s) /\ ToSet(s) = Unused /\ Linked(s, pinstack.top, link, 0)

\* What a thread has seen of the stack is still so, if the version is the same.
SeenOK(t) ==
    /\ th[t].at \in {"get", "pop"} /\ th[t].seen.ver = pinstack.ver => th[t].seen = pinstack
    /\ th[t].at = "pop" /\ th[t].seen.ver = pinstack.ver => th[t].nextPins = link[th[t].seen.top]
    /\ th[t].at = "push" => link[Mine(t)] = th[t].seen.top

PinsInv == PinsDistinct /\ UnusedLinked /\ \A t \in Threads : SeenOK(t)

\* The steps that have nothing to do with this stack.
PinsSame ==
    /\ UNCHANGED pinbox
    /\ \A u \in Threads : /\ th'[u].pins = th[u].pins
                          /\ th'[u].at \in {"get", "pop", "push"} => th'[u] = th[u]

Elsewhere(t) ==
    \/ PutPins(t) \/ Drain(t)
    \/ Alloc(t) \/ ReadTop(t) \/ PinTop(t) \/ CheckTop(t) \/ Malloc(t) \/ ReadNext(t) \/ TakeTop(t)
    \/ AllocReturns(t) \/ Free(t) \/ ScanPin(t) \/ ReadTopToFree(t) \/ Chain(t) \/ GiveBack(t)
    \/ Exchange(t) \/ Protect(t) \/ LoadShared(t) \/ PinShared(t) \/ CheckShared(t)
    \/ CopyUp(t) \/ Unpin(t)

LEMMA ElsewherePinsSame ==
  ASSUME TypeInv, NEW t \in Threads, Elsewhere(t)
  PROVE  PinsSame
<1>1. UNCHANGED pinbox
  BY Zenon DEF Elsewhere, pinbox, PutPins, Drain, Alloc, ReadTop, PinTop, CheckTop, Malloc, ReadNext,
         TakeTop, AllocReturns, Free, ScanPin, ReadTopToFree, Chain, GiveBack, Exchange, Protect,
         LoadShared, PinShared, CheckShared, CopyUp, Unpin
<1>2. ASSUME NEW x, Moved(t, x), x \notin {"get", "pop", "push"} PROVE PinsSame
  BY <1>1, <1>2 DEF PinsSame, Moved
<1>3. CASE PutPins(t)
  <2>1. Go(t, "put") /\ "put" \in Labels
    BY <1>3 DEF PutPins, Labels
  <2>. QED BY <1>2, <2>1, GoEffect
<1>4. CASE Drain(t)
  BY <1>2, <1>4, DrainEffect
<1>5. CASE Alloc(t)
  <2>1. Go(t, "read") /\ "read" \in Labels
    BY <1>5 DEF Alloc, Labels
  <2>. QED BY <1>2, <2>1, GoEffect
<1>6. CASE ReadTop(t)
  BY <1>2, <1>6, ReadTopEffect
<1>7. CASE PinTop(t)
  <2>1. Go(t, "check") /\ "check" \in Labels
    BY <1>7 DEF PinTop, Labels
  <2>. QED BY <1>2, <2>1, GoEffect
<1>8. CASE CheckTop(t)
  BY <1>2, <1>8, CheckTopEffect
<1>9. CASE Malloc(t)
  <2>1. Go(t, "unpin") /\ "unpin" \in Labels
    BY <1>9 DEF Malloc, Labels
  <2>. QED BY <1>2, <2>1, GoEffect
<1>10. CASE ReadNext(t)
  BY <1>2, <1>10, ReadNextEffect
<1>11. CASE TakeTop(t)
  BY <1>2, <1>11, TakeTopEffect
<1>12. CASE AllocReturns(t)
  <2>1. Local(t, Fresh(Mine(t), "idle")) /\ "idle" \in Labels
    BY <1>12 DEF AllocReturns, Idle, Labels
  <2>. QED BY <1>2, <2>1, FreshEffect
<1>13. CASE Free(t)
  BY <1>2, <1>13, FreeEffect
<1>14. CASE ScanPin(t)
  <2>1. th[t].then \in {"idle", "put"}
    BY Fields DEF TypeInv, TypeOK
  <2>. QED BY <1>2, <1>14, <2>1, ScanPinEffect
<1>15. CASE ReadTopToFree(t)
  BY <1>2, <1>15, ReadTopToFreeEffect
<1>16. CASE Chain(t)
  <2>1. Go(t, "swap") /\ "swap" \in Labels
    BY <1>16 DEF Chain, Labels
  <2>. QED BY <1>2, <2>1, GoEffect
<1>17. CASE GiveBack(t)
  <2>1. th[t].then \in {"idle", "put"}
    BY Fields DEF TypeInv, TypeOK
  <2>. QED BY <1>2, <1>17, <2>1, GiveBackEffect
<1>18. CASE Exchange(t)
  BY <1>2, <1>18, ExchangeEffect
<1>19. CASE Protect(t)
  <2>1. Go(t, "load") /\ "load" \in Labels
    BY <1>19 DEF Protect, Labels
  <2>. QED BY <1>2, <2>1, GoEffect
<1>20. CASE LoadShared(t)
  BY <1>2, <1>20, LoadSharedEffect
<1>21. CASE PinShared(t)
  <2>1. Go(t, "again") /\ "again" \in Labels
    BY <1>21 DEF PinShared, Labels
  <2>. QED BY <1>2, <2>1, GoEffect
<1>22. CASE CheckShared(t)
  BY <1>2, <1>22, CheckSharedEffect
<1>23. CASE CopyUp(t) \/ Unpin(t)
  BY <1>1, <1>23 DEF CopyUp, Unpin, PinsSame
<1>. QED BY Zenon, <1>3, <1>4, <1>5, <1>6, <1>7, <1>8, <1>9, <1>10, <1>11, <1>12, <1>13, <1>14, <1>15, <1>16, <1>17, <1>18, <1>19, <1>20, <1>21, <1>22, <1>23 DEF Elsewhere

LEMMA PinsSameStep ==
  ASSUME PinsInv, PinsSame
  PROVE  PinsInv'
<1>1. PinsDistinct'
  BY DEF PinsInv, PinsSame, PinsDistinct, Mine, pinbox
<1>2. Unused' = Unused
  BY DEF PinsSame, Unused, Mine, pinbox
<1>3. UnusedLinked'
  BY <1>2 DEF PinsInv, PinsSame, UnusedLinked, pinbox
<1>4. ASSUME NEW u \in Threads PROVE SeenOK(u)'
  BY DEF PinsInv, PinsSame, SeenOK, Mine, pinbox
<1>. QED BY <1>1, <1>3, <1>4 DEF PinsInv

\* The invariant of the stack of unused Pins, as long as no version comes round.
LEMMA PinsStep ==
  ASSUME TypeInv, PinsInv, [Next]_vars, [NoWrap]_vars
  PROVE  PinsInv'
<1>. USE DEF Mine
<1>0. /\ pinstack \in Top /\ allocated \in Nat /\ link \in [Indices -> 0 .. MaxPins - 1]
      /\ \A u \in Threads : th[u] \in Locals /\ th[u].pins \in 0 .. MaxPins - 1
      /\ \A u \in Threads : LocalOK(th[u], own[u], held[u])
      /\ 0 \notin Indices /\ Indices \subseteq Nat
  BY Fields DEF TypeInv, TypeOK, LocalsOK, Indices
<1>1. \A u \in Threads : SeenOK(u) /\ th[u].pins <= allocated
  BY DEF PinsInv, PinsDistinct
<1>2. PICK s \in Seq(Indices) :
        IsInjective(s) /\ ToSet(s) = Unused /\ Linked(s, pinstack.top, link, 0)
  BY DEF PinsInv, UnusedLinked
<1>3. ASSUME NEW t \in Threads, Elsewhere(t) PROVE PinsInv'
  BY <1>3, ElsewherePinsSame, PinsSameStep
<1>4. ASSUME NEW t \in Threads, GetPins(t) \/ ReadLink(t) PROVE PinsInv'
  <2>1. /\ \A u \in Threads : u # t => th'[u] = th[u]
        /\ \A u \in Threads : th'[u].pins = th[u].pins
        /\ UNCHANGED pinbox
    BY <1>4, GetPinsEffect, ReadLinkEffect DEF Moved, GetPins, ReadLink
  <2>2. PinsDistinct' /\ UnusedLinked'
    BY <2>1 DEF PinsInv, PinsDistinct, UnusedLinked, Unused, pinbox
  <2>3. SeenOK(t)'
    <3>1. CASE GetPins(t)
      BY Zenon, <2>1, <3>1, GetPinsEffect DEF SeenOK, Moved, pinbox
    <3>2. CASE ReadLink(t)
      BY Zenon, <1>1, <2>1, <3>2, ReadLinkEffect DEF SeenOK, Moved, pinbox, ReadLink, At
    <3>. QED BY <1>4, <3>1, <3>2
  <2>4. \A u \in Threads : u # t => SeenOK(u)'
    BY <1>1, <2>1 DEF SeenOK, pinbox
  <2>. QED BY Zenon, <2>2, <2>3, <2>4 DEF PinsInv
<1>5. ASSUME NEW t \in Threads, NewPins(t) PROVE PinsInv'
  <2>1. /\ allocated' = allocated + 1 /\ pinstack' = pinstack /\ link' = link
        /\ th[t].at = "get" /\ th[t].pins = 0
    BY <1>0, <1>5 DEF NewPins, At, LocalOK, NoPinsYet
  <2>2. /\ \A u \in Threads : u # t => th'[u] = th[u]
        /\ th'[t].at \notin {"get", "pop", "push"}
        /\ \/ allocated + 1 < MaxPins /\ th'[t].pins = allocated + 1
           \/ ~ (allocated + 1 < MaxPins) /\ th'[t].pins = 0
    BY <1>5, NewPinsEffect
  <2>3. PinsDistinct'
    <3>1. \A u \in Threads : th'[u].pins <= allocated'
      BY <1>0, <1>1, <2>1, <2>2
    <3>2. \A u \in Threads : u # t /\ th'[u].pins = th'[t].pins => th'[u].pins = 0
      BY <1>0, <1>1, <2>2
    <3>. QED BY <2>2, <3>1, <3>2 DEF PinsInv, PinsDistinct
  <2>4. Unused' = Unused
    <3>1. ASSUME NEW p \in Indices PROVE p \in Unused' <=> p \in Unused
      <4>1. p \in Nat /\ p # 0 /\ p < MaxPins
        BY PinBoxConstants DEF Indices
      <4>2. p <= allocated + 1 /\ th'[t].pins # p <=> p <= allocated
        BY <1>0, <2>2, <4>1
      <4>. QED BY <2>1, <2>2, <4>1, <4>2 DEF Unused
    <3>. QED BY <3>1 DEF Unused
  <2>5. UnusedLinked'
    BY <1>2, <2>1, <2>4 DEF UnusedLinked
  <2>6. ASSUME NEW u \in Threads PROVE SeenOK(u)'
    BY <1>1, <2>1, <2>2 DEF SeenOK
  <2>. QED BY <2>3, <2>5, <2>6 DEF PinsInv
<1>6. ASSUME NEW t \in Threads, PopPins(t) PROVE PinsInv'
  <2>1. /\ \A u \in Threads : u # t => th'[u] = th[u]
        /\ allocated' = allocated /\ link' = link /\ th[t].at = "pop"
        /\ th[t].pins = 0 /\ th[t].seen.top # 0
    BY Zenon, <1>0, <1>6, PopPinsEffect DEF PopPins, At, LocalOK, NoPinsYet
  <2>2. CASE pinstack = th[t].seen
    <3>. DEFINE q == pinstack.top
    <3>1. /\ th'[t].pins = q /\ th'[t].at = "init" /\ q # 0
          /\ pinstack' = Pushed(link[q])
      BY <1>1, <1>6, <2>1, <2>2, PopPinsEffect DEF PopPins, SeenOK, Moved
    <3>2. /\ Tail(s) \in Seq(Indices) /\ IsInjective(Tail(s))
          /\ q \in ToSet(s) /\ ToSet(Tail(s)) = ToSet(s) \ {q}
          /\ Linked(Tail(s), link[q], link, 0)
      BY <1>0, <1>2, <3>1, LinkedPop
    <3>3. q \in Indices /\ q <= allocated /\ \A u \in Threads : th[u].pins # q
      BY <1>2, <3>2 DEF Unused
    <3>4. PinsDistinct'
      BY <2>1, <3>1, <3>3 DEF PinsInv, PinsDistinct
    <3>5. Unused' = Unused \ {q}
      BY <1>0, <2>1, <3>1 DEF Unused
    <3>6. pinstack'.top = link[q]
      BY <3>1 DEF Pushed
    <3>7. UnusedLinked'
      <4>1. ToSet(Tail(s)) = Unused' /\ Linked(Tail(s), pinstack'.top, link', 0)
        BY <1>2, <2>1, <3>2, <3>5, <3>6
      <4>. QED BY <3>2, <4>1 DEF UnusedLinked
    <3>8. ASSUME NEW u \in Threads PROVE SeenOK(u)'
      <4>1. CASE u = t
        BY <3>1, <4>1 DEF SeenOK
      <4>2. CASE u # t
        <5>1. CASE pinstack' = pinstack
          BY <1>1, <2>1, <4>2, <5>1 DEF SeenOK
        <5>2. CASE pinstack' # pinstack
          <6>1. th'[u] = th[u] /\ (th[u].at \in {"get", "pop"} => pinstack'.ver # th[u].seen.ver)
            BY <2>1, <4>2, <5>2 DEF NoWrap, At, vars, pinbox
          <6>. QED BY <1>1, <2>1, <6>1 DEF SeenOK
        <5>. QED BY <5>1, <5>2
      <4>. QED BY <4>1, <4>2
    <3>. QED BY <3>4, <3>7, <3>8 DEF PinsInv
  <2>3. CASE pinstack # th[t].seen
    <3>1. /\ pinstack' = pinstack /\ th'[t].pins = 0 /\ th'[t].at = "get" /\ th'[t].seen = pinstack
      BY <1>6, <2>1, <2>3, PopPinsEffect DEF PopPins, Moved
    <3>2. PinsDistinct' /\ Unused' = Unused
      BY <2>1, <3>1 DEF PinsInv, PinsDistinct, Unused
    <3>3. UnusedLinked'
      BY <1>2, <2>1, <3>1, <3>2 DEF UnusedLinked
    <3>4. ASSUME NEW u \in Threads PROVE SeenOK(u)'
      BY <1>1, <2>1, <3>1 DEF SeenOK
    <3>. QED BY Zenon, <3>2, <3>3, <3>4 DEF PinsInv
  <2>. QED BY Zenon, <2>2, <2>3
<1>7. ASSUME NEW t \in Threads, InitPins(t) \/ LinkPins(t) PROVE PinsInv'
  <2>1. /\ \A u \in Threads : u # t => th'[u] = th[u]
        /\ \A u \in Threads : th'[u].pins = th[u].pins
        /\ pinstack' = pinstack /\ allocated' = allocated
        /\ th[t].pins # 0
        /\ \A p \in Indices : p # th[t].pins => link'[p] = link[p]
        /\ \/ th'[t].at = "idle"
           \/ /\ th'[t].at = "push" /\ th'[t].seen = th[t].seen
              /\ link'[th[t].pins] = th'[t].seen.top
    <3>1. "idle" \in Labels /\ "push" \in Labels
      BY DEF Labels
    <3>2. th[t].pins \in Indices
      BY <1>0, <1>7 DEF InitPins, LinkPins, At, LocalOK, NoPinsYet, Indices
    <3>3. CASE InitPins(t)
      <4>1. Local(t, Fresh(Mine(t), "idle"))
        BY <3>3 DEF InitPins, Idle
      <4>2. Moved(t, "idle")
        BY <3>1, <4>1, FreshEffect
      <4>. QED BY <1>0, <3>2, <3>3, <4>2 DEF InitPins, Moved
    <3>4. CASE LinkPins(t)
      <4>1. Moved(t, "push") /\ th'[t].seen = th[t].seen
        BY <3>1, <3>4, GoEffect DEF LinkPins
      <4>. QED BY <1>0, <3>2, <3>4, <4>1 DEF LinkPins, Moved
    <3>. QED BY <1>7, <3>3, <3>4
  <2>2. PinsDistinct' /\ Unused' = Unused
    BY <2>1 DEF PinsInv, PinsDistinct, Unused
  <2>3. \A p \in ToSet(s) : link'[p] = link[p]
    BY <1>2, <2>1 DEF Unused
  <2>4. UnusedLinked'
    BY <1>2, <2>1, <2>2, <2>3, LinkedFrame DEF UnusedLinked
  <2>5. ASSUME NEW u \in Threads PROVE SeenOK(u)'
    <3>1. CASE u = t
      BY <2>1, <3>1 DEF SeenOK
    <3>2. CASE u # t
      <4>1. th'[u] = th[u] /\ SeenOK(u)
        BY <1>1, <2>1, <3>2
      <4>2. th[u].at = "pop" /\ th[u].seen.ver = pinstack.ver => link'[th[u].seen.top] = link[th[u].seen.top]
        <5>. SUFFICES ASSUME th[u].at = "pop", th[u].seen.ver = pinstack.ver
                      PROVE  link'[th[u].seen.top] = link[th[u].seen.top]
          OBVIOUS
        <5>1. th[u].seen.top = pinstack.top /\ th[u].seen.top # 0
          BY <1>0, <4>1 DEF SeenOK, LocalOK
        <5>2. pinstack.top \in ToSet(s)
          BY <1>0, <1>2, <5>1, LinkedEmpty
        <5>. QED BY <2>3, <5>1, <5>2
      <4>3. th[u].at = "push" => link'[th[u].pins] = link[th[u].pins]
        <5>. SUFFICES ASSUME th[u].at = "push" PROVE link'[th[u].pins] = link[th[u].pins]
          OBVIOUS
        <5>1. th[u].pins \in Indices /\ th[u].pins # th[t].pins
          BY <1>0, <3>2 DEF LocalOK, NoPinsYet, Indices, PinsInv, PinsDistinct
        <5>. QED BY <2>1, <5>1
      <4>. QED BY <2>1, <4>1, <4>2, <4>3 DEF SeenOK
    <3>. QED BY <3>1, <3>2
  <2>. QED BY <2>2, <2>4, <2>5 DEF PinsInv
<1>8. ASSUME NEW t \in Threads, PushPins(t) PROVE PinsInv'
  <2>. DEFINE p == th[t].pins
  <2>1. /\ \A u \in Threads : u # t => th'[u] = th[u]
        /\ allocated' = allocated /\ link' = link /\ th[t].at = "push"
        /\ p \in Indices /\ link[p] = th[t].seen.top
    <3>1. th[t].at = "push" /\ p # 0 /\ p \in 0 .. MaxPins - 1
      BY <1>0, <1>8 DEF PushPins, At, LocalOK, NoPinsYet
    <3>2. p \in Indices /\ link[p] = th[t].seen.top
      BY <1>1, <3>1 DEF Indices, SeenOK
    <3>3. \A u \in Threads : u # t => th'[u] = th[u]
      BY <1>8, PushPinsEffect
    <3>. QED BY <1>8, <3>1, <3>2, <3>3 DEF PushPins
  <2>2. CASE pinstack = th[t].seen
    <3>1. pinstack' = Pushed(p) /\ th'[t].pins = 0 /\ th'[t].at = "out"
      BY <1>8, <2>2, PushPinsEffect DEF Moved
    <3>2. PinsDistinct'
      BY <2>1, <3>1, <1>0 DEF PinsInv, PinsDistinct
    <3>3. Unused' = Unused \cup {p} /\ p \notin Unused
      <4>1. p <= allocated /\ \A u \in Threads : u # t => th'[u].pins # p
        BY <1>0, <1>1, <2>1 DEF PinsInv, PinsDistinct
      <4>. QED BY <1>0, <2>1, <3>1, <4>1 DEF Unused
    <3>4. /\ <<p>> \o s \in Seq(Indices) /\ IsInjective(<<p>> \o s)
          /\ ToSet(<<p>> \o s) = {p} \cup ToSet(s)
      BY <1>2, <2>1, <3>3, ConsProperties
    <3>5. Linked(<<p>> \o s, p, link, 0)
      BY <1>2, <2>1, <2>2, LinkedPush
    <3>6. pinstack'.top = p
      BY <3>1 DEF Pushed
    <3>7. UnusedLinked'
      BY <1>2, <2>1, <3>3, <3>4, <3>5, <3>6 DEF UnusedLinked
    <3>8. ASSUME NEW u \in Threads PROVE SeenOK(u)'
      <4>1. CASE u = t
        BY <3>1, <4>1 DEF SeenOK
      <4>2. CASE u # t
        <5>1. CASE pinstack' = pinstack
          BY <1>1, <2>1, <4>2, <5>1 DEF SeenOK
        <5>2. CASE pinstack' # pinstack
          <6>1. th'[u] = th[u] /\ (th[u].at \in {"get", "pop"} => pinstack'.ver # th[u].seen.ver)
            BY <2>1, <4>2, <5>2 DEF NoWrap, At, vars, pinbox
          <6>. QED BY <1>1, <2>1, <6>1 DEF SeenOK
        <5>. QED BY <5>1, <5>2
      <4>. QED BY <4>1, <4>2
    <3>. QED BY <3>2, <3>7, <3>8 DEF PinsInv
  <2>3. CASE pinstack # th[t].seen
    <3>1. pinstack' = pinstack /\ th'[t].pins = p /\ th'[t].at = "link"
      BY <1>8, <2>3, PushPinsEffect DEF Moved
    <3>2. PinsDistinct' /\ Unused' = Unused
      BY <2>1, <3>1 DEF PinsInv, PinsDistinct, Unused
    <3>3. UnusedLinked'
      BY <1>2, <2>1, <3>1, <3>2 DEF UnusedLinked
    <3>4. ASSUME NEW u \in Threads PROVE SeenOK(u)'
      BY <1>1, <2>1, <3>1 DEF SeenOK
    <3>. QED BY <3>2, <3>3, <3>4 DEF PinsInv
  <2>. QED BY <2>2, <2>3
<1>9. CASE UNCHANGED vars
  <2>1. PinsSame
    BY <1>9 DEF PinsSame, vars
  <2>. QED BY <2>1, PinsSameStep
<1>. QED BY <1>3, <1>4, <1>5, <1>6, <1>7, <1>8, <1>9 DEF Next, Inside, Calls, Elsewhere

LEMMA PinsInit == Init => PinsInv
<1>. SUFFICES ASSUME Init PROVE PinsInv
  OBVIOUS
<1>1. \A t \in Threads : th[t] = Outside
  BY DEF Init
<1>2. Unused = {}
  BY DEF Init, Unused, Indices
<1>3. UnusedLinked
  <2>1. <<>> \in Seq(Indices) /\ IsInjective(<<>>) /\ ToSet(<<>>) = {} /\ Len(<<>>) = 0
    BY DEF IsInjective, ToSet
  <2>2. Linked(<<>>, pinstack.top, link, 0)
    BY <2>1 DEF Linked, Init
  <2>. QED BY Zenon, <1>2, <2>1, <2>2 DEF UnusedLinked
<1>4. PinsDistinct /\ \A t \in Threads : SeenOK(t)
  BY <1>1, OutsideTyped DEF PinsDistinct, SeenOK, Mine, Init
<1>. QED BY <1>3, <1>4 DEF PinsInv

\* UnusedAt walks the stack.
LEMMA UnusedAtWalks ==
  ASSUME NEW s \in Seq(Indices), Linked(s, pinstack.top, link, 0)
  PROVE  IsWalk(UnusedAt, MaxPins, pinstack.top, link, 0)
<1>1. 0 \notin Indices /\ MaxPins \in Nat
  BY PinBoxConstants DEF Indices
<1>2. PICK f : IsWalk(f, MaxPins, pinstack.top, link, 0)
  BY <1>1, WalkExists, Zenon
<1>3. f = [n \in 0 .. MaxPins |->
             IF n = 0 THEN pinstack.top ELSE IF f[n - 1] = 0 THEN 0 ELSE link[f[n - 1]]]
  BY <1>2 DEF IsWalk
<1>. QED BY Zenon, <1>3 DEF IsWalk, UnusedAt

LEMMA PinsInvIsSafe ==
  ASSUME TypeInv, PinsInv
  PROVE  PinsInOnePlace
<1>1. PICK s \in Seq(Indices) :
        IsInjective(s) /\ ToSet(s) = Unused /\ Linked(s, pinstack.top, link, 0)
  BY DEF PinsInv, UnusedLinked
<1>2. /\ 0 \notin Indices /\ MaxPins \in Nat /\ IsFiniteSet(Indices)
      /\ Cardinality(Indices) <= MaxPins
  <2>1. 1 \in Int /\ MaxPins - 1 \in Int /\ MaxPins \in Nat \ {0}
    BY PinBoxConstants
  <2>2. /\ IsFiniteSet(1 .. MaxPins - 1)
        /\ Cardinality(1 .. MaxPins - 1) = IF 1 > MaxPins - 1 THEN 0 ELSE MaxPins - 1 - 1 + 1
    BY <2>1, FS_Interval
  <2>. QED BY <2>1, <2>2 DEF Indices
<1>3. IsWalk(UnusedAt, MaxPins, pinstack.top, link, 0)
  BY <1>1, UnusedAtWalks
<1>4. ASSUME NEW p \in Indices
      PROVE  /\ p \in Unused => \E i \in 0 .. MaxPins : {n \in 0 .. MaxPins : UnusedAt[n] = p} = {i}
             /\ p \notin Unused => {n \in 0 .. MaxPins : UnusedAt[n] = p} = {}
  BY <1>1, <1>2, <1>3, WalkOnce
<1>5. ASSUME NEW p \in Indices, p <= allocated PROVE Cardinality(Users(p)) = 1
  <2>1. CASE p \in Unused
    <3>1. PICK i \in 0 .. MaxPins : {n \in 0 .. MaxPins : UnusedAt[n] = p} = {i}
      BY <1>4, <2>1
    <3>2. {t \in Threads : Mine(t) = p} = {}
      BY <2>1 DEF Unused
    <3>3. Users(p) = {<<"stack", i>>}
      BY <3>1, <3>2 DEF Users
    <3>. QED BY <3>3, FS_Singleton
  <2>2. CASE p \notin Unused
    <3>1. {n \in 0 .. MaxPins : UnusedAt[n] = p} = {}
      BY <1>4, <2>2
    <3>2. PICK t \in Threads : Mine(t) = p
      BY <1>5, <2>2 DEF Unused
    <3>3. {u \in Threads : Mine(u) = p} = {t}
      BY <1>2, <3>2 DEF PinsInv, PinsDistinct
    <3>4. Users(p) = {<<"thread", t>>}
      BY <3>1, <3>3 DEF Users
    <3>. QED BY <3>4, FS_Singleton
  <2>. QED BY <2>1, <2>2
<1>. QED BY <1>5 DEF PinsInOnePlace

\* However get_pins and put_pins race for the top of their stack, no Pins is in use by
\* two threads and none is lost, while no version comes round (alloc_pin.cc:103-110).
THEOREM PinsStayInOnePlace == Spec /\ [][NoWrap]_vars => []PinsInOnePlace
<1>1. Init => TypeInv /\ PinsInv
  BY TypeInit, PinsInit
<1>2. TypeInv /\ PinsInv /\ [Next]_vars /\ [NoWrap]_vars => TypeInv' /\ PinsInv'
  BY TypeStep, PinsStep
<1>3. TypeInv /\ PinsInv => PinsInOnePlace
  BY PinsInvIsSafe
<1>. QED BY <1>1, <1>2, <1>3, PTL DEF Spec

-------------------------------------------------------------------------------
(* Where the objects are.                                                   *)

\* What a step of t leaves alone: the other threads, and the other Pins.
Acts(t) ==
    /\ \A u \in Threads : u # t => th'[u] = th[u] /\ own'[u] = own[u] /\ held'[u] = held[u]
    /\ \A q \in Indices : q # Mine(t) => pin'[q] = pin[q] /\ purgatory'[q] = purgatory[q]

LEMMA NextActs ==
  ASSUME TypeInv, NEW t \in Threads, Inside(t) \/ Calls(t)
  PROVE  Acts(t)
<1>1. /\ th \in [Threads -> Locals] /\ own \in [Threads -> Pointers]
      /\ held \in [Threads -> [1 .. PinCount -> Pointers]]
      /\ pin \in [Indices -> [1 .. PinCount -> Pointers]]
      /\ purgatory \in [Indices -> Seq(Objects)]
  BY DEF TypeInv, TypeOK
<1>2. ASSUME NEW l, Local(t, l) PROVE \A u \in Threads : u # t => th'[u] = th[u]
  BY <1>1, <1>2 DEF Local
<1>3. CASE GetPins(t)
  BY <1>1, <1>2, <1>3 DEF GetPins, Acts, client, allocator
<1>4. CASE NewPins(t)
  BY <1>1, <1>2, <1>4 DEF NewPins, Acts, client, allocator
<1>5. CASE ReadLink(t)
  BY <1>1, <1>2, <1>5 DEF ReadLink, Acts, client, allocator
<1>6. CASE PopPins(t)
  BY <1>1, <1>2, <1>6 DEF PopPins, Acts, client, allocator
<1>7. CASE InitPins(t)
  BY <1>1, <1>2, <1>7 DEF InitPins, Acts, client, Idle, allocator
<1>8. CASE PutPins(t)
  BY <1>1, <1>2, <1>8 DEF PutPins, Acts, client, Go, allocator
<1>9. CASE Drain(t)
  BY <1>1, <1>2, <1>9 DEF Drain, Acts, client, StartScan, allocator
<1>10. CASE LinkPins(t)
  BY <1>1, <1>2, <1>10 DEF LinkPins, Acts, client, Go, allocator
<1>11. CASE PushPins(t)
  BY <1>1, <1>2, <1>11 DEF PushPins, Acts, client, allocator
<1>12. CASE Alloc(t)
  BY <1>1, <1>2, <1>12 DEF Alloc, Acts, client, Go, allocator
<1>13. CASE ReadTop(t)
  BY <1>1, <1>2, <1>13 DEF ReadTop, Acts, client, allocator
<1>14. CASE PinTop(t)
  BY <1>1, <1>2, <1>14 DEF PinTop, Acts, client, Go, allocator
<1>15. CASE CheckTop(t)
  BY <1>1, <1>2, <1>15 DEF CheckTop, Acts, client, Go, allocator
<1>16. CASE Malloc(t)
  BY <1>1, <1>2, <1>16 DEF Malloc, Acts, client, Go
<1>17. CASE ReadNext(t)
  BY <1>1, <1>2, <1>17 DEF ReadNext, Acts, client, allocator
<1>18. CASE TakeTop(t)
  BY <1>1, <1>2, <1>18 DEF TakeTop, Acts, client
<1>19. CASE AllocReturns(t)
  BY <1>1, <1>2, <1>19 DEF AllocReturns, Acts, client, Idle, allocator
<1>20. CASE Free(t)
  BY Zenon, <1>1, <1>2, <1>20 DEF Free, Acts, client, Idle, StartScan
<1>21. CASE ScanPin(t)
  BY Zenon, <1>1, <1>2, <1>21 DEF ScanPin, Acts, client
<1>22. CASE ReadTopToFree(t)
  BY <1>1, <1>2, <1>22 DEF ReadTopToFree, Acts, client, allocator
<1>23. CASE Chain(t)
  BY <1>1, <1>2, <1>23 DEF Chain, Acts, client, Go
<1>24. CASE GiveBack(t)
  BY <1>1, <1>2, <1>24 DEF GiveBack, Acts, client
<1>25. CASE Exchange(t)
  BY <1>1, <1>2, <1>25 DEF Exchange, Acts, client, Idle, allocator
<1>26. CASE Protect(t)
  BY <1>1, <1>2, <1>26 DEF Protect, Acts, client, Go, allocator
<1>27. CASE LoadShared(t)
  BY <1>1, <1>2, <1>27 DEF LoadShared, Acts, client, allocator
<1>28. CASE PinShared(t)
  BY <1>1, <1>2, <1>28 DEF PinShared, Acts, client, Go, allocator
<1>29. CASE CheckShared(t)
  BY <1>1, <1>2, <1>29 DEF CheckShared, Acts, client, Idle, allocator
<1>30. CASE CopyUp(t)
  BY <1>1, <1>30 DEF CopyUp, Acts, client, allocator
<1>31. CASE Unpin(t)
  BY Zenon, <1>1, <1>31 DEF Unpin, Acts, client, allocator
<1>. QED BY <1>3, <1>4, <1>5, <1>6, <1>7, <1>8, <1>9, <1>10, <1>11, <1>12, <1>13, <1>14, <1>15, <1>16, <1>17, <1>18, <1>19, <1>20, <1>21, <1>22, <1>23, <1>24, <1>25, <1>26, <1>27, <1>28, <1>29, <1>30, <1>31 DEF Inside, Calls

Carries(l, x) == {o \in Objects : x = o \/ (l.at = "free" /\ l.node = o) \/ o \in ToSet(l.old)}
Carried(t) == Carries(th[t], own[t])
FreeObjects == {o \in born : /\ o # shared
                             /\ \A t \in Threads : o \notin Carried(t)
                             /\ \A p \in Indices : o \notin ToSet(purgatory[p])}

ObjectsDistinct ==
    /\ shared # Null => shared \in born
    /\ \A t \in Threads : /\ Carried(t) \subseteq born /\ shared \notin Carried(t)
                          /\ IsInjective(th[t].old)
    /\ \A p \in Indices : /\ ToSet(purgatory[p]) \subseteq born /\ shared \notin ToSet(purgatory[p])
                          /\ IsInjective(purgatory[p])
    /\ \A t, u \in Threads : t # u => Carried(t) \cap Carried(u) = {}
    /\ \A t \in Threads, p \in Indices : Carried(t) \cap ToSet(purgatory[p]) = {}
    /\ \A p, q \in Indices : p # q => ToSet(purgatory[p]) \cap ToSet(purgatory[q]) = {}
FreeLinked == \E s \in Seq(Objects) :
    IsInjective(s) /\ ToSet(s) = FreeObjects /\ Linked(s, top, next, Null)

\* A step of t after which every object is where it was.
Quiet(t) ==
    /\ UNCHANGED <<top, born, shared, own, purgatory>>
    /\ \A o \in Objects : o \in ToSet(th[t].old) \/ next'[o] = next[o]
    /\ th'[t].old = th[t].old
    /\ th[t].at \notin {"free", "scan"} /\ th'[t].at # "free"

LEMMA QuietSteps ==
  ASSUME TypeInv, NEW t \in Threads, Inside(t) \/ Calls(t)
  PROVE  \/ Quiet(t)
         \/ Free(t) \/ ScanPin(t) \/ Exchange(t)
         \/ Malloc(t) /\ own' # own
         \/ TakeTop(t) /\ top = th[t].node
         \/ Drain(t) /\ purgatory[Mine(t)] # <<>>
         \/ GiveBack(t) /\ top = th[t].node
<1>1. /\ th[t].at \notin Giving => th[t].old = <<>>
      /\ next \in [Objects -> Pointers]
  BY DEF TypeInv, TypeOK, LocalsOK, LocalOK
<1>2. ASSUME NEW x \in Labels, Go(t, x)
      PROVE  th'[t].at = x /\ th'[t].old = th[t].old
  BY <1>2, GoEffect DEF Moved, SameScan
<1>3. ASSUME NEW x \in Labels, Local(t, Fresh(Mine(t), x))
      PROVE  th'[t].at = x /\ th'[t].old = <<>>
  BY Zenon, <1>3, FreshEffect DEF Moved
<1>. USE DEF At, Giving, Quiet
<1>4. CASE GetPins(t)
  BY <1>1, <1>4, GetPinsEffect DEF GetPins, client, allocator, Moved, SameScan
<1>5. CASE NewPins(t)
  BY Zenon, <1>1, <1>5, NewPinsEffect DEF NewPins, client, allocator, Moved, SameScan
<1>6. CASE ReadLink(t)
  BY Zenon, <1>1, <1>6, ReadLinkEffect DEF ReadLink, client, allocator, Moved, SameScan
<1>7. CASE PopPins(t)
  BY <1>1, <1>7, PopPinsEffect DEF PopPins, client, allocator, Moved, SameScan
<1>8. CASE InitPins(t)
  BY <1>1, <1>3, <1>8 DEF InitPins, client, allocator, Idle, Labels
<1>9. CASE PutPins(t)
  BY Zenon, <1>1, <1>2, <1>9 DEF PutPins, client, allocator, Labels
<1>10. CASE Drain(t) /\ purgatory[Mine(t)] = <<>>
  BY Zenon, <1>1, <1>10, DrainEffect DEF Drain, client, allocator, Moved, SameScan
<1>11. CASE LinkPins(t)
  BY Zenon, <1>1, <1>2, <1>11 DEF LinkPins, client, allocator, Labels
<1>12. CASE PushPins(t)
  BY <1>1, <1>12, PushPinsEffect DEF PushPins, client, allocator, Moved, SameScan
<1>13. CASE Alloc(t)
  BY Zenon, <1>1, <1>2, <1>13 DEF Alloc, client, allocator, Labels
<1>14. CASE ReadTop(t)
  BY <1>1, <1>14, ReadTopEffect DEF ReadTop, client, allocator, Moved, SameScan
<1>15. CASE PinTop(t)
  BY <1>1, <1>2, <1>15 DEF PinTop, client, allocator, Labels
<1>16. CASE CheckTop(t)
  BY <1>1, <1>16, CheckTopEffect DEF CheckTop, client, allocator, Moved, SameScan
<1>17. CASE Malloc(t) /\ own' = own
  <2>1. own[t] = Null /\ Null \notin Objects /\ own \in [Threads -> Pointers]
    BY <1>17, PinBoxConstants DEF Malloc, TypeInv, TypeOK, LocalsOK, LocalOK
  <2>2. UNCHANGED born
    BY <1>17, <2>1 DEF Malloc
  <2>3. th'[t].at = "unpin" /\ th'[t].old = th[t].old
    BY <1>2, <1>17 DEF Malloc, Labels
  <2>. QED BY <1>17, <2>2, <2>3 DEF Malloc, allocator, client
<1>18. CASE ReadNext(t)
  BY <1>1, <1>18, ReadNextEffect DEF ReadNext, client, allocator, Moved, SameScan
<1>19. CASE TakeTop(t) /\ top # th[t].node
  BY <1>1, <1>19, TakeTopEffect DEF TakeTop, client, allocator, Moved, SameScan
<1>20. CASE AllocReturns(t)
  BY Zenon, <1>1, <1>3, <1>20 DEF AllocReturns, client, allocator, Idle, Labels
<1>21. CASE ReadTopToFree(t)
  BY <1>1, <1>21, ReadTopToFreeEffect DEF ReadTopToFree, client, allocator, Moved, SameScan
<1>22. CASE Chain(t)
  BY Zenon, <1>1, <1>2, <1>22 DEF Chain, client, allocator, Labels
<1>23. CASE GiveBack(t) /\ top # th[t].node
  BY Zenon, <1>1, <1>23, GiveBackEffect DEF GiveBack, client, allocator, Moved, SameScan
<1>24. CASE Protect(t)
  BY Zenon, <1>1, <1>2, <1>24 DEF Protect, client, allocator, Labels
<1>25. CASE LoadShared(t)
  BY <1>1, <1>25, LoadSharedEffect DEF LoadShared, client, allocator, Moved, SameScan
<1>26. CASE PinShared(t)
  BY <1>1, <1>2, <1>26 DEF PinShared, client, allocator, Labels
<1>27. CASE CheckShared(t)
  BY <1>1, <1>27, CheckSharedEffect DEF CheckShared, client, allocator, Moved, SameScan
<1>28. CASE CopyUp(t)
  BY <1>1, <1>28 DEF CopyUp, client, allocator
<1>29. CASE Unpin(t)
  BY <1>1, <1>29 DEF Unpin, client, allocator
<1>. QED BY <1>4, <1>5, <1>6, <1>7, <1>8, <1>9, <1>10, <1>11, <1>12, <1>13, <1>14, <1>15, <1>16, <1>17, <1>18, <1>19, <1>20, <1>21, <1>22, <1>23, <1>24, <1>25, <1>26, <1>27, <1>28, <1>29 DEF Inside, Calls

\* What the other threads carry does not change.
LEMMA CarriedByOthers ==
  ASSUME NEW t \in Threads, Acts(t), NEW u \in Threads, u # t
  PROVE  Carried(u)' = Carried(u)
BY DEF Acts, Carried, Carries

\* The free stack holds what it held, if the set, the top and the links did not change.
LEMMA FreeLinkedFrame ==
  ASSUME FreeLinked, FreeObjects' = FreeObjects, UNCHANGED top,
         \A o \in FreeObjects : next'[o] = next[o]
  PROVE  FreeLinked'
<1>1. PICK s \in Seq(Objects) : IsInjective(s) /\ ToSet(s) = FreeObjects /\ Linked(s, top, next, Null)
  BY DEF FreeLinked
<1>2. Linked(s, top, next', Null)
  BY <1>1, LinkedFrame
<1>. QED BY <1>1, <1>2 DEF FreeLinked

LEMMA QuietPlaces ==
  ASSUME TypeInv, ObjectsDistinct, FreeLinked, NEW t \in Threads, Acts(t), Quiet(t)
  PROVE  /\ \A u \in Threads : Carried(u)' = Carried(u)
         /\ FreeObjects' = FreeObjects
         /\ \A o \in Objects : o \in Carried(t) \/ next'[o] = next[o]
         /\ ObjectsDistinct' /\ FreeLinked'
<1>1. ASSUME NEW u \in Threads PROVE Carried(u)' = Carried(u) /\ th'[u].old = th[u].old
  <2>1. CASE u = t
    BY <2>1 DEF Quiet, Carried, Carries
  <2>2. CASE u # t
    BY <2>2, CarriedByOthers DEF Acts
  <2>. QED BY <2>1, <2>2
<1>2. FreeObjects' = FreeObjects
  BY <1>1 DEF Quiet, FreeObjects
<1>3. \A o \in Objects : o \in Carried(t) \/ next'[o] = next[o]
  BY DEF Quiet, Carried, Carries
<1>4. ObjectsDistinct'
  BY <1>1 DEF Quiet, ObjectsDistinct
<1>5. FreeLinked'
  <2>1. \A o \in FreeObjects : o \in Objects /\ o \notin Carried(t)
    BY DEF FreeObjects, TypeInv, TypeOK
  <2>. QED BY <1>2, <1>3, <2>1, FreeLinkedFrame DEF Quiet
<1>. QED BY <1>1, <1>2, <1>3, <1>4, <1>5

\* Objects pass between a thread and the purgatory of its Pins.
LEMMA PassPlaces ==
  ASSUME TypeInv, ObjectsDistinct, FreeLinked, NEW t \in Threads, Acts(t), Mine(t) \in Indices,
         UNCHANGED <<top, born, shared>>,
         Carried(t)' \cup ToSet(purgatory'[Mine(t)]) = Carried(t) \cup ToSet(purgatory[Mine(t)]),
         Carried(t)' \cap ToSet(purgatory'[Mine(t)]) = {},
         IsInjective(th'[t].old), IsInjective(purgatory'[Mine(t)]),
         \A o \in Objects : o \in Carried(t) \/ next'[o] = next[o]
  PROVE  FreeObjects' = FreeObjects /\ ObjectsDistinct' /\ FreeLinked'
<1>. DEFINE p == Mine(t)
            C(u) == Carried(u)
            D(u) == Carried(u)'
            P(q) == ToSet(purgatory[q])
            Q(q) == ToSet(purgatory'[q])
<1>1. /\ \A u \in Threads : u # t => D(u) = C(u) /\ th'[u].old = th[u].old
      /\ \A q \in Indices : q # p => Q(q) = P(q) /\ purgatory'[q] = purgatory[q]
      /\ D(t) \cup Q(p) = C(t) \cup P(p) /\ D(t) \cap Q(p) = {}
  BY CarriedByOthers DEF Acts
<1>2. FreeObjects = {o \in born : /\ o # shared
                                  /\ \A u \in Threads : o \notin C(u)
                                  /\ \A q \in Indices : o \notin P(q)}
  BY DEF FreeObjects
<1>3. FreeObjects' = {o \in born : /\ o # shared
                                   /\ \A u \in Threads : o \notin D(u)
                                   /\ \A q \in Indices : o \notin Q(q)}
  BY DEF FreeObjects
<1>4. /\ shared # Null => shared \in born
      /\ \A u \in Threads : C(u) \subseteq born /\ shared \notin C(u) /\ IsInjective(th[u].old)
      /\ \A q \in Indices : /\ P(q) \subseteq born /\ shared \notin P(q)
                            /\ IsInjective(purgatory[q])
      /\ \A u, w \in Threads : u # w => C(u) \cap C(w) = {}
      /\ \A u \in Threads, q \in Indices : C(u) \cap P(q) = {}
      /\ \A q, r \in Indices : q # r => P(q) \cap P(r) = {}
  BY DEF ObjectsDistinct
<1>. HIDE DEF C, D, P, Q
<1>5. FreeObjects' = FreeObjects
  <2>1. ASSUME NEW o \in born
        PROVE  /\ (\A u \in Threads : o \notin C(u)) /\ (\A q \in Indices : o \notin P(q))
                  => (\A u \in Threads : o \notin D(u)) /\ (\A q \in Indices : o \notin Q(q))
               /\ (\A u \in Threads : o \notin D(u)) /\ (\A q \in Indices : o \notin Q(q))
                  => (\A u \in Threads : o \notin C(u)) /\ (\A q \in Indices : o \notin P(q))
    BY <1>1
  <2>. QED BY <1>2, <1>3, <2>1
<1>6. /\ \A u \in Threads : D(u) \subseteq born /\ shared \notin D(u) /\ IsInjective(th'[u].old)
      /\ \A q \in Indices : /\ Q(q) \subseteq born /\ shared \notin Q(q)
                            /\ IsInjective(purgatory'[q])
  BY <1>1, <1>4
<1>7. \A u, w \in Threads : u # w => D(u) \cap D(w) = {}
  BY <1>1, <1>4
<1>8. \A u \in Threads, q \in Indices : D(u) \cap Q(q) = {}
  BY <1>1, <1>4
<1>9. \A q, r \in Indices : q # r => Q(q) \cap Q(r) = {}
  BY <1>1, <1>4
<1>10. ObjectsDistinct'
  BY <1>4, <1>6, <1>7, <1>8, <1>9 DEF ObjectsDistinct, D, Q
<1>11. FreeLinked'
  <2>1. \A o \in FreeObjects : o \in Objects /\ o \notin Carried(t)
    BY DEF FreeObjects, TypeInv, TypeOK
  <2>. QED BY <1>5, <2>1, FreeLinkedFrame
<1>. QED BY <1>5, <1>10, <1>11

LEMMA HasPins ==
  ASSUME TypeInv, NEW t \in Threads, th[t].at \notin NoPinsYet
  PROVE  Mine(t) \in Indices
BY Fields, PinBoxConstants DEF TypeInv, TypeOK, LocalsOK, LocalOK, Indices, Mine

LEMMA EmptyProperties == /\ <<>> \in Seq(Objects) /\ ToSet(<<>>) = {} /\ IsInjective(<<>>)
BY DEF ToSet, IsInjective

\* What a thread carries, by its label.
LEMMA CarriesIs ==
  ASSUME NEW l \in Locals, NEW x \in Pointers, NEW h, LocalOK(l, x, h)
  PROVE  /\ l.at = "free" => Carries(l, x) = {l.node} /\ l.node \in Objects /\ x = Null
         /\ l.at \in Giving => Carries(l, x) = ToSet(l.old) /\ x = Null
         /\ l.at \notin Giving \cup {"free"} /\ x = Null => Carries(l, x) = {}
         /\ x # Null => Carries(l, x) = {x} /\ x \in Objects
<1>1. l.node \in Pointers /\ l.old \in Seq(Objects) /\ Null \notin Objects
  BY Fields, PinBoxConstants
<1>2. ToSet(l.old) \subseteq Objects /\ ToSet(<<>>) = {}
  BY <1>1, ToSetIs, EmptyProperties
<1>. QED BY <1>1, <1>2 DEF Carries, LocalOK, Giving, Pointers

LEMMA CarriedIs ==
  ASSUME TypeInv, NEW t \in Threads
  PROVE  /\ th[t].at = "free" => /\ Carried(t) = {th[t].node} /\ th[t].node \in Objects
                                 /\ own[t] = Null
         /\ th[t].at \in Giving => Carried(t) = ToSet(th[t].old) /\ own[t] = Null
         /\ th[t].at \notin Giving \cup {"free"} /\ own[t] = Null => Carried(t) = {}
         /\ own[t] # Null => Carried(t) = {own[t]} /\ own[t] \in Objects
<1>1. th[t] \in Locals /\ own[t] \in Pointers /\ LocalOK(th[t], own[t], held[t])
  BY DEF TypeInv, TypeOK, LocalsOK
<1>. QED BY <1>1, CarriesIs DEF Carried

LEMMA CarriedNext ==
  ASSUME TypeInv', NEW t \in Threads
  PROVE  /\ th'[t].at = "free" => /\ Carried(t)' = {th'[t].node} /\ th'[t].node \in Objects
                                  /\ own'[t] = Null
         /\ th'[t].at \in Giving => Carried(t)' = ToSet(th'[t].old) /\ own'[t] = Null
         /\ th'[t].at \notin Giving \cup {"free"} /\ own'[t] = Null => Carried(t)' = {}
         /\ own'[t] # Null => Carried(t)' = {own'[t]} /\ own'[t] \in Objects
<1>1. th'[t] \in Locals /\ own'[t] \in Pointers /\ LocalOK(th'[t], own'[t], held'[t])
  BY DEF TypeInv, TypeOK, LocalsOK
<1>. QED BY <1>1, CarriesIs DEF Carried

LEMMA FreePlaces ==
  ASSUME TypeInv, TypeInv', ObjectsDistinct, FreeLinked, NEW t \in Threads, Acts(t), Free(t)
  PROVE  /\ FreeObjects' = FreeObjects /\ ObjectsDistinct' /\ FreeLinked'
         /\ \A o \in Objects : o \in Carried(t) \/ next'[o] = next[o]
<1>. DEFINE p == Mine(t)
            new == <<th[t].node>> \o purgatory[p]
<1>1. /\ th[t].at = "free" /\ UNCHANGED <<top, born, shared, own>>
      /\ next' = [next EXCEPT ![th[t].node] = First(purgatory[p])]
  BY DEF Free, At, client
<1>2. p \in Indices
  BY <1>1, HasPins DEF NoPinsYet
<1>3. Carried(t) = {th[t].node} /\ th[t].node \in Objects /\ own[t] = Null
  BY <1>1, CarriedIs
<1>4. /\ purgatory \in [Indices -> Seq(Objects)] /\ next \in [Objects -> Pointers]
      /\ purgatory[p] \in Seq(Objects)
  BY <1>2 DEF TypeInv, TypeOK
<1>5. th[t].node \notin ToSet(purgatory[p]) /\ IsInjective(purgatory[p])
  BY <1>2, <1>3 DEF ObjectsDistinct
<1>6. /\ new \in Seq(Objects) /\ IsInjective(new)
      /\ ToSet(new) = Carried(t) \cup ToSet(purgatory[p])
  BY <1>3, <1>4, <1>5, ConsProperties
<1>7. \A o \in Objects : o \in Carried(t) \/ next'[o] = next[o]
  BY <1>1, <1>3, <1>4
<1>. HIDE DEF new
<1>8. /\ \/ th'[t].old = new /\ th'[t].at = "scan" /\ purgatory'[p] = <<>>
         \/ th'[t].old = <<>> /\ th'[t].at = "idle" /\ purgatory'[p] = new
  BY <1>2, <1>4, FreeEffect DEF new, Moved
<1>9. /\ Carried(t)' \cup ToSet(purgatory'[p]) = Carried(t) \cup ToSet(purgatory[p])
      /\ Carried(t)' \cap ToSet(purgatory'[p]) = {}
      /\ IsInjective(th'[t].old) /\ IsInjective(purgatory'[p])
  <2>1. th'[t].at \in Giving => Carried(t)' = ToSet(th'[t].old)
    BY CarriedNext
  <2>2. th'[t].at = "idle" => Carried(t)' = {}
    BY <1>1, <1>3, CarriedNext DEF Giving
  <2>. QED BY <1>6, <1>8, <2>1, <2>2, EmptyProperties DEF Giving
<1>10. UNCHANGED <<top, born, shared>>
  BY <1>1
<1>. HIDE DEF p
<1>. QED BY <1>2, <1>7, <1>9, <1>10, PassPlaces DEF p

LEMMA DrainPlaces ==
  ASSUME TypeInv, TypeInv', ObjectsDistinct, FreeLinked, NEW t \in Threads, Acts(t), Drain(t),
         purgatory[Mine(t)] # <<>>
  PROVE  /\ FreeObjects' = FreeObjects /\ ObjectsDistinct' /\ FreeLinked'
         /\ UNCHANGED next
<1>. DEFINE p == Mine(t)
<1>1. th[t].at = "put" /\ UNCHANGED <<top, born, shared, own, next>>
  BY DEF Drain, At, client, allocator
<1>2. p \in Indices
  BY <1>1, HasPins DEF NoPinsYet
<1>3. purgatory \in [Indices -> Seq(Objects)] /\ own[t] = Null
  BY <1>1 DEF TypeInv, TypeOK, LocalsOK, LocalOK
<1>4. th'[t].old = purgatory[p] /\ th'[t].at = "scan" /\ purgatory'[p] = <<>>
  BY <1>2, <1>3, DrainEffect DEF Moved
<1>5. Carried(t) = {} /\ Carried(t)' = ToSet(purgatory[p])
  <2>1. Carried(t) = {}
    BY <1>1, <1>3, CarriedIs DEF Giving
  <2>2. Carried(t)' = ToSet(th'[t].old)
    BY <1>4, CarriedNext DEF Giving
  <2>. QED BY <1>4, <2>1, <2>2
<1>6. IsInjective(purgatory[p])
  BY <1>2 DEF ObjectsDistinct
<1>7. /\ Carried(t)' \cup ToSet(purgatory'[p]) = Carried(t) \cup ToSet(purgatory[p])
      /\ Carried(t)' \cap ToSet(purgatory'[p]) = {}
      /\ IsInjective(th'[t].old) /\ IsInjective(purgatory'[p])
  BY <1>4, <1>5, <1>6, EmptyProperties
<1>8. UNCHANGED <<top, born, shared>> /\ \A o \in Objects : next'[o] = next[o]
  BY <1>1
<1>. HIDE DEF p
<1>. QED BY <1>1, <1>2, <1>7, <1>8, PassPlaces DEF p

LEMMA ScanPinPlaces ==
  ASSUME TypeInv, TypeInv', ObjectsDistinct, FreeLinked, NEW t \in Threads, Acts(t), ScanPin(t)
  PROVE  /\ FreeObjects' = FreeObjects /\ ObjectsDistinct' /\ FreeLinked'
         /\ \A o \in Objects : o \in Carried(t) \/ next'[o] = next[o]
         /\ ToSet(th'[t].old) = ToSet(th[t].old) \ {pin[th[t].slot[1]][th[t].slot[2]]}
<1>. DEFINE p == Mine(t)
            v == pin[th[t].slot[1]][th[t].slot[2]]
<1>1. /\ th[t].at = "scan" /\ UNCHANGED <<top, born, shared, own>>
      /\ IF v \in ToSet(th[t].old)
         THEN /\ purgatory' = [purgatory EXCEPT ![p] = <<v>> \o @]
              /\ next' = [next EXCEPT ![v] = First(purgatory[p])]
         ELSE UNCHANGED <<purgatory, next>>
  BY Zenon DEF ScanPin, At, client
<1>2. p \in Indices
  BY <1>1, HasPins DEF NoPinsYet
<1>3. /\ purgatory \in [Indices -> Seq(Objects)] /\ next \in [Objects -> Pointers]
      /\ purgatory[p] \in Seq(Objects) /\ th[t].old \in Seq(Objects)
  BY Zenon, <1>2, Fields DEF TypeInv, TypeOK
<1>4. Carried(t) = ToSet(th[t].old) /\ own[t] = Null /\ own' = own
  BY <1>1, CarriedIs DEF Giving
<1>5. /\ IsInjective(purgatory[p]) /\ IsInjective(th[t].old)
      /\ ToSet(th[t].old) \cap ToSet(purgatory[p]) = {}
      /\ ToSet(th[t].old) \subseteq Objects
  BY <1>2, <1>3, <1>4, ToSetIs DEF ObjectsDistinct
<1>. HIDE DEF v
<1>6. th'[t].old = (IF v \in ToSet(th[t].old)
                    THEN RemoveAt(th[t].old, Position(th[t].old, v)) ELSE th[t].old)
  BY ScanPinEffect DEF v
<1>7. ToSet(th'[t].old) = ToSet(th[t].old) \ {v} /\ IsInjective(th'[t].old)
  <2>1. CASE v \in ToSet(th[t].old)
    <3>1. Position(th[t].old, v) \in 1 .. Len(th[t].old) /\ th[t].old[Position(th[t].old, v)] = v
      BY <1>3, <2>1, PositionIs
    <3>. QED BY <1>3, <1>5, <1>6, <2>1, <3>1, RemoveProperties
  <2>2. CASE v \notin ToSet(th[t].old)
    BY <1>5, <1>6, <2>2
  <2>. QED BY <2>1, <2>2
<1>8. Carried(t)' = ToSet(th'[t].old)
  <2>1. own'[t] = Null /\ th'[t].at # "free"
    <3>1. th[t].then \in {"idle", "put"}
      BY Fields DEF TypeInv, TypeOK
    <3>. QED BY <1>4, <3>1, ScanPinEffect DEF Moved
  <2>2. CASE th'[t].at \in Giving
    BY <2>2, CarriedNext
  <2>3. CASE th'[t].at \notin Giving
    <3>1. th'[t].old = <<>>
      BY <2>3 DEF TypeInv, LocalsOK, LocalOK
    <3>. QED BY <2>1, <2>3, <3>1, CarriedNext, EmptyProperties
  <2>. QED BY <2>2, <2>3
<1>9. /\ Carried(t)' \cup ToSet(purgatory'[p]) = Carried(t) \cup ToSet(purgatory[p])
      /\ Carried(t)' \cap ToSet(purgatory'[p]) = {}
      /\ IsInjective(purgatory'[p])
      /\ \A o \in Objects : o \in Carried(t) \/ next'[o] = next[o]
  <2>1. CASE v \in ToSet(th[t].old)
    <3>1. v \in Objects /\ v \notin ToSet(purgatory[p])
      BY <1>5, <2>1
    <3>2. purgatory'[p] = <<v>> \o purgatory[p]
      BY <1>1, <1>2, <1>3, <2>1
    <3>3. ToSet(purgatory'[p]) = {v} \cup ToSet(purgatory[p]) /\ IsInjective(purgatory'[p])
      BY <1>3, <1>5, <3>1, <3>2, ConsProperties
    <3>4. \A o \in Objects : o = v \/ next'[o] = next[o]
      BY <1>1, <1>3, <2>1, <3>1
    <3>. QED BY <1>4, <1>5, <1>7, <1>8, <2>1, <3>1, <3>3, <3>4
  <2>2. CASE v \notin ToSet(th[t].old)
    <3>1. purgatory' = purgatory /\ next' = next
      BY <1>1, <2>2
    <3>. QED BY <1>4, <1>5, <1>7, <1>8, <2>2, <3>1
  <2>. QED BY <2>1, <2>2
<1>10. UNCHANGED <<top, born, shared>>
  BY <1>1
<1>11. FreeObjects' = FreeObjects /\ ObjectsDistinct' /\ FreeLinked'
  <2>. HIDE DEF p
  <2>. QED BY <1>2, <1>7, <1>9, <1>10, PassPlaces DEF p
<1>. QED BY Zenon, <1>7, <1>9, <1>11 DEF v

\* A step of t that leaves the purgatories alone: the objects of the others stay.
LEMMA OthersKeep ==
  ASSUME ObjectsDistinct, NEW t \in Threads, Acts(t), UNCHANGED purgatory, born \subseteq born',
         \A u \in Threads : u # t => shared' \notin Carried(u),
         \A p \in Indices : shared' \notin ToSet(purgatory[p]),
         \A u \in Threads : u # t => Carried(t)' \cap Carried(u) = {},
         \A p \in Indices : Carried(t)' \cap ToSet(purgatory[p]) = {},
         shared' # Null => shared' \in born',
         Carried(t)' \subseteq born', shared' \notin Carried(t)', IsInjective(th'[t].old)
  PROVE  ObjectsDistinct'
<1>. DEFINE C(u) == Carried(u)
            D(u) == Carried(u)'
<1>1. \A u \in Threads : u # t => D(u) = C(u) /\ th'[u].old = th[u].old
  BY CarriedByOthers DEF Acts
<1>2. /\ \A u \in Threads : C(u) \subseteq born /\ shared \notin C(u) /\ IsInjective(th[u].old)
      /\ \A u, w \in Threads : u # w => C(u) \cap C(w) = {}
      /\ \A u \in Threads, q \in Indices : C(u) \cap ToSet(purgatory[q]) = {}
  BY DEF ObjectsDistinct
<1>3. /\ \A u \in Threads : u # t => D(t) \cap C(u) = {}
      /\ \A p \in Indices : D(t) \cap ToSet(purgatory[p]) = {}
      /\ D(t) \subseteq born' /\ shared' \notin D(t)
  OBVIOUS
<1>. HIDE DEF C, D
<1>4. \A u \in Threads : D(u) \subseteq born' /\ shared' \notin D(u) /\ IsInjective(th'[u].old)
  <2>1. \A u \in Threads : u # t => shared' \notin C(u)
    BY DEF C
  <2>. QED BY <1>1, <1>2, <1>3, <2>1
<1>5. \A u, w \in Threads : u # w => D(u) \cap D(w) = {}
  BY <1>1, <1>2, <1>3
<1>6. \A u \in Threads, q \in Indices : D(u) \cap ToSet(purgatory[q]) = {}
  BY <1>1, <1>2, <1>3
<1>7. \A p \in Indices : /\ ToSet(purgatory'[p]) \subseteq born' /\ shared' \notin ToSet(purgatory'[p])
                         /\ IsInjective(purgatory'[p])
  BY DEF ObjectsDistinct
<1>. QED BY <1>4, <1>5, <1>6, <1>7 DEF ObjectsDistinct, D

LEMMA ExchangePlaces ==
  ASSUME TypeInv, TypeInv', ObjectsDistinct, FreeLinked, NEW t \in Threads, Acts(t), Exchange(t)
  PROVE  FreeObjects' = FreeObjects /\ ObjectsDistinct' /\ FreeLinked'
<1>1. /\ th[t].at = "idle" /\ UNCHANGED <<purgatory, born, top, next>> /\ shared' = own[t]
      /\ own' = [own EXCEPT ![t] = Null]
  BY DEF Exchange, At, allocator
<1>2. /\ own \in [Threads -> Pointers] /\ shared \in Pointers /\ Null \notin Objects
      /\ born \subseteq Objects /\ th[t].old = <<>>
  BY <1>1, PinBoxConstants DEF TypeInv, TypeOK, LocalsOK, LocalOK, Giving
<1>3. Carried(t) = {own[t]} \ {Null}
  BY <1>1, <1>2, CarriedIs DEF Giving
<1>4. th'[t].old = <<>> /\ Carried(t)' = {shared} \ {Null}
  <2>1. own'[t] = Null
    BY <1>1, <1>2
  <2>2. \/ shared = Null /\ th'[t].at = "idle" /\ th'[t].old = <<>>
        \/ shared # Null /\ th'[t].at = "free" /\ th'[t].node = shared /\ th'[t].old = <<>>
    BY <1>2, ExchangeEffect DEF Moved, SameScan
  <2>. QED BY <2>1, <2>2, CarriedNext DEF Giving
<1>5. FreeObjects' = FreeObjects
  <2>1. ASSUME NEW o \in born
        PROVE  /\ o # shared /\ (\A u \in Threads : o \notin Carried(u))
                  => o # shared' /\ \A u \in Threads : o \notin Carried(u)'
               /\ o # shared' /\ (\A u \in Threads : o \notin Carried(u)')
                  => o # shared /\ \A u \in Threads : o \notin Carried(u)
    <3>1. \A u \in Threads : u # t => Carried(u)' = Carried(u)
      BY CarriedByOthers
    <3>2. o # Null
      BY <1>2
    <3>. QED BY <1>1, <1>3, <1>4, <3>1, <3>2
  <2>. QED BY <1>1, <2>1 DEF FreeObjects
<1>6. ObjectsDistinct'
  <2>1. /\ \A u \in Threads : u # t => own[t] \notin Carried(u)
        /\ \A p \in Indices : own[t] \notin ToSet(purgatory[p])
        /\ own[t] # Null => own[t] \in born /\ own[t] # shared
    <3>1. Null \notin Carried(t) /\ \A u \in Threads : Null \notin Carried(u)
      BY <1>2 DEF Carried, Carries
    <3>2. \A p \in Indices : Null \notin ToSet(purgatory[p])
      BY <1>2 DEF ObjectsDistinct
    <3>. QED BY <1>3, <3>1, <3>2 DEF ObjectsDistinct
  <2>2. /\ \A u \in Threads : u # t => Carried(t)' \cap Carried(u) = {}
        /\ \A p \in Indices : Carried(t)' \cap ToSet(purgatory[p]) = {}
        /\ Carried(t)' \subseteq born
    BY <1>4 DEF ObjectsDistinct
  <2>3. shared' \notin Carried(t)'
    BY <1>1, <1>4, <2>1
  <2>4. /\ \A u \in Threads : u # t => shared' \notin Carried(u)
        /\ \A p \in Indices : shared' \notin ToSet(purgatory[p])
        /\ shared' # Null => shared' \in born'
        /\ Carried(t)' \subseteq born' /\ born \subseteq born' /\ UNCHANGED purgatory
    BY <1>1, <2>1, <2>2
  <2>. QED BY <1>4, <2>2, <2>3, <2>4, OthersKeep, EmptyProperties
<1>7. FreeLinked'
  BY <1>1, <1>5, FreeLinkedFrame
<1>. QED BY <1>5, <1>6, <1>7

LEMMA MallocPlaces ==
  ASSUME TypeInv, TypeInv', ObjectsDistinct, FreeLinked, NEW t \in Threads, Acts(t), Malloc(t),
         own' # own
  PROVE  /\ FreeObjects' = FreeObjects /\ ObjectsDistinct' /\ FreeLinked'
         /\ own'[t] \in Objects \ born /\ th'[t].old = th[t].old /\ UNCHANGED next
<1>1. PICK o \in Objects \ born : born' = born \cup {o} /\ own' = [own EXCEPT ![t] = o]
  BY DEF Malloc
<1>2. th[t].at = "malloc" /\ UNCHANGED <<shared, top, next, purgatory>> /\ Go(t, "unpin")
  BY DEF Malloc, At
<1>3. /\ own \in [Threads -> Pointers] /\ own[t] = Null /\ th[t].old = <<>>
      /\ Null \notin Objects /\ born \subseteq Objects
  BY <1>2, PinBoxConstants DEF TypeInv, TypeOK, LocalsOK, LocalOK, Giving
<1>4. th'[t].old = <<>>
  BY <1>2, <1>3, GoEffect DEF Labels, SameScan
<1>5. Carried(t) = {} /\ Carried(t)' = {o} /\ own'[t] = o
  <2>1. own'[t] = o
    BY <1>1, <1>3
  <2>. QED BY <1>2, <1>3, <2>1, CarriedIs, CarriedNext DEF Giving
<1>6. /\ shared \notin Objects \ born
      /\ \A u \in Threads : o \notin Carried(u)
      /\ \A p \in Indices : o \notin ToSet(purgatory[p])
  <2>1. shared \in Pointers /\ (shared # Null => shared \in born)
    BY DEF TypeInv, TypeOK, ObjectsDistinct
  <2>. QED BY <1>3, <2>1 DEF ObjectsDistinct, Pointers
<1>7. FreeObjects' = FreeObjects
  <2>1. ASSUME NEW x
        PROVE  /\ x \in FreeObjects => x \in FreeObjects'
               /\ x \in FreeObjects' => x \in FreeObjects
    <3>1. \A u \in Threads : u # t => Carried(u)' = Carried(u)
      BY CarriedByOthers
    <3>. QED BY <1>1, <1>2, <1>5, <3>1 DEF FreeObjects
  <2>. QED BY <2>1
<1>8. ObjectsDistinct'
  <2>1. /\ \A u \in Threads : u # t => Carried(t)' \cap Carried(u) = {}
        /\ \A p \in Indices : Carried(t)' \cap ToSet(purgatory[p]) = {}
        /\ shared' # Null => shared' \in born'
        /\ Carried(t)' \subseteq born' /\ born \subseteq born' /\ UNCHANGED purgatory
        /\ shared' \notin Carried(t)'
    BY <1>1, <1>2, <1>5, <1>6 DEF ObjectsDistinct
  <2>2. /\ \A u \in Threads : u # t => shared' \notin Carried(u)
        /\ \A p \in Indices : shared' \notin ToSet(purgatory[p])
    BY <1>2 DEF ObjectsDistinct
  <2>. QED BY <1>4, <2>1, <2>2, OthersKeep, EmptyProperties
<1>9. FreeLinked'
  BY <1>2, <1>7, FreeLinkedFrame
<1>. QED BY <1>2, <1>3, <1>4, <1>5, <1>7, <1>8, <1>9

LEMMA TakeTopPlaces ==
  ASSUME TypeInv, TypeInv', ObjectsDistinct, FreeLinked, NEW t \in Threads, Acts(t), TakeTop(t),
         top = th[t].node, top \in FreeObjects => th[t].nextNode = next[top]
  PROVE  /\ top \in FreeObjects /\ FreeObjects' = FreeObjects \ {top} /\ ObjectsDistinct' /\ FreeLinked'
         /\ own'[t] = top /\ th'[t].old = <<>> /\ UNCHANGED next
<1>1. /\ th[t].at = "take" /\ UNCHANGED <<shared, next, purgatory, born>> /\ top' = th[t].nextNode
      /\ own' = [own EXCEPT ![t] = top]
  BY DEF TakeTop, At
<1>2. /\ own \in [Threads -> Pointers] /\ own[t] = Null /\ top # Null /\ Null \notin Objects
      /\ born \subseteq Objects
  BY <1>1, PinBoxConstants DEF TypeInv, TypeOK, LocalsOK, LocalOK
<1>3. PICK s \in Seq(Objects) : IsInjective(s) /\ ToSet(s) = FreeObjects /\ Linked(s, top, next, Null)
  BY DEF FreeLinked
<1>4. /\ Tail(s) \in Seq(Objects) /\ IsInjective(Tail(s))
      /\ top \in ToSet(s) /\ ToSet(Tail(s)) = ToSet(s) \ {top}
      /\ Linked(Tail(s), next[top], next, Null)
  BY <1>2, <1>3, LinkedPop
<1>5. top \in FreeObjects /\ top \in born /\ top' = next[top] /\ own'[t] = top
  BY <1>1, <1>2, <1>3, <1>4 DEF FreeObjects
<1>6. th'[t].old = <<>> /\ th'[t].at = "unpin"
  BY TakeTopEffect DEF Moved
<1>7. Carried(t) = {} /\ Carried(t)' = {top}
  BY <1>1, <1>2, <1>5, CarriedIs, CarriedNext DEF Giving
<1>8. FreeObjects' = FreeObjects \ {top}
  <2>1. ASSUME NEW x
        PROVE  /\ x \in FreeObjects \ {top} => x \in FreeObjects'
               /\ x \in FreeObjects' => x \in FreeObjects \ {top}
    <3>1. \A u \in Threads : u # t => Carried(u)' = Carried(u)
      BY CarriedByOthers
    <3>. QED BY <1>1, <1>7, <3>1 DEF FreeObjects
  <2>. QED BY <2>1
<1>9. ObjectsDistinct'
  <2>1. /\ \A u \in Threads : u # t => Carried(t)' \cap Carried(u) = {}
        /\ \A p \in Indices : Carried(t)' \cap ToSet(purgatory[p]) = {}
        /\ Carried(t)' \subseteq born' /\ born \subseteq born' /\ UNCHANGED purgatory
        /\ shared' \notin Carried(t)'
    BY <1>1, <1>5, <1>7 DEF FreeObjects
  <2>2. /\ \A u \in Threads : u # t => shared' \notin Carried(u)
        /\ \A p \in Indices : shared' \notin ToSet(purgatory[p])
        /\ shared' # Null => shared' \in born'
    BY <1>1 DEF ObjectsDistinct
  <2>. QED BY <1>6, <2>1, <2>2, OthersKeep, EmptyProperties
<1>10. FreeLinked'
  <2>1. ToSet(Tail(s)) = FreeObjects' /\ Linked(Tail(s), top', next', Null)
    BY <1>1, <1>3, <1>4, <1>5, <1>8
  <2>. QED BY <1>4, <2>1 DEF FreeLinked
<1>. QED BY <1>1, <1>5, <1>6, <1>8, <1>9, <1>10

LEMMA GiveBackPlaces ==
  ASSUME TypeInv, TypeInv', ObjectsDistinct, FreeLinked, NEW t \in Threads, Acts(t), GiveBack(t),
         top = th[t].node, Linked(th[t].old, Head(th[t].old), next, th[t].node)
  PROVE  /\ FreeObjects' = FreeObjects \cup ToSet(th[t].old) /\ ObjectsDistinct' /\ FreeLinked'
         /\ th'[t].old = <<>> /\ UNCHANGED <<next, own>>
<1>. DEFINE a == th[t].old
<1>1. th[t].at = "swap" /\ UNCHANGED <<shared, next, purgatory, born, own>>
  BY DEF GiveBack, At, client
<1>2. /\ a \in Seq(Objects) /\ a # <<>> /\ Null \notin Objects
      /\ th[t].then \in {"idle", "put"}
  BY <1>1, Fields, PinBoxConstants DEF TypeInv, TypeOK, LocalsOK, LocalOK, Giving
<1>3. PICK s \in Seq(Objects) : IsInjective(s) /\ ToSet(s) = FreeObjects /\ Linked(s, top, next, Null)
  BY DEF FreeLinked
<1>4. Carried(t) = ToSet(a) /\ own[t] = Null
  BY <1>1, CarriedIs DEF Giving
<1>5. top' = a[1] /\ th'[t].old = <<>> /\ Carried(t)' = {}
  <2>1. top' = Head(a) /\ th'[t].old = <<>> /\ th'[t].at = th[t].then
    BY <1>2, GiveBackEffect DEF Moved
  <2>. QED BY <1>1, <1>2, <1>4, <2>1, CarriedNext DEF Giving
<1>6. /\ a \o s \in Seq(Objects) /\ IsInjective(a \o s) /\ ToSet(a \o s) = ToSet(a) \cup ToSet(s)
      /\ Linked(a \o s, a[1], next, Null)
  <2>1. IsInjective(a) /\ ToSet(a) \cap ToSet(s) = {}
    BY <1>3, <1>4 DEF ObjectsDistinct, FreeObjects
  <2>2. Linked(a, a[1], next, top)
    BY <1>2
  <2>. HIDE DEF a
  <2>. QED BY <1>2, <1>3, <2>1, <2>2, LinkedConcat
<1>7. FreeObjects' = FreeObjects \cup ToSet(a)
  <2>1. ASSUME NEW x
        PROVE  /\ x \in FreeObjects \cup ToSet(a) => x \in FreeObjects'
               /\ x \in FreeObjects' => x \in FreeObjects \cup ToSet(a)
    <3>1. \A u \in Threads : u # t => Carried(u)' = Carried(u)
      BY CarriedByOthers
    <3>2. x \in ToSet(a) => /\ x \in born /\ x # shared
                            /\ \A u \in Threads : u # t => x \notin Carried(u)
                            /\ \A p \in Indices : x \notin ToSet(purgatory[p])
      BY <1>4 DEF ObjectsDistinct
    <3>. QED BY <1>1, <1>4, <1>5, <3>1, <3>2 DEF FreeObjects
  <2>. QED BY <2>1
<1>8. ObjectsDistinct'
  <2>1. /\ \A u \in Threads : u # t => shared' \notin Carried(u)
        /\ \A p \in Indices : shared' \notin ToSet(purgatory[p])
        /\ shared' # Null => shared' \in born'
        /\ born \subseteq born' /\ UNCHANGED purgatory
    BY <1>1 DEF ObjectsDistinct
  <2>. QED BY <1>5, <2>1, OthersKeep, EmptyProperties
<1>9. FreeLinked'
  <2>1. ToSet(a \o s) = FreeObjects' /\ Linked(a \o s, top', next', Null)
    BY <1>1, <1>3, <1>5, <1>6, <1>7
  <2>. HIDE DEF a
  <2>. QED BY <1>6, <2>1 DEF FreeLinked
<1>. QED BY <1>1, <1>5, <1>7, <1>8, <1>9

-------------------------------------------------------------------------------
(* What keeps the pinned objects.                                           *)

\* The scan with local variables l may have o in its list only before it has
\* compared it with pin i of the Pins q.
AtOrBefore(a, b) == a[1] < b[1] \/ (a[1] = b[1] /\ a[2] <= b[2])
Before(l, q, i, o) == o \in ToSet(l.old) => l.at = "scan" /\ AtOrBefore(l.slot, <<q, i>>)

\* o is pinned by t, which has seen it where it was after it was pinned.
Watches(t, i, o) == \/ held[t][i] = o
                    \/ i = 1 /\ th[t].at \in {"next", "take"} /\ th[t].node = o
Watched(t, i, o) ==
    /\ o \in born
    /\ pin[Mine(t)][i] = o
    /\ \A u \in Threads : Before(th[u], Mine(t), i, o)
WatchOK == \A t \in Threads, i \in 1 .. PinCount, o \in Objects : Watches(t, i, o) => Watched(t, i, o)

PinnedOK(t) == th[t].at \in {"check", "again"} => pin[Mine(t)][1] = th[t].node
TakeOK(t) == th[t].at = "take" /\ th[t].node \in FreeObjects => th[t].nextNode = next[th[t].node]
SwapOK(t) == th[t].at = "swap" => Linked(th[t].old, Head(th[t].old), next, th[t].node)
HeldOK == \A t \in Threads, i \in 1 .. PinCount : held[t][i] # Null =>
    held[t][i] \notin FreeObjects /\ \A u \in Threads : own[u] # held[t][i]

ObjectsInv == /\ ObjectsDistinct /\ FreeLinked /\ WatchOK /\ HeldOK
              /\ \A t \in Threads : PinnedOK(t) /\ TakeOK(t) /\ SwapOK(t)

LEMMA ScanGoesOn ==
  ASSUME TypeInv, NEW t \in Threads, ScanPin(t),
         ToSet(th'[t].old) = ToSet(th[t].old) \ {pin[th[t].slot[1]][th[t].slot[2]]},
         NEW q \in Indices, NEW i \in 1 .. PinCount, NEW o \in Objects,
         pin[q][i] = o, Before(th[t], q, i, o)
  PROVE  Before(th'[t], q, i, o)
<1>. SUFFICES ASSUME o \in ToSet(th'[t].old)
              PROVE  th'[t].at = "scan" /\ AtOrBefore(th'[t].slot, <<q, i>>)
  BY DEF Before
<1>. DEFINE a == th[t].slot
<1>1. AtOrBefore(a, <<q, i>>) /\ o # pin[a[1]][a[2]]
  BY DEF Before
<1>2. /\ a \in Slots /\ a[1] \in Nat /\ a[2] \in Nat /\ a[1] <= MaxPins - 1 /\ a[2] <= PinCount
      /\ q \in Nat /\ i \in Nat /\ q <= MaxPins - 1 /\ i <= PinCount /\ 1 <= i
      /\ PinCount \in Nat /\ MaxPins \in Nat
  BY Fields, PinBoxConstants DEF TypeInv, TypeOK, Slots, Indices
<1>3. a[1] < q \/ (a[1] = q /\ a[2] < i)
  BY <1>1, <1>2 DEF AtOrBefore
<1>4. a # LastSlot /\ AtOrBefore(NextSlot(a), <<q, i>>)
  BY <1>2, <1>3 DEF LastSlot, NextSlot, AtOrBefore
<1>5. th'[t].old # <<>>
  BY EmptyProperties
<1>. QED BY <1>4, <1>5, ScanPinEffect DEF Moved

LEMMA ScanStarts ==
  ASSUME NEW q \in Indices, NEW i \in 1 .. PinCount
  PROVE  AtOrBefore(<<1, 1>>, <<q, i>>)
BY PinBoxConstants DEF Indices, AtOrBefore

LEMMA PlacesStep ==
  ASSUME TypeInv, TypeInv', ObjectsInv, NEW t \in Threads, Inside(t) \/ Calls(t)
  PROVE  /\ ObjectsDistinct' /\ FreeLinked' /\ born \subseteq born'
         /\ \A o \in FreeObjects' : o \in FreeObjects \/ (th[t].at = "swap" /\ o \in ToSet(th[t].old))
         /\ \A o \in Objects : o \in Carried(t) \/ next'[o] = next[o]
         /\ own'[t] = own[t] \/ own'[t] = Null \/ own'[t] \notin born \/ own'[t] \in FreeObjects
         /\ \A q \in Indices, i \in 1 .. PinCount, o \in Objects :
               pin[q][i] = o /\ Before(th[t], q, i, o) => Before(th'[t], q, i, o)
<1>1. Acts(t) /\ ObjectsDistinct /\ FreeLinked
  BY NextActs DEF ObjectsInv
<1>2. ToSet(<<>>) = {} /\ (th[t].at \notin Giving => th[t].old = <<>>)
  BY EmptyProperties DEF TypeInv, LocalsOK, LocalOK
<1>3. CASE Quiet(t)
  <2>1. \A q \in Indices, i \in 1 .. PinCount, o \in Objects :
          Before(th[t], q, i, o) => Before(th'[t], q, i, o)
    BY <1>3 DEF Quiet, Before
  <2>. QED BY <1>1, <1>3, <2>1, QuietPlaces DEF Quiet
<1>4. CASE Free(t)
  <2>1. UNCHANGED <<born, own>>
    BY <1>4 DEF Free, client
  <2>2. th'[t].old = <<>> \/ (th'[t].at = "scan" /\ th'[t].slot = <<1, 1>>)
    BY <1>4, FreeEffect DEF Moved
  <2>. QED BY <1>1, <1>2, <1>4, <2>1, <2>2, FreePlaces, ScanStarts DEF Before
<1>5. CASE ScanPin(t)
  <2>1. UNCHANGED <<born, own>>
    BY Zenon, <1>5 DEF ScanPin, client
  <2>. QED BY Zenon, <1>1, <1>5, <2>1, ScanPinPlaces, ScanGoesOn
<1>6. CASE Exchange(t)
  <2>1. UNCHANGED <<born, next>> /\ own' = [own EXCEPT ![t] = Null] /\ own \in [Threads -> Pointers]
    BY <1>6 DEF Exchange, allocator, TypeInv, TypeOK
  <2>2. th'[t].old = <<>>
    BY <1>2, <1>6, ExchangeEffect DEF Exchange, At, Giving, SameScan
  <2>. QED BY <1>1, <1>2, <1>6, <2>1, <2>2, ExchangePlaces DEF Before
<1>7. CASE Malloc(t) /\ own' # own
  <2>1. born \subseteq born' /\ th[t].at = "malloc"
    BY <1>7 DEF Malloc, At
  <2>. QED BY <1>1, <1>2, <1>7, <2>1, MallocPlaces DEF Before, Giving
<1>8. CASE TakeTop(t) /\ top = th[t].node
  <2>1. UNCHANGED born /\ th[t].at = "take"
    BY <1>8 DEF TakeTop, At
  <2>2. top \in FreeObjects => th[t].nextNode = next[top]
    BY <1>8, <2>1 DEF ObjectsInv, TakeOK
  <2>. QED BY <1>1, <1>2, <1>8, <2>1, <2>2, TakeTopPlaces DEF Before
<1>9. CASE Drain(t) /\ purgatory[Mine(t)] # <<>>
  <2>1. UNCHANGED <<born, own>>
    BY <1>9 DEF Drain, client, allocator
  <2>2. th'[t].at = "scan" /\ th'[t].slot = <<1, 1>>
    BY <1>9, DrainEffect DEF Moved
  <2>. QED BY <1>1, <1>9, <2>1, <2>2, DrainPlaces, ScanStarts DEF Before
<1>10. CASE GiveBack(t) /\ top = th[t].node
  <2>1. UNCHANGED born /\ th[t].at = "swap"
    BY <1>10 DEF GiveBack, At
  <2>2. Linked(th[t].old, Head(th[t].old), next, th[t].node)
    BY <2>1 DEF ObjectsInv, SwapOK
  <2>. QED BY <1>1, <1>2, <1>10, <2>1, <2>2, GiveBackPlaces DEF Before
<1>. QED BY <1>3, <1>4, <1>5, <1>6, <1>7, <1>8, <1>9, <1>10, QuietSteps

\* A step of t that neither pins nor unpins.
Steady(t) ==
    /\ UNCHANGED pin /\ held'[t] = held[t]
    /\ th'[t].pins = th[t].pins \/ held[t] = NoPins
    /\ th'[t].at \notin {"check", "again", "next", "take"}
    /\ th'[t].at = "swap" => Chain(t)

LEMMA SteadySteps ==
  ASSUME TypeInv, NEW t \in Threads, Inside(t) \/ Calls(t)
  PROVE  \/ Steady(t)
         \/ PinTop(t) \/ CheckTop(t) \/ ReadNext(t) \/ AllocReturns(t)
         \/ PinShared(t) \/ CheckShared(t) \/ CopyUp(t) \/ Unpin(t)
<1>1. /\ th[t].at \in NoPinsYet \cup {"push"} => held[t] = NoPins
      /\ th[t].then \in {"idle", "put"}
  BY Fields DEF TypeInv, TypeOK, LocalsOK, LocalOK, NoPinsYet, Giving
<1>2. ASSUME NEW x \in Labels, Go(t, x)
      PROVE  th'[t].at = x /\ th'[t].pins = th[t].pins
  BY <1>2, GoEffect DEF Moved
<1>3. ASSUME NEW x \in Labels, Local(t, Fresh(Mine(t), x))
      PROVE  th'[t].at = x /\ th'[t].pins = th[t].pins
  BY <1>3, FreshEffect DEF Moved
<1>. USE DEF At, Steady
<1>4. CASE GetPins(t)
  BY <1>1, <1>4, GetPinsEffect DEF GetPins, client, Moved
<1>5. CASE NewPins(t)
  BY Zenon, <1>1, <1>5, NewPinsEffect DEF NewPins, client, Moved, NoPinsYet
<1>6. CASE ReadLink(t)
  BY Zenon, <1>1, <1>6, ReadLinkEffect DEF ReadLink, client, Moved
<1>7. CASE PopPins(t)
  BY <1>1, <1>7, PopPinsEffect DEF PopPins, client, Moved, NoPinsYet
<1>8. CASE InitPins(t)
  BY <1>1, <1>3, <1>8 DEF InitPins, client, Idle, Labels
<1>9. CASE PutPins(t)
  BY Zenon, <1>1, <1>2, <1>9 DEF PutPins, client, Labels
<1>10. CASE Drain(t)
  BY Zenon, <1>1, <1>10, DrainEffect DEF Drain, client, Moved
<1>11. CASE LinkPins(t)
  BY Zenon, <1>1, <1>2, <1>11 DEF LinkPins, client, Labels
<1>12. CASE PushPins(t)
  BY <1>1, <1>12, PushPinsEffect DEF PushPins, client, Moved
<1>13. CASE Alloc(t)
  BY <1>1, <1>2, <1>13 DEF Alloc, client, Labels
<1>14. CASE ReadTop(t)
  BY <1>1, <1>14, ReadTopEffect DEF ReadTop, client, Moved
<1>15. CASE Malloc(t)
  BY <1>1, <1>2, <1>15 DEF Malloc, client, Labels
<1>16. CASE TakeTop(t)
  BY <1>1, <1>16, TakeTopEffect DEF TakeTop, client, Moved
<1>17. CASE Free(t)
  BY Zenon, <1>1, <1>17, FreeEffect DEF Free, client, Moved
<1>18. CASE ScanPin(t)
  BY Zenon, <1>1, <1>18, ScanPinEffect DEF ScanPin, client, Moved
<1>19. CASE ReadTopToFree(t)
  BY <1>1, <1>19, ReadTopToFreeEffect DEF ReadTopToFree, client, Moved
<1>20. CASE Chain(t)
  BY Zenon, <1>1, <1>2, <1>20 DEF Chain, client, Labels
<1>21. CASE GiveBack(t)
  BY Zenon, <1>1, <1>21, GiveBackEffect DEF GiveBack, client, Moved
<1>22. CASE Exchange(t)
  BY <1>1, <1>22, ExchangeEffect DEF Exchange, client, Moved
<1>23. CASE Protect(t)
  BY <1>1, <1>2, <1>23 DEF Protect, client, Labels
<1>24. CASE LoadShared(t)
  BY <1>1, <1>24, LoadSharedEffect DEF LoadShared, client, Moved
<1>. QED BY <1>4, <1>5, <1>6, <1>7, <1>8, <1>9, <1>10, <1>11, <1>12, <1>13, <1>14, <1>15, <1>16, <1>17, <1>18, <1>19, <1>20, <1>21, <1>22, <1>23, <1>24 DEF Inside, Calls

\* What was pinned and seen stays so while the pin does.
LEMMA WatchKept ==
  ASSUME NEW t \in Threads, Acts(t), born \subseteq born',
         \A q \in Indices, j \in 1 .. PinCount, x \in Objects :
            pin[q][j] = x /\ Before(th[t], q, j, x) => Before(th'[t], q, j, x),
         NEW u \in Threads, Mine(u) \in Indices, NEW i \in 1 .. PinCount, NEW o \in Objects,
         Watched(u, i, o), th'[u].pins = th[u].pins, pin'[Mine(u)][i] = o
  PROVE  Watched(u, i, o)'
<1>1. Mine(u)' = Mine(u)
  BY DEF Mine
<1>2. ASSUME NEW w \in Threads PROVE Before(th'[w], Mine(u), i, o)
  <2>1. Before(th[w], Mine(u), i, o) /\ pin[Mine(u)][i] = o
    BY DEF Watched
  <2>2. CASE w = t
    BY <2>1, <2>2
  <2>3. CASE w # t
    BY <2>1, <2>3 DEF Acts
  <2>. QED BY <2>2, <2>3
<1>. QED BY <1>1, <1>2 DEF Watched

\* What t has pinned and seen again after a step of t: it was so before, or the step
\* is the second look at the stack, at the shared pointer, or a copy of a pin upward.
LEMMA OwnWatches ==
  ASSUME TypeInv, NEW t \in Threads, Inside(t) \/ Calls(t), Acts(t),
         NEW i \in 1 .. PinCount, NEW o \in Objects, Watches(t, i, o)'
  PROVE  /\ Mine(t) \in Indices /\ th'[t].pins = th[t].pins
         /\ \/ Watches(t, i, o) /\ pin'[Mine(t)][i] = pin[Mine(t)][i]
            \/ i = 1 /\ CheckTop(t) /\ o = top /\ th[t].node = top
            \/ i = 1 /\ CheckShared(t) /\ o = shared /\ th[t].node = shared
            \/ i = 2 /\ CopyUp(t) /\ Watches(t, 1, o) /\ pin'[Mine(t)][2] = o
<1>1. /\ th[t] \in Locals /\ LocalOK(th[t], own[t], held[t])
      /\ held \in [Threads -> [1 .. PinCount -> Pointers]]
      /\ pin \in [Indices -> [1 .. PinCount -> Pointers]] /\ {1, 2} \subseteq 1 .. PinCount
      /\ o # Null /\ NoPins[i] = Null
  BY PinBoxConstants DEF TypeInv, TypeOK, LocalsOK, NoPins
<1>2. ASSUME NEW x \in Labels, Go(t, x)
      PROVE  th'[t].at = x /\ th'[t].pins = th[t].pins
  BY <1>2, GoEffect DEF Moved
<1>3. CASE Steady(t)
  <2>1. held'[t][i] = o /\ held[t][i] = o
    BY <1>3 DEF Steady, Watches
  <2>2. th[t].at \notin NoPinsYet /\ th'[t].pins = th[t].pins
    BY <1>1, <1>3, <2>1 DEF Steady, LocalOK, NoPinsYet, Giving
  <2>. QED BY <1>3, <2>1, <2>2, HasPins DEF Steady, Watches
<1>4. CASE PinTop(t)
  <2>1. /\ th[t].at = "pin" /\ th'[t].at = "check" /\ th'[t].pins = th[t].pins /\ held' = held
        /\ pin' = [pin EXCEPT ![Mine(t)][1] = th[t].node] /\ held[t][1] = Null
    BY <1>1, <1>2, <1>4 DEF PinTop, At, Labels, LocalOK, InAlloc, client
  <2>2. Mine(t) \in Indices
    BY <2>1, HasPins DEF NoPinsYet
  <2>. QED BY <1>1, <2>1, <2>2 DEF Watches
<1>5. CASE CheckTop(t)
  <2>1. th[t].at = "check" /\ held' = held /\ pin' = pin
    BY <1>5 DEF CheckTop, At, client
  <2>2. Mine(t) \in Indices
    BY <2>1, HasPins DEF NoPinsYet
  <2>3. CASE th[t].node # top
    BY <1>5, <2>1, <2>2, <2>3, CheckTopEffect DEF Moved, Watches
  <2>4. CASE th[t].node = top
    BY <1>5, <2>1, <2>2, <2>4, CheckTopEffect DEF Moved, SameNode, Watches
  <2>. QED BY <2>3, <2>4
<1>6. CASE ReadNext(t)
  <2>1. th[t].at = "next" /\ held' = held /\ pin' = pin
    BY <1>6 DEF ReadNext, At, client
  <2>2. Mine(t) \in Indices
    BY <2>1, HasPins DEF NoPinsYet
  <2>. QED BY <1>6, <2>1, <2>2, ReadNextEffect DEF Moved, SameNode, Watches
<1>7. CASE AllocReturns(t)
  <2>1. /\ th[t].at = "unpin" /\ held' = held /\ held[t][1] = Null
        /\ pin' = [pin EXCEPT ![Mine(t)][1] = Null]
    BY <1>1, <1>7 DEF AllocReturns, At, client, LocalOK
  <2>2. Mine(t) \in Indices
    BY <2>1, HasPins DEF NoPinsYet
  <2>3. th'[t].at = "idle" /\ th'[t].pins = th[t].pins
    BY <1>7, FreshEffect DEF AllocReturns, Idle, Labels, Moved
  <2>. QED BY <1>1, <2>1, <2>2, <2>3 DEF Watches
<1>8. CASE PinShared(t)
  <2>1. /\ th[t].at = "guard" /\ th'[t].at = "again" /\ th'[t].pins = th[t].pins
        /\ held' = [held EXCEPT ![t][1] = Null]
        /\ pin' = [pin EXCEPT ![Mine(t)][1] = th[t].node]
    BY <1>2, <1>8 DEF PinShared, At, Labels
  <2>2. Mine(t) \in Indices
    BY <2>1, HasPins DEF NoPinsYet
  <2>. QED BY <1>1, <2>1, <2>2 DEF Watches
<1>9. CASE CheckShared(t)
  <2>1. /\ th[t].at = "again" /\ pin' = pin
        /\ held' = IF th[t].node = shared THEN [held EXCEPT ![t][1] = shared] ELSE held
    BY <1>9 DEF CheckShared, At
  <2>2. Mine(t) \in Indices
    BY <2>1, HasPins DEF NoPinsYet
  <2>3. th'[t].pins = th[t].pins /\ th'[t].at \in {"idle", "load"}
    BY <1>9, CheckSharedEffect DEF Moved
  <2>4. held'[t][i] = o
    BY <2>3 DEF Watches
  <2>5. CASE i = 1 /\ th[t].node = shared
    BY <1>1, <1>9, <2>1, <2>2, <2>3, <2>4, <2>5
  <2>6. CASE ~ (i = 1 /\ th[t].node = shared)
    BY <1>1, <2>1, <2>2, <2>3, <2>4, <2>6 DEF Watches
  <2>. QED BY <2>5, <2>6
<1>10. CASE CopyUp(t)
  <2>1. /\ th[t].at = "idle" /\ th' = th
        /\ held' = [held EXCEPT ![t][2] = held[t][1]]
        /\ pin' = [pin EXCEPT ![Mine(t)][2] = held[t][1]]
    BY <1>10 DEF CopyUp, At
  <2>2. Mine(t) \in Indices
    BY <2>1, HasPins DEF NoPinsYet
  <2>. QED BY <1>1, <1>10, <2>1, <2>2 DEF Watches
<1>11. CASE Unpin(t)
  <2>1. PICK j \in 1 .. PinCount :
          /\ th[t].at = "idle" /\ th' = th
          /\ held' = [held EXCEPT ![t][j] = Null] /\ pin' = [pin EXCEPT ![Mine(t)][j] = Null]
    BY <1>11 DEF Unpin, At
  <2>2. Mine(t) \in Indices
    BY <2>1, HasPins DEF NoPinsYet
  <2>. QED BY <1>1, <2>1, <2>2 DEF Watches
<1>. QED BY <1>3, <1>4, <1>5, <1>6, <1>7, <1>8, <1>9, <1>10, <1>11, SteadySteps


LEMMA WatcherHasPins ==
  ASSUME TypeInv, NEW t \in Threads, NEW i \in 1 .. PinCount, NEW o \in Objects, Watches(t, i, o)
  PROVE  Mine(t) \in Indices
<1>1. LocalOK(th[t], own[t], held[t]) /\ o # Null /\ NoPins[i] = Null
  BY PinBoxConstants DEF TypeInv, LocalsOK, NoPins
<1>2. th[t].at \notin NoPinsYet
  BY <1>1 DEF Watches, LocalOK, NoPinsYet, Giving
<1>. QED BY <1>2, HasPins

\* An object that no list of a scan has, and that t has pinned.
LEMMA UnlistedWatched ==
  ASSUME TypeInv, NEW t \in Threads, NEW i \in 1 .. PinCount, NEW o \in born,
         \A u \in Threads : o \notin Carried(u), pin[Mine(t)][i] = o
  PROVE  Watched(t, i, o)
<1>1. o \in Objects
  BY DEF TypeInv, TypeOK
<1>2. ASSUME NEW u \in Threads PROVE o \notin ToSet(th[u].old)
  BY <1>1 DEF Carried, Carries
<1>. QED BY <1>2 DEF Watched, Before

LEMMA TopIsFree ==
  ASSUME FreeLinked, top # Null
  PROVE  top \in FreeObjects
<1>1. PICK s \in Seq(Objects) : ToSet(s) = FreeObjects /\ Linked(s, top, next, Null)
  BY DEF FreeLinked
<1>. QED BY <1>1, LinkedEmpty, PinBoxConstants

LEMMA WatchStep ==
  ASSUME TypeInv, TypeInv', PinsInv, ObjectsInv, NEW t \in Threads, Inside(t) \/ Calls(t)
  PROVE  WatchOK'
<1>1. Acts(t)
  BY NextActs
<1>2. /\ born \subseteq born'
      /\ \A q \in Indices, j \in 1 .. PinCount, x \in Objects :
            pin[q][j] = x /\ Before(th[t], q, j, x) => Before(th'[t], q, j, x)
  BY PlacesStep
<1>3. SUFFICES ASSUME NEW u \in Threads, NEW i \in 1 .. PinCount, NEW o \in Objects,
                      Watches(u, i, o)'
               PROVE  Watched(u, i, o)'
  BY DEF WatchOK
<1>4. CASE u # t
  <2>1. Watches(u, i, o) /\ th'[u] = th[u]
    BY <1>1, <1>3, <1>4 DEF Acts, Watches
  <2>2. Watched(u, i, o) /\ Mine(u) \in Indices
    BY <2>1, WatcherHasPins DEF ObjectsInv, WatchOK
  <2>3. Mine(u) # Mine(t)
    BY <1>4, <2>2 DEF PinsInv, PinsDistinct, Indices
  <2>4. pin'[Mine(u)][i] = o
    BY <1>1, <2>2, <2>3 DEF Acts, Watched
  <2>. QED BY <1>1, <1>2, <2>1, <2>2, <2>4, WatchKept
<1>5. CASE u = t
  <2>1. Mine(t) \in Indices /\ th'[t].pins = th[t].pins
    BY <1>1, <1>3, <1>5, OwnWatches
  <2>2. ASSUME Watched(t, i, o), pin'[Mine(t)][i] = pin[Mine(t)][i]
        PROVE  Watched(t, i, o)'
    <3>1. pin'[Mine(t)][i] = o
      BY <2>2 DEF Watched
    <3>. QED BY <1>1, <1>2, <2>1, <2>2, <3>1, WatchKept
  <2>3. CASE Watches(t, i, o) /\ pin'[Mine(t)][i] = pin[Mine(t)][i]
    BY <1>5, <2>2, <2>3 DEF ObjectsInv, WatchOK
  <2>4. CASE i = 1 /\ CheckTop(t) /\ o = top /\ th[t].node = top
    <3>1. pin' = pin /\ th[t].at = "check"
      BY <2>4 DEF CheckTop, At
    <3>2. pin[Mine(t)][1] = top
      BY <2>4, <3>1 DEF ObjectsInv, PinnedOK
    <3>3. top \in FreeObjects
      BY <2>4, PinBoxConstants, TopIsFree DEF ObjectsInv
    <3>4. Watched(t, i, o)
      BY <2>4, <3>2, <3>3, UnlistedWatched DEF FreeObjects
    <3>. QED BY <1>5, <2>2, <3>1, <3>4
  <2>5. CASE i = 1 /\ CheckShared(t) /\ o = shared /\ th[t].node = shared
    <3>1. pin' = pin /\ th[t].at = "again"
      BY <2>5 DEF CheckShared, At
    <3>2. pin[Mine(t)][1] = shared
      BY <2>5, <3>1 DEF ObjectsInv, PinnedOK
    <3>3. shared \in born /\ \A w \in Threads : shared \notin Carried(w)
      BY <2>5, PinBoxConstants DEF ObjectsInv, ObjectsDistinct
    <3>4. Watched(t, i, o)
      BY <2>5, <3>2, <3>3, UnlistedWatched
    <3>. QED BY <1>5, <2>2, <3>1, <3>4
  <2>6. CASE i = 2 /\ CopyUp(t) /\ Watches(t, 1, o) /\ pin'[Mine(t)][2] = o
    <3>1. Watched(t, 1, o)
      BY <2>6, PinBoxConstants DEF ObjectsInv, WatchOK
    <3>2. th' = th /\ Mine(t)' = Mine(t)
      BY <2>6 DEF CopyUp, Mine
    <3>3. ASSUME NEW w \in Threads PROVE Before(th'[w], Mine(t), 2, o)
      <4>1. Before(th[w], Mine(t), 1, o) /\ th[w].slot \in Slots
        BY <3>1, Fields DEF Watched, TypeInv, TypeOK
      <4>2. AtOrBefore(th[w].slot, <<Mine(t), 1>>) => AtOrBefore(th[w].slot, <<Mine(t), 2>>)
        BY <4>1, PinBoxConstants DEF AtOrBefore, Slots
      <4>. QED BY <3>2, <4>1, <4>2 DEF Before
    <3>. QED BY <1>2, <1>5, <2>6, <3>1, <3>2, <3>3 DEF Watched
  <2>. QED BY <1>1, <1>3, <1>5, <2>3, <2>4, <2>5, <2>6, OwnWatches
<1>. QED BY <1>4, <1>5

\* The links that a thread makes before it gives its list back.
LEMMA ChainLinks ==
  ASSUME TypeInv, NEW t \in Threads, Chain(t), IsInjective(th[t].old)
  PROVE  Linked(th[t].old, Head(th[t].old), next', th[t].node)
<1>. DEFINE a == th[t].old
<1>1. /\ a \in Seq(Objects) /\ a # <<>> /\ Len(a) \in Nat
      /\ \A i, j \in 1 .. Len(a) : a[i] = a[j] => i = j
  <2>1. th[t].at = "chain" /\ a \in Seq(Objects)
    BY Fields DEF Chain, At, TypeInv, TypeOK
  <2>. QED BY <2>1, LenProperties, InjectiveIs DEF TypeInv, LocalsOK, LocalOK, Giving
<1>2. next' = [o \in Objects |->
               IF o \notin ToSet(a) THEN next[o]
               ELSE LET i == Position(a, o) IN IF i = Len(a) THEN th[t].node ELSE a[i + 1]]
  BY DEF Chain
<1>3. ASSUME NEW i \in 1 .. Len(a)
      PROVE  next'[a[i]] = IF i = Len(a) THEN th[t].node ELSE a[i + 1]
  <2>1. a[i] \in ToSet(a) /\ a[i] \in Objects
    BY <1>1, ToSetIs
  <2>2. Position(a, a[i]) = i
    BY Zenon, <1>1, <2>1, PositionIs
  <2>. QED BY <1>2, <2>1, <2>2
<1>. QED BY <1>1, <1>3 DEF Linked

\* A thread that is taking an object from the free stack does not get another to use.
LEMMA OwnHeld ==
  ASSUME TypeInv, NEW t \in Threads, Inside(t) \/ Calls(t), th[t].at \in {"next", "take"}
  PROVE  held' = held
<1>1. ReadNext(t) \/ TakeTop(t)
  BY Zenon DEF Inside, Calls, At, GetPins, NewPins, ReadLink, PopPins, InitPins, PutPins, Drain, LinkPins,
         PushPins, Alloc, ReadTop, PinTop, CheckTop, Malloc, AllocReturns, Free, ScanPin,
         ReadTopToFree, Chain, GiveBack, Exchange, Protect, LoadShared, PinShared, CheckShared,
         CopyUp, Unpin
<1>. QED BY <1>1 DEF ReadNext, TakeTop, client

LEMMA HeldStep ==
  ASSUME TypeInv, TypeInv', PinsInv, ObjectsInv, NEW t \in Threads, Inside(t) \/ Calls(t)
  PROVE  HeldOK'
<1>1. Acts(t)
  BY NextActs
<1>2. /\ \A o \in FreeObjects' : o \in FreeObjects \/ (th[t].at = "swap" /\ o \in ToSet(th[t].old))
      /\ own'[t] = own[t] \/ own'[t] = Null \/ own'[t] \notin born \/ own'[t] \in FreeObjects
  BY PlacesStep
<1>3. SUFFICES ASSUME NEW u \in Threads, NEW i \in 1 .. PinCount, NEW o \in Objects,
                      held'[u][i] = o
               PROVE  o \notin FreeObjects' /\ \A w \in Threads : own'[w] # o
  <2>1. held' \in [Threads -> [1 .. PinCount -> Pointers]]
    BY DEF TypeInv, TypeOK
  <2>2. \A u \in Threads, i \in 1 .. PinCount : held'[u][i] # Null => held'[u][i] \in Objects
    BY Zenon, <2>1 DEF Pointers
  <2>. QED BY <2>2 DEF HeldOK
<1>4. ASSUME NEW w \in Threads, NEW j \in 1 .. PinCount, held[w][j] = o
      PROVE  o \notin FreeObjects' /\ \A x \in Threads : own'[x] # o
  <2>1. Watched(w, j, o)
    BY <1>4 DEF ObjectsInv, WatchOK, Watches
  <2>2. o \in born /\ ~ (th[t].at = "swap" /\ o \in ToSet(th[t].old))
    BY <2>1 DEF Watched, Before
  <2>3. o # Null /\ o \notin FreeObjects /\ \A x \in Threads : own[x] # o
    BY <1>4, PinBoxConstants DEF ObjectsInv, HeldOK
  <2>. QED BY <1>1, <1>2, <2>2, <2>3 DEF Acts
<1>5. CASE u # t
  BY <1>1, <1>3, <1>4, <1>5 DEF Acts
<1>6. CASE u = t
  <2>1. Watches(t, i, o)'
    BY <1>3, <1>6 DEF Watches
  <2>2. CASE CheckShared(t) /\ o = shared
    <3>1. own' = own /\ th[t].at = "again"
      BY <2>2 DEF CheckShared, At
    <3>2. o \notin FreeObjects /\ \A w \in Threads : o \notin Carried(w)
      BY <2>2 DEF ObjectsInv, ObjectsDistinct, FreeObjects
    <3>3. \A w \in Threads : own[w] # o
      BY <3>2 DEF Carried, Carries
    <3>. QED BY <1>2, <3>1, <3>2, <3>3
  <2>3. CASE ~ (CheckShared(t) /\ o = shared)
    <3>1. \E j \in 1 .. PinCount : held[t][j] = o
      <4>1. CASE i = 2 /\ CopyUp(t) /\ Watches(t, 1, o)
        <5>1. th[t].at = "idle" /\ 1 \in 1 .. PinCount
          BY <4>1, PinBoxConstants DEF CopyUp, At
        <5>. QED BY <4>1, <5>1 DEF Watches
      <4>2. CASE CheckTop(t)
        BY <1>3, <1>6, <4>2 DEF CheckTop, client
      <4>3. CASE Watches(t, i, o) /\ ~ CheckTop(t)
        <5>1. CASE held[t][i] = o
          BY <5>1
        <5>2. CASE th[t].at \in {"next", "take"} /\ th[t].node = o
          BY <1>3, <1>6, <5>2, OwnHeld
        <5>. QED BY <4>3, <5>1, <5>2 DEF Watches
      <4>. QED BY <1>1, <2>1, <2>3, <4>1, <4>2, <4>3, OwnWatches
    <3>. QED BY <1>4, <3>1
  <2>. QED BY <2>2, <2>3
<1>. QED BY <1>5, <1>6

LEMMA ObjectsStep ==
  ASSUME TypeInv, TypeInv', PinsInv, ObjectsInv, NEW t \in Threads, Inside(t) \/ Calls(t)
  PROVE  ObjectsInv'
<1>1. Acts(t)
  BY NextActs
<1>2. /\ ObjectsDistinct' /\ FreeLinked'
      /\ \A o \in FreeObjects' : o \in FreeObjects \/ (th[t].at = "swap" /\ o \in ToSet(th[t].old))
      /\ \A o \in Objects : o \in Carried(t) \/ next'[o] = next[o]
  BY PlacesStep
<1>3. ASSUME NEW u \in Threads, u # t PROVE th'[u] = th[u] /\ Mine(u)' = Mine(u)
  BY <1>1, <1>3 DEF Acts, Mine
<1>4. ASSUME NEW u \in Threads PROVE PinnedOK(u)'
  <2>1. SUFFICES ASSUME th'[u].at \in {"check", "again"}
                 PROVE  pin'[Mine(u)'][1] = th'[u].node
    BY DEF PinnedOK
  <2>2. CASE u # t
    <3>1. pin[Mine(u)][1] = th[u].node /\ th[u].at \in {"check", "again"}
      BY <1>3, <2>1, <2>2 DEF ObjectsInv, PinnedOK
    <3>2. Mine(u) \in Indices
      BY <3>1, HasPins DEF NoPinsYet
    <3>3. Mine(u) # Mine(t)
      BY <2>2, <3>2 DEF PinsInv, PinsDistinct, Indices
    <3>. QED BY <1>1, <1>3, <2>2, <3>1, <3>2, <3>3 DEF Acts
  <2>3. CASE u = t
    <3>1. pin \in [Indices -> [1 .. PinCount -> Pointers]] /\ 1 \in 1 .. PinCount
      BY PinBoxConstants DEF TypeInv, TypeOK
    <3>2. CASE PinTop(t) \/ PinShared(t)
      <4>1. /\ th[t].at \in {"pin", "guard"} /\ pin' = [pin EXCEPT ![Mine(t)][1] = th[t].node]
            /\ th'[t].pins = th[t].pins /\ th'[t].node = th[t].node
        BY <3>2, GoEffect DEF PinTop, PinShared, At, Labels, Moved, SameNode
      <4>2. Mine(t) \in Indices
        BY <4>1, HasPins DEF NoPinsYet
      <4>. QED BY <2>3, <3>1, <4>1, <4>2 DEF Mine
    <3>3. CASE CheckTop(t) \/ ReadNext(t) \/ AllocReturns(t) \/ CheckShared(t) \/ CopyUp(t) \/ Unpin(t)
      <4>1. CASE CheckTop(t)
        BY <2>1, <2>3, <4>1, CheckTopEffect DEF Moved
      <4>2. CASE ReadNext(t)
        BY <2>1, <2>3, <4>2, ReadNextEffect DEF Moved
      <4>3. CASE AllocReturns(t)
        BY <2>1, <2>3, <4>3, FreshEffect DEF AllocReturns, Idle, Labels, Moved
      <4>4. CASE CheckShared(t)
        BY <2>1, <2>3, <4>4, CheckSharedEffect DEF Moved
      <4>5. CASE CopyUp(t) \/ Unpin(t)
        BY <2>1, <2>3, <4>5 DEF CopyUp, Unpin, At
      <4>. QED BY <3>3, <4>1, <4>2, <4>3, <4>4, <4>5
    <3>. QED BY <2>1, <2>3, <3>2, <3>3, SteadySteps DEF Steady
  <2>. QED BY <2>2, <2>3
<1>5. ASSUME NEW u \in Threads PROVE TakeOK(u)'
  <2>1. SUFFICES ASSUME th'[u].at = "take", th'[u].node \in FreeObjects'
                 PROVE  th'[u].nextNode = next'[th'[u].node]
    BY DEF TakeOK
  <2>2. CASE u # t
    <3>. DEFINE o == th[u].node
    <3>1. th'[u] = th[u] /\ th[u].at = "take" /\ o \in FreeObjects'
      BY <1>3, <2>1, <2>2
    <3>2. o \in Objects
      BY <3>1, Fields, PinBoxConstants DEF TypeInv, TypeOK, LocalsOK, LocalOK, Pointers
    <3>3. Watched(u, 1, o)
      BY <3>1, <3>2, PinBoxConstants DEF ObjectsInv, WatchOK, Watches
    <3>4. o \in FreeObjects
      BY <1>2, <3>1, <3>3 DEF Watched, Before
    <3>5. next'[o] = next[o]
      BY <1>2, <3>2, <3>4 DEF FreeObjects
    <3>. QED BY <3>1, <3>4, <3>5 DEF ObjectsInv, TakeOK
  <2>3. CASE u = t
    <3>1. ReadNext(t)
      <4>1. CASE CheckTop(t) \/ AllocReturns(t) \/ CheckShared(t)
        BY <2>1, <2>3, <4>1, CheckTopEffect, FreshEffect, CheckSharedEffect
           DEF AllocReturns, Idle, Labels, Moved
      <4>2. CASE PinTop(t) \/ PinShared(t)
        BY <2>1, <2>3, <4>2, GoEffect DEF PinTop, PinShared, Labels, Moved
      <4>3. CASE CopyUp(t) \/ Unpin(t)
        BY <2>1, <2>3, <4>3 DEF CopyUp, Unpin, At
      <4>. QED BY <2>1, <2>3, <4>1, <4>2, <4>3, SteadySteps DEF Steady
    <3>2. next' = next
      BY <3>1 DEF ReadNext, allocator
    <3>. QED BY <2>3, <3>1, <3>2, ReadNextEffect DEF SameNode
  <2>. QED BY <2>2, <2>3
<1>6. ASSUME NEW u \in Threads PROVE SwapOK(u)'
  <2>1. SUFFICES ASSUME th'[u].at = "swap"
                 PROVE  Linked(th'[u].old, Head(th'[u].old), next', th'[u].node)
    BY DEF SwapOK
  <2>2. CASE u # t
    <3>1. /\ th'[u] = th[u] /\ Linked(th[u].old, Head(th[u].old), next, th[u].node)
          /\ th[u].at = "swap"
      BY <1>3, <2>1, <2>2 DEF ObjectsInv, SwapOK
    <3>2. th[u].old \in Seq(Objects) /\ Carried(u) = ToSet(th[u].old)
      BY <3>1, Fields, CarriedIs DEF TypeInv, TypeOK, Giving
    <3>3. \A x \in ToSet(th[u].old) : next'[x] = next[x]
      BY <1>2, <2>2, <3>2 DEF ObjectsInv, ObjectsDistinct, Carried, Carries
    <3>. QED BY <3>1, <3>2, <3>3, LinkedFrame
  <2>3. CASE u = t
    <3>1. Chain(t)
      <4>1. CASE CheckTop(t) \/ AllocReturns(t) \/ CheckShared(t)
        BY <2>1, <2>3, <4>1, CheckTopEffect, FreshEffect, CheckSharedEffect
           DEF AllocReturns, Idle, Labels, Moved
      <4>2. CASE PinTop(t) \/ PinShared(t) \/ ReadNext(t)
        BY <2>1, <2>3, <4>2, GoEffect, ReadNextEffect DEF PinTop, PinShared, Labels, Moved
      <4>3. CASE CopyUp(t) \/ Unpin(t)
        BY <2>1, <2>3, <4>3 DEF CopyUp, Unpin, At
      <4>. QED BY <2>1, <2>3, <4>1, <4>2, <4>3, SteadySteps DEF Steady
    <3>2. th'[t].old = th[t].old /\ th'[t].node = th[t].node
      BY <3>1, GoEffect DEF Chain, Labels, SameNode, SameScan
    <3>3. IsInjective(th[t].old)
      BY DEF ObjectsInv, ObjectsDistinct
    <3>. QED BY <2>3, <3>1, <3>2, <3>3, ChainLinks
  <2>. QED BY <2>2, <2>3
<1>7. WatchOK' /\ HeldOK'
  BY WatchStep, HeldStep
<1>. QED BY <1>2, <1>4, <1>5, <1>6, <1>7 DEF ObjectsInv

LEMMA ObjectsStays ==
  ASSUME TypeInv, TypeInv', PinsInv, ObjectsInv, [Next]_vars
  PROVE  ObjectsInv'
<1>1. CASE Next
  BY <1>1, ObjectsStep DEF Next
<1>2. CASE UNCHANGED vars
  <2>. USE <1>2 DEF vars, pinbox, allocator, client
  <2>1. \A t \in Threads : Carried(t)' = Carried(t) /\ Mine(t)' = Mine(t)
    BY DEF Carried, Mine
  <2>2. FreeObjects' = FreeObjects
    BY <2>1 DEF FreeObjects
  <2>3. ObjectsDistinct' /\ FreeLinked'
    BY <2>1, <2>2 DEF ObjectsInv, ObjectsDistinct, FreeLinked
  <2>4. WatchOK' /\ HeldOK'
    BY <2>1, <2>2 DEF ObjectsInv, WatchOK, HeldOK, Watches, Watched, Before
  <2>5. ASSUME NEW t \in Threads PROVE PinnedOK(t)' /\ TakeOK(t)' /\ SwapOK(t)'
    BY <2>1, <2>2 DEF ObjectsInv, PinnedOK, TakeOK, SwapOK
  <2>. QED BY <2>3, <2>4, <2>5 DEF ObjectsInv
<1>. QED BY <1>1, <1>2

LEMMA ObjectsInit == Init => ObjectsInv
<1>. SUFFICES ASSUME Init PROVE ObjectsInv
  OBVIOUS
<1>1. \A t \in Threads : /\ th[t].at = "out" /\ th[t].old = <<>> /\ own[t] = Null
                         /\ held[t] = NoPins
  BY OutsideTyped DEF Init
<1>2. Null \notin Objects /\ \A t \in Threads : Carried(t) = {}
  BY <1>1, PinBoxConstants, EmptyProperties DEF Carried, Carries
<1>3. ObjectsDistinct
  BY <1>1, <1>2, EmptyProperties DEF Init, ObjectsDistinct
<1>4. FreeLinked
  <2>1. FreeObjects = {} /\ top = Null
    BY DEF Init, FreeObjects
  <2>2. Len(<<>>) = 0 /\ Linked(<<>>, top, next, Null)
    BY <2>1 DEF Linked
  <2>. QED BY <2>1, <2>2, EmptyProperties DEF FreeLinked
<1>5. WatchOK /\ HeldOK
  <2>1. \A t \in Threads, i \in 1 .. PinCount : held[t][i] = Null
    BY <1>1 DEF NoPins
  <2>. QED BY <1>1, <1>2, <2>1 DEF WatchOK, HeldOK, Watches
<1>6. \A t \in Threads : PinnedOK(t) /\ TakeOK(t) /\ SwapOK(t)
  BY <1>1 DEF PinnedOK, TakeOK, SwapOK
<1>. QED BY <1>3, <1>4, <1>5, <1>6 DEF ObjectsInv

LEMMA ObjectsInvHeldIsSafe ==
  ASSUME TypeInv, ObjectsInv
  PROVE  HeldIsSafe
<1>. SUFFICES ASSUME NEW t \in Threads, NEW i \in 1 .. PinCount, held[t][i] # Null
              PROVE  \/ held[t][i] = shared
                     \/ \E p \in Indices : held[t][i] \in ToSet(purgatory[p])
                     \/ \E u \in Threads : \/ At(u, "free") /\ th[u].node = held[t][i]
                                           \/ At(u, "scan") /\ held[t][i] \in ToSet(th[u].old)
  BY DEF HeldIsSafe
<1>. DEFINE o == held[t][i]
<1>1. o \in Objects /\ Watched(t, i, o)
  <2>1. held \in [Threads -> [1 .. PinCount -> Pointers]]
    BY DEF TypeInv, TypeOK
  <2>2. o \in Objects
    BY <2>1 DEF Pointers
  <2>. QED BY <2>2 DEF ObjectsInv, WatchOK, Watches
<1>2. o \in born /\ \A u \in Threads : o \in ToSet(th[u].old) => th[u].at = "scan"
  BY <1>1 DEF Watched, Before
<1>3. o \notin FreeObjects /\ \A u \in Threads : own[u] # o
  BY DEF ObjectsInv, HeldOK
<1>. QED BY <1>1, <1>2, <1>3 DEF FreeObjects, Carried, Carries, At

\* An object that was pinned, and then read again from where it is shared, is not freed:
\* the scan of a purgatory finds the pin, in whatever order threads copy pins upwards
\* (alloc_pin.cc:31-32, 46, 205-252).
THEOREM HeldObjectsAreSafe == Spec /\ [][NoWrap]_vars => []HeldIsSafe
<1>1. Init => TypeInv /\ PinsInv /\ ObjectsInv
  BY TypeInit, PinsInit, ObjectsInit
<1>2. TypeInv /\ PinsInv /\ ObjectsInv /\ [Next]_vars /\ [NoWrap]_vars
      => TypeInv' /\ PinsInv' /\ ObjectsInv'
  BY Zenon, TypeStep, PinsStep, ObjectsStays
<1>3. TypeInv /\ ObjectsInv => HeldIsSafe
  BY ObjectsInvHeldIsSafe
<1>. QED BY <1>1, <1>2, <1>3, PTL DEF Spec

LEMMA FreeAtWalks ==
  ASSUME NEW s \in Seq(Objects), Linked(s, top, next, Null)
  PROVE  IsWalk(FreeAt, Cardinality(Objects), top, next, Null)
<1>1. Null \notin Objects /\ Cardinality(Objects) \in Nat
  BY PinBoxConstants, FS_CardinalityType
<1>2. PICK f : IsWalk(f, Cardinality(Objects), top, next, Null)
  BY <1>1, WalkExists, Zenon
<1>3. f = [n \in 0 .. Cardinality(Objects) |->
             IF n = 0 THEN top ELSE IF f[n - 1] = Null THEN Null ELSE next[f[n - 1]]]
  BY <1>2 DEF IsWalk
<1>. QED BY Zenon, <1>3 DEF IsWalk, FreeAt

LEMMA ObjectsInvOnePlace ==
  ASSUME TypeInv, ObjectsInv
  PROVE  ObjectsInOnePlace
<1>. DEFINE N == Cardinality(Objects)
<1>1. PICK s \in Seq(Objects) : IsInjective(s) /\ ToSet(s) = FreeObjects /\ Linked(s, top, next, Null)
  BY DEF ObjectsInv, FreeLinked
<1>2. Null \notin Objects /\ N \in Nat /\ Cardinality(Objects) <= N /\ IsFiniteSet(Objects)
  BY PinBoxConstants, FS_CardinalityType
<1>3. IsWalk(FreeAt, N, top, next, Null)
  BY <1>1, FreeAtWalks
<1>4. ASSUME NEW o \in Objects
      PROVE  /\ o \in FreeObjects => \E i \in 0 .. N : {n \in 0 .. N : FreeAt[n] = o} = {i}
             /\ o \notin FreeObjects => {n \in 0 .. N : FreeAt[n] = o} = {}
  <2>. HIDE DEF N
  <2>. QED BY <1>1, <1>2, <1>3, WalkOnce
<1>5. ASSUME NEW o \in born PROVE Cardinality(Places(o)) = 1
  <2>1. o \in Objects /\ o # Null
    BY <1>2 DEF TypeInv, TypeOK
  <2>2. \A t \in Threads : /\ own[t] = o => th[t].at # "free" /\ th[t].old = <<>>
                           /\ th[t].at = "free" => th[t].old = <<>>
    BY <2>1 DEF TypeInv, LocalsOK, LocalOK, Giving
  <2>. DEFINE A == {t \in Threads : own[t] = o}
              B == {t \in Threads : At(t, "free") /\ th[t].node = o}
              C == {t \in Threads : o \in ToSet(th[t].old)}
              P == {p \in Indices : o \in ToSet(purgatory[p])}
              F == {n \in 0 .. N : FreeAt[n] = o}
              S == IF shared = o THEN {0} ELSE {}
  <2>3. Places(o) = {<<"own", t>> : t \in A} \cup {<<"shared", n>> : n \in S}
                    \cup {<<"freed", t>> : t \in B} \cup {<<"purgatory", p>> : p \in P}
                    \cup {<<"old", t>> : t \in C} \cup {<<"stack", n>> : n \in F}
    BY DEF Places
  <2>4. \A t \in Threads : o \in Carried(t) <=> t \in A \cup B \cup C
    BY <2>1 DEF Carried, Carries, At
  <2>5. \A t \in Threads : \/ t \in A /\ t \notin B /\ t \notin C
                           \/ t \notin A /\ t \in B /\ t \notin C
                           \/ t \notin A /\ t \notin B /\ t \in C
                           \/ t \notin A /\ t \notin B /\ t \notin C
    BY <2>2, EmptyProperties DEF At
  <2>6. CASE o = shared
    <3>1. A = {} /\ B = {} /\ C = {} /\ P = {} /\ S = {0}
      <4>1. \A t \in Threads : o \notin Carried(t)
        BY <2>6 DEF ObjectsInv, ObjectsDistinct
      <4>2. P = {}
        BY <2>6 DEF ObjectsInv, ObjectsDistinct
      <4>. QED BY <2>4, <2>6, <4>1, <4>2
    <3>2. F = {}
      BY <1>4, <2>1, <2>6 DEF FreeObjects
    <3>. HIDE DEF A, B, C, P, F, S
    <3>3. Places(o) = {<<"shared", 0>>}
      BY <2>3, <3>1, <3>2
    <3>. QED BY <3>3, FS_Singleton
  <2>7. CASE o # shared /\ \E t \in Threads : o \in Carried(t)
    <3>1. PICK t \in Threads : o \in Carried(t)
      BY <2>7
    <3>2. \A u \in Threads : u # t => o \notin Carried(u)
      BY <3>1 DEF ObjectsInv, ObjectsDistinct
    <3>3. P = {} /\ S = {} /\ F = {}
      <4>1. P = {}
        BY <3>1 DEF ObjectsInv, ObjectsDistinct
      <4>2. F = {}
        BY <1>4, <2>1, <3>1 DEF FreeObjects
      <4>. QED BY <2>7, <4>1, <4>2
    <3>4. \/ A = {t} /\ B = {} /\ C = {}
          \/ A = {} /\ B = {t} /\ C = {}
          \/ A = {} /\ B = {} /\ C = {t}
      <4>1. A \subseteq {t} /\ B \subseteq {t} /\ C \subseteq {t} /\ t \in A \cup B \cup C
        BY <2>4, <3>1, <3>2
      <4>. HIDE DEF A, B, C
      <4>. QED BY <2>5, <4>1
    <3>. HIDE DEF A, B, C, P, F, S
    <3>5. Places(o) = {<<"own", t>>} \/ Places(o) = {<<"freed", t>>} \/ Places(o) = {<<"old", t>>}
      BY <2>3, <3>3, <3>4
    <3>. QED BY <3>5, FS_Singleton
  <2>8. CASE o # shared /\ \A t \in Threads : o \notin Carried(t)
    <3>1. A = {} /\ B = {} /\ C = {} /\ S = {}
      BY <2>4, <2>8
    <3>2. CASE P = {}
      <4>1. o \in FreeObjects
        BY <2>8, <3>2 DEF FreeObjects
      <4>2. PICK i \in 0 .. N : F = {i}
        BY <1>4, <2>1, <4>1
      <4>. HIDE DEF A, B, C, P, F, S
      <4>3. Places(o) = {<<"stack", i>>}
        BY <2>3, <3>1, <3>2, <4>2
      <4>. QED BY <4>3, FS_Singleton
    <3>3. CASE P # {}
      <4>1. PICK p \in Indices : o \in ToSet(purgatory[p])
        BY <3>3
      <4>2. P = {p}
        BY <4>1 DEF ObjectsInv, ObjectsDistinct
      <4>3. F = {}
        BY <1>4, <2>1, <4>1 DEF FreeObjects
      <4>. HIDE DEF A, B, C, P, F, S
      <4>4. Places(o) = {<<"purgatory", p>>}
        BY <2>3, <3>1, <4>2, <4>3
      <4>. QED BY <4>4, FS_Singleton
    <3>. QED BY <3>2, <3>3
  <2>. QED BY <2>6, <2>7, <2>8
<1>. QED BY <1>5 DEF ObjectsInOnePlace

\* alloc hands no object to two threads and free loses none, though a pop reads the
\* successor of the top before it takes the top (alloc_pin.cc:355-395, 283-303).
THEOREM ObjectsStayInOnePlace == Spec /\ [][NoWrap]_vars => []ObjectsInOnePlace
<1>1. Init => TypeInv /\ PinsInv /\ ObjectsInv
  BY TypeInit, PinsInit, ObjectsInit
<1>2. TypeInv /\ PinsInv /\ ObjectsInv /\ [Next]_vars /\ [NoWrap]_vars
      => TypeInv' /\ PinsInv' /\ ObjectsInv'
  BY TypeStep, PinsStep, ObjectsStays
<1>3. TypeInv /\ ObjectsInv => ObjectsInOnePlace
  BY ObjectsInvOnePlace
<1>. QED BY <1>1, <1>2, <1>3, PTL DEF Spec
===============================================================================
