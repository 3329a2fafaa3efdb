----------------------------- MODULE LimboProofs -----------------------------
(***************************************************************************)
(* Epoch reclamation is correct for any number of threads, objects,        *)
(* callbacks and epochs, under sequentially consistent memory: no handle   *)
(* sees a freed object, limbo implements grace-period reclamation, gives   *)
(* the full promise of limbo.hh to clients that register no callback, and  *)
(* loses no object.                                                        *)
(***************************************************************************)
EXTENDS LimboInvariant, TLAPS, SequenceTheorems

-------------------------------------------------------------------------------
(* Sequence lemmas.                                                         *)

\* What a flush appends: every element under the one epoch sampled.
LEMMA ElementsProperties ==
  ASSUME globalEpoch \in 0 .. MaxEpoch,
         NEW s \in Seq(Objects \cup Callbacks)
  PROVE  /\ Elements(s) \in Seq(Element)
         /\ Len(Elements(s)) = Len(s)
         /\ \A i \in 1 .. Len(s) : Elements(s)[i] = [item |-> s[i], epoch |-> globalEpoch]
<1>1. Len(s) \in Nat /\ \A i \in 1 .. Len(s) : s[i] \in Objects \cup Callbacks
  BY LenProperties
<1>2. \A i \in 1 .. Len(s) : [item |-> s[i], epoch |-> globalEpoch] \in Element
  BY <1>1 DEF Element
<1>. QED BY <1>1, <1>2, IsASeq DEF Elements

\* A concatenation, split at the seam.
LEMMA ConcatCases ==
  ASSUME NEW S, NEW a \in Seq(S), NEW b \in Seq(S)
  PROVE  /\ Len(a) \in Nat /\ Len(b) \in Nat
         /\ a \o b \in Seq(S)
         /\ Len(a \o b) = Len(a) + Len(b)
         /\ \A i \in 1 .. Len(a) : (a \o b)[i] = a[i]
         /\ \A i \in 1 .. Len(b) : (a \o b)[Len(a) + i] = b[i]
<1>1. Len(a) \in Nat /\ Len(b) \in Nat
  BY LenProperties
<1>2. /\ a \o b \in Seq(S)
      /\ Len(a \o b) = Len(a) + Len(b)
      /\ \A i \in 1 .. Len(a) + Len(b) : (a \o b)[i] = IF i <= Len(a) THEN a[i] ELSE b[i - Len(a)]
  BY ConcatProperties, Zenon
<1>. QED BY <1>1, <1>2

\* Recording keeps what is in the limbo list and adds elements of this epoch.
LEMMA RecordProperties ==
  ASSUME TypeOK, NEW s \in Seq(Objects \cup Callbacks), NEW old \in Seq(Element)
  PROVE  /\ old \o Elements(s) \in Seq(Element)
         /\ Len(old) \in Nat /\ Len(s) \in Nat
         /\ Len(old \o Elements(s)) = Len(old) + Len(s)
         /\ \A i \in 1 .. Len(old) : (old \o Elements(s))[i] = old[i]
         /\ \A i \in 1 .. Len(s) : (old \o Elements(s))[Len(old) + i]
                                      = [item |-> s[i], epoch |-> globalEpoch]
<1>. DEFINE e == Elements(s)
<1>1. globalEpoch \in 0 .. MaxEpoch
  BY DEF TypeOK
<1>2. /\ e \in Seq(Element)
      /\ Len(e) = Len(s)
      /\ \A i \in 1 .. Len(s) : e[i] = [item |-> s[i], epoch |-> globalEpoch]
  BY <1>1, ElementsProperties
<1>. HIDE DEF e
<1>3. /\ Len(old) \in Nat /\ Len(e) \in Nat
      /\ old \o e \in Seq(Element)
      /\ Len(old \o e) = Len(old) + Len(e)
      /\ \A i \in 1 .. Len(old) : (old \o e)[i] = old[i]
      /\ \A i \in 1 .. Len(e) : (old \o e)[Len(old) + i] = e[i]
  <2>1. e \in Seq(Element)
    BY <1>2
  <2>. QED BY <2>1, ConcatCases, SMTT(20)
<1>4. /\ old \o e \in Seq(Element)
      /\ Len(old) \in Nat /\ Len(s) \in Nat
      /\ Len(old \o e) = Len(old) + Len(s)
      /\ \A i \in 1 .. Len(old) : (old \o e)[i] = old[i]
      /\ \A i \in 1 .. Len(s) : (old \o e)[Len(old) + i] = [item |-> s[i], epoch |-> globalEpoch]
  BY <1>2, <1>3
<1>. QED BY <1>4 DEF e

\* Taking a handle out of the list leaves the others, in order.
LEMMA WithoutProperties ==
  ASSUME NEW s \in Seq(Handles), NEW h \in RangeOf(s)
  PROVE  /\ Position(s, h) \in 1 .. Len(s)
         /\ s[Position(s, h)] = h
         /\ Without(s, h) \in Seq(Handles)
         /\ Len(Without(s, h)) = Len(s) - 1
         /\ \A i \in 1 .. Len(s) - 1 :
              Without(s, h)[i] = s[IF i < Position(s, h) THEN i ELSE i + 1]
<1>1. Len(s) \in Nat /\ \A i \in 1 .. Len(s) : s[i] \in Handles
  BY LenProperties
<1>2. Position(s, h) \in 1 .. Len(s) /\ s[Position(s, h)] = h
  BY DEF RangeOf, Position
<1>3. Len(s) - 1 \in Nat
  BY <1>1, <1>2
<1>4. \A i \in 1 .. Len(s) - 1 : s[IF i < Position(s, h) THEN i ELSE i + 1] \in Handles
  BY <1>1, <1>2
<1>. QED BY <1>2, <1>3, <1>4, IsASeq DEF Without

\* Appending the newest handle keeps the list ascending.
LEMMA AppendAscending ==
  ASSUME NEW s \in Seq(Handles), Ascending(s), NEW h \in Handles,
         \A k \in RangeOf(s) : k < h
  PROVE  /\ Ascending(Append(s, h))
         /\ RangeOf(Append(s, h)) = RangeOf(s) \cup {h}
         /\ Oldest(Append(s, h)) = IF s = <<>> THEN h ELSE Oldest(s)
<1>1. /\ Len(s) \in Nat
      /\ Append(s, h) \in Seq(Handles)
      /\ Len(Append(s, h)) = Len(s) + 1
      /\ \A i \in 1 .. Len(s) : Append(s, h)[i] = s[i] /\ s[i] \in Handles
      /\ Append(s, h)[Len(s) + 1] = h
  BY AppendProperties, LenProperties
<1>2. \A i \in 1 .. Len(s) : s[i] < h
  BY DEF RangeOf
<1>3. Ascending(Append(s, h))
  BY <1>1, <1>2 DEF Ascending
<1>4. RangeOf(Append(s, h)) = RangeOf(s) \cup {h}
  BY <1>1 DEF RangeOf
<1>5. Oldest(Append(s, h)) = IF s = <<>> THEN h ELSE Oldest(s)
  <2>1. Append(s, h) # <<>> /\ Head(Append(s, h)) = Append(s, h)[1]
    BY <1>1, HeadTailProperties, EmptySeq
  <2>2. CASE s = <<>>
    BY <1>1, <2>1, <2>2 DEF Oldest
  <2>3. CASE s # <<>>
    <3>1. Head(s) = s[1] /\ Len(s) >= 1
      BY <1>1, <2>3, EmptySeq, HeadTailProperties
    <3>. QED BY <1>1, <2>1, <2>3, <3>1 DEF Oldest
  <2>. QED BY <2>2, <2>3
<1>. QED BY <1>3, <1>4, <1>5

\* Taking a handle out keeps the list ascending and takes out no other.
LEMMA WithoutAscending ==
  ASSUME NEW s \in Seq(Handles), Ascending(s), NEW h \in RangeOf(s)
  PROVE  /\ Ascending(Without(s, h))
         /\ RangeOf(Without(s, h)) = RangeOf(s) \ {h}
<1>. DEFINE p == Position(s, h)
            w == Without(s, h)
<1>1. /\ p \in 1 .. Len(s)
      /\ s[p] = h
      /\ Len(w) = Len(s) - 1
      /\ \A i \in 1 .. Len(s) - 1 : w[i] = s[IF i < p THEN i ELSE i + 1]
  BY WithoutProperties
<1>2. Len(s) \in Nat /\ \A i \in 1 .. Len(s) : s[i] \in Nat
  <2>1. Len(s) \in Nat /\ \A i \in 1 .. Len(s) : s[i] \in Handles
    BY LenProperties
  <2>2. \A k \in Handles : k \in Nat
    BY DEF Handles
  <2>. QED BY <2>1, <2>2
<1>. HIDE DEF p, w
<1>3. Ascending(w)
  <2>. SUFFICES ASSUME NEW i \in 1 .. Len(s) - 1, NEW j \in 1 .. Len(s) - 1, i < j
                PROVE  w[i] < w[j]
    BY <1>1 DEF Ascending
  <2>. DEFINE a == IF i < p THEN i ELSE i + 1
              b == IF j < p THEN j ELSE j + 1
  <2>1. a \in 1 .. Len(s) /\ b \in 1 .. Len(s) /\ a < b
    BY <1>1, <1>2
  <2>2. w[i] = s[a] /\ w[j] = s[b]
    BY <1>1
  <2>. HIDE DEF a, b
  <2>. QED BY <2>1, <2>2 DEF Ascending
<1>4. \A i \in 1 .. Len(s) : i # p => s[i] # h
  BY <1>1, <1>2 DEF Ascending
<1>5. RangeOf(w) \subseteq RangeOf(s) \ {h}
  <2>. SUFFICES ASSUME NEW i \in 1 .. Len(s) - 1 PROVE w[i] \in RangeOf(s) \ {h}
    BY <1>1 DEF RangeOf
  <2>. DEFINE a == IF i < p THEN i ELSE i + 1
  <2>1. a \in 1 .. Len(s) /\ a # p
    BY <1>1, <1>2
  <2>2. w[i] = s[a]
    BY <1>1
  <2>. HIDE DEF a
  <2>. QED BY <1>4, <2>1, <2>2 DEF RangeOf
<1>6. RangeOf(s) \ {h} \subseteq RangeOf(w)
  <2>. SUFFICES ASSUME NEW k \in 1 .. Len(s), s[k] # h PROVE s[k] \in RangeOf(w)
    BY DEF RangeOf
  <2>1. CASE k < p
    <3>1. k \in 1 .. Len(s) - 1 /\ w[k] = s[k]
      BY <1>1, <1>2, <2>1
    <3>. QED BY <1>1, <3>1 DEF RangeOf
  <2>2. CASE k > p
    <3>1. k - 1 \in 1 .. Len(s) - 1 /\ ~(k - 1 < p) /\ (k - 1) + 1 = k
      BY <1>1, <1>2, <2>2
    <3>2. w[k - 1] = s[k]
      BY <1>1, <3>1
    <3>. QED BY <1>1, <3>1, <3>2 DEF RangeOf
  <2>. QED BY <1>1, <1>2, <2>1, <2>2
<1>. QED BY <1>3, <1>5, <1>6 DEF w

\* The published epoch bounds every handle of the list from below.
LEMMA OldestIsLeast ==
  ASSUME NEW s \in Seq(Handles), Ascending(s), NEW h \in RangeOf(s)
  PROVE  Oldest(s) \in Handles /\ Oldest(s) <= h
<1>1. Len(s) \in Nat /\ \A i \in 1 .. Len(s) : s[i] \in Handles
  BY LenProperties
<1>2. PICK k \in 1 .. Len(s) : s[k] = h
  BY DEF RangeOf
<1>3. s # <<>> /\ Head(s) = s[1] /\ 1 \in 1 .. Len(s)
  BY <1>1, <1>2, EmptySeq, HeadTailProperties
<1>4. Oldest(s) = s[1]
  BY <1>3 DEF Oldest
<1>5. s[1] <= s[k]
  BY <1>1, <1>3 DEF Ascending, Handles
<1>. QED BY <1>1, <1>2, <1>3, <1>4, <1>5

\* What hard_free frees is the first element; the rest moves up by one.
LEMMA TailProperties ==
  ASSUME NEW S, NEW s \in Seq(S), s # <<>>
  PROVE  /\ Len(s) \in Nat \ {0}
         /\ Head(s) = s[1]
         /\ Tail(s) \in Seq(S)
         /\ Len(Tail(s)) = Len(s) - 1
         /\ \A i \in 1 .. Len(s) - 1 : Tail(s)[i] = s[i + 1] /\ i + 1 \in 1 .. Len(s)
<1>1. Len(s) \in Nat \ {0}
  BY LenProperties, EmptySeq
<1>. QED BY <1>1, HeadTailProperties

-------------------------------------------------------------------------------
(* Types, and what a call in progress may rely on.                          *)

LEMMA NextThread ==
  ASSUME NEW n \in 0 .. NThreads, n < NThreads
  PROVE  n \in Threads /\ n + 1 \in 0 .. NThreads
BY ConstantsOK DEF Threads

LEMMA LeastEpoch ==
  ASSUME NEW m \in 0 .. MaxEpoch, NEW e \in 1 .. NoEpoch
  PROVE  (IF m # 0 /\ m < e THEN m ELSE e) \in 1 .. NoEpoch
BY ConstantsOK DEF NoEpoch

LEMMA InitTypes == Init => TypeOK /\ CallOK
<1>. SUFFICES ASSUME Init PROVE TypeOK /\ CallOK
  OBVIOUS
<1>1. TypeOK
  <2>1. /\ handles \in [Threads -> Seq(Handles)]
        /\ cache \in [Handles -> Seq(Objects)]
        /\ limbo \in [Threads -> Seq(Element)]
    BY EmptySeq DEF Init
  <2>2. /\ globalEpoch \in 0 .. MaxEpoch
        /\ minEpoch \in [Threads -> 0 .. MaxEpoch]
        /\ hdl \in [Threads -> 0 .. MaxEpoch]
        /\ scanned \in [Threads -> 0 .. NThreads]
        /\ ae \in [Threads -> 1 .. NoEpoch]
        /\ count \in [Threads -> 0 .. Budget]
    BY ConstantsOK DEF Init, NoEpoch
  <2>. QED BY <2>1, <2>2 DEF Init, TypeOK, Labels
<1>2. CallOK
  BY DEF Init, CallOK, CallOKFor
<1>. QED BY <1>1, <1>2

LEMMA ElementOf ==
  ASSUME NEW S, NEW s \in Seq(S), NEW x \in RangeOf(s)
  PROVE  x \in S
BY LenProperties DEF RangeOf

LEMMA OldestType ==
  ASSUME NEW s \in Seq(Handles)
  PROVE  Oldest(s) \in 0 .. MaxEpoch
<1>1. CASE s = <<>>
  BY <1>1, ConstantsOK DEF Oldest
<1>2. CASE s # <<>>
  <2>1. Head(s) \in Handles
    BY <1>2, HeadTailProperties
  <2>. QED BY <1>2, <2>1, ConstantsOK DEF Oldest, Handles
<1>. QED BY <1>1, <1>2

LEMMA GotoType ==
  ASSUME TypeOK, NEW t \in Threads, NEW l \in Labels, Goto(t, l)
  PROVE  pc' \in [Threads -> Labels]
<1>1. pc \in [Threads -> Labels]
  BY DEF TypeOK
<1>. QED BY <1>1 DEF Goto

LEMMA StartScanTypes ==
  ASSUME TypeOK, NEW t \in Threads, StartScan(t)
  PROVE  /\ pc' \in [Threads -> Labels]
         /\ scanned' \in [Threads -> 0 .. NThreads]
         /\ ae' \in [Threads -> 1 .. NoEpoch]
         /\ count' \in [Threads -> 0 .. Budget]
<1>1. pc' \in [Threads -> Labels]
  BY GotoType DEF StartScan, Labels
<1>2. scanned \in [Threads -> 0 .. NThreads] /\ 0 \in 0 .. NThreads
  BY ConstantsOK DEF TypeOK
<1>3. ae \in [Threads -> 1 .. NoEpoch] /\ NoEpoch \in 1 .. NoEpoch
  BY ConstantsOK DEF TypeOK, NoEpoch
<1>4. count \in [Threads -> 0 .. Budget] /\ Budget \in 0 .. Budget
  BY ConstantsOK DEF TypeOK
<1>. QED BY <1>1, <1>2, <1>3, <1>4 DEF StartScan

LEMMA DeallocReturnsTypes ==
  ASSUME TypeOK, NEW t \in Threads, DeallocReturns(t)
  PROVE  /\ pc' \in [Threads -> Labels]
         /\ obj' \in [Threads -> SUBSET Objects]
         /\ hdl' \in [Threads -> 0 .. MaxEpoch]
<1>1. pc' \in [Threads -> Labels]
  BY GotoType DEF DeallocReturns, Labels
<1>2. obj \in [Threads -> SUBSET Objects] /\ hdl \in [Threads -> 0 .. MaxEpoch]
  BY DEF TypeOK
<1>. QED BY <1>1, <1>2, ConstantsOK DEF DeallocReturns

\* Taking an element off the front of a limbo list.
LEMMA PopTypes ==
  ASSUME TypeOK, NEW t \in Threads, PopElement(t)
  PROVE  /\ limbo' \in [Threads -> Seq(Element)]
         /\ count' \in [Threads -> 0 .. Budget]
<1>1. limbo \in [Threads -> Seq(Element)] /\ count \in [Threads -> 0 .. Budget]
  BY DEF TypeOK
<1>2. Tail(limbo[t]) \in Seq(Element)
  BY <1>1, HeadTailProperties DEF PopElement, MayFree
<1>3. count[t] - 1 \in 0 .. Budget
  BY <1>1, ConstantsOK DEF PopElement, MayFree
<1>. QED BY <1>1, <1>2, <1>3 DEF PopElement

LEMMA RecordType ==
  ASSUME TypeOK, NEW t \in Threads, NEW s \in Seq(Objects \cup Callbacks), Record(t, s)
  PROVE  limbo' \in [Threads -> Seq(Element)]
<1>1. limbo \in [Threads -> Seq(Element)]
  BY DEF TypeOK
<1>2. limbo[t] \o Elements(s) \in Seq(Element)
  BY <1>1, RecordProperties
<1>. QED BY <1>1, <1>2 DEF Record

LEMMA TakeOutTypes ==
  ASSUME TypeOK, NEW t \in Threads, NEW o \in Objects, TakeOut(t, o)
  PROVE  /\ linked' \in SUBSET Objects
         /\ blockers' \in [Objects -> SUBSET Handles]
         /\ obj' \in [Threads -> SUBSET Objects]
<1>1. /\ handles \in [Threads -> Seq(Handles)]
      /\ linked \in SUBSET Objects
      /\ blockers \in [Objects -> SUBSET Handles]
      /\ obj \in [Threads -> SUBSET Objects]
  BY DEF TypeOK
<1>2. Active \in SUBSET Handles
  BY <1>1, ElementOf DEF Active
<1>. QED BY <1>1, <1>2 DEF TakeOut

LEMMA NextTypeOK ==
  ASSUME TypeOK, CallOK, [Next]_vars
  PROVE  TypeOK'
<1>a. \A o \in Objects : <<o>> \in Seq(Objects \cup Callbacks)
  OBVIOUS
<1>b. \A c \in Callbacks : <<c>> \in Seq(Objects \cup Callbacks)
  OBVIOUS
<1>c. \A t \in Threads : \A h \in RangeOf(handles[t]) : h \in Handles
  BY ElementOf DEF TypeOK
<1>d. Handles \subseteq 0 .. MaxEpoch
  BY ConstantsOK DEF Handles
<1>. USE DEF Labels
<1>1. ASSUME NEW t \in Threads, NewHandle(t) PROVE TypeOK'
  <2>1. globalEpoch + 1 \in 0 .. MaxEpoch
    BY <1>1, ConstantsOK DEF NewHandle, TypeOK
  <2>2. globalEpoch' \in 0 .. MaxEpoch /\ hdl' \in [Threads -> 0 .. MaxEpoch]
    BY <1>1, <2>1 DEF NewHandle, TypeOK
  <2>3. pc' \in [Threads -> Labels]
    BY <1>1, GotoType DEF NewHandle
  <2>4. UNCHANGED <<handles, minEpoch, cache, limbo, obj, scanned, ae, count, client, ghost>>
    BY <1>1 DEF NewHandle
  <2>. QED BY <2>2, <2>3, <2>4 DEF TypeOK, client, ghost
<1>2. ASSUME NEW t \in Threads, Publish(t) PROVE TypeOK'
  <2>1. hdl[t] \in Handles /\ hdl[t] \in 0 .. MaxEpoch
    BY <1>2, <1>d DEF Publish, CallOK, CallOKFor
  <2>2. handles \in [Threads -> Seq(Handles)] /\ Append(handles[t], hdl[t]) \in Seq(Handles)
    BY <2>1, AppendProperties DEF TypeOK
  <2>3. handles' \in [Threads -> Seq(Handles)]
    BY <1>2, <2>2 DEF Publish
  <2>4. minEpoch' \in [Threads -> 0 .. MaxEpoch] /\ hdl' \in [Threads -> 0 .. MaxEpoch]
    <3>1. minEpoch \in [Threads -> 0 .. MaxEpoch] /\ hdl \in [Threads -> 0 .. MaxEpoch]
      BY DEF TypeOK
    <3>. QED BY <1>2, <2>1, <3>1, ConstantsOK DEF Publish
  <2>5. pc' \in [Threads -> Labels]
    BY <1>2, GotoType DEF Publish
  <2>6. UNCHANGED <<globalEpoch, cache, limbo, obj, scanned, ae, count, client, ghost>>
    BY <1>2 DEF Publish
  <2>. QED BY <2>3, <2>4, <2>5, <2>6 DEF TypeOK, client, ghost
<1>3. ASSUME NEW t \in Threads, NEW h \in RangeOf(handles[t]), NEW o \in Objects, Unlink(t, h, o)
      PROVE TypeOK'
  <2>1. TakeOut(t, o) /\ hdl' = [hdl EXCEPT ![t] = h] /\ Goto(t, "dealloc")
    BY <1>3 DEF Unlink
  <2>2. /\ linked' \in SUBSET Objects
        /\ blockers' \in [Objects -> SUBSET Handles]
        /\ obj' \in [Threads -> SUBSET Objects]
    BY <2>1, TakeOutTypes
  <2>3. hdl' \in [Threads -> 0 .. MaxEpoch]
    BY <1>c, <1>d, <2>1 DEF TypeOK
  <2>4. pc' \in [Threads -> Labels]
    BY <2>1, GotoType
  <2>5. UNCHANGED <<shared, scanned, ae, count, deinit, spare, ran, ghost>>
    BY <1>3 DEF Unlink
  <2>. QED BY <2>2, <2>3, <2>4, <2>5 DEF TypeOK, shared, ghost
<1>4. ASSUME NEW t \in Threads, NEW o \in Objects, HandleDealloc(t, o) PROVE TypeOK'
  <2>. DEFINE full == Append(cache[hdl[t]], o)
  <2>0. hdl[t] \in Handles /\ cache \in [Handles -> Seq(Objects)]
    BY <1>4, <1>c DEF HandleDealloc, CallOK, CallOKFor, TypeOK
  <2>1. full \in Seq(Objects) /\ <<>> \in Seq(Objects)
    BY <2>0, AppendProperties, EmptySeq
  <2>2. full \in Seq(Objects \cup Callbacks)
    BY <2>1
  <2>3. /\ \/ Record(t, full) /\ cache' = [cache EXCEPT ![hdl[t]] = <<>>]
           \/ cache' = [cache EXCEPT ![hdl[t]] = full] /\ UNCHANGED limbo
        /\ DeallocReturns(t)
        /\ UNCHANGED <<globalEpoch, handles, minEpoch, scanned, ae, count, client, ghost>>
    BY <1>4 DEF HandleDealloc
  <2>. HIDE DEF full
  <2>4. limbo' \in [Threads -> Seq(Element)]
    <3>1. limbo \in [Threads -> Seq(Element)]
      BY DEF TypeOK
    <3>. QED BY <2>2, <2>3, <3>1, RecordType
  <2>5. cache' \in [Handles -> Seq(Objects)]
    BY <2>0, <2>1, <2>3
  <2>6. /\ pc' \in [Threads -> Labels]
        /\ obj' \in [Threads -> SUBSET Objects]
        /\ hdl' \in [Threads -> 0 .. MaxEpoch]
    BY <2>3, DeallocReturnsTypes
  <2>. QED BY <2>3, <2>4, <2>5, <2>6 DEF TypeOK, client, ghost
<1>5. ASSUME NEW t \in Threads, NEW o \in Objects, ThreadDealloc(t, o) PROVE TypeOK'
  <2>1. limbo' \in [Threads -> Seq(Element)]
    BY <1>5, <1>a, RecordType DEF ThreadDealloc
  <2>2. /\ pc' \in [Threads -> Labels]
        /\ obj' \in [Threads -> SUBSET Objects]
        /\ hdl' \in [Threads -> 0 .. MaxEpoch]
    BY <1>5, DeallocReturnsTypes DEF ThreadDealloc
  <2>3. UNCHANGED <<globalEpoch, handles, minEpoch, cache, scanned, ae, count, client, ghost>>
    BY <1>5 DEF ThreadDealloc
  <2>. QED BY <2>1, <2>2, <2>3 DEF TypeOK, client, ghost
<1>6. ASSUME NEW t \in Threads, NEW c \in Callbacks, RegisterRcu(t, c) PROVE TypeOK'
  <2>1. limbo' \in [Threads -> Seq(Element)]
    BY <1>6, <1>b, RecordType DEF RegisterRcu
  <2>2. spare' \in SUBSET Callbacks
    BY <1>6 DEF RegisterRcu, TypeOK
  <2>3. UNCHANGED <<globalEpoch, handles, minEpoch, cache, local, deinit, ran, linked, blockers,
                    ghost>>
    BY <1>6 DEF RegisterRcu
  <2>. QED BY <2>1, <2>2, <2>3 DEF TypeOK, local, ghost
<1>7. ASSUME NEW t \in Threads, NEW h \in RangeOf(handles[t]), DeleteHandle(t, h)
      PROVE TypeOK'
  <2>1. h \in Handles /\ h \in 0 .. MaxEpoch
    BY <1>c, <1>d
  <2>2. cache \in [Handles -> Seq(Objects)] /\ cache[h] \in Seq(Objects \cup Callbacks)
    BY <2>1 DEF TypeOK
  <2>3. limbo' \in [Threads -> Seq(Element)]
    BY <1>7, <2>2, RecordType DEF DeleteHandle
  <2>4. cache' \in [Handles -> Seq(Objects)]
    BY <1>7, <2>2, EmptySeq DEF DeleteHandle
  <2>5. hdl' \in [Threads -> 0 .. MaxEpoch]
    BY <1>7, <2>1 DEF DeleteHandle, TypeOK
  <2>6. pc' \in [Threads -> Labels]
    BY <1>7, GotoType DEF DeleteHandle
  <2>7. UNCHANGED <<globalEpoch, handles, minEpoch, obj, scanned, ae, count, client, ghost>>
    BY <1>7 DEF DeleteHandle
  <2>. QED BY <2>3, <2>4, <2>5, <2>6, <2>7 DEF TypeOK, client, ghost
<1>8. ASSUME NEW t \in Threads, UnlinkHandle(t) PROVE TypeOK'
  <2>. DEFINE left == Without(handles[t], hdl[t])
  <2>1. handles \in [Threads -> Seq(Handles)] /\ left \in Seq(Handles)
    BY <1>8, WithoutProperties DEF UnlinkHandle, CallOK, CallOKFor, TypeOK
  <2>. HIDE DEF left
  <2>2. Oldest(left) \in 0 .. MaxEpoch
    BY <2>1, OldestType
  <2>3. /\ handles' = [handles EXCEPT ![t] = left]
        /\ hdl' = [hdl EXCEPT ![t] = 0]
        /\ UNCHANGED <<globalEpoch, cache, limbo, obj, client, ghost>>
        /\ \/ minEpoch' = [minEpoch EXCEPT ![t] = Oldest(left)] /\ StartScan(t)
           \/ Goto(t, "idle") /\ UNCHANGED <<minEpoch, scanned, ae, count>>
    BY <1>8 DEF UnlinkHandle, left
  <2>4. handles' \in [Threads -> Seq(Handles)] /\ hdl' \in [Threads -> 0 .. MaxEpoch]
    BY <2>1, <2>3, ConstantsOK DEF TypeOK
  <2>5. CASE minEpoch' = [minEpoch EXCEPT ![t] = Oldest(left)] /\ StartScan(t)
    <3>1. minEpoch' \in [Threads -> 0 .. MaxEpoch]
      BY <2>2, <2>5 DEF TypeOK
    <3>2. /\ pc' \in [Threads -> Labels]
          /\ scanned' \in [Threads -> 0 .. NThreads]
          /\ ae' \in [Threads -> 1 .. NoEpoch]
          /\ count' \in [Threads -> 0 .. Budget]
      BY <2>5, StartScanTypes
    <3>. QED BY <2>3, <2>4, <3>1, <3>2 DEF TypeOK, client, ghost
  <2>6. CASE Goto(t, "idle") /\ UNCHANGED <<minEpoch, scanned, ae, count>>
    <3>1. pc' \in [Threads -> Labels]
      BY <2>6, GotoType
    <3>. QED BY <2>3, <2>4, <2>6, <3>1 DEF TypeOK, client, ghost
  <2>. QED BY <2>3, <2>5, <2>6
<1>9. ASSUME NEW t \in Threads, HardFree(t) \/ DestroyLoop(t) PROVE TypeOK'
  <2>1. StartScan(t) /\ UNCHANGED <<shared, hdl, obj, client, ghost>>
    BY <1>9 DEF HardFree, DestroyLoop
  <2>2. /\ pc' \in [Threads -> Labels]
        /\ scanned' \in [Threads -> 0 .. NThreads]
        /\ ae' \in [Threads -> 1 .. NoEpoch]
        /\ count' \in [Threads -> 0 .. Budget]
    BY <2>1, StartScanTypes
  <2>. QED BY <2>1, <2>2 DEF TypeOK, shared, client, ghost
<1>10. ASSUME NEW t \in Threads, Scan(t) PROVE TypeOK'
  <2>0. scanned[t] \in 0 .. NThreads /\ scanned[t] < NThreads
    BY <1>10 DEF Scan, CallOK, CallOKFor, TypeOK
  <2>1. scanned[t] \in Threads /\ scanned[t] + 1 \in 0 .. NThreads
    BY <2>0, NextThread
  <2>2. ae' \in [Threads -> 1 .. NoEpoch]
    <3>. DEFINE m == minEpoch[scanned[t]]
                least == IF m # 0 /\ m < ae[t] THEN m ELSE ae[t]
    <3>1. ae \in [Threads -> 1 .. NoEpoch] /\ minEpoch \in [Threads -> 0 .. MaxEpoch]
      BY DEF TypeOK
    <3>2. least \in 1 .. NoEpoch
      BY <2>1, <3>1, LeastEpoch
    <3>3. ae' = [ae EXCEPT ![t] = least]
      BY <1>10, <3>1 DEF Scan
    <3>. HIDE DEF least
    <3>. QED BY <3>1, <3>2, <3>3
  <2>3. scanned' \in [Threads -> 0 .. NThreads]
    BY <1>10, <2>1 DEF Scan, TypeOK
  <2>4. pc' \in [Threads -> Labels]
    BY <1>10, GotoType DEF Scan
  <2>5. UNCHANGED <<shared, hdl, obj, count, client, ghost>>
    BY <1>10 DEF Scan
  <2>. QED BY <2>2, <2>3, <2>4, <2>5 DEF TypeOK, shared, client, ghost
<1>11. ASSUME NEW t \in Threads, NEW o \in Objects, Free(t, o) PROVE TypeOK'
  <2>1. limbo' \in [Threads -> Seq(Element)] /\ count' \in [Threads -> 0 .. Budget]
    BY <1>11, PopTypes DEF Free
  <2>2. freed' \in SUBSET Objects /\ samePass' \in SUBSET Objects
    BY <1>11 DEF Free, TypeOK
  <2>3. UNCHANGED <<globalEpoch, handles, minEpoch, cache, pc, hdl, obj, scanned, ae,
                    client, recorded>>
    BY <1>11 DEF Free
  <2>. QED BY <2>1, <2>2, <2>3 DEF TypeOK, client
<1>12. ASSUME NEW t \in Threads, NEW c \in Callbacks, FirstCall(t, c) PROVE TypeOK'
  <2>1. limbo \in [Threads -> Seq(Element)] /\ count \in [Threads -> 0 .. Budget]
    BY DEF TypeOK
  <2>2. Tail(limbo[t]) \in Seq(Element)
    BY <1>12, <2>1, HeadTailProperties DEF FirstCall, MayFree
  <2>3. Tail(limbo[t]) \o Elements(<<c>>) \in Seq(Element)
    BY <2>2, <1>b, RecordProperties
  <2>4. limbo' \in [Threads -> Seq(Element)]
    BY <1>12, <2>1, <2>3 DEF FirstCall
  <2>5. count[t] - 1 \in 0 .. Budget
    BY <1>12, <2>1, ConstantsOK DEF FirstCall, MayFree
  <2>6. count' \in [Threads -> 0 .. Budget]
    BY <1>12, <2>1, <2>5 DEF FirstCall
  <2>7. ran' \in SUBSET Callbacks
    BY <1>12 DEF FirstCall, TypeOK
  <2>8. UNCHANGED <<globalEpoch, handles, minEpoch, cache, pc, hdl, obj, scanned, ae,
                    deinit, spare, linked, blockers, ghost>>
    BY <1>12 DEF FirstCall
  <2>. QED BY <2>4, <2>6, <2>7, <2>8 DEF TypeOK, ghost
<1>13. ASSUME NEW t \in Threads, NEW c \in Callbacks, RunCallback(t, c) PROVE TypeOK'
  <2>1. limbo' \in [Threads -> Seq(Element)] /\ count' \in [Threads -> 0 .. Budget]
    BY <1>13, PopTypes DEF RunCallback
  <2>2. pc' \in [Threads -> Labels]
    BY <1>13, GotoType DEF RunCallback
  <2>3. UNCHANGED <<globalEpoch, handles, minEpoch, cache, hdl, obj, scanned, ae, client, ghost>>
    BY <1>13 DEF RunCallback
  <2>. QED BY <2>1, <2>2, <2>3 DEF TypeOK, client, ghost
<1>14. ASSUME NEW t \in Threads, NEW o \in Objects, CallbackUnlink(t, o) PROVE TypeOK'
  <2>1. TakeOut(t, o) /\ Goto(t, "record")
    BY <1>14 DEF CallbackUnlink
  <2>2. /\ linked' \in SUBSET Objects
        /\ blockers' \in [Objects -> SUBSET Handles]
        /\ obj' \in [Threads -> SUBSET Objects]
    BY <2>1, TakeOutTypes
  <2>3. pc' \in [Threads -> Labels]
    BY <2>1, GotoType
  <2>4. UNCHANGED <<shared, hdl, scanned, ae, count, deinit, spare, ran, ghost>>
    BY <1>14 DEF CallbackUnlink
  <2>. QED BY <2>2, <2>3, <2>4 DEF TypeOK, shared, ghost
<1>15. ASSUME NEW t \in Threads, NEW o \in Objects, CallbackRecord(t, o) PROVE TypeOK'
  <2>1. limbo' \in [Threads -> Seq(Element)]
    BY <1>15, <1>a, RecordType DEF CallbackRecord
  <2>2. recorded' \in [Threads -> SUBSET Objects] /\ obj' \in [Threads -> SUBSET Objects]
    BY <1>15 DEF CallbackRecord, TypeOK
  <2>3. pc' \in [Threads -> Labels]
    BY <1>15, GotoType DEF CallbackRecord
  <2>4. UNCHANGED <<globalEpoch, handles, minEpoch, cache, hdl, scanned, ae, count, client,
                    freed, samePass>>
    BY <1>15 DEF CallbackRecord
  <2>. QED BY <2>1, <2>2, <2>3, <2>4 DEF TypeOK, client
<1>16. ASSUME NEW t \in Threads, CallbackReturns(t) PROVE TypeOK'
  <2>1. pc' \in [Threads -> Labels]
    BY <1>16, GotoType DEF CallbackReturns
  <2>2. UNCHANGED <<shared, hdl, obj, scanned, ae, count, client, ghost>>
    BY <1>16 DEF CallbackReturns
  <2>. QED BY <2>1, <2>2 DEF TypeOK, shared, client, ghost
<1>17. ASSUME NEW t \in Threads, HardFreeReturns(t) PROVE TypeOK'
  <2>1. pc' \in [Threads -> Labels]
    BY <1>17, GotoType DEF HardFreeReturns
  <2>2. /\ scanned' \in [Threads -> 0 .. NThreads]
        /\ ae' \in [Threads -> 1 .. NoEpoch]
        /\ count' \in [Threads -> 0 .. Budget]
    BY <1>17, ConstantsOK DEF HardFreeReturns, TypeOK, NoEpoch
  <2>3. recorded' \in [Threads -> SUBSET Objects]
    BY <1>17 DEF HardFreeReturns, TypeOK
  <2>4. UNCHANGED <<shared, hdl, obj, client, freed, samePass>>
    BY <1>17 DEF HardFreeReturns
  <2>. QED BY <2>1, <2>2, <2>3, <2>4 DEF TypeOK, shared, client
<1>18. ASSUME Deinit PROVE TypeOK'
  <2>1. pc' \in [Threads -> Labels] /\ deinit' \in BOOLEAN
    BY <1>18 DEF Deinit
  <2>2. UNCHANGED <<shared, hdl, obj, scanned, ae, count, spare, ran, linked, blockers, ghost>>
    BY <1>18 DEF Deinit
  <2>. QED BY <2>1, <2>2 DEF TypeOK, shared, ghost
<1>19. ASSUME NEW t \in Threads, DestroyReturns(t) PROVE TypeOK'
  <2>1. pc' \in [Threads -> Labels]
    BY <1>19 DEF DestroyReturns, TypeOK
  <2>2. UNCHANGED <<shared, hdl, obj, scanned, ae, count, client, ghost>>
    BY <1>19 DEF DestroyReturns
  <2>. QED BY <2>1, <2>2 DEF TypeOK, shared, client, ghost
<1>20. CASE UNCHANGED vars
  BY <1>20 DEF TypeOK, vars, shared, local, client, ghost
<1>. QED
  BY <1>1, <1>2, <1>3, <1>4, <1>5, <1>6, <1>7, <1>8, <1>9, <1>10, <1>11, <1>12, <1>13,
     <1>14, <1>15, <1>16, <1>17, <1>18, <1>19, <1>20 DEF Next, Call, Proceed


-------------------------------------------------------------------------------
(* Handles.                                                                 *)

\* The steps that touch neither a handle nor what blocks an object.
LEMMA HandlesFrame ==
  ASSUME NEW t \in Threads,
         \/ \E o \in Objects : HandleDealloc(t, o) \/ ThreadDealloc(t, o) \/ Free(t, o)
                               \/ CallbackRecord(t, o)
         \/ \E c \in Callbacks : RegisterRcu(t, c) \/ FirstCall(t, c) \/ RunCallback(t, c)
         \/ \E h \in RangeOf(handles[t]) : DeleteHandle(t, h)
         \/ HardFree(t) \/ DestroyLoop(t) \/ Scan(t) \/ CallbackReturns(t)
         \/ HardFreeReturns(t) \/ DestroyReturns(t)
  PROVE  UNCHANGED <<globalEpoch, handles, minEpoch, blockers>>
<1>1. ASSUME NEW o \in Objects, HandleDealloc(t, o) \/ ThreadDealloc(t, o) \/ Free(t, o)
                                \/ CallbackRecord(t, o)
      PROVE  UNCHANGED <<globalEpoch, handles, minEpoch, blockers>>
  BY <1>1 DEF HandleDealloc, ThreadDealloc, Free, CallbackRecord, client
<1>2. ASSUME NEW c \in Callbacks, RegisterRcu(t, c) \/ FirstCall(t, c) \/ RunCallback(t, c)
      PROVE  UNCHANGED <<globalEpoch, handles, minEpoch, blockers>>
  BY <1>2 DEF RegisterRcu, FirstCall, RunCallback, client
<1>3. ASSUME NEW h \in RangeOf(handles[t]), DeleteHandle(t, h)
      PROVE  UNCHANGED <<globalEpoch, handles, minEpoch, blockers>>
  BY <1>3 DEF DeleteHandle, client
<1>4. ASSUME \/ HardFree(t) \/ DestroyLoop(t) \/ Scan(t) \/ CallbackReturns(t)
             \/ HardFreeReturns(t) \/ DestroyReturns(t)
      PROVE  UNCHANGED <<globalEpoch, handles, minEpoch, blockers>>
  BY <1>4 DEF HardFree, DestroyLoop, Scan, CallbackReturns, HardFreeReturns, DestroyReturns,
              shared, client
<1>. QED BY <1>1, <1>2, <1>3, <1>4

\* A handle between the atomic add and the link stays as it is while its thread
\* does nothing else.
LEMMA PublishFrame ==
  ASSUME TypeOK, [Next]_vars, NEW u \in Threads, pc'[u] = "publish",
         ~ \E t \in Threads : NewHandle(t)
  PROVE  pc[u] = "publish" /\ hdl'[u] = hdl[u]
<1>. USE DEF Goto
<1>p. pc \in [Threads -> Labels] /\ hdl \in [Threads -> 0 .. MaxEpoch]
  BY DEF TypeOK
<1>1. ASSUME NEW t \in Threads, Publish(t) \/ UnlinkHandle(t)
      PROVE  pc[u] = "publish" /\ hdl'[u] = hdl[u]
  BY <1>p, <1>1 DEF Publish, UnlinkHandle, StartScan
<1>2. ASSUME NEW t \in Threads, NEW h, NEW o, Unlink(t, h, o) \/ DeleteHandle(t, h)
      PROVE  pc[u] = "publish" /\ hdl'[u] = hdl[u]
  BY <1>p, <1>2 DEF Unlink, DeleteHandle
<1>3. ASSUME NEW t \in Threads, NEW o, \/ HandleDealloc(t, o) \/ ThreadDealloc(t, o)
                                       \/ CallbackUnlink(t, o) \/ CallbackRecord(t, o)
      PROVE  pc[u] = "publish" /\ hdl'[u] = hdl[u]
  BY <1>p, <1>3 DEF HandleDealloc, ThreadDealloc, DeallocReturns, CallbackUnlink, CallbackRecord
<1>4. ASSUME NEW t \in Threads, NEW o, \/ RegisterRcu(t, o) \/ RunCallback(t, o)
                                       \/ FirstCall(t, o) \/ Free(t, o)
      PROVE  pc[u] = "publish" /\ hdl'[u] = hdl[u]
  BY <1>p, <1>4 DEF RegisterRcu, RunCallback, PopElement, FirstCall, Free, local
<1>5. ASSUME NEW t \in Threads, HardFree(t) \/ DestroyLoop(t) \/ Scan(t) \/ CallbackReturns(t)
      PROVE  pc[u] = "publish" /\ hdl'[u] = hdl[u]
  BY <1>p, <1>5 DEF HardFree, DestroyLoop, StartScan, Scan, CallbackReturns
<1>6. ASSUME NEW t \in Threads, HardFreeReturns(t) \/ DestroyReturns(t)
      PROVE  pc[u] = "publish" /\ hdl'[u] = hdl[u]
  BY <1>p, <1>6 DEF HardFreeReturns, DestroyReturns
<1>7. ASSUME Deinit PROVE pc[u] = "publish" /\ hdl'[u] = hdl[u]
  BY <1>7 DEF Deinit
<1>8. CASE UNCHANGED vars
  BY <1>8 DEF vars, local
<1>. QED BY <1>1, <1>2, <1>3, <1>4, <1>5, <1>6, <1>7, <1>8 DEF Next, Call, Proceed

\* The limbo part of EpochsIssued needs what the lists hold: see NewElements.
HandleEpochsIssued ==
    /\ \A t \in Threads : RangeOf(handles[t]) \subseteq Issued
    /\ \A o \in Objects : blockers[o] \subseteq Issued

HandleInv == HandleEpochsIssued /\ OldestFirst /\ MinEpochIsOldest
             /\ FreshUntilPublished /\ OneOwner

\* One handle list changes: what is left to show of the others.
LEMMA HandleInvFrame ==
  ASSUME TypeOK, HandleInv, [Next]_vars,
         ~ \E t \in Threads : NewHandle(t),
         UNCHANGED <<globalEpoch, handles, minEpoch, blockers>>
  PROVE  HandleInv'
<1>1. \A u \in Threads : pc'[u] = "publish" => pc[u] = "publish" /\ hdl'[u] = hdl[u]
  BY PublishFrame
<1>2. HandleEpochsIssued' /\ OldestFirst' /\ MinEpochIsOldest' /\ OneOwner'
  BY DEF HandleInv, HandleEpochsIssued, OldestFirst, MinEpochIsOldest, OneOwner, Issued
<1>3. FreshUntilPublished'
  BY <1>1 DEF HandleInv, FreshUntilPublished, Issued, Active
<1>. QED BY <1>2, <1>3 DEF HandleInv

LEMMA NewHandleKeeps ==
  ASSUME TypeOK, HandleInv, NEW t \in Threads, NewHandle(t)
  PROVE  HandleInv'
<1>1. /\ globalEpoch' = globalEpoch + 1
      /\ hdl' = [hdl EXCEPT ![t] = globalEpoch + 1]
      /\ pc' = [pc EXCEPT ![t] = "publish"]
      /\ UNCHANGED <<handles, minEpoch, blockers>>
  BY DEF NewHandle, Goto, client
<1>2. globalEpoch \in Nat
  BY DEF TypeOK
<1>3. Issued \subseteq Issued' /\ globalEpoch + 1 \in Issued' \ Issued
      /\ \A h \in Issued : h < globalEpoch + 1
  BY <1>1, <1>2 DEF Issued
<1>4. HandleEpochsIssued' /\ OldestFirst' /\ MinEpochIsOldest' /\ OneOwner'
  BY <1>1, <1>3 DEF HandleInv, HandleEpochsIssued, OldestFirst, MinEpochIsOldest, OneOwner
<1>5. FreshUntilPublished'
  <2>. SUFFICES ASSUME NEW u \in Threads, pc'[u] = "publish"
                PROVE  /\ hdl'[u] \in Issued' \ Active
                       /\ \A o \in Objects : hdl'[u] \notin blockers[o]
                       /\ \A h \in RangeOf(handles[u]) : h < hdl'[u]
                       /\ \A v \in Threads : pc'[v] = "publish" /\ v # u => hdl'[v] # hdl'[u]
    BY <1>1 DEF FreshUntilPublished, Active
  <2>1. hdl'[t] = globalEpoch + 1 /\ \A v \in Threads : v # t => hdl'[v] = hdl[v] /\ pc'[v] = pc[v]
    BY <1>1 DEF TypeOK
  <2>2. Active \subseteq Issued
    BY DEF HandleInv, HandleEpochsIssued, Active
  <2>3. CASE u = t
    BY <1>3, <2>1, <2>2, <2>3 DEF HandleInv, HandleEpochsIssued, FreshUntilPublished
  <2>4. CASE u # t
    BY <1>3, <2>1, <2>4 DEF HandleInv, FreshUntilPublished
  <2>. QED BY <2>3, <2>4
<1>. QED BY <1>4, <1>5 DEF HandleInv

LEMMA PublishKeeps ==
  ASSUME TypeOK, HandleInv, NEW t \in Threads, Publish(t)
  PROVE  HandleInv'
<1>. DEFINE h == hdl[t]
            longer == Append(handles[t], h)
<1>1. /\ pc[t] = "publish"
      /\ handles' = [handles EXCEPT ![t] = longer]
      /\ minEpoch' = [minEpoch EXCEPT ![t] = IF handles[t] = <<>> THEN h ELSE minEpoch[t]]
      /\ pc' = [pc EXCEPT ![t] = "idle"]
      /\ hdl' = [hdl EXCEPT ![t] = 0]
      /\ UNCHANGED <<globalEpoch, blockers>>
  BY DEF Publish, Goto, client
<1>2. /\ h \in Issued \ Active
      /\ \A o \in Objects : h \notin blockers[o]
      /\ \A k \in RangeOf(handles[t]) : k < h
      /\ \A u \in Threads : pc[u] = "publish" /\ u # t => hdl[u] # h
  BY <1>1 DEF HandleInv, FreshUntilPublished
<1>3. h \in Handles
  BY <1>2 DEF Issued, Handles, TypeOK
<1>4. /\ Ascending(longer)
      /\ RangeOf(longer) = RangeOf(handles[t]) \cup {h}
      /\ Oldest(longer) = IF handles[t] = <<>> THEN h ELSE Oldest(handles[t])
  BY <1>2, <1>3, AppendAscending DEF TypeOK, HandleInv, OldestFirst
<1>5. handles'[t] = longer /\ \A u \in Threads \ {t} : handles'[u] = handles[u]
  BY <1>1 DEF TypeOK
<1>. HIDE DEF longer, h
<1>6. HandleEpochsIssued'
  BY <1>1, <1>2, <1>4, <1>5 DEF HandleInv, HandleEpochsIssued, Issued
<1>7. OldestFirst'
  BY <1>4, <1>5 DEF HandleInv, OldestFirst
<1>8. MinEpochIsOldest'
  <2>. SUFFICES ASSUME NEW u \in Threads PROVE minEpoch'[u] = Oldest(handles'[u])
    BY DEF MinEpochIsOldest
  <2>1. CASE u = t
    BY <1>1, <1>4, <1>5, <2>1 DEF TypeOK, HandleInv, MinEpochIsOldest
  <2>2. CASE u # t
    BY <1>1, <1>5, <2>2 DEF TypeOK, HandleInv, MinEpochIsOldest
  <2>. QED BY <2>1, <2>2
<1>9. \A u \in Threads : RangeOf(handles'[u]) \subseteq RangeOf(handles[u]) \cup {h}
  BY <1>4, <1>5
<1>10. \A u \in Threads : pc'[u] = "publish" =>
          u # t /\ pc[u] = "publish" /\ hdl'[u] = hdl[u] /\ hdl[u] # h
  BY <1>1, <1>2 DEF TypeOK
<1>11. FreshUntilPublished'
  <2>1. \A k \in Active' : k \in Active \cup {h}
    BY <1>9 DEF Active
  <2>2. Issued' = Issued
    BY <1>1 DEF Issued
  <2>. QED BY <1>1, <1>5, <1>10, <2>1, <2>2 DEF HandleInv, FreshUntilPublished
<1>12. OneOwner'
  <2>. SUFFICES ASSUME NEW u \in Threads, NEW v \in Threads,
                       NEW k \in RangeOf(handles'[u]) \cap RangeOf(handles'[v])
                PROVE  u = v
    BY DEF OneOwner
  <2>1. \A w \in Threads : h \notin RangeOf(handles[w])
    BY <1>2 DEF Active
  <2>2. CASE k = h
    BY <1>5, <2>1, <2>2
  <2>3. CASE k # h
    BY <1>9, <2>3 DEF HandleInv, OneOwner
  <2>. QED BY <2>2, <2>3
<1>. QED BY <1>6, <1>7, <1>8, <1>11, <1>12 DEF HandleInv

LEMMA TakeOutKeeps ==
  ASSUME TypeOK, HandleInv, [Next]_vars, ~ \E t \in Threads : NewHandle(t),
         NEW t \in Threads, NEW o \in Objects, TakeOut(t, o),
         UNCHANGED <<globalEpoch, handles, minEpoch>>
  PROVE  HandleInv'
<1>1. \A u \in Threads : pc'[u] = "publish" => pc[u] = "publish" /\ hdl'[u] = hdl[u]
  BY PublishFrame
<1>2. \A q \in Objects : blockers'[q] = blockers[q] \/ blockers'[q] = Active
  BY DEF TakeOut, TypeOK
<1>3. Active \subseteq Issued
  BY DEF HandleInv, HandleEpochsIssued, Active
<1>4. HandleEpochsIssued'
  BY <1>2, <1>3 DEF HandleInv, HandleEpochsIssued, Issued
<1>5. OldestFirst' /\ MinEpochIsOldest' /\ OneOwner'
  BY DEF HandleInv, OldestFirst, MinEpochIsOldest, OneOwner
<1>6. FreshUntilPublished'
  BY <1>1, <1>2 DEF HandleInv, FreshUntilPublished, Issued, Active
<1>. QED BY <1>4, <1>5, <1>6 DEF HandleInv

\* What a deletion does to the handle lists.
LEMMA UnlinkHandleRemoves ==
  ASSUME TypeOK, CallOK, HandleInv, NEW t \in Threads, UnlinkHandle(t)
  PROVE  /\ hdl[t] \in RangeOf(handles[t])
         /\ handles' = [handles EXCEPT ![t] = Without(handles[t], hdl[t])]
         /\ Ascending(handles'[t])
         /\ RangeOf(handles'[t]) = RangeOf(handles[t]) \ {hdl[t]}
         /\ \A u \in Threads \ {t} : handles'[u] = handles[u]
         /\ Active' = Active \ {hdl[t]}
<1>1. hdl[t] \in RangeOf(handles[t])
  BY DEF UnlinkHandle, CallOK, CallOKFor
<1>2. handles' = [handles EXCEPT ![t] = Without(handles[t], hdl[t])]
  BY DEF UnlinkHandle
<1>3. handles'[t] = Without(handles[t], hdl[t]) /\ \A u \in Threads \ {t} : handles'[u] = handles[u]
  BY <1>2 DEF TypeOK
<1>4. Ascending(handles'[t]) /\ RangeOf(handles'[t]) = RangeOf(handles[t]) \ {hdl[t]}
  BY <1>1, <1>3, WithoutAscending DEF TypeOK, HandleInv, OldestFirst
<1>5. \A u \in Threads \ {t} : hdl[t] \notin RangeOf(handles[u])
  BY <1>1 DEF HandleInv, OneOwner
<1>6. Active' = Active \ {hdl[t]}
  BY <1>3, <1>4, <1>5 DEF Active
<1>. QED BY <1>1, <1>2, <1>3, <1>4, <1>6

LEMMA UnlinkHandleKeeps ==
  ASSUME TypeOK, CallOK, HandleInv, [Next]_vars, ~ \E t \in Threads : NewHandle(t),
         NEW t \in Threads, UnlinkHandle(t)
  PROVE  HandleInv'
<1>1. /\ handles' = [handles EXCEPT ![t] = Without(handles[t], hdl[t])]
      /\ Ascending(handles'[t])
      /\ RangeOf(handles'[t]) = RangeOf(handles[t]) \ {hdl[t]}
      /\ \A u \in Threads \ {t} : handles'[u] = handles[u]
      /\ Active' = Active \ {hdl[t]}
  BY UnlinkHandleRemoves
<1>2. UNCHANGED <<globalEpoch, blockers>>
  BY DEF UnlinkHandle, client
<1>3. \A u \in Threads : pc'[u] = "publish" => pc[u] = "publish" /\ hdl'[u] = hdl[u]
  BY PublishFrame
<1>4. \A u \in Threads : RangeOf(handles'[u]) \subseteq RangeOf(handles[u])
  BY <1>1
<1>5. HandleEpochsIssued'
  BY <1>2, <1>4 DEF HandleInv, HandleEpochsIssued, Issued
<1>6. OldestFirst'
  BY <1>1 DEF HandleInv, OldestFirst
<1>7. MinEpochIsOldest'
  <2>. SUFFICES ASSUME NEW u \in Threads PROVE minEpoch'[u] = Oldest(handles'[u])
    BY DEF MinEpochIsOldest
  <2>. DEFINE left == Without(handles[t], hdl[t])
  <2>0. handles'[t] = left
    BY <1>1 DEF TypeOK
  <2>1. \/ Oldest(left) # Oldest(handles[t]) /\ minEpoch' = [minEpoch EXCEPT ![t] = Oldest(left)]
        \/ Oldest(left) = Oldest(handles[t]) /\ minEpoch' = minEpoch
    BY DEF UnlinkHandle
  <2>. HIDE DEF left
  <2>2. CASE u = t
    BY <2>0, <2>1, <2>2 DEF TypeOK, HandleInv, MinEpochIsOldest
  <2>3. CASE u # t
    BY <1>1, <2>1, <2>3 DEF TypeOK, HandleInv, MinEpochIsOldest
  <2>. QED BY <2>2, <2>3
<1>8. FreshUntilPublished'
  BY <1>1, <1>2, <1>3, <1>4 DEF HandleInv, FreshUntilPublished, Issued
<1>9. OneOwner'
  BY <1>4 DEF HandleInv, OneOwner
<1>. QED BY <1>5, <1>6, <1>7, <1>8, <1>9 DEF HandleInv

\* Epochs stay ordered, unique and below global_epoch.
LEMMA NextHandleInv ==
  ASSUME TypeOK, CallOK, HandleInv, [Next]_vars
  PROVE  HandleInv'
<1>1. CASE \E t \in Threads : NewHandle(t)
  BY <1>1, NewHandleKeeps
<1>2. CASE ~ \E t \in Threads : NewHandle(t)
  <2>1. ASSUME NEW t \in Threads, Publish(t) PROVE HandleInv'
    BY <2>1, PublishKeeps
  <2>2. ASSUME NEW t \in Threads, UnlinkHandle(t) PROVE HandleInv'
    BY <1>2, <2>2, UnlinkHandleKeeps
  <2>3. ASSUME NEW t \in Threads, NEW h, NEW o \in Objects, Unlink(t, h, o) PROVE HandleInv'
    BY <1>2, <2>3, TakeOutKeeps DEF Unlink, shared
  <2>4. ASSUME NEW t \in Threads, NEW o \in Objects, CallbackUnlink(t, o) PROVE HandleInv'
    BY <1>2, <2>4, TakeOutKeeps DEF CallbackUnlink, shared
  <2>5. CASE UNCHANGED <<globalEpoch, handles, minEpoch, blockers>>
    BY <1>2, <2>5, HandleInvFrame
  <2>6. ASSUME Deinit PROVE UNCHANGED <<globalEpoch, handles, minEpoch, blockers>>
    BY <2>6 DEF Deinit, shared
  <2>7. CASE UNCHANGED vars
    BY <2>5, <2>7 DEF vars, shared, client
  <2>. QED BY <1>2, <2>1, <2>2, <2>3, <2>4, <2>5, <2>6, <2>7, HandlesFrame DEF Next, Call, Proceed
<1>. QED BY <1>1, <1>2

-------------------------------------------------------------------------------
(* What is recorded.                                                        *)

\* An element a step adds to the limbo list of t: it carries the current epoch,
\* and an object comes from the caller or from a cache.  Within hard_free only
\* a callback's objects are added, and noted in recorded.
Added(t, e) ==
    /\ e.epoch = globalEpoch
    /\ e.item \in Objects => /\ \/ \E u \in Threads : e.item \in obj[u]
                                \/ \E h \in Handles : e.item \in RangeOf(cache[h])
                             /\ InPass(t) => e.item \in recorded'[t]

LEMMA RecordRange ==
  ASSUME TypeOK, NEW s \in Seq(Objects \cup Callbacks), NEW old \in Seq(Element)
  PROVE  \A e \in RangeOf(old \o Elements(s)) :
            e \in RangeOf(old) \/ (e.epoch = globalEpoch /\ e.item \in RangeOf(s))
<1>. DEFINE new == old \o Elements(s)
<1>1. /\ Len(old) \in Nat /\ Len(s) \in Nat
      /\ Len(new) = Len(old) + Len(s)
      /\ \A i \in 1 .. Len(old) : new[i] = old[i]
      /\ \A i \in 1 .. Len(s) : new[Len(old) + i] = [item |-> s[i], epoch |-> globalEpoch]
  BY RecordProperties
<1>. HIDE DEF new
<1>2. SUFFICES ASSUME NEW i \in 1 .. Len(new)
      PROVE new[i] \in RangeOf(old) \/ (new[i].epoch = globalEpoch /\ new[i].item \in RangeOf(s))
  BY DEF RangeOf, new
<1>3. CASE i <= Len(old)
  BY <1>1, <1>3 DEF RangeOf
<1>4. CASE i > Len(old)
  <2>. DEFINE k == i - Len(old)
  <2>1. k \in 1 .. Len(s) /\ i = Len(old) + k
    BY <1>1, <1>4
  <2>. HIDE DEF k
  <2>2. new[i] = [item |-> s[k], epoch |-> globalEpoch]
    BY <1>1, <2>1
  <2>. QED BY <2>1, <2>2 DEF RangeOf
<1>. QED BY <1>1, <1>3, <1>4

LEMMA TailRange ==
  ASSUME NEW S, NEW s \in Seq(S), s # <<>>
  PROVE  /\ RangeOf(Tail(s)) \subseteq RangeOf(s)
         /\ Head(s) \in RangeOf(s)
BY TailProperties DEF RangeOf

LEMMA NewElements ==
  ASSUME TypeOK, CallOK, [Next]_vars, NEW u \in Threads
  PROVE  \A e \in RangeOf(limbo'[u]) : e \in RangeOf(limbo[u]) \/ Added(u, e)
<1>. DEFINE Goal == \A e \in RangeOf(limbo'[u]) : e \in RangeOf(limbo[u]) \/ Added(u, e)
<1>a. ASSUME NEW t \in Threads, NEW s \in Seq(Objects \cup Callbacks), NEW old \in Seq(Element),
             limbo' = [limbo EXCEPT ![t] = old \o Elements(s)],
             RangeOf(old) \subseteq RangeOf(limbo[t]),
             \A x \in RangeOf(s) : x \in Objects =>
                /\ (\E v \in Threads : x \in obj[v]) \/ (\E h \in Handles : x \in RangeOf(cache[h]))
                /\ InPass(t) => x \in recorded'[t]
      PROVE  Goal
  <2>1. CASE u = t
    <3>1. limbo'[u] = old \o Elements(s)
      BY <1>a, <2>1 DEF TypeOK
    <3>2. \A e \in RangeOf(old \o Elements(s)) :
            e \in RangeOf(old) \/ (e.epoch = globalEpoch /\ e.item \in RangeOf(s))
      BY RecordRange
    <3>. QED BY <1>a, <2>1, <3>1, <3>2 DEF Added
  <2>2. CASE u # t
    <3>1. limbo'[u] = limbo[u]
      BY <1>a, <2>2 DEF TypeOK
    <3>. QED BY <3>1
  <2>. QED BY <2>1, <2>2
<1>b. ASSUME NEW t \in Threads, PopElement(t) PROVE Goal
  <2>1. limbo[t] # <<>> /\ limbo' = [limbo EXCEPT ![t] = Tail(limbo[t])]
    BY <1>b DEF PopElement, MayFree
  <2>2. RangeOf(Tail(limbo[t])) \subseteq RangeOf(limbo[t])
    BY <2>1, TailRange DEF TypeOK
  <2>. QED BY <2>1, <2>2 DEF TypeOK
<1>c. ASSUME UNCHANGED limbo PROVE Goal
  BY <1>c
<1>d. \A x : RangeOf(<<x>>) = {x}
  BY DEF RangeOf
<1>e. \A t \in Threads : \A h \in RangeOf(handles[t]) : h \in Handles
  BY ElementOf DEF TypeOK
<1>. HIDE DEF Goal
<1>1. ASSUME NEW t \in Threads, NEW o \in Objects, HandleDealloc(t, o) PROVE Goal
  <2>. DEFINE full == Append(cache[hdl[t]], o)
  <2>1. hdl[t] \in Handles /\ ~InPass(t) /\ o \in obj[t]
    BY <1>1, <1>e DEF HandleDealloc, CallOK, CallOKFor, InPass
  <2>2. cache[hdl[t]] \in Seq(Objects)
    BY <2>1 DEF TypeOK
  <2>3. full \in Seq(Objects \cup Callbacks)
    BY <2>2, AppendProperties
  <2>4. \A x \in RangeOf(full) : x = o \/ x \in RangeOf(cache[hdl[t]])
    <3>1. /\ Len(cache[hdl[t]]) \in Nat
          /\ Len(full) = Len(cache[hdl[t]]) + 1
          /\ \A i \in 1 .. Len(cache[hdl[t]]) : full[i] = cache[hdl[t]][i]
          /\ full[Len(cache[hdl[t]]) + 1] = o
      BY <2>2, AppendProperties, LenProperties
    <3>. HIDE DEF full
    <3>. QED BY <3>1 DEF RangeOf
  <2>. HIDE DEF full
  <2>5. CASE Len(full) = CacheSize
    <3>1. limbo' = [limbo EXCEPT ![t] = limbo[t] \o Elements(full)]
      BY <1>1, <2>5 DEF HandleDealloc, Record, full
    <3>2. limbo[t] \in Seq(Element)
      BY DEF TypeOK
    <3>. QED BY <1>a, <2>1, <2>3, <2>4, <3>1, <3>2
  <2>6. CASE Len(full) # CacheSize
    <3>1. UNCHANGED limbo
      BY <1>1, <2>6 DEF HandleDealloc, full
    <3>. QED BY <1>c, <3>1
  <2>. QED BY <2>5, <2>6
<1>2. ASSUME NEW t \in Threads, NEW o \in Objects, ThreadDealloc(t, o) PROVE Goal
  <2>1. ~InPass(t) /\ o \in obj[t] /\ limbo' = [limbo EXCEPT ![t] = limbo[t] \o Elements(<<o>>)]
    BY <1>2 DEF ThreadDealloc, Record, InPass
  <2>2. limbo[t] \in Seq(Element) /\ <<o>> \in Seq(Objects \cup Callbacks)
    BY DEF TypeOK
  <2>3. \A x \in RangeOf(<<o>>) : x = o
    BY <1>d
  <2>. QED BY <1>a, <2>1, <2>2, <2>3
<1>3. ASSUME NEW t \in Threads, NEW c \in Callbacks, RegisterRcu(t, c) PROVE Goal
  <2>1. limbo' = [limbo EXCEPT ![t] = limbo[t] \o Elements(<<c>>)]
    BY <1>3 DEF RegisterRcu, Record
  <2>2. limbo[t] \in Seq(Element) /\ <<c>> \in Seq(Objects \cup Callbacks)
    BY DEF TypeOK
  <2>3. c \notin Objects
    BY ConstantsOK
  <2>. QED BY <1>a, <1>d, <2>1, <2>2, <2>3
<1>4. ASSUME NEW t \in Threads, NEW h \in RangeOf(handles[t]), DeleteHandle(t, h) PROVE Goal
  <2>1. h \in Handles
    BY <1>e
  <2>2. ~InPass(t) /\ limbo' = [limbo EXCEPT ![t] = limbo[t] \o Elements(cache[h])]
    BY <1>4 DEF DeleteHandle, Record, InPass
  <2>3. limbo[t] \in Seq(Element) /\ cache[h] \in Seq(Objects \cup Callbacks)
    BY <2>1 DEF TypeOK
  <2>. QED BY <1>a, <2>1, <2>2, <2>3
<1>5. ASSUME NEW t \in Threads, NEW o \in Objects, Free(t, o) PROVE Goal
  BY <1>5, <1>b DEF Free
<1>6. ASSUME NEW t \in Threads, NEW c \in Callbacks, RunCallback(t, c) PROVE Goal
  BY <1>6, <1>b DEF RunCallback
<1>7. ASSUME NEW t \in Threads, NEW c \in Callbacks, FirstCall(t, c) PROVE Goal
  <2>1. limbo[t] # <<>> /\ limbo' = [limbo EXCEPT ![t] = Tail(limbo[t]) \o Elements(<<c>>)]
    BY <1>7 DEF FirstCall, MayFree
  <2>2. Tail(limbo[t]) \in Seq(Element) /\ RangeOf(Tail(limbo[t])) \subseteq RangeOf(limbo[t])
    BY <2>1, TailRange, TailProperties DEF TypeOK
  <2>3. <<c>> \in Seq(Objects \cup Callbacks) /\ c \notin Objects
    BY ConstantsOK
  <2>. QED BY <1>a, <1>d, <2>1, <2>2, <2>3
<1>8. ASSUME NEW t \in Threads, NEW o \in Objects, CallbackRecord(t, o) PROVE Goal
  <2>1. /\ o \in obj[t] /\ limbo' = [limbo EXCEPT ![t] = limbo[t] \o Elements(<<o>>)]
        /\ o \in recorded'[t]
    BY <1>8 DEF CallbackRecord, Record, TypeOK
  <2>2. limbo[t] \in Seq(Element) /\ <<o>> \in Seq(Objects \cup Callbacks)
    BY DEF TypeOK
  <2>3. \A x \in RangeOf(<<o>>) : x = o
    BY <1>d
  <2>. QED BY <1>a, <2>1, <2>2, <2>3
<1>9. ASSUME NEW t \in Threads, NEW h, NEW o \in Objects, Unlink(t, h, o) \/ CallbackUnlink(t, o)
      PROVE  UNCHANGED limbo
  BY <1>9 DEF Unlink, CallbackUnlink, shared
<1>10. ASSUME NEW t \in Threads, \/ NewHandle(t) \/ Publish(t) \/ UnlinkHandle(t) \/ HardFree(t)
                                 \/ DestroyLoop(t)
       PROVE  UNCHANGED limbo
  BY <1>10 DEF NewHandle, Publish, UnlinkHandle, HardFree, DestroyLoop, shared
<1>11. ASSUME NEW t \in Threads, \/ Scan(t) \/ CallbackReturns(t) \/ HardFreeReturns(t)
                                 \/ DestroyReturns(t)
       PROVE  UNCHANGED limbo
  BY <1>11 DEF Scan, CallbackReturns, HardFreeReturns, DestroyReturns, shared
<1>12. ASSUME Deinit \/ UNCHANGED vars PROVE UNCHANGED limbo
  BY <1>12 DEF Deinit, vars, shared
<1>13. ASSUME NEW t \in Threads, Call(t) PROVE Goal
  BY <1>c, <1>3, <1>4, <1>9, <1>10, <1>13 DEF Call
<1>14. ASSUME NEW t \in Threads, Proceed(t) PROVE Goal
  BY <1>c, <1>1, <1>2, <1>5, <1>6, <1>7, <1>8, <1>9, <1>10, <1>11, <1>14 DEF Proceed
<1>15. Goal
  BY <1>c, <1>12, <1>13, <1>14 DEF Next
<1>. QED BY <1>15 DEF Goal

\* Which objects a step moves: unlinking is what takes an object out of linked
\* and sets its blockers; a cache gets what a caller holds; only the head of a
\* limbo list is freed.
WhereObjectsGo ==
    /\ \A x \in Objects : blockers'[x] = blockers[x] \/ x \in linked \ linked'
    /\ linked' \subseteq linked
    /\ \A u \in Threads : \A x \in obj'[u] : x \in obj[u] \/ x \in linked \ linked'
    /\ \A h \in Handles : \A x \in RangeOf(cache'[h]) :
          x \in RangeOf(cache[h]) \/ \E u \in Threads : x \in obj[u]

LEMMA ObjectsMove ==
  ASSUME TypeOK, CallOK, [Next]_vars
  PROVE  WhereObjectsGo
<1>a. ASSUME NEW t \in Threads, NEW o \in linked, TakeOut(t, o), UNCHANGED cache
      PROVE  WhereObjectsGo
  BY <1>a DEF TakeOut, WhereObjectsGo, TypeOK
<1>b. ASSUME UNCHANGED <<linked, blockers, cache>>, \A u \in Threads : obj'[u] \subseteq obj[u]
      PROVE  WhereObjectsGo
  BY <1>b DEF WhereObjectsGo
<1>c. \A t \in Threads : \A h \in RangeOf(handles[t]) : h \in Handles
  BY ElementOf DEF TypeOK
<1>1. ASSUME NEW t \in Threads, NEW o \in Objects, HandleDealloc(t, o) PROVE WhereObjectsGo
  <2>1. hdl[t] \in Handles
    BY <1>1, <1>c DEF HandleDealloc, CallOK, CallOKFor
  <2>. DEFINE full == Append(cache[hdl[t]], o)
  <2>2. \A x \in RangeOf(full) : x = o \/ x \in RangeOf(cache[hdl[t]])
    <3>1. /\ Len(cache[hdl[t]]) \in Nat
          /\ Len(full) = Len(cache[hdl[t]]) + 1
          /\ \A i \in 1 .. Len(cache[hdl[t]]) : full[i] = cache[hdl[t]][i]
          /\ full[Len(cache[hdl[t]]) + 1] = o
      BY <2>1, AppendProperties, LenProperties DEF TypeOK
    <3>. HIDE DEF full
    <3>. QED BY <3>1 DEF RangeOf
  <2>3. PICK new \in {<<>>, full} : cache' = [cache EXCEPT ![hdl[t]] = new]
    BY <1>1 DEF HandleDealloc
  <2>. HIDE DEF full
  <2>4. \A x \in RangeOf(new) : x = o \/ x \in RangeOf(cache[hdl[t]])
    BY <2>2, <2>3, EmptySeq DEF RangeOf
  <2>5. o \in obj[t] /\ obj' = [obj EXCEPT ![t] = {}] /\ UNCHANGED <<linked, blockers>>
    BY <1>1 DEF HandleDealloc, DeallocReturns, client
  <2>6. \A h \in Handles : cache'[h] = IF h = hdl[t] THEN new ELSE cache[h]
    BY <2>1, <2>3 DEF TypeOK
  <2>. QED BY <2>4, <2>5, <2>6 DEF WhereObjectsGo, TypeOK
<1>2. ASSUME NEW t \in Threads, NEW h \in RangeOf(handles[t]), DeleteHandle(t, h)
      PROVE  WhereObjectsGo
  <2>1. h \in Handles /\ cache' = [cache EXCEPT ![h] = <<>>] /\ UNCHANGED <<linked, blockers, obj>>
    BY <1>2, <1>c DEF DeleteHandle, client
  <2>2. \A k \in Handles : RangeOf(cache'[k]) \subseteq RangeOf(cache[k])
    <3>1. RangeOf(<<>>) = {}
      BY EmptySeq DEF RangeOf
    <3>2. \A k \in Handles : cache'[k] = cache[k] \/ cache'[k] = <<>>
      BY <2>1 DEF TypeOK
    <3>. QED BY <3>1, <3>2
  <2>. QED BY <2>1, <2>2 DEF WhereObjectsGo
<1>3. ASSUME NEW t \in Threads, NEW h, NEW o \in Objects, Unlink(t, h, o) PROVE WhereObjectsGo
  BY <1>3, <1>a DEF Unlink, shared
<1>4. ASSUME NEW t \in Threads, NEW o \in Objects, CallbackUnlink(t, o) PROVE WhereObjectsGo
  BY <1>4, <1>a DEF CallbackUnlink, shared
<1>5. ASSUME NEW t \in Threads, NEW o \in Objects, ThreadDealloc(t, o) \/ CallbackRecord(t, o)
      PROVE  WhereObjectsGo
  BY <1>5, <1>b DEF ThreadDealloc, DeallocReturns, CallbackRecord, client, TypeOK
<1>6. ASSUME NEW t \in Threads, NEW o \in Objects, Free(t, o) PROVE WhereObjectsGo
  BY <1>6, <1>b DEF Free, client
<1>7. ASSUME NEW t \in Threads, NEW c \in Callbacks,
             RegisterRcu(t, c) \/ FirstCall(t, c) \/ RunCallback(t, c)
      PROVE  WhereObjectsGo
  BY <1>7, <1>b DEF RegisterRcu, FirstCall, RunCallback, client, local
<1>8. ASSUME NEW t \in Threads, \/ NewHandle(t) \/ Publish(t) \/ UnlinkHandle(t) \/ HardFree(t)
                                \/ DestroyLoop(t)
      PROVE  WhereObjectsGo
  BY <1>8, <1>b DEF NewHandle, Publish, UnlinkHandle, HardFree, DestroyLoop, shared, client
<1>9. ASSUME NEW t \in Threads, \/ Scan(t) \/ CallbackReturns(t) \/ HardFreeReturns(t)
                                \/ DestroyReturns(t)
      PROVE  WhereObjectsGo
  BY <1>9, <1>b DEF Scan, CallbackReturns, HardFreeReturns, DestroyReturns, shared, client
<1>10. ASSUME Deinit \/ UNCHANGED vars PROVE WhereObjectsGo
  BY <1>10, <1>b DEF Deinit, vars, shared, client, local
<1>11. ASSUME NEW t \in Threads, Call(t) PROVE WhereObjectsGo
  BY <1>2, <1>3, <1>7, <1>8, <1>11 DEF Call
<1>12. ASSUME NEW t \in Threads, Proceed(t) PROVE WhereObjectsGo
  BY <1>1, <1>4, <1>5, <1>6, <1>7, <1>8, <1>9, <1>12 DEF Proceed
<1>. QED BY <1>10, <1>11, <1>12 DEF Next

\* What a step frees.
FreesNothing == UNCHANGED <<freed, samePass>>

LEMMA Frees ==
  ASSUME [Next]_vars, ~ \E t \in Threads : \E o \in Objects : Free(t, o)
  PROVE  FreesNothing
<1>1. ASSUME NEW t \in Threads, NEW h, NEW o, \/ Unlink(t, h, o) \/ DeleteHandle(t, h)
                                              \/ HandleDealloc(t, o) \/ ThreadDealloc(t, o)
      PROVE  FreesNothing
  BY <1>1 DEF FreesNothing, Unlink, DeleteHandle, HandleDealloc, ThreadDealloc, ghost
<1>2. ASSUME NEW t \in Threads, NEW o, CallbackUnlink(t, o) \/ CallbackRecord(t, o)
      PROVE  FreesNothing
  BY <1>2 DEF FreesNothing, CallbackUnlink, CallbackRecord, ghost
<1>3. ASSUME NEW t \in Threads, NEW c, RegisterRcu(t, c) \/ FirstCall(t, c) \/ RunCallback(t, c)
      PROVE  FreesNothing
  BY <1>3 DEF FreesNothing, RegisterRcu, FirstCall, RunCallback, ghost
<1>4. ASSUME NEW t \in Threads, \/ NewHandle(t) \/ Publish(t) \/ UnlinkHandle(t) \/ HardFree(t)
                                \/ DestroyLoop(t)
      PROVE  FreesNothing
  BY <1>4 DEF FreesNothing, NewHandle, Publish, UnlinkHandle, HardFree, DestroyLoop, ghost
<1>5. ASSUME NEW t \in Threads, \/ Scan(t) \/ CallbackReturns(t) \/ HardFreeReturns(t)
                                \/ DestroyReturns(t)
      PROVE  FreesNothing
  BY <1>5 DEF FreesNothing, Scan, CallbackReturns, HardFreeReturns, DestroyReturns, ghost
<1>6. ASSUME Deinit \/ UNCHANGED vars PROVE FreesNothing
  BY <1>6 DEF FreesNothing, Deinit, vars, ghost
<1>. QED BY <1>1, <1>2, <1>3, <1>4, <1>5, <1>6 DEF Next, Call, Proceed

\* global_epoch never goes back.
LEMMA EpochGrows ==
  ASSUME TypeOK, CallOK, HandleInv, [Next]_vars
  PROVE  globalEpoch' \in Nat /\ globalEpoch <= globalEpoch'
<1>1. globalEpoch \in Nat
  BY DEF TypeOK
<1>2. CASE UNCHANGED globalEpoch
  BY <1>1, <1>2
<1>3. ASSUME NEW t \in Threads, NewHandle(t) PROVE globalEpoch' = globalEpoch + 1
  BY <1>3 DEF NewHandle
<1>4. ASSUME NEW t \in Threads, NEW h, NEW o, \/ Publish(t) \/ UnlinkHandle(t) \/ Unlink(t, h, o)
                                              \/ CallbackUnlink(t, o)
      PROVE  UNCHANGED globalEpoch
  BY <1>4 DEF Publish, UnlinkHandle, Unlink, CallbackUnlink, shared
<1>5. ASSUME Deinit \/ UNCHANGED vars PROVE UNCHANGED globalEpoch
  BY <1>5 DEF Deinit, vars, shared
<1>. QED BY <1>1, <1>2, <1>3, <1>4, <1>5, HandlesFrame DEF Next, Call, Proceed

\* Recorded epochs: known, and not before the handles that block the object.
RecordInv == /\ LinkedNotRetired
             /\ RetiredAfter
             /\ SamePassFreed
             /\ \A t \in Threads : \A e \in RangeOf(limbo[t]) : e.epoch <= globalEpoch

LEMMA NextRecordInv ==
  ASSUME TypeOK, CallOK, HandleInv, RecordInv, [Next]_vars
  PROVE  RecordInv'
<1>1. WhereObjectsGo
  BY ObjectsMove
<1>2. \A u \in Threads : \A e \in RangeOf(limbo'[u]) : e \in RangeOf(limbo[u]) \/ Added(u, e)
  BY NewElements
<1>3. globalEpoch \in Nat /\ globalEpoch' \in Nat /\ globalEpoch <= globalEpoch'
  BY EpochGrows DEF TypeOK
<1>4. \A u \in Threads : \A e \in RangeOf(limbo[u]) : e \in Element
  BY LenProperties DEF TypeOK, RangeOf
<1>5. \A u \in Threads : \A e \in RangeOf(limbo'[u]) : e.epoch <= globalEpoch'
  <2>1. ASSUME NEW u \in Threads, NEW e \in RangeOf(limbo[u]) PROVE e.epoch <= globalEpoch'
    <3>1. e.epoch \in Int /\ e.epoch <= globalEpoch
      BY <1>4, <2>1 DEF RecordInv, Element
    <3>. QED BY <1>3, <3>1
  <2>. QED BY <1>2, <1>3, <2>1 DEF Added
<1>6. \A u \in Threads : \A e \in RangeOf(limbo'[u]) : e.item \in Objects =>
         e.item \notin linked /\ \/ e \in RangeOf(limbo[u])
                                 \/ e.epoch = globalEpoch
  BY <1>2 DEF Added, RecordInv, LinkedNotRetired
<1>7. \A q \in Objects \ linked : blockers'[q] = blockers[q]
  BY <1>1 DEF WhereObjectsGo
<1>8. RetiredAfter'
  <2>. SUFFICES ASSUME NEW u \in Threads, NEW e \in RangeOf(limbo'[u]), e.item \in Objects,
                       NEW h \in blockers'[e.item]
                PROVE  h <= e.epoch
    BY DEF RetiredAfter
  <2>1. h \in blockers[e.item]
    BY <1>6, <1>7
  <2>2. CASE e \in RangeOf(limbo[u])
    BY <2>1, <2>2 DEF RecordInv, RetiredAfter
  <2>3. CASE e.epoch = globalEpoch
    BY <1>3, <2>1, <2>3 DEF HandleInv, HandleEpochsIssued, Issued
  <2>. QED BY <1>6, <2>2, <2>3
<1>9. \A q \in freed' : q \in freed \/ \E t \in Threads : \E e \in RangeOf(limbo[t]) : e.item = q
  <2>1. ASSUME NEW t \in Threads, NEW o \in Objects, Free(t, o)
        PROVE  \A q \in freed' : q \in freed \/ \E u \in Threads : \E e \in RangeOf(limbo[u]) : e.item = q
    <3>1. limbo[t] # <<>> /\ Head(limbo[t]).item = o /\ freed' = freed \cup {o}
      BY <2>1 DEF Free, PopElement, MayFree
    <3>2. Head(limbo[t]) \in RangeOf(limbo[t])
      BY <3>1, TailRange DEF TypeOK
    <3>. QED BY <3>1, <3>2
  <2>. QED BY <2>1, Frees DEF FreesNothing
<1>10. LinkedNotRetired'
  <2>. SUFFICES ASSUME NEW o \in linked'
                PROVE  /\ o \notin freed'
                       /\ \A t \in Threads : o \notin obj'[t]
                       /\ \A h \in Handles : o \notin RangeOf(cache'[h])
                       /\ \A t \in Threads : \A e \in RangeOf(limbo'[t]) : e.item # o
    BY DEF LinkedNotRetired
  <2>1. o \in linked /\ o \in Objects
    BY <1>1 DEF WhereObjectsGo, TypeOK
  <2>2. o \notin freed'
    BY <1>9, <2>1 DEF RecordInv, LinkedNotRetired
  <2>3. \A t \in Threads : o \notin obj'[t]
    BY <1>1, <2>1 DEF WhereObjectsGo, RecordInv, LinkedNotRetired
  <2>4. \A h \in Handles : o \notin RangeOf(cache'[h])
    BY <1>1, <2>1 DEF WhereObjectsGo, RecordInv, LinkedNotRetired
  <2>5. \A t \in Threads : \A e \in RangeOf(limbo'[t]) : e.item # o
    BY <1>6, <2>1
  <2>. QED BY <2>2, <2>3, <2>4, <2>5
<1>11. SamePassFreed'
  <2>1. ASSUME NEW t \in Threads, NEW o \in Objects, Free(t, o) PROVE SamePassFreed'
    BY <2>1 DEF Free, RecordInv, SamePassFreed
  <2>2. ASSUME FreesNothing PROVE SamePassFreed'
    BY <2>2 DEF FreesNothing, RecordInv, SamePassFreed
  <2>. QED BY <2>1, <2>2, Frees
<1>. QED BY <1>5, <1>8, <1>10, <1>11 DEF RecordInv

-------------------------------------------------------------------------------
(* The bound of a pass.                                                     *)

\* A pass either starts now, having read nothing, or was already going on: what
\* it recorded it still knows, and it has read one more thread at most.
PassGoesOn(t) ==
    \/ scanned'[t] = 0
    \/ /\ InPass(t)
       /\ recorded[t] \subseteq recorded'[t]
       /\ \/ scanned'[t] = scanned[t] /\ ae'[t] = ae[t]
          \/ Scan(t)

LEMMA PassSteps ==
  ASSUME TypeOK, [Next]_vars, NEW u \in Threads, InPass(u)'
  PROVE  PassGoesOn(u)
<1>. USE DEF PassGoesOn, InPass, Goto
<1>p. /\ pc \in [Threads -> Labels] /\ recorded \in [Threads -> SUBSET Objects]
      /\ scanned \in [Threads -> 0 .. NThreads] /\ ae \in [Threads -> 1 .. NoEpoch]
  BY DEF TypeOK
<1>1. ASSUME NEW t \in Threads, NewHandle(t) \/ Publish(t) PROVE PassGoesOn(u)
  BY <1>p, <1>1 DEF NewHandle, Publish, ghost
<1>2. ASSUME NEW t \in Threads, NEW h, NEW o, Unlink(t, h, o) \/ DeleteHandle(t, h)
      PROVE  PassGoesOn(u)
  BY <1>p, <1>2 DEF Unlink, DeleteHandle, ghost
<1>3. ASSUME NEW t \in Threads, NEW o, HandleDealloc(t, o) \/ ThreadDealloc(t, o)
      PROVE  PassGoesOn(u)
  BY <1>p, <1>3 DEF HandleDealloc, ThreadDealloc, DeallocReturns, ghost
<1>4. ASSUME NEW t \in Threads, NEW o, CallbackUnlink(t, o) \/ CallbackRecord(t, o)
      PROVE  PassGoesOn(u)
  <2>1. CASE CallbackUnlink(t, o)
    BY <1>p, <2>1 DEF CallbackUnlink, ghost
  <2>2. CASE CallbackRecord(t, o)
    <3>1. /\ pc' = [pc EXCEPT ![t] = "callback"] /\ pc[t] = "record"
          /\ recorded' = [recorded EXCEPT ![t] = recorded[t] \cup {o}]
          /\ UNCHANGED <<scanned, ae>>
      BY <2>2 DEF CallbackRecord
    <3>. QED BY <1>p, <3>1
  <2>. QED BY <1>4, <2>1, <2>2
<1>5. ASSUME NEW t \in Threads, NEW c, RegisterRcu(t, c) \/ FirstCall(t, c) \/ RunCallback(t, c)
      PROVE  PassGoesOn(u)
  BY <1>p, <1>5 DEF RegisterRcu, FirstCall, RunCallback, PopElement, ghost, local
<1>6. ASSUME NEW t \in Threads, NEW o, Free(t, o) PROVE PassGoesOn(u)
  BY <1>p, <1>6 DEF Free, PopElement
<1>7. ASSUME NEW t \in Threads, UnlinkHandle(t) PROVE PassGoesOn(u)
  BY <1>p, <1>7 DEF UnlinkHandle, StartScan, ghost
<1>8. ASSUME NEW t \in Threads, HardFree(t) \/ DestroyLoop(t) PROVE PassGoesOn(u)
  BY <1>p, <1>8 DEF HardFree, DestroyLoop, StartScan, ghost
<1>9. ASSUME NEW t \in Threads, Scan(t) PROVE PassGoesOn(u)
  <2>1. CASE u = t
    BY <1>p, <1>9, <2>1 DEF Scan, ghost
  <2>2. CASE u # t
    <3>1. pc'[u] = pc[u] /\ ae'[u] = ae[u] /\ scanned'[u] = scanned[u] /\ recorded'[u] = recorded[u]
      BY <1>p, <1>9, <2>2 DEF Scan, ghost
    <3>. QED BY <3>1
  <2>. QED BY <2>1, <2>2
<1>10. ASSUME NEW t \in Threads, CallbackReturns(t) PROVE PassGoesOn(u)
  BY <1>p, <1>10 DEF CallbackReturns, ghost
<1>11. ASSUME NEW t \in Threads, HardFreeReturns(t) PROVE PassGoesOn(u)
  BY <1>p, <1>11 DEF HardFreeReturns
<1>12. ASSUME NEW t \in Threads, DestroyReturns(t) PROVE PassGoesOn(u)
  BY <1>p, <1>12 DEF DestroyReturns, ghost
<1>13. ASSUME Deinit \/ UNCHANGED vars PROVE PassGoesOn(u)
  BY <1>p, <1>13 DEF Deinit, vars, local, ghost
<1>14. ASSUME NEW t \in Threads, Call(t) PROVE PassGoesOn(u)
  BY <1>1, <1>2, <1>5, <1>8, <1>14 DEF Call
<1>15. ASSUME NEW t \in Threads, Proceed(t) PROVE PassGoesOn(u)
  BY <1>1, <1>3, <1>4, <1>5, <1>6, <1>7, <1>8, <1>9, <1>10, <1>11, <1>12, <1>15 DEF Proceed
<1>. QED BY <1>13, <1>14, <1>15 DEF Next

\* A handle in a list was there before, or is the one just published.
LEMMA HandlesFrom ==
  ASSUME TypeOK, CallOK, HandleInv, [Next]_vars, NEW u \in Threads, NEW h \in RangeOf(handles'[u])
  PROVE  h \in RangeOf(handles[u]) \/ \A o \in Objects : h \notin blockers[o]
<1>1. ASSUME NEW t \in Threads, Publish(t)
      PROVE  h \in RangeOf(handles[u]) \/ \A o \in Objects : h \notin blockers[o]
  <2>1. pc[t] = "publish" /\ handles' = [handles EXCEPT ![t] = Append(handles[t], hdl[t])]
    BY <1>1 DEF Publish
  <2>2. /\ hdl[t] \in Handles
        /\ \A o \in Objects : hdl[t] \notin blockers[o]
        /\ \A k \in RangeOf(handles[t]) : k < hdl[t]
    BY <2>1 DEF HandleInv, FreshUntilPublished, CallOK, CallOKFor
  <2>3. RangeOf(Append(handles[t], hdl[t])) = RangeOf(handles[t]) \cup {hdl[t]}
    BY <2>2, AppendAscending DEF TypeOK, HandleInv, OldestFirst
  <2>4. CASE u = t
    <3>1. handles'[t] = Append(handles[t], hdl[t])
      BY <2>1 DEF TypeOK
    <3>2. h \in RangeOf(handles[t]) \cup {hdl[t]}
      BY <2>3, <2>4, <3>1
    <3>. QED BY <2>2, <2>4, <3>2
  <2>5. CASE u # t
    BY <2>1, <2>5 DEF TypeOK
  <2>. QED BY <2>4, <2>5
<1>2. ASSUME NEW t \in Threads, UnlinkHandle(t) PROVE h \in RangeOf(handles[u])
  BY <1>2, UnlinkHandleRemoves
<1>3. CASE UNCHANGED handles
  BY <1>3
<1>4. ASSUME NEW t \in Threads, NEW k, NEW o, \/ NewHandle(t) \/ Unlink(t, k, o)
                                              \/ CallbackUnlink(t, o)
      PROVE  UNCHANGED handles
  BY <1>4 DEF NewHandle, Unlink, CallbackUnlink, shared
<1>5. ASSUME Deinit \/ UNCHANGED vars PROVE UNCHANGED handles
  BY <1>5 DEF Deinit, vars, shared
<1>. QED BY <1>1, <1>2, <1>3, <1>4, <1>5, HandlesFrame DEF Next, Call, Proceed

\* The scan stays sound while other threads create and delete handles under it.
LEMMA NextScanIsSound ==
  ASSUME TypeOK, CallOK, HandleInv, RecordInv, ScanIsSound, [Next]_vars
  PROVE  ScanIsSound'
<1>. SUFFICES ASSUME NEW t \in Threads, InPass(t)',
                     NEW e \in RangeOf(limbo'[t]), e.item \in Objects \ recorded'[t],
                     NEW u \in 0 .. scanned'[t] - 1,
                     NEW h \in blockers'[e.item] \cap RangeOf(handles'[u])
              PROVE  ae'[t] <= h
  BY DEF ScanIsSound
<1>1. TypeOK'
  BY NextTypeOK
<1>2. scanned[t] \in 0 .. NThreads /\ scanned'[t] \in 0 .. NThreads
  BY <1>1 DEF TypeOK
<1>3. u \in Threads
  BY <1>2, ConstantsOK DEF Threads
<1>4. PassGoesOn(t) /\ scanned'[t] # 0
  BY <1>2, PassSteps
<1>5. InPass(t) /\ recorded[t] \subseteq recorded'[t]
  BY <1>4 DEF PassGoesOn
<1>6. e \in RangeOf(limbo[t])
  BY <1>5, NewElements DEF Added
<1>7. e.item \notin linked
  BY <1>6 DEF RecordInv, LinkedNotRetired
<1>8. h \in blockers[e.item]
  BY <1>7, ObjectsMove DEF WhereObjectsGo
<1>9. h \in RangeOf(handles[u])
  BY <1>3, <1>8, HandlesFrom
<1>10. CASE scanned'[t] = scanned[t] /\ ae'[t] = ae[t]
  BY <1>5, <1>6, <1>8, <1>9, <1>10 DEF ScanIsSound
<1>11. CASE Scan(t)
  <2>. DEFINE m == minEpoch[scanned[t]]
  <2>1. scanned'[t] = scanned[t] + 1 /\ ae'[t] = IF m # 0 /\ m < ae[t] THEN m ELSE ae[t]
    BY <1>11 DEF Scan, TypeOK
  <2>2. m \in Int /\ ae[t] \in Int /\ h \in Int
    <3>1. scanned[t] \in Threads
      BY <1>2, <1>11, NextThread DEF Scan, CallOK, CallOKFor
    <3>2. h \in Handles
      <4>1. handles[u] \in Seq(Handles)
        BY <1>3 DEF TypeOK
      <4>. QED BY <1>9, <4>1, ElementOf
    <3>. QED BY <3>1, <3>2, ConstantsOK DEF TypeOK, Handles, NoEpoch
  <2>3. CASE u = scanned[t]
    <3>1. Oldest(handles[u]) \in Handles /\ Oldest(handles[u]) <= h
      BY <1>3, <1>9, OldestIsLeast DEF TypeOK, HandleInv, OldestFirst
    <3>2. m = Oldest(handles[u])
      BY <1>3, <2>3 DEF HandleInv, MinEpochIsOldest
    <3>3. m # 0 /\ m <= h
      BY <3>1, <3>2 DEF Handles
    <3>. HIDE DEF m
    <3>. QED BY <2>1, <2>2, <3>3
  <2>4. CASE u # scanned[t]
    <3>1. u \in 0 .. scanned[t] - 1
      BY <1>2, <2>1, <2>4
    <3>2. ae[t] <= h
      BY <1>5, <1>6, <1>8, <1>9, <3>1 DEF ScanIsSound
    <3>. HIDE DEF m
    <3>. QED BY <2>1, <2>2, <3>2
  <2>. QED BY <2>3, <2>4
<1>. QED BY <1>4, <1>10, <1>11 DEF PassGoesOn

\* When hard_free frees an object that an earlier call recorded, no handle that
\* blocks it is left: such a handle is no older than the bound that was read, and
\* no younger than the record.
LEMMA FreeIsSafe ==
  ASSUME TypeOK, CallOK, RecordInv, ScanIsSound,
         NEW t \in Threads, NEW o \in Objects, Free(t, o), o \notin recorded[t]
  PROVE  blockers[o] \cap Active = {}
<1>. DEFINE e == Head(limbo[t])
<1>1. /\ pc[t] = "free" /\ limbo[t] # <<>>
      /\ e.epoch <= ae[t] - 1
      /\ e.item = o
  BY DEF Free, PopElement, MayFree
<1>2. e \in RangeOf(limbo[t]) /\ e \in Element
  BY <1>1, TailRange, TailProperties, LenProperties DEF TypeOK, RangeOf
<1>. HIDE DEF e
<1>3. scanned[t] = NThreads
  BY <1>1 DEF CallOK, CallOKFor
<1>. SUFFICES ASSUME NEW u \in Threads, NEW h \in RangeOf(handles[u]), h \in blockers[o]
              PROVE  FALSE
  BY DEF Active
<1>4. u \in 0 .. scanned[t] - 1
  BY <1>3 DEF Threads
<1>5. ae[t] <= h
  BY <1>1, <1>2, <1>4 DEF ScanIsSound, InPass
<1>6. h <= e.epoch
  BY <1>1, <1>2 DEF RecordInv, RetiredAfter
<1>7. h \in Int /\ ae[t] \in Int /\ e.epoch \in Int
  <2>1. h \in Handles
    BY LenProperties DEF TypeOK, RangeOf
  <2>. QED BY <1>2, <2>1, ConstantsOK DEF TypeOK, Element, Handles, NoEpoch
<1>. QED BY <1>1, <1>5, <1>6, <1>7

LEMMA NextSafeAcrossPasses ==
  ASSUME TypeOK, CallOK, HandleInv, RecordInv, ScanIsSound, SafeAcrossPasses, [Next]_vars
  PROVE  SafeAcrossPasses'
<1>1. ASSUME NEW q \in freed, blockers[q] \cap Active = {} PROVE (blockers[q] \cap Active = {})'
  <2>1. q \notin linked /\ q \in Objects
    BY <1>1 DEF RecordInv, LinkedNotRetired, TypeOK
  <2>2. blockers'[q] = blockers[q]
    BY <2>1, ObjectsMove DEF WhereObjectsGo
  <2>3. \A h \in Active' : h \in Active \/ h \notin blockers[q]
    BY <2>1, HandlesFrom DEF Active
  <2>4. \A h \in blockers'[q] : h \notin Active'
    BY <1>1, <2>2, <2>3
  <2>. QED BY <2>4
<1>2. CASE FreesNothing
  BY <1>1, <1>2 DEF FreesNothing, SafeAcrossPasses
<1>3. ASSUME NEW t \in Threads, NEW o \in Objects, Free(t, o) PROVE SafeAcrossPasses'
  <2>1. UNCHANGED <<handles, blockers>>
    BY <1>3 DEF Free, client
  <2>2. freed' = freed \cup {o} /\ samePass \subseteq samePass'
        /\ (o \in recorded[t] \ freed => o \in samePass')
    BY <1>3 DEF Free
  <2>3. o \notin freed /\ o \notin samePass' => blockers[o] \cap Active = {}
    BY <1>3, <2>2, FreeIsSafe
  <2>4. Active' = Active
    BY <2>1 DEF Active
  <2>5. \A q \in freed' \ samePass' : blockers[q] \cap Active = {}
    BY <2>2, <2>3 DEF SafeAcrossPasses
  <2>. QED BY <2>1, <2>4, <2>5 DEF SafeAcrossPasses
<1>. QED BY <1>2, <1>3, Frees

-------------------------------------------------------------------------------
(* Calls in progress.                                                       *)

LEMMA HandleRange ==
  ASSUME TypeOK, NEW t \in Threads, NEW h \in RangeOf(handles[t])
  PROVE  h \in Handles /\ h \in 0 .. MaxEpoch
<1>1. h \in Handles
  BY LenProperties DEF TypeOK, RangeOf
<1>. QED BY <1>1 DEF Handles

\* Another thread's step leaves a call in progress as it is.
LEMMA CallFrame ==
  ASSUME TypeOK, NEW u \in Threads, CallOKFor(u),
         UNCHANGED <<handles, cache>>,
         pc'[u] = pc[u] /\ hdl'[u] = hdl[u] /\ scanned'[u] = scanned[u]
  PROVE  CallOKFor(u)'
BY DEF CallOKFor

\* A call that has just returned, or is between two steps that rely on nothing.
LEMMA CallEnds ==
  ASSUME NEW u \in Threads, pc'[u] \in {"idle", "joined", "destroy", "destroyed"}
  PROVE  CallOKFor(u)'
BY DEF CallOKFor

LEMMA ScanBegins ==
  ASSUME TypeOK, NEW t \in Threads, StartScan(t)
  PROVE  CallOKFor(t)'
BY ConstantsOK DEF StartScan, Goto, CallOKFor, TypeOK

\* What a call in progress relies on, the handle it is about above all, stays
\* true: no other thread can take that handle out of its list or refill it.
LEMMA NextCallOK ==
  ASSUME TypeOK, CallOK, HandleInv, [Next]_vars
  PROVE  CallOK'
<1>. SUFFICES ASSUME NEW u \in Threads PROVE CallOKFor(u)'
  BY DEF CallOK
<1>a. CallOKFor(u)
  BY DEF CallOK
<1>. USE DEF TypeOK, Goto
<1>1. ASSUME NEW t \in Threads, NewHandle(t) PROVE CallOKFor(u)'
  <2>1. globalEpoch + 1 \in Handles
    BY <1>1, ConstantsOK DEF NewHandle, Handles
  <2>2. CASE u = t
    BY <1>1, <2>1, <2>2 DEF NewHandle, CallOKFor
  <2>3. CASE u # t
    BY <1>1, <1>a, <2>3, CallFrame DEF NewHandle
  <2>. QED BY <2>2, <2>3
<1>2. ASSUME NEW t \in Threads, Publish(t) PROVE CallOKFor(u)'
  <2>1. CASE u = t
    BY <1>2, <2>1, CallEnds DEF Publish
  <2>2. CASE u # t
    <3>1. /\ pc'[u] = pc[u] /\ hdl'[u] = hdl[u] /\ scanned'[u] = scanned[u]
          /\ cache' = cache /\ handles'[u] = handles[u]
      BY <1>2, <2>2 DEF Publish
    <3>. QED BY <1>a, <3>1 DEF CallOKFor
  <2>. QED BY <2>1, <2>2
<1>3. ASSUME NEW t \in Threads, NEW h \in RangeOf(handles[t]), NEW o \in Objects, Unlink(t, h, o)
      PROVE  CallOKFor(u)'
  <2>0. h \in 0 .. MaxEpoch
    BY HandleRange
  <2>1. CASE u = t
    BY <1>3, <2>0, <2>1 DEF Unlink, TakeOut, CallOKFor, shared
  <2>2. CASE u # t
    BY <1>3, <1>a, <2>2, CallFrame DEF Unlink, TakeOut, shared
  <2>. QED BY <2>1, <2>2
<1>4. ASSUME NEW t \in Threads, NEW o \in Objects, HandleDealloc(t, o) PROVE CallOKFor(u)'
  <2>1. CASE u = t
    BY <1>4, <2>1, CallEnds DEF HandleDealloc, DeallocReturns
  <2>2. CASE u # t
    <3>1. /\ pc'[u] = pc[u] /\ hdl'[u] = hdl[u] /\ scanned'[u] = scanned[u] /\ handles' = handles
      BY <1>4, <2>2 DEF HandleDealloc, DeallocReturns
    <3>2. PICK x : cache' = [cache EXCEPT ![hdl[t]] = x]
      BY <1>4 DEF HandleDealloc
    <3>3. hdl[t] \in RangeOf(handles[t])
      BY <1>4 DEF HandleDealloc, CallOK, CallOKFor
    <3>4. pc[u] = "unlink" => hdl[u] \in Handles /\ hdl[u] # hdl[t]
      <4>1. pc[u] = "unlink" => hdl[u] \in RangeOf(handles[u])
        BY <1>a DEF CallOKFor
      <4>. QED BY <2>2, <3>3, <4>1, HandleRange DEF HandleInv, OneOwner
    <3>. QED BY <1>a, <3>1, <3>2, <3>4 DEF CallOKFor
  <2>. QED BY <2>1, <2>2
<1>5. ASSUME NEW t \in Threads, NEW o \in Objects, ThreadDealloc(t, o) PROVE CallOKFor(u)'
  <2>1. CASE u = t
    BY <1>5, <2>1, CallEnds DEF ThreadDealloc, DeallocReturns
  <2>2. CASE u # t
    BY <1>5, <1>a, <2>2, CallFrame DEF ThreadDealloc, DeallocReturns
  <2>. QED BY <2>1, <2>2
<1>6. ASSUME NEW t \in Threads, NEW c \in Callbacks, RegisterRcu(t, c) PROVE CallOKFor(u)'
  BY <1>6, <1>a, CallFrame DEF RegisterRcu, local
<1>7. ASSUME NEW t \in Threads, NEW h \in RangeOf(handles[t]), DeleteHandle(t, h)
      PROVE  CallOKFor(u)'
  <2>1. h \in Handles
    BY ElementOf
  <2>2. cache' = [cache EXCEPT ![h] = <<>>] /\ UNCHANGED <<handles, scanned>>
    BY <1>7 DEF DeleteHandle
  <2>3. CASE u = t
    <3>1. pc'[u] = "unlink" /\ hdl'[u] = h
      BY <1>7, <2>1, <2>3 DEF DeleteHandle, Handles
    <3>. QED BY <2>1, <2>2, <2>3, <3>1 DEF CallOKFor
  <2>4. CASE u # t
    <3>1. pc'[u] = pc[u] /\ hdl'[u] = hdl[u]
      BY <1>7, <2>4 DEF DeleteHandle
    <3>2. \A k \in Handles : cache[k] = <<>> => cache'[k] = <<>>
      BY <2>1, <2>2
    <3>3. pc[u] = "unlink" => hdl[u] \in Handles
      BY <1>a, HandleRange DEF CallOKFor
    <3>. QED BY <1>a, <2>2, <3>1, <3>2, <3>3 DEF CallOKFor
  <2>. QED BY <2>3, <2>4
<1>8. ASSUME NEW t \in Threads, UnlinkHandle(t) PROVE CallOKFor(u)'
  <2>1. CASE u = t
    <3>1. CASE StartScan(t)
      BY <2>1, <3>1, ScanBegins
    <3>2. CASE Goto(t, "idle")
      BY <2>1, <3>2, CallEnds
    <3>. QED BY <1>8, <3>1, <3>2 DEF UnlinkHandle
  <2>2. CASE u # t
    <3>1. pc'[u] = pc[u] /\ scanned'[u] = scanned[u]
      BY <1>8, <2>2 DEF UnlinkHandle, StartScan
    <3>2. hdl'[u] = hdl[u] /\ handles'[u] = handles[u] /\ cache' = cache
      BY <1>8, <2>2 DEF UnlinkHandle
    <3>. QED BY <1>a, <3>1, <3>2 DEF CallOKFor
  <2>. QED BY <2>1, <2>2
<1>9. ASSUME NEW t \in Threads, HardFree(t) \/ DestroyLoop(t) PROVE CallOKFor(u)'
  <2>1. StartScan(t) /\ UNCHANGED <<handles, cache, hdl>>
    BY <1>9 DEF HardFree, DestroyLoop, shared
  <2>2. CASE u = t
    BY <2>1, <2>2, ScanBegins
  <2>3. CASE u # t
    BY <1>a, <2>1, <2>3, CallFrame DEF StartScan
  <2>. QED BY <2>2, <2>3
<1>10. ASSUME NEW t \in Threads, Scan(t) PROVE CallOKFor(u)'
  <2>1. CASE u = t
    <3>1. scanned[t] \in 0 .. NThreads /\ scanned[t] < NThreads
      BY <1>10 DEF Scan, CallOK, CallOKFor
    <3>2. /\ pc'[t] = IF scanned[t] + 1 = NThreads THEN "free" ELSE "scan"
          /\ scanned'[t] = scanned[t] + 1
      BY <1>10 DEF Scan
    <3>3. NThreads \in Nat
      BY ConstantsOK
    <3>. QED BY <2>1, <3>1, <3>2, <3>3 DEF CallOKFor
  <2>2. CASE u # t
    BY <1>10, <1>a, <2>2, CallFrame DEF Scan, shared
  <2>. QED BY <2>1, <2>2
<1>11. ASSUME NEW t \in Threads, NEW o \in Objects, Free(t, o) PROVE CallOKFor(u)'
  BY <1>11, <1>a, CallFrame DEF Free
<1>12. ASSUME NEW t \in Threads, NEW c \in Callbacks, FirstCall(t, c) PROVE CallOKFor(u)'
  BY <1>12, <1>a, CallFrame DEF FirstCall
<1>13. ASSUME NEW t \in Threads, NEW c \in Callbacks, RunCallback(t, c) PROVE CallOKFor(u)'
  <2>1. pc[t] = "free"
    BY <1>13 DEF RunCallback, PopElement
  <2>. QED BY <1>13, <1>a, <2>1 DEF RunCallback, CallOKFor
<1>14. ASSUME NEW t \in Threads, NEW o \in Objects, CallbackUnlink(t, o) PROVE CallOKFor(u)'
  BY <1>14, <1>a DEF CallbackUnlink, CallOKFor, shared
<1>15. ASSUME NEW t \in Threads, NEW o \in Objects, CallbackRecord(t, o) PROVE CallOKFor(u)'
  BY <1>15, <1>a DEF CallbackRecord, CallOKFor
<1>16. ASSUME NEW t \in Threads, CallbackReturns(t) PROVE CallOKFor(u)'
  BY <1>16, <1>a DEF CallbackReturns, CallOKFor, shared
<1>17. ASSUME NEW t \in Threads, HardFreeReturns(t) PROVE CallOKFor(u)'
  <2>1. CASE u = t
    BY <1>17, <2>1, CallEnds DEF HardFreeReturns
  <2>2. CASE u # t
    BY <1>17, <1>a, <2>2, CallFrame DEF HardFreeReturns, shared
  <2>. QED BY <2>1, <2>2
<1>18. ASSUME Deinit PROVE CallOKFor(u)'
  BY <1>18, CallEnds DEF Deinit
<1>19. ASSUME NEW t \in Threads, DestroyReturns(t) PROVE CallOKFor(u)'
  <2>1. CASE u = t \/ u = t + 1
    BY <1>19, <2>1, CallEnds DEF DestroyReturns
  <2>2. CASE u # t /\ u # t + 1
    BY <1>19, <1>a, <2>2, CallFrame DEF DestroyReturns, shared
  <2>. QED BY <2>1, <2>2
<1>20. CASE UNCHANGED vars
  BY <1>20, <1>a, CallFrame DEF vars, shared, local
<1>21. ASSUME NEW t \in Threads, Call(t) PROVE CallOKFor(u)'
  BY <1>1, <1>3, <1>6, <1>7, <1>9, <1>21 DEF Call
<1>22. ASSUME NEW t \in Threads, Proceed(t) PROVE CallOKFor(u)'
  BY <1>2, <1>4, <1>5, <1>8, <1>9, <1>10, <1>11, <1>12, <1>13, <1>14, <1>15, <1>16, <1>17,
     <1>19, <1>22 DEF Proceed
<1>. QED BY <1>18, <1>20, <1>21, <1>22 DEF Next

-------------------------------------------------------------------------------
(* The theorems.                                                            *)

IInv == TypeOK /\ CallOK /\ HandleInv /\ RecordInv /\ ScanIsSound /\ SafeAcrossPasses

LEMMA InitIInv == Init => IInv
<1>. SUFFICES ASSUME Init PROVE IInv
  OBVIOUS
<1>1. TypeOK /\ CallOK
  BY InitTypes
<1>2. RangeOf(<<>>) = {} /\ \A i \in 1 .. Len(<<>>) : FALSE
  BY EmptySeq DEF RangeOf
<1>3. /\ \A t \in Threads : handles[t] = <<>> /\ RangeOf(handles[t]) = {}
      /\ \A t \in Threads : limbo[t] = <<>> /\ RangeOf(limbo[t]) = {}
      /\ \A h \in Handles : RangeOf(cache[h]) = {}
  BY <1>2 DEF Init
<1>4. HandleInv
  <2>1. HandleEpochsIssued /\ OneOwner
    BY <1>3 DEF Init, HandleEpochsIssued, OneOwner
  <2>2. OldestFirst
    BY <1>2, <1>3 DEF OldestFirst, Ascending
  <2>3. MinEpochIsOldest
    BY <1>3 DEF Init, MinEpochIsOldest, Oldest
  <2>4. FreshUntilPublished
    BY DEF Init, FreshUntilPublished
  <2>. QED BY <2>1, <2>2, <2>3, <2>4 DEF HandleInv
<1>5. RecordInv
  BY <1>3 DEF Init, RecordInv, LinkedNotRetired, RetiredAfter, SamePassFreed
<1>6. ScanIsSound /\ SafeAcrossPasses
  BY <1>3 DEF Init, ScanIsSound, SafeAcrossPasses
<1>. QED BY <1>1, <1>4, <1>5, <1>6 DEF IInv

LEMMA NextIInv == IInv /\ [Next]_vars => IInv'
<1>. SUFFICES ASSUME IInv, [Next]_vars PROVE IInv'
  OBVIOUS
<1>. USE DEF IInv
<1>1. TypeOK' /\ CallOK' /\ HandleInv'
  BY NextTypeOK, NextCallOK, NextHandleInv
<1>2. RecordInv' /\ ScanIsSound' /\ SafeAcrossPasses'
  BY NextRecordInv, NextScanIsSound, NextSafeAcrossPasses
<1>. QED BY <1>1, <1>2

LEMMA Inductive == Spec => []IInv
BY InitIInv, NextIInv, PTL DEF Spec

\* Every reachable state of any number of threads is well typed.
THEOREM TypeCorrect == Spec => []TypeOK
<1>1. IInv => TypeOK
  BY DEF IInv
<1>. QED BY <1>1, Inductive, PTL

\* The facts TLC checks as Strengthening hold for all constants.
THEOREM StrengtheningHolds == Spec => []Strengthening
<1>1. IInv => Strengthening
  BY DEF IInv, Strengthening, HandleInv, HandleEpochsIssued, EpochsIssued, RecordInv
<1>. QED BY <1>1, Inductive, PTL

\* min_active_epoch reads the min_epoch_ of one thread after the other while
\* handles come and go; its bound is still below every handle that matters.
THEOREM ScanIsSoundHolds == Spec => []ScanIsSound
<1>1. IInv => ScanIsSound
  BY DEF IInv
<1>. QED BY <1>1, Inductive, PTL

\* No object is freed under a handle that could reach it, unless a callback
\* recorded it in the very hard_free that freed it.
THEOREM SafeAcrossPassesHolds == Spec => []SafeAcrossPasses
<1>1. IInv => SafeAcrossPasses
  BY DEF IInv
<1>. QED BY <1>1, Inductive, PTL
-------------------------------------------------------------------------------
(* Grace-period reclamation, and where the objects are.                    *)

\* Workers are done once deinit_lf_library has begun, and not before.
DeinitInv == \A t \in Threads :
    IF deinit THEN pc[t] \notin {"idle", "publish", "dealloc", "unlink"}
              ELSE pc[t] \notin {"joined", "destroy", "destroyed"}

LEMMA NextDeinitInv ==
  ASSUME TypeOK, DeinitInv, [Next]_vars
  PROVE  DeinitInv'
<1>. USE DEF DeinitInv, Goto, client
<1>p. pc \in [Threads -> Labels]
  BY DEF TypeOK
<1>1. ASSUME NEW t \in Threads, NewHandle(t) \/ Publish(t) \/ UnlinkHandle(t)
      PROVE  DeinitInv'
  BY <1>p, <1>1 DEF NewHandle, Publish, UnlinkHandle, StartScan
<1>2. ASSUME NEW t \in Threads, NEW h, NEW o, Unlink(t, h, o) \/ DeleteHandle(t, h)
      PROVE  DeinitInv'
  BY <1>p, <1>2 DEF Unlink, DeleteHandle
<1>3. ASSUME NEW t \in Threads, NEW o, HandleDealloc(t, o) \/ ThreadDealloc(t, o)
      PROVE  DeinitInv'
  BY <1>p, <1>3 DEF HandleDealloc, ThreadDealloc, DeallocReturns
<1>4. ASSUME NEW t \in Threads, NEW o, CallbackUnlink(t, o) \/ CallbackRecord(t, o)
      PROVE  DeinitInv'
  BY <1>p, <1>4 DEF CallbackUnlink, CallbackRecord
<1>5. ASSUME NEW t \in Threads, NEW c, RegisterRcu(t, c) \/ FirstCall(t, c)
      PROVE  DeinitInv'
  BY <1>p, <1>5 DEF RegisterRcu, FirstCall, local
<1>6. ASSUME NEW t \in Threads, NEW c, Free(t, c) \/ RunCallback(t, c)
      PROVE  DeinitInv'
  BY <1>p, <1>6 DEF Free, RunCallback, PopElement
<1>7. ASSUME NEW t \in Threads, HardFree(t) \/ DestroyLoop(t) \/ Scan(t)
      PROVE  DeinitInv'
  <2>1. CASE HardFree(t) \/ DestroyLoop(t)
    BY <1>p, <2>1 DEF HardFree, DestroyLoop, StartScan
  <2>2. CASE Scan(t)
    BY <1>p, <2>2 DEF Scan
  <2>. QED BY <1>7, <2>1, <2>2
<1>8. ASSUME NEW t \in Threads, CallbackReturns(t) \/ HardFreeReturns(t)
      PROVE  DeinitInv'
  BY <1>p, <1>8 DEF CallbackReturns, HardFreeReturns
<1>9. ASSUME NEW t \in Threads, DestroyReturns(t) PROVE DeinitInv'
  BY <1>p, <1>9 DEF DestroyReturns
<1>10. ASSUME Deinit PROVE DeinitInv'
  BY <1>p, <1>10 DEF Deinit
<1>11. CASE UNCHANGED vars
  BY <1>p, <1>11 DEF vars, local
<1>12. ASSUME NEW t \in Threads, Call(t) PROVE DeinitInv'
  BY <1>1, <1>2, <1>5, <1>7, <1>12 DEF Call
<1>13. ASSUME NEW t \in Threads, Proceed(t) PROVE DeinitInv'
  BY <1>1, <1>3, <1>4, <1>5, <1>6, <1>7, <1>8, <1>9, <1>13 DEF Proceed
<1>. QED BY <1>10, <1>11, <1>12, <1>13 DEF Next

\* A handle of another step keeps waiting for its link.
LEMMA PublishStays ==
  ASSUME TypeOK, DeinitInv, [Next]_vars, NEW u \in Threads, pc[u] = "publish", ~ Publish(u)
  PROVE  pc'[u] = "publish" /\ hdl'[u] = hdl[u]
<1>. USE DEF TypeOK, Goto
<1>1. ASSUME NEW t \in Threads, NewHandle(t) \/ Publish(t) \/ UnlinkHandle(t)
      PROVE  pc'[u] = "publish" /\ hdl'[u] = hdl[u]
  BY <1>1 DEF NewHandle, Publish, UnlinkHandle, StartScan
<1>2. ASSUME NEW t \in Threads, NEW h, NEW o, Unlink(t, h, o) \/ DeleteHandle(t, h)
      PROVE  pc'[u] = "publish" /\ hdl'[u] = hdl[u]
  BY <1>2 DEF Unlink, DeleteHandle
<1>3. ASSUME NEW t \in Threads, NEW o, \/ HandleDealloc(t, o) \/ ThreadDealloc(t, o)
                                       \/ CallbackUnlink(t, o) \/ CallbackRecord(t, o)
      PROVE  pc'[u] = "publish" /\ hdl'[u] = hdl[u]
  BY <1>3 DEF HandleDealloc, ThreadDealloc, DeallocReturns, CallbackUnlink, CallbackRecord
<1>4. ASSUME NEW t \in Threads, NEW o, \/ RegisterRcu(t, o) \/ RunCallback(t, o)
                                       \/ FirstCall(t, o) \/ Free(t, o)
      PROVE  pc'[u] = "publish" /\ hdl'[u] = hdl[u]
  BY <1>4 DEF RegisterRcu, RunCallback, PopElement, FirstCall, Free, local
<1>5. ASSUME NEW t \in Threads, HardFree(t) \/ DestroyLoop(t) \/ Scan(t) \/ CallbackReturns(t)
      PROVE  pc'[u] = "publish" /\ hdl'[u] = hdl[u]
  BY <1>5 DEF HardFree, DestroyLoop, StartScan, Scan, CallbackReturns
<1>6. ASSUME NEW t \in Threads, HardFreeReturns(t)
      PROVE  pc'[u] = "publish" /\ hdl'[u] = hdl[u]
  BY <1>6 DEF HardFreeReturns
<1>7. ASSUME Deinit PROVE pc'[u] = "publish" /\ hdl'[u] = hdl[u]
  BY <1>7 DEF Deinit
<1>8. CASE UNCHANGED vars
  BY <1>8 DEF vars, local
<1>9. ASSUME NEW t \in Threads, DestroyReturns(t)
      PROVE  pc'[u] = "publish" /\ hdl'[u] = hdl[u]
  BY <1>9 DEF DestroyReturns, DeinitInv
<1>. QED BY <1>1, <1>2, <1>3, <1>4, <1>5, <1>6, <1>7, <1>8, <1>9 DEF Next, Call, Proceed

-------------------------------------------------------------------------------
(* Steps of limbo are steps of GracePeriod.                                 *)

RInv == IInv /\ DeinitInv

LEMMA InitRefines == Init => GP!Init
<1>. SUFFICES ASSUME Init PROVE GP!Init
  OBVIOUS
<1>1. RangeOf(<<>>) = {}
  BY EmptySeq DEF RangeOf
<1>2. Active = {}
  BY <1>1 DEF Init, Active
<1>3. Issued = {}
  BY DEF Init, Issued
<1>. QED BY <1>2, <1>3 DEF Init, GP!Init

\* A step that frees nothing, unlinks nothing and leaves the lists alone.
LEMMA Stutters ==
  ASSUME RInv, [Next]_vars,
         ~ \E t \in Threads : NewHandle(t) \/ Publish(t),
         UNCHANGED <<globalEpoch, handles, linked, blockers, freed, samePass>>
  PROVE  UNCHANGED GP!vars
<1>. USE DEF RInv, IInv
<1>1. \A u \in Threads : (pc[u] = "publish" <=> pc'[u] = "publish")
                         /\ (pc[u] = "publish" => hdl'[u] = hdl[u])
  BY PublishFrame, PublishStays
<1>2. Unpublished' = Unpublished
  BY <1>1 DEF Unpublished
<1>3. Issued' = Issued /\ Active' = Active
  BY DEF Issued, Active
<1>. QED BY <1>2, <1>3 DEF GP!vars

\* The atomic add alone shows nobody a new handle.
LEMMA NewHandleRefines ==
  ASSUME RInv, NEW t \in Threads, NewHandle(t)
  PROVE  UNCHANGED GP!vars
<1>. USE DEF RInv, IInv
<1>1. /\ globalEpoch' = globalEpoch + 1
      /\ pc[t] = "idle"
      /\ hdl' = [hdl EXCEPT ![t] = globalEpoch + 1]
      /\ pc' = [pc EXCEPT ![t] = "publish"]
      /\ UNCHANGED <<handles, linked, blockers, freed, samePass>>
  BY DEF NewHandle, Goto, client, ghost
<1>2. Issued' = Issued \cup {globalEpoch + 1} /\ globalEpoch + 1 \notin Issued
  BY <1>1 DEF Issued, TypeOK
<1>3. Unpublished' = Unpublished \cup {globalEpoch + 1}
  BY <1>1 DEF Unpublished, TypeOK
<1>4. Unpublished \subseteq Issued
  BY DEF Unpublished, HandleInv, FreshUntilPublished
<1>5. (Issued \ Unpublished)' = Issued \ Unpublished
  BY <1>2, <1>3, <1>4
<1>6. Active' = Active
  BY <1>1 DEF Active
<1>. QED BY <1>1, <1>5, <1>6 DEF GP!vars

\* Linking the handle opens its section.
LEMMA PublishRefines ==
  ASSUME RInv, NEW t \in Threads, Publish(t)
  PROVE  GP!Enter(hdl[t])
<1>. USE DEF RInv, IInv
<1>1. /\ pc[t] = "publish"
      /\ handles' = [handles EXCEPT ![t] = Append(handles[t], hdl[t])]
      /\ pc' = [pc EXCEPT ![t] = "idle"]
      /\ hdl' = [hdl EXCEPT ![t] = 0]
      /\ UNCHANGED <<globalEpoch, linked, blockers, freed, samePass>>
  BY DEF Publish, Goto, client, ghost
<1>2. /\ hdl[t] \in Issued \ Active
      /\ \A k \in RangeOf(handles[t]) : k < hdl[t]
      /\ \A u \in Threads : pc[u] = "publish" /\ u # t => hdl[u] # hdl[t]
  BY <1>1 DEF HandleInv, FreshUntilPublished
<1>3. hdl[t] \in Handles
  BY <1>1 DEF CallOK, CallOKFor
<1>4. RangeOf(Append(handles[t], hdl[t])) = RangeOf(handles[t]) \cup {hdl[t]}
  BY <1>2, <1>3, AppendAscending DEF TypeOK, HandleInv, OldestFirst
<1>5. /\ RangeOf(handles'[t]) = RangeOf(handles[t]) \cup {hdl[t]}
      /\ \A u \in Threads \ {t} : handles'[u] = handles[u]
  BY <1>1, <1>4 DEF TypeOK
<1>6. Active' = Active \cup {hdl[t]}
  BY <1>5 DEF Active
<1>7. Unpublished' = Unpublished \ {hdl[t]} /\ hdl[t] \in Unpublished
  BY <1>1, <1>2 DEF Unpublished, TypeOK
<1>8. Issued' = Issued
  BY <1>1 DEF Issued
<1>9. hdl[t] \in Handles \ (Issued \ Unpublished)
      /\ (Issued \ Unpublished)' = (Issued \ Unpublished) \cup {hdl[t]}
  BY <1>2, <1>3, <1>7, <1>8
<1>. QED BY <1>1, <1>6, <1>9 DEF GP!Enter

\* Taking the handle out of its list closes the section.
LEMMA UnlinkHandleRefines ==
  ASSUME RInv, [Next]_vars, ~ \E v \in Threads : NewHandle(v) \/ Publish(v),
         NEW t \in Threads, UnlinkHandle(t)
  PROVE  GP!Exit(hdl[t])
<1>. USE DEF RInv, IInv
<1>1. UNCHANGED <<globalEpoch, linked, blockers, freed, samePass>>
  BY DEF UnlinkHandle, client, ghost
<1>2. hdl[t] \in RangeOf(handles[t]) /\ Active' = Active \ {hdl[t]}
  BY UnlinkHandleRemoves
<1>3. hdl[t] \in Active
  BY <1>2 DEF Active
<1>4. \A u \in Threads : (pc[u] = "publish" <=> pc'[u] = "publish")
                         /\ (pc[u] = "publish" => hdl'[u] = hdl[u])
  BY PublishFrame, PublishStays
<1>5. Unpublished' = Unpublished /\ Issued' = Issued
  BY <1>1, <1>4 DEF Unpublished, Issued
<1>. QED BY <1>1, <1>2, <1>3, <1>5 DEF GP!Exit

\* Unlinking an object takes the sections open now as its blockers.
LEMMA TakeOutRefines ==
  ASSUME RInv, [Next]_vars, ~ \E v \in Threads : NewHandle(v) \/ Publish(v),
         NEW t \in Threads, NEW o \in linked, TakeOut(t, o),
         UNCHANGED <<globalEpoch, handles, freed, samePass>>
  PROVE  GP!Unlink(o)
<1>. USE DEF RInv, IInv
<1>1. \A u \in Threads : (pc[u] = "publish" <=> pc'[u] = "publish")
                         /\ (pc[u] = "publish" => hdl'[u] = hdl[u])
  BY PublishFrame, PublishStays
<1>2. Unpublished' = Unpublished /\ Issued' = Issued /\ Active' = Active
  BY <1>1 DEF Unpublished, Issued, Active
<1>. QED BY <1>2 DEF GP!Unlink, TakeOut

\* hard_free frees in GracePeriod, unless a callback recorded the object.
LEMMA FreeRefines ==
  ASSUME RInv, [Next]_vars, ~ \E v \in Threads : NewHandle(v) \/ Publish(v),
         NEW t \in Threads, NEW o \in Objects, Free(t, o)
  PROVE  GP!Free(o) \/ UNCHANGED GP!vars
<1>. USE DEF RInv, IInv
<1>1. /\ UNCHANGED <<globalEpoch, handles, linked, blockers, pc, hdl>>
      /\ freed' = freed \cup {o}
      /\ samePass' = IF o \in recorded[t] \ freed THEN samePass \cup {o} ELSE samePass
      /\ limbo[t] # <<>> /\ Head(limbo[t]).item = o
  BY DEF Free, PopElement, MayFree, client
<1>2. Unpublished' = Unpublished /\ Issued' = Issued /\ Active' = Active
  BY <1>1 DEF Unpublished, Issued, Active
<1>3. samePass \subseteq freed
  BY DEF RecordInv, SamePassFreed
<1>4. CASE o \in freed \cup recorded[t]
  <2>1. (freed \ samePass)' = freed \ samePass
    BY <1>1, <1>3, <1>4
  <2>. QED BY <1>1, <1>2, <2>1 DEF GP!vars
<1>5. CASE o \notin freed \cup recorded[t]
  <2>1. (freed \ samePass)' = (freed \ samePass) \cup {o}
    BY <1>1, <1>3, <1>5
  <2>2. Head(limbo[t]) \in RangeOf(limbo[t])
    BY <1>1, TailRange DEF TypeOK
  <2>3. o \notin linked
    BY <1>1, <2>2 DEF RecordInv, LinkedNotRetired
  <2>4. blockers[o] \cap Active = {}
    BY <1>5, FreeIsSafe
  <2>. QED BY <1>1, <1>2, <1>5, <2>1, <2>3, <2>4 DEF GP!Free
<1>. QED BY <1>4, <1>5

LEMMA NextRefines == RInv /\ [Next]_vars => [GP!Next]_GP!vars
<1>. SUFFICES ASSUME RInv, [Next]_vars PROVE [GP!Next]_GP!vars
  OBVIOUS
<1>1. ASSUME NEW t \in Threads, NewHandle(t) PROVE [GP!Next]_GP!vars
  BY <1>1, NewHandleRefines
<1>2. ASSUME NEW t \in Threads, Publish(t) PROVE [GP!Next]_GP!vars
  <2>1. hdl[t] \in Handles
    BY <1>2 DEF Publish, RInv, IInv, CallOK, CallOKFor
  <2>. QED BY <1>2, <2>1, PublishRefines DEF GP!Next
<1>3. CASE ~ \E t \in Threads : NewHandle(t) \/ Publish(t)
  <2>1. ASSUME NEW t \in Threads, UnlinkHandle(t) PROVE [GP!Next]_GP!vars
    <3>1. hdl[t] \in Handles
      BY <2>1, HandleRange DEF UnlinkHandle, RInv, IInv, CallOK, CallOKFor
    <3>. QED BY <1>3, <2>1, <3>1, UnlinkHandleRefines DEF GP!Next
  <2>2. ASSUME NEW t \in Threads, NEW h, NEW o \in Objects, Unlink(t, h, o)
        PROVE  [GP!Next]_GP!vars
    <3>1. /\ o \in linked /\ TakeOut(t, o)
          /\ UNCHANGED <<globalEpoch, handles, freed, samePass>>
      BY <2>2 DEF Unlink, shared, ghost
    <3>. QED BY <1>3, <3>1, TakeOutRefines DEF GP!Next
  <2>3. ASSUME NEW t \in Threads, NEW o \in Objects, CallbackUnlink(t, o)
        PROVE  [GP!Next]_GP!vars
    <3>1. /\ o \in linked /\ TakeOut(t, o)
          /\ UNCHANGED <<globalEpoch, handles, freed, samePass>>
      BY <2>3 DEF CallbackUnlink, shared, ghost
    <3>. QED BY <1>3, <3>1, TakeOutRefines DEF GP!Next
  <2>4. ASSUME NEW t \in Threads, NEW o \in Objects, Free(t, o) PROVE [GP!Next]_GP!vars
    BY <1>3, <2>4, FreeRefines DEF GP!Next
  <2>5. ASSUME UNCHANGED <<globalEpoch, handles, linked, blockers, freed, samePass>>
        PROVE  [GP!Next]_GP!vars
    BY <1>3, <2>5, Stutters
  <2>6. ASSUME NEW t \in Threads, NEW o \in Objects,
               HandleDealloc(t, o) \/ ThreadDealloc(t, o) \/ CallbackRecord(t, o)
        PROVE  UNCHANGED <<globalEpoch, handles, linked, blockers, freed, samePass>>
    BY <2>6 DEF HandleDealloc, ThreadDealloc, CallbackRecord, client, ghost
  <2>7. ASSUME NEW t \in Threads, NEW c \in Callbacks,
               RegisterRcu(t, c) \/ FirstCall(t, c) \/ RunCallback(t, c)
        PROVE  UNCHANGED <<globalEpoch, handles, linked, blockers, freed, samePass>>
    BY <2>7 DEF RegisterRcu, FirstCall, RunCallback, client, ghost
  <2>8. ASSUME NEW t \in Threads, NEW h \in RangeOf(handles[t]), DeleteHandle(t, h)
        PROVE  UNCHANGED <<globalEpoch, handles, linked, blockers, freed, samePass>>
    BY <2>8 DEF DeleteHandle, client, ghost
  <2>9. ASSUME NEW t \in Threads, \/ HardFree(t) \/ DestroyLoop(t) \/ Scan(t)
                                  \/ CallbackReturns(t)
        PROVE  UNCHANGED <<globalEpoch, handles, linked, blockers, freed, samePass>>
    BY <2>9 DEF HardFree, DestroyLoop, Scan, CallbackReturns, shared, client, ghost
  <2>10. ASSUME NEW t \in Threads, HardFreeReturns(t) \/ DestroyReturns(t)
         PROVE  UNCHANGED <<globalEpoch, handles, linked, blockers, freed, samePass>>
    BY <2>10 DEF HardFreeReturns, DestroyReturns, shared, client, ghost
  <2>11. ASSUME Deinit \/ UNCHANGED vars
         PROVE  UNCHANGED <<globalEpoch, handles, linked, blockers, freed, samePass>>
    BY <2>11 DEF Deinit, vars, shared, client, ghost
  <2>12. ASSUME NEW t \in Threads, Call(t) PROVE [GP!Next]_GP!vars
    BY <1>3, <2>2, <2>5, <2>7, <2>8, <2>9, <2>12 DEF Call
  <2>13. ASSUME NEW t \in Threads, Proceed(t) PROVE [GP!Next]_GP!vars
    BY <1>3, <2>1, <2>3, <2>4, <2>5, <2>6, <2>7, <2>9, <2>10, <2>13 DEF Proceed
  <2>. QED BY <2>5, <2>11, <2>12, <2>13 DEF Next
<1>. QED BY <1>1, <1>2, <1>3

\* limbo implements grace-period reclamation: every step of new_handle, dealloc,
\* delete_handle and hard_free is a step of GracePeriod or shows its clients
\* nothing, for every number of threads, objects, callbacks and epochs.
THEOREM RefinesGracePeriod == Spec => ReclaimsByGracePeriod
<1>1. Init => DeinitInv
  BY DEF Init, DeinitInv
<1>2. RInv /\ [Next]_vars => DeinitInv'
  BY NextDeinitInv DEF RInv, IInv
<1>3. Spec => []RInv
  BY <1>1, <1>2, InitIInv, NextIInv, PTL DEF RInv, Spec
<1>. QED BY <1>3, InitRefines, NextRefines, PTL DEF Spec, ReclaimsByGracePeriod, GP!Spec

-------------------------------------------------------------------------------
(* Clients without callbacks.                                               *)

\* Nothing is recorded inside a pass.
NoCallbackRuns == \A t \in Threads : pc[t] \notin {"callback", "record"} /\ recorded[t] = {}

LEMMA NextNoCallbackRuns ==
  ASSUME TypeOK, NoCallbackRuns, samePass = {}, Callbacks = {}, [Next]_vars
  PROVE  NoCallbackRuns' /\ samePass' = {}
<1>. DEFINE Goal == NoCallbackRuns' /\ samePass' = {}
<1>. USE DEF NoCallbackRuns, Goto, ghost
<1>p. pc \in [Threads -> Labels] /\ recorded \in [Threads -> SUBSET Objects]
  BY DEF TypeOK
<1>1. ASSUME NEW t \in Threads, NewHandle(t) \/ Publish(t) \/ UnlinkHandle(t) PROVE Goal
  BY <1>p, <1>1 DEF NewHandle, Publish, UnlinkHandle, StartScan
<1>2. ASSUME NEW t \in Threads, NEW h, NEW o, Unlink(t, h, o) \/ DeleteHandle(t, h) PROVE Goal
  BY <1>p, <1>2 DEF Unlink, DeleteHandle
<1>3. ASSUME NEW t \in Threads, NEW o, HandleDealloc(t, o) \/ ThreadDealloc(t, o) PROVE Goal
  BY <1>p, <1>3 DEF HandleDealloc, ThreadDealloc, DeallocReturns
<1>4. ASSUME NEW t \in Threads, NEW o, CallbackUnlink(t, o) \/ CallbackRecord(t, o) PROVE Goal
  BY <1>p, <1>4 DEF CallbackUnlink, CallbackRecord
<1>5. ASSUME NEW t \in Threads, NEW o, Free(t, o) PROVE Goal
  BY <1>p, <1>5 DEF Free, PopElement
<1>6. ASSUME NEW t \in Threads, HardFree(t) \/ DestroyLoop(t) PROVE Goal
  BY <1>p, <1>6 DEF HardFree, DestroyLoop, StartScan
<1>7. ASSUME NEW t \in Threads, Scan(t) PROVE Goal
  BY <1>p, <1>7 DEF Scan
<1>8. ASSUME NEW t \in Threads, CallbackReturns(t) \/ HardFreeReturns(t) PROVE Goal
  BY <1>p, <1>8 DEF CallbackReturns, HardFreeReturns
<1>9. ASSUME NEW t \in Threads, DestroyReturns(t) PROVE Goal
  BY <1>p, <1>9 DEF DestroyReturns
<1>10. ASSUME Deinit PROVE Goal
  BY <1>p, <1>10 DEF Deinit
<1>11. ASSUME UNCHANGED vars PROVE Goal
  BY <1>p, <1>11 DEF vars, local
<1>. HIDE DEF Goal
<1>12. ASSUME NEW t \in Threads, Call(t) PROVE Goal
  BY <1>1, <1>2, <1>6, <1>12 DEF Call
<1>13. ASSUME NEW t \in Threads, Proceed(t) PROVE Goal
  BY <1>1, <1>3, <1>4, <1>5, <1>6, <1>7, <1>8, <1>9, <1>13 DEF Proceed
<1>14. Goal
  BY <1>10, <1>11, <1>12, <1>13 DEF Next
<1>. QED BY <1>14 DEF Goal

\* The promise of limbo.hh:13,137 without exception, to clients that only
\* deallocate: no callback, no use after free.
THEOREM NoUseAfterFreeWithoutCallbacks == Callbacks = {} /\ Spec => []NoUseAfterFree
<1>. DEFINE NoC == NoCallbackRuns /\ samePass = {}
<1>. SUFFICES ASSUME Callbacks = {} PROVE Spec => []NoUseAfterFree
  OBVIOUS
<1>1. Init => NoC
  BY DEF Init, NoCallbackRuns
<1>2. IInv /\ NoC /\ [Next]_vars => NoC'
  BY NextNoCallbackRuns DEF IInv
<1>3. IInv /\ NoC => NoUseAfterFree
  BY DEF IInv, SafeAcrossPasses, NoUseAfterFree
<1>. QED BY <1>1, <1>2, <1>3, Inductive, PTL DEF Spec
-------------------------------------------------------------------------------
(* Every object is in exactly one place.                                    *)

\* An object in a slot of a handle's cache, or of a thread's limbo list.
InSlot(ca, h, i, o) == i \in 1 .. Len(ca[h]) /\ ca[h][i] = o
Waits(li, t, i, o) == i \in 1 .. Len(li[t]) /\ li[t][i].item = o

NoSlot(ca, o) == \A h \in Handles : \A i \in Nat : ~ InSlot(ca, h, i, o)
NoWait(li, o) == \A t \in Threads : \A i \in Nat : ~ Waits(li, t, i, o)
NoHand(ob, o) == \A t \in Threads : o \notin ob[t]

\* No place of an object shares it with another place.
Once(o, L, F, ob, ca, li) ==
    /\ o \in L \cup F => NoHand(ob, o) /\ NoSlot(ca, o) /\ NoWait(li, o)
    /\ ~ (o \in L /\ o \in F)
    /\ \A t \in Threads : o \in ob[t] =>
          (\A u \in Threads : o \in ob[u] => u = t) /\ NoSlot(ca, o) /\ NoWait(li, o)
    /\ \A h \in Handles : \A i \in Nat : InSlot(ca, h, i, o) =>
          (\A g \in Handles : \A j \in Nat : InSlot(ca, g, j, o) => g = h /\ j = i) /\ NoWait(li, o)
    /\ \A t \in Threads : \A i \in Nat : Waits(li, t, i, o) =>
          \A u \in Threads : \A j \in Nat : Waits(li, u, j, o) => u = t /\ j = i

Somewhere(o, L, F, ob, ca, li) ==
    \/ o \in L \cup F
    \/ \E t \in Threads : o \in ob[t]
    \/ \E h \in Handles : \E i \in Nat : InSlot(ca, h, i, o)
    \/ \E t \in Threads : \E i \in Nat : Waits(li, t, i, o)

PlacedIn(L, F, ob, ca, li) ==
    \A o \in Objects : Once(o, L, F, ob, ca, li) /\ Somewhere(o, L, F, ob, ca, li)

\* Unlinking moves a linked object to a caller who holds none.
UnlinkedBy(t, o, ob, ob2) ==
    /\ \A x \in Objects : x \notin ob[t] /\ (x \in ob2[t] <=> x = o)
    /\ \A u \in Threads \ {t} : \A x \in Objects : x \in ob2[u] <=> x \in ob[u]

LEMMA PlacedUnlink ==
  ASSUME NEW L, NEW F, NEW ob, NEW ca, NEW li, PlacedIn(L, F, ob, ca, li),
         NEW ob2, NEW t \in Threads, NEW o \in L, UnlinkedBy(t, o, ob, ob2)
  PROVE  PlacedIn(L \ {o}, F, ob2, ca, li)
<1>. SUFFICES ASSUME NEW x \in Objects
              PROVE  Once(x, L \ {o}, F, ob2, ca, li) /\ Somewhere(x, L \ {o}, F, ob2, ca, li)
  BY DEF PlacedIn
<1>. USE DEF UnlinkedBy
<1>1. Once(x, L, F, ob, ca, li) /\ Somewhere(x, L, F, ob, ca, li)
  BY DEF PlacedIn
<1>2. CASE x = o
  BY <1>1, <1>2 DEF Once, Somewhere, NoHand
<1>3. CASE x # o
  <2>1. \A u \in Threads : x \in ob2[u] <=> x \in ob[u]
    BY <1>3
  <2>. QED BY <1>1, <1>3, <2>1 DEF Once, Somewhere, NoHand
<1>. QED BY <1>2, <1>3

\* Slot n of the cache of h gets o.
SlotFilled(ca, h, n, o, ca2) ==
    /\ \A x : ~ InSlot(ca, h, n, x)
    /\ \A x : \A g \in Handles : \A i \in Nat :
          InSlot(ca2, g, i, x) <=> InSlot(ca, g, i, x) \/ (g = h /\ i = n /\ x = o)

\* A caller's object goes to a free slot of a cache.
CachedIn(t, h, n, o, ob, ca, ob2, ca2) ==
    /\ n \in Nat
    /\ SlotFilled(ca, h, n, o, ca2)
    /\ \A x \in Objects : (x \in ob[t] <=> x = o) /\ x \notin ob2[t]
    /\ \A u \in Threads \ {t} : \A x \in Objects : x \in ob2[u] <=> x \in ob[u]

LEMMA PlacedCache ==
  ASSUME NEW L, NEW F, NEW ob, NEW ca, NEW li, PlacedIn(L, F, ob, ca, li),
         NEW ob2, NEW ca2, NEW t \in Threads, NEW o \in ob[t], NEW h \in Handles, NEW n,
         CachedIn(t, h, n, o, ob, ca, ob2, ca2)
  PROVE  PlacedIn(L, F, ob2, ca2, li)
<1>. SUFFICES ASSUME NEW x \in Objects
              PROVE  Once(x, L, F, ob2, ca2, li) /\ Somewhere(x, L, F, ob2, ca2, li)
  BY DEF PlacedIn
<1>. USE DEF CachedIn, SlotFilled
<1>1. Once(x, L, F, ob, ca, li) /\ Somewhere(x, L, F, ob, ca, li)
  BY DEF PlacedIn
<1>2. CASE x = o
  <2>1. /\ x \notin L \cup F /\ NoSlot(ca, x) /\ NoWait(li, x)
        /\ \A u \in Threads : x \in ob[u] => u = t
    BY <1>1, <1>2 DEF Once, NoHand
  <2>2. NoHand(ob2, x)
    BY <1>2, <2>1 DEF NoHand
  <2>3. \A g \in Handles : \A i \in Nat : InSlot(ca2, g, i, x) <=> (g = h /\ i = n)
    BY <1>2, <2>1 DEF NoSlot
  <2>4. Once(x, L, F, ob2, ca2, li)
    BY <2>1, <2>2, <2>3 DEF Once, NoHand, NoWait
  <2>5. Somewhere(x, L, F, ob2, ca2, li)
    BY <2>3 DEF Somewhere
  <2>. QED BY <2>4, <2>5
<1>3. CASE x # o
  <2>1. \A u \in Threads : x \in ob2[u] <=> x \in ob[u]
    BY <1>3
  <2>2. \A g \in Handles : \A i \in Nat : InSlot(ca2, g, i, x) <=> InSlot(ca, g, i, x)
    BY <1>3
  <2>. QED BY <1>1, <2>1, <2>2 DEF Once, Somewhere, NoHand, NoSlot
<1>. QED BY <1>2, <1>3

\* A limbo list of m elements grows: by the cache of the handles in C, one at
\* most, and by the objects in H, one of the caller at most, in slot n of those
\* appended.
Recorded(t, m, n, C, H, ob, ca, li, ob2, ca2, li2) ==
    /\ m \in Nat /\ n \in Nat
    /\ C \subseteq Handles /\ \A g, h \in C : g = h
    /\ H \subseteq ob[t] /\ \A x, y \in H : x = y
    /\ \A u \in Threads : \A x \in Objects : x \in ob2[u] <=> x \in ob[u] /\ ~ (u = t /\ x \in H)
    /\ \A x \in Objects : \A g \in Handles : \A i \in Nat :
          InSlot(ca2, g, i, x) <=> InSlot(ca, g, i, x) /\ g \notin C
    /\ \A x \in Objects : \A i \in Nat :
          Waits(li2, t, i, x) <=>
             \/ Waits(li, t, i, x)
             \/ i > m /\ \E h \in C : InSlot(ca, h, i - m, x)
             \/ i = m + n /\ x \in H
    /\ \A u \in Threads \ {t} : \A x \in Objects : \A i \in Nat :
          Waits(li2, u, i, x) <=> Waits(li, u, i, x)

LEMMA PlacedRecord ==
  ASSUME NEW L, NEW F, NEW ob, NEW ca, NEW li, PlacedIn(L, F, ob, ca, li),
         NEW ob2, NEW ca2, NEW li2, NEW t \in Threads, NEW m, NEW n, NEW C, NEW H,
         Recorded(t, m, n, C, H, ob, ca, li, ob2, ca2, li2)
  PROVE  PlacedIn(L, F, ob2, ca2, li2)
<1>. SUFFICES ASSUME NEW x \in Objects
              PROVE  Once(x, L, F, ob2, ca2, li2) /\ Somewhere(x, L, F, ob2, ca2, li2)
  BY DEF PlacedIn
<1>1. Once(x, L, F, ob, ca, li) /\ Somewhere(x, L, F, ob, ca, li)
  BY DEF PlacedIn
<1>0. /\ m \in Nat /\ n \in Nat
      /\ C \subseteq Handles /\ \A g, h \in C : g = h
      /\ H \subseteq ob[t] /\ \A y, z \in H : y = z
      /\ \A u \in Threads : x \in ob2[u] <=> x \in ob[u] /\ ~ (u = t /\ x \in H)
      /\ \A g \in Handles : \A i \in Nat :
            InSlot(ca2, g, i, x) <=> InSlot(ca, g, i, x) /\ g \notin C
      /\ \A i \in Nat :
            Waits(li2, t, i, x) <=>
               \/ Waits(li, t, i, x)
               \/ i > m /\ \E h \in C : InSlot(ca, h, i - m, x)
               \/ i = m + n /\ x \in H
      /\ \A u \in Threads \ {t} : \A i \in Nat : Waits(li2, u, i, x) <=> Waits(li, u, i, x)
      /\ \A g \in Handles : ~ InSlot(ca, g, 0, x)
  BY DEF Recorded, InSlot
<1>2. CASE x \in H
  <2>1. /\ x \notin L \cup F /\ NoSlot(ca, x) /\ NoWait(li, x)
        /\ \A u \in Threads : x \in ob[u] => u = t
    BY <1>0, <1>1, <1>2 DEF Once, NoHand
  <2>2. NoHand(ob2, x)
    BY <1>0, <1>2, <2>1 DEF NoHand
  <2>3. NoSlot(ca2, x)
    BY <1>0, <2>1 DEF NoSlot
  <2>4. \A i \in Nat : i > m => i - m \in Nat
    BY <1>0
  <2>5. \A u \in Threads : \A i \in Nat : Waits(li2, u, i, x) <=> (u = t /\ i = m + n)
    <3>1. \A u \in Threads \ {t} : \A i \in Nat : ~ Waits(li2, u, i, x)
      BY <1>0, <2>1 DEF NoWait
    <3>2. \A i \in Nat : Waits(li2, t, i, x) <=> i = m + n
      BY <1>0, <1>2, <2>1, <2>4 DEF NoWait, NoSlot
    <3>. QED BY <1>0, <3>1, <3>2
  <2>6. Once(x, L, F, ob2, ca2, li2)
    BY <1>0, <2>1, <2>2, <2>3, <2>5 DEF Once, NoHand, NoSlot
  <2>7. Somewhere(x, L, F, ob2, ca2, li2)
    <3>1. m + n \in Nat
      BY <1>0
    <3>. QED BY <1>0, <2>5, <3>1 DEF Somewhere
  <2>. QED BY <1>0, <2>6, <2>7
<1>3. CASE x \notin H /\ \E h \in C : \E k \in Nat : InSlot(ca, h, k, x)
  <2>1. PICK h \in C : \E k \in Nat : InSlot(ca, h, k, x)
    BY <1>0, <1>3
  <2>2. PICK k \in Nat : InSlot(ca, h, k, x)
    BY <1>0, <2>1
  <2>3. /\ h \in Handles /\ k \in Nat \ {0} /\ m + k \in Nat /\ m + k > m
    BY <1>0, <2>2
  <2>4. /\ x \notin L \cup F /\ NoHand(ob, x) /\ NoWait(li, x)
        /\ \A g \in Handles : \A j \in Nat : InSlot(ca, g, j, x) => g = h /\ j = k
    BY <1>0, <1>1, <2>2, <2>3 DEF Once, NoHand, NoSlot
  <2>5. NoHand(ob2, x)
    BY <1>0, <2>4 DEF NoHand
  <2>6. NoSlot(ca2, x)
    BY <1>0, <2>1, <2>4 DEF NoSlot
  <2>7. \A i \in Nat : (i > m => i - m \in Nat) /\ (i > m /\ i - m = k <=> i = m + k)
    BY <1>0, <2>3
  <2>8. \A u \in Threads : \A i \in Nat : Waits(li2, u, i, x) <=> (u = t /\ i = m + k)
    <3>1. \A u \in Threads \ {t} : \A i \in Nat : ~ Waits(li2, u, i, x)
      BY <1>0, <2>4 DEF NoWait
    <3>2. \A i \in Nat : Waits(li2, t, i, x) => i = m + k
      BY <1>0, <1>3, <2>4, <2>7 DEF NoWait
    <3>3. \A i \in Nat : i = m + k => i > m /\ i - m = k
      BY <1>0, <2>7
    <3>4. \A i \in Nat : i = m + k => InSlot(ca, h, i - m, x)
      BY <1>0, <2>2, <3>3
    <3>5. \A i \in Nat : i = m + k => Waits(li2, t, i, x)
      BY <1>0, <3>3, <3>4
    <3>. QED BY <1>0, <3>1, <3>2, <3>5
  <2>9. Once(x, L, F, ob2, ca2, li2)
    BY <1>0, <2>4, <2>5, <2>6, <2>8 DEF Once, NoHand, NoSlot
  <2>10. Somewhere(x, L, F, ob2, ca2, li2)
    BY <1>0, <2>3, <2>8 DEF Somewhere
  <2>. QED BY <1>0, <2>9, <2>10
<1>4. CASE x \notin H /\ ~ \E h \in C : \E k \in Nat : InSlot(ca, h, k, x)
  <2>1. \A u \in Threads : x \in ob2[u] <=> x \in ob[u]
    BY <1>0, <1>4
  <2>2. \A g \in Handles : \A i \in Nat : InSlot(ca2, g, i, x) <=> InSlot(ca, g, i, x)
    BY <1>0, <1>4
  <2>3. \A i \in Nat : i > m => i - m \in Nat
    BY <1>0
  <2>4. \A i \in Nat : Waits(li2, t, i, x) <=> Waits(li, t, i, x)
    BY <1>0, <1>4, <2>3
  <2>5. \A u \in Threads : \A i \in Nat : Waits(li2, u, i, x) <=> Waits(li, u, i, x)
    BY <1>0, <2>4
  <2>. QED BY <1>0, <1>1, <2>1, <2>2, <2>5 DEF Once, Somewhere, NoHand, NoSlot, NoWait
<1>. QED BY <1>0, <1>2, <1>3, <1>4

\* The head of a limbo list leaves it; if it is an object, it is freed.
HeadLeaves(t, F, li, F2, li2) ==
    /\ \A x \in Objects : ~ Waits(li, t, 0, x) /\ ~ Waits(li2, t, 0, x)
    /\ \A x \in Objects : x \in F2 <=> x \in F \/ Waits(li, t, 1, x)
    /\ \A x \in Objects : \A i \in Nat \ {0} : Waits(li2, t, i, x) <=> Waits(li, t, i + 1, x)
    /\ \A u \in Threads \ {t} : \A x \in Objects : \A i \in Nat :
          Waits(li2, u, i, x) <=> Waits(li, u, i, x)

LEMMA PlacedPop ==
  ASSUME NEW L, NEW F, NEW ob, NEW ca, NEW li, PlacedIn(L, F, ob, ca, li),
         NEW F2, NEW li2, NEW t \in Threads, HeadLeaves(t, F, li, F2, li2)
  PROVE  PlacedIn(L, F2, ob, ca, li2)
<1>. SUFFICES ASSUME NEW x \in Objects
              PROVE  Once(x, L, F2, ob, ca, li2) /\ Somewhere(x, L, F2, ob, ca, li2)
  BY DEF PlacedIn
<1>. USE DEF HeadLeaves
<1>1. Once(x, L, F, ob, ca, li) /\ Somewhere(x, L, F, ob, ca, li)
  BY DEF PlacedIn
<1>2. \A i \in Nat \ {0} : i + 1 \in Nat /\ i + 1 # 1
  OBVIOUS
<1>3. CASE \E k \in Nat : Waits(li, t, k, x)
  <2>1. PICK k \in Nat : Waits(li, t, k, x)
    BY <1>3
  <2>2. /\ x \notin L \cup F /\ NoHand(ob, x) /\ NoSlot(ca, x)
        /\ \A u \in Threads : \A j \in Nat : Waits(li, u, j, x) => u = t /\ j = k
    BY <1>1, <2>1 DEF Once, NoHand, NoSlot, NoWait
  <2>3. \A u \in Threads \ {t} : \A i \in Nat : ~ Waits(li2, u, i, x)
    BY <2>2
  <2>4. CASE k = 1
    <3>1. x \in F2
      BY <2>1, <2>4
    <3>2. \A i \in Nat : ~ Waits(li2, t, i, x)
      BY <1>2, <2>2, <2>4
    <3>3. NoWait(li2, x)
      BY <2>3, <3>2 DEF NoWait
    <3>. QED BY <2>2, <3>1, <3>3 DEF Once, Somewhere, NoHand, NoSlot, NoWait
  <2>5. CASE k # 1
    <3>1. k - 1 \in Nat \ {0} /\ (k - 1) + 1 = k
      BY <2>1, <2>5
    <3>2. x \notin F2
      BY <2>2, <2>5
    <3>3. \A i \in Nat \ {0} : i + 1 = k => i = k - 1
      OBVIOUS
    <3>4. \A i \in Nat : Waits(li2, t, i, x) => i = k - 1
      BY <1>2, <2>2, <3>3
    <3>5. Waits(li2, t, k - 1, x)
      BY <2>1, <3>1
    <3>. DEFINE j == k - 1
    <3>6. j \in Nat /\ Waits(li2, t, j, x) /\ \A i \in Nat : Waits(li2, t, i, x) => i = j
      BY <3>1, <3>4, <3>5
    <3>. HIDE DEF j
    <3>7. Once(x, L, F2, ob, ca, li2)
      BY <2>2, <2>3, <3>2, <3>6 DEF Once, NoHand, NoSlot
    <3>. QED BY <3>6, <3>7 DEF Somewhere
  <2>. QED BY <2>4, <2>5
<1>4. CASE \A k \in Nat : ~ Waits(li, t, k, x)
  <2>1. x \in F2 <=> x \in F
    BY <1>4
  <2>2. \A i \in Nat : ~ Waits(li2, t, i, x)
    BY <1>2, <1>4
  <2>3. \A u \in Threads : \A i \in Nat : Waits(li2, u, i, x) <=> Waits(li, u, i, x)
    BY <1>4, <2>2
  <2>. QED BY <1>1, <2>1, <2>3 DEF Once, Somewhere, NoWait
<1>. QED BY <1>3, <1>4
\* A caller holds what it unlinked, one object, until it deallocates it.
HandsEmpty ==
    /\ \A t \in Threads : pc[t] \notin {"dealloc", "record"} => obj[t] = {}
    /\ \A t \in Threads : \A x, y \in obj[t] : x = y

\* The threads' garbage is drained one thread after the other.
DestroyedInTurn ==
    \A t, u \in Threads : deinit /\ t < u => pc[t] = "destroyed" \/ pc[u] = "joined"

LEMMA NextHandsEmpty ==
  ASSUME TypeOK, DeinitInv, DestroyedInTurn, HandsEmpty, [Next]_vars
  PROVE  HandsEmpty'
<1>. USE DEF HandsEmpty, Goto
<1>p. pc \in [Threads -> Labels] /\ obj \in [Threads -> SUBSET Objects]
  BY DEF TypeOK
<1>1. ASSUME NEW t \in Threads, NewHandle(t) \/ Publish(t) \/ UnlinkHandle(t)
      PROVE  HandsEmpty'
  BY <1>p, <1>1 DEF NewHandle, Publish, UnlinkHandle, StartScan
<1>2. ASSUME NEW t \in Threads, NEW h, NEW o, Unlink(t, h, o) \/ DeleteHandle(t, h)
      PROVE  HandsEmpty'
  BY <1>p, <1>2 DEF Unlink, DeleteHandle, TakeOut
<1>3. ASSUME NEW t \in Threads, NEW o, HandleDealloc(t, o) \/ ThreadDealloc(t, o)
      PROVE  HandsEmpty'
  BY <1>p, <1>3 DEF HandleDealloc, ThreadDealloc, DeallocReturns
<1>4. ASSUME NEW t \in Threads, NEW o, CallbackUnlink(t, o) \/ CallbackRecord(t, o)
      PROVE  HandsEmpty'
  BY <1>p, <1>4 DEF CallbackUnlink, CallbackRecord, TakeOut
<1>5. ASSUME NEW t \in Threads, NEW c, RegisterRcu(t, c) \/ FirstCall(t, c)
      PROVE  HandsEmpty'
  BY <1>p, <1>5 DEF RegisterRcu, FirstCall, local
<1>6. ASSUME NEW t \in Threads, NEW c, Free(t, c) \/ RunCallback(t, c)
      PROVE  HandsEmpty'
  BY <1>p, <1>6 DEF Free, RunCallback, PopElement
<1>7. ASSUME NEW t \in Threads, HardFree(t) \/ DestroyLoop(t)
      PROVE  HandsEmpty'
  BY <1>p, <1>7 DEF HardFree, DestroyLoop, StartScan
<1>8. ASSUME NEW t \in Threads, Scan(t) PROVE HandsEmpty'
  BY <1>p, <1>8 DEF Scan
<1>9. ASSUME NEW t \in Threads, CallbackReturns(t) \/ HardFreeReturns(t)
      PROVE  HandsEmpty'
  BY <1>p, <1>9 DEF CallbackReturns, HardFreeReturns
<1>10. ASSUME NEW t \in Threads, DestroyReturns(t) PROVE HandsEmpty'
  <2>1. deinit /\ pc[t] = "destroy" /\ UNCHANGED obj
    BY <1>10 DEF DestroyReturns, DeinitInv
  <2>2. t \in Int /\ t < t + 1
    BY DEF Threads
  <2>3. t + 1 \in Threads => pc[t + 1] = "joined"
    BY <2>1, <2>2 DEF DestroyedInTurn
  <2>4. \A u \in Threads : pc'[u] = pc[u] \/ u = t \/ u = t + 1
    BY <1>10 DEF DestroyReturns
  <2>. QED BY <2>1, <2>3, <2>4
<1>11. ASSUME Deinit PROVE HandsEmpty'
  BY <1>p, <1>11 DEF Deinit
<1>12. CASE UNCHANGED vars
  BY <1>p, <1>12 DEF vars, local
<1>13. ASSUME NEW t \in Threads, Call(t) PROVE HandsEmpty'
  BY <1>1, <1>2, <1>5, <1>7, <1>13 DEF Call
<1>14. ASSUME NEW t \in Threads, Proceed(t) PROVE HandsEmpty'
  BY <1>1, <1>3, <1>4, <1>5, <1>6, <1>7, <1>8, <1>9, <1>10, <1>14 DEF Proceed
<1>. QED BY <1>11, <1>12, <1>13, <1>14 DEF Next

LEMMA NextDestroyedInTurn ==
  ASSUME TypeOK, DeinitInv, DestroyedInTurn, [Next]_vars
  PROVE  DestroyedInTurn'
<1>. USE DEF DestroyedInTurn
<1>p. pc \in [Threads -> Labels]
  BY DEF TypeOK
<1>a. ASSUME NEW t \in Threads, UNCHANGED deinit, pc[t] \notin {"joined", "destroyed"},
             \A u \in Threads : u # t => pc'[u] = pc[u]
      PROVE  DestroyedInTurn'
  BY <1>a
<1>. USE DEF Goto, client
<1>1. ASSUME NEW t \in Threads, NewHandle(t) \/ Publish(t) \/ UnlinkHandle(t)
      PROVE  DestroyedInTurn'
  BY <1>a, <1>p, <1>1 DEF NewHandle, Publish, UnlinkHandle, StartScan
<1>2. ASSUME NEW t \in Threads, NEW h, NEW o, Unlink(t, h, o) \/ DeleteHandle(t, h)
      PROVE  DestroyedInTurn'
  BY <1>a, <1>p, <1>2 DEF Unlink, DeleteHandle
<1>3. ASSUME NEW t \in Threads, NEW o, HandleDealloc(t, o) \/ ThreadDealloc(t, o)
      PROVE  DestroyedInTurn'
  BY <1>a, <1>p, <1>3 DEF HandleDealloc, ThreadDealloc, DeallocReturns
<1>4. ASSUME NEW t \in Threads, NEW o, CallbackUnlink(t, o) \/ CallbackRecord(t, o)
      PROVE  DestroyedInTurn'
  BY <1>a, <1>p, <1>4 DEF CallbackUnlink, CallbackRecord
<1>5. ASSUME NEW t \in Threads, NEW c, RegisterRcu(t, c) \/ FirstCall(t, c)
      PROVE  DestroyedInTurn'
  BY <1>p, <1>5 DEF RegisterRcu, FirstCall, local
<1>6. ASSUME NEW t \in Threads, NEW c, Free(t, c) \/ RunCallback(t, c)
      PROVE  DestroyedInTurn'
  BY <1>a, <1>p, <1>6 DEF Free, RunCallback, PopElement
<1>7. ASSUME NEW t \in Threads, HardFree(t) \/ DestroyLoop(t)
      PROVE  DestroyedInTurn'
  BY <1>a, <1>p, <1>7 DEF HardFree, DestroyLoop, StartScan
<1>8. ASSUME NEW t \in Threads, Scan(t) PROVE DestroyedInTurn'
  BY <1>a, <1>p, <1>8 DEF Scan
<1>9. ASSUME NEW t \in Threads, CallbackReturns(t) \/ HardFreeReturns(t)
      PROVE  DestroyedInTurn'
  BY <1>a, <1>p, <1>9 DEF CallbackReturns, HardFreeReturns
<1>10. ASSUME NEW t \in Threads, DestroyReturns(t) PROVE DestroyedInTurn'
  <2>1. deinit' = deinit /\ deinit /\ pc[t] = "destroy"
    BY <1>10 DEF DestroyReturns, DeinitInv
  <2>2. pc' = [u \in Threads |-> CASE u = t -> "destroyed"
                                   [] u = t + 1 -> "destroy"
                                   [] OTHER -> pc[u]]
    BY <1>10 DEF DestroyReturns
  <2>3. /\ pc'[t] = "destroyed"
        /\ t + 1 \in Threads => pc'[t + 1] = "destroy"
        /\ \A u \in Threads : u # t /\ u # t + 1 => pc'[u] = pc[u]
    BY <2>2 DEF Threads
  <2>. SUFFICES ASSUME NEW v \in Threads, NEW u \in Threads, v < u
                PROVE  pc'[v] = "destroyed" \/ pc'[u] = "joined"
    BY DEF Threads
  <2>4. CASE v < t
    BY <2>1, <2>3, <2>4 DEF Threads
  <2>5. CASE v = t
    BY <2>3, <2>5
  <2>6. CASE v > t
    <3>1. pc[u] = "joined" /\ u # t /\ u # t + 1
      BY <2>1, <2>6 DEF Threads
    <3>. QED BY <2>3, <3>1
  <2>. QED BY <2>4, <2>5, <2>6 DEF Threads
<1>11. ASSUME Deinit PROVE DestroyedInTurn'
  BY <1>p, <1>11 DEF Deinit, Threads
<1>12. CASE UNCHANGED vars
  BY <1>p, <1>12 DEF vars, local
<1>13. ASSUME NEW t \in Threads, Call(t) PROVE DestroyedInTurn'
  BY <1>1, <1>2, <1>5, <1>7, <1>13 DEF Call
<1>14. ASSUME NEW t \in Threads, Proceed(t) PROVE DestroyedInTurn'
  BY <1>1, <1>3, <1>4, <1>5, <1>6, <1>7, <1>8, <1>9, <1>10, <1>14 DEF Proceed
<1>. QED BY <1>11, <1>12, <1>13, <1>14 DEF Next

\* A cache is recorded before it is full.
CacheHasRoom == \A h \in Handles : Len(cache[h]) < CacheSize

\* The slots of a cache that grows by an object.
Grown(ca2, ca, h, o) == ca2 = [ca EXCEPT ![h] = Append(ca[h], o)]

LEMMA SlotsOfAppend ==
  ASSUME NEW ca \in [Handles -> Seq(Objects)], NEW h \in Handles, NEW o \in Objects, NEW ca2,
         Grown(ca2, ca, h, o), NEW n, n = Len(ca[h]) + 1
  PROVE  Len(ca[h]) \in Nat /\ Len(ca2[h]) = n /\ SlotFilled(ca, h, n, o, ca2)
<1>1. /\ Len(ca[h]) \in Nat
      /\ Len(Append(ca[h], o)) = Len(ca[h]) + 1
      /\ \A i \in 1 .. Len(ca[h]) : Append(ca[h], o)[i] = ca[h][i]
      /\ Append(ca[h], o)[Len(ca[h]) + 1] = o
  BY AppendProperties, LenProperties
<1>2. \A g \in Handles : ca2[g] = IF g = h THEN Append(ca[h], o) ELSE ca[g]
  BY DEF Grown
<1>3. ASSUME NEW x, NEW g \in Handles, NEW i \in Nat
      PROVE  InSlot(ca2, g, i, x) <=> InSlot(ca, g, i, x) \/ (g = h /\ i = n /\ x = o)
  <2>1. CASE g # h
    BY <1>2, <2>1 DEF InSlot
  <2>2. CASE g = h
    <3>1. ca2[g] = Append(ca[h], o)
      BY <1>2, <2>2
    <3>. QED BY <1>1, <2>2, <3>1 DEF InSlot
  <2>. QED BY <2>1, <2>2
<1>. QED BY <1>1, <1>2, <1>3 DEF InSlot, Grown, SlotFilled

\* The slots left by a cache that is emptied.
LEMMA SlotsOfEmpty ==
  ASSUME NEW ca \in [Handles -> Seq(Objects)], NEW h \in Handles, NEW ca2,
         ca2 = [ca EXCEPT ![h] = <<>>]
  PROVE  /\ Len(ca2[h]) = 0
         /\ \A x : \A g \in Handles : \A i \in Nat : InSlot(ca2, g, i, x) <=> InSlot(ca, g, i, x) /\ g # h
<1>1. \A g \in Handles : ca2[g] = IF g = h THEN <<>> ELSE ca[g]
  OBVIOUS
<1>2. Len(<<>>) = 0
  BY EmptySeq
<1>. QED BY <1>1, <1>2 DEF InSlot

\* The slots of a limbo list after a record.
Appended(li2, t, s) == li2 = [limbo EXCEPT ![t] = limbo[t] \o Elements(s)]

LEMMA WaitsAfterRecord ==
  ASSUME TypeOK, NEW s \in Seq(Objects \cup Callbacks), NEW t \in Threads, NEW li2,
         Appended(li2, t, s)
  PROVE  /\ Len(limbo[t]) \in Nat
         /\ \A x : \A i \in Nat : Waits(li2, t, i, x) <=>
              \/ Waits(limbo, t, i, x)
              \/ i > Len(limbo[t]) /\ i - Len(limbo[t]) \in 1 .. Len(s) /\ s[i - Len(limbo[t])] = x
         /\ \A u \in Threads \ {t} : \A x : \A i \in Nat : Waits(li2, u, i, x) <=> Waits(limbo, u, i, x)
<1>. DEFINE old == limbo[t]
            new == old \o Elements(s)
<1>1. limbo \in [Threads -> Seq(Element)]
  BY DEF TypeOK
<1>2. old \in Seq(Element)
  BY <1>1
<1>3. /\ Len(old) \in Nat /\ Len(s) \in Nat
      /\ Len(new) = Len(old) + Len(s)
      /\ \A i \in 1 .. Len(old) : new[i] = old[i]
      /\ \A i \in 1 .. Len(s) : new[Len(old) + i] = [item |-> s[i], epoch |-> globalEpoch]
  BY <1>2, RecordProperties
<1>4. li2[t] = new /\ \A u \in Threads \ {t} : li2[u] = limbo[u]
  BY <1>1 DEF Appended
<1>6. Len(old) \in Nat /\ Len(s) \in Nat /\ Len(new) = Len(old) + Len(s)
  BY <1>3
<1>. HIDE DEF new, old
<1>5. ASSUME NEW x, NEW i \in Nat
      PROVE  Waits(li2, t, i, x) <=>
               Waits(limbo, t, i, x) \/ (i > Len(old) /\ i - Len(old) \in 1 .. Len(s) /\ s[i - Len(old)] = x)
  <2>1. CASE i <= Len(old)
    BY <1>3, <1>4, <2>1 DEF Waits, old
  <2>2. CASE i > Len(old)
    <3>1. PICK k \in Nat : k = i - Len(old)
      BY <1>6, <2>2
    <3>2. k \in Nat \ {0} /\ i = Len(old) + k
      BY <1>6, <2>2, <3>1
    <3>3. ~ Waits(limbo, t, i, x)
      BY <1>6, <2>2 DEF Waits, old
    <3>4. i \in 1 .. Len(new) <=> k \in 1 .. Len(s)
      BY <1>6, <3>2
    <3>5. k \in 1 .. Len(s) => new[i] = [item |-> s[k], epoch |-> globalEpoch]
      BY <1>3, <3>2
    <3>6. k \in 1 .. Len(s) => new[i].item = s[k]
      BY <3>5
    <3>. QED BY <1>4, <2>2, <3>1, <3>3, <3>4, <3>6 DEF Waits
  <2>. QED BY <1>6, <2>1, <2>2
<1>. QED BY <1>4, <1>5, <1>6 DEF Waits, old
\* The slots of a limbo list that has lost its head and may have gained a callback.
Popped(li2, t, s) ==
    \/ li2 = [limbo EXCEPT ![t] = Tail(limbo[t])]
    \/ li2 = [limbo EXCEPT ![t] = Tail(limbo[t]) \o Elements(s)]

LEMMA WaitsAfterPop ==
  ASSUME TypeOK, NEW s \in Seq(Callbacks), NEW t \in Threads, limbo[t] # <<>>, NEW li2,
         Popped(li2, t, s)
  PROVE  /\ \A x : ~ Waits(limbo, t, 0, x) /\ ~ Waits(li2, t, 0, x)
         /\ \A x : Waits(limbo, t, 1, x) <=> Head(limbo[t]).item = x
         /\ \A x \in Objects : \A i \in Nat \ {0} : Waits(li2, t, i, x) <=> Waits(limbo, t, i + 1, x)
         /\ \A u \in Threads \ {t} : \A x : \A i \in Nat : Waits(li2, u, i, x) <=> Waits(limbo, u, i, x)
<1>. DEFINE old == limbo[t]
            tail == Tail(old)
<1>1. limbo \in [Threads -> Seq(Element)] /\ old \in Seq(Element)
  BY DEF TypeOK
<1>2. /\ Len(old) \in Nat \ {0}
      /\ Head(old) = old[1]
      /\ tail \in Seq(Element)
      /\ Len(tail) = Len(old) - 1
      /\ \A i \in 1 .. Len(old) - 1 : tail[i] = old[i + 1]
  BY <1>1, TailProperties
<1>3. PICK new : li2 = [limbo EXCEPT ![t] = new] /\ (new = tail \/ new = tail \o Elements(s))
  BY DEF Popped
<1>4. PICK n \in Nat : /\ Len(new) = Len(old) - 1 + n
                       /\ \A i \in 1 .. Len(old) - 1 : new[i] = old[i + 1]
                       /\ \A i \in 1 .. n : new[Len(old) - 1 + i].item \in Callbacks
  <2>1. CASE new = tail
    BY <1>2, <2>1
  <2>2. CASE new = tail \o Elements(s)
    <3>1. s \in Seq(Objects \cup Callbacks) /\ Len(s) \in Nat /\ \A i \in 1 .. Len(s) : s[i] \in Callbacks
      BY LenProperties
    <3>2. /\ Len(new) = Len(tail) + Len(s)
          /\ \A i \in 1 .. Len(tail) : new[i] = tail[i]
          /\ \A i \in 1 .. Len(s) : new[Len(tail) + i] = [item |-> s[i], epoch |-> globalEpoch]
      BY <1>2, <2>2, <3>1, RecordProperties
    <3>7. \A i \in 1 .. Len(s) : [item |-> s[i], epoch |-> globalEpoch].item = s[i]
      OBVIOUS
    <3>3. \A i \in 1 .. Len(s) : new[Len(tail) + i].item \in Callbacks
      BY <3>1, <3>2, <3>7
    <3>4. Len(new) = Len(old) - 1 + Len(s)
      BY <1>2, <3>2
    <3>5. \A i \in 1 .. Len(old) - 1 : new[i] = old[i + 1]
      BY <1>2, <3>2
    <3>6. \A i \in 1 .. Len(s) : new[Len(old) - 1 + i].item \in Callbacks
      BY <1>2, <3>3
    <3>. QED BY <3>1, <3>4, <3>5, <3>6
  <2>. QED BY <1>3, <2>1, <2>2
<1>5. li2[t] = new /\ \A u \in Threads \ {t} : li2[u] = limbo[u]
  BY <1>1, <1>3
<1>6. Len(old) \in Nat \ {0} /\ Head(old) = old[1]
  BY <1>2
<1>. HIDE DEF old, tail
<1>7. ASSUME NEW x \in Objects, NEW i \in Nat \ {0}
      PROVE  Waits(li2, t, i, x) <=> Waits(limbo, t, i + 1, x)
  <2>1. CASE i < Len(old)
    <3>1. i \in 1 .. Len(old) - 1 /\ i \in 1 .. Len(new) /\ i + 1 \in 1 .. Len(old)
      BY <1>4, <1>6, <2>1
    <3>. QED BY <1>4, <1>5, <3>1 DEF Waits, old
  <2>2. CASE i >= Len(old)
    <3>0. PICK m \in Nat \ {0} : m = Len(old)
      BY <1>6
    <3>4. i - (m - 1) \in Nat
      BY <2>2, <3>0
    <3>1. PICK k \in Nat : k = i - (m - 1)
      BY <3>4
    <3>2. i = Len(old) - 1 + k /\ i + 1 \notin 1 .. Len(old) /\ (i \in 1 .. Len(new) => k \in 1 .. n)
      BY <1>4, <2>2, <3>0, <3>1
    <3>3. i \in 1 .. Len(new) => new[i].item \in Callbacks
      BY <1>4, <3>2
    <3>. QED BY <1>5, <3>2, <3>3, ConstantsOK DEF Waits, old
  <2>. QED BY <1>6, <2>1, <2>2
<1>8. \A x : ~ Waits(limbo, t, 0, x) /\ ~ Waits(li2, t, 0, x)
  BY DEF Waits
<1>9. \A x : Waits(limbo, t, 1, x) <=> Head(limbo[t]).item = x
  BY <1>6 DEF Waits, old
<1>. QED BY <1>5, <1>7, <1>8, <1>9 DEF Waits

Placed == PlacedIn(linked, freed, obj, cache, limbo)

PlaceInv == RInv /\ HandsEmpty /\ DestroyedInTurn /\ CacheHasRoom /\ Placed

\* A record of what the caller holds or what a cache holds.
LEMMA RecordPlaces ==
  ASSUME PlaceInv, NEW t \in Threads, NEW o \in obj[t], Record(t, <<o>>),
         obj' = [obj EXCEPT ![t] = {}], UNCHANGED <<linked, freed, cache>>
  PROVE  CacheHasRoom' /\ Placed'
<1>. USE DEF PlaceInv, RInv, IInv
<1>1. CacheHasRoom'
  BY DEF CacheHasRoom
<1>2. /\ o \in Objects
      /\ <<o>> \in Seq(Objects \cup Callbacks)
      /\ Len(<<o>>) = 1 /\ <<o>>[1] = o
  BY DEF TypeOK
<1>3. PICK li2 : li2 = limbo'
  OBVIOUS
<1>4. PICK ob2 : ob2 = obj'
  OBVIOUS
<1>5. Appended(li2, t, <<o>>)
  BY <1>3 DEF Record, Appended
<1>6. PICK m \in Nat : m = Len(limbo[t])
  BY <1>2, <1>5, WaitsAfterRecord
<1>a. /\ \A x : \A i \in Nat : Waits(li2, t, i, x) <=>
            \/ Waits(limbo, t, i, x)
            \/ i > Len(limbo[t]) /\ i - Len(limbo[t]) \in 1 .. Len(<<o>>)
                                 /\ <<o>>[i - Len(limbo[t])] = x
      /\ \A u \in Threads \ {t} : \A x : \A i \in Nat : Waits(li2, u, i, x) <=> Waits(limbo, u, i, x)
  <2>1. PICK s \in Seq(Objects \cup Callbacks) : s = <<o>>
    BY <1>2
  <2>2. Appended(li2, t, s)
    BY <1>5, <2>1
  <2>3. TypeOK
    OBVIOUS
  <2>4. /\ \A x : \A i \in Nat : Waits(li2, t, i, x) <=>
              \/ Waits(limbo, t, i, x)
              \/ i > Len(limbo[t]) /\ i - Len(limbo[t]) \in 1 .. Len(s) /\ s[i - Len(limbo[t])] = x
        /\ \A u \in Threads \ {t} : \A x : \A i \in Nat : Waits(li2, u, i, x) <=> Waits(limbo, u, i, x)
    BY <2>2, <2>3, WaitsAfterRecord
  <2>. QED BY <2>1, <2>4
<1>7. /\ \A x : \A i \in Nat : Waits(li2, t, i, x) <=>
            Waits(limbo, t, i, x) \/ (i > m /\ i - m \in 1 .. Len(<<o>>) /\ <<o>>[i - m] = x)
      /\ \A u \in Threads \ {t} : \A x : \A i \in Nat : Waits(li2, u, i, x) <=> Waits(limbo, u, i, x)
  BY <1>6, <1>a
<1>8. \A i \in Nat : i > m /\ i - m \in 1 .. 1 <=> i = m + 1
  OBVIOUS
<1>9. \A i \in Nat : i = m + 1 => i - m = 1
  OBVIOUS
<1>10. \A x \in Objects : \A i \in Nat :
            Waits(li2, t, i, x) <=>
               \/ Waits(limbo, t, i, x)
               \/ i > m /\ \E h \in {} : InSlot(cache, h, i - m, x)
               \/ i = m + 1 /\ x \in {o}
  BY <1>2, <1>7, <1>8, <1>9
<1>11. \A u \in Threads : \A x \in Objects : x \in ob2[u] <=> x \in obj[u] /\ ~ (u = t /\ x \in {o})
  BY <1>4 DEF HandsEmpty, TypeOK
<1>12. PlacedIn(linked, freed, obj, cache, limbo)
  BY DEF Placed
<1>14. PICK C : C = {}
  OBVIOUS
<1>15. PICK H : H = {o}
  OBVIOUS
<1>16. PICK n \in Nat : n = 1
  OBVIOUS
<1>17. Recorded(t, m, n, C, H, obj, cache, limbo, ob2, cache, li2)
  BY <1>7, <1>10, <1>11, <1>14, <1>15, <1>16 DEF Recorded
<1>18. PlacedIn(linked, freed, ob2, cache, li2)
  BY <1>12, <1>17, PlacedRecord
<1>. QED BY <1>1, <1>3, <1>4, <1>18 DEF Placed

\* A record of callbacks alone.
LEMMA CallbackPlaces ==
  ASSUME PlaceInv, NEW t \in Threads, NEW c \in Callbacks, Record(t, <<c>>),
         UNCHANGED <<linked, freed, cache, obj>>
  PROVE  CacheHasRoom' /\ Placed'
<1>. USE DEF PlaceInv, RInv, IInv
<1>1. CacheHasRoom'
  BY DEF CacheHasRoom
<1>2. /\ c \notin Objects
      /\ <<c>> \in Seq(Objects \cup Callbacks)
      /\ Len(<<c>>) = 1 /\ <<c>>[1] = c
  BY ConstantsOK
<1>3. PICK li2 : li2 = limbo'
  OBVIOUS
<1>5. Appended(li2, t, <<c>>)
  BY <1>3 DEF Record, Appended
<1>6. PICK m \in Nat : m = Len(limbo[t])
  BY <1>2, <1>5, WaitsAfterRecord
<1>a. /\ \A x : \A i \in Nat : Waits(li2, t, i, x) <=>
            \/ Waits(limbo, t, i, x)
            \/ i > Len(limbo[t]) /\ i - Len(limbo[t]) \in 1 .. Len(<<c>>)
                                 /\ <<c>>[i - Len(limbo[t])] = x
      /\ \A u \in Threads \ {t} : \A x : \A i \in Nat : Waits(li2, u, i, x) <=> Waits(limbo, u, i, x)
  <2>1. PICK s \in Seq(Objects \cup Callbacks) : s = <<c>>
    BY <1>2
  <2>2. Appended(li2, t, s)
    BY <1>5, <2>1
  <2>3. TypeOK
    OBVIOUS
  <2>4. /\ \A x : \A i \in Nat : Waits(li2, t, i, x) <=>
              \/ Waits(limbo, t, i, x)
              \/ i > Len(limbo[t]) /\ i - Len(limbo[t]) \in 1 .. Len(s) /\ s[i - Len(limbo[t])] = x
        /\ \A u \in Threads \ {t} : \A x : \A i \in Nat : Waits(li2, u, i, x) <=> Waits(limbo, u, i, x)
    BY <2>2, <2>3, WaitsAfterRecord
  <2>. QED BY <2>1, <2>4
<1>7. /\ \A x : \A i \in Nat : Waits(li2, t, i, x) <=>
            Waits(limbo, t, i, x) \/ (i > m /\ i - m \in 1 .. Len(<<c>>) /\ <<c>>[i - m] = x)
      /\ \A u \in Threads \ {t} : \A x : \A i \in Nat : Waits(li2, u, i, x) <=> Waits(limbo, u, i, x)
  BY <1>6, <1>a
<1>8. \A i \in 1 .. 1 : i = 1
  OBVIOUS
<1>9. \A x \in Objects : \A i \in Nat : Waits(li2, t, i, x) <=> Waits(limbo, t, i, x)
  BY <1>2, <1>7, <1>8
<1>10. \A u \in Threads : \A x \in Objects : \A i \in Nat : Waits(li2, u, i, x) <=> Waits(limbo, u, i, x)
  BY <1>7, <1>9
<1>11. PlacedIn(linked, freed, obj, cache, limbo)
  BY DEF Placed
<1>12. PlacedIn(linked, freed, obj, cache, li2)
  BY <1>10, <1>11 DEF PlacedIn, Once, Somewhere, NoWait
<1>. QED BY <1>1, <1>3, <1>12 DEF Placed
\* A flush: the whole cache of a handle is recorded, with the caller's object
\* when that fills it.
LEMMA FlushPlaces ==
  ASSUME PlaceInv, NEW t \in Threads, NEW h \in Handles, NEW H, NEW s \in Seq(Objects),
         \/ H = {} /\ s = cache[h] /\ UNCHANGED obj
         \/ \E o \in obj[t] : H = {o} /\ s = Append(cache[h], o) /\ obj' = [obj EXCEPT ![t] = {}],
         Record(t, s), cache' = [cache EXCEPT ![h] = <<>>], UNCHANGED <<linked, freed>>
  PROVE  CacheHasRoom' /\ Placed'
<1>1. /\ TypeOK /\ CacheHasRoom
      /\ PlacedIn(linked, freed, obj, cache, limbo)
      /\ \A x, y \in obj[t] : x = y
  BY DEF PlaceInv, RInv, IInv, Placed, HandsEmpty
<1>2. PICK li2 : li2 = limbo'
  OBVIOUS
<1>3. PICK ob2 : ob2 = obj'
  OBVIOUS
<1>4. PICK ca2 : ca2 = cache'
  OBVIOUS
<1>5. cache \in [Handles -> Seq(Objects)] /\ obj \in [Threads -> SUBSET Objects]
  BY <1>1 DEF TypeOK
<1>6. /\ Len(ca2[h]) = 0
      /\ \A g \in Handles \ {h} : ca2[g] = cache[g]
      /\ \A x : \A g \in Handles : \A i \in Nat : InSlot(ca2, g, i, x) <=> InSlot(cache, g, i, x) /\ g # h
  BY <1>4, <1>5, SlotsOfEmpty
<1>7. CacheHasRoom'
  BY <1>1, <1>4, <1>6, ConstantsOK DEF CacheHasRoom
<1>8. PICK m : m = Len(limbo[t])
  OBVIOUS
<1>9. s \in Seq(Objects \cup Callbacks) /\ Appended(li2, t, s)
  BY <1>2 DEF Record, Appended
<1>10. /\ m \in Nat
       /\ \A x : \A i \in Nat : Waits(li2, t, i, x) <=>
            Waits(limbo, t, i, x) \/ (i > m /\ i - m \in 1 .. Len(s) /\ s[i - m] = x)
       /\ \A u \in Threads \ {t} : \A x : \A i \in Nat : Waits(li2, u, i, x) <=> Waits(limbo, u, i, x)
  <2>1. /\ Len(limbo[t]) \in Nat
        /\ \A x : \A i \in Nat : Waits(li2, t, i, x) <=>
             \/ Waits(limbo, t, i, x)
             \/ i > Len(limbo[t]) /\ i - Len(limbo[t]) \in 1 .. Len(s) /\ s[i - Len(limbo[t])] = x
        /\ \A u \in Threads \ {t} : \A x : \A i \in Nat : Waits(li2, u, i, x) <=> Waits(limbo, u, i, x)
    BY <1>1, <1>9, WaitsAfterRecord
  <2>. QED BY <1>8, <2>1
<1>11. /\ H \subseteq obj[t] /\ \A x, y \in H : x = y
       /\ \A u \in Threads : \A x \in Objects : x \in ob2[u] <=> x \in obj[u] /\ ~ (u = t /\ x \in H)
  BY <1>1, <1>3, <1>5
<1>12. PICK n \in Nat : n = Len(cache[h]) + 1
  BY <1>5, LenProperties
<1>13. \A k \in Nat : \A x : k \in 1 .. Len(s) /\ s[k] = x <=> InSlot(cache, h, k, x) \/ (k = n /\ x \in H)
  <2>1. CASE H = {} /\ s = cache[h]
    BY <2>1 DEF InSlot
  <2>2. ASSUME NEW o \in obj[t], H = {o}, s = Append(cache[h], o)
        PROVE  \A k \in Nat : \A x : k \in 1 .. Len(s) /\ s[k] = x
                                     <=> InSlot(cache, h, k, x) \/ (k = n /\ x \in H)
    <3>1. /\ Len(cache[h]) \in Nat
          /\ Len(s) = Len(cache[h]) + 1
          /\ \A i \in 1 .. Len(cache[h]) : s[i] = cache[h][i]
          /\ s[Len(cache[h]) + 1] = o
      BY <1>5, <2>2, AppendProperties, LenProperties
    <3>2. /\ n \in Nat \ {0} /\ Len(s) = n /\ Len(cache[h]) = n - 1
          /\ \A i \in 1 .. n - 1 : s[i] = cache[h][i]
          /\ s[n] = o
      BY <1>12, <3>1
    <3>3. \A k \in Nat : k \in 1 .. n <=> k \in 1 .. n - 1 \/ k = n
      BY <3>2
    <3>4. n \notin 1 .. n - 1
      BY <3>2
    <3>. QED BY <2>2, <3>2, <3>3, <3>4 DEF InSlot
  <2>. QED BY <2>1, <2>2
<1>14. PICK C : C = {h}
  OBVIOUS
<1>15. \A i \in Nat : i > m => i - m \in Nat
  BY <1>10
<1>16. \A i \in Nat : i > m /\ i - m = n <=> i = m + n
  <2>1. n # 0
    BY <1>5, <1>12, LenProperties
  <2>. QED BY <1>10, <2>1
<1>17. \A x \in Objects : \A i \in Nat :
          Waits(li2, t, i, x) <=>
             \/ Waits(limbo, t, i, x)
             \/ i > m /\ InSlot(cache, h, i - m, x)
             \/ i = m + n /\ x \in H
  <2>1. ASSUME NEW x \in Objects, NEW i \in Nat, i > m
        PROVE  i - m \in 1 .. Len(s) /\ s[i - m] = x <=> InSlot(cache, h, i - m, x) \/ (i = m + n /\ x \in H)
    <3>1. PICK k \in Nat : k = i - m
      BY <1>15, <2>1
    <3>2. k = n <=> i = m + n
      BY <1>16, <2>1, <3>1
    <3>. QED BY <1>13, <3>1, <3>2
  <2>2. \A i \in Nat : i = m + n => i > m
    BY <1>16
  <2>. QED BY <1>10, <2>1, <2>2
<1>18. Recorded(t, m, n, C, H, obj, cache, limbo, ob2, ca2, li2)
  BY <1>6, <1>10, <1>11, <1>14, <1>17 DEF Recorded
<1>19. PlacedIn(linked, freed, ob2, ca2, li2)
  BY <1>1, <1>18, PlacedRecord
<1>. QED BY <1>2, <1>3, <1>4, <1>7, <1>19 DEF Placed

\* A dealloc that leaves room in the cache.
LEMMA CachePlaces ==
  ASSUME PlaceInv, NEW t \in Threads, NEW h \in Handles, NEW o \in obj[t],
         Len(Append(cache[h], o)) # CacheSize,
         cache' = [cache EXCEPT ![h] = Append(cache[h], o)],
         obj' = [obj EXCEPT ![t] = {}], UNCHANGED <<linked, freed, limbo>>
  PROVE  CacheHasRoom' /\ Placed'
<1>1. /\ TypeOK /\ CacheHasRoom
      /\ PlacedIn(linked, freed, obj, cache, limbo)
      /\ \A x, y \in obj[t] : x = y
  BY DEF PlaceInv, RInv, IInv, Placed, HandsEmpty
<1>2. PICK ob2 : ob2 = obj'
  OBVIOUS
<1>3. PICK ca2 : ca2 = cache'
  OBVIOUS
<1>4. cache \in [Handles -> Seq(Objects)] /\ obj \in [Threads -> SUBSET Objects] /\ o \in Objects
  BY <1>1 DEF TypeOK
<1>5. PICK n : n = Len(cache[h]) + 1
  OBVIOUS
<1>6. Len(cache[h]) \in Nat /\ Len(ca2[h]) = n /\ SlotFilled(cache, h, n, o, ca2)
  <2>1. Grown(ca2, cache, h, o)
    BY <1>3 DEF Grown
  <2>. QED BY <1>4, <1>5, <2>1, SlotsOfAppend
<1>7. n \in Nat /\ n < CacheSize
  <2>1. Len(cache[h]) < CacheSize
    BY <1>1 DEF CacheHasRoom
  <2>2. Len(Append(cache[h], o)) = n
    BY <1>4, <1>5, AppendProperties
  <2>. QED BY <1>5, <1>6, <2>1, <2>2, ConstantsOK
<1>8. CacheHasRoom'
  <2>1. \A g \in Handles \ {h} : ca2[g] = cache[g]
    BY <1>3, <1>4
  <2>. QED BY <1>1, <1>3, <1>6, <1>7, <2>1 DEF CacheHasRoom
<1>9. /\ \A x \in Objects : (x \in obj[t] <=> x = o) /\ x \notin ob2[t]
      /\ \A u \in Threads \ {t} : \A x \in Objects : x \in ob2[u] <=> x \in obj[u]
  BY <1>1, <1>2, <1>4, <1>6
<1>10. CachedIn(t, h, n, o, obj, cache, ob2, ca2)
  BY <1>6, <1>7, <1>9 DEF CachedIn
<1>11. PlacedIn(linked, freed, ob2, ca2, limbo)
  BY <1>1, <1>10, PlacedCache
<1>. QED BY <1>2, <1>3, <1>8, <1>11 DEF Placed

\* An object is unlinked.
LEMMA UnlinkPlaces ==
  ASSUME PlaceInv, NEW t \in Threads, NEW o \in linked, TakeOut(t, o), obj[t] = {},
         UNCHANGED <<freed, cache, limbo>>
  PROVE  CacheHasRoom' /\ Placed'
<1>1. /\ TypeOK /\ CacheHasRoom
      /\ PlacedIn(linked, freed, obj, cache, limbo)
  BY DEF PlaceInv, RInv, IInv, Placed
<1>2. PICK ob2 : ob2 = obj'
  OBVIOUS
<1>3. obj \in [Threads -> SUBSET Objects]
  BY <1>1 DEF TypeOK
<1>4. UnlinkedBy(t, o, obj, ob2)
  BY <1>2, <1>3 DEF UnlinkedBy, TakeOut
<1>5. PlacedIn(linked \ {o}, freed, ob2, cache, limbo)
  BY <1>1, <1>4, PlacedUnlink
<1>6. linked' = linked \ {o}
  BY DEF TakeOut
<1>. QED BY <1>1, <1>2, <1>5, <1>6 DEF Placed, CacheHasRoom

\* The head of a limbo list is freed, or is a callback and runs.
LEMMA PopPlaces ==
  ASSUME PlaceInv, NEW t \in Threads, NEW s \in Seq(Callbacks), limbo[t] # <<>>,
         limbo' = [limbo EXCEPT ![t] = Tail(limbo[t]) \o Elements(s)]
            \/ (limbo' = [limbo EXCEPT ![t] = Tail(limbo[t])]),
         freed' = freed \cup ({Head(limbo[t]).item} \cap Objects),
         UNCHANGED <<linked, cache, obj>>
  PROVE  CacheHasRoom' /\ Placed'
<1>1. /\ TypeOK /\ CacheHasRoom
      /\ PlacedIn(linked, freed, obj, cache, limbo)
  BY DEF PlaceInv, RInv, IInv, Placed
<1>2. PICK li2 : li2 = limbo'
  OBVIOUS
<1>3. PICK F2 : F2 = freed'
  OBVIOUS
<1>4. Popped(li2, t, s)
  BY <1>2 DEF Popped
<1>5. /\ \A x : ~ Waits(limbo, t, 0, x) /\ ~ Waits(li2, t, 0, x)
      /\ \A x : Waits(limbo, t, 1, x) <=> Head(limbo[t]).item = x
      /\ \A x \in Objects : \A i \in Nat \ {0} : Waits(li2, t, i, x) <=> Waits(limbo, t, i + 1, x)
      /\ \A u \in Threads \ {t} : \A x : \A i \in Nat : Waits(li2, u, i, x) <=> Waits(limbo, u, i, x)
  BY <1>1, <1>4, WaitsAfterPop
<1>6. \A x \in Objects : x \in F2 <=> x \in freed \/ Waits(limbo, t, 1, x)
  BY <1>3, <1>5
<1>7. HeadLeaves(t, freed, limbo, F2, li2)
  BY <1>5, <1>6 DEF HeadLeaves
<1>8. PlacedIn(linked, F2, obj, cache, li2)
  BY <1>1, <1>7, PlacedPop
<1>. QED BY <1>1, <1>2, <1>3, <1>8 DEF Placed, CacheHasRoom
LEMMA NextPlaced ==
  ASSUME PlaceInv, [Next]_vars
  PROVE  CacheHasRoom' /\ Placed'
<1>. DEFINE Goal == CacheHasRoom' /\ Placed'
<1>0. TypeOK /\ CallOK /\ HandsEmpty
  BY DEF PlaceInv, RInv, IInv
<1>a. ASSUME UNCHANGED <<linked, freed, obj, cache, limbo>> PROVE Goal
  BY <1>a DEF PlaceInv, Placed, CacheHasRoom
<1>b. \A t \in Threads : obj[t] \subseteq Objects
  BY <1>0 DEF TypeOK
<1>. HIDE DEF Goal
<1>1. ASSUME NEW t \in Threads, NEW o \in Objects, HandleDealloc(t, o) PROVE Goal
  <2>. DEFINE h == hdl[t]
              full == Append(cache[h], o)
  <2>1. h \in Handles
    BY <1>0, <1>1, HandleRange DEF HandleDealloc, CallOK, CallOKFor
  <2>2. cache[h] \in Seq(Objects) /\ full \in Seq(Objects)
    BY <1>0, <2>1, AppendProperties DEF TypeOK
  <2>3. o \in obj[t] /\ obj' = [obj EXCEPT ![t] = {}] /\ UNCHANGED <<linked, freed>>
    BY <1>1 DEF HandleDealloc, DeallocReturns, client, ghost
  <2>4. CASE Len(full) = CacheSize
    <3>1. Record(t, full) /\ cache' = [cache EXCEPT ![h] = <<>>]
      BY <1>1, <2>4 DEF HandleDealloc
    <3>2. PICK s \in Seq(Objects) : s = full
      BY <2>2
    <3>3. PICK H : H = {o}
      OBVIOUS
    <3>4. \E x \in obj[t] : H = {x} /\ s = Append(cache[h], x) /\ obj' = [obj EXCEPT ![t] = {}]
      BY <2>3, <3>2, <3>3
    <3>. QED BY <2>1, <2>3, <3>1, <3>2, <3>4, FlushPlaces DEF Goal
  <2>5. CASE Len(full) # CacheSize
    <3>1. cache' = [cache EXCEPT ![h] = full] /\ UNCHANGED limbo
      BY <1>1, <2>5 DEF HandleDealloc
    <3>. QED BY <2>1, <2>3, <2>5, <3>1, CachePlaces DEF Goal
  <2>. QED BY <2>4, <2>5
<1>2. ASSUME NEW t \in Threads, NEW h \in RangeOf(handles[t]), DeleteHandle(t, h) PROVE Goal
  <2>1. h \in Handles
    BY <1>0, HandleRange
  <2>2. /\ Record(t, cache[h]) /\ cache' = [cache EXCEPT ![h] = <<>>]
        /\ UNCHANGED <<obj, linked, freed>>
    BY <1>2 DEF DeleteHandle, client, ghost
  <2>3. PICK s \in Seq(Objects) : s = cache[h]
    BY <1>0, <2>1 DEF TypeOK
  <2>4. PICK H : H = {}
    OBVIOUS
  <2>. QED BY <2>1, <2>2, <2>3, <2>4, FlushPlaces DEF Goal
<1>3. ASSUME NEW t \in Threads, NEW o \in Objects, ThreadDealloc(t, o) \/ CallbackRecord(t, o)
      PROVE  Goal
  <2>1. /\ o \in obj[t] /\ Record(t, <<o>>) /\ obj' = [obj EXCEPT ![t] = {}]
        /\ UNCHANGED <<linked, freed, cache>>
    BY <1>3 DEF ThreadDealloc, CallbackRecord, DeallocReturns, client, ghost
  <2>. QED BY <2>1, RecordPlaces DEF Goal
<1>4. ASSUME NEW t \in Threads, NEW c \in Callbacks, RegisterRcu(t, c) PROVE Goal
  <2>1. Record(t, <<c>>) /\ UNCHANGED <<linked, freed, cache, obj>>
    BY <1>4 DEF RegisterRcu, local, ghost
  <2>. QED BY <2>1, CallbackPlaces DEF Goal
<1>5. ASSUME NEW t \in Threads, NEW h, NEW o \in Objects, Unlink(t, h, o) \/ CallbackUnlink(t, o)
      PROVE  Goal
  <2>1. /\ o \in linked /\ TakeOut(t, o) /\ pc[t] \in {"idle", "callback"}
        /\ UNCHANGED <<freed, cache, limbo>>
    BY <1>5 DEF Unlink, CallbackUnlink, shared, ghost
  <2>2. obj[t] = {}
    BY <1>0, <2>1 DEF HandsEmpty
  <2>. QED BY <2>1, <2>2, UnlinkPlaces DEF Goal
<1>c. ASSUME NEW t \in Threads, NEW s \in Seq(Callbacks), limbo[t] # <<>>,
             Popped(limbo', t, s),
             freed' = freed \cup ({Head(limbo[t]).item} \cap Objects),
             UNCHANGED <<linked, cache, obj>>
      PROVE  Goal
  BY <1>c, PopPlaces DEF Goal, Popped
<1>d. <<>> \in Seq(Callbacks) /\ \A c \in Callbacks : <<c>> \in Seq(Callbacks) /\ c \notin Objects
  BY ConstantsOK
<1>6. ASSUME NEW t \in Threads, NEW o \in Objects, Free(t, o) PROVE Goal
  <2>1. /\ limbo[t] # <<>> /\ Popped(limbo', t, <<>>)
        /\ Head(limbo[t]).item = o /\ freed' = freed \cup {o}
        /\ UNCHANGED <<linked, cache, obj>>
    BY <1>6 DEF Free, PopElement, MayFree, Popped, client
  <2>2. freed' = freed \cup ({Head(limbo[t]).item} \cap Objects)
    BY <2>1
  <2>. QED BY <1>c, <1>d, <2>1, <2>2
<1>7. ASSUME NEW t \in Threads, NEW c \in Callbacks, RunCallback(t, c) PROVE Goal
  <2>1. /\ limbo[t] # <<>> /\ Popped(limbo', t, <<>>)
        /\ Head(limbo[t]).item = c /\ freed' = freed
        /\ UNCHANGED <<linked, cache, obj>>
    BY <1>7 DEF RunCallback, PopElement, MayFree, Popped, client, ghost
  <2>2. freed' = freed \cup ({Head(limbo[t]).item} \cap Objects)
    BY <1>d, <2>1
  <2>. QED BY <1>c, <1>d, <2>1, <2>2
<1>8. ASSUME NEW t \in Threads, NEW c \in Callbacks, FirstCall(t, c) PROVE Goal
  <2>1. /\ limbo[t] # <<>> /\ Popped(limbo', t, <<c>>)
        /\ Head(limbo[t]).item = c /\ freed' = freed
        /\ UNCHANGED <<linked, cache, obj>>
    BY <1>8 DEF FirstCall, MayFree, Popped, ghost
  <2>2. freed' = freed \cup ({Head(limbo[t]).item} \cap Objects)
    BY <1>d, <2>1
  <2>. QED BY <1>c, <1>d, <2>1, <2>2
<1>9. ASSUME NEW t \in Threads, \/ NewHandle(t) \/ Publish(t) \/ UnlinkHandle(t) \/ HardFree(t)
                                \/ DestroyLoop(t)
      PROVE  Goal
  BY <1>a, <1>9 DEF NewHandle, Publish, UnlinkHandle, HardFree, DestroyLoop, shared, client, ghost
<1>10. ASSUME NEW t \in Threads, \/ Scan(t) \/ CallbackReturns(t) \/ HardFreeReturns(t)
                                 \/ DestroyReturns(t)
       PROVE  Goal
  BY <1>a, <1>10 DEF Scan, CallbackReturns, HardFreeReturns, DestroyReturns, shared, client, ghost
<1>11. ASSUME Deinit \/ UNCHANGED vars PROVE Goal
  BY <1>a, <1>11 DEF Deinit, vars, shared, client, local, ghost
<1>12. ASSUME NEW t \in Threads, Call(t) PROVE Goal
  BY <1>2, <1>4, <1>5, <1>9, <1>12 DEF Call
<1>13. ASSUME NEW t \in Threads, Proceed(t) PROVE Goal
  BY <1>1, <1>3, <1>5, <1>6, <1>7, <1>8, <1>9, <1>10, <1>13 DEF Proceed
<1>14. Goal
  BY <1>11, <1>12, <1>13 DEF Next
<1>. QED BY <1>14 DEF Goal

LEMMA InitPlaced == Init => HandsEmpty /\ DestroyedInTurn /\ CacheHasRoom /\ Placed
<1>. SUFFICES ASSUME Init PROVE HandsEmpty /\ DestroyedInTurn /\ CacheHasRoom /\ Placed
  OBVIOUS
<1>1. HandsEmpty /\ DestroyedInTurn
  BY DEF Init, HandsEmpty, DestroyedInTurn
<1>2. \A h \in Handles : cache[h] = <<>>
  BY DEF Init
<1>3. \A t \in Threads : limbo[t] = <<>> /\ obj[t] = {}
  BY DEF Init
<1>4. Len(<<>>) = 0
  BY EmptySeq
<1>5. CacheHasRoom
  BY <1>2, <1>4, ConstantsOK DEF CacheHasRoom
<1>6. \A x : NoSlot(cache, x) /\ NoWait(limbo, x) /\ NoHand(obj, x)
  BY <1>2, <1>3, <1>4 DEF NoSlot, NoWait, NoHand, InSlot, Waits
<1>7. linked = Objects /\ freed = {}
  BY DEF Init
<1>8. Placed
  BY <1>6, <1>7 DEF Placed, PlacedIn, Once, Somewhere, NoSlot, NoWait, NoHand
<1>. QED BY <1>1, <1>5, <1>8

\* The five kinds of place, one by one.
LEMMA PlaceOf ==
  ASSUME TypeOK, CacheHasRoom, NEW o \in Objects
  PROVE  /\ o \in linked <=> <<"linked", 0, 0>> \in Places(o)
         /\ o \in freed <=> <<"freed", 0, 0>> \in Places(o)
         /\ \A t \in Threads : o \in obj[t] <=> <<"caller", t, 0>> \in Places(o)
         /\ \A h \in Handles : \A i \in Nat : InSlot(cache, h, i, o) <=> <<"cache", h, i>> \in Places(o)
         /\ \A t \in Threads : \A i \in Nat : Waits(limbo, t, i, o) <=> <<"limbo", t, i>> \in Places(o)
         /\ \A p \in Places(o) :
              \/ p = <<"linked", 0, 0>> \/ p = <<"freed", 0, 0>>
              \/ \E t \in Threads : p = <<"caller", t, 0>>
              \/ \E h \in Handles : \E i \in Nat : p = <<"cache", h, i>>
              \/ \E t \in Threads : \E i \in Nat : p = <<"limbo", t, i>>
<1>1. \A h \in Handles : Len(cache[h]) \in Nat /\ Len(cache[h]) < CacheSize
  BY LenProperties DEF TypeOK, CacheHasRoom
<1>2. \A t \in Threads : Len(limbo[t]) \in Nat
  BY LenProperties DEF TypeOK
<1>. DEFINE Callers == {<<"caller", t, 0>> : t \in {t \in Threads : o \in obj[t]}}
            Caches == {<<"cache", p[1], p[2]>> : p \in {p \in Handles \X (1 .. CacheSize) :
                          p[2] <= Len(cache[p[1]]) /\ cache[p[1]][p[2]] = o}}
            Limbos == UNION {{<<"limbo", t, i>> : i \in {i \in 1 .. Len(limbo[t]) : limbo[t][i].item = o}}
                               : t \in Threads}
            Linkeds == {<<"linked", 0, 0>> : x \in linked \cap {o}}
            Freeds == {<<"freed", 0, 0>> : x \in freed \cap {o}}
<1>3. Places(o) = Callers \cup Caches \cup Limbos \cup Linkeds \cup Freeds
  BY DEF Places
<1>4. \A p : p \in Callers <=> \E t \in Threads : o \in obj[t] /\ p = <<"caller", t, 0>>
  OBVIOUS
<1>5. \A p : p \in Caches <=> \E h \in Handles : \E i \in Nat : InSlot(cache, h, i, o) /\ p = <<"cache", h, i>>
  <2>1. ASSUME NEW p \in Caches
        PROVE  \E h \in Handles : \E i \in Nat : InSlot(cache, h, i, o) /\ p = <<"cache", h, i>>
    <3>1. PICK q \in Handles \X (1 .. CacheSize) : /\ q[2] <= Len(cache[q[1]]) /\ cache[q[1]][q[2]] = o
                                                   /\ p = <<"cache", q[1], q[2]>>
      BY <2>1
    <3>2. q[1] \in Handles /\ q[2] \in Nat /\ q[2] \in 1 .. Len(cache[q[1]])
      BY <1>1, <3>1
    <3>. QED BY <3>1, <3>2 DEF InSlot
  <2>2. ASSUME NEW h \in Handles, NEW i \in Nat, InSlot(cache, h, i, o)
        PROVE  <<"cache", h, i>> \in Caches
    <3>1. i \in 1 .. CacheSize /\ i <= Len(cache[h]) /\ cache[h][i] = o
      BY <1>1, <2>2, ConstantsOK DEF InSlot
    <3>2. PICK q \in Handles \X (1 .. CacheSize) : q = <<h, i>>
      BY <3>1
    <3>3. q[1] = h /\ q[2] = i
      BY <3>2
    <3>. QED BY <3>1, <3>3
  <2>. QED BY <2>1, <2>2
<1>6. \A p : p \in Limbos <=> \E t \in Threads : \E i \in Nat : Waits(limbo, t, i, o) /\ p = <<"limbo", t, i>>
  BY <1>2 DEF Waits
<1>7. \A p : p \in Linkeds <=> o \in linked /\ p = <<"linked", 0, 0>>
  OBVIOUS
<1>8. \A p : p \in Freeds <=> o \in freed /\ p = <<"freed", 0, 0>>
  OBVIOUS
<1>. HIDE DEF Callers, Caches, Limbos, Linkeds, Freeds
<1>9. /\ "linked" # "freed" /\ "linked" # "caller" /\ "linked" # "cache" /\ "linked" # "limbo"
      /\ "freed" # "caller" /\ "freed" # "cache" /\ "freed" # "limbo"
      /\ "caller" # "cache" /\ "caller" # "limbo" /\ "cache" # "limbo"
  OBVIOUS
<1>. QED BY <1>3, <1>4, <1>5, <1>6, <1>7, <1>8, <1>9

\* Nothing limbo is given is lost or freed twice: an unlinked object is with the
\* caller that unlinked it, in one slot of one handle's cache, in one slot of one
\* thread's limbo list, or freed (dealloc, the flush of a full cache, delete_handle,
\* hard_free and the destroy loops of deinit_lf_library).
THEOREM EveryObjectHasOnePlace == Spec => []ExactlyOnePlace
<1>1. Init => PlaceInv
  BY InitIInv, InitPlaced DEF Init, DeinitInv, PlaceInv, RInv
<1>2. PlaceInv /\ [Next]_vars => PlaceInv'
  <2>. SUFFICES ASSUME PlaceInv, [Next]_vars PROVE PlaceInv'
    OBVIOUS
  <2>1. IInv'
    BY NextIInv DEF PlaceInv, RInv
  <2>2. TypeOK /\ CallOK /\ DeinitInv /\ DestroyedInTurn /\ HandsEmpty
    BY DEF PlaceInv, RInv, IInv
  <2>3. DeinitInv' /\ DestroyedInTurn' /\ HandsEmpty'
    BY <2>2, NextDeinitInv, NextDestroyedInTurn, NextHandsEmpty
  <2>4. CacheHasRoom' /\ Placed'
    BY NextPlaced
  <2>. QED BY <2>1, <2>3, <2>4 DEF PlaceInv, RInv
<1>3. PlaceInv => ExactlyOnePlace
  <2>. SUFFICES ASSUME PlaceInv, NEW o \in Objects PROVE \E p \in Places(o) : Places(o) = {p}
    BY DEF ExactlyOnePlace
  <2>1. TypeOK /\ CacheHasRoom
    BY DEF PlaceInv, RInv, IInv
  <2>2. Once(o, linked, freed, obj, cache, limbo) /\ Somewhere(o, linked, freed, obj, cache, limbo)
    BY DEF PlaceInv, Placed, PlacedIn
  <2>3. PICK p \in Places(o) : TRUE
    BY <2>1, <2>2, PlaceOf DEF Somewhere
  <2>4. \A q, r \in Places(o) : q = r
    BY <2>1, <2>2, PlaceOf DEF Once, NoHand, NoSlot, NoWait
  <2>. QED BY <2>3, <2>4
<1>. QED BY <1>1, <1>2, <1>3, PTL DEF Spec
===============================================================================
