-------------------------- MODULE LimboGroupProofs --------------------------
(***************************************************************************)
(* The chain of groups implements RecordQueue, for any number of pointers, *)
(* callbacks, epochs, slots of a group and any count of hard_free.         *)
(***************************************************************************)
EXTENDS LimboGroup, DataLemmas

Epochs == 0 .. MaxEpoch
Records == [item : Items, epoch : Epochs]
States == [epoch : Epochs, queue : Seq(Records)]
IsMarker(x) == x.ptr = NoPtr

LEMMA SlotIs ==
  ASSUME NEW x \in Slot
  PROVE  /\ IsMarker(x) => x.u \in Epochs
         /\ ~ IsMarker(x) => x.ptr \in Items /\ x.u = Tag
BY GroupConstants DEF Slot, IsMarker, Epochs

LEMMA MeetType ==
  ASSUME NEW r \in States, NEW x \in Slot
  PROVE  Meet(r, x) \in States
<1>1. r.queue \in Seq(Records) /\ r.epoch \in Epochs /\ r = [epoch |-> r.epoch, queue |-> r.queue]
  BY DEF States
<1>2. CASE IsMarker(x)
  BY <1>1, <1>2, SlotIs DEF Meet, States, IsMarker
<1>3. CASE ~ IsMarker(x)
  <2>1. PICK c : c = [item |-> x.ptr, epoch |-> r.epoch]
    OBVIOUS
  <2>2. c \in Records
    BY <1>1, <1>3, <2>1, SlotIs DEF Records
  <2>3. PICK q : q = Append(r.queue, c)
    OBVIOUS
  <2>4. q \in Seq(Records)
    BY <1>1, <2>2, <2>3, AppendProperties
  <2>5. Meet(r, x) = [epoch |-> r.epoch, queue |-> q]
    BY <1>3, <2>1, <2>3 DEF Meet, IsMarker
  <2>. QED BY <1>1, <2>4, <2>5 DEF States
<1>. QED BY <1>2, <1>3
-------------------------------------------------------------------------------
(* Reading is a fold over the slots.                                       *)

Start(e) == [epoch |-> e, queue |-> <<>>]
Folds(f, n, s, e) == f = [j \in 0 .. n |-> IF j = 0 THEN Start(e) ELSE Meet(f[j - 1], s[j])]

LEMMA FoldsExists ==
  ASSUME NEW s, NEW e, NEW n \in Nat
  PROVE  \E f : Folds(f, n, s, e)
<1>. DEFINE T == {m \in Nat : \E f : Folds(f, m, s, e)}
            Body(h, j) == IF j = 0 THEN Start(e) ELSE Meet(h[j - 1], s[j])
<1>1. 0 \in T
  <2>1. PICK f : f = [j \in 0 .. 0 |-> Start(e)]
    OBVIOUS
  <2>2. f = [j \in 0 .. 0 |-> Body(f, j)]
    BY <2>1
  <2>. QED BY <2>2 DEF Folds
<1>2. ASSUME NEW m \in Nat, m \in T PROVE m + 1 \in T
  <2>1. PICK f : f = [j \in 0 .. m |-> Body(f, j)]
    BY <1>2 DEF Folds
  <2>2. PICK g : g = [j \in 0 .. m + 1 |-> Body(f, j)]
    OBVIOUS
  <2>3. \A j \in 0 .. m + 1 : j # 0 => j - 1 \in 0 .. m
    OBVIOUS
  <2>4. \A j \in 0 .. m : j \in 0 .. m + 1
    OBVIOUS
  <2>5. \A j \in 0 .. m : g[j] = f[j]
    <3>. HIDE DEF Body
    <3>. QED BY <2>1, <2>2, <2>4
  <2>6. \A j \in 0 .. m + 1 : Body(f, j) = Body(g, j)
    BY <2>3, <2>5
  <2>7. g = [j \in 0 .. m + 1 |-> Body(g, j)]
    <3>. HIDE DEF Body
    <3>. QED BY <2>2, <2>6
  <2>8. Folds(g, m + 1, s, e)
    BY <2>7 DEF Folds
  <2>. QED BY <2>8
<1>. HIDE DEF T
<1>3. Nat \subseteq T
  BY <1>1, <1>2, NatAll
<1>. QED BY <1>3 DEF T

LEMMA FoldsStart ==
  ASSUME NEW s, NEW e, NEW n \in Nat, NEW f, Folds(f, n, s, e)
  PROVE  f[0] = Start(e)
BY DEF Folds

LEMMA FoldsStep ==
  ASSUME NEW s, NEW e, NEW n \in Nat, NEW f, Folds(f, n, s, e), NEW j \in 1 .. n
  PROVE  f[j] = Meet(f[j - 1], s[j])
<1>1. j \in 0 .. n /\ j # 0
  OBVIOUS
<1>. QED BY <1>1 DEF Folds

LEMMA ReadingIs ==
  ASSUME NEW s, NEW e, Len(s) \in Nat
  PROVE  \E f : Folds(f, Len(s), s, e) /\ Reading(s, e) = f[Len(s)]
<1>1. PICK f : f = CHOOSE after : after = [j \in 0 .. Len(s) |-> IF j = 0 THEN [epoch |-> e, queue |-> <<>>]
                                                                  ELSE Meet(after[j - 1], s[j])]
  OBVIOUS
<1>2. \E g : g = [j \in 0 .. Len(s) |-> IF j = 0 THEN [epoch |-> e, queue |-> <<>>] ELSE Meet(g[j - 1], s[j])]
  <2>1. PICK g : Folds(g, Len(s), s, e)
    BY FoldsExists
  <2>. QED BY <2>1 DEF Folds, Start
<1>3. f = [j \in 0 .. Len(s) |-> IF j = 0 THEN [epoch |-> e, queue |-> <<>>] ELSE Meet(f[j - 1], s[j])]
  BY Zenon, <1>1, <1>2
<1>4. Reading(s, e) = f[Len(s)]
  BY <1>1 DEF Reading
<1>. QED BY <1>3, <1>4 DEF Folds, Start

\* What it computes of the first k slots depends on them only.
LEMMA FoldsSame ==
  ASSUME NEW e, NEW s, NEW t, NEW f, NEW g, NEW m \in Nat, NEW n \in Nat, NEW k \in Nat, k <= m, k <= n,
         Folds(f, m, s, e), Folds(g, n, t, e), Agree(s, t, k)
  PROVE  f[k] = g[k]
<1>. DEFINE T == {i \in Nat : i <= k => f[i] = g[i]}
<1>1. 0 \in T
  <2>1. f[0] = Start(e) /\ g[0] = Start(e)
    BY FoldsStart
  <2>. QED BY <2>1
<1>2. ASSUME NEW i \in Nat, i \in T PROVE i + 1 \in T
  <2>. SUFFICES ASSUME i + 1 <= k PROVE f[i + 1] = g[i + 1]
    OBVIOUS
  <2>1. PICK j \in Nat : j = i + 1
    OBVIOUS
  <2>2. j \in 1 .. m /\ j \in 1 .. n /\ j - 1 = i /\ j \in 1 .. k /\ i <= k
    BY <2>1
  <2>3. f[j] = Meet(f[j - 1], s[j]) /\ g[j] = Meet(g[j - 1], t[j])
    BY <2>2, FoldsStep
  <2>4. s[j] = t[j]
    BY <2>2 DEF Agree
  <2>. QED BY <1>2, <2>1, <2>2, <2>3, <2>4
<1>. HIDE DEF T
<1>3. Nat \subseteq T
  BY <1>1, <1>2, NatAll
<1>. QED BY <1>3 DEF T

LEMMA ReadingEmpty ==
  ASSUME NEW e
  PROVE  Reading(<<>>, e) = Start(e)
<1>1. PICK s : s = <<>>
  OBVIOUS
<1>2. Len(s) = 0
  BY <1>1, EmptySeq
<1>3. PICK n \in Nat : n = 0
  OBVIOUS
<1>4. PICK f : Folds(f, n, s, e) /\ Reading(s, e) = f[n]
  BY <1>2, <1>3, ReadingIs
<1>6. f[n] = Start(e)
  BY <1>3, <1>4, FoldsStart
<1>. QED BY <1>1, <1>4, <1>6

LEMMA ReadingAppend ==
  ASSUME NEW e, NEW s \in Seq(Slot), NEW x \in Slot
  PROVE  Reading(Append(s, x), e) = Meet(Reading(s, e), x)
<1>1. PICK t : t = Append(s, x)
  OBVIOUS
<1>2. PICK n \in Nat : n = Len(s)
  BY LenProperties
<1>3. PICK m \in Nat : m = n + 1
  OBVIOUS
<1>4. Len(t) = m /\ t[m] = x /\ Agree(s, t, n)
  BY <1>1, <1>2, <1>3, AppendProperties DEF Agree
<1>5. m - 1 = n /\ m \in 1 .. m /\ n <= m /\ n <= n
  BY <1>3
<1>6. PICK f : Folds(f, n, s, e) /\ Reading(s, e) = f[n]
  BY <1>2, ReadingIs
<1>7. PICK g : Folds(g, m, t, e) /\ Reading(t, e) = g[m]
  BY <1>4, ReadingIs
<1>8. g[m] = Meet(g[m - 1], t[m])
  BY <1>5, <1>7, FoldsStep
<1>9. f[n] = g[n]
  BY <1>4, <1>5, <1>6, <1>7, FoldsSame
<1>. QED BY <1>1, <1>4, <1>5, <1>6, <1>7, <1>8, <1>9
LEMMA ReadingType ==
  ASSUME NEW e \in Epochs, NEW s \in Seq(Slot)
  PROVE  Reading(s, e) \in States
<1>. DEFINE T == {q \in Seq(Slot) : Reading(q, e) \in States}
<1>1. <<>> \in T
  <2>1. Start(e) \in States
    BY EmptySeq DEF Start, States
  <2>. QED BY <2>1, ReadingEmpty, EmptySeq
<1>2. ASSUME NEW q \in Seq(Slot), NEW x \in Slot, q \in T PROVE Append(q, x) \in T
  BY <1>2, ReadingAppend, MeetType, AppendProperties
<1>. HIDE DEF T
<1>3. Seq(Slot) \subseteq T
  BY <1>1, <1>2, SeqAll
<1>. QED BY <1>3 DEF T

\* A marker in front.
LEMMA ReadingMarker ==
  ASSUME NEW e \in Epochs, NEW x \in Slot, IsMarker(x), NEW s \in Seq(Slot)
  PROVE  Reading(<<x>> \o s, e) = Reading(s, x.u)
<1>. DEFINE T == {q \in Seq(Slot) : Reading(<<x>> \o q, e) = Reading(q, x.u)}
<1>1. <<>> \in T
  <2>1. <<x>> \in Seq(Slot) /\ <<x>> = Append(<<>>, x) /\ <<>> \in Seq(Slot)
    OBVIOUS
  <2>2. <<x>> \o <<>> = <<x>>
    BY <2>1, ConcatEmptySeq
  <2>3. Reading(<<x>>, e) = Meet(Start(e), x)
    BY <2>1, ReadingAppend, ReadingEmpty
  <2>4. Meet(Start(e), x) = Start(x.u)
    BY DEF Meet, Start, IsMarker
  <2>. QED BY <2>1, <2>2, <2>3, <2>4, ReadingEmpty
<1>2. ASSUME NEW q \in Seq(Slot), NEW y \in Slot, q \in T PROVE Append(q, y) \in T
  <2>1. <<x>> \o Append(q, y) = Append(<<x>> \o q, y) /\ <<x>> \o q \in Seq(Slot)
    BY ConsAppend
  <2>2. Reading(Append(<<x>> \o q, y), e) = Meet(Reading(<<x>> \o q, e), y)
    BY <2>1, ReadingAppend
  <2>3. Reading(Append(q, y), x.u) = Meet(Reading(q, x.u), y)
    BY ReadingAppend
  <2>. QED BY <1>2, <2>1, <2>2, <2>3, AppendProperties
<1>. HIDE DEF T
<1>3. Seq(Slot) \subseteq T
  BY <1>1, <1>2, SeqAll
<1>. QED BY <1>3 DEF T

\* A pointer in front.
Before(c, r) == [epoch |-> r.epoch, queue |-> <<c>> \o r.queue]

LEMMA MeetBefore ==
  ASSUME NEW r \in States, NEW c \in Records, NEW y \in Slot
  PROVE  Meet(Before(c, r), y) = Before(c, Meet(r, y))
<1>1. r.queue \in Seq(Records) /\ r.epoch \in Epochs /\ r = [epoch |-> r.epoch, queue |-> r.queue]
  BY DEF States
<1>2. PICK q : q = <<c>> \o r.queue
  OBVIOUS
<1>3. Before(c, r) = [epoch |-> r.epoch, queue |-> q]
  BY <1>1, <1>2 DEF Before
<1>4. CASE IsMarker(y)
  <2>1. Meet(Before(c, r), y) = [epoch |-> y.u, queue |-> q]
    BY <1>3, <1>4 DEF Meet, IsMarker
  <2>2. Meet(r, y) = [epoch |-> y.u, queue |-> r.queue]
    BY <1>1, <1>4 DEF Meet, IsMarker
  <2>3. Before(c, [epoch |-> y.u, queue |-> r.queue]) = [epoch |-> y.u, queue |-> q]
    BY <1>2 DEF Before
  <2>. QED BY <2>1, <2>2, <2>3
<1>5. CASE ~ IsMarker(y)
  <2>1. PICK d : d = [item |-> y.ptr, epoch |-> r.epoch]
    OBVIOUS
  <2>2. d \in Records
    BY <1>1, <1>5, <2>1, SlotIs DEF Records
  <2>3. Meet(Before(c, r), y) = [epoch |-> r.epoch, queue |-> Append(q, d)]
    BY <1>3, <1>5, <2>1 DEF Meet, IsMarker
  <2>4. Meet(r, y) = [epoch |-> r.epoch, queue |-> Append(r.queue, d)]
    BY <1>1, <1>5, <2>1 DEF Meet, IsMarker
  <2>5. Append(q, d) = <<c>> \o Append(r.queue, d)
    BY <1>1, <1>2, <2>2, ConsAppend
  <2>6. Before(c, [epoch |-> r.epoch, queue |-> Append(r.queue, d)]) = [epoch |-> r.epoch, queue |-> Append(q, d)]
    BY <2>5 DEF Before
  <2>. QED BY <2>3, <2>4, <2>6
<1>. QED BY <1>4, <1>5

LEMMA ReadingPointer ==
  ASSUME NEW e \in Epochs, NEW x \in Slot, ~ IsMarker(x), NEW s \in Seq(Slot), NEW c, c = [item |-> x.ptr, epoch |-> e]
  PROVE  Reading(<<x>> \o s, e) = Before(c, Reading(s, e)) /\ c \in Records
<1>. DEFINE T == {q \in Seq(Slot) : Reading(<<x>> \o q, e) = Before(c, Reading(q, e))}
<1>0. c \in Records
  BY SlotIs DEF Records
<1>1. <<>> \in T
  <2>1. <<x>> \in Seq(Slot) /\ <<x>> = Append(<<>>, x) /\ <<>> \in Seq(Slot)
    OBVIOUS
  <2>2. <<x>> \o <<>> = <<x>>
    BY <2>1, ConcatEmptySeq
  <2>3. Reading(<<x>>, e) = Meet(Start(e), x)
    BY <2>1, ReadingAppend, ReadingEmpty
  <2>4. Meet(Start(e), x) = [epoch |-> e, queue |-> Append(<<>>, c)]
    BY DEF Meet, Start, IsMarker
  <2>5. Before(c, Start(e)) = [epoch |-> e, queue |-> <<c>> \o <<>>]
    BY DEF Before, Start
  <2>6. Append(<<>>, c) = <<c>> \o <<>>
    OBVIOUS
  <2>. QED BY <2>1, <2>2, <2>3, <2>4, <2>5, <2>6, ReadingEmpty
<1>2. ASSUME NEW q \in Seq(Slot), NEW y \in Slot, q \in T PROVE Append(q, y) \in T
  <2>1. <<x>> \o Append(q, y) = Append(<<x>> \o q, y) /\ <<x>> \o q \in Seq(Slot)
    BY ConsAppend
  <2>2. Reading(Append(<<x>> \o q, y), e) = Meet(Reading(<<x>> \o q, e), y)
    BY <2>1, ReadingAppend
  <2>3. Reading(Append(q, y), e) = Meet(Reading(q, e), y)
    BY ReadingAppend
  <2>4. Meet(Before(c, Reading(q, e)), y) = Before(c, Meet(Reading(q, e), y))
    BY <1>0, ReadingType, MeetBefore
  <2>. QED BY <1>2, <2>1, <2>2, <2>3, <2>4, AppendProperties
<1>. HIDE DEF T
<1>3. Seq(Slot) \subseteq T
  BY <1>1, <1>2, SeqAll
<1>. QED BY <1>0, <1>3 DEF T
-------------------------------------------------------------------------------
(* The slots of a group that are still to be read.                         *)

Fits(x) == x \in Group /\ x.head <= Len(x.slots) /\ Len(x.slots) <= Capacity

LEMMA LiveIs ==
  ASSUME NEW x, Fits(x)
  PROVE  /\ Live(x) \in Seq(Slot) /\ Len(Live(x)) = Len(x.slots) - x.head /\ Len(Live(x)) \in Nat
         /\ \A k \in 1 .. Len(Live(x)) : Live(x)[k] = x.slots[x.head + k]
         /\ IsEmpty(x) <=> Live(x) = <<>>
         /\ Live(x) # <<>> => First(x) = Live(x)[1] /\ First(x) \in Slot
<1>1. x.slots \in Seq(Slot) /\ x.head \in Nat /\ x.head <= Len(x.slots) /\ Len(x.slots) \in Nat
  BY LenProperties DEF Fits, Group
<1>2. PICK m \in Nat : m = x.head + 1
  BY <1>1
<1>3. PICK n \in Nat : n = Len(x.slots)
  BY <1>1
<1>4. \A i \in m .. n : x.slots[i] \in Slot
  <2>1. \A i \in m .. n : i \in 1 .. Len(x.slots)
    BY <1>1, <1>2, <1>3
  <2>. QED BY <1>1, <2>1, ElementOfSeq
<1>5. PICK s : s = Live(x)
  OBVIOUS
<1>6. s = SubSeq(x.slots, m, n)
  BY <1>2, <1>3, <1>5 DEF Live
<1>7. /\ s \in Seq(Slot) /\ Len(s) = (IF m <= n THEN n - m + 1 ELSE 0)
      /\ \A i \in 1 .. n - m + 1 : s[i] = x.slots[m + i - 1]
  <2>1. 1 <= m /\ n <= Len(x.slots) /\ m \in Int /\ n \in Int
    BY <1>1, <1>2, <1>3
  <2>2. \A i \in m .. n : i \in 1 .. Len(x.slots)
    BY <1>1, <1>2, <1>3
  <2>. QED BY <1>1, <1>4, <1>6, <2>1, <2>2, SubSeqProperties
<1>8. Len(s) = n - x.head /\ Len(s) \in Nat /\ n - m + 1 = n - x.head
  <2>1. PICK h \in Nat : h = x.head
    BY <1>1
  <2>2. m = h + 1 /\ h <= n
    BY <1>1, <1>2, <1>3, <2>1
  <2>3. n - m + 1 = n - h /\ (IF m <= n THEN n - m + 1 ELSE 0) = n - h /\ n - h \in Nat
    BY <2>2
  <2>. QED BY <1>7, <2>1, <2>3
<1>9. \A k \in 1 .. Len(s) : m + k - 1 = x.head + k
  BY <1>1, <1>2, <1>8
<1>10. \A k \in 1 .. Len(s) : s[k] = x.slots[x.head + k]
  BY <1>7, <1>8, <1>9
<1>11. IsEmpty(x) <=> s = <<>>
  <2>1. IsEmpty(x) <=> Len(s) = 0
    BY <1>1, <1>3, <1>8 DEF IsEmpty
  <2>. QED BY <1>7, <2>1, EmptySeq
<1>12. s # <<>> => First(x) = s[1] /\ First(x) \in Slot
  <2>. SUFFICES ASSUME s # <<>> PROVE First(x) = s[1] /\ First(x) \in Slot
    OBVIOUS
  <2>1. Len(s) # 0
    BY <1>7, EmptySeq
  <2>2. 1 \in 1 .. Len(s)
    BY <1>8, <2>1
  <2>. QED BY <1>7, <1>10, <2>2, ElementOfSeq DEF First
<1>. QED BY <1>3, <1>5, <1>7, <1>8, <1>10, <1>11, <1>12

\* What is live is known by its slots.
LEMMA LiveSame ==
  ASSUME NEW x, Fits(x), NEW s \in Seq(Slot), Len(s) = Len(x.slots) - x.head,
         \A k \in 1 .. Len(s) : s[k] = x.slots[x.head + k]
  PROVE  Live(x) = s
BY LiveIs, SeqEqual

\* The element read, and what is left.
LEMMA LiveAdvance ==
  ASSUME NEW x, Fits(x), Live(x) # <<>>, NEW y, y = [head |-> x.head + 1, slots |-> x.slots, epoch |-> x.epoch]
  PROVE  Fits(y) /\ Live(y) = Tail(Live(x))
<1>1. x.slots \in Seq(Slot) /\ x.head \in Nat /\ x.head <= Len(x.slots) /\ Len(x.slots) \in Nat /\ Len(x.slots) <= Capacity
      /\ x.epoch \in 0 .. MaxEpoch /\ Capacity \in Nat
  BY LenProperties, GroupConstants DEF Fits, Group
<1>2. PICK s \in Seq(Slot) : s = Live(x)
  BY LiveIs
<1>3. PICK t \in Seq(Slot) : t = Tail(s)
  BY <1>2, HeadTail
<1>4. Len(s) = Len(t) + 1 /\ Len(t) \in Nat /\ \A i \in 1 .. Len(t) : t[i] = s[i + 1]
  BY <1>2, <1>3, HeadTail
<1>5. Len(s) = Len(x.slots) - x.head /\ \A k \in 1 .. Len(s) : s[k] = x.slots[x.head + k]
  BY <1>2, LiveIs
<1>6. y.head = x.head + 1 /\ y.slots = x.slots
  OBVIOUS
<1>7. Len(t) = Len(y.slots) - y.head /\ y.head \in 0 .. Capacity /\ y.head <= Len(y.slots)
  BY <1>1, <1>4, <1>5, <1>6
<1>8. Fits(y)
  BY <1>1, <1>6, <1>7 DEF Fits, Group
<1>9. \A i \in 1 .. Len(t) : t[i] = y.slots[y.head + i]
  <2>1. \A i \in 1 .. Len(t) : i + 1 \in 1 .. Len(s) /\ x.head + (i + 1) = y.head + i
    <3>1. PICK h \in Nat : h = x.head
      BY <1>1
    <3>2. PICK n \in Nat : n = Len(t)
      BY <1>4
    <3>3. y.head = h + 1 /\ Len(s) = n + 1
      BY <1>4, <1>6, <3>1, <3>2
    <3>4. \A i \in 1 .. n : i + 1 \in 1 .. n + 1 /\ h + (i + 1) = (h + 1) + i
      OBVIOUS
    <3>. QED BY <3>1, <3>2, <3>3, <3>4
  <2>. QED BY <1>4, <1>5, <1>6, <2>1
<1>. QED BY <1>2, <1>3, <1>7, <1>8, <1>9, LiveSame

LEMMA LiveMark ==
  ASSUME NEW x, Fits(x), Live(x) # <<>>, NEW m \in Slot,
         NEW y, y = [head |-> x.head, slots |-> [x.slots EXCEPT ![x.head + 1] = m], epoch |-> x.epoch]
  PROVE  Fits(y) /\ Live(y) = <<m>> \o Tail(Live(x))
<1>1. x.slots \in Seq(Slot) /\ x.head \in Nat /\ x.head <= Len(x.slots) /\ Len(x.slots) \in Nat /\ Len(x.slots) <= Capacity
      /\ x.epoch \in 0 .. MaxEpoch /\ x.head \in 0 .. Capacity
  BY LenProperties, GroupConstants DEF Fits, Group
<1>2. PICK s \in Seq(Slot) : s = Live(x)
  BY LiveIs
<1>3. PICK t \in Seq(Slot) : t = Tail(s)
  BY <1>2, HeadTail
<1>4. Len(s) = Len(t) + 1 /\ Len(t) \in Nat /\ \A i \in 1 .. Len(t) : t[i] = s[i + 1]
  BY <1>2, <1>3, HeadTail
<1>5. Len(s) = Len(x.slots) - x.head /\ \A k \in 1 .. Len(s) : s[k] = x.slots[x.head + k]
  BY <1>2, LiveIs
<1>6. PICK h \in Nat : h = x.head + 1
  BY <1>1
<1>7. h \in 1 .. Len(x.slots)
  BY <1>1, <1>4, <1>5, <1>6
<1>8. PICK w : w = [x.slots EXCEPT ![h] = m]
  OBVIOUS
<1>9. w \in Seq(Slot) /\ Len(w) = Len(x.slots) /\ \A i \in 1 .. Len(x.slots) : w[i] = IF i = h THEN m ELSE x.slots[i]
  BY <1>1, <1>7, <1>8, ExceptSeq
<1>10. y.head = x.head /\ y.slots = w /\ y.epoch = x.epoch
  BY <1>6, <1>8
<1>11. Fits(y)
  BY <1>1, <1>6, <1>8, <1>9, <1>10 DEF Fits, Group
<1>12. PICK c \in Seq(Slot) : c = <<m>> \o t
  BY ConsProperties
<1>13. Len(c) = Len(t) + 1 /\ c[1] = m /\ \A i \in 1 .. Len(t) : c[i + 1] = t[i]
  BY <1>12, ConsProperties
<1>14. Len(c) = Len(y.slots) - y.head
  BY <1>4, <1>5, <1>9, <1>10, <1>13
<1>15. ASSUME NEW k \in 1 .. Len(c) PROVE c[k] = y.slots[y.head + k]
  <2>1. CASE k = 1
    BY <1>6, <1>7, <1>9, <1>10, <1>13, <2>1
  <2>2. CASE k # 1
    <3>1. PICK i \in 1 .. Len(t) : k = i + 1
      <4>1. k - 1 \in 1 .. Len(t) /\ k = (k - 1) + 1
        BY <1>4, <1>13, <2>2
      <4>. QED BY <4>1
    <3>2. k \in 1 .. Len(s)
      BY <1>4, <1>13
    <3>3. c[k] = x.slots[x.head + k]
      BY <1>4, <1>5, <1>13, <3>1, <3>2
    <3>4. x.head + k \in 1 .. Len(x.slots) /\ x.head + k # h
      BY <1>1, <1>5, <1>6, <2>2, <3>2
    <3>. QED BY <1>9, <1>10, <3>3, <3>4
  <2>. QED BY <2>1, <2>2
<1>16. Live(y) = c
  <2>1. \A k \in 1 .. Len(c) : c[k] = y.slots[y.head + k]
    BY <1>15
  <2>2. \A z : Fits(z) /\ Len(c) = Len(z.slots) - z.head /\ (\A k \in 1 .. Len(c) : c[k] = z.slots[z.head + k]) => Live(z) = c
    BY <1>12, LiveSame
  <2>. QED BY Zenon, <1>11, <1>14, <2>1, <2>2
<1>. QED BY <1>2, <1>3, <1>11, <1>12, <1>16

LEMMA LiveAppend ==
  ASSUME NEW x, Fits(x), Len(x.slots) < Capacity, NEW m \in Slot, NEW e \in 0 .. MaxEpoch,
         NEW y, y = [head |-> x.head, slots |-> Append(x.slots, m), epoch |-> e]
  PROVE  Fits(y) /\ Live(y) = Append(Live(x), m) /\ Len(y.slots) = Len(x.slots) + 1
<1>1. x.slots \in Seq(Slot) /\ x.head \in Nat /\ x.head <= Len(x.slots) /\ Len(x.slots) \in Nat
      /\ x.head \in 0 .. Capacity /\ Capacity \in Nat
  BY LenProperties, GroupConstants DEF Fits, Group
<1>2. PICK s \in Seq(Slot) : s = Live(x)
  BY LiveIs
<1>3. PICK w \in Seq(Slot) : w = Append(x.slots, m)
  BY <1>1, AppendProperties
<1>4. PICK n \in Nat : n = Len(x.slots)
  BY <1>1
<1>5. Len(w) = n + 1 /\ w[n + 1] = m /\ \A i \in 1 .. n : w[i] = x.slots[i]
  BY <1>1, <1>3, <1>4, AppendProperties
<1>6. y.head = x.head /\ y.slots = w /\ y.epoch = e
  BY <1>3
<1>7. Fits(y)
  <2>1. Len(y.slots) <= Capacity /\ y.head <= Len(y.slots)
    BY <1>1, <1>4, <1>5, <1>6
  <2>. QED BY <1>1, <1>3, <1>6, <2>1 DEF Fits, Group
<1>8. PICK c \in Seq(Slot) : c = Append(s, m)
  BY AppendProperties
<1>9. PICK k \in Nat : k = Len(s)
  BY LenProperties
<1>10. Len(c) = k + 1 /\ c[k + 1] = m /\ \A i \in 1 .. k : c[i] = s[i]
  BY <1>8, <1>9, AppendProperties
<1>11. k = n - x.head /\ \A i \in 1 .. k : s[i] = x.slots[x.head + i]
  BY <1>2, <1>4, <1>9, LiveIs
<1>12. ASSUME NEW i \in 1 .. Len(c) PROVE c[i] = y.slots[y.head + i]
  <2>1. CASE i = k + 1
    <3>1. x.head + i = n + 1
      BY <1>1, <1>4, <1>11, <2>1
    <3>. QED BY <1>5, <1>6, <1>10, <2>1, <3>1
  <2>2. CASE i # k + 1
    <3>1. PICK h \in Nat : h = x.head
      BY <1>1
    <3>2. i \in 1 .. k + 1 /\ k = n - h
      BY <1>10, <1>11, <3>1
    <3>3. i \in 1 .. k /\ h + i \in 1 .. n
      BY <2>2, <3>2
    <3>4. i \in 1 .. k /\ x.head + i \in 1 .. n
      BY <3>1, <3>3
    <3>. QED BY <1>5, <1>6, <1>10, <1>11, <3>4
  <2>. QED BY <2>1, <2>2
<1>13. Len(c) = Len(y.slots) - y.head
  BY <1>1, <1>4, <1>5, <1>6, <1>10, <1>11
<1>. QED BY <1>2, <1>4, <1>5, <1>6, <1>7, <1>8, <1>12, <1>13, LiveSame
-------------------------------------------------------------------------------
(* What push_back adds.                                                    *)

Ptr(x) == [ptr |-> x, u |-> Tag]
Grown(s, mark, n, x) == IF mark THEN Append(Append(s, Marker(n)), Ptr(x)) ELSE Append(s, Ptr(x))
Used(s) == \A j \in 1 .. Len(s) : IsMarker(s[j]) => j < Len(s) /\ ~ IsMarker(s[j + 1])
Pushed(g, x, n) ==
    [head |-> g.head, slots |-> Grown(g.slots, IsEmpty(g) \/ g.epoch # n, n, x), epoch |-> n]

LEMMA SlotsAre ==
  ASSUME NEW x \in Items, NEW n \in Epochs
  PROVE  /\ Ptr(x) \in Slot /\ ~ IsMarker(Ptr(x)) /\ Ptr(x).ptr = x
         /\ Marker(n) \in Slot /\ IsMarker(Marker(n)) /\ Marker(n).u = n
BY GroupConstants DEF Ptr, Slot, IsMarker, Marker, Epochs

LEMMA GrownType ==
  ASSUME NEW x \in Items, NEW n \in Epochs, NEW s \in Seq(Slot), NEW mark \in BOOLEAN
  PROVE  Grown(s, mark, n, x) \in Seq(Slot)
<1>1. PICK a \in Seq(Slot) : a = Append(s, Marker(n))
  BY SlotsAre, AppendProperties
<1>2. Append(a, Ptr(x)) \in Seq(Slot) /\ Append(s, Ptr(x)) \in Seq(Slot)
  BY SlotsAre, AppendProperties
<1>. QED BY <1>1, <1>2 DEF Grown

LEMMA GrownReading ==
  ASSUME NEW x \in Items, NEW n \in Epochs, NEW s \in Seq(Slot), NEW mark \in BOOLEAN, NEW e \in Epochs,
         mark \/ Reading(s, e).epoch = n
  PROVE  Reading(Grown(s, mark, n, x), e)
            = [epoch |-> n, queue |-> Append(Reading(s, e).queue, [item |-> x, epoch |-> n])]
<1>1. PICK r \in States : r = Reading(s, e)
  BY ReadingType
<1>2. PICK a \in Seq(Slot) : a = Append(s, Marker(n))
  BY SlotsAre, AppendProperties
<1>3. PICK d : d = Meet(r, Marker(n))
  OBVIOUS
<1>4. Reading(a, e) = d /\ d = [epoch |-> n, queue |-> r.queue]
  <2>1. d = [epoch |-> n, queue |-> r.queue]
    BY <1>3, SlotsAre DEF Meet, IsMarker
  <2>2. PICK m \in Slot : m = Marker(n)
    BY SlotsAre
  <2>3. Reading(Append(s, m), e) = Meet(Reading(s, e), m)
    BY ReadingAppend
  <2>. QED BY <1>1, <1>2, <1>3, <2>1, <2>2, <2>3
<1>5. \A q : q.epoch = n => Meet(q, Ptr(x)) = [epoch |-> n, queue |-> Append(q.queue, [item |-> x, epoch |-> n])]
  BY SlotsAre DEF Meet, IsMarker
<1>6. CASE mark
  <2>1. Reading(Append(a, Ptr(x)), e) = Meet(d, Ptr(x))
    BY <1>4, SlotsAre, ReadingAppend
  <2>2. d.epoch = n /\ d.queue = r.queue
    BY <1>4
  <2>3. Meet(d, Ptr(x)) = [epoch |-> n, queue |-> Append(r.queue, [item |-> x, epoch |-> n])]
    BY <1>5, <2>2
  <2>. QED BY <1>1, <1>2, <1>6, <2>1, <2>3 DEF Grown
<1>7. CASE ~ mark
  <2>1. Reading(Append(s, Ptr(x)), e) = Meet(r, Ptr(x))
    BY <1>1, SlotsAre, ReadingAppend
  <2>2. r.epoch = n
    BY <1>1, <1>7
  <2>3. Meet(r, Ptr(x)) = [epoch |-> n, queue |-> Append(r.queue, [item |-> x, epoch |-> n])]
    BY <1>5, <2>2
  <2>. QED BY <1>1, <1>7, <2>1, <2>3 DEF Grown
<1>. QED BY <1>6, <1>7

LEMMA GrownFront ==
  ASSUME NEW x \in Items, NEW n \in Epochs, NEW s \in Seq(Slot), NEW mark \in BOOLEAN
  PROVE  /\ Grown(s, mark, n, x) # <<>>
         /\ s # <<>> => /\ Tail(Grown(s, mark, n, x)) = Grown(Tail(s), mark, n, x)
                        /\ Grown(s, mark, n, x)[1] = s[1]
         /\ s = <<>> /\ mark => /\ IsMarker(Grown(s, mark, n, x)[1])
                                /\ Tail(Grown(s, mark, n, x)) = <<Ptr(x)>>
<1>1. PICK a \in Seq(Slot) : a = Append(s, Marker(n))
  BY SlotsAre, AppendProperties
<1>2. PICK b \in Seq(Slot) : b = Append(a, Ptr(x))
  BY SlotsAre, AppendProperties
<1>3. PICK c \in Seq(Slot) : c = Append(s, Ptr(x))
  BY SlotsAre, AppendProperties
<1>4. a # <<>> /\ b # <<>> /\ c # <<>>
  BY <1>1, <1>2, <1>3, SlotsAre, AppendProperties
<1>5. \A q \in Seq(Slot) : q # <<>> => Head(q) = q[1]
  BY HeadTail
<1>6. Grown(s, mark, n, x) = IF mark THEN b ELSE c
  BY <1>1, <1>2, <1>3 DEF Grown
<1>7. ASSUME s # <<>>
      PROVE  /\ (IF mark THEN Tail(b) ELSE Tail(c)) = Grown(Tail(s), mark, n, x)
             /\ b[1] = s[1] /\ c[1] = s[1]
  <2>1. Tail(a) = Append(Tail(s), Marker(n)) /\ Tail(b) = Append(Tail(a), Ptr(x)) /\ Tail(c) = Append(Tail(s), Ptr(x))
    BY <1>1, <1>2, <1>3, <1>4, <1>7, HeadTailAppend
  <2>2. Head(a) = Head(s) /\ Head(b) = Head(a) /\ Head(c) = Head(s)
    BY <1>1, <1>2, <1>3, <1>4, <1>7, HeadTailAppend
  <2>3. (IF mark THEN Tail(b) ELSE Tail(c)) = Grown(Tail(s), mark, n, x)
    BY <2>1 DEF Grown
  <2>. QED BY <1>4, <1>5, <1>7, <2>2, <2>3
<1>8. ASSUME s = <<>>
      PROVE  IsMarker(b[1]) /\ Tail(b) = <<Ptr(x)>>
  <2>1. Tail(a) = <<>> /\ Head(a) = Marker(n)
    BY <1>1, <1>8, HeadTailAppend
  <2>2. Tail(b) = Append(<<>>, Ptr(x)) /\ Head(b) = Head(a)
    BY <1>2, <1>4, <2>1, HeadTailAppend
  <2>3. Append(<<>>, Ptr(x)) = <<Ptr(x)>>
    OBVIOUS
  <2>. QED BY <1>4, <1>5, <2>1, <2>2, <2>3, SlotsAre
<1>. QED BY <1>4, <1>6, <1>7, <1>8

LEMMA GrownNew ==
  ASSUME NEW x \in Items, NEW n \in Epochs
  PROVE  IsMarker(Grown(<<>>, TRUE, n, x)[1]) /\ Tail(Grown(<<>>, TRUE, n, x)) = <<Ptr(x)>>
<1>1. PICK s \in Seq(Slot), mark \in BOOLEAN : s = <<>> /\ mark = TRUE
  BY EmptySeq
<1>2. s = <<>> /\ mark
  BY <1>1
<1>3. IsMarker(Grown(s, mark, n, x)[1]) /\ Tail(Grown(s, mark, n, x)) = <<Ptr(x)>>
  BY <1>2, GrownFront
<1>. QED BY <1>1, <1>3

LEMMA UsedAppend ==
  ASSUME NEW x \in Items, NEW s \in Seq(Slot), NEW a \in Seq(Slot), Len(a) >= Len(s), Len(a) <= Len(s) + 1, Used(s),
         \A j \in 1 .. Len(s) : a[j] = s[j]
  PROVE  Used(Append(a, Ptr(x)))
<1>1. PICK n \in Nat : n = Len(a)
  BY LenProperties
<1>2. PICK m \in Nat : m = Len(s)
  BY LenProperties
<1>3. PICK b : b = Append(a, Ptr(x))
  OBVIOUS
<1>4. Len(b) = n + 1 /\ b[n + 1] = Ptr(x) /\ \A j \in 1 .. n : b[j] = a[j]
  BY <1>1, <1>3, SlotsAre, AppendProperties
<1>5. n = m \/ n = m + 1
  BY <1>1, <1>2
<1>7. ~ IsMarker(b[n + 1])
  BY <1>4, GroupConstants DEF Ptr, IsMarker
<1>6. ASSUME NEW j \in 1 .. n + 1, IsMarker(b[j]) PROVE j < n + 1 /\ ~ IsMarker(b[j + 1])
  <2>1. j # n + 1
    BY <1>6, <1>7
  <2>2. j \in 1 .. n
    BY <2>1
  <2>3. CASE j = n
    BY <1>1, <1>7, <2>3
  <2>4. CASE j # n
    <3>1. j \in 1 .. m /\ j + 1 \in 1 .. n
      BY <1>5, <2>2, <2>4
    <3>2. b[j] = s[j]
      BY <1>2, <1>4, <2>2, <3>1
    <3>3. j < m /\ ~ IsMarker(s[j + 1])
      BY <1>2, <1>6, <3>1, <3>2 DEF Used
    <3>4. j + 1 \in 1 .. m
      BY <3>1, <3>3
    <3>. QED BY <1>2, <1>4, <2>1, <2>2, <3>1, <3>3, <3>4
  <2>. QED BY <2>3, <2>4
<1>. QED BY <1>3, <1>4, <1>6 DEF Used

LEMMA UsedGrown ==
  ASSUME NEW x \in Items, NEW n \in Epochs, NEW s \in Seq(Slot), NEW mark \in BOOLEAN, Used(s)
  PROVE  Used(Grown(s, mark, n, x))
<1>1. PICK a \in Seq(Slot) : a = Append(s, Marker(n))
  BY SlotsAre, AppendProperties
<1>2. PICK m \in Nat : m = Len(s)
  BY LenProperties
<1>3. Len(a) = m + 1 /\ \A j \in 1 .. Len(s) : a[j] = s[j]
  BY <1>1, <1>2, SlotsAre, AppendProperties
<1>4. Used(Append(a, Ptr(x)))
  BY <1>2, <1>3, UsedAppend
<1>5. Used(Append(s, Ptr(x)))
  BY <1>2, UsedAppend
<1>. QED BY <1>1, <1>4, <1>5 DEF Grown

LEMMA UsedTail ==
  ASSUME NEW s \in Seq(Slot), s # <<>>, Used(s)
  PROVE  Used(Tail(s)) /\ (IsMarker(s[1]) => Tail(s) # <<>> /\ ~ IsMarker(Tail(s)[1]))
<1>1. PICK t \in Seq(Slot) : t = Tail(s)
  BY HeadTail
<1>2. PICK n \in Nat : n = Len(t)
  BY LenProperties
<1>3. Len(s) = n + 1 /\ \A i \in 1 .. n : t[i] = s[i + 1]
  BY <1>1, <1>2, HeadTail
<1>4. ASSUME NEW j \in 1 .. n, IsMarker(t[j]) PROVE j < n /\ ~ IsMarker(t[j + 1])
  <2>1. PICK k \in Nat : k = j + 1
    OBVIOUS
  <2>2. k \in 1 .. n + 1 /\ IsMarker(s[k])
    BY <1>3, <1>4, <2>1
  <2>3. k < n + 1 /\ ~ IsMarker(s[k + 1])
    BY <1>3, <2>2 DEF Used
  <2>4. j < n /\ k \in 1 .. n
    BY <2>1, <2>2, <2>3
  <2>. QED BY <1>3, <2>1, <2>3, <2>4
<1>5. ASSUME IsMarker(s[1]) PROVE t # <<>> /\ ~ IsMarker(t[1])
  <2>1. 1 \in 1 .. n + 1
    BY <1>2
  <2>2. 1 < n + 1 /\ ~ IsMarker(s[1 + 1])
    BY <1>3, <1>5, <2>1 DEF Used
  <2>3. 1 \in 1 .. n /\ n # 0
    BY <2>2
  <2>. QED BY <1>2, <1>3, <2>2, <2>3, EmptySeq
<1>. QED BY <1>1, <1>2, <1>4, <1>5 DEF Used

\* A marker is needed where there is none to tell the epoch.
Grow(s, ep, n, x) == Grown(s, s = <<>> \/ ep # n, n, x)

LEMMA PushIs ==
  ASSUME NEW x \in Items, NEW n \in Epochs, NEW g, Fits(g), ~ Full(g), NEW y, y = Pushed(g, x, n)
  PROVE  Fits(y) /\ y.epoch = n /\ Live(y) = Grow(Live(g), g.epoch, n, x)
<1>1. PICK mark \in BOOLEAN : mark = (Live(g) = <<>> \/ g.epoch # n)
  OBVIOUS
<1>2. y = [head |-> g.head, slots |-> Grown(g.slots, mark, n, x), epoch |-> n]
  BY <1>1, LiveIs DEF Pushed
<1>3. Len(g.slots) + 2 <= Capacity /\ Len(g.slots) \in Nat /\ Capacity \in Nat /\ g.head \in Nat
  BY GroupConstants, LenProperties DEF Full, Fits, Group
<1>0. n \in 0 .. MaxEpoch
  BY DEF Epochs
<1>12. PICK m \in Slot, p \in Slot : m = Marker(n) /\ p = Ptr(x)
  BY SlotsAre
<1>4. PICK a : a = [head |-> g.head, slots |-> Append(g.slots, m), epoch |-> n]
  OBVIOUS
<1>5. Fits(a) /\ Live(a) = Append(Live(g), m) /\ Len(a.slots) = Len(g.slots) + 1
  <2>1. Len(g.slots) < Capacity
    BY <1>3
  <2>2. \A w : w = [head |-> g.head, slots |-> Append(g.slots, m), epoch |-> n]
                => Fits(w) /\ Live(w) = Append(Live(g), m) /\ Len(w.slots) = Len(g.slots) + 1
    BY <1>0, <2>1, LiveAppend
  <2>. QED BY Zenon, <1>4, <2>2
<1>6. PICK b : b = [head |-> a.head, slots |-> Append(a.slots, p), epoch |-> n]
  OBVIOUS
<1>7. Fits(b) /\ Live(b) = Append(Live(a), p)
  <2>1. Len(a.slots) < Capacity
    BY <1>3, <1>5
  <2>. QED BY <1>0, <1>5, <1>6, <2>1, LiveAppend
<1>8. PICK c : c = [head |-> g.head, slots |-> Append(g.slots, p), epoch |-> n]
  OBVIOUS
<1>9. Fits(c) /\ Live(c) = Append(Live(g), p)
  <2>1. Len(g.slots) < Capacity
    BY <1>3
  <2>. QED BY <1>0, <1>8, <2>1, LiveAppend
<1>10. CASE mark
  <2>1. y = b
    BY <1>2, <1>4, <1>6, <1>10, <1>12 DEF Grown
  <2>2. y.epoch = n
    BY <1>2
  <2>3. Live(y) = Grown(Live(g), mark, n, x)
    BY <1>5, <1>7, <1>10, <1>12, <2>1 DEF Grown
  <2>. QED BY <1>1, <1>7, <2>1, <2>2, <2>3 DEF Grow
<1>11. CASE ~ mark
  <2>1. y = c
    BY <1>2, <1>8, <1>11, <1>12 DEF Grown
  <2>2. y.epoch = n
    BY <1>2
  <2>3. Live(y) = Grown(Live(g), mark, n, x)
    BY <1>9, <1>11, <1>12, <2>1 DEF Grown
  <2>. QED BY <1>1, <1>9, <2>1, <2>2, <2>3 DEF Grow
<1>. QED BY <1>10, <1>11

LEMMA PushBackIs ==
  ASSUME NEW x \in Items, now \in Epochs, NEW g, Fits(g)
  PROVE  PushBack(g, x) = Pushed(g, x, now)
<1>1. g \in [head : 0 .. Capacity, slots : Seq(Slot), epoch : 0 .. MaxEpoch]
  BY DEF Fits, Group
<1>2. PICK s \in Seq(Slot) : s = g.slots
  BY <1>1
<1>3. s \o <<>> = s /\ s \o <<Ptr(x)>> = Append(s, Ptr(x))
  BY SlotsAre, ConcatEmptySeq, AppendIsConcat
<1>4. PICK a \in Seq(Slot) : a = Append(s, Marker(now))
  BY SlotsAre, AppendProperties
<1>5. a = s \o <<Marker(now)>> /\ a \o <<Ptr(x)>> = Append(a, Ptr(x))
  BY <1>4, SlotsAre, AppendIsConcat
<1>6. CASE IsEmpty(g) \/ g.epoch # now
  <2>1. PushBack(g, x) = [g EXCEPT !.slots = @ \o <<Marker(now)>> \o <<[ptr |-> x, u |-> Tag]>>, !.epoch = now]
    BY <1>6 DEF PushBack
  <2>2. s \o <<Marker(now)>> \o <<[ptr |-> x, u |-> Tag]>> = Append(a, Ptr(x))
    BY <1>5 DEF Ptr
  <2>3. PushBack(g, x) = [head |-> g.head, slots |-> Append(a, Ptr(x)), epoch |-> now]
    BY <1>1, <1>2, <2>1, <2>2
  <2>. QED BY <1>2, <1>4, <1>6, <2>3 DEF Pushed, Grown
<1>7. CASE ~ (IsEmpty(g) \/ g.epoch # now)
  <2>1. PushBack(g, x) = [g EXCEPT !.slots = @ \o <<>> \o <<[ptr |-> x, u |-> Tag]>>, !.epoch = now]
    BY <1>7 DEF PushBack
  <2>2. s \o <<>> \o <<[ptr |-> x, u |-> Tag]>> = Append(s, Ptr(x))
    BY <1>3 DEF Ptr
  <2>3. PushBack(g, x) = [head |-> g.head, slots |-> Append(s, Ptr(x)), epoch |-> now]
    BY <1>1, <1>2, <2>1, <2>2
  <2>. QED BY <1>2, <1>7, <2>3 DEF Pushed, Grown
<1>. QED BY <1>6, <1>7
-------------------------------------------------------------------------------
(* The records of the groups after group_head_.                            *)

Parts(ch, h, t) == [i \in 1 .. t - h |-> Reading(Live(ch[h + i]), 0).queue]
Rest(ch, h, t) == FlattenSeq(Parts(ch, h, t))
AllFit(ch, h, t) == \A i \in h + 1 .. t : Fits(ch[i])
SameGroups(ch2, ch, h, t) == \A i \in h + 1 .. t : ch2[i] = ch[i]
SameLive(ch, h, t, ch2, h2, t2, n) ==
    t = h + n /\ t2 = h2 + n /\ \A i \in 1 .. n : Live(ch[h + i]) = Live(ch2[h2 + i])

LEMMA ReadingQueue ==
  ASSUME NEW e \in Epochs, NEW s \in Seq(Slot)
  PROVE  Reading(s, e).queue \in Seq(Records) /\ Reading(s, e).epoch \in Epochs
BY ReadingType DEF States

LEMMA ZeroIsEpoch == 0 \in Epochs
BY GroupConstants DEF Epochs

PartsAre(ch, h, t, n) ==
    /\ Parts(ch, h, t) \in Seq(Seq(Records)) /\ Len(Parts(ch, h, t)) = n
    /\ \A i \in 1 .. n : Parts(ch, h, t)[i] = Reading(Live(ch[h + i]), 0).queue

LEMMA PartsType ==
  ASSUME NEW ch, NEW h \in Nat, NEW t \in Nat, NEW n \in Nat, t = h + n, AllFit(ch, h, t)
  PROVE  PartsAre(ch, h, t, n)
<1>1. t - h = n
  OBVIOUS
<1>2. PICK f : f = Parts(ch, h, t)
  OBVIOUS
<1>3. f = [i \in 1 .. n |-> Reading(Live(ch[h + i]), 0).queue]
  BY <1>1, <1>2 DEF Parts
<1>4. \A i \in 1 .. n : f[i] \in Seq(Records)
  <2>. SUFFICES ASSUME NEW i \in 1 .. n PROVE f[i] \in Seq(Records)
    OBVIOUS
  <2>1. PICK j : j = h + i
    OBVIOUS
  <2>2. j \in h + 1 .. t
    BY <2>1
  <2>3. Fits(ch[j])
    BY <2>2 DEF AllFit
  <2>4. Reading(Live(ch[j]), 0).queue \in Seq(Records)
    BY <2>3, LiveIs, ReadingQueue, ZeroIsEpoch
  <2>. QED BY <1>3, <2>1, <2>4
<1>5. f \in [1 .. n -> Seq(Records)]
  BY <1>3, <1>4
<1>6. f \in Seq(Seq(Records)) /\ Len(f) = n
  BY <1>5
<1>. QED BY <1>2, <1>3, <1>6 DEF PartsAre

LEMMA RestType ==
  ASSUME NEW ch, NEW h \in Nat, NEW t \in Nat, h <= t, AllFit(ch, h, t)
  PROVE  Rest(ch, h, t) \in Seq(Records)
<1>1. PICK n \in Nat : t = h + n
  <2>1. t - h \in Nat /\ t = h + (t - h)
    OBVIOUS
  <2>. QED BY <2>1
<1>2. PartsAre(ch, h, t, n)
  BY <1>1, PartsType
<1>. QED BY <1>2, FlattenType DEF Rest, PartsAre

LEMMA RestEmpty ==
  ASSUME NEW ch, NEW h \in Nat
  PROVE  Rest(ch, h, h) = <<>>
<1>1. PICK n \in Nat : n = 0
  OBVIOUS
<1>2. h = h + n /\ AllFit(ch, h, h)
  BY <1>1 DEF AllFit
<1>5. PartsAre(ch, h, h, n)
  BY <1>1, <1>2, PartsType
<1>3. Len(Parts(ch, h, h)) = 0 /\ Parts(ch, h, h) \in Seq(Seq(Records))
  BY <1>1, <1>5 DEF PartsAre
<1>4. Parts(ch, h, h) = <<>>
  BY <1>3, EmptySeq
<1>. QED BY <1>4, FlattenEmpty DEF Rest

LEMMA PartsSame ==
  ASSUME NEW ch, NEW h \in Nat, NEW t \in Nat, NEW ch2, NEW h2 \in Nat, NEW t2 \in Nat, NEW n \in Nat,
         SameLive(ch, h, t, ch2, h2, t2, n)
  PROVE  Parts(ch, h, t) = Parts(ch2, h2, t2)
<1>1. t - h = n /\ t2 - h2 = n
  BY DEF SameLive
<1>. QED BY <1>1 DEF Parts, SameLive

LEMMA RestSame ==
  ASSUME NEW ch, NEW h \in Nat, NEW t \in Nat, NEW ch2, NEW h2 \in Nat, NEW t2 \in Nat, NEW n \in Nat,
         SameLive(ch, h, t, ch2, h2, t2, n)
  PROVE  Rest(ch, h, t) = Rest(ch2, h2, t2)
BY PartsSame DEF Rest

LEMMA PartsLast ==
  ASSUME NEW ch, NEW h \in Nat, NEW t \in Nat, h <= t, NEW u \in Nat, u = t + 1, AllFit(ch, h, u)
  PROVE  Parts(ch, h, u) = Append(Parts(ch, h, t), Reading(Live(ch[u]), 0).queue) /\ AllFit(ch, h, t)
<1>1. PICK n \in Nat : t = h + n
  <2>1. t - h \in Nat /\ t = h + (t - h)
    OBVIOUS
  <2>. QED BY <2>1
<1>2. PICK m \in Nat : m = n + 1
  OBVIOUS
<1>3. u = h + m /\ AllFit(ch, h, t)
  BY <1>1, <1>2 DEF AllFit
<1>4. PartsAre(ch, h, u, m)
  BY <1>2, <1>3, PartsType
<1>5. PartsAre(ch, h, t, n)
  BY <1>1, <1>3, PartsType
<1>6. Agree(Parts(ch, h, u), Parts(ch, h, t), n)
  <2>1. \A i \in 1 .. n : i \in 1 .. m
    BY <1>2
  <2>. QED BY <1>4, <1>5, <2>1 DEF Agree, PartsAre
<1>7. Parts(ch, h, u) = Append(Parts(ch, h, t), Parts(ch, h, u)[n + 1])
  BY <1>2, <1>4, <1>5, <1>6, AppendIs DEF PartsAre
<1>8. Parts(ch, h, u)[m] = Reading(Live(ch[h + m]), 0).queue
  <2>1. m \in 1 .. m
    BY <1>2
  <2>. QED BY <1>4, <2>1 DEF PartsAre
<1>. QED BY <1>2, <1>3, <1>7, <1>8

OneMore(q2, q, r) == q2 = Append(q, r)
Joined(q, a, b) == q = a \o b

\* push_back to a later group that holds some.
LastGrows(ch2, ch, h, v, t, c) ==
    /\ t = v + 1 /\ h <= v /\ SameGroups(ch2, ch, h, v)
    /\ Reading(Live(ch2[t]), 0).queue = Append(Reading(Live(ch[t]), 0).queue, c)

LEMMA RestPush ==
  ASSUME NEW ch, NEW h \in Nat, NEW t \in Nat, NEW v \in Nat, NEW ch2,
         AllFit(ch, h, t), AllFit(ch2, h, t), NEW c \in Records, LastGrows(ch2, ch, h, v, t, c)
  PROVE  OneMore(Rest(ch2, h, t), Rest(ch, h, t), c)
<1>1. /\ t = v + 1 /\ h <= v /\ SameGroups(ch2, ch, h, v)
      /\ Reading(Live(ch2[t]), 0).queue = Append(Reading(Live(ch[t]), 0).queue, c)
  BY DEF LastGrows
<1>2. PICK n \in Nat : v = h + n
  <2>1. v - h \in Nat /\ v = h + (v - h)
    BY <1>1
  <2>. QED BY <2>1
<1>3. Parts(ch, h, v) = Parts(ch2, h, v)
  <2>1. \A i \in 1 .. n : h + i \in h + 1 .. v
    BY <1>2
  <2>2. SameLive(ch, h, v, ch2, h, v, n)
    BY <1>1, <1>2, <2>1 DEF SameLive, SameGroups
  <2>. QED BY <1>2, <2>2, PartsSame
<1>4. PICK r \in Seq(Seq(Records)) : r = Parts(ch, h, v)
  <2>1. AllFit(ch, h, v)
    BY <1>1, PartsLast
  <2>2. PartsAre(ch, h, v, n)
    BY <1>2, <2>1, PartsType
  <2>. QED BY <2>2 DEF PartsAre
<1>5. PICK q \in Seq(Records) : q = Reading(Live(ch[t]), 0).queue
  <2>1. Fits(ch[t])
    BY <1>1 DEF AllFit
  <2>. QED BY <2>1, LiveIs, ReadingQueue, ZeroIsEpoch
<1>6. Parts(ch, h, t) = Append(r, q)
  BY <1>1, <1>4, <1>5, PartsLast
<1>7. Parts(ch2, h, t) = Append(r, Append(q, c))
  BY <1>1, <1>3, <1>4, <1>5, PartsLast
<1>8. FlattenSeq(Append(r, Append(q, c))) = Append(FlattenSeq(Append(r, q)), c)
  BY FlattenLast
<1>. QED BY <1>6, <1>7, <1>8 DEF Rest, OneMore

\* push_back to the group taken next.
NextGrows(ch2, ch, h, t, u, c) ==
    /\ h <= t /\ u = t + 1 /\ SameGroups(ch2, ch, h, t)
    /\ Reading(Live(ch2[u]), 0).queue = <<c>>

LEMMA RestGrow ==
  ASSUME NEW ch, NEW h \in Nat, NEW t \in Nat, NEW u \in Nat, NEW ch2, AllFit(ch, h, t), AllFit(ch2, h, u),
         NEW c \in Records, NextGrows(ch2, ch, h, t, u, c)
  PROVE  OneMore(Rest(ch2, h, u), Rest(ch, h, t), c)
<1>0. h <= t /\ u = t + 1 /\ SameGroups(ch2, ch, h, t) /\ Reading(Live(ch2[u]), 0).queue = <<c>>
  BY DEF NextGrows
<1>1. PICK n \in Nat : t = h + n
  <2>1. t - h \in Nat /\ t = h + (t - h)
    BY <1>0
  <2>. QED BY <2>1
<1>2. Parts(ch, h, t) = Parts(ch2, h, t)
  <2>1. \A i \in 1 .. n : h + i \in h + 1 .. t
    BY <1>1
  <2>2. SameLive(ch, h, t, ch2, h, t, n)
    BY <1>0, <1>1, <2>1 DEF SameLive, SameGroups
  <2>. QED BY <1>1, <2>2, PartsSame
<1>3. PICK r \in Seq(Seq(Records)) : r = Parts(ch, h, t)
  <2>1. PartsAre(ch, h, t, n)
    BY <1>1, PartsType
  <2>. QED BY <2>1 DEF PartsAre
<1>4. Parts(ch2, h, u) = Append(r, <<c>>)
  BY <1>0, <1>2, <1>3, PartsLast
<1>5. PICK s \in Seq(Records) : s = <<c>>
  <2>1. <<c>> \in Seq(Records)
    OBVIOUS
  <2>. QED BY <2>1
<1>6. FlattenSeq(Append(r, s)) = FlattenSeq(r) \o s
  BY FlattenAppend
<1>7. PICK f \in Seq(Records) : f = FlattenSeq(r)
  BY FlattenType
<1>8. f \o s = Append(f, c)
  BY <1>5, AppendIsConcat
<1>. QED BY <1>3, <1>4, <1>5, <1>6, <1>7, <1>8 DEF Rest, OneMore

\* The next group becomes the head.
LEMMA RestNext ==
  ASSUME NEW ch, NEW h \in Nat, NEW t \in Nat, h < t, NEW k \in Nat, k = h + 1, AllFit(ch, h, t)
  PROVE  Joined(Rest(ch, h, t), Reading(Live(ch[k]), 0).queue, Rest(ch, k, t))
<1>1. PICK n \in Nat : t = k + n
  <2>1. t - k \in Nat /\ t = k + (t - k)
    OBVIOUS
  <2>. QED BY <2>1
<1>2. PICK m \in Nat : m = n + 1
  OBVIOUS
<1>3. t = h + m /\ AllFit(ch, k, t)
  BY <1>1, <1>2 DEF AllFit
<1>4. PartsAre(ch, h, t, m)
  BY <1>2, <1>3, PartsType
<1>5. PartsAre(ch, k, t, n)
  BY <1>1, <1>3, PartsType
<1>6. \A i \in 1 .. n : i + 1 \in 1 .. m /\ h + (i + 1) = k + i
  BY <1>2
<1>7. \A i \in 1 .. n : Parts(ch, h, t)[i + 1] = Parts(ch, k, t)[i]
  <2>. SUFFICES ASSUME NEW i \in 1 .. n PROVE Parts(ch, h, t)[i + 1] = Parts(ch, k, t)[i]
    OBVIOUS
  <2>1. PICK j \in 1 .. m : j = i + 1 /\ h + j = k + i
    BY <1>6
  <2>2. Parts(ch, h, t)[j] = Reading(Live(ch[h + j]), 0).queue
    BY <1>4 DEF PartsAre
  <2>3. Parts(ch, k, t)[i] = Reading(Live(ch[k + i]), 0).queue
    BY <1>5 DEF PartsAre
  <2>. QED BY <2>1, <2>2, <2>3
<1>8. 1 \in 1 .. m /\ h + 1 = k
  BY <1>2
<1>9. Parts(ch, h, t)[1] = Reading(Live(ch[k]), 0).queue
  BY <1>4, <1>8 DEF PartsAre
<1>10. Parts(ch, h, t) = <<Parts(ch, h, t)[1]>> \o Parts(ch, k, t)
  BY <1>2, <1>4, <1>5, <1>7, ConsIs DEF PartsAre
<1>11. Reading(Live(ch[k]), 0).queue \in Seq(Records)
  BY <1>4, <1>8, <1>9, ElementOfSeq DEF PartsAre
<1>12. PICK q \in Seq(Records), f \in Seq(Seq(Records)) : q = Parts(ch, h, t)[1] /\ f = Parts(ch, k, t)
  BY <1>5, <1>9, <1>11 DEF PartsAre
<1>13. FlattenSeq(<<q>> \o f) = q \o FlattenSeq(f)
  BY FlattenCons
<1>. QED BY <1>9, <1>10, <1>12, <1>13 DEF Rest, Joined
-------------------------------------------------------------------------------
(* The invariant.  Behind the head group every group up to group_tail_     *)
(* starts with a marker, and every marker but the first slot of the head   *)
(* group is followed by a pointer; epoch_ is what a reader would read last.*)

Spare(x) == x.head = 0 /\ x.slots = <<>>
Later(x) == Live(x) # <<>> /\ IsMarker(Live(x)[1]) /\ Used(Live(x)) /\ Reading(Live(x), 0).epoch = x.epoch

PlaceOK(x, i, t, g) == /\ Fits(x)
                       /\ i <= g \/ t < i => Spare(x)
                       /\ g + 1 < i /\ i <= t => Later(x)
ChainOK(ch, t, g) ==
    /\ ch \in Seq(Group)
    /\ t \in 1 .. Len(ch)
    /\ g \in 0 .. t - 1
    /\ \A i \in 1 .. Len(ch) : PlaceOK(ch[i], i, t, g)

PointerNext(s) == Tail(s) # <<>> /\ ~ IsMarker(Tail(s)[1])

\* s is what is live of the head group, ep its epoch_.
KnownOK(s, ep, e) == s # <<>> => Used(Tail(s)) /\ Reading(s, e).epoch = ep
WorkOK(s, p, b, c, e) ==
    /\ p = "idle" => b = 0 /\ c = 0 /\ e = 0 /\ (s # <<>> => IsMarker(s[1]))
    /\ p = "clean" => c > 0 /\ e <= b /\ (s # <<>> /\ IsMarker(s[1]) => s[1].u <= b \/ PointerNext(s))
    /\ p = "callback" => c > 0 /\ e <= b /\ s # <<>> /\ s[1].ptr \in Callbacks
    /\ p = "splice" => s # <<>> /\ IsMarker(s[1]) /\ (c = 0 \/ (s[1].u > b /\ PointerNext(s)))
HeadOK(x, p, b, c, e) == KnownOK(Live(x), x.epoch, e) /\ WorkOK(Live(x), p, b, c, e)

ToRead(s, p) == IF p = "callback" THEN Tail(s) ELSE s
QueueOf(ch, t, g, p, e) == Reading(ToRead(Live(ch[g + 1]), p), e).queue \o Rest(ch, g + 1, t)

LEMMA QueueIs == Queue = QueueOf(chain, tg, gone, pc, epoch)
BY DEF Queue, QueueOf, ToRead, Rest, Parts, Head_, gh

Record(x, n) == [item |-> x, epoch |-> n]

LEMMA ChainFits ==
  ASSUME NEW ch, NEW t, NEW g, ChainOK(ch, t, g)
  PROVE  /\ t \in Nat /\ g \in Nat /\ g + 1 \in Nat /\ g + 1 <= t /\ Len(ch) \in Nat /\ t <= Len(ch) /\ ch \in Seq(Group)
         /\ \A i \in 1 .. Len(ch) : PlaceOK(ch[i], i, t, g)
         /\ AllFit(ch, g, t) /\ AllFit(ch, g + 1, t) /\ Fits(ch[g + 1])
<1>1. ch \in Seq(Group) /\ t \in 1 .. Len(ch) /\ g \in 0 .. t - 1 /\ \A i \in 1 .. Len(ch) : PlaceOK(ch[i], i, t, g)
  BY DEF ChainOK
<1>2. Len(ch) \in Nat
  BY <1>1, LenProperties
<1>3. t \in Nat /\ g \in Nat /\ g + 1 \in Nat /\ g + 1 <= t /\ t <= Len(ch)
  BY <1>1, <1>2
<1>4. \A i \in g + 1 .. t : i \in 1 .. Len(ch)
  BY <1>2, <1>3
<1>5. \A i \in g + 1 .. t : Fits(ch[i])
  BY <1>1, <1>4 DEF PlaceOK
<1>6. g + 1 \in g + 1 .. t /\ \A i \in g + 1 + 1 .. t : i \in g + 1 .. t
  BY <1>3
<1>. QED BY <1>1, <1>2, <1>3, <1>5, <1>6 DEF AllFit

\* What is to be read of the head group.
LEMMA ToReadType ==
  ASSUME NEW x, Fits(x), NEW p, NEW b, NEW c, NEW e, HeadOK(x, p, b, c, e)
  PROVE  ToRead(Live(x), p) \in Seq(Slot)
<1>1. PICK s \in Seq(Slot) : s = Live(x)
  BY LiveIs
<1>2. CASE p = "callback"
  <2>1. s # <<>>
    BY <1>1, <1>2 DEF HeadOK, WorkOK
  <2>. QED BY <1>1, <1>2, <2>1, HeadTail DEF ToRead
<1>3. CASE p # "callback"
  BY <1>1, <1>3 DEF ToRead
<1>. QED BY <1>2, <1>3

LEMMA HeadGrows ==
  ASSUME NEW x \in Items, NEW n \in Epochs, NEW s \in Seq(Slot), NEW ep, NEW p \in {"idle", "callback"}, NEW b, NEW c, NEW e \in Epochs,
         KnownOK(s, ep, e), WorkOK(s, p, b, c, e), NEW s2, s2 = Grow(s, ep, n, x)
  PROVE  /\ KnownOK(s2, n, e) /\ WorkOK(s2, p, b, c, e)
         /\ Reading(ToRead(s2, p), e).queue = Append(Reading(ToRead(s, p), e).queue, Record(x, n))
<1>1. PICK mark \in BOOLEAN : mark = (s = <<>> \/ ep # n)
  OBVIOUS
<1>2. s2 = Grown(s, mark, n, x) /\ s2 \in Seq(Slot)
  BY <1>1, GrownType DEF Grow
<1>3. mark \/ Reading(s, e).epoch = n
  BY <1>1 DEF KnownOK
<1>4. PICK q : q = Append(Reading(s, e).queue, Record(x, n))
  OBVIOUS
<1>5. Reading(s2, e) = [epoch |-> n, queue |-> q]
  <2>1. Reading(Grown(s, mark, n, x), e) = [epoch |-> n, queue |-> Append(Reading(s, e).queue, [item |-> x, epoch |-> n])]
    BY <1>3, GrownReading
  <2>. QED BY <1>2, <1>4, <2>1 DEF Record
<1>6. s2 # <<>>
  BY <1>2, GrownFront
<1>7. Used(<<>>)
  BY EmptySeq DEF Used
<1>8. CASE s = <<>>
  <2>1. IsMarker(s2[1]) /\ Tail(s2) = <<Ptr(x)>>
    <3>1. mark = TRUE
      BY <1>1, <1>8
    <3>. QED BY <1>2, <1>8, <3>1, GrownNew
  <2>2. Used(<<Ptr(x)>>)
    <3>1. Used(Grown(<<>>, FALSE, n, x))
      BY <1>7, EmptySeq, UsedGrown
    <3>2. Append(<<>>, Ptr(x)) = <<Ptr(x)>>
      OBVIOUS
    <3>. QED BY <3>1, <3>2 DEF Grown
  <2>3. KnownOK(s2, n, e)
    <3>1. Used(Tail(s2))
      BY <2>1, <2>2
    <3>2. Reading(s2, e).epoch = n
      BY <1>5
    <3>. QED BY <3>1, <3>2 DEF KnownOK
  <2>4. p = "idle"
    BY <1>8 DEF WorkOK
  <2>5. WorkOK(s2, p, b, c, e)
    BY <1>6, <2>1, <2>4 DEF WorkOK
  <2>. QED BY <1>4, <1>5, <2>3, <2>4, <2>5 DEF ToRead
<1>9. CASE s # <<>>
  <2>1. PICK t \in Seq(Slot) : t = Tail(s)
    BY <1>9, HeadTail
  <2>2. Tail(s2) = Grown(t, mark, n, x) /\ s2[1] = s[1]
    BY <1>2, <1>9, <2>1, GrownFront
  <2>3. Used(t)
    BY <1>9, <2>1 DEF KnownOK
  <2>4. Used(Tail(s2))
    BY <2>2, <2>3, UsedGrown
  <2>5. KnownOK(s2, n, e)
    BY <1>5, <2>4 DEF KnownOK
  <2>6. WorkOK(s2, p, b, c, e)
    BY <1>6, <1>9, <2>2 DEF WorkOK
  <2>7. CASE p = "idle"
    BY <1>4, <1>5, <2>5, <2>6, <2>7 DEF ToRead
  <2>8. CASE p = "callback"
    <3>1. PICK a \in Slot : a = s[1] /\ s = <<a>> \o t
      BY <1>9, <2>1, HeadTail
    <3>2. ~ IsMarker(a)
      BY <2>8, <3>1, GroupConstants DEF WorkOK, IsMarker
    <3>3. PICK d : d = [item |-> a.ptr, epoch |-> e]
      OBVIOUS
    <3>4. Reading(s, e) = Before(d, Reading(t, e))
      BY <3>1, <3>2, <3>3, ReadingPointer
    <3>5. Reading(s, e).epoch = Reading(t, e).epoch
      BY <3>4 DEF Before
    <3>6. mark \/ Reading(t, e).epoch = n
      BY <1>3, <3>5
    <3>7. Reading(Tail(s2), e).queue = Append(Reading(t, e).queue, Record(x, n))
      <4>1. Reading(Grown(t, mark, n, x), e) = [epoch |-> n, queue |-> Append(Reading(t, e).queue, [item |-> x, epoch |-> n])]
        BY <3>6, GrownReading
      <4>2. PICK q2 : q2 = Append(Reading(t, e).queue, Record(x, n))
        OBVIOUS
      <4>3. Reading(Tail(s2), e) = [epoch |-> n, queue |-> q2]
        BY <2>2, <4>1, <4>2 DEF Record
      <4>. QED BY <4>2, <4>3
    <3>. QED BY <2>1, <2>5, <2>6, <2>8, <3>7 DEF ToRead
  <2>. QED BY <2>7, <2>8
<1>. QED BY <1>8, <1>9

LEMMA LaterGrows ==
  ASSUME NEW x \in Items, NEW n \in Epochs, NEW y, Fits(y), ~ Full(y), Later(y), NEW z, z = Pushed(y, x, n)
  PROVE  Later(z) /\ Reading(Live(z), 0).queue = Append(Reading(Live(y), 0).queue, Record(x, n))
<1>1. PICK s \in Seq(Slot) : s = Live(y)
  BY LiveIs
<1>2. PICK mark \in BOOLEAN : mark = (s = <<>> \/ y.epoch # n)
  OBVIOUS
<1>3. z.epoch = n /\ Live(z) = Grown(s, mark, n, x)
  BY <1>1, <1>2, PushIs DEF Grow
<1>4. s # <<>> /\ IsMarker(s[1]) /\ Used(s) /\ Reading(s, 0).epoch = y.epoch
  BY <1>1 DEF Later
<1>5. Live(z) # <<>> /\ Live(z)[1] = s[1]
  BY <1>3, <1>4, GrownFront
<1>6. Used(Live(z))
  BY <1>3, <1>4, UsedGrown
<1>7. mark \/ Reading(s, 0).epoch = n
  BY <1>2, <1>4
<1>8. Reading(Live(z), 0) = [epoch |-> n, queue |-> Append(Reading(s, 0).queue, Record(x, n))]
  BY <1>3, <1>7, ZeroIsEpoch, GrownReading DEF Record
<1>. QED BY <1>1, <1>3, <1>4, <1>5, <1>6, <1>8 DEF Later

LEMMA SpareGrows ==
  ASSUME NEW x \in Items, NEW n \in Epochs, NEW y, Fits(y), Spare(y), NEW z, z = Pushed(y, x, n)
  PROVE  ~ Full(y) /\ Later(z) /\ Reading(Live(z), 0).queue = <<Record(x, n)>>
<1>1. ~ Full(y) /\ Live(y) = <<>>
  <2>1. Len(y.slots) = 0
    BY EmptySeq DEF Spare
  <2>2. ~ Full(y)
    BY <2>1, GroupConstants DEF Full
  <2>3. IsEmpty(y)
    BY <2>1 DEF Spare, IsEmpty
  <2>. QED BY <2>2, <2>3, LiveIs
<1>2. PICK s \in Seq(Slot) : s = <<>>
  BY EmptySeq
<1>3. PICK mark \in BOOLEAN : mark = TRUE
  OBVIOUS
<1>4. z.epoch = n /\ Live(z) = Grown(s, mark, n, x)
  <2>1. z.epoch = n /\ Live(z) = Grown(Live(y), Live(y) = <<>> \/ y.epoch # n, n, x)
    BY <1>1, PushIs DEF Grow
  <2>2. (Live(y) = <<>> \/ y.epoch # n) = mark
    BY <1>1, <1>3
  <2>. QED BY <1>1, <1>2, <2>1, <2>2
<1>5. Live(z) # <<>> /\ IsMarker(Live(z)[1])
  <2>1. Grown(s, mark, n, x) # <<>>
    BY GrownFront
  <2>. QED BY <1>2, <1>3, <1>4, <2>1, GrownNew
<1>6. Used(Live(z))
  <2>1. Used(s)
    BY <1>2, EmptySeq DEF Used
  <2>. QED BY <1>4, <2>1, UsedGrown
<1>7. Reading(Live(z), 0) = [epoch |-> n, queue |-> Append(Reading(s, 0).queue, Record(x, n))]
  <2>1. mark \/ Reading(s, 0).epoch = n
    BY <1>3
  <2>2. Reading(Grown(s, mark, n, x), 0) = [epoch |-> n, queue |-> Append(Reading(s, 0).queue, [item |-> x, epoch |-> n])]
    BY <2>1, ZeroIsEpoch, GrownReading
  <2>. QED BY <1>4, <2>2 DEF Record
<1>8. Reading(s, 0).queue = <<>>
  BY <1>2, ReadingEmpty DEF Start
<1>9. Append(<<>>, Record(x, n)) = <<Record(x, n)>>
  OBVIOUS
<1>. QED BY <1>1, <1>4, <1>5, <1>6, <1>7, <1>8, <1>9 DEF Later
-------------------------------------------------------------------------------
(* One group changes.                                                      *)

Put(ch, i, y) == [ch EXCEPT ![i] = y]
PutIs(ch2, ch, i, y) ==
    /\ ch2 \in Seq(Group) /\ Len(ch2) = Len(ch) /\ ch2[i] = y
    /\ \A j \in 1 .. Len(ch) : j # i => ch2[j] = ch[j]

LEMMA ExceptIs ==
  ASSUME NEW ch \in Seq(Group), NEW i \in 1 .. Len(ch), NEW y \in Group, NEW ch2, ch2 = Put(ch, i, y)
  PROVE  PutIs(ch2, ch, i, y)
<1>1. /\ ch2 \in Seq(Group) /\ Len(ch2) = Len(ch)
      /\ \A j \in 1 .. Len(ch) : ch2[j] = IF j = i THEN y ELSE ch[j]
  BY ExceptSeq DEF Put
<1>. QED BY <1>1 DEF PutIs

\* The head group, the others as they were.
LEMMA HeadChanges ==
  ASSUME NEW ch, NEW t, NEW g, ChainOK(ch, t, g), NEW y, Fits(y), NEW ch2, ch2 = Put(ch, g + 1, y)
  PROVE  ChainOK(ch2, t, g) /\ ch2[g + 1] = y /\ Rest(ch2, g + 1, t) = Rest(ch, g + 1, t)
<1>1. /\ t \in Nat /\ g \in Nat /\ g + 1 \in Nat /\ g + 1 <= t /\ Len(ch) \in Nat /\ t <= Len(ch) /\ ch \in Seq(Group)
      /\ \A i \in 1 .. Len(ch) : PlaceOK(ch[i], i, t, g)
  BY ChainFits
<1>2. PICK h \in Nat : h = g + 1
  BY <1>1
<1>3. h \in 1 .. Len(ch) /\ y \in Group
  BY <1>1, <1>2 DEF Fits
<1>4. ch2 \in Seq(Group) /\ Len(ch2) = Len(ch) /\ ch2[h] = y /\ \A j \in 1 .. Len(ch) : j # h => ch2[j] = ch[j]
  <2>1. PutIs(ch2, ch, h, y)
    BY <1>1, <1>2, <1>3, ExceptIs
  <2>. QED BY <2>1 DEF PutIs
<1>5. \A i \in 1 .. Len(ch2) : PlaceOK(ch2[i], i, t, g)
  <2>1. PlaceOK(y, h, t, g)
    BY <1>1, <1>2 DEF PlaceOK
  <2>. QED BY <1>1, <1>4, <2>1
<1>6. ChainOK(ch2, t, g)
  BY <1>1, <1>4, <1>5 DEF ChainOK
<1>7. PICK n \in Nat : t = h + n
  <2>1. t - h \in Nat /\ t = h + (t - h)
    BY <1>1, <1>2
  <2>. QED BY <2>1
<1>8. SameLive(ch2, h, t, ch, h, t, n)
  <2>1. \A i \in 1 .. n : h + i \in 1 .. Len(ch) /\ h + i # h
    BY <1>1, <1>7
  <2>. QED BY <1>4, <1>7, <2>1 DEF SameLive
<1>9. Rest(ch2, h, t) = Rest(ch, h, t)
  BY <1>1, <1>2, <1>7, <1>8, RestSame
<1>. QED BY <1>2, <1>4, <1>6, <1>9

\* A group behind it, up to group_tail_.
LEMMA LaterChanges ==
  ASSUME NEW ch, NEW t, NEW g, ChainOK(ch, t, g), NEW i \in g + 2 .. t, NEW y, Fits(y), Later(y),
         NEW ch2, ch2 = Put(ch, i, y)
  PROVE  ChainOK(ch2, t, g) /\ ch2[g + 1] = ch[g + 1]
<1>1. /\ t \in Nat /\ g \in Nat /\ g + 1 \in Nat /\ g + 1 <= t /\ Len(ch) \in Nat /\ t <= Len(ch) /\ ch \in Seq(Group)
      /\ \A j \in 1 .. Len(ch) : PlaceOK(ch[j], j, t, g)
  BY ChainFits
<1>2. i \in 1 .. Len(ch) /\ y \in Group /\ g + 1 \in 1 .. Len(ch) /\ g + 1 # i /\ i <= t /\ g + 1 < i /\ ~ (i <= g)
  BY <1>1 DEF Fits
<1>3. ch2 \in Seq(Group) /\ Len(ch2) = Len(ch) /\ ch2[i] = y /\ \A j \in 1 .. Len(ch) : j # i => ch2[j] = ch[j]
  <2>1. PutIs(ch2, ch, i, y)
    BY <1>1, <1>2, ExceptIs
  <2>. QED BY <2>1 DEF PutIs
<1>4. \A j \in 1 .. Len(ch2) : PlaceOK(ch2[j], j, t, g)
  <2>1. PlaceOK(y, i, t, g)
    BY <1>1, <1>2 DEF PlaceOK
  <2>. QED BY <1>1, <1>3, <2>1
<1>5. ChainOK(ch2, t, g)
  BY <1>1, <1>3, <1>4 DEF ChainOK
<1>. QED BY <1>2, <1>3, <1>5
-------------------------------------------------------------------------------
(* record_rcu.                                                             *)

RecordsOne(ch2, t2, ch, t, g, p, b, c, e, r) ==
    /\ ChainOK(ch2, t2, g)
    /\ HeadOK(ch2[g + 1], p, b, c, e)
    /\ OneMore(QueueOf(ch2, t2, g, p, e), QueueOf(ch, t, g, p, e), r)

LEMMA RecordIs ==
  ASSUME NEW x \in Items, NEW n \in Epochs
  PROVE  Record(x, n) \in Records
BY DEF Record, Records

LEMMA RecordInTail ==
  ASSUME NEW ch, NEW t, NEW g, ChainOK(ch, t, g), NEW p \in {"idle", "callback"}, NEW b, NEW c, NEW e \in Epochs,
         HeadOK(ch[g + 1], p, b, c, e), NEW x \in Items, NEW n \in Epochs, ~ Full(ch[t]),
         NEW ch2, ch2 = Put(ch, t, Pushed(ch[t], x, n))
  PROVE  RecordsOne(ch2, t, ch, t, g, p, b, c, e, Record(x, n))
<1>1. /\ t \in Nat /\ g \in Nat /\ g + 1 \in Nat /\ g + 1 <= t /\ Len(ch) \in Nat /\ t <= Len(ch) /\ ch \in Seq(Group)
      /\ \A i \in 1 .. Len(ch) : PlaceOK(ch[i], i, t, g)
      /\ AllFit(ch, g + 1, t) /\ Fits(ch[g + 1])
  BY ChainFits
<1>2. PICK h \in Nat : h = g + 1
  BY <1>1
<1>3. t \in 1 .. Len(ch) /\ h <= t
  BY <1>1, <1>2
<1>4. Fits(ch[t])
  BY <1>1, <1>3 DEF PlaceOK
<1>5. PICK y : y = Pushed(ch[t], x, n)
  OBVIOUS
<1>6. Fits(y) /\ y.epoch = n /\ Live(y) = Grow(Live(ch[t]), ch[t].epoch, n, x)
  BY <1>4, <1>5, PushIs
<1>7. PICK z \in Seq(Slot) : z = ToRead(Live(ch[h]), p)
  BY <1>1, <1>2, ToReadType
<1>8. PICK q \in Seq(Records) : q = Reading(z, e).queue
  BY ReadingQueue
<1>9. PICK w \in Seq(Records) : w = Rest(ch, h, t)
  BY <1>1, <1>2, RestType
<1>10. QueueOf(ch, t, g, p, e) = q \o w
  BY <1>2, <1>7, <1>8, <1>9 DEF QueueOf
<1>11. PICK r \in Records : r = Record(x, n)
  BY RecordIs
<1>12. CASE t = h
  <2>1. ch2 = Put(ch, g + 1, y)
    BY <1>2, <1>5, <1>12
  <2>2. ChainOK(ch2, t, g) /\ ch2[h] = y /\ Rest(ch2, h, t) = w
    BY <1>2, <1>6, <1>9, <2>1, HeadChanges
  <2>3. PICK s \in Seq(Slot) : s = Live(ch[h])
    BY <1>1, <1>2, LiveIs
  <2>4. Live(y) = Grow(s, ch[h].epoch, n, x)
    BY <1>6, <1>12, <2>3
  <2>5. KnownOK(s, ch[h].epoch, e) /\ WorkOK(s, p, b, c, e)
    BY <1>2, <2>3 DEF HeadOK
  <2>6. /\ KnownOK(Live(y), n, e) /\ WorkOK(Live(y), p, b, c, e)
        /\ Reading(ToRead(Live(y), p), e).queue = Append(Reading(ToRead(s, p), e).queue, Record(x, n))
    BY <2>4, <2>5, HeadGrows
  <2>7. HeadOK(ch2[h], p, b, c, e)
    BY <1>6, <2>2, <2>6 DEF HeadOK
  <2>8. QueueOf(ch2, t, g, p, e) = Append(q, r) \o w
    BY <1>2, <1>7, <1>8, <1>11, <2>2, <2>3, <2>6 DEF QueueOf
  <2>9. w = <<>>
    BY <1>9, <1>12, RestEmpty
  <2>10. Append(q, r) \o w = Append(q \o w, r)
    BY <2>9, AppendProperties, ConcatEmptySeq
  <2>. QED BY <1>2, <1>10, <1>11, <2>2, <2>7, <2>8, <2>10 DEF RecordsOne, OneMore
<1>13. CASE t # h
  <2>1. t \in g + 2 .. t /\ h < t /\ g + 1 < t
    BY <1>1, <1>2, <1>3, <1>13
  <2>2. Later(ch[t])
    BY <1>1, <1>3, <2>1 DEF PlaceOK
  <2>3. Later(y) /\ Reading(Live(y), 0).queue = Append(Reading(Live(ch[t]), 0).queue, r)
    BY <1>4, <1>5, <1>11, <2>2, LaterGrows
  <2>4. ChainOK(ch2, t, g) /\ ch2[h] = ch[h]
    BY <1>2, <1>5, <1>6, <2>1, <2>3, LaterChanges
  <2>5. ch2[t] = y /\ \A i \in 1 .. Len(ch) : i # t => ch2[i] = ch[i]
    <3>1. y \in Group
      BY <1>6 DEF Fits
    <3>2. PutIs(ch2, ch, t, y)
      BY <1>1, <1>3, <1>5, <3>1, ExceptIs
    <3>. QED BY <3>2 DEF PutIs
  <2>0. PICK v \in Nat : t = v + 1 /\ h <= v
    <3>1. t - 1 \in Nat /\ t = (t - 1) + 1 /\ h <= t - 1
      BY <1>1, <1>2, <2>1
    <3>. QED BY <3>1
  <2>6. SameGroups(ch2, ch, h, v)
    <3>1. \A i \in h + 1 .. v : i \in 1 .. Len(ch) /\ i # t
      BY <1>1, <1>2, <2>0
    <3>. QED BY <2>5, <3>1 DEF SameGroups
  <2>7. AllFit(ch2, h, t)
    BY <1>2, <2>4, ChainFits
  <2>8. Rest(ch2, h, t) = Append(w, r)
    <3>1. Reading(Live(ch2[t]), 0).queue = Append(Reading(Live(ch[t]), 0).queue, r)
      BY <2>3, <2>5
    <3>2. AllFit(ch, h, t)
      BY <1>1, <1>2
    <3>3. LastGrows(ch2, ch, h, v, t, r)
      BY <2>0, <2>6, <3>1 DEF LastGrows
    <3>4. OneMore(Rest(ch2, h, t), Rest(ch, h, t), r)
      <4>1. t \in Nat
        BY <1>1
      <4>. QED BY <2>7, <3>2, <3>3, <4>1, RestPush
    <3>. QED BY <1>9, <3>4 DEF OneMore
  <2>9. QueueOf(ch2, t, g, p, e) = q \o Append(w, r)
    BY <1>2, <1>7, <1>8, <2>4, <2>8 DEF QueueOf
  <2>10. q \o Append(w, r) = Append(q \o w, r)
    BY ConcatAppend
  <2>11. HeadOK(ch2[h], p, b, c, e)
    BY <1>2, <2>4
  <2>. QED BY <1>2, <1>10, <1>11, <2>4, <2>9, <2>10, <2>11 DEF RecordsOne, OneMore
<1>. QED BY <1>12, <1>13

LEMMA NewGroupIs ==
  Fits(NewGroup) /\ Spare(NewGroup)
<1>1. NewGroup \in Group
  BY GroupConstants, EmptySeq DEF NewGroup, Group
<1>2. NewGroup.head = 0 /\ NewGroup.slots = <<>> /\ Len(<<>>) = 0 /\ Capacity \in Nat
  BY GroupConstants, EmptySeq DEF NewGroup
<1>. QED BY <1>1, <1>2 DEF Fits, Spare

\* refill_group: there is a group after group_tail_.
Refill(ch, t) == IF t = Len(ch) THEN Append(ch, NewGroup) ELSE ch

LEMMA Refilled ==
  ASSUME NEW ch, NEW t, NEW g, ChainOK(ch, t, g), NEW ch1, ch1 = Refill(ch, t)
  PROVE  /\ ChainOK(ch1, t, g) /\ t + 1 \in 1 .. Len(ch1)
         /\ \A i \in 1 .. t : ch1[i] = ch[i]
<1>1. /\ t \in Nat /\ g \in Nat /\ Len(ch) \in Nat /\ t <= Len(ch) /\ ch \in Seq(Group) /\ g + 1 <= t
      /\ \A i \in 1 .. Len(ch) : PlaceOK(ch[i], i, t, g)
  BY ChainFits
<1>2. CASE t # Len(ch)
  BY <1>1, <1>2 DEF Refill
<1>3. CASE t = Len(ch)
  <2>1. PICK m \in Nat : m = t + 1
    BY <1>1
  <2>2. NewGroup \in Group
    BY NewGroupIs DEF Fits
  <2>3. ch1 \in Seq(Group) /\ Len(ch1) = m /\ ch1[m] = NewGroup /\ \A i \in 1 .. t : ch1[i] = ch[i]
    BY <1>1, <1>3, <2>1, <2>2, AppendProperties DEF Refill
  <2>4. PlaceOK(NewGroup, m, t, g)
    BY <1>1, <2>1, NewGroupIs DEF PlaceOK
  <2>5. \A i \in 1 .. m : i = m \/ i \in 1 .. t
    BY <1>1, <2>1
  <2>6. \A i \in 1 .. Len(ch1) : PlaceOK(ch1[i], i, t, g)
    BY <1>1, <1>3, <2>3, <2>4, <2>5
  <2>7. t \in 1 .. Len(ch1) /\ g \in 0 .. t - 1
    BY <1>1, <2>1, <2>3
  <2>. QED BY <1>1, <2>1, <2>3, <2>6, <2>7 DEF ChainOK
<1>. QED BY <1>2, <1>3

LEMMA RecordInNext ==
  ASSUME NEW ch, NEW t, NEW g, ChainOK(ch, t, g), NEW p \in {"idle", "callback"}, NEW b, NEW c, NEW e \in Epochs,
         HeadOK(ch[g + 1], p, b, c, e), NEW x \in Items, NEW n \in Epochs,
         NEW ch1, ch1 = Refill(ch, t),
         NEW u, u = t + 1, NEW ch2, ch2 = Put(ch1, u, Pushed(ch1[u], x, n))
  PROVE  RecordsOne(ch2, u, ch, t, g, p, b, c, e, Record(x, n)) /\ Fits(ch1[u])
<1>1. /\ t \in Nat /\ g \in Nat /\ g + 1 \in Nat /\ g + 1 <= t /\ Len(ch) \in Nat /\ t <= Len(ch) /\ ch \in Seq(Group)
      /\ AllFit(ch, g + 1, t) /\ Fits(ch[g + 1])
  BY ChainFits
<1>2. PICK h \in Nat : h = g + 1
  BY <1>1
<1>3. u \in Nat /\ h <= t
  BY <1>1, <1>2
<1>4. ChainOK(ch1, t, g) /\ u \in 1 .. Len(ch1) /\ \A i \in 1 .. t : ch1[i] = ch[i]
  BY Refilled
<1>5. ch1 \in Seq(Group) /\ Len(ch1) \in Nat /\ \A i \in 1 .. Len(ch1) : PlaceOK(ch1[i], i, t, g)
  BY <1>4, ChainFits
<1>6. Fits(ch1[u]) /\ Spare(ch1[u])
  <2>1. t < u
    BY <1>1
  <2>. QED BY <1>4, <1>5, <2>1 DEF PlaceOK
<1>7. PICK y : y = Pushed(ch1[u], x, n)
  OBVIOUS
<1>8. ~ Full(ch1[u]) /\ Later(y) /\ Reading(Live(y), 0).queue = <<Record(x, n)>>
  BY <1>6, <1>7, SpareGrows
<1>9. Fits(y)
  BY <1>6, <1>7, <1>8, PushIs
<1>10. ch2 \in Seq(Group) /\ Len(ch2) = Len(ch1) /\ ch2[u] = y /\ \A i \in 1 .. Len(ch1) : i # u => ch2[i] = ch1[i]
  <2>1. y \in Group
    BY <1>9 DEF Fits
  <2>2. PutIs(ch2, ch1, u, y)
    BY <1>4, <1>5, <1>7, <2>1, ExceptIs
  <2>. QED BY <2>2 DEF PutIs
<1>11. \A i \in 1 .. t : ch2[i] = ch[i]
  <2>1. \A i \in 1 .. t : i \in 1 .. Len(ch1) /\ i # u
    BY <1>1, <1>4, <1>5
  <2>. QED BY <1>4, <1>10, <2>1
<1>12. \A i \in 1 .. Len(ch2) : PlaceOK(ch2[i], i, u, g)
  <2>1. PlaceOK(y, u, u, g)
    BY <1>1, <1>3, <1>8, <1>9 DEF PlaceOK
  <2>2. ASSUME NEW i \in 1 .. Len(ch1), i # u PROVE PlaceOK(ch1[i], i, u, g)
    <3>1. PlaceOK(ch1[i], i, t, g)
      BY <1>5
    <3>2. (u < i => t < i) /\ (i <= u => i <= t)
      BY <1>1, <2>2
    <3>. QED BY <3>1, <3>2 DEF PlaceOK
  <2>. QED BY <1>10, <2>1, <2>2
<1>13. ChainOK(ch2, u, g)
  <2>1. u \in 1 .. Len(ch2) /\ g \in 0 .. u - 1
    BY <1>1, <1>4, <1>10
  <2>. QED BY <1>10, <1>12, <2>1 DEF ChainOK
<1>14. ch2[h] = ch[h]
  <2>1. h \in 1 .. t
    BY <1>1, <1>2
  <2>. QED BY <1>11, <2>1
<1>15. AllFit(ch2, h, u)
  BY <1>2, <1>13, ChainFits
<1>16. PICK r \in Records : r = Record(x, n)
  BY RecordIs
<1>17. PICK w \in Seq(Records) : w = Rest(ch, h, t)
  BY <1>1, <1>2, RestType
<1>18. SameGroups(ch2, ch, h, t)
  <2>1. \A i \in h + 1 .. t : i \in 1 .. t
    BY <1>1, <1>2
  <2>. QED BY <1>11, <2>1 DEF SameGroups
<1>19. Rest(ch2, h, u) = Append(w, r)
  <2>1. Reading(Live(ch2[u]), 0).queue = <<r>>
    BY <1>8, <1>10, <1>16
  <2>2. AllFit(ch, h, t)
    BY <1>1, <1>2
  <2>4. NextGrows(ch2, ch, h, t, u, r)
    BY <1>3, <1>18, <2>1 DEF NextGrows
  <2>3. OneMore(Rest(ch2, h, u), Rest(ch, h, t), r)
    <3>1. t \in Nat
      BY <1>1
    <3>. QED BY <1>3, <1>15, <2>2, <2>4, <3>1, RestGrow
  <2>. QED BY <1>17, <2>3 DEF OneMore
<1>20. PICK z \in Seq(Slot) : z = ToRead(Live(ch[h]), p)
  BY <1>1, <1>2, ToReadType
<1>21. PICK q \in Seq(Records) : q = Reading(z, e).queue
  BY ReadingQueue
<1>22. QueueOf(ch, t, g, p, e) = q \o w /\ QueueOf(ch2, u, g, p, e) = q \o Append(w, r)
  BY <1>2, <1>14, <1>17, <1>19, <1>20, <1>21 DEF QueueOf
<1>23. q \o Append(w, r) = Append(q \o w, r)
  BY ConcatAppend
<1>24. HeadOK(ch2[h], p, b, c, e)
  BY <1>2, <1>14
<1>. QED BY <1>2, <1>6, <1>13, <1>16, <1>22, <1>23, <1>24 DEF RecordsOne, OneMore
-------------------------------------------------------------------------------
(* clean_until reads the front of the head group.                          *)

LEMMA FrontPointer ==
  ASSUME NEW s \in Seq(Slot), s # <<>>, ~ IsMarker(s[1]), NEW e \in Epochs, NEW d, d = Record(s[1].ptr, e)
  PROVE  /\ Reading(s, e).queue = <<d>> \o Reading(Tail(s), e).queue
         /\ Reading(s, e).epoch = Reading(Tail(s), e).epoch /\ d \in Records
<1>0. s[1] \in Slot /\ Tail(s) \in Seq(Slot) /\ s = <<s[1]>> \o Tail(s)
  BY HeadTail
<1>1. PICK a \in Slot, t \in Seq(Slot) : a = s[1] /\ t = Tail(s) /\ s = <<a>> \o t
  BY <1>0
<1>2. ~ IsMarker(a) /\ d = [item |-> a.ptr, epoch |-> e]
  BY <1>1 DEF Record
<1>3. Reading(<<a>> \o t, e) = Before(d, Reading(t, e)) /\ d \in Records
  BY <1>2, ReadingPointer
<1>4. PICK q : q = <<d>> \o Reading(t, e).queue
  OBVIOUS
<1>5. Before(d, Reading(t, e)) = [epoch |-> Reading(t, e).epoch, queue |-> q]
  BY <1>4 DEF Before
<1>6. Reading(s, e).queue = q /\ Reading(s, e).epoch = Reading(t, e).epoch
  <2>1. PICK r : r = Reading(s, e)
    OBVIOUS
  <2>2. PICK ep : ep = Reading(t, e).epoch
    OBVIOUS
  <2>3. r = Before(d, Reading(t, e))
    BY Zenon, <1>1, <1>3, <2>1
  <2>4. r = [epoch |-> ep, queue |-> q]
    BY <1>5, <2>2, <2>3
  <2>5. r.queue = q /\ r.epoch = ep
    BY <2>4
  <2>. QED BY <2>1, <2>2, <2>5
<1>. QED BY <1>1, <1>3, <1>4, <1>6

LEMMA FrontMarker ==
  ASSUME NEW s \in Seq(Slot), s # <<>>, IsMarker(s[1]), NEW e \in Epochs
  PROVE  Reading(s, e) = Reading(Tail(s), s[1].u) /\ s[1].u \in Epochs
<1>0. s[1] \in Slot /\ Tail(s) \in Seq(Slot) /\ s = <<s[1]>> \o Tail(s)
  BY HeadTail
<1>1. PICK a \in Slot, t \in Seq(Slot) : a = s[1] /\ t = Tail(s) /\ s = <<a>> \o t
  BY <1>0
<1>2. IsMarker(a)
  BY <1>1
<1>3. Reading(<<a>> \o t, e) = Reading(t, a.u)
  BY <1>2, ReadingMarker
<1>. QED BY <1>1, <1>2, <1>3, SlotIs

\* What is known of the rest.
LEMMA KnownNext ==
  ASSUME NEW s \in Seq(Slot), s # <<>>, NEW ep, NEW e, KnownOK(s, ep, e), NEW t, t = Tail(s), NEW e2,
         Reading(s, e).epoch = Reading(t, e2).epoch
  PROVE  KnownOK(t, ep, e2) /\ (t # <<>> /\ IsMarker(t[1]) => PointerNext(t))
<1>1. t \in Seq(Slot) /\ Used(t) /\ Reading(t, e2).epoch = ep
  BY HeadTail DEF KnownOK
<1>2. t # <<>> => Used(Tail(t)) /\ (IsMarker(t[1]) => PointerNext(t))
  BY <1>1, UsedTail DEF PointerNext
<1>. QED BY <1>1, <1>2 DEF KnownOK

AdvancedIn(x) == [head |-> x.head + 1, slots |-> x.slots, epoch |-> x.epoch]
MarkedIn(x, e) == [head |-> x.head, slots |-> [x.slots EXCEPT ![x.head + 1] = Marker(e)], epoch |-> x.epoch]

FreedOK(y, x, p2, b, c2, e) ==
    /\ Fits(y)
    /\ HeadOK(y, p2, b, c2, e)
    /\ Reading(ToRead(Live(y), p2), e).queue = Reading(Tail(Live(x)), e).queue

\* After a pointer.
LEMMA FreedAdvances ==
  ASSUME NEW x, Fits(x), NEW p \in {"clean", "callback"}, NEW b, NEW c \in Nat, NEW e \in Epochs, HeadOK(x, p, b, c, e),
         Live(x) # <<>>, ~ IsMarker(Live(x)[1]), c # 1, NEW c2, c2 = c - 1
  PROVE  FreedOK(AdvancedIn(x), x, "clean", b, c2, e)
<1>1. PICK s \in Seq(Slot) : s = Live(x)
  BY LiveIs
<1>2. PICK t \in Seq(Slot) : t = Tail(s)
  BY <1>1, HeadTail
<1>3. PICK y : y = AdvancedIn(x)
  OBVIOUS
<1>4. Fits(y) /\ Live(y) = t /\ y.epoch = x.epoch
  BY <1>1, <1>2, <1>3, LiveAdvance DEF AdvancedIn
<1>5. KnownOK(s, x.epoch, e) /\ WorkOK(s, p, b, c, e)
  BY <1>1 DEF HeadOK
<1>6. Reading(s, e).epoch = Reading(t, e).epoch
  BY <1>1, <1>2, FrontPointer
<1>7. KnownOK(t, x.epoch, e) /\ (t # <<>> /\ IsMarker(t[1]) => PointerNext(t))
  BY <1>1, <1>2, <1>5, <1>6, KnownNext
<1>8. c > 0 /\ e <= b
  BY <1>5 DEF WorkOK
<1>9. c2 > 0
  BY <1>8
<1>10. WorkOK(t, "clean", b, c2, e)
  BY <1>7, <1>8, <1>9 DEF WorkOK
<1>11. ToRead(t, "clean") = t
  BY DEF ToRead
<1>. QED BY <1>1, <1>2, <1>3, <1>4, <1>7, <1>10, <1>11 DEF FreedOK, HeadOK

LEMMA FreedMarks ==
  ASSUME NEW x, Fits(x), NEW p, NEW b, NEW c, NEW e \in Epochs, HeadOK(x, p, b, c, e),
         Live(x) # <<>>, ~ IsMarker(Live(x)[1])
  PROVE  FreedOK(MarkedIn(x, e), x, "splice", b, 0, e)
<1>1. PICK s \in Seq(Slot) : s = Live(x)
  BY LiveIs
<1>2. PICK t \in Seq(Slot) : t = Tail(s)
  BY <1>1, HeadTail
<1>3. PICK m \in Slot : m = Marker(e) /\ IsMarker(m) /\ m.u = e
  <2>1. Marker(e) \in [ptr : {NoPtr}, u : 0 .. MaxEpoch]
    BY DEF Marker, Epochs
  <2>2. IsMarker(Marker(e)) /\ Marker(e).u = e
    BY DEF IsMarker, Marker
  <2>. QED BY <2>1, <2>2 DEF Slot
<1>4. PICK y : y = MarkedIn(x, e)
  OBVIOUS
<1>5. y = [head |-> x.head, slots |-> [x.slots EXCEPT ![x.head + 1] = m], epoch |-> x.epoch]
  BY <1>3, <1>4 DEF MarkedIn
<1>6. Fits(y) /\ Live(y) = <<m>> \o t
  BY <1>1, <1>2, <1>5, LiveMark
<1>7. PICK z \in Seq(Slot) : z = <<m>> \o t
  BY ConsProperties
<1>8. Tail(z) = t /\ z[1] = m /\ z # <<>>
  <2>1. Len(z) = Len(t) + 1 /\ Len(t) \in Nat /\ z[1] = m
    BY <1>7, ConsProperties
  <2>2. z # <<>>
    BY <2>1, EmptySeq
  <2>. QED BY <1>7, <2>1, <2>2, TailOfCons
<1>9. Reading(z, e) = Reading(t, e)
  BY <1>3, <1>7, ReadingMarker
<1>10. KnownOK(s, x.epoch, e)
  BY <1>1 DEF HeadOK
<1>11. Reading(s, e).epoch = Reading(t, e).epoch
  BY <1>1, <1>2, FrontPointer
<1>12. Used(t) /\ Reading(z, e).epoch = x.epoch
  BY <1>1, <1>2, <1>9, <1>10, <1>11 DEF KnownOK
<1>13. y.epoch = x.epoch
  BY <1>5
<1>14. KnownOK(z, x.epoch, e)
  BY <1>8, <1>12 DEF KnownOK
<1>15. WorkOK(z, "splice", b, 0, e)
  BY <1>3, <1>8 DEF WorkOK
<1>16. ToRead(z, "splice") = z
  BY DEF ToRead
<1>. QED BY <1>1, <1>2, <1>4, <1>6, <1>7, <1>9, <1>13, <1>14, <1>15, <1>16 DEF FreedOK, HeadOK

\* After a marker, within the bound and above it.
LEMMA MarkerAdvances ==
  ASSUME NEW x, Fits(x), NEW b, NEW c, NEW e \in Epochs, HeadOK(x, "clean", b, c, e),
         Live(x) # <<>>, IsMarker(Live(x)[1]), NEW e2, e2 = Live(x)[1].u, e2 <= b
  PROVE  /\ Fits(AdvancedIn(x)) /\ HeadOK(AdvancedIn(x), "clean", b, c, e2)
         /\ Reading(Live(AdvancedIn(x)), e2) = Reading(Live(x), e)
<1>1. PICK s \in Seq(Slot) : s = Live(x)
  BY LiveIs
<1>2. PICK t \in Seq(Slot) : t = Tail(s)
  BY <1>1, HeadTail
<1>3. PICK y : y = AdvancedIn(x)
  OBVIOUS
<1>4. Fits(y) /\ Live(y) = t /\ y.epoch = x.epoch
  BY <1>1, <1>2, <1>3, LiveAdvance DEF AdvancedIn
<1>5. KnownOK(s, x.epoch, e) /\ WorkOK(s, "clean", b, c, e)
  BY <1>1 DEF HeadOK
<1>6. Reading(s, e) = Reading(t, e2)
  BY <1>1, <1>2, FrontMarker
<1>7. KnownOK(t, x.epoch, e2) /\ (t # <<>> /\ IsMarker(t[1]) => PointerNext(t))
  BY <1>1, <1>2, <1>5, <1>6, KnownNext
<1>8. WorkOK(t, "clean", b, c, e2)
  BY <1>5, <1>7 DEF WorkOK
<1>. QED BY <1>1, <1>3, <1>4, <1>6, <1>7, <1>8 DEF HeadOK

LEMMA MarkerStops ==
  ASSUME NEW x, Fits(x), NEW b \in Epochs, NEW c, NEW e \in Epochs, HeadOK(x, "clean", b, c, e),
         Live(x) # <<>>, IsMarker(Live(x)[1]), NEW e2, e2 = Live(x)[1].u, b < e2
  PROVE  HeadOK(x, "splice", b, c, e2) /\ Reading(Live(x), e2) = Reading(Live(x), e)
<1>1. PICK s \in Seq(Slot) : s = Live(x)
  BY LiveIs
<1>2. KnownOK(s, x.epoch, e) /\ WorkOK(s, "clean", b, c, e)
  BY <1>1 DEF HeadOK
<1>3. e2 \in Epochs /\ Reading(s, e) = Reading(Tail(s), e2) /\ Reading(s, e2) = Reading(Tail(s), e2)
  BY <1>1, FrontMarker
<1>4. KnownOK(s, x.epoch, e2)
  BY <1>2, <1>3 DEF KnownOK
<1>5. ~ (e2 <= b)
  BY <1>3 DEF Epochs
<1>6. WorkOK(s, "splice", b, c, e2)
  BY <1>1, <1>2, <1>5 DEF WorkOK
<1>. QED BY <1>1, <1>3, <1>4, <1>6 DEF HeadOK
-------------------------------------------------------------------------------
(* The steps, as changes of the values of the variables.                   *)

Sorts(n, p, b, c, e) == /\ n \in Epochs
                        /\ p \in {"idle", "clean", "callback", "splice"}
                        /\ b \in Epochs
                        /\ c \in 0 .. Budget
                        /\ e \in Epochs
StateOK(n, ch, t, g, p, b, c, e) == /\ Sorts(n, p, b, c, e)
                                    /\ ChainOK(ch, t, g)
                                    /\ HeadOK(ch[g + 1], p, b, c, e)
                                    /\ p = "idle" => g = 0

\* The queue without its first record.
Drops(q2, d, q) == q # <<>> /\ Head(q) = d /\ q2 = Tail(q)

LEMMA DropsFirst ==
  ASSUME NEW d \in Records, NEW q \in Seq(Records), NEW w \in Seq(Records)
  PROVE  Drops(q \o w, d, (<<d>> \o q) \o w)
<1>1. <<d>> \in Seq(Records) /\ q \o w \in Seq(Records)
  BY ConsProperties, ConcatProperties
<1>2. (<<d>> \o q) \o w = <<d>> \o (q \o w)
  BY <1>1, ConcatAssociative
<1>3. PICK z \in Seq(Records) : z = q \o w
  BY <1>1
<1>4. Len(<<d>> \o z) = Len(z) + 1 /\ Len(z) \in Nat
  BY ConsProperties
<1>5. <<d>> \o z # <<>>
  BY <1>4, EmptySeq
<1>6. Tail(<<d>> \o z) = z /\ Head(<<d>> \o z) = d
  BY TailOfCons
<1>. QED BY <1>2, <1>3, <1>5, <1>6 DEF Drops

\* A new head group.
Becomes(n, ch, g, y, p2, b, c2, e2, ch2) ==
    /\ p2 # "idle" /\ Sorts(n, p2, b, c2, e2)
    /\ Fits(y) /\ HeadOK(y, p2, b, c2, e2)
    /\ ch2 = Put(ch, g + 1, y)

LEMMA HeadStep ==
  ASSUME NEW n, NEW ch, NEW t, NEW g, NEW p, NEW b, NEW c, NEW e, StateOK(n, ch, t, g, p, b, c, e),
         NEW y, NEW p2, NEW c2, NEW e2, NEW ch2, Becomes(n, ch, g, y, p2, b, c2, e2, ch2)
  PROVE  /\ StateOK(n, ch2, t, g, p2, b, c2, e2)
         /\ Joined(QueueOf(ch2, t, g, p2, e2), Reading(ToRead(Live(y), p2), e2).queue, Rest(ch, g + 1, t))
<1>1. ChainOK(ch, t, g) /\ Fits(y) /\ ch2 = Put(ch, g + 1, y)
  BY DEF StateOK, Becomes
<1>2. ChainOK(ch2, t, g) /\ ch2[g + 1] = y /\ Rest(ch2, g + 1, t) = Rest(ch, g + 1, t)
  BY <1>1, HeadChanges
<1>3. StateOK(n, ch2, t, g, p2, b, c2, e2)
  BY <1>2 DEF StateOK, Becomes
<1>4. Joined(QueueOf(ch2, t, g, p2, e2), Reading(ToRead(Live(y), p2), e2).queue, Rest(ch, g + 1, t))
  BY <1>2 DEF QueueOf, Joined
<1>. QED BY <1>3, <1>4

\* What there is to read, and the rest.
HasParts(ch, t, g, p, b, c, e, x, s, w) ==
    /\ x = ch[g + 1] /\ Fits(x) /\ HeadOK(x, p, b, c, e)
    /\ s \in Seq(Slot) /\ s = Live(x) /\ ToRead(s, p) \in Seq(Slot)
    /\ w \in Seq(Records) /\ w = Rest(ch, g + 1, t)
    /\ QueueOf(ch, t, g, p, e) = Reading(ToRead(s, p), e).queue \o w

LEMMA QueueParts ==
  ASSUME NEW n, NEW ch, NEW t, NEW g, NEW p, NEW b, NEW c, NEW e, StateOK(n, ch, t, g, p, b, c, e)
  PROVE  \E x, s, w : HasParts(ch, t, g, p, b, c, e, x, s, w)
<1>1. ChainOK(ch, t, g) /\ HeadOK(ch[g + 1], p, b, c, e)
  BY DEF StateOK
<1>2. PICK x : x = ch[g + 1]
  OBVIOUS
<1>3. Fits(x) /\ g + 1 \in Nat /\ t \in Nat /\ g + 1 <= t /\ AllFit(ch, g + 1, t)
  BY <1>1, <1>2, ChainFits
<1>4. PICK s \in Seq(Slot) : s = Live(x)
  BY <1>3, LiveIs
<1>5. PICK w \in Seq(Records) : w = Rest(ch, g + 1, t)
  BY <1>3, RestType
<1>6. HeadOK(x, p, b, c, e) /\ ToRead(s, p) \in Seq(Slot)
  BY <1>1, <1>2, <1>3, <1>4, ToReadType
<1>7. QueueOf(ch, t, g, p, e) = Reading(ToRead(s, p), e).queue \o w
  BY <1>2, <1>4, <1>5 DEF QueueOf
<1>8. HasParts(ch, t, g, p, b, c, e, x, s, w)
  BY <1>2, <1>3, <1>4, <1>5, <1>6, <1>7 DEF HasParts
<1>. QED BY <1>8

LEMMA DoRecord ==
  ASSUME NEW n, NEW ch, NEW t, NEW g, NEW p \in {"idle", "callback"}, NEW b, NEW c, NEW e, StateOK(n, ch, t, g, p, b, c, e),
         NEW x \in Items, NEW ch2, NEW t2,
         IF Full(ch[t]) THEN t2 = t + 1 /\ ch2 = Put(Refill(ch, t), t2, Pushed(Refill(ch, t)[t2], x, n))
                        ELSE t2 = t /\ ch2 = Put(ch, t, Pushed(ch[t], x, n))
  PROVE  StateOK(n, ch2, t2, g, p, b, c, e) /\ OneMore(QueueOf(ch2, t2, g, p, e), QueueOf(ch, t, g, p, e), Record(x, n))
<1>1. ChainOK(ch, t, g) /\ HeadOK(ch[g + 1], p, b, c, e) /\ n \in Epochs /\ e \in Epochs
  BY DEF StateOK, Sorts
<1>2. RecordsOne(ch2, t2, ch, t, g, p, b, c, e, Record(x, n))
  <2>1. CASE Full(ch[t])
    <3>1. PICK ch1 : ch1 = Refill(ch, t)
      OBVIOUS
    <3>2. ch2 = Put(ch1, t2, Pushed(ch1[t2], x, n)) /\ t2 = t + 1
      BY <2>1, <3>1
    <3>. QED BY <1>1, <3>1, <3>2, RecordInNext
  <2>2. CASE ~ Full(ch[t])
    BY <1>1, <2>2, RecordInTail
  <2>. QED BY <2>1, <2>2
<1>. QED BY <1>2 DEF RecordsOne, StateOK

LEMMA DoBegin ==
  ASSUME NEW n, NEW ch, NEW t, NEW g, NEW b, NEW c, NEW e, StateOK(n, ch, t, g, "idle", b, c, e),
         NEW b2 \in Epochs, Live(ch[g + 1]) # <<>>, Live(ch[g + 1])[1].u <= b2
  PROVE  StateOK(n, ch, t, g, "clean", b2, Budget, 0) /\ QueueOf(ch, t, g, "clean", 0) = QueueOf(ch, t, g, "idle", e)
<1>1. Sorts(n, "idle", b, c, e) /\ ChainOK(ch, t, g) /\ HeadOK(ch[g + 1], "idle", b, c, e)
  BY DEF StateOK
<1>2. e = 0
  BY <1>1 DEF HeadOK, WorkOK
<1>3. Sorts(n, "clean", b2, Budget, 0)
  BY <1>1, ZeroIsEpoch, GroupConstants DEF Sorts
<1>4. 0 <= b2
  BY DEF Epochs
<1>5. HeadOK(ch[g + 1], "clean", b2, Budget, 0)
  BY <1>1, <1>2, <1>4, GroupConstants DEF HeadOK, WorkOK
<1>. QED BY <1>1, <1>2, <1>3, <1>5 DEF StateOK, QueueOf, ToRead
\* free_rcu of a pointer, and the return of one that was a callback.
FreedTo(ch, g, c, e, ch2, p2, c2) ==
    /\ c2 = c - 1
    /\ IF c = 1 THEN p2 = "splice" /\ ch2 = Put(ch, g + 1, MarkedIn(ch[g + 1], e))
               ELSE p2 = "clean" /\ ch2 = Put(ch, g + 1, AdvancedIn(ch[g + 1]))

LEMMA FreedState ==
  ASSUME NEW n, NEW ch, NEW t, NEW g, NEW p \in {"clean", "callback"}, NEW b, NEW c, NEW e, StateOK(n, ch, t, g, p, b, c, e),
         Live(ch[g + 1]) # <<>>, ~ IsMarker(Live(ch[g + 1])[1]), NEW ch2, NEW p2, NEW c2, FreedTo(ch, g, c, e, ch2, p2, c2)
  PROVE  /\ StateOK(n, ch2, t, g, p2, b, c2, e)
         /\ Joined(QueueOf(ch2, t, g, p2, e), Reading(Tail(Live(ch[g + 1])), e).queue, Rest(ch, g + 1, t))
<1>0. /\ c2 = c - 1
      /\ IF c = 1 THEN p2 = "splice" /\ ch2 = Put(ch, g + 1, MarkedIn(ch[g + 1], e))
                 ELSE p2 = "clean" /\ ch2 = Put(ch, g + 1, AdvancedIn(ch[g + 1]))
  BY DEF FreedTo
<1>1. PICK x, s, w : HasParts(ch, t, g, p, b, c, e, x, s, w)
  BY QueueParts
<1>2. x = ch[g + 1] /\ Fits(x) /\ HeadOK(x, p, b, c, e) /\ s \in Seq(Slot) /\ s = Live(x)
  BY <1>1 DEF HasParts
<1>3. Sorts(n, p, b, c, e) /\ c \in Nat /\ e \in Epochs /\ c \in 0 .. Budget
  BY GroupConstants DEF StateOK, Sorts
<1>4. c > 0
  BY <1>2 DEF HeadOK, WorkOK
<1>5. Live(x) # <<>> /\ ~ IsMarker(Live(x)[1])
  BY <1>2
<1>6. PICK y : y = IF c = 1 THEN MarkedIn(x, e) ELSE AdvancedIn(x)
  OBVIOUS
<1>7. FreedOK(y, x, p2, b, c2, e) /\ ch2 = Put(ch, g + 1, y) /\ p2 \in {"splice", "clean"}
  <2>1. CASE c = 1
    <3>1. FreedOK(MarkedIn(x, e), x, "splice", b, 0, e)
      BY <1>2, <1>3, <1>5, FreedMarks
    <3>2. c2 = 0 /\ y = MarkedIn(x, e) /\ p2 = "splice" /\ ch2 = Put(ch, g + 1, y)
      BY <1>0, <1>2, <1>6, <2>1
    <3>. QED BY <3>1, <3>2
  <2>2. CASE c # 1
    <3>1. FreedOK(AdvancedIn(x), x, "clean", b, c2, e)
      BY <1>0, <1>2, <1>3, <1>5, <2>2, FreedAdvances
    <3>2. y = AdvancedIn(x) /\ p2 = "clean" /\ ch2 = Put(ch, g + 1, y)
      BY <1>0, <1>2, <1>6, <2>2
    <3>. QED BY <3>1, <3>2
  <2>. QED BY <2>1, <2>2
<1>8. c2 \in 0 .. Budget
  BY <1>0, <1>3, <1>4, GroupConstants
<1>9. Sorts(n, p2, b, c2, e) /\ p2 # "idle"
  BY <1>3, <1>7, <1>8 DEF Sorts
<1>10. Fits(y) /\ HeadOK(y, p2, b, c2, e) /\ Reading(ToRead(Live(y), p2), e).queue = Reading(Tail(Live(x)), e).queue
  BY <1>7 DEF FreedOK
<1>11. /\ StateOK(n, ch2, t, g, p2, b, c2, e)
       /\ Joined(QueueOf(ch2, t, g, p2, e), Reading(ToRead(Live(y), p2), e).queue, Rest(ch, g + 1, t))
  <2>1. Becomes(n, ch, g, y, p2, b, c2, e, ch2)
    BY <1>7, <1>9, <1>10 DEF Becomes
  <2>. QED BY <2>1, HeadStep
<1>. QED BY <1>2, <1>10, <1>11 DEF Joined

LEMMA FirstDropped ==
  ASSUME NEW n, NEW ch, NEW t, NEW g, NEW b, NEW c, NEW e, StateOK(n, ch, t, g, "clean", b, c, e),
         Live(ch[g + 1]) # <<>>, ~ IsMarker(Live(ch[g + 1])[1]), NEW q,
         Joined(q, Reading(Tail(Live(ch[g + 1])), e).queue, Rest(ch, g + 1, t))
  PROVE  Drops(q, Record(Live(ch[g + 1])[1].ptr, e), QueueOf(ch, t, g, "clean", e)) /\ c > 0 /\ e <= b
<1>1. PICK x, s, w : HasParts(ch, t, g, "clean", b, c, e, x, s, w)
  BY QueueParts
<1>2. /\ x = ch[g + 1] /\ Fits(x) /\ HeadOK(x, "clean", b, c, e) /\ s \in Seq(Slot) /\ s = Live(x)
      /\ w \in Seq(Records) /\ w = Rest(ch, g + 1, t)
      /\ QueueOf(ch, t, g, "clean", e) = Reading(s, e).queue \o w
  BY <1>1 DEF HasParts, ToRead
<1>3. e \in Epochs
  BY DEF StateOK, Sorts
<1>4. s # <<>> /\ ~ IsMarker(s[1])
  BY <1>2
<1>5. PICK d : d = Record(s[1].ptr, e)
  OBVIOUS
<1>6. Reading(s, e).queue = <<d>> \o Reading(Tail(s), e).queue /\ d \in Records
  BY <1>2, <1>3, <1>4, <1>5, FrontPointer
<1>7. PICK z \in Seq(Records) : z = Reading(Tail(s), e).queue
  <2>1. Tail(s) \in Seq(Slot)
    BY <1>2, <1>4, HeadTail
  <2>. QED BY <1>3, <2>1, ReadingQueue
<1>8. Drops(z \o w, d, (<<d>> \o z) \o w)
  BY <1>2, <1>6, DropsFirst
<1>9. q = z \o w /\ QueueOf(ch, t, g, "clean", e) = (<<d>> \o z) \o w
  BY <1>2, <1>6, <1>7 DEF Joined
<1>10. c > 0 /\ e <= b
  BY <1>2 DEF HeadOK, WorkOK
<1>. QED BY <1>2, <1>5, <1>8, <1>9, <1>10

LEMMA DoFree ==
  ASSUME NEW n, NEW ch, NEW t, NEW g, NEW b, NEW c, NEW e, StateOK(n, ch, t, g, "clean", b, c, e),
         Live(ch[g + 1]) # <<>>, ~ IsMarker(Live(ch[g + 1])[1]), NEW ch2, NEW p2, NEW c2, FreedTo(ch, g, c, e, ch2, p2, c2)
  PROVE  /\ StateOK(n, ch2, t, g, p2, b, c2, e)
         /\ Drops(QueueOf(ch2, t, g, p2, e), Record(Live(ch[g + 1])[1].ptr, e), QueueOf(ch, t, g, "clean", e))
         /\ c > 0 /\ e <= b
<1>1. /\ StateOK(n, ch2, t, g, p2, b, c2, e)
      /\ Joined(QueueOf(ch2, t, g, p2, e), Reading(Tail(Live(ch[g + 1])), e).queue, Rest(ch, g + 1, t))
  BY FreedState
<1>. QED BY <1>1, FirstDropped

LEMMA DoCall ==
  ASSUME NEW n, NEW ch, NEW t, NEW g, NEW b, NEW c, NEW e, StateOK(n, ch, t, g, "clean", b, c, e),
         Live(ch[g + 1]) # <<>>, Live(ch[g + 1])[1].ptr \in Callbacks
  PROVE  /\ StateOK(n, ch, t, g, "callback", b, c, e)
         /\ Drops(QueueOf(ch, t, g, "callback", e), Record(Live(ch[g + 1])[1].ptr, e), QueueOf(ch, t, g, "clean", e))
         /\ c > 0 /\ e <= b
<1>1. Sorts(n, "clean", b, c, e) /\ ChainOK(ch, t, g) /\ HeadOK(ch[g + 1], "clean", b, c, e)
  BY DEF StateOK
<1>2. ~ IsMarker(Live(ch[g + 1])[1])
  BY GroupConstants DEF IsMarker
<1>3. Joined(QueueOf(ch, t, g, "callback", e), Reading(Tail(Live(ch[g + 1])), e).queue, Rest(ch, g + 1, t))
  BY DEF QueueOf, ToRead, Joined
<1>4. /\ Drops(QueueOf(ch, t, g, "callback", e), Record(Live(ch[g + 1])[1].ptr, e), QueueOf(ch, t, g, "clean", e))
      /\ c > 0 /\ e <= b
  BY <1>2, <1>3, FirstDropped
<1>5. HeadOK(ch[g + 1], "callback", b, c, e)
  BY <1>1 DEF HeadOK, WorkOK
<1>6. Sorts(n, "callback", b, c, e)
  BY <1>1 DEF Sorts
<1>. QED BY <1>1, <1>4, <1>5, <1>6 DEF StateOK

LEMMA DoReturn ==
  ASSUME NEW n, NEW ch, NEW t, NEW g, NEW b, NEW c, NEW e, StateOK(n, ch, t, g, "callback", b, c, e),
         NEW ch2, NEW p2, NEW c2, FreedTo(ch, g, c, e, ch2, p2, c2)
  PROVE  StateOK(n, ch2, t, g, p2, b, c2, e) /\ QueueOf(ch2, t, g, p2, e) = QueueOf(ch, t, g, "callback", e)
<1>1. HeadOK(ch[g + 1], "callback", b, c, e)
  BY DEF StateOK
<1>2. Live(ch[g + 1]) # <<>> /\ ~ IsMarker(Live(ch[g + 1])[1])
  BY <1>1, GroupConstants DEF HeadOK, WorkOK, IsMarker
<1>3. Joined(QueueOf(ch, t, g, "callback", e), Reading(Tail(Live(ch[g + 1])), e).queue, Rest(ch, g + 1, t))
  BY DEF QueueOf, ToRead, Joined
<1>4. /\ StateOK(n, ch2, t, g, p2, b, c2, e)
      /\ Joined(QueueOf(ch2, t, g, p2, e), Reading(Tail(Live(ch[g + 1])), e).queue, Rest(ch, g + 1, t))
  BY <1>2, FreedState
<1>. QED BY <1>3, <1>4 DEF Joined

LEMMA DoMarker ==
  ASSUME NEW n, NEW ch, NEW t, NEW g, NEW b, NEW c, NEW e, StateOK(n, ch, t, g, "clean", b, c, e),
         Live(ch[g + 1]) # <<>>, IsMarker(Live(ch[g + 1])[1]), NEW e2, e2 = Live(ch[g + 1])[1].u, NEW ch2, NEW p2,
         IF b < e2 THEN p2 = "splice" /\ ch2 = ch
                   ELSE p2 = "clean" /\ ch2 = Put(ch, g + 1, AdvancedIn(ch[g + 1]))
  PROVE  StateOK(n, ch2, t, g, p2, b, c, e2) /\ QueueOf(ch2, t, g, p2, e2) = QueueOf(ch, t, g, "clean", e)
<1>1. PICK x, s, w : HasParts(ch, t, g, "clean", b, c, e, x, s, w)
  BY QueueParts
<1>2. /\ x = ch[g + 1] /\ Fits(x) /\ HeadOK(x, "clean", b, c, e) /\ s \in Seq(Slot) /\ s = Live(x)
      /\ w = Rest(ch, g + 1, t)
      /\ QueueOf(ch, t, g, "clean", e) = Reading(s, e).queue \o w
  BY <1>1 DEF HasParts, ToRead
<1>3. Sorts(n, "clean", b, c, e) /\ ChainOK(ch, t, g) /\ b \in Epochs /\ e \in Epochs
  BY DEF StateOK, Sorts
<1>4. Live(x) # <<>> /\ IsMarker(Live(x)[1]) /\ e2 = Live(x)[1].u
  BY <1>2
<1>5. e2 \in Epochs
  BY <1>2, <1>3, <1>4, FrontMarker
<1>6. CASE b < e2
  <2>1. HeadOK(x, "splice", b, c, e2) /\ Reading(Live(x), e2) = Reading(Live(x), e)
    BY <1>2, <1>3, <1>4, <1>6, MarkerStops
  <2>2. Sorts(n, "splice", b, c, e2)
    BY <1>3, <1>5 DEF Sorts
  <2>3. StateOK(n, ch, t, g, "splice", b, c, e2)
    BY <1>2, <1>3, <2>1, <2>2 DEF StateOK
  <2>4. QueueOf(ch, t, g, "splice", e2) = Reading(s, e).queue \o w
    BY <1>2, <2>1 DEF QueueOf, ToRead
  <2>. QED BY <1>2, <1>6, <2>3, <2>4
<1>7. CASE ~ (b < e2)
  <2>1. e2 <= b
    BY <1>3, <1>5, <1>7 DEF Epochs
  <2>2. PICK y : y = AdvancedIn(x)
    OBVIOUS
  <2>3. Fits(y) /\ HeadOK(y, "clean", b, c, e2) /\ Reading(Live(y), e2) = Reading(Live(x), e)
    BY <1>2, <1>3, <1>4, <2>1, <2>2, MarkerAdvances
  <2>4. Sorts(n, "clean", b, c, e2)
    BY <1>3, <1>5 DEF Sorts
  <2>5. p2 = "clean" /\ ch2 = Put(ch, g + 1, y)
    BY <1>2, <1>7, <2>2
  <2>6. /\ StateOK(n, ch2, t, g, "clean", b, c, e2)
        /\ Joined(QueueOf(ch2, t, g, "clean", e2), Reading(ToRead(Live(y), "clean"), e2).queue, Rest(ch, g + 1, t))
    <3>1. Becomes(n, ch, g, y, "clean", b, c, e2, ch2)
      BY <2>3, <2>4, <2>5 DEF Becomes
    <3>. QED BY <3>1, HeadStep
  <2>7. QueueOf(ch2, t, g, "clean", e2) = Reading(s, e).queue \o w
    BY <1>2, <2>3, <2>6 DEF ToRead, Joined
  <2>. QED BY <1>2, <2>5, <2>6, <2>7
<1>. QED BY <1>6, <1>7
-------------------------------------------------------------------------------
(* The end of a group, and of hard_free.                                   *)

ResetIn(x) == [head |-> 0, slots |-> <<>>, epoch |-> x.epoch]

LEMMA SpareLive ==
  ASSUME NEW x, Fits(x), Spare(x)
  PROVE  Live(x) = <<>>
<1>1. IsEmpty(x)
  BY EmptySeq DEF Spare, IsEmpty
<1>. QED BY <1>1, LiveIs

LEMMA ResetIs ==
  ASSUME NEW x, Fits(x)
  PROVE  Fits(ResetIn(x)) /\ Spare(ResetIn(x))
<1>1. PICK y : y = ResetIn(x)
  OBVIOUS
<1>2. y.head = 0 /\ y.slots = <<>> /\ y.epoch = x.epoch
  BY <1>1 DEF ResetIn
<1>3. y \in Group
  BY <1>1, GroupConstants, EmptySeq DEF ResetIn, Group, Fits
<1>4. Len(<<>>) = 0 /\ Capacity \in Nat
  BY GroupConstants, EmptySeq
<1>5. Fits(y) /\ Spare(y)
  BY <1>2, <1>3, <1>4 DEF Fits, Spare
<1>. QED BY <1>1, <1>5

LEMMA EmptyParts ==
  ASSUME NEW n, NEW ch, NEW t, NEW g, NEW p, p # "callback", NEW b, NEW c, NEW e, StateOK(n, ch, t, g, p, b, c, e),
         Live(ch[g + 1]) = <<>>
  PROVE  QueueOf(ch, t, g, p, e) = Rest(ch, g + 1, t) /\ Rest(ch, g + 1, t) \in Seq(Records)
<1>1. PICK x, s, w : HasParts(ch, t, g, p, b, c, e, x, s, w)
  BY QueueParts
<1>2. /\ s = <<>> /\ w \in Seq(Records) /\ w = Rest(ch, g + 1, t)
      /\ QueueOf(ch, t, g, p, e) = Reading(s, e).queue \o w
  BY <1>1 DEF HasParts, ToRead
<1>3. Reading(s, e).queue = <<>>
  BY <1>2, ReadingEmpty DEF Start
<1>4. <<>> \o w = w
  BY <1>2, ConcatEmptySeq
<1>. QED BY <1>2, <1>3, <1>4

\* A group behind the head group becomes the head group.
LEMMA LaterIsHead ==
  ASSUME NEW x, Fits(x), Later(x), NEW b \in Epochs, NEW c, c > 0
  PROVE  HeadOK(x, "clean", b, c, 0)
<1>1. PICK s \in Seq(Slot) : s = Live(x)
  BY LiveIs
<1>2. s # <<>> /\ Used(s) /\ IsMarker(s[1]) /\ Reading(s, 0).epoch = x.epoch
  BY <1>1 DEF Later
<1>3. Used(Tail(s)) /\ PointerNext(s)
  BY <1>2, UsedTail DEF PointerNext
<1>4. 0 <= b
  BY DEF Epochs
<1>. QED BY <1>1, <1>2, <1>3, <1>4 DEF HeadOK, KnownOK, WorkOK

LEMMA DoEmptied ==
  ASSUME NEW n, NEW ch, NEW t, NEW g, NEW b, NEW c, NEW e, StateOK(n, ch, t, g, "clean", b, c, e),
         Live(ch[g + 1]) = <<>>, g + 1 # t, NEW ch2, ch2 = Put(ch, g + 1, ResetIn(ch[g + 1])), NEW g2, g2 = g + 1
  PROVE  StateOK(n, ch2, t, g2, "clean", b, c, 0) /\ QueueOf(ch2, t, g2, "clean", 0) = QueueOf(ch, t, g, "clean", e)
<1>1. Sorts(n, "clean", b, c, e) /\ ChainOK(ch, t, g) /\ HeadOK(ch[g + 1], "clean", b, c, e) /\ b \in Epochs
  BY DEF StateOK, Sorts
<1>2. /\ t \in Nat /\ g \in Nat /\ g2 \in Nat /\ g2 <= t /\ Len(ch) \in Nat /\ t <= Len(ch) /\ ch \in Seq(Group)
      /\ \A i \in 1 .. Len(ch) : PlaceOK(ch[i], i, t, g)
      /\ AllFit(ch, g2, t) /\ Fits(ch[g2])
  BY <1>1, ChainFits
<1>3. PICK k \in Nat : k = g2 + 1
  BY <1>2
<1>4. g2 < t /\ k <= t /\ k \in 1 .. Len(ch) /\ g2 \in 1 .. Len(ch) /\ k # g2
  BY <1>2, <1>3
<1>5. PICK y : y = ResetIn(ch[g2])
  OBVIOUS
<1>6. Fits(y) /\ Spare(y) /\ y \in Group
  BY <1>2, <1>5, ResetIs DEF Fits
<1>7. ch2 \in Seq(Group) /\ Len(ch2) = Len(ch) /\ ch2[g2] = y /\ \A i \in 1 .. Len(ch) : i # g2 => ch2[i] = ch[i]
  <2>1. PutIs(ch2, ch, g2, y)
    BY <1>2, <1>4, <1>5, <1>6, ExceptIs
  <2>. QED BY <2>1 DEF PutIs
<1>8. ASSUME NEW i \in 1 .. Len(ch2) PROVE PlaceOK(ch2[i], i, t, g2)
  <2>1. CASE i = g2
    BY <1>2, <1>6, <1>7, <2>1 DEF PlaceOK
  <2>2. CASE i # g2
    <3>1. ch2[i] = ch[i] /\ PlaceOK(ch[i], i, t, g)
      BY <1>2, <1>7, <2>2
    <3>2. (i <= g2 => i <= g) /\ (g2 + 1 < i => g + 1 < i)
      BY <1>2, <1>7, <2>2
    <3>. QED BY <3>1, <3>2 DEF PlaceOK
  <2>. QED BY <2>1, <2>2
<1>9. ChainOK(ch2, t, g2)
  <2>1. t \in 1 .. Len(ch2) /\ g2 \in 0 .. t - 1
    BY <1>2, <1>4, <1>7
  <2>. QED BY <1>7, <1>8, <2>1 DEF ChainOK
<1>10. ch2[k] = ch[k] /\ Fits(ch[k]) /\ Later(ch[k])
  <2>1. PlaceOK(ch[k], k, t, g) /\ g + 1 < k
    BY <1>2, <1>3, <1>4
  <2>. QED BY <1>4, <1>7, <2>1 DEF PlaceOK
<1>11. HeadOK(ch2[k], "clean", b, c, 0)
  <2>1. c > 0
    BY <1>1 DEF HeadOK, WorkOK
  <2>. QED BY <1>1, <1>10, <2>1, LaterIsHead
<1>12. Sorts(n, "clean", b, c, 0)
  BY <1>1, ZeroIsEpoch DEF Sorts
<1>13. StateOK(n, ch2, t, g2, "clean", b, c, 0)
  BY <1>3, <1>9, <1>11, <1>12 DEF StateOK
<1>14. PICK m \in Nat : t = k + m
  <2>1. t - k \in Nat /\ t = k + (t - k)
    BY <1>2, <1>4
  <2>. QED BY <2>1
<1>15. SameLive(ch2, k, t, ch, k, t, m)
  <2>1. \A i \in 1 .. m : k + i \in 1 .. Len(ch) /\ k + i # g2
    BY <1>2, <1>3, <1>14
  <2>. QED BY <1>7, <1>14, <2>1 DEF SameLive
<1>16. Rest(ch2, k, t) = Rest(ch, k, t)
  BY <1>2, <1>15, RestSame
<1>17. QueueOf(ch2, t, g2, "clean", 0) = Reading(Live(ch[k]), 0).queue \o Rest(ch, k, t)
  BY <1>3, <1>10, <1>16 DEF QueueOf, ToRead
<1>18. Joined(Rest(ch, g2, t), Reading(Live(ch[k]), 0).queue, Rest(ch, k, t))
  BY <1>2, <1>3, <1>4, RestNext
<1>19. QueueOf(ch, t, g, "clean", e) = Rest(ch, g2, t)
  BY EmptyParts
<1>. QED BY <1>13, <1>17, <1>18, <1>19 DEF Joined

LEMMA DoEmptiedTail ==
  ASSUME NEW n, NEW ch, NEW t, NEW g, NEW b, NEW c, NEW e, StateOK(n, ch, t, g, "clean", b, c, e),
         Live(ch[g + 1]) = <<>>, g + 1 = t, NEW ch2, ch2 = Put(ch, g + 1, ResetIn(ch[g + 1]))
  PROVE  /\ StateOK(n, ch2, 1, 0, "idle", 0, 0, 0)
         /\ QueueOf(ch2, 1, 0, "idle", 0) = <<>> /\ QueueOf(ch, t, g, "clean", e) = <<>>
<1>1. Sorts(n, "clean", b, c, e) /\ ChainOK(ch, t, g)
  BY DEF StateOK, Sorts
<1>2. /\ t \in Nat /\ g \in Nat /\ Len(ch) \in Nat /\ t <= Len(ch) /\ ch \in Seq(Group)
      /\ \A i \in 1 .. Len(ch) : PlaceOK(ch[i], i, t, g)
      /\ Fits(ch[t])
  BY <1>1, ChainFits
<1>3. t \in 1 .. Len(ch) /\ 1 \in 1 .. Len(ch)
  BY <1>2
<1>4. PICK y : y = ResetIn(ch[t])
  OBVIOUS
<1>5. Fits(y) /\ Spare(y) /\ y \in Group
  BY <1>2, <1>4, ResetIs DEF Fits
<1>6. ch2 \in Seq(Group) /\ Len(ch2) = Len(ch) /\ ch2[t] = y /\ \A i \in 1 .. Len(ch) : i # t => ch2[i] = ch[i]
  <2>1. PutIs(ch2, ch, t, y)
    BY <1>2, <1>3, <1>4, <1>5, ExceptIs
  <2>. QED BY <2>1 DEF PutIs
<1>7. \A i \in 1 .. Len(ch2) : Fits(ch2[i]) /\ Spare(ch2[i])
  <2>. SUFFICES ASSUME NEW i \in 1 .. Len(ch2) PROVE Fits(ch2[i]) /\ Spare(ch2[i])
    OBVIOUS
  <2>1. CASE i = t
    BY <1>5, <1>6, <2>1
  <2>2. CASE i # t
    <3>1. ch2[i] = ch[i] /\ PlaceOK(ch[i], i, t, g)
      BY <1>2, <1>6, <2>2
    <3>2. i <= g \/ t < i
      BY <1>2, <1>6, <2>2
    <3>. QED BY <3>1, <3>2 DEF PlaceOK
  <2>. QED BY <2>1, <2>2
<1>8. ChainOK(ch2, 1, 0)
  <2>1. \A i \in 1 .. Len(ch2) : ~ (0 + 1 < i /\ i <= 1)
    BY <1>2, <1>6
  <2>2. \A i \in 1 .. Len(ch2) : PlaceOK(ch2[i], i, 1, 0)
    BY <1>7, <2>1 DEF PlaceOK
  <2>. QED BY <1>3, <1>6, <2>2 DEF ChainOK
<1>9. Live(ch2[1]) = <<>>
  BY <1>3, <1>6, <1>7, SpareLive
<1>10. HeadOK(ch2[1], "idle", 0, 0, 0)
  BY <1>9 DEF HeadOK, KnownOK, WorkOK
<1>11. Sorts(n, "idle", 0, 0, 0)
  BY <1>1, ZeroIsEpoch, GroupConstants DEF Sorts
<1>12. StateOK(n, ch2, 1, 0, "idle", 0, 0, 0)
  BY <1>8, <1>10, <1>11 DEF StateOK
<1>13. \A i \in Nat : Rest(ch2, i, i) = <<>> /\ Rest(ch, i, i) = <<>>
  BY RestEmpty
<1>14. QueueOf(ch, t, g, "clean", e) = <<>>
  <2>1. QueueOf(ch, t, g, "clean", e) = Rest(ch, t, t)
    BY EmptyParts
  <2>. QED BY <1>2, <1>13, <2>1
<1>15. QueueOf(ch2, 1, 0, "idle", 0) = <<>>
  <2>1. PICK g2 \in Nat, t2 \in Nat : g2 = 0 /\ t2 = 1 /\ g2 + 1 = t2
    OBVIOUS
  <2>2. StateOK(n, ch2, t2, g2, "idle", 0, 0, 0) /\ Live(ch2[g2 + 1]) = <<>>
    BY <1>9, <1>12, <2>1
  <2>3. QueueOf(ch2, t2, g2, "idle", 0) = Rest(ch2, g2 + 1, t2)
    BY <2>2, EmptyParts
  <2>. QED BY <1>13, <2>1, <2>3
<1>. QED BY <1>12, <1>14, <1>15
\* hard_free leaves a group that is not empty at the front and links the emptied ones
\* in after group_tail_.
SplicedIn(ch, t, g) == SubSeq(ch, g + 1, t) \o SubSeq(ch, 1, g) \o SubSeq(ch, t + 1, Len(ch))
SplicedIs(ch2, ch, t, g) ==
    /\ ch2 \in Seq(Group) /\ Len(ch2) = Len(ch)
    /\ \A i \in 1 .. Len(ch) : ch2[i] = IF i <= t - g THEN ch[g + i] ELSE IF i <= t THEN ch[i - (t - g)] ELSE ch[i]

LEMMA SubSeqIs ==
  ASSUME NEW ch \in Seq(Group), NEW i \in Nat, NEW j \in Nat, NEW n \in Nat, j = i + n, j <= Len(ch), NEW k, k = i + 1
  PROVE  /\ SubSeq(ch, k, j) \in Seq(Group) /\ Len(SubSeq(ch, k, j)) = n
         /\ \A m \in 1 .. n : SubSeq(ch, k, j)[m] = ch[i + m]
<1>1. Len(ch) \in Nat /\ k \in Int /\ j \in Int
  BY LenProperties
<1>2. \A m \in k .. j : ch[m] \in Group
  <2>1. \A m \in k .. j : m \in 1 .. Len(ch)
    BY <1>1
  <2>. QED BY <2>1, ElementOfSeq
<1>3. PICK s : s = SubSeq(ch, k, j)
  OBVIOUS
<1>4. /\ s \in Seq(Group) /\ Len(s) = (IF k <= j THEN j - k + 1 ELSE 0)
      /\ \A m \in 1 .. j - k + 1 : s[m] = ch[k + m - 1]
  BY <1>1, <1>2, <1>3, SubSeqProperties
<1>5. j - k + 1 = n /\ (IF k <= j THEN j - k + 1 ELSE 0) = n /\ \A m \in 1 .. n : k + m - 1 = i + m
  OBVIOUS
<1>. QED BY <1>3, <1>4, <1>5

HasSubSeq(s, ch, i, n) == s \in Seq(Group) /\ Len(s) = n /\ \A m \in 1 .. n : s[m] = ch[i + m]

LEMMA Spliced ==
  ASSUME NEW ch \in Seq(Group), NEW t \in Nat, NEW g \in Nat, g <= t, t <= Len(ch)
  PROVE  SplicedIs(SplicedIn(ch, t, g), ch, t, g)
<1>1. PICK n \in Nat : n = Len(ch)
  BY LenProperties
<1>2. PICK m \in Nat : m = t - g /\ t = g + m
  <2>1. t - g \in Nat /\ t = g + (t - g)
    OBVIOUS
  <2>. QED BY <2>1
<1>3. PICK r \in Nat : n = t + r
  <2>1. n - t \in Nat /\ n = t + (n - t)
    BY <1>1
  <2>. QED BY <2>1
<1>4. PICK a : a = SubSeq(ch, g + 1, t)
  OBVIOUS
<1>5. a \in Seq(Group) /\ Len(a) = m /\ \A i \in 1 .. m : a[i] = ch[g + i]
  BY <1>2, <1>4, SubSeqIs
<1>6. PICK b : b = SubSeq(ch, 1, g)
  OBVIOUS
<1>7. b \in Seq(Group) /\ Len(b) = g /\ \A i \in 1 .. g : b[i] = ch[i]
  <2>1. PICK z \in Nat, k \in Nat : z = 0 /\ k = z + 1 /\ k = 1 /\ g = z + g
    OBVIOUS
  <2>2. g <= Len(ch)
    BY <1>1
  <2>3. b = SubSeq(ch, k, g)
    BY <1>6, <2>1
  <2>4. b \in Seq(Group) /\ Len(b) = g /\ \A i \in 1 .. g : b[i] = ch[z + i]
    BY <2>1, <2>2, <2>3, SubSeqIs
  <2>5. \A i \in 1 .. g : z + i = i
    BY <2>1
  <2>. QED BY <2>4, <2>5
<1>8. PICK c : c = SubSeq(ch, t + 1, n)
  OBVIOUS
<1>9. c \in Seq(Group) /\ Len(c) = r /\ \A i \in 1 .. r : c[i] = ch[t + i]
  <2>1. n <= Len(ch)
    BY <1>1
  <2>2. PICK k : k = t + 1
    OBVIOUS
  <2>3. c = SubSeq(ch, k, n)
    BY <1>8, <2>2
  <2>4. PICK j \in Nat : j = n
    OBVIOUS
  <2>5. j = t + r /\ j <= Len(ch) /\ c = SubSeq(ch, k, j)
    BY <1>3, <2>1, <2>3, <2>4
  <2>6. HasSubSeq(SubSeq(ch, k, j), ch, t, r)
    BY <2>2, <2>5, SubSeqIs DEF HasSubSeq
  <2>7. HasSubSeq(c, ch, t, r)
    BY <2>5, <2>6
  <2>. QED BY <2>7 DEF HasSubSeq
<1>10. PICK d : d = a \o b
  OBVIOUS
<1>11. d \in Seq(Group) /\ Len(d) = t /\ \A i \in 1 .. t : d[i] = IF i <= m THEN a[i] ELSE b[i - m]
  <2>1. m + g = t
    BY <1>2
  <2>. QED BY <1>5, <1>7, <1>10, <2>1, ConcatProperties
<1>12. PICK e : e = d \o c
  OBVIOUS
<1>13. e \in Seq(Group) /\ Len(e) = n /\ \A i \in 1 .. n : e[i] = IF i <= t THEN d[i] ELSE c[i - t]
  <2>1. /\ e \in Seq(Group) /\ Len(e) = Len(d) + Len(c)
        /\ \A i \in 1 .. Len(d) + Len(c) : e[i] = IF i <= Len(d) THEN d[i] ELSE c[i - Len(d)]
    BY <1>9, <1>11, <1>12, ConcatProperties
  <2>2. Len(d) = t /\ Len(d) + Len(c) = n
    BY <1>3, <1>9, <1>11
  <2>. QED BY <2>1, <2>2
<1>14. e = SplicedIn(ch, t, g)
  BY <1>1, <1>4, <1>6, <1>8, <1>10, <1>12 DEF SplicedIn
<1>15. ASSUME NEW i \in 1 .. n
       PROVE  e[i] = IF i <= t - g THEN ch[g + i] ELSE IF i <= t THEN ch[i - (t - g)] ELSE ch[i]
  <2>1. CASE i <= m
    <3>1. i \in 1 .. m /\ i <= t /\ i \in 1 .. t
      BY <1>2, <2>1
    <3>. QED BY <1>2, <1>5, <1>11, <1>13, <2>1, <3>1
  <2>2. CASE ~ (i <= m) /\ i <= t
    <3>1. i \in 1 .. t /\ i - m \in 1 .. g
      BY <1>2, <2>2
    <3>. QED BY <1>2, <1>7, <1>11, <1>13, <2>2, <3>1
  <2>3. CASE ~ (i <= m) /\ ~ (i <= t)
    <3>1. i - t \in 1 .. r /\ t + (i - t) = i
      BY <1>3, <2>3
    <3>2. e[i] = c[i - t]
      BY <1>13, <2>3
    <3>3. c[i - t] = ch[t + (i - t)]
      BY <1>9, <3>1
    <3>. QED BY <1>2, <2>3, <3>1, <3>2, <3>3
  <2>4. ~ (i <= t) => ~ (i <= m)
    BY <1>2
  <2>. QED BY <2>1, <2>2, <2>3, <2>4
<1>. QED BY <1>1, <1>13, <1>14, <1>15 DEF SplicedIs

MayFreeOf(q, b, c) == c > 0 /\ q # <<>> /\ Head(q).epoch <= b

LEMMA DoSplice ==
  ASSUME NEW n, NEW ch, NEW t, NEW g, NEW b, NEW c, NEW e, StateOK(n, ch, t, g, "splice", b, c, e),
         NEW ch2, ch2 = SplicedIn(ch, t, g), NEW t2, t2 = t - g
  PROVE  /\ StateOK(n, ch2, t2, 0, "idle", 0, 0, 0)
         /\ QueueOf(ch2, t2, 0, "idle", 0) = QueueOf(ch, t, g, "splice", e)
         /\ ~ MayFreeOf(QueueOf(ch, t, g, "splice", e), b, c)
<1>1. Sorts(n, "splice", b, c, e) /\ ChainOK(ch, t, g) /\ e \in Epochs /\ b \in Epochs
  BY DEF StateOK, Sorts
<1>2. /\ t \in Nat /\ g \in Nat /\ g + 1 \in Nat /\ g + 1 <= t /\ Len(ch) \in Nat /\ t <= Len(ch) /\ ch \in Seq(Group)
      /\ \A i \in 1 .. Len(ch) : PlaceOK(ch[i], i, t, g)
  BY <1>1, ChainFits
<1>3. PICK h \in Nat : h = g + 1
  BY <1>2
<1>4. t2 \in Nat /\ t2 >= 1 /\ t2 <= t /\ g <= t /\ t = g + t2
  BY <1>2
<1>5. /\ ch2 \in Seq(Group) /\ Len(ch2) = Len(ch)
      /\ \A i \in 1 .. Len(ch) : ch2[i] = IF i <= t2 THEN ch[g + i] ELSE IF i <= t THEN ch[i - t2] ELSE ch[i]
  <2>1. SplicedIs(ch2, ch, t, g)
    BY <1>2, <1>4, Spliced
  <2>. QED BY <2>1 DEF SplicedIs
<1>6. \A i \in 1 .. t2 : ch2[i] = ch[g + i]
  <2>1. \A i \in 1 .. t2 : i \in 1 .. Len(ch) /\ i <= t2
    BY <1>2, <1>4
  <2>. QED BY <1>5, <2>1
<1>7. ASSUME NEW i \in 1 .. Len(ch2) PROVE PlaceOK(ch2[i], i, t2, 0)
  <2>0. i \in 1 .. Len(ch) /\ i \in Nat
    BY <1>2, <1>5
  <2>1. CASE i <= t2
    <3>1. PICK j \in 1 .. Len(ch) : j = g + i
      BY <1>2, <1>4, <2>0, <2>1
    <3>2. ch2[i] = ch[j] /\ PlaceOK(ch[j], j, t, g)
      BY <1>2, <1>5, <2>0, <2>1, <3>1
    <3>3. ~ (i <= 0) /\ ~ (t2 < i) /\ (0 + 1 < i => g + 1 < j /\ j <= t)
      BY <1>2, <1>4, <2>0, <2>1, <3>1
    <3>. QED BY <3>2, <3>3 DEF PlaceOK
  <2>2. CASE ~ (i <= t2)
    <3>1. PICK j \in 1 .. Len(ch) : j = IF i <= t THEN i - t2 ELSE i
      <4>1. (IF i <= t THEN i - t2 ELSE i) \in 1 .. Len(ch)
        BY <1>2, <1>4, <2>0, <2>2
      <4>. QED BY <4>1
    <3>2. ch2[i] = ch[j] /\ PlaceOK(ch[j], j, t, g)
      BY <1>2, <1>5, <2>0, <2>2, <3>1
    <3>3. j <= g \/ t < j
      BY <1>2, <1>4, <2>0, <2>2, <3>1
    <3>. QED BY <2>2, <3>2, <3>3 DEF PlaceOK
  <2>. QED BY <2>1, <2>2
<1>8. ChainOK(ch2, t2, 0)
  <2>1. t2 \in 1 .. Len(ch2) /\ 0 \in 0 .. t2 - 1
    BY <1>2, <1>4, <1>5
  <2>. QED BY <1>5, <1>7, <2>1 DEF ChainOK
<1>9. ch2[1] = ch[h]
  <2>1. 1 \in 1 .. t2
    BY <1>4
  <2>. QED BY <1>3, <1>6, <2>1
<1>10. PICK x, s, w : HasParts(ch, t, g, "splice", b, c, e, x, s, w)
  BY QueueParts
<1>11. /\ x = ch[h] /\ Fits(x) /\ HeadOK(x, "splice", b, c, e) /\ s \in Seq(Slot) /\ s = Live(x)
       /\ w \in Seq(Records) /\ w = Rest(ch, h, t)
       /\ QueueOf(ch, t, g, "splice", e) = Reading(s, e).queue \o w
  BY <1>3, <1>10 DEF HasParts, ToRead
<1>12. KnownOK(s, x.epoch, e) /\ WorkOK(s, "splice", b, c, e)
  BY <1>11 DEF HeadOK
<1>13. s # <<>> /\ IsMarker(s[1])
  BY <1>12 DEF WorkOK
<1>14. PICK a \in Epochs : a = s[1].u /\ Reading(s, e) = Reading(Tail(s), a) /\ Reading(s, 0) = Reading(Tail(s), a)
  BY <1>1, <1>11, <1>13, ZeroIsEpoch, FrontMarker
<1>15. HeadOK(x, "idle", 0, 0, 0)
  <2>1. KnownOK(s, x.epoch, 0)
    BY <1>12, <1>14 DEF KnownOK
  <2>2. WorkOK(s, "idle", 0, 0, 0)
    BY <1>13 DEF WorkOK
  <2>. QED BY <1>11, <2>1, <2>2 DEF HeadOK
<1>16. Sorts(n, "idle", 0, 0, 0)
  BY <1>1, ZeroIsEpoch, GroupConstants DEF Sorts
<1>17. StateOK(n, ch2, t2, 0, "idle", 0, 0, 0)
  BY <1>8, <1>9, <1>11, <1>15, <1>16 DEF StateOK
<1>18. PICK k \in Nat, one \in Nat : t2 = one + k /\ one = 1 /\ t = h + k
  <2>1. t2 - 1 \in Nat /\ t2 = 1 + (t2 - 1) /\ t = h + (t2 - 1)
    BY <1>2, <1>3, <1>4
  <2>. QED BY <2>1
<1>19. SameLive(ch2, one, t2, ch, h, t, k)
  <2>1. ASSUME NEW i \in 1 .. k PROVE Live(ch2[one + i]) = Live(ch[h + i])
    <3>1. PICK j \in 1 .. t2 : j = one + i /\ g + j = h + i
      <4>1. one + i \in 1 .. t2 /\ g + (one + i) = h + i
        BY <1>2, <1>3, <1>4, <1>18
      <4>. QED BY <4>1
    <3>2. ch2[j] = ch[g + j]
      BY <1>6
    <3>. QED BY <3>1, <3>2
  <2>. QED BY <1>18, <2>1 DEF SameLive
<1>20. Rest(ch2, one, t2) = w
  <2>1. Rest(ch2, one, t2) = Rest(ch, h, t)
    BY <1>2, <1>4, <1>19, RestSame
  <2>. QED BY <1>11, <2>1
<1>21. QueueOf(ch2, t2, 0, "idle", 0) = Reading(s, e).queue \o w
  <2>1. 0 + 1 = one
    BY <1>18
  <2>2. ToRead(s, "idle") = s /\ Live(ch2[one]) = s /\ Reading(s, 0) = Reading(s, e)
    BY <1>9, <1>11, <1>14, <1>18 DEF ToRead
  <2>. QED BY <1>20, <2>1, <2>2 DEF QueueOf
<1>22. ~ MayFreeOf(QueueOf(ch, t, g, "splice", e), b, c)
  <2>1. CASE c = 0
    BY <2>1 DEF MayFreeOf
  <2>2. CASE c # 0
    <3>1. s[1].u > b /\ PointerNext(s)
      BY <1>12, <2>2 DEF WorkOK
    <3>2. PICK z \in Seq(Slot) : z = Tail(s)
      BY <1>11, <1>13, HeadTail
    <3>3. z # <<>> /\ ~ IsMarker(z[1])
      BY <3>1, <3>2 DEF PointerNext
    <3>4. PICK d : d = Record(z[1].ptr, a)
      OBVIOUS
    <3>5. Reading(z, a).queue = <<d>> \o Reading(Tail(z), a).queue /\ d \in Records
      BY <3>3, <3>4, FrontPointer
    <3>6. PICK v \in Seq(Records) : v = Reading(Tail(z), a).queue
      <4>1. Tail(z) \in Seq(Slot)
        BY <3>3, HeadTail
      <4>. QED BY <4>1, ReadingQueue
    <3>7. QueueOf(ch, t, g, "splice", e) = (<<d>> \o v) \o w
      BY <1>11, <1>14, <3>2, <3>5, <3>6
    <3>8. Drops(v \o w, d, (<<d>> \o v) \o w)
      BY <1>11, <3>5, DropsFirst
    <3>9. Head(QueueOf(ch, t, g, "splice", e)) = d
      BY <3>7, <3>8 DEF Drops
    <3>10. d.epoch = a
      BY <3>4 DEF Record
    <3>11. ~ (a <= b)
      BY <1>1, <1>14, <3>1 DEF Epochs
    <3>. QED BY <3>9, <3>10, <3>11 DEF MayFreeOf
  <2>. QED BY <2>1, <2>2
<1>. QED BY <1>11, <1>17, <1>21, <1>22
-------------------------------------------------------------------------------
(* The specification.  The chain is in a good state: the groups before the *)
(* head group and after the tail group are spare, those between start with *)
(* a marker and have a pointer after each, and the head group is at the    *)
(* point clean_until and hard_free have reached.                           *)

IInv == StateOK(now, chain, tg, gone, pc, bound, count, epoch)
Here(q) == q = QueueOf(chain, tg, gone, pc, epoch)

LEMMA QueueHere == Here(Queue)
BY QueueIs DEF Here

LEMMA QueueNext == Queue' = QueueOf(chain', tg', gone', pc', epoch')
<1>1. Here(Queue)'
  BY QueueHere, PTL
<1>. QED BY <1>1 DEF Here

LEMMA HeadIs ==
  ASSUME IInv
  PROVE  /\ chain \in Seq(Group) /\ gone + 1 \in 1 .. Len(chain) /\ tg \in 1 .. Len(chain)
         /\ Head_ = chain[gone + 1] /\ gh = gone + 1
         /\ Fits(Head_) /\ Fits(chain[tg])
         /\ IsEmpty(Head_) <=> Live(chain[gone + 1]) = <<>>
         /\ ~ IsEmpty(Head_) => First(Head_) = Live(chain[gone + 1])[1] /\ First(Head_) \in Slot
<1>1. ChainOK(chain, tg, gone)
  BY DEF IInv, StateOK
<1>2. /\ tg \in Nat /\ gone \in Nat /\ gone + 1 <= tg /\ Len(chain) \in Nat /\ tg <= Len(chain) /\ chain \in Seq(Group)
      /\ \A i \in 1 .. Len(chain) : PlaceOK(chain[i], i, tg, gone)
  BY <1>1, ChainFits
<1>3. gone + 1 \in 1 .. Len(chain) /\ tg \in 1 .. Len(chain)
  BY <1>2
<1>4. Head_ = chain[gone + 1] /\ gh = gone + 1
  BY DEF Head_, gh
<1>5. Fits(Head_) /\ Fits(chain[tg])
  BY <1>2, <1>3, <1>4 DEF PlaceOK
<1>6. PICK x : x = Head_
  OBVIOUS
<1>7. /\ IsEmpty(x) <=> Live(x) = <<>>
      /\ Live(x) # <<>> => First(x) = Live(x)[1] /\ First(x) \in Slot
  BY <1>5, <1>6, LiveIs
<1>. QED BY <1>2, <1>3, <1>4, <1>5, <1>6, <1>7

LEMMA TheSorts ==
  ASSUME IInv
  PROVE  now \in Epochs /\ bound \in Epochs /\ count \in 0 .. Budget /\ epoch \in Epochs
BY DEF IInv, StateOK, Sorts

LEMMA Starts ==
  ASSUME Init
  PROVE  IInv /\ Q!Init
<1>1. /\ now = 0 /\ chain = <<NewGroup>> /\ tg = 1 /\ gone = 0 /\ pc = "idle" /\ bound = 0 /\ count = 0 /\ epoch = 0
  BY DEF Init
<1>2. PICK ch : ch = <<NewGroup>>
  OBVIOUS
<1>3. PICK o \in Nat, z \in Nat : o = 1 /\ z = 0 /\ z + 1 = o
  OBVIOUS
<1>4. NewGroup \in Group /\ Fits(NewGroup) /\ Live(NewGroup) = <<>>
  BY NewGroupIs, SpareLive DEF Fits
<1>5. ch \in Seq(Group) /\ Len(ch) = 1 /\ ch[1] = NewGroup
  BY <1>2, <1>4
<1>6. ChainOK(ch, o, z)
  <2>1. PlaceOK(ch[1], 1, o, z)
    BY <1>3, <1>4, <1>5 DEF PlaceOK
  <2>2. \A i \in 1 .. Len(ch) : i = 1
    BY <1>5
  <2>3. o \in 1 .. Len(ch) /\ z \in 0 .. o - 1
    BY <1>3, <1>5
  <2>. QED BY <1>5, <2>1, <2>2, <2>3 DEF ChainOK
<1>7. HeadOK(ch[z + 1], "idle", 0, 0, 0)
  BY <1>3, <1>4, <1>5 DEF HeadOK, KnownOK, WorkOK
<1>8. Sorts(0, "idle", 0, 0, 0)
  BY ZeroIsEpoch, GroupConstants DEF Sorts
<1>9. StateOK(0, ch, o, z, "idle", 0, 0, 0)
  BY <1>3, <1>6, <1>7, <1>8 DEF StateOK
<1>10. QueueOf(ch, o, z, "idle", 0) = <<>>
  <2>1. QueueOf(ch, o, z, "idle", 0) = Rest(ch, z + 1, o)
    BY <1>3, <1>4, <1>5, <1>9, EmptyParts
  <2>. QED BY <1>3, <2>1, RestEmpty
<1>11. IInv
  BY <1>1, <1>2, <1>3, <1>9 DEF IInv
<1>12. Queue = <<>>
  BY <1>1, <1>2, <1>3, <1>10, QueueIs
<1>13. Pass = "idle" /\ Left = 0
  BY <1>1 DEF Pass, Left
<1>. QED BY <1>1, <1>11, <1>12, <1>13 DEF Q!Init
\* A step of the chain that leaves the hard_free that runs as it was.
SameRun == Pass' = Pass /\ bound' = bound /\ Left' = Left

LEMMA StepTick ==
  ASSUME IInv, Tick
  PROVE  IInv' /\ Q!Tick
<1>1. /\ now < MaxEpoch /\ now' = now + 1
      /\ chain' = chain /\ tg' = tg /\ gone' = gone /\ pc' = pc /\ bound' = bound /\ count' = count /\ epoch' = epoch
  BY DEF Tick
<1>2. now + 1 \in Epochs
  BY <1>1, TheSorts, GroupConstants DEF Epochs
<1>3. IInv'
  BY <1>1, <1>2 DEF IInv, StateOK, Sorts
<1>4. Queue' = Queue
  BY <1>1, QueueIs, QueueNext
<1>5. SameRun
  BY <1>1 DEF SameRun, Pass, Left
<1>. QED BY <1>1, <1>3, <1>4, <1>5 DEF SameRun, Q!Tick

LEMMA StepRecord ==
  ASSUME IInv, NEW x \in Items, RecordRcu(x)
  PROVE  IInv' /\ Q!Record(x)
<1>1. /\ pc \in {"idle", "callback"}
      /\ now' = now /\ gone' = gone /\ pc' = pc /\ bound' = bound /\ count' = count /\ epoch' = epoch
  BY DEF RecordRcu
<1>2. PICK ch2, t2 : ch2 = chain' /\ t2 = tg'
  OBVIOUS
<1>3. IF Full(chain[tg]) THEN t2 = tg + 1 /\ ch2 = Put(Refill(chain, tg), t2, Pushed(Refill(chain, tg)[t2], x, now))
                         ELSE t2 = tg /\ ch2 = Put(chain, tg, Pushed(chain[tg], x, now))
  <2>1. PICK ch1 : ch1 = Refill(chain, tg)
    OBVIOUS
  <2>2. IF Full(chain[tg]) THEN t2 = tg + 1 /\ ch2 = [ch1 EXCEPT ![tg + 1] = PushBack(@, x)]
                           ELSE t2 = tg /\ ch2 = [chain EXCEPT ![tg] = PushBack(@, x)]
    BY <1>2, <2>1 DEF RecordRcu, Refill
  <2>3. CASE Full(chain[tg])
    <3>1. PICK u : u = tg + 1
      OBVIOUS
    <3>2. ChainOK(ch1, tg, gone) /\ u \in 1 .. Len(ch1)
      BY <2>1, <3>1, Refilled DEF IInv, StateOK
    <3>3. Fits(ch1[u])
      BY <3>2 DEF ChainOK, PlaceOK
    <3>4. PushBack(ch1[u], x) = Pushed(ch1[u], x, now)
      BY <3>3, PushBackIs, TheSorts
    <3>5. ch2 = [ch1 EXCEPT ![u] = PushBack(ch1[u], x)]
      BY <2>2, <2>3, <3>1
    <3>6. ch2 = Put(ch1, u, Pushed(ch1[u], x, now))
      BY <3>4, <3>5 DEF Put
    <3>. QED BY <2>1, <2>2, <2>3, <3>1, <3>6
  <2>4. CASE ~ Full(chain[tg])
    <3>1. PushBack(chain[tg], x) = Pushed(chain[tg], x, now)
      BY HeadIs, PushBackIs, TheSorts
    <3>2. ch2 = [chain EXCEPT ![tg] = PushBack(chain[tg], x)]
      BY <2>2, <2>4
    <3>3. ch2 = Put(chain, tg, Pushed(chain[tg], x, now))
      BY <3>1, <3>2 DEF Put
    <3>. QED BY <2>2, <2>4, <3>3
  <2>. QED BY <2>3, <2>4
<1>4. /\ StateOK(now, ch2, t2, gone, pc, bound, count, epoch)
      /\ OneMore(QueueOf(ch2, t2, gone, pc, epoch), QueueOf(chain, tg, gone, pc, epoch), Record(x, now))
  BY <1>1, <1>3, DoRecord DEF IInv
<1>5. IInv'
  BY <1>1, <1>2, <1>4 DEF IInv
<1>6. OneMore(Queue', Queue, Record(x, now))
  BY <1>1, <1>2, <1>4, QueueIs, QueueNext
<1>7. SameRun
  BY <1>1 DEF SameRun, Pass, Left
<1>8. Pass \in {"idle", "callback"}
  BY <1>1 DEF Pass
<1>. QED BY <1>1, <1>5, <1>6, <1>7, <1>8 DEF SameRun, OneMore, Record, Q!Record

LEMMA StepBegin ==
  ASSUME IInv, NEW b \in 0 .. MaxEpoch, HardFree(b)
  PROVE  IInv' /\ Q!Begin(b)
<1>1. /\ pc = "idle" /\ ~ IsEmpty(Head_) /\ First(Head_).u <= b
      /\ pc' = "clean" /\ bound' = b /\ count' = Budget /\ epoch' = 0
      /\ now' = now /\ chain' = chain /\ tg' = tg /\ gone' = gone
  BY DEF HardFree
<1>2. Live(chain[gone + 1]) # <<>> /\ Live(chain[gone + 1])[1].u <= b
  BY <1>1, HeadIs
<1>3. StateOK(now, chain, tg, gone, "idle", bound, count, epoch) /\ b \in Epochs
  BY <1>1 DEF IInv, Epochs
<1>4. /\ StateOK(now, chain, tg, gone, "clean", b, Budget, 0)
      /\ QueueOf(chain, tg, gone, "clean", 0) = QueueOf(chain, tg, gone, "idle", epoch)
  BY <1>2, <1>3, DoBegin
<1>5. IInv'
  BY <1>1, <1>4 DEF IInv
<1>6. Queue' = Queue
  BY <1>1, <1>4, QueueIs, QueueNext
<1>7. Pass = "idle" /\ Pass' = "free" /\ Left' = Budget
  BY <1>1 DEF Pass, Left
<1>. QED BY <1>1, <1>5, <1>6, <1>7 DEF Q!Begin

LEMMA FreedIs ==
  ASSUME IInv, Freed, gone' = gone
  PROVE  FreedTo(chain, gone, count, epoch, chain', pc', count') /\ pc' \in {"splice", "clean"}
<1>1. PICK ch, i, x : ch = chain /\ i = gone + 1 /\ x = chain[gone + 1]
  OBVIOUS
<1>2. ch \in Seq(Group) /\ i \in 1 .. Len(ch) /\ Fits(x) /\ Head_ = x /\ gh = i /\ x = ch[i]
  BY <1>1, HeadIs
<1>3. x = [head |-> x.head, slots |-> x.slots, epoch |-> x.epoch]
  <2>1. x \in [head : 0 .. Capacity, slots : Seq(Slot), epoch : 0 .. MaxEpoch]
    BY <1>2 DEF Fits, Group
  <2>. QED BY <2>1
<1>4. CASE count = 1
  <2>1. count' = count - 1 /\ pc' = "splice" /\ chain' = [ch EXCEPT ![i].slots[x.head + 1] = Marker(epoch)]
    BY <1>1, <1>2, <1>4 DEF Freed
  <2>2. PICK m : m = [x.slots EXCEPT ![x.head + 1] = Marker(epoch)]
    OBVIOUS
  <2>3. chain' = [ch EXCEPT ![i] = [x EXCEPT !.slots = m]]
    BY <1>2, <2>1, <2>2
  <2>4. [x EXCEPT !.slots = m] = MarkedIn(x, epoch)
    BY <1>3, <2>2 DEF MarkedIn
  <2>5. chain' = Put(ch, i, MarkedIn(x, epoch))
    BY <2>3, <2>4 DEF Put
  <2>. QED BY <1>1, <1>4, <2>1, <2>5 DEF FreedTo
<1>5. CASE count # 1
  <2>1. count' = count - 1 /\ pc' = "clean" /\ chain' = [ch EXCEPT ![i].head = @ + 1]
    BY <1>1, <1>2, <1>5 DEF Freed, Advance
  <2>2. chain' = [ch EXCEPT ![i] = [x EXCEPT !.head = x.head + 1]]
    BY <1>2, <2>1
  <2>3. [x EXCEPT !.head = x.head + 1] = AdvancedIn(x)
    BY <1>3 DEF AdvancedIn
  <2>4. chain' = Put(ch, i, AdvancedIn(x))
    BY <2>2, <2>3 DEF Put
  <2>. QED BY <1>1, <1>5, <2>1, <2>4 DEF FreedTo
<1>. QED BY <1>4, <1>5
\* The front of a queue that a hard_free may take.
Takes(d) == Pass = "free" /\ Q!MayFree /\ Drops(Queue', d, Queue) /\ Left' = Left - 1 /\ bound' = bound /\ now' = now

LEMMA TakesIs ==
  ASSUME pc = "clean", NEW d, d.epoch = epoch, Drops(Queue', d, Queue), count > 0, epoch <= bound,
         Left' = count - 1, bound' = bound, now' = now
  PROVE  Takes(d)
<1>1. Pass = "free" /\ Left = count
  BY DEF Pass, Left
<1>2. Q!MayFree
  BY <1>1 DEF Q!MayFree, Drops
<1>. QED BY <1>1, <1>2 DEF Takes

LEMMA StepFree ==
  ASSUME IInv, FreeElement
  PROVE  IInv' /\ \E x \in Items : Q!Free(x)
<1>1. /\ pc = "clean" /\ ~ IsEmpty(Head_) /\ First(Head_).ptr \in Items \ Callbacks /\ Freed
      /\ now' = now /\ tg' = tg /\ gone' = gone /\ bound' = bound /\ epoch' = epoch
  BY DEF FreeElement
<1>2. PICK f : f = First(Head_)
  OBVIOUS
<1>3. Live(chain[gone + 1]) # <<>> /\ Live(chain[gone + 1])[1] = f /\ ~ IsMarker(f) /\ f.ptr \in Items \ Callbacks
  BY <1>1, <1>2, HeadIs, GroupConstants DEF IsMarker
<1>4. FreedTo(chain, gone, count, epoch, chain', pc', count') /\ pc' \in {"splice", "clean"}
  BY <1>1, FreedIs
<1>5. StateOK(now, chain, tg, gone, "clean", bound, count, epoch)
  BY <1>1 DEF IInv
<1>6. /\ StateOK(now, chain', tg, gone, pc', bound, count', epoch)
      /\ Drops(QueueOf(chain', tg, gone, pc', epoch), Record(f.ptr, epoch), QueueOf(chain, tg, gone, "clean", epoch))
      /\ count > 0 /\ epoch <= bound
  BY <1>3, <1>4, <1>5, DoFree
<1>7. IInv'
  BY <1>1, <1>6 DEF IInv
<1>8. PICK d : d = Record(f.ptr, epoch)
  OBVIOUS
<1>9. Drops(Queue', d, Queue)
  BY <1>1, <1>6, <1>8, QueueIs, QueueNext
<1>10. count' = count - 1
  BY <1>4 DEF FreedTo
<1>11. Left' = count - 1 /\ Pass' = "free"
  BY <1>4, <1>10 DEF Left, Pass
<1>12. d.epoch = epoch /\ d.item = f.ptr
  BY <1>8 DEF Record
<1>13. Takes(d)
  BY <1>1, <1>6, <1>9, <1>11, <1>12, TakesIs
<1>14. Q!Free(f.ptr)
  BY <1>3, <1>11, <1>12, <1>13 DEF Takes, Drops, Q!Free
<1>. QED BY <1>3, <1>7, <1>14

LEMMA StepCall ==
  ASSUME IInv, CallCallback
  PROVE  IInv' /\ \E x \in Items : Q!Free(x)
<1>1. /\ pc = "clean" /\ ~ IsEmpty(Head_) /\ First(Head_).ptr \in Callbacks /\ pc' = "callback"
      /\ now' = now /\ chain' = chain /\ tg' = tg /\ gone' = gone /\ bound' = bound /\ count' = count /\ epoch' = epoch
  BY DEF CallCallback
<1>2. PICK f : f = First(Head_)
  OBVIOUS
<1>3. Live(chain[gone + 1]) # <<>> /\ Live(chain[gone + 1])[1] = f /\ f.ptr \in Callbacks /\ f.ptr \in Items
  BY <1>1, <1>2, HeadIs, GroupConstants
<1>4. StateOK(now, chain, tg, gone, "clean", bound, count, epoch)
  BY <1>1 DEF IInv
<1>5. /\ StateOK(now, chain, tg, gone, "callback", bound, count, epoch)
      /\ Drops(QueueOf(chain, tg, gone, "callback", epoch), Record(f.ptr, epoch), QueueOf(chain, tg, gone, "clean", epoch))
      /\ count > 0 /\ epoch <= bound
  BY <1>3, <1>4, DoCall
<1>6. IInv'
  BY <1>1, <1>5 DEF IInv
<1>7. PICK d : d = Record(f.ptr, epoch)
  OBVIOUS
<1>8. Drops(Queue', d, Queue)
  BY <1>1, <1>5, <1>7, QueueIs, QueueNext
<1>9. Left' = count - 1 /\ Pass' = "callback"
  BY <1>1 DEF Left, Pass
<1>10. d.epoch = epoch /\ d.item = f.ptr
  BY <1>7 DEF Record
<1>11. Takes(d)
  BY <1>1, <1>5, <1>8, <1>9, <1>10, TakesIs
<1>12. Q!Free(f.ptr)
  BY <1>3, <1>9, <1>10, <1>11 DEF Takes, Drops, Q!Free
<1>. QED BY <1>3, <1>6, <1>12

LEMMA StepReturn ==
  ASSUME IInv, CallbackReturns
  PROVE  IInv' /\ Q!Return
<1>1. /\ pc = "callback" /\ Freed
      /\ now' = now /\ tg' = tg /\ gone' = gone /\ bound' = bound /\ epoch' = epoch
  BY DEF CallbackReturns
<1>2. FreedTo(chain, gone, count, epoch, chain', pc', count') /\ pc' \in {"splice", "clean"}
  BY <1>1, FreedIs
<1>3. StateOK(now, chain, tg, gone, "callback", bound, count, epoch)
  BY <1>1 DEF IInv
<1>4. /\ StateOK(now, chain', tg, gone, pc', bound, count', epoch)
      /\ QueueOf(chain', tg, gone, pc', epoch) = QueueOf(chain, tg, gone, "callback", epoch)
  BY <1>2, <1>3, DoReturn
<1>5. IInv'
  BY <1>1, <1>4 DEF IInv
<1>6. Queue' = Queue
  BY <1>1, <1>4, QueueIs, QueueNext
<1>7. count' = count - 1
  BY <1>2 DEF FreedTo
<1>8. Pass = "callback" /\ Pass' = "free" /\ Left' = Left
  BY <1>1, <1>2, <1>7 DEF Pass, Left
<1>. QED BY <1>1, <1>5, <1>6, <1>8 DEF Q!Return

Stutters == UNCHANGED <<Queue, now, Pass, bound, Left>>

LEMMA AdvanceIs ==
  ASSUME IInv, Advance
  PROVE  chain' = Put(chain, gone + 1, AdvancedIn(chain[gone + 1]))
<1>1. PICK ch, i, x : ch = chain /\ i = gone + 1 /\ x = chain[gone + 1]
  OBVIOUS
<1>2. ch \in Seq(Group) /\ i \in 1 .. Len(ch) /\ Fits(x) /\ gh = i /\ x = ch[i]
  BY <1>1, HeadIs
<1>3. x = [head |-> x.head, slots |-> x.slots, epoch |-> x.epoch]
  <2>1. x \in [head : 0 .. Capacity, slots : Seq(Slot), epoch : 0 .. MaxEpoch]
    BY <1>2 DEF Fits, Group
  <2>. QED BY <2>1
<1>4. chain' = [ch EXCEPT ![i].head = @ + 1]
  BY <1>1, <1>2 DEF Advance
<1>5. chain' = [ch EXCEPT ![i] = [x EXCEPT !.head = x.head + 1]]
  BY <1>2, <1>4
<1>6. [x EXCEPT !.head = x.head + 1] = AdvancedIn(x)
  BY <1>3 DEF AdvancedIn
<1>7. chain' = Put(ch, i, AdvancedIn(x))
  BY <1>5, <1>6 DEF Put
<1>. QED BY <1>1, <1>7

LEMMA StepMarker ==
  ASSUME IInv, ReadMarker
  PROVE  IInv' /\ Stutters
<1>1. /\ pc = "clean" /\ ~ IsEmpty(Head_) /\ First(Head_).ptr = NoPtr /\ epoch' = First(Head_).u
      /\ IF bound < First(Head_).u THEN pc' = "splice" /\ chain' = chain ELSE pc' = "clean" /\ Advance
      /\ now' = now /\ tg' = tg /\ gone' = gone /\ bound' = bound /\ count' = count
  BY DEF ReadMarker
<1>2. Live(chain[gone + 1]) # <<>> /\ Live(chain[gone + 1])[1] = First(Head_) /\ IsMarker(Live(chain[gone + 1])[1])
  BY <1>1, HeadIs DEF IsMarker
<1>3. PICK e2 : e2 = Live(chain[gone + 1])[1].u
  OBVIOUS
<1>4. epoch' = e2
  BY <1>1, <1>2, <1>3
<1>5. IF bound < e2 THEN pc' = "splice" /\ chain' = chain
                   ELSE pc' = "clean" /\ chain' = Put(chain, gone + 1, AdvancedIn(chain[gone + 1]))
  BY <1>1, <1>2, <1>3, AdvanceIs
<1>6. StateOK(now, chain, tg, gone, "clean", bound, count, epoch)
  BY <1>1 DEF IInv
<1>7. /\ StateOK(now, chain', tg, gone, pc', bound, count, e2)
      /\ QueueOf(chain', tg, gone, pc', e2) = QueueOf(chain, tg, gone, "clean", epoch)
  BY <1>2, <1>3, <1>5, <1>6, DoMarker
<1>8. IInv'
  BY <1>1, <1>4, <1>7 DEF IInv
<1>9. Queue' = Queue
  BY <1>1, <1>4, <1>7, QueueIs, QueueNext
<1>10. Pass' = Pass /\ Left' = Left
  BY <1>1, <1>5 DEF Pass, Left
<1>. QED BY <1>1, <1>8, <1>9, <1>10 DEF Stutters

LEMMA StepEmptied ==
  ASSUME IInv, GroupEmptied
  PROVE  IInv' /\ (Q!End \/ Stutters)
<1>1. /\ pc = "clean" /\ IsEmpty(Head_) /\ chain' = [chain EXCEPT ![gh] = Reset(@)] /\ now' = now
  BY DEF GroupEmptied
<1>2. PICK ch, i, x : ch = chain /\ i = gone + 1 /\ x = chain[gone + 1]
  OBVIOUS
<1>3. ch \in Seq(Group) /\ i \in 1 .. Len(ch) /\ Fits(x) /\ gh = i /\ x = ch[i] /\ Live(x) = <<>>
  BY <1>1, <1>2, HeadIs
<1>4. PICK ch2 : ch2 = chain'
  OBVIOUS
<1>5. ch2 = Put(ch, gone + 1, ResetIn(ch[gone + 1]))
  <2>1. x \in [head : 0 .. Capacity, slots : Seq(Slot), epoch : 0 .. MaxEpoch]
    BY <1>3 DEF Fits, Group
  <2>2. Reset(x) = ResetIn(x)
    <3>1. x = [head |-> x.head, slots |-> x.slots, epoch |-> x.epoch]
      BY <2>1
    <3>2. Reset(x) = [[x EXCEPT !.head = 0] EXCEPT !.slots = <<>>]
      BY <3>1 DEF Reset
    <3>3. PICK y : y = [x EXCEPT !.head = 0]
      OBVIOUS
    <3>4. y = [head |-> 0, slots |-> x.slots, epoch |-> x.epoch]
      BY <3>1, <3>3
    <3>5. PICK e : e = <<>>
      OBVIOUS
    <3>6. [y EXCEPT !.slots = e] = [head |-> 0, slots |-> e, epoch |-> x.epoch]
      BY <3>4
    <3>. QED BY <3>2, <3>3, <3>5, <3>6 DEF ResetIn
  <2>3. ch2 = [ch EXCEPT ![i] = Reset(x)]
    BY <1>1, <1>2, <1>3, <1>4
  <2>. QED BY <1>2, <2>2, <2>3 DEF Put
<1>6. StateOK(now, ch, tg, gone, "clean", bound, count, epoch) /\ Live(ch[gone + 1]) = <<>>
  BY <1>1, <1>2, <1>3 DEF IInv
<1>7. Queue = QueueOf(ch, tg, gone, "clean", epoch)
  BY <1>1, <1>2, QueueIs
<1>8. CASE gone + 1 = tg
  <2>1. tg' = 1 /\ gone' = 0 /\ pc' = "idle" /\ bound' = 0 /\ count' = 0 /\ epoch' = 0
    BY <1>3, <1>8, <1>2 DEF GroupEmptied, Return
  <2>2. /\ StateOK(now, ch2, 1, 0, "idle", 0, 0, 0)
        /\ QueueOf(ch2, 1, 0, "idle", 0) = <<>> /\ QueueOf(ch, tg, gone, "clean", epoch) = <<>>
    BY <1>5, <1>6, <1>8, DoEmptiedTail
  <2>3. IInv'
    BY <1>1, <1>4, <2>1, <2>2 DEF IInv
  <2>4. Queue = <<>> /\ Queue' = <<>>
    BY <1>4, <1>7, <2>1, <2>2, QueueNext
  <2>5. Pass = "free" /\ Pass' = "idle" /\ Left' = 0
    BY <1>1, <2>1 DEF Pass, Left
  <2>6. ~ Q!MayFree
    BY <2>4 DEF Q!MayFree
  <2>7. Q!End
    BY <1>1, <2>1, <2>4, <2>5, <2>6 DEF Q!End
  <2>. QED BY <2>3, <2>7
<1>9. CASE gone + 1 # tg
  <2>1. gone' = gone + 1 /\ epoch' = 0 /\ tg' = tg /\ pc' = pc /\ bound' = bound /\ count' = count
    BY <1>3, <1>9, <1>2 DEF GroupEmptied
  <2>2. PICK g2 : g2 = gone + 1
    OBVIOUS
  <2>3. StateOK(now, ch2, tg, g2, "clean", bound, count, 0) /\ QueueOf(ch2, tg, g2, "clean", 0) = QueueOf(ch, tg, gone, "clean", epoch)
    BY <1>5, <1>6, <1>9, <2>2, DoEmptied
  <2>4. IInv'
    BY <1>1, <1>4, <2>1, <2>2, <2>3 DEF IInv
  <2>5. Queue' = Queue
    BY <1>1, <1>4, <1>7, <2>1, <2>2, <2>3, QueueNext
  <2>6. Pass' = Pass /\ Left' = Left
    BY <2>1 DEF Pass, Left
  <2>. QED BY <1>1, <2>1, <2>4, <2>5, <2>6 DEF Stutters
<1>. QED BY <1>8, <1>9

LEMMA StepSplice ==
  ASSUME IInv, Splice
  PROVE  IInv' /\ Q!End
<1>1. /\ pc = "splice" /\ tg' = tg - gone /\ gone' = 0 /\ now' = now
      /\ pc' = "idle" /\ bound' = 0 /\ count' = 0 /\ epoch' = 0
  BY DEF Splice, Return
<1>2. chain' = SplicedIn(chain, tg, gone)
  BY DEF Splice, SplicedIn, gh
<1>3. PICK ch2, t2 : ch2 = chain' /\ t2 = tg - gone
  OBVIOUS
<1>4. StateOK(now, chain, tg, gone, "splice", bound, count, epoch)
  BY <1>1 DEF IInv
<1>5. /\ StateOK(now, ch2, t2, 0, "idle", 0, 0, 0)
      /\ QueueOf(ch2, t2, 0, "idle", 0) = QueueOf(chain, tg, gone, "splice", epoch)
      /\ ~ MayFreeOf(QueueOf(chain, tg, gone, "splice", epoch), bound, count)
  BY <1>2, <1>3, <1>4, DoSplice
<1>6. IInv'
  BY <1>1, <1>3, <1>5 DEF IInv
<1>7. Queue' = Queue /\ ~ MayFreeOf(Queue, bound, count)
  BY <1>1, <1>3, <1>5, QueueIs, QueueNext
<1>8. Pass = "free" /\ Pass' = "idle" /\ Left = count /\ Left' = 0
  BY <1>1 DEF Pass, Left
<1>9. ~ Q!MayFree
  BY <1>7, <1>8 DEF MayFreeOf, Q!MayFree
<1>. QED BY <1>1, <1>6, <1>7, <1>8, <1>9 DEF Q!End

LEMMA StepStutter ==
  ASSUME IInv, UNCHANGED vars
  PROVE  IInv' /\ Stutters
<1>1. /\ now' = now /\ chain' = chain /\ tg' = tg /\ gone' = gone /\ pc' = pc /\ bound' = bound /\ count' = count
      /\ epoch' = epoch
  BY DEF vars
<1>2. IInv'
  BY <1>1 DEF IInv
<1>3. Queue' = Queue
  BY <1>1, QueueIs, QueueNext
<1>4. Pass' = Pass /\ Left' = Left
  BY <1>1 DEF Pass, Left
<1>. QED BY <1>1, <1>2, <1>3, <1>4 DEF Stutters

LEMMA EveryStep ==
  ASSUME IInv, [Next]_vars
  PROVE  IInv' /\ [Q!Next]_Q!vars
<1>1. CASE Tick
  BY <1>1, StepTick DEF Q!Next
<1>2. CASE \E x \in Items : RecordRcu(x)
  BY <1>2, StepRecord DEF Q!Next
<1>3. CASE \E b \in 0 .. MaxEpoch : HardFree(b)
  BY <1>3, StepBegin DEF Q!Next
<1>4. CASE FreeElement
  BY <1>4, StepFree DEF Q!Next
<1>5. CASE CallCallback
  BY <1>5, StepCall DEF Q!Next
<1>6. CASE CallbackReturns
  BY <1>6, StepReturn DEF Q!Next
<1>7. CASE ReadMarker
  BY <1>7, StepMarker DEF Stutters, Q!vars
<1>8. CASE GroupEmptied
  BY <1>8, StepEmptied DEF Stutters, Q!vars, Q!Next
<1>9. CASE Splice
  BY <1>9, StepSplice DEF Q!Next
<1>10. CASE UNCHANGED vars
  BY <1>10, StepStutter DEF Stutters, Q!vars
<1>. QED BY <1>1, <1>2, <1>3, <1>4, <1>5, <1>6, <1>7, <1>8, <1>9, <1>10 DEF Next

\* Every group stays within its capacity and every slot is a pointer or a marker,
\* whatever the callbacks of a hard_free record (limbo.hh LimboGroup, limbo.cc).
THEOREM TypeCorrect == Spec => []TypeOK
<1>1. Init => IInv
  BY Starts
<1>2. IInv /\ [Next]_vars => IInv'
  BY EveryStep
<1>3. IInv => TypeOK
  <2>. SUFFICES ASSUME IInv PROVE TypeOK
    OBVIOUS
  <2>1. Sorts(now, pc, bound, count, epoch) /\ ChainOK(chain, tg, gone)
    BY DEF IInv, StateOK
  <2>2. ASSUME NEW i \in 1 .. Len(chain)
        PROVE  chain[i].head <= Len(chain[i].slots) /\ Len(chain[i].slots) <= Capacity
    BY <2>1 DEF ChainOK, PlaceOK, Fits
  <2>. QED BY <2>1, <2>2 DEF TypeOK, Sorts, ChainOK, Epochs
<1>. QED BY <1>1, <1>2, <1>3, PTL DEF Spec

\* The chain of groups, with its markers, the groups kept for reuse and the ones
\* linked in again behind the tail, is a first-in first-out queue of records with
\* the epochs they were recorded in; hard_free takes from its front what its bound
\* and its count allow, and no less (record_rcu, clean_until, hard_free).
THEOREM ChainIsAQueue == Spec => IsRecordQueue
<1>1. Init => IInv /\ Q!Init
  BY Starts
<1>2. IInv /\ [Next]_vars => IInv' /\ [Q!Next]_Q!vars
  BY EveryStep
<1>. QED BY <1>1, <1>2, PTL DEF Spec, IsRecordQueue, Q!Spec
===============================================================================
