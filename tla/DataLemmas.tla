----------------------------- MODULE DataLemmas -----------------------------
(***************************************************************************)
(* Facts about numbers and sequences the proofs share.  The first two are  *)
(* induction over the natural numbers for sets: the provers cannot         *)
(* instantiate an induction theorem whose parameter is a predicate, but a  *)
(* set of numbers is a value like any other.                               *)
(***************************************************************************)
EXTENDS SequencesExt, Integers, TLAPS, SequenceTheorems, FiniteSetTheorems, WellFoundedInduction

\* A set of natural numbers that is not empty has a least element.
LEMMA NatLeast ==
  ASSUME NEW T, T \subseteq Nat, T # {}
  PROVE  \E x \in T : \A y \in T : x <= y
<1>1. PICK R : R = OpToRel(<, Nat)
  OBVIOUS
<1>2. IsWellFoundedOn(R, Nat)
  BY <1>1, NatLessThanWellFounded
<1>3. \A x, y \in Nat : <<x, y>> \in R <=> x < y
  BY <1>1 DEF OpToRel
<1>4. PICK x \in T : \A y \in T : ~ (<<y, x>> \in R)
  BY <1>2, WFMin
<1>5. ASSUME NEW y \in T PROVE x <= y
  <2>1. x \in Nat /\ y \in Nat
    OBVIOUS
  <2>2. ~ (y < x)
    BY <1>3, <1>4, <2>1
  <2>. QED BY <2>1, <2>2
<1>. QED BY <1>5

\* A set that contains 0, and with a number its successor, contains them all.
LEMMA NatAll ==
  ASSUME NEW T, 0 \in T, \A n \in Nat : n \in T => n + 1 \in T
  PROVE  Nat \subseteq T
<1>. SUFFICES ASSUME Nat \ T # {} PROVE FALSE
  OBVIOUS
<1>1. PICK x \in Nat \ T : \A y \in Nat \ T : x <= y
  BY NatLeast
<1>2. x - 1 \in Nat /\ x - 1 + 1 = x
  BY <1>1
<1>. QED BY <1>1, <1>2
-------------------------------------------------------------------------------
\* The elements of a sequence.
LEMMA ToSetIs ==
  ASSUME NEW S, NEW s \in Seq(S)
  PROVE  /\ \A x : x \in ToSet(s) <=> \E i \in 1 .. Len(s) : s[i] = x
         /\ ToSet(s) \subseteq S
BY LenProperties DEF ToSet

\* Each of them once.
LEMMA InjectiveIs ==
  ASSUME NEW S, NEW s \in Seq(S)
  PROVE  IsInjective(s) <=> \A i, j \in 1 .. Len(s) : s[i] = s[j] => i = j
BY LenProperties DEF IsInjective

\* An element in front of a sequence.
LEMMA ConsProperties ==
  ASSUME NEW S, NEW x \in S, NEW s \in Seq(S)
  PROVE  LET c == <<x>> \o s
         IN  /\ c \in Seq(S) /\ Len(c) = Len(s) + 1 /\ Len(s) \in Nat /\ c # <<>>
             /\ c[1] = x /\ \A i \in 1 .. Len(s) : c[i + 1] = s[i]
             /\ ToSet(c) = {x} \cup ToSet(s)
             /\ IsInjective(s) /\ x \notin ToSet(s) => IsInjective(c)
<1>. DEFINE c == <<x>> \o s
<1>1. <<x>> \in Seq(S) /\ Len(<<x>>) = 1 /\ <<x>>[1] = x /\ Len(s) \in Nat
  OBVIOUS
<1>2. c \in Seq(S) /\ Len(c) = 1 + Len(s)
      /\ \A i \in 1 .. 1 + Len(s) : c[i] = IF i <= 1 THEN <<x>>[i] ELSE s[i - 1]
  BY <1>1, ConcatProperties
<1>3. c[1] = x /\ \A i \in 1 .. Len(s) : c[i + 1] = s[i]
  BY <1>1, <1>2
<1>. HIDE DEF c
<1>4. ToSet(c) = {x} \cup ToSet(s)
  <2>1. ASSUME NEW y \in ToSet(c) PROVE y \in {x} \cup ToSet(s)
    <3>1. PICK i \in 1 .. Len(s) + 1 : c[i] = y
      BY <1>1, <1>2, ToSetIs
    <3>2. i # 1 => i - 1 \in 1 .. Len(s) /\ c[i] = s[i - 1]
      BY <1>1, <1>2, <3>1
    <3>. QED BY <1>3, <3>1, <3>2, ToSetIs
  <2>2. x \in ToSet(c)
    BY <1>1, <1>2, <1>3, ToSetIs
  <2>3. ASSUME NEW y \in ToSet(s) PROVE y \in ToSet(c)
    <3>1. PICK i \in 1 .. Len(s) : s[i] = y
      BY ToSetIs
    <3>2. i + 1 \in 1 .. Len(c) /\ c[i + 1] = y
      BY <1>1, <1>2, <1>3, <3>1
    <3>. QED BY <1>2, <3>2, ToSetIs
  <2>. QED BY <2>1, <2>2, <2>3
<1>5. ASSUME IsInjective(s), x \notin ToSet(s) PROVE IsInjective(c)
  <2>1. \A i \in 1 .. Len(s) : s[i] # x
    BY <1>5, ToSetIs
  <2>2. \A i \in 1 .. Len(c) : i = 1 \/ (i - 1 \in 1 .. Len(s) /\ c[i] = s[i - 1])
    BY <1>1, <1>2
  <2>. SUFFICES ASSUME NEW i \in 1 .. Len(c), NEW j \in 1 .. Len(c), c[i] = c[j] PROVE i = j
    BY DEF IsInjective
  <2>3. CASE i = 1
    BY <1>3, <2>1, <2>2, <2>3
  <2>4. CASE j = 1
    BY <1>3, <2>1, <2>2, <2>4
  <2>5. CASE i # 1 /\ j # 1
    <3>1. i - 1 \in 1 .. Len(s) /\ j - 1 \in 1 .. Len(s) /\ s[i - 1] = s[j - 1]
      BY <2>2, <2>5
    <3>2. i - 1 = j - 1
      BY <1>5, <3>1 DEF IsInjective
    <3>. QED BY <1>1, <1>2, <3>2
  <2>. QED BY <2>3, <2>4, <2>5
<1>6. c # <<>>
  BY <1>1, <1>2
<1>. QED BY <1>1, <1>2, <1>3, <1>4, <1>5, <1>6 DEF c

\* One element taken out of a sequence.
LEMMA RemoveProperties ==
  ASSUME NEW S, NEW s \in Seq(S), NEW p \in 1 .. Len(s)
  PROVE  LET r == RemoveAt(s, p)
         IN  /\ r \in Seq(S) /\ ToSet(r) \subseteq ToSet(s)
             /\ IsInjective(s) => IsInjective(r) /\ ToSet(r) = ToSet(s) \ {s[p]}
<1>. DEFINE a == SubSeq(s, 1, p - 1)
            b == SubSeq(s, p + 1, Len(s))
            r == a \o b
<1>1. Len(s) \in Nat /\ \A i \in 1 .. Len(s) : s[i] \in S
  BY LenProperties
<1>2. a \in Seq(S) /\ Len(a) = p - 1 /\ \A i \in 1 .. p - 1 : a[i] = s[i]
  <2>1. p - 1 \in Int /\ 1 \in Int /\ \A i \in 1 .. p - 1 : s[i] \in S
    BY <1>1
  <2>2. /\ a \in Seq(S) /\ Len(a) = IF 1 <= p - 1 THEN p - 1 - 1 + 1 ELSE 0
        /\ \A i \in 1 .. p - 1 - 1 + 1 : a[i] = s[1 + i - 1]
    BY <2>1, SubSeqProperties
  <2>. HIDE DEF a
  <2>. QED BY <1>1, <2>2
<1>3. b \in Seq(S) /\ Len(b) = Len(s) - p /\ \A i \in 1 .. Len(s) - p : b[i] = s[p + i]
  <2>1. p + 1 \in Int /\ Len(s) \in Int /\ \A i \in p + 1 .. Len(s) : s[i] \in S
    BY <1>1
  <2>2. /\ b \in Seq(S) /\ Len(b) = IF p + 1 <= Len(s) THEN Len(s) - (p + 1) + 1 ELSE 0
        /\ \A i \in 1 .. Len(s) - (p + 1) + 1 : b[i] = s[p + 1 + i - 1]
    BY <2>1, SubSeqProperties
  <2>. HIDE DEF b
  <2>. QED BY <1>1, <2>2
<1>. HIDE DEF a, b
<1>4. /\ r \in Seq(S) /\ Len(r) = Len(s) - 1
      /\ \A i \in 1 .. Len(s) - 1 : r[i] = IF i < p THEN s[i] ELSE s[i + 1]
  <2>1. /\ r \in Seq(S) /\ Len(r) = Len(a) + Len(b)
        /\ \A i \in 1 .. Len(a) + Len(b) : r[i] = IF i <= Len(a) THEN a[i] ELSE b[i - Len(a)]
    BY <1>2, <1>3, ConcatProperties
  <2>. HIDE DEF r
  <2>2. ASSUME NEW i \in 1 .. Len(s) - 1 PROVE r[i] = IF i < p THEN s[i] ELSE s[i + 1]
    <3>1. r[i] = IF i <= p - 1 THEN a[i] ELSE b[i - (p - 1)]
      BY <1>1, <1>2, <1>3, <2>1
    <3>2. CASE i < p
      BY <1>1, <1>2, <3>1, <3>2
    <3>3. CASE ~ (i < p)
      <4>1. i - (p - 1) \in 1 .. Len(s) - p /\ p + (i - (p - 1)) = i + 1
        BY <1>1, <3>3
      <4>. QED BY <1>1, <1>3, <3>1, <3>3, <4>1
    <3>. QED BY <3>2, <3>3
  <2>. QED BY <1>1, <1>2, <1>3, <2>1, <2>2
<1>5. r = RemoveAt(s, p)
  BY DEF RemoveAt, a, b
<1>. HIDE DEF r
<1>6. ToSet(r) \subseteq ToSet(s)
  <2>. SUFFICES ASSUME NEW y \in ToSet(r) PROVE y \in ToSet(s)
    OBVIOUS
  <2>1. PICK i \in 1 .. Len(r) : r[i] = y
    BY <1>4, ToSetIs
  <2>2. i \in 1 .. Len(s) /\ i + 1 \in 1 .. Len(s) /\ (y = s[i] \/ y = s[i + 1])
    BY <1>1, <1>4, <2>1
  <2>. QED BY <2>2, ToSetIs
<1>7. ASSUME IsInjective(s) PROVE IsInjective(r) /\ ToSet(r) = ToSet(s) \ {s[p]}
  <2>1. IsInjective(r)
    <3>1. \A i, j \in 1 .. Len(s) : s[i] = s[j] => i = j
      BY <1>7, InjectiveIs
    <3>2. \A i, j \in 1 .. Len(r) : r[i] = r[j] => i = j
      <4>. SUFFICES ASSUME NEW i \in 1 .. Len(r), NEW j \in 1 .. Len(r), r[i] = r[j] PROVE i = j
        OBVIOUS
      <4>. DEFINE at(k) == IF k < p THEN k ELSE k + 1
      <4>1. \A k \in 1 .. Len(r) : at(k) \in 1 .. Len(s) /\ r[k] = s[at(k)]
        BY <1>1, <1>4
      <4>2. at(i) = at(j)
        BY <3>1, <4>1
      <4>. QED BY <1>1, <4>2
    <3>. QED BY <1>4, <3>2, InjectiveIs
  <2>2. ASSUME NEW i \in 1 .. Len(r) PROVE r[i] # s[p]
    <3>1. i \in 1 .. Len(s) /\ i + 1 \in 1 .. Len(s)
      BY <1>1, <1>4
    <3>2. \A j \in 1 .. Len(s) : s[j] = s[p] => j = p
      BY <1>7, InjectiveIs
    <3>. QED BY <1>1, <1>4, <3>1, <3>2
  <2>3. ASSUME NEW y \in ToSet(s) \ {s[p]} PROVE y \in ToSet(r)
    <3>1. PICK i \in 1 .. Len(s) : s[i] = y
      BY ToSetIs
    <3>2. i # p
      BY <1>1, <3>1
    <3>3. CASE i < p
      BY <1>1, <1>4, <3>1, <3>3, ToSetIs
    <3>4. CASE i > p
      <4>1. i - 1 \in 1 .. Len(r) /\ r[i - 1] = y
        BY <1>1, <1>4, <3>1, <3>4
      <4>. QED BY <1>4, <4>1, ToSetIs
    <3>. QED BY <1>1, <3>2, <3>3, <3>4
  <2>. QED BY <1>4, <1>6, <2>1, <2>2, <2>3, ToSetIs
<1>. QED BY <1>4, <1>5, <1>6, <1>7
-------------------------------------------------------------------------------
(* Linked lists: s is what a list holds that starts at first, is linked by  *)
(* nx and ends with last.                                                   *)

Linked(s, first, nx, last) ==
    /\ first = (IF s = <<>> THEN last ELSE s[1])
    /\ \A i \in 1 .. Len(s) : nx[s[i]] = (IF i = Len(s) THEN last ELSE s[i + 1])

\* The list is empty if, and only if, it starts with what ends it.
LEMMA LinkedEmpty ==
  ASSUME NEW S, NEW s \in Seq(S), NEW first, NEW nx, NEW last, last \notin S,
         Linked(s, first, nx, last)
  PROVE  /\ first = last <=> s = <<>>
         /\ first # last => first \in ToSet(s)
<1>1. s # <<>> => 1 \in 1 .. Len(s) /\ s[1] \in S
  BY EmptySeq, LenProperties
<1>. QED BY <1>1, ToSetIs DEF Linked

\* Links of others may change.
LEMMA LinkedFrame ==
  ASSUME NEW S, NEW s \in Seq(S), NEW first, NEW nx, NEW ny, NEW last,
         Linked(s, first, nx, last), \A x \in ToSet(s) : ny[x] = nx[x]
  PROVE  Linked(s, first, ny, last)
<1>1. \A i \in 1 .. Len(s) : s[i] \in ToSet(s)
  BY ToSetIs
<1>. QED BY <1>1 DEF Linked

\* An element in front of the list.
LEMMA LinkedPush ==
  ASSUME NEW S, NEW s \in Seq(S), NEW first, NEW nx, NEW last, NEW x \in S,
         Linked(s, first, nx, last), nx[x] = first
  PROVE  Linked(<<x>> \o s, x, nx, last)
<1>. DEFINE c == <<x>> \o s
<1>1. /\ Len(c) = Len(s) + 1 /\ Len(s) \in Nat /\ c # <<>>
      /\ c[1] = x /\ \A i \in 1 .. Len(s) : c[i + 1] = s[i]
  BY ConsProperties
<1>2. s = <<>> <=> Len(s) = 0
  BY EmptySeq
<1>. HIDE DEF c
<1>3. ASSUME NEW i \in 1 .. Len(c) PROVE nx[c[i]] = (IF i = Len(c) THEN last ELSE c[i + 1])
  <2>1. CASE i = 1
    <3>1. nx[c[i]] = IF s = <<>> THEN last ELSE s[1]
      BY <1>1, <2>1 DEF Linked
    <3>. QED BY <1>1, <1>2, <2>1, <3>1
  <2>2. CASE i # 1
    <3>1. PICK j \in 1 .. Len(s) : i = j + 1
      <4>1. i - 1 \in 1 .. Len(s) /\ i = i - 1 + 1
        BY <1>1, <2>2
      <4>. QED BY <4>1
    <3>2. c[i] = s[j] /\ nx[s[j]] = IF j = Len(s) THEN last ELSE s[j + 1]
      BY <1>1, <3>1 DEF Linked
    <3>3. j # Len(s) => j + 1 \in 1 .. Len(s) /\ c[j + 1 + 1] = s[j + 1]
      BY <1>1
    <3>. QED BY <1>1, <3>1, <3>2, <3>3
  <2>. QED BY <2>1, <2>2
<1>. QED BY <1>1, <1>3 DEF Linked, c

\* The first element taken from the list.
LEMMA LinkedPop ==
  ASSUME NEW S, NEW s \in Seq(S), NEW first, NEW nx, NEW last, last \notin S,
         Linked(s, first, nx, last), IsInjective(s), first # last
  PROVE  /\ Tail(s) \in Seq(S) /\ IsInjective(Tail(s))
         /\ first \in ToSet(s) /\ ToSet(Tail(s)) = ToSet(s) \ {first}
         /\ Linked(Tail(s), nx[first], nx, last)
<1>. DEFINE t == Tail(s)
<1>1. s # <<>> /\ first \in ToSet(s) /\ first = s[1]
  BY LinkedEmpty DEF Linked
<1>2. /\ t \in Seq(S) /\ Len(t) = Len(s) - 1 /\ Len(s) \in Nat \ {0} /\ Len(t) \in Nat
      /\ \A i \in 1 .. Len(t) : t[i] = s[i + 1]
  BY <1>1, HeadTailProperties, EmptySeq, LenProperties
<1>. HIDE DEF t
<1>3. \A i, j \in 1 .. Len(s) : s[i] = s[j] => i = j
  BY InjectiveIs
<1>4. IsInjective(t)
  <2>1. \A i, j \in 1 .. Len(t) : t[i] = t[j] => i = j
    <3>. SUFFICES ASSUME NEW i \in 1 .. Len(t), NEW j \in 1 .. Len(t), t[i] = t[j] PROVE i = j
      OBVIOUS
    <3>1. i + 1 \in 1 .. Len(s) /\ j + 1 \in 1 .. Len(s) /\ s[i + 1] = s[j + 1]
      BY <1>2
    <3>2. i + 1 = j + 1
      BY <1>3, <3>1
    <3>. QED BY <3>2
  <2>. QED BY <1>2, <2>1, InjectiveIs
<1>5. ToSet(t) = ToSet(s) \ {first}
  <2>1. ASSUME NEW x \in ToSet(t) PROVE x \in ToSet(s) \ {first}
    <3>1. PICK i \in 1 .. Len(t) : t[i] = x
      BY <1>2, ToSetIs
    <3>2. i + 1 \in 1 .. Len(s) /\ 1 \in 1 .. Len(s) /\ s[i + 1] = x /\ i + 1 # 1
      BY <1>2, <3>1
    <3>3. x # s[1]
      BY <1>3, <3>2
    <3>. QED BY <1>1, <3>2, <3>3, ToSetIs
  <2>2. ASSUME NEW x \in ToSet(s) \ {first} PROVE x \in ToSet(t)
    <3>1. PICK i \in 1 .. Len(s) : s[i] = x
      BY ToSetIs
    <3>2. i # 1
      BY <1>1, <3>1
    <3>3. i - 1 \in 1 .. Len(t) /\ t[i - 1] = x
      <4>1. i - 1 \in 1 .. Len(t) /\ i - 1 + 1 = i
        BY <1>2, <3>2
      <4>. QED BY <1>2, <3>1, <4>1
    <3>. QED BY <1>2, <3>3, ToSetIs
  <2>. QED BY <2>1, <2>2
<1>6. Linked(t, nx[first], nx, last)
  <2>1. nx[first] = IF t = <<>> THEN last ELSE t[1]
    <3>1. nx[first] = IF 1 = Len(s) THEN last ELSE s[2]
      BY <1>1, <1>2 DEF Linked
    <3>2. t = <<>> <=> Len(t) = 0
      BY <1>2, EmptySeq
    <3>3. Len(s) # 1 => t[1] = s[2]
      BY <1>2
    <3>. QED BY <1>2, <3>1, <3>2, <3>3
  <2>2. ASSUME NEW i \in 1 .. Len(t) PROVE nx[t[i]] = (IF i = Len(t) THEN last ELSE t[i + 1])
    <3>1. i + 1 \in 1 .. Len(s) /\ t[i] = s[i + 1] /\ (i = Len(t) <=> i + 1 = Len(s))
      BY <1>2
    <3>2. nx[s[i + 1]] = IF i + 1 = Len(s) THEN last ELSE s[i + 1 + 1]
      BY <3>1 DEF Linked
    <3>3. i # Len(t) => t[i + 1] = s[i + 1 + 1]
      BY <1>2
    <3>. QED BY <3>1, <3>2, <3>3
  <2>. QED BY <2>1, <2>2 DEF Linked
<1>. QED BY <1>1, <1>2, <1>4, <1>5, <1>6 DEF t

\* A list put in front of the list its last element is linked to.
LEMMA LinkedConcat ==
  ASSUME NEW S, NEW a \in Seq(S), NEW b \in Seq(S), NEW first, NEW nx, NEW last, a # <<>>,
         Linked(a, a[1], nx, first), Linked(b, first, nx, last),
         IsInjective(a), IsInjective(b), ToSet(a) \cap ToSet(b) = {}
  PROVE  /\ a \o b \in Seq(S) /\ IsInjective(a \o b) /\ ToSet(a \o b) = ToSet(a) \cup ToSet(b)
         /\ Linked(a \o b, a[1], nx, last)
<1>. DEFINE c == a \o b
            m == Len(a)
            n == Len(b)
<1>1. /\ m \in Nat \ {0} /\ n \in Nat /\ c \in Seq(S) /\ Len(c) = m + n
      /\ \A i \in 1 .. m + n : c[i] = IF i <= m THEN a[i] ELSE b[i - m]
  BY LenProperties, EmptySeq, ConcatProperties
<1>. HIDE DEF c
<1>2. \A i \in 1 .. m : i \in 1 .. m + n /\ c[i] = a[i] /\ a[i] \in ToSet(a)
  BY <1>1, ToSetIs
<1>3. \A i \in 1 .. n : m + i \in 1 .. m + n /\ c[m + i] = b[i] /\ b[i] \in ToSet(b)
  <2>. SUFFICES ASSUME NEW i \in 1 .. n PROVE m + i \in 1 .. m + n /\ c[m + i] = b[i] /\ b[i] \in ToSet(b)
    OBVIOUS
  <2>1. m + i \in 1 .. m + n /\ ~ (m + i <= m) /\ m + i - m = i
    BY <1>1
  <2>. QED BY <1>1, <2>1, ToSetIs
<1>4. \A i \in 1 .. m + n : i \in 1 .. m \/ \E j \in 1 .. n : i = m + j
  <2>. SUFFICES ASSUME NEW i \in 1 .. m + n, i \notin 1 .. m PROVE \E j \in 1 .. n : i = m + j
    OBVIOUS
  <2>1. i - m \in 1 .. n /\ i = m + (i - m)
    BY <1>1
  <2>. QED BY <2>1
<1>5. ToSet(c) = ToSet(a) \cup ToSet(b)
  <2>1. ASSUME NEW x \in ToSet(c) PROVE x \in ToSet(a) \cup ToSet(b)
    <3>1. PICK i \in 1 .. m + n : c[i] = x
      BY <1>1, ToSetIs
    <3>. QED BY <1>2, <1>3, <1>4, <3>1
  <2>2. ToSet(a) \subseteq ToSet(c)
    BY <1>1, <1>2, ToSetIs
  <2>3. ToSet(b) \subseteq ToSet(c)
    <3>. SUFFICES ASSUME NEW x \in ToSet(b) PROVE x \in ToSet(c)
      OBVIOUS
    <3>1. PICK i \in 1 .. n : b[i] = x
      BY ToSetIs
    <3>. QED BY <1>1, <1>3, <3>1, ToSetIs
  <2>. QED BY <2>1, <2>2, <2>3
<1>6. IsInjective(c)
  <2>1. /\ \A i, j \in 1 .. m : a[i] = a[j] => i = j
        /\ \A i, j \in 1 .. n : b[i] = b[j] => i = j
    BY InjectiveIs
  <2>. SUFFICES ASSUME NEW i \in 1 .. m + n, NEW j \in 1 .. m + n, c[i] = c[j] PROVE i = j
    BY <1>1, InjectiveIs
  <2>2. CASE i \in 1 .. m /\ j \in 1 .. m
    BY <1>2, <2>1, <2>2
  <2>3. CASE i \notin 1 .. m /\ j \notin 1 .. m
    <3>1. PICK k \in 1 .. n, l \in 1 .. n : i = m + k /\ j = m + l
      BY <1>4, <2>3
    <3>. QED BY <1>3, <2>1, <3>1
  <2>4. CASE i \in 1 .. m /\ j \notin 1 .. m
    BY <1>2, <1>3, <1>4, <2>4
  <2>5. CASE i \notin 1 .. m /\ j \in 1 .. m
    BY <1>2, <1>3, <1>4, <2>5
  <2>. QED BY <2>2, <2>3, <2>4, <2>5
<1>7. Linked(c, a[1], nx, last)
  <2>1. c # <<>> /\ c[1] = a[1]
    <3>1. Len(c) # 0 /\ 1 \in 1 .. m
      BY <1>1
    <3>. QED BY <1>2, <3>1, EmptySeq
  <2>2. first = IF n = 0 THEN last ELSE b[1]
    BY EmptySeq DEF Linked
  <2>3. ASSUME NEW i \in 1 .. m + n PROVE nx[c[i]] = (IF i = m + n THEN last ELSE c[i + 1])
    <3>1. CASE i \in 1 .. m /\ i # m
      <4>1. i + 1 \in 1 .. m /\ i # m + n
        BY <1>1, <3>1
      <4>2. nx[a[i]] = a[i + 1]
        BY <3>1 DEF Linked
      <4>. QED BY <1>2, <3>1, <4>1, <4>2
    <3>2. CASE i = m
      <4>1. nx[c[i]] = first
        BY <1>1, <1>2, <3>2 DEF Linked
      <4>2. n # 0 => c[m + 1] = b[1]
        BY <1>1, <1>3
      <4>. QED BY <1>1, <2>2, <3>2, <4>1, <4>2
    <3>3. CASE i \notin 1 .. m
      <4>1. PICK k \in 1 .. n : i = m + k
        BY <1>4, <3>3
      <4>2. nx[b[k]] = IF k = n THEN last ELSE b[k + 1]
        BY DEF Linked
      <4>3. k # n => m + (k + 1) = i + 1 /\ k + 1 \in 1 .. n
        BY <1>1, <4>1
      <4>4. k # n => c[i + 1] = b[k + 1]
        BY <1>3, <4>3
      <4>5. k \in Nat /\ n \in Nat /\ m \in Nat
        BY <1>1
      <4>6. k # n => i # m + n
        BY <4>1, <4>5
      <4>. QED BY <1>3, <4>1, <4>2, <4>4, <4>6
    <3>. QED BY <3>1, <3>2, <3>3
  <2>. QED BY <1>1, <2>1, <2>3 DEF Linked
<1>. QED BY <1>1, <1>5, <1>6, <1>7 DEF c
\* What a walk along the list meets: its elements, in order, and then its end.
IsWalk(f, n, first, nx, last) ==
    f = [k \in 0 .. n |-> IF k = 0 THEN first
                          ELSE IF f[k - 1] = last THEN last ELSE nx[f[k - 1]]]

LEMMA WalkExists ==
  ASSUME NEW S, NEW s \in Seq(S), NEW first, NEW nx, NEW last, last \notin S,
         Linked(s, first, nx, last), NEW n \in Nat
  PROVE  \E f : IsWalk(f, n, first, nx, last)
<1>. DEFINE f == [k \in 0 .. n |-> IF k < Len(s) THEN s[k + 1] ELSE last]
<1>1. Len(s) \in Nat /\ (s = <<>> <=> Len(s) = 0) /\ \A i \in 1 .. Len(s) : s[i] \in S
  BY LenProperties, EmptySeq
<1>2. ASSUME NEW k \in 0 .. n
      PROVE  f[k] = IF k = 0 THEN first ELSE IF f[k - 1] = last THEN last ELSE nx[f[k - 1]]
  <2>1. CASE k = 0
    BY <1>1, <2>1 DEF Linked
  <2>2. CASE k # 0
    <3>1. k - 1 \in 0 .. n /\ k - 1 + 1 = k
      BY <2>2
    <3>2. CASE k - 1 < Len(s)
      <4>1. k \in 1 .. Len(s) /\ f[k - 1] = s[k] /\ s[k] # last
        BY <1>1, <2>2, <3>1, <3>2
      <4>2. nx[s[k]] = IF k = Len(s) THEN last ELSE s[k + 1]
        BY <4>1 DEF Linked
      <4>. QED BY <1>1, <2>2, <4>1, <4>2
    <3>3. CASE ~ (k - 1 < Len(s))
      BY <1>1, <2>2, <3>1, <3>3
    <3>. QED BY <3>2, <3>3
  <2>. QED BY <2>1, <2>2
<1>3. f = [k \in 0 .. n |-> IF k = 0 THEN first
                            ELSE IF f[k - 1] = last THEN last ELSE nx[f[k - 1]]]
  BY <1>2
<1>. QED BY <1>3 DEF IsWalk

LEMMA WalkIs ==
  ASSUME NEW S, NEW s \in Seq(S), NEW first, NEW nx, NEW last, last \notin S,
         Linked(s, first, nx, last), NEW n \in Nat, NEW f, IsWalk(f, n, first, nx, last)
  PROVE  \A k \in 0 .. n : f[k] = IF k < Len(s) THEN s[k + 1] ELSE last
<1>. DEFINE T == {k \in Nat : k <= n => f[k] = IF k < Len(s) THEN s[k + 1] ELSE last}
<1>1. Len(s) \in Nat /\ (s = <<>> <=> Len(s) = 0) /\ \A i \in 1 .. Len(s) : s[i] \in S
  BY LenProperties, EmptySeq
<1>2. \A k \in 0 .. n : f[k] = IF k = 0 THEN first
                               ELSE IF f[k - 1] = last THEN last ELSE nx[f[k - 1]]
  BY DEF IsWalk
<1>3. 0 \in T
  BY <1>1, <1>2 DEF Linked
<1>4. ASSUME NEW k \in Nat, k \in T PROVE k + 1 \in T
  <2>. SUFFICES ASSUME k + 1 <= n
                PROVE  f[k + 1] = IF k + 1 < Len(s) THEN s[k + 1 + 1] ELSE last
    OBVIOUS
  <2>1. k + 1 \in 0 .. n /\ k + 1 # 0 /\ k + 1 - 1 = k /\ k <= n
    OBVIOUS
  <2>2. f[k + 1] = IF f[k] = last THEN last ELSE nx[f[k]]
    BY <1>2, <2>1
  <2>3. f[k] = IF k < Len(s) THEN s[k + 1] ELSE last
    BY <1>4, <2>1
  <2>4. CASE k < Len(s)
    <3>1. k + 1 \in 1 .. Len(s) /\ s[k + 1] # last
      BY <1>1, <2>4
    <3>2. nx[s[k + 1]] = IF k + 1 = Len(s) THEN last ELSE s[k + 1 + 1]
      BY <3>1 DEF Linked
    <3>. QED BY <1>1, <2>2, <2>3, <2>4, <3>1, <3>2
  <2>5. CASE ~ (k < Len(s))
    BY <1>1, <2>2, <2>3, <2>5
  <2>. QED BY <2>4, <2>5
<1>. HIDE DEF T
<1>5. Nat \subseteq T
  BY <1>3, <1>4, NatAll
<1>. QED BY <1>5 DEF T

\* A sequence without repetition is no longer than the set it is from is large.
LEMMA InjectiveLen ==
  ASSUME NEW S, IsFiniteSet(S), NEW s \in Seq(S), IsInjective(s)
  PROVE  Len(s) <= Cardinality(S) /\ Cardinality(S) \in Nat
<1>1. Len(s) \in Nat /\ s \in [1 .. Len(s) -> S]
  BY LenProperties
<1>2. s \in Injection(1 .. Len(s), S)
  BY <1>1, InjectiveIs DEF Injection, IsInjective
<1>3. Cardinality(1 .. Len(s)) = Len(s)
  BY <1>1, FS_Interval
<1>. QED BY <1>2, <1>3, FS_Injection, FS_CardinalityType

\* A walk of as many steps as there are elements meets each element of the list once.
LEMMA WalkOnce ==
  ASSUME NEW S, IsFiniteSet(S), NEW s \in Seq(S), IsInjective(s),
         NEW first, NEW nx, NEW last, last \notin S, Linked(s, first, nx, last),
         NEW n \in Nat, Cardinality(S) <= n, NEW f, IsWalk(f, n, first, nx, last)
  PROVE  \A x \in S : /\ x \in ToSet(s) => \E i \in 0 .. n : {k \in 0 .. n : f[k] = x} = {i}
                      /\ x \notin ToSet(s) => {k \in 0 .. n : f[k] = x} = {}
<1>1. \A k \in 0 .. n : f[k] = IF k < Len(s) THEN s[k + 1] ELSE last
  BY WalkIs
<1>2. Len(s) \in Nat /\ Len(s) <= n
  BY LenProperties, InjectiveLen
<1>3. \A i, j \in 1 .. Len(s) : s[i] = s[j] => i = j
  BY InjectiveIs
<1>. TAKE x \in S
<1>4. ASSUME x \in ToSet(s) PROVE \E i \in 0 .. n : {k \in 0 .. n : f[k] = x} = {i}
  <2>1. PICK j \in 1 .. Len(s) : s[j] = x
    BY <1>4, ToSetIs
  <2>2. j - 1 \in 0 .. n /\ j - 1 < Len(s) /\ j - 1 + 1 = j
    BY <1>2
  <2>3. f[j - 1] = x
    BY <1>1, <2>1, <2>2
  <2>4. ASSUME NEW k \in 0 .. n, f[k] = x PROVE k = j - 1
    <3>1. k < Len(s) /\ s[k + 1] = x
      BY <1>1, <2>4
    <3>2. k + 1 \in 1 .. Len(s)
      BY <1>2, <3>1
    <3>3. k + 1 = j
      BY <1>3, <2>1, <3>1, <3>2
    <3>. QED BY <3>3
  <2>. QED BY <2>2, <2>3, <2>4
<1>5. ASSUME x \notin ToSet(s) PROVE {k \in 0 .. n : f[k] = x} = {}
  <2>. SUFFICES ASSUME NEW k \in 0 .. n, f[k] = x PROVE FALSE
    OBVIOUS
  <2>1. k < Len(s) /\ s[k + 1] = x
    BY <1>1
  <2>2. k + 1 \in 1 .. Len(s)
    BY <1>2, <2>1
  <2>. QED BY <1>5, <2>1, <2>2, ToSetIs
<1>. QED BY <1>4, <1>5
-------------------------------------------------------------------------------
(* Sequences as stacks: the first element is the top, the k-th from the end *)
(* the k-th that was put on.                                                *)

FromEnd(s, k) == s[Len(s) + 1 - k]

\* An element put on a stack leaves those under it where they are.
LEMMA PushFromEnd ==
  ASSUME NEW S, NEW x \in S, NEW s \in Seq(S)
  PROVE  LET z == <<x>> \o s
         IN  /\ z \in Seq(S) /\ Len(z) = Len(s) + 1 /\ Len(s) \in Nat /\ z # <<>>
             /\ Head(z) = x /\ FromEnd(z, Len(z)) = x
             /\ \A k \in 1 .. Len(s) : FromEnd(z, k) = FromEnd(s, k)
<1>. DEFINE z == <<x>> \o s
<1>1. /\ z \in Seq(S) /\ Len(z) = Len(s) + 1 /\ Len(s) \in Nat /\ z # <<>> /\ z[1] = x
      /\ \A i \in 1 .. Len(s) : z[i + 1] = s[i]
  BY ConsProperties
<1>. HIDE DEF z
<1>2. \A k \in 1 .. Len(s) : FromEnd(z, k) = FromEnd(s, k)
  <2>. SUFFICES ASSUME NEW k \in 1 .. Len(s) PROVE z[Len(z) + 1 - k] = s[Len(s) + 1 - k]
    BY DEF FromEnd
  <2>1. Len(s) + 1 - k \in 1 .. Len(s) /\ Len(z) + 1 - k = (Len(s) + 1 - k) + 1
    BY <1>1
  <2>. QED BY <1>1, <2>1
<1>3. Head(z) = x /\ FromEnd(z, Len(z)) = x
  BY <1>1 DEF FromEnd
<1>. QED BY <1>1, <1>2, <1>3 DEF z

\* Two of them.
LEMMA PushTwoFromEnd ==
  ASSUME NEW S, NEW x \in S, NEW y \in S, NEW s \in Seq(S)
  PROVE  LET z == <<x, y>> \o s
         IN  /\ z \in Seq(S) /\ Len(z) = Len(s) + 2 /\ Len(s) \in Nat /\ z # <<>>
             /\ FromEnd(z, Len(z)) = x /\ FromEnd(z, Len(s) + 1) = y
             /\ \A k \in 1 .. Len(s) : FromEnd(z, k) = FromEnd(s, k)
<1>. DEFINE w == <<y>> \o s
            z == <<x>> \o w
<1>1. /\ w \in Seq(S) /\ Len(w) = Len(s) + 1 /\ Len(s) \in Nat /\ FromEnd(w, Len(w)) = y
      /\ \A k \in 1 .. Len(s) : FromEnd(w, k) = FromEnd(s, k)
  BY PushFromEnd
<1>2. <<x, y>> \o s = z
  <2>1. <<x>> \o <<y>> = <<x, y>>
    <3>1. <<x>> \in Seq(S) /\ <<y>> \in Seq(S) /\ <<x, y>> \in Seq(S)
      OBVIOUS
    <3>2. /\ <<x>> \o <<y>> \in Seq(S) /\ Len(<<x>> \o <<y>>) = 2
          /\ \A i \in 1 .. 2 : (<<x>> \o <<y>>)[i] = <<x, y>>[i]
      BY <3>1, ConcatProperties
    <3>. QED BY <3>1, <3>2, SeqEqual
  <2>2. (<<x>> \o <<y>>) \o s = <<x>> \o (<<y>> \o s)
    <3>1. <<x>> \in Seq(S) /\ <<y>> \in Seq(S)
      OBVIOUS
    <3>. QED BY <3>1, ConcatAssociative
  <2>. QED BY <2>1, <2>2
<1>. HIDE DEF w
<1>3. /\ z \in Seq(S) /\ Len(z) = Len(w) + 1 /\ z # <<>> /\ FromEnd(z, Len(z)) = x
      /\ \A k \in 1 .. Len(w) : FromEnd(z, k) = FromEnd(w, k)
  BY <1>1, PushFromEnd
<1>. HIDE DEF z
<1>4. FromEnd(z, Len(s) + 1) = y /\ \A k \in 1 .. Len(s) : FromEnd(z, k) = FromEnd(s, k)
  BY <1>1, <1>3
<1>5. Len(z) = Len(s) + 2
  BY <1>1, <1>3
<1>6. /\ z \in Seq(S) /\ Len(z) = Len(s) + 2 /\ Len(s) \in Nat /\ z # <<>>
      /\ FromEnd(z, Len(z)) = x /\ FromEnd(z, Len(s) + 1) = y
      /\ \A k \in 1 .. Len(s) : FromEnd(z, k) = FromEnd(s, k)
  BY <1>1, <1>3, <1>4, <1>5
<1>. QED BY <1>2, <1>6

\* The top is the last that was put on; without it the others stay where they are.
LEMMA PopFromEnd ==
  ASSUME NEW S, NEW s \in Seq(S), s # <<>>
  PROVE  /\ Len(s) \in Nat /\ Len(s) >= 1 /\ Head(s) \in S /\ FromEnd(s, Len(s)) = Head(s)
         /\ Tail(s) \in Seq(S) /\ Len(Tail(s)) = Len(s) - 1
         /\ \A k \in 1 .. Len(s) - 1 : FromEnd(Tail(s), k) = FromEnd(s, k)
<1>1. Len(s) \in Nat /\ Len(s) >= 1 /\ Head(s) \in S /\ Head(s) = s[1] /\ FromEnd(s, Len(s)) = Head(s)
  BY EmptySeq, LenProperties, HeadTailProperties DEF FromEnd
<1>2. Tail(s) \in Seq(S) /\ Len(Tail(s)) = Len(s) - 1
      /\ \A i \in 1 .. Len(Tail(s)) : Tail(s)[i] = s[i + 1]
  BY HeadTailProperties
<1>3. ASSUME NEW k \in 1 .. Len(s) - 1 PROVE FromEnd(Tail(s), k) = FromEnd(s, k)
  <2>1. Len(Tail(s)) + 1 - k \in 1 .. Len(Tail(s)) /\ Len(s) + 1 - k = (Len(Tail(s)) + 1 - k) + 1
    BY <1>1, <1>2
  <2>. QED BY <1>2, <2>1 DEF FromEnd
<1>. QED BY <1>1, <1>2, <1>3

\* Every element is somewhere on the stack.
LEMMA AllFromEnd ==
  ASSUME NEW S, NEW s \in Seq(S)
  PROVE  /\ \A k \in 1 .. Len(s) : FromEnd(s, k) \in S
         /\ \A x : x \in ToSet(s) <=> \E k \in 1 .. Len(s) : FromEnd(s, k) = x
<1>1. Len(s) \in Nat /\ \A k \in 1 .. Len(s) : Len(s) + 1 - k \in 1 .. Len(s) /\ Len(s) + 1 - (Len(s) + 1 - k) = k
  BY LenProperties
<1>2. \A k \in 1 .. Len(s) : s[Len(s) + 1 - k] \in S
  BY <1>1, ElementOfSeq
<1>3. \A x : (\E i \in 1 .. Len(s) : s[i] = x) <=> \E k \in 1 .. Len(s) : FromEnd(s, k) = x
  BY <1>1 DEF FromEnd
<1>. QED BY <1>2, <1>3, ToSetIs DEF FromEnd
-------------------------------------------------------------------------------
(* Sequences of sequences.                                                 *)

\* f is what FlattenSeq computes of the first n of seqs.
Flattens(f, n, seqs) == f = [i \in 1 .. n |-> IF i = 1 THEN seqs[i] ELSE f[i - 1] \o seqs[i]]

LEMMA FlattensExists ==
  ASSUME NEW seqs, NEW n \in Nat
  PROVE  \E f : Flattens(f, n, seqs)
<1>. DEFINE T == {m \in Nat : \E f : Flattens(f, m, seqs)}
            Body(h, i) == IF i = 1 THEN seqs[i] ELSE h[i - 1] \o seqs[i]
<1>1. 0 \in T
  <2>1. PICK f : f = [i \in 1 .. 0 |-> seqs[i]]
    OBVIOUS
  <2>2. f = [i \in 1 .. 0 |-> Body(f, i)]
    BY <2>1
  <2>. QED BY <2>2 DEF Flattens
<1>2. ASSUME NEW m \in Nat, m \in T PROVE m + 1 \in T
  <2>1. PICK f : f = [i \in 1 .. m |-> Body(f, i)]
    BY <1>2 DEF Flattens
  <2>2. PICK g : g = [i \in 1 .. m + 1 |-> Body(f, i)]
    OBVIOUS
  <2>3. \A i \in 1 .. m + 1 : i # 1 => i - 1 \in 1 .. m
    OBVIOUS
  <2>4. \A i \in 1 .. m : i \in 1 .. m + 1
    OBVIOUS
  <2>5. \A i \in 1 .. m : g[i] = f[i]
    <3>. HIDE DEF Body
    <3>. QED BY <2>1, <2>2, <2>4
  <2>6. \A i \in 1 .. m + 1 : Body(f, i) = Body(g, i)
    BY <2>3, <2>5
  <2>7. g = [i \in 1 .. m + 1 |-> Body(g, i)]
    <3>. HIDE DEF Body
    <3>. QED BY <2>2, <2>6
  <2>8. Flattens(g, m + 1, seqs)
    BY <2>7 DEF Flattens
  <2>. QED BY <2>8
<1>. HIDE DEF T
<1>3. Nat \subseteq T
  BY <1>1, <1>2, NatAll
<1>. QED BY <1>3 DEF T

LEMMA FlattenIs ==
  ASSUME NEW seqs, Len(seqs) \in Nat
  PROVE  \E f : /\ Flattens(f, Len(seqs), seqs)
                /\ FlattenSeq(seqs) = IF Len(seqs) = 0 THEN seqs ELSE f[Len(seqs)]
<1>1. PICK f : f = CHOOSE flatten : flatten = [i \in 1 .. Len(seqs) |-> IF i = 1 THEN seqs[i] ELSE flatten[i - 1] \o seqs[i]]
  OBVIOUS
<1>2. \E g : g = [i \in 1 .. Len(seqs) |-> IF i = 1 THEN seqs[i] ELSE g[i - 1] \o seqs[i]]
  BY FlattensExists DEF Flattens
<1>3. f = [i \in 1 .. Len(seqs) |-> IF i = 1 THEN seqs[i] ELSE f[i - 1] \o seqs[i]]
  BY Zenon, <1>1, <1>2
<1>4. FlattenSeq(seqs) = IF Len(seqs) = 0 THEN seqs ELSE f[Len(seqs)]
  BY <1>1 DEF FlattenSeq
<1>. QED BY <1>3, <1>4 DEF Flattens

LEMMA FlattensAt ==
  ASSUME NEW seqs, NEW n \in Nat, NEW f, Flattens(f, n, seqs), NEW i \in 1 .. n
  PROVE  f[i] = IF i = 1 THEN seqs[i] ELSE f[i - 1] \o seqs[i]
BY DEF Flattens

\* What it computes of the first k depends on the first k only.
Agree(s, t, k) == \A i \in 1 .. k : s[i] = t[i]
LEMMA FlattensSame ==
  ASSUME NEW s, NEW t, NEW f, NEW g, NEW m \in Nat, NEW n \in Nat, NEW k \in Nat, k <= m, k <= n,
         Flattens(f, m, s), Flattens(g, n, t), Agree(s, t, k)
  PROVE  Agree(f, g, k)
<1>. DEFINE T == {i \in Nat : i \in 1 .. k => f[i] = g[i]}
<1>0. /\ \A i \in 1 .. m : f[i] = IF i = 1 THEN s[i] ELSE f[i - 1] \o s[i]
      /\ \A i \in 1 .. n : g[i] = IF i = 1 THEN t[i] ELSE g[i - 1] \o t[i]
  BY DEF Flattens
<1>1. 0 \in T
  OBVIOUS
<1>2. ASSUME NEW i \in Nat, i \in T PROVE i + 1 \in T
  <2>. SUFFICES ASSUME i + 1 \in 1 .. k PROVE f[i + 1] = g[i + 1]
    OBVIOUS
  <2>1. i + 1 \in 1 .. m /\ i + 1 \in 1 .. n /\ i + 1 - 1 = i /\ (i + 1 = 1 <=> i = 0)
    OBVIOUS
  <2>2. i # 0 => i \in 1 .. k
    OBVIOUS
  <2>3. s[i + 1] = t[i + 1]
    BY DEF Agree
  <2>4. /\ f[i + 1] = IF i = 0 THEN s[i + 1] ELSE f[i] \o s[i + 1]
        /\ g[i + 1] = IF i = 0 THEN t[i + 1] ELSE g[i] \o t[i + 1]
    BY <1>0, <2>1
  <2>. QED BY <1>2, <2>2, <2>3, <2>4
<1>. HIDE DEF T
<1>3. Nat \subseteq T
  BY <1>1, <1>2, NatAll
<1>. QED BY <1>3 DEF T, Agree

\* One more.
LEMMA FlattenAppend ==
  ASSUME NEW S, NEW seqs \in Seq(Seq(S)), NEW s \in Seq(S)
  PROVE  FlattenSeq(Append(seqs, s)) = FlattenSeq(seqs) \o s
<1>1. PICK all : all = Append(seqs, s)
  OBVIOUS
<1>2. PICK n \in Nat : n = Len(seqs)
  BY LenProperties
<1>3. PICK m \in Nat : m = n + 1
  OBVIOUS
<1>4. Len(all) = m /\ all[m] = s /\ \A i \in 1 .. n : all[i] = seqs[i]
  BY <1>1, <1>2, <1>3, AppendProperties
<1>5. /\ m # 0 /\ m - 1 = n /\ m \in 1 .. m /\ n <= m /\ n <= n
      /\ (m = 1 <=> n = 0) /\ (n # 0 => n \in 1 .. n)
  BY <1>3
<1>6. PICK f : Flattens(f, n, seqs) /\ FlattenSeq(seqs) = IF n = 0 THEN seqs ELSE f[n]
  BY <1>2, FlattenIs
<1>7. PICK g : Flattens(g, m, all) /\ FlattenSeq(all) = g[m]
  BY <1>4, <1>5, FlattenIs
<1>8. g[m] = IF m = 1 THEN all[m] ELSE g[m - 1] \o all[m]
  BY <1>5, <1>7, FlattensAt
<1>9. Agree(f, g, n)
  <2>1. Agree(seqs, all, n)
    BY <1>4 DEF Agree
  <2>. QED BY <1>5, <1>6, <1>7, <2>1, FlattensSame
<1>10. CASE n = 0
  <2>1. seqs = <<>>
    BY <1>2, <1>10, EmptySeq
  <2>2. <<>> \o s = s
    BY ConcatEmptySeq
  <2>. QED BY <1>1, <1>4, <1>5, <1>6, <1>7, <1>8, <1>10, <2>1, <2>2
<1>11. CASE n # 0
  BY <1>1, <1>4, <1>5, <1>6, <1>7, <1>8, <1>9, <1>11 DEF Agree
<1>. QED BY <1>10, <1>11
LEMMA ConsAppend ==
  ASSUME NEW S, NEW x \in S, NEW s \in Seq(S), NEW y \in S
  PROVE  <<x>> \o Append(s, y) = Append(<<x>> \o s, y) /\ <<x>> \o s \in Seq(S)
<1>1. <<x>> \in Seq(S) /\ <<y>> \in Seq(S)
  OBVIOUS
<1>2. <<x>> \o s \in Seq(S)
  BY <1>1, ConcatProperties
<1>3. Append(s, y) = s \o <<y>> /\ Append(<<x>> \o s, y) = (<<x>> \o s) \o <<y>>
  BY <1>2, AppendIsConcat
<1>4. (<<x>> \o s) \o <<y>> = <<x>> \o (s \o <<y>>)
  BY <1>1, ConcatAssociative
<1>. QED BY <1>2, <1>3, <1>4

\* A set that has the empty sequence, and a sequence whenever it has that without its
\* last element, has them all.
LEMMA SeqAll ==
  ASSUME NEW S, NEW T, <<>> \in T, \A s \in Seq(S) : \A x \in S : s \in T => Append(s, x) \in T
  PROVE  Seq(S) \subseteq T
<1>. DEFINE N == {n \in Nat : \A q \in Seq(S) : Len(q) = n => q \in T}
<1>1. 0 \in N
  BY EmptySeq
<1>2. ASSUME NEW n \in Nat, n \in N PROVE n + 1 \in N
  <2>. SUFFICES ASSUME NEW q \in Seq(S), Len(q) = n + 1 PROVE q \in T
    OBVIOUS
  <2>1. q # <<>>
    BY EmptySeq
  <2>2. PICK s \in Seq(S), x \in S : q = Append(s, x)
    BY <2>1, SequenceEmptyOrAppend
  <2>3. Len(s) = n
    BY <2>2, AppendProperties, LenProperties
  <2>. QED BY <1>2, <2>2, <2>3
<1>. HIDE DEF N
<1>3. Nat \subseteq N
  BY <1>1, <1>2, NatAll
<1>. QED BY <1>3, LenProperties DEF N

LEMMA FlattenEmpty == FlattenSeq(<<>>) = <<>>
BY EmptySeq, FlattenIs

LEMMA FlattenType ==
  ASSUME NEW S, NEW seqs \in Seq(Seq(S))
  PROVE  FlattenSeq(seqs) \in Seq(S)
<1>. DEFINE T == {q \in Seq(Seq(S)) : FlattenSeq(q) \in Seq(S)}
<1>1. <<>> \in T
  BY FlattenEmpty, EmptySeq
<1>2. ASSUME NEW q \in Seq(Seq(S)), NEW x \in Seq(S), q \in T PROVE Append(q, x) \in T
  <2>1. FlattenSeq(Append(q, x)) = FlattenSeq(q) \o x
    BY FlattenAppend
  <2>2. FlattenSeq(q) \o x \in Seq(S)
    BY <1>2, ConcatProperties
  <2>3. Append(q, x) \in Seq(Seq(S))
    BY AppendProperties
  <2>. QED BY <2>1, <2>2, <2>3
<1>. HIDE DEF T
<1>3. Seq(Seq(S)) \subseteq T
  BY <1>1, <1>2, SeqAll
<1>. QED BY <1>3 DEF T

\* One in front.
LEMMA FlattenCons ==
  ASSUME NEW S, NEW s \in Seq(S), NEW seqs \in Seq(Seq(S))
  PROVE  FlattenSeq(<<s>> \o seqs) = s \o FlattenSeq(seqs)
<1>. DEFINE T == {q \in Seq(Seq(S)) : FlattenSeq(<<s>> \o q) = s \o FlattenSeq(q)}
<1>1. <<s>> \in Seq(Seq(S)) /\ FlattenSeq(<<s>>) = s
  <2>1. <<s>> \in Seq(Seq(S)) /\ <<s>> = Append(<<>>, s) /\ <<>> \in Seq(Seq(S))
    OBVIOUS
  <2>2. FlattenSeq(<<s>>) = FlattenSeq(<<>>) \o s
    BY <2>1, FlattenAppend
  <2>3. <<>> \o s = s
    BY ConcatEmptySeq
  <2>. QED BY <2>1, <2>2, <2>3, FlattenEmpty
<1>2. <<>> \in T
  <2>1. <<s>> \o <<>> = <<s>> /\ s \o <<>> = s
    BY <1>1, ConcatEmptySeq
  <2>. QED BY <1>1, <2>1, FlattenEmpty
<1>3. ASSUME NEW q \in Seq(Seq(S)), NEW x \in Seq(S), q \in T PROVE Append(q, x) \in T
  <2>1. PICK sq \in Seq(Seq(S)) : sq = <<s>> \o q
    BY <1>1, ConcatProperties
  <2>2. <<s>> \o Append(q, x) = Append(sq, x)
    BY <2>1, ConsAppend
  <2>3. FlattenSeq(Append(sq, x)) = FlattenSeq(sq) \o x /\ FlattenSeq(Append(q, x)) = FlattenSeq(q) \o x
    BY <2>1, FlattenAppend
  <2>4. FlattenSeq(sq) = s \o FlattenSeq(q) /\ FlattenSeq(q) \in Seq(S)
    BY <1>3, <2>1, FlattenType
  <2>5. (s \o FlattenSeq(q)) \o x = s \o (FlattenSeq(q) \o x)
    BY <2>4, ConcatAssociative
  <2>6. Append(q, x) \in Seq(Seq(S))
    BY AppendProperties
  <2>. QED BY <2>2, <2>3, <2>4, <2>5, <2>6
<1>. HIDE DEF T
<1>4. Seq(Seq(S)) \subseteq T
  BY <1>2, <1>3, SeqAll
<1>. QED BY <1>4 DEF T
\* A sequence of an element and the rest.
LEMMA ConsIs ==
  ASSUME NEW S, NEW s \in Seq(S), NEW t \in Seq(S), Len(s) = Len(t) + 1, \A i \in 1 .. Len(t) : s[i + 1] = t[i]
  PROVE  s = <<s[1]>> \o t
<1>1. PICK n \in Nat : n = Len(t)
  BY LenProperties
<1>2. s[1] \in S
  BY <1>1, ElementOfSeq
<1>3. PICK c \in Seq(S) : c = <<s[1]>> \o t
  BY <1>2, ConsProperties
<1>4. Len(c) = n + 1 /\ c[1] = s[1] /\ \A i \in 1 .. n : c[i + 1] = t[i]
  BY <1>1, <1>2, <1>3, ConsProperties
<1>5. \A i \in 1 .. n + 1 : i = 1 \/ (i - 1 \in 1 .. n /\ i - 1 + 1 = i)
  BY <1>1
<1>6. \A i \in 1 .. n + 1 : s[i] = c[i]
  BY <1>1, <1>4, <1>5
<1>. QED BY <1>1, <1>3, <1>4, <1>6, SeqEqual

LEMMA HeadTail ==
  ASSUME NEW S, NEW s \in Seq(S), s # <<>>
  PROVE  /\ s = <<s[1]>> \o Tail(s) /\ s[1] \in S /\ Tail(s) \in Seq(S)
         /\ Head(s) = s[1] /\ Len(s) = Len(Tail(s)) + 1 /\ Len(Tail(s)) \in Nat
         /\ \A i \in 1 .. Len(Tail(s)) : Tail(s)[i] = s[i + 1]
<1>1. Tail(s) \in Seq(S) /\ Len(s) \in Nat \ {0} /\ Len(Tail(s)) = Len(s) - 1
      /\ \A i \in 1 .. Len(Tail(s)) : Tail(s)[i] = s[i + 1]
  BY HeadTailProperties, EmptySeq
<1>2. Len(s) = Len(Tail(s)) + 1 /\ Len(Tail(s)) \in Nat
  BY <1>1
<1>3. s = <<s[1]>> \o Tail(s)
  BY <1>1, <1>2, ConsIs
<1>4. s[1] \in S
  BY <1>1, ElementOfSeq
<1>5. Head(s) = s[1]
  BY DEF Head
<1>. QED BY <1>1, <1>2, <1>3, <1>4, <1>5

LEMMA TailOfCons ==
  ASSUME NEW S, NEW x \in S, NEW s \in Seq(S)
  PROVE  Tail(<<x>> \o s) = s /\ Head(<<x>> \o s) = x
<1>1. PICK c \in Seq(S) : c = <<x>> \o s
  BY ConsProperties
<1>2. Len(c) = Len(s) + 1 /\ Len(s) \in Nat /\ c # <<>> /\ c[1] = x /\ \A i \in 1 .. Len(s) : c[i + 1] = s[i]
  BY <1>1, ConsProperties
<1>3. /\ Head(c) = c[1] /\ Tail(c) \in Seq(S) /\ Len(c) = Len(Tail(c)) + 1 /\ Len(Tail(c)) \in Nat
      /\ \A i \in 1 .. Len(Tail(c)) : Tail(c)[i] = c[i + 1]
  BY <1>2, HeadTail
<1>4. Len(Tail(c)) = Len(s)
  BY <1>2, <1>3
<1>5. Tail(c) = s
  BY <1>2, <1>3, <1>4, SeqEqual
<1>. QED BY <1>1, <1>2, <1>3, <1>5

LEMMA ConcatAppend ==
  ASSUME NEW S, NEW f \in Seq(S), NEW q \in Seq(S), NEW c \in S
  PROVE  f \o Append(q, c) = Append(f \o q, c)
<1>1. <<c>> \in Seq(S) /\ f \o q \in Seq(S)
  BY ConcatProperties
<1>2. Append(q, c) = q \o <<c>> /\ Append(f \o q, c) = (f \o q) \o <<c>>
  BY <1>1, AppendIsConcat
<1>3. (f \o q) \o <<c>> = f \o (q \o <<c>>)
  BY <1>1, ConcatAssociative
<1>. QED BY <1>2, <1>3

LEMMA AppendIs ==
  ASSUME NEW S, NEW s \in Seq(S), NEW t \in Seq(S), NEW n \in Nat, Len(t) = n, Len(s) = n + 1, Agree(s, t, n)
  PROVE  s = Append(t, s[n + 1])
<1>1. PICK m \in Nat : m = n + 1
  OBVIOUS
<1>2. m \in 1 .. Len(s)
  BY <1>1
<1>3. s[m] \in S
  BY <1>2, ElementOfSeq
<1>4. PICK u \in Seq(S) : u = Append(t, s[m])
  BY <1>3, AppendProperties
<1>5. Len(u) = m /\ u[m] = s[m] /\ \A i \in 1 .. n : u[i] = t[i]
  BY <1>1, <1>3, <1>4, AppendProperties
<1>6. \A i \in 1 .. m : i = m \/ i \in 1 .. n
  BY <1>1
<1>7. \A i \in 1 .. Len(s) : s[i] = u[i]
  BY <1>1, <1>5, <1>6 DEF Agree
<1>8. s = u
  BY <1>1, <1>4, <1>5, <1>7, SeqEqual
<1>. QED BY <1>1, <1>4, <1>8

\* One more in the last of them.
LEMMA FlattenLast ==
  ASSUME NEW S, NEW r \in Seq(Seq(S)), NEW q \in Seq(S), NEW c \in S
  PROVE  FlattenSeq(Append(r, Append(q, c))) = Append(FlattenSeq(Append(r, q)), c)
<1>1. PICK qc \in Seq(S) : qc = Append(q, c)
  BY AppendProperties
<1>2. FlattenSeq(Append(r, qc)) = FlattenSeq(r) \o qc /\ FlattenSeq(Append(r, q)) = FlattenSeq(r) \o q
  BY FlattenAppend
<1>3. PICK f \in Seq(S) : f = FlattenSeq(r)
  BY FlattenType
<1>4. f \o qc = Append(f \o q, c)
  BY <1>1, ConcatAppend
<1>. QED BY <1>1, <1>2, <1>3, <1>4
===============================================================================
