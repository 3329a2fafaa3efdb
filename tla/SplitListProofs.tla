-------------------------- MODULE SplitListProofs --------------------------
(***************************************************************************)
(* Proofs about SplitList, for any threads, elements, keys, hash function, *)
(* number of hash bits and size of the table.                              *)
(*                                                                         *)
(* The list is what the links reach from the first bucket (InList, a       *)
(* recursive function).  The invariant says it with ranks instead: there   *)
(* is a numbering of the nodes that falls along every link (Chain), and    *)
(* the nodes of higher rank come first in the order of reversed hashes and *)
(* keys (Ordered).                                                         *)
(*                                                                         *)
(* WorldOK is about the list, the table and the elements; ThreadOK says    *)
(* what a thread relies on at its label; HandsOK that an element outside   *)
(* pool, purgatory and list is in one hand.  A node in the hands of a      *)
(* thread's cursor is pinned, and Held: in the list, or marked and freed.  *)
(* That a word read again has not changed says more of a held node than    *)
(* of any other, since no node comes back to the list while it is held.    *)
(*                                                                         *)
(* A lemma about a step speaks of the world before and after it, and of    *)
(* the thread that makes it; what the others keep follows from a few facts *)
(* about what one step may do to the world.                                *)
(*                                                                         *)
(* CallsOK adds what the call of a thread has seen of its key, and whether *)
(* it has changed the map; ListIsAKeyMap, at the end, rests on both.       *)
(***************************************************************************)
EXTENDS SplitList, TLAPS, SequenceTheorems, FiniteSetTheorems, WellFoundedInduction
-------------------------------------------------------------------------------
\* A set that contains 0, and with a number its successor, contains them all: a least
\* number outside it would have a predecessor in it.
LEMMA NatAll ==
  ASSUME NEW T, 0 \in T, \A n \in Nat : n \in T => n + 1 \in T
  PROVE  Nat \subseteq T
<1>. SUFFICES ASSUME Nat \ T # {} PROVE FALSE
  OBVIOUS
<1>1. PICK R : R = OpToRel(<, Nat)
  OBVIOUS
<1>2. \A x, y \in Nat : <<x, y>> \in R <=> x < y
  BY <1>1 DEF OpToRel
<1>3. PICK x \in Nat \ T : \A y \in Nat \ T : ~ (<<y, x>> \in R)
  BY <1>1, NatLessThanWellFounded, WFMin
<1>4. x # 0 /\ x - 1 \in Nat /\ x - 1 + 1 = x /\ x - 1 < x
  BY <1>3
<1>5. x - 1 \in T
  BY <1>2, <1>3, <1>4
<1>. QED BY <1>3, <1>4, <1>5
-------------------------------------------------------------------------------
(* Numbers and their bits: halves, powers of two and reversed bits.         *)

\* A function that doubles and adds a digit at every step.
Doubles(f, n, a, d) == f = [i \in 0 .. n |-> IF i = 0 THEN a ELSE 2 * f[i - 1] + d[i]]

LEMMA DoublesExists ==
  ASSUME NEW n \in Nat, NEW a \in Nat, NEW d \in [1 .. n -> Nat]
  PROVE  \E f \in [0 .. n -> Nat] : Doubles(f, n, a, d)
<1>. DEFINE P(m) == \E f \in [0 .. m -> Nat] : Doubles(f, m, a, d)
            T == {m \in Nat : m <= n => P(m)}
<1>1. 0 \in T
  <2>. DEFINE f == [i \in 0 .. 0 |-> a]
  <2>1. f \in [0 .. 0 -> Nat] /\ f = [i \in 0 .. 0 |-> IF i = 0 THEN a ELSE 2 * f[i - 1] + d[i]]
    OBVIOUS
  <2>. QED BY <2>1 DEF Doubles
<1>2. ASSUME NEW m \in Nat, m \in T PROVE m + 1 \in T
  <2>. SUFFICES ASSUME m + 1 <= n PROVE P(m + 1)
    OBVIOUS
  <2>1. PICK g \in [0 .. m -> Nat] : Doubles(g, m, a, d)
    BY <1>2
  <2>2. \A i \in 0 .. m : g[i] = IF i = 0 THEN a ELSE 2 * g[i - 1] + d[i]
    BY <2>1 DEF Doubles
  <2>3. d[m + 1] \in Nat /\ g[m] \in Nat
    OBVIOUS
  <2>. DEFINE f == [i \in 0 .. m + 1 |-> IF i = m + 1 THEN 2 * g[m] + d[m + 1] ELSE g[i]]
  <2>4. f \in [0 .. m + 1 -> Nat]
    BY <2>3
  <2>5. ASSUME NEW i \in 0 .. m + 1 PROVE f[i] = IF i = 0 THEN a ELSE 2 * f[i - 1] + d[i]
    <3>1. CASE i = m + 1
      <4>1. i # 0 /\ i - 1 = m /\ m \in 0 .. m + 1 /\ m # m + 1
        BY <3>1
      <4>. QED BY <3>1, <4>1
    <3>2. CASE i # m + 1
      <4>1. i \in 0 .. m /\ (i # 0 => i - 1 \in 0 .. m + 1 /\ i - 1 # m + 1)
        BY <3>2
      <4>. QED BY <2>2, <3>2, <4>1
    <3>. QED BY <3>1, <3>2
  <2>6. f = [i \in 0 .. m + 1 |-> IF i = 0 THEN a ELSE 2 * f[i - 1] + d[i]]
    BY <2>5
  <2>. QED BY <2>4, <2>6 DEF Doubles
<1>. HIDE DEF T
<1>3. n \in T
  BY <1>1, <1>2, NatAll
<1>. QED BY <1>3 DEF T

\* The powers of two.
LEMMA Pow2Is ==
  /\ Pow2 \in [0 .. HashBits -> Nat] /\ Pow2[0] = 1
  /\ \A i \in 1 .. HashBits : Pow2[i] = 2 * Pow2[i - 1]
<1>. DEFINE d == [i \in 1 .. HashBits |-> 0]
<1>1. HashBits \in Nat /\ 1 \in Nat /\ d \in [1 .. HashBits -> Nat]
  BY SplitListConstants
<1>. HIDE DEF d
<1>2. PICK f \in [0 .. HashBits -> Nat] : Doubles(f, HashBits, 1, d)
  BY <1>1, DoublesExists
<1>3. ASSUME NEW i \in 0 .. HashBits PROVE f[i] = IF i = 0 THEN 1 ELSE 2 * f[i - 1]
  <2>1. f[i] = IF i = 0 THEN 1 ELSE 2 * f[i - 1] + d[i]
    BY <1>2 DEF Doubles
  <2>2. i # 0 => i - 1 \in 0 .. HashBits /\ d[i] = 0
    BY <1>1 DEF d
  <2>3. i # 0 => f[i - 1] \in Nat
    BY <2>2
  <2>. QED BY <2>1, <2>2, <2>3
<1>4. f = [i \in 0 .. HashBits |-> IF i = 0 THEN 1 ELSE 2 * f[i - 1]]
  BY <1>3
<1>5. Pow2 = [i \in 0 .. HashBits |-> IF i = 0 THEN 1 ELSE 2 * Pow2[i - 1]]
  BY <1>4, Zenon DEF Pow2
<1>6. \A i \in 0 .. HashBits : Pow2[i] = IF i = 0 THEN 1 ELSE 2 * Pow2[i - 1]
  BY <1>5
<1>7. 0 \in 0 .. HashBits /\ \A i \in 1 .. HashBits : i \in 0 .. HashBits /\ i # 0
  BY <1>1
<1>. DEFINE T == {i \in Nat : i <= HashBits => Pow2[i] \in Nat}
<1>8. 0 \in T
  BY <1>6, <1>7
<1>9. ASSUME NEW i \in Nat, i \in T PROVE i + 1 \in T
  <2>. SUFFICES ASSUME i + 1 <= HashBits PROVE Pow2[i + 1] \in Nat
    OBVIOUS
  <2>1. i + 1 \in 0 .. HashBits /\ i + 1 # 0 /\ i + 1 - 1 = i /\ i <= HashBits
    BY <1>1
  <2>2. Pow2[i + 1] = 2 * Pow2[i]
    BY <1>6, <2>1
  <2>. QED BY <1>9, <2>1, <2>2
<1>. HIDE DEF T
<1>10. Nat \subseteq T
  BY <1>8, <1>9, NatAll
<1>11. \A i \in 0 .. HashBits : Pow2[i] \in Nat
  BY <1>10 DEF T
<1>12. Pow2 \in [0 .. HashBits -> Nat]
  BY <1>5, <1>11
<1>13. Pow2[0] = 1
  BY <1>6, <1>7
<1>14. \A i \in 1 .. HashBits : Pow2[i] = 2 * Pow2[i - 1]
  BY <1>6, <1>7
<1>. QED BY <1>12, <1>13, <1>14
LEMMA Pow2Positive == \A i \in 0 .. HashBits : Pow2[i] \in Nat /\ Pow2[i] > 0
<1>. DEFINE T == {i \in Nat : i <= HashBits => Pow2[i] > 0}
<1>1. 0 \in T
  BY Pow2Is
<1>2. ASSUME NEW i \in Nat, i \in T PROVE i + 1 \in T
  <2>. SUFFICES ASSUME i + 1 <= HashBits PROVE Pow2[i + 1] > 0
    OBVIOUS
  <2>0. HashBits \in Nat
    BY SplitListConstants
  <2>1. i + 1 \in 1 .. HashBits /\ i + 1 - 1 = i /\ i <= HashBits /\ i \in 0 .. HashBits
    BY <2>0
  <2>2. Pow2[i + 1] = 2 * Pow2[i] /\ Pow2[i] \in Nat
    BY <2>1, Pow2Is
  <2>. QED BY <1>2, <2>1, <2>2
<1>. HIDE DEF T
<1>3. Nat \subseteq T
  BY <1>1, <1>2, NatAll
<1>4. \A i \in 0 .. HashBits : Pow2[i] > 0
  BY <1>3 DEF T
<1>. QED BY <1>4, Pow2Is

\* q halves h, and f gathers its lowest bits, the first one on top.
Reversal(h, f, q) ==
    /\ f \in [0 .. HashBits -> Nat] /\ q \in [0 .. HashBits -> Nat]
    /\ q[0] = h /\ \A i \in 1 .. HashBits : q[i] = q[i - 1] \div 2
    /\ f[0] = 0 /\ \A i \in 1 .. HashBits : f[i] = (2 * f[i - 1]) + (q[i - 1] % 2)

LEMMA HalfOfQuotient ==
  ASSUME NEW h \in Nat, NEW p \in Nat, p > 0
  PROVE  h \div (2 * p) = (h \div p) \div 2 /\ h \div p \in Nat
OBVIOUS

LEMMA ReversalExists ==
  ASSUME NEW h \in Nat
  PROVE  \E f, q : Reversal(h, f, q) /\ ReverseBits(h) = f[HashBits]
<1>. DEFINE q == [i \in 0 .. HashBits |-> h \div Pow2[i]]
            d == [i \in 1 .. HashBits |-> (h \div Pow2[i - 1]) % 2]
<1>1. HashBits \in Nat /\ HashBits > 0
  BY SplitListConstants
<1>2. \A i \in 0 .. HashBits : Pow2[i] \in Nat /\ Pow2[i] > 0
  BY Pow2Positive
<1>3. \A i \in 0 .. HashBits : h \div Pow2[i] \in Nat
  BY <1>2, HalfOfQuotient
<1>4. q \in [0 .. HashBits -> Nat]
  BY <1>3
<1>5. \A i \in 1 .. HashBits : i - 1 \in 0 .. HashBits /\ i \in 0 .. HashBits
  BY <1>1
<1>6. d \in [1 .. HashBits -> Nat]
  BY <1>3, <1>5
<1>7. \A i \in 1 .. HashBits : q[i] = q[i - 1] \div 2
  <2>1. TAKE i \in 1 .. HashBits
  <2>2. Pow2[i] = 2 * Pow2[i - 1] /\ Pow2[i - 1] \in Nat /\ Pow2[i - 1] > 0
    BY <1>2, <1>5, Pow2Is
  <2>3. h \div (2 * Pow2[i - 1]) = (h \div Pow2[i - 1]) \div 2
    BY <2>2, HalfOfQuotient
  <2>. QED BY <1>5, <2>2, <2>3
<1>8. q[0] = h
  <2>1. Pow2[0] = 1 /\ 0 \in 0 .. HashBits
    BY <1>1, Pow2Is
  <2>2. h \div 1 = h
    OBVIOUS
  <2>. QED BY <2>1, <2>2
<1>9. PICK f \in [0 .. HashBits -> Nat] : Doubles(f, HashBits, 0, d)
  <2>. HIDE DEF d
  <2>1. 0 \in Nat
    OBVIOUS
  <2>. QED BY <1>1, <1>6, <2>1, DoublesExists
<1>10. \A i \in 0 .. HashBits : f[i] = IF i = 0 THEN 0 ELSE (2 * f[i - 1]) + ((h \div Pow2[i - 1]) % 2)
  <2>1. \A i \in 0 .. HashBits : f[i] = IF i = 0 THEN 0 ELSE 2 * f[i - 1] + d[i]
    BY <1>9 DEF Doubles
  <2>2. \A i \in 0 .. HashBits : i # 0 => d[i] = (h \div Pow2[i - 1]) % 2
    BY <1>1
  <2>. HIDE DEF d
  <2>. QED BY <2>1, <2>2
<1>11. f = [i \in 0 .. HashBits |-> IF i = 0 THEN 0 ELSE (2 * f[i - 1]) + ((h \div Pow2[i - 1]) % 2)]
  BY <1>10
<1>. DEFINE rev == CHOOSE g : g = [i \in 0 .. HashBits |-> IF i = 0 THEN 0 ELSE (2 * g[i - 1]) + ((h \div Pow2[i - 1]) % 2)]
<1>12. rev = [i \in 0 .. HashBits |-> IF i = 0 THEN 0 ELSE (2 * rev[i - 1]) + ((h \div Pow2[i - 1]) % 2)]
  BY <1>11, Zenon
<1>13. ReverseBits(h) = rev[HashBits]
  BY Zenon DEF ReverseBits
<1>. HIDE DEF rev
<1>14. \A i \in 0 .. HashBits : rev[i] = IF i = 0 THEN 0 ELSE (2 * rev[i - 1]) + ((h \div Pow2[i - 1]) % 2)
  BY <1>12
<1>15. rev[0] = 0
  BY <1>1, <1>14
<1>16. \A i \in 1 .. HashBits : rev[i] = (2 * rev[i - 1]) + (q[i - 1] % 2)
  <2>1. TAKE i \in 1 .. HashBits
  <2>2. i \in 0 .. HashBits /\ i - 1 \in 0 .. HashBits /\ i # 0
    BY <1>1
  <2>3. q[i - 1] = h \div Pow2[i - 1]
    BY <2>2
  <2>. HIDE DEF q
  <2>4. rev[i] = (2 * rev[i - 1]) + ((h \div Pow2[i - 1]) % 2)
    BY <1>14, <2>2
  <2>. QED BY <2>3, <2>4, Zenon
<1>. DEFINE T == {i \in Nat : i <= HashBits => rev[i] \in Nat}
<1>17. 0 \in T
  BY <1>15
<1>18. ASSUME NEW i \in Nat, i \in T PROVE i + 1 \in T
  <2>. SUFFICES ASSUME i + 1 <= HashBits PROVE rev[i + 1] \in Nat
    OBVIOUS
  <2>1. i + 1 \in 1 .. HashBits /\ i + 1 - 1 = i /\ i <= HashBits /\ i \in 0 .. HashBits
    BY <1>1
  <2>2. q[i] \in Nat
    BY <1>4, <2>1
  <2>. HIDE DEF q
  <2>3. rev[i + 1] = (2 * rev[i]) + (q[i] % 2)
    BY <1>16, <2>1
  <2>. QED BY <1>18, <2>1, <2>2, <2>3
<1>. HIDE DEF T
<1>19. Nat \subseteq T
  BY <1>17, <1>18, NatAll
<1>20. \A i \in 0 .. HashBits : rev[i] \in Nat
  BY <1>19 DEF T
<1>21. rev \in [0 .. HashBits -> Nat]
  BY <1>12, <1>20
<1>. HIDE DEF q
<1>. QED BY <1>4, <1>7, <1>8, <1>13, <1>15, <1>16, <1>21 DEF Reversal
LEMMA HalfOfMultiple ==
  ASSUME NEW c \in Nat, NEW w \in Nat, NEW g \in Nat, g < 2 * w
  PROVE  /\ (c * (2 * w) + g) \div 2 = c * w + (g \div 2)
         /\ (c * (2 * w) + g) % 2 = g % 2
         /\ g \div 2 < w
<1>1. PICK x \in Nat : x = c * w
  OBVIOUS
<1>2. c * (2 * w) = 2 * x
  BY <1>1
<1>3. (2 * x + g) \div 2 = x + (g \div 2) /\ (2 * x + g) % 2 = g % 2 /\ g \div 2 < w
  OBVIOUS
<1>. QED BY <1>1, <1>2, <1>3

\* The lowest bits of a number, reversed, are no more than the number reversed,
\* and less when the bit above them is set.
LEMMA LowBits ==
  ASSUME NEW h \in Nat, NEW g \in Nat, NEW c \in Nat, NEW k \in 0 .. HashBits,
         h = c * Pow2[k] + g, g < Pow2[k]
  PROVE  /\ ReverseBits(g) \in Nat /\ ReverseBits(h) \in Nat
         /\ ReverseBits(g) <= ReverseBits(h)
         /\ c % 2 = 1 /\ k < HashBits => ReverseBits(g) < ReverseBits(h)
<1>1. PICK fh, qh : Reversal(h, fh, qh) /\ ReverseBits(h) = fh[HashBits]
  BY ReversalExists
<1>2. PICK fg, qg : Reversal(g, fg, qg) /\ ReverseBits(g) = fg[HashBits]
  BY ReversalExists
<1>3. HashBits \in Nat /\ HashBits \in 0 .. HashBits
  BY SplitListConstants
<1>. DEFINE Low(i) == /\ qh[i] = c * Pow2[k - i] + qg[i] /\ qg[i] < Pow2[k - i]
                      /\ fh[i] = fg[i]
            High(i) == /\ qg[i] = 0 /\ fg[i] <= fh[i]
                       /\ c % 2 = 1 => fg[i] < fh[i]
            T == {i \in Nat : /\ i <= k => Low(i)
                              /\ k < i /\ i <= HashBits => High(i)}
<1>4. 0 \in T
  <2>1. qh[0] = h /\ qg[0] = g /\ fh[0] = 0 /\ fg[0] = 0 /\ k - 0 = k
    BY <1>1, <1>2 DEF Reversal
  <2>. QED BY <2>1
<1>5. ASSUME NEW i \in Nat, i \in T PROVE i + 1 \in T
  <2>0. CASE HashBits < i + 1
    BY <1>3, <2>0
  <2>. SUFFICES ASSUME i + 1 <= HashBits PROVE i + 1 \in T
    BY <1>3, <2>0
  <2>1. i + 1 \in 1 .. HashBits /\ i + 1 - 1 = i /\ i \in 0 .. HashBits /\ i + 1 \in 0 .. HashBits
    BY <1>3
  <2>2. /\ fh[i] \in Nat /\ fg[i] \in Nat /\ qh[i] \in Nat /\ qg[i] \in Nat
        /\ fh[i + 1] \in Nat /\ fg[i + 1] \in Nat
    BY <1>1, <1>2, <2>1 DEF Reversal
  <2>3. /\ qh[i + 1] = qh[i] \div 2 /\ fh[i + 1] = (2 * fh[i]) + (qh[i] % 2)
        /\ qg[i + 1] = qg[i] \div 2 /\ fg[i + 1] = (2 * fg[i]) + (qg[i] % 2)
    BY <1>1, <1>2, <2>1 DEF Reversal
  <2>4. CASE i + 1 <= k
    <3>1. Low(i)
      BY <1>5, <2>4
    <3>2. k - i \in 1 .. HashBits /\ k - i - 1 = k - (i + 1) /\ k - (i + 1) \in 0 .. HashBits
      BY <1>3, <2>4
    <3>3. PICK w \in Nat : w = Pow2[k - (i + 1)] /\ Pow2[k - i] = 2 * w
      BY <3>2, Pow2Is
    <3>4. qh[i] = c * (2 * w) + qg[i] /\ qg[i] < 2 * w /\ fh[i] = fg[i]
      BY <3>1, <3>3
    <3>5. qh[i] \div 2 = c * w + (qg[i] \div 2) /\ qh[i] % 2 = qg[i] % 2 /\ qg[i] \div 2 < w
      BY <2>2, <3>4, HalfOfMultiple
    <3>6. qh[i + 1] = c * w + qg[i + 1] /\ qg[i + 1] < w
      BY <2>3, <3>5
    <3>7. fh[i + 1] = fg[i + 1]
      BY <2>3, <3>4, <3>5
    <3>8. Low(i + 1)
      BY <3>3, <3>6, <3>7
    <3>. QED BY <2>4, <3>8
  <2>5. CASE i = k
    <3>1. Low(k)
      BY <1>5, <2>5
    <3>2. k - k = 0
      OBVIOUS
    <3>3. qh[k] = c * 1 + qg[k] /\ qg[k] < 1 /\ fh[k] = fg[k]
      BY <3>1, <3>2, Pow2Is
    <3>4. qg[k] = 0 /\ qh[k] = c
      BY <2>2, <2>5, <3>3
    <3>5. fh[k + 1] = (2 * fg[k]) + (c % 2) /\ fg[k + 1] = 2 * fg[k] /\ qg[k + 1] = 0
      BY <2>2, <2>3, <2>5, <3>3, <3>4
    <3>6. High(k + 1)
      BY <2>2, <2>5, <3>5
    <3>. QED BY <2>5, <3>6
  <2>6. CASE k < i
    <3>1. High(i)
      BY <1>3, <1>5, <2>6
    <3>2. High(i + 1)
      BY <2>2, <2>3, <3>1
    <3>. QED BY <2>6, <3>2
  <2>. QED BY <2>4, <2>5, <2>6
<1>. HIDE DEF T
<1>6. HashBits \in T
  BY <1>3, <1>4, <1>5, NatAll
<1>7. fg[HashBits] \in Nat /\ fh[HashBits] \in Nat
  BY <1>1, <1>2, <1>3 DEF Reversal
<1>8. CASE k < HashBits
  <2>1. High(HashBits)
    BY <1>3, <1>6, <1>8 DEF T
  <2>. QED BY <1>1, <1>2, <1>7, <2>1
<1>9. CASE k = HashBits
  <2>1. Low(HashBits)
    BY <1>3, <1>6, <1>9 DEF T
  <2>. QED BY <1>1, <1>2, <1>7, <1>9, <2>1
<1>. QED BY <1>3, <1>8, <1>9

\* Nothing is left of a number below a power of two after so many halves.
LEMMA NothingLeft ==
  ASSUME NEW h \in Nat, NEW f, NEW q, Reversal(h, f, q), h < Pow2[HashBits]
  PROVE  q[HashBits] = 0
<1>1. HashBits \in Nat
  BY SplitListConstants
<1>. DEFINE T == {i \in Nat : i <= HashBits => q[i] < Pow2[HashBits - i]}
<1>2. 0 \in T
  BY <1>1 DEF Reversal
<1>3. ASSUME NEW i \in Nat, i \in T PROVE i + 1 \in T
  <2>. SUFFICES ASSUME i + 1 <= HashBits PROVE q[i + 1] < Pow2[HashBits - (i + 1)]
    OBVIOUS
  <2>1. /\ i + 1 \in 1 .. HashBits /\ i + 1 - 1 = i /\ i \in 0 .. HashBits
        /\ HashBits - i \in 1 .. HashBits /\ HashBits - i - 1 = HashBits - (i + 1)
        /\ HashBits - (i + 1) \in 0 .. HashBits
    BY <1>1
  <2>2. q[i] \in Nat
    BY <2>1 DEF Reversal
  <2>5. q[i + 1] = q[i] \div 2
    BY <2>1 DEF Reversal
  <2>3. PICK w \in Nat : w = Pow2[HashBits - (i + 1)] /\ Pow2[HashBits - i] = 2 * w
    BY <2>1, Pow2Is
  <2>4. q[i] < 2 * w
    BY <1>3, <2>1, <2>3
  <2>. QED BY <2>2, <2>3, <2>4, <2>5
<1>. HIDE DEF T
<1>4. HashBits \in T
  BY <1>1, <1>2, <1>3, NatAll
<1>5. q[HashBits] < Pow2[0]
  BY <1>1, <1>4 DEF T
<1>6. q[HashBits] \in Nat
  BY <1>1 DEF Reversal
<1>. QED BY <1>5, <1>6, Pow2Is

LEMMA SameDigits ==
  ASSUME NEW a \in Nat, NEW b \in Nat, NEW x \in Nat, NEW y \in Nat,
         (2 * a) + (x % 2) = (2 * b) + (y % 2), x \div 2 = y \div 2
  PROVE  a = b /\ x = y
OBVIOUS

\* No two numbers below a power of two are the same reversed.
LEMMA ReverseInjective ==
  ASSUME NEW h \in Nat, NEW g \in Nat, h < Pow2[HashBits], g < Pow2[HashBits],
         ReverseBits(h) = ReverseBits(g)
  PROVE  h = g
<1>1. PICK fh, qh : Reversal(h, fh, qh) /\ ReverseBits(h) = fh[HashBits]
  BY ReversalExists
<1>2. PICK fg, qg : Reversal(g, fg, qg) /\ ReverseBits(g) = fg[HashBits]
  BY ReversalExists
<1>3. HashBits \in Nat
  BY SplitListConstants
<1>. DEFINE T == {i \in Nat : i <= HashBits => /\ fh[HashBits - i] = fg[HashBits - i]
                                               /\ qh[HashBits - i] = qg[HashBits - i]}
<1>4. 0 \in T
  <2>1. qh[HashBits] = 0 /\ qg[HashBits] = 0 /\ HashBits - 0 = HashBits
    BY <1>1, <1>2, <1>3, NothingLeft
  <2>. QED BY <1>1, <1>2, <2>1
<1>5. ASSUME NEW i \in Nat, i \in T PROVE i + 1 \in T
  <2>. SUFFICES ASSUME i + 1 <= HashBits
                PROVE  /\ fh[HashBits - (i + 1)] = fg[HashBits - (i + 1)]
                       /\ qh[HashBits - (i + 1)] = qg[HashBits - (i + 1)]
    OBVIOUS
  <2>1. PICK m \in Nat : m = HashBits - (i + 1)
    BY <1>3
  <2>2. /\ m + 1 = HashBits - i /\ m + 1 \in 1 .. HashBits /\ m + 1 - 1 = m
        /\ m \in 0 .. HashBits /\ i <= HashBits
    BY <1>3, <2>1
  <2>3. fh[m + 1] = fg[m + 1] /\ qh[m + 1] = qg[m + 1]
    BY <1>5, <2>2
  <2>4. /\ qh[m + 1] = qh[m] \div 2 /\ fh[m + 1] = (2 * fh[m]) + (qh[m] % 2)
        /\ qg[m + 1] = qg[m] \div 2 /\ fg[m + 1] = (2 * fg[m]) + (qg[m] % 2)
    BY <1>1, <1>2, <2>2 DEF Reversal
  <2>5. qh[m] \in Nat /\ qg[m] \in Nat /\ fh[m] \in Nat /\ fg[m] \in Nat
    BY <1>1, <1>2, <2>2 DEF Reversal
  <2>6. fh[m] = fg[m] /\ qh[m] = qg[m]
    <3>1. (2 * fh[m]) + (qh[m] % 2) = (2 * fg[m]) + (qg[m] % 2) /\ qh[m] \div 2 = qg[m] \div 2
      BY <2>3, <2>4, Zenon
    <3>. QED BY <2>5, <3>1, SameDigits
  <2>. QED BY <2>1, <2>6
<1>. HIDE DEF T
<1>6. HashBits \in T
  BY <1>3, <1>4, <1>5, NatAll
<1>7. qh[0] = qg[0]
  BY <1>3, <1>6 DEF T
<1>. QED BY <1>1, <1>2, <1>7 DEF Reversal
\* What the order of the list rests on: buckets, their parents and the keys that
\* belong to them.
LEMMA BucketBounds ==
  /\ 0 \in Buckets /\ HashBits \in Nat /\ HashBits - 1 \in 0 .. HashBits
  /\ Pow2[HashBits - 1] \in Nat /\ Pow2[HashBits] = 2 * Pow2[HashBits - 1] /\ Pow2[HashBits] \in Nat
  /\ \A b \in Buckets : b \in Nat /\ b < Pow2[HashBits] /\ b < Pow2[HashBits - 1]
<1>1. HashBits \in Nat \ {0} /\ MaxSize \in 1 .. Pow2[HashBits - 1]
  BY SplitListConstants
<1>2. HashBits - 1 \in 0 .. HashBits /\ HashBits \in 1 .. HashBits /\ HashBits \in 0 .. HashBits
  BY <1>1
<1>3. Pow2[HashBits - 1] \in Nat /\ Pow2[HashBits] \in Nat /\ Pow2[HashBits] = 2 * Pow2[HashBits - 1]
  BY <1>2, Pow2Is
<1>4. MaxSize \in Nat /\ 1 <= MaxSize /\ MaxSize <= Pow2[HashBits - 1]
  BY <1>1, <1>3
<1>5. 0 \in Buckets
  BY <1>4 DEF Buckets
<1>6. ASSUME NEW b \in Buckets PROVE b \in Nat /\ b < Pow2[HashBits] /\ b < Pow2[HashBits - 1]
  BY <1>3, <1>4 DEF Buckets
<1>. QED BY <1>1, <1>2, <1>3, <1>5, <1>6

LEMMA BucketReversed == \A b \in Buckets : ReverseBits(b) \in Nat
<1>1. TAKE b \in Buckets
<1>2. b \in Nat
  BY BucketBounds
<1>3. PICK f, q : Reversal(b, f, q) /\ ReverseBits(b) = f[HashBits]
  BY <1>2, ReversalExists
<1>. QED BY <1>3, BucketBounds DEF Reversal

LEMMA BucketsDiffer ==
  \A a, b \in Buckets : ReverseBits(a) = ReverseBits(b) => a = b
BY BucketBounds, ReverseInjective

\* The highest bit of a number.
LEMMA HighestBit ==
  ASSUME NEW b \in Nat, b # 0, b < Pow2[HashBits]
  PROVE  \E i \in 0 .. HashBits : Pow2[i] <= b /\ b < 2 * Pow2[i]
<1>. DEFINE T == {n \in Nat : n <= HashBits /\ b < Pow2[n] =>
                                 \E i \in 0 .. HashBits : Pow2[i] <= b /\ b < 2 * Pow2[i]}
<1>1. 0 \in T
  BY Pow2Is
<1>2. ASSUME NEW n \in Nat, n \in T PROVE n + 1 \in T
  <2>. SUFFICES ASSUME n + 1 <= HashBits, b < Pow2[n + 1]
                PROVE  \E i \in 0 .. HashBits : Pow2[i] <= b /\ b < 2 * Pow2[i]
    OBVIOUS
  <2>1. n + 1 \in 1 .. HashBits /\ n + 1 - 1 = n /\ n \in 0 .. HashBits /\ n <= HashBits
    BY BucketBounds
  <2>2. Pow2[n + 1] = 2 * Pow2[n] /\ Pow2[n] \in Nat
    BY <2>1, Pow2Is
  <2>3. CASE b < Pow2[n]
    BY <1>2, <2>1, <2>3
  <2>4. CASE ~ (b < Pow2[n])
    BY <2>1, <2>2, <2>4
  <2>. QED BY <2>3, <2>4
<1>. HIDE DEF T
<1>3. HashBits \in T
  BY <1>1, <1>2, NatAll, BucketBounds
<1>. QED BY <1>3, BucketBounds DEF T

LEMMA ParentIs ==
  /\ ClearHighestBit(0) = 0
  /\ \A b \in Buckets : /\ ClearHighestBit(b) \in Buckets
                        /\ b # 0 => /\ ClearHighestBit(b) < b
                                    /\ ReverseBits(ClearHighestBit(b)) < ReverseBits(b)
<1>1. ClearHighestBit(0) = 0
  BY DEF ClearHighestBit
<1>2. ASSUME NEW b \in Buckets, b # 0
      PROVE  /\ ClearHighestBit(b) \in Buckets /\ ClearHighestBit(b) < b
             /\ ReverseBits(ClearHighestBit(b)) < ReverseBits(b)
  <2>1. b \in Nat /\ b < Pow2[HashBits - 1] /\ b < Pow2[HashBits]
    BY BucketBounds
  <2>. DEFINE top == CHOOSE p \in {Pow2[i] : i \in 0 .. HashBits} : p <= b /\ b < 2 * p
  <2>2. top \in {Pow2[i] : i \in 0 .. HashBits} /\ top <= b /\ b < 2 * top
    <3>1. \E p \in {Pow2[i] : i \in 0 .. HashBits} : p <= b /\ b < 2 * p
      BY <1>2, <2>1, HighestBit
    <3>. QED BY <3>1
  <2>3. ClearHighestBit(b) = b - top
    BY <1>2 DEF ClearHighestBit
  <2>. HIDE DEF top
  <2>4. PICK i \in 0 .. HashBits : top = Pow2[i]
    BY <2>2
  <2>5. top \in Nat
    BY <2>4, Pow2Is
  <2>6. i \in Nat
    OBVIOUS
  <2>7. i # HashBits
    BY <2>1, <2>2, <2>4, <2>5
  <2>8. i < HashBits
    BY <2>6, <2>7, BucketBounds
  <2>9. PICK g \in Nat : g = b - top
    BY <2>1, <2>2, <2>5
  <2>10. b = 1 * Pow2[i] + g /\ g < Pow2[i] /\ top > 0
    BY <2>1, <2>2, <2>4, <2>5, <2>9
  <2>11. 1 \in Nat /\ 1 % 2 = 1
    OBVIOUS
  <2>12. ReverseBits(g) < ReverseBits(b)
    BY <2>1, <2>8, <2>10, <2>11, LowBits
  <2>13. g < b
    BY <2>1, <2>5, <2>9, <2>10
  <2>14. g \in Buckets
    BY <2>13, SplitListConstants DEF Buckets
  <2>. QED BY <2>3, <2>9, <2>12, <2>13, <2>14
<1>. QED BY <1>1, <1>2, BucketBounds

\* The hash number of a key is above that of the bucket it is found in.
LEMMA KeyHash ==
  ASSUME NEW k \in Keys
  PROVE  SplitHash(k) \in Nat /\ k \in Nat /\ k # DummyKey /\ 0 < k
<1>1. Hash[k] \in Nat /\ k \in Nat \ {DummyKey}
  BY SplitListConstants, BucketBounds
<1>2. PICK f, q : Reversal(Hash[k], f, q) /\ ReverseBits(Hash[k]) = f[HashBits]
  BY <1>1, ReversalExists
<1>3. f[HashBits] \in Nat
  BY <1>2, BucketBounds DEF Reversal
<1>. QED BY <1>1, <1>2, <1>3 DEF SplitHash, DummyKey

LEMMA QuotientIs ==
  ASSUME NEW h \in Nat, NEW p \in Nat, p > 0
  PROVE  h \div p \in Nat /\ h % p \in Nat /\ h % p < p /\ h = (h \div p) * p + (h % p)
OBVIOUS

SizeOK(z) == z \in Nat /\ \E j \in 0 .. HashBits - 1 : z = Pow2[j] /\ z <= MaxSize

LEMMA BucketOfKey ==
  ASSUME NEW k \in Keys, NEW z, SizeOK(z)
  PROVE  Hash[k] % z \in Buckets /\ ReverseBits(Hash[k] % z) < SplitHash(k)
<1>1. Hash[k] \in Nat
  BY SplitListConstants, BucketBounds
<1>2. PICK j \in 0 .. HashBits - 1 : z = Pow2[j] /\ z <= MaxSize /\ z \in Nat
  BY DEF SizeOK
<1>3. j \in 0 .. HashBits
  BY BucketBounds
<1>4. z > 0
  BY <1>2, <1>3, Pow2Positive
<1>5. PICK c \in Nat, g \in Nat : c = Hash[k] \div z /\ g = Hash[k] % z /\ g < z /\ Hash[k] = c * z + g
  <2>1. PICK h \in Nat : h = Hash[k]
    BY <1>1
  <2>2. h \div z \in Nat /\ h % z \in Nat /\ h % z < z /\ h = (h \div z) * z + (h % z)
    BY <1>2, <1>4, QuotientIs
  <2>. QED BY <2>1, <2>2, Zenon
<1>6. Hash[k] = c * Pow2[j] + g /\ g < Pow2[j]
  BY <1>2, <1>5
<1>7. ReverseBits(g) <= ReverseBits(Hash[k]) /\ ReverseBits(g) \in Nat /\ ReverseBits(Hash[k]) \in Nat
  BY <1>1, <1>3, <1>6, LowBits
<1>8. g \in Buckets
  <2>1. MaxSize \in Nat
    BY SplitListConstants, BucketBounds
  <2>. QED BY <1>2, <1>5, <2>1 DEF Buckets
<1>. QED BY <1>5, <1>7, <1>8 DEF SplitHash

LEMMA DoubleSize ==
  ASSUME NEW z, SizeOK(z), 2 * z <= MaxSize
  PROVE  SizeOK(2 * z)
<1>1. PICK j \in 0 .. HashBits - 1 : z = Pow2[j] /\ z <= MaxSize /\ z \in Nat
  BY DEF SizeOK
<1>2. j \in Nat /\ j + 1 \in 1 .. HashBits /\ j + 1 - 1 = j /\ j + 1 \in Nat
  BY BucketBounds
<1>3. Pow2[j + 1] = 2 * z
  BY <1>1, <1>2, Pow2Is
<1>4. MaxSize \in Nat /\ MaxSize <= Pow2[HashBits - 1]
  BY SplitListConstants, BucketBounds
<1>5. Pow2[j + 1] \in Nat
  BY <1>1, <1>3
<1>6. j + 1 # HashBits
  <2>. SUFFICES ASSUME j + 1 = HashBits PROVE FALSE
    OBVIOUS
  <2>1. z = Pow2[HashBits - 1]
    BY <1>1, <1>2
  <2>2. z > 0
    BY <2>1, Pow2Positive, BucketBounds
  <2>3. 2 * z <= z
    BY <1>1, <1>4, <2>1
  <2>. QED BY <1>1, <2>2, <2>3
<1>7. j + 1 \in 0 .. HashBits - 1
  BY <1>2, <1>6, BucketBounds
<1>. QED BY <1>3, <1>5, <1>7 DEF SizeOK
-------------------------------------------------------------------------------
(* The list: what its links reach.                                          *)

Links == [Nodes -> [to : Nodes \cup {None}, deleted : BOOLEAN]]

\* r grows from the end of the list L to its first node.
Chain(L, r, lk, first) ==
    /\ L \subseteq Nodes
    /\ first = None <=> L = {}
    /\ first # None => first \in L /\ \A m \in L : r[m] <= r[first]
    /\ \A n \in L : lk[n].to # None => lk[n].to \in L /\ r[lk[n].to] < r[n]
    /\ \A n, m \in L : r[m] < r[n] => lk[n].to # None /\ r[m] <= r[lk[n].to]
    /\ \A n, m \in L : r[n] = r[m] => n = m

ListFrom(lk, first) ==
    LET from[n \in Nodes \cup {None}] == IF n = None THEN {} ELSE {n} \cup from[lk[n].to]
    IN  from[first]

LEMMA ListIs == InList = ListFrom(link, bucket[0])
BY Zenon DEF InList, ListFrom

\* A set that goes on with every node it has; what such sets have in common.
ClosedUnder(S, lk) == \A n \in S : lk[n].to # None => lk[n].to \in S
Reach(n, lk) == {m \in Nodes : \A S \in SUBSET Nodes : n \in S /\ ClosedUnder(S, lk) => m \in S}

LEMMA ReachStep ==
  ASSUME NEW lk \in Links, NEW n \in Nodes
  PROVE  Reach(n, lk) = {n} \cup (IF lk[n].to = None THEN {} ELSE Reach(lk[n].to, lk))
<1>. DEFINE rest == IF lk[n].to = None THEN {} ELSE Reach(lk[n].to, lk)
<1>1. lk[n].to \in Nodes \cup {None} /\ None \notin Nodes
  BY SplitListConstants DEF Links
<1>2. n \in Reach(n, lk)
  BY DEF Reach
<1>3. ASSUME lk[n].to # None, NEW m \in Reach(lk[n].to, lk) PROVE m \in Reach(n, lk)
  <2>1. m \in Nodes
    BY DEF Reach
  <2>2. ASSUME NEW S \in SUBSET Nodes, n \in S, ClosedUnder(S, lk) PROVE m \in S
    <3>1. lk[n].to \in S
      BY <1>3, <2>2 DEF ClosedUnder
    <3>. QED BY <1>3, <2>2, <3>1 DEF Reach
  <2>. QED BY <2>1, <2>2 DEF Reach
<1>4. ASSUME NEW m \in Reach(n, lk), m # n, m \notin rest PROVE FALSE
  <2>. DEFINE S == {n} \cup rest
  <2>1. S \subseteq Nodes
    BY DEF Reach
  <2>2. ClosedUnder(S, lk)
    <3>1. ASSUME NEW x \in S, lk[x].to # None PROVE lk[x].to \in S
      <4>1. CASE x = n
        <5>1. lk[n].to \in Reach(lk[n].to, lk)
          BY <1>1, <3>1, <4>1 DEF Reach
        <5>. QED BY <3>1, <4>1, <5>1
      <4>2. CASE x # n
        <5>1. lk[n].to # None /\ x \in Reach(lk[n].to, lk) /\ x \in Nodes
          BY <4>2 DEF Reach
        <5>2. lk[x].to \in Nodes
          BY <3>1, <5>1 DEF Links
        <5>3. lk[x].to \in Reach(lk[n].to, lk)
          <6>1. ASSUME NEW U \in SUBSET Nodes, lk[n].to \in U, ClosedUnder(U, lk) PROVE lk[x].to \in U
            <7>1. x \in U
              BY <5>1, <6>1 DEF Reach
            <7>. QED BY <3>1, <6>1, <7>1 DEF ClosedUnder
          <6>. QED BY <5>2, <6>1 DEF Reach
        <5>. QED BY <5>1, <5>3
      <4>. QED BY <4>1, <4>2
    <3>. HIDE DEF S
    <3>. QED BY <3>1 DEF ClosedUnder
  <2>3. n \in S
    OBVIOUS
  <2>4. m \notin S
    BY <1>4
  <2>. HIDE DEF S
  <2>. QED BY <2>1, <2>2, <2>3, <2>4, <1>4 DEF Reach
<1>. QED BY <1>2, <1>3, <1>4

LEMMA FromExists ==
  ASSUME NEW lk \in Links
  PROVE  \E f : f = [n \in Nodes \cup {None} |-> IF n = None THEN {} ELSE {n} \cup f[lk[n].to]]
<1>. DEFINE f == [n \in Nodes \cup {None} |-> IF n = None THEN {} ELSE Reach(n, lk)]
<1>1. ASSUME NEW n \in Nodes \cup {None} PROVE f[n] = IF n = None THEN {} ELSE {n} \cup f[lk[n].to]
  <2>1. CASE n = None
    BY <2>1
  <2>2. CASE n # None
    <3>1. n \in Nodes /\ lk[n].to \in Nodes \cup {None}
      BY <2>2 DEF Links
    <3>2. f[n] = {n} \cup (IF lk[n].to = None THEN {} ELSE Reach(lk[n].to, lk))
      BY <2>2, <3>1, ReachStep
    <3>3. f[lk[n].to] = IF lk[n].to = None THEN {} ELSE Reach(lk[n].to, lk)
      BY <3>1
    <3>. QED BY <2>2, <3>2, <3>3
  <2>. QED BY <2>1, <2>2
<1>2. f = [n \in Nodes \cup {None} |-> IF n = None THEN {} ELSE {n} \cup f[lk[n].to]]
  BY <1>1
<1>. QED BY <1>2

\* A chain is what its first node leads to.
LEMMA ListFromIs ==
  ASSUME NEW lk \in Links, NEW L, NEW r \in [Nodes -> Nat], NEW first, Chain(L, r, lk, first)
  PROVE  ListFrom(lk, first) = L
<1>. DEFINE from == CHOOSE f : f = [n \in Nodes \cup {None} |-> IF n = None THEN {} ELSE {n} \cup f[lk[n].to]]
<1>1. from = [n \in Nodes \cup {None} |-> IF n = None THEN {} ELSE {n} \cup from[lk[n].to]]
  BY FromExists, Zenon
<1>2. ListFrom(lk, first) = from[first]
  BY Zenon DEF ListFrom
<1>. HIDE DEF from
<1>3. \A n \in Nodes \cup {None} : from[n] = IF n = None THEN {} ELSE {n} \cup from[lk[n].to]
  BY <1>1
<1>. DEFINE Behind(n) == {m \in L : r[m] <= r[n]}
            T == {k \in Nat : \A n \in L : r[n] < k => from[n] = Behind(n)}
<1>4. L \subseteq Nodes /\ None \notin Nodes
  BY SplitListConstants DEF Chain
<1>5. \A n \in L : r[n] \in Nat
  BY <1>4
<1>6. 0 \in T
  BY <1>5
<1>7. ASSUME NEW k \in Nat, k \in T PROVE k + 1 \in T
  <2>. SUFFICES ASSUME NEW n \in L, r[n] < k + 1 PROVE from[n] = Behind(n)
    OBVIOUS
  <2>1. from[n] = {n} \cup from[lk[n].to] /\ n \in Nodes /\ n # None
    BY <1>3, <1>4
  <2>2. CASE lk[n].to = None
    <3>1. from[lk[n].to] = {}
      BY <1>3, <2>2
    <3>2. ASSUME NEW m \in L, r[m] <= r[n] PROVE m = n
      BY <1>5, <2>2, <3>2 DEF Chain
    <3>3. Behind(n) = {n}
      BY <1>5, <3>2
    <3>. QED BY <2>1, <3>1, <3>3
  <2>3. CASE lk[n].to # None
    <3>1. PICK nx \in L : nx = lk[n].to /\ r[nx] < r[n]
      BY <2>3 DEF Chain
    <3>2. from[nx] = Behind(nx)
      BY <1>5, <1>7, <3>1
    <3>3. ASSUME NEW m \in L PROVE r[m] <= r[n] <=> m = n \/ r[m] <= r[nx]
      BY <1>5, <3>1 DEF Chain
    <3>4. Behind(n) = {n} \cup Behind(nx)
      BY <3>3
    <3>. QED BY <2>1, <3>1, <3>2, <3>4
  <2>. QED BY <2>2, <2>3
<1>. HIDE DEF T
<1>8. Nat \subseteq T
  BY <1>6, <1>7, NatAll
<1>9. \A n \in L : from[n] = Behind(n)
  <2>1. TAKE n \in L
  <2>2. r[n] + 1 \in Nat /\ r[n] < r[n] + 1
    BY <1>5
  <2>. QED BY <1>8, <2>2 DEF T
<1>10. CASE first = None
  BY <1>2, <1>3, <1>10 DEF Chain
<1>11. CASE first # None
  <2>1. first \in L /\ \A m \in L : r[m] <= r[first]
    BY <1>11 DEF Chain
  <2>2. Behind(first) = L
    BY <2>1
  <2>. QED BY <1>2, <1>9, <2>1, <2>2
<1>. QED BY <1>10, <1>11
\* Behind prev the links of L are what they were, but where they are named.
SameNext(L, lk, lk2, S) == \A m \in L : m \notin S => lk2[m].to = lk[m].to
\* r2 ranks the nodes of L as r does, and n right behind prev.
Fits(L, r, r2, n, prev) ==
    /\ \A x, y \in L : r2[x] < r2[y] <=> r[x] < r[y]
    /\ \A m \in L : /\ r2[m] < r2[n] <=> r[m] < r[prev]
                    /\ r2[n] < r2[m] <=> r[prev] <= r[m]

\* A node behind prev.
LEMMA ChainInsert ==
  ASSUME NEW lk \in Links, NEW lk2 \in Links, NEW L, NEW r \in [Nodes -> Nat], NEW first,
         Chain(L, r, lk, first), NEW n \in Nodes, n \notin L, NEW prev \in L,
         lk2[prev].to = n, lk2[n].to = lk[prev].to, SameNext(L, lk, lk2, {prev})
  PROVE  \E r2 \in [Nodes -> Nat] : Chain(L \cup {n}, r2, lk2, first) /\ Fits(L, r, r2, n, prev)
<1>. DEFINE r2 == [m \in Nodes |-> IF m = n THEN 2 * r[prev] + 1 ELSE 2 * r[m] + 2]
<1>0. n # None /\ None \notin Nodes
  BY SplitListConstants
<1>1. L \subseteq Nodes /\ \A m \in L : r[m] \in Nat /\ m # n
  BY DEF Chain
<1>2. r2 \in [Nodes -> Nat]
  <2>1. ASSUME NEW m \in Nodes PROVE (IF m = n THEN 2 * r[prev] + 1 ELSE 2 * r[m] + 2) \in Nat
    <3>1. r[m] \in Nat /\ r[prev] \in Nat
      BY <1>1
    <3>. QED BY <3>1
  <2>. QED BY <2>1
<1>3. r2[n] = 2 * r[prev] + 1 /\ \A m \in L : r2[m] = 2 * r[m] + 2
  BY <1>1
<1>. HIDE DEF r2
<1>4. \A x, y \in L : r2[x] < r2[y] <=> r[x] < r[y]
  BY <1>1, <1>3
<1>5. \A m \in L : /\ r2[m] < r2[n] <=> r[m] < r[prev]
                   /\ r2[n] < r2[m] <=> r[prev] <= r[m]
                   /\ r2[m] # r2[n]
  <2>1. TAKE m \in L
  <2>2. r[m] \in Nat /\ r[prev] \in Nat /\ r2[m] = 2 * r[m] + 2 /\ r2[n] = 2 * r[prev] + 1
    BY <1>1, <1>3
  <2>. QED BY <2>2
<1>6. \A m \in L \cup {n} : r2[m] \in Nat
  BY <1>1, <1>2
<1>7. first # None => first \in L /\ \A m \in L \cup {n} : r2[m] <= r2[first]
  <2>. SUFFICES ASSUME first # None PROVE first \in L /\ \A m \in L \cup {n} : r2[m] <= r2[first]
    OBVIOUS
  <2>1. first \in L /\ \A m \in L : r[m] <= r[first]
    BY DEF Chain
  <2>2. \A m \in L : r2[m] <= r2[first]
    BY <1>1, <1>3, <2>1
  <2>3. r2[n] < r2[first]
    BY <1>5, <2>1
  <2>. QED BY <1>6, <2>1, <2>2, <2>3
<1>8. ASSUME NEW m \in L \cup {n}, lk2[m].to # None
      PROVE  lk2[m].to \in L \cup {n} /\ r2[lk2[m].to] < r2[m]
  <2>1. CASE m = n
    <3>1. lk[prev].to \in L /\ r[lk[prev].to] < r[prev]
      BY <1>8, <2>1 DEF Chain
    <3>. QED BY <1>5, <2>1, <3>1
  <2>2. CASE m = prev
    <3>1. r[prev] <= r[prev]
      BY <1>1
    <3>. QED BY <1>5, <2>2, <3>1
  <2>3. CASE m # n /\ m # prev
    <3>1. m \in L /\ lk2[m].to = lk[m].to
      BY <2>3 DEF SameNext
    <3>2. lk[m].to \in L /\ r[lk[m].to] < r[m]
      BY <1>8, <3>1 DEF Chain
    <3>. QED BY <1>4, <3>1, <3>2
  <2>. QED BY <2>1, <2>2, <2>3
<1>9. ASSUME NEW x \in L \cup {n}, NEW y \in L \cup {n}, r2[y] < r2[x]
      PROVE  lk2[x].to # None /\ r2[y] <= r2[lk2[x].to]
  <2>0. \A a, b \in L : r[b] < r[a] => lk[a].to # None /\ lk[a].to \in L /\ r[b] <= r[lk[a].to]
    BY DEF Chain
  <2>1. CASE x = n
    <3>1. y \in L /\ r[y] < r[prev]
      BY <1>5, <1>6, <1>9, <2>1
    <3>2. lk[prev].to # None /\ lk[prev].to \in L /\ r[y] <= r[lk[prev].to]
      BY <2>0, <3>1
    <3>. QED BY <1>1, <1>3, <2>1, <3>1, <3>2
  <2>2. CASE x = prev
    <3>1. CASE y = n
      BY <1>0, <1>6, <2>2, <3>1
    <3>2. CASE y # n
      <4>1. y \in L /\ r[y] < r[prev]
        BY <1>4, <1>9, <2>2, <3>2
      <4>2. r2[y] < r2[n]
        BY <1>5, <4>1
      <4>. QED BY <1>0, <1>6, <2>2, <4>2
    <3>. QED BY <3>1, <3>2
  <2>3. CASE x # n /\ x # prev
    <3>1. x \in L /\ lk2[x].to = lk[x].to
      BY <2>3 DEF SameNext
    <3>2. CASE y = n
      <4>1. r[prev] <= r[x] /\ r[prev] # r[x]
        <5>1. r[prev] <= r[x]
          BY <1>5, <1>9, <3>1, <3>2
        <5>2. r[prev] # r[x]
          BY <2>3, <3>1 DEF Chain
        <5>. QED BY <5>1, <5>2
      <4>2. lk[x].to # None /\ lk[x].to \in L /\ r[prev] <= r[lk[x].to]
        BY <1>1, <2>0, <3>1, <4>1
      <4>3. r2[n] < r2[lk[x].to]
        BY <1>5, <4>2
      <4>. QED BY <1>6, <3>1, <3>2, <4>2, <4>3
    <3>3. CASE y # n
      <4>1. y \in L /\ r[y] < r[x]
        BY <1>4, <1>9, <3>1, <3>3
      <4>2. lk[x].to # None /\ lk[x].to \in L /\ r[y] <= r[lk[x].to]
        BY <2>0, <3>1, <4>1
      <4>. QED BY <1>1, <1>3, <3>1, <4>1, <4>2
    <3>. QED BY <3>2, <3>3
  <2>. QED BY <2>1, <2>2, <2>3
<1>10. ASSUME NEW x \in L \cup {n}, NEW y \in L \cup {n}, r2[x] = r2[y] PROVE x = y
  <2>1. CASE x = n \/ y = n
    BY <1>5, <1>10, <2>1
  <2>2. CASE x # n /\ y # n
    <3>1. x \in L /\ y \in L
      BY <2>2
    <3>2. PICK a \in Nat, b \in Nat : a = r[x] /\ b = r[y]
      BY <1>1, <3>1
    <3>3. 2 * a + 2 = 2 * b + 2
      BY <1>3, <1>10, <3>1, <3>2
    <3>4. a = b
      BY <3>3
    <3>5. r[x] = r[y]
      BY <3>2, <3>4
    <3>. QED BY <3>1, <3>5 DEF Chain
  <2>. QED BY <2>1, <2>2
<1>11. first = None <=> L \cup {n} = {}
  BY DEF Chain
<1>12. Chain(L \cup {n}, r2, lk2, first)
  BY <1>1, <1>7, <1>8, <1>9, <1>10, <1>11 DEF Chain
<1>13. Fits(L, r, r2, n, prev)
  BY <1>4, <1>5 DEF Fits
<1>. QED BY <1>2, <1>12, <1>13

\* The first node.
LEMMA ChainFirst ==
  ASSUME NEW lk2 \in Links, NEW r \in [Nodes -> Nat], NEW n \in Nodes, lk2[n].to = None
  PROVE  Chain({n}, r, lk2, n)
<1>1. n # None /\ r[n] \in Nat
  BY SplitListConstants
<1>. QED BY <1>1 DEF Chain

\* The node behind prev goes.
LEMMA ChainRemove ==
  ASSUME NEW lk \in Links, NEW lk2 \in Links, NEW L, NEW r \in [Nodes -> Nat], NEW first,
         Chain(L, r, lk, first), NEW prev \in L, NEW curr \in L, lk[prev].to = curr,
         lk2[prev].to = lk[curr].to, SameNext(L, lk, lk2, {prev, curr})
  PROVE  Chain(L \ {curr}, r, lk2, first) /\ prev # curr
<1>. DEFINE K == L \ {curr}
<1>1. L \subseteq Nodes /\ None \notin Nodes /\ \A m \in L : r[m] \in Nat /\ m # None
  BY SplitListConstants DEF Chain
<1>2. r[curr] < r[prev] /\ prev # curr
  BY <1>1 DEF Chain
<1>3. /\ \A n \in L : lk[n].to # None => lk[n].to \in L /\ r[lk[n].to] < r[n]
      /\ \A n, m \in L : r[m] < r[n] => lk[n].to # None /\ r[m] <= r[lk[n].to]
      /\ \A n, m \in L : r[n] = r[m] => n = m
  BY DEF Chain
<1>4. first # None /\ first \in L /\ \A m \in L : r[m] <= r[first]
  BY DEF Chain
<1>5. first \in K
  <2>1. r[prev] <= r[first]
    BY <1>4
  <2>. QED BY <1>1, <1>2, <1>4, <2>1
<1>6. ASSUME NEW m \in K, lk2[m].to # None PROVE lk2[m].to \in K /\ r[lk2[m].to] < r[m]
  <2>1. CASE m = prev
    <3>1. lk[curr].to \in L /\ r[lk[curr].to] < r[curr]
      BY <1>3, <1>6, <2>1
    <3>. QED BY <1>1, <1>2, <2>1, <3>1
  <2>2. CASE m # prev
    <3>1. lk2[m].to = lk[m].to
      BY <2>2 DEF SameNext
    <3>2. lk[m].to \in L /\ r[lk[m].to] < r[m]
      BY <1>3, <1>6, <3>1
    <3>3. lk[m].to # curr
      <4>1. SUFFICES ASSUME lk[m].to = curr PROVE FALSE
        OBVIOUS
      <4>2. r[m] < r[prev] \/ r[prev] < r[m]
        BY <1>1, <1>3, <2>2
      <4>3. CASE r[m] < r[prev]
        <5>1. r[m] <= r[curr]
          BY <1>3, <4>3
        <5>. QED BY <1>1, <3>2, <4>1, <5>1
      <4>4. CASE r[prev] < r[m]
        <5>1. r[prev] <= r[curr]
          BY <1>3, <4>1, <4>4
        <5>. QED BY <1>1, <1>2, <5>1
      <4>. QED BY <4>2, <4>3, <4>4
    <3>. QED BY <3>1, <3>2, <3>3
  <2>. QED BY <2>1, <2>2
<1>7. ASSUME NEW x \in K, NEW y \in K, r[y] < r[x] PROVE lk2[x].to # None /\ r[y] <= r[lk2[x].to]
  <2>1. lk[x].to # None /\ r[y] <= r[lk[x].to]
    BY <1>3, <1>7
  <2>2. CASE x = prev
    <3>1. r[y] < r[curr]
      BY <1>1, <1>3, <2>1, <2>2
    <3>2. lk[curr].to # None /\ r[y] <= r[lk[curr].to]
      BY <1>3, <3>1
    <3>. QED BY <2>2, <3>2
  <2>3. CASE x # prev
    BY <2>1, <2>3 DEF SameNext
  <2>. QED BY <2>2, <2>3
<1>8. K \subseteq Nodes /\ (first = None <=> K = {}) /\ \A m \in K : r[m] <= r[first]
  BY <1>1, <1>4, <1>5
<1>9. \A x, y \in K : r[x] = r[y] => x = y
  BY <1>3
<1>10. Chain(K, r, lk2, first)
  BY <1>5, <1>6, <1>7, <1>8, <1>9 DEF Chain
<1>. QED BY <1>2, <1>10

\* Links of other nodes do not matter, nor do marks.
LEMMA ChainSame ==
  ASSUME NEW lk, NEW lk2, NEW L, NEW r, NEW first,
         Chain(L, r, lk, first), SameNext(L, lk, lk2, {})
  PROVE  Chain(L, r, lk2, first)
BY DEF Chain, SameNext
-------------------------------------------------------------------------------
(* The invariant.                                                           *)

(* What the list and the table are, as one value: the invariant speaks of   *)
(* it, so that a lemma about a step speaks of two of them.                  *)
World == [link |-> link, hashnr |-> hashnr, key |-> key, bucket |-> bucket, pool |-> pool, freed |-> freed, list |-> InList]
Typed(s) == /\ s.link \in Links /\ s.hashnr \in [Nodes -> Nat] /\ s.key \in [Nodes -> Keys \cup {DummyKey}]
            /\ s.bucket \in [Buckets -> Nodes \cup {None}] /\ s.pool \subseteq Elements /\ s.freed \subseteq Elements
IsWorld(s) == Typed(s) /\ s.list \subseteq Nodes

\* A node that is pinned while it is held is not used again: it is in the list,
\* or marked, taken out and freed.
Held(s, n) == n \in s.list \/ (n \in s.freed /\ s.link[n].deleted)
\* The node comes before, or not before, where h and k belong.
Below(s, n, h, k) == s.hashnr[n] < h \/ (s.hashnr[n] = h /\ s.key[n] < k)
Again(k) == Flags = 0 /\ k # DummyKey
Above(s, n, h, k) == \/ h < s.hashnr[n]
                     \/ h = s.hashnr[n] /\ (k < s.key[n] \/ (k = s.key[n] /\ Again(k)))

Ordered(s, r) == \A n, m \in s.list : r[m] < r[n] => Above(s, m, s.hashnr[n], s.key[n])
ListOK(s) == \E r \in [Nodes -> Nat] : Chain(s.list, r, s.link, s.bucket[0]) /\ Ordered(s, r)

PlacesOK(s) == /\ s.pool \cap s.freed = {} /\ s.pool \cap s.list = {} /\ s.freed \cap s.list = {}
KeysOK(s) == /\ \A n \in s.list \cap Elements : s.key[n] \in Keys /\ s.hashnr[n] = SplitHash(s.key[n])
             /\ \A d \in Dummies : s.key[d] = DummyKey
             /\ \A d \in s.list \cap Dummies : s.hashnr[d] = ReverseBits(d[1]) /\ ~s.link[d].deleted
BucketsOK(s) == \A b \in Buckets : s.bucket[b] # None => s.bucket[b] \in s.list \cap Dummies /\ s.bucket[b][1] = b
WorldOK(s) == ListOK(s) /\ PlacesOK(s) /\ KeysOK(s) /\ BucketsOK(s)

Before == {"hash", "slot", "parent", "install", "duplicate"} \cup Searching

OpOK(l) ==
    /\ l.at # "idle" => l.op \in Ops
    /\ l.at \in {"count", "add", "double", "duplicate"} => l.op = "insert"
    /\ l.at \in {"found", "using"} => l.op = "get"
    /\ l.at = "missing" => l.op \in {"get", "remove"}
    /\ l.at = "uncount" => l.op = "remove"
    /\ l.at = "spin" => l.op = "match"
    /\ l.at \notin {"idle", "hash"} => ReverseBits(l.bucket) < SplitHash(l.key)

HandOK(s, l) ==
    /\ l.node # None => /\ l.op = "insert" /\ l.at \in Before
                        /\ l.node \in Elements /\ l.node \notin s.pool \cup s.freed \cup s.list
                        /\ s.key[l.node] = l.key
    /\ l.op = "insert" /\ l.at \in Before => l.node # None

\* What lfind looks for, for whom, and from which bucket.
NodeOf(u, l) == IF l.goal = "dummy" THEN <<Head(l.frames), u>> ELSE l.node
First(l) == l.goal = "dummy" /\ Head(l.frames) = 0
SearchOK(u, s, l) ==
    l.at \in Searching =>
        /\ l.goal \in Goals
        /\ l.goal = "dummy" => /\ l.frames # <<>> /\ l.search = DummyKey
                               /\ l.hash = ReverseBits(Head(l.frames))
        /\ l.goal # "dummy" => /\ l.op = IF l.goal = "cleanup" THEN "remove" ELSE l.goal
                               /\ l.search = Sought(l.op, l.key) /\ l.hash = SplitHash(l.key)
        /\ First(l) => l.head = 0
        /\ ~First(l) => s.bucket[l.head] # None /\ ReverseBits(l.head) < l.hash
        /\ l.goal \in {"insert", "dummy"} => s.hashnr[NodeOf(u, l)] = l.hash
        /\ l.at = "swap" => l.goal \in {"insert", "dummy"}
        /\ l.at \in {"mark", "unlink"} => l.goal = "remove"

\* The activations of initialize_bucket, and the dummy nodes it has not inserted.
Parents(f) == /\ \A i \in 1 .. Len(f) - 1 : f[i] < f[i + 1] /\ f[i] = ClearHighestBit(f[i + 1])
              /\ \A i, j \in 1 .. Len(f) : i < j => f[i] < f[j]
InFrames(l) == l.at \in {"parent", "install"} \/ (l.at \in Searching /\ l.goal = "dummy")
FramesOK(u, s, l) ==
    /\ InFrames(l) => /\ l.frames # <<>> /\ Parents(l.frames) /\ l.frames[Len(l.frames)] = l.bucket
                      /\ \A i \in 1 .. Len(l.frames) :
                             <<l.frames[i], u>> \in s.list => l.at = "install" /\ i = 1
    /\ \A b \in Buckets : <<b, u>> \in s.list /\ s.bucket[b] = None => l.at = "install" /\ b = Head(l.frames)

\* The cursor of lfind: what its nodes are, and which pin holds them.
PrevOK(s, l, p) ==
    /\ l.prev[1] = "bucket" => l.prev[2] = l.head
    /\ l.prev[1] = "node" => /\ Held(s, l.prev[2]) /\ p[2] = l.prev[2]
                             /\ l.prev[2] \in s.list => Below(s, l.prev[2], l.hash, l.search)
CurrOK(s, l, p) == l.curr # None /\ Held(s, l.curr) /\ p[1] = l.curr
UsingOK(s, l, p) == l.curr # None /\ Held(s, l.curr) /\ p[2] = l.curr
SwapOK(s, l, p) == /\ l.curr # None => /\ Held(s, l.curr) /\ p[1] = l.curr
                                       /\ l.curr \in s.list => Above(s, l.curr, l.hash, l.search)
                   /\ l.prev[1] = "bucket" => l.curr = None /\ First(l)
JudgeOK(s, l, p) == /\ p[0] = l.link.to
                    /\ l.curr \in s.list => /\ l.link.deleted => s.link[l.curr] = l.link
                                            /\ l.link.to # None => Held(s, l.link.to)
HelpOK(s, l) == l.link.deleted /\ (l.curr \in s.list => s.link[l.curr] = l.link)
MarkOK(s, l) == ~l.link.deleted /\ (l.curr \in s.list => s.key[l.curr] = l.key)
UnlinkOK(s, l) == l.curr \in s.list => s.link[l.curr] = [to |-> l.link.to, deleted |-> TRUE]
InstallOK(s, l) == l.curr \in s.list \cap Dummies /\ l.curr[1] = Head(l.frames)
CursorOK(s, l, p) ==
    /\ l.at \in Searching \cup {"found"} => PrevOK(s, l, p)
    /\ l.at \in {"link", "next", "judge", "help", "mark", "unlink", "found"} => CurrOK(s, l, p)
    /\ l.at = "using" => UsingOK(s, l, p)
    /\ l.at = "swap" => SwapOK(s, l, p)
    /\ l.at = "judge" => JudgeOK(s, l, p)
    /\ l.at = "help" => HelpOK(s, l)
    /\ l.at = "mark" => MarkOK(s, l)
    /\ l.at = "unlink" => UnlinkOK(s, l)
    /\ l.at = "install" => InstallOK(s, l)

ControlOK(u, s, l) == OpOK(l) /\ HandOK(s, l) /\ SearchOK(u, s, l) /\ FramesOK(u, s, l)
ThreadOK(u, s, l, p) == ControlOK(u, s, l) /\ CursorOK(s, l, p)

HandsOK(s, h) == /\ \A t, u \in Threads : t # u /\ h[t].node # None => h[t].node # h[u].node
                 /\ \A n \in Elements : n \in s.pool \cup s.freed \cup s.list \/ \E t \in Threads : h[t].node = n
-------------------------------------------------------------------------------
(* The order of the list.                                                   *)

LEMMA WorldFacts ==
  ASSUME NEW s, IsWorld(s)
  PROVE  /\ s.link \in Links /\ s.pool \subseteq Elements /\ s.freed \subseteq Elements /\ s.list \subseteq Nodes
         /\ \A n \in Nodes : /\ s.hashnr[n] \in Nat /\ s.key[n] \in Keys \cup {DummyKey} /\ s.key[n] \in Nat
                             /\ s.link[n].to \in Nodes \cup {None} /\ s.link[n].deleted \in BOOLEAN
                             /\ s.link[n] = [to |-> s.link[n].to, deleted |-> s.link[n].deleted]
         /\ \A b \in Buckets : s.bucket[b] \in Nodes \cup {None}
<1>1. /\ s.link \in Links /\ s.pool \subseteq Elements /\ s.freed \subseteq Elements /\ s.list \subseteq Nodes
      /\ s.hashnr \in [Nodes -> Nat] /\ s.key \in [Nodes -> Keys \cup {DummyKey}]
      /\ s.bucket \in [Buckets -> Nodes \cup {None}]
  BY DEF IsWorld, Typed, Links
<1>2. \A n \in Nodes : s.link[n] \in [to : Nodes \cup {None}, deleted : BOOLEAN]
  BY <1>1 DEF Links
<1>3. \A k \in Keys \cup {DummyKey} : k \in Nat
  BY SplitListConstants, BucketBounds DEF DummyKey
<1>. QED BY <1>1, <1>2, <1>3

\* h and k before n, n before m: then h and k before m.
LEMMA AboveTrans ==
  ASSUME NEW s, IsWorld(s), NEW n \in Nodes, NEW m \in Nodes, NEW h \in Nat, NEW k \in Nat,
         Above(s, n, h, k), Above(s, m, s.hashnr[n], s.key[n])
  PROVE  Above(s, m, h, k)
<1>1. s.hashnr[n] \in Nat /\ s.hashnr[m] \in Nat /\ s.key[n] \in Nat /\ s.key[m] \in Nat
  BY WorldFacts
<1>. QED BY <1>1 DEF Above, Again

LEMMA BelowIsAbove ==
  ASSUME NEW s, IsWorld(s), NEW n \in Nodes, NEW h \in Nat, NEW k \in Nat, Below(s, n, h, k),
         NEW m \in Nodes, s.hashnr[m] = h, s.key[m] = k
  PROVE  Above(s, m, s.hashnr[n], s.key[n])
<1>1. s.hashnr[n] \in Nat /\ s.key[n] \in Nat
  BY WorldFacts
<1>. QED BY <1>1 DEF Above, Below

\* Nothing depends on a record but its fields.
LEMMA AboveSame ==
  ASSUME NEW s, NEW s2, NEW n, NEW h, NEW k, s2.hashnr[n] = s.hashnr[n], s2.key[n] = s.key[n]
  PROVE  (Above(s2, n, h, k) <=> Above(s, n, h, k)) /\ (Below(s2, n, h, k) <=> Below(s, n, h, k))
BY DEF Above, Below

\* A node put where it belongs.
LEMMA OrderedInsert ==
  ASSUME NEW s, IsWorld(s), NEW s2, Typed(s2), NEW r \in [Nodes -> Nat], NEW n \in Nodes,
         NEW prev \in s.list, n \notin s.list,
         Chain(s.list, r, s.link, s.bucket[0]), Ordered(s, r),
         s2.link[prev].to = n, s2.link[n].to = s.link[prev].to, SameNext(s.list, s.link, s2.link, {prev}),
         s2.hashnr = s.hashnr, s2.key = s.key, s2.bucket[0] = s.bucket[0], s2.list = s.list \cup {n},
         Below(s, prev, s.hashnr[n], s.key[n]),
         s.link[prev].to # None => Above(s, s.link[prev].to, s.hashnr[n], s.key[n])
  PROVE  ListOK(s2)
<1>1. s.link \in Links /\ s2.link \in Links /\ s.list \subseteq Nodes
  BY DEF IsWorld, Typed
<1>2. PICK r2 \in [Nodes -> Nat] : Chain(s.list \cup {n}, r2, s2.link, s.bucket[0]) /\ Fits(s.list, r, r2, n, prev)
  BY <1>1, ChainInsert
<1>3. \A m \in Nodes : s.hashnr[m] \in Nat /\ s.key[m] \in Nat
  BY WorldFacts
<1>4. \A x, y \in s.list : r[y] < r[x] => Above(s, y, s.hashnr[x], s.key[x])
  BY DEF Ordered
<1>5. Above(s, n, s.hashnr[prev], s.key[prev])
  BY <1>1, <1>3, BelowIsAbove
<1>6. ASSUME NEW x \in s2.list, NEW y \in s2.list, r2[y] < r2[x]
      PROVE  Above(s, y, s.hashnr[x], s.key[x])
  <2>1. CASE x \in s.list /\ y \in s.list
    BY <1>2, <1>4, <1>6, <2>1 DEF Fits
  <2>2. CASE x = n /\ y \in s.list
    <3>1. r[y] < r[prev]
      BY <1>2, <1>6, <2>2 DEF Fits
    <3>2. PICK c \in s.list : c = s.link[prev].to /\ r[y] <= r[c]
      BY <2>2, <3>1 DEF Chain
    <3>3. Above(s, c, s.hashnr[n], s.key[n])
      <4>1. c \in Nodes /\ None \notin Nodes
        BY <1>1, SplitListConstants
      <4>. QED BY <3>2, <4>1
    <3>4. CASE y = c
      BY <2>2, <3>3, <3>4
    <3>5. CASE y # c
      <4>1. r[y] < r[c]
        <5>1. r[y] # r[c]
          BY <2>2, <3>2, <3>5 DEF Chain
        <5>2. r[y] \in Nat /\ r[c] \in Nat
          BY <1>1, <2>2
        <5>. QED BY <3>2, <5>1, <5>2
      <4>2. Above(s, y, s.hashnr[c], s.key[c])
        BY <1>4, <2>2, <4>1
      <4>3. Above(s, y, s.hashnr[n], s.key[n])
        BY <1>1, <1>3, <2>2, <3>3, <4>2, AboveTrans
      <4>. QED BY <2>2, <4>3
    <3>. QED BY <3>4, <3>5
  <2>3. CASE x \in s.list /\ y = n
    <3>1. r[prev] <= r[x]
      BY <1>2, <1>6, <2>3 DEF Fits
    <3>2. CASE x = prev
      BY <1>5, <2>3, <3>2
    <3>3. CASE x # prev
      <4>1. r[prev] < r[x]
        <5>1. r[prev] # r[x]
          BY <2>3, <3>3 DEF Chain
        <5>2. r[prev] \in Nat /\ r[x] \in Nat
          BY <1>1, <2>3
        <5>. QED BY <3>1, <5>1, <5>2
      <4>2. Above(s, prev, s.hashnr[x], s.key[x])
        BY <1>4, <2>3, <4>1
      <4>3. Above(s, n, s.hashnr[x], s.key[x])
        BY <1>1, <1>3, <1>5, <2>3, <4>2, AboveTrans
      <4>. QED BY <2>3, <4>3
    <3>. QED BY <3>2, <3>3
  <2>4. CASE x = n /\ y = n
    <3>1. r2[n] \in Nat
      OBVIOUS
    <3>. QED BY <1>6, <2>4, <3>1
  <2>. QED BY <2>1, <2>2, <2>3, <2>4
<1>7. Ordered(s2, r2)
  <2>1. SUFFICES ASSUME NEW x \in s2.list, NEW y \in s2.list, r2[y] < r2[x]
                 PROVE  Above(s2, y, s2.hashnr[x], s2.key[x])
    BY DEF Ordered
  <2>. QED BY <1>6, <2>1, AboveSame
<1>. QED BY <1>2, <1>7 DEF ListOK

\* The list, or less of it, with what its nodes are worth unchanged.
LEMMA OrderedLess ==
  ASSUME NEW s, NEW s2, NEW r, Ordered(s, r), s2.list \subseteq s.list,
         \A m \in s2.list : s2.hashnr[m] = s.hashnr[m] /\ s2.key[m] = s.key[m]
  PROVE  Ordered(s2, r)
<1>1. SUFFICES ASSUME NEW x \in s2.list, NEW y \in s2.list, r[y] < r[x]
               PROVE  Above(s2, y, s2.hashnr[x], s2.key[x])
  BY DEF Ordered
<1>2. Above(s, y, s.hashnr[x], s.key[x])
  BY <1>1 DEF Ordered
<1>. QED BY <1>1, <1>2, AboveSame
-------------------------------------------------------------------------------
(* What a thread relies on, and what the steps of the others leave to it.   *)

\* A node that is held stays held, and does not come into the list again.
Follows(s, s2, n) == Held(s, n) => Held(s2, n) /\ (n \in s2.list => n \in s.list)
PinsFollow(s, s2, p) == \A i \in 0 .. 2 : p[i] # None => Follows(s, s2, p[i])
\* Nodes of the list keep their place, marked ones their link, buckets their node.
Steady(s, s2) ==
    /\ \A n \in s.list \cap s2.list : /\ s2.hashnr[n] = s.hashnr[n] /\ s2.key[n] = s.key[n]
                                      /\ s.link[n].deleted => s2.link[n] = s.link[n]
    /\ \A b \in Buckets : s.bucket[b] # None => s2.bucket[b] = s.bucket[b]
    /\ s.list \cap Dummies \subseteq s2.list
\* The nodes of thread u, of which n is the element it inserts, are left alone.
Own(s, s2, u, n) ==
    /\ \A b \in Buckets : /\ <<b, u>> \in s2.list <=> <<b, u>> \in s.list
                          /\ s2.hashnr[<<b, u>>] = s.hashnr[<<b, u>>]
    /\ n # None => /\ s2.hashnr[n] = s.hashnr[n] /\ s2.key[n] = s.key[n]
                   /\ n \notin s.pool \cup s.freed \cup s.list => n \notin s2.pool \cup s2.freed \cup s2.list

LEMMA LocalsFacts ==
  ASSUME NEW l \in Locals
  PROVE  /\ l.at \in Labels /\ l.op \in Ops \cup {"none"} /\ l.key \in Keys /\ l.bucket \in Buckets
         /\ l.frames \in Seq(Buckets) /\ l.node \in Nodes \cup {None} /\ l.hash \in Nat
         /\ l.search \in Keys \cup {DummyKey} /\ l.search \in Nat /\ l.goal \in Goals \cup {"none"} /\ l.head \in Buckets
         /\ l.prev[1] \in {"bucket", "node"}
         /\ l.prev[1] = "bucket" => l.prev[2] \in Buckets /\ l.prev = <<"bucket", l.prev[2]>>
         /\ l.prev[1] = "node" => l.prev[2] \in Nodes /\ l.prev = <<"node", l.prev[2]>>
         /\ l.curr \in Nodes \cup {None}
         /\ l.link \in [to : Nodes \cup {None}, deleted : BOOLEAN]
         /\ l.link.to \in Nodes \cup {None} /\ l.link.deleted \in BOOLEAN
         /\ l.link = [to |-> l.link.to, deleted |-> l.link.deleted]
         /\ l.size \in Nat
<1>1. /\ l.at \in Labels /\ l.op \in Ops \cup {"none"} /\ l.key \in Keys /\ l.bucket \in Buckets
      /\ l.frames \in Seq(Buckets) /\ l.node \in Nodes \cup {None} /\ l.hash \in Nat
      /\ l.search \in Keys \cup {DummyKey} /\ l.goal \in Goals \cup {"none"} /\ l.head \in Buckets
      /\ l.curr \in Nodes \cup {None} /\ l.size \in Nat
  BY DEF Locals
<1>2. l.prev \in {"bucket"} \X Buckets \cup {"node"} \X Nodes
  BY DEF Locals
<1>3. l.link \in [to : Nodes \cup {None}, deleted : BOOLEAN]
  BY DEF Locals
<1>4. l.search \in Nat
  BY <1>1, SplitListConstants, BucketBounds DEF DummyKey
<1>5. "bucket" # "node"
  OBVIOUS
<1>. QED BY <1>1, <1>2, <1>3, <1>4, <1>5

LEMMA FramesFacts ==
  ASSUME NEW f \in Seq(Buckets), f # <<>>
  PROVE  /\ Head(f) \in Buckets /\ Head(f) = f[1] /\ Len(f) \in Nat /\ Len(f) >= 1 /\ 1 \in 1 .. Len(f)
         /\ \A i \in 1 .. Len(f) : f[i] \in Buckets
         /\ Tail(f) \in Seq(Buckets) /\ Len(Tail(f)) = Len(f) - 1
         /\ \A i \in 1 .. Len(Tail(f)) : Tail(f)[i] = f[i + 1]
         /\ Tail(f) = <<>> <=> Len(f) = 1
<1>1. Len(f) \in Nat /\ Len(f) # 0
  BY LenProperties, EmptySeq
<1>2. Head(f) = f[1] /\ Tail(f) \in Seq(Buckets) /\ Len(Tail(f)) = Len(f) - 1
      /\ \A i \in 1 .. Len(Tail(f)) : Tail(f)[i] = f[i + 1]
  BY <1>1, HeadTailProperties
<1>3. \A i \in 1 .. Len(f) : f[i] \in Buckets
  BY LenProperties
<1>4. 1 \in 1 .. Len(f)
  BY <1>1
<1>5. Tail(f) = <<>> <=> Len(f) = 1
  BY <1>1, <1>2, EmptySeq
<1>. QED BY <1>1, <1>2, <1>3, <1>4, <1>5

LEMMA CursorStays ==
  ASSUME NEW s, IsWorld(s), NEW s2, NEW l \in Locals, NEW p \in [0 .. 2 -> Nodes \cup {None}],
         CursorOK(s, l, p), PinsFollow(s, s2, p), Steady(s, s2)
  PROVE  CursorOK(s2, l, p)
<1>1. /\ \A n : n # None /\ (n = p[0] \/ n = p[1] \/ n = p[2]) => Follows(s, s2, n)
      /\ None \notin Nodes
  BY SplitListConstants DEF PinsFollow
<1>2. \A n \in s.list \cap s2.list : /\ s2.hashnr[n] = s.hashnr[n] /\ s2.key[n] = s.key[n]
                                     /\ s.link[n].deleted => s2.link[n] = s.link[n]
  BY DEF Steady
<1>3. \A n, h, k : n \in s.list \cap s2.list => /\ Above(s2, n, h, k) <=> Above(s, n, h, k)
                                              /\ Below(s2, n, h, k) <=> Below(s, n, h, k)
  BY <1>2, AboveSame
<1>4. PrevOK(s, l, p) => PrevOK(s2, l, p)
  <2>. SUFFICES ASSUME PrevOK(s, l, p), l.prev[1] = "node"
                PROVE  Held(s2, l.prev[2]) /\ (l.prev[2] \in s2.list => Below(s2, l.prev[2], l.hash, l.search))
    BY DEF PrevOK
  <2>1. PICK n \in Nodes : n = l.prev[2]
    BY LocalsFacts
  <2>2. Held(s, n) /\ p[2] = n /\ (n \in s.list => Below(s, n, l.hash, l.search))
    BY <2>1 DEF PrevOK
  <2>3. Follows(s, s2, n)
    BY <1>1, <2>2
  <2>4. Held(s2, n) /\ (n \in s2.list => n \in s.list)
    BY <2>2, <2>3 DEF Follows
  <2>5. n \in s2.list => Below(s2, n, l.hash, l.search)
    BY <1>3, <2>2, <2>4
  <2>. QED BY <2>1, <2>4, <2>5
<1>5. PICK c : c = l.curr
  OBVIOUS
<1>6. c # None /\ (p[1] = c \/ p[2] = c) /\ Held(s, c) => Held(s2, c) /\ (c \in s2.list => c \in s.list)
  BY <1>1 DEF Follows
<1>7. CurrOK(s, l, p) => CurrOK(s2, l, p) /\ (c \in s2.list => c \in s.list)
  BY <1>5, <1>6 DEF CurrOK
<1>8. l.at = "swap" => SwapOK(s2, l, p)
  <2>. SUFFICES ASSUME SwapOK(s, l, p) PROVE SwapOK(s2, l, p)
    BY DEF CursorOK
  <2>1. c # None => Held(s, c) /\ p[1] = c /\ (c \in s.list => Above(s, c, l.hash, l.search))
    BY <1>5 DEF SwapOK
  <2>2. c # None => Held(s2, c) /\ p[1] = c /\ (c \in s2.list => Above(s2, c, l.hash, l.search))
    <3>. SUFFICES ASSUME c # None
                  PROVE  Held(s2, c) /\ p[1] = c /\ (c \in s2.list => Above(s2, c, l.hash, l.search))
      OBVIOUS
    <3>1. Held(s2, c) /\ p[1] = c /\ (c \in s2.list => c \in s.list /\ Above(s, c, l.hash, l.search))
      BY <1>6, <2>1
    <3>2. c \in s.list /\ c \in s2.list /\ Above(s, c, l.hash, l.search) => Above(s2, c, l.hash, l.search)
      BY <1>2, AboveSame
    <3>. QED BY <3>1, <3>2
  <2>3. l.prev[1] = "bucket" => l.curr = None /\ First(l)
    BY DEF SwapOK
  <2>. QED BY <1>5, <2>2, <2>3 DEF SwapOK
<1>9. l.at = "using" => UsingOK(s2, l, p)
  BY <1>5, <1>6 DEF CursorOK, UsingOK
<1>10. l.at = "judge" => JudgeOK(s2, l, p)
  <2>. SUFFICES ASSUME l.at = "judge" PROVE JudgeOK(s2, l, p)
    OBVIOUS
  <2>1. CurrOK(s, l, p) /\ JudgeOK(s, l, p) /\ p[0] = l.link.to
    BY DEF CursorOK, JudgeOK
  <2>2. ASSUME c \in s2.list
        PROVE  /\ l.link.deleted => s2.link[c] = l.link
               /\ l.link.to # None => Held(s2, l.link.to)
    <3>1. c \in s.list
      BY <1>7, <2>1, <2>2
    <3>2. /\ l.link.deleted => s.link[c] = l.link
          /\ l.link.to # None => Held(s, l.link.to)
      BY <1>5, <2>1, <3>1 DEF JudgeOK
    <3>3. l.link.deleted => s2.link[c] = l.link
      BY <1>2, <2>2, <3>1, <3>2
    <3>4. l.link.to # None => Held(s2, l.link.to)
      BY <1>1, <2>1, <3>2 DEF Follows
    <3>. QED BY <3>3, <3>4
  <2>. QED BY <1>5, <2>1, <2>2 DEF JudgeOK
<1>11. l.at = "help" => HelpOK(s2, l)
  <2>. SUFFICES ASSUME l.at = "help" PROVE HelpOK(s2, l)
    OBVIOUS
  <2>1. CurrOK(s, l, p) /\ l.link.deleted /\ (c \in s.list => s.link[c] = l.link)
    BY <1>5 DEF CursorOK, HelpOK
  <2>2. c \in s2.list => s2.link[c] = l.link
    BY <1>2, <1>7, <2>1
  <2>. QED BY <1>5, <2>1, <2>2 DEF HelpOK
<1>12. l.at = "mark" => MarkOK(s2, l)
  <2>. SUFFICES ASSUME l.at = "mark" PROVE MarkOK(s2, l)
    OBVIOUS
  <2>1. CurrOK(s, l, p) /\ ~l.link.deleted /\ (c \in s.list => s.key[c] = l.key)
    BY <1>5 DEF CursorOK, MarkOK
  <2>. QED BY <1>2, <1>5, <1>7, <2>1 DEF MarkOK
<1>13. l.at = "unlink" => UnlinkOK(s2, l)
  <2>. SUFFICES ASSUME l.at = "unlink" PROVE UnlinkOK(s2, l)
    OBVIOUS
  <2>1. CurrOK(s, l, p) /\ (c \in s.list => s.link[c] = [to |-> l.link.to, deleted |-> TRUE])
    BY <1>5 DEF CursorOK, UnlinkOK
  <2>2. [to |-> l.link.to, deleted |-> TRUE].deleted
    OBVIOUS
  <2>3. c \in s2.list => s2.link[c] = [to |-> l.link.to, deleted |-> TRUE]
    BY <1>2, <1>7, <2>1, <2>2
  <2>. QED BY <1>5, <2>3 DEF UnlinkOK
<1>14. l.at = "install" => InstallOK(s2, l)
  BY DEF CursorOK, InstallOK, Steady
<1>15. l.at \in Searching \cup {"found"} => PrevOK(s2, l, p)
  BY <1>4 DEF CursorOK
<1>16. l.at \in {"link", "next", "judge", "help", "mark", "unlink", "found"} => CurrOK(s2, l, p)
  BY <1>7 DEF CursorOK
<1>. QED BY <1>8, <1>9, <1>10, <1>11, <1>12, <1>13, <1>14, <1>15, <1>16 DEF CursorOK

LEMMA SearchStays ==
  ASSUME NEW s, IsWorld(s), NEW s2, NEW u \in Threads, NEW l \in Locals,
         SearchOK(u, s, l), HandOK(s, l), Steady(s, s2), Own(s, s2, u, l.node)
  PROVE  SearchOK(u, s2, l)
<1>. SUFFICES ASSUME l.at \in Searching PROVE SearchOK(u, s2, l)
  BY DEF SearchOK
<1>1. s.bucket[l.head] # None => s2.bucket[l.head] # None
  BY LocalsFacts DEF Steady
<1>2. ASSUME l.goal \in {"insert", "dummy"} PROVE s2.hashnr[NodeOf(u, l)] = l.hash
  <2>1. CASE l.goal = "dummy"
    <3>1. l.frames # <<>>
      BY <2>1 DEF SearchOK
    <3>2. Head(l.frames) \in Buckets
      BY <3>1, LocalsFacts, FramesFacts
    <3>3. s2.hashnr[<<Head(l.frames), u>>] = s.hashnr[<<Head(l.frames), u>>]
      BY <3>2 DEF Own
    <3>4. NodeOf(u, l) = <<Head(l.frames), u>> /\ s.hashnr[NodeOf(u, l)] = l.hash
      BY <2>1 DEF SearchOK, NodeOf
    <3>. QED BY <3>3, <3>4
  <2>2. CASE l.goal = "insert"
    <3>1. l.op = "insert" /\ l.node # None
      BY <2>2 DEF SearchOK, HandOK, Before
    <3>2. NodeOf(u, l) = l.node /\ s.hashnr[NodeOf(u, l)] = l.hash
      BY <2>2 DEF SearchOK, NodeOf
    <3>. QED BY <3>1, <3>2 DEF Own
  <2>. QED BY <1>2, <2>1, <2>2
<1>. QED BY <1>1, <1>2 DEF SearchOK

LEMMA ThreadStays ==
  ASSUME NEW s, IsWorld(s), NEW s2, NEW u \in Threads, NEW l \in Locals,
         NEW p \in [0 .. 2 -> Nodes \cup {None}], ThreadOK(u, s, l, p),
         PinsFollow(s, s2, p), Steady(s, s2), Own(s, s2, u, l.node)
  PROVE  ThreadOK(u, s2, l, p)
<1>1. OpOK(l) /\ HandOK(s, l) /\ SearchOK(u, s, l) /\ FramesOK(u, s, l) /\ CursorOK(s, l, p)
  BY DEF ThreadOK, ControlOK
<1>2. HandOK(s2, l)
  BY <1>1 DEF HandOK, Own
<1>3. SearchOK(u, s2, l) /\ CursorOK(s2, l, p)
  BY <1>1, SearchStays, CursorStays
<1>4. FramesOK(u, s2, l)
  <2>1. ASSUME InFrames(l)
        PROVE  /\ l.frames # <<>> /\ Parents(l.frames) /\ l.frames[Len(l.frames)] = l.bucket
               /\ \A i \in 1 .. Len(l.frames) : <<l.frames[i], u>> \in s2.list => l.at = "install" /\ i = 1
    <3>1. /\ l.frames # <<>> /\ Parents(l.frames) /\ l.frames[Len(l.frames)] = l.bucket
          /\ \A i \in 1 .. Len(l.frames) : <<l.frames[i], u>> \in s.list => l.at = "install" /\ i = 1
      BY <1>1, <2>1 DEF FramesOK
    <3>2. \A i \in 1 .. Len(l.frames) : l.frames[i] \in Buckets
      BY <3>1, LocalsFacts, FramesFacts
    <3>. QED BY <3>1, <3>2 DEF Own
  <2>2. \A b \in Buckets : <<b, u>> \in s2.list /\ s2.bucket[b] = None => l.at = "install" /\ b = Head(l.frames)
    <3>1. TAKE b \in Buckets
    <3>2. <<b, u>> \in s.list /\ s.bucket[b] = None => l.at = "install" /\ b = Head(l.frames)
      BY <1>1 DEF FramesOK
    <3>. QED BY <3>2 DEF Own, Steady
  <2>. QED BY <2>1, <2>2 DEF FramesOK
<1>. QED BY <1>1, <1>2, <1>3, <1>4 DEF ThreadOK, ControlOK
-------------------------------------------------------------------------------
(* What a step does to the list and the table.                              *)

\* A step that leaves the list as it is, but for marks.
Quiet(s, s2) ==
    /\ SameNext(s.list, s.link, s2.link, {})
    /\ \A m \in s.list : /\ s2.hashnr[m] = s.hashnr[m] /\ s2.key[m] = s.key[m]
                         /\ s.link[m].deleted => s2.link[m] = s.link[m]
                         /\ m \in Dummies => ~s2.link[m].deleted
    /\ \A b \in Buckets : \/ s2.bucket[b] = s.bucket[b]
                          \/ /\ s.bucket[b] = None
                             /\ s2.bucket[b] \in s.list \cap Dummies /\ s2.bucket[b][1] = b
    /\ \A d \in Dummies : s2.key[d] = DummyKey
    /\ s2.pool \cap s2.freed = {} /\ s2.pool \cap s.list = {} /\ s2.freed \cap s.list = {}

LEMMA QuietStep ==
  ASSUME NEW s, IsWorld(s), NEW s2, Typed(s2), WorldOK(s), Quiet(s, s2),
         s2.list = ListFrom(s2.link, s2.bucket[0])
  PROVE  IsWorld(s2) /\ WorldOK(s2) /\ s2.list = s.list /\ Steady(s, s2)
<1>1. PICK r \in [Nodes -> Nat] : Chain(s.list, r, s.link, s.bucket[0]) /\ Ordered(s, r)
  BY DEF WorldOK, ListOK
<1>2. s2.bucket[0] = s.bucket[0]
  <2>1. s.bucket[0] = None => s.list = {}
    BY <1>1 DEF Chain
  <2>. QED BY <2>1, BucketBounds DEF Quiet
<1>3. Chain(s.list, r, s2.link, s2.bucket[0])
  BY <1>1, <1>2, ChainSame DEF Quiet
<1>4. s2.list = s.list
  BY <1>3, ListFromIs DEF Typed
<1>5. Ordered(s2, r)
  <2>1. s2.list \subseteq s.list /\ \A m \in s2.list : s2.hashnr[m] = s.hashnr[m] /\ s2.key[m] = s.key[m]
    BY <1>4 DEF Quiet
  <2>. QED BY <1>1, <2>1, OrderedLess
<1>6. ListOK(s2)
  BY <1>3, <1>4, <1>5 DEF ListOK
<1>7. PlacesOK(s2)
  BY <1>4 DEF Quiet, PlacesOK
<1>8. KeysOK(s2)
  BY <1>4 DEF Quiet, KeysOK, WorldOK
<1>9. BucketsOK(s2)
  BY <1>4 DEF Quiet, BucketsOK, WorldOK
<1>10. Steady(s, s2)
  BY <1>4, SplitListConstants DEF Quiet, Steady
<1>. QED BY <1>4, <1>6, <1>7, <1>8, <1>9, <1>10 DEF WorldOK, IsWorld

\* What is freed and marked stays so: then what is held stays held.
LEMMA QuietPins ==
  ASSUME NEW s, NEW s2, NEW p, s2.list = s.list, s.freed \subseteq s2.freed,
         \A n \in s.freed : s2.link[n] = s.link[n],
         \A m \in s.list : s.link[m].deleted => s2.link[m] = s.link[m]
  PROVE  PinsFollow(s, s2, p)
BY DEF PinsFollow, Follows, Held

\* n comes in behind prev.
LEMMA InsertStep ==
  ASSUME NEW s, IsWorld(s), NEW s2, Typed(s2), WorldOK(s), NEW n \in Nodes, NEW prev \in s.list,
         n \notin s.list \cup s.pool \cup s.freed, ~s.link[prev].deleted,
         s2.link[n] = LinkTo(s.link[prev].to), s2.link[prev] = LinkTo(n),
         \A m \in Nodes : m # n /\ m # prev => s2.link[m] = s.link[m],
         s2.hashnr = s.hashnr, s2.key = s.key, s2.bucket = s.bucket, s2.pool = s.pool, s2.freed = s.freed,
         s2.list = ListFrom(s2.link, s2.bucket[0]),
         n \in Elements => s.key[n] \in Keys /\ s.hashnr[n] = SplitHash(s.key[n]),
         n \in Dummies => s.hashnr[n] = ReverseBits(n[1]),
         Below(s, prev, s.hashnr[n], s.key[n]),
         s.link[prev].to # None => Above(s, s.link[prev].to, s.hashnr[n], s.key[n]),
         NEW p
  PROVE  IsWorld(s2) /\ WorldOK(s2) /\ s2.list = s.list \cup {n} /\ Steady(s, s2) /\ PinsFollow(s, s2, p)
<1>1. PICK r \in [Nodes -> Nat] : Chain(s.list, r, s.link, s.bucket[0]) /\ Ordered(s, r)
  BY DEF WorldOK, ListOK
<1>2. s.link \in Links /\ s2.link \in Links /\ s.list \subseteq Nodes /\ prev # n
  BY DEF IsWorld, Typed
<1>3. s2.link[prev].to = n /\ s2.link[n].to = s.link[prev].to /\ ~s2.link[n].deleted /\ ~s2.link[prev].deleted
  BY DEF LinkTo
<1>4. SameNext(s.list, s.link, s2.link, {prev})
  BY <1>2 DEF SameNext
<1>5. PICK r2 \in [Nodes -> Nat] : Chain(s.list \cup {n}, r2, s2.link, s.bucket[0]) /\ Fits(s.list, r, r2, n, prev)
  BY <1>1, <1>2, <1>3, <1>4, ChainInsert
<1>6. s2.list = s.list \cup {n}
  BY <1>2, <1>5, ListFromIs
<1>7. ListOK(s2)
  BY <1>1, <1>3, <1>4, <1>6, OrderedInsert
<1>8. PlacesOK(s2)
  BY <1>6 DEF PlacesOK, WorldOK
<1>9. KeysOK(s2)
  <2>1. \A m \in s.list : m \in Dummies => ~s2.link[m].deleted
    BY <1>2, <1>3 DEF KeysOK, WorldOK
  <2>. QED BY <1>3, <1>6, <2>1 DEF KeysOK, WorldOK
<1>10. BucketsOK(s2)
  BY <1>6 DEF BucketsOK, WorldOK
<1>11. Steady(s, s2)
  BY <1>2, <1>6 DEF Steady
<1>12. PinsFollow(s, s2, p)
  <2>1. ASSUME NEW m, Held(s, m) PROVE Held(s2, m) /\ (m \in s2.list => m \in s.list)
    <3>1. CASE m \in s.list
      BY <1>6, <3>1 DEF Held
    <3>2. CASE m \in s.freed /\ s.link[m].deleted
      <4>1. m # n /\ m # prev /\ m \in Nodes
        BY <3>2, WorldFacts DEF Nodes
      <4>2. s2.link[m] = s.link[m]
        BY <4>1
      <4>. QED BY <1>6, <3>2, <4>1, <4>2 DEF Held
    <3>. QED BY <2>1, <3>1, <3>2 DEF Held
  <2>. QED BY <2>1 DEF PinsFollow, Follows
<1>. QED BY <1>2, <1>6, <1>7, <1>8, <1>9, <1>10, <1>11, <1>12 DEF WorldOK, IsWorld

\* n is the first node.
LEMMA FirstStep ==
  ASSUME NEW s, IsWorld(s), NEW s2, Typed(s2), WorldOK(s), NEW n \in Dummies, n[1] = 0,
         n \notin s.list \cup s.pool \cup s.freed, s.bucket[0] = None,
         s2.link[n] = LinkTo(None), s2.bucket[0] = n,
         \A m \in Nodes : m # n => s2.link[m] = s.link[m],
         \A b \in Buckets : b # 0 => s2.bucket[b] = s.bucket[b],
         s2.hashnr = s.hashnr, s2.key = s.key, s2.pool = s.pool, s2.freed = s.freed,
         s2.list = ListFrom(s2.link, s2.bucket[0]),
         s.hashnr[n] = ReverseBits(0),
         NEW p
  PROVE  IsWorld(s2) /\ WorldOK(s2) /\ s2.list = s.list \cup {n} /\ Steady(s, s2) /\ PinsFollow(s, s2, p)
<1>1. PICK r \in [Nodes -> Nat] : Chain(s.list, r, s.link, s.bucket[0]) /\ Ordered(s, r)
  BY DEF WorldOK, ListOK
<1>2. s.link \in Links /\ s2.link \in Links /\ n \in Nodes
  BY DEF Nodes, IsWorld, Typed
<1>3. s.list = {}
  BY <1>1 DEF Chain
<1>4. s2.link[n].to = None /\ ~s2.link[n].deleted
  BY DEF LinkTo
<1>5. Chain({n}, r, s2.link, s2.bucket[0])
  BY <1>2, <1>4, ChainFirst
<1>6. s2.list = {n} /\ s2.list = s.list \cup {n}
  BY <1>2, <1>3, <1>5, ListFromIs
<1>7. Ordered(s2, r)
  <2>1. r[n] \in Nat
    BY <1>2
  <2>. QED BY <1>6, <2>1 DEF Ordered
<1>8. ListOK(s2)
  BY <1>5, <1>6, <1>7 DEF ListOK
<1>9. PlacesOK(s2)
  BY <1>6 DEF PlacesOK, WorldOK
<1>10. KeysOK(s2)
  <2>1. n \notin Elements
    BY SplitListConstants
  <2>2. \A d \in Dummies : s2.key[d] = DummyKey
    BY DEF KeysOK, WorldOK
  <2>. QED BY <1>4, <1>6, <2>1, <2>2 DEF KeysOK
<1>11. BucketsOK(s2)
  BY <1>3, <1>6 DEF BucketsOK, WorldOK
<1>12. Steady(s, s2)
  BY <1>3 DEF Steady
<1>13. PinsFollow(s, s2, p)
  <2>1. ASSUME NEW m, Held(s, m) PROVE Held(s2, m) /\ (m \in s2.list => m \in s.list)
    <3>1. m \in s.freed /\ s.link[m].deleted
      BY <1>3, <2>1 DEF Held
    <3>2. m # n /\ m \in Nodes
      BY <3>1, WorldFacts DEF Nodes
    <3>3. s2.link[m] = s.link[m]
      BY <3>2
    <3>. QED BY <1>6, <3>1, <3>2, <3>3 DEF Held
  <2>. QED BY <2>1 DEF PinsFollow, Follows
<1>. QED BY <1>2, <1>6, <1>8, <1>9, <1>10, <1>11, <1>12, <1>13 DEF WorldOK, IsWorld

\* The node behind prev goes, and is freed.
LEMMA RemoveStep ==
  ASSUME NEW s, IsWorld(s), NEW s2, Typed(s2), WorldOK(s), NEW prev \in s.list, NEW curr \in s.list,
         s.link[prev] = LinkTo(curr), s.link[curr].deleted,
         s2.link[prev] = LinkTo(s.link[curr].to),
         \A m \in Nodes : m # prev => s2.link[m] = s.link[m],
         \A m \in Nodes : m # curr => s2.key[m] = s.key[m],
         s2.hashnr = s.hashnr, s2.bucket = s.bucket, s2.pool = s.pool, s2.freed = s.freed \cup {curr},
         s2.list = ListFrom(s2.link, s2.bucket[0]),
         NEW p
  PROVE  /\ IsWorld(s2) /\ WorldOK(s2) /\ s2.list = s.list \ {curr} /\ curr \in Elements /\ prev # curr
         /\ Steady(s, s2) /\ PinsFollow(s, s2, p)
<1>1. PICK r \in [Nodes -> Nat] : Chain(s.list, r, s.link, s.bucket[0]) /\ Ordered(s, r)
  BY DEF WorldOK, ListOK
<1>2. s.link \in Links /\ s2.link \in Links /\ s.list \subseteq Nodes
  BY DEF IsWorld, Typed
<1>3. s.link[prev].to = curr /\ ~s.link[prev].deleted /\ s2.link[prev].to = s.link[curr].to /\ ~s2.link[prev].deleted
  BY DEF LinkTo
<1>4. SameNext(s.list, s.link, s2.link, {prev, curr})
  BY <1>2 DEF SameNext
<1>5. Chain(s.list \ {curr}, r, s2.link, s.bucket[0]) /\ prev # curr
  BY <1>1, <1>2, <1>3, <1>4, ChainRemove
<1>6. s2.list = s.list \ {curr}
  BY <1>2, <1>5, ListFromIs
<1>7. curr \in Elements
  BY <1>2 DEF KeysOK, WorldOK, Nodes
<1>8. curr \notin Dummies
  BY <1>7, SplitListConstants
<1>9. Ordered(s2, r)
  <2>1. s2.list \subseteq s.list /\ \A m \in s2.list : s2.hashnr[m] = s.hashnr[m] /\ s2.key[m] = s.key[m]
    BY <1>2, <1>6
  <2>. QED BY <1>1, <2>1, OrderedLess
<1>10. ListOK(s2)
  BY <1>5, <1>6, <1>9 DEF ListOK
<1>11. PlacesOK(s2)
  BY <1>6 DEF PlacesOK, WorldOK
<1>12. KeysOK(s2)
  <2>1. \A d \in Dummies : s2.key[d] = DummyKey
    <3>1. TAKE d \in Dummies
    <3>2. d \in Nodes /\ d # curr
      BY <1>8 DEF Nodes
    <3>. QED BY <3>2 DEF KeysOK, WorldOK
  <2>2. \A m \in s2.list : s2.key[m] = s.key[m] /\ m \in s.list /\ m \in Nodes
    BY <1>2, <1>6
  <2>3. \A d \in s2.list \cap Dummies : ~s2.link[d].deleted
    BY <1>3, <2>2 DEF KeysOK, WorldOK
  <2>. QED BY <2>1, <2>2, <2>3 DEF KeysOK, WorldOK
<1>13. BucketsOK(s2)
  BY <1>6, <1>8 DEF BucketsOK, WorldOK
<1>14. Steady(s, s2)
  BY <1>2, <1>3, <1>6, <1>8 DEF Steady
<1>15. PinsFollow(s, s2, p)
  <2>1. ASSUME NEW m, Held(s, m) PROVE Held(s2, m) /\ (m \in s2.list => m \in s.list)
    <3>1. CASE m = curr
      <4>1. s2.link[m] = s.link[m]
        BY <1>2, <1>5, <3>1
      <4>. QED BY <3>1, <4>1 DEF Held
    <3>2. CASE m \in s.list /\ m # curr
      BY <1>6, <3>2 DEF Held
    <3>3. CASE m \in s.freed /\ s.link[m].deleted
      <4>1. m \in Nodes /\ m # prev
        BY <1>3, <3>3, WorldFacts DEF Nodes
      <4>2. s2.link[m] = s.link[m]
        BY <4>1
      <4>. QED BY <1>6, <3>3, <4>2 DEF Held
    <3>. QED BY <2>1, <3>1, <3>2, <3>3 DEF Held
  <2>. QED BY <2>1 DEF PinsFollow, Follows
<1>. QED BY <1>2, <1>5, <1>6, <1>7, <1>10, <1>11, <1>12, <1>13, <1>14, <1>15 DEF WorldOK, IsWorld
-------------------------------------------------------------------------------
(* What an assignment to local variables leaves alone.                      *)

SameCall(l, m) == m.op = l.op /\ m.key = l.key /\ m.bucket = l.bucket /\ m.node = l.node /\ m.frames = l.frames
SameSearch(l, m) == m.hash = l.hash /\ m.search = l.search /\ m.goal = l.goal /\ m.head = l.head
SamePlace(l, m) == m.prev = l.prev /\ m.curr = l.curr /\ m.link = l.link /\ m.size = l.size
Places == {"bucket"} \X Buckets \cup {"node"} \X Nodes

OnlyAt(l, a) == [l EXCEPT !.at = a]
LEMMA SetAt ==
  ASSUME NEW l \in Locals, NEW a \in Labels
  PROVE  LET m == OnlyAt(l, a)
         IN  /\ m \in Locals
             /\ m.at = a /\ SameCall(l, m) /\ SameSearch(l, m) /\ SamePlace(l, m)
<1>. DEFINE m == OnlyAt(l, a)
<1>1. m \in Locals
  BY DEF Locals, OnlyAt
<1>2. m.at = a /\ SameCall(l, m)
  BY DEF Locals, SameCall, OnlyAt
<1>3. SameSearch(l, m)
  BY DEF Locals, SameSearch, OnlyAt
<1>4. SamePlace(l, m)
  BY DEF Locals, SamePlace, OnlyAt
<1>. QED BY <1>1, <1>2, <1>3, <1>4

OnlyCurr(l, c) == [l EXCEPT !.curr = c]
LEMMA SetCurr ==
  ASSUME NEW l \in Locals, NEW c \in Nodes \cup {None}
  PROVE  LET m == OnlyCurr(l, c)
         IN  /\ m \in Locals
             /\ m.curr = c /\ m.at = l.at /\ SameCall(l, m) /\ SameSearch(l, m)
             /\ m.prev = l.prev /\ m.link = l.link /\ m.size = l.size
<1>. DEFINE m == OnlyCurr(l, c)
<1>1. m \in Locals
  BY DEF Locals, OnlyCurr
<1>2. m.curr = c
  BY DEF Locals, OnlyCurr
<1>3. m.at = l.at
  BY DEF Locals, OnlyCurr
<1>4. SameCall(l, m)
  BY DEF Locals, SameCall, OnlyCurr
<1>5. SameSearch(l, m)
  BY DEF Locals, SameSearch, OnlyCurr
<1>6. m.prev = l.prev /\ m.link = l.link /\ m.size = l.size
  BY DEF Locals, OnlyCurr
<1>. QED BY <1>1, <1>2, <1>3, <1>4, <1>5, <1>6

OnlyPrev(l, q) == [l EXCEPT !.prev = q]
LEMMA SetPrev ==
  ASSUME NEW l \in Locals, NEW q \in Places
  PROVE  LET m == OnlyPrev(l, q)
         IN  /\ m \in Locals
             /\ m.prev = q /\ m.at = l.at /\ SameCall(l, m) /\ SameSearch(l, m)
             /\ m.curr = l.curr /\ m.link = l.link /\ m.size = l.size
<1>. DEFINE m == OnlyPrev(l, q)
<1>1. m \in Locals
  BY DEF Locals, Places, OnlyPrev
<1>2. m.prev = q
  BY DEF Locals, OnlyPrev
<1>3. m.at = l.at
  BY DEF Locals, OnlyPrev
<1>4. SameCall(l, m)
  BY DEF Locals, SameCall, OnlyPrev
<1>5. SameSearch(l, m)
  BY DEF Locals, SameSearch, OnlyPrev
<1>6. m.curr = l.curr /\ m.link = l.link /\ m.size = l.size
  BY DEF Locals, OnlyPrev
<1>. QED BY <1>1, <1>2, <1>3, <1>4, <1>5, <1>6

WithCurr(l, a, c) == [l EXCEPT !.at = a, !.curr = c]
LEMMA AtCurr ==
  ASSUME NEW l \in Locals, NEW a \in Labels, NEW c \in Nodes \cup {None}
  PROVE  LET m == WithCurr(l, a, c)
         IN  /\ m \in Locals
             /\ m.at = a /\ m.curr = c /\ SameCall(l, m) /\ SameSearch(l, m) /\ m.prev = l.prev
             /\ m.link = l.link /\ m.size = l.size
<1>. DEFINE m == WithCurr(l, a, c)
<1>1. m \in Locals
  BY DEF Locals, WithCurr
<1>2. m.at = a /\ m.curr = c
  BY DEF Locals, WithCurr
<1>3. SameCall(l, m)
  BY DEF Locals, SameCall, WithCurr
<1>4. SameSearch(l, m)
  BY DEF Locals, SameSearch, WithCurr
<1>5. m.prev = l.prev /\ m.link = l.link /\ m.size = l.size
  BY DEF Locals, WithCurr
<1>. QED BY <1>1, <1>2, <1>3, <1>4, <1>5

WithLink(l, a, k) == [l EXCEPT !.at = a, !.link = k]
LEMMA AtLink ==
  ASSUME NEW l \in Locals, NEW a \in Labels, NEW k \in [to : Nodes \cup {None}, deleted : BOOLEAN]
  PROVE  LET m == WithLink(l, a, k)
         IN  /\ m \in Locals
             /\ m.at = a /\ m.link = k /\ SameCall(l, m) /\ SameSearch(l, m) /\ m.prev = l.prev
             /\ m.curr = l.curr /\ m.size = l.size
<1>. DEFINE m == WithLink(l, a, k)
<1>1. m \in Locals
  BY DEF Locals, WithLink
<1>2. m.at = a /\ m.link = k
  BY DEF Locals, WithLink
<1>3. SameCall(l, m)
  BY DEF Locals, SameCall, WithLink
<1>4. SameSearch(l, m)
  BY DEF Locals, SameSearch, WithLink
<1>5. m.prev = l.prev /\ m.curr = l.curr /\ m.size = l.size
  BY DEF Locals, WithLink
<1>. QED BY <1>1, <1>2, <1>3, <1>4, <1>5

WithPrev(l, a, q) == [l EXCEPT !.at = a, !.prev = q]
LEMMA AtPrev ==
  ASSUME NEW l \in Locals, NEW a \in Labels, NEW q \in Places
  PROVE  LET m == WithPrev(l, a, q)
         IN  /\ m \in Locals
             /\ m.at = a /\ m.prev = q /\ SameCall(l, m) /\ SameSearch(l, m) /\ m.curr = l.curr
             /\ m.link = l.link /\ m.size = l.size
<1>. DEFINE m == WithPrev(l, a, q)
<1>1. m \in Locals
  BY DEF Locals, Places, WithPrev
<1>2. m.at = a /\ m.prev = q
  BY DEF Locals, WithPrev
<1>3. SameCall(l, m)
  BY DEF Locals, SameCall, WithPrev
<1>4. SameSearch(l, m)
  BY DEF Locals, SameSearch, WithPrev
<1>5. m.curr = l.curr /\ m.link = l.link /\ m.size = l.size
  BY DEF Locals, WithPrev
<1>. QED BY <1>1, <1>2, <1>3, <1>4, <1>5

WithFrames(l, a, f) == [l EXCEPT !.at = a, !.frames = f]
LEMMA AtFrames ==
  ASSUME NEW l \in Locals, NEW a \in Labels, NEW f \in Seq(Buckets)
  PROVE  LET m == WithFrames(l, a, f)
         IN  /\ m \in Locals
             /\ m.at = a /\ m.frames = f /\ m.op = l.op /\ m.key = l.key /\ m.bucket = l.bucket
             /\ m.node = l.node /\ SameSearch(l, m) /\ SamePlace(l, m)
<1>. DEFINE m == WithFrames(l, a, f)
<1>1. m \in Locals
  BY DEF Locals, WithFrames
<1>2. m.at = a /\ m.frames = f
  BY DEF Locals, WithFrames
<1>3. m.op = l.op /\ m.key = l.key /\ m.bucket = l.bucket /\ m.node = l.node
  BY DEF Locals, WithFrames
<1>4. SameSearch(l, m)
  BY DEF Locals, SameSearch, WithFrames
<1>5. SamePlace(l, m)
  BY DEF Locals, SamePlace, WithFrames
<1>. QED BY <1>1, <1>2, <1>3, <1>4, <1>5

OnlyFrames(l, f) == [l EXCEPT !.frames = f]
LEMMA SetFrames ==
  ASSUME NEW l \in Locals, NEW f \in Seq(Buckets)
  PROVE  LET m == OnlyFrames(l, f)
         IN  /\ m \in Locals
             /\ m.frames = f /\ m.at = l.at /\ m.op = l.op /\ m.key = l.key
             /\ m.bucket = l.bucket /\ m.node = l.node /\ SameSearch(l, m) /\ SamePlace(l, m)
<1>. DEFINE m == OnlyFrames(l, f)
<1>1. m \in Locals
  BY DEF Locals, OnlyFrames
<1>2. m.frames = f
  BY DEF Locals, OnlyFrames
<1>3. m.at = l.at
  BY DEF Locals, OnlyFrames
<1>4. m.op = l.op /\ m.key = l.key /\ m.bucket = l.bucket /\ m.node = l.node
  BY DEF Locals, OnlyFrames
<1>5. SameSearch(l, m)
  BY DEF Locals, SameSearch, OnlyFrames
<1>6. SamePlace(l, m)
  BY DEF Locals, SamePlace, OnlyFrames
<1>. QED BY <1>1, <1>2, <1>3, <1>4, <1>5, <1>6

WithBucket(l, a, b) == [l EXCEPT !.at = a, !.bucket = b]
LEMMA AtBucket ==
  ASSUME NEW l \in Locals, NEW a \in Labels, NEW b \in Buckets
  PROVE  LET m == WithBucket(l, a, b)
         IN  /\ m \in Locals
             /\ m.at = a /\ m.bucket = b /\ m.op = l.op /\ m.key = l.key /\ m.node = l.node
             /\ m.frames = l.frames /\ SameSearch(l, m) /\ SamePlace(l, m)
<1>. DEFINE m == WithBucket(l, a, b)
<1>1. m \in Locals
  BY DEF Locals, WithBucket
<1>2. m.at = a /\ m.bucket = b
  BY DEF Locals, WithBucket
<1>3. m.op = l.op /\ m.key = l.key /\ m.node = l.node /\ m.frames = l.frames
  BY DEF Locals, WithBucket
<1>4. SameSearch(l, m)
  BY DEF Locals, SameSearch, WithBucket
<1>5. SamePlace(l, m)
  BY DEF Locals, SamePlace, WithBucket
<1>. QED BY <1>1, <1>2, <1>3, <1>4, <1>5

WithNode(l, a, n) == [l EXCEPT !.at = a, !.node = n]
LEMMA AtNode ==
  ASSUME NEW l \in Locals, NEW a \in Labels, NEW n \in Nodes \cup {None}
  PROVE  LET m == WithNode(l, a, n)
         IN  /\ m \in Locals
             /\ m.at = a /\ m.node = n /\ m.op = l.op /\ m.key = l.key /\ m.bucket = l.bucket
             /\ m.frames = l.frames /\ SameSearch(l, m) /\ SamePlace(l, m)
<1>. DEFINE m == WithNode(l, a, n)
<1>1. m \in Locals
  BY DEF Locals, WithNode
<1>2. m.at = a /\ m.node = n
  BY DEF Locals, WithNode
<1>3. m.op = l.op /\ m.key = l.key /\ m.bucket = l.bucket /\ m.frames = l.frames
  BY DEF Locals, WithNode
<1>4. SameSearch(l, m)
  BY DEF Locals, SameSearch, WithNode
<1>5. SamePlace(l, m)
  BY DEF Locals, SamePlace, WithNode
<1>. QED BY <1>1, <1>2, <1>3, <1>4, <1>5

WithSize(l, a, z) == [l EXCEPT !.at = a, !.size = z]
LEMMA AtSize ==
  ASSUME NEW l \in Locals, NEW a \in Labels, NEW z \in Nat
  PROVE  LET m == WithSize(l, a, z)
         IN  /\ m \in Locals
             /\ m.at = a /\ m.size = z /\ SameCall(l, m) /\ SameSearch(l, m) /\ m.prev = l.prev
             /\ m.curr = l.curr /\ m.link = l.link
<1>. DEFINE m == WithSize(l, a, z)
<1>1. m \in Locals
  BY DEF Locals, WithSize
<1>2. m.at = a /\ m.size = z
  BY DEF Locals, WithSize
<1>3. SameCall(l, m)
  BY DEF Locals, SameCall, WithSize
<1>4. SameSearch(l, m)
  BY DEF Locals, SameSearch, WithSize
<1>5. m.prev = l.prev /\ m.curr = l.curr /\ m.link = l.link
  BY DEF Locals, WithSize
<1>. QED BY <1>1, <1>2, <1>3, <1>4, <1>5

WithHead(l, a, d) == [l EXCEPT !.at = a, !.head = d]
LEMMA AtHead ==
  ASSUME NEW l \in Locals, NEW a \in Labels, NEW d \in Buckets
  PROVE  LET m == WithHead(l, a, d)
         IN  /\ m \in Locals
             /\ m.at = a /\ m.head = d /\ SameCall(l, m) /\ m.hash = l.hash
             /\ m.search = l.search /\ m.goal = l.goal /\ SamePlace(l, m)
<1>. DEFINE m == WithHead(l, a, d)
<1>1. m \in Locals
  BY DEF Locals, WithHead
<1>2. m.at = a /\ m.head = d
  BY DEF Locals, WithHead
<1>3. SameCall(l, m)
  BY DEF Locals, SameCall, WithHead
<1>4. m.hash = l.hash /\ m.search = l.search /\ m.goal = l.goal
  BY DEF Locals, WithHead
<1>5. SamePlace(l, m)
  BY DEF Locals, SamePlace, WithHead
<1>. QED BY <1>1, <1>2, <1>3, <1>4, <1>5

WithSearch(l, a, d, q, h, e, g) == [l EXCEPT !.at = a, !.head = d, !.prev = q, !.hash = h, !.search = e, !.goal = g]
LEMMA AtSearch ==
  ASSUME NEW l \in Locals, NEW a \in Labels, NEW d \in Buckets, NEW q \in Places, NEW h \in Nat, NEW e \in Keys \cup {DummyKey}, NEW g \in Goals \cup {"none"}
  PROVE  LET m == WithSearch(l, a, d, q, h, e, g)
         IN  /\ m \in Locals
             /\ m.at = a /\ m.head = d /\ m.prev = q /\ m.hash = h /\ m.search = e
             /\ m.goal = g /\ SameCall(l, m) /\ m.curr = l.curr /\ m.link = l.link
             /\ m.size = l.size
<1>. DEFINE m == WithSearch(l, a, d, q, h, e, g)
<1>1. m \in Locals
  <2>1. PICK m1 \in Locals : m1 = [l EXCEPT !.at = a, !.head = d, !.prev = q]
    BY DEF Locals, Places, WithSearch
  <2>2. [m1 EXCEPT !.hash = h, !.search = e, !.goal = g] \in Locals
    BY DEF Locals, WithSearch
  <2>. QED BY <2>1, <2>2, Zenon DEF WithSearch
<1>2. m.at = a /\ m.head = d /\ m.prev = q /\ m.hash = h /\ m.search = e /\ m.goal = g
  BY DEF Locals, WithSearch
<1>3. SameCall(l, m)
  BY DEF Locals, SameCall, WithSearch
<1>4. m.curr = l.curr /\ m.link = l.link /\ m.size = l.size
  BY DEF Locals, WithSearch
<1>. QED BY <1>1, <1>2, <1>3, <1>4

WithCall(l, a, o, y) == [l EXCEPT !.at = a, !.op = o, !.key = y]
LEMMA AtCall ==
  ASSUME NEW l \in Locals, NEW a \in Labels, NEW o \in Ops, NEW y \in Keys
  PROVE  LET m == WithCall(l, a, o, y)
         IN  /\ m \in Locals
             /\ m.at = a /\ m.op = o /\ m.key = y /\ m.bucket = l.bucket /\ m.node = l.node
             /\ m.frames = l.frames /\ SameSearch(l, m) /\ SamePlace(l, m)
<1>. DEFINE m == WithCall(l, a, o, y)
<1>1. m \in Locals
  BY DEF Locals, WithCall
<1>2. m.at = a /\ m.op = o /\ m.key = y
  BY DEF Locals, WithCall
<1>3. m.bucket = l.bucket /\ m.node = l.node /\ m.frames = l.frames
  BY DEF Locals, WithCall
<1>4. SameSearch(l, m)
  BY DEF Locals, SameSearch, WithCall
<1>5. SamePlace(l, m)
  BY DEF Locals, SamePlace, WithCall
<1>. QED BY <1>1, <1>2, <1>3, <1>4, <1>5

OnlyNode(l, n) == [l EXCEPT !.node = n]
LEMMA SetNode ==
  ASSUME NEW l \in Locals, NEW n \in Nodes \cup {None}
  PROVE  LET m == OnlyNode(l, n)
         IN  /\ m \in Locals
             /\ m.node = n /\ m.at = l.at /\ m.op = l.op /\ m.key = l.key
             /\ m.bucket = l.bucket /\ m.frames = l.frames /\ SameSearch(l, m)
             /\ SamePlace(l, m)
<1>. DEFINE m == OnlyNode(l, n)
<1>1. m \in Locals
  BY DEF Locals, OnlyNode
<1>2. m.node = n
  BY DEF Locals, OnlyNode
<1>3. m.at = l.at
  BY DEF Locals, OnlyNode
<1>4. m.op = l.op /\ m.key = l.key /\ m.bucket = l.bucket /\ m.frames = l.frames
  BY DEF Locals, OnlyNode
<1>5. SameSearch(l, m)
  BY DEF Locals, SameSearch, OnlyNode
<1>6. SamePlace(l, m)
  BY DEF Locals, SamePlace, OnlyNode
<1>. QED BY <1>1, <1>2, <1>3, <1>4, <1>5, <1>6

LEMMA IdleIs ==
  /\ Idle \in Locals /\ Idle.at = "idle" /\ Idle.node = None /\ Idle.frames = <<>>
  /\ Idle.prev = <<"bucket", 0>> /\ Idle.curr = None
<1>1. (CHOOSE k \in Keys : TRUE) \in Keys
  BY SplitListConstants
<1>2. 0 \in Nat /\ 0 \in Buckets /\ <<>> \in Seq(Buckets) /\ Unused \in [to : Nodes \cup {None}, deleted : BOOLEAN]
  BY BucketBounds, EmptySeq DEF Unused
<1>3. PICK k \in Keys, e \in Seq(Buckets), w \in [to : Nodes \cup {None}, deleted : BOOLEAN] :
          k = (CHOOSE x \in Keys : TRUE) /\ e = <<>> /\ w = Unused
  BY <1>1, <1>2
<1>4. Idle = [at |-> "idle", op |-> "none", key |-> k, bucket |-> 0, frames |-> e, node |-> None,
              hash |-> 0, search |-> DummyKey, goal |-> "none", head |-> 0, prev |-> <<"bucket", 0>>,
              curr |-> None, link |-> w, size |-> 0]
  BY <1>3, Zenon DEF Idle
<1>5. <<"bucket", 0>> \in {"bucket"} \X Buckets \cup {"node"} \X Nodes
  BY <1>2
<1>6. Idle \in Locals
  BY <1>2, <1>4, <1>5 DEF Locals, Labels
<1>7. Idle.frames = <<>>
  BY <1>3, <1>4
<1>. QED BY <1>4, <1>6, <1>7
-------------------------------------------------------------------------------
(* A thread's own steps: where they lead.                                   *)

\* Where lfind, called for g, may go on or return to.
Allowed(g, a) ==
    \/ a \in {"load", "confirm", "link", "next", "judge", "help"}
    \/ a = "swap" /\ g \in {"insert", "dummy"}
    \/ a \in {"mark", "unlink"} /\ g = "remove"
    \/ a = "duplicate" /\ g = "insert"
    \/ a = "install" /\ g = "dummy"
    \/ a = "found" /\ g = "get"
    \/ a = "missing" /\ g \in {"get", "remove"}
    \/ a = "uncount" /\ g = "cleanup"

LEMMA SearchGoesOn ==
  ASSUME NEW u, NEW s, NEW l \in Locals, NEW m \in Locals, ControlOK(u, s, l), l.at \in Searching,
         SameCall(l, m), SameSearch(l, m), Allowed(l.goal, m.at)
  PROVE  ControlOK(u, s, m)
<1>1. /\ m.op = l.op /\ m.key = l.key /\ m.bucket = l.bucket /\ m.node = l.node /\ m.frames = l.frames
      /\ m.hash = l.hash /\ m.search = l.search /\ m.goal = l.goal /\ m.head = l.head
  BY DEF SameCall, SameSearch
<1>2. OpOK(l) /\ HandOK(s, l) /\ SearchOK(u, s, l) /\ FramesOK(u, s, l)
  BY DEF ControlOK
<1>3. l.at # "idle" /\ l.at # "hash" /\ l.at # "install"
  BY DEF Searching
<1>4. l.op \in Ops /\ ReverseBits(l.bucket) < SplitHash(l.key)
  BY <1>2, <1>3 DEF OpOK
<1>5. l.goal \in Goals /\ (l.goal # "dummy" => l.op = IF l.goal = "cleanup" THEN "remove" ELSE l.goal)
  BY <1>2 DEF SearchOK
<1>6. OpOK(m)
  <2>1. m.at \in {"duplicate", "found", "missing", "uncount"} \/ m.at \in Searching \/ m.at = "install"
    BY DEF Allowed, Searching
  <2>2. CASE m.at \in Searching \/ m.at = "install"
    BY <1>1, <1>4, <2>2 DEF OpOK, Searching
  <2>3. CASE m.at = "duplicate"
    BY <1>1, <1>4, <1>5, <2>3 DEF OpOK, Allowed
  <2>4. CASE m.at = "found"
    BY <1>1, <1>4, <1>5, <2>4 DEF OpOK, Allowed
  <2>5. CASE m.at = "missing"
    BY <1>1, <1>4, <1>5, <2>5 DEF OpOK, Allowed
  <2>6. CASE m.at = "uncount"
    BY <1>1, <1>4, <1>5, <2>6 DEF OpOK, Allowed
  <2>. QED BY <2>1, <2>2, <2>3, <2>4, <2>5, <2>6
<1>7. HandOK(s, m)
  <2>1. l.op = "insert" => m.at \in Before
    <3>1. l.op = "insert" => l.goal \notin {"get", "remove", "cleanup"}
      BY <1>5
    <3>. QED BY <3>1 DEF Allowed, Before, Searching
  <2>2. /\ l.node # None => /\ l.op = "insert" /\ l.node \in Elements /\ l.node \notin s.pool \cup s.freed \cup s.list
                            /\ s.key[l.node] = l.key
        /\ l.op = "insert" => l.node # None
    BY <1>2 DEF HandOK, Before
  <2>. QED BY <1>1, <2>1, <2>2 DEF HandOK
<1>8. SearchOK(u, s, m)
  <2>. SUFFICES ASSUME m.at \in Searching PROVE SearchOK(u, s, m)
    BY DEF SearchOK
  <2>1. /\ m.at = "swap" => l.goal \in {"insert", "dummy"}
        /\ m.at \in {"mark", "unlink"} => l.goal = "remove"
    BY DEF Allowed
  <2>2. NodeOf(u, m) = NodeOf(u, l) /\ (First(m) <=> First(l))
    BY <1>1 DEF NodeOf, First
  <2>. QED BY <1>1, <1>2, <2>1, <2>2 DEF SearchOK
<1>9. FramesOK(u, s, m)
  <2>1. InFrames(m) => InFrames(l)
    BY <1>1 DEF InFrames, Allowed
  <2>2. InFrames(l) => /\ l.frames # <<>> /\ Parents(l.frames) /\ l.frames[Len(l.frames)] = l.bucket
                       /\ \A i \in 1 .. Len(l.frames) : <<l.frames[i], u>> \notin s.list
    BY <1>2, <1>3 DEF FramesOK
  <2>3. \A b \in Buckets : ~(<<b, u>> \in s.list /\ s.bucket[b] = None)
    BY <1>2, <1>3 DEF FramesOK
  <2>. QED BY <1>1, <2>1, <2>2, <2>3 DEF FramesOK
<1>. QED BY <1>6, <1>7, <1>8, <1>9 DEF ControlOK

LEMMA FieldsSame ==
  ASSUME NEW l, NEW m, SameCall(l, m), SameSearch(l, m)
  PROVE  /\ m.op = l.op /\ m.key = l.key /\ m.bucket = l.bucket /\ m.node = l.node /\ m.frames = l.frames
         /\ m.hash = l.hash /\ m.search = l.search /\ m.goal = l.goal /\ m.head = l.head
         /\ First(m) <=> First(l)
BY DEF SameCall, SameSearch, First

LEMMA PrevSame ==
  ASSUME NEW s, NEW l, NEW m, NEW p, NEW p2, SameSearch(l, m), m.prev = l.prev, p2[2] = p[2], PrevOK(s, l, p)
  PROVE  PrevOK(s, m, p2)
BY DEF PrevOK, SameSearch

LEMMA RetryIs ==
  ASSUME NEW l \in Locals
  PROVE  \E m \in Locals : /\ m = Retry(l) /\ m.at = "load" /\ m.prev = <<"bucket", l.head>>
                          /\ SameCall(l, m) /\ SameSearch(l, m)
<1>1. PICK q \in Places : q = <<"bucket", l.head>>
  BY LocalsFacts DEF Places
<1>2. "load" \in Labels
  BY DEF Labels, Searching
<1>3. Retry(l) = WithPrev(l, "load", q)
  BY Zenon, <1>1 DEF Retry, WithPrev
<1>. QED BY <1>1, <1>2, <1>3, AtPrev

\* Back to the bucket.
LEMMA RetryStep ==
  ASSUME NEW u, NEW s, NEW l \in Locals, ControlOK(u, s, l), l.at \in Searching, NEW p
  PROVE  Retry(l) \in Locals /\ ThreadOK(u, s, Retry(l), p) /\ Retry(l).node = l.node
<1>1. l.head \in Buckets
  BY LocalsFacts
<1>3. PICK m \in Locals : /\ m = Retry(l) /\ m.at = "load" /\ m.prev = <<"bucket", l.head>>
                          /\ SameCall(l, m) /\ SameSearch(l, m)
  BY RetryIs
<1>4. ControlOK(u, s, m)
  BY <1>3, SearchGoesOn DEF Allowed
<1>5. PrevOK(s, m, p)
  <2>1. m.head = l.head /\ m.prev[1] = "bucket" /\ m.prev[2] = l.head /\ "bucket" # "node"
    BY <1>3, FieldsSame
  <2>. QED BY <2>1 DEF PrevOK
<1>6. CursorOK(s, m, p)
  BY <1>3, <1>5 DEF CursorOK, Searching
<1>. QED BY <1>3, <1>4, <1>6, FieldsSame DEF ThreadOK

\* lfind does not find it.
LEMMA MissingStep ==
  ASSUME NEW u, NEW s, NEW l \in Locals, ControlOK(u, s, l), l.at \in Searching, NEW p,
         PrevOK(s, l, p), l.goal \in {"insert", "dummy"} => SwapOK(s, l, p)
  PROVE  Missing(l) \in Locals /\ ThreadOK(u, s, Missing(l), p) /\ Missing(l).node = l.node
<1>1. l.goal \in Goals
  BY DEF ControlOK, SearchOK
<1>2. PICK a : a = CASE l.goal \in {"insert", "dummy"} -> "swap"
                     [] l.goal \in {"remove", "get"}  -> "missing"
                     [] l.goal = "cleanup"            -> "uncount"
  OBVIOUS
<1>3. /\ l.goal \in {"insert", "dummy"} => a = "swap"
      /\ l.goal \in {"remove", "get"} => a = "missing"
      /\ l.goal = "cleanup" => a = "uncount"
  BY <1>2
<1>4. a \in Labels /\ Allowed(l.goal, a)
  BY <1>1, <1>3 DEF Labels, Searching, Allowed, Goals
<1>5. PICK m \in Locals : /\ m = Missing(l) /\ m.at = a
                          /\ SameCall(l, m) /\ SameSearch(l, m) /\ SamePlace(l, m)
  <2>1. Missing(l) = OnlyAt(l, a)
    BY Zenon, <1>2 DEF Missing, OnlyAt
  <2>. QED BY <2>1, <1>4, SetAt
<1>6. ControlOK(u, s, m)
  BY <1>4, <1>5, SearchGoesOn
<1>7. PrevOK(s, m, p)
  BY <1>5, PrevSame DEF SamePlace
<1>8. m.at = "swap" => SwapOK(s, m, p)
  <2>1. m.at = "swap" => l.goal \in {"insert", "dummy"}
    BY <1>4, <1>5 DEF Allowed
  <2>2. /\ m.curr = l.curr /\ m.hash = l.hash /\ m.search = l.search /\ m.prev = l.prev
        /\ First(m) <=> First(l)
    BY <1>5, FieldsSame DEF SamePlace
  <2>. QED BY <2>1, <2>2 DEF SwapOK
<1>9. m.at \in {"swap", "missing", "uncount"}
  BY <1>1, <1>3, <1>5 DEF Goals
<1>10. CursorOK(s, m, p)
  BY <1>7, <1>8, <1>9 DEF CursorOK
<1>. QED BY <1>5, <1>6, <1>10, FieldsSame DEF ThreadOK

\* lfind finds it.
LEMMA FoundStep ==
  ASSUME NEW u, NEW s, NEW l \in Locals, ControlOK(u, s, l), l.at \in Searching, NEW p,
         PrevOK(s, l, p), CurrOK(s, l, p), l.goal = "remove" => MarkOK(s, l),
         l.goal = "insert" /\ Flags = 0 => SwapOK(s, l, p),
         l.goal = "dummy" => InstallOK(s, l)
  PROVE  Found(l) \in Locals /\ ThreadOK(u, s, Found(l), p) /\ Found(l).node = l.node
<1>1. l.goal \in Goals
  BY DEF ControlOK, SearchOK
<1>2. PICK a : a = CASE l.goal = "insert"  -> IF Flags # 0 THEN "duplicate" ELSE "swap"
                     [] l.goal = "dummy"   -> "install"
                     [] l.goal = "remove"  -> "mark"
                     [] l.goal = "get"     -> "found"
                     [] l.goal = "cleanup" -> "uncount"
  OBVIOUS
<1>3. /\ l.goal = "insert" => a = IF Flags # 0 THEN "duplicate" ELSE "swap"
      /\ l.goal = "dummy" => a = "install"
      /\ l.goal = "remove" => a = "mark"
      /\ l.goal = "get" => a = "found"
      /\ l.goal = "cleanup" => a = "uncount"
  BY <1>2
<1>4. a \in Labels /\ Allowed(l.goal, a)
  BY <1>1, <1>3 DEF Labels, Searching, Allowed, Goals
<1>5. PICK m \in Locals : /\ m = Found(l) /\ m.at = a
                          /\ SameCall(l, m) /\ SameSearch(l, m) /\ SamePlace(l, m)
  <2>1. Found(l) = OnlyAt(l, a)
    BY Zenon, <1>2 DEF Found, OnlyAt
  <2>. QED BY <2>1, <1>4, SetAt
<1>6. ControlOK(u, s, m)
  BY <1>4, <1>5, SearchGoesOn
<1>7. PrevOK(s, m, p)
  BY <1>5, PrevSame DEF SamePlace
<1>8. /\ m.curr = l.curr /\ m.link = l.link /\ m.hash = l.hash /\ m.search = l.search /\ m.prev = l.prev
      /\ m.key = l.key /\ m.frames = l.frames /\ (First(m) <=> First(l))
  BY <1>5, FieldsSame DEF SamePlace
<1>9. m.at = "swap" => SwapOK(s, m, p)
  <2>1. m.at = "swap" => l.goal = "insert" /\ Flags = 0
    BY <1>1, <1>3, <1>5 DEF Goals
  <2>. QED BY <1>8, <2>1 DEF SwapOK
<1>10. m.at = "install" => InstallOK(s, m)
  <2>1. m.at = "install" => l.goal = "dummy"
    BY <1>4, <1>5 DEF Allowed
  <2>. QED BY <1>8, <2>1 DEF InstallOK
<1>11. CurrOK(s, m, p) /\ (m.at = "mark" => MarkOK(s, m))
  <2>1. m.at = "mark" => l.goal = "remove"
    BY <1>4, <1>5 DEF Allowed
  <2>. QED BY <1>8, <2>1 DEF CurrOK, MarkOK
<1>12. m.at \in {"swap", "duplicate", "install", "mark", "found", "uncount"}
  BY <1>1, <1>3, <1>5 DEF Goals
<1>13. CursorOK(s, m, p)
  BY <1>7, <1>9, <1>10, <1>11, <1>12 DEF CursorOK
<1>. QED BY <1>5, <1>6, <1>13, FieldsSame DEF ThreadOK

\* lfind goes on with node n.
LEMMA StepToStep ==
  ASSUME NEW u, NEW s, NEW l \in Locals, ControlOK(u, s, l), l.at \in Searching, NEW p,
         PrevOK(s, l, p), NEW n \in Nodes \cup {None}, p[1] = n,
         n # None => Held(s, n),
         n = None /\ l.prev[1] = "bucket" => First(l)
  PROVE  StepTo(l, n) \in Locals /\ ThreadOK(u, s, StepTo(l, n), p) /\ StepTo(l, n).node = l.node
<1>1. CASE n = None
  <2>1. PICK m \in Locals : /\ m = OnlyCurr(l, n) /\ m.curr = n /\ m.at = l.at /\ m.prev = l.prev
                            /\ SameCall(l, m) /\ SameSearch(l, m)
    BY SetCurr
  <2>2. ControlOK(u, s, m)
    <3>1. l.at \in Searching \ {"swap", "mark", "unlink"} \/ l.at \in {"swap", "mark", "unlink"}
      OBVIOUS
    <3>2. Allowed(l.goal, m.at)
      <4>1. /\ l.at = "swap" => l.goal \in {"insert", "dummy"}
            /\ l.at \in {"mark", "unlink"} => l.goal = "remove"
        BY DEF ControlOK, SearchOK, Searching
      <4>. QED BY <2>1, <4>1 DEF Allowed, Searching
    <3>. QED BY <2>1, <3>2, SearchGoesOn
  <2>3. PrevOK(s, m, p)
    BY <2>1, PrevSame
  <2>4. SwapOK(s, m, p)
    <3>1. m.prev = l.prev /\ m.curr = None /\ (First(m) <=> First(l))
      BY <1>1, <2>1, FieldsSame
    <3>. QED BY <1>1, <3>1 DEF SwapOK
  <2>5. Missing(m) \in Locals /\ ThreadOK(u, s, Missing(m), p) /\ Missing(m).node = m.node
    BY <2>1, <2>2, <2>3, <2>4, MissingStep
  <2>. QED BY <1>1, <2>1, <2>5, FieldsSame DEF StepTo, OnlyCurr
<1>2. CASE n # None
  <2>1. PICK m \in Locals : /\ m = WithCurr(l, "link", n) /\ m.curr = n /\ m.at = "link" /\ m.prev = l.prev
                            /\ SameCall(l, m) /\ SameSearch(l, m)
    <3>1. "link" \in Labels
      BY DEF Labels, Searching
    <3>. QED BY <3>1, AtCurr
  <2>2. ControlOK(u, s, m)
    BY <2>1, SearchGoesOn DEF Allowed
  <2>3. PrevOK(s, m, p)
    BY <2>1, PrevSame
  <2>4. CurrOK(s, m, p)
    BY <1>2, <2>1 DEF CurrOK
  <2>5. CursorOK(s, m, p)
    BY <2>1, <2>3, <2>4 DEF CursorOK
  <2>. QED BY <1>2, <2>1, <2>2, <2>5, FieldsSame DEF StepTo, ThreadOK, WithCurr
<1>. QED BY <1>1, <1>2
\* What lfind reads at its place, and what that says of the list.
ReadIn(s, place) == IF place[1] = "bucket" THEN LinkTo(s.bucket[place[2]]) ELSE s.link[place[2]]

LEMMA ReadTyped ==
  ASSUME NEW s, IsWorld(s), NEW l \in Locals
  PROVE  /\ ReadIn(s, l.prev) \in [to : Nodes \cup {None}, deleted : BOOLEAN]
         /\ ReadIn(s, l.prev).to \in Nodes \cup {None}
<1>1. CASE l.prev[1] = "bucket"
  <2>1. l.prev[2] \in Buckets
    BY <1>1, LocalsFacts
  <2>2. PICK c \in Nodes \cup {None} : c = s.bucket[l.prev[2]]
    BY <2>1, WorldFacts
  <2>. QED BY <1>1, <2>2 DEF ReadIn, LinkTo
<1>2. CASE l.prev[1] # "bucket"
  <2>1. l.prev[2] \in Nodes
    BY <1>2, LocalsFacts
  <2>2. s.link[l.prev[2]] \in [to : Nodes \cup {None}, deleted : BOOLEAN]
    BY <2>1, WorldFacts DEF Links
  <2>. QED BY <1>2, <2>2 DEF ReadIn
<1>. QED BY <1>1, <1>2

LEMMA NextIs ==
  ASSUME NEW s, IsWorld(s), WorldOK(s), NEW n \in s.list, s.link[n].to # None
  PROVE  s.link[n].to \in s.list /\ s.link[n].to # n
<1>1. PICK r \in [Nodes -> Nat] : Chain(s.list, r, s.link, s.bucket[0])
  BY DEF WorldOK, ListOK
<1>2. s.link[n].to \in s.list /\ r[s.link[n].to] < r[n]
  BY <1>1 DEF Chain
<1>3. r[n] \in Nat
  BY DEF IsWorld
<1>. QED BY <1>2, <1>3

LEMMA ReadIs ==
  ASSUME NEW s, IsWorld(s), WorldOK(s), NEW u, NEW l \in Locals, NEW p, l.at \in Searching,
         SearchOK(u, s, l), PrevOK(s, l, p), NEW c \in Nodes \cup {None}, ReadIn(s, l.prev) = LinkTo(c)
  PROVE  /\ c # None => c \in s.list
         /\ l.prev[1] = "node" => /\ l.prev[2] \in s.list /\ s.link[l.prev[2]] = LinkTo(c)
                                  /\ ~s.link[l.prev[2]].deleted /\ s.link[l.prev[2]].to = c
                                  /\ Below(s, l.prev[2], l.hash, l.search)
         /\ l.prev[1] = "bucket" => /\ c = s.bucket[l.head] /\ (c = None => First(l))
                                    /\ c # None => /\ c \in s.list \cap Dummies /\ c[1] = l.head
                                                   /\ ~s.link[c].deleted /\ s.hashnr[c] = ReverseBits(l.head)
                                                   /\ s.key[c] = DummyKey
                                    /\ ~First(l) => ReverseBits(l.head) < l.hash
<1>1. CASE l.prev[1] = "bucket"
  <2>1. l.prev[2] = l.head /\ l.head \in Buckets /\ "bucket" # "node"
    BY <1>1, LocalsFacts DEF PrevOK
  <2>2. LinkTo(c) = LinkTo(s.bucket[l.head])
    BY <1>1, <2>1 DEF ReadIn
  <2>3. c = s.bucket[l.head]
    BY <2>2 DEF LinkTo
  <2>4. ~First(l) => s.bucket[l.head] # None /\ ReverseBits(l.head) < l.hash
    BY DEF SearchOK
  <2>5. c # None => c \in s.list \cap Dummies /\ c[1] = l.head
    BY <2>1, <2>3 DEF WorldOK, BucketsOK
  <2>6. c # None => ~s.link[c].deleted /\ s.hashnr[c] = ReverseBits(l.head) /\ s.key[c] = DummyKey
    BY <2>5 DEF WorldOK, KeysOK
  <2>. QED BY <1>1, <2>1, <2>3, <2>4, <2>5, <2>6
<1>2. CASE l.prev[1] # "bucket"
  <2>1. l.prev[1] = "node" /\ l.prev[2] \in Nodes
    BY <1>2, LocalsFacts
  <2>2. s.link[l.prev[2]] = LinkTo(c)
    BY <1>2 DEF ReadIn
  <2>3. ~s.link[l.prev[2]].deleted /\ s.link[l.prev[2]].to = c
    BY <2>2 DEF LinkTo
  <2>4. l.prev[2] \in s.list /\ Below(s, l.prev[2], l.hash, l.search)
    BY <2>1, <2>3 DEF PrevOK, Held
  <2>5. c # None => c \in s.list
    BY <2>3, <2>4, NextIs
  <2>. QED BY <1>2, <2>1, <2>2, <2>3, <2>4, <2>5
<1>. QED BY <1>1, <1>2

\* The pins of a thread.
Pins == [0 .. 2 -> Nodes \cup {None}]

LEMMA LoadStep ==
  ASSUME NEW s, IsWorld(s), NEW t \in Threads, NEW l \in Locals, NEW p \in Pins,
         ThreadOK(t, s, l, p), l.at = "load"
  PROVE  LET m == WithCurr(l, "confirm", ReadIn(s, l.prev).to)
         IN  m \in Locals /\ ThreadOK(t, s, m, p) /\ m.node = l.node
<1>1. PICK c \in Nodes \cup {None} : c = ReadIn(s, l.prev).to
  BY ReadTyped
<1>2. "confirm" \in Labels
  BY DEF Labels, Searching
<1>3. PICK m \in Locals : /\ m = WithCurr(l, "confirm", c) /\ m.at = "confirm" /\ m.prev = l.prev
                          /\ SameCall(l, m) /\ SameSearch(l, m)
  BY <1>2, AtCurr
<1>4. ControlOK(t, s, m)
  BY <1>3, SearchGoesOn DEF ThreadOK, Allowed, Searching
<1>5. PrevOK(s, m, p)
  <2>1. PrevOK(s, l, p)
    BY DEF ThreadOK, CursorOK, Searching
  <2>. QED BY <1>3, <2>1, PrevSame
<1>6. CursorOK(s, m, p)
  BY <1>3, <1>5 DEF CursorOK
<1>. QED BY <1>1, <1>3, <1>4, <1>6, FieldsSame DEF ThreadOK

LEMMA ConfirmStep ==
  ASSUME NEW s, IsWorld(s), WorldOK(s), NEW t \in Threads, NEW l \in Locals, NEW p \in Pins,
         ThreadOK(t, s, l, p), l.at = "confirm", NEW p2 \in Pins, p2[1] = l.curr, p2[2] = p[2]
  PROVE  LET m == IF ReadIn(s, l.prev) = LinkTo(l.curr) THEN StepTo(l, l.curr) ELSE Retry(l)
         IN  m \in Locals /\ ThreadOK(t, s, m, p2) /\ m.node = l.node
<1>1. l.at \in Searching /\ ControlOK(t, s, l) /\ SearchOK(t, s, l)
  BY DEF ThreadOK, ControlOK, Searching
<1>2. PrevOK(s, l, p2)
  BY <1>1 DEF ThreadOK, CursorOK, PrevOK
<1>3. CASE ReadIn(s, l.prev) = LinkTo(l.curr)
  <2>1. l.curr \in Nodes \cup {None}
    BY LocalsFacts
  <2>2. l.curr # None => Held(s, l.curr)
    BY <1>1, <1>2, <1>3, <2>1, ReadIs DEF Held
  <2>3. l.curr = None /\ l.prev[1] = "bucket" => First(l)
    BY <1>1, <1>2, <1>3, <2>1, ReadIs
  <2>4. StepTo(l, l.curr) \in Locals /\ ThreadOK(t, s, StepTo(l, l.curr), p2) /\ StepTo(l, l.curr).node = l.node
    BY <1>1, <1>2, <2>1, <2>2, <2>3, StepToStep
  <2>. QED BY <1>3, <2>4
<1>4. CASE ReadIn(s, l.prev) # LinkTo(l.curr)
  <2>1. Retry(l) \in Locals /\ ThreadOK(t, s, Retry(l), p2) /\ Retry(l).node = l.node
    BY <1>1, RetryStep
  <2>. QED BY <1>4, <2>1
<1>. QED BY <1>3, <1>4

LEMMA LoadLinkStep ==
  ASSUME NEW s, IsWorld(s), NEW t \in Threads, NEW l \in Locals, NEW p \in Pins,
         ThreadOK(t, s, l, p), l.at = "link"
  PROVE  LET m == WithLink(l, "next", s.link[l.curr])
         IN  m \in Locals /\ ThreadOK(t, s, m, p) /\ m.node = l.node
<1>1. PrevOK(s, l, p) /\ CurrOK(s, l, p) /\ l.curr \in Nodes
  <2>1. PrevOK(s, l, p) /\ CurrOK(s, l, p)
    BY DEF ThreadOK, CursorOK, Searching
  <2>. QED BY <2>1, LocalsFacts DEF CurrOK
<1>2. PICK k \in [to : Nodes \cup {None}, deleted : BOOLEAN] : k = s.link[l.curr]
  BY <1>1, WorldFacts DEF Links
<1>3. "next" \in Labels
  BY DEF Labels, Searching
<1>4. PICK m \in Locals : /\ m = WithLink(l, "next", k) /\ m.at = "next" /\ m.prev = l.prev /\ m.curr = l.curr
                          /\ SameCall(l, m) /\ SameSearch(l, m)
  BY <1>3, AtLink
<1>5. ControlOK(t, s, m)
  BY <1>4, SearchGoesOn DEF ThreadOK, Allowed, Searching
<1>6. PrevOK(s, m, p)
  BY <1>1, <1>4, PrevSame
<1>7. CurrOK(s, m, p)
  BY <1>1, <1>4 DEF CurrOK
<1>8. CursorOK(s, m, p)
  BY <1>4, <1>6, <1>7 DEF CursorOK
<1>. QED BY <1>2, <1>4, <1>5, <1>8, FieldsSame DEF ThreadOK

LEMMA ConfirmNextStep ==
  ASSUME NEW s, IsWorld(s), WorldOK(s), NEW t \in Threads, NEW l \in Locals, NEW p \in Pins,
         ThreadOK(t, s, l, p), l.at = "next", NEW p2 \in Pins, p2[0] = l.link.to, p2[1] = p[1], p2[2] = p[2]
  PROVE  LET m == OnlyAt(l, IF s.link[l.curr] = l.link THEN "judge" ELSE "link")
         IN  m \in Locals /\ ThreadOK(t, s, m, p2) /\ m.node = l.node
<1>1. PrevOK(s, l, p) /\ CurrOK(s, l, p)
  BY DEF ThreadOK, CursorOK, Searching
<1>2. PICK a \in Labels : a = IF s.link[l.curr] = l.link THEN "judge" ELSE "link"
  BY DEF Labels, Searching
<1>3. PICK m \in Locals : /\ m = OnlyAt(l, a) /\ m.at = a
                          /\ SameCall(l, m) /\ SameSearch(l, m) /\ SamePlace(l, m)
  BY SetAt
<1>4. ControlOK(t, s, m)
  BY <1>2, <1>3, SearchGoesOn DEF ThreadOK, Allowed, Searching
<1>5. PrevOK(s, m, p2)
  BY <1>1, <1>3, PrevSame DEF SamePlace
<1>6. m.curr = l.curr /\ m.link = l.link
  BY <1>3 DEF SamePlace
<1>7. CurrOK(s, m, p2)
  BY <1>1, <1>6 DEF CurrOK
<1>8. m.at = "judge" => JudgeOK(s, m, p2)
  <2>1. SUFFICES ASSUME m.at = "judge", l.curr \in s.list, l.link.to # None
                 PROVE  Held(s, l.link.to)
    BY <1>2, <1>3, <1>6 DEF JudgeOK
  <2>2. s.link[l.curr].to = l.link.to
    BY <1>2, <1>3, <2>1
  <2>. QED BY <2>1, <2>2, NextIs DEF Held
<1>9. CursorOK(s, m, p2)
  BY <1>2, <1>3, <1>5, <1>7, <1>8 DEF CursorOK
<1>. QED BY <1>2, <1>3, <1>4, <1>9, FieldsSame DEF ThreadOK
\* Where the cursor is, when it is judged.
ReachedIn(s, l) == \/ s.hashnr[l.curr] > l.hash
                   \/ s.hashnr[l.curr] = l.hash /\ s.key[l.curr] >= l.search
EqualIn(s, l) == s.hashnr[l.curr] = l.hash /\ s.key[l.curr] = l.search

LEMMA JudgeFacts ==
  ASSUME NEW t, NEW s, NEW l \in Locals, NEW p, ThreadOK(t, s, l, p), l.at = "judge"
  PROVE  /\ l.at \in Searching /\ ControlOK(t, s, l) /\ SearchOK(t, s, l) /\ PrevOK(s, l, p)
         /\ CurrOK(s, l, p) /\ JudgeOK(s, l, p) /\ l.curr \in Nodes /\ l.curr # None
<1>1. l.at \in Searching /\ ControlOK(t, s, l) /\ SearchOK(t, s, l)
  BY DEF ThreadOK, ControlOK, Searching
<1>2. PrevOK(s, l, p) /\ CurrOK(s, l, p) /\ JudgeOK(s, l, p)
  BY <1>1 DEF ThreadOK, CursorOK
<1>. QED BY <1>1, <1>2, LocalsFacts DEF CurrOK

\* The dummy node of the bucket is reached by the first node's own search only.
LEMMA ReachedFromBucket ==
  ASSUME NEW s, IsWorld(s), WorldOK(s), NEW t \in Threads, NEW l \in Locals, NEW p \in Pins,
         ThreadOK(t, s, l, p), l.at = "judge", ReadIn(s, l.prev) = LinkTo(l.curr),
         ReachedIn(s, l), l.prev[1] # "node"
  PROVE  First(l) /\ EqualIn(s, l) /\ InstallOK(s, l)
<1>1. l.prev[1] = "bucket"
  BY LocalsFacts
<1>2. /\ l.curr \in s.list \cap Dummies /\ l.curr[1] = l.head /\ s.key[l.curr] = DummyKey
      /\ s.hashnr[l.curr] = ReverseBits(l.head) /\ (~First(l) => ReverseBits(l.head) < l.hash)
  <2>1. /\ l.at \in Searching /\ SearchOK(t, s, l) /\ PrevOK(s, l, p) /\ l.curr \in Nodes /\ l.curr # None
    BY JudgeFacts
  <2>. QED BY <1>1, <2>1, ReadIs
<1>3. ReverseBits(l.head) \in Nat /\ l.hash \in Nat /\ l.search \in Nat
  BY LocalsFacts, BucketReversed
<1>4. First(l)
  <2>1. ~(s.hashnr[l.curr] < l.hash)
    BY <1>2, <1>3 DEF ReachedIn
  <2>. QED BY <1>2, <2>1
<1>5. l.goal = "dummy" /\ Head(l.frames) = 0 /\ l.head = 0 /\ l.search = DummyKey /\ l.hash = ReverseBits(Head(l.frames))
  <2>1. l.goal = "dummy" /\ Head(l.frames) = 0
    BY <1>4 DEF First
  <2>2. SearchOK(t, s, l) /\ l.at \in Searching
    BY JudgeFacts
  <2>. QED BY <1>4, <2>1, <2>2 DEF SearchOK
<1>6. EqualIn(s, l)
  BY Zenon, <1>2, <1>5 DEF EqualIn
<1>7. InstallOK(s, l)
  BY <1>2, <1>5 DEF InstallOK
<1>. QED BY <1>4, <1>6, <1>7

\* The node found for a dummy node is a dummy node of that bucket.
LEMMA EqualIsInstalled ==
  ASSUME NEW s, IsWorld(s), WorldOK(s), NEW t \in Threads, NEW l \in Locals,
         SearchOK(t, s, l), l.at \in Searching, l.goal = "dummy", l.curr \in s.list, EqualIn(s, l)
  PROVE  InstallOK(s, l)
<1>1. /\ l.frames # <<>> /\ l.search = DummyKey /\ l.hash = ReverseBits(Head(l.frames))
  BY DEF SearchOK
<1>2. Head(l.frames) \in Buckets
  BY <1>1, FramesFacts, LocalsFacts
<1>3. s.key[l.curr] = DummyKey /\ s.hashnr[l.curr] = ReverseBits(Head(l.frames))
  BY Zenon, <1>1 DEF EqualIn
<1>4. l.curr \in Nodes
  BY DEF IsWorld
<1>5. l.curr \in Dummies
  <2>1. DummyKey \notin Keys
    BY SplitListConstants DEF DummyKey
  <2>2. l.curr \in Elements => s.key[l.curr] \in Keys
    BY DEF WorldOK, KeysOK
  <2>. QED BY <1>3, <1>4, <2>1, <2>2 DEF Nodes
<1>6. s.hashnr[l.curr] = ReverseBits(l.curr[1]) /\ l.curr[1] \in Buckets
  <2>1. s.hashnr[l.curr] = ReverseBits(l.curr[1])
    BY <1>5 DEF WorldOK, KeysOK
  <2>2. l.curr[1] \in Buckets
    BY <1>5 DEF Dummies
  <2>. QED BY <2>1, <2>2
<1>7. l.curr[1] = Head(l.frames)
  BY <1>2, <1>3, <1>6, BucketsDiffer
<1>. QED BY <1>5, <1>7 DEF InstallOK

LEMMA JudgeFound ==
  ASSUME NEW s, IsWorld(s), WorldOK(s), NEW t \in Threads, NEW l \in Locals, NEW p \in Pins,
         ThreadOK(t, s, l, p), l.at = "judge", ReadIn(s, l.prev) = LinkTo(l.curr),
         ~l.link.deleted, ReachedIn(s, l)
  PROVE  LET m == IF EqualIn(s, l) THEN Found(l) ELSE Missing(l)
         IN  m \in Locals /\ ThreadOK(t, s, m, p) /\ m.node = l.node
<1>1. /\ l.at \in Searching /\ ControlOK(t, s, l) /\ SearchOK(t, s, l) /\ PrevOK(s, l, p)
      /\ CurrOK(s, l, p) /\ JudgeOK(s, l, p) /\ l.curr \in Nodes /\ l.curr # None
  BY JudgeFacts
<1>2. l.curr \in s.list
  BY <1>1, ReadIs
<1>3. l.goal \in {"insert", "remove"} => l.search = l.key /\ l.key \in Keys
  BY <1>1, LocalsFacts DEF SearchOK, Sought
<1>4. s.hashnr[l.curr] \in Nat /\ s.key[l.curr] \in Nat /\ l.hash \in Nat /\ l.search \in Nat
  BY <1>1, WorldFacts, LocalsFacts
<1>5. Held(s, l.curr) /\ p[1] = l.curr
  BY <1>1 DEF CurrOK
<1>6. CASE EqualIn(s, l)
  <2>1. l.goal = "remove" => MarkOK(s, l)
    BY Zenon, <1>3, <1>6 DEF MarkOK, EqualIn
  <2>2. l.goal = "insert" /\ Flags = 0 => SwapOK(s, l, p)
    <3>1. SUFFICES ASSUME l.goal = "insert", Flags = 0
                   PROVE  SwapOK(s, l, p)
      OBVIOUS
    <3>2. l.prev[1] # "bucket"
      BY <3>1, ReachedFromBucket DEF First
    <3>3. l.search # DummyKey
      BY <1>3, <3>1, SplitListConstants DEF DummyKey
    <3>4. Above(s, l.curr, l.hash, l.search)
      BY <1>4, <1>6, <3>1, <3>3 DEF EqualIn, Above, Again
    <3>. QED BY <1>5, <3>2, <3>4 DEF SwapOK
  <2>3. l.goal = "dummy" => InstallOK(s, l)
    BY <1>1, <1>2, <1>6, EqualIsInstalled
  <2>4. Found(l) \in Locals /\ ThreadOK(t, s, Found(l), p) /\ Found(l).node = l.node
    BY <1>1, <2>1, <2>2, <2>3, FoundStep
  <2>. QED BY <1>6, <2>4
<1>7. CASE ~EqualIn(s, l)
  <2>1. l.prev[1] # "bucket"
    BY <1>7, ReachedFromBucket
  <2>2. Above(s, l.curr, l.hash, l.search)
    BY <1>4, <1>7 DEF EqualIn, ReachedIn, Above
  <2>3. SwapOK(s, l, p)
    BY <1>5, <2>1, <2>2 DEF SwapOK
  <2>4. Missing(l) \in Locals /\ ThreadOK(t, s, Missing(l), p) /\ Missing(l).node = l.node
    BY <1>1, <2>3, MissingStep
  <2>. QED BY <1>7, <2>4
<1>. QED BY <1>6, <1>7

LEMMA JudgeGoesOn ==
  ASSUME NEW s, IsWorld(s), WorldOK(s), NEW t \in Threads, NEW l \in Locals, NEW p \in Pins,
         ThreadOK(t, s, l, p), l.at = "judge", ReadIn(s, l.prev) = LinkTo(l.curr),
         ~l.link.deleted, ~ReachedIn(s, l), NEW p2 \in Pins, p2[2] = l.curr, p2[1] = l.link.to
  PROVE  LET m == StepTo(OnlyPrev(l, <<"node", l.curr>>), l.link.to)
         IN  m \in Locals /\ ThreadOK(t, s, m, p2) /\ m.node = l.node
<1>1. /\ l.at \in Searching /\ ControlOK(t, s, l) /\ SearchOK(t, s, l) /\ PrevOK(s, l, p)
      /\ CurrOK(s, l, p) /\ JudgeOK(s, l, p) /\ l.curr \in Nodes /\ l.curr # None
  BY JudgeFacts
<1>2. l.curr \in s.list
  BY <1>1, ReadIs
<1>3. s.hashnr[l.curr] \in Nat /\ s.key[l.curr] \in Nat /\ l.hash \in Nat /\ l.search \in Nat
  BY <1>1, WorldFacts, LocalsFacts
<1>4. Below(s, l.curr, l.hash, l.search)
  BY <1>3 DEF Below, ReachedIn
<1>5. PICK q \in Places : q = <<"node", l.curr>>
  BY <1>1 DEF Places
<1>6. PICK m \in Locals : /\ m = OnlyPrev(l, q) /\ m.prev = q /\ m.at = l.at
                          /\ SameCall(l, m) /\ SameSearch(l, m)
  BY SetPrev
<1>7. ControlOK(t, s, m)
  BY <1>1, <1>6, SearchGoesOn DEF Allowed
<1>8. m.prev[1] = "node" /\ m.prev[2] = l.curr /\ "node" # "bucket"
  BY <1>5, <1>6
<1>9. m.hash = l.hash /\ m.search = l.search /\ m.node = l.node
  BY <1>6, FieldsSame
<1>10. Held(s, l.curr)
  BY <1>1 DEF CurrOK
<1>11. PrevOK(s, m, p2)
  BY <1>4, <1>8, <1>9, <1>10 DEF PrevOK
<1>12. PICK n \in Nodes \cup {None} : n = l.link.to
  BY LocalsFacts
<1>13. n # None => Held(s, n)
  BY <1>1, <1>2, <1>12 DEF JudgeOK
<1>14. StepTo(m, n) \in Locals /\ ThreadOK(t, s, StepTo(m, n), p2) /\ StepTo(m, n).node = m.node
  BY <1>1, <1>6, <1>7, <1>8, <1>11, <1>12, <1>13, StepToStep
<1>. QED BY <1>5, <1>6, <1>9, <1>12, <1>14

LEMMA JudgeHelps ==
  ASSUME NEW s, IsWorld(s), WorldOK(s), NEW t \in Threads, NEW l \in Locals, NEW p \in Pins,
         ThreadOK(t, s, l, p), l.at = "judge", l.link.deleted
  PROVE  LET m == OnlyAt(l, "help")
         IN  m \in Locals /\ ThreadOK(t, s, m, p) /\ m.node = l.node
<1>1. /\ l.at \in Searching /\ ControlOK(t, s, l) /\ SearchOK(t, s, l) /\ PrevOK(s, l, p)
      /\ CurrOK(s, l, p) /\ JudgeOK(s, l, p) /\ l.curr \in Nodes /\ l.curr # None
  BY JudgeFacts
<1>2. "help" \in Labels
  BY DEF Labels, Searching
<1>3. PICK m \in Locals : /\ m = OnlyAt(l, "help") /\ m.at = "help"
                          /\ SameCall(l, m) /\ SameSearch(l, m) /\ SamePlace(l, m)
  BY <1>2, SetAt
<1>4. ControlOK(t, s, m)
  BY <1>1, <1>3, SearchGoesOn DEF Allowed
<1>5. PrevOK(s, m, p)
  BY <1>1, <1>3, PrevSame DEF SamePlace
<1>6. m.curr = l.curr /\ m.link = l.link
  BY <1>3 DEF SamePlace
<1>7. CurrOK(s, m, p)
  BY <1>1, <1>6 DEF CurrOK
<1>8. HelpOK(s, m)
  BY <1>1, <1>6 DEF HelpOK, JudgeOK
<1>9. CursorOK(s, m, p)
  BY <1>3, <1>5, <1>7, <1>8 DEF CursorOK
<1>. QED BY <1>3, <1>4, <1>9, FieldsSame DEF ThreadOK
-------------------------------------------------------------------------------
(* An element leaves the list: HelpRemove and Unlink.                       *)

\* Node c behind q, before n, is taken out and freed.
TakenOut(s, s2, q, c, n) ==
    /\ s2.link[q] = LinkTo(n)
    /\ \A m \in Nodes : m # q => s2.link[m] = s.link[m]
    /\ \A m \in Nodes : m # c => s2.key[m] = s.key[m]
    /\ s2.hashnr = s.hashnr /\ s2.bucket = s.bucket /\ s2.pool = s.pool /\ s2.freed = s.freed \cup {c}
    /\ s2.list = ListFrom(s2.link, s2.bucket[0])

LEMMA RemoveFacts ==
  ASSUME NEW s, IsWorld(s), WorldOK(s), NEW t \in Threads, NEW l \in Locals, NEW p \in Pins,
         ThreadOK(t, s, l, p), l.at \in {"help", "unlink"}, ReadIn(s, l.prev) = LinkTo(l.curr)
  PROVE  /\ l.prev[1] = "node" /\ l.prev[2] \in s.list /\ l.curr \in s.list
         /\ s.link[l.prev[2]] = LinkTo(l.curr) /\ s.link[l.curr].deleted /\ s.link[l.curr].to = l.link.to
<1>1. /\ l.at \in Searching /\ SearchOK(t, s, l) /\ PrevOK(s, l, p)
  BY DEF ThreadOK, ControlOK, CursorOK, Searching
<1>2. l.curr \in Nodes \cup {None} /\ l.curr # None
  BY LocalsFacts DEF ThreadOK, CursorOK, CurrOK
<1>3. l.curr \in s.list
  BY <1>1, <1>2, ReadIs
<1>4. s.link[l.curr].deleted /\ s.link[l.curr].to = l.link.to
  <2>1. CASE l.at = "help"
    BY <1>3, <2>1 DEF ThreadOK, CursorOK, HelpOK
  <2>2. CASE l.at = "unlink"
    <3>1. s.link[l.curr] = [to |-> l.link.to, deleted |-> TRUE]
      BY <1>3, <2>2 DEF ThreadOK, CursorOK, UnlinkOK
    <3>. QED BY <3>1
  <2>. QED BY <2>1, <2>2
<1>5. l.prev[1] = "node"
  <2>1. l.prev[1] # "bucket"
    BY <1>1, <1>2, <1>4, ReadIs
  <2>. QED BY <2>1, LocalsFacts
<1>6. l.prev[2] \in s.list /\ s.link[l.prev[2]] = LinkTo(l.curr)
  BY <1>1, <1>2, <1>5, ReadIs
<1>. QED BY <1>3, <1>4, <1>5, <1>6

LEMMA TakeOut ==
  ASSUME NEW s, IsWorld(s), WorldOK(s), NEW s2, Typed(s2), NEW q \in s.list, NEW c \in s.list,
         s.link[q] = LinkTo(c), s.link[c].deleted, TakenOut(s, s2, q, c, s.link[c].to),
         NEW u \in Threads, NEW m \in Locals, NEW p \in Pins, ThreadOK(u, s, m, p)
  PROVE  /\ IsWorld(s2) /\ WorldOK(s2) /\ s2.list = s.list \ {c} /\ c \in Elements /\ q # c
         /\ Steady(s, s2) /\ ThreadOK(u, s2, m, p)
<1>1. /\ IsWorld(s2) /\ WorldOK(s2) /\ s2.list = s.list \ {c} /\ c \in Elements /\ q # c
      /\ Steady(s, s2) /\ PinsFollow(s, s2, p)
  BY RemoveStep DEF TakenOut
<1>2. m.node # None => m.node \in Nodes /\ m.node # c /\ m.node \notin s.pool \cup s.freed \cup s.list
  BY LocalsFacts DEF ThreadOK, ControlOK, HandOK
<1>3. \A b \in Buckets : <<b, u>> \in Dummies /\ <<b, u>> # c
  BY <1>1, SplitListConstants DEF Dummies
<1>4. Own(s, s2, u, m.node)
  <2>1. \A b \in Buckets : /\ <<b, u>> \in s2.list <=> <<b, u>> \in s.list
                           /\ s2.hashnr[<<b, u>>] = s.hashnr[<<b, u>>]
    BY <1>1, <1>3 DEF TakenOut
  <2>2. m.node # None => /\ s2.hashnr[m.node] = s.hashnr[m.node] /\ s2.key[m.node] = s.key[m.node]
                         /\ m.node \notin s2.pool \cup s2.freed \cup s2.list
    BY <1>1, <1>2 DEF TakenOut
  <2>. QED BY <2>1, <2>2 DEF Own
<1>5. ThreadOK(u, s2, m, p)
  BY <1>1, <1>4, ThreadStays DEF Pins
<1>. QED BY <1>1, <1>5

LEMMA HelpStep ==
  ASSUME NEW s, IsWorld(s), WorldOK(s), NEW s2, Typed(s2), NEW t \in Threads, NEW l \in Locals, NEW p \in Pins,
         ThreadOK(t, s, l, p), l.at = "help", ReadIn(s, l.prev) = LinkTo(l.curr),
         TakenOut(s, s2, l.prev[2], l.curr, l.link.to), NEW p2 \in Pins, p2[1] = l.link.to, p2[2] = p[2]
  PROVE  LET m == StepTo(l, l.link.to)
         IN  m \in Locals /\ ThreadOK(t, s2, m, p2) /\ m.node = l.node
<1>1. /\ l.prev[1] = "node" /\ l.prev[2] \in s.list /\ l.curr \in s.list
      /\ s.link[l.prev[2]] = LinkTo(l.curr) /\ s.link[l.curr].deleted /\ s.link[l.curr].to = l.link.to
  BY RemoveFacts
<1>2. /\ IsWorld(s2) /\ WorldOK(s2) /\ s2.list = s.list \ {l.curr} /\ ThreadOK(t, s2, l, p)
  BY <1>1, TakeOut
<1>3. l.at \in Searching /\ ControlOK(t, s2, l)
  BY <1>2 DEF ThreadOK, Searching
<1>4. PrevOK(s2, l, p2)
  BY <1>2, <1>3 DEF ThreadOK, CursorOK, PrevOK
<1>5. PICK n \in Nodes \cup {None} : n = l.link.to
  BY LocalsFacts
<1>6. n # None => Held(s2, n)
  BY <1>1, <1>2, <1>5, NextIs DEF Held
<1>7. StepTo(l, n) \in Locals /\ ThreadOK(t, s2, StepTo(l, n), p2) /\ StepTo(l, n).node = l.node
  BY <1>1, <1>3, <1>4, <1>5, <1>6, StepToStep
<1>. QED BY <1>5, <1>7

\* Who marked the element and took it out is done; who cannot leaves it to lfind.
LEMMA UnlinkStep ==
  ASSUME NEW s2, NEW t \in Threads, NEW l \in Locals, NEW p \in Pins, ThreadOK(t, s2, l, p), l.at = "unlink"
  PROVE  LET m == OnlyAt(l, "uncount")
         IN  m \in Locals /\ ThreadOK(t, s2, m, p) /\ m.node = l.node
<1>1. l.at \in Searching /\ ControlOK(t, s2, l) /\ l.goal = "remove"
  BY DEF ThreadOK, ControlOK, SearchOK, Searching
<1>2. "uncount" \in Labels /\ "uncount" \notin Searching \cup Before
  BY DEF Labels, Searching, Before
<1>3. PICK m \in Locals : /\ m = OnlyAt(l, "uncount") /\ m.at = "uncount"
                          /\ SameCall(l, m) /\ SameSearch(l, m) /\ SamePlace(l, m)
  BY <1>2, SetAt
<1>4. /\ m.op = l.op /\ m.key = l.key /\ m.bucket = l.bucket /\ m.node = l.node /\ m.frames = l.frames
  BY <1>3, FieldsSame
<1>5. l.op = "remove" /\ l.node = None
  <2>1. l.op = "remove"
    BY <1>1 DEF ControlOK, SearchOK
  <2>. QED BY <2>1 DEF ThreadOK, ControlOK, HandOK
<1>6. OpOK(m)
  BY <1>1, <1>3, <1>4, <1>5 DEF ControlOK, OpOK, Ops, Searching
<1>7. HandOK(s2, m)
  BY <1>4, <1>5 DEF HandOK
<1>8. SearchOK(t, s2, m)
  BY <1>2, <1>3 DEF SearchOK
<1>9. FramesOK(t, s2, m)
  <2>1. \A b \in Buckets : <<b, t>> \in s2.list /\ s2.bucket[b] = None => FALSE
    BY DEF ThreadOK, ControlOK, FramesOK
  <2>. QED BY <1>2, <1>3, <2>1 DEF FramesOK, InFrames
<1>10. CursorOK(s2, m, p)
  BY <1>2, <1>3 DEF CursorOK
<1>. QED BY <1>3, <1>4, <1>6, <1>7, <1>8, <1>9, <1>10 DEF ThreadOK, ControlOK
-------------------------------------------------------------------------------
(* Steps that leave the list as it is.                                      *)

LEMMA QuietOthers ==
  ASSUME NEW s, IsWorld(s), WorldOK(s), NEW s2, Typed(s2), Quiet(s, s2), s2.list = ListFrom(s2.link, s2.bucket[0]),
         s.freed \subseteq s2.freed, \A n \in s.freed : s2.link[n] = s.link[n],
         NEW u \in Threads, NEW m \in Locals, NEW p \in Pins, ThreadOK(u, s, m, p),
         \A b \in Buckets : s2.hashnr[<<b, u>>] = s.hashnr[<<b, u>>],
         m.node # None => /\ s2.hashnr[m.node] = s.hashnr[m.node] /\ s2.key[m.node] = s.key[m.node]
                          /\ m.node \notin s2.pool \cup s2.freed
  PROVE  IsWorld(s2) /\ WorldOK(s2) /\ s2.list = s.list /\ Steady(s, s2) /\ ThreadOK(u, s2, m, p)
<1>1. IsWorld(s2) /\ WorldOK(s2) /\ s2.list = s.list /\ Steady(s, s2)
  BY QuietStep
<1>2. PinsFollow(s, s2, p)
  <2>1. \A x \in s.list : s.link[x].deleted => s2.link[x] = s.link[x]
    BY DEF Quiet
  <2>. QED BY <1>1, <2>1, QuietPins
<1>3. Own(s, s2, u, m.node)
  <2>1. m.node # None => m.node \notin s.list
    BY DEF ThreadOK, ControlOK, HandOK
  <2>. QED BY <1>1, <2>1 DEF Own
<1>. QED BY <1>1, <1>2, <1>3, ThreadStays DEF Pins

\* A thread that is not in lfind, and has no element to insert.
LEMMA OutsideStep ==
  ASSUME NEW t, NEW s, NEW l \in Locals, NEW p, ThreadOK(t, s, l, p), l.at # "install",
         NEW m \in Locals, m.at \in {"idle", "count", "add", "double", "uncount", "using"},
         m.node = None, OpOK(m), NEW p2, m.at = "using" => UsingOK(s, m, p2)
  PROVE  ThreadOK(t, s, m, p2)
<1>1. m.at \notin Searching \cup Before \cup {"found"}
  BY DEF Searching, Before
<1>2. HandOK(s, m)
  BY <1>1 DEF HandOK
<1>3. SearchOK(t, s, m)
  BY <1>1 DEF SearchOK
<1>4. FramesOK(t, s, m)
  <2>1. \A b \in Buckets : <<b, t>> \in s.list /\ s.bucket[b] = None => FALSE
    BY DEF ThreadOK, ControlOK, FramesOK
  <2>2. ~InFrames(m)
    BY <1>1 DEF InFrames, Before
  <2>. QED BY <2>1, <2>2 DEF FramesOK
<1>5. CursorOK(s, m, p2)
  BY <1>1 DEF CursorOK, Searching, Before
<1>. QED BY <1>2, <1>3, <1>4, <1>5 DEF ThreadOK, ControlOK

LEMMA DoneStep ==
  ASSUME NEW t, NEW s, NEW l \in Locals, NEW p, ThreadOK(t, s, l, p), l.at # "install", NEW p2
  PROVE  ThreadOK(t, s, Idle, p2)
<1>1. PICK m \in Locals : m = Idle /\ m.at = "idle" /\ m.node = None
  BY IdleIs
<1>2. OpOK(m)
  BY <1>1 DEF OpOK
<1>3. ThreadOK(t, s, m, p2)
  BY <1>1, <1>2, OutsideStep
<1>. QED BY <1>1, <1>3

\* On the way to the end of an insertion.
LEMMA CountStep ==
  ASSUME NEW t, NEW s, NEW l \in Locals, NEW p, ThreadOK(t, s, l, p), l.at \in {"count", "add"},
         NEW m \in Locals, m.at \in {"add", "double"}, SameCall(l, m)
  PROVE  ThreadOK(t, s, m, p) /\ m.node = l.node
<1>1. /\ m.op = l.op /\ m.key = l.key /\ m.bucket = l.bucket /\ m.node = l.node
  BY DEF SameCall
<1>2. l.op = "insert" /\ l.node = None /\ ReverseBits(l.bucket) < SplitHash(l.key)
  BY DEF ThreadOK, ControlOK, OpOK, HandOK, Before, Searching
<1>3. OpOK(m)
  BY <1>1, <1>2 DEF OpOK, Ops
<1>4. ThreadOK(t, s, m, p)
  BY <1>1, <1>2, <1>3, OutsideStep
<1>. QED BY <1>1, <1>4

LEMMA UsingStep ==
  ASSUME NEW t, NEW s, NEW l \in Locals, NEW p, ThreadOK(t, s, l, p), l.at = "found", NEW p2, p2[2] = l.curr
  PROVE  LET m == OnlyAt(l, "using")
         IN  m \in Locals /\ ThreadOK(t, s, m, p2) /\ m.node = l.node
<1>1. "using" \in Labels
  BY DEF Labels, Searching
<1>2. PICK m \in Locals : /\ m = OnlyAt(l, "using") /\ m.at = "using"
                          /\ SameCall(l, m) /\ SameSearch(l, m) /\ SamePlace(l, m)
  BY <1>1, SetAt
<1>3. /\ m.op = l.op /\ m.key = l.key /\ m.bucket = l.bucket /\ m.node = l.node /\ m.curr = l.curr
  BY <1>2, FieldsSame DEF SamePlace
<1>4. l.op = "get" /\ l.node = None /\ ReverseBits(l.bucket) < SplitHash(l.key)
  <2>1. l.op = "get" /\ ReverseBits(l.bucket) < SplitHash(l.key)
    BY DEF ThreadOK, ControlOK, OpOK
  <2>. QED BY <2>1 DEF ThreadOK, ControlOK, HandOK
<1>5. OpOK(m)
  BY <1>2, <1>3, <1>4 DEF OpOK, Ops
<1>6. UsingOK(s, m, p2)
  BY <1>3 DEF ThreadOK, CursorOK, CurrOK, UsingOK
<1>7. ThreadOK(t, s, m, p2)
  BY <1>2, <1>3, <1>4, <1>5, <1>6, OutsideStep
<1>. QED BY <1>2, <1>3, <1>7

\* Who marked it lets lfind take it out.
LEMMA CleanupStep ==
  ASSUME NEW s, NEW t \in Threads, NEW l \in Locals, NEW p, ThreadOK(t, s, l, p), l.at = "unlink"
  PROVE  LET m == Find(l, l.head, l.hash, l.search, "cleanup")
         IN  m \in Locals /\ ThreadOK(t, s, m, p) /\ m.node = l.node
<1>1. l.at \in Searching /\ OpOK(l) /\ HandOK(s, l) /\ SearchOK(t, s, l) /\ FramesOK(t, s, l) /\ l.goal = "remove"
  BY DEF ThreadOK, ControlOK, SearchOK, Searching
<1>2. l.head \in Buckets /\ l.hash \in Nat /\ l.search \in Keys \cup {DummyKey} /\ "cleanup" \in Goals \cup {"none"}
  BY LocalsFacts DEF Goals
<1>3. PICK q \in Places : q = <<"bucket", l.head>>
  BY <1>2 DEF Places
<1>4. "load" \in Labels
  BY DEF Labels, Searching
<1>5. PICK m \in Locals : /\ m = WithSearch(l, "load", l.head, q, l.hash, l.search, "cleanup")
                          /\ m.at = "load" /\ m.head = l.head /\ m.prev = q /\ m.hash = l.hash
                          /\ m.search = l.search /\ m.goal = "cleanup" /\ SameCall(l, m)
  <2>1. PICK g \in Goals \cup {"none"} : g = "cleanup"
    BY <1>2
  <2>2. PICK a \in Labels : a = "load"
    BY <1>4
  <2>3. PICK m \in Locals : /\ m = WithSearch(l, a, l.head, q, l.hash, l.search, g)
                            /\ m.at = a /\ m.head = l.head /\ m.prev = q /\ m.hash = l.hash
                            /\ m.search = l.search /\ m.goal = g /\ SameCall(l, m)
    BY <1>2, AtSearch
  <2>. QED BY <2>1, <2>2, <2>3
<1>6. m = Find(l, l.head, l.hash, l.search, "cleanup")
  BY Zenon, <1>3, <1>5 DEF Find, WithSearch
<1>7. /\ m.op = l.op /\ m.key = l.key /\ m.bucket = l.bucket /\ m.node = l.node /\ m.frames = l.frames
  BY <1>5 DEF SameCall
<1>8. m.at \in Searching /\ m.at \in Before /\ m.at \notin {"swap", "mark", "unlink", "install"}
  BY <1>5 DEF Searching, Before
<1>9. l.op = "remove"
  BY <1>1 DEF SearchOK
<1>10. OpOK(m)
  BY <1>1, <1>5, <1>7 DEF OpOK
<1>11. HandOK(s, m)
  BY <1>1, <1>7, <1>9 DEF HandOK
<1>12. SearchOK(t, s, m)
  BY <1>1, <1>5, <1>7, <1>8 DEF SearchOK, First, Goals
<1>13. FramesOK(t, s, m)
  <2>1. \A b \in Buckets : <<b, t>> \in s.list /\ s.bucket[b] = None => FALSE
    BY <1>1 DEF FramesOK
  <2>2. ~InFrames(m)
    BY <1>5 DEF InFrames
  <2>. QED BY <2>1, <2>2 DEF FramesOK
<1>14. CursorOK(s, m, p)
  <2>1. PrevOK(s, m, p)
    <3>1. m.prev[1] = "bucket" /\ m.prev[2] = m.head /\ "bucket" # "node"
      BY <1>3, <1>5
    <3>. QED BY <3>1 DEF PrevOK
  <2>. QED BY <1>5, <2>1 DEF CursorOK
<1>. QED BY <1>6, <1>7, <1>10, <1>11, <1>12, <1>13, <1>14 DEF ThreadOK, ControlOK
LEMMA MarkStep ==
  ASSUME NEW s, IsWorld(s), WorldOK(s), NEW s2, Typed(s2), NEW t \in Threads, NEW l \in Locals, NEW p \in Pins,
         ThreadOK(t, s, l, p), l.at = "mark", s.link[l.curr] = l.link,
         s2.link[l.curr] = [to |-> l.link.to, deleted |-> TRUE],
         \A m \in Nodes : m # l.curr => s2.link[m] = s.link[m],
         s2.hashnr = s.hashnr, s2.key = s.key, s2.bucket = s.bucket, s2.pool = s.pool, s2.freed = s.freed,
         s2.list = ListFrom(s2.link, s2.bucket[0])
  PROVE  /\ IsWorld(s2) /\ WorldOK(s2) /\ s2.list = s.list
         /\ \A u \in Threads, m \in Locals, q \in Pins : ThreadOK(u, s, m, q) => ThreadOK(u, s2, m, q)
         /\ LET m == OnlyAt(l, "unlink")
            IN  m \in Locals /\ ThreadOK(t, s2, m, p) /\ m.node = l.node
<1>1. /\ l.at \in Searching /\ ControlOK(t, s, l) /\ SearchOK(t, s, l) /\ PrevOK(s, l, p)
      /\ CurrOK(s, l, p) /\ MarkOK(s, l) /\ l.curr \in Nodes /\ l.curr # None
  <2>1. /\ l.at \in Searching /\ ControlOK(t, s, l) /\ SearchOK(t, s, l)
    BY DEF ThreadOK, ControlOK, Searching
  <2>2. PrevOK(s, l, p) /\ CurrOK(s, l, p) /\ MarkOK(s, l)
    BY <2>1 DEF ThreadOK, CursorOK
  <2>. QED BY <2>1, <2>2, LocalsFacts DEF CurrOK
<1>2. l.curr \in s.list /\ ~s.link[l.curr].deleted
  BY <1>1 DEF CurrOK, MarkOK, Held
<1>3. l.curr \notin Dummies /\ s.key[l.curr] = l.key
  <2>1. s.key[l.curr] = l.key /\ l.key \in Keys
    BY <1>1, <1>2, LocalsFacts DEF MarkOK
  <2>2. DummyKey \notin Keys
    BY SplitListConstants DEF DummyKey
  <2>. QED BY <2>1, <2>2 DEF WorldOK, KeysOK
<1>4. s2.link[l.curr].to = s.link[l.curr].to /\ s2.link[l.curr].deleted
  OBVIOUS
<1>5. Quiet(s, s2)
  <2>1. SameNext(s.list, s.link, s2.link, {})
    BY <1>4 DEF SameNext, IsWorld
  <2>2. \A m \in s.list : /\ s2.hashnr[m] = s.hashnr[m] /\ s2.key[m] = s.key[m]
                          /\ s.link[m].deleted => s2.link[m] = s.link[m]
                          /\ m \in Dummies => ~s2.link[m].deleted
    BY <1>2, <1>3 DEF IsWorld, WorldOK, KeysOK
  <2>3. \A d \in Dummies : s2.key[d] = DummyKey
    BY DEF WorldOK, KeysOK
  <2>. QED BY <2>1, <2>2, <2>3 DEF Quiet, WorldOK, PlacesOK
<1>6. \A n \in s.freed : s2.link[n] = s.link[n]
  <2>1. s.freed \subseteq Nodes /\ l.curr \notin s.freed
    BY <1>2 DEF WorldOK, PlacesOK, IsWorld, Typed, Nodes
  <2>. QED BY <2>1
<1>7. \A u \in Threads, m \in Locals, q \in Pins : ThreadOK(u, s, m, q) =>
          IsWorld(s2) /\ WorldOK(s2) /\ s2.list = s.list /\ ThreadOK(u, s2, m, q)
  <2>1. SUFFICES ASSUME NEW u \in Threads, NEW m \in Locals, NEW q \in Pins, ThreadOK(u, s, m, q)
                 PROVE  IsWorld(s2) /\ WorldOK(s2) /\ s2.list = s.list /\ ThreadOK(u, s2, m, q)
    OBVIOUS
  <2>2. m.node # None => m.node \notin s2.pool \cup s2.freed
    BY <2>1 DEF ThreadOK, ControlOK, HandOK
  <2>. QED BY <1>5, <1>6, <2>1, <2>2, QuietOthers
<1>8. IsWorld(s2) /\ WorldOK(s2) /\ s2.list = s.list /\ ThreadOK(t, s2, l, p)
  BY <1>7
<1>9. PICK m \in Locals : /\ m = OnlyAt(l, "unlink") /\ m.at = "unlink"
                          /\ SameCall(l, m) /\ SameSearch(l, m) /\ SamePlace(l, m)
  <2>1. "unlink" \in Labels
    BY DEF Labels, Searching
  <2>. QED BY <2>1, SetAt
<1>10. l.goal = "remove"
  BY <1>1 DEF SearchOK
<1>11. ControlOK(t, s2, m)
  BY <1>1, <1>8, <1>9, <1>10, SearchGoesOn DEF ThreadOK, Allowed
<1>12. m.curr = l.curr /\ m.link = l.link /\ m.node = l.node /\ m.prev = l.prev
  BY <1>9, FieldsSame DEF SamePlace
<1>13. CursorOK(s2, m, p)
  <2>1. PrevOK(s2, l, p) /\ CurrOK(s2, l, p)
    BY <1>1, <1>8 DEF ThreadOK, CursorOK
  <2>2. PrevOK(s2, m, p)
    BY <1>9, <1>12, <2>1, PrevSame
  <2>3. CurrOK(s2, m, p)
    BY <1>12, <2>1 DEF CurrOK
  <2>4. UnlinkOK(s2, m)
    BY <1>12 DEF UnlinkOK
  <2>. QED BY <1>9, <2>2, <2>3, <2>4 DEF CursorOK
<1>. QED BY <1>7, <1>8, <1>9, <1>11, <1>12, <1>13 DEF ThreadOK

\* The bucket of the key, for some size of the table.
LEMMA SlotStep ==
  ASSUME NEW t, NEW s, NEW l \in Locals, NEW p, ThreadOK(t, s, l, p), l.at = "hash",
         NEW b \in Buckets, ReverseBits(b) < SplitHash(l.key)
  PROVE  LET m == WithBucket(l, "slot", b)
         IN  m \in Locals /\ ThreadOK(t, s, m, p) /\ m.node = l.node
<1>1. "slot" \in Labels
  BY DEF Labels, Searching
<1>2. PICK m \in Locals : /\ m = WithBucket(l, "slot", b) /\ m.at = "slot" /\ m.bucket = b /\ m.op = l.op
                          /\ m.key = l.key /\ m.node = l.node /\ m.frames = l.frames
  BY <1>1, AtBucket
<1>3. OpOK(l) /\ HandOK(s, l) /\ FramesOK(t, s, l)
  BY DEF ThreadOK, ControlOK
<1>4. m.at \in Before /\ m.at \notin Searching /\ m.at \notin {"parent", "install", "found", "using"} /\ l.at \in Before
  BY <1>2 DEF Before, Searching
<1>5. OpOK(m)
  BY <1>2, <1>3 DEF OpOK
<1>6. HandOK(s, m)
  BY <1>2, <1>3, <1>4 DEF HandOK
<1>7. SearchOK(t, s, m)
  BY <1>4 DEF SearchOK
<1>8. FramesOK(t, s, m)
  BY <1>3, <1>4 DEF FramesOK, InFrames
<1>9. CursorOK(s, m, p)
  BY <1>2, <1>4 DEF CursorOK, Searching
<1>. QED BY <1>2, <1>5, <1>6, <1>7, <1>8, <1>9 DEF ThreadOK, ControlOK
-------------------------------------------------------------------------------
(* Before lfind: the bucket, its parents, their dummy nodes.                *)

\* Only node x, which is not in the list, gets another hash number; a bucket that
\* has none may get its dummy node.
Renumbered(s, s2, x) ==
    /\ \A m \in Nodes : m # x => s2.hashnr[m] = s.hashnr[m]
    /\ s2.link = s.link /\ s2.key = s.key /\ s2.pool = s.pool /\ s2.freed = s.freed
    /\ \A b \in Buckets : \/ s2.bucket[b] = s.bucket[b]
                          \/ /\ s.bucket[b] = None
                             /\ s2.bucket[b] \in s.list \cap Dummies /\ s2.bucket[b][1] = b
    /\ s2.list = ListFrom(s2.link, s2.bucket[0])

LEMMA RenumberStep ==
  ASSUME NEW s, IsWorld(s), WorldOK(s), NEW s2, Typed(s2), NEW x, x \notin s.list, Renumbered(s, s2, x)
  PROVE  /\ IsWorld(s2) /\ WorldOK(s2) /\ s2.list = s.list
         /\ \A u \in Threads, m \in Locals, q \in Pins :
                ThreadOK(u, s, m, q) /\ (\A b \in Buckets : <<b, u>> # x) /\ (m.node # None => m.node # x) =>
                    ThreadOK(u, s2, m, q)
<1>1. Quiet(s, s2)
  <2>1. SameNext(s.list, s.link, s2.link, {})
    BY DEF SameNext, Renumbered
  <2>2. \A m \in s.list : /\ s2.hashnr[m] = s.hashnr[m] /\ s2.key[m] = s.key[m]
                          /\ s.link[m].deleted => s2.link[m] = s.link[m]
                          /\ m \in Dummies => ~s2.link[m].deleted
    BY DEF IsWorld, WorldOK, KeysOK, Renumbered
  <2>3. \A d \in Dummies : s2.key[d] = DummyKey
    BY DEF WorldOK, KeysOK, Renumbered
  <2>4. s2.pool \cap s2.freed = {} /\ s2.pool \cap s.list = {} /\ s2.freed \cap s.list = {}
    BY DEF WorldOK, PlacesOK, Renumbered
  <2>5. \A b \in Buckets : \/ s2.bucket[b] = s.bucket[b]
                           \/ /\ s.bucket[b] = None
                              /\ s2.bucket[b] \in s.list \cap Dummies /\ s2.bucket[b][1] = b
    BY DEF Renumbered
  <2>. QED BY <2>1, <2>2, <2>3, <2>4, <2>5 DEF Quiet
<1>2. s2.list = ListFrom(s2.link, s2.bucket[0])
  BY DEF Renumbered
<1>3. IsWorld(s2) /\ WorldOK(s2) /\ s2.list = s.list
  BY <1>1, <1>2, QuietStep
<1>4. ASSUME NEW u \in Threads, NEW m \in Locals, NEW q \in Pins, ThreadOK(u, s, m, q),
             \A b \in Buckets : <<b, u>> # x, m.node # None => m.node # x
      PROVE  ThreadOK(u, s2, m, q)
  <2>1. s.freed \subseteq s2.freed /\ \A n \in s.freed : s2.link[n] = s.link[n]
    BY DEF Renumbered
  <2>2. \A b \in Buckets : s2.hashnr[<<b, u>>] = s.hashnr[<<b, u>>]
    <3>1. \A b \in Buckets : <<b, u>> \in Nodes
      BY DEF Nodes, Dummies
    <3>. QED BY <1>4, <3>1 DEF Renumbered
  <2>3. m.node # None => /\ s2.hashnr[m.node] = s.hashnr[m.node] /\ s2.key[m.node] = s.key[m.node]
                         /\ m.node \notin s2.pool \cup s2.freed
    <3>1. m.node # None => m.node \notin s.pool \cup s.freed
      BY <1>4 DEF ThreadOK, ControlOK, HandOK
    <3>2. m.node # None => m.node \in Nodes
      BY LocalsFacts
    <3>. QED BY <1>4, <3>1, <3>2 DEF Renumbered
  <2>. QED BY <1>1, <1>2, <1>4, <2>1, <2>2, <2>3, QuietOthers
<1>. QED BY <1>3, <1>4

\* lsearch looks for the key itself, or for what its length is cut to.
LEMMA SoughtIs ==
  ASSUME NEW o, NEW k \in Keys
  PROVE  Sought(o, k) \in Keys \cup {DummyKey}
BY SplitListConstants DEF Sought

\* The search of the call begins at a bucket that has its dummy node.
LEMMA StartStep ==
  ASSUME NEW s, NEW t \in Threads, NEW l \in Locals, NEW p, OpOK(l), l.at \in {"slot", "install"},
         HandOK(s, l), s.bucket[l.bucket] # None, l.node # None => s.hashnr[l.node] = SplitHash(l.key),
         \A b \in Buckets : ~(<<b, t>> \in s.list /\ s.bucket[b] = None)
  PROVE  LET m == Start(l, SplitHash(l.key))
         IN  m \in Locals /\ ThreadOK(t, s, m, p) /\ m.node = l.node
<1>1. l.op \in Ops /\ ReverseBits(l.bucket) < SplitHash(l.key) /\ l.bucket \in Buckets /\ l.key \in Keys
  BY LocalsFacts DEF OpOK
<1>2. l.at \in Before
  BY DEF Before
<1>3. (l.node # None => l.op = "insert") /\ (l.op = "insert" => l.node # None)
  BY <1>2 DEF HandOK
<1>4. CASE l.op = "match"
  <2>1. PICK m \in Locals : /\ m = WithHead(l, "spin", l.bucket) /\ m.at = "spin" /\ SameCall(l, m)
    <3>1. "spin" \in Labels
      BY DEF Labels
    <3>. QED BY <1>1, <3>1, AtHead
  <2>2. m = Start(l, SplitHash(l.key))
    BY Zenon, <1>4, <2>1 DEF Start, WithHead
  <2>3. m.op = "match" /\ m.key = l.key /\ m.bucket = l.bucket /\ m.node = None /\ l.node = None
    BY <1>3, <1>4, <2>1 DEF SameCall
  <2>4. m.at \notin Searching \cup Before \cup {"found", "using"}
    BY <2>1 DEF Searching, Before
  <2>5. OpOK(m)
    BY <1>1, <1>4, <2>1, <2>3 DEF OpOK
  <2>6. HandOK(s, m) /\ SearchOK(t, s, m)
    BY <2>3, <2>4 DEF HandOK, SearchOK
  <2>7. FramesOK(t, s, m)
    BY <2>4 DEF FramesOK, InFrames, Before
  <2>8. CursorOK(s, m, p)
    BY <2>4 DEF CursorOK, Searching, Before
  <2>. QED BY <2>2, <2>3, <2>5, <2>6, <2>7, <2>8 DEF ThreadOK, ControlOK
<1>5. CASE l.op # "match"
  <2>1. l.op \in {"insert", "get", "remove"} /\ l.op \in Goals \cup {"none"}
    BY <1>1, <1>5 DEF Ops, Goals
  <2>2. PICK h \in Nat : h = SplitHash(l.key)
    BY <1>1, KeyHash
  <2>3. PICK q \in Places : q = <<"bucket", l.bucket>>
    BY <1>1 DEF Places
  <2>4. PICK m \in Locals : /\ m = WithSearch(l, "load", l.bucket, q, h, Sought(l.op, l.key), l.op)
                            /\ m.at = "load" /\ m.head = l.bucket /\ m.prev = q /\ m.hash = h
                            /\ m.search = Sought(l.op, l.key) /\ m.goal = l.op /\ SameCall(l, m)
    <3>1. PICK a \in Labels : a = "load"
      BY DEF Labels, Searching
    <3>2. PICK e \in Keys \cup {DummyKey} : e = Sought(l.op, l.key)
      BY <1>1, SoughtIs
    <3>3. PICK m \in Locals : /\ m = WithSearch(l, a, l.bucket, q, h, e, l.op)
                              /\ m.at = a /\ m.head = l.bucket /\ m.prev = q /\ m.hash = h
                              /\ m.search = e /\ m.goal = l.op /\ SameCall(l, m)
      BY <1>1, <2>1, AtSearch
    <3>. QED BY <3>1, <3>2, <3>3
  <2>5. m = Start(l, SplitHash(l.key))
    BY Zenon, <1>5, <2>2, <2>3, <2>4 DEF Start, Find, WithSearch
  <2>6. /\ m.op = l.op /\ m.key = l.key /\ m.bucket = l.bucket /\ m.node = l.node /\ m.frames = l.frames
    BY <2>4 DEF SameCall
  <2>7. m.at \in Searching /\ m.at \in Before /\ m.at \notin {"swap", "mark", "unlink", "install", "parent"}
    BY <2>4 DEF Searching, Before
  <2>8. OpOK(m)
    BY <1>1, <2>4, <2>6 DEF OpOK
  <2>9. HandOK(s, m)
    BY <1>2, <2>6, <2>7 DEF HandOK
  <2>10. m.goal # "dummy" /\ m.goal # "cleanup" /\ m.goal \in Goals /\ ~First(m) /\ NodeOf(t, m) = l.node
    BY <2>1, <2>4, <2>6 DEF Goals, First, NodeOf
  <2>11. SearchOK(t, s, m)
    BY <1>1, <1>3, <2>2, <2>4, <2>6, <2>7, <2>10 DEF SearchOK
  <2>12. FramesOK(t, s, m)
    BY <2>4, <2>10 DEF FramesOK, InFrames
  <2>13. CursorOK(s, m, p)
    <3>1. PrevOK(s, m, p)
      <4>1. m.prev[1] = "bucket" /\ m.prev[2] = m.head /\ "bucket" # "node"
        BY <2>3, <2>4
      <4>. QED BY <4>1 DEF PrevOK
    <3>. QED BY <2>4, <3>1 DEF CursorOK
  <2>. QED BY <2>5, <2>6, <2>8, <2>9, <2>11, <2>12, <2>13 DEF ThreadOK, ControlOK
<1>. QED BY <1>4, <1>5
\* The activations of initialize_bucket: one more, one less.
LEMMA PushIs ==
  ASSUME NEW f \in Seq(Buckets), NEW p \in Buckets
  PROVE  /\ <<p>> \o f \in Seq(Buckets) /\ Len(<<p>> \o f) = Len(f) + 1 /\ <<p>> \o f # <<>>
         /\ (<<p>> \o f)[1] = p /\ Head(<<p>> \o f) = p
         /\ \A i \in 2 .. Len(f) + 1 : (<<p>> \o f)[i] = f[i - 1]
OBVIOUS

LEMMA ParentsPush ==
  ASSUME NEW f \in Seq(Buckets), f # <<>>, Parents(f), NEW p \in Buckets, p = ClearHighestBit(Head(f)), p < Head(f),
         NEW g, g = <<p>> \o f
  PROVE  Parents(g)
<1>1. /\ Head(f) = f[1] /\ Len(f) \in Nat /\ Len(f) >= 1 /\ \A i \in 1 .. Len(f) : f[i] \in Buckets
  BY FramesFacts
<1>2. Len(g) = Len(f) + 1 /\ g[1] = p /\ \A i \in 2 .. Len(f) + 1 : g[i] = f[i - 1]
  BY PushIs
<1>3. \A b \in Buckets : b \in Nat
  BY BucketBounds
<1>4. \A i \in 1 .. Len(g) - 1 : g[i] < g[i + 1] /\ g[i] = ClearHighestBit(g[i + 1])
  <2>1. SUFFICES ASSUME NEW i \in 1 .. Len(f)
                 PROVE  g[i] < g[i + 1] /\ g[i] = ClearHighestBit(g[i + 1])
    BY <1>1, <1>2
  <2>2. g[i + 1] = f[i]
    BY <1>1, <1>2
  <2>3. CASE i = 1
    BY <1>1, <1>2, <2>2, <2>3
  <2>4. CASE i # 1
    <3>1. g[i] = f[i - 1] /\ i - 1 \in 1 .. Len(f) - 1 /\ (i - 1) + 1 = i
      BY <1>1, <1>2, <2>4
    <3>2. f[i - 1] < f[(i - 1) + 1] /\ f[i - 1] = ClearHighestBit(f[(i - 1) + 1])
      BY <3>1 DEF Parents
    <3>. QED BY <2>2, <3>1, <3>2
  <2>. QED BY <2>3, <2>4
<1>5. \A i, j \in 1 .. Len(g) : i < j => g[i] < g[j]
  <2>1. SUFFICES ASSUME NEW i \in 1 .. Len(f) + 1, NEW j \in 1 .. Len(f) + 1, i < j
                 PROVE  g[i] < g[j]
    BY <1>2
  <2>2. g[j] = f[j - 1] /\ j - 1 \in 1 .. Len(f)
    BY <1>1, <1>2, <2>1
  <2>3. CASE i = 1
    <3>1. f[1] <= f[j - 1]
      <4>1. CASE j - 1 = 1
        BY <1>1, <1>3, <4>1
      <4>2. CASE j - 1 # 1
        <5>1. 1 < j - 1 /\ 1 \in 1 .. Len(f)
          BY <1>1, <2>2, <4>2
        <5>2. f[1] < f[j - 1]
          BY <2>2, <5>1 DEF Parents
        <5>. QED BY <1>1, <1>3, <2>2, <5>1, <5>2
      <4>. QED BY <4>1, <4>2
    <3>. QED BY <1>1, <1>2, <1>3, <2>2, <2>3, <3>1
  <2>4. CASE i # 1
    <3>1. g[i] = f[i - 1] /\ i - 1 \in 1 .. Len(f) /\ i - 1 < j - 1
      BY <1>1, <1>2, <2>1, <2>4
    <3>. QED BY <2>2, <3>1 DEF Parents
  <2>. QED BY <2>3, <2>4
<1>. QED BY <1>4, <1>5 DEF Parents

LEMMA ParentsPop ==
  ASSUME NEW f \in Seq(Buckets), f # <<>>, Parents(f), NEW g, g = Tail(f)
  PROVE  Parents(g) /\ (g # <<>> => Head(f) = ClearHighestBit(Head(g)))
<1>1. /\ Head(f) = f[1] /\ Len(f) \in Nat /\ Len(f) >= 1 /\ g \in Seq(Buckets) /\ Len(g) = Len(f) - 1
      /\ \A i \in 1 .. Len(g) : g[i] = f[i + 1]
  BY FramesFacts
<1>2. \A i \in 1 .. Len(g) - 1 : g[i] < g[i + 1] /\ g[i] = ClearHighestBit(g[i + 1])
  <2>1. SUFFICES ASSUME NEW i \in 1 .. Len(g) - 1
                 PROVE  g[i] < g[i + 1] /\ g[i] = ClearHighestBit(g[i + 1])
    OBVIOUS
  <2>2. g[i] = f[i + 1] /\ g[i + 1] = f[(i + 1) + 1] /\ i + 1 \in 1 .. Len(f) - 1
    BY <1>1
  <2>. QED BY <2>2 DEF Parents
<1>3. \A i, j \in 1 .. Len(g) : i < j => g[i] < g[j]
  <2>1. SUFFICES ASSUME NEW i \in 1 .. Len(g), NEW j \in 1 .. Len(g), i < j
                 PROVE  g[i] < g[j]
    OBVIOUS
  <2>2. g[i] = f[i + 1] /\ g[j] = f[j + 1] /\ i + 1 \in 1 .. Len(f) /\ j + 1 \in 1 .. Len(f) /\ i + 1 < j + 1
    BY <1>1, <2>1
  <2>. QED BY <2>2 DEF Parents
<1>4. ASSUME g # <<>>
      PROVE  Head(f) = ClearHighestBit(Head(g))
  <2>1. Head(g) = g[1] /\ 1 \in 1 .. Len(g)
    BY <1>1, <1>4, FramesFacts
  <2>2. g[1] = f[1 + 1] /\ 1 \in 1 .. Len(f) - 1
    BY <1>1, <2>1
  <2>3. f[1] = ClearHighestBit(f[1 + 1])
    BY <2>2 DEF Parents
  <2>. QED BY <1>1, <2>1, <2>2, <2>3
<1>. QED BY <1>2, <1>3, <1>4 DEF Parents

\* Activations whose dummy nodes are not in the list.
FramesLeft(t, s, l) ==
    /\ l.frames # <<>> /\ Parents(l.frames) /\ l.frames[Len(l.frames)] = l.bucket
    /\ \A i \in 1 .. Len(l.frames) : <<l.frames[i], t>> \notin s.list
    /\ \A b \in Buckets : ~(<<b, t>> \in s.list /\ s.bucket[b] = None)

LEMMA ParentStep ==
  ASSUME NEW s, NEW t \in Threads, NEW l \in Locals, NEW p, OpOK(l), HandOK(s, l), l.at \in {"slot", "parent"},
         NEW m \in Locals, m.at = "parent", m.op = l.op, m.key = l.key, m.bucket = l.bucket, m.node = l.node,
         FramesLeft(t, s, m)
  PROVE  ThreadOK(t, s, m, p)
<1>1. l.at \in Before /\ m.at \in Before /\ m.at \notin Searching /\ m.at \notin {"found", "using", "install"}
  BY DEF Before, Searching
<1>2. OpOK(m)
  BY DEF OpOK
<1>3. HandOK(s, m)
  BY <1>1 DEF HandOK
<1>4. SearchOK(t, s, m)
  BY <1>1 DEF SearchOK
<1>5. FramesOK(t, s, m)
  BY DEF FramesOK, FramesLeft
<1>6. CursorOK(s, m, p)
  BY <1>1 DEF CursorOK
<1>. QED BY <1>2, <1>3, <1>4, <1>5, <1>6 DEF ThreadOK, ControlOK

LEMMA DummyStep ==
  ASSUME NEW s, NEW t \in Threads, NEW l \in Locals, NEW p, OpOK(l), HandOK(s, l), l.at \in {"parent", "install"},
         FramesLeft(t, s, l), NEW b, b = Head(l.frames), b = 0 \/ s.bucket[ClearHighestBit(b)] # None,
         s.hashnr[<<b, t>>] = ReverseBits(b)
  PROVE  LET m == Find(l, ClearHighestBit(b), ReverseBits(b), DummyKey, "dummy")
         IN  m \in Locals /\ ThreadOK(t, s, m, p) /\ m.node = l.node
<1>1. l.frames \in Seq(Buckets) /\ l.frames # <<>>
  BY LocalsFacts DEF FramesLeft
<1>2. b \in Buckets
  BY <1>1, FramesFacts
<1>3. PICK d \in Buckets : d = ClearHighestBit(b)
  BY <1>2, ParentIs
<1>4. PICK h \in Nat : h = ReverseBits(b)
  BY <1>2, BucketReversed
<1>5. PICK q \in Places : q = <<"bucket", d>>
  BY <1>3 DEF Places
<1>6. PICK m \in Locals : /\ m = WithSearch(l, "load", d, q, h, DummyKey, "dummy")
                          /\ m.at = "load" /\ m.head = d /\ m.prev = q /\ m.hash = h
                          /\ m.search = DummyKey /\ m.goal = "dummy" /\ SameCall(l, m)
  <2>1. PICK a \in Labels : a = "load"
    BY DEF Labels, Searching
  <2>2. PICK e \in Keys \cup {DummyKey} : e = DummyKey
    OBVIOUS
  <2>3. PICK g \in Goals \cup {"none"} : g = "dummy"
    BY DEF Goals
  <2>4. PICK m \in Locals : /\ m = WithSearch(l, a, d, q, h, e, g)
                            /\ m.at = a /\ m.head = d /\ m.prev = q /\ m.hash = h
                            /\ m.search = e /\ m.goal = g /\ SameCall(l, m)
    BY AtSearch
  <2>. QED BY <2>1, <2>2, <2>3, <2>4
<1>7. m = Find(l, ClearHighestBit(b), ReverseBits(b), DummyKey, "dummy")
  BY Zenon, <1>3, <1>4, <1>5, <1>6 DEF Find, WithSearch
<1>8. /\ m.op = l.op /\ m.key = l.key /\ m.bucket = l.bucket /\ m.node = l.node /\ m.frames = l.frames
  BY <1>6 DEF SameCall
<1>9. m.at \in Searching /\ m.at \in Before /\ m.at \notin {"swap", "mark", "unlink", "install"} /\ l.at \in Before
  BY <1>6 DEF Searching, Before
<1>10. OpOK(m)
  BY <1>6, <1>8 DEF OpOK
<1>11. HandOK(s, m)
  BY <1>8, <1>9 DEF HandOK
<1>12. SearchOK(t, s, m)
  <2>1. First(m) <=> b = 0
    BY <1>6, <1>8 DEF First
  <2>2. b = 0 => d = 0
    BY <1>3, ParentIs
  <2>3. b # 0 => s.bucket[d] # None /\ ReverseBits(d) < h
    BY <1>2, <1>3, <1>4, ParentIs
  <2>4. NodeOf(t, m) = <<b, t>>
    BY <1>6, <1>8 DEF NodeOf
  <2>. QED BY <1>1, <1>4, <1>6, <1>8, <1>9, <2>1, <2>2, <2>3, <2>4 DEF SearchOK, Goals
<1>13. FramesOK(t, s, m)
  BY <1>8 DEF FramesOK, FramesLeft
<1>14. CursorOK(s, m, p)
  <2>1. PrevOK(s, m, p)
    <3>1. m.prev[1] = "bucket" /\ m.prev[2] = m.head /\ "bucket" # "node"
      BY <1>5, <1>6
    <3>. QED BY <3>1 DEF PrevOK
  <2>. QED BY <1>6, <2>1 DEF CursorOK
<1>. QED BY <1>7, <1>8, <1>10, <1>11, <1>12, <1>13, <1>14 DEF ThreadOK, ControlOK
LEMMA FramesLeftAt ==
  ASSUME NEW t, NEW s, NEW l \in Locals, NEW p, ThreadOK(t, s, l, p), l.at = "parent"
  PROVE  FramesLeft(t, s, l)
BY DEF ThreadOK, ControlOK, FramesOK, FramesLeft, InFrames

LEMMA RenumberOwn ==
  ASSUME NEW s, NEW s2, NEW x, Renumbered(s, s2, x), s2.list = s.list, NEW l, HandOK(s, l), NEW t
  PROVE  /\ HandOK(s2, l)
         /\ (\A b \in Buckets : ~(<<b, t>> \in s.list /\ s.bucket[b] = None)) =>
                \A b \in Buckets : ~(<<b, t>> \in s2.list /\ s2.bucket[b] = None)
<1>1. s2.key = s.key /\ s2.pool = s.pool /\ s2.freed = s.freed
  BY DEF Renumbered
<1>2. HandOK(s2, l)
  BY <1>1 DEF HandOK
<1>3. \A b \in Buckets : s2.bucket[b] = None => s.bucket[b] = None
  BY DEF Renumbered
<1>. QED BY <1>2, <1>3

\* ReadSlot.
LEMMA NoSlotStep ==
  ASSUME NEW s, NEW t \in Threads, NEW l \in Locals, NEW p, ThreadOK(t, s, l, p), l.at = "slot",
         s.bucket[l.bucket] = None
  PROVE  LET m == WithFrames(l, "parent", <<l.bucket>>)
         IN  m \in Locals /\ ThreadOK(t, s, m, p) /\ m.node = l.node
<1>1. l.bucket \in Buckets
  BY LocalsFacts
<1>2. PICK f \in Seq(Buckets) : f = <<l.bucket>>
  <2>1. <<l.bucket>> \in Seq(Buckets)
    BY <1>1
  <2>. QED BY <2>1
<1>3. "parent" \in Labels
  BY DEF Labels
<1>4. PICK m \in Locals : /\ m = WithFrames(l, "parent", f) /\ m.at = "parent" /\ m.frames = f
                          /\ m.op = l.op /\ m.key = l.key /\ m.bucket = l.bucket /\ m.node = l.node
  BY <1>3, AtFrames
<1>5. \A b \in Buckets : ~(<<b, t>> \in s.list /\ s.bucket[b] = None)
  BY DEF ThreadOK, ControlOK, FramesOK
<1>6. f # <<>> /\ Len(f) = 1 /\ f[1] = l.bucket
  BY <1>2
<1>7. Parents(f)
  BY <1>6 DEF Parents
<1>8. FramesLeft(t, s, m)
  BY <1>1, <1>4, <1>5, <1>6, <1>7 DEF FramesLeft
<1>9. OpOK(l) /\ HandOK(s, l)
  BY DEF ThreadOK, ControlOK
<1>10. ThreadOK(t, s, m, p)
  BY <1>4, <1>8, <1>9, ParentStep
<1>. QED BY <1>2, <1>4, <1>10

LEMMA SlotFoundStep ==
  ASSUME NEW s, IsWorld(s), WorldOK(s), NEW s2, Typed(s2), NEW t \in Threads, NEW l \in Locals, NEW p,
         ThreadOK(t, s, l, p), l.at = "slot", s.bucket[l.bucket] # None, Renumbered(s, s2, l.node),
         s2.bucket = s.bucket, l.node # None => s2.hashnr[l.node] = SplitHash(l.key)
  PROVE  LET m == Start(l, SplitHash(l.key))
         IN  m \in Locals /\ ThreadOK(t, s2, m, p) /\ m.node = l.node
<1>1. OpOK(l) /\ HandOK(s, l) /\ \A b \in Buckets : ~(<<b, t>> \in s.list /\ s.bucket[b] = None)
  BY DEF ThreadOK, ControlOK, FramesOK
<1>2. l.node \notin s.list
  BY <1>1, SplitListConstants DEF HandOK, IsWorld
<1>3. s2.list = s.list
  BY <1>2, RenumberStep
<1>4. HandOK(s2, l) /\ \A b \in Buckets : ~(<<b, t>> \in s2.list /\ s2.bucket[b] = None)
  BY <1>1, <1>3, RenumberOwn
<1>. QED BY <1>1, <1>4, StartStep

\* ReadParent.
LEMMA PushStep ==
  ASSUME NEW s, NEW t \in Threads, NEW l \in Locals, NEW p, ThreadOK(t, s, l, p), l.at = "parent",
         NEW b, b = Head(l.frames), b # 0, s.bucket[ClearHighestBit(b)] = None
  PROVE  LET m == OnlyFrames(l, <<ClearHighestBit(b)>> \o l.frames)
         IN  m \in Locals /\ ThreadOK(t, s, m, p) /\ m.node = l.node
<1>1. /\ l.frames # <<>> /\ Parents(l.frames) /\ (\A i \in 1 .. Len(l.frames) : <<l.frames[i], t>> \notin s.list)
      /\ \A d \in Buckets : ~(<<d, t>> \in s.list /\ s.bucket[d] = None)
      /\ l.frames[Len(l.frames)] = l.bucket
  BY FramesLeftAt DEF FramesLeft
<1>2. l.frames \in Seq(Buckets) /\ b \in Buckets
  BY <1>1, FramesFacts, LocalsFacts
<1>3. PICK d \in Buckets : d = ClearHighestBit(b) /\ d < b
  BY <1>2, ParentIs
<1>4. PICK f \in Seq(Buckets) : f = <<d>> \o l.frames
  BY <1>2, PushIs
<1>5. /\ Len(f) = Len(l.frames) + 1 /\ f # <<>> /\ f[1] = d
      /\ \A i \in 2 .. Len(l.frames) + 1 : f[i] = l.frames[i - 1]
  BY <1>2, <1>4, PushIs
<1>6. PICK m \in Locals : /\ m = OnlyFrames(l, f) /\ m.frames = f /\ m.at = l.at
                          /\ m.op = l.op /\ m.key = l.key /\ m.bucket = l.bucket /\ m.node = l.node
  BY SetFrames
<1>7. Parents(f)
  BY <1>1, <1>2, <1>3, <1>4, ParentsPush
<1>8. \A i \in 1 .. Len(f) : <<f[i], t>> \notin s.list
  <2>1. SUFFICES ASSUME NEW i \in 1 .. Len(l.frames) + 1
                 PROVE  <<f[i], t>> \notin s.list
    BY <1>5
  <2>2. CASE i = 1
    BY <1>1, <1>3, <1>5, <2>2
  <2>3. CASE i # 1
    <3>1. Len(l.frames) \in Nat
      BY <1>2
    <3>2. f[i] = l.frames[i - 1] /\ i - 1 \in 1 .. Len(l.frames)
      BY <1>5, <2>3, <3>1
    <3>. QED BY <1>1, <3>2
  <2>. QED BY <2>2, <2>3
<1>9. FramesLeft(t, s, m)
  <2>1. f[Len(f)] = l.bucket
    <3>1. Len(l.frames) \in Nat /\ Len(l.frames) >= 1
      BY <1>1, <1>2, FramesFacts
    <3>2. f[Len(f)] = l.frames[Len(f) - 1] /\ Len(f) - 1 = Len(l.frames)
      BY <1>5, <3>1
    <3>. QED BY Zenon, <1>1, <3>2
  <2>. QED BY <1>1, <1>5, <1>6, <1>7, <1>8, <2>1 DEF FramesLeft
<1>10. OpOK(l) /\ HandOK(s, l)
  BY DEF ThreadOK, ControlOK
<1>11. ThreadOK(t, s, m, p)
  BY <1>6, <1>9, <1>10, ParentStep
<1>. QED BY <1>3, <1>4, <1>6, <1>11

LEMMA InsertDummyStep ==
  ASSUME NEW s, IsWorld(s), WorldOK(s), NEW s2, Typed(s2), NEW t \in Threads, NEW l \in Locals, NEW p,
         ThreadOK(t, s, l, p), l.at = "parent", NEW b, b = Head(l.frames),
         b = 0 \/ s.bucket[ClearHighestBit(b)] # None, Renumbered(s, s2, <<b, t>>), s2.bucket = s.bucket,
         s2.hashnr[<<b, t>>] = ReverseBits(b)
  PROVE  LET m == Find(l, ClearHighestBit(b), ReverseBits(b), DummyKey, "dummy")
         IN  m \in Locals /\ ThreadOK(t, s2, m, p) /\ m.node = l.node
<1>1. FramesLeft(t, s, l) /\ l.frames \in Seq(Buckets)
  BY FramesLeftAt, LocalsFacts
<1>2. <<b, t>> \notin s.list
  BY <1>1, FramesFacts DEF FramesLeft
<1>3. s2.list = s.list
  BY <1>2, RenumberStep
<1>4. OpOK(l) /\ HandOK(s2, l)
  BY <1>3, RenumberOwn DEF ThreadOK, ControlOK
<1>5. FramesLeft(t, s2, l)
  BY <1>1, <1>3 DEF FramesLeft
<1>. QED BY <1>4, <1>5, DummyStep

\* The thread goes on with the dummy node of bucket b.
GoesOnWith(t, s, l, p, b) ==
    LET m == Find(l, ClearHighestBit(b), ReverseBits(b), DummyKey, "dummy")
    IN  m \in Locals /\ ThreadOK(t, s, m, p) /\ m.node = l.node

LEMMA PopStep ==
  ASSUME NEW s, NEW t \in Threads, NEW l \in Locals, NEW p, OpOK(l), HandOK(s, l), l.at \in {"parent", "install"},
         FramesLeft(t, s, l), NEW b, b = Head(l.frames), s.bucket[ClearHighestBit(b)] # None,
         s.hashnr[<<b, t>>] = ReverseBits(b)
  PROVE  GoesOnWith(t, s, l, p, b)
BY DummyStep DEF GoesOnWith

\* Install: what is left to do when the bucket b has its dummy node; x is the node
\* that gets its hash number next.
InstallNow(s, s2, t, l, b, rest, x) ==
    /\ b = Head(l.frames) /\ rest = Tail(l.frames) /\ Renumbered(s, s2, x) /\ s2.bucket[b] # None
    /\ rest # <<>> => x = <<Head(rest), t>> /\ s2.hashnr[x] = ReverseBits(Head(rest))
    /\ rest = <<>> => x = l.node /\ (x # None => s2.hashnr[x] = SplitHash(l.key))
MoreFrames(t, s2, l, p2, rest) ==
    rest # <<>> =>
        LET m == Find(OnlyFrames(l, rest), ClearHighestBit(Head(rest)), ReverseBits(Head(rest)), DummyKey, "dummy")
        IN  m \in Locals /\ ThreadOK(t, s2, m, p2) /\ m.node = l.node
LastFrame(t, s2, l, p2, rest) ==
    rest = <<>> =>
        LET m == Start(OnlyFrames(l, <<>>), SplitHash(l.key))
        IN  m \in Locals /\ ThreadOK(t, s2, m, p2) /\ m.node = l.node

LEMMA InstallStep ==
  ASSUME NEW s, IsWorld(s), WorldOK(s), NEW s2, Typed(s2), NEW t \in Threads, NEW l \in Locals, NEW p, NEW p2,
         ThreadOK(t, s, l, p), l.at = "install", NEW b, NEW rest, NEW x, InstallNow(s, s2, t, l, b, rest, x)
  PROVE  x \notin s.list /\ MoreFrames(t, s2, l, p2, rest) /\ LastFrame(t, s2, l, p2, rest)
<1>. b = Head(l.frames) /\ rest = Tail(l.frames) /\ Renumbered(s, s2, x) /\ s2.bucket[b] # None
  BY DEF InstallNow
<1>. /\ rest # <<>> => x = <<Head(rest), t>> /\ s2.hashnr[x] = ReverseBits(Head(rest))
     /\ rest = <<>> => x = l.node /\ (x # None => s2.hashnr[x] = SplitHash(l.key))
  BY DEF InstallNow
<1>1. /\ OpOK(l) /\ HandOK(s, l) /\ l.frames # <<>> /\ Parents(l.frames) /\ l.frames \in Seq(Buckets)
      /\ l.frames[Len(l.frames)] = l.bucket
      /\ \A i \in 1 .. Len(l.frames) : <<l.frames[i], t>> \in s.list => i = 1
      /\ \A d \in Buckets : <<d, t>> \in s.list /\ s.bucket[d] = None => d = b
  BY LocalsFacts DEF ThreadOK, ControlOK, FramesOK, InFrames
<1>2. /\ b \in Buckets /\ rest \in Seq(Buckets) /\ Len(l.frames) \in Nat /\ Len(rest) = Len(l.frames) - 1
      /\ \A i \in 1 .. Len(rest) : rest[i] = l.frames[i + 1]
  BY <1>1, FramesFacts
<1>3. Parents(rest) /\ (rest # <<>> => b = ClearHighestBit(Head(rest)))
  BY <1>1, ParentsPop
<1>4. \A i \in 1 .. Len(rest) : <<rest[i], t>> \notin s.list
  <2>1. SUFFICES ASSUME NEW i \in 1 .. Len(rest)
                 PROVE  <<rest[i], t>> \notin s.list
    OBVIOUS
  <2>2. rest[i] = l.frames[i + 1] /\ i + 1 \in 1 .. Len(l.frames) /\ i + 1 # 1
    BY <1>2
  <2>. QED BY <1>1, <2>2
<1>5. x \notin s.list
  <2>1. CASE rest = <<>>
    BY <1>1, <2>1, SplitListConstants DEF HandOK, IsWorld
  <2>2. CASE rest # <<>>
    <3>1. Head(rest) = rest[1] /\ 1 \in 1 .. Len(rest)
      BY <1>2, <2>2, FramesFacts
    <3>. QED BY <1>4, <2>2, <3>1
  <2>. QED BY <2>1, <2>2
<1>6. s2.list = s.list
  BY <1>5, RenumberStep
<1>7. \A d \in Buckets : ~(<<d, t>> \in s2.list /\ s2.bucket[d] = None)
  <2>1. \A d \in Buckets : s2.bucket[d] = None => s.bucket[d] = None
    BY DEF Renumbered
  <2>. QED BY <1>1, <1>6, <2>1
<1>8. PICK m \in Locals : /\ m = OnlyFrames(l, rest) /\ m.frames = rest /\ m.at = l.at
                          /\ m.op = l.op /\ m.key = l.key /\ m.bucket = l.bucket /\ m.node = l.node
  BY <1>2, SetFrames
<1>9. OpOK(m)
  BY <1>1, <1>8 DEF OpOK
<1>10. HandOK(s2, m)
  <2>1. HandOK(s2, l)
    BY <1>1, <1>6, RenumberOwn
  <2>. QED BY <1>8, <2>1 DEF HandOK
<1>11. ASSUME rest # <<>>
       PROVE  LET m2 == Find(m, ClearHighestBit(Head(rest)), ReverseBits(Head(rest)), DummyKey, "dummy")
              IN  m2 \in Locals /\ ThreadOK(t, s2, m2, p2) /\ m2.node = m.node
  <2>1. FramesLeft(t, s2, m)
    <3>1. rest[Len(rest)] = l.bucket
      <4>1. Len(rest) \in 1 .. Len(rest) /\ Len(rest) + 1 = Len(l.frames)
        BY <1>2, <1>11, FramesFacts
      <4>2. rest[Len(rest)] = l.frames[Len(rest) + 1]
        BY <1>2, <4>1
      <4>. QED BY Zenon, <1>1, <4>1, <4>2
    <3>. QED BY <1>3, <1>4, <1>6, <1>7, <1>8, <1>11, <3>1 DEF FramesLeft
  <2>2. s2.bucket[ClearHighestBit(Head(rest))] # None
    BY <1>3, <1>11
  <2>3. s2.hashnr[<<Head(rest), t>>] = ReverseBits(Head(rest))
    BY <1>11
  <2>4. m.at \in {"parent", "install"}
    BY <1>8
  <2>5. PICK d : d = Head(rest)
    OBVIOUS
  <2>6. d = Head(m.frames)
    BY <1>8, <2>5
  <2>7. s2.bucket[ClearHighestBit(d)] # None /\ s2.hashnr[<<d, t>>] = ReverseBits(d)
    BY Zenon, <2>2, <2>3, <2>5
  <2>8. GoesOnWith(t, s2, m, p2, d)
    BY <1>9, <1>10, <2>1, <2>4, <2>6, <2>7, PopStep
  <2>. QED BY Zenon, <2>5, <2>8 DEF GoesOnWith
<1>12. ASSUME rest = <<>>
       PROVE  LET m2 == Start(m, SplitHash(l.key))
              IN  m2 \in Locals /\ ThreadOK(t, s2, m2, p2) /\ m2.node = m.node
  <2>1. Len(l.frames) = 1
    BY <1>1, <1>12, FramesFacts
  <2>2. s2.bucket[m.bucket] # None
    <3>1. Head(l.frames) = l.frames[1]
      BY <1>1, FramesFacts
    <3>. QED BY Zenon, <1>1, <1>8, <2>1, <3>1
  <2>3. m.node # None => s2.hashnr[m.node] = SplitHash(m.key)
    BY <1>8, <1>12
  <2>4. m.at \in {"slot", "install"}
    BY <1>8
  <2>5. LET m2 == Start(m, SplitHash(m.key))
        IN  m2 \in Locals /\ ThreadOK(t, s2, m2, p2) /\ m2.node = m.node
    BY <1>7, <1>9, <1>10, <2>2, <2>3, <2>4, StartStep
  <2>. QED BY Zenon, <1>8, <2>5
<1>13. MoreFrames(t, s2, l, p2, rest)
  BY Zenon, <1>8, <1>11 DEF MoreFrames
<1>14. LastFrame(t, s2, l, p2, rest)
  BY Zenon, <1>8, <1>12 DEF LastFrame
<1>. QED BY <1>5, <1>13, <1>14
-------------------------------------------------------------------------------
(* A node comes into the list: Swap.                                        *)

\* The node of the compare and swap, and where it belongs.
SwapNode(t, s, l, n) ==
    /\ n \in Nodes /\ n \notin s.list \cup s.pool \cup s.freed /\ s.hashnr[n] = l.hash /\ s.key[n] = l.search
    /\ n \in Elements => s.key[n] \in Keys /\ s.hashnr[n] = SplitHash(s.key[n])
    /\ n \in Dummies => s.hashnr[n] = ReverseBits(n[1])
    /\ l.goal = "dummy" => n \in Dummies /\ n[1] = Head(l.frames) /\ n = <<Head(l.frames), t>>
    /\ l.goal # "dummy" => n \in Elements /\ n = l.node /\ l.op = "insert" /\ l.goal = "insert"

LEMMA SwapNodeIs ==
  ASSUME NEW s, IsWorld(s), WorldOK(s), NEW t \in Threads, NEW l \in Locals, NEW p,
         ThreadOK(t, s, l, p), l.at = "swap", NEW n, n = NodeOf(t, l)
  PROVE  SwapNode(t, s, l, n)
<1>1. /\ l.at \in Searching /\ l.at \in Before /\ HandOK(s, l) /\ SearchOK(t, s, l) /\ FramesOK(t, s, l)
  BY DEF ThreadOK, ControlOK, Searching, Before
<1>2. l.goal \in {"insert", "dummy"} /\ s.hashnr[n] = l.hash
  BY <1>1 DEF SearchOK
<1>3. CASE l.goal = "dummy"
  <2>1. l.frames # <<>> /\ l.search = DummyKey /\ l.hash = ReverseBits(Head(l.frames))
    BY <1>1, <1>3 DEF SearchOK
  <2>2. /\ l.frames \in Seq(Buckets) /\ Head(l.frames) \in Buckets /\ Head(l.frames) = l.frames[1]
        /\ 1 \in 1 .. Len(l.frames)
    BY <2>1, LocalsFacts, FramesFacts
  <2>3. n = <<Head(l.frames), t>>
    BY <1>3 DEF NodeOf
  <2>4. n \in Dummies /\ n \in Nodes /\ n[1] = Head(l.frames) /\ n \notin Elements
    BY <2>2, <2>3, SplitListConstants DEF Dummies, Nodes
  <2>5. n \notin s.list
    BY <1>1, <1>3, <2>2, <2>3 DEF FramesOK, InFrames
  <2>6. s.pool \subseteq Elements /\ s.freed \subseteq Elements
    BY WorldFacts
  <2>7. s.key[n] = DummyKey
    BY <2>4 DEF WorldOK, KeysOK
  <2>8. s.hashnr[n] = ReverseBits(n[1])
    BY Zenon, <1>2, <2>1, <2>4
  <2>. QED BY <1>2, <1>3, <2>1, <2>3, <2>4, <2>5, <2>6, <2>7, <2>8 DEF SwapNode
<1>4. CASE l.goal = "insert"
  <2>1. l.op = "insert" /\ l.search = l.key /\ l.hash = SplitHash(l.key) /\ n = l.node /\ l.key \in Keys
    BY <1>1, <1>4, LocalsFacts DEF SearchOK, NodeOf, Sought
  <2>2. n # None /\ n \in Elements /\ n \notin s.pool \cup s.freed \cup s.list /\ s.key[n] = l.key
    BY <1>1, <2>1 DEF HandOK
  <2>3. n \in Nodes /\ n \notin Dummies
    BY <2>2, SplitListConstants DEF Nodes
  <2>4. s.hashnr[n] = SplitHash(s.key[n])
    BY Zenon, <1>2, <2>1, <2>2
  <2>. QED BY <1>2, <1>4, <2>1, <2>2, <2>3, <2>4 DEF SwapNode
<1>. QED BY <1>2, <1>3, <1>4

\* Node n is put behind the place of the cursor.
PutIn(s, s2, l, n) ==
    /\ s2.link[n] = LinkTo(l.curr)
    /\ l.prev[1] = "node" => /\ s2.link[l.prev[2]] = LinkTo(n) /\ s2.bucket = s.bucket
                             /\ \A m \in Nodes : m # n /\ m # l.prev[2] => s2.link[m] = s.link[m]
    /\ l.prev[1] = "bucket" => /\ s2.bucket[l.prev[2]] = n
                               /\ \A b \in Buckets : b # l.prev[2] => s2.bucket[b] = s.bucket[b]
                               /\ \A m \in Nodes : m # n => s2.link[m] = s.link[m]
    /\ s2.hashnr = s.hashnr /\ s2.key = s.key /\ s2.pool = s.pool /\ s2.freed = s.freed
    /\ s2.list = ListFrom(s2.link, s2.bucket[0])

LEMMA LinkedStep ==
  ASSUME NEW s, IsWorld(s), WorldOK(s), NEW s2, Typed(s2), NEW t \in Threads, NEW l \in Locals, NEW p \in Pins,
         ThreadOK(t, s, l, p), l.at = "swap", NEW n, SwapNode(t, s, l, n), ReadIn(s, l.prev) = LinkTo(l.curr),
         PutIn(s, s2, l, n), NEW q
  PROVE  IsWorld(s2) /\ WorldOK(s2) /\ s2.list = s.list \cup {n} /\ Steady(s, s2) /\ PinsFollow(s, s2, q)
<1>1. /\ l.at \in Searching /\ SearchOK(t, s, l) /\ PrevOK(s, l, p) /\ SwapOK(s, l, p)
  BY DEF ThreadOK, ControlOK, CursorOK, Searching
<1>2. l.curr \in Nodes \cup {None}
  BY LocalsFacts
<1>3. CASE l.prev[1] = "node"
  <2>1. PICK x \in s.list : x = l.prev[2] /\ s.link[x] = LinkTo(l.curr) /\ ~s.link[x].deleted
                            /\ s.link[x].to = l.curr /\ Below(s, x, l.hash, l.search)
    BY <1>1, <1>2, <1>3, ReadIs
  <2>2. l.curr # None => l.curr \in s.list /\ Above(s, l.curr, l.hash, l.search)
    <3>1. l.curr # None => l.curr \in s.list
      BY <1>1, <1>2, ReadIs
    <3>. QED BY <1>1, <3>1 DEF SwapOK
  <2>3. /\ n \in Nodes /\ n \notin s.list \cup s.pool \cup s.freed /\ s.hashnr[n] = l.hash /\ s.key[n] = l.search
        /\ n \in Elements => s.key[n] \in Keys /\ s.hashnr[n] = SplitHash(s.key[n])
        /\ n \in Dummies => s.hashnr[n] = ReverseBits(n[1])
    BY DEF SwapNode
  <2>4. /\ s2.link[n] = LinkTo(l.curr) /\ s2.link[x] = LinkTo(n) /\ s2.bucket = s.bucket
        /\ \A m \in Nodes : m # n /\ m # x => s2.link[m] = s.link[m]
        /\ s2.hashnr = s.hashnr /\ s2.key = s.key /\ s2.pool = s.pool /\ s2.freed = s.freed
        /\ s2.list = ListFrom(s2.link, s2.bucket[0])
    BY <1>3, <2>1 DEF PutIn
  <2>5. s2.link[n] = LinkTo(s.link[x].to) /\ Below(s, x, s.hashnr[n], s.key[n])
    BY <2>1, <2>3, <2>4
  <2>6. s.link[x].to # None => Above(s, s.link[x].to, s.hashnr[n], s.key[n])
    BY <2>1, <2>2, <2>3
  <2>. QED BY <2>1, <2>3, <2>4, <2>5, <2>6, InsertStep
<1>4. CASE l.prev[1] = "bucket"
  <2>1. l.curr = None /\ First(l)
    BY <1>1, <1>4 DEF SwapOK
  <2>2. l.head = 0 /\ Head(l.frames) = 0 /\ l.goal = "dummy" /\ l.prev[2] = l.head
    BY <1>1, <1>4, <2>1 DEF SearchOK, First, PrevOK
  <2>3. s.bucket[0] = None
    BY <1>1, <1>2, <1>4, <2>1, <2>2, ReadIs
  <2>4. /\ n \in Dummies /\ n[1] = 0 /\ n \notin s.list \cup s.pool \cup s.freed /\ s.hashnr[n] = ReverseBits(0)
    BY <2>2 DEF SwapNode
  <2>5. /\ s2.link[n] = LinkTo(None) /\ s2.bucket[0] = n
        /\ \A m \in Nodes : m # n => s2.link[m] = s.link[m]
        /\ \A b \in Buckets : b # 0 => s2.bucket[b] = s.bucket[b]
        /\ s2.hashnr = s.hashnr /\ s2.key = s.key /\ s2.pool = s.pool /\ s2.freed = s.freed
        /\ s2.list = ListFrom(s2.link, s2.bucket[0])
    BY <1>4, <2>1, <2>2 DEF PutIn
  <2>. QED BY <2>3, <2>4, <2>5, FirstStep
<1>. QED BY <1>3, <1>4, LocalsFacts

LEMMA LinkedOthers ==
  ASSUME NEW s, IsWorld(s), WorldOK(s), NEW s2, Typed(s2), NEW t \in Threads, NEW l \in Locals, NEW p \in Pins,
         ThreadOK(t, s, l, p), l.at = "swap", NEW n, SwapNode(t, s, l, n), ReadIn(s, l.prev) = LinkTo(l.curr),
         PutIn(s, s2, l, n), NEW u \in Threads, u # t, NEW m \in Locals, NEW q \in Pins,
         ThreadOK(u, s, m, q), m.node # None => m.node # l.node
  PROVE  ThreadOK(u, s2, m, q)
<1>1. /\ IsWorld(s2) /\ s2.list = s.list \cup {n} /\ Steady(s, s2) /\ PinsFollow(s, s2, q)
  BY LinkedStep
<1>2. \A b \in Buckets : <<b, u>> # n
  BY SplitListConstants DEF SwapNode, Dummies
<1>3. m.node # None => m.node \in Elements /\ m.node # n
  BY SplitListConstants DEF SwapNode, ThreadOK, ControlOK, HandOK
<1>4. s2.hashnr = s.hashnr /\ s2.key = s.key /\ s2.pool = s.pool /\ s2.freed = s.freed
  BY DEF PutIn
<1>5. Own(s, s2, u, m.node)
  BY <1>1, <1>2, <1>3, <1>4 DEF Own
<1>. QED BY <1>1, <1>5, ThreadStays DEF Pins

LEMMA DummyLinked ==
  ASSUME NEW s, IsWorld(s), WorldOK(s), NEW s2, Typed(s2), NEW t \in Threads, NEW l \in Locals, NEW p \in Pins,
         ThreadOK(t, s, l, p), l.at = "swap", NEW n, SwapNode(t, s, l, n), ReadIn(s, l.prev) = LinkTo(l.curr),
         PutIn(s, s2, l, n), l.goal = "dummy", NEW p2
  PROVE  LET m == WithCurr(l, "install", n)
         IN  m \in Locals /\ ThreadOK(t, s2, m, p2) /\ m.node = l.node
<1>1. /\ IsWorld(s2) /\ s2.list = s.list \cup {n} /\ Steady(s, s2) /\ n \in Nodes
  BY LinkedStep DEF SwapNode
<1>2. /\ l.at \in Before /\ OpOK(l) /\ HandOK(s, l) /\ FramesOK(t, s, l) /\ InFrames(l)
  BY DEF ThreadOK, ControlOK, InFrames, Searching, Before
<1>3. PICK m \in Locals : /\ m = WithCurr(l, "install", n) /\ m.at = "install" /\ m.curr = n /\ SameCall(l, m)
  <2>1. "install" \in Labels
    BY DEF Labels
  <2>. QED BY <1>1, <2>1, AtCurr
<1>4. /\ m.op = l.op /\ m.key = l.key /\ m.bucket = l.bucket /\ m.node = l.node /\ m.frames = l.frames
  BY <1>3 DEF SameCall
<1>5. m.at \in Before /\ m.at \notin Searching /\ m.at \notin {"found", "using"}
  BY <1>3 DEF Before, Searching
<1>6. n \in Dummies /\ n = <<Head(l.frames), t>> /\ n[1] = Head(l.frames)
  BY DEF SwapNode
<1>7. OpOK(m)
  <2>1. l.op \in Ops /\ ReverseBits(l.bucket) < SplitHash(l.key)
    BY <1>2 DEF OpOK
  <2>. QED BY <1>3, <1>4, <2>1 DEF OpOK
<1>8. HandOK(s2, m)
  <2>1. s2.key = s.key /\ s2.pool = s.pool /\ s2.freed = s.freed
    BY DEF PutIn
  <2>2. n \notin Elements
    BY <1>6, SplitListConstants
  <2>. QED BY <1>1, <1>2, <1>4, <1>5, <2>1, <2>2 DEF HandOK
<1>9. SearchOK(t, s2, m)
  BY <1>5 DEF SearchOK
<1>10. FramesOK(t, s2, m)
  <2>1. /\ l.frames # <<>> /\ Parents(l.frames) /\ l.frames[Len(l.frames)] = l.bucket
        /\ \A i \in 1 .. Len(l.frames) : <<l.frames[i], t>> \notin s.list
        /\ \A b \in Buckets : ~(<<b, t>> \in s.list /\ s.bucket[b] = None)
    BY <1>2 DEF FramesOK
  <2>2. /\ Head(l.frames) = l.frames[1] /\ Len(l.frames) \in Nat /\ 1 \in 1 .. Len(l.frames)
        /\ \A i \in 1 .. Len(l.frames) : l.frames[i] \in Buckets
    BY <2>1, LocalsFacts, FramesFacts
  <2>3. \A i \in 1 .. Len(l.frames) : <<l.frames[i], t>> \in s2.list => i = 1
    <3>1. SUFFICES ASSUME NEW i \in 1 .. Len(l.frames), <<l.frames[i], t>> \in s2.list, i # 1
                   PROVE  FALSE
      OBVIOUS
    <3>2. l.frames[i] = l.frames[1]
      BY <1>1, <1>6, <2>1, <2>2, <3>1
    <3>3. 1 < i
      BY <2>2, <3>1
    <3>4. l.frames[1] < l.frames[i]
      BY <2>1, <2>2, <3>1, <3>3 DEF Parents
    <3>5. l.frames[1] \in Nat
      BY <2>2, BucketBounds
    <3>. QED BY <3>2, <3>4, <3>5
  <2>4. \A b \in Buckets : s2.bucket[b] = None => s.bucket[b] = None
    BY <1>1 DEF Steady
  <2>5. \A b \in Buckets : <<b, t>> \in s2.list /\ s2.bucket[b] = None => b = Head(l.frames)
    BY <1>1, <1>6, <2>1, <2>4
  <2>. QED BY <1>3, <1>4, <2>1, <2>3, <2>5 DEF FramesOK
<1>11. InstallOK(s2, m)
  BY <1>1, <1>3, <1>4, <1>6 DEF InstallOK
<1>12. CursorOK(s2, m, p2)
  BY <1>3, <1>5, <1>11 DEF CursorOK
<1>. QED BY <1>3, <1>4, <1>7, <1>8, <1>9, <1>10, <1>12 DEF ThreadOK, ControlOK

LEMMA ElementLinked ==
  ASSUME NEW s, IsWorld(s), WorldOK(s), NEW s2, Typed(s2), NEW t \in Threads, NEW l \in Locals, NEW p \in Pins,
         ThreadOK(t, s, l, p), l.at = "swap", NEW n, SwapNode(t, s, l, n), ReadIn(s, l.prev) = LinkTo(l.curr),
         PutIn(s, s2, l, n), l.goal # "dummy", NEW p2
  PROVE  LET m == WithNode(l, "count", None)
         IN  m \in Locals /\ ThreadOK(t, s2, m, p2) /\ m.node = None
<1>1. /\ IsWorld(s2) /\ s2.list = s.list \cup {n} /\ Steady(s, s2) /\ n \in Elements /\ l.op = "insert"
  BY LinkedStep DEF SwapNode
<1>2. /\ OpOK(l) /\ FramesOK(t, s, l)
  BY DEF ThreadOK, ControlOK
<1>3. PICK m \in Locals : /\ m = WithNode(l, "count", None) /\ m.at = "count" /\ m.node = None
                          /\ m.op = l.op /\ m.key = l.key /\ m.bucket = l.bucket
  <2>1. "count" \in Labels
    BY DEF Labels
  <2>2. PICK c \in Nodes \cup {None} : c = None
    OBVIOUS
  <2>. QED BY <2>1, <2>2, AtNode
<1>4. m.at \notin Searching \cup Before \cup {"found", "using", "install", "parent"}
  BY <1>3 DEF Before, Searching
<1>5. OpOK(m)
  <2>1. ReverseBits(l.bucket) < SplitHash(l.key)
    BY <1>2 DEF OpOK
  <2>. QED BY <1>1, <1>3, <2>1 DEF OpOK, Ops
<1>6. HandOK(s2, m) /\ SearchOK(t, s2, m)
  BY <1>3, <1>4 DEF HandOK, SearchOK
<1>7. FramesOK(t, s2, m)
  <2>1. \A b \in Buckets : ~(<<b, t>> \in s.list /\ s.bucket[b] = None)
    BY <1>2 DEF FramesOK
  <2>2. \A b \in Buckets : <<b, t>> # n
    BY <1>1, SplitListConstants DEF Dummies
  <2>3. \A b \in Buckets : s2.bucket[b] = None => s.bucket[b] = None
    BY <1>1 DEF Steady
  <2>4. ~InFrames(m)
    BY <1>4 DEF InFrames
  <2>. QED BY <1>1, <2>1, <2>2, <2>3, <2>4 DEF FramesOK
<1>8. CursorOK(s2, m, p2)
  BY <1>4 DEF CursorOK, Searching, Before
<1>. QED BY <1>3, <1>5, <1>6, <1>7, <1>8 DEF ThreadOK, ControlOK

\* The compare and swap fails: the node's own link is all that changed.
LEMMA NotLinked ==
  ASSUME NEW s, IsWorld(s), WorldOK(s), NEW s2, Typed(s2), NEW t, NEW l, NEW n, SwapNode(t, s, l, n),
         \A m \in Nodes : m # n => s2.link[m] = s.link[m],
         s2.hashnr = s.hashnr, s2.key = s.key, s2.bucket = s.bucket, s2.pool = s.pool, s2.freed = s.freed,
         s2.list = ListFrom(s2.link, s2.bucket[0]),
         NEW u \in Threads, NEW m \in Locals, NEW q \in Pins, ThreadOK(u, s, m, q)
  PROVE  IsWorld(s2) /\ WorldOK(s2) /\ s2.list = s.list /\ ThreadOK(u, s2, m, q)
<1>1. n \in Nodes /\ n \notin s.list /\ n \notin s.freed
  BY DEF SwapNode
<1>2. \A x \in s.list : s2.link[x] = s.link[x]
  BY <1>1 DEF IsWorld
<1>3. Quiet(s, s2)
  <2>1. SameNext(s.list, s.link, s2.link, {})
    BY <1>2 DEF SameNext
  <2>2. \A x \in s.list : x \in Dummies => ~s2.link[x].deleted
    BY <1>2 DEF WorldOK, KeysOK
  <2>3. \A d \in Dummies : s2.key[d] = DummyKey
    BY DEF WorldOK, KeysOK
  <2>. QED BY <1>2, <2>1, <2>2, <2>3 DEF Quiet, WorldOK, PlacesOK
<1>4. \A x \in s.freed : s2.link[x] = s.link[x]
  <2>1. s.freed \subseteq Nodes
    BY WorldFacts DEF Nodes
  <2>. QED BY <1>1, <2>1
<1>5. m.node # None => m.node \notin s2.pool \cup s2.freed
  BY DEF ThreadOK, ControlOK, HandOK
<1>. QED BY <1>3, <1>4, <1>5, QuietOthers
-------------------------------------------------------------------------------
(* Elements change hands: Call, Duplicate, Reclaim.                         *)

LEMMA FreedStep ==
  ASSUME NEW s, IsWorld(s), WorldOK(s), NEW s2, Typed(s2), NEW n \in Elements, n \notin s.pool \cup s.freed \cup s.list,
         \A m \in Nodes : m # n => s2.key[m] = s.key[m],
         s2.hashnr = s.hashnr, s2.link = s.link, s2.bucket = s.bucket, s2.pool = s.pool, s2.freed = s.freed \cup {n},
         s2.list = ListFrom(s2.link, s2.bucket[0]),
         NEW u \in Threads, NEW m \in Locals, NEW q \in Pins, ThreadOK(u, s, m, q), m.node # None => m.node # n
  PROVE  IsWorld(s2) /\ WorldOK(s2) /\ s2.list = s.list /\ ThreadOK(u, s2, m, q)
<1>1. n \in Nodes /\ n \notin Dummies
  BY SplitListConstants DEF Nodes
<1>2. Quiet(s, s2)
  <2>1. SameNext(s.list, s.link, s2.link, {})
    BY DEF SameNext
  <2>2. \A x \in s.list : s2.key[x] = s.key[x] /\ (x \in Dummies => ~s2.link[x].deleted)
    BY DEF IsWorld, WorldOK, KeysOK
  <2>3. \A d \in Dummies : s2.key[d] = DummyKey
    BY <1>1 DEF WorldOK, KeysOK, Nodes
  <2>4. s2.pool \cap s2.freed = {} /\ s2.pool \cap s.list = {} /\ s2.freed \cap s.list = {}
    BY DEF WorldOK, PlacesOK
  <2>. QED BY <2>1, <2>2, <2>3, <2>4 DEF Quiet
<1>3. m.node # None => m.node \in Nodes /\ m.node \notin s.pool \cup s.freed
  BY LocalsFacts DEF ThreadOK, ControlOK, HandOK
<1>. QED BY <1>2, <1>3, QuietOthers

LEMMA TakenStep ==
  ASSUME NEW s, IsWorld(s), WorldOK(s), NEW s2, Typed(s2), NEW n \in s.pool,
         \A m \in Nodes : m # n => s2.key[m] = s.key[m],
         s2.hashnr = s.hashnr, s2.link = s.link, s2.bucket = s.bucket, s2.pool = s.pool \ {n}, s2.freed = s.freed,
         s2.list = ListFrom(s2.link, s2.bucket[0]),
         NEW u \in Threads, NEW m \in Locals, NEW q \in Pins, ThreadOK(u, s, m, q)
  PROVE  IsWorld(s2) /\ WorldOK(s2) /\ s2.list = s.list /\ ThreadOK(u, s2, m, q)
<1>1. n \in Nodes /\ n \notin Dummies /\ n \notin s.list
  BY SplitListConstants, WorldFacts DEF Nodes, WorldOK, PlacesOK
<1>2. Quiet(s, s2)
  <2>1. SameNext(s.list, s.link, s2.link, {})
    BY DEF SameNext
  <2>2. \A x \in s.list : s2.key[x] = s.key[x] /\ (x \in Dummies => ~s2.link[x].deleted)
    BY <1>1 DEF IsWorld, WorldOK, KeysOK
  <2>3. \A d \in Dummies : s2.key[d] = DummyKey
    BY <1>1 DEF WorldOK, KeysOK, Nodes
  <2>4. s2.pool \cap s2.freed = {} /\ s2.pool \cap s.list = {} /\ s2.freed \cap s.list = {}
    BY DEF WorldOK, PlacesOK
  <2>. QED BY <2>1, <2>2, <2>3, <2>4 DEF Quiet
<1>3. m.node # None => m.node \in Nodes /\ m.node \notin s.pool \cup s.freed
  BY LocalsFacts DEF ThreadOK, ControlOK, HandOK
<1>. QED BY <1>2, <1>3, QuietOthers

\* What is freed and pinned by nobody may be handed out again.
LEMMA ReclaimWorld ==
  ASSUME NEW s, IsWorld(s), WorldOK(s), NEW s2, Typed(s2), NEW n \in s.freed,
         s2.key = s.key, s2.hashnr = s.hashnr, s2.link = s.link, s2.bucket = s.bucket,
         s2.pool = s.pool \cup {n}, s2.freed = s.freed \ {n}, s2.list = ListFrom(s2.link, s2.bucket[0])
  PROVE  IsWorld(s2) /\ WorldOK(s2) /\ s2.list = s.list /\ Steady(s, s2)
<1>1. Quiet(s, s2)
  <2>1. SameNext(s.list, s.link, s2.link, {})
    BY DEF SameNext
  <2>2. \A x \in s.list : x \in Dummies => ~s2.link[x].deleted
    BY DEF WorldOK, KeysOK
  <2>3. \A d \in Dummies : s2.key[d] = DummyKey
    BY DEF WorldOK, KeysOK
  <2>4. s2.pool \cap s2.freed = {} /\ s2.pool \cap s.list = {} /\ s2.freed \cap s.list = {}
    BY DEF WorldOK, PlacesOK
  <2>. QED BY <2>1, <2>2, <2>3, <2>4 DEF Quiet
<1>. QED BY <1>1, QuietStep

LEMMA ReclaimStep ==
  ASSUME NEW s, IsWorld(s), WorldOK(s), NEW s2, Typed(s2), NEW n \in s.freed,
         s2.key = s.key, s2.hashnr = s.hashnr, s2.link = s.link, s2.bucket = s.bucket,
         s2.pool = s.pool \cup {n}, s2.freed = s.freed \ {n}, s2.list = ListFrom(s2.link, s2.bucket[0]),
         NEW u \in Threads, NEW m \in Locals, NEW q \in Pins, ThreadOK(u, s, m, q), \A i \in 0 .. 2 : q[i] # n
  PROVE  ThreadOK(u, s2, m, q)
<1>1. IsWorld(s2) /\ WorldOK(s2) /\ s2.list = s.list /\ Steady(s, s2)
  BY ReclaimWorld
<1>2. PinsFollow(s, s2, q)
  <2>1. SUFFICES ASSUME NEW i \in 0 .. 2, Held(s, q[i])
                 PROVE  Held(s2, q[i])
    BY <1>1 DEF PinsFollow, Follows
  <2>. QED BY <1>1, <2>1 DEF Held
<1>3. Own(s, s2, u, m.node)
  BY <1>1 DEF Own
<1>. QED BY <1>1, <1>2, <1>3, ThreadStays DEF Pins

\* The call begins, with the element it inserts if it is an insertion.
LEMMA CallStep ==
  ASSUME NEW s, NEW t, NEW l, NEW p, ThreadOK(t, s, l, p), l.at = "idle",
         NEW m \in Locals, m.at = "hash", m.op \in Ops,
         m.op = "insert" => /\ m.node \in Elements /\ m.node # None /\ m.node \notin s.pool \cup s.freed \cup s.list
                            /\ s.key[m.node] = m.key,
         m.op # "insert" => m.node = None, NEW p2
  PROVE  ThreadOK(t, s, m, p2)
<1>1. m.at \in Before /\ m.at \notin Searching \cup {"found", "using", "install", "parent"}
  BY DEF Before, Searching
<1>2. OpOK(m)
  BY DEF OpOK
<1>3. HandOK(s, m)
  BY <1>1 DEF HandOK
<1>4. SearchOK(t, s, m)
  BY <1>1 DEF SearchOK
<1>5. FramesOK(t, s, m)
  <2>1. \A b \in Buckets : ~(<<b, t>> \in s.list /\ s.bucket[b] = None)
    BY DEF ThreadOK, ControlOK, FramesOK
  <2>. QED BY <1>1, <2>1 DEF FramesOK, InFrames
<1>6. CursorOK(s, m, p2)
  BY <1>1 DEF CursorOK
<1>. QED BY <1>2, <1>3, <1>4, <1>5, <1>6 DEF ThreadOK, ControlOK

\* The hands of the threads.
Place(s) == s.pool \cup s.freed \cup s.list

LEMMA HandsKeep ==
  ASSUME NEW s, NEW s2, NEW h, NEW h2, HandsOK(s, h), \A u \in Threads : h2[u].node = h[u].node,
         Place(s) \cap Elements \subseteq Place(s2)
  PROVE  HandsOK(s2, h2)
BY DEF HandsOK, Place

LEMMA HandsTake ==
  ASSUME NEW s, NEW s2, NEW h, NEW h2, HandsOK(s, h), NEW t \in Threads, NEW n, n \in Place(s),
         \A u \in Threads : u # t => h2[u].node = h[u].node,
         \A u \in Threads : h[u].node # None => h[u].node \notin Place(s),
         h[t].node = None, h2[t].node = n, n # None, Place(s) \cap Elements \subseteq Place(s2) \cup {n}
  PROVE  HandsOK(s2, h2)
<1>1. \A u \in Threads : u # t => h2[u].node # n
  BY DEF HandsOK
<1>2. \A u, v \in Threads : u # v /\ h2[u].node # None => h2[u].node # h2[v].node
  BY <1>1 DEF HandsOK
<1>3. \A x \in Elements : x \in Place(s2) \/ \E u \in Threads : h2[u].node = x
  <2>1. TAKE x \in Elements
  <2>2. CASE x \in Place(s)
    BY <2>2
  <2>3. CASE x \notin Place(s)
    <3>1. PICK u \in Threads : h[u].node = x
      BY <2>3 DEF HandsOK, Place
    <3>2. CASE u = t
      BY <3>1, <3>2, SplitListConstants DEF Nodes
    <3>3. CASE u # t
      BY <3>1, <3>3
    <3>. QED BY <3>2, <3>3
  <2>. QED BY <2>2, <2>3
<1>. QED BY <1>2, <1>3 DEF HandsOK, Place

LEMMA HandsGive ==
  ASSUME NEW s, NEW s2, NEW h, NEW h2, HandsOK(s, h), NEW t \in Threads,
         \A u \in Threads : u # t => h2[u].node = h[u].node,
         h2[t].node = None, h[t].node \in Place(s2), Place(s) \cap Elements \subseteq Place(s2)
  PROVE  HandsOK(s2, h2)
<1>1. \A u, v \in Threads : u # v /\ h2[u].node # None => h2[u].node # h2[v].node
  BY DEF HandsOK
<1>2. \A x \in Elements : x \in Place(s2) \/ \E u \in Threads : h2[u].node = x
  <2>1. TAKE x \in Elements
  <2>2. CASE x \in Place(s)
    BY <2>2
  <2>3. CASE x \notin Place(s)
    <3>1. PICK u \in Threads : h[u].node = x
      BY <2>3 DEF HandsOK, Place
    <3>. QED BY <3>1
  <2>. QED BY <2>2, <2>3
<1>. QED BY <1>1, <1>2 DEF HandsOK, Place
-------------------------------------------------------------------------------
(* The inductive invariant.                                                 *)

Calls == Seq([op : Ops, key : Keys])

IInv ==
    /\ IsWorld(World) /\ WorldOK(World)
    /\ SizeOK(size) /\ count \in Int
    /\ pin \in [Threads -> Pins] /\ th \in [Threads -> Locals] /\ script \in [Threads -> Calls]
    /\ \A u \in Threads : ThreadOK(u, World, th[u], pin[u])
    /\ HandsOK(World, th)

LEMMA WorldIs ==
  /\ World.link = link /\ World.hashnr = hashnr /\ World.key = key /\ World.bucket = bucket
  /\ World.pool = pool /\ World.freed = freed /\ World.list = InList
BY DEF World

LEMMA WorldNext ==
  /\ World'.link = link' /\ World'.hashnr = hashnr' /\ World'.key = key' /\ World'.bucket = bucket'
  /\ World'.pool = pool' /\ World'.freed = freed' /\ World'.list = ListFrom(link', bucket'[0])
<1>1. InList' = ListFrom(link', bucket'[0])
  BY Zenon DEF InList, ListFrom
<1>. QED BY <1>1 DEF World

LEMMA WorldSame ==
  ASSUME UNCHANGED <<list, bucket, memory>>
  PROVE  World' = World
<1>1. InList' = ListFrom(link', bucket'[0]) /\ InList = ListFrom(link, bucket[0])
  BY Zenon DEF InList, ListFrom
<1>2. link' = link /\ hashnr' = hashnr /\ key' = key /\ bucket' = bucket /\ pool' = pool /\ freed' = freed
  BY DEF list, memory
<1>3. InList' = InList
  BY Zenon, <1>1, <1>2
<1>. QED BY <1>2, <1>3 DEF World

LEMMA ReadSame == \A q : Read(q) = ReadIn(World, q)
BY DEF Read, ReadIn, World

\* One thread moves; what the others rely on is left to them.
LEMMA Assemble ==
  ASSUME IInv, NEW t \in Threads, NEW s2, s2 = World', IsWorld(s2), WorldOK(s2),
         NEW l2 \in Locals, th' = [th EXCEPT ![t] = l2], NEW p2 \in Pins, pin' = [pin EXCEPT ![t] = p2],
         ThreadOK(t, s2, l2, p2), \A u \in Threads : u # t => ThreadOK(u, s2, th[u], pin[u]),
         HandsOK(s2, th'), SizeOK(size'), count' \in Int, script' \in [Threads -> Calls]
  PROVE  IInv'
<1>1. th' \in [Threads -> Locals] /\ pin' \in [Threads -> Pins]
  BY DEF IInv
<1>2. \A u \in Threads : ThreadOK(u, s2, th'[u], pin'[u])
  BY DEF IInv
<1>. QED BY <1>1, <1>2 DEF IInv

\* A thread moves, and the list and the table stay.
LEMMA OwnStep ==
  ASSUME IInv, NEW t \in Threads, World' = World,
         NEW l2 \in Locals, th' = [th EXCEPT ![t] = l2], NEW p2 \in Pins, pin' = [pin EXCEPT ![t] = p2],
         ThreadOK(t, World, l2, p2), l2.node = th[t].node,
         SizeOK(size'), count' \in Int, script' \in [Threads -> Calls]
  PROVE  IInv'
<1>1. PICK s : s = World
  OBVIOUS
<1>2. PICK h : h = th
  OBVIOUS
<1>3. PICK h2 : h2 = th'
  OBVIOUS
<1>4. \A u \in Threads : h2[u].node = h[u].node
  BY <1>2, <1>3 DEF IInv
<1>5. HandsOK(s, h2)
  BY <1>1, <1>2, <1>4, HandsKeep DEF IInv
<1>6. IsWorld(s) /\ WorldOK(s) /\ \A u \in Threads : u # t => ThreadOK(u, s, th[u], pin[u])
  BY <1>1 DEF IInv
<1>. QED BY <1>1, <1>3, <1>5, <1>6, Assemble

LEMMA PinsAre ==
  ASSUME NEW q \in [Threads -> Pins], NEW t \in Threads
  PROVE  q = [q EXCEPT ![t] = q[t]] /\ q[t] \in Pins
OBVIOUS

SetPins(q, t, p) == [q EXCEPT ![t] = p]
SetPin0(q, t, c) == [q EXCEPT ![t][0] = c]
LEMMA Pin0Set ==
  ASSUME NEW q \in [Threads -> Pins], NEW t \in Threads, NEW c \in Nodes \cup {None}
  PROVE  \E p2 \in Pins : /\ SetPin0(q, t, c) = SetPins(q, t, p2)
                           /\ p2[0] = c /\ p2[1] = q[t][1] /\ p2[2] = q[t][2]
<1>1. PICK p2 \in Pins : p2 = [q[t] EXCEPT ![0] = c]
  BY DEF Pins
<1>2. SetPin0(q, t, c) = SetPins(q, t, p2)
  BY <1>1 DEF SetPin0, SetPins
<1>3. p2[0] = c /\ p2[1] = q[t][1] /\ p2[2] = q[t][2]
  BY <1>1 DEF Pins
<1>. QED BY <1>2, <1>3

SetPin1(q, t, c) == [q EXCEPT ![t][1] = c]
LEMMA Pin1Set ==
  ASSUME NEW q \in [Threads -> Pins], NEW t \in Threads, NEW c \in Nodes \cup {None}
  PROVE  \E p2 \in Pins : /\ SetPin1(q, t, c) = SetPins(q, t, p2)
                           /\ p2[1] = c /\ p2[0] = q[t][0] /\ p2[2] = q[t][2]
<1>1. PICK p2 \in Pins : p2 = [q[t] EXCEPT ![1] = c]
  BY DEF Pins
<1>2. SetPin1(q, t, c) = SetPins(q, t, p2)
  BY <1>1 DEF SetPin1, SetPins
<1>3. p2[1] = c /\ p2[0] = q[t][0] /\ p2[2] = q[t][2]
  BY <1>1 DEF Pins
<1>. QED BY <1>2, <1>3

\* What a thread knows of itself.
LEMMA Known ==
  ASSUME IInv, NEW t \in Threads
  PROVE  /\ th[t] \in Locals /\ pin[t] \in Pins /\ ThreadOK(t, World, th[t], pin[t])
         /\ IsWorld(World) /\ WorldOK(World) /\ pin = [pin EXCEPT ![t] = pin[t]]
<1>1. pin \in [Threads -> Pins]
  BY DEF IInv
<1>2. pin = [pin EXCEPT ![t] = pin[t]]
  BY <1>1, PinsAre
<1>. QED BY <1>1, <1>2 DEF IInv

\* What most steps leave as it is.
LEMMA TableSame ==
  ASSUME IInv, UNCHANGED <<size, count, script>>
  PROVE  SizeOK(size') /\ count' \in Int /\ script' \in [Threads -> Calls]
BY DEF IInv

LEMMA LoadKeeps ==
  ASSUME IInv, NEW t \in Threads, Load(t)
  PROVE  IInv'
<1>1. PICK l \in Locals : l = th[t]
  BY Known
<1>2. PICK p \in Pins : p = pin[t] /\ pin = [pin EXCEPT ![t] = p]
  BY Known
<1>3. PICK s : s = World /\ IsWorld(s) /\ ThreadOK(t, s, l, p)
  BY Known, <1>1, <1>2
<1>4. PICK m : m = WithCurr(l, "confirm", ReadIn(s, l.prev).to)
  OBVIOUS
<1>5. l.at = "load"
  BY <1>1 DEF Load, At
<1>6. m \in Locals /\ ThreadOK(t, s, m, p) /\ m.node = l.node
  BY <1>3, <1>4, <1>5, LoadStep
<1>7. th' = [th EXCEPT ![t] = m]
  <2>1. Read(l.prev) = ReadIn(s, l.prev)
    BY <1>3, ReadSame
  <2>. QED BY Zenon, <1>1, <1>4, <2>1 DEF Load, Local, WithCurr
<1>8. World' = World /\ pin' = pin /\ size' = size /\ count' = count /\ script' = script
  BY WorldSame DEF Load, table
<1>. QED BY <1>1, <1>2, <1>3, <1>6, <1>7, <1>8, OwnStep, TableSame

LEMMA ConfirmKeeps ==
  ASSUME IInv, NEW t \in Threads, Confirm(t)
  PROVE  IInv'
<1>1. PICK l \in Locals : l = th[t]
  BY Known
<1>2. PICK p \in Pins : p = pin[t]
  BY Known
<1>3. PICK s : s = World /\ IsWorld(s) /\ WorldOK(s) /\ ThreadOK(t, s, l, p)
  BY Known, <1>1, <1>2
<1>4. PICK p2 \in Pins : pin' = [pin EXCEPT ![t] = p2] /\ p2[1] = l.curr /\ p2[2] = p[2]
  <2>1. pin \in [Threads -> Pins] /\ l.curr \in Nodes \cup {None}
    BY LocalsFacts DEF IInv
  <2>2. pin' = SetPin1(pin, t, l.curr)
    BY Zenon, <1>1 DEF Confirm, SetPin1
  <2>3. PICK p2 \in Pins : SetPin1(pin, t, l.curr) = SetPins(pin, t, p2) /\ p2[1] = l.curr /\ p2[2] = pin[t][2]
    BY <2>1, Pin1Set
  <2>. QED BY <1>2, <2>2, <2>3 DEF SetPins
<1>5. l.at = "confirm"
  BY <1>1 DEF Confirm, At
<1>6. PICK m : m = IF ReadIn(s, l.prev) = LinkTo(l.curr) THEN StepTo(l, l.curr) ELSE Retry(l)
  OBVIOUS
<1>7. m \in Locals /\ ThreadOK(t, s, m, p2) /\ m.node = l.node
  BY <1>3, <1>4, <1>5, <1>6, ConfirmStep
<1>8. th' = [th EXCEPT ![t] = m]
  <2>1. Read(l.prev) = ReadIn(s, l.prev)
    BY <1>3, ReadSame
  <2>. QED BY Zenon, <1>1, <1>6, <2>1 DEF Confirm, Local
<1>9. World' = World /\ size' = size /\ count' = count /\ script' = script
  BY WorldSame DEF Confirm, table
<1>. QED BY <1>1, <1>3, <1>4, <1>7, <1>8, <1>9, OwnStep, TableSame

LEMMA LoadLinkKeeps ==
  ASSUME IInv, NEW t \in Threads, LoadLink(t)
  PROVE  IInv'
<1>1. PICK l \in Locals : l = th[t]
  BY Known
<1>2. PICK p \in Pins : p = pin[t] /\ pin = [pin EXCEPT ![t] = p]
  BY Known
<1>3. PICK s : s = World /\ IsWorld(s) /\ ThreadOK(t, s, l, p) /\ s.link = link
  BY Known, WorldIs, <1>1, <1>2
<1>4. PICK m : m = WithLink(l, "next", s.link[l.curr])
  OBVIOUS
<1>5. l.at = "link"
  BY <1>1 DEF LoadLink, At
<1>6. m \in Locals /\ ThreadOK(t, s, m, p) /\ m.node = l.node
  BY <1>3, <1>4, <1>5, LoadLinkStep
<1>7. th' = [th EXCEPT ![t] = m]
  BY Zenon, <1>1, <1>3, <1>4 DEF LoadLink, Local, WithLink
<1>8. World' = World /\ pin' = pin /\ size' = size /\ count' = count /\ script' = script
  BY WorldSame DEF LoadLink, table
<1>. QED BY <1>1, <1>2, <1>3, <1>6, <1>7, <1>8, OwnStep, TableSame

LEMMA ConfirmNextKeeps ==
  ASSUME IInv, NEW t \in Threads, ConfirmNext(t)
  PROVE  IInv'
<1>1. PICK l \in Locals : l = th[t]
  BY Known
<1>2. PICK p \in Pins : p = pin[t]
  BY Known
<1>3. PICK s : s = World /\ IsWorld(s) /\ WorldOK(s) /\ ThreadOK(t, s, l, p) /\ s.link = link
  BY Known, WorldIs, <1>1, <1>2
<1>4. PICK p2 \in Pins : pin' = [pin EXCEPT ![t] = p2] /\ p2[0] = l.link.to /\ p2[1] = p[1] /\ p2[2] = p[2]
  <2>1. pin \in [Threads -> Pins] /\ l.link.to \in Nodes \cup {None}
    BY LocalsFacts DEF IInv
  <2>2. pin' = SetPin0(pin, t, l.link.to)
    BY Zenon, <1>1 DEF ConfirmNext, SetPin0
  <2>3. PICK p2 \in Pins : SetPin0(pin, t, l.link.to) = SetPins(pin, t, p2) /\ p2[0] = l.link.to /\ p2[1] = pin[t][1] /\ p2[2] = pin[t][2]
    BY <2>1, Pin0Set
  <2>. QED BY <1>2, <2>2, <2>3 DEF SetPins
<1>5. l.at = "next"
  BY <1>1 DEF ConfirmNext, At
<1>6. PICK m : m = OnlyAt(l, IF s.link[l.curr] = l.link THEN "judge" ELSE "link")
  OBVIOUS
<1>7. m \in Locals /\ ThreadOK(t, s, m, p2) /\ m.node = l.node
  BY <1>3, <1>4, <1>5, <1>6, ConfirmNextStep
<1>8. th' = [th EXCEPT ![t] = m]
  BY Zenon, <1>1, <1>3, <1>6 DEF ConfirmNext, Go, Local, OnlyAt
<1>9. World' = World /\ size' = size /\ count' = count /\ script' = script
  BY WorldSame DEF ConfirmNext, table
<1>. QED BY <1>1, <1>3, <1>4, <1>7, <1>8, <1>9, OwnStep, TableSame
SetPin21(q, t, c, d) == [q EXCEPT ![t][2] = c, ![t][1] = d]
LEMMA Pin21Set ==
  ASSUME NEW q \in [Threads -> Pins], NEW t \in Threads, NEW c \in Nodes \cup {None}, NEW d \in Nodes \cup {None}
  PROVE  \E p2 \in Pins : SetPin21(q, t, c, d) = SetPins(q, t, p2) /\ p2[2] = c /\ p2[1] = d
<1>1. PICK p2 \in Pins : p2 = [q[t] EXCEPT ![2] = c, ![1] = d]
  BY DEF Pins
<1>2. SetPin21(q, t, c, d) = SetPins(q, t, p2)
  BY <1>1 DEF SetPin21, SetPins
<1>3. p2[2] = c /\ p2[1] = d
  BY <1>1 DEF Pins
<1>. QED BY <1>2, <1>3

LEMMA JudgeKeeps ==
  ASSUME IInv, NEW t \in Threads, Judge(t)
  PROVE  IInv'
<1>1. PICK l \in Locals : l = th[t]
  BY Known
<1>2. PICK p \in Pins : p = pin[t] /\ pin = [pin EXCEPT ![t] = p]
  BY Known
<1>3. PICK s : s = World /\ IsWorld(s) /\ WorldOK(s) /\ ThreadOK(t, s, l, p) /\ s.hashnr = hashnr /\ s.key = key
  BY Known, WorldIs, <1>1, <1>2
<1>4. l.at = "judge"
  BY <1>1 DEF Judge, At
<1>5. World' = World /\ size' = size /\ count' = count /\ script' = script
  BY WorldSame DEF Judge, table
<1>6. Read(l.prev) = ReadIn(s, l.prev)
  BY <1>3, ReadSame
<1>7. (Reached(l) <=> ReachedIn(s, l)) /\ (Equal(l) <=> EqualIn(s, l))
  BY <1>3 DEF Reached, ReachedIn, Equal, EqualIn
<1>8. CASE Local(t, Retry(l)) /\ UNCHANGED pin
  <2>1. PICK m : m = Retry(l)
    OBVIOUS
  <2>2. m \in Locals /\ ThreadOK(t, s, m, p) /\ m.node = l.node
    BY <1>3, <1>4, <2>1, JudgeFacts, RetryStep
  <2>3. th' = [th EXCEPT ![t] = m]
    BY Zenon, <1>8, <2>1 DEF Local
  <2>. QED BY <1>1, <1>2, <1>3, <1>5, <1>8, <2>2, <2>3, OwnStep, TableSame
<1>9. CASE l.link.deleted /\ Go(t, "help") /\ UNCHANGED pin
  <2>1. PICK m : m = OnlyAt(l, "help")
    OBVIOUS
  <2>2. m \in Locals /\ ThreadOK(t, s, m, p) /\ m.node = l.node
    BY <1>3, <1>4, <1>9, <2>1, JudgeHelps
  <2>3. th' = [th EXCEPT ![t] = m]
    BY Zenon, <1>1, <1>9, <2>1 DEF Go, Local, OnlyAt
  <2>. QED BY <1>1, <1>2, <1>3, <1>5, <1>9, <2>2, <2>3, OwnStep, TableSame
<1>10. CASE /\ Read(l.prev) = LinkTo(l.curr) /\ ~l.link.deleted /\ Reached(l)
            /\ Local(t, IF Equal(l) THEN Found(l) ELSE Missing(l)) /\ UNCHANGED pin
  <2>1. PICK m : m = IF EqualIn(s, l) THEN Found(l) ELSE Missing(l)
    OBVIOUS
  <2>2. m \in Locals /\ ThreadOK(t, s, m, p) /\ m.node = l.node
    BY <1>3, <1>4, <1>6, <1>7, <1>10, <2>1, JudgeFound
  <2>3. th' = [th EXCEPT ![t] = m]
    BY Zenon, <1>7, <1>10, <2>1 DEF Local
  <2>. QED BY <1>1, <1>2, <1>3, <1>5, <1>10, <2>2, <2>3, OwnStep, TableSame
<1>11. CASE /\ Read(l.prev) = LinkTo(l.curr) /\ ~l.link.deleted /\ ~Reached(l)
            /\ pin' = [pin EXCEPT ![t][2] = l.curr, ![t][1] = l.link.to]
            /\ Local(t, StepTo([l EXCEPT !.prev = <<"node", l.curr>>], l.link.to))
  <2>1. PICK m : m = StepTo(OnlyPrev(l, <<"node", l.curr>>), l.link.to)
    OBVIOUS
  <2>2. pin' = SetPin21(pin, t, l.curr, l.link.to)
    BY Zenon, <1>11 DEF SetPin21
  <2>3. PICK p2 \in Pins : SetPin21(pin, t, l.curr, l.link.to) = SetPins(pin, t, p2) /\ p2[2] = l.curr /\ p2[1] = l.link.to
    <3>1. PICK c \in Nodes \cup {None} : c = l.curr
      BY LocalsFacts
    <3>2. PICK d \in Nodes \cup {None} : d = l.link.to
      BY LocalsFacts
    <3>3. pin \in [Threads -> Pins]
      BY DEF IInv
    <3>4. \E p2 \in Pins : SetPin21(pin, t, c, d) = SetPins(pin, t, p2) /\ p2[2] = c /\ p2[1] = d
      BY <3>3, Pin21Set
    <3>. QED BY Zenon, <3>1, <3>2, <3>4
  <2>4. m \in Locals /\ ThreadOK(t, s, m, p2) /\ m.node = l.node
    BY <1>3, <1>4, <1>6, <1>7, <1>11, <2>1, <2>3, JudgeGoesOn
  <2>5. th' = [th EXCEPT ![t] = m]
    BY Zenon, <1>11, <2>1 DEF Local, OnlyPrev
  <2>6. pin' = [pin EXCEPT ![t] = p2]
    BY <2>2, <2>3 DEF SetPins
  <2>. QED BY <1>1, <1>3, <1>5, <2>4, <2>5, <2>6, OwnStep, TableSame
<1>12. \/ Local(t, Retry(l)) /\ UNCHANGED pin
       \/ l.link.deleted /\ Go(t, "help") /\ UNCHANGED pin
       \/ /\ Read(l.prev) = LinkTo(l.curr) /\ ~l.link.deleted /\ Reached(l)
          /\ Local(t, IF Equal(l) THEN Found(l) ELSE Missing(l)) /\ UNCHANGED pin
       \/ /\ Read(l.prev) = LinkTo(l.curr) /\ ~l.link.deleted /\ ~Reached(l)
          /\ pin' = [pin EXCEPT ![t][2] = l.curr, ![t][1] = l.link.to]
          /\ Local(t, StepTo([l EXCEPT !.prev = <<"node", l.curr>>], l.link.to))
  BY Zenon, <1>1 DEF Judge
<1>. QED BY <1>8, <1>9, <1>10, <1>11, <1>12

\* The next state of the list and the table has the types it should have.
LEMMA TypedNext ==
  ASSUME IInv, link' \in Links, hashnr' \in [Nodes -> Nat], key' \in [Nodes -> Keys \cup {DummyKey}],
         bucket' \in [Buckets -> Nodes \cup {None}], pool' \subseteq Elements, freed' \subseteq Elements
  PROVE  Typed(World')
BY WorldNext DEF Typed

LEMMA TypedNow ==
  ASSUME IInv
  PROVE  /\ link \in Links /\ hashnr \in [Nodes -> Nat] /\ key \in [Nodes -> Keys \cup {DummyKey}]
         /\ bucket \in [Buckets -> Nodes \cup {None}] /\ pool \subseteq Elements /\ freed \subseteq Elements
BY WorldIs DEF IInv, IsWorld, Typed

LEMMA LinkToIs == \A n \in Nodes \cup {None} : LinkTo(n) \in [to : Nodes \cup {None}, deleted : BOOLEAN]
BY DEF LinkTo

LEMMA TakenOutNext ==
  ASSUME IInv, NEW q \in Nodes, NEW c \in Elements, NEW n \in Nodes \cup {None}, Follow(<<"node", q>>, n),
         FreeElement(c), hashnr' = hashnr, pool' = pool
  PROVE  Typed(World') /\ TakenOut(World, World', q, c, n)
<1>1. link' = [link EXCEPT ![q] = LinkTo(n)] /\ bucket' = bucket
  BY DEF Follow
<1>2. freed' = freed \cup {c} /\ key' = [key EXCEPT ![c] = DummyKey]
  BY DEF FreeElement
<1>3. c \in Nodes
  BY DEF Nodes
<1>4. link' \in Links
  <2>1. LinkTo(n) \in [to : Nodes \cup {None}, deleted : BOOLEAN]
    BY LinkToIs
  <2>. QED BY <1>1, <2>1, TypedNow DEF Links
<1>5. key' \in [Nodes -> Keys \cup {DummyKey}]
  BY <1>2, TypedNow
<1>6. Typed(World')
  BY <1>1, <1>2, <1>4, <1>5, TypedNow, TypedNext
<1>7. link'[q] = LinkTo(n) /\ \A m \in Nodes : m # q => link'[m] = link[m]
  BY <1>1, TypedNow DEF Links
<1>8. \A m \in Nodes : m # c => key'[m] = key[m]
  BY <1>2, TypedNow
<1>9. TakenOut(World, World', q, c, n)
  BY <1>1, <1>2, <1>7, <1>8, WorldIs, WorldNext DEF TakenOut
<1>. QED BY <1>6, <1>9

LEMMA MarkedIsElement ==
  ASSUME NEW s, IsWorld(s), WorldOK(s), NEW c \in s.list, s.link[c].deleted
  PROVE  c \in Elements
BY DEF IsWorld, WorldOK, KeysOK, Nodes

LEMMA HelpRemoveKeeps ==
  ASSUME IInv, NEW t \in Threads, HelpRemove(t)
  PROVE  IInv'
<1>1. PICK l \in Locals : l = th[t]
  BY Known
<1>2. PICK p \in Pins : p = pin[t] /\ pin = [pin EXCEPT ![t] = p]
  BY Known
<1>3. PICK s : s = World /\ IsWorld(s) /\ WorldOK(s) /\ ThreadOK(t, s, l, p)
  BY Known, <1>1, <1>2
<1>4. l.at = "help"
  BY <1>1 DEF HelpRemove, At
<1>5. Read(l.prev) = ReadIn(s, l.prev)
  BY <1>3, ReadSame
<1>6. hashnr' = hashnr /\ size' = size /\ count' = count /\ pool' = pool /\ script' = script
  BY DEF HelpRemove
<1>7. CASE Read(l.prev) # LinkTo(l.curr)
  <2>1. Local(t, Retry(l)) /\ UNCHANGED <<link, bucket, freed, key, pin>>
    BY Zenon, <1>1, <1>7 DEF HelpRemove
  <2>2. PICK m : m = Retry(l)
    OBVIOUS
  <2>3. m \in Locals /\ ThreadOK(t, s, m, p) /\ m.node = l.node
    <3>1. l.at \in Searching /\ ControlOK(t, s, l)
      BY <1>3, <1>4 DEF ThreadOK, Searching
    <3>. QED BY <2>2, <3>1, RetryStep
  <2>4. th' = [th EXCEPT ![t] = m]
    BY Zenon, <2>1, <2>2 DEF Local
  <2>5. World' = World
    BY <1>6, <2>1, WorldSame DEF list, memory
  <2>. QED BY <1>1, <1>2, <1>3, <1>6, <2>1, <2>3, <2>4, <2>5, OwnStep, TableSame
<1>8. CASE Read(l.prev) = LinkTo(l.curr)
  <2>1. /\ Follow(l.prev, l.link.to) /\ FreeElement(l.curr) /\ pin' = [pin EXCEPT ![t][1] = l.link.to]
        /\ Local(t, StepTo(l, l.link.to))
    BY Zenon, <1>1, <1>8 DEF HelpRemove
  <2>2. /\ l.prev[1] = "node" /\ l.prev[2] \in s.list /\ l.curr \in s.list
        /\ s.link[l.prev[2]] = LinkTo(l.curr) /\ s.link[l.curr].deleted /\ s.link[l.curr].to = l.link.to
    BY <1>3, <1>4, <1>5, <1>8, RemoveFacts
  <2>3. l.prev[2] \in Nodes /\ l.curr \in Elements /\ l.prev = <<"node", l.prev[2]>> /\ l.link.to \in Nodes \cup {None}
    BY <1>3, <2>2, MarkedIsElement, LocalsFacts
  <2>4. PICK q \in Nodes : q = l.prev[2]
    BY <2>3
  <2>5. PICK s2 : s2 = World' /\ Typed(s2) /\ TakenOut(s, s2, q, l.curr, l.link.to)
    <3>1. Follow(<<"node", q>>, l.link.to)
      BY Zenon, <2>1, <2>3, <2>4
    <3>. QED BY <1>3, <1>6, <2>1, <2>3, <3>1, TakenOutNext
  <2>6. \A u \in Threads, m \in Locals, k \in Pins : ThreadOK(u, s, m, k) =>
            /\ IsWorld(s2) /\ WorldOK(s2) /\ s2.list = s.list \ {l.curr} /\ ThreadOK(u, s2, m, k)
    <3>1. q \in s.list /\ s.link[q] = LinkTo(l.curr) /\ TakenOut(s, s2, q, l.curr, s.link[l.curr].to)
      BY Zenon, <2>2, <2>4, <2>5
    <3>. QED BY <1>3, <2>2, <2>5, <3>1, TakeOut
  <2>7. PICK p2 \in Pins : pin' = SetPins(pin, t, p2) /\ p2[1] = l.link.to /\ p2[2] = p[2]
    <3>1. pin' = SetPin1(pin, t, l.link.to) /\ pin \in [Threads -> Pins]
      BY <2>1 DEF SetPin1, IInv
    <3>2. PICK p2 \in Pins : SetPin1(pin, t, l.link.to) = SetPins(pin, t, p2) /\ p2[1] = l.link.to /\ p2[2] = pin[t][2]
      BY <2>3, <3>1, Pin1Set
    <3>. QED BY <1>2, <3>1, <3>2
  <2>8. PICK m : m = StepTo(l, l.link.to)
    OBVIOUS
  <2>9. m \in Locals /\ ThreadOK(t, s2, m, p2) /\ m.node = l.node
    <3>1. TakenOut(s, s2, l.prev[2], l.curr, l.link.to)
      BY Zenon, <2>4, <2>5
    <3>2. ReadIn(s, l.prev) = LinkTo(l.curr)
      BY Zenon, <1>5, <1>8
    <3>. QED BY <1>3, <1>4, <2>5, <2>7, <2>8, <3>1, <3>2, HelpStep
  <2>10. th' = [th EXCEPT ![t] = m] /\ pin' = [pin EXCEPT ![t] = p2]
    BY Zenon, <2>1, <2>7, <2>8 DEF Local, SetPins
  <2>11. IsWorld(s2) /\ WorldOK(s2) /\ s2.list = s.list \ {l.curr}
    BY <1>3, <2>6
  <2>12. \A u \in Threads : u # t => ThreadOK(u, s2, th[u], pin[u])
    BY <1>3, <2>6 DEF IInv
  <2>13. HandsOK(s2, th')
    <3>1. \A u \in Threads : th'[u].node = th[u].node
      BY <1>1, <2>9, <2>10 DEF IInv
    <3>2. s2.freed = s.freed \cup {l.curr} /\ s2.pool = s.pool
      BY <2>5 DEF TakenOut
    <3>3. Place(s) \cap Elements \subseteq Place(s2)
      BY <2>11, <3>2 DEF Place
    <3>. QED BY <1>3, <3>1, <3>3, HandsKeep DEF IInv
  <2>. QED BY <1>6, <2>5, <2>9, <2>10, <2>11, <2>12, <2>13, Assemble, TableSame
<1>. QED BY <1>7, <1>8
\* Who has no node to insert any more.
LEMMA NoNode ==
  ASSUME NEW s, NEW t, NEW l, NEW p, ThreadOK(t, s, l, p), l.at \notin Before
  PROVE  l.node = None
BY DEF ThreadOK, ControlOK, HandOK

LEMMA NoPinsIs == NoPins \in Pins
BY DEF NoPins, Pins

Pin2(c) == [NoPins EXCEPT ![2] = c]
LEMMA Pin2Is ==
  ASSUME NEW c \in Nodes \cup {None}
  PROVE  Pin2(c) \in Pins /\ Pin2(c)[2] = c
<1>1. PICK q \in Pins : q = NoPins
  BY NoPinsIs
<1>2. [q EXCEPT ![2] = c] \in Pins /\ [q EXCEPT ![2] = c][2] = c
  BY DEF Pins
<1>. QED BY Zenon, <1>1, <1>2 DEF Pin2

\* The call returns.
LEMMA ReturnKeeps ==
  ASSUME IInv, NEW t \in Threads, th[t].at \in {"add", "double", "missing", "uncount", "using"},
         Done(t), World' = World, NEW p2 \in Pins, pin' = [pin EXCEPT ![t] = p2],
         SizeOK(size'), count' \in Int, script' = script
  PROVE  IInv'
<1>1. PICK l \in Locals : l = th[t]
  BY Known
<1>2. PICK p \in Pins : p = pin[t]
  BY Known
<1>3. PICK s : s = World /\ ThreadOK(t, s, l, p)
  BY Known, <1>1, <1>2
<1>4. l.at # "install" /\ l.at \notin Before
  BY <1>1 DEF Before, Searching
<1>5. PICK m \in Locals : m = Idle /\ m.node = None
  BY IdleIs
<1>6. ThreadOK(t, s, m, p2) /\ m.node = l.node
  BY <1>3, <1>4, <1>5, DoneStep, NoNode
<1>7. th' = [th EXCEPT ![t] = m]
  BY Zenon, <1>5 DEF Done
<1>8. script' \in [Threads -> Calls]
  BY DEF IInv
<1>. QED BY <1>1, <1>3, <1>6, <1>7, <1>8, OwnStep

LEMMA AddKeeps ==
  ASSUME IInv, NEW t \in Threads, Add(t)
  PROVE  IInv'
<1>1. PICK l \in Locals : l = th[t]
  BY Known
<1>2. PICK p \in Pins : p = pin[t] /\ pin = [pin EXCEPT ![t] = p]
  BY Known
<1>3. PICK s : s = World /\ ThreadOK(t, s, l, p)
  BY Known, <1>1, <1>2
<1>4. l.at = "add" /\ th[t].at = "add"
  BY <1>1 DEF Add, At
<1>5. World' = World /\ pin' = pin /\ SizeOK(size') /\ script' = script
  BY WorldSame DEF Add, memory, IInv
<1>6. count' \in Int /\ script' \in [Threads -> Calls]
  BY <1>5 DEF Add, IInv
<1>7. CASE Done(t)
  BY <1>2, <1>4, <1>5, <1>6, <1>7, ReturnKeeps
<1>8. CASE Go(t, "double")
  <2>1. PICK m : m = OnlyAt(l, "double")
    OBVIOUS
  <2>2. m \in Locals /\ m.at = "double" /\ SameCall(l, m)
    BY <2>1, SetAt DEF Labels
  <2>3. ThreadOK(t, s, m, p) /\ m.node = l.node
    BY <1>3, <1>4, <2>2, CountStep
  <2>4. th' = [th EXCEPT ![t] = m]
    BY Zenon, <1>1, <1>8, <2>1 DEF Go, Local, OnlyAt
  <2>. QED BY <1>1, <1>2, <1>3, <1>5, <1>6, <2>2, <2>3, <2>4, OwnStep
<1>. QED BY <1>7, <1>8 DEF Add

LEMMA ReadSizeAgainKeeps ==
  ASSUME IInv, NEW t \in Threads, ReadSizeAgain(t)
  PROVE  IInv'
<1>1. PICK l \in Locals : l = th[t]
  BY Known
<1>2. PICK p \in Pins : p = pin[t] /\ pin = [pin EXCEPT ![t] = p]
  BY Known
<1>3. PICK s : s = World /\ ThreadOK(t, s, l, p)
  BY Known, <1>1, <1>2
<1>4. l.at = "count"
  BY <1>1 DEF ReadSizeAgain, At
<1>5. PICK m : m = WithSize(l, "add", size)
  OBVIOUS
<1>6. m \in Locals /\ m.at = "add" /\ SameCall(l, m)
  <2>1. size \in Nat
    BY DEF IInv, SizeOK
  <2>. QED BY <1>5, <2>1, AtSize DEF Labels
<1>7. ThreadOK(t, s, m, p) /\ m.node = l.node
  BY <1>3, <1>4, <1>6, CountStep
<1>8. th' = [th EXCEPT ![t] = m]
  BY Zenon, <1>1, <1>5 DEF ReadSizeAgain, Local, WithSize
<1>9. World' = World /\ pin' = pin /\ size' = size /\ count' = count /\ script' = script
  BY WorldSame DEF ReadSizeAgain, table
<1>. QED BY <1>1, <1>2, <1>3, <1>6, <1>7, <1>8, <1>9, OwnStep, TableSame

LEMMA DoubleKeeps ==
  ASSUME IInv, NEW t \in Threads, Double(t)
  PROVE  IInv'
<1>1. PICK p \in Pins : p = pin[t] /\ pin = [pin EXCEPT ![t] = p]
  BY Known
<1>2. th[t].at = "double" /\ Done(t) /\ pin' = pin /\ count' = count /\ script' = script /\ World' = World
  BY WorldSame DEF Double, At, memory
<1>3. SizeOK(size')
  <2>1. SizeOK(size)
    BY DEF IInv
  <2>2. CASE size = th[t].size
    <3>1. size' = 2 * size /\ 2 * size <= MaxSize
      BY <2>2 DEF Double
    <3>. QED BY <2>1, <3>1, DoubleSize
  <2>3. CASE size # th[t].size
    BY <2>1, <2>3 DEF Double
  <2>. QED BY <2>2, <2>3
<1>4. count' \in Int
  BY <1>2 DEF IInv
<1>. QED BY <1>1, <1>2, <1>3, <1>4, ReturnKeeps

LEMMA NotFoundKeeps ==
  ASSUME IInv, NEW t \in Threads, NotFound(t)
  PROVE  IInv'
<1>1. PICK p2 \in Pins : p2 = NoPins
  BY NoPinsIs
<1>2. th[t].at = "missing" /\ Done(t) /\ pin' = [pin EXCEPT ![t] = p2]
  BY <1>1 DEF NotFound, At
<1>3. World' = World /\ size' = size /\ count' = count /\ script' = script
  BY WorldSame DEF NotFound, table
<1>. QED BY <1>2, <1>3, ReturnKeeps, TableSame

LEMMA UncountKeeps ==
  ASSUME IInv, NEW t \in Threads, Uncount(t)
  PROVE  IInv'
<1>1. PICK p2 \in Pins : p2 = NoPins
  BY NoPinsIs
<1>2. th[t].at = "uncount" /\ Done(t) /\ pin' = [pin EXCEPT ![t] = p2]
  BY <1>1 DEF Uncount, At
<1>3. World' = World /\ SizeOK(size') /\ count' \in Int /\ script' = script
  BY WorldSame DEF Uncount, memory, IInv
<1>. QED BY <1>2, <1>3, ReturnKeeps

LEMMA SearchUnpinKeeps ==
  ASSUME IInv, NEW t \in Threads, SearchUnpin(t)
  PROVE  IInv'
<1>1. PICK p2 \in Pins : p2 = NoPins
  BY NoPinsIs
<1>2. th[t].at = "using" /\ Done(t) /\ pin' = [pin EXCEPT ![t] = p2]
  BY <1>1 DEF SearchUnpin, At
<1>3. World' = World /\ size' = size /\ count' = count /\ script' = script
  BY WorldSame DEF SearchUnpin, table
<1>. QED BY <1>2, <1>3, ReturnKeeps, TableSame

LEMMA SearchReturnsKeeps ==
  ASSUME IInv, NEW t \in Threads, SearchReturns(t)
  PROVE  IInv'
<1>1. PICK l \in Locals : l = th[t]
  BY Known
<1>2. PICK p \in Pins : p = pin[t]
  BY Known
<1>3. PICK s : s = World /\ ThreadOK(t, s, l, p)
  BY Known, <1>1, <1>2
<1>4. PICK c \in Nodes \cup {None} : c = l.curr
  BY LocalsFacts
<1>5. PICK p2 \in Pins : p2 = Pin2(c) /\ p2[2] = c
  BY Pin2Is
<1>6. pin' = [pin EXCEPT ![t] = p2]
  BY Zenon, <1>1, <1>4, <1>5 DEF SearchReturns, Pin2
<1>7. l.at = "found"
  BY <1>1 DEF SearchReturns, At
<1>8. PICK m : m = OnlyAt(l, "using")
  OBVIOUS
<1>9. m \in Locals /\ ThreadOK(t, s, m, p2) /\ m.node = l.node
  BY <1>3, <1>4, <1>5, <1>7, <1>8, UsingStep
<1>10. th' = [th EXCEPT ![t] = m]
  BY Zenon, <1>1, <1>8 DEF SearchReturns, Go, Local, OnlyAt
<1>11. World' = World /\ size' = size /\ count' = count /\ script' = script
  BY WorldSame DEF SearchReturns, table
<1>. QED BY <1>1, <1>3, <1>6, <1>9, <1>10, <1>11, OwnStep, TableSame

LEMMA SpinMatchKeeps ==
  ASSUME IInv, NEW t \in Threads, SpinMatch(t)
  PROVE  IInv'
<1>1. PICK l \in Locals : l = th[t] /\ th = [th EXCEPT ![t] = l]
  BY Known DEF IInv
<1>2. PICK p \in Pins : p = pin[t]
  BY Known
<1>3. PICK s : s = World /\ ThreadOK(t, s, l, p)
  BY Known, <1>1, <1>2
<1>4. PICK c \in Nodes \cup {None} : c = bucket[l.head]
  <2>1. bucket \in [Buckets -> Nodes \cup {None}] /\ l.head \in Buckets
    BY LocalsFacts, TypedNow
  <2>. QED BY <2>1
<1>5. PICK p2 \in Pins : pin' = [pin EXCEPT ![t] = p2]
  <2>1. pin \in [Threads -> Pins]
    BY DEF IInv
  <2>2. pin' = SetPin1(pin, t, c)
    BY Zenon, <1>1, <1>4 DEF SpinMatch, SetPin1
  <2>3. PICK p2 \in Pins : SetPin1(pin, t, c) = SetPins(pin, t, p2)
    BY <2>1, Pin1Set
  <2>. QED BY <2>2, <2>3 DEF SetPins
<1>6. ThreadOK(t, s, l, p2)
  <2>1. l.at = "spin"
    BY <1>1 DEF SpinMatch, At
  <2>2. CursorOK(s, l, p2)
    BY <2>1 DEF CursorOK, Searching
  <2>. QED BY <1>3, <2>2 DEF ThreadOK
<1>7. World' = World /\ th' = th /\ size' = size /\ count' = count /\ script' = script
  BY WorldSame DEF SpinMatch, table
<1>. QED BY <1>1, <1>3, <1>5, <1>6, <1>7, OwnStep, TableSame

LEMMA ReadSizeKeeps ==
  ASSUME IInv, NEW t \in Threads, ReadSize(t)
  PROVE  IInv'
<1>1. PICK l \in Locals : l = th[t]
  BY Known
<1>2. PICK p \in Pins : p = pin[t] /\ pin = [pin EXCEPT ![t] = p]
  BY Known
<1>3. PICK s : s = World /\ ThreadOK(t, s, l, p)
  BY Known, <1>1, <1>2
<1>4. l.at = "hash"
  BY <1>1 DEF ReadSize, At
<1>5. PICK b \in Buckets : b = Hash[l.key] % size /\ ReverseBits(b) < SplitHash(l.key)
  <2>1. l.key \in Keys /\ SizeOK(size)
    BY LocalsFacts DEF IInv
  <2>2. PICK k \in Keys : k = l.key
    BY <2>1
  <2>3. Hash[k] % size \in Buckets /\ ReverseBits(Hash[k] % size) < SplitHash(k)
    BY <2>1, BucketOfKey
  <2>. QED BY <2>2, <2>3
<1>6. PICK m : m = WithBucket(l, "slot", b)
  OBVIOUS
<1>7. m \in Locals /\ ThreadOK(t, s, m, p) /\ m.node = l.node
  BY <1>3, <1>4, <1>5, <1>6, SlotStep
<1>8. th' = [th EXCEPT ![t] = m]
  BY Zenon, <1>1, <1>5, <1>6 DEF ReadSize, Local, WithBucket
<1>9. World' = World /\ pin' = pin /\ size' = size /\ count' = count /\ script' = script
  BY WorldSame DEF ReadSize, table
<1>. QED BY <1>1, <1>2, <1>3, <1>7, <1>8, <1>9, OwnStep, TableSame
SetMark(lk, n) == [lk EXCEPT ![n].deleted = TRUE]
LEMMA MarkSet ==
  ASSUME NEW lk \in Links, NEW n \in Nodes
  PROVE  /\ SetMark(lk, n) \in Links /\ SetMark(lk, n)[n] = [to |-> lk[n].to, deleted |-> TRUE]
         /\ \A m \in Nodes : m # n => SetMark(lk, n)[m] = lk[m]
<1>1. lk[n] \in [to : Nodes \cup {None}, deleted : BOOLEAN]
  BY DEF Links
<1>2. PICK k \in [to : Nodes \cup {None}, deleted : BOOLEAN] : k = [lk[n] EXCEPT !.deleted = TRUE]
  BY <1>1
<1>3. k = [to |-> lk[n].to, deleted |-> TRUE]
  BY <1>1, <1>2
<1>4. SetMark(lk, n) = [lk EXCEPT ![n] = k]
  BY <1>2 DEF SetMark
<1>. QED BY <1>3, <1>4 DEF Links

LEMMA MarkKeeps ==
  ASSUME IInv, NEW t \in Threads, Mark(t)
  PROVE  IInv'
<1>1. PICK l \in Locals : l = th[t]
  BY Known
<1>2. PICK p \in Pins : p = pin[t] /\ pin = [pin EXCEPT ![t] = p]
  BY Known
<1>3. PICK s : s = World /\ IsWorld(s) /\ WorldOK(s) /\ ThreadOK(t, s, l, p)
  BY Known, <1>1, <1>2
<1>4. l.at = "mark"
  BY <1>1 DEF Mark, At
<1>5. /\ hashnr' = hashnr /\ key' = key /\ bucket' = bucket /\ size' = size /\ count' = count
      /\ pool' = pool /\ freed' = freed /\ pin' = pin /\ script' = script
  BY DEF Mark, table, memory
<1>6. CASE link[l.curr] # l.link
  <2>1. Local(t, Retry(l)) /\ link' = link
    BY Zenon, <1>1, <1>6 DEF Mark
  <2>2. PICK m : m = Retry(l)
    OBVIOUS
  <2>3. m \in Locals /\ ThreadOK(t, s, m, p) /\ m.node = l.node
    <3>1. l.at \in Searching /\ ControlOK(t, s, l)
      BY <1>3, <1>4 DEF ThreadOK, Searching
    <3>. QED BY <2>2, <3>1, RetryStep
  <2>4. th' = [th EXCEPT ![t] = m]
    BY Zenon, <2>1, <2>2 DEF Local
  <2>5. World' = World
    BY <1>5, <2>1, WorldSame DEF list, memory
  <2>. QED BY <1>1, <1>2, <1>3, <1>5, <2>3, <2>4, <2>5, OwnStep, TableSame
<1>7. CASE link[l.curr] = l.link
  <2>1. link' = SetMark(link, l.curr) /\ Go(t, "unlink")
    BY Zenon, <1>1, <1>7 DEF Mark, SetMark
  <2>2. PICK c \in Nodes : c = l.curr
    <3>1. l.curr # None
      BY <1>3, <1>4 DEF ThreadOK, CursorOK, CurrOK
    <3>. QED BY <3>1, LocalsFacts
  <2>3. PICK s2 : s2 = World' /\ Typed(s2)
    <3>1. SetMark(link, c) \in Links
      BY TypedNow, MarkSet
    <3>2. link' \in Links
      BY Zenon, <2>1, <2>2, <3>1
    <3>. QED BY <1>5, <3>2, TypedNow, TypedNext
  <2>4. s2.link[c] = [to |-> s.link[c].to, deleted |-> TRUE] /\ \A m \in Nodes : m # c => s2.link[m] = s.link[m]
    <3>1. PICK lk \in Links : lk = link
      BY TypedNow
    <3>2. s.link = lk /\ s2.link = SetMark(lk, c)
      BY Zenon, <1>3, <2>1, <2>2, <2>3, <3>1, WorldIs, WorldNext
    <3>3. /\ SetMark(lk, c)[c] = [to |-> lk[c].to, deleted |-> TRUE]
          /\ \A m \in Nodes : m # c => SetMark(lk, c)[m] = lk[m]
      BY MarkSet
    <3>. QED BY Zenon, <3>2, <3>3
  <2>5. s.link[l.curr] = l.link /\ s.link[c].to = l.link.to
    BY <1>3, <1>7, <2>2, WorldIs
  <2>6. /\ s2.link[l.curr] = [to |-> l.link.to, deleted |-> TRUE]
        /\ \A m \in Nodes : m # l.curr => s2.link[m] = s.link[m]
    BY Zenon, <2>2, <2>4, <2>5
  <2>7. /\ s2.hashnr = s.hashnr /\ s2.key = s.key /\ s2.bucket = s.bucket /\ s2.pool = s.pool /\ s2.freed = s.freed
        /\ s2.list = ListFrom(s2.link, s2.bucket[0])
    BY <1>3, <1>5, <2>3, WorldIs, WorldNext
  <2>8. PICK m : m = OnlyAt(l, "unlink")
    OBVIOUS
  <2>9. /\ IsWorld(s2) /\ WorldOK(s2) /\ s2.list = s.list
        /\ \A u \in Threads, w \in Locals, q \in Pins : ThreadOK(u, s, w, q) => ThreadOK(u, s2, w, q)
        /\ m \in Locals /\ ThreadOK(t, s2, m, p) /\ m.node = l.node
    BY <1>3, <1>4, <2>3, <2>5, <2>6, <2>7, <2>8, MarkStep
  <2>10. th' = [th EXCEPT ![t] = m]
    BY Zenon, <1>1, <2>1, <2>8 DEF Go, Local, OnlyAt
  <2>11. \A u \in Threads : u # t => ThreadOK(u, s2, th[u], pin[u])
    BY <1>3, <2>9 DEF IInv
  <2>12. HandsOK(s2, th')
    <3>1. \A u \in Threads : th'[u].node = th[u].node
      BY <1>1, <2>9, <2>10 DEF IInv
    <3>2. Place(s) \cap Elements \subseteq Place(s2)
      BY <2>7, <2>9 DEF Place
    <3>. QED BY <1>3, <3>1, <3>2, HandsKeep DEF IInv
  <2>. QED BY <1>2, <1>5, <2>3, <2>9, <2>10, <2>11, <2>12, Assemble, TableSame
<1>. QED BY <1>6, <1>7

LEMMA UnlinkKeeps ==
  ASSUME IInv, NEW t \in Threads, Unlink(t)
  PROVE  IInv'
<1>1. PICK l \in Locals : l = th[t]
  BY Known
<1>2. PICK p \in Pins : p = pin[t] /\ pin = [pin EXCEPT ![t] = p]
  BY Known
<1>3. PICK s : s = World /\ IsWorld(s) /\ WorldOK(s) /\ ThreadOK(t, s, l, p)
  BY Known, <1>1, <1>2
<1>4. l.at = "unlink"
  BY <1>1 DEF Unlink, At
<1>5. Read(l.prev) = ReadIn(s, l.prev)
  BY <1>3, ReadSame
<1>6. hashnr' = hashnr /\ size' = size /\ count' = count /\ pool' = pool /\ script' = script /\ pin' = pin
  BY DEF Unlink
<1>7. CASE Read(l.prev) # LinkTo(l.curr)
  <2>1. Local(t, Find(l, l.head, l.hash, l.search, "cleanup")) /\ UNCHANGED <<link, bucket, freed, key>>
    BY Zenon, <1>1, <1>7 DEF Unlink
  <2>2. PICK m : m = Find(l, l.head, l.hash, l.search, "cleanup")
    OBVIOUS
  <2>3. m \in Locals /\ ThreadOK(t, s, m, p) /\ m.node = l.node
    BY <1>3, <1>4, <2>2, CleanupStep
  <2>4. th' = [th EXCEPT ![t] = m]
    BY Zenon, <2>1, <2>2 DEF Local
  <2>5. World' = World
    BY <1>6, <2>1, WorldSame DEF list, memory
  <2>. QED BY <1>1, <1>2, <1>3, <1>6, <2>3, <2>4, <2>5, OwnStep, TableSame
<1>8. CASE Read(l.prev) = LinkTo(l.curr)
  <2>1. Follow(l.prev, l.link.to) /\ FreeElement(l.curr) /\ Go(t, "uncount")
    BY Zenon, <1>1, <1>8 DEF Unlink
  <2>2. /\ l.prev[1] = "node" /\ l.prev[2] \in s.list /\ l.curr \in s.list
        /\ s.link[l.prev[2]] = LinkTo(l.curr) /\ s.link[l.curr].deleted /\ s.link[l.curr].to = l.link.to
    BY <1>3, <1>4, <1>5, <1>8, RemoveFacts
  <2>3. l.prev[2] \in Nodes /\ l.curr \in Elements /\ l.prev = <<"node", l.prev[2]>> /\ l.link.to \in Nodes \cup {None}
    BY <1>3, <2>2, MarkedIsElement, LocalsFacts
  <2>4. PICK q \in Nodes : q = l.prev[2]
    BY <2>3
  <2>5. PICK s2 : s2 = World' /\ Typed(s2) /\ TakenOut(s, s2, q, l.curr, l.link.to)
    <3>1. Follow(<<"node", q>>, l.link.to)
      BY Zenon, <2>1, <2>3, <2>4
    <3>. QED BY <1>3, <1>6, <2>1, <2>3, <3>1, TakenOutNext
  <2>6. \A u \in Threads, m \in Locals, k \in Pins : ThreadOK(u, s, m, k) =>
            /\ IsWorld(s2) /\ WorldOK(s2) /\ s2.list = s.list \ {l.curr} /\ ThreadOK(u, s2, m, k)
    <3>1. q \in s.list /\ s.link[q] = LinkTo(l.curr) /\ TakenOut(s, s2, q, l.curr, s.link[l.curr].to)
      BY Zenon, <2>2, <2>4, <2>5
    <3>. QED BY <1>3, <2>2, <2>5, <3>1, TakeOut
  <2>7. IsWorld(s2) /\ WorldOK(s2) /\ s2.list = s.list \ {l.curr} /\ ThreadOK(t, s2, l, p)
    BY <1>3, <2>6
  <2>8. PICK m : m = OnlyAt(l, "uncount")
    OBVIOUS
  <2>9. m \in Locals /\ ThreadOK(t, s2, m, p) /\ m.node = l.node
    BY <1>4, <2>7, <2>8, UnlinkStep
  <2>10. th' = [th EXCEPT ![t] = m]
    BY Zenon, <1>1, <2>1, <2>8 DEF Go, Local, OnlyAt
  <2>11. \A u \in Threads : u # t => ThreadOK(u, s2, th[u], pin[u])
    BY <1>3, <2>6 DEF IInv
  <2>12. HandsOK(s2, th')
    <3>1. \A u \in Threads : th'[u].node = th[u].node
      BY <1>1, <2>9, <2>10 DEF IInv
    <3>2. s2.freed = s.freed \cup {l.curr} /\ s2.pool = s.pool
      BY <2>5 DEF TakenOut
    <3>3. Place(s) \cap Elements \subseteq Place(s2)
      BY <2>7, <3>2 DEF Place
    <3>. QED BY <1>3, <3>1, <3>3, HandsKeep DEF IInv
  <2>. QED BY <1>2, <1>6, <2>5, <2>7, <2>9, <2>10, <2>11, <2>12, Assemble, TableSame
<1>. QED BY <1>7, <1>8
LEMMA DuplicateKeeps ==
  ASSUME IInv, NEW t \in Threads, Duplicate(t)
  PROVE  IInv'
<1>1. PICK l \in Locals : l = th[t]
  BY Known
<1>2. PICK p \in Pins : p = pin[t]
  BY Known
<1>3. PICK s : s = World /\ IsWorld(s) /\ WorldOK(s) /\ ThreadOK(t, s, l, p)
  BY Known, <1>1, <1>2
<1>4. l.at = "duplicate"
  BY <1>1 DEF Duplicate, At
<1>5. PICK n \in Elements : n = l.node /\ n # None /\ n \notin s.pool \cup s.freed \cup s.list
  BY <1>3, <1>4 DEF ThreadOK, ControlOK, HandOK, OpOK, Before
<1>6. PICK p2 \in Pins : p2 = NoPins
  BY NoPinsIs
<1>7. PICK m \in Locals : m = Idle /\ m.node = None
  BY IdleIs
<1>8. freed' = freed \cup {n} /\ key' = [key EXCEPT ![n] = DummyKey]
  BY Zenon, <1>1, <1>5 DEF Duplicate, FreeElement
<1>9. /\ link' = link /\ hashnr' = hashnr /\ bucket' = bucket /\ size' = size /\ count' = count
      /\ pool' = pool /\ script' = script
  BY DEF Duplicate, table
<1>10. n \in Nodes
  BY DEF Nodes
<1>11. PICK s2 : s2 = World' /\ Typed(s2)
  BY <1>8, <1>9, <1>10, TypedNow, TypedNext
<1>12. /\ s2.hashnr = s.hashnr /\ s2.link = s.link /\ s2.bucket = s.bucket /\ s2.pool = s.pool
       /\ s2.freed = s.freed \cup {n} /\ s2.list = ListFrom(s2.link, s2.bucket[0])
       /\ \A x \in Nodes : x # n => s2.key[x] = s.key[x]
  <2>1. \A x \in Nodes : x # n => key'[x] = key[x]
    BY <1>8, TypedNow
  <2>. QED BY <1>3, <1>8, <1>9, <1>11, <2>1, WorldIs, WorldNext
<1>13. \A u \in Threads, w \in Locals, q \in Pins :
           ThreadOK(u, s, w, q) /\ (w.node # None => w.node # n) =>
               IsWorld(s2) /\ WorldOK(s2) /\ s2.list = s.list /\ ThreadOK(u, s2, w, q)
  BY <1>3, <1>5, <1>11, <1>12, FreedStep
<1>14. ThreadOK(t, s, m, p2)
  BY <1>3, <1>4, <1>7, DoneStep
<1>15. IsWorld(s2) /\ WorldOK(s2) /\ s2.list = s.list /\ ThreadOK(t, s2, m, p2)
  BY <1>7, <1>13, <1>14
<1>16. \A u \in Threads : u # t => ThreadOK(u, s2, th[u], pin[u])
  <2>1. TAKE u \in Threads
  <2>2. HAVE u # t
  <2>3. th[u] \in Locals /\ pin[u] \in Pins /\ ThreadOK(u, s, th[u], pin[u])
    BY <1>3 DEF IInv
  <2>4. th[u].node # None => th[u].node # n
    BY <1>1, <1>5, <2>2 DEF IInv, HandsOK
  <2>. QED BY <1>13, <2>3, <2>4
<1>17. th' = [th EXCEPT ![t] = m] /\ pin' = [pin EXCEPT ![t] = p2]
  BY Zenon, <1>6, <1>7 DEF Duplicate, Done
<1>18. HandsOK(s2, th')
  <2>1. (\A u \in Threads : u # t => th'[u].node = th[u].node) /\ th'[t].node = None
    BY <1>7, <1>17 DEF IInv
  <2>2. Place(s) \cap Elements \subseteq Place(s2) /\ n \in Place(s2)
    BY <1>12, <1>15 DEF Place
  <2>3. HandsOK(s, th) /\ th[t].node \in Place(s2)
    BY <1>1, <1>3, <1>5, <2>2 DEF IInv
  <2>. QED BY <2>1, <2>2, <2>3, HandsGive
<1>. QED BY <1>9, <1>11, <1>15, <1>16, <1>17, <1>18, Assemble, TableSame

LEMMA HeadAndTail ==
  ASSUME NEW A, NEW c \in Seq(A), c # <<>>
  PROVE  Head(c) \in A /\ Tail(c) \in Seq(A)
OBVIOUS

\* The next call, and what is left of the script.
LEMMA NextCall ==
  ASSUME NEW q \in [Threads -> Calls], NEW t \in Threads, q[t] # <<>>
  PROVE  Head(q[t]) \in [op : Ops, key : Keys] /\ [q EXCEPT ![t] = Tail(@)] \in [Threads -> Calls]
<1>1. PICK A : A = [op : Ops, key : Keys]
  OBVIOUS
<1>2. PICK c \in Seq(A) : c = q[t] /\ c # <<>>
  BY Zenon, <1>1 DEF Calls
<1>3. Head(c) \in A /\ Tail(c) \in Seq(A)
  BY <1>2, HeadAndTail
<1>4. Head(q[t]) \in [op : Ops, key : Keys] /\ Tail(q[t]) \in Calls
  BY Zenon, <1>1, <1>2, <1>3 DEF Calls
<1>. QED BY <1>4

LEMMA CallKeeps ==
  ASSUME IInv, NEW t \in Threads, Call(t)
  PROVE  IInv'
<1>1. PICK l \in Locals : l = th[t]
  BY Known
<1>2. PICK p \in Pins : p = pin[t] /\ pin = [pin EXCEPT ![t] = p]
  BY Known
<1>3. PICK s : s = World /\ IsWorld(s) /\ WorldOK(s) /\ ThreadOK(t, s, l, p)
  BY Known, <1>1, <1>2
<1>4. l.at = "idle" /\ l.node = None
  <2>1. l.at = "idle"
    BY <1>1 DEF Call, At
  <2>2. l.at \notin Before
    BY <2>1 DEF Before, Searching
  <2>. QED BY <1>3, <2>1, <2>2, NoNode
<1>5. PICK c \in [op : Ops, key : Keys] : c = Head(script[t])
  BY NextCall DEF Call, IInv
<1>6. script' \in [Threads -> Calls]
  BY NextCall DEF Call, IInv
<1>7. /\ link' = link /\ hashnr' = hashnr /\ bucket' = bucket /\ size' = size /\ count' = count
      /\ freed' = freed /\ pin' = pin
  BY DEF Call, table
<1>8. PICK k : k = WithCall(Idle, "hash", c.op, c.key)
  OBVIOUS
<1>9. k \in Locals /\ k.at = "hash" /\ k.op = c.op /\ k.key = c.key /\ k.node = None
  <2>1. PICK i \in Locals : i = Idle /\ i.node = None
    BY IdleIs
  <2>2. PICK o \in Ops : o = c.op
    OBVIOUS
  <2>3. PICK y \in Keys : y = c.key
    OBVIOUS
  <2>4. PICK a \in Labels : a = "hash"
    BY DEF Labels
  <2>5. k = WithCall(i, a, o, y)
    BY Zenon, <1>8, <2>1, <2>2, <2>3, <2>4
  <2>6. /\ k \in Locals /\ k.at = a /\ k.op = o /\ k.key = y /\ k.node = i.node
    <3>1. /\ WithCall(i, a, o, y) \in Locals /\ WithCall(i, a, o, y).at = a /\ WithCall(i, a, o, y).op = o
          /\ WithCall(i, a, o, y).key = y /\ WithCall(i, a, o, y).node = i.node
      BY AtCall
    <3>. QED BY Zenon, <2>5, <3>1
  <2>. QED BY <2>1, <2>2, <2>3, <2>4, <2>6
<1>10. CASE c.op = "insert"
  <2>1. PICK n \in pool : /\ pool' = pool \ {n} /\ key' = [key EXCEPT ![n] = c.key]
                          /\ th' = [th EXCEPT ![t] = OnlyNode(k, n)]
    BY Zenon, <1>5, <1>8, <1>10 DEF Call, Local, WithCall, OnlyNode
  <2>2. n \in Nodes /\ n \in Elements /\ n # None
    BY TypedNow, SplitListConstants DEF Nodes
  <2>3. PICK m : m = OnlyNode(k, n)
    OBVIOUS
  <2>4. m \in Locals /\ m.at = "hash" /\ m.op = "insert" /\ m.key = c.key /\ m.node = n
    BY <1>9, <1>10, <2>2, <2>3, SetNode
  <2>5. PICK s2 : s2 = World' /\ Typed(s2)
    BY <1>7, <2>1, <2>2, TypedNow, TypedNext
  <2>6. /\ s2.hashnr = s.hashnr /\ s2.link = s.link /\ s2.bucket = s.bucket /\ s2.pool = s.pool \ {n}
        /\ s2.freed = s.freed /\ s2.list = ListFrom(s2.link, s2.bucket[0])
        /\ (\A x \in Nodes : x # n => s2.key[x] = s.key[x]) /\ s2.key[n] = c.key
        /\ n \in s.pool
    <3>1. (\A x \in Nodes : x # n => key'[x] = key[x]) /\ key'[n] = c.key
      BY <2>1, <2>2, TypedNow
    <3>. QED BY <1>3, <1>7, <2>1, <2>5, <3>1, WorldIs, WorldNext
  <2>7. \A u \in Threads, w \in Locals, q \in Pins :
            ThreadOK(u, s, w, q) => IsWorld(s2) /\ WorldOK(s2) /\ s2.list = s.list /\ ThreadOK(u, s2, w, q)
    BY <1>3, <2>5, <2>6, TakenStep
  <2>8. IsWorld(s2) /\ WorldOK(s2) /\ s2.list = s.list /\ ThreadOK(t, s2, l, p)
    BY <1>3, <2>7
  <2>9. n \notin s2.pool \cup s2.freed \cup s2.list
    BY <1>3, <2>6, <2>8 DEF WorldOK, PlacesOK
  <2>10. ThreadOK(t, s2, m, p)
    BY <1>4, <2>2, <2>4, <2>6, <2>8, <2>9, CallStep DEF Ops
  <2>11. \A u \in Threads : u # t => ThreadOK(u, s2, th[u], pin[u])
    BY <1>3, <2>7 DEF IInv
  <2>12. th' = [th EXCEPT ![t] = m]
    BY <2>1, <2>3
  <2>13. HandsOK(s2, th')
    <3>1. (\A u \in Threads : u # t => th'[u].node = th[u].node) /\ th'[t].node = n /\ th[t].node = None
      BY <1>1, <1>4, <2>4, <2>12 DEF IInv
    <3>2. Place(s) \cap Elements \subseteq Place(s2) \cup {n} /\ n \in Place(s)
      BY <2>6, <2>8 DEF Place
    <3>3. HandsOK(s, th) /\ \A u \in Threads : th[u].node # None => th[u].node \notin Place(s)
      BY <1>3 DEF IInv, ThreadOK, ControlOK, HandOK, Place
    <3>. QED BY <2>2, <3>1, <3>2, <3>3, HandsTake
  <2>. QED BY <1>2, <1>6, <1>7, <2>4, <2>5, <2>8, <2>10, <2>11, <2>12, <2>13, Assemble DEF IInv
<1>11. CASE c.op # "insert"
  <2>1. th' = [th EXCEPT ![t] = k] /\ pool' = pool /\ key' = key
    BY Zenon, <1>5, <1>8, <1>11 DEF Call, Local, WithCall
  <2>2. World' = World
    BY <1>7, <2>1, WorldSame DEF list, memory
  <2>3. ThreadOK(t, s, k, p) /\ k.node = l.node
    BY <1>3, <1>4, <1>9, <1>11, CallStep
  <2>. QED BY <1>1, <1>2, <1>3, <1>6, <1>7, <1>9, <2>1, <2>2, <2>3, OwnStep DEF IInv
<1>. QED BY <1>10, <1>11

LEMMA ReclaimKeeps ==
  ASSUME IInv, Reclaim
  PROVE  IInv'
<1>1. PICK s : s = World /\ IsWorld(s) /\ WorldOK(s)
  BY DEF IInv
<1>2. PICK n \in freed : /\ \A t \in Threads : \A i \in 0 .. 2 : pin[t][i] # n
                         /\ freed' = freed \ {n} /\ pool' = pool \cup {n}
  BY DEF Reclaim
<1>3. /\ link' = link /\ hashnr' = hashnr /\ key' = key /\ bucket' = bucket /\ size' = size /\ count' = count
      /\ pin' = pin /\ th' = th /\ script' = script
  BY DEF Reclaim, list, table
<1>4. PICK s2 : s2 = World' /\ Typed(s2)
  BY <1>2, <1>3, TypedNow, TypedNext
<1>5. /\ s2.key = s.key /\ s2.hashnr = s.hashnr /\ s2.link = s.link /\ s2.bucket = s.bucket
      /\ s2.pool = s.pool \cup {n} /\ s2.freed = s.freed \ {n} /\ s2.list = ListFrom(s2.link, s2.bucket[0])
      /\ n \in s.freed
  BY <1>1, <1>2, <1>3, <1>4, WorldIs, WorldNext
<1>6. IsWorld(s2) /\ WorldOK(s2) /\ s2.list = s.list
  BY <1>1, <1>4, <1>5, ReclaimWorld
<1>7. \A u \in Threads, w \in Locals, q \in Pins :
          ThreadOK(u, s, w, q) /\ (\A i \in 0 .. 2 : q[i] # n) => ThreadOK(u, s2, w, q)
  BY <1>1, <1>4, <1>5, ReclaimStep
<1>8. \A u \in Threads : ThreadOK(u, s2, th[u], pin[u])
  BY <1>1, <1>2, <1>7 DEF IInv
<1>9. HandsOK(s2, th)
  <2>1. Place(s) \cap Elements \subseteq Place(s2)
    BY <1>5, <1>6 DEF Place
  <2>. QED BY <1>1, <2>1, HandsKeep DEF IInv
<1>. QED BY <1>3, <1>4, <1>6, <1>8, <1>9 DEF IInv
\* A thread moves, and gives a node that is not in the list its hash number.
LEMMA RenumberKeeps ==
  ASSUME IInv, NEW t \in Threads, NEW s, s = World, NEW s2, s2 = World', Typed(s2),
         NEW x, x \notin s.list, Renumbered(s, s2, x), x = th[t].node \/ \E b \in Buckets : x = <<b, t>>,
         NEW m \in Locals, th' = [th EXCEPT ![t] = m], NEW p2 \in Pins, pin' = [pin EXCEPT ![t] = p2],
         ThreadOK(t, s2, m, p2), m.node = th[t].node, UNCHANGED <<size, count, script>>
  PROVE  IInv'
<1>1. IsWorld(s) /\ WorldOK(s)
  BY DEF IInv
<1>2. /\ IsWorld(s2) /\ WorldOK(s2) /\ s2.list = s.list
      /\ \A u \in Threads, w \in Locals, q \in Pins :
             ThreadOK(u, s, w, q) /\ (\A b \in Buckets : <<b, u>> # x) /\ (w.node # None => w.node # x) =>
                 ThreadOK(u, s2, w, q)
  BY <1>1, RenumberStep
<1>3. \A u \in Threads : u # t => ThreadOK(u, s2, th[u], pin[u])
  <2>1. TAKE u \in Threads
  <2>2. HAVE u # t
  <2>3. th[u] \in Locals /\ pin[u] \in Pins /\ ThreadOK(u, s, th[u], pin[u])
    BY DEF IInv
  <2>4. th[t] \in Locals /\ ThreadOK(t, s, th[t], pin[t])
    BY DEF IInv
  <2>5. /\ th[u].node # None => th[u].node \in Elements
        /\ th[t].node # None => th[t].node \in Elements
    BY <2>3, <2>4 DEF ThreadOK, ControlOK, HandOK
  <2>6. /\ \A b \in Buckets, v \in Threads : <<b, v>> \in Dummies
        /\ Elements \cap Dummies = {} /\ None \notin Elements \cup Dummies
    BY SplitListConstants DEF Dummies, Nodes
  <2>7. \A b \in Buckets : <<b, u>> # x
    BY <2>2, <2>5, <2>6
  <2>8. th[u].node # None => th[u].node # x
    <3>1. th[u].node # None => th[u].node # th[t].node
      BY <2>2 DEF IInv, HandsOK
    <3>. QED BY <2>5, <2>6, <3>1
  <2>. QED BY <1>2, <2>3, <2>7, <2>8
<1>4. HandsOK(s2, th')
  <2>1. \A u \in Threads : th'[u].node = th[u].node
    BY DEF IInv
  <2>2. Place(s) \cap Elements \subseteq Place(s2)
    BY <1>2 DEF Renumbered, Place
  <2>. QED BY <2>1, <2>2, HandsKeep DEF IInv
<1>. QED BY <1>2, <1>3, <1>4, Assemble, TableSame

\* Its hash number is all that changes.
LEMMA RenumberedNext ==
  ASSUME IInv, NEW x \in Nodes, NEW v \in Nat, hashnr' = [hashnr EXCEPT ![x] = v],
         UNCHANGED <<link, key, pool, freed>>, bucket' \in [Buckets -> Nodes \cup {None}],
         \A b \in Buckets : \/ bucket'[b] = bucket[b]
                            \/ bucket[b] = None /\ bucket'[b] \in World.list \cap Dummies /\ bucket'[b][1] = b
  PROVE  Typed(World') /\ Renumbered(World, World', x) /\ World'.hashnr[x] = v
<1>1. hashnr' \in [Nodes -> Nat] /\ hashnr'[x] = v /\ \A m \in Nodes : m # x => hashnr'[m] = hashnr[m]
  BY TypedNow
<1>2. Typed(World')
  BY <1>1, TypedNow, TypedNext
<1>3. Renumbered(World, World', x)
  BY <1>1, WorldIs, WorldNext DEF Renumbered
<1>. QED BY <1>1, <1>2, <1>3, WorldNext

\* No hash number changes.
LEMMA BucketNext ==
  ASSUME IInv, NEW x, hashnr' = hashnr,
         UNCHANGED <<link, key, pool, freed>>, bucket' \in [Buckets -> Nodes \cup {None}],
         \A b \in Buckets : \/ bucket'[b] = bucket[b]
                            \/ bucket[b] = None /\ bucket'[b] \in World.list \cap Dummies /\ bucket'[b][1] = b
  PROVE  Typed(World') /\ Renumbered(World, World', x)
<1>1. Typed(World')
  BY TypedNow, TypedNext
<1>2. Renumbered(World, World', x)
  BY WorldIs, WorldNext DEF Renumbered
<1>. QED BY <1>1, <1>2

\* The element in the hand of a thread gets the hash number of its key.
LEMMA HandNumbered ==
  ASSUME IInv, NEW t \in Threads, NEW l \in Locals, l = th[t],
         hashnr' = IF l.node = None THEN hashnr ELSE [hashnr EXCEPT ![l.node] = SplitHash(l.key)],
         UNCHANGED <<link, key, pool, freed>>, bucket' \in [Buckets -> Nodes \cup {None}],
         \A b \in Buckets : \/ bucket'[b] = bucket[b]
                            \/ bucket[b] = None /\ bucket'[b] \in World.list \cap Dummies /\ bucket'[b][1] = b
  PROVE  /\ Typed(World') /\ Renumbered(World, World', l.node)
         /\ l.node # None => World'.hashnr[l.node] = SplitHash(l.key)
<1>1. PICK x \in Nodes \cup {None} : x = l.node
  BY LocalsFacts
<1>2. CASE x = None
  <2>1. hashnr' = hashnr
    BY <1>1, <1>2
  <2>2. Typed(World') /\ Renumbered(World, World', x)
    BY <2>1, BucketNext
  <2>. QED BY Zenon, <1>1, <1>2, <2>2
<1>3. CASE x # None
  <2>1. PICK v \in Nat : v = SplitHash(l.key)
    BY LocalsFacts, KeyHash
  <2>2. x \in Nodes /\ hashnr' = [hashnr EXCEPT ![x] = v]
    BY <1>1, <1>3, <2>1
  <2>3. Typed(World') /\ Renumbered(World, World', x) /\ World'.hashnr[x] = v
    BY <2>2, RenumberedNext
  <2>. QED BY Zenon, <1>1, <2>1, <2>3
<1>. QED BY <1>2, <1>3

LEMMA ReadSlotKeeps ==
  ASSUME IInv, NEW t \in Threads, ReadSlot(t)
  PROVE  IInv'
<1>1. PICK l \in Locals : l = th[t]
  BY Known
<1>2. PICK p \in Pins : p = pin[t] /\ pin = [pin EXCEPT ![t] = p]
  BY Known
<1>3. PICK s : s = World /\ IsWorld(s) /\ WorldOK(s) /\ ThreadOK(t, s, l, p) /\ s.bucket = bucket
  BY Known, WorldIs, <1>1, <1>2
<1>4. l.at = "slot"
  BY <1>1 DEF ReadSlot, At
<1>5. /\ link' = link /\ key' = key /\ bucket' = bucket /\ size' = size /\ count' = count
      /\ pool' = pool /\ freed' = freed /\ pin' = pin /\ script' = script
  BY DEF ReadSlot, table, memory
<1>6. CASE bucket[l.bucket] = None
  <2>1. Local(t, [l EXCEPT !.at = "parent", !.frames = <<l.bucket>>]) /\ hashnr' = hashnr
    BY Zenon, <1>1, <1>6 DEF ReadSlot
  <2>2. PICK m : m = WithFrames(l, "parent", <<l.bucket>>)
    OBVIOUS
  <2>3. m \in Locals /\ ThreadOK(t, s, m, p) /\ m.node = l.node
    BY <1>3, <1>4, <1>6, <2>2, NoSlotStep
  <2>4. th' = [th EXCEPT ![t] = m]
    BY Zenon, <2>1, <2>2 DEF Local, WithFrames
  <2>5. World' = World
    BY <1>5, <2>1, WorldSame DEF list, memory
  <2>. QED BY <1>1, <1>2, <1>3, <1>5, <2>3, <2>4, <2>5, OwnStep, TableSame
<1>7. CASE bucket[l.bucket] # None
  <2>1. /\ Local(t, Start(l, SplitHash(l.key)))
        /\ IF l.node # None THEN hashnr' = [hashnr EXCEPT ![l.node] = SplitHash(l.key)] ELSE UNCHANGED hashnr
    BY Zenon, <1>1, <1>7 DEF ReadSlot
  <2>2. hashnr' = IF l.node = None THEN hashnr ELSE [hashnr EXCEPT ![l.node] = SplitHash(l.key)]
    BY <2>1
  <2>3. PICK s2 : s2 = World' /\ Typed(s2) /\ Renumbered(s, s2, l.node) /\ s2.bucket = s.bucket
                  /\ (l.node # None => s2.hashnr[l.node] = SplitHash(l.key))
    <3>1. bucket' \in [Buckets -> Nodes \cup {None}]
      BY <1>5, TypedNow
    <3>2. \A b \in Buckets : bucket'[b] = bucket[b]
      BY <1>5
    <3>3. /\ Typed(World') /\ Renumbered(World, World', l.node)
          /\ l.node # None => World'.hashnr[l.node] = SplitHash(l.key)
      BY <1>1, <1>5, <2>2, <3>1, <3>2, HandNumbered
    <3>. QED BY <1>3, <1>5, <3>3, WorldNext
  <2>4. PICK m : m = Start(l, SplitHash(l.key))
    OBVIOUS
  <2>5. m \in Locals /\ ThreadOK(t, s2, m, p) /\ m.node = l.node
    BY <1>3, <1>4, <1>7, <2>3, <2>4, SlotFoundStep
  <2>6. th' = [th EXCEPT ![t] = m]
    BY Zenon, <2>1, <2>4 DEF Local
  <2>7. l.node \notin s.list
    BY <1>3, SplitListConstants DEF ThreadOK, ControlOK, HandOK, IsWorld
  <2>. QED BY <1>1, <1>2, <1>3, <1>5, <2>3, <2>5, <2>6, <2>7, RenumberKeeps
<1>. QED BY <1>6, <1>7

LEMMA ReadParentKeeps ==
  ASSUME IInv, NEW t \in Threads, ReadParent(t)
  PROVE  IInv'
<1>1. PICK l \in Locals : l = th[t]
  BY Known
<1>2. PICK p \in Pins : p = pin[t] /\ pin = [pin EXCEPT ![t] = p]
  BY Known
<1>3. PICK s : s = World /\ IsWorld(s) /\ WorldOK(s) /\ ThreadOK(t, s, l, p) /\ s.bucket = bucket
  BY Known, WorldIs, <1>1, <1>2
<1>4. l.at = "parent"
  BY <1>1 DEF ReadParent, At
<1>5. /\ link' = link /\ key' = key /\ bucket' = bucket /\ size' = size /\ count' = count
      /\ pool' = pool /\ freed' = freed /\ pin' = pin /\ script' = script
  BY DEF ReadParent, table, memory
<1>6. /\ l.frames # <<>> /\ \A i \in 1 .. Len(l.frames) : <<l.frames[i], t>> \notin s.list
  BY <1>3, <1>4, FramesLeftAt DEF FramesLeft
<1>7. PICK b \in Buckets : b = Head(l.frames) /\ <<b, t>> \notin s.list
  <2>1. l.frames \in Seq(Buckets)
    BY LocalsFacts
  <2>2. Head(l.frames) = l.frames[1] /\ Head(l.frames) \in Buckets /\ 1 \in 1 .. Len(l.frames)
    BY <1>6, <2>1, FramesFacts
  <2>. QED BY <1>6, <2>2
<1>8. CASE bucket[ClearHighestBit(b)] = None /\ b # 0
  <2>1. Local(t, [l EXCEPT !.frames = <<ClearHighestBit(b)>> \o l.frames]) /\ hashnr' = hashnr
    BY Zenon, <1>1, <1>7, <1>8 DEF ReadParent
  <2>2. PICK m : m = OnlyFrames(l, <<ClearHighestBit(b)>> \o l.frames)
    OBVIOUS
  <2>3. m \in Locals /\ ThreadOK(t, s, m, p) /\ m.node = l.node
    BY <1>3, <1>4, <1>7, <1>8, <2>2, PushStep
  <2>4. th' = [th EXCEPT ![t] = m]
    BY Zenon, <2>1, <2>2 DEF Local, OnlyFrames
  <2>5. World' = World
    BY <1>5, <2>1, WorldSame DEF list, memory
  <2>. QED BY <1>1, <1>2, <1>3, <1>5, <2>3, <2>4, <2>5, OwnStep, TableSame
<1>9. CASE ~(bucket[ClearHighestBit(b)] = None /\ b # 0)
  <2>1. InsertDummy(t, l, b)
    BY Zenon, <1>1, <1>7, <1>9 DEF ReadParent
  <2>2. PICK x \in Nodes : x = <<b, t>>
    BY DEF Nodes, Dummies
  <2>3. PICK v \in Nat : v = ReverseBits(b)
    BY BucketReversed
  <2>4. hashnr' = [hashnr EXCEPT ![x] = v]
    BY Zenon, <2>1, <2>2, <2>3 DEF InsertDummy
  <2>5. PICK s2 : s2 = World' /\ Typed(s2) /\ Renumbered(s, s2, x) /\ s2.bucket = s.bucket /\ s2.hashnr[x] = v
    <3>1. bucket' \in [Buckets -> Nodes \cup {None}]
      BY <1>5, TypedNow
    <3>2. \A d \in Buckets : bucket'[d] = bucket[d]
      BY <1>5
    <3>3. Typed(World') /\ Renumbered(World, World', x) /\ World'.hashnr[x] = v
      BY <1>5, <2>4, <3>1, <3>2, RenumberedNext
    <3>. QED BY <1>3, <1>5, <3>3, WorldNext
  <2>6. PICK m : m = Find(l, ClearHighestBit(b), ReverseBits(b), DummyKey, "dummy")
    OBVIOUS
  <2>7. m \in Locals /\ ThreadOK(t, s2, m, p) /\ m.node = l.node
    <3>1. Renumbered(s, s2, <<b, t>>) /\ s2.hashnr[<<b, t>>] = ReverseBits(b)
      BY Zenon, <2>2, <2>3, <2>5
    <3>2. b = 0 \/ s.bucket[ClearHighestBit(b)] # None
      BY <1>3, <1>9
    <3>. QED BY <1>3, <1>4, <1>7, <2>5, <2>6, <3>1, <3>2, InsertDummyStep
  <2>8. th' = [th EXCEPT ![t] = m]
    BY Zenon, <2>1, <2>6 DEF InsertDummy, Local
  <2>9. x \notin s.list /\ \E d \in Buckets : x = <<d, t>>
    BY Zenon, <1>7, <2>2
  <2>. QED BY <1>1, <1>2, <1>3, <1>5, <2>5, <2>7, <2>8, <2>9, RenumberKeeps
<1>. QED BY <1>8, <1>9
LEMMA InstallKeeps ==
  ASSUME IInv, NEW t \in Threads, Install(t)
  PROVE  IInv'
<1>1. PICK l \in Locals : l = th[t]
  BY Known
<1>2. PICK p \in Pins : p = pin[t]
  BY Known
<1>3. PICK s : s = World /\ IsWorld(s) /\ WorldOK(s) /\ ThreadOK(t, s, l, p) /\ s.bucket = bucket
  BY Known, WorldIs, <1>1, <1>2
<1>4. l.at = "install"
  BY <1>1 DEF Install, At
<1>5. /\ link' = link /\ key' = key /\ size' = size /\ count' = count
      /\ pool' = pool /\ freed' = freed /\ script' = script
  BY DEF Install, memory
<1>6. PICK p2 \in Pins : p2 = NoPins
  BY NoPinsIs
<1>7. pin' = [pin EXCEPT ![t] = p2]
  BY Zenon, <1>6 DEF Install
<1>8. l.frames # <<>> /\ l.frames \in Seq(Buckets) /\ InstallOK(s, l)
  BY <1>3, <1>4, LocalsFacts DEF ThreadOK, ControlOK, FramesOK, InFrames, CursorOK
<1>9. PICK b \in Buckets : b = Head(l.frames)
  BY <1>8, FramesFacts
<1>10. PICK rest \in Seq(Buckets) : rest = Tail(l.frames)
  BY <1>8, FramesFacts
<1>11. l.curr \in s.list \cap Dummies /\ l.curr[1] = b /\ l.curr \in Nodes \cup {None} /\ l.curr # None
  BY <1>3, <1>8, <1>9, LocalsFacts, SplitListConstants DEF InstallOK, IsWorld
<1>12. bucket' = IF bucket[b] = None THEN [bucket EXCEPT ![b] = l.curr] ELSE bucket
  BY Zenon, <1>1, <1>9 DEF Install
<1>13. bucket' \in [Buckets -> Nodes \cup {None}] /\ bucket'[b] # None
  BY <1>11, <1>12, TypedNow
<1>14. \A d \in Buckets : \/ bucket'[d] = bucket[d]
                          \/ bucket[d] = None /\ bucket'[d] \in World.list \cap Dummies /\ bucket'[d][1] = d
  BY <1>3, <1>11, <1>12, TypedNow
<1>15. CASE rest # <<>>
  <2>1. PICK d \in Buckets : d = Head(rest)
    BY <1>15, FramesFacts
  <2>2. InsertDummy(t, OnlyFrames(l, rest), d)
    BY Zenon, <1>1, <1>10, <1>15, <2>1 DEF Install, OnlyFrames
  <2>3. PICK x \in Nodes : x = <<d, t>>
    BY DEF Nodes, Dummies
  <2>4. PICK v \in Nat : v = ReverseBits(d)
    BY BucketReversed
  <2>5. hashnr' = [hashnr EXCEPT ![x] = v]
    BY Zenon, <2>2, <2>3, <2>4 DEF InsertDummy
  <2>6. PICK s2 : s2 = World' /\ Typed(s2) /\ Renumbered(s, s2, x) /\ s2.hashnr[x] = v /\ s2.bucket[b] # None
    <3>1. Typed(World') /\ Renumbered(World, World', x) /\ World'.hashnr[x] = v
      BY <1>5, <1>13, <1>14, <2>5, RenumberedNext
    <3>. QED BY <1>3, <1>13, <3>1, WorldNext
  <2>7. PICK m : m = Find(OnlyFrames(l, rest), ClearHighestBit(d), ReverseBits(d), DummyKey, "dummy")
    OBVIOUS
  <2>8. x \notin s.list /\ m \in Locals /\ ThreadOK(t, s2, m, p2) /\ m.node = l.node
    <3>1. rest # <<>> => x = <<Head(rest), t>> /\ s2.hashnr[x] = ReverseBits(Head(rest))
      BY Zenon, <2>1, <2>3, <2>4, <2>6
    <3>2. rest = <<>> => x = l.node /\ (x # None => s2.hashnr[x] = SplitHash(l.key))
      BY <1>15
    <3>3. InstallNow(s, s2, t, l, b, rest, x)
      BY Zenon, <1>9, <1>10, <2>6, <3>1, <3>2 DEF InstallNow
    <3>4. x \notin s.list /\ MoreFrames(t, s2, l, p2, rest)
      BY <1>3, <1>4, <2>6, <3>3, InstallStep
    <3>. QED BY Zenon, <1>15, <2>1, <2>7, <3>4 DEF MoreFrames
  <2>9. th' = [th EXCEPT ![t] = m]
    BY Zenon, <2>2, <2>7 DEF InsertDummy, Local
  <2>10. \E c \in Buckets : x = <<c, t>>
    BY Zenon, <2>3
  <2>. QED BY <1>1, <1>3, <1>5, <1>7, <2>6, <2>8, <2>9, <2>10, RenumberKeeps
<1>16. CASE rest = <<>>
  <2>1. /\ Local(t, Start(OnlyFrames(l, <<>>), SplitHash(l.key)))
        /\ hashnr' = IF l.node = None THEN hashnr ELSE [hashnr EXCEPT ![l.node] = SplitHash(l.key)]
    BY Zenon, <1>1, <1>10, <1>16 DEF Install, OnlyFrames
  <2>2. PICK s2 : s2 = World' /\ Typed(s2) /\ Renumbered(s, s2, l.node) /\ s2.bucket[b] # None
                  /\ (l.node # None => s2.hashnr[l.node] = SplitHash(l.key))
    <3>1. /\ Typed(World') /\ Renumbered(World, World', l.node)
          /\ l.node # None => World'.hashnr[l.node] = SplitHash(l.key)
      BY <1>1, <1>5, <1>13, <1>14, <2>1, HandNumbered
    <3>. QED BY <1>3, <1>13, <3>1, WorldNext
  <2>3. PICK x : x = l.node
    OBVIOUS
  <2>4. PICK m : m = Start(OnlyFrames(l, <<>>), SplitHash(l.key))
    OBVIOUS
  <2>5. x \notin s.list /\ m \in Locals /\ ThreadOK(t, s2, m, p2) /\ m.node = l.node
    <3>1. rest # <<>> => x = <<Head(rest), t>> /\ s2.hashnr[x] = ReverseBits(Head(rest))
      BY <1>16
    <3>2. rest = <<>> => x = l.node /\ (x # None => s2.hashnr[x] = SplitHash(l.key))
      BY Zenon, <2>2, <2>3
    <3>3. InstallNow(s, s2, t, l, b, rest, x)
      BY Zenon, <1>9, <1>10, <2>2, <2>3, <3>1, <3>2 DEF InstallNow
    <3>4. x \notin s.list /\ LastFrame(t, s2, l, p2, rest)
      BY <1>3, <1>4, <2>2, <3>3, InstallStep
    <3>. QED BY Zenon, <1>16, <2>4, <3>4 DEF LastFrame
  <2>6. th' = [th EXCEPT ![t] = m]
    BY Zenon, <2>1, <2>4 DEF Local
  <2>7. x = th[t].node /\ Renumbered(s, s2, x)
    BY Zenon, <1>1, <2>2, <2>3
  <2>. QED BY <1>1, <1>3, <1>5, <1>7, <2>2, <2>5, <2>6, <2>7, RenumberKeeps
<1>. QED BY <1>15, <1>16

\* The node n is put where the cursor is.
LEMMA PutInNext ==
  ASSUME IInv, NEW l \in Locals, NEW n \in Nodes, NEW c \in Nodes \cup {None}, c = l.curr,
         \/ /\ l.prev[1] = "bucket"
            /\ bucket' = [bucket EXCEPT ![l.prev[2]] = n] /\ link' = [link EXCEPT ![n] = LinkTo(c)]
         \/ /\ l.prev[1] = "node" /\ l.prev[2] # n
            /\ link' = [[link EXCEPT ![n] = LinkTo(c)] EXCEPT ![l.prev[2]] = LinkTo(n)] /\ bucket' = bucket,
         UNCHANGED <<hashnr, key, pool, freed>>
  PROVE  Typed(World') /\ PutIn(World, World', l, n)
<1>1. LinkTo(c) \in [to : Nodes \cup {None}, deleted : BOOLEAN] /\ LinkTo(n) \in [to : Nodes \cup {None}, deleted : BOOLEAN]
  BY LinkToIs
<1>2. PICK a, d \in [to : Nodes \cup {None}, deleted : BOOLEAN] : a = LinkTo(c) /\ d = LinkTo(n)
  BY <1>1
<1>3. /\ l.prev[1] = "bucket" => l.prev[2] \in Buckets
      /\ l.prev[1] = "node" => l.prev[2] \in Nodes
  BY LocalsFacts
<1>4. link \in [Nodes -> [to : Nodes \cup {None}, deleted : BOOLEAN]] /\ bucket \in [Buckets -> Nodes \cup {None}]
  BY TypedNow DEF Links
<1>5. CASE l.prev[1] = "bucket"
  <2>1. PICK b \in Buckets : b = l.prev[2]
    BY <1>3, <1>5
  <2>2. bucket' = [bucket EXCEPT ![b] = n] /\ link' = [link EXCEPT ![n] = a]
    BY <1>2, <1>5, <2>1
  <2>3. /\ link' \in [Nodes -> [to : Nodes \cup {None}, deleted : BOOLEAN]] /\ bucket' \in [Buckets -> Nodes \cup {None}]
        /\ link'[n] = a /\ bucket'[b] = n /\ (\A m \in Nodes : m # n => link'[m] = link[m])
        /\ \A d2 \in Buckets : d2 # b => bucket'[d2] = bucket[d2]
    BY <1>4, <2>2
  <2>4. Typed(World')
    BY <2>3, TypedNow, TypedNext DEF Links
  <2>5. PutIn(World, World', l, n)
    BY <1>2, <1>5, <2>1, <2>3, WorldIs, WorldNext DEF PutIn
  <2>. QED BY <2>4, <2>5
<1>6. CASE l.prev[1] = "node"
  <2>1. PICK q \in Nodes : q = l.prev[2] /\ q # n
    BY <1>3, <1>6
  <2>2. bucket' = bucket /\ link' = [[link EXCEPT ![n] = a] EXCEPT ![q] = d]
    BY <1>2, <1>6, <2>1
  <2>3. /\ link' \in [Nodes -> [to : Nodes \cup {None}, deleted : BOOLEAN]] /\ bucket' \in [Buckets -> Nodes \cup {None}]
        /\ link'[n] = a /\ link'[q] = d /\ (\A m \in Nodes : m # n /\ m # q => link'[m] = link[m])
    BY <1>4, <2>1, <2>2
  <2>4. Typed(World')
    BY <2>3, TypedNow, TypedNext DEF Links
  <2>5. PutIn(World, World', l, n)
    BY <1>2, <1>6, <2>1, <2>2, <2>3, WorldIs, WorldNext DEF PutIn
  <2>. QED BY <2>4, <2>5
<1>. QED BY <1>5, <1>6

LEMMA SwapKeeps ==
  ASSUME IInv, NEW t \in Threads, Swap(t)
  PROVE  IInv'
<1>1. PICK l \in Locals : l = th[t]
  BY Known
<1>2. PICK p \in Pins : p = pin[t] /\ pin = [pin EXCEPT ![t] = p]
  BY Known
<1>3. PICK s : s = World /\ IsWorld(s) /\ WorldOK(s) /\ ThreadOK(t, s, l, p)
  BY Known, <1>1, <1>2
<1>4. l.at = "swap"
  BY <1>1 DEF Swap, At
<1>5. Read(l.prev) = ReadIn(s, l.prev)
  BY <1>3, ReadSame
<1>6. /\ hashnr' = hashnr /\ key' = key /\ size' = size /\ count' = count
      /\ pool' = pool /\ freed' = freed /\ script' = script
  BY DEF Swap, memory
<1>7. PICK n : n = NodeOf(t, l)
  OBVIOUS
<1>8. SwapNode(t, s, l, n) /\ n \in Nodes
  <2>1. SwapNode(t, s, l, n)
    BY <1>3, <1>4, <1>7, SwapNodeIs
  <2>. QED BY <2>1 DEF SwapNode
<1>9. n = IF l.goal = "dummy" THEN <<Head(l.frames), t>> ELSE l.node
  BY Zenon, <1>7 DEF NodeOf
<1>10. PICK c \in Nodes \cup {None} : c = l.curr
  BY LocalsFacts
<1>11. CASE Read(l.prev) # LinkTo(l.curr)
  <2>1. link' = [link EXCEPT ![n] = LinkTo(c)] /\ Local(t, Retry(l)) /\ bucket' = bucket /\ pin' = pin
    BY Zenon, <1>1, <1>9, <1>10, <1>11 DEF Swap
  <2>2. PICK a \in [to : Nodes \cup {None}, deleted : BOOLEAN] : a = LinkTo(c)
    BY LinkToIs
  <2>3. link' \in Links /\ \A m \in Nodes : m # n => link'[m] = link[m]
    BY <1>8, <2>1, <2>2, TypedNow DEF Links
  <2>4. PICK s2 : s2 = World' /\ Typed(s2)
    BY <1>6, <2>1, <2>3, TypedNow, TypedNext
  <2>5. /\ s2.hashnr = s.hashnr /\ s2.key = s.key /\ s2.bucket = s.bucket /\ s2.pool = s.pool /\ s2.freed = s.freed
        /\ s2.list = ListFrom(s2.link, s2.bucket[0]) /\ \A m \in Nodes : m # n => s2.link[m] = s.link[m]
    BY <1>3, <1>6, <2>1, <2>3, <2>4, WorldIs, WorldNext
  <2>6. \A u \in Threads, w \in Locals, q \in Pins :
            ThreadOK(u, s, w, q) => IsWorld(s2) /\ WorldOK(s2) /\ s2.list = s.list /\ ThreadOK(u, s2, w, q)
    BY <1>3, <1>8, <2>4, <2>5, NotLinked
  <2>7. PICK m : m = Retry(l)
    OBVIOUS
  <2>8. m \in Locals /\ ThreadOK(t, s, m, p) /\ m.node = l.node
    <3>1. l.at \in Searching /\ ControlOK(t, s, l)
      BY <1>3, <1>4 DEF ThreadOK, Searching
    <3>. QED BY <2>7, <3>1, RetryStep
  <2>9. IsWorld(s2) /\ WorldOK(s2) /\ s2.list = s.list /\ ThreadOK(t, s2, m, p)
    BY <2>6, <2>8
  <2>10. \A u \in Threads : u # t => ThreadOK(u, s2, th[u], pin[u])
    BY <1>3, <2>6 DEF IInv
  <2>11. th' = [th EXCEPT ![t] = m]
    BY Zenon, <2>1, <2>7 DEF Local
  <2>12. HandsOK(s2, th')
    <3>1. \A u \in Threads : th'[u].node = th[u].node
      BY <1>1, <2>8, <2>11 DEF IInv
    <3>2. Place(s) \cap Elements \subseteq Place(s2)
      BY <2>5, <2>9 DEF Place
    <3>. QED BY <1>3, <3>1, <3>2, HandsKeep DEF IInv
  <2>. QED BY <1>2, <1>6, <2>1, <2>4, <2>8, <2>9, <2>10, <2>11, <2>12, Assemble, TableSame
<1>12. CASE Read(l.prev) = LinkTo(l.curr)
  <2>1. /\ \/ /\ l.prev[1] = "bucket"
              /\ bucket' = [bucket EXCEPT ![l.prev[2]] = n] /\ link' = [link EXCEPT ![n] = LinkTo(c)]
           \/ /\ l.prev[1] = "node"
              /\ link' = [[link EXCEPT ![n] = LinkTo(c)] EXCEPT ![l.prev[2]] = LinkTo(n)] /\ bucket' = bucket
        /\ pin' = [pin EXCEPT ![t] = NoPins]
        /\ Local(t, IF l.goal = "dummy" THEN [l EXCEPT !.at = "install", !.curr = n]
                                        ELSE [l EXCEPT !.at = "count", !.node = None])
    BY Zenon, <1>1, <1>9, <1>10, <1>12 DEF Swap
  <2>2. ReadIn(s, l.prev) = LinkTo(c) /\ ReadIn(s, l.prev) = LinkTo(l.curr)
    BY Zenon, <1>5, <1>10, <1>12
  <2>3. l.prev[1] = "node" => l.prev[2] \in s.list
    <3>1. l.at \in Searching /\ SearchOK(t, s, l) /\ PrevOK(s, l, p)
      BY <1>3, <1>4 DEF ThreadOK, ControlOK, CursorOK, Searching
    <3>. QED BY <1>3, <2>2, <3>1, ReadIs
  <2>4. l.prev[1] = "node" => l.prev[2] # n
    BY <1>8, <2>3 DEF SwapNode
  <2>5. PICK s2 : s2 = World' /\ Typed(s2) /\ PutIn(s, s2, l, n)
    BY <1>3, <1>6, <1>8, <1>10, <2>1, <2>4, PutInNext
  <2>6. PICK p2 \in Pins : p2 = NoPins
    BY NoPinsIs
  <2>7. pin' = [pin EXCEPT ![t] = p2]
    BY <2>1, <2>6
  <2>8. IsWorld(s2) /\ WorldOK(s2) /\ s2.list = s.list \cup {n} /\ PinsFollow(s, s2, p)
    BY <1>3, <1>4, <1>8, <2>2, <2>5, LinkedStep
  <2>9. \A u \in Threads : u # t => ThreadOK(u, s2, th[u], pin[u])
    <3>1. TAKE u \in Threads
    <3>2. HAVE u # t
    <3>3. th[u] \in Locals /\ pin[u] \in Pins /\ ThreadOK(u, s, th[u], pin[u])
      BY <1>3 DEF IInv
    <3>4. th[u].node # None => th[u].node # l.node
      BY <1>1, <3>2 DEF IInv, HandsOK
    <3>. QED BY <1>3, <1>4, <1>8, <2>2, <2>5, <3>2, <3>3, <3>4, LinkedOthers
  <2>10. s2.pool = s.pool /\ s2.freed = s.freed
    BY <2>5 DEF PutIn
  <2>11. CASE l.goal = "dummy"
    <3>1. PICK m : m = WithCurr(l, "install", n)
      OBVIOUS
    <3>2. m \in Locals /\ ThreadOK(t, s2, m, p2) /\ m.node = l.node
      BY <1>3, <1>4, <1>8, <2>2, <2>5, <2>11, <3>1, DummyLinked
    <3>3. th' = [th EXCEPT ![t] = m]
      BY Zenon, <2>1, <2>11, <3>1 DEF Local, WithCurr
    <3>4. HandsOK(s2, th')
      <4>1. \A u \in Threads : th'[u].node = th[u].node
        BY <1>1, <3>2, <3>3 DEF IInv
      <4>2. Place(s) \cap Elements \subseteq Place(s2)
        BY <2>8, <2>10 DEF Place
      <4>. QED BY <1>3, <4>1, <4>2, HandsKeep DEF IInv
    <3>. QED BY <1>6, <2>5, <2>7, <2>8, <2>9, <3>2, <3>3, <3>4, Assemble, TableSame
  <2>12. CASE l.goal # "dummy"
    <3>1. PICK m : m = WithNode(l, "count", None)
      OBVIOUS
    <3>2. m \in Locals /\ ThreadOK(t, s2, m, p2) /\ m.node = None
      BY <1>3, <1>4, <1>8, <2>2, <2>5, <2>12, <3>1, ElementLinked
    <3>3. th' = [th EXCEPT ![t] = m]
      BY Zenon, <2>1, <2>12, <3>1 DEF Local, WithNode
    <3>4. HandsOK(s2, th')
      <4>1. (\A u \in Threads : u # t => th'[u].node = th[u].node) /\ th'[t].node = None
        BY <3>2, <3>3 DEF IInv
      <4>2. Place(s) \cap Elements \subseteq Place(s2) /\ n \in Place(s2)
        BY <2>8, <2>10 DEF Place
      <4>3. th[t].node = n
        BY <1>1, <1>8, <2>12 DEF SwapNode
      <4>. QED BY <1>3, <4>1, <4>2, <4>3, HandsGive DEF IInv
    <3>. QED BY <1>6, <2>5, <2>7, <2>8, <2>9, <3>2, <3>3, <3>4, Assemble, TableSame
  <2>. QED BY <2>11, <2>12
<1>. QED BY <1>11, <1>12
LEMMA InitKeeps == Init => IInv
<1>. SUFFICES ASSUME Init PROVE IInv
  OBVIOUS
<1>1. /\ link = [n \in Nodes |-> Unused] /\ hashnr = [n \in Nodes |-> 0] /\ key = [n \in Nodes |-> DummyKey]
      /\ bucket = [b \in Buckets |-> None] /\ size = 1 /\ count = 0 /\ pool = Elements /\ freed = {}
      /\ pin = [u \in Threads |-> NoPins] /\ th = [u \in Threads |-> Idle] /\ script \in Scripts
  BY DEF Init
<1>2. link \in Links /\ bucket[0] = None
  <2>1. Unused \in [to : Nodes \cup {None}, deleted : BOOLEAN]
    BY DEF Unused
  <2>. QED BY <1>1, <2>1, BucketBounds DEF Links
<1>3. InList = {}
  <2>1. PICK r \in [Nodes -> Nat] : r = [n \in Nodes |-> 0]
    OBVIOUS
  <2>2. Chain({}, r, link, None)
    BY DEF Chain
  <2>. QED BY <1>2, <2>1, <2>2, ListIs, ListFromIs
<1>4. PICK s : s = World
  OBVIOUS
<1>5. /\ s.link = link /\ s.hashnr = hashnr /\ s.key = key /\ s.bucket = bucket /\ s.pool = pool /\ s.freed = freed
      /\ s.list = {}
  BY <1>3, <1>4, WorldIs
<1>6. IsWorld(s)
  BY <1>1, <1>2, <1>5 DEF IsWorld, Typed
<1>7. WorldOK(s)
  <2>1. PICK r \in [Nodes -> Nat] : r = [n \in Nodes |-> 0]
    OBVIOUS
  <2>2. Chain(s.list, r, s.link, s.bucket[0]) /\ Ordered(s, r)
    BY <1>2, <1>5 DEF Chain, Ordered
  <2>3. ListOK(s)
    BY <2>2 DEF ListOK
  <2>4. PlacesOK(s) /\ KeysOK(s) /\ BucketsOK(s)
    BY <1>1, <1>5 DEF PlacesOK, KeysOK, BucketsOK, Nodes
  <2>. QED BY <2>3, <2>4 DEF WorldOK
<1>8. SizeOK(size) /\ count \in Int
  <2>1. Pow2[0] = 1 /\ 0 \in 0 .. HashBits - 1 /\ 1 <= MaxSize
    BY SplitListConstants, Pow2Is
  <2>2. SizeOK(1)
    BY <2>1 DEF SizeOK
  <2>. QED BY <1>1, <2>2
<1>9. pin \in [Threads -> Pins] /\ th \in [Threads -> Locals] /\ script \in [Threads -> Calls]
  BY <1>1, NoPinsIs, IdleIs, SplitListConstants DEF Calls
<1>10. \A u \in Threads, p \in Pins : ThreadOK(u, s, Idle, p)
  <2>1. TAKE u \in Threads, p \in Pins
  <2>2. PICK l \in Locals : l = Idle /\ l.at = "idle" /\ l.node = None
    BY IdleIs
  <2>3. l.at \notin Before /\ l.at \notin Searching
    BY <2>2 DEF Before, Searching
  <2>4. OpOK(l) /\ HandOK(s, l) /\ SearchOK(u, s, l)
    BY <2>2, <2>3 DEF OpOK, HandOK, SearchOK
  <2>5. FramesOK(u, s, l) /\ CursorOK(s, l, p)
    BY <1>5, <2>2, <2>3 DEF FramesOK, InFrames, CursorOK
  <2>. QED BY <2>2, <2>4, <2>5 DEF ThreadOK, ControlOK
<1>11. \A u \in Threads : ThreadOK(u, s, th[u], pin[u])
  BY <1>1, <1>10, NoPinsIs
<1>12. HandsOK(s, th)
  BY <1>1, <1>5, IdleIs DEF HandsOK
<1>. QED BY <1>4, <1>6, <1>7, <1>8, <1>9, <1>11, <1>12 DEF IInv

LEMMA InsideKeeps ==
  ASSUME IInv, NEW t \in Threads, Inside(t)
  PROVE  IInv'
BY LoadKeeps, ConfirmKeeps, LoadLinkKeeps, ConfirmNextKeeps, JudgeKeeps, HelpRemoveKeeps, ReadSizeKeeps,
   ReadSlotKeeps, ReadParentKeeps, InstallKeeps, SwapKeeps, DuplicateKeeps, ReadSizeAgainKeeps, AddKeeps,
   DoubleKeeps, NotFoundKeeps, MarkKeeps, UnlinkKeeps, UncountKeeps, SearchReturnsKeeps, SpinMatchKeeps DEF Inside

LEMMA NextKeeps ==
  ASSUME IInv, [Next]_vars
  PROVE  IInv'
<1>1. CASE Next
  BY <1>1, InsideKeeps, CallKeeps, SearchUnpinKeeps, ReclaimKeeps DEF Next
<1>2. CASE UNCHANGED vars
  <2>1. World' = World /\ UNCHANGED <<size, count, pin, th, script>>
    BY <1>2, WorldSame DEF vars, list, table, memory
  <2>. QED BY <2>1 DEF IInv
<1>. QED BY <1>1, <1>2

\* Whatever the threads do to the list and the table in between, what each relies on
\* at its label is true: the order of the list, its cursor, pins and activations.
THEOREM Invariance == Spec => []IInv
<1>1. Init => IInv
  BY InitKeeps
<1>2. IInv /\ [Next]_vars => IInv'
  BY NextKeeps
<1>. QED BY <1>1, <1>2, PTL DEF Spec
-------------------------------------------------------------------------------
(* What the invariant says: the properties of SplitList.                    *)

\* Where the element n is.
PlacesOf(L, n) ==
    {<<"pool">> : m \in pool \cap {n}} \cup {<<"freed">> : m \in freed \cap {n}}
    \cup {<<"list">> : m \in L \cap {n}}
    \cup {<<"inserting", t>> : t \in {t \in Threads : th[t].node = n}}

LEMMA OnePlace ==
  ASSUME IInv, NEW n \in Elements
  PROVE  \E x : PlacesOf(InList, n) = {x}
<1>1. PICK s : s = World /\ IsWorld(s) /\ WorldOK(s) /\ HandsOK(s, th)
  BY DEF IInv
<1>2. s.pool = pool /\ s.freed = freed /\ s.list = InList
  BY <1>1, WorldIs
<1>3. n # None
  BY SplitListConstants DEF Nodes
<1>4. \A t \in Threads : th[t].node = n => n \notin pool \cup freed \cup InList
  BY <1>1, <1>2, <1>3 DEF IInv, ThreadOK, ControlOK, HandOK
<1>5. CASE n \in pool
  <2>1. n \notin freed /\ n \notin InList
    BY <1>1, <1>2, <1>5 DEF WorldOK, PlacesOK
  <2>2. PlacesOf(InList, n) = {<<"pool">>}
    BY <1>4, <1>5, <2>1 DEF PlacesOf
  <2>. QED BY <2>2
<1>6. CASE n \in freed
  <2>1. n \notin pool /\ n \notin InList
    BY <1>1, <1>2, <1>6 DEF WorldOK, PlacesOK
  <2>2. PlacesOf(InList, n) = {<<"freed">>}
    BY <1>4, <1>6, <2>1 DEF PlacesOf
  <2>. QED BY <2>2
<1>7. CASE n \in InList
  <2>1. n \notin pool /\ n \notin freed
    BY <1>1, <1>2, <1>7 DEF WorldOK, PlacesOK
  <2>2. PlacesOf(InList, n) = {<<"list">>}
    BY <1>4, <1>7, <2>1 DEF PlacesOf
  <2>. QED BY <2>2
<1>8. CASE n \notin pool \cup freed \cup InList
  <2>1. PICK t \in Threads : th[t].node = n
    BY <1>1, <1>2, <1>8 DEF HandsOK
  <2>2. \A u \in Threads : th[u].node = n <=> u = t
    BY <1>1, <1>3, <2>1 DEF HandsOK
  <2>3. PlacesOf(InList, n) = {<<"inserting", t>>}
    BY <1>8, <2>2 DEF PlacesOf
  <2>. QED BY <2>3
<1>. QED BY <1>5, <1>6, <1>7, <1>8

\* No element of the map is lost, freed twice, or free while it is in the list
\* (hash_map.cc:334-337): an insertion, a removal and the threads that help it hand
\* it on, and reclamation takes only what they gave up.
THEOREM ElementsHaveOnePlace == Spec => []ElementsInOnePlace
<1>1. IInv => ElementsInOnePlace
  <2>. SUFFICES ASSUME IInv PROVE ElementsInOnePlace
    OBVIOUS
  <2>1. \A n \in Elements : Cardinality(PlacesOf(InList, n)) = 1
    BY OnePlace, FS_Singleton
  <2>. QED BY Zenon, <2>1 DEF ElementsInOnePlace, PlacesOf
<1>. QED BY <1>1, Invariance, PTL

\* A node a thread reads, compares or changes under its pins is not handed out
\* again meanwhile (hash_map.cc:72,300,394), although others take it out and free it.
THEOREM PinnedIsNotReclaimed == Spec => []UsedIsNotReclaimed
<1>1. IInv => UsedIsNotReclaimed
  <2>1. SUFFICES ASSUME IInv, NEW t \in Threads,
                        th[t].at \in {"link", "next", "judge", "help", "mark", "unlink", "found", "using"}
                 PROVE  th[t].curr \notin pool /\ (th[t].at # "using" => th[t].prev \notin {"node"} \X pool)
    BY DEF UsedIsNotReclaimed
  <2>2. PICK l \in Locals : l = th[t]
    BY Known, <2>1
  <2>3. PICK p \in Pins : p = pin[t]
    BY Known, <2>1
  <2>4. PICK s : s = World /\ WorldOK(s) /\ ThreadOK(t, s, l, p) /\ s.pool = pool
    BY Known, <2>1, WorldIs, <2>2, <2>3
  <2>5. \A n : Held(s, n) => n \notin pool
    BY <2>4 DEF Held, WorldOK, PlacesOK
  <2>6. Held(s, l.curr)
    BY <2>1, <2>2, <2>4 DEF ThreadOK, CursorOK, CurrOK, UsingOK
  <2>7. l.at # "using" /\ l.prev[1] = "node" => Held(s, l.prev[2])
    BY <2>1, <2>2, <2>4 DEF ThreadOK, CursorOK, PrevOK, Searching
  <2>. QED BY <2>2, <2>5, <2>6, <2>7
<1>. QED BY <1>1, Invariance, PTL

\* A bucket leads to its own dummy node, and the list is in the order of reversed
\* hashes and keys whatever is inserted, marked and taken out meanwhile: from there
\* on lie the keys of the bucket, for every size the table has (hash_map.cc:653-694).
THEOREM BucketsLeadToTheirKeys == Spec => []BucketsSplitTheList
<1>1. IInv => BucketsSplitTheList
  <2>. SUFFICES ASSUME IInv PROVE BucketsSplitTheList
    OBVIOUS
  <2>1. PICK s : s = World /\ IsWorld(s) /\ WorldOK(s)
    BY DEF IInv
  <2>2. s.link = link /\ s.hashnr = hashnr /\ s.key = key /\ s.bucket = bucket /\ s.list = InList
    BY <2>1, WorldIs
  <2>3. \A b \in Buckets : bucket[b] # None => bucket[b] \in InList \cap Dummies /\ bucket[b][1] = b
    BY <2>1, <2>2 DEF WorldOK, BucketsOK
  <2>4. \A n \in InList : link[n].to # None =>
            \/ hashnr[n] < hashnr[link[n].to]
            \/ /\ hashnr[n] = hashnr[link[n].to]
               /\ key[n] < key[link[n].to] \/ (Flags = 0 /\ key[n] = key[link[n].to] /\ key[n] # DummyKey)
    <3>1. TAKE n \in InList
    <3>2. HAVE link[n].to # None
    <3>3. PICK r \in [Nodes -> Nat] : Chain(s.list, r, s.link, s.bucket[0]) /\ Ordered(s, r)
      BY <2>1 DEF WorldOK, ListOK
    <3>4. PICK m : m = link[n].to /\ m \in s.list /\ r[m] < r[n] /\ n \in s.list
      BY <2>2, <3>2, <3>3 DEF Chain
    <3>5. Above(s, m, s.hashnr[n], s.key[n])
      BY <3>3, <3>4 DEF Ordered
    <3>. QED BY <2>2, <3>4, <3>5 DEF Above, Again
  <2>. QED BY Zenon, <2>3, <2>4 DEF BucketsSplitTheList
<1>. QED BY <1>1, Invariance, PTL

\* The variables have their types; size_ stays a power of two up to MaxSize, by which
\* buckets and hashes are told apart (hash_map.cc:487-491).
THEOREM TypesHold == Spec => []TypeOK
<1>1. IInv => TypeOK
  <2>. SUFFICES ASSUME IInv PROVE TypeOK
    OBVIOUS
  <2>1. /\ link \in [Nodes -> [to : Nodes \cup {None}, deleted : BOOLEAN]] /\ hashnr \in [Nodes -> Nat]
        /\ key \in [Nodes -> Keys \cup {DummyKey}] /\ bucket \in [Buckets -> Nodes \cup {None}]
        /\ pool \subseteq Elements /\ freed \subseteq Elements
    BY TypedNow DEF Links
  <2>2. size \in 1 .. MaxSize
    <3>1. PICK j \in 0 .. HashBits - 1 : size = Pow2[j] /\ size <= MaxSize /\ size \in Nat
      BY DEF IInv, SizeOK
    <3>2. j \in 0 .. HashBits
      BY SplitListConstants
    <3>3. size > 0
      BY <3>1, <3>2, Pow2Positive
    <3>4. MaxSize \in Nat
      BY SplitListConstants, BucketBounds
    <3>. QED BY <3>1, <3>3, <3>4
  <2>3. count \in Int /\ pin \in [Threads -> [0 .. 2 -> Nodes \cup {None}]] /\ th \in [Threads -> Locals]
    BY DEF IInv, Pins
  <2>. QED BY Zenon, <2>1, <2>2, <2>3 DEF TypeOK
<1>. QED BY <1>1, Invariance, PTL
-------------------------------------------------------------------------------
(* What the map is.                                                         *)

Unmarked(s) == {n \in s.list \cap Elements : ~s.link[n].deleted}
Has(s, k) == \E n \in Unmarked(s) : s.key[n] = k
MapOf(s) == [k \in Keys |-> IF Has(s, k) THEN Present ELSE None]

LEMMA ContentsIs == Contents = MapOf(World)
<1>1. Unmarked(World) = {n \in InList \cap Elements : ~link[n].deleted}
  BY WorldIs DEF Unmarked
<1>2. \A k \in Keys : k \in {key[n] : n \in Unmarked(World)} <=> Has(World, k)
  BY WorldIs DEF Has
<1>. QED BY <1>1, <1>2 DEF Contents, MapOf

LEMMA ContentsNext == Contents' = MapOf(World')
<1>1. Unmarked(World)' = {n \in InList' \cap Elements : ~link'[n].deleted}
  BY DEF Unmarked, World
<1>2. \A k \in Keys : k \in {key'[n] : n \in Unmarked(World)'} <=> Has(World', k)
  <2>1. Unmarked(World)' = Unmarked(World') /\ World'.key = key'
    BY DEF Unmarked, World
  <2>. QED BY <2>1 DEF Has
<1>3. Contents' = [k \in Keys |-> IF k \in {key'[n] : n \in Unmarked(World)'} THEN Present ELSE None]
  BY <1>1 DEF Contents
<1>. QED BY <1>2, <1>3 DEF MapOf

\* The same elements with the same keys: the same map.
LEMMA MapSame ==
  ASSUME NEW s, NEW s2, Unmarked(s2) = Unmarked(s), \A n \in Unmarked(s) : s2.key[n] = s.key[n]
  PROVE  MapOf(s2) = MapOf(s)
<1>1. \A k \in Keys : Has(s2, k) <=> Has(s, k)
  BY DEF Has
<1>. QED BY <1>1 DEF MapOf

SetKey(f, k, v) == [f EXCEPT ![k] = v]

LEMMA MapWith ==
  ASSUME NEW s, NEW s2, NEW n, Unmarked(s2) = Unmarked(s) \cup {n}, s.key[n] \in Keys,
         \A m \in Unmarked(s2) : s2.key[m] = s.key[m]
  PROVE  MapOf(s2) = SetKey(MapOf(s), s.key[n], Present)
<1>1. \A k \in Keys : Has(s2, k) <=> k = s.key[n] \/ Has(s, k)
  BY DEF Has
<1>. QED BY <1>1 DEF MapOf, SetKey

LEMMA MapWithout ==
  ASSUME NEW s, NEW s2, NEW n, Unmarked(s2) = Unmarked(s) \ {n}, s.key[n] \in Keys,
         \A m \in Unmarked(s2) : s2.key[m] = s.key[m] /\ s.key[m] # s.key[n]
  PROVE  MapOf(s2) = SetKey(MapOf(s), s.key[n], None)
<1>1. \A k \in Keys : Has(s2, k) <=> k # s.key[n] /\ Has(s, k)
  BY DEF Has
<1>. QED BY <1>1 DEF MapOf, SetKey

LEMMA MapHas ==
  ASSUME NEW s, NEW k \in Keys
  PROVE  /\ MapOf(s)[k] \in {Present, None}
         /\ Has(s, k) => MapOf(s)[k] = Present
         /\ ~Has(s, k) => MapOf(s)[k] = None
BY DEF MapOf

\* An element of the list has the hash of its key.
LEMMA HashIs ==
  ASSUME NEW s, WorldOK(s), NEW n \in s.list \cap Elements
  PROVE  s.key[n] \in Keys /\ s.hashnr[n] = SplitHash(s.key[n])
BY DEF WorldOK, KeysOK

\* With unique keys, no key is in the list twice.
LEMMA KeysOnce ==
  ASSUME Flags # 0, NEW s, IsWorld(s), WorldOK(s), NEW n \in s.list \cap Elements, NEW m \in s.list \cap Elements,
         s.key[n] = s.key[m]
  PROVE  n = m
<1>1. PICK r \in [Nodes -> Nat] : Chain(s.list, r, s.link, s.bucket[0]) /\ Ordered(s, r)
  BY DEF WorldOK, ListOK
<1>2. s.hashnr[n] = s.hashnr[m] /\ s.hashnr[n] \in Nat /\ s.key[n] \in Nat
  <2>1. s.hashnr[n] = SplitHash(s.key[n]) /\ s.hashnr[m] = SplitHash(s.key[m])
    BY HashIs
  <2>2. n \in Nodes
    BY DEF Nodes
  <2>. QED BY <2>1, <2>2, WorldFacts
<1>3. ~Above(s, n, s.hashnr[m], s.key[m]) /\ ~Above(s, m, s.hashnr[n], s.key[n])
  BY <1>2 DEF Above, Again
<1>4. r[n] \in Nat /\ r[m] \in Nat
  BY DEF Nodes
<1>5. ~(r[n] < r[m]) /\ ~(r[m] < r[n])
  BY <1>1, <1>3 DEF Ordered
<1>. QED BY <1>1, <1>4, <1>5 DEF Chain

\* Between two nodes that follow one another there is no third.
LEMMA NothingBetween ==
  ASSUME Flags # 0, NEW s, IsWorld(s), WorldOK(s), NEW p \in s.list, NEW h \in Nat, NEW k \in Nat,
         Below(s, p, h, k), s.link[p].to # None => Above(s, s.link[p].to, h, k), NEW n \in s.list
  PROVE  ~(s.hashnr[n] = h /\ s.key[n] = k)
<1>. SUFFICES ASSUME s.hashnr[n] = h, s.key[n] = k PROVE FALSE
  OBVIOUS
<1>1. PICK r \in [Nodes -> Nat] : Chain(s.list, r, s.link, s.bucket[0]) /\ Ordered(s, r)
  BY DEF WorldOK, ListOK
<1>2. p \in Nodes /\ n \in Nodes
  BY DEF IsWorld
<1>3. s.hashnr[p] \in Nat /\ s.key[p] \in Nat
  BY <1>2, WorldFacts
<1>4. n # p /\ ~Above(s, p, h, k)
  BY <1>3 DEF Below, Above, Again
<1>5. r[n] \in Nat /\ r[p] \in Nat
  BY <1>2
<1>6. r[n] < r[p]
  <2>1. ~(r[p] < r[n])
    BY <1>1, <1>4 DEF Ordered
  <2>2. r[n] # r[p]
    BY <1>1, <1>4 DEF Chain
  <2>. QED BY <1>5, <2>1, <2>2
<1>7. PICK q \in s.list : q = s.link[p].to /\ q # None /\ r[n] <= r[q]
  BY <1>1, <1>6 DEF Chain
<1>8. Above(s, q, h, k)
  BY <1>7
<1>9. q \in Nodes
  BY DEF IsWorld
<1>10. s.hashnr[q] \in Nat /\ s.key[q] \in Nat /\ r[q] \in Nat
  BY <1>9, WorldFacts
<1>11. ~Above(s, n, s.hashnr[q], s.key[q]) /\ n # q
  BY <1>8, <1>10 DEF Above, Again
<1>12. ~(r[n] < r[q])
  BY <1>1, <1>11 DEF Ordered
<1>13. r[n] = r[q]
  BY <1>5, <1>7, <1>10, <1>12
<1>. QED BY <1>1, <1>11, <1>13 DEF Chain

LEMMA NotThere ==
  ASSUME Flags # 0, NEW s, IsWorld(s), WorldOK(s), NEW p \in s.list, NEW k \in Keys,
         Below(s, p, SplitHash(k), k), s.link[p].to # None => Above(s, s.link[p].to, SplitHash(k), k)
  PROVE  ~Has(s, k) /\ MapOf(s)[k] = None
<1>1. SplitHash(k) \in Nat /\ k \in Nat
  BY KeyHash
<1>2. ASSUME NEW n \in s.list \cap Elements, s.key[n] = k PROVE FALSE
  <2>1. s.hashnr[n] = SplitHash(k)
    BY <1>2, HashIs
  <2>2. n \in s.list
    OBVIOUS
  <2>. QED BY <1>1, <1>2, <2>1, <2>2, NothingBetween
<1>3. ~Has(s, k)
  BY <1>2 DEF Has, Unmarked
<1>. QED BY <1>3, MapHas

-------------------------------------------------------------------------------
(* What a call has seen of its key, and whether it has changed the map.     *)

Called(l) == l.at \notin {"idle", "using"} /\ Recorded(l.op, l.key)
Took(l) == l.at \in {"count", "add", "double", "unlink", "uncount"} \/ (l.at \in Searching /\ l.goal = "cleanup")
Running(l, seen) ==
    [op |-> l.op, key |-> l.key, seen |-> seen, took |-> Took(l), val |-> IF l.op = "insert" THEN Present ELSE None]

\* An unmarked link has been read from curr: then curr was in the list.  What was
\* true at that moment is what judge will find.
ReadOK(s, l, seen) ==
    l.at \in {"next", "judge"} /\ ~l.link.deleted /\ l.curr \in s.list =>
        /\ l.curr \in Elements /\ s.key[l.curr] = l.key => Present \in seen
        /\ l.goal # "dummy" /\ l.link.to = None /\ Below(s, l.curr, l.hash, l.search) => None \in seen
SeenOK(s, l, seen) ==
    /\ MapOf(s)[l.key] \in seen
    /\ l.at \in {"duplicate", "found"} => Present \in seen
    /\ l.at = "missing" => None \in seen
    /\ ReadOK(s, l, seen)
CallOK(s, l, c) ==
    /\ ~Called(l) => c.op = "none"
    /\ Called(l) => \E seen \in SUBSET {Present, None} : c = Running(l, seen) /\ SeenOK(s, l, seen)

CallsOK == DOMAIN call = Threads /\ \A u \in Threads : CallOK(World, th[u], call[u])

\* At most node n comes into the list, and the others keep their key and hash.
Stays(s, s2, n) == \A m \in s2.list : m # n => m \in s.list /\ s2.hashnr[m] = s.hashnr[m] /\ s2.key[m] = s.key[m]

\* A step of another thread: what has been seen stays so, and what is true now is seen.
LEMMA SeenStays ==
  ASSUME NEW s, NEW s2, NEW n, Stays(s, s2, n), NEW l \in Locals, NEW seen, NEW seen2,
         l.at \in {"next", "judge"} => l.curr # n,
         SeenOK(s, l, seen), seen \subseteq seen2, MapOf(s2)[l.key] \in seen2
  PROVE  SeenOK(s2, l, seen2)
<1>1. ReadOK(s2, l, seen2)
  <2>. SUFFICES ASSUME l.at \in {"next", "judge"}, ~l.link.deleted, l.curr \in s2.list
                PROVE  /\ l.curr \in Elements /\ s2.key[l.curr] = l.key => Present \in seen2
                       /\ l.goal # "dummy" /\ l.link.to = None /\ Below(s2, l.curr, l.hash, l.search) => None \in seen2
    BY DEF ReadOK
  <2>1. l.curr \in s.list /\ s2.hashnr[l.curr] = s.hashnr[l.curr] /\ s2.key[l.curr] = s.key[l.curr]
    BY DEF Stays
  <2>2. /\ l.curr \in Elements /\ s.key[l.curr] = l.key => Present \in seen
        /\ l.goal # "dummy" /\ l.link.to = None /\ Below(s, l.curr, l.hash, l.search) => None \in seen
    BY <2>1 DEF SeenOK, ReadOK
  <2>. QED BY <2>1, <2>2 DEF Below
<1>. QED BY <1>1 DEF SeenOK

\* What a thread holds is no node that comes into the list.
LEMMA HeldIsOld ==
  ASSUME NEW s, NEW n, n \notin s.list \cup s.freed, NEW u, NEW l \in Locals, NEW p, ThreadOK(u, s, l, p),
         l.at \in {"next", "judge"}
  PROVE  l.curr # n
BY DEF ThreadOK, CursorOK, CurrOK, Held

LEMMA CallStays ==
  ASSUME NEW s, NEW s2, NEW n, Stays(s, s2, n), NEW l \in Locals, NEW c, CallOK(s, l, c),
         l.at \in {"next", "judge"} => l.curr # n, MapOf(s2)[l.key] = MapOf(s)[l.key]
  PROVE  CallOK(s2, l, c)
<1>1. CASE ~Called(l)
  BY <1>1 DEF CallOK
<1>2. CASE Called(l)
  <2>1. PICK seen \in SUBSET {Present, None} : c = Running(l, seen) /\ SeenOK(s, l, seen)
    BY <1>2 DEF CallOK
  <2>2. MapOf(s2)[l.key] \in seen
    BY <2>1 DEF SeenOK
  <2>3. SeenOK(s2, l, seen)
    BY <2>1, <2>2, SeenStays
  <2>. QED BY <1>2, <2>1, <2>3 DEF CallOK
<1>. QED BY <1>1, <1>2

\* Nothing is known of the key but what it is worth now.
Plain(l) == l.at \notin {"duplicate", "found", "missing", "next", "judge"}
SameRun(l, m) == m.op = l.op /\ m.key = l.key /\ (Called(m) <=> Called(l)) /\ (Took(m) <=> Took(l))

\* The thread's own step, if it changes neither map nor call.
LEMMA RunStep ==
  ASSUME NEW s, NEW s2, NEW l, NEW m, NEW c, CallOK(s, l, c), SameRun(l, m), MapOf(s2)[l.key] = MapOf(s)[l.key],
         \A seen \in SUBSET {Present, None} : Called(l) /\ SeenOK(s, l, seen) /\ MapOf(s2)[m.key] \in seen => SeenOK(s2, m, seen)
  PROVE  CallOK(s2, m, c)
<1>1. CASE ~Called(l)
  BY <1>1 DEF CallOK, SameRun
<1>2. CASE Called(l)
  <2>1. PICK seen \in SUBSET {Present, None} : c = Running(l, seen) /\ SeenOK(s, l, seen)
    BY <1>2 DEF CallOK
  <2>2. MapOf(s2)[m.key] \in seen
    BY <2>1 DEF SeenOK, SameRun
  <2>3. SeenOK(s2, m, seen)
    BY <1>2, <2>1, <2>2
  <2>4. Took(m) = Took(l)
    BY DEF SameRun, Took
  <2>5. Running(m, seen) = Running(l, seen)
    BY <2>4 DEF Running, SameRun
  <2>. QED BY <1>2, <2>1, <2>3, <2>5 DEF CallOK, SameRun
<1>. QED BY <1>1, <1>2

LEMMA PlainStep ==
  ASSUME NEW s, NEW s2, NEW l, NEW m, NEW c, CallOK(s, l, c), SameRun(l, m), MapOf(s2)[l.key] = MapOf(s)[l.key], Plain(m)
  PROVE  CallOK(s2, m, c)
<1>1. ASSUME NEW seen \in SUBSET {Present, None}, MapOf(s2)[m.key] \in seen PROVE SeenOK(s2, m, seen)
  BY <1>1 DEF SeenOK, ReadOK, Plain
<1>. QED BY <1>1, RunStep

\* The whole: one thread moves, and nobody sees the map change.
Silent == UNCHANGED <<Contents, call>>

\* What the call of every thread has seen stays so while the map stays as it is.
LEMMA OthersStay ==
  ASSUME IInv, CallsOK, NEW s, s = World, NEW s2, MapOf(s2) = MapOf(s),
         NEW n, n \notin s.list \cup s.freed, Stays(s, s2, n), NEW u \in Threads
  PROVE  CallOK(s2, th[u], call[u])
<1>1. PICK l \in Locals : l = th[u] /\ ThreadOK(u, s, l, pin[u])
  BY Known
<1>2. l.at \in {"next", "judge"} => l.curr # n
  BY <1>1, HeldIsOld
<1>3. CallOK(s, l, call[u]) /\ MapOf(s2)[l.key] = MapOf(s)[l.key]
  BY <1>1 DEF CallsOK
<1>. QED BY <1>1, <1>2, <1>3, CallStays

LEMMA SilentStep ==
  ASSUME IInv, CallsOK, NEW t \in Threads, UNCHANGED call, NEW s2, s2 = World', MapOf(s2) = MapOf(World),
         NEW n, n \notin World.list \cup World.freed, Stays(World, s2, n),
         NEW m, th' = [th EXCEPT ![t] = m], CallOK(s2, m, call[t])
  PROVE  CallsOK' /\ Silent
<1>1. Contents' = Contents
  BY ContentsIs, ContentsNext
<1>2. PICK s : s = World
  OBVIOUS
<1>3. \A u \in Threads : CallOK(s2, th[u], call[u])
  BY <1>2, OthersStay
<1>4. \A u \in Threads : CallOK(s2, th'[u], call[u])
  BY <1>3 DEF IInv
<1>. QED BY <1>1, <1>4 DEF CallsOK, Silent

LEMMA NoneIsNew ==
  ASSUME IInv
  PROVE  None \notin World.list \cup World.freed
BY SplitListConstants DEF IInv, IsWorld, Typed, Nodes

\* The same, for a step that leaves the list and the table as they are.
LEMMA QuietSilent ==
  ASSUME IInv, CallsOK, NEW t \in Threads, UNCHANGED call, World' = World,
         NEW m, th' = [th EXCEPT ![t] = m], CallOK(World, m, call[t])
  PROVE  CallsOK' /\ Silent
<1>1. PICK s : s = World
  OBVIOUS
<1>2. Stays(s, s, None) /\ None \notin s.list \cup s.freed
  BY <1>1, NoneIsNew DEF Stays
<1>. QED BY <1>1, <1>2, SilentStep

-------------------------------------------------------------------------------
(* The steps of lfind.                                                      *)

\* Whatever a recorded call has seen, that its key was missing, or there, is part of it.
SawNone(s, l) == Called(l) => \A seen \in SUBSET {Present, None} : SeenOK(s, l, seen) => None \in seen
SawPresent(s, l) == Called(l) => \A seen \in SUBSET {Present, None} : SeenOK(s, l, seen) => Present \in seen

\* Insertions and removals look for their key itself, and so do the searches that are recorded.
LEMMA RecordedIs ==
  /\ \A o, k : o \in {"insert", "remove"} => Recorded(o, k)
  /\ \A o, k : Recorded(o, k) => o # "match" /\ Sought(o, k) = k
BY DEF Recorded, Sought

LEMMA SeeNow ==
  ASSUME NEW s, NEW l
  PROVE  /\ MapOf(s)[l.key] = None => SawNone(s, l)
         /\ MapOf(s)[l.key] = Present => SawPresent(s, l)
BY DEF SawNone, SawPresent, SeenOK

LEMMA SearchRuns ==
  ASSUME NEW l \in Locals, NEW m, NEW u, NEW s, ControlOK(u, s, l), l.at \in Searching \ {"unlink"}, SameCall(l, m), SameSearch(l, m),
         Allowed(l.goal, m.at), m.at # "unlink"
  PROVE  SameRun(l, m)
<1>1. m.op = l.op /\ m.key = l.key /\ m.goal = l.goal
  BY FieldsSame
<1>2. Called(m) <=> Called(l)
  BY <1>1 DEF Called, Allowed, Searching
<1>3. Took(l) <=> l.goal = "cleanup"
  BY DEF Took, Searching
<1>4. Took(m) <=> l.goal = "cleanup"
  BY <1>1 DEF Took, Searching, Allowed
<1>. QED BY <1>1, <1>2, <1>3, <1>4 DEF SameRun

\* lfind goes on or returns to its caller.
LEMMA SearchStep ==
  ASSUME NEW s, NEW s2, NEW u, NEW l \in Locals, NEW m, NEW c, CallOK(s, l, c), ControlOK(u, s, l),
         l.at \in Searching \ {"unlink"}, SameCall(l, m), SameSearch(l, m), Allowed(l.goal, m.at),
         m.at \notin {"unlink", "next", "judge"}, MapOf(s2)[l.key] = MapOf(s)[l.key],
         m.at \in {"duplicate", "found"} => SawPresent(s, l),
         m.at = "missing" => SawNone(s, l)
  PROVE  CallOK(s2, m, c)
<1>1. SameRun(l, m)
  BY SearchRuns
<1>2. ASSUME NEW seen \in SUBSET {Present, None}, Called(l), SeenOK(s, l, seen), MapOf(s2)[m.key] \in seen PROVE SeenOK(s2, m, seen)
  BY <1>2 DEF SeenOK, ReadOK, SawPresent, SawNone
<1>. QED BY <1>1, <1>2, RunStep

LEMMA GoalIs ==
  ASSUME NEW u, NEW s, NEW l, ControlOK(u, s, l), l.at \in Searching
  PROVE  /\ l.goal \in Goals
         /\ l.goal # "dummy" => l.hash = SplitHash(l.key) /\ ~First(l)
         /\ l.goal # "dummy" /\ Called(l) => l.search = l.key
<1>1. SearchOK(u, s, l)
  BY DEF ControlOK
<1>2. l.goal # "dummy" => l.search = Sought(l.op, l.key) /\ l.hash = SplitHash(l.key) /\ ~First(l)
  BY <1>1 DEF SearchOK, First
<1>3. Called(l) => Sought(l.op, l.key) = l.key
  BY RecordedIs DEF Called
<1>4. l.goal \in Goals
  BY <1>1 DEF SearchOK
<1>. QED BY <1>2, <1>3, <1>4

LEMMA MissingIs ==
  ASSUME NEW l \in Locals, l.goal \in Goals
  PROVE  \E m \in Locals : /\ m = Missing(l) /\ SameCall(l, m) /\ SameSearch(l, m) /\ Allowed(l.goal, m.at)
                           /\ m.at \in {"swap", "missing", "uncount"}
                           /\ m.at = "missing" => l.goal \in {"get", "remove"}
<1>1. PICK a : a = CASE l.goal \in {"insert", "dummy"} -> "swap"
                     [] l.goal \in {"remove", "get"}  -> "missing"
                     [] l.goal = "cleanup"            -> "uncount"
  OBVIOUS
<1>2. /\ l.goal \in {"insert", "dummy"} => a = "swap"
      /\ l.goal \in {"remove", "get"} => a = "missing"
      /\ l.goal = "cleanup" => a = "uncount"
  BY <1>1
<1>3. a \in Labels /\ a \in {"swap", "missing", "uncount"} /\ Allowed(l.goal, a) /\ (a = "missing" => l.goal \in {"get", "remove"})
  BY <1>2 DEF Goals, Labels, Searching, Allowed
<1>4. Missing(l) = OnlyAt(l, a)
  BY Zenon, <1>1 DEF Missing, OnlyAt
<1>5. PICK m \in Locals : m = OnlyAt(l, a) /\ m.at = a /\ SameCall(l, m) /\ SameSearch(l, m)
  BY <1>3, SetAt
<1>. QED BY <1>3, <1>4, <1>5

LEMMA FoundIs ==
  ASSUME Flags # 0, NEW l \in Locals, l.goal \in Goals
  PROVE  \E m \in Locals : /\ m = Found(l) /\ SameCall(l, m) /\ SameSearch(l, m) /\ Allowed(l.goal, m.at)
                           /\ m.at \in {"duplicate", "install", "mark", "found", "uncount"}
                           /\ m.at \in {"duplicate", "found"} => l.goal \in {"get", "insert"}
<1>1. PICK a : a = CASE l.goal = "insert"  -> "duplicate"
                     [] l.goal = "dummy"   -> "install"
                     [] l.goal = "remove"  -> "mark"
                     [] l.goal = "get"     -> "found"
                     [] l.goal = "cleanup" -> "uncount"
  OBVIOUS
<1>2. /\ l.goal = "insert" => a = "duplicate"
      /\ l.goal = "dummy" => a = "install"
      /\ l.goal = "remove" => a = "mark"
      /\ l.goal = "get" => a = "found"
      /\ l.goal = "cleanup" => a = "uncount"
  BY <1>1
<1>3. /\ a \in Labels /\ Allowed(l.goal, a)
      /\ a \in {"duplicate", "install", "mark", "found", "uncount"}
      /\ a \in {"duplicate", "found"} => l.goal \in {"get", "insert"}
  BY <1>2 DEF Goals, Labels, Searching, Allowed
<1>4. Found(l) = OnlyAt(l, a)
  <2>1. (IF Flags # 0 THEN "duplicate" ELSE "swap") = "duplicate"
    OBVIOUS
  <2>. QED BY Zenon, <1>1, <2>1 DEF Found, OnlyAt
<1>5. PICK m \in Locals : m = OnlyAt(l, a) /\ m.at = a /\ SameCall(l, m) /\ SameSearch(l, m)
  BY <1>3, SetAt
<1>. QED BY <1>3, <1>4, <1>5

LEMMA SameTwice ==
  ASSUME NEW l, NEW m, NEW n, SameCall(l, m), SameSearch(l, m), SameCall(m, n), SameSearch(m, n)
  PROVE  SameCall(l, n) /\ SameSearch(l, n)
BY DEF SameCall, SameSearch

LEMMA StepToIs ==
  ASSUME NEW l \in Locals, l.goal \in Goals, NEW n \in Nodes \cup {None}
  PROVE  \E m : /\ m = StepTo(l, n) /\ SameCall(l, m) /\ SameSearch(l, m) /\ Allowed(l.goal, m.at)
                /\ m.at \in {"link", "swap", "missing", "uncount"}
                /\ m.at = "missing" => n = None /\ l.goal \in {"get", "remove"}
<1>1. CASE n = None
  <2>1. PICK k \in Locals : k = OnlyCurr(l, n) /\ SameCall(l, k) /\ SameSearch(l, k)
    BY SetCurr
  <2>2. k.goal = l.goal
    BY <2>1 DEF SameSearch
  <2>3. PICK m \in Locals : /\ m = Missing(k) /\ SameCall(k, m) /\ SameSearch(k, m) /\ Allowed(k.goal, m.at)
                            /\ m.at \in {"swap", "missing", "uncount"}
                            /\ m.at = "missing" => k.goal \in {"get", "remove"}
    BY <2>2, MissingIs
  <2>4. m = StepTo(l, n)
    BY <1>1, <2>1, <2>3 DEF StepTo, OnlyCurr
  <2>5. SameCall(l, m) /\ SameSearch(l, m)
    BY <2>1, <2>3, SameTwice
  <2>. QED BY <1>1, <2>2, <2>3, <2>4, <2>5
<1>2. CASE n # None
  <2>1. "link" \in Labels
    BY DEF Labels, Searching
  <2>2. PICK m \in Locals : m = WithCurr(l, "link", n) /\ m.at = "link" /\ SameCall(l, m) /\ SameSearch(l, m)
    BY <2>1, AtCurr
  <2>3. m = StepTo(l, n)
    BY <1>2, <2>2 DEF StepTo, WithCurr
  <2>. QED BY <2>2, <2>3 DEF Allowed
<1>. QED BY <1>1, <1>2

\* Where the key would be is between the place of the cursor and what comes next.
LEMMA GapSeen ==
  ASSUME Flags # 0, NEW s, IsWorld(s), WorldOK(s), NEW u, NEW l \in Locals, NEW p, l.at \in Searching,
         ControlOK(u, s, l), PrevOK(s, l, p), l.goal # "dummy", Called(l), NEW c \in Nodes \cup {None},
         ReadIn(s, l.prev) = LinkTo(c), c # None => Above(s, c, l.hash, l.search)
  PROVE  MapOf(s)[l.key] = None
<1>1. l.search = l.key /\ l.hash = SplitHash(l.key) /\ ~First(l) /\ l.key \in Keys
  <2>1. l.search = l.key /\ l.hash = SplitHash(l.key) /\ ~First(l)
    BY GoalIs
  <2>. QED BY <2>1, LocalsFacts
<1>2. SearchOK(u, s, l)
  BY DEF ControlOK
<1>3. CASE l.prev[1] = "node"
  <2>1. PICK q \in s.list : q = l.prev[2] /\ s.link[q].to = c /\ Below(s, q, l.hash, l.search)
    BY <1>2, <1>3, ReadIs
  <2>. QED BY <1>1, <2>1, NotThere
<1>4. CASE l.prev[1] # "node"
  <2>1. l.prev[1] = "bucket"
    BY <1>4, LocalsFacts
  <2>2. c # None /\ s.hashnr[c] = ReverseBits(l.head) /\ ReverseBits(l.head) < l.hash /\ c \in Nodes
    BY <1>1, <1>2, <2>1, ReadIs
  <2>3. s.hashnr[c] \in Nat /\ l.hash \in Nat
    BY <2>2, WorldFacts, LocalsFacts
  <2>. QED BY <2>2, <2>3 DEF Above
<1>. QED BY <1>3, <1>4

LEMMA LoadSilent ==
  ASSUME NEW s, NEW u, NEW l \in Locals, NEW c, CallOK(s, l, c), ControlOK(u, s, l), l.at = "load",
         NEW n \in Nodes \cup {None}
  PROVE  CallOK(s, WithCurr(l, "confirm", n), c)
<1>1. "confirm" \in Labels
  BY DEF Labels, Searching
<1>2. PICK m \in Locals : m = WithCurr(l, "confirm", n) /\ m.at = "confirm" /\ SameCall(l, m) /\ SameSearch(l, m)
  BY <1>1, AtCurr
<1>3. l.at \in Searching \ {"unlink"} /\ Allowed(l.goal, m.at)
  BY <1>2 DEF Searching, Allowed
<1>4. CallOK(s, m, c)
  BY <1>2, <1>3, SearchStep
<1>. QED BY <1>2, <1>4

LEMMA RetrySilent ==
  ASSUME NEW s, NEW s2, NEW u, NEW l \in Locals, NEW c, CallOK(s, l, c), ControlOK(u, s, l), l.at \in Searching \ {"unlink"},
         MapOf(s2)[l.key] = MapOf(s)[l.key]
  PROVE  CallOK(s2, Retry(l), c)
<1>1. PICK m \in Locals : m = Retry(l) /\ m.at = "load" /\ SameCall(l, m) /\ SameSearch(l, m)
  BY RetryIs
<1>2. Allowed(l.goal, m.at)
  BY <1>1 DEF Allowed
<1>3. CallOK(s2, m, c)
  BY <1>1, <1>2, SearchStep
<1>. QED BY <1>1, <1>3

LEMMA StepToSilent ==
  ASSUME NEW s, NEW s2, NEW u, NEW l \in Locals, NEW k \in Locals, NEW c, CallOK(s, l, c), ControlOK(u, s, l),
         l.at \in Searching \ {"unlink"}, SameCall(l, k), SameSearch(l, k), NEW n \in Nodes \cup {None},
         MapOf(s2)[l.key] = MapOf(s)[l.key], n = None /\ l.goal # "dummy" => SawNone(s, l)
  PROVE  CallOK(s2, StepTo(k, n), c)
<1>1. l.goal \in Goals /\ k.goal = l.goal
  BY GoalIs DEF SameSearch
<1>2. PICK m : /\ m = StepTo(k, n) /\ SameCall(k, m) /\ SameSearch(k, m) /\ Allowed(l.goal, m.at)
               /\ m.at \in {"link", "swap", "missing", "uncount"}
               /\ m.at = "missing" => n = None /\ l.goal \in {"get", "remove"}
  BY <1>1, StepToIs
<1>3. SameCall(l, m) /\ SameSearch(l, m)
  BY <1>2, SameTwice
<1>4. CallOK(s2, m, c)
  BY <1>2, <1>3, SearchStep
<1>. QED BY <1>2, <1>4

LEMMA ConfirmSilent ==
  ASSUME Flags # 0, NEW s, IsWorld(s), WorldOK(s), NEW t, NEW l \in Locals, NEW p, ThreadOK(t, s, l, p), l.at = "confirm",
         NEW c, CallOK(s, l, c)
  PROVE  CallOK(s, IF ReadIn(s, l.prev) = LinkTo(l.curr) THEN StepTo(l, l.curr) ELSE Retry(l), c)
<1>1. l.at \in Searching /\ l.at # "unlink" /\ ControlOK(t, s, l) /\ PrevOK(s, l, p)
  BY DEF ThreadOK, CursorOK, Searching
<1>2. CASE ReadIn(s, l.prev) = LinkTo(l.curr)
  <2>1. PICK n \in Nodes \cup {None} : n = l.curr
    BY LocalsFacts
  <2>2. ASSUME n = None, l.goal # "dummy" PROVE SawNone(s, l)
    <3>. SUFFICES ASSUME Called(l) PROVE SawNone(s, l)
      BY DEF SawNone
    <3>1. MapOf(s)[l.key] = None
      BY <1>1, <1>2, <2>1, <2>2, GapSeen
    <3>. QED BY <3>1, SeeNow
  <2>3. SameCall(l, l) /\ SameSearch(l, l)
    BY DEF SameCall, SameSearch
  <2>4. CallOK(s, StepTo(l, n), c)
    BY <1>1, <2>2, <2>3, StepToSilent
  <2>. QED BY <1>2, <2>1, <2>4
<1>3. CASE ReadIn(s, l.prev) # LinkTo(l.curr)
  <2>1. CallOK(s, Retry(l), c)
    BY <1>1, RetrySilent
  <2>. QED BY <1>3, <2>1
<1>. QED BY <1>2, <1>3

\* An unmarked link: its node is in the list, with its key, and the last one if the link is null.
LEMMA LoadLinkSilent ==
  ASSUME Flags # 0, NEW s, IsWorld(s), WorldOK(s), NEW t, NEW l \in Locals, NEW p, ThreadOK(t, s, l, p), l.at = "link",
         NEW c, CallOK(s, l, c)
  PROVE  CallOK(s, WithLink(l, "next", s.link[l.curr]), c)
<1>1. l.at \in Searching /\ l.at # "unlink" /\ ControlOK(t, s, l) /\ l.curr \in Nodes
  <2>1. l.curr # None
    BY DEF ThreadOK, CursorOK, CurrOK
  <2>. QED BY <2>1, LocalsFacts DEF ThreadOK, Searching
<1>2. PICK w \in [to : Nodes \cup {None}, deleted : BOOLEAN] : w = s.link[l.curr]
  BY <1>1, WorldFacts DEF Links
<1>3. "next" \in Labels
  BY DEF Labels, Searching
<1>4. PICK m \in Locals : /\ m = WithLink(l, "next", w) /\ m.at = "next" /\ m.link = w /\ m.curr = l.curr
                          /\ SameCall(l, m) /\ SameSearch(l, m)
  BY <1>3, AtLink
<1>5. /\ m.op = l.op /\ m.key = l.key /\ m.hash = l.hash /\ m.search = l.search /\ m.goal = l.goal
      /\ l.key \in Keys
  BY <1>4, FieldsSame, LocalsFacts
<1>6. SameRun(l, m)
  <2>1. Allowed(l.goal, m.at) /\ m.at # "unlink"
    BY <1>4 DEF Allowed
  <2>. QED BY <1>1, <1>4, <2>1, SearchRuns
<1>7. ASSUME l.curr \in s.list, ~w.deleted, l.curr \in Elements, s.key[l.curr] = l.key PROVE MapOf(s)[l.key] = Present
  <2>1. Has(s, l.key)
    BY <1>2, <1>7 DEF Has, Unmarked
  <2>. QED BY <1>5, <2>1, MapHas
<1>8. ASSUME Called(l), l.curr \in s.list, l.goal # "dummy", w.to = None, Below(s, l.curr, l.hash, l.search) PROVE MapOf(s)[l.key] = None
  <2>1. l.search = l.key /\ l.hash = SplitHash(l.key)
    BY <1>1, <1>8, GoalIs
  <2>. QED BY <1>2, <1>5, <1>8, <2>1, NotThere
<1>9. ASSUME NEW seen \in SUBSET {Present, None}, Called(l), SeenOK(s, l, seen), MapOf(s)[m.key] \in seen PROVE SeenOK(s, m, seen)
  <2>1. ReadOK(s, m, seen)
    BY <1>4, <1>5, <1>7, <1>8, <1>9 DEF ReadOK
  <2>. QED BY <1>4, <1>9, <2>1 DEF SeenOK
<1>10. CallOK(s, m, c)
  BY <1>5, <1>6, <1>9, RunStep
<1>. QED BY <1>2, <1>4, <1>10

LEMMA ConfirmNextSilent ==
  ASSUME NEW s, NEW t, NEW l \in Locals, NEW p, ThreadOK(t, s, l, p), l.at = "next", NEW c, CallOK(s, l, c), NEW a \in {"judge", "link"}
  PROVE  CallOK(s, OnlyAt(l, a), c)
<1>1. l.at \in Searching /\ l.at # "unlink" /\ ControlOK(t, s, l) /\ a \in Labels
  BY DEF ThreadOK, Searching, Labels
<1>2. PICK m \in Locals : m = OnlyAt(l, a) /\ m.at = a /\ SameCall(l, m) /\ SameSearch(l, m) /\ SamePlace(l, m)
  BY <1>1, SetAt
<1>3. Allowed(l.goal, m.at) /\ m.at # "unlink"
  BY <1>2 DEF Allowed
<1>4. SameRun(l, m)
  BY <1>1, <1>2, <1>3, SearchRuns
<1>5. m.key = l.key /\ m.hash = l.hash /\ m.search = l.search /\ m.goal = l.goal /\ m.curr = l.curr /\ m.link = l.link
  BY <1>2, FieldsSame DEF SamePlace
<1>6. ASSUME NEW seen \in SUBSET {Present, None}, SeenOK(s, l, seen), MapOf(s)[m.key] \in seen PROVE SeenOK(s, m, seen)
  <2>1. ReadOK(s, m, seen)
    BY <1>5, <1>6 DEF ReadOK, SeenOK
  <2>. QED BY <1>2, <1>6, <2>1 DEF SeenOK
<1>7. CallOK(s, m, c)
  BY <1>4, <1>6, RunStep
<1>. QED BY <1>2, <1>7

\* What is reached is the key, or comes after the place where it would be.
LEMMA FoundSilent ==
  ASSUME Flags # 0, NEW s, IsWorld(s), WorldOK(s), NEW t, NEW l \in Locals, NEW p, ThreadOK(t, s, l, p), l.at = "judge",
         NEW c, CallOK(s, l, c), ReadIn(s, l.prev) = LinkTo(l.curr), ~l.link.deleted, ReachedIn(s, l)
  PROVE  CallOK(s, IF EqualIn(s, l) THEN Found(l) ELSE Missing(l), c)
<1>1. l.at \in Searching /\ l.at # "unlink" /\ ControlOK(t, s, l) /\ SearchOK(t, s, l) /\ PrevOK(s, l, p) /\ l.curr \in Nodes /\ l.curr # None
  BY JudgeFacts DEF Searching
<1>2. l.goal \in Goals /\ (l.goal # "dummy" /\ Called(l) => l.search = l.key)
  BY <1>1, GoalIs
<1>3. l.curr \in s.list
  BY <1>1, ReadIs
<1>4. CASE EqualIn(s, l)
  <2>1. PICK m \in Locals : /\ m = Found(l) /\ SameCall(l, m) /\ SameSearch(l, m) /\ Allowed(l.goal, m.at)
                            /\ m.at \in {"duplicate", "install", "mark", "found", "uncount"}
                            /\ m.at \in {"duplicate", "found"} => l.goal \in {"get", "insert"}
    BY <1>2, FoundIs
  <2>2. ASSUME l.goal # "dummy" PROVE SawPresent(s, l)
    <3>. SUFFICES ASSUME Called(l) PROVE SawPresent(s, l)
      BY DEF SawPresent
    <3>1. s.key[l.curr] = l.key /\ l.key \in Keys
      BY <1>2, <1>4, <2>2, LocalsFacts DEF EqualIn
    <3>2. l.key # DummyKey
      BY <3>1, KeyHash
    <3>3. l.curr \in Elements
      BY <1>1, <3>1, <3>2 DEF WorldOK, KeysOK, Nodes
    <3>. QED BY <1>3, <3>1, <3>3 DEF SawPresent, SeenOK, ReadOK
  <2>3. CallOK(s, m, c)
    BY <1>1, <2>1, <2>2, SearchStep
  <2>. QED BY <1>4, <2>1, <2>3
<1>5. CASE ~EqualIn(s, l)
  <2>1. PICK m \in Locals : /\ m = Missing(l) /\ SameCall(l, m) /\ SameSearch(l, m) /\ Allowed(l.goal, m.at)
                            /\ m.at \in {"swap", "missing", "uncount"}
                            /\ m.at = "missing" => l.goal \in {"get", "remove"}
    BY <1>2, MissingIs
  <2>2. ASSUME l.goal # "dummy" PROVE SawNone(s, l)
    <3>. SUFFICES ASSUME Called(l) PROVE SawNone(s, l)
      BY DEF SawNone
    <3>1. s.hashnr[l.curr] \in Nat /\ s.key[l.curr] \in Nat /\ l.hash \in Nat /\ l.search \in Nat
      BY <1>1, WorldFacts, LocalsFacts
    <3>2. Above(s, l.curr, l.hash, l.search)
      BY <1>5, <3>1 DEF ReachedIn, EqualIn, Above
    <3>3. PICK n \in Nodes \cup {None} : n = l.curr
      BY <1>1
    <3>4. MapOf(s)[l.key] = None
      BY <1>1, <2>2, <3>2, <3>3, GapSeen
    <3>. QED BY <3>4, SeeNow
  <2>3. CallOK(s, m, c)
    BY <1>1, <2>1, <2>2, SearchStep
  <2>. QED BY <1>5, <2>1, <2>3
<1>. QED BY <1>4, <1>5

LEMMA GoesOnSilent ==
  ASSUME NEW s, IsWorld(s), WorldOK(s), NEW t, NEW l \in Locals, NEW p, ThreadOK(t, s, l, p), l.at = "judge",
         NEW c, CallOK(s, l, c), ReadIn(s, l.prev) = LinkTo(l.curr), ~l.link.deleted, ~ReachedIn(s, l)
  PROVE  CallOK(s, StepTo(OnlyPrev(l, <<"node", l.curr>>), l.link.to), c)
<1>1. l.at \in Searching /\ l.at # "unlink" /\ ControlOK(t, s, l) /\ SearchOK(t, s, l) /\ PrevOK(s, l, p) /\ l.curr \in Nodes /\ l.curr # None
  BY JudgeFacts DEF Searching
<1>2. l.curr \in s.list
  BY <1>1, ReadIs
<1>3. PICK q \in Places : q = <<"node", l.curr>>
  BY <1>1 DEF Places
<1>4. PICK k \in Locals : k = OnlyPrev(l, q) /\ SameCall(l, k) /\ SameSearch(l, k)
  BY SetPrev
<1>5. PICK n \in Nodes \cup {None} : n = l.link.to
  BY LocalsFacts
<1>6. Below(s, l.curr, l.hash, l.search)
  <2>1. s.hashnr[l.curr] \in Nat /\ s.key[l.curr] \in Nat /\ l.hash \in Nat /\ l.search \in Nat
    BY <1>1, WorldFacts, LocalsFacts
  <2>. QED BY <2>1 DEF ReachedIn, Below
<1>7. n = None /\ l.goal # "dummy" => SawNone(s, l)
  BY <1>2, <1>5, <1>6 DEF SawNone, SeenOK, ReadOK
<1>8. CallOK(s, StepTo(k, n), c)
  BY <1>1, <1>4, <1>7, StepToSilent
<1>. QED BY <1>3, <1>4, <1>5, <1>8

\* The steps themselves: the map stays as it is, and what the caller has seen allows what it does next.
LEMMA LoadCalls ==
  ASSUME IInv, CallsOK, NEW t \in Threads, Load(t)
  PROVE  CallsOK' /\ Silent
<1>1. PICK s : s = World /\ IsWorld(s)
  BY Known
<1>2. PICK l \in Locals : l = th[t] /\ ThreadOK(t, s, l, pin[t])
  BY <1>1, Known
<1>3. l.at = "load" /\ ControlOK(t, s, l) /\ CallOK(s, l, call[t])
  BY <1>1, <1>2 DEF Load, At, ThreadOK, CallsOK
<1>4. PICK n \in Nodes \cup {None} : n = ReadIn(s, l.prev).to
  BY <1>1, ReadTyped
<1>5. PICK m : m = WithCurr(l, "confirm", n)
  OBVIOUS
<1>6. CallOK(s, m, call[t])
  BY <1>2, <1>3, <1>5, LoadSilent
<1>7. th' = [th EXCEPT ![t] = m]
  <2>1. Read(l.prev) = ReadIn(s, l.prev)
    BY <1>1, ReadSame
  <2>. QED BY Zenon, <1>2, <1>4, <1>5, <2>1 DEF Load, Local, WithCurr
<1>8. World' = World /\ call' = call
  BY WorldSame DEF Load, table, NoEffect
<1>. QED BY <1>1, <1>6, <1>7, <1>8, QuietSilent

LEMMA ConfirmCalls ==
  ASSUME Flags # 0, IInv, CallsOK, NEW t \in Threads, Confirm(t)
  PROVE  CallsOK' /\ Silent
<1>1. PICK s : s = World /\ IsWorld(s) /\ WorldOK(s)
  BY Known
<1>2. PICK l \in Locals : l = th[t] /\ ThreadOK(t, s, l, pin[t])
  BY <1>1, Known
<1>3. l.at = "confirm" /\ CallOK(s, l, call[t])
  BY <1>1, <1>2 DEF Confirm, At, CallsOK
<1>4. PICK m : m = IF ReadIn(s, l.prev) = LinkTo(l.curr) THEN StepTo(l, l.curr) ELSE Retry(l)
  OBVIOUS
<1>5. CallOK(s, m, call[t])
  BY <1>1, <1>2, <1>3, <1>4, ConfirmSilent
<1>6. th' = [th EXCEPT ![t] = m]
  <2>1. Read(l.prev) = ReadIn(s, l.prev)
    BY <1>1, ReadSame
  <2>. QED BY Zenon, <1>2, <1>4, <2>1 DEF Confirm, Local
<1>7. World' = World /\ call' = call
  BY WorldSame DEF Confirm, table, NoEffect
<1>. QED BY <1>1, <1>5, <1>6, <1>7, QuietSilent

LEMMA LoadLinkCalls ==
  ASSUME Flags # 0, IInv, CallsOK, NEW t \in Threads, LoadLink(t)
  PROVE  CallsOK' /\ Silent
<1>1. PICK s : s = World /\ IsWorld(s) /\ WorldOK(s) /\ s.link = link
  BY Known, WorldIs
<1>2. PICK l \in Locals : l = th[t] /\ ThreadOK(t, s, l, pin[t])
  BY <1>1, Known
<1>3. l.at = "link" /\ CallOK(s, l, call[t])
  BY <1>1, <1>2 DEF LoadLink, At, CallsOK
<1>4. PICK m : m = WithLink(l, "next", s.link[l.curr])
  OBVIOUS
<1>5. CallOK(s, m, call[t])
  BY <1>1, <1>2, <1>3, <1>4, LoadLinkSilent
<1>6. th' = [th EXCEPT ![t] = m]
  BY Zenon, <1>1, <1>2, <1>4 DEF LoadLink, Local, WithLink
<1>7. World' = World /\ call' = call
  BY WorldSame DEF LoadLink, table, NoEffect
<1>. QED BY <1>1, <1>5, <1>6, <1>7, QuietSilent

LEMMA ConfirmNextCalls ==
  ASSUME IInv, CallsOK, NEW t \in Threads, ConfirmNext(t)
  PROVE  CallsOK' /\ Silent
<1>1. PICK s : s = World /\ s.link = link
  BY WorldIs
<1>2. PICK l \in Locals : l = th[t] /\ ThreadOK(t, s, l, pin[t])
  BY <1>1, Known
<1>3. l.at = "next" /\ CallOK(s, l, call[t])
  BY <1>1, <1>2 DEF ConfirmNext, At, CallsOK
<1>4. PICK a \in {"judge", "link"} : a = IF link[l.curr] = l.link THEN "judge" ELSE "link"
  OBVIOUS
<1>5. PICK m : m = OnlyAt(l, a)
  OBVIOUS
<1>6. CallOK(s, m, call[t])
  BY <1>2, <1>3, <1>5, ConfirmNextSilent
<1>7. th' = [th EXCEPT ![t] = m]
  BY Zenon, <1>2, <1>4, <1>5 DEF ConfirmNext, Go, Local, OnlyAt
<1>8. World' = World /\ call' = call
  BY WorldSame DEF ConfirmNext, table, NoEffect
<1>. QED BY <1>1, <1>6, <1>7, <1>8, QuietSilent

LEMMA JudgeCalls ==
  ASSUME Flags # 0, IInv, CallsOK, NEW t \in Threads, Judge(t)
  PROVE  CallsOK' /\ Silent
<1>1. PICK s : s = World /\ IsWorld(s) /\ WorldOK(s) /\ s.hashnr = hashnr /\ s.key = key
  BY Known, WorldIs
<1>2. PICK l \in Locals : l = th[t] /\ ThreadOK(t, s, l, pin[t])
  BY <1>1, Known
<1>3. l.at = "judge" /\ CallOK(s, l, call[t])
  BY <1>1, <1>2 DEF Judge, At, CallsOK
<1>4. l.at \in Searching /\ l.at # "unlink" /\ ControlOK(t, s, l)
  BY <1>2, <1>3 DEF ThreadOK, Searching
<1>5. World' = World /\ call' = call
  BY WorldSame DEF Judge, table, NoEffect
<1>6. Read(l.prev) = ReadIn(s, l.prev)
  BY <1>1, ReadSame
<1>7. (Reached(l) <=> ReachedIn(s, l)) /\ (Equal(l) <=> EqualIn(s, l))
  BY <1>1 DEF Reached, ReachedIn, Equal, EqualIn
<1>8. \E m : Local(t, m) /\ CallOK(s, m, call[t])
  <2>1. CASE Local(t, Retry(l))
    <3>1. MapOf(s)[l.key] = MapOf(s)[l.key]
      OBVIOUS
    <3>2. CallOK(s, Retry(l), call[t])
      BY <1>2, <1>3, <1>4, RetrySilent
    <3>. QED BY <2>1, <3>2
  <2>2. CASE Go(t, "help")
    <3>1. "help" \in Labels
      BY DEF Labels, Searching
    <3>2. PICK m \in Locals : m = OnlyAt(l, "help") /\ m.at = "help" /\ SameCall(l, m) /\ SameSearch(l, m)
      BY <3>1, SetAt
    <3>3. Allowed(l.goal, m.at)
      BY <3>2 DEF Allowed
    <3>4. CallOK(s, m, call[t])
      BY <1>3, <1>4, <3>2, <3>3, SearchStep
    <3>5. Local(t, m)
      BY Zenon, <1>2, <2>2, <3>2 DEF Go, OnlyAt
    <3>. QED BY <3>4, <3>5
  <2>3. CASE /\ Read(l.prev) = LinkTo(l.curr) /\ ~l.link.deleted /\ Reached(l)
             /\ Local(t, IF Equal(l) THEN Found(l) ELSE Missing(l))
    <3>1. PICK m : m = IF EqualIn(s, l) THEN Found(l) ELSE Missing(l)
      OBVIOUS
    <3>2. CallOK(s, m, call[t])
      BY <1>1, <1>2, <1>3, <1>6, <1>7, <2>3, <3>1, FoundSilent
    <3>3. Local(t, m)
      BY Zenon, <1>7, <2>3, <3>1
    <3>. QED BY <3>2, <3>3
  <2>4. CASE /\ Read(l.prev) = LinkTo(l.curr) /\ ~l.link.deleted /\ ~Reached(l)
             /\ Local(t, StepTo([l EXCEPT !.prev = <<"node", l.curr>>], l.link.to))
    <3>1. PICK m : m = StepTo(OnlyPrev(l, <<"node", l.curr>>), l.link.to)
      OBVIOUS
    <3>2. CallOK(s, m, call[t])
      BY <1>1, <1>2, <1>3, <1>6, <1>7, <2>4, <3>1, GoesOnSilent
    <3>3. Local(t, m)
      BY Zenon, <2>4, <3>1 DEF OnlyPrev
    <3>. QED BY <3>2, <3>3
  <2>5. \/ Local(t, Retry(l))
        \/ Go(t, "help")
        \/ /\ Read(l.prev) = LinkTo(l.curr) /\ ~l.link.deleted /\ Reached(l)
           /\ Local(t, IF Equal(l) THEN Found(l) ELSE Missing(l))
        \/ /\ Read(l.prev) = LinkTo(l.curr) /\ ~l.link.deleted /\ ~Reached(l)
           /\ Local(t, StepTo([l EXCEPT !.prev = <<"node", l.curr>>], l.link.to))
    BY Zenon, <1>2 DEF Judge
  <2>. QED BY <2>1, <2>2, <2>3, <2>4, <2>5
<1>9. PICK m : th' = [th EXCEPT ![t] = m] /\ CallOK(s, m, call[t])
  BY <1>8 DEF Local
<1>. QED BY <1>1, <1>5, <1>9, QuietSilent

\* An element that is marked is in no map: to take it out changes nothing.
LEMMA RemovedWorld ==
  ASSUME IInv, NEW t \in Threads, NEW l \in Locals, l = th[t], l.at \in {"help", "unlink"},
         NEW s, s = World, NEW s2, s2 = World', ReadIn(s, l.prev) = LinkTo(l.curr),
         Follow(l.prev, l.link.to), FreeElement(l.curr), hashnr' = hashnr, pool' = pool
  PROVE  /\ IsWorld(s2) /\ WorldOK(s2) /\ Stays(s, s2, None) /\ MapOf(s2) = MapOf(s)
         /\ l.prev[1] = "node" /\ l.prev[2] \in s2.list /\ l.prev[2] \in s.list /\ s2.link[l.prev[2]] = LinkTo(l.link.to)
<1>1. IsWorld(s) /\ WorldOK(s) /\ pin[t] \in Pins /\ ThreadOK(t, s, l, pin[t])
  BY Known
<1>2. /\ l.prev[1] = "node" /\ l.prev[2] \in s.list /\ l.curr \in s.list
      /\ s.link[l.prev[2]] = LinkTo(l.curr) /\ s.link[l.curr].deleted /\ s.link[l.curr].to = l.link.to
  BY <1>1, RemoveFacts
<1>3. l.prev[2] \in Nodes /\ l.curr \in Elements /\ l.prev = <<"node", l.prev[2]>> /\ l.link.to \in Nodes \cup {None}
  BY <1>1, <1>2, MarkedIsElement, LocalsFacts
<1>4. PICK q \in Nodes : q = l.prev[2]
  BY <1>3
<1>5. PICK c \in Elements : c = l.curr
  BY <1>3
<1>6. PICK d \in Nodes \cup {None} : d = l.link.to
  BY <1>3
<1>7. Typed(s2) /\ TakenOut(s, s2, q, c, d)
  <2>1. Follow(<<"node", q>>, d) /\ FreeElement(c)
    BY Zenon, <1>3, <1>4, <1>5, <1>6
  <2>. QED BY <2>1, TakenOutNext
<1>8. /\ q \in s.list /\ c \in s.list /\ s.link[q] = LinkTo(c) /\ s.link[c].deleted
      /\ TakenOut(s, s2, q, c, s.link[c].to)
  BY Zenon, <1>2, <1>4, <1>5, <1>6, <1>7
<1>9. IsWorld(s2) /\ WorldOK(s2) /\ s2.list = s.list \ {c} /\ q # c
  BY <1>1, <1>7, <1>8, TakeOut
<1>10. /\ s2.link[q] = LinkTo(d) /\ s2.hashnr = s.hashnr
       /\ \A m \in Nodes : m # q => s2.link[m] = s.link[m]
       /\ \A m \in Nodes : m # c => s2.key[m] = s.key[m]
  BY <1>7 DEF TakenOut
<1>11. s.list \subseteq Nodes
  BY <1>1 DEF IsWorld
<1>12. Stays(s, s2, None)
  BY <1>9, <1>10, <1>11 DEF Stays
<1>13. Unmarked(s2) = Unmarked(s)
  <2>1. ~s.link[q].deleted /\ ~s2.link[q].deleted
    BY <1>8, <1>10 DEF LinkTo
  <2>2. \A m \in s2.list : s2.link[m].deleted <=> s.link[m].deleted
    BY <1>9, <1>10, <1>11, <2>1
  <2>. QED BY <1>8, <1>9, <2>2 DEF Unmarked
<1>14. \A m \in Unmarked(s) : s2.key[m] = s.key[m]
  BY <1>8, <1>10, <1>11 DEF Unmarked
<1>15. MapOf(s2) = MapOf(s)
  BY <1>13, <1>14, MapSame
<1>. QED BY <1>2, <1>4, <1>6, <1>8, <1>9, <1>10, <1>12, <1>15

LEMMA HelpRemoveCalls ==
  ASSUME Flags # 0, IInv, CallsOK, NEW t \in Threads, HelpRemove(t)
  PROVE  CallsOK' /\ Silent
<1>1. PICK s : s = World /\ IsWorld(s) /\ WorldOK(s)
  BY Known
<1>2. PICK l \in Locals : l = th[t] /\ ThreadOK(t, s, l, pin[t])
  BY <1>1, Known
<1>3. l.at = "help" /\ CallOK(s, l, call[t])
  BY <1>1, <1>2 DEF HelpRemove, At, CallsOK
<1>4. l.at \in Searching /\ l.at # "unlink" /\ ControlOK(t, s, l) /\ PrevOK(s, l, pin[t])
  BY <1>2, <1>3 DEF ThreadOK, CursorOK, Searching
<1>5. Read(l.prev) = ReadIn(s, l.prev)
  BY <1>1, ReadSame
<1>6. hashnr' = hashnr /\ pool' = pool /\ call' = call
  BY DEF HelpRemove, NoEffect
<1>7. CASE Read(l.prev) # LinkTo(l.curr)
  <2>1. Local(t, Retry(l)) /\ UNCHANGED <<link, bucket, freed, key, pin>>
    BY Zenon, <1>2, <1>7 DEF HelpRemove
  <2>2. PICK m : m = Retry(l)
    OBVIOUS
  <2>3. CallOK(s, m, call[t])
    BY <1>3, <1>4, <2>2, RetrySilent
  <2>4. th' = [th EXCEPT ![t] = m]
    BY Zenon, <2>1, <2>2 DEF Local
  <2>5. World' = World
    BY <1>6, <2>1, WorldSame DEF list, memory
  <2>. QED BY <1>1, <1>6, <2>3, <2>4, <2>5, QuietSilent
<1>8. CASE Read(l.prev) = LinkTo(l.curr)
  <2>1. Follow(l.prev, l.link.to) /\ FreeElement(l.curr) /\ Local(t, StepTo(l, l.link.to))
    BY Zenon, <1>2, <1>8 DEF HelpRemove
  <2>2. ReadIn(s, l.prev) = LinkTo(l.curr)
    BY Zenon, <1>5, <1>8
  <2>3. PICK s2 : s2 = World'
    OBVIOUS
  <2>4. /\ IsWorld(s2) /\ WorldOK(s2) /\ Stays(s, s2, None) /\ MapOf(s2) = MapOf(s)
        /\ l.prev[1] = "node" /\ l.prev[2] \in s2.list /\ l.prev[2] \in s.list /\ s2.link[l.prev[2]] = LinkTo(l.link.to)
    BY <1>1, <1>2, <1>3, <1>6, <2>1, <2>2, <2>3, RemovedWorld
  <2>5. PICK n \in Nodes \cup {None} : n = l.link.to
    BY LocalsFacts
  <2>6. ASSUME n = None, l.goal # "dummy" PROVE SawNone(s, l)
    <3>. SUFFICES ASSUME Called(l) PROVE SawNone(s, l)
      BY DEF SawNone
    <3>1. l.search = l.key /\ l.hash = SplitHash(l.key)
      BY <1>4, <2>6, GoalIs
    <3>2. PICK q \in s2.list : q = l.prev[2] /\ s2.link[q] = LinkTo(None) /\ q \in s.list
      BY <2>4, <2>5, <2>6
    <3>3. Below(s, q, l.hash, l.search)
      BY <1>4, <2>4, <3>2 DEF PrevOK
    <3>4. s2.hashnr[q] = s.hashnr[q] /\ s2.key[q] = s.key[q]
      <4>1. q # None
        BY <2>4, <3>2, SplitListConstants DEF IsWorld
      <4>. QED BY <2>4, <3>2, <4>1 DEF Stays
    <3>5. Below(s2, q, SplitHash(l.key), l.key)
      BY <3>1, <3>3, <3>4 DEF Below
    <3>6. l.key \in Keys /\ s2.link[q].to = None
      <4>1. l.key \in Keys
        BY LocalsFacts
      <4>. QED BY <3>2, <4>1 DEF LinkTo
    <3>7. MapOf(s2)[l.key] = None
      BY <2>4, <3>5, <3>6, NotThere
    <3>. QED BY <2>4, <3>7, SeeNow
  <2>7. PICK m : m = StepTo(l, n)
    OBVIOUS
  <2>8. CallOK(s2, m, call[t])
    <3>1. SameCall(l, l) /\ SameSearch(l, l)
      BY DEF SameCall, SameSearch
    <3>. QED BY <1>3, <1>4, <2>4, <2>6, <2>7, <3>1, StepToSilent
  <2>9. th' = [th EXCEPT ![t] = m]
    BY Zenon, <2>1, <2>5, <2>7 DEF Local
  <2>. QED BY <1>1, <1>6, <2>3, <2>4, <2>8, <2>9, NoneIsNew, SilentStep
<1>. QED BY <1>7, <1>8

\* The list, and what is known of its nodes, stay as they are.
SameList(s, s2) ==
    /\ s2.list = s.list
    /\ \A m \in s.list : /\ s2.hashnr[m] = s.hashnr[m] /\ s2.key[m] = s.key[m]
                         /\ s2.link[m].deleted <=> s.link[m].deleted

LEMMA ListKept ==
  ASSUME NEW s, NEW s2, SameList(s, s2)
  PROVE  Stays(s, s2, None) /\ MapOf(s2) = MapOf(s)
<1>1. Stays(s, s2, None)
  BY DEF SameList, Stays
<1>2. Unmarked(s2) = Unmarked(s)
  BY DEF SameList, Unmarked
<1>3. \A m \in Unmarked(s) : s2.key[m] = s.key[m]
  BY DEF SameList, Unmarked
<1>. QED BY <1>1, <1>2, <1>3, MapSame

LEMMA KeptSilent ==
  ASSUME IInv, CallsOK, NEW t \in Threads, UNCHANGED call, NEW s2, s2 = World', SameList(World, s2),
         NEW l, l = th[t], NEW m, th' = [th EXCEPT ![t] = m], SameRun(l, m), Plain(m)
  PROVE  CallsOK' /\ Silent
<1>1. PICK s : s = World
  OBVIOUS
<1>2. Stays(s, s2, None) /\ MapOf(s2) = MapOf(s) /\ None \notin s.list \cup s.freed
  BY <1>1, ListKept, NoneIsNew
<1>3. CallOK(s, l, call[t]) /\ MapOf(s2)[l.key] = MapOf(s)[l.key]
  BY <1>1, <1>2 DEF CallsOK
<1>4. CallOK(s2, m, call[t])
  BY <1>3, PlainStep
<1>. QED BY <1>1, <1>2, <1>4, SilentStep

LEMMA SameSilent ==
  ASSUME IInv, CallsOK, NEW t \in Threads, UNCHANGED call, World' = World,
         NEW l, l = th[t], NEW m, th' = [th EXCEPT ![t] = m], SameRun(l, m), Plain(m)
  PROVE  CallsOK' /\ Silent
<1>1. PICK s2 : s2 = World
  OBVIOUS
<1>2. SameList(s2, s2)
  BY DEF SameList
<1>. QED BY <1>1, <1>2, KeptSilent

LEMMA FindIs ==
  ASSUME NEW l \in Locals, NEW d, NEW h, NEW e, NEW g
  PROVE  LET m == Find(l, d, h, e, g)
         IN  m.at = "load" /\ m.goal = g /\ m.op = l.op /\ m.key = l.key
BY DEF Find, Locals

LEMMA UnlinkCalls ==
  ASSUME IInv, CallsOK, NEW t \in Threads, Unlink(t)
  PROVE  CallsOK' /\ Silent
<1>1. PICK s : s = World /\ IsWorld(s) /\ WorldOK(s)
  BY Known
<1>2. PICK l \in Locals : l = th[t] /\ ThreadOK(t, s, l, pin[t])
  BY <1>1, Known
<1>3. l.at = "unlink" /\ CallOK(s, l, call[t])
  BY <1>1, <1>2 DEF Unlink, At, CallsOK
<1>4. Read(l.prev) = ReadIn(s, l.prev)
  BY <1>1, ReadSame
<1>5. hashnr' = hashnr /\ pool' = pool /\ call' = call
  BY DEF Unlink, NoEffect
<1>6. CASE Read(l.prev) # LinkTo(l.curr)
  <2>1. Local(t, Find(l, l.head, l.hash, l.search, "cleanup")) /\ UNCHANGED <<link, bucket, freed, key>>
    BY Zenon, <1>2, <1>6 DEF Unlink
  <2>2. PICK m : m = Find(l, l.head, l.hash, l.search, "cleanup")
    OBVIOUS
  <2>3. m.at = "load" /\ m.goal = "cleanup" /\ m.op = l.op /\ m.key = l.key
    BY <2>2, FindIs
  <2>4. SameRun(l, m) /\ Plain(m)
    BY <1>3, <2>3 DEF SameRun, Called, Took, Searching, Plain
  <2>5. th' = [th EXCEPT ![t] = m]
    BY Zenon, <2>1, <2>2 DEF Local
  <2>6. World' = World
    BY <1>5, <2>1, WorldSame DEF list, memory
  <2>. QED BY <1>2, <1>5, <2>4, <2>5, <2>6, SameSilent
<1>7. CASE Read(l.prev) = LinkTo(l.curr)
  <2>1. Follow(l.prev, l.link.to) /\ FreeElement(l.curr) /\ Go(t, "uncount")
    BY Zenon, <1>2, <1>7 DEF Unlink
  <2>2. ReadIn(s, l.prev) = LinkTo(l.curr)
    BY Zenon, <1>4, <1>7
  <2>3. PICK s2 : s2 = World'
    OBVIOUS
  <2>4. Stays(s, s2, None) /\ MapOf(s2) = MapOf(s)
    BY <1>1, <1>2, <1>3, <1>5, <2>1, <2>2, <2>3, RemovedWorld
  <2>5. PICK m : m = OnlyAt(l, "uncount")
    OBVIOUS
  <2>6. m.at = "uncount" /\ m.op = l.op /\ m.key = l.key
    <3>1. "uncount" \in Labels
      BY DEF Labels
    <3>. QED BY <2>5, <3>1, SetAt DEF SameCall
  <2>7. SameRun(l, m) /\ Plain(m)
    BY <1>3, <2>6 DEF SameRun, Called, Took, Searching, Plain
  <2>8. MapOf(s2)[l.key] = MapOf(s)[l.key]
    BY <2>4
  <2>9. CallOK(s2, m, call[t])
    BY <1>3, <2>7, <2>8, PlainStep
  <2>10. th' = [th EXCEPT ![t] = m]
    BY Zenon, <1>2, <2>1, <2>5 DEF Go, Local, OnlyAt
  <2>. QED BY <1>1, <1>5, <2>3, <2>4, <2>9, <2>10, NoneIsNew, SilentStep
<1>. QED BY <1>6, <1>7

LEMMA ReadSizeCalls ==
  ASSUME IInv, CallsOK, NEW t \in Threads, ReadSize(t)
  PROVE  CallsOK' /\ Silent
<1>1. PICK l \in Locals : l = th[t]
  BY Known
<1>2. l.at = "hash"
  BY <1>1 DEF ReadSize, At
<1>3. PICK b \in Buckets : b = Hash[l.key] % size
  <2>1. l.key \in Keys /\ SizeOK(size)
    BY LocalsFacts DEF IInv
  <2>2. PICK k \in Keys : k = l.key
    BY <2>1
  <2>3. Hash[k] % size \in Buckets
    BY <2>1, BucketOfKey
  <2>. QED BY <2>2, <2>3
<1>4. PICK m : m = WithBucket(l, "slot", b)
  OBVIOUS
<1>5. m.at = "slot" /\ m.op = l.op /\ m.key = l.key
  <2>1. "slot" \in Labels
    BY DEF Labels
  <2>. QED BY <1>4, <2>1, AtBucket
<1>6. SameRun(l, m) /\ Plain(m)
  BY <1>2, <1>5 DEF SameRun, Called, Took, Searching, Plain
<1>7. th' = [th EXCEPT ![t] = m]
  BY Zenon, <1>1, <1>3, <1>4 DEF ReadSize, Local, WithBucket
<1>8. World' = World /\ call' = call
  BY WorldSame DEF ReadSize, table, NoEffect
<1>. QED BY <1>1, <1>6, <1>7, <1>8, SameSilent

LEMMA ReadSizeAgainCalls ==
  ASSUME IInv, CallsOK, NEW t \in Threads, ReadSizeAgain(t)
  PROVE  CallsOK' /\ Silent
<1>1. PICK l \in Locals : l = th[t]
  BY Known
<1>2. l.at = "count"
  BY <1>1 DEF ReadSizeAgain, At
<1>3. PICK m : m = WithSize(l, "add", size)
  OBVIOUS
<1>4. m.at = "add" /\ m.op = l.op /\ m.key = l.key
  <2>1. size \in Nat /\ "add" \in Labels
    BY DEF IInv, SizeOK, Labels
  <2>. QED BY <1>3, <2>1, AtSize DEF SameCall
<1>5. SameRun(l, m) /\ Plain(m)
  BY <1>2, <1>4 DEF SameRun, Called, Took, Searching, Plain
<1>6. th' = [th EXCEPT ![t] = m]
  BY Zenon, <1>1, <1>3 DEF ReadSizeAgain, Local, WithSize
<1>7. World' = World /\ call' = call
  BY WorldSame DEF ReadSizeAgain, table, NoEffect
<1>. QED BY <1>1, <1>5, <1>6, <1>7, SameSilent

LEMMA SpinMatchCalls ==
  ASSUME IInv, CallsOK, NEW t \in Threads, SpinMatch(t)
  PROVE  CallsOK' /\ Silent
<1>1. PICK l \in Locals : l = th[t] /\ th = [th EXCEPT ![t] = l]
  BY Known DEF IInv
<1>2. l.at = "spin"
  BY <1>1 DEF SpinMatch, At
<1>3. SameRun(l, l) /\ Plain(l)
  BY <1>2 DEF SameRun, Plain
<1>4. World' = World /\ call' = call /\ th' = [th EXCEPT ![t] = l]
  BY <1>1, WorldSame DEF SpinMatch, table, NoEffect
<1>. QED BY <1>1, <1>3, <1>4, SameSilent

LEMMA SearchUnpinCalls ==
  ASSUME IInv, CallsOK, NEW t \in Threads, SearchUnpin(t)
  PROVE  CallsOK' /\ Silent
<1>1. PICK s : s = World
  OBVIOUS
<1>2. PICK l \in Locals : l = th[t]
  BY Known
<1>3. l.at = "using" /\ CallOK(s, l, call[t])
  BY <1>1, <1>2 DEF SearchUnpin, At, CallsOK
<1>4. PICK m : m = Idle /\ m.at = "idle"
  BY IdleIs
<1>5. CallOK(s, m, call[t])
  BY <1>3, <1>4 DEF CallOK, Called
<1>6. th' = [th EXCEPT ![t] = m]
  BY Zenon, <1>4 DEF SearchUnpin, Done
<1>7. World' = World /\ call' = call
  BY WorldSame DEF SearchUnpin, table, NoEffect
<1>. QED BY <1>1, <1>5, <1>6, <1>7, QuietSilent

LEMMA StartRuns ==
  ASSUME NEW l \in Locals, l.at \in {"slot", "install"}, l.op \in Ops, NEW h
  PROVE  SameRun(l, Start(l, h)) /\ Plain(Start(l, h))
<1>1. CASE l.op = "match"
  <2>1. PICK m : m = WithHead(l, "spin", l.bucket) /\ m.at = "spin" /\ m.op = l.op /\ m.key = l.key
    <3>1. "spin" \in Labels /\ l.bucket \in Buckets
      BY LocalsFacts DEF Labels
    <3>. QED BY <3>1, AtHead DEF SameCall
  <2>2. SameRun(l, m) /\ Plain(m)
    BY <1>1, <2>1 DEF SameRun, Called, Took, Searching, Plain
  <2>3. m = Start(l, h)
    BY Zenon, <1>1, <2>1 DEF Start, WithHead
  <2>. QED BY <2>2, <2>3
<1>2. CASE l.op # "match"
  <2>1. PICK m : m = Find(l, l.bucket, h, Sought(l.op, l.key), l.op) /\ m.at = "load" /\ m.goal = l.op /\ m.op = l.op /\ m.key = l.key
    BY FindIs
  <2>2. m.goal # "cleanup"
    BY <2>1 DEF Ops
  <2>3. SameRun(l, m) /\ Plain(m)
    BY <2>1, <2>2 DEF SameRun, Called, Took, Searching, Plain
  <2>4. m = Start(l, h)
    BY Zenon, <1>2, <2>1 DEF Start
  <2>. QED BY <2>3, <2>4
<1>. QED BY <1>1, <1>2

\* The search for a dummy node.
LEMMA DummyRuns ==
  ASSUME NEW l \in Locals, l.at \in {"parent", "install"}, NEW d, NEW h, NEW e, NEW m, m = Find(l, d, h, e, "dummy")
  PROVE  SameRun(l, m) /\ Plain(m)
<1>1. m.at = "load" /\ m.goal = "dummy" /\ m.op = l.op /\ m.key = l.key
  BY FindIs
<1>. QED BY <1>1 DEF SameRun, Called, Took, Searching, Plain

\* A node that is not in the list gets its hash number.
LEMMA RenumberedSame ==
  ASSUME NEW s, IsWorld(s), WorldOK(s), NEW s2, Typed(s2), NEW x, x \notin s.list, Renumbered(s, s2, x)
  PROVE  SameList(s, s2)
<1>1. s2.list = s.list
  BY RenumberStep
<1>2. s.list \subseteq Nodes
  BY DEF IsWorld
<1>. QED BY <1>1, <1>2 DEF SameList, Renumbered

LEMMA HandNotListed ==
  ASSUME NEW s, IsWorld(s), NEW t, NEW l, NEW p, ThreadOK(t, s, l, p)
  PROVE  l.node \notin s.list
BY SplitListConstants DEF ThreadOK, ControlOK, HandOK, IsWorld

LEMMA ReadSlotCalls ==
  ASSUME IInv, CallsOK, NEW t \in Threads, ReadSlot(t)
  PROVE  CallsOK' /\ Silent
<1>1. PICK s : s = World /\ IsWorld(s) /\ WorldOK(s)
  BY Known
<1>2. PICK l \in Locals : l = th[t] /\ ThreadOK(t, s, l, pin[t])
  BY <1>1, Known
<1>3. l.at = "slot" /\ l.op \in Ops /\ l.bucket \in Buckets
  <2>1. l.at = "slot"
    BY <1>2 DEF ReadSlot, At
  <2>2. l.op \in Ops
    BY <1>2, <2>1 DEF ThreadOK, ControlOK, OpOK
  <2>. QED BY <2>1, <2>2, LocalsFacts
<1>4. /\ link' = link /\ key' = key /\ bucket' = bucket /\ pool' = pool /\ freed' = freed /\ call' = call
  BY DEF ReadSlot, table, memory, NoEffect
<1>5. CASE bucket[l.bucket] = None
  <2>1. Local(t, [l EXCEPT !.at = "parent", !.frames = <<l.bucket>>]) /\ hashnr' = hashnr
    BY Zenon, <1>2, <1>5 DEF ReadSlot
  <2>2. PICK m : m = WithFrames(l, "parent", <<l.bucket>>)
    OBVIOUS
  <2>3. m.at = "parent" /\ m.op = l.op /\ m.key = l.key
    <3>1. PICK f \in Seq(Buckets) : f = <<l.bucket>>
      <4>1. PICK b \in Buckets : b = l.bucket
        BY <1>3
      <4>2. <<b>> \in Seq(Buckets)
        OBVIOUS
      <4>. QED BY <4>1, <4>2
    <3>2. "parent" \in Labels
      BY DEF Labels
    <3>3. m = WithFrames(l, "parent", f)
      BY <2>2, <3>1
    <3>. QED BY <3>2, <3>3, AtFrames
  <2>4. SameRun(l, m) /\ Plain(m)
    BY <1>3, <2>3 DEF SameRun, Called, Took, Searching, Plain
  <2>5. th' = [th EXCEPT ![t] = m]
    BY Zenon, <2>1, <2>2 DEF Local, WithFrames
  <2>6. World' = World
    BY <1>4, <2>1, WorldSame DEF list, memory
  <2>. QED BY <1>2, <1>4, <2>4, <2>5, <2>6, SameSilent
<1>6. CASE bucket[l.bucket] # None
  <2>1. /\ Local(t, Start(l, SplitHash(l.key)))
        /\ IF l.node # None THEN hashnr' = [hashnr EXCEPT ![l.node] = SplitHash(l.key)] ELSE UNCHANGED hashnr
    BY Zenon, <1>2, <1>6 DEF ReadSlot
  <2>2. hashnr' = IF l.node = None THEN hashnr ELSE [hashnr EXCEPT ![l.node] = SplitHash(l.key)]
    BY <2>1
  <2>3. PICK s2 : s2 = World' /\ Typed(s2) /\ Renumbered(s, s2, l.node)
    <3>1. bucket' \in [Buckets -> Nodes \cup {None}]
      BY <1>4, TypedNow
    <3>2. \A b \in Buckets : bucket'[b] = bucket[b]
      BY <1>4
    <3>3. Typed(World') /\ Renumbered(World, World', l.node)
      BY <1>2, <1>4, <2>2, <3>1, <3>2, HandNumbered
    <3>. QED BY <1>1, <3>3
  <2>4. SameList(s, s2)
    <3>1. PICK x : x = l.node
      OBVIOUS
    <3>2. x \notin s.list /\ Renumbered(s, s2, x)
      BY <1>1, <1>2, <2>3, <3>1, HandNotListed
    <3>. QED BY <1>1, <2>3, <3>2, RenumberedSame
  <2>5. PICK m : m = Start(l, SplitHash(l.key))
    OBVIOUS
  <2>6. SameRun(l, m) /\ Plain(m)
    BY <1>3, <2>5, StartRuns
  <2>7. th' = [th EXCEPT ![t] = m]
    BY Zenon, <2>1, <2>5 DEF Local
  <2>. QED BY <1>1, <1>2, <1>4, <2>3, <2>4, <2>6, <2>7, KeptSilent
<1>. QED BY <1>5, <1>6

LEMMA ReadParentCalls ==
  ASSUME IInv, CallsOK, NEW t \in Threads, ReadParent(t)
  PROVE  CallsOK' /\ Silent
<1>1. PICK s : s = World /\ IsWorld(s) /\ WorldOK(s)
  BY Known
<1>2. PICK l \in Locals : l = th[t] /\ ThreadOK(t, s, l, pin[t])
  BY <1>1, Known
<1>3. l.at = "parent"
  BY <1>2 DEF ReadParent, At
<1>4. /\ link' = link /\ key' = key /\ bucket' = bucket /\ pool' = pool /\ freed' = freed /\ call' = call
  BY DEF ReadParent, table, memory, NoEffect
<1>5. /\ l.frames # <<>> /\ \A i \in 1 .. Len(l.frames) : <<l.frames[i], t>> \notin s.list
  BY <1>2, <1>3, FramesLeftAt DEF FramesLeft
<1>6. PICK b \in Buckets : b = Head(l.frames) /\ <<b, t>> \notin s.list
  <2>1. l.frames \in Seq(Buckets)
    BY LocalsFacts
  <2>2. Head(l.frames) = l.frames[1] /\ Head(l.frames) \in Buckets /\ 1 \in 1 .. Len(l.frames)
    BY <1>5, <2>1, FramesFacts
  <2>. QED BY <1>5, <2>2
<1>7. CASE bucket[ClearHighestBit(b)] = None /\ b # 0
  <2>1. Local(t, [l EXCEPT !.frames = <<ClearHighestBit(b)>> \o l.frames]) /\ hashnr' = hashnr
    BY Zenon, <1>2, <1>6, <1>7 DEF ReadParent
  <2>2. PICK m : m = OnlyFrames(l, <<ClearHighestBit(b)>> \o l.frames)
    OBVIOUS
  <2>3. m.at = l.at /\ m.op = l.op /\ m.key = l.key
    BY <2>2 DEF OnlyFrames, Locals
  <2>4. SameRun(l, m) /\ Plain(m)
    BY <1>3, <2>3 DEF SameRun, Called, Took, Searching, Plain
  <2>5. th' = [th EXCEPT ![t] = m]
    BY Zenon, <2>1, <2>2 DEF Local, OnlyFrames
  <2>6. World' = World
    BY <1>4, <2>1, WorldSame DEF list, memory
  <2>. QED BY <1>2, <1>4, <2>4, <2>5, <2>6, SameSilent
<1>8. CASE ~(bucket[ClearHighestBit(b)] = None /\ b # 0)
  <2>1. InsertDummy(t, l, b)
    BY Zenon, <1>2, <1>6, <1>8 DEF ReadParent
  <2>2. PICK x \in Nodes : x = <<b, t>>
    BY DEF Nodes, Dummies
  <2>3. PICK v \in Nat : v = ReverseBits(b)
    BY BucketReversed
  <2>4. hashnr' = [hashnr EXCEPT ![x] = v]
    BY Zenon, <2>1, <2>2, <2>3 DEF InsertDummy
  <2>5. PICK s2 : s2 = World' /\ Typed(s2) /\ Renumbered(s, s2, x)
    <3>1. bucket' \in [Buckets -> Nodes \cup {None}]
      BY <1>4, TypedNow
    <3>2. \A d \in Buckets : bucket'[d] = bucket[d]
      BY <1>4
    <3>3. Typed(World') /\ Renumbered(World, World', x)
      BY <1>4, <2>4, <3>1, <3>2, RenumberedNext
    <3>. QED BY <1>1, <3>3
  <2>6. x \notin s.list
    BY Zenon, <1>6, <2>2
  <2>7. SameList(s, s2)
    BY <1>1, <2>5, <2>6, RenumberedSame
  <2>8. PICK m : m = Find(l, ClearHighestBit(b), ReverseBits(b), DummyKey, "dummy")
    OBVIOUS
  <2>9. SameRun(l, m) /\ Plain(m)
    BY <1>3, <2>8, DummyRuns
  <2>10. th' = [th EXCEPT ![t] = m]
    BY Zenon, <2>1, <2>8 DEF InsertDummy, Local
  <2>. QED BY <1>1, <1>2, <1>4, <2>5, <2>7, <2>9, <2>10, KeptSilent
<1>. QED BY <1>7, <1>8

LEMMA InstallCalls ==
  ASSUME IInv, CallsOK, NEW t \in Threads, Install(t)
  PROVE  CallsOK' /\ Silent
<1>1. PICK s : s = World /\ IsWorld(s) /\ WorldOK(s) /\ s.bucket = bucket
  BY Known, WorldIs
<1>2. PICK l \in Locals : l = th[t] /\ ThreadOK(t, s, l, pin[t])
  BY <1>1, Known
<1>3. l.at = "install" /\ l.op \in Ops
  <2>1. l.at = "install"
    BY <1>2 DEF Install, At
  <2>. QED BY <1>2, <2>1 DEF ThreadOK, ControlOK, OpOK
<1>4. link' = link /\ key' = key /\ pool' = pool /\ freed' = freed /\ call' = call
  BY DEF Install, memory, NoEffect
<1>5. l.frames # <<>> /\ l.frames \in Seq(Buckets) /\ InstallOK(s, l)
  BY <1>2, <1>3, LocalsFacts DEF ThreadOK, ControlOK, FramesOK, InFrames, CursorOK
<1>6. PICK b \in Buckets : b = Head(l.frames)
  BY <1>5, FramesFacts
<1>7. PICK rest \in Seq(Buckets) : rest = Tail(l.frames)
  BY <1>5, FramesFacts
<1>8. l.curr \in s.list \cap Dummies /\ l.curr[1] = b /\ l.curr \in Nodes \cup {None} /\ l.curr # None
  BY <1>1, <1>5, <1>6, LocalsFacts, SplitListConstants DEF InstallOK, IsWorld
<1>9. bucket' = IF bucket[b] = None THEN [bucket EXCEPT ![b] = l.curr] ELSE bucket
  BY Zenon, <1>2, <1>6 DEF Install
<1>10. bucket' \in [Buckets -> Nodes \cup {None}] /\ bucket'[b] # None
  BY <1>8, <1>9, TypedNow
<1>11. \A d \in Buckets : \/ bucket'[d] = bucket[d]
                          \/ bucket[d] = None /\ bucket'[d] \in World.list \cap Dummies /\ bucket'[d][1] = d
  BY <1>1, <1>8, <1>9, TypedNow
<1>12. ASSUME NEW f \in Seq(Buckets)
       PROVE  \E k \in Locals : k = OnlyFrames(l, f) /\ k.at = "install" /\ k.op = l.op /\ k.key = l.key /\ SameRun(l, k)
  <2>1. PICK k \in Locals : k = OnlyFrames(l, f) /\ k.at = l.at /\ k.op = l.op /\ k.key = l.key
    BY SetFrames
  <2>. QED BY <1>3, <2>1 DEF SameRun, Called, Took, Searching
<1>13. CASE rest # <<>>
  <2>1. PICK d \in Buckets : d = Head(rest)
    BY <1>13, FramesFacts
  <2>2. PICK k \in Locals : k = OnlyFrames(l, rest) /\ k.at = "install" /\ SameRun(l, k)
    BY <1>12
  <2>3. InsertDummy(t, k, d)
    BY Zenon, <1>2, <1>7, <1>13, <2>1, <2>2 DEF Install, OnlyFrames
  <2>4. PICK x \in Nodes : x = <<d, t>>
    BY DEF Nodes, Dummies
  <2>5. PICK v \in Nat : v = ReverseBits(d)
    BY BucketReversed
  <2>6. hashnr' = [hashnr EXCEPT ![x] = v]
    BY Zenon, <2>3, <2>4, <2>5 DEF InsertDummy
  <2>7. PICK s2 : s2 = World' /\ Typed(s2) /\ Renumbered(s, s2, x) /\ s2.hashnr[x] = v /\ s2.bucket[b] # None
    <3>1. Typed(World') /\ Renumbered(World, World', x) /\ World'.hashnr[x] = v
      BY <1>4, <1>10, <1>11, <2>6, RenumberedNext
    <3>. QED BY <1>1, <1>10, <3>1, WorldNext
  <2>8. x \notin s.list
    <3>1. rest # <<>> => x = <<Head(rest), t>> /\ s2.hashnr[x] = ReverseBits(Head(rest))
      BY Zenon, <2>1, <2>4, <2>5, <2>7
    <3>2. rest = <<>> => x = l.node /\ (x # None => s2.hashnr[x] = SplitHash(l.key))
      BY <1>13
    <3>3. InstallNow(s, s2, t, l, b, rest, x)
      BY Zenon, <1>6, <1>7, <2>7, <3>1, <3>2 DEF InstallNow
    <3>4. PICK p2 : p2 = pin[t]
      OBVIOUS
    <3>. QED BY <1>1, <1>2, <1>3, <2>7, <3>3, <3>4, InstallStep
  <2>9. SameList(s, s2)
    BY <1>1, <2>7, <2>8, RenumberedSame
  <2>10. PICK m : m = Find(k, ClearHighestBit(d), ReverseBits(d), DummyKey, "dummy")
    OBVIOUS
  <2>11. SameRun(k, m) /\ Plain(m)
    BY <2>2, <2>10, DummyRuns
  <2>12. SameRun(l, m)
    BY <2>2, <2>11 DEF SameRun
  <2>13. th' = [th EXCEPT ![t] = m]
    BY Zenon, <2>3, <2>10 DEF InsertDummy, Local
  <2>. QED BY <1>1, <1>2, <1>4, <2>7, <2>9, <2>11, <2>12, <2>13, KeptSilent
<1>14. CASE rest = <<>>
  <2>1. PICK k \in Locals : k = OnlyFrames(l, <<>>) /\ k.at = "install" /\ k.op = l.op /\ SameRun(l, k)
    <3>1. <<>> \in Seq(Buckets)
      OBVIOUS
    <3>. QED BY <1>12, <3>1
  <2>2. /\ Local(t, Start(k, SplitHash(l.key)))
        /\ hashnr' = IF l.node = None THEN hashnr ELSE [hashnr EXCEPT ![l.node] = SplitHash(l.key)]
    BY Zenon, <1>2, <1>7, <1>14, <2>1 DEF Install, OnlyFrames
  <2>3. PICK s2 : s2 = World' /\ Typed(s2) /\ Renumbered(s, s2, l.node)
    <3>1. Typed(World') /\ Renumbered(World, World', l.node)
      BY <1>2, <1>4, <1>10, <1>11, <2>2, HandNumbered
    <3>. QED BY <1>1, <3>1
  <2>4. SameList(s, s2)
    <3>1. PICK x : x = l.node
      OBVIOUS
    <3>2. x \notin s.list /\ Renumbered(s, s2, x)
      BY <1>1, <1>2, <2>3, <3>1, HandNotListed
    <3>. QED BY <1>1, <2>3, <3>2, RenumberedSame
  <2>5. PICK m : m = Start(k, SplitHash(l.key))
    OBVIOUS
  <2>6. SameRun(k, m) /\ Plain(m)
    BY <1>3, <2>1, <2>5, StartRuns
  <2>7. SameRun(l, m)
    BY <2>1, <2>6 DEF SameRun
  <2>8. th' = [th EXCEPT ![t] = m]
    BY Zenon, <2>2, <2>5 DEF Local
  <2>. QED BY <1>1, <1>2, <1>4, <2>3, <2>4, <2>6, <2>7, <2>8, KeptSilent
<1>. QED BY <1>13, <1>14
-------------------------------------------------------------------------------
(* The steps that change the map: the insertion and the mark.               *)

\* What a call sees of a change of key k to v.
SawChange(l, seen, k, v) == IF l.key = k THEN seen \cup {v} ELSE seen

LEMMA WatchRuns ==
  ASSUME NEW l, NEW seen, l.op \in {"insert", "get", "remove"}, NEW k, NEW v
  PROVE  M!Watch(Running(l, seen), k, v) = Running(l, SawChange(l, seen, k, v))
BY DEF M!Watch, M!Operations, Running, SawChange

LEMMA WatchNone ==
  ASSUME NEW c, c.op = "none", NEW k, NEW v
  PROVE  M!Watch(c, k, v) = c
BY DEF M!Watch, M!Operations

LEMMA CalledOps ==
  ASSUME NEW s, NEW u, NEW l, NEW p, ThreadOK(u, s, l, p), Called(l)
  PROVE  l.op \in {"insert", "get", "remove"}
BY RecordedIs DEF ThreadOK, ControlOK, OpOK, Called, Ops

\* The call of another thread sees the change.
LEMMA WatchStays ==
  ASSUME NEW s, NEW s2, NEW n, n \notin s.list \cup s.freed, Stays(s, s2, n), NEW u, NEW l \in Locals, NEW p, ThreadOK(u, s, l, p),
         NEW k \in Keys, NEW v \in {Present, None}, MapOf(s2) = SetKey(MapOf(s), k, v), NEW c, CallOK(s, l, c)
  PROVE  CallOK(s2, l, M!Watch(c, k, v))
<1>1. CASE ~Called(l)
  <2>1. c.op = "none"
    BY <1>1 DEF CallOK
  <2>2. M!Watch(c, k, v) = c
    BY <2>1, WatchNone
  <2>. QED BY <1>1, <2>1, <2>2 DEF CallOK
<1>2. CASE Called(l)
  <2>1. PICK seen \in SUBSET {Present, None} : c = Running(l, seen) /\ SeenOK(s, l, seen)
    BY <1>2 DEF CallOK
  <2>2. PICK seen2 \in SUBSET {Present, None} : seen2 = SawChange(l, seen, k, v) /\ seen \subseteq seen2
    <3>1. SawChange(l, seen, k, v) = seen \/ SawChange(l, seen, k, v) = seen \cup {v}
      BY DEF SawChange
    <3>2. seen \cup {v} \in SUBSET {Present, None}
      OBVIOUS
    <3>3. SawChange(l, seen, k, v) \in SUBSET {Present, None} /\ seen \subseteq SawChange(l, seen, k, v)
      BY <3>1, <3>2
    <3>. QED BY <3>3
  <2>3. M!Watch(c, k, v) = Running(l, seen2)
    <3>1. l.op \in {"insert", "get", "remove"}
      BY <1>2, CalledOps
    <3>. QED BY <2>1, <2>2, <3>1, WatchRuns
  <2>4. MapOf(s2)[l.key] \in seen2
    <3>1. l.key \in Keys /\ MapOf(s)[l.key] \in seen
      BY <2>1, LocalsFacts DEF SeenOK
    <3>2. CASE l.key = k
      <4>1. MapOf(s2)[l.key] = v
        BY <3>1, <3>2 DEF SetKey, MapOf
      <4>. QED BY <2>2, <3>2, <4>1 DEF SawChange
    <3>3. CASE l.key # k
      <4>1. MapOf(s2)[l.key] = MapOf(s)[l.key]
        BY <3>1, <3>3 DEF SetKey
      <4>. QED BY <2>2, <3>1, <4>1
    <3>. QED BY <3>2, <3>3
  <2>5. l.at \in {"next", "judge"} => l.curr # n
    BY HeldIsOld
  <2>6. SeenOK(s2, l, seen2)
    BY <2>1, <2>2, <2>4, <2>5, SeenStays
  <2>. QED BY <1>2, <2>3, <2>6 DEF CallOK
<1>. QED BY <1>1, <1>2

LEMMA TookSet ==
  ASSUME NEW o, NEW k, NEW e, NEW a, NEW b, NEW x
  PROVE  [[op |-> o, key |-> k, seen |-> e, took |-> a, val |-> x] EXCEPT !.took = b]
             = [op |-> o, key |-> k, seen |-> e, took |-> b, val |-> x]
OBVIOUS

\* A thread's own change of the map is the moment its call takes effect.
LEMMA EffectStep ==
  ASSUME IInv, CallsOK, NEW t \in Threads, NEW s, s = World, NEW s2, s2 = World', Effect(t),
         NEW l \in Locals, l = th[t], Called(l), ~Took(l), NEW v \in {Present, None}, MapOf(s2) = SetKey(MapOf(s), l.key, v),
         \/ l.op = "insert" /\ v = Present /\ MapOf(s)[l.key] = None
         \/ l.op = "remove" /\ v = None /\ MapOf(s)[l.key] # None,
         NEW n, n \notin s.list \cup s.freed, Stays(s, s2, n),
         NEW m, th' = [th EXCEPT ![t] = m], m.op = l.op, m.key = l.key, Called(m), Took(m), Plain(m)
  PROVE  CallsOK' /\ M!TakeEffect(t)
<1>1. l.key \in Keys /\ DOMAIN call = Threads /\ Present # None
  BY LocalsFacts, SplitListConstants DEF CallsOK
<1>2. PICK seen \in SUBSET {Present, None} : call[t] = Running(l, seen) /\ SeenOK(s, l, seen)
  BY DEF CallsOK, CallOK
<1>3. v = IF th[t].op = "remove" THEN None ELSE Present
  OBVIOUS
<1>4. PICK w : w = [u \in Threads |-> M!Watch(call[u], l.key, v)]
  OBVIOUS
<1>5. call' = [u \in Threads |-> IF u = t THEN [w[u] EXCEPT !.took = TRUE] ELSE w[u]]
  BY <1>3, <1>4 DEF Effect
<1>6. PICK seen2 \in SUBSET {Present, None} : seen2 = seen \cup {v}
  OBVIOUS
<1>7. w[t] = Running(l, seen2)
  <2>1. SawChange(l, seen, l.key, v) = seen2
    BY <1>6 DEF SawChange
  <2>2. l.op \in {"insert", "get", "remove"}
    OBVIOUS
  <2>3. M!Watch(Running(l, seen), l.key, v) = Running(l, seen2)
    BY <2>1, <2>2, WatchRuns
  <2>. QED BY <1>2, <1>4, <2>3
<1>8. call'[t] = Running(m, seen2)
  <2>1. PICK f, g : f = Took(l) /\ g = Took(m) /\ g = TRUE
    BY DEF Took
  <2>2. PICK x : x = IF l.op = "insert" THEN Present ELSE None
    OBVIOUS
  <2>3. /\ Running(l, seen2) = [op |-> l.op, key |-> l.key, seen |-> seen2, took |-> f, val |-> x]
        /\ Running(m, seen2) = [op |-> l.op, key |-> l.key, seen |-> seen2, took |-> g, val |-> x]
    BY <2>1, <2>2 DEF Running
  <2>4. [[op |-> l.op, key |-> l.key, seen |-> seen2, took |-> f, val |-> x] EXCEPT !.took = g]
            = [op |-> l.op, key |-> l.key, seen |-> seen2, took |-> g, val |-> x]
    BY TookSet
  <2>5. [Running(l, seen2) EXCEPT !.took = g] = Running(m, seen2)
    BY Zenon, <2>3, <2>4
  <2>. QED BY <1>5, <1>7, <2>1, <2>5
<1>9. CallOK(s2, m, call'[t])
  <2>1. MapOf(s2)[m.key] = v
    BY <1>1 DEF SetKey, MapOf
  <2>2. SeenOK(s2, m, seen2)
    BY <1>6, <2>1 DEF SeenOK, ReadOK, Plain
  <2>. QED BY <1>8, <2>2 DEF CallOK
<1>10. ASSUME NEW u \in Threads, u # t PROVE CallOK(s2, th[u], call'[u])
  <2>1. PICK k \in Locals : k = th[u] /\ ThreadOK(u, s, k, pin[u])
    BY Known
  <2>2. CallOK(s, k, call[u])
    BY <2>1 DEF CallsOK
  <2>3. CallOK(s2, k, M!Watch(call[u], l.key, v))
    BY <1>1, <2>1, <2>2, WatchStays
  <2>4. call'[u] = M!Watch(call[u], l.key, v)
    BY <1>4, <1>5, <1>10
  <2>. QED BY <2>1, <2>3, <2>4
<1>11. CallsOK'
  <2>1. \A u \in Threads : CallOK(s2, th'[u], call'[u])
    BY <1>9, <1>10 DEF IInv
  <2>2. DOMAIN call' = Threads
    BY <1>5
  <2>. QED BY <2>1, <2>2 DEF CallsOK
<1>12. Contents = MapOf(s) /\ Contents' = SetKey(Contents, l.key, v)
  BY ContentsIs, ContentsNext
<1>13. M!TakeEffect(t)
  <2>1. PICK c : c = call[t] /\ c.op = l.op /\ c.key = l.key /\ ~c.took /\ v = IF c.op = "remove" THEN None ELSE c.val
    BY <1>2 DEF Running
  <2>2. c.op \in M!Operations
    BY <2>1 DEF M!Operations
  <2>3. \/ c.op = "insert" /\ Contents[c.key] = None
        \/ c.op = "remove" /\ Contents[c.key] # None
    BY <1>12, <2>1
  <2>4. Contents' = [Contents EXCEPT ![c.key] = v]
    BY <1>12, <2>1 DEF SetKey
  <2>5. call' = [u \in Threads |-> IF u = t THEN [M!Watch(c, c.key, v) EXCEPT !.took = TRUE]
                                            ELSE M!Watch(call[u], c.key, v)]
    BY <1>4, <1>5, <2>1
  <2>. QED BY <2>1, <2>2, <2>3, <2>4, <2>5 DEF M!TakeEffect
<1>. QED BY <1>11, <1>13

LEMMA MarkCalls ==
  ASSUME Flags # 0, IInv, CallsOK, NEW t \in Threads, Mark(t)
  PROVE  CallsOK' /\ (Silent \/ M!TakeEffect(t))
<1>1. PICK s : s = World /\ IsWorld(s) /\ WorldOK(s)
  BY Known
<1>2. PICK l \in Locals : l = th[t] /\ ThreadOK(t, s, l, pin[t])
  BY <1>1, Known
<1>3. l.at = "mark" /\ CallOK(s, l, call[t])
  BY <1>1, <1>2 DEF Mark, At, CallsOK
<1>4. l.at \in Searching /\ l.at # "unlink" /\ ControlOK(t, s, l)
  BY <1>2, <1>3 DEF ThreadOK, Searching
<1>5. /\ hashnr' = hashnr /\ key' = key /\ bucket' = bucket /\ pool' = pool /\ freed' = freed
  BY DEF Mark, table, memory
<1>6. CASE link[l.curr] # l.link
  <2>1. Local(t, Retry(l)) /\ link' = link /\ call' = call
    BY Zenon, <1>2, <1>6 DEF Mark, NoEffect
  <2>2. PICK m : m = Retry(l)
    OBVIOUS
  <2>3. CallOK(s, m, call[t])
    BY <1>3, <1>4, <2>2, RetrySilent
  <2>4. th' = [th EXCEPT ![t] = m]
    BY Zenon, <2>1, <2>2 DEF Local
  <2>5. World' = World
    BY <1>5, <2>1, WorldSame DEF list, memory
  <2>. QED BY <1>1, <2>1, <2>3, <2>4, <2>5, QuietSilent
<1>7. CASE link[l.curr] = l.link
  <2>1. link' = SetMark(link, l.curr) /\ Go(t, "unlink") /\ Effect(t)
    BY Zenon, <1>2, <1>7 DEF Mark, SetMark
  <2>2. PICK c \in Nodes : c = l.curr /\ Held(s, c) /\ MarkOK(s, l)
    <3>1. l.curr # None /\ Held(s, l.curr) /\ MarkOK(s, l)
      BY <1>2, <1>3 DEF ThreadOK, CursorOK, CurrOK
    <3>. QED BY <3>1, LocalsFacts
  <2>3. s.link[c] = l.link
    BY <1>1, <1>7, <2>2, WorldIs
  <2>4. c \in s.list /\ ~s.link[c].deleted /\ s.key[c] = l.key
    BY <2>2, <2>3 DEF MarkOK, Held
  <2>5. l.op = "remove" /\ l.goal = "remove" /\ l.key \in Keys /\ l.key # DummyKey
    <3>1. l.op = "remove" /\ l.goal = "remove"
      BY <1>3, <1>4 DEF ControlOK, SearchOK
    <3>2. l.key \in Keys
      BY LocalsFacts
    <3>. QED BY <3>1, <3>2, KeyHash
  <2>6. c \in Elements /\ c \in Unmarked(s)
    BY <1>1, <2>4, <2>5 DEF WorldOK, KeysOK, Nodes, Unmarked
  <2>7. PICK s2 : s2 = World' /\ Typed(s2)
    <3>1. SetMark(link, c) \in Links
      BY TypedNow, MarkSet
    <3>2. link' \in Links
      BY Zenon, <2>1, <2>2, <3>1
    <3>. QED BY <1>5, <3>2, TypedNow, TypedNext
  <2>8. s2.link[c] = [to |-> s.link[c].to, deleted |-> TRUE] /\ \A m \in Nodes : m # c => s2.link[m] = s.link[m]
    <3>1. PICK lk \in Links : lk = link
      BY TypedNow
    <3>2. s.link = lk /\ s2.link = SetMark(lk, c)
      BY Zenon, <1>1, <2>1, <2>2, <2>7, <3>1, WorldIs, WorldNext
    <3>3. /\ SetMark(lk, c)[c] = [to |-> lk[c].to, deleted |-> TRUE]
          /\ \A m \in Nodes : m # c => SetMark(lk, c)[m] = lk[m]
      BY MarkSet
    <3>. QED BY Zenon, <3>2, <3>3
  <2>9. /\ s2.hashnr = s.hashnr /\ s2.key = s.key /\ s2.bucket = s.bucket /\ s2.pool = s.pool /\ s2.freed = s.freed
        /\ s2.list = ListFrom(s2.link, s2.bucket[0])
    BY <1>1, <1>5, <2>7, WorldIs, WorldNext
  <2>10. s2.list = s.list
    <3>1. /\ s2.link[l.curr] = [to |-> l.link.to, deleted |-> TRUE] /\ s.link[l.curr] = l.link
          /\ \A m \in Nodes : m # l.curr => s2.link[m] = s.link[m]
      BY Zenon, <2>2, <2>3, <2>8
    <3>2. PICK p \in Pins : p = pin[t]
      BY Known
    <3>. QED BY <1>1, <1>2, <1>3, <2>7, <2>9, <3>1, <3>2, MarkStep
  <2>11. Stays(s, s2, None)
    BY <2>9, <2>10 DEF Stays
  <2>12. Unmarked(s2) = Unmarked(s) \ {c}
    <3>1. \A m \in s.list : m \in Nodes
      BY <1>1 DEF IsWorld
    <3>2. s2.link[c].deleted
      BY <2>8
    <3>. QED BY <2>8, <2>10, <3>1, <3>2 DEF Unmarked
  <2>13. \A m \in Unmarked(s2) : s2.key[m] = s.key[m] /\ s.key[m] # s.key[c]
    <3>1. TAKE m \in Unmarked(s2)
    <3>2. m \in s.list \cap Elements /\ m # c
      BY <2>12 DEF Unmarked
    <3>3. c \in s.list \cap Elements
      BY <2>4, <2>6
    <3>4. s.key[m] # s.key[c]
      BY <1>1, <3>2, <3>3, KeysOnce
    <3>. QED BY <2>9, <3>4
  <2>14. MapOf(s2) = SetKey(MapOf(s), l.key, None)
    BY <2>4, <2>5, <2>12, <2>13, MapWithout
  <2>15. MapOf(s)[l.key] # None
    <3>1. Has(s, l.key)
      BY <2>4, <2>6 DEF Has
    <3>. QED BY <2>5, <3>1, MapHas, SplitListConstants
  <2>16. PICK m : m = OnlyAt(l, "unlink") /\ m.at = "unlink" /\ m.op = l.op /\ m.key = l.key
    <3>1. "unlink" \in Labels
      BY DEF Labels, Searching
    <3>. QED BY <3>1, SetAt DEF SameCall
  <2>17. Called(l) /\ ~Took(l) /\ Called(m) /\ Took(m) /\ Plain(m)
    BY <1>3, <2>5, <2>16, RecordedIs DEF Called, Took, Plain
  <2>18. th' = [th EXCEPT ![t] = m]
    BY Zenon, <1>2, <2>1, <2>16 DEF Go, Local, OnlyAt
  <2>19. None \notin s.list \cup s.freed
    BY <1>1, NoneIsNew
  <2>20. PICK v \in {Present, None} : v = None
    OBVIOUS
  <2>. QED BY <1>1, <1>2, <2>1, <2>5, <2>7, <2>11, <2>14, <2>15, <2>16, <2>17, <2>18, <2>19, <2>20, EffectStep
<1>. QED BY <1>6, <1>7

\* The node n comes into the list, and no other changes its place in the map.
LEMMA PutInMap ==
  ASSUME NEW s, IsWorld(s), NEW s2, NEW t, NEW l \in Locals, NEW n, SwapNode(t, s, l, n), ReadIn(s, l.prev) = LinkTo(l.curr),
         PutIn(s, s2, l, n), s2.list = s.list \cup {n}
  PROVE  Stays(s, s2, n) /\ Unmarked(s2) = Unmarked(s) \cup ({n} \cap Elements)
<1>1. Stays(s, s2, n)
  BY DEF PutIn, Stays
<1>2. l.prev[1] \in {"bucket", "node"} /\ "bucket" # "node"
  BY LocalsFacts
<1>3. ~s2.link[n].deleted /\ n \in Nodes /\ n \notin s.list
  BY DEF PutIn, LinkTo, SwapNode
<1>4. \A m \in s.list : m \in Nodes /\ m # n
  BY <1>3 DEF IsWorld
<1>5. \A m \in s.list : s2.link[m].deleted <=> s.link[m].deleted
  <2>1. CASE l.prev[1] = "bucket"
    BY <1>4, <2>1 DEF PutIn
  <2>2. CASE l.prev[1] = "node"
    <3>1. s.link[l.prev[2]] = LinkTo(l.curr) /\ s2.link[l.prev[2]] = LinkTo(n)
      BY <1>2, <2>2 DEF ReadIn, PutIn
    <3>2. \A m \in Nodes : m # n /\ m # l.prev[2] => s2.link[m] = s.link[m]
      BY <2>2 DEF PutIn
    <3>. QED BY <1>4, <3>1, <3>2 DEF LinkTo
  <2>. QED BY <1>2, <2>1, <2>2
<1>6. Unmarked(s2) = Unmarked(s) \cup ({n} \cap Elements)
  BY <1>3, <1>5 DEF Unmarked
<1>. QED BY <1>1, <1>6

LEMMA SwapCalls ==
  ASSUME Flags # 0, IInv, CallsOK, NEW t \in Threads, Swap(t)
  PROVE  CallsOK' /\ (Silent \/ M!TakeEffect(t))
<1>1. PICK s : s = World /\ IsWorld(s) /\ WorldOK(s)
  BY Known
<1>2. PICK p \in Pins : p = pin[t]
  BY Known
<1>3. PICK l \in Locals : l = th[t] /\ ThreadOK(t, s, l, p)
  BY <1>1, <1>2, Known
<1>4. l.at = "swap" /\ CallOK(s, l, call[t])
  BY <1>1, <1>3 DEF Swap, At, CallsOK
<1>5. /\ l.at \in Searching /\ l.at # "unlink" /\ ControlOK(t, s, l) /\ SearchOK(t, s, l) /\ PrevOK(s, l, p)
      /\ SwapOK(s, l, p) /\ l.goal \in {"insert", "dummy"}
  <2>1. l.at \in Searching
    BY <1>4 DEF Searching
  <2>. QED BY <1>3, <1>4, <2>1 DEF ThreadOK, CursorOK, ControlOK, SearchOK
<1>6. Read(l.prev) = ReadIn(s, l.prev)
  BY <1>1, ReadSame
<1>7. hashnr' = hashnr /\ key' = key /\ pool' = pool /\ freed' = freed
  BY DEF Swap, memory
<1>8. PICK n : n = NodeOf(t, l)
  OBVIOUS
<1>9. SwapNode(t, s, l, n) /\ n \in Nodes
  <2>1. SwapNode(t, s, l, n)
    BY <1>1, <1>3, <1>4, <1>8, SwapNodeIs
  <2>. QED BY <2>1 DEF SwapNode
<1>10. n = IF l.goal = "dummy" THEN <<Head(l.frames), t>> ELSE l.node
  BY Zenon, <1>8 DEF NodeOf
<1>11. PICK c \in Nodes \cup {None} : c = l.curr
  BY LocalsFacts
<1>12. n \notin s.list \cup s.freed
  BY <1>9 DEF SwapNode
<1>13. CASE Read(l.prev) # LinkTo(l.curr)
  <2>1. link' = [link EXCEPT ![n] = LinkTo(c)] /\ Local(t, Retry(l)) /\ bucket' = bucket /\ call' = call
    BY Zenon, <1>3, <1>10, <1>11, <1>13 DEF Swap, NoEffect
  <2>2. PICK a \in [to : Nodes \cup {None}, deleted : BOOLEAN] : a = LinkTo(c)
    BY LinkToIs
  <2>3. link' \in Links /\ \A m \in Nodes : m # n => link'[m] = link[m]
    BY <1>9, <2>1, <2>2, TypedNow DEF Links
  <2>4. PICK s2 : s2 = World' /\ Typed(s2)
    BY <1>7, <2>1, <2>3, TypedNow, TypedNext
  <2>5. /\ s2.hashnr = s.hashnr /\ s2.key = s.key /\ s2.bucket = s.bucket /\ s2.pool = s.pool /\ s2.freed = s.freed
        /\ s2.list = ListFrom(s2.link, s2.bucket[0]) /\ \A m \in Nodes : m # n => s2.link[m] = s.link[m]
    BY <1>1, <1>7, <2>1, <2>3, <2>4, WorldIs, WorldNext
  <2>6. s2.list = s.list
    BY <1>1, <1>2, <1>3, <1>9, <2>4, <2>5, NotLinked
  <2>7. SameList(s, s2)
    BY <1>1, <1>12, <2>5, <2>6 DEF SameList, IsWorld
  <2>8. PICK m : m = Retry(l) /\ m.at = "load" /\ m.op = l.op /\ m.key = l.key /\ m.goal = l.goal
    BY RetryIs DEF SameCall, SameSearch
  <2>9. SameRun(l, m) /\ Plain(m)
    BY <1>4, <1>5, <2>8 DEF SameRun, Called, Took, Searching, Plain
  <2>10. th' = [th EXCEPT ![t] = m]
    BY Zenon, <2>1, <2>8 DEF Local
  <2>. QED BY <1>1, <1>3, <2>1, <2>4, <2>7, <2>9, <2>10, KeptSilent
<1>14. CASE Read(l.prev) = LinkTo(l.curr)
  <2>1. /\ \/ /\ l.prev[1] = "bucket"
              /\ bucket' = [bucket EXCEPT ![l.prev[2]] = n] /\ link' = [link EXCEPT ![n] = LinkTo(c)]
           \/ /\ l.prev[1] = "node"
              /\ link' = [[link EXCEPT ![n] = LinkTo(c)] EXCEPT ![l.prev[2]] = LinkTo(n)] /\ bucket' = bucket
        /\ Local(t, IF l.goal = "dummy" THEN [l EXCEPT !.at = "install", !.curr = n]
                                        ELSE [l EXCEPT !.at = "count", !.node = None])
        /\ IF l.goal = "dummy" THEN call' = call ELSE Effect(t)
    BY Zenon, <1>3, <1>10, <1>11, <1>14 DEF Swap, NoEffect
  <2>2. ReadIn(s, l.prev) = LinkTo(c) /\ ReadIn(s, l.prev) = LinkTo(l.curr)
    BY Zenon, <1>6, <1>11, <1>14
  <2>3. (l.prev[1] = "node" => l.prev[2] \in s.list) /\ (c # None => c \in s.list)
    BY <1>1, <1>5, <1>11, <2>2, ReadIs
  <2>4. l.prev[1] = "node" => l.prev[2] # n
    BY <1>12, <2>3
  <2>5. PICK s2 : s2 = World' /\ Typed(s2) /\ PutIn(s, s2, l, n)
    BY <1>1, <1>7, <1>9, <1>11, <2>1, <2>4, PutInNext
  <2>6. s2.list = s.list \cup {n} /\ PinsFollow(s, s2, p)
    BY <1>1, <1>3, <1>4, <1>9, <2>2, <2>5, LinkedStep
  <2>7. Stays(s, s2, n) /\ Unmarked(s2) = Unmarked(s) \cup ({n} \cap Elements)
    BY <1>1, <1>9, <2>2, <2>5, <2>6, PutInMap
  <2>8. s2.key = s.key
    BY <2>5 DEF PutIn
  <2>9. CASE l.goal = "dummy"
    <3>1. Unmarked(s2) = Unmarked(s)
      BY <1>9, <2>7, <2>9, SplitListConstants DEF SwapNode
    <3>2. MapOf(s2) = MapOf(s)
      BY <2>8, <3>1, MapSame
    <3>3. PICK m : m = WithCurr(l, "install", n) /\ m.at = "install" /\ m.op = l.op /\ m.key = l.key
      BY <1>9, AtCurr DEF SameCall, Labels
    <3>4. SameRun(l, m) /\ Plain(m)
      BY <1>4, <2>9, <3>3 DEF SameRun, Called, Took, Searching, Plain
    <3>5. MapOf(s2)[l.key] = MapOf(s)[l.key]
      BY <3>2
    <3>6. CallOK(s2, m, call[t])
      BY <1>4, <3>4, <3>5, PlainStep
    <3>7. th' = [th EXCEPT ![t] = m] /\ call' = call
      BY Zenon, <2>1, <2>9, <3>3 DEF Local, WithCurr
    <3>. QED BY <1>1, <1>12, <2>5, <2>7, <3>2, <3>6, <3>7, SilentStep
  <2>10. CASE l.goal # "dummy"
    <3>1. n \in Elements /\ l.op = "insert" /\ l.goal = "insert" /\ s.key[n] = l.key /\ l.key \in Keys
      <4>1. n \in Elements /\ l.op = "insert" /\ l.goal = "insert" /\ s.key[n] = l.search
        BY <1>9, <2>10 DEF SwapNode
      <4>2. Called(l)
        BY <1>4, <4>1, RecordedIs DEF Called
      <4>3. l.search = l.key
        BY <1>5, <2>10, <4>2, GoalIs
      <4>. QED BY <4>1, <4>3, LocalsFacts
    <3>2. Unmarked(s2) = Unmarked(s) \cup {n}
      BY <2>7, <3>1
    <3>3. MapOf(s2) = SetKey(MapOf(s), s.key[n], Present)
      BY <2>8, <3>1, <3>2, MapWith
    <3>4. MapOf(s2) = SetKey(MapOf(s), l.key, Present)
      BY <3>1, <3>3
    <3>5. MapOf(s)[l.key] = None
      <4>1. c # None => Above(s, c, l.hash, l.search)
        BY <1>5, <1>11, <2>3 DEF SwapOK
      <4>2. Called(l)
        BY <1>4, <3>1, RecordedIs DEF Called
      <4>. QED BY <1>1, <1>5, <2>2, <2>10, <4>1, <4>2, GapSeen
    <3>6. PICK m : m = WithNode(l, "count", None) /\ m.at = "count" /\ m.op = l.op /\ m.key = l.key
      BY AtNode DEF Labels
    <3>7. Called(l) /\ ~Took(l) /\ Called(m) /\ Took(m) /\ Plain(m)
      BY <1>4, <3>1, <3>6, RecordedIs DEF Called, Took, Plain
    <3>8. th' = [th EXCEPT ![t] = m] /\ Effect(t)
      BY Zenon, <2>1, <2>10, <3>6 DEF Local, WithNode
    <3>9. PICK v \in {Present, None} : /\ MapOf(s2) = SetKey(MapOf(s), l.key, v)
                                      /\ l.op = "insert" /\ v = Present /\ MapOf(s)[l.key] = None
      BY <3>1, <3>4, <3>5
    <3>10. s = World /\ s2 = World' /\ Stays(s, s2, n) /\ l = th[t] /\ m.op = l.op /\ m.key = l.key
      BY <1>1, <1>3, <2>5, <2>7, <3>6
    <3>11. CallsOK' /\ M!TakeEffect(t)
      BY <1>12, <3>7, <3>8, <3>9, <3>10, EffectStep
    <3>. QED BY <3>11
  <2>. QED BY <2>9, <2>10
<1>. QED BY <1>13, <1>14

-------------------------------------------------------------------------------
(* The returns, and the beginning of a call.                                *)

LEMMA ReturnStep ==
  ASSUME IInv, CallsOK, NEW t \in Threads, NEW s, s = World, NEW s2, s2 = World', SameList(s, s2),
         NEW l \in Locals, l = th[t], Called(l), NEW r \in M!Results, Return(t, r),
         NEW seen \in SUBSET {Present, None}, call[t] = Running(l, seen),
         l.op = "get" => r \in seen,
         l.op = "insert" => (r = TRUE /\ Took(l)) \/ (r = FALSE /\ ~Took(l) /\ Present \in seen),
         l.op = "remove" => (r = TRUE /\ Took(l)) \/ (r = FALSE /\ ~Took(l) /\ None \in seen),
         NEW m, th' = [th EXCEPT ![t] = m], ~Called(m)
  PROVE  CallsOK' /\ \E result \in M!Results : M!Return(t, result)
<1>1. Stays(s, s2, None) /\ MapOf(s2) = MapOf(s) /\ None \notin s.list \cup s.freed
  BY ListKept, NoneIsNew
<1>2. l.op \in {"insert", "get", "remove"}
  <2>1. ThreadOK(t, s, l, pin[t])
    BY Known
  <2>. QED BY <2>1, CalledOps
<1>3. call' = [call EXCEPT ![t] = M!Returned(r)] /\ DOMAIN call = Threads
  <2>1. Recorded(th[t].op, th[t].key)
    BY DEF Called
  <2>. QED BY <2>1 DEF Return, CallsOK
<1>4. CallOK(s2, m, call'[t])
  <2>1. call'[t].op = "none"
    BY <1>3 DEF M!Returned
  <2>. QED BY <2>1 DEF CallOK
<1>5. ASSUME NEW u \in Threads, u # t PROVE CallOK(s2, th[u], call'[u])
  <2>1. CallOK(s2, th[u], call[u])
    BY <1>1, OthersStay
  <2>. QED BY <1>3, <1>5, <2>1
<1>6. CallsOK'
  <2>1. \A u \in Threads : CallOK(s2, th'[u], call'[u])
    BY <1>4, <1>5 DEF IInv
  <2>2. DOMAIN call' = Threads
    BY <1>3
  <2>. QED BY <2>1, <2>2 DEF CallsOK
<1>7. M!Return(t, r)
  <2>1. Contents' = Contents
    BY <1>1, ContentsIs, ContentsNext
  <2>2. PICK c : c = call[t] /\ c.op = l.op /\ c.seen = seen /\ c.took = Took(l)
    BY DEF Running
  <2>3. c.op \in M!Operations
    BY <1>2, <2>2 DEF M!Operations
  <2>4. Present # None
    BY SplitListConstants
  <2>5. CASE l.op = "get"
    BY <1>3, <2>1, <2>2, <2>3, <2>5 DEF M!Return
  <2>6. CASE l.op = "insert"
    <3>1. r = c.took /\ (c.took \/ c.seen # {None})
      BY <2>2, <2>4, <2>6 DEF Took
    <3>. QED BY <1>3, <2>1, <2>2, <2>3, <2>6, <3>1 DEF M!Return
  <2>7. CASE l.op = "remove"
    <3>1. r = c.took /\ (c.took \/ None \in c.seen)
      BY <2>2, <2>7 DEF Took
    <3>. QED BY <1>3, <2>1, <2>2, <2>3, <2>7, <3>1 DEF M!Return
  <2>. QED BY <1>2, <2>5, <2>6, <2>7
<1>. QED BY <1>6, <1>7

LEMMA ResultsAre == {TRUE, FALSE, None, Present} \subseteq M!Results
BY DEF M!Results

\* The call of thread t returns: what it has seen.
LEMMA SeenBy ==
  ASSUME CallsOK, NEW t \in Threads, NEW l, l = th[t], Called(l)
  PROVE  \E seen \in SUBSET {Present, None} : call[t] = Running(l, seen) /\ SeenOK(World, l, seen)
BY DEF CallsOK, CallOK

\* An operation that did what it was called for.
LEMMA DidIt ==
  ASSUME IInv, CallsOK, NEW t \in Threads, th[t].at \in {"add", "double", "uncount"}, World' = World, Done(t), Return(t, TRUE)
  PROVE  CallsOK' /\ \E result \in M!Results : M!Return(t, result)
<1>1. PICK s : s = World /\ SameList(s, s)
  BY DEF SameList
<1>2. PICK l \in Locals : l = th[t] /\ ThreadOK(t, s, l, pin[t])
  BY <1>1, Known
<1>3. l.op \in {"insert", "remove"} /\ Called(l) /\ Took(l)
  BY <1>2, RecordedIs DEF ThreadOK, ControlOK, OpOK, Called, Took
<1>4. PICK seen \in SUBSET {Present, None} : call[t] = Running(l, seen)
  BY <1>2, <1>3, SeenBy
<1>5. PICK m : m = Idle /\ ~Called(m)
  BY IdleIs DEF Called
<1>6. PICK r \in M!Results : r = TRUE
  BY ResultsAre
<1>7. th' = [th EXCEPT ![t] = m] /\ Return(t, r)
  BY Zenon, <1>5, <1>6 DEF Done
<1>8. l.op # "get" /\ ((r = TRUE /\ Took(l)) \/ (r = FALSE /\ ~Took(l) /\ Present \in seen))
  BY <1>3, <1>6
<1>9. (r = TRUE /\ Took(l)) \/ (r = FALSE /\ ~Took(l) /\ None \in seen)
  BY <1>3, <1>6
<1>. QED BY <1>1, <1>2, <1>3, <1>4, <1>5, <1>7, <1>8, <1>9, ReturnStep

LEMMA AddCalls ==
  ASSUME IInv, CallsOK, NEW t \in Threads, Add(t)
  PROVE  CallsOK' /\ (Silent \/ \E result \in M!Results : M!Return(t, result))
<1>1. PICK l \in Locals : l = th[t]
  BY Known
<1>2. l.at = "add" /\ World' = World
  BY <1>1, WorldSame DEF Add, At, memory
<1>3. CASE Go(t, "double") /\ NoEffect
  <2>1. PICK m : m = OnlyAt(l, "double")
    OBVIOUS
  <2>2. m.at = "double" /\ m.op = l.op /\ m.key = l.key
    <3>1. "double" \in Labels
      BY DEF Labels
    <3>. QED BY <2>1, <3>1, SetAt DEF SameCall
  <2>3. SameRun(l, m) /\ Plain(m)
    BY <1>2, <2>2 DEF SameRun, Called, Took, Searching, Plain
  <2>4. th' = [th EXCEPT ![t] = m] /\ call' = call
    BY Zenon, <1>1, <1>3, <2>1 DEF Go, Local, OnlyAt, NoEffect
  <2>. QED BY <1>1, <1>2, <2>3, <2>4, SameSilent
<1>4. CASE Done(t) /\ Return(t, TRUE)
  BY <1>1, <1>2, <1>4, DidIt
<1>. QED BY <1>3, <1>4 DEF Add

LEMMA DoubleCalls ==
  ASSUME IInv, CallsOK, NEW t \in Threads, Double(t)
  PROVE  CallsOK' /\ \E result \in M!Results : M!Return(t, result)
<1>1. th[t].at = "double" /\ Done(t) /\ Return(t, TRUE) /\ World' = World
  BY WorldSame DEF Double, At, memory
<1>. QED BY <1>1, DidIt

LEMMA UncountCalls ==
  ASSUME IInv, CallsOK, NEW t \in Threads, Uncount(t)
  PROVE  CallsOK' /\ \E result \in M!Results : M!Return(t, result)
<1>1. th[t].at = "uncount" /\ Done(t) /\ Return(t, TRUE) /\ World' = World
  BY WorldSame DEF Uncount, At, memory
<1>. QED BY <1>1, DidIt

\* A search with a longer key returns: nothing is said of it.
LEMMA UnrecordedReturn ==
  ASSUME IInv, CallsOK, NEW t \in Threads, World' = World, NEW r, Return(t, r),
         NEW l, l = th[t], ~Recorded(l.op, l.key), NEW m, th' = [th EXCEPT ![t] = m], ~Called(m)
  PROVE  CallsOK' /\ Silent
<1>1. PICK s : s = World
  OBVIOUS
<1>2. CallOK(s, l, call[t])
  BY <1>1 DEF CallsOK
<1>3. call' = call
  BY DEF Return, NoEffect
<1>4. ~Called(l)
  BY DEF Called
<1>5. CallOK(s, m, call[t])
  BY <1>2, <1>4 DEF CallOK
<1>. QED BY <1>1, <1>3, <1>5, QuietSilent

LEMMA NotFoundCalls ==
  ASSUME IInv, CallsOK, NEW t \in Threads, NotFound(t)
  PROVE  CallsOK' /\ (Silent \/ \E result \in M!Results : M!Return(t, result))
<1>1. PICK s : s = World /\ SameList(s, s)
  BY DEF SameList
<1>2. PICK l \in Locals : l = th[t] /\ ThreadOK(t, s, l, pin[t])
  BY <1>1, Known
<1>3. l.at = "missing" /\ World' = World
  BY <1>2, WorldSame DEF NotFound, At, table
<1>4. l.op \in {"get", "remove"} /\ ~Took(l)
  BY <1>2, <1>3 DEF ThreadOK, ControlOK, OpOK, Took, Searching
<1>5. PICK m : m = Idle /\ ~Called(m)
  BY IdleIs DEF Called
<1>6. PICK r \in M!Results : r = IF l.op = "get" THEN None ELSE FALSE
  BY ResultsAre
<1>7. th' = [th EXCEPT ![t] = m] /\ Return(t, r)
  BY Zenon, <1>2, <1>5, <1>6 DEF NotFound, Done
<1>8. CASE Recorded(l.op, l.key)
  <2>1. Called(l)
    BY <1>3, <1>8 DEF Called
  <2>2. PICK seen \in SUBSET {Present, None} : call[t] = Running(l, seen) /\ None \in seen
    BY <1>2, <1>3, <2>1, SeenBy DEF SeenOK
  <2>3. l.op # "insert" /\ (l.op = "get" => r \in seen)
    BY <1>4, <1>6, <2>2
  <2>4. l.op = "remove" => (r = TRUE /\ Took(l)) \/ (r = FALSE /\ ~Took(l) /\ None \in seen)
    BY <1>4, <1>6, <2>2
  <2>. QED BY <1>1, <1>2, <1>3, <1>5, <1>7, <2>1, <2>2, <2>3, <2>4, ReturnStep
<1>9. CASE ~Recorded(l.op, l.key)
  BY <1>2, <1>3, <1>5, <1>7, <1>9, UnrecordedReturn
<1>. QED BY <1>8, <1>9

LEMMA SearchReturnsCalls ==
  ASSUME IInv, CallsOK, NEW t \in Threads, SearchReturns(t)
  PROVE  CallsOK' /\ (Silent \/ \E result \in M!Results : M!Return(t, result))
<1>1. PICK s : s = World /\ SameList(s, s)
  BY DEF SameList
<1>2. PICK l \in Locals : l = th[t] /\ ThreadOK(t, s, l, pin[t])
  BY <1>1, Known
<1>3. l.at = "found" /\ World' = World
  BY <1>2, WorldSame DEF SearchReturns, At, table
<1>4. l.op = "get"
  BY <1>2, <1>3 DEF ThreadOK, ControlOK, OpOK
<1>5. PICK m : m = OnlyAt(l, "using") /\ ~Called(m)
  <2>1. "using" \in Labels
    BY DEF Labels
  <2>2. OnlyAt(l, "using").at = "using"
    BY <2>1, SetAt
  <2>. QED BY <2>2 DEF Called
<1>6. PICK r \in M!Results : r = Present
  BY ResultsAre
<1>7. th' = [th EXCEPT ![t] = m] /\ Return(t, r)
  BY Zenon, <1>2, <1>5, <1>6 DEF SearchReturns, Go, Local, OnlyAt
<1>8. CASE Recorded(l.op, l.key)
  <2>1. Called(l)
    BY <1>3, <1>8 DEF Called
  <2>2. PICK seen \in SUBSET {Present, None} : call[t] = Running(l, seen) /\ Present \in seen
    BY <1>2, <1>3, <2>1, SeenBy DEF SeenOK
  <2>. QED BY <1>1, <1>2, <1>3, <1>4, <1>5, <1>6, <1>7, <2>1, <2>2, ReturnStep
<1>9. CASE ~Recorded(l.op, l.key)
  BY <1>2, <1>3, <1>5, <1>7, <1>9, UnrecordedReturn
<1>. QED BY <1>8, <1>9

LEMMA DuplicateCalls ==
  ASSUME IInv, CallsOK, NEW t \in Threads, Duplicate(t)
  PROVE  CallsOK' /\ \E result \in M!Results : M!Return(t, result)
<1>1. PICK s : s = World /\ IsWorld(s)
  BY Known
<1>2. PICK l \in Locals : l = th[t] /\ ThreadOK(t, s, l, pin[t])
  BY <1>1, Known
<1>3. l.at = "duplicate"
  BY <1>2 DEF Duplicate, At
<1>4. PICK n \in Elements : n = l.node /\ n \notin s.list
  BY <1>2, <1>3 DEF ThreadOK, ControlOK, HandOK, OpOK, Before
<1>5. l.op = "insert" /\ Called(l) /\ ~Took(l)
  BY <1>2, <1>3, RecordedIs DEF ThreadOK, ControlOK, OpOK, Called, Took, Searching
<1>6. PICK seen \in SUBSET {Present, None} : call[t] = Running(l, seen) /\ Present \in seen
  BY <1>2, <1>3, <1>5, SeenBy DEF SeenOK
<1>7. PICK s2 : s2 = World'
  OBVIOUS
<1>8. SameList(s, s2)
  <2>1. key' = [key EXCEPT ![n] = DummyKey] /\ UNCHANGED <<link, hashnr, bucket>>
    BY Zenon, <1>2, <1>4 DEF Duplicate, FreeElement, table
  <2>2. \A x \in Nodes : x # n => key'[x] = key[x]
    BY <2>1, TypedNow
  <2>3. s2.list = ListFrom(link', bucket'[0]) /\ s.list = ListFrom(link, bucket[0])
    BY <1>1, <1>7, WorldIs, WorldNext, ListIs
  <2>4. s2.list = s.list
    BY <2>1, <2>3
  <2>5. s2.link = s.link /\ s2.hashnr = s.hashnr /\ \A x \in Nodes : x # n => s2.key[x] = s.key[x]
    BY <1>1, <1>7, <2>1, <2>2, WorldIs, WorldNext
  <2>. QED BY <1>1, <1>4, <2>4, <2>5 DEF SameList, IsWorld
<1>9. PICK m : m = Idle /\ ~Called(m)
  BY IdleIs DEF Called
<1>10. PICK r \in M!Results : r = FALSE
  BY ResultsAre
<1>11. th' = [th EXCEPT ![t] = m] /\ Return(t, r)
  BY Zenon, <1>9, <1>10 DEF Duplicate, Done
<1>12. (r = TRUE /\ Took(l)) \/ (r = FALSE /\ ~Took(l) /\ Present \in seen)
  BY <1>5, <1>6, <1>10
<1>. QED BY <1>1, <1>2, <1>5, <1>6, <1>7, <1>8, <1>9, <1>11, <1>12, ReturnStep

\* The calls begin with what the map says of their key.
LEMMA BeginStep ==
  ASSUME IInv, CallsOK, NEW t \in Threads, NEW s, s = World, NEW s2, s2 = World', SameList(s, s2),
         NEW l, l = th[t], ~Called(l), NEW m, th' = [th EXCEPT ![t] = m], m.at = "hash", m.op \in {"insert", "get", "remove"}, m.key \in Keys,
         Recorded(m.op, m.key),
         call' = [call EXCEPT ![t] = [op |-> m.op, key |-> m.key, seen |-> {Contents[m.key]}, took |-> FALSE,
                                      val |-> IF m.op = "insert" THEN Present ELSE None]]
  PROVE  /\ CallsOK' /\ call'[t] # call[t]
         /\ \E op \in M!Operations, k \in Keys, v \in {Present} \cup {None} : M!Invoke(t, op, k, v)
<1>1. Stays(s, s2, None) /\ MapOf(s2) = MapOf(s) /\ None \notin s.list \cup s.freed
  BY ListKept, NoneIsNew
<1>2. DOMAIN call = Threads /\ call[t].op = "none"
  BY DEF CallsOK, CallOK
<1>3. PICK seen \in SUBSET {Present, None} : seen = {Contents[m.key]} /\ MapOf(s2)[m.key] \in seen
  <2>1. MapOf(s)[m.key] \in {Present, None}
    BY MapHas
  <2>2. Contents[m.key] = MapOf(s)[m.key]
    BY ContentsIs
  <2>. QED BY <1>1, <2>1, <2>2
<1>4. PICK v \in {Present} \cup {None} : v = IF m.op = "insert" THEN Present ELSE None
  OBVIOUS
<1>5. PICK c : c = [op |-> m.op, key |-> m.key, val |-> v, seen |-> seen, took |-> FALSE]
  OBVIOUS
<1>6. call' = [call EXCEPT ![t] = c]
  <2>1. c = [op |-> m.op, key |-> m.key, seen |-> {Contents[m.key]}, took |-> FALSE,
             val |-> IF m.op = "insert" THEN Present ELSE None]
    BY <1>3, <1>4, <1>5
  <2>. QED BY Zenon, <2>1
<1>7. call'[t] = c
  BY <1>2, <1>6
<1>8. CallOK(s2, m, c)
  <2>1. Called(m) /\ Took(m) = FALSE
    BY DEF Called, Took, Searching
  <2>2. c = Running(m, seen)
    BY <1>4, <1>5, <2>1 DEF Running
  <2>3. SeenOK(s2, m, seen)
    BY <1>3 DEF SeenOK, ReadOK
  <2>. QED BY <2>1, <2>2, <2>3 DEF CallOK
<1>9. ASSUME NEW u \in Threads, u # t PROVE CallOK(s2, th[u], call'[u])
  <2>1. CallOK(s2, th[u], call[u])
    BY <1>1, OthersStay
  <2>. QED BY <1>6, <1>9, <2>1
<1>10. CallsOK'
  <2>1. \A u \in Threads : CallOK(s2, th'[u], call'[u])
    BY <1>7, <1>8, <1>9 DEF IInv
  <2>2. DOMAIN call' = Threads
    BY <1>2, <1>6
  <2>. QED BY <2>1, <2>2 DEF CallsOK
<1>11. call'[t] # call[t]
  <2>1. c.op = m.op
    BY <1>5
  <2>. QED BY <1>2, <1>7, <2>1
<1>12. M!Invoke(t, m.op, m.key, v)
  <2>1. Contents' = Contents
    BY <1>1, ContentsIs, ContentsNext
  <2>2. call' = [call EXCEPT ![t] = [op |-> m.op, key |-> m.key, val |-> v, seen |-> {Contents[m.key]}, took |-> FALSE]]
    BY Zenon, <1>3, <1>5, <1>6
  <2>. QED BY Zenon, <1>2, <2>1, <2>2 DEF M!Invoke
<1>13. m.op \in M!Operations
  BY DEF M!Operations
<1>. QED BY <1>10, <1>11, <1>12, <1>13

LEMMA CallCalls ==
  ASSUME IInv, CallsOK, NEW t \in Threads, Call(t)
  PROVE  /\ CallsOK'
         /\ \/ Silent
            \/ /\ call'[t] # call[t]
               /\ \E op \in M!Operations, k \in Keys, v \in {Present} \cup {None} : M!Invoke(t, op, k, v)
<1>1. PICK s : s = World /\ IsWorld(s) /\ WorldOK(s)
  BY Known
<1>2. PICK l \in Locals : l = th[t]
  BY Known
<1>3. l.at = "idle" /\ ~Called(l)
  BY <1>2 DEF Call, At, Called
<1>4. PICK c \in [op : Ops, key : Keys] : c = Head(script[t])
  BY NextCall DEF Call, IInv
<1>5. link' = link /\ hashnr' = hashnr /\ bucket' = bucket /\ freed' = freed
  BY DEF Call, table
<1>6. PICK k : k = WithCall(Idle, "hash", c.op, c.key)
  OBVIOUS
<1>7. k \in Locals /\ k.at = "hash" /\ k.op = c.op /\ k.key = c.key
  <2>1. PICK i \in Locals : i = Idle
    BY IdleIs
  <2>2. PICK o \in Ops : o = c.op
    OBVIOUS
  <2>3. PICK y \in Keys : y = c.key
    OBVIOUS
  <2>4. PICK a \in Labels : a = "hash"
    BY DEF Labels
  <2>5. k = WithCall(i, a, o, y)
    BY Zenon, <1>6, <2>1, <2>2, <2>3, <2>4
  <2>6. k \in Locals /\ k.at = a /\ k.op = o /\ k.key = y
    <3>1. /\ WithCall(i, a, o, y) \in Locals /\ WithCall(i, a, o, y).at = a /\ WithCall(i, a, o, y).op = o
          /\ WithCall(i, a, o, y).key = y
      BY AtCall
    <3>. QED BY Zenon, <2>5, <3>1
  <2>. QED BY <2>2, <2>3, <2>4, <2>6
<1>8. PICK s2 : s2 = World'
  OBVIOUS
<1>9. \E m : /\ th' = [th EXCEPT ![t] = m] /\ m.at = "hash" /\ m.op = c.op /\ m.key = c.key /\ SameList(s, s2)
  <2>1. CASE c.op = "insert"
    <3>1. PICK n \in pool : key' = [key EXCEPT ![n] = c.key] /\ th' = [th EXCEPT ![t] = OnlyNode(k, n)]
      BY Zenon, <1>4, <1>6, <2>1 DEF Call, Local, WithCall, OnlyNode
    <3>2. n \in Nodes
      BY TypedNow DEF Nodes
    <3>3. PICK m : m = OnlyNode(k, n) /\ m.at = "hash" /\ m.op = c.op /\ m.key = c.key
      BY <1>7, <3>2, SetNode
    <3>4. n \notin s.list
      BY <1>1, WorldIs DEF WorldOK, PlacesOK
    <3>5. s2.list = s.list
      BY <1>1, <1>5, <1>8, WorldIs, WorldNext, ListIs
    <3>6. \A x \in Nodes : x # n => key'[x] = key[x]
      BY <3>1, TypedNow
    <3>7. s2.link = s.link /\ s2.hashnr = s.hashnr /\ \A x \in Nodes : x # n => s2.key[x] = s.key[x]
      BY <1>1, <1>5, <1>8, <3>6, WorldIs, WorldNext
    <3>8. SameList(s, s2)
      BY <1>1, <3>4, <3>5, <3>7 DEF SameList, IsWorld
    <3>. QED BY <3>1, <3>3, <3>8
  <2>2. CASE c.op # "insert"
    <3>1. th' = [th EXCEPT ![t] = k] /\ pool' = pool /\ key' = key
      BY Zenon, <1>4, <1>6, <2>2 DEF Call, Local, WithCall
    <3>2. World' = World
      BY <1>5, <3>1, WorldSame DEF list, memory
    <3>3. SameList(s, s2)
      BY <1>1, <1>8, <3>2 DEF SameList
    <3>. QED BY <1>7, <3>1, <3>3
  <2>. QED BY <2>1, <2>2
<1>10. PICK m : th' = [th EXCEPT ![t] = m] /\ m.at = "hash" /\ m.op = c.op /\ m.key = c.key /\ SameList(s, s2)
  BY <1>9
<1>11. CASE ~Recorded(c.op, c.key)
  <2>1. call' = call
    BY Zenon, <1>4, <1>11 DEF Call, NoEffect
  <2>2. CallOK(s2, m, call[t])
    <3>1. CallOK(s, l, call[t])
      BY <1>1, <1>2 DEF CallsOK
    <3>. QED BY <1>3, <1>10, <1>11, <3>1 DEF CallOK, Called
  <2>3. Stays(s, s2, None) /\ MapOf(s2) = MapOf(s) /\ None \notin s.list \cup s.freed
    BY <1>1, <1>10, ListKept, NoneIsNew
  <2>. QED BY <1>1, <1>8, <1>10, <2>1, <2>2, <2>3, SilentStep
<1>12. CASE Recorded(c.op, c.key)
  <2>1. call' = [call EXCEPT ![t] = [op |-> c.op, key |-> c.key, seen |-> {Contents[c.key]}, took |-> FALSE,
                                     val |-> IF c.op = "insert" THEN Present ELSE None]]
    BY Zenon, <1>4, <1>12 DEF Call
  <2>2. call' = [call EXCEPT ![t] = [op |-> m.op, key |-> m.key, seen |-> {Contents[m.key]}, took |-> FALSE,
                                     val |-> IF m.op = "insert" THEN Present ELSE None]]
    BY Zenon, <1>10, <2>1
  <2>3. m.op \in {"insert", "get", "remove"} /\ m.key \in Keys /\ Recorded(m.op, m.key)
    <3>1. c.op \in Ops /\ c.key \in Keys /\ c.op # "match"
      BY <1>12, RecordedIs
    <3>. QED BY <1>10, <1>12, <3>1 DEF Ops
  <2>. QED BY <1>1, <1>2, <1>3, <1>8, <1>10, <2>2, <2>3, BeginStep
<1>. QED BY <1>11, <1>12

\* No thread moves.
LEMMA NobodyMoves ==
  ASSUME IInv, CallsOK, NEW s, s = World, NEW s2, s2 = World', SameList(s, s2), UNCHANGED <<th, call>>
  PROVE  CallsOK' /\ Silent
<1>1. Stays(s, s2, None) /\ MapOf(s2) = MapOf(s) /\ None \notin s.list \cup s.freed
  BY ListKept, NoneIsNew
<1>2. Contents' = Contents
  BY <1>1, ContentsIs, ContentsNext
<1>3. \A u \in Threads : CallOK(s2, th[u], call[u])
  BY <1>1, OthersStay
<1>4. \A u \in Threads : CallOK(s2, th'[u], call'[u])
  BY <1>3
<1>. QED BY <1>2, <1>4 DEF CallsOK, Silent

LEMMA ReclaimCalls ==
  ASSUME IInv, CallsOK, Reclaim
  PROVE  CallsOK' /\ Silent
<1>1. PICK s : s = World
  OBVIOUS
<1>2. PICK s2 : s2 = World'
  OBVIOUS
<1>3. link' = link /\ hashnr' = hashnr /\ key' = key /\ bucket' = bucket /\ th' = th /\ call' = call
  BY DEF Reclaim, list, table, NoEffect
<1>4. s2.list = s.list /\ s2.link = s.link /\ s2.hashnr = s.hashnr /\ s2.key = s.key
  BY <1>1, <1>2, <1>3, WorldIs, WorldNext, ListIs
<1>5. SameList(s, s2)
  BY <1>4 DEF SameList
<1>. QED BY <1>1, <1>2, <1>3, <1>5, NobodyMoves
-------------------------------------------------------------------------------
(* The map.                                                                 *)

LEMMA InitCalls == Init => CallsOK /\ M!Init
<1>. SUFFICES ASSUME Init PROVE CallsOK /\ M!Init
  OBVIOUS
<1>1. IInv
  BY InitKeeps
<1>2. th = [u \in Threads |-> Idle] /\ call = [u \in Threads |-> [op |-> "none", result |-> None]]
      /\ bucket = [b \in Buckets |-> None] /\ link = [n \in Nodes |-> Unused]
  BY DEF Init
<1>3. \A u \in Threads : ~Called(th[u]) /\ call[u].op = "none"
  BY <1>2, IdleIs DEF Called
<1>4. CallsOK
  BY <1>2, <1>3 DEF CallsOK, CallOK
<1>5. World.list = {}
  <2>1. link \in Links /\ bucket[0] = None
    <3>1. Unused \in [to : Nodes \cup {None}, deleted : BOOLEAN]
      BY DEF Unused
    <3>. QED BY <1>2, <3>1, BucketBounds DEF Links
  <2>2. PICK r \in [Nodes -> Nat] : r = [n \in Nodes |-> 0]
    OBVIOUS
  <2>3. Chain({}, r, link, None)
    BY DEF Chain
  <2>4. InList = {}
    BY <2>1, <2>2, <2>3, ListIs, ListFromIs
  <2>. QED BY <2>4, WorldIs
<1>6. Contents = [k \in Keys |-> None]
  <2>1. \A k \in Keys : ~Has(World, k)
    BY <1>5 DEF Has, Unmarked
  <2>. QED BY <2>1, ContentsIs DEF MapOf
<1>. QED BY <1>2, <1>4, <1>6 DEF M!Init, M!Returned

LEMMA InsideCalls ==
  ASSUME Flags # 0, IInv, CallsOK, NEW t \in Threads, Inside(t)
  PROVE  CallsOK' /\ (Silent \/ M!TakeEffect(t) \/ \E result \in M!Results : M!Return(t, result))
BY LoadCalls, ConfirmCalls, LoadLinkCalls, ConfirmNextCalls, JudgeCalls, HelpRemoveCalls, ReadSizeCalls,
   ReadSlotCalls, ReadParentCalls, InstallCalls, SwapCalls, DuplicateCalls, ReadSizeAgainCalls, AddCalls,
   DoubleCalls, NotFoundCalls, MarkCalls, UnlinkCalls, UncountCalls, SearchReturnsCalls, SpinMatchCalls DEF Inside

LEMMA NextCalls ==
  ASSUME Flags # 0, IInv, CallsOK, [Next]_vars
  PROVE  CallsOK' /\ [M!Next]_<<Contents, call>>
<1>1. CASE UNCHANGED vars
  <2>1. World' = World /\ UNCHANGED <<th, call>>
    BY <1>1, WorldSame DEF vars, list, table, memory
  <2>2. PICK s : s = World /\ SameList(s, s)
    BY DEF SameList
  <2>3. CallsOK' /\ Silent
    BY <2>1, <2>2, NobodyMoves
  <2>. QED BY <2>3 DEF Silent
<1>2. CASE Reclaim
  BY <1>2, ReclaimCalls DEF Silent
<1>3. ASSUME NEW t \in Threads, Inside(t) \/ Call(t) \/ SearchUnpin(t)
      PROVE  CallsOK' /\ [M!Next]_<<Contents, call>>
  <2>1. CASE Inside(t)
    <3>1. CallsOK' /\ (Silent \/ M!TakeEffect(t) \/ \E result \in M!Results : M!Return(t, result))
      BY <2>1, InsideCalls
    <3>. QED BY <3>1 DEF Silent, M!Next
  <2>2. CASE Call(t)
    <3>1. /\ CallsOK'
          /\ \/ Silent
             \/ /\ call'[t] # call[t]
                /\ \E op \in M!Operations, k \in Keys, v \in {Present} \cup {None} : M!Invoke(t, op, k, v)
      BY <2>2, CallCalls
    <3>. QED BY <3>1 DEF Silent, M!Next
  <2>3. CASE SearchUnpin(t)
    BY <2>3, SearchUnpinCalls DEF Silent
  <2>. QED BY <1>3, <2>1, <2>2, <2>3
<1>. QED BY <1>1, <1>2, <1>3 DEF Next

\* HashMap with unique keys is a map: whatever its threads do in between, every insertion and
\* removal, and every search with a key lsearch does not cut, takes effect at one moment
\* between its call and its return.  Searches with longer keys are steps in between.
THEOREM ListIsAKeyMap == ASSUME Flags # 0 PROVE Spec => IsKeyMap
<1>1. Init => IInv /\ CallsOK /\ M!Init
  BY InitKeeps, InitCalls
<1>2. IInv /\ CallsOK /\ [Next]_vars => IInv' /\ CallsOK' /\ [M!Next]_<<Contents, call>>
  BY NextKeeps, NextCalls
<1>. QED BY <1>1, <1>2, PTL DEF Spec, IsKeyMap, M!Spec
===============================================================================
