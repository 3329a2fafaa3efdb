----------------------------- MODULE MCasProofs -----------------------------
(***************************************************************************)
(* Proofs about MCas, for any number of threads, words, calls and tries.   *)
(*                                                                         *)
(* First the types.  ShapeInv says what an activation knows at its label:  *)
(* which rows are decided, whose helper it holds and what it has been told *)
(* of another operation.  What is not null in a row stays as it is         *)
(* (Grows), and so most of what an activation knows stays true whatever    *)
(* the others do.                                                          *)
(*                                                                         *)
(* Then the helpers: which ones are in the words, which ones are a         *)
(* thread's own and which ones have been given to limbo.  Effect says what *)
(* one step may do to words, rows, activations and limbo.  Every action    *)
(* has such an effect, and an effect keeps the invariant.  From the        *)
(* invariant follow what a step does to the worth of an address, and what  *)
(* mcas_read returns.                                                      *)
(***************************************************************************)
EXTENDS MCas, DataLemmas

Height(t) == Len(stack[t])
Nth(t, k) == FromEnd(stack[t], k)          \* the k-th activation that was started
Activations(s) == {FromEnd(s, k) : k \in 1 .. Len(s)}
Running(s) == {FromEnd(s, k) : k \in {Len(s)} \ {0}}

Outcome(o) == mch[<<o, Len(desc[o])>>]
Live(r) == r[1] \in 1 .. Len(desc) /\ r[2] \in 1 .. Len(desc[r[1]])

\* The rows before r have been decided.
Earlier(r) == \A j \in 1 .. r[2] - 1 : mch[<<r[1], j>>] # Null
HelperOK(h) == Live(h.cr) /\ Earlier(h.cr)

Good(c) == c.kind = "mcas" => /\ c.rows # {}
                              /\ \A r, q \in c.rows : r.address = q.address => r = q
GoodCalls == {c \in Calls : Good(c)}

DescOK == \A o \in 1 .. Len(desc) : Len(desc[o]) \in 1 .. NAddresses
ScriptOK == \A t \in Threads : script[t] \in Seq(GoodCalls)
MchOK == \A r \in Rows : /\ IsHelper(mch[r]) => mch[r].cr = r /\ Live(r) /\ Earlier(r)
                         /\ ~ Live(r) => mch[r] = Null
WordOK == \A a \in Addresses : IsHelper(word[a]) => HelperOK(word[a]) /\ Row(word[a].cr).address = a
PendingOK == \A t \in Threads : pending[t] # Null => Live(pending[t]) /\ Earlier(pending[t])

\* The labels of place_mcas_helper: the activation has allocated a helper.
Placing == {"load", "loop", "announce", "try", "undo", "judge", "swap", "associate", "restore",
            "fail", "fail_last"}
Holds(f) == f.at \in Placing /\ f.kind # "read"

\* What should_replace knows when it lets the helper c be replaced by one of row r.
MayReplace(c, r) ==
    \/ /\ Row(r).expected = Row(c.cr).expected
       /\ Outcome(c.cr[1]) = Fail \/ mch[c.cr] \notin {Null, c}
    \/ /\ Row(r).expected = Row(c.cr).new
       /\ mch[c.cr] = c
       /\ IsHelper(Outcome(c.cr[1])) \/ SomeFailed(c.cr[1])

LabelOK(f) ==
    /\ f.at = "assist" => f.kind = "own"
    /\ f.at \in {"judge", "swap"} => IsHelper(f.cvalue) /\ (f.kind # "read" => f.cvalue.cr # f.cr)
    /\ f.at = "swap" => MayReplace(f.cvalue, f.cr)
    /\ f.at = "undo" => IsHelper(f.cvalue) /\ f.cvalue.cr = f.cr /\ mch[f.cr] \notin {Null, f.cvalue}
    /\ f.at = "restore" => mch[f.cr] \notin {Null, f.mch}
    /\ f.at = "fail_last" => mch[f.cr] = Fail
    /\ f.at = "check" => f.kind = "help" /\ mch[f.cr] # Null
    /\ f.at = "end" => \/ Outcome(f.cr[1]) # Null
                       \/ f.kind = "help" /\ mch[f.cr] = Fail
    /\ f.at \in {"decide", "remove"} => f.kind = "own" /\ Outcome(f.cr[1]) # Null
    /\ f.at = "remove" => IF Outcome(f.cr[1]) = Fail THEN f.res = 1 ELSE f.res = 0
    /\ f.at \notin Placing => f.cvalue = Null
    /\ f.kind = "read" => f.at = "judge" /\ f.cr = f.cvalue.cr

FrameOK(f) ==
    /\ Live(f.cr)
    /\ f.at # "remove" => Earlier(f.cr)
    /\ Holds(f) => IsHelper(f.mch) /\ f.mch.cr = f.cr
    /\ IsHelper(f.cvalue) => HelperOK(f.cvalue) /\ Row(f.cvalue.cr).address = Row(f.cr).address
    /\ LabelOK(f)

\* What help_complete has told the activation about its cvalue.
ResultOK(f) ==
    LET o == f.cvalue.cr[1]
    IN  /\ f.res = 0 => IsHelper(Outcome(o)) \/ SomeFailed(o)
        /\ f.res = 1 => Outcome(o) = Fail
        /\ f.res # -1 => Outcome(o) = Fail \/ mch[f.cvalue.cr] # Null
        /\ f.kind = "read" /\ NThreads > 1 => f.res # -1

\* The activation g waits for the activation f of help_complete.
Waits(g, f) == \/ g.at = "next" /\ g.kind = "own"
               \/ /\ g.at = "judge" /\ IsHelper(g.cvalue)
                  /\ f.cr[1] = g.cvalue.cr[1] /\ f.cr[2] >= g.cvalue.cr[2]

\* A stack s of activations and the count d of recur_depth.
StackOK(s, d) ==
    /\ Len(s) <= d + 1
    /\ \A k \in 1 .. Len(s) : (FromEnd(s, k).kind = "help" => k # 1)
                              /\ (k # 1 => FromEnd(s, k).kind = "help")
    /\ \A k \in 1 .. Len(s) - 1 : Waits(FromEnd(s, k), FromEnd(s, k + 1))

FramesOK == \A t \in Threads : \A f \in Activations(stack[t]) : FrameOK(f)
ResultsOK == \A t \in Threads : \A f \in Running(stack[t]) : f.at = "judge" => ResultOK(f)
StacksOK == \A t \in Threads : StackOK(stack[t], depth[t])

MemoryInv == /\ word \in [Addresses -> Values \cup Helpers]
             /\ desc \in Seq(Seq(CasRow)) /\ Len(desc) <= MaxCalls
             /\ mch \in [Rows -> {Null, Fail} \cup Helpers]
             /\ pending \in [Threads -> {Null} \cup Rows]
             /\ checkId \in [Threads -> Threads]
             /\ script \in [Threads -> Seq(Calls)]
             /\ DescOK /\ ScriptOK /\ MchOK /\ WordOK /\ PendingOK
ShapeInv == TypeOK /\ MemoryInv /\ FramesOK /\ ResultsOK /\ StacksOK
-------------------------------------------------------------------------------
\* The rows of the calls made, and what refers to them.
LEMMA RowTyped ==
  ASSUME MemoryInv, NEW r \in Rows, Live(r)
  PROVE  /\ Row(r) \in CasRow /\ Row(r).address \in Addresses
         /\ Row(r).expected \in Values /\ Row(r).new \in Values
         /\ LastRow(r) \in Rows /\ Live(LastRow(r)) /\ LastRow(r)[1] = r[1]
         /\ r[1] \in Nat /\ r[2] \in Nat /\ r[2] <= LastRow(r)[2] /\ LastRow(r)[2] \in Nat
         /\ Outcome(r[1]) = mch[LastRow(r)]
         /\ r = <<r[1], r[2]>>
         /\ \A i \in 1 .. Len(desc[r[1]]) : <<r[1], i>> \in Rows /\ Live(<<r[1], i>>)
<1>1. /\ NAddresses \in Nat /\ MaxCalls \in Nat /\ desc \in Seq(Seq(CasRow)) /\ Len(desc) <= MaxCalls
      /\ r[1] \in 1 .. Len(desc) /\ r[2] \in 1 .. Len(desc[r[1]]) /\ r = <<r[1], r[2]>>
  BY MCasConstants DEF MemoryInv, Live, Rows
<1>2. Len(desc) \in Nat /\ desc[r[1]] \in Seq(CasRow) /\ Len(desc[r[1]]) \in 1 .. NAddresses
  BY <1>1 DEF MemoryInv, DescOK
<1>3. desc[r[1]][r[2]] \in CasRow
  BY <1>1, <1>2
<1>4. \A i \in 1 .. Len(desc[r[1]]) : <<r[1], i>> \in Rows /\ Live(<<r[1], i>>)
  BY <1>1, <1>2 DEF Rows, Ops, Addresses, Live
<1>5. LastRow(r) = <<r[1], Len(desc[r[1]])>> /\ Len(desc[r[1]]) \in 1 .. Len(desc[r[1]])
  BY <1>1, <1>2 DEF LastRow
<1>6. /\ LastRow(r) \in Rows /\ Live(LastRow(r)) /\ LastRow(r)[1] = r[1]
      /\ r[1] \in Nat /\ r[2] \in Nat /\ r[2] <= LastRow(r)[2] /\ LastRow(r)[2] \in Nat
  BY <1>1, <1>2, <1>4, <1>5
<1>7. Outcome(r[1]) = mch[LastRow(r)]
  BY <1>5 DEF Outcome
<1>8. Row(r) \in CasRow /\ Row(r).address \in Addresses /\ Row(r).expected \in Values /\ Row(r).new \in Values
  BY <1>3 DEF Row, CasRow
<1>. QED BY <1>1, <1>4, <1>6, <1>7, <1>8

\* What only grows: calls are made, and rows are decided once.
Grows == /\ Len(desc) <= Len(desc') /\ \A o \in 1 .. Len(desc) : desc'[o] = desc[o]
         /\ \A r \in Rows : mch[r] # Null => mch'[r] = mch[r]

LEMMA RowKept ==
  ASSUME MemoryInv, MemoryInv', Grows, NEW r \in Rows, Live(r)
  PROVE  /\ Live(r)' /\ Row(r)' = Row(r) /\ LastRow(r)' = LastRow(r)
         /\ Earlier(r) => Earlier(r)'
         /\ mch[r] # Null => mch'[r] = mch[r]
         /\ Outcome(r[1]) # Null => Outcome(r[1])' = Outcome(r[1])
         /\ SomeFailed(r[1]) => SomeFailed(r[1])'
<1>1. /\ desc'[r[1]] = desc[r[1]] /\ r[1] \in 1 .. Len(desc) /\ r[2] \in 1 .. Len(desc[r[1]])
      /\ Len(desc) <= Len(desc') /\ Len(desc) \in Nat /\ Len(desc') \in Nat /\ Len(desc[r[1]]) \in Nat
  BY DEF Grows, Live, MemoryInv, DescOK
<1>2. Live(r)' /\ Row(r)' = Row(r) /\ LastRow(r)' = LastRow(r)
  BY <1>1 DEF Live, Row, LastRow
<1>3. \A i \in 1 .. Len(desc[r[1]]) : <<r[1], i>> \in Rows
  BY RowTyped
<1>4. \A i \in 1 .. Len(desc[r[1]]) : mch[<<r[1], i>>] # Null => mch'[<<r[1], i>>] = mch[<<r[1], i>>]
  BY <1>3 DEF Grows
<1>5. Earlier(r) => Earlier(r)'
  <2>1. \A j \in 1 .. r[2] - 1 : j \in 1 .. Len(desc[r[1]])
    BY <1>1
  <2>. QED BY <1>4, <2>1 DEF Earlier
<1>6. Outcome(r[1]) # Null => Outcome(r[1])' = Outcome(r[1])
  <2>1. Len(desc[r[1]]) \in 1 .. Len(desc[r[1]])
    BY <1>1
  <2>. QED BY <1>1, <1>4, <2>1 DEF Outcome
<1>7. SomeFailed(r[1]) => SomeFailed(r[1])'
  <2>. SUFFICES ASSUME NEW i \in 1 .. Len(desc[r[1]]), mch[<<r[1], i>>] = Fail
                PROVE  mch'[<<r[1], i>>] = Fail
    BY <1>1 DEF SomeFailed
  <2>. QED BY <1>4, MCasConstants
<1>8. mch[r] # Null => mch'[r] = mch[r]
  BY DEF Grows
<1>. QED BY <1>2, <1>5, <1>6, <1>7, <1>8

\* Helpers are neither values nor flags.
LEMMA HelperTyped ==
  /\ Null # Fail /\ ~ IsHelper(Null) /\ ~ IsHelper(Fail) /\ \A v \in Values : ~ IsHelper(v) /\ v # Null
  /\ \A h : IsHelper(h) => h \in Helpers /\ h.cr \in Rows
BY MCasConstants, MarkedPointers DEF IsHelper, Helpers

\* What an activation knows stays true.
LEMMA FrameKept ==
  ASSUME MemoryInv, MemoryInv', Grows, NEW f \in Frames, FrameOK(f)
  PROVE  FrameOK(f)'
<1>1. f.cr \in Rows /\ Live(f.cr)
  BY DEF Frames, FrameOK
<1>2. /\ Live(f.cr)' /\ Row(f.cr)' = Row(f.cr)
      /\ Earlier(f.cr) => Earlier(f.cr)'
      /\ mch[f.cr] # Null => mch'[f.cr] = mch[f.cr]
      /\ Outcome(f.cr[1]) # Null => Outcome(f.cr[1])' = Outcome(f.cr[1])
  BY <1>1, RowKept
<1>3. ASSUME IsHelper(f.cvalue)
      PROVE  /\ HelperOK(f.cvalue)' /\ Row(f.cvalue.cr)' = Row(f.cvalue.cr)
             /\ mch[f.cvalue.cr] # Null => mch'[f.cvalue.cr] = mch[f.cvalue.cr]
             /\ Outcome(f.cvalue.cr[1]) # Null => Outcome(f.cvalue.cr[1])' = Outcome(f.cvalue.cr[1])
             /\ SomeFailed(f.cvalue.cr[1]) => SomeFailed(f.cvalue.cr[1])'
  <2>1. f.cvalue.cr \in Rows /\ Live(f.cvalue.cr) /\ Earlier(f.cvalue.cr)
    BY <1>3, HelperTyped DEF FrameOK, HelperOK
  <2>. QED BY <2>1, RowKept DEF HelperOK
<1>4. LabelOK(f)'
  <2>1. f.at = "swap" => MayReplace(f.cvalue, f.cr)'
    <3>. SUFFICES ASSUME f.at = "swap" PROVE MayReplace(f.cvalue, f.cr)'
      OBVIOUS
    <3>1. IsHelper(f.cvalue) /\ MayReplace(f.cvalue, f.cr)
      BY DEF FrameOK, LabelOK
    <3>2. IsHelper(Outcome(f.cvalue.cr[1])) => IsHelper(Outcome(f.cvalue.cr[1])')
      BY <1>3, <3>1, HelperTyped
    <3>. QED BY <1>2, <1>3, <3>1, <3>2, HelperTyped DEF MayReplace, IsHelper
  <2>2. LabelOK(f)
    BY DEF FrameOK
  <2>. QED BY <1>2, <2>1, <2>2, HelperTyped DEF LabelOK, IsHelper
<1>5. IsHelper(f.cvalue) => Row(f.cvalue.cr)'.address = Row(f.cr)'.address
  BY <1>2, <1>3 DEF FrameOK
<1>. QED BY <1>2, <1>3, <1>4, <1>5 DEF FrameOK, Holds, IsHelper, HelperOK

LEMMA ResultKept ==
  ASSUME MemoryInv, MemoryInv', Grows, NEW f \in Frames, IsHelper(f.cvalue), HelperOK(f.cvalue),
         ResultOK(f)
  PROVE  ResultOK(f)'
<1>1. f.cvalue.cr \in Rows /\ Live(f.cvalue.cr)
  BY HelperTyped DEF HelperOK
<1>2. /\ mch[f.cvalue.cr] # Null => mch'[f.cvalue.cr] = mch[f.cvalue.cr]
      /\ Outcome(f.cvalue.cr[1]) # Null => Outcome(f.cvalue.cr[1])' = Outcome(f.cvalue.cr[1])
      /\ SomeFailed(f.cvalue.cr[1]) => SomeFailed(f.cvalue.cr[1])'
  BY <1>1, RowKept
<1>. QED BY <1>2, HelperTyped DEF ResultOK, IsHelper
\* What an address is worth is a value.
LogicalOK == \A a \in Addresses : Logical(a) \in Values

LEMMA LogicalTyped == MemoryInv => LogicalOK
<1>. SUFFICES ASSUME MemoryInv, NEW a \in Addresses PROVE Logical(a) \in Values
  BY DEF LogicalOK
<1>1. CASE ~ IsHelper(word[a])
  BY <1>1 DEF MemoryInv, Logical, IsHelper
<1>2. CASE IsHelper(word[a])
  <2>1. word[a].cr \in Rows /\ Live(word[a].cr)
    BY <1>2, HelperTyped DEF MemoryInv, WordOK, HelperOK
  <2>. QED BY <1>2, <2>1, RowTyped DEF Logical
<1>. QED BY <1>1, <1>2

RowsTyped == \A r \in Rows : Live(r) => /\ Row(r).address \in Addresses
                                        /\ Row(r).expected \in Values /\ Row(r).new \in Values

LEMMA RowsAreTyped == MemoryInv => RowsTyped
BY RowTyped DEF RowsTyped

LEMMA RowTypedNext == MemoryInv' => RowsTyped'
BY RowsAreTyped, PTL

LEMMA LogicalTypedNext == MemoryInv' => LogicalOK'
BY LogicalTyped, PTL
-------------------------------------------------------------------------------
\* The frames of a state in which ShapeInv holds.
LEMMA FrameTyped ==
  ASSUME ShapeInv, NEW t \in Threads
  PROVE  /\ stack[t] \in Seq(Frames) /\ Height(t) \in Nat /\ depth[t] \in Nat
         /\ \A k \in 1 .. Height(t) : Nth(t, k) \in Frames /\ FrameOK(Nth(t, k))
         /\ StackOK(stack[t], depth[t])
         /\ Height(t) # 0 /\ Nth(t, Height(t)).at = "judge" => ResultOK(Nth(t, Height(t)))
<1>1. stack[t] \in Seq(Frames) /\ depth[t] \in Nat
  BY DEF ShapeInv, TypeOK
<1>2. Height(t) \in Nat /\ \A k \in 1 .. Height(t) : Nth(t, k) \in Frames
  BY <1>1, LenProperties, AllFromEnd DEF Height, Nth
<1>3. \A k \in 1 .. Height(t) : FrameOK(Nth(t, k))
  <2>. TAKE k \in 1 .. Height(t)
  <2>1. Nth(t, k) \in Activations(stack[t])
    BY DEF Activations, Height, Nth
  <2>. QED BY <2>1 DEF ShapeInv, FramesOK
<1>4. Height(t) # 0 /\ Nth(t, Height(t)).at = "judge" => ResultOK(Nth(t, Height(t)))
  <2>1. Height(t) # 0 => Nth(t, Height(t)) \in Running(stack[t])
    BY DEF Running, Height, Nth
  <2>. QED BY <2>1 DEF ShapeInv, ResultsOK
<1>. QED BY <1>1, <1>2, <1>3, <1>4 DEF ShapeInv, StacksOK

\* A step that gives thread t the stack s and the count d.
LEMMA Restacks ==
  ASSUME ShapeInv, MemoryInv', Grows, NEW t \in Threads, NEW s \in Seq(Frames), NEW d \in Nat,
         stack' = [stack EXCEPT ![t] = s], depth' = [depth EXCEPT ![t] = d],
         \A f \in Activations(s) : FrameOK(f)',
         \A f \in Running(s) : f.at = "judge" => ResultOK(f)',
         StackOK(s, d),
         NEW hs, hs \subseteq Helpers, Deallocs(hs)
  PROVE  ShapeInv'
<1>0. MemoryInv
  BY DEF ShapeInv
<1>1. /\ stack' \in [Threads -> Seq(Frames)] /\ depth' \in [Threads -> Nat]
      /\ stack'[t] = s /\ depth'[t] = d
      /\ \A u \in Threads : u # t => stack'[u] = stack[u] /\ depth'[u] = depth[u]
  BY DEF ShapeInv, TypeOK
<1>2. ASSUME NEW u \in Threads, NEW f \in Activations(stack'[u]) PROVE FrameOK(f)' /\ f \in Frames
  <2>1. stack'[u] \in Seq(Frames)
    BY <1>1
  <2>2. f \in Frames
    BY <2>1, AllFromEnd DEF Activations
  <2>3. u # t => FrameOK(f)
    BY <1>1 DEF ShapeInv, FramesOK
  <2>. QED BY <1>0, <1>1, <2>2, <2>3, FrameKept
<1>3. FramesOK'
  BY <1>2 DEF FramesOK
<1>4. ResultsOK'
  <2>. SUFFICES ASSUME NEW u \in Threads, NEW f \in Running(stack'[u]), f.at = "judge"
                PROVE  ResultOK(f)'
    BY DEF ResultsOK
  <2>1. CASE u = t
    BY <1>1, <2>1
  <2>2. CASE u # t
    <3>1. stack[u] \in Seq(Frames) /\ f \in Running(stack[u]) /\ ResultOK(f)
      BY <1>1, <2>2 DEF ShapeInv, TypeOK, ResultsOK
    <3>2. f \in Activations(stack[u])
      BY <3>1, LenProperties DEF Activations, Running
    <3>3. f \in Frames /\ FrameOK(f)
      BY <3>1, <3>2, AllFromEnd DEF Activations, ShapeInv, FramesOK
    <3>4. IsHelper(f.cvalue) /\ HelperOK(f.cvalue)
      BY <3>3 DEF FrameOK, LabelOK
    <3>. QED BY <1>0, <3>1, <3>3, <3>4, ResultKept
  <2>. QED BY <2>1, <2>2
<1>5. StacksOK'
  BY <1>1 DEF StacksOK, ShapeInv
<1>6. seen' \in [Threads -> SUBSET Values]
  <2>. SUFFICES ASSUME NEW u \in Threads, Reading(u)'
                PROVE  Logical(ReadAddress(u))' \in Values
    BY DEF Deallocs, ShapeInv, TypeOK
  <2>1. stack'[u] \in Seq(Frames) /\ stack'[u] # <<>>
    BY <1>1 DEF Reading
  <2>2. PICK f : f = FromEnd(stack'[u], 1)
    OBVIOUS
  <2>3. Len(stack'[u]) \in Nat /\ 1 \in 1 .. Len(stack'[u])
    BY <2>1, PopFromEnd
  <2>4. f = stack'[u][Len(stack'[u])] /\ f \in Activations(stack'[u])
    BY <2>2, <2>3 DEF FromEnd, Activations
  <2>5. FrameOK(f)' /\ f \in Frames
    BY <1>2, <2>4
  <2>6. Live(f.cr)' /\ f.cr \in Rows
    BY <2>5 DEF FrameOK, Frames
  <2>7. Row(f.cr)'.address \in Addresses
    BY <2>6, RowTypedNext DEF RowsTyped
  <2>8. ReadAddress(u)' = Row(f.cr)'.address
    BY <2>4 DEF ReadAddress, Row
  <2>. QED BY <2>7, <2>8, LogicalTypedNext DEF LogicalOK
<1>7. retired' \subseteq Helpers /\ twice' \subseteq Helpers
  BY DEF Deallocs, ShapeInv, TypeOK
<1>8. TypeOK'
  BY <1>1, <1>6, <1>7 DEF TypeOK, MemoryInv
<1>. QED BY <1>3, <1>4, <1>5, <1>8 DEF ShapeInv
-------------------------------------------------------------------------------
(* What a step makes of a thread's stack.                                   *)

\* The running activation goes on.
LEMMA GoesOn ==
  ASSUME NEW s \in Seq(Frames), NEW d \in Nat, StackOK(s, d), s # <<>>, NEW f \in Frames,
         f.kind = Head(s).kind,
         f.kind = "help" => f.cr[1] = Head(s).cr[1] /\ f.cr[2] >= Head(s).cr[2]
  PROVE  /\ <<f>> \o Tail(s) \in Seq(Frames) /\ StackOK(<<f>> \o Tail(s), d)
         /\ Activations(<<f>> \o Tail(s)) \subseteq {f} \cup Activations(s)
         /\ Running(<<f>> \o Tail(s)) = {f}
<1>0. PICK b : b = Tail(s)
  OBVIOUS
<1>. DEFINE z == <<f>> \o b
            n == Len(s)
<1>1. /\ n \in Nat /\ n >= 1 /\ Head(s) \in Frames /\ FromEnd(s, n) = Head(s)
      /\ b \in Seq(Frames) /\ Len(b) = n - 1
      /\ \A k \in 1 .. n - 1 : FromEnd(b, k) = FromEnd(s, k)
  BY <1>0, PopFromEnd
<1>. HIDE DEF n
<1>2. /\ z \in Seq(Frames) /\ Len(z) = n /\ FromEnd(z, n) = f
      /\ \A k \in 1 .. n - 1 : FromEnd(z, k) = FromEnd(s, k)
  <2>1. /\ z \in Seq(Frames) /\ Len(z) = Len(b) + 1 /\ FromEnd(z, Len(z)) = f
        /\ \A k \in 1 .. Len(b) : FromEnd(z, k) = FromEnd(b, k)
    BY <1>1, PushFromEnd
  <2>. HIDE DEF z
  <2>2. Len(z) = n
    BY <1>1, <2>1
  <2>. QED BY <1>1, <2>1, <2>2
<1>. HIDE DEF z
<1>3. StackOK(z, d)
  <2>1. n <= d + 1 /\ \A k \in 1 .. n : /\ FromEnd(z, k).kind = "help" => k # 1
                                        /\ k # 1 => FromEnd(z, k).kind = "help"
    BY <1>1, <1>2 DEF StackOK, n
  <2>2. ASSUME NEW k \in 1 .. n - 1 PROVE Waits(FromEnd(z, k), FromEnd(z, k + 1))
    <3>1. Waits(FromEnd(s, k), FromEnd(s, k + 1)) /\ FromEnd(z, k) = FromEnd(s, k)
      BY <1>2 DEF StackOK, n
    <3>2. CASE k + 1 \in 1 .. n - 1
      BY <1>2, <3>1, <3>2
    <3>3. CASE k + 1 = n
      <4>1. f.kind = "help" /\ FromEnd(z, k + 1) = f /\ FromEnd(s, k + 1) = Head(s)
        BY <1>1, <1>2, <3>3 DEF StackOK, n
      <4>2. ASSUME NEW g \in Frames, Waits(g, Head(s)) PROVE Waits(g, f)
        <5>1. f.cr[2] \in Nat /\ Head(s).cr[2] \in Nat
          <6>1. Head(s) \in Frames
            BY <1>1
          <6>2. f.cr \in Rows /\ Head(s).cr \in Rows
            BY <6>1 DEF Frames
          <6>3. \A r \in Rows : r[2] \in Nat
            BY MCasConstants DEF Rows, Addresses
          <6>. QED BY <6>2, <6>3
        <5>2. IsHelper(g.cvalue) => g.cvalue.cr[2] \in Nat
          BY HelperTyped, MCasConstants DEF Rows, Addresses
        <5>. QED BY <4>1, <4>2, <5>1, <5>2 DEF Waits
      <4>3. FromEnd(s, k) \in Frames
        BY <1>1, AllFromEnd
      <4>. QED BY <3>1, <4>1, <4>2, <4>3
    <3>4. k + 1 \in 1 .. n - 1 \/ k + 1 = n
      <4>1. n \in Nat
        BY <1>1
      <4>. QED BY <4>1
    <3>. QED BY <3>2, <3>3, <3>4
  <2>. QED BY <1>2, <2>1, <2>2 DEF StackOK
<1>4. Activations(z) \subseteq {f} \cup Activations(s)
  <2>. SUFFICES ASSUME NEW k \in 1 .. n PROVE FromEnd(z, k) \in {f} \cup Activations(s)
    BY <1>2 DEF Activations
  <2>1. k = n \/ k \in 1 .. n - 1
    BY <1>1
  <2>. QED BY <1>2, <2>1 DEF Activations, n
<1>5. Running(z) = {f}
  BY <1>1, <1>2 DEF Running
<1>. QED BY <1>0, <1>2, <1>3, <1>4, <1>5 DEF z
\* An activation starts another one.
LEMMA StartsHelp ==
  ASSUME NEW b \in Seq(Frames), NEW f \in Frames, NEW g \in Frames, NEW d \in Nat,
         StackOK(<<f>> \o b, d), g.kind = "help", Waits(f, g)
  PROVE  /\ <<g, f>> \o b \in Seq(Frames) /\ StackOK(<<g, f>> \o b, d + 1)
         /\ Activations(<<g, f>> \o b) \subseteq {g, f} \cup Activations(b)
         /\ Running(<<g, f>> \o b) = {g}
<1>. DEFINE y == <<f>> \o b
            z == <<g, f>> \o b
            n == Len(b)
<1>1. /\ y \in Seq(Frames) /\ Len(y) = n + 1 /\ n \in Nat /\ FromEnd(y, n + 1) = f
      /\ \A k \in 1 .. n : FromEnd(y, k) = FromEnd(b, k)
  <2>1. /\ y \in Seq(Frames) /\ Len(y) = n + 1 /\ n \in Nat /\ FromEnd(y, Len(y)) = f
        /\ \A k \in 1 .. n : FromEnd(y, k) = FromEnd(b, k)
    BY PushFromEnd
  <2>. HIDE DEF y, n
  <2>. QED BY <2>1
<1>2. /\ z \in Seq(Frames) /\ Len(z) = n + 2 /\ FromEnd(z, n + 2) = g /\ FromEnd(z, n + 1) = f
      /\ \A k \in 1 .. n : FromEnd(z, k) = FromEnd(b, k)
  <2>1. /\ z \in Seq(Frames) /\ Len(z) = n + 2 /\ FromEnd(z, Len(z)) = g /\ FromEnd(z, n + 1) = f
        /\ \A k \in 1 .. n : FromEnd(z, k) = FromEnd(b, k)
    BY PushTwoFromEnd
  <2>. HIDE DEF z, n
  <2>. QED BY <2>1
<1>3. StackOK(y, d)
  OBVIOUS
<1>. HIDE DEF y, z, n
<1>4. \A k \in 1 .. n + 1 : FromEnd(z, k) = FromEnd(y, k)
  <2>1. \A k \in 1 .. n + 1 : k \in 1 .. n \/ k = n + 1
    <3>1. n \in Nat
      BY <1>1
    <3>. QED BY <3>1
  <2>. QED BY <1>1, <1>2, <2>1
<1>5. StackOK(z, d + 1)
  <2>1. n + 1 <= d + 1
    BY <1>1, <1>3 DEF StackOK
  <2>2. ASSUME NEW k \in 1 .. n + 2
        PROVE  /\ FromEnd(z, k).kind = "help" => k # 1
               /\ k # 1 => FromEnd(z, k).kind = "help"
    <3>1. k \in 1 .. n + 1 \/ (k = n + 2 /\ k # 1)
      <4>1. n \in Nat
        BY <1>1
      <4>. QED BY <4>1
    <3>2. k \in 1 .. n + 1 => /\ FromEnd(y, k).kind = "help" => k # 1
                              /\ k # 1 => FromEnd(y, k).kind = "help"
      BY <1>1, <1>3 DEF StackOK
    <3>. QED BY <1>2, <1>4, <3>1, <3>2
  <2>3. ASSUME NEW k \in 1 .. n + 1 PROVE Waits(FromEnd(z, k), FromEnd(z, k + 1))
    <3>1. (k \in 1 .. n /\ k + 1 \in 1 .. n + 1) \/ (k = n + 1 /\ k + 1 = n + 2)
      <4>1. n \in Nat
        BY <1>1
      <4>. QED BY <4>1
    <3>2. k \in 1 .. n => Waits(FromEnd(y, k), FromEnd(y, k + 1))
      <4>1. n + 1 - 1 = n
        BY <1>1
      <4>. QED BY <1>1, <1>3, <4>1 DEF StackOK
    <3>. QED BY <1>2, <1>4, <3>1, <3>2
  <2>4. Len(z) <= d + 1 + 1 /\ Len(z) - 1 = n + 1
    BY <1>1, <1>2, <2>1
  <2>. QED BY <1>2, <2>2, <2>3, <2>4 DEF StackOK
<1>6. Activations(z) \subseteq {g, f} \cup Activations(b)
  <2>. SUFFICES ASSUME NEW k \in 1 .. n + 2 PROVE FromEnd(z, k) \in {g, f} \cup Activations(b)
    BY <1>2 DEF Activations
  <2>1. k = n + 2 \/ k = n + 1 \/ k \in 1 .. n
    <3>1. n \in Nat
      BY <1>1
    <3>. QED BY <3>1
  <2>. QED BY <1>2, <2>1 DEF Activations, n
<1>7. Running(z) = {g}
  BY <1>1, <1>2 DEF Running
<1>. QED BY <1>2, <1>5, <1>6, <1>7 DEF z

\* The running activation returns, and leaves a result to the one under it.
LEMMA ReturnsHelp ==
  ASSUME NEW s \in Seq(Frames), NEW d \in Nat, StackOK(s, d), s # <<>>, Head(s).kind = "help",
         NEW x \in {-1, 0, 1}
  PROVE  LET f == [s[2] EXCEPT !.res = x]
             z == <<f>> \o Tail(Tail(s))
         IN  /\ s[2] \in Frames /\ s[2] \in Activations(s) /\ Waits(s[2], Head(s)) /\ d - 1 \in Nat
             /\ s[2] = FromEnd(s, Len(s) - 1) /\ Len(s) - 1 \in 1 .. Len(s)
             /\ z \in Seq(Frames) /\ StackOK(z, d - 1) /\ Activations(z) \subseteq {f} \cup Activations(s)
             /\ Running(z) = {f}
<1>. DEFINE n == Len(s)
<1>1. /\ n \in Nat /\ n >= 1 /\ Head(s) \in Frames /\ FromEnd(s, n) = Head(s)
      /\ Tail(s) \in Seq(Frames) /\ Len(Tail(s)) = n - 1
      /\ \A k \in 1 .. n - 1 : FromEnd(Tail(s), k) = FromEnd(s, k)
  BY PopFromEnd
<1>2. n # 1
  BY <1>1 DEF StackOK
<1>3. PICK b : b = Tail(s)
  OBVIOUS
<1>4. s[2] = b[1]
  BY <1>1, <1>2, <1>3, HeadTailProperties
<1>. HIDE DEF n
<1>5. b \in Seq(Frames) /\ b # <<>> /\ Len(b) = n - 1
  <2>1. Len(b) # 0
    BY <1>1, <1>2, <1>3
  <2>. QED BY <1>1, <1>3, <2>1
<1>6. Head(b) = s[2] /\ s[2] \in Frames /\ FromEnd(b, n - 1) = s[2]
  BY <1>4, <1>5, PopFromEnd
<1>7. n - 1 \in 1 .. n /\ n - 1 \in 1 .. n - 1 /\ n - 1 + 1 = n
  <2>1. n \in Nat /\ n >= 1 /\ n # 1
    BY <1>1, <1>2
  <2>. QED BY <2>1
<1>8. FromEnd(s, n - 1) = s[2] /\ Waits(s[2], Head(s))
  <2>1. FromEnd(s, n - 1) = s[2]
    BY <1>1, <1>3, <1>6, <1>7
  <2>2. Waits(FromEnd(s, n - 1), FromEnd(s, n - 1 + 1))
    BY <1>7 DEF StackOK, n
  <2>. QED BY <1>1, <1>7, <2>1, <2>2
<1>9. d - 1 \in Nat /\ n - 1 <= d - 1 + 1
  <2>1. n \in Nat /\ n >= 1 /\ n # 1 /\ n <= d + 1
    BY <1>1, <1>2 DEF StackOK, n
  <2>. QED BY <2>1
<1>10. StackOK(b, d - 1)
  <2>1. ASSUME NEW k \in 1 .. n - 1
        PROVE  /\ FromEnd(b, k).kind = "help" => k # 1
               /\ k # 1 => FromEnd(b, k).kind = "help"
    <3>1. k \in 1 .. n /\ FromEnd(b, k) = FromEnd(s, k)
      <4>1. n \in Nat
        BY <1>1
      <4>. QED BY <1>1, <1>3, <4>1
    <3>. QED BY <3>1 DEF StackOK, n
  <2>2. ASSUME NEW k \in 1 .. n - 1 - 1 PROVE Waits(FromEnd(b, k), FromEnd(b, k + 1))
    <3>1. k \in 1 .. n - 1 /\ k + 1 \in 1 .. n - 1
      <4>1. n \in Nat
        BY <1>1
      <4>. QED BY <4>1
    <3>2. FromEnd(b, k) = FromEnd(s, k) /\ FromEnd(b, k + 1) = FromEnd(s, k + 1)
      BY <1>1, <1>3, <3>1
    <3>. QED BY <3>1, <3>2 DEF StackOK, n
  <2>. QED BY <1>5, <1>9, <2>1, <2>2 DEF StackOK
<1>11. PICK f : f = [s[2] EXCEPT !.res = x]
  OBVIOUS
<1>12. f \in Frames /\ f.kind = Head(b).kind /\ f.cr = Head(b).cr
  BY <1>6, <1>11 DEF Frames
<1>13. f.cr[2] >= Head(b).cr[2]
  BY <1>12, MCasConstants DEF Frames, Rows, Addresses
<1>14. /\ <<f>> \o Tail(b) \in Seq(Frames) /\ StackOK(<<f>> \o Tail(b), d - 1)
       /\ Activations(<<f>> \o Tail(b)) \subseteq {f} \cup Activations(b)
       /\ Running(<<f>> \o Tail(b)) = {f}
  BY <1>5, <1>9, <1>10, <1>12, <1>13, GoesOn
<1>15. Activations(b) \subseteq Activations(s)
  <2>1. \A k \in 1 .. n - 1 : k \in 1 .. n
    <3>1. n \in Nat
      BY <1>1
    <3>. QED BY <3>1
  <2>. QED BY <1>1, <1>3, <1>5, <2>1 DEF Activations, n
<1>16. s[2] \in Activations(s)
  BY <1>7, <1>8 DEF Activations, n
<1>. QED BY <1>3, <1>6, <1>7, <1>8, <1>9, <1>11, <1>14, <1>15, <1>16 DEF n
-------------------------------------------------------------------------------
(* What a step makes of the memory.                                         *)

\* The running activation of a thread.
LEMMA TopIs ==
  ASSUME ShapeInv, NEW t \in Threads, stack[t] # <<>>
  PROVE  /\ Frame(t) \in Frames /\ FrameOK(Frame(t)) /\ Frame(t) = Head(stack[t])
         /\ Frame(t) = Nth(t, Height(t)) /\ Height(t) \in Nat /\ Height(t) >= 1
         /\ Frame(t).at = "judge" => ResultOK(Frame(t))
         /\ Frame(t).cr \in Rows /\ Live(Frame(t).cr)
<1>1. /\ stack[t] \in Seq(Frames) /\ Frame(t) = Head(stack[t]) /\ Frame(t) = Nth(t, Height(t))
      /\ Height(t) \in Nat /\ Height(t) >= 1
  BY FrameTyped, PopFromEnd DEF Frame, Nth, Height
<1>2. Height(t) \in 1 .. Height(t) /\ Height(t) # 0
  BY <1>1
<1>3. Frame(t) \in Frames /\ FrameOK(Frame(t)) /\ (Frame(t).at = "judge" => ResultOK(Frame(t)))
  BY <1>1, <1>2, FrameTyped
<1>. QED BY <1>1, <1>3 DEF FrameOK, Frames

LEMMA Still ==
  ASSUME MemoryInv, UNCHANGED memory, UNCHANGED caller
  PROVE  MemoryInv' /\ Grows
<1>1. /\ word' = word /\ mch' = mch /\ pending' = pending
      /\ desc' = desc /\ checkId' = checkId /\ script' = script
  BY DEF memory, caller
<1>2. Grows
  BY <1>1 DEF Grows, MemoryInv
<1>3. DescOK' /\ ScriptOK' /\ MchOK' /\ WordOK' /\ PendingOK'
  BY <1>1 DEF MemoryInv, DescOK, ScriptOK, MchOK, WordOK, PendingOK, Live, Earlier, HelperOK, Row
<1>. QED BY <1>1, <1>2, <1>3 DEF MemoryInv

\* A word gets another value, or the helper of one of its rows.
LEMMA WordChanges ==
  ASSUME MemoryInv, UNCHANGED <<mch, pending, caller>>, NEW a \in Addresses, NEW x,
         word' = [word EXCEPT ![a] = x],
         x \in Values \/ (IsHelper(x) /\ HelperOK(x) /\ Row(x.cr).address = a)
  PROVE  MemoryInv' /\ Grows
<1>1. /\ mch' = mch /\ pending' = pending /\ desc' = desc /\ checkId' = checkId /\ script' = script
  BY DEF caller
<1>2. Grows
  BY <1>1 DEF Grows, MemoryInv
<1>3. DescOK' /\ ScriptOK' /\ MchOK' /\ PendingOK'
  BY <1>1 DEF MemoryInv, DescOK, ScriptOK, MchOK, PendingOK, Live, Earlier
<1>4. word' \in [Addresses -> Values \cup Helpers]
  BY DEF MemoryInv, IsHelper
<1>5. WordOK'
  <2>. SUFFICES ASSUME NEW b \in Addresses, IsHelper(word'[b])
                PROVE  HelperOK(word[b])' /\ Row(word[b].cr)'.address = b
    BY DEF WordOK
  <2>1. HelperOK(word[b])' = HelperOK(word'[b]) /\ Row(word[b].cr)' = Row(word'[b].cr)
    BY <1>1 DEF HelperOK, Live, Earlier, Row
  <2>2. CASE b = a
    BY <2>1, <2>2, HelperTyped DEF MemoryInv
  <2>3. CASE b # a
    BY <2>1, <2>3 DEF MemoryInv, WordOK
  <2>. QED BY <2>2, <2>3
<1>. QED BY <1>1, <1>2, <1>3, <1>4, <1>5 DEF MemoryInv

\* A row is decided.
LEMMA MchChanges ==
  ASSUME MemoryInv, UNCHANGED <<word, pending, caller>>, NEW r \in Rows, NEW x, Live(r),
         mch' = [mch EXCEPT ![r] = x], mch[r] \in {Null, x},
         x = Fail \/ (IsHelper(x) /\ x.cr = r /\ Earlier(r))
  PROVE  MemoryInv' /\ Grows /\ mch'[r] = x
<1>1. word' = word /\ pending' = pending /\ desc' = desc /\ checkId' = checkId /\ script' = script
  BY DEF caller
<1>2. /\ mch' \in [Rows -> {Null, Fail} \cup Helpers] /\ mch'[r] = x
      /\ \A q \in Rows : q # r => mch'[q] = mch[q]
  BY DEF MemoryInv, IsHelper
<1>3. \A q \in Rows : mch[q] # Null => mch'[q] = mch[q]
  BY <1>2
<1>4. Grows
  BY <1>1, <1>3 DEF Grows, MemoryInv
<1>5. \A q \in Rows : /\ Live(q)' = Live(q) /\ Row(q)' = Row(q)
                      /\ Live(q) /\ Earlier(q) => Earlier(q)'
  <2>. TAKE q \in Rows
  <2>1. Live(q)' = Live(q) /\ Row(q)' = Row(q)
    BY <1>1 DEF Live, Row
  <2>2. ASSUME Live(q), Earlier(q), NEW j \in 1 .. q[2] - 1 PROVE mch'[<<q[1], j>>] # Null
    <3>1. j \in 1 .. Len(desc[q[1]])
      <4>1. q[2] \in 1 .. Len(desc[q[1]]) /\ Len(desc[q[1]]) \in Nat
        BY <2>2 DEF Live, MemoryInv, DescOK
      <4>. QED BY <4>1
    <3>2. <<q[1], j>> \in Rows
      BY <2>2, <3>1, RowTyped
    <3>. QED BY <1>3, <2>2, <3>2 DEF Earlier
  <2>. QED BY <2>1, <2>2 DEF Earlier
<1>6. DescOK' /\ ScriptOK'
  BY <1>1 DEF MemoryInv, DescOK, ScriptOK
<1>7. WordOK'
  <2>. SUFFICES ASSUME NEW b \in Addresses, IsHelper(word'[b])
                PROVE  HelperOK(word[b])' /\ Row(word[b].cr)'.address = b
    BY DEF WordOK
  <2>1. IsHelper(word[b]) /\ HelperOK(word[b]) /\ Row(word[b].cr).address = b
    BY <1>1 DEF MemoryInv, WordOK
  <2>2. word[b].cr \in Rows
    BY <2>1, HelperTyped
  <2>. QED BY <1>1, <1>5, <2>1, <2>2 DEF HelperOK, Live, Earlier, Row
<1>8. PendingOK'
  <2>. SUFFICES ASSUME NEW t \in Threads, pending'[t] # Null
                PROVE  Live(pending[t])' /\ Earlier(pending[t])'
    BY DEF PendingOK
  <2>1. pending[t] \in Rows /\ Live(pending[t]) /\ Earlier(pending[t])
    BY <1>1 DEF MemoryInv, PendingOK
  <2>. QED BY <1>1, <1>5, <2>1 DEF Live, Earlier
<1>9. MchOK'
  <2>. SUFFICES ASSUME NEW q \in Rows
                PROVE  /\ IsHelper(mch'[q]) => mch'[q].cr = q /\ Live(q)' /\ Earlier(q)'
                       /\ ~ Live(q)' => mch'[q] = Null
    BY DEF MchOK, IsHelper
  <2>1. CASE q = r
    BY <1>2, <1>5, <2>1, HelperTyped
  <2>2. CASE q # r
    <3>1. /\ IsHelper(mch[q]) => mch[q].cr = q /\ Live(q) /\ Earlier(q)
          /\ ~ Live(q) => mch[q] = Null
      BY DEF MemoryInv, MchOK
    <3>. QED BY <1>2, <1>5, <2>2, <3>1
  <2>. QED BY <2>1, <2>2
<1>. QED BY <1>1, <1>2, <1>4, <1>6, <1>7, <1>8, <1>9 DEF MemoryInv

LEMMA PendingChanges ==
  ASSUME MemoryInv, UNCHANGED <<word, mch, caller>>, NEW t \in Threads, NEW x,
         pending' = [pending EXCEPT ![t] = x],
         x = Null \/ (x \in Rows /\ Live(x) /\ Earlier(x))
  PROVE  MemoryInv' /\ Grows
<1>1. word' = word /\ mch' = mch /\ desc' = desc /\ checkId' = checkId /\ script' = script
  BY DEF caller
<1>2. Grows
  BY <1>1 DEF Grows, MemoryInv
<1>3. DescOK' /\ ScriptOK' /\ MchOK' /\ WordOK'
  BY <1>1 DEF MemoryInv, DescOK, ScriptOK, MchOK, WordOK, Live, Earlier, HelperOK, Row
<1>4. PendingOK'
  <2>. SUFFICES ASSUME NEW u \in Threads, pending'[u] # Null
                PROVE  Live(pending'[u]) /\ Earlier(pending'[u])
    BY <1>1 DEF PendingOK, Live, Earlier
  <2>1. u = t => pending'[u] = x
    BY DEF MemoryInv
  <2>2. u # t => pending'[u] = pending[u]
    BY DEF MemoryInv
  <2>. QED BY <2>1, <2>2 DEF MemoryInv, PendingOK
<1>5. pending' \in [Threads -> {Null} \cup Rows]
  BY DEF MemoryInv
<1>. QED BY <1>1, <1>2, <1>3, <1>4, <1>5 DEF MemoryInv
-------------------------------------------------------------------------------
(* The ways an action ends.                                                 *)

\* It leaves its activation at f.
LEMMA Continues ==
  ASSUME ShapeInv, MemoryInv', Grows, NEW t \in Threads, stack[t] # <<>>, NEW f \in Frames,
         Continue(t, f), depth' = depth,
         f.kind = Frame(t).kind,
         f.kind = "help" => f.cr[1] = Frame(t).cr[1] /\ f.cr[2] >= Frame(t).cr[2],
         FrameOK(f)', f.at = "judge" => ResultOK(f)',
         NEW hs, hs \subseteq Helpers, Deallocs(hs)
  PROVE  ShapeInv'
<1>1. /\ stack[t] \in Seq(Frames) /\ depth[t] \in Nat /\ StackOK(stack[t], depth[t])
      /\ Frame(t) = Head(stack[t])
  BY FrameTyped DEF Frame
<1>2. PICK s : s = <<f>> \o Tail(stack[t])
  OBVIOUS
<1>3. PICK d : d = depth[t]
  OBVIOUS
<1>4. PICK c : c = stack[t]
  OBVIOUS
<1>5. /\ <<f>> \o Tail(c) \in Seq(Frames) /\ StackOK(<<f>> \o Tail(c), d)
      /\ Activations(<<f>> \o Tail(c)) \subseteq {f} \cup Activations(c)
      /\ Running(<<f>> \o Tail(c)) = {f}
  BY <1>1, <1>3, <1>4, GoesOn
<1>6. /\ s \in Seq(Frames) /\ StackOK(s, d)
      /\ Activations(s) \subseteq {f} \cup Activations(c) /\ Running(s) = {f}
  BY <1>2, <1>4, <1>5
<1>7. stack' = [stack EXCEPT ![t] = s] /\ depth' = [depth EXCEPT ![t] = d] /\ d \in Nat
  BY <1>1, <1>2, <1>3 DEF Continue, ShapeInv, TypeOK
<1>8. ASSUME NEW g \in Activations(c) PROVE FrameOK(g)'
  <2>1. g \in Frames /\ FrameOK(g)
    BY <1>1, <1>4, AllFromEnd DEF Activations, ShapeInv, FramesOK
  <2>. QED BY <2>1, FrameKept DEF ShapeInv
<1>. QED BY <1>6, <1>7, <1>8, Restacks

\* It stays in its row.
LEMMA StepsOn ==
  ASSUME ShapeInv, MemoryInv', Grows, NEW t \in Threads, stack[t] # <<>>, NEW f \in Frames,
         Continue(t, f), depth' = depth,
         f.kind = Frame(t).kind, f.cr = Frame(t).cr, f.at # "judge", FrameOK(f)',
         NEW hs, hs \subseteq Helpers, Deallocs(hs)
  PROVE  ShapeInv'
<1>1. f.cr[2] >= Frame(t).cr[2] /\ f.cr[1] = Frame(t).cr[1]
  BY MCasConstants DEF Frames, Rows, Addresses
<1>. QED BY <1>1, Continues

\* It goes on with the next row, its own being decided.
LEMMA GoesToNext ==
  ASSUME ShapeInv, MemoryInv', Grows, NEW t \in Threads, stack[t] # <<>>, NEW f \in Frames,
         Continue(t, NextRow(f)), depth' = depth, desc' = desc,
         f.kind = Frame(t).kind, f.kind # "read", f.cr = Frame(t).cr, f.cvalue = Null,
         Frame(t).at # "remove", mch'[f.cr] # Null,
         NEW hs, hs \subseteq Helpers, Deallocs(hs)
  PROVE  ShapeInv'
<1>0. MemoryInv
  BY DEF ShapeInv
<1>1. f.cr \in Rows /\ Live(f.cr) /\ Earlier(f.cr)
  BY TopIs DEF FrameOK
<1>2. /\ Live(f.cr)' /\ Earlier(f.cr)' /\ LastRow(f.cr)' = LastRow(f.cr)
      /\ LastRow(f.cr) \in Rows /\ f.cr[2] <= LastRow(f.cr)[2]
      /\ f.cr = <<f.cr[1], f.cr[2]>> /\ LastRow(f.cr)[1] = f.cr[1]
      /\ f.cr[2] \in Nat /\ LastRow(f.cr)[2] \in Nat /\ f.cr[1] \in Nat
  BY <1>0, <1>1, RowKept, RowTyped
<1>3. CASE f.cr = LastRow(f.cr)
  <2>1. PICK g : g = [f EXCEPT !.at = "end"]
    OBVIOUS
  <2>2. g \in Frames /\ g.kind = f.kind /\ g.at = "end" /\ g.cr = f.cr /\ g.cvalue = Null
    BY <2>1 DEF Frames, Labels
  <2>3. Outcome(f.cr[1])' # Null
    <3>1. Outcome(f.cr[1])' = mch'[LastRow(f.cr)]
      BY <1>2 DEF Outcome, LastRow
    <3>. QED BY <1>3, <3>1
  <2>4. FrameOK(g)'
    BY <1>2, <2>2, <2>3, HelperTyped DEF FrameOK, LabelOK, Holds, Placing, IsHelper
  <2>5. Continue(t, g)
    BY <1>3, <2>1 DEF NextRow
  <2>. QED BY <2>2, <2>4, <2>5, StepsOn
<1>4. CASE f.cr # LastRow(f.cr)
  <2>1. PICK g : g = [f EXCEPT !.cr = <<@[1], @[2] + 1>>, !.at = "next"]
    OBVIOUS
  <2>2. f.cr[2] < LastRow(f.cr)[2]
    <3>1. f.cr[2] # LastRow(f.cr)[2]
      BY <1>2, <1>4 DEF LastRow
    <3>. QED BY <1>2, <3>1
  <2>3. PICK r : r = <<f.cr[1], f.cr[2] + 1>>
    OBVIOUS
  <2>4. r \in Rows /\ Live(r) /\ Live(r)'
    <3>1. f.cr[2] + 1 \in 1 .. Len(desc[f.cr[1]])
      <4>1. LastRow(f.cr)[2] = Len(desc[f.cr[1]])
        BY DEF LastRow
      <4>. QED BY <1>2, <2>2, <4>1
    <3>2. r \in Rows /\ Live(r)
      BY <1>0, <1>1, <2>3, <3>1, RowTyped
    <3>. QED BY <3>2 DEF Live
  <2>5. Earlier(r)'
    <3>. SUFFICES ASSUME NEW j \in 1 .. r[2] - 1 PROVE mch'[<<r[1], j>>] # Null
      BY DEF Earlier
    <3>1. r[1] = f.cr[1] /\ (j \in 1 .. f.cr[2] - 1 \/ j = f.cr[2])
      BY <1>2, <2>3
    <3>2. CASE j = f.cr[2]
      BY <1>2, <3>1, <3>2
    <3>3. CASE j \in 1 .. f.cr[2] - 1
      BY <1>2, <3>1, <3>3 DEF Earlier
    <3>. QED BY <3>1, <3>2, <3>3
  <2>6. g \in Frames /\ g.kind = f.kind /\ g.at = "next" /\ g.cr = r /\ g.cvalue = Null
    BY <2>1, <2>3, <2>4 DEF Frames, Labels
  <2>7. FrameOK(g)'
    BY <2>4, <2>5, <2>6, HelperTyped DEF FrameOK, LabelOK, Holds, Placing, IsHelper
  <2>8. Continue(t, g)
    BY <1>4, <2>1 DEF NextRow
  <2>9. g.cr[1] = Frame(t).cr[1] /\ g.cr[2] >= Frame(t).cr[2] /\ g.at # "judge"
    BY <1>2, <2>3, <2>6
  <2>. QED BY <2>6, <2>7, <2>8, <2>9, Continues
<1>. QED BY <1>3, <1>4

\* place_mcas_helper returns: its row is decided.
LEMMA Returns ==
  ASSUME ShapeInv, MemoryInv', Grows, NEW t \in Threads, stack[t] # <<>>,
         PlaceReturns(t), depth' = depth, Frame(t).kind # "read", Frame(t).at # "remove",
         mch'[Frame(t).cr] # Null, desc' = desc,
         NEW hs, hs \subseteq Helpers, Deallocs(hs)
  PROVE  ShapeInv'
<1>0. MemoryInv
  BY DEF ShapeInv
<1>1. PICK c : c = Frame(t)
  OBVIOUS
<1>2. c \in Frames /\ FrameOK(c) /\ c.cr \in Rows /\ Live(c.cr)
  BY <1>1, TopIs
<1>3. PICK f : f = [c EXCEPT !.mch = Null, !.cvalue = Null, !.tries = 0]
  OBVIOUS
<1>4. /\ f \in Frames /\ f.kind = c.kind /\ f.cr = c.cr /\ f.cvalue = Null /\ f.mch = Null
  <2>1. 0 \in 0 .. MaxFail + 1
    BY MCasConstants
  <2>. QED BY <1>2, <1>3, <2>1 DEF Frames
<1>5. /\ Live(c.cr)' /\ Earlier(c.cr)'
  BY <1>0, <1>1, <1>2, RowKept DEF FrameOK
<1>6. CASE f.kind = "help"
  <2>1. PICK g : g = [f EXCEPT !.at = "check"]
    OBVIOUS
  <2>2. g \in Frames /\ g.kind = "help" /\ g.at = "check" /\ g.cr = c.cr /\ g.cvalue = Null
    BY <1>4, <1>6, <2>1 DEF Frames, Labels
  <2>3. FrameOK(g)'
    BY <1>1, <1>5, <2>2, HelperTyped DEF FrameOK, LabelOK, Holds, Placing, IsHelper
  <2>4. Continue(t, g)
    BY <1>1, <1>3, <1>6, <2>1 DEF PlaceReturns
  <2>5. g.cr = Frame(t).cr /\ g.kind = Frame(t).kind /\ g.at # "judge"
    BY <1>1, <1>4, <1>6, <2>2
  <2>. QED BY <2>2, <2>3, <2>4, <2>5, StepsOn
<1>7. CASE f.kind # "help"
  <2>1. Continue(t, NextRow(f))
    BY <1>1, <1>3, <1>7 DEF PlaceReturns
  <2>. QED BY <1>1, <1>4, <2>1, GoesToNext
<1>. QED BY <1>6, <1>7

\* The activations under the running one.
LEMMA BelowIs ==
  ASSUME ShapeInv, NEW t \in Threads
  PROVE  /\ Below(t) \in Seq(Frames)
         /\ \A g \in Activations(Below(t)) : g \in Frames /\ FrameOK(g) /\ g \in Activations(stack[t])
<1>1. stack[t] \in Seq(Frames) /\ \A g \in Activations(stack[t]) : FrameOK(g)
  BY DEF ShapeInv, TypeOK, FramesOK
<1>2. CASE stack[t] = <<>>
  <2>1. Below(t) = <<>> /\ <<>> \in Seq(Frames) /\ Len(<<>>) = 0
    BY <1>2 DEF Below
  <2>. QED BY <2>1 DEF Activations
<1>3. CASE stack[t] # <<>>
  <2>1. /\ Below(t) \in Seq(Frames) /\ Len(Below(t)) = Len(stack[t]) - 1 /\ Len(stack[t]) \in Nat
        /\ \A k \in 1 .. Len(stack[t]) - 1 : FromEnd(Below(t), k) = FromEnd(stack[t], k)
    BY <1>1, <1>3, PopFromEnd DEF Below
  <2>2. \A k \in 1 .. Len(stack[t]) - 1 : k \in 1 .. Len(stack[t])
    <3>1. Len(stack[t]) \in Nat
      BY <2>1
    <3>. QED BY <3>1
  <2>3. \A g \in Activations(Below(t)) : g \in Activations(stack[t])
    BY <2>1, <2>2 DEF Activations
  <2>4. \A g \in Activations(stack[t]) : g \in Frames
    BY <1>1, AllFromEnd DEF Activations
  <2>. QED BY <1>1, <2>1, <2>3, <2>4
<1>. QED BY <1>2, <1>3

\* It asks help_complete about row r, and waits at f.
LEMMA Helps ==
  ASSUME ShapeInv, MemoryInv', Grows, NEW t \in Threads, NEW f \in Frames, NEW r \in Rows,
         Help(t, f, r), FrameOK(f)', Live(r)', Earlier(r)',
         StackOK(<<f>> \o Below(t), depth[t]),
         (f.at = "judge" /\ f.cvalue.cr = r) \/ (f.at = "next" /\ f.kind = "own"),
         f.kind = "read" => depth[t] = 0,
         NEW hs, hs \subseteq Helpers, Deallocs(hs)
  PROVE  ShapeInv'
<1>0. MemoryInv
  BY DEF ShapeInv
<1>1. PICK b : b = Below(t)
  OBVIOUS
<1>2. PICK d : d = depth[t]
  OBVIOUS
<1>3. /\ b \in Seq(Frames) /\ \A g \in Activations(b) : g \in Frames /\ FrameOK(g)
      /\ d \in Nat /\ d + 1 \in Nat /\ StackOK(<<f>> \o b, d)
  BY <1>1, <1>2, BelowIs, FrameTyped
<1>4. \A g \in Activations(b) : FrameOK(g)'
  BY <1>0, <1>3, FrameKept
<1>5. depth' = [depth EXCEPT ![t] = d + 1] /\ NThreads \in Nat
  BY <1>2, MCasConstants DEF Help
<1>6. CASE depth[t] + 1 >= NThreads
  <2>1. PICK g : g = [f EXCEPT !.res = -1]
    OBVIOUS
  <2>2. /\ g \in Frames /\ g.kind = f.kind /\ g.cr = f.cr /\ g.at = f.at /\ g.mch = f.mch
        /\ g.cvalue = f.cvalue /\ g.res = -1
    BY <2>1 DEF Frames
  <2>3. PICK s : s = <<g>> \o b
    OBVIOUS
  <2>4. stack' = [stack EXCEPT ![t] = s]
    BY <1>1, <1>6, <2>1, <2>3 DEF Help
  <2>5. s \in Seq(Frames) /\ StackOK(s, d) /\ Activations(s) \subseteq {g} \cup Activations(<<f>> \o b)
        /\ Running(s) = {g}
    <3>1. PICK c : c = <<f>> \o b
      OBVIOUS
    <3>2. c \in Seq(Frames) /\ c # <<>> /\ Head(c) = f /\ Tail(c) = b
      <4>1. c \in Seq(Frames) /\ c # <<>> /\ Head(c) = f /\ Len(c) = Len(b) + 1 /\ Len(b) \in Nat
        BY <1>3, <3>1, PushFromEnd
      <4>2. \A i \in 1 .. Len(b) : c[i + 1] = b[i]
        BY <1>3, <3>1, ConsProperties
      <4>3. /\ Tail(c) \in Seq(Frames) /\ Len(Tail(c)) = Len(c) - 1
            /\ \A i \in 1 .. Len(Tail(c)) : Tail(c)[i] = c[i + 1]
        BY <4>1, HeadTailProperties
      <4>4. Len(Tail(c)) = Len(b)
        BY <4>1, <4>3
      <4>5. \A i \in 1 .. Len(Tail(c)) : Tail(c)[i] = b[i]
        BY <4>2, <4>3, <4>4
      <4>. QED BY <1>3, <4>1, <4>3, <4>4, <4>5, SeqEqual
    <3>3. g.cr[2] >= f.cr[2]
      BY <2>2, MCasConstants DEF Frames, Rows, Addresses
    <3>4. /\ <<g>> \o Tail(c) \in Seq(Frames) /\ StackOK(<<g>> \o Tail(c), d)
          /\ Activations(<<g>> \o Tail(c)) \subseteq {g} \cup Activations(c)
          /\ Running(<<g>> \o Tail(c)) = {g}
      BY <1>3, <2>2, <3>1, <3>2, <3>3, GoesOn
    <3>. QED BY <2>3, <3>1, <3>2, <3>4
  <2>6. StackOK(s, d + 1)
    <3>1. Len(s) <= d + 1 + 1
      <4>1. Len(s) <= d + 1 /\ Len(s) \in Nat
        BY <2>5, LenProperties DEF StackOK
      <4>. QED BY <1>3, <4>1
    <3>. QED BY <2>5, <3>1 DEF StackOK
  <2>7. FrameOK(f)' => FrameOK(g)'
    BY <2>2 DEF FrameOK, LabelOK, Holds, IsHelper
  <2>8. g.at = "judge" => ResultOK(g)'
    <3>1. f.kind = "read" /\ NThreads > 1 => FALSE
      BY <1>2, <1>3, <1>5, <1>6
    <3>. QED BY <2>2, <3>1 DEF ResultOK
  <2>9. \A h \in Activations(s) : FrameOK(h)'
    <3>1. Activations(<<f>> \o b) \subseteq {f} \cup Activations(b)
      <4>1. PICK c : c = <<f>> \o b
        OBVIOUS
      <4>2. /\ Len(c) = Len(b) + 1 /\ Len(b) \in Nat /\ FromEnd(c, Len(c)) = f
            /\ \A k \in 1 .. Len(b) : FromEnd(c, k) = FromEnd(b, k)
        BY <1>3, <4>1, PushFromEnd
      <4>3. ASSUME NEW k \in 1 .. Len(c) PROVE FromEnd(c, k) \in {f} \cup Activations(b)
        <5>1. k = Len(c) \/ k \in 1 .. Len(b)
          BY <4>2
        <5>. QED BY <4>2, <5>1 DEF Activations
      <4>. QED BY <4>1, <4>3 DEF Activations
    <3>. QED BY <1>4, <2>5, <2>7, <3>1
  <2>. QED BY <1>3, <1>5, <2>4, <2>5, <2>6, <2>8, <2>9, Restacks
<1>7. CASE ~ (depth[t] + 1 >= NThreads)
  <2>1. PICK g : g = Activation("help", r, "next")
    OBVIOUS
  <2>2. /\ g \in Frames /\ g.kind = "help" /\ g.cr = r /\ g.at = "next" /\ g.mch = Null /\ g.cvalue = Null
    <3>1. 0 \in 0 .. MaxFail + 1
      BY MCasConstants
    <3>. QED BY <2>1, <3>1 DEF Activation, Frames, Labels
  <2>3. PICK s : s = <<g, f>> \o b
    OBVIOUS
  <2>4. stack' = [stack EXCEPT ![t] = s]
    BY <1>1, <1>7, <2>1, <2>3 DEF Help
  <2>5. Waits(f, g)
    <3>1. r[2] \in Nat
      BY MCasConstants DEF Rows, Addresses
    <3>2. f.at = "judge" => IsHelper(f.cvalue)
      BY DEF FrameOK, LabelOK, IsHelper
    <3>. QED BY <2>2, <3>1, <3>2 DEF Waits
  <2>6. /\ <<g, f>> \o b \in Seq(Frames) /\ StackOK(<<g, f>> \o b, d + 1)
        /\ Activations(<<g, f>> \o b) \subseteq {g, f} \cup Activations(b)
        /\ Running(<<g, f>> \o b) = {g}
    BY <1>3, <2>2, <2>5, StartsHelp
  <2>7. FrameOK(g)'
    BY <2>2, HelperTyped DEF FrameOK, LabelOK, Holds, Placing, IsHelper
  <2>8. \A h \in Activations(s) : FrameOK(h)'
    BY <1>4, <2>3, <2>6, <2>7
  <2>9. \A h \in Running(s) : h.at = "judge" => ResultOK(h)'
    BY <2>2, <2>3, <2>6
  <2>10. s \in Seq(Frames) /\ StackOK(s, d + 1)
    BY <2>3, <2>6
  <2>. QED BY <1>3, <1>5, <2>4, <2>8, <2>9, <2>10, Restacks
<1>. QED BY <1>6, <1>7

\* It changes nothing else.
LEMMA StepsOnStill ==
  ASSUME ShapeInv, UNCHANGED memory, UNCHANGED caller, NEW t \in Threads, stack[t] # <<>>,
         NEW f \in Frames, Continue(t, f), depth' = depth,
         f.kind = Frame(t).kind, f.cr = Frame(t).cr, f.at # "judge", FrameOK(f),
         NEW hs, hs \subseteq Helpers, Deallocs(hs)
  PROVE  ShapeInv'
<1>1. MemoryInv /\ MemoryInv' /\ Grows
  BY Still DEF ShapeInv
<1>2. FrameOK(f)'
  BY <1>1, FrameKept
<1>. QED BY <1>1, <1>2, StepsOn

\* A new helper has a name of its own.
LEMMA NewHelperTyped ==
  ASSUME NEW r \in Rows, Fresh(r) # {}
  PROVE  NewHelper(r) \in Helpers /\ NewHelper(r).cr = r /\ NewHelper(r) \notin Referenced
<1>1. Fresh(r) \subseteq Nat
  BY MCasConstants DEF Fresh
<1>2. PICK n \in Fresh(r) : \A m \in Fresh(r) : n <= m
  BY <1>1, NatLeast
<1>3. Min(Fresh(r)) \in Fresh(r)
  BY <1>2 DEF Min
<1>. QED BY <1>3 DEF NewHelper, Fresh, Helpers
-------------------------------------------------------------------------------
(* Every action keeps ShapeInv.                                             *)

LEMMA AssistShape ==
  ASSUME ShapeInv, NEW t \in Threads, Assist(t)
  PROVE  ShapeInv'
<1>1. MemoryInv /\ MemoryInv' /\ Grows
  BY Still DEF ShapeInv, Assist
<1>2. PICK c : c = Frame(t)
  OBVIOUS
<1>3. /\ stack[t] # <<>> /\ c \in Frames /\ FrameOK(c) /\ c.at = "assist" /\ c.kind = "own"
  BY <1>2, TopIs DEF Assist, At, FrameOK, LabelOK
<1>4. PICK f : f = [c EXCEPT !.at = "next"]
  OBVIOUS
<1>5. /\ f \in Frames /\ f.kind = "own" /\ f.cr = c.cr /\ f.cvalue = c.cvalue /\ f.at = "next"
  BY <1>3, <1>4 DEF Frames, Labels
<1>6. FrameOK(f)
  BY <1>3, <1>5 DEF FrameOK, LabelOK, Holds, Placing
<1>7. FrameOK(f)'
  BY <1>1, <1>5, <1>6, FrameKept
<1>8. CASE pending[checkId[t]] = Null
  <2>1. Continue(t, f) /\ depth' = depth /\ Deallocs({})
    BY <1>2, <1>4, <1>8 DEF Assist
  <2>. QED BY <1>1, <1>2, <1>3, <1>5, <1>7, <2>1, StepsOn
<1>9. CASE pending[checkId[t]] # Null
  <2>1. PICK r : r = pending[checkId[t]]
    OBVIOUS
  <2>2. r \in Rows /\ Live(r) /\ Earlier(r)
    <3>1. checkId[t] \in Threads
      BY <1>1 DEF MemoryInv
    <3>. QED BY <1>1, <1>9, <2>1, <3>1 DEF MemoryInv, PendingOK
  <2>3. Live(r)' /\ Earlier(r)'
    BY <1>1, <2>2, RowKept
  <2>4. Help(t, f, r) /\ Deallocs({})
    BY <1>2, <1>4, <1>9, <2>1 DEF Assist
  <2>5. StackOK(<<f>> \o Below(t), depth[t])
    <3>1. stack[t] \in Seq(Frames) /\ StackOK(stack[t], depth[t]) /\ depth[t] \in Nat
      BY FrameTyped
    <3>2. PICK s, d : s = stack[t] /\ d = depth[t]
      OBVIOUS
    <3>3. f.kind = Head(s).kind /\ f.kind # "help"
      BY <1>2, <1>3, <1>5, <3>2 DEF Frame
    <3>4. StackOK(<<f>> \o Tail(s), d)
      BY <1>3, <1>5, <3>1, <3>2, <3>3, GoesOn
    <3>. QED BY <1>3, <3>2, <3>4 DEF Below
  <2>. QED BY <1>1, <1>5, <1>7, <2>2, <2>3, <2>4, <2>5, Helps
<1>. QED BY <1>8, <1>9

LEMMA NextPlaceShape ==
  ASSUME ShapeInv, NEW t \in Threads, NextPlace(t)
  PROVE  ShapeInv'
<1>1. PICK c : c = Frame(t)
  OBVIOUS
<1>2. /\ stack[t] # <<>> /\ c \in Frames /\ FrameOK(c) /\ c.at = "next" /\ c.kind \in {"own", "help"}
      /\ c.cr \in Rows /\ Live(c.cr)
  BY <1>1, TopIs DEF NextPlace, InPlace, At
<1>3. CASE mch[LastRow(c.cr)] = Null
  <2>1. PICK f : f = [c EXCEPT !.mch = NewHelper(c.cr), !.at = "load"]
    OBVIOUS
  <2>2. Fresh(c.cr) # {} /\ Continue(t, f)
    BY <1>1, <1>3, <2>1 DEF NextPlace
  <2>3. NewHelper(c.cr) \in Helpers /\ NewHelper(c.cr).cr = c.cr
    BY <1>2, <2>2, NewHelperTyped
  <2>4. /\ f \in Frames /\ f.kind = c.kind /\ f.cr = c.cr /\ f.cvalue = c.cvalue /\ f.at = "load"
        /\ f.mch = NewHelper(c.cr)
    BY <1>2, <2>1, <2>3 DEF Frames, Labels
  <2>5. FrameOK(f)
    BY <1>2, <2>3, <2>4 DEF FrameOK, LabelOK, Holds, Placing, IsHelper
  <2>. QED BY <1>1, <1>2, <2>2, <2>4, <2>5, StepsOnStill DEF NextPlace
<1>4. CASE mch[LastRow(c.cr)] # Null
  <2>1. PICK f : f = [c EXCEPT !.at = "end"]
    OBVIOUS
  <2>2. Continue(t, f)
    BY <1>1, <1>4, <2>1 DEF NextPlace
  <2>3. f \in Frames /\ f.kind = c.kind /\ f.cr = c.cr /\ f.cvalue = c.cvalue /\ f.at = "end"
    BY <1>2, <2>1 DEF Frames, Labels
  <2>4. Outcome(c.cr[1]) # Null
    BY <1>4 DEF Outcome, LastRow
  <2>5. FrameOK(f)
    BY <1>2, <2>3, <2>4 DEF FrameOK, LabelOK, Holds, Placing
  <2>. QED BY <1>1, <1>2, <2>2, <2>3, <2>5, StepsOnStill DEF NextPlace
<1>. QED BY <1>3, <1>4

LEMMA LoadShape ==
  ASSUME ShapeInv, NEW t \in Threads, Load(t)
  PROVE  ShapeInv'
<1>0. MemoryInv
  BY DEF ShapeInv
<1>1. PICK c : c = Frame(t)
  OBVIOUS
<1>2. /\ stack[t] # <<>> /\ c \in Frames /\ FrameOK(c) /\ c.at = "load"
      /\ c.cr \in Rows /\ Live(c.cr) /\ Row(c.cr).address \in Addresses
  BY <1>0, <1>1, TopIs, RowTyped DEF Load, At
<1>3. PICK v : v = word[Row(c.cr).address]
  OBVIOUS
<1>4. v \in Values \cup Helpers /\ (IsHelper(v) => HelperOK(v) /\ Row(v.cr).address = Row(c.cr).address)
  BY <1>0, <1>2, <1>3 DEF MemoryInv, WordOK
<1>5. PICK f : f = [c EXCEPT !.cvalue = v, !.at = "loop"]
  OBVIOUS
<1>6. /\ f \in Frames /\ f.kind = c.kind /\ f.cr = c.cr /\ f.cvalue = v /\ f.at = "loop" /\ f.mch = c.mch
  BY <1>2, <1>4, <1>5 DEF Frames, Labels
<1>7. FrameOK(f)
  BY <1>2, <1>4, <1>6 DEF FrameOK, LabelOK, Holds, Placing
<1>8. Continue(t, f)
  BY <1>1, <1>3, <1>5 DEF Load
<1>. QED BY <1>1, <1>2, <1>6, <1>7, <1>8, StepsOnStill DEF Load

LEMMA LoopShape ==
  ASSUME ShapeInv, NEW t \in Threads, Loop(t)
  PROVE  ShapeInv'
<1>0. MemoryInv /\ MemoryInv' /\ Grows
  BY Still DEF ShapeInv, Loop
<1>1. PICK c : c = Frame(t)
  OBVIOUS
<1>2. /\ stack[t] # <<>> /\ c \in Frames /\ FrameOK(c) /\ c.at = "loop" /\ c.kind # "read"
      /\ IsHelper(c.mch)
  BY <1>1, TopIs DEF Loop, At, FrameOK, LabelOK, Holds, Placing
<1>3. CASE mch[c.cr] # Null
  <2>1. PlaceReturns(t) /\ Deallocs({c.mch}) /\ {c.mch} \subseteq Helpers
    BY <1>1, <1>2, <1>3 DEF Loop, IsHelper
  <2>2. mch'[Frame(t).cr] # Null /\ desc' = desc /\ depth' = depth
    BY <1>1, <1>3 DEF Loop, memory, caller
  <2>3. Frame(t).kind # "read" /\ Frame(t).at # "remove"
    BY <1>1, <1>2
  <2>. QED BY <1>0, <1>2, <2>1, <2>2, <2>3, Returns
<1>4. CASE mch[c.cr] = Null
  <2>1. PICK x : x = IF c.tries # MaxFail THEN "try" ELSE IF depth[t] > 0 THEN "fail" ELSE "announce"
    OBVIOUS
  <2>2. PICK n : n = IF c.tries > MaxFail THEN c.tries ELSE c.tries + 1
    OBVIOUS
  <2>3. n \in 0 .. MaxFail + 1 /\ x \in {"try", "fail", "announce"}
    <3>1. c.tries \in 0 .. MaxFail + 1
      BY <1>2 DEF Frames
    <3>. QED BY <2>1, <2>2, <3>1, MCasConstants
  <2>4. PICK f : f = [[c EXCEPT !.tries = n] EXCEPT !.at = x]
    OBVIOUS
  <2>5. f \in Frames /\ f.kind = c.kind /\ f.cr = c.cr /\ f.cvalue = c.cvalue /\ f.at = x /\ f.mch = c.mch
    BY <1>2, <2>3, <2>4 DEF Frames, Labels
  <2>6. FrameOK(f)
    BY <1>2, <2>3, <2>5 DEF FrameOK, LabelOK, Holds, Placing
  <2>7. Continue(t, f) /\ Deallocs({})
    BY <1>1, <1>4, <2>1, <2>2, <2>4 DEF Loop
  <2>. QED BY <1>1, <1>2, <2>3, <2>5, <2>6, <2>7, StepsOnStill DEF Loop
<1>. QED BY <1>3, <1>4

LEMMA AnnounceShape ==
  ASSUME ShapeInv, NEW t \in Threads, Announce(t)
  PROVE  ShapeInv'
<1>1. PICK c : c = Frame(t)
  OBVIOUS
<1>2. /\ stack[t] # <<>> /\ c \in Frames /\ FrameOK(c) /\ c.at = "announce"
      /\ c.cr \in Rows /\ Live(c.cr) /\ Earlier(c.cr)
  BY <1>1, TopIs DEF Announce, At, FrameOK
<1>3. MemoryInv /\ MemoryInv' /\ Grows
  BY <1>1, <1>2, PendingChanges DEF ShapeInv, Announce
<1>4. PICK f : f = [c EXCEPT !.at = "try"]
  OBVIOUS
<1>5. f \in Frames /\ f.kind = c.kind /\ f.cr = c.cr /\ f.cvalue = c.cvalue /\ f.at = "try" /\ f.mch = c.mch
  BY <1>2, <1>4 DEF Frames, Labels
<1>6. FrameOK(f)
  BY <1>2, <1>5 DEF FrameOK, LabelOK, Holds, Placing
<1>7. FrameOK(f)'
  BY <1>3, <1>5, <1>6, FrameKept
<1>8. Continue(t, f)
  BY <1>1, <1>4 DEF Announce
<1>. QED BY <1>1, <1>2, <1>3, <1>5, <1>7, <1>8, StepsOn DEF Announce
LEMMA TryValueShape ==
  ASSUME ShapeInv, NEW t \in Threads, TryValue(t)
  PROVE  ShapeInv'
<1>0. MemoryInv
  BY DEF ShapeInv
<1>1. PICK c : c = Frame(t)
  OBVIOUS
<1>2. /\ stack[t] # <<>> /\ c \in Frames /\ FrameOK(c) /\ c.at = "try" /\ ~ IsHelper(c.cvalue)
      /\ c.cr \in Rows /\ Live(c.cr) /\ Earlier(c.cr)
  BY <1>1, TopIs DEF TryValue, At, FrameOK
<1>3. PICK a : a = Row(c.cr).address
  OBVIOUS
<1>4. /\ a \in Addresses /\ word[a] \in Values \cup Helpers
      /\ IsHelper(word[a]) => HelperOK(word[a]) /\ Row(word[a].cr).address = a
  BY <1>0, <1>2, <1>3, RowTyped DEF MemoryInv, WordOK
<1>5. c.kind # "read"
  BY <1>2 DEF FrameOK, LabelOK
<1>6. UNCHANGED <<mch, pending, caller>> /\ depth' = depth /\ Deallocs({})
  BY DEF TryValue
<1>7. CASE word[a] = Row(c.cr).expected
  <2>1. PICK f : f = [c EXCEPT !.at = "associate"]
    OBVIOUS
  <2>2. word' = [word EXCEPT ![a] = c.mch] /\ Continue(t, f)
    <3>1. ~ IsHelper(word[a])
      BY <1>0, <1>2, <1>7, RowTyped, HelperTyped
    <3>. QED BY <1>1, <1>3, <1>7, <2>1, <3>1 DEF TryValue
  <2>3. IsHelper(c.mch) /\ HelperOK(c.mch) /\ Row(c.mch.cr).address = a
    BY <1>2, <1>3, <1>5 DEF FrameOK, Holds, Placing, HelperOK
  <2>4. MemoryInv' /\ Grows
    BY <1>0, <1>4, <1>6, <2>2, <2>3, WordChanges
  <2>5. /\ f \in Frames /\ f.kind = c.kind /\ f.cr = c.cr /\ f.cvalue = c.cvalue /\ f.at = "associate"
        /\ f.mch = c.mch
    BY <1>2, <2>1 DEF Frames, Labels
  <2>6. FrameOK(f)
    BY <1>2, <2>5 DEF FrameOK, LabelOK, Holds, Placing
  <2>7. FrameOK(f)'
    BY <1>0, <2>4, <2>5, <2>6, FrameKept
  <2>. QED BY <1>1, <1>2, <1>6, <2>2, <2>4, <2>5, <2>7, StepsOn
<1>8. CASE word[a] # Row(c.cr).expected
  <2>1. word' = word
    BY <1>1, <1>3, <1>8 DEF TryValue
  <2>2. UNCHANGED memory /\ UNCHANGED caller
    BY <1>6, <2>1 DEF memory
  <2>3. CASE IsHelper(word[a])
    <3>1. PICK v : v = word[a]
      OBVIOUS
    <3>2. PICK f : f = [c EXCEPT !.cvalue = v, !.at = "loop"]
      OBVIOUS
    <3>3. Continue(t, f)
      BY <1>1, <1>3, <1>8, <2>3, <3>1, <3>2 DEF TryValue
    <3>4. /\ f \in Frames /\ f.kind = c.kind /\ f.cr = c.cr /\ f.cvalue = v /\ f.at = "loop"
          /\ f.mch = c.mch
      BY <1>2, <1>4, <3>1, <3>2 DEF Frames, Labels
    <3>5. FrameOK(f)
      BY <1>2, <1>3, <1>4, <3>1, <3>4 DEF FrameOK, LabelOK, Holds, Placing
    <3>. QED BY <1>1, <1>2, <1>6, <2>2, <3>3, <3>4, <3>5, StepsOnStill
  <2>4. CASE ~ IsHelper(word[a])
    <3>1. PICK f : f = [c EXCEPT !.at = "fail"]
      OBVIOUS
    <3>2. Continue(t, f)
      BY <1>1, <1>3, <1>8, <2>4, <3>1 DEF TryValue
    <3>3. /\ f \in Frames /\ f.kind = c.kind /\ f.cr = c.cr /\ f.cvalue = c.cvalue /\ f.at = "fail"
          /\ f.mch = c.mch
      BY <1>2, <3>1 DEF Frames, Labels
    <3>4. FrameOK(f)
      BY <1>2, <3>3 DEF FrameOK, LabelOK, Holds, Placing
    <3>. QED BY <1>1, <1>2, <1>6, <2>2, <3>2, <3>3, <3>4, StepsOnStill
  <2>. QED BY <2>3, <2>4
<1>. QED BY <1>7, <1>8

LEMMA AdoptShape ==
  ASSUME ShapeInv, NEW t \in Threads, Adopt(t)
  PROVE  ShapeInv'
<1>0. MemoryInv
  BY DEF ShapeInv
<1>1. PICK c : c = Frame(t)
  OBVIOUS
<1>2. /\ stack[t] # <<>> /\ c \in Frames /\ FrameOK(c) /\ c.at = "try" /\ IsHelper(c.cvalue)
      /\ c.cvalue.cr = c.cr /\ c.cr \in Rows /\ Live(c.cr) /\ Earlier(c.cr)
  BY <1>1, TopIs DEF Adopt, At, FrameOK
<1>3. c.kind # "read" /\ IsHelper(c.mch)
  BY <1>2 DEF FrameOK, LabelOK, Holds, Placing
<1>4. UNCHANGED <<word, pending, caller>> /\ depth' = depth
  BY DEF Adopt
<1>5. CASE mch[c.cr] \in {Null, c.cvalue}
  <2>1. mch' = [mch EXCEPT ![c.cr] = c.cvalue] /\ PlaceReturns(t) /\ Deallocs({c.mch})
    BY <1>1, <1>5 DEF Adopt
  <2>2. MemoryInv' /\ Grows /\ mch'[c.cr] = c.cvalue
    BY <1>0, <1>2, <1>4, <1>5, <2>1, MchChanges
  <2>3. mch'[Frame(t).cr] # Null /\ Frame(t).kind # "read" /\ Frame(t).at # "remove"
    BY <1>1, <1>2, <1>3, <2>2, HelperTyped
  <2>4. {c.mch} \subseteq Helpers /\ desc' = desc
    BY <1>3, <1>4 DEF IsHelper, caller
  <2>. QED BY <1>2, <1>4, <2>1, <2>2, <2>3, <2>4, Returns
<1>6. CASE mch[c.cr] \notin {Null, c.cvalue}
  <2>1. PICK f : f = [c EXCEPT !.at = "undo"]
    OBVIOUS
  <2>2. Continue(t, f) /\ UNCHANGED memory /\ UNCHANGED caller /\ Deallocs({})
    BY <1>1, <1>4, <1>6, <2>1 DEF Adopt, memory
  <2>3. /\ f \in Frames /\ f.kind = c.kind /\ f.cr = c.cr /\ f.cvalue = c.cvalue /\ f.at = "undo"
        /\ f.mch = c.mch
    BY <1>2, <2>1 DEF Frames, Labels
  <2>4. FrameOK(f)
    BY <1>2, <1>6, <2>3 DEF FrameOK, LabelOK, Holds, Placing
  <2>. QED BY <1>1, <1>2, <1>4, <2>2, <2>3, <2>4, StepsOnStill
<1>. QED BY <1>5, <1>6

LEMMA UndoShape ==
  ASSUME ShapeInv, NEW t \in Threads, Undo(t)
  PROVE  ShapeInv'
<1>0. MemoryInv
  BY DEF ShapeInv
<1>1. PICK c : c = Frame(t)
  OBVIOUS
<1>2. /\ stack[t] # <<>> /\ c \in Frames /\ FrameOK(c) /\ c.at = "undo" /\ IsHelper(c.cvalue)
      /\ mch[c.cr] # Null /\ c.cr \in Rows /\ Live(c.cr) /\ c.kind # "read" /\ IsHelper(c.mch)
  BY <1>1, TopIs DEF Undo, At, FrameOK, LabelOK, Holds, Placing
<1>3. Row(c.cr).address \in Addresses /\ Row(c.cr).expected \in Values
  BY <1>0, <1>2, RowTyped
<1>4. UNCHANGED <<mch, pending, caller>> /\ depth' = depth /\ PlaceReturns(t)
  BY DEF Undo
<1>5. MemoryInv' /\ Grows
  <2>1. CASE word[Row(c.cr).address] = c.cvalue
    <3>1. word' = [word EXCEPT ![Row(c.cr).address] = Row(c.cr).expected]
      BY <1>1, <2>1 DEF Undo
    <3>. QED BY <1>0, <1>3, <1>4, <3>1, WordChanges
  <2>2. CASE word[Row(c.cr).address] # c.cvalue
    <3>1. UNCHANGED memory /\ UNCHANGED caller
      BY <1>1, <1>4, <2>2 DEF Undo, memory
    <3>. QED BY <1>0, <3>1, Still
  <2>. QED BY <2>1, <2>2
<1>6. PICK hs : hs \subseteq Helpers /\ Deallocs(hs)
  <2>1. {c.mch} \subseteq Helpers /\ {c.cvalue, c.mch} \subseteq Helpers
    BY <1>2 DEF IsHelper
  <2>. QED BY <1>1, <2>1 DEF Undo
<1>7. mch'[Frame(t).cr] # Null /\ Frame(t).kind # "read" /\ Frame(t).at # "remove" /\ desc' = desc
  BY <1>1, <1>2, <1>4 DEF caller
<1>. QED BY <1>2, <1>4, <1>5, <1>6, <1>7, Returns

LEMMA ShouldReplaceShape ==
  ASSUME ShapeInv, NEW t \in Threads, ShouldReplace(t)
  PROVE  ShapeInv'
<1>0. MemoryInv /\ MemoryInv' /\ Grows
  BY Still DEF ShapeInv, ShouldReplace
<1>1. PICK c : c = Frame(t)
  OBVIOUS
<1>2. /\ stack[t] # <<>> /\ c \in Frames /\ FrameOK(c) /\ c.at = "try" /\ IsHelper(c.cvalue)
      /\ c.cvalue.cr # c.cr /\ c.kind # "read"
  BY <1>1, TopIs DEF ShouldReplace, At, FrameOK, LabelOK
<1>3. PICK r : r = c.cvalue.cr
  OBVIOUS
<1>4. r \in Rows /\ Live(r) /\ Earlier(r)
  BY <1>2, <1>3, HelperTyped DEF FrameOK, HelperOK
<1>5. CASE Row(c.cr).expected \in {Row(r).expected, Row(r).new}
  <2>1. PICK f : f = [c EXCEPT !.at = "judge"]
    OBVIOUS
  <2>2. Help(t, f, r) /\ Deallocs({})
    BY <1>1, <1>3, <1>5, <2>1 DEF ShouldReplace
  <2>3. /\ f \in Frames /\ f.kind = c.kind /\ f.cr = c.cr /\ f.cvalue = c.cvalue /\ f.at = "judge"
        /\ f.mch = c.mch
    BY <1>2, <2>1 DEF Frames, Labels
  <2>4. FrameOK(f)
    BY <1>2, <2>3 DEF FrameOK, LabelOK, Holds, Placing
  <2>5. FrameOK(f)' /\ Live(r)' /\ Earlier(r)'
    BY <1>0, <1>4, <2>3, <2>4, FrameKept, RowKept
  <2>6. StackOK(<<f>> \o Below(t), depth[t])
    <3>1. stack[t] \in Seq(Frames) /\ StackOK(stack[t], depth[t]) /\ depth[t] \in Nat
      BY FrameTyped
    <3>2. PICK s, d : s = stack[t] /\ d = depth[t]
      OBVIOUS
    <3>3. f.kind = Head(s).kind /\ f.cr[1] = Head(s).cr[1] /\ f.cr[2] >= Head(s).cr[2]
      BY <1>1, <1>2, <2>3, <3>2, MCasConstants DEF Frame, Frames, Rows, Addresses
    <3>4. StackOK(<<f>> \o Tail(s), d)
      BY <1>2, <2>3, <3>1, <3>2, <3>3, GoesOn
    <3>. QED BY <1>2, <3>2, <3>4 DEF Below
  <2>. QED BY <1>0, <1>2, <1>3, <1>4, <2>2, <2>3, <2>5, <2>6, Helps
<1>6. CASE Row(c.cr).expected \notin {Row(r).expected, Row(r).new}
  <2>1. PICK f : f = [c EXCEPT !.at = "fail"]
    OBVIOUS
  <2>2. Continue(t, f) /\ depth' = depth /\ Deallocs({})
    BY <1>1, <1>3, <1>6, <2>1 DEF ShouldReplace
  <2>3. /\ f \in Frames /\ f.kind = c.kind /\ f.cr = c.cr /\ f.cvalue = c.cvalue /\ f.at = "fail"
        /\ f.mch = c.mch
    BY <1>2, <2>1 DEF Frames, Labels
  <2>4. FrameOK(f)
    BY <1>2, <2>3 DEF FrameOK, LabelOK, Holds, Placing
  <2>. QED BY <1>1, <1>2, <2>2, <2>3, <2>4, StepsOnStill DEF ShouldReplace
<1>. QED BY <1>5, <1>6

LEMMA JudgeShape ==
  ASSUME ShapeInv, NEW t \in Threads, Judge(t)
  PROVE  ShapeInv'
<1>1. PICK c : c = Frame(t)
  OBVIOUS
<1>2. /\ stack[t] # <<>> /\ c \in Frames /\ FrameOK(c) /\ ResultOK(c) /\ c.at = "judge"
      /\ IsHelper(c.cvalue) /\ c.cvalue.cr # c.cr /\ c.kind # "read"
  BY <1>1, TopIs DEF Judge, InPlace, At, FrameOK, LabelOK
<1>3. PICK f : f = [c EXCEPT !.res = 0, !.at = IF c.res # -1 /\ Worth(c, c.cvalue) = Row(c.cr).expected
                                               THEN "swap" ELSE "fail"]
  OBVIOUS
<1>4. Continue(t, f)
  BY <1>1, <1>3 DEF Judge
<1>5. /\ f \in Frames /\ f.kind = c.kind /\ f.cr = c.cr /\ f.cvalue = c.cvalue /\ f.mch = c.mch
      /\ f.at \in {"swap", "fail"}
      /\ f.at = "swap" => c.res # -1 /\ Worth(c, c.cvalue) = Row(c.cr).expected
  BY <1>2, <1>3 DEF Frames, Labels
<1>6. f.at = "swap" => MayReplace(f.cvalue, f.cr)
  <2>. SUFFICES ASSUME c.res # -1, Worth(c, c.cvalue) = Row(c.cr).expected
                PROVE  MayReplace(c.cvalue, c.cr)
    BY <1>5
  <2>1. c.res \in {0, 1}
    BY <1>2 DEF Frames
  <2>2. CASE c.res = 0 /\ mch[c.cvalue.cr] = c.cvalue
    BY <1>2, <2>2 DEF Worth, MayReplace, ResultOK
  <2>3. CASE c.res = 0 /\ mch[c.cvalue.cr] # c.cvalue
    BY <1>2, <2>3 DEF Worth, MayReplace, ResultOK
  <2>4. CASE c.res = 1
    BY <1>2, <2>4 DEF Worth, MayReplace, ResultOK
  <2>. QED BY <2>1, <2>2, <2>3, <2>4
<1>7. FrameOK(f)
  BY <1>2, <1>5, <1>6 DEF FrameOK, LabelOK, Holds, Placing
<1>. QED BY <1>1, <1>2, <1>4, <1>5, <1>7, StepsOnStill DEF Judge

LEMMA SwapShape ==
  ASSUME ShapeInv, NEW t \in Threads, Swap(t)
  PROVE  ShapeInv'
<1>0. MemoryInv
  BY DEF ShapeInv
<1>1. PICK c : c = Frame(t)
  OBVIOUS
<1>2. /\ stack[t] # <<>> /\ c \in Frames /\ FrameOK(c) /\ c.at = "swap" /\ c.kind # "read"
      /\ c.cr \in Rows /\ Live(c.cr) /\ Earlier(c.cr)
  BY <1>1, TopIs DEF Swap, At, FrameOK, LabelOK
<1>3. PICK a : a = Row(c.cr).address
  OBVIOUS
<1>4. /\ a \in Addresses /\ word[a] \in Values \cup Helpers
      /\ IsHelper(word[a]) => HelperOK(word[a]) /\ Row(word[a].cr).address = a
  BY <1>0, <1>2, <1>3, RowTyped DEF MemoryInv, WordOK
<1>5. UNCHANGED <<mch, pending, caller>> /\ depth' = depth /\ Deallocs({})
  BY DEF Swap
<1>6. CASE word[a] = c.cvalue
  <2>1. PICK f : f = [c EXCEPT !.at = "associate"]
    OBVIOUS
  <2>2. word' = [word EXCEPT ![a] = c.mch] /\ Continue(t, f)
    BY <1>1, <1>3, <1>6, <2>1 DEF Swap
  <2>3. IsHelper(c.mch) /\ HelperOK(c.mch) /\ Row(c.mch.cr).address = a
    BY <1>2, <1>3 DEF FrameOK, Holds, Placing, HelperOK
  <2>4. MemoryInv' /\ Grows
    BY <1>0, <1>4, <1>5, <2>2, <2>3, WordChanges
  <2>5. /\ f \in Frames /\ f.kind = c.kind /\ f.cr = c.cr /\ f.cvalue = c.cvalue /\ f.at = "associate"
        /\ f.mch = c.mch
    BY <1>2, <2>1 DEF Frames, Labels
  <2>6. FrameOK(f)
    BY <1>2, <2>5 DEF FrameOK, LabelOK, Holds, Placing
  <2>7. FrameOK(f)'
    BY <1>0, <2>4, <2>5, <2>6, FrameKept
  <2>. QED BY <1>1, <1>2, <1>5, <2>2, <2>4, <2>5, <2>7, StepsOn
<1>7. CASE word[a] # c.cvalue
  <2>1. PICK v : v = word[a]
    OBVIOUS
  <2>2. PICK f : f = [c EXCEPT !.cvalue = v, !.at = "loop"]
    OBVIOUS
  <2>3. Continue(t, f) /\ UNCHANGED memory /\ UNCHANGED caller
    BY <1>1, <1>3, <1>5, <1>7, <2>1, <2>2 DEF Swap, memory
  <2>4. f \in Frames /\ f.kind = c.kind /\ f.cr = c.cr /\ f.cvalue = v /\ f.at = "loop" /\ f.mch = c.mch
    BY <1>2, <1>4, <2>1, <2>2 DEF Frames, Labels
  <2>5. FrameOK(f)
    BY <1>2, <1>3, <1>4, <2>1, <2>4 DEF FrameOK, LabelOK, Holds, Placing
  <2>. QED BY <1>1, <1>2, <1>5, <2>3, <2>4, <2>5, StepsOnStill
<1>. QED BY <1>6, <1>7

LEMMA AssociateShape ==
  ASSUME ShapeInv, NEW t \in Threads, Associate(t)
  PROVE  ShapeInv'
<1>0. MemoryInv
  BY DEF ShapeInv
<1>1. PICK c : c = Frame(t)
  OBVIOUS
<1>2. /\ stack[t] # <<>> /\ c \in Frames /\ FrameOK(c) /\ c.at = "associate" /\ c.kind # "read"
      /\ c.cr \in Rows /\ Live(c.cr) /\ Earlier(c.cr) /\ IsHelper(c.mch) /\ c.mch.cr = c.cr
  BY <1>1, TopIs DEF Associate, At, FrameOK, LabelOK, Holds, Placing
<1>3. UNCHANGED <<word, pending, caller>> /\ depth' = depth /\ Deallocs({})
  BY DEF Associate
<1>4. CASE mch[c.cr] \in {Null, c.mch}
  <2>1. mch' = [mch EXCEPT ![c.cr] = c.mch] /\ PlaceReturns(t)
    BY <1>1, <1>4 DEF Associate
  <2>2. MemoryInv' /\ Grows /\ mch'[c.cr] = c.mch
    BY <1>0, <1>2, <1>3, <1>4, <2>1, MchChanges
  <2>3. mch'[Frame(t).cr] # Null /\ Frame(t).kind # "read" /\ Frame(t).at # "remove"
    BY <1>1, <1>2, <2>2, HelperTyped
  <2>4. desc' = desc
    BY <1>3 DEF caller
  <2>. QED BY <1>2, <1>3, <2>1, <2>2, <2>3, <2>4, Returns
<1>5. CASE mch[c.cr] \notin {Null, c.mch}
  <2>1. PICK f : f = [c EXCEPT !.at = "restore"]
    OBVIOUS
  <2>2. Continue(t, f) /\ UNCHANGED memory /\ UNCHANGED caller
    BY <1>1, <1>3, <1>5, <2>1 DEF Associate, memory
  <2>3. /\ f \in Frames /\ f.kind = c.kind /\ f.cr = c.cr /\ f.cvalue = c.cvalue /\ f.at = "restore"
        /\ f.mch = c.mch
    BY <1>2, <2>1 DEF Frames, Labels
  <2>4. FrameOK(f)
    BY <1>2, <1>5, <2>3 DEF FrameOK, LabelOK, Holds, Placing
  <2>. QED BY <1>1, <1>2, <1>3, <2>2, <2>3, <2>4, StepsOnStill
<1>. QED BY <1>4, <1>5

LEMMA RestoreShape ==
  ASSUME ShapeInv, NEW t \in Threads, Restore(t)
  PROVE  ShapeInv'
<1>0. MemoryInv
  BY DEF ShapeInv
<1>1. PICK c : c = Frame(t)
  OBVIOUS
<1>2. /\ stack[t] # <<>> /\ c \in Frames /\ FrameOK(c) /\ c.at = "restore" /\ c.kind # "read"
      /\ mch[c.cr] # Null /\ c.cr \in Rows /\ Live(c.cr) /\ IsHelper(c.mch)
  BY <1>1, TopIs DEF Restore, At, FrameOK, LabelOK, Holds, Placing
<1>3. Row(c.cr).address \in Addresses /\ Row(c.cr).expected \in Values
  BY <1>0, <1>2, RowTyped
<1>4. UNCHANGED <<mch, pending, caller>> /\ depth' = depth /\ PlaceReturns(t)
  BY DEF Restore
<1>5. MemoryInv' /\ Grows
  <2>1. CASE word[Row(c.cr).address] = c.mch
    <3>1. word' = [word EXCEPT ![Row(c.cr).address] = Row(c.cr).expected]
      BY <1>1, <2>1 DEF Restore
    <3>. QED BY <1>0, <1>3, <1>4, <3>1, WordChanges
  <2>2. CASE word[Row(c.cr).address] # c.mch
    <3>1. UNCHANGED memory /\ UNCHANGED caller
      BY <1>1, <1>4, <2>2 DEF Restore, memory
    <3>. QED BY <1>0, <3>1, Still
  <2>. QED BY <2>1, <2>2
<1>6. PICK hs : hs \subseteq Helpers /\ Deallocs(hs)
  <2>1. {c.mch} \subseteq Helpers /\ {} \subseteq Helpers
    BY <1>2 DEF IsHelper
  <2>. QED BY <1>1, <2>1 DEF Restore
<1>7. mch'[Frame(t).cr] # Null /\ Frame(t).kind # "read" /\ Frame(t).at # "remove" /\ desc' = desc
  BY <1>1, <1>2, <1>4 DEF caller
<1>. QED BY <1>2, <1>4, <1>5, <1>6, <1>7, Returns
LEMMA FailRowShape ==
  ASSUME ShapeInv, NEW t \in Threads, FailRow(t)
  PROVE  ShapeInv'
<1>0. MemoryInv
  BY DEF ShapeInv
<1>1. PICK c : c = Frame(t)
  OBVIOUS
<1>2. /\ stack[t] # <<>> /\ c \in Frames /\ FrameOK(c) /\ c.at = "fail" /\ c.kind # "read"
      /\ c.cr \in Rows /\ Live(c.cr) /\ Earlier(c.cr) /\ IsHelper(c.mch)
  BY <1>1, TopIs DEF FailRow, At, FrameOK, LabelOK, Holds, Placing
<1>3. UNCHANGED <<word, pending, caller>> /\ depth' = depth
  BY DEF FailRow
<1>4. CASE mch[c.cr] = Null
  <2>1. PICK f : f = [c EXCEPT !.at = "fail_last"]
    OBVIOUS
  <2>2. mch' = [mch EXCEPT ![c.cr] = Fail] /\ Continue(t, f) /\ Deallocs({})
    BY <1>1, <1>4, <2>1 DEF FailRow
  <2>3. MemoryInv' /\ Grows /\ mch'[c.cr] = Fail
    BY <1>0, <1>2, <1>3, <1>4, <2>2, MchChanges
  <2>4. /\ f \in Frames /\ f.kind = c.kind /\ f.cr = c.cr /\ f.cvalue = c.cvalue /\ f.at = "fail_last"
        /\ f.mch = c.mch
    BY <1>2, <2>1 DEF Frames, Labels
  <2>5. FrameOK(c)'
    BY <1>0, <1>2, <2>3, FrameKept
  <2>6. FrameOK(f)'
    BY <1>2, <2>3, <2>4, <2>5 DEF FrameOK, LabelOK, Holds, Placing
  <2>. QED BY <1>1, <1>2, <1>3, <2>2, <2>3, <2>4, <2>6, StepsOn
<1>5. CASE mch[c.cr] # Null
  <2>1. mch' = mch /\ PlaceReturns(t) /\ Deallocs({c.mch})
    BY <1>1, <1>5 DEF FailRow
  <2>2. MemoryInv' /\ Grows
    <3>1. UNCHANGED memory /\ UNCHANGED caller
      BY <1>3, <2>1 DEF memory
    <3>. QED BY <1>0, <3>1, Still
  <2>3. mch'[Frame(t).cr] # Null /\ Frame(t).kind # "read" /\ Frame(t).at # "remove"
    BY <1>1, <1>2, <1>5, <2>1
  <2>4. {c.mch} \subseteq Helpers /\ desc' = desc
    BY <1>2, <1>3 DEF IsHelper, caller
  <2>. QED BY <1>2, <1>3, <2>1, <2>2, <2>3, <2>4, Returns
<1>. QED BY <1>4, <1>5

LEMMA FailLastShape ==
  ASSUME ShapeInv, NEW t \in Threads, FailLast(t)
  PROVE  ShapeInv'
<1>0. MemoryInv
  BY DEF ShapeInv
<1>1. PICK c : c = Frame(t)
  OBVIOUS
<1>2. /\ stack[t] # <<>> /\ c \in Frames /\ c.at = "fail_last" /\ c.kind # "read"
      /\ c.cr \in Rows /\ Live(c.cr) /\ mch[c.cr] = Fail /\ IsHelper(c.mch)
  BY <1>1, TopIs DEF FailLast, At, FrameOK, LabelOK, Holds, Placing
<1>3. UNCHANGED <<word, pending, caller>> /\ depth' = depth /\ PlaceReturns(t) /\ Deallocs({c.mch})
  BY <1>1 DEF FailLast
<1>4. PICK l : l = LastRow(c.cr)
  OBVIOUS
<1>5. l \in Rows /\ Live(l)
  BY <1>0, <1>2, <1>4, RowTyped
<1>6. mch' = [mch EXCEPT ![l] = IF mch[l] = Null THEN Fail ELSE mch[l]]
  BY <1>1, <1>4 DEF FailLast
<1>7. MemoryInv' /\ Grows
  <2>1. CASE mch[l] = Null
    <3>1. mch' = [mch EXCEPT ![l] = Fail]
      BY <1>6, <2>1
    <3>. QED BY <1>0, <1>3, <1>5, <2>1, <3>1, MchChanges
  <2>2. CASE mch[l] # Null
    <3>1. mch' = mch
      BY <1>0, <1>5, <1>6, <2>2 DEF MemoryInv
    <3>2. UNCHANGED memory /\ UNCHANGED caller
      BY <1>3, <3>1 DEF memory
    <3>. QED BY <1>0, <3>2, Still
  <2>. QED BY <2>1, <2>2
<1>8. mch'[Frame(t).cr] # Null
  BY <1>1, <1>2, <1>7, HelperTyped DEF Grows
<1>9. {c.mch} \subseteq Helpers /\ desc' = desc /\ Frame(t).kind # "read" /\ Frame(t).at # "remove"
  BY <1>1, <1>2, <1>3 DEF IsHelper, caller
<1>. QED BY <1>2, <1>3, <1>7, <1>8, <1>9, Returns

LEMMA CheckShape ==
  ASSUME ShapeInv, NEW t \in Threads, Check(t)
  PROVE  ShapeInv'
<1>0. MemoryInv /\ MemoryInv' /\ Grows
  BY Still DEF ShapeInv, Check
<1>1. PICK c : c = Frame(t)
  OBVIOUS
<1>2. /\ stack[t] # <<>> /\ c \in Frames /\ FrameOK(c) /\ c.at = "check" /\ c.kind = "help"
      /\ mch[c.cr] # Null /\ c.cvalue = Null
  BY <1>1, TopIs DEF Check, At, FrameOK, LabelOK, Placing
<1>3. mch' = mch /\ desc' = desc /\ depth' = depth /\ Deallocs({}) /\ {} \subseteq Helpers
  BY DEF Check, memory, caller
<1>4. CASE mch[c.cr] = Fail
  <2>1. PICK f : f = [c EXCEPT !.at = "end"]
    OBVIOUS
  <2>2. Continue(t, f)
    BY <1>1, <1>4, <2>1 DEF Check
  <2>3. f \in Frames /\ f.kind = "help" /\ f.cr = c.cr /\ f.cvalue = Null /\ f.at = "end"
    BY <1>2, <2>1 DEF Frames, Labels
  <2>4. FrameOK(f)
    BY <1>2, <1>4, <2>3 DEF FrameOK, LabelOK, Holds, Placing
  <2>. QED BY <1>1, <1>2, <2>2, <2>3, <2>4, StepsOnStill DEF Check
<1>5. CASE mch[c.cr] # Fail
  <2>1. Continue(t, NextRow(c))
    BY <1>1, <1>5 DEF Check
  <2>. QED BY <1>0, <1>1, <1>2, <1>3, <2>1, GoesToNext
<1>. QED BY <1>4, <1>5

LEMMA WithdrawShape ==
  ASSUME ShapeInv, NEW t \in Threads, Withdraw(t)
  PROVE  ShapeInv'
<1>1. PICK c : c = Frame(t)
  OBVIOUS
<1>2. /\ stack[t] # <<>> /\ c \in Frames /\ FrameOK(c) /\ c.at = "end" /\ c.kind = "own"
  BY <1>1, TopIs DEF Withdraw, At
<1>3. MemoryInv /\ MemoryInv' /\ Grows
  BY PendingChanges DEF ShapeInv, Withdraw
<1>4. PICK f : f = [c EXCEPT !.at = "decide"]
  OBVIOUS
<1>5. f \in Frames /\ f.kind = c.kind /\ f.cr = c.cr /\ f.cvalue = c.cvalue /\ f.at = "decide"
  BY <1>2, <1>4 DEF Frames, Labels
<1>6. FrameOK(f)
  BY <1>2, <1>5 DEF FrameOK, LabelOK, Holds, Placing
<1>7. FrameOK(f)'
  BY <1>3, <1>5, <1>6, FrameKept
<1>8. Continue(t, f)
  BY <1>1, <1>4 DEF Withdraw
<1>. QED BY <1>1, <1>2, <1>3, <1>5, <1>7, <1>8, StepsOn DEF Withdraw

LEMMA DecideShape ==
  ASSUME ShapeInv, NEW t \in Threads, Decide(t)
  PROVE  ShapeInv'
<1>0. MemoryInv /\ MemoryInv' /\ Grows
  BY Still DEF ShapeInv, Decide
<1>1. PICK c : c = Frame(t)
  OBVIOUS
<1>2. /\ stack[t] # <<>> /\ c \in Frames /\ FrameOK(c) /\ c.at = "decide" /\ c.kind = "own"
      /\ Outcome(c.cr[1]) # Null /\ c.cvalue = Null /\ c.cr \in Rows /\ Live(c.cr)
  BY <1>1, TopIs DEF Decide, At, FrameOK, LabelOK, Placing
<1>3. PICK r : r = <<c.cr[1], 1>>
  OBVIOUS
<1>4. r \in Rows /\ Live(r) /\ r[1] = c.cr[1]
  <2>1. 1 \in 1 .. Len(desc[c.cr[1]])
    BY <1>0, <1>2 DEF MemoryInv, DescOK, Live
  <2>. QED BY <1>0, <1>2, <1>3, <2>1, RowTyped
<1>5. PICK x : x = IF Outcome(c.cr[1]) # Fail THEN 0 ELSE 1
  OBVIOUS
<1>6. PICK f : f = [c EXCEPT !.res = x, !.cr = r, !.at = "remove"]
  OBVIOUS
<1>7. /\ f \in Frames /\ f.kind = "own" /\ f.cr = r /\ f.cvalue = Null /\ f.at = "remove" /\ f.res = x
  BY <1>2, <1>4, <1>5, <1>6 DEF Frames, Labels
<1>8. Continue(t, f)
  BY <1>1, <1>3, <1>5, <1>6 DEF Decide, Outcome, LastRow
<1>9. FrameOK(f)
  BY <1>2, <1>4, <1>5, <1>7, HelperTyped DEF FrameOK, LabelOK, Holds, Placing
<1>10. FrameOK(f)'
  BY <1>0, <1>7, <1>9, FrameKept
<1>11. f.kind = Frame(t).kind /\ f.kind # "help" /\ f.at # "judge" /\ depth' = depth
  BY <1>1, <1>2, <1>7 DEF Decide
<1>. QED BY <1>0, <1>2, <1>7, <1>8, <1>10, <1>11, Continues DEF Decide
LEMMA HelpReturnsShape ==
  ASSUME ShapeInv, NEW t \in Threads, HelpReturns(t)
  PROVE  ShapeInv'
<1>0. MemoryInv /\ MemoryInv' /\ Grows
  BY Still DEF ShapeInv, HelpReturns
<1>1. PICK c, s, d : c = Frame(t) /\ s = stack[t] /\ d = depth[t]
  OBVIOUS
<1>2. /\ s \in Seq(Frames) /\ StackOK(s, d) /\ d \in Nat /\ s # <<>> /\ c = Head(s)
      /\ c \in Frames /\ FrameOK(c) /\ c.at = "end" /\ c.kind = "help" /\ c.cr \in Rows /\ Live(c.cr)
      /\ Earlier(c.cr) /\ (Outcome(c.cr[1]) # Null \/ mch[c.cr] = Fail)
  BY <1>1, TopIs, FrameTyped DEF HelpReturns, At, FrameOK, LabelOK, Frame
<1>3. PICK x : x = IF Outcome(c.cr[1]) # Fail THEN 0 ELSE 1
  OBVIOUS
<1>4. x \in {-1, 0, 1}
  BY <1>3
<1>5. PICK g : g = s[2]
  OBVIOUS
<1>6. PICK f : f = [g EXCEPT !.res = x]
  OBVIOUS
<1>7. PICK z : z = <<f>> \o Tail(Tail(s))
  OBVIOUS
<1>8. /\ g \in Frames /\ g \in Activations(s) /\ Waits(g, c) /\ d - 1 \in Nat
      /\ z \in Seq(Frames) /\ StackOK(z, d - 1) /\ Activations(z) \subseteq {f} \cup Activations(s)
      /\ Running(z) = {f}
  BY <1>2, <1>4, <1>5, <1>6, <1>7, ReturnsHelp
<1>9. /\ f \in Frames /\ f.kind = g.kind /\ f.cr = g.cr /\ f.cvalue = g.cvalue /\ f.at = g.at
      /\ f.mch = g.mch /\ f.res = x
  BY <1>4, <1>6, <1>8 DEF Frames
<1>10. \A e \in Activations(s) : FrameOK(e) /\ FrameOK(e)'
  <2>. TAKE e \in Activations(s)
  <2>1. e \in Frames /\ FrameOK(e)
    BY <1>1, <1>2, AllFromEnd DEF Activations, ShapeInv, FramesOK
  <2>. QED BY <1>0, <2>1, FrameKept
<1>11. FrameOK(f)'
  <2>1. FrameOK(g)' /\ f.at # "remove"
    BY <1>8, <1>9, <1>10 DEF Waits
  <2>. QED BY <1>9, <2>1 DEF FrameOK, LabelOK, Holds
<1>12. ASSUME f.at = "judge" PROVE ResultOK(f)'
  <2>1. PICK r : r = g.cvalue.cr
    OBVIOUS
  <2>2. /\ r \in Rows /\ Live(r) /\ c.cr[1] = r[1] /\ c.cr[2] >= r[2] /\ r[1] \in 1 .. Len(desc)
        /\ IsHelper(g.cvalue)
    BY <1>8, <1>9, <1>10, <1>12, <2>1, HelperTyped DEF Waits, FrameOK, HelperOK, Live
  <2>3. PICK o : o = r[1]
    OBVIOUS
  <2>4. /\ r = <<o, r[2]>> /\ r[2] \in Nat /\ LastRow(r) \in Rows /\ Outcome(o) = mch[LastRow(r)]
        /\ LastRow(r)[1] = o /\ LastRow(r)[2] \in Nat /\ r[2] <= LastRow(r)[2]
        /\ c.cr = <<o, c.cr[2]>> /\ c.cr[2] \in Nat /\ c.cr[2] \in 1 .. Len(desc[o])
        /\ LastRow(r) = <<o, LastRow(r)[2]>>
    BY <1>0, <1>2, <2>2, <2>3, RowTyped DEF LastRow, Live
  <2>5. Outcome(o) \in {Null, Fail} \cup Helpers
    BY <1>0, <2>4 DEF MemoryInv
  <2>6. x = 0 => IsHelper(Outcome(o)) \/ SomeFailed(o)
    <3>1. x = 0 => Outcome(o) # Fail
      BY <1>3, <2>2, <2>3
    <3>2. mch[c.cr] = Fail => SomeFailed(o)
      BY <2>4 DEF SomeFailed
    <3>. QED BY <1>2, <2>2, <2>3, <2>5, <3>1, <3>2 DEF IsHelper
  <2>7. x = 1 => Outcome(o) = Fail
    BY <1>3, <2>2, <2>3
  <2>8. Outcome(o) = Fail \/ mch[r] # Null
    <3>1. ASSUME NEW q \in Rows, q = <<o, q[2]>>, q[2] \in Nat, q[2] >= r[2], Earlier(q), mch[q] # Null
          PROVE  mch[r] # Null
      <4>1. CASE q[2] = r[2]
        BY <2>4, <3>1, <4>1
      <4>2. CASE q[2] # r[2]
        <5>1. r[2] \in 1 .. q[2] - 1
          <6>1. r[2] \in Nat /\ r[2] >= 1
            BY <2>2, MCasConstants DEF Rows, Addresses
          <6>. QED BY <3>1, <4>2, <6>1
        <5>2. q[1] = o
          BY <3>1
        <5>. QED BY <2>4, <3>1, <5>1, <5>2 DEF Earlier
      <4>. QED BY <4>1, <4>2
    <3>2. CASE mch[c.cr] = Fail
      <4>1. mch[c.cr] # Null
        BY <3>2, HelperTyped
      <4>. QED BY <1>2, <2>2, <2>4, <3>1, <4>1
    <3>3. CASE Outcome(o) # Null /\ Outcome(o) # Fail
      <4>1. Earlier(LastRow(r)) /\ mch[LastRow(r)] # Null
        BY <1>0, <2>4, <2>5, <3>3 DEF MemoryInv, MchOK, IsHelper
      <4>. QED BY <2>4, <3>1, <4>1
    <3>. QED BY <1>2, <2>2, <2>3, <3>2, <3>3
  <2>9. ResultOK(f)
    <3>1. f.res = x /\ f.cvalue.cr[1] = o /\ f.cvalue.cr = r
      BY <1>9, <2>1, <2>3
    <3>2. x # -1
      BY <1>3
    <3>. QED BY <2>6, <2>7, <2>8, <3>1, <3>2 DEF ResultOK
  <2>10. IsHelper(f.cvalue) /\ HelperOK(f.cvalue)
    BY <1>8, <1>9, <1>10, <2>2 DEF FrameOK
  <2>. QED BY <1>0, <1>9, <2>9, <2>10, ResultKept
<1>13. stack' = [stack EXCEPT ![t] = z] /\ depth' = [depth EXCEPT ![t] = d - 1] /\ Deallocs({})
  BY <1>1, <1>3, <1>5, <1>6, <1>7 DEF HelpReturns, Outcome, LastRow
<1>14. \A e \in Activations(z) : FrameOK(e)'
  BY <1>8, <1>10, <1>11
<1>15. \A e \in Running(z) : e.at = "judge" => ResultOK(e)'
  BY <1>8, <1>12
<1>. QED BY <1>0, <1>8, <1>13, <1>14, <1>15, Restacks

\* A thread's only activation is f, or none is left.
LEMMA SingleStack ==
  ASSUME NEW f \in Frames, f.kind # "help", NEW d \in Nat
  PROVE  /\ <<f>> \in Seq(Frames) /\ StackOK(<<f>>, d) /\ Activations(<<f>>) = {f} /\ Running(<<f>>) = {f}
         /\ <<>> \in Seq(Frames) /\ StackOK(<<>>, d) /\ Activations(<<>>) = {} /\ Running(<<>>) = {}
<1>1. <<f>> \in Seq(Frames) /\ Len(<<f>>) = 1 /\ FromEnd(<<f>>, 1) = f
  BY DEF FromEnd
<1>2. <<>> \in Seq(Frames) /\ Len(<<>>) = 0
  OBVIOUS
<1>3. StackOK(<<f>>, d) /\ StackOK(<<>>, d)
  BY <1>1, <1>2 DEF StackOK
<1>. QED BY <1>1, <1>2, <1>3 DEF Activations, Running

LEMMA RemoveHelperShape ==
  ASSUME ShapeInv, NEW t \in Threads, RemoveHelper(t)
  PROVE  ShapeInv'
<1>0. MemoryInv
  BY DEF ShapeInv
<1>1. PICK c, d : c = Frame(t) /\ d = depth[t]
  OBVIOUS
<1>2. /\ stack[t] # <<>> /\ c \in Frames /\ FrameOK(c) /\ c.at = "remove" /\ c.kind = "own"
      /\ c.cr \in Rows /\ Live(c.cr) /\ d \in Nat /\ c.cvalue = Null
  BY <1>1, TopIs, FrameTyped DEF RemoveHelper, At, FrameOK, LabelOK, Placing
<1>3. PICK r : r = Row(c.cr)
  OBVIOUS
<1>4. r.address \in Addresses /\ r.expected \in Values /\ r.new \in Values
  BY <1>0, <1>2, <1>3, RowTyped
<1>5. UNCHANGED <<mch, pending, caller>> /\ depth' = depth
  BY DEF RemoveHelper
<1>6. MemoryInv' /\ Grows
  <2>1. CASE mch[c.cr] # Fail /\ word[r.address] = mch[c.cr]
    <3>1. PICK v : v = IF c.res = 0 THEN r.new ELSE r.expected
      OBVIOUS
    <3>2. word' = [word EXCEPT ![r.address] = v] /\ v \in Values
      BY <1>1, <1>3, <1>4, <2>1, <3>1 DEF RemoveHelper
    <3>. QED BY <1>0, <1>4, <1>5, <3>2, WordChanges
  <2>2. CASE ~ (mch[c.cr] # Fail /\ word[r.address] = mch[c.cr])
    <3>1. UNCHANGED memory /\ UNCHANGED caller
      BY <1>1, <1>3, <1>5, <2>2 DEF RemoveHelper, memory
    <3>. QED BY <1>0, <3>1, Still
  <2>. QED BY <2>1, <2>2
<1>7. PICK hs : hs \subseteq Helpers /\ Deallocs(hs)
  <2>1. {mch[c.cr]} \ {Null, Fail} \subseteq Helpers
    BY <1>0, <1>2 DEF MemoryInv
  <2>. QED BY <1>1, <2>1 DEF RemoveHelper
<1>8. depth' = [depth EXCEPT ![t] = d]
  BY <1>1, <1>5 DEF ShapeInv, TypeOK
<1>9. CASE mch[c.cr] = Fail \/ c.cr = LastRow(c.cr)
  <2>1. stack' = [stack EXCEPT ![t] = <<>>]
    BY <1>1, <1>9 DEF RemoveHelper
  <2>. QED BY <1>2, <1>6, <1>7, <1>8, <2>1, SingleStack, Restacks
<1>10. CASE ~ (mch[c.cr] = Fail \/ c.cr = LastRow(c.cr))
  <2>1. PICK q : q = <<c.cr[1], c.cr[2] + 1>>
    OBVIOUS
  <2>2. q \in Rows /\ Live(q) /\ q[1] = c.cr[1]
    <3>1. c.cr[2] + 1 \in 1 .. Len(desc[c.cr[1]])
      <4>1. /\ c.cr[2] \in Nat /\ LastRow(c.cr)[2] = Len(desc[c.cr[1]]) /\ Len(desc[c.cr[1]]) \in Nat
            /\ c.cr = <<c.cr[1], c.cr[2]>> /\ c.cr[2] <= Len(desc[c.cr[1]])
        BY <1>0, <1>2, RowTyped DEF LastRow
      <4>2. c.cr[2] # Len(desc[c.cr[1]])
        BY <1>10, <4>1 DEF LastRow
      <4>. QED BY <4>1, <4>2
    <3>. QED BY <1>0, <1>2, <2>1, <3>1, RowTyped
  <2>3. PICK f : f = [c EXCEPT !.cr = q]
    OBVIOUS
  <2>4. /\ f \in Frames /\ f.kind = "own" /\ f.cr = q /\ f.cvalue = Null /\ f.at = "remove" /\ f.res = c.res
    BY <1>2, <2>2, <2>3 DEF Frames
  <2>5. FrameOK(f)
    BY <1>2, <2>2, <2>4, HelperTyped DEF FrameOK, LabelOK, Holds, Placing
  <2>6. FrameOK(f)'
    BY <1>0, <1>6, <2>4, <2>5, FrameKept
  <2>7. PICK s : s = <<f>>
    OBVIOUS
  <2>8. stack' = [stack EXCEPT ![t] = s]
    BY <1>1, <1>10, <2>1, <2>3, <2>7 DEF RemoveHelper
  <2>9. s \in Seq(Frames) /\ StackOK(s, d) /\ Activations(s) = {f} /\ Running(s) = {f}
    BY <1>2, <2>4, <2>7, SingleStack
  <2>. QED BY <1>2, <1>6, <1>7, <1>8, <2>4, <2>6, <2>8, <2>9, Restacks
<1>. QED BY <1>9, <1>10

LEMMA ReadReturnsShape ==
  ASSUME ShapeInv, NEW t \in Threads, ReadReturns(t)
  PROVE  ShapeInv'
<1>0. MemoryInv /\ MemoryInv' /\ Grows
  BY Still DEF ShapeInv, ReadReturns
<1>1. PICK c, d : c = Frame(t) /\ d = depth[t]
  OBVIOUS
<1>2. c \in Frames /\ c.kind # "help" /\ d \in Nat
  BY <1>1, TopIs, FrameTyped DEF ReadReturns, At
<1>3. stack' = [stack EXCEPT ![t] = <<>>] /\ depth' = [depth EXCEPT ![t] = d] /\ Deallocs({})
  BY <1>1 DEF ReadReturns, ShapeInv, TypeOK
<1>. QED BY <1>0, <1>2, <1>3, SingleStack, Restacks
-------------------------------------------------------------------------------
(* The calls of mcas and mcas_read.                                         *)

\* A call of mcas names each address at most once.
LEMMA RowsBounded ==
  ASSUME NEW q, q \subseteq CasRow, q # {}, \A r, p \in q : r.address = p.address => r = p
  PROVE  Cardinality(q) \in 1 .. NAddresses
<1>. DEFINE g == [r \in q |-> r.address]
<1>1. NAddresses \in Nat /\ 1 \in Int
  BY MCasConstants
<1>2. IsFiniteSet(Addresses) /\ Cardinality(Addresses) = IF 1 > NAddresses THEN 0 ELSE NAddresses - 1 + 1
  BY <1>1, FS_Interval DEF Addresses
<1>3. g \in Injection(q, Addresses)
  BY DEF CasRow, Injection, IsInjective
<1>. HIDE DEF g
<1>4. IsFiniteSet(q) /\ Cardinality(q) <= Cardinality(Addresses)
  BY <1>2, <1>3, FS_Injection
<1>5. Cardinality(q) \in Nat /\ Cardinality(q) # 0
  BY <1>4, FS_CardinalityType, FS_EmptySet
<1>6. Cardinality(Addresses) = NAddresses
  <2>1. NAddresses >= 1
    BY MCasConstants
  <2>. QED BY <1>1, <1>2, <2>1
<1>. QED BY <1>1, <1>4, <1>5, <1>6

\* The call a thread makes next.
LEMMA CallTyped ==
  ASSUME MemoryInv, NEW t \in Threads, NEW kind, Call(t, kind)
  PROVE  /\ Head(script[t]) \in Calls /\ Good(Head(script[t])) /\ Head(script[t]).kind = kind
         /\ script' \in [Threads -> Seq(Calls)] /\ ScriptOK'
         /\ stack[t] = <<>>
<1>1. /\ script[t] \in Seq(GoodCalls) /\ script[t] # <<>> /\ script \in [Threads -> Seq(Calls)]
      /\ script' = [script EXCEPT ![t] = Tail(script[t])]
  BY DEF MemoryInv, ScriptOK, Call
<1>2. Head(script[t]) \in GoodCalls /\ Tail(script[t]) \in Seq(GoodCalls) /\ Tail(script[t]) \in Seq(Calls)
  <2>1. PICK s : s = script[t]
    OBVIOUS
  <2>2. script[t] \in Seq(Calls)
    BY <1>1
  <2>3. Head(s) \in GoodCalls /\ Tail(s) \in Seq(GoodCalls) /\ Tail(s) \in Seq(Calls)
    BY <1>1, <2>1, <2>2, HeadTailProperties
  <2>. QED BY <2>1, <2>3
<1>3. ScriptOK'
  BY <1>1, <1>2 DEF ScriptOK, MemoryInv
<1>4. script' \in [Threads -> Seq(Calls)]
  BY <1>1, <1>2
<1>. QED BY <1>2, <1>3, <1>4 DEF GoodCalls, Call

\* A new call of mcas changes nothing for those made before.
LEMMA DescGrows ==
  ASSUME MemoryInv, UNCHANGED memory, NEW d \in Seq(CasRow), Len(d) \in 1 .. NAddresses,
         desc' = Append(desc, d), Len(desc) + 1 <= MaxCalls, NEW r, r = <<Len(desc) + 1, 1>>,
         checkId' \in [Threads -> Threads], script' \in [Threads -> Seq(Calls)], ScriptOK'
  PROVE  /\ MemoryInv' /\ Grows
         /\ r \in Rows /\ Live(r)'
<1>0. PICK n : n = Len(desc)
  OBVIOUS
<1>1. /\ desc \in Seq(Seq(CasRow)) /\ n \in Nat /\ word' = word /\ mch' = mch /\ pending' = pending
      /\ NAddresses \in Nat /\ MaxCalls \in Nat /\ n + 1 <= MaxCalls
  BY <1>0, MCasConstants, LenProperties DEF MemoryInv, memory
<1>2. /\ desc' \in Seq(Seq(CasRow)) /\ Len(desc') = n + 1 /\ desc'[n + 1] = d
      /\ \A o \in 1 .. n : desc'[o] = desc[o]
  BY <1>0, <1>1, AppendProperties
<1>3. DescOK'
  <2>. SUFFICES ASSUME NEW o \in 1 .. n + 1 PROVE Len(desc'[o]) \in 1 .. NAddresses
    BY <1>2 DEF DescOK
  <2>1. o \in 1 .. n \/ o = n + 1
    BY <1>1
  <2>. QED BY <1>0, <1>2, <2>1 DEF MemoryInv, DescOK
<1>4. Grows
  <2>1. n <= n + 1
    BY <1>1
  <2>. QED BY <1>0, <1>1, <1>2, <2>1 DEF Grows
<1>5. \A q \in Rows : Live(q) => Live(q)' /\ Row(q)' = Row(q)
  <2>1. \A o \in 1 .. n : o \in 1 .. n + 1
    BY <1>1
  <2>. QED BY <1>0, <1>2, <2>1 DEF Live, Row
<1>6. \A q : Earlier(q)' = Earlier(q)
  BY <1>1 DEF Earlier
<1>7. WordOK'
  <2>. SUFFICES ASSUME NEW b \in Addresses, IsHelper(word'[b])
                PROVE  HelperOK(word[b])' /\ Row(word[b].cr)'.address = b
    BY DEF WordOK
  <2>1. word[b].cr \in Rows /\ Live(word[b].cr) /\ Earlier(word[b].cr) /\ Row(word[b].cr).address = b
    BY <1>1, HelperTyped DEF MemoryInv, WordOK, HelperOK
  <2>. QED BY <1>1, <1>5, <1>6, <2>1 DEF HelperOK, Live, Earlier, Row
<1>8. MchOK'
  <2>. SUFFICES ASSUME NEW q \in Rows
                PROVE  /\ IsHelper(mch'[q]) => mch'[q].cr = q /\ Live(q)' /\ Earlier(q)'
                       /\ ~ Live(q)' => mch'[q] = Null
    BY DEF MchOK, IsHelper
  <2>1. /\ IsHelper(mch[q]) => mch[q].cr = q /\ Live(q) /\ Earlier(q)
        /\ ~ Live(q) => mch[q] = Null
    BY DEF MemoryInv, MchOK
  <2>. QED BY <1>1, <1>5, <1>6, <2>1
<1>9. PendingOK'
  <2>. SUFFICES ASSUME NEW t \in Threads, pending'[t] # Null
                PROVE  Live(pending[t])' /\ Earlier(pending[t])'
    BY DEF PendingOK
  <2>1. pending[t] \in Rows /\ Live(pending[t]) /\ Earlier(pending[t])
    BY <1>1 DEF MemoryInv, PendingOK
  <2>. QED BY <1>1, <1>5, <1>6, <2>1 DEF Live, Earlier
<1>10. MemoryInv'
  BY <1>1, <1>2, <1>3, <1>7, <1>8, <1>9 DEF MemoryInv
<1>11. r \in Rows /\ Live(r)'
  <2>1. n + 1 \in 1 .. MaxCalls /\ n + 1 \in 1 .. n + 1 /\ 1 \in 1 .. NAddresses /\ 1 \in 1 .. Len(d)
    BY <1>1
  <2>. QED BY <1>0, <1>2, <2>1 DEF Rows, Ops, Addresses, Live
<1>. QED BY <1>4, <1>10, <1>11

LEMMA InvokeShape ==
  ASSUME ShapeInv, NEW t \in Threads, Invoke(t)
  PROVE  ShapeInv' /\ Grows
<1>0. MemoryInv
  BY DEF ShapeInv
<1>1. /\ Head(script[t]) \in Calls /\ Good(Head(script[t])) /\ Head(script[t]).kind = "mcas"
      /\ script' \in [Threads -> Seq(Calls)] /\ ScriptOK'
  BY <1>0, CallTyped DEF Invoke
<1>2. PICK q : q = Head(script[t]).rows
  OBVIOUS
<1>3. q \subseteq CasRow /\ Cardinality(q) \in 1 .. NAddresses
  <2>1. q \subseteq CasRow /\ q # {} /\ \A r, p \in q : r.address = p.address => r = p
    BY <1>1, <1>2 DEF Calls, Good
  <2>. QED BY <2>1, RowsBounded
<1>4. PICK d \in Descending(q) : desc' = Append(desc, d)
  BY <1>2 DEF Invoke
<1>5. d \in Seq(CasRow) /\ Len(d) \in 1 .. NAddresses
  <2>1. d \in [1 .. Cardinality(q) -> q] /\ Cardinality(q) \in Nat
    BY <1>3, <1>4, MCasConstants DEF Descending
  <2>2. d \in Seq(q) /\ Len(d) = Cardinality(q)
    BY <2>1
  <2>. QED BY <1>3, <2>2
<1>6. PICK n, u : n = depth'[t] /\ u = (checkId[t] + 1) % NThreads
  OBVIOUS
<1>7. depth' = [depth EXCEPT ![t] = n] /\ n \in Nat
  BY <1>6 DEF Invoke, ShapeInv, TypeOK
<1>8. checkId' \in [Threads -> Threads]
  <2>1. u \in Threads
    <3>1. checkId[t] \in Threads
      BY <1>0 DEF MemoryInv
    <3>. QED BY <1>6, <3>1, MCasConstants DEF Threads
  <2>2. checkId' = [checkId EXCEPT ![t] = u]
    BY <1>6 DEF Invoke
  <2>. QED BY <1>0, <2>1, <2>2 DEF MemoryInv
<1>9. PICK r : r = <<Len(desc) + 1, 1>>
  OBVIOUS
<1>10. MemoryInv' /\ Grows /\ r \in Rows /\ Live(r)'
  <2>1. UNCHANGED memory /\ Len(desc) + 1 <= MaxCalls
    BY DEF Invoke
  <2>. QED BY <1>0, <1>1, <1>4, <1>5, <1>8, <1>9, <2>1, DescGrows
<1>11. PICK f : f = Activation("own", r, IF u = t THEN "next" ELSE "assist")
  OBVIOUS
<1>12. /\ f \in Frames /\ f.kind = "own" /\ f.cr = r /\ f.cvalue = Null /\ f.mch = Null
       /\ f.at \in {"next", "assist"}
  <2>1. 0 \in 0 .. MaxFail + 1
    BY MCasConstants
  <2>. QED BY <1>10, <1>11, <2>1 DEF Frames, Activation, Labels
<1>13. FrameOK(f)'
  <2>1. Earlier(r)'
    BY <1>9 DEF Earlier
  <2>. QED BY <1>10, <1>12, <2>1, HelperTyped DEF FrameOK, LabelOK, Holds, Placing, IsHelper
<1>14. PICK s : s = <<f>>
  OBVIOUS
<1>15. s \in Seq(Frames) /\ StackOK(s, n) /\ Activations(s) = {f} /\ Running(s) = {f}
  BY <1>7, <1>12, <1>14, SingleStack
<1>16. stack' = [stack EXCEPT ![t] = s] /\ Deallocs({})
  BY <1>6, <1>9, <1>11, <1>14 DEF Invoke
<1>. QED BY <1>7, <1>10, <1>12, <1>13, <1>15, <1>16, Restacks

LEMMA ReadShape ==
  ASSUME ShapeInv, NEW t \in Threads, Read(t)
  PROVE  ShapeInv'
<1>0. MemoryInv
  BY DEF ShapeInv
<1>1. PICK a, h, d : a = Head(script[t]).address /\ h = word[a] /\ d = depth[t]
  OBVIOUS
<1>2. /\ a \in Addresses /\ script' \in [Threads -> Seq(Calls)] /\ ScriptOK' /\ stack[t] = <<>> /\ d \in Nat
  <2>1. /\ Head(script[t]) \in Calls /\ Head(script[t]).kind = "read"
        /\ script' \in [Threads -> Seq(Calls)] /\ ScriptOK' /\ stack[t] = <<>>
    BY <1>0, CallTyped DEF Read
  <2>. QED BY <1>1, <2>1, FrameTyped DEF Calls
<1>3. MemoryInv' /\ Grows
  <2>1. word' = word /\ mch' = mch /\ pending' = pending /\ desc' = desc /\ checkId' = checkId
    BY DEF Read, memory
  <2>2. Grows
    BY <1>0, <2>1 DEF Grows, MemoryInv
  <2>3. DescOK' /\ MchOK' /\ WordOK' /\ PendingOK'
    BY <1>0, <2>1 DEF MemoryInv, DescOK, MchOK, WordOK, PendingOK, Live, Earlier, HelperOK, Row
  <2>. QED BY <1>0, <1>2, <2>1, <2>2, <2>3 DEF MemoryInv
<1>4. CASE ~ IsHelper(h)
  <2>1. PICK s : s = stack[t]
    OBVIOUS
  <2>2. s \in Seq(Frames) /\ StackOK(s, d) /\ Activations(s) = {} /\ Running(s) = {}
    <3>1. Len(<<>>) = 0 /\ s = <<>> /\ s \in Seq(Frames) /\ StackOK(s, d)
      BY <1>1, <1>2, <2>1, FrameTyped
    <3>. QED BY <3>1 DEF Activations, Running
  <2>3. stack' = [stack EXCEPT ![t] = s] /\ depth' = [depth EXCEPT ![t] = d] /\ Deallocs({})
    BY <1>1, <1>4, <2>1 DEF Read, ShapeInv, TypeOK
  <2>. QED BY <1>2, <1>3, <2>2, <2>3, Restacks
<1>5. CASE IsHelper(h)
  <2>1. h.cr \in Rows /\ Live(h.cr) /\ Earlier(h.cr) /\ HelperOK(h) /\ h \in Helpers
    BY <1>0, <1>1, <1>2, <1>5, HelperTyped DEF MemoryInv, WordOK, HelperOK
  <2>2. PICK f : f = [Activation("read", h.cr, "judge") EXCEPT !.cvalue = h]
    OBVIOUS
  <2>3. /\ f \in Frames /\ f.kind = "read" /\ f.cr = h.cr /\ f.cvalue = h /\ f.at = "judge"
    <3>1. 0 \in 0 .. MaxFail + 1
      BY MCasConstants
    <3>. QED BY <2>1, <2>2, <3>1 DEF Frames, Activation, Labels
  <2>4. FrameOK(f)
    BY <1>5, <2>1, <2>3 DEF FrameOK, LabelOK, Holds, Placing, HelperOK
  <2>5. FrameOK(f)' /\ Live(h.cr)' /\ Earlier(h.cr)'
    BY <1>0, <1>3, <2>1, <2>3, <2>4, FrameKept, RowKept
  <2>6. Help(t, f, h.cr) /\ depth[t] = 0 /\ Deallocs({})
    BY <1>1, <1>5, <2>2 DEF Read
  <2>7. StackOK(<<f>> \o Below(t), depth[t])
    <3>1. Below(t) = <<>> /\ <<f>> \o <<>> = <<f>>
      BY <1>2, <2>3 DEF Below
    <3>2. StackOK(<<f>>, d)
      BY <1>2, <2>3, SingleStack
    <3>. QED BY <1>1, <3>1, <3>2
  <2>. QED BY <1>3, <2>1, <2>3, <2>5, <2>6, <2>7, Helps
<1>. QED BY <1>4, <1>5
-------------------------------------------------------------------------------
(* ShapeInv holds always, and TypeOK with it.                               *)

LEMMA ShapeInit == Init => ShapeInv
<1>. SUFFICES ASSUME Init PROVE ShapeInv
  OBVIOUS
<1>1. /\ word \in [Addresses -> Values \cup Helpers]
      /\ desc \in Seq(Seq(CasRow)) /\ Len(desc) = 0 /\ Len(desc) <= MaxCalls
      /\ mch \in [Rows -> {Null, Fail} \cup Helpers]
      /\ pending \in [Threads -> {Null} \cup Rows]
      /\ retired = {} /\ twice = {} /\ seen \in [Threads -> SUBSET Values]
      /\ depth \in [Threads -> Nat]
  BY MCasConstants DEF Init
<1>2. checkId \in [Threads -> Threads]
  BY MCasConstants DEF Init, Threads
<1>3. script \in [Threads -> Seq(Calls)] /\ ScriptOK
  <2>1. /\ script \in [Threads -> Seq(Calls)]
        /\ \A t \in Threads : \A i \in DOMAIN script[t] : script[t][i].kind = "mcas" =>
              /\ script[t][i].rows # {}
              /\ \A r, q \in script[t][i].rows : r.address = q.address => r = q
    BY MCasConstants DEF Init
  <2>2. ASSUME NEW t \in Threads PROVE script[t] \in Seq(GoodCalls)
    <3>1. PICK s : s = script[t]
      OBVIOUS
    <3>2. s \in Seq(Calls) /\ \A i \in DOMAIN s : s[i] \in Calls /\ Good(s[i])
      BY <2>1, <3>1 DEF Good
    <3>3. s \in [1 .. Len(s) -> GoodCalls] /\ Len(s) \in Nat
      BY <3>2 DEF GoodCalls
    <3>. QED BY <3>1, <3>3
  <2>. QED BY <2>1, <2>2 DEF ScriptOK
<1>4. \A t \in Threads : stack[t] = <<>> /\ depth[t] = 0
  BY DEF Init
<1>5. stack \in [Threads -> Seq(Frames)]
  BY DEF Init
<1>6. MemoryInv
  <2>1. \A r \in Rows : mch[r] = Null
    BY DEF Init
  <2>2. \A a \in Addresses : ~ IsHelper(word[a])
    BY MCasConstants, HelperTyped DEF Init
  <2>3. \A t \in Threads : pending[t] = Null
    BY DEF Init
  <2>. QED BY <1>1, <1>2, <1>3, <2>1, <2>2, <2>3, HelperTyped
           DEF MemoryInv, DescOK, MchOK, WordOK, PendingOK
<1>7. Activations(<<>>) = {} /\ Running(<<>>) = {} /\ StackOK(<<>>, 0)
  <2>1. Len(<<>>) = 0
    OBVIOUS
  <2>. QED BY <2>1 DEF Activations, Running, StackOK
<1>8. FramesOK /\ ResultsOK /\ StacksOK
  BY <1>4, <1>7 DEF FramesOK, ResultsOK, StacksOK
<1>9. TypeOK
  BY <1>1, <1>2, <1>3, <1>5 DEF TypeOK
<1>. QED BY <1>6, <1>8, <1>9 DEF ShapeInv

LEMMA ShapeStutter == ShapeInv /\ UNCHANGED vars => ShapeInv'
<1>. SUFFICES ASSUME ShapeInv, UNCHANGED vars PROVE ShapeInv'
  OBVIOUS
<1>1. /\ UNCHANGED memory /\ UNCHANGED caller /\ stack' = stack /\ depth' = depth
      /\ retired' = retired /\ twice' = twice /\ seen' = seen
  BY DEF vars
<1>2. MemoryInv /\ MemoryInv' /\ Grows
  BY <1>1, Still DEF ShapeInv
<1>3. TypeOK'
  BY <1>1, <1>2 DEF ShapeInv, TypeOK, MemoryInv
<1>4. FramesOK' /\ ResultsOK'
  <2>1. ASSUME NEW t \in Threads, NEW f \in Activations(stack[t]) PROVE f \in Frames /\ FrameOK(f) /\ FrameOK(f)'
    <3>1. f \in Frames /\ FrameOK(f)
      BY AllFromEnd DEF Activations, ShapeInv, TypeOK, FramesOK
    <3>. QED BY <1>2, <3>1, FrameKept
  <2>2. ASSUME NEW t \in Threads, NEW f \in Running(stack[t]), f.at = "judge" PROVE ResultOK(f)'
    <3>1. f \in Activations(stack[t])
      <4>1. Len(stack[t]) \in Nat
        BY LenProperties DEF ShapeInv, TypeOK
      <4>. QED BY <4>1 DEF Running, Activations
    <3>2. f \in Frames /\ IsHelper(f.cvalue) /\ HelperOK(f.cvalue) /\ ResultOK(f)
      BY <2>1, <2>2, <3>1 DEF FrameOK, LabelOK, ShapeInv, ResultsOK
    <3>. QED BY <1>2, <3>2, ResultKept
  <2>. QED BY <1>1, <2>1, <2>2 DEF FramesOK, ResultsOK
<1>5. StacksOK'
  BY <1>1 DEF ShapeInv, StacksOK
<1>. QED BY <1>2, <1>3, <1>4, <1>5 DEF ShapeInv

LEMMA ShapeStep == ShapeInv /\ [Next]_vars => ShapeInv'
<1>. SUFFICES ASSUME ShapeInv, [Next]_vars PROVE ShapeInv'
  OBVIOUS
<1>1. CASE UNCHANGED vars
  BY <1>1, ShapeStutter
<1>2. ASSUME NEW t \in Threads, Step(t) PROVE ShapeInv'
  BY <1>2, AssistShape, ReadReturnsShape, NextPlaceShape, LoadShape, LoopShape, AnnounceShape,
     TryValueShape, AdoptShape, UndoShape, ShouldReplaceShape, JudgeShape, SwapShape,
     AssociateShape, RestoreShape, FailRowShape, FailLastShape, CheckShape, HelpReturnsShape,
     WithdrawShape, DecideShape, RemoveHelperShape DEF Step
<1>3. ASSUME NEW t \in Threads, Invoke(t) PROVE ShapeInv'
  BY <1>3, InvokeShape
<1>4. ASSUME NEW t \in Threads, Read(t) PROVE ShapeInv'
  BY <1>4, ReadShape
<1>. QED BY <1>1, <1>2, <1>3, <1>4 DEF Next

LEMMA ShapeAlways == Spec => []ShapeInv
BY ShapeInit, ShapeStep, PTL DEF Spec

\* Every variable keeps its type; in particular mcas_read and help_complete never
\* meet a word, a row or an announcement that is not one (wfmcas.cc).
THEOREM TypeCorrect == Spec => []TypeOK
<1>1. ShapeInv => TypeOK
  BY DEF ShapeInv
<1>. QED BY <1>1, ShapeAlways, PTL
-------------------------------------------------------------------------------
(* The helpers.                                                            *)

Lies(h) == \E a \in Addresses : word[a] = h

\* If its row is still open, the helper is in its word.
Seated(h) == mch[h.cr] = Null /\ Open(h.cr[1]) => word[Row(h.cr).address] = h
FrameSeated(f) == /\ IsHelper(f.cvalue) => Seated(f.cvalue)
                  /\ f.at = "associate" => Seated(f.mch)
FramesSeated == \A t \in Threads : \A k \in 1 .. Height(t) : FrameSeated(Nth(t, k))

\* Until it is installed, the helper an activation has allocated is its own.
Owns(f) == Holds(f) /\ f.at \notin {"associate", "restore"}
Hidden(h) == ~ Lies(h) /\ mch[h.cr] # h /\ h \notin retired
OwnedHidden == \A t \in Threads : \A k \in 1 .. Height(t) : Owns(Nth(t, k)) => Hidden(Nth(t, k).mch)
OwnedApart ==
    \A t, u \in Threads : \A k \in 1 .. Height(t), l \in 1 .. Height(u) :
        /\ Owns(Nth(t, k)) => Nth(u, l).cvalue # Nth(t, k).mch
        /\ Holds(Nth(t, k)) /\ Holds(Nth(u, l)) /\ Nth(t, k).mch = Nth(u, l).mch => t = u /\ k = l

\* Each operation has one owner.
OwnersApart ==
    \A t, u \in Threads : \A k \in 1 .. Height(t), l \in 1 .. Height(u) :
        Nth(t, k).kind = "own" /\ Nth(u, l).kind = "own" /\ Nth(t, k).cr[1] = Nth(u, l).cr[1] => t = u

\* The owner of an operation, if it runs still, has removed the helper of row r.
Removed(r) == \A t \in Threads : \A k \in 1 .. Height(t) :
                  Nth(t, k).kind = "own" /\ Nth(t, k).cr[1] = r[1]
                      => Nth(t, k).at = "remove" /\ r[2] < Nth(t, k).cr[2]
RetiredOK == \A h \in retired : mch[h.cr] # Null /\ (mch[h.cr] = h => Removed(h.cr))

HelperInv == /\ ShapeInv
             /\ AssociatedIsInstalled /\ FramesSeated
             /\ OwnedHidden /\ OwnedApart /\ OwnersApart
             /\ retired \subseteq Referenced /\ RetiredIsUnreachable /\ RetiredOK
-------------------------------------------------------------------------------
(* What a step of thread t does.                                            *)

Allocates(f) == f.mch \notin Referenced

\* What the activation g becomes.
Inherits(g, f) ==
    /\ f.kind = g.kind /\ f.cr[1] = g.cr[1]
    /\ Owns(f) => Owns(g) \/ Allocates(f)
    /\ IsHelper(f.cvalue) => f.cvalue = g.cvalue \/ Lies(f.cvalue)
    /\ f.kind = "read" => f.cvalue = g.cvalue
    /\ g.at = "remove" => f.at = "remove" /\ f.cr[2] >= g.cr[2]
    /\ f.at = "associate" =>
          \/ g.at = "associate" /\ f.mch = g.mch /\ Holds(g)
          \/ IsHelper(f.mch) /\ HelperOK(f.mch) /\ word'[Row(f.mch.cr).address] = f.mch
Carries(g, f) == Holds(f) => Holds(g) /\ f.mch = g.mch

\* An activation that is started.
Starts(f) ==
    /\ ~ Holds(f) /\ f.at # "associate"
    /\ IsHelper(f.cvalue) => Lies(f.cvalue)
    /\ f.kind = "own" => f.cr[1] = Len(desc) + 1
    /\ f.kind = "read" => word' = word /\ mch' = mch /\ desc' = desc

Evolves(t) ==
    /\ \A u \in Threads : u # t => stack'[u] = stack[u]
    /\ \A k \in 1 .. Height(t)' :
          IF k \in 1 .. Height(t)
          THEN /\ Inherits(Nth(t, k), Nth(t, k)')
               /\ Carries(Nth(t, k), Nth(t, k)') \/ (k = Height(t) /\ Allocates(Nth(t, k)'))
          ELSE Starts(Nth(t, k)')

\* The running activation gives its helper away, or forgets it.
Yields(t) == \A k \in 1 .. Height(t)' : k = Height(t) => ~ Owns(Nth(t, k)')
Drops(t) == \A k \in 1 .. Height(t)' : k = Height(t) => ~ Holds(Nth(t, k)')

\* Whoever takes a helper out of its word knows that its row is decided for good, or
\* takes the operation for done.
TakenOut(a) == IsHelper(word[a]) => \/ mch[word[a].cr] \notin {Null, word[a]}
                                    \/ Outcome(word[a].cr[1]) # Null
                                    \/ TakenForDone(a)

WordEffect(t) ==
    \A a \in Addresses : word'[a] # word[a] =>
        /\ mch' = mch /\ desc' = desc
        /\ \/ word'[a] \in Values
           \/ stack[t] # <<>> /\ Owns(Frame(t)) /\ word'[a] = Frame(t).mch /\ Yields(t)
        /\ TakenOut(a)
        /\ Logical(a)' = Logical(a) \/ TakenForDone(a)

MchEffect(t) ==
    \A r \in Rows : mch'[r] # mch[r] =>
        /\ word' = word /\ desc' = desc
        /\ IsHelper(mch'[r]) =>
              /\ Seated(mch'[r]) /\ stack[t] # <<>>
              /\ \/ mch'[r] = Frame(t).cvalue
                 \/ Frame(t).at = "associate" /\ Holds(Frame(t)) /\ mch'[r] = Frame(t).mch

\* The owner goes past the row of h.
Passes(t, h) ==
    /\ stack[t] # <<>> /\ Frame(t).kind = "own" /\ Frame(t).cr[1] = h.cr[1]
    /\ \A k \in 1 .. Height(t)' :
          Nth(t, k)'.kind = "own" => Nth(t, k)'.at = "remove" /\ h.cr[2] < Nth(t, k)'.cr[2]

RetireEffect(t, hs) ==
    \A h \in hs :
        /\ h \in Helpers /\ h \notin retired /\ mch'[h.cr] # Null
        /\ \A a \in Addresses : word'[a] # h
        /\ \/ stack[t] # <<>> /\ Holds(Frame(t)) /\ h = Frame(t).mch /\ Drops(t)
           \/ Lies(h)
           \/ mch[h.cr] = h
        /\ mch'[h.cr] = h => Passes(t, h)

Effect(t) == /\ Grows /\ Evolves(t) /\ WordEffect(t) /\ MchEffect(t)
             /\ \E hs \in SUBSET Helpers : RetireEffect(t, hs) /\ Deallocs(hs)
-------------------------------------------------------------------------------
(* An effect keeps HelperInv.                                               *)

\* An operation that is open was open before.
LEMMA OpenBefore ==
  ASSUME MemoryInv, MemoryInv', Grows, NEW r \in Rows, Live(r)
  PROVE  /\ Open(r[1])' => Open(r[1])
         /\ mch'[r] = Null => mch[r] = Null
<1>1. /\ Live(r)'
      /\ Outcome(r[1]) # Null => Outcome(r[1])' = Outcome(r[1])
      /\ SomeFailed(r[1]) => SomeFailed(r[1])'
      /\ mch[r] # Null => mch'[r] = mch[r]
  BY RowKept
<1>2. r[1] \in DOMAIN desc /\ r[1] \in DOMAIN desc'
  <2>1. DOMAIN desc = 1 .. Len(desc) /\ DOMAIN desc' = 1 .. Len(desc')
    BY LenProperties DEF MemoryInv
  <2>. QED BY <1>1, <2>1 DEF Live
<1>3. Undecided(r[1])' => Outcome(r[1])' = Null
  BY DEF Undecided, Outcome
<1>4. Outcome(r[1]) = Null => Undecided(r[1])
  BY <1>2 DEF Undecided, Outcome
<1>. QED BY <1>1, <1>3, <1>4 DEF Open

LEMMA SeatedKept ==
  ASSUME MemoryInv, MemoryInv', Grows, AssociatedIsInstalled, NEW t \in Threads,
         WordEffect(t), MchEffect(t)
  PROVE  /\ AssociatedIsInstalled'
         /\ \A h : IsHelper(h) /\ HelperOK(h) /\ Seated(h) => Seated(h)'
<1>1. ASSUME NEW h, IsHelper(h), HelperOK(h), Seated(h) PROVE Seated(h)'
  <2>1. h.cr \in Rows /\ Live(h.cr)
    BY <1>1, HelperTyped DEF HelperOK
  <2>. SUFFICES ASSUME mch'[h.cr] = Null, Open(h.cr[1])'
                PROVE  word'[Row(h.cr)'.address] = h
    BY DEF Seated
  <2>2. mch[h.cr] = Null /\ Open(h.cr[1]) /\ Row(h.cr)' = Row(h.cr) /\ Row(h.cr).address \in Addresses
    BY <2>1, OpenBefore, RowKept, RowTyped
  <2>3. word[Row(h.cr).address] = h
    BY <1>1, <2>2 DEF Seated
  <2>4. word'[Row(h.cr).address] = h
    <3>. SUFFICES ASSUME word'[Row(h.cr).address] # h PROVE FALSE
      OBVIOUS
    <3>1. TakenOut(Row(h.cr).address)
      BY <2>2, <2>3 DEF WordEffect
    <3>. QED BY <1>1, <2>2, <2>3, <3>1 DEF TakenOut, Open, Undecided, Outcome, TakenForDone
  <2>. QED BY <2>2, <2>4
<1>2. ASSUME NEW r \in Rows, Open(r[1])', IsHelper(mch[r])' PROVE word'[Row(r)'.address] = mch'[r]
  <2>1. PICK h : h = mch'[r]
    OBVIOUS
  <2>2. IsHelper(h) /\ h.cr = r /\ Live(r)' /\ h # Null
    BY <1>2, <2>1, HelperTyped DEF MemoryInv, MchOK, IsHelper
  <2>3. CASE mch[r] = h
    <3>1. Live(r) /\ Open(r[1]) /\ Row(r)' = Row(r) /\ Row(r).address \in Addresses
      <4>1. Live(r)
        BY <2>2, <2>3 DEF MemoryInv, MchOK
      <4>. QED BY <1>2, <4>1, OpenBefore, RowKept, RowTyped
    <3>2. word[Row(r).address] = h
      BY <2>2, <2>3, <3>1 DEF AssociatedIsInstalled
    <3>3. word'[Row(r).address] = h
      <4>. SUFFICES ASSUME word'[Row(r).address] # h PROVE FALSE
        OBVIOUS
      <4>1. TakenOut(Row(r).address)
        BY <3>1, <3>2 DEF WordEffect
      <4>. QED BY <2>2, <2>3, <3>1, <3>2, <4>1 DEF TakenOut, Open, Undecided, Outcome, TakenForDone
    <3>. QED BY <2>1, <3>1, <3>3
  <2>4. CASE mch[r] # h
    <3>1. word' = word /\ desc' = desc /\ Seated(h)
      BY <1>2, <2>1, <2>4, <2>2 DEF MchEffect
    <3>2. Live(r) /\ Row(r)' = Row(r)
      BY <2>2, <3>1 DEF Live, Row
    <3>3. mch[r] = Null /\ Open(r[1])
      BY <1>2, <2>1, <2>4, <3>2, OpenBefore DEF Grows
    <3>. QED BY <2>1, <2>2, <3>1, <3>2, <3>3 DEF Seated
  <2>. QED BY <2>3, <2>4
<1>. QED BY <1>1, <1>2 DEF AssociatedIsInstalled

\* Where the activations after the step come from.
LEMMA Origin ==
  ASSUME ShapeInv, NEW t \in Threads, Evolves(t), NEW u \in Threads, NEW k \in 1 .. Height(u)'
  PROVE  \/ /\ k \in 1 .. Height(u) /\ Inherits(Nth(u, k), Nth(u, k)')
            /\ Carries(Nth(u, k), Nth(u, k)') \/ (u = t /\ k = Height(t) /\ Allocates(Nth(u, k)'))
         \/ u = t /\ Starts(Nth(u, k)')
<1>1. CASE u = t
  BY <1>1 DEF Evolves
<1>2. CASE u # t
  <2>1. Height(u)' = Height(u) /\ Nth(u, k)' = Nth(u, k)
    BY <1>2 DEF Evolves, Height, Nth
  <2>2. PICK g : g = Nth(u, k)
    OBVIOUS
  <2>3. g \in Frames /\ FrameOK(g)
    BY <2>1, <2>2, FrameTyped
  <2>4. g.cr[2] >= g.cr[2]
    BY <2>3, MCasConstants DEF Frames, Rows, Addresses
  <2>5. g.at = "associate" => Holds(g)
    BY <2>3 DEF FrameOK, LabelOK, Holds, Placing
  <2>. QED BY <2>1, <2>2, <2>4, <2>5 DEF Inherits, Carries
<1>. QED BY <1>1, <1>2

LEMMA ReferencedIs ==
  ASSUME ShapeInv
  PROVE  /\ \A a \in Addresses : word[a] \in Referenced
         /\ \A r \in Rows : mch[r] \in Referenced
         /\ \A t \in Threads : \A k \in 1 .. Height(t) : Nth(t, k).mch \in Referenced /\ Nth(t, k).cvalue \in Referenced
<1>1. \A r \in Rows : mch[r] \in Referenced
  BY DEF Referenced, Range, ShapeInv, MemoryInv
<1>2. \A a \in Addresses : word[a] \in Referenced
  <2>1. DOMAIN word = Addresses
    BY DEF ShapeInv, MemoryInv
  <2>2. \A a \in Addresses : word[a] \in ToSet(word)
    BY <2>1 DEF ToSet
  <2>. QED BY <2>2 DEF Referenced
<1>3. ASSUME NEW t \in Threads, NEW k \in 1 .. Height(t)
      PROVE  Nth(t, k).mch \in Referenced /\ Nth(t, k).cvalue \in Referenced
  <2>1. Nth(t, k) \in ToSet(stack[t])
    BY AllFromEnd, FrameTyped DEF Nth, Height
  <2>2. Nth(t, k) \in UNION {ToSet(stack[u]) : u \in Threads}
    BY <2>1
  <2>. QED BY <2>2 DEF Referenced
<1>. QED BY <1>1, <1>2, <1>3
LEMMA FramesSeatedKept ==
  ASSUME HelperInv, ShapeInv', NEW t \in Threads, Effect(t)
  PROVE  AssociatedIsInstalled' /\ FramesSeated'
<1>1. /\ MemoryInv /\ MemoryInv' /\ Grows /\ AssociatedIsInstalled' /\ ShapeInv
      /\ \A h : IsHelper(h) /\ HelperOK(h) /\ Seated(h) => Seated(h)'
  BY SeatedKept DEF HelperInv, ShapeInv, Effect
<1>2. ASSUME NEW u \in Threads, NEW k \in 1 .. Height(u)' PROVE FrameSeated(Nth(u, k))'
  <2>1. PICK g, f : g = Nth(u, k) /\ f = Nth(u, k)'
    OBVIOUS
  <2>2. \/ k \in 1 .. Height(u) /\ Inherits(g, f)
        \/ Starts(f)
    BY <1>1, <2>1, Origin DEF Effect
  <2>3. k \in 1 .. Height(u) => FrameOK(g) /\ FrameSeated(g)
    BY <1>1, <2>1, FrameTyped DEF HelperInv, FramesSeated
  <2>4. \A h : IsHelper(h) /\ Lies(h) => HelperOK(h) /\ Seated(h)
    BY <1>1 DEF Lies, Seated, MemoryInv, WordOK
  <2>5. IsHelper(f.cvalue) => Seated(f.cvalue)'
    <3>. SUFFICES ASSUME IsHelper(f.cvalue) PROVE HelperOK(f.cvalue) /\ Seated(f.cvalue)
      BY <1>1
    <3>1. CASE Lies(f.cvalue)
      BY <2>4, <3>1
    <3>2. CASE k \in 1 .. Height(u) /\ f.cvalue = g.cvalue
      BY <2>3, <3>2 DEF FrameOK, FrameSeated
    <3>. QED BY <2>2, <3>1, <3>2 DEF Inherits, Starts
  <2>6. ASSUME f.at = "associate" PROVE Seated(f.mch)'
    <3>1. Inherits(g, f) /\ FrameOK(g) /\ FrameSeated(g)
      BY <2>2, <2>3, <2>6 DEF Starts
    <3>2. CASE g.at = "associate" /\ f.mch = g.mch /\ Holds(g)
      <4>1. IsHelper(f.mch) /\ HelperOK(f.mch) /\ Seated(f.mch)
        BY <3>1, <3>2 DEF FrameOK, FrameSeated, HelperOK
      <4>. QED BY <1>1, <4>1
    <3>3. CASE IsHelper(f.mch) /\ HelperOK(f.mch) /\ word'[Row(f.mch.cr).address] = f.mch
      <4>1. f.mch.cr \in Rows /\ Live(f.mch.cr)
        BY <3>3, HelperTyped DEF HelperOK
      <4>2. Row(f.mch.cr)' = Row(f.mch.cr)
        BY <1>1, <4>1, RowKept
      <4>. QED BY <3>3, <4>2 DEF Seated
    <3>. QED BY <2>6, <3>1, <3>2, <3>3 DEF Inherits
  <2>. QED BY <2>1, <2>5, <2>6 DEF FrameSeated, IsHelper
<1>. QED BY <1>1, <1>2 DEF FramesSeated

\* A helper that an activation owns or holds after the step was its own before, or
\* nothing referred to it.
LEMMA HoldsBefore ==
  ASSUME ShapeInv, NEW t \in Threads, Evolves(t), NEW u \in Threads, NEW k \in 1 .. Height(u)',
         Holds(Nth(u, k)')
  PROVE  LET f == Nth(u, k)'
             g == Nth(u, k)
         IN  /\ k \in 1 .. Height(u)
             /\ \/ Holds(g) /\ f.mch = g.mch /\ (Owns(f) => Owns(g) \/ Allocates(f))
                \/ u = t /\ k = Height(t) /\ Allocates(f)
<1>1. ~ Starts(Nth(u, k)')
  BY DEF Starts
<1>. QED BY <1>1, Origin DEF Inherits, Carries

LEMMA TopTyped ==
  ASSUME ShapeInv, NEW t \in Threads, stack[t] # <<>>
  PROVE  Height(t) \in 1 .. Height(t) /\ Frame(t) = Nth(t, Height(t))
BY TopIs

LEMMA OwnedHiddenKept ==
  ASSUME HelperInv, ShapeInv', NEW t \in Threads, Effect(t)
  PROVE  OwnedHidden'
<1>. SUFFICES ASSUME NEW u \in Threads, NEW k \in 1 .. Height(u)', Owns(Nth(u, k)')
              PROVE  Hidden(Nth(u, k).mch)'
  BY DEF OwnedHidden, Owns, Holds
<1>0. ShapeInv /\ Evolves(t) /\ WordEffect(t) /\ MchEffect(t)
  BY DEF HelperInv, Effect
<1>1. PICK g, f : g = Nth(u, k) /\ f = Nth(u, k)'
  OBVIOUS
<1>2. PICK h : h = f.mch
  OBVIOUS
<1>3. /\ k \in 1 .. Height(u)
      /\ \/ Holds(g) /\ h = g.mch /\ (Owns(g) \/ Allocates(f))
         \/ u = t /\ k = Height(t) /\ Allocates(f)
  BY <1>0, <1>1, <1>2, HoldsBefore DEF Owns
<1>4. IsHelper(h) /\ h.cr \in Rows
  <2>1. FrameOK(f)'
    <3>1. f \in Activations(stack[u])'
      BY <1>1 DEF Activations, Nth, Height
    <3>. QED BY <3>1 DEF ShapeInv, FramesOK
  <2>. QED BY <1>1, <1>2, <2>1, HelperTyped DEF FrameOK, Owns, Holds, IsHelper
<1>5. (k \in 1 .. Height(u) /\ Owns(g) /\ g.mch = h) \/ h \notin Referenced
  BY <1>1, <1>2, <1>3 DEF Allocates
<1>6. ~ Lies(h) /\ mch[h.cr] # h /\ h \notin retired
  <2>1. CASE Owns(g) /\ g.mch = h
    BY <1>1, <1>3, <2>1 DEF HelperInv, OwnedHidden, Hidden
  <2>2. CASE h \notin Referenced
    BY <1>0, <1>4, <2>2, ReferencedIs DEF HelperInv, Lies
  <2>. QED BY <1>5, <2>1, <2>2
<1>7. ASSUME stack[t] # <<>> PROVE h # Frame(t).cvalue
  <2>1. CASE Owns(g) /\ g.mch = h
    BY <1>0, <1>1, <1>3, <1>7, <2>1, TopTyped DEF HelperInv, OwnedApart
  <2>2. CASE h \notin Referenced
    BY <1>0, <1>7, <2>2, ReferencedIs, TopTyped
  <2>. QED BY <1>5, <2>1, <2>2
<1>8. ASSUME stack[t] # <<>>, Holds(Frame(t)), h = Frame(t).mch
      PROVE  u = t /\ k = Height(t) /\ g = Frame(t) /\ Owns(g)
  <2>1. CASE Owns(g) /\ g.mch = h
    <3>1. u = t /\ k = Height(t)
      BY <1>0, <1>1, <1>3, <1>8, <2>1, TopTyped DEF HelperInv, OwnedApart, Owns
    <3>. QED BY <1>0, <1>1, <1>8, <2>1, <3>1, TopTyped
  <2>2. CASE h \notin Referenced
    BY <1>0, <1>8, <2>2, ReferencedIs, TopTyped
  <2>. QED BY <1>5, <2>1, <2>2
<1>9. \A a \in Addresses : word'[a] # h
  <2>. SUFFICES ASSUME NEW a \in Addresses, word'[a] = h PROVE FALSE
    OBVIOUS
  <2>1. word'[a] # word[a]
    BY <1>6 DEF Lies
  <2>2. h \notin Values
    BY <1>4, HelperTyped
  <2>3. stack[t] # <<>> /\ Owns(Frame(t)) /\ h = Frame(t).mch /\ Yields(t)
    BY <1>0, <2>1, <2>2 DEF WordEffect
  <2>4. u = t /\ k = Height(t)
    BY <1>8, <2>3 DEF Owns
  <2>. QED BY <1>1, <2>3, <2>4 DEF Yields
<1>10. mch'[h.cr] # h
  <2>. SUFFICES ASSUME mch'[h.cr] = h PROVE FALSE
    OBVIOUS
  <2>1. /\ stack[t] # <<>>
        /\ h = Frame(t).cvalue \/ (Frame(t).at = "associate" /\ Holds(Frame(t)) /\ h = Frame(t).mch)
    BY <1>0, <1>4, <1>6 DEF MchEffect
  <2>. QED BY <1>7, <1>8, <2>1 DEF Owns
<1>11. h \notin retired'
  <2>1. PICK hs \in SUBSET Helpers : RetireEffect(t, hs) /\ Deallocs(hs)
    BY DEF Effect
  <2>. SUFFICES ASSUME h \in hs PROVE FALSE
    BY <1>6, <2>1 DEF Deallocs
  <2>2. stack[t] # <<>> /\ Holds(Frame(t)) /\ h = Frame(t).mch /\ Drops(t)
    BY <1>6, <2>1 DEF RetireEffect
  <2>3. u = t /\ k = Height(t)
    BY <1>8, <2>2
  <2>. QED BY <1>1, <2>2, <2>3 DEF Drops, Owns
<1>12. word' \in [Addresses -> Values \cup Helpers]
  BY DEF ShapeInv, MemoryInv
<1>. QED BY <1>1, <1>2, <1>9, <1>10, <1>11 DEF Hidden, Lies

LEMMA OwnedApartKept ==
  ASSUME HelperInv, ShapeInv', NEW t \in Threads, Effect(t)
  PROVE  OwnedApart'
<1>0. ShapeInv /\ Evolves(t)
  BY DEF HelperInv, Effect
<1>1. ASSUME NEW u \in Threads, NEW v \in Threads, NEW k \in 1 .. Height(u)', NEW l \in 1 .. Height(v)',
             Owns(Nth(u, k)')
      PROVE  Nth(v, l)'.cvalue # Nth(u, k)'.mch
  <2>. SUFFICES ASSUME Nth(v, l)'.cvalue = Nth(u, k)'.mch PROVE FALSE
    OBVIOUS
  <2>1. PICK g, f, e, d : g = Nth(u, k) /\ f = Nth(u, k)' /\ e = Nth(v, l) /\ d = Nth(v, l)'
    OBVIOUS
  <2>2. PICK h : h = f.mch
    OBVIOUS
  <2>3. k \in 1 .. Height(u) /\ ((Owns(g) /\ h = g.mch) \/ h \notin Referenced)
    BY <1>0, <1>1, <2>1, <2>2, HoldsBefore DEF Owns, Allocates
  <2>4. IsHelper(h)
    <3>1. f \in Activations(stack[u])'
      BY <2>1 DEF Activations, Nth, Height
    <3>2. FrameOK(f)'
      BY <3>1 DEF ShapeInv, FramesOK
    <3>. QED BY <1>1, <2>1, <2>2, <3>2 DEF FrameOK, Owns, Holds, IsHelper
  <2>5. ~ Lies(h)
    <3>1. Owns(g) /\ h = g.mch => ~ Lies(h)
      BY <2>1, <2>3 DEF HelperInv, OwnedHidden, Hidden
    <3>2. h \notin Referenced => ~ Lies(h)
      BY <1>0, ReferencedIs DEF Lies
    <3>. QED BY <2>3, <3>1, <3>2
  <2>6. l \in 1 .. Height(v) /\ h = e.cvalue
    BY <1>0, <2>1, <2>2, <2>4, <2>5, Origin DEF Inherits, Starts
  <2>7. h \in Referenced
    BY <1>0, <2>1, <2>6, ReferencedIs
  <2>. QED BY <2>1, <2>3, <2>6, <2>7 DEF HelperInv, OwnedApart
<1>2. ASSUME NEW u \in Threads, NEW v \in Threads, NEW k \in 1 .. Height(u)', NEW l \in 1 .. Height(v)',
             Holds(Nth(u, k)'), Holds(Nth(v, l)'), Nth(u, k)'.mch = Nth(v, l)'.mch
      PROVE  u = v /\ k = l
  <2>1. PICK g, f, e, d : g = Nth(u, k) /\ f = Nth(u, k)' /\ e = Nth(v, l) /\ d = Nth(v, l)'
    OBVIOUS
  <2>2. /\ k \in 1 .. Height(u) /\ l \in 1 .. Height(v)
        /\ (Holds(g) /\ f.mch = g.mch) \/ (u = t /\ k = Height(t) /\ Allocates(f))
        /\ (Holds(e) /\ d.mch = e.mch) \/ (v = t /\ l = Height(t) /\ Allocates(d))
    BY <1>0, <1>2, <2>1, HoldsBefore
  <2>3. g.mch \in Referenced /\ e.mch \in Referenced
    BY <1>0, <2>1, <2>2, ReferencedIs
  <2>4. f.mch = d.mch
    BY <1>2, <2>1
  <2>5. CASE Allocates(f)
    BY <2>2, <2>3, <2>4, <2>5 DEF Allocates
  <2>6. CASE ~ Allocates(f)
    <3>1. Holds(g) /\ Holds(e) /\ g.mch = e.mch
      BY <2>2, <2>4, <2>6 DEF Allocates
    <3>. QED BY <2>1, <2>2, <3>1 DEF HelperInv, OwnedApart
  <2>. QED BY <2>5, <2>6
<1>. QED BY <1>1, <1>2 DEF OwnedApart, Owns, Holds

LEMMA OwnersApartKept ==
  ASSUME HelperInv, ShapeInv', NEW t \in Threads, Effect(t)
  PROVE  OwnersApart'
<1>0. ShapeInv /\ Evolves(t)
  BY DEF HelperInv, Effect
<1>. SUFFICES ASSUME NEW u \in Threads, NEW v \in Threads,
                     NEW k \in 1 .. Height(u)', NEW l \in 1 .. Height(v)',
                     Nth(u, k)'.kind = "own", Nth(v, l)'.kind = "own",
                     Nth(u, k)'.cr[1] = Nth(v, l)'.cr[1]
              PROVE  u = v
  BY DEF OwnersApart
<1>1. ASSUME NEW w \in Threads, NEW i \in 1 .. Height(w)', Nth(w, i)'.kind = "own"
      PROVE  \/ /\ i \in 1 .. Height(w) /\ Nth(w, i).kind = "own"
                /\ Nth(w, i)'.cr[1] = Nth(w, i).cr[1] /\ Nth(w, i).cr[1] \in 1 .. Len(desc)
             \/ w = t /\ Nth(w, i)'.cr[1] = Len(desc) + 1
  <2>1. CASE i \in 1 .. Height(w) /\ Inherits(Nth(w, i), Nth(w, i)')
    <3>1. FrameOK(Nth(w, i))
      BY <1>0, <2>1, FrameTyped
    <3>. QED BY <1>1, <2>1, <3>1 DEF Inherits, FrameOK, Live
  <2>2. CASE w = t /\ Starts(Nth(w, i)')
    BY <1>1, <2>2 DEF Starts
  <2>. QED BY <1>0, <2>1, <2>2, Origin
<1>2. Len(desc) + 1 \notin 1 .. Len(desc)
  <2>1. Len(desc) \in Nat
    BY <1>0, LenProperties DEF ShapeInv, MemoryInv
  <2>. QED BY <2>1
<1>3. CASE k \in 1 .. Height(u) /\ Nth(u, k).kind = "own" /\ l \in 1 .. Height(v) /\ Nth(v, l).kind = "own"
            /\ Nth(u, k).cr[1] = Nth(v, l).cr[1]
  BY <1>3 DEF HelperInv, OwnersApart
<1>. QED BY <1>1, <1>2, <1>3

LEMMA RetiredKept ==
  ASSUME HelperInv, ShapeInv', NEW t \in Threads, Effect(t)
  PROVE  (retired \subseteq Referenced)' /\ RetiredIsUnreachable' /\ RetiredOK'
<1>0. /\ ShapeInv /\ MemoryInv /\ MemoryInv' /\ Evolves(t) /\ WordEffect(t) /\ MchEffect(t) /\ Grows
  BY DEF HelperInv, Effect, ShapeInv
<1>1. PICK hs \in SUBSET Helpers : RetireEffect(t, hs) /\ Deallocs(hs)
  BY DEF Effect
<1>2. retired' \subseteq Referenced' /\ retired' \subseteq retired \cup hs
  BY <1>1 DEF Deallocs
<1>3. twice' = {}
  BY <1>1 DEF Deallocs, RetireEffect, HelperInv, RetiredIsUnreachable
<1>4. ASSUME NEW a \in Addresses PROVE word'[a] \notin retired'
  <2>1. word'[a] \notin hs
    BY <1>1 DEF RetireEffect
  <2>2. word'[a] \notin retired
    <3>1. CASE word'[a] = word[a]
      BY <3>1 DEF HelperInv, RetiredIsUnreachable
    <3>2. CASE word'[a] \in Values
      <4>1. retired \subseteq Helpers
        BY <1>0 DEF ShapeInv, TypeOK
      <4>. QED BY <3>2, <4>1, HelperTyped DEF IsHelper
    <3>3. CASE stack[t] # <<>> /\ Owns(Frame(t)) /\ word'[a] = Frame(t).mch
      BY <1>0, <3>3, TopTyped DEF HelperInv, OwnedHidden, Hidden
    <3>. QED BY <1>0, <3>1, <3>2, <3>3 DEF WordEffect
  <2>. QED BY <1>2, <2>1, <2>2
<1>5. ASSUME NEW h \in retired' PROVE mch'[h.cr] # Null /\ (mch'[h.cr] = h => Removed(h.cr)')
  <2>0. h \in Helpers /\ h.cr \in Rows
    BY <1>5, HelperTyped DEF ShapeInv, TypeOK, IsHelper
  <2>1. CASE h \in hs
    <3>1. mch'[h.cr] # Null /\ (mch'[h.cr] = h => Passes(t, h))
      BY <1>1, <2>1 DEF RetireEffect
    <3>2. ASSUME Passes(t, h) PROVE Removed(h.cr)'
      <4>. SUFFICES ASSUME NEW u \in Threads, NEW k \in 1 .. Height(u)', Nth(u, k)'.kind = "own",
                           Nth(u, k)'.cr[1] = h.cr[1]
                    PROVE  Nth(u, k)'.at = "remove" /\ h.cr[2] < Nth(u, k)'.cr[2]
        BY DEF Removed
      <4>1. u = t
        <5>. SUFFICES ASSUME u # t PROVE FALSE
          OBVIOUS
        <5>1. Height(u)' = Height(u) /\ Nth(u, k)' = Nth(u, k)
          BY <1>0 DEF Evolves, Height, Nth
        <5>2. Height(t) \in 1 .. Height(t) /\ Nth(t, Height(t)).kind = "own"
              /\ Nth(t, Height(t)).cr[1] = h.cr[1]
          BY <1>0, <3>2, TopTyped DEF Passes
        <5>. QED BY <5>1, <5>2 DEF HelperInv, OwnersApart
      <4>. QED BY <3>2, <4>1 DEF Passes
    <3>. QED BY <3>1, <3>2
  <2>2. CASE h \in retired
    <3>1. mch[h.cr] # Null /\ (mch[h.cr] = h => Removed(h.cr))
      BY <2>2 DEF HelperInv, RetiredOK
    <3>2. mch'[h.cr] = mch[h.cr]
      BY <1>0, <2>0, <3>1 DEF Grows
    <3>3. ASSUME mch[h.cr] = h PROVE Removed(h.cr)'
      <4>. SUFFICES ASSUME NEW u \in Threads, NEW k \in 1 .. Height(u)', Nth(u, k)'.kind = "own",
                           Nth(u, k)'.cr[1] = h.cr[1]
                    PROVE  Nth(u, k)'.at = "remove" /\ h.cr[2] < Nth(u, k)'.cr[2]
        BY DEF Removed
      <4>1. PICK g, f : g = Nth(u, k) /\ f = Nth(u, k)'
        OBVIOUS
      <4>2. CASE k \in 1 .. Height(u) /\ Inherits(g, f)
        <5>1. g.at = "remove" /\ h.cr[2] < g.cr[2] /\ f.at = "remove" /\ f.cr[2] >= g.cr[2]
          BY <3>1, <3>3, <4>1, <4>2 DEF Removed, Inherits
        <5>2. h.cr[2] \in Nat /\ g.cr[2] \in Nat /\ f.cr[2] \in Nat
          <6>1. g \in Frames
            BY <1>0, <4>1, <4>2, FrameTyped
          <6>2. f \in Frames
            <7>1. stack'[u] \in Seq(Frames)
              BY DEF ShapeInv, TypeOK
            <7>. QED BY <4>1, <7>1, AllFromEnd DEF Nth, Height
          <6>. QED BY <2>0, <6>1, <6>2, MCasConstants DEF Frames, Rows, Addresses
        <5>. QED BY <4>1, <5>1, <5>2
      <4>3. CASE Starts(f)
        <5>1. f.cr[1] = Len(desc) + 1 /\ f.cr[1] = h.cr[1]
          BY <4>1, <4>3 DEF Starts
        <5>2. h.cr[1] \in 1 .. Len(desc) /\ Len(desc) \in Nat
          BY <1>0, <2>0, <3>3, LenProperties DEF MemoryInv, MchOK, IsHelper, Live
        <5>. QED BY <5>1, <5>2
      <4>. QED BY <1>0, <4>1, <4>2, <4>3, Origin
    <3>. QED BY <3>1, <3>2, <3>3
  <2>. QED BY <1>2, <2>1, <2>2
<1>6. RetiredOK'
  BY <1>5 DEF RetiredOK
<1>. QED BY <1>2, <1>3, <1>4, <1>6 DEF RetiredIsUnreachable

LEMMA EffectKeeps ==
  ASSUME HelperInv, ShapeInv', NEW t \in Threads, Effect(t)
  PROVE  HelperInv'
BY FramesSeatedKept, OwnedHiddenKept, OwnedApartKept, OwnersApartKept, RetiredKept DEF HelperInv
-------------------------------------------------------------------------------
(* What a step makes of the activations, by their places on the stack.      *)

LEMMA InheritsSame ==
  ASSUME NEW g \in Frames, FrameOK(g), NEW f \in Frames,
         f.kind = g.kind, f.cr = g.cr, f.mch = g.mch, f.cvalue = g.cvalue, f.at = g.at
  PROVE  Inherits(g, f) /\ Carries(g, f)
<1>1. f.cr[2] >= g.cr[2]
  BY MCasConstants DEF Frames, Rows, Addresses
<1>2. g.at = "associate" => Holds(g)
  BY DEF FrameOK, LabelOK, Holds, Placing
<1>. QED BY <1>1, <1>2 DEF Inherits, Carries, Owns, Holds

LEMMA Turned ==
  ASSUME ShapeInv, NEW t \in Threads, stack[t] # <<>>, NEW f \in Frames, Continue(t, f)
  PROVE  /\ \A u \in Threads : u # t => stack'[u] = stack[u]
         /\ Height(t)' = Height(t) /\ Height(t) \in 1 .. Height(t)
         /\ \A k \in 1 .. Height(t) : Nth(t, k)' = IF k = Height(t) THEN f ELSE Nth(t, k)
<1>1. PICK s, n, b : s = stack[t] /\ n = Len(s) /\ b = Tail(s)
  OBVIOUS
<1>2. s \in Seq(Frames) /\ s # <<>> /\ stack' = [stack EXCEPT ![t] = <<f>> \o b]
  BY <1>1, FrameTyped DEF Continue
<1>3. /\ n \in Nat /\ n >= 1 /\ b \in Seq(Frames) /\ Len(b) = n - 1
      /\ \A k \in 1 .. n - 1 : FromEnd(b, k) = FromEnd(s, k)
  BY <1>1, <1>2, PopFromEnd
<1>4. PICK z : z = <<f>> \o b
  OBVIOUS
<1>5. Len(z) = n /\ FromEnd(z, n) = f /\ \A k \in 1 .. n - 1 : FromEnd(z, k) = FromEnd(s, k)
  <2>1. /\ Len(z) = Len(b) + 1 /\ FromEnd(z, Len(z)) = f
        /\ \A k \in 1 .. Len(b) : FromEnd(z, k) = FromEnd(b, k)
    BY <1>3, <1>4, PushFromEnd
  <2>2. Len(z) = n
    BY <1>3, <2>1
  <2>. QED BY <1>3, <2>1, <2>2
<1>6. stack'[t] = z /\ \A u \in Threads : u # t => stack'[u] = stack[u]
  BY <1>2, <1>4 DEF ShapeInv, TypeOK
<1>7. \A k \in 1 .. n : k = n \/ k \in 1 .. n - 1
  BY <1>3
<1>8. n \in 1 .. n
  BY <1>3
<1>. QED BY <1>1, <1>5, <1>6, <1>7, <1>8 DEF Height, Nth

LEMMA TurnEvolves ==
  ASSUME ShapeInv, NEW t \in Threads, stack[t] # <<>>, NEW f \in Frames, Continue(t, f),
         Inherits(Frame(t), f), Carries(Frame(t), f) \/ Allocates(f)
  PROVE  Evolves(t) /\ (~ Owns(f) => Yields(t)) /\ (~ Holds(f) => Drops(t))
<1>1. /\ \A u \in Threads : u # t => stack'[u] = stack[u]
      /\ Height(t)' = Height(t) /\ Height(t) \in 1 .. Height(t)
      /\ \A k \in 1 .. Height(t) : Nth(t, k)' = IF k = Height(t) THEN f ELSE Nth(t, k)
  BY Turned
<1>2. Frame(t) = Nth(t, Height(t))
  BY TopTyped
<1>3. \A k \in 1 .. Height(t) : Inherits(Nth(t, k), Nth(t, k)) /\ Carries(Nth(t, k), Nth(t, k))
  <2>. TAKE k \in 1 .. Height(t)
  <2>1. Nth(t, k) \in Frames /\ FrameOK(Nth(t, k))
    BY FrameTyped
  <2>. QED BY <2>1, InheritsSame
<1>4. Evolves(t)
  BY <1>1, <1>2, <1>3 DEF Evolves
<1>. QED BY <1>1, <1>4 DEF Yields, Drops

\* The loop of invoke_mcas or help_complete goes to a row of the same operation.
LEMMA NextRowTyped ==
  ASSUME MemoryInv, NEW e \in Frames, Live(e.cr), NEW f, f = NextRow(e)
  PROVE  /\ f \in Frames /\ f.kind = e.kind /\ f.cr[1] = e.cr[1] /\ f.cvalue = e.cvalue /\ f.mch = e.mch
         /\ f.at \in {"next", "end"}
<1>1. e.cr \in Rows
  BY DEF Frames
<1>2. CASE e.cr = LastRow(e.cr)
  BY <1>2 DEF NextRow, Frames, Labels
<1>3. CASE e.cr # LastRow(e.cr)
  <2>1. PICK r : r = <<e.cr[1], e.cr[2] + 1>>
    OBVIOUS
  <2>2. f = [e EXCEPT !.cr = r, !.at = "next"]
    BY <1>3, <2>1 DEF NextRow
  <2>3. r \in Rows
    <3>1. /\ e.cr = <<e.cr[1], e.cr[2]>> /\ e.cr[2] \in Nat /\ e.cr[2] <= LastRow(e.cr)[2]
          /\ LastRow(e.cr)[2] = Len(desc[e.cr[1]]) /\ Len(desc[e.cr[1]]) \in Nat
          /\ LastRow(e.cr) = <<e.cr[1], Len(desc[e.cr[1]])>>
      BY <1>1, RowTyped DEF LastRow
    <3>2. e.cr[2] # Len(desc[e.cr[1]])
      BY <1>3, <3>1
    <3>3. e.cr[2] + 1 \in 1 .. Len(desc[e.cr[1]])
      BY <3>1, <3>2
    <3>. QED BY <1>1, <2>1, <3>3, RowTyped
  <2>4. f \in Frames /\ f.kind = e.kind /\ f.cr = r /\ f.cvalue = e.cvalue /\ f.mch = e.mch /\ f.at = "next"
    BY <2>2, <2>3 DEF Frames, Labels
  <2>. QED BY <2>1, <2>4
<1>. QED BY <1>2, <1>3

\* place_mcas_helper returns.
LEMMA ReturnEvolves ==
  ASSUME ShapeInv, NEW t \in Threads, stack[t] # <<>>, PlaceReturns(t),
         Frame(t).at \in Placing, Frame(t).kind # "read"
  PROVE  Evolves(t) /\ Yields(t) /\ Drops(t)
<1>1. PICK c : c = Frame(t)
  OBVIOUS
<1>2. c \in Frames /\ FrameOK(c) /\ c.at \in Placing /\ c.cr \in Rows /\ Live(c.cr)
  BY <1>1, TopIs
<1>3. PICK e : e = [c EXCEPT !.mch = Null, !.cvalue = Null, !.tries = 0]
  OBVIOUS
<1>4. e \in Frames /\ e.kind = c.kind /\ e.cr = c.cr /\ e.cvalue = Null /\ e.mch = Null
  <2>1. 0 \in 0 .. MaxFail + 1
    BY MCasConstants
  <2>. QED BY <1>2, <1>3, <2>1 DEF Frames
<1>5. PICK f : f = IF e.kind = "help" THEN [e EXCEPT !.at = "check"] ELSE NextRow(e)
  OBVIOUS
<1>6. Continue(t, f)
  BY <1>1, <1>3, <1>5 DEF PlaceReturns
<1>7. /\ f \in Frames /\ f.kind = c.kind /\ f.cr[1] = c.cr[1] /\ f.cvalue = Null
      /\ f.at \in {"check", "next", "end"}
  <2>1. CASE e.kind = "help"
    BY <1>4, <1>5, <2>1 DEF Frames, Labels
  <2>2. CASE e.kind # "help"
    <3>1. MemoryInv /\ Live(e.cr)
      BY <1>2, <1>4 DEF ShapeInv
    <3>. QED BY <1>4, <1>5, <2>2, <3>1, NextRowTyped
  <2>. QED BY <2>1, <2>2
<1>8. c.kind # "read"
  BY <1>1
<1>. QED BY <1>1, <1>2, <1>6, <1>7, <1>8, HelperTyped, TurnEvolves
     DEF Inherits, Carries, Owns, Holds, Placing

\* It asks help_complete.
LEMMA HelpEvolves ==
  ASSUME ShapeInv, NEW t \in Threads, NEW f \in Frames, NEW r \in Rows, Help(t, f, r),
         (stack[t] # <<>> /\ Inherits(Frame(t), f) /\ Carries(Frame(t), f)) \/ (stack[t] = <<>> /\ Starts(f))
  PROVE  Evolves(t)
<1>1. PICK b, n : b = Below(t) /\ n = Len(b)
  OBVIOUS
<1>2. /\ b \in Seq(Frames) /\ n \in Nat
      /\ Height(t) = IF stack[t] = <<>> THEN 0 ELSE n + 1
      /\ stack[t] = <<>> => n = 0
      /\ \A k \in 1 .. n : Nth(t, k) = FromEnd(b, k) /\ k \in 1 .. Height(t)
  <2>1. stack[t] \in Seq(Frames) /\ Height(t) = Len(stack[t])
    BY FrameTyped DEF Height
  <2>2. CASE stack[t] = <<>>
    <3>1. b = <<>> /\ n = 0 /\ Height(t) = 0
      BY <1>1, <2>1, <2>2 DEF Below
    <3>. QED BY <2>2, <3>1
  <2>3. CASE stack[t] # <<>>
    <3>1. /\ Height(t) \in Nat /\ b \in Seq(Frames) /\ n = Height(t) - 1
          /\ \A k \in 1 .. Height(t) - 1 : FromEnd(b, k) = Nth(t, k)
      BY <1>1, <2>1, <2>3, PopFromEnd DEF Below, Nth
    <3>2. n \in Nat /\ Height(t) = n + 1
      <4>1. n \in Nat
        BY <1>1, <3>1, LenProperties
      <4>. QED BY <3>1, <4>1
    <3>3. \A k \in 1 .. n : k \in 1 .. Height(t)
      BY <3>2
    <3>. QED BY <2>3, <3>1, <3>2, <3>3
  <2>. QED BY <2>2, <2>3
<1>3. \A k \in 1 .. n : Inherits(Nth(t, k), Nth(t, k)) /\ Carries(Nth(t, k), Nth(t, k))
  <2>. TAKE k \in 1 .. n
  <2>1. Nth(t, k) \in Frames /\ FrameOK(Nth(t, k))
    BY <1>2, FrameTyped
  <2>. QED BY <2>1, InheritsSame
<1>4. stack[t] # <<>> => Frame(t) = Nth(t, n + 1) /\ n + 1 \in 1 .. Height(t)
  BY <1>2, TopTyped
<1>5. \A u \in Threads : u # t => stack'[u] = stack[u]
  BY DEF Help, ShapeInv, TypeOK
<1>6. CASE depth[t] + 1 >= NThreads
  <2>1. PICK e : e = [f EXCEPT !.res = -1]
    OBVIOUS
  <2>2. /\ e \in Frames /\ e.kind = f.kind /\ e.cr = f.cr /\ e.at = f.at /\ e.mch = f.mch
        /\ e.cvalue = f.cvalue
    BY <2>1 DEF Frames
  <2>3. PICK z : z = <<e>> \o b
    OBVIOUS
  <2>4. stack'[t] = z
    BY <1>1, <1>6, <2>1, <2>3 DEF Help, ShapeInv, TypeOK
  <2>5. Len(z) = n + 1 /\ FromEnd(z, n + 1) = e /\ \A k \in 1 .. n : FromEnd(z, k) = FromEnd(b, k)
    <3>1. /\ Len(z) = Len(b) + 1 /\ FromEnd(z, Len(z)) = e
          /\ \A k \in 1 .. Len(b) : FromEnd(z, k) = FromEnd(b, k)
      BY <1>2, <2>2, <2>3, PushFromEnd
    <3>. QED BY <1>1, <3>1
  <2>6. Height(t)' = n + 1 /\ Nth(t, n + 1)' = e /\ \A k \in 1 .. n : Nth(t, k)' = Nth(t, k)
    <3>1. Height(t)' = Len(z) /\ \A k \in 1 .. n : Nth(t, k)' = FromEnd(z, k)
      BY <2>4 DEF Height, Nth
    <3>2. Nth(t, n + 1)' = FromEnd(z, n + 1)
      BY <2>4 DEF Nth
    <3>. QED BY <1>2, <2>5, <3>1, <3>2
  <2>7. /\ stack[t] # <<>> => Inherits(Frame(t), e) /\ Carries(Frame(t), e)
        /\ stack[t] = <<>> => Starts(e)
    BY <2>2 DEF Inherits, Carries, Starts, Owns, Holds, Allocates
  <2>8. \A k \in 1 .. n + 1 : k = n + 1 \/ k \in 1 .. n
    BY <1>2
  <2>9. stack[t] = <<>> => n + 1 \notin 1 .. Height(t)
    BY <1>2
  <2>. QED BY <1>2, <1>3, <1>4, <1>5, <2>6, <2>7, <2>8, <2>9 DEF Evolves
<1>7. CASE ~ (depth[t] + 1 >= NThreads)
  <2>1. PICK g : g = Activation("help", r, "next")
    OBVIOUS
  <2>2. g \in Frames /\ g.kind = "help" /\ g.at = "next" /\ g.cvalue = Null
    <3>1. 0 \in 0 .. MaxFail + 1
      BY MCasConstants
    <3>. QED BY <2>1, <3>1 DEF Activation, Frames, Labels
  <2>3. PICK z : z = <<g, f>> \o b
    OBVIOUS
  <2>4. stack'[t] = z
    BY <1>1, <1>7, <2>1, <2>3 DEF Help, ShapeInv, TypeOK
  <2>5. /\ Len(z) = n + 2 /\ FromEnd(z, n + 2) = g /\ FromEnd(z, n + 1) = f
        /\ \A k \in 1 .. n : FromEnd(z, k) = FromEnd(b, k)
    <3>1. /\ Len(z) = Len(b) + 2 /\ FromEnd(z, Len(z)) = g /\ FromEnd(z, Len(b) + 1) = f
          /\ \A k \in 1 .. Len(b) : FromEnd(z, k) = FromEnd(b, k)
      BY <1>2, <2>2, <2>3, PushTwoFromEnd
    <3>. QED BY <1>1, <3>1
  <2>6. /\ Height(t)' = n + 2 /\ Nth(t, n + 2)' = g /\ Nth(t, n + 1)' = f
        /\ \A k \in 1 .. n : Nth(t, k)' = Nth(t, k)
    <3>1. Height(t)' = Len(z) /\ \A k \in 1 .. n : Nth(t, k)' = FromEnd(z, k)
      BY <2>4 DEF Height, Nth
    <3>2. Nth(t, n + 1)' = FromEnd(z, n + 1) /\ Nth(t, n + 2)' = FromEnd(z, n + 2)
      BY <2>4 DEF Nth
    <3>. QED BY <1>2, <2>5, <3>1, <3>2
  <2>7. Starts(g)
    BY <2>2, HelperTyped DEF Starts, Holds, Placing
  <2>8. \A k \in 1 .. n + 2 : k = n + 2 \/ k = n + 1 \/ k \in 1 .. n
    BY <1>2
  <2>9. (stack[t] = <<>> => n + 1 \notin 1 .. Height(t)) /\ n + 2 \notin 1 .. Height(t)
    BY <1>2
  <2>. QED BY <1>2, <1>3, <1>4, <1>5, <2>6, <2>7, <2>8, <2>9 DEF Evolves
<1>. QED BY <1>6, <1>7

LEMMA HelpReturnEvolves ==
  ASSUME ShapeInv, NEW t \in Threads, HelpReturns(t)
  PROVE  Evolves(t)
<1>1. PICK s, n, b : s = stack[t] /\ n = Len(s) /\ b = Tail(s)
  OBVIOUS
<1>2. PICK x : x = IF mch[LastRow(Frame(t).cr)] # Fail THEN 0 ELSE 1
  OBVIOUS
<1>3. /\ s \in Seq(Frames) /\ s # <<>> /\ StackOK(s, depth[t]) /\ depth[t] \in Nat
      /\ Head(s).kind = "help" /\ x \in {-1, 0, 1}
  BY <1>1, <1>2, FrameTyped DEF HelpReturns, At, Frame
<1>4. s[2] \in Frames /\ s[2] = FromEnd(s, n - 1) /\ n - 1 \in 1 .. n
  BY <1>1, <1>3, ReturnsHelp
<1>5. /\ n \in Nat /\ b \in Seq(Frames) /\ Len(b) = n - 1
      /\ \A k \in 1 .. n - 1 : FromEnd(b, k) = FromEnd(s, k)
  BY <1>1, <1>3, PopFromEnd
<1>6. b # <<>>
  <2>1. Len(b) # 0
    BY <1>4, <1>5
  <2>. QED BY <2>1
<1>7. PICK d : d = Tail(b)
  OBVIOUS
<1>8. /\ d \in Seq(Frames) /\ Len(d) = n - 2
      /\ \A k \in 1 .. n - 2 : FromEnd(d, k) = FromEnd(s, k)
  <2>1. d \in Seq(Frames) /\ Len(d) = Len(b) - 1 /\ \A k \in 1 .. Len(b) - 1 : FromEnd(d, k) = FromEnd(b, k)
    BY <1>5, <1>6, <1>7, PopFromEnd
  <2>2. Len(b) - 1 = n - 2 /\ \A k \in 1 .. n - 2 : k \in 1 .. n - 1
    BY <1>5
  <2>. QED BY <1>5, <2>1, <2>2
<1>9. PICK g, f : g = s[2] /\ f = [s[2] EXCEPT !.res = x]
  OBVIOUS
<1>10. /\ g \in Frames /\ f \in Frames /\ f.kind = g.kind /\ f.cr = g.cr /\ f.at = g.at /\ f.mch = g.mch
       /\ f.cvalue = g.cvalue
  BY <1>3, <1>4, <1>9 DEF Frames
<1>11. PICK z : z = <<f>> \o d
  OBVIOUS
<1>12. Len(z) = n - 1 /\ FromEnd(z, n - 1) = f /\ \A k \in 1 .. n - 2 : FromEnd(z, k) = FromEnd(s, k)
  <2>1. /\ Len(z) = Len(d) + 1 /\ FromEnd(z, Len(z)) = f
        /\ \A k \in 1 .. Len(d) : FromEnd(z, k) = FromEnd(d, k)
    BY <1>8, <1>10, <1>11, PushFromEnd
  <2>2. Len(d) + 1 = n - 1
    BY <1>5, <1>8
  <2>. QED BY <1>8, <2>1, <2>2
<1>13. stack'[t] = z /\ \A u \in Threads : u # t => stack'[u] = stack[u]
  BY <1>1, <1>2, <1>7, <1>9, <1>11 DEF HelpReturns, ShapeInv, TypeOK
<1>14. \A k \in 1 .. n : Nth(t, k) \in Frames /\ FrameOK(Nth(t, k)) /\ Nth(t, k) = FromEnd(s, k)
  BY <1>1, FrameTyped DEF Nth, Height
<1>15. Inherits(g, f) /\ Carries(g, f)
  <2>1. FrameOK(g)
    BY <1>4, <1>9, <1>14
  <2>. QED BY <1>10, <2>1, InheritsSame
<1>16. \A k \in 1 .. n : Inherits(Nth(t, k), Nth(t, k)) /\ Carries(Nth(t, k), Nth(t, k))
  BY <1>14, InheritsSame
<1>17. \A k \in 1 .. n - 1 : k \in 1 .. n /\ (k = n - 1 \/ k \in 1 .. n - 2)
  BY <1>5
<1>18. /\ Height(t) = n /\ Height(t)' = n - 1 /\ n - 1 \in 1 .. n
       /\ \A k \in 1 .. n - 1 : Nth(t, k)' = FromEnd(z, k)
  BY <1>1, <1>4, <1>12, <1>13 DEF Height, Nth
<1>. QED BY <1>4, <1>9, <1>12, <1>13, <1>14, <1>15, <1>16, <1>17, <1>18 DEF Evolves
-------------------------------------------------------------------------------
(* Every action has an effect.                                              *)

\* Words and rows stay as they are, and nothing is given to limbo.
LEMMA Quiet ==
  ASSUME NEW t \in Threads, word' = word, mch' = mch, Grows, Evolves(t), Deallocs({})
  PROVE  Effect(t)
<1>1. {} \in SUBSET Helpers /\ RetireEffect(t, {})
  BY DEF RetireEffect
<1>. QED BY <1>1 DEF Effect, WordEffect, MchEffect

LEMMA QuietTurn ==
  ASSUME ShapeInv, NEW t \in Threads, stack[t] # <<>>, NEW f \in Frames, Continue(t, f),
         word' = word, mch' = mch, desc' = desc, Deallocs({}),
         Inherits(Frame(t), f), Carries(Frame(t), f) \/ Allocates(f)
  PROVE  Effect(t)
<1>1. Grows
  BY DEF Grows, ShapeInv, MemoryInv
<1>. QED BY <1>1, TurnEvolves, Quiet

\* An activation that keeps its row, and its helper if it holds one.
LEMMA InheritsRow ==
  ASSUME NEW g \in Frames, NEW f \in Frames, f.kind = g.kind, f.cr = g.cr, f.mch = g.mch,
         f.cvalue = g.cvalue \/ (Lies(f.cvalue) /\ f.kind # "read") \/ (~ IsHelper(f.cvalue) /\ f.kind # "read"),
         Holds(f) => Holds(g), Owns(f) => Owns(g), f.at # "associate", g.at # "remove"
  PROVE  Inherits(g, f) /\ Carries(g, f)
BY DEF Inherits, Carries

LEMMA AssistEffect ==
  ASSUME HelperInv, NEW t \in Threads, Assist(t)
  PROVE  Effect(t)
<1>1. PICK c : c = Frame(t)
  OBVIOUS
<1>2. /\ ShapeInv /\ MemoryInv /\ stack[t] # <<>> /\ c \in Frames /\ c.at = "assist" /\ c.kind = "own"
  BY <1>1, TopIs DEF Assist, At, FrameOK, LabelOK, HelperInv, ShapeInv
<1>3. PICK f : f = [c EXCEPT !.at = "next"]
  OBVIOUS
<1>4. /\ f \in Frames /\ f.kind = c.kind /\ f.cr = c.cr /\ f.cvalue = c.cvalue /\ f.at = "next" /\ f.mch = c.mch
  BY <1>2, <1>3 DEF Frames, Labels
<1>5. Inherits(c, f) /\ Carries(c, f)
  BY <1>2, <1>4, InheritsRow DEF Holds, Owns, Placing
<1>6. word' = word /\ mch' = mch /\ desc' = desc /\ Deallocs({})
  BY DEF Assist, memory, caller
<1>7. CASE pending[checkId[t]] = Null
  <2>1. Continue(t, f)
    BY <1>1, <1>3, <1>7 DEF Assist
  <2>. QED BY <1>1, <1>2, <1>4, <1>5, <1>6, <2>1, QuietTurn
<1>8. CASE pending[checkId[t]] # Null
  <2>1. PICK r : r = pending[checkId[t]]
    OBVIOUS
  <2>2. r \in Rows
    <3>1. checkId[t] \in Threads
      BY <1>2 DEF MemoryInv
    <3>. QED BY <1>2, <1>8, <2>1, <3>1 DEF MemoryInv
  <2>3. Help(t, f, r)
    BY <1>1, <1>3, <1>8, <2>1 DEF Assist
  <2>4. Evolves(t)
    BY <1>1, <1>2, <1>4, <1>5, <2>2, <2>3, HelpEvolves
  <2>5. Grows
    BY <1>2, <1>6 DEF Grows, MemoryInv
  <2>. QED BY <1>6, <2>4, <2>5, Quiet
<1>. QED BY <1>7, <1>8

LEMMA NextPlaceEffect ==
  ASSUME HelperInv, NEW t \in Threads, NextPlace(t)
  PROVE  Effect(t)
<1>1. PICK c : c = Frame(t)
  OBVIOUS
<1>2. /\ ShapeInv /\ stack[t] # <<>> /\ c \in Frames /\ c.at = "next" /\ c.kind # "read" /\ c.cr \in Rows
      /\ c.cvalue = Null
  BY <1>1, TopIs DEF NextPlace, InPlace, At, FrameOK, LabelOK, Placing, HelperInv
<1>3. word' = word /\ mch' = mch /\ desc' = desc /\ Deallocs({})
  BY DEF NextPlace, memory, caller
<1>4. CASE mch[LastRow(c.cr)] = Null
  <2>1. PICK f : f = [c EXCEPT !.mch = NewHelper(c.cr), !.at = "load"]
    OBVIOUS
  <2>2. Fresh(c.cr) # {} /\ Continue(t, f)
    BY <1>1, <1>4, <2>1 DEF NextPlace
  <2>3. NewHelper(c.cr) \in Helpers /\ NewHelper(c.cr) \notin Referenced
    BY <1>2, <2>2, NewHelperTyped
  <2>4. /\ f \in Frames /\ f.kind = c.kind /\ f.cr = c.cr /\ f.cvalue = c.cvalue /\ f.at = "load"
        /\ f.mch = NewHelper(c.cr)
    BY <1>2, <2>1, <2>3 DEF Frames, Labels
  <2>5. Inherits(c, f) /\ Allocates(f)
    BY <1>2, <2>3, <2>4 DEF Inherits, Allocates
  <2>. QED BY <1>1, <1>2, <1>3, <2>2, <2>4, <2>5, QuietTurn
<1>5. CASE mch[LastRow(c.cr)] # Null
  <2>1. PICK f : f = [c EXCEPT !.at = "end"]
    OBVIOUS
  <2>2. Continue(t, f)
    BY <1>1, <1>5, <2>1 DEF NextPlace
  <2>3. f \in Frames /\ f.kind = c.kind /\ f.cr = c.cr /\ f.cvalue = c.cvalue /\ f.at = "end" /\ f.mch = c.mch
    BY <1>2, <2>1 DEF Frames, Labels
  <2>4. Inherits(c, f) /\ Carries(c, f)
    BY <1>2, <2>3, InheritsRow DEF Holds, Owns, Placing
  <2>. QED BY <1>1, <1>2, <1>3, <2>2, <2>3, <2>4, QuietTurn
<1>. QED BY <1>4, <1>5

LEMMA LoadEffect ==
  ASSUME HelperInv, NEW t \in Threads, Load(t)
  PROVE  Effect(t)
<1>1. PICK c : c = Frame(t)
  OBVIOUS
<1>2. /\ ShapeInv /\ MemoryInv /\ stack[t] # <<>> /\ c \in Frames /\ c.at = "load" /\ c.kind # "read"
      /\ c.cr \in Rows /\ Live(c.cr)
  BY <1>1, TopIs DEF Load, At, FrameOK, LabelOK, HelperInv, ShapeInv
<1>3. word' = word /\ mch' = mch /\ desc' = desc /\ Deallocs({})
  BY DEF Load, memory, caller
<1>4. PICK v : v = word[Row(c.cr).address]
  OBVIOUS
<1>5. v \in Values \cup Helpers /\ Lies(v)
  <2>1. Row(c.cr).address \in Addresses
    BY <1>2, RowTyped
  <2>. QED BY <1>2, <1>4, <2>1 DEF MemoryInv, Lies
<1>6. PICK f : f = [c EXCEPT !.cvalue = v, !.at = "loop"]
  OBVIOUS
<1>7. f \in Frames /\ f.kind = c.kind /\ f.cr = c.cr /\ f.cvalue = v /\ f.at = "loop" /\ f.mch = c.mch
  BY <1>2, <1>5, <1>6 DEF Frames, Labels
<1>8. Inherits(c, f) /\ Carries(c, f)
  BY <1>2, <1>5, <1>7, InheritsRow DEF Holds, Owns, Placing
<1>9. Continue(t, f)
  BY <1>1, <1>4, <1>6 DEF Load
<1>. QED BY <1>1, <1>2, <1>3, <1>7, <1>8, <1>9, QuietTurn

\* place_mcas_helper returns and gives its own helper to limbo: it was never installed.
LEMMA GivesUp ==
  ASSUME HelperInv, MemoryInv', NEW t \in Threads, stack[t] # <<>>, PlaceReturns(t),
         Owns(Frame(t)), Grows, word' = word, MchEffect(t), mch'[Frame(t).cr] # Null,
         Deallocs({Frame(t).mch})
  PROVE  Effect(t)
<1>1. PICK c, h : c = Frame(t) /\ h = c.mch
  OBVIOUS
<1>2. /\ ShapeInv /\ c \in Frames /\ FrameOK(c) /\ Owns(c) /\ Holds(c) /\ IsHelper(h) /\ h.cr = c.cr
      /\ c.at \in Placing /\ c.kind # "read" /\ Height(t) \in 1 .. Height(t) /\ c = Nth(t, Height(t))
  BY <1>1, TopIs, TopTyped DEF HelperInv, Owns, Holds, FrameOK
<1>3. Evolves(t) /\ Yields(t) /\ Drops(t)
  BY <1>1, <1>2, ReturnEvolves
<1>4. ~ Lies(h) /\ mch[h.cr] # h /\ h \notin retired /\ h # c.cvalue
  BY <1>1, <1>2 DEF HelperInv, OwnedHidden, Hidden, OwnedApart
<1>5. mch'[h.cr] # h
  <2>1. c.at # "associate" /\ h.cr \in Rows
    BY <1>2, HelperTyped DEF Owns
  <2>. QED BY <1>1, <1>2, <1>4, <2>1 DEF MchEffect
<1>6. RetireEffect(t, {h})
  BY <1>1, <1>2, <1>3, <1>4, <1>5 DEF RetireEffect, Lies, IsHelper
<1>7. WordEffect(t) /\ {h} \in SUBSET Helpers
  BY <1>2 DEF WordEffect, IsHelper
<1>. QED BY <1>1, <1>3, <1>6, <1>7 DEF Effect

LEMMA LoopEffect ==
  ASSUME HelperInv, MemoryInv', NEW t \in Threads, Loop(t)
  PROVE  Effect(t)
<1>1. PICK c : c = Frame(t)
  OBVIOUS
<1>2. /\ ShapeInv /\ MemoryInv /\ stack[t] # <<>> /\ c \in Frames /\ c.at = "loop" /\ c.kind # "read"
  BY <1>1, TopIs DEF Loop, At, FrameOK, LabelOK, HelperInv, ShapeInv
<1>3. word' = word /\ mch' = mch /\ desc' = desc
  BY DEF Loop, memory, caller
<1>4. Owns(c)
  BY <1>2 DEF Owns, Holds, Placing
<1>5. CASE mch[c.cr] # Null
  <2>1. PlaceReturns(t) /\ Deallocs({c.mch}) /\ Grows /\ MchEffect(t)
    BY <1>1, <1>2, <1>3, <1>5 DEF Loop, Grows, MemoryInv, MchEffect
  <2>. QED BY <1>1, <1>2, <1>3, <1>4, <1>5, <2>1, GivesUp
<1>6. CASE mch[c.cr] = Null
  <2>1. PICK x : x = IF c.tries # MaxFail THEN "try" ELSE IF depth[t] > 0 THEN "fail" ELSE "announce"
    OBVIOUS
  <2>2. PICK n : n = IF c.tries > MaxFail THEN c.tries ELSE c.tries + 1
    OBVIOUS
  <2>3. n \in 0 .. MaxFail + 1 /\ x \in {"try", "fail", "announce"}
    <3>1. c.tries \in 0 .. MaxFail + 1
      BY <1>2 DEF Frames
    <3>. QED BY <2>1, <2>2, <3>1, MCasConstants
  <2>4. PICK f : f = [[c EXCEPT !.tries = n] EXCEPT !.at = x]
    OBVIOUS
  <2>5. f \in Frames /\ f.kind = c.kind /\ f.cr = c.cr /\ f.cvalue = c.cvalue /\ f.at = x /\ f.mch = c.mch
    BY <1>2, <2>3, <2>4 DEF Frames, Labels
  <2>6. Inherits(c, f) /\ Carries(c, f)
    BY <1>2, <2>3, <2>5, InheritsRow DEF Holds, Owns, Placing
  <2>7. Continue(t, f) /\ Deallocs({})
    BY <1>1, <1>6, <2>1, <2>2, <2>4 DEF Loop
  <2>. QED BY <1>1, <1>2, <1>3, <2>5, <2>6, <2>7, QuietTurn
<1>. QED BY <1>5, <1>6

LEMMA AnnounceEffect ==
  ASSUME HelperInv, NEW t \in Threads, Announce(t)
  PROVE  Effect(t)
<1>1. PICK c : c = Frame(t)
  OBVIOUS
<1>2. /\ ShapeInv /\ stack[t] # <<>> /\ c \in Frames /\ c.at = "announce" /\ c.kind # "read"
  BY <1>1, TopIs DEF Announce, At, FrameOK, LabelOK, HelperInv
<1>3. word' = word /\ mch' = mch /\ desc' = desc /\ Deallocs({})
  BY DEF Announce, caller
<1>4. PICK f : f = [c EXCEPT !.at = "try"]
  OBVIOUS
<1>5. f \in Frames /\ f.kind = c.kind /\ f.cr = c.cr /\ f.cvalue = c.cvalue /\ f.at = "try" /\ f.mch = c.mch
  BY <1>2, <1>4 DEF Frames, Labels
<1>6. Inherits(c, f) /\ Carries(c, f)
  BY <1>2, <1>5, InheritsRow DEF Holds, Owns, Placing
<1>7. Continue(t, f)
  BY <1>1, <1>4 DEF Announce
<1>. QED BY <1>1, <1>2, <1>3, <1>5, <1>6, <1>7, QuietTurn
\* A step that replaces what the word of a holds.
LEMMA WordPut ==
  ASSUME MemoryInv, NEW t \in Threads, NEW a \in Addresses, NEW v, word' = [word EXCEPT ![a] = v],
         mch' = mch, desc' = desc,
         v \in Values \/ (stack[t] # <<>> /\ Owns(Frame(t)) /\ v = Frame(t).mch /\ Yields(t)),
         TakenOut(a), Logical(a)' = Logical(a) \/ TakenForDone(a)
  PROVE  /\ Grows /\ WordEffect(t) /\ MchEffect(t) /\ word'[a] = v
         /\ \A b \in Addresses : b # a => word'[b] = word[b]
<1>1. word'[a] = v /\ \A b \in Addresses : b # a => word'[b] = word[b]
  BY DEF MemoryInv
<1>2. Grows /\ MchEffect(t)
  BY DEF Grows, MchEffect, MemoryInv
<1>3. ASSUME NEW b \in Addresses, word'[b] # word[b] PROVE b = a
  BY <1>1, <1>3
<1>4. WordEffect(t)
  BY <1>1, <1>3 DEF WordEffect
<1>. QED BY <1>1, <1>2, <1>4

\* The activation installs its helper in place of the expected value, or of a helper
\* that is worth it.
LEMMA Installs ==
  ASSUME HelperInv, NEW t \in Threads, stack[t] # <<>>, Owns(Frame(t)),
         NEW a \in Addresses, a = Row(Frame(t).cr).address, word' = [word EXCEPT ![a] = Frame(t).mch],
         mch' = mch, desc' = desc, Continue(t, [Frame(t) EXCEPT !.at = "associate"]), Deallocs({}),
         Logical(a)' = Row(Frame(t).cr).expected => /\ TakenOut(a)
                                                    /\ Logical(a)' = Logical(a) \/ TakenForDone(a)
  PROVE  Effect(t)
<1>1. PICK c, f : c = Frame(t) /\ f = [c EXCEPT !.at = "associate"]
  OBVIOUS
<1>2. /\ ShapeInv /\ MemoryInv /\ c \in Frames /\ Owns(c) /\ Holds(c) /\ IsHelper(c.mch) /\ HelperOK(c.mch)
      /\ c.mch.cr = c.cr /\ c.at \in Placing /\ c = Nth(t, Height(t)) /\ Height(t) \in 1 .. Height(t)
  BY <1>1, TopIs, TopTyped DEF HelperInv, ShapeInv, Owns, Holds, FrameOK, HelperOK, Placing
<1>3. f \in Frames /\ f.kind = c.kind /\ f.cr = c.cr /\ f.mch = c.mch /\ f.cvalue = c.cvalue /\ f.at = "associate"
  BY <1>1, <1>2 DEF Frames, Labels
<1>4. word'[a] = c.mch
  BY <1>1, <1>2 DEF MemoryInv
<1>5. Inherits(c, f) /\ Carries(c, f)
  BY <1>1, <1>2, <1>3, <1>4 DEF Inherits, Carries, Owns, Holds, Placing
<1>6. Evolves(t) /\ Yields(t)
  BY <1>1, <1>2, <1>3, <1>5, TurnEvolves DEF Owns
<1>7. Logical(a)' = Row(c.cr).expected
  <2>1. mch[c.mch.cr] # c.mch
    BY <1>2 DEF HelperInv, OwnedHidden, Hidden
  <2>2. mch'[c.mch.cr] # c.mch /\ Row(c.mch.cr)' = Row(c.cr)
    BY <1>2, <2>1 DEF Row
  <2>3. PICK h : h = word'[a]
    OBVIOUS
  <2>4. IsHelper(h) /\ mch'[h.cr] # h /\ Row(h.cr)' = Row(c.cr)
    BY <1>2, <1>4, <2>2, <2>3
  <2>. QED BY <2>3, <2>4 DEF Logical
<1>8. Grows /\ WordEffect(t) /\ MchEffect(t)
  BY <1>1, <1>2, <1>6, <1>7, WordPut
<1>9. {} \in SUBSET Helpers /\ RetireEffect(t, {})
  BY DEF RetireEffect
<1>. QED BY <1>6, <1>8, <1>9 DEF Effect

LEMMA TryValueEffect ==
  ASSUME HelperInv, NEW t \in Threads, TryValue(t)
  PROVE  Effect(t)
<1>1. PICK c : c = Frame(t)
  OBVIOUS
<1>2. /\ ShapeInv /\ MemoryInv /\ stack[t] # <<>> /\ c \in Frames /\ c.at = "try" /\ c.kind # "read"
      /\ ~ IsHelper(c.cvalue) /\ c.cr \in Rows /\ Live(c.cr)
  BY <1>1, TopIs DEF TryValue, At, FrameOK, LabelOK, HelperInv, ShapeInv
<1>3. mch' = mch /\ desc' = desc /\ Deallocs({})
  BY DEF TryValue, caller
<1>4. PICK a : a = Row(c.cr).address
  OBVIOUS
<1>5. a \in Addresses /\ word[a] \in Values \cup Helpers /\ Lies(word[a]) /\ Row(c.cr).expected \in Values
  <2>1. a \in Addresses /\ Row(c.cr).expected \in Values
    BY <1>2, <1>4, RowTyped
  <2>. QED BY <1>2, <2>1 DEF MemoryInv, Lies
<1>6. Owns(c)
  BY <1>2 DEF Owns, Holds, Placing
<1>7. CASE word[a] = Row(c.cr).expected
  <2>1. ~ IsHelper(word[a])
    BY <1>5, <1>7, HelperTyped
  <2>2. word' = [word EXCEPT ![a] = c.mch] /\ Continue(t, [c EXCEPT !.at = "associate"])
    BY <1>1, <1>4, <1>7, <2>1 DEF TryValue
  <2>3. TakenOut(a) /\ Logical(a) = Row(c.cr).expected
    BY <1>7, <2>1 DEF TakenOut, Logical
  <2>. QED BY <1>1, <1>2, <1>3, <1>4, <1>5, <1>6, <2>2, <2>3, Installs
<1>8. CASE word[a] # Row(c.cr).expected
  <2>1. word' = word
    BY <1>1, <1>4, <1>8 DEF TryValue
  <2>2. CASE IsHelper(word[a])
    <3>1. PICK v : v = word[a]
      OBVIOUS
    <3>2. PICK f : f = [c EXCEPT !.cvalue = v, !.at = "loop"]
      OBVIOUS
    <3>3. Continue(t, f)
      BY <1>1, <1>4, <1>8, <2>2, <3>1, <3>2 DEF TryValue
    <3>4. f \in Frames /\ f.kind = c.kind /\ f.cr = c.cr /\ f.cvalue = v /\ f.at = "loop" /\ f.mch = c.mch
      BY <1>2, <1>5, <3>1, <3>2 DEF Frames, Labels
    <3>5. Inherits(c, f) /\ Carries(c, f)
      BY <1>2, <1>5, <3>1, <3>4, InheritsRow DEF Holds, Owns, Placing
    <3>. QED BY <1>1, <1>2, <1>3, <2>1, <3>3, <3>4, <3>5, QuietTurn
  <2>3. CASE ~ IsHelper(word[a])
    <3>1. PICK f : f = [c EXCEPT !.at = "fail"]
      OBVIOUS
    <3>2. Continue(t, f)
      BY <1>1, <1>4, <1>8, <2>3, <3>1 DEF TryValue
    <3>3. f \in Frames /\ f.kind = c.kind /\ f.cr = c.cr /\ f.cvalue = c.cvalue /\ f.at = "fail" /\ f.mch = c.mch
      BY <1>2, <3>1 DEF Frames, Labels
    <3>4. Inherits(c, f) /\ Carries(c, f)
      BY <1>2, <3>3, InheritsRow DEF Holds, Owns, Placing
    <3>. QED BY <1>1, <1>2, <1>3, <2>1, <3>2, <3>3, <3>4, QuietTurn
  <2>. QED BY <2>2, <2>3
<1>. QED BY <1>7, <1>8
\* A step that gives a helper to an open row.
LEMMA MchPut ==
  ASSUME MemoryInv, NEW t \in Threads, NEW r \in Rows, NEW v, mch' = [mch EXCEPT ![r] = v],
         mch[r] \in {Null, v}, word' = word, desc' = desc,
         IsHelper(v) => /\ Seated(v) /\ stack[t] # <<>>
                        /\ \/ v = Frame(t).cvalue
                           \/ Frame(t).at = "associate" /\ Holds(Frame(t)) /\ v = Frame(t).mch
  PROVE  Grows /\ WordEffect(t) /\ MchEffect(t) /\ mch'[r] = v
<1>1. mch'[r] = v /\ \A q \in Rows : q # r => mch'[q] = mch[q]
  BY DEF MemoryInv
<1>2. Grows
  BY <1>1 DEF Grows, MemoryInv
<1>3. ASSUME NEW q \in Rows, mch'[q] # mch[q] PROVE q = r
  BY <1>1, <1>3
<1>4. MchEffect(t)
  BY <1>1, <1>3 DEF MchEffect
<1>. QED BY <1>1, <1>2, <1>4 DEF WordEffect

LEMMA AdoptEffect ==
  ASSUME HelperInv, MemoryInv', NEW t \in Threads, Adopt(t)
  PROVE  Effect(t)
<1>1. PICK c : c = Frame(t)
  OBVIOUS
<1>2. /\ ShapeInv /\ MemoryInv /\ stack[t] # <<>> /\ c \in Frames /\ c.at = "try" /\ c.kind # "read"
      /\ IsHelper(c.cvalue) /\ c.cr \in Rows
  BY <1>1, TopIs DEF Adopt, At, FrameOK, LabelOK, HelperInv, ShapeInv
<1>3. word' = word /\ desc' = desc
  BY DEF Adopt, caller
<1>4. Owns(c)
  BY <1>2 DEF Owns, Holds, Placing
<1>5. CASE mch[c.cr] \in {Null, c.cvalue}
  <2>1. mch' = [mch EXCEPT ![c.cr] = c.cvalue] /\ PlaceReturns(t) /\ Deallocs({c.mch})
    BY <1>1, <1>5 DEF Adopt
  <2>2. Seated(c.cvalue)
    BY <1>1, <1>2, TopTyped DEF HelperInv, FramesSeated, FrameSeated
  <2>3. Grows /\ MchEffect(t) /\ mch'[c.cr] = c.cvalue
    <3>1. PICK v : v = c.cvalue
      OBVIOUS
    <3>2. mch' = [mch EXCEPT ![c.cr] = v] /\ Seated(v) /\ v = Frame(t).cvalue
      BY <1>1, <2>1, <2>2, <3>1
    <3>3. mch[c.cr] \in {Null, v}
      BY <1>5, <3>1
    <3>. QED BY <1>2, <1>3, <3>1, <3>2, <3>3, MchPut
  <2>4. mch'[c.cr] # Null
    BY <1>2, <2>3, HelperTyped
  <2>. QED BY <1>1, <1>2, <1>3, <1>4, <2>1, <2>3, <2>4, GivesUp
<1>6. CASE mch[c.cr] \notin {Null, c.cvalue}
  <2>1. PICK f : f = [c EXCEPT !.at = "undo"]
    OBVIOUS
  <2>2. Continue(t, f) /\ mch' = mch /\ Deallocs({})
    BY <1>1, <1>6, <2>1 DEF Adopt
  <2>3. f \in Frames /\ f.kind = c.kind /\ f.cr = c.cr /\ f.cvalue = c.cvalue /\ f.at = "undo" /\ f.mch = c.mch
    BY <1>2, <2>1 DEF Frames, Labels
  <2>4. Inherits(c, f) /\ Carries(c, f)
    BY <1>2, <2>3, InheritsRow DEF Holds, Owns, Placing
  <2>. QED BY <1>1, <1>2, <1>3, <2>2, <2>3, <2>4, QuietTurn
<1>. QED BY <1>5, <1>6

\* A helper lies in one word, and is not in limbo then.
LEMMA LiesOnce ==
  ASSUME HelperInv, NEW a \in Addresses, IsHelper(word[a])
  PROVE  /\ word[a] \notin retired /\ HelperOK(word[a]) /\ Row(word[a].cr).address = a
         /\ \A b \in Addresses : word[b] = word[a] => b = a
BY DEF HelperInv, ShapeInv, MemoryInv, WordOK, RetiredIsUnreachable

LEMMA UndoEffect ==
  ASSUME HelperInv, MemoryInv', NEW t \in Threads, Undo(t)
  PROVE  Effect(t)
<1>1. PICK c, h : c = Frame(t) /\ h = c.cvalue
  OBVIOUS
<1>2. /\ ShapeInv /\ MemoryInv /\ stack[t] # <<>> /\ c \in Frames /\ c.at = "undo" /\ c.kind # "read"
      /\ IsHelper(h) /\ h.cr = c.cr /\ mch[c.cr] \notin {Null, h} /\ c.cr \in Rows /\ Live(c.cr)
  BY <1>1, TopIs DEF Undo, At, FrameOK, LabelOK, HelperInv, ShapeInv
<1>3. mch' = mch /\ desc' = desc /\ PlaceReturns(t)
  BY DEF Undo, caller
<1>4. Owns(c) /\ Holds(c) /\ c.at \in Placing
  BY <1>2 DEF Owns, Holds, Placing
<1>5. Evolves(t) /\ Yields(t) /\ Drops(t)
  BY <1>1, <1>2, <1>3, <1>4, ReturnEvolves
<1>6. PICK a, v : a = Row(c.cr).address /\ v = Row(c.cr).expected
  OBVIOUS
<1>7. a \in Addresses /\ v \in Values /\ ~ IsHelper(v)
  BY <1>2, <1>6, RowTyped, HelperTyped
<1>8. CASE word[a] = h
  <2>1. word' = [word EXCEPT ![a] = v] /\ Deallocs({h, c.mch})
    BY <1>1, <1>6, <1>8 DEF Undo
  <2>2. TakenOut(a) /\ Logical(a) = v
    BY <1>2, <1>6, <1>8 DEF TakenOut, Logical
  <2>3. word'[a] = v
    BY <1>2, <1>7, <2>1 DEF MemoryInv
  <2>4. Logical(a)' = v
    BY <1>7, <2>3 DEF Logical
  <2>5. Grows /\ WordEffect(t) /\ MchEffect(t) /\ \A b \in Addresses : b # a => word'[b] = word[b]
    BY <1>2, <1>3, <1>7, <2>1, <2>2, <2>4, WordPut
  <2>6. h \notin retired /\ \A b \in Addresses : word'[b] # h
    BY <1>2, <1>7, <1>8, <2>3, <2>5, LiesOnce
  <2>7. /\ IsHelper(c.mch) /\ c.mch.cr = c.cr /\ ~ Lies(c.mch) /\ mch[c.cr] # c.mch /\ c.mch \notin retired
    BY <1>1, <1>2, <1>4, TopIs, TopTyped DEF HelperInv, OwnedHidden, Hidden, FrameOK
  <2>8. \A b \in Addresses : word'[b] # c.mch
    BY <1>7, <2>3, <2>5, <2>7 DEF Lies
  <2>9. RetireEffect(t, {h, c.mch})
    BY <1>1, <1>2, <1>3, <1>4, <1>5, <1>7, <1>8, <2>6, <2>7, <2>8 DEF RetireEffect, Lies, IsHelper
  <2>10. {h, c.mch} \in SUBSET Helpers
    BY <1>2, <2>7 DEF IsHelper
  <2>. QED BY <1>5, <2>1, <2>5, <2>9, <2>10 DEF Effect
<1>9. CASE word[a] # h
  <2>1. word' = word /\ Deallocs({c.mch})
    BY <1>1, <1>6, <1>9 DEF Undo
  <2>2. Grows /\ MchEffect(t) /\ mch'[c.cr] # Null
    BY <1>2, <1>3 DEF Grows, MemoryInv, MchEffect
  <2>. QED BY <1>1, <1>2, <1>3, <1>4, <2>1, <2>2, GivesUp
<1>. QED BY <1>8, <1>9

LEMMA ShouldReplaceEffect ==
  ASSUME HelperInv, NEW t \in Threads, ShouldReplace(t)
  PROVE  Effect(t)
<1>1. PICK c, r : c = Frame(t) /\ r = c.cvalue.cr
  OBVIOUS
<1>2. /\ ShapeInv /\ MemoryInv /\ stack[t] # <<>> /\ c \in Frames /\ c.at = "try" /\ c.kind # "read" /\ r \in Rows
  BY <1>1, TopIs, HelperTyped DEF ShouldReplace, At, FrameOK, LabelOK, HelperInv, ShapeInv
<1>3. word' = word /\ mch' = mch /\ desc' = desc /\ Deallocs({})
  BY DEF ShouldReplace, memory, caller
<1>4. CASE Row(c.cr).expected \in {Row(r).expected, Row(r).new}
  <2>1. PICK f : f = [c EXCEPT !.at = "judge"]
    OBVIOUS
  <2>2. Help(t, f, r)
    BY <1>1, <1>4, <2>1 DEF ShouldReplace
  <2>3. f \in Frames /\ f.kind = c.kind /\ f.cr = c.cr /\ f.cvalue = c.cvalue /\ f.at = "judge" /\ f.mch = c.mch
    BY <1>2, <2>1 DEF Frames, Labels
  <2>4. Inherits(c, f) /\ Carries(c, f)
    BY <1>2, <2>3, InheritsRow DEF Holds, Owns, Placing
  <2>5. Evolves(t)
    BY <1>1, <1>2, <2>2, <2>3, <2>4, HelpEvolves
  <2>6. Grows
    BY <1>2, <1>3 DEF Grows, MemoryInv
  <2>. QED BY <1>3, <2>5, <2>6, Quiet
<1>5. CASE Row(c.cr).expected \notin {Row(r).expected, Row(r).new}
  <2>1. PICK f : f = [c EXCEPT !.at = "fail"]
    OBVIOUS
  <2>2. Continue(t, f)
    BY <1>1, <1>5, <2>1 DEF ShouldReplace
  <2>3. f \in Frames /\ f.kind = c.kind /\ f.cr = c.cr /\ f.cvalue = c.cvalue /\ f.at = "fail" /\ f.mch = c.mch
    BY <1>2, <2>1 DEF Frames, Labels
  <2>4. Inherits(c, f) /\ Carries(c, f)
    BY <1>2, <2>3, InheritsRow DEF Holds, Owns, Placing
  <2>. QED BY <1>1, <1>2, <1>3, <2>2, <2>3, <2>4, QuietTurn
<1>. QED BY <1>4, <1>5

LEMMA JudgeEffect ==
  ASSUME HelperInv, NEW t \in Threads, Judge(t)
  PROVE  Effect(t)
<1>1. PICK c : c = Frame(t)
  OBVIOUS
<1>2. /\ ShapeInv /\ stack[t] # <<>> /\ c \in Frames /\ c.at = "judge" /\ c.kind # "read"
  BY <1>1, TopIs DEF Judge, InPlace, At, HelperInv
<1>3. word' = word /\ mch' = mch /\ desc' = desc /\ Deallocs({})
  BY DEF Judge, memory, caller
<1>4. PICK x : x = IF c.res # -1 /\ Worth(c, c.cvalue) = Row(c.cr).expected THEN "swap" ELSE "fail"
  OBVIOUS
<1>5. PICK f : f = [c EXCEPT !.res = 0, !.at = x]
  OBVIOUS
<1>6. Continue(t, f) /\ x \in {"swap", "fail"}
  BY <1>1, <1>4, <1>5 DEF Judge
<1>7. f \in Frames /\ f.kind = c.kind /\ f.cr = c.cr /\ f.cvalue = c.cvalue /\ f.at = x /\ f.mch = c.mch
  BY <1>2, <1>5, <1>6 DEF Frames, Labels
<1>8. Inherits(c, f) /\ Carries(c, f)
  BY <1>2, <1>6, <1>7, InheritsRow DEF Holds, Owns, Placing
<1>. QED BY <1>1, <1>2, <1>3, <1>6, <1>7, <1>8, QuietTurn

LEMMA SwapEffect ==
  ASSUME HelperInv, NEW t \in Threads, Swap(t)
  PROVE  Effect(t)
<1>1. PICK c, h : c = Frame(t) /\ h = c.cvalue
  OBVIOUS
<1>2. /\ ShapeInv /\ MemoryInv /\ stack[t] # <<>> /\ c \in Frames /\ c.at = "swap" /\ c.kind # "read"
      /\ IsHelper(h) /\ c.cr \in Rows /\ Live(c.cr) /\ MayReplace(h, c.cr)
  BY <1>1, TopIs DEF Swap, At, FrameOK, LabelOK, HelperInv, ShapeInv
<1>3. mch' = mch /\ desc' = desc /\ Deallocs({})
  BY DEF Swap, caller
<1>4. PICK a : a = Row(c.cr).address
  OBVIOUS
<1>5. a \in Addresses /\ word[a] \in Values \cup Helpers /\ Lies(word[a])
  <2>1. a \in Addresses
    BY <1>2, <1>4, RowTyped
  <2>. QED BY <1>2, <2>1 DEF MemoryInv, Lies
<1>6. Owns(c)
  BY <1>2 DEF Owns, Holds, Placing
<1>7. CASE word[a] = h
  <2>1. word' = [word EXCEPT ![a] = c.mch] /\ Continue(t, [c EXCEPT !.at = "associate"])
    BY <1>1, <1>4, <1>7 DEF Swap
  <2>2. h.cr \in Rows /\ Live(h.cr)
    BY <1>5, <1>7, <1>2, HelperTyped, LiesOnce DEF HelperOK
  <2>3. h.cr[1] \in DOMAIN desc
    BY <1>2, <2>2, LenProperties DEF MemoryInv, Live
  <2>4. CASE Row(c.cr).expected = Row(h.cr).expected /\ (Outcome(h.cr[1]) = Fail \/ mch[h.cr] \notin {Null, h})
    <3>1. Logical(a) = Row(c.cr).expected
      BY <1>2, <1>7, <2>4, HelperTyped DEF Logical, Succeeded, Outcome
    <3>2. TakenOut(a)
      BY <1>7, <2>4, HelperTyped DEF TakenOut
    <3>. QED BY <1>1, <1>2, <1>3, <1>4, <1>5, <1>6, <2>1, <3>1, <3>2, Installs
  <2>5. CASE Row(c.cr).expected = Row(h.cr).new /\ mch[h.cr] = h /\ Succeeded(h.cr[1])
    <3>1. Logical(a) = Row(c.cr).expected
      BY <1>2, <1>7, <2>5 DEF Logical
    <3>2. TakenOut(a)
      BY <1>7, <2>5, HelperTyped DEF TakenOut, Succeeded, Outcome
    <3>. QED BY <1>1, <1>2, <1>3, <1>4, <1>5, <1>6, <2>1, <3>1, <3>2, Installs
  <2>6. CASE Row(c.cr).expected = Row(h.cr).new /\ ~ Succeeded(h.cr[1]) /\ SomeFailed(h.cr[1])
    <3>1. Logical(a) = Row(h.cr).expected
      BY <1>2, <1>7, <2>6 DEF Logical
    <3>2. ASSUME Logical(a)' = Row(c.cr).expected PROVE TakenForDone(a)
      BY <1>2, <1>7, <2>6, <3>1, <3>2 DEF TakenForDone
    <3>3. TakenForDone(a) => TakenOut(a)
      BY DEF TakenOut
    <3>. QED BY <1>1, <1>2, <1>3, <1>4, <1>5, <1>6, <2>1, <3>2, <3>3, Installs
  <2>. QED BY <1>2, <2>3, <2>4, <2>5, <2>6 DEF MayReplace, Succeeded, Outcome
<1>8. CASE word[a] # h
  <2>1. PICK v : v = word[a]
    OBVIOUS
  <2>2. PICK f : f = [c EXCEPT !.cvalue = v, !.at = "loop"]
    OBVIOUS
  <2>3. Continue(t, f) /\ word' = word
    BY <1>1, <1>4, <1>8, <2>1, <2>2 DEF Swap
  <2>4. f \in Frames /\ f.kind = c.kind /\ f.cr = c.cr /\ f.cvalue = v /\ f.at = "loop" /\ f.mch = c.mch
    BY <1>2, <1>5, <2>1, <2>2 DEF Frames, Labels
  <2>5. Inherits(c, f) /\ Carries(c, f)
    BY <1>2, <1>5, <2>1, <2>4, InheritsRow DEF Holds, Owns, Placing
  <2>. QED BY <1>1, <1>2, <1>3, <2>3, <2>4, <2>5, QuietTurn
<1>. QED BY <1>7, <1>8
LEMMA AssociateEffect ==
  ASSUME HelperInv, NEW t \in Threads, Associate(t)
  PROVE  Effect(t)
<1>1. PICK c, h : c = Frame(t) /\ h = c.mch
  OBVIOUS
<1>2. /\ ShapeInv /\ MemoryInv /\ stack[t] # <<>> /\ c \in Frames /\ c.at = "associate" /\ c.kind # "read"
      /\ c.cr \in Rows /\ FrameOK(c)
  BY <1>1, TopIs DEF Associate, At, FrameOK, LabelOK, HelperInv, ShapeInv
<1>3. word' = word /\ desc' = desc /\ Deallocs({})
  BY DEF Associate, caller
<1>4. Holds(c) /\ c.at \in Placing /\ IsHelper(h) /\ Seated(h)
  <2>1. Holds(c) /\ c.at \in Placing
    BY <1>2 DEF Holds, Placing
  <2>. QED BY <1>1, <1>2, <2>1, TopTyped DEF FrameOK, HelperInv, FramesSeated, FrameSeated
<1>5. CASE mch[c.cr] \in {Null, h}
  <2>1. mch' = [mch EXCEPT ![c.cr] = h] /\ PlaceReturns(t)
    BY <1>1, <1>5 DEF Associate
  <2>2. Grows /\ WordEffect(t) /\ MchEffect(t)
    BY <1>1, <1>2, <1>3, <1>4, <1>5, <2>1, MchPut
  <2>3. Evolves(t)
    BY <1>1, <1>2, <1>4, <2>1, ReturnEvolves
  <2>4. {} \in SUBSET Helpers /\ RetireEffect(t, {})
    BY DEF RetireEffect
  <2>. QED BY <1>3, <2>2, <2>3, <2>4 DEF Effect
<1>6. CASE mch[c.cr] \notin {Null, h}
  <2>1. PICK f : f = [c EXCEPT !.at = "restore"]
    OBVIOUS
  <2>2. Continue(t, f) /\ mch' = mch
    BY <1>1, <1>6, <2>1 DEF Associate
  <2>3. f \in Frames /\ f.kind = c.kind /\ f.cr = c.cr /\ f.cvalue = c.cvalue /\ f.at = "restore" /\ f.mch = c.mch
    BY <1>2, <2>1 DEF Frames, Labels
  <2>4. Inherits(c, f) /\ Carries(c, f)
    BY <1>2, <1>4, <2>3, InheritsRow DEF Holds, Owns, Placing
  <2>. QED BY <1>1, <1>2, <1>3, <2>2, <2>3, <2>4, QuietTurn
<1>. QED BY <1>5, <1>6

LEMMA RestoreEffect ==
  ASSUME HelperInv, NEW t \in Threads, Restore(t)
  PROVE  Effect(t)
<1>1. PICK c, h : c = Frame(t) /\ h = c.mch
  OBVIOUS
<1>2. /\ ShapeInv /\ MemoryInv /\ stack[t] # <<>> /\ c \in Frames /\ c.at = "restore" /\ c.kind # "read"
      /\ c.cr \in Rows /\ Live(c.cr) /\ FrameOK(c) /\ mch[c.cr] \notin {Null, h}
  BY <1>1, TopIs DEF Restore, At, FrameOK, LabelOK, HelperInv, ShapeInv
<1>3. mch' = mch /\ desc' = desc /\ PlaceReturns(t)
  BY DEF Restore, caller
<1>4. Holds(c) /\ c.at \in Placing /\ IsHelper(h) /\ h.cr = c.cr
  BY <1>1, <1>2 DEF Holds, Placing, FrameOK
<1>5. Evolves(t) /\ Drops(t)
  BY <1>1, <1>2, <1>3, <1>4, ReturnEvolves
<1>6. PICK a, v : a = Row(c.cr).address /\ v = Row(c.cr).expected
  OBVIOUS
<1>7. a \in Addresses /\ v \in Values /\ ~ IsHelper(v)
  BY <1>2, <1>6, RowTyped, HelperTyped
<1>8. CASE word[a] = h
  <2>1. word' = [word EXCEPT ![a] = v] /\ Deallocs({h})
    BY <1>1, <1>6, <1>8 DEF Restore
  <2>2. TakenOut(a) /\ Logical(a) = v
    BY <1>2, <1>4, <1>6, <1>8 DEF TakenOut, Logical
  <2>3. word'[a] = v
    BY <1>2, <1>7, <2>1 DEF MemoryInv
  <2>4. Logical(a)' = v
    BY <1>7, <2>3 DEF Logical
  <2>5. Grows /\ WordEffect(t) /\ MchEffect(t) /\ \A b \in Addresses : b # a => word'[b] = word[b]
    BY <1>2, <1>3, <1>7, <2>1, <2>2, <2>4, WordPut
  <2>6. h \notin retired /\ \A b \in Addresses : word'[b] # h
    BY <1>4, <1>7, <1>8, <2>3, <2>5, LiesOnce
  <2>7. RetireEffect(t, {h})
    BY <1>1, <1>2, <1>3, <1>4, <1>5, <2>6 DEF RetireEffect, IsHelper
  <2>8. {h} \in SUBSET Helpers
    BY <1>4 DEF IsHelper
  <2>. QED BY <1>5, <2>1, <2>5, <2>7, <2>8 DEF Effect
<1>9. CASE word[a] # h
  <2>1. word' = word /\ Deallocs({})
    BY <1>1, <1>6, <1>9 DEF Restore
  <2>2. Grows
    BY <1>2, <1>3 DEF Grows, MemoryInv
  <2>. QED BY <1>3, <1>5, <2>1, <2>2, Quiet
<1>. QED BY <1>8, <1>9

LEMMA FailRowEffect ==
  ASSUME HelperInv, MemoryInv', NEW t \in Threads, FailRow(t)
  PROVE  Effect(t)
<1>1. PICK c : c = Frame(t)
  OBVIOUS
<1>2. /\ ShapeInv /\ MemoryInv /\ stack[t] # <<>> /\ c \in Frames /\ c.at = "fail" /\ c.kind # "read" /\ c.cr \in Rows
  BY <1>1, TopIs DEF FailRow, At, FrameOK, LabelOK, HelperInv, ShapeInv
<1>3. word' = word /\ desc' = desc
  BY DEF FailRow, caller
<1>4. Owns(c)
  BY <1>2 DEF Owns, Holds, Placing
<1>5. CASE mch[c.cr] = Null
  <2>1. PICK f : f = [c EXCEPT !.at = "fail_last"]
    OBVIOUS
  <2>2. Continue(t, f) /\ mch' = [mch EXCEPT ![c.cr] = Fail] /\ Deallocs({})
    BY <1>1, <1>5, <2>1 DEF FailRow
  <2>3. f \in Frames /\ f.kind = c.kind /\ f.cr = c.cr /\ f.cvalue = c.cvalue /\ f.at = "fail_last" /\ f.mch = c.mch
    BY <1>2, <2>1 DEF Frames, Labels
  <2>4. Inherits(c, f) /\ Carries(c, f)
    BY <1>2, <2>3, InheritsRow DEF Holds, Owns, Placing
  <2>5. Grows /\ WordEffect(t) /\ MchEffect(t)
    BY <1>2, <1>3, <1>5, <2>2, HelperTyped, MchPut
  <2>6. {} \in SUBSET Helpers /\ RetireEffect(t, {})
    BY DEF RetireEffect
  <2>7. Evolves(t)
    BY <1>1, <1>2, <2>2, <2>3, <2>4, TurnEvolves
  <2>. QED BY <2>2, <2>5, <2>6, <2>7 DEF Effect
<1>6. CASE mch[c.cr] # Null
  <2>1. mch' = mch /\ PlaceReturns(t) /\ Deallocs({c.mch})
    BY <1>1, <1>6 DEF FailRow
  <2>2. Grows /\ MchEffect(t)
    BY <1>2, <1>3, <2>1 DEF Grows, MemoryInv, MchEffect
  <2>. QED BY <1>1, <1>2, <1>3, <1>4, <1>6, <2>1, <2>2, GivesUp
<1>. QED BY <1>5, <1>6

LEMMA FailLastEffect ==
  ASSUME HelperInv, MemoryInv', NEW t \in Threads, FailLast(t)
  PROVE  Effect(t)
<1>1. PICK c : c = Frame(t)
  OBVIOUS
<1>2. /\ ShapeInv /\ MemoryInv /\ stack[t] # <<>> /\ c \in Frames /\ c.at = "fail_last" /\ c.kind # "read"
      /\ c.cr \in Rows /\ Live(c.cr) /\ mch[c.cr] = Fail
  BY <1>1, TopIs DEF FailLast, At, FrameOK, LabelOK, HelperInv, ShapeInv
<1>3. word' = word /\ desc' = desc /\ PlaceReturns(t) /\ Deallocs({c.mch})
  BY <1>1 DEF FailLast, caller
<1>4. Owns(c)
  BY <1>2 DEF Owns, Holds, Placing
<1>5. PICK l, v : l = LastRow(c.cr) /\ v = IF mch[l] = Null THEN Fail ELSE mch[l]
  OBVIOUS
<1>6. l \in Rows
  BY <1>2, <1>5, RowTyped
<1>7. mch' = [mch EXCEPT ![l] = v]
  BY <1>1, <1>2, <1>5, <1>6 DEF FailLast, MemoryInv
<1>8. /\ mch'[l] = v /\ \A q \in Rows : q # l => mch'[q] = mch[q]
  BY <1>2, <1>6, <1>7 DEF MemoryInv
<1>9. \A q \in Rows : mch'[q] # mch[q] => mch[q] = Null /\ mch'[q] = Fail
  BY <1>5, <1>8
<1>10. Grows /\ MchEffect(t)
  BY <1>2, <1>3, <1>9, HelperTyped DEF Grows, MemoryInv, MchEffect
<1>11. mch'[c.cr] # Null
  BY <1>2, <1>9, HelperTyped
<1>. QED BY <1>1, <1>2, <1>3, <1>4, <1>10, <1>11, GivesUp
-------------------------------------------------------------------------------
LEMMA CheckEffect ==
  ASSUME HelperInv, NEW t \in Threads, Check(t)
  PROVE  Effect(t)
<1>1. PICK c : c = Frame(t)
  OBVIOUS
<1>2. /\ ShapeInv /\ MemoryInv /\ stack[t] # <<>> /\ c \in Frames /\ c.at = "check" /\ c.kind = "help"
      /\ Live(c.cr)
  BY <1>1, TopIs DEF Check, At, FrameOK, LabelOK, HelperInv, ShapeInv
<1>3. word' = word /\ mch' = mch /\ desc' = desc /\ Deallocs({})
  BY DEF Check, memory, caller
<1>4. PICK f : f = IF mch[c.cr] = Fail THEN [c EXCEPT !.at = "end"] ELSE NextRow(c)
  OBVIOUS
<1>5. Continue(t, f)
  BY <1>1, <1>4 DEF Check
<1>6. /\ f \in Frames /\ f.kind = c.kind /\ f.cr[1] = c.cr[1] /\ f.cvalue = c.cvalue
      /\ f.at \in {"next", "end"}
  <2>1. CASE mch[c.cr] = Fail
    BY <1>2, <1>4, <2>1 DEF Frames, Labels
  <2>2. CASE mch[c.cr] # Fail
    BY <1>2, <1>4, <2>2, NextRowTyped
  <2>. QED BY <2>1, <2>2
<1>7. Inherits(c, f) /\ Carries(c, f)
  BY <1>2, <1>6 DEF Inherits, Carries, Holds, Owns, Placing
<1>. QED BY <1>1, <1>2, <1>3, <1>5, <1>6, <1>7, QuietTurn

LEMMA HelpReturnsEffect ==
  ASSUME HelperInv, NEW t \in Threads, HelpReturns(t)
  PROVE  Effect(t)
<1>1. word' = word /\ mch' = mch /\ desc' = desc /\ Deallocs({}) /\ ShapeInv
  BY DEF HelpReturns, memory, caller, HelperInv
<1>2. Grows
  BY <1>1 DEF Grows, ShapeInv, MemoryInv
<1>. QED BY <1>1, <1>2, HelpReturnEvolves, Quiet

LEMMA WithdrawEffect ==
  ASSUME HelperInv, NEW t \in Threads, Withdraw(t)
  PROVE  Effect(t)
<1>1. PICK c : c = Frame(t)
  OBVIOUS
<1>2. ShapeInv /\ stack[t] # <<>> /\ c \in Frames /\ c.at = "end" /\ c.kind = "own"
  BY <1>1, TopIs DEF Withdraw, At, HelperInv
<1>3. word' = word /\ mch' = mch /\ desc' = desc /\ Deallocs({})
  BY DEF Withdraw, caller
<1>4. PICK f : f = [c EXCEPT !.at = "decide"]
  OBVIOUS
<1>5. f \in Frames /\ f.kind = c.kind /\ f.cr = c.cr /\ f.cvalue = c.cvalue /\ f.at = "decide" /\ f.mch = c.mch
  BY <1>2, <1>4 DEF Frames, Labels
<1>6. Inherits(c, f) /\ Carries(c, f)
  BY <1>2, <1>5, InheritsRow DEF Holds, Owns, Placing
<1>7. Continue(t, f)
  BY <1>1, <1>4 DEF Withdraw
<1>. QED BY <1>1, <1>2, <1>3, <1>5, <1>6, <1>7, QuietTurn

LEMMA DecideEffect ==
  ASSUME HelperInv, NEW t \in Threads, Decide(t)
  PROVE  Effect(t)
<1>1. PICK c, x, r : /\ c = Frame(t) /\ r = <<c.cr[1], 1>>
                     /\ x = IF mch[LastRow(c.cr)] # Fail THEN 0 ELSE 1
  OBVIOUS
<1>2. /\ ShapeInv /\ MemoryInv /\ stack[t] # <<>> /\ c \in Frames /\ c.at = "decide" /\ c.kind = "own"
      /\ c.cr \in Rows
  BY <1>1, TopIs DEF Decide, At, FrameOK, LabelOK, HelperInv, ShapeInv
<1>3. word' = word /\ mch' = mch /\ desc' = desc /\ Deallocs({})
  BY DEF Decide, memory, caller
<1>4. PICK f : f = [c EXCEPT !.res = x, !.cr = r, !.at = "remove"]
  OBVIOUS
<1>5. Continue(t, f)
  BY <1>1, <1>4 DEF Decide
<1>6. r \in Rows
  BY <1>1, <1>2, MCasConstants DEF Rows, Addresses
<1>7. /\ f \in Frames /\ f.kind = c.kind /\ f.cr = r /\ f.cvalue = c.cvalue /\ f.at = "remove"
      /\ f.mch = c.mch /\ r[1] = c.cr[1]
  BY <1>1, <1>2, <1>4, <1>6 DEF Frames, Labels
<1>8. Inherits(c, f) /\ Carries(c, f)
  BY <1>2, <1>7 DEF Inherits, Carries, Holds, Owns, Placing
<1>. QED BY <1>1, <1>2, <1>3, <1>5, <1>7, <1>8, QuietTurn
LEMMA RemoveHelperEffect ==
  ASSUME HelperInv, NEW t \in Threads, RemoveHelper(t)
  PROVE  Effect(t)
<1>1. PICK c, h : c = Frame(t) /\ h = mch[c.cr]
  OBVIOUS
<1>2. /\ ShapeInv /\ MemoryInv /\ stack[t] # <<>> /\ c \in Frames /\ c.at = "remove" /\ c.kind = "own"
      /\ c.cr \in Rows /\ Live(c.cr) /\ Outcome(c.cr[1]) # Null
      /\ c.res = IF Outcome(c.cr[1]) = Fail THEN 1 ELSE 0
  BY <1>1, TopIs DEF RemoveHelper, At, FrameOK, LabelOK, HelperInv, ShapeInv
<1>3. mch' = mch /\ desc' = desc /\ Deallocs({h} \ {Null, Fail})
  BY <1>1 DEF RemoveHelper, caller
<1>4. Height(t) = 1 /\ c = Nth(t, 1)
  <2>1. Height(t) \in Nat /\ Height(t) >= 1 /\ c = Nth(t, Height(t))
    BY <1>1, <1>2, TopIs
  <2>2. StackOK(stack[t], depth[t])
    BY <1>2, FrameTyped
  <2>3. Height(t) # 1 => Nth(t, Height(t)).kind = "help"
    <3>1. Height(t) \in 1 .. Height(t)
      BY <2>1
    <3>. QED BY <2>2, <3>1 DEF StackOK, Height, Nth
  <2>. QED BY <1>2, <2>1, <2>3
<1>5. PICK a, v : a = Row(c.cr).address /\ v = IF c.res = 0 THEN Row(c.cr).new ELSE Row(c.cr).expected
  OBVIOUS
<1>6. a \in Addresses /\ v \in Values /\ ~ IsHelper(v)
  BY <1>2, <1>5, RowTyped, HelperTyped
<1>7. PICK r, f : r = <<c.cr[1], c.cr[2] + 1>> /\ f = [c EXCEPT !.cr = r]
  OBVIOUS
<1>8. c.cr[2] \in Nat /\ r[1] = c.cr[1] /\ r[2] = c.cr[2] + 1
  BY <1>2, <1>7, RowTyped
<1>9. f.kind = c.kind /\ f.cr = r /\ f.at = "remove" /\ f.cvalue = c.cvalue
  BY <1>2, <1>7 DEF Frames
<1>10. PICK s : s = IF h = Fail \/ c.cr = LastRow(c.cr) THEN <<>> ELSE <<f>>
  OBVIOUS
<1>11. stack' = [stack EXCEPT ![t] = s]
  BY <1>1, <1>7, <1>10 DEF RemoveHelper
<1>12. /\ stack'[t] = s /\ \A u \in Threads : u # t => stack'[u] = stack[u]
       /\ Height(t)' \in {0, 1} /\ \A k \in 1 .. Height(t)' : k = 1 /\ Nth(t, k)' = f
  <2>1. stack'[t] = s /\ \A u \in Threads : u # t => stack'[u] = stack[u]
    BY <1>2, <1>11 DEF ShapeInv, TypeOK
  <2>2. CASE s = <<>>
    <3>1. Height(t)' = 0
      BY <2>1, <2>2 DEF Height
    <3>. QED BY <2>1, <3>1
  <2>3. CASE s = <<f>>
    <3>1. Height(t)' = 1 /\ Nth(t, 1)' = f
      BY <2>1, <2>3 DEF Height, Nth, FromEnd
    <3>. QED BY <2>1, <3>1
  <2>. QED BY <1>10, <2>2, <2>3
<1>13. Evolves(t)
  <2>1. Inherits(c, f) /\ Carries(c, f)
    BY <1>2, <1>8, <1>9 DEF Inherits, Carries, Holds, Owns, Placing
  <2>. QED BY <1>4, <1>12, <2>1 DEF Evolves
<1>14. h \in {Null, Fail} \cup Helpers /\ (IsHelper(h) => h.cr = c.cr)
  BY <1>1, <1>2 DEF MemoryInv, MchOK
<1>15. /\ Grows /\ WordEffect(t) /\ MchEffect(t)
       /\ \A b \in Addresses : IsHelper(h) => word'[b] # h
  <2>1. CASE h # Fail /\ word[a] = h
    <3>1. IsHelper(h)
      BY <1>2, <1>6, <1>14, <2>1, HelperTyped DEF MemoryInv, IsHelper
    <3>2. word' = [word EXCEPT ![a] = v]
      BY <1>1, <1>5, <2>1 DEF RemoveHelper
    <3>3. TakenOut(a)
      BY <1>2, <1>14, <2>1, <3>1 DEF TakenOut
    <3>4. Succeeded(c.cr[1]) <=> Outcome(c.cr[1]) # Fail
      <4>1. c.cr[1] \in DOMAIN desc /\ Outcome(c.cr[1]) \in {Null, Fail} \cup Helpers
        <5>1. c.cr[1] \in DOMAIN desc
          BY <1>2, LenProperties DEF MemoryInv, Live
        <5>. QED BY <1>2, <5>1, RowTyped DEF MemoryInv
      <4>. QED BY <1>2, <4>1, HelperTyped DEF Succeeded, Outcome, IsHelper
    <3>5. Logical(a) = v
      BY <1>1, <1>2, <1>5, <1>14, <2>1, <3>1, <3>4 DEF Logical
    <3>6. word'[a] = v
      BY <1>2, <1>6, <3>2 DEF MemoryInv
    <3>7. Logical(a)' = v
      BY <1>6, <3>6 DEF Logical
    <3>8. Grows /\ WordEffect(t) /\ MchEffect(t) /\ \A b \in Addresses : b # a => word'[b] = word[b]
      BY <1>2, <1>3, <1>6, <3>2, <3>3, <3>5, <3>7, WordPut
    <3>. QED BY <1>6, <2>1, <3>1, <3>6, <3>8, LiesOnce
  <2>2. CASE h = Fail \/ word[a] # h
    <3>1. word' = word
      BY <1>1, <1>5, <2>2 DEF RemoveHelper
    <3>2. Grows /\ WordEffect(t) /\ MchEffect(t)
      BY <1>2, <1>3, <3>1 DEF Grows, MemoryInv, MchEffect, WordEffect
    <3>3. ASSUME NEW b \in Addresses, IsHelper(h), word'[b] = h PROVE FALSE
      BY <1>5, <1>14, <2>2, <3>1, <3>3, LiesOnce, HelperTyped
    <3>. QED BY <3>2, <3>3
  <2>. QED BY <2>1, <2>2
<1>16. RetireEffect(t, {h} \ {Null, Fail}) /\ {h} \ {Null, Fail} \in SUBSET Helpers
  <2>1. ASSUME IsHelper(h)
        PROVE  h \notin retired /\ mch[h.cr] = h /\ h # Null /\ Passes(t, h)
    <3>1. mch[h.cr] = h /\ h # Null
      BY <1>1, <1>14, <2>1, HelperTyped
    <3>2. ~ Removed(h.cr)
      BY <1>2, <1>4, <1>8, <1>14, <2>1 DEF Removed
    <3>3. Passes(t, h)
      BY <1>1, <1>2, <1>8, <1>9, <1>12, <1>14, <2>1 DEF Passes
    <3>. QED BY <3>1, <3>2, <3>3 DEF HelperInv, RetiredOK
  <2>. QED BY <1>3, <1>14, <1>15, <2>1 DEF RetireEffect, IsHelper
<1>. QED BY <1>3, <1>13, <1>15, <1>16 DEF Effect

\* A stack that is emptied, or that gets its first activation.
LEMMA RestartEvolves ==
  ASSUME ShapeInv, NEW t \in Threads, NEW f, NEW s, stack' = [stack EXCEPT ![t] = s],
         s = <<>> \/ (s = <<f>> /\ stack[t] = <<>> /\ Starts(f))
  PROVE  Evolves(t)
<1>1. stack'[t] = s /\ \A u \in Threads : u # t => stack'[u] = stack[u]
  BY DEF ShapeInv, TypeOK
<1>2. CASE s = <<>>
  <2>1. Height(t)' = 0
    BY <1>1, <1>2 DEF Height
  <2>. QED BY <1>1, <2>1 DEF Evolves
<1>3. CASE s = <<f>> /\ stack[t] = <<>> /\ Starts(f)
  <2>1. Height(t)' = 1 /\ Nth(t, 1)' = f
    BY <1>1, <1>3 DEF Height, Nth, FromEnd
  <2>2. Height(t) = 0
    BY <1>3 DEF Height
  <2>. QED BY <1>1, <1>3, <2>1, <2>2 DEF Evolves
<1>. QED BY <1>2, <1>3

LEMMA ReadReturnsEffect ==
  ASSUME HelperInv, NEW t \in Threads, ReadReturns(t)
  PROVE  Effect(t)
<1>1. word' = word /\ mch' = mch /\ desc' = desc /\ Deallocs({}) /\ ShapeInv
  BY DEF ReadReturns, memory, caller, HelperInv
<1>2. Grows
  BY <1>1 DEF Grows, ShapeInv, MemoryInv
<1>3. Evolves(t)
  BY <1>1, RestartEvolves DEF ReadReturns
<1>. QED BY <1>1, <1>2, <1>3, Quiet

LEMMA InvokeEffect ==
  ASSUME HelperInv, NEW t \in Threads, Invoke(t)
  PROVE  Effect(t)
<1>1. ShapeInv /\ Grows
  BY InvokeShape DEF HelperInv
<1>2. PICK u, x : u = (checkId[t] + 1) % NThreads /\ x = IF u = t THEN "next" ELSE "assist"
  OBVIOUS
<1>3. PICK f : f = Activation("own", <<Len(desc) + 1, 1>>, x)
  OBVIOUS
<1>4. f.kind = "own" /\ f.cr[1] = Len(desc) + 1 /\ f.cvalue = Null /\ f.at \in {"next", "assist"}
  BY <1>2, <1>3 DEF Activation
<1>5. Starts(f)
  BY <1>4, HelperTyped DEF Starts, Holds, Placing
<1>6. stack' = [stack EXCEPT ![t] = <<f>>] /\ stack[t] = <<>>
  BY <1>2, <1>3 DEF Invoke, Call
<1>7. word' = word /\ mch' = mch /\ Deallocs({})
  BY DEF Invoke, memory
<1>8. Evolves(t)
  BY <1>1, <1>5, <1>6, RestartEvolves
<1>. QED BY <1>1, <1>7, <1>8, Quiet

LEMMA ReadEffect ==
  ASSUME HelperInv, NEW t \in Threads, Read(t)
  PROVE  Effect(t)
<1>1. PICK a, h : a = Head(script[t]).address /\ h = word[a]
  OBVIOUS
<1>2. ShapeInv /\ MemoryInv /\ stack[t] = <<>> /\ a \in Addresses
  <2>1. ShapeInv /\ MemoryInv
    BY DEF HelperInv, ShapeInv
  <2>2. Head(script[t]) \in Calls /\ Head(script[t]).kind = "read" /\ stack[t] = <<>>
    BY <2>1, CallTyped DEF Read
  <2>. QED BY <1>1, <2>1, <2>2 DEF Calls
<1>3. word' = word /\ mch' = mch /\ desc' = desc /\ Deallocs({})
  BY DEF Read, memory
<1>4. Grows
  BY <1>2, <1>3 DEF Grows, MemoryInv
<1>5. CASE ~ IsHelper(h)
  <2>1. stack' = [stack EXCEPT ![t] = <<>>]
    BY <1>1, <1>2, <1>5 DEF Read, ShapeInv, TypeOK
  <2>2. Evolves(t)
    BY <1>2, <2>1, RestartEvolves
  <2>. QED BY <1>3, <1>4, <2>2, Quiet
<1>6. CASE IsHelper(h)
  <2>1. PICK f : f = [Activation("read", h.cr, "judge") EXCEPT !.cvalue = h]
    OBVIOUS
  <2>2. Help(t, f, h.cr) /\ h.cr \in Rows /\ h \in Helpers
    BY <1>1, <1>6, <2>1, HelperTyped DEF Read
  <2>3. f \in Frames /\ f.kind = "read" /\ f.cr = h.cr /\ f.cvalue = h /\ f.at = "judge"
    <3>1. 0 \in 0 .. MaxFail + 1
      BY MCasConstants
    <3>. QED BY <2>1, <2>2, <3>1 DEF Frames, Activation, Labels
  <2>4. Starts(f)
    BY <1>1, <1>2, <1>3, <2>3 DEF Starts, Holds, Lies
  <2>5. Evolves(t)
    BY <1>2, <2>2, <2>3, <2>4, HelpEvolves
  <2>. QED BY <1>3, <1>4, <2>5, Quiet
<1>. QED BY <1>5, <1>6
-------------------------------------------------------------------------------
(* HelperInv holds always, and the claims about helpers and words with it.  *)

\* A step gives nothing to limbo that was there before, and takes nothing out of a
\* word that an open row needs there.
LEMMA EffectStep ==
  ASSUME HelperInv, ShapeInv', Next
  PROVE  \E t \in Threads : Effect(t)
<1>0. MemoryInv'
  BY DEF ShapeInv
<1>1. PICK t \in Threads : Step(t) \/ Invoke(t) \/ Read(t)
  BY DEF Next
<1>2. CASE \/ Assist(t) \/ NextPlace(t) \/ Load(t) \/ Loop(t) \/ Announce(t)
  BY <1>0, <1>2, AssistEffect, NextPlaceEffect, LoadEffect, LoopEffect, AnnounceEffect
<1>3. CASE TryValue(t) \/ Adopt(t) \/ Undo(t) \/ ShouldReplace(t) \/ Judge(t) \/ Swap(t)
  BY <1>0, <1>3, TryValueEffect, AdoptEffect, UndoEffect, ShouldReplaceEffect, JudgeEffect, SwapEffect
<1>4. CASE Associate(t) \/ Restore(t) \/ FailRow(t) \/ FailLast(t)
  BY <1>0, <1>4, AssociateEffect, RestoreEffect, FailRowEffect, FailLastEffect
<1>5. CASE Check(t) \/ HelpReturns(t) \/ Withdraw(t) \/ Decide(t) \/ RemoveHelper(t)
  BY <1>5, CheckEffect, HelpReturnsEffect, WithdrawEffect, DecideEffect, RemoveHelperEffect
<1>6. CASE ReadReturns(t) \/ Invoke(t) \/ Read(t)
  BY <1>6, ReadReturnsEffect, InvokeEffect, ReadEffect
<1>. QED BY <1>1, <1>2, <1>3, <1>4, <1>5, <1>6 DEF Step

LEMMA HelperInit == Init => HelperInv
<1>. SUFFICES ASSUME Init PROVE HelperInv
  OBVIOUS
<1>1. ShapeInv
  BY ShapeInit
<1>2. /\ \A r \in Rows : mch[r] = Null
      /\ \A t \in Threads : Height(t) = 0
      /\ \A a \in Addresses : word[a] = Initial
      /\ retired = {} /\ twice = {}
  BY DEF Init, Height
<1>3. AssociatedIsInstalled
  BY <1>2, HelperTyped DEF AssociatedIsInstalled
<1>4. FramesSeated /\ OwnedHidden /\ OwnedApart /\ OwnersApart
  BY <1>2 DEF FramesSeated, OwnedHidden, OwnedApart, OwnersApart
<1>5. retired \subseteq Referenced /\ RetiredIsUnreachable /\ RetiredOK
  BY <1>2 DEF RetiredIsUnreachable, RetiredOK
<1>. QED BY <1>1, <1>3, <1>4, <1>5 DEF HelperInv

\* Nothing changes, or one of the threads has an effect.
LEMMA HelperStep == HelperInv /\ [Next]_vars => HelperInv'
<1>. SUFFICES ASSUME HelperInv, [Next]_vars PROVE HelperInv'
  OBVIOUS
<1>1. ShapeInv'
  BY ShapeStep DEF HelperInv
<1>2. CASE Next
  BY <1>1, <1>2, EffectStep, EffectKeeps
<1>3. CASE UNCHANGED vars
  <2>1. /\ word' = word /\ desc' = desc /\ mch' = mch /\ stack' = stack /\ retired' = retired
        /\ twice' = twice
    BY <1>3 DEF vars, memory, caller
  <2>2. AssociatedIsInstalled'
    BY <2>1 DEF HelperInv, AssociatedIsInstalled, Open, Undecided, SomeFailed, Row
  <2>3. FramesSeated'
    BY <2>1 DEF HelperInv, FramesSeated, FrameSeated, Seated, Open, Undecided, SomeFailed, Row, Height, Nth
  <2>4. OwnedHidden' /\ OwnedApart' /\ OwnersApart'
    BY <2>1 DEF HelperInv, OwnedHidden, OwnedApart, OwnersApart, Hidden, Lies, Height, Nth
  <2>5. (retired \subseteq Referenced)' /\ RetiredIsUnreachable' /\ RetiredOK'
    BY <2>1 DEF HelperInv, Referenced, RetiredIsUnreachable, RetiredOK, Removed, Height, Nth
  <2>. QED BY <1>1, <2>2, <2>3, <2>4, <2>5 DEF HelperInv
<1>. QED BY <1>2, <1>3

LEMMA HelperAlways == Spec => []HelperInv
BY HelperInit, HelperStep, PTL DEF Spec

\* While an operation can still succeed, no step of any thread takes the helper of one
\* of its rows out of its word (wfmcas.cc:208-209).
THEOREM AssociatedStaysInstalled == Spec => []AssociatedIsInstalled
<1>1. HelperInv => AssociatedIsInstalled
  BY DEF HelperInv
<1>. QED BY <1>1, HelperAlways, PTL

\* Of the threads that could restore, replace or remove a helper one does and gives it
\* to limbo; it never comes back into a word (wfmcas.cc:183-184, 213-214, 400).
THEOREM RetiredStaysUnreachable == Spec => []RetiredIsUnreachable
<1>1. HelperInv => RetiredIsUnreachable
  BY DEF HelperInv
<1>. QED BY <1>1, HelperAlways, PTL
-------------------------------------------------------------------------------
(* What an address is worth.                                                *)

Won(h) == mch[h.cr] = h /\ Succeeded(h.cr[1])

\* An operation succeeds once and for all.
LEMMA WonKept ==
  ASSUME MemoryInv, MemoryInv', Grows, NEW h, IsHelper(h), HelperOK(h)
  PROVE  /\ Won(h) => Won(h)'
         /\ Won(h)' /\ ~ Won(h) => Undecided(h.cr[1]) /\ mch[h.cr] \in {Null, h}
<1>1. PICK r : r = h.cr
  OBVIOUS
<1>2. r \in Rows /\ Live(r)
  BY <1>1, HelperTyped DEF HelperOK
<1>3. /\ Live(r)' /\ desc'[r[1]] = desc[r[1]] /\ r[1] \in DOMAIN desc /\ r[1] \in DOMAIN desc'
      /\ mch[r] # Null => mch'[r] = mch[r]
      /\ Outcome(r[1]) # Null => Outcome(r[1])' = Outcome(r[1])
  <2>1. Live(r)'
    BY <1>2, RowKept
  <2>2. r[1] \in DOMAIN desc /\ r[1] \in DOMAIN desc' /\ desc'[r[1]] = desc[r[1]]
    BY <1>2, <2>1, LenProperties DEF MemoryInv, Live, Grows
  <2>3. mch[r] # Null => mch'[r] = mch[r]
    BY <1>2 DEF Grows
  <2>. QED BY <1>2, <2>1, <2>2, <2>3, RowKept
<1>4. Succeeded(r[1]) <=> IsHelper(Outcome(r[1]))
  BY <1>3 DEF Succeeded, Outcome
<1>5. Succeeded(r[1])' <=> IsHelper(Outcome(r[1])')
  BY <1>3 DEF Succeeded, Outcome
<1>6. Succeeded(r[1]) => mch[r] # Null
  <2>. SUFFICES ASSUME Succeeded(r[1]) PROVE mch[r] # Null
    OBVIOUS
  <2>1. PICK l : l = LastRow(r)
    OBVIOUS
  <2>2. /\ l \in Rows /\ Live(l) /\ mch[l] = Outcome(r[1]) /\ l = <<r[1], l[2]>> /\ r = <<r[1], r[2]>>
        /\ r[2] \in Nat /\ l[2] \in Nat /\ r[2] <= l[2] /\ l[1] = r[1]
    BY <1>2, <2>1, RowTyped DEF LastRow
  <2>3. IsHelper(mch[l])
    BY <1>4, <2>2
  <2>4. Earlier(l)
    BY <2>2, <2>3 DEF MemoryInv, MchOK
  <2>5. CASE r[2] = l[2]
    BY <2>2, <2>3, <2>5, HelperTyped
  <2>6. CASE r[2] # l[2]
    <3>1. r[2] \in 1 .. l[2] - 1
      BY <1>2, <2>2, <2>6, MCasConstants DEF Rows, Addresses
    <3>. QED BY <2>2, <2>4, <3>1 DEF Earlier
  <2>. QED BY <2>5, <2>6
<1>7. ASSUME Won(h) PROVE Won(h)'
  <2>1. Outcome(r[1])' = Outcome(r[1])
    BY <1>1, <1>3, <1>4, <1>7, HelperTyped DEF Won
  <2>2. mch'[r] = h
    BY <1>1, <1>3, <1>7, HelperTyped DEF Won
  <2>. QED BY <1>1, <1>4, <1>5, <1>7, <2>1, <2>2 DEF Won
<1>8. ASSUME Won(h)', ~ Won(h) PROVE Undecided(h.cr[1]) /\ mch[h.cr] \in {Null, h}
  <2>1. mch'[r] = h /\ mch[r] \in {Null, h} /\ IsHelper(Outcome(r[1])')
    BY <1>1, <1>3, <1>5, <1>8 DEF Won
  <2>2. ~ Succeeded(r[1])
    BY <1>1, <1>6, <1>8, <2>1 DEF Won
  <2>3. Outcome(r[1]) = Null
    BY <1>3, <1>4, <2>1, <2>2
  <2>. QED BY <1>1, <1>3, <2>1, <2>3 DEF Undecided, Outcome
<1>. QED BY <1>7, <1>8

\* If the word stays, its worth changes only when the operation of its helper succeeds.
LEMMA WorthChanges ==
  ASSUME MemoryInv, MemoryInv', Grows, NEW a \in Addresses, word'[a] = word[a], Logical(a)' # Logical(a)
  PROVE  word[a].cr \in Rows /\ TakesEffect(a, word[a].cr)
<1>1. PICK h, r : h = word[a] /\ r = h.cr
  OBVIOUS
<1>2. IsHelper(h)
  BY <1>1 DEF Logical
<1>3. r \in Rows /\ Live(r) /\ Row(r).address = a /\ HelperOK(h)
  BY <1>1, <1>2, HelperTyped DEF MemoryInv, WordOK, HelperOK
<1>4. Row(r)' = Row(r)
  BY <1>3, RowKept
<1>5. Logical(a) = IF Won(h) THEN Row(r).new ELSE Row(r).expected
  BY <1>1, <1>2 DEF Logical, Won
<1>6. Logical(a)' = IF Won(h)' THEN Row(r).new ELSE Row(r).expected
  <2>1. PICK k : k = word'[a]
    OBVIOUS
  <2>2. Logical(a)' = IF Won(k)' THEN Row(k.cr)'.new ELSE Row(k.cr)'.expected
    BY <1>1, <1>2, <2>1 DEF Logical, Won
  <2>3. k = h /\ k.cr = r
    BY <1>1, <2>1
  <2>. QED BY <1>4, <2>2, <2>3 DEF Row, Won, Succeeded
<1>7. Won(h)' /\ ~ Won(h) /\ Logical(a) = Row(r).expected /\ Logical(a)' = Row(r).new
  BY <1>2, <1>3, <1>5, <1>6, WonKept
<1>8. Undecided(r[1]) /\ Succeeded(r[1])' /\ mch'[r] = h
  BY <1>1, <1>2, <1>3, <1>7, WonKept DEF Won
<1>. QED BY <1>1, <1>3, <1>7, <1>8 DEF TakesEffect

\* What an address is worth changes when an operation is decided, or when a thread has
\* taken a failing operation for done (wfmcas.cc:307, 340, 367-378).
THEOREM WorthChangesByDecision == Spec => LogicalStep
<1>1. ASSUME HelperInv, HelperInv', [Next]_vars, NEW a \in Addresses, Logical(a)' # Logical(a)
      PROVE  (\E r \in Rows : TakesEffect(a, r)) \/ TakenForDone(a)
  <2>1. MemoryInv /\ MemoryInv' /\ ShapeInv'
    BY <1>1 DEF HelperInv, ShapeInv
  <2>2. Next
    <3>. SUFFICES ASSUME UNCHANGED vars PROVE FALSE
      BY <1>1
    <3>1. word' = word /\ mch' = mch /\ desc' = desc
      BY DEF vars, memory, caller
    <3>. QED BY <1>1, <3>1 DEF Logical, Succeeded, Row
  <2>3. PICK t \in Threads : Grows /\ WordEffect(t)
    BY <1>1, <2>1, <2>2, EffectStep DEF Effect
  <2>4. CASE word'[a] = word[a]
    BY <1>1, <2>1, <2>3, <2>4, WorthChanges
  <2>5. CASE word'[a] # word[a]
    BY <1>1, <2>3, <2>5 DEF WordEffect
  <2>. QED BY <2>4, <2>5
<1>2. HelperInv /\ HelperInv' /\ [Next]_vars =>
        [\A a \in Addresses : Logical(a)' # Logical(a) =>
            (\E r \in Rows : TakesEffect(a, r)) \/ TakenForDone(a)]_vars
  BY <1>1
<1>. QED BY <1>2, HelperAlways, PTL DEF Spec, LogicalStep
-------------------------------------------------------------------------------
(* What a reader is told was true at a moment of its read.                  *)

\* The read of the helper h: its worth to the reader has been seen, and as long as the
\* row can be decided with h, its word holds h or has been worth the new value.
ReadKnows(t, h) ==
    /\ ~ Won(h) => Row(h.cr).expected \in seen[t]
    /\ Won(h) => Row(h.cr).new \in seen[t]
    /\ Outcome(h.cr[1]) = Null /\ mch[h.cr] \in {Null, h}
          => word[Row(h.cr).address] = h \/ Row(h.cr).new \in seen[t]
Reads(t) == Height(t) # 0 /\ Nth(t, 1).kind = "read"
ReadsOK == \A t \in Threads : Reads(t) => ReadKnows(t, Nth(t, 1).cvalue)
LEMMA ReadsIs ==
  ASSUME ShapeInv, NEW t \in Threads
  PROVE  /\ Reading(t) <=> Reads(t)
         /\ Reads(t) => /\ IsHelper(Nth(t, 1).cvalue) /\ HelperOK(Nth(t, 1).cvalue)
                        /\ ReadAddress(t) = Row(Nth(t, 1).cvalue.cr).address
<1>1. stack[t] \in Seq(Frames) /\ Height(t) \in Nat /\ \A k \in 1 .. Height(t) : FrameOK(Nth(t, k))
  BY FrameTyped
<1>2. stack[t] = <<>> <=> Height(t) = 0
  BY <1>1 DEF Height
<1>3. Nth(t, 1) = stack[t][Len(stack[t])]
  BY <1>1 DEF Nth, FromEnd, Height
<1>4. Reading(t) <=> Reads(t)
  BY <1>2, <1>3 DEF Reading, Reads
<1>5. ASSUME Reads(t)
      PROVE  /\ IsHelper(Nth(t, 1).cvalue) /\ HelperOK(Nth(t, 1).cvalue)
             /\ ReadAddress(t) = Row(Nth(t, 1).cvalue.cr).address
  <2>1. PICK f : f = Nth(t, 1)
    OBVIOUS
  <2>2. 1 \in 1 .. Height(t)
    BY <1>1, <1>5 DEF Reads
  <2>3. FrameOK(f) /\ f.kind = "read"
    BY <1>1, <1>5, <2>1, <2>2 DEF Reads
  <2>4. IsHelper(f.cvalue) /\ HelperOK(f.cvalue) /\ f.cr = f.cvalue.cr
    BY <2>3 DEF FrameOK, LabelOK
  <2>. QED BY <1>3, <2>1, <2>4 DEF ReadAddress
<1>. QED BY <1>4, <1>5

\* The same, of a thread that reads h.
ReadsTyped == \A t \in Threads :
    /\ Reading(t) <=> Reads(t)
    /\ \A h : Reads(t) /\ Nth(t, 1).cvalue = h =>
          IsHelper(h) /\ HelperOK(h) /\ Logical(ReadAddress(t)) = Logical(Row(h.cr).address)

LEMMA ReadsAreTyped == ShapeInv => ReadsTyped
BY ReadsIs DEF ReadsTyped

LEMMA ReadsTypedNext == ShapeInv' => ReadsTyped'
BY ReadsAreTyped, PTL

\* The word of h, in the state a step reaches.
WorthOf(h) ==
    LET a == Row(h.cr).address
    IN  word[a] = h => Logical(a) = IF Won(h) THEN Row(h.cr).new ELSE Row(h.cr).expected
HelpersAreWorth == \A h : IsHelper(h) => WorthOf(h)

LEMMA HelpersWorth == HelpersAreWorth
BY DEF HelpersAreWorth, WorthOf, Logical, Won

LEMMA HelpersWorthNext == HelpersAreWorth'
BY HelpersWorth, PTL

LEMMA ReadsKept ==
  ASSUME HelperInv, ShapeInv', ReadsOK, NEW t \in Threads, Effect(t)
  PROVE  ReadsOK'
<1>. SUFFICES ASSUME NEW u \in Threads, NEW h, h = Nth(u, 1)'.cvalue, Reads(u)'
              PROVE  ReadKnows(u, h)'
  BY DEF ReadsOK
<1>1. /\ ShapeInv /\ MemoryInv /\ MemoryInv' /\ Grows /\ Evolves(t) /\ WordEffect(t) /\ MchEffect(t)
  BY DEF HelperInv, ShapeInv, Effect
<1>2. PICK hs : Deallocs(hs)
  BY DEF Effect
<1>3. IsHelper(h) /\ HelperOK(h)' /\ Reading(u)' /\ Logical(ReadAddress(u))' = Logical(Row(h.cr).address)'
  BY ReadsTypedNext DEF ReadsTyped
<1>4. seen'[u] = seen[u] \cup {Logical(Row(h.cr).address)'}
  BY <1>2, <1>3 DEF Deallocs
<1>5. PICK f : f = Nth(u, 1)'
  OBVIOUS
<1>6. f.kind = "read" /\ f.cvalue = h /\ 1 \in 1 .. Height(u)'
  <2>1. Height(u)' \in Nat
    <3>1. stack'[u] \in Seq(Frames)
      BY DEF ShapeInv, TypeOK
    <3>. QED BY <3>1, LenProperties DEF Height
  <2>. QED BY <1>5, <2>1 DEF Reads
<1>7. h.cr \in Rows
  BY <1>3, HelperTyped
<1>8. CASE 1 \in 1 .. Height(u) /\ Inherits(Nth(u, 1), f)
  <2>1. Reads(u) /\ Nth(u, 1).cvalue = h
    BY <1>6, <1>8 DEF Inherits, Reads
  <2>2. ReadKnows(u, h) /\ HelperOK(h)
    BY <1>1, <2>1, ReadsIs DEF ReadsOK
  <2>3. Live(h.cr)
    BY <2>2 DEF HelperOK
  <2>4. PICK a : a = Row(h.cr).address
    OBVIOUS
  <2>5. /\ Row(h.cr)' = Row(h.cr) /\ a \in Addresses
        /\ Outcome(h.cr[1]) # Null => Outcome(h.cr[1])' = Outcome(h.cr[1])
        /\ mch[h.cr] # Null => mch'[h.cr] = mch[h.cr]
    BY <1>1, <1>7, <2>3, <2>4, RowKept, RowTyped
  <2>6. Row(h.cr)'.address = a /\ Logical(a)' \in seen'[u] /\ seen[u] \subseteq seen'[u]
    <3>1. Logical(Row(h.cr).address)' = Logical(a)'
      BY <2>4, <2>5 DEF Logical, Row
    <3>. QED BY <1>4, <2>4, <2>5, <3>1
  <2>7. Won(h) => Won(h)'
    BY <1>1, <1>3, <2>2, WonKept
  <2>8. word'[a] = h => Logical(a)' = IF Won(h)' THEN Row(h.cr).new ELSE Row(h.cr).expected
    <3>1. WorthOf(h)'
      BY <1>3, HelpersWorthNext DEF HelpersAreWorth
    <3>. QED BY <2>4, <2>5, <3>1 DEF WorthOf, Logical, Row
  <2>9. ASSUME Won(h)', ~ Won(h) PROVE Row(h.cr).new \in seen'[u]
    <3>1. Outcome(h.cr[1]) = Null /\ mch[h.cr] \in {Null, h}
      BY <1>1, <1>3, <2>2, <2>9, WonKept DEF Undecided, Outcome
    <3>2. CASE Row(h.cr).new \in seen[u]
      BY <2>6, <3>2
    <3>3. CASE word[a] = h
      <4>1. word'[a] = h
        <5>. SUFFICES ASSUME word'[a] # word[a] PROVE FALSE
          BY <3>3
        <5>1. mch' = mch /\ desc' = desc
          BY <1>1, <2>5 DEF WordEffect
        <5>. QED BY <2>9, <5>1 DEF Won, Succeeded
      <4>. QED BY <2>6, <2>8, <2>9, <4>1
    <3>. QED BY <2>2, <2>4, <3>1, <3>2, <3>3 DEF ReadKnows
  <2>10. ASSUME Outcome(h.cr[1])' = Null, mch'[h.cr] \in {Null, h}
         PROVE  word'[a] = h \/ Row(h.cr).new \in seen'[u]
    <3>1. Outcome(h.cr[1]) = Null /\ mch[h.cr] \in {Null, h}
      BY <2>5, <2>10
    <3>2. CASE Row(h.cr).new \in seen[u]
      BY <2>6, <3>2
    <3>3. CASE word[a] = h /\ word'[a] # h
      <4>1. TakenForDone(a)
        BY <1>1, <1>3, <2>5, <3>1, <3>3 DEF WordEffect, TakenOut
      <4>. QED BY <2>6, <3>3, <4>1 DEF TakenForDone
    <3>. QED BY <2>2, <2>4, <3>1, <3>2, <3>3 DEF ReadKnows
  <2>. QED BY <2>2, <2>5, <2>6, <2>7, <2>9, <2>10 DEF ReadKnows
<1>9. CASE Starts(f)
  <2>1. word' = word /\ mch' = mch /\ desc' = desc /\ Lies(h)
    BY <1>3, <1>6, <1>9 DEF Starts
  <2>2. PICK a \in Addresses : word[a] = h
    BY <2>1 DEF Lies
  <2>3. Row(h.cr).address = a
    BY <1>1, <1>3, <2>2 DEF MemoryInv, WordOK
  <2>4. Logical(Row(h.cr).address)' = Logical(a) /\ (Won(h)' <=> Won(h)) /\ Row(h.cr)' = Row(h.cr)
    BY <2>1, <2>3 DEF Logical, Won, Succeeded, Row
  <2>5. Logical(a) = IF Won(h) THEN Row(h.cr).new ELSE Row(h.cr).expected
    BY <1>3, <2>2 DEF Logical, Won
  <2>. QED BY <1>4, <2>1, <2>2, <2>3, <2>4, <2>5 DEF ReadKnows
<1>. QED BY <1>1, <1>5, <1>6, <1>8, <1>9, Origin

LEMMA ReadsAlways == Spec => []ReadsOK
<1>1. Init => ReadsOK
  BY DEF Init, ReadsOK, Reads, Height
<1>2. HelperInv /\ HelperInv' /\ ReadsOK /\ [Next]_vars => ReadsOK'
  <2>. SUFFICES ASSUME HelperInv, HelperInv', ReadsOK, [Next]_vars PROVE ReadsOK'
    OBVIOUS
  <2>1. ShapeInv'
    BY DEF HelperInv
  <2>2. CASE Next
    BY <2>1, <2>2, EffectStep, ReadsKept
  <2>3. CASE UNCHANGED vars
    <3>1. word' = word /\ mch' = mch /\ desc' = desc /\ stack' = stack /\ seen' = seen
      BY <2>3 DEF vars, memory, caller
    <3>. QED BY <3>1 DEF ReadsOK, Reads, ReadKnows, Won, Succeeded, Outcome, Row, Height, Nth
  <2>. QED BY <2>2, <2>3
<1>. QED BY <1>1, <1>2, HelperAlways, PTL DEF Spec

\* mcas_read returns what its address was worth at a moment of the read, if
\* help_complete has left the operation it reports as successful decided
\* (wfmcas.cc:449-456).  With one thread recur_depth is at its limit at once and
\* help_complete does nothing.
THEOREM ReadsAreLinearizable == ASSUME NThreads > 1 PROVE Spec => []ReadIsLinearizable
<1>1. ASSUME HelperInv, ReadsOK PROVE ReadIsLinearizable
  <2>. SUFFICES ASSUME NEW t \in Threads, At(t, "judge"), Frame(t).kind = "read", HelpCompleted(t)
                PROVE  Worth(Frame(t), Frame(t).cvalue) \in seen[t]
    BY DEF ReadIsLinearizable
  <2>1. PICK c, h : c = Frame(t) /\ h = c.cvalue
    OBVIOUS
  <2>2. ShapeInv /\ MemoryInv /\ stack[t] # <<>> /\ c.kind = "read" /\ c.at = "judge"
    BY <1>1, <2>1 DEF HelperInv, ShapeInv, At
  <2>3. /\ FrameOK(c) /\ c \in Frames /\ ResultOK(c) /\ c = Nth(t, Height(t))
        /\ Height(t) \in Nat /\ Height(t) >= 1
    BY <2>1, <2>2, TopIs
  <2>4. Height(t) = 1
    <3>1. Height(t) \in 1 .. Height(t) /\ StackOK(stack[t], depth[t])
      BY <2>2, <2>3, FrameTyped
    <3>. QED BY <2>2, <2>3, <3>1 DEF StackOK, Height, Nth
  <2>5. ReadKnows(t, h)
    BY <1>1, <2>1, <2>2, <2>3, <2>4 DEF ReadsOK, Reads
  <2>6. c.res \in {0, 1} /\ (c.res = 1 => Outcome(h.cr[1]) = Fail)
    BY <2>1, <2>2, <2>3 DEF ResultOK, Frames
  <2>7. c.res = 1 => ~ Won(h)
    BY <2>6, HelperTyped DEF Won, Succeeded, Outcome
  <2>8. c.res = 0 => Succeeded(h.cr[1])
    BY <2>1 DEF HelpCompleted
  <2>. QED BY <2>1, <2>5, <2>6, <2>7, <2>8 DEF ReadKnows, Worth, Won
<1>. QED BY <1>1, HelperAlways, ReadsAlways, PTL
===============================================================================
