----------------------------- MODULE LimboGroup -----------------------------
(***************************************************************************)
(* The chain of LimboGroups of one ThreadInfo: push_back, record_rcu,      *)
(* refill_group, clean_until and hard_free (src/include/lf/limbo.hh,       *)
(* src/src/limbo.cc).  The chain belongs to one thread; what interleaves   *)
(* with it are the callbacks hard_free runs, which record in turn.         *)
(***************************************************************************)
EXTENDS Integers, SequencesExt

CONSTANTS Items,       \* pointers the thread records
          Callbacks,   \* those recorded with MemTagRcuCallback
          NoPtr,       \* nullptr
          MaxEpoch,    \* bound on global_epoch
          Capacity,    \* LimboGroup::capacity
          Budget       \* hard_free's count (1024 * 10)

ASSUME GroupConstants == /\ Callbacks \subseteq Items
                         /\ NoPtr \notin Items
                         /\ MaxEpoch \in Nat
                         /\ Capacity \in Nat \ {0, 1}
                         /\ Budget \in Nat \ {0}

VARIABLES now,     \* global_epoch
          chain,   \* the groups in next_ order, from the first not deleted
          tg,      \* position of group_tail_ in the chain
          gone,    \* groups from empty_head to empty_tail, at the front
          pc,      \* idle, clean (in clean_until), callback or splice
          bound,   \* hard_free's epoch_bound
          count,   \* hard_free's count
          epoch    \* clean_until's epoch

vars == <<now, chain, tg, gone, pc, bound, count, epoch>>

\* A slot holds a pointer and its tag, or nullptr and an epoch.
Tag == -1
Marker(e) == [ptr |-> NoPtr, u |-> e]
Slot == [ptr : Items, u : {Tag}] \cup [ptr : {NoPtr}, u : 0 .. MaxEpoch]

\* tail_ is the length of slots; epoch is epoch_.
Group == [head : 0 .. Capacity, slots : Seq(Slot), epoch : 0 .. MaxEpoch]
NewGroup == [head |-> 0, slots |-> <<>>, epoch |-> 0]
IsEmpty(g) == g.head = Len(g.slots)
First(g) == g.slots[g.head + 1]

gh == gone + 1      \* position of group_head_
Head_ == chain[gh]

Init == /\ now = 0
        /\ chain = <<NewGroup>>
        /\ tg = 1
        /\ gone = 0
        /\ pc = "idle"
        /\ bound = 0
        /\ count = 0
        /\ epoch = 0

Tick == /\ now < MaxEpoch
        /\ now' = now + 1
        /\ UNCHANGED <<chain, tg, gone, pc, bound, count, epoch>>
-------------------------------------------------------------------------------
PushBack(g, x) ==
    LET marker == IF IsEmpty(g) \/ g.epoch # now THEN <<Marker(now)>> ELSE <<>>
    IN  [g EXCEPT !.slots = @ \o marker \o <<[ptr |-> x, u |-> Tag]>>, !.epoch = now]

Full(g) == Len(g.slots) + 2 > Capacity

\* What clean_until makes of the slots in s: the epoch it has last read, e at first,
\* and the pointers it has met, each with the epoch read before it.
Meet(r, x) == IF x.ptr = NoPtr THEN [epoch |-> x.u, queue |-> r.queue]
              ELSE [epoch |-> r.epoch, queue |-> Append(r.queue, [item |-> x.ptr, epoch |-> r.epoch])]
Reading(s, e) ==
    LET after[j \in 0 .. Len(s)] == IF j = 0 THEN [epoch |-> e, queue |-> <<>>] ELSE Meet(after[j - 1], s[j])
    IN  after[Len(s)]

Live(g) == SubSeq(g.slots, g.head + 1, Len(g.slots))

\* The queue the chain stands for: the pointers from group_head_ to group_tail_; the
\* one free_rcu runs is already out.
Queue == LET first == IF pc = "callback" THEN Tail(Live(Head_)) ELSE Live(Head_)
         IN  Reading(first, epoch).queue
                \o FlattenSeq([i \in 1 .. tg - gh |-> Reading(Live(chain[gh + i]), 0).queue])

\* A pointer is recorded once until it is freed; a callback may record itself
\* while it runs.
Waiting == LET q == Queue IN {q[i].item : i \in 1 .. Len(q)}

RecordRcu(x) ==
    /\ pc \in {"idle", "callback"}
    /\ x \in Items \ Waiting
    /\ LET refilled == IF tg = Len(chain) THEN Append(chain, NewGroup) ELSE chain
       IN  IF Full(chain[tg])
           THEN /\ chain' = [refilled EXCEPT ![tg + 1] = PushBack(@, x)]
                /\ tg' = tg + 1
           ELSE /\ chain' = [chain EXCEPT ![tg] = PushBack(@, x)]
                /\ UNCHANGED tg
    /\ UNCHANGED <<now, gone, pc, bound, count, epoch>>
-------------------------------------------------------------------------------
\* hard_free, up to its loop; min_active_epoch() - 1 may be any bound.
HardFree(b) ==
    /\ pc = "idle"
    /\ ~ IsEmpty(Head_)
    /\ First(Head_).u <= b
    /\ pc' = "clean"
    /\ bound' = b
    /\ count' = Budget
    /\ epoch' = 0
    /\ UNCHANGED <<now, chain, tg, gone>>

Advance == chain' = [chain EXCEPT ![gh].head = @ + 1]

\* After free_rcu: out of count, the slot becomes a marker for what follows it.
Freed == /\ count' = count - 1
         /\ IF count = 1
            THEN /\ chain' = [chain EXCEPT ![gh].slots[Head_.head + 1] = Marker(epoch)]
                 /\ pc' = "splice"
            ELSE /\ Advance
                 /\ pc' = "clean"

FreeElement ==
    /\ pc = "clean"
    /\ ~ IsEmpty(Head_)
    /\ First(Head_).ptr \in Items \ Callbacks
    /\ Freed
    /\ UNCHANGED <<now, tg, gone, bound, epoch>>

CallCallback ==
    /\ pc = "clean"
    /\ ~ IsEmpty(Head_)
    /\ First(Head_).ptr \in Callbacks
    /\ pc' = "callback"
    /\ UNCHANGED <<now, chain, tg, gone, bound, count, epoch>>

CallbackReturns ==
    /\ pc = "callback"
    /\ Freed
    /\ UNCHANGED <<now, tg, gone, bound, epoch>>

\* MUTANT: stops at the bound instead of above it.
ReadMarkerAtBound ==
    /\ pc = "clean"
    /\ ~ IsEmpty(Head_)
    /\ First(Head_).ptr = NoPtr
    /\ epoch' = First(Head_).u
    /\ IF bound <= First(Head_).u
       THEN pc' = "splice" /\ UNCHANGED chain
       ELSE pc' = "clean" /\ Advance
    /\ UNCHANGED <<now, tg, gone, bound, count>>

ReadMarker ==
    /\ pc = "clean"
    /\ ~ IsEmpty(Head_)
    /\ First(Head_).ptr = NoPtr
    /\ epoch' = First(Head_).u
    /\ IF bound < First(Head_).u
       THEN pc' = "splice" /\ UNCHANGED chain
       ELSE pc' = "clean" /\ Advance
    /\ UNCHANGED <<now, tg, gone, bound, count>>

Reset(g) == [g EXCEPT !.head = 0, !.slots = <<>>]

\* The locals of hard_free die with it.
Return == pc' = "idle" /\ bound' = 0 /\ count' = 0 /\ epoch' = 0

\* clean_until emptied the group: hard_free goes on to the next one, or, at the
\* tail, returns with every group spare.
GroupEmptied ==
    /\ pc = "clean"
    /\ IsEmpty(Head_)
    /\ chain' = [chain EXCEPT ![gh] = Reset(@)]
    /\ IF gh = tg
       THEN /\ tg' = 1
            /\ gone' = 0
            /\ Return
       ELSE /\ gone' = gone + 1
            /\ epoch' = 0
            /\ UNCHANGED <<tg, pc, bound, count>>
    /\ UNCHANGED now

\* The emptied groups are linked in after group_tail_.
Splice ==
    /\ pc = "splice"
    /\ chain' = SubSeq(chain, gh, tg) \o SubSeq(chain, 1, gone) \o SubSeq(chain, tg + 1, Len(chain))
    /\ tg' = tg - gone
    /\ gone' = 0
    /\ Return
    /\ UNCHANGED now
-------------------------------------------------------------------------------
Next == \/ Tick
        \/ \E x \in Items : RecordRcu(x)
        \/ \E b \in 0 .. MaxEpoch : HardFree(b)
        \/ FreeElement \/ CallCallback \/ CallbackReturns
        \/ ReadMarker \/ GroupEmptied \/ Splice

Spec == Init /\ [][Next]_vars
-------------------------------------------------------------------------------
TypeOK == /\ now \in 0 .. MaxEpoch
          /\ chain \in Seq(Group)
          /\ \A i \in 1 .. Len(chain) : chain[i].head <= Len(chain[i].slots) /\ Len(chain[i].slots) <= Capacity
          /\ tg \in 1 .. Len(chain)
          /\ gone \in 0 .. tg - 1
          /\ pc \in {"idle", "clean", "callback", "splice"}
          /\ bound \in 0 .. MaxEpoch
          /\ count \in 0 .. Budget
          /\ epoch \in 0 .. MaxEpoch

\* Where hard_free is and what is left of its count, the pointer free_rcu runs taken off.
Pass == CASE pc = "idle" -> "idle" [] pc = "callback" -> "callback" [] OTHER -> "free"
Left == IF pc = "callback" THEN count - 1 ELSE count

Q == INSTANCE RecordQueue WITH queue <- Queue, pass <- Pass, count <- Left

\* The chain is a first-in first-out queue whatever the order of recording,
\* interrupting, reusing and splicing groups; hard_free frees nothing above its
\* bound and stops early only for its count.
IsRecordQueue == Q!Spec
===============================================================================
