------------------------------ MODULE Masstree ------------------------------
(***************************************************************************)
(* The trie of B+ trees (src/include/masstree): get, find_locked,          *)
(* find_insert with new layers and splits, remove with its leaf links, its *)
(* climb and its redirections, the callback that collects a layer, and scan. *)
(* One action per access to memory that another thread may read meanwhile; *)
(* what a lock and a dirty bit hide from everybody is one step.  A key is  *)
(* a sequence of slices of 8 bytes, which are numbers.                     *)
(***************************************************************************)
EXTENDS Integers, Sequences, FiniteSets, Functions

CONSTANTS Threads, Keys, Values, None,
          LeafWidth, InterWidth,  \* Leaf::width and InterNode::width
          InsertBits,             \* bits of the insert counter of a version
          MaxNodes,               \* bound: nodes that are ever made
          Scripts                 \* the calls every thread makes, after a load

Ids == 1 .. MaxNodes
Slots == 0 .. LeafWidth - 1

ASSUME MasstreeConstants ==
    /\ LeafWidth \in Nat /\ LeafWidth > 2 /\ InterWidth \in Nat /\ InterWidth > 1
    /\ InsertBits \in Nat /\ MaxNodes \in Nat \ {0}
    /\ None \notin Ids \cup Values /\ Values \cap Ids = {}
    /\ \A k \in Keys : k \in Seq(Nat \ {0}) /\ k # <<>>

VARIABLES node,     \* the nodes made so far
          root,     \* BasicTable::root_
          th,       \* per thread: where it is, and its local variables
          script,   \* the calls left: load, then calls[t]
          pending,  \* GcLayerRcuCallbacks registered, and whom they wait for
          retired,  \* per node: how often deallocated, and who may still use it
          map, call, scan \* history: the table as OrderedMap sees it

tree == <<node, root>>
limbo == <<pending, retired>>
history == <<map, call, scan>>
vars == <<tree, limbo, history, th, script>>
-------------------------------------------------------------------------------
(* NodeVersion.  count holds the split counter above the insert counter.    *)

NewVersion == [lock |-> FALSE, ins |-> FALSE, spl |-> FALSE, del |-> FALSE, root |-> FALSE, count |-> 0]
Dirty(v) == v.ins \/ v.spl
Changed(v, w) == [v EXCEPT !.lock = FALSE] # [w EXCEPT !.lock = FALSE]
HasSplit(v, w) == \/ v.count \div 2^InsertBits # w.count \div 2^InsertBits
                  \/ v.del # w.del \/ v.root # w.root

Unlocked(v) ==
    [v EXCEPT !.lock = FALSE, !.ins = FALSE, !.spl = FALSE, !.root = @ /\ ~v.spl,
              !.count = IF v.spl THEN ((@ \div 2^InsertBits) + 1) * 2^InsertBits
                        ELSE IF v.ins THEN @ + 1 ELSE @]

(* The permutation of a leaf: the slots in order, the first n in use.       *)

Sorted(n) == [n |-> n, order |-> [i \in Slots |-> IF i < n THEN i ELSE LeafWidth - 1 - (i - n)]]
Back(p) == p.order[LeafWidth - 1]
InsertFromBack(p, i) ==
    [n |-> p.n + 1, order |-> [j \in Slots |-> IF j < i THEN p.order[j] ELSE IF j = i THEN Back(p) ELSE p.order[j - 1]]]
\* The slot at i moves to position to, the slots behind it one down.
MoveTo(p, i, to) ==
    [n |-> p.n - 1, order |-> [j \in Slots |-> IF j < i \/ j > to THEN p.order[j]
                                              ELSE IF j = to THEN p.order[i] ELSE p.order[j + 1]]]
Remove(p, i) == MoveTo(p, i, p.n - 1)
RemoveToBack(p, i) == MoveTo(p, i, LeafWidth - 1)
Exchange(p, i, j) == [p EXCEPT !.order[i] = p.order[j], !.order[j] = p.order[i]]

(* Keys, slots, nodes.                                                      *)

\* MtKey after d shifts: its slice, and what follows.
Slice(k, d) == k[d + 1]
Suffix(k, d) == SubSeq(k, d + 2, Len(k))
SlotOf(k, d) == [ikey |-> Slice(k, d), suf |-> Suffix(k, d), val |-> None,
                 kind |-> IF Suffix(k, d) = <<>> THEN "inline" ELSE "ksuf"]
EmptySlot == [ikey |-> 0, suf |-> <<>>, val |-> None, kind |-> "inline"]
\* MtKey::compare: with one slice, what ends here is before what does not.
Rank(s) == (2 * s.ikey) + (IF s.kind = "inline" THEN 0 ELSE 1)

NewLeaf(v) == [leaf |-> TRUE, ver |-> v, perm |-> Sorted(0), mod |-> "insert", slot |-> [p \in Slots |-> EmptySlot],
               next |-> None, marked |-> FALSE, prev |-> None, parent |-> None]
NewRoot == NewLeaf([NewVersion EXCEPT !.root = TRUE])
NewInter(v, h) == [leaf |-> FALSE, ver |-> v, height |-> h, nkeys |-> 0, ikey |-> [i \in 0 .. InterWidth - 1 |-> 0],
                   child |-> [i \in 0 .. InterWidth |-> None], parent |-> None]
Made == Len(node)
Bound(n) == node[n].slot[0].ikey
MaybeParent(n) == IF node[n].parent = None THEN n ELSE node[n].parent
UpperBound(k, n) == Cardinality({i \in 0 .. node[n].nkeys - 1 : node[n].ikey[i] <= k})

Idle == [at |-> "idle", op |-> "none", key |-> <<>>, val |-> None, d |-> 0, \* key and d: ka_
         root0 |-> None, top |-> None,     \* root_, and root of find_unlocked and find_locked
         a |-> None, va |-> NewVersion, b |-> None, vb |-> NewVersion, \* n[sense], v[sense], and the others
         lo |-> 0, hi |-> 0, past |-> FALSE,
         n |-> None, v |-> NewVersion, perm |-> Sorted(0), sperm |-> Sorted(0),
         ki |-> 0, kp |-> None, lv |-> None, state |-> 0,
         m |-> None, p |-> None, child |-> None, other |-> None, ikey |-> 0, height |-> 0, type |-> 0,
         for |-> "none",
         kind |-> "none", suf |-> <<>>, stack |-> <<>>] \* ScanStackElt: what entry is, node_stack_

Init == /\ node = <<NewRoot>>
        /\ root = 1
        /\ th = [t \in Threads |-> Idle]
        /\ script \in Scripts
        /\ pending = {}
        /\ retired = [n \in Ids |-> [times |-> 0, users |-> {}]]
        /\ map = [k \in Keys |-> None]
        /\ call = [t \in Threads |-> [op |-> "none", result |-> None]]
        /\ scan = [t \in Threads |-> [on |-> FALSE]]

At(t, label) == th[t].at = label
Local(t, l) == th' = [th EXCEPT ![t] = l]
Go(t, label) == Local(t, [th[t] EXCEPT !.at = label])
Only(t, l) == Local(t, l) /\ UNCHANGED <<tree, limbo, history, script>>
Store(n, x) == node' = [node EXCEPT ![n] = x]
Rest == UNCHANGED <<root, limbo, history, script>>

\* Threads with a handle: those of callbacks have cleared theirs.
Active == {t \in Threads : th[t].at # "idle" /\ th[t].op # "gc"}
Retire(n) == retired' = [retired EXCEPT ![n] = [times |-> @.times + 1, users |-> Active]]

M == INSTANCE OrderedMap
Effect(t, v) ==
    /\ map' = [map EXCEPT ![th[t].key] = v]
    /\ scan' = [u \in Threads |-> M!WatchScan(scan[u])]
    /\ call' = [u \in Threads |-> LET w == M!Watch(call[u], th[t].key, v)
                                  IN  IF u = t THEN [w EXCEPT !.took = TRUE] ELSE w]

\* The call returns, and its handle is deleted.
Leave(t, result) ==
    /\ Local(t, Idle)
    /\ IF th[t].op = "gc" THEN UNCHANGED <<limbo, history>>
       ELSE /\ call' = [call EXCEPT ![t] = M!Returned(result)]
            /\ scan' = [scan EXCEPT ![t] = M!NoScan]
            /\ UNCHANGED map
            /\ pending' = {[c EXCEPT !.wait = @ \ {t}] : c \in pending}
            /\ retired' = [n \in Ids |-> [retired[n] EXCEPT !.users = @ \ {t}]]
-------------------------------------------------------------------------------
(* A cursor is made, and reaches the leaf of its key: reach_leaf.           *)

\* The client's calls: some one after the other, to fill the table, then the rest.
StartCall(t, c) ==
    /\ Local(t, [Idle EXCEPT !.at = "root", !.op = c.op, !.key = c.key, !.val = c.val])
    /\ call' = [call EXCEPT ![t] = IF c.op = "scan" THEN M!InScan
                                  ELSE [op |-> c.op, key |-> c.key, val |-> c.val, seen |-> {map[c.key]}, took |-> FALSE]]
    /\ scan' = IF c.op = "scan" THEN [scan EXCEPT ![t] = M!NewScan(c.key, c.val)] ELSE scan
    /\ UNCHANGED <<tree, limbo, map>>

Load(t) ==
    /\ \A u \in Threads : At(u, "idle")
    /\ ~script.go
    /\ \/ /\ script.load # <<>>
          /\ t = CHOOSE u \in Threads : TRUE
          /\ StartCall(t, Head(script.load))
          /\ script' = [script EXCEPT !.load = Tail(@)]
       \/ /\ script.load = <<>>
          /\ script' = [script EXCEPT !.go = TRUE] /\ UNCHANGED <<tree, limbo, history, th>>

Call(t) ==
    /\ At(t, "idle") /\ script.go /\ script.calls[t] # <<>>
    /\ StartCall(t, Head(script.calls[t]))
    /\ script' = [script EXCEPT !.calls[t] = Tail(@)]

Reads(t) == th[t].op \in {"get", "scan"}
Reach(l, r) == [l EXCEPT !.at = "climb", !.top = r, !.a = r]

ReadRoot(t) ==
    LET l == [th[t] EXCEPT !.root0 = root]
    IN  At(t, "root") /\ Only(t, IF Reads(t) THEN Reach(l, root) ELSE [l EXCEPT !.at = "fix"])

FixRoot(t) ==
    LET l == th[t]
    IN  /\ At(t, "fix")
        /\ Only(t, IF node[l.root0].ver.root THEN Reach(l, l.root0)
                   ELSE [l EXCEPT !.at = "swap", !.b = MaybeParent(l.root0)])

\* One that loses the compare and swap starts from the root it finds.
SwapRoot(t) ==
    LET l == th[t]
    IN  /\ At(t, "swap")
        /\ root' = IF root = l.root0 THEN l.b ELSE root
        /\ Local(t, Reach([l EXCEPT !.root0 = root], root))
        /\ UNCHANGED <<node, limbo, history, script>>

\* Get a stable version of what may be the root, or climb.
Climb(t) ==
    LET l == th[t]
    IN  /\ At(t, "climb") /\ ~Dirty(node[l.a].ver)
        /\ Only(t, [l EXCEPT !.va = node[l.a].ver, !.at = IF node[l.a].ver.root THEN "descend" ELSE "up"])

Up(t) == At(t, "up") /\ Only(t, [th[t] EXCEPT !.a = MaybeParent(@), !.at = "climb"])

Descend(t) ==
    LET l == th[t]
    IN  /\ At(t, "descend")
        /\ Only(t, IF node[l.a].leaf THEN [l EXCEPT !.n = l.a, !.v = l.va, !.at = "forward"]
                   ELSE [l EXCEPT !.lo = 0, !.hi = node[l.a].nkeys, !.at = "upper"])

\* A step of the binary search in an internode.
Upper(t) ==
    LET l == th[t]
        m == (l.lo + l.hi) \div 2
        x == node[l.a].ikey[m]
        k == Slice(l.key, l.d)
    IN  /\ At(t, "upper") /\ l.lo < l.hi
        /\ Only(t, CASE k < x -> [l EXCEPT !.hi = m]
                     [] k = x -> [l EXCEPT !.lo = m + 1, !.hi = m + 1]
                     [] k > x -> [l EXCEPT !.lo = m + 1])

ReadChild(t) ==
    LET l == th[t]
        c == node[l.a].child[l.lo]
    IN  /\ At(t, "upper") /\ l.lo >= l.hi
        /\ Only(t, IF c = None THEN Reach(l, l.top) ELSE [l EXCEPT !.b = c, !.at = "child"])

StableChild(t) ==
    LET l == th[t]
    IN  /\ At(t, "child") /\ ~Dirty(node[l.b].ver)
        /\ Only(t, [l EXCEPT !.vb = node[l.b].ver, !.at = "check"])

CheckParent(t) ==
    LET l == th[t]
    IN  /\ At(t, "check")
        /\ Only(t, IF Changed(node[l.a].ver, l.va) THEN [l EXCEPT !.at = "again"]
                   ELSE [l EXCEPT !.a = l.b, !.va = l.vb, !.at = "descend"])

Again(t) ==
    LET l == th[t]
        v == node[l.a].ver
    IN  /\ At(t, "again") /\ ~Dirty(v)
        /\ Only(t, [l EXCEPT !.va = v, !.vb = v, !.at = IF HasSplit(l.va, v) THEN "last" ELSE "descend"])

\* stable_last_key_compare of an internode: without keys it reads what precedes them.
LastKey(t) ==
    LET l == th[t]
        x == node[l.a]
    IN  /\ At(t, "last")
        /\ \E past \in BOOLEAN :
              /\ x.nkeys > 0 => past = (Slice(l.key, l.d) > x.ikey[x.nkeys - 1])
              /\ Only(t, [l EXCEPT !.past = past, !.at = "stable"])

CheckLast(t) ==
    LET l == th[t]
        v == node[l.a].ver
    IN  /\ At(t, "stable")
        /\ \/ ~Changed(v, l.vb) /\ Only(t, IF l.past THEN Reach(l, l.top) ELSE [l EXCEPT !.at = "descend"])
           \/ Changed(v, l.vb) /\ ~Dirty(v) /\ Only(t, [l EXCEPT !.vb = v, !.at = "last"])
-------------------------------------------------------------------------------
(* find_unlocked and find_locked from their label forward.                  *)

Forward(t) ==
    LET l == th[t]
        p == node[l.n].perm
    IN  /\ At(t, "forward")
        /\ Only(t, IF l.v.del THEN Reach(l, l.top)
                   ELSE [l EXCEPT !.perm = p, !.sperm = p, !.lo = 0, !.hi = p.n,
                                  !.at = IF Reads(t) THEN "lower" ELSE "perm"])

\* find_locked searches in the permutation it reads a second time.
ReadPerm(t) ==
    LET p == node[th[t].n].perm
    IN  At(t, "perm") /\ Only(t, [th[t] EXCEPT !.sperm = p, !.hi = p.n, !.at = "lower"])

\* ScanStackElt::find_next goes on with the entry at ki; a leaf that was deleted is left.
Resume(l) == IF l.v.del THEN Reach([l EXCEPT !.for = "next"], l.top)
             ELSE IF l.ki < l.perm.n THEN [l EXCEPT !.for = "next", !.kp = l.perm.order[l.ki], !.at = "kind"]
             ELSE [l EXCEPT !.for = "next", !.at = "end"]

Lower(t) ==
    LET l == th[t]
        m == (l.lo + l.hi) \div 2
        p == l.sperm.order[m]
        r == Rank(SlotOf(l.key, l.d)) - Rank(node[l.n].slot[p])
    IN  /\ At(t, "lower") /\ l.lo < l.hi
        /\ Only(t, CASE r < 0 -> [l EXCEPT !.hi = m]
                     [] r = 0 -> IF l.for = "next" THEN Resume([l EXCEPT !.ki = m])
                                 ELSE [l EXCEPT !.ki = m, !.kp = p, !.at = IF l.op = "scan" THEN "kind" ELSE "value"]
                     [] r > 0 -> [l EXCEPT !.lo = m + 1])

NotThere(t) ==
    LET l == th[t]
    IN  /\ At(t, "lower") /\ l.lo >= l.hi
        /\ Only(t, IF l.for = "next" THEN Resume([l EXCEPT !.ki = l.lo])
                   ELSE [l EXCEPT !.ki = l.lo, !.kp = None, !.state = 0, !.at = IF Reads(t) THEN "validate" ELSE "lock"])

ReadValue(t) ==
    LET l == th[t]
    IN  At(t, "value") /\ Only(t, [l EXCEPT !.lv = node[l.n].slot[l.kp].val, !.at = "match"])

\* ksuf_matches
Match(t) ==
    LET l == th[t]
        s == node[l.n].slot[l.kp]
        r == CASE s.kind = "inline" -> 1
               [] s.kind = "layer"  -> -1
               [] s.kind = "ksuf"   -> IF s.suf = Suffix(l.key, l.d) THEN 1 ELSE 0
    IN  /\ At(t, "match") /\ l.op # "scan"
        /\ Only(t, [l EXCEPT !.state = r, !.at = IF l.op = "get" THEN "validate" ELSE IF r = -1 THEN "layer" ELSE "lock"])

Shifted(l, r) == Reach([l EXCEPT !.d = @ + 1], r)

\* MUTANT: what was collected is believed.
Believe(t) ==
    LET l == th[t]
    IN  /\ At(t, "validate") /\ l.op = "get"
        /\ IF l.state = -1
           THEN Only(t, Shifted(l, l.lv))
           ELSE Leave(t, IF l.state = 1 THEN l.lv ELSE None) /\ UNCHANGED <<tree, script>>

Validate(t) ==
    LET l == th[t]
        changed == Changed(node[l.n].ver, l.v)
    IN  /\ At(t, "validate") /\ l.op = "get"
        /\ \/ changed /\ Only(t, [l EXCEPT !.at = "advance"])
           \/ ~changed /\ l.state = -1 /\ Only(t, Shifted(l, l.lv))
           \/ /\ ~changed /\ l.state # -1
              /\ Leave(t, IF l.state = 1 THEN l.lv ELSE None) /\ UNCHANGED <<tree, script>>

CheckLayer(t) ==
    LET l == th[t]
    IN  /\ At(t, "layer")
        /\ Go(t, IF Changed(node[l.n].ver, l.v) THEN "lock" ELSE "isroot")
        /\ UNCHANGED <<tree, limbo, history, script>>

EnterLayer(t) ==
    LET l == th[t]
    IN  /\ At(t, "isroot")
        /\ Only(t, IF node[l.lv].ver.root THEN Shifted(l, l.lv) ELSE [l EXCEPT !.at = "lock"])

Locked(n) == node[n].ver.lock
LockBit(n) == [node EXCEPT ![n].ver.lock = TRUE]

Lock(t) ==
    /\ At(t, "lock") /\ ~Locked(th[t].n)
    /\ node' = LockBit(th[t].n)
    /\ Go(t, "locked") /\ Rest

\* Is what was read before the lock still so?
Confirm(t) ==
    LET l == th[t]
        x == node[l.n]
        changed == Changed(x.ver, l.v) \/ x.perm # l.perm
    IN  /\ At(t, "locked")
        /\ \/ changed /\ Only(t, [l EXCEPT !.at = "unlockadvance"])
           \/ /\ ~changed /\ l.state = -1
              /\ LET r == MaybeParent(x.slot[l.kp].val)
                 IN  Store(l.n, [x EXCEPT !.slot[l.kp].val = r]) /\ Local(t, [l EXCEPT !.lv = r, !.at = "unlocklayer"])
              /\ Rest
           \/ /\ ~changed /\ l.state # -1 /\ x.mod = "deleted"   \* the lock is kept
              /\ Only(t, Reach([l EXCEPT !.d = 0], l.root0))
           \/ /\ ~changed /\ l.state # -1 /\ x.mod # "deleted"
              /\ Only(t, [l EXCEPT !.at = IF l.op = "gc" THEN "entry"
                                          ELSE IF (l.op = "insert") = (l.state = 1) THEN "unlock"
                                          ELSE IF l.op = "remove" THEN "remove"
                                          ELSE IF l.kp # None THEN "newlayer" ELSE "modstate"])

UnlockedNode(n) == [node EXCEPT ![n].ver = Unlocked(@)]

UnlockAndAdvance(t) ==
    At(t, "unlockadvance") /\ node' = UnlockedNode(th[t].n) /\ Go(t, "advance") /\ Rest

UnlockAndEnter(t) ==
    At(t, "unlocklayer") /\ node' = UnlockedNode(th[t].n) /\ Local(t, Shifted(th[t], th[t].lv)) /\ Rest

\* advance_to_key: right along the leaves, if the leaf was split.
Advance(t) ==
    LET l == th[t]
        v == node[l.n].ver
    IN  /\ At(t, "advance") /\ ~Dirty(v)
        /\ Only(t, [l EXCEPT !.v = v, !.vb = v, !.at = IF HasSplit(l.v, v) THEN "lastleaf" ELSE "forward"])

\* Without keys the last position reads the size, which is 0.
LastLeafKey(t) ==
    LET l == th[t]
        x == node[l.n]
        s == x.slot[IF x.perm.n = 0 THEN 0 ELSE x.perm.order[x.perm.n - 1]]
    IN  At(t, "lastleaf") /\ Only(t, [l EXCEPT !.past = Rank(SlotOf(l.key, l.d)) > Rank(s), !.at = "stableleaf"])

CheckLastLeaf(t) ==
    LET l == th[t]
        v == node[l.n].ver
    IN  /\ At(t, "stableleaf")
        /\ \/ ~Changed(v, l.vb) /\ Only(t, [l EXCEPT !.at = IF l.past THEN "walk" ELSE "forward"])
           \/ Changed(v, l.vb) /\ ~Dirty(v) /\ Only(t, [l EXCEPT !.vb = v, !.at = "lastleaf"])

Walk(t) ==
    LET l == th[t]
        x == node[l.n].next
    IN  At(t, "walk") /\ Only(t, IF l.v.del \/ x = None THEN [l EXCEPT !.at = "forward"] ELSE [l EXCEPT !.b = x, !.at = "bound"])

WalkBound(t) ==
    LET l == th[t]
    IN  At(t, "bound") /\ Only(t, IF Slice(l.key, l.d) >= Bound(l.b) THEN [l EXCEPT !.n = l.b, !.at = "right"]
                                                                   ELSE [l EXCEPT !.at = "forward"])

WalkStable(t) ==
    LET l == th[t]
        v == node[l.n].ver
    IN  At(t, "right") /\ ~Dirty(v) /\ Only(t, [l EXCEPT !.v = v, !.at = "walk"])

Finding(t) ==
    \/ ReadRoot(t) \/ FixRoot(t) \/ SwapRoot(t) \/ Climb(t) \/ Up(t) \/ Descend(t) \/ Upper(t) \/ ReadChild(t)
    \/ StableChild(t) \/ CheckParent(t) \/ Again(t) \/ LastKey(t) \/ CheckLast(t) \/ Forward(t) \/ ReadPerm(t)
    \/ Lower(t) \/ NotThere(t) \/ ReadValue(t) \/ Match(t) \/ Validate(t) \/ CheckLayer(t) \/ EnterLayer(t) \/ Lock(t) \/ Confirm(t)
    \/ UnlockAndAdvance(t) \/ UnlockAndEnter(t) \/ Advance(t) \/ LastLeafKey(t) \/ CheckLastLeaf(t)
    \/ Walk(t) \/ WalkBound(t) \/ WalkStable(t)
-------------------------------------------------------------------------------
(* find_insert and finish: into the leaf, into a new layer, or with a split. *)

\* Insertions change the modification state, and the version with it.
SetModstate(t) ==
    LET l == th[t]
        x == node[l.n]
    IN  /\ At(t, "modstate")
        /\ IF x.mod = "insert" THEN UNCHANGED node
           ELSE Store(l.n, [x EXCEPT !.ver.ins = TRUE, !.mod = "insert"])
        /\ Go(t, "place") /\ Rest

\* Slot 0 holds the bound of the leaf: it is not reused for another slice.
Place(t) ==
    LET l == th[t]
        x == node[l.n]
        free(q) == \/ Back(q) # 0
                   \/ q = x.perm /\ (x.prev = None \/ Bound(l.n) = Slice(l.key, l.d))
        swapped == Exchange(x.perm, x.perm.n, LeafWidth - 1)
        q == IF free(x.perm) THEN x.perm ELSE swapped
    IN  /\ At(t, "place")
        /\ IF x.perm.n < LeafWidth /\ free(q)
           THEN /\ Store(l.n, [x EXCEPT !.perm = q, !.slot[Back(q)] = SlotOf(l.key, l.d)])
                /\ Local(t, [l EXCEPT !.kp = Back(q), !.at = "setvalue"])
           ELSE UNCHANGED node /\ Go(t, "split")
        /\ Rest

\* The client stores its value, and calls finish.
SetValue(t) ==
    LET l == th[t]
    IN  /\ At(t, "setvalue")
        /\ Store(l.n, [node[l.n] EXCEPT !.slot[l.kp].val = l.val])
        /\ Go(t, "publish") /\ Rest

FinishInsert(t) ==
    LET l == th[t]
        x == node[l.n]
    IN  /\ At(t, "publish")
        /\ Store(l.n, [x EXCEPT !.perm = InsertFromBack(@, l.ki)])
        /\ Effect(t, l.val)
        /\ Local(t, [l EXCEPT !.state = 2, !.at = "unlock"])
        /\ UNCHANGED <<root, limbo, script>>

\* The last unlock: finish, or the end of a callback.
Finish(t) ==
    LET l == th[t]
    IN  /\ At(t, "unlock")
        /\ node' = UnlockedNode(l.n)
        /\ Leave(t, IF l.op = "insert" THEN l.state = 2 ELSE l.state = 1)
        /\ UNCHANGED <<root, script>>

\* make_new_layer: a twig while the suffixes agree, then a leaf with both keys.
NewLayer(t) ==
    LET l == th[t]
        x == node[l.n]
        old == x.slot[l.kp].suf
        new == Suffix(l.key, l.d)
        c == Cardinality({i \in 1 .. Len(new) : \A j \in 1 .. i : j < Len(old) /\ j < Len(new) /\ old[j] = new[j]})
        oka == [SlotOf(old, c) EXCEPT !.val = x.slot[l.kp].val]
        ka == SlotOf(new, c)
        less == Rank(oka) < Rank(ka)
        twig == [i \in 1 .. c |-> [NewRoot EXCEPT !.perm = Sorted(1),
                     !.slot[0] = [ikey |-> old[i], suf |-> <<>>, kind |-> "layer", val |-> Made + i + 1]]]
        nl == [NewRoot EXCEPT !.ver.lock = TRUE, !.slot[0] = IF less THEN oka ELSE ka, !.slot[1] = IF less THEN ka ELSE oka,
                              !.perm = IF less THEN Sorted(1) ELSE RemoveToBack(Sorted(2), 0)]
    IN  /\ At(t, "newlayer")
        /\ node' = [node EXCEPT ![l.n].ver.ins = TRUE] \o twig \o <<nl>>
        /\ Local(t, [l EXCEPT !.lv = Made + 1, !.child = Made + c + 1, !.d = @ + c + 1, !.at = "linklayer"])
        /\ Rest

LinkLayer(t) ==
    /\ At(t, "linklayer")
    /\ node' = [node EXCEPT ![th[t].n].slot[th[t].kp].val = th[t].lv]
    /\ Go(t, "marklayer") /\ Rest

MarkLayer(t) ==
    /\ At(t, "marklayer")
    /\ node' = [node EXCEPT ![th[t].n].slot[th[t].kp].kind = "layer"]
    /\ Go(t, "leavelayer") /\ Rest

LeaveLayer(t) ==
    LET l == th[t]
        p == Back(node[l.child].perm)
    IN  /\ At(t, "leavelayer")
        /\ node' = UnlockedNode(l.n)
        /\ Local(t, [l EXCEPT !.n = l.child, !.ki = p, !.kp = p, !.at = "setvalue"])
        /\ Rest

\* MUTANT: keys with one slice are separated.
SplitPointAnywhere(x, key, i) == (LeafWidth \div 2) + 1

\* Leaf::split_into: the entries, the new one included, from mid on move right.
SplitPoint(x, key, i) ==
    LET sz == x.perm.n
        ikey(j) == IF j = i THEN key ELSE x.slot[x.perm.order[IF j < i THEN j ELSE j - 1]].ikey
        mid == IF i = 0 /\ x.prev = None THEN 1
               ELSE IF i = sz /\ x.next = None THEN sz ELSE (LeafWidth \div 2) + 1
        right(j) == mid + j <= sz /\ ikey(mid + j) # ikey(mid)
        left(j) == mid - 1 - j >= 0 /\ ikey(mid - 1 - j) # ikey(mid)
        near == CHOOSE j \in 1 .. sz : (right(j) \/ left(j)) /\ \A h \in 1 .. j - 1 : ~right(h) /\ ~left(h)
    IN  IF ikey(mid) # ikey(mid - 1) THEN mid ELSE IF right(near) THEN mid + near ELSE mid - near

\* assign_version: the new leaf is locked as the old one is.
VersionOfSplit(v) == v

SplitLeaf(t) ==
    LET l == th[t]
        x == node[l.n]
        sz == x.perm.n
        mid == SplitPoint(x, Slice(l.key, l.d), l.ki)
        moved == [j \in Slots |-> IF j > sz - mid THEN EmptySlot
                                  ELSE IF mid + j = l.ki THEN SlotOf(l.key, l.d)
                                  ELSE x.slot[x.perm.order[IF l.ki < mid + j THEN mid + j - 1 ELSE mid + j]]]
        nr == [NewLeaf(VersionOfSplit(x.ver)) EXCEPT !.slot = moved, !.prev = l.n,
                    !.perm = IF l.ki < mid THEN Sorted(sz + 1 - mid) ELSE RemoveToBack(Sorted(sz + 1 - mid), l.ki - mid)]
    IN  /\ At(t, "split")
        /\ node' = Append(node, nr)
        /\ Local(t, [l EXCEPT !.child = Made + 1, !.other = None, !.m = l.n, !.ikey = moved[0].ikey, !.height = 0,
                              !.type = IF l.ki < mid THEN 0 ELSE IF mid = sz THEN 2 ELSE 1, !.at = "locknext"])
        /\ Rest

\* link_split, with lock_next.
LockNext(t) ==
    LET l == th[t]
        x == node[l.n]
    IN  /\ At(t, "locknext") /\ ~x.marked
        /\ node' = [node EXCEPT ![l.n].marked = (x.next # None), ![l.child].next = x.next]
        /\ Local(t, [l EXCEPT !.b = x.next, !.at = "linkprev"])
        /\ Rest

\* MUTANT: what comes next is not told of its new neighbour.
LinkPrevSkipped(t) == At(t, "linkprev") /\ Go(t, "linknext") /\ UNCHANGED node /\ Rest

LinkPrev(t) ==
    LET l == th[t]
    IN  /\ At(t, "linkprev")
        /\ node' = IF l.b = None THEN node ELSE [node EXCEPT ![l.b].prev = l.child]
        /\ Go(t, "linknext") /\ Rest

LinkNext(t) ==
    /\ At(t, "linknext")
    /\ node' = [node EXCEPT ![th[t].n].next = th[t].child, ![th[t].n].marked = FALSE]
    /\ Local(t, [th[t] EXCEPT !.at = "parent", !.for = "hang"]) /\ Rest

\* locked_parent of m; p is the parent, locked, or None.
ReadParent(t) ==
    LET l == th[t]
        p == node[l.m].parent
    IN  At(t, "parent") /\ Only(t, [l EXCEPT !.p = p, !.at = IF p = None THEN l.for ELSE "lockparent"])

LockParent(t) ==
    /\ At(t, "lockparent") /\ ~Locked(th[t].p)
    /\ node' = LockBit(th[t].p)
    /\ Go(t, "sameparent") /\ Rest

SameParent(t) ==
    LET l == th[t]
    IN  /\ At(t, "sameparent")
        /\ IF node[l.m].parent = l.p THEN UNCHANGED node /\ Go(t, l.for)
                                      ELSE node' = UnlockedNode(l.p) /\ Go(t, "parent")
        /\ Rest

Taller(t) == IF th[t].p = None THEN TRUE ELSE node[th[t].p].height > th[t].height + 1

\* A new internode above m and child.
Grow(t) ==
    LET l == th[t]
        nn == [NewInter([NewVersion EXCEPT !.root = (l.p = None)], l.height + 1) EXCEPT
                    !.nkeys = 1, !.ikey[0] = l.ikey, !.child[0] = l.m, !.child[1] = l.child, !.parent = l.p]
        hung == IF l.p = None THEN node
                ELSE [node EXCEPT ![l.p].ver.ins = TRUE, ![l.p].child[UpperBound(l.ikey, l.p)] = Made + 1]
    IN  /\ At(t, "hang") /\ Taller(t)
        /\ node' = Append([hung EXCEPT ![l.child].parent = Made + 1], nn)
        /\ Local(t, [l EXCEPT !.b = Made + 1, !.at = "setparent"]) /\ Rest

SetParent(t) ==
    /\ At(t, "setparent")
    /\ node' = [node EXCEPT ![th[t].m].parent = th[t].b]
    /\ Go(t, "settle") /\ Rest

HasRoom(t) ==
    LET l == th[t]
    IN  /\ At(t, "hang") /\ ~Taller(t) /\ node[l.p].nkeys < InterWidth
        /\ node' = [node EXCEPT ![l.p].ver.ins = TRUE]
        /\ Local(t, [l EXCEPT !.lo = UpperBound(l.ikey, l.p), !.at = "add"]) /\ Rest

\* InterNode::split_into: with child put in at kp, the key at mid goes up.
SplitInter(t) ==
    LET l == th[t]
        p == [node[l.p] EXCEPT !.ver.ins = TRUE]
        kp == UpperBound(l.ikey, l.p)
        mid == IF l.type = 2 THEN InterWidth ELSE (InterWidth + 1) \div 2
        ikey(j) == IF j < kp THEN p.ikey[j] ELSE IF j = kp THEN l.ikey ELSE p.ikey[j - 1]
        child(j) == IF j <= kp THEN p.child[j] ELSE IF j = kp + 1 THEN l.child ELSE p.child[j - 1]
        nr == [NewInter([p.ver EXCEPT !.root = FALSE], l.height + 1) EXCEPT !.nkeys = InterWidth - mid,
                  !.ikey = [j \in DOMAIN p.ikey |-> IF j < InterWidth - mid THEN ikey(mid + 1 + j) ELSE 0],
                  !.child = [j \in DOMAIN p.child |-> IF j <= InterWidth - mid THEN child(mid + 1 + j) ELSE None]]
        moved == {nr.child[j] : j \in 0 .. InterWidth - mid}
        left == [p EXCEPT !.ver.spl = TRUE, !.nkeys = IF kp < mid THEN mid - 1 ELSE mid]
    IN  /\ At(t, "hang") /\ ~Taller(t) /\ p.nkeys >= InterWidth
        /\ node' = Append([n \in 1 .. Made |-> IF n = l.p THEN left
                                               ELSE IF n \in moved THEN [node[n] EXCEPT !.parent = Made + 1] ELSE node[n]], nr)
        /\ Local(t, [l EXCEPT !.other = Made + 1, !.lo = kp, !.b = l.m,
                              !.hi = ikey(mid), !.at = IF kp < mid THEN "add" ELSE "settle"]) /\ Rest

\* shift_up and assign, then the number of keys.
AddChild(t) ==
    LET l == th[t]
        p == node[l.p]
        q == [p EXCEPT !.ikey = [j \in DOMAIN p.ikey |-> IF j < l.lo \/ j > p.nkeys THEN @[j] ELSE IF j = l.lo THEN l.ikey ELSE @[j - 1]],
                       !.child = [j \in DOMAIN p.child |-> IF j <= l.lo \/ j > p.nkeys + 1 THEN @[j]
                                                           ELSE IF j = l.lo + 1 THEN l.child ELSE @[j - 1]]]
    IN  /\ At(t, "add")
        /\ node' = [node EXCEPT ![l.p] = q, ![l.child].parent = l.p]
        /\ Go(t, "count") /\ Rest

CountChild(t) ==
    /\ At(t, "count")
    /\ node' = [node EXCEPT ![th[t].p].nkeys = @ + 1]
    /\ Go(t, "settle") /\ Rest

\* Below: a leaf gives up what has moved; then the lower locks go.
Settle(t) ==
    LET l == th[t]
    IN  /\ At(t, "settle")
        /\ node' = IF l.height = 0 THEN [node EXCEPT ![l.m].ver.spl = TRUE] ELSE node
        /\ Go(t, IF l.height = 0 THEN "shrink" ELSE "release") /\ Rest

Shrink(t) ==
    LET l == th[t]
        x == node[l.m]
        sz == x.perm.n - node[l.child].perm.n
        less == [x.perm EXCEPT !.n = sz]
        perm == IF x.perm.n # LeafWidth THEN Exchange(less, sz, LeafWidth - 1) ELSE less
    IN  /\ At(t, "shrink")
        /\ IF l.type = 0
           THEN /\ Store(l.m, [x EXCEPT !.perm = perm, !.slot[Back(perm)] = SlotOf(l.key, l.d)])
                /\ Local(t, [l EXCEPT !.kp = Back(perm), !.at = "release"])
           ELSE /\ Store(l.m, [x EXCEPT !.perm = perm])
                /\ Local(t, [l EXCEPT !.ki = l.ki - sz, !.kp = l.ki - sz, !.n = l.child, !.at = "release"])
        /\ Rest

Release(t) ==
    LET l == th[t]
    IN  /\ At(t, "release")
        /\ node' = IF l.m = l.n THEN node ELSE UnlockedNode(l.m)
        /\ Go(t, "releasechild") /\ Rest

ReleaseChild(t) ==
    LET l == th[t]
    IN  /\ At(t, "releasechild")
        /\ node' = IF l.child = l.n THEN node ELSE UnlockedNode(l.child)
        /\ Local(t, IF l.other # None
                    THEN [l EXCEPT !.m = l.p, !.child = l.other, !.other = None, !.ikey = l.hi, !.height = @ + 1, !.at = "parent"]
                    ELSE [l EXCEPT !.at = IF l.p = None THEN "setvalue" ELSE "releaseparent"])
        /\ Rest

ReleaseParent(t) ==
    At(t, "releaseparent") /\ node' = UnlockedNode(th[t].p) /\ Go(t, "setvalue") /\ Rest

Inserting(t) ==
    \/ SetModstate(t) \/ Place(t) \/ SetValue(t) \/ FinishInsert(t) \/ Finish(t) \/ NewLayer(t) \/ LinkLayer(t)
    \/ MarkLayer(t) \/ LeaveLayer(t) \/ SplitLeaf(t) \/ LockNext(t) \/ LinkPrev(t) \/ LinkNext(t)
    \/ ReadParent(t) \/ LockParent(t) \/ SameParent(t) \/ Grow(t) \/ SetParent(t) \/ HasRoom(t) \/ SplitInter(t)
    \/ AddChild(t) \/ CountChild(t) \/ Settle(t) \/ Shrink(t) \/ Release(t) \/ ReleaseChild(t) \/ ReleaseParent(t)
-------------------------------------------------------------------------------
(* finish_remvoe and remove_leaf.                                           *)

Leaving(t) == /\ Leave(t, TRUE)
              /\ UNCHANGED <<root, script>>

\* A removal changes the modification state, and the version with it.
MarkRemove(t) ==
    LET x == node[th[t].n]
    IN  /\ At(t, "remove")
        /\ IF x.mod # "insert" THEN UNCHANGED node
           ELSE Store(th[t].n, [x EXCEPT !.ver.ins = TRUE, !.mod = "remove"])
        /\ Go(t, "drop") /\ Rest

Drop(t) ==
    LET l == th[t]
        p == Remove(node[l.n].perm, l.ki)
    IN  /\ At(t, "drop")
        /\ Store(l.n, [node[l.n] EXCEPT !.perm = p])
        /\ IF l.op = "remove" THEN Effect(t, None) ELSE UNCHANGED history
        /\ Local(t, [l EXCEPT !.state = 1, !.at = IF p.n > 0 THEN "unlock" ELSE "empty"])
        /\ UNCHANGED <<root, limbo, script>>

\* The first leaf stays; a layer that is empty is collected later.
KeepFirst(t) ==
    LET l == th[t]
    IN  /\ At(t, "empty") /\ node[l.n].prev = None
        /\ pending' = IF node[l.n].next # None \/ l.d = 0 THEN pending
                      ELSE pending \cup {[by |-> t, root |-> l.root0, prefix |-> SubSeq(l.key, 1, l.d), wait |-> Active]}
        /\ Go(t, "unlock")
        /\ UNCHANGED <<tree, retired, history, script>>

DeleteLeaf(t) ==
    LET l == th[t]
    IN  /\ At(t, "empty") /\ node[l.n].prev # None
        /\ node' = [node EXCEPT ![l.n].ver.del = TRUE, ![l.n].ver.spl = TRUE]
        /\ Retire(l.n)
        /\ Go(t, "unlink")
        /\ UNCHANGED <<root, pending, history, script>>

\* btree_leaflink::unlink
Unlink(t) ==
    LET l == th[t]
        x == node[l.n]
    IN  /\ At(t, "unlink") /\ ~x.marked
        /\ node' = [node EXCEPT ![l.n].marked = (x.next # None)]
        /\ Local(t, [l EXCEPT !.b = x.next, !.at = "readprev"]) /\ Rest

ReadPrev(t) == At(t, "readprev") /\ Only(t, [th[t] EXCEPT !.a = node[th[t].n].prev, !.at = "markprev"])

MarkPrev(t) ==
    LET l == th[t]
        ok == node[l.a].next = l.n /\ ~node[l.a].marked
    IN  /\ At(t, "markprev")
        /\ node' = IF ok THEN [node EXCEPT ![l.a].marked = TRUE] ELSE node
        /\ Go(t, IF ok THEN "relink" ELSE "readprev") /\ Rest

Relink(t) ==
    LET l == th[t]
    IN  /\ At(t, "relink")
        /\ node' = IF l.b = None THEN node ELSE [node EXCEPT ![l.b].prev = l.a]
        /\ Go(t, "bypass") /\ Rest

Bypass(t) ==
    LET l == th[t]
    IN  /\ At(t, "bypass")
        /\ node' = [node EXCEPT ![l.a].next = l.b, ![l.a].marked = FALSE]
        /\ Local(t, [l EXCEPT !.m = l.n, !.ikey = Bound(l.n), !.other = None, !.at = "parent", !.for = "prune"]) /\ Rest

\* m goes out of its parent p, or other comes in its place.
Prune(t) ==
    LET l == th[t]
        p == [node[l.p] EXCEPT !.ver.ins = TRUE]
        kp == UpperBound(l.ikey, l.p)
        gone == l.other = None /\ kp > 0
        q == IF ~gone THEN [p EXCEPT !.child[kp] = l.other]
             ELSE [p EXCEPT !.nkeys = @ - 1,
                     !.ikey = [j \in DOMAIN @ |-> IF j >= kp - 1 /\ j < p.nkeys - 1 THEN p.ikey[j + 1] ELSE p.ikey[j]],
                     !.child = [j \in DOMAIN @ |-> IF j >= kp /\ j < p.nkeys THEN p.child[j + 1]
                                                  ELSE IF j = kp THEN None ELSE p.child[j]]]
    IN  /\ At(t, "prune")
        /\ node' = [n \in 1 .. Made |-> IF n = l.p THEN q
                                        ELSE IF n = l.other THEN [node[n] EXCEPT !.parent = l.p] ELSE node[n]]
        /\ Local(t, IF kp <= 1 /\ q.nkeys > 0 /\ q.child[0] = None
                    THEN [l EXCEPT !.a = l.p, !.b = l.m, !.m = l.p, !.hi = q.ikey[0], !.at = "parent", !.for = "redirect"]
                    ELSE [l EXCEPT !.at = "pruned"])
        /\ Rest

\* redirect: a is p of remove_leaf, b its n; m climbs, and its lock goes, p itself excepted.
Redirect(t) ==
    LET l == th[t]
        kp == UpperBound(l.ikey, l.p)
        more == kp = 0 \/ (kp = 1 /\ node[l.p].child[0] = None)
        below == IF l.m = l.a THEN node ELSE UnlockedNode(l.m)
    IN  /\ At(t, "redirect")
        /\ node' = IF kp = 0 THEN below ELSE [below EXCEPT ![l.p].ikey[kp - 1] = l.hi]
        /\ Local(t, IF more THEN [l EXCEPT !.m = l.p, !.at = "parent"] ELSE [l EXCEPT !.at = "redirected"])
        /\ Rest

Redirected(t) ==
    LET l == th[t]
    IN  /\ At(t, "redirected")
        /\ node' = UnlockedNode(l.p)
        /\ Local(t, [l EXCEPT !.m = l.b, !.p = l.a, !.ikey = l.hi, !.for = "prune", !.at = "pruned"])
        /\ Rest

Pruned(t) == At(t, "pruned") /\ node' = UnlockedNode(th[t].m) /\ Go(t, "collapse") /\ Rest

\* A parent left with nothing goes as well; what it has left takes its place.
Collapse(t) ==
    LET l == th[t]
        p == node[l.p]
    IN  /\ At(t, "collapse")
        /\ IF p.nkeys > (IF p.child[0] = None THEN 1 ELSE 0) \/ p.ver.root
           THEN node' = UnlockedNode(l.p) /\ Leaving(t)
           ELSE /\ node' = [node EXCEPT ![l.p].ver.del = TRUE, ![l.p].ver.spl = TRUE, ![l.p].child[p.nkeys] = None]
                /\ Retire(l.p)
                /\ Local(t, [l EXCEPT !.m = l.p, !.other = p.child[p.nkeys], !.at = "parent"])
                /\ UNCHANGED <<root, pending, history, script>>

Removing(t) ==
    \/ MarkRemove(t) \/ Drop(t) \/ KeepFirst(t) \/ DeleteLeaf(t) \/ Unlink(t) \/ ReadPrev(t) \/ MarkPrev(t)
    \/ Relink(t) \/ Bypass(t) \/ Prune(t) \/ Redirect(t) \/ Redirected(t) \/ Pruned(t) \/ Collapse(t)
-------------------------------------------------------------------------------
(* GcLayerRcuCallback, run by the thread that registered it after a grace   *)
(* period, and gc_layer.                                                    *)

Collect(t) ==
    \E c \in pending :
        /\ At(t, "idle") /\ script.go /\ c.by = t /\ c.wait = {}
        /\ pending' = pending \ {c}
        /\ Local(t, [Idle EXCEPT !.at = "findroot", !.op = "gc", !.key = c.prefix, !.root0 = c.root])
        /\ UNCHANGED <<tree, retired, history, script>>

\* (A tree that is destroyed is not modelled: no root is ever deleted.)
FindRoot(t) ==
    LET l == th[t]
    IN  /\ At(t, "findroot")
        /\ Only(t, IF ~node[l.root0].ver.root THEN [l EXCEPT !.root0 = MaybeParent(@)] ELSE Reach(l, l.root0))

Slot(l) == node[l.n].slot[l.kp]

\* The entry of the layer is behind one that ends where the prefix ends.
Entry(t) ==
    LET l == th[t]
        x == node[l.n]
        ki == IF l.kp = None THEN l.ki ELSE l.ki + 1
        s == x.slot[x.perm.order[ki]]
        found == /\ Suffix(l.key, l.d) = <<>>
                 /\ ki < x.perm.n
                 /\ s.ikey = Slice(l.key, l.d) /\ s.kind = "layer"
    IN  /\ At(t, "entry")
        /\ Only(t, IF found THEN [l EXCEPT !.ki = ki, !.kp = x.perm.order[ki], !.at = "layerroot"] ELSE [l EXCEPT !.at = "unlock"])

LayerRoot(t) ==
    LET l == th[t]
        b == Slot(l).val
        x == node[b]
    IN  /\ At(t, "layerroot")
        /\ node' = IF x.ver.root THEN node ELSE [node EXCEPT ![l.n].slot[l.kp].val = MaybeParent(b)]
        /\ Local(t, [l EXCEPT !.b = b, !.at = IF ~x.ver.root THEN "layerroot"
                                              ELSE IF (x.leaf /\ x.perm.n > 0) \/ (~x.leaf /\ x.nkeys > 0) THEN "unlock"
                                              ELSE "locklayer"])
        /\ Rest

LockLayer(t) ==
    LET l == th[t]
    IN  /\ At(t, "locklayer") /\ ~Locked(l.b)
        /\ node' = LockBit(l.b)
        /\ Go(t, IF node[l.b].leaf THEN "lockedleaf" ELSE "lockedinter") /\ Rest

LockedLeaf(t) ==
    LET l == th[t]
        x == node[l.b]
        empty == x.ver.root /\ x.perm.n = 0
    IN  /\ At(t, "lockedleaf")
        /\ node' = IF empty THEN [node EXCEPT ![l.b].mod = "deleted"] ELSE node
        /\ Go(t, IF empty THEN "killed" ELSE "unlocklayerroot") /\ Rest

\* MUTANT: the entry of the layer stays.
KilledOnly(t) ==
    At(t, "killed") /\ node' = UnlockedNode(th[t].b) /\ Retire(th[t].b) /\ Go(t, "unlock")
    /\ UNCHANGED <<root, pending, history, script>>

\* Its leaf is gone; then the entry of the layer is removed like a key.
Killed(t) ==
    LET l == th[t]
    IN  /\ At(t, "killed")
        /\ node' = UnlockedNode(l.b) /\ Retire(l.b)
        /\ Go(t, "remove")
        /\ UNCHANGED <<root, pending, history, script>>

\* make_layer_root of the only child, which nobody has locked: its parent, then v_ |= root_bit.
LockedInter(t) ==
    LET l == th[t]
        x == node[l.b]
        c == x.child[0]
        single == x.ver.root /\ x.nkeys = 0
    IN  /\ At(t, "lockedinter")
        /\ node' = IF single THEN [node EXCEPT ![c].parent = None] ELSE node
        /\ Local(t, [l EXCEPT !.child = c, !.at = IF single THEN "loadbits" ELSE "unlocklayerroot"]) /\ Rest

LoadBits(t) ==
    LET l == th[t]
        v == [node[l.child].ver EXCEPT !.root = TRUE]
    IN  /\ At(t, "loadbits")
        /\ Only(t, [l EXCEPT !.vb = v, !.at = "storebits"])

StoreBits(t) ==
    At(t, "storebits") /\ node' = [node EXCEPT ![th[t].child].ver = th[t].vb] /\ Go(t, "replace") /\ Rest

Replace(t) ==
    LET l == th[t]
    IN  /\ At(t, "replace")
        /\ node' = [node EXCEPT ![l.n].slot[l.kp].val = l.child, ![l.b].ver.spl = TRUE, ![l.b].parent = l.child]
        /\ Go(t, "replaced") /\ Rest

Replaced(t) ==
    /\ At(t, "replaced")
    /\ node' = UnlockedNode(th[t].b) /\ Retire(th[t].b)
    /\ Go(t, "layerroot")
    /\ UNCHANGED <<root, pending, history, script>>

UnlockLayerRoot(t) ==
    At(t, "unlocklayerroot") /\ node' = UnlockedNode(th[t].b) /\ Go(t, "unlock") /\ Rest

Collecting(t) ==
    \/ FindRoot(t) \/ Entry(t) \/ LayerRoot(t) \/ LockLayer(t) \/ LockedLeaf(t) \/ Killed(t)
    \/ LockedInter(t) \/ LoadBits(t) \/ StoreBits(t) \/ Replace(t) \/ Replaced(t) \/ UnlockLayerRoot(t)
-------------------------------------------------------------------------------
(* BasicTable::scan with a ForwardScanHelper and a visitor that never says  *)
(* stop.  After find_initial the key is the last one that was visited.      *)

ReadKind(t) ==
    LET l == th[t]
        s == node[l.n].slot[l.kp]
    IN  At(t, "kind") /\ Only(t, [l EXCEPT !.ikey = s.ikey, !.kind = s.kind, !.at = "value"])

ReadSuffix(t) ==
    LET l == th[t]
    IN  /\ At(t, "match") /\ l.op = "scan"
        /\ Only(t, [l EXCEPT !.suf = IF l.kind = "ksuf" THEN node[l.n].slot[l.kp].suf ELSE <<>>, !.at = "validate"])

Pushed(l) == [l EXCEPT !.stack = Append(@, <<l.top, l.n>>)]
Prefix(l) == SubSeq(l.key, 1, l.d)
Skip(l) == Resume([l EXCEPT !.ki = @ + 1])
Emit(l) == [l EXCEPT !.key = Append(Prefix(l), l.ikey) \o l.suf, !.for = "next", !.at = "emit"]

\* find_initial: the first key, if its entry is wanted, or what is behind it.
Initial(t) ==
    LET l == th[t]
        rest == Suffix(l.key, l.d)
        wanted == (l.kind = "ksuf" /\ M!Before(rest, l.suf)) \/ (l.suf = rest /\ l.val)
    IN  /\ At(t, "validate") /\ l.op = "scan" /\ l.for # "next"
        /\ Only(t, IF Changed(node[l.n].ver, l.v) THEN [l EXCEPT !.at = "advance"]
                   ELSE IF l.kp = None THEN Resume(l)
                   ELSE IF l.kind = "layer" THEN Shifted(Pushed(l), l.lv)
                   ELSE IF wanted THEN Emit(l) ELSE Skip(l))

\* find_next, with shift_clear: below an entry that is a layer the scan starts before every key.
NextEntry(t) ==
    LET l == th[t]
        duplicate == Rank(SlotOf(l.key, l.d)) >= Rank([ikey |-> l.ikey, kind |-> l.kind])
    IN  /\ At(t, "validate") /\ l.for = "next"
        /\ Only(t, IF Changed(node[l.n].ver, l.v) THEN [l EXCEPT !.at = "restable"]
                   ELSE IF duplicate THEN Skip(l)
                   ELSE IF l.kind = "layer" THEN Shifted([Pushed(l) EXCEPT !.key = Prefix(l) \o <<l.ikey, 0>>], l.lv)
                   ELSE Emit(l))

VisitValue(t) ==
    LET l == th[t]
    IN  /\ At(t, "emit")
        /\ scan' = [scan EXCEPT ![t] = M!Visited(@, l.key, l.lv)]
        /\ Local(t, Skip(l))
        /\ UNCHANGED <<tree, limbo, map, call, script>>

EndOfLeaf(t) ==
    LET l == th[t]
    IN  At(t, "end") /\ Only(t, [l EXCEPT !.at = IF Changed(node[l.n].ver, l.v) THEN "restable" ELSE "nextleaf"])

NextLeaf(t) ==
    LET l == th[t]
        x == node[l.n].next
    IN  At(t, "nextleaf") /\ Only(t, IF x = None THEN [l EXCEPT !.at = "scanup"] ELSE [l EXCEPT !.n = x, !.at = "restable"])

Restable(t) ==
    LET l == th[t]
        v == node[l.n].ver
    IN  At(t, "restable") /\ ~Dirty(v) /\ Only(t, [l EXCEPT !.v = v, !.at = "forward"])

\* MUTANT: back to a key that ends where the layer begins.
UnshiftShort(l) == [l EXCEPT !.key = Prefix(l), !.d = @ - 1]

\* Back to a key behind every key of the layer.
Unshift(l) == [l EXCEPT !.key = Append(Prefix(l), 0), !.d = @ - 1]

ScanUp(t) ==
    LET l == th[t]
        s == l.stack[Len(l.stack)]
    IN  /\ At(t, "scanup")
        /\ IF l.stack = <<>> THEN Leave(t, None) /\ UNCHANGED <<tree, script>>
           ELSE Only(t, [Unshift(l) EXCEPT !.top = s[1], !.n = s[2], !.stack = SubSeq(@, 1, Len(@) - 1), !.at = "restable"])

Scanning(t) ==
    \/ ReadKind(t) \/ ReadSuffix(t) \/ Initial(t) \/ NextEntry(t) \/ VisitValue(t) \/ EndOfLeaf(t)
    \/ NextLeaf(t) \/ Restable(t) \/ ScanUp(t)
-------------------------------------------------------------------------------
Inside(t) == Finding(t) \/ Inserting(t) \/ Removing(t) \/ Collecting(t) \/ Scanning(t)
Next == \E t \in Threads : Inside(t) \/ Load(t) \/ Call(t) \/ Collect(t)
Spec == Init /\ [][Next]_vars
FairSpec == Spec /\ \A t \in Threads : WF_vars(Inside(t) \/ Load(t))
-------------------------------------------------------------------------------
\* The nodes that thread t has locked, by where it is.
Climbing == {"parent", "lockparent", "sameparent", "hang", "setparent", "add", "count", "settle", "shrink",
             "release", "releasechild", "releaseparent", "prune", "redirect", "redirected", "pruned", "collapse"}
UpperLocked == Climbing \ {"parent", "lockparent"}
LayerLocked == {"lockedleaf", "killed", "lockedinter", "loadbits", "storebits", "replace", "replaced", "unlocklayerroot"}
LeafLocked == {"locked", "unlockadvance", "unlocklayer", "modstate", "place", "setvalue", "publish", "unlock", "newlayer",
               "linklayer", "marklayer", "leavelayer", "split", "locknext", "linkprev", "linknext", "remove", "drop", "empty",
               "unlink", "readprev", "markprev", "relink", "bypass", "entry", "layerroot", "locklayer"} \cup LayerLocked
Held(t) ==
    LET l == th[t]
        below == CASE l.at \notin Climbing -> {}
                   [] l.at \in Climbing /\ l.for = "hang" ->
                        {l.n} \cup (IF l.at \in {"releasechild", "releaseparent"} THEN {} ELSE {l.m})
                             \cup (IF l.at = "releaseparent" THEN {} ELSE {l.child})
                   [] l.at \in Climbing /\ l.for = "prune" -> IF l.at = "collapse" THEN {} ELSE {l.m}
                   [] l.at \in Climbing /\ l.for = "redirect" -> {l.a, l.b, l.m}
    IN  (below \cup (IF l.at \in LeafLocked THEN {l.n} ELSE {})
               \cup (IF l.at \in {"leavelayer", "marklayer", "linklayer"} THEN {l.child} ELSE {})
               \cup (IF l.at \in LayerLocked THEN {l.b} ELSE {})
               \cup (IF l.at \in UpperLocked THEN {l.p} ELSE {})) \ {None}

\* The tree as it stands: the root of a layer, what is below a node, and the entries below it.
Top == [n \in 1 .. Made |-> LET f[m \in 1 .. Made] == IF node[m].ver.root THEN m ELSE f[MaybeParent(m)] IN f[n]]
Entries(n) == {node[n].slot[node[n].perm.order[i]] : i \in 0 .. node[n].perm.n - 1}
Children(n) == IF node[n].leaf THEN {Top[s.val] : s \in {e \in Entries(n) : e.kind = "layer"}}
               ELSE {node[n].child[i] : i \in 0 .. node[n].nkeys} \ {None}
InTree == LET below[n \in 1 .. Made] == {n} \cup UNION {below[c] : c \in Children(n)} IN below[Top[root]]
Contents ==
    LET of[n \in 1 .. Made] ==
            IF ~node[n].leaf THEN UNION {of[c] : c \in Children(n)}
            ELSE UNION {IF s.kind # "layer" THEN {<<<<s.ikey>> \o s.suf, s.val>>}
                        ELSE {<<<<s.ikey>> \o e[1], e[2]>> : e \in of[Top[s.val]]} : s \in Entries(n)}
    IN  [n \in 1 .. Made |-> of[n]]
Quiet == \A t \in Threads : At(t, "idle")

\* When nobody is at work, the tree holds what the calls have put there, every key between the
\* separators that lead to it (ikey0_ and child_ of InterNode), whatever was split, pruned,
\* redirected, collapsed or collected before.
HoldsTheMap ==
    Quiet => /\ Contents[Top[root]] = {<<k, map[k]>> : k \in {j \in Keys : map[j] # None}}
             /\ \A p \in InTree : ~node[p].leaf =>
                  \A i \in 0 .. node[p].nkeys : node[p].child[i] # None => \A e \in Contents[node[p].child[i]] :
                      /\ i > 0 => node[p].ikey[i - 1] <= Head(e[1])
                      /\ i < node[p].nkeys => Head(e[1]) < node[p].ikey[i]

\* When nobody is at work, the leaves of the tree are linked both ways, to leaves of the tree, with
\* ascending bounds and no link left marked (mt_leaflink.hh), and no node of it is locked or dirty.
LeavesAreLinked ==
    Quiet => \A n \in InTree :
        LET x == node[n]
        IN  /\ ~x.ver.lock /\ ~Dirty(x.ver) /\ ~x.ver.del
            /\ x.leaf => /\ ~x.marked
                         /\ x.prev # None => \A s \in Entries(n) : Bound(n) <= s.ikey
                         /\ x.prev # None => x.prev \in InTree /\ node[x.prev].next = n
                         /\ x.next # None => /\ x.next \in InTree /\ node[x.next].prev = n
                                             /\ x.prev # None => Bound(n) < Bound(x.next)

\* A node is deallocated once (deallocate in mt_remove.hh), and what is left of the tree when the
\* call that did it is over does not lead to it.
RetiredIsGone ==
    /\ \A n \in Ids : retired[n].times <= 1
    /\ Quiet => \A n \in InTree : retired[n].times = 0

\* What a thread reads through, by where it is.
Uses(t) ==
    LET l == th[t]
    IN  IF l.at \in {"idle", "root"} THEN {}
        ELSE IF l.at \in {"fix", "findroot"} THEN {l.root0}
        ELSE IF l.at = "isroot" THEN {l.n, l.lv}
        ELSE IF l.at \in {"climb", "up", "descend", "upper", "check", "again", "last", "stable"} THEN {l.a}
        ELSE IF l.at \in {"child", "bound"} THEN {l.b}
        ELSE IF l.at \in Climbing THEN Held(t)
        ELSE ({l.n} \cup Held(t)) \ {None}

\* A thread that has a handle is never at a node whose memory may be free.
HandlesProtect == \A t \in Active : \A n \in Uses(t) : retired[n].times = 0 \/ t \in retired[n].users

IsOrderedMap == M!OrderedSpec

\* A call that meets the leaf of a collected layer keeps its lock, and waits for it when it comes back.
Stuck(t) == th[t].at = "lock" /\ node[th[t].n].mod = "deleted"
CallsReturn == <>[](\A t \in Threads : At(t, "idle") \/ Stuck(t))
=============================================================================
