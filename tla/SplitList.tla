----------------------------- MODULE SplitList -----------------------------
(***************************************************************************)
(* HashMap (src/include/lf/hash_map.hh, src/src/hash_map.cc): one list,    *)
(* ordered by reversed hash, buckets that point to dummy nodes in it, a    *)
(* table that doubles.  One action per access to memory another thread can *)
(* see.  What PinBox promises is used, not repeated: a freed element is    *)
(* used again at any time when no pin holds it (PinBox shows how), and an  *)
(* element of the array has one place (DynArray).                          *)
(***************************************************************************)
EXTENDS Integers, Sequences, FiniteSets

CONSTANTS Threads,
          Elements,   \* what the allocator may return
          Keys,       \* numbers: their order is the order of strnncoll
          Hash,       \* the hash of a key, below Pow2[HashBits - 1]
          Cut,        \* the key whose length is the low 8 bits of a key's length: itself below 256 bytes
          HashBits,   \* 32
          MaxSize,    \* a bound on size_: Double
          Flags,      \* flags_
          Scripts,    \* the calls each thread makes
          Present, None

Buckets == 0 .. MaxSize - 1
Dummies == Buckets \X Threads      \* the dummy node a thread makes for a bucket
Nodes == Elements \cup Dummies
DummyKey == 0
Unused == [to |-> None, deleted |-> FALSE]
LinkTo(n) == [to |-> n, deleted |-> FALSE]

Ops == {"insert", "get", "remove", "match"}
Pow2[i \in 0 .. HashBits] == IF i = 0 THEN 1 ELSE 2 * Pow2[i - 1]

ASSUME SplitListConstants ==
    /\ None \notin Nodes /\ Elements \cap Dummies = {}
    /\ Keys \subseteq Nat \ {DummyKey} /\ Keys # {}
    /\ HashBits \in Nat \ {0} /\ Hash \in [Keys -> 0 .. Pow2[HashBits - 1] - 1]
    /\ Cut \in [Keys -> Keys \cup {DummyKey}] /\ \A k \in Keys : Cut[k] <= k   \* a prefix sorts first
    /\ MaxSize \in 1 .. Pow2[HashBits - 1] /\ Flags \in Nat /\ Present # None
    /\ \A s \in Scripts : s \in [Threads -> Seq([op : Ops, key : Keys])]

VARIABLES link,     \* per node: SList::link, a pointer and a deleted bit
          hashnr,   \* per node: the reversed hash
          key,      \* per node: the key
          bucket,   \* array_
          size,     \* size_
          count,    \* count_
          pool,     \* elements the allocator may hand out
          freed,    \* elements given to pins_free
          pin,      \* per thread: pins 0 to 2
          th,       \* per thread: where it is, and its local variables
          script,   \* per thread: the calls left
          call      \* history: the calls as KeyMap sees them

list   == <<link, hashnr, key>>
table  == <<bucket, size, count>>
memory == <<pool, freed>>
vars   == <<list, table, memory, pin, th, script, call>>

ReverseBits(h) == LET rev[i \in 0 .. HashBits] == IF i = 0 THEN 0
                                                 ELSE (2 * rev[i - 1]) + ((h \div Pow2[i - 1]) % 2)
                  IN  rev[HashBits]

ClearHighestBit(b) ==
    IF b = 0 THEN 0 ELSE b - (CHOOSE p \in {Pow2[i] : i \in 0 .. HashBits} : p <= b /\ b < 2 * p)

Searching == {"load", "confirm", "link", "next", "judge", "help", "swap", "mark", "unlink"}  \* lfind and its callers
Labels == {"idle", "hash", "slot", "parent", "install", "duplicate", "count", "add", "double",
           "found", "using", "missing", "uncount", "spin"} \cup Searching
Goals == {"insert", "get", "remove", "cleanup", "dummy"}

Locals == [at : Labels, op : Ops \cup {"none"}, key : Keys, bucket : Buckets,
           frames : Seq(Buckets),              \* activations of initialize_bucket, the last one first
           node : Nodes \cup {None},           \* the node linsert inserts
           hash : Nat, search : Keys \cup {DummyKey}, \* what lfind looks for
           goal : Goals \cup {"none"},          \* who called it
           head : Buckets, prev : {"bucket"} \X Buckets \cup {"node"} \X Nodes, curr : Nodes \cup {None},
           link : [to : Nodes \cup {None}, deleted : BOOLEAN], \* what it has read; next is link.to
           size : Nat]                         \* csize
Idle == [at |-> "idle", op |-> "none", key |-> CHOOSE k \in Keys : TRUE, bucket |-> 0, frames |-> <<>>, node |-> None,
         hash |-> 0, search |-> DummyKey, goal |-> "none", head |-> 0, prev |-> <<"bucket", 0>>, curr |-> None,
         link |-> Unused, size |-> 0]
NoPins == [i \in 0 .. 2 |-> None]

Init == /\ link = [n \in Nodes |-> Unused]
        /\ hashnr = [n \in Nodes |-> 0]
        /\ key = [n \in Nodes |-> DummyKey]
        /\ bucket = [b \in Buckets |-> None]
        /\ size = 1
        /\ count = 0
        /\ pool = Elements
        /\ freed = {}
        /\ pin = [t \in Threads |-> NoPins]
        /\ th = [t \in Threads |-> Idle]
        /\ script \in Scripts
        /\ call = [t \in Threads |-> [op |-> "none", result |-> None]]

At(t, label) == th[t].at = label
Local(t, l) == th' = [th EXCEPT ![t] = l]
Go(t, label) == Local(t, [th[t] EXCEPT !.at = label])

\* What the list holds: the first dummy node, what follows it, unmarked elements.
InList == LET from[n \in Nodes \cup {None}] == IF n = None THEN {} ELSE {n} \cup from[link[n].to]
          IN  from[bucket[0]]
Contents == LET held == {key[n] : n \in {n \in InList \cap Elements : ~link[n].deleted}}
            IN  [k \in Keys |-> IF k \in held THEN Present ELSE None]

\* The calls as KeyMap sees them: history.
M == INSTANCE KeyMap WITH Values <- {Present}, map <- Contents
\* A search with a longer key is for another key: no call of a KeyMap, nor is random_match.
Sought(op, k) == IF op = "get" THEN Cut[k] ELSE k   \* lsearch takes a length of 8 bits
Recorded(op, k) == op # "match" /\ Sought(op, k) = k
NoEffect == UNCHANGED call
Effect(t) == call' = [u \in Threads |->
    LET w == M!Watch(call[u], th[t].key, IF th[t].op = "remove" THEN None ELSE Present)
    IN  IF u = t THEN [w EXCEPT !.took = TRUE] ELSE w]
Return(t, result) == IF Recorded(th[t].op, th[t].key)
                     THEN call' = [call EXCEPT ![t] = M!Returned(result)] ELSE NoEffect
-------------------------------------------------------------------------------
(* lfind: positions the cursor prev, curr, next.                            *)

Read(place) == IF place[1] = "bucket" THEN LinkTo(bucket[place[2]]) ELSE link[place[2]]
Follow(place, n) == IF place[1] = "bucket"
                    THEN bucket' = [bucket EXCEPT ![place[2]] = n] /\ UNCHANGED link
                    ELSE link' = [link EXCEPT ![place[2]] = LinkTo(n)] /\ UNCHANGED bucket

Find(l, head, hash, k, goal) ==
    [l EXCEPT !.at = "load", !.head = head, !.prev = <<"bucket", head>>,
              !.hash = hash, !.search = k, !.goal = goal]
\* MUTANT: a retry goes on from where it is.
RetryHere(l) == [l EXCEPT !.at = "load"]

Retry(l) == [l EXCEPT !.at = "load", !.prev = <<"bucket", l.head>>]

\* lfind returns to its caller.
Found(l) == [l EXCEPT !.at = CASE l.goal = "insert"  -> IF Flags # 0 THEN "duplicate" ELSE "swap"
                               [] l.goal = "dummy"   -> "install"
                               [] l.goal = "remove"  -> "mark"
                               [] l.goal = "get"     -> "found"
                               [] l.goal = "cleanup" -> "uncount"]
Missing(l) == [l EXCEPT !.at = CASE l.goal \in {"insert", "dummy"} -> "swap"
                                 [] l.goal \in {"remove", "get"}  -> "missing"
                                 [] l.goal = "cleanup"            -> "uncount"]
StepTo(l, n) == IF n = None THEN Missing([l EXCEPT !.curr = n]) ELSE [l EXCEPT !.at = "link", !.curr = n]

Load(t) ==
    /\ At(t, "load")
    /\ Local(t, [th[t] EXCEPT !.at = "confirm", !.curr = Read(th[t].prev).to])
    /\ UNCHANGED <<list, table, memory, pin, script>> /\ NoEffect

Confirm(t) ==
    LET l == th[t]
    IN  /\ At(t, "confirm")
        /\ pin' = [pin EXCEPT ![t][1] = l.curr]
        /\ Local(t, IF Read(l.prev) = LinkTo(l.curr) THEN StepTo(l, l.curr) ELSE Retry(l))
        /\ UNCHANGED <<list, table, memory, script>> /\ NoEffect

LoadLink(t) ==
    /\ At(t, "link")
    /\ Local(t, [th[t] EXCEPT !.at = "next", !.link = link[th[t].curr]])
    /\ UNCHANGED <<list, table, memory, pin, script>> /\ NoEffect

\* MUTANT: the next node is pinned, and the link not read again.
ConfirmNextOnce(t) ==
    LET l == th[t]
    IN  /\ At(t, "next")
        /\ pin' = [pin EXCEPT ![t][0] = l.link.to]
        /\ Go(t, "judge")
        /\ UNCHANGED <<list, table, memory, script>> /\ NoEffect

ConfirmNext(t) ==
    LET l == th[t]
    IN  /\ At(t, "next")
        /\ pin' = [pin EXCEPT ![t][0] = l.link.to]
        /\ Go(t, IF link[l.curr] = l.link THEN "judge" ELSE "link")
        /\ UNCHANGED <<list, table, memory, script>> /\ NoEffect

Reached(l) == \/ hashnr[l.curr] > l.hash
              \/ hashnr[l.curr] = l.hash /\ key[l.curr] >= l.search
Equal(l) == hashnr[l.curr] = l.hash /\ key[l.curr] = l.search

Judge(t) ==
    LET l == th[t]
    IN  /\ At(t, "judge")
        /\ \/ /\ Read(l.prev) # LinkTo(l.curr)
              /\ Local(t, Retry(l)) /\ UNCHANGED pin
           \/ /\ Read(l.prev) = LinkTo(l.curr) /\ l.link.deleted
              /\ Go(t, "help") /\ UNCHANGED pin
           \/ /\ Read(l.prev) = LinkTo(l.curr) /\ ~l.link.deleted /\ Reached(l)
              /\ Local(t, IF Equal(l) THEN Found(l) ELSE Missing(l)) /\ UNCHANGED pin
           \/ /\ Read(l.prev) = LinkTo(l.curr) /\ ~l.link.deleted /\ ~Reached(l)
              /\ pin' = [pin EXCEPT ![t][2] = l.curr, ![t][1] = l.link.to]
              /\ Local(t, StepTo([l EXCEPT !.prev = <<"node", l.curr>>], l.link.to))
        /\ UNCHANGED <<list, table, memory, script>> /\ NoEffect

\* pins_free: the word that links a free element is its key.
FreeElement(n) == freed' = freed \cup {n} /\ key' = [key EXCEPT ![n] = DummyKey]

HelpRemove(t) ==
    LET l == th[t]
    IN  /\ At(t, "help")
        /\ IF Read(l.prev) = LinkTo(l.curr)
           THEN /\ Follow(l.prev, l.link.to)
                /\ FreeElement(l.curr)
                /\ pin' = [pin EXCEPT ![t][1] = l.link.to]
                /\ Local(t, StepTo(l, l.link.to))
           ELSE Local(t, Retry(l)) /\ UNCHANGED <<link, bucket, freed, key, pin>>
        /\ UNCHANGED <<hashnr, size, count, pool, script>> /\ NoEffect
-------------------------------------------------------------------------------
(* The calls: insert, search, remove and random_match begin alike.          *)

\* The allocator never fails while there are elements left in the model.
Call(t) ==
    /\ At(t, "idle")
    /\ script[t] # <<>>
    /\ script' = [script EXCEPT ![t] = Tail(@)]
    /\ LET c == Head(script[t])
           l == [Idle EXCEPT !.at = "hash", !.op = c.op, !.key = c.key]
       IN  /\ IF c.op = "insert"
              THEN \E n \in pool : /\ pool' = pool \ {n}
                                   /\ key' = [key EXCEPT ![n] = c.key]
                                   /\ Local(t, [l EXCEPT !.node = n])
              ELSE Local(t, l) /\ UNCHANGED <<pool, key>>
           /\ IF ~Recorded(c.op, c.key) THEN NoEffect
              ELSE call' = [call EXCEPT ![t] =
                       [op |-> c.op, key |-> c.key, seen |-> {Contents[c.key]}, took |-> FALSE,
                        val |-> IF c.op = "insert" THEN Present ELSE None]]
    /\ UNCHANGED <<link, hashnr, table, freed, pin>>

ReadSize(t) ==
    /\ At(t, "hash")
    /\ Local(t, [th[t] EXCEPT !.at = "slot", !.bucket = Hash[th[t].key] % size])
    /\ UNCHANGED <<list, table, memory, pin, script>> /\ NoEffect

\* The search of the call itself, once its bucket has a dummy node.
Start(l, h) == IF l.op = "match" THEN [l EXCEPT !.at = "spin", !.head = l.bucket]
               ELSE Find(l, l.bucket, h, Sought(l.op, l.key), l.op)
SplitHash(k) == ReverseBits(Hash[k]) + 1

\* MUTANT: a bucket without a dummy node is searched all the same.
ReadSlotUnchecked(t) ==
    LET l == th[t]
    IN  /\ At(t, "slot")
        /\ Local(t, Start(l, SplitHash(l.key)))
        /\ IF l.node # None THEN hashnr' = [hashnr EXCEPT ![l.node] = SplitHash(l.key)]
                            ELSE UNCHANGED hashnr
        /\ UNCHANGED <<link, key, table, memory, pin, script>> /\ NoEffect

ReadSlot(t) ==
    LET l == th[t]
    IN  /\ At(t, "slot")
        /\ IF bucket[l.bucket] = None
           THEN Local(t, [l EXCEPT !.at = "parent", !.frames = <<l.bucket>>]) /\ UNCHANGED hashnr
           ELSE /\ Local(t, Start(l, SplitHash(l.key)))
                /\ IF l.node # None THEN hashnr' = [hashnr EXCEPT ![l.node] = SplitHash(l.key)]
                                    ELSE UNCHANGED hashnr
        /\ UNCHANGED <<link, key, table, memory, pin, script>> /\ NoEffect

\* initialize_bucket: first the parent's, then the dummy node of this bucket.
InsertDummy(t, l, b) ==
    /\ Local(t, Find(l, ClearHighestBit(b), ReverseBits(b), DummyKey, "dummy"))
    /\ hashnr' = [hashnr EXCEPT ![<<b, t>>] = ReverseBits(b)]

ReadParent(t) ==
    LET l == th[t]
        b == Head(l.frames)
        p == ClearHighestBit(b)
    IN  /\ At(t, "parent")
        /\ IF bucket[p] = None /\ b # 0
           THEN Local(t, [l EXCEPT !.frames = <<p>> \o @]) /\ UNCHANGED hashnr
           ELSE InsertDummy(t, l, b)
        /\ UNCHANGED <<link, key, table, memory, pin, script>> /\ NoEffect

\* The last compare and swap of initialize_bucket; at = "install" with the dummy
\* node in curr.  The activation below goes on with its own dummy node.
Install(t) ==
    LET l == th[t]
        b == Head(l.frames)
        rest == Tail(l.frames)
    IN  /\ At(t, "install")
        /\ bucket' = IF bucket[b] = None THEN [bucket EXCEPT ![b] = l.curr] ELSE bucket
        /\ pin' = [pin EXCEPT ![t] = NoPins]
        /\ IF rest # <<>>
           THEN InsertDummy(t, [l EXCEPT !.frames = rest], Head(rest))
           ELSE /\ Local(t, Start([l EXCEPT !.frames = <<>>], SplitHash(l.key)))
                /\ hashnr' = IF l.node = None THEN hashnr ELSE [hashnr EXCEPT ![l.node] = SplitHash(l.key)]
        /\ UNCHANGED <<link, key, size, count, memory, script>> /\ NoEffect
-------------------------------------------------------------------------------
(* linsert, for a dummy node and for an element.                            *)

\* The node's own link is nobody else's until the compare and swap.
Swap(t) ==
    LET l == th[t]
        n == IF l.goal = "dummy" THEN <<Head(l.frames), t>> ELSE l.node
        linked == [link EXCEPT ![n] = LinkTo(l.curr)]
    IN  /\ At(t, "swap")
        /\ IF Read(l.prev) = LinkTo(l.curr)
           THEN /\ \/ /\ l.prev[1] = "bucket"
                      /\ bucket' = [bucket EXCEPT ![l.prev[2]] = n] /\ link' = linked
                   \/ /\ l.prev[1] = "node"
                      /\ link' = [linked EXCEPT ![l.prev[2]] = LinkTo(n)] /\ UNCHANGED bucket
                /\ pin' = [pin EXCEPT ![t] = NoPins]
                /\ Local(t, IF l.goal = "dummy" THEN [l EXCEPT !.at = "install", !.curr = n]
                                                ELSE [l EXCEPT !.at = "count", !.node = None])
                /\ IF l.goal = "dummy" THEN NoEffect ELSE Effect(t)
           ELSE /\ link' = linked
                /\ Local(t, Retry(l))
                /\ UNCHANGED <<bucket, pin>> /\ NoEffect
        /\ UNCHANGED <<hashnr, key, size, count, memory, script>>

Done(t) == th' = [th EXCEPT ![t] = Idle]

Duplicate(t) ==
    /\ At(t, "duplicate")
    /\ pin' = [pin EXCEPT ![t] = NoPins]
    /\ FreeElement(th[t].node)
    /\ Done(t) /\ Return(t, FALSE)
    /\ UNCHANGED <<link, hashnr, table, pool, script>>

ReadSizeAgain(t) ==
    /\ At(t, "count")
    /\ Local(t, [th[t] EXCEPT !.at = "add", !.size = size])
    /\ UNCHANGED <<list, table, memory, pin, script>> /\ NoEffect

Add(t) ==
    /\ At(t, "add")
    /\ count' = count + 1
    /\ IF count + 1 > th[t].size THEN Go(t, "double") /\ NoEffect
                                 ELSE Done(t) /\ Return(t, TRUE)
    /\ UNCHANGED <<list, bucket, size, memory, pin, script>>

Double(t) ==
    /\ At(t, "double")
    /\ size = th[t].size => 2 * size <= MaxSize
    /\ size' = IF size = th[t].size THEN 2 * size ELSE size
    /\ Done(t) /\ Return(t, TRUE)
    /\ UNCHANGED <<list, bucket, count, memory, pin, script>>
-------------------------------------------------------------------------------
(* ldelete, lsearch, and lfind_match.                                       *)

NotFound(t) ==
    /\ At(t, "missing")
    /\ pin' = [pin EXCEPT ![t] = NoPins]
    /\ Done(t) /\ Return(t, IF th[t].op = "get" THEN None ELSE FALSE)
    /\ UNCHANGED <<list, table, memory, script>>

\* MUTANT: the mark is set without comparing what was read.
MarkAnyway(t) ==
    /\ At(t, "mark")
    /\ link' = [link EXCEPT ![th[t].curr].deleted = TRUE]
    /\ Go(t, "unlink") /\ Effect(t)
    /\ UNCHANGED <<hashnr, key, table, memory, pin, script>>

Mark(t) ==
    LET l == th[t]
    IN  /\ At(t, "mark")
        /\ IF link[l.curr] = l.link
           THEN /\ link' = [link EXCEPT ![l.curr].deleted = TRUE]
                /\ Go(t, "unlink") /\ Effect(t)
           ELSE Local(t, Retry(l)) /\ UNCHANGED link /\ NoEffect
        /\ UNCHANGED <<hashnr, key, table, memory, pin, script>>

\* MUTANT: who marks an element frees it, whoever takes it out.
UnlinkFrees(t) ==
    LET l == th[t]
    IN  /\ At(t, "unlink")
        /\ FreeElement(l.curr)
        /\ IF Read(l.prev) = LinkTo(l.curr) THEN Follow(l.prev, l.link.to) ELSE UNCHANGED <<bucket, link>>
        /\ Go(t, "uncount")
        /\ UNCHANGED <<hashnr, size, count, pool, pin, script>> /\ NoEffect

Unlink(t) ==
    LET l == th[t]
    IN  /\ At(t, "unlink")
        /\ IF Read(l.prev) = LinkTo(l.curr)
           THEN Follow(l.prev, l.link.to) /\ FreeElement(l.curr) /\ Go(t, "uncount")
           ELSE /\ Local(t, Find(l, l.head, l.hash, l.search, "cleanup"))
                /\ UNCHANGED <<bucket, link, freed, key>>
        /\ UNCHANGED <<hashnr, size, count, pool, pin, script>> /\ NoEffect

Uncount(t) ==
    /\ At(t, "uncount")
    /\ pin' = [pin EXCEPT ![t] = NoPins]
    /\ count' = count - 1
    /\ Done(t) /\ Return(t, TRUE)
    /\ UNCHANGED <<list, bucket, size, memory, script>>

SearchReturns(t) ==
    /\ At(t, "found")
    /\ pin' = [pin EXCEPT ![t] = [NoPins EXCEPT ![2] = th[t].curr]]
    /\ Go(t, "using") /\ Return(t, Present)
    /\ UNCHANGED <<list, table, memory, script>>

\* search_unpin, by the client.
SearchUnpin(t) ==
    /\ At(t, "using")
    /\ pin' = [pin EXCEPT ![t] = NoPins]
    /\ Done(t) /\ NoEffect
    /\ UNCHANGED <<list, table, memory, script>>

\* *prev is compared with prev, the address of the bucket, which it never is:
\* nothing behind this loop is ever executed.
SpinMatch(t) ==
    /\ At(t, "spin")
    /\ pin' = [pin EXCEPT ![t][1] = bucket[th[t].head]]
    /\ UNCHANGED <<list, table, memory, th, script>> /\ NoEffect

\* PinBox: an element that is not pinned when its purgatory is scanned.
Reclaim ==
    \E n \in freed :
        /\ \A t \in Threads : \A i \in 0 .. 2 : pin[t][i] # n
        /\ freed' = freed \ {n}
        /\ pool' = pool \cup {n}
        /\ UNCHANGED <<list, table, pin, th, script>> /\ NoEffect
-------------------------------------------------------------------------------
Inside(t) ==
    \/ Load(t) \/ Confirm(t) \/ LoadLink(t) \/ ConfirmNext(t) \/ Judge(t) \/ HelpRemove(t)
    \/ ReadSize(t) \/ ReadSlot(t) \/ ReadParent(t) \/ Install(t) \/ Swap(t) \/ Duplicate(t)
    \/ ReadSizeAgain(t) \/ Add(t) \/ Double(t) \/ NotFound(t) \/ Mark(t) \/ Unlink(t)
    \/ Uncount(t) \/ SearchReturns(t) \/ SpinMatch(t)

Next == \/ \E t \in Threads : Inside(t) \/ Call(t) \/ SearchUnpin(t)
        \/ Reclaim

Spec == Init /\ [][Next]_vars

\* A thread goes on inside a call.
FairSpec == Spec /\ \A t \in Threads : WF_vars(Inside(t))
-------------------------------------------------------------------------------
TypeOK ==
    /\ link \in [Nodes -> [to : Nodes \cup {None}, deleted : BOOLEAN]]
    /\ hashnr \in [Nodes -> Nat]
    /\ key \in [Nodes -> Keys \cup {DummyKey}]
    /\ bucket \in [Buckets -> Nodes \cup {None}]
    /\ size \in 1 .. MaxSize /\ count \in Int
    /\ pool \subseteq Elements /\ freed \subseteq Elements
    /\ pin \in [Threads -> [0 .. 2 -> Nodes \cup {None}]]
    /\ th \in [Threads -> Locals]

\* The map is a set of keys: insertions and removals, and searches with the keys
\* lsearch does not cut, take effect one at a time, however splitting, helping, the
\* initialization of buckets and searches with longer keys (hash_map.cc:364) interleave.
IsKeyMap == M!Spec

\* An element is in one place: in the pool, freed, in the hand of the thread that
\* inserts it, or in the list (marked or not).  So it is freed exactly once, and
\* not while it is in the list (hash_map.cc:334-337).
ElementsInOnePlace ==
    LET inList == InList
    IN  \A n \in Elements :
            LET places == {<<"pool">> : m \in pool \cap {n}} \cup {<<"freed">> : m \in freed \cap {n}}
                          \cup {<<"list">> : m \in inList \cap {n}}
                          \cup {<<"inserting", t>> : t \in {t \in Threads : th[t].node = n}}
            IN  Cardinality(places) = 1

\* What a thread reads, compares or changes under its pins is not used again
\* meanwhile (hash_map.cc:72,300,394).
UsedIsNotReclaimed ==
    \A t \in Threads :
        th[t].at \in {"link", "next", "judge", "help", "mark", "unlink", "found", "using"} =>
            th[t].curr \notin pool /\ (th[t].at # "using" => th[t].prev \notin {"node"} \X pool)

\* Every bucket in use leads to its own dummy node in the list, and the list is
\* in order: from there on lie all the keys of the bucket (hash_map.cc:653-694).
\* No key is twice in it, marked or not, unless the flags allow that.
BucketsSplitTheList ==
    LET inList == InList IN
    /\ \A b \in Buckets : bucket[b] # None => bucket[b] \in inList \cap Dummies /\ bucket[b][1] = b
    /\ \A n \in inList : link[n].to # None =>
           \/ hashnr[n] < hashnr[link[n].to]
           \/ /\ hashnr[n] = hashnr[link[n].to]
              /\ key[n] < key[link[n].to] \/ (Flags = 0 /\ key[n] = key[link[n].to] /\ key[n] # DummyKey)

\* Every call returns, random_match excepted.
CallsReturn == <>[](\A t \in Threads : th[t].at \in {"idle", "using", "spin"})

===============================================================================
