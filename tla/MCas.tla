-------------------------------- MODULE MCas --------------------------------
(***************************************************************************)
(* wfmcas: multi-word compare and swap with helping (src/src/wfmcas.cc,    *)
(* src/include/lf/wfmcas.hh), one action per access to memory another      *)
(* thread can see.  An operation is an array of rows, highest address      *)
(* first; its last row's mch is its status: null while it goes on, the     *)
(* fail flag, or a helper when it succeeded.                               *)
(*                                                                         *)
(* Rows and helpers are freed through limbo under an open handle, so their *)
(* memory is not reused while a thread refers to it; a helper nobody       *)
(* refers to gives its name to a new one.                                  *)
(***************************************************************************)
EXTENDS Integers, Sequences, FiniteSets, SequencesExt

CONSTANTS NThreads,    \* gMCasThreadNo
          NAddresses,  \* words of shared memory
          Values,      \* what a word may hold besides helpers
          Initial,     \* the value of every word at first
          Scripts,     \* what the threads may call: per thread, a sequence of calls
          MaxCalls,    \* bound on the calls of mcas in a script
          MaxFail,     \* maxFail (4)
          Pool,        \* bound on the helpers of a row alive at once
          Null,        \* nullptr
          Fail         \* mch_fail_flag

Threads == 0 .. NThreads - 1
Addresses == 1 .. NAddresses
CasRow == [address : Addresses, expected : Values, new : Values]
Calls == [kind : {"mcas"}, rows : SUBSET CasRow] \cup [kind : {"read"}, address : Addresses]

ASSUME MCasConstants ==
    /\ NThreads \in Nat \ {0}
    /\ NAddresses \in Nat \ {0}
    /\ Initial \in Values
    /\ MaxFail \in Nat /\ MaxCalls \in Nat /\ Pool \in Nat \ {0}
    /\ Null \notin Values /\ Fail \notin Values /\ Null # Fail
    /\ \A s \in Scripts : s \in [Threads -> Seq(Calls)]
    /\ \A s \in Scripts : \A t \in Threads : \A i \in DOMAIN s[t] : s[t][i].kind = "mcas" =>
          /\ s[t][i].rows # {}
          /\ \A r, q \in s[t][i].rows : r.address = q.address => r = q

Ops == 1 .. MaxCalls                            \* the k-th call of mcas
Rows == Ops \X Addresses                        \* the i-th row of a call
Helpers == [cr : Rows, n : 1 .. Pool]           \* MCasHelper

\* A helper is told from a value by its mark, from the flags by its address.
ASSUME MarkedPointers == Helpers \cap (Values \cup {Null, Fail}) = {}

VARIABLES word,      \* per address: a value or a helper (the marked pointer)
          desc,      \* the calls of mcas: the rows of each, highest address first
          mch,       \* per row: null, the fail flag or a helper
          pending,   \* gPendingOpTable
          checkId,   \* per thread: check_id
          depth,     \* per thread: recur_depth
          script,    \* per thread: what it has yet to call
          stack,     \* per thread: its activations, the running one first
          retired,   \* helpers given to limbo, not reused since
          twice,     \* helpers given to limbo twice
          seen       \* per thread: what the word it reads has been worth

memory == <<word, mch, pending>>
caller == <<desc, checkId, script>>
vars   == <<memory, caller, depth, stack, retired, twice, seen>>

Row(r) == desc[r[1]][r[2]]
LastRow(r) == <<r[1], Len(desc[r[1]])>>
IsHelper(x) == x \in Helpers

Init == /\ word = [a \in Addresses |-> Initial]
        /\ desc = <<>>
        /\ mch = [r \in Rows |-> Null]
        /\ pending = [t \in Threads |-> Null]
        /\ checkId = [t \in Threads |-> (t + 1) % NThreads]
        /\ depth = [t \in Threads |-> 0]
        /\ script \in Scripts
        /\ stack = [t \in Threads |-> <<>>]
        /\ retired = {}
        /\ twice = {}
        /\ seen = [t \in Threads |-> {}]
-------------------------------------------------------------------------------
(* An activation of invoke_mcas (own), help_complete (help) or mcas_read    *)
(* (read), with the place_mcas_helper or should_replace it is in.           *)

Frame(t) == Head(stack[t])
At(t, label) == stack[t] # <<>> /\ Frame(t).at = label
Below(t) == IF stack[t] = <<>> THEN <<>> ELSE Tail(stack[t])
InPlace(t, label) == At(t, label) /\ Frame(t).kind \in {"own", "help"}
Continue(t, f) == stack' = [stack EXCEPT ![t] = <<f>> \o Tail(@)]

Activation(kind, r, label) ==
    [kind |-> kind, cr |-> r, mch |-> Null, cvalue |-> Null, tries |-> 0, res |-> 0, at |-> label]

\* The loop of invoke_mcas or help_complete goes to the next row, or ends.
NextRow(f) == IF f.cr = LastRow(f.cr) THEN [f EXCEPT !.at = "end"]
                                      ELSE [f EXCEPT !.cr = <<@[1], @[2] + 1>>, !.at = "next"]

PlaceReturns(t) ==
    LET f == [Frame(t) EXCEPT !.mch = Null, !.cvalue = Null, !.tries = 0]
    IN  Continue(t, IF f.kind = "help" THEN [f EXCEPT !.at = "check"] ELSE NextRow(f))

\* help_complete of row r, whose result reaches f.  At the depth limit it
\* returns -1 and leaves recur_depth as it is.
Help(t, f, r) ==
    /\ depth' = [depth EXCEPT ![t] = @ + 1]
    /\ stack' = [stack EXCEPT ![t] =
           IF depth[t] + 1 >= NThreads THEN <<[f EXCEPT !.res = -1]>> \o Below(t)
                                       ELSE <<Activation("help", r, "next"), f>> \o Below(t)]

\* Ghost.  What an address is worth: its value, or the one its helper stands for.
Succeeded(o) == o \in DOMAIN desc /\ IsHelper(mch[<<o, Len(desc[o])>>])
Logical(a) ==
    LET h == word[a]
    IN  IF ~ IsHelper(h) THEN h
        ELSE IF mch[h.cr] = h /\ Succeeded(h.cr[1]) THEN Row(h.cr).new ELSE Row(h.cr).expected

Reading(t) == stack[t] # <<>> /\ stack[t][Len(stack[t])].kind = "read"
ReadAddress(t) == Row(stack[t][Len(stack[t])].cr).address

\* What words, rows and threads refer to: other helpers have no name.
Referenced == ToSet(word) \cup Range(mch) \cup
              UNION {{f.mch, f.cvalue} : f \in UNION {ToSet(stack[t]) : t \in Threads}}

\* The helpers a step gives to limbo, and what it makes readers observe.
Deallocs(hs) ==
    /\ retired' = (retired \cup hs) \cap Referenced'
    /\ twice' = twice \cup (hs \cap retired)
    /\ seen' = [t \in Threads |->
                   IF Reading(t)' THEN seen[t] \cup {Logical(ReadAddress(t))'} ELSE {}]
-------------------------------------------------------------------------------
(* mcas and mcas_read.                                                      *)

Descending(q) == {d \in [1 .. Cardinality(q) -> q] :
                     /\ ToSet(d) = q
                     /\ \A i, j \in DOMAIN d : i < j => d[i].address > d[j].address}

Call(t, kind) == /\ stack[t] = <<>> /\ script[t] # <<>>
                  /\ Head(script[t]).kind = kind
                  /\ script' = [script EXCEPT ![t] = Tail(@)]

Invoke(t) ==
    LET o == Len(desc) + 1
        check == (checkId[t] + 1) % NThreads
        f == Activation("own", <<o, 1>>, IF check = t THEN "next" ELSE "assist")
    IN  /\ Call(t, "mcas")
        /\ o <= MaxCalls
        /\ \E d \in Descending(Head(script[t]).rows) : desc' = Append(desc, d)
        /\ checkId' = [checkId EXCEPT ![t] = check]
        /\ depth' = [depth EXCEPT ![t] = 0]
        /\ stack' = [stack EXCEPT ![t] = <<f>>]
        /\ UNCHANGED memory /\ Deallocs({})

\* help_if_needed: one other thread's announcement.
Assist(t) ==
    /\ At(t, "assist")
    /\ LET r == pending[checkId[t]]
           f == [Frame(t) EXCEPT !.at = "next"]
       IN  IF r = Null THEN Continue(t, f) /\ UNCHANGED depth
                       ELSE Help(t, f, r)
    /\ UNCHANGED <<memory, caller>> /\ Deallocs({})

\* mcas_read, whose assertion holds; a word that holds a value is read at once.
Read(t) ==
    LET h == word[Head(script[t]).address]
    IN  /\ Call(t, "read")
        /\ depth[t] = 0
        /\ IF IsHelper(h) THEN Help(t, [Activation("read", h.cr, "judge") EXCEPT !.cvalue = h], h.cr)
                          ELSE UNCHANGED <<stack, depth>>
        /\ UNCHANGED <<memory, desc, checkId>> /\ Deallocs({})

\* MUTANT: the result of the operation does not matter.
WorthWhenAssociated(f, h) == IF mch[h.cr] = h THEN Row(h.cr).new ELSE Row(h.cr).expected

\* What a helper is worth to the one who asked help_complete about it.
Worth(f, h) == IF f.res = 0 /\ mch[h.cr] = h THEN Row(h.cr).new ELSE Row(h.cr).expected

ReadReturns(t) ==
    /\ At(t, "judge")
    /\ Frame(t).kind = "read"
    /\ stack' = [stack EXCEPT ![t] = <<>>]
    /\ UNCHANGED <<memory, caller, depth>> /\ Deallocs({})
-------------------------------------------------------------------------------
(* place_mcas_helper.                                                       *)

Fresh(r) == {n \in 1 .. Pool : [cr |-> r, n |-> n] \notin Referenced}
NewHelper(r) == [cr |-> r, n |-> Min(Fresh(r))]

\* The test of the last row before a row is placed, and the allocation.
NextPlace(t) ==
    /\ InPlace(t, "next")
    /\ LET f == Frame(t)
       IN  IF mch[LastRow(f.cr)] = Null
           THEN /\ Fresh(f.cr) # {}
                /\ Continue(t, [f EXCEPT !.mch = NewHelper(f.cr), !.at = "load"])
           ELSE Continue(t, [f EXCEPT !.at = "end"])
    /\ UNCHANGED <<memory, caller, depth>> /\ Deallocs({})

Load(t) ==
    /\ At(t, "load")
    /\ Continue(t, [Frame(t) EXCEPT !.cvalue = word[Row(Frame(t).cr).address], !.at = "loop"])
    /\ UNCHANGED <<memory, caller, depth>> /\ Deallocs({})

\* One more try, if the row is still open: after maxFail of them a helper gives
\* the operation up, and its owner announces it.
Loop(t) ==
    /\ At(t, "loop")
    /\ LET f == Frame(t)
           f1 == [f EXCEPT !.tries = IF @ > MaxFail THEN @ ELSE @ + 1]
       IN  IF mch[f.cr] # Null
           THEN PlaceReturns(t)
           ELSE Continue(t, [f1 EXCEPT !.at = IF f.tries # MaxFail THEN "try"
                                              ELSE IF depth[t] > 0 THEN "fail" ELSE "announce"])
    /\ UNCHANGED <<memory, caller, depth>>
    /\ Deallocs(IF mch[Frame(t).cr] # Null THEN {Frame(t).mch} ELSE {})

Announce(t) ==
    /\ At(t, "announce")
    /\ pending' = [pending EXCEPT ![t] = Frame(t).cr]
    /\ Continue(t, [Frame(t) EXCEPT !.at = "try"])
    /\ UNCHANGED <<word, mch, caller, depth>> /\ Deallocs({})

\* MUTANT: another value than the expected one is waited out.
TryValueRetries(t) ==
    LET f == Frame(t)
        a == Row(f.cr).address
        hit == word[a] = Row(f.cr).expected
    IN  /\ At(t, "try")
        /\ ~ IsHelper(f.cvalue)
        /\ word' = IF hit THEN [word EXCEPT ![a] = f.mch] ELSE word
        /\ Continue(t, IF hit THEN [f EXCEPT !.at = "associate"]
                              ELSE [f EXCEPT !.cvalue = word[a], !.at = "loop"])
        /\ UNCHANGED <<mch, pending, caller, depth>> /\ Deallocs({})

\* The word held a value: install the helper in place of the expected value.
TryValue(t) ==
    LET f == Frame(t)
        a == Row(f.cr).address
    IN  /\ At(t, "try")
        /\ ~ IsHelper(f.cvalue)
        /\ CASE word[a] = Row(f.cr).expected ->
                     /\ word' = [word EXCEPT ![a] = f.mch]
                     /\ Continue(t, [f EXCEPT !.at = "associate"])
             [] IsHelper(word[a]) ->
                     /\ Continue(t, [f EXCEPT !.cvalue = word[a], !.at = "loop"])
                     /\ UNCHANGED word
             [] OTHER -> Continue(t, [f EXCEPT !.at = "fail"]) /\ UNCHANGED word
        /\ UNCHANGED <<mch, pending, caller, depth>> /\ Deallocs({})

\* The word held a helper of this very row: associate the row with that one.
Adopt(t) ==
    LET f == Frame(t)
        free == mch[f.cr] \in {Null, f.cvalue}
    IN  /\ At(t, "try")
        /\ IsHelper(f.cvalue)
        /\ f.cvalue.cr = f.cr
        /\ mch' = IF free THEN [mch EXCEPT ![f.cr] = f.cvalue] ELSE mch
        /\ IF free THEN PlaceReturns(t) ELSE Continue(t, [f EXCEPT !.at = "undo"])
        /\ UNCHANGED <<word, pending, caller, depth>>
        /\ Deallocs(IF free THEN {f.mch} ELSE {})

\* The row has been decided with another helper: take this one out.
Undo(t) ==
    LET f == Frame(t)
        a == Row(f.cr).address
        there == word[a] = f.cvalue
    IN  /\ At(t, "undo")
        /\ word' = IF there THEN [word EXCEPT ![a] = Row(f.cr).expected] ELSE word
        /\ PlaceReturns(t)
        /\ UNCHANGED <<mch, pending, caller, depth>>
        /\ Deallocs(IF there THEN {f.cvalue, f.mch} ELSE {f.mch})

\* MUTANT: the other operation is not helped before its helper is replaced.
ShouldReplaceUnhelped(t) ==
    LET f == Frame(t)
        r == f.cvalue.cr
    IN  /\ At(t, "try")
        /\ IsHelper(f.cvalue)
        /\ r # f.cr
        /\ Continue(t, [f EXCEPT !.res = 1, !.at = "judge"])
        /\ UNCHANGED <<memory, caller, depth>> /\ Deallocs({})

\* The word held a helper of another row: should_replace.
ShouldReplace(t) ==
    LET f == Frame(t)
        r == f.cvalue.cr
    IN  /\ At(t, "try")
        /\ IsHelper(f.cvalue)
        /\ r # f.cr
        /\ IF Row(f.cr).expected \in {Row(r).expected, Row(r).new}
           THEN Help(t, [f EXCEPT !.at = "judge"], r)
           ELSE Continue(t, [f EXCEPT !.at = "fail"]) /\ UNCHANGED depth
        /\ UNCHANGED <<memory, caller>> /\ Deallocs({})

Judge(t) ==
    LET f == Frame(t)
    IN  /\ InPlace(t, "judge")
        /\ Continue(t, [f EXCEPT !.res = 0, !.at = IF f.res # -1 /\ Worth(f, f.cvalue) = Row(f.cr).expected
                                                  THEN "swap" ELSE "fail"])
        /\ UNCHANGED <<memory, caller, depth>> /\ Deallocs({})

\* Install the helper in place of the other row's.
Swap(t) ==
    LET f == Frame(t)
        a == Row(f.cr).address
    IN  /\ At(t, "swap")
        /\ IF word[a] = f.cvalue
           THEN word' = [word EXCEPT ![a] = f.mch] /\ Continue(t, [f EXCEPT !.at = "associate"])
           ELSE Continue(t, [f EXCEPT !.cvalue = word[a], !.at = "loop"]) /\ UNCHANGED word
        /\ UNCHANGED <<mch, pending, caller, depth>> /\ Deallocs({})

Associate(t) ==
    LET f == Frame(t)
    IN  /\ At(t, "associate")
        /\ IF mch[f.cr] \in {Null, f.mch}
           THEN mch' = [mch EXCEPT ![f.cr] = f.mch] /\ PlaceReturns(t)
           ELSE Continue(t, [f EXCEPT !.at = "restore"]) /\ UNCHANGED mch
        /\ UNCHANGED <<word, pending, caller, depth>> /\ Deallocs({})

\* MUTANT: the helper is freed and not taken out.
RestoreForgets(t) ==
    /\ At(t, "restore")
    /\ PlaceReturns(t)
    /\ UNCHANGED <<memory, caller, depth>>
    /\ Deallocs({Frame(t).mch})

Restore(t) ==
    LET f == Frame(t)
        a == Row(f.cr).address
        there == word[a] = f.mch
    IN  /\ At(t, "restore")
        /\ word' = IF there THEN [word EXCEPT ![a] = Row(f.cr).expected] ELSE word
        /\ PlaceReturns(t)
        /\ UNCHANGED <<mch, pending, caller, depth>>
        /\ Deallocs(IF there THEN {f.mch} ELSE {})

\* set_mcas_fail: the row, and only if that one was open, the last row.
FailRow(t) ==
    LET f == Frame(t)
        open == mch[f.cr] = Null
    IN  /\ At(t, "fail")
        /\ mch' = IF open THEN [mch EXCEPT ![f.cr] = Fail] ELSE mch
        /\ IF open THEN Continue(t, [f EXCEPT !.at = "fail_last"]) ELSE PlaceReturns(t)
        /\ UNCHANGED <<word, pending, caller, depth>>
        /\ Deallocs(IF open THEN {} ELSE {f.mch})

FailLast(t) ==
    /\ At(t, "fail_last")
    /\ mch' = [mch EXCEPT ![LastRow(Frame(t).cr)] = IF @ = Null THEN Fail ELSE @]
    /\ PlaceReturns(t)
    /\ UNCHANGED <<word, pending, caller, depth>>
    /\ Deallocs({Frame(t).mch})
-------------------------------------------------------------------------------
(* The end of help_complete and of invoke_mcas.                             *)

\* help_complete stops at a failed row.
Check(t) ==
    /\ At(t, "check")
    /\ Continue(t, IF mch[Frame(t).cr] = Fail THEN [Frame(t) EXCEPT !.at = "end"]
                                              ELSE NextRow(Frame(t)))
    /\ UNCHANGED <<memory, caller, depth>> /\ Deallocs({})

HelpReturns(t) ==
    /\ At(t, "end")
    /\ Frame(t).kind = "help"
    /\ LET res == IF mch[LastRow(Frame(t).cr)] # Fail THEN 0 ELSE 1
       IN  stack' = [stack EXCEPT ![t] = <<[@[2] EXCEPT !.res = res]>> \o Tail(Tail(@))]
    /\ depth' = [depth EXCEPT ![t] = @ - 1]
    /\ UNCHANGED <<memory, caller>> /\ Deallocs({})

Withdraw(t) ==
    /\ At(t, "end")
    /\ Frame(t).kind = "own"
    /\ pending' = [pending EXCEPT ![t] = Null]
    /\ Continue(t, [Frame(t) EXCEPT !.at = "decide"])
    /\ UNCHANGED <<word, mch, caller, depth>> /\ Deallocs({})

\* The result of mcas.
Decide(t) ==
    /\ At(t, "decide")
    /\ LET res == IF mch[LastRow(Frame(t).cr)] # Fail THEN 0 ELSE 1
       IN  Continue(t, [Frame(t) EXCEPT !.res = res, !.cr = <<@[1], 1>>, !.at = "remove"])
    /\ UNCHANGED <<memory, caller, depth>> /\ Deallocs({})

\* MUTANT: the value is stored whatever the word holds.
RemoveHelperBlindly(t) ==
    LET f == Frame(t)
        r == Row(f.cr)
        h == mch[f.cr]
    IN  /\ At(t, "remove")
        /\ word' = IF h # Fail
                   THEN [word EXCEPT ![r.address] = IF f.res = 0 THEN r.new ELSE r.expected]
                   ELSE word
        /\ stack' = [stack EXCEPT ![t] =
               IF h = Fail \/ f.cr = LastRow(f.cr) THEN <<>> ELSE <<[f EXCEPT !.cr = <<@[1], @[2] + 1>>]>>]
        /\ UNCHANGED <<mch, pending, caller, depth>>
        /\ Deallocs({h} \ {Null, Fail})

\* remove_mcas_helper, one row: it stops at the first failed row.
RemoveHelper(t) ==
    LET f == Frame(t)
        r == Row(f.cr)
        h == mch[f.cr]
    IN  /\ At(t, "remove")
        /\ word' = IF h # Fail /\ word[r.address] = h
                   THEN [word EXCEPT ![r.address] = IF f.res = 0 THEN r.new ELSE r.expected]
                   ELSE word
        /\ stack' = [stack EXCEPT ![t] =
               IF h = Fail \/ f.cr = LastRow(f.cr) THEN <<>> ELSE <<[f EXCEPT !.cr = <<@[1], @[2] + 1>>]>>]
        /\ UNCHANGED <<mch, pending, caller, depth>>
        /\ Deallocs({h} \ {Null, Fail})
-------------------------------------------------------------------------------
Step(t) ==
    \/ Assist(t) \/ ReadReturns(t) \/ NextPlace(t) \/ Load(t) \/ Loop(t) \/ Announce(t)
    \/ TryValue(t) \/ Adopt(t) \/ Undo(t) \/ ShouldReplace(t) \/ Judge(t) \/ Swap(t)
    \/ Associate(t) \/ Restore(t) \/ FailRow(t) \/ FailLast(t)
    \/ Check(t) \/ HelpReturns(t) \/ Withdraw(t) \/ Decide(t) \/ RemoveHelper(t)

Next == \E t \in Threads : Step(t) \/ Invoke(t) \/ Read(t)

Spec == Init /\ [][Next]_vars

\* Some thread goes on running, whichever the scheduler picks.
FairSpec == Spec /\ WF_vars(Next)
-------------------------------------------------------------------------------
Labels == {"assist", "next", "load", "loop", "announce", "try", "undo", "judge", "swap",
           "associate", "restore", "fail", "fail_last", "check", "end", "decide", "remove"}
Frames == [kind : {"own", "help", "read"}, cr : Rows, mch : {Null} \cup Helpers,
           cvalue : {Null} \cup Values \cup Helpers, tries : 0 .. MaxFail + 1,
           res : {-1, 0, 1}, at : Labels]

TypeOK ==
    /\ word \in [Addresses -> Values \cup Helpers]
    /\ desc \in Seq(Seq(CasRow)) /\ Len(desc) <= MaxCalls
    /\ mch \in [Rows -> {Null, Fail} \cup Helpers]
    /\ pending \in [Threads -> {Null} \cup Rows]
    /\ checkId \in [Threads -> Threads]
    /\ depth \in [Threads -> Nat]
    /\ script \in [Threads -> Seq(Calls)]
    /\ stack \in [Threads -> Seq(Frames)]
    /\ retired \subseteq Helpers /\ twice \subseteq Helpers
    /\ seen \in [Threads -> SUBSET Values]
-------------------------------------------------------------------------------
Undecided(o) == o \in DOMAIN desc /\ mch[<<o, Len(desc[o])>>] = Null
SomeFailed(o) == \E i \in 1 .. Len(desc[o]) : mch[<<o, i>>] = Fail
Open(o) == Undecided(o) /\ ~ SomeFailed(o)

\* Until its operation is decided or one of its rows fails, a row that has been given
\* a helper keeps that helper in its word: nobody replaces, restores or removes it
\* (wfmcas.cc:208-209).
AssociatedIsInstalled ==
    \A r \in Rows : Open(r[1]) /\ IsHelper(mch[r]) => word[Row(r).address] = mch[r]

\* A helper is given to limbo once, and then out of reach: no word holds it, however
\* many threads raced to restore, replace or remove it (wfmcas.cc:183-184, 213-214, 400).
RetiredIsUnreachable == twice = {} /\ \A a \in Addresses : word[a] \notin retired

\* help_complete leaves an operation it reports as successful decided
\* (wfmcas.cc:307, 340).
HelpCompleted(t) == Frame(t).res = 0 => Succeeded(Frame(t).cvalue.cr[1])
\* When help_complete has done so, mcas_read returns what the address was worth
\* at a moment of the read (wfmcas.cc:449-456).
ReadIsLinearizable ==
    \A t \in Threads : At(t, "judge") /\ Frame(t).kind = "read" /\ HelpCompleted(t) =>
                            Worth(Frame(t), Frame(t).cvalue) \in seen[t]

\* The step decides the operation of row r, whose helper is in the word of a.
TakesEffect(a, r) ==
    /\ Undecided(r[1]) /\ Succeeded(r[1])'
    /\ Row(r).address = a /\ word[a] = mch'[r]
    /\ Logical(a) = Row(r).expected /\ Logical(a)' = Row(r).new

\* The helper in the word of a belongs to an operation one of whose rows has failed,
\* and not yet its last one: help_complete has taken that for success.
TakenForDone(a) ==
    LET h == word[a]
    IN  /\ IsHelper(h) /\ SomeFailed(h.cr[1]) /\ ~ Succeeded(h.cr[1])
        /\ Logical(a) = Row(h.cr).expected /\ Logical(a)' = Row(h.cr).new

\* Installing, adopting, replacing, restoring and removing helpers change no
\* address's worth: only the step that decides an operation does, from the
\* expected value to the new one, in the rows that hold its helpers, and a
\* replacement by a thread that takes a failing operation for done.
LogicalStep ==
    [][\A a \in Addresses : Logical(a)' # Logical(a) =>
          (\E r \in Rows : TakesEffect(a, r)) \/ TakenForDone(a)]_vars

\* However the threads are scheduled, every call of mcas and mcas_read is made and
\* returns: no thread waits for another one or runs in a circle with it, and
\* recur_depth is 0 whenever a thread comes to read (wfmcas.cc:437).
CallsReturn == <>(\A t \in Threads : script[t] = <<>> /\ stack[t] = <<>>)

\* The status of the operation is in its last row (wfmcas.cc:105, 117): when that
\* one tells success, no row has failed.
SuccessIsTotal ==
    \A o \in DOMAIN desc : Succeeded(o) => \A i \in 1 .. Len(desc[o]) : mch[<<o, i>>] # Fail

===============================================================================
