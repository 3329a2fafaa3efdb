# Verification of lf, a library of lock-free data structures

TLA+ models of `lf`: its concurrent structures, one action per access to memory that
another thread can see, and its number and time arithmetic; the TLC runs that check them on
small instances; and proofs, checked by TLAPS, of what limbo, wfmcas, PinBox, the split list and DynArray
promise for any number of threads.  Paths are relative to `src/`.

## The system

lf is a C++ library for multi-threaded storage code.  Its parts, what each keeps,
and what makes it correct:

| part | code | state | operations | correct when |
|---|---|---|---|---|
| limbo | `include/lf/limbo.hh`, `src/limbo.cc`, `src/lf.cc` | `global_epoch`; per thread a list of handles, `min_epoch_`, a chain of groups of retired pointers | `new_handle`, `delete_handle`, `dealloc`, `register_rcu`, `hard_free`, `destroy` | nothing is freed while an open handle can reach it; everything is freed once; `deinit_lf_library` ends |
| wfmcas | `include/lf/wfmcas.hh`, `src/wfmcas.cc` | memory words holding a value or a marked helper pointer; rows with `mch`; the pending table | `mcas`, `mcas_read` | each operation is atomic: all rows or none, and its result says which |
| PinBox, Allocator | `alloc_pin.hh/.cc` | pins, purgatories, a versioned stack of free Pins, a stack of free elements | `get_pins`, `put_pins`, `pins_free`, `alloc` | a pinned object is not freed; no element is handed out twice |
| HashMap | `hash_map.hh/.cc` | one list sorted by reversed hash, buckets, `size_`, `count_` | `insert`, `search`, `remove`, `random_match` | a set, linearizable; each removed node is freed once |
| sort_list | `sort_list.hh/.cc` | the list of HashMap alone (not built) | insert, delete, search | as above |
| DynArray | `dyn_array.hh/.cc` | four levels of arrays of 256 | `lvalue`, `value`, `iterate` | an index always names the same element |
| Masstree | `include/masstree/*` | a trie of B+ trees; a version word and a permuter per node; leaf links | `get`, `scan`, find/finish insert and remove, `destroy` | readers without locks see what was in the tree; no key is lost by a split or a removed leaf |
| AutoRollLogger | `auto_roll_logger.hh/.cc` | the current logger, its age and size, the headers | `logv`, `log_header`, `reset_logger` | one roll per expiry; no line is lost |
| pure code | `decimal.cc`, `dtoa.cc`, `itoa.cc`, `time.cc`, `my_decimal.*`, `random.*`, `hash.cc`, `slice.*` | values | arithmetic, conversions | what the operation is defined to be |

They interact through limbo: wfmcas, Masstree (and the unfinished skip list) retire
memory with `LimboHandle::dealloc` or `ThreadInfo::dealloc` and register callbacks
(`MrcuCallback`) that `hard_free` runs a grace period later, which may retire and
register more.  HashMap stands on Allocator, which stands on PinBox, which stands on
DynArray.  Everything stands on the atomics of `compiler.hh`.

What is hard: there are no locks outside Masstree nodes and the logger; a scan over
threads is not a snapshot; callbacks run in the middle of reclamation; helpers finish
the operations of others; versions and counters are packed into words and wrap.
`PROJECT.json` lists these hazards with the lines where they bite.

## Modules

| module | what it is |
|---|---|
| `GracePeriod` | what limbo promises: sections (handles), objects, and the rule that an unlinked object is freed only after every section that was open then |
| `GracePeriodProofs` | that rule never frees what an open section can reach |
| `Limbo` | handles, epochs, caches, `hard_free` with callbacks, `deinit_lf_library` |
| `LimboInvariant` | the strengthening: what makes Limbo's safety inductive |
| `LimboProofs` | the inductive invariant holds of `Spec`, which implements `GracePeriod` and loses no object |
| `LimboTSO` | the same with a store buffer per thread, for the relaxed stores of `min_epoch_` |
| `RecordQueue` | what a thread's list of groups promises: a first-in first-out queue freed up to a bound |
| `LimboGroup` | the chain of groups: markers, `push_back`, `refill_group`, `clean_until`, the splice of emptied groups |
| `LimboGroupProofs` | the chain implements `RecordQueue` |
| `MCas` | multi-word compare and swap: rows, helpers, helping, announcements, `mcas_read` |
| `MCasProofs` | proofs about it: what an activation knows at its label; helpers, worth and reads |
| `PinBox` | PinBox and Allocator: the stack of unused Pins, pins against the scan, the stack of free objects |
| `PinBoxProofs` | its proofs |
| `DataLemmas` | facts about numbers, sequences and linked lists that several proofs use |
| `KeyMap` | what both maps promise: every operation takes effect at one moment between call and return |
| `OrderedMap` | `KeyMap` with scans, which are not atomic: what a scan must visit, may visit and may pass over |
| `SplitList` | HashMap: the sorted list with marked links, dummies, buckets and the doubling table |
| `SplitListProofs` | its proofs: bits, the order of the list, cursors, buckets, elements, and that it is a `KeyMap` |
| `Masstree` | the trie of B+ trees: readers without locks, splits, layers, removed leaves, the layer callback, scans |
| `DynArray`, `DynArrayProofs` | the array that grows without locks, and its proofs |
| `Decimal`, `MyDecimal` | `decimal.cc` as operators, and a caller that applies them to a `my_decimal` |
| `Time`, `TimeValues` | `time.cc` as operators, and a caller that applies them to a `MY_TIME` |
| `MC...` | the instances TLC checks |

The modules compose by promise: SplitList takes from PinBox that a freed element is used again
only when no pin holds it (`Reclaim`), and from DynArray that an index has one place;
Masstree takes from Limbo that what is retired lives until the handles of that moment are
closed (`retired[n].users`), and checks its own side of the contract.  `KeyMap` is the abstract
specification of SplitList, `OrderedMap`, which extends it, that of Masstree, `RecordQueue` that of LimboGroup, `GracePeriod` that of
Limbo.

### Limbo, and how it follows the code

A handle is named by its epoch, which the atomic add of `new_handle` makes unique.
`NewHandle` is that add, `Publish` the link and the store of `min_epoch_` (only this
thread looks at the list, so the two are one step for the others).  `Unlink` is the
client: it takes an object out of a shared structure under one of its handles; the
handles open at that moment are the object's `blockers`.  `HandleDealloc` caches and
flushes at `dealloc_cache_size`; `ThreadDealloc` and `RegisterRcu` record at once.
`DeleteHandle` is the destructor's flush, `UnlinkHandle` the rest of `delete_handle`,
which starts `hard_free` when the oldest handle goes.  `Scan` reads one `min_epoch_`;
`Free`, `FirstCall` and `RunCallback` are the three things `free_rcu` does with the
first element; a callback unlinks and records (`CallbackUnlink`, `CallbackRecord`) or
registers others (`RegisterRcu`).  `Deinit`, `DestroyLoop` and `DestroyReturns` are
`deinit_lf_library` after the workers have been joined.  The group chain of a thread
is the sequence `limbo[t]`; that the chain is such a sequence is what `LimboGroup`
shows against `RecordQueue`.  There the sequence is `Queue`: what is left of each group
(`Live`) from `group_head_` to `group_tail_`, read as `clean_until` reads it (`Reading`, a fold
of `Meet`: a marker sets the epoch, a pointer is met at it).  The pointer a callback runs for
is still in its slot but no longer in the queue; `Left` takes it off the count.

Three variables are history: `freed`, and, for the exception below, what each
`hard_free` has recorded itself (`recorded`) and what it freed of that (`samePass`).

### What limbo guarantees, and what it does not

`SafeAcrossPasses` is the guarantee that holds: nothing is freed while a handle that
was active when it was unlinked is open, *unless the very `hard_free` that frees it had
recorded it, through a callback*.  The full claim of the comments (`limbo.hh:13,137`),
`NoUseAfterFree`, fails in two ways:

* the bound is read once, before callbacks run; what they record is freed under it at once
  when it is high enough, and it is 2^63 - 1 if nobody was active (`samePass` keeps track of
  this case; a finding);
* `min_epoch_` is stored without a fence, so a scan may miss a handle that already reads
  (`limbo_tso`, a run that TLC must violate).

Without callbacks and without store buffers the full claim is proved
(`NoUseAfterFreeWithoutCallbacks`).

### MCas, and how it follows the code

A call of `mcas` is a number; `desc` has its rows, highest address first, `mch` the
`mch` of each row.  `word` is the shared memory: a value or a helper.  A thread has a
stack of activations (`invoke_mcas`, `help_complete`, `mcas_read`), each with the place
in `place_mcas_helper` or `should_replace` it has reached; one action is one access to
`word`, `mch` or `pending`, so that two threads may be anywhere in the same row.

* `NextPlace`, `Load`, `Loop`, `Announce` are the loop over rows, the first load of the
  word, the test of the row with the count of tries, and the store into
  `gPendingOpTable`; `Assist` is `help_if_needed`.
* `TryValue` and `Swap` are the compare and swaps that install a helper, over the
  expected value and over another row's helper; `Associate` and `Restore` what follows.
  `Adopt` and `Undo` are the case where the word holds a helper of this very row.
* `ShouldReplace` calls `Help` (`help_complete`), which pushes an activation or returns
  -1 at the recursion bound; `Judge` and `ReadReturns` use its result.
* `FailRow` and `FailLast` are the two compare and swaps of `set_mcas_fail`.
* `Withdraw`, `Decide`, `RemoveHelper` end `invoke_mcas`; `remove_mcas_helper` is one
  action per row.

`Logical(a)` is what an address is worth: its value, the new value of its row if its
helper counts and its operation has succeeded, the expected value otherwise.
`LogicalStep` then says that `mcas` is atomic: of all the steps above, only the one that
decides an operation changes what addresses are worth, in all the rows that hold its
helpers at once.  `AssociatedIsInstalled` is why: a helper that counts stays in its word
while its operation is `Open`, neither decided nor failed in one of its rows.  Helpers are given to limbo by whoever takes them out or finds them
superfluous; `RetiredIsUnreachable` says that these decisions, taken by different threads,
agree: no helper is given twice, and none while a word holds it.  Names of helpers nobody refers to are used again.
`retired`, `twice` and `seen` (what a word was worth during a read) are history.

Two claims of the comments fail, both since `set_mcas_fail` is not atomic: between its two
compare and swaps the owner goes past the failed row and may complete the last one, so that
`mcas` returns true with a row missing (`mcas_success`, a run that TLC must violate), and
`help_complete` reports success of an operation that fails (a finding; the script `Torn` has a
thread that believes it).
`ReadIsLinearizable` is therefore stated for reads whose help was complete, `LogicalStep`
names the steps of a thread that was told a success that is none (`TakenForDone`), and nothing
says that success is total.

### PinBox, and how it follows the code

PinBox and Allocator are one module, since `alloc` reads the free stack under pin 0 of
the caller's Pins and `alloc_free` is the function PinBox frees with.  One action is one
access to memory another thread can see.

* `GetPins`, `NewPins`, `ReadLink`, `PopPins`, `InitPins` are `get_pins`: the load of
  `pinstack_top_ver_`, a new Pins of the array if the stack was empty, otherwise the read
  of `link` and the compare and swap.  A `get_pins` that finds the array full has counted
  `pins_in_array_` up all the same.
* `PutPins`, `Drain`, `LinkPins`, `PushPins` are `put_pins`, which frees the purgatory
  until it is empty, then pushes.  Its caller has removed its pins (`hash_map.cc:513`).
* `Alloc`, `ReadTop`, `PinTop`, `CheckTop`, `Malloc`, `ReadNext`, `TakeTop`,
  `AllocReturns` are `Allocator::alloc`.
* `Free` is `pins_free`; `StartScan`, `ScanPin` (`match_and_save` of one pin),
  `ReadTopToFree`, `Chain` and `GiveBack` (`alloc_free`) are `pinbox_real_free`.
* `Exchange`, `Protect`, `LoadShared`, `PinShared`, `CheckShared`, `CopyUp` and `Unpin`
  are the clients, who follow the protocol of the header comment (`alloc_pin.cc:26-60`):
  one pointer they share, read with pin 0 and copied up to pin 1.

A purgatory is a sequence; the words that link it are written to `next` as the code does,
since a stale `alloc` may read them.  The words of a scan's own list are written in
`Chain`.  `held` is history: what a client has pinned and then seen again.

`HeldIsSafe` is the promise of the pins.  `ObjectsInOnePlace` says that the free stack
neither loses an object nor hands one out twice: its compare and swap has no version, and
only the pin keeps a popped object from coming back between the read of `next` and the
swap.  `PinsInOnePlace` is the same of the stack of Pins, which relies on the version
instead.

### SplitList, and how it follows the code

A node is an element of the allocator or the dummy that a thread allocated for a bucket;
`link` is the `link_` word with its deleted bit.  A call of `insert`, `search`, `remove` or
`random_match` goes through these steps:

* `ReadSize`, `ReadSlot`, `ReadParent` and `Install` choose the bucket from `size_`, read its
  pointer and, if it is null, initialize it after its parent (`initialize_bucket`, where a
  thread whose dummy is already in the list frees its own and installs the other).
* `Load`, `Confirm`, `LoadLink`, `ConfirmNext`, `Judge`, `HelpRemove` are `lfind`: pin what
  the previous link leads to and read it again, read the link, pin and read again, compare,
  and take out a marked node, whose helper frees it.  `ConfirmNext` is the loop of lines
  72-78 with the retry behind it.
* `Swap` is the compare and swap of `linsert`; `Mark` and `Unlink` those of `ldelete`, which
  searches again if the second one fails.
* `Duplicate`, `NotFound`, `SearchReturns` end a call; `ReadSizeAgain`, `Add`, `Double`,
  `Uncount` are the counter and the doubling of the table.

`SearchUnpin` is the caller of `search`, who uses what it found and then drops its pin.
`random_match` is modelled up to the loop it never leaves (a finding): `SpinMatch`.
`ReverseBits` and `SplitHash` are the order of the list; the hash itself is a constant, and
the keys with one hash are numbers in the order in which `strnncoll` puts them.

`lsearch` takes the length of a key as a `uint8_t` (a finding): a search with a key of 256 bytes or
more hashes the whole key and then looks for a prefix of it.  `Cut` is that prefix, `Sought` the key
a call looks for, and the history (`Recorded`) has no search whose key is cut: it is a search for
another key, and `IsKeyMap` fails if it is counted as one for its own.  Such searches run among the
others all the same, and the rest of the properties hold of them.

### Masstree, and how it follows the code

A node is a record: the version word (lock, dirty bits, root, deleted, one counter in which
the low `InsertBits` count inserts, so that it carries into the splits as in
`nodeversion.hh:148`), the permuter or the keys, links and parent.  A key is a sequence of
slices; a slot holds a value, a suffix or a layer.

* `Call`, `ReadRoot` ... `Validate`, `EnterLayer` are `reach_leaf`, `advance_to_key` and `get`:
  every stable version, child, bound, permuter and value is a read of its own, believed only
  after `CheckParent`, `CheckLast` or `Validate` has seen the version again.
* `Lock`, `Confirm`, `UnlockAndAdvance`, `UnlockAndEnter` are `find_locked`.
* `SetModstate`, `Place`, `SetValue`, `FinishInsert`, `Finish` are `find_insert` and `finish`;
  `NewLayer` ... `LeaveLayer` `make_new_layer`.
* `SplitLeaf`, `LockNext`, `LinkPrev`, `LinkNext` and the climb `ReadParent` ...
  `ReleaseParent` are `make_split`, with `hang` (a child is put in), in place of the
  code's loop variable.
* `MarkRemove`, `Drop`, `KeepFirst`, `DeleteLeaf`, `Unlink`, `ReadPrev`, `MarkPrev`, `Relink`,
  `Bypass`, `Prune`, `Redirect`, `Redirected`, `Pruned`, `Collapse` are `remove_leaf` with
  its leaf links and its redirections.
* `Collect` starts `GcLayerRcuCallback` when no handle of before is left; `FindRoot` ...
  `UnlockLayerRoot` are `gc_layer`.

* `scan` finds its first key as `get` does, up to `Initial` (`find_initial`).  `Resume`,
  `ReadKind`, `ReadValue`, `ReadSuffix`, `NextEntry` are `find_next`; `EndOfLeaf`, `NextLeaf`,
  `Restable` go on to the next leaf, or start again in one that has changed; `ScanUp` and
  `Unshift` come back from a layer.  `key` is `ka_`: below a layer it starts as a slice before
  every slice (`shift_clear`), back in the leaf above it has a suffix that puts it behind the
  layer.  The visitor never stops the scan.

What a lock and a dirty bit hide from everybody is one step: a reader that comes meanwhile
waits for the dirty bit, and a writer for the lock.

`IsOrderedMap` says that get, insert and remove are linearizable, and what a scan is, which
the comment at `mt_scan.hh:9` puts as: it sees what was done before it, and may see what is done
after.  A scan visits keys in ascending order, each with a value the key had since the scan
began, and passes over a key only if the key was absent at one moment since then; a leaf may
split behind it, an entry become a layer in front of it, the nodes on its stack go.
`HoldsTheMap`, `LeavesAreLinked`
and `RetiredIsGone` look at the tree when nobody is at work: what a split, a removal or a
collection left wrong would only be met by a later call.  `HandlesProtect` fails
(`masstree_handles`): `remove_leaf` retires a leaf before it takes it out.  `CallsReturn` has
one exception, `Stuck`: `find_locked` goes back to the root with the leaf of a deleted layer
still locked (a finding), and a thread that comes to that leaf waits for ever.
A script that reaches the lost lock of `mt_remove.hh:104` (a finding) is left out of the run.

### DynArray, and how it follows the code

Level i is a tree of arrays i deep.  `ptr[b, k]` is entry k of array b, the entries of `Root`
being the levels.  `Call` chooses the level from the table, `Read` reads a pointer and goes
down (in `value`, returns null for a missing array), `Malloc` makes an array in private,
`Install` is the compare and swap, `Lose` frees the array of a loser, who goes on in the
winner's.  `Destroy` is the destructor.  `trail` is history: every place a thread has reached,
so that `OneCellPerIndex` may compare the elements reached at different times by different
threads.  The two tables of `dyn_array.hh` are constants with the assumption that ties them
together (`TablesAssumption`), so that the proofs hold for any length and number of levels.

### Decimal and Time, and how they follow the code

These are pure algorithms of 5000 lines, and what is hard about them are boundaries that meet:
carries through words, points inside words, ends of months and ranges.  Each function of
`decimal.cc` and `time.cc` is an operator with its early returns and error codes.  Sizes are
constants: a word has `DIG` digits to base `Radix`, an integer `IntBits` bits.
`MyDecimal` and `TimeValues` are callers: one action per operation of `my_decimal` and of
`MY_TIME`, whose result is the operand of the next one, so that operations also meet what
others leave behind.  The properties recompute in plain integers, or in a calendar of days and
seconds, what the operation is for: `ArithmeticIsExact`, `RoundingIsRight`, `IntervalsAreExact`;
that what is written is read back (`ConversionsReadBack`); and that the bytes of a column
compare like the values in it (`BytesCompareLikeNumbers`, `BytesSortLikeTimes`).

They hold with exceptions, most of them findings, which the properties name:

* a product cut to 31 digits, and columns that cut high digits, leave digits behind the point, or
  zero with a sign (`Clean`, and the operands of the run); an overflow is reported of a product of
  zeros with many digits (`Tidy`), and may come with the wrong sign, since `do_add`, `decimal_mul`
  and `internal_str2dec` clear it before `check_result_and_overflow` keeps it
  (`ArithmeticIsExact` compares the signs of all other results);
* what a sum, product, quotient or remainder may miss with `E_DEC_TRUNCATED` is bounded: the words
  cut off, the words a product leaves out of its factors (`Lost`), the digits of a quotient behind
  its last; a rounding that finds no room is right at the digits that are left;
* a text loses the digits that find no room, and with an exponent does not say so (`TextIsRead`
  allows the loss with `E_DEC_OK`); the shift goes wrong when a rounding carries into a new digit, which
  takes digits that begin with the largest one: these texts are left out when the result is
  `E_DEC_TRUNCATED`;
* a negative TIME with a fraction stored with one or two digits reads back wrong
  (`BytesSortLikeTimes`);
* a number of a date and a time whose nanoseconds round up is read as a TIME, and the last
  half second of 9999 is rounded to a wrong number (`RoundingIsRight`, which is about dates from
  the year 1000 and results with a month and a day);
* with `TIME_NO_NSEC_ROUNDING` a text is cut at microseconds and a number loses its fraction (`IsWritten`);
* a date of a year below 1000 as a number has two-digit years or none, so
  `ConversionsReadBack` starts at 1000;
* an operation that fails leaves `val` as it was, although the code leaves half a result
  (`r.t` of the operator has it): callers do not use it, except in `str_to_datetime`, whose
  own operator goes on with it.

`mix_date_and_time` is called with the dates a clock gives (1970 to 9998), and the texts of a
`TimeValues` come without `TIME_INVALID_DATES`.

## Runs

| run | instance | shows |
|---|---|---|
| `limbo_reclaims` | 2 threads, 2 objects, 1 callback, 2 epochs, cache of 2, budget of 2 | the strengthening, safety across passes, one place per object, the scan is sound, refinement of `GracePeriod`, every call returns, deinit drains everything |
| `limbo_tso` | 2 threads, 1 object, store buffers | `NoUseAfterFree` violated (finding) |
| `limbo_groups` | 4 pointers, 1 of them a callback, 3 slots a group, 2 epochs, budget 2 | refinement of `RecordQueue` |
| `mcas` | 3 threads, 3 words, 2 values, 4 scripts of up to 3 calls of `mcas` and 2 reads, 1 try | associated helpers stay, helpers freed once and out of reach, reads linearizable, atomic decision, every call returns |
| `mcas_success` | the script with a failing middle row | `SuccessIsTotal` violated (finding) |
| `pinbox` | 3 threads, 4 Pins of 2 pins, 2 objects, a purgatory of 2, 3 scripts | held objects not freed, one place per object and per Pins, every call returns |
| `split_list` | 2 threads, 3 elements, 3 keys of which 2 share a hash, up to 4 buckets, 5 scripts, one with a key that a search cuts | refinement of `KeyMap`, one place per element, nothing in use is used again, buckets lead into the ordered list, every call returns |
| `masstree` | 2 threads, leaves of 3, internodes of 2, one bit of insert counter, 12 nodes, 43 scripts, 11 of them with a scan | refinement of `OrderedMap`, the tree is whole when nobody works, nothing reachable is retired, every call returns |
| `masstree_handles` | a script of removals and a get | `HandlesProtect` violated (finding) |
| `decimal` | 14 operands of 3 words of 2 digits to base 4, 76 texts with and without exponents, integers of 8 bits, two operations in a row | numbers are well formed, arithmetic, rounding, conversions, order of bytes |
| `time` | 20 values at the ends of ranges, two operations in a row | values exist, intervals, rounding, conversions, order of bytes |
| `dyn_array` | 2 threads with 2 calls each, 4 indices in 3 levels of length 2, 6 arrays | one element per index, no array lost or freed early, the destructor frees all |

Bounds.  *Limbo*: two epochs are a reader and a thread that unlinks, in either order of
age; a cache of two has a partly filled, a full and an emptied state; a budget of two
stops a pass in the middle; two threads are the one scanned before and the one scanned
after.  *Groups* of three slots hold a marker and two pointers, so that a new epoch in
the middle, a full group and a group reused while it is cleaned all happen with four
pointers.  *MCas*: `Late` has an operation that fails or succeeds depending on when another one
comes, and two readers that help it meanwhile (a row is then given two helpers, one of which
has to be taken out); `Middle` has three rows of which the middle one fails; `Torn` is that with another
thread that wants the word of its first row and helps in between; `Swaps` writes two
words back and forth between two threads.  `MaxFail` is 1 instead of 4: one lost try
leads to an announcement, or to a helper giving up.  The recursion bound of
`help_complete` is modelled and not reached: a chain of operations as long as the number
of threads needs more calls than these scripts have.  *PinBox*: the budgets are counts of
calls: `PinsOnly` has three threads race on the stack of Pins; `Reader` one that pins and
copies up while the other unlinks and frees; `Poppers` one that takes and gives back objects
while the other is in the middle of a pop.  There are 16 versions instead of 2^16, more than a
thread can miss here; that a thread sleeps through 2^16 of them is a hazard no run reaches.
*SplitList*: the two keys of one hash make the order by key matter and the third is in another
bucket once the table has doubled; three elements let one be used again while another thread
is late.  *Masstree*: with the smallest nodes that can split, scripts of up to 16 keys fill a
tree of three levels, then two threads race; they are grouped by what they race about:
`Splits`, `Internodes`, `Layers`, `Removals`, `Collections`.  One bit of insert counter makes
it carry at the second insert.  *Decimal*: three words have one before, at and behind the point;
two digits per word have a point inside a word; base 4 is the smallest even base that has a
digit below and above the half.  Integers of 8 bits have their range inside the three words.
*DynArray*: length 2 and three levels make arrays of arrays of elements.
Deadlock checking is off where the bounded budgets and scripts run out.

Fairness.  Liveness assumes weak fairness of each thread's steps *inside* a call (`Proceed`
in Limbo, `Inside` in SplitList and Masstree): no call hands the processor away for good, so
a thread the system schedules goes on.  Nothing is assumed of the caller: handles and pins
may stay for ever.  For `MCas` less is assumed: only that some thread takes a step as long as
one can (`WF_vars(Next)`), so `CallsReturn` says that no schedule, however unfair, keeps a
finite number of calls from returning.  For `PinBox` each thread inside a call goes on, and a
client does not keep its pins for ever: `put_pins` waits for that, and the header asks for it
(`alloc_pin.cc:47`).  Clients drop their pins before `put_pins`, so that two of them that wait for each
other's pins, the deadlock of which `alloc_pin.cc:155` warns, are excluded and not checked; the deadlock
of `find_locked` is excepted by `Stuck`.  The numbers of calls are finite, so nothing is said of a thread that
loses every race.  A spinning reader of Masstree is fair like the rest: it waits for a writer
that holds a lock, which goes on too.

## Proofs

Assumed of limbo: the constants are positive (`ConstantsOK`), objects are not callbacks.

* `GracePeriodProofs`: `NoUseAfterFree` of the abstract rule.
* `LimboProofs`: the inductive invariant `IInv` is `TypeOK`, what a call in progress may
  rely on (`CallOK`), the handle part (epochs issued once, lists ascending, `min_epoch_`
  the oldest), the record part (a record's epoch is no older than any handle that blocks
  it), `ScanIsSound` and `SafeAcrossPasses`.  `ScanIsSound` is the heart: for a thread
  already scanned, `ae` is no later than any of its handles that block an element of the
  list, although handles come and go behind the scan: one that appears after the element
  was unlinked does not block it, and one that disappears only helps.  From it, an
  element with epoch at most `ae - 1` has no open blocker, since a blocker is no younger
  than the record and, by the scan, no older than `ae`.
  The same module shows that every step of `Limbo` is a step of `GracePeriod` or stutters.  And
  `ExactlyOnePlace`, by `PlaceInv`: places are slots of caches and positions of lists, so that
  "one place" is said of pairs of slots (`Once`) and of none being lost (`Somewhere`).  It
  needs that a hand is empty except between unlink and `dealloc` (`HandsEmpty`), that
  `deinit_lf_library` destroys one list at a time (`DestroyedInTurn`), and that a cache is
  recorded before it is full (`CacheHasRoom`): a slot at the limit would not be a place.

Assumed of the chain: a group has room for a marker and a pointer, the count of a `hard_free`
is positive, null is no pointer (`GroupConstants`).

* `LimboGroupProofs`: `ChainIsAQueue`, the refinement of `RecordQueue` step by step, and
  `TypeCorrect`.  The invariant `IInv` has three parts.  *Places* (`PlaceOK`): the groups before
  `group_head_` and behind `group_tail_` are spare, those between begin with a marker, have a
  pointer after each marker and end in the epoch their `epoch_` says, which is what
  `push_back` compares with when it leaves the marker out.  *The head group* (`KnownOK`): that
  is true of it too, from the epoch `clean_until` has last read; the marker that replaces the
  last pointer freed when the count ends is what keeps it true.  *The pass* (`WorkOK`): between
  two markers the epoch is within the bound; `hard_free` gives up only at a marker above the
  bound with a pointer behind it, or when the count is used up.  That last part is why `End`
  of `RecordQueue` holds: nothing that may be freed is left.  Each step is first
  proved of values (`DoRecord`, `DoFree`, `DoMarker`, `DoEmptied`, `DoSplice` and so on, over `StateOK`
  and `QueueOf`), then of the variables (`StepRecord` and so on).

Assumed of DynArray: arrays and levels are not empty, the tables hold the sizes of the trees
(`LengthAssumption`, `TablesAssumption`), `Root` and null are not memory that malloc returns.

* `DynArrayProofs`: `OneCellPerIndex` and `ArraysInOnePlace`.  `OneCellPerIndex` is not
  inductive: two elements are different because the ways to them parted somewhere above.  The
  invariant keeps the whole trail: every place on it fits its array (`Fits`), is the first one
  of its index or follows another one of the trail through a pointer that is still there
  (`Comes`), no higher than the level of its index (`Low`); the trail has at most one place per
  index and height (`Same`), and indices that meet at one pointer are in the same range of
  elements (`Apart`), so that at the elements they are equal; an array is below one pointer
  only (`OneParent`); a thread on its way stands on the trail
  (`Busy`); what it has allocated is nowhere else (`Private`); what a pointer leads to is
  allocated and reached from the root (`Reached`, `InUse`).
  `DestroyFreesAll` takes one more fact, that an installed array is on the trail
  (`Installed`): from it, `FreedFromRoot` follows the trail up to a root, level by level, and
  `FreedAtLevel` says that what the destructor frees below an array it frees below the array's
  parent.  That `rescursive_free`, a function defined by recursion, is one is proved too
  (`FreesExists`).

Assumed of PinBox: there are at least two Pins and two pins in each, purgatories have room,
objects are not null and finitely many (`PinBoxConstants`).  The last three theorems also have
the hypothesis `[][NoWrap]_vars`: no thread sleeps between its read of the versioned top and its
compare and swap while the version, a number modulo `Versions`, comes round.  Without it they
are false, for every `Versions`; the code relies on it (`alloc_pin.cc:106`).  In the run
`pinbox`, whose 16 versions no script exhausts, it holds of every behaviour.

* `PinBoxProofs`: `TypeOK` with what a label says of the locals (`TypeInv`).
  `PinsInOnePlace`, by `PinsInv`: there is a sequence, the unused Pins, that the links follow
  from the top and that has each Pins nobody owns once (`UnusedLinked`); and a thread that has read the top
  and its link has read them right, *as long as the version it has read is the current one*
  (`SeenOK`), which a push or pop by anyone ends.
  `ObjectsInOnePlace` and `HeldIsSafe`, by `ObjectsInv`: the free objects are linked in the same
  way (`FreeLinked`), but there is no version.  What a popping thread has read stays right
  because its pin keeps the object from being freed again after it has been popped: `WatchOK`
  says that whoever frees an object a thread is about to pop or holds has yet to look at that pin, whose
  position the scan, which goes from low to high, has not passed (`Before`), also while
  `CopyUp` moves what is pinned to a higher pin.
* `DataLemmas` has what these need of linked lists: a push, a pop, a chain put before a
  list, and the list of a given set being the only one; and what the chain of groups needs of
  `FlattenSeq`.

Assumed of MCas: marked pointers are no values (`MarkedPointers`), scripts ask for rows
of different addresses (`MCasConstants`).

* `MCasProofs`: `TypeOK`, by `ShapeInv`, which says for each of the labels of an activation
  which rows are decided, whose helper it holds and what it was told, and how activations
  stand on each other.  A row never goes back to null (`Grows`), so what one thread knows the others cannot undo.
  Then the helpers.  `Effect` lists what one step may do to words, rows, activations and limbo;
  every action has such an effect, and an effect keeps `HelperInv`.  `AssociatedIsInstalled` is
  not inductive: a thread may associate a row with a helper it saw long ago.  Such a helper
  is `Seated`: as long as its row is null and its operation open, nobody takes it out of its word.  `RetiredIsUnreachable` needs
  that a helper an activation has allocated is in no word, in no row and not given to limbo until
  it is installed (`OwnedHidden`), that nobody else holds it or has it from a word
  (`OwnedApart`), that each operation has one owner (`OwnersApart`), and that a retired helper
  was removed by that owner or never associated (`RetiredOK`).
  `LogicalStep` follows from the effects: only the compare and swap on the last row
  changes the worth of helpers that count.  `ReadIsLinearizable` adds what a read remembers
  (`ReadsOK`): its word was worth, during the read, what it will make of the helper it has loaded.  It is proved for
  `NThreads > 1`: with one thread the recursion bound is reached at once, `help_complete`
  does nothing and `mcas_read` has nobody to wait for.

Assumed of SplitList (`SplitListConstants`): null, elements and dummy nodes are different, the
key of a dummy node is no key, a key that is cut becomes one that sorts no later, a hash has one bit less than a word (`calc_hash` masks it), and the table
has at most a bucket for each hash.  The allocator is part of the model: it hands out an element of the pool, and
takes back a freed one that nobody pins (`Reclaim`).

* `SplitListProofs`: `ElementsInOnePlace`, `UsedIsNotReclaimed`, `BucketsSplitTheList` and
  `TypeOK`, from one invariant `IInv`, since each needs the others: an element is freed once because the list
  has it once, the list keeps its order because what a cursor has read is still there, and that is so because
  what is pinned is not used again.
  *The list* (`ListOK`): `InList` is a function defined by recursion along the links; the invariant has
  a numbering of the nodes instead that falls along each link (`Chain`) and
  in the order of hashes and keys (`Ordered`).  To take a node out leaves the numbers,
  to put one in makes room for one more; that `InList` is the set so numbered is proved once.
  *The cursor* (`CursorOK`): what a thread has reached and pinned is `Held`: in the list, or marked, taken
  out and freed.  A pin alone does not do that (the node may have been freed before); that the link to it is
  read again behind the pin does, if the node that has the link is still in the list.  If that one has been taken
  out itself, its link is marked, and what was read was not: so `Confirm`, `Judge`, `Swap` and `Unlink`
  compare the pointer and the mark at once, and success means that the cursor is in the list.
  *Buckets* (`FramesOK`, `Parents`): the activations of `initialize_bucket` are a path of
  parents; a dummy node a thread has made is in the list only when its
  activation is over or another thread has filled the bucket.  A search that starts at a bucket
  starts before what it looks for: the reversed bits of a bucket are below those of every hash that
  ends in them (`BucketOfKey`), those of its parent are lower still, and no two hashes reverse to
  the same number.
  *Elements* (`HandsOK`): what is in no list, pool or purgatory is in the hand of one inserting thread.
  A lemma about a step is about two values of `World` (list, table and elements), so that the steps of the
  others need one lemma for each kind of change: a link marked, a node taken out, a node put in,
  an element handed on.

  *The map* (`IsKeyMap`, the refinement, step by step): `CallsOK` joins the model's `call`, which
  says what a call has seen of its key and whether it has changed the map, to where the thread is.
  A call has taken effect (`Took`) from its `Swap` or its `Mark` on, through the count, the
  doubling and the cleaning up.  One that changes nothing returns what it has seen (`SeenOK`): at
  `duplicate` and `found` the key was there, at `missing` it was not.  A search with a key that is cut has
  no such claim: it takes the same steps with another goal (`SoughtIs`), and changes nothing for the others.
  That moment is seldom the one at which the label is reached: a link read unmarked from a node of
  the list (`ReadOK`) says that the key was, or was not, there when it was read; `Judge`,
  which decides, comes later.  At the other moments of the search the order of the list and `CursorOK` say
  that the key is missing now.  `Swap` puts in a key that no unmarked node has, `Mark` marks the only one that
  has it, and unlinking and dummy nodes leave the map alone.  The theorem has the hypothesis
  `Flags # 0`, as the instance has: with flags 0 an insertion that finds its key goes on, and a key may be there twice.

Only model-checked: liveness (out of the prover's reach, as is ENABLED), and all of `Masstree`,
`Decimal` and `Time`.  What the last two promise is what
their functions, recursive over digits and fields, compute: an induction over data for each.

## Findings without a run

`PROJECT.json` has 32 findings, three with a run of their own.  The others were met while a
definition was translated, and the models have the behaviour of the code: among them
assertions that assign (`limbo.cc:64`), elements read after they were freed (`limbo.cc:87`),
a callback that leaks (`mt_remove.hh:40`), `random_match` (`hash_map.cc:175`), a length of 8 bits
(`hash_map.cc:364`), roundings,
signs and overflows of `decimal.cc` and `time.cc`.

## Not modelled

* Limbo: the recycling of handle objects (a handle is its epoch), `alloc` (a `calloc`), the
  size-tagged pools, which no caller uses.  MCas and the others take
  relaxed loads and stores as sequentially consistent; only LimboTSO has store buffers.
* Masstree: `rscan` (a template nobody instantiates, which reads a variable it never sets: a
  finding), a visitor that stops its scan, `destroy` with its callback, suffix bags and the packing of slices
  (a key is given as its slices), the printer.
* DynArray: `iterate`, which only reads; alignment.
* Decimal: conversions from and to double, `my_decimal2number`, hashing, and the variant of
  `internal_str2dec` with a fixed size (`decimal.cc:951-970`), which has no caller.  Time: the clock, time
  zones (`localtime`, `mktime`), conversions from double; the AM/PM branch of `str_to_time`
  is dead code.
* AutoRollLogger: `logger_` is a `shared_ptr` that is copied and assigned without
  synchronization, so that what a thread copies is undefined; beyond that it is file and clock
  calls.
* `sort_list` is HashMap's list again and not part of the build; `skiplist_mcas.hh` does not
  compile and nothing includes it.
* `dtoa.cc` (big integers), `itoa.cc`, hash functions and random numbers (32-bit arithmetic
  with nothing to say but itself), slices, status, byte order macros.

What would come next: proofs about the leaves of Masstree.
