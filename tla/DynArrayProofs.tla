---------------------------- MODULE DynArrayProofs ----------------------------
(***************************************************************************)
(* Two threads that ask DynArray for one index get one element, two        *)
(* indices two, and no array is lost in a race, for any number of threads, *)
(* levels and elements; the destructor frees every array once the threads  *)
(* are done.                                                               *)
(***************************************************************************)
EXTENDS DynArray, DataLemmas

\* The elements below a pointer at height i.
Under(i) == dynarray_idxes_in_prev_level[i + 1]
Places == [idx : Nat, i : -1 .. LEVELS - 1, rest : Nat, slot : Slots]
Doing == [at : {"idle", "read", "install"}, op : {"none", "lvalue", "value"}, place : Places, new : Pointers, calls : Nat]
TypeOK ==
    /\ ptr \in [Slots -> Pointers]
    /\ allocated \subseteq Blocks
    /\ alive \in BOOLEAN
    /\ trail \subseteq Places
    /\ th \in [Threads -> Doing]

\* The rest of an index is below the place.
Fits(x) == IF x.i = -1 THEN x.rest = 0 ELSE x.rest < Under(x.i)
\* A place is the root of the level of its index, or follows another one.
IsFirst(x) == \E level \in 0 .. LEVELS - 1 : Starts(x.idx, level) /\ x = First(x.idx, level)
Follows(x, y, p) == y.i >= 0 /\ p[y.slot] # Null /\ x = Below(y, p[y.slot])
Comes(x, tr, p) == IsFirst(x) \/ \E y \in tr : Follows(x, y, p)
Low(x) == \A level \in 0 .. LEVELS - 1 : Starts(x.idx, level) => x.i <= level
\* The way to an index is the same for all, and two ways that meet go to one array.
Same(x, y) == x.idx = y.idx /\ x.i = y.i => x = y
Apart(x, y) == x.slot = y.slot => x.i = y.i /\ x.idx - x.rest = y.idx - y.rest

OneParent(p) == \A s, r \in Slots : p[s] = p[r] /\ p[s] # Null => s = r
Trail(tr, p) == /\ \A x \in tr : Fits(x) /\ Comes(x, tr, p) /\ Low(x)
                /\ \A x, y \in tr : Same(x, y) /\ Apart(x, y)

Busy(t) == th[t].at # "idle" => alive /\ th[t].place \in trail /\ th[t].place.i >= 0
Private(t) == /\ th[t].new # Null <=> th[t].at = "install"
              /\ th[t].new # Null => /\ \A s \in Slots : ptr[s] # th[t].new
                                     /\ \A u \in Threads \ {t} : th[u].new # th[t].new
Reached == \A s \in Slots : ptr[s] # Null => s[1] = Root \/ \E r \in Slots : ptr[r] = s[1]
InUse == allocated = ({ptr[s] : s \in Slots} \cup {th[t].new : t \in Threads}) \ {Null}

IInv == /\ TypeOK
        /\ OneParent(ptr)
        /\ Trail(trail, ptr)
        /\ \A t \in Threads : Busy(t) /\ Private(t)
        /\ Reached
        /\ alive => InUse
-------------------------------------------------------------------------------
\* The index splits at a table entry: the quotient is a place of the array, the remainder is below it (dyn_array.cc:85-86).
LEMMA DivFits ==
    ASSUME NEW a \in Nat, NEW m \in Nat, NEW n \in Nat, a < m * n
    PROVE  /\ n > 0
           /\ a \div n \in 0 .. m - 1
           /\ a % n \in 0 .. n - 1
           /\ a = n * (a \div n) + (a % n)
<1>1. n > 0 BY Z3
<1>2. a % n \in 0 .. n - 1 BY <1>1
<1>3. a = n * (a \div n) + (a % n) BY <1>1
<1>4. a \div n \in Int /\ a \div n >= 0 BY <1>1
<1>5. a \div n < m
  <2> DEFINE q == a \div n
             r == a % n
  <2>1. q \in Int /\ r \in Int /\ r >= 0 /\ a = n * q + r BY <1>2, <1>3, <1>4
  <2> HIDE DEF q, r
  <2>2. SUFFICES ASSUME q >= m PROVE FALSE BY <2>1 DEF q
  <2>3. n * q >= n * m BY <2>1, <2>2, <1>1
  <2>4. n * m = m * n OBVIOUS
  <2> QED BY <2>1, <2>3, <2>4
<1> QED BY <1>1, <1>2, <1>3, <1>4, <1>5

\* What the tables say of a height.
LEMMA Heights ==
    ASSUME NEW i \in 0 .. LEVELS - 1
    PROVE  /\ Under(i) \in Nat
           /\ dynarray_idxes_in_prev_level[i] \in Nat /\ dynarray_idxes_in_prev_levels[i] \in Nat
           /\ i = 0 => Under(i) = LEN
           /\ i > 0 => Under(i) = LEN * dynarray_idxes_in_prev_level[i] /\ Under(i - 1) = dynarray_idxes_in_prev_level[i]
           /\ dynarray_idxes_in_prev_levels[i + 1] = dynarray_idxes_in_prev_levels[i] + Under(i)
BY LengthAssumption, TablesAssumption DEF Under

Scale(i) == IF i = 0 THEN 1 ELSE dynarray_idxes_in_prev_level[i]

\* The place below a place is a place, and the index is what led there and the rest (dyn_array.cc:85-88).
LEMMA BelowFits ==
    ASSUME NEW x \in Places, x.i >= 0, Fits(x), NEW p \in Blocks
    PROVE  /\ Below(x, p) \in Places /\ Fits(Below(x, p))
           /\ Below(x, p).idx = x.idx /\ Below(x, p).i = x.i - 1 /\ Below(x, p).slot[1] = p
           /\ Below(x, p).slot[2] \in 0 .. LEN - 1
           /\ Below(x, p).idx - Below(x, p).rest = (x.idx - x.rest) + Scale(x.i) * Below(x, p).slot[2]
<1> DEFINE n == dynarray_idxes_in_prev_level[x.i]
<1>1. x.idx \in Nat /\ x.i \in 0 .. LEVELS - 1 /\ x.rest \in Nat /\ x.rest < Under(x.i) BY DEF Places, Fits
<1>2. CASE x.i = 0
  <2>1. Below(x, p) = [idx |-> x.idx, i |-> -1, rest |-> 0, slot |-> <<p, x.rest>>] BY <1>2 DEF Below, Place
  <2>2. x.rest \in 0 .. LEN - 1 BY <1>1, <1>2, Heights, LengthAssumption
  <2>3. <<p, x.rest>> \in Slots BY <2>2 DEF Slots
  <2>4. -1 \in -1 .. LEVELS - 1 BY LengthAssumption
  <2> QED BY <2>1, <2>2, <2>3, <2>4, <1>1, <1>2 DEF Places, Fits, Scale
<1>3. CASE x.i > 0
  <2>1. Below(x, p) = [idx |-> x.idx, i |-> x.i - 1, rest |-> x.rest % n, slot |-> <<p, x.rest \div n>>]
    BY <1>1, <1>3 DEF Below, Place
  <2>2. n \in Nat /\ LEN \in Nat /\ x.rest < LEN * n /\ Under(x.i - 1) = n BY <1>1, <1>3, Heights, LengthAssumption
  <2> HIDE DEF n
  <2>3. /\ x.rest \div n \in 0 .. LEN - 1
        /\ x.rest % n \in 0 .. n - 1
        /\ x.rest = n * (x.rest \div n) + (x.rest % n)
    BY <2>2, <1>1, DivFits
  <2>4. <<p, x.rest \div n>> \in Slots BY <2>3 DEF Slots
  <2>5. x.i - 1 \in 0 .. LEVELS - 1 /\ x.i - 1 # -1 BY <1>1, <1>3, LengthAssumption
  <2>6. Below(x, p) \in Places /\ Fits(Below(x, p))
    <3>1. x.rest % n \in Nat BY <2>2, <2>3
    <3>2. Below(x, p) \in Places BY <2>1, <2>4, <2>5, <3>1, <1>1 DEF Places
    <3>3. Below(x, p).i = x.i - 1 /\ Below(x, p).rest = x.rest % n BY <2>1
    <3> QED BY <2>2, <2>3, <2>5, <3>1, <3>2, <3>3 DEF Fits
  <2>7. Scale(x.i) = n BY <1>3 DEF Scale, n
  <2>8. x.idx - (x.rest % n) = (x.idx - x.rest) + n * (x.rest \div n)
    <3> DEFINE q == n * (x.rest \div n)
               r == x.rest % n
    <3>1. q \in Int /\ r \in Int /\ x.rest = q + r BY <2>2, <2>3
    <3> HIDE DEF q, r
    <3>2. x.idx - r = (x.idx - x.rest) + q BY <3>1, <1>1
    <3> QED BY <3>2 DEF q, r
  <2> QED BY <2>1, <2>3, <2>6, <2>7, <2>8
<1> QED BY <1>1, <1>2, <1>3

\* The root of the level of an index is a place (dyn_array.cc:63-70).
LEMMA FirstFits ==
    ASSUME NEW idx \in 0 .. dynarray_idxes_in_prev_levels[LEVELS] - 1, NEW level \in 0 .. LEVELS - 1, Starts(idx, level)
    PROVE  First(idx, level) \in Places /\ Fits(First(idx, level))
<1>1. idx \in Nat /\ dynarray_idxes_in_prev_levels[level] \in Nat /\ idx >= dynarray_idxes_in_prev_levels[level]
  BY LengthAssumption, TablesAssumption DEF Starts
<1>2. idx < dynarray_idxes_in_prev_levels[level + 1]
  <2>1. CASE level = LEVELS - 1 BY <2>1, LengthAssumption, TablesAssumption
  <2>2. CASE level < LEVELS - 1
    <3>1. level + 1 \in level + 1 .. LEVELS - 1 BY <2>2, LengthAssumption
    <3> QED BY <3>1 DEF Starts
  <2> QED BY <2>1, <2>2, LengthAssumption
<1>3. idx - dynarray_idxes_in_prev_levels[level] < Under(level) BY <1>1, <1>2, Heights
<1>4. <<Root, level>> \in Slots BY DEF Slots
<1>5. level \in -1 .. LEVELS - 1 /\ level # -1 BY LengthAssumption
<1> QED BY <1>1, <1>3, <1>4, <1>5 DEF First, Place, Places, Fits

\* An index starts at one level.
LEMMA OneStart ==
    ASSUME NEW idx \in Nat, NEW k \in 0 .. LEVELS - 1, NEW l \in 0 .. LEVELS - 1, Starts(idx, k), Starts(idx, l)
    PROVE  k = l
<1>1. dynarray_idxes_in_prev_levels[k] \in Nat /\ dynarray_idxes_in_prev_levels[l] \in Nat BY Heights
<1>2. CASE k < l BY <1>1, <1>2, LengthAssumption DEF Starts
<1>3. CASE l < k BY <1>1, <1>3, LengthAssumption DEF Starts
<1> QED BY <1>2, <1>3, LengthAssumption
\* Pointers that are there stay: so does all that was reached through them.
LEMMA TrailKeeps ==
    ASSUME NEW tr \in SUBSET Places, NEW p, NEW q, Trail(tr, p),
           \A s \in Slots : p[s] # Null => q[s] = p[s]
    PROVE  Trail(tr, q)
<1> SUFFICES ASSUME NEW x \in tr PROVE Comes(x, tr, q) BY DEF Trail
<1>1. CASE IsFirst(x) BY <1>1 DEF Comes
<1>2. CASE \E y \in tr : Follows(x, y, p)
  <2>1. PICK y \in tr : Follows(x, y, p) BY <1>2
  <2>2. y.slot \in Slots BY DEF Places
  <2>3. Follows(x, y, q) BY <2>1, <2>2 DEF Follows
  <2> QED BY <2>3 DEF Comes
<1> QED BY <1>1, <1>2 DEF Trail, Comes

\* Who follows a place has its index, is one lower, and in the array that the place points to.
LEMMA FollowsFits ==
    ASSUME NEW x, NEW y \in Places, Fits(y), NEW p \in [Slots -> Pointers], Follows(x, y, p)
    PROVE  /\ y.slot \in Slots /\ p[y.slot] \in Blocks
           /\ x \in Places /\ Fits(x)
           /\ x.idx = y.idx /\ x.i = y.i - 1 /\ x.slot[1] = p[y.slot]
           /\ x.slot[2] \in 0 .. LEN - 1
           /\ x.idx - x.rest = (y.idx - y.rest) + Scale(y.i) * x.slot[2]
<1>1. y.slot \in Slots BY DEF Places
<1>2. p[y.slot] \in Blocks BY <1>1 DEF Follows, Pointers
<1>3. y.i >= 0 /\ x = Below(y, p[y.slot]) BY DEF Follows
<1> QED BY <1>1, <1>2, <1>3, BelowFits

\* The first places of a level: nothing else is in the root array.
LEMMA FirstOnes ==
    ASSUME NEW x \in Places, IsFirst(x)
    PROVE  /\ Low(x)
           /\ x.slot = <<Root, x.i>> /\ x.i \in 0 .. LEVELS - 1
           /\ Starts(x.idx, x.i) /\ x = First(x.idx, x.i)
           /\ x.idx - x.rest = dynarray_idxes_in_prev_levels[x.i]
<1>1. PICK level \in 0 .. LEVELS - 1 : Starts(x.idx, level) /\ x = First(x.idx, level) BY DEF IsFirst
<1>2. x.i = level /\ x.slot = <<Root, level>> /\ x.rest = x.idx - dynarray_idxes_in_prev_levels[level] /\ x.idx \in Nat
  BY <1>1 DEF First, Place, Places
<1>3. Low(x) BY <1>1, <1>2, OneStart, LengthAssumption DEF Low
<1>4. dynarray_idxes_in_prev_levels[level] \in Nat BY Heights
<1> QED BY <1>1, <1>2, <1>3, <1>4

\* A new place on a way, which follows a place of the trail, makes no two ways to an index and no two indices at one place.
LEMMA TrailGrows ==
    ASSUME NEW tr \in SUBSET Places, NEW p \in [Slots -> Pointers], Trail(tr, p), OneParent(p),
           NEW z \in Places, Fits(z), Comes(z, tr, p)
    PROVE  Trail(tr \cup {z}, p)
<1>1. \A x \in tr : x \in Places /\ Fits(x) /\ Comes(x, tr, p) /\ Low(x) BY DEF Trail
<1>2. Low(z)
  <2>1. CASE IsFirst(z) BY <2>1, FirstOnes
  <2>2. CASE \E y \in tr : Follows(z, y, p)
    <3>1. PICK y \in tr : Follows(z, y, p) BY <2>2
    <3>2. z.idx = y.idx /\ z.i = y.i - 1 /\ y.i \in -1 .. LEVELS - 1 BY <3>1, <1>1, FollowsFits DEF Places
    <3>3. Low(y) BY <1>1
    <3> QED BY <3>2, <3>3, LengthAssumption DEF Low
  <2> QED BY <2>1, <2>2 DEF Comes
<1>3. ASSUME NEW x \in tr PROVE Same(x, z) /\ Apart(x, z)
  <2>0. x \in Places /\ Fits(x) /\ Comes(x, tr, p) /\ Low(x) BY <1>1, <1>3
  <2>1. CASE IsFirst(x) /\ IsFirst(z)
    <3>1. x = First(x.idx, x.i) /\ z = First(z.idx, z.i) /\ x.slot = <<Root, x.i>> /\ z.slot = <<Root, z.i>> BY <2>0, <2>1, FirstOnes
    <3>2. x.idx - x.rest = dynarray_idxes_in_prev_levels[x.i] /\ z.idx - z.rest = dynarray_idxes_in_prev_levels[z.i] BY <2>0, <2>1, FirstOnes
    <3> QED BY <3>1, <3>2 DEF Same, Apart
  <2>2. ASSUME NEW a \in Places, NEW b \in Places, Low(b), IsFirst(a),
               NEW y \in tr, Follows(b, y, p)
        PROVE  ~(a.idx = b.idx /\ a.i = b.i) /\ a.slot # b.slot
    <3>1. b.idx = y.idx /\ b.i = y.i - 1 /\ b.slot[1] \in Blocks BY <2>2, <1>1, FollowsFits
    <3>2. y \in Places /\ Low(y) /\ y.i \in -1 .. LEVELS - 1 BY <1>1 DEF Places
    <3>3. a.slot = <<Root, a.i>> /\ a.i \in 0 .. LEVELS - 1 /\ Starts(a.idx, a.i) BY <2>2, FirstOnes
    <3>4. a.slot # b.slot BY <3>1, <3>3, BlocksAssumption
    <3>5. a.idx = b.idx => y.i <= a.i BY <3>1, <3>2, <3>3 DEF Low
    <3> QED BY <3>1, <3>2, <3>3, <3>4, <3>5, LengthAssumption
  <2>3. CASE IsFirst(x) /\ ~IsFirst(z)
    <3>1. PICK y \in tr : Follows(z, y, p) BY <2>3 DEF Comes
    <3> QED BY <2>0, <1>2, <2>2, <2>3, <3>1 DEF Same, Apart
  <2>4. CASE ~IsFirst(x) /\ IsFirst(z)
    <3>1. PICK y \in tr : Follows(x, y, p) BY <2>0, <2>4 DEF Comes
    <3> QED BY <2>0, <2>2, <2>4, <3>1 DEF Same, Apart
  <2>5. CASE ~IsFirst(x) /\ ~IsFirst(z)
    <3>1. PICK v \in tr : Follows(x, v, p) BY <2>0, <2>5 DEF Comes
    <3>2. PICK w \in tr : Follows(z, w, p) BY <2>5 DEF Comes
    <3>3. v \in Places /\ w \in Places /\ Fits(v) /\ Fits(w) BY <1>1
    <3>4. v.i \in -1 .. LEVELS - 1 /\ w.i \in -1 .. LEVELS - 1 BY <3>3 DEF Places
    <3>5. Same(v, w) /\ Apart(v, w) BY DEF Trail
    <3>6. x.idx = v.idx /\ x.i = v.i - 1 /\ z.idx = w.idx /\ z.i = w.i - 1 BY <3>1, <3>2, <3>3, FollowsFits
    <3>7. Same(x, z)
      <4> SUFFICES ASSUME x.idx = z.idx, x.i = z.i PROVE x = z BY DEF Same
      <4>a. v.i \in Int /\ w.i \in Int BY <3>4, LengthAssumption
      <4>b. v.i - 1 = w.i - 1 BY <3>6
      <4>c. \A m, n \in Int : m - 1 = n - 1 => m = n OBVIOUS
      <4>d. v.i = w.i BY <4>a, <4>b, <4>c, Zenon
      <4>0. v.idx = w.idx /\ v.i = w.i BY <3>6, <4>d
      <4>1. v = w BY <4>0, <3>5 DEF Same
      <4> QED BY <4>1, <3>1, <3>2 DEF Follows
    <3>8. Apart(x, z)
      <4> SUFFICES ASSUME x.slot = z.slot PROVE x.i = z.i /\ x.idx - x.rest = z.idx - z.rest BY DEF Apart
      <4>1. x.slot[1] = p[v.slot] /\ z.slot[1] = p[w.slot] /\ p[v.slot] \in Blocks /\ v.slot \in Slots /\ w.slot \in Slots
        BY <3>1, <3>2, <3>3, FollowsFits
      <4>2. v.slot = w.slot BY <4>1, BlocksAssumption DEF OneParent
      <4>3. v.i = w.i /\ v.idx - v.rest = w.idx - w.rest BY <4>2, <3>5 DEF Apart
      <4>4. /\ x.idx - x.rest = (v.idx - v.rest) + Scale(v.i) * x.slot[2]
            /\ z.idx - z.rest = (w.idx - w.rest) + Scale(w.i) * z.slot[2]
        BY <3>1, <3>2, <3>3, FollowsFits
      <4> QED BY <4>3, <4>4, <3>6
    <3> QED BY <3>7, <3>8
  <2> QED BY <2>1, <2>3, <2>4, <2>5
<1>4. \A x \in tr \cup {z} : Fits(x) /\ Comes(x, tr \cup {z}, p) /\ Low(x) BY <1>1, <1>2 DEF Comes
<1>5. ASSUME NEW x \in tr \cup {z}, NEW y \in tr \cup {z} PROVE Same(x, y) /\ Apart(x, y)
  <2>1. CASE x \in tr /\ y \in tr BY <2>1 DEF Trail
  <2>2. CASE x = z /\ y = z BY <2>2 DEF Same, Apart
  <2>3. CASE x \in tr /\ y = z BY <2>3, <1>3
  <2>4. CASE x = z /\ y \in tr
    <3>1. Same(y, z) /\ Apart(y, z) BY <1>3, <2>4
    <3> QED BY <2>4, <3>1 DEF Same, Apart
  <2> QED BY <2>1, <2>2, <2>3, <2>4
<1> QED BY <1>4, <1>5 DEF Trail
\* A step down through the pointer of one's place: the trail grows by a place that follows.
LEMMA DownKeeps ==
    ASSUME NEW t \in Threads, TypeOK, Trail(trail, ptr), Busy(t), th[t].at # "idle",
           ptr' \in [Slots -> Pointers], OneParent(ptr'), \A s \in Slots : ptr[s] # Null => ptr'[s] = ptr[s],
           ptr'[th[t].place.slot] # Null, Down(t, ptr'[th[t].place.slot])
    PROVE  /\ Trail(trail', ptr')
           /\ trail' \subseteq Places
           /\ th' \in [Threads -> Doing]
           /\ \A u \in Threads \ {t} : th'[u] = th[u]
           /\ th'[t].new = Null /\ th'[t].at # "install"
           /\ th'[t].at # "idle" => th'[t].place \in trail' /\ th'[t].place.i >= 0
<1> DEFINE y == th[t].place
           z == Below(y, ptr'[y.slot])
<1>1. y \in trail /\ y.i >= 0 /\ y \in Places /\ trail \subseteq Places BY DEF Busy, TypeOK
<1>2. Fits(y) BY <1>1 DEF Trail
<1>3. Follows(z, y, ptr') BY <1>1 DEF Follows
<1>4. z \in Places /\ Fits(z) /\ z.i = y.i - 1 BY <1>1, <1>2, <1>3, FollowsFits
<1>5. trail' = trail \cup {z} BY DEF Down, Goes
<1>6. Trail(trail, ptr') BY <1>1, TrailKeeps
<1>7. Comes(z, trail, ptr') BY <1>1, <1>3 DEF Comes
<1>8. Trail(trail', ptr') BY <1>1, <1>4, <1>5, <1>6, <1>7, TrailGrows
<1>9. th' = [th EXCEPT ![t].at = IF y.i = 0 THEN "idle" ELSE "read", ![t].place = z, ![t].new = Null]
  BY DEF Down, Goes
<1> HIDE DEF z
<1>10. th'[t] = [th[t] EXCEPT !.at = IF y.i = 0 THEN "idle" ELSE "read", !.place = z, !.new = Null]
  BY <1>9 DEF TypeOK
<1>11. y.i \in -1 .. LEVELS - 1 BY <1>1 DEF Places
<1> QED BY <1>1, <1>4, <1>5, <1>8, <1>9, <1>10, <1>11, LengthAssumption DEF Doing, TypeOK, Pointers

\* Every action keeps the invariant.
LEMMA InitInvariant == Init => IInv
<1> SUFFICES ASSUME Init PROVE IInv OBVIOUS
<1>1. <<Root, 0>> \in Slots BY LengthAssumption DEF Slots
<1>2. Idle.place \in Places BY <1>1, LengthAssumption DEF Idle, Place, Places
<1>3. TypeOK BY <1>2 DEF Doing, Init, TypeOK, Idle, Pointers
<1>4. <<Root, 0>> \in Slots /\ ptr[<<Root, 0>>] = Null BY <1>1 DEF Init
<1>5. InUse BY <1>4 DEF Init, InUse, Idle
<1>6. \A t \in Threads : Busy(t) /\ Private(t) BY DEF Init, Busy, Private, Idle
<1>7. Trail(trail, ptr) /\ OneParent(ptr) /\ Reached BY DEF Init, Trail, OneParent, Reached
<1> QED BY <1>3, <1>5, <1>6, <1>7 DEF IInv

LEMMA CallKeeps ==
    ASSUME IInv, NEW t \in Threads, NEW op \in {"lvalue", "value"}, NEW idx \in Asked, Call(t, op, idx)
    PROVE  IInv'
<1>1. PICK level \in 0 .. LEVELS - 1 :
        /\ Starts(idx, level)
        /\ th' = [th EXCEPT ![t] = [at |-> "read", op |-> op, place |-> First(idx, level), new |-> Null, calls |-> @.calls + 1]]
        /\ trail' = trail \cup {First(idx, level)}
  BY DEF Call
<1> DEFINE z == First(idx, level)
<1>2. idx \in 0 .. dynarray_idxes_in_prev_levels[LEVELS] - 1 BY AskedAssumption
<1>3. z \in Places /\ Fits(z) BY <1>1, <1>2, FirstFits
<1>4. z.idx = idx /\ z.i = level BY DEF First, Place
<1>5. Comes(z, trail, ptr) BY <1>1, <1>4 DEF Comes, IsFirst
<1>6. Trail(trail', ptr) BY <1>1, <1>3, <1>5, TrailGrows DEF IInv, TypeOK
<1>7. UNCHANGED <<ptr, allocated, alive>> /\ alive /\ th[t].at = "idle" BY DEF Call
<1> HIDE DEF z
<1>8. TypeOK' BY <1>1, <1>3, <1>7 DEF Doing, IInv, TypeOK, Pointers, z
<1>9. th[t].new = Null /\ th'[t].new = Null /\ \A u \in Threads : th'[u].new = th[u].new
  BY <1>1, <1>7 DEF IInv, TypeOK, Private
<1>10. (\A u \in Threads : Busy(u))'
  BY <1>1, <1>3, <1>4, <1>7, LengthAssumption DEF IInv, TypeOK, Busy, z
<1>11. (\A u \in Threads : Private(u))' BY <1>1, <1>7, <1>9 DEF IInv, TypeOK, Private
<1>12. InUse' BY <1>7, <1>9 DEF IInv, InUse
<1>13. OneParent(ptr)' /\ Reached' BY <1>7 DEF IInv, OneParent, Reached
<1> QED BY <1>6, <1>7, <1>8, <1>10, <1>11, <1>12, <1>13 DEF IInv
LEMMA ReadKeeps ==
    ASSUME IInv, NEW t \in Threads, Read(t)
    PROVE  IInv'
<1>1. /\ th[t].at = "read" /\ UNCHANGED <<ptr, allocated, alive>>
      /\ ptr[th[t].place.slot] # Null /\ Down(t, ptr'[th[t].place.slot])
  BY DEF Read
<1>2. /\ Trail(trail', ptr')
      /\ TypeOK'
      /\ \A u \in Threads \ {t} : th'[u] = th[u]
      /\ th'[t].new = Null /\ th'[t].at # "install"
      /\ th'[t].at # "idle" => th'[t].place \in trail' /\ th'[t].place.i >= 0
  BY <1>1, DownKeeps DEF IInv, TypeOK
<1>3. th[t].new = Null /\ trail \subseteq trail' BY <1>1 DEF IInv, Private, Down, Goes
<1>4. \A u \in Threads : th'[u].new = th[u].new BY <1>2, <1>3
<1>5. (\A u \in Threads : Busy(u))' BY <1>1, <1>2, <1>3 DEF IInv, Busy
<1>6. (\A u \in Threads : Private(u))' BY <1>1, <1>2, <1>4 DEF IInv, Private
<1>7. InUse' BY <1>1, <1>4 DEF IInv, InUse, Busy
<1>8. OneParent(ptr)' /\ Reached' BY <1>1 DEF IInv, OneParent, Reached
<1> QED BY <1>1, <1>2, <1>5, <1>6, <1>7, <1>8 DEF IInv

LEMMA MissingKeeps ==
    ASSUME IInv, NEW t \in Threads, Missing(t)
    PROVE  IInv'
<1>1. /\ th[t].at = "read" /\ th' = [th EXCEPT ![t].at = "idle"] /\ UNCHANGED <<ptr, allocated, trail, alive>>
  BY DEF Missing, ReturnsNull
<1>2. \A u \in Threads : th'[u] = IF u = t THEN [th[t] EXCEPT !.at = "idle"] ELSE th[u]
  BY <1>1 DEF IInv, TypeOK
<1>3. th[t].new = Null BY <1>1 DEF IInv, Private
<1>4. ASSUME NEW u \in Threads
      PROVE  /\ th'[u].new = th[u].new /\ th'[u].place = th[u].place
             /\ u # t => th'[u].at = th[u].at
             /\ u = t => th'[u].at = "idle"
  <2>1. th[u] \in Doing
    BY DEF IInv, TypeOK
  <2> QED BY <1>2, <2>1 DEF Doing
<1>5. TypeOK' BY <1>1 DEF Doing, IInv, TypeOK
<1>6. (\A u \in Threads : Busy(u))' BY <1>1, <1>4 DEF IInv, Busy
<1>7. (\A u \in Threads : Private(u))' BY <1>1, <1>3, <1>4 DEF IInv, Private
<1>8. InUse' <=> InUse BY <1>1, <1>4 DEF InUse
<1>9. Trail(trail, ptr)' /\ OneParent(ptr)' /\ Reached' BY <1>1 DEF IInv, OneParent, Reached
<1> QED BY <1>1, <1>5, <1>6, <1>7, <1>8, <1>9 DEF IInv

LEMMA MallocKeeps ==
    ASSUME IInv, NEW t \in Threads, Malloc(t)
    PROVE  IInv'
<1>1. PICK b \in Blocks \ allocated :
        /\ allocated' = allocated \cup {b}
        /\ ptr' = [s \in Slots |-> IF s[1] = b THEN Null ELSE ptr[s]]
        /\ th' = [th EXCEPT ![t].at = "install", ![t].new = b]
  BY DEF Malloc
<1>2. th[t].at = "read" /\ alive /\ InUse /\ UNCHANGED <<trail, alive>> BY DEF Malloc, IInv, Busy
<1>3. \A r \in Slots : ptr[r] # b
  BY <1>1, <1>2, BlocksAssumption DEF InUse
<1>4. \A u \in Threads : th[u].new # b BY <1>1, <1>2, BlocksAssumption DEF InUse
<1>5. ptr' = ptr
  <2>1. \A s \in Slots : s[1] = b => ptr[s] = Null BY <1>3, BlocksAssumption DEF IInv, Reached
  <2> QED BY <1>1, <2>1 DEF IInv, TypeOK
<1>6. \A u \in Threads : th'[u] = IF u = t THEN [th[t] EXCEPT !.at = "install", !.new = b] ELSE th[u]
  BY <1>1 DEF IInv, TypeOK
<1>a. \A u \in Threads : th[u] \in Doing
  BY DEF IInv, TypeOK
<1>7. \A u \in Threads : /\ th'[u].place = th[u].place
                         /\ u # t => th'[u] = th[u]
  <2>1. th'[t].place = th[t].place
    <3>1. th'[t] = [th[t] EXCEPT !.at = "install", !.new = b] BY <1>6
    <3>2. th[t] \in Doing BY <1>a
    <3> QED BY <3>1, <3>2 DEF Doing
  <2>2. \A u \in Threads : u # t => th'[u] = th[u] BY <1>6
  <2> QED BY <2>1, <2>2
<1>8. th'[t].at = "install" /\ th'[t].new = b BY <1>6, <1>a DEF Doing
<1>9. b # Null BY BlocksAssumption
<1>10. TypeOK'
  <2>1. th' \in [Threads -> Doing]
    <3>1. [th[t] EXCEPT !.at = "install", !.new = b] \in Doing BY <1>a DEF Doing, Pointers
    <3> QED BY <1>1, <3>1 DEF IInv, TypeOK
  <2>2. allocated' \subseteq Blocks BY <1>1 DEF IInv, TypeOK
  <2> QED BY <2>1, <2>2, <1>2, <1>5 DEF IInv, TypeOK
<1>11. (\A u \in Threads : Busy(u))' BY <1>2, <1>7 DEF IInv, Busy
<1>12. (\A u \in Threads : Private(u))'
  <2>1. \A s \in Slots : ptr'[s] = ptr[s] BY <1>5
  <2> QED BY <1>3, <1>4, <2>1, <1>7, <1>8, <1>9 DEF IInv, Private
<1>13. InUse'
  <2>1. th[t].new = Null BY <1>2 DEF IInv, Private
  <2>2. {th'[u].new : u \in Threads} \ {Null} = ({th[u].new : u \in Threads} \ {Null}) \cup {b}
    BY <2>1, <1>7, <1>8, <1>9
  <2>3. allocated = ({ptr[s] : s \in Slots} \ {Null}) \cup ({th[u].new : u \in Threads} \ {Null}) BY <1>2 DEF InUse
  <2>4. {ptr'[s] : s \in Slots} = {ptr[s] : s \in Slots} BY <1>5
  <2>5. allocated' = ({ptr'[s] : s \in Slots} \ {Null}) \cup ({th'[u].new : u \in Threads} \ {Null})
    BY <1>1, <2>2, <2>3, <2>4
  <2> QED BY <2>5 DEF InUse
<1>14. Trail(trail, ptr)' /\ OneParent(ptr)' /\ Reached' BY <1>2, <1>5 DEF IInv, OneParent, Reached
<1> QED BY <1>2, <1>10, <1>11, <1>12, <1>13, <1>14 DEF IInv

LEMMA InstallKeeps ==
    ASSUME IInv, NEW t \in Threads, Install(t)
    PROVE  IInv'
<1> DEFINE slot == th[t].place.slot
           b == th[t].new
<1>1. /\ th[t].at = "install" /\ UNCHANGED <<allocated, alive>>
      /\ ptr[slot] = Null /\ ptr' = [ptr EXCEPT ![slot] = b] /\ Down(t, b)
  BY DEF Install
<1>2. b # Null /\ b \in Blocks /\ \A s \in Slots : ptr[s] # b BY <1>1 DEF Doing, IInv, TypeOK, Private, Pointers
<1>3. slot \in Slots /\ th[t].place \in trail /\ th[t].place \in Places /\ alive /\ InUse
  BY <1>1 DEF IInv, TypeOK, Busy, Places
<1>4. \A s \in Slots : ptr'[s] = IF s = slot THEN b ELSE ptr[s] BY <1>1, <1>3 DEF IInv, TypeOK
<1>5. ptr' \in [Slots -> Pointers] BY <1>1, <1>2 DEF IInv, TypeOK, Pointers
<1>6. OneParent(ptr') BY <1>2, <1>4 DEF IInv, OneParent
<1>7. \A s \in Slots : ptr[s] # Null => ptr'[s] = ptr[s] BY <1>1, <1>4
<1>8. /\ Trail(trail', ptr')
      /\ TypeOK'
      /\ \A u \in Threads \ {t} : th'[u] = th[u]
      /\ th'[t].new = Null /\ th'[t].at # "install"
      /\ th'[t].at # "idle" => th'[t].place \in trail' /\ th'[t].place.i >= 0
  <2>1. ptr'[slot] = b BY <1>3, <1>4
  <2>2. Busy(t) /\ TypeOK /\ Trail(trail, ptr) BY DEF IInv
  <2> HIDE DEF b
  <2> QED BY <1>1, <1>2, <1>5, <1>6, <1>7, <2>1, <2>2, DownKeeps DEF TypeOK
<1>9. trail \subseteq trail' BY <1>1 DEF Down, Goes
<1>10. (\A u \in Threads : Busy(u))' BY <1>1, <1>8, <1>9 DEF IInv, Busy
<1>11. (\A u \in Threads : Private(u))'
  <2>1. \A u \in Threads \ {t} : th[u].new # b BY <1>2 DEF IInv, Private
  <2> QED BY <1>4, <1>8, <2>1 DEF IInv, Private
<1>12. Reached'
  <2>1. slot[1] = Root \/ \E r \in Slots : ptr[r] = slot[1] /\ ptr[r] # Null
    <3>1. Comes(th[t].place, trail, ptr) BY <1>3 DEF IInv, Trail
    <3>2. CASE IsFirst(th[t].place) BY <3>2, <1>3, FirstOnes
    <3>3. CASE \E y \in trail : Follows(th[t].place, y, ptr)
      <4>1. PICK y \in trail : Follows(th[t].place, y, ptr) BY <3>3
      <4>2. y \in Places /\ Fits(y) BY DEF IInv, Trail, TypeOK
      <4>3. ptr \in [Slots -> Pointers] BY DEF IInv, TypeOK
      <4>4. y.slot \in Slots /\ ptr[y.slot] \in Blocks /\ slot[1] = ptr[y.slot]
        BY <4>1, <4>2, <4>3, FollowsFits
      <4> QED BY <4>4, BlocksAssumption
    <3> QED BY <3>1, <3>2, <3>3 DEF Comes
  <2>2. ASSUME NEW s \in Slots, ptr'[s] # Null PROVE s[1] = Root \/ \E r \in Slots : ptr'[r] = s[1]
    <3>1. CASE s = slot BY <3>1, <2>1, <1>7
    <3>2. CASE s # slot
      <4>1. s[1] = Root \/ \E r \in Slots : ptr[r] = s[1] BY <3>2, <2>2, <1>4 DEF IInv, Reached
      <4>2. s[1] # Root => s[1] # Null BY BlocksAssumption DEF Slots
      <4> QED BY <4>1, <4>2, <1>7
    <3> QED BY <3>1, <3>2
  <2> QED BY <2>2 DEF Reached
<1>13. InUse'
  <2>1. {ptr'[s] : s \in Slots} \ {Null} = ({ptr[s] : s \in Slots} \ {Null}) \cup {b} BY <1>1, <1>2, <1>3, <1>4
  <2>2. {th[u].new : u \in Threads} \ {Null} = ({th'[u].new : u \in Threads} \ {Null}) \cup {b} BY <1>2, <1>8
  <2> QED BY <1>1, <1>3, <2>1, <2>2 DEF InUse
<1> QED BY <1>6, <1>8, <1>10, <1>11, <1>12, <1>13 DEF IInv

LEMMA LoseKeeps ==
    ASSUME IInv, NEW t \in Threads, Lose(t)
    PROVE  IInv'
<1> DEFINE b == th[t].new
<1>1. /\ th[t].at = "install" /\ allocated' = allocated \ {b} /\ UNCHANGED <<ptr, alive>>
      /\ ptr[th[t].place.slot] # Null /\ Down(t, ptr'[th[t].place.slot])
  BY DEF Lose
<1>2. /\ Trail(trail', ptr')
      /\ TypeOK'
      /\ \A u \in Threads \ {t} : th'[u] = th[u]
      /\ th'[t].new = Null /\ th'[t].at # "install"
      /\ th'[t].at # "idle" => th'[t].place \in trail' /\ th'[t].place.i >= 0
  BY <1>1, DownKeeps DEF IInv, TypeOK
<1>3. trail \subseteq trail' BY <1>1 DEF Down, Goes
<1>4. b # Null /\ (\A s \in Slots : ptr[s] # b) /\ \A u \in Threads \ {t} : th[u].new # b
  BY <1>1 DEF IInv, Private
<1>5. alive /\ InUse BY <1>1 DEF IInv, Busy
<1>6. (\A u \in Threads : Busy(u))' BY <1>1, <1>2, <1>3 DEF IInv, Busy
<1>7. (\A u \in Threads : Private(u))' BY <1>1, <1>2 DEF IInv, Private
<1>8. InUse'
  <2>1. {th'[u].new : u \in Threads} \ {Null} = ({th[u].new : u \in Threads} \ {Null}) \ {b} BY <1>2, <1>4
  <2>2. {ptr[s] : s \in Slots} \ {b} = {ptr[s] : s \in Slots} BY <1>4
  <2> QED BY <1>1, <1>5, <2>1, <2>2 DEF InUse
<1>9. OneParent(ptr)' /\ Reached' BY <1>1 DEF IInv, OneParent, Reached
<1> QED BY <1>2, <1>6, <1>7, <1>8, <1>9 DEF IInv

LEMMA DestroyKeeps == IInv /\ Destroy => IInv'
<1> SUFFICES ASSUME IInv, Destroy PROVE IInv' OBVIOUS
<1>1. UNCHANGED <<ptr, th, trail>> /\ alive' = FALSE /\ allocated' \subseteq allocated /\ \A t \in Threads : th[t].at = "idle"
  BY DEF Destroy
<1>2. TypeOK' BY <1>1 DEF IInv, TypeOK
<1>3. (\A u \in Threads : Busy(u) /\ Private(u))' BY <1>1 DEF IInv, Busy, Private
<1>4. Trail(trail, ptr)' /\ OneParent(ptr)' /\ Reached' BY <1>1 DEF IInv, OneParent, Reached
<1> QED BY <1>1, <1>2, <1>3, <1>4 DEF IInv

\* Every step keeps the invariant.
LEMMA NextInvariant == IInv /\ [Next]_vars => IInv'
<1> SUFFICES ASSUME IInv, [Next]_vars PROVE IInv' OBVIOUS
<1>1. ASSUME NEW t \in Threads, NEW op \in {"lvalue", "value"}, NEW idx \in Asked, Call(t, op, idx) PROVE IInv'
  BY <1>1, CallKeeps
<1>2. ASSUME NEW t \in Threads, Read(t) PROVE IInv' BY <1>2, ReadKeeps
<1>3. ASSUME NEW t \in Threads, Missing(t) PROVE IInv' BY <1>3, MissingKeeps
<1>4. ASSUME NEW t \in Threads, Malloc(t) PROVE IInv' BY <1>4, MallocKeeps
<1>5. ASSUME NEW t \in Threads, Install(t) PROVE IInv' BY <1>5, InstallKeeps
<1>6. ASSUME NEW t \in Threads, Lose(t) PROVE IInv' BY <1>6, LoseKeeps
<1>7. CASE Destroy BY <1>7, DestroyKeeps
<1>8. CASE UNCHANGED vars
  BY <1>8 DEF vars, IInv, TypeOK, OneParent, Busy, Private, Reached, InUse
<1> QED BY <1>1, <1>2, <1>3, <1>4, <1>5, <1>6, <1>7, <1>8 DEF Next

THEOREM Invariant == Spec => []IInv
<1> QED BY InitInvariant, NextInvariant, PTL DEF Spec

\* One element per index, and one index per element, however the threads that install the arrays above it interleave (dyn_array.cc:57-141).
THEOREM CellsAreOnePerIndex == Spec => []OneCellPerIndex
<1>1. IInv => OneCellPerIndex
  <2> SUFFICES ASSUME IInv, NEW x \in Elements, NEW y \in Elements
               PROVE  x.slot \in Slots /\ (x.idx = y.idx <=> x.slot = y.slot)
    BY DEF OneCellPerIndex
  <2>1. x \in trail /\ y \in trail /\ x.i = -1 /\ y.i = -1 BY DEF Elements
  <2>2. x \in Places /\ y \in Places /\ Same(x, y) /\ Apart(x, y) /\ Fits(x) /\ Fits(y)
    BY <2>1 DEF IInv, Trail, TypeOK
  <2>3. x.rest = 0 /\ y.rest = 0 /\ x.idx \in Nat /\ y.idx \in Nat /\ x.slot \in Slots BY <2>1, <2>2 DEF Fits, Places
  <2>4. x.idx = y.idx => x.slot = y.slot BY <2>1, <2>2 DEF Same
  <2>5. x.slot = y.slot => x.idx = y.idx BY <2>2, <2>3 DEF Apart
  <2> QED BY <2>3, <2>4, <2>5
<1> QED BY Invariant, <1>1, PTL

\* An array is where one pointer or one thread has it, until the destructor runs: none is lost, none is reached that was freed (dyn_array.cc:73-84, 88-111).
THEOREM ArraysStayInOnePlace == Spec => []ArraysInOnePlace
<1>1. IInv => ArraysInOnePlace BY DEF IInv, OneParent, Private, InUse, ArraysInOnePlace
<1> QED BY Invariant, <1>1, PTL
-------------------------------------------------------------------------------
(* The destructor.                                                         *)

\* rescursive_free has a value at every level: what it frees at a level is what it frees at the one below.
Frees(f, n, p) == f = [level \in 0 .. n |->
    [a \in Pointers |-> IF a = Null THEN {}
                        ELSE IF level = 0 THEN {a}
                        ELSE {a} \cup UNION {f[level - 1][p[<<a, k>>]] : k \in 0 .. LEN - 1}]]

LEMMA FreesExists ==
    ASSUME NEW p, NEW n \in Nat
    PROVE  \E f : Frees(f, n, p)
<1> DEFINE T == {m \in Nat : \E f : Frees(f, m, p)}
<1>1. 0 \in T
  <2> DEFINE f == [level \in 0 .. 0 |-> [a \in Pointers |-> IF a = Null THEN {} ELSE {a}]]
  <2>1. \A level \in 0 .. 0 : level = 0 OBVIOUS
  <2>2. f = [level \in 0 .. 0 |->
              [a \in Pointers |-> IF a = Null THEN {}
                                  ELSE IF level = 0 THEN {a}
                                  ELSE {a} \cup UNION {f[level - 1][p[<<a, k>>]] : k \in 0 .. LEN - 1}]]
    BY <2>1
  <2> QED BY <2>2 DEF Frees
<1>2. ASSUME NEW m \in Nat, m \in T PROVE m + 1 \in T
  <2>1. PICK f : Frees(f, m, p) BY <1>2
  <2> DEFINE Body(h, level) == [a \in Pointers |-> IF a = Null THEN {}
                                 ELSE IF level = 0 THEN {a}
                                 ELSE {a} \cup UNION {h[level - 1][p[<<a, k>>]] : k \in 0 .. LEN - 1}]
             g == [level \in 0 .. m + 1 |-> Body(f, level)]
  <2>2. \A level \in 0 .. m : f[level] = Body(f, level) BY <2>1 DEF Frees
  <2>3. \A level \in 0 .. m : level \in 0 .. m + 1 OBVIOUS
  <2>4. \A level \in 0 .. m + 1 : g[level] = Body(f, level) OBVIOUS
  <2>5. \A level \in 0 .. m : g[level] = f[level] BY <2>2, <2>3, <2>4
  <2>6. \A level \in 0 .. m + 1 : level # 0 => level - 1 \in 0 .. m OBVIOUS
  <2> HIDE DEF g
  <2>7. \A level \in 0 .. m + 1 : level # 0 => g[level - 1] = f[level - 1] BY <2>5, <2>6
  <2>8. \A level \in 0 .. m + 1 : Body(f, level) = Body(g, level)
    <3> SUFFICES ASSUME NEW level \in 0 .. m + 1 PROVE Body(f, level) = Body(g, level) OBVIOUS
    <3>1. CASE level = 0 BY <3>1
    <3>2. CASE level # 0
      <4>1. g[level - 1] = f[level - 1] BY <2>7, <3>2
      <4> QED BY <4>1
    <3> QED BY <3>1, <3>2
  <2>9. g = [level \in 0 .. m + 1 |-> Body(g, level)]
    <3>1. g = [level \in 0 .. m + 1 |-> Body(f, level)] BY DEF g
    <3> HIDE DEF Body
    <3> QED BY <2>8, <3>1
  <2>10. Frees(g, m + 1, p) BY <2>9 DEF Frees
  <2> QED BY <2>10
<1> HIDE DEF T
<1>3. Nat \subseteq T BY <1>1, <1>2, NatAll
<1> QED BY <1>3 DEF T

LEMMA FreedAtLevel ==
    ASSUME TypeOK, NEW level \in 0 .. LEVELS - 1, NEW a \in Blocks
    PROVE  /\ a \in rescursive_free[level][a]
           /\ level > 0 => \A k \in 0 .. LEN - 1 : rescursive_free[level - 1][ptr[<<a, k>>]] \subseteq rescursive_free[level][a]
<1>1. PICK f : Frees(f, LEVELS - 1, ptr) BY LengthAssumption, FreesExists
<1>2. f = [l \in 0 .. LEVELS - 1 |->
            [b \in Pointers |-> IF b = Null THEN {}
                                ELSE IF l = 0 THEN {b}
                                ELSE {b} \cup UNION {f[l - 1][ptr[<<b, k>>]] : k \in 0 .. LEN - 1}]]
  BY <1>1 DEF Frees
<1>3. rescursive_free = [l \in 0 .. LEVELS - 1 |->
            [b \in Pointers |-> IF b = Null THEN {}
                                ELSE IF l = 0 THEN {b}
                                ELSE {b} \cup UNION {rescursive_free[l - 1][ptr[<<b, k>>]] : k \in 0 .. LEN - 1}]]
  BY Zenon, <1>2 DEF rescursive_free
<1>4. a \in Pointers /\ a # Null BY BlocksAssumption DEF Pointers
<1>5. PICK h : h = rescursive_free /\ Frees(h, LEVELS - 1, ptr)
  <2>1. Frees(rescursive_free, LEVELS - 1, ptr) BY Zenon, <1>3 DEF Frees
  <2> QED BY <2>1
<1> DEFINE Holds(l, b) == IF b = Null THEN {}
                          ELSE IF l = 0 THEN {b}
                          ELSE {b} \cup UNION {h[l - 1][ptr[<<b, k>>]] : k \in 0 .. LEN - 1}
<1>6. h = [l \in 0 .. LEVELS - 1 |-> [b \in Pointers |-> Holds(l, b)]] BY <1>5 DEF Frees
<1>7. h[level][a] = Holds(level, a)
  <2> HIDE DEF Holds
  <2> QED BY <1>4, <1>6
<1>8. h[level][a] = IF level = 0 THEN {a} ELSE {a} \cup UNION {h[level - 1][ptr[<<a, k>>]] : k \in 0 .. LEN - 1}
  BY <1>4, <1>7
<1> QED BY <1>5, <1>8

\* Whoever installed an array was at its place.
Installed == \A s \in Slots : ptr[s] # Null => \E x \in trail : x.slot = s /\ x.i >= 0

LEMMA NextInstalled == IInv /\ Installed /\ [Next]_vars => Installed'
<1> SUFFICES ASSUME IInv, Installed, [Next]_vars PROVE Installed' OBVIOUS
<1>1. trail \subseteq trail'
  <2>1. ASSUME NEW t \in Threads, NEW p, Down(t, p) PROVE trail \subseteq trail' BY <2>1 DEF Down, Goes
  <2>2. ASSUME NEW t \in Threads, NEW op, NEW idx, Call(t, op, idx) PROVE trail \subseteq trail' BY <2>2 DEF Call
  <2>3. ASSUME NEW t \in Threads, Read(t) \/ Install(t) \/ Lose(t) PROVE trail \subseteq trail'
    BY <2>1, <2>3 DEF Read, Install, Lose
  <2>4. ASSUME NEW t \in Threads, Missing(t) \/ Malloc(t) PROVE trail \subseteq trail'
    BY <2>4 DEF Missing, ReturnsNull, Malloc
  <2>5. Destroy \/ UNCHANGED vars => trail \subseteq trail' BY DEF Destroy, vars
  <2> QED BY <2>2, <2>3, <2>4, <2>5 DEF Next
<1>2. ASSUME \A s \in Slots : ptr'[s] # Null => ptr[s] # Null PROVE Installed'
  BY <1>1, <1>2 DEF Installed
<1>3. ASSUME UNCHANGED ptr PROVE Installed' BY <1>2, <1>3
<1>4. ASSUME NEW t \in Threads, NEW op, NEW idx, Call(t, op, idx) PROVE Installed' BY <1>3, <1>4 DEF Call
<1>5. ASSUME NEW t \in Threads, Read(t) \/ Missing(t) \/ Lose(t) PROVE Installed'
  BY <1>3, <1>5 DEF Read, Missing, ReturnsNull, Lose
<1>6. ASSUME NEW t \in Threads, Malloc(t) PROVE Installed'
  <2>1. \A s \in Slots : ptr'[s] = Null \/ ptr'[s] = ptr[s] BY <1>6 DEF Malloc
  <2> QED BY <1>2, <2>1
<1>7. ASSUME NEW t \in Threads, Install(t) PROVE Installed'
  <2>1. th[t].at = "install" /\ ptr' = [ptr EXCEPT ![th[t].place.slot] = th[t].new] BY <1>7 DEF Install
  <2>2. th[t].place \in trail /\ th[t].place.i >= 0 BY <2>1 DEF IInv, Busy
  <2>3. \A s \in Slots : s # th[t].place.slot => ptr'[s] = ptr[s] BY <2>1 DEF IInv, TypeOK
  <2> QED BY <1>1, <2>2, <2>3 DEF Installed
<1>8. Destroy \/ UNCHANGED vars => Installed' BY <1>3 DEF Destroy, vars
<1> QED BY <1>4, <1>5, <1>6, <1>7, <1>8 DEF Next

\* What an array holds is freed with the tree that the array is in, whatever the depth.
LEMMA FreedFromRoot ==
    ASSUME IInv, NEW x \in trail, x.i >= 0, ptr[x.slot] # Null
    PROVE  \E i \in 0 .. LEVELS - 1 : rescursive_free[x.i][ptr[x.slot]] \subseteq rescursive_free[i][ptr[<<Root, i>>]]
<1> DEFINE In(y) == \E i \in 0 .. LEVELS - 1 : rescursive_free[y.i][ptr[y.slot]] \subseteq rescursive_free[i][ptr[<<Root, i>>]]
           Here(n) == \A y \in trail : y.i >= 0 /\ y.i = LEVELS - 1 - n /\ ptr[y.slot] # Null => In(y)
           T == {n \in Nat : Here(n)}
<1>0. /\ TypeOK /\ trail \subseteq Places
      /\ \A y \in trail : Fits(y) /\ Comes(y, trail, ptr)
  BY DEF IInv, TypeOK, Trail
<1>1. ASSUME NEW y \in trail, y.i >= 0, ptr[y.slot] # Null, IsFirst(y) PROVE In(y)
  <2>1. y.slot = <<Root, y.i>> /\ y.i \in 0 .. LEVELS - 1 BY <1>0, <1>1, FirstOnes
  <2> QED BY <2>1
<1>2. ASSUME NEW y \in trail, y.i >= 0, ptr[y.slot] # Null, NEW z \in trail, Follows(y, z, ptr), In(z) PROVE In(y)
  <2>1. ptr \in [Slots -> Pointers] /\ z \in Places /\ Fits(z) BY <1>0 DEF TypeOK
  <2>2. /\ ptr[z.slot] \in Blocks /\ y.i = z.i - 1 /\ y.slot[1] = ptr[z.slot] /\ y.slot[2] \in 0 .. LEN - 1
    BY <1>2, <2>1, FollowsFits
  <2>3. y.slot \in Slots /\ z.i \in -1 .. LEVELS - 1 /\ y.i \in -1 .. LEVELS - 1 BY <1>0, <2>1 DEF Places
  <2>4. z.i \in 0 .. LEVELS - 1 /\ z.i > 0 /\ z.i - 1 = y.i BY <1>2, <2>2, <2>3, LengthAssumption
  <2>5. y.slot = <<ptr[z.slot], y.slot[2]>> BY <2>2, <2>3 DEF Slots
  <2>6. rescursive_free[z.i - 1][ptr[<<ptr[z.slot], y.slot[2]>>]] \subseteq rescursive_free[z.i][ptr[z.slot]]
    BY <1>0, <2>2, <2>4, FreedAtLevel
  <2>7. rescursive_free[y.i][ptr[y.slot]] \subseteq rescursive_free[z.i][ptr[z.slot]]
    BY <2>4, <2>5, <2>6
  <2> QED BY <1>2, <2>7
<1> HIDE DEF In
<1>3. \A y \in trail : y.i \in -1 .. LEVELS - 1 BY <1>0 DEF Places
<1>4. ASSUME NEW y \in trail, y.i >= 0, ptr[y.slot] # Null,
             \A z \in trail : z.i >= 0 /\ z.i = y.i + 1 /\ ptr[z.slot] # Null => In(z)
      PROVE  In(y)
  <2>1. CASE IsFirst(y) BY <1>1, <1>4, <2>1
  <2>2. ASSUME NEW z \in trail, Follows(y, z, ptr) PROVE In(y)
    <3>1. ptr \in [Slots -> Pointers] /\ z \in Places /\ Fits(z) BY <1>0 DEF TypeOK
    <3>2. y.i = z.i - 1 BY <2>2, <3>1, FollowsFits
    <3>3. z.i >= 0 /\ ptr[z.slot] # Null BY <2>2 DEF Follows
    <3>4. z.i = y.i + 1 BY <1>3, <3>2, LengthAssumption
    <3> QED BY <1>2, <1>4, <2>2, <3>3, <3>4
  <2> QED BY <1>0, <2>1, <2>2 DEF Comes
<1>5. 0 \in T
  <2> SUFFICES ASSUME NEW y \in trail, y.i >= 0, y.i = LEVELS - 1 - 0, ptr[y.slot] # Null PROVE In(y) OBVIOUS
  <2>1. \A z \in trail : z.i # y.i + 1 BY <1>3, LengthAssumption
  <2> QED BY <1>4, <2>1
<1>6. ASSUME NEW n \in Nat, n \in T PROVE n + 1 \in T
  <2> SUFFICES ASSUME NEW y \in trail, y.i >= 0, y.i = LEVELS - 1 - (n + 1), ptr[y.slot] # Null PROVE In(y) OBVIOUS
  <2>1. y.i + 1 = LEVELS - 1 - n BY LengthAssumption
  <2> QED BY <1>4, <1>6, <2>1
<1> HIDE DEF T
<1>7. Nat \subseteq T BY <1>5, <1>6, NatAll
<1>8. LEVELS - 1 - x.i \in Nat /\ x.i = LEVELS - 1 - (LEVELS - 1 - x.i) BY <1>3, LengthAssumption
<1>9. Here(LEVELS - 1 - x.i) BY <1>7, <1>8 DEF T
<1>10. In(x) BY <1>8, <1>9
<1> QED BY <1>10 DEF In

\* The destructor leaves no array behind: each is in one of the trees that it walks, however deep, and whoever installed it (dyn_array.cc:28-52).
THEOREM DestructorFreesAll == Spec => []DestroyFreesAll
<1> DEFINE DInv == IInv /\ Installed /\ DestroyFreesAll
<1>1. Init => DInv BY InitInvariant DEF Init, Installed, DestroyFreesAll
<1>2. DInv /\ [Next]_vars => DInv'
  <2> SUFFICES ASSUME DInv, [Next]_vars PROVE DestroyFreesAll' BY NextInvariant, NextInstalled
  <2>1. CASE Destroy
    <3>1. /\ alive /\ \A t \in Threads : th[t].at = "idle"
          /\ allocated' = allocated \ UNION {rescursive_free[i][ptr[<<Root, i>>]] : i \in 0 .. LEVELS - 1}
      BY <2>1 DEF Destroy
    <3>2. \A t \in Threads : th[t].new = Null BY <3>1 DEF IInv, Private
    <3>3. allocated = {ptr[s] : s \in Slots} \ {Null} BY <3>1, <3>2 DEF IInv, InUse
    <3>4. ASSUME NEW b \in allocated PROVE \E i \in 0 .. LEVELS - 1 : b \in rescursive_free[i][ptr[<<Root, i>>]]
      <4>1. PICK s \in Slots : ptr[s] = b /\ ptr[s] # Null BY <3>3
      <4>2. PICK x \in trail : x.slot = s /\ x.i >= 0 BY <4>1 DEF Installed
      <4>3. x.i \in 0 .. LEVELS - 1 BY <4>2, LengthAssumption DEF IInv, TypeOK, Places
      <4>4. b \in Blocks BY DEF IInv, TypeOK
      <4>5. b \in rescursive_free[x.i][b] BY <4>3, <4>4, FreedAtLevel DEF IInv
      <4> QED BY <4>1, <4>2, <4>5, FreedFromRoot
    <3>5. allocated' = {} BY <3>1, <3>4
    <3> QED BY <3>5 DEF DestroyFreesAll
  <2>2. ASSUME ~Destroy PROVE DestroyFreesAll'
    <3>1. alive' = alive /\ (allocated' = allocated \/ alive)
      <4>1. ASSUME NEW t \in Threads, NEW op, NEW idx, Call(t, op, idx) PROVE alive' = alive /\ allocated' = allocated
        BY <4>1 DEF Call
      <4>2. ASSUME NEW t \in Threads, Read(t) \/ Missing(t) PROVE alive' = alive /\ allocated' = allocated
        BY <4>2 DEF Read, Missing, ReturnsNull
      <4>3. ASSUME NEW t \in Threads, Malloc(t) \/ Install(t) \/ Lose(t) PROVE alive' = alive /\ alive
        <5>1. th[t].at # "idle" BY <4>3 DEF Malloc, Install, Lose
        <5>2. alive BY <5>1 DEF IInv, Busy
        <5> QED BY <4>3, <5>2 DEF Malloc, Install, Lose
      <4>4. UNCHANGED vars => alive' = alive /\ allocated' = allocated BY DEF vars
      <4> QED BY <2>2, <4>1, <4>2, <4>3, <4>4 DEF Next
    <3> QED BY <3>1 DEF DestroyFreesAll
  <2> QED BY <2>1, <2>2
<1> QED BY <1>1, <1>2, PTL DEF Spec
===============================================================================
