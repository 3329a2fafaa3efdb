----------------------------- MODULE MCSplitList -----------------------------
(* Two threads; one may come to a list that the other has filled.           *)
EXTENDS SplitList

Ins(k) == [op |-> "insert", key |-> k]
Rem(k) == [op |-> "remove", key |-> k]
Get(k) == [op |-> "get", key |-> k]
Match(k) == [op |-> "match", key |-> k]

\* Keys 1 and 2 share a hash; key 3 moves to bucket 1, then to bucket 3.
\* Key 2 is long: a search with it is for key 1.
HashOf == [k \in {1, 2, 3} |-> IF k = 3 THEN 7 ELSE 2]
CutOf == [k \in {1, 2, 3} |-> IF k = 2 THEN 1 ELSE k]
Mixed == {<<<<Ins(1), Rem(1)>>, <<Ins(2), Get(1)>>>>,
          <<<<Ins(1), Ins(3), Rem(3)>>, <<Rem(3), Get(3)>>>>,
          <<<<Ins(3), Rem(3), Ins(3)>>, <<Get(3), Rem(3)>>>>,
          <<<<Ins(1)>>, <<Ins(1), Match(3)>>>>,
          <<<<Ins(1), Rem(1)>>, <<Ins(2), Get(2)>>>>}
===============================================================================
