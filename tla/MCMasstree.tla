---------------------------- MODULE MCMasstree ----------------------------
EXTENDS Masstree

CONSTANTS v1, v2

Ins(k, v) == [op |-> "insert", key |-> k, val |-> v]
Rem(k) == [op |-> "remove", key |-> k, val |-> None]
Get(k) == [op |-> "get", key |-> k, val |-> None]
Scan(k, first) == [op |-> "scan", key |-> k, val |-> first]
Fill(keys) == [i \in DOMAIN keys |-> Ins(keys[i], v1)]
One(n) == [i \in 1 .. n |-> <<i>>]
Script(load, a, b) == [load |-> load, go |-> FALSE, calls |-> <<a, b>>]

\* Scripts with splits of a leaf, at either end, in the middle, around keys that share a slice, with slots used again.
Splits ==
    { Script(Fill(One(3)), <<Ins(<<4>>, v1)>>, <<Get(<<3>>), Rem(<<3>>)>>),
      Script(Fill(One(3)), <<Ins(<<4>>, v1)>>, <<Rem(<<1>>), Get(<<4>>)>>),
      Script(Fill(One(3)), <<Ins(<<4>>, v1), Rem(<<1>>)>>, <<Get(<<3>>)>>),
      Script(Fill(<<<<2>>, <<3>>, <<4>>>>), <<Ins(<<1>>, v1)>>, <<Get(<<2>>)>>),
      Script(Fill(<<<<1>>, <<3>>, <<4>>>>), <<Ins(<<2>>, v1)>>, <<Rem(<<4>>)>>),
      Script(Fill(<<<<1>>, <<2>>, <<4>>>>), <<Ins(<<3>>, v1)>>, <<Get(<<4>>)>>),
      Script(Fill(<<<<1>>, <<2>>, <<4>>>>), <<Ins(<<2,1>>, v1)>>, <<Get(<<4>>)>>),
      Script(Fill(One(3)), <<Ins(<<3,1>>, v1)>>, <<Get(<<3>>)>>),
      Script(Fill(One(6)), <<Rem(<<4>>), Ins(<<7>>, v1)>>, <<Get(<<5>>)>>),
      Script(Fill(One(3)), <<Rem(<<2>>), Ins(<<4>>,v2)>>, <<Get(<<2>>)>>) }
\* Scripts with a second internode, and splits that go up.
Internodes ==
    { Script(Fill(One(9)), <<Ins(<<10>>, v1)>>, <<Get(<<9>>)>>),
      Script(Fill(<<<<1>>, <<3>>, <<4>>, <<5>>, <<6>>, <<7>>, <<8>>, <<9>>, <<10>>>>), <<Ins(<<2>>, v1)>>, <<Ins(<<11>>, v1)>>),
      Script(Fill(<<<<1>>, <<3>>, <<4>>, <<5>>, <<6>>, <<7>>, <<8>>>>), <<Ins(<<2>>, v1)>>, <<Rem(<<8>>), Get(<<8>>)>>),
      Script(Fill(<<<<3>>, <<5>>, <<9>>, <<10>>, <<11>>, <<12>>, <<13>>, <<14>>, <<15>>>>), <<Ins(<<1>>, v1), Ins(<<4>>, v1)>>, <<Get(<<14>>)>>) }
\* Scripts with new layers, with a twig and without.
Layers ==
    { Script(Fill(<<<<1,5>>>>), <<Ins(<<1,6>>, v1)>>, <<Get(<<1,5>>)>>),
      Script(Fill(<<<<1,5,7>>>>), <<Ins(<<1,5,8>>, v1)>>, <<Get(<<1,5,7>>)>>),
      Script(Fill(<<<<1,6>>>>), <<Ins(<<1,5>>, v1)>>, <<Rem(<<1,6>>)>>) }
\* Scripts with leaves that are removed while others split, are read or are removed.
Removals ==
    { Script(Fill(One(7)), <<Rem(<<4>>), Rem(<<5>>), Rem(<<6>>)>>, <<Get(<<4>>)>>),
      Script(Fill(One(5)), <<Rem(<<4>>), Rem(<<5>>)>>, <<Get(<<5>>), Ins(<<4>>, v1)>>),
      Script(Fill(One(5)), <<Rem(<<4>>), Rem(<<5>>)>>, <<Ins(<<6>>, v1)>>),
      Script(Fill(One(7)), <<Rem(<<4>>), Rem(<<5>>), Rem(<<6>>)>>, <<Rem(<<7>>)>>),
      Script(Fill(<<<<1>>, <<2>>, <<3>>, <<4>>, <<7>>, <<8>>, <<9>>>>), <<Rem(<<4>>), Rem(<<7>>), Rem(<<8>>)>>, <<Ins(<<2>>, v1)>>),
      Script(Fill(One(13)) \o <<Rem(<<7>>), Rem(<<8>>)>>, <<Rem(<<9>>)>>, <<Get(<<8>>), Get(<<10>>)>>),
      Script(Fill(One(13)) \o <<Rem(<<10>>), Rem(<<11>>)>>, <<Rem(<<12>>)>>, <<Rem(<<9>>), Ins(<<10>>, v1)>>),
      Script(Fill(One(16)) \o <<Rem(<<10>>), Rem(<<11>>)>>, <<Rem(<<12>>)>>, <<Get(<<10>>)>>) }
\* Scripts with layers that are collected while others enter them.
Collections ==
    { Script(Fill(<<<<1,5>>, <<1,6>>>>), <<Rem(<<1,5>>), Rem(<<1,6>>)>>, <<Get(<<1,5>>)>>),
      Script(Fill(<<<<1,5>>, <<1,6>>>>), <<Rem(<<1,5>>), Rem(<<1,6>>)>>, <<Ins(<<1,7>>, v1)>>),
      Script(Fill(<<<<1,5>>>>), <<Ins(<<1,6>>, v1), Rem(<<1,5>>), Rem(<<1,6>>)>>, <<Ins(<<2>>, v1)>>),
      Script(Fill(<<<<1,5>>, <<1,6>>>>), <<Rem(<<1,5>>)>>, <<Rem(<<1,6>>)>>),
      Script(Fill(<<<<1>>, <<2>>, <<3>>, <<4,5>>, <<4,6>>>>), <<Rem(<<4,5>>), Rem(<<4,6>>)>>, <<Rem(<<3>>)>>),
      Script(Fill(<<<<1,5,7>>, <<1,5,8>>>>), <<Rem(<<1,5,7>>), Rem(<<1,5,8>>)>>, <<Ins(<<1,5,9>>, v1)>>),
      Script(Fill(<<<<1,1>>, <<1,2>>, <<1,3>>, <<1,4>>>>), <<Rem(<<1,4>>), Rem(<<1,1>>), Rem(<<1,2>>), Rem(<<1,3>>)>>, <<Ins(<<2>>, v1)>>) }
\* Scans over leaves and layers that split, go, or are new.
Scans ==
    { Script(Fill(One(3)), <<Ins(<<4>>, v1)>>, <<Scan(<<1>>, TRUE)>>),
      Script(Fill(One(3)), <<Rem(<<1>>), Ins(<<4>>, v1)>>, <<Scan(<<1>>, FALSE)>>),
      Script(Fill(<<<<1>>, <<2>>, <<4>>>>), <<Ins(<<3>>, v1)>>, <<Scan(<<2>>, TRUE)>>),
      Script(Fill(One(5)), <<Rem(<<4>>), Rem(<<5>>)>>, <<Scan(<<2>>, FALSE)>>),
      Script(Fill(One(7)), <<Rem(<<4>>), Rem(<<5>>), Rem(<<6>>)>>, <<Scan(<<3>>, TRUE)>>),
      Script(Fill(<<<<1,5>>, <<2>>>>), <<Ins(<<1,6>>, v1)>>, <<Scan(<<1>>, TRUE)>>),
      Script(Fill(<<<<1,5>>, <<2>>>>), <<Rem(<<1,5>>), Ins(<<1,6>>, v1), Ins(<<1,7>>, v1)>>, <<Scan(<<1,1>>, TRUE)>>),
      Script(Fill(<<<<1>>, <<1,5>>, <<1,6>>, <<2>>>>), <<Rem(<<1,5>>), Rem(<<1,6>>)>>, <<Scan(<<1,5>>, FALSE)>>),
      Script(Fill(<<<<1,5>>, <<1,6>>, <<2>>>>), <<Rem(<<1,5>>), Rem(<<1,6>>), Ins(<<1,7>>, v1)>>, <<Scan(<<1>>, FALSE)>>),
      Script(Fill(<<<<1,5,7>>, <<1,6>>>>), <<Ins(<<1,5,8>>, v1), Rem(<<1,6>>)>>, <<Scan(<<1,5,7>>, TRUE)>>),
      Script(Fill(<<<<1,1>>, <<1,2>>, <<1,3>>, <<1,4>>, <<2>>>>) \o <<Rem(<<1,4>>), Rem(<<1,1>>), Rem(<<1,2>>)>>, <<Rem(<<1,3>>)>>, <<Scan(<<1>>, TRUE)>>) }
Tests == Scans \cup Splits \cup Internodes \cup Layers \cup Removals \cup Collections
AllKeys == {<<i>> : i \in 1 .. 16} \cup {<<1,1>>, <<1,2>>, <<1,3>>, <<1,4>>, <<1,5>>, <<1,5,7>>, <<1,5,8>>, <<1,5,9>>, <<1,6>>, <<1,7>>, <<2,1>>, <<3,1>>, <<4,5>>, <<4,6>>}

\* A read while leaves are removed, for the handles.
Unprotected == { Script(Fill(One(5)), <<Rem(<<4>>), Rem(<<5>>)>>, <<Get(<<5>>)>>) }
=============================================================================
