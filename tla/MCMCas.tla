------------------------------- MODULE MCMCas -------------------------------
(* Three threads and three words that hold one of two values.              *)
EXTENDS MCas

CONSTANTS v0, v1

TwoValues == {v0, v1}
Mcas(q) == [kind |-> "mcas", rows |-> q]
MCasRead(a) == [kind |-> "read", address |-> a]
R(a, e, n) == [address |-> a, expected |-> e, new |-> n]
Up == Mcas({R(1, v0, v1), R(2, v0, v1)})
Down == Mcas({R(1, v1, v0), R(2, v1, v0)})

\* One operation can succeed only after the second thread's; two readers help it.
Late == <<<<Mcas({R(1, v1, v0), R(2, v0, v1)})>>, <<MCasRead(2)>>,
          <<Mcas({R(1, v0, v1)}), MCasRead(2)>>>>

\* The row in the middle of three fails, unless the other operation comes first.
Middle == <<<<Mcas({R(1, v0, v1), R(2, v1, v0), R(3, v0, v1)})>>,
            <<Mcas({R(2, v0, v1)}), MCasRead(3)>>, <<>>>>

\* Two threads write the same two words back and forth.
Swaps == <<<<Up, MCasRead(1)>>, <<Down, Up, MCasRead(2)>>, <<>>>>

\* As before, and while the row in the middle is failing another thread wants the
\* word of the first row; a reader looks at it.
Torn == <<<<Mcas({R(1, v0, v1), R(2, v1, v0), R(3, v0, v1)})>>, <<Mcas({R(3, v1, v0)})>>,
          <<MCasRead(3)>>>>

Runs(ss) == {[t \in 0 .. 2 |-> s[t + 1]] : s \in ss}
AllScripts == Runs({Late, Middle, Swaps, Torn})
MiddleOnly == Runs({Middle})
===============================================================================
