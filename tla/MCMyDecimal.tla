----------------------------- MODULE MCMyDecimal -----------------------------
(* Words of two digits to the base 4, three of them to a number.            *)
EXTENDS MyDecimal, TLC

Dec(neg, intg, frac, words) ==
    [neg |-> neg, intg |-> intg, frac |-> frac,
     buf |-> [i \in Places |-> IF i < Len(words) THEN words[i + 1] ELSE DIG_MAX]]
MCOperands == {Dec(FALSE, 1, 0, <<0>>), Dec(FALSE, 1, 0, <<1>>), Dec(TRUE, 1, 1, <<2, 8>>), Dec(FALSE, 2, 2, <<15, 15>>),
               Dec(FALSE, 0, 3, <<1, 12>>), Dec(FALSE, 3, 0, <<3, 9>>), Dec(TRUE, 6, 0, <<15, 15, 15>>),
               Dec(FALSE, 4, 2, <<15, 0, 14>>), Dec(TRUE, 2, 4, <<1, 0, 1>>), Dec(TRUE, 2, 3, <<8, 15, 12>>),
               Dec(FALSE, 6, 0, <<4, 0, 1>>), Dec(TRUE, 0, 4, <<0, 7>>), Dec(FALSE, 4, 1, <<7, 14, 8>>),
               Dec(FALSE, 4, 2, <<15, 15, 15>>)}
Text(neg, int, frac, exp) == [neg |-> neg, int |-> int, frac |-> frac, exp |-> exp]
Ones(n) == [i \in 1 .. n |-> 1]
\* Digits that fit, that are cut off, that have no room before the point, and zeroes; exponents in and out of range.
MCTexts ==
    {Text(FALSE, w[1], w[2], exp) :
        w \in {<<<<>>, <<3, 1, 2>>>>, <<<<2, 2>>, Ones(5)>>, <<<<1, 2, 3, 1, 1>>, <<2>>>>, <<Ones(7), <<>>>>, <<<<0>>, <<0, 0, 3>>>>,
              <<<<>>, Ones(7)>>, <<<<0, 0, 3>>, <<>>>>, <<<<0>>, <<>>>>},
        exp \in {{}, {0}, {2}, {-3}, {9}, {-9}, {12}, {-12}, {300}}}
    \cup {Text(TRUE, <<3, 1>>, <<2>>, {}), Text(TRUE, <<2, 2>>, Ones(5), {2}), Text(TRUE, <<0>>, <<>>, {}), Text(FALSE, <<>>, <<>>, {})}
MCColumns == {<<5, 2>>, <<4, 0>>, <<4, 3>>}
MCNumbers == {LLONG_MIN, LLONG_MIN + 1, -17, 0, 1, 15, 16, 127, 128, ULLONG_MAX}
MCScales == -2 .. 3
=============================================================================
