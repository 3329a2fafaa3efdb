------------------------------- MODULE Decimal -------------------------------
(***************************************************************************)
(* Fixed point decimals (src/src/decimal.cc, src/include/lf/my_decimal.hh):*)
(* a sign, the digits before and after the point, and a buffer of words of *)
(* DIG digits each; the point is between two words.  The buffers of all    *)
(* operands have one length, as those of my_decimal have.  What an         *)
(* operation leaves in the words behind its result is Stale.               *)
(***************************************************************************)
EXTENDS Integers, Sequences, FiniteSets

CONSTANTS Radix,         \* 10 in the code; even
          DIG,           \* DIG_PER_DEC1
          LEN,           \* DECIMAL_BUFF_LENGTH
          NOT_FIXED_DEC, \* the largest number of digits behind the point of a product
          IntBits,       \* the width of the integers that are converted
          MaxExp,        \* INT_MAX / 2: the largest exponent of a text
          BYTE           \* the values of a byte, or as many as make a word several bytes

ASSUME DecimalConstants ==
    /\ Radix \in Nat /\ Radix % 2 = 0 /\ Radix > 3 /\ DIG \in Nat /\ DIG > 1
    /\ LEN \in Nat \ {0} /\ NOT_FIXED_DEC \in Nat /\ IntBits \in Nat \ {0} /\ MaxExp \in 1 .. (2 ^ (IntBits - 1)) - 2
    /\ BYTE \in Nat /\ BYTE % 2 = 0 /\ BYTE >= 2 * Radix

\* Division and remainder of C: towards 0.
CDiv(a, b) == IF a >= 0 THEN a \div b ELSE -((-a) \div b)
CMod(a, b) == a - (b * CDiv(a, b))
Larger(a, b) == IF a > b THEN a ELSE b
Smaller(a, b) == IF a < b THEN a ELSE b

powers10(n) == Radix ^ n
DIG_BASE == powers10(DIG)
DIG_MAX == DIG_BASE - 1
ROUND_UP(n) == CDiv(n + DIG - 1, DIG)

E_DEC_OK == 0
E_DEC_TRUNCATED == 1
E_DEC_OVERFLOW == 2
E_DEC_DIV_ZERO == 4
E_DEC_BAD_NUM == 8
E_DEC_OOM == 16

Places == 0 .. LEN - 1
IntWords(d) == ROUND_UP(d.intg)    \* words before the point
FracWords(d) == ROUND_UP(d.frac)   \* words behind it
\* The word p places left of the point, or -p right of it; 0 where there is none.
Word(d, p) == IF -FracWords(d) <= p /\ p < IntWords(d) THEN d.buf[IntWords(d) - 1 - p] ELSE 0
Put(buf, from, to, F(_)) == [i \in DOMAIN buf |-> IF i \in from .. to THEN F(i) ELSE buf[i]]

Stale == [neg |-> FALSE, intg |-> 0, frac |-> 0, buf |-> [i \in Places |-> DIG_MAX]]
Zero(d) == [d EXCEPT !.buf[0] = 0, !.intg = 1, !.frac = 0, !.neg = FALSE]
IsZero(d) == \A i \in 0 .. IntWords(d) + FracWords(d) - 1 : d.buf[i] = 0
Result(e, d) == [err |-> e, d |-> d]

\* What of intg and frac words fits into a buffer.
FIX_INTG_FRAC_ERROR(intg, frac) ==
    IF intg + frac <= LEN THEN [intg |-> intg, frac |-> frac, err |-> E_DEC_OK]
    ELSE IF intg > LEN THEN [intg |-> LEN, frac |-> 0, err |-> E_DEC_OVERFLOW]
    ELSE [intg |-> intg, frac |-> LEN - intg, err |-> E_DEC_TRUNCATED]

count_leading_zeroes(i, val) == Cardinality({j \in 0 .. i : val < powers10(j)})
count_trailing_zeroes(i, val) == Cardinality({j \in i .. DIG : val % powers10(j) = 0})

max_decimal(precision, frac) ==
    LET intg == precision - frac
        i == ROUND_UP(intg)
        n == i + ROUND_UP(frac)
        Nines(k) == IF k = 0 /\ intg % DIG # 0 THEN powers10(intg % DIG) - 1
                    ELSE IF k = n - 1 /\ frac % DIG # 0 THEN DIG_BASE - powers10(DIG - (frac % DIG))
                    ELSE DIG_MAX
    IN  [neg |-> FALSE, intg |-> intg, frac |-> frac, buf |-> Put(Stale.buf, 0, n - 1, Nines)]

\* How many words of zeroes the integer part begins with.
LeadingWords(d) ==
    CHOOSE n \in 0 .. IntWords(d) : (\A i \in 0 .. n - 1 : d.buf[i] = 0) /\ (n < IntWords(d) => d.buf[n] # 0)
remove_leading_zeroes(d) ==
    LET n == LeadingWords(d)
        intg == IF n = 0 THEN d.intg ELSE (IntWords(d) - n) * DIG
    IN  [from |-> n, intg |-> IF n = IntWords(d) THEN 0 ELSE intg - count_leading_zeroes((intg - 1) % DIG, d.buf[n])]

decimal_intg(d) == remove_leading_zeroes(d).intg

decimal_actual_fraction(d) ==
    LET words == {n \in 0 .. FracWords(d) - 1 : d.buf[IntWords(d) + n] # 0}
        last == CHOOSE n \in words : \A m \in words : m <= n
        frac == IF last = FracWords(d) - 1 THEN d.frac ELSE (last + 1) * DIG
    IN  IF words = {} THEN 0
        ELSE frac - count_trailing_zeroes(DIG - ((frac - 1) % DIG), d.buf[IntWords(d) + last])
-------------------------------------------------------------------------------
(* Sums, differences and comparisons.                                       *)

\* The words of x + y from lo up, and the carry out of hi; the digits of the sum are DIG_BASE apart.
CarriesLate(x, y, lo, hi) == \* misses a sum of DIG_BASE
    LET c[p \in lo .. hi + 1] == IF p = lo THEN 0 ELSE IF x[p - 1] + y[p - 1] + c[p - 1] > DIG_BASE THEN 1 ELSE 0
    IN  c
Carries(x, y, lo, hi) ==
    LET c[p \in lo .. hi + 1] == IF p = lo THEN 0 ELSE (x[p - 1] + y[p - 1] + c[p - 1]) \div DIG_BASE
    IN  c
Borrows(x, y, lo, hi) ==
    LET c[p \in lo .. hi + 1] == IF p = lo THEN 0 ELSE IF x[p - 1] - y[p - 1] - c[p - 1] < 0 THEN 1 ELSE 0
    IN  c

do_add(a, b) ==
    LET hi == Larger(IntWords(a), IntWords(b))
        x == IF IntWords(a) > IntWords(b) THEN a.buf[0] ELSE IF IntWords(b) > IntWords(a) THEN b.buf[0] ELSE a.buf[0] + b.buf[0]
        \* is there a need for an extra word because of the carry?
        fix == FIX_INTG_FRAC_ERROR(IF x > DIG_MAX - 1 THEN hi + 1 ELSE hi, Larger(FracWords(a), FracWords(b)))
        wa == [p \in -fix.frac .. hi - 1 |-> Word(a, p)]
        wb == [p \in -fix.frac .. hi - 1 |-> Word(b, p)]
        c == Carries(wa, wb, -fix.frac, hi - 1)
        Sum(i) == LET p == fix.intg - 1 - i IN IF p = hi THEN c[hi] ELSE (wa[p] + wb[p] + c[p]) % DIG_BASE
    IN  IF fix.err = E_DEC_OVERFLOW THEN Result(fix.err, max_decimal(LEN * DIG, 0))
        ELSE Result(fix.err, [neg |-> a.neg, intg |-> fix.intg * DIG,
                              frac |-> Smaller(Larger(a.frac, b.frac), IF fix.err = E_DEC_OK THEN Larger(a.frac, b.frac) ELSE fix.frac * DIG),
                              buf |-> Put(Stale.buf, 0, fix.intg + fix.frac - 1, Sum)])

\* The first place, from the left, where the numbers differ, or none.
Differ(a, b) == {p \in -Larger(FracWords(a), FracWords(b)) .. Larger(IntWords(a), IntWords(b)) - 1 : Word(a, p) # Word(b, p)}
First(a, b) == CHOOSE p \in Differ(a, b) : \A q \in Differ(a, b) : q <= p

\* big - small, both without the leading words of zeroes of big.
Difference(big, small, hi, frac, neg, fix) ==
    LET x == [p \in -fix.frac .. hi - 1 |-> Word(big, p)]
        y == [p \in -fix.frac .. hi - 1 |-> Word(small, p)]
        c == Borrows(x, y, -fix.frac, hi - 1)
        Diff(i) == LET p == hi - 1 - i IN (x[p] - y[p] - c[p]) % DIG_BASE
    IN  Result(fix.err, [neg |-> neg, intg |-> hi * DIG,
                         frac |-> IF fix.err = E_DEC_OK THEN frac ELSE Smaller(frac, fix.frac * DIG),
                         buf |-> Put(Stale.buf, 0, fix.intg + fix.frac - 1, Diff)])

do_sub(a, b) ==
    LET Less(big, small, neg) ==
            LET hi == IntWords(big) - LeadingWords(big)
            IN  Difference(big, small, hi, Larger(a.frac, b.frac), neg, FIX_INTG_FRAC_ERROR(hi, Larger(FracWords(a), FracWords(b))))
    IN  IF Differ(a, b) = {} THEN Result(E_DEC_OK, Zero(Stale))
        ELSE IF Word(a, First(a, b)) < Word(b, First(a, b)) THEN Less(b, a, ~a.neg)
        ELSE Less(a, b, a.neg)

decimal_add(a, b) == IF a.neg = b.neg THEN do_add(a, b) ELSE do_sub(a, b)
decimal_sub(a, b) == IF a.neg = b.neg THEN do_sub(a, b) ELSE do_add(a, b)
decimal_cmp(a, b) ==
    IF a.neg # b.neg THEN IF a.neg THEN -1 ELSE 1
    ELSE IF Differ(a, b) = {} THEN 0
    ELSE IF (Word(a, First(a, b)) < Word(b, First(a, b))) = a.neg THEN 1 ELSE -1
-------------------------------------------------------------------------------
(* Products.                                                                *)

\* The words of the factors that are multiplied: fewer when the product does not fit.
Kept(a, b, fix) ==
    LET overflow == ROUND_UP(a.intg + b.intg) > fix.intg
        lost == IF overflow THEN ROUND_UP(a.intg + b.intg) - fix.intg ELSE FracWords(a) + FracWords(b) - fix.frac
        half == lost \div 2
        swap == FracWords(a) > FracWords(b)
    IN  IF overflow THEN [ia |-> IntWords(a) - half, fa |-> 0, ib |-> IntWords(b) - (lost - half), fb |-> 0]
        ELSE [ia |-> IntWords(a), fa |-> FracWords(a) - (IF swap THEN lost - half ELSE half),
              ib |-> IntWords(b), fb |-> FracWords(b) - (IF swap THEN half ELSE lost - half)]

\* Adds the product of b and the word of a at p to w, whose words are counted from the right; above them a carry is left.
Row(w, a, p, b, k) ==
    LET n == Cardinality(DOMAIN w)
        base == p + k.fa
        Product(i) == IF i - base < k.ib + k.fb THEN Word(a, p) * Word(b, i - base - k.fb) ELSE 0
        t[i \in base .. n] ==
            (IF i = base THEN 0 ELSE t[i - 1] \div DIG_BASE) + (IF i < n THEN w[i] + Product(i) ELSE 0)
    IN  [w |-> [i \in DOMAIN w |-> IF i < base THEN w[i] ELSE t[i] % DIG_BASE],
         carry |-> IF base < n THEN t[n] ELSE 0]

\* All rows of the product, until one leaves a carry.
Rows(a, b, k, n) ==
    LET rows[p \in -k.fa - 1 .. k.ia - 1] ==
            IF p = -k.fa - 1 THEN [w |-> [i \in 0 .. n - 1 |-> 0], carry |-> 0]
            ELSE IF rows[p - 1].carry > 0 THEN rows[p - 1]
            ELSE Row(rows[p - 1].w, a, p, b, k)
    IN  rows[Larger(k.ia - 1, -k.fa - 1)]

\* A product without a negative zero and without leading words of zeroes; fix: its words.
Proper(d, fix) ==
    LET lead == Smaller(LeadingWords(d), fix.intg - 1)
    IN  IF d.neg /\ \A i \in 0 .. fix.intg + fix.frac - 1 : d.buf[i] = 0 THEN Result(fix.err, Zero(d))
        ELSE IF lead <= 0 THEN Result(fix.err, d)
        ELSE Result(fix.err, [d EXCEPT !.intg = (fix.intg - lead) * DIG,
                                       !.buf = Put(d.buf, 0, fix.intg + FracWords(d) - lead - 1, LAMBDA i : d.buf[i + lead])])

ProductOf(neg, frac, fix, rows) ==
    LET n == fix.intg + fix.frac
        d == [neg |-> neg, intg |-> fix.intg * DIG,
              frac |-> IF fix.err = E_DEC_OK THEN frac ELSE Smaller(frac, fix.frac * DIG),
              buf |-> Put(Stale.buf, 0, n - 1, LAMBDA i : rows.w[n - 1 - i])]
    IN  IF rows.carry > 0 THEN Result(E_DEC_OVERFLOW, d) ELSE Proper(d, fix)

decimal_mul(a, b) ==
    LET fix == FIX_INTG_FRAC_ERROR(ROUND_UP(a.intg + b.intg), FracWords(a) + FracWords(b))
    IN  ProductOf(a.neg # b.neg, Smaller(a.frac + b.frac, NOT_FIXED_DEC), fix,
                  Rows(a, b, Kept(a, b, fix), fix.intg + fix.frac))
-------------------------------------------------------------------------------
(* Quotients and remainders: Knuth's algorithm D, with the divisor as it is.  *)

\* Leading words of zeroes, before and behind the point, and the digits that are left.
Significant(d) ==
    LET words == IntWords(d) + FracWords(d)
        prec == d.intg + (FracWords(d) * DIG)
        n == CHOOSE m \in 0 .. words : (\A i \in 0 .. m - 1 : d.buf[i] = 0) /\ (m < words => d.buf[m] # 0)
        left == IF n = 0 THEN prec ELSE (words - n) * DIG
    IN  [from |-> n, prec |-> IF n = words THEN 0 ELSE left - count_leading_zeroes((left - 1) % DIG, d.buf[n])]

\* One word of the quotient.  s.t: what is left of the dividend; s.at: its first word; s.carry: the word before that.
Guess(s, v) ==
    LET two == Len(v) > 1
        norm == DIG_BASE \div (v[1] + 1)
        norm2 == (norm * v[1]) + (IF two THEN (norm * v[2]) \div DIG_BASE ELSE 0)
        x == s.t[s.at] + (s.carry * DIG_BASE)
        y == s.t[s.at + 1]
        g == Smaller(((norm * x) + ((norm * y) \div DIG_BASE)) \div norm2, DIG_BASE - 1)
        Over(h) == two /\ v[2] * h > ((x - (h * v[1])) * DIG_BASE) + y
        g1 == IF Over(g) THEN g - 1 ELSE g
    IN  IF Over(g1) THEN g1 - 1 ELSE g1

\* t minus g times v below the word at, and the borrow from the word before.
Subtracted(t, at, g, v) ==
    LET n == Len(v)
        c[k \in 0 .. n] == \* the borrow out of the last k words
            IF k = 0 THEN 0 ELSE -((t[at + n - k] - (g * v[n - k + 1]) - c[k - 1]) \div DIG_BASE)
    IN  [t |-> Put(t, at, at + n - 1, LAMBDA i : (t[i] - (g * v[i - at + 1]) - c[n - 1 - (i - at)]) % DIG_BASE), borrow |-> c[n]]

\* sub: what is left of the dividend after the guess g; when that was too high, v is added back.
Corrected(s, v, g, sub) ==
    LET none == s.carry = 0 /\ s.t[s.at] < v[1]
        back == s.carry < sub.borrow
        t == IF none THEN s.t ELSE IF back THEN Subtracted(sub.t, s.at, -1, v).t ELSE sub.t
    IN  [t |-> t, at |-> s.at + 1, carry |-> t[s.at],
         words |-> Append(s.words, IF none THEN 0 ELSE IF back THEN g - 1 ELSE g)]
NextWord(s, v) == LET g == Guess(s, v) IN Corrected(s, v, g, Subtracted(s.t, s.at, g, v))

\* What removes the leading zeroes at the end of a quotient or a remainder.
Trimmed(e, d) ==
    LET lead == remove_leading_zeroes(d)
        words == ROUND_UP(lead.intg) + FracWords(d)
    IN  Result(e, [d EXCEPT !.intg = lead.intg,
                            !.buf = IF lead.from = 0 THEN d.buf ELSE Put(d.buf, 0, words - 1, LAMBDA i : d.buf[i + lead.from])])

\* The digits of the quotient before the point, or its words of zeroes behind the point as a negative number.
QuotientDigits(a, b) ==
    LET Digits(sa, sb) == (sa.prec - (FracWords(a) * DIG)) - (sb.prec - (FracWords(b) * DIG))
                          + (IF a.buf[sa.from] >= b.buf[sb.from] THEN 1 ELSE 0)
        Words(digits) == IF digits < 0 THEN CDiv(digits, DIG) ELSE digits
    IN  Words(Digits(Significant(a), Significant(b)))

\* The divisor, without the words of zeroes at its end.
Divisor(b, sb) ==
    LET all == [i \in 1 .. ROUND_UP(sb.prec) |-> b.buf[sb.from + i - 1]]
    IN  SubSeq(all, 1, CHOOSE i \in DOMAIN all : all[i] # 0 /\ \A j \in i + 1 .. Len(all) : all[j] = 0)

\* n words of t divided by v.
Divided(t, v, n) ==
    LET s[i \in 0 .. n] ==
            IF i > 0 THEN NextWord(s[i - 1], v)
            ELSE IF t[0] < v[1] THEN [t |-> t, at |-> 1, carry |-> t[0], words |-> <<>>]
            ELSE [t |-> t, at |-> 0, carry |-> 0, words |-> <<>>]
    IN  s[n]

\* The division after n words, with incr words of zeroes behind the dividend.
Division(a, b, n, incr) ==
    LET Dividend(sa) ==
            LET words == ROUND_UP(sa.prec)
                size == Larger(3, words + ROUND_UP((2 * FracWords(b) * DIG) + incr + 1) + 1)
            IN  [i \in 0 .. size - 1 |-> IF i < words THEN a.buf[sa.from + i] ELSE 0]
    IN  Divided(Dividend(Significant(a)), Divisor(b, Significant(b)), n)

\* scale_incr, less what the digits that fill the last words give.
Increment(a, b, scale_incr) == Larger(0, scale_incr - ((FracWords(a) * DIG) - a.frac + (FracWords(b) * DIG) - b.frac))

decimal_div(a, b, scale_incr) ==
    LET incr == Increment(a, b, scale_incr)
        Fix(digits) == FIX_INTG_FRAC_ERROR(IF digits < 0 THEN 0 ELSE ROUND_UP(digits), ROUND_UP(((FracWords(a) + FracWords(b)) * DIG) + incr))
        \* with words of zeroes before the first word of the quotient
        Quotient(fix, zeroes, words) ==
            Trimmed(fix.err, [neg |-> a.neg # b.neg, intg |-> fix.intg * DIG, frac |-> fix.frac * DIG,
                              buf |-> Put(Stale.buf, 0, zeroes + Len(words) - 1, LAMBDA i : IF i < zeroes THEN 0 ELSE words[i - zeroes + 1])])
        Divide(fix, zeroes) == Quotient(fix, zeroes, Division(a, b, Larger(0, fix.intg + fix.frac - zeroes), incr).words)
        Place(digits) == Divide(Fix(digits), IF digits < 0 THEN Smaller(-digits, LEN) ELSE 0)
    IN  IF Significant(b).prec = 0 THEN Result(E_DEC_DIV_ZERO, Stale)
        ELSE IF Significant(a).prec = 0 THEN Result(E_DEC_OK, Zero(Stale))
        ELSE Place(QuotientDigits(a, b))

\* What is left from the word at of the division s, with int words before the point, or -int words of zeroes behind it.
Remainder(a, b, s, at, int) ==
    LET Left(i) == IF i = s.at - 1 THEN s.carry ELSE s.t[i]
        frac == Larger(a.frac, b.frac)
        to == [Stale EXCEPT !.neg = a.neg, !.frac = frac]
        whole == Smaller(ROUND_UP(frac), LEN - int)
        cut == 1 + ROUND_UP(frac) + int > LEN
        f == IF cut THEN LEN - 1 ELSE ROUND_UP(frac) + int
    IN  IF frac = 0 /\ int = 0 THEN Trimmed(E_DEC_OK, Zero(to))
        ELSE IF int <= 0 /\ -int >= LEN THEN Trimmed(E_DEC_TRUNCATED, Zero(to))
        ELSE IF int <= 0
        THEN Trimmed(IF cut THEN E_DEC_TRUNCATED ELSE E_DEC_OK,
                     [to EXCEPT !.frac = IF cut THEN f * DIG ELSE frac,
                                !.buf = Put(Stale.buf, 0, Larger(f, 0) - int - 1, LAMBDA i : IF i < -int THEN 0 ELSE Left(at + i + int))])
        ELSE Trimmed(IF whole < ROUND_UP(frac) THEN E_DEC_TRUNCATED ELSE E_DEC_OK,
                     [to EXCEPT !.intg = Smaller(int * DIG, b.intg),
                                !.frac = IF whole < ROUND_UP(frac) THEN whole * DIG ELSE frac,
                                !.buf = Put(Stale.buf, 0, int + whole - 1, LAMBDA i : Left(at + i))])

decimal_mod(a, b) ==
    LET Words(digits) == IF digits < 0 THEN 0 ELSE ROUND_UP(digits)
        IntOf(digits) == IF digits < 0 THEN CDiv(digits, DIG) ELSE ROUND_UP(digits)
        From(s, at) == Remainder(a, b, s, at, IntOf(Significant(a).prec - (FracWords(a) * DIG) - (at * DIG)))
        After(s) == From(s, IF s.carry # 0 THEN s.at - 1 ELSE s.at)
    IN  IF Significant(b).prec = 0 THEN Result(E_DEC_DIV_ZERO, Stale)
        ELSE IF Significant(a).prec = 0 THEN Result(E_DEC_OK, Zero(Stale))
        ELSE After(Division(a, b, Words(QuotientDigits(a, b)), Increment(a, b, 0)))
-------------------------------------------------------------------------------
(* Rounding: scale digits are left behind the point, or -scale zeroes before it. *)

\* The carry out of the word at of b runs to the left.  over: it ran out of the number.
Carried(b, at) ==
    LET stop == CHOOSE j \in -1 .. at - 1 : (\A i \in j + 1 .. at - 1 : b[i] = DIG_MAX) /\ (j >= 0 => b[j] # DIG_MAX)
    IN  [buf |-> [i \in DOMAIN b |-> IF i = at THEN b[i] - DIG_BASE ELSE IF stop < i /\ i < at THEN 0
                                     ELSE IF i = stop THEN b[i] + 1 ELSE b[i]],
         at |-> stop, over |-> stop < 0]

\* Whether what is behind the word at of d is rounded away from 0.
AtWord(d, at, mode, away, behind) ==
    LET x == d.buf[at + 1] \div powers10(DIG - 1)
    IN  IF mode \in {"HALF_UP", "HALF_EVEN"}
        THEN \/ x > Radix \div 2
             \/ x = Radix \div 2 /\ (mode = "HALF_UP" \/ (at >= 0 /\ d.buf[at] % 2 = 1))
        ELSE away /\ \E i \in at + 1 .. at + behind : d.buf[i] # 0

\* The word w with the digit pos from its end, and those behind it, rounded.
InWordHalfDown(w, pos, mode, away) == \* half goes down
    LET x == w \div powers10(pos)
        y == x % Radix
        up == IF mode \in {"HALF_UP", "HALF_EVEN"} THEN y > Radix \div 2 ELSE away /\ y > 0
    IN  powers10(pos) * (x + (IF up THEN Radix ELSE 0) - y)
InWord(w, pos, mode, away) ==
    LET x == w \div powers10(pos)
        y == x % Radix
        up == IF mode \in {"HALF_UP", "HALF_EVEN"}
              THEN y > Radix \div 2 \/ (y = Radix \div 2 /\ (mode = "HALF_UP" \/ (x \div Radix) % 2 = 1))
              ELSE away /\ y > 0
    IN  powers10(pos) * (x + (IF up THEN Radix ELSE 0) - y)

\* to with the words b rounded off at the word at, whose carry may still have to run to the left; the point is behind
\* intg0 words, and frac0 words are left behind it.
RoundedOff(to, b, at, intg0, frac0, s, err) ==
    LET c == Carried(b, Larger(at, 0))
        \* one word more: 99.9 becomes 100
        full == frac0 + intg0 >= LEN
        f == IF full THEN frac0 - 1 ELSE frac0
        last == intg0 + Larger(f, 0)
        lost == last >= LEN \/ to.intg >= LEN * DIG
        Done(d, k) == \* the digit more that a carry within the first word asks for
            [d EXCEPT !.intg = IF @ % DIG # 0 /\ d.buf[k] >= powers10(@ % DIG) THEN @ + 1 ELSE @]
        whole == Larger(s, 0)
    IN  IF b[Larger(at, 0)] >= DIG_BASE
        THEN IF c.over
             THEN Result(IF lost THEN E_DEC_OVERFLOW ELSE IF full THEN E_DEC_TRUNCATED ELSE err,
                         [to EXCEPT !.buf = Put([c.buf EXCEPT ![0] = 1], 1, Smaller(last, LEN - 1), LAMBDA i : c.buf[i - 1]),
                                    !.intg = IF @ < LEN * DIG THEN @ + 1 ELSE @,
                                    !.frac = Larger(IF full THEN f * DIG ELSE s, 0)])
             ELSE Result(err, Done([to EXCEPT !.buf = c.buf, !.frac = whole], c.at))
        ELSE IF \A i \in 0 .. at : b[i] = 0
        THEN Result(E_DEC_OK, [neg |-> FALSE, intg |-> 1, frac |-> whole, buf |-> Put(b, 0, frac0, LAMBDA i : 0)])
        ELSE Result(err, Done([to EXCEPT !.buf = b, !.frac = whole],
                              CHOOSE k \in 0 .. at : b[k] # 0 /\ \A i \in k + 1 .. at : b[i] = 0))

\* inplace: from and to are one object, and intg stays as it is.
decimal_round(from, inplace, scale, mode) ==
    LET intg0 == IntWords(from)
        frac1 == FracWords(from)
        wanted == IF scale > 0 THEN ROUND_UP(scale) ELSE CDiv(scale + 1, DIG)
        cut == wanted + intg0 > LEN
        to == [from EXCEPT !.intg = IF inplace THEN @ ELSE intg0 * DIG]
        away == (mode = "CEILING" /\ ~from.neg) \/ (mode = "FLOOR" /\ from.neg)
        Round(frac0, s, err) ==
            LET at == intg0 + frac0 - 1
                boundary == s = frac0 * DIG
                inc == boundary /\ AtWord(from, at, mode, away, frac1 - frac0)
                b == IF ~boundary THEN [from.buf EXCEPT ![at] = InWord(@, frac0 * DIG - s - 1, mode, away)]
                     ELSE IF ~inc THEN from.buf
                     ELSE IF at >= 0 THEN [from.buf EXCEPT ![at] = @ + 1] ELSE [from.buf EXCEPT ![0] = DIG_BASE]
            IN  IF s + from.intg < 0 THEN Result(E_DEC_OK, Zero(to))
                ELSE IF frac0 > frac1
                THEN Result(err, [to EXCEPT !.frac = s, !.buf = Put(@, intg0 + frac1, intg0 + frac0 - 1, LAMBDA i : 0)])
                ELSE IF s >= from.frac THEN Result(err, [to EXCEPT !.frac = s])
                ELSE IF boundary /\ ~inc /\ at < 0 THEN Result(E_DEC_OK, Zero(to))
                ELSE RoundedOff(to, IF frac0 = frac1 THEN b
                                    ELSE Put(b, IF s = 0 /\ intg0 = 0 THEN 1 ELSE intg0 + frac0, LEN - 1, LAMBDA i : 0),
                                at, intg0, frac0, s, err)
    IN  IF cut THEN Round(LEN - intg0, (LEN - intg0) * DIG, E_DEC_TRUNCATED) ELSE Round(wanted, scale, E_DEC_OK)
-------------------------------------------------------------------------------
(* Multiplying by a power of the radix, in place.                           *)

\* Where the digits begin and where they end, counted from the start of the buffer.
digits_bounds(d) ==
    LET words == {i \in 0 .. IntWords(d) + FracWords(d) - 1 : d.buf[i] # 0}
        l == CHOOSE i \in words : \A j \in words : i <= j
        r == CHOOSE i \in words : \A j \in words : j <= i
        first == IF l = 0 /\ d.intg > 0 THEN ((d.intg - 1) % DIG) + 1 ELSE DIG
        behind == IF r = IntWords(d) + FracWords(d) - 1 /\ d.frac > 0 THEN ((d.frac - 1) % DIG) + 1 ELSE DIG
    IN  IF words = {} THEN [beg |-> 0, end |-> 0]
        ELSE [beg |-> (l * DIG) + DIG - first + count_leading_zeroes(first - 1, d.buf[l]),
              end |-> (r * DIG) + behind - count_trailing_zeroes(DIG - behind + 1, d.buf[r])]

\* The words from the one of the digit beg to that of the digit before end.
FirstWord(beg) == ROUND_UP(beg + 1) - 1
LastWord(end) == ROUND_UP(end) - 1

do_mini_left_shift(b, n, beg, end) ==
    LET f == FirstWord(beg)
        c == powers10(DIG - n)
    IN  [i \in DOMAIN b |->
            IF i = f - 1 /\ beg % DIG < n THEN b[f] \div c
            ELSE IF i < f \/ i > LastWord(end) THEN b[i]
            ELSE ((b[i] % c) * powers10(n)) + (IF i < LastWord(end) THEN b[i + 1] \div c ELSE 0)]

do_mini_right_shift(b, n, beg, end) ==
    LET l == LastWord(end)
        c == powers10(DIG - n)
    IN  [i \in DOMAIN b |->
            IF i = l + 1 /\ DIG - (((end - 1) % DIG) + 1) < n THEN (b[l] % powers10(n)) * c
            ELSE IF i < FirstWord(beg) \/ i > l THEN b[i]
            ELSE (b[i] \div powers10(n)) + (IF i > FirstWord(beg) THEN (b[i - 1] % powers10(n)) * c ELSE 0)]

\* Shifts within the words, so that the new point is between two words: to the left when there is room.
Aligned(b, shift, beg, end) ==
    LET rest == IF shift > 0 THEN shift % DIG ELSE (-shift) % DIG
        l == IF shift > 0 THEN rest ELSE DIG - rest
        left == IF shift > 0 THEN l <= beg ELSE (LEN * DIG) - end < DIG - l
    IN  IF rest = 0 THEN [buf |-> b, by |-> 0]
        ELSE IF left THEN [buf |-> do_mini_left_shift(b, l, beg, end), by |-> -l]
        ELSE [buf |-> do_mini_right_shift(b, DIG - l, beg, end), by |-> DIG - l]

\* Moves the words from .. to by n places and leaves zeroes.
Moved(b, from, to, n) ==
    [i \in DOMAIN b |-> IF from + n <= i /\ i <= to + n THEN b[i - n] ELSE IF from <= i /\ i <= to THEN 0 ELSE b[i]]

\* The digits beg .. end - 1 of b with the point at point as a number with int digits before it and frac behind it.
Placed(neg, b, beg, end, point, int, frac) ==
    LET front == point - int
        move == front >= DIG \/ front < 0
        n == IF ~move THEN 0 ELSE IF front > 0 THEN -(front \div DIG) ELSE (1 - front) \div DIG
        moved == Moved(b, FirstWord(beg), LastWord(end), n)
        f == FirstWord(beg + (n * DIG))
        l == LastWord(end + (n * DIG))
        p == IF point + (n * DIG) = 0 THEN 0 ELSE ROUND_UP(point + (n * DIG)) - 1
        filled == IF p > l THEN Put(moved, l + 1, p, LAMBDA i : 0) ELSE Put(moved, p, f - 1, LAMBDA i : 0)
    IN  [neg |-> neg, intg |-> int, frac |-> frac, buf |-> filled]

\* The digits beg .. end - 1 of d by shift places.
Shifted(d, shift, beg, end, point, int, frac, err) ==
    LET Place(a) == IF a.by # 0 /\ shift + a.by = 0 /\ point + shift + a.by - int < DIG
                    THEN Result(err, [d EXCEPT !.buf = a.buf, !.intg = int, !.frac = frac])
                    ELSE Result(err, Placed(d.neg, a.buf, beg + a.by, end + a.by, point + shift + a.by, int, frac))
    IN  IF end <= beg THEN Result(E_DEC_TRUNCATED, Zero(d)) ELSE Place(Aligned(d.buf, shift, beg, end))

\* b: where the digits are.  What does not fit is rounded off first.
ShiftedToFit(d, shift, b, point, int, frac) ==
    LET lack == Larger(ROUND_UP(int) + ROUND_UP(frac) - LEN, 0)
        newfrac == (ROUND_UP(frac) - lack) * DIG
        diff == frac - newfrac
    IN  IF lack = 0 THEN Shifted(d, shift, b.beg, b.end, point, int, frac, E_DEC_OK)
        ELSE IF lack > ROUND_UP(frac) THEN Result(E_DEC_OVERFLOW, d)
        ELSE Shifted(decimal_round(d, TRUE, b.end - point - diff, "HALF_UP").d, shift, b.beg, b.end - diff,
                     point, int, newfrac, E_DEC_TRUNCATED)

decimal_shift(d, shift) ==
    LET point == IntWords(d) * DIG
        Between(b) == IF b.beg = b.end THEN Result(E_DEC_OK, Zero(d))
                      ELSE ShiftedToFit(d, shift, b, point, Larger(point + shift - b.beg, 0), Larger(b.end - point - shift, 0))
    IN  IF shift = 0 THEN Result(E_DEC_OK, d) ELSE Between(digits_bounds(d))
-------------------------------------------------------------------------------
(* Digits, as text has them, and integers of IntBits bits.                   *)

\* n digits before the end of the word at - 1, and n digits from the start of the word at.
DigitsBefore(b, at, n) == [i \in 1 .. n |-> (b[at - 1 - ((n - i) \div DIG)] \div powers10((n - i) % DIG)) % Radix]
DigitsFromEnd(b, at, n) == [i \in 1 .. n |-> (b[at + ((i - 1) \div DIG)] \div powers10((i - 1) % DIG)) % Radix]
DigitsFrom(b, at, n) == [i \in 1 .. n |-> (b[at + ((i - 1) \div DIG)] \div powers10(DIG - 1 - ((i - 1) % DIG))) % Radix]
Filler(n) == [i \in 1 .. n |-> 0]

\* d from the word from, with intg digits before the point; i1 of these and f1 of those behind it fit.
Written(d, b, from, i1, f1, precision, decimals) ==
    LET fixed == precision > 0
        width == IF fixed THEN Larger(precision - decimals, 1) ELSE Larger(i1, 1)
    IN  [neg |-> d.neg,
         int |-> Filler(width - i1) \o DigitsBefore(b, from + ROUND_UP(i1), i1),
         frac |-> IF f1 = 0 THEN <<>>
                  ELSE DigitsFrom(b, from + ROUND_UP(i1), f1) \o Filler(IF fixed THEN decimals - f1 ELSE 0)]

\* precision: digits asked for, with decimals behind the point, or 0; room: what the text may take with its end.
decimal2string(d, room, precision, decimals) ==
    LET Write(b, from, intg) ==
            LET fixed == precision > 0
                sign == IF d.neg THEN 1 ELSE 0
                excess == sign + Larger(intg, 1) + (IF d.frac > 0 THEN d.frac + 1 ELSE 0) - (room - 1)
                j == IF d.frac > 0 /\ excess >= d.frac + 1 THEN excess - 1 ELSE excess  \* the point goes too
                i1 == IF fixed THEN Smaller(intg, precision - decimals)
                      ELSE IF excess > 0 /\ j > d.frac THEN intg - (j - d.frac) ELSE intg
                f1 == IF fixed THEN Smaller(d.frac, decimals)
                      ELSE IF excess > 0 THEN Larger(d.frac - j, 0) ELSE d.frac
            IN  [err |-> IF fixed THEN IF intg > precision - decimals THEN E_DEC_OVERFLOW
                                       ELSE IF d.frac > decimals THEN E_DEC_TRUNCATED ELSE E_DEC_OK
                         ELSE IF excess <= 0 THEN E_DEC_OK
                         ELSE IF d.frac > 0 /\ excess <= d.frac + 1 THEN E_DEC_TRUNCATED ELSE E_DEC_OVERFLOW,
                 text |-> Written(d, b, from, i1, f1, precision, decimals)]
        Lead(lead) == IF lead.intg + d.frac = 0 THEN Write([d.buf EXCEPT ![0] = 0], 0, 1)
                      ELSE Write(d.buf, lead.from, lead.intg)
    IN  Lead(remove_leading_zeroes(d))

\* A digit sequence as a number.
Number(digits) == LET n[i \in 0 .. Len(digits)] == IF i = 0 THEN 0 ELSE (n[i - 1] * Radix) + digits[i] IN n[Len(digits)]
Padded(digits, n) == [i \in 1 .. n |-> IF i <= Len(digits) THEN digits[i] ELSE 0]

ULLONG_MAX == (2 ^ IntBits) - 1
LLONG_MAX == (2 ^ (IntBits - 1)) - 1
LLONG_MIN == -(2 ^ (IntBits - 1))

\* The digits of a text, as far as they fit.
TextDigits(text) ==
    LET fix == FIX_INTG_FRAC_ERROR(ROUND_UP(Len(text.int)), ROUND_UP(Len(text.frac)))
        intg == IF fix.err = E_DEC_OVERFLOW THEN fix.intg * DIG ELSE Len(text.int)
        frac == IF fix.err = E_DEC_OK THEN Len(text.frac) ELSE fix.frac * DIG
        IntWord(i) == LET end == Len(text.int) - ((fix.intg - 1 - i) * DIG)
                      IN  Number(SubSeq(text.int, Larger(end - DIG + 1, 1), end))
        FracWord(k) == Number(Padded(SubSeq(text.frac, (k * DIG) + 1, Smaller((k + 1) * DIG, frac)), DIG))
    IN  Result(fix.err, [neg |-> text.neg, intg |-> intg, frac |-> frac,
                         buf |-> Put(Stale.buf, 0, fix.intg + fix.frac - 1,
                                     LAMBDA i : IF i < fix.intg THEN IntWord(i) ELSE FracWord(i - fix.intg))])

\* The exponent n, as strtoint64 reads it; what the shift returns replaces the error of the digits.
Exponent(r, n) ==
    IF n \notin LLONG_MIN .. ULLONG_MAX THEN Result(E_DEC_BAD_NUM, Zero(r.d))
    ELSE IF n > MaxExp THEN Result(E_DEC_OVERFLOW, Zero(r.d))
    ELSE IF r.err = E_DEC_OVERFLOW THEN r
    ELSE IF n < -(MaxExp + 1) THEN Result(E_DEC_TRUNCATED, Zero(r.d))
    ELSE decimal_shift(r.d, n)

\* text: its sign, its digits, and the set of its exponent, or of none.
internal_str2dec(text) ==
    LET NoNegativeZero(r) == Result(r.err, IF IsZero(r.d) THEN [r.d EXCEPT !.neg = FALSE] ELSE r.d)
        Whole(r) == IF text.exp = {} THEN r ELSE Exponent(r, CHOOSE n \in text.exp : TRUE)
    IN  IF text.int = <<>> /\ text.frac = <<>> THEN Result(E_DEC_BAD_NUM, Zero(Stale))
        ELSE NoNegativeZero(Whole(TextDigits(text)))

Signed(x) == ((x - LLONG_MIN) % (2 ^ IntBits)) + LLONG_MIN

uint64_2dec(x) ==
    LET words == CHOOSE n \in 1 .. IntBits : x < DIG_BASE ^ n /\ (n > 1 => x >= DIG_BASE ^ (n - 1))
        intg1 == Smaller(words, LEN)
    IN  Result(IF words > LEN THEN E_DEC_OVERFLOW ELSE E_DEC_OK,
               [neg |-> FALSE, intg |-> intg1 * DIG, frac |-> 0,
                buf |-> Put(Stale.buf, 0, intg1 - 1, LAMBDA i : (x \div (DIG_BASE ^ (intg1 - 1 - i))) % DIG_BASE)])
int64_2decimal(x) == [uint64_2dec(IF x < 0 THEN -x ELSE x) EXCEPT !.d.neg = x < 0]

\* What lies behind the point is dropped.
Dropped(d) == IF \E i \in IntWords(d) .. IntWords(d) + FracWords(d) - 1 : d.buf[i] # 0 THEN E_DEC_TRUNCATED ELSE E_DEC_OK
OutOfRange == [over |-> TRUE, x |-> 0]

decimal2uint64(d) ==
    LET n[i \in 0 .. IntWords(d)] ==
            IF i = 0 THEN [over |-> FALSE, x |-> 0]
            ELSE IF n[i - 1].over THEN OutOfRange
            ELSE LET y == n[i - 1].x
                     x == ((y * DIG_BASE) + d.buf[i - 1]) % (2 ^ IntBits)
                 IN  IF y > ULLONG_MAX \div DIG_BASE \/ x < y THEN OutOfRange ELSE [over |-> FALSE, x |-> x]
        r == n[IntWords(d)]
    IN  IF d.neg THEN [err |-> E_DEC_OVERFLOW, x |-> 0]
        ELSE IF r.over THEN [err |-> E_DEC_OVERFLOW, x |-> ULLONG_MAX]
        ELSE [err |-> Dropped(d), x |-> r.x]

decimal2int64(d) == \* counts below 0, where there is one number more
    LET n[i \in 0 .. IntWords(d)] ==
            IF i = 0 THEN [over |-> FALSE, x |-> 0]
            ELSE IF n[i - 1].over THEN OutOfRange
            ELSE LET y == n[i - 1].x
                     x == Signed((y * DIG_BASE) - d.buf[i - 1])
                 IN  IF y < CDiv(LLONG_MIN, DIG_BASE) \/ x > y THEN OutOfRange ELSE [over |-> FALSE, x |-> x]
        r == n[IntWords(d)]
    IN  IF r.over THEN [err |-> E_DEC_OVERFLOW, x |-> IF d.neg THEN LLONG_MIN ELSE LLONG_MAX]
        ELSE IF ~d.neg /\ r.x = LLONG_MIN THEN [err |-> E_DEC_OVERFLOW, x |-> LLONG_MAX]
        ELSE [err |-> Dropped(d), x |-> IF d.neg THEN r.x ELSE -r.x]

\* Two words before the point and one behind it, for a time.
decimal2lldiv_t(d) ==
    LET int == IntWords(d)
        quot == IF int = 2 THEN (d.buf[0] * DIG_BASE) + d.buf[1] ELSE IF int = 1 THEN d.buf[0] ELSE 0
        rem == IF FracWords(d) > 0 THEN d.buf[int] ELSE 0
        sign == IF d.neg THEN -1 ELSE 1
    IN  IF int > 2 THEN [err |-> E_DEC_OVERFLOW, quot |-> sign * (DIG_BASE ^ 2), rem |-> 0]
        ELSE [err |-> E_DEC_OK, quot |-> sign * quot, rem |-> sign * rem]
-------------------------------------------------------------------------------
(* The binary format: the digits of a column with precision digits, scale of them behind the point, as bytes that compare like the numbers. *)

\* The bytes that n digits take, with a bit for the sign.
dig2bytes(n) == IF n = 0 THEN 0 ELSE CHOOSE i \in 1 .. n : /\ 2 * powers10(n) <= BYTE ^ i
                                                           /\ i > 1 => 2 * powers10(n) > BYTE ^ (i - 1)
Bytes(digits) == ((digits \div DIG) * dig2bytes(DIG)) + dig2bytes(digits % DIG)
Store(x, n) == [k \in 1 .. n |-> (x \div (BYTE ^ (n - k))) % BYTE]

decimal_size(precision, scale) == ROUND_UP(precision - scale) + ROUND_UP(scale)
decimal_bin_size(precision, scale) == Bytes(precision - scale) + Bytes(scale)

\* Words from .. to - 1 of b, each as a whole word.
StoredWords(b, from, to) ==
    [k \in 1 .. Larger(to - from, 0) * dig2bytes(DIG) |->
        Store(b[from + ((k - 1) \div dig2bytes(DIG))], dig2bytes(DIG))[((k - 1) % dig2bytes(DIG)) + 1]]

\* Every byte of a negative number, and then the first bit, inverted.
Inverted(bytes, neg) == [k \in DOMAIN bytes |-> IF neg THEN BYTE - 1 - bytes[k] ELSE bytes[k]]
FirstBitKept(bytes) == bytes
FirstBit(bytes) == [bytes EXCEPT ![1] = (@ + (BYTE \div 2)) % BYTE]

\* The bytes of i1 digits before the point, from the word from, and of f1 digits behind it.
Packed(d, from, i1, f1, scale) ==
    LET part == i1 % DIG
        words == from + (IF part > 0 THEN 1 ELSE 0)
        last == words + (i1 \div DIG) + (f1 \div DIG)
        \* a digit more when it takes no byte more
        lim == IF f1 \div DIG < scale \div DIG THEN DIG ELSE scale % DIG
        n == CHOOSE m \in f1 % DIG .. Larger(lim, f1 % DIG) :
                /\ \A k \in f1 % DIG .. m - 1 : k < lim /\ dig2bytes(k) = dig2bytes(f1 % DIG)
                /\ m >= lim \/ dig2bytes(m) # dig2bytes(f1 % DIG)
    IN  (IF part > 0 THEN Store(d.buf[from] % powers10(part), dig2bytes(part)) ELSE <<>>)
        \o StoredWords(d.buf, words, last)
        \o (IF f1 % DIG > 0 THEN Store(d.buf[last] \div powers10(DIG - n), dig2bytes(f1 % DIG)) ELSE <<>>)

decimal2bin(d, precision, scale) ==
    LET intg == precision - scale
        cut == Bytes(scale) < Bytes(d.frac)
        more == Bytes(scale) > Bytes(d.frac) /\ d.frac % DIG > 0
        samewords == scale \div DIG = d.frac \div DIG
        f1 == IF cut \/ (more /\ samewords) THEN scale ELSE IF more THEN ROUND_UP(d.frac) * DIG ELSE d.frac
        Filled(bytes) == bytes \o Filler(decimal_bin_size(precision, scale) - Len(bytes))
        Column(err, bytes, neg) == [err |-> err, bytes |-> FirstBit(Inverted(Filled(bytes), neg))]
        Pack(lead) ==
            LET short == Filler(Larger(Bytes(intg) - Bytes(lead.intg), 0))
                err == IF cut THEN E_DEC_TRUNCATED ELSE E_DEC_OK
            IN  IF lead.intg + Bytes(d.frac) = 0 THEN Column(err, <<>>, FALSE)
                ELSE IF intg < lead.intg
                THEN Column(IF cut THEN E_DEC_TRUNCATED ELSE E_DEC_OVERFLOW,
                            Packed(d, lead.from + ROUND_UP(lead.intg) - ROUND_UP(intg), intg, f1, scale), d.neg)
                ELSE Column(err, short \o Packed(d, lead.from, lead.intg, f1, scale), d.neg)
    IN  Pack(remove_leading_zeroes(d))

\* The number in the n bytes behind the first at.
Loaded(bytes, at, n) ==
    LET x[k \in 0 .. n] == IF k = 0 THEN 0 ELSE (x[k - 1] * BYTE) + bytes[at + k] IN x[n]

\* The number with the words w, of which those before the point have i0 digits, and those behind it f0.
FromWords(neg, w, i0, f0, err) ==
    LET bad == \/ i0 % DIG > 0 /\ w[0] >= powers10((i0 % DIG) + 1)
               \/ \E i \in DOMAIN w : (i > 0 \/ i0 % DIG = 0) /\ w[i] > DIG_MAX
        zeroes == CHOOSE z \in 0 .. ROUND_UP(i0) : (\A i \in 0 .. z - 1 : w[i] = 0) /\ (z < ROUND_UP(i0) => w[z] # 0)
        left == IF zeroes = 0 THEN i0 ELSE (ROUND_UP(i0) - zeroes) * DIG
    IN  IF bad THEN Result(E_DEC_BAD_NUM, Zero(Stale))
        ELSE IF left = 0 /\ f0 = 0 THEN Result(err, Zero(Stale))
        ELSE Result(err, [neg |-> neg, intg |-> left, frac |-> f0,
                          buf |-> Put(Stale.buf, 0, ROUND_UP(i0) + ROUND_UP(f0) - zeroes - 1, LAMBDA i : w[i + zeroes])])

bin2decimal(bin, precision, scale) ==
    LET neg == bin[1] < BYTE \div 2
        intg == precision - scale
        fix == FIX_INTG_FRAC_ERROR(ROUND_UP(intg), ROUND_UP(scale))
        \* i0 and f0 digits are read
        Read(bytes, i0, f0) ==
            LET skip == Bytes(intg) - Bytes(i0)
                part == i0 % DIG
                IntWord(i) == IF part = 0 THEN Loaded(bytes, skip + Bytes(i * DIG), dig2bytes(DIG))
                              ELSE IF i = 0 THEN Loaded(bytes, skip, dig2bytes(part))
                              ELSE Loaded(bytes, skip + Bytes(part + ((i - 1) * DIG)), dig2bytes(DIG))
                FracWord(k, digits) == Loaded(bytes, skip + Bytes(i0) + Bytes(k * DIG), dig2bytes(digits)) * powers10(DIG - digits)
                w == [i \in 0 .. ROUND_UP(i0) + ROUND_UP(f0) - 1 |->
                         IF i < ROUND_UP(i0) THEN IntWord(i) ELSE FracWord(i - ROUND_UP(i0), Smaller(DIG, f0 - ((i - ROUND_UP(i0)) * DIG)))]
            IN  FromWords(neg, w, i0, f0, fix.err)
        fewer == fix.err # E_DEC_OK /\ fix.intg < ROUND_UP(intg)
    IN  Read(Inverted(FirstBit(bin), neg),
             IF fewer THEN fix.intg * DIG ELSE intg,
             IF fewer THEN 0 ELSE IF fix.err # E_DEC_OK THEN fix.frac * DIG ELSE scale)
-------------------------------------------------------------------------------
(* my_decimal: what every operation does with a result.                      *)

max_internal_decimal == max_decimal((LEN * DIG) - (2 * (DIG - 1)), 0)

check_overflow(r) == \* leaves a negative zero
    IF r.err = E_DEC_OVERFLOW THEN Result(r.err, [max_internal_decimal EXCEPT !.neg = r.d.neg]) ELSE r

check_result_and_overflow(r) ==
    LET d == IF r.err = E_DEC_OVERFLOW THEN [max_internal_decimal EXCEPT !.neg = r.d.neg] ELSE r.d
    IN  IF r.err # E_DEC_DIV_ZERO /\ IsZero(d) THEN Result(r.err, [d EXCEPT !.neg = FALSE]) ELSE Result(r.err, d)

my_decimal_neg(d) == [d EXCEPT !.neg = IF IsZero(d) THEN FALSE ELSE ~@]

my_decimal2binary(d, precision, scale) ==
    LET actual == [d EXCEPT !.frac = decimal_actual_fraction(d)]
        Truncated(r) == IF r.err = E_DEC_OK THEN [r EXCEPT !.err = E_DEC_TRUNCATED] ELSE r
    IN  IF scale < actual.frac THEN Truncated(decimal2bin(decimal_round(actual, TRUE, scale, "HALF_UP").d, precision, scale))
        ELSE decimal2bin(actual, precision, scale)

my_decimal2int(d, unsigned) ==
    LET rounded == decimal_round(d, FALSE, 0, "HALF_UP").d
    IN  IF unsigned THEN decimal2uint64(rounded) ELSE decimal2int64(rounded)
=============================================================================
