------------------------------ MODULE MyDecimal ------------------------------
(***************************************************************************)
(* A my_decimal (src/include/lf/my_decimal.hh, src/src/my_decimal.cc) that *)
(* a caller computes with: one action per operation.  Every result is the  *)
(* operand of what comes next, so the operations meet the numbers that     *)
(* others leave behind, and not only those a programmer writes down.       *)
(***************************************************************************)
EXTENDS Decimal

CONSTANTS Operands,   \* the numbers that come from elsewhere
          Texts,      \* the texts that are read
          Numbers,    \* the integers that are converted
          Columns,    \* the columns that numbers are stored in: <<precision, scale>>
          Scales,     \* what is rounded to
          Increments, \* what a division adds to the digits behind the point
          TimeDigits, \* the digits of a part of a second: 6 of DIG_PER_DEC1
          MaxCalls    \* bound: operations in a row

VARIABLES val,  \* the number
          last  \* the last operation: what it was given, and what it returned
vars == <<val, last>>

None == [op |-> "none", calls |-> 0]
\* Operations that leave a number in val, and those that only read it.
Returns(op, args, err, out) ==
    /\ last.calls < MaxCalls
    /\ last' = [op |-> op, from |-> val, args |-> args, err |-> err, out |-> out, calls |-> last.calls + 1]
Computes(op, args, r) == /\ Returns(op, args, r.err, 0)
                         /\ val' = IF r.err = E_DEC_DIV_ZERO THEN val ELSE r.d
Reads(op, args, err, out) == Returns(op, args, err, out) /\ UNCHANGED val

Init == val \in Operands /\ last = None

my_decimal_add(b) == Computes("add", b, check_result_and_overflow(decimal_add(val, b)))
my_decimal_sub(b) == Computes("sub", b, check_result_and_overflow(decimal_sub(val, b)))
my_decimal_mul(b) == Computes("mul", b, check_result_and_overflow(decimal_mul(val, b)))
my_decimal_div(b, incr) == Computes("div", b, check_result_and_overflow(decimal_div(val, b, incr)))
my_decimal_mod(b) == Computes("mod", b, check_result_and_overflow(decimal_mod(val, b)))
my_decimal_cmp(b) == Reads("cmp", b, E_DEC_OK, decimal_cmp(val, b))
Negate == Computes("neg", 0, Result(E_DEC_OK, my_decimal_neg(val)))

my_decimal_round(scale, truncate) ==
    Computes("round", [scale |-> scale, mode |-> IF truncate THEN "TRUNCATE" ELSE "HALF_UP"],
             decimal_round(val, FALSE, scale, IF truncate THEN "TRUNCATE" ELSE "HALF_UP"))
my_decimal_floor == Computes("round", [scale |-> 0, mode |-> "FLOOR"], decimal_round(val, FALSE, 0, "FLOOR"))
my_decimal_ceiling == Computes("round", [scale |-> 0, mode |-> "CEILING"], decimal_round(val, FALSE, 0, "CEILING"))

str2my_decimal(text) == Computes("read", text, check_result_and_overflow(internal_str2dec(text)))

\* The sign, the digits and the point, and the end of the string.
decimal_string_size(d) == (IF d.intg = 0 THEN 1 ELSE d.intg) + d.frac + (IF d.frac > 0 THEN 1 ELSE 0) + 2
my_decimal2string == LET Writes(t) == Reads("write", 0, t.err, t.text) IN Writes(decimal2string(val, decimal_string_size(val), 0, 0))

int2my_decimal(x, unsigned) == Computes("from int", x, IF unsigned THEN uint64_2dec(x) ELSE int64_2decimal(x))
ToInt(unsigned) == LET Converts(r) == Reads("to int", unsigned, r.err, r.x) IN Converts(my_decimal2int(val, unsigned))

\* Stores the number in a column and reads it again.
Stored(column) ==
    LET Reload(b, r) ==
            /\ Returns("store", column, IF b.err = E_DEC_OK THEN r.err ELSE b.err, b.bytes)
            /\ val' = IF b.err = E_DEC_OVERFLOW THEN val ELSE r.d  \* the bytes are not used
        Keep(b) == Reload(b, bin2decimal(b.bytes, column[1], column[2]))
    IN  Keep(my_decimal2binary(val, column[1], column[2]))

\* A number as whole seconds and parts of one, and back.
lldiv_t2my_decimal(quot, rem, neg) ==
    LET d == int64_2decimal(quot).d
        s == IF rem = 0 THEN d ELSE [d EXCEPT !.buf[((d.intg - 1) \div DIG) + 1] = rem, !.frac = TimeDigits]
    IN  Computes("from time", [quot |-> quot, rem |-> rem, neg |-> neg], Result(E_DEC_OK, IF neg THEN my_decimal_neg(s) ELSE s))
my_decimal2lldiv_t == LET r == decimal2lldiv_t(val) IN Reads("to time", 0, r.err, r)

Arithmetic == \E b \in Operands : \/ my_decimal_add(b) \/ my_decimal_sub(b) \/ my_decimal_mul(b) \/ my_decimal_mod(b)
                                  \/ \E incr \in Increments : my_decimal_div(b, incr)
                                  \/ my_decimal_cmp(b)
Rounding == \/ \E scale \in Scales, truncate \in BOOLEAN : my_decimal_round(scale, truncate)
            \/ my_decimal_floor \/ my_decimal_ceiling
Conversion == \/ \E text \in Texts : str2my_decimal(text)
              \/ my_decimal2string
              \/ \E x \in Numbers : int2my_decimal(x, x > LLONG_MAX)
              \/ \E unsigned \in BOOLEAN : ToInt(unsigned)
              \/ \E column \in Columns : Stored(column)
              \/ \E quot \in {0, 1, DIG_BASE}, rem \in {0, powers10(DIG - TimeDigits)}, neg \in BOOLEAN : lldiv_t2my_decimal(quot, rem, neg)
              \/ my_decimal2lldiv_t
Next == Arithmetic \/ Negate \/ Rounding \/ Conversion
Spec == Init /\ [][Next]_vars
-------------------------------------------------------------------------------
(* What the operations promise.  A number as an integer: DIG_BASE ^ LEN is one. *)

One == DIG_BASE ^ LEN
Magnitude(d) ==
    LET n[i \in 0 .. 2 * LEN] == IF i = 0 THEN 0 ELSE (n[i - 1] * DIG_BASE) + Word(d, LEN - i) IN n[2 * LEN]
Amount(d) == IF d.neg THEN -Magnitude(d) ELSE Magnitude(d)
\* The last word, and the last digit, behind the point of d.
WordUnit(d) == One \div (DIG_BASE ^ FracWords(d))
DigitUnit(d) == powers10((LEN * DIG) - d.frac)
Magn(x) == IF x < 0 THEN -x ELSE x
Tidy(d) == IntWords(d) = 0 \/ d.buf[0] # 0

\* No digits behind those that frac counts: decimal_mul cuts frac and leaves such digits in the last word.
Clean(d) == Magnitude(d) % DigitUnit(d) = 0

\* The number may be used: its words fit the buffer and are words, the first is not longer than intg says, and it is no negative zero. (decimal.cc: conventions, my_decimal.hh 168-177)
WellFormed ==
    /\ val.intg >= 0 /\ val.frac >= 0
    /\ IntWords(val) + FracWords(val) <= LEN
    /\ \A i \in Places : val.buf[i] \in 0 .. DIG_MAX
    /\ val.intg % DIG > 0 => val.buf[0] < powers10(val.intg % DIG)
    /\ val.neg => ~IsZero(val)

Sum == Amount(last.from) + (IF last.op = "add" THEN 1 ELSE -1) * Amount(last.args)
\* A factor in units of its last word, and a product in the units of the last words of both.
InWords(d) == Magnitude(d) \div WordUnit(d)
Product == InWords(last.from) * InWords(last.args)
\* What the factors a and b may lose of their product when half of the words that do not fit is left out of each.
Lost(a, b) ==
    LET words == FracWords(a) + FracWords(b) + ROUND_UP(a.intg + b.intg) - LEN
    IN  (DIG_BASE ^ ((words + 1) \div 2) - 1) * (InWords(a) + InWords(b))
\* x * Radix ^ k divided by y, towards 0.
Quotient(x, y, k) ==
    LET q[i \in 0 .. k] == IF i = 0 THEN [q |-> x \div y, r |-> x % y]
                           ELSE [q |-> (q[i - 1].q * Radix) + ((q[i - 1].r * Radix) \div y), r |-> (q[i - 1].r * Radix) % y]
    IN  q[k].q
Largest == Magnitude(max_internal_decimal)

SumIsExact ==
    CASE last.err = E_DEC_OK -> Amount(val) = Sum
      [] last.err = E_DEC_TRUNCATED -> Magn(Amount(val) - Sum) < 2 * WordUnit(val)
      [] last.err = E_DEC_OVERFLOW -> Magn(Sum) > Largest

ProductIsExact ==
    LET a == last.from
        b == last.args
        unit == DIG_BASE ^ (FracWords(a) + FracWords(b) - FracWords(val))  \* the last word of val
    IN  /\ (last.err # E_DEC_OVERFLOW /\ ~IsZero(val)) => val.neg = (a.neg # b.neg)
        /\ CASE last.err = E_DEC_OK -> InWords(val) = Product \div unit
             [] last.err = E_DEC_TRUNCATED -> LET missed == Product - (InWords(val) * unit)
                                              IN  0 <= missed /\ missed < unit + Lost(a, b)
             [] last.err = E_DEC_OVERFLOW ->
                    (Tidy(a) /\ Tidy(b)) => Product \div (DIG_BASE ^ (FracWords(a) + FracWords(b))) > Largest \div One

\* The quotient and the remainder of whole numbers; a quotient is cut at the last digit of val.
QuotientIsExact ==
    LET a == last.from
        b == last.args
        sign == IF a.neg THEN -1 ELSE 1
    IN  IF IsZero(b) THEN last.err = E_DEC_DIV_ZERO
        ELSE IF last.op = "mod"
        THEN CASE last.err = E_DEC_OK -> Amount(val) = sign * (Magnitude(a) % Magnitude(b))
               [] last.err = E_DEC_TRUNCATED ->
                      LET missed == (Magnitude(a) % Magnitude(b)) - (sign * Amount(val)) IN 0 <= missed /\ missed < WordUnit(val)
        ELSE /\ ~IsZero(val) => val.neg = (a.neg # b.neg)
             /\ CASE last.err \in {E_DEC_OK, E_DEC_TRUNCATED} ->
                         Magnitude(val) = Quotient(Magnitude(a), Magnitude(b), val.frac) * DigitUnit(val)
                  [] last.err = E_DEC_OVERFLOW -> Magnitude(a) \div Magnitude(b) > Largest \div One

\* decimal_add, decimal_sub, decimal_mul, decimal_div, decimal_mod and decimal_cmp are exact when they return E_DEC_OK, with the sign of the exact result (an overflow may lose it). When they return E_DEC_TRUNCATED a sum misses at most the words that were cut off, a product what the words left out of its factors could add, a quotient the digits behind its last, and a remainder less than its last word. They report an overflow only of a result my_decimal does not guarantee (for a product: of factors without leading words of zeroes), and a division by zero only when there is one (decimal.cc 1981-2735, my_decimal.hh 26-33).
ArithmeticIsExact ==
    /\ last.op \in {"add", "sub"} => SumIsExact
    /\ last.op = "mul" => ProductIsExact
    /\ last.op \in {"div", "mod"} => QuotientIsExact
    /\ last.op = "cmp" => last.out = (IF Amount(last.from) < Amount(last.args) THEN -1
                                      ELSE IF Amount(last.from) > Amount(last.args) THEN 1 ELSE 0)

\* What is rounded at the digit unit, in the four modes that callers use.
Rounded(d, unit, mode) ==
    LET q == Magnitude(d) \div unit
        r == Magnitude(d) % unit
        away == \/ mode = "HALF_UP" /\ 2 * r >= unit
                \/ mode = "CEILING" /\ ~d.neg /\ r > 0
                \/ mode = "FLOOR" /\ d.neg /\ r > 0
    IN  (IF d.neg THEN -1 ELSE 1) * unit * (IF away THEN q + 1 ELSE q)

\* Rounding is to the nearest, or towards the side asked for, whatever words the digit and its carry are in. When there is no room for the digits asked for, or the carry pushes the last word out of the buffer, the number is rounded at the digits that are left (E_DEC_TRUNCATED); E_DEC_OVERFLOW only if the rounded number has no room at all (decimal.cc 1720-1948).
RoundingIsRight ==
    LET RoundedAt(unit) == Rounded(last.from, unit, last.args.mode)
        asked == powers10((LEN * DIG) - last.args.scale)
    IN  (last.op = "round" /\ Clean(last.from)) =>
            CASE last.err = E_DEC_OK -> Amount(val) = RoundedAt(asked)
              [] last.err = E_DEC_TRUNCATED -> val.frac <= last.args.scale /\ Amount(val) = RoundedAt(DigitUnit(val))
              [] last.err = E_DEC_OVERFLOW -> Magn(RoundedAt(asked)) > Largest

\* A written text as a number, one being Radix ^ n.
TextAmount(t, n) == (IF t.neg THEN -1 ELSE 1) * ((Number(t.int) * powers10(n)) + Number(Padded(t.frac, n)))

\* What was read from the text t with the exponent n, and what its digits say, in one unit. The digits behind the point that find no room are lost, also when the shift would make room for them; the shift may round once more, and goes wrong when the digits begin with Radix - 1 and the rounding carries (decimal.cc 738), which is left out here.
TextIsRead(t, n) ==
    LET s == (LEN * DIG) + n - Len(t.frac)
        read == Amount(val) * powers10(Larger(-s, 0))
        written == (IF t.neg THEN -1 ELSE 1) * Number(t.int \o t.frac) * powers10(Larger(s, 0))
        lost == Larger(Len(t.frac) - ((LEN - ROUND_UP(Len(t.int))) * DIG), 0)
        cut == IF lost = 0 THEN 0 ELSE powers10(Larger(s, 0) + lost)
        rounded == (IF IsZero(val) THEN 1 ELSE WordUnit(val)) * powers10(Larger(-s, 0))
        digits == t.int \o t.frac
        first == CHOOSE i \in DOMAIN digits : digits[i] # 0 /\ \A j \in 1 .. i - 1 : digits[j] = 0
        size == Len(t.int) + n - (first - 1)   \* the digits before the point
    IN  CASE last.err = E_DEC_OK -> Magn(read - written) <= Larger(cut - 1, 0)
          [] last.err = E_DEC_TRUNCATED /\ t.exp = {} -> Magn(read - written) < cut
          [] last.err = E_DEC_TRUNCATED /\ t.exp # {} ->
                 IF n < -(MaxExp + 1) \/ Number(digits) = 0 THEN IsZero(val) ELSE (digits[first] < Radix - 1 => Magn(read - written) < cut + rounded)
          [] last.err = E_DEC_OVERFLOW ->
                 Number(digits) # 0 => Larger(Len(t.int), size) > LEN * DIG
          [] last.err = E_DEC_BAD_NUM -> IsZero(val)

\* What is written can be read: a text is read as the number its digits and its exponent say, but for the digits that find no room; a written number is cut at its last digit; an integer out of range is the nearest one there is, a column gives back what fits it, rounded, and a number of seconds loses no more than the words behind the first after the point. What is lost of a text is not always reported: with an exponent the text is read with E_DEC_OK when the shift loses nothing more (decimal.cc 1046), and a text that overflows may lose its sign.
ConversionsReadBack ==
    LET a == last.from
        whole == Rounded(a, One, "HALF_UP") \div One
        lo == IF last.args = TRUE THEN 0 ELSE LLONG_MIN
        hi == IF last.args = TRUE THEN ULLONG_MAX ELSE LLONG_MAX
    IN  /\ last.op = "write" => /\ last.err = E_DEC_OK
                                /\ TextAmount(last.out, a.frac) = (IF a.neg THEN -1 ELSE 1) * (Magnitude(a) \div DigitUnit(a))
        /\ last.op = "read" => TextIsRead(last.args, IF last.args.exp = {} THEN 0 ELSE CHOOSE n \in last.args.exp : TRUE)
        /\ last.op = "from int" => Amount(val) = last.args * One
        /\ last.op = "to int" => last.out = (IF whole < lo THEN lo ELSE IF whole > hi THEN hi ELSE whole)
        /\ (last.op = "store" /\ last.err \in {E_DEC_OK, E_DEC_TRUNCATED} /\ Clean(a)) =>
            Amount(val) = Rounded(a, powers10((LEN * DIG) - last.args[2]), "HALF_UP")
        /\ last.op = "from time" => Magn(Amount(val)) = (last.args.quot * One) + ((last.args.rem * One) \div DIG_BASE)
        /\ last.op = "to time" =>
            CASE last.err = E_DEC_OK -> (last.out.quot * DIG_BASE) + last.out.rem = (IF a.neg THEN -1 ELSE 1) * ((Magnitude(a) * DIG_BASE) \div One)
              [] last.err = E_DEC_OVERFLOW -> Tidy(a) => Magnitude(a) \div One >= DIG_BASE ^ 2

Before(x, y) == \E k \in DOMAIN x : x[k] < y[k] /\ \A j \in 1 .. k - 1 : x[j] = y[j]
\* The bytes of a column compare like the numbers in it (decimal.cc 1308-1331).
BytesCompareLikeNumbers ==
    LET Agrees(r) == r.err # E_DEC_OVERFLOW =>
            (Before(last.out, r.bytes) <=> decimal_cmp(val, bin2decimal(r.bytes, last.args[1], last.args[2]).d) < 0)
    IN  (last.op = "store" /\ last.err # E_DEC_OVERFLOW) =>
            \A b \in Operands : Agrees(my_decimal2binary(b, last.args[1], last.args[2]))
=============================================================================
