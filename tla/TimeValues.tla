------------------------------ MODULE TimeValues ------------------------------
(***************************************************************************)
(* A MY_TIME that a caller works with: one action per operation of         *)
(* src/src/time.cc.  Every result is the operand of what comes next.       *)
(***************************************************************************)
EXTENDS Time

CONSTANTS Values,    \* the values that come from elsewhere
          Intervals, \* what is added: <<type, interval>>
          Numbers,   \* the numbers that are read: [nr, nano]
          Texts,     \* the texts that are read: [neg, parts]
          Flags,     \* the flags they are read with
          Decimals,  \* the digits behind the point of a column or a text
          MaxCalls   \* bound: operations in a row

VARIABLES val,  \* the value
          last  \* the last operation: what it was given, and what it returned
vars == <<val, last>>

None == [op |-> "none", calls |-> 0]
\* A failed operation leaves a value that its caller does not use.
Computes(op, args, r) ==
    /\ last.calls < MaxCalls
    /\ last' = [op |-> op, from |-> val, args |-> args, err |-> r.err, out |-> r.t, warn |-> r.warn, calls |-> last.calls + 1]
    /\ val' = IF r.err THEN val ELSE r.t
IsTime(t) == t.time_type = "TIME"
\* A date with a month and a day.
IsDate(t) == ~IsTime(t) /\ t.month # 0 /\ t.day # 0
Cut(t, dec) == IF dec < DATETIME_MAX_DECIMALS THEN my_time_trunc(t, dec) ELSE t

Init == val \in Values /\ last = None

Interval(type, iv) == IsDate(val) /\ Computes("interval", [type |-> type, iv |-> iv], date_add_interval(val, type, iv))
Difference(t) ==
    /\ (IsTime(val) /\ IsTime(t)) \/ (IsDate(val) /\ IsDate(t))
    /\ LET d == calc_time_diff(val, t, 1)
       IN  Computes("difference", [t |-> t, diff |-> d], Done(val, {}))
Mixed(t) ==
    /\ val.time_type = "DATE" /\ IsDate(val) /\ val.year \in 1970 .. 9998  \* the date of today
    /\ IsTime(t)
    /\ Computes("mix", t, Done(mix_date_and_time(val, t), {}))
RoundedTo(dec) ==
    /\ dec < DATETIME_MAX_DECIMALS
    /\ Computes("round", dec, IF IsTime(val) THEN my_time_round(val, dec) ELSE my_datetime_round(val, dec))

\* A number, read as what val is.
AsRead(op, args, nr, nano, flags) ==
    Computes(op, args, IF IsTime(val) THEN lldiv_t_to_time(nr, nano) ELSE lldiv_t_to_datetime(nr, nano, flags))
\* A number of a date and a time is read as one by lldiv_t_to_time too, which would round 23:59:59.9999995 to 24:00:00 of the same day: the README says so.
ReadNumber(n, flags) ==
    /\ (IsTime(val) /\ n.nr.high >= 10000) => n.nano % 1000 < 500
    /\ AsRead("read number", [n |-> n, flags |-> flags], n.nr, n.nano, flags)
AsNumber ==
    LET nr == IF IsTime(val) THEN Number(val.neg, 0, TIME_to_uint64_time(val))
              ELSE IF val.time_type = "DATE" THEN Number(FALSE, TIME_to_uint64_date(val) \div 1000000, TIME_to_uint64_date(val) % 1000000)
              ELSE TIME_to_uint64_datetime(val)
    IN  AsRead("number", 0, nr, 0, {})
AsRoundedNumber ==
    LET nr == IF IsTime(val) THEN Number(val.neg, 0, TIME_to_uint64_time_round(val)) ELSE TIME_to_uint64_datetime_round(val)
    IN  val.time_type # "DATE" /\ AsRead("rounded number", 0, nr, 0, {})
\* my_decimal_to_datetime for a date. The decimal made of the value is read back as the number and the nanoseconds it was made of: what MyDecimal says of lldiv_t2my_decimal and my_decimal2lldiv_t.
my_decimal_to_time ==
    LET d == IF IsTime(val) THEN time2my_decimal(val) ELSE date2my_decimal(val) IN AsRead("decimal", 0, d.nr, d.nano, {})

ReadText(s, flags) ==
    Computes("read text", [text |-> s, flags |-> flags],
             IF IsTime(val) THEN str_to_time(s.neg, s.parts, flags) ELSE str_to_datetime(s.parts, flags))
AsText(dec) ==
    LET text == TIME_to_str(val, dec)
    IN  Computes("text", dec, IF IsTime(val) THEN str_to_time(val.neg, text, {}) ELSE str_to_datetime(text, {}))

\* The bytes of t in a column, and what a reader makes of them.
Column(t, dec) ==
    LET p == TIME_to_longlong_packed(t)
    IN  IF t.time_type = "TIME" THEN my_time_packed_to_binary(p, dec) ELSE my_datetime_packed_to_binary(p, dec)
FromColumn(b, type, dec) ==
    CASE type = "TIME" -> TIME_from_longlong_time_packed(my_time_packed_from_binary(b, dec))
      [] type = "DATETIME" -> TIME_from_longlong_datetime_packed(my_datetime_packed_from_binary(b, dec))
      [] type = "DATE" -> TIME_from_longlong_date_packed(my_datetime_packed_from_binary(b, dec))
\* The value being stored must have been properly rounded or truncated.
Stored(dec) == /\ val = Cut(val, dec)
               /\ Computes("store", [dec |-> dec, bytes |-> Column(val, dec), back |-> FromColumn(Column(val, dec), val.time_type, dec)],
                           Done(val, {}))
StoredTimestamp(tv, dec) ==  \* rounded or truncated too
    Computes("timestamp", [tv |-> tv, dec |-> dec, back |-> my_timestamp_from_binary(my_timestamp_to_binary(tv, dec), dec)], Done(val, {}))

Arithmetic == \/ \E i \in Intervals : Interval(i[1], i[2])
              \/ \E t \in Values : Difference(t)
              \/ \E t \in Values : Mixed(t)
              \/ \E dec \in Decimals : RoundedTo(dec)
\* What is read does not depend on the value before it.
Reading == /\ last.calls = 0
           /\ \/ \E n \in Numbers, flags \in Flags : ReadNumber(n, flags)
              \/ \E s \in Texts, flags \in Flags : ReadText(s, flags)
Conversion == \/ AsNumber \/ AsRoundedNumber \/ my_decimal_to_time
              \/ \E dec \in Decimals : AsText(dec) \/ Stored(dec)
              \/ \E dec \in Decimals, t \in Values : StoredTimestamp([sec |-> t.year, usec |-> Cut(t, dec).second_part], dec)
Next == Arithmetic \/ Reading \/ Conversion
Spec == Init /\ [][Next]_vars
-------------------------------------------------------------------------------
(* What the operations promise, in terms of a calendar of its own: an        *)
(* instant is a number of days, seconds of the day and microseconds.        *)

Leap(year) == year > 0 /\ (year % 400 = 0 \/ (year % 4 = 0 /\ year % 100 # 0))
MonthLength(year, month) == IF month = 2 THEN IF Leap(year) THEN 29 ELSE 28 ELSE IF month \in {4, 6, 9, 11} THEN 30 ELSE 31
\* Days up to this one, the first of January 0000 being the first.
DayNumber(t) ==
    LET y == IF t.year = 0 THEN 0 ELSE t.year - 1
        before[m \in 1 .. 12] == IF m = 1 THEN 0 ELSE before[m - 1] + MonthLength(t.year, m - 1)
    IN  (t.year * 365) + (y \div 4) - (y \div 100) + (y \div 400) + before[t.month] + t.day
Later(days, sec, micro) == \* an instant, with the carries done
    LET s == sec + (micro \div 1000000)
    IN  <<days + (s \div SECONDS_IN_24H), s % SECONDS_IN_24H, micro % 1000000>>
SecondOfDay(t) == (t.hour * 3600) + (t.minute * 60) + t.second
\* The instant that is by (days, sec, micro) behind t, the start of a TIME being 0.
Behind(t, days, sec, micro) ==
    Later((IF t.time_type = "TIME" THEN t.day ELSE DayNumber(t)) + days, SecondOfDay(t) + sec, t.second_part + micro)
Instant(t) == Behind(t, 0, 0, 0)
Exists(t) == /\ t.year \in 0 .. 9999 /\ t.month \in 1 .. 12 /\ t.day \in 1 .. MonthLength(t.year, t.month)
             /\ t.hour \in 0 .. 23 /\ t.minute \in 0 .. 59 /\ t.second \in 0 .. 59 /\ t.second_part \in 0 .. 999999
FirstDay == 366  \* of the year 1: there is no date before it
LastDay == 3652424

\* The value is one that its type has: a date that exists, or parts of one where the flags allow it, or a time of at most 838:59:59. Whatever the order of operations, no result is a day that the calendar does not have (time.cc: check_date, get_date_from_daynr, date_add_interval, adjust_time_range).
ValueExists ==
    CASE val.time_type = "TIME" ->
            /\ val.year = 0 /\ val.month = 0 /\ val.day = 0 /\ val.minute \in 0 .. 59 /\ val.second \in 0 .. 59
            /\ <<val.hour, val.minute, val.second, val.second_part>> = <<838, 59, 59, 0>> \/
               (val.second_part \in 0 .. 999999 /\ SecondOfDay(val) < (838 * 3600) + 3599)
      [] OTHER -> Exists(val) \/ (~IsDate(val) /\ Exists([val EXCEPT !.month = 1, !.day = 1]) /\ val.month <= 12 /\ val.day <= 31)

\* Intervals, differences and the time of a date are what a calendar says, over the ends of months, leap years and centuries; an interval fails only when it leads out of the years 0 to 9999 (date_add_interval, calc_time_diff, mix_date_and_time).
IntervalsAreExact ==
    LET a == last.from
        iv == last.args.iv
        s == IF iv.neg THEN -1 ELSE 1
        to == IF last.args.type = "SECOND"
              THEN Behind(a, s * iv.day, s * ((iv.hour * 3600) + (iv.minute * 60) + iv.second), s * iv.second_part)
              ELSE Behind(a, s * iv.day, 0, 0)
        months == (a.year * 12) + a.month - 1 + (s * (IF last.args.type = "YEAR" THEN iv.year * 12 ELSE (iv.year * 12) + iv.month))
        d == last.args.diff
        p == IF d.neg THEN -1 ELSE 1
    IN  /\ (last.op = "interval" /\ last.args.type \in {"SECOND", "DAY"}) =>
            /\ last.err <=> to[1] \notin 0 .. LastDay
            /\ to[1] \in FirstDay .. LastDay => Exists(val) /\ Instant(val) = to
        /\ (last.op = "interval" /\ last.args.type \in {"YEAR", "MONTH"}) =>
            /\ last.err <=> months \notin 0 .. 119999
            /\ ~last.err => /\ val.year = months \div 12 /\ val.month = (months % 12) + 1
                            /\ val.day = (IF a.day > MonthLength(val.year, val.month) THEN MonthLength(val.year, val.month) ELSE a.day)
                            /\ SecondOfDay(val) = SecondOfDay(a) /\ val.second_part = a.second_part
        /\ last.op = "difference" => \* what is added to t gives a
            Behind(last.args.t, p * d.days, p * d.sec, p * d.micro) = Instant(a)
        /\ last.op = "mix" =>
            LET t == last.args
                n == IF t.neg THEN -1 ELSE 1
            IN  Instant(val) = Behind(a, 0, n * SecondOfDay(t), n * t.second_part)

\* A rounded value is the nearest one with as many digits, with all the carries, and a TIME stays below its largest. Of dates: those from the year 1000, which a number can say, and results that have a month and a day (my_time_round, my_datetime_round, TIME_to_uint64_time_round).
RoundingIsRight ==
    LET a == last.from
        unit == IF last.op = "round" THEN 10 ^ (6 - last.args) ELSE 1000000
        to == Behind(a, 0, 0, (((a.second_part + (unit \div 2)) \div unit) * unit) - a.second_part)
        max == <<34, 22 * 3600 + 3599, 0>>
    IN  (last.op \in {"round", "rounded number"} /\ (IsTime(val) \/ (IsDate(val) /\ a.year >= 1000))) =>
            IF IsTime(val) THEN Instant(val) = (IF to[1] = 34 /\ to[2] > max[2] THEN max ELSE to) /\ (val.neg => a.neg)
            ELSE IF to[1] > LastDay THEN last.op = "round" => last.err  \* a rounded number is wrong then: see the README
            ELSE ~last.err /\ Instant(val) = to

\* A TIME of -00:00:00, which rounding leaves, is 00:00:00.
Normal(t) == [t EXCEPT !.neg = @ /\ <<t.hour, t.minute, t.second, t.second_part>> # <<0, 0, 0, 0>>]

\* The digits of dates: a year of two digits is one from 1970 to 2069.
YearOf(year, digits) == IF digits = 2 THEN CHOOSE y \in 1970 .. 2069 : y % 100 = year ELSE year
Written(year, month, day, h, i, s, nano) ==
    [t |-> [set_zero_time("DATETIME") EXCEPT !.year = year, !.month = month, !.day = day, !.hour = h, !.minute = i, !.second = s],
     nano |-> nano]
\* Six or eight digits of a date, and six of a time if there are more than eight.
OfNumber(n) ==
    LET d == IF n.nr.high > 100 THEN n.nr.high ELSE (n.nr.high * 1000000) + n.nr.low
        s == IF n.nr.high > 100 THEN n.nr.low ELSE 0
    IN  Written(YearOf(d \div 10000, IF d < 1000000 THEN 2 ELSE 4), (d \div 100) % 100, d % 100, s \div 10000, (s \div 100) % 100, s % 100, n.nano)
\* Parts with separators, or the digits of a number.
OfText(parts) ==
    LET digits == parts[1].digits
        y == IF parts[1].after = "-" THEN Len(digits) ELSE IF Len(digits) \in {6, 12} THEN 2 ELSE 4
        F(i) == IF parts[1].after = "-" THEN IF i < Len(parts) THEN Value(parts[i + 1].digits) ELSE 0
                ELSE IF i = 0 THEN Value(SubSeq(digits, 1, y))
                ELSE IF Len(digits) < y + (2 * i) THEN 0 ELSE Value(SubSeq(digits, y + (2 * i) - 1, y + (2 * i)))
        nano(p) == [k \in 1 .. 9 |-> IF k <= Len(parts[p].digits) THEN parts[p].digits[k] ELSE 0]
    IN  Written(YearOf(F(0), y), F(1), F(2), F(3), F(4), F(5),
                IF \E p \in DOMAIN parts : parts[p].after = "." THEN Value(nano((CHOOSE p \in DOMAIN parts : parts[p].after = ".") + 1)) ELSE 0)
\* val is what w says, to the nearest microsecond; the flag that says so leaves the rounding to the caller (and a fraction of a number out).
IsWritten(w) ==
    LET exact == "NO_NSEC_ROUNDING" \in last.args.flags /\ ~IsTime(last.from)
        micro == IF val.time_type = "DATE" THEN 0
                 ELSE IF ~exact THEN (w.nano + 500) \div 1000 ELSE IF last.op = "read text" THEN w.nano \div 1000 ELSE 0
    IN  IF IsDate(val) THEN Instant(val) = Behind(w.t, 0, 0, micro) ELSE On(w.t, val) = w.t
\* A value survives being a number, a decimal, a text or the bytes of a column, but for the digits that these do not have, and a date before the year 1000 as a number. A number or a text of a date is read as its digits say, to the nearest microsecond, and a year of two of them is one from 1970 to 2069 (time.cc: number_to_datetime, str_to_datetime, str_to_time, TIME_to_str, time2my_decimal).
ConversionsReadBack ==
    LET a == last.from
        dated == a.time_type = "TIME" \/ (a.month # 0 /\ a.day # 0)
        Same(t) == ~last.err /\ Normal(last.out) = Normal(t)
    IN  /\ (last.op = "number" /\ dated /\ (a.time_type = "TIME" \/ a.year >= 1000)) => Same(Cut(a, 0))
        /\ (last.op = "decimal" /\ dated /\ (a.time_type = "TIME" \/ a.year >= 1000)) => Same(a)
        /\ (last.op = "text" /\ dated) => Same(IF a.time_type = "DATE" THEN a ELSE Cut(a, last.args))
        /\ (last.op = "read number" /\ ~last.err /\ ~IsTime(val) /\ val # set_zero_time("DATETIME")) => IsWritten(OfNumber(last.args.n))
        /\ (last.op = "read text" /\ ~last.err /\ ~IsTime(val)) => IsWritten(OfText(last.args.text.parts))
        /\ last.op = "timestamp" => last.args.back = last.args.tv

Before(x, y) == \E k \in DOMAIN x : x[k] < y[k] /\ \A j \in 1 .. k - 1 : x[j] = y[j]
TimeBefore(t, u) == IF t.neg # u.neg THEN t.neg ELSE IF t.neg THEN Before(Instant(u), Instant(t)) ELSE Before(Instant(t), Instant(u))
\* The bytes of a column read back as the value that was stored and compare like the values do, negative ones too (time.cc 1790-2120).
BytesSortLikeTimes ==
    last.op = "store" =>
        LET a == last.from
            dec == last.args.dec
        IN  /\ ~(a.neg /\ a.second_part # 0 /\ dec \in {1, 2}) => Normal(last.args.back) = Normal(a)  \* see the README
            /\ \A t \in Values :
                (t.time_type = a.time_type /\ (IsTime(t) \/ (IsDate(a) /\ IsDate(t)))) =>
                    (TimeBefore(Normal(a), Normal(Cut(t, dec))) <=> Before(last.args.bytes, Column(Cut(t, dec), dec)))
=============================================================================
