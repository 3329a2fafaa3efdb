--------------------------------- MODULE Time ---------------------------------
(***************************************************************************)
(* The MY_TIME values of src/src/time.cc and src/include/lf/time.hh: the   *)
(* calendar, intervals, rounding, numbers, texts and the packed formats.   *)
(*                                                                         *)
(* A value is a record with the fields of MY_TIME; flags and warnings are  *)
(* sets.  An operation returns r.err, the value it leaves in r.t and the   *)
(* warnings in r.warn: what a failed one leaves matters, for some callers  *)
(* go on with it.  Numbers too wide for one integer of TLC are split where *)
(* the code splits them: a number YYYYMMDDHHMMSS into its date and its     *)
(* time, a packed value into ymd, hms and microseconds.                    *)
(***************************************************************************)
EXTENDS Integers, Sequences, FiniteSets

CONSTANT UINT32  \* the values of a uint32_t: 2 ^ 32
ASSUME Uint32Assumption == UINT32 \in Nat /\ UINT32 > 999999

TIME_MAX_HOUR == 838
DATETIME_MAX_DECIMALS == 6
YY_PART_YEAR == 70
MAX_DAY_NUMBER == 3652424
SECONDS_IN_24H == 86400
log_10_int(n) == 10 ^ n
days_in_month == <<31, 28, 31, 30, 31, 30, 31, 31, 30, 31, 30, 31>>

Done(t, warn) == [err |-> FALSE, t |-> t, warn |-> warn]
Failed(t, warn) == [err |-> TRUE, t |-> t, warn |-> warn]

set_zero_time(type) ==
    [year |-> 0, month |-> 0, day |-> 0, hour |-> 0, minute |-> 0, second |-> 0, second_part |-> 0,
     neg |-> FALSE, time_type |-> type]
non_zero_date(t) == t.year # 0 \/ t.month # 0 \/ t.day # 0
-------------------------------------------------------------------------------
(* The calendar.                                                            *)

DaysInYearJulian(year) == IF year % 4 = 0 THEN 366 ELSE 365  \* no rule for centuries
calc_days_in_year(year) == IF year % 4 = 0 /\ (year % 100 # 0 \/ (year % 400 = 0 /\ year # 0)) THEN 366 ELSE 365

check_datetime_range(t) ==
    \/ t.year > 9999 \/ t.month > 12 \/ t.day > 31
    \/ t.minute > 59 \/ t.second > 59 \/ t.second_part > 999999
    \/ t.hour > (IF t.time_type = "TIME" THEN TIME_MAX_HOUR ELSE 23)

\* The warning for a date that the flags do not allow, or nothing.
check_date(t, not_zero, flags) ==
    IF ~not_zero THEN IF "NO_ZERO_DATE" \in flags THEN {"ZERO_DATE"} ELSE {}
    ELSE IF (t.month = 0 \/ t.day = 0) /\ ("NO_ZERO_IN_DATE" \in flags \/ "FUZZY_DATE" \notin flags) THEN {"ZERO_IN_DATE"}
    ELSE IF /\ "INVALID_DATES" \notin flags
            /\ t.month # 0
            /\ t.day > days_in_month[t.month]
            /\ ~(t.month = 2 /\ t.day = 29 /\ calc_days_in_year(t.year) = 366)
         THEN {"OUT_OF_RANGE"}
    ELSE {}

calc_daynr(year, month, day) ==
    LET y == IF month <= 2 THEN year - 1 ELSE year
        delsum == (365 * year) + (31 * (month - 1)) + day - (IF month <= 2 THEN 0 ELSE ((month * 4) + 23) \div 10)
        temp == IF y < 0 THEN 0 ELSE (((y \div 100) + 1) * 3) \div 4
    IN  IF year = 0 /\ month = 0 THEN 0 ELSE delsum + (IF y < 0 THEN 0 ELSE y \div 4) - temp

get_date_from_daynr(daynr) ==
    LET first == (daynr * 100) \div 36525  \* a year that is not too late
        left[y \in first .. first + 2] ==  \* the day, counted from that year's start
            IF y = first THEN daynr - (first * 365) - ((first - 1) \div 4) + (((((first - 1) \div 100) + 1) * 3) \div 4)
            ELSE left[y - 1] - calc_days_in_year(y - 1)
        year == CHOOSE y \in DOMAIN left : /\ left[y] <= calc_days_in_year(y)
                                           /\ \A z \in first .. y - 1 : left[z] > calc_days_in_year(z)
        leap == calc_days_in_year(year) = 366
        day == IF leap /\ left[year] > 59 THEN left[year] - 1 ELSE left[year]
        rest[m \in 1 .. 12] == IF m = 1 THEN day ELSE rest[m - 1] - days_in_month[m - 1]
        month == CHOOSE m \in 1 .. 12 : rest[m] <= days_in_month[m] /\ \A n \in 1 .. m - 1 : rest[n] > days_in_month[n]
    IN  IF daynr <= 365 \/ daynr >= 3652500 THEN [year |-> 0, month |-> 0, day |-> 0]
        ELSE [year |-> year, month |-> month, day |-> rest[month] + (IF leap /\ left[year] = 60 THEN 1 ELSE 0)]
On(t, date) == [t EXCEPT !.year = date.year, !.month = date.month, !.day = date.day]
-------------------------------------------------------------------------------
(* Intervals: iv has the fields of Interval.  A failed one leaves what was  *)
(* set before the date was found to be out of range.                        *)

Sign(iv) == IF iv.neg THEN -1 ELSE 1

add_seconds(t, iv) ==
    LET micro == t.second_part + (Sign(iv) * iv.second_part)
        sec == (t.hour * 3600) + (t.minute * 60) + t.second + (micro \div 1000000)
               + (Sign(iv) * ((iv.hour * 3600) + (iv.minute * 60) + iv.second))
        clock == sec % SECONDS_IN_24H
        u == [t EXCEPT !.neg = FALSE, !.time_type = "DATETIME", !.second_part = micro % 1000000,
                       !.second = clock % 60, !.minute = (clock \div 60) % 60, !.hour = clock \div 3600]
        daynr == calc_daynr(t.year, t.month, 1) + (t.day - 1) + (Sign(iv) * iv.day) + (sec \div SECONDS_IN_24H)
    IN  IF daynr \in 0 .. MAX_DAY_NUMBER THEN Done(On(u, get_date_from_daynr(daynr)), {}) ELSE Failed(u, {})

add_days(t, iv) ==
    LET daynr == calc_daynr(t.year, t.month, t.day) + (Sign(iv) * iv.day)
        u == [t EXCEPT !.neg = FALSE]
    IN  IF daynr \in 0 .. MAX_DAY_NUMBER THEN Done(On(u, get_date_from_daynr(daynr)), {}) ELSE Failed(u, {})

add_years_keeps_day(t, iv) ==  \* 29 February of any year
    LET year == (t.year + (Sign(iv) * iv.year)) % UINT32
        u == [t EXCEPT !.neg = FALSE, !.year = year]
    IN  IF year >= 10000 THEN Failed(u, {}) ELSE Done(u, {})
add_years(t, iv) ==
    LET year == (t.year + (Sign(iv) * iv.year)) % UINT32
        u == [t EXCEPT !.neg = FALSE, !.year = year]
    IN  IF year >= 10000 THEN Failed(u, {})
        ELSE Done([u EXCEPT !.day = IF u.month = 2 /\ @ = 29 /\ calc_days_in_year(year) # 366 THEN 28 ELSE @], {})

add_months(t, iv) ==
    LET period == (t.year * 12) + (t.month - 1) + (Sign(iv) * ((iv.year * 12) + iv.month))
        u == [t EXCEPT !.neg = FALSE]
        month == (period % 12) + 1
        leap == month = 2 /\ calc_days_in_year(period \div 12) = 366
    IN  IF period \notin 0 .. 119999 THEN Failed(u, {})
        ELSE Done([u EXCEPT !.year = period \div 12, !.month = month,
                            !.day = IF @ <= days_in_month[month] THEN @ ELSE days_in_month[month] + (IF leap THEN 1 ELSE 0)], {})

date_add_interval(t, type, iv) ==
    CASE type = "SECOND" -> add_seconds(t, iv)  \* and every type with a part of a day
      [] type = "DAY" -> add_days(t, iv)        \* and WEEK
      [] type = "YEAR" -> add_years(t, iv)
      [] type = "MONTH" -> add_months(t, iv)    \* and QUARTER and YEAR_MONTH
NoInterval == [year |-> 0, month |-> 0, day |-> 0, hour |-> 0, minute |-> 0, second |-> 0, second_part |-> 0, neg |-> FALSE]

\* The difference of two values, or with sign -1 their sum, as seconds of days and of a day and microseconds, and whether it is negative.
calc_time_diff(a, b, sign) ==
    LET Days(t) == IF t.time_type = "TIME" THEN t.day ELSE calc_daynr(t.year, t.month, t.day)
        days == IF a.time_type = "TIME" THEN a.day - (sign * b.day) ELSE Days(a) - (sign * Days(b))
        Sec(t) == (t.hour * 3600) + (t.minute * 60) + t.second
        micro == a.second_part - (sign * b.second_part)
        sec == Sec(a) - (sign * Sec(b)) + (micro \div 1000000)
        floor == [days |-> days + (sec \div SECONDS_IN_24H), sec |-> sec % SECONDS_IN_24H, micro |-> micro % 1000000]
        up == floor.micro > 0
        less == IF up THEN floor.sec + 1 ELSE floor.sec     \* seconds of a negative difference
    IN  IF floor.days >= 0 THEN [neg |-> FALSE, days |-> floor.days, sec |-> floor.sec, micro |-> floor.micro]
        ELSE [neg |-> TRUE, days |-> IF less > 0 THEN -floor.days - 1 ELSE -floor.days,
              sec |-> (SECONDS_IN_24H - less) % SECONDS_IN_24H, micro |-> IF up THEN 1000000 - floor.micro ELSE 0]

calc_time_from_sec(t, sec, micro) ==
    [t EXCEPT !.time_type = "TIME", !.year = 0, !.month = 0, !.day = 0, !.hour = sec \div 3600,
              !.minute = (sec % 3600) \div 60, !.second = sec % 60, !.second_part = micro]

mix_date_and_time(date, t) ==
    LET diff == calc_time_diff(date, t, IF t.neg THEN 1 ELSE -1)
        u == IF ~t.neg /\ t.hour < 24
             THEN [date EXCEPT !.hour = t.hour, !.minute = t.minute, !.second = t.second, !.second_part = t.second_part]
             ELSE On(calc_time_from_sec([date EXCEPT !.neg = diff.neg], diff.sec, diff.micro), get_date_from_daynr(diff.days))
    IN  [u EXCEPT !.time_type = "DATETIME"]
-------------------------------------------------------------------------------
(* Rounding.                                                                *)

check_time_mmssff_range(t) == t.minute >= 60 \/ t.second >= 60 \/ t.second_part > 999999
check_time_range_quick(t) ==
    LET hour == t.hour + (24 * t.day)
    IN  hour > TIME_MAX_HOUR \/ (hour = TIME_MAX_HOUR /\ t.minute = 59 /\ t.second = 59 /\ t.second_part # 0)
set_max_hhmmss(t) == [t EXCEPT !.hour = TIME_MAX_HOUR, !.minute = 59, !.second = 59]
set_max_time(neg) == [set_max_hhmmss(set_zero_time("TIME")) EXCEPT !.neg = neg]
adjust_time_range(t, warn) ==
    IF check_time_range_quick(t) THEN Done(set_max_hhmmss([t EXCEPT !.day = 0, !.second_part = 0]), warn \cup {"OUT_OF_RANGE"})
    ELSE Done(t, warn)

datetime_add_nanoseconds_with_round(t, nano, warn) ==
    LET part == t.second_part + ((nano + 500) \div 1000)
        u == [t EXCEPT !.second_part = part % 1000000]
        bad == check_date(u, non_zero_date(u), {"NO_ZERO_IN_DATE", "NO_ZERO_DATE"})
        Next(r) == IF r.err THEN Failed(r.t, warn \cup {"OUT_OF_RANGE"}) ELSE Done(r.t, warn)
    IN  IF nano < 500 THEN Done(t, warn)
        ELSE IF part < 1000000 THEN Done(u, warn)
        ELSE IF bad # {} THEN Failed(u, bad)
        ELSE Next(date_add_interval(u, "SECOND", [NoInterval EXCEPT !.second = 1]))

SecondCarriesOnce(t) == \* forgets that a minute may be full
    IF t.second < 59 THEN [t EXCEPT !.second = @ + 1] ELSE [t EXCEPT !.second = 0, !.minute = (@ + 1) % 60]
SecondCarries(t) == \* the next second, whatever the hour
    IF t.second < 59 THEN [t EXCEPT !.second = @ + 1]
    ELSE IF t.minute < 59 THEN [t EXCEPT !.second = 0, !.minute = @ + 1]
    ELSE [t EXCEPT !.second = 0, !.minute = 0, !.hour = @ + 1]
time_add_nanoseconds_with_round(t, nano, warn) ==
    LET part == t.second_part + ((nano + 500) \div 1000)
        u == [t EXCEPT !.second_part = part % 1000000]
    IN  IF nano < 500 THEN Done(t, warn)
        ELSE adjust_time_range(IF part < 1000000 THEN u ELSE SecondCarries(u), warn)

msec_round_add(dec) == IF dec = 6 THEN 0 ELSE 5 * log_10_int(8 - dec)
my_time_trunc(t, dec) == [t EXCEPT !.second_part = @ - (@ % log_10_int(DATETIME_MAX_DECIMALS - dec))]
\* dec < DATETIME_MAX_DECIMALS: my_time_fraction_remainder asserts it.
my_time_round(t, dec) ==
    LET r == time_add_nanoseconds_with_round(t, msec_round_add(dec), {}) IN [r EXCEPT !.t = my_time_trunc(@, dec)]
my_datetime_round(t, dec) ==
    LET r == datetime_add_nanoseconds_with_round(t, msec_round_add(dec), {}) IN [r EXCEPT !.t = my_time_trunc(@, dec)]
-------------------------------------------------------------------------------
(* Numbers: [neg, high, low] is high * 10 ^ 6 + low.                        *)

Number(neg, high, low) == [neg |-> neg, high |-> high, low |-> low]
Below(a, high, low) == a.neg \/ a.high < high \/ (a.high = high /\ a.low < low)
HHMMSS(t) == (t.hour * 10000) + (t.minute * 100) + t.second
TIME_to_uint64_date(t) == (t.year * 10000) + (t.month * 100) + t.day
TIME_to_uint64_datetime(t) == Number(FALSE, TIME_to_uint64_date(t), HHMMSS(t))
TIME_to_uint64_time(t) == HHMMSS(t)
TIME_set_hhmmss(t, n) == [t EXCEPT !.second = n % 100, !.minute = (n \div 100) % 100, !.hour = n \div 10000]

TIME_to_uint64_time_round(t) ==
    IF t.second_part < 500000 THEN HHMMSS(t) ELSE IF t.second < 59 THEN HHMMSS(t) + 1 ELSE HHMMSS(my_time_round(t, 0).t)
TIME_to_uint64_datetime_round(t) ==
    IF t.second_part < 500000 THEN TIME_to_uint64_datetime(t)
    ELSE IF t.second < 59 THEN [TIME_to_uint64_datetime(t) EXCEPT !.low = @ + 1]
    ELSE TIME_to_uint64_datetime(my_datetime_round(t, 0).t)

\* A number of 6 or 8 digits is a date, one of 12 or 14 a date and a time: what it means, or nothing.
YYMMDDOneCentury(d) == IF d \in 101 .. ((YY_PART_YEAR - 1) * 10000) + 1231 THEN {d + 19000000}
             ELSE IF d \in (YY_PART_YEAR * 10000) + 101 .. 991231 THEN {d + 19000000} ELSE {}
YYMMDD(d) == IF d \in 101 .. ((YY_PART_YEAR - 1) * 10000) + 1231 THEN {d + 20000000}
             ELSE IF d \in (YY_PART_YEAR * 10000) + 101 .. 991231 THEN {d + 19000000} ELSE {}
DateNumber(nr, flags) ==
    LET n == (nr.high * 1000000) + nr.low
    IN  IF nr.high > 99 \/ n > 99991231 THEN {}
        ELSE IF n <= 991231 THEN YYMMDD(n)
        ELSE IF n < 10000101 /\ "FUZZY_DATE" \notin flags THEN {} ELSE {n}
DatetimeNumber(nr) ==
    IF Below(nr, 101, 0) THEN {}
    ELSE IF ~Below(nr, 991231, 235960) THEN {nr.high}
    ELSE IF ~Below(nr, ((YY_PART_YEAR - 1) * 10000) + 1231, 235960) /\ nr.high < (YY_PART_YEAR * 10000) + 101 THEN {}
    ELSE IF nr.high < YY_PART_YEAR * 10000 THEN {nr.high + 20000000} ELSE {nr.high + 19000000}

\* r.nr: the number in the format YYYYMMDDHHMMSS.
number_to_datetime(nr, flags) ==
    LET whole == nr = Number(FALSE, 0, 0) \/ ~Below(nr, 10000101, 0)
        dates == IF nr.neg THEN {} ELSE DateNumber(nr, flags)
        isdate == ~whole /\ Below(nr, 99, 991232)
        high == IF whole THEN {nr.high} ELSE IF isdate THEN dates ELSE IF nr.neg THEN {} ELSE DatetimeNumber(nr)
        d == CHOOSE x \in high : TRUE
        low == IF isdate THEN 0 ELSE nr.low
        zero == set_zero_time(IF isdate THEN "DATE" ELSE "DATETIME")
        t == TIME_set_hhmmss([zero EXCEPT !.year = d \div 10000, !.month = (d % 10000) \div 100, !.day = d % 100], low)
        bad == check_date(t, d # 0 \/ low # 0, flags)
    IN  IF whole /\ nr.high > 99999999 THEN Failed(zero, {"OUT_OF_RANGE"})
        ELSE IF high = {} THEN Failed(zero, {"TRUNCATED"})
        ELSE IF ~check_datetime_range(t) /\ bad = {} THEN [err |-> FALSE, t |-> t, warn |-> {}, nr |-> Number(FALSE, d, low)]
        ELSE IF d = 0 /\ low = 0 /\ "NO_ZERO_DATE" \in flags THEN Failed(t, bad)
        ELSE Failed(t, {"TRUNCATED"})

TIME_MAX_VALUE == (TIME_MAX_HOUR * 10000) + 5959
number_to_time(nr, warn) ==
    LET far == nr.high > TIME_MAX_VALUE \div 1000000 \/ (nr.high * 1000000) + nr.low > TIME_MAX_VALUE
        full == number_to_datetime(nr, {})
        n == (nr.high * 1000000) + nr.low
    IN  IF far /\ ~nr.neg /\ nr.high >= 10000 /\ ~full.err THEN Done(full.t, full.warn)
        ELSE IF far THEN Failed(set_max_time(nr.neg), warn \cup {"OUT_OF_RANGE"})
        ELSE IF n % 100 >= 60 \/ (n \div 100) % 100 >= 60 THEN Failed(set_zero_time("TIME"), warn \cup {"OUT_OF_RANGE"})
        ELSE Done(TIME_set_hhmmss([set_zero_time("TIME") EXCEPT !.neg = nr.neg /\ n # 0], n), warn)

\* A number with nanoseconds behind the point, as an lldiv_t.
lldiv_t_to_datetime(nr, nano, flags) ==
    LET Read(r) ==
            IF r.err THEN Failed(set_zero_time("ERROR"), IF r.warn = {} THEN {"TRUNCATED"} ELSE r.warn)
            ELSE IF r.t.time_type = "DATE"
            THEN Done(r.t, IF nano > 0 /\ "NO_DATE_FRAC_WARN" \notin flags THEN r.warn \cup {"TRUNCATED"} ELSE r.warn)
            ELSE IF "NO_NSEC_ROUNDING" \in flags THEN Done(r.t, r.warn)
            ELSE datetime_add_nanoseconds_with_round([r.t EXCEPT !.second_part = nano \div 1000], nano % 1000, r.warn)
    IN  IF nr.neg /\ nano > 0 THEN Failed(set_zero_time("ERROR"), {"TRUNCATED"}) ELSE Read(number_to_datetime(nr, flags))

lldiv_t_to_time(nr, nano) ==
    LET Read(r) ==
            IF r.err THEN Failed(r.t, r.warn)
            ELSE time_add_nanoseconds_with_round([r.t EXCEPT !.neg = @ \/ (nr.neg /\ nano > 0), !.second_part = nano \div 1000],
                                                 nano % 1000, r.warn)
    IN  Read(number_to_time(nr, {}))

time2my_decimal(t) == [nr |-> Number(t.neg, 0, HHMMSS(t)), nano |-> t.second_part * 1000]
date2my_decimal(t) ==
    LET d == TIME_to_uint64_date(t)
    IN  [nr |-> IF t.time_type = "DATE" THEN Number(t.neg, d \div 1000000, d % 1000000)
                ELSE [TIME_to_uint64_datetime(t) EXCEPT !.neg = t.neg],
         nano |-> t.second_part * 1000]
-------------------------------------------------------------------------------
(* Packed values: ymd * 2 ^ 41 + hms * 2 ^ 24 + frac.                        *)

MY_PACKED_TIME_MAKE(ymd, hms, frac) ==
    LET int == hms + (frac \div (2 ^ 24))
    IN  [ymd |-> ymd + (int \div (2 ^ 17)), hms |-> int % (2 ^ 17), frac |-> frac % (2 ^ 24)]
Negated(p) == MY_PACKED_TIME_MAKE(-p.ymd, -p.hms, -p.frac)
Absolute(p) == IF p.ymd < 0 THEN Negated(p) ELSE p
\* The remainder of a negative value is negative.
MY_PACKED_TIME_GET_FRAC_PART(p) == IF p.ymd < 0 /\ p.frac > 0 THEN p.frac - (2 ^ 24) ELSE p.frac

YMDTwelveMonths(t) == (((t.year * 12) + t.month) * 32) + t.day
YMD(t) == (((t.year * 13) + t.month) * 32) + t.day
HMS(t) == (t.hour * 4096) + (t.minute * 64) + t.second
TIME_to_longlong_datetime_packed(t) ==
    LET p == MY_PACKED_TIME_MAKE(YMD(t), HMS(t), t.second_part) IN IF t.neg THEN Negated(p) ELSE p
TIME_to_longlong_date_packed(t) == MY_PACKED_TIME_MAKE(YMD(t), 0, 0)
TIME_to_longlong_time_packed(t) ==
    LET p == MY_PACKED_TIME_MAKE(0, HMS(t) + (IF t.month = 0 THEN t.day * 24 * 4096 ELSE 0), t.second_part)
    IN  IF t.neg THEN Negated(p) ELSE p
TIME_to_longlong_packed(t) == CASE t.time_type = "DATE" -> TIME_to_longlong_date_packed(t)
                                [] t.time_type = "DATETIME" -> TIME_to_longlong_datetime_packed(t)
                                [] t.time_type = "TIME" -> TIME_to_longlong_time_packed(t)

TIME_from_longlong_datetime_packed(packed) ==
    LET p == Absolute(packed)
        ym == p.ymd \div 32
    IN  [year |-> ym \div 13, month |-> ym % 13, day |-> p.ymd % 32,
         hour |-> p.hms \div 4096, minute |-> (p.hms \div 64) % 64, second |-> p.hms % 64,
         second_part |-> p.frac, neg |-> packed.ymd < 0, time_type |-> "DATETIME"]
TIME_from_longlong_date_packed(packed) == [TIME_from_longlong_datetime_packed(packed) EXCEPT !.time_type = "DATE"]
TIME_from_longlong_time_packed(packed) ==
    LET p == Absolute(packed)
        hms == (p.ymd * (2 ^ 17)) + p.hms
    IN  [set_zero_time("TIME") EXCEPT !.hour = (hms \div 4096) % 1024, !.minute = (hms \div 64) % 64, !.second = hms % 64,
                                      !.second_part = p.frac, !.neg = packed.ymd < 0]

(* The bytes of a column with dec digits behind the point; they compare like the values. *)

Bytes(x, n) == [k \in 1 .. n |-> (x \div (256 ^ (n - k))) % 256]
FromBytes(b, from, n) == LET v[k \in 0 .. n] == IF k = 0 THEN 0 ELSE (v[k - 1] * 256) + b[from + k - 1] IN v[n]
\* be_sint*korr, and a char: the first bit is the sign.
FromSignedBytes(b, from, n) == IF b[from] < 128 THEN FromBytes(b, from, n) ELSE FromBytes(b, from, n) - (256 ^ n)
FracLen(dec) == (dec + 1) \div 2
FracUnit(dec) == log_10_int(DATETIME_MAX_DECIMALS - (2 * FracLen(dec)))
\* Division towards zero.
FracBytes(frac, dec) == IF frac < 0 THEN Bytes(-((-frac) \div FracUnit(dec)), FracLen(dec)) ELSE Bytes(frac \div FracUnit(dec), FracLen(dec))

my_datetime_packed_to_binary(p, dec) ==
    Bytes(((p.ymd + (2 ^ 22)) * 2) + (p.hms \div (2 ^ 16)), 3) \o Bytes(p.hms % (2 ^ 16), 2)
    \o FracBytes(MY_PACKED_TIME_GET_FRAC_PART(p), dec)
my_datetime_packed_from_binary(b, dec) ==
    LET ymd == FromBytes(b, 1, 3)
    IN  MY_PACKED_TIME_MAKE((ymd \div 2) - (2 ^ 22), ((ymd % 2) * (2 ^ 16)) + FromBytes(b, 4, 2),
                            IF dec = 0 THEN 0 ELSE FromSignedBytes(b, 6, FracLen(dec)) * FracUnit(dec))

my_time_packed_to_binary(p, dec) ==
    Bytes((p.ymd * (2 ^ 17)) + p.hms + (2 ^ 23), 3)
    \o (IF dec > 4 THEN Bytes(p.frac, 3) ELSE FracBytes(MY_PACKED_TIME_GET_FRAC_PART(p), dec))
my_time_packed_from_binary(b, dec) ==
    LET int == FromBytes(b, 1, 3) - (2 ^ 23)
        frac == CASE dec = 0 -> 0
                  [] dec \in {1, 2} -> FromSignedBytes(b, 4, 1)  \* a char has a sign
                  [] dec \in {3, 4} -> FromBytes(b, 4, 2)
                  [] OTHER -> FromBytes(b, 4, 3)
    IN  IF dec \in 1 .. 4 /\ int < 0 /\ frac # 0
        THEN MY_PACKED_TIME_MAKE(0, int + 1, (frac - (256 ^ FracLen(dec))) * FracUnit(dec))
        ELSE MY_PACKED_TIME_MAKE(0, int, frac * FracUnit(dec))

my_timestamp_to_binary(tv, dec) == Bytes(tv.sec, 4) \o FracBytes(tv.usec, dec)
my_timestamp_from_binary(b, dec) ==
    [sec |-> FromBytes(b, 1, 4), usec |-> IF dec = 0 THEN 0 ELSE FromSignedBytes(b, 5, FracLen(dec)) * FracUnit(dec)]
-------------------------------------------------------------------------------
(* Texts: parts of digits, each with the one character, or run of them,     *)
(* that follows: "-" for any punctuation but "." and ":", " ", "T", "e",    *)
(* "x" for any other, "" at the end.                                        *)

Part(digits, after) == [digits |-> digits, after |-> after]
Digits(x, n) == [k \in 1 .. n |-> (x \div (10 ^ (n - k))) % 10]
Value(digits) == LET v[k \in 0 .. Len(digits)] == IF k = 0 THEN 0 ELSE (v[k - 1] * 10) + digits[k] IN v[Len(digits)]
TakeDigits(digits, n) == SubSeq(digits, 1, IF Len(digits) < n THEN Len(digits) ELSE n)
LengthOf(text) == \* in characters
    LET n[p \in 0 .. Len(text)] == IF p = 0 THEN 0 ELSE n[p - 1] + Len(text[p].digits) + (IF text[p].after = "" THEN 0 ELSE 1) IN n[Len(text)]
Starts(text, p) == p <= Len(text) /\ text[p].digits # <<>>
Garbage(text, p, o) == \/ o < Len(text[p].digits)
                       \/ \E q \in p .. Len(text) : text[q].after \notin {"", " "}
                       \/ \E q \in p + 1 .. Len(text) : text[q].digits # <<>>

date_to_str(t, last) == <<Part(Digits(t.year, 4), "-"), Part(Digits(t.month, 2), "-"), Part(Digits(t.day, 2), last)>>
useconds_to_str(t, dec) == IF dec = 0 THEN <<>>
                           ELSE <<Part(Digits(t.second_part \div log_10_int(DATETIME_MAX_DECIMALS - dec), dec), "")>>
time_to_str(t, dec) ==
    <<Part(Digits(t.hour, IF t.hour > 99 THEN 3 ELSE 2), ":"), Part(Digits(t.minute, 2), ":"),
      Part(Digits(t.second, 2), IF dec = 0 THEN "" ELSE ".")>> \o useconds_to_str(t, dec)
datetime_to_str(t, dec) == date_to_str(t, " ") \o time_to_str(t, dec)
TIME_to_str(t, dec) == CASE t.time_type = "DATETIME" -> datetime_to_str(t, dec)
                         [] t.time_type = "DATE" -> date_to_str(t, "")
                         [] t.time_type = "TIME" -> time_to_str(t, dec)
                         [] OTHER -> <<Part(<<>>, "")>>

\* The internal format has no separators: the first digits, up to a point or the end, with a T.
FirstRun(text) == CHOOSE p \in DOMAIN text : text[p].after # "T" /\ \A q \in 1 .. p - 1 : text[q].after = "T"
IsInternal(text) == text[FirstRun(text)].after \in {"", "."}
InternalYear(text) == LET n == LengthOf(SubSeq(text, 1, FirstRun(text))) - (IF text[FirstRun(text)].after = "" THEN 0 ELSE 1)
                      IN  IF n \in {4, 8} \/ n >= 14 THEN 4 ELSE 2

\* Reads field s.i at digit s.o of part s.p; s.last is where the text goes on behind what was read.
ReadField(text, s) ==
    LET i == s.i
        part == text[s.p]
        width == IF i = 6 THEN 6 ELSE IF ~IsInternal(text) THEN Len(part.digits) ELSE IF i = 0 THEN InternalYear(text) ELSE 2
        digits == TakeDigits(SubSeq(part.digits, s.o + 1, Len(part.digits)), width)
        o == s.o + Len(digits)
        next == IF o < Len(part.digits) THEN "digit" ELSE part.after
        here == [p |-> s.p, o |-> o]
        behind == [p |-> s.p + 1, o |-> 0]
        separated == next \in {"-", ":", ".", " "}
        at == IF separated /\ i # 5 THEN behind ELSE here
        read == [s EXCEPT !.i = i + 1, !.fields = Append(@, [value |-> Value(digits), len |-> Len(digits)]), !.more = FALSE]
        OnAt(q, last) == [read EXCEPT !.p = q.p, !.o = q.o, !.last = last, !.more = i + 1 < 7 /\ q.o < Len(text[q.p].digits)]
    IN  IF Value(digits) > 999999 \/ (i \notin {2, 5, 6} /\ next = " ") THEN [s EXCEPT !.none = TRUE, !.more = FALSE]
        ELSE IF next = "" THEN [read EXCEPT !.last = here]
        ELSE IF i = 2 /\ next = "T" THEN OnAt(behind, here)
        ELSE IF i = 5 /\ next = "." THEN OnAt(behind, behind)
        ELSE IF i = 5 THEN [read EXCEPT !.last = here]
        ELSE [OnAt(at, at) EXCEPT !.space = @ \/ next = " ", !.delimiter = @ \/ separated, !.i = IF i = 6 THEN 8 ELSE @]

NotATimestamp == [err |-> TRUE, t |-> set_zero_time("NONE"), warn |-> {"TRUNCATED"}]
\* What has been read of text: s is where, with the fields there are.
DatetimeOf(text, s, flags) ==
    LET F(n) == IF n < Len(s.fields) THEN s.fields[n + 1].value ELSE 0
        fraction == IF Len(s.fields) = 7 THEN s.fields[7].len ELSE 0
        not_zero == \E n \in 0 .. 6 : F(n) # 0
        year_length == IF IsInternal(text) THEN InternalYear(text) ELSE s.fields[1].len
        century == IF year_length = 2 /\ not_zero THEN IF F(0) < YY_PART_YEAR THEN 2000 ELSE 1900 ELSE 0
        digits == text[s.last.p].digits
        seventh == fraction = 6 /\ s.last.o < Len(digits)
        warn == IF Garbage(text, s.last.p, IF seventh THEN Len(digits) ELSE s.last.o) THEN {"TRUNCATED"} ELSE {}
        garbage == Garbage(text, s.last.p, s.last.o)
        Checked(t, bad) ==
            IF s.i < 3 \/ check_datetime_range(t)
            THEN Failed(set_zero_time("ERROR"), IF not_zero \/ garbage THEN {"TRUNCATED"} ELSE {"ZERO_DATE"})
            ELSE IF bad # {} THEN Failed(set_zero_time("ERROR"), bad)
            ELSE IF "NO_NSEC_ROUNDING" \in flags THEN Done(t, warn)
            ELSE [datetime_add_nanoseconds_with_round(t, IF seventh THEN 100 * digits[s.last.o + 1] ELSE 0, warn)
                      EXCEPT !.err = FALSE]  \* its error is not looked at
        Check(t) == Checked(t, check_date(t, not_zero, flags))
    IN  Check([year |-> F(0) + century, month |-> F(1), day |-> F(2), hour |-> F(3), minute |-> F(4), second |-> F(5),
               second_part |-> F(6) * log_10_int(DATETIME_MAX_DECIMALS - fraction), neg |-> FALSE,
               time_type |-> IF s.i <= 3 THEN "DATE" ELSE "DATETIME"])

str_to_datetime(text, flags) ==
    LET s[k \in 0 .. 7] == IF k = 0 THEN [i |-> 0, p |-> 1, o |-> 0, fields |-> <<>>, last |-> [p |-> 1, o |-> 0],
                                          none |-> FALSE, space |-> FALSE, delimiter |-> FALSE, more |-> TRUE]
                           ELSE IF s[k - 1].more THEN ReadField(text, s[k - 1]) ELSE s[k - 1]
        Read(r) == IF ~Starts(text, 1) \/ r.none \/ (r.delimiter /\ ~r.space /\ "DATETIME_ONLY" \in flags) THEN NotATimestamp
                   ELSE DatetimeOf(text, r, flags)
    IN  Read(s[7])

\* [-]DAYS HH:MM:SS, HH:MM:SS and HHMMSS, each with a fraction.
TimeOf(neg, text, flags) ==
    LET first == Value(text[1].digits)
        days == text[1].after = " " /\ Starts(text, 2) /\ LengthOf(SubSeq(text, 2, Len(text))) > 1
        hours == text[1].after = ":" /\ Starts(text, 2)
        from == IF days THEN 2 ELSE 1          \* the parts that are hours, minutes and seconds
        last == CHOOSE p \in from .. from + 2 : /\ \A q \in from .. p - 1 : text[q].after = ":" /\ Starts(text, q + 1)
                                                /\ p = from + 2 \/ ~(text[p].after = ":" /\ Starts(text, p + 1))
        Fields(to) == \* days, hours, minutes and seconds
            LET Field(p) == IF p <= to THEN Value(text[p].digits) % UINT32 ELSE 0
            IN  IF days \/ hours THEN <<IF days THEN first ELSE 0, Field(from), Field(from + 1), Field(from + 2)>>
                ELSE <<0, first \div 10000, (first \div 100) % 100, first % 100>>
        Rounded(a, nano, end) ==
            LET warn == a.warn \cup IF Garbage(text, end, Len(text[end].digits)) THEN {"TRUNCATED"} ELSE {}
            IN  IF "NO_NSEC_ROUNDING" \in flags THEN Done(a.t, warn) ELSE time_add_nanoseconds_with_round(a.t, nano, warn)
        Read(date, at) ==
            LET fraction == text[at].after = "." /\ Starts(text, at + 1)
                f == text[at + 1].digits
                end == IF text[at].after = "." /\ at < Len(text) THEN at + 1 ELSE at
                micro == IF fraction THEN Value(TakeDigits(f, 6)) * log_10_int(6 - Len(TakeDigits(f, 6))) ELSE 0
                t == [set_zero_time("TIME") EXCEPT !.neg = neg, !.hour = (date[2] + (date[1] * 24)) % UINT32,
                                                   !.minute = date[3], !.second = date[4], !.second_part = micro]
            IN  IF text[end].after = "e" /\ Starts(text, end + 1) THEN Failed(set_zero_time("NONE"), {})
                ELSE IF check_time_mmssff_range(t) THEN Failed(t, {"OUT_OF_RANGE"})
                ELSE Rounded(adjust_time_range(t, {}), IF fraction /\ Len(f) > 6 THEN 100 * f[Len(f)] ELSE 0, end)
    IN  IF LengthOf(text) = 0 \/ first >= UINT32 THEN Failed(set_zero_time("NONE"), {})
        ELSE Read(Fields(last), IF days \/ hours THEN last ELSE 1)

str_to_time(neg, text, flags) ==
    LET Full(full) == IF full.t.time_type # "NONE" THEN [full EXCEPT !.err = full.t.time_type = "ERROR"] ELSE TimeOf(neg, text, flags)
    IN  IF LengthOf(text) >= 12 THEN Full(str_to_datetime(text, {"FUZZY_DATE", "DATETIME_ONLY"})) ELSE TimeOf(neg, text, flags)
===============================================================================
