----------------------------- MODULE MCTimeValues -----------------------------
(* Dates at the ends of months, leap years and centuries, and times at the   *)
(* ends of their ranges.                                                      *)
EXTENDS TimeValues, TLC

Date(y, m, d) == [set_zero_time("DATE") EXCEPT !.year = y, !.month = m, !.day = d]
Datetime(y, m, d, h, i, s, micro) ==
    [Date(y, m, d) EXCEPT !.time_type = "DATETIME", !.hour = h, !.minute = i, !.second = s, !.second_part = micro]
HMSTime(neg, h, i, s, micro) ==
    [set_zero_time("TIME") EXCEPT !.neg = neg, !.hour = h, !.minute = i, !.second = s, !.second_part = micro]
MCValues == {Date(0, 0, 0), Date(1, 1, 1), Date(4, 2, 29), Date(100, 3, 1), Date(1600, 12, 31), Date(1900, 1, 31), Date(2000, 2, 29),
             Date(2023, 2, 0), Date(9999, 12, 31),
             Datetime(400, 12, 31, 23, 59, 59, 999999), Datetime(1970, 1, 1, 0, 0, 0, 0), Datetime(2000, 2, 28, 23, 59, 59, 500000),
             Datetime(2023, 12, 31, 12, 59, 59, 995000), Datetime(9999, 12, 31, 23, 59, 59, 999949),
             HMSTime(FALSE, 0, 0, 0, 0), HMSTime(FALSE, 23, 59, 59, 999999), HMSTime(TRUE, 0, 0, 0, 4000), HMSTime(TRUE, 12, 59, 59, 999950),
             HMSTime(FALSE, 838, 59, 58, 900000), HMSTime(TRUE, 838, 59, 59, 0)}
Iv(neg, y, m, d, s, micro) ==
    [NoInterval EXCEPT !.neg = neg, !.year = y, !.month = m, !.day = d, !.second = s, !.second_part = micro]
MCIntervals == {<<"SECOND", Iv(neg, 0, 0, 1, 86400, 1)>> : neg \in BOOLEAN} \cup {<<"SECOND", Iv(TRUE, 0, 0, 0, 0, 1000000)>>}
               \cup {<<"DAY", Iv(n[1], 0, 0, n[2], 0, 0)>> : n \in {<<FALSE, 1>>, <<TRUE, 1>>, <<FALSE, 366>>, <<TRUE, 36524>>, <<FALSE, 146097>>}}
               \cup {<<"YEAR", Iv(n[1], n[2], 0, 0, 0, 0)>> : n \in {<<FALSE, 1>>, <<TRUE, 100>>}}
               \cup {<<"MONTH", Iv(n[1], n[2], n[3], 0, 0, 0)>> : n \in {<<FALSE, 0, 1>>, <<TRUE, 8, 2>>}}
N(neg, high, low, nano) == [nr |-> Number(neg, high, low), nano |-> nano]
MCNumbers == {N(FALSE, 0, 101, 0), N(FALSE, 0, 691231, 0), N(FALSE, 0, 700101, 1), N(FALSE, 19, 990229, 0), N(FALSE, 691231, 235959, 999999999),
              N(FALSE, 700101, 0, 0), N(FALSE, 101, 1, 500), N(FALSE, 20001231, 235959, 999999500), N(TRUE, 1, 205959, 999999999), N(FALSE, 20000030, 0, 0),
              N(TRUE, 0, 6000, 0), N(FALSE, 0, 0, 0)}
P(digits, after) == Part(digits, after)
Text(neg, parts) == [neg |-> neg, parts |-> parts]
MCTexts == {Text(FALSE, date_to_str(Date(2023, 2, 29), "")), Text(FALSE, date_to_str(Date(2000, 0, 0), "")),
            Text(FALSE, date_to_str(Date(2000, 2, 29), "e")),
            Text(FALSE, <<P(<<6, 9>>, "-"), P(<<1>>, "-"), P(<<1>>, "")>>), Text(FALSE, <<P(<<7, 0, 1, 2, 3, 1>>, "")>>),
            Text(FALSE, date_to_str(Date(1999, 12, 31), "T") \o <<P(<<2, 3>>, ":"), P(<<5, 9>>, ":"), P(<<5, 9>>, "."), P(<<9, 9, 9, 9, 9, 9, 5>>, "")>>),
            Text(FALSE, <<P(<<2, 0, 2, 4, 0, 2, 2, 9, 2, 3, 5, 9, 5, 9>>, "."), P(<<9, 9>>, "")>>),
            Text(TRUE, <<P(<<3, 4>>, " "), P(<<2, 2>>, ":"), P(<<5, 9>>, ":"), P(<<5, 9>>, "."), P(<<9>>, "")>>),
            Text(FALSE, <<P(<<1, 2>>, ":"), P(<<6, 0>>, "")>>), Text(TRUE, <<P(<<1, 2, 5, 9>>, "x")>>),
            Text(FALSE, <<P(<<6, 9, 1, 2, 3, 1, 2, 3, 5, 9, 5, 9>>, "."), P(<<9, 9, 9, 9, 9, 9, 9>>, "")>>),
            Text(FALSE, <<P(<<7, 0, 0, 1, 0, 1, 0, 0, 0, 0, 0, 1>>, "")>>), Text(FALSE, <<P(<<1, 9, 6, 9, 1, 2, 3, 1>>, "")>>),
            Text(FALSE, <<P(<<0, 0>>, "-"), P(<<0, 2>>, "-"), P(<<2, 9>>, " "), P(<<1>>, ":"), P(<<2>>, ":"), P(<<3>>, "")>>),
            Text(FALSE, <<P(<<>>, "x")>>)}
MCFlags == {{}, {"FUZZY_DATE"}, {"NO_ZERO_DATE", "NO_ZERO_IN_DATE"}, {"NO_NSEC_ROUNDING"}}
=============================================================================
