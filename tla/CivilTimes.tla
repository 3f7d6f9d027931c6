----------------------------- MODULE CivilTimes ------------------------------
(* Dates: the days and seconds since the epoch as the civil times of a day, a   *)
(* clock and a zone, and back (src/src/local_time.rs).                         *)
EXTENDS Integers, Sequences

CONSTANTS
    Zone        \* the local time zone, <<[from, offset], ...>>; << >> where there is none

ZoneAssumption == Zone \in Seq([from : Int, offset : Int])

(***************************************************************************)
(* Civil times                                                             *)
(***************************************************************************)
\* Rust divides towards zero.
Quotient(a, b) == IF a >= 0 THEN a \div b ELSE -((-a) \div b)

\* Eras are 400 years; years of an era, and months of a year, are counted from
\* March on, and days from the first of March.
EraDays == 146097
EpochDays == 719468         \* from the first of March of year 0
YearOf(doe) == (doe - doe \div 1460 + doe \div 36524 - doe \div 146096) \div 365
YearStart(yoe) == yoe * 365 + yoe \div 4 - yoe \div 100
MonthOf(doy) == (5 * doy + 2) \div 153
MonthStart(mp) == (153 * mp + 2) \div 5
FromMarch(mp) == IF mp < 10 THEN mp + 3 ELSE mp - 9
SinceMarch(month) == IF month > 2 THEN month - 3 ELSE month + 9

CivilFromDays(days) ==
    LET z == days + EpochDays
        era == Quotient(IF z >= 0 THEN z ELSE z - (EraDays - 1), EraDays)
        doe == z - era * EraDays
        yoe == YearOf(doe)
        doy == doe - YearStart(yoe)
        mp == MonthOf(doy)
        m == FromMarch(mp)
    IN [year |-> yoe + era * 400 + (IF m <= 2 THEN 1 ELSE 0),
        month |-> m, day |-> doy - MonthStart(mp) + 1]

\* Mutant: January and February belong to the year they are in.
SameYear(d) == d.year
MarchYear(d) == d.year - (IF d.month <= 2 THEN 1 ELSE 0)

DaysFromCivil(d) ==
    LET year == MarchYear(d)
        era == Quotient(IF year >= 0 THEN year ELSE year - 399, 400)
        doy == MonthStart(SinceMarch(d.month)) + d.day - 1
    IN era * EraDays + YearStart(year - era * 400) + doy - EpochDays

\* utc_components and unix_to_utc; % of TLA+ is rem_euclid, \div is div_euclid.
Utc(t) ==
    LET s == t % 86400
    IN [date |-> CivilFromDays(t \div 86400),
        hour |-> s \div 3600, minute |-> (s % 3600) \div 60, second |-> s % 60]

\* The days and seconds of parse_datetime.
FromUtc(c) == DaysFromCivil(c.date) * 86400 + c.hour * 3600 + c.minute * 60 + c.second

(***************************************************************************)
(* Local times                                                             *)
(***************************************************************************)
NoZone == Zone = << >>
OffsetAt(t) ==
    Zone[CHOOSE i \in DOMAIN Zone :
           /\ i = 1 \/ Zone[i].from <= t
           /\ \A j \in (i + 1)..Len(Zone) : t < Zone[j].from].offset
\* local_components (localtime_r), as the seconds a clock on the wall has counted.
Reading(t) == IF NoZone THEN t ELSE t + OffsetAt(t)
Offsets == {Zone[i].offset : i \in DOMAIN Zone}

\* Mutant: tm_isdst says that summer time is never in force.
WithoutSummerTime(reading) == {IF NoZone THEN reading ELSE reading - Zone[1].offset}
\* local_timestamp (mktime with tm_isdst = -1): a time with this reading, or
\* one close to the gap.
MkTime(reading) ==
    LET ts == {t \in {reading - o : o \in Offsets} : Reading(t) = reading}
    IN IF NoZone THEN {reading}
       ELSE IF ts # {} THEN ts ELSE {reading - o : o \in Offsets}

FormatTimestamp(t) == Utc(Reading(t))
ParseDatetime(civil) == MkTime(FromUtc(civil))

(***************************************************************************)
(* The calendar                                                            *)
(***************************************************************************)
\* The day after, by the rules of the calendar.
Leap(year) == year % 4 = 0 /\ (year % 100 # 0 \/ year % 400 = 0)
DaysIn(year, month) ==
    CASE month = 2 -> IF Leap(year) THEN 29 ELSE 28
      [] month \in {4, 6, 9, 11} -> 30
      [] OTHER -> 31
Tomorrow(d) ==
    IF d.day < DaysIn(d.year, d.month) THEN [d EXCEPT !.day = @ + 1]
    ELSE IF d.month < 12 THEN [d EXCEPT !.month = @ + 1, !.day = 1]
    ELSE [year |-> d.year + 1, month |-> 1, day |-> 1]
=============================================================================
