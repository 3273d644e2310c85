------------------------------ MODULE DateTime ------------------------------
(***************************************************************************)
(* fwoop::DateTime: an object that keeps an instant, a time zone and the   *)
(* fields of the calendar, and what its operations do to them.             *)
(*                                                                         *)
(* Instants are seconds since 1970 and stay below 2^31.  A field that the  *)
(* code computes by converting a negative number is Undefined.             *)
(***************************************************************************)
EXTENDS Integers, Sequences, FiniteSetsExt

CONSTANTS
    Starts,         \* instants a DateTime is made from
    HourSteps,      \* what is passed to addHours()
    MinuteSteps,    \* to addMinutes()
    SecondSteps,    \* to addSeconds()
    DaySteps,       \* to addDays()
    Window          \* bound: how far from its start, in seconds, an object gets

\* A DateTime counts seconds in 32 bits; the instants stay below 2^31, in any of the
\* offsets, and after 1970.
ASSUME DateTimeAssumption ==
    /\ Starts \subseteq Nat /\ Window \in Nat
    /\ HourSteps \subseteq Int /\ MinuteSteps \subseteq Int
    /\ SecondSteps \subseteq Int /\ DaySteps \subseteq Int
    /\ \A s \in Starts : s - Window >= 5 * 3600 /\ s + Window + 13 * 3600 <= 2147483647

Timezones == {"UTC", "AMERICA_NEW_YORK"}
Offset == [UTC |-> 0, AMERICA_NEW_YORK |-> -5]

VARIABLES
    start,          \* the instant of the constructor
    d_time, d_tz, d_tzOffset, d_isDST,
    fields,         \* d_year to d_second, d_dow, d_firstOfMonth, d_weekOfMonth
    shown           \* history: the instant and offset the fields were computed from

vars == <<start, d_time, d_tz, d_tzOffset, d_isDST, fields, shown>>

-----------------------------------------------------------------------------
SecondsInHour == 3600
SecondsInDay == 24 * SecondsInHour
DaysInYear == 365
Thursday == 4
Sunday == 0
Undefined == 255

LastYear == 2037
DaysPerMonth == <<31, 28, 31, 30, 31, 30, 31, 31, 30, 31, 30, 31>>
isLeapYear(y) == y % 4 = 0 /\ (y % 100 # 0 \/ y % 400 = 0)

\* daysSinceEpoch after the years before y, and after m months of it.
LeapYears(y) == (y - 1) \div 4 - (y - 1) \div 100 + (y - 1) \div 400 - 477
YearStart(y) == DaysInYear * (y - 1970) + LeapYears(y)
FirstDays == <<0, 31, 59, 90, 120, 151, 181, 212, 243, 273, 304, 334, 365>>
MonthStart(y, m) == FirstDays[m + 1] + IF isLeapYear(y) /\ m > 1 THEN 1 ELSE 0

\* Integer division of the code: towards zero.
Trunc(a, b) == IF a >= 0 THEN a \div b ELSE -((-a) \div b)

-----------------------------------------------------------------------------
(***************************************************************************)
(* recalculate(), without its last step.                                   *)
(***************************************************************************)
\* Faulty variant: a month ends with its last second.
MonthOf_Late(y, r) ==
    Min({m \in 0..12 :
            \/ m = 12
            \/ r - MonthStart(y, m) * SecondsInDay <= DaysPerMonth[m + 1] * SecondsInDay})

\* The loops over years and months: what is left of the instant is compared with
\* a year of 365 days and a month of its ordinary length.
YearOf(r) ==
    Min({y \in 1970..(LastYear + 1) : r - YearStart(y) * SecondsInDay <= DaysInYear * SecondsInDay})
MonthOf(y, r) ==
    Min({m \in 0..12 :
            LET left == r - MonthStart(y, m) * SecondsInDay
            IN  m = 12 \/ left <= 0 \/ left < DaysPerMonth[m + 1] * SecondsInDay})

Fields(r) ==
    LET year == YearOf(r)
        inYear == r - YearStart(year) * SecondsInDay
        month == MonthOf(year, inYear)
        left == inYear - MonthStart(year, month) * SecondsInDay
        days == YearStart(year) + MonthStart(year, month)
        first == (days + Thursday) % 7
        day == Trunc(left, SecondsInDay) + 1
        inDay == left - (day - 1) * SecondsInDay
    IN  [year |-> year, month |-> month, day |-> day,
         hour |-> IF left < 0 THEN Undefined ELSE inDay \div SecondsInHour,
         minute |-> IF left < 0 THEN Undefined ELSE (inDay % SecondsInHour) \div 60,
         second |-> IF left < 0 THEN Undefined ELSE inDay % 60,
         dow |-> (days + day - 1 + Thursday) % 7,
         firstOfMonth |-> first,
         weekOfMonth |-> (day + first + 1) \div 7]

\* updateDST(): the flag of a New York time; any other keeps the one it has.
DST(f) ==
    LET dow == (f.dow - f.firstOfMonth + 7) % 7
        sunday == (Sunday - f.firstOfMonth + 7) % 7
    IN  \/ f.month > 2 /\ f.month < 10
        \/ f.month = 2 /\ f.weekOfMonth > 2
        \/ f.month = 2 /\ f.weekOfMonth = 2 /\ (dow > sunday \/ (dow = sunday /\ f.hour >= 2))
        \/ f.month = 10 /\ f.weekOfMonth = 1 /\ (dow < sunday \/ (dow = sunday /\ f.hour < 1))

updateDST(tz, flag, f) == IF tz = "AMERICA_NEW_YORK" THEN DST(f) ELSE flag

Local(time, offset) == time + offset * SecondsInHour

\* All that recalculate() leaves in the object.
recalculate(time, tz, offset, flag) ==
    LET f == Fields(Local(time, offset))
        dst == updateDST(tz, flag, f)
    IN  /\ fields' = IF dst /\ f.hour # Undefined THEN [f EXCEPT !.hour = @ + 1] ELSE f
        /\ d_isDST' = dst
        /\ shown' = [time |-> time, tz |-> tz, offset |-> offset]

-----------------------------------------------------------------------------
\* Nothing has set d_tz, d_tzOffset and d_isDST when the constructor calls
\* recalculate(); the fields it leaves are of no use before setTimezone().
Init ==
    /\ start \in Starts /\ d_time = start
    /\ d_tz \in Timezones \cup {"garbage"}
    /\ d_tzOffset \in {0, -5, 13}
    /\ d_isDST \in BOOLEAN
    /\ LET f == Fields(Local(d_time, d_tzOffset))
       IN  fields = IF d_isDST /\ f.hour # Undefined THEN [f EXCEPT !.hour = @ + 1] ELSE f
    /\ d_tz = "AMERICA_NEW_YORK" => d_isDST = DST(Fields(Local(d_time, d_tzOffset)))
    /\ shown = [time |-> d_time, tz |-> d_tz, offset |-> d_tzOffset]

setTimezone(tz) ==
    /\ d_tz' = tz
    /\ d_tzOffset' = Offset[tz]
    /\ recalculate(d_time, tz, Offset[tz], d_isDST)
    /\ UNCHANGED <<start, d_time>>

InWindow(time) == time - start \in -Window..Window

\* addDays(), addHours(), addMinutes(), add() and subtract().
Shift(seconds) ==
    /\ InWindow(d_time + seconds)
    /\ d_time' = d_time + seconds
    /\ recalculate(d_time + seconds, d_tz, d_tzOffset, d_isDST)
    /\ UNCHANGED <<start, d_tz, d_tzOffset>>

addDays == \E n \in DaySteps : Shift(n * SecondsInDay)
addHours == \E n \in HourSteps : Shift(n * SecondsInHour)
addMinutes == \E n \in MinuteSteps : Shift(n * 60)

\* addSeconds() computes nothing: the fields stay those of another instant.
\* (Bound: whole minutes and the second before each.)
addSeconds ==
    \E n \in SecondSteps :
        /\ InWindow(d_time + n) /\ (d_time + n) % 60 \in {0, 59}
        /\ d_time' = d_time + n
        /\ UNCHANGED <<start, d_tz, d_tzOffset, d_isDST, fields, shown>>

Next == (\E tz \in Timezones : setTimezone(tz)) \/ addDays \/ addHours \/ addMinutes \/ addSeconds

Spec == Init /\ [][Next]_vars

-----------------------------------------------------------------------------
(***************************************************************************)
(* The calendar, by the number of days before a date.                      *)
(***************************************************************************)
LengthOfYear(y) == IF isLeapYear(y) THEN 366 ELSE 365
LengthOf(y, m) ==
    IF m = 2 THEN IF isLeapYear(y) THEN 29 ELSE 28
    ELSE IF m \in {4, 6, 9, 11} THEN 30 ELSE 31

DaysBeforeYear(y) ==
    LET before[x \in 1970..y] == IF x = 1970 THEN 0 ELSE before[x - 1] + LengthOfYear(x - 1)
    IN  before[y]
DaysBeforeMonth(y, m) ==
    LET before[k \in 1..m] == IF k = 1 THEN DaysBeforeYear(y) ELSE before[k - 1] + LengthOf(y, k - 1)
    IN  before[m]

Civil(r) ==
    LET n == r \div SecondsInDay
        e == 1970 + n \div 366
        y == IF DaysBeforeYear(e + 1) <= n THEN e + 1 ELSE e
        m == Max({k \in 1..12 : DaysBeforeMonth(y, k) <= n})
    IN  [year |-> y, month |-> m, day |-> n - DaysBeforeMonth(y, m) + 1,
         dow |-> (n + Thursday) % 7, second |-> r % SecondsInDay]

\* The instants the loops are wrong about: 29 February, the last day of a leap
\* year but its first second, and the first second of a year after one of 365
\* days.
Regular(r) ==
    LET c == Civil(r)
    IN  /\ ~(c.month = 2 /\ c.day = 29)
        /\ ~(c.month = 12 /\ c.day = 31 /\ isLeapYear(c.year) /\ c.second > 0)
        /\ ~(c.month = 1 /\ c.day = 1 /\ c.second = 0 /\ ~isLeapYear(c.year - 1))

ShownLocal == Local(shown.time, shown.offset)

\* The fields are those of the calendar for the instant and the zone they were
\* computed from, at all but the irregular instants, whatever calls came before:
\* months count from 0, and the hour is one more when the flag is set.
CalendarIsRight ==
    Regular(ShownLocal) =>
        LET c == Civil(ShownLocal)
            standard == fields.hour - IF d_isDST THEN 1 ELSE 0
        IN  /\ fields.year = c.year /\ fields.month = c.month - 1 /\ fields.day = c.day
            /\ fields.dow = c.dow
            /\ standard * SecondsInHour + fields.minute * 60 + fields.second = c.second

\* The nth Sunday of a month, as the second at which it begins.
NthSunday(y, m, n) ==
    LET first == DaysBeforeMonth(y, m)
    IN  (first + ((7 - ((first + Thursday) % 7)) % 7) + 7 * (n - 1)) * SecondsInDay

\* New York has daylight saving time from 2:00 a.m. (EST) on the second Sunday of
\* March to 1:00 a.m. (EST) on the first Sunday of November.
DstFollowsTheRule ==
    d_tz = "AMERICA_NEW_YORK" /\ shown.tz = d_tz /\ shown.offset = -5 /\ Regular(ShownLocal) =>
        LET y == Civil(ShownLocal).year
        IN  d_isDST = (/\ ShownLocal >= NthSunday(y, 3, 2) + 2 * SecondsInHour
                       /\ ShownLocal < NthSunday(y, 11, 1) + SecondsInHour)
=============================================================================
