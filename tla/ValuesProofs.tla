---------------------------- MODULE ValuesProofs ----------------------------
(***************************************************************************)
(* The library's values, proved.                                           *)
(*                                                                         *)
(* DateTime: what recalculate() makes of an instant, for any instants up   *)
(* to 2038, any steps and any order of the calls.  The days before a year  *)
(* and before a month, which the code counts with a formula and a table,   *)
(* are sums of lengths (DaysBeforeYearIs, DaysBeforeMonthIs).  With them   *)
(* the loops over years and months end at the date of a regular instant    *)
(* (YearOfIs, MonthOfIs), and the rest is the day and the time of day      *)
(* (FieldsAreRight).  The invariant is that the fields and the flag belong *)
(* to one recalculate() (Shows).                                           *)
(*                                                                         *)
(* Json: decode() and encode() for any documents, however deep.  All the   *)
(* values there are lie in one set that has the parts of its members       *)
(* (Typed), so that no induction over their depth is needed.  Every step   *)
(* of decode() has less left (Left).  A failed call leaves its caller      *)
(* behind the marks of the text for good (Lag), so that it shows in the    *)
(* outermost bytesParsed.                                                  *)
(***************************************************************************)
EXTENDS Values, SequenceTheorems, FiniteSetTheorems, WellFoundedInduction, TLAPS

-----------------------------------------------------------------------------
(***************************************************************************)
(* Numbers.                                                                *)
(***************************************************************************)
LEMMA Least ==
    ASSUME NEW T, T \subseteq Nat, T # {}
    PROVE  \E x \in T : \A y \in T : x <= y
<1>1. IsWellFoundedOn(OpToRel(<,Nat), Nat)
  BY NatLessThanWellFounded
<1>2. PICK x \in T : \A y \in T : ~(<<y, x>> \in OpToRel(<,Nat))
  BY <1>1, WFMin
<1>3. \A y \in T : ~(y < x)
  BY <1>2 DEF OpToRel
<1> QED
  BY <1>3

LEMMA Greatest ==
    ASSUME NEW k \in Nat, NEW T, T \subseteq 0..k, T # {}
    PROVE  Max(T) \in T /\ \A y \in T : Max(T) >= y
<1> DEFINE below == {k - y : y \in T}
<1>1. \A y \in T : y \in Nat /\ k - y \in Nat
  OBVIOUS
<1>2. below \subseteq Nat /\ below # {}
  BY <1>1
<1>3. PICK b \in below : \A c \in below : b <= c
  BY <1>2, Least
<1>4. PICK x \in T : b = k - x
  BY <1>3
<1>5. ASSUME NEW y \in T PROVE x >= y
  <2>1. k - x <= k - y
    BY <1>3, <1>4
  <2> QED
    BY <1>1, <2>1
<1> QED
  BY <1>4, <1>5 DEF Max

\* The loop over years or months ends at the first that passes its test.
LEMMA FirstIsMin ==
    ASSUME NEW T, T \subseteq Int, NEW x \in T, \A y \in T : x <= y
    PROVE  Min(T) = x
<1>1. \E z \in T : \A y \in T : z <= y
  OBVIOUS
<1>2. Min(T) \in T /\ \A y \in T : Min(T) <= y
  BY <1>1 DEF Min
<1>3. Min(T) <= x /\ x <= Min(T) /\ Min(T) \in Int /\ x \in Int
  BY <1>2
<1> QED
  BY <1>3

-----------------------------------------------------------------------------
(***************************************************************************)
(* The days before a year.                                                 *)
(***************************************************************************)
Years == 1970..2039

LEMMA YearStep ==
    ASSUME NEW y \in Nat, y >= 1970
    PROVE  YearStart(y + 1) = YearStart(y) + LengthOfYear(y)
<1>1. /\ y \div 4 = (y - 1) \div 4 + (IF y % 4 = 0 THEN 1 ELSE 0)
      /\ (y - 1) \div 4 \in Nat
  OBVIOUS
<1>2. /\ y \div 100 = (y - 1) \div 100 + (IF y % 100 = 0 THEN 1 ELSE 0)
      /\ (y - 1) \div 100 \in Nat
  OBVIOUS
<1>3. /\ y \div 400 = (y - 1) \div 400 + (IF y % 400 = 0 THEN 1 ELSE 0)
      /\ (y - 1) \div 400 \in Nat
  OBVIOUS
<1>4. (y % 400 = 0 => y % 100 = 0) /\ (y % 100 = 0 => y % 4 = 0)
  OBVIOUS
<1>5. (y + 1) - 1 = y
  OBVIOUS
<1>6. LeapYears(y + 1) = LeapYears(y) + (IF isLeapYear(y) THEN 1 ELSE 0)
  BY <1>1, <1>2, <1>3, <1>4, <1>5 DEF LeapYears, isLeapYear
<1>7. LeapYears(y) \in Int
  BY <1>1, <1>2, <1>3 DEF LeapYears
<1>8. DaysInYear * ((y + 1) - 1970) = DaysInYear * (y - 1970) + 365
  BY DEF DaysInYear
<1>9. DaysInYear * (y - 1970) \in Int
  BY DEF DaysInYear
<1> QED
  BY <1>6, <1>7, <1>8, <1>9 DEF YearStart, LengthOfYear

\* Until 2039 every fourth year is a leap year.
LEMMA YearStartIs ==
    ASSUME NEW y \in Years
    PROVE  /\ YearStart(y) = 365 * (y - 1970) + ((y - 1) \div 4 - 492)
           /\ YearStart(y) \in Nat
           /\ isLeapYear(y) <=> y % 4 = 0
<1>1. (y - 1) \div 100 - (y - 1) \div 400 = 15
  <2>1. CASE y <= 2000
    <3>1. (y - 1) \div 100 = 19 /\ (y - 1) \div 400 = 4
      BY <2>1 DEF Years
    <3> QED
      BY <3>1
  <2>2. CASE y >= 2001
    <3>1. (y - 1) \div 100 = 20 /\ (y - 1) \div 400 = 5
      BY <2>2 DEF Years
    <3> QED
      BY <3>1
  <2> QED
    BY <2>1, <2>2 DEF Years
<1>2. LeapYears(y) = (y - 1) \div 4 - 492
  <2>1. (y - 1) \div 4 \in Int /\ (y - 1) \div 100 \in Int /\ (y - 1) \div 400 \in Int
    BY DEF Years
  <2> QED
    BY <1>1, <2>1 DEF LeapYears
<1>3. (y - 1) \div 4 >= 492 /\ (y - 1) \div 4 \in Int
  BY DEF Years
<1>4. y % 100 = 0 => y = 2000
  BY DEF Years
<1>5. isLeapYear(y) <=> y % 4 = 0
  BY <1>4 DEF isLeapYear, Years
<1>6. YearStart(y) = 365 * (y - 1970) + ((y - 1) \div 4 - 492)
  BY <1>2 DEF YearStart, DaysInYear
<1>7. 365 * (y - 1970) \in Nat
  BY DEF Years
<1> QED
  BY <1>3, <1>5, <1>6, <1>7

LEMMA YearsApart ==
    ASSUME NEW y \in Years, NEW z \in Years, y < z
    PROVE  YearStart(y) + 365 <= YearStart(z)
<1>1. /\ YearStart(y) = 365 * (y - 1970) + ((y - 1) \div 4 - 492)
      /\ YearStart(z) = 365 * (z - 1970) + ((z - 1) \div 4 - 492)
  BY YearStartIs
<1>2. (y - 1) \div 4 <= (z - 1) \div 4 /\ (y - 1) \div 4 \in Int /\ (z - 1) \div 4 \in Int
  BY DEF Years
<1>3. 365 * (y - 1970) + 365 <= 365 * (z - 1970) /\ 365 * (y - 1970) \in Int /\ 365 * (z - 1970) \in Int
  BY DEF Years
<1> QED
  BY <1>1, <1>2, <1>3

FirstYear == 1970
SumsYears(g, y) ==
    g = [x \in FirstYear..y |-> IF x = FirstYear THEN 0 ELSE g[x - 1] + LengthOfYear(x - 1)]

Summed(y) == CHOOSE g : SumsYears(g, y)

\* The code's formula is the sum of the lengths of the years before.
LEMMA DaysBeforeYearIs ==
    ASSUME NEW y \in Years
    PROVE  DaysBeforeYear(y) = YearStart(y)
<1> DEFINE before == Summed(y)
           starts == [x \in FirstYear..y |-> YearStart(x)]
           T == {x \in FirstYear..y : before[x] # YearStart(x)}
<1>1. y \in Nat /\ \A x \in FirstYear..y : x \in Years /\ x \in Nat
  BY DEF Years, FirstYear
<1>2. YearStart(FirstYear) = 0
  <2>1. 1970 \in Years
    BY DEF Years, FirstYear
  <2>2. YearStart(1970) = 365 * (1970 - 1970) + ((1970 - 1) \div 4 - 492)
    BY <2>1, YearStartIs
  <2> QED
    BY <2>2 DEF FirstYear
<1>3. \A x \in FirstYear..y : x # FirstYear =>
         /\ x - 1 \in FirstYear..y
         /\ YearStart(x) = YearStart(x - 1) + LengthOfYear(x - 1)
  <2> SUFFICES ASSUME NEW x \in FirstYear..y, x # FirstYear
               PROVE  /\ x - 1 \in FirstYear..y
                      /\ YearStart(x) = YearStart(x - 1) + LengthOfYear(x - 1)
    OBVIOUS
  <2>1. x - 1 \in Nat /\ x - 1 >= 1970 /\ (x - 1) + 1 = x /\ x - 1 \in FirstYear..y
    BY <1>1 DEF FirstYear
  <2>2. YearStart((x - 1) + 1) = YearStart(x - 1) + LengthOfYear(x - 1)
    BY <2>1, YearStep
  <2> QED
    BY <2>1, <2>2
<1>4. SumsYears(starts, y)
  <2>1. \A x \in FirstYear..y :
           starts[x] = IF x = FirstYear THEN 0 ELSE starts[x - 1] + LengthOfYear(x - 1)
    BY <1>2, <1>3
  <2> QED
    BY <2>1 DEF SumsYears
<1>5. SumsYears(before, y)
  BY <1>4 DEF Summed
<1>6. DaysBeforeYear(y) = before[y]
  BY DEF DaysBeforeYear, Summed, SumsYears, FirstYear
<1> HIDE DEF before
<1>7. \A x \in FirstYear..y : before[x] = IF x = FirstYear THEN 0 ELSE before[x - 1] + LengthOfYear(x - 1)
  <2>1. before = [x \in FirstYear..y |-> IF x = FirstYear THEN 0 ELSE before[x - 1] + LengthOfYear(x - 1)]
    BY <1>5, Zenon DEF SumsYears
  <2> QED
    BY <2>1, Zenon
<1>8. ASSUME T # {} PROVE FALSE
  <2>1. PICK x \in T : \A z \in T : x <= z
    <3>1. T \subseteq Nat
      BY <1>1
    <3> HIDE DEF T
    <3> QED
      BY <1>8, <3>1, Least
  <2>2. x # FirstYear
    BY <1>2, <1>7, <2>1
  <2>3. x - 1 \in FirstYear..y /\ x \in Nat /\ ~(x <= x - 1)
    BY <1>1, <1>3, <2>1, <2>2
  <2>4. before[x - 1] = YearStart(x - 1)
    BY <2>1, <2>3
  <2> QED
    BY <1>3, <1>7, <2>1, <2>2, <2>4
<1>9. y \in FirstYear..y
  BY DEF Years, FirstYear
<1> QED
  BY <1>6, <1>8, <1>9

-----------------------------------------------------------------------------
(***************************************************************************)
(* The days before a month.                                                *)
(***************************************************************************)
Leap(y) == IF isLeapYear(y) THEN 1 ELSE 0

LEMMA MonthStarts ==
    ASSUME NEW y
    PROVE  /\ MonthStart(y, 0) = 0 /\ MonthStart(y, 1) = 31
           /\ MonthStart(y, 2) = 59 + Leap(y) /\ MonthStart(y, 3) = 90 + Leap(y)
           /\ MonthStart(y, 4) = 120 + Leap(y) /\ MonthStart(y, 5) = 151 + Leap(y)
           /\ MonthStart(y, 6) = 181 + Leap(y) /\ MonthStart(y, 7) = 212 + Leap(y)
           /\ MonthStart(y, 8) = 243 + Leap(y) /\ MonthStart(y, 9) = 273 + Leap(y)
           /\ MonthStart(y, 10) = 304 + Leap(y) /\ MonthStart(y, 11) = 334 + Leap(y)
           /\ MonthStart(y, 12) = 365 + Leap(y)
<1>1. /\ FirstDays[1] = 0 /\ FirstDays[2] = 31 /\ FirstDays[3] = 59 /\ FirstDays[4] = 90
      /\ FirstDays[5] = 120 /\ FirstDays[6] = 151 /\ FirstDays[7] = 181 /\ FirstDays[8] = 212
      /\ FirstDays[9] = 243 /\ FirstDays[10] = 273 /\ FirstDays[11] = 304 /\ FirstDays[12] = 334
      /\ FirstDays[13] = 365
  BY DEF FirstDays
<1> QED
  BY <1>1 DEF MonthStart, Leap

LEMMA MonthLengths ==
    ASSUME NEW y
    PROVE  /\ DaysPerMonth[1] = 31 /\ DaysPerMonth[2] = 28 /\ DaysPerMonth[3] = 31
           /\ DaysPerMonth[4] = 30 /\ DaysPerMonth[5] = 31 /\ DaysPerMonth[6] = 30
           /\ DaysPerMonth[7] = 31 /\ DaysPerMonth[8] = 31 /\ DaysPerMonth[9] = 30
           /\ DaysPerMonth[10] = 31 /\ DaysPerMonth[11] = 30 /\ DaysPerMonth[12] = 31
           /\ LengthOf(y, 2) = 28 + Leap(y)
           /\ \A m \in 1..12 : m # 2 => LengthOf(y, m) = DaysPerMonth[m]
<1>1. /\ DaysPerMonth[1] = 31 /\ DaysPerMonth[2] = 28 /\ DaysPerMonth[3] = 31
      /\ DaysPerMonth[4] = 30 /\ DaysPerMonth[5] = 31 /\ DaysPerMonth[6] = 30
      /\ DaysPerMonth[7] = 31 /\ DaysPerMonth[8] = 31 /\ DaysPerMonth[9] = 30
      /\ DaysPerMonth[10] = 31 /\ DaysPerMonth[11] = 30 /\ DaysPerMonth[12] = 31
  BY DEF DaysPerMonth
<1>2. LengthOf(y, 2) = 28 + Leap(y)
  BY DEF LengthOf, Leap
<1>3. \A m \in 1..12 : m # 2 => LengthOf(y, m) = DaysPerMonth[m]
  BY <1>1 DEF LengthOf
<1> QED
  BY <1>1, <1>2, <1>3

\* A month begins where the one before it ends.
LEMMA MonthStep ==
    ASSUME NEW y, NEW m \in 0..11, NEW k \in 1..12, k = m + 1
    PROVE  /\ MonthStart(y, k) = MonthStart(y, m) + LengthOf(y, k)
           /\ MonthStart(y, m) \in Nat /\ MonthStart(y, k) \in Nat
           /\ DaysPerMonth[k] \in 28..31
           /\ LengthOf(y, k) = DaysPerMonth[k] + IF k = 2 THEN Leap(y) ELSE 0
<1>1. Leap(y) \in 0..1
  BY DEF Leap
<1>2. DaysPerMonth[k] \in 28..31
  BY MonthLengths
<1>3. LengthOf(y, k) = DaysPerMonth[k] + IF k = 2 THEN Leap(y) ELSE 0
  BY <1>2, MonthLengths
<1>4. MonthStart(y, m) \in Nat /\ MonthStart(y, k) \in Nat
  BY <1>1, MonthStarts
<1>5. MonthStart(y, k) = MonthStart(y, m) + DaysPerMonth[k] + IF k = 2 THEN Leap(y) ELSE 0
  BY <1>1, MonthStarts, MonthLengths
<1> QED
  BY <1>1, <1>2, <1>3, <1>4, <1>5

LEMMA MonthsApart ==
    ASSUME NEW y, NEW k \in 0..11, NEW m \in 0..11, k < m
    PROVE  MonthStart(y, k) + DaysPerMonth[k + 1] <= MonthStart(y, m)
<1>1. Leap(y) \in 0..1
  BY DEF Leap
<1> QED
  BY <1>1, MonthStarts, MonthLengths

FirstMonth == 1
SumsMonths(g, y, m) ==
    g = [k \in FirstMonth..m |->
            IF k = FirstMonth THEN DaysBeforeYear(y) ELSE g[k - 1] + LengthOf(y, k - 1)]
MonthsSummed(y, m) == CHOOSE g : SumsMonths(g, y, m)

\* The code's table is the sum of the lengths of the months before.
LEMMA DaysBeforeMonthIs ==
    ASSUME NEW y \in Years, NEW m \in 1..12
    PROVE  DaysBeforeMonth(y, m) = YearStart(y) + MonthStart(y, m - 1)
<1> DEFINE before == MonthsSummed(y, m)
           day(k) == YearStart(y) + MonthStart(y, k - 1)
           starts == [k \in FirstMonth..m |-> day(k)]
           T == {k \in FirstMonth..m : before[k] # day(k)}
<1>1. \A k \in FirstMonth..m : k \in 1..12
  BY DEF FirstMonth
<1>2. YearStart(y) \in Nat
  BY YearStartIs
<1>3. day(FirstMonth) = DaysBeforeYear(y)
  BY <1>2, MonthStarts, DaysBeforeYearIs DEF FirstMonth
<1>4. \A k \in FirstMonth..m : k # FirstMonth =>
         k - 1 \in FirstMonth..m /\ day(k) = day(k - 1) + LengthOf(y, k - 1)
  <2> SUFFICES ASSUME NEW k \in FirstMonth..m, k # FirstMonth
               PROVE  k - 1 \in FirstMonth..m /\ day(k) = day(k - 1) + LengthOf(y, k - 1)
    OBVIOUS
  <2> DEFINE m1 == (k - 1) - 1
             k1 == k - 1
  <2>1. m1 \in 0..11 /\ k1 \in 1..12 /\ k1 = m1 + 1 /\ k - 1 \in FirstMonth..m
    BY DEF FirstMonth
  <2>2. LengthOf(y, k1) \in Int
    BY DEF LengthOf
  <2>3. /\ MonthStart(y, k1) = MonthStart(y, m1) + LengthOf(y, k1)
        /\ MonthStart(y, m1) \in Nat /\ MonthStart(y, k1) \in Nat
    <3> HIDE DEF m1, k1
    <3> QED
      BY <2>1, MonthStep
  <2> QED
    BY <1>2, <2>1, <2>2, <2>3
<1> HIDE DEF day
<1>5. SumsMonths(starts, y, m)
  <2>1. \A k \in FirstMonth..m :
           starts[k] = IF k = FirstMonth THEN DaysBeforeYear(y) ELSE starts[k - 1] + LengthOf(y, k - 1)
    BY <1>3, <1>4
  <2> QED
    BY <2>1 DEF SumsMonths
<1>6. SumsMonths(before, y, m)
  BY <1>5 DEF MonthsSummed
<1>7. DaysBeforeMonth(y, m) = before[m]
  BY DEF DaysBeforeMonth, MonthsSummed, SumsMonths, FirstMonth
<1> HIDE DEF before
<1>8. \A k \in FirstMonth..m :
         before[k] = IF k = FirstMonth THEN DaysBeforeYear(y) ELSE before[k - 1] + LengthOf(y, k - 1)
  <2>1. before = [k \in FirstMonth..m |->
                     IF k = FirstMonth THEN DaysBeforeYear(y) ELSE before[k - 1] + LengthOf(y, k - 1)]
    BY <1>6, Zenon DEF SumsMonths
  <2> QED
    BY <2>1, Zenon
<1>9. ASSUME T # {} PROVE FALSE
  <2>1. PICK k \in T : \A z \in T : k <= z
    <3>1. T \subseteq Nat
      BY <1>1
    <3> HIDE DEF T
    <3> QED
      BY <1>9, <3>1, Least
  <2>2. k # FirstMonth
    BY <1>3, <1>8, <2>1
  <2>3. k - 1 \in FirstMonth..m /\ k \in Nat /\ ~(k <= k - 1)
    BY <1>1, <1>4, <2>1, <2>2
  <2>4. before[k - 1] = day(k - 1)
    BY <2>1, <2>3
  <2> QED
    BY <1>4, <1>8, <2>1, <2>2, <2>4
<1>10. m \in FirstMonth..m
  BY DEF FirstMonth
<1> QED
  BY <1>7, <1>9, <1>10 DEF day

-----------------------------------------------------------------------------
(***************************************************************************)
(* The date of an instant.                                                 *)
(***************************************************************************)
Instants == {r \in Nat : r <= 2147483647}
Days == {n \in Nat : n <= 24855}
DayOf(r) == r \div SecondsInDay
SecondOf(r) == r % SecondsInDay

YearAt(n) ==
    LET e == 1970 + n \div 366
    IN  IF DaysBeforeYear(e + 1) <= n THEN e + 1 ELSE e
MonthAt(n) == Max({k \in 1..12 : DaysBeforeMonth(YearAt(n), k) <= n})

LEMMA CivilIs ==
    ASSUME NEW r
    PROVE  Civil(r) = [year |-> YearAt(DayOf(r)), month |-> MonthAt(DayOf(r)),
                       day |-> DayOf(r) - DaysBeforeMonth(YearAt(DayOf(r)), MonthAt(DayOf(r))) + 1,
                       dow |-> (DayOf(r) + Thursday) % 7, second |-> SecondOf(r)]
BY DEF Civil, YearAt, MonthAt, DayOf, SecondOf

LEMMA DayLength == SecondsInDay = 86400 /\ SecondsInHour = 3600
BY SMT DEF SecondsInDay, SecondsInHour

LEMMA Divides ==
    ASSUME NEW r \in Nat, NEW d \in Nat, d > 0
    PROVE  /\ r = d * (r \div d) + (r % d)
           /\ (r \div d) \in Nat /\ (r % d) \in Nat /\ r % d < d
BY SMT

LEMMA DayAndSecond ==
    ASSUME NEW r \in Instants
    PROVE  /\ r = 86400 * DayOf(r) + SecondOf(r)
           /\ DayOf(r) \in Days /\ SecondOf(r) \in Nat /\ SecondOf(r) < 86400
<1>1. r \in Nat /\ r <= 2147483647
  BY SMT DEF Instants
<1>2. SecondsInDay \in Nat /\ SecondsInDay > 0
  BY DayLength, SMT
<1>3. /\ r = SecondsInDay * DayOf(r) + SecondOf(r)
      /\ DayOf(r) \in Nat /\ SecondOf(r) \in Nat /\ SecondOf(r) < SecondsInDay
  BY <1>1, <1>2, Divides, SMT DEF DayOf, SecondOf
<1>4. r = 86400 * DayOf(r) + SecondOf(r) /\ SecondOf(r) < 86400
  BY <1>3, DayLength, SMT
<1>5. DayOf(r) <= 24855
  BY <1>1, <1>3, <1>4, SMT
<1> QED
  BY <1>3, <1>4, <1>5, SMT DEF Days

LEMMA YearAtIs ==
    ASSUME NEW n \in Days
    PROVE  /\ YearAt(n) \in 1970..2038
           /\ YearStart(YearAt(n)) <= n /\ n < YearStart(YearAt(n) + 1)
<1> DEFINE q == n \div 366
           e == 1970 + q
<1>1. q \in Nat /\ q <= 67 /\ 366 * q <= n /\ n < 366 * q + 366 /\ n \in Nat
  <2>1. n \in Int /\ 0 <= n /\ n <= 24855
    BY SMT DEF Days
  <2>2. q \in Int /\ 366 * q <= n /\ n < 366 * q + 366
    BY <2>1, SMT
  <2> HIDE DEF q
  <2> QED
    BY <2>1, <2>2, SMT
<1> HIDE DEF q
<1>2. e \in Years /\ e + 1 \in Years /\ (e + 1) + 1 \in Years /\ e \in 1970..2037
  BY <1>1 DEF Years
<1>3. YearStart(e) <= n
  <2>1. YearStart(e) = 365 * (e - 1970) + ((e - 1) \div 4 - 492)
    BY <1>2, YearStartIs
  <2>2. (e - 1) \div 4 - 492 <= q /\ (e - 1) \div 4 \in Int /\ e - 1970 = q
    BY <1>1
  <2> QED
    BY <1>1, <2>1, <2>2
<1>4. n < YearStart((e + 1) + 1)
  <2>1. YearStart((e + 1) + 1) = 365 * (((e + 1) + 1) - 1970) + ((((e + 1) + 1) - 1) \div 4 - 492)
    BY <1>2, YearStartIs
  <2>2. /\ (((e + 1) + 1) - 1) \div 4 >= 492 /\ (((e + 1) + 1) - 1) \div 4 \in Int
        /\ ((e + 1) + 1) - 1970 = q + 2
    BY <1>1
  <2> QED
    BY <1>1, <2>1, <2>2
<1>5. DaysBeforeYear(e + 1) = YearStart(e + 1) /\ YearStart(e + 1) \in Nat
  BY <1>2, DaysBeforeYearIs, YearStartIs
<1>6. YearAt(n) = IF YearStart(e + 1) <= n THEN e + 1 ELSE e
  BY <1>5 DEF YearAt, q
<1>7. e \in 1970..2038 /\ e + 1 \in 1970..2038
  BY <1>2
<1>8. n \in Int
  BY <1>1
<1> HIDE DEF e
<1>9. CASE YearStart(e + 1) <= n
  <2>1. YearAt(n) = e + 1
    BY <1>6, <1>9
  <2> QED
    BY <1>4, <1>7, <1>9, <2>1
<1>10. CASE ~(YearStart(e + 1) <= n)
  <2>1. YearAt(n) = e
    BY <1>6, <1>10
  <2>2. n < YearStart(e + 1)
    BY <1>5, <1>8, <1>10
  <2> QED
    BY <1>3, <1>7, <2>1, <2>2
<1> QED
  BY <1>9, <1>10

LEMMA MonthAtIs ==
    ASSUME NEW n \in Days, NEW y, y = YearAt(n), NEW m, m = MonthAt(n)
    PROVE  /\ m \in 1..12
           /\ DaysBeforeMonth(y, m) = YearStart(y) + MonthStart(y, m - 1)
           /\ YearStart(y) + MonthStart(y, m - 1) <= n
           /\ n < YearStart(y) + MonthStart(y, m)
<1> DEFINE T == {k \in 1..12 : DaysBeforeMonth(y, k) <= n}
<1>1. /\ y \in 1970..2038 /\ y \in Years /\ y + 1 \in Years
      /\ YearStart(y) <= n /\ n < YearStart(y + 1)
  BY YearAtIs DEF Years
<1>2. YearStart(y) \in Nat /\ YearStart(y + 1) \in Nat
  BY <1>1, YearStartIs
<1>3. \A k \in 1..12 : DaysBeforeMonth(y, k) = YearStart(y) + MonthStart(y, k - 1)
  BY <1>1, DaysBeforeMonthIs
<1>4. 1 \in T
  <2>1. 1 \in 1..12 /\ 1 - 1 = 0
    OBVIOUS
  <2>2. DaysBeforeMonth(y, 1) = YearStart(y) + MonthStart(y, 0)
    BY <1>3, <2>1
  <2> QED
    BY <1>1, <1>2, <2>1, <2>2, MonthStarts
<1>5. T \subseteq 0..12
  OBVIOUS
<1>6. m = Max(T)
  BY DEF MonthAt
<1>7. m \in T /\ \A k \in T : m >= k
  <2>1. 12 \in Nat /\ T # {}
    BY <1>4
  <2> HIDE DEF T
  <2> QED
    BY <1>5, <1>6, <2>1, Greatest
<1>8. m \in 1..12 /\ DaysBeforeMonth(y, m) <= n
  BY <1>7
<1>9. n < YearStart(y) + MonthStart(y, m)
  <2>1. CASE m = 12
    <3>1. YearStart(y + 1) = YearStart(y) + LengthOfYear(y)
      BY <1>1, YearStep DEF Years
    <3>2. LengthOfYear(y) = MonthStart(y, 12)
      BY MonthStarts DEF LengthOfYear, Leap
    <3>3. n < YearStart(y) + MonthStart(y, 12)
      BY <1>1, <3>1, <3>2
    <3> QED
      BY <2>1, <3>3, Zenon
  <2>2. CASE m # 12
    <3> DEFINE k == m + 1
    <3>1. k \in 1..12 /\ ~(m >= k) /\ k - 1 = m
      BY <1>8, <2>2
    <3>2. k \notin T
      BY <1>7, <3>1
    <3>3. ~(DaysBeforeMonth(y, k) <= n)
      BY <3>1, <3>2
    <3>4. DaysBeforeMonth(y, k) = YearStart(y) + MonthStart(y, m)
      BY <1>3, <3>1
    <3>5. MonthStart(y, m) \in Nat
      <4>1. m - 1 \in 0..11 /\ m = (m - 1) + 1
        BY <1>8
      <4> QED
        BY <1>8, <4>1, MonthStep
    <3>6. n \in Nat
      BY DEF Days
    <3> QED
      BY <1>2, <3>3, <3>4, <3>5, <3>6
  <2> QED
    BY <2>1, <2>2
<1> QED
  BY <1>3, <1>8, <1>9

-----------------------------------------------------------------------------
(***************************************************************************)
(* What the loops of recalculate() find.                                   *)
(***************************************************************************)
\* What a regular instant is, by its day and second.
LEMMA RegularIs ==
    ASSUME NEW r \in Instants, Regular(r),
           NEW n, n = DayOf(r), NEW s, s = SecondOf(r), NEW y, y = YearAt(n), NEW m, m = MonthAt(n)
    PROVE  /\ ~(m = 2 /\ n = YearStart(y) + MonthStart(y, 1) + 28)
           /\ ~(isLeapYear(y) /\ n = YearStart(y) + 365 /\ s > 0)
           /\ ~(n = YearStart(y) /\ s = 0 /\ ~isLeapYear(y - 1))
<1>1. n \in Days /\ n \in Nat
  BY DayAndSecond DEF Days
<1>2. /\ m \in 1..12
      /\ DaysBeforeMonth(y, m) = YearStart(y) + MonthStart(y, m - 1)
      /\ YearStart(y) + MonthStart(y, m - 1) <= n
      /\ n < YearStart(y) + MonthStart(y, m)
  BY <1>1, MonthAtIs
<1>3. y \in Years
  BY <1>1, YearAtIs DEF Years
<1>4. YearStart(y) \in Nat /\ Leap(y) \in Nat /\ Leap(y) <= 1
  BY <1>3, YearStartIs DEF Leap
<1>5. MonthStart(y, m - 1) \in Nat
  <2>1. \A k \in 0..12 : MonthStart(y, k) \in Nat
    BY <1>4, MonthStarts
  <2>2. m - 1 \in 0..12
    BY <1>2
  <2> QED
    BY <2>1, <2>2
<1> DEFINE day == n - DaysBeforeMonth(y, m) + 1
<1>6. /\ ~(m = 2 /\ day = 29)
      /\ ~(m = 12 /\ day = 31 /\ isLeapYear(y) /\ s > 0)
      /\ ~(m = 1 /\ day = 1 /\ s = 0 /\ ~isLeapYear(y - 1))
  BY CivilIs DEF Regular
<1>7. m = 2 => DaysBeforeMonth(y, m) = YearStart(y) + MonthStart(y, 1)
  BY <1>2
<1>8. MonthStart(y, 1) = 31
  BY MonthStarts
<1>9. ~(m = 2 /\ n = YearStart(y) + MonthStart(y, 1) + 28)
  BY <1>1, <1>4, <1>6, <1>7, <1>8
<1>10. ASSUME isLeapYear(y), n = YearStart(y) + 365 PROVE m = 12 /\ day = 31
  <2>1. Leap(y) = 1
    BY <1>10 DEF Leap
  <2>2. m = 12
    <3>1. 365 < MonthStart(y, m) \/ MonthStart(y, m) \notin Int
      BY <1>2, <1>4, <1>10
    <3> QED
      BY <1>2, <2>1, <3>1, MonthStarts
  <2>3. MonthStart(y, m - 1) = 335
    BY <2>1, <2>2, MonthStarts
  <2> QED
    BY <1>2, <1>4, <1>10, <2>2, <2>3
<1>11. ASSUME n = YearStart(y) PROVE m = 1 /\ day = 1
  <2> DEFINE a == YearStart(y)
             b == MonthStart(y, m - 1)
  <2>1. MonthStart(y, m - 1) = 0
    <3>1. a + b <= a
      BY <1>2, <1>11
    <3>2. a \in Nat /\ b \in Nat
      BY <1>4, <1>5
    <3> HIDE DEF a, b
    <3>3. b = 0
      BY <3>1, <3>2
    <3> QED
      BY <3>3 DEF b
  <2>2. m = 1
    BY <1>2, <1>4, <2>1, MonthStarts
  <2>3. DaysBeforeMonth(y, m) = n
    <3>1. DaysBeforeMonth(y, m) = a + b /\ b = 0 /\ a \in Nat /\ a = n
      BY <1>2, <1>4, <1>11, <2>1
    <3> HIDE DEF a, b
    <3> QED
      BY <3>1
  <2> QED
    BY <1>1, <2>2, <2>3
<1> QED
  BY <1>6, <1>9, <1>10, <1>11

\* The first year that the instant is not more than 365 days after is its own.
LEMMA YearOfIs ==
    ASSUME NEW r \in Instants, Regular(r)
    PROVE  YearOf(r) = YearAt(DayOf(r))
<1> DEFINE n == DayOf(r)
           s == SecondOf(r)
           y == YearAt(n)
           T == {x \in 1970..(LastYear + 1) :
                    r - YearStart(x) * SecondsInDay <= DaysInYear * SecondsInDay}
<1>1. r = 86400 * n + s /\ n \in Days /\ n \in Nat /\ s \in Nat /\ s < 86400
  BY DayAndSecond, SMT DEF Days
<1>2. /\ y \in 1970..2038 /\ y \in Years /\ y + 1 \in Years
      /\ YearStart(y) <= n /\ n < YearStart(y + 1)
  BY <1>1, YearAtIs DEF Years
<1>3. /\ ~(isLeapYear(y) /\ n = YearStart(y) + 365 /\ s > 0)
      /\ ~(n = YearStart(y) /\ s = 0 /\ ~isLeapYear(y - 1))
  BY RegularIs
<1>4. YearOf(r) = Min(T)
  BY DEF YearOf
<1>5. \A x \in Years : YearStart(x) \in Nat
  BY YearStartIs
<1>6. \A x \in Years : x \in T <=> x <= 2038 /\ r <= 86400 * YearStart(x) + 86400 * 365
  <2> SUFFICES ASSUME NEW x \in Years
               PROVE  x \in T <=> x <= 2038 /\ r <= 86400 * YearStart(x) + 86400 * 365
    OBVIOUS
  <2> DEFINE a == YearStart(x)
  <2>1. a \in Nat /\ r \in Nat
    BY <1>5, SMT DEF Instants
  <2>2. x \in 1970..(LastYear + 1) <=> x <= 2038
    BY SMT DEF Years, LastYear
  <2>3. a * SecondsInDay = 86400 * a /\ DaysInYear * SecondsInDay = 86400 * 365
    BY <2>1, DayLength, SMT DEF DaysInYear
  <2>4. x \in T <=> x <= 2038 /\ r - 86400 * a <= 86400 * 365
    <3>1. x \in T <=> x \in 1970..(LastYear + 1) /\ r - a * SecondsInDay <= DaysInYear * SecondsInDay
      OBVIOUS
    <3> HIDE DEF T, a
    <3> QED
      BY <2>2, <2>3, <3>1, SMT
  <2> HIDE DEF a, T
  <2>5. r - 86400 * a <= 86400 * 365 <=> r <= 86400 * a + 86400 * 365
    BY <2>1, SMT
  <2> QED
    BY <2>4, <2>5 DEF a
<1>7. T \subseteq Years
  BY SMT DEF Years, LastYear
<1> HIDE DEF T, n, s, y
<1>8. y \in T
  <2>1. y + 1 \in Nat /\ YearStart(y + 1) = YearStart(y) + LengthOfYear(y)
    BY <1>2, YearStep DEF Years
  <2>2. n <= YearStart(y) + 364 \/ (isLeapYear(y) /\ n = YearStart(y) + 365)
    BY <1>1, <1>2, <1>5, <2>1 DEF LengthOfYear
  <2>3. n <= YearStart(y) + 364 \/ (n = YearStart(y) + 365 /\ s = 0)
    BY <1>1, <1>3, <2>2
  <2>4. r <= 86400 * YearStart(y) + 86400 * 365
    BY <1>1, <1>2, <1>5, <2>3, SMT
  <2> QED
    BY <1>2, <1>6, <2>4
<1>9. ASSUME NEW x \in T PROVE y <= x
  <2>1. x \in Years /\ r <= 86400 * YearStart(x) + 86400 * 365
    BY <1>6, <1>7
  <2> SUFFICES ASSUME x < y PROVE FALSE
    BY <1>2, <2>1 DEF Years
  <2>2. YearStart(x) + 365 <= YearStart(y)
    BY <1>2, <2>1, YearsApart
  <2>3. n = YearStart(y) /\ s = 0 /\ YearStart(y) = YearStart(x) + 365
    BY <1>1, <1>2, <1>5, <2>1, <2>2, SMT
  <2>4. isLeapYear(y - 1)
    BY <1>3, <2>3
  <2>5. y - 1 \in Years /\ (y - 1) + 1 = y /\ y - 1 \in Nat /\ y - 1 >= 1970
    BY <1>2, <2>1 DEF Years
  <2>6. YearStart(y) = YearStart(y - 1) + LengthOfYear(y - 1)
    BY <2>5, YearStep
  <2>7. YearStart(y) = YearStart(y - 1) + 366
    BY <2>4, <2>6 DEF LengthOfYear
  <2>8. CASE x = y - 1
    BY <1>5, <2>1, <2>3, <2>7, <2>8
  <2>9. CASE x # y - 1
    <3>1. x < y - 1
      BY <1>2, <2>1, <2>9 DEF Years
    <3>2. YearStart(x) + 365 <= YearStart(y - 1)
      BY <2>1, <2>5, <3>1, YearsApart
    <3> QED
      BY <1>5, <2>1, <2>3, <2>5, <2>7, <3>2
  <2> QED
    BY <2>8, <2>9
<1>10. Min(T) = y
  <2>1. T \subseteq Int
    BY <1>7 DEF Years
  <2> QED
    BY <1>8, <1>9, <2>1, FirstIsMin
<1> QED
  BY <1>4, <1>10 DEF n, y

\* So with the months: on a regular day, each is over after its ordinary length.
LEMMA MonthOfIs ==
    ASSUME NEW r \in Instants, Regular(r), NEW y, y = YearAt(DayOf(r))
    PROVE  MonthOf(y, r - YearStart(y) * SecondsInDay) = MonthAt(DayOf(r)) - 1
<1> DEFINE n == DayOf(r)
           s == SecondOf(r)
           m == MonthAt(n)
           c == m - 1
           d == n - YearStart(y)
           q == r - YearStart(y) * SecondsInDay
           T == {k \in 0..12 :
                    LET left == q - MonthStart(y, k) * SecondsInDay
                    IN  k = 12 \/ left <= 0 \/ left < DaysPerMonth[k + 1] * SecondsInDay}
<1>1. r = 86400 * n + s /\ n \in Days /\ n \in Nat /\ s \in Nat /\ s < 86400
  BY DayAndSecond, SMT DEF Days
<1>2. y \in Years /\ YearStart(y) <= n /\ YearStart(y) \in Nat
  BY <1>1, YearAtIs, YearStartIs DEF Years
<1>3. d \in Nat /\ q = 86400 * d + s
  <2> DEFINE a == YearStart(y)
  <2>1. a * SecondsInDay = 86400 * a
    BY <1>2, DayLength, SMT
  <2> HIDE DEF a, n, s
  <2> QED
    BY <1>1, <1>2, <2>1, SMT DEF a
<1>4. /\ m \in 1..12 /\ c \in 0..11
      /\ YearStart(y) + MonthStart(y, c) <= n /\ n < YearStart(y) + MonthStart(y, m)
  BY <1>1, MonthAtIs
<1>5. ~(m = 2 /\ n = YearStart(y) + MonthStart(y, 1) + 28)
  BY RegularIs
<1>6. MonthOf(y, q) = Min(T)
  BY DEF MonthOf
<1>7. \A k \in 0..11 : MonthStart(y, k) \in Nat /\ DaysPerMonth[k + 1] \in Nat /\ DaysPerMonth[k + 1] >= 28
  <2> SUFFICES ASSUME NEW k \in 0..11
               PROVE  MonthStart(y, k) \in Nat /\ DaysPerMonth[k + 1] \in Nat /\ DaysPerMonth[k + 1] >= 28
    OBVIOUS
  <2> DEFINE k1 == k + 1
  <2>1. k1 \in 1..12 /\ k1 = k + 1
    OBVIOUS
  <2>2. MonthStart(y, k) \in Nat /\ DaysPerMonth[k1] \in 28..31
    <3> HIDE DEF k1
    <3> QED
      BY <2>1, MonthStep
  <2> QED
    BY <2>2
<1>8. \A k \in 0..11 :
         k \in T <=> q < 86400 * MonthStart(y, k) + 86400 * DaysPerMonth[k + 1]
  <2> SUFFICES ASSUME NEW k \in 0..11
               PROVE  k \in T <=> q < 86400 * MonthStart(y, k) + 86400 * DaysPerMonth[k + 1]
    OBVIOUS
  <2> DEFINE a == MonthStart(y, k)
             b == DaysPerMonth[k + 1]
  <2>1. a \in Nat /\ b \in Nat /\ b >= 28 /\ q \in Nat
    BY <1>1, <1>3, <1>7
  <2>2. k \in T <=> q - a * SecondsInDay <= 0 \/ q - a * SecondsInDay < b * SecondsInDay
    <3>1. k \in 0..12 /\ k # 12
      OBVIOUS
    <3> QED
      BY <3>1, Zenon
  <2>3. a * SecondsInDay = 86400 * a /\ b * SecondsInDay = 86400 * b
    BY <2>1, DayLength, SMT
  <2> HIDE DEF a, b, q, T
  <2> QED
    BY <2>1, <2>2, <2>3, SMT DEF a, b
<1>9. T \subseteq 0..12 /\ T \subseteq Int
  OBVIOUS
<1>10. d < MonthStart(y, c) + DaysPerMonth[m]
  <2>1. m = c + 1 /\ (c = 1 <=> m = 2)
    BY <1>4
  <2>2. /\ MonthStart(y, m) = MonthStart(y, c) + LengthOf(y, m)
        /\ MonthStart(y, c) \in Nat /\ DaysPerMonth[m] \in 28..31
        /\ LengthOf(y, m) = DaysPerMonth[m] + IF m = 2 THEN Leap(y) ELSE 0
    <3> HIDE DEF m, c
    <3> QED
      BY <1>4, <2>1, MonthStep
  <2>3. Leap(y) \in 0..1
    BY DEF Leap
  <2> DEFINE a == YearStart(y)
             b == MonthStart(y, c)
             l == DaysPerMonth[m]
  <2>4. d = n - a /\ a \in Nat /\ b \in Nat /\ l \in Nat
    BY <1>2, <2>2
  <2>5. CASE m = 2
    <3>1. l = 28 /\ b = MonthStart(y, 1)
      BY <2>1, <2>5, MonthLengths
    <3>2. n # a + b + 28
      BY <1>5, <2>5, <3>1
    <3>3. n < a + (b + (28 + Leap(y)))
      BY <1>4, <2>2, <2>5, <3>1
    <3> HIDE DEF a, b, l, n, m, d, c
    <3>4. n < a + b + 28
      BY <1>1, <2>3, <2>4, <3>2, <3>3
    <3>5. d < b + 28
      BY <1>1, <2>4, <3>4
    <3> QED
      BY <3>1, <3>5 DEF b, l
  <2>6. CASE m # 2
    <3>1. n < a + (b + l)
      <4>1. MonthStart(y, m) = b + l
        BY <2>2, <2>6
      <4> QED
        BY <1>4, <4>1
    <3> HIDE DEF a, b, l, n, m, d, c
    <3>2. d < b + l
      BY <1>1, <2>4, <3>1
    <3> QED
      BY <3>2 DEF b, l
  <2> QED
    BY <2>5, <2>6
<1>11. MonthStart(y, c) <= d
  <2> DEFINE a == YearStart(y)
             b == MonthStart(y, c)
  <2>1. a + b <= n /\ a \in Nat /\ b \in Nat /\ d = n - a
    BY <1>2, <1>4, <1>7
  <2> HIDE DEF a, b, n, d
  <2> QED
    BY <1>1, <2>1 DEF b
<1>12. c \in T
  <2> DEFINE a == MonthStart(y, c)
             b == DaysPerMonth[m]
  <2>1. d < a + b /\ a \in Nat /\ b \in Nat
    BY <1>4, <1>7, <1>10
  <2>2. c \in T <=> q < 86400 * a + 86400 * b
    <3>1. c + 1 = m
      BY <1>4
    <3> HIDE DEF T, q, c
    <3> QED
      BY <1>4, <1>8, <3>1
  <2> HIDE DEF a, b, T, c, d, q, n, s
  <2> QED
    BY <1>1, <1>3, <2>1, <2>2, SMT
<1>13. ASSUME NEW k \in T PROVE c <= k
  <2>1. k \in 0..12
    OBVIOUS
  <2> SUFFICES ASSUME k < c PROVE FALSE
    BY <1>4, <2>1
  <2>2. k \in 0..11
    BY <1>4, <2>1
  <2> DEFINE a == MonthStart(y, k)
             b == DaysPerMonth[k + 1]
             e == MonthStart(y, c)
  <2>3. a + b <= e
    <3> HIDE DEF c
    <3> QED
      BY <1>4, <2>2, MonthsApart
  <2>4. a \in Nat /\ b \in Nat /\ e \in Nat
    BY <1>4, <1>7, <2>2
  <2>5. q < 86400 * a + 86400 * b
    <3> HIDE DEF T, q
    <3> QED
      BY <1>8, <2>2
  <2>6. e <= d
    BY <1>11
  <2> HIDE DEF a, b, e, T, c, d, q, n, s
  <2> QED
    BY <1>1, <1>3, <2>3, <2>4, <2>5, <2>6, SMT
<1>14. c \in Int /\ Min(T) = c
  <2>1. c \in Int
    BY <1>4
  <2> HIDE DEF T, c
  <2> QED
    BY <1>9, <1>12, <1>13, <2>1, FirstIsMin
<1> QED
  BY <1>6, <1>14

LEMMA ClockIs ==
    ASSUME NEW s \in Nat, s < 86400
    PROVE  /\ (s \div 3600) \in Nat /\ s \div 3600 <= 23
           /\ (s \div 3600) * 3600 + ((s % 3600) \div 60) * 60 + (s % 60) = s
<1>1. /\ s = 3600 * (s \div 3600) + (s % 3600)
      /\ (s \div 3600) \in Nat /\ (s % 3600) \in Nat
  BY Divides, SMT
<1>2. /\ (s % 3600) = 60 * ((s % 3600) \div 60) + ((s % 3600) % 60)
      /\ ((s % 3600) \div 60) \in Nat
  BY <1>1, Divides, SMT
<1>3. (s % 3600) % 60 = s % 60
  BY SMT
<1>4. (s % 60) \in Nat
  BY Divides, SMT
<1> DEFINE a == s \div 3600
           b == s % 3600
           c == b \div 60
           e == s % 60
<1>5. s = 3600 * a + b /\ b = 60 * c + e /\ a \in Nat /\ b \in Nat /\ c \in Nat /\ e \in Nat
  BY <1>1, <1>2, <1>3, <1>4, SMT
<1> HIDE DEF a, b, c, e
<1>6. a <= 23 /\ a * 3600 + c * 60 + e = s
  BY <1>5, SMT
<1> QED
  BY <1>5, <1>6, SMT DEF a, b, c, e

\* At a regular instant the fields are those of the calendar.
LEMMA FieldsAreRight ==
    ASSUME NEW r \in Instants, Regular(r), NEW f, f = Fields(r), NEW c, c = Civil(r)
    PROVE  /\ f.year = c.year /\ f.month = c.month - 1 /\ f.day = c.day /\ f.dow = c.dow
           /\ f.hour \in Nat /\ f.hour <= 23
           /\ f.hour * SecondsInHour + f.minute * 60 + f.second = c.second
<1> DEFINE n == DayOf(r)
           s == SecondOf(r)
           y == YearAt(n)
           m == MonthAt(n)
           k == m - 1
           a == YearStart(y)
           b == MonthStart(y, k)
           q == r - a * SecondsInDay
           left == q - b * SecondsInDay
           day == Trunc(left, SecondsInDay) + 1
           inDay == left - (day - 1) * SecondsInDay
           g == n - (a + b)
<1>1. r = 86400 * n + s /\ n \in Nat /\ n \in Days /\ s \in Nat /\ s < 86400
  BY DayAndSecond, SMT DEF Days
<1>2. a \in Nat /\ b \in Nat /\ a + b <= n /\ DaysBeforeMonth(y, m) = a + b /\ m \in 1..12
  <2>1. y \in Years
    BY <1>1, YearAtIs DEF Years
  <2>2. a \in Nat
    BY <2>1, YearStartIs
  <2>3. m \in 1..12 /\ a + b <= n /\ DaysBeforeMonth(y, m) = a + b
    BY <1>1, MonthAtIs
  <2>4. Leap(y) \in 0..1
    BY DEF Leap
  <2>5. \A j \in 0..11 : MonthStart(y, j) \in Nat
    BY <2>4, MonthStarts
  <2>6. k \in 0..11
    BY <2>3
  <2>7. b \in Nat
    <3> HIDE DEF k
    <3> QED
      BY <2>5, <2>6
  <2> QED
    BY <2>2, <2>3, <2>7
<1>3. g \in Nat /\ left = 86400 * g + s
  <2>1. a * SecondsInDay = 86400 * a /\ b * SecondsInDay = 86400 * b
    <3> HIDE DEF a, b
    <3> QED
      BY <1>2, DayLength, SMT
  <2> HIDE DEF a, b, n, s
  <2> QED
    BY <1>1, <1>2, <2>1, SMT
<1>4. Trunc(left, SecondsInDay) = g
  <2> HIDE DEF left, g
  <2>1. left >= 0
    BY <1>1, <1>3, SMT
  <2>2. left \div SecondsInDay = g
    <3> DEFINE p == left \div SecondsInDay
               t == left % SecondsInDay
    <3>1. left \in Nat
      BY <1>1, <1>3, SMT
    <3>2. SecondsInDay \in Nat /\ SecondsInDay > 0
      BY DayLength, SMT
    <3>3. left = SecondsInDay * p + t /\ p \in Nat /\ t \in Nat /\ t < SecondsInDay
      BY <3>1, <3>2, Divides, SMT
    <3> HIDE DEF p, t, s
    <3>4. left = 86400 * p + t /\ t < 86400
      BY <3>3, DayLength, SMT
    <3>5. p = g
      BY <1>1, <1>3, <3>3, <3>4, SMT
    <3> QED
      BY <3>5 DEF p
  <2> QED
    BY <2>1, <2>2, Zenon DEF Trunc
<1>5. day = g + 1 /\ inDay = s /\ ~(left < 0)
  <2>1. day = g + 1
    BY <1>4, Zenon
  <2> HIDE DEF day
  <2>2. (day - 1) * SecondsInDay = 86400 * g
    <3> HIDE DEF g
    <3> QED
      BY <1>3, <2>1, DayLength, SMT
  <2> HIDE DEF g, left, s
  <2> QED
    BY <1>1, <1>3, <2>1, <2>2, SMT
<1>6. YearOf(r) = y /\ MonthOf(y, q) = k
  BY YearOfIs, MonthOfIs
<1>7. Fields(r) = [year |-> y, month |-> k, day |-> day,
                   hour |-> IF left < 0 THEN Undefined ELSE inDay \div SecondsInHour,
                   minute |-> IF left < 0 THEN Undefined ELSE (inDay % SecondsInHour) \div 60,
                   second |-> IF left < 0 THEN Undefined ELSE inDay % 60,
                   dow |-> (a + b + day - 1 + Thursday) % 7,
                   firstOfMonth |-> (a + b + Thursday) % 7,
                   weekOfMonth |-> (day + ((a + b + Thursday) % 7) + 1) \div 7]
  BY <1>6, Zenon DEF Fields
<1>8. /\ c.year = y /\ c.month = m /\ c.day = n - DaysBeforeMonth(y, m) + 1
      /\ c.dow = (n + Thursday) % 7 /\ c.second = s
  BY CivilIs
<1>9. /\ f.year = y /\ f.month = k /\ f.day = day /\ f.dow = (a + b + day - 1 + Thursday) % 7
      /\ f.hour = s \div 3600 /\ f.minute = (s % 3600) \div 60 /\ f.second = s % 60
  <2> HIDE DEF y, k, day, a, b, left, inDay, s
  <2> QED
    BY <1>5, <1>7, DayLength
<1>10. n - DaysBeforeMonth(y, m) + 1 = day /\ a + b + day - 1 + Thursday = n + Thursday
  <2>1. Thursday \in Nat
    BY DEF Thursday
  <2> DEFINE before == DaysBeforeMonth(y, m)
  <2>2. before = a + b /\ g = n - (a + b)
    BY <1>2
  <2> HIDE DEF a, b, n, day, g, before
  <2> QED
    BY <1>1, <1>2, <1>5, <2>1, <2>2 DEF before
<1>11. /\ (s \div 3600) \in Nat /\ s \div 3600 <= 23
       /\ (s \div 3600) * 3600 + ((s % 3600) \div 60) * 60 + (s % 60) = s
  BY <1>1, ClockIs
<1> HIDE DEF y, k, day, a, b, left, inDay, s, n, m
<1> QED
  BY <1>8, <1>9, <1>10, <1>11, DayLength DEF k

-----------------------------------------------------------------------------
(***************************************************************************)
(* The invariant, and the theorem.                                         *)
(***************************************************************************)
Offsets == {0, -5, 13}

\* The hour of a time with the flag is one more.
WithFlag(f, dst) == IF dst /\ f.hour # Undefined THEN [f EXCEPT !.hour = @ + 1] ELSE f

\* The object keeps within its window, and so does what it shows.
Kept ==
    /\ start \in Starts /\ d_time \in Int /\ InWindow(d_time) /\ d_tzOffset \in Offsets
    /\ shown.time \in Int /\ InWindow(shown.time) /\ shown.offset \in Offsets

\* The fields and the flag are those of one and the same recalculate().
Shows == fields = WithFlag(Fields(ShownLocal), d_isDST)

LEMMA LocalIsAnInstant ==
    ASSUME Kept
    PROVE  ShownLocal \in Instants
<1> DEFINE t == shown.time
           o == shown.offset
           w == start
<1>1. /\ w \in Nat /\ Window \in Nat /\ t \in Int /\ o \in Offsets
      /\ w - Window >= 5 * 3600 /\ w + Window + 13 * 3600 <= 2147483647
  BY DateTimeAssumption, SMT DEF Kept
<1>2. -Window <= t - w /\ t - w <= Window
  <2>1. t - w \in -Window..Window
    BY DEF Kept, InWindow
  <2> HIDE DEF t, w
  <2> QED
    BY <1>1, <2>1, SMT
<1>3. o \in Int /\ -5 <= o /\ o <= 13
  <2> HIDE DEF o
  <2> QED
    BY <1>1, SMT DEF Offsets
<1> HIDE DEF t, o, w
<1>4. t + o * 3600 \in Nat /\ t + o * 3600 <= 2147483647
  BY <1>1, <1>2, <1>3, SMT
<1>5. ShownLocal = t + o * 3600
  <2>1. ShownLocal = t + o * SecondsInHour
    BY Zenon DEF ShownLocal, Local, t, o
  <2> QED
    BY <2>1, DayLength
<1> QED
  BY <1>4, <1>5, SMT DEF Instants

LEMMA ShownIsRight ==
    ASSUME Kept, Shows
    PROVE  CalendarIsRight
<1> SUFFICES ASSUME Regular(ShownLocal)
             PROVE  LET c == Civil(ShownLocal)
                        standard == fields.hour - IF d_isDST THEN 1 ELSE 0
                    IN  /\ fields.year = c.year /\ fields.month = c.month - 1 /\ fields.day = c.day
                        /\ fields.dow = c.dow
                        /\ standard * SecondsInHour + fields.minute * 60 + fields.second = c.second
  BY DEF CalendarIsRight
<1> DEFINE f == Fields(ShownLocal)
           c == Civil(ShownLocal)
           standard == fields.hour - IF d_isDST THEN 1 ELSE 0
<1>1. /\ f.year = c.year /\ f.month = c.month - 1 /\ f.day = c.day /\ f.dow = c.dow
      /\ f.hour \in Nat /\ f.hour <= 23
      /\ f.hour * SecondsInHour + f.minute * 60 + f.second = c.second
  BY LocalIsAnInstant, FieldsAreRight
<1>2. /\ DOMAIN f = {"year", "month", "day", "hour", "minute", "second", "dow", "firstOfMonth",
                      "weekOfMonth"}
      /\ f = [x \in DOMAIN f |-> f[x]]
  BY DEF Fields
<1>3. fields = WithFlag(f, d_isDST)
  BY DEF Shows
<1> HIDE DEF f, c
<1>4. f.hour # Undefined
  BY <1>1 DEF Undefined
<1>5. CASE d_isDST
  <2>1. fields = [f EXCEPT !.hour = f.hour + 1]
    BY <1>3, <1>4, <1>5 DEF WithFlag
  <2>2. /\ fields.year = f.year /\ fields.month = f.month /\ fields.day = f.day
        /\ fields.dow = f.dow /\ fields.minute = f.minute /\ fields.second = f.second
        /\ fields.hour = f.hour + 1
    BY <1>2, <2>1
  <2>3. standard = f.hour
    BY <1>1, <1>5, <2>2
  <2> QED
    BY <1>1, <2>2, <2>3 DEF c
<1>6. CASE ~d_isDST
  <2>1. fields = f
    BY <1>3, <1>6 DEF WithFlag
  <2>2. standard = f.hour
    BY <1>1, <1>6, <2>1
  <2> QED
    BY <1>1, <2>1, <2>2 DEF c
<1> QED
  BY <1>5, <1>6

\* recalculate() leaves the object showing the instant it was called for.
LEMMA RecalculateShows ==
    ASSUME NEW time \in Int, NEW tz, NEW offset \in Offsets, NEW flag,
           recalculate(time, tz, offset, flag)
    PROVE  shown'.time = time /\ shown'.offset = offset /\ Shows'
<1>1. shown'.time = time /\ shown'.offset = offset
  BY DEF recalculate
<1>2. fields' = WithFlag(Fields(Local(time, offset)), d_isDST')
  BY Zenon DEF recalculate, WithFlag
<1>3. ShownLocal' = Local(time, offset)
  BY <1>1 DEF ShownLocal
<1> QED
  BY <1>1, <1>2, <1>3, Zenon DEF Shows

LEMMA InitKept == Init => Kept /\ Shows
<1> SUFFICES ASSUME Init PROVE Kept /\ Shows
  OBVIOUS
<1>1. /\ start \in Starts /\ d_time = start /\ d_tzOffset \in Offsets
      /\ shown.time = d_time /\ shown.offset = d_tzOffset
  BY DEF Init, Offsets
<1>2. start \in Int /\ Window \in Nat
  BY <1>1, DateTimeAssumption, SMT
<1>3. InWindow(d_time)
  BY <1>1, <1>2 DEF InWindow
<1>4. fields = WithFlag(Fields(Local(d_time, d_tzOffset)), d_isDST)
  BY Zenon DEF Init, WithFlag
<1>5. Kept
  BY <1>1, <1>2, <1>3, Zenon DEF Kept
<1> QED
  BY <1>1, <1>4, <1>5, Zenon DEF Shows, ShownLocal

LEMMA OffsetsAre == \A tz \in Timezones : Offset[tz] \in Offsets
BY DEF Timezones, Offset, Offsets

LEMMA NextKept == Kept /\ Shows /\ [Next]_vars => Kept' /\ Shows'
<1> SUFFICES ASSUME Kept, Shows, [Next]_vars
             PROVE  Kept' /\ Shows'
  OBVIOUS
<1>1. /\ start \in Starts /\ d_time \in Int /\ InWindow(d_time) /\ d_tzOffset \in Offsets
      /\ shown.time \in Int /\ InWindow(shown.time) /\ shown.offset \in Offsets
  BY DEF Kept
<1>2. ASSUME NEW seconds \in Int, Shift(seconds) PROVE Kept' /\ Shows'
  <2>1. /\ InWindow(d_time + seconds) /\ d_time' = d_time + seconds /\ d_time + seconds \in Int
        /\ recalculate(d_time + seconds, d_tz, d_tzOffset, d_isDST)
        /\ start' = start /\ d_tzOffset' = d_tzOffset
    BY <1>1, <1>2 DEF Shift
  <2>2. shown'.time = d_time' /\ shown'.offset = d_tzOffset /\ Shows'
    BY <1>1, <2>1, RecalculateShows
  <2>3. InWindow(d_time)'
    BY <2>1 DEF InWindow
  <2>4. InWindow(shown.time)'
    BY <2>2, <2>3 DEF InWindow
  <2> QED
    BY <1>1, <2>1, <2>2, <2>3, <2>4 DEF Kept
<1>3. ASSUME NEW tz \in Timezones, setTimezone(tz) PROVE Kept' /\ Shows'
  <2>1. /\ d_tzOffset' = Offset[tz] /\ recalculate(d_time, tz, Offset[tz], d_isDST)
        /\ start' = start /\ d_time' = d_time /\ Offset[tz] \in Offsets
    BY <1>3, OffsetsAre DEF setTimezone
  <2>2. shown'.time = d_time /\ shown'.offset = Offset[tz] /\ Shows'
    BY <1>1, <2>1, RecalculateShows
  <2>3. InWindow(d_time)' /\ InWindow(shown.time)'
    BY <1>1, <2>1, <2>2 DEF InWindow
  <2> QED
    BY <1>1, <2>1, <2>2, <2>3 DEF Kept
<1>4. CASE addDays
  <2>1. PICK n \in DaySteps : Shift(n * SecondsInDay)
    BY <1>4 DEF addDays
  <2>2. n * SecondsInDay \in Int
    BY DayLength, DateTimeAssumption, SMT
  <2> QED
    BY <1>2, <2>1, <2>2
<1>5. CASE addHours
  <2>1. PICK n \in HourSteps : Shift(n * SecondsInHour)
    BY <1>5 DEF addHours
  <2>2. n * SecondsInHour \in Int
    BY DayLength, DateTimeAssumption, SMT
  <2> QED
    BY <1>2, <2>1, <2>2
<1>6. CASE addMinutes
  <2>1. PICK n \in MinuteSteps : Shift(n * 60)
    BY <1>6 DEF addMinutes
  <2>2. n * 60 \in Int
    BY DateTimeAssumption, SMT
  <2> QED
    BY <1>2, <2>1, <2>2
<1>7. CASE addSeconds
  <2>1. PICK n \in SecondSteps :
           /\ InWindow(d_time + n) /\ d_time' = d_time + n
           /\ UNCHANGED <<start, d_tz, d_tzOffset, d_isDST, fields, shown>>
    BY <1>7 DEF addSeconds
  <2>2. d_time' \in Int
    BY <1>1, <2>1, DateTimeAssumption, SMT
  <2>3. InWindow(d_time)' /\ InWindow(shown.time)'
    BY <1>1, <2>1 DEF InWindow
  <2>4. Shows'
    BY <2>1 DEF Shows, ShownLocal
  <2> QED
    BY <1>1, <2>1, <2>2, <2>3, <2>4 DEF Kept
<1>8. CASE UNCHANGED vars
  BY <1>1, <1>8 DEF vars, Kept, Shows, ShownLocal, InWindow
<1> QED
  BY <1>3, <1>4, <1>5, <1>6, <1>7, <1>8 DEF Next

\* Whatever is asked of a DateTime and in whatever order, and wherever it starts
\* between 1970 and 2038, the year, the month, the day, the day of the week and
\* the time of day that recalculate() computes with its loops are those of the
\* calendar, but for the irregular instants.
THEOREM CalendarRight == Spec => []CalendarIsRight
<1>1. Init => Kept /\ Shows
  BY InitKept
<1>2. Kept /\ Shows /\ [Next]_vars => Kept' /\ Shows'
  BY NextKept
<1>3. Kept /\ Shows => CalendarIsRight
  BY ShownIsRight
<1> QED
  BY <1>1, <1>2, <1>3, PTL DEF Spec

\* The same, whether the behaviour is about an instant or about a document.
THEOREM ValuesCalendarRight == ValuesSpec => []CalendarIsRight
<1>1. DocumentInit \/ InstantInit => Kept /\ Shows
  BY InitKept, Zenon DEF DocumentInit, InstantInit
<1>2. [DocumentNext \/ InstantNext]_<<vars, documentVars>> => [Next]_vars
  BY Zenon DEF DocumentNext, InstantNext
<1>3. Kept /\ Shows /\ [Next]_vars => Kept' /\ Shows'
  BY NextKept
<1>4. Kept /\ Shows => CalendarIsRight
  BY ShownIsRight
<1> QED
  BY <1>1, <1>2, <1>3, <1>4, PTL DEF ValuesSpec

-----------------------------------------------------------------------------
(***************************************************************************)
(* Texts.                                                                  *)
(***************************************************************************)
\* Where white space ends.
Stops(i, S, j) ==
    /\ j \in i..(Len(document.text) + 1)
    /\ \A k \in i..(j - 1) : document.text[k] \in S
    /\ j <= Len(document.text) => document.text[j] \notin S

LEMMA SkipStops ==
    ASSUME Len(document.text) \in Nat, NEW i \in 1..(Len(document.text) + 1), NEW S
    PROVE  Stops(i, S, JSON!SkipFrom(i, S))
<1> DEFINE T == {j \in i..(Len(document.text) + 1) : j > Len(document.text) \/ document.text[j] \notin S}
           m == JSON!SkipFrom(i, S)
<1>1. Len(document.text) + 1 \in T
  OBVIOUS
<1>2. T \subseteq Nat
  OBVIOUS
<1> HIDE DEF T
<1>3. PICK x \in T : \A y \in T : x <= y
  BY <1>1, <1>2, Least
<1> USE DEF T
<1>4. m \in T /\ \A y \in T : m <= y
  BY <1>3 DEF JSON!SkipFrom, JSON!Min, JSON!text
<1>5. \A k \in i..(m - 1) : document.text[k] \in S
  <2> SUFFICES ASSUME NEW k \in i..(m - 1) PROVE document.text[k] \in S
    OBVIOUS
  <2>1. k \notin T /\ k \in i..(Len(document.text) + 1) /\ k <= Len(document.text)
    BY <1>4
  <2> QED
    BY <2>1
<1> QED
  BY <1>4, <1>5 DEF Stops

-----------------------------------------------------------------------------
(***************************************************************************)
(* Typed values.  A set of values that has the parts of each of them: that *)
(* what is decoded lies in such a set says that it is well-typed at every  *)
(* depth, without an induction over the depth.                             *)
(***************************************************************************)
LeafValues == {Leaf(t) : t \in JSON!Tokens}
Containers(V) ==
    {Array(s) : s \in Seq(V)} \cup {Object(m) : m \in Seq([key : Strings, value : V])}
Typed(V) == V \subseteq LeafValues \cup Containers(V)

Frames(V) == [value : Containers(V), key : Strings \cup {Empty}]

\* Calls of encode().
Calls(V) ==
    {b \in [kind : {"array", "object"}, left : Seq([key : Strings \cup {Empty}, value : V]),
            text : Seq(JSON!Tokens)] :
        b.kind = "object" => b.left \in Seq([key : Strings, value : V])}

LEMMA ContainerIs ==
    ASSUME NEW V, NEW c \in Containers(V)
    PROVE  \/ c.kind = "array" /\ c = Array(c.items) /\ c.items \in Seq(V)
           \/ c.kind = "object" /\ c = Object(c.members) /\ c.members \in Seq([key : Strings, value : V])
<1>1. CASE \E s \in Seq(V) : c = Array(s)
  BY <1>1 DEF Array
<1>2. CASE \E m \in Seq([key : Strings, value : V]) : c = Object(m)
  BY <1>2 DEF Object
<1> QED
  BY <1>1, <1>2 DEF Containers

LEMMA Grows ==
    ASSUME NEW V, NEW w, Typed(V), w \in LeafValues \cup Containers(V)
    PROVE  LET W == V \cup {w}
           IN  /\ Typed(W) /\ w \in W /\ V \subseteq W
               /\ Containers(V) \subseteq Containers(W)
               /\ Frames(V) \subseteq Frames(W)
               /\ Calls(V) \subseteq Calls(W)
<1> DEFINE W == V \cup {w}
<1>1. Seq(V) \subseteq Seq(W)
  <2>1. V \subseteq W
    OBVIOUS
  <2> QED
    BY <2>1, SeqMonotonic
<1>2. Seq([key : Strings, value : V]) \subseteq Seq([key : Strings, value : W])
  <2>1. [key : Strings, value : V] \subseteq [key : Strings, value : W]
    OBVIOUS
  <2> QED
    BY <2>1, SeqMonotonic
<1>3. Seq([key : Strings \cup {Empty}, value : V]) \subseteq Seq([key : Strings \cup {Empty}, value : W])
  <2>1. [key : Strings \cup {Empty}, value : V] \subseteq [key : Strings \cup {Empty}, value : W]
    OBVIOUS
  <2> QED
    BY <2>1, SeqMonotonic
<1>4. Containers(V) \subseteq Containers(W)
  BY <1>1, <1>2, Zenon DEF Containers
<1>5. Frames(V) \subseteq Frames(W)
  BY <1>4 DEF Frames
<1>6. Calls(V) \subseteq Calls(W)
  <2> SUFFICES ASSUME NEW b \in Calls(V) PROVE b \in Calls(W)
    OBVIOUS
  <2>1. b.left \in Seq([key : Strings \cup {Empty}, value : W])
    BY <1>3 DEF Calls
  <2>2. b.kind = "object" => b.left \in Seq([key : Strings, value : W])
    BY <1>2 DEF Calls
  <2> QED
    BY <2>1, <2>2 DEF Calls
<1>7. Typed(W)
  BY <1>4, Zenon DEF Typed
<1> QED
  BY <1>4, <1>5, <1>6, <1>7

LEMMA WithIs ==
    ASSUME NEW V, NEW f \in Frames(V), NEW v \in V,
           f.value.kind = "object" => f.key \in Strings
    PROVE  /\ JSON!With(f, v) \in Frames(V)
           /\ JSON!With(f, v).value.kind = f.value.kind
           /\ JSON!With(f, v).key = f.key
<1> DEFINE w == JSON!With(f, v)
<1>1. f = [value |-> f.value, key |-> f.key] /\ f.value \in Containers(V) /\ f.key \in Strings \cup {Empty}
  BY DEF Frames
<1>2. CASE f.value.kind = "array" /\ f.value = Array(f.value.items) /\ f.value.items \in Seq(V)
  <2> DEFINE s == f.value.items
  <2>1. Append(s, v) \in Seq(V)
    BY <1>2, AppendProperties
  <2>2. w = [f EXCEPT !.value.items = Append(@, v)]
    BY <1>2 DEF JSON!With
  <2>3. f.value = [kind |-> "array", items |-> s]
    BY <1>2 DEF Array
  <2> DEFINE c == [f.value EXCEPT !.items = Append(s, v)]
  <2>4. w = [f EXCEPT !.value = c]
    BY <2>2, Zenon
  <2> HIDE DEF s
  <2>5. c = [kind |-> "array", items |-> Append(s, v)]
    BY <2>3
  <2> HIDE DEF c
  <2>6. w = [value |-> c, key |-> f.key]
    BY <1>1, <2>4
  <2>7. Array(Append(s, v)) \in Containers(V)
    BY <2>1 DEF Containers
  <2> QED
    BY <1>1, <1>2, <2>5, <2>6, <2>7 DEF Frames, Array
<1>3. CASE f.value.kind = "object" /\ f.value = Object(f.value.members)
           /\ f.value.members \in Seq([key : Strings, value : V])
  <2> DEFINE s == f.value.members
             m == [key |-> f.key, value |-> v]
  <2>1. m \in [key : Strings, value : V]
    BY <1>3
  <2>2. Append(s, m) \in Seq([key : Strings, value : V])
    BY <1>3, <2>1, AppendProperties
  <2>3. w = f \/ w = [f EXCEPT !.value.members = Append(@, m)]
    BY <1>3, Zenon DEF JSON!With
  <2>4. f.value = [kind |-> "object", members |-> s]
    BY <1>3 DEF Object
  <2> DEFINE c == [f.value EXCEPT !.members = Append(s, m)]
  <2>5. w = f \/ w = [f EXCEPT !.value = c]
    BY <2>3, Zenon
  <2> HIDE DEF s
  <2>6. c = [kind |-> "object", members |-> Append(s, m)]
    BY <2>4
  <2> HIDE DEF c
  <2>7. w = f \/ w = [value |-> c, key |-> f.key]
    BY <1>1, <2>5
  <2>8. Object(Append(s, m)) \in Containers(V)
    BY <2>2 DEF Containers
  <2>9. c \in Containers(V) /\ c.kind = "object"
    BY <2>6, <2>8 DEF Object
  <2>10. w \in Frames(V) /\ w.value.kind = "object" /\ w.key = f.key
    BY <1>1, <1>3, <2>7, <2>9 DEF Frames
  <2> QED
    BY <1>3, <2>10
<1> QED
  BY <1>1, <1>2, <1>3, ContainerIs

LEMMA FrameIs ==
    ASSUME NEW V, NEW kind \in {"object", "array"}
    PROVE  JSON!Frame(kind) \in Frames(V) /\ JSON!Frame(kind).value.kind = kind
<1>1. Array(<<>>) \in Containers(V) /\ Object(<<>>) \in Containers(V)
  BY EmptySeq, Zenon DEF Containers
<1>2. Array(<<>>).kind = "array" /\ Object(<<>>).kind = "object"
  BY DEF Array, Object
<1> QED
  BY <1>1, <1>2, Zenon DEF JSON!Frame, Frames, JSON!Array, JSON!Object, Array, Object, JSON!Empty, Empty

-----------------------------------------------------------------------------
(***************************************************************************)
(* Buffers.                                                                *)
(***************************************************************************)
LEMMA CallFacts ==
    ASSUME NEW V, NEW b \in Calls(V)
    PROVE  /\ b \in [kind : {"array", "object"}, left : Seq([key : Strings \cup {Empty}, value : V]),
                    text : Seq(JSON!Tokens)]
           /\ b.kind = "object" => b.left \in Seq([key : Strings, value : V])
BY DEF Calls

LEMMA PutIs ==
    ASSUME NEW V, NEW b \in Calls(V), NEW t \in Seq(JSON!Tokens)
    PROVE  /\ JSON!Put(b, t) \in Calls(V)
           /\ JSON!Put(b, t).kind = b.kind /\ JSON!Put(b, t).left = b.left
           /\ JSON!Put(b, t).text = b.text \o t
<1> DEFINE p == JSON!Put(b, t)
<1>1. b.text \o t \in Seq(JSON!Tokens)
  BY ConcatProperties DEF Calls
<1>2. /\ b \in [kind : {"array", "object"}, left : Seq([key : Strings \cup {Empty}, value : V]),
                text : Seq(JSON!Tokens)]
      /\ b.kind = "object" => b.left \in Seq([key : Strings, value : V])
  BY CallFacts
<1>3. p = [b EXCEPT !.text = b.text \o t]
  BY Zenon DEF JSON!Put
<1>4. /\ p.kind = b.kind /\ p.left = b.left /\ p.text = b.text \o t
      /\ p = [kind |-> p.kind, left |-> p.left, text |-> p.text]
  BY <1>2, <1>3
<1> QED
  BY <1>1, <1>2, <1>4 DEF Calls

LEMMA TokensAre ==
    /\ Strings \subseteq JSON!Tokens
    /\ {"{", "}", "[", "]", ",", ":", "nl", "sp"} \subseteq JSON!Tokens
    /\ \A t \in JSON!Tokens : JSON!ReadAs(t) \in JSON!Tokens /\ JSON!WrittenAs(t) \in JSON!Tokens
    /\ \A t \in JSON!Tokens : JSON!Atoi(t) \in JSON!Tokens
    /\ JSON!Other \in JSON!Tokens
BY DEF JSON!Tokens, JSON!Marks, JSON!Scalars, JSON!Words, JSON!Ints, JSON!Digits, JSON!ReadAs, JSON!WrittenAs,
       JSON!Atoi

LEMMA ShortTexts ==
    /\ \A t \in JSON!Tokens : <<t>> \in Seq(JSON!Tokens)
    /\ \A t, u \in JSON!Tokens : <<t, u>> \in Seq(JSON!Tokens)
    /\ \A t, u, w \in JSON!Tokens : <<t, u, w>> \in Seq(JSON!Tokens)
OBVIOUS

LEMMA CommaIs ==
    ASSUME NEW V, NEW b \in Calls(V)
    PROVE  /\ JSON!Comma(b) \in Calls(V)
           /\ JSON!Comma(b).kind = b.kind /\ JSON!Comma(b).left = b.left
<1>1. <<",">> \in Seq(JSON!Tokens)
  BY TokensAre, ShortTexts, Zenon
<1>2. /\ JSON!Put(b, <<",">>) \in Calls(V) /\ JSON!Put(b, <<",">>).kind = b.kind
      /\ JSON!Put(b, <<",">>).left = b.left
  BY <1>1, PutIs
<1>3. JSON!Comma(b) = b \/ JSON!Comma(b) = JSON!Put(b, <<",">>)
  BY Zenon DEF JSON!Comma
<1> QED
  BY <1>2, <1>3, Zenon

LEMMA PutKeyIs ==
    ASSUME NEW V, NEW b \in Calls(V), NEW key \in Strings
    PROVE  /\ JSON!PutKey(b, key) \in Calls(V)
           /\ JSON!PutKey(b, key).kind = b.kind /\ JSON!PutKey(b, key).left = b.left
<1> DEFINE room == JSON!Comma(b)
           line == JSON!Put(room, <<"nl", "sp", "sp">>)
           start1 == IF Len(buffers) = 1 THEN room ELSE line
<1>1. <<"nl", "sp", "sp">> \in Seq(JSON!Tokens) /\ <<key, ":">> \in Seq(JSON!Tokens)
  BY TokensAre, ShortTexts, Zenon
<1>2. JSON!PutKey(b, key) = JSON!Put(start1, <<key, ":">>)
  BY Zenon DEF JSON!PutKey
<1>3. room \in Calls(V) /\ room.kind = b.kind /\ room.left = b.left
  BY CommaIs
<1> HIDE DEF room
<1>4. line \in Calls(V) /\ line.kind = b.kind /\ line.left = b.left
  BY <1>1, <1>3, PutIs
<1> HIDE DEF line
<1>5. start1 \in Calls(V) /\ start1.kind = b.kind /\ start1.left = b.left
  BY <1>3, <1>4, Zenon
<1> HIDE DEF start1
<1>6. /\ JSON!Put(start1, <<key, ":">>) \in Calls(V)
      /\ JSON!Put(start1, <<key, ":">>).kind = start1.kind
      /\ JSON!Put(start1, <<key, ":">>).left = start1.left
  BY <1>1, <1>5, PutIs
<1> QED
  BY <1>2, <1>5, <1>6, Zenon

LEMMA PartsAre ==
    ASSUME NEW V, NEW v \in Containers(V)
    PROVE  /\ JSON!Parts(v) \in Seq([key : Strings \cup {Empty}, value : V])
           /\ v.kind = "object" => JSON!Parts(v) \in Seq([key : Strings, value : V])
<1>1. CASE v.kind = "object" /\ v.members \in Seq([key : Strings, value : V])
  <2>1. JSON!Parts(v) = v.members
    BY <1>1, Zenon DEF JSON!Parts
  <2>2. [key : Strings, value : V] \subseteq [key : Strings \cup {Empty}, value : V]
    OBVIOUS
  <2>3. Seq([key : Strings, value : V]) \subseteq Seq([key : Strings \cup {Empty}, value : V])
    BY <2>2, SeqMonotonic
  <2> QED
    BY <1>1, <2>1, <2>3, Zenon
<1>2. CASE v.kind = "array" /\ v.items \in Seq(V)
  <2> DEFINE parts == [i \in DOMAIN v.items |-> [key |-> Empty, value |-> v.items[i]]]
  <2>1. JSON!Parts(v) = parts
    BY <1>2 DEF JSON!Parts, JSON!Empty, Empty
  <2>2. DOMAIN v.items = 1..Len(v.items) /\ Len(v.items) \in Nat
    BY <1>2, LenProperties
  <2>3. \A i \in 1..Len(v.items) : parts[i] \in [key : Strings \cup {Empty}, value : V]
    BY <1>2, <2>2
  <2>4. DOMAIN parts = 1..Len(v.items)
    BY <2>2
  <2> HIDE DEF parts
  <2>5. parts \in Seq([key : Strings \cup {Empty}, value : V])
    <3>1. parts = [i \in 1..Len(v.items) |-> parts[i]]
      BY <2>2 DEF parts
    <3> QED
      BY <2>2, <2>3, <3>1, IsASeq
  <2> QED
    BY <1>2, <2>1, <2>5
<1> QED
  BY <1>1, <1>2, ContainerIs

LEMMA CallIs ==
    ASSUME NEW V, NEW v \in Containers(V)
    PROVE  JSON!Call(v) \in Calls(V) /\ JSON!Call(v).kind = v.kind
<1> DEFINE parts == JSON!Parts(v)
           mark == IF v.kind = "object" THEN "{" ELSE "["
           t == <<mark>>
<1>1. v.kind \in {"array", "object"}
  BY ContainerIs, Zenon
<1>2. /\ parts \in Seq([key : Strings \cup {Empty}, value : V])
      /\ v.kind = "object" => parts \in Seq([key : Strings, value : V])
  BY PartsAre
<1>3. mark \in JSON!Tokens
  BY TokensAre, Zenon
<1>4. t \in Seq(JSON!Tokens)
  BY <1>3, ShortTexts, Zenon
<1>5. JSON!Call(v) = [kind |-> v.kind, left |-> parts, text |-> t]
  BY Zenon DEF JSON!Call
<1> HIDE DEF parts, t
<1> QED
  BY <1>1, <1>2, <1>4, <1>5 DEF Calls

-----------------------------------------------------------------------------
(***************************************************************************)
(* The invariant of decode() and encode().                                 *)
(***************************************************************************)
Reading == {"key", "value", "after"}
Writing == {"encode", "overrun"}

TextOK ==
    /\ document.text \in Seq(JSON!Tokens)
    /\ pc \notin Writing => document.text # <<>> /\ document.text[Len(document.text)] = "}"
    /\ pc \in Writing => document = [text |-> <<>>, value |-> document.value]

PlaceOK ==
    /\ round \in 1..2
    /\ index \in 1..(Len(document.text) + 1)
    /\ pc \in {"start", "done"} \cup Reading \cup Writing
    /\ pc \in {"start", "key", "value"} => index <= Len(document.text)
    /\ (stack # <<>>) = (pc \in Reading)
    /\ (buffers # <<>>) = (pc \in Writing)

\* An object has the key of its member while the member's value is read.
ReadOK(V, calls, value, step) ==
    /\ calls \in Seq(Frames(V))
    /\ value \in Containers(V) /\ value.kind = "object"
    /\ calls # <<>> => calls[1].value.kind = "object"
    /\ \A i \in 1..Len(calls) :
          calls[i].value.kind = "object" /\ (i < Len(calls) \/ step = "value") => calls[i].key \in Strings

WriteOK(V, calls) == calls \in Seq(Calls(V)) /\ (calls # <<>> => calls[1].kind = "object")

ValueOK == \E V : Typed(V) /\ ReadOK(V, stack, decoded, pc) /\ WriteOK(V, buffers)
DocumentInv == TextOK /\ PlaceOK /\ ValueOK

LEMMA Lengths ==
    \A n \in Nat :
        /\ n # 0 => n >= 1
        /\ n # 0 /\ n # 1 => n >= 2 /\ n - 1 \in 1..n /\ n - 1 < n /\ n - 1 >= 1
        /\ n # 0 /\ n # 1 /\ n # 2 => n >= 3 /\ 1 \in 1..(n - 2)
OBVIOUS

LEMMA TopReplaced ==
    ASSUME NEW F, NEW s \in Seq(F), s # <<>>, NEW f \in F
    PROVE  LET r == JSON!Front(s) \o <<f>>
           IN  /\ r \in Seq(F) /\ Len(r) = Len(s) /\ r[Len(s)] = f /\ r # <<>>
               /\ \A i \in 1..(Len(s) - 1) : r[i] = s[i]
<1> DEFINE q == SubSeq(s, 1, Len(s) - 1)
           r == q \o <<f>>
<1>1. Len(s) \in Nat /\ Len(s) >= 1
  BY EmptySeq, LenProperties
<1>2. /\ 1 \in 1..(Len(s) + 1) /\ Len(s) - 1 \in 0..Len(s) /\ 1 <= (Len(s) - 1) + 1
       /\ (Len(s) - 1) - 1 + 1 = Len(s) - 1 /\ \A i \in 1..(Len(s) - 1) : 1 + i - 1 = i
  BY <1>1
<1>3. q \in Seq(F) /\ Len(q) = Len(s) - 1 /\ \A i \in 1..(Len(s) - 1) : q[i] = s[i]
  BY <1>1, <1>2, SubSeqProperties
<1> HIDE DEF q
<1>4. <<f>> \in Seq(F) /\ Len(<<f>>) = 1 /\ <<f>>[1] = f
  OBVIOUS
<1>5. r \in Seq(F) /\ Len(r) = Len(s) /\ r[Len(s)] = f /\ \A i \in 1..(Len(s) - 1) : r[i] = s[i]
  BY <1>1, <1>3, <1>4
<1>6. JSON!Front(s) \o <<f>> = r
  BY Zenon DEF JSON!Front, q
<1> HIDE DEF r
<1>7. r # <<>>
  BY <1>1, <1>5
<1> QED
  BY <1>5, <1>6, <1>7

LEMMA TopPopped ==
    ASSUME NEW F, NEW s \in Seq(F), s # <<>>, Len(s) # 1, NEW f \in F
    PROVE  LET r == Append(SubSeq(s, 1, Len(s) - 2), f)
           IN  /\ r \in Seq(F) /\ Len(r) = Len(s) - 1 /\ r[Len(s) - 1] = f /\ r # <<>>
               /\ \A i \in 1..(Len(s) - 2) : r[i] = s[i]
               /\ Len(s) - 1 \in 1..(Len(s) - 1)
<1> DEFINE q == SubSeq(s, 1, Len(s) - 2)
           r == Append(q, f)
<1>1. Len(s) \in Nat /\ Len(s) # 0
  BY EmptySeq, LenProperties
<1>2. Len(s) \in Nat /\ Len(s) >= 2
  BY <1>1, Lengths, Zenon
<1>3. /\ 1 \in 1..(Len(s) + 1) /\ Len(s) - 2 \in 0..Len(s) /\ 1 <= (Len(s) - 2) + 1
       /\ (Len(s) - 2) - 1 + 1 = Len(s) - 2 /\ \A i \in 1..(Len(s) - 2) : 1 + i - 1 = i
  BY <1>2
<1>4. q \in Seq(F) /\ Len(q) = Len(s) - 2 /\ \A i \in 1..(Len(s) - 2) : q[i] = s[i]
  BY <1>2, <1>3, SubSeqProperties
<1> HIDE DEF q
<1>5. r \in Seq(F) /\ Len(r) = Len(s) - 1 /\ r[Len(s) - 1] = f /\ \A i \in 1..(Len(s) - 2) : r[i] = s[i]
  BY <1>2, <1>4, AppendProperties
<1> HIDE DEF r
<1>6. r # <<>>
  BY <1>2, <1>5
<1> QED
  BY <1>2, <1>5, <1>6 DEF r, q

\* decode() returns to its caller, or altogether.
LEMMA ReturnKeeps ==
    ASSUME NEW V, Typed(V), ReadOK(V, stack, decoded, pc), stack # <<>>, JSON!Return
    PROVE  /\ \E W : Typed(W) /\ V \subseteq W /\ Calls(V) \subseteq Calls(W) /\ ReadOK(W, stack', decoded', pc')
           /\ Len(stack') = Len(stack) - 1
           /\ \/ pc' = "done" /\ stack' = <<>>
              \/ pc' = "after" /\ stack' # <<>>
<1> DEFINE n == Len(stack)
           top == stack[n]
           caller == stack[n - 1]
<1>1. stack \in Seq(Frames(V)) /\ n \in Nat /\ n # 0 /\ n >= 1 /\ top \in Frames(V)
  <2>1. stack \in Seq(Frames(V))
    BY DEF ReadOK
  <2>2. n \in Nat /\ n # 0 /\ n >= 1
    BY <2>1, EmptySeq, LenProperties
  <2> QED
    BY <2>1, <2>2, ElementOfSeq
<1>2. top.value \in Containers(V)
  BY <1>1 DEF Frames
<1>3. CASE n = 1
  <2>1. pc' = "done" /\ stack' = <<>> /\ decoded' = top.value
    BY <1>3 DEF JSON!Return, JSON!Top, JSON!Last
  <2>2. decoded' \in Containers(V) /\ decoded'.kind = "object"
    BY <1>2, <1>3, <2>1 DEF ReadOK
  <2>3. ReadOK(V, stack', decoded', pc')
    BY <2>1, <2>2, EmptySeq DEF ReadOK
  <2> QED
    BY <1>3, <2>1, <2>3
<1>4. CASE n # 1
  <2> DEFINE W == V \cup {top.value}
             f == JSON!With(caller, top.value)
             r == Append(SubSeq(stack, 1, n - 2), f)
  <2>1. pc' = "after" /\ stack' = r /\ decoded' = decoded
    BY <1>4 DEF JSON!Return, JSON!Top, JSON!Last
  <2>2. /\ Typed(W) /\ top.value \in W /\ V \subseteq W /\ Containers(V) \subseteq Containers(W)
        /\ Frames(V) \subseteq Frames(W) /\ Calls(V) \subseteq Calls(W)
    <3>1. top.value \in LeafValues \cup Containers(V)
      BY <1>2, Zenon
    <3> HIDE DEF top
    <3> QED
      BY <3>1, Grows
  <2>3. n - 1 \in 1..n /\ n - 1 < n
    BY <1>1, <1>4, Lengths, Zenon
  <2>4. caller \in Frames(V) /\ n - 1 \in 1..n /\ n - 1 < n
    BY <1>1, <2>3, ElementOfSeq
  <2>5. caller.value.kind = "object" => caller.key \in Strings
    BY <2>4 DEF ReadOK
  <2> HIDE DEF W
  <2>6. f \in Frames(W) /\ f.value.kind = caller.value.kind /\ f.key = caller.key
    BY <2>2, <2>4, <2>5, WithIs
  <2>7. stack \in Seq(Frames(W))
    BY <1>1, <2>2, SeqMonotonic
  <2> HIDE DEF f
  <2>8. /\ r \in Seq(Frames(W)) /\ Len(r) = n - 1 /\ r[n - 1] = f /\ r # <<>>
        /\ \A i \in 1..(n - 2) : r[i] = stack[i]
    BY <1>4, <2>6, <2>7, TopPopped
  <2> HIDE DEF r
  <2>9. \A i \in 1..(n - 1) : i < n - 1 => i \in 1..(n - 2) /\ i \in 1..n /\ i < n
    BY <1>1
  <2>10. \A i \in 1..(n - 1) :
            r[i].value.kind = "object" /\ (i < n - 1 \/ pc' = "value") => r[i].key \in Strings
    <3> SUFFICES ASSUME NEW i \in 1..(n - 1), r[i].value.kind = "object", i < n - 1
                 PROVE  r[i].key \in Strings
      BY <2>1
    <3>1. r[i] = stack[i] /\ i \in 1..n /\ i < n
      BY <2>8, <2>9
    <3> QED
      BY <3>1 DEF ReadOK
  <2>11. r[1].value.kind = "object"
    <3>1. CASE n = 2
      BY <2>6, <2>8, <3>1 DEF ReadOK
    <3>2. CASE n # 2
      <4>1. 1 \in 1..(n - 2)
        BY <1>1, <1>4, <3>2, Lengths, Zenon
      <4> QED
        BY <2>8, <4>1 DEF ReadOK
    <3> QED
      BY <3>1, <3>2
  <2>12. ReadOK(W, stack', decoded', pc')
    BY <2>1, <2>2, <2>8, <2>10, <2>11 DEF ReadOK
  <2> QED
    BY <2>1, <2>2, <2>8, <2>12
<1> QED
  BY <1>3, <1>4

-----------------------------------------------------------------------------
(***************************************************************************)
(* The steps of decode().                                                  *)
(***************************************************************************)
LEMMA Skips ==
    ASSUME TextOK, pc \notin Writing
    PROVE  LET N == Len(document.text)
           IN  /\ N \in Nat /\ N >= 1
               /\ \A i \in 1..N : /\ JSON!AfterSpaces(i) \in i..N /\ JSON!AfterWhite(i) \in i..N
                                  /\ JSON!RunEnd(i) \in (i + 1)..(N + 1)
                                  /\ JSON!SkipFrom(i, {"nl"}) \in i..N
               /\ \A i \in 1..(N + 1) : /\ JSON!AfterSpaces(i) \in i..(N + 1)
                                        /\ JSON!AfterWhite(i) \in i..(N + 1)
<1> DEFINE N == Len(document.text)
<1>1. N \in Nat /\ N # 0
  BY EmptySeq, LenProperties DEF TextOK
<1>2. \A i \in 1..(N + 1) : \A S : Stops(i, S, JSON!SkipFrom(i, S))
  BY <1>1, SkipStops
<1>3. document.text[N] = "}"
  BY DEF TextOK
<1>4. ASSUME NEW i \in 1..(N + 1), NEW S
      PROVE  /\ JSON!SkipFrom(i, S) \in i..(N + 1)
             /\ i <= N /\ "}" \notin S => JSON!SkipFrom(i, S) \in i..N
  <2> DEFINE j == JSON!SkipFrom(i, S)
  <2>1. Stops(i, S, j)
    BY <1>2
  <2> HIDE DEF j
  <2>2. j \in i..(N + 1) /\ \A k \in i..(j - 1) : document.text[k] \in S
    BY <2>1 DEF Stops
  <2> HIDE DEF N
  <2>3. i <= N /\ j = N + 1 => N \in i..(j - 1)
    BY <1>1
  <2>4. i <= N /\ "}" \notin S => j # N + 1
    BY <1>3, <2>2, <2>3
  <2>5. j # N + 1 => j \in i..N
    BY <1>1, <2>2
  <2> QED
    BY <2>2, <2>4, <2>5, Zenon DEF j
<1>5. /\ "}" \notin {"sp"} /\ "}" \notin {"sp", "nl"} /\ "}" \notin {"nl"}
  OBVIOUS
<1> HIDE DEF N
<1>6. \A i \in 1..N : i \in 1..(N + 1) /\ i + 1 \in 1..(N + 1) /\ i <= N
  BY <1>1
<1>7. \A i \in 1..N : /\ JSON!AfterSpaces(i) \in i..N /\ JSON!AfterWhite(i) \in i..N
                      /\ JSON!SkipFrom(i, {"nl"}) \in i..N
  BY <1>4, <1>5, <1>6, Zenon DEF JSON!AfterSpaces, JSON!AfterWhite
<1>8. \A i \in 1..N : JSON!RunEnd(i) \in (i + 1)..(N + 1)
  BY <1>4, <1>6, Zenon DEF JSON!RunEnd
<1>9. \A i \in 1..(N + 1) : JSON!AfterSpaces(i) \in i..(N + 1) /\ JSON!AfterWhite(i) \in i..(N + 1)
  BY <1>4, Zenon DEF JSON!AfterSpaces, JSON!AfterWhite
<1>10. N >= 1
  BY <1>1
<1> QED
  BY <1>1, <1>7, <1>8, <1>9, <1>10 DEF N

LEMMA Before == \A n \in Nat : \A k \in 1..(n + 1) : k <= n /\ k # n => k + 1 \in 1..n
OBVIOUS

LEMMA NotLast ==
    ASSUME TextOK, pc \notin Writing, NEW i \in 1..(Len(document.text) + 1), NEW t, t # "}"
    PROVE  JSON!Is(i, t) => i + 1 \in 1..Len(document.text)
<1> DEFINE N == Len(document.text)
<1>1. N \in Nat
  BY Skips
<1>2. document.text[N] = "}"
  BY DEF TextOK
<1>3. JSON!Is(i, t) => i <= N /\ document.text[i] = t
  BY DEF JSON!Is, JSON!text
<1>4. JSON!Is(i, t) => i # N
  BY <1>2, <1>3
<1>5. i \in 1..(N + 1)
  OBVIOUS
<1> HIDE DEF N
<1>6. i <= N /\ i # N => i + 1 \in 1..N
  BY <1>1, <1>5, Before, Zenon
<1> QED
  BY <1>3, <1>4, <1>6, Zenon DEF N

\* What decode() has left: the text, twice, and the calls that have to return.
Left(i, calls, step) ==
    2 * (Len(document.text) + 1 - i) + Len(calls) + (IF step = "start" THEN 1 ELSE 0)

\* What every step of decode() is shown to do.
Stepped(V) ==
    /\ pc' \in Reading \cup {"done"}
    /\ index' \in index..(Len(document.text) + 1)
    /\ pc' \in {"key", "value"} => index' <= Len(document.text)
    /\ (stack' # <<>>) = (pc' \in Reading)
    /\ \E W : Typed(W) /\ Calls(V) \subseteq Calls(W) /\ ReadOK(W, stack', decoded', pc')
    /\ Left(index', stack', pc') < Left(index, stack, pc)
    /\ Len(stack') \in Nat

LEMMA Less ==
    \A n, i, j, k, l \in Nat :
        /\ i <= j /\ l + 1 = k => 2 * (n + 1 - j) + l + 0 < 2 * (n + 1 - i) + k + 0
        /\ i < j /\ l <= k + 1 => 2 * (n + 1 - j) + l + 0 < 2 * (n + 1 - i) + k + 0
OBVIOUS

LEMMA StackIs ==
    ASSUME NEW V, ReadOK(V, stack, decoded, pc), stack # <<>>
    PROVE  /\ stack \in Seq(Frames(V)) /\ Len(stack) \in Nat /\ Len(stack) # 0
           /\ Len(stack) \in 1..Len(stack)
           /\ JSON!Top = stack[Len(stack)] /\ JSON!Top \in Frames(V)
           /\ JSON!Top.value \in Containers(V)
           /\ JSON!Top.value.kind \in {"array", "object"}
<1>1. stack \in Seq(Frames(V))
  BY DEF ReadOK
<1>2. Len(stack) \in Nat /\ Len(stack) # 0
  BY <1>1, EmptySeq
<1>3. Len(stack) \in 1..Len(stack)
  BY <1>2
<1>4. JSON!Top = stack[Len(stack)]
  BY DEF JSON!Top, JSON!Last
<1>5. JSON!Top \in Frames(V)
  BY <1>1, <1>3, <1>4, ElementOfSeq
<1>6. JSON!Top.value \in Containers(V)
  BY <1>5 DEF Frames
<1>7. JSON!Top.value.kind \in {"array", "object"}
  BY <1>6, ContainerIs, Zenon
<1> QED
  BY <1>1, <1>2, <1>3, <1>4, <1>5, <1>6, <1>7

\* A call that returns at or behind the place where the step began.
LEMMA Returns ==
    ASSUME NEW V, TextOK, PlaceOK, pc \in Reading, Typed(V), ReadOK(V, stack, decoded, pc),
           JSON!Return, index' \in index..(Len(document.text) + 1)
    PROVE  Stepped(V)
<1> DEFINE N == Len(document.text)
<1>1. stack # <<>> /\ pc # "start" /\ pc \notin Writing
  BY DEF PlaceOK, Reading, Writing
<1>2. Len(stack) \in Nat /\ Len(stack) # 0
  BY <1>1, StackIs
<1>3. /\ \E W : Typed(W) /\ V \subseteq W /\ Calls(V) \subseteq Calls(W) /\ ReadOK(W, stack', decoded', pc')
      /\ Len(stack') = Len(stack) - 1
      /\ \/ pc' = "done" /\ stack' = <<>>
         \/ pc' = "after" /\ stack' # <<>>
  BY <1>1, ReturnKeeps
<1>4. Len(stack') \in Nat /\ Len(stack') + 1 = Len(stack)
  BY <1>2, <1>3
<1>5. /\ pc' \in Reading \cup {"done"} /\ pc' \notin {"key", "value"} /\ (stack' # <<>>) = (pc' \in Reading)
      /\ pc' # "start"
  BY <1>3 DEF Reading
<1>6. N \in Nat /\ index \in Nat /\ index' \in Nat /\ index <= index'
  BY <1>1, Skips DEF PlaceOK
<1>7. Left(index', stack', pc') < Left(index, stack, pc)
  <2>1. /\ Left(index', stack', pc') = 2 * (N + 1 - index') + Len(stack') + 0
        /\ Left(index, stack, pc) = 2 * (N + 1 - index) + Len(stack) + 0
    BY <1>1, <1>5, Zenon DEF Left
  <2> QED
    BY <1>2, <1>4, <1>6, <2>1, Less, Zenon
<1> QED
  BY <1>3, <1>4, <1>5, <1>7, Zenon DEF Stepped

\* A call is opened behind a mark of the text.
LEMMA Opens ==
    ASSUME NEW V, TextOK, PlaceOK, pc \in {"start", "value"}, Typed(V), ReadOK(V, stack, decoded, pc),
           pc = "start" => stack = <<>>,
           NEW i \in index..(Len(document.text) + 1), i + 1 \in 1..Len(document.text),
           NEW kind \in {"object", "array"}, JSON!Open(kind),
           stack = <<>> => kind = "object",
           index' = i + 1, decoded' = decoded
    PROVE  Stepped(V)
<1> DEFINE N == Len(document.text)
           f == JSON!Frame(kind)
<1>1. pc \notin Writing
  BY DEF Writing
<1>2. N \in Nat /\ index \in Nat /\ index >= 1
  BY <1>1, Skips DEF PlaceOK
<1>3. i \in 1..(N + 1) /\ i \in Nat /\ index <= i
  BY <1>2
<1>4. i + 1 \in 1..N
  OBVIOUS
<1>5. index' \in Nat /\ index < index' /\ index' <= N /\ index' \in index..(N + 1)
  BY <1>2, <1>3, <1>4
<1>6. stack' = Append(stack, f) /\ pc' = IF kind = "object" THEN "key" ELSE "value"
  BY Zenon DEF JSON!Open
<1>7. f \in Frames(V) /\ f.value.kind = kind
  BY FrameIs
<1> HIDE DEF f
<1>8. stack \in Seq(Frames(V)) /\ Len(stack) \in Nat
  BY LenProperties DEF ReadOK
<1>9. /\ stack' \in Seq(Frames(V)) /\ Len(stack') = Len(stack) + 1 /\ stack'[Len(stack) + 1] = f
      /\ \A k \in 1..Len(stack) : stack'[k] = stack[k]
  BY <1>6, <1>7, <1>8, AppendProperties
<1>10. stack' # <<>>
  BY <1>8, <1>9, EmptySeq
<1>11. \A k \in 1..(Len(stack) + 1) : k = Len(stack) + 1 \/ (k \in 1..Len(stack) /\ k < Len(stack) + 1)
  BY <1>8
<1>12. \A k \in 1..Len(stack') :
           stack'[k].value.kind = "object" /\ (k < Len(stack') \/ pc' = "value") => stack'[k].key \in Strings
  <2> SUFFICES ASSUME NEW k \in 1..(Len(stack) + 1), stack'[k].value.kind = "object",
                      k < Len(stack) + 1 \/ pc' = "value"
               PROVE  stack'[k].key \in Strings
    BY <1>9
  <2>1. CASE k = Len(stack) + 1
    <3>1. kind = "object" /\ pc' = "key"
      BY <1>6, <1>7, <1>9, <2>1
    <3>2. ~(k < Len(stack) + 1)
      BY <1>8, <2>1
    <3> QED
      BY <3>1, <3>2
  <2>2. CASE k # Len(stack) + 1
    <3>1. k \in 1..Len(stack) /\ stack'[k] = stack[k]
      BY <1>9, <1>11, <2>2
    <3>2. stack # <<>>
      BY <3>1, EmptySeq
    <3>3. pc = "value"
      BY <3>2
    <3>4. k < Len(stack) \/ k = Len(stack)
      BY <1>8, <3>1
    <3> QED
      BY <3>1, <3>3 DEF ReadOK
  <2> QED
    BY <2>1, <2>2
<1>13. stack'[1].value.kind = "object"
  <2>1. CASE stack = <<>>
    <3>1. Len(stack) + 1 = 1
      BY <2>1, EmptySeq
    <3> QED
      BY <1>7, <1>9, <2>1, <3>1
  <2>2. CASE stack # <<>>
    <3>1. 1 \in 1..Len(stack)
      BY <1>8, <2>2, EmptySeq
    <3> QED
      BY <1>9, <2>2, <3>1 DEF ReadOK
  <2> QED
    BY <2>1, <2>2
<1>14. ReadOK(V, stack', decoded', pc')
  BY <1>9, <1>12, <1>13 DEF ReadOK
<1>15. pc' \in Reading /\ pc' # "start"
  BY <1>6 DEF Reading
<1>16. Len(stack') \in Nat /\ Len(stack') <= Len(stack) + 1
  BY <1>8, <1>9
<1>17. Left(index', stack', pc') < Left(index, stack, pc)
  <2> DEFINE e == IF pc = "start" THEN 1 ELSE 0
  <2>1. /\ Left(index', stack', pc') = 2 * (N + 1 - index') + Len(stack') + 0
        /\ Left(index, stack, pc) = 2 * (N + 1 - index) + Len(stack) + e
    BY <1>15, Zenon DEF Left
  <2>2. 2 * (N + 1 - index') + Len(stack') + 0 < 2 * (N + 1 - index) + Len(stack) + 0
    BY <1>2, <1>5, <1>8, <1>16, Less, Zenon
  <2>3. e \in Nat
    OBVIOUS
  <2> HIDE DEF e
  <2>4. 2 * (N + 1 - index') + Len(stack') + 0 < 2 * (N + 1 - index) + Len(stack) + e
    <3>1. \A a, b, c \in Int : \A d \in Nat : a < b + c + 0 => a < b + c + d
      OBVIOUS
    <3>2. 2 * (N + 1 - index') + Len(stack') + 0 \in Int /\ 2 * (N + 1 - index) \in Int /\ Len(stack) \in Int
      BY <1>2, <1>5, <1>8, <1>16
    <3> QED
      BY <2>2, <2>3, <3>1, <3>2, Zenon
  <2> QED
    BY <2>1, <2>4
<1> QED
  BY <1>5, <1>10, <1>14, <1>15, <1>16, <1>17 DEF Stepped

\* The innermost call is replaced, and some of the text is read.
LEMMA Replaces ==
    ASSUME NEW V, TextOK, PlaceOK, pc \in Reading, ReadOK(V, stack, decoded, pc),
           NEW W, Typed(W), Calls(V) \subseteq Calls(W), Frames(V) \subseteq Frames(W),
           Containers(V) \subseteq Containers(W),
           NEW f \in Frames(W), f.value.kind = JSON!Top.value.kind,
           stack' = JSON!Front(stack) \o <<f>>, decoded' = decoded,
           pc' \in Reading, pc' = "value" => f.key \in Strings,
           pc' \in {"key", "value"} => index' <= Len(document.text),
           index' \in (index + 1)..(Len(document.text) + 1)
    PROVE  Stepped(V)
<1> DEFINE N == Len(document.text)
           n == Len(stack)
<1>1. pc \notin Writing /\ stack # <<>> /\ pc # "start" /\ pc' # "start"
  BY DEF Writing, Reading, PlaceOK
<1>2. N \in Nat /\ index \in Nat
  BY <1>1, Skips DEF PlaceOK
<1>3. n \in Nat /\ n # 0 /\ stack \in Seq(Frames(V)) /\ JSON!Top = stack[n]
  BY <1>1, StackIs
<1>4. stack \in Seq(Frames(W))
  BY <1>3, SeqMonotonic
<1>5. /\ stack' \in Seq(Frames(W)) /\ Len(stack') = n /\ stack'[n] = f /\ stack' # <<>>
      /\ \A i \in 1..(n - 1) : stack'[i] = stack[i]
  BY <1>1, <1>4, TopReplaced
<1> HIDE DEF n
<1>6. \A i \in 1..n : i = n \/ (i \in 1..(n - 1) /\ i < n)
  BY <1>3
<1>7. \A i \in 1..n :
          stack'[i].value.kind = "object" /\ (i < n \/ pc' = "value") => stack'[i].key \in Strings
  <2> SUFFICES ASSUME NEW i \in 1..n, stack'[i].value.kind = "object", i < n \/ pc' = "value"
               PROVE  stack'[i].key \in Strings
    OBVIOUS
  <2>1. CASE i = n
    <3>1. ~(i < n)
      BY <1>3, <2>1
    <3> QED
      BY <1>5, <2>1, <3>1
  <2>2. CASE i # n
    <3>1. i < n /\ stack'[i] = stack[i]
      BY <1>5, <1>6, <2>2
    <3> QED
      BY <3>1 DEF ReadOK, n
  <2> QED
    BY <2>1, <2>2
<1>8. stack'[1].value.kind = "object"
  <2>1. stack[1].value.kind = "object"
    BY <1>1 DEF ReadOK
  <2>2. CASE n = 1
    BY <1>3, <1>5, <2>1, <2>2
  <2>3. CASE n # 1
    <3>1. 1 \in 1..(n - 1)
      BY <1>3, <2>3
    <3> QED
      BY <1>5, <2>1, <3>1
  <2> QED
    BY <2>2, <2>3
<1>9. ReadOK(W, stack', decoded', pc')
  <2>1. decoded' \in Containers(W) /\ decoded'.kind = "object"
    BY DEF ReadOK
  <2> QED
    BY <1>5, <1>7, <1>8, <2>1 DEF ReadOK
<1>10. index' \in Nat /\ index < index' /\ index' \in index..(N + 1)
  BY <1>2
<1>11. Left(index', stack', pc') < Left(index, stack, pc)
  <2>1. /\ Left(index', stack', pc') = 2 * (N + 1 - index') + Len(stack') + 0
        /\ Left(index, stack, pc) = 2 * (N + 1 - index) + Len(stack) + 0
    BY <1>1, Zenon DEF Left
  <2>2. Len(stack') \in Nat /\ Len(stack) \in Nat /\ Len(stack') <= Len(stack) + 1
    BY <1>3, <1>5 DEF n
  <2>3. 2 * (N + 1 - index') + Len(stack') + 0 < 2 * (N + 1 - index) + Len(stack) + 0
    BY <1>2, <1>10, <2>2, Less, Zenon
  <2> QED
    BY <2>1, <2>3
<1> QED
  BY <1>3, <1>5, <1>9, <1>10, <1>11 DEF Stepped

LEMMA StartSteps ==
    ASSUME NEW V, TextOK, PlaceOK, Typed(V), ReadOK(V, stack, decoded, pc), JSON!Start
    PROVE  Stepped(V)
<1> DEFINE N == Len(document.text)
           i == JSON!AfterSpaces(index)
<1>1. pc = "start" /\ pc \notin Writing /\ stack = <<>>
  BY DEF JSON!Start, PlaceOK, Reading, Writing
<1>2. N \in Nat /\ index \in 1..N
  BY <1>1, Skips DEF PlaceOK
<1>3. i \in index..N
  BY <1>1, <1>2, Skips
<1> HIDE DEF i
<1>4. i \in index..(N + 1) /\ i \in 1..(N + 1)
  BY <1>2, <1>3
<1>5. CASE JSON!Is(i, "{")
  <2>1. index' = i + 1 /\ JSON!Open("object") /\ decoded' = decoded
    BY <1>5 DEF JSON!Start, i
  <2>2. i + 1 \in 1..N
    BY <1>1, <1>4, <1>5, NotLast
  <2> QED
    BY <1>1, <1>4, <2>1, <2>2, Opens
<1>6. CASE ~JSON!Is(i, "{")
  <2>1. index' = i /\ pc' = "done" /\ stack' = stack /\ decoded' = decoded
    BY <1>6 DEF JSON!Start, i
  <2>2. Left(index', stack', pc') < Left(index, stack, pc)
    <3>1. /\ Left(index', stack', pc') = 2 * (N + 1 - i) + Len(stack) + 0
          /\ Left(index, stack, pc) = 2 * (N + 1 - index) + Len(stack) + 1
      BY <1>1, <2>1 DEF Left
    <3>2. Len(stack) = 0
      BY <1>1, EmptySeq
    <3> QED
      BY <1>2, <1>3, <3>1, <3>2
  <2>3. pc' \notin Reading /\ pc' \notin {"key", "value"} /\ stack' = <<>>
    BY <1>1, <2>1 DEF Reading
  <2>4. ReadOK(V, stack', decoded', pc')
    BY <1>1, <2>1, EmptySeq DEF ReadOK
  <2>5. Len(stack') \in Nat
    BY <2>3, EmptySeq
  <2> QED
    BY <1>4, <2>1, <2>2, <2>3, <2>4, <2>5 DEF Stepped
<1> QED
  BY <1>5, <1>6

\* What holds before every other step of decode().
LEMMA ReadingFacts ==
    ASSUME NEW V, TextOK, PlaceOK, pc \in Reading, ReadOK(V, stack, decoded, pc)
    PROVE  LET N == Len(document.text)
           IN  /\ pc \notin Writing /\ stack # <<>> /\ N \in Nat /\ N >= 1 /\ index \in 1..(N + 1)
               /\ pc \in {"key", "value"} => index \in 1..N
               /\ JSON!Top \in Frames(V) /\ JSON!Top.value \in Containers(V)
               /\ JSON!Top.value.kind \in {"array", "object"}
<1>1. pc \notin Writing /\ stack # <<>>
  BY DEF PlaceOK, Reading, Writing
<1>2. Len(document.text) \in Nat /\ Len(document.text) >= 1
  BY <1>1, Skips
<1>3. index \in 1..(Len(document.text) + 1) /\ (pc \in {"key", "value"} => index <= Len(document.text))
  BY DEF PlaceOK
<1>4. pc \in {"key", "value"} => index \in 1..Len(document.text)
  BY <1>2, <1>3
<1> QED
  BY <1>1, <1>2, <1>3, <1>4, StackIs

LEMMA ReadKeySteps ==
    ASSUME NEW V, TextOK, PlaceOK, Typed(V), ReadOK(V, stack, decoded, pc), JSON!ReadKey
    PROVE  Stepped(V)
<1> DEFINE N == Len(document.text)
           i == JSON!AfterSpaces(index)
           c == JSON!AfterSpaces(i + 1)
           top == JSON!Top
<1>1. pc = "key" /\ pc \in Reading
  BY DEF JSON!ReadKey, Reading
<1>2. /\ pc \notin Writing /\ N \in Nat /\ index \in 1..N
      /\ top \in Frames(V)
  BY <1>1, ReadingFacts
<1>3. i \in index..N
  BY <1>2, Skips
<1> HIDE DEF i
<1>4. i + 1 \in 1..(N + 1) /\ index < i + 1
  BY <1>2, <1>3
<1>5. c \in (i + 1)..(N + 1)
  BY <1>2, <1>4, Skips
<1> HIDE DEF c
<1>6. CASE JSON!IsString(i) /\ JSON!Is(c, ":")
  <2> DEFINE f == [top EXCEPT !.key = document.text[i]]
  <2>1. /\ index' = c + 1 /\ pc' = "value" /\ decoded' = decoded
        /\ stack' = JSON!Front(stack) \o <<f>>
    BY <1>6, Zenon DEF JSON!ReadKey, i, c, JSON!text
  <2>2. document.text[i] \in Strings
    BY <1>6 DEF JSON!IsString, JSON!text
  <2>3. top = [value |-> top.value, key |-> top.key] /\ top.value \in Containers(V)
    BY <1>2 DEF Frames
  <2>4. f = [value |-> top.value, key |-> document.text[i]]
    BY <2>3
  <2> HIDE DEF top, f
  <2>5. f \in Frames(V) /\ f.value = top.value /\ f.key \in Strings
    BY <2>2, <2>3, <2>4 DEF Frames
  <2>6. c \in 1..(N + 1) /\ c \in Nat
    BY <1>4, <1>5
  <2>7. c + 1 \in 1..N
    BY <1>2, <1>6, <2>6, NotLast
  <2>8. index' \in (index + 1)..(N + 1) /\ index' <= N
    BY <1>2, <1>4, <1>5, <2>1, <2>6, <2>7
  <2>9. pc' \in Reading
    BY <2>1 DEF Reading
  <2> QED
    BY <1>1, <2>1, <2>5, <2>8, <2>9, Replaces DEF top
<1>7. CASE ~(JSON!IsString(i) /\ JSON!Is(c, ":"))
  <2>1. (index' = IF JSON!IsString(i) THEN c ELSE i) /\ JSON!Return
    BY <1>7, Zenon DEF JSON!ReadKey, i, c
  <2>2. index' \in index..(N + 1)
    <3>1. c \in index..(N + 1) /\ i \in index..(N + 1)
      BY <1>2, <1>3, <1>4, <1>5
    <3> QED
      BY <2>1, <3>1, Zenon
  <2> QED
    BY <1>1, <2>1, <2>2, Returns
<1> QED
  BY <1>6, <1>7

LEMMA ValueAtIs ==
    ASSUME NEW V, TextOK, PlaceOK, ReadOK(V, stack, decoded, pc), pc = "value"
    PROVE  /\ JSON!ValueAt \in index..Len(document.text) /\ JSON!ValueAt \in 1..Len(document.text)
           /\ JSON!ValueAt \in index..(Len(document.text) + 1) /\ JSON!ValueAt \in 1..(Len(document.text) + 1)
           /\ pc \in Reading
           /\ JSON!Top.value.kind = "object" => JSON!Top.key \in Strings
<1> DEFINE N == Len(document.text)
<1>1. pc \in Reading
  BY DEF Reading
<1>2. /\ pc \notin Writing /\ N \in Nat /\ index \in 1..N /\ stack # <<>>
  BY <1>1, ReadingFacts
<1>3. JSON!AfterSpaces(index) \in index..N /\ JSON!AfterWhite(index) \in index..N
  BY <1>2, Skips
<1>4. JSON!ValueAt \in index..N
  BY <1>3, Zenon DEF JSON!ValueAt
<1>5. JSON!Top = stack[Len(stack)] /\ Len(stack) \in 1..Len(stack)
  BY <1>2, StackIs
<1>6. JSON!Top.value.kind = "object" => JSON!Top.key \in Strings
  BY <1>5 DEF ReadOK
<1>7. \A n \in Nat : \A i \in 1..n : \A j \in i..n : j \in 1..n /\ j \in i..(n + 1) /\ j \in 1..(n + 1)
  OBVIOUS
<1> QED
  BY <1>1, <1>2, <1>4, <1>6, <1>7, Zenon

\* A leaf is taken.
LEMMA Takes ==
    ASSUME NEW V, TextOK, PlaceOK, Typed(V), ReadOK(V, stack, decoded, pc), pc = "value",
           NEW t \in JSON!Tokens, NEW i \in (index + 1)..(Len(document.text) + 1),
           JSON!Take(JSON!Leaf(t), i)
    PROVE  Stepped(V)
<1> DEFINE v == Leaf(t)
           W == V \cup {v}
           top == JSON!Top
           f == JSON!With(top, v)
<1>1. pc \in Reading /\ (top.value.kind = "object" => top.key \in Strings)
  BY ValueAtIs
<1>2. top \in Frames(V)
  BY <1>1, ReadingFacts
<1>3. v \in LeafValues \cup Containers(V)
  BY Zenon DEF LeafValues
<1>4. JSON!Leaf(t) = v
  BY Zenon DEF JSON!Leaf, Leaf
<1>5. /\ index' = i /\ pc' = "after" /\ decoded' = decoded
      /\ stack' = JSON!Front(stack) \o <<f>>
  BY <1>4, Zenon DEF JSON!Take
<1> HIDE DEF v, top
<1>6. /\ Typed(W) /\ v \in W /\ V \subseteq W /\ Containers(V) \subseteq Containers(W)
      /\ Frames(V) \subseteq Frames(W) /\ Calls(V) \subseteq Calls(W)
  BY <1>3, Grows
<1> HIDE DEF W
<1>7. f \in Frames(W) /\ f.value.kind = top.value.kind
  BY <1>1, <1>2, <1>6, WithIs
<1> HIDE DEF f
<1>8. pc' \in Reading /\ pc' \notin {"key", "value"} /\ pc' # "value"
  BY <1>5 DEF Reading
<1> QED
  BY <1>1, <1>5, <1>6, <1>7, <1>8, Replaces DEF top

LEMMA ReadStringSteps ==
    ASSUME NEW V, TextOK, PlaceOK, Typed(V), ReadOK(V, stack, decoded, pc), JSON!ReadString
    PROVE  Stepped(V)
<1> DEFINE N == Len(document.text)
           i == JSON!ValueAt
<1>1. pc = "value" /\ JSON!IsString(i) /\ JSON!Take(JSON!Leaf(document.text[i]), i + 1)
  BY Zenon DEF JSON!ReadString, JSON!text
<1>2. i \in index..N /\ index \in Nat /\ N \in Nat
  BY <1>1, ValueAtIs, ReadingFacts DEF PlaceOK
<1> HIDE DEF i
<1>3. document.text[i] \in JSON!Tokens
  BY <1>1, TokensAre DEF JSON!IsString, JSON!text
<1>4. i + 1 \in (index + 1)..(N + 1)
  BY <1>2
<1> QED
  BY <1>1, <1>3, <1>4, Takes

\* What a scalar may be read as.
LEMMA ReadsAre ==
    ASSUME TextOK, pc \notin Writing, NEW p \in 1..Len(document.text)
    PROVE  JSON!Reads(p) \subseteq JSON!Tokens
<1> DEFINE N == Len(document.text)
           first == JSON!SkipFrom(p, {"nl"})
           e == JSON!RunEnd(p)
           t == document.text[p]
           u == document.text[first]
<1>1. first \in p..N
  BY Skips
<1>2. N \in Nat
  BY Skips
<1> HIDE DEF first
<1>3. first \in 1..N
  BY <1>1, <1>2
<1>4. t \in JSON!Tokens /\ u \in JSON!Tokens
  BY <1>3, ElementOfSeq DEF TextOK
<1>5. /\ JSON!ReadAs(t) \in JSON!Tokens /\ JSON!Atoi(u) \in JSON!Tokens /\ JSON!Other \in JSON!Tokens
  BY <1>4, TokensAre
<1>6. JSON!Reads(p) \subseteq {JSON!ReadAs(t), JSON!Atoi(u), JSON!Other}
  BY Zenon DEF JSON!Reads, JSON!text, first
<1> HIDE DEF t, u
<1> QED
  BY <1>5, <1>6

LEMMA ReadScalarSteps ==
    ASSUME NEW V, TextOK, PlaceOK, Typed(V), ReadOK(V, stack, decoded, pc), JSON!ReadScalar
    PROVE  Stepped(V)
<1> DEFINE N == Len(document.text)
           p == JSON!ValueAt
           e == JSON!RunEnd(p)
<1>1. pc = "value" /\ \E t \in JSON!Reads(p) : JSON!Take(JSON!Leaf(t), e)
  BY Zenon DEF JSON!ReadScalar
<1>2. p \in index..N /\ p \in 1..N /\ pc \in Reading
  BY <1>1, ValueAtIs
<1>3. pc \notin Writing /\ N \in Nat /\ index \in 1..N
  BY <1>1, <1>2, ReadingFacts
<1> HIDE DEF p
<1>4. e \in (p + 1)..(N + 1)
  BY <1>2, <1>3, Skips
<1> HIDE DEF e
<1>5. PICK t \in JSON!Reads(p) : JSON!Take(JSON!Leaf(t), e)
  BY <1>1
<1>6. t \in JSON!Tokens
  BY <1>2, <1>3, ReadsAre
<1>7. e \in (index + 1)..(N + 1)
  BY <1>2, <1>3, <1>4
<1> QED
  BY <1>1, <1>5, <1>6, <1>7, Takes

LEMMA ReadNestedSteps ==
    ASSUME NEW V, TextOK, PlaceOK, Typed(V), ReadOK(V, stack, decoded, pc), JSON!ReadNested
    PROVE  Stepped(V)
<1> DEFINE N == Len(document.text)
           i == JSON!ValueAt
<1>1. /\ pc = "value" /\ index' = i + 1 /\ decoded' = decoded
      /\ \/ JSON!Is(i, "{") /\ JSON!Open("object")
         \/ JSON!Is(i, "[") /\ JSON!Open("array")
  BY Zenon DEF JSON!ReadNested
<1>2. i \in index..(N + 1) /\ i \in 1..(N + 1) /\ pc \in Reading
  BY <1>1, ValueAtIs
<1>3. pc \notin Writing /\ stack # <<>>
  BY <1>2, ReadingFacts
<1> HIDE DEF i
<1>4. i + 1 \in 1..N
  <2>1. CASE JSON!Is(i, "{")
    BY <1>2, <1>3, <2>1, NotLast
  <2>2. CASE JSON!Is(i, "[")
    BY <1>2, <1>3, <2>2, NotLast
  <2> QED
    BY <1>1, <2>1, <2>2
<1>5. \E kind \in {"object", "array"} : JSON!Open(kind)
  BY <1>1, Zenon
<1> QED
  BY <1>1, <1>2, <1>3, <1>4, <1>5, Opens

LEMMA ValueFailsSteps ==
    ASSUME NEW V, TextOK, PlaceOK, Typed(V), ReadOK(V, stack, decoded, pc), JSON!ValueFails
    PROVE  Stepped(V)
<1>1. pc = "value" /\ index' = JSON!ValueAt /\ JSON!Return
  BY Zenon DEF JSON!ValueFails
<1>2. JSON!ValueAt \in index..(Len(document.text) + 1) /\ pc \in Reading
  BY <1>1, ValueAtIs
<1> QED
  BY <1>1, <1>2, Returns

LEMMA AfterValueSteps ==
    ASSUME NEW V, TextOK, PlaceOK, Typed(V), ReadOK(V, stack, decoded, pc), JSON!AfterValue
    PROVE  Stepped(V)
<1> DEFINE N == Len(document.text)
           i == IF JSON!InObject THEN JSON!AfterSpaces(index) ELSE index
           e == IF JSON!InObject THEN i ELSE JSON!AfterWhite(index)
           ends == JSON!Is(e, IF JSON!InObject THEN "}" ELSE "]")
<1>1. pc = "after" /\ pc \in Reading /\ pc # "start"
  BY DEF JSON!AfterValue, Reading
<1>2. /\ pc \notin Writing /\ stack # <<>> /\ N \in Nat /\ index \in 1..(N + 1)
      /\ JSON!Top \in Frames(V) /\ JSON!Top.value.kind \in {"array", "object"}
  BY <1>1, ReadingFacts
<1>3. JSON!AfterSpaces(index) \in index..(N + 1) /\ JSON!AfterWhite(index) \in index..(N + 1) /\ index \in index..(N + 1)
  BY <1>2, Skips
<1>4. i \in index..(N + 1) /\ e \in index..(N + 1)
  BY <1>3, Zenon
<1>5. CASE JSON!Is(i, ",")
  <2>1. /\ index' = i + 1 /\ stack' = stack /\ decoded' = decoded
        /\ pc' = IF JSON!InObject THEN "key" ELSE "value"
    BY <1>5, Zenon DEF JSON!AfterValue
  <2> HIDE DEF i
  <2>2. i \in 1..(N + 1)
    BY <1>2, <1>4
  <2>3. i + 1 \in 1..N
    BY <1>2, <1>5, <2>2, NotLast
  <2>4. index' \in Nat /\ index \in Nat /\ index < index' /\ index' <= N /\ index' \in index..(N + 1)
    BY <1>2, <1>4, <2>1, <2>3
  <2>5. pc' = "value" => JSON!Top.value.kind = "array"
    BY <1>2, <2>1 DEF JSON!InObject
  <2>6. JSON!Top = stack[Len(stack)] /\ Len(stack) \in Nat
    BY <1>2, StackIs
  <2>7. ReadOK(V, stack', decoded', pc')
    <3> SUFFICES ASSUME NEW k \in 1..Len(stack), stack[k].value.kind = "object", k < Len(stack) \/ pc' = "value"
                 PROVE  stack[k].key \in Strings
      BY <2>1 DEF ReadOK
    <3>1. k # Len(stack) \/ pc' # "value"
      BY <2>5, <2>6
    <3>2. k < Len(stack)
      BY <2>6, <3>1
    <3> QED
      BY <3>2 DEF ReadOK
  <2>8. pc' \in Reading /\ pc' # "start"
    BY <2>1 DEF Reading
  <2>9. Left(index', stack', pc') < Left(index, stack, pc)
    <3>1. /\ Left(index', stack', pc') = 2 * (N + 1 - index') + Len(stack') + 0
          /\ Left(index, stack, pc) = 2 * (N + 1 - index) + Len(stack) + 0
      BY <1>1, <2>8, Zenon DEF Left
    <3>2. Len(stack') \in Nat /\ Len(stack') <= Len(stack) + 1
      BY <2>1, <2>6
    <3>3. 2 * (N + 1 - index') + Len(stack') + 0 < 2 * (N + 1 - index) + Len(stack) + 0
      BY <1>2, <2>4, <2>6, <3>2, Less, Zenon
    <3> QED
      BY <3>1, <3>3
  <2>10. (stack' # <<>>) = (pc' \in Reading)
    BY <1>2, <2>1, <2>8
  <2> QED
    BY <2>1, <2>4, <2>6, <2>7, <2>8, <2>9, <2>10 DEF Stepped
<1>6. CASE ~JSON!Is(i, ",")
  <2>1. (index' = IF ends THEN e + 1 ELSE e) /\ JSON!Return
    BY <1>6, Zenon DEF JSON!AfterValue
  <2>2. ends => e <= N
    BY DEF JSON!Is, JSON!text
  <2> HIDE DEF e, ends
  <2>3. index' \in index..(N + 1)
    BY <1>2, <1>4, <2>1, <2>2
  <2> QED
    BY <1>1, <2>1, <2>3, Returns
<1> QED
  BY <1>5, <1>6

LEMMA DecodeSteps ==
    ASSUME NEW V, TextOK, PlaceOK, Typed(V), ReadOK(V, stack, decoded, pc), JSON!Decode
    PROVE  /\ Stepped(V)
           /\ pc \notin Writing /\ document' = document /\ round' = round /\ buffers' = buffers
<1>1. /\ JSON!Start \/ JSON!ReadKey \/ JSON!ReadString \/ JSON!ReadNested \/ JSON!ReadScalar
           \/ JSON!ValueFails \/ JSON!AfterValue
      /\ buffers' = buffers
  BY Zenon DEF JSON!Decode
<1>2. Stepped(V)
  BY <1>1, StartSteps, ReadKeySteps, ReadStringSteps, ReadNestedSteps, ReadScalarSteps, ValueFailsSteps,
     AfterValueSteps, Zenon
<1>3. document' = document /\ round' = round
  BY <1>1, Zenon
     DEF JSON!Start, JSON!ReadKey, JSON!ReadString, JSON!ReadNested, JSON!ReadScalar, JSON!ValueFails,
         JSON!AfterValue
<1>4. pc = "start" \/ pc = "key" \/ pc = "value" \/ pc = "after"
  BY <1>1, Zenon
     DEF JSON!Start, JSON!ReadKey, JSON!ReadString, JSON!ReadNested, JSON!ReadScalar, JSON!ValueFails,
         JSON!AfterValue
<1>5. pc \notin Writing
  BY <1>4 DEF Writing
<1> QED
  BY <1>1, <1>2, <1>3, <1>5

\* decode() keeps the invariant, and every step of it leaves less to do.
LEMMA DecodeKeeps ==
    ASSUME DocumentInv, JSON!Decode
    PROVE  DocumentInv' /\ Left(index, stack, pc)' < Left(index, stack, pc)
<1>1. PICK V : Typed(V) /\ ReadOK(V, stack, decoded, pc) /\ WriteOK(V, buffers)
  BY DEF DocumentInv, ValueOK
<1>2. TextOK /\ PlaceOK
  BY DEF DocumentInv
<1>3. /\ Stepped(V)
      /\ pc \notin Writing /\ document' = document /\ round' = round /\ buffers' = buffers
  BY <1>1, <1>2, DecodeSteps, Zenon
<1>4. PICK W : Typed(W) /\ Calls(V) \subseteq Calls(W) /\ ReadOK(W, stack', decoded', pc')
  BY <1>3, Zenon DEF Stepped
<1>5. pc' \notin Writing /\ pc' # "start" /\ pc' \in {"start", "done"} \cup Reading \cup Writing
  BY <1>3 DEF Stepped, Reading, Writing
<1>6. buffers = <<>>
  BY <1>2, <1>3 DEF PlaceOK
<1>7. WriteOK(W, buffers')
  BY <1>3, <1>6, EmptySeq DEF WriteOK
<1>8. ValueOK'
  BY <1>4, <1>7, Zenon DEF ValueOK
<1>9. TextOK'
  <2>1. /\ document.text \in Seq(JSON!Tokens)
        /\ document.text # <<>> /\ document.text[Len(document.text)] = "}"
    BY <1>2, <1>3, Zenon DEF TextOK
  <2> QED
    BY <1>3, <1>5, <2>1, Zenon DEF TextOK
<1>10. PlaceOK'
  <2>1. round' \in 1..2 /\ (buffers' # <<>>) = (pc' \in Writing)
    BY <1>2, <1>3, <1>5, <1>6 DEF PlaceOK
  <2>2. index' \in 1..(Len(document'.text) + 1)
    <3>1. index \in Nat /\ index >= 1 /\ index' \in index..(Len(document.text) + 1)
      BY <1>2, <1>3 DEF PlaceOK, Stepped
    <3> QED
      BY <1>3, <3>1
  <2>3. pc' \in {"start", "key", "value"} => index' <= Len(document'.text)
    BY <1>3, <1>5 DEF Stepped
  <2>4. (stack' # <<>>) = (pc' \in Reading)
    BY <1>3 DEF Stepped
  <2> QED
    BY <1>5, <2>1, <2>2, <2>3, <2>4 DEF PlaceOK
<1>11. Left(index, stack, pc)' < Left(index, stack, pc)
  <2>1. Left(index', stack', pc') < Left(index, stack, pc)
    BY <1>3 DEF Stepped
  <2>2. Left(index, stack, pc)' = Left(index', stack', pc')
    BY <1>3, Zenon DEF Left
  <2> QED
    BY <2>1, <2>2, Zenon
<1> QED
  BY <1>8, <1>9, <1>10, <1>11 DEF DocumentInv

-----------------------------------------------------------------------------
(***************************************************************************)
(* The steps of encode().                                                  *)
(***************************************************************************)
LEMMA PartRemoved ==
    ASSUME NEW S, NEW s \in Seq(S), NEW i \in 1..Len(s)
    PROVE  JSON!RemoveAt(s, i) \in Seq(S)
<1>1. Len(s) \in Nat /\ \A k \in 1..Len(s) : s[k] \in S
  BY LenProperties, ElementOfSeq
<1>2. /\ 1 \in Int /\ i - 1 \in Int /\ i + 1 \in Int /\ Len(s) \in Int
      /\ \A k \in 1..(i - 1) : k \in 1..Len(s)
      /\ \A k \in (i + 1)..Len(s) : k \in 1..Len(s)
  BY <1>1
<1>3. SubSeq(s, 1, i - 1) \in Seq(S)
  BY <1>1, <1>2, SubSeqProperties
<1>4. SubSeq(s, i + 1, Len(s)) \in Seq(S)
  BY <1>1, <1>2, SubSeqProperties
<1>5. SubSeq(s, 1, i - 1) \o SubSeq(s, i + 1, Len(s)) \in Seq(S)
  BY <1>3, <1>4, ConcatProperties
<1> QED
  BY <1>5, Zenon DEF JSON!RemoveAt

\* The innermost call is replaced and another follows.
Followed(f, g) == JSON!Front(buffers) \o <<f, g>>

LEMMA TopFollowed ==
    ASSUME NEW F, buffers \in Seq(F), buffers # <<>>, NEW f \in F, NEW g \in F
    PROVE  /\ Followed(f, g) \in Seq(F) /\ Followed(f, g) # <<>>
           /\ Followed(f, g)[Len(buffers)] = f
           /\ \A i \in 1..(Len(buffers) - 1) : Followed(f, g)[i] = buffers[i]
<1> DEFINE q == SubSeq(buffers, 1, Len(buffers) - 1)
           r == q \o <<f, g>>
<1>1. Len(buffers) \in Nat /\ Len(buffers) >= 1
  BY EmptySeq, LenProperties
<1>2. /\ 1 \in 1..(Len(buffers) + 1) /\ Len(buffers) - 1 \in 0..Len(buffers) /\ 1 <= (Len(buffers) - 1) + 1
      /\ (Len(buffers) - 1) - 1 + 1 = Len(buffers) - 1 /\ \A i \in 1..(Len(buffers) - 1) : 1 + i - 1 = i
  BY <1>1
<1>3. q \in Seq(F) /\ Len(q) = Len(buffers) - 1 /\ \A i \in 1..(Len(buffers) - 1) : q[i] = buffers[i]
  BY <1>1, <1>2, SubSeqProperties
<1>4. Followed(f, g) = r
  BY Zenon DEF Followed, JSON!Front, q
<1> HIDE DEF q
<1>5. <<f, g>> \in Seq(F) /\ Len(<<f, g>>) = 2 /\ <<f, g>>[1] = f
  OBVIOUS
<1>6. r \in Seq(F) /\ Len(r) = Len(buffers) + 1 /\ r[Len(buffers)] = f /\ \A i \in 1..(Len(buffers) - 1) : r[i] = buffers[i]
  BY <1>1, <1>3, <1>5
<1> HIDE DEF r
<1>7. r # <<>>
  BY <1>1, <1>6
<1> QED
  BY <1>4, <1>6, <1>7

\* The calls of encode() after a step: the first is still the object's.
LEMMA CallsKept ==
    ASSUME NEW V, WriteOK(V, buffers), buffers # <<>>,
           NEW n \in {Len(buffers), Len(buffers) - 1}, n # 0,
           NEW r \in Seq(Calls(V)), r # <<>>, r[n].kind = buffers[n].kind,
           \A i \in 1..(n - 1) : r[i] = buffers[i]
    PROVE  WriteOK(V, r)
<1>1. buffers[1].kind = "object" /\ Len(buffers) \in Nat /\ Len(buffers) # 0
  BY EmptySeq, LenProperties DEF WriteOK
<1>2. CASE n = 1
  BY <1>1, <1>2 DEF WriteOK
<1>3. CASE n # 1
  <2>1. 1 \in 1..(n - 1)
    BY <1>1, <1>3
  <2> QED
    BY <1>1, <2>1 DEF WriteOK
<1> QED
  BY <1>2, <1>3

\* What holds before encode() writes.
LEMMA WritingFacts ==
    ASSUME NEW V, PlaceOK, WriteOK(V, buffers), pc \in Writing
    PROVE  /\ buffers \in Seq(Calls(V)) /\ buffers # <<>> /\ Len(buffers) \in Nat /\ Len(buffers) # 0
           /\ JSON!Inner = buffers[Len(buffers)] /\ JSON!Inner \in Calls(V)
           /\ stack = <<>>
<1>1. buffers \in Seq(Calls(V)) /\ buffers # <<>>
  BY DEF PlaceOK, WriteOK
<1>2. Len(buffers) \in Nat /\ Len(buffers) # 0
  BY <1>1, EmptySeq, LenProperties
<1>3. Len(buffers) \in 1..Len(buffers)
  BY <1>2
<1>4. JSON!Inner = buffers[Len(buffers)]
  BY Zenon DEF JSON!Inner, JSON!Last
<1>5. buffers[Len(buffers)] \in Calls(V)
  BY <1>1, <1>3, ElementOfSeq
<1>6. stack = <<>>
  BY DEF PlaceOK, Reading, Writing
<1> QED
  BY <1>1, <1>2, <1>4, <1>5, <1>6

\* Whatever the calls of encode() are after a step, if they are well-typed the
\* invariant holds.
LEMMA EncodingKeeps ==
    ASSUME DocumentInv, NEW V, Typed(V), ReadOK(V, stack, decoded, pc), NEW r, buffers' = r, pc' \in Writing,
           WriteOK(V, r), r # <<>>, pc \in Writing, UNCHANGED <<document, round, index, stack, decoded>>
    PROVE  DocumentInv'
<1>1. buffers' = r /\ pc' \in Writing
  OBVIOUS
<1>2. pc' \notin Reading /\ pc' \notin {"start", "key", "value"}
  BY <1>1 DEF Reading, Writing
<1>3. document' = document /\ round' = round /\ index' = index /\ stack' = stack /\ decoded' = decoded
  BY Zenon
<1>4. stack = <<>>
  BY DEF DocumentInv, PlaceOK, Reading, Writing
<1>5. ReadOK(V, stack', decoded', pc')
  BY <1>3, <1>4, EmptySeq DEF ReadOK
<1>6. ValueOK'
  BY <1>1, <1>5, Zenon DEF ValueOK
<1>7. TextOK'
  BY <1>1, <1>3, Zenon DEF DocumentInv, TextOK
<1>8. PlaceOK'
  BY <1>1, <1>2, <1>3, <1>4 DEF DocumentInv, PlaceOK
<1> QED
  BY <1>6, <1>7, <1>8 DEF DocumentInv

LEMMA EncodeStartKeeps ==
    ASSUME DocumentInv, JSON!EncodeStart
    PROVE  DocumentInv'
<1> DEFINE c == JSON!Call(decoded)
<1>1. PICK V : Typed(V) /\ ReadOK(V, stack, decoded, pc) /\ WriteOK(V, buffers)
  BY DEF DocumentInv, ValueOK
<1>2. /\ pc = "done" /\ document' = [text |-> <<>>, value |-> decoded] /\ round' = 2 /\ index' = 1
      /\ buffers' = <<c>> /\ pc' = "encode" /\ decoded' = JSON!Object(<<>>) /\ stack' = stack
  BY Zenon DEF JSON!EncodeStart, JSON!Succeeded
<1>3. c \in Calls(V) /\ c.kind = "object"
  BY <1>1, CallIs DEF ReadOK
<1> HIDE DEF c
<1>4. WriteOK(V, <<c>>) /\ <<c>> # <<>>
  BY <1>3 DEF WriteOK
<1>5. buffers' = <<c>> /\ pc' \in Writing
  BY <1>2, Zenon DEF Writing
<1>6. pc' \notin Reading /\ pc' \notin {"start", "key", "value"}
  BY <1>5 DEF Reading, Writing
<1>7. stack = <<>>
  BY <1>2 DEF DocumentInv, PlaceOK, Reading
<1>8. decoded' \in Containers(V) /\ decoded'.kind = "object"
  <2>1. Object(<<>>) \in Containers(V) /\ Object(<<>>).kind = "object"
    BY EmptySeq DEF Containers, Object
  <2>2. decoded' = Object(<<>>)
    BY <1>2, Zenon DEF JSON!Object, Object
  <2> QED
    BY <2>1, <2>2
<1>9. ReadOK(V, stack', decoded', pc')
  BY <1>2, <1>7, <1>8, EmptySeq DEF ReadOK
<1>10. ValueOK'
  BY <1>1, <1>4, <1>5, <1>9, Zenon DEF ValueOK
<1>11. document'.text = <<>> /\ document'.value = decoded
  BY <1>2
<1>12. TextOK'
  BY <1>2, <1>5, <1>11, EmptySeq, Zenon DEF TextOK
<1>13. PlaceOK'
  <2>1. index' \in 1..(Len(document'.text) + 1) /\ round' \in 1..2
    BY <1>2, <1>11, EmptySeq
  <2> QED
    BY <1>2, <1>4, <1>5, <1>6, <1>7, <2>1 DEF PlaceOK
<1> QED
  BY <1>10, <1>12, <1>13 DEF DocumentInv

LEMMA EncodePartKeeps ==
    ASSUME DocumentInv, JSON!EncodePart
    PROVE  DocumentInv'
<1> DEFINE inner == JSON!Inner
<1>1. PICK V : Typed(V) /\ ReadOK(V, stack, decoded, pc) /\ WriteOK(V, buffers)
  BY DEF DocumentInv, ValueOK
<1>2. /\ pc = "encode" /\ pc \in Writing /\ pc' \in Writing
      /\ UNCHANGED <<document, round, index, stack, decoded>>
  BY DEF JSON!EncodePart, Writing
<1>3. /\ buffers \in Seq(Calls(V)) /\ buffers # <<>> /\ Len(buffers) \in Nat /\ Len(buffers) # 0
      /\ inner = buffers[Len(buffers)] /\ inner \in Calls(V)
  BY <1>1, <1>2, WritingFacts DEF DocumentInv
<1>4. PICK i \in DOMAIN inner.left :
          buffers' = JSON!Front(buffers) \o
              IF inner.left[i].value.kind = "leaf"
              THEN <<JSON!Put(IF inner.kind = "object"
                              THEN JSON!PutKey([inner EXCEPT !.left = JSON!RemoveAt(@, i)], inner.left[i].key)
                              ELSE JSON!Comma([inner EXCEPT !.left = JSON!RemoveAt(@, i)]),
                              <<JSON!WrittenAs(inner.left[i].value.token)>>)>>
              ELSE <<IF inner.kind = "object"
                     THEN JSON!PutKey([inner EXCEPT !.left = JSON!RemoveAt(@, i)], inner.left[i].key)
                     ELSE JSON!Comma([inner EXCEPT !.left = JSON!RemoveAt(@, i)]),
                     JSON!Call(inner.left[i].value)>>
  BY Zenon DEF JSON!EncodePart
<1> DEFINE part == inner.left[i]
           v == part.value
           left == JSON!RemoveAt(inner.left, i)
           rest == [inner EXCEPT !.left = left]
           b == IF inner.kind = "object" THEN JSON!PutKey(rest, part.key) ELSE JSON!Comma(rest)
           token == JSON!WrittenAs(v.token)
           written == JSON!Put(b, <<token>>)
           call == JSON!Call(v)
           r == JSON!Front(buffers) \o IF v.kind = "leaf" THEN <<written>> ELSE <<b, call>>
<1>5. buffers' = r
  BY <1>4, Zenon
<1>6. /\ inner.left \in Seq([key : Strings \cup {Empty}, value : V])
      /\ inner.kind = "object" => inner.left \in Seq([key : Strings, value : V])
  BY <1>3, CallFacts
<1>7. i \in 1..Len(inner.left)
  BY <1>6, LenProperties
<1>8. part \in [key : Strings \cup {Empty}, value : V] /\ (inner.kind = "object" => part \in [key : Strings, value : V])
  BY <1>6, <1>7, ElementOfSeq
<1>9. v \in V /\ (inner.kind = "object" => part.key \in Strings)
  BY <1>8
<1>10. rest \in Calls(V) /\ rest.kind = inner.kind
  <2>1. /\ left \in Seq([key : Strings \cup {Empty}, value : V])
        /\ inner.kind = "object" => left \in Seq([key : Strings, value : V])
    BY <1>6, <1>7, PartRemoved
  <2> HIDE DEF left, inner
  <2>2. inner \in [kind : {"array", "object"}, left : Seq([key : Strings \cup {Empty}, value : V]),
                   text : Seq(JSON!Tokens)]
    BY <1>3, CallFacts
  <2>3. /\ rest \in [kind : {"array", "object"}, left : Seq([key : Strings \cup {Empty}, value : V]),
                     text : Seq(JSON!Tokens)]
        /\ rest.kind = inner.kind /\ rest.left = left
    BY <2>1, <2>2
  <2> HIDE DEF rest
  <2>4. rest \in Calls(V)
    BY <2>1, <2>2, <2>3 DEF Calls
  <2> QED
    BY <2>3, <2>4
<1> HIDE DEF inner, part, v, rest
<1>11. b \in Calls(V) /\ b.kind = inner.kind
  <2>1. CASE inner.kind = "object"
    <3>1. JSON!PutKey(rest, part.key) \in Calls(V) /\ JSON!PutKey(rest, part.key).kind = rest.kind
      BY <1>9, <1>10, <2>1, PutKeyIs
    <3> QED
      BY <1>10, <2>1, <3>1, Zenon
  <2>2. CASE inner.kind # "object"
    <3>1. JSON!Comma(rest) \in Calls(V) /\ JSON!Comma(rest).kind = rest.kind
      BY <1>10, CommaIs
    <3> QED
      BY <1>10, <2>2, <3>1, Zenon
  <2> QED
    BY <2>1, <2>2
<1> HIDE DEF b
<1>12. Len(buffers) \in {Len(buffers), Len(buffers) - 1}
  OBVIOUS
<1>13. CASE v.kind = "leaf"
  <2>1. v \in LeafValues
    <3>1. v \in LeafValues \/ v \in Containers(V)
      BY <1>1, <1>9 DEF Typed
    <3> QED
      BY <1>13, <3>1, ContainerIs
  <2>2. v.token \in JSON!Tokens
    BY <2>1 DEF LeafValues, Leaf
  <2>3. token \in JSON!Tokens
    BY <2>2, TokensAre
  <2> HIDE DEF token
  <2>4. <<token>> \in Seq(JSON!Tokens)
    BY <2>3, ShortTexts, Zenon
  <2>5. written \in Calls(V) /\ written.kind = b.kind
    BY <1>11, <2>4, PutIs
  <2> HIDE DEF written
  <2>6. r = JSON!Front(buffers) \o <<written>>
    BY <1>13, Zenon
  <2>7. /\ r \in Seq(Calls(V)) /\ r # <<>> /\ r[Len(buffers)] = written
        /\ \A k \in 1..(Len(buffers) - 1) : r[k] = buffers[k]
    BY <1>3, <2>5, <2>6, TopReplaced
  <2> HIDE DEF r
  <2>8. r[Len(buffers)].kind = buffers[Len(buffers)].kind
    BY <1>3, <1>11, <2>5, <2>7, Zenon
  <2>9. WriteOK(V, r)
    BY <1>1, <1>3, <1>12, <2>7, <2>8, CallsKept
  <2> QED
    BY <1>1, <1>2, <1>5, <2>7, <2>9, EncodingKeeps
<1>14. CASE v.kind # "leaf"
  <2>1. v \in Containers(V)
    <3>1. v \in LeafValues \/ v \in Containers(V)
      BY <1>1, <1>9 DEF Typed
    <3>2. v \in LeafValues => v.kind = "leaf"
      BY DEF LeafValues, Leaf
    <3> QED
      BY <1>14, <3>1, <3>2
  <2>2. call \in Calls(V)
    BY <2>1, CallIs
  <2> HIDE DEF call
  <2>3. r = JSON!Front(buffers) \o <<b, call>>
    BY <1>14, Zenon
  <2>4. /\ r \in Seq(Calls(V)) /\ r # <<>> /\ r[Len(buffers)] = b
        /\ \A k \in 1..(Len(buffers) - 1) : r[k] = buffers[k]
    <3>1. r = Followed(b, call)
      BY <2>3, Zenon DEF Followed
    <3> HIDE DEF r
    <3>2. buffers \in Seq(Calls(V)) /\ buffers # <<>> /\ b \in Calls(V) /\ call \in Calls(V)
      BY <1>3, <1>11, <2>2
    <3>3. /\ Followed(b, call) \in Seq(Calls(V)) /\ Followed(b, call) # <<>>
          /\ Followed(b, call)[Len(buffers)] = b
          /\ \A k \in 1..(Len(buffers) - 1) : Followed(b, call)[k] = buffers[k]
      <4> DEFINE C == Calls(V)
      <4>1. buffers \in Seq(C) /\ buffers # <<>> /\ b \in C /\ call \in C
        BY <3>2
      <4> HIDE DEF C
      <4>2. /\ Followed(b, call) \in Seq(C) /\ Followed(b, call) # <<>>
            /\ Followed(b, call)[Len(buffers)] = b
            /\ \A k \in 1..(Len(buffers) - 1) : Followed(b, call)[k] = buffers[k]
        BY <4>1, TopFollowed
      <4> QED
        BY <4>2 DEF C
    <3> QED
      BY <3>1, <3>3, Zenon
  <2> HIDE DEF r
  <2>5. r[Len(buffers)].kind = buffers[Len(buffers)].kind
    BY <1>3, <1>11, <2>4, Zenon
  <2>6. WriteOK(V, r)
    BY <1>1, <1>3, <1>12, <2>4, <2>5, CallsKept
  <2> QED
    BY <1>1, <1>2, <1>5, <2>4, <2>6, EncodingKeeps
<1> QED
  BY <1>13, <1>14

\* The text of an object.
Closed(t) == t # <<>> /\ t[Len(t)] = "}"

LEMMA WrittenIs ==
    ASSUME NEW V, NEW b \in Calls(V)
    PROVE  b.text \in Seq(JSON!Tokens)
BY DEF Calls

LEMMA ClosedText ==
    ASSUME NEW t \in Seq(JSON!Tokens), NEW m \in JSON!Tokens
    PROVE  t \o <<m>> # <<>> /\ (t \o <<m>>)[Len(t \o <<m>>)] = m /\ 1 <= Len(t \o <<m>>)
<1> DEFINE r == t \o <<m>>
<1>1. Len(t) \in Nat
  BY LenProperties
<1>2. r = Append(t, m)
  BY AppendIsConcat
<1>3. r # <<>> /\ Len(r) = Len(t) + 1 /\ r[Len(t) + 1] = m
  BY <1>2, AppendProperties
<1> HIDE DEF r
<1>4. 1 <= Len(r) /\ r[Len(r)] = m
  BY <1>1, <1>3
<1> QED
  BY <1>3, <1>4 DEF r

\* The closing mark is written behind what the call has.
LEMMA EndIs ==
    ASSUME NEW V, NEW inner \in Calls(V), NEW outermost \in BOOLEAN
    PROVE  LET line == IF inner.kind = "object" /\ ~outermost THEN JSON!Put(inner, <<"nl">>) ELSE inner
               mark == IF inner.kind = "object" THEN "}" ELSE "]"
               e == JSON!Put(line, <<mark>>)
           IN  /\ e \in Calls(V) /\ e.kind = inner.kind
               /\ mark \in JSON!Tokens /\ line.text \in Seq(JSON!Tokens) /\ e.text = line.text \o <<mark>>
<1> DEFINE line == IF inner.kind = "object" /\ ~outermost THEN JSON!Put(inner, <<"nl">>) ELSE inner
           mark == IF inner.kind = "object" THEN "}" ELSE "]"
           e == JSON!Put(line, <<mark>>)
<1>1. mark \in JSON!Tokens
  BY TokensAre, Zenon
<1> HIDE DEF mark
<1>3. <<"nl">> \in Seq(JSON!Tokens) /\ <<mark>> \in Seq(JSON!Tokens)
  BY <1>1, TokensAre, ShortTexts, Zenon
<1>4. line \in Calls(V) /\ line.kind = inner.kind
  <2>1. JSON!Put(inner, <<"nl">>) \in Calls(V) /\ JSON!Put(inner, <<"nl">>).kind = inner.kind
    BY <1>3, PutIs
  <2> QED
    BY <2>1, Zenon
<1> HIDE DEF line
<1>5. line.text \in Seq(JSON!Tokens)
  BY <1>4, WrittenIs
<1>6. e \in Calls(V) /\ e.kind = line.kind /\ e.text = line.text \o <<mark>>
  BY <1>3, <1>4, PutIs
<1> QED
  BY <1>1, <1>4, <1>5, <1>6, Zenon DEF line, mark

\* The object's call returns the text that is decoded next.
LEMMA TextFollows ==
    ASSUME DocumentInv, pc \in Writing, NEW V, Typed(V), ReadOK(V, stack, decoded, pc),
           NEW t \in Seq(JSON!Tokens), Closed(t), 1 <= Len(t),
           document' = [document EXCEPT !.text = t], buffers' = <<>>, pc' = "start",
           UNCHANGED <<round, index, stack, decoded>>
    PROVE  DocumentInv'
<1>1. document = [text |-> <<>>, value |-> document.value] /\ index \in 1..(Len(document.text) + 1)
  BY DEF DocumentInv, TextOK, PlaceOK
<1>2. document.text = <<>> /\ document'.text = t
  BY <1>1
<1>3. index = 1
  BY <1>1, <1>2, EmptySeq
<1>4. pc' \notin Reading /\ pc' \notin Writing
  BY DEF Reading, Writing
<1>5. stack = <<>>
  BY DEF DocumentInv, PlaceOK, Reading, Writing
<1>6. WriteOK(V, buffers')
  BY EmptySeq DEF WriteOK
<1>7. ReadOK(V, stack', decoded', pc')
  BY <1>5, EmptySeq DEF ReadOK
<1>8. ValueOK'
  BY <1>6, <1>7, Zenon DEF ValueOK
<1>9. TextOK'
  BY <1>2, <1>4, Zenon DEF TextOK, Closed
<1>10. index' \in 1..(Len(document'.text) + 1) /\ index' <= Len(document'.text)
  BY <1>2, <1>3, LenProperties
<1>11. PlaceOK'
  BY <1>2, <1>4, <1>5, <1>10 DEF DocumentInv, PlaceOK
<1> QED
  BY <1>8, <1>9, <1>11 DEF DocumentInv

LEMMA EncodeEndKeeps ==
    ASSUME DocumentInv, JSON!EncodeEnd
    PROVE  DocumentInv'
<1> DEFINE inner == JSON!Inner
           n == Len(buffers)
           outermost == n = 1
           line == IF inner.kind = "object" /\ ~outermost THEN JSON!Put(inner, <<"nl">>) ELSE inner
           mark == IF inner.kind = "object" THEN "}" ELSE "]"
           e == JSON!Put(line, <<mark>>)
           caller == buffers[n - 1]
           longer == JSON!Put(caller, e.text)
           r == SubSeq(buffers, 1, n - 2) \o <<longer>>
<1>1. PICK V : Typed(V) /\ ReadOK(V, stack, decoded, pc) /\ WriteOK(V, buffers)
  BY DEF DocumentInv, ValueOK
<1>2. pc = "encode" /\ UNCHANGED <<round, index, stack, decoded>>
  BY Zenon DEF JSON!EncodeEnd
<1>3. pc \in Writing
  BY <1>2 DEF Writing
<1>4. \/ outermost /\ document' = [document EXCEPT !.text = e.text] /\ buffers' = <<>> /\ pc' = "start"
      \/ ~outermost /\ buffers' = r /\ document' = document /\ pc' = pc
  BY Zenon DEF JSON!EncodeEnd
<1>5. /\ buffers \in Seq(Calls(V)) /\ buffers # <<>> /\ n \in Nat /\ n # 0
      /\ inner = buffers[n] /\ inner \in Calls(V)
  BY <1>1, <1>3, WritingFacts DEF DocumentInv
<1>6. outermost \in BOOLEAN
  BY Zenon
<1>7. /\ e \in Calls(V) /\ e.kind = inner.kind
      /\ mark \in JSON!Tokens /\ line.text \in Seq(JSON!Tokens) /\ e.text = line.text \o <<mark>>
  <2> HIDE DEF inner, outermost
  <2> QED
    BY <1>5, <1>6, EndIs
<1>8. outermost => mark = "}"
  BY <1>1, <1>5, Zenon DEF WriteOK
<1> HIDE DEF inner, line, mark, e
<1>9. e.text \in Seq(JSON!Tokens)
  BY <1>7, WrittenIs
<1>11. CASE outermost /\ document' = [document EXCEPT !.text = e.text] /\ buffers' = <<>> /\ pc' = "start"
  <2>1. e.text # <<>> /\ e.text[Len(e.text)] = mark /\ 1 <= Len(e.text)
    BY <1>7, ClosedText, Zenon
  <2>2. e.text[Len(e.text)] = "}"
    BY <1>8, <1>11, <2>1, Zenon
  <2> DEFINE t == e.text
  <2>3. /\ t \in Seq(JSON!Tokens) /\ Closed(t) /\ 1 <= Len(t)
        /\ document' = [document EXCEPT !.text = t]
    BY <1>9, <1>11, <2>1, <2>2, Zenon DEF Closed
  <2> HIDE DEF t
  <2> QED
    BY <1>1, <1>2, <1>3, <1>11, <2>3, TextFollows, Zenon
<1>12. CASE ~outermost /\ buffers' = r /\ document' = document /\ pc' = pc
  <2>1. n - 1 \in 1..n /\ n - 1 # 0
    BY <1>5, <1>12
  <2>2. caller \in Calls(V)
    BY <1>5, <2>1, ElementOfSeq
  <2> HIDE DEF caller
  <2>3. longer \in Calls(V) /\ longer.kind = caller.kind
    BY <1>9, <2>2, PutIs
  <2> HIDE DEF longer
  <2> DEFINE q == Append(SubSeq(buffers, 1, n - 2), longer)
  <2>4. /\ q \in Seq(Calls(V)) /\ q # <<>> /\ q[n - 1] = longer
        /\ \A k \in 1..(n - 2) : q[k] = buffers[k]
    BY <1>5, <1>12, <2>3, TopPopped
  <2>5. r = q
    <3>1. \A k \in 1..(n - 2) : buffers[k] \in Calls(V)
      BY <1>5, ElementOfSeq
    <3>2. SubSeq(buffers, 1, n - 2) \in Seq(Calls(V))
      BY <1>5, <3>1, SubSeqProperties
    <3> QED
      BY <2>3, <3>2, AppendIsConcat
  <2> HIDE DEF q, r
  <2>6. q[n - 1].kind = buffers[n - 1].kind /\ n - 1 \in {Len(buffers), Len(buffers) - 1}
    BY <2>3, <2>4 DEF caller
  <2>7. (n - 1) - 1 = n - 2
    BY <1>5
  <2>8. WriteOK(V, q)
    BY <1>1, <1>5, <2>1, <2>4, <2>6, <2>7, CallsKept
  <2>9. UNCHANGED <<document, round, index, stack, decoded>>
    BY <1>2, <1>12
  <2>10. buffers' = q /\ pc' \in Writing
    BY <1>3, <1>12, <2>5
  <2> QED
    BY <1>1, <1>3, <2>4, <2>8, <2>9, <2>10, EncodingKeeps
<1> QED
  BY <1>4, <1>11, <1>12

\* A byte past the end of the buffer leaves the model's state as it is.
LEMMA EncodeOverrunsKeeps ==
    ASSUME DocumentInv, JSON!EncodeOverruns
    PROVE  DocumentInv'
<1>1. PICK V : Typed(V) /\ ReadOK(V, stack, decoded, pc) /\ WriteOK(V, buffers)
  BY DEF DocumentInv, ValueOK
<1>2. /\ pc \in Writing /\ pc' \in Writing /\ buffers' = buffers
      /\ UNCHANGED <<document, round, index, stack, decoded>>
  BY DEF JSON!EncodeOverruns, Writing
<1>3. buffers # <<>>
  BY <1>2 DEF DocumentInv, PlaceOK
<1> QED
  BY <1>1, <1>2, <1>3, EncodingKeeps

-----------------------------------------------------------------------------
LEMMA DocumentStarts ==
    ASSUME JSON!Init
    PROVE  DocumentInv
<1>1. /\ document \in Documents /\ round = 1 /\ index = 1 /\ stack = <<>> /\ pc = "start"
      /\ decoded = Object(<<>>) /\ buffers = <<>>
  BY Zenon DEF JSON!Init, JSON!Object, Object
<1>2. document.text \in Seq(JSON!Tokens) /\ document.text # <<>> /\ document.text[Len(document.text)] = "}"
  BY <1>1, DocumentsAssumption, Zenon DEF JSON!JsonAssumption, JSON!Last
<1>3. pc \notin Reading /\ pc \notin Writing
  BY <1>1 DEF Reading, Writing
<1>4. TextOK
  BY <1>2, <1>3, Zenon DEF TextOK
<1>5. PlaceOK
  <2>1. Len(document.text) \in Nat /\ Len(document.text) # 0
    BY <1>2, EmptySeq, LenProperties
  <2>2. index \in 1..(Len(document.text) + 1) /\ index <= Len(document.text)
    BY <1>1, <2>1
  <2> QED
    BY <1>1, <1>3, <2>2 DEF PlaceOK
<1>6. Typed({}) /\ decoded \in Containers({}) /\ decoded.kind = "object"
  BY <1>1, EmptySeq DEF Typed, Containers, Object
<1>7. ReadOK({}, stack, decoded, pc)
  BY <1>1, <1>6, EmptySeq DEF ReadOK
<1>8. WriteOK({}, buffers)
  BY <1>1, EmptySeq DEF WriteOK
<1>9. ValueOK
  BY <1>6, <1>7, <1>8, Zenon DEF ValueOK
<1> QED
  BY <1>4, <1>5, <1>9 DEF DocumentInv

LEMMA DocumentSteps ==
    ASSUME DocumentInv, JSON!Next
    PROVE  DocumentInv'
<1>1. JSON!Decode \/ JSON!EncodeStart \/ JSON!EncodePart \/ JSON!EncodeEnd \/ JSON!EncodeOverruns
  BY Zenon DEF JSON!Next, JSON!Encode
<1> QED
  BY <1>1, DecodeKeeps, EncodeStartKeeps, EncodePartKeeps, EncodeEndKeeps, EncodeOverrunsKeeps, Zenon

LEMMA DocumentFacts ==
    ASSUME DocumentInv
    PROVE  JSON!TypeOK /\ pc # "none" /\ Left(index, stack, pc) \in Nat
<1>1. PICK V : Typed(V) /\ ReadOK(V, stack, decoded, pc) /\ WriteOK(V, buffers)
  BY DEF DocumentInv, ValueOK
<1>2. DOMAIN stack = 1..Len(stack) /\ DOMAIN buffers = 1..Len(buffers) /\ Len(stack) \in Nat
  BY <1>1, LenProperties DEF ReadOK, WriteOK
<1>3. \A i \in DOMAIN stack : stack[i].value.kind \in {"array", "object"}
  <2> SUFFICES ASSUME NEW i \in 1..Len(stack) PROVE stack[i].value.kind \in {"array", "object"}
    BY <1>2
  <2>1. stack[i] \in Frames(V)
    BY <1>1, ElementOfSeq DEF ReadOK
  <2>2. stack[i].value \in Containers(V)
    BY <2>1 DEF Frames
  <2> QED
    BY <2>2, ContainerIs
<1>4. \A i \in DOMAIN buffers : buffers[i] \in Calls(V)
  BY <1>1, <1>2, ElementOfSeq DEF WriteOK
<1>5. \A i \in DOMAIN buffers : buffers[i].kind \in {"array", "object"}
  BY <1>4 DEF Calls
<1>7. pc = "value" /\ JSON!InObject => JSON!Top.key \in Strings
  BY <1>1, ValueAtIs, Zenon DEF DocumentInv, JSON!InObject
<1>8. /\ document.text \in Seq(JSON!Tokens) /\ round \in 1..2
      /\ index \in 1..(Len(document.text) + 1)
      /\ pc \in {"start", "done"} \cup Reading \cup Writing
      /\ (stack # <<>>) = (pc \in Reading)
      /\ (buffers # <<>>) = (pc \in Writing)
  BY Zenon DEF DocumentInv, TextOK, PlaceOK
<1>9. pc \in {"start", "key", "value", "after", "done", "encode", "overrun"} /\ pc # "none"
  BY <1>8 DEF Reading, Writing
<1>10. JSON!TypeOK
  BY <1>3, <1>5, <1>7, <1>8, <1>9, Zenon DEF JSON!TypeOK, JSON!text, Reading, Writing
<1>11. Left(index, stack, pc) \in Nat
  <2>1. Len(document.text) \in Nat
    BY <1>8, LenProperties
  <2>2. \A n, l \in Nat : \A i \in 1..(n + 1) : \A e \in {0, 1} : 2 * (n + 1 - i) + l + e \in Nat
    OBVIOUS
  <2>3. (IF pc = "start" THEN 1 ELSE 0) \in {0, 1}
    OBVIOUS
  <2> QED
    BY <1>2, <1>8, <2>1, <2>2, <2>3, Zenon DEF Left
<1> QED
  BY <1>9, <1>10, <1>11

-----------------------------------------------------------------------------
\* A behaviour about a document keeps to the document, one about an instant has none.
ValuesInv == pc = "none" \/ DocumentInv

LEMMA ValuesInvHolds == ValuesSpec => []ValuesInv
<1>1. DocumentInit \/ InstantInit => ValuesInv
  BY DocumentStarts, Zenon DEF DocumentInit, InstantInit, ValuesInv
<1>2. ValuesInv /\ [DocumentNext \/ InstantNext]_<<vars, documentVars>> => ValuesInv'
  <2> SUFFICES ASSUME ValuesInv, [DocumentNext \/ InstantNext]_<<vars, documentVars>> PROVE ValuesInv'
    OBVIOUS
  <2>1. CASE DocumentNext
    BY <2>1, DocumentSteps, Zenon DEF DocumentNext, ValuesInv
  <2>2. CASE InstantNext
    BY <2>2, Zenon DEF InstantNext, ValuesInv, documentVars
  <2>3. CASE UNCHANGED <<vars, documentVars>>
    <3>1. UNCHANGED documentVars
      BY <2>3, Zenon
    <3>2. /\ document' = document /\ round' = round /\ index' = index /\ stack' = stack /\ pc' = pc
          /\ decoded' = decoded /\ buffers' = buffers
      BY <3>1 DEF documentVars
    <3> QED
      BY <3>2, Zenon DEF ValuesInv, DocumentInv, TextOK, PlaceOK, ValueOK
  <2> QED
    BY <2>1, <2>2, <2>3
<1> QED
  BY <1>1, <1>2, PTL DEF ValuesSpec

\* JsonObject and JsonArray keep their types at every step of decode() and encode(), for
\* any documents, however deep.
THEOREM DocumentTypes == ValuesSpec => []DocumentTypeOK
<1>1. ValuesInv => DocumentTypeOK
  BY DocumentFacts, Zenon DEF ValuesInv, DocumentTypeOK
<1> QED
  BY <1>1, ValuesInvHolds, PTL

\* decode() stands before a fraction of 256 bytes or more.
AtLong == pc = "value" /\ JSON!Is(JSON!ValueAt, JSON!Long)

LEMMA LongIsOther ==
    /\ JSON!Long \notin Strings
    /\ JSON!Long \notin JSON!Words \cup JSON!Digits
    /\ JSON!Long \notin JSON!Ints
    /\ JSON!Long # "nl" /\ JSON!Long # "{" /\ JSON!Long # "["
<1>1. JSON!Long \in JSON!Scalars
  BY Zenon DEF JSON!Scalars
<1>2. Strings \cap JSON!Scalars = {}
  BY DocumentsAssumption, Zenon DEF JSON!JsonAssumption
<1> QED
  BY <1>1, <1>2 DEF JSON!Long, JSON!Words, JSON!Ints, JSON!Digits, JSON!Other

LEMMA NothingReadsLong ==
    ASSUME TextOK, pc \notin Writing, NEW p \in 1..Len(document.text), document.text[p] = JSON!Long
    PROVE  JSON!Reads(p) = {}
<1> DEFINE N == Len(document.text)
           first == JSON!SkipFrom(p, {"nl"})
<1>1. Stops(p, {"nl"}, first)
  <2>1. N \in Nat
    BY Skips
  <2>2. p \in 1..(N + 1)
    BY <2>1
  <2> QED
    BY <2>1, <2>2, SkipStops
<1> HIDE DEF first
<1>2. first \in p..(N + 1) /\ \A k \in p..(first - 1) : document.text[k] = "nl"
  BY <1>1 DEF Stops
<1>3. first = p
  <2>1. first # p => p \in p..(first - 1)
    BY <1>2
  <2> QED
    BY <1>2, <2>1, LongIsOther
<1>4. document.text[p] \notin JSON!Words \cup JSON!Digits /\ document.text[first] \notin JSON!Ints
  BY <1>3, LongIsOther
<1> QED
  BY <1>4, Zenon DEF JSON!Reads, JSON!text, first

LEMMA NoStepAtLong ==
    ASSUME DocumentInv, AtLong
    PROVE  ~JSON!Decode
<1> DEFINE p == JSON!ValueAt
<1>1. PICK V : Typed(V) /\ ReadOK(V, stack, decoded, pc) /\ WriteOK(V, buffers)
  BY DEF DocumentInv, ValueOK
<1>2. pc = "value" /\ document.text[p] = JSON!Long /\ JSON!Is(p, JSON!Long)
  BY Zenon DEF AtLong, JSON!Is, JSON!text
<1>3. TextOK /\ PlaceOK /\ pc \notin Writing
  BY <1>2 DEF DocumentInv, Writing
<1>4. p \in 1..Len(document.text)
  BY <1>1, <1>2, <1>3, ValueAtIs
<1> HIDE DEF p
<1>5. JSON!Reads(p) = {}
  BY <1>2, <1>3, <1>4, NothingReadsLong
<1>6. ~JSON!ReadScalar
  BY <1>5, Zenon DEF JSON!ReadScalar, p
<1>7. ~JSON!IsString(p) /\ ~JSON!Is(p, "{") /\ ~JSON!Is(p, "[")
  BY <1>2, LongIsOther, Zenon DEF JSON!IsString, JSON!Is, JSON!text
<1>8. ~JSON!ReadString /\ ~JSON!ReadNested
  BY <1>7, Zenon DEF JSON!ReadString, JSON!ReadNested, p
<1>9. ~JSON!ValueFails
  BY <1>2, Zenon DEF JSON!ValueFails, JSON!NoValue, p
<1>10. ~JSON!Start /\ ~JSON!ReadKey /\ ~JSON!AfterValue
  BY <1>2 DEF JSON!Start, JSON!ReadKey, JSON!AfterValue
<1> QED
  BY <1>6, <1>8, <1>9, <1>10, Zenon DEF JSON!Decode

\* Every step of JsonObject::decode() leaves less to do, and there is never less than nothing:
\* decode() takes at most twice as many steps as the text is long.  It returns, unless it
\* stands before a fraction of 256 bytes, which no step gets it past.
DecodeAdvances == [][JSON!Decode => /\ Left(index, stack, pc) \in Nat
                                    /\ Left(index, stack, pc)' < Left(index, stack, pc)
                                    /\ ~AtLong]_<<vars, documentVars>>

THEOREM DecodeTakesFewSteps == ValuesSpec => DecodeAdvances
<1> DEFINE A == JSON!Decode => /\ Left(index, stack, pc) \in Nat
                               /\ Left(index, stack, pc)' < Left(index, stack, pc)
                               /\ ~AtLong
<1>1. ValuesInv /\ [DocumentNext \/ InstantNext]_<<vars, documentVars>> => [A]_<<vars, documentVars>>
  <2> SUFFICES ASSUME ValuesInv, JSON!Decode
               PROVE  /\ Left(index, stack, pc) \in Nat /\ Left(index, stack, pc)' < Left(index, stack, pc)
                      /\ ~AtLong
    BY Zenon
  <2>1. pc # "none"
    BY Zenon DEF JSON!Decode, JSON!Start, JSON!ReadKey, JSON!ReadString, JSON!ReadNested, JSON!ReadScalar,
                 JSON!ValueFails, JSON!AfterValue
  <2> QED
    BY <2>1, DecodeKeeps, DocumentFacts, NoStepAtLong, Zenon DEF ValuesInv
<1> QED
  BY <1>1, ValuesInvHolds, PTL DEF ValuesSpec, DecodeAdvances

-----------------------------------------------------------------------------
(***************************************************************************)
(* Marks that open and close.                                              *)
(***************************************************************************)
Openers == {"{", "["}
Closers == {"}", "]"}
MarksBefore(t, i, M) == {k \in 1..(i - 1) : t[k] \in M}

\* How many calls of decode() there should be under way at a place of a text.
Depth(t, i) == Cardinality(MarksBefore(t, i, Openers)) - Cardinality(MarksBefore(t, i, Closers))
Net(t) == Depth(t, Len(t) + 1)

\* By how many calls decode() is behind the text.
Lag(i, calls) == Depth(document.text, i) - Len(calls)

LEMMA CountIs ==
    ASSUME NEW t, NEW i \in Nat, NEW M
    PROVE  IsFiniteSet(MarksBefore(t, i, M)) /\ Cardinality(MarksBefore(t, i, M)) \in Nat
<1>1. IsFiniteSet(1..(i - 1))
  BY FS_Interval
<1>2. MarksBefore(t, i, M) \subseteq 1..(i - 1)
  BY DEF MarksBefore
<1>3. IsFiniteSet(MarksBefore(t, i, M))
  BY <1>1, <1>2, FS_Subset
<1> QED
  BY <1>3, FS_CardinalityType

LEMMA CountGrows ==
    ASSUME NEW t, NEW i \in Nat \ {0}, NEW j \in Nat, i <= j, NEW M
    PROVE  /\ Cardinality(MarksBefore(t, i, M)) <= Cardinality(MarksBefore(t, j, M))
           /\ (\A k \in i..(j - 1) : t[k] \notin M) =>
                  Cardinality(MarksBefore(t, j, M)) = Cardinality(MarksBefore(t, i, M))
<1>1. \A k \in 1..(i - 1) : k \in 1..(j - 1)
  OBVIOUS
<1>2. \A k \in 1..(j - 1) : k \in 1..(i - 1) \/ k \in i..(j - 1)
  OBVIOUS
<1>3. MarksBefore(t, i, M) \subseteq MarksBefore(t, j, M)
  BY <1>1 DEF MarksBefore
<1>4. (\A k \in i..(j - 1) : t[k] \notin M) => MarksBefore(t, j, M) = MarksBefore(t, i, M)
  BY <1>1, <1>2 DEF MarksBefore
<1>5. Cardinality(MarksBefore(t, i, M)) <= Cardinality(MarksBefore(t, j, M))
  BY <1>3, CountIs, FS_Subset
<1> QED
  BY <1>4, <1>5, Zenon

LEMMA CountNext ==
    ASSUME NEW t, NEW i \in Nat \ {0}, NEW M
    PROVE  Cardinality(MarksBefore(t, i + 1, M)) =
               Cardinality(MarksBefore(t, i, M)) + IF t[i] \in M THEN 1 ELSE 0
<1>1. \A k : k \in 1..(i + 1 - 1) <=> k \in 1..(i - 1) \/ k = i
  OBVIOUS
<1>2. i \notin 1..(i - 1)
  OBVIOUS
<1>3. CASE t[i] \in M
  <2>1. MarksBefore(t, i + 1, M) = MarksBefore(t, i, M) \cup {i}
    BY <1>1, <1>3 DEF MarksBefore
  <2>2. i \notin MarksBefore(t, i, M)
    BY <1>2 DEF MarksBefore
  <2>3. IsFiniteSet(MarksBefore(t, i, M))
    BY CountIs
  <2>4. Cardinality(MarksBefore(t, i, M) \cup {i}) = Cardinality(MarksBefore(t, i, M)) + 1
    BY <2>2, <2>3, FS_AddElement
  <2> QED
    BY <1>3, <2>1, <2>4
<1>4. CASE t[i] \notin M
  <2>1. MarksBefore(t, i + 1, M) = MarksBefore(t, i, M)
    BY <1>1, <1>4 DEF MarksBefore
  <2>2. Cardinality(MarksBefore(t, i, M)) \in Nat
    BY CountIs
  <2> QED
    BY <1>4, <2>1, <2>2
<1> QED
  BY <1>3, <1>4

LEMMA Opposite == \A m \in Openers : m \notin Closers
BY Zenon DEF Openers, Closers

\* Where nothing closes the depth does not get less.
LEMMA DepthGrows ==
    ASSUME NEW t, NEW i \in Nat \ {0}, NEW j \in Nat, i <= j, \A k \in i..(j - 1) : t[k] \notin Closers
    PROVE  Depth(t, i) <= Depth(t, j) /\ Depth(t, i) \in Int /\ Depth(t, j) \in Int
<1>1. /\ Cardinality(MarksBefore(t, i, Openers)) \in Nat /\ Cardinality(MarksBefore(t, j, Openers)) \in Nat
      /\ Cardinality(MarksBefore(t, i, Closers)) \in Nat
  BY CountIs
<1>2. /\ Cardinality(MarksBefore(t, i, Openers)) <= Cardinality(MarksBefore(t, j, Openers))
      /\ Cardinality(MarksBefore(t, j, Closers)) = Cardinality(MarksBefore(t, i, Closers))
  BY CountGrows
<1> QED
  BY <1>1, <1>2 DEF Depth

LEMMA DepthNext ==
    ASSUME NEW t, NEW i \in Nat \ {0}
    PROVE  /\ t[i] \in Openers => Depth(t, i + 1) = Depth(t, i) + 1
           /\ t[i] \in Closers => Depth(t, i + 1) = Depth(t, i) - 1
           /\ t[i] \notin Openers /\ t[i] \notin Closers => Depth(t, i + 1) = Depth(t, i)
           /\ Depth(t, i) \in Int
<1> DEFINE o == Cardinality(MarksBefore(t, i, Openers))
           c == Cardinality(MarksBefore(t, i, Closers))
<1>1. o \in Nat /\ c \in Nat
  BY CountIs
<1>2. /\ Cardinality(MarksBefore(t, i + 1, Openers)) = o + IF t[i] \in Openers THEN 1 ELSE 0
      /\ Cardinality(MarksBefore(t, i + 1, Closers)) = c + IF t[i] \in Closers THEN 1 ELSE 0
  BY CountNext
<1>3. t[i] \in Openers => t[i] \notin Closers
  BY Opposite
<1> HIDE DEF o, c
<1> QED
  BY <1>1, <1>2, <1>3 DEF Depth, o, c

\* The place moves on without reading a closing mark.
Unclosed(i, j) == \A k \in i..(j - 1) : document.text[k] \notin Closers

LEMMA OtherTokens ==
    /\ \A t \in Strings \cup JSON!Scalars \cup {"sp", "nl", Empty} : t \notin Closers /\ t \notin Openers
    /\ \A t \in {"sp", "nl", ",", ":"} : t \notin Closers /\ t \notin Openers
    /\ Closers \cap (JSON!Tokens \ {"sp", ",", "}", "]"}) = {}
    /\ \A t \in JSON!Scalars : t # "nl"
<1>1. /\ Strings \cap JSON!Marks = {} /\ Closers \subseteq JSON!Marks /\ Openers \subseteq JSON!Marks
  BY DocumentsAssumption, Zenon DEF JSON!JsonAssumption, Closers, Openers, JSON!Marks
<1>2. \A t \in JSON!Scalars \cup {"sp", "nl", Empty, ",", ":"} : t \notin Closers /\ t \notin Openers
  BY Zenon DEF JSON!Scalars, JSON!Unreadable, JSON!Ints, JSON!Digits, JSON!Words, Closers, Openers, Empty,
               JSON!Other, JSON!Long
<1>3. Closers \cap (JSON!Tokens \ {"sp", ",", "}", "]"}) = {}
  BY Zenon DEF Closers
<1>4. \A t \in JSON!Scalars : t # "nl"
  BY DEF JSON!Scalars, JSON!Unreadable, JSON!Ints, JSON!Digits, JSON!Words, JSON!Other, JSON!Long
<1> QED
  BY <1>1, <1>2, <1>3, <1>4, Zenon

LEMMA UnclosedJoin ==
    ASSUME NEW i \in Int, NEW j \in Int, NEW l \in Int, Unclosed(i, j), Unclosed(j, l)
    PROVE  Unclosed(i, l)
<1>1. \A k \in i..(l - 1) : k \in i..(j - 1) \/ k \in j..(l - 1)
  OBVIOUS
<1> QED
  BY <1>1 DEF Unclosed

LEMMA UnclosedNext ==
    ASSUME NEW i \in Int, document.text[i] \notin Closers
    PROVE  Unclosed(i, i + 1)
<1>1. \A k \in i..(i + 1 - 1) : k = i
  OBVIOUS
<1> QED
  BY <1>1 DEF Unclosed

LEMMA SkipsUnclosed ==
    ASSUME Len(document.text) \in Nat, NEW i \in 1..(Len(document.text) + 1)
    PROVE  /\ Unclosed(i, JSON!AfterSpaces(i)) /\ Unclosed(i, JSON!AfterWhite(i))
           /\ Unclosed(i, JSON!SkipFrom(i, {"nl"}))
           /\ i <= Len(document.text) => Unclosed(i + 1, JSON!RunEnd(i))
<1> DEFINE N == Len(document.text)
<1>1. ASSUME NEW j \in 1..(N + 1), NEW S, \A t \in S : t \notin Closers
      PROVE  Unclosed(j, JSON!SkipFrom(j, S))
  <2>1. Stops(j, S, JSON!SkipFrom(j, S))
    BY <1>1, SkipStops
  <2> QED
    BY <1>1, <2>1, Zenon DEF Stops, Unclosed
<1>2. /\ \A t \in {"sp"} : t \notin Closers
      /\ \A t \in {"sp", "nl"} : t \notin Closers
      /\ \A t \in {"nl"} : t \notin Closers
      /\ \A t \in JSON!Tokens \ {"sp", ",", "}", "]"} : t \notin Closers
  BY OtherTokens, Zenon
<1>3. i <= N => i + 1 \in 1..(N + 1)
  OBVIOUS
<1> HIDE DEF N
<1>4. Unclosed(i, JSON!AfterSpaces(i)) /\ Unclosed(i, JSON!AfterWhite(i)) /\ Unclosed(i, JSON!SkipFrom(i, {"nl"}))
  BY <1>1, <1>2, Zenon DEF JSON!AfterSpaces, JSON!AfterWhite, N
<1>5. i <= N => Unclosed(i + 1, JSON!RunEnd(i))
  BY <1>1, <1>2, <1>3, Zenon DEF JSON!RunEnd
<1> QED
  BY <1>4, <1>5 DEF N

\* What a step of decode() does to the lag.
LagKept ==
    /\ Lag(index, stack) <= Lag(index', stack')
    /\ Len(stack') < Len(stack) /\ Unclosed(index, index') => Lag(index, stack) < Lag(index', stack')

\* The four kinds of step: text is passed over, a call begins, a call fails, a call ends.
LEMMA LagCases ==
    ASSUME index \in Nat \ {0}, index' \in Nat, index <= index', Len(stack) \in Nat,
           \/ Unclosed(index, index') /\ Len(stack') = Len(stack)
           \/ \E i \in Nat : /\ index <= i /\ index' = i + 1 /\ Unclosed(index, i)
                             /\ document.text[i] \in Openers /\ Len(stack') = Len(stack) + 1
           \/ Unclosed(index, index') /\ Len(stack') = Len(stack) - 1
           \/ \E i \in Nat : /\ index <= i /\ index' = i + 1 /\ Unclosed(index, i)
                             /\ document.text[i] \in Closers /\ Len(stack') = Len(stack) - 1
    PROVE  LagKept
<1> DEFINE d == Depth(document.text, index)
           e == Depth(document.text, index')
<1>1. d \in Int /\ (Unclosed(index, index') => d <= e /\ e \in Int)
  BY DepthGrows, DepthNext DEF Unclosed
<1>2. Lag(index, stack) = d - Len(stack) /\ Lag(index', stack') = e - Len(stack')
  BY DEF Lag
<1>3. CASE Unclosed(index, index') /\ Len(stack') = Len(stack)
  <2> HIDE DEF d, e
  <2> QED
    BY <1>1, <1>2, <1>3 DEF LagKept
<1>4. CASE Unclosed(index, index') /\ Len(stack') = Len(stack) - 1
  <2> HIDE DEF d, e
  <2> QED
    BY <1>1, <1>2, <1>4 DEF LagKept
<1>5. ASSUME NEW i \in Nat, index <= i, index' = i + 1, Unclosed(index, i)
      PROVE  /\ document.text[i] \in Openers => d + 1 <= e /\ e \in Int
             /\ document.text[i] \in Closers => d - 1 <= e /\ e \in Int /\ ~Unclosed(index, index')
  <2> DEFINE m == Depth(document.text, i)
  <2>1. i \in Nat \ {0}
    BY <1>5
  <2>2. d <= m /\ m \in Int
    BY <1>5, DepthGrows DEF Unclosed
  <2>3. /\ document.text[i] \in Openers => e = m + 1
        /\ document.text[i] \in Closers => e = m - 1
    BY <1>5, <2>1, DepthNext
  <2>4. i \in index..(index' - 1)
    BY <1>5
  <2>5. document.text[i] \in Closers => ~Unclosed(index, index')
    BY <2>4, Zenon DEF Unclosed
  <2> HIDE DEF d, e, m
  <2> QED
    BY <1>1, <2>2, <2>3, <2>5
<1>6. CASE \E i \in Nat : /\ index <= i /\ index' = i + 1 /\ Unclosed(index, i)
                          /\ document.text[i] \in Openers /\ Len(stack') = Len(stack) + 1
  <2>1. d + 1 <= e /\ e \in Int /\ Len(stack') = Len(stack) + 1
    BY <1>5, <1>6
  <2> HIDE DEF d, e
  <2> QED
    BY <1>1, <1>2, <2>1 DEF LagKept
<1>7. CASE \E i \in Nat : /\ index <= i /\ index' = i + 1 /\ Unclosed(index, i)
                          /\ document.text[i] \in Closers /\ Len(stack') = Len(stack) - 1
  <2>1. d - 1 <= e /\ e \in Int /\ Len(stack') = Len(stack) - 1 /\ ~Unclosed(index, index')
    BY <1>5, <1>7
  <2> HIDE DEF d, e
  <2> QED
    BY <1>1, <1>2, <2>1 DEF LagKept
<1> QED
  BY <1>3, <1>4, <1>6, <1>7

\* The lengths of the stack behind the steps.
LEMMA NewLengths ==
    ASSUME NEW V, Typed(V), ReadOK(V, stack, decoded, pc)
    PROVE  /\ Len(stack) \in Nat
           /\ stack # <<>> /\ JSON!Return => Len(stack') = Len(stack) - 1
           /\ \A kind \in {"object", "array"} : JSON!Open(kind) => Len(stack') = Len(stack) + 1
           /\ stack # <<>> => \A f : stack' = JSON!Front(stack) \o <<f>> => Len(stack') = Len(stack)
<1>1. stack \in Seq(Frames(V)) /\ Len(stack) \in Nat
  BY LenProperties DEF ReadOK
<1>2. stack # <<>> /\ JSON!Return => Len(stack') = Len(stack) - 1
  BY ReturnKeeps
<1>3. ASSUME NEW kind \in {"object", "array"}, JSON!Open(kind)
      PROVE  Len(stack') = Len(stack) + 1
  <2>1. stack' = Append(stack, JSON!Frame(kind)) /\ JSON!Frame(kind) \in Frames(V)
    BY <1>3, FrameIs, Zenon DEF JSON!Open
  <2> QED
    BY <1>1, <2>1, AppendProperties
<1>4. ASSUME stack # <<>>, NEW f, stack' = JSON!Front(stack) \o <<f>>
      PROVE  Len(stack') = Len(stack)
  <2> DEFINE F == Frames(V) \cup {f}
  <2>1. Frames(V) \subseteq F /\ f \in F
    OBVIOUS
  <2> HIDE DEF F
  <2>2. stack \in Seq(F)
    BY <1>1, <2>1, SeqMonotonic
  <2> QED
    BY <1>4, <2>1, <2>2, TopReplaced
<1> QED
  BY <1>1, <1>2, <1>3, <1>4, Zenon

LEMMA MarkIs ==
    ASSUME NEW i
    PROVE  /\ JSON!Is(i, "{") \/ JSON!Is(i, "[") => document.text[i] \in Openers
           /\ JSON!Is(i, "}") \/ JSON!Is(i, "]") => document.text[i] \in Closers
           /\ JSON!Is(i, ",") \/ JSON!Is(i, ":") => document.text[i] \notin Closers
           /\ JSON!IsString(i) => document.text[i] \notin Closers
<1>1. /\ "{" \in Openers /\ "[" \in Openers /\ "}" \in Closers /\ "]" \in Closers
      /\ "," \notin Closers /\ ":" \notin Closers
  BY OtherTokens, Zenon DEF Openers, Closers
<1>2. \A t \in Strings : t \notin Closers
  BY OtherTokens, Zenon
<1> QED
  BY <1>1, <1>2, Zenon DEF JSON!Is, JSON!IsString, JSON!text

\* What holds before a step of decode(), for the places it may reach.
LEMMA LagFacts ==
    ASSUME NEW V, TextOK, PlaceOK, pc \notin Writing, Typed(V), ReadOK(V, stack, decoded, pc)
    PROVE  LET N == Len(document.text)
           IN  /\ N \in Nat /\ index \in 1..(N + 1) /\ index \in Nat \ {0}
               /\ Len(stack) \in Nat /\ Unclosed(index, index)
<1>1. Len(document.text) \in Nat /\ index \in 1..(Len(document.text) + 1)
  BY Skips DEF PlaceOK
<1>2. index \in Nat \ {0}
  BY <1>1
<1>3. Unclosed(index, index)
  BY <1>2 DEF Unclosed
<1> QED
  BY <1>1, <1>2, <1>3, NewLengths

LEMMA StartLag ==
    ASSUME NEW V, TextOK, PlaceOK, Typed(V), ReadOK(V, stack, decoded, pc), JSON!Start
    PROVE  LagKept
<1> DEFINE N == Len(document.text)
           i == JSON!AfterSpaces(index)
<1>1. pc = "start" /\ pc \notin Writing
  BY DEF JSON!Start, Writing
<1>2. N \in Nat /\ index \in 1..(N + 1) /\ index \in Nat \ {0} /\ Len(stack) \in Nat
  BY <1>1, LagFacts
<1>3. i \in index..(N + 1) /\ Unclosed(index, i)
  BY <1>1, <1>2, Skips, SkipsUnclosed
<1>4. i \in Nat /\ index <= i /\ i + 1 \in Nat /\ index <= i + 1
  BY <1>2, <1>3
<1>5. CASE JSON!Is(i, "{")
  <2>1. index' = i + 1 /\ JSON!Open("object")
    BY <1>5, Zenon DEF JSON!Start
  <2>2. document.text[i] \in Openers
    BY <1>5, MarkIs, Zenon
  <2>3. Len(stack') = Len(stack) + 1
    BY <2>1, NewLengths
  <2> HIDE DEF i
  <2> QED
    BY <1>2, <1>3, <1>4, <2>1, <2>2, <2>3, LagCases
<1>6. CASE ~JSON!Is(i, "{")
  <2>1. index' = i /\ stack' = stack
    BY <1>6, Zenon DEF JSON!Start
  <2> HIDE DEF i
  <2> QED
    BY <1>2, <1>3, <1>4, <2>1, LagCases
<1> QED
  BY <1>5, <1>6

LEMMA ReadKeyLag ==
    ASSUME NEW V, TextOK, PlaceOK, Typed(V), ReadOK(V, stack, decoded, pc), JSON!ReadKey
    PROVE  LagKept
<1> DEFINE N == Len(document.text)
           i == JSON!AfterSpaces(index)
           c == JSON!AfterSpaces(i + 1)
<1>1. pc = "key" /\ pc \in Reading
  BY DEF JSON!ReadKey, Reading
<1>2. pc \notin Writing /\ stack # <<>> /\ N \in Nat /\ index \in 1..N
  BY <1>1, ReadingFacts
<1>3. index \in 1..(N + 1) /\ index \in Nat \ {0} /\ Len(stack) \in Nat
  BY <1>2, LagFacts
<1>4. i \in index..N /\ Unclosed(index, i)
  BY <1>2, <1>3, Skips, SkipsUnclosed
<1>5. i \in Nat /\ i \in 1..N /\ index <= i /\ i + 1 \in 1..(N + 1) /\ i + 1 \in Nat
  BY <1>2, <1>4
<1>6. c \in (i + 1)..(N + 1) /\ Unclosed(i + 1, c)
  BY <1>2, <1>5, Skips, SkipsUnclosed
<1>7. c \in Nat /\ index <= c /\ c + 1 \in Nat /\ index <= c + 1
  BY <1>2, <1>5, <1>6
<1>8. JSON!IsString(i) => Unclosed(index, c)
  <2> SUFFICES ASSUME JSON!IsString(i) PROVE Unclosed(index, c)
    OBVIOUS
  <2>1. document.text[i] \notin Closers
    BY MarkIs
  <2>2. Unclosed(i, i + 1)
    BY <1>5, <2>1, UnclosedNext
  <2> HIDE DEF i, c
  <2>3. Unclosed(index, i + 1)
    BY <1>3, <1>4, <1>5, <2>2, UnclosedJoin
  <2> QED
    BY <1>3, <1>5, <1>6, <1>7, <2>3, UnclosedJoin
<1>9. CASE JSON!IsString(i) /\ JSON!Is(c, ":")
  <2>1. /\ index' = c + 1
        /\ stack' = JSON!Front(stack) \o <<[JSON!Top EXCEPT !.key = document.text[i]]>>
    BY <1>9, Zenon DEF JSON!ReadKey, JSON!text
  <2>2. Len(stack') = Len(stack)
    BY <1>2, <2>1, NewLengths
  <2>3. Unclosed(c, c + 1)
    <3>1. document.text[c] \notin Closers
      BY <1>9, MarkIs
    <3> QED
      BY <1>7, <3>1, UnclosedNext
  <2> HIDE DEF i, c
  <2>4. Unclosed(index, c + 1)
    BY <1>3, <1>7, <1>8, <1>9, <2>3, UnclosedJoin
  <2> QED
    BY <1>3, <1>7, <2>1, <2>2, <2>4, LagCases
<1>10. CASE ~(JSON!IsString(i) /\ JSON!Is(c, ":"))
  <2>1. (index' = IF JSON!IsString(i) THEN c ELSE i) /\ JSON!Return
    BY <1>10, Zenon DEF JSON!ReadKey
  <2>2. Len(stack') = Len(stack) - 1
    BY <1>2, <2>1, NewLengths
  <2>3. Unclosed(index, index') /\ index' \in Nat /\ index <= index'
    BY <1>4, <1>5, <1>7, <1>8, <2>1, Zenon
  <2> QED
    BY <1>3, <2>2, <2>3, LagCases
<1> QED
  BY <1>9, <1>10

LEMMA ValueLag ==
    ASSUME NEW V, TextOK, PlaceOK, Typed(V), ReadOK(V, stack, decoded, pc), pc = "value"
    PROVE  LET N == Len(document.text)
               p == JSON!ValueAt
           IN  /\ N \in Nat /\ index \in Nat \ {0} /\ Len(stack) \in Nat /\ stack # <<>> /\ pc \notin Writing
               /\ p \in 1..N /\ p \in Nat /\ index <= p /\ p + 1 \in Nat /\ index <= p + 1
               /\ Unclosed(index, p)
<1> DEFINE N == Len(document.text)
           p == JSON!ValueAt
<1>1. p \in index..N /\ p \in 1..N /\ pc \in Reading
  BY ValueAtIs
<1>2. pc \notin Writing /\ stack # <<>>
  BY <1>1, ReadingFacts
<1>3. N \in Nat /\ index \in 1..(N + 1) /\ index \in Nat \ {0} /\ Len(stack) \in Nat
  BY <1>2, LagFacts
<1>4. Unclosed(index, p)
  <2>1. Unclosed(index, JSON!AfterSpaces(index)) /\ Unclosed(index, JSON!AfterWhite(index))
    BY <1>3, SkipsUnclosed
  <2> QED
    BY <2>1, Zenon DEF JSON!ValueAt
<1> HIDE DEF p
<1>5. p \in Nat /\ index <= p /\ p + 1 \in Nat /\ index <= p + 1
  BY <1>1, <1>3
<1> QED
  BY <1>1, <1>2, <1>3, <1>4, <1>5 DEF p

LEMMA ReadStringLag ==
    ASSUME NEW V, TextOK, PlaceOK, Typed(V), ReadOK(V, stack, decoded, pc), JSON!ReadString
    PROVE  LagKept
<1> DEFINE p == JSON!ValueAt
<1>1. pc = "value" /\ JSON!IsString(p) /\ JSON!Take(JSON!Leaf(document.text[p]), p + 1)
  BY Zenon DEF JSON!ReadString, JSON!text
<1>2. /\ index \in Nat \ {0} /\ Len(stack) \in Nat /\ stack # <<>>
      /\ p \in Nat /\ index <= p /\ p + 1 \in Nat /\ index <= p + 1 /\ Unclosed(index, p)
  BY <1>1, ValueLag
<1>3. index' = p + 1 /\ Len(stack') = Len(stack)
  <2>1. index' = p + 1 /\ \E f : stack' = JSON!Front(stack) \o <<f>>
    BY <1>1, Zenon DEF JSON!Take
  <2> QED
    BY <1>2, <2>1, NewLengths
<1>4. document.text[p] \notin Closers
  BY <1>1, MarkIs
<1> HIDE DEF p
<1>5. Unclosed(p, p + 1)
  BY <1>2, <1>4, UnclosedNext
<1>6. Unclosed(index, p + 1)
  BY <1>2, <1>5, UnclosedJoin
<1> QED
  BY <1>2, <1>3, <1>6, LagCases

LEMMA ReadScalarLag ==
    ASSUME NEW V, TextOK, PlaceOK, Typed(V), ReadOK(V, stack, decoded, pc), JSON!ReadScalar
    PROVE  LagKept
<1> DEFINE N == Len(document.text)
           p == JSON!ValueAt
           first == JSON!SkipFrom(p, {"nl"})
           e == JSON!RunEnd(p)
<1>1. /\ pc = "value" /\ JSON!Reads(p) # {}
      /\ index' = e /\ \E f : stack' = JSON!Front(stack) \o <<f>>
  BY Zenon DEF JSON!ReadScalar, JSON!Take
<1>2. /\ N \in Nat /\ index \in Nat \ {0} /\ Len(stack) \in Nat /\ stack # <<>> /\ pc \notin Writing
      /\ p \in 1..N /\ p \in Nat /\ index <= p /\ p + 1 \in Nat /\ Unclosed(index, p)
  BY <1>1, ValueLag
<1>3. Len(stack') = Len(stack)
  BY <1>1, <1>2, NewLengths
<1> HIDE DEF p
<1>4. p \in 1..(N + 1) /\ p <= N
  BY <1>2
<1>5. e \in (p + 1)..(N + 1) /\ Unclosed(p + 1, e)
  BY <1>2, <1>4, Skips, SkipsUnclosed
<1>6. e \in Nat /\ index <= e
  BY <1>2, <1>5
<1>7. document.text[p] \notin Closers
  <2>1. \/ document.text[first] \in JSON!Scalars
        \/ document.text[p] \in JSON!Scalars
    BY <1>1, Zenon DEF JSON!Reads, JSON!text, JSON!Scalars, JSON!Ints
  <2>2. CASE document.text[p] \in JSON!Scalars
    BY <2>2, OtherTokens, Zenon
  <2>3. CASE document.text[first] \in JSON!Scalars
    <3>1. Unclosed(p, first) /\ first \in p..N
      BY <1>2, <1>4, Skips, SkipsUnclosed
    <3>2. first = p \/ p \in p..(first - 1)
      BY <1>2, <3>1
    <3>3. document.text[first] \notin Closers
      BY <2>3, OtherTokens, Zenon
    <3> QED
      BY <3>1, <3>2, <3>3, Zenon DEF Unclosed
  <2> QED
    BY <2>1, <2>2, <2>3
<1> HIDE DEF e, first
<1>8. Unclosed(p, p + 1)
  BY <1>2, <1>7, UnclosedNext
<1>9. Unclosed(index, p + 1)
  BY <1>2, <1>8, UnclosedJoin
<1>10. Unclosed(index, e)
  BY <1>2, <1>5, <1>6, <1>9, UnclosedJoin
<1> QED
  BY <1>1, <1>2, <1>3, <1>6, <1>10, LagCases

LEMMA ReadNestedLag ==
    ASSUME NEW V, TextOK, PlaceOK, Typed(V), ReadOK(V, stack, decoded, pc), JSON!ReadNested
    PROVE  LagKept
<1> DEFINE p == JSON!ValueAt
<1>1. /\ pc = "value" /\ index' = p + 1
      /\ \/ JSON!Is(p, "{") /\ JSON!Open("object")
         \/ JSON!Is(p, "[") /\ JSON!Open("array")
  BY Zenon DEF JSON!ReadNested
<1>2. /\ index \in Nat \ {0} /\ Len(stack) \in Nat
      /\ p \in Nat /\ index <= p /\ p + 1 \in Nat /\ index <= p + 1 /\ Unclosed(index, p)
  BY <1>1, ValueLag
<1>3. document.text[p] \in Openers
  BY <1>1, MarkIs, Zenon
<1>4. Len(stack') = Len(stack) + 1
  <2>1. \E kind \in {"object", "array"} : JSON!Open(kind)
    BY <1>1, Zenon
  <2> QED
    BY <2>1, NewLengths
<1>5. index' = p + 1
  BY <1>1, Zenon
<1> HIDE DEF p
<1> QED
  BY <1>2, <1>3, <1>4, <1>5, LagCases

LEMMA ValueFailsLag ==
    ASSUME NEW V, TextOK, PlaceOK, Typed(V), ReadOK(V, stack, decoded, pc), JSON!ValueFails
    PROVE  LagKept
<1> DEFINE p == JSON!ValueAt
<1>1. pc = "value" /\ index' = p /\ JSON!Return
  BY Zenon DEF JSON!ValueFails
<1>2. /\ index \in Nat \ {0} /\ Len(stack) \in Nat /\ stack # <<>>
      /\ p \in Nat /\ index <= p /\ Unclosed(index, p)
  BY <1>1, ValueLag
<1>3. Len(stack') = Len(stack) - 1
  BY <1>1, <1>2, NewLengths
<1> HIDE DEF p
<1> QED
  BY <1>1, <1>2, <1>3, LagCases

LEMMA AfterValueLag ==
    ASSUME NEW V, TextOK, PlaceOK, Typed(V), ReadOK(V, stack, decoded, pc), JSON!AfterValue
    PROVE  LagKept
<1> DEFINE N == Len(document.text)
           i == IF JSON!InObject THEN JSON!AfterSpaces(index) ELSE index
           e == IF JSON!InObject THEN i ELSE JSON!AfterWhite(index)
           ends == JSON!Is(e, IF JSON!InObject THEN "}" ELSE "]")
<1>1. pc = "after" /\ pc \in Reading
  BY DEF JSON!AfterValue, Reading
<1>2. pc \notin Writing /\ stack # <<>>
  BY <1>1, ReadingFacts
<1>3. /\ N \in Nat /\ index \in 1..(N + 1) /\ index \in Nat \ {0} /\ Len(stack) \in Nat
      /\ Unclosed(index, index)
  BY <1>2, LagFacts
<1>4. /\ JSON!AfterSpaces(index) \in index..(N + 1) /\ JSON!AfterWhite(index) \in index..(N + 1)
      /\ index \in index..(N + 1)
      /\ Unclosed(index, JSON!AfterSpaces(index)) /\ Unclosed(index, JSON!AfterWhite(index))
  BY <1>2, <1>3, Skips, SkipsUnclosed
<1>5. i \in index..(N + 1) /\ e \in index..(N + 1) /\ Unclosed(index, i) /\ Unclosed(index, e)
  BY <1>3, <1>4, Zenon
<1>6. /\ JSON!Is(i, ",") => index' = i + 1 /\ stack' = stack
      /\ ~JSON!Is(i, ",") => (index' = IF ends THEN e + 1 ELSE e) /\ JSON!Return
  BY Zenon DEF JSON!AfterValue
<1>7. JSON!Is(i, ",") => document.text[i] \notin Closers
  BY MarkIs
<1>8. ends => document.text[e] \in Closers
  BY MarkIs, Zenon
<1>9. ~JSON!Is(i, ",") => Len(stack') = Len(stack) - 1
  BY <1>2, <1>6, NewLengths
<1> DEFINE comma == JSON!Is(i, ",")
<1> HIDE DEF comma
<1>10. /\ comma => index' = i + 1 /\ stack' = stack /\ document.text[i] \notin Closers
       /\ ~comma => (index' = IF ends THEN e + 1 ELSE e) /\ Len(stack') = Len(stack) - 1
  BY <1>6, <1>7, <1>9, Zenon DEF comma
<1> HIDE DEF i, e, ends
<1>11. i \in Nat /\ index <= i /\ e \in Nat /\ index <= e
  BY <1>3, <1>5
<1>12. CASE comma
  <2>1. Unclosed(i, i + 1)
    BY <1>10, <1>11, <1>12, UnclosedNext
  <2>2. Unclosed(index, i + 1)
    BY <1>3, <1>5, <1>11, <2>1, UnclosedJoin
  <2>3. index' = i + 1 /\ index' \in Nat /\ index <= index' /\ Len(stack') = Len(stack)
    BY <1>3, <1>10, <1>11, <1>12
  <2> QED
    BY <1>3, <2>2, <2>3, LagCases
<1>13. CASE ~comma /\ ends
  <2>1. index' = e + 1 /\ index' \in Nat /\ index <= index' /\ Len(stack') = Len(stack) - 1
    BY <1>3, <1>10, <1>11, <1>13
  <2> QED
    BY <1>3, <1>5, <1>8, <1>11, <1>13, <2>1, LagCases
<1>14. CASE ~comma /\ ~ends
  <2>1. index' = e /\ Len(stack') = Len(stack) - 1
    BY <1>10, <1>14
  <2> QED
    BY <1>3, <1>5, <1>11, <2>1, LagCases
<1> QED
  BY <1>12, <1>13, <1>14

LEMMA DecodeLag ==
    ASSUME DocumentInv, JSON!Decode
    PROVE  LagKept
<1>1. PICK V : Typed(V) /\ ReadOK(V, stack, decoded, pc) /\ WriteOK(V, buffers)
  BY DEF DocumentInv, ValueOK
<1>2. TextOK /\ PlaceOK
  BY DEF DocumentInv
<1>3. JSON!Start \/ JSON!ReadKey \/ JSON!ReadString \/ JSON!ReadNested \/ JSON!ReadScalar
          \/ JSON!ValueFails \/ JSON!AfterValue
  BY Zenon DEF JSON!Decode
<1> QED
  BY <1>1, <1>2, <1>3, StartLag, ReadKeyLag, ReadStringLag, ReadNestedLag, ReadScalarLag, ValueFailsLag,
     AfterValueLag, Zenon

-----------------------------------------------------------------------------
\* A call of decode() fails: it returns and has read no closing mark.
Fails == JSON!Decode /\ Len(stack') < Len(stack) /\ Unclosed(index, index')

Balanced == Net(document.text) = 0

\* decode() is behind a text that opens and closes equally often.
Behind == Lag(index, stack) > 0 /\ Balanced

\* decode() is never ahead of the text, and waits at its beginning while encode() works.
LagInv ==
    /\ Lag(index, stack) \in Nat
    /\ pc \in Writing \cup {"none"} => index = 1 /\ stack = <<>>

LEMMA DepthTypes ==
    ASSUME NEW t
    PROVE  (\A i \in Nat : Depth(t, i) \in Int) /\ Depth(t, 1) = 0
<1>1. ASSUME NEW i \in Nat
      PROVE  Depth(t, i) \in Int
  <2>1. Cardinality(MarksBefore(t, i, Openers)) \in Nat /\ Cardinality(MarksBefore(t, i, Closers)) \in Nat
    BY CountIs
  <2> QED
    BY <2>1 DEF Depth
<1>2. \A M : MarksBefore(t, 1, M) = {}
  <2>1. 1..(1 - 1) = {}
    OBVIOUS
  <2> QED
    BY <2>1 DEF MarksBefore
<1>3. Cardinality({}) = 0
  BY FS_EmptySet
<1>4. Depth(t, 1) = 0 - 0
  BY <1>2, <1>3, Zenon DEF Depth
<1> QED
  BY <1>1, <1>4

LEMMA NoLagAtStart ==
    ASSUME NEW i, i = 1, NEW calls, calls = <<>>
    PROVE  Lag(i, calls) = 0
<1>1. Len(calls) = 0
  BY EmptySeq, LenProperties
<1>2. Depth(document.text, i) = 0
  BY DepthTypes
<1> QED
  BY <1>1, <1>2 DEF Lag

\* Where decode() stands when its caller takes it to have succeeded.
LEMMA NoLagAtEnd ==
    ASSUME DocumentInv, JSON!Succeeded
    PROVE  Lag(index, stack) = Net(document.text)
<1>1. pc = "done" /\ index = Len(document.text) + 1
  BY Zenon DEF JSON!Succeeded, JSON!text
<1>2. stack = <<>>
  BY <1>1, DocumentFacts, Zenon DEF JSON!TypeOK
<1>3. Len(stack) = 0
  BY <1>2, EmptySeq, LenProperties
<1>4. Len(document.text) \in Nat
  BY LenProperties DEF DocumentInv, TextOK
<1>5. Net(document.text) \in Int
  <2>1. Len(document.text) + 1 \in Nat
    BY <1>4
  <2> QED
    BY <2>1, DepthTypes DEF Net
<1> QED
  BY <1>1, <1>3, <1>5 DEF Lag, Net

LEMMA LagIsInt ==
    ASSUME DocumentInv
    PROVE  Lag(index, stack) \in Int
<1>1. document.text \in Seq(JSON!Tokens) /\ index \in 1..(Len(document.text) + 1)
  BY Zenon DEF DocumentInv, TextOK, PlaceOK
<1>2. Len(document.text) \in Nat
  BY <1>1, LenProperties
<1>3. index \in Nat
  BY <1>1, <1>2
<1>4. Len(stack) \in Nat
  BY LenProperties DEF DocumentInv, ValueOK, ReadOK
<1>5. Depth(document.text, index) \in Int
  BY <1>3, DepthTypes
<1> QED
  BY <1>4, <1>5 DEF Lag

LEMMA LagStep ==
    ASSUME DocumentInv, LagInv, JSON!Next, JSON!TypeOK', (Lag(index, stack) \in Int)'
    PROVE  LagInv' /\ (Behind => Behind') /\ (Fails /\ Balanced => Behind')
<1>1. Lag(index, stack) \in Nat
  BY DEF LagInv
<1>2. CASE JSON!Decode
  <2>1. LagKept
    BY <1>2, DecodeLag
  <2>2. document' = document /\ buffers' = buffers /\ pc \notin Writing
    BY <1>2, Zenon DEF JSON!Decode, JSON!Start, JSON!ReadKey, JSON!ReadString, JSON!ReadNested, JSON!ReadScalar,
                 JSON!ValueFails, JSON!AfterValue, Writing
  <2>3. pc' \notin Writing \cup {"none"}
    <3>1. buffers = <<>>
      BY <2>2, DocumentFacts, Zenon DEF JSON!TypeOK, Writing
    <3>2. pc' \notin {"encode", "overrun"}
      BY <2>2, <3>1, Zenon DEF JSON!TypeOK
    <3>3. pc' # "none"
      BY DEF JSON!TypeOK
    <3> QED
      BY <3>2, <3>3, Zenon DEF Writing
  <2>4. Lag(index, stack)' = Lag(index', stack')
    BY <2>2 DEF Lag
  <2>5. /\ Lag(index, stack)' \in Nat /\ (Lag(index, stack) > 0 => Lag(index, stack)' > 0)
        /\ (Len(stack') < Len(stack) /\ Unclosed(index, index') => Lag(index, stack)' > 0)
    <3>1. /\ Lag(index, stack)' \in Int /\ Lag(index, stack) <= Lag(index, stack)'
          /\ (Len(stack') < Len(stack) /\ Unclosed(index, index') => Lag(index, stack) < Lag(index, stack)')
      BY <2>1, <2>4, Zenon DEF LagKept
    <3> QED
      BY <1>1, <3>1
  <2>6. Balanced' <=> Balanced
    BY <2>2, Zenon DEF Balanced
  <2> QED
    BY <2>3, <2>5, <2>6, Zenon DEF LagInv, Behind, Fails
<1>3. CASE ~JSON!Decode
  <2>1. JSON!EncodeStart \/ JSON!EncodePart \/ JSON!EncodeEnd \/ JSON!EncodeOverruns
    BY <1>3, Zenon DEF JSON!Next, JSON!Encode
  <2>2. ~Behind
    <3>1. CASE JSON!EncodeStart
      <4>1. Lag(index, stack) = Net(document.text)
        BY <3>1, NoLagAtEnd, Zenon DEF JSON!EncodeStart
      <4> QED
        BY <4>1 DEF Behind, Balanced
    <3>2. CASE JSON!EncodePart \/ JSON!EncodeEnd \/ JSON!EncodeOverruns
      <4>1. pc \in Writing
        BY <3>2, Zenon DEF JSON!EncodePart, JSON!EncodeEnd, JSON!EncodeOverruns, Writing
      <4>2. Lag(index, stack) = 0
        BY <4>1, NoLagAtStart, Zenon DEF LagInv
      <4> QED
        BY <4>2 DEF Behind
    <3> QED
      BY <2>1, <3>1, <3>2
  <2>3. index' = 1 /\ stack' = <<>>
    <3>1. CASE JSON!EncodeStart
      <4>1. pc = "done" /\ index' = 1 /\ stack' = stack
        BY <3>1, Zenon DEF JSON!EncodeStart, JSON!Succeeded
      <4> QED
        BY <4>1, DocumentFacts, Zenon DEF JSON!TypeOK
    <3>2. CASE JSON!EncodePart \/ JSON!EncodeEnd \/ JSON!EncodeOverruns
      <4>1. pc \in Writing /\ index' = index /\ stack' = stack
        BY <3>2, Zenon DEF JSON!EncodePart, JSON!EncodeEnd, JSON!EncodeOverruns, Writing
      <4> QED
        BY <4>1, Zenon DEF LagInv
    <3> QED
      BY <2>1, <3>1, <3>2
  <2>4. (Lag(index, stack) = 0)'
    <3>1. Depth(document'.text, index') = 0
      BY <2>3, DepthTypes
    <3>2. Len(stack') = 0
      BY <2>3, EmptySeq, LenProperties
    <3> QED
      BY <3>1, <3>2 DEF Lag
  <2>5. Lag(index, stack)' \in Nat
    BY <2>4
  <2>6. ~Fails
    BY <1>3 DEF Fails
  <2> QED
    BY <2>2, <2>3, <2>5, <2>6, Zenon DEF LagInv
<1> QED
  BY <1>2, <1>3

LEMMA LagInvHolds ==
    ValuesSpec => /\ []LagInv
                  /\ [][(Behind => Behind') /\ (Fails /\ Balanced => Behind')]_<<vars, documentVars>>
<1> DEFINE IsTyped == pc # "none" => JSON!TypeOK /\ Lag(index, stack) \in Int
           A == (Behind => Behind') /\ (Fails /\ Balanced => Behind')
<1>1. ValuesInv => IsTyped
  BY DocumentFacts, LagIsInt, Zenon DEF ValuesInv
<1>2. DocumentInit \/ InstantInit => LagInv
  <2> SUFFICES ASSUME DocumentInit \/ InstantInit PROVE LagInv
    OBVIOUS
  <2>1. index = 1 /\ stack = <<>>
    BY Zenon DEF DocumentInit, InstantInit, JSON!Init
  <2>2. Lag(index, stack) = 0
    BY <2>1, NoLagAtStart, Zenon
  <2> QED
    BY <2>1, <2>2 DEF LagInv
<1>3. ValuesInv /\ LagInv /\ IsTyped' /\ [DocumentNext \/ InstantNext]_<<vars, documentVars>>
          => LagInv' /\ [A]_<<vars, documentVars>>
  <2> SUFFICES ASSUME ValuesInv, LagInv, IsTyped', [DocumentNext \/ InstantNext]_<<vars, documentVars>>
               PROVE  LagInv' /\ [A]_<<vars, documentVars>>
    OBVIOUS
  <2>1. CASE DocumentNext /\ pc' # "none"
    <3>1. DocumentInv /\ JSON!Next /\ JSON!TypeOK' /\ (Lag(index, stack) \in Int)'
      BY <2>1, Zenon DEF DocumentNext, ValuesInv
    <3> QED
      BY <3>1, LagStep, Zenon
  <2>2. CASE UNCHANGED documentVars
    <3>1. document' = document /\ index' = index /\ stack' = stack /\ pc' = pc
      BY <2>2 DEF documentVars
    <3>2. LagInv' /\ (Behind => Behind')
      BY <3>1, Zenon DEF LagInv, Behind, Balanced, Lag
    <3>3. ~Fails
      <4>1. CASE pc = "none"
        BY <4>1 DEF Fails, JSON!Decode, JSON!Start, JSON!ReadKey, JSON!ReadString, JSON!ReadNested,
              JSON!ReadScalar, JSON!ValueFails, JSON!AfterValue
      <4>2. CASE pc # "none"
        <5>1. Len(stack) \in Nat
          BY <4>2, LenProperties DEF ValuesInv, DocumentInv, ValueOK, ReadOK
        <5> QED
          BY <3>1, <5>1 DEF Fails
      <4> QED
        BY <4>1, <4>2
    <3> QED
      BY <3>2, <3>3, Zenon
  <2>3. DocumentNext => pc' # "none"
    <3> SUFFICES ASSUME DocumentNext PROVE pc' # "none"
      OBVIOUS
    <3>1. DocumentInv'
      BY DocumentSteps, Zenon DEF DocumentNext, ValuesInv
    <3> QED
      BY <3>1 DEF DocumentInv, PlaceOK, Reading, Writing
  <2>4. InstantNext \/ UNCHANGED <<vars, documentVars>> => UNCHANGED documentVars
    BY Zenon DEF InstantNext
  <2> QED
    BY <2>1, <2>2, <2>3, <2>4, Zenon
<1> QED
  BY <1>1, <1>2, <1>3, ValuesInvHolds, PTL DEF ValuesSpec

\* A failed call of JsonObject::decode() or JsonArray::decode() is not told to its caller, which
\* goes on behind it as if it had read a value.  And yet, in a text that opens and closes equally
\* often, bytesParsed is never the length of the text afterwards: who asks for that is not deceived.
THEOREM NoFailureIsHidden ==
    ValuesSpec => /\ [][Fails /\ Balanced => Behind']_<<vars, documentVars>>
                  /\ [](Behind => []~JSON!Succeeded)
<1> DEFINE A == (Behind => Behind') /\ (Fails /\ Balanced => Behind')
           B == Fails /\ Balanced => Behind'
           C == Behind => Behind'
<1>1. [A]_<<vars, documentVars>> => [B]_<<vars, documentVars>>
  OBVIOUS
<1>2. [A]_<<vars, documentVars>> => C
  <2> SUFFICES ASSUME UNCHANGED <<vars, documentVars>> PROVE C
    OBVIOUS
  <2>1. document' = document /\ index' = index /\ stack' = stack
    BY DEF documentVars
  <2> QED
    BY <2>1, Zenon DEF Behind, Balanced, Lag
<1>3. ValuesInv => (Behind => ~JSON!Succeeded)
  <2> SUFFICES ASSUME ValuesInv, Behind, JSON!Succeeded PROVE FALSE
    OBVIOUS
  <2>1. pc = "done"
    BY Zenon DEF JSON!Succeeded
  <2>2. Lag(index, stack) = Net(document.text)
    BY <2>1, NoLagAtEnd, Zenon DEF ValuesInv
  <2> QED
    BY <2>2 DEF Behind, Balanced
<1> QED
  BY <1>1, <1>2, <1>3, ValuesInvHolds, LagInvHolds, PTL
=============================================================================
