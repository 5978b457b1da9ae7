------------------------------ MODULE DateProofs ------------------------------
(***************************************************************************)
(* The dates of a recurring task, for every rule and every date: the       *)
(* calendar behind Date counts right, and nextAfter gives a later date     *)
(* that is the one the rule promises.                                      *)
(***************************************************************************)
EXTENDS RecurrenceDates, TLAPS

-----------------------------------------------------------------------------
(* The calendar                                                            *)

\* A year has 365 days, a leap year one more.
LEMMA YearLength ==
  ASSUME NEW y \in Int
  PROVE  /\ YearStart(y) \in Int
         /\ YearStart(y + 1) = YearStart(y) + (IF Leap(y) THEN 366 ELSE 365)
<1>1. YearStart(y) \in Int
  BY DEF YearStart, FirstYear
<1>2. /\ (y \div 4) - ((y - 1) \div 4) = (IF y % 4 = 0 THEN 1 ELSE 0)
      /\ (y \div 100) - ((y - 1) \div 100) = (IF y % 100 = 0 THEN 1 ELSE 0)
      /\ (y \div 400) - ((y - 1) \div 400) = (IF y % 400 = 0 THEN 1 ELSE 0)
  OBVIOUS
<1>3. /\ y % 100 = 0 => y % 4 = 0
      /\ y % 400 = 0 => y % 100 = 0
  OBVIOUS
<1>4. y + 1 - 1 = y
  OBVIOUS
<1> QED BY <1>1, <1>2, <1>3, <1>4 DEF YearStart, Leap, FirstYear

LEMMA Quotients ==
  ASSUME NEW a \in Int
  PROVE  /\ a \div 4 \in Int /\ 4 * (a \div 4) <= a /\ a <= 4 * (a \div 4) + 3
         /\ a \div 100 \in Int /\ 100 * (a \div 100) <= a
                               /\ a <= 100 * (a \div 100) + 99
         /\ a \div 400 \in Int /\ 400 * (a \div 400) <= a
                               /\ a <= 400 * (a \div 400) + 399
<1>1. /\ a \div 4 \in Int /\ 4 * (a \div 4) <= a /\ a <= 4 * (a \div 4) + 3
  OBVIOUS
<1>2. /\ a \div 100 \in Int /\ 100 * (a \div 100) <= a /\ a <= 100 * (a \div 100) + 99
  OBVIOUS
<1>3. /\ a \div 400 \in Int /\ 400 * (a \div 400) <= a /\ a <= 400 * (a \div 400) + 399
  OBVIOUS
<1> QED BY <1>1, <1>2, <1>3

\* The years before y end 365 days apart or more.
LEMMA YearsGrow ==
  ASSUME NEW a \in Int, NEW b \in Int, a < b
  PROVE  YearStart(a) + 365 <= YearStart(b)
BY DEF YearStart, FirstYear

\* The calendar repeats itself every 400 years.
LEMMA YearsRepeat ==
  ASSUME NEW y \in Int, NEW c \in Int
  PROVE  YearStart(y + 400 * c) = YearStart(y) + 146097 * c
<1> DEFINE z == y - 1
<1>1. (z + 400 * c) \div 4 = (z \div 4) + 100 * c
  OBVIOUS
<1>2. (z + 400 * c) \div 100 = (z \div 100) + 4 * c
  OBVIOUS
<1>3. (z + 400 * c) \div 400 = (z \div 400) + c
  OBVIOUS
<1>4. (y + 400 * c) - 1 = z + 400 * c
  OBVIOUS
<1>5. /\ z \div 4 \in Int /\ z \div 100 \in Int /\ z \div 400 \in Int
  OBVIOUS
<1> DEFINE p == z \div 4
           q == z \div 100
           r == z \div 400
<1>6. YearStart(y) = 365 * z + p - q + r - 738885
  BY <1>5 DEF YearStart, FirstYear
<1>7. YearStart(y + 400 * c)
        = 365 * (z + 400 * c) + (p + 100 * c) - (q + 4 * c) + (r + c) - 738885
  BY <1>1, <1>2, <1>3, <1>4 DEF YearStart, FirstYear
<1>9. p \in Int /\ q \in Int /\ r \in Int /\ z \in Int
  BY <1>5
<1> HIDE DEF z, p, q, r
<1> QED BY <1>6, <1>7, <1>9

\* The first days of the years of a cycle.
LEMMA CycleYears ==
  ASSUME NEW year \in Int, NEW k \in Int, NEW n \in Int,
         year = 2024 + k, 0 <= k, k <= 399, 366 * k <= n, n <= 366 * k + 365
  PROVE  /\ YearStart(year) <= n
         /\ n + 1 <= YearStart(year + 2)
<1>1. ASSUME NEW y \in Int, NEW q \in Int, NEW r \in Int, NEW s \in Int,
             y \in 2023..2424,
             4 * q <= y, y <= 4 * q + 3, 100 * r <= y, y <= 100 * r + 99,
             400 * s <= y, y <= 400 * s + 399
      PROVE  /\ q - r + s - 490 <= y - 2023
             /\ q - r + s - 490 >= 0
             /\ y >= 2300 => q - r + s - 490 >= 50
  BY <1>1
<1> DEFINE leap(y) == (y \div 4) - (y \div 100) + (y \div 400)
<1>2. \A y \in 2023..2424 : /\ leap(y) \in Int
                            /\ leap(y) - 490 <= y - 2023
                            /\ leap(y) - 490 >= 0
                            /\ y >= 2300 => leap(y) - 490 >= 50
  BY <1>1, Quotients
<1>3. YearStart(year) = 365 * k + leap(2023 + k) - 490
  BY DEF YearStart, FirstYear
<1>4. YearStart(year + 2) = 365 * (k + 2) + leap(2025 + k) - 490
  BY DEF YearStart, FirstYear
<1> HIDE DEF leap
<1>9. 2023 + k \in 2023..2424 /\ 2025 + k \in 2023..2424
  OBVIOUS
<1>5. /\ leap(2023 + k) \in Int /\ leap(2023 + k) - 490 <= k
      /\ leap(2025 + k) \in Int /\ leap(2025 + k) - 490 >= 0
      /\ 2025 + k >= 2300 => leap(2025 + k) - 490 >= 50
  BY <1>2, <1>9
<1> QED BY <1>3, <1>4, <1>5

\* Every date is of one year, and YearOf finds it.
LEMMA YearFound ==
  ASSUME NEW date \in Int
  PROVE  /\ YearOf(date) \in Int
         /\ YearStart(YearOf(date)) < date
         /\ date <= YearStart(YearOf(date) + 1)
<1> DEFINE c == (date - 1) \div Cycle
           n == (date - 1) % Cycle
           k == n \div 366
           guess == FirstYear + 400 * c + k
<1>1. c \in Int /\ n \in Int /\ 0 <= n /\ n < 146097 /\ date - 1 = 146097 * c + n
  <2>1. Cycle = 146097
    BY DEF Cycle
  <2>2. c \in Int
    BY <2>1
  <2>3. n \in Int /\ 0 <= n
    BY <2>1
  <2>4. n < 146097
    BY <2>1
  <2>5. date - 1 = 146097 * c + n
    BY <2>1
  <2> QED BY <2>2, <2>3, <2>4, <2>5
<1>2. k \in 0..399 /\ 366 * k <= n /\ n <= 366 * k + 365
  <2> HIDE DEF n
  <2>1. k \in Int
    BY <1>1
  <2>2. 366 * k <= n
    BY <1>1
  <2>3. n <= 366 * k + 365
    BY <1>1
  <2> HIDE DEF k
  <2> QED BY <1>1, <2>1, <2>2, <2>3
<1> HIDE DEF c, n, k
<1> DEFINE year == 2024 + k
<1>3. /\ year \in Int /\ year + 2 \in Int
      /\ YearStart(year) \in Int /\ YearStart(year + 2) \in Int
      /\ YearStart(year) <= n /\ n + 1 <= YearStart(year + 2)
  <2>1. year \in Int /\ k \in Int /\ n \in Int /\ 0 <= k /\ k <= 399 /\ year = 2024 + k
    BY <1>1, <1>2
  <2> HIDE DEF year
  <2>2. year \in Int /\ year + 2 \in Int
    BY <2>1
  <2>3. YearStart(year) <= n /\ n + 1 <= YearStart(year + 2)
    BY <1>2, <2>1, CycleYears, SMT
  <2> QED BY <2>2, <2>3, YearLength
<1>4. ASSUME NEW y \in Int
      PROVE  YearStart(y + 400 * c) = YearStart(y) + 146097 * c /\ YearStart(y) \in Int
  BY <1>1, YearsRepeat, YearLength
<1>5. guess = year + 400 * c /\ guess + 2 = (year + 2) + 400 * c /\ guess \in Int
  BY <1>1, <1>2 DEF FirstYear
<1> HIDE DEF year
<1>6. /\ YearStart(guess) = YearStart(year) + 146097 * c
      /\ YearStart(guess + 2) = YearStart(year + 2) + 146097 * c
  BY <1>3, <1>4, <1>5
<1>7. YearStart(guess) < date /\ date <= YearStart(guess + 2)
  BY <1>1, <1>3, <1>6
<1>8. YearAt[date] = CHOOSE y \in {guess, guess + 1} :
                       YearStart(y) < date /\ date <= YearStart(y + 1)
  BY DEF YearAt, c, n, k
<1> HIDE DEF guess
<1>9. YearStart(guess + 1) \in Int
  BY <1>5, YearLength
<1>10. \E y \in {guess, guess + 1} : YearStart(y) < date /\ date <= YearStart(y + 1)
  BY <1>5, <1>7, <1>9
<1> QED BY <1>5, <1>8, <1>10 DEF YearOf

\* No other year has that date.
LEMMA YearUnique ==
  ASSUME NEW date \in Int, NEW y \in Int,
         YearStart(y) < date, date <= YearStart(y + 1)
  PROVE  YearOf(date) = y
<1> DEFINE z == YearOf(date)
<1>1. z \in Int /\ YearStart(z) < date /\ date <= YearStart(z + 1)
  BY YearFound
<1> SUFFICES z = y
  OBVIOUS
<1> HIDE DEF z
<1>2. /\ YearStart(y) \in Int /\ YearStart(y + 1) \in Int
      /\ YearStart(z) \in Int /\ YearStart(z + 1) \in Int
  BY <1>1, YearLength
<1>3. CASE z < y
  <2>1. z + 1 = y \/ z + 1 < y
    BY <1>1, <1>3
  <2>2. YearStart(z + 1) <= YearStart(y)
    BY <1>1, <1>2, <2>1, YearsGrow
  <2> QED BY <1>1, <1>2, <2>2
<1>4. CASE y < z
  <2>1. y + 1 = z \/ y + 1 < z
    BY <1>1, <1>4
  <2>2. YearStart(y + 1) <= YearStart(z)
    BY <1>1, <1>2, <2>1, YearsGrow
  <2> QED BY <1>1, <1>2, <2>2
<1> QED BY <1>1, <1>3, <1>4

\* The months, each from where the one before ends.
LEMMA MonthStarts ==
  ASSUME NEW y \in Int
  PROVE  LET leap == IF Leap(y) THEN 1 ELSE 0 IN
         /\ MonthStart(y, 1) = 0 /\ MonthStart(y, 2) = 31
         /\ MonthStart(y, 3) = 59 + leap /\ MonthStart(y, 4) = 90 + leap
         /\ MonthStart(y, 5) = 120 + leap /\ MonthStart(y, 6) = 151 + leap
         /\ MonthStart(y, 7) = 181 + leap /\ MonthStart(y, 8) = 212 + leap
         /\ MonthStart(y, 9) = 243 + leap /\ MonthStart(y, 10) = 273 + leap
         /\ MonthStart(y, 11) = 304 + leap /\ MonthStart(y, 12) = 334 + leap
BY DEF MonthStart

LEMMA MonthLength ==
  ASSUME NEW y \in Int, NEW m \in Months
  PROVE  /\ MonthStart(y, m) \in 0..335
         /\ daysInMonth(y, m) \in 28..31
         /\ m # 12 => MonthStart(y, m + 1) = MonthStart(y, m) + daysInMonth(y, m)
         /\ MonthStart(y, 12) + 31 = IF Leap(y) THEN 366 ELSE 365
<1> DEFINE leap == IF Leap(y) THEN 1 ELSE 0
<1>1. leap \in 0..1 /\ (IF Leap(y) THEN 366 ELSE 365) = 365 + leap
  OBVIOUS
<1> HIDE DEF leap
<1>2. \/ m = 1 \/ m = 2 \/ m = 3 \/ m = 4 \/ m = 5 \/ m = 6
      \/ m = 7 \/ m = 8 \/ m = 9 \/ m = 10 \/ m = 11 \/ m = 12
  BY DEF Months
<1>3. /\ MonthStart(y, 1) = 0 /\ MonthStart(y, 2) = 31
      /\ MonthStart(y, 3) = 59 + leap /\ MonthStart(y, 4) = 90 + leap
      /\ MonthStart(y, 5) = 120 + leap /\ MonthStart(y, 6) = 151 + leap
      /\ MonthStart(y, 7) = 181 + leap /\ MonthStart(y, 8) = 212 + leap
      /\ MonthStart(y, 9) = 243 + leap /\ MonthStart(y, 10) = 273 + leap
      /\ MonthStart(y, 11) = 304 + leap /\ MonthStart(y, 12) = 334 + leap
  BY MonthStarts DEF leap
<1> QED BY <1>1, <1>2, <1>3 DEF daysInMonth

\* A later month of the year starts after an earlier one ends.
LEMMA MonthsGrow ==
  ASSUME NEW y \in Int, NEW a \in Months, NEW b \in Months, a < b
  PROVE  MonthStart(y, a) + daysInMonth(y, a) <= MonthStart(y, b)
<1> DEFINE leap == IF Leap(y) THEN 1 ELSE 0
<1>1. leap \in 0..1
  OBVIOUS
<1> HIDE DEF leap
<1>2. /\ MonthStart(y, 1) = 0 /\ MonthStart(y, 2) = 31
      /\ MonthStart(y, 3) = 59 + leap /\ MonthStart(y, 4) = 90 + leap
      /\ MonthStart(y, 5) = 120 + leap /\ MonthStart(y, 6) = 151 + leap
      /\ MonthStart(y, 7) = 181 + leap /\ MonthStart(y, 8) = 212 + leap
      /\ MonthStart(y, 9) = 243 + leap /\ MonthStart(y, 10) = 273 + leap
      /\ MonthStart(y, 11) = 304 + leap /\ MonthStart(y, 12) = 334 + leap
  BY MonthStarts DEF leap
<1>3. MonthStart(y, a + 1) <= MonthStart(y, b) /\ a # 12
  BY <1>1, <1>2 DEF Months
<1> QED BY <1>1, <1>3, MonthLength DEF Months

\* A day of a month is of that year, of that month, and that day.
LEMMA PartsOf ==
  ASSUME NEW y \in Int, NEW m \in Months, NEW d \in 1..daysInMonth(y, m)
  PROVE  LET date == DayNumber(y, m, d) IN
         /\ date \in Int
         /\ YearOf(date) = y /\ MonthOf(date) = m /\ DayOf(date) = d
<1> DEFINE date == DayNumber(y, m, d)
           n == date - YearStart(y)
<1>1. /\ MonthStart(y, m) \in 0..335 /\ daysInMonth(y, m) \in 28..31 /\ d \in Int
      /\ YearStart(y) \in Int /\ YearStart(y + 1) \in Int
  BY MonthLength, YearLength
<1>2. n = MonthStart(y, m) + d /\ date \in Int /\ date = YearStart(y) + n
  BY <1>1 DEF DayNumber
<1>3. YearStart(y + 1) = YearStart(y) + MonthStart(y, 12) + 31
  <2>1. YearStart(y + 1) = YearStart(y) + (IF Leap(y) THEN 366 ELSE 365)
    BY YearLength
  <2>2. MonthStart(y, 12) + 31 = IF Leap(y) THEN 366 ELSE 365
    BY MonthLength
  <2>3. MonthStart(y, 12) \in Int
    <3>1. MonthStart(y, 12) \in 0..335
      BY MonthLength, SMTT(20) DEF Months
    <3> QED BY <3>1
  <2>4. YearStart(y + 1) = YearStart(y) + (MonthStart(y, 12) + 31)
    BY <2>1, <2>2
  <2> QED BY <1>1, <2>3, <2>4
<1>4. n \in 1..366 /\ YearStart(y) < date /\ date <= YearStart(y + 1)
  <2>1. m = 12 \/ MonthStart(y, m) + daysInMonth(y, m) <= MonthStart(y, 12)
    BY MonthsGrow DEF Months
  <2>2. m = 12 => daysInMonth(y, m) = 31
    BY DEF daysInMonth
  <2>3. MonthStart(y, 12) \in 0..335
    BY MonthLength, SMTT(20) DEF Months
  <2> HIDE DEF n, date
  <2>4. 1 <= d /\ d <= daysInMonth(y, m)
    BY <1>1
  <2>5. n >= 1 /\ n <= MonthStart(y, 12) + 31
    <3>1. CASE m = 12
      BY <1>1, <1>2, <2>2, <2>4, <3>1
    <3>2. CASE m # 12
      <4>1. MonthStart(y, m) + daysInMonth(y, m) <= MonthStart(y, 12)
        BY <2>1, <3>2
      <4>2. MonthStart(y, m) \in Int /\ MonthStart(y, m) >= 0
        BY <1>1
      <4>3. daysInMonth(y, m) \in Int
        BY <1>1
      <4>4. MonthStart(y, 12) \in Int
        BY <2>3
      <4> QED BY <1>1, <1>2, <2>4, <4>1, <4>2, <4>3, <4>4
    <3> QED BY <3>1, <3>2
  <2> QED BY <1>1, <1>2, <1>3, <2>3, <2>5, SMTT(20)
<1>5. YearOf(date) = y
  <2> HIDE DEF date
  <2> QED BY <1>2, <1>4, YearUnique
<1>6. MonthAt(y, n) = CHOOSE a \in Months :
        MonthStart(y, a) < n /\ (a = 12 \/ n <= MonthStart(y, a + 1))
  <2> HIDE DEF n
  <2> QED BY <1>4 DEF MonthAt
<1>7. MonthStart(y, m) < n /\ (m = 12 \/ n <= MonthStart(y, m + 1))
  BY <1>1, <1>2, MonthLength
<1>8. ASSUME NEW a \in Months, MonthStart(y, a) < n,
             a = 12 \/ n <= MonthStart(y, a + 1)
      PROVE  a = m
  <2> HIDE DEF n
  <2>1. MonthStart(y, a) \in Int /\ (a # 12 => MonthStart(y, a + 1) \in Int) /\ n \in Int
    <3>1. MonthStart(y, a) \in 0..335 /\ daysInMonth(y, a) \in 28..31
      BY MonthLength
    <3>2. a # 12 => MonthStart(y, a + 1) = MonthStart(y, a) + daysInMonth(y, a)
      BY MonthLength
    <3> QED BY <1>4, <3>1, <3>2
  <2>2. CASE a < m
    <3>1. MonthStart(y, a) + daysInMonth(y, a) <= MonthStart(y, m)
      BY <2>2, MonthsGrow
    <3>2. a # 12 /\ MonthStart(y, a + 1) <= MonthStart(y, m)
      BY <2>2, <3>1, MonthLength DEF Months
    <3> QED BY <1>1, <1>7, <1>8, <2>1, <2>2, <3>2
  <2>3. CASE m < a
    <3>1. MonthStart(y, m) + daysInMonth(y, m) <= MonthStart(y, a)
      BY <2>3, MonthsGrow
    <3> QED BY <1>1, <1>2, <1>8, <2>1, <3>1
  <2>4. a < m \/ m < a \/ a = m
    BY DEF Months
  <2> QED BY <2>2, <2>3, <2>4
<1>9. MonthAt(y, n) = m
  <2> HIDE DEF n
  <2> QED BY <1>6, <1>7, <1>8
<1>10. MonthOf(date) = m
  BY <1>5, <1>9 DEF MonthOf, YearOf
<1>11. DayOf(date) = d
  BY <1>1, <1>2, <1>5, <1>10 DEF DayOf, DayNumber
<1> QED BY <1>2, <1>5, <1>10, <1>11

\* Every date is a day of a month.
LEMMA PartsFound ==
  ASSUME NEW date \in Int
  PROVE  /\ YearOf(date) \in Int /\ MonthOf(date) \in Months
         /\ DayOf(date) \in 1..daysInMonth(YearOf(date), MonthOf(date))
         /\ date = DayNumber(YearOf(date), MonthOf(date), DayOf(date))
<1> DEFINE y == YearOf(date)
           n == date - YearStart(y)
           Holds(m) == MonthStart(y, m) < n /\ (m = 12 \/ n <= MonthStart(y, m + 1))
<1>1. /\ y \in Int /\ YearStart(y) \in Int /\ YearStart(y + 1) \in Int
      /\ YearStart(y) < date /\ date <= YearStart(y + 1)
  BY YearFound, YearLength
<1> HIDE DEF y
<1>2. n \in Int /\ 0 < n /\ date = YearStart(y) + n
  BY <1>1
<1>3. n <= MonthStart(y, 12) + 31
  <2>1. YearStart(y + 1) = YearStart(y) + (IF Leap(y) THEN 366 ELSE 365)
    BY <1>1, YearLength
  <2>2. MonthStart(y, 12) + 31 = IF Leap(y) THEN 366 ELSE 365
    BY <1>1, MonthLength DEF Months
  <2>3. MonthStart(y, 12) \in 0..335
    BY <1>1, MonthLength, SMTT(20) DEF Months
  <2>4. YearStart(y + 1) = YearStart(y) + (MonthStart(y, 12) + 31)
    BY <2>1, <2>2
  <2> HIDE DEF n
  <2> QED BY <1>1, <1>2, <2>3, <2>4
<1> HIDE DEF n
<1>4. \E m \in Months : Holds(m)
  <2> DEFINE leap == IF Leap(y) THEN 1 ELSE 0
  <2>1. leap \in 0..1
    OBVIOUS
  <2> HIDE DEF leap
  <2>2. /\ MonthStart(y, 1) = 0 /\ MonthStart(y, 2) = 31
        /\ MonthStart(y, 3) = 59 + leap /\ MonthStart(y, 4) = 90 + leap
        /\ MonthStart(y, 5) = 120 + leap /\ MonthStart(y, 6) = 151 + leap
        /\ MonthStart(y, 7) = 181 + leap /\ MonthStart(y, 8) = 212 + leap
        /\ MonthStart(y, 9) = 243 + leap /\ MonthStart(y, 10) = 273 + leap
        /\ MonthStart(y, 11) = 304 + leap /\ MonthStart(y, 12) = 334 + leap
    BY <1>1, MonthStarts DEF leap
  <2> QED BY <1>2, <1>3, <2>1, <2>2 DEF Months
<1> DEFINE m == MonthOf(date)
<1>5. m = CHOOSE a \in Months : Holds(a)
  BY DEF MonthOf, MonthAt, y, n
<1>6. m \in Months /\ Holds(m)
  <2> HIDE DEF m, Holds
  <2> QED BY <1>4, <1>5
<1>7. DayOf(date) = date - (YearStart(y) + MonthStart(y, m) + 0)
  BY DEF DayOf, DayNumber, y
<1> HIDE DEF m
<1>8. /\ MonthStart(y, m) \in Int /\ daysInMonth(y, m) \in Int
      /\ m # 12 => MonthStart(y, m + 1) = MonthStart(y, m) + daysInMonth(y, m)
      /\ m = 12 => daysInMonth(y, m) = 31
  <2>1. MonthStart(y, m) \in 0..335 /\ daysInMonth(y, m) \in 28..31
    BY <1>1, <1>6, MonthLength
  <2>2. m # 12 => MonthStart(y, m + 1) = MonthStart(y, m) + daysInMonth(y, m)
    BY <1>1, <1>6, MonthLength
  <2>3. m = 12 => daysInMonth(y, m) = 31
    BY DEF daysInMonth
  <2> QED BY <2>1, <2>2, <2>3
<1>9. DayOf(date) = n - MonthStart(y, m)
  BY <1>1, <1>2, <1>7, <1>8
<1>10. n - MonthStart(y, m) \in 1..daysInMonth(y, m)
  <2>1. CASE m = 12
    BY <1>2, <1>3, <1>6, <1>8, <2>1
  <2>2. CASE m # 12
    BY <1>2, <1>6, <1>8, <2>2
  <2> QED BY <2>1, <2>2
<1>11. date = DayNumber(y, m, n - MonthStart(y, m))
  BY <1>1, <1>2, <1>8 DEF DayNumber
<1> QED BY <1>1, <1>6, <1>9, <1>10, <1>11 DEF y, m

\* A later month is a later date.
LEMMA LaterMonth ==
  ASSUME NEW from \in Int, NEW next \in Int, MonthsSince(from, next) >= 1
  PROVE  next > from
<1> DEFINE y == YearOf(from)   m == MonthOf(from)   d == DayOf(from)
           z == YearOf(next)   k == MonthOf(next)   e == DayOf(next)
<1>1. /\ y \in Int /\ m \in Months /\ d \in 1..daysInMonth(y, m)
      /\ from = YearStart(y) + MonthStart(y, m) + d
      /\ z \in Int /\ k \in Months /\ e \in 1..daysInMonth(z, k)
      /\ next = YearStart(z) + MonthStart(z, k) + e
  BY PartsFound DEF DayNumber
<1>2. 12 * (z - y) + k - m >= 1
  BY DEF MonthsSince
<1> HIDE DEF y, m, d, z, k, e
<1>3. /\ MonthStart(y, m) \in 0..335 /\ daysInMonth(y, m) \in 28..31
      /\ MonthStart(z, k) \in 0..335 /\ YearStart(y) \in Int /\ YearStart(z) \in Int
      /\ YearStart(y + 1) \in Int
  BY <1>1, MonthLength, YearLength
<1>4. d \in Int /\ e \in Int /\ 1 <= e /\ d <= daysInMonth(y, m)
  <2>1. \A b \in 28..31 : \A c \in 1..b : c \in Int /\ 1 <= c /\ c <= b
    OBVIOUS
  <2>2. daysInMonth(z, k) \in 28..31
    BY <1>1, MonthLength
  <2> QED BY <1>1, <1>3, <2>1, <2>2
<1>5. (z = y /\ m < k) \/ y < z
  BY <1>1, <1>2 DEF Months
<1>6. CASE z = y /\ m < k
  <2>1. MonthStart(y, m) + daysInMonth(y, m) <= MonthStart(z, k)
    BY <1>1, <1>6, MonthsGrow
  <2>2. YearStart(z) = YearStart(y)
    BY <1>6
  <2>3. daysInMonth(y, m) \in Int /\ MonthStart(y, m) \in Int /\ MonthStart(z, k) \in Int
    BY <1>3
  <2> QED BY <1>1, <1>3, <1>4, <2>1, <2>2, <2>3
<1>7. CASE y < z
  <2>1. y + 1 = z \/ y + 1 < z
    BY <1>1, <1>7
  <2>2. YearStart(y + 1) <= YearStart(z)
    BY <1>1, <1>3, <2>1, YearsGrow
  <2>3. from <= YearStart(y + 1)
    BY <1>1, YearFound DEF y
  <2> QED BY <1>1, <1>3, <1>4, <2>2, <2>3
<1> QED BY <1>5, <1>6, <1>7

\* OnDay gives the day of that month, or the month's last.
LEMMA OnDayFits ==
  ASSUME NEW y \in Int, NEW m \in Months, NEW day \in 1..31
  PROVE  LET next == OnDay(y, m, day) IN
         /\ next \in Int
         /\ YearOf(next) = y /\ MonthOf(next) = m /\ FallsOn(next, day)
<1> DEFINE last == daysInMonth(y, m)
           d == IF day < last THEN day ELSE last
           next == DayNumber(y, m, d)
<1>1. last \in 28..31 /\ day \in Int /\ 1 <= day
  BY MonthLength
<1> HIDE DEF last
<1>2. d \in 1..last /\ (day <= last => d = day) /\ (day > last => d = last)
  BY <1>1
<1>3. OnDay(y, m, day) = next
  BY DEF OnDay, last
<1> HIDE DEF d
<1>4. next \in Int /\ YearOf(next) = y /\ MonthOf(next) = m /\ DayOf(next) = d
  BY <1>2, PartsOf DEF last
<1>5. ASSUME day > last
      PROVE  MonthOf(next + 1) # m
  <2>1. /\ next = YearStart(y) + MonthStart(y, m) + last
        /\ YearStart(y) \in Int /\ MonthStart(y, m) \in Int /\ last \in Int
    <3>1. next = YearStart(y) + MonthStart(y, m) + last
      BY <1>2, <1>5 DEF DayNumber
    <3>2. MonthStart(y, m) \in 0..335
      BY MonthLength
    <3> QED BY <1>1, <3>1, <3>2, YearLength, SMTT(20)
  <2>2. CASE m = 12
    BY <1>1, <1>5, <2>2 DEF last, daysInMonth
  <2>3. CASE m # 12
    <3>1. m + 1 \in Months /\ m + 1 # m
      BY <2>3 DEF Months
    <3>2. MonthStart(y, m + 1) = MonthStart(y, m) + last
      BY <2>3, MonthLength DEF last
    <3> HIDE DEF next
    <3>3. next + 1 = YearStart(y) + MonthStart(y, m + 1) + 1
      BY <2>1, <3>2
    <3>4. next + 1 = DayNumber(y, m + 1, 1)
      BY <3>3 DEF DayNumber
    <3>5. 1 \in 1..daysInMonth(y, m + 1)
      <4>1. daysInMonth(y, m + 1) \in 28..31
        BY <3>1, MonthLength
      <4> QED BY <4>1
    <3>6. MonthOf(DayNumber(y, m + 1, 1)) = m + 1
      BY <3>1, <3>5, PartsOf
    <3> QED BY <3>1, <3>4, <3>6
  <2> QED BY <2>2, <2>3
<1>6. FallsOn(next, day)
  <2> HIDE DEF next
  <2>1. CASE day <= last
    BY <1>2, <1>4, <2>1 DEF FallsOn
  <2>2. CASE day > last
    <3>1. d < day
      BY <1>1, <1>2, <2>2
    <3> QED BY <1>4, <1>5, <2>2, <3>1 DEF FallsOn
  <2> QED BY <1>1, <2>1, <2>2
<1> QED BY <1>3, <1>4, <1>6

-----------------------------------------------------------------------------
(* The rules                                                               *)

\* The day of the month a rule wants is one.
LEMMA WantedDayIsOne ==
  ASSUME NEW spec \in CalendarSpec, NEW from \in Int
  PROVE  WantedDay(spec, from) \in 1..31
<1>1. spec.dayOfMonth \in (1..31) \union {None}
  BY DEF RecurrenceSpec, CalendarSpec
<1>2. DayOf(from) \in 1..31
  <2>1. DayOf(from) \in 1..daysInMonth(YearOf(from), MonthOf(from))
    BY PartsFound
  <2>2. daysInMonth(YearOf(from), MonthOf(from)) \in 28..31
    BY PartsFound, MonthLength
  <2> QED BY <2>1, <2>2
<1> QED BY <1>1, <1>2 DEF WantedDay

LEMMA MonthlyFits ==
  ASSUME NEW spec \in CalendarSpec, NEW from \in Int, NEW step \in Nat \ {0}
  PROVE  LET next == nextMonthly(spec, from, step) IN
         /\ next \in Int /\ next > from
         /\ MonthsSince(from, next) = step
         /\ FallsOn(next, WantedDay(spec, from))
<1> DEFINE month == MonthOf(from) - 1 + step
           y == YearOf(from) + (month \div 12)
           m == (month % 12) + 1
           next == OnDay(y, m, WantedDay(spec, from))
<1>1. /\ YearOf(from) \in Int /\ MonthOf(from) \in Int
      /\ 1 <= MonthOf(from) /\ MonthOf(from) <= 12
  BY PartsFound DEF Months
<1>2. month \in Int
  BY <1>1
<1>3. /\ y \in Int /\ m \in Months
      /\ 12 * (y - YearOf(from)) + m - MonthOf(from) = step
  <2> DEFINE q == month \div 12   r == month % 12
  <2> HIDE DEF month
  <2>1. /\ q \in Int /\ r \in 0..11 /\ month = 12 * q + r
    BY <1>2
  <2>2. y = YearOf(from) + q /\ m = r + 1
    OBVIOUS
  <2> HIDE DEF q, r, y, m
  <2>3. y \in Int /\ m \in 1..12
    BY <1>1, <2>1, <2>2
  <2>4. 12 * (y - YearOf(from)) + m - MonthOf(from) = 12 * q + (r + 1) - MonthOf(from)
    BY <1>1, <2>1, <2>2
  <2>5. month = MonthOf(from) - 1 + step
    BY DEF month
  <2>6. 12 * q + (r + 1) - MonthOf(from) = step
    BY <1>1, <2>1, <2>5
  <2> QED BY <2>3, <2>4, <2>6 DEF Months
<1>4. nextMonthly(spec, from, step) = next
  BY DEF nextMonthly, WantedDay
<1> HIDE DEF y, m
<1>5. /\ next \in Int /\ YearOf(next) = y /\ MonthOf(next) = m
      /\ FallsOn(next, WantedDay(spec, from))
  BY <1>3, WantedDayIsOne, OnDayFits
<1> HIDE DEF next
<1>6. MonthsSince(from, next) = step
  BY <1>3, <1>5 DEF MonthsSince
<1>7. next > from
  BY <1>5, <1>6, LaterMonth
<1> QED BY <1>4, <1>5, <1>6, <1>7

LEMMA YearlyFits ==
  ASSUME NEW spec \in CalendarSpec, NEW from \in Int, NEW step \in Nat \ {0}
  PROVE  LET next == nextYearly(spec, from, step) IN
         /\ next \in Int /\ next > from
         /\ YearOf(next) - YearOf(from) = step
         /\ MonthOf(next) =
              IF spec.monthOfYear = None THEN MonthOf(from) ELSE spec.monthOfYear
         /\ FallsOn(next, WantedDay(spec, from))
<1> DEFINE y == YearOf(from) + step
           m == IF spec.monthOfYear = None THEN MonthOf(from) ELSE spec.monthOfYear
           next == OnDay(y, m, WantedDay(spec, from))
<1>1. /\ YearOf(from) \in Int /\ MonthOf(from) \in Months
      /\ spec.monthOfYear \in Months \union {None}
  BY PartsFound DEF RecurrenceSpec, CalendarSpec
<1>2. y \in Int /\ m \in Months
  BY <1>1 DEF Months
<1>3. nextYearly(spec, from, step) = next
  <2> HIDE DEF m
  <2>1. (m - 1) \div 12 = 0 /\ ((m - 1) % 12) + 1 = m
    BY <1>2 DEF Months
  <2>2. nextYearly(spec, from, step) =
          OnDay(y + ((m - 1) \div 12), ((m - 1) % 12) + 1, WantedDay(spec, from))
    BY DEF nextYearly, WantedDay, m
  <2>3. y + 0 = y
    BY <1>2
  <2> QED BY <2>1, <2>2, <2>3
<1>4. y - YearOf(from) = step
  BY <1>1
<1> HIDE DEF y, m
<1>5. /\ next \in Int /\ YearOf(next) = y /\ MonthOf(next) = m
      /\ FallsOn(next, WantedDay(spec, from))
  BY <1>2, WantedDayIsOne, OnDayFits
<1> HIDE DEF next
<1>6. MonthsSince(from, next) >= 1
  BY <1>1, <1>2, <1>4, <1>5 DEF MonthsSince, Months
<1>7. next > from
  BY <1>5, <1>6, LaterMonth
<1> QED BY <1>3, <1>4, <1>5, <1>7 DEF m

\* The next day of the mask; none when the mask is empty.
LEMMA SelectedWeekdayFits ==
  ASSUME NEW spec \in CalendarSpec, NEW from \in Int
  PROVE  LET next == nextSelectedWeekday(spec, from) IN
         \/ next = 0
         \/ /\ next \in Int /\ next > from
            /\ dartWeekday(next) \in spec.weekdays
            /\ \A d \in (from + 1)..(next - 1) : dartWeekday(d) \notin spec.weekdays
<1> DEFINE hits == {i \in 1..7 : dartWeekday(from + i) \in spec.weekdays}
           least == CHOOSE i \in hits : \A j \in hits : i <= j
<1>1. CASE hits = {}
  BY <1>1 DEF nextSelectedWeekday
<1>2. CASE hits # {}
  <2>1. nextSelectedWeekday(spec, from) = from + least
    BY <1>2 DEF nextSelectedWeekday
  <2>2. \A i \in hits : i \in 1..7
    OBVIOUS
  <2>3. \A i \in 1..7 : dartWeekday(from + i) \in spec.weekdays <=> i \in hits
    OBVIOUS
  <2> HIDE DEF hits
  <2>4. \E i \in hits : \A j \in hits : i <= j
    BY <1>2, <2>2
  <2>5. least \in hits /\ \A j \in hits : least <= j
    BY <2>4
  <2> DEFINE next == from + least
  <2> HIDE DEF least
  <2>6. least \in 1..7 /\ next \in Int /\ next > from
    BY <2>2, <2>5
  <2>7. dartWeekday(next) \in spec.weekdays
    BY <2>3, <2>5, <2>6
  <2>8. ASSUME NEW d \in (from + 1)..(next - 1)
        PROVE  dartWeekday(d) \notin spec.weekdays
    <3> DEFINE j == d - from
    <3>1. j \in 1..7 /\ j < least /\ d = from + j
      BY <2>6
    <3> HIDE DEF j
    <3>2. j \notin hits
      BY <2>5, <2>6, <3>1
    <3> QED BY <2>3, <3>1, <3>2
  <2> HIDE DEF next
  <2> QED BY <2>1, <2>6, <2>7, <2>8 DEF next
<1> QED BY <1>1, <1>2

LEMMA StepPositive ==
  ASSUME NEW spec \in CalendarSpec
  PROVE  effectiveInterval(spec) \in Nat \ {0}
<1>1. spec.interval \in Int
  BY DEF RecurrenceSpec, CalendarSpec
<1> QED BY <1>1 DEF effectiveInterval

\* The date that follows, before the end date is looked at, is later and fits the rule;
\* there is none (0) when no weekday is wanted.
LEMMA FollowingFits ==
  ASSUME NEW spec \in CalendarSpec, NEW from \in Int,
         spec.frequency # "selectedWeekdays" \/ Following(spec, from) # 0
  PROVE  /\ Following(spec, from) \in Int /\ Following(spec, from) > from
         /\ Fits(spec, from, Following(spec, from))
<1> DEFINE next == Following(spec, from)
           step == effectiveInterval(spec)
<1> SUFFICES next \in Int /\ next > from /\ Fits(spec, from, next)
  OBVIOUS
<1>1. spec.frequency # "selectedWeekdays" \/ next # 0
  OBVIOUS
<1>2. step \in Nat \ {0}
  BY StepPositive
<1>3. spec.frequency \in Frequencies
  BY DEF RecurrenceSpec, CalendarSpec
<1>4. CASE spec.frequency = "daily"
  <2>1. next = from + step
    BY <1>4 DEF Following
  <2> HIDE DEF next
  <2>2. next \in Int /\ next > from /\ next - from = step
    BY <1>2, <2>1
  <2> QED BY <1>4, <2>2 DEF Fits
<1>5. CASE spec.frequency \in {"weekly", "everyNWeeks"}
  <2>1. next = from + 7 * step
    BY <1>5 DEF Following
  <2> HIDE DEF next
  <2>2. next \in Int /\ next > from /\ next - from = 7 * step
    BY <1>2, <2>1
  <2> QED BY <1>5, <2>2 DEF Fits
<1>6. CASE spec.frequency \in {"monthly", "everyNMonths"}
  <2>1. next = nextMonthly(spec, from, step)
    BY <1>6 DEF Following
  <2> HIDE DEF next
  <2>2. /\ next \in Int /\ next > from
        /\ MonthsSince(from, next) = step
        /\ FallsOn(next, WantedDay(spec, from))
    BY <1>2, <2>1, MonthlyFits
  <2> QED BY <1>6, <2>2 DEF Fits
<1>7. CASE spec.frequency = "yearly"
  <2>1. next = nextYearly(spec, from, step)
    BY <1>7 DEF Following
  <2> HIDE DEF next
  <2>2. /\ next \in Int /\ next > from
        /\ YearOf(next) - YearOf(from) = step
        /\ MonthOf(next) =
              IF spec.monthOfYear = None THEN MonthOf(from) ELSE spec.monthOfYear
        /\ FallsOn(next, WantedDay(spec, from))
    BY <1>2, <2>1, YearlyFits
  <2> QED BY <1>7, <2>2 DEF Fits
<1>8. CASE spec.frequency = "selectedWeekdays"
  <2>1. next = nextSelectedWeekday(spec, from)
    BY <1>8 DEF Following
  <2> HIDE DEF next
  <2>2. /\ next \in Int /\ next > from
        /\ dartWeekday(next) \in spec.weekdays
        /\ \A d \in (from + 1)..(next - 1) : dartWeekday(d) \notin spec.weekdays
    BY <1>1, <1>8, <2>1, SelectedWeekdayFits
  <2> QED BY <1>8, <2>2 DEF Fits
<1> QED BY <1>3, <1>4, <1>5, <1>6, <1>7, <1>8 DEF Frequencies

\* What nextAfter gives is a later date, the one the rule promises, and not past
\* the rule's end: for every rule toSpec can give and every date.
THEOREM NextFits ==
  ASSUME NEW spec \in CalendarSpec, NEW from \in Int, nextAfter(spec, from) # 0
  PROVE  LET next == nextAfter(spec, from) IN
         /\ next \in Int /\ next > from
         /\ Fits(spec, from, next)
         /\ ~Over(spec, next)
<1>1. /\ nextAfter(spec, from) = Following(spec, from)
      /\ Following(spec, from) # 0 /\ ~Over(spec, Following(spec, from))
  BY DEF nextAfter
<1> QED BY <1>1, FollowingFits

\* Some day of any week is that weekday.
LEMMA WeekdayComes ==
  ASSUME NEW from \in Int, NEW day \in Weekdays
  PROVE  \E i \in 1..7 : dartWeekday(from + i) = day
<1> DEFINE r == (from - 1) % 7
           q == (from - 1) \div 7
<1>1. r \in 0..6 /\ q \in Int /\ from - 1 = 7 * q + r
  OBVIOUS
<1> HIDE DEF r, q
<1>2. ASSUME NEW i \in 1..7, NEW p \in Int, from + i - 1 = 7 * p + (day - 1)
      PROVE  dartWeekday(from + i) = day
  <2>1. (7 * p + (day - 1)) % 7 = day - 1
    BY <1>2 DEF Weekdays
  <2> QED BY <1>2, <2>1 DEF dartWeekday, Weekdays
<1>3. CASE day - 1 > r
  <2>1. day - 1 - r \in 1..7 /\ from + (day - 1 - r) - 1 = 7 * q + (day - 1)
    BY <1>1, <1>3 DEF Weekdays
  <2> QED BY <1>1, <1>2, <2>1
<1>4. CASE ~(day - 1 > r)
  <2>1. /\ day + 6 - r \in 1..7 /\ q + 1 \in Int
        /\ from + (day + 6 - r) - 1 = 7 * (q + 1) + (day - 1)
    BY <1>1, <1>4 DEF Weekdays
  <2> QED BY <1>2, <2>1
<1> QED BY <1>3, <1>4

\* A month has one day, or last day, of that number.
LEMMA FallsOnOnce ==
  ASSUME NEW a \in Int, NEW b \in Int, NEW day \in 1..31,
         YearOf(a) = YearOf(b), MonthOf(a) = MonthOf(b),
         FallsOn(a, day), FallsOn(b, day)
  PROVE  a = b
<1> DEFINE last == daysInMonth(YearOf(a), MonthOf(a))
<1>1. /\ YearOf(a) \in Int /\ MonthOf(a) \in Months /\ last \in 28..31
      /\ DayOf(a) \in 1..last /\ DayOf(b) \in 1..last
      /\ a = DayNumber(YearOf(a), MonthOf(a), DayOf(a))
      /\ b = DayNumber(YearOf(a), MonthOf(a), DayOf(b))
  BY PartsFound, MonthLength
<1>2. ASSUME NEW c \in {a, b}, DayOf(c) < last
      PROVE  MonthOf(c + 1) = MonthOf(c)
  <2>1. /\ DayOf(c) + 1 \in 1..last
        /\ DayNumber(YearOf(a), MonthOf(a), DayOf(c)) = c
    BY <1>1, <1>2
  <2>2. DayNumber(YearOf(a), MonthOf(a), DayOf(c) + 1) = c + 1
    <3>1. YearStart(YearOf(a)) \in Int /\ MonthStart(YearOf(a), MonthOf(a)) \in Int
      BY <1>1, YearLength, MonthLength
    <3> QED BY <1>1, <2>1, <3>1 DEF DayNumber
  <2> QED BY <1>1, <2>1, <2>2, PartsOf
<1> HIDE DEF last
<1>3. DayOf(a) = DayOf(b)
  BY <1>1, <1>2 DEF FallsOn
<1> QED BY <1>1, <1>3

\* What a rule promises is one date.
LEMMA FitsOne ==
  ASSUME NEW spec \in CalendarSpec, NEW from \in Int, NEW a \in Int, NEW b \in Int,
         Fits(spec, from, a), Fits(spec, from, b)
  PROVE  a = b
<1> DEFINE step == effectiveInterval(spec)
<1>1. step \in Nat \ {0} /\ spec.frequency \in Frequencies
  BY StepPositive DEF RecurrenceSpec, CalendarSpec
<1>2. /\ WantedDay(spec, from) \in 1..31
      /\ \A date \in {from, a, b} : YearOf(date) \in Int /\ MonthOf(date) \in 1..12
  BY WantedDayIsOne, PartsFound DEF Months
<1>3. CASE spec.frequency = "daily"
  BY <1>1, <1>3 DEF Fits
<1>4. CASE spec.frequency \in {"weekly", "everyNWeeks"}
  <2>1. a - from = 7 * step /\ b - from = 7 * step
    BY <1>4 DEF Fits
  <2> QED BY <1>1, <2>1
<1>5. CASE spec.frequency \in {"monthly", "everyNMonths"}
  <2>1. /\ MonthsSince(from, a) = step /\ MonthsSince(from, b) = step
        /\ FallsOn(a, WantedDay(spec, from)) /\ FallsOn(b, WantedDay(spec, from))
    BY <1>5 DEF Fits
  <2>2. YearOf(a) = YearOf(b) /\ MonthOf(a) = MonthOf(b)
    BY <1>1, <1>2, <2>1 DEF MonthsSince
  <2> QED BY <1>2, <2>1, <2>2, FallsOnOnce
<1>6. CASE spec.frequency = "yearly"
  <2>1. /\ YearOf(a) - YearOf(from) = step /\ YearOf(b) - YearOf(from) = step
        /\ MonthOf(a) = MonthOf(b)
        /\ FallsOn(a, WantedDay(spec, from)) /\ FallsOn(b, WantedDay(spec, from))
    BY <1>6 DEF Fits
  <2>2. YearOf(a) = YearOf(b)
    BY <1>1, <1>2, <2>1
  <2> QED BY <1>2, <2>1, <2>2, FallsOnOnce
<1>7. CASE spec.frequency = "selectedWeekdays"
  <2>1. /\ a > from /\ dartWeekday(a) \in spec.weekdays
        /\ b > from /\ dartWeekday(b) \in spec.weekdays
        /\ \A d \in (from + 1)..(a - 1) : dartWeekday(d) \notin spec.weekdays
        /\ \A d \in (from + 1)..(b - 1) : dartWeekday(d) \notin spec.weekdays
    BY <1>7 DEF Fits
  <2>2. ~(a < b)
    BY <2>1
  <2>3. ~(b < a)
    BY <2>1
  <2> QED BY <2>2, <2>3
<1> QED BY <1>1, <1>3, <1>4, <1>5, <1>6, <1>7 DEF Frequencies

\* nextAfter answers with the date the rule promises exactly when there is one and the
\* rule's end, day and time of day, has not passed by it: a series neither stops early
\* nor skips an occurrence.
THEOREM NextExact ==
  ASSUME NEW spec \in CalendarSpec, NEW from \in Nat, NEW next \in Int \ {0}
  PROVE  nextAfter(spec, from) = next <=> Fits(spec, from, next) /\ ~Over(spec, next)
<1>1. nextAfter(spec, from) = next => Fits(spec, from, next) /\ ~Over(spec, next)
  BY NextFits
<1>2. ASSUME Fits(spec, from, next), ~Over(spec, next)
      PROVE  nextAfter(spec, from) = next
  <2> DEFINE following == Following(spec, from)
  <2>1. ASSUME spec.frequency = "selectedWeekdays" PROVE following # 0
    <3> DEFINE hits == {i \in 1..7 : dartWeekday(from + i) \in spec.weekdays}
               least == CHOOSE i \in hits : \A j \in hits : i <= j
    <3>1. dartWeekday(next) \in spec.weekdays /\ spec.weekdays \subseteq Weekdays
      BY <1>2, <2>1 DEF Fits, RecurrenceSpec, CalendarSpec
    <3>2. hits # {}
      <4>1. PICK i \in 1..7 : dartWeekday(from + i) = dartWeekday(next)
        BY <3>1, WeekdayComes
      <4> QED BY <3>1, <4>1
    <3>3. following = from + least
      BY <2>1, <3>2 DEF Following, nextSelectedWeekday
    <3>4. \A i \in hits : i \in 1..7
      OBVIOUS
    <3> HIDE DEF hits
    <3>5. \E i \in hits : \A j \in hits : i <= j
      BY <3>2, <3>4
    <3>6. least \in 1..7
      BY <3>4, <3>5
    <3> HIDE DEF least, following
    <3> QED BY <3>3, <3>6
  <2>2. following \in Int /\ Fits(spec, from, following) /\ following > from
    BY <2>1, FollowingFits
  <2>3. following = next
    BY <1>2, <2>2, FitsOne
  <2> QED BY <1>2, <2>3 DEF nextAfter
<1> QED BY <1>1, <1>2

\* A rule with a day of the month does not drift: however short the month between,
\* the occurrence after next is two steps on and again on the day the rule names, or
\* that month's last (the 31st after 28 February is the 31st of March).
THEOREM DatesDoNotDrift ==
  ASSUME NEW spec \in CalendarSpec, NEW from \in Int,
         spec.frequency \in {"monthly", "everyNMonths"}, spec.dayOfMonth # None,
         nextAfter(spec, from) # 0, nextAfter(spec, nextAfter(spec, from)) # 0
  PROVE  LET second == nextAfter(spec, nextAfter(spec, from)) IN
         /\ MonthsSince(from, second) = 2 * effectiveInterval(spec)
         /\ FallsOn(second, spec.dayOfMonth)
<1> DEFINE first == nextAfter(spec, from)
           second == nextAfter(spec, first)
           step == effectiveInterval(spec)
<1>1. first \in Int /\ Fits(spec, from, first)
  BY NextFits
<1> HIDE DEF first
<1>2. second \in Int /\ Fits(spec, first, second)
  BY <1>1, NextFits DEF first
<1> HIDE DEF second
<1>3. /\ MonthsSince(from, first) = step
      /\ MonthsSince(first, second) = step /\ FallsOn(second, spec.dayOfMonth)
  BY <1>1, <1>2 DEF Fits, WantedDay
<1>4. \A date \in {from, first, second} : YearOf(date) \in Int /\ MonthOf(date) \in Int
  BY <1>1, <1>2, PartsFound DEF Months
<1>5. MonthsSince(from, second) = MonthsSince(from, first) + MonthsSince(first, second)
  BY <1>4 DEF MonthsSince
<1>6. step \in Nat \ {0}
  BY StepPositive
<1> HIDE DEF step
<1> QED BY <1>3, <1>5, <1>6 DEF first, second, step
=============================================================================
