------------------------------ MODULE TaiProofs ------------------------------
(***************************************************************************)
(* Proofs about Tai and TimeConver.  The calendar comes first: every day   *)
(* is in one month of one year, and Civil finds it; then the month lengths *)
(* and the leap rule the code writes out are the calendar's for the years  *)
(* 1970 to 3199; and the loops of the additions count what the calendar    *)
(* counts.  Last comes the program time_conver: the text that strftime     *)
(* writes is read back by sscanf, character by character, and of several   *)
(* options the last one counts.                                            *)
(***************************************************************************)
EXTENDS Tai, TimeConver, Induction, FiniteSetTheorems, SequenceTheorems, TLAPS

-----------------------------------------------------------------------------
(* Years.                                                                  *)
LEMMA Division ==
    \A x \in Int : /\ x \div 4 \in Int /\ x \div 100 \in Int /\ x \div 400 \in Int
                   /\ 4 * (x \div 4) <= x /\ x <= 4 * (x \div 4) + 3
                   /\ 100 * (x \div 100) <= x /\ x <= 100 * (x \div 100) + 99
                   /\ 400 * (x \div 400) <= x /\ x <= 400 * (x \div 400) + 399
OBVIOUS

LEMMA Multiples == \A y \in Int : (y % 400 = 0 => y % 100 = 0) /\ (y % 100 = 0 => y % 4 = 0)
OBVIOUS

(* A leap year adds a day, and no other year does. *)
LEMMA LeapStep ==
    ASSUME NEW y \in Int
    PROVE  LeapsBefore(y + 1) = LeapsBefore(y) + (IF IsLeap(y) THEN 1 ELSE 0)
<1>1. y \div 4 = ((y - 1) \div 4) + (IF y % 4 = 0 THEN 1 ELSE 0)
  OBVIOUS
<1>2. y \div 100 = ((y - 1) \div 100) + (IF y % 100 = 0 THEN 1 ELSE 0)
  OBVIOUS
<1>3. y \div 400 = ((y - 1) \div 400) + (IF y % 400 = 0 THEN 1 ELSE 0)
  OBVIOUS
<1>4. (y + 1) - 1 = y
  OBVIOUS
<1>5. y - 1 \in Int /\ (y - 1) \div 4 \in Int /\ (y - 1) \div 100 \in Int /\ (y - 1) \div 400 \in Int
  BY Division
<1> QED
  BY <1>1, <1>2, <1>3, <1>4, <1>5, Multiples DEF LeapsBefore, IsLeap

(* The leap years before a year are 97 in 400, give or take two. *)
LEMMA LeapBounds ==
    ASSUME NEW y \in Int
    PROVE  /\ LeapsBefore(y) \in Int
           /\ 97 * (y - 1) - 699 <= 400 * LeapsBefore(y)
           /\ 400 * LeapsBefore(y) <= 97 * (y - 1) + 396
<1> DEFINE x == y - 1
           a == x \div 4
           b == x \div 100
           c == x \div 400
<1>1. /\ x \in Int /\ a \in Int /\ b \in Int /\ c \in Int
      /\ 4 * a <= x /\ x <= 4 * a + 3
      /\ 100 * b <= x /\ x <= 100 * b + 99
      /\ 400 * c <= x /\ x <= 400 * c + 399
  BY Division
<1>2. LeapsBefore(y) = a - b + c
  BY DEF LeapsBefore
<1> HIDE DEF x, a, b, c
<1>3. 97 * x - 699 <= 400 * (a - b + c) /\ 400 * (a - b + c) <= 97 * x + 396
  BY <1>1
<1> QED
  BY <1>1, <1>2, <1>3 DEF x

LEMMA Origin485 == LeapsBefore(Origin) = 485
BY DEF LeapsBefore, Origin

(* A year starts after 365.2425 days for each year since 2004, give or     *)
(* take two days, and a year is 365 days long, or 366.                     *)
LEMMA YearBounds ==
    ASSUME NEW y \in Int
    PROVE  /\ YearStart(y) \in Int
           /\ 146097 * (y - 2004) - 408 <= 400 * YearStart(y)
           /\ 400 * YearStart(y) <= 146097 * (y - 2004) + 687
           /\ YearStart(y + 1) = YearStart(y) + 365 + (IF IsLeap(y) THEN 1 ELSE 0)
<1> DEFINE L == LeapsBefore(y)
           M == LeapsBefore(y + 1)
<1>1. /\ L \in Int /\ 97 * (y - 1) - 699 <= 400 * L /\ 400 * L <= 97 * (y - 1) + 396
  BY LeapBounds
<1>2. M = L + (IF IsLeap(y) THEN 1 ELSE 0)
  BY LeapStep
<1>3. YearStart(y) = 365 * (y - 2004) + L - 485 /\ YearStart(y + 1) = 365 * (y + 1 - 2004) + M - 485
  BY Origin485 DEF YearStart, Origin
<1> HIDE DEF L, M
<1>4. CASE IsLeap(y)
  BY <1>1, <1>2, <1>3, <1>4
<1>5. CASE ~IsLeap(y)
  BY <1>1, <1>2, <1>3, <1>5
<1> QED
  BY <1>4, <1>5

LEMMA YearsInOrder ==
    ASSUME NEW y \in Int, NEW z \in Int, y < z
    PROVE  YearStart(y + 1) <= YearStart(z)
<1>1. CASE z = y + 1
  BY <1>1, YearBounds
<1>2. CASE y + 1 < z
  <2> DEFINE u == y + 1
             A == YearStart(u)
             B == YearStart(z)
  <2>1. u \in Int /\ A \in Int /\ 400 * A <= 146097 * (u - 2004) + 687
    BY YearBounds
  <2>2. B \in Int /\ 146097 * (z - 2004) - 408 <= 400 * B
    BY YearBounds
  <2>3. u + 1 <= z
    BY <1>2
  <2> HIDE DEF u, A, B
  <2>4. A <= B
    BY <2>1, <2>2, <2>3
  <2> QED
    BY <2>4 DEF A, B, u
<1> QED
  BY <1>1, <1>2

-----------------------------------------------------------------------------
(* Months.                                                                 *)
Length(y, m) == IF m \in {1, 3, 5, 7, 8, 10, 12} THEN 31
                ELSE IF m \in {4, 6, 9, 11} THEN 30
                ELSE IF IsLeap(y) THEN 29 ELSE 28

LEMMA MonthsOfYear ==
    ASSUME NEW y \in Int
    PROVE  /\ \A m \in 1 .. 12 : MonthStart(y, m) \in Int /\ Length(y, m) \in 28 .. 31
           /\ MonthStart(y, 1) = YearStart(y)
           /\ \A m \in 1 .. 11 : MonthStart(y, m + 1) = MonthStart(y, m) + Length(y, m)
           /\ YearStart(y + 1) = MonthStart(y, 12) + 31
<1> DEFINE Y == YearStart(y)
<1>1. Y \in Int /\ YearStart(y + 1) = Y + 365 + (IF IsLeap(y) THEN 1 ELSE 0)
  BY YearBounds
<1>2. \A m \in 1 .. 12 : MonthStart(y, m) = Y + MonthOffset[m] + (IF m > 2 /\ IsLeap(y) THEN 1 ELSE 0)
  BY DEF MonthStart
<1> HIDE DEF Y
<1>3. \A m \in 1 .. 12 : MonthStart(y, m) \in Int
  BY <1>1, <1>2 DEF MonthOffset
<1>4. \A m \in 1 .. 12 : Length(y, m) \in 28 .. 31
  BY DEF Length
<1>5. MonthStart(y, 1) = Y
  BY <1>1, <1>2 DEF MonthOffset
<1>6. ASSUME NEW m \in 1 .. 11 PROVE MonthStart(y, m + 1) = MonthStart(y, m) + Length(y, m)
  BY <1>1, <1>2 DEF MonthOffset, Length
<1>7. YearStart(y + 1) = MonthStart(y, 12) + 31
  BY <1>1, <1>2 DEF MonthOffset
<1> QED
  BY <1>3, <1>4, <1>5, <1>6, <1>7 DEF Y

LEMMA Twelve == \A k \in 1 .. 12 : k \in {1, 2, 3, 4, 5, 6, 7, 8, 9, 10, 11, 12}
OBVIOUS

(* The months of a year follow one another from its start to its end. *)
LEMMA MonthsInOrder ==
    ASSUME NEW y \in Int, NEW m \in 1 .. 12
    PROVE  /\ YearStart(y) <= MonthStart(y, m)
           /\ MonthStart(y, m) + Length(y, m) <= YearStart(y + 1)
           /\ \A n \in 1 .. 12 : m < n => MonthStart(y, m) + Length(y, m) <= MonthStart(y, n)
<1> DEFINE S == [k \in 1 .. 12 |-> MonthStart(y, k)]
           D == [k \in 1 .. 12 |-> Length(y, k)]
<1>1. /\ \A k \in 1 .. 12 : S[k] \in Int /\ D[k] \in 28 .. 31
      /\ YearStart(y) = S[1] /\ YearStart(y + 1) = S[12] + 31
      /\ \A k \in 1 .. 11 : S[k + 1] = S[k] + D[k]
      /\ D[12] = 31
  <2>1. Length(y, 12) = 31
    BY DEF Length
  <2> QED
    BY <2>1, MonthsOfYear
<1>2. MonthStart(y, m) = S[m] /\ Length(y, m) = D[m] /\ \A n \in 1 .. 12 : MonthStart(y, n) = S[n]
  OBVIOUS
<1> HIDE DEF S, D
<1>3. /\ S[2] = S[1] + D[1] /\ S[3] = S[2] + D[2] /\ S[4] = S[3] + D[3] /\ S[5] = S[4] + D[4]
      /\ S[6] = S[5] + D[5] /\ S[7] = S[6] + D[6] /\ S[8] = S[7] + D[7] /\ S[9] = S[8] + D[8]
      /\ S[10] = S[9] + D[9] /\ S[11] = S[10] + D[10] /\ S[12] = S[11] + D[11]
  BY <1>1
<1>4. \A k \in {1, 2, 3, 4, 5, 6, 7, 8, 9, 10, 11, 12} : S[k] \in Int /\ D[k] \in Int /\ D[k] > 0
  BY <1>1
<1>5. ASSUME NEW n \in {1, 2, 3, 4, 5, 6, 7, 8, 9, 10, 11, 12}, NEW k \in {1, 2, 3, 4, 5, 6, 7, 8, 9, 10, 11, 12}, k < n PROVE S[k] + D[k] <= S[n]
  BY <1>3, <1>4, <1>5
<1>6. ASSUME NEW k \in {1, 2, 3, 4, 5, 6, 7, 8, 9, 10, 11, 12} PROVE S[1] <= S[k] /\ S[k] + D[k] <= S[12] + 31
  BY <1>1, <1>3, <1>4
<1> QED
  BY <1>1, <1>2, <1>5, <1>6, Twelve

-----------------------------------------------------------------------------
(* Days.                                                                   *)
InMonth(day, y, m) == MonthStart(y, m) <= day /\ day < MonthStart(y, m) + Length(y, m)

(* The year near a day, by the mean length of a year, is one off at most. *)
LEMMA NearYear ==
    ASSUME NEW day \in Int, NEW q, q = (400 * day) \div 146097
    PROVE  /\ q \in Int
           /\ YearStart(2004 + q - 1) <= day
           /\ day < YearStart(2004 + q + 2)
<1>1. q \in Int /\ 146097 * q <= 400 * day /\ 400 * day < 146097 * q + 146097
  OBVIOUS
<1> DEFINE y == 2004 + q - 1
           z == 2004 + q + 2
           A == YearStart(y)
           B == YearStart(z)
<1>2. y \in Int /\ z \in Int /\ y - 2004 = q - 1 /\ z - 2004 = q + 2
  BY <1>1
<1>3. /\ A \in Int /\ 400 * A <= 146097 * (y - 2004) + 687
      /\ B \in Int /\ 146097 * (z - 2004) - 408 <= 400 * B
  BY <1>2, YearBounds
<1> HIDE DEF y, z, A, B
<1>4. A <= day /\ day < B
  BY <1>1, <1>2, <1>3
<1> QED
  BY <1>1, <1>4 DEF A, B, y, z

(* Every day is in a month of a year near it, and of no other year. *)
LEMMA YearOfDay ==
    ASSUME NEW day \in Int
    PROVE  \E y \in Int : YearStart(y) <= day /\ day < YearStart(y + 1)
<1> DEFINE q == (400 * day) \div 146097
<1>1. q \in Int /\ YearStart(2004 + q - 1) <= day /\ day < YearStart(2004 + q + 2)
  BY NearYear
<1> HIDE DEF q
<1> DEFINE u == 2004 + q - 1
<1>2. /\ u \in Int /\ u + 1 \in Int /\ u + 2 \in Int /\ (u + 1) + 1 = u + 2 /\ (u + 2) + 1 = 2004 + q + 2
      /\ YearStart(u) <= day /\ day < YearStart((u + 2) + 1)
  BY <1>1
<1> HIDE DEF u
<1>3. YearStart(u + 1) \in Int /\ YearStart(u + 2) \in Int
  BY <1>2, YearBounds
<1>4. CASE day < YearStart(u + 1)
  BY <1>2, <1>4
<1>5. CASE YearStart(u + 1) <= day /\ day < YearStart(u + 2)
  BY <1>2, <1>5
<1>6. CASE YearStart(u + 2) <= day
  BY <1>2, <1>6
<1> QED
  BY <1>3, <1>4, <1>5, <1>6

LEMMA OneYear ==
    ASSUME NEW day \in Int, NEW y \in Int, NEW z \in Int,
           YearStart(y) <= day, day < YearStart(y + 1), YearStart(z) <= day, day < YearStart(z + 1)
    PROVE  y = z
<1>1. /\ YearStart(y) \in Int /\ YearStart(z) \in Int
      /\ YearStart(y + 1) \in Int /\ YearStart(z + 1) \in Int
  BY YearBounds
<1>2. ~(y < z)
  BY <1>1, YearsInOrder
<1>3. ~(z < y)
  BY <1>1, YearsInOrder
<1> QED
  BY <1>2, <1>3

LEMMA YearIsNear ==
    ASSUME NEW day \in Int, NEW y \in Int, YearStart(y) <= day, day < YearStart(y + 1),
           NEW near, near = Origin + ((400 * day) \div 146097)
    PROVE  near \in Int /\ y \in near - 1 .. near + 1
<1> DEFINE q == (400 * day) \div 146097
<1>1. q \in Int /\ YearStart(2004 + q - 1) <= day /\ day < YearStart(2004 + q + 2)
  BY NearYear
<1>2. near = 2004 + q
  BY DEF Origin
<1> HIDE DEF q
<1>3. 2004 + q - 1 \in Int /\ 2004 + q + 2 \in Int
  BY <1>1
<1>4. /\ YearStart(y) \in Int /\ YearStart(y + 1) \in Int
      /\ YearStart(2004 + q - 1) \in Int /\ YearStart(2004 + q + 2) \in Int
  BY <1>3, YearBounds
<1>5. ~(y < 2004 + q - 1)
  BY <1>1, <1>3, <1>4, YearsInOrder
<1>6. ~(2004 + q + 2 <= y)
  <2>1. CASE y = 2004 + q + 2
    BY <1>1, <1>4, <2>1
  <2>2. CASE 2004 + q + 2 < y
    <3> DEFINE z == 2004 + q + 2
    <3>1. z \in Int /\ YearStart(z) \in Int /\ day < YearStart(z) /\ z < y
      BY <1>1, <1>3, <1>4, <2>2
    <3> HIDE DEF z
    <3>2. YearStart(z + 1) <= YearStart(y)
      BY <3>1, YearsInOrder
    <3>3. YearStart(z) <= YearStart(z + 1) /\ YearStart(z + 1) \in Int
      BY <3>1, YearBounds
    <3> QED
      BY <1>4, <3>1, <3>2, <3>3
  <2> QED
    BY <1>3, <2>1, <2>2
<1> QED
  BY <1>1, <1>2, <1>5, <1>6

LEMMA MonthOfDay ==
    ASSUME NEW day \in Int, NEW y \in Int, YearStart(y) <= day, day < YearStart(y + 1)
    PROVE  \E m \in 1 .. 12 : InMonth(day, y, m)
<1> DEFINE S == [k \in 1 .. 12 |-> MonthStart(y, k)]
           D == [k \in 1 .. 12 |-> Length(y, k)]
<1>1. /\ \A k \in 1 .. 12 : S[k] \in Int /\ D[k] \in 28 .. 31
      /\ S[1] <= day /\ day < S[12] + D[12]
      /\ \A k \in 1 .. 11 : S[k + 1] = S[k] + D[k]
  <2>1. Length(y, 12) = 31
    BY DEF Length
  <2> QED
    BY <2>1, MonthsOfYear
<1>2. \A k \in 1 .. 12 : InMonth(day, y, k) <=> S[k] <= day /\ day < S[k] + D[k]
  BY DEF InMonth
<1> HIDE DEF S, D
<1>3. /\ S[2] = S[1] + D[1] /\ S[3] = S[2] + D[2] /\ S[4] = S[3] + D[3] /\ S[5] = S[4] + D[4]
      /\ S[6] = S[5] + D[5] /\ S[7] = S[6] + D[6] /\ S[8] = S[7] + D[7] /\ S[9] = S[8] + D[8]
      /\ S[10] = S[9] + D[9] /\ S[11] = S[10] + D[10] /\ S[12] = S[11] + D[11]
  BY <1>1
<1>4. \A k \in 1 .. 12 : S[k] \in Int /\ D[k] \in Int
  BY <1>1
<1>5. \E k \in 1 .. 12 : S[k] <= day /\ day < S[k] + D[k]
  BY <1>1, <1>3, <1>4
<1> QED
  BY <1>2, <1>5

(* localtime finds the date of a day. *)
LEMMA CivilIs ==
    ASSUME NEW day \in Int, NEW y \in Int, NEW m \in 1 .. 12, InMonth(day, y, m)
    PROVE  Civil(day) = [year |-> y, month |-> m, day |-> day - MonthStart(y, m) + 1]
<1>1. /\ YearStart(y) \in Int /\ YearStart(y + 1) \in Int
      /\ \A k \in 1 .. 12 : MonthStart(y, k) \in Int /\ Length(y, k) \in Int
  <2>1. YearStart(y) \in Int /\ YearStart(y + 1) \in Int
    BY YearBounds, SMT
  <2>2. \A k \in 1 .. 12 : MonthStart(y, k) \in Int /\ Length(y, k) \in 28 .. 31
    BY MonthsOfYear, Zenon
  <2>3. \A k \in 1 .. 12 : Length(y, k) \in Int
    BY <2>2, SMT
  <2> QED
    BY <2>1, <2>2, <2>3, Zenon
<1>2. YearStart(y) <= day /\ day < YearStart(y + 1)
  <2>1. /\ YearStart(y) <= MonthStart(y, m)
        /\ MonthStart(y, m) + Length(y, m) <= YearStart(y + 1)
    BY MonthsInOrder
  <2> QED
    BY <1>1, <2>1 DEF InMonth
<1>3. m < 12 => day < MonthStart(y, m + 1)
  <2>1. m < 12 => m \in 1 .. 11
    OBVIOUS
  <2> QED
    BY <2>1, MonthsOfYear DEF InMonth
<1>4. ASSUME NEW k \in 1 .. 12, MonthStart(y, k) <= day, k < 12 => day < MonthStart(y, k + 1)
      PROVE  k = m
  <2>1. ~(m < k)
    BY <1>1, <1>4, MonthsInOrder DEF InMonth
  <2>2. ~(k < m)
    <3> SUFFICES ASSUME k < m PROVE FALSE
      OBVIOUS
    <3>1. k \in 1 .. 11
      OBVIOUS
    <3>2. day < MonthStart(y, k + 1)
      BY <1>4, <3>1, SMT
    <3>4. MonthStart(y, k + 1) = MonthStart(y, k) + Length(y, k)
      BY <3>1, MonthsOfYear, Zenon
    <3>3. MonthStart(y, k) + Length(y, k) <= MonthStart(y, m)
      BY MonthsInOrder
    <3> QED
      BY <1>1, <3>2, <3>3, <3>4 DEF InMonth
  <2> QED
    BY <2>1, <2>2
<1>5. YearOf(day) = y
  <2> DEFINE near == Origin + ((400 * day) \div 146097)
  <2>1. near \in Int /\ y \in near - 1 .. near + 1
    BY <1>2, YearIsNear
  <2>2. YearOf(day) = CHOOSE z \in near - 1 .. near + 1 : YearStart(z) <= day /\ day < YearStart(z + 1)
    BY DEF YearOf
  <2> HIDE DEF near
  <2>3. ASSUME NEW z \in near - 1 .. near + 1, YearStart(z) <= day, day < YearStart(z + 1)
        PROVE  z = y
    BY <1>2, <2>1, <2>3, OneYear
  <2> QED
    BY <1>2, <2>1, <2>2, <2>3
<1>6. MonthOf(day, y) = m
  BY <1>3, <1>4 DEF MonthOf, InMonth
<1> QED
  BY <1>5, <1>6 DEF Civil

(* Every day has a date. *)
LEMMA DayHasDate ==
    ASSUME NEW day \in Int
    PROVE  \E y \in Int, m \in 1 .. 12 :
              /\ InMonth(day, y, m)
              /\ YearStart(y) <= day /\ day < YearStart(y + 1)
              /\ Civil(day) = [year |-> y, month |-> m, day |-> day - MonthStart(y, m) + 1]
BY YearOfDay, MonthOfDay, CivilIs

-----------------------------------------------------------------------------
(* The calendar of the code.                                               *)
LEMMA SameLengths ==
    ASSUME NEW y \in Int, 1970 <= y, y < 3200, NEW m
    PROVE  DaysIn(y, m) = Length(y, m)
<1>1. ~(y % 172800 = 0) /\ ~(y % 3200 = 0)
  OBVIOUS
<1>2. LeapRule(y) <=> IsLeap(y)
  BY <1>1 DEF LeapRule, IsLeap
<1> QED
  BY <1>2 DEF DaysIn, Length

LEMMA MonthType ==
    ASSUME NEW y \in Int, NEW m \in 1 .. 12
    PROVE  MonthStart(y, m) \in Int /\ Length(y, m) \in Int /\ Length(y, m) > 0
<1>1. MonthStart(y, m) \in Int
  BY MonthsOfYear, Zenon
<1>2. Length(y, m) \in {28, 29, 30, 31}
  BY DEF Length
<1> QED
  BY <1>1, <1>2

LEMMA DayNumberIs ==
    ASSUME NEW y \in Int, NEW m \in 1 .. 12, NEW d \in Int
    PROVE  DayNumber(y, m, d) = MonthStart(y, m) + d - 1
<1>1. (m - 1) \div 12 = 0 /\ (m - 1) % 12 = m - 1
  OBVIOUS
<1>2. y + ((m - 1) \div 12) = y /\ ((m - 1) % 12) + 1 = m
  BY <1>1
<1> QED
  BY <1>2 DEF DayNumber

(* A day number is the date's own day exactly when the month has that day. *)
LEMMA RealDates ==
    ASSUME NEW y \in Int, NEW m \in 1 .. 12, NEW d \in Int
    PROVE  Civil(DayNumber(y, m, d)) = [year |-> y, month |-> m, day |-> d]
              <=> d \in 1 .. Length(y, m)
<1> DEFINE N == DayNumber(y, m, d)
<1>1. N = MonthStart(y, m) + d - 1 /\ MonthStart(y, m) \in Int /\ Length(y, m) \in Int /\ N \in Int
  <2>1. N = MonthStart(y, m) + d - 1
    BY DayNumberIs
  <2>2. MonthStart(y, m) \in Int /\ Length(y, m) \in Int
    BY MonthType
  <2> HIDE DEF N
  <2> QED
    BY <2>1, <2>2
<1> HIDE DEF N
<1>2. ASSUME d \in 1 .. Length(y, m) PROVE Civil(N) = [year |-> y, month |-> m, day |-> d]
  <2>1. InMonth(N, y, m) /\ N - MonthStart(y, m) + 1 = d
    BY <1>1, <1>2 DEF InMonth
  <2> QED
    BY <1>1, <2>1, CivilIs
<1>3. ASSUME Civil(N) = [year |-> y, month |-> m, day |-> d] PROVE d \in 1 .. Length(y, m)
  <2>1. PICK z \in Int, n \in 1 .. 12 :
           InMonth(N, z, n) /\ Civil(N) = [year |-> z, month |-> n, day |-> N - MonthStart(z, n) + 1]
    BY <1>1, DayHasDate
  <2>2. z = y /\ n = m
    BY <1>3, <2>1
  <2> QED
    BY <1>1, <2>1, <2>2 DEF InMonth
<1> QED
  BY <1>2, <1>3 DEF N

-----------------------------------------------------------------------------
(* What the state says of the clock that was entered. *)
ClockInv ==
    /\ clock \in Clocks
    /\ calls \in Nat
    /\ state \in {"entered", "constructed", "accepted", "rejected"}
    /\ state = "rejected" => ~Accepts(clock)
    /\ state = "accepted" =>
          /\ Accepts(clock)
          /\ calls = 0 => m_time.day = DayNumber(clock.year, clock.month, clock.day)

LEMMA MoveKeeps == ASSUME ClockInv, NEW day, NEW second, MoveTo(day, second) PROVE ClockInv'
BY DEF ClockInv, MoveTo

LEMMA ClockStep == ClockInv /\ [Next]_vars => ClockInv'
<1> SUFFICES ASSUME ClockInv, [Next]_vars PROVE ClockInv'
  OBVIOUS
<1>1. CASE Construct
  BY <1>1 DEF ClockInv, Construct
<1>2. CASE Convert
  BY <1>2 DEF ClockInv, Convert, SetFrom
<1>3. ASSUME NEW n, Advance(n) PROVE ClockInv'
  BY <1>3, MoveKeeps DEF Advance
<1>4. ASSUME NEW n, addYears(n) \/ addMonths(n) \/ addWeeks(n) \/ addDays(n) \/ addHours(n)
                    \/ addMinutes(n) \/ addSeconds(n)
      PROVE  ClockInv'
  BY <1>3, <1>4 DEF addYears, addMonths, addWeeks, addDays, addHours, addMinutes, addSeconds
<1>5. CASE next_rotation_tp
  BY <1>5, MoveKeeps DEF next_rotation_tp
<1>6. CASE UNCHANGED vars
  BY <1>6 DEF ClockInv, vars
<1> QED
  BY <1>1, <1>2, <1>4, <1>5, <1>6 DEF Next

(* The tests of time_conver.c:86-111 accept the real dates, and the days   *)
(* numbered 0, for every month and day number and every year from 1970 to  *)
(* 3199; in the year 3200 the code's leap rule leaves the calendar's.      *)
THEOREM DatesAccepted == Spec => []AcceptsRealDates
<1>1. Init => ClockInv
  BY DEF Init, ClockInv
<1>2. ClockInv => AcceptsRealDates
  <2> SUFFICES ASSUME ClockInv PROVE AcceptsRealDates
    OBVIOUS
  <2> DEFINE y == clock.year
             m == clock.month
             d == clock.day
             real == m \in 1 .. 12 /\ d > 0 /\ Civil(DayNumber(y, m, d)) = clock
  <2>1. /\ y \in Int /\ 1970 <= y /\ y < 3200 /\ m \in Int /\ d \in Int
        /\ clock = [year |-> y, month |-> m, day |-> d]
    <3>1. clock \in [year : Years, month : Int, day : Int]
      BY TaiAssumption DEF ClockInv
    <3> QED
      BY <3>1 DEF Years
  <2> HIDE DEF y, m, d
  <2>2. m \in 1 .. 12 => (Civil(DayNumber(y, m, d)) = clock <=> d \in 1 .. DaysIn(y, m))
    <3> SUFFICES ASSUME m \in 1 .. 12
                 PROVE  Civil(DayNumber(y, m, d)) = clock <=> d \in 1 .. DaysIn(y, m)
      OBVIOUS
    <3>1. Civil(DayNumber(y, m, d)) = [year |-> y, month |-> m, day |-> d] <=> d \in 1 .. Length(y, m)
      BY <2>1, RealDates
    <3>2. DaysIn(y, m) = Length(y, m)
      BY <2>1, SameLengths
    <3> QED
      BY <2>1, <3>1, <3>2
  <2>3. Accepts(clock) <=> m \in 1 .. 12 /\ d \in 0 .. DaysIn(y, m)
    BY <2>1 DEF Accepts, y, m, d
  <2>4. m \in 1 .. 12 => DaysIn(y, m) \in Int
    BY DEF DaysIn
  <2>5. real => Accepts(clock)
    BY <2>1, <2>2, <2>3, <2>4
  <2>6. Accepts(clock) => real \/ d = 0
    BY <2>1, <2>2, <2>3, <2>4
  <2>7. state = "accepted" /\ calls = 0 => m_time.day = DayNumber(y, m, d)
    BY DEF ClockInv, y, m, d
  <2>8. real /\ state = "accepted" /\ calls = 0 => Today = clock
    BY <2>7 DEF Today
  <2> QED
    BY <2>5, <2>6, <2>8 DEF AcceptsRealDates, ClockInv, y, m, d
<1> QED
  BY <1>1, <1>2, ClockStep, PTL DEF Spec

(* The years in which the code's leap rule is the calendar's. *)
InCalendar == m_time.day \in YearStart(1970) .. YearStart(3200) - 1

(* month_rotate.cpp:93-146: on any day from 1970 to 3199 the next rotation *)
(* is the first midnight of the next month.                                *)
THEOREM RotatesMonthly == Spec /\ []InCalendar => RotationExact
<1> DEFINE Exact ==
      next_rotation_tp =>
          /\ m_time'.second = 0
          /\ Today'.day = 1
          /\ Today'.month = (Today.month % 12) + 1
          /\ Today'.year = IF Today.month = 12 THEN Today.year + 1 ELSE Today.year
<1>1. InCalendar => Exact
  <2> SUFFICES ASSUME InCalendar, next_rotation_tp
               PROVE  /\ m_time'.second = 0
                      /\ Today'.day = 1
                      /\ Today'.month = (Today.month % 12) + 1
                      /\ Today'.year = IF Today.month = 12 THEN Today.year + 1 ELSE Today.year
    OBVIOUS
  <2> DEFINE N == m_time.day
  <2>1. N \in Int /\ YearStart(1970) <= N /\ N < YearStart(3200)
    <3>1. YearStart(1970) \in Int /\ YearStart(3200) \in Int
      BY YearBounds
    <3> QED
      BY <3>1 DEF InCalendar
  <2> HIDE DEF N
  <2>2. PICK y \in Int, m \in 1 .. 12 :
           /\ YearStart(y) <= N /\ N < YearStart(y + 1)
           /\ Civil(N) = [year |-> y, month |-> m, day |-> N - MonthStart(y, m) + 1]
    BY <2>1, DayHasDate
  <2>3. 1970 <= y /\ y < 3200
    <3>1. /\ YearStart(y) \in Int /\ YearStart(y + 1) \in Int
          /\ YearStart(1970) \in Int /\ YearStart(3200) \in Int
      BY YearBounds
    <3>2. ~(y < 1970)
      BY <2>1, <2>2, <3>1, YearsInOrder
    <3>3. ~(3200 < y)
      BY <2>1, <2>2, <3>1, YearsInOrder, YearBounds
    <3>4. y # 3200
      BY <2>1, <2>2, <3>1
    <3> QED
      BY <3>2, <3>3, <3>4
  <2>4. Today.year = y /\ Today.month = m
    BY <2>2 DEF Today, N
  <2> DEFINE next == MonthStart(y, m) + Length(y, m)
  <2>5. /\ MonthStart(y, m) \in Int /\ Length(y, m) \in Int /\ next \in Int
    <3>1. MonthStart(y, m) \in Int /\ Length(y, m) \in Int
      BY MonthType
    <3> QED
      BY <3>1
  <2>6. m_time' = [day |-> next, second |-> 0]
    <3>1. DayNumber(y, m, 1) + DaysIn(y, m) = next
      <4>1. DayNumber(y, m, 1) = MonthStart(y, m) + 1 - 1
        BY DayNumberIs
      <4>2. DaysIn(y, m) = Length(y, m)
        BY <2>3, SameLengths
      <4> QED
        BY <2>5, <4>1, <4>2
    <3> QED
      BY <2>4, <3>1 DEF next_rotation_tp, MoveTo
  <2>7. Today' = Civil(next)
    BY <2>6 DEF Today
  <2>8. CASE m < 12
    <3>1. m + 1 \in 1 .. 12 /\ MonthStart(y, m + 1) = next
      <4>1. m \in 1 .. 11 /\ m + 1 \in 1 .. 12
        BY <2>8
      <4> QED
        BY <4>1, MonthsOfYear
    <3>2. InMonth(next, y, m + 1)
      <4>1. Length(y, m + 1) \in Int /\ Length(y, m + 1) > 0
        BY <3>1, MonthType
      <4> HIDE DEF next
      <4> QED
        BY <2>5, <3>1, <4>1 DEF InMonth
    <3>3. Civil(next) = [year |-> y, month |-> m + 1, day |-> next - MonthStart(y, m + 1) + 1]
      BY <2>5, <3>1, <3>2, CivilIs
    <3>4. next - MonthStart(y, m + 1) + 1 = 1
      BY <2>5, <3>1
    <3>5. (m % 12) + 1 = m + 1 /\ m # 12
      BY <2>8
    <3> HIDE DEF next
    <3> QED
      BY <2>4, <2>6, <2>7, <3>3, <3>4, <3>5
  <2>9. CASE m = 12
    <3>1. y + 1 \in Int /\ next = YearStart(y + 1) /\ MonthStart(y + 1, 1) = YearStart(y + 1)
      BY <2>9, MonthsOfYear DEF Length
    <3>2. InMonth(next, y + 1, 1)
      BY <2>5, <3>1 DEF InMonth, Length
    <3>3. Civil(next) = [year |-> y + 1, month |-> 1, day |-> next - MonthStart(y + 1, 1) + 1]
      BY <2>5, <3>1, <3>2, CivilIs
    <3>4. next - MonthStart(y + 1, 1) + 1 = 1
      BY <2>5, <3>1
    <3>5. (m % 12) + 1 = 1
      BY <2>9
    <3> HIDE DEF next
    <3> QED
      BY <2>4, <2>6, <2>7, <2>9, <3>3, <3>4, <3>5
  <2> QED
    BY <2>8, <2>9
<1> QED
  BY <1>1, PTL DEF RotationExact

-----------------------------------------------------------------------------
(* Additions of months.  A month is numbered from January of a year, and   *)
(* the number may be beyond December.                                      *)
YearAt(y, k) == y + ((k - 1) \div 12)
MonthAt(k) == ((k - 1) % 12) + 1
First(y, k) == MonthStart(YearAt(y, k), MonthAt(k))

LEMMA YearsAre == \A y \in Int : y \in Years <=> 1970 <= y /\ y < 3200
BY DEF Years

LEMMA YearGrows ==
    ASSUME NEW y \in Int
    PROVE  /\ YearStart(y) \in Int /\ YearStart(y) <= YearStart(y + 1)
           /\ YearStart(y + 1) = YearStart(y) + 365 + (IF IsLeap(y) THEN 1 ELSE 0)
BY YearBounds

LEMMA YearType == \A y \in Int : YearStart(y) \in Int
BY YearBounds

LEMMA MonthCarry ==
    ASSUME NEW y \in Int, NEW k \in Int
    PROVE  /\ YearAt(y, k) \in Int /\ MonthAt(k) \in 1 .. 12
           /\ MonthAt(k) < 12 =>
                 /\ YearAt(y, k + 1) = YearAt(y, k) /\ MonthAt(k + 1) = MonthAt(k) + 1
                 /\ k \div 12 = YearAt(y, k) - y /\ k % 12 = MonthAt(k)
           /\ MonthAt(k) = 12 =>
                 /\ YearAt(y, k + 1) = YearAt(y, k) + 1 /\ MonthAt(k + 1) = 1
                 /\ k \div 12 = YearAt(y, k) + 1 - y /\ k % 12 = 0
<1> DEFINE a == (k - 1) \div 12
           b == (k - 1) % 12
<1>1. a \in Int /\ b \in 0 .. 11 /\ k = 12 * a + b + 1
  OBVIOUS
<1>2. (k + 1) - 1 = k
  OBVIOUS
<1>3. b < 11 => k \div 12 = a /\ k % 12 = b + 1
  OBVIOUS
<1>4. b = 11 => k \div 12 = a + 1 /\ k % 12 = 0
  OBVIOUS
<1>5. YearAt(y, k) = y + a /\ MonthAt(k) = b + 1 /\ YearAt(y, k + 1) = y + (k \div 12) /\ MonthAt(k + 1) = (k % 12) + 1
  BY <1>2 DEF YearAt, MonthAt
<1> HIDE DEF a, b
<1> QED
  BY <1>1, <1>3, <1>4, <1>5

LEMMA YearOfMonth ==
    ASSUME NEW y \in Int, NEW k \in Int, k >= 1, k - 1 < 12 * (3200 - y)
    PROVE  YearAt(y, k) \in Int /\ y <= YearAt(y, k) /\ YearAt(y, k) < 3200
BY DEF YearAt

(* The next month begins when this one is over. *)
LEMMA FirstStep ==
    ASSUME NEW y \in Int, NEW k \in Int
    PROVE  First(y, k) \in Int /\ First(y, k + 1) = First(y, k) + Length(YearAt(y, k), MonthAt(k))
<1> DEFINE z == YearAt(y, k)
           m == MonthAt(k)
<1>1. /\ z \in Int /\ m \in 1 .. 12
      /\ m < 12 => YearAt(y, k + 1) = z /\ MonthAt(k + 1) = m + 1
      /\ m = 12 => YearAt(y, k + 1) = z + 1 /\ MonthAt(k + 1) = 1
  BY MonthCarry
<1>2. First(y, k) = MonthStart(z, m) /\ First(y, k + 1) = MonthStart(YearAt(y, k + 1), MonthAt(k + 1))
  BY DEF First
<1> HIDE DEF z, m
<1>3. MonthStart(z, m) \in Int
  BY <1>1, MonthType
<1>4. CASE m < 12
  <2>1. m \in 1 .. 11
    BY <1>1, <1>4
  <2> QED
    BY <1>1, <1>2, <1>3, <1>4, <2>1, MonthsOfYear DEF z, m
<1>5. CASE m = 12
  <2>1. z + 1 \in Int /\ Length(z, 12) = 31
    BY <1>1 DEF Length
  <2>2. MonthStart(z + 1, 1) = YearStart(z + 1) /\ YearStart(z + 1) = MonthStart(z, 12) + 31
    BY <1>1, <2>1, MonthsOfYear
  <2> QED
    BY <1>1, <1>2, <1>3, <1>5, <2>1, <2>2 DEF z, m
<1> QED
  BY <1>1, <1>4, <1>5

(* mktime carries a month number into the years. *)
LEMMA DayNumberCarries ==
    ASSUME NEW y \in Int, NEW k \in Int, NEW d \in Int
    PROVE  DayNumber(y, k, d) = First(y, k) + d - 1
BY DEF DayNumber, First, YearAt, MonthAt

(* What addMonths takes for the length of a month is its length. *)
LEMMA MonthLengthIs ==
    ASSUME NEW now, now.year \in Int, now.month \in 1 .. 12, NEW i \in Nat
    PROVE  /\ MonthLength(now, i) \in Nat
           /\ 1970 <= YearAt(now.year, now.month + i) /\ YearAt(now.year, now.month + i) < 3200
                 => MonthLength(now, i) = Length(YearAt(now.year, now.month + i), MonthAt(now.month + i))
<1> DEFINE k == now.month + i
           z == YearAt(now.year, k)
           m == MonthAt(k)
           year == now.year + (k \div 12)
           month == IF k % 12 = 0 THEN 1 ELSE k % 12
<1>1. MonthLength(now, i) = DaysIn(year, month)
  BY DEF MonthLength
<1>2. /\ z \in Int /\ m \in 1 .. 12
      /\ m < 12 => year = z /\ month = m
      /\ m = 12 => month = 1
  <2>1. k \in Int
    OBVIOUS
  <2> HIDE DEF k
  <2>2. /\ z \in Int /\ m \in 1 .. 12
        /\ m < 12 => k \div 12 = z - now.year /\ k % 12 = m
        /\ m = 12 => k % 12 = 0
    BY <2>1, MonthCarry
  <2> HIDE DEF z, m
  <2> QED
    BY <2>2
<1> HIDE DEF year, month, z, m
<1>3. DaysIn(year, month) \in Nat
  BY DEF DaysIn
<1>4. ASSUME 1970 <= z, z < 3200 PROVE DaysIn(year, month) = Length(z, m)
  <2>1. CASE m < 12
    BY <1>2, <1>4, <2>1, SameLengths
  <2>2. CASE m = 12
    BY <1>2, <2>2 DEF DaysIn, Length
  <2> QED
    BY <1>2, <2>1, <2>2
<1> QED
  BY <1>1, <1>3, <1>4 DEF z, m, k

LEMMA MonthLengthsLoop ==
    ASSUME NEW now, now.year \in Int, now.month \in 1 .. 12, NEW n \in Nat
    PROVE  \E days : /\ MonthLengths(now, n) = days[n] /\ days[0] = 0
                     /\ \A i \in 1 .. n : days[i] = days[i - 1] + MonthLength(now, i - 1)
<1> DEFINE step == [i \in 1 .. n |-> [v \in Int |-> v + MonthLength(now, i - 1)]]
           T == Int
           base == 0
<1>1. step \in [1 .. n -> [T -> T]] /\ base \in T
  <2>1. \A i \in 1 .. n : MonthLength(now, i - 1) \in Int
    <3> TAKE i \in 1 .. n
    <3>1. i - 1 \in Nat
      OBVIOUS
    <3> QED
      BY <3>1, MonthLengthIs
  <2> QED
    BY <2>1
<1>2. PICK g \in [0 .. n -> T] : IsRun(g, n, base, step)
  <2> HIDE DEF step, T, base
  <2> QED
    BY <1>1, Loop
<1>3. ASSUME NEW i \in 1 .. n PROVE g[i] = g[i - 1] + MonthLength(now, i - 1)
  <2>1. i - 1 \in 0 .. n
    OBVIOUS
  <2> QED
    BY <1>2, <2>1 DEF IsRun
<1>4. g = [i \in 0 .. n |-> IF i = 0 THEN 0 ELSE g[i - 1] + MonthLength(now, i - 1)]
  BY <1>2, <1>3 DEF IsRun
<1> DEFINE days == CHOOSE days : days = [i \in 0 .. n |-> IF i = 0 THEN 0 ELSE days[i - 1] + MonthLength(now, i - 1)]
<1>5. days = [i \in 0 .. n |-> IF i = 0 THEN 0 ELSE days[i - 1] + MonthLength(now, i - 1)]
  BY <1>4
<1>6. MonthLengths(now, n) = days[n]
  BY DEF MonthLengths
<1> HIDE DEF days, step, T, base
<1>7. 0 \in 0 .. n /\ \A i \in 1 .. n : i \in 0 .. n /\ i # 0
  OBVIOUS
<1>8. days[0] = 0 /\ \A i \in 1 .. n : days[i] = days[i - 1] + MonthLength(now, i - 1)
  BY <1>5, <1>7
<1> QED
  BY <1>6, <1>8

LEMMA MonthLengthsType ==
    ASSUME NEW now, now.year \in Int, now.month \in 1 .. 12, NEW n \in Nat
    PROVE  MonthLengths(now, n) \in Int
<1>1. PICK days : /\ MonthLengths(now, n) = days[n] /\ days[0] = 0
                  /\ \A i \in 1 .. n : days[i] = days[i - 1] + MonthLength(now, i - 1)
  BY MonthLengthsLoop
<1> DEFINE S == {i \in 0 .. n : days[i] \in Int}
<1>2. 0 \in S
  BY <1>1
<1>3. ASSUME NEW i \in 0 .. n - 1, i \in S PROVE i + 1 \in S
  <2>1. i \in Nat /\ i + 1 \in 1 .. n /\ i + 1 \in 0 .. n /\ (i + 1) - 1 = i /\ days[i] \in Int
    BY <1>3
  <2>2. MonthLength(now, i) \in Nat
    BY <2>1, MonthLengthIs
  <2>3. days[i + 1] = days[i] + MonthLength(now, i)
    BY <1>1, <2>1
  <2> QED
    BY <2>1, <2>2, <2>3
<1>4. 0 .. n \subseteq S
  <2> HIDE DEF S
  <2> QED
    BY <1>2, <1>3, CountingUp
<1>5. n \in 0 .. n
  OBVIOUS
<1> QED
  BY <1>1, <1>4, <1>5

(* The months that are counted are the calendar's up to the year 3200, and *)
(* behind it they are counted on.                                          *)
LEMMA MonthsCounted ==
    ASSUME NEW now, NEW y \in Int, NEW m \in 1 .. 12, now.year = y, now.month = m,
           1970 <= y, y < 3200, NEW n \in Nat
    PROVE  /\ MonthLengths(now, n) \in Nat
           /\ \/ MonthLengths(now, n) = First(y, m + n) - First(y, m)
              \/ MonthLengths(now, n) >= YearStart(3200) - First(y, m)
<1> DEFINE bound == 12 * (3200 - y)
           start == First(y, m)
           end == YearStart(3200)
           L == [i \in Nat |-> MonthLength(now, i)]
           F == [i \in Nat |-> First(y, m + i)]
<1>1. PICK days : /\ MonthLengths(now, n) = days[n] /\ days[0] = 0
                  /\ \A i \in 1 .. n : days[i] = days[i - 1] + L[i - 1]
  <2>1. \A i \in 1 .. n : i - 1 \in Nat
    OBVIOUS
  <2>2. now.year \in Int /\ now.month \in 1 .. 12
    OBVIOUS
  <2>3. PICK days : /\ MonthLengths(now, n) = days[n] /\ days[0] = 0
                    /\ \A i \in 1 .. n : days[i] = days[i - 1] + MonthLength(now, i - 1)
    BY <2>2, MonthLengthsLoop
  <2> QED
    BY <2>1, <2>3
<1>2. bound \in Nat /\ bound >= 12 /\ bound = 12 * (3200 - y)
  OBVIOUS
<1>3. start \in Int /\ end \in Int
  <2>1. start \in Int
    BY FirstStep
  <2>2. end \in Int
    BY YearType
  <2> QED
    BY <2>1, <2>2
<1>4. \A i \in Nat : L[i] \in Nat
  BY MonthLengthIs
<1>5. \A i \in Nat : F[i] \in Int
  <2> SUFFICES ASSUME NEW i \in Nat PROVE First(y, m + i) \in Int
    OBVIOUS
  <2> DEFINE k == m + i
  <2>1. k \in Int
    OBVIOUS
  <2> HIDE DEF k
  <2>2. First(y, k) \in Int
    BY <2>1, FirstStep
  <2> QED
    BY <2>2 DEF k
<1> HIDE DEF bound
<1>6. \A i \in Nat : m + i - 1 < bound => F[i + 1] = F[i] + L[i]
  <2> SUFFICES ASSUME NEW i \in Nat, m + i - 1 < bound
               PROVE  First(y, m + (i + 1)) = First(y, m + i) + MonthLength(now, i)
    OBVIOUS
  <2> DEFINE k == m + i
  <2>1. k \in Int /\ k >= 1 /\ k - 1 < bound /\ m + (i + 1) = k + 1
    OBVIOUS
  <2> DEFINE z == YearAt(y, k)
  <2>2. 1970 <= z /\ z < 3200
    <3> HIDE DEF k
    <3> QED
      BY <1>2, <2>1, YearOfMonth
  <2>3. MonthLength(now, i) = Length(z, MonthAt(k))
    BY <2>2, MonthLengthIs
  <2>4. First(y, k + 1) = First(y, k) + Length(z, MonthAt(k))
    <3> HIDE DEF k
    <3> QED
      BY <2>1, FirstStep
  <2> QED
    BY <2>1, <2>3, <2>4
<1>7. \A i \in Nat : m + i - 1 = bound => F[i] = end
  <2> SUFFICES ASSUME NEW i \in Nat, m + i - 1 = bound PROVE First(y, m + i) = end
    OBVIOUS
  <2>1. (m + i) - 1 = 12 * (3200 - y)
    BY <1>2
  <2>2. ((m + i) - 1) \div 12 = 3200 - y /\ ((m + i) - 1) % 12 = 0
    <3> DEFINE b == 3200 - y
    <3>1. b \in Int
      OBVIOUS
    <3> HIDE DEF b
    <3>2. (12 * b) \div 12 = b /\ (12 * b) % 12 = 0
      BY <3>1
    <3> QED
      BY <2>1, <3>2 DEF b
  <2>3. YearAt(y, m + i) = 3200 /\ MonthAt(m + i) = 1
    BY <2>2 DEF YearAt, MonthAt
  <2>4. MonthStart(3200, 1) = YearStart(3200)
    BY MonthsOfYear
  <2> QED
    BY <2>3, <2>4 DEF First
<1>8. F[0] = start /\ F[n] = First(y, m + n)
  <2>1. m + 0 = m
    OBVIOUS
  <2> QED
    BY <2>1
<1> DEFINE S == {i \in 0 .. n :
                   /\ days[i] \in Nat
                   /\ m + i - 1 <= bound => days[i] = F[i] - start
                   /\ m + i - 1 >= bound => days[i] >= end - start}
<1> HIDE DEF start, end, L, F
<1>9. 0 \in S
  <2>1. m + 0 - 1 <= bound /\ ~(m + 0 - 1 >= bound)
    BY <1>2
  <2> QED
    BY <1>1, <1>3, <1>8, <2>1
<1>10. ASSUME NEW i \in 0 .. n - 1, i \in S PROVE i + 1 \in S
  <2>1. i \in Nat /\ i + 1 \in 0 .. n /\ i + 1 \in 1 .. n /\ (i + 1) - 1 = i
    OBVIOUS
  <2>2. /\ days[i] \in Nat
        /\ m + i - 1 <= bound => days[i] = F[i] - start
        /\ m + i - 1 >= bound => days[i] >= end - start
    BY <1>10
  <2>3. days[i + 1] = days[i] + L[i] /\ L[i] \in Nat /\ F[i] \in Int /\ F[i + 1] \in Int
    BY <1>1, <1>4, <1>5, <2>1
  <2>4. days[i + 1] \in Nat
    BY <2>2, <2>3
  <2>5. m + (i + 1) - 1 <= bound => days[i + 1] = F[i + 1] - start
    <3>1. m + (i + 1) - 1 <= bound => m + i - 1 < bound
      BY <1>2
    <3>2. m + i - 1 < bound => m + i - 1 <= bound /\ F[i + 1] = F[i] + L[i]
      BY <1>2, <1>6, <2>1
    <3> QED
      BY <1>3, <2>2, <2>3, <3>1, <3>2
  <2>6. m + (i + 1) - 1 >= bound => days[i + 1] >= end - start
    <3>1. m + (i + 1) - 1 >= bound => m + (i + 1) - 1 = bound \/ m + i - 1 >= bound
      BY <1>2
    <3>2. m + (i + 1) - 1 = bound => m + (i + 1) - 1 <= bound /\ F[i + 1] = end
      BY <1>2, <1>7, <2>1
    <3> QED
      BY <1>3, <2>2, <2>3, <2>4, <2>5, <3>1, <3>2
  <2> QED
    BY <2>1, <2>4, <2>5, <2>6
<1>11. 0 .. n \subseteq S
  <2> HIDE DEF S
  <2> QED
    BY <1>9, <1>10, CountingUp
<1>12. /\ days[n] \in Nat
       /\ m + n - 1 <= bound => days[n] = F[n] - start
       /\ m + n - 1 >= bound => days[n] >= end - start
  <2>1. n \in S
    <3> HIDE DEF S
    <3> QED
      BY <1>11
  <2> QED
    BY <2>1
<1>13. m + n - 1 <= bound \/ m + n - 1 >= bound
  BY <1>2
<1> QED
  BY <1>1, <1>8, <1>12, <1>13 DEF start, end

-----------------------------------------------------------------------------
(* Additions of years.                                                     *)
LEMMA SomeNumbers == ASSUME NEW n \in Nat, NEW A, A \subseteq 0 .. n - 1 PROVE IsFiniteSet(A)
<1>1. 0 \in Int /\ n - 1 \in Int
  OBVIOUS
<1>2. IsFiniteSet(0 .. n - 1)
  BY <1>1, FS_Interval
<1> QED
  BY <1>2, FS_Subset

LEMMA LeapYearsType == ASSUME NEW y, NEW n \in Nat PROVE LeapYears(y, n) \in Nat
<1> DEFINE A == {j \in 0 .. n - 1 : LeapRule(y + j)}
<1>1. A \subseteq 0 .. n - 1 /\ LeapYears(y, n) = Cardinality(A)
  BY DEF LeapYears
<1> HIDE DEF A
<1> QED
  BY <1>1, SomeNumbers, FS_CardinalityType

LEMMA LeapCount ==
    ASSUME NEW y \in Int
    PROVE  \E leaps : \A i \in Nat :
              /\ leaps[i] = LeapYears(y, i) /\ leaps[i] \in Nat
              /\ LeapRule(y + i) => leaps[i + 1] = leaps[i] + 1
              /\ ~LeapRule(y + i) => leaps[i + 1] = leaps[i]
<1> DEFINE leaps == [i \in Nat |-> LeapYears(y, i)]
<1>1. \A i \in Nat :
         /\ leaps[i] \in Nat
         /\ LeapRule(y + i) => leaps[i + 1] = leaps[i] + 1
         /\ ~LeapRule(y + i) => leaps[i + 1] = leaps[i]
  <2> SUFFICES ASSUME NEW i \in Nat
               PROVE  /\ leaps[i] \in Nat
                      /\ LeapRule(y + i) => leaps[i + 1] = leaps[i] + 1
                      /\ ~LeapRule(y + i) => leaps[i + 1] = leaps[i]
    OBVIOUS
  <2> DEFINE A == {j \in 0 .. i - 1 : LeapRule(y + j)}
             B == {j \in 0 .. (i + 1) - 1 : LeapRule(y + j)}
  <2>1. leaps[i] = LeapYears(y, i) /\ leaps[i + 1] = LeapYears(y, i + 1)
    OBVIOUS
  <2>2. LeapYears(y, i) = Cardinality(A) /\ LeapYears(y, i + 1) = Cardinality(B)
    BY DEF LeapYears
  <2>3. IsFiniteSet(A)
    <3>1. A \subseteq 0 .. i - 1
      OBVIOUS
    <3> HIDE DEF A
    <3> QED
      BY <3>1, SomeNumbers
  <2>4. Cardinality(A) \in Nat
    BY <2>3, FS_CardinalityType
  <2>5. i \notin A
    OBVIOUS
  <2>6. CASE LeapRule(y + i)
    <3>1. B = A \cup {i}
      BY <2>6
    <3> HIDE DEF A, B
    <3>2. Cardinality(A \cup {i}) = Cardinality(A) + 1
      BY <2>3, <2>5, FS_AddElement
    <3> QED
      BY <2>2, <2>4, <2>6, <2>1, <3>1, <3>2
  <2>7. CASE ~LeapRule(y + i)
    <3>1. B = A
      BY <2>7
    <3> HIDE DEF A, B
    <3> QED
      BY <2>2, <2>4, <2>7, <2>1, <3>1
  <2> HIDE DEF A, B, leaps
  <2> QED
    BY <2>2, <2>4, <2>6, <2>7, <2>1
<1>2. \A i \in Nat : leaps[i] = LeapYears(y, i)
  OBVIOUS
<1> HIDE DEF leaps
<1> QED
  BY <1>1, <1>2

(* The years that are counted are the calendar's up to the year 3200, and  *)
(* behind it they are counted on.                                          *)
LEMMA YearsCounted ==
    ASSUME NEW y \in Int, y \in Years, NEW n \in Nat
    PROVE  \/ 365 * n + LeapYears(y, n) = YearStart(y + n) - YearStart(y)
           \/ 365 * n + LeapYears(y, n) >= YearStart(3200) - YearStart(y)
<1> DEFINE Y == [i \in Nat |-> YearStart(y + i)]
           end == YearStart(3200)
<1>1. PICK leaps : \A i \in Nat :
               /\ leaps[i] = LeapYears(y, i) /\ leaps[i] \in Nat
               /\ LeapRule(y + i) => leaps[i + 1] = leaps[i] + 1
               /\ ~LeapRule(y + i) => leaps[i + 1] = leaps[i]
  BY LeapCount, Zenon
<1> DEFINE S == {i \in 0 .. n :
                   /\ y + i <= 3200 => 365 * i + leaps[i] = Y[i] - Y[0]
                   /\ y + i >= 3200 => 365 * i + leaps[i] >= end - Y[0]}
<1>2. \A i \in Nat : Y[i] \in Int /\ Y[i + 1] = Y[i] + 365 + (IF IsLeap(y + i) THEN 1 ELSE 0)
  <2> SUFFICES ASSUME NEW i \in Nat
               PROVE  /\ YearStart(y + i) \in Int
                      /\ YearStart(y + (i + 1)) = YearStart(y + i) + 365 + (IF IsLeap(y + i) THEN 1 ELSE 0)
    OBVIOUS
  <2> DEFINE z == y + i
  <2>1. z \in Int /\ y + (i + 1) = z + 1
    OBVIOUS
  <2> HIDE DEF z
  <2>2. YearStart(z) \in Int /\ YearStart(z + 1) = YearStart(z) + 365 + (IF IsLeap(z) THEN 1 ELSE 0)
    BY <2>1, YearGrows
  <2> QED
    BY <2>1, <2>2 DEF z
<1>3. \A i \in Nat : y + i < 3200 => (LeapRule(y + i) <=> IsLeap(y + i))
  <2> SUFFICES ASSUME NEW i \in Nat, y + i < 3200 PROVE LeapRule(y + i) <=> IsLeap(y + i)
    OBVIOUS
  <2>1. 1970 <= y
    BY YearsAre
  <2>2. ~((y + i) % 172800 = 0) /\ ~((y + i) % 3200 = 0)
    BY <2>1
  <2> QED
    BY <2>2 DEF LeapRule, IsLeap
<1>4. \A i \in Nat : y + i = 3200 => Y[i] = end
  OBVIOUS
<1>5. end \in Int /\ Y[n] = YearStart(y + n) /\ Y[0] = YearStart(y) /\ leaps[n] = LeapYears(y, n)
  <2>1. y + 0 = y /\ 0 \in Nat
    OBVIOUS
  <2>2. end \in Int
    BY YearType
  <2> QED
    BY <1>1, <2>1, <2>2
<1>6. leaps[0] = 0
  <2>1. {j \in 0 .. 0 - 1 : LeapRule(y + j)} = {}
    OBVIOUS
  <2> QED
    BY <1>1, <2>1, FS_EmptySet DEF LeapYears
<1> HIDE DEF Y, end
<1>7. 0 \in S
  <2>1. 0 \in Nat /\ 0 \in 0 .. n /\ y + 0 = y
    OBVIOUS
  <2>2. ~(y + 0 >= 3200)
    BY YearsAre
  <2> QED
    BY <1>2, <1>6, <2>1, <2>2
<1>8. ASSUME NEW i \in 0 .. n - 1, i \in S PROVE i + 1 \in S
  <2>1. i \in Nat /\ i + 1 \in 0 .. n /\ i + 1 \in Nat
    OBVIOUS
  <2>2. /\ y + i <= 3200 => 365 * i + leaps[i] = Y[i] - Y[0]
        /\ y + i >= 3200 => 365 * i + leaps[i] >= end - Y[0]
    BY <1>8
  <2> HIDE DEF S
  <2>3. /\ leaps[i] \in Nat /\ leaps[i + 1] \in Nat
        /\ leaps[i] <= leaps[i + 1]
        /\ Y[i] \in Int /\ Y[i + 1] \in Int /\ Y[0] \in Int
    <3>1. leaps[i] \in Nat /\ leaps[i + 1] \in Nat /\ (leaps[i + 1] = leaps[i] + 1 \/ leaps[i + 1] = leaps[i])
      BY <1>1, <2>1
    <3>2. Y[i] \in Int /\ Y[i + 1] \in Int /\ Y[0] \in Int
      <4>1. 0 \in Nat
        OBVIOUS
      <4> QED
        BY <1>2, <2>1, <4>1
    <3>3. leaps[i] <= leaps[i + 1]
      BY <3>1
    <3> QED
      BY <3>1, <3>2, <3>3
  <2>4. y + i < 3200 => leaps[i + 1] - leaps[i] = Y[i + 1] - Y[i] - 365
    BY <1>1, <1>2, <1>3, <2>1
  <2>5. y + (i + 1) <= 3200 => 365 * (i + 1) + leaps[i + 1] = Y[i + 1] - Y[0]
    <3> SUFFICES ASSUME y + (i + 1) <= 3200 PROVE 365 * (i + 1) + leaps[i + 1] = Y[i + 1] - Y[0]
      OBVIOUS
    <3>1. y + i <= 3200 /\ y + i < 3200
      BY <2>1
    <3>2. 365 * i + leaps[i] = Y[i] - Y[0] /\ leaps[i + 1] - leaps[i] = Y[i + 1] - Y[i] - 365
      BY <2>2, <2>4, <3>1
    <3>3. 365 * (i + 1) = 365 * i + 365
      BY <2>1
    <3> QED
      <4> DEFINE a == Y[i]
                 b == Y[i + 1]
                 c == Y[0]
                 d == leaps[i]
                 e == leaps[i + 1]
      <4>1. a \in Int /\ b \in Int /\ c \in Int /\ d \in Int /\ e \in Int
        BY <2>3
      <4>2. 365 * i + d = a - c /\ e - d = b - a - 365
        BY <3>2
      <4> HIDE DEF a, b, c, d, e
      <4>3. 365 * (i + 1) + e = b - c
        BY <2>1, <4>1, <4>2, <3>3
      <4> QED
        BY <4>3 DEF b, c, e
  <2>6. y + (i + 1) >= 3200 => 365 * (i + 1) + leaps[i + 1] >= end - Y[0]
    <3>1. CASE y + (i + 1) = 3200
      BY <1>4, <1>5, <2>1, <2>3, <2>5, <3>1
    <3>2. CASE y + i >= 3200
      BY <1>5, <2>1, <2>2, <2>3, <3>2
    <3> QED
      BY <3>1, <3>2
  <2> QED
    BY <2>1, <2>5, <2>6 DEF S
<1>9. 0 .. n \subseteq S
  <2> HIDE DEF S
  <2> QED
    BY <1>7, <1>8, CountingUp
<1>10. n \in S
  <2> HIDE DEF S
  <2> QED
    BY <1>9
<1>11. leaps[n] \in Nat
  BY <1>1
<1>12. y + n <= 3200 \/ y + n >= 3200
  OBVIOUS
<1> QED
  BY <1>5, <1>10, <1>11, <1>12 DEF end

-----------------------------------------------------------------------------
(* The time of day is one, whatever is added.                              *)
TimeInv == m_time \in [day : Int, second : 0 .. SecondsPerDay - 1]

LEMMA DayLength == SecondsPerDay \in Nat /\ SecondsPerDay > 0
BY DEF SecondsPerDay

LEMMA TimeIs ==
    TimeInv => /\ m_time = [day |-> m_time.day, second |-> m_time.second]
               /\ m_time.day \in Int /\ m_time.second \in 0 .. SecondsPerDay - 1
BY DEF TimeInv

LEMMA AdvanceBy ==
    ASSUME TimeInv, NEW n \in Int, Advance(n)
    PROVE  TimeInv'
<1> DEFINE s == m_time.second + n
<1>1. m_time.day \in Int /\ s \in Int
  BY TimeIs, DayLength
<1>2. m_time' = [day |-> m_time.day + (s \div SecondsPerDay), second |-> s % SecondsPerDay]
  BY DEF Advance, MoveTo
<1> HIDE DEF s
<1>3. s \div SecondsPerDay \in Int /\ s % SecondsPerDay \in 0 .. SecondsPerDay - 1
  BY <1>1, DayLength
<1> QED
  BY <1>1, <1>2, <1>3 DEF TimeInv

LEMMA WholeDays ==
    ASSUME NEW N \in Nat, N > 0, NEW t \in 0 .. N - 1, NEW k \in Int
    PROVE  (t + k * N) \div N = k /\ (t + k * N) % N = t
OBVIOUS

(* Whole days move the day alone. *)
LEMMA AdvanceDays ==
    ASSUME TimeInv, NEW k \in Int, Advance(k * SecondsPerDay)
    PROVE  m_time' = [day |-> m_time.day + k, second |-> m_time.second]
<1> DEFINE t == m_time.second
           s == t + k * SecondsPerDay
<1>1. t \in 0 .. SecondsPerDay - 1
  BY TimeIs
<1>2. m_time' = [day |-> m_time.day + (s \div SecondsPerDay), second |-> s % SecondsPerDay]
  BY DEF Advance, MoveTo
<1> HIDE DEF t
<1>3. s \div SecondsPerDay = k /\ s % SecondsPerDay = t
  BY <1>1, DayLength, WholeDays
<1> QED
  BY <1>2, <1>3 DEF t

(* A day of the calendar has a year of it, and a place in its month. *)
LEMMA TodayIs ==
    ASSUME m_time.day \in Int
    PROVE  \E y \in Int, m \in 1 .. 12, d \in Int :
              /\ Today = [year |-> y, month |-> m, day |-> d]
              /\ m_time.day = First(y, m) + d - 1 /\ d >= 1
              /\ First(y, m) = MonthStart(y, m)
              /\ InCalendar => y \in Years
<1> DEFINE N == m_time.day
<1>1. N \in Int
  OBVIOUS
<1> HIDE DEF N
<1>2. PICK y \in Int, m \in 1 .. 12 :
         /\ InMonth(N, y, m)
         /\ YearStart(y) <= N /\ N < YearStart(y + 1)
         /\ Civil(N) = [year |-> y, month |-> m, day |-> N - MonthStart(y, m) + 1]
  BY <1>1, DayHasDate
<1> DEFINE d == N - MonthStart(y, m) + 1
<1>3. MonthStart(y, m) \in Int
  BY MonthType
<1>4. First(y, m) = MonthStart(y, m)
  <2>1. (m - 1) \div 12 = 0 /\ (m - 1) % 12 = m - 1 /\ y + 0 = y /\ (m - 1) + 1 = m
    OBVIOUS
  <2> QED
    BY <2>1 DEF First, YearAt, MonthAt
<1>5. InCalendar => y \in Years
  <2> SUFFICES ASSUME InCalendar PROVE y \in Years
    OBVIOUS
  <2>1. /\ YearStart(y) \in Int /\ YearStart(y + 1) \in Int
        /\ YearStart(1970) \in Int /\ YearStart(3200) \in Int
    <3>1. y + 1 \in Int /\ 1970 \in Int /\ 3200 \in Int
      OBVIOUS
    <3> QED
      BY <3>1, YearType
  <2>2. YearStart(1970) <= N /\ N < YearStart(3200)
    BY <2>1 DEF InCalendar, N
  <2>3. ~(y < 1970)
    BY <1>1, <1>2, <2>1, <2>2, YearsInOrder
  <2>4. ~(3200 < y)
    <3>1. 3200 < y => YearStart(3200 + 1) <= YearStart(y) /\ YearStart(3200) <= YearStart(3200 + 1)
                      /\ YearStart(3200 + 1) \in Int
      <4>1. 3200 \in Int
        OBVIOUS
      <4>2. YearStart(3200) <= YearStart(3200 + 1)
        BY <4>1, YearGrows
      <4> QED
        BY <4>1, <4>2, YearsInOrder, YearType
    <3> QED
      BY <1>1, <1>2, <2>1, <2>2, <3>1
  <2>5. y # 3200
    BY <1>1, <1>2, <2>1, <2>2
  <2> QED
    BY <2>3, <2>4, <2>5, YearsAre
<1>6. d \in Int /\ d >= 1 /\ m_time.day = First(y, m) + d - 1
  <2>1. d \in Int /\ d >= 1 /\ N = First(y, m) + d - 1
    BY <1>1, <1>2, <1>3, <1>4 DEF InMonth
  <2> HIDE DEF d
  <2> QED
    BY <2>1 DEF N
<1>7. Today = [year |-> y, month |-> m, day |-> d]
  BY <1>2 DEF Today, N
<1> HIDE DEF d
<1>8. d \in Int
  BY <1>6
<1>9. /\ Today = [year |-> y, month |-> m, day |-> d]
      /\ m_time.day = First(y, m) + d - 1 /\ d >= 1
      /\ First(y, m) = MonthStart(y, m)
      /\ InCalendar => y \in Years
  BY <1>4, <1>5, <1>6, <1>7
<1> QED
  BY <1>8, <1>9, Zenon

-----------------------------------------------------------------------------
(* Every time reached is a day and a second of it.                         *)
LEMMA DayNumberType ==
    ASSUME NEW y \in Int, NEW k \in Int, NEW d \in Int
    PROVE  DayNumber(y, k, d) \in Int
<1>1. First(y, k) \in Int
  BY FirstStep
<1> QED
  BY <1>1, DayNumberCarries

LEMMA Inputs ==
    /\ \A c \in Clocks : c \in [year : Years, month : Int, day : Int]
    /\ \A s \in Daytimes : s \in 0 .. SecondsPerDay - 1
    /\ \A unit \in Units : \A n \in Amounts[unit] : n \in Nat
BY TaiAssumption, Zenon

LEMMA SetFromType == ASSUME NEW c \in Clocks, SetFrom(c) PROVE TimeInv'
<1>1. PICK s \in Daytimes : m_time' = [day |-> DayNumber(c.year, c.month, c.day), second |-> s]
  BY DEF SetFrom
<1>2. c.year \in Int /\ c.month \in Int /\ c.day \in Int
  <2>1. c \in [year : Years, month : Int, day : Int]
    BY Inputs, Zenon
  <2>2. Years \subseteq Int
    BY DEF Years
  <2> QED
    BY <2>1, <2>2
<1>3. s \in 0 .. SecondsPerDay - 1
  BY Inputs, Zenon
<1>4. DayNumber(c.year, c.month, c.day) \in Int
  BY <1>2, DayNumberType
<1> QED
  BY <1>1, <1>3, <1>4 DEF TimeInv

(* What addYears and addMonths count are days. *)
LEMMA CountsDays ==
    ASSUME TimeInv, NEW n \in Nat
    PROVE  /\ MonthLengths(Today, n) \in Int
           /\ LeapYears(Today.year, n) \in Nat
<1>1. m_time.day \in Int
  BY TimeIs
<1>2. PICK y \in Int, m \in 1 .. 12, d \in Int : Today = [year |-> y, month |-> m, day |-> d]
  BY <1>1, TodayIs
<1>3. MonthLengths(Today, n) \in Int
  BY <1>2, MonthLengthsType
<1>4. LeapYears(y, n) \in Nat
  BY LeapYearsType
<1> QED
  BY <1>2, <1>3, <1>4

LEMMA TimeStep == TimeInv /\ ClockInv /\ [Next]_vars => TimeInv'
<1> SUFFICES ASSUME TimeInv, ClockInv, [Next]_vars PROVE TimeInv'
  OBVIOUS
<1>1. CASE Construct
  BY <1>1, SetFromType DEF Construct, ClockInv
<1>2. CASE Convert
  <2>1. CASE Accepts(clock)
    BY <1>2, <2>1, SetFromType DEF Convert, ClockInv
  <2>2. CASE ~Accepts(clock)
    BY <1>2, <2>2 DEF Convert, TimeInv
  <2> QED
    BY <2>1, <2>2
<1>3. ASSUME NEW n \in Amounts["years"], addYears(n) PROVE TimeInv'
  <2>1. n \in Nat
    BY Inputs, Zenon DEF Units
  <2> DEFINE leaps == LeapYears(Today.year, n)
             days == 365 * n + (IF Today.month <= 2 \/ leaps = 0 THEN leaps ELSE leaps - 1)
  <2>2. leaps \in Nat
    BY <2>1, CountsDays
  <2>3. Advance(days * SecondsPerDay)
    BY <1>3 DEF addYears
  <2> HIDE DEF leaps
  <2>4. days \in Int
    BY <2>1, <2>2
  <2> HIDE DEF days
  <2>5. days * SecondsPerDay \in Int
    BY <2>4, DayLength
  <2> QED
    BY <2>3, <2>5, AdvanceBy
<1>4. ASSUME NEW n \in Amounts["months"], addMonths(n) PROVE TimeInv'
  <2>1. n \in Nat
    BY Inputs, Zenon DEF Units
  <2> DEFINE days == MonthLengths(Today, n)
  <2>2. days \in Int
    BY <2>1, CountsDays
  <2>3. Advance(days * SecondsPerDay)
    BY <1>4 DEF addMonths
  <2> HIDE DEF days
  <2>5. days * SecondsPerDay \in Int
    BY <2>2, DayLength
  <2> QED
    BY <2>3, <2>5, AdvanceBy
<1>5. ASSUME NEW unit \in Units, NEW n \in Amounts[unit],
             addWeeks(n) \/ addDays(n) \/ addHours(n) \/ addMinutes(n) \/ addSeconds(n)
      PROVE  TimeInv'
  <2>1. n \in Nat
    BY Inputs, Zenon
  <2>2. n * 7 * 24 * 3600 \in Int /\ n * 24 * 3600 \in Int /\ n * 3600 \in Int /\ n * 60 \in Int
    BY <2>1
  <2>3. \E k \in Int : Advance(k)
    BY <1>5, <2>1, <2>2 DEF addWeeks, addDays, addHours, addMinutes, addSeconds
  <2> QED
    BY <2>3, AdvanceBy
<1>6. CASE next_rotation_tp
  <2>1. m_time'.day = DayNumber(Today.year, Today.month, 1) + DaysIn(Today.year, Today.month)
        /\ m_time' = [day |-> m_time'.day, second |-> 0]
    BY <1>6 DEF next_rotation_tp, MoveTo
  <2>2. m_time.day \in Int
    BY TimeIs
  <2>3. PICK y \in Int, m \in 1 .. 12, d \in Int : Today = [year |-> y, month |-> m, day |-> d]
    BY <2>2, TodayIs
  <2>4. DayNumber(y, m, 1) \in Int /\ DaysIn(y, m) \in Int
    <3>1. m \in Int /\ 1 \in Int
      OBVIOUS
    <3>2. DayNumber(y, m, 1) \in Int
      BY <3>1, DayNumberType
    <3>3. DaysIn(y, m) \in Int
      BY DEF DaysIn
    <3> QED
      BY <3>2, <3>3
  <2>5. m_time'.day \in Int
    BY <2>1, <2>3, <2>4
  <2>6. 0 \in 0 .. SecondsPerDay - 1
    BY DayLength
  <2> QED
    BY <2>1, <2>5, <2>6 DEF TimeInv
<1>7. CASE UNCHANGED vars
  BY <1>7 DEF TimeInv, vars
<1>8. "weeks" \in Units /\ "days" \in Units /\ "hours" \in Units /\ "minutes" \in Units /\ "seconds" \in Units
  BY DEF Units
<1> QED
  BY <1>1, <1>2, <1>3, <1>4, <1>5, <1>6, <1>7, <1>8 DEF Next

LEMMA TimeInit == Init => TimeInv
<1>1. 0 \in 0 .. SecondsPerDay - 1
  BY DayLength
<1> QED
  BY <1>1 DEF Init, TimeInv

LEMMA TimeAlways == Spec => []TimeInv
<1>1. Init => ClockInv
  BY DEF Init, ClockInv
<1> QED
  BY <1>1, TimeInit, TimeStep, ClockStep, PTL DEF Spec

(* A time moved by as many days as lie between two firsts of a month is at *)
(* the same place of its month, unless the year 3200 has begun.            *)
LEMMA SamePlace ==
    ASSUME TimeInv, InCalendar', NEW y \in Int, NEW m \in Int, NEW d \in Int, NEW k \in Int, d >= 1,
           Today = [year |-> y, month |-> m, day |-> d], m_time.day = First(y, m) + d - 1,
           NEW days \in Int, Advance(days * SecondsPerDay),
           days = First(y, m + k) - First(y, m) \/ days >= YearStart(3200) - First(y, m)
    PROVE  m_time' = MonthsOn(k)
<1>1. m_time' = [day |-> m_time.day + days, second |-> m_time.second]
  BY AdvanceDays
<1>2. First(y, m) \in Int /\ First(y, m + k) \in Int
  <2>1. m + k \in Int
    OBVIOUS
  <2> QED
    BY <2>1, FirstStep
<1>3. 3200 \in Int /\ 1970 \in Int
  OBVIOUS
<1>4. YearStart(3200) \in Int /\ YearStart(1970) \in Int
  BY <1>3, YearType
<1>5. m_time.day + days < YearStart(3200)
  <2>1. m_time'.day \in YearStart(1970) .. YearStart(3200) - 1
    BY DEF InCalendar
  <2> QED
    BY <1>1, <1>4, <2>1
<1>6. m_time.day + days = First(y, m + k) + d - 1
  BY <1>2, <1>4, <1>5
<1> QED
  <2>1. m + k \in Int
    OBVIOUS
  <2>2. DayNumber(y, m + k, d) = First(y, m + k) + d - 1
    BY <2>1, DayNumberCarries
  <2>3. Today.year = y /\ Today.month = m /\ Today.day = d
    OBVIOUS
  <2>4. MonthsOn(k) = [day |-> First(y, m + k) + d - 1, second |-> m_time.second]
    BY <2>2, <2>3 DEF MonthsOn
  <2> QED
    BY <1>1, <1>6, <2>4

(* tai.cpp:72-104: while the clock stays in the years 1970 to 3199, the    *)
(* loop of addMonths moves it to the same day of the month and time of     *)
(* day, for every time and every number of months.                         *)
THEOREM MonthsAdded == Spec /\ []InCalendar => MonthsExact
<1>1. TimeInv /\ InCalendar /\ InCalendar'
         => \A n \in Amounts["months"] : addMonths(n) => m_time' = MonthsOn(n)
  <2> SUFFICES ASSUME TimeInv, InCalendar, InCalendar', NEW n \in Amounts["months"], addMonths(n)
               PROVE  m_time' = MonthsOn(n)
    OBVIOUS
  <2>1. n \in Nat /\ n \in Int
    BY Inputs DEF Units
  <2>2. PICK y \in Int, m \in 1 .. 12, d \in Int :
           /\ Today = [year |-> y, month |-> m, day |-> d]
           /\ m_time.day = First(y, m) + d - 1 /\ d >= 1
           /\ 1970 <= y /\ y < 3200
    BY TimeIs, TodayIs, YearsAre
  <2> DEFINE days == MonthLengths(Today, n)
  <2>3. /\ days \in Nat
        /\ days = First(y, m + n) - First(y, m) \/ days >= YearStart(3200) - First(y, m)
    <3>1. Today.year = y /\ Today.month = m
      BY <2>2
    <3> QED
      BY <2>1, <2>2, <3>1, MonthsCounted
  <2>4. Advance(days * SecondsPerDay)
    BY DEF addMonths
  <2> HIDE DEF days
  <2>5. m \in Int /\ days \in Int
    BY <2>3
  <2> QED
    BY <2>1, <2>2, <2>3, <2>4, <2>5, SamePlace
<1> QED
  BY <1>1, TimeAlways, PTL DEF MonthsExact

(* tai.cpp:39-70: the same for addYears in January and February.           *)
THEOREM YearsAddedEarly == Spec /\ []InCalendar => YearsExactEarly
<1>1. TimeInv /\ InCalendar /\ InCalendar'
         => \A n \in Amounts["years"] : addYears(n) /\ Today.month <= 2 => m_time' = MonthsOn(12 * n)
  <2> SUFFICES ASSUME TimeInv, InCalendar, InCalendar', NEW n \in Amounts["years"], addYears(n),
                      Today.month <= 2
               PROVE  m_time' = MonthsOn(12 * n)
    OBVIOUS
  <2>1. n \in Nat /\ 12 * n \in Int
    BY Inputs DEF Units
  <2>2. PICK y \in Int, m \in 1 .. 12, d \in Int :
           /\ Today = [year |-> y, month |-> m, day |-> d]
           /\ m_time.day = First(y, m) + d - 1 /\ d >= 1
           /\ First(y, m) = MonthStart(y, m)
           /\ 1970 <= y /\ y < 3200
    BY TimeIs, TodayIs, YearsAre
  <2> DEFINE days == 365 * n + LeapYears(y, n)
  <2>3. /\ days \in Nat
        /\ days = YearStart(y + n) - YearStart(y) \/ days >= YearStart(3200) - YearStart(y)
    <3>1. LeapYears(y, n) \in Nat
      BY <2>1, LeapYearsType
    <3>2. \/ 365 * n + LeapYears(y, n) = YearStart(y + n) - YearStart(y)
          \/ 365 * n + LeapYears(y, n) >= YearStart(3200) - YearStart(y)
      <4>1. y \in Years
        BY <2>2, YearsAre
      <4> QED
        BY <2>1, <4>1, YearsCounted
    <3> QED
      BY <2>1, <3>1, <3>2
  <2>4. Advance(days * SecondsPerDay)
    <3>1. Today.year = y /\ Today.month = m
      BY <2>2
    <3> QED
      BY <3>1 DEF addYears
  <2> HIDE DEF days
  <2>5. /\ m \in 1 .. 2 /\ m \in Int
    BY <2>2
  <2>6. MonthStart(y, m) = YearStart(y) + MonthOffset[m] /\ MonthStart(y + n, m) = YearStart(y + n) + MonthOffset[m]
        /\ MonthOffset[m] \in Nat
    <3>1. \A z : MonthStart(z, m) = YearStart(z) + MonthOffset[m] + 0
      BY <2>5 DEF MonthStart
    <3>2. MonthOffset[m] \in Nat
      BY <2>5 DEF MonthOffset
    <3>3. YearStart(y) \in Int /\ YearStart(y + n) \in Int
      <4>1. y + n \in Int
        BY <2>1
      <4> QED
        BY <4>1, YearType
    <3>4. MonthStart(y, m) = YearStart(y) + MonthOffset[m] + 0
          /\ MonthStart(y + n, m) = YearStart(y + n) + MonthOffset[m] + 0
      BY <3>1
    <3> QED
      BY <3>2, <3>3, <3>4
  <2>7. First(y, m + 12 * n) = MonthStart(y + n, m)
    <3>1. ((m + 12 * n) - 1) \div 12 = n /\ ((m + 12 * n) - 1) % 12 = m - 1
      BY <2>1, <2>5
    <3> QED
      BY <2>5, <3>1 DEF First, YearAt, MonthAt
  <2>8. YearStart(y) \in Int /\ YearStart(y + n) \in Int /\ YearStart(3200) \in Int
    <3>1. y + n \in Int /\ 3200 \in Int
      BY <2>1
    <3> QED
      BY <3>1, YearType
  <2>9. days = First(y, m + 12 * n) - First(y, m) \/ days >= YearStart(3200) - First(y, m)
    BY <2>2, <2>3, <2>6, <2>7, <2>8
  <2>10. days \in Int
    BY <2>3
  <2> QED
    BY <2>1, <2>2, <2>4, <2>5, <2>9, <2>10, SamePlace
<1> QED
  BY <1>1, TimeAlways, PTL DEF YearsExactEarly

-----------------------------------------------------------------------------
(* sscanf.                                                                 *)
Places == {"blanks", "sign", "number", "stopped"}
Scans == [done : Seq(Int), at : Places, sign : Int, value : Int]

(* f has the state of sscanf after each character. *)
IsScan(f, text) ==
    /\ f \in [0 .. Len(text) -> Scans]
    /\ f[0] = Before(<<>>)
    /\ \A k \in 1 .. Len(text) : f[k] = Scan(f[k - 1], text[k])
    /\ Scanned(text) = f[Len(text)]

LEMMA BeforeType == ASSUME NEW done \in Seq(Int) PROVE Before(done) \in Scans
BY DEF Before, Scans, Places

LEMMA BeginType == ASSUME NEW s \in Scans, NEW ch PROVE Begin(s, ch) \in Scans
<1>1. CASE s.at = "blanks" /\ ch = Blank
  BY <1>1 DEF Begin
<1>2. CASE s.at = "blanks" /\ ch = Dash /\ ch # Blank
  <2>1. Begin(s, ch) = [s EXCEPT !.at = "sign", !.sign = -1] /\ -1 \in Int
    BY <1>2 DEF Begin
  <2> QED
    BY <2>1 DEF Scans, Places
<1>3. CASE ~(s.at = "blanks" /\ ch \in {Blank, Dash}) /\ ch \in 0 .. 9
  <2>1. Begin(s, ch) = [s EXCEPT !.at = "number", !.value = ch]
    BY <1>3 DEF Begin
  <2>2. ch \in Int
    BY <1>3
  <2> QED
    BY <2>1, <2>2 DEF Scans, Places
<1>4. CASE ~(s.at = "blanks" /\ ch \in {Blank, Dash}) /\ ch \notin 0 .. 9
  BY <1>4 DEF Begin, Scans, Places
<1> QED
  BY <1>1, <1>2, <1>3, <1>4

LEMMA ScanType ==
    ASSUME NEW s \in Scans, NEW ch
    PROVE  Scan(s, ch) \in Scans
<1>1. CASE s.at = "stopped"
  BY <1>1 DEF Scan
<1>2. CASE s.at # "stopped" /\ s.at # "number"
  BY <1>2, BeginType DEF Scan
<1>3. CASE s.at = "number" /\ ch \in 0 .. 9
  BY <1>3 DEF Scan, Scans
<1>4. CASE s.at = "number" /\ ch \notin 0 .. 9
  <2> DEFINE b == Before(Append(s.done, s.sign * s.value))
  <2>1. b \in Scans
    <3>1. s.sign * s.value \in Int /\ s.done \in Seq(Int)
      BY DEF Scans
    <3>2. Append(s.done, s.sign * s.value) \in Seq(Int)
      BY <3>1
    <3> QED
      BY <3>2, BeforeType
  <2>2. Scan(s, ch) = Separate(b, ch)
    BY <1>4 DEF Scan
  <2> HIDE DEF b
  <2>3. [b EXCEPT !.at = "stopped"] \in Scans
    BY <2>1 DEF Scans, Places
  <2> QED
    BY <2>1, <2>2, <2>3, BeginType DEF Separate
<1> QED
  BY <1>1, <1>2, <1>3, <1>4

LEMMA ScannedIs ==
    ASSUME NEW text \in Seq(Chars)
    PROVE  \E f : IsScan(f, text)
<1> DEFINE n == Len(text)
           base == Before(<<>>)
           step == [k \in 1 .. n |-> [s \in Scans |-> Scan(s, text[k])]]
           body(f) == [k \in 0 .. n |-> IF k = 0 THEN base ELSE Scan(f[k - 1], text[k])]
<1>1. n \in Nat /\ base \in Scans /\ step \in [1 .. n -> [Scans -> Scans]]
  <2>1. base \in Scans
    <3>1. <<>> \in Seq(Int)
      OBVIOUS
    <3> QED
      BY <3>1, BeforeType
  <2>2. \A k \in 1 .. n : [s \in Scans |-> Scan(s, text[k])] \in [Scans -> Scans]
    BY ScanType
  <2>3. step \in [1 .. n -> [Scans -> Scans]]
    BY <2>2
  <2> QED
    BY <2>1, <2>3
<1>2. PICK g \in [0 .. n -> Scans] : IsRun(g, n, base, step)
  <2> HIDE DEF n, base, step
  <2> QED
    BY <1>1, Loop
<1>3. \A k \in 1 .. n : g[k] = Scan(g[k - 1], text[k])
  <2> TAKE k \in 1 .. n
  <2>1. k - 1 \in 0 .. n /\ g[k - 1] \in Scans
    BY <1>1
  <2> QED
    BY <1>2, <2>1 DEF IsRun
<1>4. g[0] = base
  BY <1>2 DEF IsRun
<1>5. g = body(g)
  BY <1>3, <1>4
<1> DEFINE f == CHOOSE f : f = body(f)
<1>6. f = body(f)
  BY <1>5
<1>7. Scanned(text) = f[n]
  BY DEF Scanned
<1> HIDE DEF f
<1>8. f = g
  <2>1. ASSUME NEW k \in 0 .. n, f[k] = g[k], k + 1 \in 0 .. n PROVE f[k + 1] = g[k + 1]
    <3>1. f[k + 1] = Scan(f[k], text[k + 1])
      BY <1>6, <2>1
    <3>2. g[k + 1] = Scan(g[k], text[k + 1])
      BY <1>3, <2>1
    <3> QED
      BY <2>1, <3>1, <3>2
  <2> DEFINE S == {k \in 0 .. n : f[k] = g[k]}
  <2>2. 0 \in S
    BY <1>1, <1>4, <1>6
  <2>3. \A k \in 0 .. n - 1 : k \in S => k + 1 \in S
    BY <2>1
  <2>4. 0 .. n \subseteq S
    <3> HIDE DEF S, n
    <3> QED
      BY <1>1, <2>2, <2>3, CountingUp
  <2>5. DOMAIN f = 0 .. n /\ f = [k \in 0 .. n |-> f[k]]
    BY <1>6
  <2> QED
    BY <2>4, <2>5
<1> QED
  BY <1>2, <1>3, <1>4, <1>7, <1>8 DEF IsScan

(* What was read of a text is read when more characters follow. *)
LEMMA SameBeginning ==
    ASSUME NEW t \in Seq(Chars), NEW u \in Seq(Chars), Len(t) <= Len(u),
           \A i \in 1 .. Len(t) : t[i] = u[i],
           NEW f, IsScan(f, t), NEW g, IsScan(g, u)
    PROVE  f[Len(t)] = g[Len(t)]
<1> DEFINE S == {k \in 0 .. Len(t) : f[k] = g[k]}
<1>1. 0 \in S
  BY DEF IsScan
<1>2. ASSUME NEW k \in 0 .. Len(t) - 1, k \in S PROVE k + 1 \in S
  <2>1. k + 1 \in 1 .. Len(t) /\ k + 1 \in 1 .. Len(u) /\ (k + 1) - 1 = k /\ k + 1 \in 0 .. Len(t)
    OBVIOUS
  <2>2. f[k + 1] = Scan(f[k], t[k + 1]) /\ g[k + 1] = Scan(g[k], u[k + 1])
    BY <2>1 DEF IsScan
  <2> QED
    BY <1>2, <2>1, <2>2
<1>3. 0 .. Len(t) \subseteq S
  <2>1. Len(t) \in Nat
    OBVIOUS
  <2> HIDE DEF S
  <2> QED
    BY <1>1, <1>2, <2>1, CountingUp
<1> QED
  BY <1>3

HasNumber(s) == s.done # <<>> \/ s.at = "number"

LEMMA NumeralsExist == ASSUME NEW s \in Scans PROVE Numerals(s) # <<>> <=> HasNumber(s)
<1>1. s.done \in Seq(Int) /\ s.sign * s.value \in Int
  BY DEF Scans
<1>2. Append(s.done, s.sign * s.value) # <<>>
  BY <1>1
<1> QED
  BY <1>2 DEF Numerals, HasNumber

LEMMA BeginKeeps == ASSUME NEW s \in Scans, NEW ch PROVE Begin(s, ch).done = s.done
BY DEF Begin, Scans

LEMMA KeepsNumber ==
    ASSUME NEW s \in Scans, NEW ch, HasNumber(s)
    PROVE  HasNumber(Scan(s, ch))
<1>1. CASE s.at = "stopped"
  BY <1>1 DEF Scan
<1>2. CASE s.at # "stopped" /\ s.at # "number"
  BY <1>2, BeginKeeps DEF Scan, HasNumber
<1>3. CASE s.at = "number" /\ ch \in 0 .. 9
  BY <1>3 DEF Scan, Scans, HasNumber
<1>4. CASE s.at = "number" /\ ch \notin 0 .. 9
  <2> DEFINE b == Before(Append(s.done, s.sign * s.value))
  <2>1. b \in Scans /\ b.done # <<>>
    <3>1. s.sign * s.value \in Int /\ s.done \in Seq(Int)
      BY DEF Scans
    <3>2. Append(s.done, s.sign * s.value) \in Seq(Int) /\ Append(s.done, s.sign * s.value) # <<>>
      BY <3>1
    <3> QED
      BY <3>2, BeforeType DEF Before
  <2>2. Scan(s, ch) = Separate(b, ch)
    BY <1>4 DEF Scan
  <2> HIDE DEF b
  <2>3. [b EXCEPT !.at = "stopped"].done = b.done
    BY <2>1 DEF Scans
  <2> QED
    BY <2>1, <2>2, <2>3, BeginKeeps DEF Separate, HasNumber
<1> QED
  BY <1>1, <1>2, <1>3, <1>4

(* A text that starts with a number does so whatever follows it. *)
LEMMA StartsWithNumber ==
    ASSUME NEW t \in Seq(Chars), NEW u \in Seq(Chars), Len(t) <= Len(u),
           \A i \in 1 .. Len(t) : t[i] = u[i], sscanf(t) # <<>>
    PROVE  sscanf(u) # <<>>
<1>1. PICK f : IsScan(f, t)
  BY ScannedIs
<1>2. PICK g : IsScan(g, u)
  BY ScannedIs
<1>3. f[Len(t)] = g[Len(t)]
  BY <1>1, <1>2, SameBeginning
<1> DEFINE S == {k \in 0 .. Len(u) : k >= Len(t) => HasNumber(g[k])}
<1>4. f[Len(t)] \in Scans /\ \A k \in 0 .. Len(u) : g[k] \in Scans
  <2>1. Len(t) \in 0 .. Len(t)
    OBVIOUS
  <2> QED
    BY <1>1, <1>2, <2>1 DEF IsScan
<1>5. HasNumber(g[Len(t)])
  BY <1>1, <1>3, <1>4, NumeralsExist DEF sscanf, IsScan
<1>6. 0 \in S
  BY <1>5
<1>7. ASSUME NEW k \in 0 .. Len(u) - 1, k \in S PROVE k + 1 \in S
  <2>1. k + 1 \in 1 .. Len(u) /\ (k + 1) - 1 = k /\ k + 1 \in 0 .. Len(u) /\ k \in 0 .. Len(u)
    OBVIOUS
  <2>2. CASE k + 1 = Len(t) \/ k + 1 < Len(t)
    BY <1>5, <2>1, <2>2
  <2>3. CASE k >= Len(t)
    <3>1. g[k + 1] = Scan(g[k], u[k + 1])
      BY <1>2, <2>1 DEF IsScan
    <3>2. HasNumber(g[k]) /\ g[k] \in Scans
      BY <1>4, <1>7, <2>1, <2>3
    <3>3. HasNumber(g[k + 1])
      BY <3>1, <3>2, KeepsNumber
    <3> QED
      BY <2>1, <3>3
  <2> QED
    BY <2>2, <2>3
<1>8. 0 .. Len(u) \subseteq S
  <2>1. Len(u) \in Nat
    OBVIOUS
  <2> HIDE DEF S
  <2> QED
    BY <1>6, <1>7, <2>1, CountingUp
<1>9. HasNumber(g[Len(u)]) /\ g[Len(u)] \in Scans
  BY <1>4, <1>8
<1> QED
  BY <1>2, <1>9, NumeralsExist DEF sscanf, IsScan

-----------------------------------------------------------------------------
(* What strftime writes is read back.                                      *)
Reads(done, at, value) == [done |-> done, at |-> at, sign |-> 1, value |-> value]

LEMMA NotDigits == \A ch \in 0 .. 9 : ch # Dash /\ ch # Blank /\ ch # Colon /\ ch \in Int
BY ConverAssumption

LEMMA FirstDigit ==
    ASSUME NEW done, NEW ch \in 0 .. 9
    PROVE  Scan(Reads(done, "blanks", 0), ch) = Reads(done, "number", ch)
<1>1. ch # Dash /\ ch # Blank
  BY NotDigits
<1> QED
  BY <1>1 DEF Scan, Begin, Reads

LEMMA NextDigit ==
    ASSUME NEW done, NEW v, NEW ch \in 0 .. 9
    PROVE  Scan(Reads(done, "number", v), ch) = Reads(done, "number", 10 * v + ch)
BY DEF Scan, Reads

LEMMA Separator ==
    ASSUME NEW done \in Seq(Int), Len(done) < 5, NEW v \in Int,
           NEW ch, ch = format[Len(done) + 1]
    PROVE  Scan(Reads(done, "number", v), ch) = Reads(Append(done, v), "blanks", 0)
<1> DEFINE b == Reads(Append(done, v), "blanks", 0)
<1>1. Len(Append(done, v)) = Len(done) + 1 /\ Len(done) \in Nat /\ 1 * v = v
  OBVIOUS
<1>2. ch \notin 0 .. 9 /\ (Len(done) + 1 = 3 => ch = Blank)
  <2>1. Len(done) + 1 \in {1, 2, 3, 4, 5}
    BY <1>1
  <2> QED
    BY <2>1, ConverAssumption DEF format
<1>3. Scan(Reads(done, "number", v), ch) = Separate(Before(Append(done, 1 * v)), ch)
  BY <1>2 DEF Scan, Reads
<1>4. Before(Append(done, 1 * v)) = b
  BY <1>1 DEF Before, Reads
<1>5. Len(b.done) = Len(done) + 1 /\ b.at = "blanks"
  BY <1>1 DEF Reads
<1> HIDE DEF b
<1>6. Separate(b, ch) = b
  BY <1>1, <1>2, <1>5 DEF Separate, Begin
<1> QED
  BY <1>3, <1>4, <1>6 DEF b

LEMMA ScanStep ==
    ASSUME NEW f, NEW text \in Seq(Chars), IsScan(f, text), NEW j \in Nat, NEW k \in Nat,
           k = j + 1, k <= Len(text)
    PROVE  f[k] = Scan(f[j], text[k])
<1>1. k \in 1 .. Len(text) /\ k - 1 = j
  OBVIOUS
<1> QED
  BY <1>1 DEF IsScan

LEMMA TwoDigits ==
    ASSUME NEW f, NEW text \in Seq(Chars), IsScan(f, text), NEW i \in Nat, NEW j \in Nat, NEW k \in Nat,
           j = i + 1, k = j + 1, k <= Len(text),
           NEW done, f[i] = Reads(done, "blanks", 0),
           NEW n \in Nat, n < 100, text[j] = Digit(n, 10), text[k] = Digit(n, 1)
    PROVE  f[k] = Reads(done, "number", n)
<1> DEFINE a == Digit(n, 10)
           b == Digit(n, 1)
<1>1. a \in 0 .. 9 /\ b \in 0 .. 9 /\ 10 * a + b = n
  BY DEF Digit
<1> HIDE DEF a, b
<1>2. f[j] = Scan(f[i], a) /\ f[k] = Scan(f[j], b)
  BY ScanStep DEF a, b
<1>3. f[j] = Reads(done, "number", a)
  BY <1>1, <1>2, FirstDigit
<1> QED
  BY <1>1, <1>2, <1>3, NextDigit

LEMMA NextNumber ==
    ASSUME NEW f, NEW text \in Seq(Chars), IsScan(f, text), NEW j \in Nat, NEW k \in Nat,
           k = j + 1, k <= Len(text),
           NEW done \in Seq(Int), Len(done) < 5, NEW v \in Int, f[j] = Reads(done, "number", v),
           text[k] = format[Len(done) + 1]
    PROVE  f[k] = Reads(Append(done, v), "blanks", 0)
<1>1. f[k] = Scan(f[j], text[k])
  BY ScanStep
<1> QED
  BY <1>1, Separator

YearOfFour(y) == 1000 <= y /\ y < 10000

LEMMA YearDigits ==
    ASSUME NEW y \in Int, YearOfFour(y)
    PROVE  /\ Digit(y, 1000) \in 0 .. 9 /\ Digit(y, 100) \in 0 .. 9 /\ Digit(y, 10) \in 0 .. 9 /\ Digit(y, 1) \in 0 .. 9
           /\ 10 * (10 * (10 * Digit(y, 1000) + Digit(y, 100)) + Digit(y, 10)) + Digit(y, 1) = y
<1> DEFINE a == y \div 10
           b == y \div 100
           c == y \div 1000
<1>1. /\ a \in Int /\ 10 * a <= y /\ y < 10 * a + 10
      /\ b \in Int /\ 100 * b <= y /\ y < 100 * b + 100
      /\ c \in Int /\ 1000 * c <= y /\ y < 1000 * c + 1000
      /\ y \div 1 = y
  OBVIOUS
<1>2. Digit(y, 1) = y % 10 /\ Digit(y, 10) = a % 10 /\ Digit(y, 100) = b % 10 /\ Digit(y, 1000) = c % 10
  BY <1>1 DEF Digit
<1> HIDE DEF a, b, c
<1>3. \A n \in Int, q \in Int : 10 * q <= n /\ n < 10 * q + 10 => n % 10 = n - 10 * q
  OBVIOUS
<1>4. y % 10 = y - 10 * a /\ a % 10 = a - 10 * b /\ b % 10 = b - 10 * c /\ c % 10 = c - 10 * 0
  <2>1. 10 * b <= a /\ a < 10 * b + 10 /\ 10 * c <= b /\ b < 10 * c + 10 /\ 0 <= c /\ c < 10
    BY <1>1 DEF YearOfFour
  <2>2. 0 \in Int
    OBVIOUS
  <2> QED
    BY <1>1, <1>3, <2>1, <2>2
<1> QED
  BY <1>1, <1>2, <1>4

LEMMA FourDigitsRead ==
    ASSUME NEW f, NEW text \in Seq(Chars), IsScan(f, text), NEW y \in Int, YearOfFour(y), Len(text) >= 4,
           text[1] = Digit(y, 1000), text[2] = Digit(y, 100), text[3] = Digit(y, 10), text[4] = Digit(y, 1)
    PROVE  f[4] = Reads(<<>>, "number", y)
<1>1. PICK d1 \in 0 .. 9, d2 \in 0 .. 9, d3 \in 0 .. 9, d4 \in 0 .. 9 :
          /\ text[1] = d1 /\ text[2] = d2 /\ text[3] = d3 /\ text[4] = d4
          /\ 10 * (10 * (10 * d1 + d2) + d3) + d4 = y
  <2> DEFINE e1 == Digit(y, 1000)
             e2 == Digit(y, 100)
             e3 == Digit(y, 10)
             e4 == Digit(y, 1)
  <2>1. /\ e1 \in 0 .. 9 /\ e2 \in 0 .. 9 /\ e3 \in 0 .. 9 /\ e4 \in 0 .. 9
        /\ 10 * (10 * (10 * e1 + e2) + e3) + e4 = y
    BY YearDigits
  <2>2. text[1] = e1 /\ text[2] = e2 /\ text[3] = e3 /\ text[4] = e4
    OBVIOUS
  <2> HIDE DEF e1, e2, e3, e4
  <2>3. e1 \in 0 .. 9 /\ e2 \in 0 .. 9 /\ e3 \in 0 .. 9 /\ e4 \in 0 .. 9
    BY <2>1
  <2> USE <2>3
  <2> WITNESS e1 \in 0 .. 9, e2 \in 0 .. 9, e3 \in 0 .. 9, e4 \in 0 .. 9
  <2> QED
    BY <2>1, <2>2
<1>2. PICK v2 \in Int, v3 \in Int : v2 = 10 * d1 + d2 /\ v3 = 10 * v2 + d3 /\ y = 10 * v3 + d4
  BY <1>1
<1>3. f[0] = Reads(<<>>, "blanks", 0)
  <2>1. f[0] = Before(<<>>)
    BY DEF IsScan
  <2> QED
    BY <2>1 DEF Before, Reads
<1>4. /\ 0 \in Nat /\ 1 \in Nat /\ 2 \in Nat /\ 3 \in Nat /\ 4 \in Nat
      /\ 1 = 0 + 1 /\ 2 = 1 + 1 /\ 3 = 2 + 1 /\ 4 = 3 + 1
      /\ 1 <= Len(text) /\ 2 <= Len(text) /\ 3 <= Len(text) /\ 4 <= Len(text)
  BY Len(text) \in Nat
<1>5. f[1] = Reads(<<>>, "number", d1)
  <2>1. f[1] = Scan(f[0], text[1])
    BY <1>4, ScanStep
  <2>2. Scan(Reads(<<>>, "blanks", 0), d1) = Reads(<<>>, "number", d1)
    BY FirstDigit
  <2>3. text[1] = d1
    BY <1>1
  <2> QED
    BY <1>3, <2>1, <2>2, <2>3
<1>6. f[2] = Reads(<<>>, "number", v2)
  <2>1. f[2] = Scan(f[1], text[2])
    BY <1>4, ScanStep
  <2>2. Scan(Reads(<<>>, "number", d1), d2) = Reads(<<>>, "number", 10 * d1 + d2)
    BY NextDigit
  <2>3. text[2] = d2
    BY <1>1
  <2> QED
    BY <1>2, <1>5, <2>1, <2>2, <2>3
<1>7. f[3] = Reads(<<>>, "number", v3)
  <2>1. f[3] = Scan(f[2], text[3])
    BY <1>4, ScanStep
  <2>2. Scan(Reads(<<>>, "number", v2), d3) = Reads(<<>>, "number", 10 * v2 + d3)
    BY NextDigit
  <2>3. text[3] = d3
    BY <1>1
  <2> QED
    BY <1>2, <1>6, <2>1, <2>2, <2>3
<1> QED
  <2>1. f[4] = Scan(f[3], text[4])
    BY <1>4, ScanStep
  <2>2. Scan(Reads(<<>>, "number", v3), d4) = Reads(<<>>, "number", 10 * v3 + d4)
    BY NextDigit
  <2>3. text[4] = d4
    BY <1>1
  <2> QED
    BY <1>2, <1>7, <2>1, <2>2, <2>3

(* After done and the number v, f reads the two digits of n up to l. *)
NextNumberAt(f, text, i, j, k, l, done, v, n) ==
    /\ IsScan(f, text)
    /\ i \in Nat /\ j = i + 1 /\ k = j + 1 /\ l = k + 1 /\ l <= Len(text)
    /\ done \in Seq(Int) /\ Len(done) < 5 /\ v \in Int
    /\ f[i] = Reads(done, "number", v)
    /\ text[j] = format[Len(done) + 1]
    /\ n \in Nat /\ n < 100 /\ text[k] = Digit(n, 10) /\ text[l] = Digit(n, 1)

LEMMA NextTwoDigits ==
    ASSUME NEW text \in Seq(Chars), NEW f, NEW i, NEW j, NEW k, NEW l, NEW done, NEW v, NEW n,
           NextNumberAt(f, text, i, j, k, l, done, v, n)
    PROVE  f[l] = Reads(Append(done, v), "number", n)
<1>1. j <= Len(text) /\ i \in Nat /\ j \in Nat /\ k \in Nat /\ l \in Nat
  BY Len(text) \in Nat DEF NextNumberAt
<1>2. f[j] = Reads(Append(done, v), "blanks", 0)
  BY <1>1, NextNumber DEF NextNumberAt
<1> QED
  BY <1>1, <1>2, TwoDigits DEF NextNumberAt

IsClockText(text, y, m, d, h, mi, s) ==
    /\ Len(text) = 19
    /\ text[1] = Digit(y, 1000) /\ text[2] = Digit(y, 100) /\ text[3] = Digit(y, 10) /\ text[4] = Digit(y, 1)
    /\ text[5] = Dash /\ text[6] = Digit(m, 10) /\ text[7] = Digit(m, 1)
    /\ text[8] = Dash /\ text[9] = Digit(d, 10) /\ text[10] = Digit(d, 1)
    /\ text[11] = Blank /\ text[12] = Digit(h, 10) /\ text[13] = Digit(h, 1)
    /\ text[14] = Colon /\ text[15] = Digit(mi, 10) /\ text[16] = Digit(mi, 1)
    /\ text[17] = Colon /\ text[18] = Digit(s, 10) /\ text[19] = Digit(s, 1)

LEMMA NumberAppended ==
    ASSUME NEW q \in Seq(Int), NEW e \in Int
    PROVE  Append(q, e)[Len(q) + 1] = e /\ \A i \in 1 .. Len(q) : Append(q, e)[i] = q[i]
OBVIOUS

SixNumbers(n, y, m, d, h, mi, s) ==
    n[1] = y /\ n[2] = m /\ n[3] = d /\ n[4] = h /\ n[5] = mi /\ n[6] = s

LEMMA ClockRead ==
    ASSUME NEW text \in Seq(Chars),
           NEW y \in Int, YearOfFour(y), NEW m \in Nat, NEW d \in Nat, NEW h \in Nat, NEW mi \in Nat, NEW s \in Nat,
           m < 100, d < 100, h < 100, mi < 100, s < 100,
           IsClockText(text, y, m, d, h, mi, s)
    PROVE  SixNumbers(sscanf(text), y, m, d, h, mi, s)
<1>1. PICK f : IsScan(f, text)
  BY ScannedIs
<1> DEFINE n0 == <<>>
           n1 == <<y>>
           n2 == <<y, m>>
           n3 == <<y, m, d>>
           n4 == <<y, m, d, h>>
           n5 == <<y, m, d, h, mi>>
<1>2. /\ n0 \in Seq(Int) /\ Len(n0) < 5 /\ format[Len(n0) + 1] = Dash
      /\ n1 \in Seq(Int) /\ Len(n1) < 5 /\ format[Len(n1) + 1] = Dash /\ n1 = Append(n0, y)
      /\ n2 \in Seq(Int) /\ Len(n2) < 5 /\ format[Len(n2) + 1] = Blank /\ n2 = Append(n1, m)
      /\ n3 \in Seq(Int) /\ Len(n3) < 5 /\ format[Len(n3) + 1] = Colon /\ n3 = Append(n2, d)
      /\ n4 \in Seq(Int) /\ Len(n4) < 5 /\ format[Len(n4) + 1] = Colon /\ n4 = Append(n3, h)
      /\ n5 \in Seq(Int) /\ n5 = Append(n4, mi)
  BY DEF format
<1>3. f[4] = Reads(n0, "number", y)
  <2>1. Len(text) >= 4
    BY DEF IsClockText
  <2>2. text[1] = Digit(y, 1000) /\ text[2] = Digit(y, 100) /\ text[3] = Digit(y, 10) /\ text[4] = Digit(y, 1)
    BY DEF IsClockText
  <2>3. f[4] = Reads(<<>>, "number", y)
    BY <1>1, <2>1, <2>2, FourDigitsRead
  <2> QED
    BY <2>3
<1> HIDE DEF n0, n1, n2, n3, n4, n5
<1>4. f[7] = Reads(n1, "number", m)
  <2>1. 5 = 4 + 1 /\ 6 = 5 + 1 /\ 7 = 6 + 1 /\ 7 <= Len(text) /\ 4 \in Nat
    BY DEF IsClockText
  <2>2. text[5] = Dash /\ text[6] = Digit(m, 10) /\ text[7] = Digit(m, 1)
    BY DEF IsClockText
  <2>3. NextNumberAt(f, text, 4, 5, 6, 7, n0, y, m)
    BY <1>1, <1>2, <1>3, <2>1, <2>2 DEF NextNumberAt
  <2>4. f[7] = Reads(Append(n0, y), "number", m)
    BY <2>3, NextTwoDigits
  <2> QED
    BY <1>2, <2>4
<1>5. f[10] = Reads(n2, "number", d)
  <2>1. 8 = 7 + 1 /\ 9 = 8 + 1 /\ 10 = 9 + 1 /\ 10 <= Len(text) /\ 7 \in Nat
    BY DEF IsClockText
  <2>2. text[8] = Dash /\ text[9] = Digit(d, 10) /\ text[10] = Digit(d, 1)
    BY DEF IsClockText
  <2>3. NextNumberAt(f, text, 7, 8, 9, 10, n1, m, d)
    BY <1>1, <1>2, <1>4, <2>1, <2>2 DEF NextNumberAt
  <2>4. f[10] = Reads(Append(n1, m), "number", d)
    BY <2>3, NextTwoDigits
  <2> QED
    BY <1>2, <2>4
<1>6. f[13] = Reads(n3, "number", h)
  <2>1. 11 = 10 + 1 /\ 12 = 11 + 1 /\ 13 = 12 + 1 /\ 13 <= Len(text) /\ 10 \in Nat
    BY DEF IsClockText
  <2>2. text[11] = Blank /\ text[12] = Digit(h, 10) /\ text[13] = Digit(h, 1)
    BY DEF IsClockText
  <2>3. NextNumberAt(f, text, 10, 11, 12, 13, n2, d, h)
    BY <1>1, <1>2, <1>5, <2>1, <2>2 DEF NextNumberAt
  <2>4. f[13] = Reads(Append(n2, d), "number", h)
    BY <2>3, NextTwoDigits
  <2> QED
    BY <1>2, <2>4
<1>7. f[16] = Reads(n4, "number", mi)
  <2>1. 14 = 13 + 1 /\ 15 = 14 + 1 /\ 16 = 15 + 1 /\ 16 <= Len(text) /\ 13 \in Nat
    BY DEF IsClockText
  <2>2. text[14] = Colon /\ text[15] = Digit(mi, 10) /\ text[16] = Digit(mi, 1)
    BY DEF IsClockText
  <2>3. NextNumberAt(f, text, 13, 14, 15, 16, n3, h, mi)
    BY <1>1, <1>2, <1>6, <2>1, <2>2 DEF NextNumberAt
  <2>4. f[16] = Reads(Append(n3, h), "number", mi)
    BY <2>3, NextTwoDigits
  <2> QED
    BY <1>2, <2>4
<1>8. f[19] = Reads(n5, "number", s)
  <2>1. 17 = 16 + 1 /\ 18 = 17 + 1 /\ 19 = 18 + 1 /\ 19 <= Len(text) /\ 16 \in Nat
    BY DEF IsClockText
  <2>2. text[17] = Colon /\ text[18] = Digit(s, 10) /\ text[19] = Digit(s, 1)
    BY DEF IsClockText
  <2>3. NextNumberAt(f, text, 16, 17, 18, 19, n4, mi, s)
    BY <1>1, <1>2, <1>7, <2>1, <2>2 DEF NextNumberAt
  <2>4. f[19] = Reads(Append(n4, mi), "number", s)
    BY <2>3, NextTwoDigits
  <2> QED
    BY <1>2, <2>4
<1>9. sscanf(text) = Numerals(Reads(n5, "number", s))
  <2>1. Len(text) = 19 /\ Scanned(text) = f[Len(text)]
    BY <1>1 DEF IsScan, IsClockText
  <2> QED
    BY <1>8, <2>1 DEF sscanf
<1>10. Numerals(Reads(n5, "number", s)) = Append(n5, s)
  <2>1. 1 * s = s
    OBVIOUS
  <2> QED
    BY <2>1 DEF Numerals, Reads
<1>11. n5 \in Seq(Int) /\ Len(n5) = 5 /\ n5[1] = y /\ n5[2] = m /\ n5[3] = d /\ n5[4] = h /\ n5[5] = mi
  BY DEF n5
<1> DEFINE r == Append(n5, s)
<1>12. s \in Int
  OBVIOUS
<1> HIDE DEF n5
<1>13. r[Len(n5) + 1] = s /\ \A i \in 1 .. Len(n5) : r[i] = n5[i]
  BY <1>11, <1>12, NumberAppended
<1> HIDE DEF r
<1>14. r[1] = y /\ r[2] = m /\ r[3] = d /\ r[4] = h /\ r[5] = mi /\ r[6] = s
  BY <1>11, <1>13
<1> QED
  BY <1>9, <1>10, <1>14 DEF r, SixNumbers

-----------------------------------------------------------------------------
(* The text that strftime writes, and the time it is read back as.         *)
LEMMA DigitIs == ASSUME NEW n \in Nat, NEW unit \in {1, 10} PROVE Digit(n, unit) \in Chars
<1>1. Digit(n, unit) \in 0 .. 9
  BY DEF Digit
<1> QED
  BY <1>1, ConverAssumption

LEMMA NineteenChars ==
    ASSUME NEW a \in Chars, NEW b \in Chars, NEW c \in Chars, NEW d \in Chars, NEW e \in Chars, NEW f \in Chars,
           NEW g \in Chars, NEW h \in Chars, NEW i \in Chars, NEW j \in Chars, NEW k \in Chars, NEW l \in Chars,
           NEW m \in Chars, NEW n \in Chars, NEW o \in Chars, NEW p \in Chars, NEW q \in Chars, NEW r \in Chars,
           NEW s \in Chars
    PROVE  LET text == <<a, b, c, d, e, f, g, h, i, j, k, l, m, n, o, p, q, r, s>>
           IN  /\ text \in Seq(Chars) /\ Len(text) = 19
               /\ text[1] = a /\ text[2] = b /\ text[3] = c /\ text[4] = d /\ text[5] = e /\ text[6] = f
               /\ text[7] = g /\ text[8] = h /\ text[9] = i /\ text[10] = j /\ text[11] = k /\ text[12] = l
               /\ text[13] = m /\ text[14] = n /\ text[15] = o /\ text[16] = p /\ text[17] = q /\ text[18] = r
               /\ text[19] = s
OBVIOUS

LEMMA OfTheDay ==
    ASSUME NEW n \in Nat, n < SecondsPerDay
    PROVE  LET h == n \div 3600
               mi == (n \div 60) % 60
               s == n % 60
           IN  /\ h \in Nat /\ mi \in Nat /\ s \in Nat /\ h < 24 /\ mi < 60 /\ s < 60
               /\ n = h * 3600 + mi * 60 + s
BY DEF SecondsPerDay

LEMMA LocalParts ==
    ASSUME NEW e \in Int
    PROVE  LET day == Local(e) \div SecondsPerDay
               second == Local(e) % SecondsPerDay
           IN  /\ day \in Int /\ second \in Nat /\ second < SecondsPerDay
               /\ e = ORIGIN + day * SecondsPerDay + second - 8 * 3600
BY DEF Local, ORIGIN, SecondsPerDay

LEMMA StrftimeIs ==
    ASSUME NEW c, c.year \in Int, YearOfFour(c.year), c.month \in Nat, c.day \in Nat,
           NEW h \in Nat, NEW mi \in Nat, NEW s \in Nat,
           NEW second, second \div 3600 = h, (second \div 60) % 60 = mi, second % 60 = s
    PROVE  strftime(c, second) \in Seq(Chars) /\ IsClockText(strftime(c, second), c.year, c.month, c.day, h, mi, s)
<1> DEFINE y == c.year
           m == c.month
           d == c.day
<1>1. Digit(y, 1000) \in Chars /\ Digit(y, 100) \in Chars /\ Digit(y, 10) \in Chars /\ Digit(y, 1) \in Chars
  <2>1. Digit(y, 1000) \in 0 .. 9 /\ Digit(y, 100) \in 0 .. 9 /\ Digit(y, 10) \in 0 .. 9 /\ Digit(y, 1) \in 0 .. 9
    BY YearDigits
  <2>2. \A ch \in 0 .. 9 : ch \in Chars
    BY ConverAssumption
  <2> QED
    BY <2>1, <2>2
<1>2. /\ Digit(m, 10) \in Chars /\ Digit(m, 1) \in Chars /\ Digit(d, 10) \in Chars /\ Digit(d, 1) \in Chars
      /\ Digit(h, 10) \in Chars /\ Digit(h, 1) \in Chars /\ Digit(mi, 10) \in Chars /\ Digit(mi, 1) \in Chars
      /\ Digit(s, 10) \in Chars /\ Digit(s, 1) \in Chars
  BY DigitIs
<1>3. Dash \in Chars /\ Blank \in Chars /\ Colon \in Chars
  BY ConverAssumption
<1>4. strftime(c, second) = <<Digit(y, 1000), Digit(y, 100), Digit(y, 10), Digit(y, 1), Dash,
                              Digit(m, 10), Digit(m, 1), Dash, Digit(d, 10), Digit(d, 1), Blank,
                              Digit(h, 10), Digit(h, 1), Colon, Digit(mi, 10), Digit(mi, 1), Colon,
                              Digit(s, 10), Digit(s, 1)>>
  BY DEF strftime
<1>5. Len(strftime(c, second)) = 19 /\ strftime(c, second) \in Seq(Chars)
  BY <1>1, <1>2, <1>3, <1>4, NineteenChars
<1>6. IsClockText(strftime(c, second), y, m, d, h, mi, s)
  BY <1>4, <1>5 DEF IsClockText
<1> QED
  BY <1>5, <1>6

LEMMA FormattedIs ==
    ASSUME NEW e, FourDigits(e)
    PROVE  \E y \in Int, m \in 1 .. 12, d \in 1 .. 31, h \in 0 .. 23, mi \in 0 .. 59, s \in 0 .. 59 :
              /\ YearOfFour(y)
              /\ Formatted(e) \in Seq(Chars)
              /\ IsClockText(Formatted(e), y, m, d, h, mi, s)
              /\ mktime(<<y, m, d, h, mi, s>>) = e
<1> DEFINE day == Local(e) \div SecondsPerDay
           second == Local(e) % SecondsPerDay
           h == second \div 3600
           mi == (second \div 60) % 60
           s == second % 60
<1>1. /\ e \in Int /\ day \in Int /\ second \in Nat /\ second < SecondsPerDay
      /\ e = ORIGIN + day * SecondsPerDay + second - 8 * 3600
  <2>1. e \in Int
    BY DEF FourDigits
  <2> QED
    BY <2>1, LocalParts
<1>2. LocalDate(e) = Civil(day) /\ Formatted(e) = strftime(Civil(day), second)
  BY DEF Formatted, LocalDate
<1> HIDE DEF day, second
<1>3. /\ h \in Nat /\ mi \in Nat /\ s \in Nat /\ h < 24 /\ mi < 60 /\ s < 60
      /\ second = h * 3600 + mi * 60 + s
  BY <1>1, OfTheDay
<1>4. PICK y \in Int, m \in 1 .. 12 :
         InMonth(day, y, m) /\ Civil(day) = [year |-> y, month |-> m, day |-> day - MonthStart(y, m) + 1]
  BY <1>1, DayHasDate
<1> DEFINE d == day - MonthStart(y, m) + 1
<1>5. d \in 1 .. 31 /\ DayNumber(y, m, d) = day
  <2>1. MonthStart(y, m) \in Int /\ Length(y, m) \in Int
    BY MonthType
  <2>2. Length(y, m) <= 31
    BY DEF Length
  <2>3. d \in Int /\ 1 <= d /\ d <= 31
    BY <1>1, <1>4, <2>1, <2>2 DEF InMonth
  <2>4. DayNumber(y, m, d) = MonthStart(y, m) + d - 1
    BY <2>3, DayNumberIs
  <2> QED
    BY <1>1, <2>1, <2>3, <2>4
<1>6. YearOfFour(y)
  BY <1>2, <1>4 DEF FourDigits, YearOfFour
<1> HIDE DEF d
<1>7. Formatted(e) \in Seq(Chars) /\ IsClockText(Formatted(e), y, m, d, h, mi, s)
  <2> DEFINE c == [year |-> y, month |-> m, day |-> d]
  <2>1. c.year = y /\ c.month = m /\ c.day = d /\ m \in Nat /\ d \in Nat
    BY <1>5
  <2>2. Formatted(e) = strftime(c, second)
    BY <1>2, <1>4 DEF d
  <2> HIDE DEF c
  <2>3. c.year \in Int /\ YearOfFour(c.year) /\ c.month \in Nat /\ c.day \in Nat
    BY <1>6, <2>1
  <2>4. strftime(c, second) \in Seq(Chars) /\ IsClockText(strftime(c, second), c.year, c.month, c.day, h, mi, s)
    <3>1. h \in Nat /\ mi \in Nat /\ s \in Nat
      BY <1>3
    <3> QED
      BY <2>3, <3>1, StrftimeIs
  <2> QED
    BY <2>1, <2>2, <2>4
<1>8. mktime(<<y, m, d, h, mi, s>>) = e
  <2>1. mktime(<<y, m, d, h, mi, s>>) =
           ORIGIN + DayNumber(y, m, d) * SecondsPerDay + h * 3600 + mi * 60 + s - 8 * 3600
    BY DEF mktime
  <2>2. day * SecondsPerDay \in Int /\ ORIGIN \in Int
    BY <1>1 DEF SecondsPerDay, ORIGIN
  <2>3. PICK k \in Int, o \in Int : k = day * SecondsPerDay /\ o = ORIGIN
    BY <2>2
  <2>4. mktime(<<y, m, d, h, mi, s>>) = o + k + h * 3600 + mi * 60 + s - 8 * 3600
    BY <1>5, <2>1, <2>3
  <2>5. e = o + k + second - 8 * 3600 /\ second = h * 3600 + mi * 60 + s /\ h \in Nat /\ mi \in Nat /\ s \in Nat
    BY <1>1, <1>3, <2>3
  <2> HIDE DEF h, mi, s
  <2> QED
    BY <2>4, <2>5
<1>9. h \in 0 .. 23 /\ mi \in 0 .. 59 /\ s \in 0 .. 59
  <2>1. h \in Nat /\ mi \in Nat /\ s \in Nat /\ h < 24 /\ mi < 60 /\ s < 60
    BY <1>3
  <2> HIDE DEF h, mi, s
  <2> QED
    BY <2>1
<1> HIDE DEF h, mi, s
<1> USE <1>5, <1>9
<1> WITNESS y \in Int, m \in 1 .. 12, d \in 1 .. 31, h \in 0 .. 23, mi \in 0 .. 59, s \in 0 .. 59
<1> QED
  BY <1>6, <1>7, <1>8

(* The clock time that is written for a moment is read back as that        *)
(* moment: what strftime writes at time_conver.c:52 is what sscanf and     *)
(* mktime make of it at lines 76 to 132.                                   *)
THEOREM ReadBack == ASSUME NEW e, FourDigits(e) PROVE mktime(sscanf(Formatted(e))) = e
<1>1. PICK y \in Int, m \in 1 .. 12, d \in 1 .. 31, h \in 0 .. 23, mi \in 0 .. 59, s \in 0 .. 59 :
         /\ YearOfFour(y)
         /\ Formatted(e) \in Seq(Chars)
         /\ IsClockText(Formatted(e), y, m, d, h, mi, s)
         /\ mktime(<<y, m, d, h, mi, s>>) = e
  BY FormattedIs
<1> DEFINE t == Formatted(e)
<1>2. m \in Nat /\ d \in Nat /\ h \in Nat /\ mi \in Nat /\ s \in Nat /\ m < 100 /\ d < 100 /\ h < 100 /\ mi < 100 /\ s < 100
  OBVIOUS
<1>3. t \in Seq(Chars) /\ IsClockText(t, y, m, d, h, mi, s)
  BY <1>1
<1> HIDE DEF t
<1> DEFINE n == sscanf(t)
<1>4. SixNumbers(n, y, m, d, h, mi, s)
  BY <1>1, <1>2, <1>3, ClockRead
<1> HIDE DEF n
<1>5. mktime(n) = mktime(<<y, m, d, h, mi, s>>)
  BY <1>4 DEF mktime, SixNumbers
<1> QED
  BY <1>1, <1>5 DEF n, t

LEMMA FormattedType == ASSUME NEW e, FourDigits(e) PROVE Formatted(e) \in Seq(Chars) /\ Len(Formatted(e)) = 19
<1>1. PICK y \in Int, m \in 1 .. 12, d \in 1 .. 31, h \in 0 .. 23, mi \in 0 .. 59, s \in 0 .. 59 :
         Formatted(e) \in Seq(Chars) /\ IsClockText(Formatted(e), y, m, d, h, mi, s)
  BY FormattedIs
<1> QED
  BY <1>1 DEF IsClockText

LEMMA Nineteen ==
    ASSUME NEW a, NEW b, NEW c, NEW d, NEW e, NEW f, NEW g, NEW h, NEW i, NEW j, NEW k, NEW l, NEW m, NEW n,
           NEW o, NEW p, NEW q, NEW r, NEW s
    PROVE  Len(<<a, b, c, d, e, f, g, h, i, j, k, l, m, n, o, p, q, r, s>>) = 19
OBVIOUS

LEMMA ExtentOfOthers == Len(strftime(Civil(0), 0)) = 19
BY Nineteen DEF strftime

-----------------------------------------------------------------------------
(* The options one after the other.                                        *)
Options == [letter : {"c"}, arg : Texts] \cup [letter : {"e", "t"}, arg : Numbers] \cup [letter : {"n"}, arg : Now]

LEMMA ExtentType == ASSUME NEW o \in Options PROVE Extent(o) \in Nat
<1>1. CASE o.letter = "c"
  <2>1. o.arg \in Seq(Chars)
    BY <1>1, ConverAssumption DEF Options
  <2> QED
    BY <1>1, <2>1 DEF Extent
<1>2. CASE o.letter # "c"
  BY <1>2, ExtentOfOthers DEF Extent
<1> QED
  BY <1>1, <1>2

LEMMA Copied ==
    ASSUME clock_time \in Seq(Chars), NEW text \in Seq(Chars)
    PROVE  /\ memcpy(text) \in Seq(Chars)
           /\ \A i \in 1 .. Len(text) : memcpy(text)[i] = text[i]
           /\ Len(clock_time) <= Len(text) => memcpy(text) = text
           /\ Len(clock_time) > Len(text) => Len(memcpy(text)) = Len(clock_time)
           /\ Len(memcpy(text)) >= Len(text)
<1> DEFINE rest == SubSeq(clock_time, Len(text) + 1, Len(clock_time))
<1>1. Len(text) \in Nat /\ Len(clock_time) \in Nat
  OBVIOUS
<1>2. CASE Len(clock_time) <= Len(text)
  <2>1. rest = <<>>
    BY <1>1, <1>2, SubSeqEmpty
  <2>2. memcpy(text) = text
    BY <2>1, ConcatEmptySeq DEF memcpy
  <2> QED
    BY <1>1, <1>2, <2>2
<1>3. CASE Len(clock_time) > Len(text)
  <2>1. rest \in Seq(Chars) /\ Len(rest) = Len(clock_time) - Len(text)
    BY <1>1, <1>3
  <2>2. memcpy(text) = text \o rest
    BY DEF memcpy
  <2> HIDE DEF rest
  <2>3. /\ text \o rest \in Seq(Chars) /\ Len(text \o rest) = Len(text) + Len(rest)
        /\ \A i \in 1 .. Len(text) : (text \o rest)[i] = text[i]
    BY <2>1
  <2> QED
    BY <1>1, <1>3, <2>1, <2>2, <2>3
<1> QED
  BY <1>1, <1>2, <1>3

LEMMA OptionAppended ==
    ASSUME NEW g \in Seq(Options), NEW o \in Options, NEW h, h = Append(g, o)
    PROVE  /\ h \in Seq(Options) /\ h # <<>> /\ Len(h) = Len(g) + 1 /\ h[Len(h)] = o
           /\ DOMAIN h = 1 .. Len(g) + 1 /\ \A k \in DOMAIN g : k \in DOMAIN h /\ h[k] = g[k]
<1>1. /\ Len(g) \in Nat /\ Append(g, o) \in Seq(Options) /\ Len(Append(g, o)) = Len(g) + 1
      /\ Append(g, o)[Len(g) + 1] = o /\ \A k \in 1 .. Len(g) : Append(g, o)[k] = g[k]
  OBVIOUS
<1>2. DOMAIN g = 1 .. Len(g) /\ DOMAIN h = 1 .. Len(h)
  BY <1>1
<1> QED
  BY <1>1, <1>2

LEMMA sscanfType == ASSUME NEW text \in Seq(Chars) PROVE sscanf(text) \in Seq(Int)
<1>1. PICK f : IsScan(f, text)
  BY ScannedIs
<1>2. Len(text) \in 0 .. Len(text)
  OBVIOUS
<1>3. Scanned(text) \in Scans
  BY <1>1, <1>2 DEF IsScan
<1>4. ASSUME NEW s \in Scans PROVE Numerals(s) \in Seq(Int)
  <2>1. s.done \in Seq(Int) /\ s.sign * s.value \in Int
    BY DEF Scans
  <2> QED
    BY <2>1 DEF Numerals
<1> QED
  BY <1>3, <1>4 DEF sscanf

(* A text that reads as nothing behind another text's characters is        *)
(* nonsense itself.                                                        *)
LEMMA Nonsense ==
    ASSUME clock_time \in Seq(Chars), NEW text \in Seq(Chars), Count(memcpy(text)) = 0
    PROVE  sscanf(text) = <<>>
<1> DEFINE u == memcpy(text)
<1>1. u \in Seq(Chars) /\ Len(text) <= Len(u) /\ \A i \in 1 .. Len(text) : text[i] = u[i]
  <2>1. Len(u) >= Len(text) /\ Len(text) \in Nat /\ u \in Seq(Chars)
    BY Copied
  <2>2. Len(u) \in Nat
    BY <2>1
  <2> QED
    BY <2>1, <2>2, Copied
<1> HIDE DEF u
<1>2. Len(sscanf(u)) = 0
  BY DEF Count, u
<1>3. sscanf(u) = <<>>
  BY <1>1, <1>2, sscanfType
<1> QED
  BY <1>1, <1>3, StartsWithNumber

-----------------------------------------------------------------------------
IsNonsense(g) == Last(g).letter = "c" /\ sscanf(Last(g).arg) = <<>>
Leftover(g) == \E k \in DOMAIN g : Extent(g[k]) > Extent(Last(g))

(* The three times are one moment, and the one that was asked for last.    *)
OneMoment(g, text, epoch, tai) ==
    /\ tai = epoch - ORIGIN
    /\ Last(g).letter = "c" \/ ~Leftover(g) => mktime(sscanf(text)) = epoch
    /\ Last(g).letter # "c" \/ ~Leftover(g) => epoch = Asked(Last(g))

(* The options so far, while they are read: the clock time is no longer    *)
(* than what one of them writes, and the last one has been answered.       *)
Answered ==
    /\ given = <<>> => ret = -1 /\ clock_time = <<>>
    /\ given # <<>> =>
          /\ ret = 0
          /\ \E k \in DOMAIN given : Len(clock_time) <= Extent(given[k])
          /\ IsNonsense(given) \/ OneMoment(given, clock_time, epoch_time, tai_time)

ConverInv ==
    /\ clock_time \in Seq(Chars)
    /\ given \in Seq(Options)
    /\ status \in {"options", "printed", "failed"}
    /\ status \in {"options", "printed"} => Answered
    /\ status = "printed" => given # <<>>
    /\ status = "failed" /\ ret = 0 =>
          Len(given) > 1 /\ Last(given).letter \in {"e", "t"} /\ Last(given).arg = OutOfRange

(* An option o whose text is copied into clock_time. *)
Written(o, text) ==
    /\ o \in Options /\ Extent(o) = Len(text) /\ text \in Seq(Chars)
    /\ given' = Append(given, o)
    /\ clock_time' = memcpy(text)

LEMMA TextWritten ==
    ASSUME ConverInv, status = "options", NEW o, NEW text, Written(o, text)
    PROVE  /\ clock_time' \in Seq(Chars) /\ given' \in Seq(Options) /\ given' # <<>> /\ Last(given') = o
           /\ \E k \in DOMAIN given' : Len(clock_time') <= Extent(given'[k])
           /\ ~Leftover(given') => clock_time' = text
<1> DEFINE h == given'
<1>1. h = Append(given, o) /\ given \in Seq(Options) /\ o \in Options
  BY DEF ConverInv, Written
<1>2. /\ h \in Seq(Options) /\ h # <<>> /\ Len(h) = Len(given) + 1 /\ h[Len(h)] = o /\ Len(given) \in Nat
      /\ DOMAIN h = 1 .. Len(given) + 1 /\ \A k \in DOMAIN given : k \in DOMAIN h /\ h[k] = given[k]
  BY <1>1, OptionAppended
<1>3. /\ clock_time \in Seq(Chars) /\ text \in Seq(Chars) /\ Len(clock_time) \in Nat /\ Len(text) \in Nat
      /\ Extent(o) = Len(text) /\ clock_time' = memcpy(text)
  BY DEF ConverInv, Written
<1> HIDE DEF h
<1>4. /\ memcpy(text) \in Seq(Chars)
      /\ Len(clock_time) <= Len(text) => memcpy(text) = text
      /\ Len(clock_time) > Len(text) => Len(memcpy(text)) = Len(clock_time)
  BY <1>3, Copied
<1>5. Len(h) \in DOMAIN h /\ Last(h) = o
  BY <1>2 DEF Last
<1>6. \E k \in DOMAIN h : Len(clock_time) <= Extent(h[k])
  <2>1. CASE given = <<>>
    <3>1. Len(clock_time) = 0
      BY <2>1 DEF ConverInv, Answered
    <3> QED
      BY <1>2, <1>3, <1>5, <3>1
  <2>2. CASE given # <<>>
    <3>1. PICK k \in DOMAIN given : Len(clock_time) <= Extent(given[k])
      BY <2>2 DEF ConverInv, Answered
    <3> QED
      BY <1>2, <3>1
  <2> QED
    BY <2>1, <2>2
<1>7. \A k \in DOMAIN h : Extent(h[k]) \in Nat
  <2>1. \A k \in DOMAIN h : h[k] \in Options
    BY <1>2
  <2> QED
    BY <2>1, ExtentType
<1>8. CASE Len(clock_time) <= Len(text)
  BY <1>2, <1>3, <1>4, <1>5, <1>8 DEF h
<1>9. CASE Len(clock_time) > Len(text)
  <2>1. Leftover(h)
    <3>1. PICK k \in DOMAIN h : Len(clock_time) <= Extent(h[k])
      BY <1>6
    <3>2. Extent(h[k]) > Extent(Last(h))
      BY <1>3, <1>5, <1>7, <1>9, <3>1
    <3> QED
      BY <3>2 DEF Leftover
  <2> QED
    BY <1>2, <1>3, <1>4, <1>5, <1>6, <1>9, <2>1 DEF h
<1> QED
  BY <1>3, <1>8, <1>9

LEMMA ConverStart == ConverInit => ConverInv
<1> SUFFICES ASSUME ConverInit PROVE ConverInv
  OBVIOUS
<1>1. <<>> \in Seq(Chars) /\ <<>> \in Seq(Options)
  OBVIOUS
<1> QED
  BY <1>1 DEF ConverInit, ConverInv, Answered

LEMMA ClockKeeps ==
    ASSUME ConverInv, NEW text \in Texts, clock_to_other(text)
    PROVE  ConverInv'
<1> DEFINE o == [letter |-> "c", arg |-> text]
           n == sscanf(memcpy(text))
<1>1. status = "options" /\ given' = Append(given, o) /\ clock_time' = memcpy(text)
  BY DEF clock_to_other, Option
<1>2. \/ IsClock(n) /\ epoch_time' = mktime(n) /\ tai_time' = mktime(n) - ORIGIN /\ ret' = 0
      \/ ret' = Count(memcpy(text))
  BY DEF clock_to_other
<1>3. status' = IF ret' = 0 THEN "options" ELSE "failed"
  BY DEF clock_to_other
<1>4. Written(o, text)
  <2>1. text \in Seq(Chars) /\ o \in Options
    BY ConverAssumption DEF Options
  <2>2. Extent(o) = Len(text)
    BY DEF Extent
  <2> QED
    BY <1>1, <2>1, <2>2 DEF Written
<1>5. o.letter = "c" /\ o.arg = text
  OBVIOUS
<1> HIDE DEF o
<1>6. /\ clock_time' \in Seq(Chars) /\ given' \in Seq(Options) /\ given' # <<>> /\ Last(given') = o
      /\ \E k \in DOMAIN given' : Len(clock_time') <= Extent(given'[k])
      /\ ~Leftover(given') => clock_time' = text
  BY <1>1, <1>4, TextWritten
<1>7. ret' = 0 => IsNonsense(given') \/ OneMoment(given', clock_time', epoch_time', tai_time')
  <2>1. CASE epoch_time' = mktime(n) /\ tai_time' = mktime(n) - ORIGIN
    <3>1. mktime(sscanf(clock_time')) = epoch_time' /\ tai_time' = epoch_time' - ORIGIN
      BY <1>1, <2>1
    <3>2. Asked(o) = mktime(sscanf(text))
      BY <1>5 DEF Asked
    <3> QED
      BY <1>5, <1>6, <3>1, <3>2 DEF OneMoment
  <2>2. CASE ret' = Count(memcpy(text))
    <3>1. ret' = 0 => sscanf(text) = <<>>
      BY <1>4, <2>2, Nonsense DEF Written, ConverInv
    <3> QED
      BY <1>5, <1>6, <3>1 DEF IsNonsense
  <2> QED
    BY <1>2, <2>1, <2>2
<1> QED
  BY <1>3, <1>6, <1>7 DEF ConverInv, Answered

LEMMA TimeKeeps ==
    ASSUME ConverInv, NEW o \in Options, o.letter # "c", Option(o),
           NEW e, FourDigits(e), e = Asked(o), epoch_to_other(e)
    PROVE  ConverInv'
<1> DEFINE text == Formatted(e)
<1>1. /\ status = "options" /\ given' = Append(given, o) /\ clock_time' = memcpy(text)
      /\ epoch_time' = e /\ tai_time' = e - ORIGIN /\ ret' = 0 /\ status' = status
  BY DEF epoch_to_other, Option
<1>2. Written(o, text)
  <2>1. text \in Seq(Chars) /\ Len(text) = 19
    BY FormattedType
  <2>2. Extent(o) = 19
    BY ExtentOfOthers DEF Extent
  <2> QED
    BY <1>1, <2>1, <2>2 DEF Written
<1>3. mktime(sscanf(text)) = e
  BY ReadBack
<1> HIDE DEF text
<1>4. /\ clock_time' \in Seq(Chars) /\ given' \in Seq(Options) /\ given' # <<>> /\ Last(given') = o
      /\ \E k \in DOMAIN given' : Len(clock_time') <= Extent(given'[k])
      /\ ~Leftover(given') => clock_time' = text
  BY <1>1, <1>2, TextWritten
<1>5. OneMoment(given', clock_time', epoch_time', tai_time')
  BY <1>1, <1>3, <1>4 DEF OneMoment
<1> QED
  BY <1>1, <1>4, <1>5 DEF ConverInv, Answered

LEMMA ErrorKeeps ==
    ASSUME ConverInv, NEW o \in Options, o.letter \in {"e", "t"}, o.arg = OutOfRange, Option(o), RangeError
    PROVE  ConverInv'
<1>1. /\ status = "options" /\ given' = Append(given, o) /\ status' = "failed"
      /\ ret' = ret /\ clock_time' = clock_time
  BY DEF Option, RangeError
<1>2. given' \in Seq(Options) /\ Len(given') = Len(given) + 1 /\ Last(given') = o
  BY <1>1, OptionAppended DEF ConverInv, Last
<1>3. ret = 0 => Len(given) > 0
  BY <1>1 DEF ConverInv, Answered
<1>4. ret = 0 => Len(given') > 1
  BY <1>2, <1>3 DEF ConverInv
<1> QED
  BY <1>1, <1>2, <1>4 DEF ConverInv

LEMMA ConverStep == ConverInv /\ [ConverNext]_conver => ConverInv'
<1> SUFFICES ASSUME ConverInv, [ConverNext]_conver PROVE ConverInv'
  OBVIOUS
<1>1. ASSUME NEW text \in Texts, clock_to_other(text) PROVE ConverInv'
  BY <1>1, ClockKeeps
<1>2. ASSUME NEW n \in Numbers, OptionE(n) PROVE ConverInv'
  <2> DEFINE o == [letter |-> "e", arg |-> n]
  <2>1. o \in Options /\ o.letter = "e" /\ o.arg = n /\ Asked(o) = n
    BY DEF Options, Asked
  <2>2. Option(o)
    BY <1>2 DEF OptionE, Option
  <2>3. n = OutOfRange => RangeError
    BY <1>2 DEF OptionE
  <2>4. n # OutOfRange => epoch_to_other(n)
    BY <1>2 DEF OptionE
  <2>5. n # OutOfRange => FourDigits(n)
    BY ConverAssumption
  <2> HIDE DEF o
  <2>6. CASE n = OutOfRange
    <3>1. RangeError
      BY <2>3, <2>6
    <3>2. o.letter \in {"e", "t"} /\ o.arg = OutOfRange
      BY <2>1, <2>6
    <3> QED
      BY <2>1, <2>2, <3>1, <3>2, ErrorKeeps
  <2>7. CASE n # OutOfRange
    <3>1. epoch_to_other(n) /\ FourDigits(n)
      BY <2>4, <2>5, <2>7
    <3>2. o.letter # "c" /\ n = Asked(o)
      BY <2>1
    <3> QED
      BY <2>1, <2>2, <3>1, <3>2, TimeKeeps
  <2> QED
    BY <2>6, <2>7
<1>3. ASSUME NEW n \in Numbers, OptionT(n) PROVE ConverInv'
  <2> DEFINE o == [letter |-> "t", arg |-> n]
             e == n + ORIGIN
  <2>1. o \in Options /\ o.letter = "t" /\ o.arg = n /\ Asked(o) = e
    BY DEF Options, Asked
  <2>2. Option(o)
    BY <1>3 DEF OptionT, Option
  <2>3. n = OutOfRange => RangeError
    BY <1>3 DEF OptionT
  <2>4. n # OutOfRange => epoch_to_other(e)
    BY <1>3 DEF OptionT
  <2>5. n # OutOfRange => FourDigits(e)
    BY ConverAssumption
  <2> HIDE DEF o, e
  <2>6. CASE n = OutOfRange
    <3>1. RangeError
      BY <2>3, <2>6
    <3>2. o.letter \in {"e", "t"} /\ o.arg = OutOfRange
      BY <2>1, <2>6
    <3> QED
      BY <2>1, <2>2, <3>1, <3>2, ErrorKeeps
  <2>7. CASE n # OutOfRange
    <3>1. epoch_to_other(e) /\ FourDigits(e)
      BY <2>4, <2>5, <2>7
    <3>2. o.letter # "c" /\ e = Asked(o)
      BY <2>1
    <3> QED
      BY <2>1, <2>2, <3>1, <3>2, TimeKeeps
  <2> QED
    BY <2>6, <2>7
<1>4. ASSUME NEW now \in Now, now_to_other(now) PROVE ConverInv'
  <2> DEFINE o == [letter |-> "n", arg |-> now]
  <2>1. o \in Options /\ o.letter = "n" /\ Asked(o) = now
    BY DEF Options, Asked
  <2>2. Option(o) /\ epoch_to_other(now) /\ FourDigits(now)
    BY <1>4, ConverAssumption DEF now_to_other
  <2> HIDE DEF o
  <2> QED
    BY <2>1, <2>2, TimeKeeps
<1>5. CASE PrintTimes
  BY <1>5 DEF PrintTimes, ConverInv, Answered
<1>6. CASE UNCHANGED conver
  BY <1>6 DEF conver, ConverInv, Answered
<1> QED
  BY <1>1, <1>2, <1>3, <1>4, <1>5, <1>6 DEF ConverNext

(* Of several options of time_conver the last one counts, whatever they    *)
(* are, but for the four ways that LastOptionCounts names.                 *)
THEOREM LastCounts == ConverSpec => []LastOptionCounts
<1>1. ConverInv => LastOptionCounts
  BY DEF ConverInv, Answered, LastOptionCounts, IsNonsense, OneMoment, Leftover, Last
<1> QED
  BY <1>1, ConverStart, ConverStep, PTL DEF ConverSpec
=============================================================================
