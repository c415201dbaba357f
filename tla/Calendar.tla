------------------------------ MODULE Calendar ------------------------------
(***************************************************************************)
(* What the C library's mktime and localtime compute for Beijing time,     *)
(* which has had no daylight saving since 1991: days are numbered from     *)
(* 2004-01-01, the origin of TAI time in this code (1072915200).           *)
(***************************************************************************)
EXTENDS Integers

Origin == 2004

IsLeap(y) == (y % 4 = 0 /\ y % 100 # 0) \/ y % 400 = 0

LeapsBefore(y) == ((y - 1) \div 4) - ((y - 1) \div 100) + ((y - 1) \div 400)

YearStart(y) == 365 * (y - Origin) + LeapsBefore(y) - LeapsBefore(Origin)

MonthOffset == <<0, 31, 59, 90, 120, 151, 181, 212, 243, 273, 304, 334>>

MonthStart(y, m) == YearStart(y) + MonthOffset[m] + (IF m > 2 /\ IsLeap(y) THEN 1 ELSE 0)

(* mktime: months past December and days past the month's end carry over. *)
DayNumber(y, m, d) == MonthStart(y + ((m - 1) \div 12), ((m - 1) % 12) + 1) + d - 1

(* localtime; the year is within one of the days in mean years. *)
YearOf(day) ==
    LET near == Origin + ((400 * day) \div 146097)
    IN  CHOOSE y \in near - 1 .. near + 1 : YearStart(y) <= day /\ day < YearStart(y + 1)

MonthOf(day, y) ==
    CHOOSE m \in 1 .. 12 : MonthStart(y, m) <= day /\ (m < 12 => day < MonthStart(y, m + 1))

Civil(day) ==
    LET y == YearOf(day)
        m == MonthOf(day, y)
    IN  [year |-> y, month |-> m, day |-> day - MonthStart(y, m) + 1]
=============================================================================
