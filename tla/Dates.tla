-------------------------------- MODULE Dates --------------------------------
(***************************************************************************)
(* What src/Tai/ and src/时间/ know of the calendar themselves: the lengths*)
(* of the months, which they write out wherever they need them, and the    *)
(* tests a date must pass before the C library (Calendar) is asked.        *)
(***************************************************************************)
EXTENDS Calendar

SecondsPerDay == 24 * 3600

(* The leap rule the code spells out wherever it needs one. *)
LeapRule(y) == (y % 4 = 0 /\ y % 100 # 0) \/ (y % 400 = 0 /\ y % 3200 # 0) \/ y % 172800 = 0

(* Mutant: a century year is a leap year. *)
DaysInJulian(y, m) == IF m \in {1, 3, 5, 7, 8, 10, 12} THEN 31
                      ELSE IF m \in {4, 6, 9, 11} THEN 30
                      ELSE IF y % 4 = 0 THEN 29 ELSE 28

DaysIn(y, m) == IF m \in {1, 3, 5, 7, 8, 10, 12} THEN 31
                ELSE IF m \in {4, 6, 9, 11} THEN 30
                ELSE IF LeapRule(y) THEN 29 ELSE 28

Accepts(c) == /\ c.year >= 1970
              /\ c.month \in 1 .. 12
              /\ c.day \in 0 .. DaysIn(c.year, c.month)
=============================================================================
