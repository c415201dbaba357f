-------------------------------- MODULE Tai --------------------------------
(***************************************************************************)
(* The clock arithmetic of src/Tai/tai.{h,cpp}, src/时间/time_conver.c and *)
(* src/时间/month_rotate.cpp: a clock is entered and turned into a TAI     *)
(* time (seconds since 2004-01-01), the add functions move it, and the     *)
(* monthly rotation moves it to the next first of a month.  Which text is  *)
(* read or printed is left to TimeConver.                                  *)
(* A time is its day and its second of the day: the code's m_time is       *)
(* day * SecondsPerDay + second.                                           *)
(***************************************************************************)
EXTENDS Dates, FiniteSets

CONSTANTS Clocks,     \* the dates entered: records of year, month, day
          Daytimes,   \* the seconds of a day entered
          Amounts,    \* the amounts added: unit -> set of numbers
          MaxCalls    \* bound: calls in a row

(* From the year the code's tests require to the last one before its leap  *)
(* rule leaves the calendar's.                                             *)
Years == 1970 .. 3199
Units == {"years", "months", "weeks", "days", "hours", "minutes", "seconds"}

ASSUME TaiAssumption ==
    /\ Clocks \subseteq [year : Years, month : Int, day : Int]
    /\ Daytimes \subseteq 0 .. SecondsPerDay - 1
    /\ \A unit \in Units : Amounts[unit] \subseteq Nat

VARIABLES clock,   \* the date entered
          m_time,  \* the TAI time
          state,   \* what became of the clock
          calls    \* how many times m_time was moved

vars == <<clock, m_time, state, calls>>

Init == /\ clock \in Clocks
        /\ m_time = [day |-> 0, second |-> 0]
        /\ state = "entered"
        /\ calls = 0

Today == Civil(m_time.day)

-----------------------------------------------------------------------------
(* mktime *)
SetFrom(c) == \E s \in Daytimes :
                 m_time' = [day |-> DayNumber(c.year, c.month, c.day), second |-> s]

(* Tai(const std::string&): no date is refused. *)
Construct == /\ state = "entered"
             /\ SetFrom(clock)
             /\ state' = "constructed"
             /\ UNCHANGED <<clock, calls>>

(* clock_to_other and clock_to_epoch: the tests, then mktime. *)
Convert == /\ state = "entered"
           /\ IF Accepts(clock)
              THEN SetFrom(clock) /\ state' = "accepted"
              ELSE state' = "rejected" /\ UNCHANGED m_time
           /\ UNCHANGED <<clock, calls>>

-----------------------------------------------------------------------------
MoveTo(day, second) == /\ state \in {"accepted", "constructed"}
                       /\ calls < MaxCalls
                       /\ m_time' = [day |-> day, second |-> second]
                       /\ calls' = calls + 1
                       /\ UNCHANGED <<clock, state>>

(* m_time += n *)
Advance(n) == LET s == m_time.second + n
              IN  MoveTo(m_time.day + (s \div SecondsPerDay), s % SecondsPerDay)

(* Mutant: it is the year begun that is counted, not the one left. *)
LeapsBegun(year, n) == Cardinality({i \in 1 .. n : LeapRule(year + i)})

LeapYears(year, n) == Cardinality({i \in 0 .. n - 1 : LeapRule(year + i)})

(* 365 days a year and one for each leap year from this year on; after     *)
(* February the first of them is not counted, whichever year it is.        *)
addYears(n) ==
    LET now   == Today
        leaps == LeapYears(now.year, n)
        days  == 365 * n + (IF now.month <= 2 \/ leaps = 0 THEN leaps ELSE leaps - 1)
    IN  Advance(days * SecondsPerDay)

(* Mutant: the year is not carried. *)
SameYear(now, i) == DaysIn(now.year, ((now.month - 1 + i) % 12) + 1)

(* The length of the month that is i months on.  December is entered as    *)
(* month 1 of the next year, which is as long.                             *)
MonthLength(now, i) ==
    LET month == (now.month + i) % 12
        year  == now.year + ((now.month + i) \div 12)
    IN  DaysIn(year, IF month = 0 THEN 1 ELSE month)

(* days after n rounds of the loop. *)
MonthLengths(now, n) ==
    LET days[i \in 0 .. n] == IF i = 0 THEN 0 ELSE days[i - 1] + MonthLength(now, i - 1)
    IN  days[n]

addMonths(n) == Advance(MonthLengths(Today, n) * SecondsPerDay)

addWeeks(n) == Advance(n * 7 * 24 * 3600)
addDays(n) == Advance(n * 24 * 3600)
addHours(n) == Advance(n * 3600)
addMinutes(n) == Advance(n * 60)
addSeconds(n) == Advance(n)

-----------------------------------------------------------------------------
(* Mutant: the month is counted from today, not from its first. *)
RotateFromToday == MoveTo(m_time.day + DaysIn(Today.year, Today.month), 0)

(* From midnight of the first of this month, as many days as it has.       *)
next_rotation_tp ==
    MoveTo(DayNumber(Today.year, Today.month, 1) + DaysIn(Today.year, Today.month), 0)

-----------------------------------------------------------------------------
Next == \/ Construct
        \/ Convert
        \/ \E n \in Amounts["years"] : addYears(n)
        \/ \E n \in Amounts["months"] : addMonths(n)
        \/ \E n \in Amounts["weeks"] : addWeeks(n)
        \/ \E n \in Amounts["days"] : addDays(n)
        \/ \E n \in Amounts["hours"] : addHours(n)
        \/ \E n \in Amounts["minutes"] : addMinutes(n)
        \/ \E n \in Amounts["seconds"] : addSeconds(n)
        \/ next_rotation_tp

Spec == Init /\ [][Next]_vars

-----------------------------------------------------------------------------
(* The same day of the month and time of day, some months on, where mktime *)
(* carries a day past the end of its month.                                *)
MonthsOn(months) ==
    [day    |-> DayNumber(Today.year, Today.month + months, Today.day),
     second |-> m_time.second]

(* The hand-written month lengths and leap rule agree with the calendar    *)
(* (time_conver.c:86-111): a date is accepted exactly when there is such a *)
(* day, or when its day is 0, the last day of the month before; and an     *)
(* accepted date is the date that is printed back.                         *)
AcceptsRealDates ==
    LET real == /\ clock.month \in 1 .. 12
                /\ clock.day > 0
                /\ Civil(DayNumber(clock.year, clock.month, clock.day)) = clock
    IN  /\ real => state # "rejected"
        /\ state = "accepted" => real \/ clock.day = 0
        /\ real /\ state = "accepted" /\ calls = 0 => Today = clock

(* addMonths (tai.cpp:72-104) moves to the same day of the month and the   *)
(* same time of day, over ends of years and leap days.                     *)
MonthsExact ==
    [][\A n \in Amounts["months"] : addMonths(n) => m_time' = MonthsOn(n)]_vars

(* In January and February addYears (tai.cpp:39-70) moves to the same day  *)
(* of the year, over leap years and century years.                         *)
YearsExactEarly ==
    [][\A n \in Amounts["years"] :
          addYears(n) /\ Today.month <= 2 => m_time' = MonthsOn(12 * n)]_vars

(* A month is rotated at the first midnight of the next month              *)
(* (month_rotate.cpp:93-146): no month is passed over or rotated twice,    *)
(* however late in the month the rotation is asked for.                    *)
RotationExact ==
    [][next_rotation_tp =>
          /\ m_time'.second = 0
          /\ Today'.day = 1
          /\ Today'.month = (Today.month % 12) + 1
          /\ Today'.year = IF Today.month = 12 THEN Today.year + 1 ELSE Today.year]_vars

(* What tai.h:13 says of addYears (years - ok): it moves to the same day   *)
(* of the year, in any month.                                              *)
YearsExact ==
    [][\A n \in Amounts["years"] : addYears(n) => m_time' = MonthsOn(12 * n)]_vars
=============================================================================
