------------------------------ MODULE TimeConver ------------------------------
(***************************************************************************)
(* The program src/时间/time_conver.c: its options are converted one after *)
(* the other into the same three variables, which are printed at the end.  *)
(* Times are seconds; localtime is Beijing time, eight hours ahead.  A     *)
(* text is a sequence of digits, separators and letters.  clock_time is    *)
(* never cleared: a text is copied over the beginning of the one before.   *)
(* Texts longer than the buffer, numbers in them that no int holds, and    *)
(* plus signs are left out.                                                *)
(***************************************************************************)
EXTENDS Dates, Sequences

CONSTANTS
    Chars,      \* what texts are made of: 0 .. 9 are the digits
    Dash, Blank, Colon,     \* and these the separators
    Texts,      \* what is given to -c
    Numbers,    \* what is given to -e and -t
    OutOfRange, \* a number that no long holds
    Now,        \* what gettimeofday may answer
    MaxOptions  \* bound: options on the command line

VARIABLES
    ret, clock_time, epoch_time, tai_time,  \* as in main
    status,     \* "options", or how main ended
    given       \* the options so far

conver == <<ret, clock_time, epoch_time, tai_time, status, given>>

ConverInit ==
    /\ ret = -1
    /\ clock_time = <<>>
    /\ epoch_time = 0
    /\ tai_time = 0
    /\ status = "options"
    /\ given = <<>>

ORIGIN == 1072915200

-----------------------------------------------------------------------------
(* Time to text.                                                           *)
Local(epoch) == epoch - ORIGIN + 8 * 3600
LocalDate(epoch) == Civil(Local(epoch) \div SecondsPerDay)

(* Years of four digits are all that strftime is modelled for. *)
FourDigits(epoch) ==
    epoch \in Int /\ 1000 <= LocalDate(epoch).year /\ LocalDate(epoch).year < 10000

ASSUME ConverAssumption ==
    /\ 0 .. 9 \subseteq Chars
    /\ {Dash, Blank, Colon} \subseteq Chars
    /\ Dash \notin 0 .. 9 /\ Blank \notin 0 .. 9 /\ Colon \notin 0 .. 9
    /\ Dash # Blank /\ Dash # Colon /\ Blank # Colon
    /\ Texts \subseteq Seq(Chars)
    /\ \A n \in Numbers : n = OutOfRange \/ (FourDigits(n) /\ FourDigits(n + ORIGIN))
    /\ \A now \in Now : FourDigits(now)

Digit(n, unit) == (n \div unit) % 10

strftime(c, second) ==
    LET hour == second \div 3600
        minute == (second \div 60) % 60
        sec == second % 60
    IN <<Digit(c.year, 1000), Digit(c.year, 100), Digit(c.year, 10), Digit(c.year, 1), Dash,
         Digit(c.month, 10), Digit(c.month, 1), Dash, Digit(c.day, 10), Digit(c.day, 1), Blank,
         Digit(hour, 10), Digit(hour, 1), Colon, Digit(minute, 10), Digit(minute, 1), Colon,
         Digit(sec, 10), Digit(sec, 1)>>

Formatted(epoch) == strftime(LocalDate(epoch), Local(epoch) % SecondsPerDay)

memcpy(text) == text \o SubSeq(clock_time, Len(text) + 1, Len(clock_time))

-----------------------------------------------------------------------------
(* Text to time: sscanf goes through the text with "%d-%d-%d %d:%d:%d".    *)
(* Before a number there may be blanks and a sign; done are the numbers    *)
(* that another character has ended.                                       *)
format == <<Dash, Dash, Blank, Colon, Colon>>

Before(done) == [done |-> done, at |-> "blanks", sign |-> 1, value |-> 0]

Begin(s, ch) ==
    IF s.at = "blanks" /\ ch = Blank THEN s
    ELSE IF s.at = "blanks" /\ ch = Dash THEN [s EXCEPT !.at = "sign", !.sign = -1]
    ELSE IF ch \in 0 .. 9 THEN [s EXCEPT !.at = "number", !.value = ch]
    ELSE [s EXCEPT !.at = "stopped"]

(* The blank of the format stands for any number of them, also for none.   *)
Separate(s, ch) ==
    LET n == Len(s.done)
    IN IF n = 3 THEN Begin(s, ch)
       ELSE IF n < 6 /\ ch = format[n] THEN s
       ELSE [s EXCEPT !.at = "stopped"]

Scan(s, ch) ==
    IF s.at = "stopped" THEN s
    ELSE IF s.at # "number" THEN Begin(s, ch)
    ELSE IF ch \in 0 .. 9 THEN [s EXCEPT !.value = 10 * s.value + ch]
    ELSE Separate(Before(Append(s.done, s.sign * s.value)), ch)

Scanned(text) ==
    LET after[k \in 0 .. Len(text)] == IF k = 0 THEN Before(<<>>) ELSE Scan(after[k - 1], text[k])
    IN after[Len(text)]

(* The numbers that were read. *)
Numerals(s) == IF s.at = "number" THEN Append(s.done, s.sign * s.value) ELSE s.done
sscanf(text) == Numerals(Scanned(text))

(* What sscanf returns: EOF if there were only blanks. *)
Count(text) == IF Scanned(text) = Before(<<>>) THEN -1 ELSE Len(sscanf(text))

IsClock(n) ==
    /\ Len(n) = 6
    /\ Accepts([year |-> n[1], month |-> n[2], day |-> n[3]])
    /\ n[4] \in 0 .. 23 /\ n[5] \in 0 .. 59 /\ n[6] \in 0 .. 59

mktime(n) ==
    ORIGIN + DayNumber(n[1], n[2], n[3]) * SecondsPerDay + n[4] * 3600 + n[5] * 60 + n[6] - 8 * 3600

-----------------------------------------------------------------------------
Option(o) ==
    /\ status = "options"
    /\ Len(given) < MaxOptions
    /\ given' = Append(given, o)

(* sscanf's count is what clock_to_other returns when it is not 6, also    *)
(* when it is 0, and for a date that is refused; then main ends.           *)
clock_to_other(text) ==
    LET n == sscanf(memcpy(text)) IN
    /\ Option([letter |-> "c", arg |-> text])
    /\ clock_time' = memcpy(text)
    /\ IF IsClock(n)
       THEN epoch_time' = mktime(n) /\ tai_time' = mktime(n) - ORIGIN /\ ret' = 0
       ELSE ret' = Count(memcpy(text)) /\ UNCHANGED <<epoch_time, tai_time>>
    /\ status' = IF ret' = 0 THEN "options" ELSE "failed"

(* Mutant: the TAI time is not set. *)
EpochOnly(epoch) ==
    /\ epoch_time' = epoch
    /\ clock_time' = memcpy(Formatted(epoch))
    /\ ret' = 0
    /\ UNCHANGED <<tai_time, status>>

epoch_to_other(epoch) ==
    /\ epoch_time' = epoch
    /\ tai_time' = epoch - ORIGIN
    /\ clock_time' = memcpy(Formatted(epoch))
    /\ ret' = 0
    /\ UNCHANGED status

(* main ends with the result of the option before. *)
RangeError == status' = "failed" /\ UNCHANGED <<ret, clock_time>>

OptionE(n) ==
    /\ Option([letter |-> "e", arg |-> n])
    /\ IF n = OutOfRange
       THEN RangeError /\ epoch_time' = n /\ UNCHANGED tai_time
       ELSE epoch_to_other(n)

(* tai_to_other: the same for n + ORIGIN.                                  *)
OptionT(n) ==
    /\ Option([letter |-> "t", arg |-> n])
    /\ IF n = OutOfRange
       THEN RangeError /\ tai_time' = n /\ UNCHANGED epoch_time
       ELSE epoch_to_other(n + ORIGIN)

now_to_other(now) ==
    /\ Option([letter |-> "n", arg |-> now])
    /\ epoch_to_other(now)

(* No option was given, and the usage is printed, or the three times are.  *)
PrintTimes ==
    /\ status = "options"
    /\ status' = IF ret = 0 THEN "printed" ELSE "failed"
    /\ UNCHANGED <<ret, clock_time, epoch_time, tai_time, given>>

ConverNext ==
    \/ \E text \in Texts : clock_to_other(text)
    \/ \E n \in Numbers : OptionE(n) \/ OptionT(n)
    \/ \E now \in Now : now_to_other(now)
    \/ PrintTimes

ConverSpec == ConverInit /\ [][ConverNext]_conver

-----------------------------------------------------------------------------
(* The time an option asks for. *)
Asked(o) == IF o.letter = "c" THEN mktime(sscanf(o.arg)) ELSE IF o.letter = "t" THEN o.arg + ORIGIN ELSE o.arg

(* How much of clock_time an option writes. *)
Extent(o) == IF o.letter = "c" THEN Len(o.arg) ELSE Len(strftime(Civil(0), 0))

(* Of several options the last one counts: the three times that are        *)
(* printed are one moment, the clock time read back included, and it is    *)
(* the one the last option asks for (time_conver.c:196-249).  The code     *)
(* falls short of it in four ways.  A -c text shorter than what an earlier *)
(* option left takes over the rest of it (line 199); the clock time of -e, *)
(* -t or -n keeps the end of an earlier text with more characters, behind  *)
(* its seconds (line 58); a text that does not start with a number is no   *)
(* error, as sscanf's 0 is returned (lines 76-79), and leaves the times of *)
(* before; and a number out of range ends the program with the result of   *)
(* the option before it, which is success (lines 209-224).                 *)
LastOptionCounts ==
    LET last == given[Len(given)]
        nonsense == last.letter = "c" /\ sscanf(last.arg) = <<>>
        leftover == \E k \in DOMAIN given : Extent(given[k]) > Extent(last)
    IN /\ status = "printed" =>
              \/ nonsense
              \/ /\ tai_time = epoch_time - ORIGIN
                 /\ last.letter = "c" \/ ~leftover => mktime(sscanf(clock_time)) = epoch_time
                 /\ last.letter # "c" \/ ~leftover => epoch_time = Asked(last)
       /\ status = "failed" /\ ret = 0 =>
              Len(given) > 1 /\ last.letter \in {"e", "t"} /\ last.arg = OutOfRange
=============================================================================
