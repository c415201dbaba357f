------------------------------ MODULE MCLoggers ------------------------------
(* A program is linked with one of the two typed loggers: the variables of *)
(* the other keep their initial values.  One built-in type, an unused id   *)
(* after it, another name to register, and limits of nothing, two lines    *)
(* and one that wraps to zero.                                             *)
EXTENDS TypedLog, CLog, TLC

CONSTANTS n0, n1

MCNames == {n0, n1}
MCreg_table == 0 :> n0
MCFirst == 2
MCLimits == {0, 1, 4}

VARIABLE linked     \* "C" or "C++"

LoggersInit == linked \in {"C", "C++"} /\ Init /\ CInit

LoggersNext ==
    \/ linked = "C++" /\ Next /\ UNCHANGED <<linked, cvars>>
    \/ linked = "C" /\ CNext /\ UNCHANGED <<linked, vars>>

LoggersSpec == LoggersInit /\ [][LoggersNext]_<<linked, vars, cvars>>
=============================================================================
