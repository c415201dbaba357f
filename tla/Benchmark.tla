------------------------------ MODULE Benchmark ------------------------------
(***************************************************************************)
(* src/工具/benchmark.c: a loop that counts its rounds until the handler   *)
(* of SIGALRM clears m_iLoop.  The timer is set before the loop starts, so *)
(* it may expire before the first round.                                   *)
(*                                                                         *)
(* m_iLoop is not volatile: a build may test it once, before the loop, and *)
(* `hoisted' says whether this one does.  The handler ignores SIGALRM from *)
(* then on, whoever sent it: one may come from elsewhere.                  *)
(***************************************************************************)
EXTENDS Integers

CONSTANT MaxRound   \* bound: rounds are not counted any further

VARIABLES
    pc,         \* what main does next
    m_iLoop,
    m_iRound,
    timer,      \* alarm(3) was called and did not expire
    action,     \* what SIGALRM does
    hoisted,    \* the build tests m_iLoop once
    foreign     \* where main was when a SIGALRM came from elsewhere

vars == <<pc, m_iLoop, m_iRound, timer, action, hoisted, foreign>>

Ended == {"exited", "killed"}

Init ==
    /\ pc = "signal"
    /\ m_iLoop = 0
    /\ m_iRound = 0
    /\ timer = FALSE
    /\ action = "default"
    /\ hoisted \in BOOLEAN
    /\ foreign = "never"

Install ==
    /\ pc = "signal"
    /\ action' = "handler"
    /\ pc' = "set"
    /\ UNCHANGED <<m_iLoop, m_iRound, timer, hoisted, foreign>>

benchmark_set ==
    /\ pc = "set"
    /\ m_iRound' = 0
    /\ m_iLoop' = 1
    /\ pc' = "alarm"
    /\ UNCHANGED <<timer, action, hoisted, foreign>>

Arm ==
    /\ pc = "alarm"
    /\ timer' = TRUE
    /\ pc' = "loop"
    /\ UNCHANGED <<m_iLoop, m_iRound, action, hoisted, foreign>>

Test ==
    /\ pc = "loop"
    /\ pc' = IF m_iLoop = 1 THEN "count" ELSE "report"
    /\ UNCHANGED <<m_iLoop, m_iRound, timer, action, hoisted, foreign>>

Round ==
    /\ pc = "count"
    /\ m_iRound' = IF m_iRound < MaxRound THEN m_iRound + 1 ELSE m_iRound
    /\ pc' = IF hoisted THEN "count" ELSE "loop"
    /\ UNCHANGED <<m_iLoop, timer, action, hoisted, foreign>>

Report ==
    /\ pc = "report"
    /\ pc' = "exited"
    /\ UNCHANGED <<m_iLoop, m_iRound, timer, action, hoisted, foreign>>

-----------------------------------------------------------------------------
(* Mutant: the handler forgets the loop. *)
IgnoreOnly ==
    /\ action' = "ignore"
    /\ UNCHANGED <<pc, m_iLoop>>

signal_handler ==
    /\ action' = "ignore"
    /\ m_iLoop' = 0
    /\ UNCHANGED pc

(* The signal is delivered between two statements of main.                 *)
SIGALRM ==
    \/ action = "default" /\ pc' = "killed" /\ UNCHANGED <<m_iLoop, action>>
    \/ action = "handler" /\ signal_handler
    \/ action = "ignore" /\ UNCHANGED <<pc, m_iLoop, action>>

Expires ==
    /\ pc \notin Ended
    /\ timer
    /\ timer' = FALSE
    /\ SIGALRM
    /\ UNCHANGED <<m_iRound, hoisted, foreign>>

(* Bound: one. *)
SIGALRMFromElsewhere ==
    /\ pc \notin Ended
    /\ foreign = "never"
    /\ foreign' = pc
    /\ SIGALRM
    /\ UNCHANGED <<m_iRound, timer, hoisted>>

Main == Install \/ benchmark_set \/ Arm \/ Test \/ Round \/ Report

Next == Main \/ Expires \/ SIGALRMFromElsewhere

Spec == Init /\ [][Next]_vars /\ WF_vars(Main) /\ WF_vars(Expires)

-----------------------------------------------------------------------------
(* The benchmark reports and exits, however the timer falls among its      *)
(* rounds and even with another SIGALRM during them (benchmark.c:40-41,    *)
(* 57-60,72).  Two things keep it running for ever: a build that tests     *)
(* m_iLoop once, and a SIGALRM between signal() and m_iLoop = 1, which is  *)
(* forgotten while the one of the timer is ignored.                        *)
BenchmarkEnds == <>(pc \in Ended \/ hoisted \/ foreign = "set")
=============================================================================
