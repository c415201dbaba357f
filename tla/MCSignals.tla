------------------------------ MODULE MCSignals ------------------------------
(* Two programs that share a variable with a signal handler.  A behaviour  *)
(* is one of either; the variables of the other keep their values.         *)
EXTENDS MemoryIncrease

CONSTANT MaxRound

VARIABLES program, next, m_iLoop, m_iRound, timer, action, hoisted, foreign

B == INSTANCE Benchmark WITH pc <- next

bench == <<next, m_iLoop, m_iRound, timer, action, hoisted, foreign>>

SignalsInit == program \in {"memory", "benchmark"} /\ MemoryInit /\ B!Init

Runs(Step) == program = "benchmark" /\ Step /\ UNCHANGED <<program, memory_vars>>

SignalsNext ==
    \/ program = "memory" /\ MemoryNext /\ UNCHANGED <<program, bench>>
    \/ Runs(B!Next)

SignalsSpec ==
    /\ SignalsInit /\ [][SignalsNext]_<<program, memory_vars, bench>>
    /\ WF_bench(Runs(B!Main)) /\ WF_bench(Runs(B!Expires))

(* The promise of Benchmark, for the behaviours that are its own. *)
BenchmarkEnds == program = "benchmark" => B!BenchmarkEnds

=============================================================================
