-------------------------- MODULE ProducerConsumer --------------------------
(***************************************************************************)
(* The producer and the consumer of src/线程池/tp_cond_mutex.cpp, the      *)
(* exercise of ThreadCond and ThreadMutex.  The consumer waits with no     *)
(* predicate and takes its item outside the lock, so everything rests on   *)
(* the producer: it signals after each item, urges the consumer while it   *)
(* lags, and at the end scans the queue and signals until no item is left. *)
(*                                                                         *)
(* idx_p, idx_c and queue are plain ints built without optimisation: a     *)
(* load or a store is one step, and the two stores of `queue[idx_c++] = 2' *)
(* come in either order.                                                   *)
(***************************************************************************)
EXTENDS Integers

CONSTANTS workload,   \* WORKLOAD, how many items are to be made
          Gap         \* 10, the lag from which the producer urges

ASSUME WorkAssumption == workload \in Nat \ {0} /\ Gap \in Nat \ {0}

VARIABLES
    queue,      \* per slot: 0 empty, 1 produced, 2 consumed
    idx_p,      \* the producer's slot, and the index of its final scan
    idx_c,      \* the consumer's slot
    mutex,      \* who holds the mutex
    ppc,        \* where thread_producer is
    cpc,        \* where thread_consumer is
    spurious,   \* whether the platform wakes a waiter without a signal
    verdict     \* what main has printed

vars == <<queue, idx_p, idx_c, mutex, ppc, cpc, spurious, verdict>>

Slot == 0 .. workload - 1

Init ==
    /\ queue = [s \in Slot |-> 0]
    /\ idx_p = 0
    /\ idx_c = 0
    /\ mutex = "none"
    /\ ppc = "lock"
    /\ cpc = "lock"
    /\ spurious \in BOOLEAN
    /\ verdict = "none"

-----------------------------------------------------------------------------
(* thread_producer                                                         *)
ProducerLock ==
    /\ ppc = "lock"
    /\ mutex = "none"
    /\ mutex' = "producer"
    /\ ppc' = "produce"
    /\ UNCHANGED <<queue, idx_p, idx_c, cpc, spurious, verdict>>

(* An occupied slot is reported ("produce exception") and left alone. *)
Produce ==
    /\ ppc = "produce"
    /\ IF queue[idx_p] = 0
       THEN /\ queue' = [queue EXCEPT ![idx_p] = 1]
            /\ idx_p' = idx_p + 1
       ELSE UNCHANGED <<queue, idx_p>>
    /\ ppc' = "signal"
    /\ UNCHANGED <<idx_c, mutex, cpc, spurious, verdict>>

(* thread_cond_signal, from each of its three places. *)
SignalFrom(here, next) ==
    /\ ppc = here
    /\ cpc' = IF cpc = "wait" THEN "relock" ELSE cpc
    /\ ppc' = next
    /\ UNCHANGED <<queue, idx_p, idx_c, mutex, spurious, verdict>>

ProducerUnlock ==
    /\ ppc = "unlock"
    /\ mutex' = "none"
    /\ ppc' = "gap"
    /\ UNCHANGED <<queue, idx_p, idx_c, cpc, spurious, verdict>>

(* Mutant: the producer urges as soon as there is no lag. *)
UrgeAlways ==
    /\ ppc = "gap"
    /\ ppc' = IF idx_p - idx_c >= 0 THEN "gapSignal"
              ELSE IF idx_p < workload THEN "lock" ELSE "rescan"
    /\ UNCHANGED <<queue, idx_p, idx_c, mutex, cpc, spurious, verdict>>

LookAtGap ==
    /\ ppc = "gap"
    /\ ppc' = IF idx_p - idx_c > Gap THEN "gapSignal"
              ELSE IF idx_p < workload THEN "lock" ELSE "rescan"
    /\ UNCHANGED <<queue, idx_p, idx_c, mutex, cpc, spurious, verdict>>

Rescan ==
    /\ ppc = "rescan"
    /\ idx_p' = 0
    /\ ppc' = "scan"
    /\ UNCHANGED <<queue, idx_c, mutex, cpc, spurious, verdict>>

(* Mutant: the producer looks at the queue once and leaves. *)
ScanOnce ==
    /\ ppc = "scan"
    /\ ppc' = "done"
    /\ UNCHANGED <<queue, idx_p, idx_c, mutex, cpc, spurious, verdict>>

(* One slot of the scan; an item still to be consumed ends it. *)
Scan ==
    /\ ppc = "scan"
    /\ \/ /\ idx_p < workload
          /\ queue[idx_p] = 1
          /\ ppc' = "urge"
          /\ UNCHANGED idx_p
       \/ /\ idx_p < workload
          /\ queue[idx_p] # 1
          /\ idx_p' = idx_p + 1
          /\ UNCHANGED ppc
       \/ /\ idx_p = workload
          /\ ppc' = "done"
          /\ UNCHANGED idx_p
    /\ UNCHANGED <<queue, idx_c, mutex, cpc, spurious, verdict>>

Producer == \/ ProducerLock \/ Produce
            \/ SignalFrom("signal", "unlock")
            \/ ProducerUnlock \/ LookAtGap
            \/ SignalFrom("gapSignal", "gap")
            \/ Rescan \/ Scan
            \/ SignalFrom("urge", "rescan")

-----------------------------------------------------------------------------
(* thread_consumer                                                         *)
ConsumerLock ==
    /\ cpc \in {"lock", "relock"}
    /\ mutex = "none"
    /\ mutex' = "consumer"
    /\ cpc' = IF cpc = "lock" THEN "enter" ELSE "unlock"
    /\ UNCHANGED <<queue, idx_p, idx_c, ppc, spurious, verdict>>

(* pthread_cond_wait: gives the mutex up and waits, in one step. *)
Wait ==
    /\ cpc = "enter"
    /\ mutex' = "none"
    /\ cpc' = "wait"
    /\ UNCHANGED <<queue, idx_p, idx_c, ppc, spurious, verdict>>

SpuriousWakeup ==
    /\ cpc = "wait"
    /\ spurious
    /\ cpc' = "relock"
    /\ UNCHANGED <<queue, idx_p, idx_c, mutex, ppc, spurious, verdict>>

ConsumerUnlock ==
    /\ cpc = "unlock"
    /\ mutex' = "none"
    /\ cpc' = "consume"
    /\ UNCHANGED <<queue, idx_p, idx_c, ppc, spurious, verdict>>

NextRound(next) == IF next < workload THEN "lock" ELSE "done"

(* No item is reported ("consume exception") and waited for again. *)
Consume ==
    /\ cpc = "consume"
    /\ \/ /\ queue[idx_c] = 1
          /\ queue' = [queue EXCEPT ![idx_c] = 2]
          /\ cpc' = "advance"
          /\ UNCHANGED idx_c
       \/ /\ queue[idx_c] = 1
          /\ idx_c' = idx_c + 1
          /\ cpc' = "mark"
          /\ UNCHANGED queue
       \/ /\ queue[idx_c] # 1
          /\ cpc' = "lock"
          /\ UNCHANGED <<queue, idx_c>>
    /\ UNCHANGED <<idx_p, mutex, ppc, spurious, verdict>>

Advance ==
    /\ cpc = "advance"
    /\ idx_c' = idx_c + 1
    /\ cpc' = NextRound(idx_c + 1)
    /\ UNCHANGED <<queue, idx_p, mutex, ppc, spurious, verdict>>

(* Mutant: the slot after the item is marked. *)
MarkNext ==
    /\ cpc = "mark"
    /\ queue' = [s \in Slot |-> IF s = idx_c THEN 2 ELSE queue[s]]
    /\ cpc' = NextRound(idx_c)
    /\ UNCHANGED <<idx_p, idx_c, mutex, ppc, spurious, verdict>>

Mark ==
    /\ cpc = "mark"
    /\ queue' = [queue EXCEPT ![idx_c - 1] = 2]
    /\ cpc' = NextRound(idx_c)
    /\ UNCHANGED <<idx_p, idx_c, mutex, ppc, spurious, verdict>>

Consumer == ConsumerLock \/ Wait \/ ConsumerUnlock \/ Consume \/ Advance \/ Mark

-----------------------------------------------------------------------------
(* main joins both threads and counts what was consumed. *)
Report ==
    /\ verdict = "none"
    /\ ppc = "done"
    /\ cpc = "done"
    /\ verdict' = IF \A s \in Slot : queue[s] = 2 THEN "success" ELSE "failure"
    /\ UNCHANGED <<queue, idx_p, idx_c, mutex, ppc, cpc, spurious>>

Next == Producer \/ Consumer \/ SpuriousWakeup \/ Report

Spec == Init /\ [][Next]_vars

(* The threads are scheduled; the mutex owes neither of them a turn. *)
Fairness == WF_vars(Producer) /\ WF_vars(Consumer) /\ WF_vars(Report)

FairSpec == Spec /\ Fairness

-----------------------------------------------------------------------------
ProducerPC == {"lock", "produce", "signal", "unlock", "gap", "gapSignal", "rescan", "scan", "urge", "done"}
ConsumerPC == {"lock", "enter", "wait", "relock", "unlock", "consume", "advance", "mark", "done"}

(* The types of the variables; the indices stay inside the queue. *)
TypeOK ==
    /\ queue \in [Slot -> 0 .. 2]
    /\ idx_p \in 0 .. workload
    /\ idx_c \in 0 .. workload
    /\ mutex \in {"none", "producer", "consumer"}
    /\ ppc \in ProducerPC
    /\ cpc \in ConsumerPC
    /\ spurious \in BOOLEAN
    /\ verdict \in {"none", "success", "failure"}

Scanning == ppc \in {"rescan", "scan", "urge", "done"}

(* Items are made and consumed in order although the consumer takes them   *)
(* outside the lock: the queue is consumed, then produced, then empty, the *)
(* producer always finds its slot empty (line 61 is never reached).        *)
InOrder == /\ \A s, t \in Slot : s <= t => queue[s] >= queue[t]
           /\ ppc = "produce" => queue[idx_p] = 0

(* The wait has no predicate, and needs none: without spurious wakeups a   *)
(* consumer that wakes up finds its item (line 102 is never reached), also *)
(* when the signal was meant for an item it had already taken.             *)
EveryWakeupHasItem == ~spurious /\ cpc = "consume" => queue[idx_c] = 1

(* The urging loop keeps the producer at most Gap + 1 items ahead.         *)
LagBounded == ~Scanning => idx_p - idx_c <= Gap + 1

(* The final scan is not atomic and holds no lock; when it ends there is   *)
(* no item left to consume, so main never reports failure.                 *)
NoItemLeft == /\ ppc = "done" => \A s \in Slot : queue[s] = 2
              /\ verdict # "failure"

(* Nobody waits for ever: main reports success.  (A platform that wakes    *)
(* the consumer spuriously again and again may keep the producer from the  *)
(* mutex, which is not a fair one.)                                        *)
Succeeds == ~spurious => <>(verdict = "success")
=============================================================================
