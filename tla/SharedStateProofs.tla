------------------------- MODULE SharedStateProofs --------------------------
(***************************************************************************)
(* Proofs about two programs that change plain variables while another     *)
(* actor looks at them: ProducerConsumer, for any number of items and any  *)
(* lag from which the producer urges, and MemoryIncrease, where the other  *)
(* actor is a signal handler, for any number of blocks.                    *)
(***************************************************************************)
EXTENDS ProducerConsumer, MemoryIncrease, TLAPS

(* How many items were made, and how many are marked consumed.             *)
Made == IF Scanning THEN workload ELSE idx_p
Used == IF cpc = "advance" THEN idx_c + 1 ELSE IF cpc = "mark" THEN idx_c - 1 ELSE idx_c

(* The queue is consumed below Used, produced below Made, and empty above, *)
(* whichever of its two stores the consumer has made.                      *)
Shape == /\ Used \in 0 .. Made
         /\ idx_c <= Made
         /\ \A s \in Slot : queue[s] = IF s < Used THEN 2 ELSE IF s < Made THEN 1 ELSE 0

(* Inside their loops the threads have a slot to work on.                  *)
Inside == /\ ppc \in {"lock", "produce"} => idx_p < workload
          /\ cpc \notin {"mark", "done"} => idx_c < workload

(* The mutex is held by exactly the thread inside its critical section.    *)
Mutex == /\ mutex = "producer" <=> ppc \in {"produce", "signal", "unlock"}
         /\ mutex = "consumer" <=> cpc \in {"enter", "unlock"}

(* How far the producer may be ahead.                                      *)
Lag == /\ ppc \in {"lock", "produce"} => idx_p - idx_c <= Gap
       /\ ppc \in {"signal", "unlock", "gap", "gapSignal"} => idx_p - idx_c <= Gap + 1

(* The slots the final scan has passed, and those of a finished scan.      *)
Passed == /\ ppc = "scan" => \A s \in Slot : s < idx_p => queue[s] = 2
          /\ NoItemLeft

(* Without spurious wakeups: a signal in the making that can wake the      *)
(* consumer has an item for it, and so has a consumer that was woken.      *)
Woken == cpc \in {"relock", "unlock", "consume"}
Wakes == ~spurious =>
           /\ Woken => idx_c < Made
           /\ ppc = "signal" /\ cpc = "wait" => idx_c < idx_p
           /\ ppc = "gapSignal" =>
                idx_p - idx_c >= IF Woken \/ cpc = "advance" THEN 2 ELSE 1

Inv == TypeOK /\ Shape /\ Inside /\ Mutex /\ Lag /\ Passed /\ Wakes

USE DEF Slot
-----------------------------------------------------------------------------
LEMMA InitInv == Init => Inv
BY WorkAssumption DEF Init, Inv, TypeOK, Shape, Inside, Mutex, Lag, Passed, Wakes, Woken,
   Made, Used, Scanning, NoItemLeft, ProducerPC, ConsumerPC

(* The step that consumes an item finds its slot produced.                 *)
LEMMA FoundItem ==
  ASSUME Inv, cpc = "consume"
  PROVE  /\ idx_c \in Slot
         /\ queue[idx_c] = 1 <=> idx_c < Made
<1> USE WorkAssumption DEF Inv, TypeOK, Shape, Inside
<1>1. idx_c \in Slot /\ Used = idx_c
  BY DEF Used
<1>2. queue[idx_c] = IF idx_c < Made THEN 1 ELSE 0
  BY <1>1
<1> QED
  BY <1>1, <1>2

LEMMA TypeStep == Inv /\ [Next]_vars => TypeOK'
<1> SUFFICES ASSUME Inv, [Next]_vars PROVE TypeOK'
  OBVIOUS
<1> USE WorkAssumption DEF Inv, TypeOK, Inside, ProducerPC, ConsumerPC
<1>1. CASE Producer
  BY <1>1 DEF Producer, ProducerLock, Produce, SignalFrom, ProducerUnlock, LookAtGap, Rescan, Scan
<1>2. CASE Consumer
  <2>1. CASE Consume
    BY <2>1, FoundItem DEF Consume
  <2>2. CASE Advance
    BY <2>2 DEF Advance, NextRound
  <2>3. CASE Mark
    <3>1. idx_c - 1 \in Slot
      BY <2>3 DEF Mark, Shape, Used
    <3>2. queue' \in [Slot -> 0 .. 2]
      BY <2>3, <3>1 DEF Mark
    <3> QED
      BY <2>3, <3>2 DEF Mark, NextRound
  <2> QED
    BY <1>2, <2>1, <2>2, <2>3 DEF Consumer, ConsumerLock, Wait, ConsumerUnlock
<1>3. CASE SpuriousWakeup \/ Report \/ UNCHANGED vars
  BY <1>3 DEF SpuriousWakeup, Report, vars
<1> QED
  BY <1>1, <1>2, <1>3 DEF Next

LEMMA ShapeStep == Inv /\ [Next]_vars => Shape'
<1> SUFFICES ASSUME Inv, [Next]_vars PROVE Shape'
  OBVIOUS
<1> USE WorkAssumption DEF Inv, TypeOK, Inside, Shape, Made, Used, Scanning
<1>1. CASE Producer
  <2>1. CASE Produce
    <3>1. idx_p \in Slot /\ queue[idx_p] = 0
      BY <2>1 DEF Produce
    <3>2. queue' = [queue EXCEPT ![idx_p] = 1] /\ idx_p' = idx_p + 1 /\ Made' = Made + 1 /\ Used' = Used
      BY <2>1, <3>1 DEF Produce
    <3> QED
      BY <2>1, <3>1, <3>2 DEF Produce
  <2>2. CASE ProducerLock \/ ProducerUnlock \/ Rescan \/ Scan
    BY <2>2 DEF ProducerLock, ProducerUnlock, Rescan, Scan
  <2>3. CASE LookAtGap
    <3>1. Made' = Made /\ Used' = Used
      BY <2>3 DEF LookAtGap
    <3> QED
      BY <2>3, <3>1 DEF LookAtGap
  <2>4. CASE SignalFrom("signal", "unlock") \/ SignalFrom("gapSignal", "gap") \/ SignalFrom("urge", "rescan")
    BY <2>4 DEF SignalFrom
  <2> QED
    BY <1>1, <2>1, <2>2, <2>3, <2>4 DEF Producer
<1>2. CASE Consumer
  <2>1. CASE ConsumerLock \/ Wait \/ ConsumerUnlock
    BY <2>1 DEF ConsumerLock, Wait, ConsumerUnlock
  <2>2. CASE Consume
    <3>1. idx_c \in Slot /\ Used = idx_c /\ (queue[idx_c] = 1 <=> idx_c < Made) /\ Made' = Made
      BY <2>2, FoundItem DEF Consume
    <3>2. CASE cpc' = "advance"
      BY <2>2, <3>1, <3>2 DEF Consume
    <3>3. CASE cpc' # "advance"
      BY <2>2, <3>1, <3>3 DEF Consume
    <3> QED
      BY <3>2, <3>3
  <2>3. CASE Advance
    <3>1. Used' = Used /\ Made' = Made /\ queue' = queue
      BY <2>3 DEF Advance, NextRound
    <3> QED
      BY <2>3, <3>1 DEF Advance
  <2>4. CASE Mark
    <3>1. Used' = Used + 1 /\ Made' = Made /\ idx_c - 1 = Used
      BY <2>4 DEF Mark, NextRound
    <3>2. queue' = [queue EXCEPT ![Used] = 2]
      BY <2>4, <3>1 DEF Mark
    <3> QED
      BY <2>4, <3>1, <3>2 DEF Mark
  <2> QED
    BY <1>2, <2>1, <2>2, <2>3, <2>4 DEF Consumer
<1>3. CASE SpuriousWakeup \/ Report \/ UNCHANGED vars
  BY <1>3 DEF SpuriousWakeup, Report, vars
<1> QED
  BY <1>1, <1>2, <1>3 DEF Next

(* The simple parts: where the threads are, who has the mutex, the lag.    *)
LEMMA ControlStep == Inv /\ [Next]_vars => Inside' /\ Mutex' /\ Lag'
<1> SUFFICES ASSUME Inv, [Next]_vars PROVE Inside' /\ Mutex' /\ Lag'
  OBVIOUS
<1> USE WorkAssumption DEF Inv, TypeOK, Inside, Mutex, Lag, ProducerPC, ConsumerPC
<1>1. CASE Producer
  <2>1. CASE Produce
    BY <2>1 DEF Produce
  <2>2. CASE LookAtGap
    BY <2>2 DEF LookAtGap
  <2>3. CASE SignalFrom("signal", "unlock") \/ SignalFrom("gapSignal", "gap") \/ SignalFrom("urge", "rescan")
    BY <2>3 DEF SignalFrom
  <2> QED
    BY <1>1, <2>1, <2>2, <2>3 DEF Producer, ProducerLock, ProducerUnlock, Rescan, Scan
<1>2. CASE Consumer
  <2>1. CASE Consume
    BY <2>1, FoundItem DEF Consume
  <2>2. CASE Advance \/ Mark
    BY <2>2 DEF Advance, Mark, NextRound
  <2> QED
    BY <1>2, <2>1, <2>2 DEF Consumer, ConsumerLock, Wait, ConsumerUnlock
<1>3. CASE SpuriousWakeup \/ Report \/ UNCHANGED vars
  BY <1>3 DEF SpuriousWakeup, Report, vars
<1> QED
  BY <1>1, <1>2, <1>3 DEF Next

(* What is consumed stays consumed, so the unlocked scan may trust what it *)
(* has seen.                                                               *)
LEMMA ConsumedStays ==
  ASSUME Inv, [Next]_vars, NEW s \in Slot, queue[s] = 2
  PROVE  queue'[s] = 2
<1> USE WorkAssumption DEF Inv, TypeOK
<1>1. CASE Producer
  BY <1>1 DEF Producer, ProducerLock, Produce, SignalFrom, ProducerUnlock, LookAtGap, Rescan, Scan
<1>2. CASE Consumer
  BY <1>2 DEF Consumer, ConsumerLock, Wait, ConsumerUnlock, Consume, Advance, Mark
<1>3. CASE SpuriousWakeup \/ Report \/ UNCHANGED vars
  BY <1>3 DEF SpuriousWakeup, Report, vars
<1> QED
  BY <1>1, <1>2, <1>3 DEF Next

LEMMA PassedStep == Inv /\ [Next]_vars => Passed'
<1> SUFFICES ASSUME Inv, [Next]_vars PROVE Passed'
  OBVIOUS
<1> USE WorkAssumption DEF Inv, Passed, NoItemLeft
<1>0. \A s \in Slot : queue[s] = 2 => queue'[s] = 2
  BY ConsumedStays
<1>1. CASE Producer
  <2>1. CASE Rescan
    BY <2>1 DEF Rescan
  <2>2. CASE Scan
    <3>1. ppc = "scan" /\ queue' = queue /\ Made = workload
      BY <2>2 DEF Scan, Made, Scanning
    <3>2. idx_p \in Slot /\ queue[idx_p] # 1 => queue[idx_p] = 2
      BY <3>1 DEF Shape
    <3> QED
      BY <2>2, <3>1, <3>2 DEF Scan, TypeOK
  <2>3. CASE SignalFrom("signal", "unlock") \/ SignalFrom("gapSignal", "gap") \/ SignalFrom("urge", "rescan")
    BY <2>3 DEF SignalFrom
  <2> QED
    BY <1>1, <2>1, <2>2, <2>3 DEF Producer, ProducerLock, Produce, ProducerUnlock, LookAtGap
<1>2. CASE Consumer
  BY <1>0, <1>2 DEF Consumer, ConsumerLock, Wait, ConsumerUnlock, Consume, Advance, Mark
<1>3. CASE SpuriousWakeup \/ Report \/ UNCHANGED vars
  BY <1>3 DEF SpuriousWakeup, Report, vars
<1> QED
  BY <1>1, <1>2, <1>3 DEF Next

LEMMA WakesStep == Inv /\ [Next]_vars => Wakes'
<1> SUFFICES ASSUME Inv, [Next]_vars PROVE Wakes'
  OBVIOUS
<1>0. UNCHANGED spurious
  <2>1. CASE Producer
    BY <2>1 DEF Producer, ProducerLock, Produce, SignalFrom, ProducerUnlock, LookAtGap, Rescan, Scan
  <2>2. CASE Consumer
    BY <2>2 DEF Consumer, ConsumerLock, Wait, ConsumerUnlock, Consume, Advance, Mark
  <2> QED
    BY <2>1, <2>2 DEF Next, SpuriousWakeup, Report, vars
<1> SUFFICES ASSUME ~spurious PROVE Wakes'
  BY <1>0 DEF Wakes
<1> USE WorkAssumption DEF Inv, TypeOK, Wakes, Woken, Made, Scanning
<1>1. CASE Producer
  <2>1. CASE Produce
    <3>1. idx_p \in Slot /\ queue[idx_p] = 0
      BY <2>1 DEF Produce, Shape, Inside
    <3> QED
      BY <2>1, <3>1 DEF Produce, Shape
  <2>2. CASE SignalFrom("signal", "unlock") \/ SignalFrom("gapSignal", "gap")
    BY <2>2 DEF SignalFrom
  <2>3. CASE SignalFrom("urge", "rescan")
    BY <2>3 DEF SignalFrom, Inside
  <2>4. CASE LookAtGap
    BY <2>4 DEF LookAtGap
  <2>5. CASE ProducerLock \/ ProducerUnlock \/ Rescan \/ Scan
    BY <2>5 DEF ProducerLock, ProducerUnlock, Rescan, Scan
  <2> QED
    BY <1>1, <2>1, <2>2, <2>3, <2>4, <2>5 DEF Producer
<1>2. CASE Consumer
  <2>1. CASE ConsumerLock \/ ConsumerUnlock
    BY <2>1 DEF ConsumerLock, ConsumerUnlock
  <2>2. CASE Wait
    BY <2>2 DEF Wait, Mutex
  <2>3. CASE Consume
    <3>1. queue[idx_c] = 1
      BY <2>3, FoundItem DEF Consume
    <3> QED
      BY <2>3, <3>1 DEF Consume
  <2>4. CASE Advance \/ Mark
    BY <2>4 DEF Advance, Mark, NextRound
  <2> QED
    BY <1>2, <2>1, <2>2, <2>3, <2>4 DEF Consumer
<1>3. CASE SpuriousWakeup \/ Report \/ UNCHANGED vars
  BY <1>3 DEF SpuriousWakeup, Report, vars
<1> QED
  BY <1>1, <1>2, <1>3 DEF Next

LEMMA Invariance == Spec => []Inv
<1>1. Inv /\ [Next]_vars => Inv'
  BY TypeStep, ShapeStep, ControlStep, PassedStep, WakesStep DEF Inv
<1> QED
  BY InitInv, <1>1, PTL DEF Spec
-----------------------------------------------------------------------------
(* tp_cond_mutex.cpp:50-103: the indices stay inside the array, although   *)
(* the consumer moves its own outside the lock.                            *)
THEOREM TypeCorrect == Spec => []TypeOK
<1>1. Inv => TypeOK
  BY DEF Inv
<1> QED
  BY <1>1, Invariance, PTL

(* tp_cond_mutex.cpp:57-61,98-103: items are made and consumed in order,   *)
(* and the producer never finds its slot occupied.                         *)
THEOREM ItemsInOrder == Spec => []InOrder
<1>1. Inv => InOrder
  BY WorkAssumption DEF Inv, TypeOK, Shape, Inside, InOrder, Made, Scanning
<1> QED
  BY <1>1, Invariance, PTL

(* tp_cond_mutex.cpp:96: where waiters are not woken unsignalled, the wait *)
(* without a predicate never wakes up to an empty slot.                    *)
THEOREM WakeupsFindItems == Spec => []EveryWakeupHasItem
<1>1. Inv => EveryWakeupHasItem
  BY FoundItem DEF Inv, Wakes, Woken, EveryWakeupHasItem
<1> QED
  BY <1>1, Invariance, PTL

(* tp_cond_mutex.cpp:66: the urging loop bounds the producer's lead.       *)
THEOREM LeadBounded == Spec => []LagBounded
<1>1. Inv => LagBounded
  BY WorkAssumption DEF Inv, TypeOK, ProducerPC, Lag, LagBounded, Scanning
<1> QED
  BY <1>1, Invariance, PTL

(* tp_cond_mutex.cpp:73-85,130: when the unlocked scan ends every item is  *)
(* consumed, and main cannot report a failure.                             *)
THEOREM NothingLeft == Spec => []NoItemLeft
<1>1. Inv => NoItemLeft
  BY DEF Inv, Passed
<1> QED
  BY <1>1, Invariance, PTL

-----------------------------------------------------------------------------
(* MemoryIncrease.                                                         *)
USE DEF Main, Handler, Ended, Goto

(* Places in the array: none is the null pointer. *)
LEMMA BlockFacts ==
    /\ COUNT \in Nat /\ 1 \in Blocks /\ COUNT \in Blocks
    /\ NULL \in Int /\ NULL \notin Blocks
    /\ \A b \in Blocks : b \in Nat /\ b # NULL /\ 1 <= b /\ b <= COUNT /\ (b < COUNT => b + 1 \in Blocks)
    /\ \A n \in 1 .. COUNT + 1 : n <= COUNT => n \in Blocks /\ n + 1 \in 1 .. COUNT + 1
  BY MemoryAssumption DEF Blocks, NULL

(* The first state: nothing is allocated (memory_increase.c:13). *)
LEMMA MemoryInitInv == MemoryInit => MemoryInv
<1> SUFFICES ASSUME MemoryInit PROVE MemoryInv
  OBVIOUS
<1>1. MemoryTypeOK /\ PhaseInv
  BY BlockFacts DEF MemoryInit, MemoryTypeOK, PhaseInv
<1>2. ASSUME NEW b \in Blocks PROVE LoopInv(b) /\ BlockInv(b)
  BY BlockFacts DEF MemoryInit, LoopInv, BlockInv, At
<1> QED
  BY <1>1, <1>2 DEF MemoryInit, MemoryInv

(* Types, and what the program counter says of the variables. *)
LEMMA PhaseStep ==
    ASSUME MemoryInv, [MemoryNext]_memory_vars
    PROVE  MemoryTypeOK' /\ PhaseInv' /\ (pc' = "handler_clear" => h' \in Blocks)
<1> MemoryTypeOK /\ PhaseInv /\ (pc = "handler_clear" => h \in Blocks)
  BY DEF MemoryInv
<1> i \in Blocks /\ h \in 1 .. COUNT + 1
  BY DEF MemoryTypeOK
<1> /\ i < COUNT => i + 1 \in Blocks
    /\ 1 \in Blocks
    /\ h <= COUNT => h \in Blocks
    /\ h \in Blocks => h + 1 \in 1 .. COUNT + 1
    /\ NULL \notin Blocks
  BY MemoryAssumption DEF Blocks, NULL
<1> LoopInv(i) /\ (pc = "free" => BlockInv(i)) /\ (h \in Blocks => LoopInv(h) /\ (pc = "handler" => BlockInv(h)))
  BY DEF MemoryInv, MemoryTypeOK
<1> USE DEF MemoryTypeOK, PhaseInv, LoopInv
<1>1. CASE Install
  BY <1>1 DEF Install
<1>2. CASE CallMalloc
  BY <1>2 DEF CallMalloc
<1>3. CASE MallocReturns
  BY <1>3 DEF MallocReturns
<1>4. CASE Store
  BY <1>4 DEF Store
<1>5. CASE Memset
  BY <1>5 DEF Memset
<1>6. CASE CallFree
  BY <1>6 DEF CallFree, Free, BlockInv, At
<1>7. CASE FreeReturns
  BY <1>7 DEF FreeReturns
<1>8. CASE Clear
  BY <1>8 DEF Clear, NextBlock
<1>9. CASE SIGINT
  BY <1>9 DEF SIGINT
<1>10. CASE Killed
  BY <1>10 DEF Killed
<1>11. CASE HandlerFrees
  BY <1>11 DEF HandlerFrees, Free, BlockInv, At
<1>12. CASE HandlerClears
  BY <1>12 DEF HandlerClears
<1>13. CASE HandlerSkips
  BY <1>13 DEF HandlerSkips
<1>14. CASE HandlerExits
  BY <1>14 DEF HandlerExits
<1>15. CASE UNCHANGED memory_vars
  BY <1>15 DEF memory_vars
<1> QED
  BY <1>1, <1>2, <1>3, <1>4, <1>5, <1>6, <1>7, <1>8, <1>9, <1>10, <1>11, <1>12, <1>13, <1>14, <1>15 DEF MemoryNext, Program

(* One block, through the two loops of main and the loop of the handler. *)
LEMMA LoopStep ==
    ASSUME MemoryInv, [MemoryNext]_memory_vars, NEW b \in Blocks
    PROVE  LoopInv(b)'
<1> MemoryTypeOK /\ PhaseInv /\ LoopInv(b) /\ LoopInv(i)
  BY DEF MemoryInv, MemoryTypeOK
<1> pc # "killed" => (pc = "handler_clear" /\ b = h) \/ BlockInv(b)
  BY DEF MemoryInv
<1> i \in Blocks /\ h \in 1 .. COUNT + 1
  BY DEF MemoryTypeOK
<1> /\ b \in Int /\ i \in Int /\ h \in Int /\ COUNT \in Int
    /\ b # NULL /\ i # NULL /\ 1 <= b /\ b <= COUNT /\ i <= COUNT
  BY MemoryAssumption DEF Blocks, NULL
<1> h \in Blocks <=> h <= COUNT
  BY MemoryAssumption DEF Blocks
<1> h \in Blocks => LoopInv(h)
  BY DEF MemoryInv
<1> USE DEF MemoryTypeOK, PhaseInv, LoopInv
<1>1. CASE Install
  BY <1>1 DEF Install
<1>2. CASE CallMalloc
  BY <1>2 DEF CallMalloc
<1>3. CASE MallocReturns
  BY <1>3 DEF MallocReturns
<1>4. CASE Store
  BY <1>4 DEF Store
<1>5. CASE Memset
  BY <1>5 DEF Memset
<1>6. CASE CallFree
  BY <1>6 DEF CallFree, Free, BlockInv, At
<1>7. CASE FreeReturns
  BY <1>7 DEF FreeReturns
<1>8. CASE Clear
  BY <1>8 DEF Clear, NextBlock
<1>9. CASE SIGINT
  BY <1>9 DEF SIGINT
<1>10. CASE Killed
  BY <1>10 DEF Killed
<1>11. CASE HandlerFrees
  BY <1>11 DEF HandlerFrees, Free, BlockInv, At
<1>12. CASE HandlerClears
  BY <1>12 DEF HandlerClears
<1>13. CASE HandlerSkips
  BY <1>13 DEF HandlerSkips
<1>14. CASE HandlerExits
  BY <1>14 DEF HandlerExits
<1>15. CASE UNCHANGED memory_vars
  BY <1>15 DEF memory_vars
<1> QED
  BY <1>1, <1>2, <1>3, <1>4, <1>5, <1>6, <1>7, <1>8, <1>9, <1>10, <1>11, <1>12, <1>13, <1>14, <1>15 DEF MemoryNext, Program

(* One block, held and stored or neither. *)
LEMMA BlockStep ==
    ASSUME MemoryInv, [MemoryNext]_memory_vars, NEW b \in Blocks
    PROVE  pc' # "killed" => (pc' = "handler_clear" /\ b = h') \/ BlockInv(b)'
<1> MemoryTypeOK /\ PhaseInv /\ LoopInv(b) /\ LoopInv(i)
  BY DEF MemoryInv, MemoryTypeOK
<1> pc # "killed" => (pc = "handler_clear" /\ b = h) \/ BlockInv(b)
  BY DEF MemoryInv
<1> i \in Blocks /\ h \in 1 .. COUNT + 1
  BY DEF MemoryTypeOK
<1> /\ b \in Int /\ i \in Int /\ h \in Int /\ COUNT \in Int
    /\ b # NULL /\ i # NULL /\ 1 <= b /\ b <= COUNT /\ i <= COUNT
  BY MemoryAssumption DEF Blocks, NULL
<1> h \in Blocks <=> h <= COUNT
  BY MemoryAssumption DEF Blocks
<1> h \in Blocks => LoopInv(h)
  BY DEF MemoryInv
<1> USE DEF MemoryTypeOK, PhaseInv, LoopInv, BlockInv, At
<1>1. CASE Install
  BY <1>1 DEF Install
<1>2. CASE CallMalloc
  BY <1>2 DEF CallMalloc
<1>3. CASE MallocReturns
  BY <1>3 DEF MallocReturns
<1>4. CASE Store
  BY <1>4 DEF Store
<1>5. CASE Memset
  BY <1>5 DEF Memset
<1>6. CASE CallFree
  BY <1>6 DEF CallFree, Free
<1>7. CASE FreeReturns
  BY <1>7 DEF FreeReturns
<1>8. CASE Clear
  BY <1>8 DEF Clear, NextBlock
<1>9. CASE SIGINT
  BY <1>9 DEF SIGINT
<1>10. CASE Killed
  BY <1>10 DEF Killed
<1>11. CASE HandlerFrees
  BY <1>11 DEF HandlerFrees, Free
<1>12. CASE HandlerClears
  BY <1>12 DEF HandlerClears
<1>13. CASE HandlerSkips
  BY <1>13 DEF HandlerSkips
<1>14. CASE HandlerExits
  BY <1>14 DEF HandlerExits
<1>15. CASE UNCHANGED memory_vars
  BY <1>15 DEF memory_vars
<1> QED
  BY <1>1, <1>2, <1>3, <1>4, <1>5, <1>6, <1>7, <1>8, <1>9, <1>10, <1>11, <1>12, <1>13, <1>14, <1>15 DEF MemoryNext, Program

(* The bookkeeping of pointers and blocks holds in every state. *)
THEOREM MemoryInvariance == MemorySpec => []MemoryInv
<1>1. MemoryInv /\ [MemoryNext]_memory_vars => MemoryInv'
  <2> SUFFICES ASSUME MemoryInv, [MemoryNext]_memory_vars PROVE MemoryInv'
    OBVIOUS
  <2> QED
    BY PhaseStep, LoopStep, BlockStep DEF MemoryInv
<1> QED
  BY <1>1, MemoryInitInv, PTL DEF MemorySpec

(* Every block is freed exactly once, wherever SIGINT comes outside the    *)
(* windows (memory_increase.c:31-50,69-90).                                *)
THEOREM FreedOnce == MemorySpec => []BlocksFreedOnce
<1>1. MemoryInv => BlocksFreedOnce
  <2> SUFFICES ASSUME MemoryInv PROVE BlocksFreedOnce
    OBVIOUS
  <2> USE DEF MemoryInv
  <2>1. \A b \in Blocks : heap[b] = "twice" => b = i /\ came \in {"in_free", "clear"}
    BY DEF LoopInv
  <2>2. ASSUME pc = "exited" PROVE {b \in Blocks : heap[b] = "held"} = IF came = "store" THEN {i} ELSE {}
    <3>1. \A b \in Blocks : p[b] = NULL /\ BlockInv(b)
      BY <2>2 DEF LoopInv
    <3>2. \A b \in Blocks : heap[b] = "held" <=> came = "store" /\ b = i
      BY <2>2, <3>1, BlockFacts DEF BlockInv, At, MemoryTypeOK
    <3> QED
      BY <3>2 DEF MemoryTypeOK
  <2>3. pc = "crashed" => \/ came \in {"in_malloc", "in_free", "clear"}
                          \/ came = "never" /\ heap[i] = "none"
    BY DEF PhaseInv
  <2> QED
    BY <2>1, <2>2, <2>3 DEF BlocksFreedOnce
<1> QED
  BY <1>1, MemoryInvariance, PTL
=============================================================================
