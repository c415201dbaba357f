-------------------------- MODULE ThreadPoolProofs --------------------------
(***************************************************************************)
(* Proofs about ThreadPool for any number of workers, clients and tasks    *)
(* and any m_maxqueue.                                                     *)
(***************************************************************************)
EXTENDS ThreadPool, FiniteSetTheorems, TLAPS

(* The types of everything but m_waiting, whose range follows from Waiting- *)
(* Count.                                                                   *)
TypeInv ==
    /\ boot \in {"raw", "creating", "ok", "error"}
    /\ pc \in [Workers -> WorkerPC]
    /\ cpc \in [Posters -> ClientPC]
    /\ arg \in [Posters -> AllTasks \cup {NoTask}]
    /\ m_mtx \in Workers \cup Posters \cup {NoThread}
    /\ m_spinlock \in Workers \cup {NoThread}
    /\ m_queues \in Seq(AllTasks)
    /\ m_queues_done \in Seq(AllTasks)
    /\ m_waiting \in Int
    /\ m_waiting <= MaxQueue + 1
    /\ cur \in [Workers -> AllTasks \cup {NoTask}]
    /\ evt \in [Workers -> AllTasks \cup {NoTask}]
    /\ active \in [AllTasks -> BOOLEAN]
    /\ discarded \subseteq AllTasks
    /\ lock \in {0, 1}
    /\ spurious \in 0 .. MaxSpurious
    /\ completed \subseteq AllTasks

(* What a thread has in hand at each point of its code. *)
Hands ==
    /\ \A w \in Workers :
         /\ cur[w] # NoTask <=> pc[w] \in {"unlock", "run", "spinpush", "push", "exited"}
         /\ pc[w] \in {"spinpush", "push"} => cur[w] # ExitTask
         /\ evt[w] # NoTask <=> pc[w] \in {"unpop", "event"}
    /\ \A c \in Posters :
         arg[c] # NoTask <=> cpc[c] \in {"lock", "check", "signal", "unlock"}

(* Each lock is held by exactly the thread inside its critical section. *)
Locks ==
    /\ \A w \in Workers : pc[w] \in InMutex <=> m_mtx = w
    /\ \A c \in Posters : cpc[c] \in ClientInMutex <=> m_mtx = c
    /\ \A w \in Workers : pc[w] \in InSpin <=> m_spinlock = w

(* Before thread_pool_init no thread of the pool runs and nobody posts.     *)
Fresh == boot = "raw" => /\ m_queues = <<>> /\ m_queues_done = <<>>
                         /\ \A w \in Workers : pc[w] = "absent"
                         /\ \A c \in Posters : cpc[c] = "idle"

Inv == TypeInv /\ Hands /\ Locks /\ Fresh /\ WaitingCount /\ DoneOwed
-----------------------------------------------------------------------------
LEMMA InitInv == Init => Inv
<1> SUFFICES ASSUME Init PROVE Inv
  OBVIOUS
<1> USE PoolAssumption
<1>1. TypeInv
  BY DEF Init, TypeInv, WorkerPC, ClientPC, AllTasks
<1>2. Hands /\ Locks /\ Fresh
  BY DEF Init, Hands, Locks, Fresh, InMutex, InSpin, ClientInMutex, Posters
<1>3. Counted = {} /\ Owing = {}
  BY DEF Init, Counted, Owing
<1>4. WaitingCount /\ DoneOwed
  BY <1>3, FS_EmptySet DEF Init, WaitingCount, DoneOwed
<1> QED
  BY <1>1, <1>2, <1>4 DEF Inv

(* The unguarded front() of thread_pool_event_handler finds a task.  *)
LEMMA PopFindsTask ==
  ASSUME Inv, NEW w \in Workers, pc[w] = "pop"
  PROVE  m_queues_done # <<>>
<1>1. w \in Owing
  BY DEF Owing
<1>2. IsFiniteSet(Owing)
  BY PoolAssumption, FS_Subset DEF Owing
<1>3. Cardinality(Owing) # 0
  BY <1>1, <1>2, FS_EmptySet
<1> QED
  BY <1>3 DEF Inv, DoneOwed

LEMMA TypeStep == Inv /\ [Next]_vars => TypeInv'
<1> SUFFICES ASSUME Inv, [Next]_vars PROVE TypeInv'
  OBVIOUS
<1> USE PoolAssumption DEF TypeInv
<1>t. TypeInv /\ Hands
  BY DEF Inv
<1>1. CASE InitPool
  BY <1>t, <1>1 DEF InitPool, lockVars, workerVars, clientVars
<1>2. CASE CreateFails
  BY <1>t, <1>2 DEF CreateFails, lockVars, poolVars, workerVars, clientVars
<1>3. ASSUME NEW w \in Workers, CreateThread(w) PROVE TypeInv'
  BY <1>t, <1>3 DEF CreateThread, lockVars, poolVars, clientVars, WorkerPC
<1>4. ASSUME NEW w \in Workers, WorkerStep(w) PROVE TypeInv'
  <2> USE DEF WorkerPC, lockVars, poolVars, clientVars, workerVars
  <2>1. CASE LockQueue(w)
    BY <1>t, <2>1 DEF LockQueue, InMutex
  <2>2. CASE CountDown(w)
    BY <1>t, <2>2 DEF CountDown, InMutex
  <2>3. CASE CondWait(w)
    BY <1>t, <2>3 DEF CondWait
  <2>4. CASE Relock(w)
    BY <1>t, <2>4 DEF Relock, InMutex
  <2>5. CASE TakeTask(w)
    BY <1>t, <2>5 DEF TakeTask, InMutex
  <2>6. CASE UnlockQueue(w)
    BY <1>t, <2>6 DEF UnlockQueue
  <2>7. CASE RunTask(w)
    BY <1>t, <2>7 DEF RunTask
  <2>8. CASE ExitHandler(w)
    BY <1>t, <2>8 DEF ExitHandler
  <2>9. CASE SpinLock(w, "spinpush", "push")
    BY <1>t, <2>9 DEF SpinLock, InSpin
  <2>10. CASE PushDone(w)
    <3>1. cur[w] \in AllTasks
      BY <1>t, <2>10 DEF Hands, PushDone
    <3> QED
      BY <1>t, <2>10, <3>1 DEF PushDone, InSpin
  <2>11. CASE SpinUnlock(w, "unpush", "spinpop")
    BY <1>t, <2>11 DEF SpinUnlock
  <2>12. CASE SpinLock(w, "spinpop", "pop")
    BY <1>t, <2>12 DEF SpinLock, InSpin
  <2>13. CASE PopDone(w)
    <3>1. m_queues_done # <<>>
      BY <2>13, PopFindsTask DEF PopDone
    <3> QED
      BY <1>t, <2>13, <3>1 DEF PopDone, InSpin
  <2>14. CASE SpinUnlock(w, "unpop", "event")
    BY <1>t, <2>14 DEF SpinUnlock
  <2>15. CASE RaiseEvent(w)
    <3>1. evt[w] \in AllTasks
      BY <1>t, <2>15 DEF Hands, RaiseEvent
    <3> QED
      BY <1>t, <2>15, <3>1 DEF RaiseEvent
  <2> QED
    BY <1>4, <2>1, <2>2, <2>3, <2>4, <2>5, <2>6, <2>7, <2>8, <2>9, <2>10, <2>11, <2>12,
       <2>13, <2>14, <2>15 DEF WorkerStep
<1>5. ASSUME NEW w \in Workers, SpuriousWakeup(w) PROVE TypeInv'
  BY <1>t, <1>5 DEF SpuriousWakeup, lockVars, poolVars, clientVars, WorkerPC
<1>6. ASSUME NEW c \in Posters, PostStep(c) PROVE TypeInv'
  <2> USE DEF ClientPC, lockVars, poolVars, workerVars
  <2>1. CASE PostLock(c)
    BY <1>t, <2>1 DEF PostLock, ClientInMutex
  <2>2. CASE PostOverflow(c)
    <3>1. arg[c] \in AllTasks
      BY <1>t, <2>2 DEF Hands, PostOverflow
    <3> QED
      BY <1>t, <2>2, <3>1 DEF PostOverflow
  <2>3. CASE PostPush(c)
    <3>1. arg[c] \in AllTasks
      BY <1>t, <2>3 DEF Hands, PostPush, PushWhen
    <3> QED
      BY <1>t, <2>3, <3>1 DEF PostPush, PushWhen, ClientInMutex
  <2>4. CASE PostSignal(c)
    BY <1>t, <2>4 DEF PostSignal, Signal, ClientInMutex, WorkerPC
  <2>5. CASE PostUnlock(c)
    BY <1>t, <2>5 DEF PostUnlock
  <2> QED
    BY <1>6, <2>1, <2>2, <2>3, <2>4, <2>5 DEF PostStep
<1>7. ASSUME NEW c \in Clients, NEW t \in Tasks, ClientPost(c, t) PROVE TypeInv'
  BY <1>t, <1>7 DEF ClientPost, CallPost, ClientPC, lockVars, poolVars, workerVars,
                    Posters, AllTasks
<1>8. CASE CallDestroy
  BY <1>t, <1>8 DEF CallDestroy, CallPost, ClientPC, lockVars, poolVars, workerVars,
                    Posters, AllTasks
<1>9. CASE Yield
  BY <1>t, <1>9 DEF Yield, ClientPC, lockVars, poolVars, workerVars
<1>10. CASE UNCHANGED vars
  BY <1>t, <1>10 DEF vars, lockVars, poolVars, workerVars, clientVars
<1> QED
  BY <1>1, <1>2, <1>3, <1>4, <1>5, <1>6, <1>7, <1>8, <1>9, <1>10 DEF Next

LEMMA HandsStep == Inv /\ [Next]_vars => Hands'
<1> SUFFICES ASSUME Inv, [Next]_vars PROVE Hands'
  OBVIOUS
<1> USE PoolAssumption DEF TypeInv, Hands, lockVars, poolVars, workerVars, clientVars
<1>t. TypeInv /\ Hands
  BY DEF Inv
<1>1. CASE InitPool
  BY <1>t, <1>1 DEF InitPool
<1>2. CASE CreateFails
  BY <1>t, <1>2 DEF CreateFails
<1>3. ASSUME NEW w \in Workers, CreateThread(w) PROVE Hands'
  BY <1>t, <1>3 DEF CreateThread
<1>4. ASSUME NEW w \in Workers, WorkerStep(w) PROVE Hands'
  <2>1. CASE LockQueue(w)
    BY <1>t, <2>1 DEF LockQueue
  <2>2. CASE CountDown(w)
    BY <1>t, <2>2 DEF CountDown
  <2>3. CASE CondWait(w)
    BY <1>t, <2>3 DEF CondWait
  <2>4. CASE Relock(w)
    BY <1>t, <2>4 DEF Relock
  <2>5. CASE TakeTask(w)
    BY <1>t, <2>5 DEF TakeTask
  <2>6. CASE UnlockQueue(w)
    BY <1>t, <2>6 DEF UnlockQueue
  <2>7. CASE RunTask(w)
    BY <1>t, <2>7 DEF RunTask
  <2>8. CASE ExitHandler(w)
    BY <1>t, <2>8 DEF ExitHandler
  <2>9. CASE SpinLock(w, "spinpush", "push")
    BY <1>t, <2>9 DEF SpinLock
  <2>10. CASE PushDone(w)
    BY <1>t, <2>10 DEF PushDone
  <2>11. CASE SpinUnlock(w, "unpush", "spinpop")
    BY <1>t, <2>11 DEF SpinUnlock
  <2>12. CASE SpinLock(w, "spinpop", "pop")
    BY <1>t, <2>12 DEF SpinLock
  <2>13. CASE PopDone(w)
    <3>1. m_queues_done # <<>>
      BY <2>13, PopFindsTask DEF PopDone
    <3>2. Head(m_queues_done) \in AllTasks
      BY <1>t, <3>1
    <3> QED
      BY <1>t, <2>13, <3>2 DEF PopDone
  <2>14. CASE SpinUnlock(w, "unpop", "event")
    BY <1>t, <2>14 DEF SpinUnlock
  <2>15. CASE RaiseEvent(w)
    BY <1>t, <2>15 DEF RaiseEvent
  <2> QED
    BY <1>4, <2>1, <2>2, <2>3, <2>4, <2>5, <2>6, <2>7, <2>8, <2>9, <2>10, <2>11, <2>12,
       <2>13, <2>14, <2>15 DEF WorkerStep
<1>5. ASSUME NEW w \in Workers, SpuriousWakeup(w) PROVE Hands'
  BY <1>t, <1>5 DEF SpuriousWakeup
<1>6. ASSUME NEW c \in Posters, PostStep(c) PROVE Hands'
  <2>1. CASE PostLock(c)
    BY <1>t, <2>1 DEF PostLock
  <2>2. CASE PostOverflow(c)
    BY <1>t, <2>2 DEF PostOverflow
  <2>3. CASE PostPush(c)
    BY <1>t, <2>3 DEF PostPush, PushWhen
  <2>4. CASE PostSignal(c)
    BY <1>t, <2>4 DEF PostSignal, Signal
  <2>5. CASE PostUnlock(c)
    BY <1>t, <2>5 DEF PostUnlock
  <2> QED
    BY <1>6, <2>1, <2>2, <2>3, <2>4, <2>5 DEF PostStep
<1>7. ASSUME NEW c \in Clients, NEW t \in Tasks, ClientPost(c, t) PROVE Hands'
  BY <1>t, <1>7 DEF ClientPost, CallPost, Posters, AllTasks
<1>8. CASE CallDestroy
  BY <1>t, <1>8 DEF CallDestroy, CallPost, Posters, AllTasks
<1>9. CASE Yield
  BY <1>t, <1>9 DEF Yield, Posters
<1>10. CASE UNCHANGED vars
  BY <1>t, <1>10 DEF vars
<1> QED
  BY <1>1, <1>2, <1>3, <1>4, <1>5, <1>6, <1>7, <1>8, <1>9, <1>10 DEF Next

LEMMA LocksStep == Inv /\ [Next]_vars => Locks'
<1> SUFFICES ASSUME Inv, [Next]_vars PROVE Locks'
  OBVIOUS
<1> USE PoolAssumption DEF TypeInv, Locks, InMutex, InSpin, ClientInMutex, lockVars, poolVars, workerVars, clientVars
<1>t. TypeInv /\ Locks
  BY DEF Inv
<1>1. CASE InitPool
  BY <1>t, <1>1 DEF InitPool
<1>2. CASE CreateFails
  BY <1>t, <1>2 DEF CreateFails
<1>3. ASSUME NEW w \in Workers, CreateThread(w) PROVE Locks'
  BY <1>t, <1>3 DEF CreateThread
<1>4. ASSUME NEW w \in Workers, WorkerStep(w) PROVE Locks'
  <2>1. CASE LockQueue(w)
    BY <1>t, <2>1 DEF LockQueue
  <2>2. CASE CountDown(w)
    BY <1>t, <2>2 DEF CountDown
  <2>3. CASE CondWait(w)
    BY <1>t, <2>3 DEF CondWait
  <2>4. CASE Relock(w)
    BY <1>t, <2>4 DEF Relock
  <2>5. CASE TakeTask(w)
    BY <1>t, <2>5 DEF TakeTask
  <2>6. CASE UnlockQueue(w)
    BY <1>t, <2>6 DEF UnlockQueue
  <2>7. CASE RunTask(w)
    BY <1>t, <2>7 DEF RunTask
  <2>8. CASE ExitHandler(w)
    BY <1>t, <2>8 DEF ExitHandler
  <2>9. CASE SpinLock(w, "spinpush", "push")
    BY <1>t, <2>9 DEF SpinLock
  <2>10. CASE PushDone(w)
    BY <1>t, <2>10 DEF PushDone
  <2>11. CASE SpinUnlock(w, "unpush", "spinpop")
    BY <1>t, <2>11 DEF SpinUnlock
  <2>12. CASE SpinLock(w, "spinpop", "pop")
    BY <1>t, <2>12 DEF SpinLock
  <2>13. CASE PopDone(w)
    BY <1>t, <2>13 DEF PopDone
  <2>14. CASE SpinUnlock(w, "unpop", "event")
    BY <1>t, <2>14 DEF SpinUnlock
  <2>15. CASE RaiseEvent(w)
    BY <1>t, <2>15 DEF RaiseEvent
  <2> QED
    BY <1>4, <2>1, <2>2, <2>3, <2>4, <2>5, <2>6, <2>7, <2>8, <2>9, <2>10, <2>11, <2>12,
       <2>13, <2>14, <2>15 DEF WorkerStep
<1>5. ASSUME NEW w \in Workers, SpuriousWakeup(w) PROVE Locks'
  BY <1>t, <1>5 DEF SpuriousWakeup
<1>6. ASSUME NEW c \in Posters, PostStep(c) PROVE Locks'
  <2>1. CASE PostLock(c)
    BY <1>t, <2>1 DEF PostLock
  <2>2. CASE PostOverflow(c)
    BY <1>t, <2>2 DEF PostOverflow
  <2>3. CASE PostPush(c)
    BY <1>t, <2>3 DEF PostPush, PushWhen
  <2>4. CASE PostSignal(c)
    BY <1>t, <2>4 DEF PostSignal, Signal
  <2>5. CASE PostUnlock(c)
    BY <1>t, <2>5 DEF PostUnlock
  <2> QED
    BY <1>6, <2>1, <2>2, <2>3, <2>4, <2>5 DEF PostStep
<1>7. ASSUME NEW c \in Clients, NEW t \in Tasks, ClientPost(c, t) PROVE Locks'
  BY <1>t, <1>7 DEF ClientPost, CallPost, Posters, AllTasks
<1>8. CASE CallDestroy
  BY <1>t, <1>8 DEF CallDestroy, CallPost, Posters, AllTasks
<1>9. CASE Yield
  BY <1>t, <1>9 DEF Yield, Posters
<1>10. CASE UNCHANGED vars
  BY <1>t, <1>10 DEF vars
<1> QED
  BY <1>1, <1>2, <1>3, <1>4, <1>5, <1>6, <1>7, <1>8, <1>9, <1>10 DEF Next

LEMMA FreshStep == Inv /\ [Next]_vars => Fresh'
<1> SUFFICES ASSUME Inv, [Next]_vars PROVE Fresh'
  OBVIOUS
<1> USE PoolAssumption DEF TypeInv, Fresh, lockVars, poolVars, workerVars, clientVars
<1>t. TypeInv /\ Fresh
  BY DEF Inv
<1>1. CASE InitPool
  BY <1>t, <1>1 DEF InitPool
<1>2. CASE CreateFails
  BY <1>t, <1>2 DEF CreateFails
<1>3. ASSUME NEW w \in Workers, CreateThread(w) PROVE Fresh'
  BY <1>t, <1>3 DEF CreateThread
<1>4. ASSUME NEW w \in Workers, WorkerStep(w) PROVE Fresh'
  <2>1. CASE LockQueue(w)
    BY <1>t, <2>1 DEF LockQueue
  <2>2. CASE CountDown(w)
    BY <1>t, <2>2 DEF CountDown
  <2>3. CASE CondWait(w)
    BY <1>t, <2>3 DEF CondWait
  <2>4. CASE Relock(w)
    BY <1>t, <2>4 DEF Relock
  <2>5. CASE TakeTask(w)
    BY <1>t, <2>5 DEF TakeTask
  <2>6. CASE UnlockQueue(w)
    BY <1>t, <2>6 DEF UnlockQueue
  <2>7. CASE RunTask(w)
    BY <1>t, <2>7 DEF RunTask
  <2>8. CASE ExitHandler(w)
    BY <1>t, <2>8 DEF ExitHandler
  <2>9. CASE SpinLock(w, "spinpush", "push")
    BY <1>t, <2>9 DEF SpinLock
  <2>10. CASE PushDone(w)
    BY <1>t, <2>10 DEF PushDone
  <2>11. CASE SpinUnlock(w, "unpush", "spinpop")
    BY <1>t, <2>11 DEF SpinUnlock
  <2>12. CASE SpinLock(w, "spinpop", "pop")
    BY <1>t, <2>12 DEF SpinLock
  <2>13. CASE PopDone(w)
    BY <1>t, <2>13 DEF PopDone
  <2>14. CASE SpinUnlock(w, "unpop", "event")
    BY <1>t, <2>14 DEF SpinUnlock
  <2>15. CASE RaiseEvent(w)
    BY <1>t, <2>15 DEF RaiseEvent
  <2> QED
    BY <1>4, <2>1, <2>2, <2>3, <2>4, <2>5, <2>6, <2>7, <2>8, <2>9, <2>10, <2>11, <2>12,
       <2>13, <2>14, <2>15 DEF WorkerStep
<1>5. ASSUME NEW w \in Workers, SpuriousWakeup(w) PROVE Fresh'
  BY <1>t, <1>5 DEF SpuriousWakeup
<1>6. ASSUME NEW c \in Posters, PostStep(c) PROVE Fresh'
  <2>1. CASE PostLock(c)
    BY <1>t, <2>1 DEF PostLock
  <2>2. CASE PostOverflow(c)
    BY <1>t, <2>2 DEF PostOverflow
  <2>3. CASE PostPush(c)
    BY <1>t, <2>3 DEF PostPush, PushWhen
  <2>4. CASE PostSignal(c)
    BY <1>t, <2>4 DEF PostSignal, Signal
  <2>5. CASE PostUnlock(c)
    BY <1>t, <2>5 DEF PostUnlock
  <2> QED
    BY <1>6, <2>1, <2>2, <2>3, <2>4, <2>5 DEF PostStep
<1>7. ASSUME NEW c \in Clients, NEW t \in Tasks, ClientPost(c, t) PROVE Fresh'
  BY <1>t, <1>7 DEF ClientPost, CallPost, Initialised, Posters, AllTasks
<1>8. CASE CallDestroy
  BY <1>t, <1>8 DEF CallDestroy, CallPost, Initialised, Posters, AllTasks
<1>9. CASE Yield
  BY <1>t, <1>9 DEF Yield, Posters
<1>10. CASE UNCHANGED vars
  BY <1>t, <1>10 DEF vars
<1> QED
  BY <1>1, <1>2, <1>3, <1>4, <1>5, <1>6, <1>7, <1>8, <1>9, <1>10 DEF Next

-----------------------------------------------------------------------------
(* A finite set that gains or loses one element. *)
LEMMA GainOne ==
  ASSUME NEW S, IsFiniteSet(S), NEW x, x \notin S
  PROVE  Cardinality(S \cup {x}) = Cardinality(S) + 1
BY FS_AddElement

LEMMA LoseOne ==
  ASSUME NEW S, IsFiniteSet(S), NEW x, x \in S
  PROVE  Cardinality(S \ {x}) = Cardinality(S) - 1
BY FS_RemoveElement

(* m_waiting moves with m_queues and with the workers that announce        *)
(* themselves; m_queues_done with the workers that owe it a pop.           *)
LEMMA CountStep == Inv /\ [Next]_vars => WaitingCount' /\ DoneOwed'
<1> DEFINE Goal == WaitingCount' /\ DoneOwed'
<1> SUFFICES ASSUME Inv, [Next]_vars PROVE Goal
  OBVIOUS
<1> USE PoolAssumption DEF lockVars, poolVars, workerVars, clientVars
<1>t. TypeInv /\ WaitingCount /\ DoneOwed
  BY DEF Inv
<1>f. /\ IsFiniteSet(Counted) /\ Cardinality(Counted) \in Nat
      /\ IsFiniteSet(Owing) /\ Cardinality(Owing) \in Nat
  BY FS_Subset, FS_CardinalityType DEF Counted, Owing
(* Steps that touch neither queue nor counter and no counted worker. *)
<1>q. ASSUME UNCHANGED poolVars, Counted' = Counted, Owing' = Owing PROVE Goal
  BY <1>t, <1>q DEF WaitingCount, DoneOwed
<1>1. CASE InitPool
  <2>1. m_queues = <<>> /\ m_queues_done = <<>>
    BY <1>1 DEF InitPool, Inv, Fresh
  <2>2. Counted' = Counted /\ Owing' = Owing
    BY <1>1 DEF InitPool, Counted, Owing
  <2> QED
    BY <1>t, <1>1, <2>1, <2>2 DEF InitPool, WaitingCount, DoneOwed
<1>2. CASE CreateFails
  <2>1. UNCHANGED poolVars /\ Counted' = Counted /\ Owing' = Owing
    BY <1>t, <1>2 DEF CreateFails, TypeInv, Counted, Owing
  <2> QED
    BY <2>1, <1>q
<1>3. ASSUME NEW w \in Workers, CreateThread(w) PROVE Goal
  <2>1. UNCHANGED poolVars /\ Counted' = Counted /\ Owing' = Owing
    BY <1>t, <1>3 DEF CreateThread, TypeInv, Counted, Owing
  <2> QED
    BY <2>1, <1>q
<1>4. ASSUME NEW w \in Workers, WorkerStep(w) PROVE Goal
  <2>1. CASE LockQueue(w)
    <3>1. UNCHANGED poolVars /\ Counted' = Counted /\ Owing' = Owing
      BY <1>t, <2>1 DEF LockQueue, TypeInv, Counted, Owing
    <3> QED
      BY <3>1, <1>q
  <2>2. CASE CountDown(w)
    <3>1. w \notin Counted /\ Counted' = Counted \cup {w} /\ Owing' = Owing
      BY <1>t, <2>2 DEF CountDown, TypeInv, Counted, Owing
    <3>2. Cardinality(Counted') = Cardinality(Counted) + 1
      BY <1>f, <3>1, GainOne
    <3> QED
      BY <1>t, <1>f, <2>2, <3>1, <3>2 DEF CountDown, TypeInv, WaitingCount, DoneOwed
  <2>3. CASE CondWait(w)
    <3>1. UNCHANGED poolVars /\ Counted' = Counted /\ Owing' = Owing
      BY <1>t, <2>3 DEF CondWait, TypeInv, Counted, Owing
    <3> QED
      BY <3>1, <1>q
  <2>4. CASE Relock(w)
    <3>1. UNCHANGED poolVars /\ Counted' = Counted /\ Owing' = Owing
      BY <1>t, <2>4 DEF Relock, TypeInv, Counted, Owing
    <3> QED
      BY <3>1, <1>q
  <2>5. CASE TakeTask(w)
    <3>1. w \in Counted /\ Counted' = Counted \ {w} /\ Owing' = Owing
      BY <1>t, <2>5 DEF TakeTask, TypeInv, Counted, Owing
    <3>2. Cardinality(Counted') = Cardinality(Counted) - 1
      BY <1>f, <3>1, LoseOne
    <3>3. Len(m_queues') = Len(m_queues) - 1
      BY <1>t, <2>5 DEF TakeTask, TypeInv
    <3> QED
      BY <1>t, <1>f, <2>5, <3>1, <3>2, <3>3 DEF TakeTask, TypeInv, WaitingCount, DoneOwed
  <2>6. CASE UnlockQueue(w)
    <3>1. UNCHANGED poolVars /\ Counted' = Counted /\ Owing' = Owing
      BY <1>t, <2>6 DEF UnlockQueue, TypeInv, Counted, Owing
    <3> QED
      BY <3>1, <1>q
  <2>7. CASE RunTask(w)
    <3>1. UNCHANGED poolVars /\ Counted' = Counted /\ Owing' = Owing
      BY <1>t, <2>7 DEF RunTask, TypeInv, Counted, Owing
    <3> QED
      BY <3>1, <1>q
  <2>8. CASE ExitHandler(w)
    <3>1. UNCHANGED poolVars /\ Counted' = Counted /\ Owing' = Owing
      BY <1>t, <2>8 DEF ExitHandler, TypeInv, Counted, Owing
    <3> QED
      BY <3>1, <1>q
  <2>9. CASE SpinLock(w, "spinpush", "push")
    <3>1. UNCHANGED poolVars /\ Counted' = Counted /\ Owing' = Owing
      BY <1>t, <2>9 DEF SpinLock, TypeInv, Counted, Owing
    <3> QED
      BY <3>1, <1>q
  <2>10. CASE PushDone(w)
    <3>1. w \notin Owing /\ Owing' = Owing \cup {w} /\ Counted' = Counted
      BY <1>t, <2>10 DEF PushDone, TypeInv, Counted, Owing
    <3>2. Cardinality(Owing') = Cardinality(Owing) + 1
      BY <1>f, <3>1, GainOne
    <3>3. Len(m_queues_done') = Len(m_queues_done) + 1
      BY <1>t, <2>10 DEF PushDone, TypeInv
    <3> QED
      BY <1>t, <2>10, <3>1, <3>2, <3>3 DEF PushDone, WaitingCount, DoneOwed
  <2>11. CASE SpinUnlock(w, "unpush", "spinpop")
    <3>1. UNCHANGED poolVars /\ Counted' = Counted /\ Owing' = Owing
      BY <1>t, <2>11 DEF SpinUnlock, TypeInv, Counted, Owing
    <3> QED
      BY <3>1, <1>q
  <2>12. CASE SpinLock(w, "spinpop", "pop")
    <3>1. UNCHANGED poolVars /\ Counted' = Counted /\ Owing' = Owing
      BY <1>t, <2>12 DEF SpinLock, TypeInv, Counted, Owing
    <3> QED
      BY <3>1, <1>q
  <2>13. CASE PopDone(w)
    <3>1. w \in Owing /\ Owing' = Owing \ {w} /\ Counted' = Counted
      BY <1>t, <2>13 DEF PopDone, TypeInv, Counted, Owing
    <3>2. Cardinality(Owing') = Cardinality(Owing) - 1
      BY <1>f, <3>1, LoseOne
    <3>3. m_queues_done # <<>>
      BY <2>13, PopFindsTask DEF PopDone
    <3>4. Len(m_queues_done') = Len(m_queues_done) - 1
      BY <1>t, <2>13, <3>3 DEF PopDone, TypeInv
    <3> QED
      BY <1>t, <2>13, <3>1, <3>2, <3>4 DEF PopDone, WaitingCount, DoneOwed
  <2>14. CASE SpinUnlock(w, "unpop", "event")
    <3>1. UNCHANGED poolVars /\ Counted' = Counted /\ Owing' = Owing
      BY <1>t, <2>14 DEF SpinUnlock, TypeInv, Counted, Owing
    <3> QED
      BY <3>1, <1>q
  <2>15. CASE RaiseEvent(w)
    <3>1. UNCHANGED poolVars /\ Counted' = Counted /\ Owing' = Owing
      BY <1>t, <2>15 DEF RaiseEvent, TypeInv, Counted, Owing
    <3> QED
      BY <3>1, <1>q
  <2> QED
    BY <1>4, <2>1, <2>2, <2>3, <2>4, <2>5, <2>6, <2>7, <2>8, <2>9, <2>10, <2>11, <2>12,
       <2>13, <2>14, <2>15 DEF WorkerStep
<1>5. ASSUME NEW w \in Workers, SpuriousWakeup(w) PROVE Goal
  <2>1. UNCHANGED poolVars /\ Counted' = Counted /\ Owing' = Owing
    BY <1>t, <1>5 DEF SpuriousWakeup, TypeInv, Counted, Owing
  <2> QED
    BY <2>1, <1>q
<1>6. ASSUME NEW c \in Posters, PostStep(c) PROVE Goal
  <2>1. CASE PostLock(c)
    <3>1. UNCHANGED poolVars /\ Counted' = Counted /\ Owing' = Owing
      BY <1>t, <2>1 DEF PostLock, TypeInv, Counted, Owing
    <3> QED
      BY <3>1, <1>q
  <2>2. CASE PostOverflow(c)
    <3>1. UNCHANGED poolVars /\ Counted' = Counted /\ Owing' = Owing
      BY <1>t, <2>2 DEF PostOverflow, TypeInv, Counted, Owing
    <3> QED
      BY <3>1, <1>q
  <2>3. CASE PostPush(c)
    <3>1. Counted' = Counted /\ Owing' = Owing
      BY <2>3 DEF PostPush, PushWhen, Counted, Owing
    <3>2. Len(m_queues') = Len(m_queues) + 1
      BY <1>t, <2>3 DEF PostPush, PushWhen, TypeInv
    <3> QED
      BY <1>t, <1>f, <2>3, <3>1, <3>2 DEF PostPush, PushWhen, TypeInv, WaitingCount, DoneOwed
  <2>4. CASE PostSignal(c)
    <3>1. UNCHANGED poolVars /\ Counted' = Counted /\ Owing' = Owing
      BY <1>t, <2>4 DEF PostSignal, Signal, TypeInv, Counted, Owing
    <3> QED
      BY <3>1, <1>q
  <2>5. CASE PostUnlock(c)
    <3>1. UNCHANGED poolVars /\ Counted' = Counted /\ Owing' = Owing
      BY <1>t, <2>5 DEF PostUnlock, TypeInv, Counted, Owing
    <3> QED
      BY <3>1, <1>q
  <2> QED
    BY <1>6, <2>1, <2>2, <2>3, <2>4, <2>5 DEF PostStep
<1>7. ASSUME NEW c \in Clients, NEW t \in Tasks, ClientPost(c, t) PROVE Goal
  <2>1. UNCHANGED poolVars /\ Counted' = Counted /\ Owing' = Owing
    BY <1>t, <1>7 DEF ClientPost, TypeInv, Counted, Owing
  <2> QED
    BY <2>1, <1>q
<1>8. CASE CallDestroy
  <2>1. UNCHANGED poolVars /\ Counted' = Counted /\ Owing' = Owing
    BY <1>t, <1>8 DEF CallDestroy, TypeInv, Counted, Owing
  <2> QED
    BY <2>1, <1>q
<1>9. CASE Yield
  <2>1. UNCHANGED poolVars /\ Counted' = Counted /\ Owing' = Owing
    BY <1>t, <1>9 DEF Yield, TypeInv, Counted, Owing
  <2> QED
    BY <2>1, <1>q
<1>10. CASE UNCHANGED vars
  <2>1. UNCHANGED poolVars /\ Counted' = Counted /\ Owing' = Owing
    BY <1>t, <1>10 DEF vars, TypeInv, Counted, Owing
  <2> QED
    BY <2>1, <1>q
<1> QED
  BY <1>1, <1>2, <1>3, <1>4, <1>5, <1>6, <1>7, <1>8, <1>9, <1>10 DEF Next

-----------------------------------------------------------------------------
LEMMA Invariance == Spec => []Inv
<1>1. Inv /\ [Next]_vars => Inv'
  BY TypeStep, HandsStep, LocksStep, FreshStep, CountStep DEF Inv
<1> QED
  BY InitInv, <1>1, PTL DEF Spec

(* The lower end of m_waiting: at most every worker is counted.            *)
LEMMA CountedBound ==
  /\ Cardinality(Workers) \in Nat
  /\ Cardinality(Counted) \in 0 .. Cardinality(Workers)
BY PoolAssumption, FS_Subset, FS_CardinalityType DEF Counted

(* Every variable keeps its type; m_waiting (threadpool.h:198) stays within *)
(* minus the number of threads and m_maxqueue + 1 for any pool.             *)
THEOREM TypeCorrect == Spec => []TypeOK
<1>1. Inv => TypeOK
  <2> SUFFICES ASSUME Inv PROVE TypeOK
    OBVIOUS
  <2>1. TypeInv /\ WaitingCount
    BY DEF Inv
  <2>2. m_waiting \in -Cardinality(Workers) .. MaxQueue + 1
    BY <2>1, CountedBound, PoolAssumption DEF TypeInv, WaitingCount
  <2> QED
    BY <2>1, <2>2 DEF TypeInv, TypeOK
<1> QED
  BY Invariance, <1>1, PTL

(* The counter of threadpool.cpp:226 and 408 means what the overflow test  *)
(* of line 397 takes it to mean.                                           *)
THEOREM WaitingCounts == Spec => []WaitingCount
BY Invariance, PTL DEF Inv

(* The test of threadpool.cpp:397 bounds the queue.                        *)
THEOREM QueueBounded == Spec => []QueueBound
<1>1. Inv => QueueBound
  BY CountedBound, PoolAssumption DEF Inv, TypeInv, WaitingCount, QueueBound
<1> QED
  BY Invariance, <1>1, PTL

(* front() and pop() of threadpool.cpp:289-290 never meet an empty queue.  *)
THEOREM DoneNeverEmpty == Spec => []DoneOwed
BY Invariance, PTL DEF Inv

-----------------------------------------------------------------------------
(***************************************************************************)
(* Wakeups.  A step is harmless when no worker falls asleep, no looker     *)
(* goes and the signalled part of the queue does not grow.                 *)
(***************************************************************************)
Asleep == {w \in Workers : pc[w] = "sleep"}
Due == Len(m_queues) - Unsignalled

LEMMA WakeupStep == Inv /\ WakeupsCoverBacklog /\ [Next]_vars => WakeupsCoverBacklog'
<1> SUFFICES ASSUME Inv, WakeupsCoverBacklog, [Next]_vars
             PROVE  WakeupsCoverBacklog'
  OBVIOUS
<1> USE PoolAssumption DEF lockVars, poolVars, workerVars, clientVars
<1>t. TypeInv /\ Hands /\ Locks
  BY DEF Inv
<1>f. /\ IsFiniteSet(Lookers) /\ Cardinality(Lookers) \in Nat
      /\ IsFiniteSet(Lookers') /\ Cardinality(Lookers') \in Nat
      /\ Due \in Int /\ Len(m_queues) \in Nat /\ Unsignalled \in {0, 1}
  BY <1>t, FS_Subset, FS_CardinalityType DEF Lookers, TypeInv, Due, Unsignalled
<1>w. Asleep = {} \/ Cardinality(Lookers) >= Due
  BY DEF Asleep, Due, WakeupsCoverBacklog
<1>g. ASSUME Asleep' = {} \/ Cardinality(Lookers') >= Due' PROVE WakeupsCoverBacklog'
  BY <1>g DEF Asleep, Due, WakeupsCoverBacklog
<1>q. ASSUME Asleep' \subseteq Asleep, Lookers \subseteq Lookers', Due' = Due
      PROVE  WakeupsCoverBacklog'
  <2>1. Cardinality(Lookers') >= Cardinality(Lookers)
    BY <1>f, <1>q, FS_Subset
  <2> QED
    BY <1>f, <1>w, <1>g, <1>q, <2>1
<1>1. CASE InitPool
  <2>1. Len(m_queues) = 0 /\ Len(m_queues') = 0
    BY <1>1 DEF InitPool, Inv, Fresh
  <2>2. Asleep' \subseteq Asleep /\ Lookers \subseteq Lookers' /\ Due' = Due
    BY <1>1, <2>1 DEF InitPool, Asleep, Lookers, Due, Unsignalled
  <2> QED
    BY <2>2, <1>q
<1>2. CASE CreateFails
  <2>1. Asleep' \subseteq Asleep /\ Lookers \subseteq Lookers'
    BY <1>t, <1>2 DEF CreateFails, TypeInv, Hands, Asleep, Lookers
  <2>2. Due' = Due
    BY <1>t, <1>2 DEF CreateFails, TypeInv, Due, Unsignalled
  <2> QED
    BY <2>1, <2>2, <1>q
<1>3. ASSUME NEW w \in Workers, CreateThread(w) PROVE WakeupsCoverBacklog'
  <2>1. Asleep' \subseteq Asleep /\ Lookers \subseteq Lookers'
    BY <1>t, <1>3 DEF CreateThread, TypeInv, Hands, Asleep, Lookers
  <2>2. Due' = Due
    BY <1>t, <1>3 DEF CreateThread, TypeInv, Due, Unsignalled
  <2> QED
    BY <2>1, <2>2, <1>q
<1>4. ASSUME NEW w \in Workers, WorkerStep(w) PROVE WakeupsCoverBacklog'
  <2>1. CASE LockQueue(w)
    <3>1. Asleep' \subseteq Asleep /\ Lookers \subseteq Lookers'
      BY <1>t, <2>1 DEF LockQueue, TypeInv, Hands, Asleep, Lookers
    <3>2. Due' = Due
      BY <1>t, <2>1 DEF LockQueue, TypeInv, Due, Unsignalled
    <3> QED
      BY <3>1, <3>2, <1>q
  <2>2. CASE CountDown(w)
    <3>1. Asleep' \subseteq Asleep /\ Lookers \subseteq Lookers'
      BY <1>t, <2>2 DEF CountDown, TypeInv, Hands, Asleep, Lookers
    <3>2. Due' = Due
      BY <1>t, <2>2 DEF CountDown, TypeInv, Due, Unsignalled
    <3> QED
      BY <3>1, <3>2, <1>q
  <2>3. CASE CondWait(w)
    <3>1. Due' <= 0
      BY <1>t, <2>3 DEF CondWait, Due, Unsignalled
    <3> QED
      BY <1>f, <1>g, <3>1 DEF Due, Unsignalled
  <2>4. CASE Relock(w)
    <3>1. Asleep' \subseteq Asleep /\ Lookers \subseteq Lookers'
      BY <1>t, <2>4 DEF Relock, TypeInv, Hands, Asleep, Lookers
    <3>2. Due' = Due
      BY <1>t, <2>4 DEF Relock, TypeInv, Due, Unsignalled
    <3> QED
      BY <3>1, <3>2, <1>q
  <2>5. CASE TakeTask(w)
    <3>1. Due' = Due - 1
      BY <1>t, <2>5 DEF TakeTask, TypeInv, Due, Unsignalled
    <3>2. Asleep' = Asleep /\ Lookers \ {w} \subseteq Lookers'
      BY <1>t, <2>5 DEF TakeTask, TypeInv, Asleep, Lookers
    <3>3. Cardinality(Lookers') >= Cardinality(Lookers) - 1
      <4>1. /\ IsFiniteSet(Lookers \ {w})
            /\ Cardinality(Lookers \ {w}) >= Cardinality(Lookers) - 1
            /\ Cardinality(Lookers \ {w}) \in Nat
        <5>1. /\ IsFiniteSet(Lookers \ {w})
              /\ Cardinality(Lookers \ {w})
                   = IF w \in Lookers THEN Cardinality(Lookers) - 1 ELSE Cardinality(Lookers)
          BY <1>f, FS_RemoveElement
        <5>2. Cardinality(Lookers \ {w}) \in Nat
          BY <5>1, FS_CardinalityType
        <5> QED
          BY <1>f, <5>1, <5>2
      <4>2. Cardinality(Lookers \ {w}) <= Cardinality(Lookers')
        BY <1>f, <3>2, FS_Subset
      <4> QED
        BY <1>f, <4>1, <4>2
    <3> QED
      BY <1>f, <1>g, <1>w, <3>1, <3>2, <3>3
  <2>6. CASE UnlockQueue(w)
    <3>1. Asleep' \subseteq Asleep /\ Lookers \subseteq Lookers'
      BY <1>t, <2>6 DEF UnlockQueue, TypeInv, Hands, Asleep, Lookers
    <3>2. Due' = Due
      BY <1>t, <2>6 DEF UnlockQueue, TypeInv, Due, Unsignalled
    <3> QED
      BY <3>1, <3>2, <1>q
  <2>7. CASE RunTask(w)
    <3>1. Asleep' \subseteq Asleep /\ Lookers \subseteq Lookers'
      BY <1>t, <2>7 DEF RunTask, TypeInv, Hands, Asleep, Lookers
    <3>2. Due' = Due
      BY <1>t, <2>7 DEF RunTask, TypeInv, Due, Unsignalled
    <3> QED
      BY <3>1, <3>2, <1>q
  <2>8. CASE ExitHandler(w)
    <3>1. Asleep' \subseteq Asleep /\ Lookers \subseteq Lookers'
      BY <1>t, <2>8 DEF ExitHandler, TypeInv, Hands, Asleep, Lookers
    <3>2. Due' = Due
      BY <1>t, <2>8 DEF ExitHandler, TypeInv, Due, Unsignalled
    <3> QED
      BY <3>1, <3>2, <1>q
  <2>9. CASE SpinLock(w, "spinpush", "push")
    <3>1. Asleep' \subseteq Asleep /\ Lookers \subseteq Lookers'
      BY <1>t, <2>9 DEF SpinLock, TypeInv, Hands, Asleep, Lookers
    <3>2. Due' = Due
      BY <1>t, <2>9 DEF SpinLock, TypeInv, Due, Unsignalled
    <3> QED
      BY <3>1, <3>2, <1>q
  <2>10. CASE PushDone(w)
    <3>1. Asleep' \subseteq Asleep /\ Lookers \subseteq Lookers'
      BY <1>t, <2>10 DEF PushDone, TypeInv, Hands, Asleep, Lookers, AllTasks
    <3>2. Due' = Due
      BY <1>t, <2>10 DEF PushDone, TypeInv, Due, Unsignalled
    <3> QED
      BY <3>1, <3>2, <1>q
  <2>11. CASE SpinUnlock(w, "unpush", "spinpop")
    <3>1. Asleep' \subseteq Asleep /\ Lookers \subseteq Lookers'
      BY <1>t, <2>11 DEF SpinUnlock, TypeInv, Hands, Asleep, Lookers
    <3>2. Due' = Due
      BY <1>t, <2>11 DEF SpinUnlock, TypeInv, Due, Unsignalled
    <3> QED
      BY <3>1, <3>2, <1>q
  <2>12. CASE SpinLock(w, "spinpop", "pop")
    <3>1. Asleep' \subseteq Asleep /\ Lookers \subseteq Lookers'
      BY <1>t, <2>12 DEF SpinLock, TypeInv, Hands, Asleep, Lookers
    <3>2. Due' = Due
      BY <1>t, <2>12 DEF SpinLock, TypeInv, Due, Unsignalled
    <3> QED
      BY <3>1, <3>2, <1>q
  <2>13. CASE PopDone(w)
    <3>1. Asleep' \subseteq Asleep /\ Lookers \subseteq Lookers'
      BY <1>t, <2>13 DEF PopDone, TypeInv, Hands, Asleep, Lookers
    <3>2. Due' = Due
      BY <1>t, <2>13 DEF PopDone, TypeInv, Due, Unsignalled
    <3> QED
      BY <3>1, <3>2, <1>q
  <2>14. CASE SpinUnlock(w, "unpop", "event")
    <3>1. Asleep' \subseteq Asleep /\ Lookers \subseteq Lookers'
      BY <1>t, <2>14 DEF SpinUnlock, TypeInv, Hands, Asleep, Lookers
    <3>2. Due' = Due
      BY <1>t, <2>14 DEF SpinUnlock, TypeInv, Due, Unsignalled
    <3> QED
      BY <3>1, <3>2, <1>q
  <2>15. CASE RaiseEvent(w)
    <3>1. Asleep' \subseteq Asleep /\ Lookers \subseteq Lookers'
      BY <1>t, <2>15 DEF RaiseEvent, TypeInv, Hands, Asleep, Lookers
    <3>2. Due' = Due
      BY <1>t, <2>15 DEF RaiseEvent, TypeInv, Due, Unsignalled
    <3> QED
      BY <3>1, <3>2, <1>q
  <2> QED
    BY <1>4, <2>1, <2>2, <2>3, <2>4, <2>5, <2>6, <2>7, <2>8, <2>9, <2>10, <2>11, <2>12,
       <2>13, <2>14, <2>15 DEF WorkerStep
<1>5. ASSUME NEW w \in Workers, SpuriousWakeup(w) PROVE WakeupsCoverBacklog'
  <2>1. Asleep' \subseteq Asleep /\ Lookers \subseteq Lookers'
    BY <1>t, <1>5 DEF SpuriousWakeup, TypeInv, Hands, Asleep, Lookers
  <2>2. Due' = Due
    BY <1>t, <1>5 DEF SpuriousWakeup, TypeInv, Due, Unsignalled
  <2> QED
    BY <2>1, <2>2, <1>q
<1>6. ASSUME NEW c \in Posters, PostStep(c) PROVE WakeupsCoverBacklog'
  <2>1. CASE PostLock(c)
    <3>1. Asleep' \subseteq Asleep /\ Lookers \subseteq Lookers'
      BY <1>t, <2>1 DEF PostLock, TypeInv, Hands, Asleep, Lookers
    <3>2. Due' = Due
      BY <1>t, <2>1 DEF PostLock, TypeInv, Due, Unsignalled
    <3> QED
      BY <3>1, <3>2, <1>q
  <2>2. CASE PostOverflow(c)
    <3>1. Asleep' \subseteq Asleep /\ Lookers \subseteq Lookers'
      BY <1>t, <2>2 DEF PostOverflow, TypeInv, Hands, Asleep, Lookers
    <3>2. Due' = Due
      BY <1>t, <2>2 DEF PostOverflow, TypeInv, Due, Unsignalled
    <3> QED
      BY <3>1, <3>2, <1>q
  <2>3. CASE PostPush(c)
    <3>1. \A b \in Posters : cpc[b] # "signal"
      BY <1>t, <2>3 DEF PostPush, PushWhen, Locks, ClientInMutex
    <3>2. Unsignalled = 0 /\ Unsignalled' = 1
      BY <1>t, <2>3, <3>1 DEF PostPush, PushWhen, TypeInv, Unsignalled
    <3>3. Due' = Due
      BY <1>t, <2>3, <3>2 DEF PostPush, PushWhen, TypeInv, Due
    <3>4. Asleep' \subseteq Asleep /\ Lookers \subseteq Lookers'
      BY <2>3 DEF PostPush, PushWhen, Asleep, Lookers
    <3> QED
      BY <3>3, <3>4, <1>q
  <2>4. CASE PostSignal(c)
    <3>1. \A b \in Posters \ {c} : cpc[b] # "signal"
      BY <1>t, <2>4 DEF PostSignal, Locks, ClientInMutex
    <3>2. Unsignalled = 1 /\ Unsignalled' = 0
      BY <1>t, <2>4, <3>1 DEF PostSignal, TypeInv, Unsignalled
    <3>3. Due' = Due + 1
      BY <1>f, <2>4, <3>2 DEF PostSignal, Due
    <3>4. CASE Asleep' = {}
      BY <1>g, <3>4
    <3>5. ASSUME NEW w \in Workers, pc[w] = "sleep", pc' = [pc EXCEPT ![w] = "relock"]
          PROVE  WakeupsCoverBacklog'
      <4>1. w \notin Lookers /\ Lookers' = Lookers \cup {w} /\ w \in Asleep
        <5>1. cur' = cur /\ cur[w] # ExitTask
          BY <1>t, <2>4, <3>5 DEF PostSignal, Hands, AllTasks
        <5>2. /\ pc \in [Workers -> WorkerPC]
              /\ pc'[w] = "relock"
              /\ \A v \in Workers \ {w} : pc'[v] = pc[v]
          BY <1>t, <3>5 DEF TypeInv
        <5> QED
          BY <3>5, <5>1, <5>2 DEF Lookers, Asleep
      <4>2. Cardinality(Lookers') = Cardinality(Lookers) + 1
        BY <1>f, <4>1, GainOne
      <4> QED
        BY <1>f, <1>g, <1>w, <3>3, <4>1, <4>2
    <3> QED
      BY <2>4, <3>4, <3>5 DEF PostSignal, Signal, Asleep
  <2>5. CASE PostUnlock(c)
    <3>1. Asleep' \subseteq Asleep /\ Lookers \subseteq Lookers'
      BY <1>t, <2>5 DEF PostUnlock, TypeInv, Hands, Asleep, Lookers
    <3>2. Due' = Due
      BY <1>t, <2>5 DEF PostUnlock, TypeInv, Due, Unsignalled
    <3> QED
      BY <3>1, <3>2, <1>q
  <2> QED
    BY <1>6, <2>1, <2>2, <2>3, <2>4, <2>5 DEF PostStep
<1>7. ASSUME NEW c \in Clients, NEW t \in Tasks, ClientPost(c, t) PROVE WakeupsCoverBacklog'
  <2>1. Asleep' \subseteq Asleep /\ Lookers \subseteq Lookers'
    BY <1>t, <1>7 DEF ClientPost, CallPost, Posters, TypeInv, Hands, Asleep, Lookers
  <2>2. Due' = Due
    BY <1>t, <1>7 DEF ClientPost, CallPost, Posters, TypeInv, Due, Unsignalled
  <2> QED
    BY <2>1, <2>2, <1>q
<1>8. CASE CallDestroy
  <2>1. Asleep' \subseteq Asleep /\ Lookers \subseteq Lookers'
    BY <1>t, <1>8 DEF CallDestroy, CallPost, Posters, TypeInv, Hands, Asleep, Lookers
  <2>2. Due' = Due
    BY <1>t, <1>8 DEF CallDestroy, CallPost, Posters, TypeInv, Due, Unsignalled
  <2> QED
    BY <2>1, <2>2, <1>q
<1>9. CASE Yield
  <2>1. Asleep' \subseteq Asleep /\ Lookers \subseteq Lookers'
    BY <1>t, <1>9 DEF Yield, Posters, TypeInv, Hands, Asleep, Lookers
  <2>2. Due' = Due
    BY <1>t, <1>9 DEF Yield, Posters, TypeInv, Due, Unsignalled
  <2> QED
    BY <2>1, <2>2, <1>q
<1>10. CASE UNCHANGED vars
  <2>1. Asleep' \subseteq Asleep /\ Lookers \subseteq Lookers'
    BY <1>t, <1>10 DEF vars, TypeInv, Hands, Asleep, Lookers
  <2>2. Due' = Due
    BY <1>t, <1>10 DEF vars, TypeInv, Due, Unsignalled
  <2> QED
    BY <2>1, <2>2, <1>q
<1> QED
  BY <1>1, <1>2, <1>3, <1>4, <1>5, <1>6, <1>7, <1>8, <1>9, <1>10 DEF Next

(* No post of threadpool.cpp:410 is lost on a pool with sleepers: as many  *)
(* workers are awake as there are tasks to fetch.                          *)
THEOREM NoLostWakeup == Spec => []WakeupsCoverBacklog
<1>1. Init => WakeupsCoverBacklog
  BY DEF Init, WakeupsCoverBacklog
<1> QED
  BY Invariance, WakeupStep, <1>1, PTL DEF Spec

-----------------------------------------------------------------------------
(***************************************************************************)
(* The pool implements the executor.  A task is in one place at a time:    *)
(* waiting, in the hands of a worker, waiting for its event, having it     *)
(* raised, or completed; `active' marks the objects that are somewhere.    *)
(***************************************************************************)
Elements(q) == {q[i] : i \in DOMAIN q}
Distinct(q) == \A i, j \in DOMAIN q : q[i] = q[j] => i = j

Held == {w \in Workers : cur[w] # NoTask}
Raising == {w \in Workers : evt[w] # NoTask}
InHand == {cur[w] : w \in Held}
InEvent == {evt[w] : w \in Raising}

OnePlace ==
    /\ Distinct(m_queues) /\ Distinct(m_queues_done)
    /\ \A v, w \in Held : cur[v] = cur[w] => v = w
    /\ \A v, w \in Raising : evt[v] = evt[w] => v = w
    /\ Elements(m_queues) \cap (InHand \cup Elements(m_queues_done) \cup InEvent \cup completed) = {}
    /\ InHand \cap (Elements(m_queues_done) \cup InEvent \cup completed) = {}
    /\ Elements(m_queues_done) \cap (InEvent \cup completed) = {}
    /\ InEvent \cap completed = {}

Somewhere == Elements(m_queues) \cup InHand \cup Elements(m_queues_done) \cup InEvent \cup completed
Accepted == \A t \in Somewhere : active[t]

(* An object being posted is its poster's own and not accepted yet. *)
Posting ==
    \A c \in Posters : arg[c] # NoTask =>
        /\ IF arg[c] = ExitTask THEN c = Destroyer ELSE Owner[arg[c]] = c
        /\ cpc[c] \in {"lock", "check"} => ~active[arg[c]]

Places == OnePlace /\ Accepted /\ Posting

LEMMA AppendElement ==
    ASSUME NEW q \in Seq(AllTasks), NEW t \in AllTasks, NEW r, r = Append(q, t)
    PROVE  /\ Elements(r) = Elements(q) \cup {t}
           /\ Distinct(q) /\ t \notin Elements(q) => Distinct(r)
<1>1. /\ DOMAIN r = DOMAIN q \cup {Len(q) + 1} /\ r[Len(q) + 1] = t
      /\ \A i \in DOMAIN q : r[i] = q[i]
  OBVIOUS
<1>2. Elements(r) = Elements(q) \cup {t}
  BY <1>1 DEF Elements
<1>3. Distinct(q) /\ t \notin Elements(q) => Distinct(r)
  BY <1>1 DEF Elements, Distinct
<1> QED
  BY <1>2, <1>3

LEMMA TakeElement ==
    ASSUME NEW q \in Seq(AllTasks), q # <<>>, Distinct(q), NEW h, h = Head(q), NEW r, r = Tail(q)
    PROVE  /\ h \in AllTasks /\ h \in Elements(q) /\ Elements(r) = Elements(q) \ {h} /\ Distinct(r)
<1>1. /\ DOMAIN q = 1 .. Len(q) /\ Len(q) \in Nat \ {0} /\ h = q[1]
      /\ DOMAIN r = 1 .. Len(q) - 1 /\ \A i \in 1 .. Len(q) - 1 : r[i] = q[i + 1]
  OBVIOUS
<1>2. h \in AllTasks /\ h \in Elements(q)
  BY <1>1 DEF Elements
<1>3. Distinct(r)
  <2> SUFFICES ASSUME NEW i \in 1 .. Len(q) - 1, NEW j \in 1 .. Len(q) - 1, r[i] = r[j] PROVE i = j
    BY <1>1 DEF Distinct
  <2>1. i + 1 \in DOMAIN q /\ j + 1 \in DOMAIN q /\ q[i + 1] = q[j + 1]
    BY <1>1
  <2>2. i + 1 = j + 1
    BY <2>1 DEF Distinct
  <2> QED
    BY <2>2
<1>4. ASSUME NEW i \in 1 .. Len(q) - 1 PROVE r[i] \in Elements(q) /\ r[i] # h
  <2>1. i + 1 \in DOMAIN q /\ r[i] = q[i + 1] /\ 1 \in DOMAIN q /\ i + 1 # 1
    BY <1>1
  <2>2. r[i] # h
    BY <1>1, <2>1 DEF Distinct
  <2> QED
    BY <2>1, <2>2 DEF Elements
<1>5. ASSUME NEW x \in Elements(q), x # h PROVE x \in Elements(r)
  <2>1. PICK i \in DOMAIN q : x = q[i]
    BY DEF Elements
  <2>2. i # 1
    BY <1>1, <1>5, <2>1
  <2>3. i - 1 \in DOMAIN r /\ r[i - 1] = q[i]
    BY <1>1, <2>2
  <2> QED
    BY <2>1, <2>3 DEF Elements
<1>6. Elements(r) = Elements(q) \ {h}
  BY <1>1, <1>4, <1>5 DEF Elements
<1> QED
  BY <1>2, <1>3, <1>6

(* A step that moves no task. *)
LEMMA PlacesStay ==
    ASSUME UNCHANGED <<m_queues, m_queues_done, cur, evt, completed>>
    PROVE  /\ OnePlace => OnePlace'
           /\ Somewhere' = Somewhere
<1>1. Held' = Held /\ Raising' = Raising
  BY DEF Held, Raising
<1>2. InHand' = InHand /\ InEvent' = InEvent
  BY <1>1 DEF InHand, InEvent
<1>3. Elements(m_queues)' = Elements(m_queues) /\ Elements(m_queues_done)' = Elements(m_queues_done)
  BY DEF Elements
<1>4. Distinct(m_queues)' = Distinct(m_queues) /\ Distinct(m_queues_done)' = Distinct(m_queues_done)
  BY DEF Distinct
<1> QED
  BY <1>1, <1>2, <1>3, <1>4 DEF OnePlace, Somewhere

LEMMA QuietStep ==
    ASSUME Places, UNCHANGED <<m_queues, m_queues_done, cur, evt, completed, active>>,
           \A c \in Posters : \/ arg'[c] = NoTask
                              \/ arg'[c] = arg[c] /\ (cpc'[c] \in {"lock", "check"} => cpc[c] \in {"lock", "check"})
    PROVE  Places'
<1>1. OnePlace' /\ Somewhere' = Somewhere
  BY PlacesStay DEF Places
<1>2. Accepted'
  BY <1>1 DEF Places, Accepted
<1>3. Posting'
  BY DEF Places, Posting
<1> QED
  BY <1>1, <1>2, <1>3 DEF Places

(* A task that moves from one place to the next. *)
LEMMA SameTasks ==
    ASSUME Places, Somewhere' = Somewhere, OnePlace', UNCHANGED <<arg, cpc, active>>
    PROVE  Places'
<1>1. Accepted'
  BY DEF Places, Accepted
<1>2. Posting'
  BY DEF Places, Posting
<1> QED
  BY <1>1, <1>2 DEF Places

LEMMA TakePlaces == ASSUME Inv, Places, NEW w \in Workers, TakeTask(w) PROVE Places'
<1> DEFINE h == Head(m_queues)
<1>1. /\ m_queues \in Seq(AllTasks) /\ m_queues # <<>> /\ cur \in [Workers -> AllTasks \cup {NoTask}]
      /\ NoTask \notin AllTasks /\ m_queues' = Tail(m_queues) /\ cur' = [cur EXCEPT ![w] = h]
      /\ UNCHANGED <<m_queues_done, evt, completed, arg, cpc, active>>
      /\ cur[w] = NoTask
  BY PoolAssumption DEF TakeTask, Inv, TypeInv, Hands, clientVars
<1>2. /\ h \in AllTasks /\ h \in Elements(m_queues) /\ Elements(m_queues)' = Elements(m_queues) \ {h}
      /\ Distinct(m_queues)'
  <2>1. Distinct(m_queues)
    BY DEF Places, OnePlace
  <2>2. h \in AllTasks /\ h \in Elements(m_queues) /\ Elements(m_queues') = Elements(m_queues) \ {h} /\ Distinct(m_queues')
    BY <1>1, <2>1, TakeElement
  <2> QED
    BY <2>2 DEF Elements, Distinct
<1> HIDE DEF h
<1>3. /\ Held' = Held \cup {w} /\ w \notin Held /\ cur'[w] = h /\ \A v \in Held : cur'[v] = cur[v]
      /\ InHand' = InHand \cup {h} /\ Raising' = Raising /\ InEvent' = InEvent
  <2>1. Held' = Held \cup {w} /\ w \notin Held /\ cur'[w] = h /\ \A v \in Held : cur'[v] = cur[v]
    BY <1>1, <1>2 DEF Held
  <2>2. InHand' = InHand \cup {h}
    BY <2>1 DEF InHand
  <2> QED
    BY <1>1, <2>1, <2>2 DEF Raising, InEvent
<1>4. Elements(m_queues_done)' = Elements(m_queues_done) /\ Distinct(m_queues_done)' = Distinct(m_queues_done)
  BY <1>1 DEF Elements, Distinct
<1>5. h \notin InHand \cup Elements(m_queues_done) \cup InEvent \cup completed
  BY <1>2 DEF Places, OnePlace
<1>6. OnePlace'
  <2>1. \A v \in Held : cur[v] # h
    BY <1>5 DEF InHand
  <2>2. \A v, u \in Held' : cur'[v] = cur'[u] => v = u
    BY <1>3, <2>1 DEF Places, OnePlace
  <2> QED
    BY <1>1, <1>2, <1>3, <1>4, <1>5, <2>2 DEF Places, OnePlace
<1>7. Somewhere' = Somewhere
  BY <1>1, <1>2, <1>3, <1>4 DEF Somewhere
<1> QED
  BY <1>1, <1>6, <1>7, SameTasks

LEMMA PushDonePlaces == ASSUME Inv, Places, NEW w \in Workers, PushDone(w) PROVE Places'
<1> DEFINE h == cur[w]
<1>1. /\ m_queues_done \in Seq(AllTasks) /\ cur \in [Workers -> AllTasks \cup {NoTask}]
      /\ NoTask \notin AllTasks /\ m_queues_done' = Append(m_queues_done, h) /\ cur' = [cur EXCEPT ![w] = NoTask]
      /\ UNCHANGED <<m_queues, evt, completed, arg, cpc, active>>
      /\ w \in Held /\ h \in AllTasks
  BY PoolAssumption DEF PushDone, Inv, TypeInv, Hands, clientVars, Held
<1>2. h \in InHand
  BY <1>1 DEF InHand
<1>3. /\ Elements(m_queues_done)' = Elements(m_queues_done) \cup {h} /\ Distinct(m_queues_done)'
  <2>1. Distinct(m_queues_done) /\ h \notin Elements(m_queues_done)
    BY <1>2 DEF Places, OnePlace
  <2>2. Elements(m_queues_done') = Elements(m_queues_done) \cup {h} /\ Distinct(m_queues_done')
    BY <1>1, <2>1, AppendElement
  <2> QED
    BY <2>2 DEF Elements, Distinct
<1>4. Held' = Held \ {w} /\ \A v \in Held' : cur'[v] = cur[v]
  BY <1>1 DEF Held
<1>5. InHand' = InHand \ {h}
  BY <1>1, <1>4 DEF InHand, Places, OnePlace
<1>6. Raising' = Raising /\ InEvent' = InEvent
  BY <1>1 DEF Raising, InEvent
<1>7. Elements(m_queues)' = Elements(m_queues) /\ Distinct(m_queues)' = Distinct(m_queues)
  BY <1>1 DEF Elements, Distinct
<1> HIDE DEF h
<1>8. h \notin Elements(m_queues) \cup Elements(m_queues_done) \cup InEvent \cup completed
  BY <1>2 DEF Places, OnePlace
<1>9. OnePlace'
  BY <1>1, <1>3, <1>4, <1>5, <1>6, <1>7, <1>8 DEF Places, OnePlace
<1>10. Somewhere' = Somewhere
  BY <1>1, <1>2, <1>3, <1>5, <1>6, <1>7 DEF Somewhere
<1> QED
  BY <1>1, <1>9, <1>10, SameTasks

LEMMA PopDonePlaces == ASSUME Inv, Places, NEW w \in Workers, PopDone(w) PROVE Places'
<1> DEFINE h == Head(m_queues_done)
<1>1. /\ m_queues_done \in Seq(AllTasks) /\ m_queues_done # <<>> /\ evt \in [Workers -> AllTasks \cup {NoTask}]
      /\ NoTask \notin AllTasks /\ m_queues_done' = Tail(m_queues_done) /\ evt' = [evt EXCEPT ![w] = h]
      /\ UNCHANGED <<m_queues, cur, completed, arg, cpc, active>>
      /\ evt[w] = NoTask
  BY PoolAssumption, PopFindsTask DEF PopDone, Inv, TypeInv, Hands, clientVars
<1>2. /\ h \in AllTasks /\ h \in Elements(m_queues_done)
      /\ Elements(m_queues_done)' = Elements(m_queues_done) \ {h} /\ Distinct(m_queues_done)'
  <2>1. Distinct(m_queues_done)
    BY DEF Places, OnePlace
  <2>2. /\ h \in AllTasks /\ h \in Elements(m_queues_done)
        /\ Elements(m_queues_done') = Elements(m_queues_done) \ {h} /\ Distinct(m_queues_done')
    BY <1>1, <2>1, TakeElement
  <2> QED
    BY <2>2 DEF Elements, Distinct
<1> HIDE DEF h
<1>3. /\ Raising' = Raising \cup {w} /\ w \notin Raising /\ evt'[w] = h /\ \A v \in Raising : evt'[v] = evt[v]
      /\ InEvent' = InEvent \cup {h} /\ Held' = Held /\ InHand' = InHand
  <2>1. Raising' = Raising \cup {w} /\ w \notin Raising /\ evt'[w] = h /\ \A v \in Raising : evt'[v] = evt[v]
    BY <1>1, <1>2 DEF Raising
  <2>2. InEvent' = InEvent \cup {h}
    BY <2>1 DEF InEvent
  <2> QED
    BY <1>1, <2>1, <2>2 DEF Held, InHand
<1>4. Elements(m_queues)' = Elements(m_queues) /\ Distinct(m_queues)' = Distinct(m_queues)
  BY <1>1 DEF Elements, Distinct
<1>5. h \notin Elements(m_queues) \cup InHand \cup InEvent \cup completed
  BY <1>2 DEF Places, OnePlace
<1>6. OnePlace'
  <2>1. \A v \in Raising : evt[v] # h
    BY <1>5 DEF InEvent
  <2>2. \A v, u \in Raising' : evt'[v] = evt'[u] => v = u
    BY <1>3, <2>1 DEF Places, OnePlace
  <2> QED
    BY <1>1, <1>2, <1>3, <1>4, <1>5, <2>2 DEF Places, OnePlace
<1>7. Somewhere' = Somewhere
  BY <1>1, <1>2, <1>3, <1>4 DEF Somewhere
<1> QED
  BY <1>1, <1>6, <1>7, SameTasks

LEMMA RaisePlaces == ASSUME Inv, Places, NEW w \in Workers, RaiseEvent(w) PROVE Places'
<1> DEFINE h == evt[w]
<1>1. /\ evt \in [Workers -> AllTasks \cup {NoTask}] /\ NoTask \notin AllTasks
      /\ completed' = completed \cup {h} /\ evt' = [evt EXCEPT ![w] = NoTask]
      /\ UNCHANGED <<m_queues, m_queues_done, cur, arg, cpc, active>>
      /\ w \in Raising /\ h \in AllTasks
  BY PoolAssumption DEF RaiseEvent, Inv, TypeInv, Hands, clientVars, poolVars, Raising
<1>2. h \in InEvent
  BY <1>1 DEF InEvent
<1>3. Raising' = Raising \ {w} /\ \A v \in Raising' : evt'[v] = evt[v]
  BY <1>1 DEF Raising
<1>4. InEvent' = InEvent \ {h}
  BY <1>1, <1>3 DEF InEvent, Places, OnePlace
<1>5. Held' = Held /\ InHand' = InHand
  BY <1>1 DEF Held, InHand
<1>6. /\ Elements(m_queues)' = Elements(m_queues) /\ Distinct(m_queues)' = Distinct(m_queues)
      /\ Elements(m_queues_done)' = Elements(m_queues_done) /\ Distinct(m_queues_done)' = Distinct(m_queues_done)
  BY <1>1 DEF Elements, Distinct
<1> HIDE DEF h
<1>7. h \notin Elements(m_queues) \cup InHand \cup Elements(m_queues_done) \cup completed
  BY <1>2 DEF Places, OnePlace
<1>8. OnePlace'
  BY <1>1, <1>3, <1>4, <1>5, <1>6, <1>7 DEF Places, OnePlace
<1>9. Somewhere' = Somewhere
  BY <1>1, <1>2, <1>4, <1>5, <1>6 DEF Somewhere
<1> QED
  BY <1>1, <1>8, <1>9, SameTasks

LEMMA SomewhereType == ASSUME Inv PROVE Somewhere \subseteq AllTasks
<1>1. Elements(m_queues) \subseteq AllTasks /\ Elements(m_queues_done) \subseteq AllTasks
  BY DEF Inv, TypeInv, Elements
<1>2. InHand \subseteq AllTasks /\ InEvent \subseteq AllTasks /\ completed \subseteq AllTasks
  BY DEF Inv, TypeInv, InHand, InEvent, Held, Raising
<1> QED
  BY <1>1, <1>2 DEF Somewhere

(* The task that is pushed was nowhere before. *)
LEMMA PostedIsNew ==
    ASSUME Inv, Places, NEW c \in Posters, cpc[c] \in {"lock", "check"}
    PROVE  arg[c] \in AllTasks /\ ~active[arg[c]] /\ arg[c] \notin Somewhere
<1>1. arg[c] \in AllTasks
  BY DEF Inv, TypeInv, Hands
<1>2. ~active[arg[c]]
  BY <1>1, PoolAssumption DEF Places, Posting
<1> QED
  BY <1>1, <1>2 DEF Places, Accepted

LEMMA PushPlaces == ASSUME Inv, Places, NEW c \in Posters, PostPush(c) PROVE Places'
<1> DEFINE h == arg[c]
<1>1. /\ m_queues \in Seq(AllTasks) /\ active \in [AllTasks -> BOOLEAN]
      /\ cpc \in [Posters -> ClientPC]
      /\ m_queues' = Append(m_queues, h) /\ active' = [active EXCEPT ![h] = TRUE]
      /\ cpc' = [cpc EXCEPT ![c] = "signal"]
      /\ UNCHANGED <<m_queues_done, cur, evt, completed, arg>>
      /\ cpc[c] = "check"
  BY DEF PostPush, PushWhen, Inv, TypeInv, workerVars
<1>2. h \in AllTasks /\ h \notin Somewhere
  BY <1>1, PostedIsNew
<1>3. /\ Elements(m_queues)' = Elements(m_queues) \cup {h} /\ Distinct(m_queues)'
  <2>1. Distinct(m_queues) /\ h \notin Elements(m_queues)
    BY <1>2 DEF Places, OnePlace, Somewhere
  <2>2. Elements(m_queues') = Elements(m_queues) \cup {h} /\ Distinct(m_queues')
    BY <1>1, <1>2, <2>1, AppendElement
  <2> QED
    BY <2>2 DEF Elements, Distinct
<1>4. /\ Held' = Held /\ InHand' = InHand /\ Raising' = Raising /\ InEvent' = InEvent
      /\ Elements(m_queues_done)' = Elements(m_queues_done)
      /\ Distinct(m_queues_done)' = Distinct(m_queues_done)
  BY <1>1 DEF Held, InHand, Raising, InEvent, Elements, Distinct
<1>5. Posting'
  <2> SUFFICES ASSUME NEW b \in Posters, arg[b] # NoTask
               PROVE  /\ IF arg[b] = ExitTask THEN b = Destroyer ELSE Owner[arg[b]] = b
                      /\ cpc'[b] \in {"lock", "check"} => ~active'[arg[b]]
    BY <1>1 DEF Posting
  <2>1. IF arg[b] = ExitTask THEN b = Destroyer ELSE Owner[arg[b]] = b
    BY DEF Places, Posting
  <2>2. IF h = ExitTask THEN c = Destroyer ELSE Owner[h] = c
    BY <1>2, PoolAssumption DEF Places, Posting
  <2>3. CASE b = c
    BY <1>1, <2>1, <2>3
  <2>4. CASE b # c
    <3>1. arg[b] # h
      BY <2>1, <2>2, <2>4
    <3>2. cpc'[b] = cpc[b] /\ arg[b] \in AllTasks
      BY <1>1, <2>4 DEF Inv, TypeInv
    <3>3. active'[arg[b]] = active[arg[b]]
      BY <1>1, <3>1, <3>2
    <3> QED
      BY <2>1, <3>2, <3>3 DEF Places, Posting
  <2> QED
    BY <2>3, <2>4
<1> HIDE DEF h
<1>6. OnePlace'
  BY <1>1, <1>2, <1>3, <1>4 DEF Places, OnePlace, Somewhere
<1>7. Somewhere' = Somewhere \cup {h}
  BY <1>1, <1>3, <1>4 DEF Somewhere
<1>8. Accepted'
  <2> SUFFICES ASSUME NEW x \in Somewhere \cup {h} PROVE active'[x]
    BY <1>7 DEF Accepted
  <2>1. CASE x = h
    BY <1>1, <1>2, <2>1
  <2>2. CASE x # h
    <3>1. x \in Somewhere /\ x \in AllTasks
      BY <2>2, SomewhereType
    <3>2. active[x]
      BY <3>1 DEF Places, Accepted
    <3>3. active'[x] = active[x]
      BY <1>1, <2>2, <3>1
    <3> QED
      BY <3>2, <3>3
  <2> QED
    BY <2>1, <2>2
<1> QED
  BY <1>5, <1>6, <1>8 DEF Places

(* A call that gets past the test of event.active. *)
LEMMA CallPlaces ==
    ASSUME Inv, Places, NEW c \in Posters, NEW t \in AllTasks, CallPost(c, t),
           IF t = ExitTask THEN c = Destroyer ELSE Owner[t] = c,
           UNCHANGED <<m_queues, m_queues_done, cur, evt, completed>>
    PROVE  Places'
<1>1. /\ arg \in [Posters -> AllTasks \cup {NoTask}] /\ cpc \in [Posters -> ClientPC]
      /\ arg' = [arg EXCEPT ![c] = t] /\ cpc' = [cpc EXCEPT ![c] = "lock"]
      /\ ~active[t] /\ active' = active
  BY DEF CallPost, Inv, TypeInv
<1>2. OnePlace' /\ Somewhere' = Somewhere
  BY PlacesStay DEF Places
<1>3. Accepted'
  BY <1>1, <1>2 DEF Places, Accepted
<1>4. Posting'
  <2> SUFFICES ASSUME NEW b \in Posters, arg'[b] # NoTask
               PROVE  /\ IF arg'[b] = ExitTask THEN b = Destroyer ELSE Owner[arg'[b]] = b
                      /\ cpc'[b] \in {"lock", "check"} => ~active[arg'[b]]
    BY <1>1 DEF Posting
  <2>1. CASE b = c
    BY <1>1, <2>1
  <2>2. CASE b # c
    <3>1. arg'[b] = arg[b] /\ cpc'[b] = cpc[b]
      BY <1>1, <2>2
    <3> QED
      BY <3>1 DEF Places, Posting
  <2> QED
    BY <2>1, <2>2
<1> QED
  BY <1>2, <1>3, <1>4 DEF Places

LEMMA InitPlaces == Init => Places
<1> SUFFICES ASSUME Init PROVE Places
  OBVIOUS
<1>1. /\ m_queues = <<>> /\ m_queues_done = <<>> /\ completed = {}
      /\ Held = {} /\ Raising = {} /\ \A c \in Posters : arg[c] = NoTask
  BY DEF Init, Held, Raising
<1>2. Elements(m_queues) = {} /\ Elements(m_queues_done) = {} /\ InHand = {} /\ InEvent = {}
  BY <1>1 DEF Elements, InHand, InEvent
<1>3. Distinct(m_queues) /\ Distinct(m_queues_done)
  BY <1>1 DEF Distinct
<1> QED
  BY <1>1, <1>2, <1>3 DEF Places, OnePlace, Accepted, Somewhere, Posting

LEMMA PlacesStep == Inv /\ Places /\ [Next]_vars => Places'
<1> SUFFICES ASSUME Inv, Places, [Next]_vars PROVE Places'
  OBVIOUS
<1> USE DEF lockVars, poolVars, workerVars, clientVars
<1>t. TypeInv /\ Hands
  BY DEF Inv
<1>q. ASSUME UNCHANGED <<m_queues, m_queues_done, cur, evt, completed, active, arg, cpc>>
      PROVE  Places'
  BY <1>q, QuietStep
<1>1. CASE InitPool
  BY <1>1, <1>q DEF InitPool, Inv, Fresh
<1>2. CASE CreateFails
  BY <1>2, <1>q DEF CreateFails
<1>3. ASSUME NEW w \in Workers, CreateThread(w) PROVE Places'
  BY <1>3, <1>q DEF CreateThread
<1>4. ASSUME NEW w \in Workers, WorkerStep(w) PROVE Places'
  <2>1. CASE LockQueue(w) \/ CountDown(w) \/ CondWait(w) \/ Relock(w) \/ UnlockQueue(w)
    BY <2>1, <1>q DEF LockQueue, CountDown, CondWait, Relock, UnlockQueue
  <2>2. CASE TakeTask(w)
    BY <2>2, TakePlaces
  <2>3. CASE RunTask(w) \/ ExitHandler(w)
    BY <2>3, <1>q DEF RunTask, ExitHandler
  <2>4. CASE \/ SpinLock(w, "spinpush", "push") \/ SpinUnlock(w, "unpush", "spinpop")
             \/ SpinLock(w, "spinpop", "pop") \/ SpinUnlock(w, "unpop", "event")
    BY <2>4, <1>q DEF SpinLock, SpinUnlock
  <2>5. CASE PushDone(w)
    BY <2>5, PushDonePlaces
  <2>6. CASE PopDone(w)
    BY <2>6, PopDonePlaces
  <2>7. CASE RaiseEvent(w)
    BY <2>7, RaisePlaces
  <2> QED
    BY <1>4, <2>1, <2>2, <2>3, <2>4, <2>5, <2>6, <2>7 DEF WorkerStep
<1>5. ASSUME NEW w \in Workers, SpuriousWakeup(w) PROVE Places'
  BY <1>5, <1>q DEF SpuriousWakeup
<1>6. ASSUME NEW c \in Posters, PostStep(c) PROVE Places'
  <2>1. CASE PostPush(c)
    BY <2>1, PushPlaces
  <2>2. CASE PostLock(c) \/ PostOverflow(c) \/ PostSignal(c) \/ PostUnlock(c)
    <3>1. \A b \in Posters : \/ arg'[b] = NoTask
                             \/ /\ arg'[b] = arg[b]
                                /\ cpc'[b] \in {"lock", "check"} => cpc[b] \in {"lock", "check"}
      BY <1>t, <2>2 DEF TypeInv, PostLock, PostOverflow, PostSignal, PostUnlock
    <3>2. UNCHANGED <<m_queues, m_queues_done, cur, evt, completed, active>>
      BY <2>2 DEF PostLock, PostOverflow, PostSignal, PostUnlock
    <3> QED
      BY <3>1, <3>2, QuietStep
  <2> QED
    BY <1>6, <2>1, <2>2 DEF PostStep
<1>7. ASSUME NEW c \in Clients, NEW t \in Tasks, ClientPost(c, t) PROVE Places'
  <2>1. c \in Posters /\ t \in AllTasks /\ t # ExitTask
    BY PoolAssumption DEF Posters, AllTasks
  <2> QED
    BY <1>7, <2>1, CallPlaces DEF ClientPost
<1>8. CASE CallDestroy
  <2>1. Destroyer \in Posters /\ ExitTask \in AllTasks
    BY DEF Posters, AllTasks
  <2> QED
    BY <1>8, <2>1, CallPlaces DEF CallDestroy
<1>9. CASE Yield
  <2>1. \A b \in Posters : cpc'[b] \in {"lock", "check"} => cpc[b] \in {"lock", "check"}
    BY <1>t, <1>9 DEF Yield, TypeInv
  <2> QED
    BY <1>9, <2>1, QuietStep DEF Yield
<1>10. CASE UNCHANGED vars
  BY <1>10, <1>q DEF vars
<1> QED
  BY <1>1, <1>2, <1>3, <1>4, <1>5, <1>6, <1>7, <1>8, <1>9, <1>10 DEF Next

-----------------------------------------------------------------------------
(* The pool as the executor sees it: each place is a set of workers and    *)
(* what they hold.                                                         *)
At(S) == {v \in Workers : pc[v] \in S}
Running == {cur[w] : w \in {v \in Workers : pc[v] \in {"unlock", "run"}}}
Retired == {cur[w] : w \in {v \in Workers : pc[v] = "exited"}}
Returned == {cur[w] : w \in {v \in Workers : pc[v] \in {"spinpush", "push"}}}
Handled == {cur[w] : w \in {v \in Workers : pc[v] \in {"spinpush", "push"}}}
             \cup {m_queues_done[i] : i \in DOMAIN m_queues_done}
             \cup {evt[w] : w \in {v \in Workers : pc[v] \in {"unpop", "event"}}}

LEMMA Parts ==
    ASSUME Inv
    PROVE  /\ Held = At({"unlock", "run"}) \cup At({"spinpush", "push"}) \cup At({"exited"})
           /\ Raising = At({"unpop", "event"})
           /\ InHand = Running \cup Returned \cup Retired
           /\ Handled = Returned \cup Elements(m_queues_done) \cup InEvent
           /\ Executor!Known = Somewhere
<1>1. /\ Held = At({"unlock", "run"}) \cup At({"spinpush", "push"}) \cup At({"exited"})
      /\ Raising = At({"unpop", "event"})
  BY DEF Inv, Hands, Held, Raising, At
<1>2. InHand = Running \cup Returned \cup Retired
  BY <1>1 DEF InHand, Running, Returned, Retired, At
<1>3. Handled = Returned \cup Elements(m_queues_done) \cup InEvent
  BY <1>1 DEF Handled, Returned, Elements, InEvent, At
<1>4. Executor!Known = Elements(m_queues) \cup Running \cup Handled \cup completed \cup Retired
  BY DEF Executor!Known, Elements, Running, Handled, Retired
<1> QED
  BY <1>1, <1>2, <1>3, <1>4 DEF Somewhere

(* A step on which no worker enters or leaves a place. *)
LEMMA Stutter ==
    ASSUME UNCHANGED <<m_queues, m_queues_done, cur, evt, completed>>,
           \A v \in Workers :
             /\ pc'[v] \in {"unlock", "run"} <=> pc[v] \in {"unlock", "run"}
             /\ pc'[v] \in {"spinpush", "push"} <=> pc[v] \in {"spinpush", "push"}
             /\ pc'[v] \in {"unpop", "event"} <=> pc[v] \in {"unpop", "event"}
             /\ pc'[v] = "exited" <=> pc[v] = "exited"
    PROVE  UNCHANGED Executor!vars
<1>1. Running' = Running /\ Retired' = Retired
  BY DEF Running, Retired
<1>2. Handled' = Handled
  BY DEF Handled
<1> QED
  BY <1>1, <1>2 DEF Executor!vars, Running, Handled, Retired

(* What a finite set of workers holds is no more than their number. *)
LEMMA ImageBound ==
    ASSUME NEW S, IsFiniteSet(S), NEW f, NEW T, T = {f[x] : x \in S}
    PROVE  Cardinality(T) \in Nat /\ Cardinality(T) <= Cardinality(S)
<1> DEFINE g == [x \in S |-> f[x]]
<1>1. g \in Surjection(S, T)
  BY DEF Surjection
<1> HIDE DEF g
<1>2. IsFiniteSet(T) /\ Cardinality(T) <= Cardinality(S)
  BY <1>1, FS_Surjection
<1> QED
  BY <1>2, FS_CardinalityType

(* A worker about to take a task leaves room among the threads. *)
LEMMA RoomForOne ==
    ASSUME Inv, NEW w \in Workers, pc[w] = "test"
    PROVE  Cardinality(Running) + Cardinality(Retired) < Cardinality(Workers)
<1> DEFINE B == {v \in Workers : pc[v] \in {"unlock", "run"}}
           G == {v \in Workers : pc[v] = "exited"}
<1>1. IsFiniteSet(B) /\ IsFiniteSet(G) /\ B \cap G = {}
  BY PoolAssumption, FS_Subset
<1>2. /\ Cardinality(Running) \in Nat /\ Cardinality(Running) <= Cardinality(B)
      /\ Cardinality(Retired) \in Nat /\ Cardinality(Retired) <= Cardinality(G)
  BY <1>1, ImageBound DEF Running, Retired
<1>3. B \cup G \in SUBSET (Workers \ {w})
  OBVIOUS
<1> HIDE DEF B, G
<1>4. Cardinality(B \cup G) = Cardinality(B) + Cardinality(G)
  <2>1. Cardinality(B \cup G) = Cardinality(B) + Cardinality(G) - Cardinality(B \cap G)
    BY <1>1, FS_Union
  <2>2. Cardinality(B \cap G) = 0 /\ Cardinality(B) \in Nat /\ Cardinality(G) \in Nat
    BY <1>1, FS_EmptySet, FS_CardinalityType
  <2> QED
    BY <2>1, <2>2
<1>5. /\ IsFiniteSet(Workers \ {w}) /\ Cardinality(Workers \ {w}) = Cardinality(Workers) - 1
  BY PoolAssumption, FS_RemoveElement
<1>6. Cardinality(B \cup G) <= Cardinality(Workers \ {w})
  BY <1>3, <1>5, FS_Subset
<1>7. Cardinality(B) \in Nat /\ Cardinality(G) \in Nat /\ Cardinality(Workers) \in Nat
  BY <1>1, PoolAssumption, FS_CardinalityType
<1> QED
  BY <1>2, <1>4, <1>5, <1>6, <1>7

(* The executor counts as FiniteSets does. *)
LEMMA SameCount == \A S : Executor!Cardinality(S) = Cardinality(S)
BY DEF Executor!Cardinality, Cardinality

LEMMA TakeMaps == ASSUME Inv, Places, NEW w \in Workers, TakeTask(w) PROVE Executor!Start
<1> DEFINE h == Head(m_queues)
<1>1. /\ pc \in [Workers -> WorkerPC] /\ cur \in [Workers -> AllTasks \cup {NoTask}]
      /\ pc[w] = "test" /\ m_queues # <<>> /\ m_queues' = Tail(m_queues)
      /\ cur' = [cur EXCEPT ![w] = h] /\ pc' = [pc EXCEPT ![w] = "unlock"]
      /\ UNCHANGED <<m_queues_done, evt, completed>>
  BY DEF TakeTask, Inv, TypeInv
<1> HIDE DEF h
<1>2. /\ pc'[w] = "unlock" /\ cur'[w] = h
      /\ \A v \in Workers \ {w} : pc'[v] = pc[v] /\ cur'[v] = cur[v]
  BY <1>1
<1>3. Running' = Running \cup {h}
  BY <1>1, <1>2 DEF Running
<1>4. Retired' = Retired
  BY <1>1, <1>2 DEF Retired
<1>5. Handled' = Handled
  <2>1. {cur'[v] : v \in {u \in Workers : pc'[u] \in {"spinpush", "push"}}}
          = {cur[v] : v \in {u \in Workers : pc[u] \in {"spinpush", "push"}}}
    BY <1>1, <1>2
  <2>2. {u \in Workers : pc'[u] \in {"unpop", "event"}} = {u \in Workers : pc[u] \in {"unpop", "event"}}
    BY <1>1, <1>2
  <2> QED
    BY <1>1, <2>1, <2>2 DEF Handled
<1>6. Cardinality(Running) + Cardinality(Retired) < Cardinality(Workers)
  BY <1>1, RoomForOne
<1>7. Executor!Cardinality(Running) + Executor!Cardinality(Retired) < Cardinality(Workers)
  BY <1>6, SameCount
<1> QED
  BY <1>1, <1>3, <1>4, <1>5, <1>7 DEF Executor!Start, Running, Handled, Retired, h

LEMMA RunMaps == ASSUME Inv, Places, NEW w \in Workers, RunTask(w) PROVE \E t \in AllTasks : Executor!Handle(t)
<1>h. PICK h \in AllTasks : h = cur[w]
  BY DEF RunTask, Inv, TypeInv, Hands
<1>1. /\ pc \in [Workers -> WorkerPC] /\ pc[w] = "run" /\ pc' = [pc EXCEPT ![w] = "spinpush"]
      /\ UNCHANGED <<m_queues, m_queues_done, cur, evt, completed>>
      /\ h = cur[w] /\ h # ExitTask /\ h \in AllTasks /\ w \in Held
  BY <1>h DEF RunTask, Inv, TypeInv, Hands, poolVars, Held
<1>2. /\ pc'[w] = "spinpush" /\ \A v \in Workers \ {w} : pc'[v] = pc[v]
      /\ \A v \in Workers \ {w} : pc[v] \in {"unlock", "run"} => cur[v] # h
  <2>1. pc'[w] = "spinpush" /\ \A v \in Workers \ {w} : pc'[v] = pc[v]
    BY <1>1
  <2>2. ASSUME NEW v \in Workers \ {w}, pc[v] \in {"unlock", "run"} PROVE cur[v] # h
    <3>1. v \in Held
      BY <2>2 DEF Inv, Hands, Held
    <3> QED
      BY <1>1, <3>1 DEF Places, OnePlace
  <2> QED
    BY <2>1, <2>2
<1>3. h \in Running
  BY <1>1 DEF Running
<1>4. Running' = Running \ {h}
  BY <1>1, <1>2 DEF Running
<1>5. Retired' = Retired
  BY <1>1, <1>2 DEF Retired
<1>6. Handled' = Handled \cup {h}
  <2>1. {cur[v] : v \in {u \in Workers : pc'[u] \in {"spinpush", "push"}}}
          = {cur[v] : v \in {u \in Workers : pc[u] \in {"spinpush", "push"}}} \cup {h}
    BY <1>1, <1>2
  <2>2. {u \in Workers : pc'[u] \in {"unpop", "event"}} = {u \in Workers : pc[u] \in {"unpop", "event"}}
    BY <1>1, <1>2
  <2> QED
    BY <1>1, <2>1, <2>2 DEF Handled
<1>7. Executor!Handle(h)
  BY <1>1, <1>3, <1>4, <1>5, <1>6 DEF Executor!Handle, Running, Handled, Retired
<1> QED
  BY <1>7

LEMMA ExitMaps == ASSUME Inv, Places, NEW w \in Workers, ExitHandler(w) PROVE Executor!Retire(ExitTask)
<1>1. /\ pc \in [Workers -> WorkerPC] /\ pc[w] = "run" /\ pc' = [pc EXCEPT ![w] = "exited"]
      /\ UNCHANGED <<m_queues, m_queues_done, cur, evt, completed>>
      /\ cur[w] = ExitTask /\ w \in Held
  BY DEF ExitHandler, Inv, TypeInv, Hands, poolVars, Held
<1>2. /\ pc'[w] = "exited" /\ \A v \in Workers \ {w} : pc'[v] = pc[v]
      /\ \A v \in Workers \ {w} : pc[v] \in {"unlock", "run"} => cur[v] # ExitTask
  <2>1. pc'[w] = "exited" /\ \A v \in Workers \ {w} : pc'[v] = pc[v]
    BY <1>1
  <2>2. ASSUME NEW v \in Workers \ {w}, pc[v] \in {"unlock", "run"} PROVE cur[v] # ExitTask
    <3>1. v \in Held
      BY <2>2 DEF Inv, Hands, Held
    <3> QED
      BY <1>1, <3>1 DEF Places, OnePlace
  <2> QED
    BY <2>1, <2>2
<1>3. ExitTask \in Running
  BY <1>1 DEF Running
<1>4. Running' = Running \ {ExitTask}
  BY <1>1, <1>2 DEF Running
<1>5. Retired' = Retired \cup {ExitTask}
  BY <1>1, <1>2 DEF Retired
<1>6. Handled' = Handled
  <2>1. {u \in Workers : pc'[u] \in {"spinpush", "push"}} = {u \in Workers : pc[u] \in {"spinpush", "push"}}
    BY <1>1, <1>2
  <2>2. {u \in Workers : pc'[u] \in {"unpop", "event"}} = {u \in Workers : pc[u] \in {"unpop", "event"}}
    BY <1>1, <1>2
  <2> QED
    BY <1>1, <2>1, <2>2 DEF Handled
<1> QED
  BY <1>1, <1>3, <1>4, <1>5, <1>6 DEF Executor!Retire, Running, Handled, Retired

(* A step of a worker that holds its task through the queue of handled ones. *)
LEMMA PushDoneMaps == ASSUME Inv, Places, NEW w \in Workers, PushDone(w) PROVE UNCHANGED Executor!vars
<1> DEFINE h == cur[w]
<1>1. /\ pc \in [Workers -> WorkerPC] /\ cur \in [Workers -> AllTasks \cup {NoTask}]
      /\ m_queues_done \in Seq(AllTasks)
      /\ pc[w] = "push" /\ pc' = [pc EXCEPT ![w] = "unpush"]
      /\ m_queues_done' = Append(m_queues_done, h) /\ cur' = [cur EXCEPT ![w] = NoTask]
      /\ UNCHANGED <<m_queues, evt, completed>> /\ h \in AllTasks
  BY DEF PushDone, Inv, TypeInv, Hands
<1> HIDE DEF h
<1>2. /\ pc'[w] = "unpush" /\ \A v \in Workers \ {w} : pc'[v] = pc[v] /\ cur'[v] = cur[v]
  BY <1>1
<1>3. Running' = Running /\ Retired' = Retired
  <2>1. {u \in Workers : pc'[u] \in {"unlock", "run"}} = {u \in Workers : pc[u] \in {"unlock", "run"}} \ {w}
    BY <1>1, <1>2
  <2>2. {u \in Workers : pc'[u] = "exited"} = {u \in Workers : pc[u] = "exited"} \ {w}
    BY <1>1, <1>2
  <2> QED
    BY <1>1, <1>2, <2>1, <2>2 DEF Running, Retired
<1>4. Elements(m_queues_done') = Elements(m_queues_done) \cup {h}
  BY <1>1, AppendElement
<1>5. {cur[v] : v \in {u \in Workers : pc[u] \in {"spinpush", "push"}}}
        = {cur'[v] : v \in {u \in Workers : pc'[u] \in {"spinpush", "push"}}} \cup {h}
  BY <1>1, <1>2 DEF h
<1>6. {u \in Workers : pc'[u] \in {"unpop", "event"}} = {u \in Workers : pc[u] \in {"unpop", "event"}}
  BY <1>1, <1>2
<1>7. Handled' = Handled
  BY <1>1, <1>4, <1>5, <1>6 DEF Handled, Elements
<1> QED
  BY <1>1, <1>3, <1>7 DEF Executor!vars, Running, Handled, Retired

LEMMA PopDoneMaps == ASSUME Inv, Places, NEW w \in Workers, PopDone(w) PROVE UNCHANGED Executor!vars
<1> DEFINE h == Head(m_queues_done)
<1>1. /\ pc \in [Workers -> WorkerPC] /\ evt \in [Workers -> AllTasks \cup {NoTask}]
      /\ m_queues_done \in Seq(AllTasks) /\ m_queues_done # <<>>
      /\ pc[w] = "pop" /\ pc' = [pc EXCEPT ![w] = "unpop"]
      /\ m_queues_done' = Tail(m_queues_done) /\ evt' = [evt EXCEPT ![w] = h]
      /\ UNCHANGED <<m_queues, cur, completed>>
  BY PopFindsTask DEF PopDone, Inv, TypeInv
<1>2. h \in Elements(m_queues_done) /\ Elements(m_queues_done') = Elements(m_queues_done) \ {h}
  BY <1>1, TakeElement DEF Places, OnePlace
<1> HIDE DEF h
<1>3. /\ pc'[w] = "unpop" /\ evt'[w] = h
      /\ \A v \in Workers \ {w} : pc'[v] = pc[v] /\ evt'[v] = evt[v]
  BY <1>1
<1>4. Running' = Running /\ Retired' = Retired
  BY <1>1, <1>3 DEF Running, Retired
<1>5. {evt'[v] : v \in {u \in Workers : pc'[u] \in {"unpop", "event"}}}
        = {evt[v] : v \in {u \in Workers : pc[u] \in {"unpop", "event"}}} \cup {h}
  BY <1>1, <1>3
<1>6. {u \in Workers : pc'[u] \in {"spinpush", "push"}} = {u \in Workers : pc[u] \in {"spinpush", "push"}}
  BY <1>1, <1>3
<1>7. Handled' = Handled
  BY <1>1, <1>2, <1>5, <1>6 DEF Handled, Elements
<1> QED
  BY <1>1, <1>4, <1>7 DEF Executor!vars, Running, Handled, Retired

LEMMA RaiseMaps == ASSUME Inv, Places, NEW w \in Workers, RaiseEvent(w) PROVE \E t \in AllTasks : Executor!Complete(t)
<1>h. PICK h \in AllTasks : h = evt[w]
  BY DEF RaiseEvent, Inv, TypeInv, Hands
<1>1. /\ pc \in [Workers -> WorkerPC] /\ evt \in [Workers -> AllTasks \cup {NoTask}]
      /\ pc[w] = "event" /\ pc' = [pc EXCEPT ![w] = "lock"]
      /\ evt' = [evt EXCEPT ![w] = NoTask] /\ completed' = completed \cup {h}
      /\ UNCHANGED <<m_queues, m_queues_done, cur>> /\ h = evt[w] /\ h \in AllTasks /\ w \in Raising
  BY <1>h DEF RaiseEvent, Inv, TypeInv, Hands, poolVars, Raising
<1>2. h \in InEvent
  BY <1>1 DEF InEvent
<1>3. /\ pc'[w] = "lock"
      /\ \A v \in Workers \ {w} : pc'[v] = pc[v] /\ evt'[v] = evt[v]
      /\ \A v \in Workers \ {w} : pc[v] \in {"unpop", "event"} => evt[v] # h
  <2>1. \A v \in Workers \ {w} : pc[v] \in {"unpop", "event"} => evt[v] # h
    <3>1. \A v \in Workers \ {w} : pc[v] \in {"unpop", "event"} => v \in Raising
      BY DEF Inv, Hands, Raising
    <3> QED
      BY <1>1, <3>1 DEF Places, OnePlace
  <2>2. pc'[w] = "lock" /\ \A v \in Workers \ {w} : pc'[v] = pc[v] /\ evt'[v] = evt[v]
    BY <1>1
  <2> QED
    BY <2>1, <2>2
<1>4. Running' = Running /\ Retired' = Retired
  BY <1>1, <1>3 DEF Running, Retired
<1>5. h \in Handled /\ h \notin Returned \cup Elements(m_queues_done)
  <2>1. h \in Handled
    BY <1>1 DEF Handled
  <2>2. h \notin InHand \cup Elements(m_queues_done)
    BY <1>2 DEF Places, OnePlace
  <2> QED
    BY <2>1, <2>2, Parts
<1>6. {u \in Workers : pc'[u] \in {"spinpush", "push"}} = {u \in Workers : pc[u] \in {"spinpush", "push"}}
  BY <1>1, <1>3
<1>7. {evt'[v] : v \in {u \in Workers : pc'[u] \in {"unpop", "event"}}}
        = {evt[v] : v \in {u \in Workers : pc[u] \in {"unpop", "event"}}} \ {h}
  BY <1>1, <1>3
<1>8. Handled' = Handled \ {h}
  BY <1>1, <1>5, <1>6, <1>7 DEF Handled, Returned, Elements
<1>9. Executor!Complete(h)
  BY <1>1, <1>4, <1>5, <1>8 DEF Executor!Complete, Running, Handled, Retired
<1> QED
  BY <1>9

LEMMA PushMaps == ASSUME Inv, Places, NEW c \in Posters, PostPush(c) PROVE \E t \in AllTasks : Executor!Submit(t)
<1> DEFINE h == arg[c]
<1>1. /\ cpc[c] = "check" /\ m_waiting <= MaxQueue /\ m_queues' = Append(m_queues, h)
      /\ UNCHANGED <<m_queues_done, pc, cur, evt, completed>>
      /\ m_queues \in Seq(AllTasks) /\ m_waiting \in Int
  BY DEF PostPush, PushWhen, workerVars, Inv, TypeInv
<1>2. h \in AllTasks /\ h \notin Executor!Known
  BY <1>1, PostedIsNew, Parts
<1>3. Len(m_queues) < MaxQueue + 1 + Cardinality(Workers)
  BY <1>1, CountedBound, PoolAssumption DEF Inv, WaitingCount
<1>4. Running' = Running /\ Retired' = Retired /\ Handled' = Handled
  BY <1>1 DEF Running, Retired, Handled
<1> HIDE DEF h
<1>5. Executor!Submit(h)
  BY <1>1, <1>2, <1>3, <1>4 DEF Executor!Submit, Running, Handled, Retired
<1> QED
  BY <1>2, <1>5

LEMMA StepMaps == Inv /\ Places /\ [Next]_vars => [Executor!Next]_(Executor!vars)
<1> SUFFICES ASSUME Inv, Places, [Next]_vars PROVE [Executor!Next]_(Executor!vars)
  OBVIOUS
<1> USE DEF lockVars, poolVars, workerVars, clientVars
<1>t. TypeInv
  BY DEF Inv
<1>q. ASSUME UNCHANGED <<m_queues, m_queues_done, pc, cur, evt, completed>>
      PROVE  UNCHANGED Executor!vars
  BY <1>q, Stutter
<1>1. CASE InitPool
  BY <1>1, <1>q DEF InitPool, Inv, Fresh
<1>2. CASE CreateFails
  BY <1>2, <1>q DEF CreateFails
<1>3. ASSUME NEW w \in Workers, CreateThread(w) PROVE UNCHANGED Executor!vars
  BY <1>t, <1>3, Stutter DEF CreateThread, TypeInv
<1>4. ASSUME NEW w \in Workers, WorkerStep(w) PROVE [Executor!Next]_(Executor!vars)
  <2>1. CASE LockQueue(w) \/ CountDown(w) \/ CondWait(w) \/ Relock(w) \/ UnlockQueue(w)
    BY <1>t, <2>1, Stutter DEF TypeInv, LockQueue, CountDown, CondWait, Relock, UnlockQueue
  <2>2. CASE TakeTask(w)
    BY <2>2, TakeMaps DEF Executor!Next
  <2>3. CASE RunTask(w)
    <3>1. \E t \in AllTasks : Executor!Handle(t)
      BY <2>3, RunMaps
    <3> QED
      BY <3>1 DEF Executor!Next
  <2>4. CASE ExitHandler(w)
    BY <2>4, ExitMaps DEF Executor!Next, AllTasks
  <2>5. CASE \/ SpinLock(w, "spinpush", "push") \/ SpinUnlock(w, "unpush", "spinpop")
             \/ SpinLock(w, "spinpop", "pop") \/ SpinUnlock(w, "unpop", "event")
    BY <1>t, <2>5, Stutter DEF TypeInv, SpinLock, SpinUnlock
  <2>6. CASE PushDone(w)
    BY <2>6, PushDoneMaps
  <2>7. CASE PopDone(w)
    BY <2>7, PopDoneMaps
  <2>8. CASE RaiseEvent(w)
    <3>1. \E t \in AllTasks : Executor!Complete(t)
      BY <2>8, RaiseMaps
    <3> QED
      BY <3>1 DEF Executor!Next
  <2> QED
    BY <1>4, <2>1, <2>2, <2>3, <2>4, <2>5, <2>6, <2>7, <2>8 DEF WorkerStep
<1>5. ASSUME NEW w \in Workers, SpuriousWakeup(w) PROVE UNCHANGED Executor!vars
  BY <1>t, <1>5, Stutter DEF SpuriousWakeup, TypeInv
<1>6. ASSUME NEW c \in Posters, PostStep(c) PROVE [Executor!Next]_(Executor!vars)
  <2>1. CASE PostLock(c) \/ PostOverflow(c) \/ PostUnlock(c)
    BY <2>1, <1>q DEF PostLock, PostOverflow, PostUnlock
  <2>2. CASE PostPush(c)
    BY <2>2, PushMaps DEF Executor!Next
  <2>3. CASE PostSignal(c)
    BY <1>t, <2>3, Stutter DEF TypeInv, PostSignal, Signal
  <2> QED
    BY <1>6, <2>1, <2>2, <2>3 DEF PostStep
<1>7. ASSUME NEW c \in Clients, NEW t \in Tasks, ClientPost(c, t) PROVE UNCHANGED Executor!vars
  BY <1>7, <1>q DEF ClientPost
<1>8. CASE CallDestroy
  BY <1>8, <1>q DEF CallDestroy
<1>9. CASE Yield
  BY <1>9, <1>q DEF Yield
<1>10. CASE UNCHANGED vars
  BY <1>10, <1>q DEF vars
<1> QED
  BY <1>1, <1>2, <1>3, <1>4, <1>5, <1>6, <1>7, <1>8, <1>9, <1>10 DEF Next

(* Between thread_pool_task_post and the event of threadpool.cpp:292 no    *)
(* task is lost, run or completed twice or started out of order, and an    *)
(* object that was accepted never comes back, whichever worker raises      *)
(* whose event.                                                            *)
THEOREM Refinement == Spec => ImplementsExecutor
<1>1. Init => Executor!Init
  <2> SUFFICES ASSUME Init PROVE Executor!Init
    OBVIOUS
  <2>1. /\ m_queues = <<>> /\ m_queues_done = <<>> /\ completed = {}
        /\ \A w \in Workers : pc[w] = "absent"
    BY DEF Init
  <2>2. Running = {} /\ Retired = {} /\ Handled = {}
    BY <2>1 DEF Running, Retired, Handled
  <2> QED
    BY <2>1, <2>2 DEF Executor!Init, Running, Retired, Handled
<1> QED
  BY <1>1, Invariance, InitPlaces, PlacesStep, StepMaps, PTL
     DEF Spec, ImplementsExecutor, Executor!Spec
=============================================================================
