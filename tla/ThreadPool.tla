----------------------------- MODULE ThreadPool -----------------------------
(***************************************************************************)
(* The thread pool of src/线程池/threadpool.{h,cpp}: worker threads that   *)
(* run thread_pool_cycle, client threads that call thread_pool_task_post,  *)
(* one thread that may call thread_pool_destroy, and the thread that runs  *)
(* thread_pool_init.  One action is one step of one thread between two     *)
(* places where another thread can get in: a lock, an unlock, a wait, or a *)
(* piece of work done inside or outside the two locks.                     *)
(*                                                                         *)
(* A ThreadTask is a model value.  `active' is the flag event.active of    *)
(* the CALLER's object: task_post sets it and then moves the object into   *)
(* the queue, and the worker clears the flag of its own copy only.         *)
(* `completed' is a history variable: no code reads it.                    *)
(***************************************************************************)
EXTENDS Integers, Sequences, FiniteSets

CONSTANTS Workers,      \* the m_threads threads running thread_pool_cycle
          Clients,      \* the threads that call thread_pool_task_post
          Destroyer,    \* the thread that may call thread_pool_destroy
          Tasks,        \* the ThreadTask objects of the clients
          ExitTask,     \* the local ThreadTask of thread_pool_destroy
          Owner,        \* the client that holds a task object
          MaxQueue,     \* m_maxqueue
          MaxSpurious,  \* bound: how often pthread_cond_wait returns unsignalled
          NoThread,     \* nobody holds the lock
          NoTask        \* the worker holds no task

Posters == Clients \cup {Destroyer}
AllTasks == Tasks \cup {ExitTask}

ASSUME PoolAssumption ==
    /\ IsFiniteSet(Workers)
    /\ Workers \cap Posters = {}
    /\ Destroyer \notin Clients
    /\ NoThread \notin Workers \cup Posters
    /\ ExitTask \notin Tasks
    /\ NoTask \notin AllTasks
    /\ Owner \in [Tasks -> Clients]
    /\ MaxQueue \in Nat
    /\ MaxSpurious \in Nat

VARIABLES
    boot,           \* how far thread_pool_init has got
    pc,             \* where each worker is in thread_pool_cycle
    cpc,            \* where each client is in task_post or destroy
    arg,            \* the task each client is posting
    m_mtx,          \* the owner of m_mtx
    m_spinlock,     \* the owner of m_spinlock
    m_queues,       \* tasks posted and not taken
    m_queues_done,  \* tasks handled whose event has not been raised
    m_waiting,      \* the counter the overflow test reads; may be negative
    cur,            \* `task' in thread_pool_cycle
    evt,            \* `task' in thread_pool_event_handler
    active,         \* event.active of each caller's object
    discarded,      \* objects refused for overflow, gone out of their scope
    lock,           \* `lock' in thread_pool_destroy
    spurious,       \* spurious wakeups so far
    completed       \* history: tasks whose event handler was called

poolVars == <<m_queues, m_queues_done, m_waiting>>
lockVars == <<m_mtx, m_spinlock>>
workerVars == <<pc, cur, evt>>
clientVars == <<cpc, arg, active, discarded, lock>>
vars == <<boot, lockVars, poolVars, workerVars, clientVars, spurious, completed>>

(***************************************************************************)
(* Where a worker can be, named after what it does next.                   *)
(***************************************************************************)
InMutex == {"count", "test", "unlock"}           \* owns m_mtx
InSpin == {"push", "unpush", "pop", "unpop"}     \* owns m_spinlock
WorkerPC == InMutex \cup InSpin \cup
    {"absent", "lock", "sleep", "relock", "run", "spinpush", "spinpop", "event", "exited"}
ClientInMutex == {"check", "signal", "unlock"}
ClientPC == ClientInMutex \cup {"idle", "lock", "spin", "joined"}

(* Workers that have done m_waiting-- and have not popped a task yet. *)
Counted == {w \in Workers : pc[w] \in {"test", "sleep", "relock"}}
(* Workers that have pushed on m_queues_done and not popped from it yet. *)
Owing == {w \in Workers : pc[w] \in {"unpush", "spinpop", "pop"}}

Init ==
    /\ boot = "raw"
    /\ pc = [w \in Workers |-> "absent"]
    /\ cpc = [c \in Posters |-> "idle"]
    /\ arg = [c \in Posters |-> NoTask]
    /\ m_mtx = NoThread /\ m_spinlock = NoThread
    /\ m_queues = <<>> /\ m_queues_done = <<>>
    /\ m_waiting = 0
    /\ cur = [w \in Workers |-> NoTask]
    /\ evt = [w \in Workers |-> NoTask]
    /\ active = [t \in AllTasks |-> FALSE]
    /\ discarded = {}
    /\ lock = 0
    /\ spurious = 0
    /\ completed = {}

-----------------------------------------------------------------------------
(***************************************************************************)
(* thread_pool_init: the queues are emptied and the locks initialised,     *)
(* then the threads are created one by one and run at once.  When a        *)
(* pthread_create fails the call returns TP_ERROR and leaves the threads   *)
(* already created running.                                                *)
(***************************************************************************)
InitPool ==
    /\ boot = "raw"
    /\ boot' = "creating"
    /\ m_queues' = <<>> /\ m_queues_done' = <<>>
    /\ UNCHANGED <<lockVars, m_waiting, workerVars, clientVars, spurious, completed>>

CreateThread(w) ==
    /\ boot = "creating"
    /\ pc[w] = "absent"
    /\ pc' = [pc EXCEPT ![w] = "lock"]
    /\ boot' = IF \A v \in Workers \ {w} : pc[v] # "absent" THEN "ok" ELSE "creating"
    /\ UNCHANGED <<lockVars, poolVars, cur, evt, clientVars, spurious, completed>>

CreateFails ==
    /\ boot = "creating"
    /\ boot' = "error"
    /\ UNCHANGED <<lockVars, poolVars, workerVars, clientVars, spurious, completed>>

(* The driver ignores what thread_pool_init returns and posts in both cases. *)
Initialised == boot \in {"ok", "error"}

-----------------------------------------------------------------------------
(***************************************************************************)
(* thread_pool_cycle                                                       *)
(***************************************************************************)
LockQueue(w) ==
    /\ pc[w] = "lock"
    /\ m_mtx = NoThread
    /\ m_mtx' = w
    /\ pc' = [pc EXCEPT ![w] = "count"]
    /\ UNCHANGED <<boot, m_spinlock, poolVars, cur, evt, clientVars, spurious, completed>>

CountDown(w) ==
    /\ pc[w] = "count"
    /\ m_waiting' = m_waiting - 1
    /\ pc' = [pc EXCEPT ![w] = "test"]
    /\ UNCHANGED <<boot, lockVars, m_queues, m_queues_done, cur, evt, clientVars,
                   spurious, completed>>

(* pthread_cond_wait releases the mutex and sleeps in one step. *)
CondWait(w) ==
    /\ pc[w] = "test"
    /\ m_queues = <<>>
    /\ m_mtx' = NoThread
    /\ pc' = [pc EXCEPT ![w] = "sleep"]
    /\ UNCHANGED <<boot, m_spinlock, poolVars, cur, evt, clientVars, spurious, completed>>

SpuriousWakeup(w) ==
    /\ pc[w] = "sleep"
    /\ spurious < MaxSpurious
    /\ spurious' = spurious + 1
    /\ pc' = [pc EXCEPT ![w] = "relock"]
    /\ UNCHANGED <<boot, lockVars, poolVars, cur, evt, clientVars, completed>>

(* Mutant: the wait jumps back above m_waiting--. *)
RelockCountsAgain(w) ==
    /\ pc[w] = "relock" /\ m_mtx = NoThread
    /\ m_mtx' = w
    /\ pc' = [pc EXCEPT ![w] = "count"]
    /\ UNCHANGED <<boot, m_spinlock, poolVars, cur, evt, clientVars, spurious, completed>>

Relock(w) ==
    /\ pc[w] = "relock"
    /\ m_mtx = NoThread
    /\ m_mtx' = w
    /\ pc' = [pc EXCEPT ![w] = "test"]
    /\ UNCHANGED <<boot, m_spinlock, poolVars, cur, evt, clientVars, spurious, completed>>

TakeTask(w) ==
    /\ pc[w] = "test"
    /\ m_queues # <<>>
    /\ cur' = [cur EXCEPT ![w] = Head(m_queues)]
    /\ m_queues' = Tail(m_queues)
    /\ pc' = [pc EXCEPT ![w] = "unlock"]
    /\ UNCHANGED <<boot, lockVars, m_queues_done, m_waiting, evt, clientVars,
                   spurious, completed>>

UnlockQueue(w) ==
    /\ pc[w] = "unlock"
    /\ m_mtx' = NoThread
    /\ pc' = [pc EXCEPT ![w] = "run"]
    /\ UNCHANGED <<boot, m_spinlock, poolVars, cur, evt, clientVars, spurious, completed>>

(* task.handler(&task) of an ordinary task. *)
RunTask(w) ==
    /\ pc[w] = "run"
    /\ cur[w] # ExitTask
    /\ pc' = [pc EXCEPT ![w] = "spinpush"]
    /\ UNCHANGED <<boot, lockVars, poolVars, cur, evt, clientVars, spurious, completed>>

(* thread_pool_exit_handler gets the ThreadTask, not its ctx: its *lock = 0  *)
(* clears the id of the worker's own copy, which dies with the thread in     *)
(* pthread_exit.  destroy's `lock' keeps its value.                          *)
ExitHandler(w) ==
    /\ pc[w] = "run"
    /\ cur[w] = ExitTask
    /\ pc' = [pc EXCEPT ![w] = "exited"]
    /\ UNCHANGED <<boot, lockVars, poolVars, cur, evt, clientVars, spurious, completed>>

SpinLock(w, from, to) ==
    /\ pc[w] = from
    /\ m_spinlock = NoThread
    /\ m_spinlock' = w
    /\ pc' = [pc EXCEPT ![w] = to]
    /\ UNCHANGED <<boot, m_mtx, poolVars, cur, evt, clientVars, spurious, completed>>

SpinUnlock(w, from, to) ==
    /\ pc[w] = from
    /\ m_spinlock' = NoThread
    /\ pc' = [pc EXCEPT ![w] = to]
    /\ UNCHANGED <<boot, m_mtx, poolVars, cur, evt, clientVars, spurious, completed>>

PushDone(w) ==
    /\ pc[w] = "push"
    /\ m_queues_done' = Append(m_queues_done, cur[w])
    /\ cur' = [cur EXCEPT ![w] = NoTask]
    /\ pc' = [pc EXCEPT ![w] = "unpush"]
    /\ UNCHANGED <<boot, lockVars, m_queues, m_waiting, evt, clientVars, spurious, completed>>

-----------------------------------------------------------------------------
(* Mutant: the handler reads the front and forgets to pop it. *)
PopDoneKeepsFront(w) ==
    /\ pc[w] = "pop"
    /\ evt' = [evt EXCEPT ![w] = Head(m_queues_done)]
    /\ pc' = [pc EXCEPT ![w] = "unpop"]
    /\ UNCHANGED <<boot, lockVars, poolVars, cur, clientVars, spurious, completed>>

(***************************************************************************)
(* thread_pool_event_handler: the front of m_queues_done, with no test for *)
(* emptiness; it need not be the task this worker has just handled.        *)
(***************************************************************************)
PopDone(w) ==
    /\ pc[w] = "pop"
    /\ evt' = [evt EXCEPT ![w] = Head(m_queues_done)]
    /\ m_queues_done' = Tail(m_queues_done)
    /\ pc' = [pc EXCEPT ![w] = "unpop"]
    /\ UNCHANGED <<boot, lockVars, m_queues, m_waiting, cur, clientVars, spurious, completed>>

RaiseEvent(w) ==
    /\ pc[w] = "event"
    /\ completed' = completed \cup {evt[w]}
    /\ evt' = [evt EXCEPT ![w] = NoTask]
    /\ pc' = [pc EXCEPT ![w] = "lock"]
    /\ UNCHANGED <<boot, lockVars, poolVars, cur, clientVars, spurious>>

-----------------------------------------------------------------------------
(* Mutant: task_post accepts an object that is already active. *)
CallPostActive(c, t) ==
    /\ cpc[c] = "idle" /\ Initialised /\ t \notin discarded
    /\ cpc' = [cpc EXCEPT ![c] = "lock"]
    /\ arg' = [arg EXCEPT ![c] = t]
    /\ UNCHANGED <<active, discarded>>

(***************************************************************************)
(* thread_pool_task_post                                                   *)
(***************************************************************************)
(* The flag is tested before the mutex is taken.  A call on an object that *)
(* is already active returns TP_ERROR and changes nothing.                 *)
CallPost(c, t) ==
    /\ cpc[c] = "idle"
    /\ Initialised
    /\ ~active[t]
    /\ t \notin discarded
    /\ cpc' = [cpc EXCEPT ![c] = "lock"]
    /\ arg' = [arg EXCEPT ![c] = t]
    /\ UNCHANGED <<active, discarded>>

ClientPost(c, t) ==
    /\ Owner[t] = c
    /\ CallPost(c, t)
    /\ UNCHANGED <<boot, lockVars, poolVars, workerVars, lock, spurious, completed>>

PostLock(c) ==
    /\ cpc[c] = "lock"
    /\ m_mtx = NoThread
    /\ m_mtx' = c
    /\ cpc' = [cpc EXCEPT ![c] = "check"]
    /\ UNCHANGED <<boot, m_spinlock, poolVars, workerVars, arg, active, discarded, lock,
                   spurious, completed>>

(* The caller of a refused post lets the object go out of scope; a refused *)
(* exit task makes thread_pool_destroy return TP_ERROR.                    *)
PostOverflow(c) ==
    /\ cpc[c] = "check"
    /\ m_waiting > MaxQueue
    /\ m_mtx' = NoThread
    /\ cpc' = [cpc EXCEPT ![c] = "idle"]
    /\ discarded' = discarded \cup {arg[c]}
    /\ arg' = [arg EXCEPT ![c] = NoTask]
    /\ UNCHANGED <<boot, m_spinlock, poolVars, workerVars, active, lock, spurious, completed>>

PushWhen(c, room, count) ==
    /\ cpc[c] = "check"
    /\ room
    /\ active' = [active EXCEPT ![arg[c]] = TRUE]
    /\ m_queues' = Append(m_queues, arg[c])
    /\ m_waiting' = m_waiting + count
    /\ cpc' = [cpc EXCEPT ![c] = "signal"]
    /\ UNCHANGED <<boot, lockVars, m_queues_done, workerVars, arg, discarded, lock,
                   spurious, completed>>

(* Mutants: room for one task too many; a push that is not counted. *)
PushOneTooMany(c) == PushWhen(c, m_waiting <= MaxQueue + 1, 1)
PushUncounted(c) == PushWhen(c, m_waiting <= MaxQueue, 0)

PostPush(c) == PushWhen(c, m_waiting <= MaxQueue, 1)

(* pthread_cond_signal wakes one of the sleepers when there is one. *)
Signal ==
    \/ \E w \in Workers : /\ pc[w] = "sleep"
                           /\ pc' = [pc EXCEPT ![w] = "relock"]
    \/ /\ \A w \in Workers : pc[w] # "sleep"
       /\ pc' = pc

(* Mutant: signal only the task that makes the queue non-empty. *)
PostSignalFirst(c) ==
    /\ cpc[c] = "signal"
    /\ cpc' = [cpc EXCEPT ![c] = "unlock"]
    /\ IF Len(m_queues) = 1 THEN Signal ELSE pc' = pc
    /\ UNCHANGED <<boot, lockVars, poolVars, cur, evt, arg, active, discarded, lock,
                   spurious, completed>>

PostSignal(c) ==
    /\ cpc[c] = "signal"
    /\ cpc' = [cpc EXCEPT ![c] = "unlock"]
    /\ Signal
    /\ UNCHANGED <<boot, lockVars, poolVars, cur, evt, arg, active, discarded, lock,
                   spurious, completed>>

PostUnlock(c) ==
    /\ cpc[c] = "unlock"
    /\ m_mtx' = NoThread
    /\ cpc' = [cpc EXCEPT ![c] = IF arg[c] = ExitTask THEN "spin" ELSE "idle"]
    /\ arg' = [arg EXCEPT ![c] = NoTask]
    /\ UNCHANGED <<boot, m_spinlock, poolVars, workerVars, active, discarded, lock,
                   spurious, completed>>

-----------------------------------------------------------------------------
(***************************************************************************)
(* thread_pool_destroy: post one exit task and spin until its handler has  *)
(* cleared `lock', once per thread.                                        *)
(***************************************************************************)
CallDestroy ==
    /\ CallPost(Destroyer, ExitTask)
    /\ lock' = 1
    /\ UNCHANGED <<boot, lockVars, poolVars, workerVars, spurious, completed>>

(* while (lock) sched_yield().  "joined" is the rest of the function, which *)
(* no behaviour of this code reaches.                                       *)
Yield ==
    /\ cpc[Destroyer] = "spin"
    /\ cpc' = [cpc EXCEPT ![Destroyer] = IF lock = 0 THEN "joined" ELSE "spin"]
    /\ UNCHANGED <<boot, lockVars, poolVars, workerVars, arg, active, discarded, lock,
                   spurious, completed>>

-----------------------------------------------------------------------------
WorkerStep(w) ==
    \/ LockQueue(w) \/ CountDown(w) \/ CondWait(w) \/ Relock(w)
    \/ TakeTask(w) \/ UnlockQueue(w) \/ RunTask(w) \/ ExitHandler(w)
    \/ SpinLock(w, "spinpush", "push") \/ PushDone(w) \/ SpinUnlock(w, "unpush", "spinpop")
    \/ SpinLock(w, "spinpop", "pop") \/ PopDone(w) \/ SpinUnlock(w, "unpop", "event")
    \/ RaiseEvent(w)

PostStep(c) ==
    PostLock(c) \/ PostOverflow(c) \/ PostPush(c) \/ PostSignal(c) \/ PostUnlock(c)

Next ==
    \/ InitPool
    \/ CreateFails
    \/ \E w \in Workers : CreateThread(w) \/ WorkerStep(w) \/ SpuriousWakeup(w)
    \/ \E c \in Posters : PostStep(c)
    \/ \E c \in Clients, t \in Tasks : ClientPost(c, t)
    \/ CallDestroy
    \/ Yield

Spec == Init /\ [][Next]_vars

(* A running thread is scheduled again and again, and so is a thread in a  *)
(* call of the pool.  Nothing makes a client call it, and nothing makes    *)
(* pthread_cond_wait return unsignalled.                                   *)
Fairness ==
    /\ \A w \in Workers : WF_vars(WorkerStep(w))
    /\ \A c \in Posters : WF_vars(PostStep(c))
    /\ WF_vars(Yield)

FairSpec == Spec /\ Fairness

-----------------------------------------------------------------------------
(***************************************************************************)
(* Properties                                                              *)
(***************************************************************************)
(* The types of the variables; m_waiting stays between minus the number of *)
(* threads and m_maxqueue + 1, far from the ends of a 32-bit int.          *)
TypeOK ==
    /\ boot \in {"raw", "creating", "ok", "error"}
    /\ pc \in [Workers -> WorkerPC]
    /\ cpc \in [Posters -> ClientPC]
    /\ arg \in [Posters -> AllTasks \cup {NoTask}]
    /\ m_mtx \in Workers \cup Posters \cup {NoThread}
    /\ m_spinlock \in Workers \cup {NoThread}
    /\ m_queues \in Seq(AllTasks)
    /\ m_queues_done \in Seq(AllTasks)
    /\ m_waiting \in -Cardinality(Workers) .. MaxQueue + 1
    /\ cur \in [Workers -> AllTasks \cup {NoTask}]
    /\ evt \in [Workers -> AllTasks \cup {NoTask}]
    /\ active \in [AllTasks -> BOOLEAN]
    /\ discarded \subseteq AllTasks
    /\ lock \in {0, 1}
    /\ spurious \in 0 .. MaxSpurious
    /\ completed \subseteq AllTasks

(* m_waiting, which one loop decrements before it waits and task_post      *)
(* increments, is always the length of m_queues less the workers that have *)
(* announced themselves and not taken a task: threadpool.cpp:225 only says *)
(* that it "may become negative".                                          *)
WaitingCount == m_waiting = Len(m_queues) - Cardinality(Counted)

(* So the test against m_maxqueue does bound the queue, by one more than   *)
(* m_maxqueue and one more for each idle worker.                           *)
QueueBound == Len(m_queues) <= MaxQueue + 1 + Cardinality(Workers)

(* m_queues_done holds one task for each worker between its push and its   *)
(* pop, so front() and pop(), called with no test, never meet an empty     *)
(* queue, whichever worker's task they take.                               *)
DoneOwed == Len(m_queues_done) = Cardinality(Owing)

(* Awake workers that will look at m_queues again: a worker that carries   *)
(* an exit task will not.                                                  *)
Lookers == {w \in Workers : /\ pc[w] \notin {"absent", "sleep", "exited"}
                            /\ cur[w] # ExitTask}
Unsignalled == IF \E c \in Posters : cpc[c] = "signal" THEN 1 ELSE 0

(* No wakeup is lost: while any worker sleeps, every queued task whose     *)
(* post has signalled has an awake worker that will come for it.           *)
WakeupsCoverBacklog ==
    (\E w \in Workers : pc[w] = "sleep")
        => Cardinality(Lookers) >= Len(m_queues) - Unsignalled

(* The pool is the abstract executor: in-order starts, at most once, and   *)
(* one event per handled task, raised by whichever worker pops it.         *)
Executor == INSTANCE TaskExecutor WITH
    Task <- AllTasks,
    StopTask <- {ExitTask},
    Threads <- Cardinality(Workers),
    Capacity <- MaxQueue + 1 + Cardinality(Workers),
    backlog <- m_queues,
    running <- {cur[w] : w \in {v \in Workers : pc[v] \in {"unlock", "run"}}},
    handled <- {cur[w] : w \in {v \in Workers : pc[v] \in {"spinpush", "push"}}}
                 \cup {m_queues_done[i] : i \in DOMAIN m_queues_done}
                 \cup {evt[w] : w \in {v \in Workers : pc[v] \in {"unpop", "event"}}},
    completed <- completed,
    retired <- {cur[w] : w \in {v \in Workers : pc[v] = "exited"}}

ImplementsExecutor == Executor!Spec

(* A task the pool accepted is handled and its event raised, unless no     *)
(* worker is left.                                                         *)
NoWorkerLeft == \A w \in Workers : pc[w] \in {"absent", "exited"}
AcceptedCompletes ==
    \A t \in Tasks : active[t] ~> (t \in completed \/ NoWorkerLeft)

(* Once every thread was created, thread_pool_destroy comes back: each of  *)
(* its rounds waits for an exit task to hand `lock' back (threadpool.cpp   *)
(* 363 binds it as the task's ctx for that).                               *)
DestroyReturns ==
    (boot = "ok" /\ cpc[Destroyer] = "spin") ~> (cpc[Destroyer] # "spin")
=============================================================================
