------------------------------ MODULE AsyncLog ------------------------------
(***************************************************************************)
(* The asynchronous logger of src/日志/CXX/asynclog.{h,cpp} driven as      *)
(* asynctest.cpp drives it: main starts the producer threads, then the     *)
(* log thread; a producer pushes its records with operator<<, the log      *)
(* thread runs log_run.                                                    *)
(*                                                                         *)
(* A record is its producer, its position in that producer's stream and    *)
(* its level; the text, the time stamp and the layout of a line are left   *)
(* out.  One action is what one thread does between two steps of another.  *)
(***************************************************************************)
EXTENDS Integers, Sequences

CONSTANTS Producers,   \* threads running thread_producer_callback
          LogThread,   \* the thread running log_run
          Script,      \* the levels of the records each producer logs, in order
          NoThread     \* nobody holds m_mtx

(* enum Level; the constructor sets the threshold. *)
ALevel == 0 .. 8
INFO == 7
DBUG == 8
m_level == INFO

ASSUME AsyncAssumption == /\ Script \in [Producers -> Seq(ALevel)]
                          /\ LogThread \notin Producers
                          /\ NoThread \notin Producers \cup {LogThread}

Record == UNION {{[from |-> p, n |-> k, level |-> Script[p][k]] : k \in DOMAIN Script[p]}
                   : p \in Producers}

VARIABLES
    started,    \* threads main has started
    open,       \* whether the ofstream opened
    m_mtx,      \* the owner of m_mtx
    m_queues,   \* records pushed and not popped
    pc,         \* where each producer is in operator<<
    sent,       \* how many records each producer has pushed
    wpc,        \* where the log thread is in log_run
    log_pair,   \* the record the log thread has popped: a sequence of 0 or 1
    m_ofs       \* the records in the file

avars == <<started, open, m_mtx, m_queues, pc, sent, wpc, log_pair, m_ofs>>

AInit ==
    /\ started = {}
    /\ open \in BOOLEAN
    /\ m_mtx = NoThread
    /\ m_queues = <<>>
    /\ pc = [p \in Producers |-> "work"]
    /\ sent = [p \in Producers |-> 0]
    /\ wpc = "entry"
    /\ log_pair = <<>>
    /\ m_ofs = <<>>

-----------------------------------------------------------------------------
(* main: the producers first, the log thread last.                         *)
StartThread(t) ==
    /\ t \notin started
    /\ t = LogThread => Producers \subseteq started
    /\ started' = started \cup {t}
    /\ UNCHANGED <<open, m_mtx, m_queues, pc, sent, wpc, log_pair, m_ofs>>

-----------------------------------------------------------------------------
(* operator<<: the guard unlocks on return, after notify_one.              *)
Lock(p) ==
    /\ p \in started
    /\ pc[p] = "work"
    /\ sent[p] < Len(Script[p])
    /\ m_mtx = NoThread
    /\ m_mtx' = p
    /\ pc' = [pc EXCEPT ![p] = "push"]
    /\ UNCHANGED <<started, open, m_queues, sent, wpc, log_pair, m_ofs>>

NextRecord(p) == [from |-> p, n |-> sent[p] + 1, level |-> Script[p][sent[p] + 1]]

Push(p) ==
    /\ pc[p] = "push"
    /\ m_queues' = Append(m_queues, NextRecord(p))
    /\ sent' = [sent EXCEPT ![p] = @ + 1]
    /\ pc' = [pc EXCEPT ![p] = "notify"]
    /\ UNCHANGED <<started, open, m_mtx, wpc, log_pair, m_ofs>>

Notify(p) ==
    /\ pc[p] = "notify"
    /\ wpc' = IF wpc = "sleep" THEN "relock" ELSE wpc
    /\ pc' = [pc EXCEPT ![p] = "unlock"]
    /\ UNCHANGED <<started, open, m_mtx, m_queues, sent, log_pair, m_ofs>>

Unlock(p) ==
    /\ pc[p] = "unlock"
    /\ m_mtx' = NoThread
    /\ pc' = [pc EXCEPT ![p] = "work"]
    /\ UNCHANGED <<started, open, m_queues, sent, wpc, log_pair, m_ofs>>

-----------------------------------------------------------------------------
(* log_run returns at once when the file is not open.                      *)
Enter ==
    /\ wpc = "entry"
    /\ LogThread \in started
    /\ wpc' = IF open THEN "lock" ELSE "returned"
    /\ UNCHANGED <<started, open, m_mtx, m_queues, pc, sent, log_pair, m_ofs>>

(* Locking: at the head of the loop, or inside wait_for after a wakeup or  *)
(* after the time is up.                                                   *)
Acquire(from, to) ==
    /\ wpc = from
    /\ m_mtx = NoThread
    /\ m_mtx' = LogThread
    /\ wpc' = to
    /\ UNCHANGED <<started, open, m_queues, pc, sent, log_pair, m_ofs>>

Wait ==
    /\ wpc = "test"
    /\ m_queues = <<>>
    /\ m_mtx' = NoThread
    /\ wpc' = "sleep"
    /\ UNCHANGED <<started, open, m_queues, pc, sent, log_pair, m_ofs>>

(* Mutant: the loop gives up when the time is up. *)
TimeoutReturns ==
    /\ wpc = "sleep"
    /\ wpc' = "returned"
    /\ UNCHANGED <<started, open, m_mtx, m_queues, pc, sent, log_pair, m_ofs>>

(* One second without a notification. *)
Timeout ==
    /\ wpc = "sleep"
    /\ wpc' = "relockLate"
    /\ UNCHANGED <<started, open, m_mtx, m_queues, pc, sent, log_pair, m_ofs>>

(* wait_for returns the predicate when the time is up; false: continue.    *)
GiveUp ==
    /\ wpc = "late"
    /\ m_queues = <<>>
    /\ m_mtx' = NoThread
    /\ wpc' = "lock"
    /\ UNCHANGED <<started, open, m_queues, pc, sent, log_pair, m_ofs>>

(* front() and pop(), under the lock, after the predicate. *)
Take ==
    /\ wpc \in {"test", "late"}
    /\ m_queues # <<>>
    /\ log_pair' = <<Head(m_queues)>>
    /\ m_queues' = Tail(m_queues)
    /\ wpc' = "unlock"
    /\ UNCHANGED <<started, open, m_mtx, pc, sent, m_ofs>>

Release ==
    /\ wpc = "unlock"
    /\ m_mtx' = NoThread
    /\ wpc' = "decorate"
    /\ UNCHANGED <<started, open, m_queues, pc, sent, log_pair, m_ofs>>

Passes(r) == r.level <= m_level

(* Mutant: the threshold level itself is dropped. *)
DecorateStrict ==
    /\ wpc = "decorate"
    /\ m_ofs' = IF Head(log_pair).level < m_level THEN m_ofs \o log_pair ELSE m_ofs
    /\ log_pair' = <<>>
    /\ wpc' = "lock"
    /\ UNCHANGED <<started, open, m_mtx, m_queues, pc, sent>>

(* log_decorate, outside the lock. *)
log_decorate ==
    /\ wpc = "decorate"
    /\ m_ofs' = IF Head(log_pair).level > m_level THEN m_ofs ELSE m_ofs \o log_pair
    /\ log_pair' = <<>>
    /\ wpc' = "lock"
    /\ UNCHANGED <<started, open, m_mtx, m_queues, pc, sent>>

-----------------------------------------------------------------------------
LogStep == \/ Enter
           \/ Acquire("lock", "test")
           \/ Acquire("relock", "test")
           \/ Acquire("relockLate", "late")
           \/ Wait \/ Timeout \/ GiveUp \/ Take \/ Release \/ log_decorate

ProducerStep(p) == Lock(p) \/ Push(p) \/ Notify(p) \/ Unlock(p)

ANext ==
    \/ \E t \in Producers \cup {LogThread} : StartThread(t)
    \/ \E p \in Producers : ProducerStep(p)
    \/ LogStep

ASpec == AInit /\ [][ANext]_avars

(* Threads are scheduled.  Producers log a finite stream, so weak fairness *)
(* is enough to give the log thread the mutex in the end, although the     *)
(* mutex is not a fair one.                                                *)
Fairness == /\ \A t \in Producers \cup {LogThread} : WF_avars(StartThread(t))
            /\ \A p \in Producers : WF_avars(ProducerStep(p))
            /\ WF_avars(LogStep)

FairSpec == ASpec /\ Fairness

-----------------------------------------------------------------------------
(* The types of the variables. *)
TypeOK ==
    /\ started \subseteq Producers \cup {LogThread}
    /\ open \in BOOLEAN
    /\ m_mtx \in Producers \cup {LogThread, NoThread}
    /\ m_queues \in Seq(Record)
    /\ pc \in [Producers -> {"work", "push", "notify", "unlock"}]
    /\ sent \in [Producers -> Nat]
    /\ \A p \in Producers : sent[p] <= Len(Script[p])
    /\ wpc \in {"entry", "returned", "lock", "test", "sleep", "relock", "relockLate",
                "late", "unlock", "decorate"}
    /\ log_pair \in Seq(Record) /\ Len(log_pair) <= 1
    /\ m_ofs \in Seq(Record)

(* The queue, the record in the log thread's hand and the file are one     *)
(* channel: nothing is lost, doubled, reordered or let through above the   *)
(* threshold between operator<< and the file.                              *)
Channel == INSTANCE LogChannel WITH
    Enabled <- Passes,
    pending <- log_pair \o m_queues,
    written <- m_ofs

ImplementsChannel == Channel!Spec

(* Every record a producer has pushed that passes the threshold gets to    *)
(* the file when the file is open, also when its notification came before  *)
(* the log thread was waiting or before it was started at all.             *)
Logged(p, k) == \E i \in 1 .. Len(m_ofs) : m_ofs[i].from = p /\ m_ofs[i].n = k
EverythingLogged ==
    \A p \in Producers : \A k \in 1 .. Len(Script[p]) :
        (open /\ sent[p] >= k /\ Script[p][k] <= m_level) ~> Logged(p, k)
=============================================================================
