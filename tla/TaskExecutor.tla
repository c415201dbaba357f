---------------------------- MODULE TaskExecutor ----------------------------
(***************************************************************************)
(* What the thread pool of src/线程池 promises to the code that posts to   *)
(* it, with no thread, lock or condition variable in sight: an accepted    *)
(* task waits in one FIFO backlog of bounded length, is started at most    *)
(* once by one of a bounded number of threads, and its completion event    *)
(* is raised at most once, after its handler has returned.  A stop task    *)
(* (thread_pool_exit_handler) takes its thread away and has no event.      *)
(***************************************************************************)
EXTENDS Naturals, Sequences, FiniteSets

CONSTANTS Task,       \* the tasks that can be posted, stop tasks included
          StopTask,   \* the subset of Task that stops the thread running it
          Threads,    \* how many threads the pool may have
          Capacity    \* the most tasks the backlog ever holds

VARIABLES backlog,    \* accepted tasks no thread has taken, in posting order
          running,    \* tasks a thread has taken and whose handler has not returned
          handled,    \* tasks whose handler returned and whose event is to be raised
          completed,  \* tasks whose event has been raised
          retired     \* stop tasks that have taken their thread away

vars == <<backlog, running, handled, completed, retired>>

Known == {backlog[i] : i \in DOMAIN backlog}
            \cup running \cup handled \cup completed \cup retired

Init == /\ backlog = <<>>
        /\ running = {}
        /\ handled = {}
        /\ completed = {}
        /\ retired = {}

(* An object that was accepted is never accepted again. *)
Submit(t) == /\ t \notin Known
             /\ Len(backlog) < Capacity
             /\ backlog' = Append(backlog, t)
             /\ UNCHANGED <<running, handled, completed, retired>>

(* A thread starts the oldest task, so at most Threads tasks run at a time. *)
Start == /\ backlog # <<>>
         /\ Cardinality(running) + Cardinality(retired) < Threads
         /\ backlog' = Tail(backlog)
         /\ running' = running \cup {Head(backlog)}
         /\ UNCHANGED <<handled, completed, retired>>

Handle(t) == /\ t \in running \ StopTask
             /\ running' = running \ {t}
             /\ handled' = handled \cup {t}
             /\ UNCHANGED <<backlog, completed, retired>>

Complete(t) == /\ t \in handled
               /\ handled' = handled \ {t}
               /\ completed' = completed \cup {t}
               /\ UNCHANGED <<backlog, running, retired>>

Retire(t) == /\ t \in running \cap StopTask
             /\ running' = running \ {t}
             /\ retired' = retired \cup {t}
             /\ UNCHANGED <<backlog, handled, completed>>

Next == \/ Start
        \/ \E t \in Task : Submit(t) \/ Handle(t) \/ Complete(t) \/ Retire(t)

Spec == Init /\ [][Next]_vars
=============================================================================
