---------------------------- MODULE MCThreadPool ----------------------------
(* Model values for ThreadPool: one client with two task objects and one   *)
(* with one, so that posts overlap each other, the workers and a destroy.  *)
EXTENDS ThreadPool, TLC

CONSTANTS c1, c2, t1, t2, t3

MCClients == {c1, c2}
MCTasks == {t1, t2, t3}
MCOwner == (t1 :> c1) @@ (t2 :> c1) @@ (t3 :> c2)
=============================================================================
