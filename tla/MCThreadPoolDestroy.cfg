CONSTANTS
    c1 = c1
    c2 = c2
    t1 = t1
    t2 = t2
    t3 = t3
    Workers = {w1, w2}
    Clients <- MCClients
    Tasks <- MCTasks
    Owner <- MCOwner
    Destroyer = d
    ExitTask = x
    MaxQueue = 0
    MaxSpurious = 1
    NoThread = NoThread
    NoTask = NoTask
SPECIFICATION FairSpec

PROPERTY DestroyReturns
\* The pool rests when no task is queued and no client calls.
CHECK_DEADLOCK FALSE
