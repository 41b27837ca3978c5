\* Two clients call Shutdown() on the same pool.
CONSTANTS
    t1 = t1
    t2 = t2
    t3 = t3
    c1 = c1
    c2 = c2
    Tasks <- TwoTasks
    Clients <- TwoClients
    Owner = owner
    NULL = NULL
    MaxThreads = 2
    ShutdownTasks <- NoTasks
SPECIFICATION Spec
INVARIANT
    ReturnMeansDrained
