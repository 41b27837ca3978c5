\* One task calls Shutdown() from its Run().
CONSTANTS
    t1 = t1
    t2 = t2
    t3 = t3
    c1 = c1
    c2 = c2
    Tasks <- TwoTasks
    Clients <- OneClient
    Owner = owner
    NULL = NULL
    MaxThreads = 2
    ShutdownTasks <- FirstTask
SPECIFICATION Spec
INVARIANT
    QueueEmptyAfterJoin
