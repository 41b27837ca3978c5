\* Three workers, three tasks, of which the first shuts the pool down itself, and
\* two clients that may do so.
CONSTANTS
    t1 = t1
    t2 = t2
    t3 = t3
    c1 = c1
    c2 = c2
    Tasks <- ThreeTasks
    Clients <- TwoClients
    Owner = owner
    NULL = NULL
    MaxThreads = 3
    ShutdownTasks <- FirstTask
SYMMETRY Interchangeable
SPECIFICATION Spec
INVARIANTS
    TypeOK
    QueueIsFIFO
    NoLostWakeup
    ShutdownDrains
    RepOutlivesItsThreads
PROPERTY
    ImplementsContract
