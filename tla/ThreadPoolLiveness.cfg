\* Two workers, three tasks, two clients; fairness, so no symmetry.
CONSTANTS
    t1 = t1
    t2 = t2
    t3 = t3
    c1 = c1
    c2 = c2
    Tasks <- ThreeTasks
    Clients <- TwoClients
    Owner = owner
    NULL = NULL
    MaxThreads = 2
    ShutdownTasks <- NoTasks
SPECIFICATION FairSpec
PROPERTIES
    AcceptedTasksComplete
    ShutdownTerminates
    DeletionTerminates
