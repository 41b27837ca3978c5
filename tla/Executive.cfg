\* Both executions: two callers, a pool of two workers, four tasks, two of which
\* wait for another one.  Fairness, so no symmetry.
CONSTANTS
    a1 = a1
    a2 = a2
    t1 = t1
    t2 = t2
    t3 = t3
    t4 = t4
    w1 = w1
    w2 = w2
    None = none
    Callers <- TwoCallers
    Tasks <- FourTasks
    Script <- Crossed
    Workers <- TwoWorkers
SPECIFICATION FairSpec
INVARIANTS
    DeletedByItsOwner
    NothingOutlivesExecution
PROPERTIES
    ImplementsContract
    FuturesAreAnswered
    CallersFinish
    DeletionReturns
