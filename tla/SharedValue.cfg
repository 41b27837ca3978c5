\* A promise set once and shared by three threads, and one set twice by two
\* threads.  Fairness, so no symmetry.
CONSTANTS
    p1 = p1
    p2 = p2
    f1 = f1
    f2 = f2
    cb1 = cb1
    cb2 = cb2
    v1 = v1
    v2 = v2
    Threads <- FourThreads
    Programs <- OnceAndTwice
    Callbacks <- TwoCallbacks
    Values <- TwoValues
    Default = default
    Torn = torn
    Nobody = nobody
SPECIFICATION FairSpec
INVARIANTS
    TypeOK
    NobodyStranded
    CallbacksDoNotBlock
    QueuedInOrder
    ReadsAreOrdered
    ExecutedOnce
PROPERTIES
    ImplementsContract
    GetReturns
    CallbacksAreExecuted
