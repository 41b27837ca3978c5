\* Two threads, two variables, two values, two callbacks.
CONSTANTS
    th1 = th1
    th2 = th2
    s1 = s1
    s2 = s2
    v1 = v1
    v2 = v2
    cb1 = cb1
    cb2 = cb2
    Threads <- TwoThreads
    Slots <- TwoSlots
    Values <- TwoValues
    Callbacks <- TwoCallbacks
    Programs <- AllKinds
    None = none
SYMMETRY Interchangeable
SPECIFICATION Spec
INVARIANTS
    TypeOK
    CountIsExact
    
    OneOwner
    LeaksAreCycles
