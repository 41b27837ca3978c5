\* Two threads, three pointers, two objects.  Fairness, so no symmetry.
CONSTANTS
    th1 = th1
    th2 = th2
    s1 = s1
    s2 = s2
    s3 = s3
    o1 = o1
    o2 = o2
    Threads <- TwoThreads
    Slots <- ThreeSlots
    Objects <- TwoObjects
    None = none
SPECIFICATION FairSpec
INVARIANTS
    CountIsExact
    NoUseAfterDelete
PROPERTY
    LastOneDeletes
