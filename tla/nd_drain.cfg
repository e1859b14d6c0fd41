\* Three pods of every kind of owner, a budget that keeps one replica.
SPECIFICATION FairSpec
CONSTANTS
    p1 = p1
    p2 = p2
    p3 = p3
    Pods = {p1, p2, p3}
    Casts <- MixedCasts
    MinAvailable = 1
    Calls <- MixedCalls
    MaxMishaps = 1
INVARIANTS
    TypeOK
    NodeEmptied
    AllOrNothing
PROPERTIES DrainEnds
CHECK_DEADLOCK FALSE
