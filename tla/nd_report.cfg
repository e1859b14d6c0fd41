\* One bare pod and one replica, one mishap.
SPECIFICATION Spec
CONSTANTS
    p1 = p1
    p2 = p2
    p3 = p3
    Pods = {p1, p2, p3}
    Casts <- BareCast
    MinAvailable = 0
    Calls <- MixedCalls
    MaxMishaps = 2
INVARIANTS FailureIsReported
CHECK_DEADLOCK FALSE
