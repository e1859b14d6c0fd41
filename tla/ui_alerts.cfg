\* One alert of two severities, about a node's instance and a claim.
SPECIFICATION Spec
CONSTANTS
    Names = {a}
    Parents = {}
    Things = {n, c}
    Volumes = {c}
    MaxFiring = 4
INVARIANT OnlyDoubledWarningsHidden
CHECK_DEADLOCK FALSE
