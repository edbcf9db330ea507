SPECIFICATION Spec
CONSTANTS
    Pods <- pods
    Own <- own
    Nodes <- nodes
    Container = {c1}
    MaxBad = 2
INVARIANTS
    ErrorsCaught
PROPERTIES
    OwnPodsOnly
CHECK_DEADLOCK FALSE
