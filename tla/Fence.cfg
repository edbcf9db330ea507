SPECIFICATION Spec
CONSTANTS
    Node = {n1, n2, n3}
    Percentages = {0, 10, 50, 67, 100}
INVARIANTS
    TypeOK
    SelectionFits
    LeftTidy
PROPERTIES
    FencedLeftAlone
    ChangedInDelay
CHECK_DEADLOCK FALSE
