SPECIFICATION Spec
CONSTANTS
    Entry <- MCEntry
    MaxLength = 1
    NoCount = NoCount
    NoCopy = NoCopy
INVARIANTS
    UniqueParametersRefused
CHECK_DEADLOCK FALSE
