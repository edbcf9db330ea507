SPECIFICATION FairSpec
CONSTANTS
    Entry <- MCPoolless
    MaxLength = 3
    NoCount = NoCount
    NoCopy = NoCopy
INVARIANTS
    TypeOK
    RunsWhatIsAsked
    CopiesBehaveAlike
PROPERTIES
    IteratorEnds
CHECK_DEADLOCK FALSE
