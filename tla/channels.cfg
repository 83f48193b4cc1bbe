SPECIFICATION Spec
CONSTANTS
    MaxChan = 4
    MaxRestarts = 1
CONSTRAINT Apart
CHECK_DEADLOCK FALSE
INVARIANTS
    TypeOK
    AcyclicUntilRestart
    SymmetricUntilRestart
    CacheCurrent
    MutualVoice
    OneDestination
PROPERTY CyclesOnlyByReuse
