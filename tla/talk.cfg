SPECIFICATION Spec
CONSTANTS
    Client = {a, b, c}
    MaxChan = 3
CONSTRAINT OneVoice
SYMMETRY Sessions
CHECK_DEADLOCK FALSE
INVARIANTS
    TypeOK
    QuietIsDark
PROPERTIES
    LampsFollowVoice
    StaleOnlyBy
