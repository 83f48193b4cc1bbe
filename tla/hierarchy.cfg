SPECIFICATION Spec
CONSTANTS
    Uid = {a, b}
    Key = {k}
    KeyReuse = FALSE
    MaxGroup = 4
    Position <- Positions
    MaxPosition = 100
    PermSets <- Sets
    MaxMoves = 2
    ByUid = FALSE
CONSTRAINT Few
SYMMETRY Identities
CHECK_DEADLOCK FALSE
INVARIANTS
    TypeOK
    AuthorityCurrent
    DeletedIsGone
PROPERTIES
    RightsFromAdmins
    RisesBelowEditors
    RolesFromAbove
