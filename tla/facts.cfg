SPECIFICATION Spec
CONSTANTS
    Users = {u1, u2}
    NoUser = NoUser
    Keys = {k1, k2}
    Values = {v1, v2}
    Requests = {r1, r2}
    Calls = {c1}
    MaxActive = 1
    AuthEnabled = TRUE
SYMMETRY Symmetry
INVARIANTS
    OwnMemories
    ValueStated
    OneRowPerKey
PROPERTIES
    DeletionWins
    FactsRemembered
CHECK_DEADLOCK FALSE
