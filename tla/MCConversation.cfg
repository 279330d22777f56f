SPECIFICATION Spec
CONSTANTS
    r1 = r1
    r2 = r2
    r3 = r3
    Requests <- MCRequests
    NoRow = noRow
    MaxCalls = 4
SYMMETRY Symmetry
INVARIANTS
    TypeOK
    RegistryIsExact
    CheckStillHolds
    OnlyACutKills
    ClosingEventIsTrue
