SPECIFICATION Spec
CONSTANTS
    r1 = r1
    r2 = r2
    k1 = k1
    k2 = k2
    ana = ana
    beto = beto
    carla = carla
    mail1 = mail1
    mail2 = mail2
    Requests <- MCRequests
    Connections <- MCConnections
    Uids <- MCUids
    Emails <- MCEmails
    Founder = ana
    FounderEmail = mail1
    Updates <- MCUpdates
    MaxCrashes = 1
    None = none
SYMMETRY Symmetry
INVARIANTS
    TypeOK
    StoresAgree
    ClaimsFollowTheRow
    BoundToItsBusiness
PROPERTIES
    OnlyNamedColumnsChange
