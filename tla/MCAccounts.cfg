SPECIFICATION Spec
CONSTANTS
    admin = admin
    user = user
    s1 = s1
    s2 = s2
    Users <- TwoUsers
    Admin = admin
    Communities = {c1}
    Buildings = {b1}
    None = None
    Absent = Absent
    Keep = Keep
    Slots <- TwoSlots
    Payloads <- Edits
    NewAccounts <- Created
    MaxPairs = 2
    MaxRevoked = 1
    MaxEdits = 2
SYMMETRY Symmetry
INVARIANTS
    TypeOK
    StartsUnlessRenamed
PROPERTIES
    OneScopeUnlessStale
    OnlyAskedColumnsChange
    OutStaysOut
CHECK_DEADLOCK FALSE
