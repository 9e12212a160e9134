\* A taken down listing is final, and the bounds on payments, entries, messages
\* and removals are reached: the system may stop.
CHECK_DEADLOCK FALSE
SPECIFICATION Spec
CONSTANTS
    c1 = c1
    c2 = c2
    p1 = p1
    p2 = p2
    k1 = k1
    k2 = k2
    water = water
    may = may
    flat = flat
    loft = loft
    resident = resident
    None = None
    Calls = {c1, c2}
    Accounts = {p1, p2}
    Tariffs = {water}
    Metered = {water}
    AccountPeriods = {may}
    MaxPayments = 2
    Periods = {1, 3}
    Values = {1, 3, 5}
    initialValue = 2
    People = {p1, p2}
    Units = {flat, loft}
    complex <- Together
    Shares = {60}
    Rows = {k1, k2}
    Staff = {p1, p2}
    Creator = resident
    MaxEntries = 3
    Window = 2
    MaxMessages = 3
    MaxRemovals = 3
SYMMETRY MCSymmetry
INVARIANTS
    TypeOK
    BalanceWrongOnlyByRaceOrCrash
    BilledAgainOnlyUnseen
    OverfullOnlyByRace
    AuditTellsNoMore
    NothingNewIsHidden
    ReadWasShown
PROPERTIES
    GoneStaysGone
    RejectionSparesOthers
    StatusOnlyAdvances
    SecondEntryOnlyByRace
    BackOnlyByRace
