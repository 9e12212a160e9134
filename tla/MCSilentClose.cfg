SPECIFICATION Spec
CONSTANTS
    Creator = superadmin
    Nobody = Nobody
    c1 = c1
    c2 = c2
    Calls <- MCCalls
    Staff = {superadmin}
    Assignable = {dispatcher}
    Statuses <- MCStatuses
    MaxWrites = 3
INVARIANT
    HistoryEndsAtStatus
