SPECIFICATION Spec
CONSTANTS
    Residents = {aliya}
    Alerts = {a1, a2}
    Nobody = Nobody
    r1 = r1
    r2 = r2
    r3 = r3
    guard = guard
    dispatcher = dispatcher
    chairman = chairman
    Requests <- MCRequests
    Processors <- MCProcessors
    Staff <- MCStaff
INVARIANT
    OneActiveAlertPerResident
