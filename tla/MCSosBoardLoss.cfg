SPECIFICATION BoardSpec
CONSTANTS
    Residents = {aliya}
    Alerts = {a1}
    Requests = {r1, r2}
    Nobody = Nobody
    guard = guard
    dispatcher = dispatcher
    Processors <- MCProcessors
    Staff <- MCProcessors
    MaxChannel = 2
PROPERTY
    QuietBoardKeepsActive
