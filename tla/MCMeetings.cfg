SPECIFICATION Spec
CONSTANTS
    flat = flat
    aliya = aliya
    berik = berik
    c1 = c1
    c2 = c2
    Units = {flat}
    area <- MCArea
    People = {aliya, berik}
    Shares = {40, 100}
    Simple = {budget}
    Qualified = {chair}
    Options = {"FOR"}
    Calls = {c1, c2}
    Nobody = Nobody
INVARIANTS
    AreaDecidesOnce
    QuorumNeverAhead
PROPERTY
    ClosingIsFinal
