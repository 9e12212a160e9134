SPECIFICATION Spec
CONSTANTS
    c1 = c1
    c2 = c2
    c3 = c3
    Calls = {c1, c2}
    Window = 2
    MaxMessages = 3
SYMMETRY MCSymmetry
PROPERTIES
    LatestIsShown
