SPECIFICATION Spec
CONSTANTS
    aliya = aliya
    flat = flat
    Residents = {aliya}
    Staff = {guard}
    Units = {flat}
    home <- MCHome
    Nobody = Nobody
    Bookings = {b1, b2}
    Entries = {e1, e2}
    Calls = {c1}
    Slots <- MCSlots
    PerMinute = 2
    Day = 8
    Opens = 1
    Closes = 3
    MaxDuration = 2
INVARIANT
    NobodyWaitsForAFreeSlot
