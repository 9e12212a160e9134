----------------------------- MODULE MCBookings -----------------------------
(***************************************************************************)
(* A finite instance of Bookings: days of four minutes of two ticks, open  *)
(* from minute 1 to minute 3.                                              *)
(***************************************************************************)
EXTENDS Bookings

CONSTANTS aliya, flat

MCHome == [u \in {aliya} |-> flat]

Slot(start, end) == [start |-> start, end |-> end]

Whole == Slot(2, 6)         \* all of the opening hours
Late == Slot(4, 7)          \* ends half a minute after closing
Overnight == Slot(6, 10)    \* from closing time to opening on the next day

MCSlots == {Whole, Late, Overnight}
=============================================================================
