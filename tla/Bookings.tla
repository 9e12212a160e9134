------------------------------ MODULE Bookings ------------------------------
(***************************************************************************)
(* One bookable resource of a housing complex and the waitlist for its     *)
(* taken slots (bookings.service.ts).                                      *)
(*                                                                         *)
(* A call is a handler in flight; each action is its code from one await   *)
(* to the next.  The transaction of createBooking is READ COMMITTED and    *)
(* locks nothing in its findFirst, so its two statements are two actions.  *)
(*                                                                         *)
(* Instants are ticks, PerMinute to the minute and Day to the day, all in  *)
(* the future; the resource is active, with opening hours, and each        *)
(* resident owns one verified unit.                                        *)
(***************************************************************************)
EXTENDS Naturals, FiniteSets

CONSTANTS
    Residents,
    Staff,
    Units,
    home,           \* home[u]: the unit of resident u
    Nobody,
    Bookings,       \* the ids that booking.create may hand out
    Entries,        \* the ids that bookingWaitlistEntry.create may hand out
    Calls,          \* handlers that can be in flight at the same time
    Slots,          \* the [start, end] pairs that clients ask for
    PerMinute, Day, \* ticks in a minute and in a day
    Opens, Closes,  \* operating hours, in minutes of the day
    MaxDuration     \* longest booking, in minutes

ASSUME PeopleAssumption ==
    /\ home \in [Residents -> Units]
    /\ Nobody \notin Residents \cup Staff

ASSUME TimeAssumption ==
    /\ PerMinute \in Nat \ {0} /\ Day \in Nat \ {0} /\ Day % PerMinute = 0
    /\ Opens \in Nat /\ Closes \in Nat /\ MaxDuration \in Nat
    /\ Slots \subseteq [start : Nat, end : Nat] /\ Slots # {}

VARIABLES
    booking,    \* booking[b]: the row of table bookings
    checked,    \* checked[b]: the bookings that stood when b was checked
    entry,      \* entry[e]: the row of table booking_waitlist_entries
    offered,    \* offered[e]: was a push about the freed slot tried?
    call,       \* call[c]: the handler running in slot c
    broken      \* has a handler died or had a statement fail?

vars == <<booking, checked, entry, offered, call, broken>>

AnySlot == CHOOSE s \in Slots : TRUE

\* Who cancelled a booking is left out: nothing here reads it.
NoBooking == [status |-> "NONE", slot |-> AnySlot, by |-> Nobody]

\* A deleted entry keeps its row here, with the way it went as its state.
NoEntry == [state |-> "none", user |-> Nobody, slot |-> AnySlot]

Idle == [at |-> "idle", user |-> Nobody, slot |-> AnySlot,
         seen |-> {}, waiters |-> {}, left |-> {}]

Init ==
    /\ booking = [b \in Bookings |-> NoBooking]
    /\ checked = [b \in Bookings |-> {}]
    /\ entry = [e \in Entries |-> NoEntry]
    /\ offered = [e \in Entries |-> FALSE]
    /\ call = [c \in Calls |-> Idle]
    /\ broken = FALSE

Confirmed == {b \in Bookings : booking[b].status = "CONFIRMED"}

Waiting == {e \in Entries : entry[e].state = "waiting"}

\* Mutant: only a booking that starts within the slot conflicts.
Conflicts_StartOnly(slot) ==
    {b \in Confirmed : /\ booking[b].slot.start >= slot.start
                       /\ booking[b].slot.start < slot.end}

\* The where clause of the overlap queries.
Conflicts(slot) ==
    {b \in Confirmed : /\ booking[b].slot.start < slot.end
                       /\ booking[b].slot.end > slot.start}

Finish(c) == call' = [call EXCEPT ![c] = Idle]

-----------------------------------------------------------------------------
(* createBooking.                                                          *)

\* Math.round of the length in minutes.
Minutes(slot) ==
    (2 * (slot.end - slot.start) + PerMinute) \div (2 * PerMinute)

\* getUTCHours and getUTCMinutes of an instant drop its seconds.
MinuteOfDay(t) == (t % Day) \div PerMinute

\* Mutant: the two dates are not compared.
WithinHours_AnyDay(slot) ==
    /\ MinuteOfDay(slot.start) >= Opens
    /\ MinuteOfDay(slot.end) <= Closes

WithinHours(slot) ==
    /\ slot.start \div Day = slot.end \div Day
    /\ MinuteOfDay(slot.start) >= Opens
    /\ MinuteOfDay(slot.end) <= Closes

Bookable(slot) ==
    /\ slot.start < slot.end
    /\ Minutes(slot) <= MaxDuration
    /\ WithinHours(slot)

BookCheck(c, u, slot) ==
    /\ call[c].at = "idle"
    /\ Bookable(slot)
    /\ Conflicts(slot) = {}
    /\ call' = [call EXCEPT ![c] =
         [Idle EXCEPT !.at = "booking", !.user = u, !.slot = slot,
                      !.seen = Confirmed]]
    /\ UNCHANGED <<booking, checked, entry, offered, broken>>

BookInsert(c) ==
    /\ call[c].at = "booking"
    /\ \E b \in Bookings :
         /\ booking[b].status = "NONE"
         /\ booking' = [booking EXCEPT ![b] =
              [NoBooking EXCEPT !.status = "CONFIRMED", !.slot = call[c].slot,
                                !.by = call[c].user]]
         /\ checked' = [checked EXCEPT ![b] = call[c].seen]
    /\ Finish(c)
    /\ UNCHANGED <<entry, offered, broken>>

-----------------------------------------------------------------------------
(* joinWaitlist and leaveWaitlist.                                         *)

\* Neither the operating hours nor the longest duration are looked at.
JoinCheck(c, u, slot) ==
    /\ call[c].at = "idle"
    /\ slot.start < slot.end
    /\ Conflicts(slot) # {}
    /\ call' = [call EXCEPT ![c] =
         [Idle EXCEPT !.at = "joining", !.user = u, !.slot = slot]]
    /\ UNCHANGED <<booking, checked, entry, offered, broken>>

\* Mutant: there is no unique index.
Queued_Never(u, slot) == FALSE

\* The unique index allows one entry of a unit for a slot.
Queued(u, slot) ==
    \E e \in Waiting : home[entry[e].user] = home[u] /\ entry[e].slot = slot

JoinInsert(c) ==
    /\ call[c].at = "joining"
    /\ IF Queued(call[c].user, call[c].slot)
         THEN UNCHANGED entry
         ELSE \E e \in Entries :
                /\ entry[e].state = "none"
                /\ entry' = [entry EXCEPT ![e] =
                     [state |-> "waiting", user |-> call[c].user,
                      slot |-> call[c].slot]]
    /\ Finish(c)
    /\ UNCHANGED <<booking, checked, offered, broken>>

Leave(e) ==
    /\ e \in Waiting
    /\ entry' = [entry EXCEPT ![e].state = "left"]
    /\ UNCHANGED <<booking, checked, offered, call, broken>>

-----------------------------------------------------------------------------
(* cancelBooking.                                                          *)

CancelCheck(c, u, b) ==
    /\ call[c].at = "idle"
    /\ b \in Confirmed
    /\ u = booking[b].by \/ u \in Staff
    /\ call' = [call EXCEPT ![c] =
         [Idle EXCEPT !.at = "cancelling", !.slot = booking[b].slot,
                      !.seen = {b}]]
    /\ UNCHANGED <<booking, checked, entry, offered, broken>>

\* The update names the booking by its id only: a second cancellation that
\* was checked before the first one committed cancels it again.
CancelCommit(c) ==
    /\ call[c].at = "cancelling"
    /\ booking' = [b \in Bookings |->
         IF b \in call[c].seen
           THEN [booking[b] EXCEPT !.status = "CANCELLED"]
           ELSE booking[b]]
    /\ call' = [call EXCEPT ![c].at = "listing"]
    /\ UNCHANGED <<checked, entry, offered, broken>>

\* Mutant: the waiters of every slot that starts with the freed one or later.
WaitersOf_Later(slot) == {e \in Waiting : entry[e].slot.start >= slot.start}

\* The waiters of the freed slot: of exactly its start and its end.
WaitersOf(slot) == {e \in Waiting : entry[e].slot = slot}

ListWaiters(c) ==
    LET waiters == WaitersOf(call[c].slot)
    IN  /\ call[c].at = "listing"
        /\ call' = [call EXCEPT ![c] =
             IF waiters = {} THEN Idle
             ELSE [@ EXCEPT !.at = "offering", !.waiters = waiters,
                            !.left = waiters]]
        /\ UNCHANGED <<booking, checked, entry, offered, broken>>

\* Mutant: a failed push ends the handler.
Failed_Ends(c, e) == Idle

\* The loop goes on after a push, and the catch inside it after a failed one.
Sent(c, e) == [call[c] EXCEPT !.left = @ \ {e}]
Failed(c, e) == [call[c] EXCEPT !.left = @ \ {e}]

\* The push to one waiter.
Offer(c) ==
    /\ call[c].at = "offering"
    /\ \E e \in call[c].left, after \in {"sent", "failed"} :
         /\ offered' = [offered EXCEPT ![e] = TRUE]
         /\ call' = [call EXCEPT ![c] =
              IF after = "sent" THEN Sent(c, e) ELSE Failed(c, e)]
    /\ UNCHANGED <<booking, checked, entry, broken>>

\* Mutant: the entries of the slot are deleted, not the ones listed.
Cleared_BySlot(c) == WaitersOf(call[c].slot)

\* The entries of deleteMany, by the ids that were listed.
Cleared(c) == call[c].waiters \cap Waiting

ClearList(c) ==
    /\ call[c].at = "offering"
    /\ call[c].left = {}
    /\ entry' = [e \in Entries |->
         IF e \in Cleared(c) THEN [entry[e] EXCEPT !.state = "cleared"]
                             ELSE entry[e]]
    /\ Finish(c)
    /\ UNCHANGED <<booking, checked, offered, broken>>

-----------------------------------------------------------------------------
\* The process dies or a statement fails.  What the handler wrote before
\* stays: a cancellation is not undone when its waitlist cannot be served.
Abandon(c) ==
    /\ call[c].at # "idle"
    /\ broken' = TRUE
    /\ Finish(c)
    /\ UNCHANGED <<booking, checked, entry, offered>>

\* The part of a handler that serves the waitlist of a freed slot.
Serve(c) == ListWaiters(c) \/ Offer(c) \/ ClearList(c)

Next ==
    \/ \E e \in Entries : Leave(e)
    \/ \E c \in Calls :
         \/ \E u \in Residents, slot \in Slots :
              BookCheck(c, u, slot) \/ JoinCheck(c, u, slot)
         \/ \E u \in Residents \cup Staff, b \in Bookings : CancelCheck(c, u, b)
         \/ BookInsert(c)
         \/ JoinInsert(c)
         \/ CancelCommit(c)
         \/ Serve(c)
         \/ Abandon(c)

\* A handler that runs goes on: nothing it awaits waits for another handler.
Spec == Init /\ [][Next]_vars /\ \A c \in Calls : WF_vars(Serve(c))

-----------------------------------------------------------------------------
(* Properties.                                                             *)

\* Rows and handlers have the shape the code gives them, and the unique index
\* of the waitlist holds.
TypeOK ==
    /\ booking \in [Bookings ->
         [status : {"NONE", "CONFIRMED", "CANCELLED"}, slot : Slots,
          by : Residents \cup {Nobody}]]
    /\ checked \in [Bookings -> SUBSET Bookings]
    /\ entry \in [Entries ->
         [state : {"none", "waiting", "left", "cleared"},
          user : Residents \cup {Nobody}, slot : Slots]]
    /\ \A d, e \in Waiting :
         /\ home[entry[d].user] = home[entry[e].user]
         /\ entry[d].slot = entry[e].slot
         => d = e
    /\ offered \in [Entries -> BOOLEAN]
    /\ call \in [Calls ->
         [at : {"idle", "booking", "joining", "cancelling", "listing",
                "offering"},
          user : Residents \cup {Nobody}, slot : Slots,
          seen : SUBSET Bookings, waiters : SUBSET Entries,
          left : SUBSET Entries]]
    /\ broken \in BOOLEAN

Ticks(slot) == slot.start .. slot.end - 1

\* Two bookings stand for one instant only if neither stood when the other
\* was checked: the check of lines 293-308 misses no booking it could see, and
\* the race between check and insert is the only way to book twice.
DoubleBookingOnlyByRace ==
    \A a, b \in Confirmed :
        a # b /\ Ticks(booking[a].slot) \cap Ticks(booking[b].slot) # {}
            => a \notin checked[b] /\ b \notin checked[a]

\* The whole minutes that a slot takes up, counted from the first day on.
WholeMinutes(slot) ==
    {m \in 0 .. slot.end \div PerMinute :
        slot.start <= m * PerMinute /\ (m + 1) * PerMinute <= slot.end}

\* Every whole minute of every booking lies in the operating hours, all of
\* them on one day, and there are no more of them than the longest duration
\* allows (lines 757-779 compare two minutes of the day and two dates).
BookedMinutesAreOpen ==
    \A b \in Confirmed :
        LET minutes == WholeMinutes(booking[b].slot)
            perDay == Day \div PerMinute
        IN  /\ \A m \in minutes : m % perDay >= Opens /\ m % perDay < Closes
            /\ \A m, n \in minutes : m \div perDay = n \div perDay
            /\ Cardinality(minutes) <= MaxDuration

\* No waiter is dropped unserved: an entry the service deletes was offered the
\* slot first, or at least the push was tried, whoever joined the list while
\* a cancellation was serving it (lines 664-701).
NobodyDroppedUnserved ==
    \A e \in Entries : entry[e].state = "cleared" => offered[e]

\* A push about a freed slot only goes to the people who wait for a slot that
\* was really given back, even when two cancellations interleave.
OfferedSlotWasFreed ==
    \A e \in Entries :
        offered[e] =>
            \E b \in Bookings : booking[b].status = "CANCELLED"
                                /\ booking[b].slot = entry[e].slot

\* Who waits for a slot whose cancellation is being served leaves the list in
\* the end, although pushes fail, unless a handler dies (lines 682-701).
FreedWaitersAreServed ==
    \A e \in Entries :
        (\E c \in Calls : call[c].at = "listing" /\ e \in WaitersOf(call[c].slot))
            ~> (entry[e].state # "waiting" \/ broken)

\* Nothing is under way, and nothing ever went wrong.
Quiet == ~broken /\ \A c \in Calls : call[c].at = "idle"

\* Nobody waits for a slot that is free: whoever joined the list is notified
\* when the slot gets free (mobile/src/i18n/locales/en.json:542).  Any overlap
\* lets a resident join, but only the waiters of exactly the freed slot are
\* served; see the run bookings_forgotten_waiter.
NobodyWaitsForAFreeSlot ==
    Quiet => \A e \in Waiting : Conflicts(entry[e].slot) # {}
=============================================================================
