--------------------------- MODULE BookingsProofs ---------------------------
(***************************************************************************)
(* What holds of one bookable resource for any number of people, units,    *)
(* bookings, waitlist entries and handlers in flight.                      *)
(*                                                                         *)
(* A handler acts on rows it read earlier: the bookings that stood when it *)
(* checked a slot, the booking it cancels, the entries it listed.  IInv    *)
(* says what stays true of them: rows are never deleted or given another   *)
(* slot, so what was apart stays apart, and what was freed stays freed.    *)
(***************************************************************************)
EXTENDS Bookings, FiniteSetTheorems, TLAPS

\* What Conflicts denies: the two slots do not overlap.
Apart(s, t) == s.end <= t.start \/ t.end <= s.start

\* A booking of this slot was cancelled.
Freed(slot) ==
    \E b \in Bookings :
        booking[b].status = "CANCELLED" /\ booking[b].slot = slot

Handler ==
    [at : {"idle", "booking", "joining", "cancelling", "listing", "offering"},
     user : Residents \cup {Nobody}, slot : Slots,
     seen : SUBSET Bookings, waiters : SUBSET Entries, left : SUBSET Entries]

\* A handler context q that the code can hold in the present state.
ContextOK(q) ==
    /\ q.at \in {"booking", "joining"} => q.user \in Residents
    /\ q.at = "booking" =>
         \A a \in q.seen : /\ booking[a].status # "NONE"
                           /\ Apart(booking[a].slot, q.slot)
    /\ q.at = "cancelling" =>
         /\ q.seen # {}
         /\ \A b \in q.seen : /\ booking[b].status # "NONE"
                              /\ booking[b].slot = q.slot
    /\ q.at \in {"listing", "offering"} => Freed(q.slot)
    /\ q.at = "offering" =>
         \A e \in q.waiters \cup q.left : /\ entry[e].state # "none"
                                          /\ entry[e].slot = q.slot
    /\ q.at = "offering" =>
         \A e \in q.waiters : e \in q.left \/ offered[e]

\* A booking was checked against the bookings that its check remembers, and
\* an entry was offered a slot, and dropped, only for a reason.
RowsOK ==
    /\ \A b \in Bookings : \A a \in checked[b] :
         /\ booking[a].status # "NONE"
         /\ Apart(booking[a].slot, booking[b].slot)
    /\ \A e \in Entries : offered[e] =>
         /\ entry[e].state # "none"
         /\ Freed(entry[e].slot)
    /\ NobodyDroppedUnserved

IInv ==
    /\ TypeOK
    /\ RowsOK
    /\ \A c \in Calls : ContextOK(call[c])

\* What no step may undo.
Lasting ==
    /\ \A b \in Bookings : booking[b].status # "NONE" =>
         /\ booking'[b].status # "NONE"
         /\ booking'[b].slot = booking[b].slot
         /\ booking[b].status = "CANCELLED" => booking'[b].status = "CANCELLED"
    /\ \A e \in Entries : entry[e].state # "none" =>
         /\ entry'[e].state # "none"
         /\ entry'[e].slot = entry[e].slot
    /\ \A e \in Entries : offered[e] => offered'[e]

\* The part of TypeOK about the tables.
TablesTyped ==
    /\ booking \in [Bookings ->
         [status : {"NONE", "CONFIRMED", "CANCELLED"}, slot : Slots,
          by : Residents \cup {Nobody}]]
    /\ checked \in [Bookings -> SUBSET Bookings]
    /\ entry \in [Entries ->
         [state : {"none", "waiting", "left", "cleared"},
          user : Residents \cup {Nobody}, slot : Slots]]
    /\ \A d, e \in Waiting :
         /\ home[entry[d].user] = home[entry[e].user]
         /\ entry[d].slot = entry[e].slot
         => d = e
    /\ offered \in [Entries -> BOOLEAN]

-----------------------------------------------------------------------------
\* TypeOK in its two parts.
LEMMA TypeParts ==
  TypeOK <=> TablesTyped /\ call \in [Calls -> Handler] /\ broken \in BOOLEAN
BY DEF TypeOK, TablesTyped, Handler

\* The empty context is typed and in order.
LEMMA IdleOK == Idle \in Handler /\ ContextOK(Idle) /\ ContextOK(Idle)'
<1>1. AnySlot \in Slots
  BY TimeAssumption DEF AnySlot
<1>2. QED
  BY <1>1 DEF Idle, Handler, ContextOK

\* A freed slot stays freed.
LEMMA FreedStays ==
  ASSUME Lasting, NEW slot, Freed(slot)
  PROVE  Freed(slot)'
BY DEF Lasting, Freed

\* A waiting context survives every step that undoes nothing.
LEMMA ContextSurvives ==
  ASSUME Lasting, NEW q \in Handler, ContextOK(q)
  PROVE  ContextOK(q)'
<1>1. Freed(q.slot) => Freed(q.slot)'
  BY FreedStays
<1>2. /\ q.seen \in SUBSET Bookings
      /\ q.waiters \in SUBSET Entries
      /\ q.left \in SUBSET Entries
  BY DEF Handler
<1>3. QED
  BY <1>1, <1>2 DEF ContextOK, Lasting

\* A step of handler c that undoes nothing and keeps the tables in order
\* preserves the invariant if its own context is in order.
LEMMA ContextStep ==
  ASSUME IInv, NEW c \in Calls, NEW q \in Handler, ContextOK(q)',
         call' = [call EXCEPT ![c] = q],
         Lasting, TablesTyped', RowsOK', broken' \in BOOLEAN
  PROVE  IInv'
<1>1. call \in [Calls -> Handler] /\ \A d \in Calls : ContextOK(call[d])
  BY TypeParts DEF IInv
<1>2. call' \in [Calls -> Handler]
  BY <1>1
<1>3. TypeOK'
  BY <1>2 DEF TypeOK, TablesTyped, Handler
<1>4. ASSUME NEW d \in Calls PROVE ContextOK(call[d])'
  <2>1. CASE d = c
    <3>1. call'[d] = q
      BY <1>1, <2>1
    <3>2. QED
      BY <3>1 DEF ContextOK, Freed
  <2>2. CASE d # c
    <3>1. PICK p \in Handler : p = call[d]
      BY <1>1
    <3>2. ContextOK(p)'
      BY <1>1, <3>1, ContextSurvives
    <3>3. call'[d] = p
      BY <1>1, <2>2, <3>1
    <3>4. QED
      BY <3>2, <3>3 DEF ContextOK, Freed
  <2>3. QED
    BY <2>1, <2>2
<1>5. QED
  BY <1>3, <1>4 DEF IInv

\* A step of handler c that leaves the tables alone preserves the invariant if
\* its own context is in order.
LEMMA ReadStep ==
  ASSUME IInv, NEW c \in Calls, NEW q \in Handler, ContextOK(q),
         call' = [call EXCEPT ![c] = q],
         UNCHANGED <<booking, checked, entry, offered>>, broken' \in BOOLEAN
  PROVE  IInv'
<1>1. Lasting
  BY DEF Lasting
<1>2. TablesTyped'
  BY TypeParts DEF IInv, TablesTyped, Waiting
<1>3. RowsOK'
  BY DEF IInv, RowsOK, Freed, NobodyDroppedUnserved
<1>4. ContextOK(q)'
  BY <1>1, ContextSurvives
<1>5. QED
  BY <1>1, <1>2, <1>3, <1>4, ContextStep

-----------------------------------------------------------------------------
(* The invariant holds initially and is preserved, action by action.       *)

\* Nothing is booked, nobody waits and no handler runs at first.
LEMMA IInvInit == Init => IInv
<1> SUFFICES ASSUME Init PROVE IInv
  OBVIOUS
<1>1. AnySlot \in Slots
  BY TimeAssumption DEF AnySlot
<1>2. TablesTyped
  BY <1>1 DEF Init, TablesTyped, NoBooking, NoEntry, Waiting
<1>3. call \in [Calls -> Handler] /\ broken \in BOOLEAN
  BY IdleOK DEF Init
<1>4. RowsOK
  BY DEF Init, RowsOK, NobodyDroppedUnserved, NoEntry
<1>5. \A c \in Calls : ContextOK(call[c])
  BY IdleOK DEF Init
<1>6. QED
  BY <1>2, <1>3, <1>4, <1>5, TypeParts DEF IInv

\* A slot without conflicts is apart from every booking that stands.
LEMMA FreeSlotApart ==
  ASSUME TypeOK, NEW slot \in Slots, Conflicts(slot) = {},
         NEW b \in Confirmed
  PROVE  booking[b].status # "NONE" /\ Apart(booking[b].slot, slot)
<1>1. b \in Bookings /\ booking[b].status = "CONFIRMED"
  BY DEF Confirmed
<1>2. booking[b].slot \in Slots
  BY <1>1 DEF TypeOK
<1>3. /\ booking[b].slot.start \in Nat /\ booking[b].slot.end \in Nat
      /\ slot.start \in Nat /\ slot.end \in Nat
  BY <1>2, TimeAssumption
<1>4. ~(booking[b].slot.start < slot.end /\ booking[b].slot.end > slot.start)
  BY DEF Conflicts
<1>5. QED
  BY <1>1, <1>3, <1>4 DEF Apart

\* The check of createBooking remembers bookings apart from its slot.
LEMMA BookCheckStep ==
  ASSUME IInv, NEW c \in Calls, NEW u \in Residents, NEW slot \in Slots,
         BookCheck(c, u, slot)
  PROVE  IInv'
<1> DEFINE q == [Idle EXCEPT !.at = "booking", !.user = u, !.slot = slot,
                             !.seen = Confirmed]
<1>1. PICK p : p = q
  OBVIOUS
<1>2. Confirmed \in SUBSET Bookings
  BY DEF Confirmed
<1>3. p \in Handler
  BY <1>1, <1>2, IdleOK DEF Handler, Idle
<1>4. /\ p.at = "booking" /\ p.user = u /\ p.seen = Confirmed /\ p.slot = slot
  BY <1>1 DEF Idle
<1>5. ContextOK(p)
  BY <1>4, FreeSlotApart DEF ContextOK, IInv, BookCheck
<1>6. QED
  BY <1>1, <1>3, <1>5, ReadStep DEF BookCheck, IInv, TypeOK

\* The check of joinWaitlist remembers who asks and for what.
LEMMA JoinCheckStep ==
  ASSUME IInv, NEW c \in Calls, NEW u \in Residents, NEW slot \in Slots,
         JoinCheck(c, u, slot)
  PROVE  IInv'
<1> DEFINE q == [Idle EXCEPT !.at = "joining", !.user = u, !.slot = slot]
<1>1. q \in Handler
  BY IdleOK DEF Handler, Idle
<1>2. q.at = "joining" /\ q.user = u
  BY DEF Idle
<1>3. ContextOK(q)
  BY <1>2 DEF ContextOK
<1>4. QED
  BY <1>1, <1>3, ReadStep DEF JoinCheck, IInv, TypeOK

\* The check of cancelBooking remembers the booking and its slot.
LEMMA CancelCheckStep ==
  ASSUME IInv, NEW c \in Calls, NEW u, NEW b \in Bookings,
         CancelCheck(c, u, b)
  PROVE  IInv'
<1> DEFINE q == [Idle EXCEPT !.at = "cancelling", !.slot = booking[b].slot,
                             !.seen = {b}]
<1>1. PICK p : p = q
  OBVIOUS
<1>2. booking[b].slot \in Slots
  BY DEF IInv, TypeOK
<1>3. p \in Handler
  BY <1>1, <1>2, IdleOK DEF Handler, Idle
<1>4. p.at = "cancelling" /\ p.seen = {b} /\ p.slot = booking[b].slot
  BY <1>1 DEF Idle
<1>5. ContextOK(p)
  BY <1>4 DEF ContextOK, CancelCheck, Confirmed
<1>6. QED
  BY <1>1, <1>3, <1>5, ReadStep DEF CancelCheck, IInv, TypeOK

\* The listed waiters wait for the freed slot.
LEMMA ListWaitersStep ==
  ASSUME IInv, NEW c \in Calls, ListWaiters(c)
  PROVE  IInv'
<1>1. PICK w : w = WaitersOf(call[c].slot)
  OBVIOUS
<1>2. PICK p : p = [call[c] EXCEPT !.at = "offering", !.waiters = w, !.left = w]
  OBVIOUS
<1>3. call[c] \in Handler /\ ContextOK(call[c])
  BY TypeParts DEF IInv
<1>4. w \in SUBSET Entries /\ \A e \in w : /\ entry[e].state # "none"
                                           /\ entry[e].slot = call[c].slot
  BY <1>1 DEF WaitersOf, Waiting
<1>5. p \in Handler
  BY <1>2, <1>3, <1>4 DEF Handler
<1>6. p.at = "offering" /\ p.waiters = w /\ p.left = w /\ p.slot = call[c].slot
  BY <1>2, <1>3 DEF Handler
<1>7. ContextOK(p)
  BY <1>3, <1>4, <1>6 DEF ContextOK, ListWaiters
<1>8. CASE w = {}
  <2>1. call' = [call EXCEPT ![c] = Idle]
    BY <1>1, <1>8 DEF ListWaiters
  <2>2. QED
    BY <2>1, IdleOK, ReadStep DEF ListWaiters, IInv, TypeOK
<1>9. CASE w # {}
  <2>1. call' = [call EXCEPT ![c] = p]
    BY <1>1, <1>2, <1>9 DEF ListWaiters
  <2>2. QED
    BY <2>1, <1>5, <1>7, ReadStep DEF ListWaiters, IInv, TypeOK
<1>10. QED
  BY <1>8, <1>9

\* The new booking is apart from the bookings its check saw, and no earlier
\* check can have seen it.
LEMMA BookInsertStep ==
  ASSUME IInv, NEW c \in Calls, BookInsert(c)
  PROVE  IInv'
<1>1. /\ call[c] \in Handler /\ ContextOK(call[c])
      /\ TablesTyped /\ RowsOK /\ broken \in BOOLEAN
  BY TypeParts DEF IInv
<1>2. PICK b \in Bookings :
        /\ booking[b].status = "NONE"
        /\ booking' = [booking EXCEPT ![b] =
             [NoBooking EXCEPT !.status = "CONFIRMED", !.slot = call[c].slot,
                               !.by = call[c].user]]
        /\ checked' = [checked EXCEPT ![b] = call[c].seen]
  BY DEF BookInsert
<1>3. PICK new : new = [NoBooking EXCEPT !.status = "CONFIRMED",
                                         !.slot = call[c].slot,
                                         !.by = call[c].user]
  OBVIOUS
<1>4. /\ new.status = "CONFIRMED" /\ new.slot = call[c].slot
      /\ new \in [status : {"NONE", "CONFIRMED", "CANCELLED"}, slot : Slots,
                  by : Residents \cup {Nobody}]
  BY <1>1, <1>3 DEF NoBooking, Handler
<1>5. /\ booking'[b] = new
      /\ \A a \in Bookings \ {b} : booking'[a] = booking[a]
      /\ checked'[b] = call[c].seen
      /\ \A a \in Bookings \ {b} : checked'[a] = checked[a]
      /\ UNCHANGED <<entry, offered, broken>>
  BY <1>1, <1>2, <1>3 DEF TablesTyped, BookInsert
<1>6. TablesTyped'
  BY <1>1, <1>2, <1>3, <1>4, <1>5 DEF TablesTyped, Waiting, Handler
<1>7. Lasting
  BY <1>2, <1>4, <1>5 DEF Lasting
<1>8. \A a \in call[c].seen : /\ a \in Bookings \ {b}
                              /\ Apart(booking[a].slot, call[c].slot)
  BY <1>1, <1>2 DEF BookInsert, ContextOK, Handler
<1>9. RowsOK'
  <2>1. ASSUME NEW d \in Bookings, NEW a \in checked'[d]
        PROVE  booking'[a].status # "NONE"
               /\ Apart(booking'[a].slot, booking'[d].slot)
    <3>1. CASE d = b
      BY <1>1, <1>4, <1>5, <1>8, <2>1, <3>1 DEF ContextOK, BookInsert
    <3>2. CASE d # b
      <4>1. a \in checked[d] /\ a \in Bookings
        BY <1>1, <1>5, <2>1, <3>2 DEF TablesTyped
      <4>2. booking[a].status # "NONE" /\ Apart(booking[a].slot, booking[d].slot)
        BY <1>1, <4>1 DEF RowsOK
      <4>3. booking'[a] = booking[a] /\ booking'[d] = booking[d]
        BY <1>2, <1>5, <3>2, <4>1, <4>2
      <4>4. QED
        BY <4>2, <4>3
    <3>3. QED
      BY <3>1, <3>2
  <2>2. \A e \in Entries : offered'[e] =>
          /\ entry'[e].state # "none"
          /\ \E d \in Bookings : /\ booking'[d].status = "CANCELLED"
                                /\ booking'[d].slot = entry'[e].slot
    <3>1. ASSUME NEW d \in Bookings, booking[d].status = "CANCELLED"
          PROVE  booking'[d] = booking[d]
      BY <1>2, <1>5, <3>1
    <3>2. QED
      BY <1>1, <1>5, <3>1 DEF RowsOK, Freed
  <2>3. NobodyDroppedUnserved'
    BY <1>1, <1>5 DEF RowsOK, NobodyDroppedUnserved
  <2>4. QED
    BY <2>1, <2>2, <2>3 DEF RowsOK, Freed, Apart
<1>10. QED
  BY <1>1, <1>5, <1>6, <1>7, <1>9, IdleOK, ContextStep DEF BookInsert, Finish

\* What the bookings' part of RowsOK needs when the bookings stay as they are.
LEMMA CheckedStays ==
  ASSUME RowsOK, UNCHANGED <<booking, checked>>
  PROVE  \A b \in Bookings : \A a \in checked'[b] :
           /\ booking'[a].status # "NONE"
           /\ Apart(booking'[a].slot, booking'[b].slot)
BY DEF RowsOK

\* A new entry is the only one of its unit for its slot and was offered nothing.
LEMMA JoinInsertStep ==
  ASSUME IInv, NEW c \in Calls, JoinInsert(c)
  PROVE  IInv'
<1>1. /\ call[c] \in Handler /\ ContextOK(call[c])
      /\ TablesTyped /\ RowsOK /\ broken \in BOOLEAN
  BY TypeParts DEF IInv
<1>2. CASE Queued(call[c].user, call[c].slot)
  BY <1>1, <1>2, IdleOK, ReadStep DEF JoinInsert, Finish
<1>3. CASE ~Queued(call[c].user, call[c].slot)
  <2>1. PICK e \in Entries :
          /\ entry[e].state = "none"
          /\ entry' = [entry EXCEPT ![e] =
               [state |-> "waiting", user |-> call[c].user,
                slot |-> call[c].slot]]
    BY <1>3 DEF JoinInsert
  <2>2. UNCHANGED <<booking, checked, offered, broken>>
    BY DEF JoinInsert
  <2>3. /\ entry'[e] = [state |-> "waiting", user |-> call[c].user,
                        slot |-> call[c].slot]
        /\ \A d \in Entries \ {e} : entry'[d] = entry[d]
    BY <1>1, <2>1 DEF TablesTyped
  <2>4. Waiting' = Waiting \cup {e}
    BY <2>1, <2>3 DEF Waiting
  <2>5. ASSUME NEW d \in Waiting, home[entry[d].user] = home[call[c].user],
               entry[d].slot = call[c].slot
        PROVE  FALSE
    BY <1>3, <2>5 DEF Queued
  <2>6. \A d, f \in Waiting' :
          /\ home[entry'[d].user] = home[entry'[f].user]
          /\ entry'[d].slot = entry'[f].slot
          => d = f
    <3>1. e \notin Waiting /\ \A d \in Waiting : entry'[d] = entry[d]
      BY <2>1, <2>3 DEF Waiting
    <3>2. QED
      BY <1>1, <2>3, <2>4, <2>5, <3>1 DEF TablesTyped
  <2>7. call[c].user \in Residents \cup {Nobody} /\ call[c].slot \in Slots
    BY <1>1 DEF Handler
  <2>8. entry' \in [Entries ->
          [state : {"none", "waiting", "left", "cleared"},
           user : Residents \cup {Nobody}, slot : Slots]]
    BY <1>1, <2>1, <2>7 DEF TablesTyped
  <2>9. TablesTyped'
    BY <1>1, <2>2, <2>6, <2>8 DEF TablesTyped
  <2>10. Lasting
    BY <2>1, <2>2, <2>3 DEF Lasting
  <2>11. \A d \in Entries : offered[d] => d # e
    BY <1>1, <2>1 DEF RowsOK
  <2>12. RowsOK'
    BY <1>1, <2>2, <2>3, <2>11, CheckedStays
       DEF RowsOK, Freed, NobodyDroppedUnserved
  <2>13. QED
    BY <1>1, <2>2, <2>9, <2>10, <2>12, IdleOK, ContextStep
       DEF JoinInsert, Finish
<1>4. QED
  BY <1>2, <1>3

\* Entries that stop waiting, with their slots, and nothing else.
LEMMA EntriesLeave ==
  ASSUME IInv, NEW S \in SUBSET Waiting, NEW way \in {"left", "cleared"},
         \A e \in S : way = "cleared" => offered[e],
         \A e \in Entries : entry'[e] = IF e \in S
                                          THEN [entry[e] EXCEPT !.state = way]
                                          ELSE entry[e],
         entry' = [e \in Entries |-> entry'[e]],
         UNCHANGED <<booking, checked, offered>>
  PROVE  TablesTyped' /\ Lasting /\ RowsOK'
<1>1. TablesTyped /\ RowsOK
  BY TypeParts DEF IInv
<1>2. \A e \in Entries :
        /\ entry'[e] \in [state : {"none", "waiting", "left", "cleared"},
                          user : Residents \cup {Nobody}, slot : Slots]
        /\ entry'[e].slot = entry[e].slot /\ entry'[e].user = entry[e].user
        /\ entry'[e].state = IF e \in S THEN way ELSE entry[e].state
  <2>1. TAKE e \in Entries
  <2>2. entry[e] \in [state : {"none", "waiting", "left", "cleared"},
                     user : Residents \cup {Nobody}, slot : Slots]
    BY <1>1 DEF TablesTyped
  <2>3. PICK old : old = entry[e]
    OBVIOUS
  <2>4. CASE e \in S
    <3>1. entry'[e] = [old EXCEPT !.state = way]
      BY <2>3, <2>4
    <3>2. QED
      BY <2>2, <2>3, <2>4, <3>1
  <2>5. CASE e \notin S
    BY <2>2, <2>5
  <2>6. QED
    BY <2>4, <2>5
<1>3. entry' \in [Entries ->
        [state : {"none", "waiting", "left", "cleared"},
         user : Residents \cup {Nobody}, slot : Slots]]
  BY <1>2
<1>4. Waiting' \in SUBSET Waiting
  BY <1>2 DEF Waiting
<1>5. TablesTyped'
  BY <1>1, <1>2, <1>3, <1>4 DEF TablesTyped, Waiting
<1>6. Lasting
  BY <1>2 DEF Lasting
<1>7. RowsOK'
  BY <1>1, <1>2, CheckedStays DEF RowsOK, Freed, NobodyDroppedUnserved
<1>8. QED
  BY <1>5, <1>6, <1>7

\* A waiter who leaves was not dropped.
LEMMA LeaveStep ==
  ASSUME IInv, NEW e \in Entries, Leave(e)
  PROVE  IInv'
<1>1. /\ call \in [Calls -> Handler] /\ \A c \in Calls : ContextOK(call[c])
      /\ TablesTyped /\ broken \in BOOLEAN
  BY TypeParts DEF IInv
<1>2. /\ {e} \in SUBSET Waiting
      /\ \A d \in Entries : entry'[d] = IF d \in {e}
                                          THEN [entry[d] EXCEPT !.state = "left"]
                                          ELSE entry[d]
      /\ UNCHANGED <<booking, checked, offered, call, broken>>
  BY <1>1 DEF Leave, TablesTyped
<1>3. entry' = [d \in Entries |-> entry'[d]]
  BY <1>1 DEF Leave, TablesTyped
<1>4. TablesTyped' /\ Lasting /\ RowsOK'
  BY <1>2, <1>3, EntriesLeave
<1>5. TypeOK'
  BY <1>1, <1>2, <1>4 DEF TypeOK, TablesTyped, Handler
<1>6. ASSUME NEW c \in Calls PROVE ContextOK(call[c])'
  <2>1. PICK p \in Handler : p = call[c]
    BY <1>1
  <2>2. ContextOK(p)'
    BY <1>1, <1>4, <2>1, ContextSurvives
  <2>3. call'[c] = p
    BY <1>2, <2>1
  <2>4. QED
    BY <2>2, <2>3 DEF ContextOK, Freed
<1>7. QED
  BY <1>4, <1>5, <1>6 DEF IInv

\* The booking that was checked is cancelled, also when it already was.
LEMMA CancelCommitStep ==
  ASSUME IInv, NEW c \in Calls, CancelCommit(c)
  PROVE  IInv'
<1>1. /\ call[c] \in Handler /\ ContextOK(call[c])
      /\ TablesTyped /\ RowsOK /\ broken \in BOOLEAN
  BY TypeParts DEF IInv
<1>2. PICK S : S = call[c].seen
  OBVIOUS
<1>3. /\ S \in SUBSET Bookings /\ S # {}
      /\ \A b \in S : booking[b].status # "NONE" /\ booking[b].slot = call[c].slot
  BY <1>1, <1>2 DEF ContextOK, CancelCommit, Handler
<1>4. UNCHANGED <<checked, entry, offered, broken>>
  BY DEF CancelCommit
<1>5. \A b \in Bookings :
        /\ booking'[b] \in [status : {"NONE", "CONFIRMED", "CANCELLED"},
                            slot : Slots, by : Residents \cup {Nobody}]
        /\ booking'[b].slot = booking[b].slot
        /\ booking'[b].status = IF b \in S THEN "CANCELLED"
                                           ELSE booking[b].status
  <2>1. TAKE b \in Bookings
  <2>2. booking[b] \in [status : {"NONE", "CONFIRMED", "CANCELLED"},
                        slot : Slots, by : Residents \cup {Nobody}]
    BY <1>1 DEF TablesTyped
  <2>3. PICK old : old = booking[b]
    OBVIOUS
  <2>4. CASE b \in S
    <3>1. booking'[b] = [old EXCEPT !.status = "CANCELLED"]
      BY <1>2, <2>3, <2>4 DEF CancelCommit
    <3>2. QED
      BY <2>2, <2>3, <2>4, <3>1
  <2>5. CASE b \notin S
    <3>1. booking'[b] = old
      BY <1>2, <2>3, <2>5 DEF CancelCommit
    <3>2. QED
      BY <2>2, <2>3, <2>5, <3>1
  <2>6. QED
    BY <2>4, <2>5
<1>6. booking' \in [Bookings ->
        [status : {"NONE", "CONFIRMED", "CANCELLED"}, slot : Slots,
         by : Residents \cup {Nobody}]]
  <2>1. booking' = [b \in Bookings |-> booking'[b]]
    BY DEF CancelCommit
  <2>2. QED
    BY <1>5, <2>1
<1>7. TablesTyped'
  BY <1>1, <1>4, <1>6 DEF TablesTyped, Waiting
<1>8. Lasting
  BY <1>4, <1>5 DEF Lasting
<1>9. RowsOK'
  <2>1. \A b \in Bookings : \A a \in checked'[b] :
          booking'[a].status # "NONE" /\ Apart(booking'[a].slot, booking'[b].slot)
    <3>1. ASSUME NEW b \in Bookings, NEW a \in checked[b]
          PROVE  /\ booking'[a].status # "NONE"
                 /\ booking'[a].slot = booking[a].slot
                 /\ Apart(booking[a].slot, booking[b].slot)
      BY <1>1, <1>5 DEF RowsOK, TablesTyped
    <3>2. QED
      BY <1>4, <1>5, <3>1
  <2>2. \A e \in Entries : offered[e] =>
          /\ entry[e].state # "none"
          /\ \E b \in Bookings : /\ booking'[b].status = "CANCELLED"
                                 /\ booking'[b].slot = entry[e].slot
    BY <1>1, <1>5 DEF RowsOK, Freed
  <2>3. QED
    BY <1>1, <1>4, <2>1, <2>2 DEF RowsOK, Freed, NobodyDroppedUnserved
<1>10. PICK q : q = [call[c] EXCEPT !.at = "listing"]
  OBVIOUS
<1>11. q \in Handler /\ q.at = "listing" /\ q.slot = call[c].slot
  BY <1>1, <1>10 DEF Handler
<1>12. ContextOK(q)'
  BY <1>3, <1>5, <1>11 DEF ContextOK, Freed
<1>13. call' = [call EXCEPT ![c] = q]
  BY <1>10 DEF CancelCommit
<1>14. QED
  BY <1>1, <1>4, <1>7, <1>8, <1>9, <1>11, <1>12, <1>13, ContextStep

\* A push to a listed waiter offers a slot that was freed.
LEMMA OfferStep ==
  ASSUME IInv, NEW c \in Calls, Offer(c)
  PROVE  IInv'
<1>1. /\ call[c] \in Handler /\ ContextOK(call[c])
      /\ TablesTyped /\ RowsOK /\ broken \in BOOLEAN
  BY TypeParts DEF IInv
<1>2. PICK e \in call[c].left :
        /\ offered' = [offered EXCEPT ![e] = TRUE]
        /\ call' = [call EXCEPT ![c] = [call[c] EXCEPT !.left = @ \ {e}]]
  BY DEF Offer, Sent, Failed
<1>3. PICK q : q = [call[c] EXCEPT !.left = @ \ {e}]
  OBVIOUS
<1>4. /\ q \in Handler /\ q.at = "offering" /\ q.slot = call[c].slot
      /\ q.waiters = call[c].waiters /\ q.left = call[c].left \ {e}
      /\ q.waiters \in SUBSET Entries /\ q.left \in SUBSET Entries
  BY <1>1, <1>3 DEF Handler, Offer
<1>5. /\ UNCHANGED <<booking, checked, entry, broken>>
      /\ e \in Entries /\ offered'[e] = TRUE
      /\ \A d \in Entries : d # e => offered'[d] = offered[d]
  BY <1>1, <1>2 DEF Offer, TablesTyped, Handler
<1>6. TablesTyped'
  BY <1>1, <1>2, <1>5 DEF TablesTyped, Waiting
<1>7. Lasting
  BY <1>5 DEF Lasting
<1>8. entry[e].state # "none" /\ entry[e].slot = call[c].slot /\ Freed(call[c].slot)
  BY <1>1, <1>2 DEF ContextOK, Offer
<1>9. RowsOK'
  BY <1>1, <1>5, <1>8 DEF RowsOK, Freed, NobodyDroppedUnserved
<1>10. ContextOK(q)'
  BY <1>1, <1>4, <1>5 DEF ContextOK, Freed, Offer
<1>11. QED
  BY <1>1, <1>2, <1>3, <1>4, <1>5, <1>6, <1>7, <1>9, <1>10, ContextStep

\* When no push is left, every listed waiter was offered the slot.
LEMMA ClearListStep ==
  ASSUME IInv, NEW c \in Calls, ClearList(c)
  PROVE  IInv'
<1>1. /\ call[c] \in Handler /\ ContextOK(call[c])
      /\ TablesTyped /\ RowsOK /\ broken \in BOOLEAN
  BY TypeParts DEF IInv
<1>2. PICK S : S = Cleared(c)
  OBVIOUS
<1>3. S \in SUBSET Waiting /\ \A e \in S : offered[e]
  BY <1>1, <1>2 DEF Cleared, ContextOK, ClearList
<1>4. /\ entry' = [e \in Entries |->
           IF e \in S THEN [entry[e] EXCEPT !.state = "cleared"] ELSE entry[e]]
      /\ UNCHANGED <<booking, checked, offered, broken>>
  BY <1>2 DEF ClearList
<1>5. TablesTyped' /\ Lasting /\ RowsOK'
  <2>1. entry' = [e \in Entries |-> entry'[e]]
    BY <1>4
  <2>2. \A e \in Entries : entry'[e] = IF e \in S
                                         THEN [entry[e] EXCEPT !.state = "cleared"]
                                         ELSE entry[e]
    BY <1>4
  <2>3. QED
    BY <1>3, <1>4, <2>1, <2>2, EntriesLeave
<1>6. QED
  BY <1>1, <1>4, <1>5, IdleOK, ContextStep DEF ClearList, Finish

\* A handler that dies leaves its context behind and the tables alone.
LEMMA AbandonStep ==
  ASSUME IInv, NEW c \in Calls, Abandon(c)
  PROVE  IInv'
BY IdleOK, ReadStep DEF Abandon, Finish

\* The invariant is preserved by every step.
LEMMA IInvNext == IInv /\ [Next]_vars => IInv'
<1> SUFFICES ASSUME IInv, [Next]_vars PROVE IInv'
  OBVIOUS
<1>1. ASSUME NEW e \in Entries, Leave(e) PROVE IInv'
  BY <1>1, LeaveStep
<1>2. ASSUME NEW c \in Calls, NEW u \in Residents, NEW slot \in Slots,
             BookCheck(c, u, slot) \/ JoinCheck(c, u, slot)
      PROVE  IInv'
  BY <1>2, BookCheckStep, JoinCheckStep
<1>3. ASSUME NEW c \in Calls, NEW u \in Residents \cup Staff,
             NEW b \in Bookings, CancelCheck(c, u, b)
      PROVE  IInv'
  BY <1>3, CancelCheckStep
<1>4. ASSUME NEW c \in Calls,
             BookInsert(c) \/ JoinInsert(c) \/ CancelCommit(c) \/ Abandon(c)
      PROVE  IInv'
  BY <1>4, BookInsertStep, JoinInsertStep, CancelCommitStep, AbandonStep
<1>5. ASSUME NEW c \in Calls, Serve(c) PROVE IInv'
  BY <1>5, ListWaitersStep, OfferStep, ClearListStep DEF Serve
<1>6. CASE UNCHANGED vars
  BY <1>6 DEF vars, IInv, TypeOK, Waiting, RowsOK, NobodyDroppedUnserved,
              ContextOK, Freed
<1>7. QED
  BY <1>1, <1>2, <1>3, <1>4, <1>5, <1>6 DEF Next

-----------------------------------------------------------------------------
\* The inductive invariant of a resource and its waitlist.
THEOREM Invariant == Spec => []IInv
BY IInvInit, IInvNext, PTL DEF Spec

\* Rows and handlers keep their shape, and the unique index of the waitlist
\* holds, for any number of them.
THEOREM Typed == Spec => []TypeOK
<1>1. IInv => TypeOK
  BY DEF IInv
<1>2. QED
  BY <1>1, Invariant, PTL

\* Two bookings stand for one instant only if neither stood when the other was
\* checked: the race between check and insert is the only way to book twice.
THEOREM DoubleBookingByRace == Spec => []DoubleBookingOnlyByRace
<1>1. ASSUME IInv, NEW a \in Bookings, NEW b \in Bookings, a \in checked[b]
      PROVE  Ticks(booking[a].slot) \cap Ticks(booking[b].slot) = {}
  <2>1. PICK s, t : s = booking[a].slot /\ t = booking[b].slot
    OBVIOUS
  <2>2. s \in Slots /\ t \in Slots
    BY <1>1, <2>1 DEF IInv, TypeOK
  <2>3. s.start \in Nat /\ s.end \in Nat /\ t.start \in Nat /\ t.end \in Nat
    BY <2>2, TimeAssumption
  <2>4. Apart(s, t)
    BY <1>1, <2>1 DEF IInv, RowsOK
  <2>5. QED
    BY <2>1, <2>3, <2>4 DEF Apart, Ticks
<1>2. IInv => DoubleBookingOnlyByRace
  BY <1>1 DEF DoubleBookingOnlyByRace, Confirmed
<1>3. QED
  BY <1>2, Invariant, PTL

\* No waiter is dropped before the push to them was tried.
THEOREM NobodyDropped == Spec => []NobodyDroppedUnserved
<1>1. IInv => NobodyDroppedUnserved
  BY DEF IInv, RowsOK
<1>2. QED
  BY <1>1, Invariant, PTL

\* A slot that is offered was given back.
THEOREM OfferedWasFreed == Spec => []OfferedSlotWasFreed
<1>1. IInv => OfferedSlotWasFreed
  BY DEF IInv, RowsOK, OfferedSlotWasFreed, Freed
<1>2. QED
  BY <1>1, Invariant, PTL

-----------------------------------------------------------------------------
(* The operating hours and the longest duration, which the code compares   *)
(* with quotients and rests of the two instants.                           *)

\* The quotient and the rest of a division.
LEMMA Quotient ==
  ASSUME NEW a \in Nat, NEW b \in Nat \ {0}
  PROVE  /\ a \div b \in Nat /\ a % b \in Nat
         /\ a = (a \div b) * b + (a % b) /\ a % b < b
  BY SMTT(20)

\* A product is cancelled by its second factor.
LEMMA Cancel ==
  ASSUME NEW a \in Int, NEW b \in Int, NEW p \in Nat \ {0}, a * p < b * p
  PROVE  a < b
  BY SMTT(20)

\* What fits n times into a is at most the quotient.
LEMMA QuotientAtLeast ==
  ASSUME NEW a \in Nat, NEW b \in Nat \ {0}, NEW n \in Int, n * b <= a
  PROVE  n <= a \div b
<1>1. PICK q \in Nat : q = a \div b /\ a < (q + 1) * b
  BY Quotient, SMTT(20)
<1>2. n * b < (q + 1) * b
  BY <1>1, SMTT(20)
<1>3. n < q + 1
  BY <1>1, <1>2, Cancel
<1>4. QED
  BY <1>1, <1>3

\* There is one quotient and one rest.
LEMMA QuotientIs ==
  ASSUME NEW a \in Nat, NEW b \in Nat \ {0}, NEW q \in Int,
         q * b <= a, a < (q + 1) * b
  PROVE  a \div b = q /\ a % b = a - q * b
<1>1. PICK k \in Nat, r \in Nat :
        k = a \div b /\ r = a % b /\ a = k * b + r /\ r < b
  BY Quotient
<1>2. q < k + 1
  <2>1. q * b < (k + 1) * b
    BY <1>1, SMTT(20)
  <2>2. QED
    BY <1>1, <2>1, Cancel
<1>3. k < q + 1
  <2>1. k * b < (q + 1) * b
    BY <1>1, SMTT(20)
  <2>2. QED
    BY <1>1, <2>1, Cancel
<1>4. QED
  BY <1>1, <1>2, <1>3

\* The ticks of a day of K minutes.
TicksOfDay(D, K, P) == D = K * P

\* A whole minute m between two instants of one day, at least o minutes into
\* the day and at most c, is a minute of that day and of those hours; P ticks
\* make a minute and K minutes a day.
LEMMA MinuteWithinHours ==
  ASSUME NEW P \in Nat \ {0}, NEW K \in Nat \ {0}, NEW D \in Nat \ {0},
         TicksOfDay(D, K, P),
         NEW s \in Nat, NEW e \in Nat, NEW o \in Nat, NEW c \in Nat,
         s \div D = e \div D, (s % D) \div P >= o, (e % D) \div P <= c,
         NEW m \in Nat, s <= m * P, (m + 1) * P <= e
  PROVE  m \div K = s \div D /\ m % K >= o /\ m % K < c
<1>1. PICK q \in Nat, r \in Nat, t \in Nat :
        /\ q = s \div D /\ r = s % D /\ t = e % D
        /\ s = q * D + r /\ e = q * D + t /\ t < D
  BY Quotient
<1>2. o * P <= r
  <2>1. PICK h \in Nat, x \in Nat : h = r \div P /\ r = h * P + x
    BY Quotient
  <2>2. o <= h
    BY <1>1, <2>1
  <2>3. o * P <= h * P
    BY <2>1, <2>2, SMTT(20)
  <2>4. o * P \in Nat /\ h * P \in Nat
    BY <2>1, SMTT(20)
  <2>5. QED
    BY <2>1, <2>3, <2>4
<1>3. t < (c + 1) * P
  <2>1. PICK h \in Nat, x \in Nat : h = t \div P /\ t = h * P + x /\ x < P
    BY Quotient
  <2>2. h <= c
    BY <1>1, <2>1
  <2>3. QED
    BY <2>1, <2>2, SMTT(20)
<1>4. q * D = (q * K) * P /\ q * K \in Nat
  <2>1. \A x, y, z \in Nat : x * (y * z) = (x * y) * z /\ x * y \in Nat
    BY SMTT(20)
  <2>2. QED
    BY <2>1 DEF TicksOfDay
<1>5. q * K + o < m + 1
  <2>1. (q * K + o) * P < (m + 1) * P
    BY <1>1, <1>2, <1>4, SMTT(20)
  <2>2. QED
    BY <1>4, <2>1, Cancel
<1>6. m + 1 < q * K + c + 1
  <2>1. (m + 1) * P < (q * K + c + 1) * P
    BY <1>1, <1>3, <1>4, SMTT(20)
  <2>2. QED
    BY <1>4, <2>1, Cancel
<1>7. m + 1 < q * K + K + 1
  <2>1. (m + 1) * P < (q * K + K) * P
    BY <1>1, <1>4, SMTT(20) DEF TicksOfDay
  <2>2. QED
    BY <1>4, <2>1, Cancel
<1>8. m \div K = q /\ m % K = m - q * K
  <2>1. q * K <= m
    BY <1>4, <1>5
  <2>2. m < (q + 1) * K
    BY <1>4, <1>7, SMTT(20)
  <2>3. q \in Int /\ K \in Nat \ {0} /\ m \in Nat
    BY <1>1
  <2>4. QED
    BY <2>1, <2>2, <2>3, QuotientIs
<1>9. QED
  BY <1>1, <1>4, <1>5, <1>6, <1>8

\* There are no more whole minutes between two instants than the length in
\* minutes says after rounding.
LEMMA MinutesAreRounded ==
  ASSUME NEW P \in Nat \ {0}, NEW s \in Nat, NEW e \in Nat, s < e
  PROVE  LET minutes == {m \in 0 .. e \div P : s <= m * P /\ (m + 1) * P <= e}
         IN  Cardinality(minutes) <= (2 * (e - s) + P) \div (2 * P)
<1> DEFINE minutes == {m \in 0 .. e \div P : s <= m * P /\ (m + 1) * P <= e}
<1>1. PICK h \in Nat : h = e \div P /\ h * P <= e /\ e < (h + 1) * P
  BY Quotient, SMTT(20)
<1>2. PICK g \in Nat : g * P <= s /\ s < (g + 1) * P
  <2>1. PICK g \in Nat, r \in Nat : s = g * P + r /\ r < P
    BY Quotient
  <2>2. g * P <= s /\ s < (g + 1) * P
    BY <2>1, SMTT(20)
  <2>3. QED
    BY <2>2
<1>3. PICK l \in Nat : l \in {g, g + 1} /\ s <= l * P /\ (l - 1) * P < s
  <2>1. CASE s = g * P
    BY <1>2, <2>1, SMTT(20)
  <2>2. CASE g * P < s
    BY <1>2, <2>2, SMTT(20)
  <2>3. g * P \in Nat
    BY <1>2, SMTT(20)
  <2>4. QED
    BY <1>2, <2>1, <2>2, <2>3
<1>4. minutes \in SUBSET (l .. h - 1)
  <2>1. SUFFICES ASSUME NEW m \in Nat, s <= m * P, (m + 1) * P <= e
                 PROVE  l <= m /\ m <= h - 1
    BY <1>1, Quotient
  <2>2. (l - 1) * P < m * P /\ (m + 1) * P < (h + 1) * P
    BY <1>1, <1>3, <2>1, SMTT(20)
  <2>3. l - 1 < m /\ m + 1 < h + 1
    BY <1>1, <1>3, <2>2, Cancel
  <2>4. QED
    BY <1>1, <1>3, <2>3
<1>5. PICK n \in Nat : n = Cardinality(minutes) /\ (n = 0 \/ n <= h - l)
  <2>1. /\ IsFiniteSet(l .. h - 1)
        /\ Cardinality(l .. h - 1) = IF l > h - 1 THEN 0 ELSE (h - 1) - l + 1
    BY FS_Interval
  <2>2. /\ IsFiniteSet(minutes)
        /\ Cardinality(minutes) <= Cardinality(l .. h - 1)
    BY <1>4, <2>1, FS_Subset
  <2>3. Cardinality(minutes) \in Nat
    BY <2>2, FS_CardinalityType
  <2>4. QED
    <3> HIDE DEF minutes
    <3>1. QED
      BY <2>1, <2>2, <2>3
<1>6. n * (2 * P) <= 2 * (e - s) + P
  <2>1. CASE n = 0
    BY <2>1, SMTT(20)
  <2>2. CASE n <= h - l
    BY <1>1, <1>3, <2>2, SMTT(20)
  <2>3. QED
    BY <1>5, <2>1, <2>2
<1>7. QED
  <2>1. 2 * P \in Nat \ {0} /\ 2 * (e - s) + P \in Nat
    OBVIOUS
  <2>2. QED
    BY <1>5, <1>6, <2>1, QuotientAtLeast

\* Every confirmed booking, and every handler about to insert one, was found
\* to be within the hours and the longest duration.
AllBookable ==
    /\ \A b \in Confirmed : Bookable(booking[b].slot)
    /\ \A c \in Calls : call[c].at = "booking" => Bookable(call[c].slot)

\* AllBookable is kept by every step: a row is never given another slot.
LEMMA AllBookableNext == IInv /\ AllBookable /\ [Next]_vars => AllBookable'
<1> SUFFICES ASSUME IInv, AllBookable, [Next]_vars PROVE AllBookable'
  OBVIOUS
<1> USE DEF AllBookable, Confirmed
<1>1. /\ booking \in [Bookings ->
            [status : {"NONE", "CONFIRMED", "CANCELLED"}, slot : Slots,
             by : Residents \cup {Nobody}]]
      /\ call \in [Calls -> Handler]
  BY TypeParts DEF IInv, TablesTyped
<1>2. ASSUME NEW e \in Entries, Leave(e) PROVE AllBookable'
  BY <1>2 DEF Leave
<1>3. ASSUME NEW c \in Calls, NEW u \in Residents, NEW slot \in Slots,
             BookCheck(c, u, slot)
      PROVE  AllBookable'
  <2>1. call'[c].slot = slot
    BY <1>1, <1>3 DEF BookCheck, Idle
  <2>2. \A d \in Calls : d # c => call'[d] = call[d]
    BY <1>1, <1>3 DEF BookCheck
  <2>3. QED
    BY <1>3, <2>1, <2>2 DEF BookCheck
<1>4. ASSUME NEW c \in Calls, NEW u \in Residents, NEW slot \in Slots,
             JoinCheck(c, u, slot)
      PROVE  AllBookable'
  BY <1>1, <1>4 DEF JoinCheck, Idle
<1>5. ASSUME NEW c \in Calls, NEW u \in Residents \cup Staff,
             NEW b \in Bookings, CancelCheck(c, u, b)
      PROVE  AllBookable'
  BY <1>1, <1>5 DEF CancelCheck, Idle
<1>6. ASSUME NEW c \in Calls, BookInsert(c) PROVE AllBookable'
  <2>1. PICK b \in Bookings :
          booking' = [booking EXCEPT ![b] =
            [NoBooking EXCEPT !.status = "CONFIRMED", !.slot = call[c].slot,
                              !.by = call[c].user]]
    BY <1>6 DEF BookInsert
  <2>2. booking'[b].slot = call[c].slot /\ Bookable(call[c].slot)
    BY <1>1, <1>6, <2>1 DEF BookInsert, NoBooking
  <2>3. \A a \in Bookings : a # b => booking'[a] = booking[a]
    BY <1>1, <2>1
  <2>4. \A d \in Calls : call'[d] = call[d] \/ call'[d].at = "idle"
    BY <1>1, <1>6 DEF BookInsert, Finish, Idle
  <2>5. QED
    BY <2>2, <2>3, <2>4
<1>7. ASSUME NEW c \in Calls, JoinInsert(c) \/ Abandon(c) PROVE AllBookable'
  <2>1. booking' = booking
    BY <1>7 DEF JoinInsert, Abandon
  <2>2. \A d \in Calls : call'[d] = call[d] \/ call'[d].at = "idle"
    BY <1>1, <1>7 DEF JoinInsert, Abandon, Finish, Idle
  <2>3. QED
    BY <2>1, <2>2
<1>8. ASSUME NEW c \in Calls, CancelCommit(c) PROVE AllBookable'
  <2>1. \A b \in Bookings :
          booking'[b] = booking[b] \/ booking'[b].status = "CANCELLED"
    BY <1>1, <1>8 DEF CancelCommit
  <2>2. \A d \in Calls : call'[d] = call[d] \/ call'[d].at = "listing"
    BY <1>1, <1>8 DEF CancelCommit
  <2>3. QED
    BY <2>1, <2>2
<1>9. ASSUME NEW c \in Calls, Serve(c) PROVE AllBookable'
  <2>1. booking' = booking
    BY <1>9 DEF Serve, ListWaiters, Offer, ClearList
  <2>2. \A d \in Calls : call'[d] = call[d] \/ call'[d].at # "booking"
    <3>1. CASE ListWaiters(c)
      BY <1>1, <3>1 DEF ListWaiters, Idle
    <3>2. CASE Offer(c)
      BY <1>1, <3>2 DEF Offer, Sent, Failed
    <3>3. CASE ClearList(c)
      BY <1>1, <3>3 DEF ClearList, Finish, Idle
    <3>4. QED
      BY <1>9, <3>1, <3>2, <3>3 DEF Serve
  <2>3. QED
    BY <2>1, <2>2
<1>10. CASE UNCHANGED vars
  BY <1>10 DEF vars
<1>11. QED
  BY <1>2, <1>3, <1>4, <1>5, <1>6, <1>7, <1>8, <1>9, <1>10 DEF Next

\* Every whole minute of a slot that the checks let through is open, on one
\* day, and there are not too many of them.
LEMMA BookableIsOpen ==
  ASSUME NEW slot \in Slots, Bookable(slot)
  PROVE  LET minutes == WholeMinutes(slot)
             perDay == Day \div PerMinute
         IN  /\ \A m \in minutes : m % perDay >= Opens /\ m % perDay < Closes
             /\ \A m, n \in minutes : m \div perDay = n \div perDay
             /\ Cardinality(minutes) <= MaxDuration
<1>1. /\ slot.start \in Nat /\ slot.end \in Nat /\ slot.start < slot.end
      /\ PerMinute \in Nat \ {0} /\ Day \in Nat \ {0}
      /\ Opens \in Nat /\ Closes \in Nat /\ MaxDuration \in Nat
  BY TimeAssumption DEF Bookable
<1>2. PICK K \in Nat \ {0} : K = Day \div PerMinute /\ Day = K * PerMinute
  <2>1. PICK K \in Nat : /\ K = Day \div PerMinute
                         /\ Day = K * PerMinute + (Day % PerMinute)
    BY <1>1, Quotient
  <2>2. Day = K * PerMinute + 0
    BY <2>1, TimeAssumption
  <2>3. K * PerMinute \in Nat /\ (K = 0 => K * PerMinute = 0)
    BY <1>1, <2>1, SMTT(20)
  <2>4. Day = K * PerMinute /\ K # 0
    BY <1>1, <2>2, <2>3
  <2>5. QED
    BY <2>1, <2>4
<1>3. ASSUME NEW m \in WholeMinutes(slot)
      PROVE  /\ m \div K = slot.start \div Day
             /\ m % K >= Opens /\ m % K < Closes
  <2>1. /\ m \in Nat /\ slot.start <= m * PerMinute
        /\ (m + 1) * PerMinute <= slot.end
    BY <1>1, <1>3, Quotient DEF WholeMinutes
  <2>2. /\ slot.start \div Day = slot.end \div Day
        /\ (slot.start % Day) \div PerMinute >= Opens
        /\ (slot.end % Day) \div PerMinute <= Closes
    BY DEF Bookable, WithinHours, MinuteOfDay
  <2>3. PICK s \in Nat, e \in Nat : s = slot.start /\ e = slot.end
    BY <1>1
  <2>4. /\ s \div Day = e \div Day
        /\ (s % Day) \div PerMinute >= Opens
        /\ (e % Day) \div PerMinute <= Closes
        /\ s <= m * PerMinute /\ (m + 1) * PerMinute <= e
    BY <2>1, <2>2, <2>3
  <2>5. m \div K = s \div Day /\ m % K >= Opens /\ m % K < Closes
    <3>1. /\ PerMinute \in Nat \ {0} /\ Day \in Nat \ {0}
          /\ Opens \in Nat /\ Closes \in Nat /\ m \in Nat
          /\ TicksOfDay(Day, K, PerMinute)
      BY <1>1, <1>2, <2>1 DEF TicksOfDay
    <3>2. QED
      BY <2>4, <3>1, MinuteWithinHours
  <2>6. QED
    BY <2>3, <2>5
<1>4. Cardinality(WholeMinutes(slot)) <= Minutes(slot)
  BY <1>1, MinutesAreRounded DEF WholeMinutes, Minutes
<1>5. Cardinality(WholeMinutes(slot)) <= MaxDuration
  <2>1. /\ WholeMinutes(slot) \in SUBSET (0 .. slot.end \div PerMinute)
        /\ slot.end \div PerMinute \in Int
    BY <1>1, Quotient DEF WholeMinutes
  <2>2. IsFiniteSet(0 .. slot.end \div PerMinute)
    BY <2>1, FS_Interval
  <2>3. Cardinality(WholeMinutes(slot)) \in Nat
    BY <2>1, <2>2, FS_Subset, FS_CardinalityType
  <2>4. Minutes(slot) \in Int /\ Minutes(slot) <= MaxDuration
    <3>1. /\ 2 * (slot.end - slot.start) + PerMinute \in Nat
          /\ 2 * PerMinute \in Nat \ {0}
      BY <1>1
    <3>2. QED
      BY <3>1, Quotient DEF Minutes, Bookable
  <2>5. QED
    BY <1>1, <1>4, <2>3, <2>4
<1>6. QED
  BY <1>2, <1>3, <1>5

\* Every whole minute of every booking lies in the operating hours, on one day,
\* and no booking is longer than allowed, whatever the lengths of a minute and
\* of a day and whatever the hours.
THEOREM BookedMinutesOpen == Spec => []BookedMinutesAreOpen
<1>1. Init => AllBookable
  BY DEF Init, AllBookable, Confirmed, NoBooking, Idle
<1>2. AllBookable /\ IInv => BookedMinutesAreOpen
  <2>1. SUFFICES ASSUME AllBookable, IInv, NEW b \in Confirmed
                 PROVE  /\ booking[b].slot \in Slots
                        /\ Bookable(booking[b].slot)
    BY BookableIsOpen DEF BookedMinutesAreOpen
  <2>2. QED
    BY <2>1 DEF AllBookable, IInv, TypeOK, Confirmed
<1>3. QED
  BY <1>1, <1>2, Invariant, AllBookableNext, PTL DEF Spec
=============================================================================
