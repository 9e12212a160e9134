----------------------- MODULE ServiceRequestsProofs -----------------------
(***************************************************************************)
(* What holds of one service request for any number of employees, handlers *)
(* in flight and writes.                                                   *)
(*                                                                         *)
(* Everything rests on the version: updatedAt only grows, so a copy of the *)
(* row (a card, or what a handler read) with the present version is the    *)
(* present row.  IInv says so of every copy, and says what a waiting       *)
(* change guarantees about the assignee it is going to write.              *)
(***************************************************************************)
EXTENDS ServiceRequests, TLAPS

\* A copy of the row made in the past.
CopyOK(copy) ==
    /\ copy.updatedAt <= row.updatedAt
    /\ copy.updatedAt = row.updatedAt => copy = row

\* Some entry of updateStatus of the history sets this status.
Recorded(status) ==
    \E i \in DOMAIN history : ByUpdate(history[i]) /\ history[i].to = status

\* A handler context q that the code can hold in the present state.
ContextOK(q) ==
    /\ q.at = "updating" =>
         /\ q.by \in Staff
         /\ CopyOK(q.seen)
         /\ q.based = q.seen
         /\ q.status = "ASSIGNED" => q.assignee # Nobody
         /\ q.seen.assignee # Nobody => q.assignee # Nobody
    /\ q.at = "telling" => Recorded(q.status)
    /\ q.at = "rating" => q.by = Creator

HistoryOK ==
    /\ StaffHistoryContinuous
    /\ HistoryNamesAssignee
    /\ ToldIsRecorded

IInv ==
    /\ TypeOK
    /\ AssignedHasAssignee
    /\ HistoryOK
    /\ \A s \in Staff : CopyOK(card[s])
    /\ \A c \in Calls : ContextOK(call[c])

\* What a write does to the row and the history: the version grows, and the
\* history keeps its entries.
Write ==
    /\ row' \in Row /\ row'.updatedAt = Stamp
    /\ \/ history' = history
       \/ \E change \in Change : history' = Append(history, change)

-----------------------------------------------------------------------------
\* The row as filed and the empty context are typed.
LEMMA ConstantsTyped == NewRow \in Row /\ Idle \in Handler
BY StatusAssumption DEF NewRow, Row, Idle, Handler

\* A copy that was right stays right when a write makes a new version.
LEMMA CopySurvives ==
  ASSUME TypeOK, Write, NEW copy \in Row, CopyOK(copy)
  PROVE  CopyOK(copy)'
BY DEF TypeOK, Write, Stamp, CopyOK, Row

\* Entries of the history stay where they are.
LEMMA HistoryGrows ==
  ASSUME TypeOK, NEW change \in Change, history' = Append(history, change)
  PROVE  /\ history' \in Seq(Change)
         /\ Len(history) \in Nat
         /\ DOMAIN history = 1 .. Len(history)
         /\ Len(history') = Len(history) + 1
         /\ DOMAIN history' = 1 .. Len(history) + 1
         /\ \A i \in 1 .. Len(history) : history'[i] = history[i]
         /\ history'[Len(history) + 1] = change
BY DEF TypeOK

\* What is recorded stays recorded.
LEMMA RecordedStays ==
  ASSUME TypeOK, Write, NEW status, Recorded(status)
  PROVE  Recorded(status)'
<1>1. CASE history' = history
  BY <1>1 DEF Recorded
<1>2. ASSUME NEW change \in Change, history' = Append(history, change)
      PROVE  Recorded(status)'
  BY <1>2, HistoryGrows DEF Recorded, ByUpdate
<1>3. QED
  BY <1>1, <1>2 DEF Write

\* What the creator was told stays recorded.
LEMMA ToldStays ==
  ASSUME IInv, Write, UNCHANGED told
  PROVE  ToldIsRecorded'
<1>1. CASE told = Nobody
  BY <1>1 DEF ToldIsRecorded
<1>2. CASE told # Nobody
  <2>1. PICK status \in Statuses : status = told
    BY <1>2 DEF IInv, TypeOK
  <2>2. Recorded(status)'
    BY <1>2, <2>1, RecordedStays DEF IInv, HistoryOK, ToldIsRecorded, Recorded
  <2>3. QED
    BY <2>1, <2>2 DEF ToldIsRecorded, Recorded
<1>3. QED
  BY <1>1, <1>2

\* A waiting context survives the writes of others.
LEMMA ContextSurvives ==
  ASSUME TypeOK, Write, NEW q \in Handler, ContextOK(q)
  PROVE  ContextOK(q)'
<1>1. q.at = "updating" => CopyOK(q.seen)'
  <2>1. PICK copy \in Row : copy = q.seen
    BY DEF Handler
  <2>2. CopyOK(copy) => CopyOK(copy)'
    BY CopySurvives
  <2>3. QED
    BY <2>1, <2>2 DEF ContextOK, CopyOK
<1>2. q.at = "telling" => Recorded(q.status)'
  <2>1. PICK status \in Statuses : status = q.status
    BY DEF Handler
  <2>2. Recorded(status) => Recorded(status)'
    BY RecordedStays
  <2>3. QED
    BY <2>1, <2>2 DEF ContextOK, Recorded
<1>3. QED
  BY <1>1, <1>2 DEF ContextOK

\* A write by call c preserves the invariant if the history it leaves and its
\* own context are in order.
LEMMA WriteStep ==
  ASSUME IInv, Write, NEW c \in Calls, NEW q \in Handler,
         call' = [call EXCEPT ![c] = q], ContextOK(q)',
         AssignedHasAssignee', HistoryOK', UNCHANGED <<card, told>>
  PROVE  IInv'
<1>1. TypeOK'
  <2>1. history' \in Seq(Change)
    BY HistoryGrows DEF Write, IInv, TypeOK
  <2>2. QED
    BY <2>1 DEF IInv, TypeOK, Write
<1>2. \A s \in Staff : CopyOK(card[s])'
  <2> SUFFICES ASSUME NEW s \in Staff PROVE CopyOK(card[s])'
    OBVIOUS
  <2>1. PICK copy \in Row : copy = card[s]
    BY DEF IInv, TypeOK
  <2>2. CopyOK(copy)'
    BY <2>1, CopySurvives DEF IInv
  <2>3. QED
    BY <2>1, <2>2 DEF CopyOK
<1>3. \A d \in Calls : ContextOK(call[d])'
  <2> SUFFICES ASSUME NEW d \in Calls PROVE ContextOK(call[d])'
    OBVIOUS
  <2>1. CASE d = c
    BY <2>1 DEF IInv, TypeOK, ContextOK, CopyOK, Recorded
  <2>2. CASE d # c
    <3>1. PICK p \in Handler : p = call[d]
      BY DEF IInv, TypeOK
    <3>2. call'[d] = p
      BY <2>2, <3>1 DEF IInv, TypeOK
    <3>3. ContextOK(p)'
      BY <3>1, ContextSurvives DEF IInv
    <3>4. QED
      BY <3>2, <3>3 DEF ContextOK, CopyOK, Recorded
  <2>3. QED
    BY <2>1, <2>2
<1>4. QED
  BY <1>1, <1>2, <1>3 DEF IInv

\* A step of call c that writes nothing preserves the invariant.
LEMMA ReadStep ==
  ASSUME IInv, NEW c \in Calls, NEW q \in Handler,
         call' = [call EXCEPT ![c] = q], ContextOK(q),
         UNCHANGED <<row, history, card, told>>
  PROVE  IInv'
<1>1. ContextOK(q)' /\ HistoryOK' /\ AssignedHasAssignee'
  BY DEF IInv, ContextOK, CopyOK, Recorded, HistoryOK, AssignedHasAssignee,
         StaffHistoryContinuous, StatusBefore, HistoryNamesAssignee,
         ToldIsRecorded
<1>2. \A d \in Calls : ContextOK(call[d])'
  BY <1>1 DEF IInv, TypeOK, ContextOK, CopyOK, Recorded
<1>3. QED
  BY <1>1, <1>2 DEF IInv, TypeOK, CopyOK

\* A handler that is done leaves the invariant alone.
LEMMA FinishStep ==
  ASSUME IInv, NEW c \in Calls, Finish(c),
         UNCHANGED <<row, history, card, told>>
  PROVE  IInv'
<1>1. Idle \in Handler /\ ContextOK(Idle)
  BY ConstantsTyped DEF ContextOK, Idle
<1>2. QED
  BY <1>1, ReadStep DEF Finish

-----------------------------------------------------------------------------
\* The request as filed has no history and no copies but itself.
LEMMA IInvInit == Init => IInv
<1> SUFFICES ASSUME Init PROVE IInv
  OBVIOUS
<1>1. TypeOK
  BY ConstantsTyped DEF Init, TypeOK
<1>2. AssignedHasAssignee
  BY DEF Init, NewRow, AssignedHasAssignee
<1>3. HistoryOK
  BY DEF Init, NewRow, HistoryOK, StaffHistoryContinuous, StatusBefore,
         HistoryNamesAssignee, ToldIsRecorded
<1>4. \A s \in Staff : CopyOK(card[s])
  <2>1. ASSUME NEW s \in Staff PROVE card[s] = row /\ row.updatedAt = 0
    BY DEF Init, NewRow
  <2> SUFFICES ASSUME NEW s \in Staff PROVE CopyOK(card[s])
    OBVIOUS
  <2>2. card[s].updatedAt = 0 /\ row.updatedAt = 0 /\ card[s] = row
    BY <2>1
  <2>3. QED
    BY <2>2 DEF CopyOK
<1>5. \A c \in Calls : ContextOK(call[c])
  BY DEF Init, ContextOK, Idle
<1>6. QED
  BY <1>1, <1>2, <1>3, <1>4, <1>5 DEF IInv

\* Opening a card copies the present row.
LEMMA OpenCardStep ==
  ASSUME IInv, NEW s \in Staff, OpenCard(s)
  PROVE  IInv'
<1>1. TypeOK'
  BY DEF OpenCard, IInv, TypeOK
<1>2. \A t \in Staff : CopyOK(card[t])'
  BY DEF OpenCard, IInv, TypeOK, CopyOK, Row
<1>3. ASSUME NEW c \in Calls PROVE ContextOK(call[c])'
  BY DEF OpenCard, IInv, ContextOK, CopyOK, Recorded
<1>4. HistoryOK' /\ AssignedHasAssignee'
  BY DEF OpenCard, IInv, HistoryOK, AssignedHasAssignee,
         StaffHistoryContinuous, StatusBefore, HistoryNamesAssignee,
         ToldIsRecorded
<1>5. QED
  BY <1>1, <1>2, <1>3, <1>4 DEF IInv

\* The read of updateStatus: the change is based on the row just read, also
\* when it comes from a card of the same version.
LEMMA UpdateReadStep ==
  ASSUME IInv, NEW c \in Calls, NEW s \in Staff, NEW status \in Statuses,
         NEW assignee \in NextAssignees, UpdateRead(c, s, status, assignee, row)
  PROVE  IInv'
<1> DEFINE q == [at |-> "updating", by |-> s, status |-> status,
                 assignee |-> assignee, seen |-> row, based |-> row]
<1>1. row \in Row /\ assignee \in Assignable \cup {Nobody}
  BY DEF IInv, TypeOK, NextAssignees, Row
<1>2. q \in Handler
  BY <1>1 DEF Handler
<1>3. ContextOK(q)
  BY <1>1, PeopleAssumption
  DEF UpdateRead, Acceptable, ContextOK, CopyOK, NextAssignees, Row
<1>4. QED
  BY <1>2, <1>3, ReadStep DEF UpdateRead

\* A card of the present version is the present row.
LEMMA WebUpdateStep ==
  ASSUME IInv, NEW c \in Calls, NEW s \in Staff, WebUpdate(c, s)
  PROVE  IInv'
<1>1. card[s] = row
  BY DEF WebUpdate, IInv, CopyOK
<1>2. QED
  BY <1>1, UpdateReadStep DEF WebUpdate

\* Without a version the change is based on the row read.
LEMMA MobileUpdateStep ==
  ASSUME IInv, NEW c \in Calls, NEW s \in Staff, MobileUpdate(c, s)
  PROVE  IInv'
BY UpdateReadStep DEF MobileUpdate

\* The transaction of updateStatus writes on the row it read.
LEMMA UpdateSees ==
  ASSUME IInv, NEW c \in Calls, UpdateCommit(c)
  PROVE  row = call[c].seen /\ row = call[c].based
BY DEF IInv, UpdateCommit, Unchanged, ContextOK, CopyOK

\* That transaction writes an assignee for an assigned row and adds the entry
\* that continues the history.
LEMMA UpdateCommitStep ==
  ASSUME IInv, NEW c \in Calls, UpdateCommit(c)
  PROVE  IInv'
<1> DEFINE change == [by |-> call[c].by, via |-> "update",
                      from |-> call[c].seen.status, to |-> call[c].status,
                      fromAssignee |-> call[c].seen.assignee,
                      toAssignee |-> call[c].assignee]
<1>1. row = call[c].seen
  BY UpdateSees
<1>2. /\ call[c] \in Handler /\ row \in Row
      /\ call[c].by \in Staff
      /\ call[c].status = "ASSIGNED" => call[c].assignee # Nobody
  BY DEF UpdateCommit, IInv, TypeOK, ContextOK
<1>3. change \in Change
  BY <1>1, <1>2 DEF Handler, Row, Change
<1>4. /\ row'.status = call[c].status
      /\ row'.assignee = call[c].assignee
      /\ row'.updatedAt = Stamp
      /\ row' \in Row
  <2>1. /\ row'.status = call[c].status
        /\ row'.assignee = call[c].assignee
        /\ row'.updatedAt = Stamp
    BY <1>2 DEF UpdateCommit, Row
  <2>2. Stamp \in Nat
    BY <1>2 DEF Row, Stamp
  <2>3. row' \in Row
    BY <1>2, <2>2 DEF UpdateCommit, Handler, Row
  <2>4. QED
    BY <2>1, <2>3
<1>5. history' = Append(history, change)
  BY DEF UpdateCommit
<1>6. Write
  BY <1>3, <1>4, <1>5 DEF Write
<1>7. PICK n \in Nat :
      /\ Len(history) = n /\ DOMAIN history = 1 .. n
      /\ Len(history') = n + 1 /\ DOMAIN history' = 1 .. n + 1
      /\ \A i \in 1 .. n : history'[i] = history[i]
      /\ history'[n + 1] = change
  BY <1>3, <1>5, HistoryGrows DEF IInv
<1>8. ByUpdate(history'[n + 1]) /\ history'[n + 1].to = call[c].status
  BY <1>7 DEF ByUpdate
<1> HIDE DEF change
<1>9. StaffHistoryContinuous'
  <2>1. \A i \in 1 .. n + 1 : StatusBefore(i)' = StatusBefore(i)
    BY <1>7 DEF StatusBefore
  <2>2. \A i \in 1 .. n :
          ByUpdate(history'[i]) => history'[i].from \in {StatusBefore(i)', "CLOSED"}
    BY <1>7, <2>1 DEF IInv, HistoryOK, StaffHistoryContinuous
  <2>3. history'[n + 1].from \in {StatusBefore(n + 1)', "CLOSED"}
    <3>1. row.status \in {StatusBefore(n + 1), "CLOSED"}
      BY <1>7 DEF IInv, HistoryOK, StaffHistoryContinuous
    <3>2. history'[n + 1].from = row.status
      BY <1>1, <1>7 DEF change
    <3>3. StatusBefore(n + 1)' = StatusBefore(n + 1)
      BY <1>7, <2>1
    <3>4. QED
      BY <3>1, <3>2, <3>3
  <2>4. row'.status = StatusBefore(n + 2)'
    <3>1. n + 2 # 1 /\ (n + 2) - 1 = n + 1
      BY <1>7
    <3>2. QED
      BY <1>4, <1>8, <3>1 DEF StatusBefore
  <2>5. QED
    <3>1. Len(history') + 1 = n + 2
      BY <1>7
    <3>2. \A i \in 1 .. n + 1 :
            ByUpdate(history'[i]) =>
              history'[i].from \in {StatusBefore(i)', "CLOSED"}
      BY <1>7, <2>2, <2>3
    <3>3. QED
      BY <1>7, <2>4, <3>1, <3>2 DEF StaffHistoryContinuous, ByUpdate
<1>10. HistoryNamesAssignee'
  <2>1. row'.assignee = history'[n + 1].toAssignee
    BY <1>4, <1>7 DEF change
  <2>2. QED
    BY <1>7, <1>8, <2>1 DEF HistoryNamesAssignee
<1>11. ToldIsRecorded'
  BY <1>6, ToldStays DEF UpdateCommit
<1>12. AssignedHasAssignee'
  BY <1>2, <1>4 DEF AssignedHasAssignee
<1>13. PICK q \in Handler : q = [call[c] EXCEPT !.at = "telling"]
  <2>1. [call[c] EXCEPT !.at = "telling"] \in Handler
    BY <1>2 DEF Handler
  <2>2. QED
    BY <2>1
<1>14. call' = [call EXCEPT ![c] = q] /\ q.at = "telling"
       /\ q.status = call[c].status
  BY <1>2, <1>13 DEF UpdateCommit, IInv, TypeOK, Handler
<1>15. ContextOK(q)'
  BY <1>7, <1>8, <1>14 DEF ContextOK, Recorded
<1>16. QED
  BY <1>6, <1>9, <1>10, <1>11, <1>12, <1>14, <1>15, WriteStep
  DEF HistoryOK, UpdateCommit

\* The transaction of rateRequest closes the row, whatever it is now, and
\* leaves its assignee; its entry, if any, is marked a rating's.
LEMMA RateCommitStep ==
  ASSUME IInv, NEW c \in Calls, RateCommit(c)
  PROVE  IInv'
<1> DEFINE change == [by |-> Creator, via |-> "rating",
                      from |-> call[c].seen.status, to |-> "CLOSED",
                      fromAssignee |-> call[c].seen.assignee,
                      toAssignee |-> call[c].seen.assignee]
<1>1. call[c].seen \in Row /\ row \in Row
  BY DEF IInv, TypeOK, Handler
<1>2. change \in Change /\ ~ByUpdate(change)
  BY <1>1, StatusAssumption DEF Row, Change, ByUpdate
<1>3. /\ row'.status = "CLOSED" /\ row'.assignee = row.assignee
      /\ row'.updatedAt = Stamp /\ row' \in Row
  <2>1. Stamp \in Nat
    BY <1>1 DEF Row, Stamp
  <2>2. row' = [row EXCEPT !.status = "CLOSED", !.updatedAt = Stamp]
    BY DEF RateCommit, RatedRow
  <2>3. QED
    BY <1>1, <2>1, <2>2, StatusAssumption DEF Row
<1>4. history' = history \/ history' = Append(history, change)
  BY DEF RateCommit
<1> HIDE DEF change
<1>5. Write
  BY <1>2, <1>3, <1>4 DEF Write
<1>6. AssignedHasAssignee'
  BY <1>3 DEF AssignedHasAssignee
<1>7. UNCHANGED told
  BY DEF RateCommit
<1>8. ASSUME history' = history PROVE HistoryOK'
  <2>1. StaffHistoryContinuous'
    BY <1>3, <1>8 DEF IInv, HistoryOK, StaffHistoryContinuous, StatusBefore
  <2>2. HistoryNamesAssignee'
    BY <1>3, <1>8 DEF IInv, HistoryOK, HistoryNamesAssignee
  <2>3. QED
    BY <1>5, <1>7, <2>1, <2>2, ToldStays DEF HistoryOK
<1>9. ASSUME history' = Append(history, change) PROVE HistoryOK'
  <2>1. PICK n \in Nat :
        /\ Len(history) = n /\ DOMAIN history = 1 .. n
        /\ Len(history') = n + 1 /\ DOMAIN history' = 1 .. n + 1
        /\ \A i \in 1 .. n : history'[i] = history[i]
        /\ history'[n + 1] = change
    BY <1>2, <1>9, HistoryGrows DEF IInv
  <2>2. ~ByUpdate(history'[n + 1])
    BY <1>2, <2>1
  <2>3. \A i \in 1 .. n : StatusBefore(i)' = StatusBefore(i)
    BY <2>1 DEF StatusBefore
  <2>4. StaffHistoryContinuous'
    BY <1>3, <2>1, <2>2, <2>3 DEF IInv, HistoryOK, StaffHistoryContinuous
  <2>5. HistoryNamesAssignee'
    <3>1. CASE row.assignee = Nobody /\ \A i \in DOMAIN history : ~ByUpdate(history[i])
      BY <1>3, <2>1, <2>2, <3>1 DEF HistoryNamesAssignee
    <3>2. CASE \E i \in DOMAIN history :
                 /\ ByUpdate(history[i])
                 /\ row.assignee = history[i].toAssignee
                 /\ \A j \in DOMAIN history : ByUpdate(history[j]) => j <= i
      <4>1. PICK i \in 1 .. n :
              /\ ByUpdate(history[i])
              /\ row.assignee = history[i].toAssignee
              /\ \A j \in 1 .. n : ByUpdate(history[j]) => j <= i
        BY <2>1, <3>2
      <4>2. /\ i \in DOMAIN history'
            /\ ByUpdate(history'[i])
            /\ row'.assignee = history'[i].toAssignee
            /\ \A j \in DOMAIN history' : ByUpdate(history'[j]) => j <= i
        BY <1>3, <2>1, <2>2, <4>1
      <4>3. QED
        BY <4>2 DEF HistoryNamesAssignee
    <3>3. QED
      BY <3>1, <3>2 DEF IInv, HistoryOK, HistoryNamesAssignee
  <2>6. QED
    BY <1>5, <1>7, <2>4, <2>5, ToldStays DEF HistoryOK
<1>10. ContextOK(Idle)' /\ Idle \in Handler
  BY ConstantsTyped DEF ContextOK, Idle
<1>11. QED
  BY <1>4, <1>5, <1>6, <1>8, <1>9, <1>10, WriteStep DEF RateCommit, Finish

\* The push to the creator says what the change of this call recorded.
LEMMA TellCreatorStep ==
  ASSUME IInv, NEW c \in Calls, TellCreator(c)
  PROVE  IInv'
<1>1. Recorded(call[c].status) /\ call[c].status \in Statuses
  BY DEF TellCreator, IInv, TypeOK, ContextOK, Handler
<1>2. TypeOK'
  BY <1>1, ConstantsTyped DEF TellCreator, Finish, IInv, TypeOK
<1>3. HistoryOK' /\ AssignedHasAssignee'
  BY <1>1
  DEF TellCreator, IInv, HistoryOK, AssignedHasAssignee,
      StaffHistoryContinuous, StatusBefore, HistoryNamesAssignee,
      ToldIsRecorded, Recorded
<1>4. ASSUME NEW d \in Calls PROVE ContextOK(call[d])'
  BY DEF TellCreator, Finish, Idle, IInv, TypeOK, ContextOK, CopyOK, Recorded
<1>5. QED
  BY <1>2, <1>3, <1>4 DEF TellCreator, IInv, CopyOK

-----------------------------------------------------------------------------
\* Every step preserves the invariant.
LEMMA IInvNext == IInv /\ [Next]_vars => IInv'
<1> SUFFICES ASSUME IInv, [Next]_vars PROVE IInv'
  OBVIOUS
<1>1. ASSUME NEW c \in Calls, RateRead(c) PROVE IInv'
  <2> DEFINE q == [Idle EXCEPT !.at = "rating", !.by = Creator, !.seen = row]
  <2>1. q \in Handler
    BY ConstantsTyped DEF Handler, IInv, TypeOK
  <2>2. ContextOK(q)
    BY DEF ContextOK, Idle
  <2>3. QED
    BY <1>1, <2>1, <2>2, ReadStep DEF RateRead
<1>2. ASSUME NEW c \in Calls, UpdateConflict(c) \/ Abandon(c) PROVE IInv'
  BY <1>2, FinishStep DEF UpdateConflict, Abandon
<1>3. CASE UNCHANGED vars
  <2>1. HistoryOK' /\ AssignedHasAssignee'
    BY <1>3
    DEF vars, IInv, HistoryOK, AssignedHasAssignee, StaffHistoryContinuous,
        StatusBefore, HistoryNamesAssignee, ToldIsRecorded
  <2>2. QED
    BY <1>3, <2>1 DEF vars, IInv, TypeOK, CopyOK, ContextOK, Recorded
<1>4. QED
  BY <1>1, <1>2, <1>3, OpenCardStep, WebUpdateStep, MobileUpdateStep,
     UpdateCommitStep, TellCreatorStep, RateCommitStep
  DEF Next

\* The inductive invariant, on which the theorems below rest.
THEOREM Invariant == Spec => []IInv
BY IInvInit, IInvNext, PTL DEF Spec

\* The row, its history, the cards and the handlers are typed in every
\* reachable state.
THEOREM Typed == Spec => []TypeOK
BY Invariant, PTL DEF IInv

\* An ASSIGNED request has a responsible employee, though the assignee of a
\* change may come from a row read long before its transaction.
THEOREM Assigned == Spec => []AssignedHasAssignee
BY Invariant, PTL DEF IInv

\* The entries of updateStatus follow what was recorded before them without a
\* gap, and the row is where the last entry left it, or CLOSED by a rating,
\* whoever filed the request and rates it.
THEOREM HistoryContinuous == Spec => []StaffHistoryContinuous
BY Invariant, PTL DEF IInv, HistoryOK

\* The employee that the last entry of updateStatus names is responsible now.
THEOREM HistoryNames == Spec => []HistoryNamesAssignee
BY Invariant, PTL DEF IInv, HistoryOK

\* The creator is only told a status that a committed change of updateStatus
\* gave.
THEOREM ToldRecorded == Spec => []ToldIsRecorded
BY Invariant, PTL DEF IInv, HistoryOK

\* The optimistic lock on updatedAt: no change of an employee overwrites a
\* status or an assignee it was not based on (lines 241 and 265).
THEOREM NoLostChange == Spec => NoBlindOverwrite
<1> DEFINE Based(c) ==
      call[c].at = "updating" /\ call'[c].at = "telling" =>
          /\ row.status = call[c].based.status
          /\ row.assignee = call[c].based.assignee
<1>1. ASSUME IInv, [Next]_vars, NEW c \in Calls PROVE Based(c)
  <2> SUFFICES ASSUME call[c].at = "updating", call'[c].at = "telling"
               PROVE  UpdateCommit(c)
    BY <1>1, UpdateSees
  <2>1. ASSUME NEW d \in Calls, NEW q, call' = [call EXCEPT ![d] = q],
               q.at # "telling"
        PROVE  FALSE
    BY <1>1, <2>1 DEF IInv, TypeOK
  <2>2. ASSUME NEW d \in Calls, Finish(d) PROVE FALSE
    BY <2>1, <2>2 DEF Finish, Idle
  <2>3. ASSUME NEW d \in Calls, NEW s \in Staff,
               WebUpdate(d, s) \/ MobileUpdate(d, s)
        PROVE  FALSE
    BY <2>1, <2>3 DEF WebUpdate, MobileUpdate, UpdateRead
  <2>4. ASSUME NEW d \in Calls, RateRead(d) PROVE FALSE
    BY <2>1, <2>4 DEF RateRead, Idle
  <2>5. ASSUME NEW d \in Calls, UpdateCommit(d) PROVE UpdateCommit(c)
    BY <1>1, <2>5 DEF UpdateCommit, IInv, TypeOK
  <2>6. ~UNCHANGED call
    OBVIOUS
  <2>7. QED
    BY <1>1, <2>2, <2>3, <2>4, <2>5, <2>6
    DEF Next, vars, OpenCard, UpdateConflict, TellCreator, RateCommit, Abandon
<1>2. IInv /\ [Next]_vars => [\A c \in Calls : Based(c)]_vars
  BY <1>1
<1>3. QED
  BY <1>2, Invariant, PTL DEF Spec, NoBlindOverwrite

\* A request that got a responsible employee keeps one.
THEOREM AssigneeStays == Spec => AssigneeSticks
<1> DEFINE Sticks == row.assignee # Nobody => row'.assignee # Nobody
<1>1. ASSUME IInv, [Next]_vars PROVE Sticks
  <2>1. ASSUME NEW c \in Calls, UpdateCommit(c) PROVE Sticks
    <3>1. row = call[c].seen
      BY <1>1, <2>1, UpdateSees
    <3>2. row'.assignee = call[c].assignee
      BY <1>1, <2>1 DEF UpdateCommit, IInv, TypeOK, Row
    <3>3. call[c].seen.assignee # Nobody => call[c].assignee # Nobody
      BY <1>1, <2>1 DEF UpdateCommit, IInv, ContextOK
    <3>4. QED
      BY <3>1, <3>2, <3>3
  <2>2. ASSUME NEW c \in Calls, RateCommit(c) PROVE Sticks
    BY <1>1, <2>2 DEF RateCommit, RatedRow, IInv, TypeOK, Row
  <2>3. UNCHANGED row => Sticks
    OBVIOUS
  <2>4. QED
    BY <1>1, <2>1, <2>2, <2>3
    DEF Next, vars, OpenCard, WebUpdate, MobileUpdate, UpdateRead,
        UpdateConflict, TellCreator, RateRead, Abandon
<1>2. IInv /\ [Next]_vars => [Sticks]_vars
  BY <1>1
<1>3. QED
  BY <1>2, Invariant, PTL DEF Spec, AssigneeSticks
=============================================================================
