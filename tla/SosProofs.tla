----------------------------- MODULE SosProofs -----------------------------
(***************************************************************************)
(* What holds of the SOS service, and of the page that follows it, for any *)
(* number of residents, employees, alerts, handlers in flight and events   *)
(* under way.                                                              *)
(*                                                                         *)
(* The safety properties of the service are not inductive: what a commit   *)
(* writes comes from the context of its handler.  IInv adds what a context *)
(* guarantees while it waits: who may act, and, once it saw an employee    *)
(* responsible, that the row still names that employee and that instant.   *)
(*                                                                         *)
(* Of the page: every copy of a row, wherever it is (in a handler about to *)
(* emit, in the channel, in an answer, on the board), was the row once.    *)
(* Behind says what a past row still tells of the present one, and no step *)
(* of the service ends it; so the page may mix copies of any age in any    *)
(* order.                                                                  *)
(***************************************************************************)
EXTENDS SosBoard, TLAPS

\* A handler context q that the code can hold in the present state.
ContextOK(q) ==
    /\ q.at = "creating" => q.user \in Residents
    /\ q.at \in {"accepting", "resolving"} =>
         /\ q.row \in Alerts
         /\ q.user \in Processors
    /\ q.at = "resolving" =>
         /\ q.seen.acceptedBy \in {Nobody, q.user}
         /\ q.seen.acceptedBy = Nobody <=> q.seen.acceptedAt = "never"
         /\ q.seen.acceptedBy # Nobody =>
              /\ alert[q.row].acceptedBy = q.seen.acceptedBy
              /\ alert[q.row].acceptedAt = q.seen.acceptedAt

\* A row that agrees with itself.
RowOK(row) ==
    /\ row.acceptedBy \in Processors \cup {Nobody}
    /\ row.acceptedBy = Nobody <=> row.acceptedAt = "never"
    /\ row.status = "UNBORN" => row = Unborn
    /\ row.status \in Outcome => /\ row.resolvedBy = row.acceptedBy
                                 /\ row.resolvedBy \in Processors

\* The journal and the audit log agree with the row.
RecordsOK(a) ==
    /\ handover[a] = IF Closed(a)
                       THEN <<[author |-> alert[a].resolvedBy,
                               outcome |-> alert[a].status]>>
                       ELSE <<>>
    /\ audit[a] = Story(alert[a])

IInv ==
    /\ TypeOK
    /\ \A a \in Alerts : RowOK(alert[a]) /\ RecordsOK(a)
    /\ \A r \in Requests : ContextOK(request[r])

\* What no step may do to the employee responsible.
TakersStay ==
    \A a \in Alerts :
        alert[a].acceptedBy # Nobody =>
            /\ alert'[a].acceptedBy = alert[a].acceptedBy
            /\ alert'[a].acceptedAt = alert[a].acceptedAt

-----------------------------------------------------------------------------
\* Adding a record about one alert keeps the records of all typed.
LEMMA AppendTyped ==
  ASSUME NEW S, NEW f \in [Alerts -> Seq(S)], NEW a \in Alerts, NEW x \in S
  PROVE  [f EXCEPT ![a] = Append(@, x)] \in [Alerts -> Seq(S)]
<1>1. Append(f[a], x) \in Seq(S)
  OBVIOUS
<1>2. QED
  BY <1>1

\* The rows and contexts that the handlers start from are typed.
LEMMA ConstantsTyped == Unborn \in AlertRow /\ Idle \in Handler
BY DEF Unborn, Idle, AlertRow, Handler, Place, Outcome

\* A waiting context survives every step that leaves the takers alone.
LEMMA ContextSurvives ==
  ASSUME TypeOK, NEW q \in Handler, ContextOK(q), TakersStay
  PROVE  ContextOK(q)'
BY PeopleAssumption DEF ContextOK, TakersStay, TypeOK, Handler, AlertRow

\* A step of handler r that leaves the takers alone and keeps the rows and
\* records in order preserves the invariant if its own context is in order.
LEMMA ContextStep ==
  ASSUME IInv, NEW r \in Requests, NEW q \in Handler,
         request' = [request EXCEPT ![r] = q],
         ContextOK(q)', TakersStay,
         alert' \in [Alerts -> AlertRow],
         handover' \in [Alerts -> Seq(Note)],
         audit' \in [Alerts -> Seq(AuditRow)],
         \A a \in Alerts : RowOK(alert'[a]) /\ RecordsOK(a)'
  PROVE  IInv'
<1>1. TypeOK'
  BY DEF IInv, TypeOK
<1>2. \A s \in Requests : ContextOK(request[s])'
  <2> SUFFICES ASSUME NEW s \in Requests PROVE ContextOK(request[s])'
    OBVIOUS
  <2>1. CASE s = r
    BY <2>1 DEF IInv, TypeOK, ContextOK
  <2>2. CASE s # r
    <3>1. request'[s] = request[s] /\ request[s] \in Handler
      BY <2>2 DEF IInv, TypeOK
    <3>2. PICK p \in Handler : p = request[s]
      BY <3>1
    <3>3. ContextOK(p)'
      BY <3>2, ContextSurvives DEF IInv
    <3>4. QED
      BY <3>1, <3>2, <3>3 DEF ContextOK
  <2>3. QED
    BY <2>1, <2>2
<1>3. QED
  BY <1>1, <1>2 DEF IInv, RowOK

\* A step of handler r that writes nothing preserves the invariant.
LEMMA ReadStep ==
  ASSUME IInv, NEW r \in Requests, NEW q \in Handler,
         request' = [request EXCEPT ![r] = q],
         ContextOK(q), UNCHANGED <<alert, handover, audit>>
  PROVE  IInv'
<1>1. TakersStay
  BY DEF TakersStay
<1>2. ContextOK(q)'
  BY DEF ContextOK
<1>3. \A a \in Alerts : RowOK(alert'[a]) /\ RecordsOK(a)'
  BY DEF IInv, RecordsOK, Closed
<1>4. QED
  BY <1>1, <1>2, <1>3, ContextStep DEF IInv, TypeOK

\* A handler that is done leaves the invariant alone.
LEMMA FinishStep ==
  ASSUME IInv, NEW r \in Requests, Finish(r),
         UNCHANGED <<alert, handover, audit>>
  PROVE  IInv'
<1>1. Idle \in Handler /\ ContextOK(Idle)
  BY ConstantsTyped DEF ContextOK, Idle
<1>2. QED
  BY <1>1, ReadStep DEF Finish

-----------------------------------------------------------------------------
\* Initially nothing is raised, written or under way.
LEMMA IInvInit == Init => IInv
<1> SUFFICES ASSUME Init PROVE IInv
  OBVIOUS
<1>1. TypeOK
  BY ConstantsTyped DEF Init, TypeOK
<1>2. ASSUME NEW a \in Alerts PROVE RowOK(alert[a]) /\ RecordsOK(a)
  BY DEF Init, RowOK, RecordsOK, Closed, Story, Unborn, Outcome
<1>3. ASSUME NEW r \in Requests PROVE ContextOK(request[r])
  BY DEF Init, ContextOK, Idle
<1>4. QED
  BY <1>1, <1>2, <1>3 DEF IInv

\* trigger, up to its INSERT.
LEMMA TriggerLookupStep ==
  ASSUME IInv, NEW r \in Requests, NEW u \in Residents, TriggerLookup(r, u)
  PROVE  IInv'
<1>1. CASE \E a \in Alerts :
             request' = [request EXCEPT ![r] =
               [Idle EXCEPT !.at = "announcing", !.user = u,
                            !.row = a, !.seen = alert[a]]]
  <2>1. PICK a \in Alerts :
          request' = [request EXCEPT ![r] =
            [Idle EXCEPT !.at = "announcing", !.user = u,
                         !.row = a, !.seen = alert[a]]]
    BY <1>1
  <2> DEFINE q == [Idle EXCEPT !.at = "announcing", !.user = u,
                               !.row = a, !.seen = alert[a]]
  <2>2. q \in Handler /\ ContextOK(q)
    BY ConstantsTyped DEF Handler, Place, ContextOK, IInv, TypeOK
  <2>3. QED
    BY <1>1, <2>1, <2>2, ReadStep DEF TriggerLookup
<1>2. CASE request' = [request EXCEPT ![r] =
             [Idle EXCEPT !.at = "creating", !.user = u]]
  <2> DEFINE q == [Idle EXCEPT !.at = "creating", !.user = u]
  <2>1. q \in Handler /\ ContextOK(q)
    BY ConstantsTyped DEF Handler, Place, ContextOK
  <2>2. QED
    BY <1>2, <2>1, ReadStep DEF TriggerLookup
<1>3. QED
  BY <1>1, <1>2 DEF TriggerLookup

\* The INSERT of trigger: a new row has no taker and no records.
LEMMA TriggerCreateStep ==
  ASSUME IInv, NEW r \in Requests, TriggerCreate(r)
  PROVE  IInv'
<1> DEFINE new == [Unborn EXCEPT !.status = "ACTIVE",
                                 !.triggeredBy = request[r].user]
<1>1. /\ new \in AlertRow
      /\ RowOK(new)
      /\ new.status = "ACTIVE" /\ new.acceptedAt = "never"
  BY DEF TriggerCreate, IInv, ContextOK, Unborn, AlertRow, RowOK, Outcome
<1>2. PICK a \in Alerts :
        /\ alert[a].status = "UNBORN"
        /\ alert' = [alert EXCEPT ![a] = new]
        /\ request' = [request EXCEPT ![r].at = "announcing",
                                      ![r].row = a, ![r].seen = new]
  BY DEF TriggerCreate
<1> HIDE DEF new
<1>3. PICK q \in Handler :
        q = [request[r] EXCEPT !.at = "announcing", !.row = a, !.seen = new]
  <2>1. [request[r] EXCEPT !.at = "announcing", !.row = a, !.seen = new]
          \in Handler
    BY <1>1 DEF Handler, Place, IInv, TypeOK
  <2>2. QED
    BY <2>1
<1>4. request' = [request EXCEPT ![r] = q] /\ q.at = "announcing"
  BY <1>2, <1>3 DEF IInv, TypeOK, Handler
<1>5. TakersStay
  BY <1>2 DEF TakersStay, IInv, TypeOK, RowOK, Unborn
<1>6. ASSUME NEW b \in Alerts PROVE RowOK(alert'[b]) /\ RecordsOK(b)'
  <2>1. CASE b = a
    <3>1. alert'[b] = new
      BY <1>2, <2>1 DEF IInv, TypeOK
    <3>2. handover[b] = <<>> /\ audit[b] = <<>>
      <4>1. RecordsOK(b) /\ alert[b] = Unborn
        BY <1>2, <2>1 DEF IInv, RowOK
      <4>2. ~Closed(b) /\ Story(alert[b]) = <<>>
        BY <4>1 DEF Closed, Story, Unborn, Outcome
      <4>3. QED
        BY <4>1, <4>2 DEF RecordsOK
    <3>3. ~(new.status \in Outcome)
      BY <1>1 DEF Outcome
    <3>4. QED
      BY <1>1, <3>1, <3>2, <3>3 DEF TriggerCreate, RecordsOK, Closed, Story
  <2>2. CASE b # a
    BY <1>2, <2>2 DEF TriggerCreate, IInv, TypeOK, RecordsOK, Closed
  <2>3. QED
    BY <2>1, <2>2
<1>7. /\ alert' \in [Alerts -> AlertRow]
      /\ handover' \in [Alerts -> Seq(Note)]
      /\ audit' \in [Alerts -> Seq(AuditRow)]
  BY <1>1, <1>2 DEF TriggerCreate, IInv, TypeOK
<1>8. ContextOK(q)'
  BY <1>4 DEF ContextOK
<1>9. QED
  BY <1>3, <1>4, <1>5, <1>6, <1>7, <1>8, ContextStep

\* The check of accept: the context names a processor and an alert.
LEMMA AcceptCheckStep ==
  ASSUME IInv, NEW r \in Requests, NEW a \in Alerts, NEW u \in Staff,
         AcceptCheck(r, a, u)
  PROVE  IInv'
<1> DEFINE q == [Idle EXCEPT !.at = "accepting", !.user = u,
                             !.row = a, !.seen = alert[a]]
<1>1. q \in Handler
  BY ConstantsTyped DEF Handler, Place, IInv, TypeOK
<1>2. ContextOK(q)
  BY DEF AcceptCheck, Processable, ContextOK, Idle
<1>3. QED
  BY <1>1, <1>2, ReadStep DEF AcceptCheck

\* The check of resolve: what the context saw of the taker is what is stored.
LEMMA ResolveCheckStep ==
  ASSUME IInv, NEW r \in Requests, NEW a \in Alerts, NEW u \in Staff,
         NEW o \in Outcome, ResolveCheck(r, a, u, o)
  PROVE  IInv'
<1> DEFINE q == [at |-> "resolving", user |-> u, row |-> a,
                 seen |-> alert[a], outcome |-> o]
<1>1. q \in Handler /\ ContextOK(q)
  BY DEF ResolveCheck, Processable, Handler, Place, ContextOK, IInv, TypeOK,
         RowOK
<1>2. QED
  BY <1>1, ReadStep DEF ResolveCheck

\* The transaction of accept: the row had no taker and gets one.
LEMMA AcceptCommitStep ==
  ASSUME IInv, NEW r \in Requests, AcceptCommit(r)
  PROVE  IInv' /\ TakersStay
<1> DEFINE a == request[r].row
           u == request[r].user
           new == [alert[a] EXCEPT !.acceptedBy = u,
                                   !.acceptedAt = "acceptance"]
           entry == [action |-> "SOS_ACCEPTED", actor |-> u]
<1>1. a \in Alerts /\ u \in Processors
  BY DEF AcceptCommit, IInv, ContextOK
<1>2. /\ alert[a].status = "ACTIVE" /\ alert[a].acceptedBy = Nobody
      /\ alert' = [alert EXCEPT ![a] = new]
      /\ audit' = [audit EXCEPT ![a] = Append(@, entry)]
      /\ handover' = handover
      /\ request' = [request EXCEPT ![r].at = "notifying", ![r].seen = new]
  BY DEF AcceptCommit, StillFree, Active
<1>3. /\ new \in AlertRow
      /\ new.status = "ACTIVE"
      /\ new.acceptedBy = u /\ new.acceptedAt = "acceptance"
  <2>1. alert[a] \in AlertRow /\ u \in Staff
    BY <1>1, PeopleAssumption DEF IInv, TypeOK
  <2>2. QED
    BY <1>2, <2>1 DEF AlertRow
<1>4. entry \in AuditRow
  BY <1>1, PeopleAssumption DEF AuditRow
<1>5. RowOK(new)
  BY <1>1, <1>3, PeopleAssumption DEF RowOK, Outcome
<1>6. handover[a] = <<>> /\ audit[a] = <<>>
  <2>1. RowOK(alert[a]) /\ RecordsOK(a)
    BY <1>1 DEF IInv
  <2>2. ~Closed(a) /\ Story(alert[a]) = <<>>
    BY <1>2, <2>1 DEF RowOK, Closed, Story, Outcome
  <2>3. QED
    BY <2>1, <2>2 DEF RecordsOK
<1>7. /\ alert' \in [Alerts -> AlertRow]
      /\ handover' \in [Alerts -> Seq(Note)]
      /\ audit' \in [Alerts -> Seq(AuditRow)]
  <2>1. audit' \in [Alerts -> Seq(AuditRow)]
    BY <1>1, <1>2, <1>4, AppendTyped DEF IInv, TypeOK
  <2>2. QED
    BY <1>2, <1>3, <2>1 DEF IInv, TypeOK
<1>8. PICK q \in Handler :
        q = [request[r] EXCEPT !.at = "notifying", !.seen = new]
  <2>1. [request[r] EXCEPT !.at = "notifying", !.seen = new] \in Handler
    BY <1>3 DEF Handler, Place, IInv, TypeOK
  <2>2. QED
    BY <2>1
<1>9. request' = [request EXCEPT ![r] = q] /\ q.at = "notifying"
  BY <1>2, <1>8 DEF IInv, TypeOK, Handler
<1>10. TakersStay
  BY <1>1, <1>2 DEF TakersStay, IInv, TypeOK
<1>11. ContextOK(q)'
  BY <1>9 DEF ContextOK
<1>12. ASSUME NEW b \in Alerts PROVE RowOK(alert'[b]) /\ RecordsOK(b)'
  <2>1. CASE b = a
    <3>1. alert'[b] = new
      BY <1>1, <1>2, <2>1 DEF IInv, TypeOK
    <3>2. handover'[b] = <<>> /\ audit'[b] = <<entry>>
      BY <1>1, <1>2, <1>6, <2>1 DEF IInv, TypeOK
    <3>3. ~(new.status \in Outcome) /\ Story(new) = <<entry>>
      BY <1>3 DEF Outcome, Story, Accepted
    <3>4. QED
      BY <1>5, <3>1, <3>2, <3>3 DEF RecordsOK, Closed
  <2>2. CASE b # a
    <3>1. UNCHANGED <<alert[b], handover[b], audit[b]>>
      BY <1>1, <1>2, <2>2 DEF IInv, TypeOK
    <3>2. QED
      BY <3>1 DEF IInv, RecordsOK, Closed
  <2>3. QED
    BY <2>1, <2>2
<1>13. IInv'
  BY <1>7, <1>9, <1>10, <1>11, <1>12, ContextStep
<1>14. QED
  BY <1>10, <1>13

\* The transaction of resolve: the row is still the one the handler saw, so
\* the taker and the instant it writes back are the stored ones.
LEMMA ResolveCommitStep ==
  ASSUME IInv, NEW r \in Requests, ResolveCommit(r)
  PROVE  IInv' /\ TakersStay
<1> DEFINE a == request[r].row
           u == request[r].user
           new == ClosedRow(r)
           note == [author |-> u, outcome |-> request[r].outcome]
           entry == [action |-> "SOS_RESOLVED", actor |-> u]
           seen == request[r].seen
<1>1. /\ a \in Alerts /\ u \in Processors
      /\ seen.acceptedBy \in {Nobody, u}
      /\ seen.acceptedBy = Nobody <=> seen.acceptedAt = "never"
      /\ seen.acceptedBy # Nobody => /\ alert[a].acceptedBy = seen.acceptedBy
                                     /\ alert[a].acceptedAt = seen.acceptedAt
  BY DEF ResolveCommit, IInv, ContextOK
<1>2. /\ alert[a].status = "ACTIVE"
      /\ alert[a].acceptedBy = seen.acceptedBy
      /\ alert' = [alert EXCEPT ![a] = new]
      /\ handover' = [handover EXCEPT ![a] = Append(@, note)]
      /\ audit' = [audit EXCEPT ![a] = Append(@, entry)]
      /\ request' = [request EXCEPT ![r].at = "notifying", ![r].seen = new]
  BY DEF ResolveCommit, StillAsSeen, Active
<1>3. RowOK(alert[a]) /\ RecordsOK(a) /\ alert[a] \in AlertRow
  BY <1>1 DEF IInv, TypeOK
<1>4. seen.acceptedAt = alert[a].acceptedAt
  BY <1>1, <1>2, <1>3 DEF RowOK
<1>5. /\ request[r].outcome \in Outcome
      /\ seen \in AlertRow
  BY DEF IInv, TypeOK, Handler
<1>6. /\ new \in AlertRow
      /\ new.status = request[r].outcome
      /\ new.resolvedBy = u /\ new.acceptedBy = u
      /\ new.acceptedAt = IF seen.acceptedAt = "never"
                            THEN "closure" ELSE seen.acceptedAt
  BY <1>1, <1>3, <1>5, PeopleAssumption DEF ClosedRow, AlertRow
<1>7. note \in Note /\ entry \in AuditRow
  BY <1>1, <1>5, PeopleAssumption DEF Note, AuditRow
<1>8. RowOK(new)
  BY <1>1, <1>5, <1>6, PeopleAssumption DEF RowOK, Outcome
<1>9. handover[a] = <<>> /\ Story(new) = Append(audit[a], entry)
  <2>1. ~Closed(a) /\ audit[a] = Story(alert[a])
    BY <1>2, <1>3 DEF Closed, Outcome, RecordsOK
  <2>2. handover[a] = <<>>
    BY <1>3, <2>1 DEF RecordsOK
  <2>3. CASE alert[a].acceptedAt = "acceptance"
    <3>1. alert[a].acceptedBy = u
      BY <1>1, <1>2, <1>3, <2>3 DEF RowOK
    <3>2. audit[a] = <<Accepted(u)>>
      BY <2>1, <2>3, <3>1 DEF Story, Closed
    <3>3. Story(new) = Append(<<Accepted(u)>>, entry)
      BY <1>4, <1>5, <1>6, <2>3 DEF Story, Resolved
    <3>4. QED
      BY <2>2, <3>2, <3>3
  <2>4. CASE alert[a].acceptedAt # "acceptance"
    <3>1. audit[a] = <<>>
      BY <2>1, <2>4 DEF Story, Closed
    <3>2. Story(new) = Append(<<>>, entry)
      BY <1>4, <1>5, <1>6, <2>4 DEF Story, Resolved
    <3>3. QED
      BY <2>2, <3>1, <3>2
  <2>5. QED
    BY <2>3, <2>4
<1> HIDE DEF new
<1>10. /\ alert' \in [Alerts -> AlertRow]
       /\ handover' \in [Alerts -> Seq(Note)]
       /\ audit' \in [Alerts -> Seq(AuditRow)]
  <2>1. handover' \in [Alerts -> Seq(Note)]
    BY <1>1, <1>2, <1>7, AppendTyped DEF IInv, TypeOK
  <2>2. audit' \in [Alerts -> Seq(AuditRow)]
    BY <1>1, <1>2, <1>7, AppendTyped DEF IInv, TypeOK
  <2>3. QED
    BY <1>2, <1>6, <2>1, <2>2 DEF IInv, TypeOK
<1>11. PICK q \in Handler :
         q = [request[r] EXCEPT !.at = "notifying", !.seen = new]
  <2>1. [request[r] EXCEPT !.at = "notifying", !.seen = new] \in Handler
    BY <1>6 DEF Handler, Place, IInv, TypeOK
  <2>2. QED
    BY <2>1
<1>12. request' = [request EXCEPT ![r] = q] /\ q.at = "notifying"
  BY <1>2, <1>11 DEF IInv, TypeOK, Handler
<1>13. TakersStay
  BY <1>1, <1>2, <1>3, <1>4, <1>6 DEF TakersStay, IInv, TypeOK, RowOK
<1>14. ContextOK(q)'
  BY <1>12 DEF ContextOK
<1>15. ASSUME NEW b \in Alerts PROVE RowOK(alert'[b]) /\ RecordsOK(b)'
  <2>1. CASE b = a
    <3>1. alert'[b] = new
      BY <1>1, <1>2, <2>1 DEF IInv, TypeOK
    <3>2. handover'[b] = <<note>> /\ audit'[b] = Story(new)
      <4>1. handover'[b] = Append(<<>>, note) /\ audit'[b] = Story(new)
        BY <1>1, <1>2, <1>9, <2>1 DEF IInv, TypeOK
      <4>2. QED
        BY <4>1
    <3>3. QED
      BY <1>5, <1>6, <1>8, <3>1, <3>2 DEF RecordsOK, Closed
  <2>2. CASE b # a
    <3>1. UNCHANGED <<alert[b], handover[b], audit[b]>>
      BY <1>1, <1>2, <2>2 DEF IInv, TypeOK
    <3>2. QED
      BY <3>1 DEF IInv, RecordsOK, Closed
  <2>3. QED
    BY <2>1, <2>2
<1>16. IInv'
  BY <1>10, <1>12, <1>13, <1>14, <1>15, ContextStep
<1>17. QED
  BY <1>13, <1>16

-----------------------------------------------------------------------------
\* Every step preserves the invariant and leaves the takers alone.
LEMMA IInvNext == IInv /\ [Next]_vars => IInv' /\ TakersStay
<1> SUFFICES ASSUME IInv, [Next]_vars PROVE IInv' /\ TakersStay
  OBVIOUS
<1>1. UNCHANGED alert => TakersStay
  BY DEF TakersStay
<1>2. ASSUME NEW r \in Requests, NEW u \in Residents, TriggerLookup(r, u)
      PROVE  IInv' /\ TakersStay
  BY <1>1, <1>2, TriggerLookupStep DEF TriggerLookup
<1>3. ASSUME NEW r \in Requests, TriggerCreate(r)
      PROVE  IInv' /\ TakersStay
  <2>1. TakersStay
    BY <1>3 DEF TriggerCreate, TakersStay, IInv, TypeOK, RowOK, Unborn
  <2>2. QED
    BY <1>3, <2>1, TriggerCreateStep
<1>4. ASSUME NEW r \in Requests, NEW a \in Alerts, NEW u \in Staff,
             AcceptCheck(r, a, u)
      PROVE  IInv' /\ TakersStay
  BY <1>1, <1>4, AcceptCheckStep DEF AcceptCheck
<1>5. ASSUME NEW r \in Requests, NEW a \in Alerts, NEW u \in Staff,
             NEW o \in Outcome, ResolveCheck(r, a, u, o)
      PROVE  IInv' /\ TakersStay
  BY <1>1, <1>5, ResolveCheckStep DEF ResolveCheck
<1>6. ASSUME NEW r \in Requests,
             TriggerAnnounce(r) \/ NotifyUpdated(r) \/ Conflict(r) \/ Abandon(r)
      PROVE  IInv' /\ TakersStay
  BY <1>1, <1>6, FinishStep
  DEF TriggerAnnounce, NotifyUpdated, Conflict, Abandon
<1>7. CASE UNCHANGED vars
  <2>1. IInv'
    BY <1>7 DEF vars, IInv, TypeOK, RecordsOK, Closed, ContextOK
  <2>2. QED
    BY <1>1, <1>7, <2>1 DEF vars
<1>8. QED
  BY <1>2, <1>3, <1>4, <1>5, <1>6, <1>7, AcceptCommitStep, ResolveCommitStep
  DEF Next, Silent

\* The inductive invariant, on which the theorems below rest.
THEOREM Invariant == Spec => []IInv
BY IInvInit, IInvNext, PTL DEF Spec

\* The rows and the handler contexts are typed in every reachable state.
THEOREM Typed == Spec => []TypeOK
BY Invariant, PTL DEF IInv

\* However many close calls race, a closed alert has exactly one journal note,
\* by its closer, and any other alert has none (resolve, lines 498-527).
THEOREM OneNote == Spec => []OneNotePerClosure
<1>1. IInv => OneNotePerClosure
  BY DEF IInv, RecordsOK, OneNotePerClosure
<1>2. QED
  BY <1>1, Invariant, PTL

\* The audit log tells in order who took and who closed each alert.
THEOREM AuditComplete == Spec => []AuditTellsTheStory
<1>1. IInv => AuditTellsTheStory
  BY DEF IInv, RecordsOK, AuditTellsTheStory
<1>2. QED
  BY <1>1, Invariant, PTL

\* A closed alert was closed by the employee responsible for it.
THEOREM ClosedByTaker == Spec => []ClosedByItsTaker
<1>1. IInv => ClosedByItsTaker
  BY DEF IInv, RowOK, Closed, ClosedByItsTaker
<1>2. QED
  BY <1>1, Invariant, PTL

-----------------------------------------------------------------------------
\* A step changes at most the row of one alert, which it raises, takes or
\* closes; every other step leaves the rows and the journal alone.
LEMMA RegistrySteps ==
  ASSUME IInv, [Next]_vars
  PROVE  \/ UNCHANGED <<alert, handover>>
         \/ \E a \in Alerts, row \in AlertRow :
              /\ alert[a] = Unborn
              /\ row.status = "ACTIVE" /\ row.acceptedBy = Nobody
              /\ alert' = [alert EXCEPT ![a] = row]
              /\ handover' = handover
         \/ \E a \in Alerts, u \in Processors :
              /\ Active(a) /\ alert[a].acceptedBy = Nobody
              /\ alert' = [alert EXCEPT ![a] =
                   [@ EXCEPT !.acceptedBy = u, !.acceptedAt = "acceptance"]]
              /\ handover' = handover
         \/ \E a \in Alerts, u \in Processors, row \in AlertRow, n \in Note :
              /\ Active(a) /\ alert[a].acceptedBy \in {Nobody, u}
              /\ row.status \in Outcome /\ row.acceptedBy = u
              /\ alert' = [alert EXCEPT ![a] = row]
              /\ n.author = u
              /\ handover' = [handover EXCEPT ![a] = <<n>>]
<1>1. ASSUME NEW r \in Requests, TriggerCreate(r)
      PROVE  \E a \in Alerts, row \in AlertRow :
               /\ alert[a] = Unborn
               /\ row.status = "ACTIVE" /\ row.acceptedBy = Nobody
               /\ alert' = [alert EXCEPT ![a] = row]
               /\ handover' = handover
  <2> DEFINE new == [Unborn EXCEPT !.status = "ACTIVE",
                                   !.triggeredBy = request[r].user]
  <2>1. new \in AlertRow /\ new.status = "ACTIVE" /\ new.acceptedBy = Nobody
    BY <1>1 DEF TriggerCreate, IInv, ContextOK, Unborn, AlertRow
  <2>2. PICK a \in Alerts : /\ alert[a].status = "UNBORN"
                            /\ alert' = [alert EXCEPT ![a] = new]
    BY <1>1 DEF TriggerCreate
  <2>3. alert[a] = Unborn /\ handover' = handover
    BY <1>1, <2>2 DEF TriggerCreate, IInv, RowOK
  <2> HIDE DEF new
  <2>4. QED
    BY <2>1, <2>2, <2>3
<1>2. ASSUME NEW r \in Requests, AcceptCommit(r)
      PROVE  \E a \in Alerts, u \in Processors :
               /\ Active(a) /\ alert[a].acceptedBy = Nobody
               /\ alert' = [alert EXCEPT ![a] =
                    [@ EXCEPT !.acceptedBy = u, !.acceptedAt = "acceptance"]]
               /\ handover' = handover
  <2>1. request[r].row \in Alerts /\ request[r].user \in Processors
    BY <1>2 DEF AcceptCommit, IInv, ContextOK
  <2>2. QED
    BY <1>2, <2>1 DEF AcceptCommit, StillFree, IInv, TypeOK
<1>3. ASSUME NEW r \in Requests, ResolveCommit(r)
      PROVE  \E a \in Alerts, u \in Processors, row \in AlertRow, n \in Note :
               /\ Active(a) /\ alert[a].acceptedBy \in {Nobody, u}
               /\ row.status \in Outcome /\ row.acceptedBy = u
               /\ alert' = [alert EXCEPT ![a] = row]
               /\ n.author = u
               /\ handover' = [handover EXCEPT ![a] = <<n>>]
  <2> DEFINE a == request[r].row
             u == request[r].user
             row == ClosedRow(r)
             n == [author |-> u, outcome |-> request[r].outcome]
  <2>1. /\ a \in Alerts /\ u \in Processors
        /\ request[r].seen.acceptedBy \in {Nobody, u}
    BY <1>3 DEF ResolveCommit, IInv, ContextOK
  <2>2. /\ Active(a) /\ alert[a].acceptedBy \in {Nobody, u}
        /\ alert' = [alert EXCEPT ![a] = row]
        /\ handover' = [handover EXCEPT ![a] = Append(@, n)]
    BY <1>3, <2>1 DEF ResolveCommit, StillAsSeen
  <2>3. /\ request[r].outcome \in Outcome
        /\ request[r].seen \in AlertRow
        /\ alert[a] \in AlertRow
    BY <2>1 DEF IInv, TypeOK, Handler
  <2>4. /\ row \in AlertRow
        /\ row.status \in Outcome /\ row.acceptedBy = u
    BY <2>1, <2>3, PeopleAssumption DEF ClosedRow, AlertRow
  <2>5. n \in Note /\ n.author = u
    BY <2>1, <2>3, PeopleAssumption DEF Note
  <2>6. handover[a] = <<>>
    BY <2>1, <2>2 DEF IInv, RecordsOK, Active, Closed, Outcome
  <2>7. Append(<<>>, n) = <<n>>
    BY <2>5
  <2>8. handover' = [handover EXCEPT ![a] = <<n>>]
    BY <2>1, <2>2, <2>6, <2>7 DEF IInv, TypeOK
  <2> HIDE DEF row, n
  <2>9. QED
    BY <2>1, <2>2, <2>4, <2>5, <2>8
<1>4. ASSUME NEW r \in Requests,
             \/ \E u \in Residents : TriggerLookup(r, u)
             \/ \E a \in Alerts, u \in Staff :
                  \/ AcceptCheck(r, a, u)
                  \/ \E o \in Outcome : ResolveCheck(r, a, u, o)
             \/ TriggerAnnounce(r) \/ NotifyUpdated(r)
             \/ Conflict(r) \/ Abandon(r)
      PROVE  UNCHANGED <<alert, handover>>
  BY <1>4 DEF TriggerLookup, AcceptCheck, ResolveCheck, TriggerAnnounce,
              NotifyUpdated, Conflict, Abandon
<1>5. CASE UNCHANGED vars
  BY <1>5 DEF vars
<1>6. CASE \E r \in Requests : TriggerCreate(r)
  BY <1>1, <1>6
<1>7. CASE \E r \in Requests : AcceptCommit(r)
  BY <1>2, <1>7
<1>8. CASE \E r \in Requests : ResolveCommit(r)
  BY <1>3, <1>8
<1>9. QED
  BY <1>4, <1>5, <1>6, <1>7, <1>8 DEF Next, Silent

\* A closed row never changes.
LEMMA ClosedStay ==
  ASSUME IInv, [Next]_vars, NEW b \in Alerts, Closed(b)
  PROVE  alert'[b] = alert[b]
<1>1. ASSUME NEW a \in Alerts, NEW row, ~Closed(a),
             alert' = [alert EXCEPT ![a] = row]
      PROVE  alert'[b] = alert[b]
  BY <1>1 DEF IInv, TypeOK
<1>2. CASE UNCHANGED <<alert, handover>>
  BY <1>2
<1>3. CASE \E a \in Alerts, row \in AlertRow :
             alert[a] = Unborn /\ alert' = [alert EXCEPT ![a] = row]
  BY <1>1, <1>3 DEF Closed, Outcome, Unborn
<1>4. CASE \E a \in Alerts, u \in Processors :
             /\ Active(a)
             /\ alert' = [alert EXCEPT ![a] =
                  [@ EXCEPT !.acceptedBy = u, !.acceptedAt = "acceptance"]]
  BY <1>1, <1>4 DEF Active, Closed, Outcome
<1>5. CASE \E a \in Alerts, row \in AlertRow :
             Active(a) /\ alert' = [alert EXCEPT ![a] = row]
  BY <1>1, <1>5 DEF Active, Closed, Outcome
<1>6. QED
  BY <1>2, <1>3, <1>4, <1>5, RegistrySteps

\* The employee responsible and the instant of acceptance are final, and so is
\* a closed row: no interleaving of accept and resolve moves them.
THEOREM TakerFinal == Spec => TakerIsFinal
<1> DEFINE Final(a) ==
      /\ alert[a].acceptedBy # Nobody =>
           /\ alert'[a].acceptedBy = alert[a].acceptedBy
           /\ alert'[a].acceptedAt = alert[a].acceptedAt
      /\ Closed(a) => alert'[a] = alert[a]
<1>1. ASSUME IInv, [Next]_vars, NEW a \in Alerts PROVE Final(a)
  <2>1. alert[a].acceptedBy # Nobody =>
          /\ alert'[a].acceptedBy = alert[a].acceptedBy
          /\ alert'[a].acceptedAt = alert[a].acceptedAt
    BY <1>1, IInvNext DEF TakersStay
  <2>2. Closed(a) => alert'[a] = alert[a]
    BY <1>1, ClosedStay
  <2>3. QED
    BY <2>1, <2>2
<1>2. IInv /\ [Next]_vars => [\A a \in Alerts : Final(a)]_vars
  BY <1>1
<1>3. QED
  BY <1>2, Invariant, PTL DEF Spec, TakerIsFinal

-----------------------------------------------------------------------------
\* The initial state of the service is the registry's.
LEMMA RegistryInit == Init => Registry!Init
<1> SUFFICES ASSUME Init PROVE Registry!Init
  OBVIOUS
<1>1. ASSUME NEW a \in Alerts
      PROVE  /\ Phase(a) = "unborn"
             /\ alert[a].acceptedBy = Nobody
             /\ Authors(a) = <<>>
  BY DEF Init, Phase, Authors, Active, Closed, Outcome, Unborn
<1>2. QED
  BY <1>1 DEF Registry!Init

\* What is seen of an alert depends on its row and its notes only.
LEMMA Unseen ==
  ASSUME NEW b, alert'[b] = alert[b], handover'[b] = handover[b]
  PROVE  /\ Phase(b)' = Phase(b)
         /\ Authors(b)' = Authors(b)
BY DEF Phase, Authors, Active, Closed

\* Each step of the service raises, takes or closes one alert of the
\* registry, or is invisible there.
LEMMA RegistryNext ==
  IInv /\ [Next]_vars => [Registry!Next]_(Registry!registryVars)
<1> SUFFICES ASSUME IInv, [Next]_vars
             PROVE  [Registry!Next]_(Registry!registryVars)
  OBVIOUS
<1> DEFINE phases == [b \in Alerts |-> Phase(b)]
           takers == [b \in Alerts |-> alert[b].acceptedBy]
           journals == [b \in Alerts |-> Authors(b)]
<1>1. CASE UNCHANGED <<alert, handover>>
  BY <1>1, Unseen DEF Registry!registryVars
<1>2. ASSUME NEW a \in Alerts, NEW row \in AlertRow,
             alert[a] = Unborn,
             row.status = "ACTIVE", row.acceptedBy = Nobody,
             alert' = [alert EXCEPT ![a] = row],
             handover' = handover
      PROVE  Registry!Raise(a)
  <2>1. /\ Phase(a) = "unborn" /\ Phase(a)' = "open"
        /\ alert'[a].acceptedBy = alert[a].acceptedBy
        /\ Authors(a)' = Authors(a)
    BY <1>2
    DEF Phase, Authors, Active, Closed, Outcome, Unborn, IInv, TypeOK
  <2>2. \A b \in Alerts : b # a => alert'[b] = alert[b]
    BY <1>2 DEF IInv, TypeOK
  <2>3. \A b \in Alerts : b # a => /\ Phase(b)' = Phase(b)
                                   /\ Authors(b)' = Authors(b)
    BY <1>2, <2>2, Unseen
  <2>4. /\ phases[a] = "unborn"
        /\ phases' = [phases EXCEPT ![a] = "open"]
    BY <2>1, <2>3
  <2>5. UNCHANGED takers
    BY <2>1, <2>2
  <2>6. UNCHANGED journals
    BY <2>1, <2>3
  <2>7. QED
    BY <2>4, <2>5, <2>6 DEF Registry!Raise
<1>3. ASSUME NEW a \in Alerts, NEW u \in Processors,
             Active(a), alert[a].acceptedBy = Nobody,
             alert' = [alert EXCEPT ![a] =
               [@ EXCEPT !.acceptedBy = u, !.acceptedAt = "acceptance"]],
             handover' = handover
      PROVE  Registry!Take(a, u)
  <2>1. alert'[a].status = "ACTIVE" /\ alert'[a].acceptedBy = u
    BY <1>3 DEF Active, IInv, TypeOK, AlertRow
  <2>2. \A b \in Alerts : b # a => alert'[b] = alert[b]
    BY <1>3 DEF IInv, TypeOK
  <2>3. Phase(a) = "open" /\ Phase(a)' = "open" /\ Authors(a)' = Authors(a)
    BY <1>3, <2>1 DEF Phase, Authors, Active
  <2>4. \A b \in Alerts : Phase(b)' = Phase(b) /\ Authors(b)' = Authors(b)
    BY <1>3, <2>2, <2>3, Unseen
  <2>5. phases[a] = "open" /\ takers[a] = Nobody
    BY <1>3, <2>3
  <2>6. takers' = [takers EXCEPT ![a] = u]
    BY <2>1, <2>2
  <2>7. UNCHANGED phases /\ UNCHANGED journals
    BY <2>4
  <2>8. QED
    BY <2>5, <2>6, <2>7 DEF Registry!Take
<1>4. ASSUME NEW a \in Alerts, NEW u \in Processors,
             NEW row \in AlertRow, NEW n \in Note,
             Active(a), alert[a].acceptedBy \in {Nobody, u},
             row.status \in Outcome, row.acceptedBy = u,
             alert' = [alert EXCEPT ![a] = row],
             n.author = u,
             handover' = [handover EXCEPT ![a] = <<n>>]
      PROVE  Registry!Close(a, u)
  <2>1. alert'[a] = row /\ handover'[a] = <<n>>
    BY <1>4 DEF IInv, TypeOK
  <2>2. Phase(a) = "open" /\ Phase(a)' = "closed"
    BY <1>4, <2>1 DEF Phase, Active, Closed, Outcome
  <2>3. Authors(a)' = <<u>>
    BY <1>4, <2>1 DEF Authors
  <2>4. \A b \in Alerts : b # a => /\ alert'[b] = alert[b]
                                   /\ handover'[b] = handover[b]
    BY <1>4 DEF IInv, TypeOK
  <2>5. \A b \in Alerts : b # a => /\ Phase(b)' = Phase(b)
                                   /\ Authors(b)' = Authors(b)
    BY <2>4, Unseen
  <2>6. phases[a] = "open" /\ takers[a] \in {Nobody, u}
    BY <1>4, <2>2
  <2>7. phases' = [phases EXCEPT ![a] = "closed"]
    BY <2>2, <2>5
  <2>8. takers' = [takers EXCEPT ![a] = u]
    <3>1. alert'[a].acceptedBy = u
      BY <1>4, <2>1
    <3>2. \A b \in Alerts : b # a => alert'[b].acceptedBy = alert[b].acceptedBy
      BY <2>4
    <3>3. QED
      BY <3>1, <3>2
  <2>9. journals' = [journals EXCEPT ![a] = <<u>>]
    BY <2>3, <2>5
  <2>10. QED
    BY <2>6, <2>7, <2>8, <2>9 DEF Registry!Close
<1>5. QED
  BY <1>1, <1>2, <1>3, <1>4, RegistrySteps DEF Registry!Next

\* The service implements the abstract life of an alert.
THEOREM Refinement == Spec => ImplementsRegistry
BY RegistryInit, RegistryNext, Invariant, PTL
DEF Spec, ImplementsRegistry, Registry!Spec
-----------------------------------------------------------------------------
(* The page.                                                               *)

\* What a past value of a row says that is true of the row now.
Behind(copy, now) ==
    /\ copy # Unborn => /\ now.status # "UNBORN"
                        /\ copy.triggeredBy = now.triggeredBy
    /\ copy.acceptedBy # Nobody => copy.acceptedBy = now.acceptedBy
    /\ copy.status \in Outcome => copy = now

\* A handler about to emit an event holds a past value of the row.
Emits(q) ==
    q.at \in {"announcing", "notifying"} =>
        q.row \in Alerts /\ Behind(q.seen, alert[q.row])

PageTyped ==
    /\ link \in {"down", "up", "joined"}
    /\ channel \in Seq(Event) /\ Len(channel) <= MaxChannel
    /\ load \in [at : {"none", "asked", "answered", "failed"},
                rows : [Alerts -> AlertRow]]
    /\ answer \in [row : Alerts \cup {Nobody}, shown : AlertRow]
    /\ answer # NoAnswer => answer.row \in Alerts
    /\ board \in [Alerts -> AlertRow]

CopiesBehind ==
    /\ \A i \in DOMAIN channel :
         Behind(channel[i].shown, alert[channel[i].row])
    /\ \A a \in Alerts : /\ Behind(load.rows[a], alert[a])
                         /\ Behind(board[a], alert[a])
    /\ answer # NoAnswer => Behind(answer.shown, alert[answer.row])

ServiceInv == IInv /\ \A r \in Requests : Emits(request[r])

BoardInv == ServiceInv /\ PageTyped /\ CopiesBehind

-----------------------------------------------------------------------------
\* A row is behind itself, and an unborn one behind any row.
LEMMA BehindSelf ==
  ASSUME NEW row \in AlertRow, RowOK(row)
  PROVE  Behind(row, row)
BY DEF Behind, RowOK

\* The page shows nothing of an alert it has no row of.
LEMMA BehindUnborn == \A now : Behind(Unborn, now)
BY DEF Behind, Unborn, Outcome

\* An alert once raised stays raised, by the same resident.
LEMMA BornStay ==
  ASSUME IInv, [Next]_vars, NEW b \in Alerts, alert[b].status # "UNBORN"
  PROVE  /\ alert'[b].status # "UNBORN"
         /\ alert'[b].triggeredBy = alert[b].triggeredBy
<1> DEFINE Stays == /\ alert'[b].status # "UNBORN"
                    /\ alert'[b].triggeredBy = alert[b].triggeredBy
<1>0. alert \in [Alerts -> AlertRow]
  BY DEF IInv, TypeOK
<1>1. ASSUME NEW r \in Requests, TriggerCreate(r) PROVE Stays
  BY <1>0, <1>1 DEF TriggerCreate
<1>2. ASSUME NEW r \in Requests, AcceptCommit(r) PROVE Stays
  BY <1>0, <1>2 DEF AcceptCommit, AlertRow
<1>3. ASSUME NEW r \in Requests, ResolveCommit(r) PROVE Stays
  <2>1. request[r].outcome \in Outcome
    BY DEF IInv, TypeOK, Handler
  <2>2. /\ ClosedRow(r).status # "UNBORN"
        /\ ClosedRow(r).triggeredBy = alert[request[r].row].triggeredBy
    BY <1>0, <2>1, <1>3 DEF ClosedRow, Outcome, AlertRow, ResolveCommit, IInv,
                       ContextOK
  <2>3. QED
    BY <1>0, <1>3, <2>2 DEF ResolveCommit
<1>4. ASSUME UNCHANGED alert PROVE Stays
  BY <1>4
<1>5. QED
  BY <1>1, <1>2, <1>3, <1>4
  DEF Next, Silent, vars, TriggerLookup, AcceptCheck, ResolveCheck,
      TriggerAnnounce, NotifyUpdated, Conflict, Abandon

\* No step of the service ends what a past value tells of the present row.
LEMMA BehindStays ==
  ASSUME IInv, [Next]_vars, NEW a \in Alerts, NEW copy,
         Behind(copy, alert[a])
  PROVE  Behind(copy, alert'[a])
<1>1. copy # Unborn => /\ alert'[a].status # "UNBORN"
                       /\ copy.triggeredBy = alert'[a].triggeredBy
  BY BornStay DEF Behind
<1>2. copy.acceptedBy # Nobody => copy.acceptedBy = alert'[a].acceptedBy
  BY IInvNext DEF Behind, TakersStay
<1>3. copy.status \in Outcome => copy = alert'[a]
  BY ClosedStay DEF Behind, Closed
<1>4. QED
  BY <1>1, <1>2, <1>3 DEF Behind

-----------------------------------------------------------------------------
\* A handler that starts to emit holds the row; the others keep what they hold.
LEMMA EmitsStep ==
  ASSUME ServiceInv, [Next]_vars, NEW r \in Requests, NEW q \in Handler,
         request' = [request EXCEPT ![r] = q],
         q.at \in {"announcing", "notifying"} =>
             q.row \in Alerts /\ Behind(q.seen, alert'[q.row])
  PROVE  \A s \in Requests : Emits(request[s])'
<1> SUFFICES ASSUME NEW s \in Requests PROVE Emits(request[s])'
  OBVIOUS
<1>1. request'[s] = IF s = r THEN q ELSE request[s]
  BY DEF ServiceInv, IInv, TypeOK
<1>2. CASE s = r
  BY <1>1, <1>2 DEF Emits
<1>3. CASE s # r
  <2>1. Emits(request[s])
    BY DEF ServiceInv
  <2>2. PICK p \in Handler : p = request[s]
    BY DEF ServiceInv, IInv, TypeOK
  <2>3. p.at \in {"announcing", "notifying"} =>
            p.row \in Alerts /\ Behind(p.seen, alert'[p.row])
    BY <2>1, <2>2, BehindStays DEF Emits, ServiceInv
  <2>4. QED
    BY <1>1, <1>3, <2>2, <2>3 DEF Emits
<1>4. QED
  BY <1>2, <1>3

\* A handler that goes on to anything but an event.
LEMMA NoEmission ==
  ASSUME ServiceInv, [Next]_vars, NEW r \in Requests, NEW q \in Handler,
         request' = [request EXCEPT ![r] = q],
         q.at \notin {"announcing", "notifying"}
  PROVE  \A s \in Requests : Emits(request[s])'
BY EmitsStep

\* A new alert's event carries the row that was inserted.
LEMMA CreateEmits ==
  ASSUME ServiceInv, NEW r \in Requests, TriggerCreate(r), [Next]_vars
  PROVE  \A s \in Requests : Emits(request[s])'
<1> DEFINE new == [Unborn EXCEPT !.status = "ACTIVE",
                                 !.triggeredBy = request[r].user]
<1>1. request[r] \in Handler /\ alert \in [Alerts -> AlertRow]
  BY DEF ServiceInv, IInv, TypeOK
<1>2. new \in AlertRow /\ RowOK(new)
  BY DEF TriggerCreate, ServiceInv, IInv, ContextOK, Unborn, AlertRow, RowOK,
         Outcome
<1> HIDE DEF new
<1>3. PICK a \in Alerts :
        /\ alert' = [alert EXCEPT ![a] = new]
        /\ request' = [request EXCEPT ![r].at = "announcing",
                                      ![r].row = a,
                                      ![r].seen = new]
  BY DEF TriggerCreate, new
<1>4. PICK row \in AlertRow : row = new
  BY <1>2
<1> DEFINE q == [request[r] EXCEPT !.at = "announcing", !.row = a, !.seen = row]
<1>5. q \in Handler /\ q.row = a /\ q.seen = row
  BY <1>1 DEF Handler, Place
<1>6. request' = [request EXCEPT ![r] = q]
  BY <1>1, <1>3, <1>4, <1>5 DEF ServiceInv, IInv, TypeOK
<1>7. Behind(row, alert'[a])
  BY <1>1, <1>2, <1>3, <1>4, BehindSelf
<1> HIDE DEF q
<1>8. PICK p \in Handler : p = q
  BY <1>5
<1>9. QED
  BY <1>5, <1>6, <1>7, <1>8, EmitsStep

\* The event of an accepted alert carries the row that was written.
LEMMA AcceptEmits ==
  ASSUME ServiceInv, NEW r \in Requests, AcceptCommit(r), [Next]_vars
  PROVE  \A s \in Requests : Emits(request[s])'
<1>1. request[r] \in Handler /\ alert \in [Alerts -> AlertRow]
  BY DEF ServiceInv, IInv, TypeOK
<1>2. PICK a \in Alerts : a = request[r].row
  BY DEF AcceptCommit, ServiceInv, IInv, ContextOK
<1>3. PICK row : row = [alert[a] EXCEPT !.acceptedBy = request[r].user,
                                        !.acceptedAt = "acceptance"]
  OBVIOUS
<1>4. /\ alert' = [alert EXCEPT ![a] = row]
      /\ request' = [request EXCEPT ![r].at = "notifying", ![r].seen = row]
  BY <1>2, <1>3 DEF AcceptCommit
<1>5. alert'[a] = row
  BY <1>1, <1>4
<1>6. row \in AlertRow /\ RowOK(row)
  BY <1>5, IInvNext DEF ServiceInv, IInv, TypeOK
<1>7. Behind(row, row)
  BY <1>6, BehindSelf
<1>8. PICK q \in Handler :
        q = [request[r] EXCEPT !.at = "notifying", !.seen = row]
  BY <1>1, <1>6 DEF Handler, Place
<1>9. q.row = a /\ q.seen = row
  BY <1>1, <1>2, <1>8 DEF Handler
<1>10. request' = [request EXCEPT ![r] = q]
  BY <1>1, <1>4, <1>8 DEF ServiceInv, IInv, TypeOK
<1>11. QED
  BY <1>5, <1>7, <1>9, <1>10, EmitsStep

\* The event of a closed alert carries the row that was written.
LEMMA ResolveEmits ==
  ASSUME ServiceInv, NEW r \in Requests, ResolveCommit(r), [Next]_vars
  PROVE  \A s \in Requests : Emits(request[s])'
<1>1. request[r] \in Handler /\ alert \in [Alerts -> AlertRow]
  BY DEF ServiceInv, IInv, TypeOK
<1>2. PICK a \in Alerts : a = request[r].row
  BY DEF ResolveCommit, ServiceInv, IInv, ContextOK
<1>3. PICK row : row = ClosedRow(r)
  OBVIOUS
<1>4. /\ alert' = [alert EXCEPT ![a] = row]
      /\ request' = [request EXCEPT ![r].at = "notifying", ![r].seen = row]
  BY <1>2, <1>3 DEF ResolveCommit
<1>5. alert'[a] = row
  BY <1>1, <1>4
<1>6. row \in AlertRow /\ RowOK(row)
  BY <1>5, IInvNext DEF ServiceInv, IInv, TypeOK
<1>7. Behind(row, row)
  BY <1>6, BehindSelf
<1>8. PICK q \in Handler :
        q = [request[r] EXCEPT !.at = "notifying", !.seen = row]
  BY <1>1, <1>6 DEF Handler, Place
<1>9. q.row = a /\ q.seen = row
  BY <1>1, <1>2, <1>8 DEF Handler
<1>10. request' = [request EXCEPT ![r] = q]
  BY <1>1, <1>4, <1>8 DEF ServiceInv, IInv, TypeOK
<1>11. QED
  BY <1>5, <1>7, <1>9, <1>10, EmitsStep

\* A repeated trigger announces the alert it found, as it was then.
LEMMA LookupEmits ==
  ASSUME ServiceInv, NEW r \in Requests, NEW u \in Residents,
         TriggerLookup(r, u), [Next]_vars
  PROVE  \A s \in Requests : Emits(request[s])'
<1>1. ASSUME NEW a \in Alerts,
             request' = [request EXCEPT ![r] =
               [Idle EXCEPT !.at = "announcing", !.user = u,
                            !.row = a, !.seen = alert[a]]]
      PROVE  \A s \in Requests : Emits(request[s])'
  <2>1. alert[a] \in AlertRow /\ RowOK(alert[a])
    BY DEF ServiceInv, IInv, TypeOK
  <2>2. Behind(alert[a], alert[a])
    BY <2>1, BehindSelf
  <2>3. PICK q \in Handler :
          q = [Idle EXCEPT !.at = "announcing", !.user = u,
                           !.row = a, !.seen = alert[a]]
    BY <2>1, ConstantsTyped DEF Handler, Place
  <2>4. q.row = a /\ q.seen = alert[a]
    BY <2>3 DEF Idle
  <2>5. Behind(q.seen, alert'[a])
    BY <2>2, <2>4 DEF TriggerLookup
  <2>6. QED
    BY <1>1, <2>3, <2>4, <2>5, EmitsStep
<1>2. ASSUME request' = [request EXCEPT ![r] =
               [Idle EXCEPT !.at = "creating", !.user = u]]
      PROVE  \A s \in Requests : Emits(request[s])'
  <2>1. PICK q \in Handler : q = [Idle EXCEPT !.at = "creating", !.user = u]
    BY ConstantsTyped DEF Handler, Place
  <2>2. q.at = "creating"
    BY <2>1 DEF Idle
  <2>3. QED
    BY <1>2, <2>1, <2>2, NoEmission
<1>3. QED
  BY <1>1, <1>2 DEF TriggerLookup

\* The checks of accept and resolve emit nothing.
LEMMA CheckEmits ==
  ASSUME ServiceInv, NEW r \in Requests, NEW a \in Alerts, NEW u \in Staff,
         NEW o \in Outcome,
         AcceptCheck(r, a, u) \/ ResolveCheck(r, a, u, o), [Next]_vars
  PROVE  \A s \in Requests : Emits(request[s])'
<1>0. alert[a] \in AlertRow
  BY DEF ServiceInv, IInv, TypeOK
<1>1. CASE AcceptCheck(r, a, u)
  <2>1. PICK q \in Handler : q = [Idle EXCEPT !.at = "accepting", !.user = u,
                                              !.row = a, !.seen = alert[a]]
    BY <1>0, ConstantsTyped DEF Handler, Place
  <2>2. q.at = "accepting"
    BY <2>1 DEF Idle
  <2>3. QED
    BY <1>1, <2>1, <2>2, NoEmission DEF AcceptCheck
<1>2. CASE ResolveCheck(r, a, u, o)
  <2>1. PICK q \in Handler :
          q = [at |-> "resolving", user |-> u, row |-> a,
               seen |-> alert[a], outcome |-> o]
    BY <1>0 DEF Handler, Place
  <2>2. q.at = "resolving"
    BY <2>1
  <2>3. QED
    BY <1>2, <2>1, <2>2, NoEmission DEF ResolveCheck
<1>3. QED
  BY <1>1, <1>2

\* The invariant of the service with what its handlers are about to emit.
LEMMA ServiceInvNext == ServiceInv /\ [Next]_vars => ServiceInv'
<1> SUFFICES ASSUME ServiceInv, [Next]_vars PROVE ServiceInv'
  OBVIOUS
<1> DEFINE Goal == \A s \in Requests : Emits(request[s])'
<1>1. IInv'
  BY IInvNext DEF ServiceInv
<1>2. ASSUME NEW r \in Requests, Finish(r) PROVE Goal
  <2>1. Idle \in Handler /\ Idle.at = "idle"
    BY ConstantsTyped DEF Idle
  <2>2. QED
    BY <1>2, <2>1, NoEmission DEF Finish
<1>3. ASSUME UNCHANGED vars PROVE Goal
  BY <1>3 DEF ServiceInv, Emits, vars
<1>4. ASSUME NEW r \in Requests, Silent(r) PROVE Goal
  <2>1. ASSUME NEW u \in Residents, TriggerLookup(r, u) PROVE Goal
    BY <2>1, LookupEmits
  <2>2. ASSUME NEW a \in Alerts, NEW u \in Staff, AcceptCheck(r, a, u)
        PROVE  Goal
    BY <2>2, CheckEmits DEF Outcome
  <2>3. ASSUME NEW a \in Alerts, NEW u \in Staff, NEW o \in Outcome,
               ResolveCheck(r, a, u, o)
        PROVE  Goal
    BY <2>3, CheckEmits
  <2>4. QED
    BY <1>2, <1>4, <2>1, <2>2, <2>3, CreateEmits, AcceptEmits, ResolveEmits
    DEF Silent, Conflict, Abandon
<1>5. Goal
  BY <1>2, <1>3, <1>4 DEF Next, TriggerAnnounce, NotifyUpdated
<1>6. QED
  BY <1>1, <1>5 DEF ServiceInv

-----------------------------------------------------------------------------
\* The copies that stay where they are stay behind.
LEMMA CopiesStay ==
  ASSUME BoardInv, [Next]_vars
  PROVE  /\ \A i \in DOMAIN channel :
              Behind(channel[i].shown, alert'[channel[i].row])
         /\ \A a \in Alerts : /\ Behind(load.rows[a], alert'[a])
                              /\ Behind(board[a], alert'[a])
         /\ answer # NoAnswer => Behind(answer.shown, alert'[answer.row])
<1>1. ASSUME NEW i \in DOMAIN channel PROVE channel[i].row \in Alerts
  <2>1. channel[i] \in Event
    BY DEF BoardInv, PageTyped
  <2>2. QED
    BY <2>1 DEF Event
<1>2. answer # NoAnswer => answer.row \in Alerts
  BY DEF BoardInv, PageTyped
<1>3. QED
  BY <1>1, <1>2, BehindStays DEF BoardInv, ServiceInv, CopiesBehind

\* The service moves and the page does not.
LEMMA SilentStep ==
  ASSUME BoardInv, [Next]_vars, UNCHANGED pageVars
  PROVE  BoardInv'
<1>1. ServiceInv'
  BY ServiceInvNext DEF BoardInv
<1>2. PageTyped'
  BY DEF BoardInv, PageTyped, pageVars
<1>3. CopiesBehind'
  BY CopiesStay DEF CopiesBehind, pageVars
<1>4. QED
  BY <1>1, <1>2, <1>3 DEF BoardInv

\* An event that holds a past value of its row enters the channel, and the
\* answer to the call carries the same value.
LEMMA RelayStep ==
  ASSUME BoardInv, [Next]_vars, UNCHANGED alert, NEW e \in Event,
         Behind(e.shown, alert[e.row]), Relay(e),
         answer' = answer \/ answer' = [row |-> e.row, shown |-> e.shown]
  PROVE  BoardInv'
<1>1. ServiceInv'
  BY ServiceInvNext DEF BoardInv
<1>2. channel \in Seq(Event) /\ MaxChannel \in Nat
  BY ChannelAssumption DEF BoardInv, PageTyped
<1>a. /\ answer' \in [row : Alerts \cup {Nobody}, shown : AlertRow]
      /\ answer' # NoAnswer =>
            answer'.row \in Alerts /\ Behind(answer'.shown, alert'[answer'.row])
  <2>1. CASE answer' = answer
    BY <2>1, CopiesStay DEF BoardInv, PageTyped
  <2>2. CASE answer' = [row |-> e.row, shown |-> e.shown]
    BY <2>2 DEF Event
  <2>3. QED
    BY <2>1, <2>2
<1>3. PageTyped'
  BY <1>2, <1>a DEF BoardInv, PageTyped, Relay, NoAnswer
<1>4. \A i \in DOMAIN channel' :
        Behind(channel'[i].shown, alert'[channel'[i].row])
  BY <1>2, CopiesStay DEF Relay
<1>5. CopiesBehind'
  BY <1>4, <1>a, CopiesStay DEF CopiesBehind, Relay, NoAnswer
<1>6. QED
  BY <1>1, <1>3, <1>5 DEF BoardInv

\* What a handler emits is in order.
LEMMA EmitStep ==
  ASSUME BoardInv, NEW r \in Requests, RelayTriggered(r) \/ RelayUpdated(r)
  PROVE  BoardInv'
<1>1. [Next]_vars /\ UNCHANGED alert
  BY DEF Next, RelayTriggered, RelayUpdated, TriggerAnnounce, NotifyUpdated
<1>2. /\ request[r] \in Handler
      /\ request[r].row \in Alerts
      /\ Behind(request[r].seen, alert[request[r].row])
  BY DEF BoardInv, ServiceInv, Emits, IInv, TypeOK, RelayTriggered,
         RelayUpdated, TriggerAnnounce, NotifyUpdated
<1>3. PICK k \in {"triggered", "updated"} :
        Relay([kind |-> k, row |-> request[r].row, shown |-> request[r].seen])
  BY DEF RelayTriggered, RelayUpdated
<1>4. PICK e \in Event :
        e = [kind |-> k, row |-> request[r].row, shown |-> request[r].seen]
  BY <1>2 DEF Event, Handler
<1>5. answer' = answer \/ answer' = [row |-> e.row, shown |-> e.shown]
  BY <1>4 DEF RelayTriggered, RelayUpdated
<1>6. QED
  BY <1>1, <1>2, <1>3, <1>4, <1>5, RelayStep

\* The page moves and the service does not.
LEMMA PageMoves ==
  ASSUME BoardInv, PageStep, UNCHANGED vars
  PROVE  BoardInv'
<1>1. ServiceInv'
  BY ServiceInvNext DEF BoardInv
<1>2. /\ alert \in [Alerts -> AlertRow]
      /\ \A a \in Alerts : Behind(alert[a], alert[a])
  BY BehindSelf DEF BoardInv, ServiceInv, IInv, TypeOK
<1>3. NoRows \in [Alerts -> AlertRow]
  BY ConstantsTyped DEF NoRows
<1>4. \A a \in Alerts : Behind(NoRows[a], alert[a])
  BY BehindUnborn DEF NoRows
<1>5. channel \in Seq(Event)
  BY DEF BoardInv, PageTyped
<1>6. PageTyped'
  <2>1. CASE Receive
    <3>1. Head(channel) \in Event /\ Tail(channel) \in Seq(Event)
      BY <1>5, <2>1 DEF Receive
    <3>2. Len(Tail(channel)) <= MaxChannel
      BY <1>5, <2>1, ChannelAssumption DEF Receive, BoardInv, PageTyped
    <3>3. Head(channel).shown \in AlertRow /\ Head(channel).row \in Alerts
      BY <3>1 DEF Event
    <3>4. QED
      BY <2>1, <3>1, <3>2, <3>3 DEF Receive, BoardInv, PageTyped
  <2>2. CASE Connect \/ JoinRoom \/ Refresh \/ AnswerLoad
    BY <1>2, <1>3, <2>2
    DEF Connect, JoinRoom, Refresh, AnswerLoad, AskedLoad, BoardInv, PageTyped
  <2>3. CASE Disconnect
    BY <2>3, ChannelAssumption DEF Disconnect, BoardInv, PageTyped
  <2>4. CASE ShowLoad \/ FailLoad
    BY <1>3, <2>4 DEF ShowLoad, FailLoad, NoLoad, BoardInv, PageTyped
  <2>5. ASSUME NEW a \in Alerts, AcceptAgain(a) PROVE PageTyped'
    BY <1>2, <2>5 DEF AcceptAgain, BoardInv, PageTyped
  <2>6. CASE ShowAnswer
    <3>1. /\ answer.row \in Alerts /\ answer.shown \in AlertRow
          /\ answer' = NoAnswer
      BY <2>6 DEF ShowAnswer, BoardInv, PageTyped
    <3>2. NoAnswer \in [row : Alerts \cup {Nobody}, shown : AlertRow]
      BY ConstantsTyped DEF NoAnswer
    <3>3. QED
      BY <2>6, <3>1, <3>2 DEF ShowAnswer, BoardInv, PageTyped
  <2>7. QED
    BY <2>1, <2>2, <2>3, <2>4, <2>5, <2>6 DEF PageStep
<1>7. CopiesBehind'
  <2>0. alert' = alert /\ CopiesBehind
    BY DEF vars, BoardInv
  <2>1. CASE Receive
    <3>1. /\ Head(channel) = channel[1] /\ 1 \in DOMAIN channel
          /\ \A i \in DOMAIN Tail(channel) :
               i + 1 \in DOMAIN channel /\ Tail(channel)[i] = channel[i + 1]
      BY <1>5, <2>1 DEF Receive
    <3>2. Behind(Head(channel).shown, alert[Head(channel).row])
      BY <2>0, <3>1 DEF CopiesBehind
    <3>3. \A i \in DOMAIN channel' :
            Behind(channel'[i].shown, alert'[channel'[i].row])
      BY <2>0, <2>1, <3>1 DEF CopiesBehind, Receive
    <3>4. \A a \in Alerts : Behind(board'[a], alert'[a])
      BY <2>0, <2>1, <3>2 DEF CopiesBehind, Receive, BoardInv, PageTyped
    <3>5. QED
      BY <2>0, <2>1, <3>3, <3>4 DEF CopiesBehind, Receive
  <2>2. CASE Connect \/ Refresh \/ AnswerLoad
    BY <1>2, <1>4, <2>0, <2>2
    DEF Connect, Refresh, AnswerLoad, AskedLoad, CopiesBehind
  <2>3. CASE JoinRoom \/ Disconnect
    BY <2>0, <2>3 DEF JoinRoom, Disconnect, CopiesBehind
  <2>4. CASE ShowLoad \/ FailLoad
    BY <1>4, <2>0, <2>4 DEF ShowLoad, FailLoad, NoLoad, CopiesBehind
  <2>5. ASSUME NEW a \in Alerts, AcceptAgain(a) PROVE CopiesBehind'
    BY <1>2, <2>0, <2>5 DEF AcceptAgain, CopiesBehind
  <2>6. CASE ShowAnswer
    <3>1. /\ answer.row \in Alerts /\ answer' = NoAnswer
          /\ Behind(answer.shown, alert[answer.row])
      BY <2>0, <2>6 DEF ShowAnswer, CopiesBehind, BoardInv, PageTyped
    <3>2. \A a \in Alerts : Behind(board'[a], alert'[a])
      BY <2>0, <2>6, <3>1 DEF CopiesBehind, ShowAnswer, BoardInv, PageTyped
    <3>3. QED
      BY <2>0, <2>6, <3>1, <3>2 DEF CopiesBehind, ShowAnswer
  <2>7. QED
    BY <2>1, <2>2, <2>3, <2>4, <2>5, <2>6 DEF PageStep
<1>8. QED
  BY <1>1, <1>6, <1>7 DEF BoardInv

-----------------------------------------------------------------------------
\* The page starts empty, with the list asked for.
LEMMA BoardInvInit == BoardInit => BoardInv
<1> SUFFICES ASSUME BoardInit PROVE BoardInv
  OBVIOUS
<1>1. ServiceInv
  BY IInvInit DEF BoardInit, Init, Idle, ServiceInv, Emits
<1>2. PageTyped
  BY ConstantsTyped, ChannelAssumption
  DEF BoardInit, AskedLoad, NoRows, NoAnswer, PageTyped
<1>3. CopiesBehind
  BY BehindUnborn DEF BoardInit, AskedLoad, NoRows, CopiesBehind
<1>4. QED
  BY <1>1, <1>2, <1>3 DEF BoardInv

\* Every step of the service or of the page preserves the invariant.
LEMMA BoardInvNext == BoardInv /\ [BoardNext]_boardVars => BoardInv'
<1> SUFFICES ASSUME BoardInv, [BoardNext]_boardVars PROVE BoardInv'
  OBVIOUS
<1>1. ASSUME NEW r \in Requests, Silent(r), UNCHANGED pageVars
      PROVE  BoardInv'
  <2>1. [Next]_vars
    BY <1>1 DEF Next
  <2>2. QED
    BY <1>1, <2>1, SilentStep
<1>2. CASE UNCHANGED boardVars
  <2>1. UNCHANGED vars /\ UNCHANGED pageVars
    BY <1>2 DEF boardVars, vars, pageVars
  <2>2. QED
    BY <2>1, SilentStep
<1>3. QED
  BY <1>1, <1>2, EmitStep, PageMoves DEF BoardNext

\* The inductive invariant of the service and the page.
THEOREM BoardInvariant == BoardSpec => []BoardInv
BY BoardInvInit, BoardInvNext, PTL DEF BoardSpec

\* The state of the page is typed, and its channel bounded, in every
\* reachable state.
THEOREM BoardTyped == BoardSpec => []BoardTypeOK
<1>1. BoardInv => BoardTypeOK
  BY DEF BoardInv, ServiceInv, IInv, PageTyped, BoardTypeOK
<1>2. QED
  BY <1>1, BoardInvariant, PTL

\* However late events and lists are, what the page says of the resident, of
\* the employee responsible and of the closure is what the row says now.
THEOREM NeverAhead == BoardSpec => []BoardNeverAhead
<1>1. BoardInv => BoardNeverAhead
  BY DEF BoardInv, CopiesBehind, Behind, BoardNeverAhead
<1>2. QED
  BY <1>1, BoardInvariant, PTL
=============================================================================
