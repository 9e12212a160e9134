----------------------------- MODULE SosAlerts -----------------------------
(***************************************************************************)
(* The SOS service of one housing complex (sos.service.ts): residents      *)
(* raise alerts, staff accept and close them.                              *)
(*                                                                         *)
(* A request is a handler in flight.  Between two awaits a handler holds   *)
(* what it read (`seen`), while other handlers run; each action is the     *)
(* code from one await to the next.  A Prisma transaction is one action:   *)
(* its updateMany holds the row lock until commit and PostgreSQL evaluates *)
(* the `where` again on the locked row.                                    *)
(*                                                                         *)
(* Time is reduced to which call recorded an instant, texts and            *)
(* coordinates are left out, and a row not created yet is Unborn.          *)
(***************************************************************************)
EXTENDS Naturals, Sequences

CONSTANTS
    Residents,
    Staff,          \* every employee who can call the staff endpoints
    Processors,     \* those whose role and tenant let them process alerts
    Alerts,         \* the ids that prisma.create may hand out
    Requests,       \* handlers that can be in flight at the same time
    Nobody

ASSUME PeopleAssumption ==
    /\ Processors \subseteq Staff
    /\ Nobody \notin Residents \cup Staff

VARIABLES
    alert,      \* alert[a]: the row of table sos_alerts
    handover,   \* handover[a]: notes about a in table shift_handover_notes
    audit,      \* audit[a]: rows about a in table audit_logs, oldest first
    request     \* request[r]: the handler running in slot r

vars == <<alert, handover, audit, request>>

Outcome == {"RESOLVED", "FALSE_ALARM"}

AlertRow ==
    [status : {"UNBORN", "ACTIVE"} \cup Outcome,
     triggeredBy : Residents \cup {Nobody},
     acceptedBy : Staff \cup {Nobody},
     acceptedAt : {"never", "acceptance", "closure"},
     resolvedBy : Staff \cup {Nobody}]

Unborn ==
    [status |-> "UNBORN", triggeredBy |-> Nobody, acceptedBy |-> Nobody,
     acceptedAt |-> "never", resolvedBy |-> Nobody]

Note == [author : Staff, outcome : Outcome]

AuditRow == [action : {"SOS_ACCEPTED", "SOS_RESOLVED"}, actor : Staff]

\* Where a handler is: no handler, before its INSERT, before its transaction,
\* or done with the database and about to emit its event.
Place == {"idle", "creating", "accepting", "resolving",
          "announcing", "notifying"}

Handler ==
    [at : Place, user : Residents \cup Staff \cup {Nobody},
     row : Alerts \cup {Nobody}, seen : AlertRow, outcome : Outcome]

Idle == [at |-> "idle", user |-> Nobody, row |-> Nobody,
         seen |-> Unborn, outcome |-> "RESOLVED"]

Init ==
    /\ alert = [a \in Alerts |-> Unborn]
    /\ handover = [a \in Alerts |-> <<>>]
    /\ audit = [a \in Alerts |-> <<>>]
    /\ request = [r \in Requests |-> Idle]

Active(a) == alert[a].status = "ACTIVE"

Closed(a) == alert[a].status \in Outcome

Finish(r) == request' = [request EXCEPT ![r] = Idle]

-----------------------------------------------------------------------------
(* trigger: the resident's call.                                           *)

\* The deduplicating findFirst.  An ACTIVE alert of this resident is reused,
\* and what was read of it is what the event will carry.
TriggerLookup(r, u) ==
    /\ request[r].at = "idle"
    /\ \/ \E a \in Alerts :
            /\ Active(a)
            /\ alert[a].triggeredBy = u
            /\ request' = [request EXCEPT ![r] =
                 [Idle EXCEPT !.at = "announcing", !.user = u,
                              !.row = a, !.seen = alert[a]]]
       \/ /\ \A a \in Alerts : ~(Active(a) /\ alert[a].triggeredBy = u)
          /\ request' = [request EXCEPT ![r] =
               [Idle EXCEPT !.at = "creating", !.user = u]]
    /\ UNCHANGED <<alert, handover, audit>>

TriggerCreate(r) ==
    /\ request[r].at = "creating"
    /\ \E a \in Alerts :
         LET row == [Unborn EXCEPT !.status = "ACTIVE",
                                   !.triggeredBy = request[r].user]
         IN  /\ alert[a].status = "UNBORN"
             /\ alert' = [alert EXCEPT ![a] = row]
             /\ request' = [request EXCEPT ![r].at = "announcing",
                                           ![r].row = a,
                                           ![r].seen = row]
    /\ UNCHANGED <<handover, audit>>

\* The push was sent or its failure swallowed; the event leaves with `seen`.
TriggerAnnounce(r) ==
    /\ request[r].at = "announcing"
    /\ Finish(r)
    /\ UNCHANGED <<alert, handover, audit>>

-----------------------------------------------------------------------------
(* accept and resolve: the calls of the staff.                             *)

\* Mutant: any processor may go on with an alert a colleague took.
Processable_AnyTaker(a, u) == u \in Processors /\ Active(a)

\* getProcessableAlert lets the call through.
Processable(a, u) ==
    /\ u \in Processors
    /\ Active(a)
    /\ alert[a].acceptedBy \in {Nobody, u}

\* A repeated accept by the taker returns the row and changes nothing.
AcceptCheck(r, a, u) ==
    /\ request[r].at = "idle"
    /\ Processable(a, u)
    /\ alert[a].acceptedBy # u
    /\ request' = [request EXCEPT ![r] =
         [Idle EXCEPT !.at = "accepting", !.user = u,
                      !.row = a, !.seen = alert[a]]]
    /\ UNCHANGED <<alert, handover, audit>>

\* Mutant: the update only asks for the status.
StillFree_StatusOnly(a) == Active(a)

\* The `where` of the conditional update in accept.
StillFree(a) == Active(a) /\ alert[a].acceptedBy = Nobody

AcceptCommit(r) ==
    LET a == request[r].row
        u == request[r].user
        row == [alert[a] EXCEPT !.acceptedBy = u, !.acceptedAt = "acceptance"]
    IN  /\ request[r].at = "accepting"
        /\ StillFree(a)
        /\ alert' = [alert EXCEPT ![a] = row]
        /\ audit' = [audit EXCEPT ![a] =
             Append(@, [action |-> "SOS_ACCEPTED", actor |-> u])]
        /\ request' = [request EXCEPT ![r].at = "notifying", ![r].seen = row]
        /\ UNCHANGED handover

ResolveCheck(r, a, u, outcome) ==
    /\ request[r].at = "idle"
    /\ Processable(a, u)
    /\ request' = [request EXCEPT ![r] =
         [at |-> "resolving", user |-> u, row |-> a,
          seen |-> alert[a], outcome |-> outcome]]
    /\ UNCHANGED <<alert, handover, audit>>

\* Mutant: the update only asks for the acceptor.
StillAsSeen_TakerOnly(r) ==
    alert[request[r].row].acceptedBy = request[r].seen.acceptedBy

\* Mutant: the update only asks for the status.
StillAsSeen_StatusOnly(r) == Active(request[r].row)

\* The `where` of the conditional update in resolve: nobody accepted or
\* closed the alert since the handler read it.
StillAsSeen(r) ==
    LET a == request[r].row
    IN  Active(a) /\ alert[a].acceptedBy = request[r].seen.acceptedBy

\* Mutant: the resident is stored as the acceptor.
ClosedRow_ByResident(r) ==
    [alert[request[r].row] EXCEPT
        !.status = request[r].outcome,
        !.resolvedBy = request[r].user,
        !.acceptedBy = request[r].seen.triggeredBy]

\* Mutant: closing an alert nobody took leaves it without an acceptor.
ClosedRow_NoTaker(r) ==
    [alert[request[r].row] EXCEPT
        !.status = request[r].outcome,
        !.resolvedBy = request[r].user]

\* acceptedAt is copied from the row read earlier, or is the closing instant.
ClosedRow(r) ==
    [alert[request[r].row] EXCEPT
        !.status = request[r].outcome,
        !.resolvedBy = request[r].user,
        !.acceptedBy = request[r].user,
        !.acceptedAt = IF request[r].seen.acceptedAt = "never"
                         THEN "closure"
                         ELSE request[r].seen.acceptedAt]

ResolveCommit(r) ==
    LET a == request[r].row
        u == request[r].user
    IN  /\ request[r].at = "resolving"
        /\ StillAsSeen(r)
        /\ alert' = [alert EXCEPT ![a] = ClosedRow(r)]
        /\ handover' = [handover EXCEPT ![a] =
             Append(@, [author |-> u, outcome |-> request[r].outcome])]
        /\ audit' = [audit EXCEPT ![a] =
             Append(@, [action |-> "SOS_RESOLVED", actor |-> u])]
        /\ request' = [request EXCEPT ![r].at = "notifying",
                                      ![r].seen = ClosedRow(r)]

\* The conditional update matched no row: UPDATE_CONFLICT, nothing written.
Conflict(r) ==
    /\ \/ request[r].at = "accepting" /\ ~StillFree(request[r].row)
       \/ request[r].at = "resolving" /\ ~StillAsSeen(r)
    /\ Finish(r)
    /\ UNCHANGED <<alert, handover, audit>>

\* emitUpdated, after the commit.
NotifyUpdated(r) ==
    /\ request[r].at = "notifying"
    /\ Finish(r)
    /\ UNCHANGED <<alert, handover, audit>>

\* The process dies, or a statement fails and the transaction rolls back.
Abandon(r) ==
    /\ request[r].at # "idle"
    /\ Finish(r)
    /\ UNCHANGED <<alert, handover, audit>>

\* The steps that emit no realtime event.
Silent(r) ==
    \/ \E u \in Residents : TriggerLookup(r, u)
    \/ TriggerCreate(r)
    \/ \E a \in Alerts, u \in Staff :
         \/ AcceptCheck(r, a, u)
         \/ \E outcome \in Outcome : ResolveCheck(r, a, u, outcome)
    \/ AcceptCommit(r)
    \/ ResolveCommit(r)
    \/ Conflict(r)
    \/ Abandon(r)

Next == \E r \in Requests : Silent(r) \/ TriggerAnnounce(r) \/ NotifyUpdated(r)

Spec == Init /\ [][Next]_vars

-----------------------------------------------------------------------------
(* Properties.                                                             *)

\* Every table row and every handler context has the shape the code gives it.
TypeOK ==
    /\ alert \in [Alerts -> AlertRow]
    /\ handover \in [Alerts -> Seq(Note)]
    /\ audit \in [Alerts -> Seq(AuditRow)]
    /\ request \in [Requests -> Handler]

\* The shift journal holds one note about a closed alert, by the employee who
\* closed it and with the stored outcome, and none about any other alert,
\* however many close calls raced (resolve, lines 498-527).
OneNotePerClosure ==
    \A a \in Alerts :
        handover[a] =
            IF Closed(a)
              THEN <<[author |-> alert[a].resolvedBy,
                      outcome |-> alert[a].status]>>
              ELSE <<>>

Accepted(s) == [action |-> "SOS_ACCEPTED", actor |-> s]
Resolved(s) == [action |-> "SOS_RESOLVED", actor |-> s]

\* What the audit log must say of a row: an acceptance exactly when the row
\* was accepted by a call of its own, then a closure exactly when closed.
Story(row) ==
    LET start == IF row.acceptedAt = "acceptance"
                   THEN <<Accepted(row.acceptedBy)>>
                   ELSE <<>>
    IN  IF row.status \in Outcome
          THEN Append(start, Resolved(row.resolvedBy))
          ELSE start

\* The audit log alone tells who took and who closed each alert, in order,
\* whichever handlers interleaved (accept 482-496, resolve 498-527).
AuditTellsTheStory == \A a \in Alerts : audit[a] = Story(alert[a])

\* A closed alert was closed by the employee responsible for it, and an alert
\* has a responsible employee exactly when an acceptance instant is recorded
\* (line 509 copies that instant from a row read before the transaction).
ClosedByItsTaker ==
    \A a \in Alerts :
        /\ Closed(a) => /\ alert[a].resolvedBy = alert[a].acceptedBy
                        /\ alert[a].resolvedBy \in Processors
        /\ (alert[a].acceptedBy = Nobody) <=> (alert[a].acceptedAt = "never")

\* No call replaces the employee responsible or moves the recorded instant of
\* acceptance, and a closed alert never changes again.
TakerIsFinal ==
    [][\A a \in Alerts :
         /\ alert[a].acceptedBy # Nobody =>
              /\ alert'[a].acceptedBy = alert[a].acceptedBy
              /\ alert'[a].acceptedAt = alert[a].acceptedAt
         /\ Closed(a) => alert'[a] = alert[a]]_vars

\* One resident has at most one ACTIVE alert: the promise of the comment on
\* trigger (line 37).  findFirst and create are two statements, so two calls
\* of the same resident break it; see the run sos_duplicates.
OneActiveAlertPerResident ==
    \A a, b \in Alerts :
        Active(a) /\ Active(b) /\ a # b
            => alert[a].triggeredBy # alert[b].triggeredBy

Phase(a) ==
    IF Active(a) THEN "open" ELSE IF Closed(a) THEN "closed" ELSE "unborn"

Authors(a) == [i \in DOMAIN handover[a] |-> handover[a][i].author]

\* The refinement mapping onto the abstract life of an alert.
Registry ==
    INSTANCE SosRegistry
        WITH Staff <- Processors,
             phase <- [a \in Alerts |-> Phase(a)],
             taker <- [a \in Alerts |-> alert[a].acceptedBy],
             journal <- [a \in Alerts |-> Authors(a)]

\* The service implements the registry: seen from outside, each alert is
\* raised, taken and closed in single steps by one responsible employee.
ImplementsRegistry == Registry!Spec
=============================================================================
