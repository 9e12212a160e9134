-------------------------- MODULE ServiceRequests --------------------------
(***************************************************************************)
(* The life of one service request (service-requests.service.ts): staff    *)
(* change its status and assignee under an optimistic lock on updatedAt,   *)
(* its creator (a resident, or an employee who filed it: createRequest      *)
(* admits both) rates it, which closes it without that lock.               *)
(* Requests do not interact, so one row is modelled.                       *)
(*                                                                         *)
(* A call is a handler in flight; it keeps the row it read (`seen`).  The  *)
(* read of the assignee candidate sits between that read and the           *)
(* transaction; it is folded into the read, which loses nothing, since a   *)
(* row changed meanwhile makes the conditional update fail.                *)
(*                                                                         *)
(* updatedAt is stamped by Prisma with the current millisecond.  The model *)
(* takes two writes of one row to fall in different milliseconds, as the   *)
(* lock itself does.                                                       *)
(***************************************************************************)
EXTENDS Naturals, Sequences

CONSTANTS
    Staff,          \* HOA_ADMIN, DISPATCHER and SUPERADMIN users
    Assignable,     \* active HOA_ADMIN and DISPATCHER users of the complex
    Creator,        \* who filed the request: a resident or an employee
    Nobody,
    Statuses,       \* those of enum RequestStatus
    Calls,          \* handlers that can be in flight at the same time
    MaxWrites       \* bound: committed writes of the row

ASSUME PeopleAssumption == Nobody \notin Staff \cup Assignable \cup {Creator}

\* The three statuses the server treats apart; it lets staff move a request
\* from any status to any other, so the rest differ in name only.
ASSUME StatusAssumption == {"PENDING", "ASSIGNED", "CLOSED"} \subseteq Statuses

ASSUME BoundAssumption == MaxWrites \in Nat

VARIABLES
    row,        \* the row of table service_requests
    history,    \* its rows in table audit_logs, oldest first
    card,       \* card[s]: the row as the web page of s shows it
    told,       \* the status of the last push to the creator, or Nobody
    call        \* call[c]: the handler running in slot c

vars == <<row, history, card, told, call>>

\* The rating itself is left out: nothing reads it here.
Row == [status : Statuses, assignee : Assignable \cup {Nobody}, updatedAt : Nat]

\* `via`, the method that wrote the entry, is kept for the properties only: an
\* actorId does not tell, since an employee may rate a request of their own.
Change == [by : Staff \cup {Creator},
           via : {"update", "rating"},
           from : Statuses, to : Statuses,
           fromAssignee : Assignable \cup {Nobody},
           toAssignee : Assignable \cup {Nobody}]

\* createRequest.
NewRow == [status |-> "PENDING", assignee |-> Nobody, updatedAt |-> 0]

Handler ==
    [at : {"idle", "updating", "telling", "rating"},
     by : Staff \cup {Creator, Nobody},
     status : Statuses, assignee : Assignable \cup {Nobody},
     seen : Row, based : Row]

Idle == [at |-> "idle", by |-> Nobody, status |-> "PENDING",
         assignee |-> Nobody, seen |-> NewRow, based |-> NewRow]

Init ==
    /\ row = NewRow
    /\ history = <<>>
    /\ card = [s \in Staff |-> NewRow]
    /\ told = Nobody
    /\ call = [c \in Calls |-> Idle]

Finish(c) == call' = [call EXCEPT ![c] = Idle]

-----------------------------------------------------------------------------
(* updateStatus.                                                           *)

\* An employee opens or refreshes the card of the request.
OpenCard(s) ==
    /\ card[s] # row
    /\ card' = [card EXCEPT ![s] = row]
    /\ UNCHANGED <<row, history, told, call>>

\* The checks that only need the row just read, the target status and the
\* assignee that results.  Saving what is already there is answered at once.
Acceptable(status, assignee) ==
    /\ status = "ASSIGNED" => assignee # Nobody
    /\ status # row.status \/ assignee # row.assignee

UpdateRead(c, s, status, assignee, based) ==
    /\ call[c].at = "idle"
    /\ Acceptable(status, assignee)
    /\ call' = [call EXCEPT ![c] =
         [at |-> "updating", by |-> s, status |-> status,
          assignee |-> assignee, seen |-> row, based |-> based]]
    /\ UNCHANGED <<row, history, card, told>>

\* Mutant: the role of the candidate is not looked at.
NextAssignees_AnyRole == Assignable \cup {row.assignee, Creator}

\* Without assigneeId in the request the assignee read from the row stays.
NextAssignees == Assignable \cup {row.assignee}

\* The web page sends expectedUpdatedAt: the change is based on its card.
WebUpdate(c, s) ==
    /\ card[s].updatedAt = row.updatedAt
    /\ \E status \in Statuses, assignee \in NextAssignees :
         UpdateRead(c, s, status, assignee, card[s])

\* A mobile client sends no version: the change is based on the row read.
MobileUpdate(c, s) ==
    \E status \in Statuses, assignee \in NextAssignees :
        UpdateRead(c, s, status, assignee, row)

\* Mutant: the update names the row by its id only.
Unchanged_NoVersion(c) == TRUE

\* The conditional update finds the row as it was read.
Unchanged(c) == row.updatedAt = call[c].seen.updatedAt

Stamp == row.updatedAt + 1

\* Update and history row commit together; from is what the handler read.
UpdateCommit(c) ==
    /\ call[c].at = "updating"
    /\ Unchanged(c)
    /\ row.updatedAt < MaxWrites
    /\ row' = [row EXCEPT !.status = call[c].status,
                          !.assignee = call[c].assignee,
                          !.updatedAt = Stamp]
    /\ history' = Append(history,
         [by |-> call[c].by, via |-> "update",
          from |-> call[c].seen.status, to |-> call[c].status,
          fromAssignee |-> call[c].seen.assignee,
          toAssignee |-> call[c].assignee])
    /\ call' = [call EXCEPT ![c].at = "telling"]
    /\ UNCHANGED <<card, told>>

\* Mutant: the conflict is swallowed and the creator is told.
UpdateConflict_Told(c) ==
    /\ call[c].at = "updating"
    /\ ~Unchanged(c)
    /\ call' = [call EXCEPT ![c].at = "telling"]
    /\ UNCHANGED <<row, history, card, told>>

\* P2025: UPDATE_CONFLICT.
UpdateConflict(c) ==
    /\ call[c].at = "updating"
    /\ ~Unchanged(c)
    /\ Finish(c)
    /\ UNCHANGED <<row, history, card, told>>

\* The push to the creator; a failure is swallowed.
TellCreator(c) ==
    /\ call[c].at = "telling"
    /\ told' \in {told, call[c].status}
    /\ Finish(c)
    /\ UNCHANGED <<row, history, card>>

-----------------------------------------------------------------------------
(* rateRequest.                                                            *)

RateRead(c) ==
    /\ call[c].at = "idle"
    /\ call' = [call EXCEPT ![c] =
         [Idle EXCEPT !.at = "rating", !.by = Creator, !.seen = row]]
    /\ UNCHANGED <<row, history, card, told>>

\* Mutant: the row is written back as it was read.
RatedRow_AsRead(c) ==
    [call[c].seen EXCEPT !.status = "CLOSED", !.updatedAt = Stamp]

RatedRow(c) == [row EXCEPT !.status = "CLOSED", !.updatedAt = Stamp]

\* The update names the row by its id only, and the history gains a row only
\* if the request was open when it was read.
RateCommit(c) ==
    /\ call[c].at = "rating"
    /\ row.updatedAt < MaxWrites
    /\ row' = RatedRow(c)
    /\ history' =
         IF call[c].seen.status = "CLOSED"
           THEN history
           ELSE Append(history,
                  [by |-> Creator, via |-> "rating",
                   from |-> call[c].seen.status, to |-> "CLOSED",
                   fromAssignee |-> call[c].seen.assignee,
                   toAssignee |-> call[c].seen.assignee])
    /\ Finish(c)
    /\ UNCHANGED <<card, told>>

-----------------------------------------------------------------------------
\* The process dies, or a statement fails and the transaction rolls back.
Abandon(c) ==
    /\ call[c].at # "idle"
    /\ Finish(c)
    /\ UNCHANGED <<row, history, card, told>>

Next ==
    \/ \E s \in Staff : OpenCard(s)
    \/ \E c \in Calls :
         \/ \E s \in Staff : WebUpdate(c, s) \/ MobileUpdate(c, s)
         \/ UpdateCommit(c)
         \/ UpdateConflict(c)
         \/ TellCreator(c)
         \/ RateRead(c)
         \/ RateCommit(c)
         \/ Abandon(c)

Spec == Init /\ [][Next]_vars

-----------------------------------------------------------------------------
(* Properties.                                                             *)

\* The row, its history, the cards and the handlers have the shape the code
\* gives them.
TypeOK ==
    /\ row \in Row
    /\ history \in Seq(Change)
    /\ card \in [Staff -> Row]
    /\ told \in Statuses \cup {Nobody}
    /\ call \in [Calls -> Handler]

\* No employee's change replaces a status or an assignee that the change was
\* not based on: the row its page showed, or the row the handler read for a
\* client that sends no version (lines 241 and 265).
NoBlindOverwrite ==
    [][\A c \in Calls :
         call[c].at = "updating" /\ call'[c].at = "telling" =>
             /\ row.status = call[c].based.status
             /\ row.assignee = call[c].based.assignee]_vars

\* A request that got a responsible employee keeps one, and an ASSIGNED one
\* has one: the assignee of a change may come from a row read long before.
AssigneeSticks ==
    [][row.assignee # Nobody => row'.assignee # Nobody]_vars

AssignedHasAssignee == row.status = "ASSIGNED" => row.assignee # Nobody

\* An entry of updateStatus, not of rateRequest.
ByUpdate(change) == change.via = "update"

\* The status the history leaves off at before entry i.
StatusBefore(i) == IF i = 1 THEN "PENDING" ELSE history[i - 1].to

\* Read in order, the history explains every change of updateStatus: each
\* starts at the status the previous entry left or at CLOSED, and the row is
\* now at the last entry's status or CLOSED.  (A rating may close the request
\* without an entry, see HistoryEndsAtStatus, and its own entry starts at the
\* status it read, which may be long gone.)
StaffHistoryContinuous ==
    /\ \A i \in DOMAIN history :
         ByUpdate(history[i]) => history[i].from \in {StatusBefore(i), "CLOSED"}
    /\ row.status \in {StatusBefore(Len(history) + 1), "CLOSED"}

\* The employee whom the last change of updateStatus names is the one
\* responsible now, although ratings, an employee's of a request they filed
\* among them, add entries with an assignee read earlier.
HistoryNamesAssignee ==
    \/ /\ row.assignee = Nobody
       /\ \A i \in DOMAIN history : ~ByUpdate(history[i])
    \/ \E i \in DOMAIN history :
         /\ ByUpdate(history[i])
         /\ row.assignee = history[i].toAssignee
         /\ \A j \in DOMAIN history : ByUpdate(history[j]) => j <= i

\* The creator is never told a status that no committed change gave.
ToldIsRecorded ==
    told # Nobody =>
        \E i \in DOMAIN history : ByUpdate(history[i]) /\ history[i].to = told

\* The history ends at the status the request has: a rating that closes it is
\* recorded too (tasks/0100-dispatcher-request-workflow.md:16).  A rating that
\* read CLOSED before an employee reopened the request closes it silently; see
\* the run requests_silent_close.
HistoryEndsAtStatus == row.status = StatusBefore(Len(history) + 1)
=============================================================================
