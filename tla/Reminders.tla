----------------------------- MODULE Reminders -----------------------------
(***************************************************************************)
(* The sweeps that send reminders on a schedule: overdue balances, meter   *)
(* readings, meetings about to end, bookings about to begin, unanswered    *)
(* claims, stuck requests; and the alert that guest parking is full.  Each *)
(* is silenced by a flag in Redis once it has been sent.  Every instance   *)
(* of the backend runs every sweep, and sweeps of one instance can overlap. *)
(*                                                                         *)
(* A sweep hands a reminder to NotificationsService and never learns what  *)
(* became of it: the call returns too when the category is switched off,   *)
(* when there is no device, and when the push failed.  It throws when a    *)
(* query for the preferences or the devices does.                          *)
(*                                                                         *)
(* One flag is modelled, as a sweep treats the things it lists apart.  The *)
(* actions of a sweep are its code from one await to the next.             *)
(***************************************************************************)
EXTENDS FiniteSets

CONSTANTS
    Recipients,     \* calls of one reminder: per owner, or one for the staff
    Sweeps          \* sweeps that can be under way at the same time

VARIABLES
    kind,       \* "reminder", or "alert" for the parking check
    due,        \* what the sweep's query tests holds now
    flag,       \* the key in Redis
    handed,     \* history: whose call returned since the flag could be set
    tried,      \* history: whose call the sweep that set the flag made
    blind,      \* history: a call returned and no flag remains to show it
    sweep       \* sweep[w]: where sweep w is with this flag

vars == <<kind, due, flag, handed, tried, blind, sweep>>

\* found: it was due in the list; left: calls to be made; sent: one returned.
\* The rest is history: the calls made; that no other sweep was at it; that it
\* changed since the list.
Idle == [at |-> "idle", found |-> FALSE, left |-> {}, sent |-> FALSE,
         made |-> {}, alone |-> TRUE, stale |-> FALSE]

Init ==
    /\ kind \in {"reminder", "alert"}
    /\ due = FALSE
    /\ flag = FALSE
    /\ handed = {}
    /\ tried = {}
    /\ blind = FALSE
    /\ sweep = [w \in Sweeps |-> Idle]

-----------------------------------------------------------------------------
\* Mutant: the query lists everything.
Listable_All == TRUE

\* Reminders are about what the query lists, the alert about every car park.
Listable == due \/ kind = "alert"

List(w) ==
    /\ sweep[w].at = "idle"
    /\ Listable
    /\ sweep' = [sweep EXCEPT ![w] = [Idle EXCEPT !.at = "listed", !.found = due]]
    /\ UNCHANGED <<kind, due, flag, handed, tried, blind>>

At(w) == sweep[w].at \in {"sending", "flagging", "clearing"}

Enter(w, at, left) ==
    LET others == {v \in Sweeps : At(v)}
    IN  sweep' = [v \in Sweeps |->
          IF v = w
            THEN [sweep[w] EXCEPT !.at = at, !.left = left, !.alone = (others = {})]
            ELSE [sweep[v] EXCEPT !.alone = @ /\ v \notin others]]

Leave(w) == sweep' = [sweep EXCEPT ![w] = Idle]

\* Mutant: the flag is not looked at.
Silenced_Never == FALSE

Silenced == flag

LookDue(w) ==
    /\ sweep[w].at = "listed"
    /\ sweep[w].found
    /\ IF Silenced THEN Leave(w) ELSE Enter(w, "sending", Recipients)
    /\ UNCHANGED <<kind, due, flag, handed, tried, blind>>

\* A car park with a free place: the flag is dropped, if there is one.
LookFree(w) ==
    /\ sweep[w].at = "listed"
    /\ ~sweep[w].found
    /\ IF flag THEN Enter(w, "clearing", {}) ELSE Leave(w)
    /\ UNCHANGED <<kind, due, flag, handed, tried, blind>>

\* The call for r returns, whether or not anything reached r.
Send(w, r) ==
    /\ sweep[w].at = "sending"
    /\ r \in sweep[w].left
    /\ handed' = handed \cup {r}
    /\ sweep' = [sweep EXCEPT ![w].left = @ \ {r}, ![w].made = @ \cup {r},
                              ![w].sent = TRUE]
    /\ UNCHANGED <<kind, due, flag, tried, blind>>

\* The call for r throws, which is caught, and the next one is made.
SendThrows(w, r) ==
    /\ sweep[w].at = "sending"
    /\ r \in sweep[w].left
    /\ sweep' = [sweep EXCEPT ![w].left = @ \ {r}, ![w].made = @ \cup {r}]
    /\ UNCHANGED <<kind, due, flag, handed, tried, blind>>

\* sentToAtLeastOne, or no throw where there is one call.
Earned(w) == sweep[w].sent

\* Mutant: the flag is set in the loop, after the first call that returns.
Tried_InLoop(w) ==
    /\ sweep[w].at = "sending"
    /\ sweep[w].left = {} \/ Earned(w)
    /\ IF Earned(w)
         THEN sweep' = [sweep EXCEPT ![w].at = "flagging"]
         ELSE Leave(w)
    /\ UNCHANGED <<kind, due, flag, handed, tried, blind>>

\* All calls were made: the flag is set when at least one returned.
Tried(w) ==
    /\ sweep[w].at = "sending"
    /\ sweep[w].left = {}
    /\ IF Earned(w)
         THEN sweep' = [sweep EXCEPT ![w].at = "flagging"]
         ELSE Leave(w)
    /\ UNCHANGED <<kind, due, flag, handed, tried, blind>>

SetFlag(w) ==
    /\ sweep[w].at = "flagging"
    /\ flag' = TRUE
    /\ tried' = sweep[w].made
    /\ blind' = FALSE
    /\ Leave(w)
    /\ UNCHANGED <<kind, due, handed>>

Clear(w) ==
    /\ sweep[w].at = "clearing"
    /\ flag' = FALSE
    /\ blind' = (blind \/ sweep[w].stale)
    /\ Leave(w)
    /\ UNCHANGED <<kind, due, handed, tried>>

\* The process dies, or Redis or a statement fails.
Fail(w) ==
    /\ sweep[w].at # "idle"
    /\ blind' = (blind \/ sweep[w].sent)
    /\ Leave(w)
    /\ UNCHANGED <<kind, due, flag, handed, tried>>

-----------------------------------------------------------------------------
\* A reading comes, a debt is paid, a booking is cancelled, a car park fills or
\* has a free place again, with which a new time to alert begins.
Change ==
    /\ due' = ~due
    /\ handed' = IF kind = "alert" THEN {} ELSE handed
    /\ sweep' = [w \in Sweeps |-> IF sweep[w].at = "idle" THEN Idle
                                  ELSE [sweep[w] EXCEPT !.stale = TRUE]]
    /\ UNCHANGED <<kind, flag, tried, blind>>

\* Mutant: the flag is set for good.
Expire_Never == FALSE

\* The flag has a time to live, after which it is time to remind again.
Expire ==
    /\ flag
    /\ flag' = FALSE
    /\ handed' = {}
    /\ UNCHANGED <<kind, due, tried, blind, sweep>>

Work(w) ==
    \/ LookDue(w)
    \/ LookFree(w)
    \/ \E r \in Recipients : Send(w, r) \/ SendThrows(w, r)
    \/ Tried(w)
    \/ SetFlag(w)
    \/ Clear(w)

Next ==
    \/ \E w \in Sweeps : List(w) \/ Work(w) \/ Fail(w)
    \/ Change
    \/ Expire

\* Schedules fire again and again and flags expire; no step of a sweep fails
\* every time it is tried.  Of a call this asks that the queries of
\* NotificationsService do not throw every time; a push that fails every time,
\* which is swallowed there, is a call that returns.
Fairness ==
    /\ WF_vars(Expire)
    /\ \A w \in Sweeps :
         /\ WF_vars(List(w))
         /\ WF_vars(LookFree(w) \/ Clear(w))
         /\ SF_vars(LookDue(w))
         /\ SF_vars(\E r \in Recipients : Send(w, r))
         /\ SF_vars(Tried(w))
         /\ SF_vars(SetFlag(w))

Spec == Init /\ [][Next]_vars /\ Fairness

-----------------------------------------------------------------------------
(* Properties.                                                             *)

\* Flags and sweeps have the shape the code gives them, and only the check of
\* the car parks drops a flag.
TypeOK ==
    /\ kind \in {"reminder", "alert"}
    /\ due \in BOOLEAN /\ flag \in BOOLEAN /\ blind \in BOOLEAN
    /\ handed \subseteq Recipients /\ tried \subseteq Recipients
    /\ sweep \in [Sweeps ->
         [at : {"idle", "listed", "sending", "flagging", "clearing"},
          found : BOOLEAN, left : SUBSET Recipients, sent : BOOLEAN,
          made : SUBSET Recipients, alone : BOOLEAN, stale : BOOLEAN]]
    /\ \A w \in Sweeps : sweep[w].at = "clearing" => kind = "alert"

\* A flag silences a reminder only when the call for every recipient was made:
\* a throw for one owner, which does not keep the flag from being set, does not
\* keep the others from being tried (finance-scheduler.service.ts:149-169,
\* meters-scheduler.service.ts:147-170).
EveryoneWasTried == flag => tried = Recipients

\* A reminder is handed on twice for a recipient while a flag lasts only when
\* two sweeps were at it together, or one of them could not set the flag, or
\* dropped it on a list that was out of date
\* (bookings-scheduler.service.ts:89-116, 207-238).
RepeatOnlyByRaceOrFailure ==
    [][\A w \in Sweeps, r \in Recipients :
         Send(w, r) /\ r \in handed =>
            blind \/ ~sweep[w].alone \/ sweep[w].stale]_vars

\* What stays due is handed on again and again, each time the flag expires,
\* although sweeps die and the calls for some recipient may always throw
\* (service-requests-sla-scheduler.service.ts:118-163).
DueIsHandedOn == <>[]due => []<>(\E w \in Sweeps : sweep[w].sent)
=============================================================================
