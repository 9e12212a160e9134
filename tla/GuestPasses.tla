---------------------------- MODULE GuestPasses ----------------------------
(***************************************************************************)
(* One guest pass (access-control.service.ts): a resident or a guard       *)
(* issues it, guards confirm the guest's entry with it, and its creator or *)
(* the staff revokes it, while its period of validity begins and ends.     *)
(*                                                                         *)
(* A call is a handler in flight; each action is its code from one await   *)
(* to the next.  The checks of who may act are the set Staff.              *)
(***************************************************************************)
EXTENDS Naturals, FiniteSets, Sequences

CONSTANTS
    Staff,          \* employees of the complex
    Creator,
    Calls,          \* handlers that can be in flight at the same time
    MaxEntries,     \* bound on confirmed entries
    Nobody

GuestPassAssumption ==
    /\ Nobody \notin Staff \cup {Creator}
    /\ MaxEntries \in Nat

VARIABLES
    clock,      \* "before", "during" or "after" the period of validity
    pass,       \* the row of table guest_passes
    audit,      \* the audit rows about the pass, oldest first
    entries,    \* history: how many entries were confirmed
    call        \* call[c]: the handler running in slot c

vars == <<clock, pass, audit, entries, call>>

\* seen is a history variable of a handler: the entries confirmed when it read.
Idle == [at |-> "idle", by |-> Nobody, seen |-> 0]

\* createGuestPass: the pass, and its audit row unless that insert fails.
Init ==
    /\ clock \in {"before", "during", "after"}
    /\ pass = [used |-> FALSE, revoked |-> FALSE, revokedBy |-> Nobody]
    /\ audit \in {<<>>, <<[action |-> "ISSUED", by |-> Creator]>>}
    /\ entries = 0
    /\ call = [c \in Calls |-> Idle]

Finish(c) == call' = [call EXCEPT ![c] = Idle]

Begin(c, at, p) ==
    call' = [call EXCEPT ![c] = [at |-> at, by |-> p, seen |-> entries]]

\* computeGuestPassStatus; mutant: the end of the period hides the rest.
Status_ByTime ==
    IF clock = "after" THEN "EXPIRED"
    ELSE IF pass.revoked THEN "REVOKED"
    ELSE IF pass.used THEN "USED" ELSE "ACTIVE"

Status ==
    CASE pass.revoked -> "REVOKED"
      [] ~pass.revoked /\ pass.used -> "USED"
      [] ~pass.revoked /\ ~pass.used /\ clock = "after" -> "EXPIRED"
      [] OTHER -> "ACTIVE"

-----------------------------------------------------------------------------
(* redeemGuestPass.                                                        *)

\* Mutant: a pass that was used before is good as long as it is valid.
Redeemable_Again == ~pass.revoked /\ clock = "during"

Redeemable == ~pass.revoked /\ ~pass.used /\ clock = "during"

RedeemRead(c, p) ==
    /\ call[c].at = "idle"
    /\ Redeemable
    /\ Begin(c, "redeeming", p)
    /\ UNCHANGED <<clock, pass, audit, entries>>

\* The update is by id: nothing is compared again.
RedeemCommit(c) ==
    /\ call[c].at = "redeeming"
    /\ entries < MaxEntries
    /\ pass' = [pass EXCEPT !.used = TRUE]
    /\ entries' = entries + 1
    /\ call' = [call EXCEPT ![c].at = "noting-entry"]
    /\ UNCHANGED <<clock, audit>>

-----------------------------------------------------------------------------
(* revokeGuestPass.                                                        *)

RevokedBy(p) == [pass EXCEPT !.revoked = TRUE, !.revokedBy = p]

\* Mutant: the revocation is noted before it is made.
RevokeRead_NotedFirst(c, p) ==
    /\ call[c].at = "idle"
    /\ ~pass.revoked
    /\ audit' = Append(audit, [action |-> "REVOKED", by |-> p])
    /\ Begin(c, "revoking", p)
    /\ UNCHANGED <<clock, pass, entries>>

RevokeRead(c, p) ==
    /\ call[c].at = "idle"
    /\ ~pass.revoked
    /\ Begin(c, "revoking", p)
    /\ UNCHANGED <<clock, pass, audit, entries>>

RevokeCommit(c) ==
    /\ call[c].at = "revoking"
    /\ pass' = RevokedBy(call[c].by)
    /\ call' = [call EXCEPT ![c].at = "noting-revocation"]
    /\ UNCHANGED <<clock, audit, entries>>

\* The audit row, after the update.
Note(c) ==
    LET action == IF call[c].at = "noting-entry" THEN "REDEEMED" ELSE "REVOKED"
    IN  /\ call[c].at \in {"noting-entry", "noting-revocation"}
        /\ audit' = Append(audit, [action |-> action, by |-> call[c].by])
        /\ Finish(c)
        /\ UNCHANGED <<clock, pass, entries>>

-----------------------------------------------------------------------------
Tick ==
    /\ clock' = IF clock = "before" THEN "during" ELSE "after"
    /\ UNCHANGED <<pass, audit, entries, call>>

\* The process dies, or a statement fails.
Abandon(c) ==
    /\ call[c].at # "idle"
    /\ Finish(c)
    /\ UNCHANGED <<clock, pass, audit, entries>>

Next ==
    \/ Tick
    \/ \E c \in Calls :
         \/ \E p \in Staff : RedeemRead(c, p)
         \/ \E p \in Staff \cup {Creator} : RevokeRead(c, p)
         \/ RedeemCommit(c)
         \/ RevokeCommit(c)
         \/ Note(c)
         \/ Abandon(c)

Spec == Init /\ [][Next]_vars

-----------------------------------------------------------------------------
(* Properties.                                                             *)

\* Rows and handlers have the shape the code gives them; who revoked a pass is
\* stored with the revocation.
TypeOK ==
    /\ clock \in {"before", "during", "after"}
    /\ pass \in [used : BOOLEAN, revoked : BOOLEAN,
                 revokedBy : Staff \cup {Creator, Nobody}]
    /\ pass.revoked <=> pass.revokedBy # Nobody
    /\ entries \in 0 .. MaxEntries
    /\ audit \in Seq([action : {"ISSUED", "REDEEMED", "REVOKED"},
                     by : Staff \cup {Creator}])
    /\ call \in [Calls ->
         [at : {"idle", "redeeming", "revoking", "noting-entry",
                "noting-revocation"},
          by : Staff \cup {Creator, Nobody}, seen : 0 .. MaxEntries]]

Rank == [ACTIVE |-> 0, EXPIRED |-> 1, USED |-> 2, REVOKED |-> 3]

\* What the clients show of a pass only advances: however confirmations,
\* revocations and the clock race, no pass becomes good again, and an entry or
\* a revocation is not hidden later by the end of the period (lines 845-858).
StatusOnlyAdvances == [][Rank[Status] <= Rank[Status']]_vars

\* A second entry with one pass needs a guard who had read it before the first
\* was confirmed (lines 1091-1125).
SecondEntryOnlyByRace ==
    [][\A c \in Calls :
         call[c].at = "redeeming" /\ entries' > entries /\ call'[c] # call[c]
           => call[c].seen = 0]_vars

RowsOf(action) == {i \in DOMAIN audit : audit[i].action = action}

Busy(at) == {c \in Calls : call[c].at = at}

\* The audit log, written after each update, never tells of an entry or a
\* revocation that did not happen, though handlers write it in any order.
AuditTellsNoMore ==
    /\ Cardinality(RowsOf("REDEEMED")) + Cardinality(Busy("noting-entry")) <= entries
    /\ RowsOf("REVOKED") # {} => pass.revoked
=============================================================================
