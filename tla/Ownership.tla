----------------------------- MODULE Ownership -----------------------------
(***************************************************************************)
(* Claims of residents to units and their verification by the staff        *)
(* (properties.service.ts): rows of table unit_ownerships, and the complex *)
(* and the flag isVerified of each resident, which follow the rows.        *)
(*                                                                         *)
(* A call is a handler in flight; each action is its code from one await   *)
(* to the next.  Only a rejection runs in a transaction, at READ COMMITTED. *)
(***************************************************************************)
EXTENDS Naturals, FiniteSets, Functions

CONSTANTS
    People,
    Units,
    complex,        \* complex[u]: the complex that unit u belongs to
    Shares,         \* shares that residents claim and the staff approves
    Rows,           \* ids of ownership rows, each used once
    Calls,          \* handlers that can be in flight at the same time
    None

Complexes == {complex[u] : u \in Units}

OwnershipAssumption ==
    /\ Shares \subseteq 1 .. 100
    /\ IsFiniteSet(Rows)
    /\ None \notin People \cup Units \cup Complexes \cup Rows

VARIABLES
    own,        \* own[k]: the ownership row with id k
    user,       \* user[p]: the complex and the flag of resident p
    checked,    \* history: the rows that the check of confirmed row k weighed
    call        \* call[c]: the handler running in slot c

vars == <<own, user, checked, call>>

NoRow == [status |-> "unborn", by |-> None, unit |-> None, share |-> 0]

Idle == [at |-> "idle", row |-> None, by |-> None, unit |-> None,
         share |-> 0, seen |-> {}, stood |-> {}, weighed |-> {}]

Init ==
    /\ own = [k \in Rows |-> NoRow]
    /\ user = [p \in People |-> [complex |-> None, verified |-> FALSE]]
    /\ checked = [k \in Rows |-> {}]
    /\ call = [c \in Calls |-> Idle]

Alive(k) == own[k].status \in {"pending", "verified"}

Verified(k) == own[k].status = "verified"

Finish(c) == call' = [call EXCEPT ![c] = Idle]

\* What a query for the confirmed rows of a unit returns.
Confirmed(u) == {[id |-> k, share |-> own[k].share] :
                   k \in {j \in Rows : Verified(j) /\ own[j].unit = u}}

Total(found) == SumFunction([r \in found |-> r.share])

-----------------------------------------------------------------------------
(* claimOwnership.                                                         *)

\* The unique index of table unit_ownerships.
Claimed(p, u) == \E k \in Rows : Alive(k) /\ own[k].by = p /\ own[k].unit = u

ClaimCheck(c, p, u, s) ==
    /\ call[c].at = "idle"
    /\ ~Claimed(p, u)
    /\ Total(Confirmed(u)) + s <= 100
    /\ call' = [call EXCEPT ![c] =
         [Idle EXCEPT !.at = "attaching", !.by = p, !.unit = u, !.share = s]]
    /\ UNCHANGED <<own, user, checked>>

\* The resident is moved to the complex of the unit, attached or not.
ClaimAttach(c) ==
    LET q == call[c]
    IN  /\ q.at = "attaching"
        /\ user' = [user EXCEPT ![q.by].complex = complex[q.unit]]
        /\ call' = [call EXCEPT ![c].at = "claiming"]
        /\ UNCHANGED <<own, checked>>

\* The insert, which fails on the unique index.
ClaimInsert(c) ==
    LET q == call[c]
    IN  /\ q.at = "claiming"
        /\ IF Claimed(q.by, q.unit)
             THEN UNCHANGED own
             ELSE \E k \in Rows :
                    /\ own[k] = NoRow
                    /\ own' = [own EXCEPT ![k] =
                         [status |-> "pending", by |-> q.by, unit |-> q.unit,
                          share |-> q.share]]
        /\ Finish(c)
        /\ UNCHANGED <<user, checked>>

-----------------------------------------------------------------------------
(* verifyOwnership.                                                        *)

\* The row is read; a confirmed one may be approved again, or rejected.  stood
\* is a history variable: the live rows of the resident at this moment.
VerifyRead(c, k, at, s) ==
    /\ call[c].at = "idle"
    /\ Alive(k)
    /\ call' = [call EXCEPT ![c] =
         [Idle EXCEPT !.at = at, !.row = k, !.by = own[k].by,
                      !.unit = own[k].unit, !.share = s,
                      !.stood = IF at = "rejecting"
                                  THEN {j \in Rows : Alive(j) /\ own[j].by = own[k].by}
                                  ELSE {}]]
    /\ UNCHANGED <<own, user, checked>>

\* Mutant: the share to approve is left out of the sum.
Fits_Others(c, others) == Total(others) <= 100

Fits(c, others) == Total(others) + call[c].share <= 100

\* The shares of all other confirmed owners.  weighed is a history variable, as
\* nothing reads the rows again.
ApproveCheck(c) ==
    LET others == {r \in Confirmed(call[c].unit) : r.id # call[c].row}
    IN  /\ call[c].at = "weighing"
        /\ Fits(c, others)
        /\ call' = [call EXCEPT ![c].at = "approving", ![c].weighed = others]
        /\ UNCHANGED <<own, user, checked>>

\* Mutant: the update creates the row again when it is gone.
StillThere_Upsert(k) == TRUE

\* An update or a delete by id fails when the row is gone.
StillThere(k) == Alive(k)

But(found, k) == {r \in found : r.id # k}

\* No check has weighed the row as it is now.
ApproveCommit(c) ==
    LET q == call[c]
    IN  /\ q.at = "approving"
        /\ StillThere(q.row)
        /\ own' = [own EXCEPT ![q.row].status = "verified",
                              ![q.row].share = q.share]
        /\ checked' = [k \in Rows |->
             But(IF k = q.row THEN q.weighed ELSE checked[k], q.row)]
        /\ call' = [d \in Calls |->
             [call[d] EXCEPT !.at = IF d = c THEN "flagging" ELSE @,
                             !.weighed = But(@, q.row)]]
        /\ UNCHANGED user

ApproveFlag(c) ==
    /\ call[c].at = "flagging"
    /\ user' = [user EXCEPT ![call[c].by].verified = TRUE]
    /\ Finish(c)
    /\ UNCHANGED <<own, checked>>

\* Mutant: only confirmed rows keep the resident in the complex.
OthersOf_Confirmed(p, k, x) ==
    {j \in Rows \ {k} : Verified(j) /\ own[j].by = p /\ complex[own[j].unit] = x}

\* Other claims or rights of a resident in a complex.
OthersOf(p, k, x) ==
    {j \in Rows \ {k} : Alive(j) /\ own[j].by = p /\ complex[own[j].unit] = x}

\* The transaction of a rejection looks for others first.
RejectLook(c) ==
    LET q == call[c]
    IN  /\ q.at = "rejecting"
        /\ call' = [call EXCEPT ![c].at = "removing", ![c].seen =
             {[id |-> j, share |-> own[j].share] :
                j \in OthersOf(q.by, q.row, complex[q.unit])}]
        /\ UNCHANGED <<own, user, checked>>

RejectCommit(c) ==
    LET q == call[c]
    IN  /\ q.at = "removing"
        /\ StillThere(q.row)
        /\ own' = [own EXCEPT ![q.row].status = "deleted"]
        /\ user' = [user EXCEPT ![q.by].complex = IF q.seen = {} THEN None ELSE @]
        /\ Finish(c)
        /\ UNCHANGED checked

-----------------------------------------------------------------------------
(* unlinkOwnership.                                                        *)

UnlinkRead(c, k) ==
    /\ call[c].at = "idle"
    /\ Verified(k)
    /\ call' = [call EXCEPT ![c] =
         [Idle EXCEPT !.at = "unlinking", !.row = k, !.by = own[k].by,
                      !.unit = own[k].unit]]
    /\ UNCHANGED <<own, user, checked>>

UnlinkDelete(c) ==
    LET q == call[c]
    IN  /\ q.at = "unlinking"
        /\ StillThere(q.row)
        /\ own' = [own EXCEPT ![q.row].status = "deleted"]
        /\ call' = [call EXCEPT ![c].at = "counting"]
        /\ UNCHANGED <<user, checked>>

\* The handler ends here when a confirmed right remains.
UnlinkCount(c) ==
    LET q == call[c]
    IN  /\ q.at = "counting"
        /\ IF \E k \in Rows : Verified(k) /\ own[k].by = q.by
             THEN Finish(c)
             ELSE call' = [call EXCEPT ![c].at = "unflagging"]
        /\ UNCHANGED <<own, user, checked>>

UnlinkFlag(c) ==
    /\ call[c].at = "unflagging"
    /\ user' = [user EXCEPT ![call[c].by].verified = FALSE]
    /\ Finish(c)
    /\ UNCHANGED <<own, checked>>

-----------------------------------------------------------------------------
\* The process dies, or a check or a statement fails.
Abandon(c) ==
    /\ call[c].at # "idle"
    /\ Finish(c)
    /\ UNCHANGED <<own, user, checked>>

Claim(c) == ClaimAttach(c) \/ ClaimInsert(c)

Verify(c) ==
    \/ ApproveCheck(c)
    \/ ApproveCommit(c)
    \/ ApproveFlag(c)
    \/ RejectLook(c)
    \/ RejectCommit(c)

UnlinkStep(c) == UnlinkDelete(c) \/ UnlinkCount(c) \/ UnlinkFlag(c)

Next ==
    \E c \in Calls :
        \/ \E p \in People, u \in Units, s \in Shares : ClaimCheck(c, p, u, s)
        \/ \E k \in Rows :
             \/ \E s \in Shares : VerifyRead(c, k, "weighing", s)
             \/ VerifyRead(c, k, "rejecting", 0)
             \/ UnlinkRead(c, k)
        \/ Claim(c)
        \/ Verify(c)
        \/ UnlinkStep(c)
        \/ Abandon(c)

Spec == Init /\ [][Next]_vars

-----------------------------------------------------------------------------
(* Properties.                                                             *)

\* Rows and handlers keep their shape, and a resident has at most one live row
\* for a unit.
TypeOK ==
    /\ own \in [Rows ->
         [status : {"unborn", "pending", "verified", "deleted"},
          by : People \cup {None}, unit : Units \cup {None},
          share : Shares \cup {0}]]
    /\ user \in [People -> [complex : Complexes \cup {None}, verified : BOOLEAN]]
    /\ \A k \in Rows, j \in Rows :
         Alive(k) /\ Alive(j) /\ own[k].by = own[j].by /\ own[k].unit = own[j].unit
           => k = j

\* This step is the rejection by handler c, and takes the resident's complex.
Detaches(c) ==
    /\ call[c].at = "removing"
    /\ call'[c] # call[c]
    /\ user[call[c].by].complex # None
    /\ user'[call[c].by].complex = None

Weighed(k, j) == \E r \in checked[k] : r.id = j

\* The confirmed shares of a unit exceed the whole only when two of them were
\* confirmed without either check having seen the other as it was confirmed
\* last (lines 514-531).
OverfullOnlyByRace ==
    \A u \in Units :
        Total(Confirmed(u)) > 100 =>
            \E k, j \in {i \in Rows : Verified(i) /\ own[i].unit = u} :
                k # j /\ ~Weighed(k, j) /\ ~Weighed(j, k)

\* A right that was rejected or unlinked never comes back, whatever handler
\* read it before (the statements by id of lines 579 and 1043).
GoneStaysGone ==
    [][\A k \in Rows : own[k].status = "deleted" => own'[k] = own[k]]_vars

\* A rejection sees every other claim of the resident: whoever had one in the
\* same complex when the rejection began, and still has it, stays attached
\* (lines 535-559).
RejectionSparesOthers ==
    [][\A c \in Calls :
         Detaches(c) =>
            ~\E j \in call[c].stood \ {call[c].row} :
                Alive(j) /\ complex[own[j].unit] = complex[call[c].unit]]_vars
=============================================================================
