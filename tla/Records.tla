------------------------------ MODULE Records ------------------------------
(***************************************************************************)
(* The records of a complex that share no state: the personal accounts, a  *)
(* meter, the ownership of units, a guest pass, a conversation, a listing. *)
(* No handler of one reads or writes the tables of another, so nothing is  *)
(* lost when each is followed by itself: the scene says which one moves.   *)
(*                                                                         *)
(* The generation of charges reads the meter.  Accounts leaves open whether *)
(* a tariff by consumption is charged, and Meters holds the billing steps. *)
(***************************************************************************)
EXTENDS Naturals, Sequences

CONSTANTS
    None,
    Calls,          \* handlers that can be in flight at the same time
    Accounts, Tariffs, Metered, AccountPeriods, MaxPayments,
    Periods, Values, initialValue,
    People, Units, complex, Shares, Rows,
    Staff, Creator, MaxEntries,
    Window, MaxMessages,
    MaxRemovals

VARIABLES
    scene,
    charges, paid, balance, raced, broken, acall,       \* personal accounts
    active, reading, charge, mcall,                     \* a meter
    own, user, checked, ocall,                          \* ownership
    clock, pass, paudit, entries, pcall,                \* a guest pass
    conv, messages, shown, excused, orphans, crossed, ccall, \* a conversation
    old, listing, laudit, removals, lost, lcall         \* a listing

A == INSTANCE Accounts WITH Periods <- AccountPeriods, call <- acall

M == INSTANCE Meters WITH call <- mcall

O == INSTANCE Ownership WITH call <- ocall

G == INSTANCE GuestPasses WITH Nobody <- None, audit <- paudit, call <- pcall

C == INSTANCE Conversations WITH call <- ccall

L == INSTANCE CommunityBoard WITH
        Moderators <- Staff, audit <- laudit, call <- lcall

ASSUME RecordsAssumption ==
    /\ A!AccountsAssumption
    /\ M!MetersAssumption
    /\ O!OwnershipAssumption
    /\ G!GuestPassAssumption
    /\ C!ConversationAssumption
    /\ L!BoardAssumption

accountVars == <<charges, paid, balance, raced, broken, acall>>
meterVars == <<active, reading, charge, mcall>>
unitVars == <<own, user, checked, ocall>>
passVars == <<clock, pass, paudit, entries, pcall>>
chatVars == <<conv, messages, shown, excused, orphans, crossed, ccall>>
boardVars == <<old, listing, laudit, removals, lost, lcall>>

Scenes == {"accounts", "meter", "units", "pass", "chat", "board"}

\* The initial states of a pass differ; where it does not move one is enough.
Init ==
    /\ scene \in Scenes
    /\ A!Init
    /\ M!Init
    /\ O!Init
    /\ G!Init
    /\ scene # "pass" => clock = "before" /\ paudit = <<>>
    /\ C!Init
    /\ L!Init

Next ==
    /\ UNCHANGED scene
    /\ \/ scene = "accounts" /\ A!Next
       \/ scene # "accounts" /\ UNCHANGED accountVars
    /\ \/ scene = "meter" /\ M!Next
       \/ scene # "meter" /\ UNCHANGED meterVars
    /\ \/ scene = "units" /\ O!Next
       \/ scene # "units" /\ UNCHANGED unitVars
    /\ \/ scene = "pass" /\ G!Next
       \/ scene # "pass" /\ UNCHANGED passVars
    /\ \/ scene = "chat" /\ C!Next
       \/ scene # "chat" /\ UNCHANGED chatVars
    /\ \/ scene = "board" /\ L!Next
       \/ scene # "board" /\ UNCHANGED boardVars

vars == <<scene, accountVars, meterVars, unitVars, passVars, chatVars, boardVars>>

Spec == Init /\ [][Next]_vars

-----------------------------------------------------------------------------
(* Properties: those of the modules, where each is explained.              *)

\* Rows and handlers of every record have the shape the code gives them.
TypeOK ==
    /\ A!TypeOK
    /\ M!TypeOK
    /\ O!TypeOK
    /\ G!TypeOK
    /\ C!TypeOK
    /\ L!TypeOK

\* A settled balance is exact but after overlapping recalculations or a crash
\* (finance.service.ts:352-355, 393, 571-591).
BalanceWrongOnlyByRaceOrCrash == A!BalanceWrongOnlyByRaceOrCrash

\* Consumption is billed twice only when the later charge did not see the
\* earlier reading, or readings decrease (finance.service.ts:283-309).
BilledAgainOnlyUnseen == M!BilledAgainOnlyUnseen

\* The confirmed shares of a unit exceed the whole only by a race of two
\* approvals (properties.service.ts:514-531).
OverfullOnlyByRace == O!OverfullOnlyByRace

\* A rejected or unlinked right never comes back
\* (properties.service.ts:579, 1043).
GoneStaysGone == O!GoneStaysGone

\* A rejection leaves residents with another claim in the complex attached
\* (properties.service.ts:535-559).
RejectionSparesOthers == O!RejectionSparesOthers

\* What the clients show of a guest pass only advances
\* (access-control.service.ts:843-858).
StatusOnlyAdvances == G!StatusOnlyAdvances

\* A second entry with one pass needs a guard who read it before the first
\* (access-control.service.ts:1091-1125).
SecondEntryOnlyByRace == G!SecondEntryOnlyByRace

\* The audit log never tells of an entry or a revocation that did not happen
\* (access-control.service.ts:1010-1031, 1153-1168).
AuditTellsNoMore == G!AuditTellsNoMore

\* A resolved conversation hides no newer message of the resident but by a
\* crash or an overlapping resolution (chat.service.ts:291-302, 589-597).
NothingNewIsHidden == C!NothingNewIsHidden

\* What the staff is told it has read, it was shown (chat.service.ts:460-479).
ReadWasShown == C!ReadWasShown

\* A listing that was taken down comes back only by a handler that had read it
\* before (community-board.service.ts:202-207, 233-236).
BackOnlyByRace == L!BackOnlyByRace
=============================================================================
