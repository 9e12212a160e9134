--------------------------- MODULE CommunityBoard ---------------------------
(***************************************************************************)
(* One listing of the community board (community-board.service.ts): its    *)
(* author edits it, moderators take it down, and every night a sweep puts  *)
(* old listings into the archive (community-board-scheduler.service.ts).   *)
(*                                                                         *)
(* A call is a handler, or a sweep, in flight; each action is its code     *)
(* from one await to the next.  Every update is by id.                     *)
(***************************************************************************)
EXTENDS Naturals, FiniteSets

CONSTANTS
    Moderators,
    Calls,          \* handlers and sweeps that can be in flight together
    MaxRemovals,    \* bound on the removals
    None

BoardAssumption ==
    /\ None \notin Moderators
    /\ IsFiniteSet(Calls)
    /\ MaxRemovals \in Nat

VARIABLES
    old,        \* created longer ago than a listing is kept on the board
    listing,    \* the row of table community_listings
    audit,      \* the number of LISTING_MODERATED rows about it
    removals,   \* history: how many times it was taken down
    lost,       \* history: removals whose handler died before the audit row
    call        \* call[c]: the handler running in slot c

vars == <<old, listing, audit, removals, lost, call>>

\* What an author can set; "same" is an edit that leaves the status alone.
Editable == {"ACTIVE", "CLOSED", "ARCHIVED", "same"}

\* seen is a history variable of a handler: the removals before it read.
Idle == [at |-> "idle", status |-> "same", by |-> None, seen |-> 0]

\* createListing.
Init ==
    /\ old = FALSE
    /\ listing = [status |-> "ACTIVE", removedBy |-> None]
    /\ audit = 0
    /\ removals = 0
    /\ lost = 0
    /\ call = [c \in Calls |-> Idle]

Begin(c, at, s, m) ==
    call' = [call EXCEPT ![c] = [at |-> at, status |-> s, by |-> m, seen |-> removals]]

Finish(c) == call' = [call EXCEPT ![c] = Idle]

\* Mutant: a listing that a moderator took down can be edited.
MayEdit_Removed == TRUE

MayEdit == listing.status # "REMOVED"

EditRead(c, s) ==
    /\ call[c].at = "idle"
    /\ MayEdit
    /\ Begin(c, "editing", s, None)
    /\ UNCHANGED <<old, listing, audit, removals, lost>>

EditCommit(c) ==
    /\ call[c].at = "editing"
    /\ listing' = [listing EXCEPT !.status =
                     IF call[c].status = "same" THEN @ ELSE call[c].status]
    /\ Finish(c)
    /\ UNCHANGED <<old, audit, removals, lost>>

ModerateRead(c, m) ==
    /\ call[c].at = "idle"
    /\ listing.status # "REMOVED"
    /\ Begin(c, "removing", "REMOVED", m)
    /\ UNCHANGED <<old, listing, audit, removals, lost>>

\* Mutant: who took it down is not stored.
TakenDown_Anonymous(m) == [listing EXCEPT !.status = "REMOVED"]

TakenDown(m) == [status |-> "REMOVED", removedBy |-> m]

ModerateCommit(c) ==
    /\ call[c].at = "removing"
    /\ removals < MaxRemovals
    /\ listing' = TakenDown(call[c].by)
    /\ removals' = removals + 1
    /\ call' = [call EXCEPT ![c].at = "noting"]
    /\ UNCHANGED <<old, audit, lost>>

Noted == 1

\* The audit row, after the update.
ModerateNote(c) ==
    /\ call[c].at = "noting"
    /\ audit' = audit + Noted
    /\ Finish(c)
    /\ UNCHANGED <<old, listing, removals, lost>>

\* The sweep lists the old listings that are active, and updates each by id.
ArchiveRead(c) ==
    /\ call[c].at = "idle"
    /\ old
    /\ listing.status = "ACTIVE"
    /\ Begin(c, "archiving", "ARCHIVED", None)
    /\ UNCHANGED <<old, listing, audit, removals, lost>>

ArchiveCommit(c) ==
    /\ call[c].at = "archiving"
    /\ listing' = [listing EXCEPT !.status = "ARCHIVED"]
    /\ Finish(c)
    /\ UNCHANGED <<old, audit, removals, lost>>

Age ==
    /\ ~old
    /\ old' = TRUE
    /\ UNCHANGED <<listing, audit, removals, lost, call>>

\* The process dies, or a statement fails.
Abandon(c) ==
    /\ call[c].at # "idle"
    /\ lost' = IF call[c].at = "noting" THEN lost + 1 ELSE lost
    /\ Finish(c)
    /\ UNCHANGED <<old, listing, audit, removals>>

Next ==
    \/ Age
    \/ \E c \in Calls :
         \/ \E s \in Editable : EditRead(c, s)
         \/ \E m \in Moderators : ModerateRead(c, m)
         \/ EditCommit(c)
         \/ ModerateCommit(c)
         \/ ModerateNote(c)
         \/ ArchiveRead(c)
         \/ ArchiveCommit(c)
         \/ Abandon(c)

Spec == Init /\ [][Next]_vars

-----------------------------------------------------------------------------
(* Properties.                                                             *)

Noting == Cardinality({c \in Calls : call[c].at = "noting"})

\* The row and the handlers have the shape the code gives them; a listing that
\* is down names the moderator who took it down.
TypeOK ==
    /\ old \in BOOLEAN
    /\ listing \in [status : {"ACTIVE", "CLOSED", "REMOVED", "ARCHIVED"},
                    removedBy : Moderators \cup {None}]
    /\ listing.status = "REMOVED" => listing.removedBy # None
    /\ audit \in 0 .. MaxRemovals
    /\ removals \in 0 .. MaxRemovals
    /\ lost \in 0 .. MaxRemovals
    /\ call \in [Calls ->
         [at : {"idle", "editing", "removing", "noting", "archiving"},
          status : Editable \cup {"REMOVED"}, by : Moderators \cup {None},
          seen : 0 .. MaxRemovals]]

\* However editing, moderation and the nightly sweep interleave, every removal
\* has one audit row, but for a handler that is to write it or died before
\* (lines 301-338).
EveryRemovalIsNoted == removals = audit + Noting + lost

\* What a moderator took down comes back only by an edit or a sweep that had
\* read the listing before it was taken down (lines 202-207, 233-236 and the
\* sweep's lines 65-68).
BackOnlyByRace ==
    [][listing.status = "REMOVED" /\ listing'.status # "REMOVED" =>
         \E c \in Calls : call'[c] # call[c] /\ call[c].seen < removals]_vars
=============================================================================
