------------------------------ MODULE Meetings ------------------------------
(***************************************************************************)
(* One general meeting of the owners of a housing complex                  *)
(* (votings.service.ts): votes weighted by area, a stored quorum that is   *)
(* computed again after every vote, and a protocol drawn up at closing.    *)
(*                                                                         *)
(* A call is a handler in flight; each action is its code from one await   *)
(* to the next.  Nothing here is a transaction.  Areas are hundredths of   *)
(* a square metre, shares are percents, and so the weight of a vote is     *)
(* rounded as the code rounds it.  The code of the voter's SMS is assumed  *)
(* right; a wrong one ends the handler, which Abandon allows anywhere.     *)
(***************************************************************************)
EXTENDS Naturals, FiniteSets, FiniteSetsExt, Functions

CONSTANTS
    People,
    Units,
    area,           \* area[u]: in hundredths of a square metre
    Shares,         \* shares of a unit that the staff confirms, in percent
    Simple,         \* agenda items decided by a simple majority
    Qualified,      \* agenda items decided by two thirds of the complex
    Options,        \* choices that voters make
    Calls,          \* handlers that can be in flight at the same time
    Nobody

Items == Simple \cup Qualified

ASSUME MeetingAssumption ==
    /\ area \in [Units -> Nat \ {0}]
    /\ Shares \subseteq 1 .. 100
    /\ Options \subseteq {"FOR", "AGAINST", "ABSTAIN"}
    /\ IsFiniteSet(Units) /\ Units # {} /\ Items # {}
    /\ Nobody \notin People \cup Units \cup Items

VARIABLES
    share,      \* share[p, u]: confirmed share of owner p in unit u, 0: none
    meeting,    \* the row of table meetings; percent in hundredths
    votes,      \* the rows of table votes about the meeting
    protocol,   \* the votes that the stored protocol counts
    call        \* call[c]: the handler running in slot c

vars == <<share, meeting, votes, protocol, call>>

Vote ==
    [item : Items, unit : Units, by : People, choice : Options, weight : Nat]

\* No protocol; a protocol that counts no votes is the empty set.
NoProtocol == {Nobody}

Idle == [at |-> "idle", by |-> Nobody, item |-> Nobody, unit |-> Nobody,
         share |-> 0, seen |-> {}]

\* createMeeting takes the area of the complex as it is now.
EligibleArea == SumFunction(area)

\* A meeting starts active, in its voting period, whatever shares the staff has
\* confirmed: the check of their sum (properties.service.ts:523) precedes the
\* update, so approvals in flight together are not bounded by it.
Init ==
    /\ share \in [People \X Units -> Shares \cup {0}]
    /\ meeting = [status |-> "ACTIVE", over |-> FALSE,
                  percent |-> 0, achieved |-> FALSE]
    /\ votes = {}
    /\ protocol = NoProtocol
    /\ call = [c \in Calls |-> Idle]

Finish(c) == call' = [call EXCEPT ![c] = Idle]

-----------------------------------------------------------------------------
(* castVote.                                                               *)

\* Mutant: a closed meeting still takes votes.
TakesVotes_Closed == ~meeting.over

TakesVotes == meeting.status = "ACTIVE" /\ ~meeting.over

CheckMeeting(c, p, i, u) ==
    /\ call[c].at = "idle"
    /\ TakesVotes
    /\ call' = [call EXCEPT ![c] =
         [Idle EXCEPT !.at = "entitling", !.by = p, !.item = i, !.unit = u]]
    /\ UNCHANGED <<share, meeting, votes, protocol>>

\* Mutant: each owner of a unit has a vote of his own.
Voted_ByPerson(i, u, p) ==
    \E v \in votes : v.item = i /\ v.unit = u /\ v.by = p

\* The unique index of table votes: a unit votes once on an item.
Voted(i, u, p) == \E v \in votes : v.item = i /\ v.unit = u

\* The confirmed share and the earlier vote are read; the SMS code follows.
CheckOwnership(c) ==
    LET q == call[c]
    IN  /\ q.at = "entitling"
        /\ share[q.by, q.unit] > 0
        /\ ~Voted(q.item, q.unit, q.by)
        /\ call' = [call EXCEPT ![c].at = "voting",
                                ![c].share = share[q.by, q.unit]]
        /\ UNCHANGED <<share, meeting, votes, protocol>>

\* parseFloat of toFixed(2).
Weight(u, s) == (area[u] * s + 50) \div 100

\* The insert, which fails on the unique index.  What follows it in the handler
\* is about the meeting only.
InsertVote(c, choice) ==
    LET q == call[c]
        row == [item |-> q.item, unit |-> q.unit, by |-> q.by,
                choice |-> choice, weight |-> Weight(q.unit, q.share)]
    IN  /\ q.at = "voting"
        /\ IF Voted(q.item, q.unit, q.by)
             THEN Finish(c) /\ UNCHANGED votes
             ELSE /\ votes' = votes \cup {row}
                  /\ call' = [call EXCEPT ![c] = [Idle EXCEPT !.at = "tallying"]]
        /\ UNCHANGED <<share, meeting, protocol>>

ReadTally(c) ==
    /\ call[c].at = "tallying"
    /\ call' = [call EXCEPT ![c].at = "storing", ![c].seen = votes]
    /\ UNCHANGED <<share, meeting, votes, protocol>>

WeightOf(rows) == SumFunction([v \in rows |-> v.weight])

\* Mutant: every vote of a unit adds to the quorum.
VotedAreas_EveryItem(rows) == {WeightOf(rows)}

\* The area that took part.  A unit counts once, with the weight of the first
\* of its votes that the query returns, and the query has no order.
VotedAreas(rows) ==
    LET taking == {v.unit : v \in rows}
    IN  {SumFunction([u \in taking |-> first[u].weight]) :
           first \in {f \in [taking -> rows] : \A u \in taking : f[u].unit = u}}

\* The percentage in hundredths, rounded by toFixed(2).
Percent(a) == (a * 20000 + EligibleArea) \div (2 * EligibleArea)

\* updateMeetingQuorum compares the rounded percentage with the threshold.
StoreQuorum(c) ==
    /\ call[c].at = "storing"
    /\ \E a \in VotedAreas(call[c].seen) :
         meeting' = [meeting EXCEPT !.percent = Percent(a),
                                    !.achieved = Percent(a) >= 5000]
    /\ Finish(c)
    /\ UNCHANGED <<share, votes, protocol>>

-----------------------------------------------------------------------------
(* closeMeetingAndGenerateProtocol.                                        *)

\* The meeting is read with its votes, whatever its status.
ReadMeeting(c) ==
    /\ call[c].at = "idle"
    /\ call' = [call EXCEPT ![c] =
         [Idle EXCEPT !.at = "closing", !.seen = votes]]
    /\ UNCHANGED <<share, meeting, votes, protocol>>

CloseMeeting(c) ==
    /\ call[c].at = "closing"
    /\ meeting' = [meeting EXCEPT !.status = "COMPLETED"]
    /\ call' = [call EXCEPT ![c].at = "printing"]
    /\ UNCHANGED <<share, votes, protocol>>

\* The upsert of the protocol, drawn up from the votes read at the start.
StoreProtocol(c) ==
    /\ call[c].at = "printing"
    /\ protocol' = call[c].seen
    /\ Finish(c)
    /\ UNCHANGED <<share, meeting, votes>>

AreaOf(rows, i, choice) ==
    WeightOf({v \in rows : v.item = i /\ v.choice = choice})

AreaOn(rows, i) == WeightOf({v \in rows : v.item = i})

\* enrichMeetingWithResults: more than half of the votes on the item, or at
\* least 66.67 percent of the complex.
Approved(rows, i) ==
    IF i \in Simple
      THEN 2 * AreaOf(rows, i, "FOR") > AreaOn(rows, i)
      ELSE 10000 * AreaOf(rows, i, "FOR") >= 6667 * EligibleArea

-----------------------------------------------------------------------------
\* The end date passes.
PeriodEnds ==
    /\ ~meeting.over
    /\ meeting' = [meeting EXCEPT !.over = TRUE]
    /\ UNCHANGED <<share, votes, protocol, call>>

\* Meanwhile the staff unlinks an owner, or confirms one (properties.service):
\* their updates, after the checks.
Unlink(p, u) ==
    /\ share[p, u] > 0
    /\ share' = [share EXCEPT ![<<p, u>>] = 0]
    /\ UNCHANGED <<meeting, votes, protocol, call>>

Confirm(p, u, s) ==
    /\ share[p, u] = 0
    /\ share' = [share EXCEPT ![<<p, u>>] = s]
    /\ UNCHANGED <<meeting, votes, protocol, call>>

\* The process dies, or a check, a statement or the upload fails.
Abandon(c) ==
    /\ call[c].at # "idle"
    /\ Finish(c)
    /\ UNCHANGED <<share, meeting, votes, protocol>>

\* What a running handler does next by itself.
Proceed(c) ==
    \/ CheckOwnership(c)
    \/ \E choice \in Options : InsertVote(c, choice)
    \/ ReadTally(c)
    \/ StoreQuorum(c)
    \/ CloseMeeting(c)
    \/ StoreProtocol(c)

Next ==
    \/ \E c \in Calls :
         \/ \E p \in People, i \in Items, u \in Units : CheckMeeting(c, p, i, u)
         \/ ReadMeeting(c)
         \/ Proceed(c)
         \/ Abandon(c)
    \/ PeriodEnds
    \/ \E p \in People, u \in Units :
         Unlink(p, u) \/ \E s \in Shares : Confirm(p, u, s)

Spec == Init /\ [][Next]_vars

-----------------------------------------------------------------------------
(* Properties.                                                             *)

\* Whoever owns a unit while its votes are cast, and however many owners vote
\* at once, a unit's area decides once: its votes on an item never weigh more
\* than the unit (lines 244-260 and the unique index of votes).
AreaDecidesOnce ==
    \A i \in Items, u \in Units :
        AreaOn({v \in votes : v.unit = u}, i) <= area[u]

Heaviest(u) == Max({v.weight : v \in {w \in votes : w.unit = u}})

\* The area that took part, each unit with the heaviest of its votes.
VotedArea == SumFunction([u \in {v.unit : v \in votes} |-> Heaviest(u)])

\* The stored quorum is never ahead of the votes, although it is computed from
\* votes read earlier and written by handlers in any order (lines 499-528).
QuorumNeverAhead == meeting.percent <= Percent(VotedArea)

\* No handler is in flight.
Quiet == \A c \in Calls : call[c].at = "idle"

\* Closing is final although a handler votes long after its checks: once a
\* meeting is closed and no handler is in flight, the outcome of no item, as the
\* protocol computes it, changes again (lines 195-201, 653-673).
ClosingIsFinal ==
    \A i \in Items, outcome \in BOOLEAN :
        [](meeting.status = "COMPLETED" /\ Quiet /\ Approved(votes, i) = outcome
            => [](Approved(votes, i) = outcome))
=============================================================================
