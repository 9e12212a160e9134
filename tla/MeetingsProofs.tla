--------------------------- MODULE MeetingsProofs ---------------------------
(***************************************************************************)
(* What holds of a meeting for any number of owners, units, agenda items   *)
(* and handlers: a unit decides once with no more than its area, the       *)
(* stored quorum is never ahead of the votes, and closing is final.        *)
(***************************************************************************)
EXTENDS Meetings, SumTheorems, TLAPS

Handler ==
    [at : {"idle", "entitling", "voting", "tallying", "storing", "closing",
           "printing"},
     by : People \cup {Nobody}, item : Items \cup {Nobody},
     unit : Units \cup {Nobody}, share : Shares \cup {0}, seen : SUBSET Vote]

\* A quorum is declared by the percentage that is stored with it.
MeetingRow ==
    {row \in [status : {"ACTIVE", "COMPLETED"}, over : BOOLEAN,
              percent : Nat, achieved : BOOLEAN] :
       row.achieved => row.percent >= 5000}

\* A handler about to vote knows for whom and on what, and what a handler has
\* read of the votes is still there.
Sound(q) ==
    /\ q.at \in {"entitling", "voting"} =>
         q.by \in People /\ q.item \in Items /\ q.unit \in Units
    /\ q.seen \subseteq votes

Typed ==
    /\ share \in [People \X Units -> Shares \cup {0}]
    /\ meeting \in MeetingRow
    /\ votes \subseteq Vote
    /\ call \in [Calls -> Handler]
    /\ \A c \in Calls : Sound(call[c])

\* A unit votes once on an item, with no more than its area.
Once ==
    /\ \A v, w \in votes : v.item = w.item /\ v.unit = w.unit => v = w
    /\ \A v \in votes : v.weight <= area[v.unit]

MeetingInvariant == Typed /\ Once /\ QuorumNeverAhead

-----------------------------------------------------------------------------
(* Weights, areas and percentages.                                         *)

\* Of a whole unit at most the whole weighs.
LEMMA WeightBounded ==
  ASSUME NEW u \in Units, NEW s \in Shares \cup {0}
  PROVE  Weight(u, s) \in Nat /\ Weight(u, s) <= area[u]
<1>1. area[u] \in Nat /\ s \in Nat /\ s <= 100
  BY MeetingAssumption
<1>2. PICK a \in Nat, m \in Nat : a = area[u] /\ m = a * s
  BY <1>1
<1>3. m <= a * 100
  BY <1>1, <1>2, SMTT(20)
<1>4. (m + 50) \div 100 \in Nat /\ (m + 50) \div 100 <= a
  BY <1>2, <1>3, SMTT(20)
<1>5. QED
  BY <1>2, <1>4 DEF Weight

LEMMA EligibleAreaPositive == EligibleArea \in Nat \ {0}
<1>1. IsFiniteSet(Units) /\ area \in [Units -> Nat]
  BY MeetingAssumption
<1>2. PICK u \in Units : area[u] \in Nat \ {0}
  BY MeetingAssumption
<1>5. PICK f : f = [x \in Units \ {u} |-> area[x]]
  OBVIOUS
<1>6. SumFunction(area) = SumFunction(f) + area[u]
  BY <1>1, <1>5, SumOfRest
<1>7. SumFunction(f) \in Nat
  <2>1. PICK T : T = Units \ {u}
    OBVIOUS
  <2>2. f \in [T -> Nat] /\ IsFiniteSet(T)
    BY <1>1, <1>5, <2>1, FS_Subset
  <2>3. QED
    BY <2>2, SumIsNat
<1>8. QED
  BY <1>2, <1>6, <1>7 DEF EligibleArea

\* A larger area is no smaller percentage.
LEMMA PercentGrows ==
  ASSUME NEW a \in Nat, NEW b \in Nat, a <= b
  PROVE  Percent(a) \in Nat /\ Percent(a) <= Percent(b)
<1>1. PICK e \in Nat : e = EligibleArea /\ e > 0
  BY EligibleAreaPositive
<1>2. PICK m, n, d \in Nat : /\ m = a * 20000 + e /\ n = b * 20000 + e
                             /\ d = 2 * e /\ d > 0 /\ m <= n
  BY <1>1
<1>3. m \div d \in Nat /\ n \div d \in Nat /\ m \div d <= n \div d
  BY <1>2, SMTT(20)
<1>4. QED
  BY <1>1, <1>2, <1>3 DEF Percent

-----------------------------------------------------------------------------
(* Once.                                                                   *)

LEMMA VoteFields ==
  ASSUME NEW v \in Vote
  PROVE  /\ v.item \in Items /\ v.unit \in Units /\ v.by \in People
         /\ v.choice \in Options /\ v.weight \in Nat
BY DEF Vote

\* The votes of a unit on an item are one vote or none.
LEMMA OnceDecidesOnce == ASSUME Typed, Once PROVE AreaDecidesOnce
<1> SUFFICES ASSUME NEW i \in Items, NEW u \in Units
             PROVE  AreaOn({v \in votes : v.unit = u}, i) <= area[u]
  BY DEF AreaDecidesOnce
<1>1. PICK rows : rows = {v \in {w \in votes : w.unit = u} : v.item = i}
  OBVIOUS
<1>2. PICK f : f = [v \in rows |-> v.weight]
  OBVIOUS
<1>3. AreaOn({v \in votes : v.unit = u}, i) = SumFunction(f)
  BY <1>1, <1>2 DEF AreaOn, WeightOf
<1>4. area[u] \in Nat
  BY MeetingAssumption
<1>5. CASE rows = {}
  <2>1. SumFunction(f) = 0
    BY <1>2, <1>5, SumOfNone
  <2>2. QED
    BY <1>3, <1>4, <2>1
<1>6. CASE rows # {}
  <2>1. PICK v \in rows : TRUE
    BY <1>6
  <2>2. v \in Vote /\ v.weight \in Nat /\ v.weight <= area[u]
    BY <1>1, VoteFields DEF Typed, Once
  <2>3. rows = {v}
    BY <1>1 DEF Once
  <2>4. IsFiniteSet(rows) /\ f \in [rows -> Nat] /\ f[v] = v.weight
    BY <1>2, <2>2, <2>3, FS_Singleton
  <2>5. PICK none : none = [x \in rows \ {v} |-> f[x]]
    OBVIOUS
  <2>6. none \in [{} -> Nat]
    BY <2>3, <2>5
  <2>7. SumFunction(f) = SumFunction(none) + f[v]
    BY <2>4, <2>5, SumOfRest
  <2>8. SumFunction(none) = 0
    BY <2>6, SumOfNone
  <2>9. QED
    BY <1>3, <2>2, <2>4, <2>7, <2>8
<1>7. QED
  BY <1>5, <1>6

-----------------------------------------------------------------------------
(* The area that took part.                                                *)

Bounded(rows) == rows \subseteq Vote /\ \A v \in rows : v.weight <= area[v.unit]

Taking(rows) == {v.unit : v \in rows}

Peak(rows, u) == Max({v.weight : v \in {w \in rows : w.unit = u}})

\* The area of some votes, each unit with the heaviest of its votes.
Turnout(rows) == SumFunction([u \in Taking(rows) |-> Peak(rows, u)])

LEMMA PeakIsMost ==
  ASSUME NEW rows, Bounded(rows), NEW u \in Taking(rows)
  PROVE  /\ Peak(rows, u) \in Nat
         /\ \A v \in rows : v.unit = u => v.weight <= Peak(rows, u)
         /\ \E v \in rows : v.unit = u /\ v.weight = Peak(rows, u)
<1>1. PICK S : S = {v.weight : v \in {w \in rows : w.unit = u}}
  OBVIOUS
<1>2. area[u] \in Nat
  <2>1. u \in Units
    BY VoteFields DEF Bounded, Taking
  <2>2. QED
    BY <2>1, MeetingAssumption
<1>3. ASSUME NEW s \in S PROVE s \in 0 .. area[u]
  <2>1. PICK v \in rows : v.unit = u /\ s = v.weight
    BY <1>1
  <2>2. v.weight \in Nat /\ v.weight <= area[u]
    BY <2>1, VoteFields DEF Bounded
  <2>3. QED
    BY <1>2, <2>1, <2>2
<1>4. S \in SUBSET Nat /\ IsFiniteSet(S)
  <2>1. PICK I : I = 0 .. area[u]
    OBVIOUS
  <2>2. IsFiniteSet(I)
    BY <1>2, <2>1, FS_Interval
  <2>3. S \subseteq I /\ I \subseteq Nat
    BY <1>2, <1>3, <2>1
  <2>4. QED
    BY <2>2, <2>3, FS_Subset
<1>5. S # {}
  BY <1>1 DEF Taking
<1>6. \E m \in S : \A s \in S : m >= s
  BY <1>4, <1>5, LastExists
<1>7. Max(S) \in S /\ \A s \in S : Max(S) >= s
  BY <1>6 DEF Max
<1>8. PICK m \in Nat : m = Max(S)
  BY <1>4, <1>7
<1>9. Peak(rows, u) = m
  BY <1>1, <1>8 DEF Peak
<1>10. QED
  BY <1>1, <1>4, <1>7, <1>8, <1>9

LEMMA TakingFinite == ASSUME NEW rows, Bounded(rows) PROVE IsFiniteSet(Taking(rows))
<1>1. Taking(rows) \subseteq Units
  BY VoteFields DEF Bounded, Taking
<1>2. QED
  BY <1>1, MeetingAssumption, FS_Subset

\* The votes grow, and so does what they weigh.
LEMMA TurnoutGrows ==
  ASSUME NEW rows, NEW more, Bounded(rows), Bounded(more), rows \subseteq more
  PROVE  /\ Turnout(rows) \in Nat /\ Turnout(more) \in Nat
         /\ Turnout(rows) <= Turnout(more)
<1>1. PICK S, T : S = Taking(rows) /\ T = Taking(more)
  OBVIOUS
<1>2. PICK f : f = [u \in S |-> Peak(rows, u)]
  OBVIOUS
<1>3. PICK g : g = [u \in T |-> Peak(more, u)]
  OBVIOUS
<1>4. IsFiniteSet(S) /\ IsFiniteSet(T) /\ S \subseteq T
  BY <1>1, TakingFinite DEF Taking
<1>5. f \in [S -> Nat] /\ g \in [T -> Nat]
  BY <1>1, <1>2, <1>3, PeakIsMost
<1>6. ASSUME NEW u \in S PROVE f[u] <= g[u]
  <2>1. PICK v \in rows : v.unit = u /\ v.weight = Peak(rows, u)
    BY <1>1, PeakIsMost
  <2>2. v.weight <= Peak(more, u)
    BY <1>1, <1>4, <2>1, PeakIsMost
  <2>3. QED
    BY <1>2, <1>3, <1>4, <2>1, <2>2
<1>7. SumFunction(f) <= SumFunction(g)
  BY <1>4, <1>5, <1>6, SumOfMore
<1>8. QED
  BY <1>1, <1>2, <1>3, <1>4, <1>5, <1>7, SumIsNat DEF Turnout

\* Whichever of a unit's votes a handler counts, of the votes it has read.
LEMMA VotedNotAhead ==
  ASSUME NEW rows, NEW seen, Bounded(rows), seen \subseteq rows,
         NEW a \in VotedAreas(seen)
  PROVE  a \in Nat /\ a <= Turnout(rows)
<1>1. PICK S, T : S = Taking(seen) /\ T = Taking(rows)
  OBVIOUS
<1>2. PICK first \in [S -> seen] :
        /\ \A u \in S : first[u].unit = u
        /\ a = SumFunction([u \in S |-> first[u].weight])
  BY <1>1 DEF VotedAreas, Taking
<1>3. PICK f : f = [u \in S |-> first[u].weight]
  OBVIOUS
<1>4. PICK g : g = [u \in T |-> Peak(rows, u)]
  OBVIOUS
<1>5. IsFiniteSet(T) /\ S \subseteq T /\ IsFiniteSet(S)
  <2>1. IsFiniteSet(T) /\ S \subseteq T
    BY <1>1, TakingFinite DEF Taking
  <2>2. QED
    BY <2>1, FS_Subset
<1>6. ASSUME NEW u \in S
      PROVE  first[u].weight \in Nat /\ first[u].weight <= Peak(rows, u)
  <2>1. first[u] \in rows /\ first[u].unit = u /\ u \in T
    BY <1>2, <1>5
  <2>2. QED
    BY <1>1, <2>1, PeakIsMost, VoteFields DEF Bounded
<1>7. f \in [S -> Nat] /\ g \in [T -> Nat] /\ \A u \in S : f[u] <= g[u]
  <2>1. f \in [S -> Nat]
    BY <1>3, <1>6
  <2>2. g \in [T -> Nat]
    BY <1>1, <1>4, PeakIsMost
  <2>3. QED
    BY <1>3, <1>4, <1>5, <1>6, <2>1, <2>2
<1>8. SumFunction(f) \in Nat /\ SumFunction(f) <= SumFunction(g)
  BY <1>5, <1>7, SumOfMore, SumIsNat
<1>9. QED
  BY <1>1, <1>2, <1>3, <1>4, <1>8 DEF Turnout

LEMMA QuorumIsTurnout ==
  QuorumNeverAhead <=> meeting.percent <= Percent(Turnout(votes))
BY DEF QuorumNeverAhead, VotedArea, Turnout, Taking, Peak, Heaviest

-----------------------------------------------------------------------------
(* The steps.                                                              *)

LEMMA InvariantParts ==
  MeetingInvariant <=>
    Typed /\ Once /\ Bounded(votes) /\ meeting.percent <= Percent(Turnout(votes))
BY QuorumIsTurnout DEF MeetingInvariant, Typed, Once, Bounded

\* While neither the votes nor the quorum move, only shapes are at stake.
LEMMA HandlerStep ==
  ASSUME MeetingInvariant, NEW c \in Calls, NEW q \in Handler,
         call' = [call EXCEPT ![c] = q],
         UNCHANGED <<share, votes>>,
         q.at \in {"entitling", "voting"} =>
           q.by \in People /\ q.item \in Items /\ q.unit \in Units,
         q.seen \subseteq votes,
         meeting' \in MeetingRow,
         meeting'.percent <= Percent(Turnout(votes))
  PROVE  MeetingInvariant'
<1>1. call' \in [Calls -> Handler] /\ \A d \in Calls : Sound(call[d])'
  <2>1. call \in [Calls -> Handler] /\ \A d \in Calls : Sound(call[d])
    BY DEF MeetingInvariant, Typed
  <2>2. call' \in [Calls -> Handler]
    BY <2>1
  <2>3. ASSUME NEW d \in Calls PROVE Sound(call[d])'
    <3>1. call'[d] = IF d = c THEN q ELSE call[d]
      BY <2>1
    <3>2. CASE d = c
      BY <3>1, <3>2 DEF Sound
    <3>3. CASE d # c
      BY <2>1, <3>1, <3>3 DEF Sound
    <3>4. QED
      BY <3>2, <3>3
  <2>4. QED
    BY <2>2, <2>3
<1>2. Typed'
  BY <1>1 DEF MeetingInvariant, Typed
<1>3. Once'
  BY DEF MeetingInvariant, Once
<1>4. QuorumNeverAhead'
  <2>1. QuorumNeverAhead' <=> meeting'.percent <= Percent(Turnout(votes'))
    BY DEF QuorumNeverAhead, VotedArea, Turnout, Taking, Peak, Heaviest
  <2>2. QED
    BY <2>1
<1>5. QED
  BY <1>2, <1>3, <1>4 DEF MeetingInvariant

LEMMA FinishStep ==
  ASSUME MeetingInvariant, NEW c \in Calls, Finish(c), UNCHANGED <<share, votes>>,
         meeting' \in MeetingRow, meeting'.percent <= Percent(Turnout(votes))
  PROVE  MeetingInvariant'
<1>1. PICK q : q = Idle
  OBVIOUS
<1>2. q \in Handler /\ q.at = "idle" /\ q.seen = {}
  BY <1>1 DEF Idle, Handler
<1>3. call' = [call EXCEPT ![c] = q]
  BY <1>1 DEF Finish
<1>4. QED
  BY <1>2, <1>3, HandlerStep

\* The votes grow by one vote of a unit that had none on the item.
LEMMA VoteStep ==
  ASSUME MeetingInvariant, NEW c \in Calls, NEW choice \in Options,
         InsertVote(c, choice)
  PROVE  MeetingInvariant'
<1>0. /\ call \in [Calls -> Handler] /\ Sound(call[c]) /\ call[c].at = "voting"
      /\ votes \subseteq Vote
  BY DEF MeetingInvariant, Typed, InsertVote
<1>1. CASE Voted(call[c].item, call[c].unit, call[c].by)
  <2>1. votes' = votes /\ Finish(c) /\ UNCHANGED <<share, meeting>>
    BY <1>1 DEF InsertVote
  <2>2. QED
    BY <2>1, FinishStep, InvariantParts DEF Typed
<1>2. CASE ~Voted(call[c].item, call[c].unit, call[c].by)
  <2>1. PICK row : row = [item |-> call[c].item, unit |-> call[c].unit,
                          by |-> call[c].by, choice |-> choice,
                          weight |-> Weight(call[c].unit, call[c].share)]
    OBVIOUS
  <2>2. /\ votes' = votes \cup {row}
        /\ call' = [call EXCEPT ![c] = [Idle EXCEPT !.at = "tallying"]]
        /\ UNCHANGED <<share, meeting>>
    BY <1>2, <2>1 DEF InsertVote
  <2>3. /\ row.item = call[c].item /\ row.unit = call[c].unit
        /\ row.weight <= area[row.unit] /\ row \in Vote
    <3>1. /\ call[c].item \in Items /\ call[c].unit \in Units
          /\ call[c].by \in People /\ call[c].share \in Shares \cup {0}
      BY <1>0 DEF Sound, Handler
    <3>2. PICK w : w = Weight(call[c].unit, call[c].share)
      OBVIOUS
    <3>3. w \in Nat /\ w <= area[call[c].unit]
      BY <3>1, <3>2, WeightBounded
    <3>4. QED
      BY <2>1, <3>1, <3>2, <3>3 DEF Vote
  <2>4. PICK q : q = [Idle EXCEPT !.at = "tallying"]
    OBVIOUS
  <2>5. /\ call' = [call EXCEPT ![c] = q]
        /\ q \in Handler /\ q.at = "tallying" /\ q.seen = {}
    BY <2>2, <2>4 DEF Handler, Idle
  <2>6. Typed'
    <3>1. call' \in [Calls -> Handler]
      BY <1>0, <2>5
    <3>2. ASSUME NEW d \in Calls PROVE Sound(call[d])'
      <4>1. call'[d] = IF d = c THEN q ELSE call[d]
        BY <1>0, <2>5
      <4>2. Sound(call[d])
        BY DEF MeetingInvariant, Typed
      <4>3. CASE d = c
        BY <1>0, <2>2, <2>5, <4>1, <4>3 DEF Sound
      <4>4. CASE d # c
        BY <2>2, <4>1, <4>2, <4>4 DEF Sound
      <4>5. QED
        BY <4>3, <4>4
    <3>3. QED
      BY <1>0, <2>2, <2>3, <3>1, <3>2 DEF MeetingInvariant, Typed
  <2>7. Once'
    <3>1. \A v \in votes : ~(v.item = row.item /\ v.unit = row.unit)
      BY <1>2, <2>3 DEF Voted
    <3>2. QED
      BY <2>2, <2>3, <3>1 DEF MeetingInvariant, Once
  <2>8. QuorumNeverAhead'
    <3>1. Bounded(votes) /\ Bounded(votes')
      BY <1>0, <2>2, <2>3 DEF MeetingInvariant, Once, Bounded
    <3>2. PICK m, n \in Nat : m = Turnout(votes) /\ n = Turnout(votes') /\ m <= n
      BY <2>2, <3>1, TurnoutGrows
    <3>3. Percent(m) \in Nat /\ Percent(n) \in Nat /\ Percent(m) <= Percent(n)
      BY <3>2, PercentGrows
    <3>4. meeting.percent \in Nat /\ meeting.percent <= Percent(m)
      BY <3>2, QuorumIsTurnout DEF MeetingInvariant, Typed, MeetingRow
    <3>5. meeting'.percent <= Percent(Turnout(votes'))
      BY <2>2, <3>2, <3>3, <3>4
    <3>6. QED
      BY <3>5 DEF QuorumNeverAhead, VotedArea, Turnout, Taking, Peak, Heaviest
  <2>9. QED
    BY <2>6, <2>7, <2>8 DEF MeetingInvariant
<1>3. QED
  BY <1>1, <1>2

\* A meeting with another quorum.
Stored(row, p, b) == [row EXCEPT !.percent = p, !.achieved = b]

Enough(p) == p >= 5000

LEMMA RowStored ==
  ASSUME NEW row \in MeetingRow, NEW p \in Nat
  PROVE  LET r == Stored(row, p, Enough(p))
         IN  r \in MeetingRow /\ r.percent = p /\ r.status = row.status
<1>1. Enough(p) \in BOOLEAN
  BY DEF Enough
<1>2. PICK b \in BOOLEAN : b = Enough(p) /\ (b => p >= 5000)
  <2>1. Enough(p) => p >= 5000
    BY DEF Enough
  <2>2. QED
    BY <1>1, <2>1
<1>3. /\ Stored(row, p, b) \in MeetingRow /\ Stored(row, p, b).percent = p
      /\ Stored(row, p, b).status = row.status
  <2>1. PICK r : r = Stored(row, p, b)
    OBVIOUS
  <2>2. /\ r \in [status : {"ACTIVE", "COMPLETED"}, over : BOOLEAN,
                  percent : Nat, achieved : BOOLEAN]
        /\ r.percent = p /\ r.achieved = b /\ r.status = row.status
    BY <2>1 DEF Stored, MeetingRow
  <2>3. QED
    BY <1>2, <2>1, <2>2 DEF MeetingRow
<1>4. QED
  BY <1>2, <1>3

LEMMA QuorumStored ==
  ASSUME MeetingInvariant, NEW c \in Calls, StoreQuorum(c)
  PROVE  \E a \in Nat :
           /\ a <= Turnout(votes) /\ Turnout(votes) \in Nat /\ Percent(a) \in Nat
           /\ meeting' \in MeetingRow /\ meeting'.percent = Percent(a)
           /\ meeting'.status = meeting.status
<1>1. call[c].seen \subseteq votes /\ Bounded(votes) /\ meeting \in MeetingRow
  BY InvariantParts DEF Typed, Sound
<1>2. PICK a \in VotedAreas(call[c].seen) :
        meeting' = Stored(meeting, Percent(a), Enough(Percent(a)))
  BY DEF StoreQuorum, Stored, Enough
<1>3. a \in Nat /\ a <= Turnout(votes) /\ Turnout(votes) \in Nat
  BY <1>1, TurnoutGrows, VotedNotAhead
<1>4. PICK p \in Nat : p = Percent(a)
  BY <1>3, PercentGrows
<1>5. PICK r : r = Stored(meeting, p, Enough(p))
  OBVIOUS
<1>6. r \in MeetingRow /\ r.percent = p /\ r.status = meeting.status
  BY <1>1, <1>5, RowStored
<1>7. meeting' = r
  BY <1>2, <1>4, <1>5
<1>8. QED
  BY <1>3, <1>4, <1>6, <1>7

\* What a handler stores was computed from votes that are still there.
LEMMA QuorumStep ==
  ASSUME MeetingInvariant, NEW c \in Calls, StoreQuorum(c)
  PROVE  MeetingInvariant'
<1>1. PICK a, n \in Nat :
        /\ n = Turnout(votes) /\ a <= n /\ Percent(a) \in Nat
        /\ meeting' \in MeetingRow /\ meeting'.percent = Percent(a)
  BY QuorumStored
<1>2. Percent(a) <= Percent(n)
  BY <1>1, PercentGrows
<1>3. Finish(c) /\ UNCHANGED <<share, votes>>
  BY DEF StoreQuorum
<1>4. QED
  BY <1>1, <1>2, <1>3, FinishStep

LEMMA NextKeeps == ASSUME MeetingInvariant, [Next]_vars PROVE MeetingInvariant'
<1>0. /\ call \in [Calls -> Handler] /\ \A c \in Calls : Sound(call[c])
      /\ meeting \in MeetingRow /\ meeting.percent <= Percent(Turnout(votes))
  BY InvariantParts DEF Typed
\* Handler c becomes q, and nothing else moves but the status.
<1>h. ASSUME NEW c \in Calls, NEW q \in Handler, call' = [call EXCEPT ![c] = q],
             UNCHANGED <<share, votes>>, q.seen \subseteq votes,
             q.at \in {"entitling", "voting"} =>
               q.by \in People /\ q.item \in Items /\ q.unit \in Units,
             \/ UNCHANGED meeting
             \/ meeting' = [meeting EXCEPT !.status = "COMPLETED"]
      PROVE  MeetingInvariant'
  <2>1. meeting' \in MeetingRow /\ meeting'.percent = meeting.percent
    BY <1>0, <1>h DEF MeetingRow
  <2>2. QED
    BY <1>0, <1>h, <2>1, HandlerStep
\* A step of the staff or the calendar.
<1>e. ASSUME UNCHANGED <<votes, call>>, meeting' \in MeetingRow,
             meeting'.percent = meeting.percent,
             share' \in [People \X Units -> Shares \cup {0}]
      PROVE  MeetingInvariant'
  <2>1. Typed'
    BY <1>e DEF MeetingInvariant, Typed, Sound
  <2>2. Once'
    BY <1>e DEF MeetingInvariant, Once
  <2>3. QuorumNeverAhead'
    BY <1>0, <1>e DEF QuorumNeverAhead, VotedArea, Turnout, Taking, Peak, Heaviest
  <2>4. QED
    BY <2>1, <2>2, <2>3 DEF MeetingInvariant
<1>1. ASSUME NEW c \in Calls, NEW p \in People, NEW i \in Items, NEW u \in Units,
             CheckMeeting(c, p, i, u)
      PROVE  MeetingInvariant'
  <2>1. PICK q : q = [Idle EXCEPT !.at = "entitling", !.by = p, !.item = i, !.unit = u]
    OBVIOUS
  <2>2. /\ q \in Handler /\ q.at = "entitling" /\ q.seen = {}
        /\ q.by = p /\ q.item = i /\ q.unit = u
    BY <2>1 DEF Idle, Handler
  <2>3. call' = [call EXCEPT ![c] = q] /\ UNCHANGED <<share, meeting, votes>>
    BY <1>1, <2>1 DEF CheckMeeting
  <2>4. QED
    BY <1>h, <2>2, <2>3
<1>2. ASSUME NEW c \in Calls, CheckOwnership(c) PROVE MeetingInvariant'
  <2>1. /\ call[c].at = "entitling" /\ Sound(call[c]) /\ call[c] \in Handler
        /\ UNCHANGED <<share, meeting, votes>>
    BY <1>0, <1>2 DEF CheckOwnership
  <2>2. share[<<call[c].by, call[c].unit>>] \in Shares \cup {0}
    BY <2>1 DEF MeetingInvariant, Typed, Sound
  <2>3. PICK s \in Shares \cup {0} : s = share[<<call[c].by, call[c].unit>>]
    BY <2>2
  <2>4. PICK q : q = [call[c] EXCEPT !.at = "voting", !.share = s]
    OBVIOUS
  <2>5. /\ q \in Handler /\ q.at = "voting" /\ q.seen = call[c].seen
        /\ q.by = call[c].by /\ q.item = call[c].item /\ q.unit = call[c].unit
    BY <2>1, <2>4 DEF Handler
  <2>6. call' = [call EXCEPT ![c] = q]
    BY <1>0, <1>2, <2>3, <2>4 DEF CheckOwnership
  <2>7. QED
    BY <1>h, <2>1, <2>5, <2>6 DEF Sound
<1>3. ASSUME NEW c \in Calls, NEW choice \in Options, InsertVote(c, choice)
      PROVE  MeetingInvariant'
  BY <1>3, VoteStep
<1>4. ASSUME NEW c \in Calls, ReadTally(c) PROVE MeetingInvariant'
  <2>1. PICK q : q = [call[c] EXCEPT !.at = "storing", !.seen = votes]
    OBVIOUS
  <2>2. q \in Handler /\ q.at = "storing" /\ q.seen = votes
    BY <1>0, <2>1 DEF MeetingInvariant, Typed, Handler
  <2>3. call' = [call EXCEPT ![c] = q] /\ UNCHANGED <<share, meeting, votes>>
    BY <1>0, <1>4, <2>1 DEF ReadTally
  <2>4. QED
    BY <1>h, <2>2, <2>3
<1>5. ASSUME NEW c \in Calls, StoreQuorum(c) PROVE MeetingInvariant'
  BY <1>5, QuorumStep
<1>6. ASSUME NEW c \in Calls, ReadMeeting(c) PROVE MeetingInvariant'
  <2>1. PICK q : q = [Idle EXCEPT !.at = "closing", !.seen = votes]
    OBVIOUS
  <2>2. q \in Handler /\ q.at = "closing" /\ q.seen = votes
    BY <2>1 DEF MeetingInvariant, Typed, Idle, Handler
  <2>3. call' = [call EXCEPT ![c] = q] /\ UNCHANGED <<share, meeting, votes>>
    BY <1>6, <2>1 DEF ReadMeeting
  <2>4. QED
    BY <1>h, <2>2, <2>3
<1>7. ASSUME NEW c \in Calls, CloseMeeting(c) PROVE MeetingInvariant'
  <2>1. PICK q : q = [call[c] EXCEPT !.at = "printing"]
    OBVIOUS
  <2>2. q \in Handler /\ q.at = "printing" /\ q.seen = call[c].seen
    BY <1>0, <2>1 DEF Handler
  <2>3. /\ call' = [call EXCEPT ![c] = q] /\ UNCHANGED <<share, votes>>
        /\ meeting' = [meeting EXCEPT !.status = "COMPLETED"]
    BY <1>0, <1>7, <2>1 DEF CloseMeeting
  <2>4. QED
    BY <1>0, <1>h, <2>2, <2>3 DEF Sound
<1>8. ASSUME NEW c \in Calls, StoreProtocol(c) \/ Abandon(c) PROVE MeetingInvariant'
  <2>1. Finish(c) /\ UNCHANGED <<share, meeting, votes>>
    BY <1>8 DEF StoreProtocol, Abandon
  <2>2. QED
    BY <1>0, <2>1, FinishStep
<1>9. ASSUME PeriodEnds PROVE MeetingInvariant'
  <2>1. meeting' \in MeetingRow /\ meeting'.percent = meeting.percent
    <3>1. PICK r : r = [meeting EXCEPT !.over = TRUE]
      OBVIOUS
    <3>2. /\ r \in [status : {"ACTIVE", "COMPLETED"}, over : BOOLEAN,
                    percent : Nat, achieved : BOOLEAN]
          /\ r.percent = meeting.percent /\ r.achieved = meeting.achieved
      BY <1>0, <3>1 DEF MeetingRow
    <3>3. QED
      BY <1>0, <1>9, <3>1, <3>2 DEF PeriodEnds, MeetingRow
  <2>2. QED
    BY <1>9, <1>e, <2>1 DEF PeriodEnds, MeetingInvariant, Typed
<1>10. ASSUME NEW p \in People, NEW u \in Units,
              Unlink(p, u) \/ \E s \in Shares : Confirm(p, u, s)
       PROVE  MeetingInvariant'
  <2>1. PICK s \in Shares \cup {0} : share' = [share EXCEPT ![<<p, u>>] = s]
    BY <1>10 DEF Unlink, Confirm
  <2>2. share' \in [People \X Units -> Shares \cup {0}]
    BY <2>1 DEF MeetingInvariant, Typed
  <2>3. UNCHANGED <<meeting, votes, call>>
    BY <1>10 DEF Unlink, Confirm
  <2>4. QED
    BY <1>0, <1>e, <2>2, <2>3
<1>11. CASE UNCHANGED vars
  BY <1>0, <1>11, <1>e DEF vars, MeetingInvariant, Typed
<1>12. QED
  BY <1>1, <1>2, <1>3, <1>4, <1>5, <1>6, <1>7, <1>8, <1>9, <1>10, <1>11
  DEF Next, Proceed

LEMMA InitHolds == ASSUME Init PROVE MeetingInvariant
<1>1. PICK q : q = Idle
  OBVIOUS
<1>2. q \in Handler /\ q.at = "idle" /\ q.seen = {}
  BY <1>1 DEF Idle, Handler
<1>3. Typed
  <2>1. call = [c \in Calls |-> q] /\ votes = {}
    BY <1>1 DEF Init
  <2>2. meeting \in MeetingRow /\ share \in [People \X Units -> Shares \cup {0}]
    <3>1. PICK r : r = [status |-> "ACTIVE", over |-> FALSE,
                        percent |-> 0, achieved |-> FALSE]
      OBVIOUS
    <3>2. /\ r \in [status : {"ACTIVE", "COMPLETED"}, over : BOOLEAN,
                    percent : Nat, achieved : BOOLEAN]
          /\ ~r.achieved
      BY <3>1
    <3>3. meeting = r /\ share \in [People \X Units -> Shares \cup {0}]
      BY <3>1 DEF Init
    <3>4. QED
      BY <3>2, <3>3 DEF MeetingRow
  <2>3. QED
    BY <1>2, <2>1, <2>2 DEF Typed, Sound
<1>4. Once
  BY DEF Init, Once
<1>5. QuorumNeverAhead
  <2>1. Bounded(votes) /\ meeting.percent = 0
    BY DEF Init, Bounded
  <2>2. PICK n \in Nat : n = Turnout(votes)
    BY <2>1, TurnoutGrows
  <2>3. Percent(n) \in Nat
    BY <2>2, PercentGrows
  <2>4. QED
    BY <2>1, <2>2, <2>3, QuorumIsTurnout
<1>6. QED
  BY <1>3, <1>4, <1>5 DEF MeetingInvariant

THEOREM MeetingHolds == Spec => []MeetingInvariant
<1>1. Init => MeetingInvariant
  BY InitHolds
<1>2. MeetingInvariant /\ [Next]_vars => MeetingInvariant'
  BY NextKeeps
<1>3. QED
  BY <1>1, <1>2, PTL DEF Spec

\* However many owners a unit has, and whoever they are while they vote, its
\* votes on an item never weigh more than the unit (votings.service.ts:244-260).
THEOREM UnitsDecideOnce == Spec => []AreaDecidesOnce
<1>1. MeetingInvariant => AreaDecidesOnce
  BY OnceDecidesOnce DEF MeetingInvariant
<1>2. QED
  BY <1>1, MeetingHolds, PTL

\* However many handlers store a quorum, in whatever order, from votes read
\* whenever: the stored percentage never exceeds what the votes cast so far give
\* (votings.service.ts:499-528).
THEOREM QuorumHolds == Spec => []QuorumNeverAhead
<1>1. MeetingInvariant => QuorumNeverAhead
  BY DEF MeetingInvariant
<1>2. QED
  BY <1>1, MeetingHolds, PTL

\* A quorum is declared only when 49.995 percent of the complex or more has voted.
\* More than half is meant (docs/SPECIFICATION.md:24; votings.service.ts:91);
\* comparing the rounded percentage with >= 50 gives away the rest (521-522).
QuorumIsNearHalf == meeting.achieved => 20000 * VotedArea >= 9999 * EligibleArea

\* So it is for any areas and any order of votes and updates
\* (votings.service.ts:499-528).
THEOREM QuorumNearHalf == Spec => []QuorumIsNearHalf
<1>1. MeetingInvariant => QuorumIsNearHalf
  <2> SUFFICES ASSUME MeetingInvariant, meeting.achieved
               PROVE  20000 * VotedArea >= 9999 * EligibleArea
    BY DEF QuorumIsNearHalf
  <2>1. PICK n, e \in Nat : n = Turnout(votes) /\ e = EligibleArea /\ e > 0
    BY InvariantParts, TurnoutGrows, EligibleAreaPositive
  <2>2. VotedArea = n
    BY <2>1 DEF VotedArea, Turnout, Taking, Peak, Heaviest
  <2>3. meeting.percent >= 5000 /\ meeting.percent \in Nat
    BY DEF MeetingInvariant, Typed, MeetingRow
  <2>4. Percent(n) \in Nat /\ meeting.percent <= Percent(n)
    BY <2>1, InvariantParts, PercentGrows
  <2>5. (n * 20000 + e) \div (2 * e) >= 5000
    BY <2>1, <2>3, <2>4 DEF Percent
  <2>6. n * 20000 + e >= 10000 * e
    BY <2>1, <2>5, SMTT(20)
  <2>7. 20000 * n >= 9999 * e
    BY <2>1, <2>6
  <2>8. QED
    BY <2>1, <2>2, <2>7
<1>2. QED
  BY <1>1, MeetingHolds, PTL

-----------------------------------------------------------------------------
(* Closing.                                                                *)

\* Nobody votes any more, and nobody can begin to.
Closed ==
    /\ meeting.status = "COMPLETED"
    /\ \A c \in Calls : call[c].at \notin {"entitling", "voting"}

LEMMA ClosedStays ==
  ASSUME MeetingInvariant, Closed, [Next]_vars
  PROVE  Closed' /\ votes' = votes
<1>0. call \in [Calls -> Handler] /\ meeting \in MeetingRow
  BY DEF MeetingInvariant, Typed
<1>h. ASSUME NEW c \in Calls, NEW at, UNCHANGED votes,
             at \notin {"entitling", "voting"},
             \A d \in Calls : call'[d].at = IF d = c THEN at ELSE call[d].at,
             meeting'.status = "COMPLETED"
      PROVE  Closed' /\ votes' = votes
  BY <1>h DEF Closed
<1>f. ASSUME NEW c \in Calls, Finish(c), UNCHANGED votes,
             meeting'.status = "COMPLETED"
      PROVE  Closed' /\ votes' = votes
  <2>1. Idle.at = "idle"
    BY DEF Idle
  <2>2. \A d \in Calls : call'[d].at = IF d = c THEN "idle" ELSE call[d].at
    BY <1>0, <1>f, <2>1 DEF Finish
  <2>3. QED
    BY <1>f, <1>h, <2>2
<1>1. ASSUME NEW c \in Calls,
             CheckOwnership(c) \/ \E choice \in Options : InsertVote(c, choice)
      PROVE  Closed' /\ votes' = votes
  BY <1>1 DEF Closed, CheckOwnership, InsertVote
<1>2. ASSUME NEW c \in Calls, NEW p \in People, NEW i \in Items, NEW u \in Units,
             CheckMeeting(c, p, i, u)
      PROVE  Closed' /\ votes' = votes
  BY <1>2 DEF Closed, CheckMeeting, TakesVotes
<1>3. ASSUME NEW c \in Calls, ReadMeeting(c) PROVE Closed' /\ votes' = votes
  <2>1. PICK q : q = [Idle EXCEPT !.at = "closing", !.seen = votes]
    OBVIOUS
  <2>2. q.at = "closing" /\ call' = [call EXCEPT ![c] = q] /\ UNCHANGED <<meeting, votes>>
    BY <1>3, <2>1 DEF ReadMeeting, Idle
  <2>3. \A d \in Calls : call'[d].at = IF d = c THEN "closing" ELSE call[d].at
    BY <1>0, <2>2
  <2>4. QED
    BY <1>h, <2>2, <2>3 DEF Closed
<1>4. ASSUME NEW c \in Calls, ReadTally(c) PROVE Closed' /\ votes' = votes
  <2>1. \A d \in Calls : call'[d].at = IF d = c THEN "storing" ELSE call[d].at
    BY <1>0, <1>4 DEF ReadTally, Handler
  <2>2. QED
    BY <1>4, <1>h, <2>1 DEF ReadTally, Closed
<1>5. ASSUME NEW c \in Calls, CloseMeeting(c) PROVE Closed' /\ votes' = votes
  <2>1. \A d \in Calls : call'[d].at = IF d = c THEN "printing" ELSE call[d].at
    BY <1>0, <1>5 DEF CloseMeeting, Handler
  <2>2. meeting'.status = "COMPLETED" /\ UNCHANGED votes
    BY <1>0, <1>5 DEF CloseMeeting, MeetingRow
  <2>3. QED
    BY <1>h, <2>1, <2>2
<1>6. ASSUME NEW c \in Calls, StoreQuorum(c) \/ StoreProtocol(c) \/ Abandon(c)
      PROVE  Closed' /\ votes' = votes
  <2>1. Finish(c) /\ UNCHANGED votes
    BY <1>6 DEF StoreQuorum, StoreProtocol, Abandon
  <2>2. meeting'.status = meeting.status
    <3>1. CASE UNCHANGED meeting
      BY <3>1
    <3>2. CASE StoreQuorum(c)
      BY <3>2, QuorumStored
    <3>3. QED
      BY <1>6, <3>1, <3>2 DEF StoreProtocol, Abandon
  <2>3. meeting'.status = "COMPLETED"
    BY <2>2 DEF Closed
  <2>4. QED
    BY <1>f, <2>1, <2>3
<1>7. ASSUME \/ PeriodEnds \/ UNCHANGED vars
             \/ \E p \in People, u \in Units :
                  Unlink(p, u) \/ \E s \in Shares : Confirm(p, u, s)
      PROVE  Closed' /\ votes' = votes
  <2>1. UNCHANGED <<votes, call>> /\ meeting'.status = meeting.status
    BY <1>0, <1>7 DEF PeriodEnds, vars, Unlink, Confirm, MeetingRow
  <2>2. QED
    BY <2>1 DEF Closed
<1>8. QED
  BY <1>1, <1>2, <1>3, <1>4, <1>5, <1>6, <1>7 DEF Next, Proceed

\* Whatever the items, the votes and the handlers: once a meeting is closed and
\* no handler is in flight, no outcome changes (votings.service.ts:195-201,
\* 653-673).
THEOREM ClosingHolds == Spec => ClosingIsFinal
<1>1. ASSUME NEW i \in Items, NEW outcome \in BOOLEAN
      PROVE  Spec => [](meeting.status = "COMPLETED" /\ Quiet /\ Approved(votes, i) = outcome
                          => [](Approved(votes, i) = outcome))
  <2> DEFINE Decided == Approved(votes, i) = outcome
             Settled == Closed /\ Decided
  <2>1. meeting.status = "COMPLETED" /\ Quiet /\ Decided => Settled
    BY DEF Quiet, Closed
  <2>2. MeetingInvariant /\ Settled /\ [Next]_vars => Settled'
    <3> SUFFICES ASSUME MeetingInvariant, Settled, [Next]_vars PROVE Settled'
      OBVIOUS
    <3>1. Closed' /\ votes' = votes
      BY ClosedStays
    <3>2. QED
      BY <3>1 DEF Approved, AreaOf, AreaOn, WeightOf
  <2>3. Settled => Decided
    OBVIOUS
  <2>4. QED
    BY <2>1, <2>2, <2>3, MeetingHolds, PTL DEF Spec
<1>2. QED
  BY <1>1 DEF ClosingIsFinal
=============================================================================
