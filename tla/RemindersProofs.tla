-------------------------- MODULE RemindersProofs --------------------------
(***************************************************************************)
(* What holds of a flag and its sweeps for any number of recipients and of *)
(* sweeps under way.  That what stays due is reminded of needs fairness    *)
(* and is left to model checking.                                          *)
(***************************************************************************)
EXTENDS Reminders, TLAPS

Sweep ==
    [at : {"idle", "listed", "sending", "flagging", "clearing"},
     found : BOOLEAN, left : SUBSET Recipients, sent : BOOLEAN,
     made : SUBSET Recipients, alone : BOOLEAN, stale : BOOLEAN]

\* Where a sweep is tells what it may hold.
Shape(q) ==
    /\ q.at \in {"idle", "listed", "clearing"} => ~q.sent
    /\ q.at = "clearing" => ~q.found
    /\ q.at \in {"sending", "flagging"} => q.found
    /\ q.at = "sending" => q.left \cup q.made = Recipients
    /\ q.at = "flagging" => q.sent /\ q.made = Recipients

IsTyped ==
    /\ TypeOK
    /\ \A w \in Sweeps : Shape(sweep[w])
    /\ \A w \in Sweeps : sweep[w].at # "idle" /\ ~sweep[w].found => kind = "alert"

LEMMA IdleIsSweep == Idle \in Sweep /\ Shape(Idle) /\ Idle.at = "idle"
BY DEF Idle, Sweep, Shape

\* A step that sets one sweep to a sweep keeps the table of sweeps typed.
LEMMA OneSweepStep ==
  ASSUME IsTyped, NEW w \in Sweeps, NEW q \in Sweep, Shape(q),
         q.at # "idle" /\ ~q.found => kind' = "alert", kind' = kind,
         sweep' = [sweep EXCEPT ![w] = q]
  PROVE  /\ sweep' \in [Sweeps -> Sweep]
         /\ \A v \in Sweeps : Shape(sweep'[v])
         /\ \A v \in Sweeps : sweep'[v].at # "idle" /\ ~sweep'[v].found => kind' = "alert"
<1>1. sweep \in [Sweeps -> Sweep]
  BY DEF IsTyped, TypeOK, Sweep
<1>2. \A v \in Sweeps : sweep'[v] = IF v = w THEN q ELSE sweep[v]
  BY <1>1
<1>3. QED
  BY <1>1, <1>2 DEF IsTyped, TypeOK

\* A sweep that sets to work, and those it meets.
LEMMA EnterSteps ==
  ASSUME IsTyped, NEW w \in Sweeps, NEW at \in {"sending", "clearing"},
         NEW left \in SUBSET Recipients, Enter(w, at, left),
         sweep[w].at = "listed", at = "sending" <=> sweep[w].found,
         at = "sending" => left = Recipients
  PROVE  /\ \A v \in Sweeps :
              /\ sweep'[v] \in Sweep /\ Shape(sweep'[v])
              /\ sweep'[v].found = sweep[v].found
              /\ sweep'[v].sent = sweep[v].sent
              /\ sweep'[v].stale = sweep[v].stale
              /\ sweep'[v].at = IF v = w THEN at ELSE sweep[v].at
              /\ sweep'[v].left = IF v = w THEN left ELSE sweep[v].left
              /\ v # w => (sweep'[v].alone <=> sweep[v].alone /\ ~At(v))
         /\ sweep'[w].alone <=> ~\E v \in Sweeps : At(v)
         /\ sweep' \in [Sweeps -> Sweep]
<1>0. sweep \in [Sweeps -> Sweep] /\ \A v \in Sweeps : Shape(sweep[v])
  BY DEF IsTyped, TypeOK, Sweep
<1>1. ASSUME NEW v \in Sweeps, v # w
      PROVE  /\ sweep'[v] \in Sweep /\ Shape(sweep'[v])
             /\ sweep'[v].found = sweep[v].found
             /\ sweep'[v].sent = sweep[v].sent
             /\ sweep'[v].stale = sweep[v].stale
             /\ sweep'[v].at = sweep[v].at
             /\ sweep'[v].left = sweep[v].left
             /\ sweep'[v].alone <=> sweep[v].alone /\ ~At(v)
  <2>1. PICK q \in Sweep : q = sweep[v] /\ Shape(q)
    BY <1>0
  <2>2. PICK b \in BOOLEAN : b = (q.alone /\ ~At(v))
    OBVIOUS
  <2>3. sweep'[v] = [q EXCEPT !.alone = b]
    BY <1>1, <2>1, <2>2 DEF Enter
  <2>4. b \in BOOLEAN
    BY <2>2
  <2>5. /\ sweep'[v] \in Sweep /\ sweep'[v].alone = b
        /\ sweep'[v].found = q.found /\ sweep'[v].sent = q.sent
        /\ sweep'[v].stale = q.stale /\ sweep'[v].at = q.at
        /\ sweep'[v].left = q.left /\ sweep'[v].made = q.made
    BY <2>1, <2>3, <2>4 DEF Sweep
  <2>6. QED
    BY <2>1, <2>2, <2>5 DEF Shape
<1>2. /\ sweep'[w] \in Sweep /\ Shape(sweep'[w])
      /\ sweep'[w].found = sweep[w].found
      /\ sweep'[w].sent = sweep[w].sent
      /\ sweep'[w].stale = sweep[w].stale
      /\ sweep'[w].at = at
      /\ sweep'[w].left = left
      /\ sweep'[w].alone <=> ~\E v \in Sweeps : At(v)
  <2>1. PICK q \in Sweep : q = sweep[w] /\ Shape(q)
    BY <1>0
  <2>2. PICK b \in BOOLEAN : b = ({v \in Sweeps : At(v)} = {})
    OBVIOUS
  <2>3. sweep'[w] = [q EXCEPT !.at = at, !.left = left, !.alone = b]
    BY <2>1, <2>2 DEF Enter
  <2>4. b \in BOOLEAN
    BY <2>2
  <2>5. /\ sweep'[w] \in Sweep /\ sweep'[w].alone = b
        /\ sweep'[w].found = q.found /\ sweep'[w].sent = q.sent
        /\ sweep'[w].stale = q.stale /\ sweep'[w].at = at
        /\ sweep'[w].left = left /\ sweep'[w].made = q.made
    BY <2>1, <2>3, <2>4 DEF Sweep
  <2>6. b <=> ~\E v \in Sweeps : At(v)
    BY <2>2
  <2>7. q.made \subseteq Recipients
    BY <2>1 DEF Sweep
  <2>8. Shape(sweep'[w])
    BY <2>1, <2>5, <2>7 DEF Shape
  <2>9. QED
    BY <2>1, <2>5, <2>6, <2>8
<1>3. sweep' \in [Sweeps -> Sweep]
  BY <1>1, <1>2 DEF Enter
<1>4. QED
  BY <1>1, <1>2, <1>3

-----------------------------------------------------------------------------
\* Typing is inductive.
LEMMA IsTypedNext ==
  ASSUME IsTyped, [Next]_vars
  PROVE  IsTyped'
<1> DEFINE Calm == /\ sweep' \in [Sweeps -> Sweep]
                   /\ \A v \in Sweeps : Shape(sweep'[v])
                   /\ \A v \in Sweeps : sweep'[v].at # "idle" /\ ~sweep'[v].found => kind' = "alert"
<1>0. /\ sweep \in [Sweeps -> Sweep] /\ \A v \in Sweeps : Shape(sweep[v])
      /\ kind \in {"reminder", "alert"}
      /\ due \in BOOLEAN /\ flag \in BOOLEAN /\ blind \in BOOLEAN
      /\ handed \subseteq Recipients /\ tried \subseteq Recipients
      /\ \A v \in Sweeps : sweep[v].at # "idle" /\ ~sweep[v].found => kind = "alert"
  BY DEF IsTyped, TypeOK, Sweep
<1>c. ASSUME Calm, kind' = kind,
             due' \in BOOLEAN, flag' \in BOOLEAN, blind' \in BOOLEAN,
             handed' \subseteq Recipients, tried' \subseteq Recipients
      PROVE  IsTyped'
  <2>1. \A v \in Sweeps : sweep'[v].at = "clearing" => kind' = "alert"
    BY <1>c DEF Shape
  <2>2. QED
    BY <1>0, <1>c, <2>1 DEF IsTyped, TypeOK, Sweep
<1>l. ASSUME NEW w \in Sweeps, Leave(w), kind' = kind PROVE Calm
  BY <1>l, IdleIsSweep, OneSweepStep DEF Leave
<1>1. ASSUME NEW w \in Sweeps, List(w) PROVE IsTyped'
  <2> DEFINE q == [Idle EXCEPT !.at = "listed", !.found = due]
  <2>1. q \in Sweep /\ Shape(q) /\ q.at = "listed" /\ q.found = due
    BY <1>0 DEF Idle, Sweep, Shape
  <2>2. ~q.found => kind' = "alert"
    BY <1>1, <2>1 DEF List, Listable
  <2>3. Calm
    BY <1>1, <2>1, <2>2, OneSweepStep DEF List
  <2>4. QED
    BY <1>0, <1>1, <1>c, <2>3 DEF List
<1>2. ASSUME NEW w \in Sweeps, LookDue(w) PROVE IsTyped'
  <2>1. Calm
    <3>1. CASE Silenced
      BY <1>2, <1>l, <3>1 DEF LookDue
    <3>2. CASE ~Silenced
      BY <1>0, <1>2, <3>2, EnterSteps DEF LookDue
    <3>3. QED
      BY <3>1, <3>2
  <2>2. QED
    BY <1>0, <1>2, <1>c, <2>1 DEF LookDue
<1>3. ASSUME NEW w \in Sweeps, LookFree(w) PROVE IsTyped'
  <2>1. Calm
    <3>1. CASE ~flag
      BY <1>3, <1>l, <3>1 DEF LookFree
    <3>2. CASE flag
      BY <1>0, <1>3, <3>2, EnterSteps DEF LookFree
    <3>3. QED
      BY <3>1, <3>2
  <2>2. QED
    BY <1>0, <1>3, <1>c, <2>1 DEF LookFree
<1>4. ASSUME NEW w \in Sweeps, NEW r \in Recipients, Send(w, r) PROVE IsTyped'
  <2> DEFINE q == [sweep[w] EXCEPT !.left = @ \ {r}, !.made = @ \cup {r},
                              !.sent = TRUE]
  <2>1. q \in Sweep /\ Shape(q) /\ q.at = "sending" /\ q.found
    BY <1>0, <1>4 DEF Send, Sweep, Shape
  <2>2. sweep' = [sweep EXCEPT ![w] = q]
    BY <1>0, <1>4 DEF Send
  <2>3. Calm
    BY <1>4, <2>1, <2>2, OneSweepStep DEF Send
  <2>4. QED
    BY <1>0, <1>4, <1>c, <2>3 DEF Send
<1>5. ASSUME NEW w \in Sweeps, NEW r \in Recipients, SendThrows(w, r) PROVE IsTyped'
  <2> DEFINE q == [sweep[w] EXCEPT !.left = @ \ {r}, !.made = @ \cup {r}]
  <2>1. q \in Sweep /\ Shape(q) /\ q.at = "sending" /\ q.found
    BY <1>0, <1>5 DEF SendThrows, Sweep, Shape
  <2>2. sweep' = [sweep EXCEPT ![w] = q]
    BY <1>0, <1>5 DEF SendThrows
  <2>3. Calm
    BY <1>5, <2>1, <2>2, OneSweepStep DEF SendThrows
  <2>4. QED
    BY <1>0, <1>5, <1>c, <2>3 DEF SendThrows
<1>6. ASSUME NEW w \in Sweeps, Tried(w) PROVE IsTyped'
  <2>1. Calm
    <3>1. CASE ~Earned(w)
      BY <1>6, <1>l, <3>1 DEF Tried
    <3>2. CASE Earned(w)
      <4> DEFINE q == [sweep[w] EXCEPT !.at = "flagging"]
      <4>1. q \in Sweep /\ Shape(q) /\ q.at = "flagging" /\ q.found
        BY <1>0, <1>6, <3>2 DEF Tried, Earned, Sweep, Shape
      <4>2. sweep' = [sweep EXCEPT ![w] = q] /\ kind' = kind
        BY <1>0, <1>6, <3>2 DEF Tried
      <4>3. QED
        BY <4>1, <4>2, OneSweepStep
    <3>3. QED
      BY <3>1, <3>2
  <2>2. QED
    BY <1>0, <1>6, <1>c, <2>1 DEF Tried
<1>7. ASSUME NEW w \in Sweeps, SetFlag(w) PROVE IsTyped'
  <2>1. sweep[w].made \subseteq Recipients
    BY <1>0 DEF Sweep
  <2>2. QED
    BY <1>0, <1>7, <1>c, <1>l, <2>1 DEF SetFlag
<1>8. ASSUME NEW w \in Sweeps, Clear(w) PROVE IsTyped'
  <2>1. blind' \in BOOLEAN
    BY <1>0, <1>8 DEF Clear, Sweep
  <2>2. QED
    BY <1>0, <1>8, <1>c, <1>l, <2>1 DEF Clear
<1>9. ASSUME NEW w \in Sweeps, Fail(w) PROVE IsTyped'
  <2>1. blind' \in BOOLEAN
    BY <1>0, <1>9 DEF Fail, Sweep
  <2>2. QED
    BY <1>0, <1>9, <1>c, <1>l, <2>1 DEF Fail
<1>10. ASSUME Change PROVE IsTyped'
  <2>1. ASSUME NEW v \in Sweeps
        PROVE  /\ sweep'[v] \in Sweep /\ Shape(sweep'[v])
               /\ sweep'[v].at = sweep[v].at
               /\ sweep[v].at # "idle" => sweep'[v].found = sweep[v].found
    <3>1. PICK q \in Sweep : q = sweep[v] /\ Shape(q)
      BY <1>0
    <3>2. CASE q.at = "idle"
      BY <1>10, <3>1, <3>2, IdleIsSweep DEF Change
    <3>3. CASE q.at # "idle"
      <4>1. sweep'[v] = [q EXCEPT !.stale = TRUE]
        BY <1>10, <3>1, <3>3 DEF Change
      <4>2. QED
        BY <3>1, <4>1 DEF Sweep, Shape
    <3>4. QED
      BY <3>2, <3>3
  <2>2. Calm
    BY <1>0, <1>10, <2>1 DEF Change
  <2>3. QED
    BY <1>0, <1>10, <1>c, <2>2 DEF Change
<1>11. ASSUME Expire PROVE IsTyped'
  BY <1>0, <1>11, <1>c DEF Expire
<1>12. CASE UNCHANGED vars
  BY <1>0, <1>12, <1>c DEF vars
<1>13. QED
  BY <1>1, <1>2, <1>3, <1>4, <1>5, <1>6, <1>7, <1>8, <1>9, <1>10, <1>11, <1>12
  DEF Next, Work

\* Typing is an invariant.
LEMMA Typing == Spec => []IsTyped
<1>1. Init => IsTyped
  <2> SUFFICES ASSUME Init PROVE IsTyped
    OBVIOUS
  <2>1. sweep \in [Sweeps -> Sweep] /\ \A w \in Sweeps : sweep[w] = Idle
    BY IdleIsSweep DEF Init
  <2>2. QED
    BY <2>1, IdleIsSweep DEF Init, IsTyped, TypeOK, Sweep
<1>2. IsTyped /\ [Next]_vars => IsTyped'
  BY IsTypedNext
<1>3. QED
  BY <1>1, <1>2, PTL DEF Spec

\* Only the check of the car parks ever drops a flag, and sweeps keep their
\* shape (bookings-scheduler.service.ts:185-255).
THEOREM RemindersTyped == Spec => []TypeOK
<1>1. IsTyped => TypeOK
  BY DEF IsTyped
<1>2. QED
  BY <1>1, Typing, PTL

-----------------------------------------------------------------------------
(* A flag means that every call was made.                                  *)

\* However sweeps overlap, throw and die, a flag silences a reminder only after
\* a sweep that made the call for every recipient
\* (finance-scheduler.service.ts:149-169, meters-scheduler.service.ts:147-170).
THEOREM FlagFollowsARound == Spec => []EveryoneWasTried
<1>1. Init => EveryoneWasTried
  BY DEF Init, EveryoneWasTried
<1>2. IsTyped /\ EveryoneWasTried /\ [Next]_vars => EveryoneWasTried'
  <2> SUFFICES ASSUME IsTyped, EveryoneWasTried, [Next]_vars PROVE EveryoneWasTried'
    OBVIOUS
  <2>1. ASSUME NEW w \in Sweeps, SetFlag(w) PROVE EveryoneWasTried'
    BY <2>1 DEF SetFlag, IsTyped, Shape, EveryoneWasTried
  <2>2. ASSUME UNCHANGED tried, flag' => flag PROVE EveryoneWasTried'
    BY <2>2 DEF EveryoneWasTried
  <2>3. ASSUME NEW w \in Sweeps, List(w) \/ LookDue(w) \/ LookFree(w) \/ Tried(w)
        PROVE  EveryoneWasTried'
    BY <2>2, <2>3 DEF List, LookDue, LookFree, Tried
  <2>4. ASSUME NEW w \in Sweeps, NEW r \in Recipients, Send(w, r) \/ SendThrows(w, r)
        PROVE  EveryoneWasTried'
    BY <2>2, <2>4 DEF Send, SendThrows
  <2>5. ASSUME NEW w \in Sweeps, Clear(w) \/ Fail(w)
        PROVE  EveryoneWasTried'
    BY <2>2, <2>5 DEF Clear, Fail
  <2>6. CASE Change \/ Expire \/ UNCHANGED vars
    BY <2>2, <2>6 DEF Change, Expire, vars
  <2>7. QED
    BY <2>1, <2>3, <2>4, <2>5, <2>6 DEF Next, Work
<1>3. QED
  BY <1>1, <1>2, Typing, PTL DEF Spec

-----------------------------------------------------------------------------
(* Nothing is handed on twice but for a race, a failure or an old list.     *)

\* What is left of an alert when there is nothing to alert about.
Over == kind = "alert" /\ ~due

\* That a call returned shows in the flag, or in a sweep about to set it.
Noticed == handed # {} => blind \/ flag \/ Over \/ \E w \in Sweeps : sweep[w].sent

Apart == \A v, w \in Sweeps : v # w /\ At(v) /\ At(w) => ~sweep[w].alone

\* A sweep alone at it found no flag, and calls for whom no call returned.
FreshSweep(w) ==
    sweep[w].at = "sending" /\ sweep[w].alone =>
        /\ ~flag
        /\ sweep[w].stale \/ blind \/ handed \cap sweep[w].left = {}

\* A car park whose state is not the listed one has changed.
Current(w) ==
    kind = "alert" /\ sweep[w].at # "idle" /\ sweep[w].found # due => sweep[w].stale

Remembered ==
    /\ Noticed
    /\ Apart
    /\ \A w \in Sweeps : FreshSweep(w)
    /\ \A w \in Sweeps : Current(w)

\* A step in which sweep w goes on to q, and the others stay.
LEMMA OneMoves ==
  ASSUME IsTyped, Remembered, NEW w \in Sweeps, NEW q \in Sweep,
         sweep' = [sweep EXCEPT ![w] = q],
         UNCHANGED <<kind, due>>,
         q.at \in {"sending", "flagging", "clearing"} => At(w) /\ q.alone = sweep[w].alone,
         flag' => flag \/ At(w),
         blind => blind' \/ At(w),
         handed' = handed \/ At(w),
         q.at = "sending" /\ q.alone =>
            /\ ~flag'
            /\ q.stale \/ blind' \/ handed' \cap q.left = {},
         kind = "alert" /\ q.at # "idle" /\ q.found # due => q.stale,
         Noticed'
  PROVE  Remembered'
<1>0. sweep \in [Sweeps -> Sweep]
  BY DEF IsTyped, TypeOK, Sweep
<1>1. sweep'[w] = q /\ \A v \in Sweeps \ {w} : sweep'[v] = sweep[v]
  BY <1>0
<1>2. \A v \in Sweeps : At(v)' => At(v) /\ sweep'[v].alone = sweep[v].alone
  BY <1>1 DEF At
<1>3. Apart'
  BY <1>2 DEF Remembered, Apart
<1>4. ASSUME NEW v \in Sweeps PROVE FreshSweep(v)'
  <2>1. CASE v = w
    BY <1>1, <2>1 DEF FreshSweep
  <2>2. CASE v # w
    <3>1. FreshSweep(v) /\ sweep'[v] = sweep[v]
      BY <1>1, <2>2 DEF Remembered
    <3>2. sweep[v].at = "sending" /\ sweep[v].alone => ~At(w)
      BY <2>2 DEF Remembered, Apart, At
    <3>3. QED
      BY <3>1, <3>2 DEF FreshSweep
  <2>3. QED
    BY <2>1, <2>2
<1>5. ASSUME NEW v \in Sweeps PROVE Current(v)'
  BY <1>1 DEF Remembered, Current
<1>6. QED
  BY <1>3, <1>4, <1>5 DEF Remembered

\* A sweep ends.
LEMMA LeaveKeeps ==
  ASSUME IsTyped, Remembered, NEW w \in Sweeps, Leave(w),
         UNCHANGED <<kind, due, handed>>,
         flag' => flag \/ At(w),
         blind => blind' \/ At(w),
         handed # {} => blind' \/ flag' \/ Over
                        \/ \E v \in Sweeps \ {w} : sweep[v].sent
  PROVE  Remembered'
<1>0. sweep \in [Sweeps -> Sweep] /\ Idle \in Sweep /\ Idle.at = "idle"
  BY IdleIsSweep DEF IsTyped, TypeOK, Sweep
<1>1. \A v \in Sweeps \ {w} : sweep'[v] = sweep[v]
  BY <1>0 DEF Leave
<1>2. Noticed'
  BY <1>1 DEF Noticed, Over
<1>3. QED
  BY <1>0, <1>2, OneMoves DEF Leave

\* A sweep sets to work: the others are not alone any more, and when there are
\* none every call that returned shows in the flag.
LEMMA EnterKeeps ==
  ASSUME IsTyped, Remembered, NEW w \in Sweeps, NEW at \in {"sending", "clearing"},
         NEW left \in SUBSET Recipients, Enter(w, at, left),
         sweep[w].at = "listed", at = "sending" <=> sweep[w].found,
         at = "sending" => ~flag /\ left = Recipients,
         UNCHANGED <<kind, due, flag, handed, blind>>
  PROVE  Remembered'
<1>0. /\ sweep \in [Sweeps -> Sweep] /\ \A v \in Sweeps : Shape(sweep[v])
      /\ handed \subseteq Recipients
  BY DEF IsTyped, TypeOK, Sweep
<1>1. \A v \in Sweeps :
         /\ sweep'[v].found = sweep[v].found
         /\ sweep'[v].sent = sweep[v].sent
         /\ sweep'[v].stale = sweep[v].stale
         /\ sweep'[v].at = IF v = w THEN at ELSE sweep[v].at
         /\ v # w => sweep'[v].left = sweep[v].left
         /\ v # w => (sweep'[v].alone <=> sweep[v].alone /\ ~At(v))
  BY EnterSteps
<1>2. sweep'[w].alone <=> ~\E v \in Sweeps : At(v)
  BY EnterSteps
<1>3. Noticed'
  BY <1>1 DEF Remembered, Noticed, Over
<1>4. Apart'
  <2> SUFFICES ASSUME NEW u \in Sweeps, NEW v \in Sweeps, u # v, At(u)', At(v)'
               PROVE  ~sweep'[v].alone
    BY DEF Apart
  <2>1. CASE v = w
    BY <1>1, <1>2, <2>1 DEF At
  <2>2. CASE v # w
    BY <1>1, <2>2 DEF At
  <2>3. QED
    BY <2>1, <2>2
<1>5. ASSUME NEW v \in Sweeps PROVE FreshSweep(v)'
  <2>1. CASE v # w
    BY <1>1, <2>1 DEF FreshSweep, At
  <2>2. CASE v = w
    <3> SUFFICES ASSUME at = "sending", ~\E u \in Sweeps : At(u)
                 PROVE  sweep[w].stale \/ blind \/ handed = {}
      BY <1>1, <1>2, <2>2 DEF FreshSweep
    <3>1. \A u \in Sweeps : ~sweep[u].sent
      BY <1>0 DEF Shape, At, Sweep
    <3>2. handed = {} \/ blind \/ Over
      BY <3>1 DEF Remembered, Noticed
    <3>3. Over => sweep[w].stale
      <4>1. Current(w) /\ sweep[w].found
        BY DEF Remembered
      <4>2. QED
        BY <4>1 DEF Current, Over
    <3>4. QED
      BY <3>2, <3>3
  <2>3. QED
    BY <2>1, <2>2
<1>6. ASSUME NEW v \in Sweeps PROVE Current(v)'
  BY <1>1 DEF Remembered, Current
<1>7. QED
  BY <1>3, <1>4, <1>5, <1>6 DEF Remembered

LEMMA RememberedNext ==
  ASSUME IsTyped, Remembered, [Next]_vars
  PROVE  Remembered'
<1>0. /\ sweep \in [Sweeps -> Sweep] /\ \A v \in Sweeps : Shape(sweep[v])
      /\ kind \in {"reminder", "alert"} /\ due \in BOOLEAN
      /\ handed \subseteq Recipients
      /\ \A v \in Sweeps : sweep[v].at # "idle" /\ ~sweep[v].found => kind = "alert"
  BY DEF IsTyped, TypeOK, Sweep
\* What is known of the flag, of one sweep apart from the others.
<1>n. ASSUME NEW w \in Sweeps, ~sweep[w].sent
      PROVE  handed # {} => blind \/ flag \/ Over
                            \/ \E v \in Sweeps \ {w} : sweep[v].sent
  BY <1>n DEF Remembered, Noticed
<1>1. ASSUME NEW w \in Sweeps, List(w) PROVE Remembered'
  <2> DEFINE q == [Idle EXCEPT !.at = "listed", !.found = due]
  <2>1. q \in Sweep /\ q.at = "listed" /\ q.found = due /\ ~q.sent
    BY <1>0 DEF Idle, Sweep
  <2>2. \A v \in Sweeps \ {w} : sweep'[v] = sweep[v]
    BY <1>0, <1>1 DEF List
  <2>3. ~sweep[w].sent
    BY <1>0, <1>1 DEF List, Shape
  <2>4. Noticed'
    BY <1>1, <1>n, <2>2, <2>3 DEF List, Noticed, Over
  <2>5. sweep' = [sweep EXCEPT ![w] = q]
    BY <1>1 DEF List
  <2> HIDE DEF q
  <2>6. QED
    BY <1>1, <2>1, <2>4, <2>5, OneMoves DEF List
<1>2. ASSUME NEW w \in Sweeps, LookDue(w) PROVE Remembered'
  <2>1. CASE Silenced
    <3>1. flag /\ Leave(w)
      BY <1>2, <2>1 DEF LookDue, Silenced
    <3>2. QED
      BY <1>2, <3>1, LeaveKeeps DEF LookDue
  <2>2. CASE ~Silenced
    BY <1>2, <2>2, EnterKeeps DEF LookDue, Silenced
  <2>3. QED
    BY <2>1, <2>2
<1>3. ASSUME NEW w \in Sweeps, LookFree(w) PROVE Remembered'
  <2>1. CASE flag
    BY <1>3, <2>1, EnterKeeps DEF LookFree
  <2>2. CASE ~flag
    <3>1. ~sweep[w].sent /\ Leave(w)
      BY <1>0, <1>3, <2>2 DEF LookFree, Shape
    <3>2. QED
      BY <1>3, <1>n, <3>1, LeaveKeeps DEF LookFree
  <2>3. QED
    BY <2>1, <2>2
<1>4. ASSUME NEW w \in Sweeps, NEW r \in Recipients, Send(w, r) PROVE Remembered'
  <2> DEFINE q == [sweep[w] EXCEPT !.left = @ \ {r}, !.made = @ \cup {r},
                              !.sent = TRUE]
  <2>1. /\ q \in Sweep /\ q.at = "sending" /\ q.sent
        /\ q.alone = sweep[w].alone /\ q.left = sweep[w].left \ {r}
        /\ q.stale = sweep[w].stale /\ q.found = sweep[w].found
    BY <1>0, <1>4 DEF Send, Sweep
  <2>2. sweep' = [sweep EXCEPT ![w] = q] /\ sweep'[w] = q
    BY <1>0, <1>4 DEF Send
  <2>3. At(w) /\ sweep[w].at = "sending"
    BY <1>4 DEF Send, At
  <2>4. Noticed'
    BY <2>1, <2>2 DEF Noticed
  <2> HIDE DEF q
  <2>5. FreshSweep(w) /\ Current(w)
    BY DEF Remembered
  <2>6. q.alone => ~flag' /\ (q.stale \/ blind' \/ handed' \cap q.left = {})
    BY <1>4, <2>1, <2>3, <2>5 DEF Send, FreshSweep
  <2>7. kind = "alert" /\ q.found # due => q.stale
    BY <2>1, <2>3, <2>5 DEF Current
  <2>8. QED
    BY <1>4, <2>1, <2>2, <2>3, <2>4, <2>6, <2>7, OneMoves DEF Send
<1>5. ASSUME NEW w \in Sweeps, NEW r \in Recipients, SendThrows(w, r) PROVE Remembered'
  <2> DEFINE q == [sweep[w] EXCEPT !.left = @ \ {r}, !.made = @ \cup {r}]
  <2>1. /\ q \in Sweep /\ q.at = "sending" /\ q.sent = sweep[w].sent
        /\ q.alone = sweep[w].alone /\ q.left = sweep[w].left \ {r}
        /\ q.stale = sweep[w].stale /\ q.found = sweep[w].found
    BY <1>0, <1>5 DEF SendThrows, Sweep
  <2>2. /\ sweep' = [sweep EXCEPT ![w] = q]
        /\ \A v \in Sweeps : sweep'[v].sent = sweep[v].sent
    BY <1>0, <1>5, <2>1 DEF SendThrows
  <2>3. At(w) /\ sweep[w].at = "sending"
    BY <1>5 DEF SendThrows, At
  <2>4. Noticed'
    BY <1>5, <2>2 DEF SendThrows, Remembered, Noticed, Over
  <2> HIDE DEF q
  <2>5. FreshSweep(w) /\ Current(w)
    BY DEF Remembered
  <2>6. q.alone => ~flag' /\ (q.stale \/ blind' \/ handed' \cap q.left = {})
    BY <1>5, <2>1, <2>3, <2>5 DEF SendThrows, FreshSweep
  <2>7. kind = "alert" /\ q.found # due => q.stale
    BY <2>1, <2>3, <2>5 DEF Current
  <2>8. QED
    BY <1>5, <2>1, <2>2, <2>3, <2>4, <2>6, <2>7, OneMoves DEF SendThrows
<1>6. ASSUME NEW w \in Sweeps, Tried(w) PROVE Remembered'
  <2>1. CASE ~Earned(w)
    <3>1. ~sweep[w].sent /\ Leave(w)
      BY <1>6, <2>1 DEF Tried, Earned
    <3>2. QED
      BY <1>6, <1>n, <3>1, LeaveKeeps DEF Tried
  <2>2. CASE Earned(w)
    <3> DEFINE q == [sweep[w] EXCEPT !.at = "flagging"]
    <3>1. /\ q \in Sweep /\ q.at = "flagging" /\ q.sent = sweep[w].sent
          /\ q.alone = sweep[w].alone
          /\ q.stale = sweep[w].stale /\ q.found = sweep[w].found
      BY <1>0, <1>6 DEF Tried, Sweep
    <3>2. /\ sweep' = [sweep EXCEPT ![w] = q]
          /\ \A v \in Sweeps : sweep'[v].sent = sweep[v].sent
      BY <1>0, <1>6, <2>2, <3>1 DEF Tried
    <3>3. At(w) /\ sweep[w].at = "sending"
      BY <1>6 DEF Tried, At
    <3>4. Noticed'
      BY <1>6, <3>2 DEF Tried, Remembered, Noticed, Over
    <3> HIDE DEF q
    <3>5. kind = "alert" /\ q.found # due => q.stale
      BY <3>1, <3>3 DEF Remembered, Current
    <3>6. QED
      BY <1>6, <3>1, <3>2, <3>3, <3>4, <3>5, OneMoves DEF Tried
  <2>3. QED
    BY <2>1, <2>2
<1>7. ASSUME NEW w \in Sweeps, SetFlag(w) PROVE Remembered'
  BY <1>7, LeaveKeeps DEF SetFlag, At
<1>8. ASSUME NEW w \in Sweeps, Clear(w) PROVE Remembered'
  <2>1. kind = "alert" /\ ~sweep[w].found /\ ~sweep[w].sent
    BY <1>0, <1>8 DEF Clear, Shape
  <2>2. sweep[w].stale \/ ~due
    BY <1>0, <1>8, <2>1 DEF Clear, Remembered, Current
  <2>3. blind' \/ Over
    BY <1>8, <2>1, <2>2 DEF Clear, Over
  <2>4. blind => blind'
    BY <1>8 DEF Clear
  <2>5. QED
    BY <1>8, <2>3, <2>4, LeaveKeeps DEF Clear
<1>9. ASSUME NEW w \in Sweeps, Fail(w) PROVE Remembered'
  <2>1. blind' \/ ~sweep[w].sent
    BY <1>9 DEF Fail
  <2>2. blind => blind'
    BY <1>9 DEF Fail
  <2>3. QED
    BY <1>9, <1>n, <2>1, <2>2, LeaveKeeps DEF Fail
<1>10. ASSUME Change PROVE Remembered'
  <2>1. ASSUME NEW v \in Sweeps
        PROVE  /\ sweep'[v].at = sweep[v].at
               /\ sweep'[v].at # "idle" =>
                    /\ sweep'[v].stale
                    /\ sweep'[v].alone = sweep[v].alone
                    /\ sweep'[v].left = sweep[v].left
                    /\ sweep'[v].sent = sweep[v].sent
    <3>1. PICK q \in Sweep : q = sweep[v]
      BY <1>0
    <3>2. CASE q.at = "idle"
      BY <1>10, <3>1, <3>2, IdleIsSweep DEF Change
    <3>3. CASE q.at # "idle"
      <4>1. sweep'[v] = [q EXCEPT !.stale = TRUE]
        BY <1>10, <3>1, <3>3 DEF Change
      <4>2. QED
        BY <3>1, <3>3, <4>1 DEF Sweep
    <3>4. QED
      BY <3>2, <3>3
  <2>2. Noticed'
    <3>1. \A v \in Sweeps : sweep[v].sent => sweep'[v].sent
      BY <1>0, <2>1 DEF Shape, Sweep
    <3>2. QED
      BY <1>0, <1>10, <3>1 DEF Change, Remembered, Noticed, Over
  <2>3. Apart'
    BY <2>1 DEF Remembered, Apart, At
  <2>4. \A v \in Sweeps : FreshSweep(v)'
    BY <1>10, <2>1 DEF Change, Remembered, FreshSweep
  <2>5. \A v \in Sweeps : Current(v)'
    BY <2>1 DEF Current
  <2>6. QED
    BY <2>2, <2>3, <2>4, <2>5 DEF Remembered
<1>11. ASSUME Expire PROVE Remembered'
  BY <1>11 DEF Expire, Remembered, Noticed, Apart, At, FreshSweep, Current
<1>12. CASE UNCHANGED vars
  BY <1>12 DEF vars, Remembered, Noticed, Over, Apart, At, FreshSweep, Current
<1>13. QED
  BY <1>1, <1>2, <1>3, <1>4, <1>5, <1>6, <1>7, <1>8, <1>9, <1>10, <1>11, <1>12
  DEF Next, Work

\* For any number of recipients and sweeps: no call is repeated while a flag
\* lasts, but by sweeps at it together, after one that could not set the flag,
\* or by one whose list was out of date (bookings-scheduler.service.ts:89-116,
\* 207-238; the other sweeps look at and set their flags in the same way).
THEOREM RepeatsAreRaces == Spec => RepeatOnlyByRaceOrFailure
<1> DEFINE A == \A w \in Sweeps, r \in Recipients :
                  Send(w, r) /\ r \in handed =>
                     blind \/ ~sweep[w].alone \/ sweep[w].stale
<1>1. Init => Remembered
  BY DEF Init, Remembered, Noticed, Apart, At, FreshSweep, Current, Idle
<1>2. IsTyped /\ Remembered /\ [Next]_vars => Remembered'
  BY RememberedNext
<1>3. Remembered => A
  <2> SUFFICES ASSUME Remembered, NEW w \in Sweeps, NEW r \in Recipients,
                      Send(w, r), r \in handed
               PROVE  blind \/ ~sweep[w].alone \/ sweep[w].stale
    OBVIOUS
  <2>1. FreshSweep(w)
    BY DEF Remembered
  <2>2. sweep[w].at = "sending" /\ r \in sweep[w].left
    BY DEF Send
  <2>3. QED
    BY <2>1, <2>2 DEF FreshSweep
<1>4. Remembered => [A]_vars
  BY <1>3
<1>5. Spec => [][A]_vars
  BY <1>1, <1>2, <1>4, Typing, PTL DEF Spec
<1>6. QED
  BY <1>5 DEF RepeatOnlyByRaceOrFailure
=============================================================================
