--------------------------- MODULE RecordsProofs ---------------------------
(***************************************************************************)
(* What holds of the records of a complex for any number of people, units, *)
(* handlers and rows.  A step of the records is a step of one of them.     *)
(***************************************************************************)
EXTENDS AccountsProofs, SumTheorems, FiniteSetTheorems, WellFoundedInduction, TLAPS

\* No step of another record moves this one.
LEMMA OneRecordSteps ==
  ASSUME [Next]_vars
  PROVE  /\ [O!Next]_unitVars
         /\ [G!Next]_passVars
         /\ [L!Next]_boardVars
         /\ [M!Next]_meterVars
BY DEF Next, vars

-----------------------------------------------------------------------------
(* Guest passes.                                                           *)

\* Nothing takes back a use, a revocation or the clock.
LEMMA PassAdvances ==
  ASSUME G!TypeOK, [G!Next]_passVars
  PROVE  /\ pass.used => pass'.used
         /\ pass.revoked => pass'.revoked
         /\ clock = "after" => clock' = "after"
<1>0. /\ pass \in [used : BOOLEAN, revoked : BOOLEAN,
                   revokedBy : Staff \cup {Creator, None}]
      /\ clock \in {"before", "during", "after"}
  BY DEF G!TypeOK
<1>1. ASSUME G!Tick PROVE pass' = pass /\ (clock = "after" => clock' = "after")
  BY <1>1 DEF G!Tick
<1>2. ASSUME NEW c \in Calls, G!RedeemCommit(c) \/ G!RevokeCommit(c)
      PROVE  /\ pass.used => pass'.used
             /\ pass.revoked => pass'.revoked
             /\ clock' = clock
  BY <1>0, <1>2 DEF G!RedeemCommit, G!RevokeCommit, G!RevokedBy
<1>3. QED
  BY <1>1, <1>2
  DEF G!Next, passVars, G!RedeemRead, G!RevokeRead, G!Note, G!Abandon

PassHandler ==
    [at : {"idle", "redeeming", "revoking", "noting-entry", "noting-revocation"},
     by : Staff \cup {Creator, None}, seen : 0 .. MaxEntries]

\* A handler that is about to revoke or to note has somebody to name, and one
\* that is about to confirm an entry read the pass before the first.
PassInvariant ==
    /\ G!TypeOK
    /\ \A c \in Calls : pcall[c].at # "idle" => pcall[c].by # None
    /\ entries > 0 => pass.used
    /\ \A c \in Calls : pcall[c].at = "redeeming" => pcall[c].seen = 0

LEMMA PassInvariantNext ==
  ASSUME G!GuestPassAssumption, PassInvariant, [G!Next]_passVars
  PROVE  PassInvariant'
<1> DEFINE Row == [used : BOOLEAN, revoked : BOOLEAN,
                   revokedBy : Staff \cup {Creator, None}]
           AuditRow == [action : {"ISSUED", "REDEEMED", "REVOKED"},
                        by : Staff \cup {Creator}]
<1>0. /\ pass \in Row /\ (pass.revoked <=> pass.revokedBy # None)
      /\ clock \in {"before", "during", "after"}
      /\ entries \in 0 .. MaxEntries
      /\ paudit \in Seq(AuditRow)
      /\ pcall \in [Calls -> PassHandler]
      /\ \A c \in Calls : pcall[c].at # "idle" => pcall[c].by # None
      /\ entries > 0 => pass.used
      /\ \A c \in Calls : pcall[c].at = "redeeming" => pcall[c].seen = 0
      /\ None \notin Staff \cup {Creator} /\ MaxEntries \in Nat
  BY DEF PassInvariant, G!TypeOK, G!GuestPassAssumption, PassHandler
<1>h. ASSUME NEW c \in Calls, NEW q \in PassHandler, pcall' = [pcall EXCEPT ![c] = q],
             q.at # "idle" => q.by # None,
             q.at = "redeeming" => q.seen = 0
      PROVE  /\ pcall' \in [Calls -> PassHandler]
             /\ \A d \in Calls : pcall'[d].at # "idle" => pcall'[d].by # None
             /\ \A d \in Calls : pcall'[d].at = "redeeming" => pcall'[d].seen = 0
  BY <1>0, <1>h
<1>i. G!Idle \in PassHandler /\ G!Idle.at = "idle"
  BY <1>0 DEF G!Idle, PassHandler
<1>1. ASSUME G!Tick PROVE PassInvariant'
  BY <1>0, <1>1 DEF G!Tick, PassInvariant, G!TypeOK, PassHandler
<1>2. ASSUME NEW c \in Calls, NEW p \in Staff, G!RedeemRead(c, p) PROVE PassInvariant'
  <2> DEFINE q == [at |-> "redeeming", by |-> p, seen |-> entries]
  <2>1. q \in PassHandler /\ q.by # None
    BY <1>0 DEF PassHandler
  <2>2. entries = 0
    BY <1>0, <1>2 DEF G!RedeemRead, G!Redeemable
  <2>3. pcall' = [pcall EXCEPT ![c] = q] /\ UNCHANGED <<clock, pass, paudit, entries>>
    BY <1>2 DEF G!RedeemRead, G!Begin
  <2>4. QED
    BY <1>0, <1>h, <2>1, <2>2, <2>3 DEF PassInvariant, G!TypeOK, PassHandler
<1>3. ASSUME NEW c \in Calls, NEW p \in Staff \cup {Creator}, G!RevokeRead(c, p)
      PROVE  PassInvariant'
  <2> DEFINE q == [at |-> "revoking", by |-> p, seen |-> entries]
  <2>1. q \in PassHandler /\ q.by # None
    BY <1>0 DEF PassHandler
  <2>2. pcall' = [pcall EXCEPT ![c] = q] /\ UNCHANGED <<clock, pass, paudit, entries>>
    BY <1>3 DEF G!RevokeRead, G!Begin
  <2>3. QED
    BY <1>0, <1>h, <2>1, <2>2 DEF PassInvariant, G!TypeOK, PassHandler
<1>4. ASSUME NEW c \in Calls, G!RedeemCommit(c) PROVE PassInvariant'
  <2> DEFINE q == [pcall[c] EXCEPT !.at = "noting-entry"]
  <2>1. q \in PassHandler /\ q.at = "noting-entry" /\ q.by # None
    BY <1>0, <1>4 DEF G!RedeemCommit, PassHandler
  <2>2. pcall' = [pcall EXCEPT ![c] = q]
    BY <1>0, <1>4 DEF G!RedeemCommit
  <2>3. /\ pcall' \in [Calls -> PassHandler]
        /\ \A d \in Calls : pcall'[d].at # "idle" => pcall'[d].by # None
        /\ \A d \in Calls : pcall'[d].at = "redeeming" => pcall'[d].seen = 0
    BY <1>h, <2>1, <2>2
  <2>4. /\ pass' \in Row /\ (pass'.revoked <=> pass'.revokedBy # None)
        /\ pass'.used /\ entries' \in 0 .. MaxEntries
    <3>1. PICK r \in Row : r = pass
      BY <1>0
    <3>2. pass' = [r EXCEPT !.used = TRUE]
      BY <1>4, <3>1 DEF G!RedeemCommit
    <3>3. entries' \in 0 .. MaxEntries
      BY <1>0, <1>4 DEF G!RedeemCommit
    <3>4. QED
      BY <1>0, <3>1, <3>2, <3>3
  <2>5. QED
    BY <1>0, <1>4, <2>3, <2>4 DEF G!RedeemCommit, PassInvariant, G!TypeOK, PassHandler
<1>5. ASSUME NEW c \in Calls, G!RevokeCommit(c) PROVE PassInvariant'
  <2> DEFINE q == [pcall[c] EXCEPT !.at = "noting-revocation"]
  <2>1. q \in PassHandler /\ q.at = "noting-revocation" /\ q.by # None
    BY <1>0, <1>5 DEF G!RevokeCommit, PassHandler
  <2>2. pcall' = [pcall EXCEPT ![c] = q]
    BY <1>0, <1>5 DEF G!RevokeCommit
  <2>3. /\ pcall' \in [Calls -> PassHandler]
        /\ \A d \in Calls : pcall'[d].at # "idle" => pcall'[d].by # None
        /\ \A d \in Calls : pcall'[d].at = "redeeming" => pcall'[d].seen = 0
    BY <1>h, <2>1, <2>2
  <2>4. pcall[c].by \in Staff \cup {Creator}
    BY <1>0, <1>5 DEF G!RevokeCommit, PassHandler
  <2>5. /\ pass' \in Row /\ pass'.revoked /\ pass'.revokedBy # None
        /\ pass'.used = pass.used
    BY <1>0, <1>5, <2>4 DEF G!RevokeCommit, G!RevokedBy
  <2>6. QED
    BY <1>0, <1>5, <2>3, <2>5 DEF G!RevokeCommit, PassInvariant, G!TypeOK, PassHandler
<1>6. ASSUME NEW c \in Calls, G!Note(c) PROVE PassInvariant'
  <2>1. /\ pcall' \in [Calls -> PassHandler]
        /\ \A d \in Calls : pcall'[d].at # "idle" => pcall'[d].by # None
        /\ \A d \in Calls : pcall'[d].at = "redeeming" => pcall'[d].seen = 0
    BY <1>6, <1>h, <1>i DEF G!Note, G!Finish
  <2>2. PICK r \in AuditRow : paudit' = Append(paudit, r)
    BY <1>0, <1>6 DEF G!Note, PassHandler
  <2>3. paudit' \in Seq(AuditRow)
    BY <1>0, <2>2
  <2>4. QED
    BY <1>0, <1>6, <2>1, <2>3 DEF G!Note, PassInvariant, G!TypeOK, PassHandler
<1>7. ASSUME NEW c \in Calls, G!Abandon(c) PROVE PassInvariant'
  <2>1. /\ pcall' \in [Calls -> PassHandler]
        /\ \A d \in Calls : pcall'[d].at # "idle" => pcall'[d].by # None
        /\ \A d \in Calls : pcall'[d].at = "redeeming" => pcall'[d].seen = 0
    BY <1>7, <1>h, <1>i DEF G!Abandon, G!Finish
  <2>2. QED
    BY <1>0, <1>7, <2>1 DEF G!Abandon, PassInvariant, G!TypeOK, PassHandler
<1>8. CASE UNCHANGED passVars
  BY <1>0, <1>8 DEF passVars, PassInvariant, G!TypeOK, PassHandler
<1>9. QED
  BY <1>1, <1>2, <1>3, <1>4, <1>5, <1>6, <1>7, <1>8 DEF G!Next

LEMMA Passes == RecordsAssumption => (Spec => []PassInvariant)
<1> SUFFICES ASSUME RecordsAssumption PROVE Spec => []PassInvariant
  OBVIOUS
<1>1. G!GuestPassAssumption
  BY DEF RecordsAssumption
<1>2. Init => PassInvariant
  <2> SUFFICES ASSUME Init PROVE PassInvariant
    OBVIOUS
  <2>1. /\ G!Idle \in PassHandler /\ G!Idle.at = "idle"
        /\ None \notin Staff \cup {Creator} /\ MaxEntries \in Nat
    BY <1>1 DEF G!Idle, PassHandler, G!GuestPassAssumption
  <2>2. paudit \in Seq([action : {"ISSUED", "REDEEMED", "REVOKED"},
                        by : Staff \cup {Creator}])
    <3> DEFINE S == [action : {"ISSUED", "REDEEMED", "REVOKED"},
                     by : Staff \cup {Creator}]
               r == [action |-> "ISSUED", by |-> Creator]
    <3>1. r \in S
      OBVIOUS
    <3>2. paudit = <<>> \/ paudit = <<r>>
      BY DEF Init, G!Init
    <3> HIDE DEF S, r
    <3>3. <<>> \in Seq(S) /\ <<r>> \in Seq(S)
      <4>1. <<>> \in Seq(S)
        OBVIOUS
      <4>2. Append(<<>>, r) \in Seq(S)
        BY <3>1, <4>1
      <4>3. Append(<<>>, r) = <<r>>
        OBVIOUS
      <4>4. QED
        BY <4>1, <4>2, <4>3
    <3>4. QED
      BY <3>2, <3>3 DEF S
  <2>3. QED
    BY <2>1, <2>2 DEF Init, G!Init, PassInvariant, G!TypeOK, PassHandler
<1>3. PassInvariant /\ [Next]_vars => PassInvariant'
  BY <1>1, PassInvariantNext, OneRecordSteps
<1>4. QED
  BY <1>2, <1>3, PTL DEF Spec

\* For any number of employees and handlers: what the clients show of a guest
\* pass only advances (access-control.service.ts:843-858, 1010-1031, 1091-1125).
THEOREM PassesOnlyAdvance == RecordsAssumption => (Spec => StatusOnlyAdvances)
<1> SUFFICES ASSUME RecordsAssumption PROVE Spec => StatusOnlyAdvances
  OBVIOUS
<1> DEFINE Act == G!Rank[G!Status] <= G!Rank[G!Status']
<1>1. PassInvariant /\ [Next]_vars => [Act]_passVars
  <2> SUFFICES ASSUME PassInvariant, [Next]_vars PROVE Act
    OBVIOUS
  <2>1. /\ pass.used => pass'.used
        /\ pass.revoked => pass'.revoked
        /\ clock = "after" => clock' = "after"
    BY PassAdvances, OneRecordSteps DEF PassInvariant
  <2>2. QED
    BY <2>1 DEF G!Rank, G!Status
<1>2. Spec => [][Act]_passVars
  BY <1>1, Passes, PTL DEF Spec
<1>3. QED
  BY <1>2 DEF StatusOnlyAdvances, G!StatusOnlyAdvances, passVars, G!vars

\* A second entry with one pass needs a guard who read it before the first, for
\* any number of guards (access-control.service.ts:1091-1125).
THEOREM SecondEntryIsARace == RecordsAssumption => (Spec => SecondEntryOnlyByRace)
<1> SUFFICES ASSUME RecordsAssumption PROVE Spec => SecondEntryOnlyByRace
  OBVIOUS
<1> DEFINE Act == \A c \in Calls :
                    pcall[c].at = "redeeming" /\ entries' > entries /\ pcall'[c] # pcall[c]
                      => pcall[c].seen = 0
<1>1. PassInvariant => [Act]_passVars
  BY DEF PassInvariant
<1>2. Spec => [][Act]_passVars
  BY <1>1, Passes, PTL DEF Spec
<1>3. QED
  BY <1>2 DEF SecondEntryOnlyByRace, G!SecondEntryOnlyByRace, passVars, G!vars

-----------------------------------------------------------------------------
(* The audit log of a guest pass.                                          *)

\* Every audit row about an entry, and every handler about to write one, stands
\* for an entry of its own; every row about a revocation comes after it.
AuditInvariant ==
    /\ IsFiniteSet(G!Busy("noting-entry"))
    /\ IsFiniteSet(G!RowsOf("REDEEMED"))
    /\ Cardinality(G!RowsOf("REDEEMED")) + Cardinality(G!Busy("noting-entry"))
         <= entries
    /\ G!RowsOf("REVOKED") # {} => pass.revoked
    /\ \A c \in Calls : pcall[c].at = "noting-revocation" => pass.revoked

\* A row at the end of the log is the only one it adds.
LEMMA AppendedRow ==
  ASSUME NEW S, NEW s \in Seq(S), NEW r \in S
  PROVE  /\ DOMAIN Append(s, r) = DOMAIN s \cup {Len(s) + 1}
         /\ Len(s) + 1 \notin DOMAIN s
         /\ Append(s, r)[Len(s) + 1] = r
         /\ \A i \in DOMAIN s : Append(s, r)[i] = s[i]
OBVIOUS

LEMMA AuditInvariantNext ==
  ASSUME PassInvariant, AuditInvariant, [G!Next]_passVars
  PROVE  AuditInvariant'
<1> DEFINE noting == G!Busy("noting-entry")
           told == G!RowsOf("REDEEMED")
           revoked == G!RowsOf("REVOKED")
           Row == [action : {"ISSUED", "REDEEMED", "REVOKED"},
                   by : Staff \cup {Creator}]
<1>0. /\ pcall \in [Calls -> PassHandler] /\ paudit \in Seq(Row)
      /\ entries \in Nat /\ entries' \in Nat
      /\ Cardinality(noting) \in Nat /\ Cardinality(told) \in Nat
      /\ IsFiniteSet(noting) /\ IsFiniteSet(told)
      /\ pass \in [used : BOOLEAN, revoked : BOOLEAN,
                   revokedBy : Staff \cup {Creator, None}]
      /\ \A c \in Calls : pcall[c].at # "idle" => pcall[c].by # None
  <2>1. entries \in Nat
    BY DEF PassInvariant, G!TypeOK
  <2>2. entries' = entries \/ entries' = entries + 1
    BY DEF G!Next, G!Tick, G!RedeemRead, G!RedeemCommit, G!RevokeRead,
           G!RevokeCommit, G!Note, G!Abandon, passVars
  <2>3. QED
    BY <2>1, <2>2, FS_CardinalityType
    DEF AuditInvariant, PassInvariant, G!TypeOK, PassHandler
<1>1. pass.revoked => pass'.revoked
  BY PassAdvances DEF PassInvariant
\* A handler that begins or ends, and the clock, add nothing to the log.
<1>2. ASSUME NEW S, noting' = noting \ S, UNCHANGED <<paudit, entries>>,
             \A c \in Calls : pcall'[c].at = "noting-revocation" => pass'.revoked
      PROVE  AuditInvariant'
  <2>1. IsFiniteSet(noting \ S) /\ Cardinality(noting \ S) <= Cardinality(noting)
    BY <1>0, FS_Subset
  <2>2. /\ IsFiniteSet(noting') /\ Cardinality(noting') \in Nat
        /\ Cardinality(noting') <= Cardinality(noting)
    <3> HIDE DEF noting
    <3>1. QED
      BY <1>2, <2>1, FS_CardinalityType
  <2>3. told' = told /\ revoked' = revoked
    BY <1>2 DEF G!RowsOf
  <2>4. QED
    BY <1>0, <1>1, <1>2, <2>2, <2>3 DEF AuditInvariant
<1>3. ASSUME NEW c \in Calls, NEW q \in PassHandler, pcall' = [pcall EXCEPT ![c] = q],
             q.at # "noting-entry", q.at = "noting-revocation" => pass'.revoked,
             UNCHANGED <<paudit, entries>>
      PROVE  AuditInvariant'
  <2>1. noting' = noting \ {c}
    BY <1>0, <1>3 DEF G!Busy
  <2>2. \A d \in Calls : pcall'[d].at = "noting-revocation" => pass'.revoked
    BY <1>0, <1>1, <1>3 DEF AuditInvariant
  <2>3. QED
    BY <1>2, <1>3, <2>1, <2>2
<1>4. ASSUME NEW c \in Calls, NEW p \in Staff, G!RedeemRead(c, p) PROVE AuditInvariant'
  <2> DEFINE q == [at |-> "redeeming", by |-> p, seen |-> entries]
  <2>1. q \in PassHandler /\ q.at = "redeeming"
    BY DEF PassHandler, PassInvariant, G!TypeOK
  <2>2. pcall' = [pcall EXCEPT ![c] = q] /\ UNCHANGED <<paudit, entries>>
    BY <1>4 DEF G!RedeemRead, G!Begin
  <2> HIDE DEF q
  <2>3. QED
    BY <1>3, <2>1, <2>2
<1>5. ASSUME NEW c \in Calls, NEW p \in Staff \cup {Creator}, G!RevokeRead(c, p)
      PROVE  AuditInvariant'
  <2> DEFINE q == [at |-> "revoking", by |-> p, seen |-> entries]
  <2>1. q \in PassHandler /\ q.at = "revoking"
    BY DEF PassHandler, PassInvariant, G!TypeOK
  <2>2. pcall' = [pcall EXCEPT ![c] = q] /\ UNCHANGED <<paudit, entries>>
    BY <1>5 DEF G!RevokeRead, G!Begin
  <2> HIDE DEF q
  <2>3. QED
    BY <1>3, <2>1, <2>2
<1>6. ASSUME NEW c \in Calls, G!RevokeCommit(c) PROVE AuditInvariant'
  <2>1. PICK q : q = [pcall[c] EXCEPT !.at = "noting-revocation"]
    OBVIOUS
  <2>2. q \in PassHandler /\ q.at = "noting-revocation"
    BY <1>0, <2>1 DEF PassHandler
  <2>3. /\ pcall' = [pcall EXCEPT ![c] = q] /\ UNCHANGED <<paudit, entries>>
        /\ pass'.revoked
    BY <1>0, <1>6, <2>1 DEF G!RevokeCommit, G!RevokedBy
  <2>4. QED
    BY <1>3, <2>2, <2>3
<1>7. ASSUME NEW c \in Calls, G!Abandon(c) PROVE AuditInvariant'
  <2>1. noting' = noting \ {c}
    BY <1>0, <1>7 DEF G!Busy, G!Abandon, G!Finish, G!Idle
  <2>2. \A d \in Calls : pcall'[d].at = "noting-revocation" => pass'.revoked
    BY <1>0, <1>1, <1>7 DEF AuditInvariant, G!Abandon, G!Finish, G!Idle
  <2>3. QED
    BY <1>2, <1>7, <2>1, <2>2 DEF G!Abandon
\* An entry gives one handler a row to write.
<1>8. ASSUME NEW c \in Calls, G!RedeemCommit(c) PROVE AuditInvariant'
  <2>1. noting' = noting \cup {c} /\ c \notin noting
    BY <1>0, <1>8 DEF G!Busy, G!RedeemCommit, PassHandler
  <2>2. IsFiniteSet(noting') /\ Cardinality(noting') = Cardinality(noting) + 1
    BY <1>0, <2>1, FS_AddElement
  <2>3. told' = told /\ revoked' = revoked /\ entries' = entries + 1
    BY <1>8 DEF G!RowsOf, G!RedeemCommit
  <2>4. \A d \in Calls : pcall'[d].at = "noting-revocation" => pass'.revoked
    BY <1>0, <1>1, <1>8 DEF AuditInvariant, G!RedeemCommit, PassHandler
  <2>5. QED
    BY <1>0, <1>1, <2>2, <2>3, <2>4 DEF AuditInvariant
\* A row about an entry takes the place of the handler that writes it.
<1>9. ASSUME NEW c \in Calls, G!Note(c) PROVE AuditInvariant'
  <2>1. PICK r \in Row :
          /\ paudit' = Append(paudit, r)
          /\ r.action = IF pcall[c].at = "noting-entry" THEN "REDEEMED" ELSE "REVOKED"
    BY <1>0, <1>9 DEF G!Note, PassHandler
  <2>2. PICK n : n = Len(paudit) + 1
    OBVIOUS
  <2>3. /\ DOMAIN paudit' = DOMAIN paudit \cup {n} /\ n \notin DOMAIN paudit
        /\ paudit'[n] = r /\ \A i \in DOMAIN paudit : paudit'[i] = paudit[i]
    <3> HIDE DEF Row
    <3>1. QED
      BY <1>0, <2>1, <2>2, AppendedRow
  <2>4. /\ noting' = noting \ {c} /\ entries' = entries
        /\ \A d \in Calls : pcall'[d].at = "noting-revocation" => pass'.revoked
    BY <1>0, <1>1, <1>9 DEF AuditInvariant, G!Busy, G!Note, G!Finish, G!Idle
  <2>5. CASE pcall[c].at = "noting-entry"
    <3>1. told' = told \cup {n} /\ n \notin told /\ revoked' = revoked /\ c \in noting
      BY <2>1, <2>3, <2>5 DEF G!RowsOf, G!Busy
    <3>2. /\ IsFiniteSet(told') /\ Cardinality(told') = Cardinality(told) + 1
          /\ IsFiniteSet(noting') /\ Cardinality(noting') = Cardinality(noting) - 1
      BY <1>0, <2>4, <3>1, FS_AddElement, FS_RemoveElement
    <3>3. QED
      BY <1>0, <1>1, <2>4, <3>1, <3>2 DEF AuditInvariant
  <2>6. CASE pcall[c].at # "noting-entry"
    <3>1. told' = told /\ noting' = noting
      BY <2>1, <2>3, <2>4, <2>6 DEF G!RowsOf, G!Busy
    <3>2. pass'.revoked
      BY <1>1, <1>9, <2>6 DEF AuditInvariant, G!Note
    <3>3. QED
      BY <1>0, <2>4, <3>1, <3>2 DEF AuditInvariant
  <2>7. QED
    BY <2>5, <2>6
<1>10. CASE UNCHANGED <<pcall, paudit, entries>>
  <2>1. noting' = noting \ {}
    BY <1>10 DEF G!Busy
  <2>2. \A d \in Calls : pcall'[d].at = "noting-revocation" => pass'.revoked
    BY <1>1, <1>10 DEF AuditInvariant
  <2>3. QED
    BY <1>2, <1>10, <2>1, <2>2
<1>11. QED
  BY <1>4, <1>5, <1>6, <1>7, <1>8, <1>9, <1>10 DEF G!Next, G!Tick, passVars

\* For any number of handlers: the audit log never tells of an entry or a
\* revocation that did not happen (access-control.service.ts:1010-1031,
\* 1153-1168).
THEOREM AuditIsTrue == RecordsAssumption => (Spec => []AuditTellsNoMore)
<1> SUFFICES ASSUME RecordsAssumption PROVE Spec => []AuditTellsNoMore
  OBVIOUS
<1>1. Init => AuditInvariant
  <2> SUFFICES ASSUME Init PROVE AuditInvariant
    OBVIOUS
  <2>1. G!Busy("noting-entry") = {} /\ \A c \in Calls : pcall[c].at = "idle"
    BY DEF Init, G!Init, G!Busy, G!Idle
  <2>2. G!RowsOf("REDEEMED") = {} /\ G!RowsOf("REVOKED") = {} /\ entries = 0
    BY DEF Init, G!Init, G!RowsOf
  <2>3. QED
    BY <2>1, <2>2, FS_EmptySet DEF AuditInvariant
<1>2. PassInvariant /\ AuditInvariant /\ [Next]_vars => AuditInvariant'
  BY AuditInvariantNext, OneRecordSteps
<1>3. AuditInvariant => AuditTellsNoMore
  <2>1. \A S : G!Cardinality(S) = Cardinality(S)
    BY DEF G!Cardinality, Cardinality
  <2>2. QED
    BY <2>1 DEF AuditInvariant, AuditTellsNoMore, G!AuditTellsNoMore
<1>4. QED
  BY <1>1, <1>2, <1>3, Passes, PTL DEF Spec

-----------------------------------------------------------------------------
(* A meter.                                                                *)

\* Readings of different months, as a query of verified readings finds them.
Found(B) ==
    /\ B \in SUBSET [period : Periods, value : Nat]
    /\ \A r, s \in B : r.period = s.period => r = s

MeterCall ==
    [at : {"idle", "submitting", "inserting", "resubmitting", "reviewing",
           "billing", "charging"},
     period : Periods \cup {0}, value : Nat, above : Nat,
     basis : SUBSET [period : Periods, value : Nat]]

MeterRow == [status : {"none", "PENDING", "VERIFIED", "REJECTED"}, value : Nat]

\* A handler about to charge, and a charge, begin at the last reading found.
Billed(q) == Found(q.basis) /\ q.above = M!LastValue(q.basis)

MeterInvariant ==
    /\ reading \in [Periods -> MeterRow]
    /\ mcall \in [Calls -> MeterCall]
    /\ \A c \in Calls : mcall[c].at = "charging" => Billed(mcall[c])
    /\ DOMAIN charge = Periods
    /\ \A p \in Periods : charge[p].made => Billed(charge[p])

\* The last of some readings is one of them.
LEMMA LastIsFound ==
  ASSUME M!MetersAssumption, NEW B, Found(B), B # {}
  PROVE  \E l \in B : /\ M!LastValue(B) = l.value
                      /\ \A s \in B : s.period <= l.period
<1>1. /\ Periods \in SUBSET Nat /\ IsFiniteSet(Periods)
      /\ \A s \in B : s.period \in Periods /\ s.value \in Nat
  <2>1. \A S : M!IsFiniteSet(S) <=> IsFiniteSet(S)
    BY DEF M!IsFiniteSet, IsFiniteSet
  <2>2. QED
    BY <2>1 DEF M!MetersAssumption, Found
<1> DEFINE months == {s.period : s \in B}
<1>2. months \in SUBSET Nat /\ IsFiniteSet(months) /\ months # {}
  <2>1. months \in SUBSET Periods
    BY <1>1
  <2> HIDE DEF months
  <2>2. IsFiniteSet(months)
    BY <1>1, <2>1, FS_Subset
  <2>3. QED
    BY <1>1, <2>1, <2>2 DEF months
<1>3. PICK l \in B : \A s \in B : s.period <= l.period
  <2>1. PICK m \in months : \A k \in months : k <= m
    BY <1>2, LastExists
  <2>2. QED
    BY <2>1
<1> DEFINE last == CHOOSE k \in B : \A s \in B : s.period <= k.period
<1>4. last \in B /\ \A s \in B : s.period <= last.period
  BY <1>3
<1>5. M!LastValue(B) = last.value
  BY DEF M!LastValue
<1>6. QED
  BY <1>4, <1>5

\* The last of some readings that do not decrease is not below any of them.
LEMMA LastIsHighest ==
  ASSUME M!MetersAssumption, NEW B, Found(B), ~M!Decreasing(B), NEW r \in B
  PROVE  r.value <= M!LastValue(B)
<1>1. PICK l \in B : /\ M!LastValue(B) = l.value
                     /\ \A s \in B : s.period <= l.period
  BY LastIsFound
<1>2. /\ r.period \in Nat /\ l.period \in Nat
      /\ r.value \in Nat /\ l.value \in Nat
      /\ r.period <= l.period
  BY <1>1 DEF Found, M!MetersAssumption
<1>3. CASE r.period = l.period
  BY <1>1, <1>2, <1>3 DEF Found
<1>4. CASE r.period < l.period
  BY <1>1, <1>2, <1>4 DEF M!Decreasing
<1>5. QED
  BY <1>2, <1>3, <1>4

\* What the queries return are verified readings of different months.
LEMMA QueriesFind ==
  ASSUME MeterInvariant, NEW B \in SUBSET M!VerifiedReadings
  PROVE  Found(B)
BY DEF MeterInvariant, MeterRow, Found, M!VerifiedReadings

LEMMA MeterInvariantNext ==
  ASSUME M!MetersAssumption, MeterInvariant, [M!Next]_meterVars
  PROVE  MeterInvariant'
<1>0. /\ reading \in [Periods -> MeterRow] /\ mcall \in [Calls -> MeterCall]
      /\ \A c \in Calls : mcall[c].at = "charging" => Billed(mcall[c])
      /\ DOMAIN charge = Periods
      /\ \A p \in Periods : charge[p].made => Billed(charge[p])
      /\ Values \in SUBSET Nat /\ initialValue \in Nat
  BY DEF MeterInvariant, M!MetersAssumption
\* Handler c becomes q.
<1>h. ASSUME NEW c \in Calls, NEW q \in MeterCall, mcall' = [mcall EXCEPT ![c] = q],
             q.at = "charging" => Billed(q),
             reading' \in [Periods -> MeterRow], DOMAIN charge' = Periods,
             \A p \in Periods : charge'[p].made => Billed(charge'[p])
      PROVE  MeterInvariant'
  <2>1. /\ mcall' \in [Calls -> MeterCall]
        /\ \A d \in Calls : mcall'[d].at = "charging" => Billed(mcall'[d])
    BY <1>0, <1>h
  <2>2. QED
    BY <1>h, <2>1 DEF MeterInvariant, Billed, Found, M!LastValue
<1>i. M!Idle \in MeterCall /\ M!Idle.at = "idle"
  BY DEF M!Idle, MeterCall
<1>f. ASSUME NEW c \in Calls, M!Finish(c), reading' \in [Periods -> MeterRow],
             DOMAIN charge' = Periods,
             \A p \in Periods : charge'[p].made => Billed(charge'[p])
      PROVE  MeterInvariant'
  BY <1>f, <1>h, <1>i DEF M!Finish
<1>b. ASSUME NEW c \in Calls, NEW at \in {"submitting", "reviewing", "billing"},
             NEW p \in Periods, NEW v \in Nat, M!Begin(c, at, p, v),
             UNCHANGED <<reading, charge>>
      PROVE  MeterInvariant'
  <2>1. PICK q : q = [M!Idle EXCEPT !.at = at, !.period = p, !.value = v]
    OBVIOUS
  <2>2. q \in MeterCall /\ q.at # "charging"
    BY <2>1 DEF M!Idle, MeterCall
  <2>3. QED
    BY <1>0, <1>b, <1>h, <2>1, <2>2 DEF M!Begin
<1>1. ASSUME M!SetActive PROVE MeterInvariant'
  BY <1>0, <1>1 DEF M!SetActive, MeterInvariant, Billed, Found, M!LastValue
<1>2. ASSUME NEW c \in Calls, NEW p \in Periods, NEW v \in Values,
             M!SubmitCheck(c, p, v)
      PROVE  MeterInvariant'
  BY <1>0, <1>2, <1>b DEF M!SubmitCheck
<1>3. ASSUME NEW c \in Calls, NEW p \in Periods, M!ReviewRead(c, p)
      PROVE  MeterInvariant'
  BY <1>3, <1>b DEF M!ReviewRead
<1>4. ASSUME NEW c \in Calls, NEW p \in Periods, M!BillRead(c, p)
      PROVE  MeterInvariant'
  <2>1. reading[p].value \in Nat
    BY <1>0 DEF MeterRow
  <2>2. QED
    BY <1>4, <1>b, <2>1 DEF M!BillRead
<1>5. ASSUME NEW c \in Calls, M!SubmitLook(c) PROVE MeterInvariant'
  <2>1. PICK q : q = [mcall[c] EXCEPT !.at =
                        IF reading[mcall[c].period].status = "none"
                          THEN "inserting" ELSE "resubmitting"]
    OBVIOUS
  <2>2. q \in MeterCall /\ q.at # "charging"
    BY <1>0, <2>1 DEF MeterCall
  <2>3. mcall' = [mcall EXCEPT ![c] = q] /\ UNCHANGED <<reading, charge>>
    BY <1>5, <2>1 DEF M!SubmitLook
  <2>4. QED
    BY <1>0, <1>h, <2>2, <2>3
<1>6. ASSUME NEW c \in Calls, M!SubmitInsert(c) \/ M!Resubmit(c)
      PROVE  MeterInvariant'
  <2>1. PICK r \in MeterRow : r = M!Pending(mcall[c].value)
    BY <1>0 DEF MeterCall, MeterRow, M!Pending
  <2>2. reading' = reading \/ reading' = [reading EXCEPT ![mcall[c].period] = r]
    BY <1>6, <2>1 DEF M!SubmitInsert, M!Resubmit
  <2>3. reading' \in [Periods -> MeterRow]
    BY <1>0, <2>2
  <2>4. QED
    BY <1>0, <1>6, <1>f, <2>3 DEF M!SubmitInsert, M!Resubmit
<1>7. ASSUME NEW c \in Calls, M!ReviewCommit(c) PROVE MeterInvariant'
  <2>1. PICK s \in M!Outcomes :
          reading' = [reading EXCEPT ![mcall[c].period].status = s]
    BY <1>7 DEF M!ReviewCommit
  <2>2. \A r \in MeterRow : [r EXCEPT !.status = s] \in MeterRow
    BY <2>1 DEF MeterRow, M!Outcomes
  <2>3. reading' \in [Periods -> MeterRow]
    BY <1>0, <2>1, <2>2
  <2>4. QED
    BY <1>0, <1>7, <1>f, <2>3 DEF M!ReviewCommit
<1>8. ASSUME NEW c \in Calls, M!BillPrevious(c) PROVE MeterInvariant'
  <2>1. PICK B : B = M!Earlier(mcall[c].period)
    OBVIOUS
  <2>2. /\ B = {r \in M!VerifiedReadings : r.period < mcall[c].period}
        /\ B \in SUBSET M!VerifiedReadings
    BY <2>1 DEF M!Earlier
  <2>3. Found(B)
    BY <2>2, QueriesFind
  <2>4. M!LastValue(B) \in Nat
    <3>1. CASE B = {}
      BY <1>0, <3>1 DEF M!LastValue
    <3>2. CASE B # {}
      <4>1. PICK l \in B : M!LastValue(B) = l.value
        BY <2>3, <3>2, LastIsFound
      <4>2. QED
        BY <2>3, <4>1 DEF Found
    <3>3. QED
      BY <3>1, <3>2
  <2>5. PICK q : q = [mcall[c] EXCEPT !.at = "charging", !.above = M!LastValue(B),
                                      !.basis = B]
    OBVIOUS
  <2>6. q \in MeterCall /\ Billed(q)
    <3>1. mcall[c] \in MeterCall /\ B \in SUBSET [period : Periods, value : Nat]
      BY <1>0, <2>3 DEF Found
    <3>2. q \in MeterCall /\ q.basis = B /\ q.above = M!LastValue(B)
      BY <2>4, <2>5, <3>1 DEF MeterCall
    <3>3. QED
      BY <2>3, <3>2 DEF Billed
  <2>7. mcall' = [mcall EXCEPT ![c] = q] /\ UNCHANGED <<reading, charge>>
    BY <1>0, <1>8, <2>1, <2>2, <2>5 DEF M!BillPrevious
  <2>8. QED
    BY <1>0, <1>h, <2>6, <2>7
<1>9. ASSUME NEW c \in Calls, M!BillCharge(c) PROVE MeterInvariant'
  <2>1. PICK d : d = [made |-> TRUE, above |-> mcall[c].above,
                      upto |-> M!Upto(mcall[c]), basis |-> mcall[c].basis]
    OBVIOUS
  <2>2. Billed(d)
    BY <1>0, <1>9, <2>1 DEF M!BillCharge, Billed
  <2>3. charge' = charge \/ charge' = [charge EXCEPT ![mcall[c].period] = d]
    BY <1>9, <2>1 DEF M!BillCharge
  <2>4. ASSUME NEW p \in Periods, charge'[p].made PROVE Billed(charge'[p])
    <3>1. charge'[p] = charge[p] \/ charge'[p] = d
      BY <1>0, <2>3
    <3>2. QED
      BY <1>0, <2>2, <2>4, <3>1
  <2>5. DOMAIN charge' = Periods
    BY <1>0, <2>3
  <2>6. QED
    BY <1>0, <1>9, <1>f, <2>4, <2>5 DEF M!BillCharge
<1>10. ASSUME NEW c \in Calls, M!Abandon(c) PROVE MeterInvariant'
  BY <1>0, <1>10, <1>f DEF M!Abandon
<1>11. CASE UNCHANGED meterVars
  BY <1>0, <1>11 DEF meterVars, MeterInvariant, Billed, Found, M!LastValue
<1>12. QED
  BY <1>1, <1>2, <1>3, <1>4, <1>5, <1>6, <1>7, <1>8, <1>9, <1>10, <1>11
  DEF M!Next, M!Proceed

LEMMA MetersHold == RecordsAssumption => (Spec => []MeterInvariant)
<1> SUFFICES ASSUME RecordsAssumption PROVE Spec => []MeterInvariant
  OBVIOUS
<1>1. M!MetersAssumption
  BY DEF RecordsAssumption
<1>2. Init => MeterInvariant
  <2> SUFFICES ASSUME Init PROVE MeterInvariant
    OBVIOUS
  <2>1. M!NoReading \in MeterRow /\ M!Idle \in MeterCall /\ M!Idle.at = "idle"
    BY DEF M!NoReading, M!Idle, MeterRow, MeterCall
  <2>2. QED
    BY <2>1 DEF Init, M!Init, MeterInvariant, M!NoCharge
<1>3. MeterInvariant /\ [Next]_vars => MeterInvariant'
  BY <1>1, MeterInvariantNext, OneRecordSteps
<1>4. QED
  BY <1>2, <1>3, PTL DEF Spec

\* For any months, readings and handlers: consumption is billed twice only when
\* the later charge did not see the earlier reading, or readings decrease
\* (finance.service.ts:283-309).
THEOREM BilledOnce == RecordsAssumption => (Spec => []BilledAgainOnlyUnseen)
<1> SUFFICES ASSUME RecordsAssumption PROVE Spec => []BilledAgainOnlyUnseen
  OBVIOUS
<1>1. M!MetersAssumption
  BY DEF RecordsAssumption
<1>2. MeterInvariant => BilledAgainOnlyUnseen
  <2> SUFFICES ASSUME MeterInvariant, NEW p \in Periods, NEW q \in Periods,
                      charge[q].made, charge[q].above < charge[p].upto,
                      [period |-> p, value |-> charge[p].upto] \in charge[q].basis,
                      ~M!Decreasing(charge[q].basis)
               PROVE  FALSE
    BY DEF BilledAgainOnlyUnseen, M!BilledAgainOnlyUnseen
  <2>1. PICK r, B : /\ B = charge[q].basis
                    /\ r = [period |-> p, value |-> charge[p].upto]
    OBVIOUS
  <2>2. /\ Found(B) /\ ~M!Decreasing(B) /\ r \in B
        /\ charge[q].above = M!LastValue(B) /\ r.value = charge[p].upto
    BY <2>1 DEF MeterInvariant, Billed
  <2>3. r.value <= M!LastValue(B)
    BY <1>1, <2>2, LastIsHighest
  <2>4. B # {} /\ r.value \in Nat
    BY <2>2 DEF Found
  <2>5. M!LastValue(B) \in Nat
    BY <1>1, <2>2, <2>4, LastIsFound DEF Found
  <2>6. QED
    BY <2>2, <2>3, <2>4, <2>5
<1>3. QED
  BY <1>2, MetersHold, PTL

-----------------------------------------------------------------------------
(* The community board.                                                    *)

Post ==
    [at : {"idle", "editing", "removing", "noting", "archiving"},
     status : L!Editable \cup {"REMOVED"}, by : Staff \cup {None},
     seen : 0 .. MaxRemovals]

\* Whoever is to put a listing that is down on the board again had read it
\* before; and every removal is noted, being noted, or lost.
BoardInvariant ==
    /\ lcall \in [Calls -> Post]
    /\ removals \in 0 .. MaxRemovals
    /\ listing \in [status : {"ACTIVE", "CLOSED", "REMOVED", "ARCHIVED"},
                    removedBy : Staff \cup {None}]
    /\ \A c \in Calls : lcall[c].seen <= removals
    /\ \A c \in Calls : lcall[c].at = "editing" => lcall[c].status \in L!Editable
    /\ \A c \in Calls :
         lcall[c].at \in {"editing", "archiving"} /\ listing.status = "REMOVED"
           => lcall[c].seen < removals

LEMMA BoardInvariantNext ==
  ASSUME L!BoardAssumption, BoardInvariant, [L!Next]_boardVars
  PROVE  BoardInvariant'
<1> DEFINE Row == [status : {"ACTIVE", "CLOSED", "REMOVED", "ARCHIVED"},
                   removedBy : Staff \cup {None}]
           Fine(q) == /\ q.seen <= removals'
                      /\ q.at = "editing" => q.status \in L!Editable
                      /\ q.at \in {"editing", "archiving"} /\ listing'.status = "REMOVED"
                           => q.seen < removals'
<1>0. /\ lcall \in [Calls -> Post] /\ removals \in 0 .. MaxRemovals
      /\ listing \in Row /\ MaxRemovals \in Nat
  BY DEF BoardInvariant, L!BoardAssumption
<1>i. L!Idle \in Post /\ L!Idle.at = "idle" /\ L!Idle.seen = 0
  BY <1>0 DEF L!Idle, Post, L!Editable
<1>h. ASSUME NEW c \in Calls, NEW q \in Post, lcall' = [lcall EXCEPT ![c] = q],
             Fine(q), \A d \in Calls \ {c} : Fine(lcall[d]),
             removals' \in 0 .. MaxRemovals, listing' \in Row
      PROVE  BoardInvariant'
  <2>1. lcall' \in [Calls -> Post] /\ \A d \in Calls : Fine(lcall'[d])
    BY <1>0, <1>h
  <2>2. QED
    BY <1>h, <2>1 DEF BoardInvariant
<1>s. ASSUME listing' = listing \/ listing'.status # "REMOVED", removals' = removals
      PROVE  \A d \in Calls : Fine(lcall[d])
  BY <1>s DEF BoardInvariant
<1>1. ASSUME NEW c \in Calls, NEW s \in L!Editable, L!EditRead(c, s) PROVE BoardInvariant'
  <2> DEFINE q == [at |-> "editing", status |-> s, by |-> None, seen |-> removals]
  <2>1. q \in Post
    BY <1>0 DEF Post
  <2>2. lcall' = [lcall EXCEPT ![c] = q] /\ UNCHANGED <<listing, removals>>
        /\ listing.status # "REMOVED"
    BY <1>1 DEF L!EditRead, L!Begin, L!MayEdit
  <2>3. Fine(q)
    BY <1>0, <2>2
  <2>4. QED
    BY <1>0, <1>h, <1>s, <2>1, <2>2, <2>3
<1>2. ASSUME NEW c \in Calls, NEW m \in Staff, L!ModerateRead(c, m) PROVE BoardInvariant'
  <2> DEFINE q == [at |-> "removing", status |-> "REMOVED", by |-> m, seen |-> removals]
  <2>1. q \in Post
    BY <1>0 DEF Post
  <2>2. lcall' = [lcall EXCEPT ![c] = q] /\ UNCHANGED <<listing, removals>>
    BY <1>2 DEF L!ModerateRead, L!Begin
  <2>3. Fine(q)
    BY <1>0, <2>2
  <2>4. QED
    BY <1>0, <1>h, <1>s, <2>1, <2>2, <2>3
<1>3. ASSUME NEW c \in Calls, L!ArchiveRead(c) PROVE BoardInvariant'
  <2> DEFINE q == [at |-> "archiving", status |-> "ARCHIVED", by |-> None, seen |-> removals]
  <2>1. q \in Post
    BY <1>0 DEF Post, L!Editable
  <2>2. lcall' = [lcall EXCEPT ![c] = q] /\ UNCHANGED <<listing, removals>>
        /\ listing.status = "ACTIVE"
    BY <1>3 DEF L!ArchiveRead, L!Begin
  <2>3. Fine(q)
    BY <1>0, <2>2
  <2>4. QED
    BY <1>0, <1>h, <1>s, <2>1, <2>2, <2>3
\* A handler that ends has nothing left to put back.
<1>f. ASSUME NEW c \in Calls, L!Finish(c), removals' = removals, listing' \in Row,
             listing' = listing \/ listing'.status # "REMOVED"
      PROVE  BoardInvariant'
  <2>1. Fine(L!Idle)
    BY <1>0, <1>f, <1>i
  <2>2. QED
    BY <1>0, <1>f, <1>h, <1>i, <1>s, <2>1 DEF L!Finish
<1>4. ASSUME NEW c \in Calls, L!EditCommit(c) PROVE BoardInvariant'
  <2>1. lcall[c].status \in L!Editable
    BY <1>4 DEF L!EditCommit, BoardInvariant
  <2>2. /\ listing' \in Row
        /\ listing' = listing \/ listing'.status # "REMOVED"
    BY <1>0, <1>4, <2>1 DEF L!EditCommit, L!Editable
  <2>3. QED
    BY <1>4, <1>f, <2>2 DEF L!EditCommit
<1>5. ASSUME NEW c \in Calls, L!ArchiveCommit(c) PROVE BoardInvariant'
  <2>1. listing' \in Row /\ listing'.status # "REMOVED"
    BY <1>0, <1>5 DEF L!ArchiveCommit
  <2>2. QED
    BY <1>5, <1>f, <2>1 DEF L!ArchiveCommit
<1>6. ASSUME NEW c \in Calls, L!ModerateCommit(c) PROVE BoardInvariant'
  <2> DEFINE q == [lcall[c] EXCEPT !.at = "noting"]
  <2>1. q \in Post /\ q.at = "noting" /\ q.seen = lcall[c].seen
    BY <1>0 DEF Post
  <2>2. lcall' = [lcall EXCEPT ![c] = q]
    BY <1>0, <1>6 DEF L!ModerateCommit
  <2>3. removals' = removals + 1 /\ removals' \in 0 .. MaxRemovals
    BY <1>0, <1>6 DEF L!ModerateCommit
  <2>4. \A d \in Calls : lcall[d].seen \in Nat /\ lcall[d].seen <= removals
    BY <1>0 DEF Post, BoardInvariant
  <2>5. \A d \in Calls : Fine(lcall[d])
    BY <1>0, <2>3, <2>4 DEF BoardInvariant
  <2>6. listing' \in Row
    BY <1>0, <1>6 DEF L!ModerateCommit, L!TakenDown, Post
  <2>7. Fine(q)
    BY <1>0, <2>1, <2>3, <2>4
  <2> HIDE DEF q
  <2>8. QED
    BY <1>h, <2>1, <2>2, <2>3, <2>5, <2>6, <2>7
<1>7. ASSUME NEW c \in Calls, L!ModerateNote(c) \/ L!Abandon(c) PROVE BoardInvariant'
  BY <1>0, <1>7, <1>f DEF L!ModerateNote, L!Abandon
<1>8. CASE UNCHANGED <<lcall, removals, listing>>
  BY <1>8 DEF BoardInvariant
<1>9. QED
  BY <1>1, <1>2, <1>3, <1>4, <1>5, <1>6, <1>7, <1>8 DEF L!Next, boardVars, L!Age

LEMMA Boards == RecordsAssumption => (Spec => []BoardInvariant)
<1> SUFFICES ASSUME RecordsAssumption PROVE Spec => []BoardInvariant
  OBVIOUS
<1>1. L!BoardAssumption
  BY DEF RecordsAssumption
<1>2. Init => BoardInvariant
  <2>1. L!Idle \in Post /\ L!Idle.at = "idle" /\ L!Idle.seen = 0
    BY <1>1 DEF L!Idle, Post, L!Editable, L!BoardAssumption
  <2>2. QED
    BY <1>1, <2>1 DEF Init, L!Init, BoardInvariant, L!BoardAssumption
<1>3. BoardInvariant /\ [Next]_vars => BoardInvariant'
  BY <1>1, BoardInvariantNext, OneRecordSteps
<1>4. QED
  BY <1>2, <1>3, PTL DEF Spec

\* What a moderator took down comes back only by a handler that had read the
\* listing before, whatever edits, sweeps and moderators interleave
\* (community-board.service.ts:202-254, 301-325; the scheduler's lines 28-68).
THEOREM BackIsARace == RecordsAssumption => (Spec => BackOnlyByRace)
<1> SUFFICES ASSUME RecordsAssumption PROVE Spec => BackOnlyByRace
  OBVIOUS
<1> DEFINE Act == listing.status = "REMOVED" /\ listing'.status # "REMOVED" =>
                  \E c \in Calls : lcall'[c] # lcall[c] /\ lcall[c].seen < removals
<1>1. BoardInvariant /\ [Next]_vars => [Act]_boardVars
  <2> SUFFICES ASSUME BoardInvariant, [L!Next]_boardVars,
                      listing.status = "REMOVED", listing'.status # "REMOVED"
               PROVE  \E c \in Calls : lcall'[c] # lcall[c] /\ lcall[c].seen < removals
    BY OneRecordSteps
  <2>1. PICK c \in Calls : L!EditCommit(c) \/ L!ArchiveCommit(c) \/ L!ModerateCommit(c)
    BY DEF L!Next, boardVars, L!Age, L!EditRead, L!ModerateRead, L!ArchiveRead,
           L!ModerateNote, L!Abandon
  <2>2. ~L!ModerateCommit(c)
    BY DEF L!ModerateCommit, L!TakenDown
  <2>3. lcall[c].at \in {"editing", "archiving"} /\ lcall'[c] = L!Idle
    BY <2>1, <2>2 DEF L!EditCommit, L!ArchiveCommit, L!Finish, BoardInvariant
  <2>4. lcall'[c] # lcall[c]
    BY <2>3 DEF L!Idle
  <2>5. QED
    BY <2>3, <2>4 DEF BoardInvariant
<1>2. Spec => [][Act]_boardVars
  BY <1>1, Boards, PTL DEF Spec
<1>3. QED
  BY <1>2 DEF BackOnlyByRace, L!BackOnlyByRace, boardVars, L!vars

\* The moderations whose audit row is yet to be written.
Noters == {c \in Calls : lcall[c].at = "noting"}

Counted ==
    /\ removals = laudit + Cardinality(Noters) + lost
    /\ laudit \in Nat /\ lost \in Nat

LEMMA CountedNext ==
  ASSUME L!BoardAssumption, BoardInvariant, Counted, [L!Next]_boardVars
  PROVE  Counted'
<1>0. /\ lcall \in [Calls -> Post] /\ removals \in Nat
      /\ IsFiniteSet(Calls) /\ laudit \in Nat /\ lost \in Nat
  <2>1. MaxRemovals \in Nat /\ L!IsFiniteSet(Calls)
    BY DEF L!BoardAssumption
  <2>2. IsFiniteSet(Calls)
    BY <2>1 DEF L!IsFiniteSet, IsFiniteSet
  <2>3. QED
    BY <2>1, <2>2 DEF BoardInvariant, Counted
<1>1. IsFiniteSet(Noters) /\ Cardinality(Noters) \in Nat
  BY <1>0, FS_Subset, FS_CardinalityType DEF Noters
<1>2. ASSUME NEW c \in Calls, L!ModerateCommit(c) PROVE Counted'
  <2>1. Noters' = Noters \cup {c} /\ c \notin Noters
    BY <1>0, <1>2 DEF L!ModerateCommit, Noters, Post
  <2>2. Cardinality(Noters') = Cardinality(Noters) + 1
    BY <1>1, <2>1, FS_AddElement
  <2>3. QED
    BY <1>0, <1>1, <1>2, <2>2 DEF L!ModerateCommit, Counted
<1>3. ASSUME NEW c \in Calls, L!Finish(c) PROVE Noters' = Noters \ {c}
  BY <1>0, <1>3 DEF L!Finish, L!Idle, Noters
<1>4. ASSUME NEW c \in Calls, c \in Noters
      PROVE  Cardinality(Noters \ {c}) = Cardinality(Noters) - 1
  BY <1>1, <1>4, FS_RemoveElement
<1>5. ASSUME NEW c \in Calls, L!ModerateNote(c) PROVE Counted'
  <2>1. c \in Noters /\ Noters' = Noters \ {c}
    BY <1>3, <1>5 DEF L!ModerateNote, Noters
  <2>2. laudit' = laudit + 1 /\ removals' = removals /\ lost' = lost
    BY <1>5 DEF L!ModerateNote, L!Noted
  <2>3. QED
    BY <1>0, <1>1, <1>4, <2>1, <2>2 DEF Counted
<1>6. ASSUME NEW c \in Calls, L!Abandon(c) PROVE Counted'
  <2>1. Noters' = Noters \ {c} /\ removals' = removals /\ laudit' = laudit
    BY <1>3, <1>6 DEF L!Abandon
  <2>2. CASE c \in Noters
    <3>1. lost' = lost + 1
      BY <1>6, <2>2 DEF L!Abandon, Noters
    <3>2. QED
      BY <1>0, <1>1, <1>4, <2>1, <2>2, <3>1 DEF Counted
  <2>3. CASE c \notin Noters
    <3>1. lost' = lost /\ Noters' = Noters
      BY <1>6, <2>1, <2>3 DEF L!Abandon, Noters
    <3>2. QED
      BY <1>0, <2>1, <3>1 DEF Counted
  <2>4. QED
    BY <2>2, <2>3
<1>7. ASSUME UNCHANGED <<laudit, removals, lost>>, Noters' = Noters PROVE Counted'
  BY <1>7 DEF Counted
<1>8. ASSUME NEW c \in Calls, L!EditCommit(c) \/ L!ArchiveCommit(c) PROVE Counted'
  <2>1. Noters' = Noters
    BY <1>3, <1>8 DEF L!EditCommit, L!ArchiveCommit, Noters
  <2>2. QED
    BY <1>7, <1>8, <2>1 DEF L!EditCommit, L!ArchiveCommit
<1>9. ASSUME NEW c \in Calls, NEW at, NEW s, NEW m, L!Begin(c, at, s, m),
             at # "noting", lcall[c].at = "idle", UNCHANGED <<laudit, removals, lost>>
      PROVE  Counted'
  <2>1. Noters' = Noters
    BY <1>0, <1>9 DEF L!Begin, Noters
  <2>2. QED
    BY <1>7, <1>9, <2>1
<1>10. ASSUME UNCHANGED <<laudit, removals, lost, lcall>> PROVE Counted'
  BY <1>7, <1>10 DEF Noters
<1>11. QED
  BY <1>2, <1>5, <1>6, <1>8, <1>9, <1>10
  DEF L!Next, boardVars, L!Age, L!EditRead, L!ModerateRead, L!ArchiveRead

LEMMA RemovalsCount == RecordsAssumption => (Spec => []Counted)
<1> SUFFICES ASSUME RecordsAssumption PROVE Spec => []Counted
  OBVIOUS
<1>1. L!BoardAssumption
  BY DEF RecordsAssumption
<1>2. Init => Counted
  <2> SUFFICES ASSUME Init PROVE Counted
    OBVIOUS
  <2>1. Noters = {}
    BY DEF Init, L!Init, L!Idle, Noters
  <2>2. QED
    BY <2>1, FS_EmptySet DEF Init, L!Init, Counted
<1>3. BoardInvariant /\ Counted /\ [Next]_vars => Counted'
  BY <1>1, CountedNext, OneRecordSteps
<1>4. QED
  BY <1>2, <1>3, Boards, PTL DEF Spec

\* For any number of handlers, every removal of a listing has one audit row, but
\* for the handlers that are to write it or died before
\* (community-board.service.ts:301-338).
THEOREM RemovalsAreNoted == RecordsAssumption => (Spec => []L!EveryRemovalIsNoted)
<1>1. Counted => L!EveryRemovalIsNoted
  <2> SUFFICES ASSUME Counted PROVE L!EveryRemovalIsNoted
    OBVIOUS
  <2>1. L!Noting = Cardinality(Noters)
    BY SMTT(60) DEF L!Noting, Noters, L!Cardinality, L!IsFiniteSet, Cardinality, IsFiniteSet
  <2>2. QED
    BY <2>1 DEF Counted, L!EveryRemovalIsNoted
<1>2. QED
  BY <1>1, RemovalsCount, PTL

-----------------------------------------------------------------------------
(* The ownership of units.                                                 *)

Deed ==
    [status : {"unborn", "pending", "verified", "deleted"},
     by : People \cup {None}, unit : Units \cup {None}, share : Shares \cup {0}]

Clerk ==
    [at : {"idle", "attaching", "claiming", "weighing", "approving", "flagging",
           "rejecting", "removing", "unlinking", "counting", "unflagging"},
     row : Rows \cup {None}, by : People \cup {None}, unit : Units \cup {None},
     share : Shares \cup {0}, seen : SUBSET [id : Rows, share : Shares \cup {0}],
     stood : SUBSET Rows, weighed : SUBSET [id : Rows, share : Shares \cup {0}]]

\* The rows that stood when a rejection began are still the resident's.
StoodHis(q) == \A j \in q.stood : own[j].status # "unborn" /\ own[j].by = q.by

\* A rejection that found no other right is the last one in the complex.
SawOthers(q) ==
    q.at = "removing" /\ q.seen = {} =>
        ~\E j \in q.stood \ {q.row} :
            O!Alive(j) /\ complex[own[j].unit] = complex[q.unit]

Sound(q) ==
    /\ q.at = "attaching" => q.unit \in Units
    /\ q.at \in {"weighing", "approving"} => q.share \in Shares
    /\ q.at \in {"rejecting", "removing"} => StoodHis(q)
    /\ SawOthers(q)

UnitInvariant ==
    /\ own \in [Rows -> Deed]
    /\ ocall \in [Calls -> Clerk]
    /\ \A c \in Calls : Sound(ocall[c])

\* What may become of a row: it is born, or keeps its owner and its unit and is
\* no more alive than it was.
LEMMA RowsAge ==
  ASSUME O!OwnershipAssumption, UnitInvariant, [O!Next]_unitVars, NEW j
  PROVE  /\ own' \in [Rows -> Deed]
         /\ j \in Rows /\ own[j].status # "unborn" =>
              /\ own'[j].status # "unborn"
              /\ own'[j].by = own[j].by /\ own'[j].unit = own[j].unit
              /\ O!Alive(j)' => O!Alive(j)
              /\ own[j].status = "deleted" => own'[j] = own[j]
<1> DEFINE Aged ==
      /\ own' \in [Rows -> Deed]
      /\ j \in Rows /\ own[j].status # "unborn" =>
           /\ own'[j].status # "unborn"
           /\ own'[j].by = own[j].by /\ own'[j].unit = own[j].unit
           /\ O!Alive(j)' => O!Alive(j)
           /\ own[j].status = "deleted" => own'[j] = own[j]
<1>0. own \in [Rows -> Deed] /\ ocall \in [Calls -> Clerk]
  BY DEF UnitInvariant
<1>1. ASSUME NEW c \in Calls, O!ClaimInsert(c) PROVE Aged
  <2>1. CASE UNCHANGED own
    BY <1>0, <2>1 DEF O!Alive
  <2>2. CASE \E k \in Rows :
               /\ own[k] = O!NoRow
               /\ own' = [own EXCEPT ![k] =
                    [status |-> "pending", by |-> ocall[c].by,
                     unit |-> ocall[c].unit, share |-> ocall[c].share]]
    <3>1. PICK k \in Rows :
               /\ own[k] = O!NoRow
               /\ own' = [own EXCEPT ![k] =
                    [status |-> "pending", by |-> ocall[c].by,
                     unit |-> ocall[c].unit, share |-> ocall[c].share]]
      BY <2>2
    <3>2. own[k].status = "unborn"
      BY <3>1 DEF O!NoRow
    <3>3. [status |-> "pending", by |-> ocall[c].by, unit |-> ocall[c].unit,
           share |-> ocall[c].share] \in Deed
      BY <1>0 DEF Clerk, Deed
    <3>4. own' \in [Rows -> Deed] /\ (k # j => own'[j] = own[j])
      BY <1>0, <3>1, <3>3
    <3>5. QED
      BY <3>2, <3>4 DEF O!Alive
  <2>3. QED
    BY <1>1, <2>1, <2>2 DEF O!ClaimInsert
\* A row that is there changes its status or its share.
<1>2. ASSUME NEW k \in Rows, O!Alive(k), NEW d \in Deed, own' = [own EXCEPT ![k] = d],
             d.status \in {"verified", "deleted"},
             d.by = own[k].by, d.unit = own[k].unit
      PROVE  Aged
  BY <1>0, <1>2 DEF O!Alive
<1>3. ASSUME NEW c \in Calls, O!ApproveCommit(c) PROVE Aged
  <2>1. ocall[c].row \in Rows \/ own' = own
    BY <1>0, <1>3 DEF O!ApproveCommit
  <2>2. CASE own' = own
    BY <1>0, <2>2 DEF O!Alive
  <2>3. CASE ocall[c].row \in Rows
    <3>1. PICK k \in Rows : k = ocall[c].row /\ O!Alive(k)
      BY <1>3, <2>3 DEF O!ApproveCommit, O!StillThere
    <3>2. ocall[c].share \in Shares
      BY <1>3 DEF UnitInvariant, Sound, O!ApproveCommit
    <3>3. PICK d \in Deed : d = [own[k] EXCEPT !.status = "verified",
                                               !.share = ocall[c].share]
      BY <1>0, <3>2 DEF Deed
    <3>4. own' = [own EXCEPT ![k] = d]
      BY <1>0, <1>3, <3>1, <3>3 DEF O!ApproveCommit
    <3>5. d.status = "verified" /\ d.by = own[k].by /\ d.unit = own[k].unit
      BY <1>0, <3>3 DEF Deed
    <3>6. QED
      BY <1>2, <3>1, <3>4, <3>5
  <2>4. QED
    BY <2>1, <2>2, <2>3
<1>4. ASSUME NEW c \in Calls, O!RejectCommit(c) \/ O!UnlinkDelete(c) PROVE Aged
  <2>1. ocall[c].row \in Rows \/ own' = own
    BY <1>0, <1>4 DEF O!RejectCommit, O!UnlinkDelete
  <2>2. CASE own' = own
    BY <1>0, <2>2 DEF O!Alive
  <2>3. CASE ocall[c].row \in Rows
    <3>1. PICK k \in Rows : k = ocall[c].row /\ O!Alive(k)
      BY <1>4, <2>3 DEF O!RejectCommit, O!UnlinkDelete, O!StillThere
    <3>2. PICK d \in Deed : d = [own[k] EXCEPT !.status = "deleted"]
      BY <1>0 DEF Deed
    <3>3. own' = [own EXCEPT ![k] = d]
      BY <1>0, <1>4, <3>1, <3>2 DEF O!RejectCommit, O!UnlinkDelete
    <3>4. d.status = "deleted" /\ d.by = own[k].by /\ d.unit = own[k].unit
      BY <1>0, <3>2 DEF Deed
    <3>5. QED
      BY <1>2, <3>1, <3>3, <3>4
  <2>4. QED
    BY <2>1, <2>2, <2>3
<1>5. ASSUME UNCHANGED own PROVE Aged
  BY <1>0, <1>5 DEF O!Alive
<1>6. QED
  BY <1>1, <1>3, <1>4, <1>5, ZenonT(60)
  DEF O!Next, unitVars, O!ClaimCheck, O!VerifyRead, O!UnlinkRead, O!Claim,
      O!ClaimAttach, O!Verify, O!ApproveCheck, O!ApproveFlag, O!RejectLook,
      O!UnlinkStep, O!UnlinkCount, O!UnlinkFlag, O!Abandon

\* A step of another handler leaves a handler's reading of the rows right.
LEMMA SoundKept ==
  ASSUME O!OwnershipAssumption, UnitInvariant, [O!Next]_unitVars,
         NEW q \in Clerk, Sound(q), q.at = "removing" => StoodHis(q)
  PROVE  Sound(q)'
<1>1. ASSUME StoodHis(q) PROVE StoodHis(q)'
  <2> SUFFICES ASSUME NEW j \in q.stood
               PROVE  own'[j].status # "unborn" /\ own'[j].by = q.by
    BY DEF StoodHis
  <2>1. j \in Rows
    BY DEF Clerk
  <2>2. QED
    BY <1>1, <2>1, RowsAge DEF StoodHis
<1>2. SawOthers(q)'
  <2> SUFFICES ASSUME q.at = "removing", q.seen = {}, NEW j \in q.stood \ {q.row},
                      O!Alive(j)', complex[own'[j].unit] = complex[q.unit]
               PROVE  FALSE
    BY DEF SawOthers
  <2>1. j \in Rows /\ own[j].status # "unborn"
    BY DEF Clerk, StoodHis
  <2>2. O!Alive(j) /\ own'[j].unit = own[j].unit
    BY <2>1, RowsAge, SMTT(60)
  <2>3. QED
    BY <2>2 DEF Sound, SawOthers
<1>3. QED
  BY <1>1, <1>2 DEF Sound

LEMMA UnitInvariantNext ==
  ASSUME O!OwnershipAssumption, UnitInvariant, [O!Next]_unitVars
  PROVE  UnitInvariant'
<1>0. /\ own \in [Rows -> Deed] /\ ocall \in [Calls -> Clerk]
      /\ \A c \in Calls : Sound(ocall[c])
  BY DEF UnitInvariant
<1>r. own' \in [Rows -> Deed]
  BY RowsAge
\* Handler c becomes q; what the others read stays right.
<1>h. ASSUME NEW c \in Calls, NEW q \in Clerk, Sound(q)',
             ocall' = [ocall EXCEPT ![c] = q]
      PROVE  UnitInvariant'
  <2>1. ocall' \in [Calls -> Clerk]
    BY <1>0, <1>h
  <2>2. ASSUME NEW d \in Calls PROVE Sound(ocall[d])'
    <3>1. CASE d = c
      BY <1>0, <1>h, <3>1
    <3>2. CASE d # c
      <4>1. PICK r \in Clerk : r = ocall[d]
        BY <1>0
      <4>2. Sound(r) /\ (r.at = "removing" => StoodHis(r))
        BY <1>0, <4>1 DEF Sound
      <4>3. ocall'[d] = r
        BY <1>0, <1>h, <3>2, <4>1
      <4>4. QED
        BY <4>2, <4>3, SoundKept
    <3>3. QED
      BY <3>1, <3>2
  <2>3. QED
    BY <1>r, <2>1, <2>2 DEF UnitInvariant
\* A handler that is neither weighing nor rejecting has nothing to keep right.
<1>e. ASSUME NEW c \in Calls, NEW q \in Clerk, ocall' = [ocall EXCEPT ![c] = q],
             q.at \notin {"weighing", "approving", "rejecting", "removing"},
             q.at = "attaching" => q.unit \in Units
      PROVE  UnitInvariant'
  BY <1>e, <1>h DEF Sound, SawOthers
<1>i. O!Idle \in Clerk /\ O!Idle.at = "idle"
  BY DEF O!Idle, Clerk
<1>f. ASSUME NEW c \in Calls, O!Finish(c) PROVE UnitInvariant'
  BY <1>e, <1>f, <1>i DEF O!Finish
<1>1. ASSUME NEW c \in Calls, NEW p \in People, NEW u \in Units, NEW s \in Shares,
             O!ClaimCheck(c, p, u, s)
      PROVE  UnitInvariant'
  <2>1. PICK q : q = [O!Idle EXCEPT !.at = "attaching", !.by = p, !.unit = u, !.share = s]
    OBVIOUS
  <2>2. q \in Clerk /\ q.at = "attaching" /\ q.unit = u
    BY <2>1 DEF O!Idle, Clerk
  <2>3. QED
    BY <1>1, <1>e, <2>1, <2>2 DEF O!ClaimCheck
\* A handler moves on and keeps what it holds.
<1>m. ASSUME NEW c \in Calls,
             NEW at \in {"claiming", "counting", "unflagging"},
             ocall' = [ocall EXCEPT ![c].at = at]
      PROVE  UnitInvariant'
  <2>1. PICK q : q = [ocall[c] EXCEPT !.at = at]
    OBVIOUS
  <2>2. q \in Clerk /\ q.at = at
    BY <1>0, <2>1 DEF Clerk
  <2>3. ocall' = [ocall EXCEPT ![c] = q]
    BY <1>0, <1>m, <2>1
  <2>4. QED
    BY <1>e, <2>2, <2>3
<1>2. ASSUME NEW c \in Calls, NEW k \in Rows, NEW s \in Shares,
             O!VerifyRead(c, k, "weighing", s)
      PROVE  UnitInvariant'
  <2>1. PICK q : q = [O!Idle EXCEPT !.at = "weighing", !.row = k, !.by = own[k].by,
                        !.unit = own[k].unit, !.share = s, !.stood = {}]
    OBVIOUS
  <2>2. q \in Clerk /\ q.at = "weighing" /\ q.share = s
    BY <1>0, <2>1 DEF O!Idle, Clerk, Deed
  <2>3. ocall' = [ocall EXCEPT ![c] = q]
    BY <1>2, <2>1 DEF O!VerifyRead
  <2>4. Sound(q)'
    BY <2>2 DEF Sound, SawOthers
  <2>5. QED
    BY <1>h, <2>2, <2>3, <2>4
<1>3. ASSUME NEW c \in Calls, NEW k \in Rows, O!VerifyRead(c, k, "rejecting", 0)
      PROVE  UnitInvariant'
  <2> DEFINE his == {j \in Rows : O!Alive(j) /\ own[j].by = own[k].by}
  <2>1. PICK q : q = [O!Idle EXCEPT !.at = "rejecting", !.row = k, !.by = own[k].by,
                        !.unit = own[k].unit, !.share = 0, !.stood = his]
    OBVIOUS
  <2>2. q \in Clerk /\ q.at = "rejecting" /\ q.stood = his /\ q.by = own[k].by
    <3>1. his \in SUBSET Rows
      OBVIOUS
    <3> HIDE DEF his
    <3>2. QED
      BY <1>0, <2>1, <3>1 DEF O!Idle, Clerk, Deed
  <2>3. ocall' = [ocall EXCEPT ![c] = q] /\ UNCHANGED own
    BY <1>3, <2>1 DEF O!VerifyRead
  <2>4. StoodHis(q)'
    BY <2>2, <2>3 DEF StoodHis, O!Alive
  <2>5. Sound(q)'
    BY <2>2, <2>4 DEF Sound, SawOthers
  <2>6. QED
    BY <1>h, <2>2, <2>3, <2>5
<1>4. ASSUME NEW c \in Calls, NEW k \in Rows, O!UnlinkRead(c, k) PROVE UnitInvariant'
  <2>1. PICK q : q = [O!Idle EXCEPT !.at = "unlinking", !.row = k, !.by = own[k].by,
                        !.unit = own[k].unit]
    OBVIOUS
  <2>2. q \in Clerk /\ q.at = "unlinking"
    BY <1>0, <2>1 DEF O!Idle, Clerk, Deed
  <2>3. QED
    BY <1>4, <1>e, <2>1, <2>2 DEF O!UnlinkRead
<1>5. ASSUME NEW c \in Calls, O!ApproveCheck(c) PROVE UnitInvariant'
  <2> DEFINE others == {r \in O!Confirmed(ocall[c].unit) : r.id # ocall[c].row}
  <2>1. PICK q : q = [ocall[c] EXCEPT !.at = "approving", !.weighed = others]
    OBVIOUS
  <2>2. others \in SUBSET [id : Rows, share : Shares \cup {0}]
    BY <1>0 DEF O!Confirmed, Deed
  <2>3. ocall' = [ocall EXCEPT ![c] = q]
    BY <1>0, <1>5, <2>1 DEF O!ApproveCheck
  <2> HIDE DEF others
  <2>4. q \in Clerk /\ q.at = "approving" /\ q.share \in Shares
    BY <1>0, <1>5, <2>1, <2>2, ZenonT(60) DEF O!ApproveCheck, Clerk, Sound
  <2>5. Sound(q)'
    BY <2>4 DEF Sound, SawOthers
  <2>6. QED
    BY <1>h, <2>3, <2>4, <2>5
<1>6. ASSUME NEW c \in Calls, O!RejectLook(c) PROVE UnitInvariant'
  <2>1. PICK r \in Clerk : r = ocall[c] /\ r.at = "rejecting" /\ StoodHis(r)
    BY <1>0, <1>6 DEF O!RejectLook, Sound
  <2> DEFINE found == {[id |-> j, share |-> own[j].share] :
                         j \in O!OthersOf(r.by, r.row, complex[r.unit])}
  <2>2. PICK q : q = [r EXCEPT !.at = "removing", !.seen = found]
    OBVIOUS
  <2>3. found \in SUBSET [id : Rows, share : Shares \cup {0}]
    BY <1>0 DEF O!OthersOf, Deed
  <2>4. ocall' = [ocall EXCEPT ![c] = q] /\ UNCHANGED own
    BY <1>0, <1>6, <2>1, <2>2 DEF O!RejectLook
  <2>5. ASSUME NEW j \in r.stood \ {r.row}, O!Alive(j),
               complex[own[j].unit] = complex[r.unit]
        PROVE  found # {}
    <3>1. j \in O!OthersOf(r.by, r.row, complex[r.unit])
      BY <2>1, <2>5 DEF O!OthersOf, StoodHis, Clerk
    <3>2. QED
      BY <3>1
  <2> HIDE DEF found
  <2>6. /\ q \in Clerk /\ q.at = "removing" /\ q.stood = r.stood /\ q.by = r.by
        /\ q.row = r.row /\ q.unit = r.unit /\ q.seen = found
    BY <2>1, <2>2, <2>3 DEF Clerk
  <2>7. StoodHis(q)'
    BY <2>1, <2>4, <2>6 DEF StoodHis
  <2>8. SawOthers(q)'
    BY <2>4, <2>5, <2>6 DEF SawOthers, O!Alive
  <2>9. Sound(q)'
    BY <2>6, <2>7, <2>8 DEF Sound
  <2>10. QED
    BY <1>h, <2>4, <2>6, <2>9
\* An approval leaves the handlers as they are but for what they have weighed.
<1>7. ASSUME NEW c \in Calls, O!ApproveCommit(c) PROVE UnitInvariant'
  <2>1. ASSUME NEW d \in Calls PROVE \E q \in Clerk : ocall'[d] = q /\ Sound(q)'
    <3>1. PICK r \in Clerk : r = ocall[d] /\ Sound(r)
      BY <1>0
    <3>2. PICK w \in SUBSET [id : Rows, share : Shares \cup {0}] :
            w = O!But(r.weighed, ocall[c].row)
      BY <3>1 DEF Clerk, O!But
    <3>3. PICK at : at = IF d = c THEN "flagging" ELSE r.at
      OBVIOUS
    <3>4. PICK q : q = [r EXCEPT !.at = at, !.weighed = w]
      OBVIOUS
    <3>5. ocall'[d] = q
      BY <1>7, <3>1, <3>2, <3>3, <3>4 DEF O!ApproveCommit
    <3>6. q \in Clerk /\ q.at = at /\ q.row = r.row /\ q.by = r.by /\ q.unit = r.unit
          /\ q.share = r.share /\ q.seen = r.seen /\ q.stood = r.stood
      BY <3>3, <3>4 DEF Clerk
    <3>7. CASE d = c
      BY <3>3, <3>5, <3>6, <3>7 DEF Sound, SawOthers
    <3>8. CASE d # c
      <4>1. Sound(r)'
        <5>1. r.at = "removing" => StoodHis(r)
          BY <3>1 DEF Sound
        <5>2. QED
          BY <3>1, <5>1, SoundKept
      <4>2. q.at = r.at
        BY <3>3, <3>6, <3>8
      <4>3. Sound(q)'
        BY <3>6, <4>1, <4>2 DEF Sound, StoodHis, SawOthers
      <4>4. QED
        BY <3>5, <3>6, <4>3
    <3>9. QED
      BY <3>7, <3>8
  <2>2. DOMAIN ocall' = Calls /\ ocall' = [d \in Calls |-> ocall'[d]]
    BY <1>7 DEF O!ApproveCommit
  <2>3. ocall' \in [Calls -> Clerk]
    BY <2>1, <2>2
  <2>4. QED
    BY <1>r, <2>1, <2>3 DEF UnitInvariant
<1>8. CASE UNCHANGED unitVars
  BY <1>8 DEF unitVars, UnitInvariant, Sound, StoodHis, SawOthers, O!Alive
<1>9. QED
  BY <1>1, <1>2, <1>3, <1>4, <1>5, <1>6, <1>7, <1>8, <1>f, <1>m, ZenonT(60)
  DEF O!Next, O!Claim, O!ClaimAttach, O!ClaimInsert, O!Verify,
      O!ApproveFlag, O!RejectCommit, O!UnlinkStep, O!UnlinkDelete, O!UnlinkCount,
      O!UnlinkFlag, O!Abandon

LEMMA UnitsHold == RecordsAssumption => (Spec => []UnitInvariant)
<1> SUFFICES ASSUME RecordsAssumption PROVE Spec => []UnitInvariant
  OBVIOUS
<1>1. O!OwnershipAssumption
  BY DEF RecordsAssumption
<1>2. Init => UnitInvariant
  <2> SUFFICES ASSUME Init PROVE UnitInvariant
    OBVIOUS
  <2>1. O!NoRow \in Deed /\ O!Idle \in Clerk /\ O!Idle.at = "idle"
    BY DEF O!NoRow, O!Idle, Deed, Clerk
  <2>2. own \in [Rows -> Deed] /\ ocall \in [Calls -> Clerk]
    BY <2>1 DEF Init, O!Init
  <2>3. \A c \in Calls : Sound(ocall[c])
    BY <2>1 DEF Init, O!Init, Sound, SawOthers
  <2>4. QED
    BY <2>2, <2>3 DEF UnitInvariant
<1>3. UnitInvariant /\ [Next]_vars => UnitInvariant'
  BY <1>1, UnitInvariantNext, OneRecordSteps
<1>4. QED
  BY <1>2, <1>3, PTL DEF Spec

\* For any number of units, people and handlers: a right that was rejected or
\* unlinked never comes back (properties.service.ts:514-579, 1043).
THEOREM GoneIsGone == RecordsAssumption => (Spec => GoneStaysGone)
<1> SUFFICES ASSUME RecordsAssumption PROVE Spec => GoneStaysGone
  OBVIOUS
<1> DEFINE Act == \A k \in Rows : own[k].status = "deleted" => own'[k] = own[k]
<1>1. O!OwnershipAssumption
  BY DEF RecordsAssumption
<1>2. UnitInvariant /\ [Next]_vars => [Act]_unitVars
  <2> SUFFICES ASSUME UnitInvariant, [O!Next]_unitVars, NEW k \in Rows,
                      own[k].status = "deleted"
               PROVE  own'[k] = own[k]
    BY OneRecordSteps
  <2>1. QED
    BY <1>1, RowsAge
<1>3. Spec => [][Act]_unitVars
  BY <1>2, UnitsHold, PTL DEF Spec
<1>4. QED
  BY <1>3 DEF GoneStaysGone, O!GoneStaysGone, unitVars, O!vars

\* For any number of claims, approvals and rejections at once: a rejection takes
\* nobody out of a complex where another claim of his, made before it began, is
\* still alive (properties.service.ts:535-559).
THEOREM RejectionSpares == RecordsAssumption => (Spec => RejectionSparesOthers)
<1> SUFFICES ASSUME RecordsAssumption PROVE Spec => RejectionSparesOthers
  OBVIOUS
<1> DEFINE Act == \A c \in Calls :
                  O!Detaches(c) =>
                    ~\E j \in ocall[c].stood \ {ocall[c].row} :
                        O!Alive(j) /\ complex[own[j].unit] = complex[ocall[c].unit]
<1>1. UnitInvariant /\ [Next]_vars => [Act]_unitVars
  <2> SUFFICES ASSUME UnitInvariant, [O!Next]_unitVars, NEW c \in Calls, O!Detaches(c)
               PROVE  ~\E j \in ocall[c].stood \ {ocall[c].row} :
                          O!Alive(j) /\ complex[own[j].unit] = complex[ocall[c].unit]
    BY OneRecordSteps
  <2>0. /\ ocall \in [Calls -> Clerk]
        /\ ocall[c].at = "removing" /\ ocall'[c] # ocall[c]
        /\ user'[ocall[c].by].complex # user[ocall[c].by].complex
    BY DEF UnitInvariant, O!Detaches
  <2>1. ocall[c].seen = {}
    <3>1. PICK d \in Calls : O!ClaimAttach(d) \/ O!ApproveFlag(d) \/ O!RejectCommit(d)
                               \/ O!UnlinkFlag(d)
      BY <2>0, ZenonT(60)
      DEF O!Next, unitVars, O!ClaimCheck, O!VerifyRead, O!UnlinkRead, O!Claim,
          O!ClaimInsert, O!Verify, O!ApproveCheck, O!ApproveCommit, O!RejectLook,
          O!UnlinkStep, O!UnlinkDelete, O!UnlinkCount, O!Abandon
    <3>2. \A e \in Calls \ {d} : ocall'[e] = ocall[e]
      BY <2>0, <3>1
      DEF O!ClaimAttach, O!ApproveFlag, O!RejectCommit, O!UnlinkFlag, O!Finish
    <3>3. d = c
      BY <2>0, <3>2
    <3>4. O!RejectCommit(c)
      BY <2>0, <3>1, <3>3 DEF O!ClaimAttach, O!ApproveFlag, O!UnlinkFlag
    <3>5. QED
      BY <2>0, <3>4, SMTT(60) DEF O!RejectCommit
  <2>2. QED
    BY <2>0, <2>1 DEF UnitInvariant, Sound, SawOthers
<1>2. Spec => [][Act]_unitVars
  BY <1>1, UnitsHold, PTL DEF Spec
<1>3. QED
  BY <1>2 DEF RejectionSparesOthers, O!RejectionSparesOthers, unitVars, O!vars
-----------------------------------------------------------------------------
(* The confirmed shares of a unit.                                         *)

Recorded(k) == [id |-> k, share |-> own[k].share]

\* Rows as they are now, each confirmed, or confirmed before it was deleted.
Current(found) ==
    found \subseteq {Recorded(k) : k \in {j \in Rows : own[j].status \in {"verified", "deleted"}}}

\* Of any two of the rows one was weighed when the other was confirmed.
Paired(S) ==
    \A k \in S, j \in S : k # j => O!Weighed(k, j) \/ O!Weighed(j, k)

\* What a check has weighed is current and leaves room for the share; and rows
\* that were weighed one against the other fit into a unit, whichever they are.
WeightInvariant ==
    /\ \A k \in Rows : Current(checked[k])
    /\ \A c \in Calls : Current(ocall[c].weighed)
    /\ \A c \in Calls :
         ocall[c].at = "approving" => O!Total(ocall[c].weighed) + ocall[c].share <= 100
    /\ \A S \in SUBSET {k \in Rows : O!Verified(k)} :
         Paired(S) => O!Total({Recorded(k) : k \in S}) <= 100

\* Rows whose shares may be summed.
Weighable(found) ==
    IsFiniteSet(found) /\ found \in SUBSET [id : Rows, share : Nat]

\* Shares are percents.
LEMMA SharesAreNat ==
  ASSUME O!OwnershipAssumption
  PROVE  Shares \cup {0} \in SUBSET Nat
<1>1. Shares \subseteq 1 .. 100
  BY DEF O!OwnershipAssumption
<1>2. QED
  BY <1>1

LEMMA SameSum == \A f : O!SumFunction(f) = SumFunction(f)
BY DEF O!SumFunction, O!SumFunctionOnSet, O!FoldFunctionOnSet, O!MapThenFoldSet,
       SumFunction, SumFunctionOnSet, FoldFunctionOnSet, MapThenFoldSet

LEMMA TotalIsNat ==
  ASSUME NEW found, Weighable(found)
  PROVE  O!Total(found) \in Nat
<1>1. [r \in found |-> r.share] \in [found -> Nat]
  BY DEF Weighable
<1>2. QED
  BY <1>1, SumIsNat, SameSum DEF Weighable, O!Total

LEMMA TotalOfFewer ==
  ASSUME NEW found, Weighable(found), NEW some \in SUBSET found
  PROVE  Weighable(some) /\ O!Total(some) <= O!Total(found)
<1>1. Weighable(some)
  BY FS_Subset DEF Weighable
<1>2. PICK f, g : f = [r \in some |-> r.share] /\ g = [r \in found |-> r.share]
  OBVIOUS
<1>3. /\ f \in [some -> Nat] /\ g \in [found -> Nat]
      /\ \A r \in some : f[r] <= g[r]
  BY <1>2 DEF Weighable
<1>4. SumFunction(f) <= SumFunction(g)
  BY <1>3, SumOfMore DEF Weighable
<1>5. QED
  BY <1>1, <1>2, <1>4, SameSum DEF O!Total

LEMMA TotalOfRest ==
  ASSUME NEW found, Weighable(found), NEW r \in found
  PROVE  O!Total(found) = O!Total(found \ {r}) + r.share
<1>1. PICK f, g : f = [s \in found |-> s.share] /\ g = [s \in found \ {r} |-> s.share]
  OBVIOUS
<1>2. /\ f \in [found -> Nat] /\ f[r] = r.share
      /\ g = [s \in found \ {r} |-> f[s]]
  BY <1>1 DEF Weighable
<1>3. SumFunction(f) = SumFunction(g) + f[r]
  BY <1>2, SumOfRest DEF Weighable
<1>4. QED
  BY <1>1, <1>2, <1>3, SameSum DEF O!Total

\* Rows have finitely many records.
LEMMA RecordsAreWeighable ==
  ASSUME O!OwnershipAssumption, UnitInvariant, NEW S \in SUBSET Rows,
         NEW found \in SUBSET {Recorded(k) : k \in S}
  PROVE  Weighable(found)
<1> DEFINE T == {Recorded(k) : k \in S}
<1>1. IsFiniteSet(S)
  <2>1. \A Z : O!IsFiniteSet(Z) <=> IsFiniteSet(Z)
    BY DEF O!IsFiniteSet, IsFiniteSet
  <2>2. QED
    BY <2>1, FS_Subset DEF O!OwnershipAssumption
<1>2. IsFiniteSet(T)
  <2> DEFINE f == [k \in S |-> Recorded(k)]
  <2>1. f \in [S -> T] /\ \A r \in T : \E k \in S : f[k] = r
    OBVIOUS
  <2> HIDE DEF f, T
  <2>2. f \in Surjection(S, T)
    BY <2>1 DEF Surjection
  <2>3. QED
    BY <1>1, <2>2, FS_Surjection
<1>3. T \in SUBSET [id : Rows, share : Nat]
  <2>1. \A k \in S : own[k].share \in Nat
    BY SharesAreNat DEF UnitInvariant, Deed
  <2>2. QED
    BY <2>1 DEF Recorded
<1>4. found \in SUBSET T
  OBVIOUS
<1> HIDE DEF T
<1>5. QED
  BY <1>2, <1>3, <1>4, FS_Subset DEF Weighable

LEMMA CurrentIsWeighable ==
  ASSUME O!OwnershipAssumption, UnitInvariant, NEW found, Current(found)
  PROVE  Weighable(found)
<1>1. PICK S \in SUBSET Rows : S = {j \in Rows : own[j].status \in {"verified", "deleted"}}
  OBVIOUS
<1>2. found \in SUBSET {Recorded(k) : k \in S}
  BY <1>1 DEF Current
<1>3. QED
  BY <1>2, RecordsAreWeighable

\* Unless a right is confirmed, the rows that count stay as they are.
LEMMA RowsStay ==
  ASSUME O!OwnershipAssumption, UnitInvariant, [O!Next]_unitVars,
         \A c \in Calls : ~O!ApproveCommit(c)
  PROVE  /\ checked' = checked
         /\ \A k \in Rows :
              /\ own[k].status \in {"verified", "deleted"} =>
                   own'[k].status \in {"verified", "deleted"} /\ own'[k].share = own[k].share
              /\ O!Verified(k)' => O!Verified(k)
<1> DEFINE Stays ==
      \A k \in Rows :
        /\ own[k].status \in {"verified", "deleted"} =>
             own'[k].status \in {"verified", "deleted"} /\ own'[k].share = own[k].share
        /\ O!Verified(k)' => O!Verified(k)
<1>0. own \in [Rows -> Deed]
  BY DEF UnitInvariant
<1>1. ASSUME NEW c \in Calls, O!ClaimInsert(c) PROVE checked' = checked /\ Stays
  <2>1. CASE UNCHANGED own
    BY <1>1, <2>1 DEF O!ClaimInsert, O!Verified
  <2>2. CASE \E k \in Rows :
               /\ own[k] = O!NoRow
               /\ own' = [own EXCEPT ![k] =
                    [status |-> "pending", by |-> ocall[c].by,
                     unit |-> ocall[c].unit, share |-> ocall[c].share]]
    BY <1>0, <1>1, <2>2 DEF O!ClaimInsert, O!Verified, O!NoRow
  <2>3. QED
    BY <1>1, <2>1, <2>2 DEF O!ClaimInsert
<1>2. ASSUME NEW c \in Calls, O!RejectCommit(c) \/ O!UnlinkDelete(c)
      PROVE  checked' = checked /\ Stays
  <2>1. checked' = checked
    BY <1>2 DEF O!RejectCommit, O!UnlinkDelete
  <2>2. PICK j : own' = [own EXCEPT ![j].status = "deleted"]
    BY <1>2 DEF O!RejectCommit, O!UnlinkDelete
  <2>3. QED
    BY <1>0, <2>1, <2>2 DEF O!Verified, Deed
<1>3. ASSUME UNCHANGED <<own, checked>> PROVE checked' = checked /\ Stays
  BY <1>3 DEF O!Verified
<1>4. QED
  BY <1>1, <1>2, <1>3, ZenonT(60)
  DEF O!Next, unitVars, O!ClaimCheck, O!VerifyRead, O!UnlinkRead, O!Claim,
      O!ClaimAttach, O!Verify, O!ApproveCheck, O!ApproveFlag, O!RejectLook,
      O!UnlinkStep, O!UnlinkCount, O!UnlinkFlag, O!Abandon

\* Unless a right is confirmed, a handler weighs anew or no more than it has.
LEMMA HandlersWeigh ==
  ASSUME O!OwnershipAssumption, UnitInvariant, [O!Next]_unitVars,
         \A c \in Calls : ~O!ApproveCommit(c), NEW d \in Calls
  PROVE  \/ ocall'[d] = ocall[d]
         \/ ocall'[d].at # "approving" /\ ocall'[d].weighed = {}
         \/ ocall'[d].at # "approving" /\ ocall'[d].weighed = ocall[d].weighed
         \/ O!ApproveCheck(d)
<1> DEFINE Weighs ==
      \/ ocall'[d] = ocall[d]
      \/ ocall'[d].at # "approving" /\ ocall'[d].weighed = {}
      \/ ocall'[d].at # "approving" /\ ocall'[d].weighed = ocall[d].weighed
      \/ O!ApproveCheck(d)
<1>0. ocall \in [Calls -> Clerk]
  BY DEF UnitInvariant
<1>1. ASSUME NEW c \in Calls, NEW q, ocall' = [ocall EXCEPT ![c] = q],
             q.at # "approving", q.weighed = {} \/ q.weighed = ocall[c].weighed
      PROVE  Weighs
  BY <1>0, <1>1
<1>2. ASSUME NEW c \in Calls, O!Finish(c) PROVE Weighs
  <2>1. O!Idle.at # "approving" /\ O!Idle.weighed = {}
    BY DEF O!Idle
  <2>2. QED
    BY <1>1, <1>2, <2>1 DEF O!Finish
<1>3. ASSUME NEW c \in Calls,
             NEW at \in {"claiming", "counting", "unflagging"},
             ocall' = [ocall EXCEPT ![c].at = at]
      PROVE  Weighs
  <2>1. PICK q : q = [ocall[c] EXCEPT !.at = at]
    OBVIOUS
  <2>2. q.at = at /\ q.weighed = ocall[c].weighed
    BY <1>0, <2>1 DEF Clerk
  <2>3. ocall' = [ocall EXCEPT ![c] = q]
    BY <1>0, <1>3, <2>1
  <2>4. QED
    BY <1>1, <2>2, <2>3
<1>4. ASSUME NEW c \in Calls, NEW p \in People, NEW u \in Units, NEW s \in Shares,
             O!ClaimCheck(c, p, u, s)
      PROVE  Weighs
  <2>1. PICK q : q = [O!Idle EXCEPT !.at = "attaching", !.by = p, !.unit = u, !.share = s]
    OBVIOUS
  <2>2. q.at # "approving" /\ q.weighed = {}
    BY <2>1 DEF O!Idle
  <2>3. QED
    BY <1>1, <1>4, <2>1, <2>2 DEF O!ClaimCheck
<1>5. ASSUME NEW c \in Calls, NEW k \in Rows, NEW at \in {"weighing", "rejecting"}, NEW s,
             O!VerifyRead(c, k, at, s)
      PROVE  Weighs
  <2>1. PICK found : ocall' = [ocall EXCEPT ![c] =
          [O!Idle EXCEPT !.at = at, !.row = k, !.by = own[k].by,
                         !.unit = own[k].unit, !.share = s, !.stood = found]]
    BY <1>5 DEF O!VerifyRead
  <2>2. PICK q : q = [O!Idle EXCEPT !.at = at, !.row = k, !.by = own[k].by,
                        !.unit = own[k].unit, !.share = s, !.stood = found]
    OBVIOUS
  <2>3. q.at = at /\ q.weighed = {}
    BY <2>2 DEF O!Idle
  <2>4. QED
    BY <1>1, <2>1, <2>2, <2>3
<1>6. ASSUME NEW c \in Calls, NEW k \in Rows, O!UnlinkRead(c, k) PROVE Weighs
  <2>1. PICK q : q = [O!Idle EXCEPT !.at = "unlinking", !.row = k, !.by = own[k].by,
                        !.unit = own[k].unit]
    OBVIOUS
  <2>2. q.at = "unlinking" /\ q.weighed = {}
    BY <2>1 DEF O!Idle
  <2>3. QED
    BY <1>1, <1>6, <2>1, <2>2 DEF O!UnlinkRead
<1>7. ASSUME NEW c \in Calls, O!ApproveCheck(c) PROVE Weighs
  <2>1. c = d \/ ocall'[d] = ocall[d]
    BY <1>0, <1>7 DEF O!ApproveCheck
  <2>2. QED
    BY <1>7, <2>1
<1>8. ASSUME NEW c \in Calls, O!RejectLook(c) PROVE Weighs
  <2>1. PICK found : ocall' = [ocall EXCEPT ![c].at = "removing", ![c].seen = found]
    BY <1>8 DEF O!RejectLook
  <2>2. PICK q : q = [ocall[c] EXCEPT !.at = "removing", !.seen = found]
    OBVIOUS
  <2>3. q.at = "removing" /\ q.weighed = ocall[c].weighed
    BY <1>0, <2>2 DEF Clerk
  <2>4. ocall' = [ocall EXCEPT ![c] = q]
    BY <1>0, <2>1, <2>2
  <2>5. QED
    BY <1>1, <2>3, <2>4
<1>9. ASSUME UNCHANGED ocall PROVE Weighs
  BY <1>9
<1>10. QED
  BY <1>2, <1>3, <1>4, <1>5, <1>6, <1>7, <1>8, <1>9, ZenonT(60)
  DEF O!Next, unitVars, O!Claim, O!ClaimAttach, O!ClaimInsert, O!Verify, O!ApproveFlag,
      O!RejectCommit, O!UnlinkStep, O!UnlinkDelete, O!UnlinkCount, O!UnlinkFlag, O!Abandon

\* A row is confirmed: whatever was weighed against it before is out of date, and
\* what its own check weighed is not.
LEMMA ConfirmedFits ==
  ASSUME O!OwnershipAssumption, UnitInvariant, WeightInvariant, UnitInvariant',
         NEW c \in Calls, O!ApproveCommit(c)
  PROVE  WeightInvariant'
<1>0. PICK q \in Clerk : q = ocall[c] /\ q.at = "approving"
  BY DEF UnitInvariant, O!ApproveCommit
<1>1. PICK k : k = q.row
  OBVIOUS
<1>2. own \in [Rows -> Deed] /\ q.share \in Nat
  BY SharesAreNat DEF UnitInvariant, Clerk
<1>3. /\ DOMAIN own' = Rows
      /\ \A j \in Rows : j # k => own'[j] = own[j]
      /\ k \in Rows => own'[k].status = "verified" /\ own'[k].share = q.share
  <2>1. own' = [own EXCEPT ![k].status = "verified", ![k].share = q.share]
    BY <1>0, <1>1 DEF O!ApproveCommit
  <2>2. QED
    BY <1>2, <2>1 DEF Deed
<1>4. /\ \A j \in Rows : checked'[j] = O!But(IF j = k THEN q.weighed ELSE checked[j], k)
      /\ \A d \in Calls : /\ ocall'[d].weighed = O!But(ocall[d].weighed, k)
                          /\ d # c => ocall'[d].at = ocall[d].at
                          /\ ocall'[d].share = ocall[d].share
      /\ ocall'[c].at = "flagging"
  <2>1. \A j \in Rows : checked'[j] = O!But(IF j = k THEN q.weighed ELSE checked[j], k)
    BY <1>0, <1>1 DEF O!ApproveCommit
  <2>2. ASSUME NEW d \in Calls
        PROVE  /\ ocall'[d].weighed = O!But(ocall[d].weighed, k)
               /\ ocall'[d].at = IF d = c THEN "flagging" ELSE ocall[d].at
               /\ ocall'[d].share = ocall[d].share
    <3>1. PICK r \in Clerk : r = ocall[d]
      BY DEF UnitInvariant
    <3>2. ocall'[d] = [r EXCEPT !.at = IF d = c THEN "flagging" ELSE @,
                                !.weighed = O!But(@, k)]
      BY <1>0, <1>1, <3>1 DEF O!ApproveCommit
    <3>3. QED
      BY <3>1, <3>2 DEF Clerk
  <2>3. QED
    BY <2>1, <2>2
<1>5. ASSUME NEW found, Current(found) PROVE Current(O!But(found, k))'
  <2>1. SUFFICES ASSUME NEW r \in O!But(found, k)
                 PROVE  \E j \in Rows : /\ own'[j].status \in {"verified", "deleted"}
                                        /\ r = [id |-> j, share |-> own'[j].share]
    BY DEF Current, Recorded
  <2>2. r \in found /\ r.id # k
    BY DEF O!But
  <2>3. PICK j \in Rows : /\ own[j].status \in {"verified", "deleted"}
                          /\ r = [id |-> j, share |-> own[j].share]
    BY <1>5, <2>2 DEF Current, Recorded
  <2>4. QED
    BY <1>3, <2>2, <2>3
<1>6. ASSUME NEW j \in Rows PROVE Current(checked[j])'
  <2>1. PICK found : found = IF j = k THEN q.weighed ELSE checked[j]
    OBVIOUS
  <2>2. Current(found)
    BY <1>0, <2>1 DEF WeightInvariant
  <2>3. checked'[j] = O!But(found, k)
    BY <1>4, <2>1
  <2>4. QED
    BY <1>5, <2>2, <2>3 DEF Current
<1>7. ASSUME NEW d \in Calls PROVE Current(ocall[d].weighed)'
  <2>1. PICK found : found = ocall[d].weighed
    OBVIOUS
  <2>2. Current(found)
    BY <2>1 DEF WeightInvariant
  <2>3. ocall'[d].weighed = O!But(found, k)
    BY <1>4, <2>1
  <2>4. QED
    BY <1>5, <2>2, <2>3 DEF Current
<1>8. ASSUME NEW d \in Calls, ocall'[d].at = "approving"
      PROVE  O!Total(ocall'[d].weighed) + ocall'[d].share <= 100
  <2>1. d # c /\ ocall[d].at = "approving" /\ ocall'[d].share = ocall[d].share
    BY <1>4, <1>8
  <2>2. PICK found, some : found = ocall[d].weighed /\ some = O!But(found, k)
    OBVIOUS
  <2>3. /\ Current(found) /\ O!Total(found) + ocall[d].share <= 100
        /\ ocall'[d].weighed = some /\ some \in SUBSET found
    BY <1>4, <2>1, <2>2 DEF WeightInvariant, O!But
  <2>4. /\ Weighable(found) /\ Weighable(some) /\ O!Total(some) <= O!Total(found)
    BY <2>3, CurrentIsWeighable, TotalOfFewer
  <2>5. O!Total(some) \in Nat /\ O!Total(found) \in Nat
    BY <2>4, TotalIsNat
  <2>6. ocall[d].share \in Nat
    BY SharesAreNat DEF UnitInvariant, Clerk
  <2>7. QED
    BY <2>1, <2>3, <2>4, <2>5, <2>6
<1>9. ASSUME NEW S \in SUBSET {j \in Rows : O!Verified(j)'}, Paired(S)'
      PROVE  O!Total({Recorded(j)' : j \in S}) <= 100
  <2>1. \A j \in S, i \in S : j # i =>
          (\E r \in checked'[j] : r.id = i) \/ (\E r \in checked'[i] : r.id = j)
    BY <1>9 DEF Paired, O!Weighed
  <2>2. CASE k \notin S
    <3>1. \A j \in S : j # k /\ j \in Rows /\ own'[j] = own[j] /\ O!Verified(j)
      BY <1>3, <2>2 DEF O!Verified
    <3>2. \A j \in S : checked'[j] \subseteq checked[j]
      BY <1>4, <3>1 DEF O!But
    <3>3. Paired(S)
      BY <2>1, <3>2 DEF Paired, O!Weighed
    <3>4. {Recorded(j)' : j \in S} = {Recorded(j) : j \in S}
      BY <3>1 DEF Recorded
    <3>5. S \in SUBSET {j \in Rows : O!Verified(j)}
      BY <3>1
    <3>6. QED
      BY <3>3, <3>4, <3>5 DEF WeightInvariant
  <2>3. CASE k \in S
    <3>1. k \in Rows /\ checked'[k] = O!But(q.weighed, k)
      BY <1>4, <2>3
    <3>2. \A j \in S : \A r \in checked'[j] : r.id # k
      BY <1>4 DEF O!But
    <3>3. \A j \in S \ {k} : \E r \in checked'[k] : r.id = j
      BY <2>1, <2>3, <3>2
    <3>4. PICK found : found = {Recorded(j)' : j \in S}
      OBVIOUS
    <3>5. PICK r : r = Recorded(k)'
      OBVIOUS
    <3>6. r \in found /\ r.share = q.share /\ r.id = k
      BY <1>3, <2>3, <3>1, <3>4, <3>5 DEF Recorded
    <3>7. found \ {r} \in SUBSET q.weighed
      <4>1. ASSUME NEW s \in found \ {r} PROVE s \in checked'[k]
        <5>1. PICK j \in S : s = Recorded(j)' /\ j # k
          BY <3>4, <3>5, <4>1
        <5>2. PICK w \in checked'[k] : w.id = j
          BY <3>3, <5>1
        <5>3. PICK i \in Rows : w = Recorded(i)'
          BY <1>6, <3>1, <5>2 DEF Current
        <5>4. i = j
          BY <5>2, <5>3 DEF Recorded
        <5>5. QED
          BY <5>1, <5>2, <5>3, <5>4
      <4>2. checked'[k] \subseteq q.weighed
        BY <3>1 DEF O!But
      <4>3. QED
        BY <4>1, <4>2
    <3>8. /\ Weighable(q.weighed) /\ O!Total(q.weighed) + q.share <= 100
      BY <1>0, CurrentIsWeighable DEF WeightInvariant
    <3>9. Weighable(found)
      <4>1. \A j \in S : own'[j].share \in Nat
        BY SharesAreNat DEF UnitInvariant, Deed
      <4>2. found \in SUBSET [id : Rows, share : Nat]
        BY <3>4, <4>1 DEF Recorded
      <4>3. IsFiniteSet(found \ {r})
        BY <3>7, <3>8, FS_Subset DEF Weighable
      <4>4. found = (found \ {r}) \cup {r}
        BY <3>6
      <4>5. IsFiniteSet(found)
        BY <4>3, <4>4, FS_AddElement
      <4>6. QED
        BY <4>2, <4>5 DEF Weighable
    <3>10. O!Total(found) = O!Total(found \ {r}) + q.share
      BY <3>6, <3>9, TotalOfRest
    <3>11. Weighable(found \ {r}) /\ O!Total(found \ {r}) <= O!Total(q.weighed)
      BY <3>7, <3>8, TotalOfFewer
    <3>12. O!Total(found \ {r}) \in Nat /\ O!Total(q.weighed) \in Nat
      BY <3>8, <3>11, TotalIsNat
    <3>13. O!Total(found) <= 100
      BY <1>2, <3>8, <3>10, <3>11, <3>12
    <3>14. QED
      BY <3>4, <3>13
  <2>4. QED
    BY <2>2, <2>3
<1>10. QED
  BY <1>6, <1>7, <1>8, <1>9 DEF WeightInvariant

LEMMA WeightInvariantNext ==
  ASSUME O!OwnershipAssumption, UnitInvariant, WeightInvariant, [O!Next]_unitVars
  PROVE  WeightInvariant'
<1>1. UnitInvariant'
  BY UnitInvariantNext
<1>2. CASE \E c \in Calls : O!ApproveCommit(c)
  BY <1>1, <1>2, ConfirmedFits
<1>3. CASE \A c \in Calls : ~O!ApproveCommit(c)
  <2>1. /\ checked' = checked
        /\ \A k \in Rows :
             /\ own[k].status \in {"verified", "deleted"} =>
                  own'[k].status \in {"verified", "deleted"} /\ own'[k].share = own[k].share
             /\ O!Verified(k)' => O!Verified(k)
    BY <1>3, RowsStay
  <2>2. ASSUME NEW found, Current(found) PROVE Current(found)'
    BY <2>1, <2>2 DEF Current, Recorded
  <2>3. ASSUME NEW d \in Calls
        PROVE  /\ Current(ocall[d].weighed)'
               /\ ocall'[d].at = "approving" =>
                    O!Total(ocall'[d].weighed) + ocall'[d].share <= 100
    <3>1. CASE ocall'[d] = ocall[d]
      <4>1. PICK found : found = ocall[d].weighed
        OBVIOUS
      <4>2. Current(found)'
        BY <2>2, <4>1 DEF WeightInvariant
      <4>3. QED
        BY <3>1, <4>1, <4>2 DEF WeightInvariant, Current
    <3>2. CASE ocall'[d].at # "approving" /\ ocall'[d].weighed \in {{}, ocall[d].weighed}
      <4>1. PICK found : found = ocall'[d].weighed
        OBVIOUS
      <4>2. Current(found)
        BY <3>2, <4>1 DEF WeightInvariant, Current
      <4>3. QED
        BY <2>2, <3>2, <4>1, <4>2 DEF Current
    <3>3. CASE O!ApproveCheck(d)
      <4>1. PICK others :
              /\ others = {r \in O!Confirmed(ocall[d].unit) : r.id # ocall[d].row}
              /\ O!Total(others) + ocall[d].share <= 100
              /\ ocall' = [ocall EXCEPT ![d].at = "approving", ![d].weighed = others]
        BY <3>3 DEF O!ApproveCheck, O!Fits
      <4>2. Current(others)
        BY <4>1 DEF Current, Recorded, O!Confirmed, O!Verified
      <4>3. PICK q \in Clerk : q = ocall[d]
        BY DEF UnitInvariant
      <4>4. ocall'[d].weighed = others /\ ocall'[d].share = q.share
        BY <4>1, <4>3 DEF UnitInvariant, Clerk
      <4>5. QED
        BY <2>2, <4>1, <4>2, <4>3, <4>4 DEF Current
    <3>4. QED
      BY <1>3, <3>1, <3>2, <3>3, HandlersWeigh
  <2>4. ASSUME NEW S \in SUBSET {j \in Rows : O!Verified(j)'}, Paired(S)'
        PROVE  O!Total({Recorded(j)' : j \in S}) <= 100
    <3>1. \A j \in S : j \in Rows /\ O!Verified(j) /\ own'[j].share = own[j].share
      BY <2>1 DEF O!Verified
    <3>2. Paired(S) /\ S \in SUBSET {j \in Rows : O!Verified(j)}
      BY <2>1, <2>4, <3>1 DEF Paired, O!Weighed
    <3>3. {Recorded(j)' : j \in S} = {Recorded(j) : j \in S}
      BY <3>1 DEF Recorded
    <3>4. QED
      BY <3>2, <3>3 DEF WeightInvariant
  <2>5. ASSUME NEW j \in Rows PROVE Current(checked[j])'
    <3>1. PICK found : found = checked[j]
      OBVIOUS
    <3>2. Current(found)'
      BY <2>2, <3>1 DEF WeightInvariant
    <3>3. QED
      BY <2>1, <3>1, <3>2 DEF Current
  <2>6. QED
    BY <2>3, <2>4, <2>5 DEF WeightInvariant
<1>4. QED
  BY <1>2, <1>3

\* For any number of units, residents and handlers, and any shares: the confirmed
\* shares of a unit exceed the whole only when two of them were confirmed without
\* either check having seen the other as it was confirmed last
\* (properties.service.ts:514-531).
THEOREM OverfullIsARace == RecordsAssumption => (Spec => []OverfullOnlyByRace)
<1> SUFFICES ASSUME RecordsAssumption PROVE Spec => []OverfullOnlyByRace
  OBVIOUS
<1>1. O!OwnershipAssumption
  BY DEF RecordsAssumption
<1>2. Init => WeightInvariant
  <2> SUFFICES ASSUME Init PROVE WeightInvariant
    OBVIOUS
  <2>1. /\ \A k \in Rows : checked[k] = {} /\ own[k].status = "unborn"
        /\ \A c \in Calls : ocall[c].weighed = {} /\ ocall[c].at = "idle"
    BY DEF Init, O!Init, O!Idle, O!NoRow
  <2>2. ASSUME NEW S \in SUBSET {k \in Rows : O!Verified(k)}
        PROVE  O!Total({Recorded(k) : k \in S}) <= 100
    <3>1. {Recorded(k) : k \in S} = {}
      BY <2>1 DEF O!Verified
    <3>2. O!Total({}) = 0
      <4>1. [r \in {} |-> r.share] \in [{} -> Nat]
        OBVIOUS
      <4>2. QED
        BY <4>1, SumOfNone, SameSum DEF O!Total
    <3>3. QED
      BY <3>1, <3>2
  <2>3. QED
    BY <2>1, <2>2 DEF WeightInvariant, Current
<1>3. UnitInvariant /\ WeightInvariant /\ [Next]_vars => WeightInvariant'
  BY <1>1, WeightInvariantNext, OneRecordSteps
<1>4. UnitInvariant /\ WeightInvariant => OverfullOnlyByRace
  <2> SUFFICES ASSUME UnitInvariant, WeightInvariant, NEW u \in Units,
                      O!Total(O!Confirmed(u)) > 100
               PROVE  \E k, j \in {i \in Rows : O!Verified(i) /\ own[i].unit = u} :
                          k # j /\ ~O!Weighed(k, j) /\ ~O!Weighed(j, k)
    BY DEF OverfullOnlyByRace, O!OverfullOnlyByRace
  <2>1. PICK S : S = {i \in Rows : O!Verified(i) /\ own[i].unit = u}
    OBVIOUS
  <2>2. O!Confirmed(u) = {Recorded(k) : k \in S}
    BY <2>1 DEF O!Confirmed, Recorded
  <2>3. S \in SUBSET {k \in Rows : O!Verified(k)} /\ S \in SUBSET Rows
    BY <2>1
  <2>4. O!Total({Recorded(k) : k \in S}) \in Nat
    <3>1. Weighable({Recorded(k) : k \in S})
      BY <1>1, <2>3, RecordsAreWeighable
    <3>2. QED
      BY <3>1, TotalIsNat
  <2>5. ~Paired(S)
    BY <2>2, <2>3, <2>4 DEF WeightInvariant
  <2>6. QED
    BY <2>1, <2>5 DEF Paired
<1>5. QED
  BY <1>2, <1>3, <1>4, UnitsHold, PTL DEF Spec

-----------------------------------------------------------------------------
(* A conversation.  Nothing is dated ahead of the messages there are.      *)

Handler ==
    [at : {"idle", "creating", "sending", "reopening", "opening", "listing",
           "acknowledging", "resolving"},
     stamp : 0 .. C!Now]

\* A handler that is to reopen the conversation has sent a message.
Numbered == \A c \in Calls : ccall[c].at = "reopening" => ccall[c].stamp # 0

\* The smaller and the larger of two numbers.
LEMMA MinOfTwo ==
  ASSUME NEW m \in Nat, NEW n \in Nat
  PROVE  C!Min({m, n}) = IF m <= n THEN m ELSE n
BY DEF C!Min

LEMMA MaxOfTwo ==
  ASSUME NEW m \in Nat, NEW n \in Nat
  PROVE  C!Max({m, n}) = IF m >= n THEN m ELSE n
BY SMTT(60) DEF C!Max

-----------------------------------------------------------------------------
\* The messages only grow, and by those the handlers send.
LEMMA MessagesGrow ==
  ASSUME C!ConversationAssumption, C!TypeOK, [C!Next]_chatVars
  PROVE  /\ C!Now' \in C!Times /\ C!Now \in Nat /\ C!Now' \in Nat /\ C!Now <= C!Now'
         /\ messages' \in Seq({"resident", "staff"})
         /\ \A i \in 1 .. C!Now : messages'[i] = messages[i]
<1>0. messages \in Seq({"resident", "staff"}) /\ C!Now \in C!Times
  BY DEF C!TypeOK
<1>1. ASSUME NEW c \in Calls, C!InsertFromResident(c) \/ C!InsertFromStaff(c)
      PROVE  /\ C!Now' \in C!Times /\ C!Now \in Nat /\ C!Now' \in Nat /\ C!Now <= C!Now'
             /\ messages' \in Seq({"resident", "staff"})
             /\ \A i \in 1 .. C!Now : messages'[i] = messages[i]
  <2>1. PICK who \in {"resident", "staff"} :
          C!Now < MaxMessages /\ messages' = Append(messages, who)
    BY <1>1 DEF C!InsertFromResident, C!InsertFromStaff
  <2>2. C!Now \in Nat /\ C!Now' = C!Now + 1 /\ C!Now' \in C!Times
    BY <1>0, <2>1 DEF C!Now, C!Times, C!ConversationAssumption
  <2>3. \A i \in 1 .. C!Now : messages'[i] = messages[i]
    BY <1>0, <2>1 DEF C!Now
  <2>4. messages' \in Seq({"resident", "staff"})
    BY <1>0, <2>1
  <2>5. QED
    BY <2>2, <2>3, <2>4
<1>2. ASSUME UNCHANGED messages
      PROVE  /\ C!Now' \in C!Times /\ C!Now \in Nat /\ C!Now' \in Nat /\ C!Now <= C!Now'
             /\ messages' \in Seq({"resident", "staff"})
             /\ \A i \in 1 .. C!Now : messages'[i] = messages[i]
  BY <1>0, <1>2 DEF C!Now, C!Times
<1>3. QED
  BY <1>1, <1>2
  DEF C!Next, chatVars, C!Send, C!Answer, C!SendRead, C!Create, C!Reopen, C!MarkRead, C!List,
      C!OpenRead, C!Acknowledge, C!ResolveRead, C!ResolveCommit, C!Abandon

\* A handler moves on to a stamp that is not ahead.
LEMMA GoTyped ==
  ASSUME C!ConversationAssumption, C!TypeOK, [C!Next]_chatVars,
         NEW c \in Calls, NEW at, NEW stamp, C!Go(c, at, stamp),
         at \in {"idle", "creating", "sending", "reopening", "opening",
                 "listing", "acknowledging", "resolving"},
         stamp \in 0 .. C!Now'
  PROVE  ccall' \in [Calls -> Handler']
<1>1. ccall \in [Calls -> Handler] /\ C!Now \in Nat /\ C!Now' \in Nat /\ C!Now <= C!Now'
  BY MessagesGrow DEF C!TypeOK, Handler
<1>2. \A d \in Calls : ccall[d] \in Handler'
  BY <1>1 DEF Handler
<1>3. [at |-> at, stamp |-> stamp] \in Handler'
  BY DEF Handler
<1>4. QED
  BY <1>1, <1>2, <1>3 DEF C!Go

LEMMA TypeOKNext ==
  ASSUME C!ConversationAssumption, C!TypeOK, Numbered, [C!Next]_chatVars
  PROVE  C!TypeOK'
<1> DEFINE Row == [exists : BOOLEAN, resolved : BOOLEAN,
                   resolvedAt : 0 .. C!Now, staffRead : 0 .. C!Now]
<1>0. /\ C!Now \in Nat /\ C!Now' \in Nat /\ C!Now <= C!Now'
      /\ messages' \in Seq({"resident", "staff"}) /\ C!Now' \in C!Times
      /\ conv \in Row /\ shown \subseteq 1 .. C!Now
      /\ excused \in 0 .. C!Now /\ orphans \subseteq 1 .. C!Now
      /\ crossed \subseteq 1 .. C!Now
      /\ ccall \in [Calls -> Handler]
      /\ Window \in Nat \ {0}
  BY MessagesGrow DEF C!TypeOK, Handler, C!ConversationAssumption
<1>r. conv \in Row'
  BY <1>0
<1>s. /\ shown \subseteq 1 .. C!Now' /\ excused \in 0 .. C!Now'
      /\ orphans \subseteq 1 .. C!Now' /\ crossed \subseteq 1 .. C!Now'
  BY <1>0
<1>1. ASSUME NEW c \in Calls, C!SendRead(c) PROVE C!TypeOK'
  <2>1. ccall' \in [Calls -> Handler']
    BY <1>0, <1>1, GoTyped DEF C!SendRead
  <2>2. QED
    BY <1>0, <1>1, <1>r, <1>s, <2>1 DEF C!SendRead, C!TypeOK, Handler
<1>2. ASSUME NEW c \in Calls, C!Create(c) PROVE C!TypeOK'
  <2>1. ccall' \in [Calls -> Handler']
    BY <1>0, <1>2, GoTyped DEF C!Create
  <2>2. QED
    BY <1>0, <1>2, <1>r, <1>s, <2>1 DEF C!Create, C!TypeOK, Handler
<1>3. ASSUME NEW c \in Calls, C!InsertFromResident(c) \/ C!InsertFromStaff(c) PROVE C!TypeOK'
  <2>1. C!Now + 1 \in 0 .. C!Now'
    BY <1>0, <1>3 DEF C!InsertFromResident, C!InsertFromStaff, C!Now
  <2>2. ccall' \in [Calls -> Handler']
    BY <1>0, <1>3, <2>1, GoTyped DEF C!InsertFromResident, C!InsertFromStaff
  <2>3. QED
    BY <1>0, <1>3, <1>r, <1>s, <2>2
    DEF C!InsertFromResident, C!InsertFromStaff, C!TypeOK, Handler
<1>4. ASSUME NEW c \in Calls, C!Reopen(c) PROVE C!TypeOK'
  <2>1. ccall' \in [Calls -> Handler']
    BY <1>0, <1>4, GoTyped DEF C!Reopen
  <2>2. conv' \in Row'
    <3>1. PICK r \in Row' : r = conv
      BY <1>r
    <3>2. conv' = [r EXCEPT !.resolved = FALSE, !.resolvedAt = 0]
      BY <1>4, <3>1 DEF C!Reopen, C!Reopened
    <3>3. 0 \in 0 .. C!Now'
      BY <1>0
    <3>4. QED
      BY <3>1, <3>2, <3>3
  <2>3. crossed' \subseteq 1 .. C!Now'
    <3>1. C!Now' = C!Now
      BY <1>4 DEF C!Reopen, C!Now
    <3>2. ccall[c].stamp \in 1 .. C!Now
      BY <1>0, <1>4 DEF C!Reopen, Numbered, Handler
    <3>3. crossed' \subseteq crossed \cup {ccall[c].stamp}
      BY <1>4 DEF C!Reopen
    <3>4. QED
      BY <1>s, <3>1, <3>2, <3>3
  <2>4. QED
    BY <1>0, <1>4, <1>s, <2>1, <2>2, <2>3 DEF C!Reopen, C!TypeOK, Handler
<1>5. ASSUME NEW c \in Calls, C!MarkRead(c) PROVE C!TypeOK'
  <2>0. C!Now' = C!Now
    BY <1>5 DEF C!MarkRead, C!Now
  <2>s. ccall[c].stamp \in 0 .. C!Now'
    BY <1>0, <2>0 DEF Handler
  <2>1. ccall' \in [Calls -> Handler']
    BY <1>0, <1>5, <2>s, GoTyped DEF C!MarkRead
  <2>2. conv' \in Row'
    <3>1. PICK t \in 0 .. C!Now' : t = ccall[c].stamp
      BY <2>s
    <3>2. conv' = [conv EXCEPT !.staffRead = t]
      BY <1>5, <3>1 DEF C!MarkRead
    <3>3. QED
      BY <1>r, <3>2
  <2>3. QED
    BY <1>0, <1>5, <1>s, <2>1, <2>2 DEF C!MarkRead, C!TypeOK, Handler
<1>6. ASSUME NEW c \in Calls, C!List(c) PROVE C!TypeOK'
  <2>1. ccall' \in [Calls -> Handler']
    BY <1>0, <1>6, GoTyped DEF C!List
  <2>2. C!Min({C!Now, Window}) \in Nat /\ C!Min({C!Now, Window}) <= C!Now
    BY <1>0, MinOfTwo
  <2>3. shown' \subseteq 1 .. C!Now'
    <3>1. C!Now' = C!Now
      BY <1>6 DEF C!List, C!Now
    <3>2. C!Listed(c) \subseteq 1 .. C!Now
      BY <1>0, <2>2 DEF C!Listed
    <3>3. QED
      BY <1>6, <1>s, <3>1, <3>2 DEF C!List
  <2>4. QED
    BY <1>0, <1>6, <1>r, <1>s, <2>1, <2>3 DEF C!List, C!TypeOK, Handler
<1>7. ASSUME NEW c \in Calls, C!Acknowledge(c) PROVE C!TypeOK'
  <2>1. ccall' \in [Calls -> Handler']
    BY <1>0, <1>7, GoTyped DEF C!Acknowledge
  <2>2. PICK t \in 0 .. C!Now' : excused' = t
    <3>1. C!Now' = C!Now
      BY <1>7 DEF C!Acknowledge, C!Now
    <3>2. ccall[c].stamp \in 0 .. C!Now
      BY <1>0 DEF Handler
    <3>3. QED
      BY <1>0, <1>7, <3>1, <3>2 DEF C!Acknowledge
  <2>3. conv' \in Row'
    <3>1. conv' = [conv EXCEPT !.staffRead = t]
      BY <1>7, <2>2 DEF C!Acknowledge
    <3>2. QED
      BY <1>r, <3>1
  <2>4. QED
    BY <1>0, <1>7, <1>s, <2>1, <2>2, <2>3 DEF C!Acknowledge, C!TypeOK, Handler
<1>8. ASSUME NEW c \in Calls, C!ResolveRead(c) \/ C!OpenRead(c) PROVE C!TypeOK'
  <2>0. C!Now \in 0 .. C!Now'
    BY <1>0
  <2>1. ccall' \in [Calls -> Handler']
    BY <1>0, <1>8, <2>0, GoTyped DEF C!ResolveRead, C!OpenRead
  <2>2. QED
    BY <1>0, <1>8, <1>r, <1>s, <2>1 DEF C!ResolveRead, C!OpenRead, C!TypeOK, Handler
<1>9. ASSUME NEW c \in Calls, C!ResolveCommit(c) PROVE C!TypeOK'
  <2>1. ccall' \in [Calls -> Handler']
    BY <1>0, <1>9, GoTyped DEF C!ResolveCommit
  <2>2. conv' \in Row'
    <3>1. PICK r \in Row' : r = conv
      BY <1>r
    <3>2. PICK t \in 0 .. C!Now' : t = ccall[c].stamp
      BY <1>0 DEF Handler
    <3>3. conv' = [r EXCEPT !.resolved = TRUE, !.resolvedAt = t]
      BY <1>9, <3>1, <3>2 DEF C!ResolveCommit
    <3>4. QED
      BY <3>1, <3>2, <3>3
  <2>3. QED
    BY <1>0, <1>9, <1>s, <2>1, <2>2 DEF C!ResolveCommit, C!TypeOK, Handler
<1>10. ASSUME NEW c \in Calls, C!Abandon(c) PROVE C!TypeOK'
  <2>1. ccall' \in [Calls -> Handler']
    BY <1>0, <1>10, GoTyped DEF C!Abandon
  <2>2. C!Now' = C!Now
    BY <1>10 DEF C!Abandon, C!Now
  <2>3. ccall[c].stamp \in 0 .. C!Now
    BY <1>0 DEF Handler
  <2>4. excused' \in 0 .. C!Now'
    <3>1. C!Max({excused, ccall[c].stamp}) \in 0 .. C!Now
      BY <1>0, <2>3, MaxOfTwo, SMTT(60)
    <3>2. QED
      BY <1>10, <1>s, <2>2, <3>1 DEF C!Abandon
  <2>5. orphans' \subseteq 1 .. C!Now'
    <3>1. ccall[c].at = "reopening" => ccall[c].stamp \in 1 .. C!Now
      BY <2>3 DEF Numbered
    <3>2. QED
      BY <1>0, <1>10, <1>s, <2>2, <3>1 DEF C!Abandon
  <2>6. QED
    BY <1>0, <1>10, <1>r, <1>s, <2>1, <2>4, <2>5 DEF C!Abandon, C!TypeOK, Handler
<1>11. CASE UNCHANGED chatVars
  BY <1>11, SMTT(60) DEF chatVars, C!TypeOK, C!Now
<1>12. QED
  BY <1>1, <1>2, <1>3, <1>4, <1>5, <1>6, <1>7, <1>8, <1>9, <1>10, <1>11
  DEF C!Next, C!Send, C!Answer

LEMMA NumberedNext ==
  ASSUME C!TypeOK, Numbered, [C!Next]_chatVars
  PROVE  Numbered'
<1>0. ccall \in [Calls -> Handler] /\ C!Now \in Nat
  BY DEF C!TypeOK, Handler, C!Now
<1>1. ASSUME NEW c \in Calls, NEW at, NEW stamp, C!Go(c, at, stamp),
             at = "reopening" => stamp # 0
      PROVE  Numbered'
  BY <1>0, <1>1 DEF C!Go, Numbered
<1>2. ASSUME NEW c \in Calls, C!InsertFromResident(c) PROVE Numbered'
  BY <1>0, <1>1, <1>2 DEF C!InsertFromResident
<1>3. ASSUME NEW c \in Calls, C!SendRead(c) PROVE Numbered'
  BY <1>1, <1>3 DEF C!SendRead
<1>4. CASE UNCHANGED chatVars
  BY <1>4 DEF chatVars, Numbered
<1>5. QED
  BY <1>1, <1>2, <1>3, <1>4
  DEF C!Next, C!Send, C!Answer, C!Create, C!Reopen, C!MarkRead, C!List, C!InsertFromStaff,
      C!OpenRead, C!Acknowledge, C!ResolveRead, C!ResolveCommit, C!Abandon

\* A step of the records is one of the conversation, or leaves it alone.
LEMMA ChatSteps == [Next]_vars => [C!Next]_chatVars
BY DEF Next, vars

LEMMA ConversationTypes == RecordsAssumption => (Spec => [](C!TypeOK /\ Numbered))
<1> SUFFICES ASSUME RecordsAssumption PROVE Spec => [](C!TypeOK /\ Numbered)
  OBVIOUS
<1>0. C!ConversationAssumption
  BY DEF RecordsAssumption
<1>1. Init => C!TypeOK /\ Numbered
  <2> SUFFICES ASSUME Init PROVE C!TypeOK /\ Numbered
    OBVIOUS
  <2>1. messages \in Seq({"resident", "staff"}) /\ C!Now = 0
    BY DEF Init, C!Init, C!Now
  <2>2. QED
    BY <1>0, <2>1 DEF Init, C!Init, C!TypeOK, Numbered, C!Idle, C!Times, C!ConversationAssumption
<1>2. C!TypeOK /\ Numbered /\ [Next]_vars => (C!TypeOK /\ Numbered)'
  BY <1>0, TypeOKNext, NumberedNext, ChatSteps
<1>3. QED
  BY <1>1, <1>2, PTL DEF Spec

\* Nothing in a conversation is dated or marked ahead of its messages, whatever
\* the handlers in flight (chat.service.ts:249-302, 424-597).
THEOREM ConversationTyped == RecordsAssumption => (Spec => []C!TypeOK)
<1>1. C!TypeOK /\ Numbered => C!TypeOK
  OBVIOUS
<1>2. QED
  BY <1>1, ConversationTypes, PTL

-----------------------------------------------------------------------------
(* What a resolution hides.  The invariant says of every resolution on its *)
(* way what the property says of the one stored.                           *)

Safe(i) == i \in orphans \/ C!Pending(i) \/ i \in crossed

\* A conversation resolved at moment n would hide no message without excuse.
Covered(n) == \A i \in n + 1 .. C!Now : messages[i] = "resident" => Safe(i)

OnTheirWay ==
    \A d \in Calls : ccall[d].at = "resolving" => Covered(ccall[d].stamp)

\* What a handler becomes, and that the others stay.
LEMMA GoOne ==
  ASSUME C!TypeOK, NEW c \in Calls, NEW at, NEW stamp, C!Go(c, at, stamp)
  PROVE  /\ ccall'[c].at = at /\ ccall'[c].stamp = stamp
         /\ \A d \in Calls \ {c} : ccall'[d] = ccall[d]
BY DEF C!Go, C!TypeOK

\* A message keeps its excuse, but for the one its handler reopens: that needs
\* a resolution on its way.
LEMMA SafeStays ==
  ASSUME C!TypeOK, [C!Next]_chatVars, NEW i, Safe(i),
         \A c \in Calls : C!Reopen(c) => C!OlderResolution(i)
  PROVE  Safe(i)'
<1>1. orphans \subseteq orphans' /\ crossed \subseteq crossed'
  BY DEF C!Next, chatVars, C!Send, C!Answer, C!SendRead, C!Create, C!InsertFromResident,
         C!Reopen, C!OpenRead, C!MarkRead, C!List, C!InsertFromStaff, C!Acknowledge,
         C!ResolveRead, C!ResolveCommit, C!Abandon
<1>2. SUFFICES ASSUME NEW p \in Calls, ccall[p].at = "reopening", ccall[p].stamp = i
               PROVE  Safe(i)'
  BY <1>1 DEF Safe, C!Pending
<1>3. CASE C!Reopen(p)
  BY <1>2, <1>3 DEF C!Reopen, Safe
<1>4. CASE C!Abandon(p)
  BY <1>2, <1>4 DEF C!Abandon, Safe
<1>5. CASE ccall'[p] = ccall[p]
  BY <1>2, <1>5 DEF Safe, C!Pending
<1>6. ASSUME NEW c \in Calls,
             C!Send(c) \/ C!Answer(c) \/ C!ResolveRead(c) \/ C!ResolveCommit(c) \/ C!Abandon(c)
      PROVE  C!Reopen(p) \/ C!Abandon(p) \/ ccall'[p] = ccall[p]
  <2>1. PICK at, stamp : C!Go(c, at, stamp)
    BY <1>6
    DEF C!Send, C!Answer, C!SendRead, C!Create, C!InsertFromResident, C!Reopen,
        C!OpenRead, C!MarkRead, C!List, C!InsertFromStaff, C!Acknowledge,
        C!ResolveRead, C!ResolveCommit, C!Abandon
  <2>2. CASE c # p
    BY <2>1, <2>2, GoOne
  <2>3. CASE c = p
    BY <1>2, <1>6, <2>3
    DEF C!Send, C!Answer, C!SendRead, C!Create, C!InsertFromResident,
        C!OpenRead, C!MarkRead, C!List, C!InsertFromStaff, C!Acknowledge,
        C!OpenRead, C!ResolveRead, C!ResolveCommit
  <2>4. QED
    BY <2>2, <2>3
<1>7. CASE UNCHANGED chatVars
  BY <1>5, <1>7 DEF chatVars
<1>8. QED
  BY <1>3, <1>4, <1>5, <1>6, <1>7 DEF C!Next

\* What a resolution at moment n would not hide, it will not hide later.
LEMMA CoveredStays ==
  ASSUME C!ConversationAssumption, C!TypeOK, [C!Next]_chatVars,
         NEW n \in Nat, Covered(n),
         \A c \in Calls : C!Reopen(c) =>
             \E d \in Calls : ccall[d].at = "resolving" /\ ccall[d].stamp = n
  PROVE  Covered(n)'
<1> SUFFICES ASSUME NEW i \in n + 1 .. C!Now', messages'[i] = "resident"
             PROVE  Safe(i)'
  BY DEF Covered
<1>0. /\ C!Now \in Nat /\ C!Now' \in Nat /\ C!Now <= C!Now'
      /\ \A j \in 1 .. C!Now : messages'[j] = messages[j]
  BY MessagesGrow
<1>1. CASE i <= C!Now
  <2>1. Safe(i)
    BY <1>0, <1>1 DEF Covered
  <2>2. \A c \in Calls : C!Reopen(c) => C!OlderResolution(i)
    BY DEF C!OlderResolution
  <2>3. QED
    BY <2>1, <2>2, SafeStays
<1>2. CASE i > C!Now
  <2>1. messages' # messages
    BY <1>0, <1>2 DEF C!Now
  <2>2. PICK c \in Calls : C!InsertFromResident(c) \/ C!InsertFromStaff(c)
    BY <2>1
    DEF C!Next, chatVars, C!Send, C!Answer, C!SendRead, C!Create, C!Reopen, C!OpenRead,
        C!MarkRead, C!List, C!Acknowledge, C!ResolveRead, C!ResolveCommit, C!Abandon
  <2>3. C!Now' = C!Now + 1 /\ i = C!Now + 1
    <3>1. C!Now' = C!Now + 1
      BY <2>2 DEF C!InsertFromResident, C!InsertFromStaff, C!TypeOK, C!Now
    <3>2. QED
      BY <1>0, <1>2, <3>1
  <2>4. CASE C!InsertFromStaff(c)
    <3>1. messages'[C!Now + 1] = "staff"
      BY <2>4 DEF C!InsertFromStaff, C!TypeOK, C!Now
    <3>2. QED
      BY <2>3, <3>1
  <2>5. CASE C!InsertFromResident(c)
    BY <2>3, <2>5, GoOne DEF C!InsertFromResident, Safe, C!Pending
  <2>6. QED
    BY <2>2, <2>4, <2>5
<1>3. QED
  BY <1>0, <1>1, <1>2

\* Every resolution on its way stays covered, and a new one begins so.
LEMMA OnTheirWayNext ==
  ASSUME C!ConversationAssumption, C!TypeOK, OnTheirWay, [C!Next]_chatVars
  PROVE  OnTheirWay'
<1> SUFFICES ASSUME NEW d \in Calls, ccall'[d].at = "resolving"
             PROVE  Covered(ccall[d].stamp)'
  BY DEF OnTheirWay
<1>0. ccall \in [Calls -> Handler] /\ C!Now \in Nat
  BY DEF C!TypeOK, Handler, C!Now
<1>1. CASE ccall'[d] = ccall[d]
  <2>1. PICK n \in Nat : n = ccall[d].stamp
    BY <1>0 DEF Handler
  <2>2. Covered(n)
    BY <1>1, <2>1 DEF OnTheirWay
  <2>3. Covered(n)'
    BY <1>1, <2>1, <2>2, CoveredStays
  <2>4. QED
    BY <1>1, <2>1, <2>3 DEF Covered
<1>2. CASE C!ResolveRead(d)
  <2>1. ccall'[d].stamp = C!Now /\ C!Now' = C!Now
    BY <1>2, GoOne DEF C!ResolveRead, C!Now
  <2>2. QED
    BY <1>0, <2>1 DEF Covered
<1>3. ASSUME NEW c \in Calls,
             C!Send(c) \/ C!Answer(c) \/ C!ResolveRead(c) \/ C!ResolveCommit(c) \/ C!Abandon(c)
      PROVE  ccall'[d] = ccall[d] \/ C!ResolveRead(d)
  <2>1. PICK at, stamp : C!Go(c, at, stamp) /\ (at = "resolving" => C!ResolveRead(c))
    BY <1>3
    DEF C!Send, C!Answer, C!SendRead, C!Create, C!InsertFromResident, C!Reopen,
        C!OpenRead, C!MarkRead, C!List, C!InsertFromStaff, C!Acknowledge,
        C!ResolveRead, C!ResolveCommit, C!Abandon
  <2>2. QED
    BY <2>1, GoOne
<1>4. CASE UNCHANGED chatVars
  BY <1>1, <1>4 DEF chatVars
<1>5. QED
  BY <1>1, <1>2, <1>3, <1>4 DEF C!Next

\* The resolution stored stays covered; the one that replaces it was on its way.
LEMMA HiddenNext ==
  ASSUME C!ConversationAssumption, C!TypeOK, OnTheirWay, C!NothingNewIsHidden,
         [C!Next]_chatVars
  PROVE  C!NothingNewIsHidden'
<1> SUFFICES ASSUME conv'.resolved PROVE Covered(conv.resolvedAt)'
  BY DEF C!NothingNewIsHidden, Covered, Safe
<1>0. /\ conv \in [exists : BOOLEAN, resolved : BOOLEAN,
                   resolvedAt : 0 .. C!Now, staffRead : 0 .. C!Now]
      /\ ccall \in [Calls -> Handler] /\ C!Now \in Nat
  BY DEF C!TypeOK, Handler, C!Now
<1>1. CASE conv'.resolved = conv.resolved /\ conv'.resolvedAt = conv.resolvedAt
           /\ \A c \in Calls : ~C!Reopen(c)
  <2>1. PICK n \in Nat : n = conv.resolvedAt
    BY <1>0
  <2>2. Covered(n)
    BY <1>1, <2>1 DEF C!NothingNewIsHidden, Covered, Safe
  <2>3. Covered(n)'
    BY <1>1, <2>1, <2>2, CoveredStays
  <2>4. QED
    BY <1>1, <2>1, <2>3 DEF Covered
<1>2. ASSUME NEW c \in Calls, C!Reopen(c) PROVE FALSE
  BY <1>0, <1>2 DEF C!Reopen, C!Reopened
<1>3. ASSUME NEW c \in Calls, C!ResolveCommit(c)
      PROVE  Covered(conv.resolvedAt)'
  <2>1. PICK n \in Nat : n = ccall[c].stamp
    BY <1>0 DEF Handler
  <2>2. Covered(n)
    BY <1>3, <2>1 DEF C!ResolveCommit, OnTheirWay
  <2>3. Covered(n)'
    BY <1>2, <2>2, CoveredStays
  <2>4. conv'.resolvedAt = n
    BY <1>0, <1>3, <2>1 DEF C!ResolveCommit
  <2>5. QED
    BY <2>3, <2>4 DEF Covered
\* The other steps leave the resolution alone.
<1>4. ASSUME NEW c \in Calls,
             \/ C!SendRead(c) \/ C!Create(c) \/ C!InsertFromResident(c)
             \/ C!Answer(c) \/ C!ResolveRead(c) \/ C!Abandon(c)
      PROVE  conv'.resolved = conv.resolved /\ conv'.resolvedAt = conv.resolvedAt
  BY <1>0, <1>4
  DEF C!SendRead, C!Create, C!InsertFromResident, C!Answer, C!OpenRead, C!MarkRead,
      C!List, C!InsertFromStaff, C!Acknowledge, C!ResolveRead, C!Abandon
<1>5. CASE UNCHANGED chatVars
  BY <1>1, <1>2, <1>5 DEF chatVars
<1>6. QED
  BY <1>1, <1>2, <1>3, <1>4, <1>5 DEF C!Next, C!Send

\* A resolution hides a message only if its handler died before reopening the
\* conversation, is still to do so, or did so while a resolution of an earlier
\* date was on its way (chat.service.ts:272-302, 572-597).
THEOREM NothingIsHidden == RecordsAssumption => (Spec => []NothingNewIsHidden)
<1> SUFFICES ASSUME RecordsAssumption PROVE Spec => []NothingNewIsHidden
  OBVIOUS
<1>0. C!ConversationAssumption
  BY DEF RecordsAssumption
<1>1. Init => OnTheirWay /\ NothingNewIsHidden
  BY DEF Init, C!Init, C!Idle, OnTheirWay, NothingNewIsHidden, C!NothingNewIsHidden
<1>2. C!TypeOK /\ Numbered /\ OnTheirWay /\ NothingNewIsHidden /\ [Next]_vars =>
          OnTheirWay' /\ NothingNewIsHidden'
  BY <1>0, OnTheirWayNext, HiddenNext, ChatSteps DEF NothingNewIsHidden
<1>3. QED
  BY <1>1, <1>2, ConversationTypes, PTL DEF Spec

-----------------------------------------------------------------------------
(* What is marked as read was shown.                                       *)

Excused(i) ==
    \/ i \in shown
    \/ i > Window
    \/ i <= excused
    \/ \E c \in Calls : ccall[c].at = "listing" /\ i <= ccall[c].stamp

LEMMA ShownNext ==
  ASSUME C!ConversationAssumption, C!TypeOK, C!ReadWasShown, [C!Next]_chatVars
  PROVE  C!ReadWasShown'
<1> SUFFICES ASSUME NEW i \in 1 .. conv'.staffRead PROVE Excused(i)'
  BY DEF C!ReadWasShown, Excused
<1>0. /\ C!Now \in Nat /\ Window \in Nat /\ excused \in Nat
      /\ conv \in [exists : BOOLEAN, resolved : BOOLEAN,
                   resolvedAt : 0 .. C!Now, staffRead : 0 .. C!Now]
      /\ ccall \in [Calls -> Handler]
  BY DEF C!TypeOK, Handler, C!ConversationAssumption, C!Now
<1>1. i \in 1 .. conv.staffRead => Excused(i)
  BY DEF C!ReadWasShown, Excused
<1>2. ASSUME NEW c \in Calls, C!MarkRead(c) PROVE Excused(i)'
  <2>1. ccall'[c].at = "listing" /\ ccall'[c].stamp = ccall[c].stamp
    BY <1>2, GoOne DEF C!MarkRead
  <2>2. conv'.staffRead = ccall[c].stamp /\ ccall[c].stamp \in Nat
    BY <1>0, <1>2 DEF C!MarkRead, Handler
  <2>3. QED
    BY <2>1, <2>2 DEF Excused
<1>3. ASSUME NEW c \in Calls, C!List(c) PROVE Excused(i)'
  <2>1. Excused(i) /\ conv' = conv /\ excused' = excused
    BY <1>1, <1>3 DEF C!List
  <2>2. i <= C!Now
    BY <1>0, <2>1
  <2>3. i \in C!Listed(c) \/ i > Window
    BY <1>0, <2>2, MinOfTwo DEF C!Listed
  <2>4. i \in shown' \/ i > Window
    BY <1>3, <2>3 DEF C!List
  <2>5. QED
    BY <2>4 DEF Excused
<1>4. ASSUME NEW c \in Calls, C!Acknowledge(c) PROVE Excused(i)'
  <2>1. conv'.staffRead = excused'
    BY <1>0, <1>4 DEF C!Acknowledge
  <2>2. QED
    BY <2>1 DEF Excused
<1>5. ASSUME NEW c \in Calls, C!Abandon(c) PROVE Excused(i)'
  <2>1. Excused(i) /\ shown' = shown
    BY <1>1, <1>5 DEF C!Abandon
  <2>2. ccall[c].stamp \in Nat
    BY <1>0 DEF Handler
  <2>3. excused <= excused' /\ excused' \in Nat
    BY <1>0, <1>5, <2>2, MaxOfTwo DEF C!Abandon
  <2>4. ccall[c].at = "listing" => ccall[c].stamp <= excused'
    BY <1>0, <1>5, <2>2, MaxOfTwo DEF C!Abandon
  <2>5. \A d \in Calls \ {c} : ccall'[d] = ccall[d]
    BY <1>5, GoOne DEF C!Abandon
  <2>6. CASE \E d \in Calls : ccall[d].at = "listing" /\ i <= ccall[d].stamp
    <3>1. PICK d \in Calls : ccall[d].at = "listing" /\ i <= ccall[d].stamp
      BY <2>6
    <3>2. CASE d = c
      BY <2>2, <2>3, <2>4, <3>1, <3>2 DEF Excused
    <3>3. CASE d # c
      BY <2>5, <3>1, <3>3 DEF Excused
    <3>4. QED
      BY <3>2, <3>3
  <2>7. CASE ~\E d \in Calls : ccall[d].at = "listing" /\ i <= ccall[d].stamp
    BY <1>0, <2>1, <2>3, <2>7 DEF Excused
  <2>8. QED
    BY <2>6, <2>7
\* The other steps mark nothing, and no handler that lists takes them.
<1>6. ASSUME NEW c \in Calls,
             \/ C!SendRead(c) \/ C!Create(c) \/ C!InsertFromResident(c) \/ C!Reopen(c)
             \/ C!OpenRead(c) \/ C!InsertFromStaff(c) \/ C!ResolveRead(c)
             \/ C!ResolveCommit(c)
      PROVE  Excused(i)'
  <2>1. conv'.staffRead = conv.staffRead
    BY <1>0, <1>6
    DEF C!SendRead, C!Create, C!InsertFromResident, C!Reopen, C!Reopened, C!InsertFromStaff,
        C!OpenRead, C!ResolveRead, C!ResolveCommit
  <2>2. UNCHANGED <<shown, excused>>
    BY <1>6
    DEF C!SendRead, C!Create, C!InsertFromResident, C!Reopen, C!InsertFromStaff,
        C!OpenRead, C!ResolveRead, C!ResolveCommit
  <2>3. PICK at, stamp : C!Go(c, at, stamp) /\ ccall[c].at # "listing"
    BY <1>6
    DEF C!SendRead, C!Create, C!InsertFromResident, C!Reopen, C!InsertFromStaff,
        C!OpenRead, C!ResolveRead, C!ResolveCommit
  <2>4. \A d \in Calls \ {c} : ccall'[d] = ccall[d]
    BY <2>3, GoOne
  <2>5. Excused(i)
    BY <1>1, <2>1
  <2>6. QED
    BY <2>2, <2>3, <2>4, <2>5 DEF Excused
<1>7. CASE UNCHANGED chatVars
  BY <1>1, <1>7 DEF chatVars, Excused
<1>8. QED
  BY <1>2, <1>3, <1>4, <1>5, <1>6, <1>7 DEF C!Next, C!Send, C!Answer

\* However openings, messages and replies interleave, what a conversation marks
\* as read the staff was shown, but for messages past the window, before a reply,
\* or of an opening yet to answer or dead (chat.service.ts:460-479, 536-542).
THEOREM MarkedWasShown == RecordsAssumption => (Spec => []ReadWasShown)
<1> SUFFICES ASSUME RecordsAssumption PROVE Spec => []ReadWasShown
  OBVIOUS
<1>0. C!ConversationAssumption
  BY DEF RecordsAssumption
<1>1. Init => ReadWasShown
  BY DEF Init, C!Init, ReadWasShown, C!ReadWasShown
<1>2. C!TypeOK /\ ReadWasShown /\ [Next]_vars => ReadWasShown'
  BY <1>0, ShownNext, ChatSteps DEF ReadWasShown
<1>3. QED
  BY <1>1, <1>2, ConversationTyped, PTL DEF Spec

-----------------------------------------------------------------------------
(* The shape of all records.                                               *)

\* Who is to take a listing down is somebody, and so is who took it down.
BoardTyped ==
    /\ old \in BOOLEAN
    /\ listing.status = "REMOVED" => listing.removedBy # None
    /\ \A c \in Calls : lcall[c].at = "removing" => lcall[c].by # None

LEMMA BoardTypedNext ==
  ASSUME L!BoardAssumption, BoardInvariant, BoardTyped, [L!Next]_boardVars
  PROVE  BoardTyped'
<1>0. /\ lcall \in [Calls -> Post] /\ None \notin Staff
      /\ listing \in [status : {"ACTIVE", "CLOSED", "REMOVED", "ARCHIVED"},
                      removedBy : Staff \cup {None}]
      /\ \A c \in Calls : lcall[c].at = "editing" => lcall[c].status \in L!Editable
      /\ old \in BOOLEAN
      /\ listing.status = "REMOVED" => listing.removedBy # None
      /\ \A c \in Calls : lcall[c].at = "removing" => lcall[c].by # None
  BY DEF BoardInvariant, BoardTyped, L!BoardAssumption
\* Handler c becomes q.
<1>h. ASSUME NEW c \in Calls, NEW q, lcall' = [lcall EXCEPT ![c] = q],
             q.at = "removing" => q.by # None, old' = old,
             listing'.status = "REMOVED" => listing'.removedBy # None
      PROVE  BoardTyped'
  BY <1>0, <1>h DEF BoardTyped
<1>f. ASSUME NEW c \in Calls, L!Finish(c), old' = old,
             listing'.status = "REMOVED" => listing'.removedBy # None
      PROVE  BoardTyped'
  <2>1. L!Idle.at # "removing"
    BY DEF L!Idle
  <2>2. QED
    BY <1>f, <1>h, <2>1 DEF L!Finish
<1>b. ASSUME NEW c \in Calls, NEW at, NEW s, NEW m, L!Begin(c, at, s, m),
             at = "removing" => m # None, UNCHANGED <<old, listing>>
      PROVE  BoardTyped'
  <2>1. PICK q : q = [at |-> at, status |-> s, by |-> m, seen |-> removals]
    OBVIOUS
  <2>2. q.at = "removing" => q.by # None
    BY <1>b, <2>1
  <2>3. QED
    BY <1>0, <1>b, <1>h, <2>1, <2>2 DEF L!Begin
<1>1. ASSUME L!Age PROVE BoardTyped'
  BY <1>0, <1>1 DEF L!Age, BoardTyped
<1>2. ASSUME NEW c \in Calls, NEW s \in L!Editable, L!EditRead(c, s) PROVE BoardTyped'
  BY <1>2, <1>b DEF L!EditRead
<1>3. ASSUME NEW c \in Calls, NEW m \in Staff, L!ModerateRead(c, m) PROVE BoardTyped'
  <2>1. m # None
    BY <1>0
  <2>2. QED
    BY <1>3, <1>b, <2>1 DEF L!ModerateRead
<1>4. ASSUME NEW c \in Calls, L!ArchiveRead(c) PROVE BoardTyped'
  BY <1>4, <1>b DEF L!ArchiveRead
\* An edit or the sweep never takes a listing down.
<1>5. ASSUME NEW c \in Calls, L!EditCommit(c) \/ L!ArchiveCommit(c) PROVE BoardTyped'
  <2>1. listing'.status = "REMOVED" => listing' = listing
    BY <1>0, <1>5 DEF L!EditCommit, L!ArchiveCommit, L!Editable
  <2>2. QED
    BY <1>0, <1>5, <1>f, <2>1 DEF L!EditCommit, L!ArchiveCommit
<1>6. ASSUME NEW c \in Calls, L!ModerateCommit(c) PROVE BoardTyped'
  <2>1. PICK q : q = [lcall[c] EXCEPT !.at = "noting"]
    OBVIOUS
  <2>2. q.at = "noting" /\ lcall' = [lcall EXCEPT ![c] = q]
    BY <1>0, <1>6, <2>1 DEF L!ModerateCommit, Post
  <2>3. listing'.removedBy # None
    BY <1>0, <1>6 DEF L!ModerateCommit, L!TakenDown
  <2>4. QED
    BY <1>6, <1>h, <2>2, <2>3 DEF L!ModerateCommit
<1>7. ASSUME NEW c \in Calls, L!ModerateNote(c) \/ L!Abandon(c) PROVE BoardTyped'
  BY <1>0, <1>7, <1>f DEF L!ModerateNote, L!Abandon
<1>8. CASE UNCHANGED boardVars
  BY <1>0, <1>8 DEF boardVars, BoardTyped
<1>9. QED
  BY <1>1, <1>2, <1>3, <1>4, <1>5, <1>6, <1>7, <1>8 DEF L!Next

\* A reading is what a resident read, and a row that was written stays.
MeterTyped ==
    /\ active \in BOOLEAN
    /\ \A p \in Periods :
         /\ reading[p].value \in Values \cup {0}
         /\ reading[p].status = "none" => reading[p] = M!NoReading
         /\ charge[p].made \in BOOLEAN
         /\ charge[p].above <= charge[p].upto
    /\ \A c \in Calls :
         /\ mcall[c].value \in Values \cup {0}
         /\ mcall[c].at = "reviewing" /\ mcall[c].period \in Periods =>
              reading[mcall[c].period].status # "none"

LEMMA MeterTypedNext ==
  ASSUME M!MetersAssumption, MeterInvariant, MeterTyped, [M!Next]_meterVars
  PROVE  MeterTyped'
<1> DEFINE RowsTyped(r) ==
             \A p \in Periods : /\ r[p].value \in Values \cup {0}
                                /\ r[p].status = "none" => r[p] = M!NoReading
           ChargesTyped(b) ==
             \A p \in Periods : b[p].made \in BOOLEAN /\ b[p].above <= b[p].upto
           Stay(r) == \A p \in Periods : reading[p].status # "none" => r[p].status # "none"
<1>0. /\ reading \in [Periods -> MeterRow] /\ mcall \in [Calls -> MeterCall]
      /\ DOMAIN charge = Periods /\ active \in BOOLEAN
      /\ RowsTyped(reading) /\ ChargesTyped(charge)
      /\ \A c \in Calls :
           /\ mcall[c].value \in Values \cup {0}
           /\ mcall[c].at = "reviewing" /\ mcall[c].period \in Periods =>
                reading[mcall[c].period].status # "none"
      /\ Values \cup {0} \in SUBSET Nat
  BY DEF MeterInvariant, MeterTyped, M!MetersAssumption
\* Handler c becomes q; rows that were written stay.
<1>h. ASSUME NEW c \in Calls, NEW q, mcall' = [mcall EXCEPT ![c] = q],
             q.value \in Values \cup {0},
             q.at = "reviewing" /\ q.period \in Periods => reading[q.period].status # "none",
             active' = active, RowsTyped(reading'), Stay(reading'), ChargesTyped(charge')
      PROVE  MeterTyped'
  <2>1. ASSUME NEW d \in Calls
        PROVE  /\ mcall'[d].value \in Values \cup {0}
               /\ mcall'[d].at = "reviewing" /\ mcall'[d].period \in Periods =>
                    reading'[mcall'[d].period].status # "none"
    <3>1. CASE d = c
      BY <1>0, <1>h, <3>1
    <3>2. CASE d # c
      BY <1>0, <1>h, <3>2
    <3>3. QED
      BY <3>1, <3>2
  <2>2. QED
    BY <1>0, <1>h, <2>1 DEF MeterTyped
<1>f. ASSUME NEW c \in Calls, M!Finish(c),
             active' = active, RowsTyped(reading'), Stay(reading'), ChargesTyped(charge')
      PROVE  MeterTyped'
  <2>1. M!Idle.at = "idle" /\ M!Idle.value \in Values \cup {0}
    BY DEF M!Idle
  <2>2. QED
    BY <1>f, <1>h, <2>1 DEF M!Finish
<1>b. ASSUME NEW c \in Calls, NEW at \in {"submitting", "reviewing", "billing"},
             NEW p \in Periods, NEW v \in Values \cup {0}, M!Begin(c, at, p, v),
             at = "reviewing" => reading[p].status # "none",
             UNCHANGED <<active, reading, charge>>
      PROVE  MeterTyped'
  <2>1. PICK q : q = [M!Idle EXCEPT !.at = at, !.period = p, !.value = v]
    OBVIOUS
  <2>2. q.at = at /\ q.period = p /\ q.value = v
    BY <2>1 DEF M!Idle
  <2>3. QED
    BY <1>0, <1>b, <1>h, <2>1, <2>2 DEF M!Begin
<1>1. ASSUME M!SetActive PROVE MeterTyped'
  BY <1>0, <1>1 DEF M!SetActive, MeterTyped
<1>2. ASSUME NEW c \in Calls, NEW p \in Periods, NEW v \in Values, M!SubmitCheck(c, p, v)
      PROVE  MeterTyped'
  BY <1>2, <1>b DEF M!SubmitCheck
<1>3. ASSUME NEW c \in Calls, NEW p \in Periods, M!ReviewRead(c, p) PROVE MeterTyped'
  BY <1>0, <1>3, <1>b DEF M!ReviewRead
<1>4. ASSUME NEW c \in Calls, NEW p \in Periods, M!BillRead(c, p) PROVE MeterTyped'
  BY <1>0, <1>4, <1>b DEF M!BillRead
<1>5. ASSUME NEW c \in Calls, M!SubmitLook(c) PROVE MeterTyped'
  <2>1. PICK at \in {"inserting", "resubmitting"} :
          mcall' = [mcall EXCEPT ![c].at = at] /\ UNCHANGED <<active, reading, charge>>
    BY <1>5 DEF M!SubmitLook
  <2>2. PICK q : q = [mcall[c] EXCEPT !.at = at]
    OBVIOUS
  <2>3. q.at = at /\ q.value = mcall[c].value /\ mcall' = [mcall EXCEPT ![c] = q]
    BY <1>0, <2>1, <2>2 DEF MeterCall
  <2>4. QED
    BY <1>0, <1>h, <2>1, <2>3
<1>6. ASSUME NEW c \in Calls, M!SubmitInsert(c) \/ M!Resubmit(c) PROVE MeterTyped'
  <2>1. PICK r : r = M!Pending(mcall[c].value)
    OBVIOUS
  <2>2. r.value \in Values \cup {0} /\ r.status = "PENDING"
    BY <1>0, <2>1 DEF M!Pending
  <2>3. reading' = reading \/ reading' = [reading EXCEPT ![mcall[c].period] = r]
    BY <1>6, <2>1 DEF M!SubmitInsert, M!Resubmit
  <2>4. RowsTyped(reading') /\ Stay(reading')
    BY <1>0, <2>2, <2>3
  <2>5. QED
    BY <1>0, <1>6, <1>f, <2>4 DEF M!SubmitInsert, M!Resubmit
<1>7. ASSUME NEW c \in Calls, M!ReviewCommit(c) PROVE MeterTyped'
  <2>1. PICK s \in M!Outcomes :
          reading' = [reading EXCEPT ![mcall[c].period].status = s]
    BY <1>7 DEF M!ReviewCommit
  <2>2. \A p \in Periods : /\ reading'[p].value = reading[p].value
                           /\ reading'[p] = reading[p] \/ reading'[p].status = s
    BY <1>0, <2>1 DEF MeterRow
  <2>3. s # "none"
    BY <2>1 DEF M!Outcomes
  <2>4. RowsTyped(reading') /\ Stay(reading')
    BY <1>0, <2>2, <2>3
  <2>5. QED
    BY <1>0, <1>7, <1>f, <2>4 DEF M!ReviewCommit
<1>8. ASSUME NEW c \in Calls, M!BillPrevious(c) PROVE MeterTyped'
  <2>1. PICK above, basis :
          mcall' = [mcall EXCEPT ![c].at = "charging", ![c].above = above,
                                 ![c].basis = basis]
    BY <1>8 DEF M!BillPrevious
  <2>2. PICK q : q = [mcall[c] EXCEPT !.at = "charging", !.above = above, !.basis = basis]
    OBVIOUS
  <2>3. q.at = "charging" /\ q.value = mcall[c].value /\ mcall' = [mcall EXCEPT ![c] = q]
    BY <1>0, <2>1, <2>2 DEF MeterCall
  <2>4. UNCHANGED <<active, reading, charge>>
    BY <1>8 DEF M!BillPrevious
  <2>5. QED
    BY <1>0, <1>h, <2>3, <2>4
<1>9. ASSUME NEW c \in Calls, M!BillCharge(c) PROVE MeterTyped'
  <2>1. PICK m, n \in Nat : m = mcall[c].above /\ n = mcall[c].value
    BY <1>0 DEF MeterCall
  <2>2. M!Upto(mcall[c]) = IF m >= n THEN m ELSE n
    BY <2>1, SMTT(60) DEF M!Upto, M!Max
  <2>3. PICK b : b = [made |-> TRUE, above |-> mcall[c].above,
                      upto |-> M!Upto(mcall[c]), basis |-> mcall[c].basis]
    OBVIOUS
  <2>4. b.made = TRUE /\ b.above <= b.upto
    BY <2>1, <2>2, <2>3
  <2>5. charge' = charge \/ charge' = [charge EXCEPT ![mcall[c].period] = b]
    BY <1>9, <2>3 DEF M!BillCharge
  <2>6. ChargesTyped(charge')
    BY <1>0, <2>4, <2>5
  <2>7. QED
    BY <1>0, <1>9, <1>f, <2>6 DEF M!BillCharge
<1>10. ASSUME NEW c \in Calls, M!Abandon(c) PROVE MeterTyped'
  BY <1>0, <1>10, <1>f DEF M!Abandon
<1>11. CASE UNCHANGED meterVars
  BY <1>0, <1>11 DEF meterVars, MeterTyped
<1>12. QED
  BY <1>1, <1>2, <1>3, <1>4, <1>5, <1>6, <1>7, <1>8, <1>9, <1>10, <1>11
  DEF M!Next, M!Proceed

\* Residents are of a complex of some unit, and have one live row for a unit.
OwnersTyped ==
    /\ user \in [People -> [complex : O!Complexes \cup {None}, verified : BOOLEAN]]
    /\ \A k \in Rows, j \in Rows :
         /\ O!Alive(k) /\ O!Alive(j)
         /\ own[k].by = own[j].by /\ own[k].unit = own[j].unit
         => k = j

\* Only a claim brings a row to life, and none for a right there is.
LEMMA OneRowEach ==
  ASSUME O!OwnershipAssumption, UnitInvariant, OwnersTyped, [O!Next]_unitVars,
         NEW k \in Rows, NEW j \in Rows, O!Alive(k)', O!Alive(j)',
         own'[k].by = own'[j].by, own'[k].unit = own'[j].unit
  PROVE  k = j
<1> DEFINE Same == \A i \in Rows : own[i].status # "unborn" \/ own'[i] = own[i]
<1>0. own \in [Rows -> Deed]
  BY DEF UnitInvariant
<1>1. CASE Same
  <2>1. ASSUME NEW i \in Rows, O!Alive(i)'
        PROVE  O!Alive(i) /\ own'[i].by = own[i].by /\ own'[i].unit = own[i].unit
    <3>1. own[i].status # "unborn"
      BY <1>1, <2>1 DEF O!Alive
    <3>2. QED
      BY <2>1, <3>1, RowsAge
  <2>2. QED
    BY <2>1 DEF OwnersTyped
<1>2. CASE \E c \in Calls : O!ClaimInsert(c)
  <2>1. PICK c \in Calls : O!ClaimInsert(c)
    BY <1>2
  <2>2. CASE own' = own
    BY <1>1, <2>2
  <2>3. CASE own' # own
    <3>1. PICK i \in Rows :
            /\ ~O!Claimed(ocall[c].by, ocall[c].unit)
            /\ own' = [own EXCEPT ![i] =
                 [status |-> "pending", by |-> ocall[c].by,
                  unit |-> ocall[c].unit, share |-> ocall[c].share]]
      BY <2>1, <2>3 DEF O!ClaimInsert
    <3>2. own'[i].by = ocall[c].by /\ own'[i].unit = ocall[c].unit
      BY <1>0, <3>1
    <3>3. \A l \in Rows : l # i => own'[l] = own[l]
      BY <1>0, <3>1
    <3>4. \A l \in Rows : O!Alive(l) =>
            ~(own[l].by = ocall[c].by /\ own[l].unit = ocall[c].unit)
      BY <3>1 DEF O!Claimed
    <3>5. CASE k # i /\ j # i
      BY <3>3, <3>5 DEF OwnersTyped, O!Alive
    <3>6. CASE k = i /\ j # i
      BY <3>2, <3>3, <3>4, <3>6 DEF O!Alive
    <3>7. CASE k # i /\ j = i
      BY <3>2, <3>3, <3>4, <3>7 DEF O!Alive
    <3>8. QED
      BY <3>5, <3>6, <3>7
  <2>4. QED
    BY <2>2, <2>3
<1>3. CASE \A c \in Calls : ~O!ClaimInsert(c)
  <2>1. own' = own \/ \E c \in Calls :
          O!ApproveCommit(c) \/ O!RejectCommit(c) \/ O!UnlinkDelete(c)
    BY <1>3, ZenonT(60)
    DEF O!Next, unitVars, O!ClaimCheck, O!VerifyRead, O!UnlinkRead, O!Claim,
        O!ClaimAttach, O!Verify, O!ApproveCheck, O!ApproveFlag, O!RejectLook,
        O!UnlinkStep, O!UnlinkCount, O!UnlinkFlag, O!Abandon
  <2>2. ASSUME NEW c \in Calls,
               O!ApproveCommit(c) \/ O!RejectCommit(c) \/ O!UnlinkDelete(c)
        PROVE  Same
    <3>1. O!Alive(ocall[c].row)
      BY <2>2 DEF O!ApproveCommit, O!RejectCommit, O!UnlinkDelete, O!StillThere
    <3>2. \A i \in Rows : i # ocall[c].row => own'[i] = own[i]
      BY <1>0, <2>2 DEF O!ApproveCommit, O!RejectCommit, O!UnlinkDelete
    <3>3. QED
      BY <3>1, <3>2 DEF O!Alive
  <2>3. QED
    BY <1>1, <2>1, <2>2
<1>4. QED
  BY <1>2, <1>3

LEMMA OwnersTypedNext ==
  ASSUME O!OwnershipAssumption, UnitInvariant, OwnersTyped, [O!Next]_unitVars
  PROVE  OwnersTyped'
<1> DEFINE Resident == [complex : O!Complexes \cup {None}, verified : BOOLEAN]
<1>0. user \in [People -> Resident]
  BY DEF OwnersTyped
<1>1. ASSUME NEW c \in Calls, O!ClaimAttach(c) PROVE user' \in [People -> Resident]
  <2>1. ocall[c].unit \in Units
    BY <1>1 DEF O!ClaimAttach, UnitInvariant, Sound
  <2>2. PICK x \in O!Complexes : x = complex[ocall[c].unit]
    BY <2>1 DEF O!Complexes
  <2>3. user' = [user EXCEPT ![ocall[c].by].complex = x]
    BY <1>1, <2>2 DEF O!ClaimAttach
  <2>4. QED
    BY <1>0, <2>3
<1>2. ASSUME NEW c \in Calls, O!ApproveFlag(c) \/ O!UnlinkFlag(c)
      PROVE  user' \in [People -> Resident]
  <2>1. PICK b \in BOOLEAN : user' = [user EXCEPT ![ocall[c].by].verified = b]
    BY <1>2 DEF O!ApproveFlag, O!UnlinkFlag
  <2>2. QED
    BY <1>0, <2>1
<1>3. ASSUME NEW c \in Calls, O!RejectCommit(c) PROVE user' \in [People -> Resident]
  <2>1. CASE ocall[c].seen = {}
    <3>1. user' = [user EXCEPT ![ocall[c].by].complex = None]
      BY <1>3, <2>1 DEF O!RejectCommit
    <3>2. QED
      BY <1>0, <3>1
  <2>2. CASE ocall[c].seen # {}
    <3>1. user' = [user EXCEPT ![ocall[c].by].complex = @]
      BY <1>3, <2>2 DEF O!RejectCommit
    <3>2. QED
      BY <1>0, <3>1
  <2>3. QED
    BY <2>1, <2>2
<1>4. user' \in [People -> Resident]
  BY <1>0, <1>1, <1>2, <1>3, ZenonT(60)
  DEF O!Next, unitVars, O!ClaimCheck, O!VerifyRead, O!UnlinkRead, O!Claim,
      O!ClaimInsert, O!Verify, O!ApproveCheck, O!ApproveCommit, O!RejectLook,
      O!UnlinkStep, O!UnlinkDelete, O!UnlinkCount, O!Abandon
<1>5. ASSUME NEW k \in Rows, NEW j \in Rows, own'[k].by = own'[j].by,
             own'[k].unit = own'[j].unit,
             own'[k].status \in {"pending", "verified"},
             own'[j].status \in {"pending", "verified"}
      PROVE  k = j
  <2>1. O!Alive(k)' /\ O!Alive(j)'
    BY <1>5 DEF O!Alive
  <2>2. QED
    BY <1>5, <2>1, OneRowEach
<1>6. (\A k \in Rows, j \in Rows :
          /\ O!Alive(k) /\ O!Alive(j)
          /\ own[k].by = own[j].by /\ own[k].unit = own[j].unit
          => k = j)'
  BY <1>5 DEF O!Alive
<1>7. user' \in [People -> [complex : O!Complexes' \cup {None}, verified : BOOLEAN]]
  BY <1>4 DEF O!Complexes
<1>8. QED
  BY <1>6, <1>7, Zenon DEF OwnersTyped

\* For any number of people, units, meters, handlers and rows: every record keeps
\* the shape the code gives it, a resident has at most one live row for a unit
\* (schema.prisma:265), a listing that is down names who took it down, and a
\* charge never bills less than nothing (finance.service.ts:283-309).
THEOREM RecordsTyped == RecordsAssumption => (Spec => []TypeOK)
<1> SUFFICES ASSUME RecordsAssumption PROVE Spec => []TypeOK
  OBVIOUS
<1>0. O!OwnershipAssumption /\ M!MetersAssumption /\ L!BoardAssumption
  BY DEF RecordsAssumption
<1>1. Init => OwnersTyped /\ MeterTyped /\ BoardTyped
  <2> SUFFICES ASSUME Init PROVE OwnersTyped /\ MeterTyped /\ BoardTyped
    OBVIOUS
  <2>1. OwnersTyped
    <3>1. \A k \in Rows : own[k].status \notin {"pending", "verified"}
      BY DEF Init, O!Init, O!NoRow
    <3>2. user = [p \in People |-> [complex |-> None, verified |-> FALSE]]
      BY DEF Init, O!Init
    <3>3. user \in [People -> [complex : O!Complexes \cup {None}, verified : BOOLEAN]]
      <4>1. PICK r : r = [complex |-> None, verified |-> FALSE]
        OBVIOUS
      <4>2. r \in [complex : O!Complexes \cup {None}, verified : BOOLEAN]
        BY <4>1
      <4>3. QED
        BY <3>2, <4>1, <4>2
    <3>4. \A k \in Rows, j \in Rows :
            /\ O!Alive(k) /\ O!Alive(j)
            /\ own[k].by = own[j].by /\ own[k].unit = own[j].unit
            => k = j
      BY <3>1 DEF O!Alive
    <3>5. QED
      BY <3>3, <3>4, Zenon DEF OwnersTyped
  <2>2. MeterTyped
    <3>1. /\ active = TRUE /\ reading = [p \in Periods |-> M!NoReading]
          /\ charge = [p \in Periods |-> M!NoCharge]
          /\ mcall = [c \in Calls |-> M!Idle]
      BY DEF Init, M!Init
    <3>2. /\ M!NoReading.value = 0 /\ M!Idle.value = 0 /\ M!Idle.at = "idle"
          /\ M!NoCharge.made = FALSE /\ M!NoCharge.above = 0 /\ M!NoCharge.upto = 0
      BY DEF M!NoReading, M!NoCharge, M!Idle
    <3>3. \A p \in Periods : reading[p] = M!NoReading /\ charge[p] = M!NoCharge
      BY <3>1
    <3>4. \A c \in Calls : mcall[c] = M!Idle
      BY <3>1
    <3>5. ASSUME NEW p \in Periods
          PROVE  /\ charge[p].made \in BOOLEAN /\ charge[p].above <= charge[p].upto
                 /\ reading[p].value \in Values \cup {0}
      <4>1. charge[p] = M!NoCharge /\ reading[p] = M!NoReading
        BY <3>3
      <4>2. charge[p].above = 0 /\ charge[p].upto = 0 /\ reading[p].value = 0
        BY <3>2, <4>1
      <4>3. charge[p].made = FALSE
        BY <3>2, <4>1, Zenon
      <4>4. charge[p].made \in BOOLEAN
        BY <4>3
      <4>5. QED
        BY <4>2, <4>4
    <3>6. QED
      BY <3>1, <3>2, <3>3, <3>4, <3>5 DEF MeterTyped
  <2>3. BoardTyped
    BY DEF Init, L!Init, BoardTyped, L!Idle
  <2>4. QED
    BY <2>1, <2>2, <2>3
<1>2. UnitInvariant /\ OwnersTyped /\ [Next]_vars => OwnersTyped'
  BY <1>0, OneRecordSteps, OwnersTypedNext
<1>3. MeterInvariant /\ MeterTyped /\ [Next]_vars => MeterTyped'
  BY <1>0, OneRecordSteps, MeterTypedNext
<1>4. BoardInvariant /\ BoardTyped /\ [Next]_vars => BoardTyped'
  BY <1>0, OneRecordSteps, BoardTypedNext
<1>5. UnitInvariant /\ OwnersTyped => O!TypeOK
  BY DEF UnitInvariant, OwnersTyped, Deed, O!TypeOK
<1>6. MeterInvariant /\ MeterTyped => M!TypeOK
  BY DEF MeterInvariant, MeterTyped, MeterRow, MeterCall, M!TypeOK
<1>7. BoardInvariant /\ Counted /\ BoardTyped => L!TypeOK
  <2> SUFFICES ASSUME BoardInvariant, Counted, BoardTyped PROVE L!TypeOK
    OBVIOUS
  <2>1. Cardinality(Noters) \in Nat
    <3>1. IsFiniteSet(Calls)
      BY <1>0 DEF L!BoardAssumption, L!IsFiniteSet, IsFiniteSet
    <3>2. QED
      BY <3>1, FS_Subset, FS_CardinalityType DEF Noters
  <2>2. removals \in 0 .. MaxRemovals /\ MaxRemovals \in Nat
    BY <1>0 DEF BoardInvariant, L!BoardAssumption
  <2>3. laudit \in 0 .. MaxRemovals /\ lost \in 0 .. MaxRemovals
    BY <2>1, <2>2 DEF Counted
  <2>4. QED
    BY <2>3 DEF BoardInvariant, BoardTyped, Post, L!TypeOK
<1>8. PassInvariant => G!TypeOK
  BY DEF PassInvariant
<1>9. QED
  BY <1>1, <1>2, <1>3, <1>4, <1>5, <1>6, <1>7, <1>8, UnitsHold, MetersHold, Boards,
     RemovalsCount, Passes, AccountsTyped, ConversationTyped, PTL
  DEF Spec, TypeOK
=============================================================================
