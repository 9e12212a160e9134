--------------------------- MODULE AccountsProofs ---------------------------
(***************************************************************************)
(* What holds of the stored balances for any number of accounts, tariffs,  *)
(* months and handlers in flight.                                          *)
(*                                                                         *)
(* A balance that is not exact is owed: some handler has still to          *)
(* recalculate the account, and a handler that recalculates it alone has   *)
(* read sums that are current, or another one still owes it.               *)
(***************************************************************************)
EXTENDS Records, FiniteSetTheorems, TLAPS

\* An idle handler holds nothing; only one that recalculates has an account.
Shape(q) ==
    /\ q.at = "idle" => q = A!Idle
    /\ q.at = "charging" => q.period \in AccountPeriods
    /\ q.at \in {"summing", "writing"} => q.account \in Accounts
    /\ q.at \notin {"summing", "writing"} => q.account = None

IsTyped ==
    /\ A!TypeOK
    /\ IsFiniteSet(charges)
    /\ \A c \in Calls : Shape(acall[c])

-----------------------------------------------------------------------------
\* The accounts count as everybody does.
LEMMA SameCount == \A S : A!Cardinality(S) = Cardinality(S)
BY DEF A!Cardinality, Cardinality

\* The rows of one account are finitely many, and more rows are no fewer.
LEMMA ChargedIsNat ==
  ASSUME IsFiniteSet(charges), NEW a
  PROVE  A!Charged(a) \in Nat
BY FS_Subset, FS_CardinalityType, SameCount DEF A!Charged

LEMMA ChargedGrows ==
  ASSUME IsFiniteSet(charges'), charges \subseteq charges', NEW a
  PROVE  A!Charged(a) <= A!Charged(a)'
<1> DEFINE before == {h \in charges : h.account = a}
           new == {h \in charges' : h.account = a}
<1>1. IsFiniteSet(new)
  BY FS_Subset
<1>2. before \subseteq new
  OBVIOUS
<1>3. QED
  BY <1>1, <1>2, FS_Subset, SameCount DEF A!Charged

\* A handler has the shape of one.
LEMMA IdleIsHandler == A!AccountsAssumption => A!Idle \in A!Handler /\ Shape(A!Idle)
BY DEF A!AccountsAssumption, A!Idle, A!Handler, Shape

\* The steps only add rows.
LEMMA ChargesGrow ==
  ASSUME IsTyped, [A!Next]_accountVars
  PROVE  charges \subseteq charges' /\ IsFiniteSet(charges')
<1>1. ASSUME NEW c \in Calls, A!GenerateOne(c)
      PROVE  charges \subseteq charges' /\ IsFiniteSet(charges')
  BY <1>1, FS_AddElement, ZenonT(60) DEF A!GenerateOne, IsTyped
<1>2. ASSUME UNCHANGED charges
      PROVE  charges \subseteq charges' /\ IsFiniteSet(charges')
  BY <1>2 DEF IsTyped
<1>3. QED
  BY <1>1, <1>2
  DEF A!Next, accountVars, A!GenerateStart, A!GenerateSkip, A!GenerateTurn, A!RecordPayment,
      A!Recalculate, A!SumPayments, A!SumCharges, A!WriteBalance, A!Answer, A!Abandon

-----------------------------------------------------------------------------
\* A step that sets one handler to a handler keeps the table of handlers typed.
LEMMA OneHandlerStep ==
  ASSUME IsTyped, NEW c \in Calls, NEW q \in A!Handler, Shape(q),
         acall' = [acall EXCEPT ![c] = q]
  PROVE  acall' \in [Calls -> A!Handler] /\ \A d \in Calls : Shape(acall'[d])
<1>1. acall \in [Calls -> A!Handler]
  BY DEF IsTyped, A!TypeOK
<1>2. acall' \in [Calls -> A!Handler]
  BY <1>1
<1>3. \A d \in Calls : acall'[d] = IF d = c THEN q ELSE acall[d]
  BY <1>1
<1>4. \A d \in Calls : Shape(acall'[d])
  BY <1>3 DEF IsTyped
<1>5. QED
  BY <1>2, <1>4

\* Typing is inductive.
LEMMA IsTypedNext ==
  ASSUME A!AccountsAssumption, IsTyped, [A!Next]_accountVars
  PROVE  IsTyped'
<1> DEFINE Calm == acall' \in [Calls -> A!Handler] /\ \A d \in Calls : Shape(acall'[d])
<1>0. /\ acall \in [Calls -> A!Handler]
      /\ paid \in [Accounts -> 0 .. MaxPayments]
      /\ balance \in [Accounts -> [paid : 0 .. MaxPayments, charged : Nat]]
      /\ raced \subseteq Accounts /\ broken \subseteq Accounts
      /\ charges \subseteq A!Charge /\ IsFiniteSet(charges)
      /\ \A c \in Calls : Shape(acall[c])
      /\ MaxPayments \in Nat /\ None \notin Accounts
  BY DEF IsTyped, A!TypeOK, A!AccountsAssumption
<1>c. IsFiniteSet(charges')
  BY ChargesGrow
<1>q. A!Idle \in A!Handler /\ Shape(A!Idle)
  BY IdleIsHandler
<1>1. ASSUME NEW c \in Calls, NEW p \in AccountPeriods, A!GenerateStart(c, p) PROVE IsTyped'
  <2> DEFINE q == [A!Idle EXCEPT !.at = "charging", !.period = p,
                               !.todo = Accounts \X Tariffs]
  <2>1. q \in A!Handler /\ Shape(q)
    BY <1>q DEF A!Handler, Shape, A!Idle
  <2>2. Calm
    BY <1>1, <2>1, OneHandlerStep DEF A!GenerateStart
  <2>3. QED
    BY <1>0, <1>1, <1>c, <2>2 DEF A!GenerateStart, IsTyped, A!TypeOK
<1>2. ASSUME NEW c \in Calls, A!GenerateOne(c) PROVE IsTyped'
  <2>1. PICK a \in Accounts, t \in Tariffs :
          LET row == [account |-> a, tariff |-> t, period |-> acall[c].period]
          IN  /\ acall[c].at = "charging"
              /\ charges' = charges \cup {row}
              /\ acall' = [acall EXCEPT
                   ![c].todo = @ \ {<<a, t>>},
                   ![c].owed = @ \cup A!Affected(row \notin charges, a)]
              /\ UNCHANGED <<paid, balance, raced, broken>>
    BY <1>2 DEF A!GenerateOne
  <2> DEFINE row == [account |-> a, tariff |-> t, period |-> acall[c].period]
             q == [acall[c] EXCEPT !.todo = @ \ {<<a, t>>},
                                  !.owed = @ \cup A!Affected(row \notin charges, a)]
  <2>2. q \in A!Handler /\ Shape(q)
    <3>1. PICK r \in A!Handler : r = acall[c]
      BY <1>0
    <3>2. r.at = "charging" /\ Shape(r)
      BY <1>0, <2>1, <3>1
    <3>3. r.owed \cup A!Affected(row \notin charges, a) \in SUBSET Accounts
      BY <3>1 DEF A!Handler, A!Affected
    <3>4. r.todo \ {<<a, t>>} \in SUBSET (Accounts \X Tariffs)
      BY <3>1 DEF A!Handler
    <3>5. q = [r EXCEPT !.todo = r.todo \ {<<a, t>>},
                        !.owed = r.owed \cup A!Affected(row \notin charges, a)]
      BY <3>1
    <3> HIDE DEF q, row
    <3>6. QED
      BY <3>1, <3>2, <3>3, <3>4, <3>5 DEF A!Handler, Shape
  <2>3. acall' = [acall EXCEPT ![c] = q]
    BY <1>0, <2>1
  <2>4. Calm
    BY <2>2, <2>3, OneHandlerStep
  <2>5. QED
    <3>1. row \in A!Charge
      BY <1>0, <2>1 DEF A!Charge, Shape
    <3>2. QED
      BY <1>0, <1>c, <2>1, <2>4, <3>1 DEF IsTyped, A!TypeOK
<1>3. ASSUME NEW c \in Calls, A!GenerateSkip(c) PROVE IsTyped'
  <2>1. PICK a \in Accounts, t \in Metered :
          /\ acall[c].at = "charging"
          /\ acall' = [acall EXCEPT ![c].todo = @ \ {<<a, t>>}]
          /\ UNCHANGED <<charges, paid, balance, raced, broken>>
    BY <1>3 DEF A!GenerateSkip
  <2> DEFINE q == [acall[c] EXCEPT !.todo = @ \ {<<a, t>>}]
  <2>2. q \in A!Handler /\ Shape(q)
    BY <1>0, <2>1 DEF A!Handler, Shape
  <2>3. acall' = [acall EXCEPT ![c] = q]
    BY <1>0, <2>1
  <2>4. Calm
    BY <2>2, <2>3, OneHandlerStep
  <2>5. QED
    BY <1>0, <1>c, <2>1, <2>4 DEF IsTyped, A!TypeOK
<1>4. ASSUME NEW c \in Calls, A!GenerateTurn(c) PROVE IsTyped'
  <2> DEFINE q == [acall[c] EXCEPT !.at = "balancing"]
  <2>1. q \in A!Handler /\ Shape(q)
    BY <1>0, <1>4 DEF A!Handler, Shape, A!GenerateTurn
  <2>2. acall' = [acall EXCEPT ![c] = q]
    BY <1>0, <1>4 DEF A!GenerateTurn
  <2>3. Calm
    BY <2>1, <2>2, OneHandlerStep
  <2>4. QED
    BY <1>0, <1>4, <1>c, <2>3 DEF A!GenerateTurn, IsTyped, A!TypeOK
<1>5. ASSUME NEW c \in Calls, NEW a \in Accounts, A!RecordPayment(c, a) PROVE IsTyped'
  <2> DEFINE q == [A!Idle EXCEPT !.at = "balancing", !.owed = {a}]
  <2>1. q \in A!Handler /\ Shape(q)
    BY <1>q DEF A!Handler, Shape, A!Idle
  <2>2. Calm
    BY <1>5, <2>1, OneHandlerStep DEF A!RecordPayment
  <2>3. paid' \in [Accounts -> 0 .. MaxPayments]
    BY <1>0, <1>5, SMTT(60) DEF A!RecordPayment
  <2>4. QED
    BY <1>0, <1>5, <1>c, <2>2, <2>3 DEF A!RecordPayment, IsTyped, A!TypeOK
<1>6. ASSUME NEW c \in Calls, NEW a \in Accounts, A!SumPayments(c, a) PROVE IsTyped'
  <2>1. Calm
    <3>1. ASSUME NEW d \in Calls
          PROVE  acall'[d] \in A!Handler /\ Shape(acall'[d])
      <4>1. PICK r \in A!Handler : r = acall[d]
        BY <1>0
      <4>2. Shape(r)
        BY <1>0, <4>1
      <4>3. CASE d = c
        <5>1. PICK b \in BOOLEAN :
                acall'[d] = [r EXCEPT !.at = "summing", !.account = a,
                                     !.owed = r.owed \ {a}, !.paid = paid[a],
                                     !.alone = b]
          BY <1>6, <4>1, <4>3 DEF A!SumPayments
        <5>2. paid[a] \in 0 .. MaxPayments /\ r.owed \ {a} \in SUBSET Accounts
          BY <1>0, <4>1 DEF A!Handler
        <5>3. PICK n \in 0 .. MaxPayments, o \in SUBSET Accounts :
                n = paid[a] /\ o = r.owed \ {a}
          BY <5>2
        <5>4. acall'[d] = [r EXCEPT !.at = "summing", !.account = a, !.owed = o,
                                   !.paid = n, !.alone = b]
          BY <5>1, <5>3
        <5>5. acall'[d] \in A!Handler
          BY <4>1, <5>1, <5>3, <5>4, ZenonT(60) DEF A!Handler
        <5>6. acall'[d].at = "summing" /\ acall'[d].account = a
          BY <4>1, <5>4 DEF A!Handler
        <5>7. QED
          BY <5>5, <5>6 DEF Shape
      <4>4. CASE d # c
        <5>1. PICK b \in BOOLEAN : b = (r.alone /\ ~A!Recalculates(d, a))
          OBVIOUS
        <5>2. acall'[d] = [r EXCEPT !.alone = b]
          BY <1>6, <4>1, <4>4, <5>1 DEF A!SumPayments
        <5>3. r.at \notin {"summing", "writing"} => b = r.alone
          BY <4>1, <5>1 DEF A!Recalculates, A!Handler
        <5>4. b \in BOOLEAN
          BY <5>1
        <5>5. acall'[d] \in A!Handler
          BY <4>1, <5>2, <5>4 DEF A!Handler
        <5>6. QED
          BY <4>1, <4>2, <5>2, <5>3, <5>5 DEF A!Handler, Shape, A!Idle
      <4>5. QED
        BY <4>3, <4>4
    <3>2. QED
      BY <1>6, <3>1 DEF A!SumPayments
  <2>2. QED
    BY <1>0, <1>6, <1>c, <2>1, ZenonT(60) DEF A!SumPayments, IsTyped, A!TypeOK
<1>7. ASSUME NEW c \in Calls, A!SumCharges(c) PROVE IsTyped'
  <2> DEFINE q == [acall[c] EXCEPT !.at = "writing",
                                  !.charged = A!Charged(acall[c].account)]
  <2>1. A!Charged(acall[c].account) \in Nat
    BY <1>0, ChargedIsNat
  <2>2. q \in A!Handler /\ Shape(q)
    <3>1. PICK r \in A!Handler : r = acall[c]
      BY <1>0
    <3>2. r.at = "summing" /\ r.account \in Accounts
      BY <1>0, <1>7, <3>1 DEF A!SumCharges, Shape
    <3>3. PICK n \in Nat : n = A!Charged(acall[c].account)
      BY <2>1
    <3>4. q = [r EXCEPT !.at = "writing", !.charged = n]
      BY <3>1, <3>3
    <3> HIDE DEF q
    <3>5. QED
      BY <3>2, <3>4 DEF A!Handler, Shape
  <2>3. acall' = [acall EXCEPT ![c] = q]
    BY <1>0, <1>7 DEF A!SumCharges
  <2>4. Calm
    BY <2>2, <2>3, OneHandlerStep
  <2>5. QED
    BY <1>0, <1>7, <1>c, <2>4 DEF A!SumCharges, IsTyped, A!TypeOK
<1>8. ASSUME NEW c \in Calls, A!WriteBalance(c) PROVE IsTyped'
  <2> DEFINE q == [A!Idle EXCEPT !.at = "balancing", !.period = acall[c].period,
                               !.owed = acall[c].owed]
  <2>1. q \in A!Handler /\ Shape(q)
    BY <1>0, <1>q DEF A!Handler, Shape, A!Idle
  <2>2. Calm
    BY <1>8, <2>1, OneHandlerStep DEF A!WriteBalance
  <2>3. /\ acall[c].account \in Accounts
        /\ A!NewBalance(acall[c]) \in [paid : 0 .. MaxPayments, charged : Nat]
    BY <1>0, <1>8 DEF A!WriteBalance, A!NewBalance, Shape, A!Handler
  <2>4. QED
    BY <1>0, <1>8, <1>c, <2>2, <2>3 DEF A!WriteBalance, IsTyped, A!TypeOK
<1>9. ASSUME NEW c \in Calls, A!Answer(c) PROVE IsTyped'
  <2>1. Calm
    BY <1>9, <1>q, OneHandlerStep DEF A!Answer
  <2>2. QED
    BY <1>0, <1>9, <1>c, <2>1 DEF A!Answer, IsTyped, A!TypeOK
<1>10. ASSUME NEW c \in Calls, A!Abandon(c) PROVE IsTyped'
  <2>1. Calm
    <3>1. ASSUME NEW d \in Calls
          PROVE  acall'[d] \in A!Handler /\ Shape(acall'[d])
      <4>1. CASE d = c
        BY <1>10, <4>1, <1>q DEF A!Abandon
      <4>2. CASE d # c
        <5>1. PICK r \in A!Handler : r = acall[d]
          BY <1>0
        <5>2. acall'[d] = [r EXCEPT !.alone = r.alone /\ r.account \notin A!Owes(c)]
          BY <1>10, <4>2, <5>1 DEF A!Abandon
        <5>3. None \notin A!Owes(c)
          BY <1>0 DEF A!Owes, A!Handler
        <5>4. PICK b \in BOOLEAN :
                /\ acall'[d] = [r EXCEPT !.alone = b]
                /\ r.account = None => b = r.alone
          BY <5>1, <5>2, <5>3 DEF A!Handler
        <5>5. Shape(r)
          BY <1>0, <5>1
        <5>6. QED
          BY <5>1, <5>4, <5>5 DEF A!Handler, Shape, A!Idle
      <4>3. QED
        BY <4>1, <4>2
    <3>2. QED
      BY <1>10, <3>1 DEF A!Abandon
  <2>2. A!Owes(c) \subseteq Accounts
    BY <1>0 DEF A!Owes, A!Handler
  <2>3. QED
    BY <1>0, <1>10, <1>c, <2>1, <2>2 DEF A!Abandon, IsTyped, A!TypeOK
<1>11. CASE UNCHANGED accountVars
  BY <1>0, <1>11 DEF accountVars, IsTyped, A!TypeOK
<1>12. QED
  BY <1>1, <1>2, <1>3, <1>4, <1>5, <1>6, <1>7, <1>8, <1>9, <1>10, <1>11
  DEF A!Next, A!Recalculate

-----------------------------------------------------------------------------
\* A step of the records is one of the accounts, or leaves them alone.
LEMMA AccountSteps == [Next]_vars => [A!Next]_accountVars
BY DEF Next, vars

\* Typing is an invariant.
LEMMA Typing == RecordsAssumption => (Spec => []IsTyped)
<1> SUFFICES ASSUME RecordsAssumption PROVE Spec => []IsTyped
  OBVIOUS
<1>0. A!AccountsAssumption
  BY DEF RecordsAssumption
<1>1. Init => IsTyped
  <2> SUFFICES ASSUME Init PROVE IsTyped
    OBVIOUS
  <2>1. IsFiniteSet(charges)
    BY FS_EmptySet DEF Init, A!Init
  <2>2. A!Idle \in A!Handler /\ Shape(A!Idle)
    BY <1>0, IdleIsHandler
  <2>3. QED
    BY <1>0, <2>1, <2>2 DEF Init, A!Init, IsTyped, A!TypeOK, A!AccountsAssumption
<1>2. IsTyped /\ [Next]_vars => IsTyped'
  BY <1>0, IsTypedNext, AccountSteps
<1>3. QED
  BY <1>1, <1>2, PTL DEF Spec

\* Accounts, their balances and their handlers keep their shape, whatever the
\* tariffs, months and handlers (finance.service.ts:218-401, 571-592).
THEOREM AccountsTyped == RecordsAssumption => (Spec => []A!TypeOK)
<1>1. IsTyped => A!TypeOK
  BY DEF IsTyped
<1>2. QED
  BY <1>1, Typing, PTL

-----------------------------------------------------------------------------
(* Stored balances are never ahead.                                        *)

Recalculating == {"summing", "writing"}

Sums(q) ==
    /\ q.at \in Recalculating => q.paid <= paid[q.account]
    /\ q.at = "writing" => q.charged <= A!Charged(q.account)

NotAhead == A!BalanceNeverAhead /\ \A c \in Calls : Sums(acall[c])

\* Payments are only added.
LEMMA PaidGrows ==
  ASSUME IsTyped, [A!Next]_accountVars, NEW a \in Accounts
  PROVE  paid[a] <= paid'[a]
<1>0. paid \in [Accounts -> 0 .. MaxPayments]
  BY DEF IsTyped, A!TypeOK
<1>1. ASSUME NEW c \in Calls, NEW b \in Accounts, A!RecordPayment(c, b)
      PROVE  paid[a] <= paid'[a]
  BY <1>0, <1>1 DEF A!RecordPayment
<1>2. ASSUME UNCHANGED paid PROVE paid[a] <= paid'[a]
  BY <1>0, <1>2
<1>3. QED
  BY <1>1, <1>2, ZenonT(60)
  DEF A!Next, accountVars, A!GenerateStart, A!GenerateOne, A!GenerateSkip, A!GenerateTurn,
      A!Recalculate, A!SumPayments, A!SumCharges, A!WriteBalance, A!Answer, A!Abandon

\* A handler that recalculates keeps its sums, or has just read one.
SumsKept(q, r) ==
    \/ /\ q.at = r.at
       /\ q.account = r.account /\ q.paid = r.paid /\ q.charged = r.charged
    \/ /\ r.at = "summing"
       /\ r.paid = paid[r.account]
    \/ /\ q.at = "summing" /\ r.at = "writing"
       /\ q.account = r.account /\ q.paid = r.paid
       /\ r.charged = A!Charged(r.account)

LEMMA SumsStep ==
  ASSUME IsTyped, [A!Next]_accountVars, NEW d \in Calls, acall'[d].at \in Recalculating
  PROVE  SumsKept(acall[d], acall'[d])
<1>0. PICK q \in A!Handler : q = acall[d]
  BY DEF IsTyped, A!TypeOK
<1>t. acall \in [Calls -> A!Handler]
  BY DEF IsTyped, A!TypeOK
<1>1. ASSUME NEW c \in Calls, NEW p \in AccountPeriods, A!GenerateStart(c, p)
      PROVE  SumsKept(q, acall'[d])
  BY <1>0, <1>t, <1>1 DEF A!GenerateStart, SumsKept, A!Idle, Recalculating, A!Handler
<1>2. ASSUME NEW c \in Calls, A!GenerateOne(c) PROVE SumsKept(q, acall'[d])
  BY <1>0, <1>t, <1>2 DEF A!GenerateOne, SumsKept, Recalculating, A!Handler
<1>3. ASSUME NEW c \in Calls, A!GenerateSkip(c) PROVE SumsKept(q, acall'[d])
  BY <1>0, <1>t, <1>3 DEF A!GenerateSkip, SumsKept, Recalculating, A!Handler
<1>4. ASSUME NEW c \in Calls, A!GenerateTurn(c) PROVE SumsKept(q, acall'[d])
  BY <1>0, <1>t, <1>4 DEF A!GenerateTurn, SumsKept, Recalculating, A!Handler
<1>5. ASSUME NEW c \in Calls, NEW a \in Accounts, A!RecordPayment(c, a)
      PROVE  SumsKept(q, acall'[d])
  BY <1>0, <1>t, <1>5 DEF A!RecordPayment, SumsKept, A!Idle, Recalculating, A!Handler
<1>6. ASSUME NEW c \in Calls, NEW a \in Accounts, A!SumPayments(c, a)
      PROVE  SumsKept(q, acall'[d])
  BY <1>0, <1>t, <1>6 DEF A!SumPayments, SumsKept, Recalculating, A!Handler
<1>7. ASSUME NEW c \in Calls, A!SumCharges(c) PROVE SumsKept(q, acall'[d])
  BY <1>0, <1>t, <1>7 DEF A!SumCharges, SumsKept, Recalculating, A!Handler
<1>8. ASSUME NEW c \in Calls, A!WriteBalance(c) PROVE SumsKept(q, acall'[d])
  BY <1>0, <1>t, <1>8 DEF A!WriteBalance, SumsKept, A!Idle, Recalculating, A!Handler
<1>9. ASSUME NEW c \in Calls, A!Answer(c) PROVE SumsKept(q, acall'[d])
  BY <1>0, <1>t, <1>9 DEF A!Answer, SumsKept, A!Idle, Recalculating, A!Handler
<1>10. ASSUME NEW c \in Calls, A!Abandon(c) PROVE SumsKept(q, acall'[d])
  BY <1>0, <1>t, <1>10 DEF A!Abandon, SumsKept, A!Idle, Recalculating, A!Handler
<1>11. CASE UNCHANGED accountVars
  BY <1>0, <1>11 DEF accountVars, SumsKept
<1>12. QED
  BY <1>0, <1>1, <1>2, <1>3, <1>4, <1>5, <1>6, <1>7, <1>8, <1>9, <1>10, <1>11
  DEF A!Next, A!Recalculate

LEMMA NotAheadNext ==
  ASSUME A!AccountsAssumption, IsTyped, NotAhead, [A!Next]_accountVars
  PROVE  NotAhead'
<1>0. IsTyped'
  BY IsTypedNext
<1>g. /\ \A a : A!Charged(a) <= A!Charged(a)' /\ A!Charged(a) \in Nat /\ A!Charged(a)' \in Nat
      /\ \A a \in Accounts : paid[a] <= paid'[a] /\ paid[a] \in Nat /\ paid'[a] \in Nat
  <2>1. \A a : A!Charged(a) <= A!Charged(a)'
    BY ChargesGrow, ChargedGrows
  <2>2. \A a : A!Charged(a) \in Nat
    BY ChargedIsNat DEF IsTyped
  <2>3. \A a : A!Charged(a)' \in Nat
    BY <1>0, ChargesGrow, FS_Subset, FS_CardinalityType, SameCount DEF A!Charged
  <2>4. \A a \in Accounts : paid[a] \in Nat /\ paid'[a] \in Nat
    BY <1>0 DEF IsTyped, A!TypeOK
  <2>5. QED
    BY <2>1, <2>2, <2>3, <2>4, PaidGrows
<1>1. ASSUME NEW d \in Calls PROVE Sums(acall[d])'
  <2> SUFFICES ASSUME acall'[d].at \in Recalculating PROVE Sums(acall[d])'
    BY DEF Sums, Recalculating
  <2>1. SumsKept(acall[d], acall'[d])
    BY SumsStep
  <2>2. Sums(acall[d])
    BY DEF NotAhead
  <2>3. PICK r \in A!Handler : r = acall'[d]
    BY <1>0 DEF IsTyped, A!TypeOK
  <2>4. PICK q \in A!Handler : q = acall[d]
    BY DEF IsTyped, A!TypeOK
  <2>5. r.account \in Accounts
    BY <1>0, <2>3 DEF IsTyped, Shape, Recalculating
  <2>6. r.paid <= paid'[r.account]
    BY <1>g, <2>1, <2>2, <2>3, <2>4, <2>5 DEF SumsKept, Sums, Recalculating, A!Handler
  <2>7. r.at = "writing" => r.charged <= A!Charged(r.account)'
    BY <1>g, <2>1, <2>2, <2>3, <2>4, SMTT(60) DEF SumsKept, Sums, A!Handler
  <2>8. QED
    BY <2>3, <2>6, <2>7 DEF Sums
<1>2. A!BalanceNeverAhead'
  <2> SUFFICES ASSUME NEW a \in Accounts
               PROVE  /\ balance'[a].paid <= paid'[a]
                      /\ balance'[a].charged <= A!Charged(a)'
    BY DEF A!BalanceNeverAhead
  <2>0. /\ balance \in [Accounts -> [paid : 0 .. MaxPayments, charged : Nat]]
        /\ balance[a].paid <= paid[a] /\ balance[a].charged <= A!Charged(a)
    BY DEF IsTyped, A!TypeOK, NotAhead, A!BalanceNeverAhead
  <2>1. CASE balance' = balance
    BY <1>g, <2>0, <2>1
  <2>2. ASSUME NEW c \in Calls, A!WriteBalance(c)
        PROVE  /\ balance'[a].paid <= paid'[a]
               /\ balance'[a].charged <= A!Charged(a)'
    <3>1. Sums(acall[c]) /\ acall[c].at = "writing"
      BY <2>2 DEF NotAhead, A!WriteBalance
    <3>2. acall[c].account = a =>
             /\ balance'[a].paid = acall[c].paid
             /\ balance'[a].charged = acall[c].charged
      BY <2>0, <2>2 DEF A!WriteBalance, A!NewBalance
    <3>3. acall[c].account # a => balance'[a] = balance[a]
      BY <2>0, <2>2 DEF A!WriteBalance
    <3>4. acall[c].paid \in Nat /\ acall[c].charged \in Nat
      BY DEF IsTyped, A!TypeOK, A!Handler
    <3>5. QED
      BY <1>g, <2>0, <3>1, <3>2, <3>3, <3>4 DEF Sums, Recalculating
  <2>3. QED
    BY <2>1, <2>2, ZenonT(60)
    DEF A!Next, accountVars, A!GenerateStart, A!GenerateOne, A!GenerateSkip, A!GenerateTurn,
        A!RecordPayment, A!Recalculate, A!SumPayments, A!SumCharges, A!Answer, A!Abandon
<1>3. QED
  BY <1>1, <1>2 DEF NotAhead

\* However many batches, payments and recalculations interleave, a stored
\* balance never counts a payment or a charge that does not exist.
THEOREM NeverAhead == RecordsAssumption => (Spec => []A!BalanceNeverAhead)
<1> SUFFICES ASSUME RecordsAssumption PROVE Spec => []A!BalanceNeverAhead
  OBVIOUS
<1>0. A!AccountsAssumption
  BY DEF RecordsAssumption
<1>1. Init => NotAhead
  <2> SUFFICES ASSUME Init PROVE NotAhead
    OBVIOUS
  <2>1. \A a \in Accounts : A!Charged(a) \in Nat
    BY FS_EmptySet, ChargedIsNat DEF Init, A!Init
  <2>2. QED
    BY <2>1 DEF Init, A!Init, NotAhead, A!BalanceNeverAhead, Sums, A!Idle, Recalculating
<1>2. IsTyped /\ NotAhead /\ [Next]_vars => NotAhead'
  BY <1>0, NotAheadNext, AccountSteps
<1>3. NotAhead => A!BalanceNeverAhead
  BY DEF NotAhead
<1>4. QED
  BY <1>1, <1>2, <1>3, Typing, PTL DEF Spec

-----------------------------------------------------------------------------
(* A settled balance is exact.                                             *)

\* Two handlers that recalculate one account are not alone.
Alone ==
    \A c, d \in Calls :
        /\ c # d
        /\ acall[c].at \in Recalculating /\ acall[d].at \in Recalculating
        /\ acall[c].account = acall[d].account
        => ~acall[c].alone

\* What a handler alone has read is current, unless another one still owes the
\* account a recalculation.
Fresh(c) ==
    LET q == acall[c] IN
    q.at \in Recalculating /\ q.alone =>
      \/ \E d \in Calls : d # c /\ q.account \in acall[d].owed
      \/ /\ q.paid = paid[q.account]
         /\ q.at = "writing" => q.charged = A!Charged(q.account)

Owed ==
    /\ A!BalanceWrongOnlyByRaceOrCrash
    /\ Alone
    /\ \A c \in Calls : Fresh(c)

\* What a step of another handler leaves of handler d.
Kept(d) ==
    /\ acall'[d].at = acall[d].at
    /\ acall'[d].owed = acall[d].owed
    /\ acall'[d].account = acall[d].account
    /\ acall'[d].paid = acall[d].paid
    /\ acall'[d].charged = acall[d].charged
    /\ acall'[d].alone => acall[d].alone

\* A step that recalculates nothing, and owes every account whose sums it moves.
Quiet(c) ==
    /\ UNCHANGED <<balance, raced, broken>>
    /\ acall[c].at \notin Recalculating /\ acall'[c].at \notin Recalculating
    /\ acall[c].account = None /\ acall'[c].account = None
    /\ acall[c].owed \subseteq acall'[c].owed
    /\ \A a \in Accounts :
         \/ a \in acall'[c].owed
         \/ paid'[a] = paid[a] /\ A!Charged(a)' = A!Charged(a)
    /\ \A d \in Calls \ {c} : Kept(d)

\* Everything but the recalculation and the crash is quiet.
LEMMA QuietSteps ==
  ASSUME A!AccountsAssumption, IsTyped, NEW c \in Calls,
         \/ \E p \in AccountPeriods : A!GenerateStart(c, p)
         \/ A!GenerateOne(c)
         \/ A!GenerateSkip(c)
         \/ A!GenerateTurn(c)
         \/ \E a \in Accounts : A!RecordPayment(c, a)
         \/ A!Answer(c)
  PROVE  Quiet(c)
<1>0. /\ acall \in [Calls -> A!Handler] /\ Shape(acall[c])
      /\ paid \in [Accounts -> 0 .. MaxPayments]
  BY DEF IsTyped, A!TypeOK
<1>q. PICK q \in A!Handler : q = acall[c]
  BY <1>0
<1>1. ASSUME NEW p \in AccountPeriods, A!GenerateStart(c, p) PROVE Quiet(c)
  BY <1>0, <1>1 DEF A!GenerateStart, Quiet, Kept, Shape, A!Idle, Recalculating, A!Charged
<1>2. ASSUME A!GenerateOne(c) PROVE Quiet(c)
  <2>1. PICK a \in Accounts, t \in Tariffs :
          LET row == [account |-> a, tariff |-> t, period |-> acall[c].period]
          IN  /\ acall[c].at = "charging"
              /\ charges' = charges \cup {row}
              /\ acall' = [acall EXCEPT
                   ![c].todo = @ \ {<<a, t>>},
                   ![c].owed = @ \cup A!Affected(row \notin charges, a)]
              /\ UNCHANGED <<paid, balance, raced, broken>>
    BY <1>2 DEF A!GenerateOne
  <2> DEFINE row == [account |-> a, tariff |-> t, period |-> acall[c].period]
  <2>2. /\ acall'[c].owed = q.owed \cup A!Affected(row \notin charges, a)
        /\ acall'[c].at = q.at /\ acall'[c].account = q.account
        /\ \A d \in Calls \ {c} : acall'[d] = acall[d]
    BY <1>0, <1>q, <2>1 DEF A!Handler
  <2>3. q.at = "charging" /\ q.account = None
    BY <1>0, <1>q, <2>1 DEF Shape
  <2>4. ASSUME NEW b \in Accounts
        PROVE  b \in acall'[c].owed \/ A!Charged(b)' = A!Charged(b)
    <3>1. CASE row \in charges
      BY <2>1, <3>1 DEF A!Charged
    <3>2. CASE row \notin charges /\ b = a
      BY <2>2, <3>2 DEF A!Affected
    <3>3. CASE b # a
      <4>1. {h \in charges' : h.account = b} = {h \in charges : h.account = b}
        BY <2>1, <3>3
      <4>2. QED
        BY <4>1 DEF A!Charged
    <3>4. QED
      BY <3>1, <3>2, <3>3
  <2>5. QED
    BY <1>q, <2>1, <2>2, <2>3, <2>4 DEF Quiet, Kept, Recalculating
<1>3. ASSUME A!GenerateSkip(c) PROVE Quiet(c)
  BY <1>0, <1>q, <1>3
  DEF A!GenerateSkip, Quiet, Kept, Shape, A!Handler, Recalculating, A!Charged
<1>4. ASSUME A!GenerateTurn(c) PROVE Quiet(c)
  BY <1>0, <1>q, <1>4
  DEF A!GenerateTurn, Quiet, Kept, Shape, A!Handler, Recalculating, A!Charged
<1>5. ASSUME NEW a \in Accounts, A!RecordPayment(c, a) PROVE Quiet(c)
  <2> DEFINE new == [A!Idle EXCEPT !.at = "balancing", !.owed = {a}]
  <2>0. acall'[c] = new /\ \A d \in Calls \ {c} : acall'[d] = acall[d]
    BY <1>0, <1>5 DEF A!RecordPayment
  <2>1. /\ acall'[c].owed = {a} /\ acall'[c].at = "balancing"
        /\ acall'[c].account = None
        /\ \A d \in Calls \ {c} : acall'[d] = acall[d]
    BY <2>0 DEF A!Idle
  <2>2. acall[c].at = "idle" /\ acall[c].owed = {} /\ acall[c].account = None
    <3>1. acall[c].at = "idle" /\ acall[c] = A!Idle
      BY <1>0, <1>5 DEF A!RecordPayment, Shape
    <3>2. QED
      BY <3>1 DEF A!Idle
  <2>3. \A b \in Accounts : b # a => paid'[b] = paid[b]
    BY <1>0, <1>5 DEF A!RecordPayment
  <2>4. \A b : A!Charged(b)' = A!Charged(b)
    BY <1>5 DEF A!RecordPayment, A!Charged
  <2>5. QED
    BY <1>5, <2>1, <2>2, <2>3, <2>4 DEF A!RecordPayment, Quiet, Kept, Recalculating
<1>6. ASSUME A!Answer(c) PROVE Quiet(c)
  BY <1>0, <1>6 DEF A!Answer, Quiet, Kept, Shape, A!Idle, Recalculating, A!Charged
<1>7. QED
  BY <1>1, <1>2, <1>3, <1>4, <1>5, <1>6

\* A quiet step keeps the invariant.
LEMMA QuietKeeps ==
  ASSUME IsTyped, Owed, NEW c \in Calls, Quiet(c)
  PROVE  Owed'
<1>1. ASSUME NEW a \in Accounts, A!Settled(a)', a \notin (raced \cup broken)'
      PROVE  A!Exact(a)'
  <2>1. \A d \in Calls : A!Owes(d) \subseteq A!Owes(d)'
    BY DEF Quiet, Kept, A!Owes
  <2>2. A!Settled(a)
    BY <1>1, <2>1 DEF A!Settled
  <2>3. A!Exact(a)
    BY <1>1, <2>2 DEF Owed, A!BalanceWrongOnlyByRaceOrCrash, Quiet
  <2>4. paid'[a] = paid[a] /\ A!Charged(a)' = A!Charged(a)
    BY <1>1 DEF A!Settled, A!Owes, Quiet
  <2>5. QED
    BY <2>3, <2>4 DEF A!Exact, Quiet
<1>2. Alone'
  <2> SUFFICES ASSUME NEW d \in Calls, NEW e \in Calls, d # e,
                      acall'[d].at \in Recalculating, acall'[e].at \in Recalculating,
                      acall'[d].account = acall'[e].account
               PROVE  ~acall'[d].alone
    BY DEF Alone
  <2>1. Kept(d) /\ Kept(e)
    BY DEF Quiet
  <2>2. ~acall[d].alone
    BY <2>1 DEF Kept, Owed, Alone
  <2>3. QED
    BY <2>1, <2>2 DEF Kept
<1>3. ASSUME NEW d \in Calls PROVE Fresh(d)'
  <2> SUFFICES ASSUME acall'[d].at \in Recalculating, acall'[d].alone PROVE Fresh(d)'
    BY DEF Fresh
  <2>1. d # c /\ Kept(d)
    BY DEF Quiet
  <2>2. PICK a \in Accounts : a = acall[d].account
    BY <2>1 DEF Kept, IsTyped, Shape, Recalculating
  <2>3. acall'[d].account = a
    BY <2>1, <2>2 DEF Kept
  <2>4. CASE \E e \in Calls : e # d /\ a \in acall[e].owed
    <3>1. PICK e \in Calls : e # d /\ a \in acall[e].owed
      BY <2>4
    <3>2. acall[e].owed \subseteq acall'[e].owed
      BY DEF Quiet, Kept
    <3>3. QED
      BY <2>3, <3>1, <3>2 DEF Fresh
  <2>5. CASE a \in acall'[c].owed
    BY <2>1, <2>3, <2>5 DEF Fresh
  <2>6. CASE /\ paid'[a] = paid[a] /\ A!Charged(a)' = A!Charged(a)
             /\ ~\E e \in Calls : e # d /\ a \in acall[e].owed
    <3>1. Fresh(d)
      BY DEF Owed
    <3>2. acall[d].paid = paid[a] /\ (acall[d].at = "writing" => acall[d].charged = A!Charged(a))
      BY <2>1, <2>2, <2>6, <3>1 DEF Fresh, Kept
    <3>3. acall'[d].paid = paid'[a] /\ (acall'[d].at = "writing" => acall'[d].charged = A!Charged(a)')
      BY <2>1, <2>6, <3>2 DEF Kept
    <3>4. QED
      BY <2>3, <3>3 DEF Fresh
  <2>7. QED
    BY <2>2, <2>4, <2>5, <2>6 DEF Quiet
<1>4. QED
  BY <1>1, <1>2, <1>3 DEF Owed, A!BalanceWrongOnlyByRaceOrCrash

\* A handler reads the payments of an account that it owes.
LEMMA SumPaymentsKeeps ==
  ASSUME A!AccountsAssumption, IsTyped, Owed, NEW c \in Calls, NEW a \in Accounts,
         A!SumPayments(c, a)
  PROVE  Owed'
<1> DEFINE others == {d \in Calls : A!Recalculates(d, a)}
<1>0. /\ acall \in [Calls -> A!Handler] /\ \A d \in Calls : Shape(acall[d])
      /\ None \notin Accounts
  BY DEF IsTyped, A!TypeOK, A!AccountsAssumption
<1>1. /\ acall[c].at = "balancing" /\ acall[c].account = None
      /\ a \in acall[c].owed
  BY <1>0 DEF A!SumPayments, Shape
<1>2. /\ acall'[c].at = "summing" /\ acall'[c].account = a
      /\ acall'[c].owed = acall[c].owed \ {a}
      /\ acall'[c].paid = paid[a]
      /\ acall'[c].alone = (others = {})
  <2>1. PICK q \in A!Handler : q = acall[c]
    BY <1>0
  <2>2. PICK b \in BOOLEAN : b = (others = {})
    OBVIOUS
  <2>3. acall'[c] = [q EXCEPT !.at = "summing", !.account = a, !.owed = q.owed \ {a},
                             !.paid = paid[a], !.alone = b]
    BY <2>1, <2>2 DEF A!SumPayments
  <2> HIDE DEF others
  <2>4. /\ acall'[c].at = "summing" /\ acall'[c].account = a
        /\ acall'[c].owed = q.owed \ {a} /\ acall'[c].paid = paid[a]
        /\ acall'[c].alone = b
    BY <2>3 DEF A!Handler
  <2>5. QED
    BY <2>1, <2>2, <2>4
<1>3. ASSUME NEW d \in Calls, d # c
      PROVE  /\ Kept(d)
             /\ d \in others => ~acall'[d].alone
  <2>1. PICK q \in A!Handler : q = acall[d]
    BY <1>0
  <2>2. PICK b \in BOOLEAN : b = (q.alone /\ d \notin others)
    OBVIOUS
  <2>3. acall'[d] = [q EXCEPT !.alone = b]
    BY <1>3, <2>1, <2>2 DEF A!SumPayments
  <2> HIDE DEF others
  <2>4. /\ acall'[d].at = q.at /\ acall'[d].owed = q.owed
        /\ acall'[d].account = q.account /\ acall'[d].paid = q.paid
        /\ acall'[d].charged = q.charged /\ acall'[d].alone = b
    BY <2>3 DEF A!Handler
  <2>5. QED
    BY <2>1, <2>2, <2>4 DEF Kept
<1>4. UNCHANGED <<charges, paid, balance, raced, broken>>
  BY DEF A!SumPayments
<1>5. ASSUME NEW d \in Calls PROVE A!Owes(d)' = A!Owes(d)
  <2>1. CASE d = c
    BY <1>0, <1>1, <1>2, <2>1 DEF A!Owes
  <2>2. CASE d # c
    BY <1>3, <2>2 DEF A!Owes, Kept
  <2>3. QED
    BY <2>1, <2>2
<1>6. A!BalanceWrongOnlyByRaceOrCrash'
  <2>1. \A b \in Accounts : A!Charged(b)' = A!Charged(b)
    BY <1>4 DEF A!Charged
  <2>2. QED
    BY <1>4, <1>5, <2>1 DEF Owed, A!BalanceWrongOnlyByRaceOrCrash, A!Settled, A!Exact
<1>7. Alone'
  <2> SUFFICES ASSUME NEW d \in Calls, NEW e \in Calls, d # e,
                      acall'[d].at \in Recalculating, acall'[e].at \in Recalculating,
                      acall'[d].account = acall'[e].account
               PROVE  ~acall'[d].alone
    BY DEF Alone
  <2>1. CASE d = c
    <3>1. e \in others
      BY <1>2, <1>3, <2>1 DEF Kept, A!Recalculates, Recalculating
    <3>2. QED
      BY <1>2, <2>1, <3>1
  <2>2. CASE d # c /\ e = c
    <3>1. d \in others
      BY <1>2, <1>3, <2>2 DEF Kept, A!Recalculates, Recalculating
    <3>2. QED
      BY <1>3, <2>2, <3>1
  <2>3. CASE d # c /\ e # c
    BY <1>3, <2>3 DEF Kept, Owed, Alone
  <2>4. QED
    BY <2>1, <2>2, <2>3
<1>8. ASSUME NEW d \in Calls PROVE Fresh(d)'
  <2> SUFFICES ASSUME acall'[d].at \in Recalculating, acall'[d].alone PROVE Fresh(d)'
    BY DEF Fresh
  <2>1. CASE d = c
    BY <1>2, <1>4, <2>1 DEF Fresh
  <2>2. CASE d # c
    <3>1. Fresh(d) /\ Kept(d) /\ d \notin others
      BY <1>3, <2>2 DEF Owed
    <3>2. PICK b \in Accounts : b = acall[d].account
      BY <1>0, <3>1 DEF Kept, Shape, Recalculating
    <3>3. b # a /\ acall'[d].account = b
      BY <3>1, <3>2 DEF Kept, A!Recalculates, Recalculating
    <3>4. CASE \E e \in Calls : e # d /\ b \in acall[e].owed
      <4>1. PICK e \in Calls : e # d /\ b \in acall[e].owed
        BY <3>4
      <4>2. b \in acall'[e].owed
        BY <1>2, <1>3, <3>3, <4>1 DEF Kept
      <4>3. QED
        BY <3>3, <4>1, <4>2 DEF Fresh
    <3>5. CASE ~\E e \in Calls : e # d /\ b \in acall[e].owed
      <4>1. acall[d].paid = paid[b] /\ (acall[d].at = "writing" => acall[d].charged = A!Charged(b))
        BY <3>1, <3>2, <3>5 DEF Fresh, Kept
      <4>2. A!Charged(b)' = A!Charged(b)
        BY <1>4 DEF A!Charged
      <4>3. QED
        BY <1>4, <3>1, <3>3, <4>1, <4>2 DEF Fresh, Kept
    <3>6. QED
      BY <3>4, <3>5
  <2>3. QED
    BY <2>1, <2>2
<1>9. QED
  BY <1>6, <1>7, <1>8 DEF Owed

\* It reads the charges.
LEMMA SumChargesKeeps ==
  ASSUME IsTyped, Owed, NEW c \in Calls, A!SumCharges(c)
  PROVE  Owed'
<1>0. acall \in [Calls -> A!Handler] /\ \A d \in Calls : Shape(acall[d])
  BY DEF IsTyped, A!TypeOK
<1>1. PICK a \in Accounts : a = acall[c].account
  BY <1>0 DEF A!SumCharges, Shape
<1>2. PICK q \in A!Handler : q = acall[c] /\ q.at = "summing" /\ q.account = a
  BY <1>0, <1>1 DEF A!SumCharges
<1>3. /\ acall'[c].at = "writing" /\ acall'[c].account = a
      /\ acall'[c].owed = q.owed /\ acall'[c].paid = q.paid
      /\ acall'[c].alone = q.alone /\ acall'[c].charged = A!Charged(a)
  BY <1>0, <1>1, <1>2 DEF A!SumCharges, A!Handler
<1>4. \A d \in Calls \ {c} : acall'[d] = acall[d]
  BY <1>0 DEF A!SumCharges
<1>5. /\ UNCHANGED <<charges, paid, balance, raced, broken>>
      /\ \A b : A!Charged(b)' = A!Charged(b)
  BY DEF A!SumCharges, A!Charged
<1>6. A!BalanceWrongOnlyByRaceOrCrash'
  <2>1. \A d \in Calls : A!Owes(d)' = A!Owes(d)
    BY <1>2, <1>3, <1>4 DEF A!Owes
  <2>2. QED
    BY <1>5, <2>1 DEF Owed, A!BalanceWrongOnlyByRaceOrCrash, A!Settled, A!Exact
<1>7. Alone'
  <2>1. \A d \in Calls : /\ acall'[d].at \in Recalculating <=> acall[d].at \in Recalculating
                         /\ acall'[d].account = acall[d].account
                         /\ acall'[d].alone = acall[d].alone
    BY <1>2, <1>3, <1>4 DEF Recalculating
  <2>2. QED
    BY <2>1 DEF Owed, Alone
<1>8. ASSUME NEW d \in Calls PROVE Fresh(d)'
  <2>1. \A e \in Calls : acall'[e].owed = acall[e].owed
    BY <1>2, <1>3, <1>4
  <2>2. Fresh(d)
    BY DEF Owed
  <2>3. CASE d = c
    BY <1>2, <1>3, <1>5, <2>1, <2>2, <2>3 DEF Fresh, Recalculating
  <2>4. CASE d # c
    BY <1>4, <1>5, <2>1, <2>2, <2>4 DEF Fresh
  <2>5. QED
    BY <2>3, <2>4
<1>9. QED
  BY <1>6, <1>7, <1>8 DEF Owed

\* It writes the balance: alone it is exact, else it has raced.
LEMMA WriteBalanceKeeps ==
  ASSUME A!AccountsAssumption, IsTyped, Owed, NEW c \in Calls, A!WriteBalance(c)
  PROVE  Owed'
<1>0. /\ acall \in [Calls -> A!Handler] /\ \A d \in Calls : Shape(acall[d])
      /\ balance \in [Accounts -> [paid : 0 .. MaxPayments, charged : Nat]]
      /\ None \notin Accounts
  BY DEF IsTyped, A!TypeOK, A!AccountsAssumption
<1>1. PICK q \in A!Handler : q = acall[c] /\ q.at = "writing" /\ q.account \in Accounts
  BY <1>0 DEF A!WriteBalance, Shape
<1>2. PICK a \in Accounts : a = q.account
  BY <1>1
<1>3. /\ acall'[c].at = "balancing" /\ acall'[c].account = None
      /\ acall'[c].owed = q.owed
  <2> DEFINE new == [A!Idle EXCEPT !.at = "balancing", !.period = q.period,
                                 !.owed = q.owed]
  <2>1. acall'[c] = new
    BY <1>0, <1>1 DEF A!WriteBalance
  <2>2. QED
    BY <2>1 DEF A!Idle
<1>4. \A d \in Calls \ {c} : acall'[d] = acall[d]
  BY <1>0 DEF A!WriteBalance
<1>5. /\ UNCHANGED <<charges, paid>>
      /\ \A b : A!Charged(b)' = A!Charged(b)
      /\ \A b \in Accounts \ {a} : balance'[b] = balance[b]
      /\ balance'[a] = [paid |-> q.paid, charged |-> q.charged]
  BY <1>0, <1>1, <1>2 DEF A!WriteBalance, A!Charged, A!NewBalance
<1>6. IF q.alone THEN raced' = raced \ {a} /\ broken' = broken \ {a}
                 ELSE raced' = raced \cup {a} /\ broken' = broken
  BY <1>1, <1>2 DEF A!WriteBalance
<1>7. ASSUME NEW b \in Accounts, A!Settled(b)', b \notin (raced \cup broken)'
      PROVE  A!Exact(b)'
  <2>1. CASE b # a
    <3>1. \A d \in Calls : b \in A!Owes(d) => b \in A!Owes(d)'
      BY <1>1, <1>2, <1>3, <1>4, <2>1 DEF A!Owes
    <3>2. A!Settled(b) /\ b \notin raced \cup broken
      BY <1>6, <1>7, <2>1, <3>1 DEF A!Settled
    <3>3. QED
      BY <1>5, <2>1, <3>2 DEF Owed, A!BalanceWrongOnlyByRaceOrCrash, A!Exact
  <2>2. CASE b = a
    <3>1. q.alone
      BY <1>6, <1>7, <2>2
    <3>2. \A d \in Calls : a \notin acall[d].owed
      BY <1>1, <1>3, <1>4, <1>7, <2>2 DEF A!Settled, A!Owes
    <3>3. q.paid = paid[a] /\ q.charged = A!Charged(a)
      BY <1>1, <1>2, <3>1, <3>2 DEF Owed, Fresh, Recalculating
    <3>4. QED
      BY <1>5, <2>2, <3>3 DEF A!Exact
  <2>3. QED
    BY <2>1, <2>2
<1>8. Alone'
  BY <1>3, <1>4 DEF Owed, Alone, Recalculating
<1>9. ASSUME NEW d \in Calls PROVE Fresh(d)'
  <2>1. CASE d = c
    BY <1>3, <2>1 DEF Fresh, Recalculating
  <2>2. CASE d # c
    <3>1. \A e \in Calls : acall'[e].owed = acall[e].owed
      BY <1>1, <1>3, <1>4
    <3>2. Fresh(d)
      BY DEF Owed
    <3>3. QED
      BY <1>4, <1>5, <2>2, <3>1, <3>2 DEF Fresh
  <2>3. QED
    BY <2>1, <2>2
<1>10. QED
  BY <1>7, <1>8, <1>9 DEF Owed, A!BalanceWrongOnlyByRaceOrCrash

\* It dies, and what it owed is broken.
LEMMA AbandonKeeps ==
  ASSUME A!AccountsAssumption, IsTyped, Owed, NEW c \in Calls, A!Abandon(c)
  PROVE  Owed'
<1>0. /\ acall \in [Calls -> A!Handler] /\ \A d \in Calls : Shape(acall[d])
      /\ None \notin Accounts
  BY DEF IsTyped, A!TypeOK, A!AccountsAssumption
<1>1. /\ UNCHANGED <<charges, paid, balance, raced>>
      /\ broken' = broken \cup A!Owes(c)
      /\ \A b : A!Charged(b)' = A!Charged(b)
  BY DEF A!Abandon, A!Charged
<1>2. /\ acall'[c].at = "idle" /\ acall'[c].owed = {} /\ acall'[c].account = None
  <2>1. acall'[c] = A!Idle
    BY DEF A!Abandon
  <2>2. QED
    BY <2>1 DEF A!Idle
<1>3. ASSUME NEW d \in Calls, d # c
      PROVE  Kept(d) /\ (acall[d].account \in A!Owes(c) => ~acall'[d].alone)
  <2>1. PICK q \in A!Handler : q = acall[d]
    BY <1>0
  <2>2. PICK b \in BOOLEAN : b = (q.alone /\ q.account \notin A!Owes(c))
    OBVIOUS
  <2>3. acall'[d] = [q EXCEPT !.alone = b]
    BY <1>3, <2>1, <2>2 DEF A!Abandon
  <2>4. /\ acall'[d].at = q.at /\ acall'[d].owed = q.owed
        /\ acall'[d].account = q.account /\ acall'[d].paid = q.paid
        /\ acall'[d].charged = q.charged /\ acall'[d].alone = b
    BY <2>3 DEF A!Handler
  <2>5. QED
    BY <2>1, <2>2, <2>4 DEF Kept
<1>4. ASSUME NEW b \in Accounts, A!Settled(b)', b \notin (raced \cup broken)'
      PROVE  A!Exact(b)'
  <2>1. \A d \in Calls \ {c} : A!Owes(d)' = A!Owes(d)
    BY <1>3 DEF A!Owes, Kept
  <2>2. A!Settled(b) /\ b \notin raced \cup broken
    BY <1>1, <1>4, <2>1 DEF A!Settled
  <2>3. QED
    BY <1>1, <2>2 DEF Owed, A!BalanceWrongOnlyByRaceOrCrash, A!Exact
<1>5. Alone'
  <2> SUFFICES ASSUME NEW d \in Calls, NEW e \in Calls, d # e,
                      acall'[d].at \in Recalculating, acall'[e].at \in Recalculating,
                      acall'[d].account = acall'[e].account
               PROVE  ~acall'[d].alone
    BY DEF Alone
  <2>1. d # c /\ e # c
    BY <1>2 DEF Recalculating
  <2>2. QED
    BY <1>3, <2>1 DEF Kept, Owed, Alone
<1>6. ASSUME NEW d \in Calls PROVE Fresh(d)'
  <2> SUFFICES ASSUME acall'[d].at \in Recalculating, acall'[d].alone PROVE Fresh(d)'
    BY DEF Fresh
  <2>1. d # c
    BY <1>2 DEF Recalculating
  <2>2. Kept(d) /\ Fresh(d) /\ acall[d].account \notin A!Owes(c)
    BY <1>3, <2>1 DEF Owed
  <2>3. PICK b \in Accounts : b = acall[d].account
    BY <1>0, <2>2 DEF Kept, Shape, Recalculating
  <2>4. acall'[d].account = b
    BY <2>2, <2>3 DEF Kept
  <2>5. CASE \E e \in Calls : e # d /\ b \in acall[e].owed
    <3>1. PICK e \in Calls : e # d /\ b \in acall[e].owed
      BY <2>5
    <3>2. e # c
      BY <1>0, <2>2, <2>3, <3>1 DEF A!Owes
    <3>3. acall'[e].owed = acall[e].owed
      BY <1>3, <3>2 DEF Kept
    <3>4. QED
      BY <2>4, <3>1, <3>3 DEF Fresh
  <2>6. CASE ~\E e \in Calls : e # d /\ b \in acall[e].owed
    <3>1. acall[d].paid = paid[b] /\ (acall[d].at = "writing" => acall[d].charged = A!Charged(b))
      BY <2>2, <2>3, <2>6 DEF Fresh, Kept
    <3>2. QED
      BY <1>1, <2>2, <2>4, <3>1 DEF Fresh, Kept
  <2>7. QED
    BY <2>5, <2>6
<1>7. QED
  BY <1>4, <1>5, <1>6 DEF Owed, A!BalanceWrongOnlyByRaceOrCrash

LEMMA OwedNext ==
  ASSUME A!AccountsAssumption, IsTyped, Owed, [A!Next]_accountVars
  PROVE  Owed'
<1>1. CASE A!Next
  <2>1. PICK c \in Calls :
          \/ \E p \in AccountPeriods : A!GenerateStart(c, p)
          \/ A!GenerateOne(c)
          \/ A!GenerateSkip(c)
          \/ A!GenerateTurn(c)
          \/ \E a \in Accounts : A!RecordPayment(c, a)
          \/ A!Recalculate(c)
          \/ A!Abandon(c)
    BY <1>1 DEF A!Next
  <2>2. CASE A!Recalculate(c)
    <3>1. CASE A!Answer(c)
      BY <3>1, QuietSteps, QuietKeeps
    <3>2. QED
      BY <2>2, <3>1, SumPaymentsKeeps, SumChargesKeeps, WriteBalanceKeeps
      DEF A!Recalculate
  <2>3. CASE A!Abandon(c)
    BY <2>3, AbandonKeeps
  <2>4. CASE ~A!Recalculate(c) /\ ~A!Abandon(c)
    BY <2>1, <2>4, QuietSteps, QuietKeeps
  <2>5. QED
    BY <2>2, <2>3, <2>4
<1>2. CASE UNCHANGED accountVars
  BY <1>2
  DEF accountVars, Owed, A!BalanceWrongOnlyByRaceOrCrash, A!Settled, A!Owes, A!Exact, A!Charged,
      Alone, Fresh
<1>3. QED
  BY <1>1, <1>2

\* For any number of accounts, tariffs and handlers: once nobody owes an account
\* a recalculation, its stored balance is exact, unless its last recalculation
\* overlapped another one or a handler died owing it one
\* (finance.service.ts:352-355, 393, 571-591).
THEOREM WrongOnlyByRaceOrCrash ==
  RecordsAssumption => (Spec => []BalanceWrongOnlyByRaceOrCrash)
<1> SUFFICES ASSUME RecordsAssumption PROVE Spec => []BalanceWrongOnlyByRaceOrCrash
  OBVIOUS
<1>0. A!AccountsAssumption
  BY DEF RecordsAssumption
<1>1. Init => Owed
  <2> SUFFICES ASSUME Init PROVE Owed
    OBVIOUS
  <2>1. \A a : A!Charged(a) = 0
    <3>1. \A a : {h \in charges : h.account = a} = {}
      BY DEF Init, A!Init
    <3>2. QED
      BY <3>1, FS_EmptySet, SameCount DEF A!Charged
  <2>2. \A c \in Calls : acall[c].at = "idle"
    BY DEF Init, A!Init, A!Idle
  <2>3. Alone /\ \A c \in Calls : Fresh(c)
    BY <2>2 DEF Alone, Fresh, Recalculating
  <2>4. \A a \in Accounts : A!Exact(a)
    BY <2>1 DEF Init, A!Init, A!Exact
  <2>5. QED
    BY <2>3, <2>4 DEF Owed, A!BalanceWrongOnlyByRaceOrCrash
<1>2. IsTyped /\ Owed /\ [Next]_vars => Owed'
  BY <1>0, OwedNext, AccountSteps
<1>3. Owed => BalanceWrongOnlyByRaceOrCrash
  BY DEF Owed, BalanceWrongOnlyByRaceOrCrash
<1>4. QED
  BY <1>1, <1>2, <1>3, Typing, PTL DEF Spec
=============================================================================
