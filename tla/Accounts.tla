------------------------------ MODULE Accounts ------------------------------
(***************************************************************************)
(* The personal accounts of a complex (finance.service.ts): charges that a *)
(* batch generates for a month, by the cron or by hand, payments that the  *)
(* staff records, and the stored balance, computed again after both.       *)
(*                                                                         *)
(* A call is a handler in flight; each action is its code from one await   *)
(* to the next.  Nothing is a transaction.  A balance is kept as the two   *)
(* counts it is the difference of, so that errors cannot cancel.           *)
(***************************************************************************)
EXTENDS Naturals, FiniteSets

CONSTANTS
    Accounts,
    Tariffs,        \* the active tariffs of the complex
    Metered,        \* those that bill by consumption
    Periods,
    MaxPayments,    \* bound on the payments to one account
    Calls,          \* handlers that can be in flight at the same time
    None

AccountsAssumption ==
    /\ IsFiniteSet(Accounts) /\ IsFiniteSet(Tariffs) /\ IsFiniteSet(Periods)
    /\ Metered \subseteq Tariffs
    /\ MaxPayments \in Nat
    /\ None \notin Accounts \cup Periods

Charge == [account : Accounts, tariff : Tariffs, period : Periods]

VARIABLES
    charges,    \* the rows of table charges
    paid,       \* paid[a]: the number of payments to account a
    balance,    \* balance[a]: the stored balance
    raced,      \* history: accounts whose last recalculation overlapped another
    broken,     \* history: accounts owed a recalculation by a handler that died
    call        \* call[c]: the handler running in slot c

vars == <<charges, paid, balance, raced, broken, call>>

\* todo: what a batch still has to charge; owed: accounts it must recalculate;
\* account: the one under recalculation, from the sums read so far.
Idle == [at |-> "idle", period |-> None, todo |-> {}, owed |-> {},
         account |-> None, paid |-> 0, charged |-> 0, alone |-> TRUE]

Init ==
    /\ charges = {}
    /\ paid = [a \in Accounts |-> 0]
    /\ balance = [a \in Accounts |-> [paid |-> 0, charged |-> 0]]
    /\ raced = {}
    /\ broken = {}
    /\ call = [c \in Calls |-> Idle]

Charged(a) == Cardinality({h \in charges : h.account = a})

-----------------------------------------------------------------------------
(* generateCharges.                                                        *)

GenerateStart(c, p) ==
    /\ call[c].at = "idle"
    /\ call' = [call EXCEPT ![c] = [Idle EXCEPT !.at = "charging", !.period = p,
                                                !.todo = Accounts \X Tariffs]]
    /\ UNCHANGED <<charges, paid, balance, raced, broken>>

\* Mutant: an account is remembered when its charge was there already.
Affected_Skipped(made, a) == IF made THEN {} ELSE {a}

Affected(made, a) == IF made THEN {a} ELSE {}

\* One charge, skipped when it exists; a duplicate that comes between the
\* check and the insert fails on the unique index and is skipped too.
GenerateOne(c) ==
    \E a \in Accounts, t \in Tariffs :
        LET row == [account |-> a, tariff |-> t, period |-> call[c].period]
        IN  /\ call[c].at = "charging"
            /\ <<a, t>> \in call[c].todo
            /\ charges' = charges \cup {row}
            /\ call' = [call EXCEPT
                 ![c].todo = @ \ {<<a, t>>},
                 ![c].owed = @ \cup Affected(row \notin charges, a)]
            /\ UNCHANGED <<paid, balance, raced, broken>>

\* A tariff by consumption is skipped when the unit has no active meter or no
\* verified reading of the period: what Meters decides is left open here.
GenerateSkip(c) ==
    \E a \in Accounts, t \in Metered :
        /\ call[c].at = "charging"
        /\ <<a, t>> \in call[c].todo
        /\ call' = [call EXCEPT ![c].todo = @ \ {<<a, t>>}]
        /\ UNCHANGED <<charges, paid, balance, raced, broken>>

GenerateTurn(c) ==
    /\ call[c].at = "charging"
    /\ call[c].todo = {}
    /\ call' = [call EXCEPT ![c].at = "balancing"]
    /\ UNCHANGED <<charges, paid, balance, raced, broken>>

-----------------------------------------------------------------------------
(* recordPayment.                                                          *)

RecordPayment(c, a) ==
    /\ call[c].at = "idle"
    /\ paid[a] < MaxPayments
    /\ paid' = [paid EXCEPT ![a] = @ + 1]
    /\ call' = [call EXCEPT ![c] =
         [Idle EXCEPT !.at = "balancing", !.owed = {a}]]
    /\ UNCHANGED <<charges, balance, raced, broken>>

-----------------------------------------------------------------------------
(* recalculateBalance: two sums, then the write.                           *)

Recalculates(c, a) ==
    call[c].at \in {"summing", "writing"} /\ call[c].account = a

\* alone is a history variable: no recalculation of the account overlapped, and
\* no handler died meanwhile that owed it one.
SumPayments(c, a) ==
    LET others == {d \in Calls : Recalculates(d, a)}
    IN  /\ call[c].at = "balancing"
        /\ a \in call[c].owed
        /\ call' = [d \in Calls |->
             IF d = c
               THEN [call[c] EXCEPT !.at = "summing", !.account = a,
                                    !.owed = @ \ {a}, !.paid = paid[a],
                                    !.alone = (others = {})]
               ELSE [call[d] EXCEPT !.alone = @ /\ d \notin others]]
        /\ UNCHANGED <<charges, paid, balance, raced, broken>>

SumCharges(c) ==
    /\ call[c].at = "summing"
    /\ call' = [call EXCEPT ![c].at = "writing",
                            ![c].charged = Charged(call[c].account)]
    /\ UNCHANGED <<charges, paid, balance, raced, broken>>

NewBalance(q) == [paid |-> q.paid, charged |-> q.charged]

WriteBalance(c) ==
    LET q == call[c]
        a == q.account
    IN  /\ q.at = "writing"
        /\ balance' = [balance EXCEPT ![a] = NewBalance(q)]
        /\ raced' = IF q.alone THEN raced \ {a} ELSE raced \cup {a}
        /\ broken' = IF q.alone THEN broken \ {a} ELSE broken
        /\ call' = [call EXCEPT ![c] = [Idle EXCEPT
             !.at = "balancing", !.period = q.period, !.owed = q.owed]]
        /\ UNCHANGED <<charges, paid>>

Answer(c) ==
    /\ call[c].at = "balancing"
    /\ call[c].owed = {}
    /\ call' = [call EXCEPT ![c] = Idle]
    /\ UNCHANGED <<charges, paid, balance, raced, broken>>

\* Accounts with a new charge or payment that the handler has not settled yet.
Owes(c) == call[c].owed \cup ({call[c].account} \ {None})

\* The process dies, or a statement fails.
Abandon(c) ==
    /\ call[c].at # "idle"
    /\ broken' = broken \cup Owes(c)
    /\ call' = [d \in Calls |->
         IF d = c THEN Idle
         ELSE [call[d] EXCEPT !.alone = @ /\ call[d].account \notin Owes(c)]]
    /\ UNCHANGED <<charges, paid, balance, raced>>

-----------------------------------------------------------------------------
Recalculate(c) ==
    \/ \E a \in Accounts : SumPayments(c, a)
    \/ SumCharges(c)
    \/ WriteBalance(c)
    \/ Answer(c)

Next ==
    \E c \in Calls :
        \/ \E p \in Periods : GenerateStart(c, p)
        \/ GenerateOne(c)
        \/ GenerateSkip(c)
        \/ GenerateTurn(c)
        \/ \E a \in Accounts : RecordPayment(c, a)
        \/ Recalculate(c)
        \/ Abandon(c)

Spec == Init /\ [][Next]_vars

-----------------------------------------------------------------------------
(* Properties.                                                             *)

Handler ==
    [at : {"idle", "charging", "balancing", "summing", "writing"},
     period : Periods \cup {None}, todo : SUBSET (Accounts \X Tariffs),
     owed : SUBSET Accounts, account : Accounts \cup {None},
     paid : 0 .. MaxPayments, charged : Nat, alone : BOOLEAN]

\* Rows and handlers have the shape the code gives them.
TypeOK ==
    /\ charges \subseteq Charge
    /\ paid \in [Accounts -> 0 .. MaxPayments]
    /\ balance \in [Accounts -> [paid : 0 .. MaxPayments, charged : Nat]]
    /\ raced \subseteq Accounts
    /\ broken \subseteq Accounts
    /\ call \in [Calls -> Handler]

Exact(a) == balance[a] = [paid |-> paid[a], charged |-> Charged(a)]

\* No handler has still to recalculate the account.
Settled(a) == \A c \in Calls : a \notin Owes(c)

\* However batches, payments and recalculations interleave, a settled balance
\* is exact, except after two recalculations that overlapped or a handler that
\* died owing one; and one undisturbed recalculation repairs both
\* (lines 352-355, 393, 571-591).
BalanceWrongOnlyByRaceOrCrash ==
    \A a \in Accounts : Settled(a) /\ a \notin raced \cup broken => Exact(a)

\* The stored balance never counts what does not exist.
BalanceNeverAhead ==
    \A a \in Accounts :
        balance[a].paid <= paid[a] /\ balance[a].charged <= Charged(a)
=============================================================================
