------------------------------- MODULE Meters -------------------------------
(***************************************************************************)
(* One meter of a unit: its readings, which residents submit and the staff *)
(* reviews (meters.service.ts), and what the generation of charges bills   *)
(* for them (the PER_CONSUMPTION branch of generateCharges).               *)
(*                                                                         *)
(* A call is a handler in flight; each action is its code from one await   *)
(* to the next.  A period is a month; a charge is the consumption it bills, *)
(* as the rate only scales it.                                             *)
(***************************************************************************)
EXTENDS Naturals, FiniteSets, FiniteSetsExt

CONSTANTS
    Periods,        \* months, in order
    Values,         \* what residents read off the meter
    initialValue,
    Calls           \* handlers that can be in flight at the same time

MetersAssumption ==
    /\ Periods \subseteq Nat \ {0} /\ IsFiniteSet(Periods)
    /\ Values \subseteq Nat
    /\ initialValue \in Nat

VARIABLES
    active,     \* the flag isActive of the meter
    reading,    \* reading[p]: the row of table meter_readings for period p
    charge,     \* charge[p]: what was billed for period p, and from what
    call        \* call[c]: the handler running in slot c

vars == <<active, reading, charge, call>>

NoReading == [status |-> "none", value |-> 0]

\* A charge bills what went through the meter above "above" up to "upto";
\* basis is a history variable: the earlier verified readings at that time.
NoCharge == [made |-> FALSE, above |-> 0, upto |-> 0, basis |-> {}]

Idle == [at |-> "idle", period |-> 0, value |-> 0, above |-> 0, basis |-> {}]

Init ==
    /\ active = TRUE
    /\ reading = [p \in Periods |-> NoReading]
    /\ charge = [p \in Periods |-> NoCharge]
    /\ call = [c \in Calls |-> Idle]

Finish(c) == call' = [call EXCEPT ![c] = Idle]

Begin(c, at, p, v) ==
    call' = [call EXCEPT ![c] = [Idle EXCEPT !.at = at, !.period = p, !.value = v]]

VerifiedReadings ==
    {[period |-> p, value |-> reading[p].value] :
       p \in {q \in Periods : reading[q].status = "VERIFIED"}}

\* The value of the last of some readings, or the value the meter began with.
LastValue(found) ==
    IF found = {} THEN initialValue
    ELSE (CHOOSE r \in found : \A s \in found : s.period <= r.period).value

-----------------------------------------------------------------------------
(* submitReading.                                                          *)

\* The last verified reading, of whatever period.
Baseline == LastValue(VerifiedReadings)

SubmitCheck(c, p, v) ==
    /\ call[c].at = "idle"
    /\ active
    /\ v >= Baseline
    /\ Begin(c, "submitting", p, v)
    /\ UNCHANGED <<active, reading, charge>>

\* A reading of the period is in the way unless it was rejected.
SubmitLook(c) ==
    LET status == reading[call[c].period].status
    IN  /\ call[c].at = "submitting"
        /\ status \in {"none", "REJECTED"}
        /\ call' = [call EXCEPT ![c].at =
                      IF status = "none" THEN "inserting" ELSE "resubmitting"]
        /\ UNCHANGED <<active, reading, charge>>

Pending(v) == [status |-> "PENDING", value |-> v]

\* The insert fails on the unique index of meter and period.
SubmitInsert(c) ==
    LET q == call[c]
    IN  /\ q.at = "inserting"
        /\ IF reading[q.period] = NoReading
             THEN reading' = [reading EXCEPT ![q.period] = Pending(q.value)]
             ELSE UNCHANGED reading
        /\ Finish(c)
        /\ UNCHANGED <<active, charge>>

\* The update is by id: the row may have been reviewed since.
Resubmit(c) ==
    LET q == call[c]
    IN  /\ q.at = "resubmitting"
        /\ reading' = [reading EXCEPT ![q.period] = Pending(q.value)]
        /\ Finish(c)
        /\ UNCHANGED <<active, charge>>

-----------------------------------------------------------------------------
(* reviewReading, updateMeter.                                             *)

\* The row is read only to find its complex; then it is updated by id,
\* whatever its status has become.
ReviewRead(c, p) ==
    /\ call[c].at = "idle"
    /\ reading[p] # NoReading
    /\ Begin(c, "reviewing", p, 0)
    /\ UNCHANGED <<active, reading, charge>>

\* Every status passes the validation of a review, PENDING too.
Outcomes == {"PENDING", "VERIFIED", "REJECTED"}

ReviewCommit(c) ==
    /\ call[c].at = "reviewing"
    /\ \E s \in Outcomes :
         reading' = [reading EXCEPT ![call[c].period].status = s]
    /\ Finish(c)
    /\ UNCHANGED <<active, charge>>

SetActive ==
    /\ active' = ~active
    /\ UNCHANGED <<reading, charge, call>>

-----------------------------------------------------------------------------
(* generateCharges, for this meter and the tariff of its kind.             *)

\* The active meter and the verified reading of the period.
BillRead(c, p) ==
    /\ call[c].at = "idle"
    /\ active
    /\ reading[p].status = "VERIFIED"
    /\ Begin(c, "billing", p, reading[p].value)
    /\ UNCHANGED <<active, reading, charge>>

\* Mutant: only the reading of the month before counts.
Earlier_LastMonth(p) == {r \in VerifiedReadings : r.period = p - 1}

\* Verified readings strictly before the period.
Earlier(p) == {r \in VerifiedReadings : r.period < p}

BillPrevious(c) ==
    LET found == Earlier(call[c].period)
    IN  /\ call[c].at = "billing"
        /\ call' = [call EXCEPT ![c].at = "charging",
                                ![c].above = LastValue(found),
                                ![c].basis =
                       {r \in VerifiedReadings : r.period < call[c].period}]
        /\ UNCHANGED <<active, reading, charge>>

\* A consumption below zero is billed as zero.
Upto(q) == Max({q.above, q.value})

\* Skipped when the charge exists; the unique index catches a late duplicate.
BillCharge(c) ==
    LET q == call[c]
    IN  /\ q.at = "charging"
        /\ IF charge[q.period].made
             THEN UNCHANGED charge
             ELSE charge' = [charge EXCEPT ![q.period] =
                    [made |-> TRUE, above |-> q.above,
                     upto |-> Upto(q), basis |-> q.basis]]
        /\ Finish(c)
        /\ UNCHANGED <<active, reading>>

-----------------------------------------------------------------------------
\* The process dies, or a check or a statement fails.
Abandon(c) ==
    /\ call[c].at # "idle"
    /\ Finish(c)
    /\ UNCHANGED <<active, reading, charge>>

Proceed(c) ==
    \/ SubmitLook(c)
    \/ SubmitInsert(c)
    \/ Resubmit(c)
    \/ ReviewCommit(c)
    \/ BillPrevious(c)
    \/ BillCharge(c)

Next ==
    \/ SetActive
    \/ \E c \in Calls :
         \/ \E p \in Periods :
              \/ \E v \in Values : SubmitCheck(c, p, v)
              \/ ReviewRead(c, p)
              \/ BillRead(c, p)
         \/ Proceed(c)
         \/ Abandon(c)

Spec == Init /\ [][Next]_vars

-----------------------------------------------------------------------------
(* Properties.                                                             *)

\* Rows and handlers have the shape the code gives them.
TypeOK ==
    /\ active \in BOOLEAN
    /\ reading \in [Periods ->
         [status : {"none", "PENDING", "VERIFIED", "REJECTED"},
          value : Values \cup {0}]]
    /\ \A p \in Periods :
         /\ reading[p].status = "none" => reading[p] = NoReading
         /\ charge[p].made \in BOOLEAN
         /\ charge[p].above <= charge[p].upto
    /\ \A c \in Calls : call[c].period \in Periods \cup {0}

Decreasing(found) ==
    \E r, s \in found : r.period < s.period /\ r.value > s.value

\* What one charge bills, no charge of a later period bills again, unless the
\* later one was computed without the reading of the earlier, or from readings
\* that decrease (finance.service.ts:283-303).
BilledAgainOnlyUnseen ==
    \A p, q \in Periods :
        p < q /\ charge[p].made /\ charge[q].made /\ charge[q].above < charge[p].upto =>
            \/ [period |-> p, value |-> charge[p].upto] \notin charge[q].basis
            \/ Decreasing(charge[q].basis)
=============================================================================
