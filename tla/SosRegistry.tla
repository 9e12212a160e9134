---------------------------- MODULE SosRegistry ----------------------------
(***************************************************************************)
(* What the SOS component promises its users, without requests, snapshots  *)
(* or transactions: an alert is raised once, taken by at most one employee *)
(* and closed once, by the employee who took it, and the shift journal     *)
(* gains its single note about the alert in the closing step itself.       *)
(***************************************************************************)
CONSTANTS Alerts, Staff, Nobody

VARIABLES
    phase,      \* phase[a]: "unborn", "open" or "closed"
    taker,      \* taker[a]: the employee responsible for a, or Nobody
    journal     \* journal[a]: the authors of the journal notes about a

registryVars == <<phase, taker, journal>>

Init ==
    /\ phase = [a \in Alerts |-> "unborn"]
    /\ taker = [a \in Alerts |-> Nobody]
    /\ journal = [a \in Alerts |-> <<>>]

Raise(a) ==
    /\ phase[a] = "unborn"
    /\ phase' = [phase EXCEPT ![a] = "open"]
    /\ UNCHANGED <<taker, journal>>

Take(a, s) ==
    /\ phase[a] = "open"
    /\ taker[a] = Nobody
    /\ taker' = [taker EXCEPT ![a] = s]
    /\ UNCHANGED <<phase, journal>>

\* Closing an alert nobody took records the closer as its taker.
Close(a, s) ==
    /\ phase[a] = "open"
    /\ taker[a] \in {Nobody, s}
    /\ phase' = [phase EXCEPT ![a] = "closed"]
    /\ taker' = [taker EXCEPT ![a] = s]
    /\ journal' = [journal EXCEPT ![a] = <<s>>]

Next ==
    \E a \in Alerts :
        \/ Raise(a)
        \/ \E s \in Staff : Take(a, s) \/ Close(a, s)

Spec == Init /\ [][Next]_registryVars
=============================================================================
