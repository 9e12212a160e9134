---------------------------- MODULE MCSosAlerts ----------------------------
(***************************************************************************)
(* A finite instance of SosAlerts: the slots and the rows are              *)
(* interchangeable, and so are the employees who may process alerts.       *)
(***************************************************************************)
EXTENDS SosAlerts, TLC

CONSTANTS r1, r2, r3, guard, dispatcher, chairman

MCRequests == {r1, r2, r3}
MCProcessors == {guard, dispatcher}
MCStaff == {guard, dispatcher, chairman}

Interchangeable ==
    Permutations(Requests) \cup Permutations(Alerts)
        \cup Permutations(Processors)
=============================================================================
