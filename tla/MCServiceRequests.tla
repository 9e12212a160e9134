------------------------- MODULE MCServiceRequests -------------------------
(***************************************************************************)
(* A finite instance of ServiceRequests.  PENDING stands for every status  *)
(* the server does not tell apart: staff may set it at any time.  The      *)
(* creator is an employee, who changes and rates the same request.         *)
(***************************************************************************)
EXTENDS ServiceRequests, TLC

CONSTANTS c1, c2

MCCalls == {c1, c2}
MCStatuses == {"PENDING", "ASSIGNED", "CLOSED"}

InterchangeableCalls == Permutations(Calls)
=============================================================================
