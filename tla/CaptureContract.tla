-------------------------- MODULE CaptureContract --------------------------
(***************************************************************************)
(* What the capture pipeline promises: once the capture is closed, and not *)
(* before, its outcome may be a test result, and that result is computed   *)
(* from exactly the logs that were captured.  Any other outcome says       *)
(* nothing about them.                                                     *)
(***************************************************************************)
EXTENDS Integers

CONSTANTS Trace, Outcome

VARIABLES
    captured,   \* the pieces captured so far, of each connection with a log
    closed,     \* nothing more is captured
    outcome,    \* what the pipeline reports in the end
    report      \* the logs a test result was computed from

contractVars == <<captured, closed, outcome, report>>

None == [t \in {} |-> 0]
IsLogs(f) == DOMAIN f \subseteq Trace /\ f \in [DOMAIN f -> Nat]

Init == captured = None /\ closed = FALSE /\ outcome = "none" /\ report = None

(* Connections appear and logs grow; one that received nothing may go. *)
Capture ==
    /\ ~closed
    /\ IsLogs(captured')
    /\ \A t \in DOMAIN captured :
          captured[t] > 0
              => t \in DOMAIN captured' /\ captured'[t] >= captured[t]
    /\ UNCHANGED <<closed, outcome, report>>

Close ==
    /\ ~closed
    /\ closed' = TRUE
    /\ UNCHANGED <<captured, outcome, report>>

Judge ==
    /\ closed /\ outcome = "none"
    /\ outcome' = "result" /\ report' = captured
    /\ UNCHANGED <<captured, closed>>

GiveUp ==
    /\ outcome = "none"
    /\ outcome' \in Outcome \ {"none", "result"}
    /\ UNCHANGED <<captured, closed, report>>

Next == Capture \/ Close \/ Judge \/ GiveUp

Spec == Init /\ [][Next]_contractVars
=============================================================================
