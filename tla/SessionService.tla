--------------------------- MODULE SessionService ---------------------------
(***************************************************************************)
(* What an endpoint opened with "ParallelBySession" promises its clients,  *)
(* with no handler, directory or FIFO in sight: requests of one session    *)
(* are served strictly in arrival order, one at a time, and sessions do    *)
(* not wait for each other.                                                *)
(***************************************************************************)
EXTENDS Naturals

CONSTANTS Session, MaxRequests, NoSession

VARIABLES accepted, owner, status
vars == <<accepted, owner, status>>

Request == 1 .. MaxRequests

Init ==
    /\ accepted = 0
    /\ owner = [n \in Request |-> NoSession]
    /\ status = [n \in Request |-> "unsent"]

Accept(s) ==
    /\ accepted < MaxRequests
    /\ accepted' = accepted + 1
    /\ owner' = [owner EXCEPT ![accepted'] = s]
    /\ status' = [status EXCEPT ![accepted'] = "queued"]

Start(n) ==
    /\ status[n] = "queued"
    /\ \A m \in Request : m < n /\ owner[m] = owner[n] => status[m] = "served"
    /\ status' = [status EXCEPT ![n] = "active"]
    /\ UNCHANGED <<accepted, owner>>

Serve(n) ==
    /\ status[n] = "active"
    /\ status' = [status EXCEPT ![n] = "served"]
    /\ UNCHANGED <<accepted, owner>>

Next ==
    \/ \E s \in Session : Accept(s)
    \/ \E n \in Request : Start(n) \/ Serve(n)

Spec == Init /\ [][Next]_vars
=============================================================================
