---------------------------- MODULE PfcpExchange ----------------------------
(***************************************************************************)
(* What the PFCP layer promises its users for the requests they send:      *)
(* each is answered at most once or fails silently, and every request that *)
(* went out is settled one way or the other.                               *)
(***************************************************************************)
CONSTANT Requests

VARIABLE status

Init == status = [m \in Requests |-> "new"]

Move(m, from, to) ==
    /\ status[m] \in from
    /\ status' = [status EXCEPT ![m] = to]

\* The request is accepted by the layer and may be on its way.
Issue(m) == Move(m, {"new"}, "pending")

\* Its response is passed to the caller's handler.
Answer(m) == Move(m, {"pending"}, "answered")

\* It is given up (never sent, resends exhausted, or a write error); nobody
\* is told.
Fail(m) == Move(m, {"new", "pending"}, "failed")

Next == \E m \in Requests : Issue(m) \/ Answer(m) \/ Fail(m)

Settle(m) == status[m] = "pending" /\ (Answer(m) \/ Fail(m))

Safety == Init /\ [][Next]_status

Spec ==
    /\ Safety
    /\ \A m \in Requests : WF_status(Settle(m))
=============================================================================
