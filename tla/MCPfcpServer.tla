---------------------------- MODULE MCPfcpServer ----------------------------
(***************************************************************************)
(* One UPF; requests of the SMF; dispatches of one report request of the   *)
(* UPF, whose sequence number 1, echoed in the response, is also that of   *)
(* the SMF's first request.                                                *)
(***************************************************************************)
EXTENDS PfcpServer, TLC

CONSTANTS upf, q1, q2, r1, r2

MCDest   == [m \in Requests \cup Responses |-> upf]
MCReqSeq == [m \in Responses |-> 1]
MCRspSeq == [m \in Responses |-> 1]

\* Both requests, and both dispatches, are alike.
TxSymmetry == Permutations({q1, q2}) \cup Permutations({r1, r2})
=============================================================================
