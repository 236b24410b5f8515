------------------------------- MODULE GmmLife -------------------------------
(***************************************************************************)
(* The life of an AmfUe as the rest of the AMF sees it: what ngap/         *)
(* handler.go, n1n2message.go and AmfNgap rely on when they look at        *)
(* ue.State.  AmfGmm implements it with the GMM state machine and timers.  *)
(***************************************************************************)

VARIABLE
    phase   \* "Disordered": the UE has sent an identity nobody asked for

Phases == {"Deregistered", "Registering", "Registered", "Leaving", "Disordered", "Removed"}

Init == phase = "Deregistered"

Request    == phase \in {"Deregistered", "Registered"} /\ phase' = "Registering"
Accepted   == phase = "Registering" /\ phase' = "Registered"
Refused    == phase = "Registering" /\ phase' = "Deregistered"
Deregister == phase = "Registered" /\ phase' \in {"Deregistered", "Leaving"}
Remove     == phase # "Removed" /\ phase' = "Removed"
Disorder   == phase = "Registering" /\ phase' = "Disordered"

Next == Request \/ Accepted \/ Refused \/ Deregister \/ Remove \/ Disorder

Spec == Init /\ [][Next]_phase
=============================================================================
