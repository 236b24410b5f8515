------------------------------- MODULE AmfGmm -------------------------------
(***************************************************************************)
(* One AmfUe on 3GPP access: the GMM state machine (src/amf/gmm) and the   *)
(* timers that retransmit what the AMF sent, T3560 for authentication and  *)
(* security mode and T3550 for the registration accept.                    *)
(*                                                                         *)
(* The AmfUe is the record ue; each function of the code is an operator    *)
(* that returns the record it leaves, and a message handler is one step.   *)
(***************************************************************************)
EXTENDS NasTimer

CONSTANTS MaxT3550RetryTimes, MaxT3560RetryTimes

ASSUME GmmAssumption ==
    /\ MaxT3550RetryTimes \in Nat \ {0}
    /\ MaxT3560RetryTimes \in Nat

GmmStates == {"Deregistered", "Authentication", "SecurityMode", "ContextSetup",
              "Registered", "DeregistrationInitiated"}

VARIABLES
    ue,     \* the AmfUe and its timers, see UeType
    quiet   \* nothing more arrives from the UE

vars == <<ue, quiet>>

UeType == [
    state     : GmmStates,                      \* State[3GPP]
    alive     : BOOLEAN,                        \* Remove has not been called
    conn      : BOOLEAN,                        \* RanUe[3GPP] exists
    pooled    : BOOLEAN,                        \* in UePool
    ident     : BOOLEAN,                        \* Supi or Suci known
    guti      : BOOLEAN,                        \* IdentityTypeUsedForRegistration
    pei       : BOOLEAN,                        \* Pei known
    sec       : BOOLEAN,                        \* SecurityContextAvailable
    ctx       : {"nil", "aka", "eap"},          \* AuthenticationCtx
    synch     : 0..1,                           \* AuthFailureCauseSynchFailureTimes
    req       : {"none", "initial", "update"},  \* RegistrationRequest, its type
    t3550     : TimerType,
    t3560     : TimerType,
    panic     : {"no", "message", "abort", "reset3550", "reset3560"},
                                                \* the nil dereference that ended the AMF
    asked     : BOOLEAN,                        \* history: the last request was for an identity
    unasked   : BOOLEAN,                        \* history: an identity came when it was not
    confirmed : BOOLEAN]                        \* history: the AUSF has confirmed the UE

Panic(a, where) == [a EXCEPT !.panic = where]

----------------------------------------------------------------------------
(* util/timer.go and gmm/message/send.go                                   *)

StopT3550(a) == [a EXCEPT !.t3550 = Stopped(@)]
StopT3560(a) == [a EXCEPT !.t3560 = Stopped(@)]

SendIdentityRequest(a) == [a EXCEPT !.asked = TRUE]

SendAuthenticationRequest(a) ==
    IF a.ctx = "nil" THEN a ELSE [a EXCEPT !.t3560 = Started(@), !.asked = FALSE]

\* BuildSecurityModeCommand makes the security context available.
SendSecurityModeCommand(a) ==
    [a EXCEPT !.sec = TRUE, !.t3560 = Started(@), !.asked = FALSE]

SendRegistrationAccept(a) == [a EXCEPT !.t3550 = Started(@), !.asked = FALSE]

----------------------------------------------------------------------------
(* The state machine.  SendEvent runs exit, event and entry callbacks; an  *)
(* operator Enter... is state.Set and the entry callback of that state.    *)

\* RanUe[accessType] is dereferenced without a check.
ClearRegistrationRequestData(a) ==
    LET b == [a EXCEPT !.req = "none", !.guti = FALSE, !.synch = 0]
    IN  IF a.conn THEN b ELSE Panic(b, "abort")

EnterDeregistered(a) == ClearRegistrationRequestData([a EXCEPT !.state = "Deregistered"])

EnterRegistered(a) == ClearRegistrationRequestData([a EXCEPT !.state = "Registered"])

\* The Ksi of a handled request is never 7 (no key).
SecurityContextIsValid(a, macFailed) == a.sec /\ ~macFailed

\* How HandleInitialRegistration or HandleMobilityAndPeriodicRegistration-
\* Updating end: refused or a network function failed; accepted; or an update
\* whose accept has no timer, as the RanUe has no UeContextRequest ("plain") or
\* a stored N1 message and a session setup go out instead ("setup").
Outcomes == {"error", "accept", "plain", "setup"}

HandleInitialRegistration(a) ==
    IF a.pei THEN SendRegistrationAccept([a EXCEPT !.pooled = TRUE]) ELSE SendIdentityRequest(a)

HandleMobilityAndPeriodicRegistrationUpdating(a, out) ==
    CASE ~a.pei                    -> SendIdentityRequest(a)
      [] a.pei /\ out = "setup"    -> a
      [] a.pei /\ out = "plain"    -> ClearRegistrationRequestData(a)
      [] a.pei /\ out \in {"accept", "error"} -> SendRegistrationAccept(a)

Register(a, out) ==
    CASE a.req = "none"    -> a
      [] a.req = "initial" -> HandleInitialRegistration(a)
      [] a.req = "update"  -> HandleMobilityAndPeriodicRegistrationUpdating(a, out)

\* An error is only logged.
EnterContextSetup(a, out) ==
    LET b == [a EXCEPT !.state = "ContextSetup"]
    IN  IF out = "error" THEN b ELSE Register(b, out)

EnterSecurityMode(a, macFailed, out) ==
    LET b == [a EXCEPT !.state = "SecurityMode", !.ctx = "nil", !.synch = 0]
    IN  IF SecurityContextIsValid(b, macFailed) THEN EnterContextSetup(b, out)
        ELSE SendSecurityModeCommand(b)

\* ausf: the authentication method, or "error".
AuthenticationProcedure(a, macFailed, ausf, out) ==
    IF ~a.ident THEN SendIdentityRequest(a)
    ELSE IF SecurityContextIsValid(a, macFailed) THEN EnterSecurityMode(a, macFailed, out)
    ELSE IF ausf = "error" THEN a
    ELSE SendAuthenticationRequest([a EXCEPT !.ctx = ausf])

\* AuthFailEvent; leaving Authentication clears its data.
AuthFail(a) == EnterDeregistered([a EXCEPT !.ctx = "nil", !.synch = 0])

----------------------------------------------------------------------------
Init ==
    /\ ue = [state |-> "Deregistered", alive |-> TRUE, conn |-> TRUE, pooled |-> FALSE,
             ident |-> FALSE, guti |-> FALSE, pei |-> FALSE, sec |-> FALSE,
             ctx |-> "nil", synch |-> 0, req |-> "none", t3550 |-> NoTimer, t3560 |-> NoTimer,
             panic |-> "no", asked |-> FALSE, unasked |-> FALSE, confirmed |-> FALSE]
    /\ quiet = FALSE

\* Bound: at most MaxStray timers of a kind are lost.
Leave(a) ==
    /\ ue.panic = "no"
    /\ a.t3550.stray <= MaxStray /\ a.t3560.stray <= MaxStray
    /\ ue' = a
    /\ UNCHANGED quiet

\* What a message finds: the connection it comes in on, or the new one that
\* HandleInitialUEMessage attached to the AmfUe found in UePool by its GUTI.
Connected ==
    IF quiet THEN {}
    ELSE IF ue.conn THEN {ue}
    ELSE IF ue.alive /\ ue.pooled THEN {[ue EXCEPT !.conn = TRUE]}
    ELSE {}

----------------------------------------------------------------------------
(* gmm/handler.go.  A message the state does not expect is only logged.    *)

\* id: the identity it carries; ok: the checks passed and StartAuthEvent follows.
HandleRegistrationRequest(type, id, ok, macFailed, ausf, out) ==
    \E a \in Connected :
        LET b == [a EXCEPT !.req = type, !.guti = (id = "guti"), !.ident = @ \/ id = "suci"]
        IN  /\ a.state \in {"Deregistered", "Registered"}
            /\ Leave(IF ok THEN AuthenticationProcedure(
                                  [b EXCEPT !.state = "Authentication"], macFailed, ausf, out)
                     ELSE b)

\* A PEI that fails the integrity check is not stored.
HandleIdentityResponse(a, id, macFailed) ==
    [a EXCEPT !.ident   = @ \/ id = "suci",
              !.pei     = @ \/ (id = "pei" /\ ~macFailed),
              !.asked   = FALSE,
              !.unasked = @ \/ ~a.asked]

\* AuthRestartEvent.
IdentityForAuthentication(id, macFailed, ausf, out) ==
    \E a \in Connected :
        /\ a.state = "Authentication"
        /\ Leave(AuthenticationProcedure(HandleIdentityResponse(a, id, macFailed), macFailed, ausf, out))

\* Here an error is a ContextSetupFailEvent.
IdentityForContextSetup(id, macFailed, out) ==
    \E a \in Connected :
        LET b == HandleIdentityResponse(a, id, macFailed)
        IN  /\ a.state = "ContextSetup"
            /\ Leave(IF out = "error" /\ a.req # "none" THEN EnterDeregistered(b) ELSE Register(b, out))

\* Mutant: a failed confirmation is taken for a success.
BlindAuthenticated(a, result, macFailed, out) == EnterSecurityMode(a, macFailed, out)

\* result of the comparison of HRES* and of the confirmation by the AUSF.
\* EAP success sends an event that Authentication has no transition for.
Authenticated(a, result, macFailed, out) ==
    CASE result = "success" /\ a.ctx = "aka" ->
           EnterSecurityMode([a EXCEPT !.confirmed = TRUE, !.ident = TRUE], macFailed, out)
      [] result = "success" /\ a.ctx = "eap" -> [a EXCEPT !.confirmed = TRUE, !.ident = TRUE]
      [] result = "failure" -> IF a.guti THEN SendIdentityRequest(a) ELSE AuthFail(a)
      [] result = "ongoing" /\ a.ctx = "eap" -> SendAuthenticationRequest(a)
      [] OTHER -> a

HandleAuthenticationResponse(result, macFailed, out) ==
    \E a \in Connected :
        LET b == StopT3560(a)
        IN  /\ a.state = "Authentication"
            /\ Leave(IF a.ctx = "nil" THEN b ELSE Authenticated(b, result, macFailed, out))

\* cause "mac" stands for MAC failure and non-5G authentication unacceptable.
AuthenticationFailed(a, cause, ausf) ==
    CASE cause = "mac" /\ a.ctx = "aka" -> AuthFail(a)
      [] cause = "ngksi" ->
           SendAuthenticationRequest([a EXCEPT !.synch = IF a.ctx = "aka" THEN 0 ELSE @])
      [] cause = "synch" /\ a.ctx = "aka" ->
           IF a.synch = 1 THEN AuthFail(a)
           ELSE IF ausf = "error" THEN [a EXCEPT !.synch = 1]
           ELSE SendAuthenticationRequest([a EXCEPT !.synch = 1, !.ctx = ausf])
      [] OTHER -> a

\* AuthenticationCtx is dereferenced whatever was sent before.
HandleAuthenticationFailure(cause, ausf) ==
    \E a \in Connected :
        LET b == StopT3560(a)
        IN  /\ a.state = "Authentication"
            /\ Leave(IF a.ctx = "nil" THEN Panic(b, "message")
                     ELSE AuthenticationFailed(b, cause, ausf))

\* container: the message the NAS message container holds.  For a service
\* request a nil RegistrationRequest is handed on and dereferenced.
HandleSecurityModeComplete(container, imeisv, out) ==
    \E a \in Connected :
        LET b == [StopT3560(a) EXCEPT !.pei = @ \/ imeisv]
        IN  /\ a.state = "SecurityMode"
            /\ Leave(CASE container = "bad"          -> b
                       [] container = "service"      -> Panic([b EXCEPT !.state = "ContextSetup"], "message")
                       [] container = "registration" -> EnterContextSetup(b, out))

HandleSecurityModeReject ==
    \E a \in Connected :
        /\ a.state = "SecurityMode"
        /\ Leave(EnterDeregistered(StopT3560(a)))

\* Mutant: the registration timer goes on.
UnstoppedHandleRegistrationComplete ==
    \E a \in Connected :
        /\ a.state = "ContextSetup"
        /\ Leave(IF a.req = "none" THEN Panic(a, "message") ELSE EnterRegistered(a))

\* RegistrationRequest is dereferenced; an accepted update without context
\* request has already cleared it.  The release command is AmfNgap's.
HandleRegistrationComplete ==
    \E a \in Connected :
        LET b == StopT3550(a)
        IN  /\ a.state = "ContextSetup"
            /\ Leave(IF a.req = "none" THEN Panic(b, "message") ELSE EnterRegistered(b))

\* For the other access DeregistrationAcceptEvent goes to the other State.
HandleDeregistrationRequest(otherAccess) ==
    \E a \in Connected :
        LET b == [a EXCEPT !.state = "DeregistrationInitiated"]
        IN  /\ a.state = "Registered"
            /\ Leave(IF otherAccess THEN b ELSE EnterDeregistered(b))

----------------------------------------------------------------------------
(* What ends a connection or the AmfUe, see AmfNgap.                       *)

RanUeRemoved ==
    /\ ue.conn
    /\ Leave([ue EXCEPT !.conn = FALSE])

Remove(a) == [a EXCEPT !.alive = FALSE, !.conn = FALSE]

AmfUeRemoved ==
    /\ ue.conn \/ (ue.pooled /\ ue.alive)
    /\ Leave(Remove(ue))

----------------------------------------------------------------------------
(* The callbacks of the timers: gmm/message/send.go.                       *)

ExpireT3550 ==
    /\ ue.t3550.running < MaxRunning
    /\ \/ ue.t3550.armed     /\ Leave([ue EXCEPT !.t3550 = OwnExpired(@)])
       \/ ue.t3550.stray > 0 /\ Leave([ue EXCEPT !.t3550 = StrayExpired(@)])

ExpireT3560 ==
    /\ ue.t3560.running < MaxRunning
    /\ \/ ue.t3560.armed     /\ Leave([ue EXCEPT !.t3560 = OwnExpired(@)])
       \/ ue.t3560.stray > 0 /\ Leave([ue EXCEPT !.t3560 = StrayExpired(@)])

\* The UE is taken for registered.
AbortT3550(a) ==
    LET b == EnterRegistered(a)
    IN  IF b.panic = "no" THEN StopT3550(b) ELSE b

\* Mutant: the procedure is aborted, the AmfUe stays.
LenientAbortT3560(a) == StopT3560(a)

AbortT3560(a) == Remove(StopT3560(a))

\* Mutant: there is no last expiry.
EndlessCallbackT3550 ==
    LET a == [ue EXCEPT !.t3550 = Counted(@)]
    IN  /\ ue.t3550.running > 0
        /\ Leave(IF ~a.t3550.ptr THEN Panic(a, "reset3550") ELSE [a EXCEPT !.t3550 = Reset(@)])

\* The message is sent again and the timer the AmfUe points to now is reset.
CallbackT3550 ==
    LET a == [ue EXCEPT !.t3550 = Counted(@)]
    IN  /\ ue.t3550.running > 0
        /\ Leave(IF a.t3550.retry > MaxT3550RetryTimes THEN AbortT3550(a)
                 ELSE IF ~a.t3550.ptr THEN Panic(a, "reset3550")
                 ELSE [a EXCEPT !.t3550 = Reset(@)])

CallbackT3560 ==
    LET a == [ue EXCEPT !.t3560 = Counted(@)]
    IN  /\ ue.t3560.running > 0
        /\ Leave(IF a.t3560.retry > MaxT3560RetryTimes THEN AbortT3560(a)
                 ELSE IF ~a.t3560.ptr THEN Panic(a, "reset3560")
                 ELSE [a EXCEPT !.t3560 = Reset(@)])

----------------------------------------------------------------------------
FallQuiet ==
    /\ ~quiet
    /\ ue.panic = "no"
    /\ Live(ue.t3550) \/ Live(ue.t3560)
    /\ quiet' = TRUE
    /\ UNCHANGED ue

Ausf == {"aka", "eap", "error"}

Message ==
    \/ \E macFailed \in BOOLEAN, out \in Outcomes :
         \/ \E ausf \in Ausf :
              \/ \E type \in {"initial", "update"}, id \in {"suci", "guti", "none"}, ok \in BOOLEAN :
                   HandleRegistrationRequest(type, id, ok, macFailed, ausf, out)
              \/ \E id \in {"suci", "pei"} : IdentityForAuthentication(id, macFailed, ausf, out)
         \/ \E id \in {"suci", "pei"} : IdentityForContextSetup(id, macFailed, out)
         \/ \E result \in {"success", "failure", "ongoing", "error"} :
              HandleAuthenticationResponse(result, macFailed, out)
    \/ \E cause \in {"mac", "ngksi", "synch", "other"}, ausf \in Ausf :
         HandleAuthenticationFailure(cause, ausf)
    \/ \E container \in {"registration", "service", "bad"}, imeisv \in BOOLEAN, out \in Outcomes :
         HandleSecurityModeComplete(container, imeisv, out)
    \/ HandleSecurityModeReject
    \/ HandleRegistrationComplete
    \/ \E otherAccess \in BOOLEAN : HandleDeregistrationRequest(otherAccess)

Next ==
    \/ Message
    \/ RanUeRemoved \/ AmfUeRemoved
    \/ ExpireT3550 \/ CallbackT3550
    \/ ExpireT3560 \/ CallbackT3560
    \/ FallQuiet

\* Timers expire and their goroutines are scheduled.
Fairness ==
    /\ WF_vars(ExpireT3550) /\ WF_vars(CallbackT3550)
    /\ WF_vars(ExpireT3560) /\ WF_vars(CallbackT3560)

Spec == Init /\ [][Next]_vars /\ Fairness

----------------------------------------------------------------------------
\* Every variable has its type, and a retransmission counter stays within its
\* maximum.
TypeOK ==
    /\ ue \in UeType
    /\ ue.t3550.retry <= MaxT3550RetryTimes + 1
    /\ ue.t3560.retry <= MaxT3560RetryTimes
    /\ quiet \in BOOLEAN

\* A UE gets past authentication only after the AUSF has confirmed it, be it
\* in this registration or in an earlier one of this AmfUe: neither a skipped
\* procedure nor the abort of T3550, which sets Registered by itself, leads
\* there before.
OnlyConfirmed ==
    ue.state \in {"SecurityMode", "ContextSetup", "Registered", "DeregistrationInitiated"}
        => ue.confirmed

\* As long as the UE sends an identity only when that is what it was asked for,
\* each timer belongs to the state that started it: an authentication or
\* security mode timer never outlives these states (its abort would remove a
\* registered UE), a registration timer never outlives ContextSetup (its abort
\* would register a UE by itself), and no timer runs that StopT35xx would miss.
TimersFollowState ==
    ue.panic = "no" /\ ~ue.unasked =>
        /\ ue.t3560.stray = 0 /\ ue.t3550.stray = 0
        /\ ue.t3560.ptr => ue.state \in {"Authentication", "SecurityMode"}
        /\ ue.t3550.ptr => ue.state = "ContextSetup"

\* A callback finds its timer gone (T35xx.Reset on nil ends the AMF) only if
\* the timer was stopped when the callback had begun, or had been started a
\* second time and only the second one was stopped.
ResetFindsTimer ==
    /\ ue.panic = "reset3550" => ue.t3550.lost
    /\ ue.panic = "reset3560" => ue.t3560.lost

\* The life of the AmfUe, for the rest of the AMF.
Phase ==
    IF ~ue.alive THEN "Removed"
    ELSE IF ue.unasked THEN "Disordered"
    ELSE CASE ue.state \in {"Authentication", "SecurityMode", "ContextSetup"} -> "Registering"
           [] ue.state = "DeregistrationInitiated" -> "Leaving"
           [] ue.state \in {"Deregistered", "Registered"} -> ue.state

Life == INSTANCE GmmLife WITH phase <- Phase

\* The state machine and its timers implement GmmLife.
ImplementsLife == Life!Spec

\* When nothing arrives any more, every timer stops after a bounded number of
\* retransmissions.
TimersEnd == quiet ~> (ue.panic # "no" \/ ~(Live(ue.t3550) \/ Live(ue.t3560)))

\* A UE that does not answer an authentication request or a security mode
\* command is given up: its AmfUe is removed.
GivenUp == (quiet /\ ue.t3560.ptr) ~> (ue.panic # "no" \/ ~ue.alive)
=============================================================================
