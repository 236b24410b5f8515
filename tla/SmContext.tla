------------------------------ MODULE SmContext ------------------------------
(***************************************************************************)
(* One session-management context of the SMF over its life: the SBI        *)
(* handlers of src/smf/producer/pdu_session.go, each in the goroutine of   *)
(* its HTTP request, and the PFCP response handlers of                     *)
(* src/smf/pfcp/handler, each in a goroutine started by udp.Run, share the *)
(* SMContext without a lock and meet in SBIPFCPCommunicationChan.  A step  *)
(* here is the code between two accesses to that shared state.             *)
(*                                                                         *)
(* The session has one data path (ULCLSupport off): the UPFs of Path,      *)
(* beginning with AN.  The PFCP layer is used as PfcpExchange promises:    *)
(* one response to a request at most, in any order, or none if it is       *)
(* Lossy.  The UPFs are those of src/upf, which do not answer a request    *)
(* whose session they cannot find.                                         *)
(***************************************************************************)
EXTENDS Naturals, Sequences, FiniteSets

CONSTANTS
    Path,       \* the UPFs of the session's data path
    AN,         \* dataPath.FirstDPNode
    Sbi,        \* SBI requests of the AMF for this context, one goroutine each
    MaxSbi,     \* how many of them the AMF has open at a time
    Ops,        \* what they may ask for
    Early,      \* TRUE: the AMF's requests may overtake the establishment
    Lossy       \* PFCP requests may fail silently

ModifyOps  == {"DEACTIVATED", "SETUP_RSP", "PATH_SWITCH_REQ"}
\* ACTIVATING, PATH_SWITCH_SETUP_FAIL, HANDOVER_REQUIRED and every HoState.
PendingOps == {"Pending"}
DeleteOps  == {"ReleaseRequest", "DuplicateSessionId", "Release"}
FinishOps  == {"ReleaseComplete", "REL_RSP"}
\* An Update whose N2SmInfoType has no case (PDU_RES_SETUP_FAIL, ...).
OtherOps   == {"Other"}
AllOps     == ModifyOps \cup PendingOps \cup DeleteOps \cup FinishOps \cup OtherOps

ASSUME SmAssumption ==
    /\ AN \in Path
    /\ Sbi \cap Path = {}
    /\ MaxSbi \in Nat
    /\ Ops \subseteq AllOps
    /\ Early \in BOOLEAN
    /\ Lossy \in BOOLEAN

VARIABLES
    state,      \* smContext.SMContextState
    pool,       \* the context is in smContextPool and seidSMContextMap
    created,    \* how HandlePDUSessionSMContextCreate ended
    tunnelUp,   \* the PDRs of AN exist and dataPath.Activated
    dupRelease, \* smContext.PDUSessionRelease_DUE_TO_DUP_PDU_ID
    remoteSEID, \* the UPFs whose PFCPContext has a RemoteSEID
    PendingUPF, \* smContext.PendingUPF
    chan,       \* smContext.SBIPFCPCommunicationChan
    pc,         \* where each SBI handler is
    op,         \* what its request asks for
    got,        \* the PFCPResponseStatus it took from the channel
    result,     \* the class of its HTTP response
    rsp,        \* progress of each PFCP exchange: a handler's or, per UPF, Create's
    accepted,   \* the exchanges the UPF accepted
    session,    \* the UPFs that have the session
    n1n2,       \* N1N2MessageTransfer reached the AMF
    crashed     \* a panic outside an HTTP handler: the SMF is gone

ctx  == <<state, pool, created, tunnelUp, dupRelease, remoteSEID, PendingUPF, chan>>
upf  == <<accepted, session>>
vars == <<ctx, upf, pc, op, got, result, rsp, n1n2, crashed>>

Exchanges == Sbi \cup Path
States    == {"InActive", "ActivePending", "Active", "InActivePending",
              "ModificationPending", "PFCPModification"}
Statuses  == {"SessionUpdateSuccess", "SessionUpdateFailed",
              "SessionReleaseSuccess", "SessionReleaseFailed"}
Labels    == {"idle", "begin", "modify", "delete", "pend", "deleting", "remove",
              "switch", "toActive", "wait", "got", "done"}
RspLabels == {"none", "sent", "sent0", "lost", "read", "n1n2", "delete", "empty",
              "send", "done"}
Open      == {h \in Sbi : pc[h] \notin {"idle", "done"}}

ModifyReq(h) == op[h] \in ModifyOps
DeleteReq(h) == op[h] \in DeleteOps

Init ==
    /\ state = "InActive" /\ pool = FALSE /\ created = "no"
    /\ tunnelUp = FALSE /\ dupRelease = FALSE
    /\ remoteSEID = {} /\ PendingUPF = {} /\ chan = <<>>
    /\ pc = [h \in Sbi |-> "idle"]
    /\ op = [h \in Sbi |-> "Other"]
    /\ got = [h \in Sbi |-> "SessionUpdateSuccess"]
    /\ result = [h \in Sbi |-> "none"]
    /\ rsp = [x \in Exchanges |-> "none"]
    /\ accepted = {} /\ session = {}
    /\ n1n2 = FALSE /\ crashed = FALSE

Goto(h, l)   == pc' = [pc EXCEPT ![h] = l]
Reply(h, r)  == Goto(h, "done") /\ result' = [result EXCEPT ![h] = r]
RspTo(x, l)  == rsp' = [rsp EXCEPT ![x] = l]
SetState(s)  == state' = s

-----------------------------------------------------------------------------
(* HandlePDUSessionSMContextCreate.                                        *)

\* NewSMContext, ActivePending, a default path, SEIDs and tunnels, then
\* SendPFCPRule: an establishment request to every UPF of the path.
CreateOk ==
    /\ created = "no"
    /\ SetState("ActivePending")
    /\ pool' = TRUE /\ created' = "ok" /\ tunnelUp' = TRUE
    /\ rsp' = [x \in Exchanges |-> IF x \in Path THEN "sent" ELSE rsp[x]]
    /\ UNCHANGED <<dupRelease, remoteSEID, PendingUPF, chan, pc, op, got, result,
                   upf, n1n2, crashed>>

\* No path serves the DNN (403, InActive), or the handler panics because a UPF
\* is not associated or no AMF profile was found (500, still ActivePending).
\* The context stays in the pool, but the AMF never learns its Ref.
CreateFails ==
    /\ created = "no"
    /\ \E s \in {"InActive", "ActivePending"} : SetState(s)
    /\ pool' = TRUE /\ created' = "failed"
    /\ UNCHANGED <<tunnelUp, dupRelease, remoteSEID, PendingUPF, chan, pc, op, got,
                   result, rsp, upf, n1n2, crashed>>

-----------------------------------------------------------------------------
(* The AMF calls Update or Release.                                        *)

\* N2 setup responses follow N1N2MessageTransfer; release responses and
\* completes follow a release command the SMF returned.
AmfMay(o) ==
    /\ created = "ok"
    /\ Early \/ rsp[AN] \in {"done", "lost"}
    /\ o = "SETUP_RSP" => n1n2
    /\ o \in FinishOps => \E g \in Sbi : DeleteReq(g) /\ result[g] = "ok"

Request(h, o) ==
    /\ pc[h] = "idle" /\ o \in Ops
    /\ Cardinality(Open) < MaxSbi
    /\ AmfMay(o)
    /\ op' = [op EXCEPT ![h] = o]
    /\ Goto(h, "begin")
    /\ UNCHANGED <<ctx, got, result, rsp, upf, n1n2, crashed>>

\* GetSMContext returns nil: 404 from Update, a nil dereference in Release.
NoContext(h) ==
    /\ pc[h] = "begin" /\ ~pool
    /\ Reply(h, IF op[h] = "Release" THEN "panic" ELSE "notfound")
    /\ UNCHANGED <<ctx, op, got, rsp, upf, n1n2, crashed>>

\* Update without a case for its contents.
BeginOther(h) ==
    /\ pc[h] = "begin" /\ pool /\ op[h] \in OtherOps
    /\ Goto(h, "switch")
    /\ UNCHANGED <<ctx, op, got, result, rsp, upf, n1n2, crashed>>

\* The N1 message cannot be decoded: 403, and the context is left alone.
Undecodable(h) ==
    /\ pc[h] = "begin" /\ pool /\ op[h] \in OtherOps
    /\ Reply(h, "failed")
    /\ UNCHANGED <<ctx, op, got, rsp, upf, n1n2, crashed>>

BeginPending(h) ==
    /\ pc[h] = "begin" /\ pool /\ op[h] \in PendingOps
    /\ SetState("ModificationPending")
    /\ Goto(h, "switch")
    /\ UNCHANGED <<pool, created, tunnelUp, dupRelease, remoteSEID, PendingUPF, chan,
                   op, got, result, rsp, upf, n1n2, crashed>>

\* PendingUPF is rebuilt from the activated paths.  DEACTIVATED reads the FAR
\* of a PDR that is nil after a release.
BeginModify(h) ==
    /\ pc[h] = "begin" /\ pool /\ ModifyReq(h)
    /\ SetState("ModificationPending")
    /\ PendingUPF' = IF tunnelUp THEN {AN} ELSE {}
    /\ IF op[h] = "DEACTIVATED" /\ ~tunnelUp
       THEN Reply(h, "panic")
       ELSE Goto(h, "modify") /\ UNCHANGED result
    /\ UNCHANGED <<pool, created, tunnelUp, dupRelease, remoteSEID, chan, op, got,
                   rsp, upf, n1n2, crashed>>

SetModify(h) ==
    /\ pc[h] = "modify"
    /\ SetState("PFCPModification")
    /\ Goto(h, "switch")
    /\ UNCHANGED <<pool, created, tunnelUp, dupRelease, remoteSEID, PendingUPF, chan,
                   op, got, result, rsp, upf, n1n2, crashed>>

\* DeactivateTunnelAndPDR clears the tunnels of the first node, links to the
\* next one included, so the loops over the path end there; a second call
\* dereferences the nil PDR.
BeginDelete(h) ==
    /\ pc[h] = "begin" /\ pool /\ DeleteReq(h)
    /\ dupRelease' = (dupRelease \/ op[h] = "DuplicateSessionId")
    /\ PendingUPF' = {}
    /\ tunnelUp' = FALSE
    /\ IF tunnelUp
       THEN Goto(h, "delete") /\ UNCHANGED result
       ELSE Reply(h, "panic")
    /\ UNCHANGED <<state, pool, created, remoteSEID, chan, op, got, rsp, upf,
                   n1n2, crashed>>

\* SendPfcpSessionDeletionRequest, with the RemoteSEID known at this moment.
SendDelete(h) ==
    /\ pc[h] = "delete"
    /\ RspTo(h, IF AN \in remoteSEID THEN "sent" ELSE "sent0")
    /\ Goto(h, "pend")
    /\ UNCHANGED <<ctx, op, got, result, upf, n1n2, crashed>>

\* Mutant: the pending UPF is keyed by its id and not by its address.
AddPendingByID(h) ==
    /\ pc[h] = "pend"
    /\ PendingUPF' = PendingUPF \cup {"UPFID"}
    /\ Goto(h, "deleting")
    /\ UNCHANGED <<state, pool, created, tunnelUp, dupRelease, remoteSEID, chan, op,
                   got, result, rsp, upf, n1n2, crashed>>

AddPending(h) ==
    /\ pc[h] = "pend"
    /\ PendingUPF' = PendingUPF \cup {AN}
    /\ Goto(h, "deleting")
    /\ UNCHANGED <<state, pool, created, tunnelUp, dupRelease, remoteSEID, chan, op,
                   got, result, rsp, upf, n1n2, crashed>>

SetDelete(h) ==
    /\ pc[h] = "deleting"
    /\ SetState("PFCPModification")
    /\ Goto(h, IF op[h] = "Release" THEN "wait" ELSE "switch")
    /\ UNCHANGED <<pool, created, tunnelUp, dupRelease, remoteSEID, PendingUPF, chan,
                   op, got, result, rsp, upf, n1n2, crashed>>

\* Mutant: the state is left as it is before the context is removed.
BeginFinishKeepsState(h) ==
    /\ pc[h] = "begin" /\ pool /\ op[h] \in FinishOps
    /\ Goto(h, IF op[h] = "ReleaseComplete" \/ dupRelease THEN "remove" ELSE "switch")
    /\ dupRelease' = (dupRelease /\ op[h] # "REL_RSP")
    /\ UNCHANGED <<state, pool, created, tunnelUp, remoteSEID, PendingUPF, chan, op, got,
                   result, rsp, upf, n1n2, crashed>>

\* N1 ReleaseComplete, or the N2 release response of a duplicate session id;
\* any other N2 release response only sets InActivePending.
BeginFinish(h) ==
    /\ pc[h] = "begin" /\ pool /\ op[h] \in FinishOps
    /\ IF op[h] = "ReleaseComplete" \/ dupRelease
       THEN SetState("InActive") /\ Goto(h, "remove")
       ELSE SetState("InActivePending") /\ Goto(h, "switch")
    /\ dupRelease' = (dupRelease /\ op[h] # "REL_RSP")
    /\ UNCHANGED <<pool, created, tunnelUp, remoteSEID, PendingUPF, chan, op, got,
                   result, rsp, upf, n1n2, crashed>>

\* RemoveSMContext; it dereferences nil if the context is gone already.
RemoveSMContext(h) ==
    /\ pc[h] = "remove"
    /\ pool' = FALSE
    /\ IF pool THEN Goto(h, "switch") /\ UNCHANGED result ELSE Reply(h, "panic")
    /\ UNCHANGED <<state, created, tunnelUp, dupRelease, remoteSEID, PendingUPF, chan,
                   op, got, rsp, upf, n1n2, crashed>>

\* Mutant: the handler replies without waiting for the status.
SwitchNoWait(h) ==
    /\ pc[h] = "switch" /\ state = "PFCPModification"
    /\ IF ModifyReq(h)
       THEN RspTo(h, IF AN \in remoteSEID THEN "sent" ELSE "sent0")
       ELSE UNCHANGED rsp
    /\ Reply(h, "ok")
    /\ UNCHANGED <<ctx, op, got, upf, n1n2, crashed>>

\* "Check FSM and take corresponding action": PFCPModification sends what is
\* to be sent to AN and goes on to wait for the status.
SwitchWait(h) ==
    /\ pc[h] = "switch" /\ state = "PFCPModification"
    /\ IF ModifyReq(h)
       THEN RspTo(h, IF AN \in remoteSEID THEN "sent" ELSE "sent0")
       ELSE UNCHANGED rsp
    /\ Goto(h, "wait")
    /\ UNCHANGED <<ctx, op, got, result, upf, n1n2, crashed>>

SwitchPending(h) ==
    /\ pc[h] = "switch" /\ state = "ModificationPending"
    /\ Goto(h, "toActive")
    /\ UNCHANGED <<ctx, op, got, result, rsp, upf, n1n2, crashed>>

ToActive(h) ==
    /\ pc[h] = "toActive"
    /\ SetState("Active")
    /\ Reply(h, "ok")
    /\ UNCHANGED <<pool, created, tunnelUp, dupRelease, remoteSEID, PendingUPF, chan,
                   op, got, rsp, upf, n1n2, crashed>>

SwitchInactive(h) ==
    /\ pc[h] = "switch" /\ state \in {"InActive", "InActivePending"}
    /\ Reply(h, "ok")
    /\ UNCHANGED <<ctx, op, got, rsp, upf, n1n2, crashed>>

\* "SM Context State [%s] shouldn't be here".
SwitchDefault(h) ==
    /\ pc[h] = "switch" /\ state \in {"Active", "ActivePending"}
    /\ Reply(h, "ok")
    /\ UNCHANGED <<ctx, op, got, rsp, upf, n1n2, crashed>>

\* PFCPResponseStatus := <-smContext.SBIPFCPCommunicationChan, no timeout.
Await(h) ==
    /\ pc[h] = "wait" /\ chan # <<>>
    /\ got' = [got EXCEPT ![h] = Head(chan)]
    /\ chan' = Tail(chan)
    /\ Goto(h, "got")
    /\ UNCHANGED <<state, pool, created, tunnelUp, dupRelease, remoteSEID, PendingUPF,
                   op, result, rsp, upf, n1n2, crashed>>

\* Mutant: a failed release goes to InActivePending like a successful one.
ConcludeReleased(h) ==
    /\ pc[h] = "got"
    /\ SetState(IF DeleteReq(h) THEN "InActivePending" ELSE "Active")
    /\ Reply(h, "ok")
    /\ UNCHANGED <<pool, created, tunnelUp, dupRelease, remoteSEID, PendingUPF, chan,
                   op, got, rsp, upf, n1n2, crashed>>

\* To Release an update status is an error, whichever it is.
Conclude(h) ==
    /\ pc[h] = "got"
    /\ SetState(IF got[h] = "SessionReleaseSuccess" THEN "InActivePending" ELSE "Active")
    /\ Reply(h, IF \/ got[h] = "SessionReleaseSuccess"
                   \/ got[h] = "SessionUpdateSuccess" /\ op[h] # "Release"
                THEN "ok" ELSE "failed")
    /\ UNCHANGED <<pool, created, tunnelUp, dupRelease, remoteSEID, PendingUPF, chan,
                   op, got, rsp, upf, n1n2, crashed>>

-----------------------------------------------------------------------------
(* The UPF and the PFCP layer (external to the SMF).                       *)

\* UpfSessionAddByMessage adds the session first and keeps it when a rule of
\* the request is refused; only an acceptance tells the SMF its SEID.
UpfEstablish(u, ok) ==
    /\ u \in Path /\ rsp[u] = "sent"
    /\ session' = session \cup {u}
    /\ accepted' = IF ok THEN accepted \cup {u} ELSE accepted
    /\ RspTo(u, "read")
    /\ UNCHANGED <<ctx, pc, op, got, result, n1n2, crashed>>

\* The other requests need the SEID of a session that is still there.
Known(h) == rsp[h] = "sent" /\ AN \in session

UpfAccept(h) ==
    /\ h \in Sbi /\ Known(h)
    /\ session' = IF DeleteReq(h) THEN session \ {AN} ELSE session
    /\ accepted' = accepted \cup {h}
    /\ RspTo(h, "read")
    /\ UNCHANGED <<ctx, pc, op, got, result, n1n2, crashed>>

\* src/upf never answers these requests with another cause, but the SMF's
\* handlers provide for a UPF that does.
UpfRefuse(h) ==
    /\ h \in Sbi /\ Known(h)
    /\ RspTo(h, "read")
    /\ UNCHANGED <<ctx, upf, pc, op, got, result, n1n2, crashed>>

\* "do not find / establish session": the message is dropped.
UpfIgnore(h) ==
    /\ h \in Sbi /\ rsp[h] \in {"sent", "sent0"} /\ ~Known(h)
    /\ RspTo(h, "lost")
    /\ UNCHANGED <<ctx, upf, pc, op, got, result, n1n2, crashed>>

Lose(x) ==
    /\ Lossy /\ rsp[x] = "sent"
    /\ RspTo(x, "lost")
    /\ UNCHANGED <<ctx, upf, pc, op, got, result, n1n2, crashed>>

-----------------------------------------------------------------------------
(* The PFCP response handlers.                                             *)

\* HandlePfcpSessionEstablishmentResponse uses the context without a check.
EstablishmentResponse(u) ==
    /\ u \in Path /\ rsp[u] = "read" /\ pool
    /\ remoteSEID' = IF u \in accepted THEN remoteSEID \cup {u} ELSE remoteSEID
    /\ IF u \in accepted /\ u = AN
       THEN n1n2' = TRUE /\ RspTo(u, "n1n2")
       ELSE UNCHANGED n1n2 /\ RspTo(u, "done")
    /\ UNCHANGED <<state, pool, created, tunnelUp, dupRelease, PendingUPF, chan, pc, op,
                   got, result, upf, crashed>>

\* N1N2MessageTransfer returned.
Establish(u) ==
    /\ u \in Path /\ rsp[u] = "n1n2"
    /\ SetState("Active")
    /\ RspTo(u, "done")
    /\ UNCHANGED <<pool, created, tunnelUp, dupRelease, remoteSEID, PendingUPF, chan, pc,
                   op, got, result, upf, n1n2, crashed>>

\* Modification and deletion responses count only in PFCPModification.
CheckState(h) ==
    /\ h \in Sbi /\ rsp[h] = "read" /\ pool
    /\ RspTo(h, IF state # "PFCPModification" THEN "done"
                ELSE IF h \in accepted THEN "delete" ELSE "send")
    /\ UNCHANGED <<ctx, pc, op, got, result, upf, n1n2, crashed>>

\* GetSMContextBySEID returned nil: only the deletion handler checks.
NilContext(x) ==
    /\ rsp[x] = "read" /\ ~pool
    /\ RspTo(x, "done")
    /\ crashed' = (x \in Path \/ ModifyReq(x))
    /\ UNCHANGED <<ctx, pc, op, got, result, upf, n1n2>>

\* Mutant: the UPF is removed under another key than it was added.
DeletePendingOther(h) ==
    /\ h \in Sbi /\ rsp[h] = "delete"
    /\ RspTo(h, "empty")
    /\ UNCHANGED <<ctx, pc, op, got, result, upf, n1n2, crashed>>

DeletePending(h) ==
    /\ h \in Sbi /\ rsp[h] = "delete"
    /\ PendingUPF' = PendingUPF \ {AN}
    /\ RspTo(h, "empty")
    /\ UNCHANGED <<state, pool, created, tunnelUp, dupRelease, remoteSEID, chan, pc, op,
                   got, result, upf, n1n2, crashed>>

CheckEmpty(h) ==
    /\ h \in Sbi /\ rsp[h] = "empty"
    /\ RspTo(h, IF PendingUPF = {} THEN "send" ELSE "done")
    /\ UNCHANGED <<ctx, pc, op, got, result, upf, n1n2, crashed>>

\* Mutant: the deletion handler does not look at the cause.
ResponseStatusNoCause(h) ==
    IF ModifyReq(h)
    THEN IF h \in accepted THEN "SessionUpdateSuccess" ELSE "SessionUpdateFailed"
    ELSE "SessionReleaseSuccess"

ResponseStatus(h) ==
    IF ModifyReq(h)
    THEN IF h \in accepted THEN "SessionUpdateSuccess" ELSE "SessionUpdateFailed"
    ELSE IF h \in accepted THEN "SessionReleaseSuccess" ELSE "SessionReleaseFailed"

\* Mutant: the deletion handler sends the statuses of a modification.
SendStatusUpdate(h) ==
    /\ h \in Sbi /\ rsp[h] = "send" /\ Len(chan) < 1
    /\ chan' = Append(chan, IF h \in accepted THEN "SessionUpdateSuccess"
                            ELSE "SessionUpdateFailed")
    /\ RspTo(h, "done")
    /\ UNCHANGED <<state, pool, created, tunnelUp, dupRelease, remoteSEID, PendingUPF, pc,
                   op, got, result, upf, n1n2, crashed>>

\* The channel has room for one status.
SendStatus(h) ==
    /\ h \in Sbi /\ rsp[h] = "send" /\ Len(chan) < 1
    /\ chan' = Append(chan, ResponseStatus(h))
    /\ RspTo(h, "done")
    /\ UNCHANGED <<state, pool, created, tunnelUp, dupRelease, remoteSEID, PendingUPF, pc,
                   op, got, result, upf, n1n2, crashed>>

-----------------------------------------------------------------------------

Handler(h) ==
    \/ NoContext(h) \/ BeginOther(h) \/ Undecodable(h) \/ BeginPending(h)
    \/ BeginModify(h)
    \/ SetModify(h) \/ BeginDelete(h) \/ SendDelete(h) \/ AddPending(h)
    \/ SetDelete(h) \/ BeginFinish(h) \/ RemoveSMContext(h) \/ SwitchWait(h)
    \/ SwitchPending(h) \/ ToActive(h) \/ SwitchInactive(h) \/ SwitchDefault(h)
    \/ Await(h) \/ Conclude(h)

Response(x) ==
    \/ EstablishmentResponse(x) \/ Establish(x) \/ CheckState(x) \/ NilContext(x)
    \/ DeletePending(x) \/ CheckEmpty(x) \/ SendStatus(x)

Peer(x) ==
    \/ \E ok \in BOOLEAN : UpfEstablish(x, ok)
    \/ UpfAccept(x) \/ UpfRefuse(x) \/ UpfIgnore(x) \/ Lose(x)

Next ==
    /\ ~crashed
    /\ \/ CreateOk \/ CreateFails
       \/ \E h \in Sbi : Handler(h) \/ \E o \in Ops : Request(h, o)
       \/ \E x \in Exchanges : Response(x) \/ Peer(x)

\* Goroutines are scheduled, and the PFCP layer settles every request.
Fairness ==
    /\ \A h \in Sbi : WF_vars(~crashed /\ Handler(h))
    /\ \A x \in Exchanges : WF_vars(~crashed /\ (Response(x) \/ Peer(x)))

Spec == Init /\ [][Next]_vars
FairSpec == Spec /\ Fairness
-----------------------------------------------------------------------------

\* The types of the context's variables; the channel holds one status at most.
TypeOK ==
    /\ state \in States
    /\ pool \in BOOLEAN /\ tunnelUp \in BOOLEAN /\ dupRelease \in BOOLEAN
    /\ n1n2 \in BOOLEAN /\ crashed \in BOOLEAN
    /\ created \in {"no", "ok", "failed"}
    /\ remoteSEID \subseteq Path /\ PendingUPF \subseteq Path /\ session \subseteq Path
    /\ chan \in Seq(Statuses) /\ Len(chan) <= 1
    /\ pc \in [Sbi -> Labels]
    /\ op \in [Sbi -> AllOps]
    /\ got \in [Sbi -> Statuses]
    /\ result \in [Sbi -> {"none", "ok", "failed", "notfound", "panic"}]
    /\ rsp \in [Exchanges -> RspLabels]
    /\ accepted \subseteq Exchanges

\* A handler that waited on SBIPFCPCommunicationChan got the status of its own
\* PFCP exchange, and not one left behind by another.
OwnStatus == \A h \in Sbi : pc[h] = "got" => got[h] = ResponseStatus(h)

\* A handler that is told SessionReleaseSuccess can rely on it: the UPF has no
\* session any more, whoever else is at work on the context.
ReleaseIsReal ==
    \A h \in Sbi : pc[h] = "got" /\ got[h] = "SessionReleaseSuccess" => AN \notin session

\* A context that waits for the release to complete has no session at its UPF.
PendingReleaseDeleted == state = "InActivePending" => AN \notin session

\* When nobody is at work on the context its channel is empty: a status left
\* there would be taken for the answer to the next request.
NoStaleStatus ==
    /\ Open = {}
    /\ \A x \in Exchanges : rsp[x] \in {"none", "done", "lost"}
    => chan = <<>>

\* No PFCP response makes the SMF dereference a nil context and go down
\* (handlers that call GetSMContextBySEID run outside gin's recovery).
NoCrash == ~crashed

\* A released context that left the pool is never revived.
RemovedStaysInActive == created = "ok" /\ ~pool => state = "InActive"

\* The release reaches every UPF of the path that gave its SEID ("Deactivate
\* Tunnels").
AllDeleted == state = "InActivePending" => session \cap remoteSEID = {}

\* A modification of a session the UPF has is answered to the AMF, unless the
\* PFCP layer gave the request up.
ModifyAnswered ==
    \A h \in Sbi : pc[h] = "modify" /\ AN \in session \cap remoteSEID
        ~> (pc[h] = "done" \/ rsp[h] = "lost" \/ crashed)

\* So is a release.
ReleaseAnswered ==
    \A h \in Sbi : pc[h] = "delete" /\ AN \in session \cap remoteSEID
        ~> (pc[h] = "done" \/ rsp[h] = "lost" \/ crashed)
=============================================================================
