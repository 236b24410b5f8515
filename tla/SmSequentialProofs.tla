------------------------- MODULE SmSequentialProofs -------------------------
(***************************************************************************)
(* Proofs about SmContext when the AMF has one request open at a time and  *)
(* waits for the establishment, as the procedures have it.  Then the one   *)
(* channel and the one state of the context always belong to the handler   *)
(* at work, whether or not PFCP requests are lost.                         *)
(***************************************************************************)
EXTENDS SmContextProofs, FiniteSetTheorems

\* An AMF that waits for the establishment and for the answer to each request.
Sequential == MaxSbi = 1 /\ Early = FALSE

-----------------------------------------------------------------------------
(* Where the handler at work is, and what the context holds for it.        *)

\* Nothing of a handler that has not begun or has replied is under way.
AtRest(h) == pc[h] \in {"idle", "done"} /\ rsp[h] \in {"none", "done", "lost"}

\* The context is in the middle of a PFCP exchange.
Unsettled == state = "PFCPModification" \/ chan # <<>>

\* The places of a handler at work: before its first assignment,
Begun(h) == pc[h] = "begin" /\ rsp[h] = "none" /\ ~Unsettled

\* between the two states of a modification,
Modifying(h) == pc[h] = "modify" /\ ModifyReq(h) /\ pool /\ rsp[h] = "none" /\ ~Unsettled

\* while the deletion request is out before the state in which its answer counts,
Deleting(h) ==
    /\ pc[h] \in {"delete", "pend", "deleting"} /\ DeleteReq(h) /\ pool /\ ~Unsettled
    /\ rsp[h] \in IF pc[h] = "delete" THEN {"none"}
                  ELSE {"sent", "sent0", "lost", "read", "done"}

\* before RemoveSMContext,
Removing(h) ==
    /\ pc[h] = "remove" /\ pool /\ rsp[h] = "none" /\ ~Unsettled
    /\ op[h] \in FinishOps /\ state = "InActive"

\* at "Check FSM and take corresponding action" with nothing sent,
Deciding(h) ==
    /\ pc[h] \in {"switch", "toActive"} /\ rsp[h] = "none" /\ ~Unsettled
    /\ IF op[h] \in FinishOps
       THEN pc[h] = "switch" /\ state \in {"InActive", "InActivePending"}
       ELSE op[h] \in PendingOps \cup OtherOps /\ pool

\* from the moment the answer counts until its status is taken,
Waiting(h) ==
    /\ pc[h] \in {"switch", "wait"} /\ (ModifyReq(h) \/ DeleteReq(h))
    /\ pool /\ state = "PFCPModification"
    /\ rsp[h] = "none" <=> ModifyReq(h) /\ pc[h] = "switch"
    /\ chan # <<>> => rsp[h] = "done" /\ chan = <<ResponseStatus(h)>>

\* and with the status, which is its own.
Told(h) ==
    /\ pc[h] = "got" /\ (ModifyReq(h) \/ DeleteReq(h))
    /\ pool /\ rsp[h] = "done" /\ chan = <<>> /\ got[h] = ResponseStatus(h)

AtWork(h) ==
    \/ Begun(h) \/ Modifying(h) \/ Deleting(h) \/ Removing(h) \/ Deciding(h)
    \/ Waiting(h) \/ Told(h)

\* One handler at most is at work, and the context is its own.
OneAtATime ==
    /\ \A h \in Sbi : AtRest(h) \/ AtWork(h)
    /\ \A g, h \in Sbi : AtRest(g) \/ AtRest(h) \/ g = h
    /\ (\A h \in Sbi : AtRest(h)) => ~Unsettled

\* Whoever was promised that the session is released can rely on it.
Promised ==
    /\ state = "InActivePending" => Gone
    /\ \A h \in Sbi : /\ op[h] \in FinishOps => Gone
                      /\ DeleteReq(h) /\ result[h] = "ok" => Gone
                      /\ pc[h] # "done" => result[h] = "none"

\* The establishment at AN is over when the first handler begins, so only a
\* handler sets the state from then on.
Established ==
    /\ \A h \in Sbi : pc[h] # "idle" => created = "ok" /\ rsp[AN] \in {"done", "lost"}
    /\ \A u \in Path : rsp[u] = "n1n2" => u = AN
    /\ created = "failed" => pool
    /\ created = "ok" /\ ~pool => state = "InActive" /\ \E h \in Sbi : pc[h] # "idle"

\* On a path of one UPF no response comes when the context is gone.
Safe == Path = {AN} => ~crashed

InTurn == Release /\ OneAtATime /\ Promised /\ Established /\ Safe

LEMMA InTurnInit == Init => InTurn
<1> SUFFICES ASSUME Init PROVE InTurn
    OBVIOUS
<1>1. Release
    BY ReleaseInit
<1>2. OneAtATime
    BY SmAssumption DEF Init, OneAtATime, AtRest, Unsettled, Exchanges
<1>3. Promised /\ Established /\ Safe
    BY DEF Init, Promised, Established, Safe, FinishOps, DeleteReq, DeleteOps, Exchanges
<1> QED BY <1>1, <1>2, <1>3 DEF InTurn

-----------------------------------------------------------------------------
(* Steps.                                                                  *)

\* A session that is gone stays gone: it is established once.
LEMMA GoneForGood ==
    ASSUME Release, [Next]_vars, Gone
    PROVE  Gone'
<1>a. TypeOK /\ AN \in Exchanges /\ AN \notin Sbi /\ Path \subseteq Exchanges
    BY SmAssumption DEF Exchanges, Release
<1>1. CASE CreateOk \/ CreateFails
    BY <1>1 DEF CreateOk, CreateFails, Gone, Past
<1>2. ASSUME NEW h \in Sbi, NEW o \in Ops, Request(h, o) PROVE Gone'
    BY <1>2 DEF Request, Gone, Past, ctx, upf
<1>3. ASSUME NEW h \in Sbi, Handler(h) PROVE Gone'
  <2>1. CASE SendDelete(h) \/ SwitchWait(h)
      BY <1>a, <2>1 DEF SendDelete, SwitchWait, RspTo, Gone, Past, ctx, upf, TypeOK
  <2>2. CASE ~(SendDelete(h) \/ SwitchWait(h))
      BY <1>3, <2>2
         DEF Handler, NoContext, BeginOther, Undecodable, BeginPending, BeginModify, SetModify,
             BeginDelete, AddPending, SetDelete, BeginFinish, RemoveSMContext, SwitchPending,
             ToActive, SwitchInactive, SwitchDefault, Await, Conclude, Gone, Past, ctx, upf
  <2> QED BY <2>1, <2>2
<1>4. ASSUME NEW x \in Exchanges, Response(x) PROVE Gone'
  <2>1. /\ UNCHANGED <<created, session>>
        /\ \E l \in RspLabels \ {"sent"} : rsp' = [rsp EXCEPT ![x] = l]
      BY <1>4 DEF Response, EstablishmentResponse, Establish, CheckState, NilContext,
             DeletePending, CheckEmpty, SendStatus, RspTo, RspLabels, ctx, upf
  <2> QED BY <1>a, <2>1 DEF Gone, Past, TypeOK
<1>5. ASSUME NEW x \in Exchanges, Peer(x) PROVE Gone'
  <2>1. /\ UNCHANGED created
        /\ \E l \in RspLabels \ {"sent"} : rsp' = [rsp EXCEPT ![x] = l]
      BY <1>5 DEF Peer, UpfEstablish, UpfAccept, UpfRefuse, UpfIgnore, Lose, RspTo, RspLabels,
             ctx, upf
  <2>2. AN \notin session'
      BY <1>5 DEF Peer, UpfEstablish, UpfAccept, UpfRefuse, UpfIgnore, Lose, upf, Gone, Past
  <2> QED BY <1>a, <2>1, <2>2 DEF Gone, Past, TypeOK
<1>6. CASE UNCHANGED vars
    BY <1>6 DEF vars, ctx, upf, Gone, Past
<1> QED BY <1>1, <1>2, <1>3, <1>4, <1>5, <1>6 DEF Next

\* A step of the handler at work, or of the exchange it has started.
Move(h) ==
    /\ ~AtRest(h)
    /\ UNCHANGED <<op, created, crashed>>
    /\ \A u \in Path : rsp'[u] = rsp[u]
    /\ \A g \in Sbi \ {h} :
          pc'[g] = pc[g] /\ rsp'[g] = rsp[g] /\ result'[g] = result[g]
    /\ pc'[h] # "idle"
    /\ AtWork(h)' \/ (AtRest(h)' /\ ~Unsettled')
    /\ state' = "InActivePending" => Gone
    /\ DeleteReq(h) /\ result'[h] = "ok" => Gone
    /\ pc'[h] # "done" => result'[h] = "none"
    /\ ~pool' => state' = "InActive"

LEMMA Moves ==
    ASSUME InTurn, Release', Gone => Gone', NEW h \in Sbi, Move(h)
    PROVE  InTurn'
<1>0. pc[h] # "idle"
    BY DEF Move, AtRest, InTurn, Release, Fresh
<1>1. OneAtATime'
  <2>1. \A g \in Sbi \ {h} : AtRest(g) /\ AtRest(g)'
      BY DEF Move, InTurn, OneAtATime, AtRest
  <2>2. AtWork(h)' => ~AtRest(h)'
      BY DEF AtWork, AtRest, Begun, Modifying, Deleting, Removing, Deciding, Waiting, Told
  <2> QED BY <2>1, <2>2 DEF Move, OneAtATime
<1>2. Promised'
    BY DEF Move, InTurn, Promised, DeleteReq
<1>3. Established'
    BY <1>0, SmAssumption DEF Move, InTurn, Established
<1>4. Safe'
    BY DEF Move, InTurn, Safe
<1> QED BY <1>1, <1>2, <1>3, <1>4 DEF InTurn

\* Every step of an SBI handler.
LEMMA HandlerMoves ==
    ASSUME InTurn, TypeOK', NEW h \in Sbi, Handler(h)
    PROVE  Move(h)
<1>t. TypeOK /\ Kinds /\ ToldGone
    BY DEF InTurn, Release
<1>a. Path \subseteq Exchanges /\ Sbi \cap Path = {} /\ Sbi \subseteq Exchanges
    BY SmAssumption DEF Exchanges
<1>b. pc[h] \notin {"idle", "done"}
    BY DEF Handler, NoContext, BeginOther, Undecodable, BeginPending, BeginModify, SetModify,
           BeginDelete, SendDelete, AddPending, SetDelete, BeginFinish, RemoveSMContext,
           SwitchWait, SwitchPending, ToActive, SwitchInactive, SwitchDefault, Await, Conclude
<1>c. /\ ~AtRest(h) /\ AtWork(h) /\ result[h] = "none"
      /\ created = "ok" /\ (~pool => state = "InActive")
      /\ state = "InActivePending" => Gone
      /\ op[h] \in FinishOps => Gone
    BY <1>b DEF InTurn, OneAtATime, Promised, Established, AtRest
<1>d. \A o \in AllOps :
         /\ o \in ModifyOps => o \notin DeleteOps \cup FinishOps \cup PendingOps \cup OtherOps
         /\ o \in DeleteOps => o \notin FinishOps \cup PendingOps \cup OtherOps
         /\ o \in FinishOps => o \notin PendingOps \cup OtherOps
    BY DEF ModifyOps, DeleteOps, FinishOps, PendingOps, OtherOps
<1> USE <1>t, <1>a, <1>b, <1>c, <1>d DEF TypeOK, Goto, Reply, RspTo, SetState, ctx, upf
<1> USE DEF Move, ModifyReq, DeleteReq, Unsettled, AtRest
<1> USE DEF AtWork, Begun, Modifying, Deleting, Removing, Deciding, Waiting, Told
<1>1. CASE NoContext(h)
    BY <1>1 DEF NoContext
<1>2. CASE BeginOther(h)
    BY <1>2 DEF BeginOther
<1>3. CASE Undecodable(h)
    BY <1>3 DEF Undecodable
<1>4. CASE BeginPending(h)
    BY <1>4 DEF BeginPending
<1>5. CASE BeginModify(h)
    BY <1>5 DEF BeginModify
<1>6. CASE SetModify(h)
    BY <1>6 DEF SetModify
<1>7. CASE BeginDelete(h)
    BY <1>7 DEF BeginDelete
<1>8. CASE SendDelete(h)
    BY <1>8 DEF SendDelete
<1>9. CASE AddPending(h)
    BY <1>9 DEF AddPending
<1>10. CASE SetDelete(h)
    BY <1>10 DEF SetDelete
<1>11. CASE BeginFinish(h)
    BY <1>11 DEF BeginFinish
<1>12. CASE RemoveSMContext(h)
    BY <1>12 DEF RemoveSMContext
<1>13. CASE SwitchWait(h)
  <2>1. Waiting(h) /\ pc[h] = "switch"
      BY <1>13 DEF SwitchWait
  <2>2. ResponseStatus(h)' = ResponseStatus(h)
      BY <1>13 DEF SwitchWait, ResponseStatus
  <2>3. CASE ModifyReq(h)
    <3>1. Waiting(h)'
        BY <1>13, <2>1, <2>2, <2>3 DEF SwitchWait, Waiting
    <3> QED BY <1>13, <2>1, <2>3, <3>1 DEF SwitchWait, Waiting, AtWork
  <2>4. CASE ~ModifyReq(h)
    <3>1. Waiting(h)'
        BY <1>13, <2>1, <2>2, <2>4 DEF SwitchWait, Waiting
    <3> QED BY <1>13, <2>1, <2>4, <3>1 DEF SwitchWait, Waiting, AtWork
  <2> QED BY <2>3, <2>4
<1>14. CASE SwitchPending(h)
    BY <1>14 DEF SwitchPending
<1>15. CASE ToActive(h)
    BY <1>15 DEF ToActive
<1>16. CASE SwitchInactive(h)
    BY <1>16 DEF SwitchInactive
<1>17. CASE SwitchDefault(h)
    BY <1>17 DEF SwitchDefault
<1>18. CASE Await(h)
  <2>1. Waiting(h) /\ pc[h] = "wait" /\ chan # <<>>
      BY <1>18 DEF Await
  <2>2. rsp[h] = "done" /\ chan = <<ResponseStatus(h)>> /\ pool /\ state = "PFCPModification"
      BY <2>1 DEF Waiting
  <2>3. Head(chan) = ResponseStatus(h) /\ Tail(chan) = <<>>
      BY <2>2
  <2>4. ResponseStatus(h)' = ResponseStatus(h)
      BY <1>18 DEF Await, ResponseStatus
  <2>5. Told(h)'
      BY <1>18, <2>1, <2>2, <2>3, <2>4 DEF Await, Told, Waiting
  <2> QED BY <1>18, <2>2, <2>5 DEF Await, AtWork
<1>19. CASE Conclude(h)
  <2>1. Told(h)
      BY <1>19 DEF Conclude
  <2>2. got[h] = "SessionReleaseSuccess" => Gone
      BY DEF ToldGone
  <2>3. DeleteReq(h) => got[h] \in {"SessionReleaseSuccess", "SessionReleaseFailed"}
      BY <1>d, <2>1 DEF Told, ResponseStatus
  <2> QED BY <1>19, <2>1, <2>2, <2>3 DEF Conclude, Told
<1> QED BY <1>1, <1>2, <1>3, <1>4, <1>5, <1>6, <1>7, <1>8, <1>9, <1>10, <1>11, <1>12,
           <1>13, <1>14, <1>15, <1>16, <1>17, <1>18, <1>19 DEF Handler

\* The UPF's answer to the request of the handler at work, and the SMF's
\* response handler up to the status in the channel.
LEMMA ExchangeMoves ==
    ASSUME InTurn, TypeOK', NEW h \in Sbi, Response(h) \/ Peer(h)
    PROVE  Move(h)
<1>t. TypeOK
    BY DEF InTurn, Release
<1>a. Path \subseteq Exchanges /\ Sbi \cap Path = {} /\ Sbi \subseteq Exchanges /\ h \notin Path
    BY SmAssumption DEF Exchanges
<1>b. rsp[h] \notin {"none", "done", "lost"}
    BY <1>a DEF Response, EstablishmentResponse, Establish, CheckState, NilContext, DeletePending,
           CheckEmpty, SendStatus, Peer, UpfEstablish, UpfAccept, UpfRefuse, UpfIgnore, Lose, Known
<1>c. ~AtRest(h) /\ (Deleting(h) \/ Waiting(h)) /\ pool
    BY <1>b DEF InTurn, OneAtATime, AtRest, AtWork, Begun, Modifying, Deleting, Removing, Deciding,
                Waiting, Told
<1>d. /\ pc[h] \notin {"idle", "done"} /\ result[h] = "none" /\ created = "ok"
      /\ state = "InActivePending" => Gone
    BY <1>c DEF InTurn, Promised, Established, Deleting, Waiting
<1>e. /\ pc' = pc /\ op' = op /\ result' = result /\ got' = got
      /\ state' = state /\ pool' = pool /\ created' = created
      /\ crashed' = crashed
      /\ \E l \in RspLabels \ {"none", "sent", "sent0"} : rsp' = [rsp EXCEPT ![h] = l]
    BY <1>a, <1>c DEF Response, EstablishmentResponse, Establish, CheckState, NilContext,
       DeletePending, CheckEmpty, SendStatus, Peer, UpfEstablish, UpfAccept, UpfRefuse, UpfIgnore,
       Lose, RspTo, RspLabels, ctx, upf
<1>f. AtWork(h)' => Move(h)
    BY <1>t, <1>a, <1>c, <1>d, <1>e DEF Move, DeleteReq, TypeOK
<1>g. CASE SendStatus(h)
  <2>1. Waiting(h)
      BY <1>c, <1>g DEF SendStatus, Deleting
  <2>2. chan = <<>> /\ chan' = Append(chan, ResponseStatus(h)) /\ rsp'[h] = "done"
      BY <1>t, <1>a, <1>g, <2>1 DEF SendStatus, Waiting, RspTo, TypeOK
  <2>3. chan' = <<ResponseStatus(h)>> /\ ResponseStatus(h)' = ResponseStatus(h)
      BY <1>g, <2>2 DEF SendStatus, ResponseStatus, ModifyReq, upf
  <2>4. Waiting(h)'
      BY <1>e, <1>b, <2>1, <2>2, <2>3 DEF Waiting, ModifyReq, DeleteReq
  <2> QED BY <1>f, <2>4 DEF AtWork
<1>h. CASE ~SendStatus(h)
  <2>1. chan' = chan
      BY <1>a, <1>h DEF Response, EstablishmentResponse, Establish, CheckState, NilContext,
         DeletePending, CheckEmpty, Peer, UpfEstablish, UpfAccept, UpfRefuse, UpfIgnore, Lose, ctx
  <2>2. CASE Waiting(h)
    <3>1. Waiting(h)'
        BY <1>t, <1>a, <1>b, <1>e, <2>1, <2>2 DEF Waiting, ModifyReq, DeleteReq, TypeOK
    <3> QED BY <1>f, <3>1 DEF AtWork
  <2>3. CASE Deleting(h)
    <3>1. rsp[h] \in {"sent", "sent0", "read"} /\ state # "PFCPModification"
        BY <1>b, <2>3 DEF Deleting, Unsettled
    <3>2. rsp'[h] \in {"lost", "read", "done"}
        BY <1>t, <1>a, <1>c, <1>h, <3>1
           DEF Response, EstablishmentResponse, Establish, CheckState, NilContext,
               DeletePending, CheckEmpty, Peer, UpfEstablish, UpfAccept, UpfRefuse, UpfIgnore,
               Lose, RspTo, TypeOK
    <3>3. Deleting(h)'
        BY <1>b, <1>e, <2>1, <2>3, <3>2 DEF Deleting, Unsettled, DeleteReq
    <3> QED BY <1>f, <3>3 DEF AtWork
  <2> QED BY <1>c, <2>2, <2>3
<1> QED BY <1>g, <1>h

\* The AMF's next request: only when no other is open, so whatever the last
\* one left is in order.
LEMMA RequestTurn ==
    ASSUME Sequential, InTurn, Release', Gone => Gone', NEW h \in Sbi, NEW o \in Ops, Request(h, o)
    PROVE  InTurn'
<1>t. TypeOK /\ Fresh /\ o \in AllOps
    BY SmAssumption DEF InTurn, Release
<1>1. \A g \in Sbi : AtRest(g)
  <2> SUFFICES ASSUME NEW g \in Sbi, ~AtRest(g) PROVE FALSE
      OBVIOUS
  <2>1. pc[g] \notin {"idle", "done"}
      BY DEF InTurn, OneAtATime, AtRest, AtWork, Begun, Modifying, Deleting, Removing, Deciding,
             Waiting, Told
  <2>2. Open = {g}
      BY <2>1 DEF Open, InTurn, OneAtATime, AtRest
  <2>3. Cardinality(Open) = 1
      BY <2>2, FS_Singleton
  <2> QED BY <2>3 DEF Request, Sequential
<1>2. ~Unsettled /\ rsp[h] = "none" /\ result[h] = "none"
    BY <1>1, <1>t DEF InTurn, OneAtATime, Fresh, Request, Promised
<1>3. created = "ok" /\ rsp[AN] \in {"done", "lost"}
    BY DEF Request, AmfMay, Sequential
<1>4. /\ pc' = [pc EXCEPT ![h] = "begin"] /\ op' = [op EXCEPT ![h] = o]
      /\ UNCHANGED <<state, pool, created, chan, result, rsp, crashed, session>>
    BY DEF Request, Goto, ctx, upf
<1>5. OneAtATime'
  <2>1. Begun(h)' /\ ~AtRest(h)'
      BY <1>t, <1>2, <1>4 DEF Begun, Unsettled, AtRest, TypeOK
  <2>2. \A g \in Sbi \ {h} : AtRest(g)'
      BY <1>t, <1>1, <1>4 DEF AtRest, TypeOK
  <2> QED BY <2>1, <2>2 DEF OneAtATime, AtWork
<1>6. o \in FinishOps => Gone
    BY DEF Request, AmfMay, InTurn, Promised
<1>7. Promised'
    BY <1>t, <1>2, <1>4, <1>6 DEF InTurn, Promised, DeleteReq, TypeOK
<1>8. Established'
    BY <1>t, <1>3, <1>4 DEF InTurn, Established, TypeOK
<1>9. Safe'
    BY <1>4 DEF InTurn, Safe
<1> QED BY <1>5, <1>7, <1>8, <1>9 DEF InTurn

\* The establishment of the session at a UPF of the path: at AN it is over
\* before the first request, and at the others nobody waits for it.
LEMMA PathTurn ==
    ASSUME InTurn, Release', Gone => Gone', NEW u \in Path, Response(u) \/ Peer(u)
    PROVE  InTurn'
<1>t. TypeOK /\ TypeOK' /\ Fresh
    BY DEF InTurn, Release
<1>a. AN \in Exchanges /\ AN \notin Sbi /\ Sbi \subseteq Exchanges /\ u \notin Sbi /\ u \in Exchanges
    BY SmAssumption DEF Exchanges
<1>1. rsp[u] \notin {"none", "done", "lost"}
    BY <1>a DEF Response, EstablishmentResponse, Establish, CheckState, NilContext, DeletePending,
           CheckEmpty, SendStatus, Peer, UpfEstablish, UpfAccept, UpfRefuse, UpfIgnore, Lose, Known
<1>2. /\ UNCHANGED <<pc, op, got, result, pool, created, chan>>
      /\ \E l \in RspLabels : rsp' = [rsp EXCEPT ![u] = l]
      /\ \A h \in Sbi : h \in accepted' <=> h \in accepted
    BY <1>a DEF Response, EstablishmentResponse, Establish, CheckState, NilContext,
       DeletePending, CheckEmpty, SendStatus, Peer, UpfEstablish, UpfAccept, UpfRefuse, UpfIgnore,
       Lose, RspTo, RspLabels, ctx, upf
<1>3. \A h \in Sbi : rsp'[h] = rsp[h]
    BY <1>t, <1>a, <1>2 DEF TypeOK
<1>4. \A h \in Sbi : pc[h] # "idle" => u # AN /\ rsp'[AN] = rsp[AN]
    BY <1>t, <1>a, <1>1, <1>2 DEF TypeOK, InTurn, Established
<1>5. state' = state \/ (state' = "Active" /\ u = AN)
  <2>1. Establish(u) => u = AN
      BY DEF Establish, InTurn, Established
  <2>2. CASE Establish(u)
      BY <2>1, <2>2 DEF Establish, SetState
  <2>3. CASE ~Establish(u)
      BY <1>a, <2>3 DEF Response, EstablishmentResponse, CheckState, NilContext, DeletePending,
         CheckEmpty, SendStatus, Peer, UpfEstablish, UpfAccept, UpfRefuse, UpfIgnore, Lose, ctx
  <2> QED BY <2>2, <2>3
<1>6. \A v \in Path : rsp'[v] = "n1n2" => v = AN
  <2>1. rsp'[u] = "n1n2" => u = AN
      BY <1>t, <1>a, <1>1 DEF Response, EstablishmentResponse, Establish, CheckState, NilContext,
         DeletePending, CheckEmpty, SendStatus, Peer, UpfEstablish, UpfAccept, UpfRefuse,
         UpfIgnore, Lose, RspTo, TypeOK
  <2>2. \A v \in Path \ {u} : rsp'[v] = rsp[v]
      BY <1>t, <1>a, <1>2 DEF TypeOK, Exchanges
  <2> QED BY <2>1, <2>2 DEF InTurn, Established
<1>7. (\E h \in Sbi : pc[h] # "idle") => state' = state
    BY <1>4, <1>5
<1>8. Unsettled' => Unsettled
    BY <1>2, <1>5 DEF Unsettled
<1>9. \A h \in Sbi : AtRest(h)' <=> AtRest(h)
    BY <1>2, <1>3 DEF AtRest
<1>10. \A h \in Sbi : ResponseStatus(h)' = ResponseStatus(h)
    BY <1>2 DEF ResponseStatus, ModifyReq
<1>11. ASSUME NEW h \in Sbi, AtWork(h) PROVE AtWork(h)'
  <2>1. state' = state /\ rsp'[h] = rsp[h] /\ ResponseStatus(h)' = ResponseStatus(h)
      BY <1>3, <1>7, <1>10, <1>11
         DEF AtWork, Begun, Modifying, Deleting, Removing, Deciding, Waiting, Told
  <2> QED BY <1>2, <1>11, <2>1
         DEF AtWork, Begun, Modifying, Deleting, Removing, Deciding, Waiting, Told, Unsettled,
             ModifyReq, DeleteReq
<1>12. OneAtATime'
    BY <1>8, <1>9, <1>11 DEF InTurn, OneAtATime
<1>13. Promised'
    BY <1>2, <1>5 DEF InTurn, Promised, DeleteReq
<1>14. Established'
    BY <1>2, <1>4, <1>6, <1>7 DEF InTurn, Established
<1>15. Safe'
  <2> SUFFICES ASSUME Path = {AN} PROVE ~crashed'
      BY DEF Safe
  <2>1. ~NilContext(u)
    <3>1. created = "no" => rsp[u] = "none"
        BY <1>t DEF Fresh
    <3>2. CASE created = "ok" /\ ~pool
      <4>1. PICK h \in Sbi : pc[h] # "idle"
          BY <3>2 DEF InTurn, Established
      <4> QED BY <1>4, <4>1
    <3>3. created = "failed" => pool
        BY DEF InTurn, Established
    <3> QED BY <1>t, <1>1, <3>1, <3>2, <3>3 DEF NilContext, TypeOK
  <2>2. crashed' = crashed
      BY <1>a, <2>1 DEF Response, EstablishmentResponse, Establish, CheckState,
         DeletePending, CheckEmpty, SendStatus, Peer, UpfEstablish, UpfAccept, UpfRefuse, UpfIgnore,
         Lose
  <2> QED BY <2>2 DEF InTurn, Safe
<1> QED BY <1>12, <1>13, <1>14, <1>15 DEF InTurn

LEMMA CreateTurn ==
    ASSUME InTurn, Release', Gone => Gone', CreateOk \/ CreateFails
    PROVE  InTurn'
<1>t. TypeOK /\ Sbi \cap Path = {} /\ Sbi \subseteq Exchanges /\ Path \subseteq Exchanges
    BY SmAssumption DEF InTurn, Release, Exchanges
<1>1. created = "no" /\ \A h \in Sbi : pc[h] = "idle"
    BY DEF CreateOk, CreateFails, InTurn, Established
<1>2. /\ UNCHANGED <<pc, op, got, result, chan, crashed>> /\ pool' = TRUE
      /\ state' \in {"InActive", "ActivePending"}
      /\ \A h \in Sbi : rsp'[h] = rsp[h]
      /\ \A u \in Path : rsp'[u] = "n1n2" => rsp[u] = "n1n2"
    BY <1>t DEF CreateOk, CreateFails, SetState, TypeOK
<1>3. OneAtATime'
    BY <1>1, <1>2 DEF InTurn, OneAtATime, AtRest, AtWork, Begun, Modifying, Deleting, Removing,
                      Deciding, Waiting, Told, Unsettled
<1>4. Promised' /\ Established' /\ Safe'
    BY <1>1, <1>2 DEF InTurn, Promised, Established, Safe, DeleteReq
<1> QED BY <1>3, <1>4 DEF InTurn

LEMMA InTurnStep ==
    ASSUME Sequential, InTurn, [Next]_vars
    PROVE  InTurn'
<1>1. Release' /\ TypeOK'
    BY ReleaseStep DEF InTurn, Release
<1>2. Gone => Gone'
    BY GoneForGood DEF InTurn
<1>3. CASE CreateOk \/ CreateFails
    BY <1>1, <1>2, <1>3, CreateTurn
<1>4. ASSUME NEW h \in Sbi, NEW o \in Ops, Request(h, o) PROVE InTurn'
    BY <1>1, <1>2, <1>4, RequestTurn
<1>5. ASSUME NEW h \in Sbi, Handler(h) PROVE InTurn'
    BY <1>1, <1>2, <1>5, HandlerMoves, Moves
<1>6. ASSUME NEW x \in Exchanges, Response(x) \/ Peer(x) PROVE InTurn'
  <2>1. CASE x \in Sbi
      BY <1>1, <1>2, <1>6, <2>1, ExchangeMoves, Moves
  <2>2. CASE x \in Path
      BY <1>1, <1>2, <1>6, <2>2, PathTurn
  <2> QED BY <2>1, <2>2 DEF Exchanges
<1>7. CASE UNCHANGED vars
  <2>1. OneAtATime'
      BY <1>7 DEF vars, ctx, upf, InTurn, OneAtATime, AtRest, AtWork, Begun, Modifying, Deleting,
         Removing, Deciding, Waiting, Told, Unsettled, ModifyReq, DeleteReq, ResponseStatus
  <2>2. Promised' /\ Established' /\ Safe'
      BY <1>7 DEF vars, ctx, upf, InTurn, Promised, Established, Safe, DeleteReq, Gone, Past
  <2> QED BY <1>1, <2>1, <2>2 DEF InTurn
<1> QED BY <1>3, <1>4, <1>5, <1>6, <1>7 DEF Next

LEMMA InTurnInvariant ==
    ASSUME Sequential
    PROVE  Spec => []InTurn
<1>1. InTurn /\ [Next]_vars => InTurn'
    BY InTurnStep
<1> QED BY <1>1, InTurnInit, PTL DEF Spec

-----------------------------------------------------------------------------

\* With one request open at a time, a handler that waited on
\* SBIPFCPCommunicationChan got the status of its own exchange, on any path
\* and however many PFCP requests were lost.
THEOREM StatusIsOwn ==
    ASSUME Sequential
    PROVE  Spec => []OwnStatus
<1>1. InTurn => OwnStatus
    BY DEF InTurn, OneAtATime, OwnStatus, AtRest, AtWork, Begun, Modifying, Deleting, Removing,
           Deciding, Waiting, Told
<1> QED BY <1>1, InTurnInvariant, PTL

\* Under the same condition the channel is empty whenever nobody is at work on
\* the context, so the next request finds no status of an earlier one.
THEOREM ChannelLeftEmpty ==
    ASSUME Sequential
    PROVE  Spec => []NoStaleStatus
<1>1. InTurn => NoStaleStatus
  <2> SUFFICES ASSUME InTurn, Open = {},
                      \A x \in Exchanges : rsp[x] \in {"none", "done", "lost"}
               PROVE  chan = <<>>
      BY DEF NoStaleStatus
  <2>1. \A h \in Sbi : AtRest(h)
      BY DEF Open, AtRest, Exchanges
  <2> QED BY <2>1 DEF InTurn, OneAtATime, Unsettled
<1> QED BY <1>1, InTurnInvariant, PTL

\* Under the same condition InActivePending, set by Conclude or by an N2 release
\* response, means that the UPF has deleted the session.
THEOREM PendingMeansDeleted ==
    ASSUME Sequential
    PROVE  Spec => []PendingReleaseDeleted
<1>1. InTurn => PendingReleaseDeleted
    BY DEF InTurn, Promised, Gone, PendingReleaseDeleted
<1> QED BY <1>1, InTurnInvariant, PTL

\* Under the same condition a context that RemoveSMContext took out of the pool
\* is InActive and stays so: no handler or late response sets another state.
THEOREM RemovedForGood ==
    ASSUME Sequential
    PROVE  Spec => []RemovedStaysInActive
<1>1. InTurn => RemovedStaysInActive
    BY DEF InTurn, Established, RemovedStaysInActive
<1> QED BY <1>1, InTurnInvariant, PTL

\* If moreover the path has one UPF, no PFCP response finds its context gone
\* (the establishment and modification handlers would dereference nil).
THEOREM NeverCrashes ==
    ASSUME Sequential, Path = {AN}
    PROVE  Spec => []NoCrash
<1>1. InTurn => NoCrash
    BY DEF InTurn, Safe, NoCrash
<1> QED BY <1>1, InTurnInvariant, PTL
=============================================================================
