--------------------------- MODULE SmContextProofs ---------------------------
(***************************************************************************)
(* Proofs about SmContext for any path, any number of SBI requests and any *)
(* number of them at work at once: types, and that a handler told          *)
(* SessionReleaseSuccess can rely on it although all handlers of a context *)
(* share one channel.                                                      *)
(***************************************************************************)
EXTENDS SmContext, SequenceTheorems, TLAPS

LEMMA TypeInit == Init => TypeOK
<1> SUFFICES ASSUME Init PROVE TypeOK
    OBVIOUS
<1>1. /\ state \in States /\ created \in {"no", "ok", "failed"}
      /\ pool \in BOOLEAN /\ tunnelUp \in BOOLEAN /\ dupRelease \in BOOLEAN
      /\ n1n2 \in BOOLEAN /\ crashed \in BOOLEAN
    BY DEF Init, States
<1>2. /\ remoteSEID \subseteq Path /\ PendingUPF \subseteq Path /\ session \subseteq Path
      /\ accepted \subseteq Exchanges
    BY DEF Init
<1>3. chan \in Seq(Statuses) /\ Len(chan) <= 1
    BY DEF Init
<1>4. /\ pc \in [Sbi -> Labels]
      /\ op \in [Sbi -> AllOps]
      /\ got \in [Sbi -> Statuses]
      /\ result \in [Sbi -> {"none", "ok", "failed", "notfound", "panic"}]
      /\ rsp \in [Exchanges -> RspLabels]
    BY DEF Init, Labels, AllOps, OtherOps, Statuses, RspLabels
<1> QED BY <1>1, <1>2, <1>3, <1>4 DEF TypeOK

LEMMA TypeStep == TypeOK /\ [Next]_vars => TypeOK'
<1> SUFFICES ASSUME TypeOK, [Next]_vars PROVE TypeOK'
    OBVIOUS
<1> USE DEF TypeOK, ctx, upf, Goto, Reply, RspTo, SetState, States, Labels, RspLabels
<1>1. CASE CreateOk \/ CreateFails
    BY <1>1 DEF CreateOk, CreateFails
<1>2. ASSUME NEW h \in Sbi, NEW o \in Ops, Request(h, o) PROVE TypeOK'
    BY <1>2, SmAssumption DEF Request
<1>3. ASSUME NEW h \in Sbi, NoContext(h) PROVE TypeOK'
    BY <1>3 DEF NoContext
<1>4. ASSUME NEW h \in Sbi, BeginOther(h) PROVE TypeOK'
    BY <1>4 DEF BeginOther
<1>5. ASSUME NEW h \in Sbi, Undecodable(h) PROVE TypeOK'
    BY <1>5 DEF Undecodable
<1>6. ASSUME NEW h \in Sbi, BeginPending(h) PROVE TypeOK'
    BY <1>6 DEF BeginPending
<1>7. ASSUME NEW h \in Sbi, BeginModify(h) PROVE TypeOK'
    BY <1>7, SmAssumption DEF BeginModify
<1>8. ASSUME NEW h \in Sbi, SetModify(h) PROVE TypeOK'
    BY <1>8 DEF SetModify
<1>9. ASSUME NEW h \in Sbi, BeginDelete(h) PROVE TypeOK'
    BY <1>9 DEF BeginDelete
<1>10. ASSUME NEW h \in Sbi, SendDelete(h) PROVE TypeOK'
    BY <1>10 DEF SendDelete
<1>11. ASSUME NEW h \in Sbi, AddPending(h) PROVE TypeOK'
    BY <1>11, SmAssumption DEF AddPending
<1>12. ASSUME NEW h \in Sbi, SetDelete(h) PROVE TypeOK'
    BY <1>12 DEF SetDelete
<1>13. ASSUME NEW h \in Sbi, BeginFinish(h) PROVE TypeOK'
    BY <1>13 DEF BeginFinish
<1>14. ASSUME NEW h \in Sbi, RemoveSMContext(h) PROVE TypeOK'
  <2>1. CASE pool
      BY <1>14, <2>1 DEF RemoveSMContext
  <2>2. CASE ~pool
      BY <1>14, <2>2 DEF RemoveSMContext
  <2> QED BY <2>1, <2>2
<1>15. ASSUME NEW h \in Sbi, SwitchWait(h) PROVE TypeOK'
    BY <1>15 DEF SwitchWait
<1>16. ASSUME NEW h \in Sbi, SwitchPending(h) PROVE TypeOK'
    BY <1>16 DEF SwitchPending
<1>17. ASSUME NEW h \in Sbi, ToActive(h) PROVE TypeOK'
    BY <1>17 DEF ToActive
<1>18. ASSUME NEW h \in Sbi, SwitchInactive(h) PROVE TypeOK'
    BY <1>18 DEF SwitchInactive
<1>19. ASSUME NEW h \in Sbi, SwitchDefault(h) PROVE TypeOK'
    BY <1>19 DEF SwitchDefault
<1>20. ASSUME NEW h \in Sbi, Await(h) PROVE TypeOK'
    BY <1>20 DEF Await
<1>21. ASSUME NEW h \in Sbi, Conclude(h) PROVE TypeOK'
    BY <1>21 DEF Conclude
<1>22. ASSUME NEW x \in Exchanges, NEW ok \in BOOLEAN, UpfEstablish(x, ok) PROVE TypeOK'
    BY <1>22 DEF UpfEstablish, Exchanges
<1>23. ASSUME NEW x \in Exchanges, EstablishmentResponse(x) PROVE TypeOK'
    BY <1>23 DEF EstablishmentResponse, Exchanges
<1>24. ASSUME NEW x \in Exchanges, Establish(x) PROVE TypeOK'
    BY <1>24 DEF Establish
<1>25. ASSUME NEW x \in Exchanges, CheckState(x) PROVE TypeOK'
    BY <1>25 DEF CheckState
<1>26. ASSUME NEW x \in Exchanges, NilContext(x) PROVE TypeOK'
    BY <1>26 DEF NilContext
<1>27. ASSUME NEW x \in Exchanges, DeletePending(x) PROVE TypeOK'
    BY <1>27 DEF DeletePending
<1>28. ASSUME NEW x \in Exchanges, CheckEmpty(x) PROVE TypeOK'
    BY <1>28 DEF CheckEmpty
<1>29. ASSUME NEW x \in Exchanges, SendStatus(x) PROVE TypeOK'
    BY <1>29 DEF SendStatus, ResponseStatus, Statuses
<1>30. ASSUME NEW x \in Exchanges, UpfAccept(x) PROVE TypeOK'
    BY <1>30 DEF UpfAccept, Known
<1>31. ASSUME NEW x \in Exchanges, UpfRefuse(x) PROVE TypeOK'
    BY <1>31 DEF UpfRefuse
<1>32. ASSUME NEW x \in Exchanges, UpfIgnore(x) PROVE TypeOK'
    BY <1>32 DEF UpfIgnore
<1>33. ASSUME NEW x \in Exchanges, Lose(x) PROVE TypeOK'
    BY <1>33 DEF Lose
<1>34. CASE UNCHANGED vars
    BY <1>34 DEF vars
<1> QED
    BY <1>1, <1>2, <1>3, <1>4, <1>5, <1>6, <1>7, <1>8, <1>9, <1>10, <1>11, <1>12,
       <1>13, <1>14, <1>15, <1>16, <1>17, <1>18, <1>19, <1>20, <1>21, <1>22,
       <1>23, <1>24, <1>25, <1>26, <1>27, <1>28, <1>29, <1>30, <1>31, <1>32,
       <1>33, <1>34
       DEF Next, Handler, Response, Peer

\* The variables of a context keep their types in every reachable state.
THEOREM TypeCorrect == Spec => []TypeOK
BY TypeInit, TypeStep, PTL DEF Spec

-----------------------------------------------------------------------------
(* A release success, once it is under way anywhere, means that the session *)
(* at AN is gone for good: it was established before and no establishment   *)
(* request is on its way.                                                   *)

Past == created # "no" /\ rsp[AN] # "sent"
Gone == AN \notin session /\ Past

\* Nothing is sent before the context is created or the handler has begun.
Fresh ==
    /\ created = "no" => rsp[AN] = "none"
    /\ \A h \in Sbi : pc[h] = "idle" => rsp[h] = "none" /\ h \notin accepted

\* What a handler has sent is what its request is about.
Kinds ==
    \A h \in Sbi : /\ pc[h] = "delete" => DeleteReq(h)
                   /\ rsp[h] # "none" => ModifyReq(h) \/ DeleteReq(h)

SessionPast == AN \in session => Past

AcceptedGone == \A h \in Sbi : h \in accepted => ModifyReq(h) \/ (DeleteReq(h) /\ Gone)

ToldGone ==
    /\ \A i \in 1..Len(chan) : chan[i] = "SessionReleaseSuccess" => Gone
    /\ \A h \in Sbi : got[h] = "SessionReleaseSuccess" => Gone

Release ==
    /\ TypeOK
    /\ Fresh
    /\ Kinds
    /\ SessionPast
    /\ AcceptedGone
    /\ ToldGone

LEMMA ReleaseInit == Init => Release
<1> SUFFICES ASSUME Init PROVE Release
    OBVIOUS
<1>1. TypeOK
    BY TypeInit
<1>2. Fresh /\ Kinds /\ SessionPast /\ AcceptedGone
    BY SmAssumption DEF Init, Fresh, Kinds, SessionPast, AcceptedGone, Exchanges
<1>3. ToldGone
    BY DEF Init, ToldGone
<1> QED BY <1>1, <1>2, <1>3 DEF Release

\* A handler's step that does not touch the exchange, the channel or the UPF.
LEMMA ReleaseLocal ==
    ASSUME Release, TypeOK', NEW h \in Sbi, NEW l \in Labels \ {"idle"},
           l = "delete" => DeleteReq(h), pc' = [pc EXCEPT ![h] = l],
           UNCHANGED <<op, got, rsp, chan, created, accepted, session>>
    PROVE  Release'
BY DEF Release, TypeOK, Fresh, Kinds, SessionPast, AcceptedGone, ToldGone, Gone, Past,
       ModifyReq, DeleteReq

\* A step of an exchange that is under way, after the UPF has seen it.
LEMMA ReleaseExchange ==
    ASSUME Release, TypeOK', NEW x \in Exchanges, NEW l \in RspLabels \ {"none", "sent"},
           rsp[x] # "none", rsp' = [rsp EXCEPT ![x] = l],
           UNCHANGED <<pc, op, got, chan, created, accepted, session>>
    PROVE  Release'
<1> USE SmAssumption DEF Release, TypeOK, Exchanges
<1>1. Past => Past'
    BY DEF Past
<1>2. Fresh' /\ Kinds'
    BY DEF Fresh, Kinds, ModifyReq, DeleteReq
<1>3. SessionPast' /\ AcceptedGone' /\ ToldGone'
    BY <1>1 DEF SessionPast, AcceptedGone, ToldGone, Gone, ModifyReq, DeleteReq
<1> QED BY <1>2, <1>3

\* A handler sends its PFCP request.
LEMMA ReleaseSend ==
    ASSUME Release, TypeOK', NEW h \in Sbi, NEW l \in {"sent", "sent0"}, NEW k \in {"pend", "wait"},
           ModifyReq(h) \/ DeleteReq(h),
           pc' = [pc EXCEPT ![h] = k], rsp' = [rsp EXCEPT ![h] = l],
           UNCHANGED <<op, got, chan, created, accepted, session>>
    PROVE  Release'
<1> USE SmAssumption DEF Release, TypeOK, Exchanges
<1>1. Past => Past'
    BY DEF Past
<1>2. Fresh' /\ Kinds'
    BY DEF Fresh, Kinds, ModifyReq, DeleteReq
<1>3. SessionPast' /\ AcceptedGone' /\ ToldGone'
    BY <1>1 DEF SessionPast, AcceptedGone, ToldGone, Gone, ModifyReq, DeleteReq
<1> QED BY <1>2, <1>3

\* A channel that is not empty holds one status, which is its head.
LEMMA OneStatus ==
    ASSUME NEW c \in Seq(Statuses), c # <<>>, Len(c) <= 1
    PROVE  Len(c) = 1 /\ Head(c) = c[1] /\ Len(Tail(c)) = 0
<1>1. Len(c) \in Nat \ {0}
    BY EmptySeq
<1>2. Len(Tail(c)) = Len(c) - 1
    BY HeadTailProperties
<1> QED BY <1>1, <1>2

LEMMA ReleaseStep == Release /\ [Next]_vars => Release'
<1> SUFFICES ASSUME Release, [Next]_vars PROVE Release'
    OBVIOUS
<1>t. TypeOK /\ TypeOK'
    BY TypeStep DEF Release
<1>a. AN \in Path /\ AN \in Exchanges /\ Sbi \cap Path = {} /\ Sbi \subseteq Exchanges
    BY SmAssumption DEF Exchanges
<1>1. CASE CreateOk
  <2>1. rsp[AN] = "none" /\ AN \notin session /\ ~Gone
      BY <1>1 DEF CreateOk, Release, Fresh, SessionPast, Past, Gone
  <2>2. Fresh' /\ Kinds'
      BY <1>1, <1>a DEF CreateOk, Release, Fresh, Kinds, ModifyReq, DeleteReq, upf
  <2>3. SessionPast' /\ AcceptedGone' /\ ToldGone'
      BY <1>1, <2>1 DEF CreateOk, Release, SessionPast, AcceptedGone, ToldGone, upf,
                        ModifyReq, DeleteReq
  <2> QED BY <1>t, <2>2, <2>3 DEF Release
<1>2. CASE CreateFails
    BY <1>t, <1>2 DEF CreateFails, Release, Fresh, Kinds, SessionPast, AcceptedGone, ToldGone,
                      Gone, Past, upf, ModifyReq, DeleteReq
<1>3. ASSUME NEW h \in Sbi, NEW o \in Ops, Request(h, o) PROVE Release'
  <2> USE <1>t, <1>3 DEF Request, Release, TypeOK, ctx, upf, Goto
  <2>1. rsp[h] = "none" /\ h \notin accepted
      BY DEF Fresh
  <2>2. Fresh' /\ Kinds'
      BY <2>1 DEF Fresh, Kinds, ModifyReq, DeleteReq
  <2>3. SessionPast' /\ ToldGone'
      BY DEF SessionPast, ToldGone, Gone, Past
  <2>4. AcceptedGone'
      BY <2>1 DEF AcceptedGone, Gone, Past, ModifyReq, DeleteReq
  <2> QED BY <2>2, <2>3, <2>4
<1>4. ASSUME NEW h \in Sbi,
             \/ NoContext(h) \/ BeginOther(h) \/ Undecodable(h) \/ BeginPending(h)
             \/ BeginModify(h) \/ SetModify(h) \/ BeginDelete(h) \/ AddPending(h)
             \/ SetDelete(h) \/ BeginFinish(h) \/ RemoveSMContext(h) \/ SwitchPending(h)
             \/ ToActive(h) \/ SwitchInactive(h) \/ SwitchDefault(h) \/ Conclude(h)
      PROVE  Release'
  <2>1. /\ UNCHANGED <<op, got, rsp, chan, created, accepted, session>>
        /\ \E l \in Labels \ {"idle"} :
              (l = "delete" => DeleteReq(h)) /\ pc' = [pc EXCEPT ![h] = l]
      BY <1>4 DEF NoContext, BeginOther, Undecodable, BeginPending, BeginModify, SetModify,
             BeginDelete, AddPending, SetDelete, BeginFinish, RemoveSMContext, SwitchPending,
             ToActive, SwitchInactive, SwitchDefault, Conclude, Labels, ctx, upf, Goto, Reply
  <2> QED BY <1>t, <2>1, ReleaseLocal
<1>5. ASSUME NEW h \in Sbi, SendDelete(h) PROVE Release'
  <2>1. DeleteReq(h)
      BY <1>5 DEF SendDelete, Release, Kinds
  <2> QED BY <1>t, <1>5, <2>1, ReleaseSend DEF SendDelete, ctx, upf, Goto, RspTo
<1>6. ASSUME NEW h \in Sbi, SwitchWait(h) PROVE Release'
  <2>1. CASE ModifyReq(h)
      BY <1>t, <1>6, <2>1, ReleaseSend DEF SwitchWait, ctx, upf, Goto, RspTo
  <2>2. CASE ~ModifyReq(h)
      BY <1>t, <1>6, <2>2, ReleaseLocal DEF SwitchWait, ctx, upf, Goto, Labels
  <2> QED BY <2>1, <2>2
<1>7. ASSUME NEW h \in Sbi, Await(h) PROVE Release'
  <2> USE <1>t, <1>7 DEF Await, Release, TypeOK, upf, Goto
  <2>1. /\ Len(chan) = 1 /\ Head(chan) = chan[1] /\ Len(Tail(chan)) = 0
      BY OneStatus
  <2>2. Fresh' /\ Kinds' /\ SessionPast' /\ AcceptedGone'
      BY DEF Fresh, Kinds, SessionPast, AcceptedGone, Gone, Past, ModifyReq, DeleteReq
  <2>3. Gone' <=> Gone
      BY DEF Gone, Past
  <2>4. ToldGone'
      BY <2>1, <2>3 DEF ToldGone
  <2> QED BY <2>2, <2>4
<1>8. ASSUME NEW x \in Exchanges, NEW ok \in BOOLEAN, UpfEstablish(x, ok) PROVE Release'
  <2> USE <1>t, <1>8, <1>a DEF UpfEstablish, Release, TypeOK, ctx, RspTo
  <2>1. /\ x \in Path /\ rsp[x] = "sent" /\ rsp' = [rsp EXCEPT ![x] = "read"]
        /\ session' = session \cup {x} /\ UNCHANGED <<created, chan, got, op, pc>>
        /\ \A h \in Sbi : h \in accepted' <=> h \in accepted
      OBVIOUS
  <2>2. Gone => Gone'
      BY <2>1 DEF Gone, Past
  <2>3. Fresh' /\ Kinds'
      BY <2>1 DEF Fresh, Kinds, ModifyReq, DeleteReq
  <2>4. SessionPast'
      BY <2>1 DEF SessionPast, Past, Fresh
  <2>5. AcceptedGone' /\ ToldGone'
      BY <2>1, <2>2 DEF AcceptedGone, ToldGone, ModifyReq, DeleteReq
  <2> QED BY <2>3, <2>4, <2>5
<1>9. ASSUME NEW h \in Exchanges, UpfAccept(h) PROVE Release'
  <2> USE <1>t, <1>9, <1>a DEF UpfAccept, Known, Release, TypeOK, ctx, RspTo
  <2>1. /\ h \in Sbi /\ rsp[h] = "sent" /\ AN \in session
        /\ rsp' = [rsp EXCEPT ![h] = "read"] /\ accepted' = accepted \cup {h}
        /\ session' = IF DeleteReq(h) THEN session \ {AN} ELSE session
        /\ UNCHANGED <<created, chan, got, op, pc>>
      OBVIOUS
  <2>2. Past /\ Past'
      BY <2>1 DEF SessionPast, Past
  <2>3. /\ ModifyReq(h) \/ DeleteReq(h)
        /\ DeleteReq(h) => Gone'
        /\ ~Gone
      BY <2>1, <2>2 DEF Kinds, Gone
  <2>4. Fresh' /\ Kinds'
      BY <2>1 DEF Fresh, Kinds, ModifyReq, DeleteReq
  <2>5. SessionPast' /\ ToldGone'
      BY <2>1, <2>2, <2>3 DEF SessionPast, ToldGone
  <2>6. AcceptedGone'
      BY <2>1, <2>3 DEF AcceptedGone, ModifyReq, DeleteReq
  <2> QED BY <2>4, <2>5, <2>6
<1>10. ASSUME NEW x \in Exchanges,
              \/ UpfRefuse(x) \/ UpfIgnore(x) \/ Lose(x) \/ EstablishmentResponse(x)
              \/ Establish(x) \/ CheckState(x) \/ NilContext(x) \/ DeletePending(x)
              \/ CheckEmpty(x)
       PROVE  Release'
  <2>1. /\ rsp[x] # "none" /\ UNCHANGED <<pc, op, got, chan, created, accepted, session>>
        /\ \E l \in RspLabels \ {"none", "sent"} : rsp' = [rsp EXCEPT ![x] = l]
      BY <1>10 DEF UpfRefuse, UpfIgnore, Lose, EstablishmentResponse, Establish, CheckState,
             NilContext, DeletePending, CheckEmpty, Known, RspLabels, RspTo, ctx, upf
  <2> QED BY <1>t, <2>1, ReleaseExchange
<1>11. ASSUME NEW h \in Exchanges, SendStatus(h) PROVE Release'
  <2> USE <1>t, <1>11, <1>a DEF SendStatus, Release, TypeOK, upf, RspTo
  <2>1. /\ h \in Sbi /\ rsp' = [rsp EXCEPT ![h] = "done"]
        /\ UNCHANGED <<pc, op, got, created, accepted, session>>
      OBVIOUS
  <2>2. ResponseStatus(h) = "SessionReleaseSuccess" => Gone
      BY <2>1 DEF ResponseStatus, AcceptedGone
  <2>3. Gone' <=> Gone
      BY <2>1 DEF Gone, Past
  <2>4. ResponseStatus(h) \in Statuses
      BY DEF ResponseStatus, Statuses
  <2>5. \A i \in 1..Len(chan') : chan'[i] = ResponseStatus(h)
      BY <2>4
  <2>6. ToldGone'
      BY <2>1, <2>2, <2>3, <2>5 DEF ToldGone
  <2>7. Fresh' /\ Kinds' /\ SessionPast' /\ AcceptedGone'
      BY <2>1, <2>3 DEF Fresh, Kinds, SessionPast, AcceptedGone, Gone, Past, ModifyReq, DeleteReq
  <2> QED BY <2>6, <2>7
<1>12. CASE UNCHANGED vars
    BY <1>t, <1>12 DEF vars, ctx, upf, Release, Fresh, Kinds, SessionPast, AcceptedGone,
           ToldGone, Gone, Past, ModifyReq, DeleteReq
<1> QED
    BY <1>1, <1>2, <1>3, <1>4, <1>5, <1>6, <1>7, <1>8, <1>9, <1>10, <1>11, <1>12
       DEF Next, Handler, Response, Peer

LEMMA ReleaseInvariant == Spec => []Release
BY ReleaseInit, ReleaseStep, PTL DEF Spec

\* Whoever takes SessionReleaseSuccess from the shared channel, the UPF has
\* deleted the session and will not get it again, for any number of requests
\* at work at once (HandlePfcpSessionDeletionResponse, Update, Release).
THEOREM ReleaseMeansDeleted == Spec => []ReleaseIsReal
<1>1. Release => ReleaseIsReal
    BY DEF Release, ToldGone, Gone, ReleaseIsReal
<1> QED BY <1>1, ReleaseInvariant, PTL
==============================================================================
