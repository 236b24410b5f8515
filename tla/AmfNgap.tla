------------------------------- MODULE AmfNgap -------------------------------
(***************************************************************************)
(* The connection contexts of the AMF (src/amf/context: AmfRan, RanUe,     *)
(* AmfUe) and the NGAP handlers that create, move and remove them          *)
(* (src/amf/ngap/handler.go).  A RanUe is one logical NG connection; it    *)
(* points to its AmfUe, and the AmfUe points back through RanUe[AnType].   *)
(* Handovers and repeated initial messages give one AmfUe several RanUes.  *)
(*                                                                         *)
(* The AMF's memory is the record amf; each function of the code is an     *)
(* operator that returns the record it leaves, and a handler is the        *)
(* composition of the functions it calls.  All RANs are of 3GPP access.    *)
(* A RAN names a connection by the identifier it gave it, so a look-up by  *)
(* RanUeNgapId finds that connection in the RAN's list or nothing.         *)
(***************************************************************************)
EXTENDS Naturals, Sequences, FiniteSets

CONSTANTS
    Rans,       \* AmfRan objects, one for each SCTP connection
    AmfUes,     \* AmfUe objects
    NoRan,
    NoUe,       \* a nil *AmfUe
    MaxRanUe    \* bound on the RanUe objects created

ASSUME NgapAssumption ==
    /\ MaxRanUe \in Nat \ {0}
    /\ NoRan \notin Rans
    /\ NoUe \notin AmfUes

\* A RanUe is named by its AmfUeNgapId; 0 is a nil *RanUe.
RanUes == 1..MaxRanUe
\* "Registering" stands for Authentication, SecurityMode and ContextSetup.
GmmStates == {"Deregistered", "Registering", "Registered"}
Actions == {"N2NormalRelease", "ReleaseHandover", "ReleaseUeContext"}

VARIABLES
    amf,        \* the AMF's contexts, see AmfType
    cmds,       \* what the AMF asked a RAN and the RAN has not answered
    overlapped  \* history: the AmfUes that ever had two RanUes in RanUePool

vars == <<amf, cmds, overlapped>>

AmfType == [
    up        : [Rans -> {"new", "up", "gone"}],        \* AmfRanPool
    list      : [Rans -> Seq(RanUes)],                  \* ran.RanUeList
    next      : 0..MaxRanUe,                            \* last AmfUeNgapId given
    pool      : SUBSET RanUes,                          \* RanUePool
    ran       : [RanUes -> Rans \cup {NoRan}],          \* ranUe.Ran
    ue        : [RanUes -> AmfUes \cup {NoUe}],         \* ranUe.AmfUe
    source    : [RanUes -> 0..MaxRanUe],                \* ranUe.SourceUe
    target    : [RanUes -> 0..MaxRanUe],                \* ranUe.TargetUe
    action    : [RanUes -> Actions],                    \* ranUe.ReleaseAction
    cur       : [AmfUes -> 0..MaxRanUe],                \* ue.RanUe[AnType], 0 no entry
    gmm       : [AmfUes -> GmmStates],                  \* ue.State[AnType]
    uePool    : SUBSET AmfUes,                          \* UePool
    tmsi      : [AmfUes -> {"none", "held", "freed"}],
    cause     : [AmfUes -> {"ok", "nil"}],              \* ue.ReleaseCause[AnType], absent or set: "ok"
    panic     : {"no", "nas", "release"},               \* the nil dereference that ended the AMF
    victim    : AmfUes \cup {NoUe}]                     \* and the AmfUe it was on

----------------------------------------------------------------------------
(* context/amf_ran.go, ran_ue.go, amf_ue.go, common_function.go            *)

\* The connections of a RAN.
Listed(a, r) == {a.list[r][n] : n \in DOMAIN a.list[r]}

\* Mutant: the entry is set to nil, not deleted.
NilDetachRanUe(a, u) == [a EXCEPT !.cur[u] = NoUe]

DetachRanUe(a, u) == [a EXCEPT !.cur[u] = 0]

AttachRanUe(a, u, i) == [a EXCEPT !.cur[u] = i, !.ue[i] = u]

\* append(list[:index], list[index+1:]...) at the first entry that is i.
Without(s, i) ==
    IF \E n \in DOMAIN s : s[n] = i
    THEN LET k == CHOOSE n \in DOMAIN s : s[n] = i /\ \A m \in 1..(n-1) : s[m] # i
         IN  [n \in 1..(Len(s) - 1) |-> IF n < k THEN s[n] ELSE s[n+1]]
    ELSE s

NewRanUe(a, r) ==
    LET i == a.next + 1
    IN  [a EXCEPT !.next = i, !.ran[i] = r, !.list[r] = Append(@, i), !.pool = @ \cup {i}]

\* Mutant: only the RanUe forgets.
OneSidedDropUe(a, i) == [a EXCEPT !.ue[i] = NoUe]

\* DetachRanUe clears the AmfUe's entry whichever RanUe it holds.
DropUe(a, i) ==
    IF a.ue[i] # NoUe THEN [DetachRanUe(a, a.ue[i]) EXCEPT !.ue[i] = NoUe] ELSE a

RemoveRanUe(a, i) ==
    [DropUe(a, i) EXCEPT !.list[a.ran[i]] = Without(@, i), !.pool = @ \ {i}]

\* The range statement reads the array that Remove shifts under it, so of n
\* connections it removes the odd ones and the last (checked in MCAmfNgap).
Reached(s) == {s[n] : n \in {m \in DOMAIN s : m % 2 = 1 \/ m = Len(s)}}
Skipped(s) == [n \in 1..((Len(s) - 1) \div 2) |-> s[2*n]]

\* Mutant: the connections are left.
NoRemoveAllUeInRan(a, r) == a

RemoveAllUeInRan(a, r) ==
    LET gone == Reached(a.list[r])
    IN  [a EXCEPT !.list[r] = Skipped(@),
                  !.pool = @ \ gone,
                  !.ue   = [i \in RanUes |-> IF i \in gone THEN NoUe ELSE @[i]],
                  !.cur  = [u \in AmfUes |-> IF \E i \in gone : a.ue[i] = u THEN 0 ELSE @[u]]]

\* Mutant: the old RAN keeps its entry.
CopySwitchToRan(a, i, r) == [a EXCEPT !.list[r] = Append(@, i), !.ran[i] = r]

SwitchToRan(a, i, r) ==
    LET left == [a.list EXCEPT ![a.ran[i]] = Without(@, i)]
    IN  [a EXCEPT !.list = [left EXCEPT ![r] = Append(@, i)], !.ran[i] = r]

NewAmfUe(a, u) == [a EXCEPT !.tmsi[u] = "held"]

\* Mutant: its connection is left.
KeepRemoveAmfUe(a, u) == [a EXCEPT !.tmsi[u] = "freed", !.uePool = @ \ {u}]

RemoveAmfUe(a, u) ==
    LET b == IF a.cur[u] # 0 THEN RemoveRanUe(a, a.cur[u]) ELSE a
    IN  [b EXCEPT !.tmsi[u] = "freed",
                  !.uePool = @ \ {u}]

AttachSourceUeTargetUe(a, s, t) ==
    [a EXCEPT !.ue[t] = a.ue[s], !.source[t] = s, !.target[s] = t]

\* Mutant: the other end keeps its pointer.
OneSidedDetach(a, i) == [a EXCEPT !.target[i] = 0, !.source[i] = 0]

DetachSourceUeTargetUe(a, i) ==
    CASE a.target[i] # 0                      -> [a EXCEPT !.target[i] = 0, !.source[a.target[i]] = 0]
      [] a.target[i] = 0 /\ a.source[i] # 0   -> [a EXCEPT !.source[i] = 0, !.target[a.source[i]] = 0]
      [] a.target[i] = 0 /\ a.source[i] = 0   -> a

\* Mutant: ReleaseCause is not written.
NoCauseSend(a, i, act) == IF i = 0 THEN a ELSE [a EXCEPT !.action[i] = act]

\* ngap/message/send.go.  A nil RanUe (0) is only logged.
SendUEContextReleaseCommand(a, i, act) ==
    IF i = 0 THEN a
    ELSE IF a.ue[i] = NoUe THEN [a EXCEPT !.action[i] = act]
    ELSE [a EXCEPT !.action[i] = act, !.cause[a.ue[i]] = "ok"]

Release(i) == IF i = 0 THEN {} ELSE {<<"Release", i>>}

----------------------------------------------------------------------------
(* What a NAS message on connection i does to these contexts.              *)

Panic(a, where, u) == [a EXCEPT !.panic = where, !.victim = u]

\* ue.RanUe[accessType].UeContextRequest, read or written without a check.
UseRanUe(a, u) == IF a.cur[u] = 0 THEN Panic(a, "nas", u) ELSE a

\* "FollowOn": a registration complete with uplink data or a follow-on request.
NasKinds == {"Request", "Complete", "FollowOn", "Fail", "Service", "Deregister"}

Gmm(a, u, kind) ==
    CASE kind = "Request" /\ a.gmm[u] # "Registering" /\ a.cur[u] # 0 ->
           [a EXCEPT !.gmm[u] = "Registering"]
      [] kind = "Complete" /\ a.gmm[u] = "Registering" ->
           UseRanUe([SendUEContextReleaseCommand(a, a.cur[u], "N2NormalRelease")
                       EXCEPT !.gmm[u] = "Registered", !.uePool = @ \cup {u}], u)
      [] kind = "FollowOn" /\ a.gmm[u] = "Registering" ->
           UseRanUe([a EXCEPT !.gmm[u] = "Registered", !.uePool = @ \cup {u}], u)
      [] kind = "Fail" /\ a.gmm[u] = "Registering" ->
           UseRanUe([a EXCEPT !.gmm[u] = "Deregistered"], u)
      [] kind = "Service" /\ a.gmm[u] = "Registered" -> UseRanUe(a, u)
      [] kind = "Deregister" /\ a.gmm[u] = "Registered" ->
           UseRanUe([SendUEContextReleaseCommand(a, a.cur[u], "ReleaseUeContext")
                       EXCEPT !.gmm[u] = "Deregistered"], u)
      [] OTHER -> a

\* The release command such a message sends.
GmmCmd(a, u, kind) ==
    IF \/ kind = "Complete"   /\ a.gmm[u] = "Registering"
       \/ kind = "Deregister" /\ a.gmm[u] = "Registered"
    THEN Release(a.cur[u]) ELSE {}

\* A RanUe without AmfUe gets the new AmfUe v.
UeOf(a, i, v) == IF a.ue[i] = NoUe THEN v ELSE a.ue[i]

Attached(a, i, v) ==
    IF a.ue[i] = NoUe THEN AttachRanUe(NewAmfUe(a, v), v, i) ELSE a

HandleNAS(a, i, v, kind) == Gmm(Attached(a, i, v), UeOf(a, i, v), kind)
NasCmd(a, i, v, kind)    == GmmCmd(Attached(a, i, v), UeOf(a, i, v), kind)

----------------------------------------------------------------------------
Init ==
    /\ amf = [up      |-> [r \in Rans |-> "new"],
              list    |-> [r \in Rans |-> <<>>],
              next    |-> 0,
              pool    |-> {},
              ran     |-> [i \in RanUes |-> NoRan],
              ue      |-> [i \in RanUes |-> NoUe],
              source  |-> [i \in RanUes |-> 0],
              target  |-> [i \in RanUes |-> 0],
              action  |-> [i \in RanUes |-> "N2NormalRelease"],
              cur     |-> [u \in AmfUes |-> 0],
              gmm     |-> [u \in AmfUes |-> "Deregistered"],
              uePool  |-> {},
              tmsi    |-> [u \in AmfUes |-> "none"],
              cause   |-> [u \in AmfUes |-> "ok"],
              panic   |-> "no",
              victim  |-> NoUe]
    /\ cmds = {}
    /\ overlapped = {}

\* The AmfUes with two connections in RanUePool.
Doubled(a) == {u \in AmfUes : \E i, j \in a.pool : i # j /\ a.ue[i] = u /\ a.ue[j] = u}

\* A handler ran to its end and left the contexts a and the commands c.  An
\* answer for a connection that is not in RanUePool finds nothing, so commands
\* for those are left out.
Leave(a, c) ==
    /\ amf.panic = "no"
    /\ amf' = a
    /\ cmds' = {x \in c : x[2] \in a.pool}
    /\ overlapped' = overlapped \cup Doubled(a)

\* Both the AMF and the RAN, which is connected, have the connection i.
Known(i) ==
    /\ i \in amf.pool /\ amf.up[amf.ran[i]] = "up"
    /\ <<"HandoverRequest", i>> \notin cmds

HandleNGSetupRequest(r) ==
    /\ amf.up[r] = "new"
    /\ Leave([amf EXCEPT !.up[r] = "up"], cmds)

\* AmfUes not used yet: what NewAmfUe may return.
Fresh == {u \in AmfUes : amf.tmsi[u] = "none"}

\* The RAN names an existing connection k that has an AmfUe.
InitialUEMessageKnown(r, k, kind) ==
    LET b == AttachRanUe(amf, amf.ue[k], k)
    IN  /\ Known(k) /\ amf.ran[k] = r /\ amf.ue[k] # NoUe
        /\ Leave(HandleNAS(b, k, NoUe, kind), cmds \cup NasCmd(b, k, NoUe, kind))

\* It names no connection, or one (k) whose AmfUe is gone; g is the AmfUe its
\* 5G-S-TMSI leads to, or NoUe.
InitialUEMessageNew(r, k, g, v, kind) ==
    LET a == IF k = 0 THEN amf ELSE RemoveRanUe(amf, k)
        i == a.next + 1
        b == IF g = NoUe THEN NewRanUe(a, r)
             ELSE AttachRanUe(DetachRanUe(NewRanUe(a, r), g), g, i)
    IN  /\ amf.up[r] = "up" /\ amf.next < MaxRanUe
        /\ k # 0 => k \in Listed(amf, r) /\ amf.ue[k] = NoUe
        /\ Leave(HandleNAS(b, i, v, kind), cmds \cup NasCmd(b, i, v, kind))

HandleInitialUEMessage(r, kind) ==
    \/ \E k \in Listed(amf, r) : InitialUEMessageKnown(r, k, kind)
    \/ \E k \in {0} \cup Listed(amf, r), g \in {NoUe} \cup amf.uePool :
         \E v \in IF g = NoUe THEN Fresh ELSE {NoUe} : InitialUEMessageNew(r, k, g, v, kind)

HandleUplinkNasTransport(i, kind) ==
    /\ Known(i)
    /\ IF amf.ue[i] = NoUe
       THEN Leave(RemoveRanUe(amf, i), cmds)
       ELSE Leave(HandleNAS(amf, i, NoUe, kind), cmds \cup NasCmd(amf, i, NoUe, kind))

\* The whole NG interface.  The RAN has forgotten what it was asked.
HandleNGReset(r) ==
    /\ amf.up[r] = "up"
    /\ Leave(RemoveAllUeInRan(amf, r), {c \in cmds : amf.ran[c[2]] # r})

HandlePartialReset(i) ==
    /\ Known(i)
    /\ Leave(RemoveRanUe(amf, i), cmds)

\* An empty read from the connection: ran.Remove().
RanClosed(r) ==
    /\ amf.up[r] = "up"
    /\ Leave([RemoveAllUeInRan(amf, r) EXCEPT !.up[r] = "gone"],
             {c \in cmds : amf.ran[c[2]] # r})

HandleUEContextReleaseRequest(i) ==
    LET act == IF amf.ue[i] # NoUe /\ amf.gmm[amf.ue[i]] # "Registered"
               THEN "ReleaseUeContext" ELSE "N2NormalRelease"
    IN  /\ Known(i)
        /\ Leave(SendUEContextReleaseCommand(amf, i, act), cmds \cup Release(i))

\* By ranUe.ReleaseAction, once the AmfUe u is known and its cause was read.
Released(a, i, u) ==
    CASE a.action[i] = "N2NormalRelease"  -> RemoveRanUe(a, i)
      [] a.action[i] = "ReleaseUeContext" -> RemoveAmfUe(RemoveRanUe(a, i), u)
      [] a.action[i] = "ReleaseHandover"  -> RemoveRanUe(DetachSourceUeTargetUe(a, i), i)

HandleUEContextReleaseComplete(i) ==
    LET u == amf.ue[i]
    IN  /\ <<"Release", i>> \in cmds
        /\ Leave(IF u = NoUe THEN RemoveRanUe(amf, i)
                 ELSE IF amf.cause[u] = "nil" THEN Panic(amf, "release", u)
                 ELSE Released([amf EXCEPT !.cause[u] = "nil"], i, u),
                 cmds \ {<<"Release", i>>})

\* The security context is valid (as that of any AmfUe may be), the target RAN
\* is one of this AMF and the SMFs prepared a session; else no context here
\* changes.
HandleHandoverRequired(s, r) ==
    LET t == amf.next + 1
    IN  /\ Known(s) /\ amf.ue[s] # NoUe
        /\ amf.up[r] = "up" /\ r # amf.ran[s]
        /\ amf.target[s] = 0 /\ amf.next < MaxRanUe
        /\ Leave(AttachSourceUeTargetUe(NewRanUe(amf, r), s, t),
                 cmds \cup {<<"HandoverRequest", t>>})

\* The target RAN admits the handover; ok: the SMFs accept a session of it, and
\* the source RAN, unless it has cancelled meanwhile, tells the UE to move.
HandleHandoverRequestAcknowledge(t, ok) ==
    /\ <<"HandoverRequest", t>> \in cmds
    /\ Leave(amf, (cmds \ {<<"HandoverRequest", t>>})
                    \cup IF ok /\ amf.source[t] # 0 /\ <<"Release", t>> \notin cmds
                         THEN {<<"HandoverCommand", t>>} ELSE {})

HandleHandoverFailure(t) ==
    /\ <<"HandoverRequest", t>> \in cmds
    /\ Leave(SendUEContextReleaseCommand(amf, t, "ReleaseHandover"),
             (cmds \ {<<"HandoverRequest", t>>}) \cup Release(t))

\* The UE has arrived at connection t.
HandleHandoverNotify(t) ==
    LET s == amf.source[t]
    IN  /\ <<"HandoverCommand", t>> \in cmds
        /\ IF amf.ue[t] # NoUe /\ s # 0
           THEN Leave(SendUEContextReleaseCommand(
                        AttachRanUe(amf, amf.ue[t], t), s, "ReleaseHandover"),
                      (cmds \ {<<"HandoverCommand", t>>}) \cup Release(s))
           ELSE Leave(amf, cmds \ {<<"HandoverCommand", t>>})

HandleHandoverCancel(s) ==
    LET t == amf.target[s]
    IN  /\ Known(s)
        /\ t # 0
        /\ Leave(SendUEContextReleaseCommand(amf, t, "ReleaseHandover"),
                 (cmds \ {<<"HandoverCommand", t>>}) \cup Release(t))

\* Xn handover of connection i to RAN r; the SMFs switched a session.
HandlePathSwitchRequest(i, r) ==
    /\ Known(i) /\ amf.up[r] = "up" /\ r # amf.ran[i]
    /\ amf.ue[i] # NoUe
    /\ Leave(SwitchToRan(amf, i, r), cmds)

----------------------------------------------------------------------------
(* What other goroutines do.                                               *)

\* ReleaseUEContext and RegistrationStatusUpdate of Namf_Communication.
ReleaseUEContextRequest(u) ==
    /\ u \in amf.uePool
    /\ Leave(RemoveAmfUe(amf, u), cmds)

\* T3560 has expired more than MaxT3560RetryTimes times.
T3560Abort(u) ==
    /\ amf.gmm[u] = "Registering" /\ amf.tmsi[u] = "held"
    /\ Leave(RemoveAmfUe(amf, u), cmds)

Next ==
    \/ \E r \in Rans : \/ HandleNGSetupRequest(r)
                       \/ \E kind \in NasKinds : HandleInitialUEMessage(r, kind)
                       \/ HandleNGReset(r)
                       \/ RanClosed(r)
    \/ \E i \in RanUes : \/ \E kind \in NasKinds : HandleUplinkNasTransport(i, kind)
                         \/ HandlePartialReset(i)
                         \/ HandleUEContextReleaseRequest(i)
                         \/ HandleUEContextReleaseComplete(i)
                         \/ \E r \in Rans : HandleHandoverRequired(i, r)
                         \/ \E ok \in BOOLEAN : HandleHandoverRequestAcknowledge(i, ok)
                         \/ HandleHandoverFailure(i)
                         \/ HandleHandoverNotify(i)
                         \/ HandleHandoverCancel(i)
                         \/ \E r \in Rans : HandlePathSwitchRequest(i, r)
    \/ \E u \in AmfUes : \/ ReleaseUEContextRequest(u)
                         \/ T3560Abort(u)

Spec == Init /\ [][Next]_vars

----------------------------------------------------------------------------
\* Every variable has its type.
TypeOK ==
    /\ amf \in AmfType
    /\ cmds \subseteq {"Release", "HandoverRequest", "HandoverCommand"} \X RanUes
    /\ overlapped \subseteq AmfUes

\* RanUePool and the RanUeLists hold the same connections: each one in the pool
\* is in the list of its own RAN, once, and in no other, across removals,
\* resets that skip entries and switches between RANs.
PoolIsLists ==
    /\ \A r \in Rans : \A m, n \in DOMAIN amf.list[r] : amf.list[r][m] = amf.list[r][n] => m = n
    /\ \A r \in Rans, i \in RanUes : i \in Listed(amf, r) <=> i \in amf.pool /\ amf.ran[i] = r

\* An AmfUe that is connected points to a connection that exists and points
\* back, and every connection in the pool has an AmfUe: the branches of the
\* handlers for a RanUe without one are never taken.
AttachedBack ==
    /\ \A u \in AmfUes : amf.cur[u] # 0 => amf.cur[u] \in amf.pool /\ amf.ue[amf.cur[u]] = u
    /\ \A i \in amf.pool : amf.ue[i] # NoUe

\* SourceUe and TargetUe point at each other, even when RanUes of a handover
\* are released in the middle of it or handed over again, and the two ends
\* that still exist belong to one UE.
HandoverPairs ==
    /\ \A s, t \in RanUes : amf.source[t] = s <=> amf.target[s] = t
    /\ \A s, t \in amf.pool : amf.source[t] = s => amf.ue[s] = amf.ue[t]

\* A UE that never had two connections at once is never lost: a connection of
\* it is the one its AmfUe uses, and its TMSI has not been given back.
OneConnection ==
    \A i \in amf.pool : amf.ue[i] \notin overlapped =>
        amf.cur[amf.ue[i]] = i /\ amf.tmsi[amf.ue[i]] = "held"

\* The nil dereferences of the NGAP and NAS handlers (ue.RanUe[AnType] in GMM,
\* *ReleaseCause in the release completion) need such a UE: one that was handed
\* over, or connected again while it was connected.
CrashNeedsOverlap == amf.panic \in {"nas", "release"} => amf.victim \in overlapped

\* A RAN that has closed its connection leaves fewer than half of its UEs
\* behind: RemoveAllUeInRan skips some, but not the first nor the last, and
\* nothing is added to its list later.
LeftBehind == \A r \in Rans : amf.up[r] = "gone" => 2 * Len(amf.list[r]) < MaxRanUe

\* When the source RAN has released a handed-over UE, the UE is still served
\* through the target RAN it was attached to.
ServedAfterHandover ==
    [][\A t \in amf.pool \cap amf'.pool :
         LET u == amf.ue[t]
             s == amf.source[t]
         IN  /\ amf.cur[u] = t
             /\ s \in amf.pool \ amf'.pool /\ amf'.source[t] = 0
             => amf'.cur[u] = t]_vars
=============================================================================
