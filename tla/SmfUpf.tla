------------------------------- MODULE SmfUpf -------------------------------
(***************************************************************************)
(* What the sessions of one SMF share: the UPF contexts and their          *)
(* associations, the generators of rule identifiers, the UE address and    *)
(* the SEID counter (src/smf/context, src/smf/pfcp/handler).  Creations    *)
(* run in one goroutine per HTTP request; a step here is the code between  *)
(* two accesses to that shared state.                                      *)
(*                                                                         *)
(* A session uses the default path of one DNN.  Its PFCP requests reach    *)
(* the UPFs (PfcpServer and SmContext are about what happens when they do  *)
(* not).  TEIDs are left out: their generator only ever counts up.         *)
(***************************************************************************)
EXTENDS Naturals, Sequences, FiniteSets

CONSTANTS
    Upfs,       \* the UPFs of the configuration, each with its NodeID
    Strangers,  \* NodeIDs that no configured UPF has
    Dnn,        \* the nodes whose UserPlaneIPResourceInformation names the DNN
    PathTo,     \* getPathBetween: for each UPF the path from the access network
    Sessions,
    NoNode, NoSession, Orphan,
    FarMax,     \* the FAR generator gives 1 .. FarMax (MaxUint32)
    PdrMod,     \* a PDR id is cut to 0 .. PdrMod - 1 (uint16)
    AddrMod,    \* the values of UEAddressTemp[3] (256)
    MaxCreate,  \* bound on the sessions created
    MaxSeid,    \* bound on the SEIDs given
    MaxAssoc    \* bound on the association messages handled

Nodes == Upfs \cup Strangers
Hops  == 1..2
FarIds == 1..FarMax
PdrIds == 0..(PdrMod - 1)
Addresses == 0..(AddrMod - 1)
NoAddr == AddrMod
Seids == 1..MaxSeid

ASSUME UpfAssumption ==
    /\ FarMax \in Nat \ {0} /\ PdrMod \in Nat \ {0} /\ AddrMod \in Nat \ {0}
    /\ MaxCreate \in Nat /\ MaxSeid \in Nat /\ MaxAssoc \in Nat
    /\ Strangers \cap Upfs = {} /\ NoNode \notin Nodes
    /\ NoSession \notin Sessions /\ Orphan \notin Sessions /\ Orphan # NoSession
    /\ Dnn \subseteq Nodes
    /\ PathTo \in [Upfs -> {<<u>> : u \in Upfs} \cup {<<u, v>> : u, v \in Upfs}]

VARIABLES
    upfPool,    \* the UPFs in upfPool
    status,     \* upf.UPFStatus: associated
    info,       \* the node whose UPIPInfo the UPF's context has
    default,    \* DefaultUserPlanePath[dnn], empty if not generated yet
    answered,   \* the UPFs that answered the SMF's association request
    handled,    \* the association messages handled
    crashed,    \* a PFCP handler panicked
    gen,        \* upf.farIDGenerator
    farPool,    \* upf.farPool
    rules,      \* in each UPF, the session whose PDR has an id
    addr,       \* smfContext.UEAddressTemp[3]
    seidCount,  \* smfContext.LocalSEIDCount
    seidMap,    \* seidSMContextMap
    sm,         \* the SM contexts, see SmType
    stray,      \* history: a node outside upfPool took part in an association
    raced,      \* history: sessions whose SEID additions overlapped
    late,       \* history: sessions whose address was read after another's AllocUEIP
    pdrEver     \* history: the ids the FAR generator gave to PDRs

assoc == <<upfPool, status, info, answered, handled, crashed, stray>>
ids   == <<gen, farPool, rules, pdrEver>>
seidv == <<seidCount, seidMap, raced>>
vars  == <<assoc, default, ids, addr, seidv, sm, late>>

\* "path": between AllocateLocalSEID calls; "counted": inside one;
\* "activating": in ActivateTunnelAndPDR.
Labels == {"idle", "addressed", "path", "counted", "activating", "active",
           "released", "failed"}

SmType == [
    pc   : Labels,
    path : {<<>>} \cup {<<u>> : u \in Upfs} \cup {<<u, v>> : u, v \in Upfs},
    n    : 0..2,                        \* the nodes of the path done
    born : 0..MaxCreate,                \* AllocUEIP was the born-th call
    seid : [Hops -> Seids \cup {0}],    \* PFCPContext[..].LocalSEID
    pdr  : [Hops -> SUBSET PdrIds],     \* the tunnels' PDRs
    far  : [Hops -> SUBSET FarIds],     \* and their FARs
    noDl : BOOLEAN,                     \* some DownLinkTunnel has no PDR
    est  : BOOLEAN,                     \* the access UPF's answer was handled
    rule : Addresses \cup {NoAddr},     \* the address in the anchor's DL rule
    ue   : Addresses \cup {NoAddr}]     \* the address in the accept to the UE

NewSm == [pc |-> "idle", path |-> <<>>, n |-> 0, born |-> 0, seid |-> [k \in Hops |-> 0],
          pdr |-> [k \in Hops |-> {}], far |-> [k \in Hops |-> {}], noDl |-> FALSE,
          est |-> FALSE, rule |-> NoAddr, ue |-> NoAddr]

\* NewUPF for every UPF of the configuration.
Init ==
    /\ upfPool = Upfs /\ status = [u \in Upfs |-> FALSE] /\ info = [u \in Upfs |-> NoNode]
    /\ default = <<>> /\ answered = {} /\ handled = 0 /\ crashed = FALSE /\ stray = FALSE
    /\ gen = [u \in Upfs |-> [offset |-> 0, used |-> {}]]
    /\ farPool = [u \in Upfs |-> {}] /\ pdrEver = [u \in Upfs |-> {}]
    /\ rules = [u \in Upfs |-> [i \in PdrIds |-> NoSession]]
    /\ addr = 0 /\ late = {}
    /\ seidCount = 0 /\ seidMap = [i \in Seids |-> NoSession] /\ raced = {}
    /\ sm = [s \in Sessions |-> NewSm]

\* A PFCP handler of an association message begins.
Handle == ~crashed /\ handled < MaxAssoc /\ handled' = handled + 1

At(s, l)  == ~crashed /\ sm[s].pc = l
Put(s, x) == sm' = [sm EXCEPT ![s] = x]

----------------------------------------------------------------------------
(* The association with a UPF (pfcp/handler/handler.go, context/upf.go).   *)

\* Mutant: the UPF last looked at is returned even if another one matches.
AnyRetrieveUPFNodeByNodeID(node) == upfPool

\* When no UPF matches, the one the range looked at last: any of the pool.
RetrieveUPFNodeByNodeID(node) == IF node \in upfPool THEN {node} ELSE upfPool

HandlePfcpAssociationSetupRequest(node) ==
    /\ Handle
    /\ \E u \in RetrieveUPFNodeByNodeID(node) : info' = [info EXCEPT ![u] = node]
    /\ stray' = (stray \/ node \notin upfPool)
    /\ UNCHANGED <<upfPool, status, answered, crashed, default, ids, addr, seidv, sm, late>>

\* The one answer to the request sent to UPF v at the start, with the NodeID
\* that v gives itself; accepted, with or without IP resource information.
SetupAnswer(v, node) ==
    /\ Handle /\ v \notin answered /\ node \in {v} \cup Strangers
    /\ answered' = answered \cup {v}
    /\ stray' = (stray \/ node \notin upfPool)
    /\ UNCHANGED <<upfPool, default, ids, addr, seidv, sm, late>>

HandlePfcpAssociationSetupResponse(v, node) ==
    /\ SetupAnswer(v, node)
    /\ \E u \in RetrieveUPFNodeByNodeID(node), withInfo \in BOOLEAN :
           /\ status' = [status EXCEPT ![u] = TRUE]
           /\ info' = IF withInfo THEN [info EXCEPT ![u] = node] ELSE info
    /\ UNCHANGED crashed

\* The pool is empty: upf is nil, and nothing recovers a PFCP handler.
SetupResponsePanics(v, node) ==
    /\ SetupAnswer(v, node)
    /\ upfPool = {}
    /\ crashed' = TRUE
    /\ UNCHANGED <<status, info>>

\* The context leaves upfPool; UserPlaneInformation keeps it, still associated.
HandlePfcpAssociationReleaseRequest(node) ==
    /\ Handle
    /\ upfPool' = upfPool \ {node}
    /\ UNCHANGED <<status, info, answered, crashed, stray, default, ids, addr, seidv, sm, late>>

----------------------------------------------------------------------------
(* HandlePDUSessionSMContextCreate.                                        *)

\* Mutant: a new session does not advance the address.
SameNextAddress == addr

\* Mutant: not a byte.
WideNextAddress == addr + 1

\* UEAddressTemp[3]++
NextAddress == (addr + 1) % AddrMod

LastBorn == CHOOSE n \in 0..MaxCreate :
    /\ \E s \in Sessions : sm[s].born = n
    /\ \A s \in Sessions : sm[s].born <= n

\* HandlePDUSessionEstablishmentRequest; the context keeps the shared slice.
AllocUEIP(s) ==
    /\ At(s, "idle") /\ LastBorn < MaxCreate
    /\ addr' = NextAddress
    /\ Put(s, [NewSm EXCEPT !.pc = "addressed", !.born = LastBorn + 1])
    /\ late' = late \ {s}
    /\ raced' = raced \ {s}
    /\ UNCHANGED <<assoc, default, ids, seidCount, seidMap>>

\* GenerateDefaultPath: the path to a UPF with the DNN, kept for all sessions.
DefaultPaths ==
    IF default # <<>> THEN {default}
    ELSE {PathTo[u] : u \in {v \in Upfs : info[v] \in Dnn}}

SelectPath(s) ==
    /\ At(s, "addressed")
    /\ \E p \in DefaultPaths :
           /\ default' = p
           /\ Put(s, [sm[s] EXCEPT !.pc = "path", !.path = p])
    /\ UNCHANGED <<assoc, ids, addr, seidv, late>>

\* No UPF serves the DNN: 403, and the context is not used again.
NoPath(s) ==
    /\ At(s, "addressed") /\ DefaultPaths = {}
    /\ Put(s, [sm[s] EXCEPT !.pc = "failed"])
    /\ UNCHANGED <<assoc, default, ids, addr, seidv, late>>

\* atomic.AddUint64(&smfContext.LocalSEIDCount, 1)
AddSEID(s) ==
    LET others == {t \in Sessions \ {s} : sm[t].pc = "counted"}
    IN  /\ At(s, "path") /\ seidCount < MaxSeid
        /\ seidCount' = seidCount + 1
        /\ raced' = IF others = {} THEN raced ELSE raced \cup others \cup {s}
        /\ Put(s, [sm[s] EXCEPT !.pc = "counted"])
        /\ UNCHANGED <<assoc, default, ids, addr, seidMap, late>>

\* Mutant: the first node's SEID is not stored.
LazyReadSEID(s) ==
    LET k == sm[s].n + 1
        x == [sm[s] EXCEPT !.seid[k] = seidCount]
    IN  /\ At(s, "counted")
        /\ seidMap' = IF k = 1 THEN seidMap ELSE [seidMap EXCEPT ![seidCount] = s]
        /\ Put(s, IF k < Len(x.path) THEN [x EXCEPT !.pc = "path", !.n = k]
                  ELSE [x EXCEPT !.pc = "activating", !.n = 0])
        /\ UNCHANGED <<assoc, default, ids, addr, seidCount, raced, late>>

\* return smfContext.LocalSEIDCount, and seidSMContextMap.Store.
ReadSEID(s) ==
    LET k == sm[s].n + 1
        x == [sm[s] EXCEPT !.seid[k] = seidCount]
    IN  /\ At(s, "counted")
        /\ seidMap' = [seidMap EXCEPT ![seidCount] = s]
        /\ Put(s, IF k < Len(x.path) THEN [x EXCEPT !.pc = "path", !.n = k]
                  ELSE [x EXCEPT !.pc = "activating", !.n = 0])
        /\ UNCHANGED <<assoc, default, ids, addr, seidCount, raced, late>>

\* lib/idgenerator on a generator g of 1 .. FarMax (see IDGenerator).
HasRoom(g) == Cardinality(g.used) < FarMax
Scanned(g, k) == ((g.offset + k) % FarMax) + 1
NextId(g) ==
    Scanned(g, CHOOSE k \in 0..(FarMax - 1) :
                   /\ Scanned(g, k) \notin g.used
                   /\ \A j \in 0..(k - 1) : Scanned(g, j) \in g.used)
Allocate(g) ==
    IF HasRoom(g) THEN [offset |-> NextId(g) % FarMax, used |-> g.used \cup {NextId(g)}] ELSE g

\* The id Allocate gave, none if it failed.
Given(g) == Allocate(g).used \ g.used

\* Mutant: the ids stay in use.
KeepFreeID(g, i) == g

\* FreeID for every id of i.
FreeID(g, i) == [g EXCEPT !.used = @ \ i]

\* Mutant: the id is cut to half as many values.
NarrowPdrID(i) == i % (PdrMod \div 2)

\* uint16(tmpID)
PdrID(i) == i % PdrMod

\* Two AddPDR calls, each a PDR id and then a FAR id of the same generator.
ActivateTunnels(s) ==
    LET k  == sm[s].n + 1
        u  == sm[s].path[k]
        g1 == Allocate(gen[u])
        g2 == Allocate(g1)
        g3 == Allocate(g2)
        pdrs == Given(gen[u]) \cup Given(g2)
        fars == Given(g1) \cup Given(g3)
    IN  /\ At(s, "activating") /\ k <= Len(sm[s].path)
        /\ status[u] /\ Cardinality(gen[u].used) + 4 <= FarMax
        /\ gen' = [gen EXCEPT ![u] = Allocate(g3)]
        /\ farPool' = [farPool EXCEPT ![u] = @ \cup fars]
        /\ pdrEver' = [pdrEver EXCEPT ![u] = @ \cup pdrs]
        /\ Put(s, [sm[s] EXCEPT !.n = k, !.pdr[k] = {PdrID(i) : i \in pdrs}, !.far[k] = fars])
        /\ UNCHANGED <<assoc, default, rules, addr, seidv, late>>

\* AddPDR fails in ActivateUpLinkTunnel, for want of an association or of an
\* id for the PDR or the FAR, and PutPDRtoPFCPSession dereferences the nil PDR.
UpLinkPanics(s) ==
    LET k == sm[s].n + 1
        u == sm[s].path[k]
        g == IF status[u] THEN Allocate(gen[u]) ELSE gen[u]
    IN  /\ At(s, "activating") /\ k <= Len(sm[s].path)
        /\ ~status[u] \/ Cardinality(gen[u].used) + 2 > FarMax
        /\ gen' = [gen EXCEPT ![u] = g]
        /\ pdrEver' = [pdrEver EXCEPT ![u] = @ \cup (g.used \ gen[u].used)]
        /\ Put(s, [sm[s] EXCEPT !.pc = "failed"])
        /\ UNCHANGED <<assoc, default, farPool, rules, addr, seidv, late>>

\* The downlink AddPDR fails for want of ids: the error is only logged.
DownLinkFails(s) ==
    LET k  == sm[s].n + 1
        u  == sm[s].path[k]
        g1 == Allocate(gen[u])
        g2 == Allocate(g1)
        pdr == Given(gen[u])
    IN  /\ At(s, "activating") /\ k <= Len(sm[s].path)
        /\ status[u] /\ Cardinality(gen[u].used) \in {FarMax - 3, FarMax - 2}
        /\ gen' = [gen EXCEPT ![u] = Allocate(g2)]
        /\ farPool' = [farPool EXCEPT ![u] = @ \cup Given(g1)]
        /\ pdrEver' = [pdrEver EXCEPT ![u] = @ \cup pdr \cup Given(g2)]
        /\ Put(s, [sm[s] EXCEPT !.n = k, !.pdr[k] = {PdrID(i) : i \in pdr},
                                !.far[k] = Given(g1), !.noDl = TRUE])
        /\ UNCHANGED <<assoc, default, rules, addr, seidv, late>>

\* In the second loop of ActivateTunnelAndPDR, DLPDR.Precedence panics.
DownLinkPanics(s) ==
    /\ At(s, "activating") /\ sm[s].n = Len(sm[s].path) /\ sm[s].noDl
    /\ Put(s, [sm[s] EXCEPT !.pc = "failed"])
    /\ UNCHANGED <<assoc, default, ids, addr, seidv, late>>

----------------------------------------------------------------------------
(* The requests to the UPFs; the address is read when a message is built.  *)

\* UpfN4HandleCreatePdr refuses an id that "does exist in UPF Context".
Installed(s, u, i) == IF rules[u][i] = NoSession THEN s ELSE rules[u][i]

SendPFCPRule(s) ==
    LET new(u) == UNION {sm[s].pdr[k] : k \in {j \in 1..Len(sm[s].path) : sm[s].path[j] = u}}
    IN  /\ At(s, "activating") /\ sm[s].n = Len(sm[s].path) /\ ~sm[s].noDl
        /\ rules' = [u \in Upfs |->
               [i \in PdrIds |-> IF i \in new(u) THEN Installed(s, u, i) ELSE rules[u][i]]]
        /\ Put(s, [sm[s] EXCEPT !.pc = "active", !.rule = addr])
        /\ late' = IF sm[s].born = LastBorn THEN late ELSE late \cup {s}
        /\ UNCHANGED <<assoc, default, gen, farPool, pdrEver, addr, seidv>>

\* UpfN4HandleSessionEstablishmentRequest: the cause is accepted.
AcceptedPdrs(s) == \A i \in sm[s].pdr[1] : rules[sm[s].path[1]][i] = s

\* The access UPF's answer goes to the session its SEID leads to, which sends
\* the accept to its UE; that session must have a default path by now.
HandlePfcpSessionEstablishmentResponse(s) ==
    LET t == seidMap[sm[s].seid[1]]
    IN  /\ At(s, "active") /\ ~sm[s].est /\ AcceptedPdrs(s)
        /\ IF t = NoSession \/ (t # s /\ sm[t].pc \in {"path", "counted"})
           THEN crashed' = TRUE /\ UNCHANGED <<sm, late>>
           ELSE /\ sm' = [[sm EXCEPT ![t].ue = addr] EXCEPT ![s].est = TRUE]
                /\ late' = IF sm[t].born = LastBorn THEN late ELSE late \cup {t}
                /\ UNCHANGED crashed
        /\ UNCHANGED <<upfPool, status, info, answered, handled, stray, default, ids, addr, seidv>>

\* PDU_RES_SETUP_RSP: UpdatePDR for the downlink rule of the access UPF, which
\* holds the address only if that UPF is the anchor too.
SetupResponse(s) ==
    /\ At(s, "active") /\ sm[s].ue # NoAddr /\ Len(sm[s].path) = 1
    /\ Put(s, [sm[s] EXCEPT !.rule = addr])
    /\ late' = IF sm[s].born = LastBorn THEN late ELSE late \cup {s}
    /\ UNCHANGED <<assoc, default, ids, addr, seidv>>

----------------------------------------------------------------------------
(* Release.                                                                *)

\* DeactivateTunnelAndPDR ends after the first node, whose tunnels it replaced,
\* and so does the loop that sends deletion requests.  RemovePDR frees the id
\* in pdrIDGenerator, which never gave it.
Deactivate(s) ==
    LET u == sm[s].path[1]
        x == [sm[s] EXCEPT !.pc = "released", !.pdr[1] = {}, !.far[1] = {}]
    IN  /\ At(s, "active")
        /\ gen' = [gen EXCEPT ![u] = FreeID(@, sm[s].far[1])]
        /\ farPool' = [farPool EXCEPT ![u] = @ \ sm[s].far[1]]
        /\ rules' = [v \in Upfs |-> [i \in PdrIds |->
               IF rules[v][i] # s THEN rules[v][i]
               ELSE IF v = u THEN NoSession ELSE Orphan]]
        /\ Put(s, x)
        /\ UNCHANGED <<assoc, default, pdrEver, addr, seidv, late>>

RemoveSMContext(s) ==
    /\ At(s, "released")
    /\ seidMap' = [i \in Seids |->
           IF \E k \in 1..Len(sm[s].path) : sm[s].seid[k] = i THEN NoSession ELSE seidMap[i]]
    /\ Put(s, [NewSm EXCEPT !.born = sm[s].born])
    /\ UNCHANGED <<assoc, default, ids, addr, seidCount, raced, late>>

Session(s) ==
    \/ AllocUEIP(s) \/ SelectPath(s) \/ NoPath(s) \/ AddSEID(s) \/ ReadSEID(s)
    \/ ActivateTunnels(s) \/ UpLinkPanics(s) \/ DownLinkFails(s) \/ DownLinkPanics(s)
    \/ SendPFCPRule(s) \/ HandlePfcpSessionEstablishmentResponse(s)
    \/ SetupResponse(s) \/ Deactivate(s) \/ RemoveSMContext(s)

Association ==
    \/ \E v \in Upfs, node \in Nodes :
           \/ HandlePfcpAssociationSetupResponse(v, node)
           \/ SetupResponsePanics(v, node)
    \/ \E node \in Nodes : HandlePfcpAssociationSetupRequest(node)
    \/ \E node \in upfPool : HandlePfcpAssociationReleaseRequest(node)

Next ==
    \/ \E s \in Sessions : Session(s)
    \/ Association

Spec == Init /\ [][Next]_vars

----------------------------------------------------------------------------

\* The types of the SMF's shared state and of the session contexts.
TypeOK ==
    /\ upfPool \subseteq Upfs /\ answered \subseteq Upfs
    /\ status \in [Upfs -> BOOLEAN]
    /\ info \in [Upfs -> Nodes \cup {NoNode}]
    /\ default \in {<<>>} \cup {PathTo[u] : u \in Upfs}
    /\ handled \in 0..MaxAssoc /\ crashed \in BOOLEAN /\ stray \in BOOLEAN
    /\ gen \in [Upfs -> [offset : 0..(FarMax - 1), used : SUBSET FarIds]]
    /\ farPool \in [Upfs -> SUBSET FarIds] /\ pdrEver \in [Upfs -> SUBSET FarIds]
    /\ rules \in [Upfs -> [PdrIds -> Sessions \cup {NoSession, Orphan}]]
    /\ addr \in Addresses
    /\ seidCount \in Seids \cup {0} /\ seidMap \in [Seids -> Sessions \cup {NoSession}]
    /\ raced \subseteq Sessions /\ late \subseteq Sessions
    /\ sm \in [Sessions -> SmType]

\* The SEIDs a session has lead back to it, so the UPFs' answers find it,
\* unless its AllocateLocalSEID overlapped another session's between the
\* addition and the read (smf_context.go:74-75).
RoutedBySeid ==
    \A s \in Sessions \ raced : \A k \in Hops :
        sm[s].seid[k] # 0 => seidMap[sm[s].seid[k]] = s

\* Until the FAR generator's ids pass 16 bits, no UPF refuses a rule because
\* its PDR id is taken: not even by the rules that a released session left
\* in the UPFs after the first (upf.go:191, datapath.go:486).
RulesAccepted ==
    \A s \in Sessions : \A k \in Hops :
        (sm[s].pc = "active" /\ k <= Len(sm[s].path) /\ \A u \in Upfs : pdrEver[u] \subseteq PdrIds)
            => \A i \in sm[s].pdr[k] : rules[sm[s].path[k]][i] = s

\* The FAR generator gets back the FAR ids of an access UPF when its sessions
\* are released; what it never gets back are the ids it gave to PDRs.
OnlyPdrIdsLost ==
    \A u \in Upfs :
        /\ pdrEver[u] \cap farPool[u] = {}
        /\ gen[u].used = pdrEver[u] \cup farPool[u]
        /\ (\A v \in Upfs : Len(PathTo[v]) = 2 => PathTo[v][2] # u)
               => \A i \in farPool[u] : \E s \in Sessions :
                      sm[s].path # <<>> /\ sm[s].path[1] = u /\ i \in sm[s].far[1]

\* If the address of a session was only read before the next AllocUEIP, its
\* UE and its rule have the same address, and no other such session has it
\* until AddrMod more were created (smf_context.go:69-70).
OwnAddress ==
    \A s \in Sessions \ late :
        /\ sm[s].rule # NoAddr /\ sm[s].ue # NoAddr => sm[s].rule = sm[s].ue
        /\ \A t \in Sessions \ late :
               (/\ sm[s].born < sm[t].born /\ sm[t].born < sm[s].born + AddrMod
                /\ sm[s].rule # NoAddr /\ sm[t].rule # NoAddr)
                   => sm[s].rule # sm[t].rule

\* As long as only UPFs of the pool take part in associations, every UPF
\* context describes its own UPF, a UPF counts as associated only after its
\* own answer, and no PFCP handler panics but for an overlapped SEID.
OwnAssociation ==
    ~stray =>
        /\ \A u \in Upfs : info[u] \in {u, NoNode} /\ (status[u] => u \in answered)
        /\ crashed => raced # {}
=============================================================================
