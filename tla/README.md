# Verification of free5GC's session and connection management (TLA+)

free5GC is a 5G core network: network functions (NFs) written in Go that talk
HTTP/2 to each other (SBI), NGAP/NAS to the radio side (AMF) and PFCP to the
user plane (SMF to UPF, reference point N4). This directory models, model-checks
and proves properties of the parts that keep long-lived state and where
concurrency, timers and unreliable delivery meet: in the SMF the session context,
the PFCP transaction layer under it, the UPF associations and the identifiers
that sessions share; in the AMF the connection contexts with the NGAP handlers,
and the mobility-management state machine with its timers.

Run a check with `tlc -config <cfg> <module>` (the modules of the runs are in
`PROJECT.json`) and the proofs with `tlapm <name>Proofs.tla`. `PROJECT.json` lists
runs, mutants, the line map from definitions to source, hazards, findings and
theorems.

## 1. Inventory

| component | state | operations | interacts with |
|---|---|---|---|
| `lib/idgenerator` | `offset`, `usedMap` under a mutex | `Allocate`, `FreeID` | every NF; one generator is shared by many goroutines |
| PFCP transactions: `lib/pfcp/transaction.go`, `lib/pfcp/pfcpUdp` | `ConsumerTable` of `TxTable`s (plain maps, no lock), an unbuffered `EventChannel` per transaction | `WriteTo`/`PutTransaction`, `Start`, `RemoveTransaction`, `ReadFrom`/`FindTransaction` | callers' goroutines, one goroutine per transaction, one socket reader |
| SMF receive loop and sequence numbers: `smf/pfcp/udp`, `smf/pfcp/message` | global `seq` | `Run`, `SendPfcp`, `getSeqNumber`, `SendPfcp...` | starts one `Dispatch` goroutine per message |
| SM context: `smf/producer/pdu_session.go`, `smf/context/sm_context.go`, `datapath.go` | `SMContextState`, `PendingUPF`, `PFCPContext`, `Tunnel`, `SBIPFCPCommunicationChan` (capacity 1), pools | Create, Update, Release | one goroutine per HTTP request; waits on the channel for PFCP handlers |
| PFCP response handlers: `smf/pfcp/handler` | none of their own, write the SM context | session establishment, modification, deletion responses; association and report handlers | run concurrently with the SBI handlers, outside gin's recovery |
| UPF N4: `upf/src/n4` | sessions by SEID, PDRs by id | establish, modify, delete | answers the SMF, drops requests for unknown sessions |
| UPF rules and ids: `smf/context/upf.go`, `datapath.go` | `pdrPool`, `farPool`, generators, `UPFStatus` | `AddPDR`, `RemovePDR`, `RemoveFAR`, activation of tunnels | data paths of all sessions share a UPF |
| Allocators: `smf/context/smf_context.go` | `UEAddressTemp`, `LocalSEIDCount` | `AllocUEIP`, `AllocateLocalSEID` | Create handlers |
| Association and topology: `handler.go`, `user_plane_information.go` | `upfPool`, `UPFStatus`, `UPIPInfo`, default paths | association setup/release, `RetrieveUPFNodeByNodeID`, `GenerateDefaultPath` | Create handlers |
| ULCL / branching point: `ulcl_procedure.go`, `bp_manager.go` | `BPManager`, several data paths | driven step by step from the response handlers | SM context |
| AMF connections: `amf/context`, `amf/ngap/handler.go` | `AmfRan` (a list of its `RanUe`s), `RanUe`, `AmfUe`, pointers both ways, `SourceUe`/`TargetUe`, pools, TMSIs | NG setup, reset, closed connection, initial message, uplink NAS, context release, N2 handover, path switch | one goroutine per RAN, no lock; SBI handlers and timers remove AmfUes |
| AMF GMM: `lib/fsm`, `amf/gmm`, `amf/util/timer.go` | `State`, `AuthenticationCtx`, `RegistrationRequest`, T3550, T3560 and their counters | registration, identity, authentication, security mode, deregistration; expiry, retransmission, abort | messages through NGAP; timer callbacks in goroutines of their own |
| AMF paging and N1N2: `amf/producer/n1n2message.go` | `OnGoing`, T3513, stored N1N2 message | transfer, page, give up | SMF, NGAP |
| AMF SBI, NRF, NSSF, PCF, UDM, UDR, AUSF, N3IWF, smaf | databases, per-UE records | request/response services | SBI |
| UPF user plane; NAS, NGAP, APER, TLV, OpenAPI codecs | packets, bytes | encode, decode, forward | - |

What is hard here, and what makes each part correct:

* **Transactions.** The maps, the tables and `seq` have no lock, while callers,
  handlers, lifecycle goroutines and the reader all use them; messages are lost,
  duplicated and reordered; a timer races a late answer. Correct means: a request
  is answered at most once, an event reaches the transaction it is for, a running
  transaction owns its table entry, every lifecycle ends, the reader never stops.
* **SM context.** HTTP handlers and PFCP handlers write one structure without a
  lock and meet on one channel without a timeout. Correct means: a handler gets
  the status of its own exchange, nothing is left in the channel for the next
  one, a context that says it is released has no session at the UPF, a removed
  context is never used again, a request is eventually answered.
* **What sessions share.** Creations overlap at the SEID counter, the address and
  the generators, which give out one kind of id and take back another. Correct
  means: a SEID leads to its session, a UPF accepts the rules it is sent, a UE and
  its rule have one address, ids come back, an association is the UPF's own.
* **Connections.** Three kinds of context point at each other, and handovers,
  repeated initial messages, resets and releases rewire them in any order. Correct
  means: pools, lists and pointers agree, a UE that is connected is served, no
  handler follows a nil pointer.
* **GMM.** A callback of a timer runs late, or belongs to a timer the AmfUe has
  lost. Correct means: nobody gets past authentication unconfirmed, each timer
  belongs to the state that started it, a silent UE is given up.
* **Allocator.** Distinct live ids, no leak, no refusal while an id is free.

`PROJECT.json` "hazards" lists them at the line where they bite.

## 2. Modules and the code

**IDGenerator** (`lib/idgenerator`). `offset`, `usedMap` are the fields; `held` is
what each client was given. `AllocateOk`, `AllocateErr`, `FreeID` are the methods,
one step each because the mutex is held throughout. The scan of `Allocate` is
written with `Scanned(k)`, the k-th offset it looks at. A client frees only ids
it holds, which is what the callers do.

**PfcpServer** (`lib/pfcp`, `pfcpUdp`, `smf/pfcp/udp`, `getSeqNumber`). Every
message to be sent is a transaction `m` with its own control point `pc[m]`:

    idle -LoadSeq-> seq -StoreSeq-> put -(make)-> put -> insert -> write <-> select -> ended -> done
                    handler -SendResponse-^         \-> dropped

One action is one access to shared memory: `seq++` is a load and a store,
`PutTransaction` is a lookup (`PutNoTable`), a store of a new table (`MakeTable`),
a duplicate check (`PutFree`, `PutDuplicate`) and an insertion (`Insert`).
`RemoveTransaction` is one step (`Remove`, `RemoveMissing`): the lookup and the
delete follow each other on one key. `Start` is `WriteToUDP`, `WriteError`,
`Timeout`, `Receive`. The reader is `target`/`event`: while `target` is set,
`ReadFrom` is blocked in its channel send, and only `Receive` of that transaction
frees it. A `TxTable` is named after the transaction that made it, so that a
table overwritten by a second `MakeTable` is a different table. The network is
`onWire`: what was written may be read any number of times, at any later time.
`SeqLimit` stands for the 24-bit field of the header (`Wire`).

Go's unsynchronised maps may also abort the process ("concurrent map writes") or
be corrupted; the model takes each map access as atomic, the best case.

**PfcpExchange** is what the layer promises its users for a request: `new`,
`pending`, then `answered` or `failed`, once. `PfcpServer` maps onto it through
`Status`. `SmContext` uses the layer only as this module says: one response, in
any order, or none.

**SmContext** (`pdu_session.go`, `handler.go`, `datapath.go`, and what the UPF does).
One context over its life. `pc[h]` follows the goroutine of an SBI request
between its accesses to the context; `rsp[x]` follows a PFCP exchange: `sent` (or
`sent0`, with RemoteSEID 0), then the response handler's steps `read`, `n1n2`,
`delete`, `empty`, `send`. Each handler of the code is covered from its first to
its last assignment; early returns are actions of their own (`NoContext`,
`Undecodable`, `SwitchDefault`, ...), panics are `result = "panic"` when gin
recovers them and `crashed` when nothing does. Operations with the same control
are merged (`PendingOps`: ACTIVATING, handover preparation and the like only set
ModificationPending). Contents of N1/N2 messages, policies and charging are left
out. The UPF part follows `upf/src/n4`: an establishment always adds the session,
other requests are dropped if the session is unknown.

**SmfUpf** (`smf/context/upf.go`, `smf_context.go`, `datapath.go`,
`user_plane_information.go`, the association handlers). What SmContext takes for
granted about one context, for several: `sm[s]` is a context between its first
and last use of shared state, with the goroutine's place in `pc`. A creation is
`AllocUEIP`, `SelectPath` (or `NoPath`), then per node `AddSEID` and `ReadSEID`
(the atomic addition and the separate read), then per node `ActivateTunnels` (two
`AddPDR` calls: a PDR id and a FAR id each, all of the FAR generator), then
`SendPFCPRule`, which builds the messages and so reads the address. The error
paths of `AddPDR` are `UpLinkPanics`, `DownLinkFails` and `DownLinkPanics`.
`HandlePfcpSessionEstablishmentResponse` finds its context by SEID and sends the
accept, which reads the address again; `SetupResponse` sends the access rule once
more. `Deactivate` and `RemoveSMContext` are the release. `rules[u][i]` is the
PDR the UPF has under id `i`: PDR ids are global in a UPF, and one that exists
already is refused. The association is `upfPool`, `status` (`UPFStatus`) and
`info` (`UPIPInfo`); `RetrieveUPFNodeByNodeID` is the set of what its map range may
return. The generator is IDGenerator's, written as operators on a record.

**AmfNgap** (`amf/context`, `amf/ngap/handler.go`, the part of GMM that touches
connections). The contexts are one record `amf`; every function of `amf/context`
is an operator on it (`NewRanUe`, `AttachRanUe`, `DetachRanUe`, `RemoveRanUe`,
`SwitchToRan`, `RemoveAmfUe`, `AttachSourceUeTargetUe`, ...) and a handler is an
action that composes them in the order of the code. `cmds` holds what the AMF has
asked of RANs: a release completes only what was commanded, a handover
notification follows a handover command. `RemoveAllUeInRan` ranges over the slice
that `Remove` shifts; `Reached` and `Skipped` are its closed form, and MCAmfNgap
checks them against the loop itself. Commands for connections that are not in the
pool are dropped, because their answers find nothing.

**NasTimer** (`amf/util/timer.go`, the `time.AfterFunc` idiom of
`gmm/message/send.go`). A timer of the AmfUe as a record: the pointer, whether what
it points to is armed, timers that were armed and are no longer pointed to, callbacks
that have begun, the retry counter.

**AmfGmm** (`lib/fsm`, `amf/gmm/init.go`, `sm.go`, `handler.go`, `message/send.go`).
One AmfUe on 3GPP access as the record `ue`. The entry callbacks of the states are
`EnterSecurityMode`, `EnterContextSetup`, `EnterRegistered`, `EnterDeregistered`,
composed as `SendEvent` nests them; a message handler is one action with what the
message carries, the AUSF's answer and the outcome of the registration as
parameters. `ExpireT35xx` starts a callback, `CallbackT35xx` runs it: count,
then abort, or send again and reset the timer the AmfUe points to *now*. `conn` is
`RanUe[accessType] # nil`; `RanUeRemoved` and `AmfUeRemoved` stand for what AmfNgap
does to it, and the `Connected` set is the new connection that an initial message
attaches. `T3560Abort` of AmfNgap is, in turn, this module's `AbortT3560`.

**GmmLife** is what the rest of the AMF relies on when it looks at `ue.State`:
Deregistered, Registering, Registered, Leaving, Removed, and which of these follow
which. AmfGmm maps onto it through `Phase`; AmfNgap's `gmm` uses the same phases.

Composition: `PfcpServer` INSTANCEs `PfcpExchange` and is shown to implement it, and
`SmContext` assumes exactly its steps (`UpfAccept`/`UpfRefuse`/`UpfEstablish` are
Answer, `Lose`/`UpfIgnore` are Fail); `AmfGmm` EXTENDs `NasTimer`, INSTANCEs
`GmmLife` and is shown to implement it, and `AmfNgap` changes its `gmm` only by
GmmLife's steps.

Operators whose comment begins with "Mutant" are not part of the model: each is a
plausible slip in the definition after it, and TLC must find the property it is
paired with in `PROJECT.json` violated once it takes its place.

## 3. Environment assumptions

Those that a run can vary are constants, so that each run says what it assumes.

* `Serialized` (PfcpServer): TRUE means no two goroutines are inside `WriteTo`
  (from `getSeqNumber` to the insertion) at once. The code does not enforce it; it
  is the condition under which the table code is right. `pfcp_concurrent` and the
  theorems that do not assume it say what holds without.
* `Early`, `MaxSbi` (SmContext): whether the AMF's requests may overtake the
  establishment, and how many it has open for one context. An AMF that follows the
  procedures waits for each answer (`MaxSbi = 1`, `Early = FALSE`).
* `Lossy` (SmContext): whether the PFCP layer may give a request up.
* SmfUpf: requests reach the UPFs, messages are well formed, a session uses one
  default path of at most two UPFs.
* AmfNgap: each handler is atomic. RANs have one goroutine each and the contexts no
  lock, so data races between RANs are beyond this model. Each new AmfUe has a SUPI
  of its own; handovers and path switches go to another RAN of this AMF; what the
  SMFs answer is nondeterministic; `OnGoing` is left out.
* AmfGmm: a handler and a callback are atomic with respect to each other; the UE
  may send any message at any time, answered or not.

Several properties have a *condition on history* in their statement (`raced`,
`late`, `stray`, `overlapped`, `unasked`, `lost`): they say exactly when the code is
right, where it is not right always. Each condition is an event in the environment or
a race, recorded when it happens, and both sides of it occur in the run.

## 4. Runs

| run | instance | shows |
|---|---|---|
| `idgen` | 4 ids from 3, 3 clients | types, distinct ids, no leak, refusal only when full |
| `pfcp_serial` | 2 requests, 2 dispatches of one peer request with the same number, 2 resends, `Serialized` | a running transaction owns its entry, no panic, responses find their request, every lifecycle ends, PfcpExchange is implemented (with its fairness) |
| `pfcp_concurrent` | the same, 3 resends, callers interleave | at most one answer, events fit their transaction |
| `sm_sequential` | 1 UPF, 3 requests of all kinds, one at a time, lossy | own status, nothing stale in the channel, pending release means deleted, no crash, a removed context stays InActive, modifications are answered |
| `sm_concurrent` | 1 UPF, 3 requests, 2 at a time, early and lossy | a release success is real |
| `smf_upf` | access UPF and anchor, a stranger, 2 sessions at a time, 3 creations | SEIDs route unless two allocations overlap; rules are accepted while ids fit 16 bits; only PDR ids are lost; UE and rule share an address unless a creation intervenes; an association is the UPF's own unless a stranger takes part |
| `amf_ngap` | 2 RANs, 1 UE, 3 connections | pools, lists and pointers agree; handover pairs stay symmetric; a UE that never had two connections at once is never lost, and nil dereferences need one that had |
| `amf_gmm` | 1 UE, one retransmission per timer | only confirmed UEs pass authentication; timers follow the states; when a callback finds no timer; GmmLife is implemented; timers end and a silent UE is given up |
| `pfcp_reader_stuck` (violated) | 1 request, 1 dispatch | the reader can block for ever |
| `sm_release_hangs` (violated) | 1 UPF, 1 release | a quick deletion response is ignored and the release waits for ever |
| `sm_all_deleted` (violated) | 2 UPFs, 1 release | the second UPF keeps its session |
| `amf_handover` (violated) | 2 RANs, 2 UEs, 3 connections | the release of the source connection detaches the target connection |

Why the bounds are enough. The allocator's cyclic scan has its interesting cases
with a full, an empty and a partly used range and an offset anywhere in it, all of
which occur with four ids. In PfcpServer two requests are needed to race for a
number or a table and two dispatches for a peer request that is delivered again
while its handler runs; the first requests of both sides have the same number 1.
The code resends up to 3 times: `pfcp_concurrent` uses 3; the liveness run uses 2,
which has a first, a repeated and a last iteration. Sequence numbers stay below
`SeqLimit` (the 2^24th request of a process is not reached; theorem
`ResponsesFind` states the condition). In SmContext three requests allow a
modification, a release and its completion, or a request after a failed release;
two at a time are enough for one to take the other's status.

In SmfUpf (1.0 million states) two sessions race for a SEID, an address or an id;
a session takes four ids of the FAR generator in each UPF and gives back two in
the first only, so with `FarMax` = 10 the third creation wraps onto freed FAR ids
in the access UPF, finds two ids where it needs four in the anchor, and, with
`PdrMod` = 8, has a cut id that collides; two addresses make the third creation
reuse the first; three association messages are both answers and a stranger, or
two releases and an answer to an empty pool. `MaxSeid` = 6 is two SEIDs for each of
the three creations, so it never stops one. The view of that run leaves out what
nothing reads any more. In AmfNgap (0.3 million states) a handover
takes two connections, and a third is a second handover, a repeated initial
message, or the entry that a reset skips; UEs share nothing but the lists and
pools, and `amf_handover` has two of them. The view of that run leaves out values
that are overwritten before they are read. In AmfGmm (0.27 million states) one
retransmission instead of four has a first, a repeated and a last expiry; one lost
timer and one late callback of each kind are enough for a callback of one timer
to act on another. The theorems below remove the bounds for the invariants they state.

Deadlock checking is off except for `idgen`: a goroutine that waits on a
channel may legitimately wait for ever when its exchange is lost, a crashed
process stops, and a system whose requests are used up stops. That something must
happen is stated by the liveness properties instead.

Fairness. `PfcpServer!Fairness`: a started lifecycle goroutine is scheduled and
its timer expires (Go's scheduler, `time.After`). Callers, the reader and the
network get none. `SmContext!Fairness`: SBI and PFCP handler goroutines are
scheduled, and every PFCP exchange is settled, which is what `PfcpExchange`
promises and `pfcp_serial` checks. The AMF is under no obligation to ask for
anything. `AmfGmm!Fairness`: an armed timer expires and its callback is run
(`time.AfterFunc`); neither the UE nor the RAN has to do anything. `TimersEnd` and
`GivenUp` are about a UE that has fallen silent (`quiet`), because a UE that keeps
starting procedures keeps timers running.

## 5. Proofs

All are for every value of the constants allowed by the named assumptions
(`RangeAssumption`, `TxAssumption`, `SmAssumption`, `UpfAssumption`, `NgapAssumption`,
`GmmAssumption`, `TimersAssumption`), so for any number of sessions, UPFs, RANs, UEs,
connections and retries. Besides types these say that names of different things differ,
and, where a proof showed it is needed: there is at least one connection
(`MaxRanUe`), T3550 is sent again at least once (the code: 4 times), and a stranger
is a UPF that is not of the configuration (`Strangers \cap Upfs = {}`). Theorems that
hold under a further condition state it with ASSUME.

Every invariant that a passing run checks is the subject of a theorem.

* **IDGeneratorProofs**: `TypeCorrect`, `IdsAreUnique`, `UsedMapExact`,
  `RefusalMeansFull`. Uniqueness is not inductive alone: that an unused offset is
  held by nobody is needed, which is `UsedIffHeld`; the two together with the types
  are. `RefusalMeansFull` rests on a lemma that the scan, taken modulo the range,
  passes every offset.
* **PfcpServerProofs**, in three layers.
  - `TypeCorrect`.
  - *Filing*: every table, entry and pending insertion belongs to one consumer
    address; events fit; an answered request has left its loop. This is inductive
    without any condition on callers, because NewTransaction and the lookups use
    the same rule. It gives `AnsweredOnce` and `EventsFit`, and `RefinesExchange`:
    each step is a step of PfcpExchange or leaves it alone.
  - *Ownership* (assuming `Serialized`): at most one writer; what it saw of the
    tables still holds when it acts; running transactions and table entries are
    the same thing; numbers are keys. It gives `EntryOwned` (OwnsEntry),
    `NeverPanics` (NoPanic) and `ResponsesFind`.
* **SmContextProofs**: `TypeCorrect` and `ReleaseMeansDeleted` (ReleaseIsReal).
  The invariant says that "the session at AN is gone and no establishment is on
  its way" holds as soon as a deletion was accepted, and wherever a release
  success is: accepted, in the channel, or taken. It is stable because the session
  is established once.
* **SmSequentialProofs**, for an AMF that waits for the establishment and has one
  request open at a time (`Sequential`), any path, lossy or not: `StatusIsOwn`
  (OwnStatus), `ChannelLeftEmpty` (NoStaleStatus), `PendingMeansDeleted`
  (PendingReleaseDeleted), `RemovedForGood` (RemovedStaysInActive), and, for a path of
  one UPF, `NeverCrashes` (NoCrash). A response of a second UPF may come after the
  context was removed, hence the last condition. `InTurn` is the invariant: every
  handler is at rest, or it is the only one at work and the context is as `Begun`,
  `Modifying`, `Deleting`, `Removing`, `Deciding`, `Waiting` or `Told` says for its
  place; a handler that was told or promised a release, and InActivePending, imply that
  the session is gone (from SmContextProofs); the establishment at AN is over before the
  first handler begins. `Move` collects what a step of the handler at work, or of its
  exchange, must do, and each action is shown to be a `Move`.
* **SmfUpfProofs**: `TypeCorrect`, `AnswersFindSession` (RoutedBySeid), `NoRuleRefused`
  (RulesAccepted), `OnlyPdrIdsLeak` (OnlyPdrIdsLost), `AddressesOwn` (OwnAddress),
  `AssociationsOwn` (OwnAssociation). The invariant says what a context holds at each
  point of its creation (`Shaped`), that SEIDs are below the counter and one context
  reads its own unless it was overtaken (`Counting`), that the shared address is the
  number of the newest session modulo the wrap (`Addressed`), what the generators have
  in use (`Pooled`), and, while PDR ids fit in 16 bits, that a PDR id was given to one
  session and a UPF's rules are those of sessions or left by released ones (`Ruled`).
  Lemmas about the modulus and about the cyclic scan of the generator come first;
  induction is avoided by the closed form of both.
* **AmfNgapProofs**: `TypeCorrect`, `PoolMatchesLists` (PoolIsLists), `AttachedBothWays`
  (AttachedBack), `HandoverEndsPaired` (HandoverPairs), `UeNeverLost` (OneConnection),
  `CrashesNeedOverlap` (CrashNeedsOverlap), `FewLeftBehind` (LeftBehind). `Clean(a, O)`
  is the invariant of the contexts `a` where the UEs of `O` have had two connections at
  once. Each function of `amf/context` has a lemma that it preserves `Clean`, for a
  suitable `O`, and a handler is proved by composing the lemmas as it composes the
  functions. Pairs and lists are not inductive one by one: removing a connection keeps
  the lists right only because it is in exactly one, and keeps the pairs right only
  because both ends belong to one UE.
* **AmfGmmProofs**: `TypeCorrect`, `NobodyUnconfirmed` (OnlyConfirmed), `TimersInOrder`
  (TimersFollowState), `ResetNeedsRace` (ResetFindsTimer), `RefinesLife`
  (ImplementsLife). The invariant `Sound` adds that a security context, and any T3550
  that is or was armed, comes from a confirmation: the first lets a UE skip the
  procedure, the second sets Registered by itself when it aborts. For the timers it
  adds that an AmfUe without a pointer has nothing armed and nothing counted, and that
  no timer runs when an identity is awaited. Each operator of AmfGmm has a lemma that it
  preserves `Sound` and which phases of GmmLife it may lead to; the steps compose them
  as the handlers do.

Only model-checked: the liveness properties (`LifecycleEnds`, `ModifyAnswered`,
`TimersEnd`, `GivenUp`) and the fairness half of PfcpExchange, because temporal
reasoning with fairness is beyond the prover used here; and that the closed form of
the skipping loop in AmfNgap (`Reached`, `Skipped`) is what the loop computes, which
is an induction over the list and is evaluated on bounded lists in MCAmfNgap.

## 6. Findings and observations

Found by runs that expect a violation:

* `ReadFrom` sends on an unbuffered channel with no way out; if `Start` has left
  its select, the only socket reader stops (`pfcp_reader_stuck`).
* A release sends the deletion request before it sets the state in which the
  response counts (`sm_release_hangs`). Modifications set the state first.
* `DeactivateTunnelAndPDR` cuts the list it walks, so only the first UPF of a
  path is released (`sm_all_deleted`).
* After a successful N2 handover the source connection is released, and
  `RanUe.Remove` detaches the AmfUe from whichever connection it uses, the target
  (`amf_handover`).

Met while modelling, present in the models, and the reason for the conditions in the
properties:

* PFCP: `RemoveTransaction`'s error branch dereferences the nil it reports, and
  racing callers of `WriteTo` lead there. The establishment and modification
  handlers use a nil context when a response is late; the deletion handler checks.
* SmfUpf: contexts keep the shared address slice, so any message built after a later
  `AllocUEIP` carries the newest address. PDR ids are never returned to the
  generator they come from. An association set up by the UPF fills `UPIPInfo` but
  not `UPFStatus`, so a path through it is chosen and its activation panics
  (recovered by gin). A released association leaves the UPF in
  `UserPlaneInformation`. A UPF the SMF does not know is taken for another one.
* AmfNgap: an NG reset or a closed connection skips every second connection but the
  last; those stay in the pools. `ReleaseCause` is dereferenced after an earlier
  release has set it to nil, and `ue.RanUe[AnType]` after it was deleted; nothing
  recovers an NGAP goroutine. A target connection that stays after an empty handover
  acknowledgement blocks later handovers of that UE. AMF UE NGAP ids are not freed.
* AmfGmm: an identity response while an authentication is outstanding starts a second
  T3560; the first can no longer be stopped, removes a registered UE, or meets a nil
  pointer. A T3550 that outlives ContextSetup sets Registered by itself, and its abort
  without a connection dereferences nil. A second abort of T3560 frees a TMSI twice.
  Authentication failure without `AuthenticationCtx`, registration complete after an
  update that was accepted without a context request, and a security mode complete
  with a service request inside are nil dereferences. EAP success sends an event
  that Authentication has no transition for, deregistration for the other access stays
  in DeregistrationInitiated, and an error on entry to ContextSetup is only logged:
  in all three the UE waits without a timer.

## 7. Not modelled, and the plan

Not modelled: Go-level map corruption, wrap of the 32-bit counters, several data
paths of one context (ULCL), N1/N2 contents, the codecs, the user plane, NGAP
handlers that only relay (session resource responses, NRPPa, location,
configuration), 3GPP and non-3GPP access side by side, and the NFs other than SMF,
UPF and AMF, which are mostly services over a database. The bulk of the
repository's lines is generated: OpenAPI clients and models, NGAP types, NAS and
APER codecs; it holds no state to model, so the map covers a small share of all lines
and most of the files that carry protocol state.

Left, in this order:

1. **Paging** (`amf/producer/n1n2message.go`): `OnGoing`, T3513 and the stored N1N2
   message, on NasTimer and GmmLife.
2. **ULCL** (`ulcl_procedure.go`, `bp_manager.go`): the branching-point procedure as
   a state machine driven by PFCP responses; composes with SmContext's exchanges.
3. Proofs: liveness stays with TLC. What remains is to relate the generator that
   SmfUpf writes as operators on a record to IDGenerator by a refinement, and to state
   the step properties behind the history variables (what a step of a UE that is not
   overlapped may never do).
