----------------------------- MODULE PfcpServer -----------------------------
(***************************************************************************)
(* lib/pfcp and lib/pfcp/pfcpUdp: the reliable-delivery layer under the    *)
(* SMF's N4 interface.  A message sent by WriteTo becomes a transaction,   *)
(* entered in the TxTable of its consumer and run by a goroutine of its    *)
(* own (StartTxLifeCycle): a request is written up to NumOfResend times,   *)
(* one timer apart, until its response is read; a response is kept until   *)
(* its timer ends and written again when the request is seen again.  One   *)
(* goroutine (udp.Run) reads the socket, looks up the transaction and      *)
(* hands it an event over an unbuffered channel.                           *)
(*                                                                         *)
(* The network may lose, delay, duplicate and reorder: a message that was  *)
(* written once may be read at any later time, any number of times or      *)
(* never.  None of the maps and counters is protected by a lock, so the    *)
(* steps below are the reads and writes of shared memory.                  *)
(***************************************************************************)
EXTENDS Naturals

CONSTANTS
    Peers,        \* UDP addresses of the UPFs
    Local,        \* Conn.LocalAddr()
    None,         \* the nil pointer
    Requests,     \* requests this node sends, one caller goroutine each
    Responses,    \* dispatches of the peers' requests, one handler goroutine each
    Dest,         \* the peer a transaction's message goes to
    ReqSeq,       \* the sequence number of the peer's request of a dispatch
    RspSeq,       \* the sequence number its handler puts in the response
    NumOfResend,
    SeqLimit,     \* 1 << 24: sequence numbers on the wire are below it
    Serialized    \* TRUE: no two goroutines are inside WriteTo at once

Tx    == Requests \cup Responses
Addrs == Peers \cup {Local}

ASSUME TxAssumption ==
    /\ Requests \cap Responses = {}
    /\ None \notin Tx
    /\ Local \notin Peers
    /\ Dest \in [Tx -> Peers]
    /\ ReqSeq \in [Responses -> Nat]
    /\ RspSeq \in [Responses -> Nat]
    /\ NumOfResend \in Nat \ {0}
    /\ SeqLimit \in Nat \ {0}
    /\ Serialized \in BOOLEAN

VARIABLES
    seq,            \* the counter of getSeqNumber
    pc,             \* where each transaction's goroutine is
    read,           \* the value of seq it loaded
    seqOf,          \* tx.SequenceNumber
    table,          \* the txTable it holds in PutTransaction
    iter,           \* the iteration of Start's loop
    onWire,         \* the transactions whose message was ever written
    answered,       \* how often its response was passed to Dispatch
    ConsumerTable,  \* address -> its TxTable, named after the tx that made it
    TxTable,        \* TxTable -> the transactions in it, keyed by seqOf
    target,         \* the transaction whose channel ReadFrom is sending on
    event,          \* the event it sends
    crashed         \* a goroutine panicked

callerVars == <<seq, read, seqOf>>
tableVars  == <<table, ConsumerTable, TxTable>>
readerVars == <<target, event>>
vars == <<seq, pc, read, seqOf, table, iter, onWire, answered, ConsumerTable,
          TxTable, target, event, crashed>>

PcValues == {"idle", "seq", "handler", "put", "make", "insert", "dropped",
             "write", "select", "ended", "done"}
InWriteTo == {"seq", "put", "make", "insert"}
Running   == {"write", "select", "ended"}
Events    == {"ReceiveValidResponse", "ReceiveResendRequest"}

\* Mutant: requests are filed under the peer's address too.
ConsumerAddrByPeer(m) == Dest[m]

\* NewTransaction: the table a transaction belongs to.
ConsumerAddr(m) == IF m \in Requests THEN Local ELSE Dest[m]

\* The entry of a TxTable for a sequence number, as a set of at most one.
Entry(t, s) == {x \in TxTable[t] : seqOf[x] = s}

\* FindTransaction: the table of the address may be missing, and the entry.
FindTransaction(a, s) ==
    IF ConsumerTable[a] = None THEN {} ELSE Entry(ConsumerTable[a], s)

\* Mutant: the shift drops four bits of the sequence number.
WireShifted(s) == (s * 16) % SeqLimit

\* Header.MarshalBinary shifts the number left by 8 in a uint32.
Wire(s) == s % SeqLimit

Init ==
    /\ seq = 0
    /\ pc = [m \in Tx |-> "idle"]
    /\ read = [m \in Tx |-> 0]
    /\ seqOf = [m \in Tx |-> IF m \in Responses THEN RspSeq[m] ELSE 0]
    /\ table = [m \in Tx |-> None]
    /\ iter = [m \in Tx |-> 0]
    /\ onWire = {}
    /\ answered = [m \in Tx |-> 0]
    /\ ConsumerTable = [a \in Addrs |-> None]
    /\ TxTable = [m \in Tx |-> {}]
    /\ target = None
    /\ event = "ReceiveValidResponse"
    /\ crashed = FALSE

Goto(m, l) == pc' = [pc EXCEPT ![m] = l]

MayEnterWriteTo == Serialized => \A x \in Tx : pc[x] \notin InWriteTo

-----------------------------------------------------------------------------
(* A caller: SendPfcp... and WriteTo.                                      *)

\* seq++ in getSeqNumber: the load ...
LoadSeq(m) ==
    /\ m \in Requests /\ pc[m] = "idle"
    /\ MayEnterWriteTo
    /\ read' = [read EXCEPT ![m] = seq]
    /\ Goto(m, "seq")
    /\ UNCHANGED <<seq, seqOf, iter, onWire, answered, tableVars, readerVars, crashed>>

\* ... and the store, whose value is returned.
StoreSeq(m) ==
    /\ pc[m] = "seq"
    /\ seq' = read[m] + 1
    /\ seqOf' = [seqOf EXCEPT ![m] = read[m] + 1]
    /\ Goto(m, "put")
    /\ UNCHANGED <<read, iter, onWire, answered, tableVars, readerVars, crashed>>

\* A handler answers the request it was started for.
SendResponse(m) ==
    /\ pc[m] = "handler"
    /\ MayEnterWriteTo
    /\ Goto(m, "put")
    /\ UNCHANGED <<callerVars, iter, onWire, answered, tableVars, readerVars, crashed>>

\* PutTransaction finds no TxTable for the consumer.
PutNoTable(m) ==
    /\ pc[m] = "put"
    /\ ConsumerTable[ConsumerAddr(m)] = None
    /\ Goto(m, "make")
    /\ UNCHANGED <<callerVars, iter, onWire, answered, tableVars, readerVars, crashed>>

\* It stores a new one, over any made in the meantime.
MakeTable(m) ==
    /\ pc[m] = "make"
    /\ ConsumerTable' = [ConsumerTable EXCEPT ![ConsumerAddr(m)] = m]
    /\ Goto(m, "put")
    /\ UNCHANGED <<callerVars, table, TxTable, iter, onWire, answered, readerVars, crashed>>

\* Mutant: the check for a duplicate sequence number is missing.
PutUnchecked(m) ==
    /\ pc[m] = "put"
    /\ ConsumerTable[ConsumerAddr(m)] # None
    /\ table' = [table EXCEPT ![m] = ConsumerTable[ConsumerAddr(m)]]
    /\ Goto(m, "insert")
    /\ UNCHANGED <<callerVars, ConsumerTable, TxTable, iter, onWire, answered,
                   readerVars, crashed>>

\* The table is there and the sequence number is free in it.
PutFree(m) ==
    /\ pc[m] = "put"
    /\ ConsumerTable[ConsumerAddr(m)] # None
    /\ Entry(ConsumerTable[ConsumerAddr(m)], seqOf[m]) = {}
    /\ table' = [table EXCEPT ![m] = ConsumerTable[ConsumerAddr(m)]]
    /\ Goto(m, "insert")
    /\ UNCHANGED <<callerVars, ConsumerTable, TxTable, iter, onWire, answered,
                   readerVars, crashed>>

\* "Insert tx error: duplicate sequence number": the message is never sent.
PutDuplicate(m) ==
    /\ pc[m] = "put"
    /\ ConsumerTable[ConsumerAddr(m)] # None
    /\ Entry(ConsumerTable[ConsumerAddr(m)], seqOf[m]) # {}
    /\ Goto(m, "dropped")
    /\ UNCHANGED <<callerVars, iter, onWire, answered, tableVars, readerVars, crashed>>

\* txTable[tx.SequenceNumber] = tx, then go StartTxLifeCycle(tx).
Insert(m) ==
    /\ pc[m] = "insert"
    /\ TxTable' = [TxTable EXCEPT ![table[m]] = (@ \ Entry(table[m], seqOf[m])) \cup {m}]
    /\ Goto(m, "write")
    /\ UNCHANGED <<callerVars, table, ConsumerTable, iter, onWire, answered,
                   readerVars, crashed>>

-----------------------------------------------------------------------------
(* The transaction's goroutine: Start and RemoveTransaction.               *)

\* Start returns, and its loop variable goes.
Return(m) ==
    /\ iter' = [iter EXCEPT ![m] = 0]
    /\ Goto(m, "ended")

\* Mutant: iter-- for iter++.
NextIterationDown(m) ==
    IF iter[m] + 1 < NumOfResend
    THEN iter' = [iter EXCEPT ![m] = @ - 1] /\ Goto(m, "write")
    ELSE Return(m)

\* Mutant: iter++ is missing.
NextIterationSame(m) ==
    IF iter[m] + 1 < NumOfResend
    THEN Goto(m, "write") /\ UNCHANGED iter
    ELSE Return(m)

\* The end of one iteration of Start's loop.
NextIteration(m) ==
    IF iter[m] + 1 < NumOfResend
    THEN iter' = [iter EXCEPT ![m] = @ + 1] /\ Goto(m, "write")
    ELSE Return(m)

WriteToUDP(m) ==
    /\ pc[m] = "write"
    /\ onWire' = onWire \cup {m}
    /\ Goto(m, "select")
    /\ UNCHANGED <<callerVars, iter, answered, tableVars, readerVars, crashed>>

WriteError(m) ==
    /\ pc[m] = "write"
    /\ Return(m)
    /\ UNCHANGED <<callerVars, onWire, answered, tableVars, readerVars, crashed>>

\* The timer of a request starts the next iteration, that of a response ends
\* the transaction.
Timeout(m) ==
    /\ pc[m] = "select"
    /\ IF m \in Requests THEN NextIteration(m) ELSE Return(m)
    /\ UNCHANGED <<callerVars, onWire, answered, tableVars, readerVars, crashed>>

\* Mutant: Start goes on with the loop after a valid response.
ReceiveAndGoOn(m) ==
    /\ pc[m] = "select" /\ target = m
    /\ NextIteration(m)
    /\ answered' = IF event = "ReceiveValidResponse"
                   THEN [answered EXCEPT ![m] = @ + 1] ELSE answered
    /\ target' = None
    /\ UNCHANGED <<callerVars, onWire, tableVars, event, crashed>>

\* Mutant: the channel is buffered, so that a response counts after Start ended.
ReceiveBuffered(m) ==
    /\ pc[m] \in {"select", "ended"} /\ target = m
    /\ IF pc[m] = "ended" THEN UNCHANGED <<pc, iter>>
       ELSE IF m \in Requests /\ event = "ReceiveValidResponse"
       THEN Return(m)
       ELSE NextIteration(m)
    /\ answered' = IF event = "ReceiveValidResponse"
                   THEN [answered EXCEPT ![m] = @ + 1] ELSE answered
    /\ target' = None
    /\ UNCHANGED <<callerVars, onWire, tableVars, event, crashed>>

\* Start receives the event ReadFrom is sending; ReadFrom then returns, and
\* udp.Run passes a response on to Dispatch.
Receive(m) ==
    /\ pc[m] = "select" /\ target = m
    /\ IF m \in Requests /\ event = "ReceiveValidResponse"
       THEN Return(m)
       ELSE NextIteration(m)
    /\ answered' = IF event = "ReceiveValidResponse"
                   THEN [answered EXCEPT ![m] = @ + 1] ELSE answered
    /\ target' = None
    /\ UNCHANGED <<callerVars, onWire, tableVars, event, crashed>>

\* RemoveTransaction deletes whatever the table holds for the number.
Remove(m) ==
    /\ pc[m] = "ended"
    /\ FindTransaction(ConsumerAddr(m), seqOf[m]) # {}
    /\ TxTable' = [TxTable EXCEPT ![ConsumerTable[ConsumerAddr(m)]] =
                                     {x \in @ : seqOf[x] # seqOf[m]}]
    /\ Goto(m, "done")
    /\ UNCHANGED <<callerVars, table, ConsumerTable, iter, onWire, answered,
                   readerVars, crashed>>

\* Without an entry txTmp is nil, and its SequenceNumber is read for the log.
RemoveMissing(m) ==
    /\ pc[m] = "ended"
    /\ FindTransaction(ConsumerAddr(m), seqOf[m]) = {}
    /\ crashed' = TRUE
    /\ Goto(m, "done")
    /\ UNCHANGED <<callerVars, iter, onWire, answered, tableVars, readerVars>>

-----------------------------------------------------------------------------
(* The reader: udp.Run and ReadFrom, while no channel send is pending.     *)

\* A response to a request m that was written before.  Without a transaction
\* FindTransaction returns an error and the message is not dispatched.
ReadResponse(m) ==
    /\ target = None
    /\ m \in Requests \cap onWire
    /\ \E x \in FindTransaction(Local, Wire(seqOf[m])) :
          /\ target' = x
          /\ event' = "ReceiveValidResponse"
    /\ UNCHANGED <<callerVars, pc, iter, onWire, answered, tableVars, crashed>>

\* A peer's request whose response is in the table: a resend request.
ReadResendRequest(m) ==
    /\ target = None
    /\ m \in Responses
    /\ \E x \in FindTransaction(Dest[m], ReqSeq[m]) :
          /\ target' = x
          /\ event' = "ReceiveResendRequest"
    /\ UNCHANGED <<callerVars, pc, iter, onWire, answered, tableVars, crashed>>

\* Without a transaction it is a new request: go Dispatch(&msg).
ReadNewRequest(m) ==
    /\ target = None
    /\ m \in Responses /\ pc[m] = "idle"
    /\ FindTransaction(Dest[m], ReqSeq[m]) = {}
    /\ Goto(m, "handler")
    /\ UNCHANGED <<callerVars, iter, onWire, answered, tableVars, readerVars, crashed>>

\* Every other message (read or decoding error, response without transaction)
\* is logged and the loop continues.
ReadError ==
    /\ target = None
    /\ UNCHANGED vars

-----------------------------------------------------------------------------

Lifecycle(m) ==
    \/ WriteToUDP(m) \/ WriteError(m) \/ Timeout(m)
    \/ Receive(m) \/ Remove(m) \/ RemoveMissing(m)

Caller(m) ==
    \/ LoadSeq(m) \/ StoreSeq(m) \/ SendResponse(m)
    \/ PutNoTable(m) \/ MakeTable(m) \/ PutFree(m) \/ PutDuplicate(m) \/ Insert(m)

Reader(m) == ReadResponse(m) \/ ReadResendRequest(m) \/ ReadNewRequest(m)

Next ==
    /\ ~crashed
    /\ \/ \E m \in Tx : Caller(m) \/ Lifecycle(m) \/ Reader(m)
       \/ ReadError

\* A started lifecycle is scheduled and its timers expire.
Fairness == \A m \in Tx : WF_vars(~crashed /\ Lifecycle(m))

Spec == Init /\ [][Next]_vars
FairSpec == Spec /\ Fairness
-----------------------------------------------------------------------------

\* The types of the layer's variables.
TypeOK ==
    /\ seq \in Nat
    /\ pc \in [Tx -> PcValues]
    /\ read \in [Tx -> Nat]
    /\ seqOf \in [Tx -> Nat]
    /\ table \in [Tx -> Tx \cup {None}]
    /\ iter \in [Tx -> Nat]
    /\ onWire \in SUBSET Tx
    /\ answered \in [Tx -> Nat]
    /\ ConsumerTable \in [Addrs -> Tx \cup {None}]
    /\ TxTable \in [Tx -> SUBSET Tx]
    /\ target \in Tx \cup {None}
    /\ event \in Events
    /\ crashed \in BOOLEAN

\* However often a request is resent and its response duplicated, at most one
\* response of it reaches Dispatch (Start returns on ReceiveValidResponse and
\* only it empties the channel), even when callers race in PutTransaction.
AtMostOneAnswer == \A m \in Tx : answered[m] <= 1

\* An event meets the kind of transaction it is meant for: responses are
\* looked up under the local address, requests under the peer's, and
\* PutTransaction files by the same rule (NewTransaction, ReadFrom).
EventFitsTx ==
    target # None => (event = "ReceiveValidResponse" <=> target \in Requests)

\* While its goroutine runs, a transaction is the one its key leads to: no
\* other caller, handler or ending transaction takes its entry away
\* (PutTransaction, RemoveTransaction).
OwnsEntry ==
    \A m \in Tx : pc[m] \in Running =>
        FindTransaction(ConsumerAddr(m), seqOf[m]) = {m}

\* RemoveTransaction never meets its broken error branch.
NoPanic == ~crashed

\* The response a peer sends to a request that is waiting is handed to that
\* very request: sequence numbers are distinct among live requests and survive
\* the 24-bit field of the header.
ResponseFindsRequest ==
    \A m \in Requests : pc[m] = "select" =>
        FindTransaction(Local, Wire(seqOf[m])) = {m}

\* Every lifecycle comes to its end, whatever the network does: the resends
\* are bounded and the timers run.
LifecycleEnds ==
    \A m \in Tx : pc[m] = "write" ~> (pc[m] = "done" \/ crashed)

\* ReadFrom returns from every channel send, so that the next message is read.
ReaderReturns == target # None ~> (target = None \/ crashed)

-----------------------------------------------------------------------------

\* A request as its caller sees it.
Status(m) ==
    IF answered[m] > 0 THEN "answered"
    ELSE IF pc[m] \in {"write", "select"} THEN "pending"
    ELSE IF pc[m] \in {"dropped", "ended", "done"} THEN "failed"
    ELSE "new"

Abstract == [m \in Requests |-> Status(m)]

Exchange == INSTANCE PfcpExchange WITH status <- Abstract

\* The layer implements the exchange: answered at most once, never after it
\* gave up, and every request written is settled (Start, ReadFrom).
ImplementsExchange == Exchange!Spec
=============================================================================
