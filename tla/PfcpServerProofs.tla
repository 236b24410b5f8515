-------------------------- MODULE PfcpServerProofs --------------------------
(***************************************************************************)
(* Proofs about PfcpServer for any peers, requests, handlers and limits.   *)
(* Two inductive invariants are used.  Filing says that every transaction  *)
(* is in a table of its own consumer address, which is all that the answer *)
(* count needs, however callers interleave.  Ownership says that a running *)
(* transaction is the one its key leads to; it needs WriteTo serialized.   *)
(***************************************************************************)
EXTENDS PfcpServer, TLAPS

\* NewTransaction files a request under the local address and a response under
\* the peer's; the two never coincide.
LEMMA AddrFacts ==
    \A m \in Tx : /\ ConsumerAddr(m) \in Addrs
                  /\ ConsumerAddr(m) = Local <=> m \in Requests
BY TxAssumption DEF ConsumerAddr, Addrs, Tx

\* What a lookup returns is in the table of the address (FindTransaction).
LEMMA FoundInTable ==
    ASSUME NEW a, NEW s, NEW x \in FindTransaction(a, s)
    PROVE  /\ ConsumerTable[a] # None
           /\ x \in TxTable[ConsumerTable[a]]
           /\ seqOf[x] = s
BY DEF FindTransaction, Entry

-----------------------------------------------------------------------------
(* Types.                                                                  *)

LEMMA TypeInit == Init => TypeOK
<1> SUFFICES ASSUME Init PROVE TypeOK
    OBVIOUS
<1>1. seqOf \in [Tx -> Nat]
    BY TxAssumption DEF Init, Tx
<1>2. /\ pc \in [Tx -> PcValues] /\ event \in Events
      /\ crashed \in BOOLEAN /\ onWire \in SUBSET Tx
    BY DEF Init, PcValues, Events
<1>3. /\ seq \in Nat /\ read \in [Tx -> Nat] /\ iter \in [Tx -> Nat]
      /\ answered \in [Tx -> Nat]
    BY DEF Init
<1>4. /\ table \in [Tx -> Tx \cup {None}] /\ target \in Tx \cup {None}
      /\ ConsumerTable \in [Addrs -> Tx \cup {None}] /\ TxTable \in [Tx -> SUBSET Tx]
    BY DEF Init
<1> QED BY <1>1, <1>2, <1>3, <1>4 DEF TypeOK

LEMMA TypeStep == TypeOK /\ [Next]_vars => TypeOK'
<1> SUFFICES ASSUME TypeOK, [Next]_vars PROVE TypeOK'
    OBVIOUS
<1> USE DEF TypeOK, PcValues
<1>1. ASSUME NEW m \in Tx, LoadSeq(m) PROVE TypeOK'
    BY <1>1 DEF LoadSeq, Goto, tableVars, readerVars
<1>2. ASSUME NEW m \in Tx, StoreSeq(m) PROVE TypeOK'
    BY <1>2 DEF StoreSeq, Goto, tableVars, readerVars
<1>3. ASSUME NEW m \in Tx, SendResponse(m) PROVE TypeOK'
    BY <1>3 DEF SendResponse, Goto, tableVars, readerVars, callerVars
<1>4. ASSUME NEW m \in Tx, PutNoTable(m) PROVE TypeOK'
    BY <1>4 DEF PutNoTable, Goto, tableVars, readerVars, callerVars
<1>5. ASSUME NEW m \in Tx, MakeTable(m) PROVE TypeOK'
    BY <1>5 DEF MakeTable, Goto, readerVars, callerVars
<1>6. ASSUME NEW m \in Tx, PutFree(m) PROVE TypeOK'
    BY <1>6, AddrFacts DEF PutFree, Goto, readerVars, callerVars
<1>7. ASSUME NEW m \in Tx, PutDuplicate(m) PROVE TypeOK'
    BY <1>7 DEF PutDuplicate, Goto, tableVars, readerVars, callerVars
<1>8. ASSUME NEW m \in Tx, Insert(m) PROVE TypeOK'
    BY <1>8 DEF Insert, Goto, readerVars, callerVars
<1>9. ASSUME NEW m \in Tx, WriteToUDP(m) PROVE TypeOK'
    BY <1>9 DEF WriteToUDP, Goto, tableVars, readerVars, callerVars
<1>10. ASSUME NEW m \in Tx, WriteError(m) PROVE TypeOK'
    BY <1>10 DEF WriteError, Return, Goto, tableVars, readerVars, callerVars
<1>11. ASSUME NEW m \in Tx, NextIteration(m) \/ Return(m)
       PROVE  iter' \in [Tx -> Nat] /\ pc' \in [Tx -> PcValues]
    BY <1>11 DEF NextIteration, Return, Goto
<1>12. ASSUME NEW m \in Tx, Timeout(m) PROVE TypeOK'
    BY <1>11, <1>12 DEF Timeout, tableVars, readerVars, callerVars
<1>13. ASSUME NEW m \in Tx, Receive(m) PROVE TypeOK'
    BY <1>11, <1>13 DEF Receive, tableVars, callerVars
<1>14. ASSUME NEW m \in Tx, Remove(m) PROVE TypeOK'
    BY <1>14 DEF Remove, Goto, readerVars, callerVars
<1>15. ASSUME NEW m \in Tx, RemoveMissing(m) PROVE TypeOK'
    BY <1>15 DEF RemoveMissing, Goto, tableVars, readerVars, callerVars
<1>16. ASSUME NEW m \in Tx, ReadResponse(m) PROVE TypeOK'
  <2>1. PICK x \in FindTransaction(Local, Wire(seqOf[m])) :
            target' = x /\ event' = "ReceiveValidResponse"
      BY <1>16 DEF ReadResponse
  <2>2. x \in Tx
      BY <2>1, FoundInTable DEF Addrs
  <2> QED BY <1>16, <2>1, <2>2 DEF ReadResponse, Events, tableVars, callerVars
<1>17. ASSUME NEW m \in Tx, ReadResendRequest(m) PROVE TypeOK'
  <2>1. PICK x \in FindTransaction(Dest[m], ReqSeq[m]) :
            target' = x /\ event' = "ReceiveResendRequest"
      BY <1>17 DEF ReadResendRequest
  <2>2. x \in Tx
      BY <2>1, FoundInTable, TxAssumption DEF Addrs
  <2> QED BY <1>17, <2>1, <2>2 DEF ReadResendRequest, Events, tableVars, callerVars
<1>18. ASSUME NEW m \in Tx, ReadNewRequest(m) PROVE TypeOK'
    BY <1>18 DEF ReadNewRequest, Goto, tableVars, readerVars, callerVars
<1>19. CASE UNCHANGED vars
    BY <1>19 DEF vars
<1> QED
    BY <1>1, <1>2, <1>3, <1>4, <1>5, <1>6, <1>7, <1>8, <1>9, <1>10, <1>12, <1>13,
       <1>14, <1>15, <1>16, <1>17, <1>18, <1>19
       DEF Next, Caller, Lifecycle, Reader, ReadError

\* The variables of the layer keep their types in every reachable state.
THEOREM TypeCorrect == Spec => []TypeOK
BY TypeInit, TypeStep, PTL DEF Spec

-----------------------------------------------------------------------------
(* Filing: tables, entries and events fit the consumer addresses, and an   *)
(* answered request has left its loop.                                     *)

TablesFiled == \A a \in Addrs : ConsumerTable[a] # None => ConsumerAddr(ConsumerTable[a]) = a

EntriesFiled == \A t \in Tx : \A x \in TxTable[t] : ConsumerAddr(x) = ConsumerAddr(t)

HolderFiled ==
    \A m \in Tx : pc[m] = "insert" =>
        table[m] \in Tx /\ ConsumerAddr(table[m]) = ConsumerAddr(m)

AnsweredEnded ==
    \A m \in Tx : /\ answered[m] <= 1
                  /\ answered[m] # 0 => pc[m] \in {"ended", "done"}

Filing ==
    /\ TypeOK
    /\ TablesFiled
    /\ EntriesFiled
    /\ HolderFiled
    /\ EventFitsTx
    /\ AnsweredEnded

LEMMA FilingInit == Init => Filing
<1> SUFFICES ASSUME Init PROVE Filing
    OBVIOUS
<1>1. TypeOK
    BY TypeInit
<1>2. TablesFiled /\ EntriesFiled /\ HolderFiled /\ EventFitsTx
    BY DEF Init, TablesFiled, EntriesFiled, HolderFiled, EventFitsTx
<1>3. AnsweredEnded
    BY DEF Init, AnsweredEnded
<1> QED BY <1>1, <1>2, <1>3 DEF Filing

\* A transaction found under an address is filed under it.
LEMMA FoundFiled ==
    ASSUME Filing, NEW a \in Addrs, NEW s, NEW x \in FindTransaction(a, s)
    PROVE  x \in Tx /\ ConsumerAddr(x) = a
<1>1. /\ ConsumerTable[a] # None
      /\ x \in TxTable[ConsumerTable[a]]
    BY FoundInTable
<1>2. ConsumerTable[a] \in Tx
    BY <1>1 DEF Filing, TypeOK
<1> QED BY <1>1, <1>2 DEF Filing, TypeOK, TablesFiled, EntriesFiled

\* A step that moves one transaction to a place from which it was not answered
\* and leaves tables, events and answers alone.
LEMMA FilingMove ==
    ASSUME Filing, TypeOK', NEW m \in Tx, NEW l \in PcValues \ {"insert"},
           pc[m] \notin {"ended", "done"} \/ l = "done",
           Goto(m, l), UNCHANGED <<table, ConsumerTable, TxTable, target, event, answered>>
    PROVE  Filing'
<1> USE DEF Filing, TypeOK, Goto
<1>1. TablesFiled' /\ EntriesFiled' /\ EventFitsTx'
    BY DEF TablesFiled, EntriesFiled, EventFitsTx, ConsumerAddr
<1>2. HolderFiled'
    BY DEF HolderFiled, ConsumerAddr
<1>3. AnsweredEnded'
    BY DEF AnsweredEnded
<1> QED BY <1>1, <1>2, <1>3

LEMMA FilingStep == Filing /\ [Next]_vars => Filing'
<1> SUFFICES ASSUME Filing, [Next]_vars PROVE Filing'
    OBVIOUS
<1>t. TypeOK /\ TypeOK'
    BY TypeStep DEF Filing
<1>1. ASSUME NEW m \in Tx, LoadSeq(m) PROVE Filing'
    BY <1>t, <1>1, FilingMove DEF LoadSeq, tableVars, readerVars, PcValues
<1>2. ASSUME NEW m \in Tx, StoreSeq(m) PROVE Filing'
    BY <1>t, <1>2, FilingMove DEF StoreSeq, tableVars, readerVars, PcValues
<1>3. ASSUME NEW m \in Tx, SendResponse(m) PROVE Filing'
    BY <1>t, <1>3, FilingMove DEF SendResponse, tableVars, readerVars, PcValues
<1>4. ASSUME NEW m \in Tx, PutNoTable(m) PROVE Filing'
    BY <1>t, <1>4, FilingMove DEF PutNoTable, tableVars, readerVars, PcValues
<1>5. ASSUME NEW m \in Tx, MakeTable(m) PROVE Filing'
  <2> USE <1>t, <1>5 DEF MakeTable, Goto, readerVars, TypeOK, Filing
  <2>1. TablesFiled'
      BY AddrFacts DEF TablesFiled, ConsumerAddr
  <2>2. EntriesFiled' /\ EventFitsTx'
      BY DEF EntriesFiled, EventFitsTx, ConsumerAddr
  <2>3. HolderFiled'
      BY DEF HolderFiled, ConsumerAddr
  <2>4. AnsweredEnded'
      BY DEF AnsweredEnded
  <2> QED BY <2>1, <2>2, <2>3, <2>4
<1>6. ASSUME NEW m \in Tx, PutFree(m) PROVE Filing'
  <2> USE <1>t, <1>6 DEF PutFree, Goto, readerVars, TypeOK, Filing
  <2>1. TablesFiled' /\ EntriesFiled' /\ EventFitsTx'
      BY DEF TablesFiled, EntriesFiled, EventFitsTx, ConsumerAddr
  <2>2. /\ ConsumerTable[ConsumerAddr(m)] \in Tx
        /\ ConsumerAddr(ConsumerTable[ConsumerAddr(m)]) = ConsumerAddr(m)
      BY AddrFacts DEF TablesFiled
  <2>3. HolderFiled'
      BY <2>2 DEF HolderFiled, ConsumerAddr
  <2>4. AnsweredEnded'
      BY DEF AnsweredEnded
  <2> QED BY <2>1, <2>3, <2>4
<1>7. ASSUME NEW m \in Tx, PutDuplicate(m) PROVE Filing'
    BY <1>t, <1>7, FilingMove DEF PutDuplicate, tableVars, readerVars, PcValues
<1>8. ASSUME NEW m \in Tx, Insert(m) PROVE Filing'
  <2> USE <1>t, <1>8 DEF Insert, Goto, readerVars, TypeOK, Filing
  <2>1. TablesFiled' /\ EventFitsTx'
      BY DEF TablesFiled, EventFitsTx, ConsumerAddr
  <2>2. table[m] \in Tx /\ ConsumerAddr(table[m]) = ConsumerAddr(m)
      BY DEF HolderFiled
  <2>3. \A t \in Tx : TxTable'[t] \subseteq TxTable[t] \cup (IF t = table[m] THEN {m} ELSE {})
      BY <2>2
  <2>4. \A x : ConsumerAddr(x)' = ConsumerAddr(x)
      BY DEF ConsumerAddr
  <2>5. EntriesFiled'
      BY <2>2, <2>3, <2>4 DEF EntriesFiled
  <2>6. HolderFiled'
      BY <2>4 DEF HolderFiled
  <2>7. AnsweredEnded'
      BY DEF AnsweredEnded
  <2> QED BY <2>1, <2>5, <2>6, <2>7
<1>9. ASSUME NEW m \in Tx, WriteToUDP(m) PROVE Filing'
    BY <1>t, <1>9, FilingMove DEF WriteToUDP, tableVars, readerVars, PcValues
<1>10. ASSUME NEW m \in Tx, WriteError(m) PROVE Filing'
    BY <1>t, <1>10, FilingMove DEF WriteError, Return, tableVars, readerVars, PcValues
<1>11. ASSUME NEW m \in Tx, Timeout(m) PROVE Filing'
  <2>1. Goto(m, "write") \/ Goto(m, "ended")
      BY <1>11 DEF Timeout, NextIteration, Return
  <2> QED BY <1>t, <1>11, <2>1, FilingMove DEF Timeout, tableVars, readerVars, PcValues
<1>12. ASSUME NEW m \in Tx, Receive(m) PROVE Filing'
  <2> USE <1>t, <1>12 DEF Filing
  <2>1. PICK l \in {"write", "ended"} : Goto(m, l)
      BY DEF Receive, NextIteration, Return
  <2>2. TablesFiled' /\ EntriesFiled' /\ EventFitsTx'
      BY DEF Receive, tableVars, TablesFiled, EntriesFiled, EventFitsTx, ConsumerAddr
  <2>3. HolderFiled'
      BY <2>1 DEF Receive, tableVars, HolderFiled, ConsumerAddr, Goto, TypeOK
  <2>4. answered[m] = 0
      BY DEF Receive, AnsweredEnded
  <2>5. event = "ReceiveValidResponse" => Goto(m, "ended")
      BY TxAssumption DEF Receive, Return, EventFitsTx, Tx
  <2>6. CASE event = "ReceiveValidResponse"
    <3>1. answered' = [answered EXCEPT ![m] = 1]
        BY <2>4, <2>6 DEF Receive, TypeOK
    <3>2. AnsweredEnded'
        BY <3>1, <2>5, <2>6 DEF AnsweredEnded, Goto, TypeOK
    <3> QED BY <2>2, <2>3, <3>2
  <2>7. CASE event # "ReceiveValidResponse"
    <3>1. AnsweredEnded'
        BY <2>1, <2>4, <2>7 DEF AnsweredEnded, Receive, Goto, TypeOK
    <3> QED BY <2>2, <2>3, <3>1
  <2> QED BY <2>6, <2>7
<1>13. ASSUME NEW m \in Tx, Remove(m) PROVE Filing'
  <2> USE <1>t, <1>13 DEF Remove, Goto, readerVars, TypeOK, Filing
  <2>1. TablesFiled' /\ EventFitsTx'
      BY DEF TablesFiled, EventFitsTx, ConsumerAddr
  <2>2. \A t \in Tx : TxTable'[t] \subseteq TxTable[t]
      OBVIOUS
  <2>3. EntriesFiled'
      BY <2>2 DEF EntriesFiled, ConsumerAddr
  <2>4. HolderFiled'
      BY DEF HolderFiled, ConsumerAddr
  <2>5. AnsweredEnded'
      BY DEF AnsweredEnded
  <2> QED BY <2>1, <2>3, <2>4, <2>5
<1>14. ASSUME NEW m \in Tx, RemoveMissing(m) PROVE Filing'
    BY <1>t, <1>14, FilingMove DEF RemoveMissing, tableVars, readerVars, PcValues
<1>15. ASSUME NEW m \in Tx, ReadResponse(m) PROVE Filing'
  <2>1. PICK x \in FindTransaction(Local, Wire(seqOf[m])) :
            target' = x /\ event' = "ReceiveValidResponse"
      BY <1>15 DEF ReadResponse
  <2>2. Local \in Addrs
      BY DEF Addrs
  <2>3. x \in Tx /\ ConsumerAddr(x) = Local
      BY <2>1, <2>2, FoundFiled
  <2>4. x \in Requests
      BY <2>3, AddrFacts
  <2>5. EventFitsTx'
      BY <2>1, <2>4 DEF EventFitsTx
  <2> QED BY <1>t, <1>15, <2>5 DEF ReadResponse, tableVars, Filing, TablesFiled,
                 EntriesFiled, HolderFiled, AnsweredEnded, ConsumerAddr
<1>16. ASSUME NEW m \in Tx, ReadResendRequest(m) PROVE Filing'
  <2>1. PICK x \in FindTransaction(Dest[m], ReqSeq[m]) :
            target' = x /\ event' = "ReceiveResendRequest"
      BY <1>16 DEF ReadResendRequest
  <2>2. Dest[m] \in Addrs /\ Dest[m] # Local
      BY TxAssumption DEF Addrs
  <2>3. x \in Tx /\ ConsumerAddr(x) = Dest[m]
      BY <2>1, <2>2, FoundFiled
  <2>4. x \notin Requests
      BY <2>2, <2>3, AddrFacts
  <2>5. EventFitsTx'
      BY <2>1, <2>4 DEF EventFitsTx
  <2> QED BY <1>t, <1>16, <2>5 DEF ReadResendRequest, tableVars, Filing, TablesFiled,
                 EntriesFiled, HolderFiled, AnsweredEnded, ConsumerAddr
<1>17. ASSUME NEW m \in Tx, ReadNewRequest(m) PROVE Filing'
    BY <1>t, <1>17, FilingMove DEF ReadNewRequest, tableVars, readerVars, PcValues
<1>18. CASE UNCHANGED vars
    BY <1>t, <1>18 DEF vars, Filing, TablesFiled, EntriesFiled, HolderFiled, EventFitsTx,
           AnsweredEnded, ConsumerAddr
<1> QED
    BY <1>1, <1>2, <1>3, <1>4, <1>5, <1>6, <1>7, <1>8, <1>9, <1>10, <1>11, <1>12, <1>13,
       <1>14, <1>15, <1>16, <1>17, <1>18
       DEF Next, Caller, Lifecycle, Reader, ReadError

LEMMA FilingInvariant == Spec => []Filing
BY FilingInit, FilingStep, PTL DEF Spec

\* At most one response of a request is passed on, for any number of callers,
\* handlers and resends, however they interleave (Start, ReadFrom).
THEOREM AnsweredOnce == Spec => []AtMostOneAnswer
<1>1. Filing => AtMostOneAnswer
    BY DEF Filing, AnsweredEnded, AtMostOneAnswer
<1> QED BY <1>1, FilingInvariant, PTL

\* A response event only ever goes to a request's transaction and a resend
\* event to a response's (NewTransaction, PutTransaction, ReadFrom).
THEOREM EventsFit == Spec => []EventFitsTx
<1>1. Filing => EventFitsTx
    BY DEF Filing
<1> QED BY <1>1, FilingInvariant, PTL

-----------------------------------------------------------------------------
(* Ownership, with WriteTo serialized: a running transaction is in the      *)
(* table its address leads to, alone under its number, and the one writer   *)
(* inside PutTransaction finds what it saw.                                 *)

OneWriter == \A m, n \in Tx : pc[m] \in InWriteTo /\ pc[n] \in InWriteTo => m = n

MakeOnce == \A m \in Tx : pc[m] = "make" => ConsumerTable[ConsumerAddr(m)] = None

InsertReady ==
    \A m \in Tx : pc[m] = "insert" =>
        /\ table[m] = ConsumerTable[ConsumerAddr(m)]
        /\ \A x \in TxTable[table[m]] : seqOf[x] # seqOf[m]

Owned ==
    \A m \in Tx : pc[m] \in Running =>
        /\ ConsumerTable[ConsumerAddr(m)] \in Tx
        /\ m \in TxTable[ConsumerTable[ConsumerAddr(m)]]

Members ==
    \A t \in Tx : \A x \in TxTable[t] :
        pc[x] \in Running /\ t = ConsumerTable[ConsumerAddr(x)]

Keys == \A t \in Tx : \A x, y \in TxTable[t] : seqOf[x] = seqOf[y] => x = y

Ownership ==
    /\ Filing
    /\ OneWriter
    /\ MakeOnce
    /\ InsertReady
    /\ Owned
    /\ Members
    /\ Keys
    /\ NoPanic

LEMMA OwnershipInit == Init => Ownership
<1> SUFFICES ASSUME Init PROVE Ownership
    OBVIOUS
<1>1. Filing
    BY FilingInit
<1>2. OneWriter /\ MakeOnce /\ InsertReady /\ Owned
    BY DEF Init, OneWriter, InWriteTo, MakeOnce, InsertReady, Owned, Running
<1>3. Members /\ Keys /\ NoPanic
    BY DEF Init, Members, Keys, NoPanic
<1> QED BY <1>1, <1>2, <1>3 DEF Ownership

\* A running transaction is found, and nothing else, under its own key.
LEMMA OwnerFound ==
    ASSUME Ownership, NEW m \in Tx, pc[m] \in Running
    PROVE  /\ FindTransaction(ConsumerAddr(m), seqOf[m]) = {m}
           /\ ConsumerTable[ConsumerAddr(m)] \in Tx
<1>1. /\ ConsumerTable[ConsumerAddr(m)] \in Tx
      /\ m \in TxTable[ConsumerTable[ConsumerAddr(m)]]
    BY DEF Ownership, Owned
<1>2. ConsumerTable[ConsumerAddr(m)] # None
    BY <1>1, TxAssumption
<1>3. Entry(ConsumerTable[ConsumerAddr(m)], seqOf[m]) = {m}
    BY <1>1 DEF Entry, Ownership, Keys
<1> QED BY <1>1, <1>2, <1>3 DEF FindTransaction

\* A step that moves one transaction, within its lifecycle or outside it, and
\* leaves numbers and tables alone.
LEMMA OwnershipMove ==
    ASSUME Ownership, Filing', NEW m \in Tx, NEW l \in PcValues \ {"make", "insert"},
           l \in Running <=> pc[m] \in Running,
           l \in InWriteTo => \A x \in Tx \ {m} : pc[x] \notin InWriteTo,
           Goto(m, l), UNCHANGED <<seqOf, table, ConsumerTable, TxTable, crashed>>
    PROVE  Ownership'
<1> USE DEF Ownership, Filing, TypeOK, Goto
<1>1. OneWriter'
    BY DEF OneWriter
<1>2. MakeOnce' /\ InsertReady'
    BY DEF MakeOnce, InsertReady, ConsumerAddr
<1>3. Owned'
    BY DEF Owned, ConsumerAddr
<1>4. Members'
    BY DEF Members, ConsumerAddr
<1>5. Keys' /\ NoPanic'
    BY DEF Keys, NoPanic
<1> QED BY <1>1, <1>2, <1>3, <1>4, <1>5

LEMMA OwnershipStep ==
    ASSUME Serialized, Ownership, [Next]_vars
    PROVE  Ownership'
<1>f. Filing /\ Filing' /\ TypeOK /\ TypeOK'
    BY FilingStep DEF Ownership, Filing
<1>a. \A x : ConsumerAddr(x)' = ConsumerAddr(x)
    BY DEF ConsumerAddr
<1>w. \A m \in Tx : pc[m] \in InWriteTo => \A x \in Tx \ {m} : pc[x] \notin InWriteTo
    BY DEF Ownership, OneWriter
<1>e. MayEnterWriteTo => \A x \in Tx : pc[x] \notin InWriteTo
    BY DEF MayEnterWriteTo
<1>1. ASSUME NEW m \in Tx, LoadSeq(m) PROVE Ownership'
    BY <1>f, <1>e, <1>1, OwnershipMove DEF LoadSeq, tableVars, PcValues, Running, InWriteTo
<1>2. ASSUME NEW m \in Tx, StoreSeq(m) PROVE Ownership'
  <2> USE <1>2, <1>f DEF StoreSeq, Goto, tableVars, TypeOK, Ownership
  <2>1. /\ UNCHANGED <<table, ConsumerTable, TxTable, crashed>>
        /\ pc' = [pc EXCEPT ![m] = "put"]
        /\ \A x \in Tx \ {m} : seqOf'[x] = seqOf[x] /\ pc'[x] = pc[x]
      OBVIOUS
  <2>2. \A t \in Tx : m \notin TxTable[t]
      BY DEF Members, Running
  <2>3. OneWriter'
      BY <2>1, <1>w DEF OneWriter, InWriteTo
  <2>4. \A x \in Tx : pc[x] # "insert" /\ pc'[x] # "insert"
      BY <1>w, <2>1 DEF InWriteTo
  <2>5. MakeOnce' /\ InsertReady'
      BY <2>1, <2>4, <1>a DEF MakeOnce, InsertReady
  <2>6. Owned' /\ Members'
      BY <2>1, <2>2, <1>a DEF Owned, Members, Running
  <2>7. Keys' /\ NoPanic'
      BY <2>1, <2>2 DEF Keys, NoPanic
  <2> QED BY <2>3, <2>5, <2>6, <2>7
<1>3. ASSUME NEW m \in Tx, SendResponse(m) PROVE Ownership'
    BY <1>f, <1>e, <1>3, OwnershipMove
       DEF SendResponse, tableVars, callerVars, PcValues, Running, InWriteTo
<1>4. ASSUME NEW m \in Tx, PutNoTable(m) PROVE Ownership'
  <2> USE <1>4, <1>f DEF PutNoTable, Goto, tableVars, callerVars, TypeOK, Ownership
  <2>1. OneWriter'
      BY <1>w DEF OneWriter, InWriteTo
  <2>2. MakeOnce' /\ InsertReady'
      BY <1>a DEF MakeOnce, InsertReady
  <2>3. Owned' /\ Members'
      BY <1>a DEF Owned, Members, Running
  <2>4. Keys' /\ NoPanic'
      BY DEF Keys, NoPanic
  <2> QED BY <2>1, <2>2, <2>3, <2>4
<1>5. ASSUME NEW m \in Tx, MakeTable(m) PROVE Ownership'
  <2> USE <1>5, <1>f DEF MakeTable, Goto, callerVars, TypeOK, Ownership
  <2>1. OneWriter'
      BY <1>w DEF OneWriter, InWriteTo
  <2>2. \A x \in Tx : pc'[x] \notin {"make", "insert"}
      BY <1>w DEF InWriteTo
  <2>3. MakeOnce' /\ InsertReady'
      BY <2>2 DEF MakeOnce, InsertReady
  <2>4. ConsumerTable[ConsumerAddr(m)] = None /\ None \notin Tx
      BY TxAssumption DEF MakeOnce
  <2>5. \A a \in Addrs : ConsumerTable[a] # None => ConsumerTable'[a] = ConsumerTable[a]
      BY <2>4
  <2>6. Owned'
      BY <2>4, <2>5, <1>a, AddrFacts DEF Owned, Running
  <2>7. \A t \in Tx : \A x \in TxTable[t] : x \in Tx
      OBVIOUS
  <2>8. Members'
      BY <2>4, <2>5, <2>7, <1>a, AddrFacts DEF Members, Running
  <2>9. Keys' /\ NoPanic'
      BY DEF Keys, NoPanic
  <2> QED BY <2>1, <2>3, <2>6, <2>8, <2>9
<1>6. ASSUME NEW m \in Tx, PutFree(m) PROVE Ownership'
  <2> USE <1>6, <1>f DEF PutFree, Goto, callerVars, TypeOK, Ownership
  <2>1. OneWriter'
      BY <1>w DEF OneWriter, InWriteTo
  <2>2. \A x \in TxTable[ConsumerTable[ConsumerAddr(m)]] : seqOf[x] # seqOf[m]
      BY DEF Entry
  <2>3. MakeOnce' /\ InsertReady'
      BY <2>2, <1>a DEF MakeOnce, InsertReady
  <2>4. Owned' /\ Members'
      BY <1>a DEF Owned, Members, Running
  <2>5. Keys' /\ NoPanic'
      BY DEF Keys, NoPanic
  <2> QED BY <2>1, <2>3, <2>4, <2>5
<1>7. ASSUME NEW m \in Tx, PutDuplicate(m) PROVE Ownership'
    BY <1>f, <1>7, OwnershipMove
       DEF PutDuplicate, tableVars, callerVars, PcValues, Running, InWriteTo
<1>8. ASSUME NEW m \in Tx, Insert(m) PROVE Ownership'
  <2> USE <1>8, <1>f DEF Insert, Goto, callerVars, TypeOK, Ownership
  <2> DEFINE t == table[m]
  <2>1. /\ t \in Tx /\ t = ConsumerTable[ConsumerAddr(m)]
        /\ \A x \in TxTable[t] : seqOf[x] # seqOf[m]
      BY DEF InsertReady, Filing, HolderFiled
  <2>2. TxTable' = [TxTable EXCEPT ![t] = @ \cup {m}]
    <3>1. Entry(t, seqOf[m]) = {}
        BY <2>1 DEF Entry
    <3>2. (TxTable[t] \ Entry(t, seqOf[m])) \cup {m} = TxTable[t] \cup {m}
        BY <3>1
    <3> QED BY <3>2
  <2>3. OneWriter'
      BY <1>w DEF OneWriter, InWriteTo
  <2>4. \A x \in Tx : pc'[x] # "insert"
      BY <1>w DEF InWriteTo
  <2>5. MakeOnce' /\ InsertReady'
      BY <2>4, <1>a DEF MakeOnce, InsertReady
  <2>6. Owned'
      BY <2>1, <2>2, <1>a DEF Owned
  <2>7. Members'
      BY <2>1, <2>2, <1>a DEF Members, Running
  <2>8. Keys' /\ NoPanic'
      BY <2>1, <2>2 DEF Keys, NoPanic
  <2> QED BY <2>3, <2>5, <2>6, <2>7, <2>8
<1>9. ASSUME NEW m \in Tx, WriteToUDP(m) PROVE Ownership'
    BY <1>f, <1>9, OwnershipMove
       DEF WriteToUDP, tableVars, callerVars, PcValues, Running, InWriteTo
<1>10. ASSUME NEW m \in Tx, WriteError(m) PROVE Ownership'
    BY <1>f, <1>10, OwnershipMove
       DEF WriteError, Return, tableVars, callerVars, PcValues, Running, InWriteTo
<1>11. ASSUME NEW m \in Tx, Timeout(m) PROVE Ownership'
  <2>1. Goto(m, "write") \/ Goto(m, "ended")
      BY <1>11 DEF Timeout, NextIteration, Return
  <2> QED BY <1>f, <1>11, <2>1, OwnershipMove
             DEF Timeout, tableVars, callerVars, PcValues, Running, InWriteTo
<1>12. ASSUME NEW m \in Tx, Receive(m) PROVE Ownership'
  <2>1. Goto(m, "write") \/ Goto(m, "ended")
      BY <1>12 DEF Receive, NextIteration, Return
  <2> QED BY <1>f, <1>12, <2>1, OwnershipMove
             DEF Receive, tableVars, callerVars, PcValues, Running, InWriteTo
<1>13. ASSUME NEW m \in Tx, Remove(m) PROVE Ownership'
  <2> DEFINE t == ConsumerTable[ConsumerAddr(m)]
  <2>1. /\ FindTransaction(ConsumerAddr(m), seqOf[m]) = {m}
        /\ t \in Tx
      BY <1>13, OwnerFound DEF Remove, Running
  <2>2. {x \in TxTable[t] : seqOf[x] # seqOf[m]} = TxTable[t] \ {m}
      BY <2>1, TxAssumption DEF FindTransaction, Entry
  <2> USE <1>13, <1>f DEF Remove, Goto, callerVars, TypeOK, Ownership
  <2>3. TxTable' = [TxTable EXCEPT ![t] = @ \ {m}]
      BY <2>1, <2>2
  <2>4. \A u \in Tx : m \notin TxTable'[u]
      BY <2>1, <2>3 DEF Members
  <2>5. OneWriter' /\ MakeOnce'
      BY <1>a DEF OneWriter, MakeOnce, InWriteTo
  <2>6. \A u \in Tx : TxTable'[u] \subseteq TxTable[u]
      BY <2>3
  <2>7. InsertReady'
    <3> SUFFICES ASSUME NEW x \in Tx, pc'[x] = "insert"
                 PROVE  /\ table'[x] = ConsumerTable'[ConsumerAddr(x)]
                        /\ \A y \in TxTable'[table'[x]] : seqOf'[y] # seqOf'[x]
        BY <1>a DEF InsertReady
    <3>1. pc[x] = "insert" /\ table[x] \in Tx
        BY DEF Filing, HolderFiled
    <3> QED BY <3>1, <2>6 DEF InsertReady
  <2>8. Owned'
      BY <2>3, <1>a DEF Owned, Running
  <2>9. Members'
      BY <2>4, <2>6, <1>a DEF Members
  <2>10. Keys' /\ NoPanic'
      BY <2>6 DEF Keys, NoPanic
  <2> QED BY <2>5, <2>7, <2>8, <2>9, <2>10
<1>14. ASSUME NEW m \in Tx, RemoveMissing(m) PROVE Ownership'
    BY <1>14, OwnerFound DEF RemoveMissing, Running
<1>15. ASSUME NEW m \in Tx, ReadResponse(m) \/ ReadResendRequest(m) PROVE Ownership'
    BY <1>f, <1>a, <1>15
       DEF ReadResponse, ReadResendRequest, callerVars, tableVars, Ownership, OneWriter,
           MakeOnce, InsertReady, Owned, Members, Keys, NoPanic
<1>16. ASSUME NEW m \in Tx, ReadNewRequest(m) PROVE Ownership'
    BY <1>f, <1>16, OwnershipMove
       DEF ReadNewRequest, tableVars, callerVars, PcValues, Running, InWriteTo
<1>17. CASE UNCHANGED vars
    BY <1>f, <1>a, <1>17
       DEF vars, Ownership, OneWriter, MakeOnce, InsertReady, Owned, Members, Keys, NoPanic
<1> QED
    BY <1>1, <1>2, <1>3, <1>4, <1>5, <1>6, <1>7, <1>8, <1>9, <1>10, <1>11, <1>12, <1>13,
       <1>14, <1>15, <1>16, <1>17
       DEF Next, Caller, Lifecycle, Reader, ReadError

LEMMA OwnershipInvariant ==
    ASSUME Serialized
    PROVE  Spec => []Ownership
<1>1. Ownership /\ [Next]_vars => Ownership'
    BY OwnershipStep
<1> QED BY <1>1, OwnershipInit, PTL DEF Spec

\* With WriteTo serialized a running transaction is what its key leads to, and
\* RemoveTransaction always finds it (PutTransaction, RemoveTransaction).
THEOREM EntryOwned ==
    ASSUME Serialized
    PROVE  Spec => [](OwnsEntry /\ NoPanic)
<1>1. Ownership => OwnsEntry /\ NoPanic
    BY OwnerFound DEF OwnsEntry, Ownership
<1> QED BY <1>1, OwnershipInvariant, PTL

\* Under the same condition RemoveTransaction always finds the transaction it
\* removes, so its error branch, which dereferences nil, is never taken.
THEOREM NeverPanics ==
    ASSUME Serialized
    PROVE  Spec => []NoPanic
<1>1. Ownership => NoPanic
    BY DEF Ownership
<1> QED BY <1>1, OwnershipInvariant, PTL

\* As long as the counter of getSeqNumber stays below the 24 bits of the
\* header, the response to a waiting request is handed to that request.
THEOREM ResponsesFind ==
    ASSUME Serialized
    PROVE  Spec => []((\A m \in Tx : seqOf[m] < SeqLimit) => ResponseFindsRequest)
<1>1. Ownership => ((\A m \in Tx : seqOf[m] < SeqLimit) => ResponseFindsRequest)
  <2> SUFFICES ASSUME Ownership, \A m \in Tx : seqOf[m] < SeqLimit,
                      NEW m \in Requests, pc[m] = "select"
               PROVE  FindTransaction(Local, Wire(seqOf[m])) = {m}
      BY DEF ResponseFindsRequest
  <2>1. m \in Tx /\ seqOf[m] \in Nat /\ seqOf[m] < SeqLimit
      BY DEF Tx, Ownership, Filing, TypeOK
  <2>2. Wire(seqOf[m]) = seqOf[m]
      BY <2>1, TxAssumption DEF Wire
  <2>3. ConsumerAddr(m) = Local
      BY DEF ConsumerAddr
  <2> QED BY <2>1, <2>2, <2>3, OwnerFound DEF Running
<1> QED BY <1>1, OwnershipInvariant, PTL

-----------------------------------------------------------------------------
(* Refinement of PfcpExchange, with or without Serialized: Filing is enough.*)

\* A step that moves one transaction moves the exchange of a request by one
\* step of PfcpExchange, or not at all.
LEMMA AbstractMove ==
    ASSUME TypeOK, TypeOK', NEW m \in Tx,
           \A x \in Tx \ {m} : pc'[x] = pc[x] /\ answered'[x] = answered[x],
           m \in Requests =>
               \/ Status(m)' = Status(m)
               \/ Status(m) = "new" /\ Status(m)' \in {"pending", "failed"}
               \/ Status(m) = "pending" /\ Status(m)' \in {"answered", "failed"}
    PROVE  [Exchange!Next]_Abstract
<1>1. \A x \in Requests \ {m} : Status(x)' = Status(x)
    BY DEF Status, Tx
<1>2. CASE m \notin Requests
    BY <1>1, <1>2 DEF Abstract
<1>3. CASE m \in Requests /\ Status(m)' = Status(m)
    BY <1>1, <1>3 DEF Abstract
<1>4. CASE m \in Requests /\ Status(m)' # Status(m)
  <2>1. Abstract' = [Abstract EXCEPT ![m] = Status(m)']
      BY <1>1, <1>4 DEF Abstract
  <2>2. Abstract[m] = Status(m)
      BY <1>4 DEF Abstract
  <2>3. Exchange!Issue(m) \/ Exchange!Answer(m) \/ Exchange!Fail(m)
      BY <1>4, <2>1, <2>2
         DEF Exchange!Issue, Exchange!Answer, Exchange!Fail, Exchange!Move, Abstract
  <2> QED BY <1>4, <2>3 DEF Exchange!Next
<1> QED BY <1>2, <1>3, <1>4

LEMMA AbstractStep == Filing /\ [Next]_vars => [Exchange!Next]_Abstract
<1> SUFFICES ASSUME Filing, [Next]_vars PROVE [Exchange!Next]_Abstract
    OBVIOUS
<1>t. TypeOK /\ TypeOK'
    BY TypeStep DEF Filing
<1>o. ASSUME NEW m \in Tx, NEW l \in PcValues, Goto(m, l)
      PROVE  pc'[m] = l /\ \A x \in Tx \ {m} : pc'[x] = pc[x]
    BY <1>t, <1>o DEF Goto, TypeOK
\* A caller's or handler's step, before the transaction runs.
<1>1. ASSUME NEW m \in Tx, Caller(m) \/ ReadNewRequest(m)
      PROVE  [Exchange!Next]_Abstract
  <2>1. /\ answered' = answered
        /\ pc[m] \in {"idle", "seq", "handler", "put", "make", "insert"}
        /\ \E l \in {"seq", "handler", "put", "make", "insert", "dropped", "write"} :
              Goto(m, l)
      BY <1>1 DEF Caller, LoadSeq, StoreSeq, SendResponse, PutNoTable, MakeTable, PutFree,
                  PutDuplicate, Insert, ReadNewRequest
  <2>2. answered[m] = 0
      BY <2>1 DEF Filing, AnsweredEnded
  <2>3. PICK l \in {"seq", "handler", "put", "make", "insert", "dropped", "write"} :
            pc'[m] = l /\ \A x \in Tx \ {m} : pc'[x] = pc[x]
      BY <2>1, <1>o DEF PcValues
  <2>4. Status(m) = "new" /\ Status(m)' \in {"new", "pending", "failed"}
      BY <2>1, <2>2, <2>3 DEF Status
  <2> QED BY <1>t, <2>1, <2>3, <2>4, AbstractMove
\* A step within Start that is not the receipt of an event.
<1>2. ASSUME NEW m \in Tx, WriteToUDP(m) \/ WriteError(m) \/ Timeout(m)
      PROVE  [Exchange!Next]_Abstract
  <2>1. /\ answered' = answered
        /\ pc[m] \in {"write", "select"}
        /\ \E l \in {"write", "select", "ended"} : Goto(m, l)
      BY <1>2 DEF WriteToUDP, WriteError, Timeout, NextIteration, Return
  <2>2. answered[m] = 0
      BY <2>1 DEF Filing, AnsweredEnded
  <2>3. PICK l \in {"write", "select", "ended"} :
            pc'[m] = l /\ \A x \in Tx \ {m} : pc'[x] = pc[x]
      BY <2>1, <1>o DEF PcValues
  <2>4. Status(m) = "pending" /\ Status(m)' \in {"pending", "failed"}
      BY <2>1, <2>2, <2>3 DEF Status
  <2> QED BY <1>t, <2>1, <2>3, <2>4, AbstractMove
<1>3. ASSUME NEW m \in Tx, Receive(m) PROVE [Exchange!Next]_Abstract
  <2>1. /\ pc[m] = "select"
        /\ \E l \in {"write", "ended"} : Goto(m, l)
        /\ answered' = IF event = "ReceiveValidResponse"
                       THEN [answered EXCEPT ![m] = @ + 1] ELSE answered
      BY <1>3 DEF Receive, NextIteration, Return
  <2>2. answered[m] = 0
      BY <2>1 DEF Filing, AnsweredEnded
  <2>3. PICK l \in {"write", "ended"} : pc'[m] = l /\ \A x \in Tx \ {m} : pc'[x] = pc[x]
      BY <2>1, <1>o DEF PcValues
  <2>4. /\ \A x \in Tx \ {m} : answered'[x] = answered[x]
        /\ m \in Requests => answered'[m] = 1
      BY <1>t, <1>3, <2>1, <2>2, TxAssumption DEF TypeOK, Receive, Filing, EventFitsTx, Tx
  <2>5. m \in Requests => Status(m) = "pending" /\ Status(m)' = "answered"
      BY <2>1, <2>2, <2>4 DEF Status
  <2> QED BY <1>t, <2>3, <2>4, <2>5, AbstractMove
<1>4. ASSUME NEW m \in Tx, Remove(m) \/ RemoveMissing(m)
      PROVE  [Exchange!Next]_Abstract
  <2>1. answered' = answered /\ pc[m] = "ended" /\ Goto(m, "done")
      BY <1>4 DEF Remove, RemoveMissing
  <2>2. pc'[m] = "done" /\ \A x \in Tx \ {m} : pc'[x] = pc[x]
      BY <2>1, <1>o DEF PcValues
  <2>3. Status(m)' = Status(m)
      BY <2>1, <2>2 DEF Status
  <2> QED BY <1>t, <2>1, <2>2, <2>3, AbstractMove
<1>5. ASSUME NEW m \in Tx, ReadResponse(m) \/ ReadResendRequest(m)
      PROVE  [Exchange!Next]_Abstract
    BY <1>5 DEF ReadResponse, ReadResendRequest, Abstract, Status
<1>6. CASE UNCHANGED vars
    BY <1>6 DEF vars, Abstract, Status
<1> QED
    BY <1>1, <1>2, <1>3, <1>4, <1>5, <1>6 DEF Next, Lifecycle, Reader, ReadError

\* The layer refines the exchange its users rely on: whatever callers,
\* handlers, timers and the network do, a request is issued once, answered at
\* most once and never after it was given up (Start, ReadFrom).
THEOREM RefinesExchange == Spec => Exchange!Safety
<1>1. Init => Exchange!Init
    BY DEF Init, Exchange!Init, Abstract, Status, Tx
<1>2. Filing /\ [Next]_vars => [Exchange!Next]_Abstract
    BY AbstractStep
<1> QED BY <1>1, <1>2, FilingInvariant, PTL DEF Spec, Exchange!Safety
=============================================================================
