---------------------------- MODULE IDGenerator ----------------------------
(***************************************************************************)
(* lib/idgenerator: the mutex-protected allocator behind every numeric     *)
(* identifier of the network functions (PDR, FAR, BAR and path ids and     *)
(* TEIDs of the SMF, NGAP ids and TMSIs of the AMF, SPIs and TEIDs of the  *)
(* N3IWF).  Every exported method runs under idGenerator.lock from its     *)
(* first to its last statement, so a call is one step.                     *)
(***************************************************************************)
EXTENDS Integers

CONSTANTS minValue, maxValue,   \* arguments of NewGenerator
          Clients               \* goroutines that share the generator

ASSUME RangeAssumption ==
    /\ minValue \in Int
    /\ maxValue \in Int
    /\ minValue <= maxValue

VARIABLES offset,     \* idGenerator.offset: where the next scan begins
          usedMap,    \* the keys of idGenerator.usedMap (offsets, not ids)
          held,       \* per client, the ids Allocate gave it and it did not free
          refused     \* the last call was an Allocate that returned err

vars == <<offset, usedMap, held, refused>>

valueRange == maxValue - minValue + 1
Offsets    == 0 .. valueRange - 1
Ids        == minValue .. maxValue

Init ==
    /\ offset = 0
    /\ usedMap = {}
    /\ held = [c \in Clients |-> {}]
    /\ refused = FALSE

updateOffset(o) == (o + 1) % valueRange

\* Mutant: the scan forgets to wrap and never looks below offsetBegin.
NoWrapScanned(k) == IF offset + k < valueRange THEN offset + k ELSE offset

\* The k-th offset the scan of Allocate looks at.
Scanned(k) == (offset + k) % valueRange

\* Mutant: the scan's check of usedMap is dropped.
UncheckedAllocateOk(c) ==
    /\ usedMap' = usedMap \cup {offset}
    /\ offset' = updateOffset(offset)
    /\ held' = [held EXCEPT ![c] = @ \cup {offset + minValue}]
    /\ refused' = FALSE

\* Mutant: the offset is not brought back into 0 .. valueRange - 1.
UnreducedAllocateOk(c) ==
    \E k \in Offsets :
        /\ Scanned(k) \notin usedMap
        /\ \A j \in 0 .. k - 1 : Scanned(j) \in usedMap
        /\ usedMap' = usedMap \cup {Scanned(k)}
        /\ offset' = Scanned(k) + 1
        /\ held' = [held EXCEPT ![c] = @ \cup {Scanned(k) + minValue}]
        /\ refused' = FALSE

\* The scan stops at the first free offset, which is then taken.
AllocateOk(c) ==
    \E k \in Offsets :
        /\ Scanned(k) \notin usedMap
        /\ \A j \in 0 .. k - 1 : Scanned(j) \in usedMap
        /\ usedMap' = usedMap \cup {Scanned(k)}
        /\ offset' = updateOffset(Scanned(k))
        /\ held' = [held EXCEPT ![c] = @ \cup {Scanned(k) + minValue}]
        /\ refused' = FALSE

\* The scan is back at offsetBegin: "No available value range to allocate id".
AllocateErr(c) ==
    /\ \A k \in Offsets : Scanned(k) \in usedMap
    /\ refused' = TRUE
    /\ UNCHANGED <<offset, usedMap, held>>

\* Mutant: the key is the id itself, not the id less minValue.
UnshiftedFreeID(c, id) ==
    /\ id \in held[c]
    /\ usedMap' = usedMap \ {id}
    /\ held' = [held EXCEPT ![c] = @ \ {id}]
    /\ refused' = FALSE
    /\ UNCHANGED offset

\* A holder gives an id back; the offset does not move, so the id is handed
\* out again only when the scan comes round to it.
FreeID(c, id) ==
    /\ id \in held[c]
    /\ usedMap' = usedMap \ {id - minValue}
    /\ held' = [held EXCEPT ![c] = @ \ {id}]
    /\ refused' = FALSE
    /\ UNCHANGED offset

Next ==
    \E c \in Clients :
        \/ AllocateOk(c)
        \/ AllocateErr(c)
        \/ \E id \in held[c] : FreeID(c, id)

Spec == Init /\ [][Next]_vars

-----------------------------------------------------------------------------

\* The types of the generator's fields; offset stays inside the range, so
\* updateOffset's modulus is always taken.
TypeOK ==
    /\ offset \in Offsets
    /\ usedMap \in SUBSET Offsets
    /\ held \in [Clients -> SUBSET Ids]
    /\ refused \in BOOLEAN

\* No id is held by two clients at once, whatever the order in which they
\* allocate and free (Allocate, FreeID): "It is thread-safe when allocating
\* IDs".
UniqueIds ==
    \A c, d \in Clients : c # d => held[c] \cap held[d] = {}

\* Allocate fails only when every id of [minValue, maxValue] is held by some
\* client: the cyclic scan misses no free id wherever it begins.
RefusedOnlyWhenFull ==
    refused => \A id \in Ids : \E c \in Clients : id \in held[c]

\* usedMap is exactly the ids in use, shifted by minValue: no id leaks and
\* none is free while somebody still holds it (Allocate, FreeID).
UsedIffHeld ==
    \A o \in Offsets : o \in usedMap <=> \E c \in Clients : o + minValue \in held[c]
=============================================================================
