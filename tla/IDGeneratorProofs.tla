------------------------- MODULE IDGeneratorProofs -------------------------
(***************************************************************************)
(* For every range and every set of clients: ids are never shared, and     *)
(* Allocate refuses only when the range is exhausted.                      *)
(***************************************************************************)
EXTENDS IDGenerator, TLAPS

\* The cyclic scan stays within the offsets.
LEMMA ModInRange ==
    ASSUME NEW a \in Int
    PROVE  a % valueRange \in Offsets
BY RangeAssumption, SMT DEF valueRange, Offsets

\* Below valueRange the modulus changes nothing; in the next period it
\* subtracts valueRange once.
LEMMA ModSmall ==
    ASSUME NEW a \in Int, 0 <= a, a < valueRange + valueRange
    PROVE  a % valueRange = IF a < valueRange THEN a ELSE a - valueRange
BY RangeAssumption, SMT DEF valueRange

\* The scan of Allocate reaches every offset, wherever it begins.
LEMMA ScanCovers ==
    ASSUME offset \in Offsets, NEW o \in Offsets
    PROVE  \E k \in Offsets : Scanned(k) = o
<1> DEFINE k == IF o >= offset THEN o - offset ELSE o - offset + valueRange
<1>0. valueRange \in Int /\ offset \in Int /\ o \in Int
  BY RangeAssumption DEF valueRange, Offsets
<1>1. k \in Offsets
  BY <1>0 DEF Offsets
<1>2. (offset + k) % valueRange = o
  BY <1>0, <1>1, ModSmall DEF Offsets
<1>3. QED
  BY <1>1, <1>2 DEF Scanned

-----------------------------------------------------------------------------

\* The inductive invariant: usedMap alone does not say who holds an id, and
\* held alone does not say where the scan may stop, so the two are tied.
IInv == TypeOK /\ UniqueIds /\ UsedIffHeld

LEMMA InitIInv == Init => IInv
<1> SUFFICES ASSUME Init PROVE IInv
  OBVIOUS
<1>1. TypeOK
  <2>1. 0 \in Offsets
    BY RangeAssumption DEF Offsets, valueRange
  <2>2. QED
    BY <2>1 DEF Init, TypeOK
<1>2. \A c \in Clients : held[c] = {}
  BY DEF Init
<1>3. UniqueIds
  BY <1>2 DEF UniqueIds
<1>4. UsedIffHeld
  BY <1>2 DEF UsedIffHeld, Init
<1>5. QED
  BY <1>1, <1>3, <1>4 DEF IInv

\* Taking a free offset: nobody held its id before.
LEMMA AllocateIInv ==
    ASSUME IInv, NEW c \in Clients, AllocateOk(c)
    PROVE  IInv'
<1> USE DEF IInv
<1>1. PICK k \in Offsets :
          /\ Scanned(k) \notin usedMap
          /\ usedMap' = usedMap \cup {Scanned(k)}
          /\ offset' = updateOffset(Scanned(k))
          /\ held' = [held EXCEPT ![c] = @ \cup {Scanned(k) + minValue}]
          /\ refused' = FALSE
  BY DEF AllocateOk
<1> DEFINE s == Scanned(k)
<1>2. s \in Offsets
  BY ModInRange, RangeAssumption DEF Scanned, TypeOK, Offsets, valueRange
<1>3. s + minValue \in Ids
  BY <1>2, RangeAssumption DEF Offsets, Ids, valueRange
<1>4. \A d \in Clients : s + minValue \notin held[d]
  BY <1>1, <1>2 DEF UsedIffHeld
<1>5. TypeOK'
  <2>1. offset' \in Offsets
    BY <1>1, <1>2, ModInRange, RangeAssumption DEF updateOffset, Offsets, valueRange
  <2>2. QED
    BY <1>1, <1>2, <1>3, <2>1 DEF TypeOK
<1>6. UniqueIds'
  BY <1>1, <1>4 DEF UniqueIds, TypeOK
<1>7. UsedIffHeld'
  <2>1. ASSUME NEW o \in Offsets
        PROVE  o \in usedMap' <=> \E d \in Clients : o + minValue \in held'[d]
    <3>1. CASE o = s
      BY <1>1, <3>1 DEF TypeOK
    <3>2. CASE o # s
      <4>1. o + minValue # s + minValue
        BY <1>2, <3>2, RangeAssumption DEF Offsets
      <4>2. \A d \in Clients : o + minValue \in held'[d] <=> o + minValue \in held[d]
        BY <1>1, <4>1 DEF TypeOK
      <4>3. QED
        BY <1>1, <3>2, <4>2 DEF UsedIffHeld
    <3>3. QED
      BY <3>1, <3>2
  <2>2. QED
    BY <2>1 DEF UsedIffHeld, Offsets, valueRange
<1>8. QED
  BY <1>5, <1>6, <1>7

\* Freeing an id: by UniqueIds no other client holds it, so dropping it from
\* usedMap releases nobody else's id.
LEMMA FreeIInv ==
    ASSUME IInv, NEW c \in Clients, NEW id \in held[c], FreeID(c, id)
    PROVE  IInv'
<1> USE DEF IInv
<1>1. /\ usedMap' = usedMap \ {id - minValue}
      /\ held' = [held EXCEPT ![c] = @ \ {id}]
      /\ refused' = FALSE
      /\ offset' = offset
  BY DEF FreeID
<1>2. id \in Ids
  BY DEF TypeOK
<1>3. TypeOK'
  BY <1>1 DEF TypeOK
<1>4. UniqueIds'
  BY <1>1 DEF UniqueIds, TypeOK
<1>5. UsedIffHeld'
  <2>1. ASSUME NEW o \in Offsets
        PROVE  o \in usedMap' <=> \E d \in Clients : o + minValue \in held'[d]
    <3>0. o + minValue = id <=> o = id - minValue
      BY <1>2, RangeAssumption DEF Offsets, Ids
    <3>1. CASE o = id - minValue
      BY <1>1, <3>0, <3>1 DEF TypeOK, UniqueIds
    <3>2. CASE o # id - minValue
      <4>1. \A d \in Clients : o + minValue \in held'[d] <=> o + minValue \in held[d]
        BY <1>1, <3>0, <3>2 DEF TypeOK
      <4>2. QED
        BY <1>1, <3>2, <4>1 DEF UsedIffHeld
    <3>3. QED
      BY <3>1, <3>2
  <2>2. QED
    BY <2>1 DEF UsedIffHeld, Offsets, valueRange
<1>6. QED
  BY <1>3, <1>4, <1>5

LEMMA NextIInv == IInv /\ [Next]_vars => IInv'
<1> SUFFICES ASSUME IInv, [Next]_vars PROVE IInv'
  OBVIOUS
<1>1. ASSUME NEW c \in Clients, AllocateOk(c) PROVE IInv'
  BY <1>1, AllocateIInv
<1>2. ASSUME NEW c \in Clients, AllocateErr(c) PROVE IInv'
  BY <1>2 DEF AllocateErr, IInv, TypeOK, UniqueIds, UsedIffHeld, Offsets, valueRange
<1>3. ASSUME NEW c \in Clients, NEW id \in held[c], FreeID(c, id) PROVE IInv'
  BY <1>3, FreeIInv
<1>4. CASE UNCHANGED vars
  BY <1>4 DEF vars, IInv, TypeOK, UniqueIds, UsedIffHeld, Offsets, valueRange
<1>5. QED
  BY <1>1, <1>2, <1>3, <1>4 DEF Next

\* The fields keep their types for every range and client set.
THEOREM TypeCorrect == Spec => []TypeOK
<1>1. IInv => TypeOK
  BY DEF IInv
<1>2. QED
  BY <1>1, InitIInv, NextIInv, PTL DEF Spec

\* No id is ever handed to a second client while the first still holds it,
\* for every range [minValue, maxValue] and any number of goroutines.
THEOREM IdsAreUnique == Spec => []UniqueIds
<1>1. IInv => UniqueIds
  BY DEF IInv
<1>2. QED
  BY <1>1, InitIInv, NextIInv, PTL DEF Spec

\* usedMap never leaks an id and never forgets one that is held.
THEOREM UsedMapExact == Spec => []UsedIffHeld
<1>1. IInv => UsedIffHeld
  BY DEF IInv
<1>2. QED
  BY <1>1, InitIInv, NextIInv, PTL DEF Spec

\* Allocate returns its error only when every id of the range is held.
THEOREM RefusalMeansFull == Spec => []RefusedOnlyWhenFull
<1> DEFINE Inv == IInv /\ RefusedOnlyWhenFull
<1>1. Init => RefusedOnlyWhenFull
  BY DEF Init, RefusedOnlyWhenFull
<1>2. IInv /\ RefusedOnlyWhenFull /\ [Next]_vars => RefusedOnlyWhenFull'
  <2> SUFFICES ASSUME IInv, RefusedOnlyWhenFull, [Next]_vars
               PROVE  RefusedOnlyWhenFull'
    OBVIOUS
  <2>1. ASSUME NEW c \in Clients, AllocateErr(c) PROVE RefusedOnlyWhenFull'
    <3>1. ASSUME NEW id \in Ids PROVE \E d \in Clients : id \in held'[d]
      <4>1. id - minValue \in Offsets /\ (id - minValue) + minValue = id
        BY RangeAssumption DEF Ids, Offsets, valueRange
      <4>2. id - minValue \in usedMap
        BY <2>1, <4>1, ScanCovers DEF AllocateErr, IInv, TypeOK
      <4>3. \E d \in Clients : id \in held[d]
        BY <4>1, <4>2 DEF IInv, UsedIffHeld
      <4>4. QED
        BY <2>1, <4>3 DEF AllocateErr
    <3>2. QED
      BY <3>1 DEF RefusedOnlyWhenFull, Ids
  <2>2. ASSUME NEW c \in Clients, AllocateOk(c) PROVE RefusedOnlyWhenFull'
    BY <2>2 DEF AllocateOk, RefusedOnlyWhenFull
  <2>3. ASSUME NEW c \in Clients, NEW id \in held[c], FreeID(c, id)
        PROVE  RefusedOnlyWhenFull'
    BY <2>3 DEF FreeID, RefusedOnlyWhenFull
  <2>4. CASE UNCHANGED vars
    BY <2>4 DEF vars, RefusedOnlyWhenFull, Ids
  <2>5. QED
    BY <2>1, <2>2, <2>3, <2>4 DEF Next
<1>3. QED
  BY <1>1, <1>2, InitIInv, NextIInv, PTL DEF Spec
=============================================================================
