---------------------------- MODULE SmfUpfProofs ----------------------------
(***************************************************************************)
(* Proofs about SmfUpf, for any number of UPFs and sessions: answers reach *)
(* the session they are for, rule identifiers are neither given twice nor  *)
(* lost but for those of PDRs, and sessions have their own address.        *)
(*                                                                         *)
(* The invariant has one part for each thing the sessions share: the SEID  *)
(* counter (Counting), the address (Addressed), the FAR generators         *)
(* (Pooled) and the rules in the UPFs (Ruled).  A step either leaves all   *)
(* that a part reads alone, or has a lemma for that part.                  *)
(***************************************************************************)
EXTENDS SmfUpf, TLAPS, FiniteSetTheorems, WellFoundedInduction

----------------------------------------------------------------------------
(* The modulus.                                                            *)

LEMMA DivMod ==
    ASSUME NEW n \in Nat, NEW m \in Nat \ {0}
    PROVE  n \div m \in Nat /\ n % m \in 0..(m-1) /\ n = m * (n \div m) + (n % m)
    OBVIOUS

LEMMA Multiple ==
    ASSUME NEW m \in Nat \ {0}, NEW q \in Int, NEW d \in Int, d = m * q, -m < d, d < m
    PROVE  d = 0
<1>1. CASE q >= 1
  <2>1. m * q >= m * 1
      BY <1>1
  <2> QED BY <2>1
<1>2. CASE q <= -1
  <2>1. m * q <= m * (-1)
      BY <1>2
  <2> QED BY <2>1
<1>3. CASE q = 0
    BY <1>3
<1> QED BY <1>1, <1>2, <1>3

LEMMA ModUnique ==
    ASSUME NEW n \in Nat, NEW m \in Nat \ {0}, NEW q \in Int, NEW r \in 0..(m-1), n = m * q + r
    PROVE  n % m = r
<1> DEFINE d == (n % m) - r
           p == q - (n \div m)
<1>1. n \div m \in Nat /\ n % m \in 0..(m-1) /\ n = m * (n \div m) + (n % m)
    BY DivMod
<1>2. d = m * p
    BY <1>1
<1>3. d \in Int /\ p \in Int /\ -m < d /\ d < m
    BY <1>1
<1>4. d = 0
    BY <1>2, <1>3, Multiple
<1> QED BY <1>1, <1>4

LEMMA ModNext ==
    ASSUME NEW n \in Nat, NEW m \in Nat \ {0}
    PROVE  ((n % m) + 1) % m = (n + 1) % m
<1> DEFINE q == n \div m
           r == n % m
<1>1. q \in Nat /\ r \in 0..(m-1) /\ n = m * q + r
    BY DivMod
<1> HIDE DEF q, r
<1>2. CASE r + 1 < m
  <2>1. (r + 1) % m = r + 1
      BY <1>1, <1>2, ModUnique
  <2>2. (n + 1) % m = r + 1
    <3>1. n + 1 = m * q + (r + 1) /\ r + 1 \in 0..(m-1) /\ n + 1 \in Nat /\ q \in Int
        BY <1>1, <1>2
    <3> QED BY <3>1, ModUnique
  <2> QED BY <2>1, <2>2 DEF r
<1>3. CASE r + 1 = m
  <2>1. (r + 1) % m = 0
    <3>1. r + 1 = m * 1 + 0 /\ 0 \in 0..(m-1) /\ r + 1 \in Nat /\ 1 \in Int
        BY <1>1, <1>3
    <3> QED BY <3>1, ModUnique
  <2>2. (n + 1) % m = 0
    <3>1. n + 1 = m * (q + 1) + 0 /\ 0 \in 0..(m-1) /\ n + 1 \in Nat /\ q + 1 \in Int
        BY <1>1, <1>3
    <3> QED BY <3>1, ModUnique
  <2> QED BY <2>1, <2>2 DEF r
<1> QED BY <1>1, <1>2, <1>3

LEMMA ModApart ==
    ASSUME NEW a \in Nat, NEW b \in Nat, NEW m \in Nat \ {0}, a < b, b < a + m
    PROVE  a % m # b % m
<1> SUFFICES ASSUME a % m = b % m PROVE FALSE
    OBVIOUS
<1> DEFINE p == a \div m
           q == b \div m
           d == b - a
<1>1. p \in Nat /\ a = m * p + (a % m) /\ a % m \in 0..(m-1)
    BY DivMod
<1>2. q \in Nat /\ b = m * q + (b % m) /\ b % m \in 0..(m-1)
    BY DivMod
<1> HIDE DEF p, q
<1>3. d = m * (q - p) /\ q - p \in Int
    BY <1>1, <1>2
<1>4. d = 0
    BY <1>3, Multiple
<1> QED BY <1>4

LEMMA SmallestOf ==
    ASSUME NEW T \in SUBSET Nat, T # {}
    PROVE  \E n \in T : \A m \in T : n <= m
<1> DEFINE R == OpToRel(<, Nat)
<1>1. IsWellFoundedOn(R, Nat)
    BY NatLessThanWellFounded
<1>2. \A m, n \in Nat : <<m, n>> \in R <=> m < n
    BY DEF OpToRel
<1> HIDE DEF R
<1>3. PICK n \in T : \A m \in T : ~(<<m, n>> \in R)
    BY <1>1, WFMin
<1>4. ASSUME NEW m \in T PROVE n <= m
  <2>1. m \in Nat /\ n \in Nat /\ ~(m < n)
      BY <1>2, <1>3
  <2> QED BY <2>1
<1> QED BY <1>4

----------------------------------------------------------------------------
(* The identifier generator.                                               *)

GenType == [offset : 0..(FarMax - 1), used : SUBSET FarIds]

\* The scan reaches every id.
LEMMA ScanCovers ==
    ASSUME NEW g \in GenType, NEW i \in FarIds
    PROVE  \E k \in 0..(FarMax - 1) : Scanned(g, k) = i
<1> DEFINE o == g.offset
           k == IF i - 1 >= o THEN i - 1 - o ELSE i - 1 - o + FarMax
<1>1. FarMax \in Nat \ {0} /\ o \in 0..(FarMax - 1) /\ i \in 1..FarMax
    BY UpfAssumption DEF GenType, FarIds
<1> HIDE DEF o
<1>2. k \in 0..(FarMax - 1) /\ o + k \in Nat
    BY <1>1
<1>3. (o + k) % FarMax = i - 1
  <2>1. CASE i - 1 >= o
    <3>1. o + k = FarMax * 0 + (i - 1) /\ i - 1 \in 0..(FarMax - 1)
        BY <1>1, <2>1
    <3> HIDE DEF k
    <3> QED BY <1>1, <1>2, <3>1, ModUnique
  <2>2. CASE ~(i - 1 >= o)
    <3>1. o + k = FarMax * 1 + (i - 1) /\ i - 1 \in 0..(FarMax - 1)
        BY <1>1, <2>2
    <3> HIDE DEF k
    <3> QED BY <1>1, <1>2, <3>1, ModUnique
  <2> QED BY <2>1, <2>2
<1>4. Scanned(g, k) = i
    BY <1>1, <1>3 DEF Scanned, o
<1> QED BY <1>2, <1>4

LEMMA ScannedIn ==
    ASSUME NEW g \in GenType, NEW k \in 0..(FarMax - 1)
    PROVE  Scanned(g, k) \in FarIds
<1>1. FarMax \in Nat \ {0} /\ g.offset + k \in Nat
    BY UpfAssumption DEF GenType
<1>2. (g.offset + k) % FarMax \in 0..(FarMax - 1)
    BY <1>1, DivMod
<1> QED BY <1>1, <1>2 DEF Scanned, FarIds

\* While an id is free, the scan stops at one.
LEMMA NextIdIn ==
    ASSUME NEW g \in GenType, HasRoom(g)
    PROVE  NextId(g) \in FarIds \ g.used
<1> DEFINE T == {k \in 0..(FarMax - 1) : Scanned(g, k) \notin g.used}
           First(k) == /\ Scanned(g, k) \notin g.used
                       /\ \A j \in 0..(k - 1) : Scanned(g, j) \in g.used
<1>1. FarMax \in Nat \ {0} /\ g.used \subseteq FarIds
    BY UpfAssumption DEF GenType
<1>2. PICK i \in FarIds : i \notin g.used
  <2> SUFFICES ASSUME FarIds \subseteq g.used PROVE FALSE
      OBVIOUS
  <2>1. g.used = 1..FarMax
      BY <1>1 DEF FarIds
  <2>2. Cardinality(1..FarMax) = FarMax
      BY <1>1, FS_Interval
  <2> QED BY <1>1, <2>1, <2>2 DEF HasRoom
<1>3. T \in SUBSET Nat /\ T # {}
    BY <1>1, <1>2, ScanCovers
<1>4. PICK k \in T : \A j \in T : k <= j
    BY <1>3, SmallestOf
<1>5. k \in 0..(FarMax - 1) /\ First(k)
  <2>1. ASSUME NEW j \in 0..(k - 1) PROVE Scanned(g, j) \in g.used
      BY <1>1, <1>4
  <2> QED BY <1>4, <2>1
<1>6. \E j \in 0..(FarMax - 1) : First(j)
    BY <1>5
<1> DEFINE c == CHOOSE j \in 0..(FarMax - 1) : First(j)
<1>7. c \in 0..(FarMax - 1) /\ First(c)
    BY <1>6, Zenon
<1>8. NextId(g) = Scanned(g, c)
    BY DEF NextId
<1> HIDE DEF c
<1> QED BY <1>7, <1>8, ScannedIn

\* Allocate gives an id that was not in use, or none.
LEMMA AllocateIs ==
    ASSUME NEW g \in GenType
    PROVE  /\ Allocate(g) \in GenType
           /\ Given(g) \subseteq FarIds /\ Given(g) \cap g.used = {}
           /\ Allocate(g).used = g.used \cup Given(g)
<1>1. CASE HasRoom(g)
  <2> DEFINE i == NextId(g)
             o == i % FarMax
  <2>1. i \in FarIds \ g.used /\ g.used \subseteq FarIds
      BY <1>1, NextIdIn DEF GenType
  <2>2. o \in 0..(FarMax - 1)
    <3>1. i \in Nat /\ FarMax \in Nat \ {0}
        BY <2>1, UpfAssumption DEF FarIds
    <3> HIDE DEF i
    <3> QED BY <3>1, DivMod
  <2>3. Allocate(g) = [offset |-> o, used |-> g.used \cup {i}]
      BY <1>1 DEF Allocate
  <2> HIDE DEF i, o
  <2> QED BY <2>1, <2>2, <2>3 DEF GenType, Given
<1>2. CASE ~HasRoom(g)
  <2>1. Allocate(g) = g
      BY <1>2 DEF Allocate
  <2> QED BY <2>1 DEF Given
<1> QED BY <1>1, <1>2

----------------------------------------------------------------------------
(* The invariant.                                                          *)

AllPaths == {PathTo[u] : u \in Upfs}

\* What a context holds at each point of its life.
Shape(x) ==
    /\ x.path \in {<<>>} \cup AllPaths
    /\ x.pc \in {"idle", "addressed"} =>
           x.path = <<>> /\ x.n = 0 /\ \A k \in Hops : x.seid[k] = 0
    /\ x.pc \notin {"idle", "addressed", "failed"} => x.path # <<>>
    /\ x.pc \in {"path", "counted"} => x.n < Len(x.path) /\ (x.n = 1 => x.seid[1] # 0)
    /\ x.pc = "activating" => x.n <= Len(x.path)
    /\ x.pc \in {"activating", "active"} => x.seid[1] # 0
    /\ x.pc \in {"idle", "addressed", "path", "counted"} =>
           \A k \in Hops : x.pdr[k] = {} /\ x.far[k] = {}
    /\ x.pc = "activating" => \A k \in Hops : k > x.n => x.pdr[k] = {} /\ x.far[k] = {}
    /\ x.pc = "released" => x.far[1] = {}

Shaped == \A s \in Sessions : Shape(sm[s])

\* Two sessions inside AllocateLocalSEID have raced; otherwise the counter is
\* beyond every SEID that matters, and SEIDs of sessions that did not race are
\* their own.
Counting ==
    /\ \A s \in Sessions, k \in Hops : sm[s].seid[k] <= seidCount
    /\ \A s, t \in Sessions : s # t /\ sm[s].pc = "counted" /\ sm[t].pc = "counted" => s \in raced
    /\ \A t \in Sessions : sm[t].pc = "counted" =>
           /\ seidCount > 0
           /\ \A s \in Sessions \ raced : \A k \in Hops : sm[s].seid[k] < seidCount
    /\ \A s \in Sessions \ raced : sm[s].pc = "counted" =>
           \A t \in Sessions : \A k \in Hops : sm[t].seid[k] < seidCount
    /\ \A s \in Sessions \ raced : \A t \in Sessions \ {s} : \A k, j \in Hops :
           sm[s].seid[k] # 0 => sm[t].seid[j] # sm[s].seid[k]

Newest(f, n) == (\E s \in Sessions : f[s].born = n) /\ \A s \in Sessions : f[s].born <= n

\* The shared address is the one of the newest session, and what was read in
\* time is the session's own.
Addressed ==
    /\ Sessions # {} => /\ LastBorn \in 0..MaxCreate /\ Newest(sm, LastBorn)
                        /\ addr = LastBorn % AddrMod
    /\ \A s \in Sessions \ late : /\ sm[s].rule \in {NoAddr, sm[s].born % AddrMod}
                                  /\ sm[s].ue \in {NoAddr, sm[s].born % AddrMod}

\* The FAR ids a session has at its access UPF are in use there, and its own.
Pooled ==
    /\ \A s \in Sessions : sm[s].path # <<>> => sm[s].far[1] \subseteq farPool[sm[s].path[1]]
    /\ \A s, t \in Sessions :
           s # t /\ sm[s].path # <<>> /\ sm[t].path # <<>> /\ sm[s].path[1] = sm[t].path[1]
               => sm[s].far[1] \cap sm[t].far[1] = {}

Narrow == \A u \in Upfs : pdrEver[u] \subseteq PdrIds

\* k is a node of the path of context x.
On(x, k) == x.path # <<>> /\ k \in 1..Len(x.path)

\* Unless ids were cut: the PDR ids of a session are its own, and the rules
\* in the UPFs are those of the sessions that are active.
Ruled ==
    /\ \A s \in Sessions : \A k \in Hops : On(sm[s], k) =>
           sm[s].pdr[k] \subseteq pdrEver[sm[s].path[k]]
    /\ \A s, t \in Sessions : \A k, j \in Hops :
           s # t /\ On(sm[s], k) /\ On(sm[t], j) /\ sm[s].path[k] = sm[t].path[j]
               => sm[s].pdr[k] \cap sm[t].pdr[j] = {}
    /\ \A u \in Upfs, i \in PdrIds : rules[u][i] # NoSession => i \in pdrEver[u]
    /\ \A s \in Sessions : \A k \in Hops : On(sm[s], k) /\ sm[s].pc = "activating" =>
           \A i \in sm[s].pdr[k] : rules[sm[s].path[k]][i] = NoSession
    /\ \A s \in Sessions : \A k \in Hops : On(sm[s], k) /\ sm[s].pc = "active" =>
           \A i \in sm[s].pdr[k] : rules[sm[s].path[k]][i] = s

Inv ==
    /\ TypeOK /\ Shaped
    /\ Counting /\ RoutedBySeid
    /\ Addressed
    /\ Pooled /\ OnlyPdrIdsLost
    /\ Narrow => Ruled
    /\ OwnAssociation

----------------------------------------------------------------------------
(* What a step that leaves a part alone does to it.                        *)

\* SmType with names for the types of the fields.
SmPaths == {<<>>} \cup {<<u>> : u \in Upfs} \cup {<<u, v>> : u, v \in Upfs}
SmSteps == 0..2
SmBirths == 0..MaxCreate
SmSeids == [Hops -> Seids \cup {0}]
SmPdrs == [Hops -> SUBSET PdrIds]
SmFars == [Hops -> SUBSET FarIds]
SmAddrs == Addresses \cup {NoAddr}

SmFields == [pc : Labels, path : SmPaths, n : SmSteps, born : SmBirths, seid : SmSeids,
             pdr : SmPdrs, far : SmFars, noDl : BOOLEAN, est : BOOLEAN,
             rule : SmAddrs, ue : SmAddrs]

LEMMA SmTypeIs == SmType = SmFields
    BY DEF SmType, SmFields, SmPaths, SmSteps, SmBirths, SmSeids, SmPdrs, SmFars, SmAddrs

LEMMA Types ==
    ASSUME NEW x \in SmType
    PROVE  /\ x.pc \in Labels
           /\ x.path \in {<<>>} \cup {<<u>> : u \in Upfs} \cup {<<u, v>> : u, v \in Upfs}
           /\ x.n \in 0..2
           /\ x.born \in 0..MaxCreate /\ x.born \in Nat
           /\ x.seid \in [Hops -> Seids \cup {0}]
           /\ \A k \in Hops : x.seid[k] \in Nat
           /\ x.pdr \in [Hops -> SUBSET PdrIds] /\ x.far \in [Hops -> SUBSET FarIds]
           /\ x.noDl \in BOOLEAN /\ x.est \in BOOLEAN
           /\ x.rule \in Addresses \cup {NoAddr} /\ x.ue \in Addresses \cup {NoAddr}
<1>1. /\ x.pc \in Labels
      /\ x.path \in {<<>>} \cup {<<u>> : u \in Upfs} \cup {<<u, v>> : u, v \in Upfs}
      /\ x.n \in 0..2 /\ x.born \in 0..MaxCreate
      /\ x.seid \in [Hops -> Seids \cup {0}]
      /\ x.pdr \in [Hops -> SUBSET PdrIds] /\ x.far \in [Hops -> SUBSET FarIds]
      /\ x.noDl \in BOOLEAN /\ x.est \in BOOLEAN
      /\ x.rule \in Addresses \cup {NoAddr} /\ x.ue \in Addresses \cup {NoAddr}
    BY DEF SmType
<1>2. x.born \in Nat /\ \A k \in Hops : x.seid[k] \in Nat
    BY <1>1, UpfAssumption DEF Seids
<1> QED BY <1>1, <1>2

LEMMA PathIs ==
    ASSUME NEW p \in AllPaths
    PROVE  /\ p \in {<<u>> : u \in Upfs} \cup {<<u, v>> : u, v \in Upfs}
           /\ Len(p) \in Hops /\ p # <<>>
           /\ 1 \in 1..Len(p)
           /\ \A k \in 1..Len(p) : k \in Hops /\ p[k] \in Upfs
<1>1. p \in {<<u>> : u \in Upfs} \cup {<<u, v>> : u, v \in Upfs}
    BY UpfAssumption DEF AllPaths
<1>2. CASE \E u \in Upfs : p = <<u>>
    BY <1>1, <1>2 DEF Hops
<1>3. CASE \E u, v \in Upfs : p = <<u, v>>
    BY <1>1, <1>3 DEF Hops
<1> QED BY <1>1, <1>2, <1>3

LEMMA Turn ==
    ASSUME TypeOK, NEW s \in Sessions, NEW y \in SmType, Put(s, y)
    PROVE  /\ sm' \in [Sessions -> SmType] /\ sm'[s] = y
           /\ \A t \in Sessions : t # s => sm'[t] = sm[t]
    BY DEF TypeOK, Put

LEMMA ShapedTurn ==
    ASSUME TypeOK, Shaped, NEW s \in Sessions, NEW y \in SmType, Put(s, y), Shape(y)
    PROVE  Shaped'
    BY Turn DEF Shaped

LEMMA CountingSame ==
    ASSUME Counting, RoutedBySeid, UNCHANGED seidv,
           \A t \in Sessions : /\ \A k \in Hops : sm'[t].seid[k] = sm[t].seid[k]
                               /\ sm'[t].pc = "counted" => sm[t].pc = "counted"
    PROVE  Counting' /\ RoutedBySeid'
<1>1. seidCount' = seidCount /\ seidMap' = seidMap /\ raced' = raced
    BY DEF seidv
<1>2. RoutedBySeid'
    BY <1>1 DEF RoutedBySeid
<1>3. Counting'
    BY <1>1 DEF Counting
<1> QED BY <1>2, <1>3

\* LastBorn is the greatest of the numbers.
LEMMA LastBornIs ==
    ASSUME NEW f, \A s \in Sessions : f[s].born \in Nat, NEW n \in 0..MaxCreate, Newest(f, n)
    PROVE  (CHOOSE m \in 0..MaxCreate : /\ \E s \in Sessions : f[s].born = m
                                        /\ \A s \in Sessions : f[s].born <= m) = n
<1> DEFINE P(m) == /\ \E s \in Sessions : f[s].born = m
                   /\ \A s \in Sessions : f[s].born <= m
           c == CHOOSE m \in 0..MaxCreate : P(m)
<1>1. P(n)
    BY DEF Newest
<1>2. c \in 0..MaxCreate /\ P(c)
    BY <1>1, Zenon
<1> HIDE DEF c
<1>3. c = n
  <2>1. n \in Nat /\ c \in Nat
      BY <1>2, UpfAssumption
  <2>2. c <= n /\ n <= c
      BY <1>1, <1>2
  <2> QED BY <2>1, <2>2
<1> QED BY <1>3 DEF c

\* A session may read the address; it is late unless it is the newest.
LEMMA AddressedRead ==
    ASSUME TypeOK, TypeOK', Addressed, addr' = addr, late \subseteq late',
           \A t \in Sessions : sm'[t].born = sm[t].born,
           \A t \in Sessions \ late' :
               /\ \/ sm'[t].rule \in {NoAddr, sm[t].rule}
                  \/ sm'[t].rule = addr /\ sm[t].born = LastBorn
               /\ \/ sm'[t].ue \in {NoAddr, sm[t].ue}
                  \/ sm'[t].ue = addr /\ sm[t].born = LastBorn
    PROVE  Addressed'
<1>1. ASSUME Sessions # {}
      PROVE  /\ LastBorn' \in 0..MaxCreate /\ Newest(sm', LastBorn')
             /\ addr' = LastBorn' % AddrMod
  <2>1. LastBorn \in 0..MaxCreate /\ Newest(sm, LastBorn) /\ addr = LastBorn % AddrMod
      BY <1>1 DEF Addressed
  <2>2. Newest(sm', LastBorn)
      BY <2>1 DEF Newest
  <2>3. \A s \in Sessions : sm'[s].born \in Nat
      BY Types DEF TypeOK
  <2>4. LastBorn' = LastBorn
    <3> DEFINE n == LastBorn
    <3> HIDE DEF n
    <3>1. LastBorn' = n
        BY <2>1, <2>2, <2>3, LastBornIs DEF LastBorn, n
    <3> QED BY <3>1 DEF n
  <2> QED BY <2>1, <2>2, <2>4
<1>2. ASSUME NEW s \in Sessions, s \notin late'
      PROVE  /\ sm'[s].rule \in {NoAddr, sm'[s].born % AddrMod}
             /\ sm'[s].ue \in {NoAddr, sm'[s].born % AddrMod}
  <2>1. /\ sm[s].rule \in {NoAddr, sm[s].born % AddrMod}
        /\ sm[s].ue \in {NoAddr, sm[s].born % AddrMod}
        /\ addr = LastBorn % AddrMod /\ sm'[s].born = sm[s].born
      BY <1>2 DEF Addressed
  <2>2. /\ sm'[s].rule \in {NoAddr, sm[s].rule} \/ (sm'[s].rule = addr /\ sm[s].born = LastBorn)
        /\ sm'[s].ue \in {NoAddr, sm[s].ue} \/ (sm'[s].ue = addr /\ sm[s].born = LastBorn)
      BY <1>2
  <2> HIDE DEF LastBorn
  <2> QED BY <2>1, <2>2
<1> QED BY <1>1, <1>2 DEF Addressed

\* The FAR generators and the FARs of the access UPFs are left alone.
LEMMA PooledSame ==
    ASSUME Pooled, OnlyPdrIdsLost, gen' = gen, farPool' = farPool, pdrEver' = pdrEver,
           \A t \in Sessions : sm'[t].path = sm[t].path /\ sm'[t].far[1] = sm[t].far[1]
    PROVE  Pooled' /\ OnlyPdrIdsLost'
<1>1. Pooled'
    BY DEF Pooled
<1>2. OnlyPdrIdsLost'
    BY DEF OnlyPdrIdsLost
<1> QED BY <1>1, <1>2

\* Only a session without FARs changes.
LEMMA PooledEmpty ==
    ASSUME Pooled, OnlyPdrIdsLost, gen' = gen, farPool' = farPool, pdrEver' = pdrEver,
           NEW s \in Sessions, \A t \in Sessions : t # s => sm'[t] = sm[t],
           sm[s].far[1] = {}, sm'[s].far[1] = {}
    PROVE  Pooled' /\ OnlyPdrIdsLost'
<1>1. Pooled'
  <2>1. ASSUME NEW t \in Sessions, sm'[t].path # <<>>
        PROVE  sm'[t].far[1] \subseteq farPool'[sm'[t].path[1]]
    <3>1. CASE t = s
        BY <3>1
    <3>2. CASE t # s
        BY <2>1, <3>2 DEF Pooled
    <3> QED BY <3>1, <3>2
  <2>2. ASSUME NEW r \in Sessions, NEW t \in Sessions, r # t, sm'[r].path # <<>>,
               sm'[t].path # <<>>, sm'[r].path[1] = sm'[t].path[1]
        PROVE  sm'[r].far[1] \cap sm'[t].far[1] = {}
    <3>1. CASE t = s \/ r = s
        BY <3>1
    <3>2. CASE t # s /\ r # s
        BY <2>2, <3>2 DEF Pooled
    <3> QED BY <3>1, <3>2
  <2> QED BY <2>1, <2>2 DEF Pooled
<1>2. ASSUME NEW u \in Upfs, \A v \in Upfs : Len(PathTo[v]) = 2 => PathTo[v][2] # u,
             NEW i \in farPool[u]
      PROVE  \E t \in Sessions : sm'[t].path # <<>> /\ sm'[t].path[1] = u /\ i \in sm'[t].far[1]
  <2>1. PICK t \in Sessions : sm[t].path # <<>> /\ sm[t].path[1] = u /\ i \in sm[t].far[1]
      BY <1>2 DEF OnlyPdrIdsLost
  <2> QED BY <2>1
<1>3. OnlyPdrIdsLost'
    BY <1>2 DEF OnlyPdrIdsLost
<1> QED BY <1>1, <1>3

LEMMA RuledSame ==
    ASSUME Narrow => Ruled, rules' = rules, pdrEver' = pdrEver,
           \A t \in Sessions : /\ sm'[t].path = sm[t].path /\ sm'[t].pdr = sm[t].pdr
                               /\ sm'[t].pc \in {"activating", "active"} => sm'[t].pc = sm[t].pc
    PROVE  Narrow' => Ruled'
<1> SUFFICES ASSUME Narrow' PROVE Ruled'
    OBVIOUS
<1>1. Ruled
    BY DEF Narrow
<1>2. \A t \in Sessions, k \in Hops : On(sm'[t], k) <=> On(sm[t], k)
    BY DEF On
<1> QED BY <1>1, <1>2 DEF Ruled

\* Only a session changes that has no PDRs afterwards.
LEMMA RuledEmpty ==
    ASSUME Narrow => Ruled, rules' = rules, pdrEver' = pdrEver,
           NEW s \in Sessions, \A t \in Sessions : t # s => sm'[t] = sm[t],
           \A k \in Hops : sm'[s].pdr[k] = {}
    PROVE  Narrow' => Ruled'
<1> SUFFICES ASSUME Narrow' PROVE Ruled'
    OBVIOUS
<1>1. Ruled
    BY DEF Narrow
<1>2. \A t \in Sessions, k \in Hops : t # s => (On(sm'[t], k) <=> On(sm[t], k))
    BY DEF On
<1>3. \A t \in Sessions : \A k \in Hops : On(sm'[t], k) =>
          sm'[t].pdr[k] \subseteq pdrEver'[sm'[t].path[k]]
    BY <1>1, <1>2 DEF Ruled
<1>4. ASSUME NEW r \in Sessions, NEW t \in Sessions, NEW k \in Hops, NEW j \in Hops,
             r # t, On(sm'[r], k), On(sm'[t], j), sm'[r].path[k] = sm'[t].path[j]
      PROVE  sm'[r].pdr[k] \cap sm'[t].pdr[j] = {}
  <2>1. CASE t = s \/ r = s
      BY <2>1
  <2>2. CASE t # s /\ r # s
      BY <1>1, <1>2, <1>4, <2>2 DEF Ruled
  <2> QED BY <2>1, <2>2
<1>5. \A u \in Upfs, i \in PdrIds : rules'[u][i] # NoSession => i \in pdrEver'[u]
    BY <1>1 DEF Ruled
<1>6. ASSUME NEW t \in Sessions, NEW k \in Hops, On(sm'[t], k), NEW i \in sm'[t].pdr[k]
      PROVE  /\ sm'[t].pc = "activating" => rules'[sm'[t].path[k]][i] = NoSession
             /\ sm'[t].pc = "active" => rules'[sm'[t].path[k]][i] = t
  <2>1. t # s
      BY <1>6
  <2> QED BY <1>1, <1>2, <1>6, <2>1 DEF Ruled
<1> QED BY <1>3, <1>4, <1>5, <1>6 DEF Ruled

LEMMA AssocSame ==
    ASSUME OwnAssociation, UNCHANGED assoc, ~crashed
    PROVE  OwnAssociation'
<1>1. info' = info /\ status' = status /\ answered' = answered /\ crashed' = crashed /\ stray' = stray
    BY DEF assoc
<1> QED BY <1>1 DEF OwnAssociation
----------------------------------------------------------------------------
(* Identifiers given and freed.                                            *)

\* Session s, activating node k of its path, gets the ids P for PDRs and F
\* for FARs, none of which was in use at UPF u.
Grows(s, k, u, P, F) ==
    /\ On(sm[s], k) /\ u = sm[s].path[k] /\ sm[s].pc = "activating"
    /\ sm[s].pdr[k] = {} /\ sm[s].far[k] = {}
    /\ P \subseteq FarIds /\ F \subseteq FarIds
    /\ P \cap gen[u].used = {} /\ F \cap gen[u].used = {} /\ P \cap F = {}
    /\ gen'[u].used = gen[u].used \cup P \cup F
    /\ farPool'[u] = farPool[u] \cup F /\ pdrEver'[u] = pdrEver[u] \cup P
    /\ \A v \in Upfs : v # u => /\ gen'[v] = gen[v] /\ farPool'[v] = farPool[v]
                                /\ pdrEver'[v] = pdrEver[v]
    /\ rules' = rules
    /\ \A t \in Sessions : t # s => sm'[t] = sm[t]
    /\ sm'[s].path = sm[s].path /\ sm'[s].pc \in {"activating", "failed"}
    /\ sm'[s].far[k] = F /\ sm'[s].pdr[k] \subseteq {PdrID(i) : i \in P}
    /\ \A j \in Hops : j # k => sm'[s].far[j] = sm[s].far[j] /\ sm'[s].pdr[j] = sm[s].pdr[j]

LEMMA PooledGrows ==
    ASSUME TypeOK, Shaped, Pooled, OnlyPdrIdsLost,
           NEW s \in Sessions, NEW k \in Hops, NEW u \in Upfs, NEW P, NEW F, Grows(s, k, u, P, F)
    PROVE  Pooled' /\ OnlyPdrIdsLost'
<1>1. /\ On(sm[s], k) /\ u = sm[s].path[k] /\ sm[s].far[k] = {}
      /\ P \cap gen[u].used = {} /\ F \cap gen[u].used = {} /\ P \cap F = {}
      /\ gen'[u].used = gen[u].used \cup P \cup F
      /\ farPool'[u] = farPool[u] \cup F /\ pdrEver'[u] = pdrEver[u] \cup P
      /\ sm'[s].path = sm[s].path /\ sm'[s].far[k] = F
      /\ \A j \in Hops : j # k => sm'[s].far[j] = sm[s].far[j]
    BY DEF Grows
<1>2. \A v \in Upfs : v # u => gen'[v] = gen[v] /\ farPool'[v] = farPool[v] /\ pdrEver'[v] = pdrEver[v]
    BY DEF Grows
<1>3. \A t \in Sessions : t # s => sm'[t] = sm[t]
    BY DEF Grows
<1>4. \A v \in Upfs : pdrEver[v] \cap farPool[v] = {} /\ gen[v].used = pdrEver[v] \cup farPool[v]
    BY DEF OnlyPdrIdsLost
<1>5. \A v \in Upfs : pdrEver'[v] \cap farPool'[v] = {} /\ gen'[v].used = pdrEver'[v] \cup farPool'[v]
  <2> TAKE v \in Upfs
  <2>1. CASE v = u
      BY <1>1, <1>4, <2>1
  <2>2. CASE v # u
      BY <1>2, <1>4, <2>2
  <2> QED BY <2>1, <2>2
<1>6. \A t \in Sessions : sm'[t].path = sm[t].path
    BY <1>1, <1>3
<1>7. \A t \in Sessions : sm[t].path # <<>> => sm[t].path[1] \in Upfs
    BY PathIs DEF Shaped, Shape
<1>8. 1 \in Hops
    BY DEF Hops
<1>9. \A t \in Sessions : sm'[t].far[1] = IF t = s /\ k = 1 THEN F ELSE sm[t].far[1]
    BY <1>1, <1>3, <1>8
<1>10. \A v \in Upfs : farPool[v] \subseteq farPool'[v]
    BY <1>1, <1>2
<1>11. Pooled'
  <2>1. ASSUME NEW t \in Sessions, sm'[t].path # <<>>
        PROVE  sm'[t].far[1] \subseteq farPool'[sm'[t].path[1]]
    <3>1. CASE t = s /\ k = 1
        BY <1>1, <1>9, <3>1
    <3>2. CASE ~(t = s /\ k = 1)
      <4>1. sm[t].far[1] \subseteq farPool[sm[t].path[1]]
          BY <1>6, <2>1 DEF Pooled
      <4> QED BY <1>6, <1>7, <1>9, <1>10, <2>1, <3>2, <4>1
    <3> QED BY <3>1, <3>2
  <2>2. ASSUME NEW t \in Sessions, t # s, k = 1, sm[t].path # <<>>, sm[t].path[1] = u
        PROVE  F \cap sm[t].far[1] = {}
    <3>1. sm[t].far[1] \subseteq farPool[u]
        BY <2>2 DEF Pooled
    <3> QED BY <1>1, <1>4, <3>1
  <2>3. ASSUME NEW r \in Sessions, NEW t \in Sessions, r # t, sm'[r].path # <<>>,
               sm'[t].path # <<>>, sm'[r].path[1] = sm'[t].path[1]
        PROVE  sm'[r].far[1] \cap sm'[t].far[1] = {}
    <3>1. CASE r = s /\ k = 1
        BY <1>1, <1>6, <1>9, <2>2, <2>3, <3>1
    <3>2. CASE t = s /\ k = 1
        BY <1>1, <1>6, <1>9, <2>2, <2>3, <3>2
    <3>3. CASE ~(r = s /\ k = 1) /\ ~(t = s /\ k = 1)
        BY <1>6, <1>9, <2>3, <3>3 DEF Pooled
    <3> QED BY <3>1, <3>2, <3>3
  <2> QED BY <2>1, <2>3 DEF Pooled
<1>12. ASSUME NEW w \in Upfs, \A v \in Upfs : Len(PathTo[v]) = 2 => PathTo[v][2] # w,
              NEW i \in farPool'[w]
       PROVE  \E t \in Sessions : sm'[t].path # <<>> /\ sm'[t].path[1] = w /\ i \in sm'[t].far[1]
  <2>1. CASE w = u /\ i \in F
    <3>1. sm[s].path # <<>> /\ k \in 1..Len(sm[s].path)
        BY <1>1 DEF On
    <3>2. PICK v \in Upfs : sm[s].path = PathTo[v]
        BY <3>1 DEF Shaped, Shape, AllPaths
    <3>3. Len(PathTo[v]) \in Hops
        BY PathIs DEF AllPaths
    <3>4. k = 1
        BY <1>1, <1>12, <2>1, <3>1, <3>2, <3>3 DEF Hops
    <3> QED BY <1>1, <1>9, <2>1, <3>1, <3>4
  <2>2. CASE ~(w = u /\ i \in F)
    <3>1. i \in farPool[w]
        BY <1>1, <1>2, <1>12, <2>2
    <3>2. PICK t \in Sessions : sm[t].path # <<>> /\ sm[t].path[1] = w /\ i \in sm[t].far[1]
        BY <1>12, <3>1 DEF OnlyPdrIdsLost
    <3>3. ~(t = s /\ k = 1)
        BY <1>1, <3>2
    <3> QED BY <1>6, <1>9, <3>2, <3>3
  <2> QED BY <2>1, <2>2
<1>13. OnlyPdrIdsLost'
    BY <1>5, <1>12 DEF OnlyPdrIdsLost
<1> QED BY <1>11, <1>13

LEMMA RuledGrows ==
    ASSUME TypeOK, Shaped, OnlyPdrIdsLost, Narrow => Ruled,
           NEW s \in Sessions, NEW k \in Hops, NEW u \in Upfs, NEW P, NEW F, Grows(s, k, u, P, F)
    PROVE  Narrow' => Ruled'
<1> SUFFICES ASSUME Narrow' PROVE Ruled'
    OBVIOUS
<1>1. /\ On(sm[s], k) /\ u = sm[s].path[k] /\ sm[s].pdr[k] = {}
      /\ P \subseteq FarIds /\ P \cap gen[u].used = {} /\ pdrEver'[u] = pdrEver[u] \cup P
      /\ sm'[s].path = sm[s].path /\ sm'[s].pdr[k] \subseteq {PdrID(i) : i \in P}
      /\ \A j \in Hops : j # k => sm'[s].pdr[j] = sm[s].pdr[j]
      /\ rules' = rules /\ sm[s].pc = "activating" /\ sm'[s].pc \in {"activating", "failed"}
    BY DEF Grows
<1>2. \A v \in Upfs : pdrEver[v] \subseteq pdrEver'[v]
    BY <1>1 DEF Grows
<1>3. \A t \in Sessions : t # s => sm'[t] = sm[t]
    BY DEF Grows
<1>4. Ruled
    BY <1>2 DEF Narrow
<1>5. \A i \in P : PdrID(i) = i
  <2> TAKE i \in P
  <2>1. PdrMod \in Nat \ {0} /\ i \in 0..(PdrMod - 1)
      BY <1>1, UpfAssumption DEF Narrow, PdrIds
  <2>2. i = PdrMod * 0 + i /\ i \in Nat
      BY <2>1
  <2>3. i % PdrMod = i
      BY <2>1, <2>2, ModUnique
  <2> QED BY <2>3 DEF PdrID
<1>6. sm'[s].pdr[k] \subseteq P /\ P \cap pdrEver[u] = {}
    BY <1>1, <1>5 DEF OnlyPdrIdsLost
<1>7. \A t \in Sessions, j \in Hops : On(sm'[t], j) <=> On(sm[t], j)
    BY <1>1, <1>3 DEF On
<1>8. \A t \in Sessions : sm'[t].path = sm[t].path
    BY <1>1, <1>3
<1>9. \A t \in Sessions, j \in Hops : On(sm[t], j) => sm[t].path[j] \in Upfs
    BY PathIs DEF Shaped, Shape, On
<1>10. \A t \in Sessions, j \in Hops : ~(t = s /\ j = k) => sm'[t].pdr[j] = sm[t].pdr[j]
    BY <1>1, <1>3
<1>11. ASSUME NEW t \in Sessions, NEW j \in Hops, On(sm'[t], j)
       PROVE  sm'[t].pdr[j] \subseteq pdrEver'[sm'[t].path[j]]
  <2>1. CASE t = s /\ j = k
      BY <1>1, <1>6, <2>1
  <2>2. CASE ~(t = s /\ j = k)
    <3>1. sm[t].pdr[j] \subseteq pdrEver[sm[t].path[j]]
        BY <1>4, <1>7, <1>11 DEF Ruled
    <3> QED BY <1>2, <1>7, <1>8, <1>9, <1>10, <1>11, <2>2, <3>1
  <2> QED BY <2>1, <2>2
<1>12. ASSUME NEW t \in Sessions, NEW j \in Hops, t # s, On(sm[t], j), sm[t].path[j] = u
       PROVE  sm'[s].pdr[k] \cap sm[t].pdr[j] = {}
  <2>1. sm[t].pdr[j] \subseteq pdrEver[u]
      BY <1>4, <1>12 DEF Ruled
  <2> QED BY <1>6, <2>1
<1>13. ASSUME NEW r \in Sessions, NEW t \in Sessions, NEW l \in Hops, NEW j \in Hops,
              r # t, On(sm'[r], l), On(sm'[t], j), sm'[r].path[l] = sm'[t].path[j]
       PROVE  sm'[r].pdr[l] \cap sm'[t].pdr[j] = {}
  <2>0. On(sm[r], l) /\ On(sm[t], j) /\ sm[r].path[l] = sm[t].path[j]
      BY <1>7, <1>8, <1>13
  <2>1. CASE r = s /\ l = k
      BY <1>1, <1>3, <1>12, <1>13, <2>0, <2>1
  <2>2. CASE t = s /\ j = k
      BY <1>1, <1>3, <1>12, <1>13, <2>0, <2>2
  <2>3. CASE ~(r = s /\ l = k) /\ ~(t = s /\ j = k)
      BY <1>4, <1>10, <1>13, <2>0, <2>3 DEF Ruled
  <2> QED BY <2>1, <2>2, <2>3
<1>14. \A v \in Upfs, i \in PdrIds : rules'[v][i] # NoSession => i \in pdrEver'[v]
    BY <1>1, <1>2, <1>4 DEF Ruled
<1>15. ASSUME NEW t \in Sessions, NEW j \in Hops, On(sm'[t], j), sm'[t].pc = "activating",
              NEW i \in sm'[t].pdr[j]
       PROVE  rules'[sm'[t].path[j]][i] = NoSession
  <2>1. CASE t = s /\ j = k
    <3>1. i \in P /\ i \in PdrIds
        BY <1>1, <1>6, <1>15, <2>1 DEF Narrow
    <3> QED BY <1>1, <1>4, <1>6, <2>1, <3>1 DEF Ruled
  <2>2. CASE ~(t = s /\ j = k)
    <3>1. On(sm[t], j) /\ sm[t].pc = "activating" /\ i \in sm[t].pdr[j] /\ sm'[t].path = sm[t].path
        BY <1>1, <1>3, <1>7, <1>8, <1>10, <1>15, <2>2
    <3> QED BY <1>1, <1>4, <3>1 DEF Ruled
  <2> QED BY <2>1, <2>2
<1>16. ASSUME NEW t \in Sessions, NEW j \in Hops, On(sm'[t], j), sm'[t].pc = "active",
              NEW i \in sm'[t].pdr[j]
       PROVE  rules'[sm'[t].path[j]][i] = t
  <2>1. t # s /\ sm'[t] = sm[t]
      BY <1>1, <1>3, <1>16
  <2> QED BY <1>1, <1>4, <1>7, <1>16, <2>1 DEF Ruled
<1> QED BY <1>11, <1>13, <1>14, <1>15, <1>16 DEF Ruled
----------------------------------------------------------------------------
(* SEIDs.                                                                  *)

\* A session without SEIDs afterwards, which has or has not raced before.
LEMMA CountingFresh ==
    ASSUME Counting, seidCount' = seidCount, NEW s \in Sessions,
           \A t \in Sessions : t # s => sm'[t] = sm[t] /\ (t \in raced' <=> t \in raced),
           \A k \in Hops : sm'[s].seid[k] = 0, sm'[s].pc # "counted", seidCount \in Nat
    PROVE  Counting'
<1>1. \A t \in Sessions, k \in Hops : sm'[t].seid[k] <= seidCount'
    BY DEF Counting
<1>2. \A r, t \in Sessions : r # t /\ sm'[r].pc = "counted" /\ sm'[t].pc = "counted" => r \in raced'
    BY DEF Counting
<1>3. \A t \in Sessions : sm'[t].pc = "counted" =>
           /\ seidCount' > 0
           /\ \A r \in Sessions \ raced' : \A k \in Hops : sm'[r].seid[k] < seidCount'
    BY DEF Counting
<1>4. \A r \in Sessions \ raced' : sm'[r].pc = "counted" =>
           \A t \in Sessions : \A k \in Hops : sm'[t].seid[k] < seidCount'
    BY DEF Counting
<1>5. \A r \in Sessions \ raced' : \A t \in Sessions \ {r} : \A k, j \in Hops :
           sm'[r].seid[k] # 0 => sm'[t].seid[j] # sm'[r].seid[k]
    BY DEF Counting
<1> QED BY <1>1, <1>2, <1>3, <1>4, <1>5 DEF Counting

LEMMA CountingAdd ==
    ASSUME TypeOK, Counting, RoutedBySeid, NEW s \in Sessions, AddSEID(s),
           \A t \in Sessions : t # s => sm'[t] = sm[t], sm'[s].seid = sm[s].seid
    PROVE  Counting' /\ RoutedBySeid'
<1> DEFINE others == {t \in Sessions \ {s} : sm[t].pc = "counted"}
<1>1. seidCount' = seidCount + 1 /\ seidMap' = seidMap
    BY DEF AddSEID
<1>2. raced' = IF others = {} THEN raced ELSE raced \cup others \cup {s}
    BY DEF AddSEID
<1>3. seidCount \in Nat /\ \A t \in Sessions, k \in Hops : sm[t].seid[k] \in Nat
    BY Types, UpfAssumption DEF TypeOK, Seids
<1>4. \A t \in Sessions : sm'[t].seid = sm[t].seid
    OBVIOUS
<1>5. raced \subseteq raced'
    BY <1>2
<1>6. \A t \in Sessions, k \in Hops : sm'[t].seid[k] < seidCount'
    BY <1>1, <1>3, <1>4 DEF Counting
<1>7. ASSUME NEW r \in Sessions, NEW t \in Sessions, r # t, sm'[r].pc = "counted",
             sm'[t].pc = "counted"
      PROVE  r \in raced'
  <2>1. CASE r = s
    <3>1. t \in others
        BY <1>7, <2>1
    <3> QED BY <1>2, <2>1, <3>1
  <2>2. CASE t = s
    <3>1. r \in others
        BY <1>7, <2>2
    <3> QED BY <1>2, <2>2, <3>1
  <2>3. CASE r # s /\ t # s
      BY <1>5, <1>7, <2>3 DEF Counting
  <2> QED BY <2>1, <2>2, <2>3
<1>8. \A r \in Sessions \ raced' : \A t \in Sessions \ {r} : \A k, j \in Hops :
           sm'[r].seid[k] # 0 => sm'[t].seid[j] # sm'[r].seid[k]
    BY <1>4, <1>5 DEF Counting
<1>9. seidCount' > 0 /\ \A t \in Sessions, k \in Hops : sm'[t].seid[k] <= seidCount'
    BY <1>1, <1>3, <1>4 DEF Counting
<1>10. Counting'
    BY <1>6, <1>7, <1>8, <1>9 DEF Counting
<1>11. RoutedBySeid'
    BY <1>1, <1>4, <1>5 DEF RoutedBySeid
<1> QED BY <1>10, <1>11

LEMMA CountingRead ==
    ASSUME TypeOK, Counting, RoutedBySeid, NEW s \in Sessions, NEW k \in Hops,
           sm[s].pc = "counted", sm'[s].pc # "counted",
           seidCount' = seidCount, raced' = raced, seidMap' = [seidMap EXCEPT ![seidCount] = s],
           \A t \in Sessions : t # s => sm'[t] = sm[t],
           sm'[s].seid[k] = seidCount, \A j \in Hops : j # k => sm'[s].seid[j] = sm[s].seid[j]
    PROVE  Counting' /\ RoutedBySeid'
<1>1. seidCount \in Nat /\ \A t \in Sessions, j \in Hops : sm[t].seid[j] \in Nat
    BY Types, UpfAssumption DEF TypeOK, Seids
<1>2. seidCount > 0 /\ seidCount \in Seids
    BY <1>1 DEF Counting, TypeOK
<1>3. \A r \in Sessions \ raced : \A j \in Hops : sm[r].seid[j] < seidCount
    BY DEF Counting
<1>4. s \notin raced => \A t \in Sessions : \A j \in Hops : sm[t].seid[j] < seidCount
    BY DEF Counting
<1>5. \A t \in Sessions : t # s /\ sm[t].pc = "counted" => t \in raced /\ s \in raced
    BY DEF Counting
<1>6. \A t \in Sessions, j \in Hops : sm'[t].seid[j] <= seidCount
    BY <1>1 DEF Counting
<1>7. \A r, t \in Sessions : r # t /\ sm'[r].pc = "counted" /\ sm'[t].pc = "counted" => r \in raced
    BY DEF Counting
<1>8. \A t \in Sessions : sm'[t].pc = "counted" =>
           \A r \in Sessions \ raced : \A j \in Hops : sm'[r].seid[j] < seidCount
    BY <1>3, <1>5
<1>9. \A r \in Sessions \ raced : sm'[r].pc # "counted"
    BY <1>5
<1>10. ASSUME NEW r \in Sessions, r \notin raced, NEW t \in Sessions, t # r,
              NEW i \in Hops, NEW j \in Hops, sm'[r].seid[i] # 0
       PROVE  sm'[t].seid[j] # sm'[r].seid[i]
  <2>1. CASE r = s /\ i = k
    <3>1. sm[t].seid[j] < seidCount /\ sm'[t] = sm[t]
        BY <1>4, <1>10, <2>1
    <3> QED BY <1>1, <2>1, <3>1
  <2>2. CASE r = s /\ i # k
      BY <1>10, <2>2 DEF Counting
  <2>3. CASE r # s /\ t = s /\ j = k
    <3>1. sm[r].seid[i] < seidCount /\ sm'[r] = sm[r]
        BY <1>3, <1>10, <2>3
    <3> QED BY <1>1, <2>3, <3>1
  <2>4. CASE r # s /\ ~(t = s /\ j = k)
    <3>1. sm'[r] = sm[r] /\ sm'[t].seid[j] = sm[t].seid[j]
        BY <2>4
    <3> QED BY <1>10, <3>1 DEF Counting
  <2> QED BY <2>1, <2>2, <2>3, <2>4
<1>11. Counting'
    BY <1>2, <1>6, <1>7, <1>8, <1>9, <1>10 DEF Counting
<1>12. ASSUME NEW r \in Sessions, r \notin raced, NEW i \in Hops, sm'[r].seid[i] # 0
       PROVE  seidMap'[sm'[r].seid[i]] = r
  <2>1. CASE r = s /\ i = k
      BY <1>2, <2>1 DEF TypeOK
  <2>2. CASE ~(r = s /\ i = k)
    <3>1. sm'[r].seid[i] = sm[r].seid[i]
        BY <2>2
    <3>2. sm[r].seid[i] # seidCount
        BY <1>1, <1>3, <1>12
    <3>3. sm[r].seid[i] \in Seids
      <4>1. sm[r].seid \in [Hops -> Seids \cup {0}]
          BY Types DEF TypeOK
      <4> QED BY <1>12, <3>1, <4>1
    <3>4. seidMap[sm[r].seid[i]] = r
        BY <1>12, <3>1 DEF RoutedBySeid
    <3> QED BY <3>1, <3>2, <3>3, <3>4 DEF TypeOK
  <2> QED BY <2>1, <2>2
<1>13. RoutedBySeid'
    BY <1>12 DEF RoutedBySeid
<1> QED BY <1>11, <1>13
----------------------------------------------------------------------------
(* Creation.                                                               *)

LEMMA NewSmIs ==
    /\ NewSm \in SmType
    /\ NewSm.pc = "idle" /\ NewSm.path = <<>> /\ NewSm.rule = NoAddr /\ NewSm.ue = NoAddr
    /\ NewSm.n = 0 /\ NewSm.born = 0
    /\ \A k \in Hops : NewSm.seid[k] = 0 /\ NewSm.pdr[k] = {} /\ NewSm.far[k] = {}
<1> DEFINE zero == [k \in Hops |-> 0]
           none == [k \in Hops |-> {}]
<1>1. /\ zero \in [Hops -> Seids \cup {0}]
      /\ none \in [Hops -> SUBSET PdrIds] /\ none \in [Hops -> SUBSET FarIds]
      /\ \A k \in Hops : zero[k] = 0 /\ none[k] = {}
    OBVIOUS
<1>2. NewSm = [pc |-> "idle", path |-> <<>>, n |-> 0, born |-> 0, seid |-> zero,
               pdr |-> none, far |-> none, noDl |-> FALSE,
               est |-> FALSE, rule |-> NoAddr, ue |-> NoAddr]
    BY DEF NewSm
<1> HIDE DEF zero, none
<1>3. NewSm \in SmType
    BY <1>1, <1>2, UpfAssumption DEF SmType, Labels
<1> QED BY <1>1, <1>2, <1>3

LEMMA InvAllocUEIP ==
    ASSUME Inv, NEW s \in Sessions, AllocUEIP(s)
    PROVE  Inv'
<1> DEFINE b == LastBorn + 1
           y == [NewSm EXCEPT !.pc = "addressed", !.born = b]
<1>1. /\ TypeOK /\ Shaped /\ Counting /\ RoutedBySeid /\ Addressed /\ Pooled
      /\ OnlyPdrIdsLost /\ (Narrow => Ruled) /\ OwnAssociation
    BY DEF Inv
<1>2. /\ ~crashed /\ sm[s].pc = "idle" /\ LastBorn < MaxCreate
      /\ addr' = NextAddress /\ Put(s, y) /\ late' = late \ {s} /\ raced' = raced \ {s}
    BY DEF AllocUEIP, At
<1>3. UNCHANGED <<assoc, default, ids, seidCount, seidMap>>
    BY DEF AllocUEIP
<1>4. LastBorn \in 0..MaxCreate /\ Newest(sm, LastBorn) /\ addr = LastBorn % AddrMod
    BY <1>1 DEF Addressed
<1>5. b \in 0..MaxCreate
  <2> DEFINE n == LastBorn
  <2>1. n \in 0..MaxCreate /\ n < MaxCreate /\ MaxCreate \in Nat
      BY <1>2, <1>4, UpfAssumption
  <2> HIDE DEF n
  <2>2. n + 1 \in 0..MaxCreate
      BY <2>1
  <2> QED BY <2>2 DEF n
<1> HIDE DEF b
<1>6. NewSm \in SmFields /\ b \in SmBirths /\ "addressed" \in Labels
    BY <1>5, NewSmIs, SmTypeIs DEF SmBirths, Labels
<1>7. y \in SmFields
    BY <1>6, Zenon DEF SmFields
<1>7a. /\ y.pc = "addressed" /\ y.path = NewSm.path /\ y.n = NewSm.n /\ y.born = b
       /\ y.rule = NewSm.rule
       /\ y.ue = NewSm.ue /\ y.seid = NewSm.seid /\ y.pdr = NewSm.pdr /\ y.far = NewSm.far
    BY <1>6, Zenon DEF SmFields
<1> HIDE DEF y
<1>8. /\ y.pc = "addressed" /\ y.path = <<>> /\ y.n = 0 /\ y.born = b /\ y.rule = NoAddr /\ y.ue = NoAddr
      /\ \A k \in Hops : y.seid[k] = 0 /\ y.pdr[k] = {} /\ y.far[k] = {}
    BY <1>7a, NewSmIs
<1>9. /\ sm' \in [Sessions -> SmType] /\ sm'[s] = y
      /\ \A t \in Sessions : t # s => sm'[t] = sm[t]
    BY <1>1, <1>2, <1>7, SmTypeIs, Turn
<1>10. Shape(y)
    BY <1>8 DEF Shape
<1>11. Shaped'
    BY <1>1, <1>2, <1>7, <1>10, SmTypeIs, ShapedTurn
<1>12. addr' \in Addresses /\ addr' = b % AddrMod
  <2> DEFINE n == LastBorn
  <2>1. n \in Nat /\ addr = n % AddrMod /\ AddrMod \in Nat \ {0}
      BY <1>4, UpfAssumption
  <2>2. addr' = ((n % AddrMod) + 1) % AddrMod
      BY <1>2, <2>1 DEF NextAddress
  <2>3. b = n + 1
      BY DEF b
  <2> HIDE DEF n
  <2>4. addr' = (n + 1) % AddrMod
      BY <2>1, <2>2, ModNext
  <2>5. n + 1 \in Nat
      BY <2>1
  <2>6. (n + 1) % AddrMod \in 0..(AddrMod - 1)
      BY <2>1, <2>5, DivMod
  <2> QED BY <2>3, <2>4, <2>6 DEF Addresses
<1>13. TypeOK'
    BY <1>1, <1>2, <1>3, <1>9, <1>12 DEF TypeOK, assoc, ids
<1>14. seidCount \in Nat /\ seidCount' = seidCount /\ seidMap' = seidMap
    BY <1>1, <1>3, UpfAssumption DEF TypeOK, Seids
<1>15. Counting'
    BY <1>1, <1>2, <1>8, <1>9, <1>14, CountingFresh
<1>16. RoutedBySeid'
    BY <1>1, <1>2, <1>8, <1>9, <1>14 DEF RoutedBySeid
<1>17. Addressed'
  <2>1. Newest(sm', b)
    <3> DEFINE n == LastBorn
    <3>1. b = n + 1 /\ n \in Nat /\ \A t \in Sessions : sm[t].born <= n
        BY <1>4 DEF b, Newest
    <3>2. \A t \in Sessions : sm[t].born \in Nat
        BY <1>1, Types DEF TypeOK
    <3> HIDE DEF n
    <3>3. ASSUME NEW t \in Sessions PROVE sm'[t].born <= b
      <4>1. CASE t = s
          BY <1>8, <1>9, <3>1, <4>1
      <4>2. CASE t # s
          BY <1>9, <3>1, <3>2, <4>2
      <4> QED BY <4>1, <4>2
    <3> QED BY <1>8, <1>9, <3>3 DEF Newest
  <2>2. \A t \in Sessions : sm'[t].born \in Nat
      BY <1>9, Types
  <2>3. LastBorn' = b
      BY <1>5, <2>1, <2>2, LastBornIs DEF LastBorn
  <2>4. \A t \in Sessions \ late' : /\ sm'[t].rule \in {NoAddr, sm'[t].born % AddrMod}
                                    /\ sm'[t].ue \in {NoAddr, sm'[t].born % AddrMod}
      BY <1>1, <1>2, <1>8, <1>9 DEF Addressed
  <2> QED BY <1>5, <1>12, <2>1, <2>3, <2>4 DEF Addressed
<1>18. gen' = gen /\ farPool' = farPool /\ pdrEver' = pdrEver /\ rules' = rules /\ UNCHANGED assoc
    BY <1>3 DEF ids
<1>19. 1 \in Hops /\ sm[s].far[1] = {}
    BY <1>1, <1>2 DEF Shaped, Shape, Hops
<1>20. Pooled' /\ OnlyPdrIdsLost'
    BY <1>1, <1>8, <1>9, <1>18, <1>19, PooledEmpty
<1>21. Narrow' => Ruled'
    BY <1>1, <1>8, <1>9, <1>18, RuledEmpty
<1>22. OwnAssociation'
    BY <1>1, <1>2, <1>18, AssocSame
<1> QED BY <1>11, <1>13, <1>15, <1>16, <1>17, <1>20, <1>21, <1>22 DEF Inv
\* A step of a session that has no rules, before or after: only its SEIDs
\* are left to look at.
LEMMA InvQuiet ==
    ASSUME Inv, NEW s \in Sessions, NEW y \in SmType, Put(s, y), Shape(y), ~crashed,
           UNCHANGED <<assoc, ids, addr, late>>, default' \in {<<>>} \cup AllPaths,
           seidCount' \in Seids \cup {0}, seidMap' \in [Seids -> Sessions \cup {NoSession}],
           raced' \subseteq Sessions, Counting', RoutedBySeid',
           y.born = sm[s].born, y.rule \in {NoAddr, sm[s].rule}, y.ue \in {NoAddr, sm[s].ue},
           \A k \in Hops : y.pdr[k] = {} /\ y.far[k] = {}, sm[s].far[1] = {}
    PROVE  Inv'
<1>1. /\ TypeOK /\ Shaped /\ Counting /\ RoutedBySeid /\ Addressed /\ Pooled
      /\ OnlyPdrIdsLost /\ (Narrow => Ruled) /\ OwnAssociation
    BY DEF Inv
<1>2. /\ sm' \in [Sessions -> SmType] /\ sm'[s] = y
      /\ \A t \in Sessions : t # s => sm'[t] = sm[t]
    BY <1>1, Turn
<1>3. /\ gen' = gen /\ farPool' = farPool /\ pdrEver' = pdrEver /\ rules' = rules
      /\ addr' = addr /\ late' = late /\ UNCHANGED assoc
    BY DEF ids
<1>4. TypeOK'
    BY <1>1, <1>2, <1>3 DEF TypeOK, assoc, AllPaths
<1>5. Shaped'
    BY <1>1, ShapedTurn
<1>6. \A t \in Sessions : /\ sm'[t].born = sm[t].born /\ sm'[t].rule \in {NoAddr, sm[t].rule}
                          /\ sm'[t].ue \in {NoAddr, sm[t].ue}
    BY <1>2
<1>7. Addressed'
    BY <1>1, <1>3, <1>4, <1>6, AddressedRead
<1>8. y.far[1] = {}
    BY DEF Hops
<1>9. Pooled' /\ OnlyPdrIdsLost'
    BY <1>1, <1>2, <1>3, <1>8, PooledEmpty
<1>10. Narrow' => Ruled'
    BY <1>1, <1>2, <1>3, RuledEmpty
<1>11. OwnAssociation'
    BY <1>1, <1>3, AssocSame
<1> QED BY <1>4, <1>5, <1>7, <1>9, <1>10, <1>11 DEF Inv

LEMMA SessionIs ==
    ASSUME Inv, NEW s \in Sessions
    PROVE  /\ TypeOK /\ Shaped /\ Counting /\ RoutedBySeid /\ Addressed /\ Pooled
           /\ OnlyPdrIdsLost /\ (Narrow => Ruled) /\ OwnAssociation
           /\ sm[s] \in SmType /\ sm[s] \in SmFields /\ Shape(sm[s])
           /\ sm[s].pc \in {"idle", "addressed", "path", "counted"} =>
                  \A k \in Hops : sm[s].pdr[k] = {} /\ sm[s].far[k] = {}
    BY SmTypeIs DEF Inv, TypeOK, Shaped, Shape

LEMMA InvSelectPath ==
    ASSUME Inv, NEW s \in Sessions, SelectPath(s)
    PROVE  Inv'
<1>1. PICK p \in DefaultPaths : default' = p /\ Put(s, [sm[s] EXCEPT !.pc = "path", !.path = p])
    BY DEF SelectPath
<1> DEFINE y == [sm[s] EXCEPT !.pc = "path", !.path = p]
<1>2. /\ ~crashed /\ sm[s].pc = "addressed" /\ Put(s, y)
      /\ UNCHANGED <<assoc, ids, addr, late>> /\ UNCHANGED seidv
    BY <1>1 DEF SelectPath, At
<1>3. /\ TypeOK /\ Shaped /\ Counting /\ RoutedBySeid
      /\ sm[s] \in SmType /\ sm[s] \in SmFields /\ Shape(sm[s])
      /\ \A k \in Hops : sm[s].pdr[k] = {} /\ sm[s].far[k] = {}
    BY <1>2, SessionIs
<1>4. p \in AllPaths
    BY <1>1, <1>3 DEF DefaultPaths, TypeOK, AllPaths
<1>5. Len(p) \in Hops /\ p # <<>> /\ p \in SmPaths
    BY <1>4, PathIs DEF SmPaths
<1>6. "path" \in Labels
    BY DEF Labels
<1>7. y \in SmFields
    BY <1>3, <1>5, <1>6, Zenon DEF SmFields
<1>8. /\ y.pc = "path" /\ y.path = p /\ y.n = sm[s].n /\ y.born = sm[s].born /\ y.seid = sm[s].seid
      /\ y.pdr = sm[s].pdr /\ y.far = sm[s].far /\ y.rule = sm[s].rule /\ y.ue = sm[s].ue
    BY <1>3, <1>5, <1>6, Zenon DEF SmFields
<1> HIDE DEF y
<1>9. y \in SmType
    BY <1>7, SmTypeIs
<1>10. Shape(y)
    BY <1>2, <1>3, <1>4, <1>5, <1>8 DEF Shape, Hops
<1>11. \A t \in Sessions : /\ \A k \in Hops : sm'[t].seid[k] = sm[t].seid[k]
                           /\ sm'[t].pc = "counted" => sm[t].pc = "counted"
  <2>1. sm'[s] = y /\ \A t \in Sessions : t # s => sm'[t] = sm[t]
      BY <1>2, <1>3, <1>9, Turn
  <2> QED BY <1>8, <2>1
<1>12. Counting' /\ RoutedBySeid'
    BY <1>2, <1>3, <1>11, CountingSame
<1>13. /\ seidCount' \in Seids \cup {0} /\ seidMap' \in [Seids -> Sessions \cup {NoSession}]
       /\ raced' \subseteq Sessions
    BY <1>2, <1>3 DEF TypeOK, seidv
<1>14. (\A k \in Hops : y.pdr[k] = {} /\ y.far[k] = {}) /\ sm[s].far[1] = {}
    BY <1>3, <1>8 DEF Hops
<1> QED BY <1>1, <1>2, <1>4, <1>8, <1>9, <1>10, <1>12, <1>13, <1>14, InvQuiet

LEMMA InvNoPath ==
    ASSUME Inv, NEW s \in Sessions, NoPath(s)
    PROVE  Inv'
<1> DEFINE y == [sm[s] EXCEPT !.pc = "failed"]
<1>1. /\ ~crashed /\ sm[s].pc = "addressed" /\ Put(s, y)
      /\ UNCHANGED <<assoc, ids, addr, late>> /\ UNCHANGED seidv /\ default' = default
    BY DEF NoPath, At
<1>2. /\ TypeOK /\ Shaped /\ Counting /\ RoutedBySeid
      /\ sm[s] \in SmType /\ sm[s] \in SmFields /\ Shape(sm[s])
      /\ \A k \in Hops : sm[s].pdr[k] = {} /\ sm[s].far[k] = {}
    BY <1>1, SessionIs
<1>3. "failed" \in Labels
    BY DEF Labels
<1>4. y \in SmFields
    BY <1>2, <1>3, Zenon DEF SmFields
<1>5. /\ y.pc = "failed" /\ y.path = sm[s].path /\ y.n = sm[s].n /\ y.born = sm[s].born
      /\ y.seid = sm[s].seid /\ y.pdr = sm[s].pdr /\ y.far = sm[s].far /\ y.rule = sm[s].rule
      /\ y.ue = sm[s].ue
    BY <1>2, <1>3, Zenon DEF SmFields
<1> HIDE DEF y
<1>6. y \in SmType
    BY <1>4, SmTypeIs
<1>7. Shape(y)
    BY <1>1, <1>2, <1>5 DEF Shape, Hops
<1>8. \A t \in Sessions : /\ \A k \in Hops : sm'[t].seid[k] = sm[t].seid[k]
                          /\ sm'[t].pc = "counted" => sm[t].pc = "counted"
  <2>1. sm'[s] = y /\ \A t \in Sessions : t # s => sm'[t] = sm[t]
      BY <1>1, <1>2, <1>6, Turn
  <2> QED BY <1>5, <2>1
<1>9. Counting' /\ RoutedBySeid'
    BY <1>1, <1>2, <1>8, CountingSame
<1>10. /\ seidCount' \in Seids \cup {0} /\ seidMap' \in [Seids -> Sessions \cup {NoSession}]
       /\ raced' \subseteq Sessions /\ default' \in {<<>>} \cup AllPaths
    BY <1>1, <1>2 DEF TypeOK, seidv, AllPaths
<1>11. (\A k \in Hops : y.pdr[k] = {} /\ y.far[k] = {}) /\ sm[s].far[1] = {}
    BY <1>2, <1>5 DEF Hops
<1> QED BY <1>1, <1>5, <1>6, <1>7, <1>9, <1>10, <1>11, InvQuiet

LEMMA InvAddSEID ==
    ASSUME Inv, NEW s \in Sessions, AddSEID(s)
    PROVE  Inv'
<1> DEFINE y == [sm[s] EXCEPT !.pc = "counted"]
<1>1. /\ ~crashed /\ sm[s].pc = "path" /\ seidCount < MaxSeid /\ Put(s, y)
      /\ UNCHANGED <<assoc, ids, addr, late>> /\ seidMap' = seidMap /\ default' = default
      /\ seidCount' = seidCount + 1
    BY DEF AddSEID, At
<1>2. /\ TypeOK /\ Shaped /\ Counting /\ RoutedBySeid
      /\ sm[s] \in SmType /\ sm[s] \in SmFields /\ Shape(sm[s])
      /\ \A k \in Hops : sm[s].pdr[k] = {} /\ sm[s].far[k] = {}
    BY <1>1, SessionIs
<1>3. "counted" \in Labels
    BY DEF Labels
<1>4. y \in SmFields
    BY <1>2, <1>3, Zenon DEF SmFields
<1>5. /\ y.pc = "counted" /\ y.path = sm[s].path /\ y.n = sm[s].n /\ y.born = sm[s].born
      /\ y.seid = sm[s].seid /\ y.pdr = sm[s].pdr /\ y.far = sm[s].far /\ y.rule = sm[s].rule
      /\ y.ue = sm[s].ue
    BY <1>2, <1>3, Zenon DEF SmFields
<1> HIDE DEF y
<1>6. y \in SmType
    BY <1>4, SmTypeIs
<1>7. Shape(y)
    BY <1>1, <1>2, <1>5 DEF Shape, Hops
<1>8. sm'[s] = y /\ \A t \in Sessions : t # s => sm'[t] = sm[t]
    BY <1>1, <1>2, <1>6, Turn
<1>9. Counting' /\ RoutedBySeid'
    BY <1>2, <1>5, <1>8, CountingAdd
<1>10. seidCount' \in Seids \cup {0}
    BY <1>1, <1>2, UpfAssumption DEF TypeOK, Seids
<1>11. raced' \subseteq Sessions
  <2> DEFINE others == {t \in Sessions \ {s} : sm[t].pc = "counted"}
  <2>1. raced' = IF others = {} THEN raced ELSE raced \cup others \cup {s}
      BY DEF AddSEID
  <2> QED BY <1>2, <2>1 DEF TypeOK
<1>12. seidMap' \in [Seids -> Sessions \cup {NoSession}] /\ default' \in {<<>>} \cup AllPaths
    BY <1>1, <1>2 DEF TypeOK, AllPaths
<1>13. (\A k \in Hops : y.pdr[k] = {} /\ y.far[k] = {}) /\ sm[s].far[1] = {}
    BY <1>2, <1>5 DEF Hops
<1> QED BY <1>1, <1>5, <1>6, <1>7, <1>9, <1>10, <1>11, <1>12, <1>13, InvQuiet

LEMMA InvReadSEID ==
    ASSUME Inv, NEW s \in Sessions, ReadSEID(s)
    PROVE  Inv'
<1> DEFINE k == sm[s].n + 1
           x == [sm[s] EXCEPT !.seid[k] = seidCount]
           z == [sm[s].seid EXCEPT ![k] = seidCount]
           y1 == [x EXCEPT !.pc = "path", !.n = k]
           y2 == [x EXCEPT !.pc = "activating", !.n = 0]
           y == IF k < Len(x.path) THEN y1 ELSE y2
<1>1. /\ ~crashed /\ sm[s].pc = "counted"
      /\ UNCHANGED <<assoc, ids, addr, late>> /\ seidMap' = [seidMap EXCEPT ![seidCount] = s]
      /\ default' = default /\ seidCount' = seidCount /\ raced' = raced
      /\ Put(s, y)
  <2>1. Put(s, y)
      BY Zenon DEF ReadSEID
  <2>2. /\ At(s, "counted") /\ UNCHANGED <<assoc, default, ids, addr, seidCount, raced, late>>
        /\ seidMap' = [seidMap EXCEPT ![seidCount] = s]
      BY Zenon DEF ReadSEID
  <2> HIDE DEF y
  <2> QED BY <2>1, <2>2 DEF At
<1>2. /\ TypeOK /\ Shaped /\ Counting /\ RoutedBySeid
      /\ sm[s] \in SmType /\ sm[s] \in SmFields /\ Shape(sm[s])
      /\ \A j \in Hops : sm[s].pdr[j] = {} /\ sm[s].far[j] = {}
    BY <1>1, SessionIs
<1>3. /\ sm[s].path \in AllPaths /\ Len(sm[s].path) \in Hops /\ sm[s].n \in 0..2
      /\ sm[s].n < Len(sm[s].path)
    BY <1>1, <1>2, Types, PathIs DEF Shape
<1>4. k \in Hops /\ k \in SmSteps /\ 0 \in SmSteps /\ k = sm[s].n + 1
  <2> DEFINE n == sm[s].n
             d == Len(sm[s].path)
  <2>0. n \in 0..2 /\ d \in 1..2 /\ n < d
      BY <1>3 DEF Hops
  <2> HIDE DEF n, d
  <2>1. n = 0 \/ n = 1
      BY <2>0
  <2>2. k = 1 \/ k = 2
      BY <2>1 DEF n
  <2> QED BY <2>2 DEF Hops, SmSteps
<1>5. seidCount > 0 /\ seidCount \in Seids
    BY <1>1, <1>2 DEF Counting, TypeOK
<1> HIDE DEF k
<1>6. /\ z \in SmSeids /\ z[k] = seidCount
      /\ \A j \in Hops : j # k => z[j] = sm[s].seid[j]
    BY <1>2, <1>4, <1>5, Types DEF SmSeids
<1>7. x = [sm[s] EXCEPT !.seid = z]
    OBVIOUS
<1> HIDE DEF z, x
<1>8. x \in SmFields
    BY <1>2, <1>6, <1>7, Zenon DEF SmFields
<1>9. /\ x.path = sm[s].path /\ x.born = sm[s].born /\ x.seid = z
      /\ x.pdr = sm[s].pdr /\ x.far = sm[s].far /\ x.rule = sm[s].rule /\ x.ue = sm[s].ue
    BY <1>2, <1>6, <1>7, Zenon DEF SmFields
<1>10. "path" \in Labels /\ "activating" \in Labels
    BY DEF Labels
<1>11. y1 \in SmFields /\ y2 \in SmFields
    BY <1>4, <1>8, <1>10, Zenon DEF SmFields
<1>12. /\ y1.pc = "path" /\ y1.n = k
       /\ y1.path = x.path /\ y1.born = x.born /\ y1.seid = x.seid
       /\ y1.pdr = x.pdr /\ y1.far = x.far /\ y1.rule = x.rule /\ y1.ue = x.ue
    BY <1>4, <1>8, <1>10, Zenon DEF SmFields
<1>13. /\ y2.pc = "activating" /\ y2.n = 0
       /\ y2.path = x.path /\ y2.born = x.born /\ y2.seid = x.seid
       /\ y2.pdr = x.pdr /\ y2.far = x.far /\ y2.rule = x.rule /\ y2.ue = x.ue
    BY <1>4, <1>8, <1>10, Zenon DEF SmFields
<1> HIDE DEF y1, y2
<1>14. /\ y.path = sm[s].path /\ y.born = sm[s].born /\ y.seid = z
       /\ y.pdr = sm[s].pdr /\ y.far = sm[s].far /\ y.rule = sm[s].rule /\ y.ue = sm[s].ue
       /\ \/ y.pc = "path" /\ y.n = k /\ k < Len(sm[s].path)
          \/ y.pc = "activating" /\ y.n = 0
       /\ y \in SmType
    BY <1>9, <1>11, <1>12, <1>13, SmTypeIs
<1> HIDE DEF y
<1>15. sm'[s] = y /\ \A t \in Sessions : t # s => sm'[t] = sm[t]
    BY <1>1, <1>2, <1>14, Turn
<1>16. Counting' /\ RoutedBySeid'
    BY <1>1, <1>2, <1>4, <1>6, <1>14, <1>15, CountingRead
<1>17. y.seid[1] # 0
  <2>1. CASE k = 1
      BY <1>5, <1>6, <1>14, <2>1 DEF Seids
  <2>2. CASE k = 2
    <3>1. sm[s].seid[1] # 0
        BY <1>1, <1>2, <1>3, <1>4, <2>2 DEF Shape
    <3> QED BY <1>6, <1>14, <2>2, <3>1 DEF Hops
  <2> QED BY <1>4, <2>1, <2>2 DEF Hops
<1>18. Shape(y)
    BY <1>2, <1>3, <1>4, <1>14, <1>17, PathIs DEF Shape, Hops
<1>19. seidCount' \in Seids \cup {0} /\ raced' \subseteq Sessions
       /\ seidMap' \in [Seids -> Sessions \cup {NoSession}] /\ default' \in {<<>>} \cup AllPaths
    BY <1>1, <1>2 DEF TypeOK, AllPaths
<1>20. (\A j \in Hops : y.pdr[j] = {} /\ y.far[j] = {}) /\ sm[s].far[1] = {}
    BY <1>2, <1>14 DEF Hops
<1> QED BY <1>1, <1>14, <1>16, <1>18, <1>19, <1>20, InvQuiet
----------------------------------------------------------------------------
(* Activation.                                                             *)

\* The node of the path whose tunnels are next.
LEMMA NextNode ==
    ASSUME Inv, NEW s \in Sessions, sm[s].pc = "activating", sm[s].n + 1 <= Len(sm[s].path)
    PROVE  /\ sm[s].n + 1 \in Hops /\ sm[s].n + 1 \in SmSteps
           /\ sm[s].n + 1 \in 1..Len(sm[s].path) /\ On(sm[s], sm[s].n + 1)
           /\ sm[s].path[sm[s].n + 1] \in Upfs /\ sm[s].path \in AllPaths
           /\ gen[sm[s].path[sm[s].n + 1]] \in GenType
           /\ sm[s].pdr[sm[s].n + 1] = {} /\ sm[s].far[sm[s].n + 1] = {}
<1> DEFINE n == sm[s].n
           d == Len(sm[s].path)
           k == n + 1
<1>1. TypeOK /\ Shape(sm[s]) /\ sm[s] \in SmType
    BY SessionIs
<1>2. sm[s].path \in AllPaths /\ n \in 0..2
    BY <1>1, Types DEF Shape
<1>3. d \in 1..2 /\ \A j \in 1..d : j \in Hops /\ sm[s].path[j] \in Upfs
    BY <1>2, PathIs DEF Hops
<1>4. n + 1 <= d /\ (\A j \in Hops : j > n => sm[s].pdr[j] = {} /\ sm[s].far[j] = {})
    BY <1>1 DEF Shape
<1>5. sm[s].path # <<>>
    BY <1>2, PathIs
<1>6. k = n + 1
    OBVIOUS
<1> HIDE DEF n, d, k
<1>7. k \in 1..d /\ k \in 0..2 /\ k > n
  <2>1. n = 0 \/ n = 1
      BY <1>2, <1>3, <1>4
  <2>2. (n = 0 /\ k = 1) \/ (n = 1 /\ k = 2)
      BY <1>6, <2>1
  <2> QED BY <1>3, <1>4, <2>2
<1>8. k \in Hops /\ k \in SmSteps /\ sm[s].path[k] \in Upfs /\ sm[s].pdr[k] = {} /\ sm[s].far[k] = {}
    BY <1>3, <1>4, <1>7 DEF SmSteps
<1>9. On(sm[s], k)
    BY <1>5, <1>7 DEF On, d
<1>10. gen[sm[s].path[k]] \in GenType
    BY <1>1, <1>8 DEF TypeOK, GenType
<1> QED BY <1>2, <1>7, <1>8, <1>9, <1>10 DEF k, n, d

\* The session gets the ids P and F; they are the PDRs and FARs of node k.
LEMMA InvGrows ==
    ASSUME Inv, TypeOK', NEW s \in Sessions, NEW k \in Hops, NEW u \in Upfs, NEW P, NEW F,
           Grows(s, k, u, P, F), Shape(sm'[s]), ~crashed,
           UNCHANGED <<assoc, addr, seidv, late>>,
           sm'[s].born = sm[s].born, sm'[s].seid = sm[s].seid,
           sm'[s].rule = sm[s].rule, sm'[s].ue = sm[s].ue
    PROVE  Inv'
<1>1. /\ TypeOK /\ Shaped /\ Counting /\ RoutedBySeid /\ Addressed /\ Pooled
      /\ OnlyPdrIdsLost /\ (Narrow => Ruled) /\ OwnAssociation
    BY DEF Inv
<1>2. sm'[s].pc # "counted" /\ \A t \in Sessions : t # s => sm'[t] = sm[t]
    BY DEF Grows
<1>3. Shaped'
    BY <1>1, <1>2 DEF Shaped
<1>4. \A t \in Sessions : /\ \A j \in Hops : sm'[t].seid[j] = sm[t].seid[j]
                          /\ sm'[t].pc = "counted" => sm[t].pc = "counted"
    BY <1>2
<1>5. Counting' /\ RoutedBySeid'
    BY <1>1, <1>4, CountingSame
<1>6. \A t \in Sessions : /\ sm'[t].born = sm[t].born /\ sm'[t].rule \in {NoAddr, sm[t].rule}
                          /\ sm'[t].ue \in {NoAddr, sm[t].ue}
    BY <1>2
<1>7. Addressed'
    BY <1>1, <1>6, AddressedRead
<1>8. Pooled' /\ OnlyPdrIdsLost'
    BY <1>1, PooledGrows
<1>9. Narrow' => Ruled'
    BY <1>1, RuledGrows
<1>10. OwnAssociation'
    BY <1>1, AssocSame
<1> QED BY <1>3, <1>5, <1>7, <1>8, <1>9, <1>10 DEF Inv

\* Cutting an id gives a PDR id.
LEMMA PdrIDIn ==
    ASSUME NEW P \in SUBSET FarIds
    PROVE  {PdrID(i) : i \in P} \subseteq PdrIds
<1>1. ASSUME NEW i \in P PROVE PdrID(i) \in PdrIds
  <2>1. i \in Nat /\ PdrMod \in Nat \ {0}
      BY UpfAssumption DEF FarIds
  <2> QED BY <2>1, DivMod DEF PdrID, PdrIds
<1> QED BY <1>1

\* A context with the PDRs p and the FARs f at node k, its next one.
Tunnels(x, k, p, f, dl) == [x EXCEPT !.n = k, !.pdr[k] = p, !.far[k] = f, !.noDl = dl]

NewTunnels(x, k, p, f, y) ==
    /\ x \in SmType /\ Shape(x) /\ x.pc = "activating" /\ k = x.n + 1 /\ k <= Len(x.path)
    /\ k \in Hops /\ p \in SUBSET PdrIds /\ f \in SUBSET FarIds
    /\ \E dl \in BOOLEAN : y = Tunnels(x, k, p, f, dl)

LEMMA TunnelsIs ==
    ASSUME NEW x, NEW k, NEW p, NEW f, NEW y, NewTunnels(x, k, p, f, y)
    PROVE  /\ y \in SmType /\ Shape(y) /\ y.pc = x.pc /\ y.path = x.path /\ y.born = x.born
           /\ y.seid = x.seid /\ y.rule = x.rule /\ y.ue = x.ue
           /\ y.far[k] = f /\ y.pdr[k] = p
           /\ \A j \in Hops : j # k => y.far[j] = x.far[j] /\ y.pdr[j] = x.pdr[j]
<1> DEFINE a == [x.pdr EXCEPT ![k] = p]
           c == [x.far EXCEPT ![k] = f]
<1>0. /\ x \in SmType /\ Shape(x) /\ x.pc = "activating" /\ k = x.n + 1 /\ k <= Len(x.path)
      /\ k \in Hops /\ p \in SUBSET PdrIds /\ f \in SUBSET FarIds
    BY DEF NewTunnels
<1>0a. PICK dl \in BOOLEAN : y = Tunnels(x, k, p, f, dl)
    BY DEF NewTunnels
<1>1. y = [x EXCEPT !.n = k, !.pdr = a, !.far = c, !.noDl = dl]
    BY <1>0a DEF Tunnels
<1>2. /\ a \in SmPdrs /\ a[k] = p /\ (\A j \in Hops : j # k => a[j] = x.pdr[j])
      /\ c \in SmFars /\ c[k] = f /\ (\A j \in Hops : j # k => c[j] = x.far[j])
    BY <1>0, Types DEF SmPdrs, SmFars
<1>3. k \in SmSteps /\ x \in SmFields
    BY <1>0, SmTypeIs DEF SmSteps, Hops
<1> HIDE DEF a, c
<1>4. y \in SmFields
    BY <1>1, <1>2, <1>3, Zenon DEF SmFields
<1>5. /\ y.pc = x.pc /\ y.path = x.path /\ y.n = k /\ y.born = x.born
      /\ y.seid = x.seid /\ y.rule = x.rule /\ y.ue = x.ue /\ y.far = c /\ y.pdr = a
    BY <1>1, <1>2, <1>3, Zenon DEF SmFields
<1>6. \A j \in Hops : j > k => y.pdr[j] = {} /\ y.far[j] = {}
  <2>1. x.n \in Nat /\ \A j \in Hops : j > x.n => x.pdr[j] = {} /\ x.far[j] = {}
      BY <1>0, Types DEF Shape
  <2>2. \A j \in Hops : j > k => j > x.n /\ j # k
      BY <1>0, <2>1 DEF Hops
  <2> QED BY <1>2, <1>5, <2>1, <2>2
<1>7. Shape(y)
    BY <1>0, <1>5, <1>6 DEF Shape
<1> QED BY <1>2, <1>4, <1>5, <1>7, SmTypeIs

\* The generator of UPF u goes to h and the context to y; P and F are new.
Gives(s, k, u, h, P, F, y) ==
    /\ sm[s].pc = "activating" /\ On(sm[s], k) /\ u = sm[s].path[k]
    /\ sm[s].pdr[k] = {} /\ sm[s].far[k] = {}
    /\ P \subseteq FarIds /\ F \subseteq FarIds
    /\ P \cap gen[u].used = {} /\ F \cap gen[u].used = {} /\ P \cap F = {}
    /\ h \in GenType /\ h.used = gen[u].used \cup P \cup F
    /\ gen' = [gen EXCEPT ![u] = h]
    /\ farPool' = [farPool EXCEPT ![u] = @ \cup F]
    /\ pdrEver' = [pdrEver EXCEPT ![u] = @ \cup P]
    /\ UNCHANGED <<assoc, default, rules, addr, seidv, late>>
    /\ y.path = sm[s].path /\ y.pc \in {"activating", "failed"} /\ y.born = sm[s].born
    /\ y.seid = sm[s].seid /\ y.rule = sm[s].rule /\ y.ue = sm[s].ue
    /\ y.far[k] = F /\ y.pdr[k] \subseteq {PdrID(i) : i \in P}
    /\ \A j \in Hops : j # k => y.far[j] = sm[s].far[j] /\ y.pdr[j] = sm[s].pdr[j]

LEMMA InvGiven ==
    ASSUME Inv, NEW s \in Sessions, NEW k \in Hops, NEW u \in Upfs, NEW h, NEW P, NEW F,
           NEW y \in SmType, Put(s, y), Shape(y), ~crashed, Gives(s, k, u, h, P, F, y)
    PROVE  Inv'
<1>1. TypeOK
    BY DEF Inv
<1>2. /\ sm' \in [Sessions -> SmType] /\ sm'[s] = y
      /\ \A t \in Sessions : t # s => sm'[t] = sm[t]
    BY <1>1, Turn
<1>3. /\ gen \in [Upfs -> GenType] /\ farPool \in [Upfs -> SUBSET FarIds]
      /\ pdrEver \in [Upfs -> SUBSET FarIds]
    BY <1>1 DEF TypeOK, GenType
<1>4. /\ gen' \in [Upfs -> GenType] /\ farPool' \in [Upfs -> SUBSET FarIds]
      /\ pdrEver' \in [Upfs -> SUBSET FarIds]
    BY <1>3 DEF Gives
<1>5. TypeOK'
    BY <1>1, <1>2, <1>4 DEF Gives, TypeOK, GenType, assoc, seidv
<1>6. /\ gen'[u] = h /\ farPool'[u] = farPool[u] \cup F /\ pdrEver'[u] = pdrEver[u] \cup P
      /\ \A v \in Upfs : v # u => /\ gen'[v] = gen[v] /\ farPool'[v] = farPool[v]
                                  /\ pdrEver'[v] = pdrEver[v]
    BY <1>3 DEF Gives
<1>7. Grows(s, k, u, P, F)
    BY <1>2, <1>6 DEF Gives, Grows
<1>8. /\ sm'[s].born = sm[s].born /\ sm'[s].seid = sm[s].seid /\ sm'[s].rule = sm[s].rule
      /\ sm'[s].ue = sm[s].ue /\ UNCHANGED <<assoc, addr, seidv, late>> /\ Shape(sm'[s])
    BY <1>2 DEF Gives
<1> QED BY <1>5, <1>7, <1>8, InvGrows

LEMMA InvActivateTunnels ==
    ASSUME Inv, NEW s \in Sessions, ActivateTunnels(s)
    PROVE  Inv'
<1> DEFINE k  == sm[s].n + 1
           u  == sm[s].path[k]
           g0 == gen[u]
           g1 == Allocate(g0)
           g2 == Allocate(g1)
           g3 == Allocate(g2)
           h  == Allocate(g3)
           P  == Given(g0) \cup Given(g2)
           F  == Given(g1) \cup Given(g3)
           p  == {PdrID(i) : i \in P}
           y  == Tunnels(sm[s], k, p, F, sm[s].noDl)
<1>1. /\ At(s, "activating") /\ k <= Len(sm[s].path)
      /\ gen' = [gen EXCEPT ![u] = h]
      /\ farPool' = [farPool EXCEPT ![u] = @ \cup F]
      /\ pdrEver' = [pdrEver EXCEPT ![u] = @ \cup P]
      /\ Put(s, [sm[s] EXCEPT !.n = k, !.pdr[k] = p, !.far[k] = F])
      /\ UNCHANGED <<assoc, default, rules, addr, seidv, late>>
    BY Zenon DEF ActivateTunnels
<1>2. ~crashed /\ sm[s].pc = "activating"
    BY <1>1 DEF At
<1>3. /\ k \in Hops /\ On(sm[s], k) /\ u \in Upfs /\ g0 \in GenType
      /\ sm[s].pdr[k] = {} /\ sm[s].far[k] = {}
    BY <1>1, <1>2, NextNode
<1>4. /\ g1 \in GenType /\ g2 \in GenType /\ g3 \in GenType /\ h \in GenType
    BY <1>3, AllocateIs
<1> HIDE DEF g0
<1>5. /\ Given(g0) \subseteq FarIds /\ Given(g0) \cap g0.used = {} /\ g1.used = g0.used \cup Given(g0)
    BY <1>3, AllocateIs
<1> HIDE DEF g1
<1>6. /\ Given(g1) \subseteq FarIds /\ Given(g1) \cap g1.used = {} /\ g2.used = g1.used \cup Given(g1)
    BY <1>4, AllocateIs
<1> HIDE DEF g2
<1>7. /\ Given(g2) \subseteq FarIds /\ Given(g2) \cap g2.used = {} /\ g3.used = g2.used \cup Given(g2)
    BY <1>4, AllocateIs
<1> HIDE DEF g3
<1>8. /\ Given(g3) \subseteq FarIds /\ Given(g3) \cap g3.used = {} /\ h.used = g3.used \cup Given(g3)
    BY <1>4, AllocateIs
<1> HIDE DEF h
<1>9. /\ P \in SUBSET FarIds /\ F \in SUBSET FarIds
      /\ P \cap g0.used = {} /\ F \cap g0.used = {} /\ P \cap F = {}
      /\ h.used = g0.used \cup P \cup F
    BY <1>5, <1>6, <1>7, <1>8
<1> HIDE DEF P, F
<1>10. p \subseteq PdrIds
    BY <1>9, PdrIDIn
<1> HIDE DEF p
<1>11. sm[s] \in SmType /\ Shape(sm[s]) /\ sm[s].noDl \in BOOLEAN /\ sm[s] \in SmFields /\ TypeOK
    BY SessionIs, Types
<1> HIDE DEF k, u
<1>12. k = sm[s].n + 1 /\ u = sm[s].path[k] /\ g0 = gen[u] /\ p = {PdrID(i) : i \in P}
    BY DEF k, u, g0, p
<1>13. y = [sm[s] EXCEPT !.n = k, !.pdr[k] = p, !.far[k] = F]
    BY <1>11 DEF Tunnels, SmFields
<1>14. y = Tunnels(sm[s], k, p, F, sm[s].noDl) /\ Put(s, y)
    BY <1>1, <1>13
<1> HIDE DEF y
<1>15. /\ y \in SmType /\ Shape(y) /\ y.pc = sm[s].pc /\ y.path = sm[s].path
       /\ y.born = sm[s].born /\ y.seid = sm[s].seid /\ y.rule = sm[s].rule /\ y.ue = sm[s].ue
       /\ y.far[k] = F /\ y.pdr[k] = p
       /\ \A j \in Hops : j # k => y.far[j] = sm[s].far[j] /\ y.pdr[j] = sm[s].pdr[j]
  <2> DEFINE x == sm[s]
  <2>1. /\ x \in SmType /\ Shape(x) /\ x.pc = "activating" /\ k = x.n + 1 /\ k <= Len(x.path)
        /\ k \in Hops /\ p \in SUBSET PdrIds /\ F \in SUBSET FarIds
      BY <1>1, <1>2, <1>3, <1>9, <1>10, <1>11, <1>12
  <2>3. NewTunnels(x, k, p, F, y)
      BY <1>11, <1>14, <2>1, Zenon DEF NewTunnels
  <2> HIDE DEF x
  <2>2. /\ y \in SmType /\ Shape(y) /\ y.pc = x.pc /\ y.path = x.path
        /\ y.born = x.born /\ y.seid = x.seid /\ y.rule = x.rule /\ y.ue = x.ue
        /\ y.far[k] = F /\ y.pdr[k] = p
        /\ \A j \in Hops : j # k => y.far[j] = x.far[j] /\ y.pdr[j] = x.pdr[j]
      BY <2>1, <2>3, TunnelsIs, SMT
  <2> QED BY <2>2 DEF x
<1>16. /\ P \cap gen[u].used = {} /\ F \cap gen[u].used = {} /\ P \cap F = {}
       /\ h.used = gen[u].used \cup P \cup F
    BY <1>9, <1>12
<1>17. y.pc \in {"activating", "failed"} /\ y.pdr[k] \subseteq {PdrID(i) : i \in P}
    BY <1>2, <1>12, <1>15
<1>18. Gives(s, k, u, h, P, F, y)
    BY <1>1, <1>2, <1>3, <1>4, <1>9, <1>12, <1>15, <1>16, <1>17 DEF Gives
<1> QED BY <1>2, <1>3, <1>14, <1>15, <1>18, InvGiven

LEMMA InvDownLinkFails ==
    ASSUME Inv, NEW s \in Sessions, DownLinkFails(s)
    PROVE  Inv'
<1> DEFINE k  == sm[s].n + 1
           u  == sm[s].path[k]
           g0 == gen[u]
           g1 == Allocate(g0)
           g2 == Allocate(g1)
           h  == Allocate(g2)
           P1 == Given(g0)
           P2 == Given(g2)
           P  == P1 \cup P2
           F  == Given(g1)
           p  == {PdrID(i) : i \in P1}
           y  == Tunnels(sm[s], k, p, F, TRUE)
<1>1. /\ At(s, "activating") /\ k <= Len(sm[s].path)
      /\ gen' = [gen EXCEPT ![u] = h]
      /\ farPool' = [farPool EXCEPT ![u] = @ \cup F]
      /\ pdrEver' = [pdrEver EXCEPT ![u] = @ \cup P1 \cup P2]
      /\ Put(s, y)
      /\ UNCHANGED <<assoc, default, rules, addr, seidv, late>>
    BY Zenon DEF DownLinkFails, Tunnels
<1>2. ~crashed /\ sm[s].pc = "activating"
    BY <1>1 DEF At
<1>3. /\ k \in Hops /\ On(sm[s], k) /\ u \in Upfs /\ g0 \in GenType
      /\ sm[s].pdr[k] = {} /\ sm[s].far[k] = {}
    BY <1>1, <1>2, NextNode
<1>4. /\ g1 \in GenType /\ g2 \in GenType /\ h \in GenType
    BY <1>3, AllocateIs
<1> HIDE DEF g0
<1>5. /\ P1 \subseteq FarIds /\ P1 \cap g0.used = {} /\ g1.used = g0.used \cup P1
    BY <1>3, AllocateIs
<1> HIDE DEF g1
<1>6. /\ F \subseteq FarIds /\ F \cap g1.used = {} /\ g2.used = g1.used \cup F
    BY <1>4, AllocateIs
<1> HIDE DEF g2
<1>7. /\ P2 \subseteq FarIds /\ P2 \cap g2.used = {} /\ h.used = g2.used \cup P2
    BY <1>4, AllocateIs
<1> HIDE DEF h, P1, P2, F
<1>8. /\ P \subseteq FarIds /\ P1 \subseteq P
      /\ P \cap g0.used = {} /\ F \cap g0.used = {} /\ P \cap F = {}
      /\ h.used = g0.used \cup P \cup F
    BY <1>5, <1>6, <1>7
<1>9. p \subseteq PdrIds
    BY <1>5, PdrIDIn
<1>10. p \subseteq {PdrID(i) : i \in P}
    BY <1>8
<1>11. sm[s] \in SmType /\ Shape(sm[s]) /\ TypeOK
    BY SessionIs
<1>12. k = sm[s].n + 1 /\ u = sm[s].path[k] /\ g0 = gen[u] /\ u \in Upfs
    BY <1>3 DEF k, u, g0
<1>13. y = Tunnels(sm[s], k, p, F, TRUE)
    OBVIOUS
<1> HIDE DEF k, u, p, P, y
<1>14. /\ y \in SmType /\ Shape(y) /\ y.pc = sm[s].pc /\ y.path = sm[s].path
       /\ y.born = sm[s].born /\ y.seid = sm[s].seid /\ y.rule = sm[s].rule /\ y.ue = sm[s].ue
       /\ y.far[k] = F /\ y.pdr[k] = p
       /\ \A j \in Hops : j # k => y.far[j] = sm[s].far[j] /\ y.pdr[j] = sm[s].pdr[j]
  <2> DEFINE x == sm[s]
  <2>1. /\ x \in SmType /\ Shape(x) /\ x.pc = "activating" /\ k = x.n + 1 /\ k <= Len(x.path)
        /\ k \in Hops /\ p \in SUBSET PdrIds /\ F \in SUBSET FarIds
      BY <1>1, <1>2, <1>3, <1>6, <1>9, <1>11, <1>12
  <2>3. NewTunnels(x, k, p, F, y)
      BY <1>13, <2>1, Zenon DEF NewTunnels
  <2> HIDE DEF x
  <2>2. /\ y \in SmType /\ Shape(y) /\ y.pc = x.pc /\ y.path = x.path
        /\ y.born = x.born /\ y.seid = x.seid /\ y.rule = x.rule /\ y.ue = x.ue
        /\ y.far[k] = F /\ y.pdr[k] = p
        /\ \A j \in Hops : j # k => y.far[j] = x.far[j] /\ y.pdr[j] = x.pdr[j]
      BY <2>1, <2>3, TunnelsIs, SMT
  <2> QED BY <2>2 DEF x
<1>15. pdrEver' = [pdrEver EXCEPT ![u] = @ \cup P]
    BY <1>1 DEF P
<1>16. /\ P \cap gen[u].used = {} /\ F \cap gen[u].used = {} /\ P \cap F = {}
       /\ h.used = gen[u].used \cup P \cup F
    BY <1>8, <1>12
<1>17. y.pc \in {"activating", "failed"} /\ y.pdr[k] \subseteq {PdrID(i) : i \in P}
    BY <1>2, <1>10, <1>14
<1>18. Gives(s, k, u, h, P, F, y)
    BY <1>1, <1>2, <1>3, <1>4, <1>6, <1>8, <1>12, <1>14, <1>15, <1>16, <1>17 DEF Gives
<1> QED BY <1>1, <1>2, <1>3, <1>14, <1>18, InvGiven

\* A context that fails and keeps what it has.
LEMMA FailedIs ==
    ASSUME NEW x \in SmType, Shape(x), NEW y, y = [x EXCEPT !.pc = "failed"]
    PROVE  /\ y \in SmType /\ Shape(y) /\ y.pc = "failed" /\ y.path = x.path /\ y.born = x.born
           /\ y.seid = x.seid /\ y.rule = x.rule /\ y.ue = x.ue /\ y.far = x.far /\ y.pdr = x.pdr
<1>1. x \in SmFields /\ "failed" \in Labels
    BY SmTypeIs DEF Labels
<1>2. y \in SmFields
    BY <1>1, Zenon DEF SmFields
<1>3. /\ y.pc = "failed" /\ y.path = x.path /\ y.born = x.born
      /\ y.seid = x.seid /\ y.rule = x.rule /\ y.ue = x.ue /\ y.far = x.far /\ y.pdr = x.pdr
    BY <1>1, Zenon DEF SmFields
<1>4. Shape(y)
    BY <1>3 DEF Shape
<1> QED BY <1>2, <1>3, <1>4, SmTypeIs

LEMMA InvUpLinkPanics ==
    ASSUME Inv, NEW s \in Sessions, UpLinkPanics(s)
    PROVE  Inv'
<1> DEFINE k == sm[s].n + 1
           u == sm[s].path[k]
           h == IF status[u] THEN Allocate(gen[u]) ELSE gen[u]
           P == h.used \ gen[u].used
           F == {}
           y == [sm[s] EXCEPT !.pc = "failed"]
<1>1. /\ At(s, "activating") /\ k <= Len(sm[s].path)
      /\ gen' = [gen EXCEPT ![u] = h]
      /\ pdrEver' = [pdrEver EXCEPT ![u] = @ \cup P]
      /\ Put(s, y)
      /\ UNCHANGED <<assoc, default, farPool, rules, addr, seidv, late>>
    BY Zenon DEF UpLinkPanics
<1>2. ~crashed /\ sm[s].pc = "activating"
    BY <1>1 DEF At
<1>3. /\ k \in Hops /\ On(sm[s], k) /\ u \in Upfs /\ gen[u] \in GenType
      /\ sm[s].pdr[k] = {} /\ sm[s].far[k] = {}
    BY <1>1, <1>2, NextNode
<1>4. u = sm[s].path[k]
    OBVIOUS
<1> HIDE DEF k, u
<1>5. h \in GenType /\ gen[u].used \subseteq h.used
    BY <1>3, AllocateIs
<1> HIDE DEF h
<1>6. /\ P \subseteq FarIds /\ F \subseteq FarIds
      /\ P \cap gen[u].used = {} /\ F \cap gen[u].used = {} /\ P \cap F = {}
      /\ h.used = gen[u].used \cup P \cup F
    BY <1>5 DEF GenType
<1> HIDE DEF P, y
<1>7. TypeOK /\ sm[s] \in SmType /\ Shape(sm[s])
    BY SessionIs
<1>8. /\ y \in SmType /\ Shape(y) /\ y.pc = "failed" /\ y.path = sm[s].path
      /\ y.born = sm[s].born /\ y.seid = sm[s].seid /\ y.rule = sm[s].rule /\ y.ue = sm[s].ue
      /\ y.far = sm[s].far /\ y.pdr = sm[s].pdr
  <2> DEFINE x == sm[s]
  <2>1. x \in SmType /\ Shape(x) /\ y = [x EXCEPT !.pc = "failed"]
      BY <1>7 DEF y
  <2> HIDE DEF x
  <2>2. /\ y \in SmType /\ Shape(y) /\ y.pc = "failed" /\ y.path = x.path /\ y.born = x.born
        /\ y.seid = x.seid /\ y.rule = x.rule /\ y.ue = x.ue /\ y.far = x.far /\ y.pdr = x.pdr
      BY <2>1, FailedIs
  <2> QED BY <2>2 DEF x
<1>9. farPool' = [farPool EXCEPT ![u] = @ \cup F]
    BY <1>1, <1>3, <1>7 DEF TypeOK
<1>10. y.far[k] = F /\ y.pdr[k] \subseteq {PdrID(i) : i \in P}
    BY <1>3, <1>8
<1> HIDE DEF F
<1>11. UNCHANGED <<assoc, default, rules, addr, seidv, late>>
    BY <1>1
<1>12. Gives(s, k, u, h, P, F, y)
    BY <1>1, <1>2, <1>3, <1>4, <1>5, <1>6, <1>8, <1>9, <1>10, <1>11 DEF Gives
<1> QED BY <1>1, <1>2, <1>3, <1>8, <1>12, InvGiven

LEMMA InvDownLinkPanics ==
    ASSUME Inv, NEW s \in Sessions, DownLinkPanics(s)
    PROVE  Inv'
<1> DEFINE x == sm[s]
           y == [x EXCEPT !.pc = "failed"]
<1>1. /\ ~crashed /\ x.pc = "activating" /\ Put(s, y)
      /\ UNCHANGED <<assoc, default, ids, addr, seidv, late>>
    BY DEF DownLinkPanics, At
<1>2. /\ TypeOK /\ Shaped /\ Counting /\ RoutedBySeid /\ Addressed /\ Pooled
      /\ OnlyPdrIdsLost /\ (Narrow => Ruled) /\ OwnAssociation /\ x \in SmType /\ Shape(x)
    BY SessionIs
<1>3. y = [x EXCEPT !.pc = "failed"] /\ x = sm[s]
    OBVIOUS
<1> HIDE DEF x, y
<1>4. /\ y \in SmType /\ Shape(y) /\ y.pc = "failed" /\ y.path = x.path /\ y.born = x.born
      /\ y.seid = x.seid /\ y.rule = x.rule /\ y.ue = x.ue /\ y.far = x.far /\ y.pdr = x.pdr
    BY <1>2, <1>3, FailedIs
<1>5. /\ sm' \in [Sessions -> SmType] /\ sm'[s] = y
      /\ \A t \in Sessions : t # s => sm'[t] = sm[t]
    BY <1>1, <1>2, <1>4, Turn
<1>6. /\ gen' = gen /\ farPool' = farPool /\ pdrEver' = pdrEver /\ rules' = rules
      /\ addr' = addr /\ late' = late /\ UNCHANGED assoc /\ UNCHANGED seidv /\ default' = default
    BY <1>1 DEF ids
<1>7. TypeOK'
    BY <1>2, <1>5, <1>6 DEF TypeOK, assoc, seidv
<1>8. Shaped'
    BY <1>1, <1>2, <1>4, ShapedTurn
<1>9. \A t \in Sessions : /\ sm'[t].seid = sm[t].seid /\ sm'[t].born = sm[t].born
                          /\ sm'[t].rule = sm[t].rule /\ sm'[t].ue = sm[t].ue
                          /\ sm'[t].path = sm[t].path /\ sm'[t].far = sm[t].far
                          /\ sm'[t].pdr = sm[t].pdr /\ sm'[t].pc \in {sm[t].pc, "failed"}
    BY <1>3, <1>4, <1>5
<1>10. Counting' /\ RoutedBySeid'
    BY <1>2, <1>6, <1>9, CountingSame
<1>11. Addressed'
    BY <1>2, <1>6, <1>7, <1>9, AddressedRead
<1>12. Pooled' /\ OnlyPdrIdsLost'
    BY <1>2, <1>6, <1>9, PooledSame
<1>13. Narrow' => Ruled'
    BY <1>2, <1>6, <1>9, RuledSame
<1>14. OwnAssociation'
    BY <1>1, <1>2, <1>6, AssocSame
<1> QED BY <1>7, <1>8, <1>10, <1>11, <1>12, <1>13, <1>14 DEF Inv
----------------------------------------------------------------------------
(* Requests to the UPFs, their answers, and release.                       *)

\* The PDR ids that session s installs in UPF u.
New(s, u) == UNION {sm[s].pdr[k] : k \in {j \in 1..Len(sm[s].path) : sm[s].path[j] = u}}

LEMMA RuledSend ==
    ASSUME TypeOK, Shaped, Ruled, pdrEver' = pdrEver, NEW s \in Sessions,
           sm[s].pc = "activating", sm'[s].pc = "active",
           sm'[s].path = sm[s].path, sm'[s].pdr = sm[s].pdr,
           \A t \in Sessions : t # s => sm'[t] = sm[t],
           \A u \in Upfs, i \in PdrIds :
               rules'[u][i] = IF i \in New(s, u) THEN Installed(s, u, i) ELSE rules[u][i]
    PROVE  Ruled'
<1>1. sm[s].path \in AllPaths /\ sm[s] \in SmType
    BY DEF Shaped, Shape, TypeOK
<1>2. \A k \in 1..Len(sm[s].path) : k \in Hops /\ sm[s].path[k] \in Upfs /\ On(sm[s], k)
    BY <1>1, PathIs DEF On
<1>3. \A t \in Sessions, j \in Hops : On(sm'[t], j) <=> On(sm[t], j)
    BY DEF On
<1>4. \A t \in Sessions : sm'[t].path = sm[t].path /\ sm'[t].pdr = sm[t].pdr
    OBVIOUS
<1>5. \A t \in Sessions, j \in Hops : On(sm[t], j) =>
          sm[t].path[j] \in Upfs /\ sm[t].pdr[j] \subseteq PdrIds
    BY PathIs, Types DEF Shaped, Shape, On, TypeOK
<1>6. ASSUME NEW u \in Upfs, NEW i \in New(s, u)
      PROVE  rules[u][i] = NoSession /\ i \in PdrIds /\ i \in pdrEver[u]
             /\ \E k \in Hops : On(sm[s], k) /\ sm[s].path[k] = u /\ i \in sm[s].pdr[k]
  <2>1. PICK k \in 1..Len(sm[s].path) : sm[s].path[k] = u /\ i \in sm[s].pdr[k]
      BY <1>6 DEF New
  <2>2. k \in Hops /\ On(sm[s], k)
      BY <1>2
  <2>3. rules[u][i] = NoSession /\ i \in pdrEver[u] /\ i \in PdrIds
      BY <1>5, <2>1, <2>2 DEF Ruled
  <2> QED BY <2>1, <2>2, <2>3
<1>8. \A u \in Upfs, i \in PdrIds : rules'[u][i] = IF i \in New(s, u) THEN s ELSE rules[u][i]
    BY <1>6 DEF Installed
<1>9. \A t \in Sessions : \A k \in Hops : On(sm'[t], k) =>
           sm'[t].pdr[k] \subseteq pdrEver'[sm'[t].path[k]]
    BY <1>3, <1>4 DEF Ruled
<1>10. \A r, t \in Sessions : \A k, j \in Hops :
           r # t /\ On(sm'[r], k) /\ On(sm'[t], j) /\ sm'[r].path[k] = sm'[t].path[j]
               => sm'[r].pdr[k] \cap sm'[t].pdr[j] = {}
    BY <1>3, <1>4 DEF Ruled
<1>11. \A u \in Upfs, i \in PdrIds : rules'[u][i] # NoSession => i \in pdrEver'[u]
    BY <1>6, <1>8 DEF Ruled
<1>12. ASSUME NEW t \in Sessions, t # s, NEW j \in Hops, On(sm[t], j), NEW i \in sm[t].pdr[j]
       PROVE  rules'[sm[t].path[j]][i] = rules[sm[t].path[j]][i]
  <2>1. sm[t].path[j] \in Upfs /\ i \in PdrIds
      BY <1>5, <1>12
  <2>2. i \notin New(s, sm[t].path[j])
    <3> SUFFICES ASSUME i \in New(s, sm[t].path[j]) PROVE FALSE
        OBVIOUS
    <3>1. PICK k \in Hops : On(sm[s], k) /\ sm[s].path[k] = sm[t].path[j] /\ i \in sm[s].pdr[k]
        BY <1>6, <2>1
    <3> QED BY <1>12, <3>1 DEF Ruled
  <2> QED BY <1>8, <2>1, <2>2
<1>13. ASSUME NEW t \in Sessions, NEW j \in Hops, On(sm'[t], j), sm'[t].pc = "activating",
              NEW i \in sm'[t].pdr[j]
       PROVE  rules'[sm'[t].path[j]][i] = NoSession
  <2>1. t # s /\ sm'[t] = sm[t] /\ On(sm[t], j)
      BY <1>3, <1>13
  <2>2. rules[sm[t].path[j]][i] = NoSession
      BY <1>13, <2>1 DEF Ruled
  <2>3. i \in sm[t].pdr[j]
      BY <1>13, <2>1
  <2> QED BY <1>12, <2>1, <2>2, <2>3
<1>14. ASSUME NEW t \in Sessions, NEW j \in Hops, On(sm'[t], j), sm'[t].pc = "active",
              NEW i \in sm'[t].pdr[j]
       PROVE  rules'[sm'[t].path[j]][i] = t
  <2>1. CASE t = s
    <3>1. On(sm[s], j) /\ i \in sm[s].pdr[j]
        BY <1>3, <1>4, <1>14, <2>1
    <3>2. i \in New(s, sm[s].path[j]) /\ sm[s].path[j] \in Upfs /\ i \in PdrIds
        BY <1>5, <3>1 DEF New, On
    <3> QED BY <1>4, <1>8, <2>1, <3>2
  <2>2. CASE t # s
    <3>1. sm'[t] = sm[t] /\ On(sm[t], j) /\ i \in sm[t].pdr[j]
        BY <1>3, <1>14, <2>2
    <3>2. rules[sm[t].path[j]][i] = t
        BY <1>14, <3>1 DEF Ruled
    <3> QED BY <1>12, <2>2, <3>1, <3>2
  <2> QED BY <2>1, <2>2
<1>15. \A t \in Sessions : \A k \in Hops : On(sm'[t], k) /\ sm'[t].pc = "activating" =>
           \A i \in sm'[t].pdr[k] : rules'[sm'[t].path[k]][i] = NoSession
    BY <1>13, Zenon
<1>16. \A t \in Sessions : \A k \in Hops : On(sm'[t], k) /\ sm'[t].pc = "active" =>
           \A i \in sm'[t].pdr[k] : rules'[sm'[t].path[k]][i] = t
    BY <1>14
<1> QED BY <1>9, <1>10, <1>11, <1>15, <1>16, Zenon DEF Ruled

LEMMA InvSendPFCPRule ==
    ASSUME Inv, NEW s \in Sessions, SendPFCPRule(s)
    PROVE  Inv'
<1> DEFINE x == sm[s]
           y == [x EXCEPT !.pc = "active", !.rule = addr]
<1>1. /\ ~crashed /\ sm[s].pc = "activating" /\ Put(s, y)
      /\ late' = IF sm[s].born = LastBorn THEN late ELSE late \cup {s}
      /\ UNCHANGED <<assoc, default, gen, farPool, pdrEver, addr, seidv>>
    BY DEF SendPFCPRule, At
<1>2. rules' = [u \in Upfs |-> [i \in PdrIds |->
                   IF i \in New(s, u) THEN Installed(s, u, i) ELSE rules[u][i]]]
    BY Zenon DEF SendPFCPRule, New
<1>3. /\ TypeOK /\ Shaped /\ Counting /\ RoutedBySeid /\ Addressed /\ Pooled
      /\ OnlyPdrIdsLost /\ (Narrow => Ruled) /\ OwnAssociation
      /\ x \in SmType /\ x \in SmFields /\ Shape(x)
    BY SessionIs
<1>4. "active" \in Labels /\ addr \in SmAddrs
    BY <1>3 DEF Labels, SmAddrs, TypeOK
<1>5. x = sm[s]
    OBVIOUS
<1> HIDE DEF x
<1>6. y \in SmFields
    BY <1>3, <1>4, Zenon DEF SmFields
<1>7. /\ y.pc = "active" /\ y.path = x.path /\ y.born = x.born /\ y.seid = x.seid
      /\ y.rule = addr /\ y.ue = x.ue /\ y.far = x.far /\ y.pdr = x.pdr
    BY <1>3, <1>4, Zenon DEF SmFields
<1> HIDE DEF y
<1>8. y \in SmType
    BY <1>6, SmTypeIs
<1>9. Shape(y)
    BY <1>1, <1>3, <1>5, <1>7 DEF Shape
<1>10. /\ sm' \in [Sessions -> SmType] /\ sm'[s] = y
       /\ \A t \in Sessions : t # s => sm'[t] = sm[t]
    BY <1>1, <1>3, <1>8, Turn
<1>11. rules' \in [Upfs -> [PdrIds -> Sessions \cup {NoSession, Orphan}]]
    BY <1>2, <1>3 DEF TypeOK, Installed
<1>12. TypeOK'
  <2>1. late' \subseteq Sessions
      BY <1>1, <1>3 DEF TypeOK
  <2> QED BY <1>1, <1>3, <1>10, <1>11, <2>1 DEF TypeOK, assoc, seidv
<1>13. Shaped'
    BY <1>1, <1>3, <1>8, <1>9, ShapedTurn
<1>14. Counting' /\ RoutedBySeid'
    BY <1>1, <1>3, <1>5, <1>7, <1>10, CountingSame
<1>15. \A t \in Sessions : sm'[t].path = sm[t].path /\ sm'[t].far = sm[t].far
    BY <1>5, <1>7, <1>10
<1>16. Pooled' /\ OnlyPdrIdsLost'
    BY <1>1, <1>3, <1>15, PooledSame
<1>17. Addressed'
  <2>1. late \subseteq late' /\ addr' = addr /\ (s \notin late' => sm[s].born = LastBorn)
      BY <1>1
  <2>2. \A t \in Sessions : sm'[t].born = sm[t].born
      BY <1>5, <1>7, <1>10
  <2>3. \A t \in Sessions \ late' :
            /\ \/ sm'[t].rule \in {NoAddr, sm[t].rule}
               \/ sm'[t].rule = addr /\ sm[t].born = LastBorn
            /\ \/ sm'[t].ue \in {NoAddr, sm[t].ue}
               \/ sm'[t].ue = addr /\ sm[t].born = LastBorn
      BY <1>5, <1>7, <1>10, <2>1
  <2> QED BY <1>3, <1>12, <2>1, <2>2, <2>3, AddressedRead
<1>18. Narrow' => Ruled'
  <2> SUFFICES ASSUME Narrow' PROVE Ruled'
      OBVIOUS
  <2>1. Ruled
      BY <1>1, <1>3 DEF Narrow
  <2>2. \A u \in Upfs, i \in PdrIds :
            rules'[u][i] = IF i \in New(s, u) THEN Installed(s, u, i) ELSE rules[u][i]
      BY <1>2
  <2>3. pdrEver' = pdrEver
      BY <1>1
  <2> QED BY <1>1, <1>3, <1>5, <1>7, <1>10, <2>1, <2>2, <2>3, RuledSend
<1>19. OwnAssociation'
    BY <1>1, <1>3, AssocSame
<1> QED BY <1>12, <1>13, <1>14, <1>16, <1>17, <1>18, <1>19 DEF Inv
\* Contexts change in no more than their addresses.
SameBut(t) ==
    /\ sm'[t].pc = sm[t].pc /\ sm'[t].path = sm[t].path /\ sm'[t].n = sm[t].n
    /\ sm'[t].born = sm[t].born /\ sm'[t].seid = sm[t].seid
    /\ sm'[t].pdr = sm[t].pdr /\ sm'[t].far = sm[t].far

LEMMA InvTouch ==
    ASSUME Inv, TypeOK', \A t \in Sessions : SameBut(t), UNCHANGED <<ids, addr, seidv>>,
           OwnAssociation', late \subseteq late',
           \A t \in Sessions \ late' :
               /\ \/ sm'[t].rule \in {NoAddr, sm[t].rule}
                  \/ sm'[t].rule = addr /\ sm[t].born = LastBorn
               /\ \/ sm'[t].ue \in {NoAddr, sm[t].ue}
                  \/ sm'[t].ue = addr /\ sm[t].born = LastBorn
    PROVE  Inv'
<1>1. /\ TypeOK /\ Shaped /\ Counting /\ RoutedBySeid /\ Addressed /\ Pooled
      /\ OnlyPdrIdsLost /\ (Narrow => Ruled)
    BY DEF Inv
<1>2. /\ gen' = gen /\ farPool' = farPool /\ pdrEver' = pdrEver /\ rules' = rules
      /\ addr' = addr /\ UNCHANGED seidv
    BY DEF ids
<1>3. Shaped'
    BY <1>1 DEF Shaped, Shape, SameBut
<1>4. Counting' /\ RoutedBySeid'
    BY <1>1, <1>2, CountingSame DEF SameBut
<1>5. \A t \in Sessions : sm'[t].born = sm[t].born
    BY DEF SameBut
<1>6. Addressed'
    BY <1>1, <1>2, <1>5, AddressedRead
<1>7. Pooled' /\ OnlyPdrIdsLost'
    BY <1>1, <1>2, PooledSame DEF SameBut
<1>8. Narrow' => Ruled'
    BY <1>1, <1>2, RuledSame DEF SameBut
<1> QED BY <1>3, <1>4, <1>6, <1>7, <1>8 DEF Inv

LEMMA UeIs ==
    ASSUME NEW x \in SmType, NEW a \in Addresses, NEW y, y = [x EXCEPT !.ue = a]
    PROVE  /\ y \in SmType /\ y.pc = x.pc /\ y.path = x.path /\ y.n = x.n /\ y.born = x.born
           /\ y.seid = x.seid /\ y.pdr = x.pdr /\ y.far = x.far /\ y.rule = x.rule /\ y.ue = a
<1>1. x \in SmFields /\ a \in SmAddrs
    BY SmTypeIs DEF SmAddrs
<1>2. y \in SmFields
    BY <1>1, Zenon DEF SmFields
<1>3. /\ y.pc = x.pc /\ y.path = x.path /\ y.n = x.n /\ y.born = x.born
      /\ y.seid = x.seid /\ y.pdr = x.pdr /\ y.far = x.far /\ y.rule = x.rule /\ y.ue = a
    BY <1>1, Zenon DEF SmFields
<1> QED BY <1>2, <1>3, SmTypeIs

LEMMA EstIs ==
    ASSUME NEW x \in SmType, NEW y, y = [x EXCEPT !.est = TRUE]
    PROVE  /\ y \in SmType /\ y.pc = x.pc /\ y.path = x.path /\ y.n = x.n /\ y.born = x.born
           /\ y.seid = x.seid /\ y.pdr = x.pdr /\ y.far = x.far /\ y.rule = x.rule /\ y.ue = x.ue
<1>1. x \in SmFields
    BY SmTypeIs
<1>2. y \in SmFields
    BY <1>1, Zenon DEF SmFields
<1>3. /\ y.pc = x.pc /\ y.path = x.path /\ y.n = x.n /\ y.born = x.born
      /\ y.seid = x.seid /\ y.pdr = x.pdr /\ y.far = x.far /\ y.rule = x.rule /\ y.ue = x.ue
    BY <1>1, Zenon DEF SmFields
<1> QED BY <1>2, <1>3, SmTypeIs

LEMMA InvEstablishmentResponse ==
    ASSUME Inv, NEW s \in Sessions, HandlePfcpSessionEstablishmentResponse(s)
    PROVE  Inv'
<1> DEFINE t == seidMap[sm[s].seid[1]]
<1>1. /\ ~crashed /\ sm[s].pc = "active"
      /\ UNCHANGED <<upfPool, status, info, answered, handled, stray, default, ids, addr, seidv>>
    BY DEF HandlePfcpSessionEstablishmentResponse, At
<1>2. TypeOK /\ RoutedBySeid /\ OwnAssociation /\ sm[s] \in SmType /\ Shape(sm[s])
    BY SessionIs
<1>3. sm[s].seid[1] \in Seids /\ 1 \in Hops
    BY <1>1, <1>2, Types DEF Shape, Hops
<1>4. t \in Sessions \cup {NoSession} /\ (s \notin raced => t = s)
    BY <1>2, <1>3 DEF TypeOK, RoutedBySeid, Seids
<1> DEFINE Bad == t = NoSession \/ (t # s /\ sm[t].pc \in {"path", "counted"})
<1>5. IF Bad
      THEN crashed' = TRUE /\ UNCHANGED <<sm, late>>
      ELSE /\ sm' = [[sm EXCEPT ![t].ue = addr] EXCEPT ![s].est = TRUE]
           /\ late' = IF sm[t].born = LastBorn THEN late ELSE late \cup {t}
           /\ UNCHANGED crashed
    BY Zenon DEF HandlePfcpSessionEstablishmentResponse
<1>6. CASE Bad
  <2>1. crashed' = TRUE /\ sm' = sm /\ late' = late
      BY <1>5, <1>6
  <2>2. s \in raced
      BY <1>4, <1>6, UpfAssumption
  <2>3. TypeOK'
      BY <1>1, <1>2, <2>1 DEF TypeOK, ids, seidv
  <2>4. OwnAssociation'
      BY <1>1, <1>2, <2>2 DEF OwnAssociation, seidv
  <2>5. \A r \in Sessions : SameBut(r) /\ sm'[r].rule = sm[r].rule /\ sm'[r].ue = sm[r].ue
      BY <2>1 DEF SameBut
  <2> QED BY <1>1, <2>1, <2>3, <2>4, <2>5, InvTouch
<1>7. CASE ~Bad
  <2>1. /\ sm' = [[sm EXCEPT ![t].ue = addr] EXCEPT ![s].est = TRUE]
        /\ late' = IF sm[t].born = LastBorn THEN late ELSE late \cup {t}
        /\ crashed' = crashed
      BY <1>5, <1>7
  <2>2. t \in Sessions /\ addr \in Addresses /\ sm \in [Sessions -> SmType]
      BY <1>2, <1>4, <1>7 DEF TypeOK
  <2> HIDE DEF t
  <2> DEFINE y1 == [sm[t] EXCEPT !.ue = addr]
             a  == [sm EXCEPT ![t] = y1]
             y2 == [a[s] EXCEPT !.est = TRUE]
  <2>3. sm' = [a EXCEPT ![s] = y2]
      BY <2>1
  <2>4. /\ y1 \in SmType /\ y1.pc = sm[t].pc /\ y1.path = sm[t].path /\ y1.n = sm[t].n
        /\ y1.born = sm[t].born /\ y1.seid = sm[t].seid /\ y1.pdr = sm[t].pdr
        /\ y1.far = sm[t].far /\ y1.rule = sm[t].rule /\ y1.ue = addr
      BY <2>2, UeIs
  <2> HIDE DEF y1
  <2>5. a \in [Sessions -> SmType] /\ a[t] = y1 /\ \A r \in Sessions : r # t => a[r] = sm[r]
      BY <2>2, <2>4
  <2> HIDE DEF a
  <2>6. /\ y2 \in SmType /\ y2.pc = a[s].pc /\ y2.path = a[s].path /\ y2.n = a[s].n
        /\ y2.born = a[s].born /\ y2.seid = a[s].seid /\ y2.pdr = a[s].pdr
        /\ y2.far = a[s].far /\ y2.rule = a[s].rule /\ y2.ue = a[s].ue
      BY <2>5, EstIs
  <2> HIDE DEF y2
  <2>7. /\ sm' \in [Sessions -> SmType] /\ sm'[s] = y2
        /\ \A r \in Sessions : r # s => sm'[r] = a[r]
      BY <2>3, <2>5, <2>6
  <2>8. \A r \in Sessions : SameBut(r) /\ sm'[r].rule = sm[r].rule
      BY <2>4, <2>5, <2>6, <2>7 DEF SameBut
  <2>9. \A r \in Sessions : r # t => sm'[r].ue = sm[r].ue
      BY <2>5, <2>6, <2>7
  <2>10. sm'[t].ue = addr
      BY <2>2, <2>4, <2>5, <2>6, <2>7
  <2>11. late \subseteq late' /\ late' \subseteq Sessions /\ (t \notin late' => sm[t].born = LastBorn)
      BY <1>2, <2>1, <2>2 DEF TypeOK
  <2>12. TypeOK'
      BY <1>1, <1>2, <2>1, <2>7, <2>11 DEF TypeOK, ids, seidv
  <2>13. UNCHANGED assoc
      BY <1>1, <2>1 DEF assoc
  <2>14. OwnAssociation'
      BY <1>1, <1>2, <2>13, AssocSame
  <2>15. \A r \in Sessions \ late' :
             /\ sm'[r].rule \in {NoAddr, sm[r].rule}
             /\ \/ sm'[r].ue \in {NoAddr, sm[r].ue}
                \/ sm'[r].ue = addr /\ sm[r].born = LastBorn
      BY <2>8, <2>9, <2>10, <2>11
  <2> QED BY <1>1, <2>8, <2>11, <2>12, <2>14, <2>15, InvTouch
<1> QED BY <1>6, <1>7

LEMMA InvSetupResponse ==
    ASSUME Inv, NEW s \in Sessions, SetupResponse(s)
    PROVE  Inv'
<1> DEFINE x == sm[s]
           y == [x EXCEPT !.rule = addr]
<1>1. /\ ~crashed /\ Put(s, y)
      /\ late' = IF sm[s].born = LastBorn THEN late ELSE late \cup {s}
      /\ UNCHANGED <<assoc, default, ids, addr, seidv>>
    BY DEF SetupResponse, At
<1>2. TypeOK /\ OwnAssociation /\ x \in SmType /\ x \in SmFields /\ addr \in SmAddrs /\ x = sm[s]
    BY SessionIs DEF TypeOK, SmAddrs
<1> HIDE DEF x
<1>3. y \in SmFields
    BY <1>2, Zenon DEF SmFields
<1>4. /\ y.pc = x.pc /\ y.path = x.path /\ y.n = x.n /\ y.born = x.born
      /\ y.seid = x.seid /\ y.pdr = x.pdr /\ y.far = x.far /\ y.rule = addr /\ y.ue = x.ue
    BY <1>2, Zenon DEF SmFields
<1> HIDE DEF y
<1>5. /\ sm' \in [Sessions -> SmType] /\ sm'[s] = y
      /\ \A t \in Sessions : t # s => sm'[t] = sm[t]
    BY <1>1, <1>2, <1>3, SmTypeIs, Turn
<1>6. late \subseteq late' /\ late' \subseteq Sessions /\ (s \notin late' => sm[s].born = LastBorn)
    BY <1>1, <1>2 DEF TypeOK
<1>7. TypeOK'
    BY <1>1, <1>2, <1>5, <1>6 DEF TypeOK, assoc, ids, seidv
<1>8. \A t \in Sessions : SameBut(t) /\ sm'[t].ue = sm[t].ue
    BY <1>2, <1>4, <1>5 DEF SameBut
<1>9. \A t \in Sessions \ late' :
          /\ \/ sm'[t].rule \in {NoAddr, sm[t].rule}
             \/ sm'[t].rule = addr /\ sm[t].born = LastBorn
          /\ sm'[t].ue \in {NoAddr, sm[t].ue}
    BY <1>4, <1>5, <1>6, <1>8
<1>10. OwnAssociation'
    BY <1>1, <1>2, AssocSame
<1> QED BY <1>1, <1>6, <1>7, <1>8, <1>9, <1>10, InvTouch
LEMMA PooledFree ==
    ASSUME TypeOK, Shaped, Pooled, OnlyPdrIdsLost, NEW s \in Sessions, NEW u \in Upfs,
           sm[s].path # <<>>, u = sm[s].path[1],
           gen'[u].used = gen[u].used \ sm[s].far[1],
           farPool'[u] = farPool[u] \ sm[s].far[1],
           \A v \in Upfs : v # u => gen'[v] = gen[v] /\ farPool'[v] = farPool[v],
           pdrEver' = pdrEver, sm'[s].path = sm[s].path, sm'[s].far[1] = {},
           \A t \in Sessions : t # s => sm'[t] = sm[t]
    PROVE  Pooled' /\ OnlyPdrIdsLost'
<1> DEFINE f == sm[s].far[1]
<1>1. f \subseteq farPool[u]
    BY DEF Pooled
<1>2. \A v \in Upfs : pdrEver[v] \cap farPool[v] = {} /\ gen[v].used = pdrEver[v] \cup farPool[v]
    BY DEF OnlyPdrIdsLost
<1>3. \A v \in Upfs : pdrEver'[v] \cap farPool'[v] = {} /\ gen'[v].used = pdrEver'[v] \cup farPool'[v]
  <2> TAKE v \in Upfs
  <2>1. CASE v = u
      BY <1>1, <1>2, <2>1
  <2>2. CASE v # u
      BY <1>2, <2>2
  <2> QED BY <2>1, <2>2
<1>4. \A t \in Sessions : sm[t].path # <<>> => sm[t].path[1] \in Upfs
    BY PathIs DEF Shaped, Shape
<1>5. ASSUME NEW t \in Sessions, sm'[t].path # <<>>
      PROVE  sm'[t].far[1] \subseteq farPool'[sm'[t].path[1]]
  <2>1. CASE t = s
      BY <2>1
  <2>2. CASE t # s /\ sm[t].path[1] # u
      BY <1>4, <1>5, <2>2 DEF Pooled
  <2>3. CASE t # s /\ sm[t].path[1] = u
    <3>1. sm[t].far[1] \subseteq farPool[u] /\ sm[t].far[1] \cap f = {}
        BY <1>5, <2>3 DEF Pooled
    <3> QED BY <1>5, <2>3, <3>1
  <2> QED BY <2>1, <2>2, <2>3
<1>6. ASSUME NEW r \in Sessions, NEW t \in Sessions, r # t, sm'[r].path # <<>>,
             sm'[t].path # <<>>, sm'[r].path[1] = sm'[t].path[1]
      PROVE  sm'[r].far[1] \cap sm'[t].far[1] = {}
  <2>1. CASE t = s \/ r = s
      BY <2>1
  <2>2. CASE t # s /\ r # s
      BY <1>6, <2>2 DEF Pooled
  <2> QED BY <2>1, <2>2
<1>7. Pooled'
    BY <1>5, <1>6 DEF Pooled
<1>8. ASSUME NEW w \in Upfs, \A v \in Upfs : Len(PathTo[v]) = 2 => PathTo[v][2] # w,
             NEW i \in farPool'[w]
      PROVE  \E t \in Sessions : sm'[t].path # <<>> /\ sm'[t].path[1] = w /\ i \in sm'[t].far[1]
  <2>1. i \in farPool[w] /\ (w = u => i \notin f)
      BY <1>8
  <2>2. PICK t \in Sessions : sm[t].path # <<>> /\ sm[t].path[1] = w /\ i \in sm[t].far[1]
      BY <1>8, <2>1 DEF OnlyPdrIdsLost
  <2>3. t # s
      BY <2>1, <2>2
  <2> QED BY <2>2, <2>3
<1>9. OnlyPdrIdsLost'
    BY <1>3, <1>8 DEF OnlyPdrIdsLost
<1> QED BY <1>7, <1>9

LEMMA RuledFree ==
    ASSUME TypeOK, Shaped, Ruled, pdrEver' = pdrEver, NEW s \in Sessions,
           sm'[s].pc = "released", sm'[s].path = sm[s].path,
           \A k \in Hops : sm'[s].pdr[k] \subseteq sm[s].pdr[k],
           \A t \in Sessions : t # s => sm'[t] = sm[t],
           \A u \in Upfs, i \in PdrIds :
               /\ rules[u][i] # s => rules'[u][i] = rules[u][i]
               /\ rules'[u][i] # NoSession => rules[u][i] # NoSession
    PROVE  Ruled'
<1>1. \A t \in Sessions, j \in Hops : On(sm'[t], j) <=> On(sm[t], j)
    BY DEF On
<1>2. \A t \in Sessions, j \in Hops :
          sm'[t].path = sm[t].path /\ sm'[t].pdr[j] \subseteq sm[t].pdr[j]
    OBVIOUS
<1>3. \A t \in Sessions, j \in Hops : On(sm[t], j) =>
          sm[t].path[j] \in Upfs /\ sm[t].pdr[j] \subseteq PdrIds
    BY PathIs, Types DEF Shaped, Shape, On, TypeOK
<1>4. ASSUME NEW t \in Sessions, NEW k \in Hops, On(sm'[t], k)
      PROVE  sm'[t].pdr[k] \subseteq pdrEver'[sm'[t].path[k]]
  <2>1. sm[t].pdr[k] \subseteq pdrEver[sm[t].path[k]]
      BY <1>1, <1>4 DEF Ruled
  <2> QED BY <1>2, <2>1
<1>5. ASSUME NEW r \in Sessions, NEW t \in Sessions, NEW k \in Hops, NEW j \in Hops,
             r # t, On(sm'[r], k), On(sm'[t], j), sm'[r].path[k] = sm'[t].path[j]
      PROVE  sm'[r].pdr[k] \cap sm'[t].pdr[j] = {}
  <2>1. sm[r].pdr[k] \cap sm[t].pdr[j] = {}
      BY <1>1, <1>2, <1>5 DEF Ruled
  <2>2. sm'[r].pdr[k] \subseteq sm[r].pdr[k] /\ sm'[t].pdr[j] \subseteq sm[t].pdr[j]
      BY <1>2
  <2> QED BY <2>1, <2>2
<1>6. \A u \in Upfs, i \in PdrIds : rules'[u][i] # NoSession => i \in pdrEver'[u]
    BY DEF Ruled
<1>7. ASSUME NEW t \in Sessions, NEW k \in Hops, On(sm'[t], k), NEW i \in sm'[t].pdr[k],
             sm'[t].pc \in {"activating", "active"}
      PROVE  /\ sm'[t].pc = "activating" => rules'[sm'[t].path[k]][i] = NoSession
             /\ sm'[t].pc = "active" => rules'[sm'[t].path[k]][i] = t
  <2>1. t # s /\ sm'[t] = sm[t] /\ On(sm[t], k) /\ i \in sm[t].pdr[k]
      BY <1>1, <1>7
  <2>2. sm[t].path[k] \in Upfs /\ i \in PdrIds
      BY <1>3, <2>1
  <2>3. rules[sm[t].path[k]][i] \in {NoSession, t}
      BY <1>7, <2>1 DEF Ruled
  <2>4. rules'[sm[t].path[k]][i] = rules[sm[t].path[k]][i]
      BY <2>1, <2>2, <2>3, UpfAssumption
  <2> QED BY <2>1, <2>4 DEF Ruled
<1> QED BY <1>4, <1>5, <1>6, <1>7 DEF Ruled

LEMMA InvDeactivate ==
    ASSUME Inv, NEW s \in Sessions, Deactivate(s)
    PROVE  Inv'
<1> DEFINE x == sm[s]
           u == x.path[1]
           p == [x.pdr EXCEPT ![1] = {}]
           f == [x.far EXCEPT ![1] = {}]
           y == [x EXCEPT !.pc = "released", !.pdr = p, !.far = f]
<1>1. /\ ~crashed /\ x.pc = "active" /\ Put(s, y)
      /\ gen' = [gen EXCEPT ![u] = FreeID(@, x.far[1])]
      /\ farPool' = [farPool EXCEPT ![u] = @ \ x.far[1]]
      /\ UNCHANGED <<assoc, default, pdrEver, addr, seidv, late>>
    BY DEF Deactivate, At
<1>2. rules' = [v \in Upfs |-> [i \in PdrIds |->
                   IF rules[v][i] # s THEN rules[v][i]
                   ELSE IF v = u THEN NoSession ELSE Orphan]]
    BY Zenon DEF Deactivate
<1>3. /\ TypeOK /\ Shaped /\ Counting /\ RoutedBySeid /\ Addressed /\ Pooled
      /\ OnlyPdrIdsLost /\ (Narrow => Ruled) /\ OwnAssociation
      /\ x \in SmType /\ x \in SmFields /\ Shape(x)
    BY SessionIs
<1>4. x = sm[s] /\ u = x.path[1]
    OBVIOUS
<1> HIDE DEF x
<1>5. x.path # <<>> /\ x.path \in AllPaths /\ u \in Upfs
    BY <1>1, <1>3, PathIs DEF Shape
<1> HIDE DEF u
<1>6. /\ p \in SmPdrs /\ f \in SmFars /\ p[1] = {} /\ f[1] = {} /\ 1 \in Hops
      /\ \A k \in Hops : p[k] \subseteq x.pdr[k]
    BY <1>3, Types DEF SmPdrs, SmFars, Hops
<1>7. "released" \in Labels
    BY DEF Labels
<1> HIDE DEF p, f
<1>8. y \in SmFields
    BY <1>3, <1>6, <1>7, Zenon DEF SmFields
<1>9. /\ y.pc = "released" /\ y.path = x.path /\ y.n = x.n /\ y.born = x.born
      /\ y.seid = x.seid /\ y.pdr = p /\ y.far = f /\ y.rule = x.rule /\ y.ue = x.ue
    BY <1>3, <1>6, <1>7, Zenon DEF SmFields
<1> HIDE DEF y
<1>10. Shape(y)
    BY <1>3, <1>5, <1>6, <1>9 DEF Shape
<1>11. y \in SmType
    BY <1>8, SmTypeIs
<1>12. /\ sm' \in [Sessions -> SmType] /\ sm'[s] = y
       /\ \A t \in Sessions : t # s => sm'[t] = sm[t]
    BY <1>1, <1>3, <1>11, Turn
<1>13. Shaped'
    BY <1>1, <1>3, <1>10, <1>11, ShapedTurn
<1>14. /\ gen \in [Upfs -> GenType] /\ farPool \in [Upfs -> SUBSET FarIds]
    BY <1>3 DEF TypeOK, GenType
<1>15. FreeID(gen[u], x.far[1]) \in GenType /\ FreeID(gen[u], x.far[1]).used = gen[u].used \ x.far[1]
    BY <1>5, <1>14 DEF FreeID, GenType
<1>16. /\ gen' \in [Upfs -> GenType] /\ farPool' \in [Upfs -> SUBSET FarIds]
       /\ gen'[u].used = gen[u].used \ x.far[1] /\ farPool'[u] = farPool[u] \ x.far[1]
       /\ \A v \in Upfs : v # u => gen'[v] = gen[v] /\ farPool'[v] = farPool[v]
    BY <1>1, <1>5, <1>14, <1>15
<1>17. rules' \in [Upfs -> [PdrIds -> Sessions \cup {NoSession, Orphan}]]
    BY <1>2, <1>3 DEF TypeOK
<1>18. UNCHANGED assoc /\ default' = default /\ pdrEver' = pdrEver /\ addr' = addr
       /\ UNCHANGED seidv /\ late' = late
    BY <1>1
<1>19. TypeOK'
    BY <1>3, <1>12, <1>16, <1>17, <1>18 DEF TypeOK, GenType, assoc, seidv
<1>20. Counting' /\ RoutedBySeid'
    BY <1>3, <1>4, <1>9, <1>12, <1>18, CountingSame
<1>21. \A t \in Sessions : /\ sm'[t].born = sm[t].born /\ sm'[t].rule = sm[t].rule
                           /\ sm'[t].ue = sm[t].ue
    BY <1>4, <1>9, <1>12
<1>22. Addressed'
    BY <1>3, <1>18, <1>19, <1>21, AddressedRead
<1>23. Pooled' /\ OnlyPdrIdsLost'
    BY <1>3, <1>4, <1>5, <1>6, <1>9, <1>12, <1>16, <1>18, PooledFree
<1>24. Narrow' => Ruled'
  <2> SUFFICES ASSUME Narrow' PROVE Ruled'
      OBVIOUS
  <2>1. Ruled
      BY <1>3, <1>18 DEF Narrow
  <2>2. \A v \in Upfs, i \in PdrIds :
            /\ rules[v][i] # s => rules'[v][i] = rules[v][i]
            /\ rules'[v][i] # NoSession => rules[v][i] # NoSession
      BY <1>2, UpfAssumption
  <2> QED BY <1>3, <1>4, <1>6, <1>9, <1>12, <1>18, <2>1, <2>2, RuledFree
<1>25. OwnAssociation'
    BY <1>1, <1>3, <1>18, AssocSame
<1> QED BY <1>13, <1>19, <1>20, <1>22, <1>23, <1>24, <1>25 DEF Inv
LEMMA InvRemoveSMContext ==
    ASSUME Inv, NEW s \in Sessions, RemoveSMContext(s)
    PROVE  Inv'
<1> DEFINE b == sm[s].born
           y == [NewSm EXCEPT !.born = b]
<1>1. /\ ~crashed /\ sm[s].pc = "released" /\ Put(s, y) /\ seidCount' = seidCount /\ raced' = raced
      /\ UNCHANGED <<assoc, ids, addr, late>> /\ default' = default
    BY DEF RemoveSMContext, At
<1>2. seidMap' = [i \in Seids |->
           IF \E k \in 1..Len(sm[s].path) : sm[s].seid[k] = i THEN NoSession ELSE seidMap[i]]
    BY DEF RemoveSMContext
<1>3. TypeOK /\ Shaped /\ Counting /\ RoutedBySeid /\ sm[s] \in SmType /\ Shape(sm[s])
    BY SessionIs
<1>4. NewSm \in SmFields /\ b \in SmBirths /\ b = sm[s].born
    BY <1>3, NewSmIs, SmTypeIs, Types DEF SmBirths
<1> HIDE DEF b
<1>5. y \in SmFields
    BY <1>4, Zenon DEF SmFields
<1>6. /\ y.pc = NewSm.pc /\ y.path = NewSm.path /\ y.n = NewSm.n /\ y.born = b
      /\ y.rule = NewSm.rule /\ y.ue = NewSm.ue /\ y.seid = NewSm.seid /\ y.pdr = NewSm.pdr
      /\ y.far = NewSm.far
    BY <1>4, Zenon DEF SmFields
<1> HIDE DEF y
<1>7. /\ y.pc = "idle" /\ y.path = <<>> /\ y.n = 0 /\ y.born = sm[s].born /\ y.rule = NoAddr
      /\ y.ue = NoAddr /\ \A k \in Hops : y.seid[k] = 0 /\ y.pdr[k] = {} /\ y.far[k] = {}
    BY <1>4, <1>6, NewSmIs
<1>8. y \in SmType /\ Shape(y)
    BY <1>5, <1>7, SmTypeIs DEF Shape
<1>9. /\ sm'[s] = y /\ \A t \in Sessions : t # s => sm'[t] = sm[t]
    BY <1>1, <1>3, <1>8, Turn
<1>10. seidCount \in Nat
    BY <1>3, UpfAssumption DEF TypeOK, Seids
<1>11. Counting'
    BY <1>1, <1>3, <1>7, <1>9, <1>10, CountingFresh
<1>12. RoutedBySeid'
  <2>1. \A k \in 1..Len(sm[s].path) : k \in Hops
      BY <1>1, <1>3, PathIs DEF Shape
  <2>2. ASSUME NEW t \in Sessions, t \notin raced, NEW k \in Hops, sm'[t].seid[k] # 0
        PROVE  seidMap'[sm'[t].seid[k]] = t
    <3>1. t # s /\ sm'[t] = sm[t]
        BY <1>7, <1>9, <2>2
    <3>2. \A j \in Hops : sm[s].seid[j] # sm[t].seid[k]
        BY <1>3, <2>2, <3>1 DEF Counting
    <3>3. sm[t].seid[k] \in Seids /\ seidMap[sm[t].seid[k]] = t
      <4>1. sm[t].seid \in [Hops -> Seids \cup {0}]
          BY <1>3, Types DEF TypeOK
      <4> QED BY <1>3, <2>2, <3>1, <4>1 DEF RoutedBySeid
    <3> QED BY <1>2, <2>1, <3>1, <3>2, <3>3
  <2> QED BY <1>1, <2>2 DEF RoutedBySeid
<1>13. seidMap' \in [Seids -> Sessions \cup {NoSession}]
    BY <1>2, <1>3 DEF TypeOK
<1>14. seidCount' \in Seids \cup {0} /\ raced' \subseteq Sessions /\ default' \in {<<>>} \cup AllPaths
    BY <1>1, <1>3 DEF TypeOK, AllPaths
<1>15. sm[s].far[1] = {} /\ y.rule \in {NoAddr, sm[s].rule} /\ y.ue \in {NoAddr, sm[s].ue}
    BY <1>1, <1>3, <1>7 DEF Shape
<1> QED BY <1>1, <1>7, <1>8, <1>11, <1>12, <1>13, <1>14, <1>15, InvQuiet

----------------------------------------------------------------------------
(* Associations.                                                           *)

\* Only the association state changes.
LEMMA InvAssociated ==
    ASSUME Inv, TypeOK', OwnAssociation', UNCHANGED <<default, ids, addr, seidv, sm, late>>
    PROVE  Inv'
<1>1. \A t \in Sessions : SameBut(t) /\ sm'[t].rule = sm[t].rule /\ sm'[t].ue = sm[t].ue
    BY DEF SameBut
<1> QED BY <1>1, InvTouch

LEMMA InvAssociation ==
    ASSUME Inv, Association
    PROVE  Inv'
<1>1. TypeOK /\ OwnAssociation /\ MaxAssoc \in Nat
    BY UpfAssumption DEF Inv
<1>2. Upfs \subseteq Nodes
    BY DEF Nodes
<1>3. ASSUME NEW node \in Nodes, HandlePfcpAssociationSetupRequest(node) PROVE Inv'
  <2>1. PICK u \in RetrieveUPFNodeByNodeID(node) : info' = [info EXCEPT ![u] = node]
      BY <1>3 DEF HandlePfcpAssociationSetupRequest
  <2>2. /\ ~crashed /\ handled < MaxAssoc /\ handled' = handled + 1
        /\ stray' = (stray \/ node \notin upfPool)
        /\ UNCHANGED <<upfPool, status, answered, crashed>>
        /\ UNCHANGED <<default, ids, addr, seidv, sm, late>>
      BY <1>3 DEF HandlePfcpAssociationSetupRequest, Handle
  <2>3. u \in Upfs /\ (node \in upfPool => u = node)
      BY <1>1, <2>1 DEF RetrieveUPFNodeByNodeID, TypeOK
  <2>4. stray' \in BOOLEAN
      BY <2>2
  <2>5. info' \in [Upfs -> Nodes \cup {NoNode}] /\ handled' \in 0..MaxAssoc
      BY <1>1, <2>1, <2>2, <2>3 DEF TypeOK
  <2>6. TypeOK'
      BY <1>1, <2>2, <2>4, <2>5 DEF TypeOK, ids, seidv
  <2>7. OwnAssociation'
    <3> SUFFICES ASSUME ~stray'
                 PROVE  /\ \A v \in Upfs : info'[v] \in {v, NoNode} /\ (status'[v] => v \in answered')
                        /\ crashed' => raced' # {}
        BY Zenon DEF OwnAssociation
    <3>1. ~stray /\ node \in upfPool
        BY <2>2
    <3> QED BY <1>1, <2>1, <2>2, <2>3, <3>1 DEF OwnAssociation, TypeOK
  <2> QED BY <2>2, <2>6, <2>7, InvAssociated
<1>4. ASSUME NEW v \in Upfs, NEW node \in Nodes, SetupAnswer(v, node)
      PROVE  /\ ~crashed /\ handled' \in 0..MaxAssoc /\ answered' = answered \cup {v}
             /\ stray' \in BOOLEAN /\ (~stray' => ~stray /\ node \in upfPool)
             /\ upfPool' = upfPool /\ UNCHANGED <<default, ids, addr, seidv, sm, late>>
             /\ node \in {v} \cup Strangers
  <2>1. /\ ~crashed /\ handled < MaxAssoc /\ handled' = handled + 1
        /\ answered' = answered \cup {v} /\ stray' = (stray \/ node \notin upfPool)
        /\ upfPool' = upfPool /\ UNCHANGED <<default, ids, addr, seidv, sm, late>>
        /\ node \in {v} \cup Strangers
      BY <1>4 DEF SetupAnswer, Handle
  <2>2. handled' \in 0..MaxAssoc
      BY <1>1, <2>1 DEF TypeOK
  <2>3. stray' \in BOOLEAN
      BY <2>1
  <2>4. ~stray' => ~stray /\ node \in upfPool
      BY <2>1
  <2> QED BY <2>1, <2>2, <2>3, <2>4
<1>5. ASSUME NEW v \in Upfs, NEW node \in Nodes, HandlePfcpAssociationSetupResponse(v, node)
      PROVE  Inv'
  <2>1. PICK u \in RetrieveUPFNodeByNodeID(node), withInfo \in BOOLEAN :
            /\ status' = [status EXCEPT ![u] = TRUE]
            /\ info' = IF withInfo THEN [info EXCEPT ![u] = node] ELSE info
      BY <1>5 DEF HandlePfcpAssociationSetupResponse
  <2>2. SetupAnswer(v, node) /\ crashed' = crashed
      BY <1>5 DEF HandlePfcpAssociationSetupResponse
  <2>3. /\ ~crashed /\ handled' \in 0..MaxAssoc /\ answered' = answered \cup {v}
        /\ stray' \in BOOLEAN /\ (~stray' => ~stray /\ node \in upfPool)
        /\ upfPool' = upfPool /\ UNCHANGED <<default, ids, addr, seidv, sm, late>>
        /\ node \in {v} \cup Strangers
      BY <1>4, <2>2
  <2>4. u \in Upfs /\ (node \in upfPool => u = node)
      BY <1>1, <2>1 DEF RetrieveUPFNodeByNodeID, TypeOK
  <2>5. status' \in [Upfs -> BOOLEAN] /\ info' \in [Upfs -> Nodes \cup {NoNode}]
      BY <1>1, <2>1, <2>4 DEF TypeOK
  <2>6. TypeOK'
      BY <1>1, <2>2, <2>3, <2>5 DEF TypeOK, ids, seidv
  <2>7. OwnAssociation'
    <3> SUFFICES ASSUME ~stray'
                 PROVE  /\ \A w \in Upfs : info'[w] \in {w, NoNode} /\ (status'[w] => w \in answered')
                        /\ crashed' => raced' # {}
        BY Zenon DEF OwnAssociation
    <3>1. ~stray /\ node \in upfPool /\ u = node
        BY <2>3, <2>4
    <3>2. v = node
        BY <1>1, <2>3, <3>1, UpfAssumption DEF TypeOK
    <3>3. ASSUME NEW w \in Upfs
          PROVE  info'[w] \in {w, NoNode} /\ (status'[w] => w \in answered')
      <4>1. info[w] \in {w, NoNode} /\ (status[w] => w \in answered)
          BY <1>1, <3>1 DEF OwnAssociation
      <4>2. CASE w = u
          BY <1>1, <2>1, <2>3, <2>4, <3>1, <3>2, <4>1, <4>2 DEF TypeOK
      <4>3. CASE w # u
          BY <1>1, <2>1, <2>3, <2>4, <4>1, <4>3 DEF TypeOK
      <4> QED BY <4>2, <4>3
    <3> QED BY <2>2, <2>3, <3>3
  <2> QED BY <2>3, <2>6, <2>7, InvAssociated
<1>6. ASSUME NEW v \in Upfs, NEW node \in Nodes, SetupResponsePanics(v, node)
      PROVE  Inv'
  <2>1. SetupAnswer(v, node) /\ upfPool = {} /\ crashed' = TRUE /\ UNCHANGED <<status, info>>
      BY <1>6 DEF SetupResponsePanics
  <2>2. /\ ~crashed /\ handled' \in 0..MaxAssoc /\ answered' = answered \cup {v}
        /\ stray' \in BOOLEAN /\ (~stray' => ~stray /\ node \in upfPool)
        /\ upfPool' = upfPool /\ UNCHANGED <<default, ids, addr, seidv, sm, late>>
      BY <1>4, <2>1
  <2>3. TypeOK'
      BY <1>1, <2>1, <2>2 DEF TypeOK, ids, seidv
  <2>4. OwnAssociation'
      BY <2>1, <2>2 DEF OwnAssociation
  <2> QED BY <2>2, <2>3, <2>4, InvAssociated
<1>7. ASSUME NEW node \in upfPool, HandlePfcpAssociationReleaseRequest(node) PROVE Inv'
  <2>1. /\ ~crashed /\ handled < MaxAssoc /\ handled' = handled + 1 /\ upfPool' = upfPool \ {node}
        /\ UNCHANGED <<status, info, answered, crashed, stray>>
        /\ UNCHANGED <<default, ids, addr, seidv, sm, late>>
      BY <1>7 DEF HandlePfcpAssociationReleaseRequest, Handle
  <2>2. handled' \in 0..MaxAssoc
      BY <1>1, <2>1 DEF TypeOK
  <2>3. TypeOK'
      BY <1>1, <2>1, <2>2 DEF TypeOK, ids, seidv
  <2>4. OwnAssociation'
      BY <1>1, <2>1 DEF OwnAssociation
  <2> QED BY <2>1, <2>3, <2>4, InvAssociated
<1> QED BY <1>3, <1>5, <1>6, <1>7 DEF Association
----------------------------------------------------------------------------
(* The invariant holds, and what follows from it.                          *)

LEMMA InvInit == Init => Inv
<1> SUFFICES ASSUME Init PROVE Inv
    OBVIOUS
<1> USE DEF Init
<1>1. \A s \in Sessions : sm[s] = NewSm
    OBVIOUS
<1>2. sm \in [Sessions -> SmType]
    BY NewSmIs
<1>3. 0 \in Addresses /\ 0 \in 0..MaxAssoc /\ 0 \in 0..MaxCreate /\ AddrMod \in Nat \ {0}
    BY UpfAssumption DEF Addresses
<1>4. gen \in [Upfs -> [offset : 0..(FarMax - 1), used : SUBSET FarIds]]
  <2>1. 0 \in 0..(FarMax - 1)
      BY UpfAssumption
  <2> QED BY <2>1
<1>5. TypeOK
    BY <1>2, <1>3, <1>4 DEF TypeOK
<1>6. Shaped
    BY <1>1, NewSmIs DEF Shaped, Shape
<1>7. Counting /\ RoutedBySeid
    BY <1>1, NewSmIs DEF Counting, RoutedBySeid
<1>8. Addressed
  <2>1. ASSUME Sessions # {}
        PROVE  LastBorn \in 0..MaxCreate /\ Newest(sm, LastBorn) /\ addr = LastBorn % AddrMod
    <3>1. Newest(sm, 0) /\ \A s \in Sessions : sm[s].born \in Nat
        BY <1>1, <2>1, NewSmIs DEF Newest
    <3>2. LastBorn = 0
        BY <1>3, <3>1, LastBornIs DEF LastBorn
    <3>3. 0 % AddrMod = 0
        BY <1>3
    <3> QED BY <1>3, <3>1, <3>2, <3>3
  <2>2. \A s \in Sessions : sm[s].rule = NoAddr /\ sm[s].ue = NoAddr
      BY <1>1, NewSmIs
  <2> QED BY <2>1, <2>2 DEF Addressed
<1>9. Pooled /\ OnlyPdrIdsLost
    BY <1>1, NewSmIs DEF Pooled, OnlyPdrIdsLost
<1>10. Ruled
  <2>1. \A s \in Sessions, k \in Hops : sm[s].pdr[k] = {}
      BY <1>1, NewSmIs
  <2> QED BY <2>1 DEF Ruled
<1>11. OwnAssociation
    BY DEF OwnAssociation
<1> QED BY <1>5, <1>6, <1>7, <1>8, <1>9, <1>10, <1>11 DEF Inv

LEMMA InvNext == Inv /\ [Next]_vars => Inv'
<1> SUFFICES ASSUME Inv, [Next]_vars PROVE Inv'
    OBVIOUS
<1>1. ASSUME NEW s \in Sessions, Session(s) PROVE Inv'
    BY <1>1, InvAllocUEIP, InvSelectPath, InvNoPath, InvAddSEID, InvReadSEID,
       InvActivateTunnels, InvUpLinkPanics, InvDownLinkFails, InvDownLinkPanics,
       InvSendPFCPRule, InvEstablishmentResponse, InvSetupResponse, InvDeactivate,
       InvRemoveSMContext DEF Session
<1>2. CASE Association
    BY <1>2, InvAssociation
<1>3. CASE UNCHANGED vars
  <2>1. UNCHANGED <<assoc, default, ids, addr, seidv, sm, late>>
      BY <1>3 DEF vars
  <2>2. TypeOK' /\ OwnAssociation'
      BY <2>1 DEF Inv, TypeOK, OwnAssociation, assoc, ids, seidv
  <2> QED BY <2>1, <2>2, InvAssociated
<1> QED BY <1>1, <1>2, <1>3 DEF Next

LEMMA InvAlways == Spec => []Inv
<1>1. Init => Inv
    BY InvInit
<1>2. Inv /\ [Next]_vars => Inv'
    BY InvNext
<1> QED BY <1>1, <1>2, PTL DEF Spec

\* The state the SMF's sessions share keeps its types through every step of a
\* session and every association message.
THEOREM TypeCorrect == Spec => []TypeOK
<1>1. Inv => TypeOK
    BY DEF Inv
<1> QED BY <1>1, InvAlways, PTL

\* The SEIDs of a session lead back to it in seidSMContextMap, however creations
\* and releases interleave, unless its AllocateLocalSEID overlapped another's.
THEOREM AnswersFindSession == Spec => []RoutedBySeid
<1>1. Inv => RoutedBySeid
    BY DEF Inv
<1> QED BY <1>1, InvAlways, PTL

\* As long as the ids given to PDRs fit in 16 bits, every rule an active session
\* sent was installed, although released sessions leave rules behind.
THEOREM NoRuleRefused == Spec => []RulesAccepted
<1>1. Inv => RulesAccepted
  <2> SUFFICES ASSUME Inv, NEW s \in Sessions, NEW k \in Hops, sm[s].pc = "active",
                      k <= Len(sm[s].path), \A u \in Upfs : pdrEver[u] \subseteq PdrIds,
                      NEW i \in sm[s].pdr[k]
               PROVE  rules[sm[s].path[k]][i] = s
      BY DEF RulesAccepted
  <2>1. Ruled
      BY DEF Inv, Narrow
  <2>2. sm[s].path \in AllPaths /\ sm[s].path # <<>>
      BY PathIs DEF Inv, Shaped, Shape
  <2>3. Len(sm[s].path) \in Hops
      BY <2>2, PathIs
  <2>4. On(sm[s], k)
      BY <2>2, <2>3 DEF On, Hops
  <2> QED BY <2>1, <2>4 DEF Ruled
<1> QED BY <1>1, InvAlways, PTL

\* The ids that a FAR generator has in use are those of FARs in farPool and those
\* it ever gave to PDRs; at an access UPF each FAR of the pool is a session's.
THEOREM OnlyPdrIdsLeak == Spec => []OnlyPdrIdsLost
<1>1. Inv => OnlyPdrIdsLost
    BY DEF Inv
<1> QED BY <1>1, InvAlways, PTL

\* UEAddressTemp is shared, but sessions that read it before the next AllocUEIP
\* have one address each, and no other of the next AddrMod - 1 sessions has it.
THEOREM AddressesOwn == Spec => []OwnAddress
<1>1. Inv => OwnAddress
  <2> SUFFICES ASSUME Inv PROVE OwnAddress
      OBVIOUS
  <2>1. \A s \in Sessions \ late : /\ sm[s].rule \in {NoAddr, sm[s].born % AddrMod}
                                   /\ sm[s].ue \in {NoAddr, sm[s].born % AddrMod}
      BY DEF Inv, Addressed
  <2>2. ASSUME NEW s \in Sessions \ late, NEW t \in Sessions \ late,
               sm[s].born < sm[t].born, sm[t].born < sm[s].born + AddrMod,
               sm[s].rule # NoAddr, sm[t].rule # NoAddr
        PROVE  sm[s].rule # sm[t].rule
    <3> DEFINE a == sm[s].born
               b == sm[t].born
    <3>1. a \in Nat /\ b \in Nat /\ AddrMod \in Nat \ {0} /\ a < b /\ b < a + AddrMod
        BY <2>2, Types, UpfAssumption DEF Inv, TypeOK
    <3>2. sm[s].rule = a % AddrMod /\ sm[t].rule = b % AddrMod
        BY <2>1, <2>2
    <3> HIDE DEF a, b
    <3>3. a % AddrMod # b % AddrMod
        BY <3>1, ModApart
    <3> QED BY <3>2, <3>3
  <2> QED BY <2>1, <2>2 DEF OwnAddress
<1> QED BY <1>1, InvAlways, PTL

\* While every node that takes part in an association is in upfPool, UPF contexts
\* describe their own UPF, and a PFCP handler panics only for an overlapped SEID.
THEOREM AssociationsOwn == Spec => []OwnAssociation
<1>1. Inv => OwnAssociation
    BY DEF Inv
<1> QED BY <1>1, InvAlways, PTL
=============================================================================
