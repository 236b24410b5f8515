---------------------------- MODULE AmfNgapProofs ----------------------------
(***************************************************************************)
(* Proofs about AmfNgap: the pointers between RANs, connections and AmfUes *)
(* agree, handover ends point at each other, and an AmfUe that never had   *)
(* two connections at once is neither lost nor what the AMF crashes on.    *)
(*                                                                         *)
(* The invariant is a predicate Clean on the contexts and the set O of the *)
(* AmfUes that ever overlapped.  Each function of the code preserves it    *)
(* for the O that the whole handler leads to, and the handlers compose     *)
(* the functions.                                                          *)
(***************************************************************************)
EXTENDS AmfNgap, TLAPS, FiniteSetTheorems, FunctionTheorems

Kinds == {"Release", "HandoverRequest", "HandoverCommand"}

Lists(a) ==
    /\ \A r \in Rans : \A m, n \in DOMAIN a.list[r] : a.list[r][m] = a.list[r][n] => m = n
    /\ \A r \in Rans, i \in RanUes : i \in Listed(a, r) <=> i \in a.pool /\ a.ran[i] = r

Linked(a) == \A u \in AmfUes : a.cur[u] # 0 => a.cur[u] \in a.pool /\ a.ue[a.cur[u]] = u

Owned(a) == \A i \in a.pool : a.ue[i] \in AmfUes /\ a.ran[i] \in Rans

Paired(a) ==
    /\ \A s, t \in RanUes : a.source[t] = s <=> a.target[s] = t
    /\ \A s, t \in a.pool : a.source[t] = s => a.ue[s] = a.ue[t]

\* Nothing is known of a RanUe that does not exist yet.
Unborn(a) ==
    \A i \in RanUes : i > a.next =>
        i \notin a.pool /\ a.ue[i] = NoUe /\ a.source[i] = 0 /\ a.target[i] = 0

\* AmfUes that are not in O have one connection, use it, and hold their TMSI.
Once(a, O) == \A i, j \in a.pool : i # j /\ a.ue[i] = a.ue[j] => a.ue[i] \in O

Alone(a, O) ==
    \A i \in a.pool : a.ue[i] \notin O => a.cur[a.ue[i]] = i /\ a.tmsi[a.ue[i]] = "held"

Held(a, O) == \A u \in a.uePool : u \notin O => a.tmsi[u] = "held"

Short(a) == \A r \in Rans : a.up[r] = "gone" => 2 * Len(a.list[r]) < MaxRanUe

Clean(a, O) ==
    /\ a \in AmfType
    /\ Lists(a) /\ Linked(a) /\ Owned(a) /\ Paired(a) /\ Unborn(a)
    /\ Once(a, O) /\ Alone(a, O) /\ Held(a, O)
    /\ Short(a)

\* A release is pending only if its completion will find a cause.
Pending(a, c, O) ==
    \A i \in a.pool : <<"Release", i>> \in c /\ a.ue[i] \notin O => a.cause[a.ue[i]] = "ok"

Excused(a, O) == a.panic # "no" => a.victim \in O

Inv ==
    /\ Clean(amf, overlapped) /\ Pending(amf, cmds, overlapped) /\ Excused(amf, overlapped)
    /\ cmds \subseteq Kinds \X RanUes
    /\ \A x \in cmds : x[2] \in amf.pool
    /\ overlapped \subseteq AmfUes

----------------------------------------------------------------------------
(* Sequences without repetitions.                                          *)

Entries(s) == {s[n] : n \in DOMAIN s}
Distinct(s) == \A m, n \in DOMAIN s : s[m] = s[n] => m = n

LEMMA WithoutIs ==
    ASSUME NEW s \in Seq(RanUes), Distinct(s), NEW i
    PROVE  /\ Without(s, i) \in Seq(RanUes) /\ Distinct(Without(s, i))
           /\ Entries(Without(s, i)) = Entries(s) \ {i}
           /\ Len(Without(s, i)) <= Len(s)
<1>1. CASE ~\E n \in DOMAIN s : s[n] = i
    BY <1>1 DEF Without, Entries
<1>2. CASE \E n \in DOMAIN s : s[n] = i
  <2> DEFINE P(n) == s[n] = i /\ \A m \in 1..(n-1) : s[m] # i
             k == CHOOSE n \in DOMAIN s : P(n)
             w == [n \in 1..(Len(s) - 1) |-> IF n < k THEN s[n] ELSE s[n+1]]
  <2>1. k \in DOMAIN s /\ s[k] = i
    <3>1. PICK n \in DOMAIN s : s[n] = i
        BY <1>2
    <3>2. P(n)
        BY <3>1 DEF Distinct
    <3>3. k \in DOMAIN s /\ P(k)
        BY <3>2, Zenon
    <3> QED BY <3>3
  <2>2. Without(s, i) = w
      BY <1>2 DEF Without
  <2> HIDE DEF k
  <2>3. Len(s) \in Nat /\ DOMAIN s = 1..Len(s) /\ k \in 1..Len(s)
      BY <2>1
  <2>4. w \in Seq(RanUes) /\ Len(w) = Len(s) - 1 /\ DOMAIN w = 1..(Len(s) - 1)
      BY <2>3
  <2>5. \A n \in 1..(Len(s) - 1) : w[n] = IF n < k THEN s[n] ELSE s[n+1]
      OBVIOUS
  <2> HIDE DEF w
  <2>6. Distinct(w)
    <3>1. ASSUME NEW m \in 1..(Len(s) - 1), NEW n \in 1..(Len(s) - 1), w[m] = w[n] PROVE m = n
      <4> DEFINE p == IF m < k THEN m ELSE m + 1
                 q == IF n < k THEN n ELSE n + 1
      <4>1. p \in 1..Len(s) /\ q \in 1..Len(s) /\ s[p] = s[q]
          BY <2>3, <2>5, <3>1
      <4>2. p = q
          BY <2>3, <4>1 DEF Distinct
      <4> QED BY <2>3, <4>2
    <3> QED BY <2>4, <3>1 DEF Distinct
  <2>7. ASSUME NEW x \in Entries(w) PROVE x \in Entries(s) \ {i}
      BY <2>1, <2>3, <2>4, <2>5, <2>7 DEF Distinct, Entries
  <2>8. ASSUME NEW x \in Entries(s) \ {i} PROVE x \in Entries(w)
    <3>1. PICK n \in 1..Len(s) : x = s[n]
        BY <2>3, <2>8 DEF Entries
    <3>2. n # k
        BY <2>1, <2>8, <3>1
    <3>3. CASE n < k
        BY <2>3, <2>4, <2>5, <3>1, <3>3 DEF Entries
    <3>4. CASE n > k
      <4>1. n - 1 \in 1..(Len(s) - 1) /\ w[n - 1] = x
          BY <2>3, <2>5, <3>1, <3>4
      <4> QED BY <2>4, <4>1 DEF Entries
    <3> QED BY <2>3, <3>1, <3>2, <3>3, <3>4
  <2> QED BY <2>2, <2>3, <2>4, <2>6, <2>7, <2>8
<1> QED BY <1>1, <1>2

LEMMA AppendIs ==
    ASSUME NEW s \in Seq(RanUes), Distinct(s), NEW i \in RanUes, i \notin Entries(s)
    PROVE  /\ Append(s, i) \in Seq(RanUes) /\ Distinct(Append(s, i))
           /\ Entries(Append(s, i)) = Entries(s) \cup {i}
<1>1. /\ Append(s, i) \in Seq(RanUes) /\ Len(Append(s, i)) = Len(s) + 1
      /\ Append(s, i)[Len(s) + 1] = i /\ \A n \in 1..Len(s) : Append(s, i)[n] = s[n]
    OBVIOUS
<1>2. DOMAIN s = 1..Len(s) /\ DOMAIN Append(s, i) = 1..(Len(s) + 1) /\ Len(s) \in Nat
    BY <1>1
<1>3. Distinct(Append(s, i))
    BY <1>1, <1>2 DEF Distinct, Entries
<1>4. Entries(Append(s, i)) = Entries(s) \cup {i}
    BY <1>1, <1>2 DEF Entries
<1> QED BY <1>1, <1>3, <1>4

LEMMA Halves ==
    ASSUME NEW l \in Nat, NEW h \in Nat, 2 * h <= l - 1, l - 1 <= 2 * h + 1, NEW n \in Int
    PROVE  n \in 1..h <=> 2*n \in 1..l /\ 2*n # l
    OBVIOUS

\* What RemoveAllUeInRan passes over is the rest.
LEMMA SkippedIs ==
    ASSUME NEW s \in Seq(RanUes), Distinct(s)
    PROVE  /\ Skipped(s) \in Seq(RanUes) /\ Distinct(Skipped(s))
           /\ Reached(s) \subseteq Entries(s)
           /\ Entries(Skipped(s)) = Entries(s) \ Reached(s)
           /\ Len(s) = 0 => Len(Skipped(s)) = 0
           /\ Len(s) > 0 => 2 * Len(Skipped(s)) < Len(s)
<1> DEFINE h == (Len(s) - 1) \div 2
           w == [n \in 1..h |-> s[2*n]]
<1>1. Len(s) \in Nat /\ DOMAIN s = 1..Len(s)
    OBVIOUS
<1>2. /\ h \in Int /\ 2 * h <= Len(s) - 1 /\ Len(s) - 1 <= 2 * h + 1
    BY <1>1
<1>3. Skipped(s) = w
    BY DEF Skipped
<1> HIDE DEF h
<1>4. CASE Len(s) = 0
  <2>1. h < 0 /\ 1..h = {}
      BY <1>2, <1>4
  <2>2. w = <<>>
      BY <2>1
  <2>3. Entries(s) = {} /\ Reached(s) = {}
      BY <1>1, <1>4 DEF Entries, Reached
  <2>4. Skipped(s) = <<>>
      BY <1>3, <2>2
  <2>5. Skipped(s) \in Seq(RanUes) /\ Len(Skipped(s)) = 0 /\ DOMAIN Skipped(s) = {}
      BY <2>4
  <2> QED BY <1>4, <2>3, <2>5 DEF Distinct, Entries
<1>5. CASE Len(s) > 0
  <2>1. h \in Nat
      BY <1>1, <1>2, <1>5
  <2>2. \A n \in 1..h : 2*n \in 1..Len(s) /\ w[n] = s[2*n]
      BY <1>1, <1>2
  <2>3. \A m \in 1..Len(s) : s[m] \in RanUes
      OBVIOUS
  <2>4. w \in Seq(RanUes) /\ Len(w) = h /\ DOMAIN w = 1..h
      BY <2>1, <2>2, <2>3
  <2> HIDE DEF w
  <2>5. Distinct(w)
    <3>1. ASSUME NEW m \in 1..h, NEW n \in 1..h, w[m] = w[n] PROVE m = n
      <4>1. 2*m \in DOMAIN s /\ 2*n \in DOMAIN s /\ s[2*m] = s[2*n]
          BY <1>1, <2>2, <3>1
      <4>2. 2*m = 2*n
          BY <4>1, Zenon DEF Distinct
      <4> QED BY <2>1, <4>2
    <3> QED BY <2>4, <3>1 DEF Distinct
  <2>6. Reached(s) \subseteq Entries(s)
      BY DEF Reached, Entries
  <2>7. ASSUME NEW x \in Entries(w) PROVE x \in Entries(s) \ Reached(s)
    <3>1. PICK n \in 1..h : x = s[2*n]
        BY <2>2, <2>4, <2>7 DEF Entries
    <3>2. 2*n \in 1..Len(s) /\ 2*n # Len(s) /\ (2*n) % 2 = 0
      <4>1. n \in Int /\ 1 <= n /\ n <= h
          BY <2>1
      <4>2. (2*n) % 2 = 0
          BY <4>1
      <4> QED BY <1>1, <1>2, <2>1, <4>1, <4>2, Halves
    <3>3. \A m \in 1..Len(s) : s[m] = s[2*n] => m = 2*n
        BY <1>1, <3>2 DEF Distinct
    <3>4. ASSUME x \in Reached(s) PROVE FALSE
      <4>1. PICK m \in 1..Len(s) : (m % 2 = 1 \/ m = Len(s)) /\ x = s[m]
          BY <1>1, <3>4 DEF Reached
      <4>2. m = 2*n
          BY <3>1, <3>3, <4>1
      <4> QED BY <3>2, <4>1, <4>2
    <3> QED BY <1>1, <3>1, <3>2, <3>4 DEF Entries
  <2>8. ASSUME NEW x \in Entries(s) \ Reached(s) PROVE x \in Entries(w)
    <3>1. PICK m \in 1..Len(s) : x = s[m]
        BY <1>1, <2>8 DEF Entries
    <3>2. m % 2 # 1 /\ m # Len(s)
        BY <1>1, <2>8, <3>1 DEF Reached
    <3>3. PICK n \in Int : m = 2*n
      <4>1. m \in Nat
          BY <1>1
      <4>2. m = 2 * (m \div 2) + (m % 2) /\ m % 2 \in 0..1 /\ m \div 2 \in Int
          BY <4>1
      <4> QED BY <3>2, <4>2
    <3>4. n \in 1..h
        BY <1>1, <1>2, <2>1, <3>2, <3>3, Halves
    <3> QED BY <2>2, <2>4, <3>1, <3>3, <3>4 DEF Entries
  <2> QED BY <1>1, <1>2, <1>3, <1>5, <2>4, <2>5, <2>6, <2>7, <2>8
<1> QED BY <1>1, <1>4, <1>5

\* A list is no longer than there are names.
LEMMA DistinctShort ==
    ASSUME NEW s \in Seq(RanUes), Distinct(s)
    PROVE  Len(s) <= MaxRanUe
<1>1. Len(s) \in Nat /\ DOMAIN s = 1..Len(s) /\ s \in [1..Len(s) -> 1..MaxRanUe]
  <2>1. s \in [1..Len(s) -> RanUes]
      OBVIOUS
  <2> QED BY <2>1 DEF RanUes
<1>2. IsFiniteSet(1..MaxRanUe) /\ Cardinality(1..MaxRanUe) = MaxRanUe
    BY FS_Interval, NgapAssumption
<1>3. IsFiniteSet(1..Len(s)) /\ Cardinality(1..Len(s)) = Len(s)
  <2>1. Len(s) \in Int /\ (Len(s) > 0 \/ Len(s) = 0)
      BY <1>1
  <2>2. IsFiniteSet(1..Len(s)) /\ Cardinality(1..Len(s)) = IF 1 > Len(s) THEN 0 ELSE Len(s) - 1 + 1
      BY <2>1, FS_Interval
  <2> QED BY <2>1, <2>2
<1>4. s \in Injection(1..Len(s), 1..MaxRanUe)
    BY <1>1 DEF Distinct, Injection, IsInjective
<1>6. Cardinality(1..Len(s)) <= Cardinality(1..MaxRanUe)
    BY <1>2, <1>4, FS_Injection
<1> QED BY <1>2, <1>3, <1>6

----------------------------------------------------------------------------
(* The functions that remove connections.                                  *)

LEMMA Types ==
    ASSUME NEW a \in AmfType
    PROVE  /\ a.up \in [Rans -> {"new", "up", "gone"}]
           /\ a.list \in [Rans -> Seq(RanUes)]
           /\ a.next \in 0..MaxRanUe /\ a.next \in Nat
           /\ a.pool \in SUBSET RanUes
           /\ a.ran \in [RanUes -> Rans \cup {NoRan}]
           /\ a.ue \in [RanUes -> AmfUes \cup {NoUe}]
           /\ a.source \in [RanUes -> 0..MaxRanUe] /\ a.target \in [RanUes -> 0..MaxRanUe]
           /\ a.action \in [RanUes -> Actions]
           /\ a.cur \in [AmfUes -> 0..MaxRanUe]
           /\ a.gmm \in [AmfUes -> GmmStates]
           /\ a.uePool \in SUBSET AmfUes
           /\ a.tmsi \in [AmfUes -> {"none", "held", "freed"}]
           /\ a.cause \in [AmfUes -> {"ok", "nil"}]
           /\ a.panic \in {"no", "nas", "release"}
           /\ a.victim \in AmfUes \cup {NoUe}
    BY NgapAssumption DEF AmfType

\* What a removal leaves alone.
Beside(a, b) ==
    /\ b.up = a.up /\ b.next = a.next /\ b.ran = a.ran /\ b.source = a.source
    /\ b.target = a.target /\ b.action = a.action /\ b.gmm = a.gmm /\ b.uePool = a.uePool
    /\ b.tmsi = a.tmsi /\ b.cause = a.cause /\ b.panic = a.panic /\ b.victim = a.victim

\* The connections G are no more, nor do their AmfUes point to any.
Dropped(a, b, G) ==
    /\ b \in AmfType /\ Beside(a, b)
    /\ b.pool = a.pool \ G
    /\ b.ue = [i \in RanUes |-> IF i \in G THEN NoUe ELSE a.ue[i]]
    /\ b.cur = [u \in AmfUes |-> IF \E i \in G : a.ue[i] = u THEN 0 ELSE a.cur[u]]

LEMMA CleanLists ==
    ASSUME NEW a, NEW O, Clean(a, O), NEW r \in Rans
    PROVE  /\ a.list[r] \in Seq(RanUes) /\ Distinct(a.list[r]) /\ Listed(a, r) = Entries(a.list[r])
           /\ Entries(a.list[r]) \subseteq a.pool
           /\ \A i \in RanUes : i \in Entries(a.list[r]) <=> i \in a.pool /\ a.ran[i] = r
<1>1. a \in AmfType /\ Lists(a)
    BY DEF Clean
<1>2. a.list[r] \in Seq(RanUes)
    BY <1>1, Types
<1>3. Listed(a, r) = Entries(a.list[r])
    BY DEF Listed, Entries
<1>4. Entries(a.list[r]) \subseteq RanUes
    BY <1>2 DEF Entries
<1>5. Distinct(a.list[r]) /\ \A i \in RanUes : i \in Entries(a.list[r]) <=> i \in a.pool /\ a.ran[i] = r
    BY <1>1, <1>3 DEF Lists, Distinct
<1> QED BY <1>2, <1>3, <1>4, <1>5

\* Whatever removes connections that are in the pool, each from its RAN's list,
\* leaves the contexts clean.
LEMMA CleanDropped ==
    ASSUME NEW a, NEW O, Clean(a, O), NEW b, NEW G \in SUBSET a.pool, Dropped(a, b, G),
           \A r \in Rans : /\ Distinct(b.list[r])
                           /\ Entries(b.list[r]) = Entries(a.list[r]) \ G
                           /\ Len(b.list[r]) <= Len(a.list[r])
    PROVE  Clean(b, O)
<1>1. a \in AmfType /\ b \in AmfType /\ G \subseteq RanUes
    BY Types DEF Clean, Dropped
<1>2. /\ a.pool \subseteq RanUes /\ b.pool = a.pool \ G
      /\ \A i \in RanUes : b.ue[i] = IF i \in G THEN NoUe ELSE a.ue[i]
      /\ \A u \in AmfUes : b.cur[u] = IF \E i \in G : a.ue[i] = u THEN 0 ELSE a.cur[u]
    BY <1>1, Types DEF Dropped
<1>3. Lists(b)
  <2>1. ASSUME NEW r \in Rans PROVE Distinct(b.list[r])
      OBVIOUS
  <2>2. ASSUME NEW r \in Rans, NEW i \in RanUes
        PROVE  i \in Listed(b, r) <=> i \in b.pool /\ b.ran[i] = r
    <3>1. Listed(b, r) = Entries(a.list[r]) \ G
        BY DEF Listed, Entries
    <3> QED BY <1>2, <3>1, CleanLists DEF Dropped, Beside
  <2> QED BY <2>1, <2>2 DEF Lists, Distinct
<1>4. Linked(b)
  <2> SUFFICES ASSUME NEW u \in AmfUes, b.cur[u] # 0
               PROVE  b.cur[u] \in b.pool /\ b.ue[b.cur[u]] = u
      BY DEF Linked
  <2>1. b.cur[u] = a.cur[u] /\ ~\E i \in G : a.ue[i] = u
      BY <1>2
  <2>2. a.cur[u] \in a.pool /\ a.ue[a.cur[u]] = u
      BY <2>1 DEF Clean, Linked
  <2> QED BY <1>2, <2>1, <2>2
<1>5. Owned(b)
    BY <1>2 DEF Clean, Owned, Dropped, Beside
<1>6. Paired(b)
    BY <1>2 DEF Clean, Paired, Dropped, Beside
<1>7. Unborn(b)
    BY <1>2 DEF Clean, Unborn, Dropped, Beside
<1>8. Once(b, O)
    BY <1>2 DEF Clean, Once
<1>9. Alone(b, O)
  <2> SUFFICES ASSUME NEW i \in b.pool, b.ue[i] \notin O
               PROVE  b.cur[b.ue[i]] = i /\ b.tmsi[b.ue[i]] = "held"
      BY DEF Alone
  <2>1. i \in a.pool /\ i \notin G /\ b.ue[i] = a.ue[i] /\ a.ue[i] \in AmfUes
      BY <1>2 DEF Clean, Owned
  <2>2. ~\E j \in G : a.ue[j] = a.ue[i]
      BY <2>1 DEF Clean, Once
  <2>3. a.cur[a.ue[i]] = i /\ a.tmsi[a.ue[i]] = "held"
      BY <2>1 DEF Clean, Alone
  <2>4. b.tmsi = a.tmsi
      BY DEF Dropped, Beside
  <2>5. b.cur[a.ue[i]] = a.cur[a.ue[i]]
      BY <1>2, <2>1, <2>2
  <2> QED BY <2>1, <2>3, <2>4, <2>5
<1>10. Held(b, O)
    BY DEF Clean, Held, Dropped, Beside
<1>11. Short(b)
  <2> SUFFICES ASSUME NEW r \in Rans, b.up[r] = "gone"
               PROVE  2 * Len(b.list[r]) < MaxRanUe
      BY DEF Short
  <2>1. 2 * Len(a.list[r]) < MaxRanUe
      BY DEF Clean, Short, Dropped, Beside
  <2>2. Len(a.list[r]) \in Nat /\ Len(b.list[r]) \in Nat
      BY <1>1, Types
  <2>3. Len(b.list[r]) <= Len(a.list[r])
      OBVIOUS
  <2> QED BY <2>1, <2>2, <2>3, NgapAssumption
<1> QED BY <1>1, <1>3, <1>4, <1>5, <1>6, <1>7, <1>8, <1>9, <1>10, <1>11 DEF Clean

LEMMA RemoveRanUeDrops ==
    ASSUME NEW a, NEW O, Clean(a, O), NEW i \in a.pool
    PROVE  Dropped(a, RemoveRanUe(a, i), {i}) /\ Clean(RemoveRanUe(a, i), O)
<1> DEFINE u == a.ue[i]
           r == a.ran[i]
           cur == [a.cur EXCEPT ![u] = 0]
           ue == [a.ue EXCEPT ![i] = NoUe]
           list == [a.list EXCEPT ![r] = Without(a.list[r], i)]
           pool == a.pool \ {i}
           c == [a EXCEPT !.cur = cur]
           d == [c EXCEPT !.ue = ue]
           b == [d EXCEPT !.list = list, !.pool = pool]
<1>1. a \in AmfType /\ i \in RanUes /\ u \in AmfUes /\ u # NoUe /\ r \in Rans
    BY Types, NgapAssumption DEF Clean, Owned
<1>2. /\ Without(a.list[r], i) \in Seq(RanUes) /\ Distinct(Without(a.list[r], i))
      /\ Entries(Without(a.list[r], i)) = Entries(a.list[r]) \ {i}
      /\ Len(Without(a.list[r], i)) <= Len(a.list[r])
    BY <1>1, CleanLists, WithoutIs
<1>3. 0 \in 0..MaxRanUe
    BY NgapAssumption
<1>4. /\ cur \in [AmfUes -> 0..MaxRanUe] /\ ue \in [RanUes -> AmfUes \cup {NoUe}]
      /\ list \in [Rans -> Seq(RanUes)] /\ pool \in SUBSET RanUes
    BY <1>1, <1>2, <1>3, Types
<1>5. c.ue = a.ue /\ d.list = a.list /\ d.pool = a.pool
    BY <1>1 DEF AmfType
<1>6. RemoveRanUe(a, i) = b
  <2>1. DropUe(a, i) = d
      BY <1>1, <1>5, Zenon DEF DropUe, DetachRanUe
  <2> QED BY <1>1, <1>5, <2>1, Zenon DEF RemoveRanUe
<1>7. /\ cur = [v \in AmfUes |-> IF \E j \in {i} : a.ue[j] = v THEN 0 ELSE a.cur[v]]
      /\ ue = [j \in RanUes |-> IF j \in {i} THEN NoUe ELSE a.ue[j]]
    BY <1>1, Types
<1>8. \A q \in Rans : list[q] = IF q = r THEN Without(a.list[r], i) ELSE a.list[q]
    BY <1>1, Types
<1> HIDE DEF cur, ue, list, pool
<1>9. b \in AmfType
    BY <1>1, <1>4, Zenon DEF AmfType
<1>10. b.list = list /\ b.pool = pool /\ b.ue = ue /\ b.cur = cur
    BY <1>1, Zenon DEF AmfType
<1>11. Beside(a, b)
    BY <1>1, Zenon DEF AmfType, Beside
<1> HIDE DEF b
<1>12. Dropped(a, b, {i})
    BY <1>7, <1>9, <1>10, <1>11 DEF Dropped, pool
<1>13. ASSUME NEW q \in Rans
       PROVE  /\ Distinct(b.list[q])
              /\ Entries(b.list[q]) = Entries(a.list[q]) \ {i}
              /\ Len(b.list[q]) <= Len(a.list[q])
  <2>1. CASE q = r
      BY <1>2, <1>8, <1>10, <2>1
  <2>2. CASE q # r
    <3>1. i \notin Entries(a.list[q]) /\ Distinct(a.list[q]) /\ a.list[q] \in Seq(RanUes)
        BY <1>1, <2>2, CleanLists
    <3>2. Len(a.list[q]) <= Len(a.list[q])
        BY <3>1
    <3> QED BY <1>8, <1>10, <2>2, <3>1, <3>2
  <2> QED BY <2>1, <2>2
<1> QED BY <1>6, <1>12, <1>13, CleanDropped

LEMMA RemoveAllDrops ==
    ASSUME NEW a, NEW O, Clean(a, O), NEW r \in Rans
    PROVE  /\ Dropped(a, RemoveAllUeInRan(a, r), Reached(a.list[r]))
           /\ Clean(RemoveAllUeInRan(a, r), O)
           /\ Reached(a.list[r]) \subseteq a.pool
           /\ 2 * Len(RemoveAllUeInRan(a, r).list[r]) < MaxRanUe
<1> DEFINE gone == Reached(a.list[r])
           list == [a.list EXCEPT ![r] = Skipped(a.list[r])]
           pool == a.pool \ gone
           ue == [i \in RanUes |-> IF i \in gone THEN NoUe ELSE a.ue[i]]
           cur == [u \in AmfUes |-> IF \E i \in gone : a.ue[i] = u THEN 0 ELSE a.cur[u]]
           b == [a EXCEPT !.list = list, !.pool = pool, !.ue = ue, !.cur = cur]
<1>1. a \in AmfType /\ 0 \in 0..MaxRanUe
    BY NgapAssumption DEF Clean
<1>2. a.list[r] \in Seq(RanUes) /\ Distinct(a.list[r]) /\ Entries(a.list[r]) \subseteq a.pool
    BY CleanLists
<1>3. /\ Skipped(a.list[r]) \in Seq(RanUes) /\ Distinct(Skipped(a.list[r]))
      /\ gone \subseteq Entries(a.list[r])
      /\ Entries(Skipped(a.list[r])) = Entries(a.list[r]) \ gone
      /\ Len(a.list[r]) = 0 => Len(Skipped(a.list[r])) = 0
      /\ Len(a.list[r]) > 0 => 2 * Len(Skipped(a.list[r])) < Len(a.list[r])
    BY <1>2, SkippedIs
<1>4. /\ Len(a.list[r]) \in Nat /\ Len(Skipped(a.list[r])) \in Nat /\ Len(a.list[r]) <= MaxRanUe
    BY <1>2, <1>3, DistinctShort
<1>5. /\ Len(Skipped(a.list[r])) <= Len(a.list[r])
      /\ 2 * Len(Skipped(a.list[r])) < MaxRanUe
    BY <1>3, <1>4, NgapAssumption
<1>6. RemoveAllUeInRan(a, r) = b
    BY Zenon DEF RemoveAllUeInRan
<1>7. \A q \in Rans : list[q] = IF q = r THEN Skipped(a.list[r]) ELSE a.list[q]
    BY <1>1, Types
<1> HIDE DEF gone
<1>8. /\ cur \in [AmfUes -> 0..MaxRanUe] /\ ue \in [RanUes -> AmfUes \cup {NoUe}]
      /\ list \in [Rans -> Seq(RanUes)] /\ pool \in SUBSET RanUes
    BY <1>1, <1>3, Types
<1>9. /\ cur = [u \in AmfUes |-> IF \E i \in gone : a.ue[i] = u THEN 0 ELSE a.cur[u]]
      /\ ue = [i \in RanUes |-> IF i \in gone THEN NoUe ELSE a.ue[i]]
      /\ pool = a.pool \ gone
    OBVIOUS
<1> HIDE DEF cur, ue, list, pool
<1>10. b \in AmfType
    BY <1>1, <1>8, Zenon DEF AmfType
<1>11. b.list = list /\ b.pool = pool /\ b.ue = ue /\ b.cur = cur
    BY <1>1, Zenon DEF AmfType
<1>12. Beside(a, b)
    BY <1>1, Zenon DEF AmfType, Beside
<1> HIDE DEF b
<1>13. Dropped(a, b, gone)
    BY <1>9, <1>10, <1>11, <1>12 DEF Dropped
<1>14. gone \subseteq a.pool
    BY <1>2, <1>3
<1>15. ASSUME NEW q \in Rans
       PROVE  /\ Distinct(b.list[q])
              /\ Entries(b.list[q]) = Entries(a.list[q]) \ gone
              /\ Len(b.list[q]) <= Len(a.list[q])
  <2>1. CASE q = r
      BY <1>3, <1>5, <1>7, <1>11, <2>1
  <2>2. CASE q # r
    <3>1. Distinct(a.list[q]) /\ a.list[q] \in Seq(RanUes)
        BY CleanLists
    <3>2. Entries(a.list[q]) \cap Entries(a.list[r]) = {}
        BY <1>1, <1>2, <2>2, CleanLists, Types
    <3>3. Len(a.list[q]) <= Len(a.list[q])
        BY <3>1
    <3> QED BY <1>3, <1>7, <1>11, <2>2, <3>1, <3>2, <3>3
  <2> QED BY <2>1, <2>2
<1>16. Clean(b, O)
    BY <1>13, <1>14, <1>15, CleanDropped
<1>17. 2 * Len(b.list[r]) < MaxRanUe
    BY <1>5, <1>7, <1>11
<1> QED BY <1>6, <1>13, <1>14, <1>16, <1>17 DEF gone

\* What Clean looks at is the same.
Frame(a, b) ==
    /\ b.up = a.up /\ b.list = a.list /\ b.next = a.next /\ b.pool = a.pool /\ b.ran = a.ran
    /\ b.ue = a.ue /\ b.source = a.source /\ b.target = a.target /\ b.cur = a.cur
    /\ b.uePool = a.uePool /\ b.tmsi = a.tmsi

LEMMA CleanAs ==
    ASSUME NEW a, NEW O, Clean(a, O), NEW b \in AmfType, Frame(a, b)
    PROVE  Clean(b, O)
<1>1. Lists(b)
    BY DEF Clean, Frame, Lists, Listed
<1>2. Linked(b) /\ Owned(b) /\ Paired(b) /\ Unborn(b)
    BY DEF Clean, Frame, Linked, Owned, Paired, Unborn
<1>3. Once(b, O) /\ Alone(b, O) /\ Held(b, O) /\ Short(b)
    BY DEF Clean, Frame, Once, Alone, Held, Short
<1> QED BY <1>1, <1>2, <1>3 DEF Clean

\* Connections may be gone; what a pending release needs is as before.
Shrunk(a, b) ==
    /\ b.pool \subseteq a.pool
    /\ \A i \in b.pool : b.ue[i] = a.ue[i]
    /\ b.cause = a.cause /\ b.panic = a.panic /\ b.victim = a.victim

LEMMA DroppedShrunk ==
    ASSUME NEW a \in AmfType, NEW b, NEW G, Dropped(a, b, G)
    PROVE  Shrunk(a, b)
<1>1. a.pool \subseteq RanUes
    BY Types
<1> QED BY <1>1 DEF Dropped, Beside, Shrunk

LEMMA RemoveAmfUeClean ==
    ASSUME NEW a, NEW O, Clean(a, O), NEW u \in AmfUes
    PROVE  Clean(RemoveAmfUe(a, u), O) /\ Shrunk(a, RemoveAmfUe(a, u))
<1> DEFINE b == IF a.cur[u] # 0 THEN RemoveRanUe(a, a.cur[u]) ELSE a
           tmsi == [b.tmsi EXCEPT ![u] = "freed"]
           pool == b.uePool \ {u}
           d == [b EXCEPT !.tmsi = tmsi, !.uePool = pool]
<1>1. a \in AmfType
    BY DEF Clean
<1>2. Clean(b, O) /\ b.cur[u] = 0 /\ Shrunk(a, b)
  <2>1. CASE a.cur[u] # 0
    <3>1. a.cur[u] \in a.pool /\ a.ue[a.cur[u]] = u
        BY <2>1 DEF Clean, Linked
    <3>2. Dropped(a, b, {a.cur[u]}) /\ Clean(b, O)
        BY <2>1, <3>1, RemoveRanUeDrops
    <3>3. b.cur[u] = 0
        BY <3>1, <3>2 DEF Dropped
    <3> QED BY <1>1, <3>2, <3>3, DroppedShrunk
  <2>2. CASE a.cur[u] = 0
      BY <2>2 DEF Shrunk
  <2> QED BY <2>1, <2>2
<1>3. RemoveAmfUe(a, u) = d
    BY Zenon DEF RemoveAmfUe
<1> HIDE DEF b
<1>4. b \in AmfType
    BY <1>2 DEF Clean
<1>5. /\ tmsi \in [AmfUes -> {"none", "held", "freed"}] /\ pool \in SUBSET AmfUes
      /\ \A v \in AmfUes : v # u => tmsi[v] = b.tmsi[v]
    BY <1>4, Types
<1>6. pool = b.uePool \ {u}
    OBVIOUS
<1> HIDE DEF tmsi, pool
<1>7. d \in AmfType
    BY <1>4, <1>5, Zenon DEF AmfType
<1>8. /\ d.up = b.up /\ d.list = b.list /\ d.next = b.next /\ d.pool = b.pool /\ d.ran = b.ran
      /\ d.ue = b.ue /\ d.source = b.source /\ d.target = b.target /\ d.cur = b.cur
      /\ d.uePool = pool /\ d.tmsi = tmsi
    BY <1>4, Zenon DEF AmfType
<1>9. d.cause = b.cause /\ d.panic = b.panic /\ d.victim = b.victim
    BY <1>4, Zenon DEF AmfType
<1> HIDE DEF d
<1>10. Lists(d)
    BY <1>2, <1>8 DEF Clean, Lists, Listed
<1>11. Linked(d) /\ Owned(d) /\ Paired(d) /\ Unborn(d)
    BY <1>2, <1>8 DEF Clean, Linked, Owned, Paired, Unborn
<1>12. Once(d, O) /\ Short(d)
    BY <1>2, <1>8 DEF Clean, Once, Short
<1>13. Alone(d, O)
  <2> SUFFICES ASSUME NEW i \in b.pool, b.ue[i] \notin O
               PROVE  b.cur[b.ue[i]] = i /\ tmsi[b.ue[i]] = "held"
      BY <1>8 DEF Alone
  <2>1. b.cur[b.ue[i]] = i /\ b.tmsi[b.ue[i]] = "held" /\ b.ue[i] \in AmfUes /\ i \in RanUes
      BY <1>2, <1>4, Types DEF Clean, Alone, Owned
  <2>2. i # 0
      BY <2>1 DEF RanUes
  <2>3. b.ue[i] # u
      BY <1>2, <2>1, <2>2
  <2> QED BY <1>5, <2>1, <2>3
<1>14. Held(d, O)
  <2>1. b.uePool \subseteq AmfUes
      BY <1>4, Types
  <2> QED BY <1>2, <1>5, <1>6, <1>8, <2>1 DEF Clean, Held
<1>15. Shrunk(a, d)
    BY <1>2, <1>8, <1>9 DEF Shrunk
<1> QED BY <1>3, <1>7, <1>10, <1>11, <1>12, <1>13, <1>14, <1>15 DEF Clean

LEMMA DetachClean ==
    ASSUME NEW a, NEW O, Clean(a, O), NEW i \in RanUes
    PROVE  LET b == DetachSourceUeTargetUe(a, i)
           IN  /\ Clean(b, O) /\ Shrunk(a, b) /\ b.pool = a.pool
<1> DEFINE b == DetachSourceUeTargetUe(a, i)
<1>1. /\ a \in AmfType /\ Paired(a) /\ 0 \in 0..MaxRanUe
      /\ a.source \in [RanUes -> 0..MaxRanUe] /\ a.target \in [RanUes -> 0..MaxRanUe]
    BY Types, NgapAssumption DEF Clean
<1>2. \/ b = a
      \/ \E s, t \in RanUes : /\ a.source[t] = s /\ a.target[s] = t
                              /\ b = [a EXCEPT !.target[s] = 0, !.source[t] = 0]
  <2>1. CASE a.target[i] # 0
    <3>1. a.target[i] \in RanUes
        BY <1>1, <2>1, NgapAssumption DEF RanUes
    <3>2. a.source[a.target[i]] = i
        BY <1>1, <3>1 DEF Paired
    <3>3. b = [a EXCEPT !.target[i] = 0, !.source[a.target[i]] = 0]
        BY <2>1, Zenon DEF DetachSourceUeTargetUe
    <3> QED BY <3>1, <3>2, <3>3, Zenon
  <2>2. CASE a.target[i] = 0 /\ a.source[i] # 0
    <3>1. a.source[i] \in RanUes
        BY <1>1, <2>2, NgapAssumption DEF RanUes
    <3>2. a.target[a.source[i]] = i
        BY <1>1, <3>1 DEF Paired
    <3>3. b = [a EXCEPT !.source[i] = 0, !.target[a.source[i]] = 0]
        BY <2>2, Zenon DEF DetachSourceUeTargetUe
    <3>4. b = [a EXCEPT !.target[a.source[i]] = 0, !.source[i] = 0]
        BY <1>1, <3>3 DEF AmfType
    <3> QED BY <3>1, <3>2, <3>4, Zenon
  <2>3. CASE a.target[i] = 0 /\ a.source[i] = 0
      BY <2>3, Zenon DEF DetachSourceUeTargetUe
  <2> QED BY <2>1, <2>2, <2>3
<1> HIDE DEF b
<1>3. ASSUME b = a PROVE Clean(b, O) /\ Shrunk(a, b) /\ b.pool = a.pool
    BY <1>3 DEF Shrunk
<1>4. ASSUME NEW s \in RanUes, NEW t \in RanUes, a.source[t] = s, a.target[s] = t,
             b = [a EXCEPT !.target[s] = 0, !.source[t] = 0]
      PROVE  Clean(b, O) /\ Shrunk(a, b) /\ b.pool = a.pool
  <2> DEFINE target == [a.target EXCEPT ![s] = 0]
             source == [a.source EXCEPT ![t] = 0]
             d == [a EXCEPT !.target = target, !.source = source]
  <2>1. b = d
      BY <1>4, Zenon
  <2>2. /\ target \in [RanUes -> 0..MaxRanUe] /\ source \in [RanUes -> 0..MaxRanUe]
        /\ \A x \in RanUes : target[x] = IF x = s THEN 0 ELSE a.target[x]
        /\ \A x \in RanUes : source[x] = IF x = t THEN 0 ELSE a.source[x]
      BY <1>1
  <2> HIDE DEF target, source
  <2>3. d \in AmfType
      BY <1>1, <2>2, Zenon DEF AmfType
  <2>4. /\ d.up = a.up /\ d.list = a.list /\ d.next = a.next /\ d.pool = a.pool /\ d.ran = a.ran
        /\ d.ue = a.ue /\ d.source = source /\ d.target = target /\ d.cur = a.cur
        /\ d.uePool = a.uePool /\ d.tmsi = a.tmsi
      BY <1>1, Zenon DEF AmfType
  <2>5. d.cause = a.cause /\ d.panic = a.panic /\ d.victim = a.victim
      BY <1>1, Zenon DEF AmfType
  <2> HIDE DEF d
  <2>6. Lists(d)
      BY <2>4 DEF Clean, Lists, Listed
  <2>7. Linked(d) /\ Owned(d) /\ Once(d, O) /\ Alone(d, O) /\ Held(d, O) /\ Short(d)
      BY <2>4 DEF Clean, Linked, Owned, Once, Alone, Held, Short
  <2>8. Paired(d)
    <3>1. ASSUME NEW x \in RanUes, NEW y \in RanUes PROVE source[y] = x <=> target[x] = y
      <4>1. x # 0 /\ y # 0
          BY DEF RanUes
      <4>2. a.source[y] = x <=> a.target[x] = y
          BY <1>1 DEF Paired
      <4> QED BY <1>4, <2>2, <4>1, <4>2
    <3>2. ASSUME NEW x \in a.pool, NEW y \in a.pool, source[y] = x PROVE a.ue[x] = a.ue[y]
      <4>1. x \in RanUes /\ y \in RanUes /\ x # 0
          BY <1>1, Types DEF RanUes
      <4>2. a.source[y] = x
          BY <2>2, <3>2, <4>1
      <4> QED BY <1>1, <4>2 DEF Paired
    <3> QED BY <2>4, <3>1, <3>2 DEF Paired
  <2>9. Unborn(d)
      BY <2>2, <2>4 DEF Clean, Unborn
  <2>10. Shrunk(a, d)
      BY <2>4, <2>5 DEF Shrunk
  <2> QED BY <2>1, <2>3, <2>4, <2>6, <2>7, <2>8, <2>9, <2>10 DEF Clean
<1>5. Clean(b, O) /\ Shrunk(a, b) /\ b.pool = a.pool
    BY <1>2, <1>3, <1>4, Zenon
<1> QED BY <1>5 DEF b

----------------------------------------------------------------------------
(* The functions that create and move connections.                         *)

LEMMA SwitchClean ==
    ASSUME NEW a, NEW O, Clean(a, O), NEW i \in a.pool, NEW r \in Rans,
           a.up[r] = "up", r # a.ran[i]
    PROVE  Clean(SwitchToRan(a, i, r), O) /\ Shrunk(a, SwitchToRan(a, i, r))
<1> DEFINE q == a.ran[i]
           left == [a.list EXCEPT ![q] = Without(a.list[q], i)]
           list == [left EXCEPT ![r] = Append(left[r], i)]
           ran == [a.ran EXCEPT ![i] = r]
           b == [a EXCEPT !.list = list, !.ran = ran]
<1>1. a \in AmfType /\ i \in RanUes /\ q \in Rans /\ r # q
    BY Types DEF Clean, Owned
<1>2. SwitchToRan(a, i, r) = b
    BY Zenon DEF SwitchToRan
<1>3. /\ Without(a.list[q], i) \in Seq(RanUes) /\ Distinct(Without(a.list[q], i))
      /\ Entries(Without(a.list[q], i)) = Entries(a.list[q]) \ {i}
      /\ Len(Without(a.list[q], i)) <= Len(a.list[q])
    BY <1>1, CleanLists, WithoutIs
<1>4. /\ Append(a.list[r], i) \in Seq(RanUes) /\ Distinct(Append(a.list[r], i))
      /\ Entries(Append(a.list[r], i)) = Entries(a.list[r]) \cup {i}
    BY <1>1, CleanLists, AppendIs
<1>5. left \in [Rans -> Seq(RanUes)] /\ left[r] = a.list[r] /\ left[q] = Without(a.list[q], i)
    BY <1>1, <1>3, Types
<1>6. /\ list \in [Rans -> Seq(RanUes)]
      /\ list[r] = Append(a.list[r], i) /\ list[q] = Without(a.list[q], i)
      /\ \A p \in Rans \ {q, r} : list[p] = a.list[p]
  <2>1. \A p \in Rans \ {q, r} : left[p] = a.list[p]
      BY <1>1, Types
  <2> HIDE DEF left
  <2> QED BY <1>1, <1>4, <1>5, <2>1
<1>7. ran \in [RanUes -> Rans \cup {NoRan}] /\ \A x \in RanUes : ran[x] = IF x = i THEN r ELSE a.ran[x]
    BY <1>1, Types
<1> HIDE DEF list, ran
<1>8. b \in AmfType
    BY <1>1, <1>6, <1>7, Zenon DEF AmfType
<1>9. /\ b.up = a.up /\ b.list = list /\ b.next = a.next /\ b.pool = a.pool /\ b.ran = ran
      /\ b.ue = a.ue /\ b.source = a.source /\ b.target = a.target /\ b.cur = a.cur
      /\ b.uePool = a.uePool /\ b.tmsi = a.tmsi
    BY <1>1, Zenon DEF AmfType
<1>10. b.cause = a.cause /\ b.panic = a.panic /\ b.victim = a.victim
    BY <1>1, Zenon DEF AmfType
<1> HIDE DEF b
<1>11. Lists(b)
  <2>1. ASSUME NEW p \in Rans
        PROVE  /\ Distinct(list[p])
               /\ \A x \in RanUes : x \in Entries(list[p]) <=> x \in a.pool /\ ran[x] = p
    <3>1. /\ Distinct(a.list[p])
          /\ \A x \in RanUes : x \in Entries(a.list[p]) <=> x \in a.pool /\ a.ran[x] = p
        BY CleanLists
    <3>2. CASE p = r
        BY <1>1, <1>4, <1>6, <1>7, <3>1, <3>2
    <3>3. CASE p = q
        BY <1>1, <1>3, <1>6, <1>7, <3>1, <3>3
    <3>4. CASE p \notin {q, r}
        BY <1>1, <1>6, <1>7, <3>1, <3>4
    <3> QED BY <3>2, <3>3, <3>4
  <2> QED BY <1>9, <2>1 DEF Lists, Listed, Distinct, Entries
<1>12. Linked(b) /\ Paired(b) /\ Unborn(b) /\ Once(b, O) /\ Alone(b, O) /\ Held(b, O)
    BY <1>9 DEF Clean, Linked, Paired, Unborn, Once, Alone, Held
<1>13. Owned(b)
    BY <1>1, <1>7, <1>9, Types DEF Clean, Owned
<1>14. Short(b)
  <2> SUFFICES ASSUME NEW p \in Rans, a.up[p] = "gone"
               PROVE  2 * Len(list[p]) < MaxRanUe
      BY <1>9 DEF Short
  <2>1. p # r /\ 2 * Len(a.list[p]) < MaxRanUe
      BY DEF Clean, Short
  <2>2. Len(list[p]) \in Nat /\ Len(a.list[p]) \in Nat
      BY <1>1, <1>6, Types
  <2>3. Len(list[p]) <= Len(a.list[p])
      BY <1>3, <1>6, <2>1, <2>2
  <2> QED BY <2>1, <2>2, <2>3, NgapAssumption
<1>15. Shrunk(a, b)
    BY <1>9, <1>10 DEF Shrunk
<1> QED BY <1>2, <1>8, <1>11, <1>12, <1>13, <1>14, <1>15 DEF Clean

\* An AmfUe is attached to a connection that is its own already.
LEMMA AttachClean ==
    ASSUME NEW a, NEW O, Clean(a, O), NEW k \in a.pool
    PROVE  LET b == AttachRanUe(a, a.ue[k], k)
           IN  /\ Clean(b, O) /\ Shrunk(a, b) /\ b.pool = a.pool /\ b.ue = a.ue
               /\ b.source = a.source
<1> DEFINE u == a.ue[k]
           cur == [a.cur EXCEPT ![u] = k]
           ue == [a.ue EXCEPT ![k] = u]
           b == [a EXCEPT !.cur = cur, !.ue = ue]
<1>1. a \in AmfType /\ k \in RanUes /\ u \in AmfUes
    BY Types DEF Clean, Owned
<1>2. k \in 0..MaxRanUe
    BY <1>1, NgapAssumption DEF RanUes
<1>3. /\ cur \in [AmfUes -> 0..MaxRanUe] /\ ue = a.ue
      /\ \A v \in AmfUes : cur[v] = IF v = u THEN k ELSE a.cur[v]
    BY <1>1, <1>2, Types
<1>4. AttachRanUe(a, u, k) = b
    BY Zenon DEF AttachRanUe
<1>5. ue \in [RanUes -> AmfUes \cup {NoUe}]
    BY <1>1, <1>3, Types
<1> HIDE DEF cur, ue
<1>6. b \in AmfType
    BY <1>1, <1>3, <1>5, Zenon DEF AmfType
<1>7. /\ b.up = a.up /\ b.list = a.list /\ b.next = a.next /\ b.pool = a.pool /\ b.ran = a.ran
      /\ b.ue = ue /\ b.source = a.source /\ b.target = a.target /\ b.cur = cur
      /\ b.uePool = a.uePool /\ b.tmsi = a.tmsi
    BY <1>1, Zenon DEF AmfType
<1>8. b.cause = a.cause /\ b.panic = a.panic /\ b.victim = a.victim
    BY <1>1, Zenon DEF AmfType
<1> HIDE DEF b
<1>9. Lists(b)
    BY <1>7 DEF Clean, Lists, Listed
<1>10. Owned(b) /\ Paired(b) /\ Unborn(b) /\ Once(b, O) /\ Held(b, O) /\ Short(b)
    BY <1>3, <1>7 DEF Clean, Owned, Paired, Unborn, Once, Held, Short
<1>11. Linked(b)
    BY <1>3, <1>7 DEF Clean, Linked
<1>12. Alone(b, O)
  <2> SUFFICES ASSUME NEW i \in a.pool, a.ue[i] \notin O
               PROVE  cur[a.ue[i]] = i /\ a.tmsi[a.ue[i]] = "held"
      BY <1>3, <1>7 DEF Alone
  <2>1. a.cur[a.ue[i]] = i /\ a.tmsi[a.ue[i]] = "held" /\ a.ue[i] \in AmfUes
      BY DEF Clean, Alone, Owned
  <2>2. a.ue[i] = u => i = k
      BY DEF Clean, Once
  <2> QED BY <1>3, <2>1, <2>2
<1>13. Shrunk(a, b)
    BY <1>3, <1>7, <1>8 DEF Shrunk
<1>14. Clean(b, O) /\ Shrunk(a, b) /\ b.pool = a.pool /\ b.ue = a.ue /\ b.source = a.source
    BY <1>3, <1>6, <1>7, <1>9, <1>10, <1>11, <1>12, <1>13 DEF Clean
<1> QED BY <1>4, <1>14

\* b has one connection i more, of the AmfUe u at the RAN r.
Grown(a, b, r, i, u) ==
    /\ b \in AmfType
    /\ b.up = a.up /\ b.uePool = a.uePool /\ b.next = i
    /\ b.list = [a.list EXCEPT ![r] = Append(a.list[r], i)]
    /\ b.pool = a.pool \cup {i}
    /\ b.ran = [a.ran EXCEPT ![i] = r]
    /\ b.ue = [a.ue EXCEPT ![i] = u]
    /\ b.cause = a.cause /\ b.panic = a.panic /\ b.victim = a.victim

\* Either u uses the new connection and holds a TMSI, or it is the target of a
\* handover from s.
Connects(a, b, i, u) ==
    /\ b.cur = [a.cur EXCEPT ![u] = i] /\ b.source = a.source /\ b.target = a.target
    /\ \/ b.tmsi = a.tmsi /\ u \in a.uePool
       \/ b.tmsi = [a.tmsi EXCEPT ![u] = "held"]

HandsOver(a, b, i, u, s) ==
    /\ b.cur = a.cur /\ b.tmsi = a.tmsi
    /\ b.source = [a.source EXCEPT ![i] = s] /\ b.target = [a.target EXCEPT ![s] = i]
    /\ s \in a.pool /\ a.ue[s] = u /\ a.target[s] = 0

LEMMA GrownClean ==
    ASSUME NEW a, NEW O, Clean(a, O), a.next < MaxRanUe, NEW r \in Rans, a.up[r] = "up",
           NEW i, i = a.next + 1, NEW u \in AmfUes, NEW s, NEW b, Grown(a, b, r, i, u),
           Connects(a, b, i, u) \/ HandsOver(a, b, i, u, s), Once(b, O)
    PROVE  Clean(b, O)
<1>1. a \in AmfType /\ b \in AmfType /\ i \in RanUes /\ i > a.next /\ i # 0
    BY Types, NgapAssumption DEF Clean, Grown, RanUes
<1>2. i \notin a.pool /\ a.source[i] = 0 /\ a.target[i] = 0
    BY <1>1 DEF Clean, Unborn
<1>3. /\ Append(a.list[r], i) \in Seq(RanUes) /\ Distinct(Append(a.list[r], i))
      /\ Entries(Append(a.list[r], i)) = Entries(a.list[r]) \cup {i}
    BY <1>1, <1>2, CleanLists, AppendIs
<1>4. /\ \A p \in Rans : b.list[p] = IF p = r THEN Append(a.list[r], i) ELSE a.list[p]
      /\ \A x \in RanUes : b.ran[x] = IF x = i THEN r ELSE a.ran[x]
      /\ \A x \in RanUes : b.ue[x] = IF x = i THEN u ELSE a.ue[x]
      /\ b.pool = a.pool \cup {i} /\ a.pool \subseteq RanUes
    BY <1>1, Types DEF Grown
<1>5. Lists(b)
  <2>1. ASSUME NEW p \in Rans
        PROVE  /\ Distinct(b.list[p])
               /\ \A x \in RanUes : x \in Entries(b.list[p]) <=> x \in b.pool /\ b.ran[x] = p
    <3>1. /\ Distinct(a.list[p])
          /\ \A x \in RanUes : x \in Entries(a.list[p]) <=> x \in a.pool /\ a.ran[x] = p
        BY CleanLists
    <3> QED BY <1>1, <1>2, <1>3, <1>4, <3>1
  <2> QED BY <2>1 DEF Lists, Listed, Distinct, Entries
<1>6. Owned(b)
  <2> SUFFICES ASSUME NEW x \in b.pool PROVE b.ue[x] \in AmfUes /\ b.ran[x] \in Rans
      BY DEF Owned
  <2>1. x \in RanUes /\ (x = i \/ x \in a.pool)
      BY <1>1, <1>4
  <2>2. x \in a.pool => a.ue[x] \in AmfUes /\ a.ran[x] \in Rans
      BY DEF Clean, Owned
  <2> QED BY <1>4, <2>1, <2>2
<1>7. Short(b)
  <2> SUFFICES ASSUME NEW p \in Rans, a.up[p] = "gone"
               PROVE  2 * Len(b.list[p]) < MaxRanUe
      BY DEF Grown, Short
  <2>1. p # r
      OBVIOUS
  <2> QED BY <1>4, <2>1 DEF Clean, Short
<1>8. b.next = i /\ b.uePool = a.uePool
    BY DEF Grown
<1>9. Unborn(b) /\ Paired(b) /\ Linked(b) /\ Alone(b, O) /\ Held(b, O)
  <2>1. CASE Connects(a, b, i, u)
    <3>1. /\ b.source = a.source /\ b.target = a.target
          /\ \A v \in AmfUes : b.cur[v] = IF v = u THEN i ELSE a.cur[v]
        BY <1>1, <2>1, Types DEF Connects
    <3>2. \A v \in AmfUes : a.tmsi[v] = "held" => b.tmsi[v] = "held"
      <4>1. CASE b.tmsi = [a.tmsi EXCEPT ![u] = "held"]
          BY <1>1, <4>1, Types
      <4>2. CASE b.tmsi = a.tmsi
          BY <4>2
      <4> QED BY <2>1, <4>1, <4>2 DEF Connects
    <3>3. u \notin O => b.tmsi[u] = "held"
      <4>1. CASE b.tmsi = [a.tmsi EXCEPT ![u] = "held"]
          BY <1>1, <4>1, Types
      <4>2. CASE b.tmsi = a.tmsi /\ u \in a.uePool
          BY <4>2 DEF Clean, Held
      <4> QED BY <2>1, <4>1, <4>2 DEF Connects
    <3>4. Unborn(b)
      <4> SUFFICES ASSUME NEW x \in RanUes, x > i
                   PROVE  x \notin b.pool /\ b.ue[x] = NoUe /\ b.source[x] = 0 /\ b.target[x] = 0
          BY <1>8 DEF Unborn
      <4>1. x > a.next /\ x # i
          BY <1>1, Types DEF RanUes
      <4> QED BY <1>4, <3>1, <4>1 DEF Clean, Unborn
    <3>5. Paired(b)
      <4>1. \A x, y \in RanUes : b.source[y] = x <=> b.target[x] = y
          BY <3>1 DEF Clean, Paired
      <4>2. ASSUME NEW x \in b.pool, NEW y \in b.pool, b.source[y] = x PROVE b.ue[x] = b.ue[y]
        <5>1. x \in RanUes /\ y \in RanUes /\ x # 0 /\ a.source[y] = x /\ a.target[x] = y /\ y # 0
            BY <1>1, <1>4, <3>1, <4>1, <4>2 DEF RanUes
        <5>2. x # i /\ y # i
            BY <1>2, <5>1
        <5> QED BY <1>4, <5>1, <5>2 DEF Clean, Paired
      <4> QED BY <4>1, <4>2 DEF Paired
    <3>6. Linked(b)
      <4> SUFFICES ASSUME NEW v \in AmfUes, b.cur[v] # 0
                   PROVE  b.cur[v] \in b.pool /\ b.ue[b.cur[v]] = v
          BY DEF Linked
      <4>1. CASE v = u
          BY <1>1, <1>4, <3>1, <4>1
      <4>2. CASE v # u
        <5>1. b.cur[v] = a.cur[v] /\ a.cur[v] \in a.pool /\ a.ue[a.cur[v]] = v
            BY <3>1, <4>2 DEF Clean, Linked
        <5> QED BY <1>2, <1>4, <5>1
      <4> QED BY <4>1, <4>2
    <3>7. Alone(b, O)
      <4> SUFFICES ASSUME NEW x \in b.pool, b.ue[x] \notin O
                   PROVE  b.cur[b.ue[x]] = x /\ b.tmsi[b.ue[x]] = "held"
          BY DEF Alone
      <4>1. CASE x = i
          BY <1>1, <1>4, <3>1, <3>3, <4>1
      <4>2. CASE x # i
        <5>1. x \in a.pool /\ b.ue[x] = a.ue[x] /\ a.ue[x] \in AmfUes
            BY <1>4, <4>2 DEF Clean, Owned
        <5>2. a.cur[a.ue[x]] = x /\ a.tmsi[a.ue[x]] = "held"
            BY <5>1 DEF Clean, Alone
        <5>3. a.ue[x] # u
            BY <1>1, <1>4, <4>2, <5>1 DEF Once
        <5> QED BY <3>1, <3>2, <5>1, <5>2, <5>3
      <4> QED BY <4>1, <4>2
    <3>8. Held(b, O)
      <4>1. a.uePool \subseteq AmfUes
          BY <1>1, Types
      <4> QED BY <1>8, <3>2, <4>1 DEF Clean, Held
    <3> QED BY <3>4, <3>5, <3>6, <3>7, <3>8
  <2>2. CASE HandsOver(a, b, i, u, s)
    <3>1. /\ b.cur = a.cur /\ b.tmsi = a.tmsi /\ s \in a.pool /\ s \in RanUes /\ s # i /\ s # 0
          /\ a.ue[s] = u /\ a.target[s] = 0
          /\ \A y \in RanUes : b.source[y] = IF y = i THEN s ELSE a.source[y]
          /\ \A x \in RanUes : b.target[x] = IF x = s THEN i ELSE a.target[x]
      <4>1. s \in a.pool /\ s \in RanUes /\ s # i
          BY <1>2, <1>4, <2>2 DEF HandsOver
      <4>2. s # 0
          BY <4>1 DEF RanUes
      <4> QED BY <1>1, <2>2, <4>1, <4>2, Types DEF HandsOver
    <3>2. u \in O
        BY <1>1, <1>4, <3>1 DEF Once
    <3>3. Unborn(b)
      <4> SUFFICES ASSUME NEW x \in RanUes, x > i
                   PROVE  x \notin b.pool /\ b.ue[x] = NoUe /\ b.source[x] = 0 /\ b.target[x] = 0
          BY <1>8 DEF Unborn
      <4>1. x > a.next /\ x # i
          BY <1>1, Types DEF RanUes
      <4>2. x # s
          BY <3>1, <4>1 DEF Clean, Unborn
      <4> QED BY <1>4, <3>1, <4>1, <4>2 DEF Clean, Unborn
    <3>4. Paired(b)
      <4>1. ASSUME NEW x \in RanUes, NEW y \in RanUes PROVE b.source[y] = x <=> b.target[x] = y
        <5>1. a.source[y] = x <=> a.target[x] = y
            BY DEF Clean, Paired
        <5>2. x # 0 /\ y # 0
            BY DEF RanUes
        <5>3. a.target[x] # i
            BY <1>1, <1>2, <5>2 DEF Clean, Paired
        <5> QED BY <3>1, <5>1, <5>2, <5>3
      <4>2. ASSUME NEW x \in b.pool, NEW y \in b.pool, b.source[y] = x PROVE b.ue[x] = b.ue[y]
        <5>1. x \in RanUes /\ y \in RanUes /\ x # 0 /\ y # 0
            BY <1>1, <1>4 DEF RanUes
        <5>2. CASE y = i
            BY <1>1, <1>4, <3>1, <4>2, <5>1, <5>2
        <5>3. CASE y # i
          <6>1. a.source[y] = x /\ a.target[x] = y
              BY <3>1, <4>2, <5>1, <5>3 DEF Clean, Paired
          <6>2. x # i
              BY <1>2, <5>1, <6>1
          <6> QED BY <1>4, <5>1, <5>3, <6>1, <6>2 DEF Clean, Paired
        <5> QED BY <5>2, <5>3
      <4> QED BY <4>1, <4>2 DEF Paired
    <3>5. Linked(b)
        BY <1>2, <1>4, <3>1 DEF Clean, Linked
    <3>6. Alone(b, O)
      <4> SUFFICES ASSUME NEW x \in b.pool, b.ue[x] \notin O
                   PROVE  b.cur[b.ue[x]] = x /\ b.tmsi[b.ue[x]] = "held"
          BY DEF Alone
      <4>1. x \in a.pool /\ b.ue[x] = a.ue[x]
          BY <1>1, <1>4, <3>2
      <4>2. a.cur[a.ue[x]] = x /\ a.tmsi[a.ue[x]] = "held"
          BY <4>1 DEF Clean, Alone
      <4> QED BY <3>1, <4>1, <4>2
    <3>7. Held(b, O)
        BY <1>8, <3>1 DEF Clean, Held
    <3> QED BY <3>3, <3>4, <3>5, <3>6, <3>7
  <2> QED BY <2>1, <2>2
<1> QED BY <1>1, <1>5, <1>6, <1>7, <1>9 DEF Clean

\* The three ways to a new connection.
LEMMA NewRanUeIs ==
    ASSUME NEW a, NEW O, Clean(a, O), a.next < MaxRanUe, NEW r \in Rans
    PROVE  LET b == NewRanUe(a, r)
               i == a.next + 1
           IN  /\ i \in RanUes /\ b.ue[i] = NoUe
               /\ b \in AmfType
               /\ b.up = a.up /\ b.uePool = a.uePool /\ b.next = i
               /\ b.list = [a.list EXCEPT ![r] = Append(a.list[r], i)]
               /\ b.pool = a.pool \cup {i}
               /\ b.ran = [a.ran EXCEPT ![i] = r]
               /\ b.ue = a.ue /\ b.cur = a.cur /\ b.tmsi = a.tmsi
               /\ b.source = a.source /\ b.target = a.target
               /\ b.cause = a.cause /\ b.panic = a.panic /\ b.victim = a.victim
<1> DEFINE i == a.next + 1
           list == [a.list EXCEPT ![r] = Append(a.list[r], i)]
           pool == a.pool \cup {i}
           ran == [a.ran EXCEPT ![i] = r]
           b == [a EXCEPT !.next = i, !.ran = ran, !.list = list, !.pool = pool]
<1>1. a \in AmfType /\ a.next \in Nat
    BY Types DEF Clean
<1>2. i \in RanUes /\ i > a.next /\ i \in 0..MaxRanUe
    BY <1>1, NgapAssumption DEF RanUes
<1>3. a.ue[i] = NoUe
    BY <1>2 DEF Clean, Unborn
<1>4. Append(a.list[r], i) \in Seq(RanUes)
    BY <1>1, <1>2, Types
<1>5. /\ list \in [Rans -> Seq(RanUes)] /\ pool \in SUBSET RanUes
      /\ ran \in [RanUes -> Rans \cup {NoRan}]
    BY <1>1, <1>2, <1>4, Types
<1>6. NewRanUe(a, r) = b
    BY Zenon DEF NewRanUe
<1> HIDE DEF i, list, pool, ran
<1>7. b \in AmfType
    BY <1>1, <1>2, <1>5, Zenon DEF AmfType
<1>8. /\ b.up = a.up /\ b.uePool = a.uePool /\ b.next = i /\ b.list = list /\ b.pool = pool
      /\ b.ran = ran /\ b.ue = a.ue /\ b.cur = a.cur /\ b.tmsi = a.tmsi
      /\ b.source = a.source /\ b.target = a.target
    BY <1>1, Zenon DEF AmfType
<1>9. b.cause = a.cause /\ b.panic = a.panic /\ b.victim = a.victim
    BY <1>1, Zenon DEF AmfType
<1> HIDE DEF b
<1> QED BY <1>2, <1>3, <1>6, <1>7, <1>8, <1>9 DEF i, list, pool, ran

LEMMA FreshGrows ==
    ASSUME NEW a, NEW O, Clean(a, O), a.next < MaxRanUe, NEW r \in Rans, NEW v \in AmfUes
    PROVE  LET i == a.next + 1
               b == AttachRanUe(NewAmfUe(NewRanUe(a, r), v), v, i)
           IN  Grown(a, b, r, i, v) /\ Connects(a, b, i, v)
<1> DEFINE i == a.next + 1
           n == NewRanUe(a, r)
           tmsi == [n.tmsi EXCEPT ![v] = "held"]
           m == [n EXCEPT !.tmsi = tmsi]
           cur == [m.cur EXCEPT ![v] = i]
           ue == [m.ue EXCEPT ![i] = v]
           b == [m EXCEPT !.cur = cur, !.ue = ue]
<1>1. /\ i \in RanUes /\ n \in AmfType
      /\ n.up = a.up /\ n.uePool = a.uePool /\ n.next = i
      /\ n.list = [a.list EXCEPT ![r] = Append(a.list[r], i)]
      /\ n.pool = a.pool \cup {i}
      /\ n.ran = [a.ran EXCEPT ![i] = r]
      /\ n.ue = a.ue /\ n.cur = a.cur /\ n.tmsi = a.tmsi
      /\ n.source = a.source /\ n.target = a.target
      /\ n.cause = a.cause /\ n.panic = a.panic /\ n.victim = a.victim
    BY NewRanUeIs
<1>2. AttachRanUe(NewAmfUe(n, v), v, i) = b
    BY Zenon DEF AttachRanUe, NewAmfUe
<1>3. i \in 0..MaxRanUe
    BY <1>1, NgapAssumption DEF RanUes
<1> HIDE DEF n, i
<1>4. tmsi \in [AmfUes -> {"none", "held", "freed"}] /\ tmsi = [a.tmsi EXCEPT ![v] = "held"]
    BY <1>1, Types
<1> HIDE DEF tmsi
<1>5. m \in AmfType
    BY <1>1, <1>4, Zenon DEF AmfType
<1>6. m.cur = n.cur /\ m.ue = n.ue
    BY <1>1, Zenon DEF AmfType
<1>7. /\ cur \in [AmfUes -> 0..MaxRanUe] /\ cur = [a.cur EXCEPT ![v] = i]
      /\ ue \in [RanUes -> AmfUes \cup {NoUe}] /\ ue = [a.ue EXCEPT ![i] = v]
    BY <1>1, <1>3, <1>6, Types
<1> HIDE DEF cur, ue
<1>8. b \in AmfType
    BY <1>5, <1>7, Zenon DEF AmfType
<1>9. /\ b.up = n.up /\ b.uePool = n.uePool /\ b.next = n.next /\ b.list = n.list /\ b.pool = n.pool
      /\ b.ran = n.ran /\ b.ue = ue /\ b.cur = cur /\ b.tmsi = tmsi
      /\ b.source = n.source /\ b.target = n.target
    BY <1>1, Zenon DEF AmfType
<1>10. b.cause = n.cause /\ b.panic = n.panic /\ b.victim = n.victim
    BY <1>1, Zenon DEF AmfType
<1> HIDE DEF b, m
<1>11. Grown(a, b, r, i, v)
    BY <1>1, <1>7, <1>8, <1>9, <1>10 DEF Grown
<1>12. Connects(a, b, i, v)
    BY <1>1, <1>4, <1>7, <1>9 DEF Connects
<1> QED BY <1>2, <1>11, <1>12 DEF i, n

LEMMA FoundGrows ==
    ASSUME NEW a, NEW O, Clean(a, O), a.next < MaxRanUe, NEW r \in Rans, NEW g \in a.uePool
    PROVE  LET i == a.next + 1
               b == AttachRanUe(DetachRanUe(NewRanUe(a, r), g), g, i)
           IN  Grown(a, b, r, i, g) /\ Connects(a, b, i, g)
<1> DEFINE i == a.next + 1
           n == NewRanUe(a, r)
           none == [n.cur EXCEPT ![g] = 0]
           m == [n EXCEPT !.cur = none]
           cur == [m.cur EXCEPT ![g] = i]
           ue == [m.ue EXCEPT ![i] = g]
           b == [m EXCEPT !.cur = cur, !.ue = ue]
<1>1. /\ i \in RanUes /\ n \in AmfType
      /\ n.up = a.up /\ n.uePool = a.uePool /\ n.next = i
      /\ n.list = [a.list EXCEPT ![r] = Append(a.list[r], i)]
      /\ n.pool = a.pool \cup {i}
      /\ n.ran = [a.ran EXCEPT ![i] = r]
      /\ n.ue = a.ue /\ n.cur = a.cur /\ n.tmsi = a.tmsi
      /\ n.source = a.source /\ n.target = a.target
      /\ n.cause = a.cause /\ n.panic = a.panic /\ n.victim = a.victim
    BY NewRanUeIs
<1>2. AttachRanUe(DetachRanUe(n, g), g, i) = b
    BY Zenon DEF AttachRanUe, DetachRanUe
<1>3. i \in 0..MaxRanUe /\ 0 \in 0..MaxRanUe /\ g \in AmfUes
  <2>1. a.uePool \subseteq AmfUes
      BY Types DEF Clean
  <2> QED BY <1>1, <2>1, NgapAssumption DEF RanUes
<1> HIDE DEF n, i
<1>4. none \in [AmfUes -> 0..MaxRanUe] /\ none = [a.cur EXCEPT ![g] = 0]
    BY <1>1, <1>3, Types
<1> HIDE DEF none
<1>5. m \in AmfType
    BY <1>1, <1>4, Zenon DEF AmfType
<1>6. m.cur = none /\ m.ue = n.ue
    BY <1>1, Zenon DEF AmfType
<1>7. /\ cur \in [AmfUes -> 0..MaxRanUe] /\ cur = [a.cur EXCEPT ![g] = i]
      /\ ue \in [RanUes -> AmfUes \cup {NoUe}] /\ ue = [a.ue EXCEPT ![i] = g]
  <2>1. cur \in [AmfUes -> 0..MaxRanUe] /\ ue \in [RanUes -> AmfUes \cup {NoUe}]
      BY <1>1, <1>3, <1>4, <1>6, Types
  <2>2. ue = [a.ue EXCEPT ![i] = g]
      BY <1>1, <1>6
  <2>3. a.cur \in [AmfUes -> 0..MaxRanUe]
      BY Types DEF Clean
  <2>4. [[a.cur EXCEPT ![g] = 0] EXCEPT ![g] = i] = [a.cur EXCEPT ![g] = i]
      BY <2>3
  <2> QED BY <1>4, <1>6, <2>1, <2>2, <2>4
<1> HIDE DEF cur, ue
<1>8. b \in AmfType
    BY <1>5, <1>7, Zenon DEF AmfType
<1>9. /\ b.up = n.up /\ b.uePool = n.uePool /\ b.next = n.next /\ b.list = n.list /\ b.pool = n.pool
      /\ b.ran = n.ran /\ b.ue = ue /\ b.cur = cur /\ b.tmsi = n.tmsi
      /\ b.source = n.source /\ b.target = n.target
    BY <1>1, Zenon DEF AmfType
<1>10. b.cause = n.cause /\ b.panic = n.panic /\ b.victim = n.victim
    BY <1>1, Zenon DEF AmfType
<1> HIDE DEF b, m
<1>11. Grown(a, b, r, i, g)
    BY <1>1, <1>7, <1>8, <1>9, <1>10 DEF Grown
<1>12. Connects(a, b, i, g)
    BY <1>1, <1>7, <1>9 DEF Connects
<1> QED BY <1>2, <1>11, <1>12 DEF i, n

LEMMA HandoverGrows ==
    ASSUME NEW a, NEW O, Clean(a, O), a.next < MaxRanUe, NEW r \in Rans,
           NEW s \in a.pool, a.target[s] = 0
    PROVE  LET i == a.next + 1
               b == AttachSourceUeTargetUe(NewRanUe(a, r), s, i)
           IN  Grown(a, b, r, i, a.ue[s]) /\ HandsOver(a, b, i, a.ue[s], s)
<1> DEFINE i == a.next + 1
           n == NewRanUe(a, r)
           ue == [n.ue EXCEPT ![i] = n.ue[s]]
           source == [n.source EXCEPT ![i] = s]
           target == [n.target EXCEPT ![s] = i]
           b == [n EXCEPT !.ue = ue, !.source = source, !.target = target]
<1>1. /\ i \in RanUes /\ n \in AmfType
      /\ n.up = a.up /\ n.uePool = a.uePool /\ n.next = i
      /\ n.list = [a.list EXCEPT ![r] = Append(a.list[r], i)]
      /\ n.pool = a.pool \cup {i}
      /\ n.ran = [a.ran EXCEPT ![i] = r]
      /\ n.ue = a.ue /\ n.cur = a.cur /\ n.tmsi = a.tmsi
      /\ n.source = a.source /\ n.target = a.target
      /\ n.cause = a.cause /\ n.panic = a.panic /\ n.victim = a.victim
    BY NewRanUeIs
<1>2. AttachSourceUeTargetUe(n, s, i) = b
    BY Zenon DEF AttachSourceUeTargetUe
<1>3. s \in RanUes /\ s \in 0..MaxRanUe /\ i \in 0..MaxRanUe
  <2>1. a.pool \subseteq RanUes
      BY Types DEF Clean
  <2> QED BY <1>1, <2>1, NgapAssumption DEF RanUes
<1> HIDE DEF n, i
<1>4. /\ ue = [a.ue EXCEPT ![i] = a.ue[s]]
      /\ source = [a.source EXCEPT ![i] = s]
      /\ target = [a.target EXCEPT ![s] = i]
    BY <1>1, Zenon
<1>5. b \in AmfType
  <2>1. /\ ue \in [RanUes -> AmfUes \cup {NoUe}]
        /\ source \in [RanUes -> 0..MaxRanUe] /\ target \in [RanUes -> 0..MaxRanUe]
      BY <1>1, <1>3, Types
  <2> HIDE DEF ue, source, target
  <2> QED BY <1>1, <2>1, Zenon DEF AmfType
<1> HIDE DEF ue, source, target
<1>6. /\ b.up = n.up /\ b.uePool = n.uePool /\ b.next = n.next /\ b.list = n.list /\ b.pool = n.pool
      /\ b.ran = n.ran /\ b.ue = ue /\ b.cur = n.cur /\ b.tmsi = n.tmsi
      /\ b.source = source /\ b.target = target
    BY <1>1, Zenon DEF AmfType
<1>7. b.cause = n.cause /\ b.panic = n.panic /\ b.victim = n.victim
    BY <1>1, Zenon DEF AmfType
<1> HIDE DEF b
<1>8. Grown(a, b, r, i, a.ue[s])
    BY <1>1, <1>4, <1>5, <1>6, <1>7 DEF Grown
<1>9. HandsOver(a, b, i, a.ue[s], s)
    BY <1>1, <1>4, <1>6 DEF HandsOver
<1> QED BY <1>2, <1>8, <1>9 DEF i, n

----------------------------------------------------------------------------
(* Release commands and NAS messages.                                      *)

LEMMA ShrunkPending ==
    ASSUME NEW a, NEW O, NEW b, Shrunk(a, b), NEW c, Pending(a, c, O)
    PROVE  Pending(b, c, O)
    BY DEF Shrunk, Pending

\* A release command writes the cause that its completion reads.
LEMMA SendClean ==
    ASSUME NEW a, NEW O, Clean(a, O), NEW i \in 0..MaxRanUe, NEW act \in Actions,
           NEW c, Pending(a, c, O)
    PROVE  LET b == SendUEContextReleaseCommand(a, i, act)
           IN  /\ Clean(b, O) /\ Pending(b, c \cup Release(i), O) /\ Frame(a, b)
               /\ b.gmm = a.gmm /\ b.panic = a.panic /\ b.victim = a.victim
<1> DEFINE b == SendUEContextReleaseCommand(a, i, act)
<1>1. a \in AmfType
    BY DEF Clean
<1>2. CASE i = 0
  <2>1. b = a /\ c \cup Release(i) = c
      BY <1>2 DEF SendUEContextReleaseCommand, Release
  <2> QED BY <2>1 DEF Frame
<1>3. CASE i # 0
  <2> DEFINE act2 == [a.action EXCEPT ![i] = act]
             cause == IF a.ue[i] = NoUe THEN a.cause ELSE [a.cause EXCEPT ![a.ue[i]] = "ok"]
             d == [a EXCEPT !.action = act2, !.cause = cause]
  <2>1. i \in RanUes /\ act2 \in [RanUes -> Actions] /\ a.ue[i] \in AmfUes \cup {NoUe}
      BY <1>1, <1>3, NgapAssumption, Types DEF RanUes
  <2>2. cause \in [AmfUes -> {"ok", "nil"}]
    <3>1. CASE a.ue[i] = NoUe
        BY <1>1, <3>1, Types
    <3>2. CASE a.ue[i] # NoUe
        BY <1>1, <2>1, <3>2, Types
    <3> QED BY <3>1, <3>2
  <2>3. \A v \in AmfUes : cause[v] = IF v = a.ue[i] THEN "ok" ELSE a.cause[v]
    <3>1. CASE a.ue[i] = NoUe
        BY <3>1, NgapAssumption
    <3>2. CASE a.ue[i] # NoUe
        BY <1>1, <2>1, <3>2, Types
    <3> QED BY <3>1, <3>2
  <2>4. b = d
    <3>1. CASE a.ue[i] = NoUe
      <4>1. b = [a EXCEPT !.action[i] = act]
          BY <1>3, <3>1 DEF SendUEContextReleaseCommand
      <4>2. cause = a.cause
          BY <3>1
      <4> HIDE DEF b, cause
      <4> QED BY <1>1, <4>1, <4>2 DEF AmfType
    <3>2. CASE a.ue[i] # NoUe
        BY <1>3, <3>2, Zenon DEF SendUEContextReleaseCommand
    <3> QED BY <3>1, <3>2
  <2> HIDE DEF act2, cause
  <2>5. d \in AmfType
      BY <1>1, <2>1, <2>2, Zenon DEF AmfType
  <2>6. Frame(a, d)
      BY <1>1, Zenon DEF AmfType, Frame
  <2>7. d.gmm = a.gmm /\ d.panic = a.panic /\ d.victim = a.victim /\ d.cause = cause
      BY <1>1, Zenon DEF AmfType
  <2> HIDE DEF b, d
  <2>8. Clean(d, O)
      BY <2>5, <2>6, CleanAs
  <2>9. Pending(d, c \cup Release(i), O)
    <3> SUFFICES ASSUME NEW j \in a.pool, <<"Release", j>> \in c \cup Release(i), a.ue[j] \notin O
                 PROVE  cause[a.ue[j]] = "ok"
        BY <2>6, <2>7 DEF Pending, Frame
    <3>1. a.ue[j] \in AmfUes
        BY DEF Clean, Owned
    <3>2. CASE j = i
        BY <2>3, <3>1, <3>2
    <3>3. CASE j # i
      <4>1. <<"Release", j>> \notin Release(i)
          BY <1>3, <3>3 DEF Release
      <4>2. a.cause[a.ue[j]] = "ok"
          BY <4>1 DEF Pending
      <4> QED BY <2>3, <3>1, <4>2
    <3> QED BY <3>2, <3>3
  <2>10. /\ Clean(b, O) /\ Pending(b, c \cup Release(i), O) /\ Frame(a, b)
         /\ b.gmm = a.gmm /\ b.panic = a.panic /\ b.victim = a.victim
      BY <2>4, <2>6, <2>7, <2>8, <2>9
  <2> QED BY <2>10 DEF b
<1> QED BY <1>2, <1>3

WithState(a, u, g, p) == [a EXCEPT !.gmm[u] = g, !.uePool = @ \cup p]

\* The state of an AmfUe that has a connection, and UePool.
LEMMA StateClean ==
    ASSUME NEW a, NEW O, Clean(a, O), NEW u \in AmfUes, NEW i \in a.pool, a.ue[i] = u,
           NEW g \in GmmStates, NEW p \in SUBSET {u}, NEW c, Pending(a, c, O)
    PROVE  LET b == WithState(a, u, g, p)
           IN  /\ Clean(b, O) /\ Pending(b, c, O) /\ b.pool = a.pool /\ b.ue = a.ue /\ b.cur = a.cur
               /\ b.panic = a.panic
<1> DEFINE gmm == [a.gmm EXCEPT ![u] = g]
           pool == a.uePool \cup p
           d == [a EXCEPT !.gmm = gmm, !.uePool = pool]
<1>1. a \in AmfType
    BY DEF Clean
<1>2. gmm \in [AmfUes -> GmmStates] /\ pool \in SUBSET AmfUes
    BY <1>1, Types
<1>3. pool \subseteq a.uePool \cup {u}
    OBVIOUS
<1>4. WithState(a, u, g, p) = d
    BY Zenon DEF WithState
<1> HIDE DEF gmm, pool
<1>5. d \in AmfType
    BY <1>1, <1>2, Zenon DEF AmfType
<1>6. /\ d.up = a.up /\ d.list = a.list /\ d.next = a.next /\ d.pool = a.pool /\ d.ran = a.ran
      /\ d.ue = a.ue /\ d.source = a.source /\ d.target = a.target /\ d.cur = a.cur
      /\ d.uePool = pool /\ d.tmsi = a.tmsi
    BY <1>1, Zenon DEF AmfType
<1>7. d.cause = a.cause /\ d.panic = a.panic /\ d.victim = a.victim
    BY <1>1, Zenon DEF AmfType
<1> HIDE DEF d
<1>8. Lists(d)
    BY <1>6 DEF Clean, Lists, Listed
<1>9. Linked(d) /\ Owned(d) /\ Paired(d) /\ Unborn(d)
    BY <1>6 DEF Clean, Linked, Owned, Paired, Unborn
<1>10. Once(d, O) /\ Alone(d, O) /\ Short(d)
    BY <1>6 DEF Clean, Once, Alone, Short
<1>11. Held(d, O)
  <2>1. u \notin O => a.tmsi[u] = "held"
      BY DEF Clean, Alone
  <2> QED BY <1>3, <1>6, <2>1 DEF Clean, Held
<1>12. Pending(d, c, O)
    BY <1>6, <1>7 DEF Pending
<1>13. /\ Clean(d, O) /\ Pending(d, c, O) /\ d.pool = a.pool /\ d.ue = a.ue /\ d.cur = a.cur
       /\ d.panic = a.panic
    BY <1>5, <1>6, <1>7, <1>8, <1>9, <1>10, <1>11, <1>12 DEF Clean
<1> QED BY <1>4, <1>13

LEMMA PanicClean ==
    ASSUME NEW a, NEW O, Clean(a, O), NEW u \in AmfUes, u \in O, NEW where \in {"nas", "release"},
           NEW c, Pending(a, c, O)
    PROVE  LET b == Panic(a, where, u)
           IN  /\ Clean(b, O) /\ Pending(b, c, O) /\ Excused(b, O) /\ b.pool = a.pool /\ b.ue = a.ue
<1> DEFINE d == [a EXCEPT !.panic = where, !.victim = u]
<1>1. a \in AmfType
    BY DEF Clean
<1>2. Panic(a, where, u) = d
    BY DEF Panic
<1>3. d \in AmfType
    BY <1>1, Zenon DEF AmfType
<1>4. Frame(a, d)
    BY <1>1, Zenon DEF AmfType, Frame
<1>5. d.victim = u /\ d.cause = a.cause
    BY <1>1, Zenon DEF AmfType
<1> HIDE DEF d
<1>6. Clean(d, O)
    BY <1>3, <1>4, CleanAs
<1>7. /\ Clean(d, O) /\ Pending(d, c, O) /\ Excused(d, O) /\ d.pool = a.pool /\ d.ue = a.ue
    BY <1>4, <1>5, <1>6 DEF Frame, Pending, Excused
<1> QED BY <1>2, <1>7

\* An AmfUe without connection that a message on one of its own finds has had two.
LEMMA UseClean ==
    ASSUME NEW a, NEW O, Clean(a, O), NEW i \in a.pool, NEW u, a.ue[i] = u, a.panic = "no",
           NEW c, Pending(a, c, O)
    PROVE  LET b == UseRanUe(a, u)
           IN  /\ Clean(b, O) /\ Pending(b, c, O) /\ Excused(b, O) /\ b.pool = a.pool /\ b.ue = a.ue
<1>1. CASE a.cur[u] # 0
    BY <1>1 DEF UseRanUe, Excused
<1>2. CASE a.cur[u] = 0
  <2>1. i \in RanUes /\ i # 0
    <3>1. a.pool \subseteq RanUes
        BY Types DEF Clean
    <3> QED BY <3>1 DEF RanUes
  <2>2. u \in AmfUes /\ u \in O
      BY <1>2, <2>1 DEF Clean, Alone, Owned
  <2>3. UseRanUe(a, u) = Panic(a, "nas", u)
      BY <1>2 DEF UseRanUe
  <2> QED BY <2>2, <2>3, PanicClean
<1> QED BY <1>1, <1>2

\* The contexts b and the commands d that a handler leaves are in order.
Sorted(b, d, O) ==
    /\ Clean(b, O) /\ Pending(b, d, O) /\ Excused(b, O)
    /\ d \subseteq Kinds \X RanUes

\* What they are when a handler begins.
Fit(a, c, O) ==
    /\ Clean(a, O) /\ Pending(a, c, O) /\ a.panic = "no"
    /\ c \subseteq Kinds \X RanUes

LEMMA ReleaseKinds ==
    ASSUME NEW i \in 0..MaxRanUe
    PROVE  Release(i) \subseteq Kinds \X RanUes
<1>1. CASE i = 0
    BY <1>1 DEF Release
<1>2. CASE i # 0
  <2>1. i \in RanUes /\ "Release" \in Kinds
      BY <1>2, NgapAssumption DEF RanUes, Kinds
  <2> QED BY <1>2, <2>1 DEF Release
<1> QED BY <1>1, <1>2

\* A GMM handler that changes the state and then uses the AmfUe's connection.
LEMMA SettleClean ==
    ASSUME NEW a, NEW O, NEW c, Fit(a, c, O), NEW i \in a.pool, NEW u, a.ue[i] = u,
           NEW g \in GmmStates, NEW p \in SUBSET {u}
    PROVE  LET w == WithState(a, u, g, p)
               b == UseRanUe(w, u)
           IN  /\ Sorted(w, c, O) /\ w.pool = a.pool /\ w.ue = a.ue
               /\ Sorted(b, c, O) /\ b.pool = a.pool /\ b.ue = a.ue
<1> DEFINE w == WithState(a, u, g, p)
<1> USE DEF Fit
<1>1. u \in AmfUes
    BY DEF Clean, Owned
<1>2. /\ Clean(w, O) /\ Pending(w, c, O) /\ w.pool = a.pool /\ w.ue = a.ue
      /\ w.panic = "no"
    BY <1>1, StateClean
<1> HIDE DEF w
<1> DEFINE b == UseRanUe(w, u)
<1>3. Clean(b, O) /\ Pending(b, c, O) /\ Excused(b, O) /\ b.pool = w.pool /\ b.ue = w.ue
    BY <1>2, UseClean
<1> HIDE DEF b
<1>4. /\ Sorted(w, c, O) /\ w.pool = a.pool /\ w.ue = a.ue
      /\ Sorted(b, c, O) /\ b.pool = a.pool /\ b.ue = a.ue
    BY <1>2, <1>3 DEF Sorted, Excused
<1> QED BY <1>4 DEF w, b

\* The states that Gmm writes.
LEMMA GmmIs ==
    ASSUME NEW a \in AmfType, NEW u \in AmfUes, NEW g
    PROVE  [a EXCEPT !.gmm[u] = g] = WithState(a, u, g, {})
    BY DEF AmfType, WithState

LEMMA GmmClean ==
    ASSUME NEW a, NEW O, NEW c, Fit(a, c, O), NEW i \in a.pool, NEW u, a.ue[i] = u, NEW kind \in NasKinds
    PROVE  LET b == Gmm(a, u, kind)
           IN  /\ Sorted(b, c \cup GmmCmd(a, u, kind), O) /\ b.pool = a.pool /\ b.ue = a.ue
<1> DEFINE Done(b, d) == Sorted(b, d, O) /\ b.pool = a.pool /\ b.ue = a.ue
           Sent(act) == SendUEContextReleaseCommand(a, a.cur[u], act)
           k == a.cur[u]
<1>0. Clean(a, O) /\ Pending(a, c, O) /\ a.panic = "no" /\ c \subseteq Kinds \X RanUes
    BY DEF Fit
<1>1. a \in AmfType /\ u \in AmfUes /\ k \in 0..MaxRanUe
  <2>1. a \in AmfType /\ u \in AmfUes
      BY <1>0 DEF Clean, Owned
  <2> QED BY <2>1, Types
<1>2. /\ "Registering" \in GmmStates /\ "Registered" \in GmmStates /\ "Deregistered" \in GmmStates
      /\ "N2NormalRelease" \in Actions /\ "ReleaseUeContext" \in Actions
      /\ {u} \in SUBSET {u} /\ {} \in SUBSET {u}
    BY DEF GmmStates, Actions
<1>3. c \cup Release(k) \subseteq Kinds \X RanUes /\ c \cup {} = c
    BY <1>0, <1>1, ReleaseKinds
<1>4. Done(a, c)
    BY <1>0 DEF Sorted, Excused
<1>5. ASSUME NEW act \in Actions
      PROVE  /\ Clean(Sent(act), O) /\ Pending(Sent(act), c \cup Release(k), O)
             /\ Sent(act).pool = a.pool /\ Sent(act).ue = a.ue /\ Sent(act).panic = "no"
             /\ Sent(act) \in AmfType
  <2>1. /\ Clean(Sent(act), O) /\ Pending(Sent(act), c \cup Release(k), O) /\ Frame(a, Sent(act))
        /\ Sent(act).panic = a.panic
      BY <1>0, <1>1, SendClean
  <2> HIDE DEF Sent
  <2> QED BY <1>0, <2>1 DEF Frame, Clean
<1>6. CASE kind = "Request"
  <2>1. GmmCmd(a, u, kind) = {} /\ Gmm(a, u, kind) \in {[a EXCEPT !.gmm[u] = "Registering"], a}
      BY <1>6 DEF GmmCmd, Gmm
  <2> DEFINE w == WithState(a, u, "Registering", {})
  <2>2. Gmm(a, u, kind) \in {w, a}
      BY <1>1, <2>1, GmmIs
  <2>3. Done(w, c)
    <3> DEFINE none == {}
    <3>1. none \in SUBSET {u} /\ w = WithState(a, u, "Registering", none)
        OBVIOUS
    <3> HIDE DEF none, w
    <3> QED BY <1>2, <3>1, SettleClean
  <2> HIDE DEF w
  <2> QED BY <1>3, <1>4, <2>1, <2>2, <2>3
<1>7. CASE kind = "Complete"
  <2>1. CASE a.gmm[u] = "Registering"
    <3> DEFINE x == Sent("N2NormalRelease")
               w == WithState(x, u, "Registered", {u})
               b == UseRanUe(w, u)
    <3>1. GmmCmd(a, u, kind) = Release(k) /\ Gmm(a, u, kind) = b
        BY <1>7, <2>1, Zenon DEF GmmCmd, Gmm, WithState
    <3>2. /\ Clean(x, O) /\ Pending(x, c \cup Release(k), O)
          /\ x.pool = a.pool /\ x.ue = a.ue /\ x.panic = "no"
        BY <1>2, <1>5
    <3> HIDE DEF x, k
    <3>3. i \in x.pool /\ x.ue[i] = u /\ Fit(x, c \cup Release(k), O)
        BY <1>3, <3>2 DEF Fit
    <3>4. Sorted(b, c \cup Release(k), O) /\ b.pool = x.pool /\ b.ue = x.ue
        BY <1>2, <3>3, SettleClean
    <3> HIDE DEF b
    <3> QED BY <3>1, <3>2, <3>4
  <2>2. CASE a.gmm[u] # "Registering"
    <3>1. GmmCmd(a, u, kind) = {} /\ Gmm(a, u, kind) = a
        BY <1>7, <2>2 DEF GmmCmd, Gmm
    <3> QED BY <1>3, <1>4, <3>1
  <2> QED BY <2>1, <2>2
<1>8. CASE kind \in {"FollowOn", "Fail", "Service"}
  <2> DEFINE b1 == UseRanUe(WithState(a, u, "Registered", {u}), u)
             b2 == UseRanUe(WithState(a, u, "Deregistered", {}), u)
             b3 == UseRanUe(a, u)
  <2>1. GmmCmd(a, u, kind) = {}
      BY <1>8 DEF GmmCmd
  <2>2. Gmm(a, u, kind) \in {b1, b2, b3, a}
    <3>1. b2 = UseRanUe([a EXCEPT !.gmm[u] = "Deregistered"], u)
        BY <1>1, GmmIs
    <3>2. b1 = UseRanUe([a EXCEPT !.gmm[u] = "Registered", !.uePool = @ \cup {u}], u)
        BY Zenon DEF WithState
    <3> HIDE DEF b1, b2
    <3> QED BY <1>8, <3>1, <3>2 DEF Gmm
  <2>3. Done(b1, c)
      BY <1>2, SettleClean
  <2>4. Done(b2, c)
    <3> DEFINE none == {}
    <3>1. none \in SUBSET {u} /\ b2 = UseRanUe(WithState(a, u, "Deregistered", none), u)
        OBVIOUS
    <3> HIDE DEF none, b2
    <3> QED BY <1>2, <3>1, SettleClean
  <2>5. Done(b3, c)
      BY <1>0, UseClean DEF Sorted
  <2> HIDE DEF b1, b2, b3
  <2> QED BY <1>3, <1>4, <2>1, <2>2, <2>3, <2>4, <2>5
<1>9. CASE kind = "Deregister"
  <2>1. CASE a.gmm[u] = "Registered"
    <3> DEFINE x == Sent("ReleaseUeContext")
               w == WithState(x, u, "Deregistered", {})
               b == UseRanUe(w, u)
    <3>1. /\ GmmCmd(a, u, kind) = Release(k)
          /\ Gmm(a, u, kind) = UseRanUe([x EXCEPT !.gmm[u] = "Deregistered"], u)
        BY <1>9, <2>1, Zenon DEF GmmCmd, Gmm
    <3>2. /\ Clean(x, O) /\ Pending(x, c \cup Release(k), O)
          /\ x.pool = a.pool /\ x.ue = a.ue /\ x.panic = "no" /\ x \in AmfType
        BY <1>2, <1>5
    <3> HIDE DEF x, k
    <3>3. Sorted(b, c \cup Release(k), O) /\ b.pool = x.pool /\ b.ue = x.ue
      <4> DEFINE none == {}
      <4>1. none \in SUBSET {u} /\ b = UseRanUe(WithState(x, u, "Deregistered", none), u)
          OBVIOUS
      <4>2. i \in x.pool /\ x.ue[i] = u /\ Fit(x, c \cup Release(k), O)
          BY <1>3, <3>2 DEF Fit
      <4> HIDE DEF none, b, w
      <4> QED BY <1>2, <4>1, <4>2, SettleClean
    <3>4. Gmm(a, u, kind) = b
        BY <1>1, <3>1, <3>2, GmmIs
    <3> HIDE DEF b
    <3> QED BY <3>1, <3>2, <3>3, <3>4
  <2>2. CASE a.gmm[u] # "Registered"
    <3>1. GmmCmd(a, u, kind) = {} /\ Gmm(a, u, kind) = a
        BY <1>9, <2>2 DEF GmmCmd, Gmm
    <3> QED BY <1>3, <1>4, <3>1
  <2> QED BY <2>1, <2>2
<1> QED BY <1>6, <1>7, <1>8, <1>9 DEF NasKinds

----------------------------------------------------------------------------
(* What a handler may rely on, and what it has to leave.                   *)

LEMMA Wider ==
    ASSUME NEW a, NEW O, NEW P, O \subseteq P, Clean(a, O), NEW c, Pending(a, c, O)
    PROVE  Clean(a, P) /\ Pending(a, c, P)
<1>1. Once(a, P) /\ Alone(a, P) /\ Held(a, P)
    BY DEF Clean, Once, Alone, Held
<1>2. Pending(a, c, P)
    BY DEF Pending
<1> QED BY <1>1, <1>2 DEF Clean

LEMMA Given ==
    ASSUME Inv, NEW b, NEW d, Leave(b, d)
    PROVE  /\ Clean(amf, overlapped') /\ Pending(amf, cmds, overlapped')
           /\ amf.panic = "no" /\ amf \in AmfType
           /\ cmds \subseteq Kinds \X RanUes /\ \A x \in cmds : x[2] \in amf.pool
<1>1. overlapped \subseteq overlapped' /\ amf.panic = "no"
    BY DEF Leave
<1>2. Clean(amf, overlapped) /\ Pending(amf, cmds, overlapped)
    BY DEF Inv
<1>3. Clean(amf, overlapped') /\ Pending(amf, cmds, overlapped')
    BY <1>1, <1>2, Wider
<1> QED BY <1>1, <1>2, <1>3 DEF Inv, Clean

LEMMA Left ==
    ASSUME Inv, NEW b, NEW d, Leave(b, d), Sorted(b, d, overlapped')
    PROVE  Inv'
<1>1. /\ amf' = b /\ cmds' = {x \in d : x[2] \in b.pool}
      /\ overlapped' = overlapped \cup Doubled(b)
    BY DEF Leave
<1>2. overlapped' \subseteq AmfUes
    BY <1>1 DEF Inv, Doubled
<1>3. cmds' \subseteq Kinds \X RanUes /\ \A x \in cmds' : x[2] \in amf'.pool
    BY <1>1 DEF Sorted
<1>4. Clean(amf', overlapped') /\ Excused(amf', overlapped')
    BY <1>1 DEF Sorted
<1>5. Pending(amf', cmds', overlapped')
  <2>1. Pending(b, d, overlapped') /\ cmds' \subseteq d
      BY <1>1 DEF Sorted
  <2> QED BY <1>1, <2>1 DEF Pending
<1> QED BY <1>2, <1>3, <1>4, <1>5 DEF Inv

LEMMA ShrunkSorted ==
    ASSUME NEW a, NEW O, NEW c, Pending(a, c, O), a.panic = "no", c \subseteq Kinds \X RanUes,
           NEW b, Clean(b, O), Shrunk(a, b), NEW d, d \subseteq c
    PROVE  Sorted(b, d, O)
<1>1. Pending(b, d, O)
    BY DEF Pending, Shrunk
<1>2. Excused(b, O)
    BY DEF Excused, Shrunk
<1> QED BY <1>1, <1>2 DEF Sorted

LEMMA SendSorted ==
    ASSUME NEW a, NEW O, Clean(a, O), NEW c, Pending(a, c, O), a.panic = "no",
           c \subseteq Kinds \X RanUes, NEW i \in 0..MaxRanUe, NEW act \in Actions,
           NEW d, d \subseteq c
    PROVE  Sorted(SendUEContextReleaseCommand(a, i, act), d \cup Release(i), O)
<1> DEFINE b == SendUEContextReleaseCommand(a, i, act)
<1>1. Clean(b, O) /\ Pending(b, c \cup Release(i), O) /\ b.panic = "no"
    BY SendClean
<1> HIDE DEF b
<1>2. Pending(b, d \cup Release(i), O)
    BY <1>1 DEF Pending
<1>3. d \cup Release(i) \subseteq Kinds \X RanUes
    BY ReleaseKinds
<1>4. Sorted(b, d \cup Release(i), O)
    BY <1>1, <1>2, <1>3 DEF Sorted, Excused
<1> QED BY <1>4 DEF b

LEMMA NasSorted ==
    ASSUME NEW a, NEW O, Clean(a, O), NEW i \in a.pool, a.panic = "no", NEW v,
           NEW c, c \subseteq Kinds \X RanUes, Pending(a, c, O), NEW kind \in NasKinds
    PROVE  LET b == HandleNAS(a, i, v, kind)
           IN  /\ Sorted(b, c \cup NasCmd(a, i, v, kind), O) /\ b.pool = a.pool /\ b.ue = a.ue
<1>1. a.ue[i] # NoUe
    BY NgapAssumption DEF Clean, Owned
<1>2. /\ HandleNAS(a, i, v, kind) = Gmm(a, a.ue[i], kind)
      /\ NasCmd(a, i, v, kind) = GmmCmd(a, a.ue[i], kind)
    BY <1>1 DEF HandleNAS, NasCmd, Attached, UeOf
<1> DEFINE u == a.ue[i]
           b == Gmm(a, u, kind)
<1>3. a.ue[i] = u
    OBVIOUS
<1> HIDE DEF u
<1>4. Sorted(b, c \cup GmmCmd(a, u, kind), O) /\ b.pool = a.pool /\ b.ue = a.ue
  <2>1. Fit(a, c, O)
      BY DEF Fit
  <2> QED BY <1>3, <2>1, GmmClean
<1> QED BY <1>2, <1>3, <1>4

\* A RAN connects, or is closed when few of its connections are left.
LEMMA UpClean ==
    ASSUME NEW a, NEW O, Clean(a, O), NEW r \in Rans, NEW x \in {"up", "gone"},
           x = "gone" => 2 * Len(a.list[r]) < MaxRanUe
    PROVE  Clean([a EXCEPT !.up[r] = x], O) /\ Shrunk(a, [a EXCEPT !.up[r] = x])
<1> DEFINE up == [a.up EXCEPT ![r] = x]
           b == [a EXCEPT !.up = up]
<1>1. a \in AmfType
    BY DEF Clean
<1>2. up \in [Rans -> {"new", "up", "gone"}] /\ \A q \in Rans : up[q] = IF q = r THEN x ELSE a.up[q]
    BY <1>1, Types
<1>3. [a EXCEPT !.up[r] = x] = b
    BY Zenon
<1> HIDE DEF up
<1>4. b \in AmfType
    BY <1>1, <1>2, Zenon DEF AmfType
<1>5. /\ b.up = up /\ b.list = a.list /\ b.next = a.next /\ b.pool = a.pool /\ b.ran = a.ran
      /\ b.ue = a.ue /\ b.source = a.source /\ b.target = a.target /\ b.cur = a.cur
      /\ b.uePool = a.uePool /\ b.tmsi = a.tmsi
    BY <1>1, Zenon DEF AmfType
<1>6. b.cause = a.cause /\ b.panic = a.panic /\ b.victim = a.victim
    BY <1>1, Zenon DEF AmfType
<1> HIDE DEF b
<1>7. Lists(b)
    BY <1>5 DEF Clean, Lists, Listed
<1>8. Linked(b) /\ Owned(b) /\ Paired(b) /\ Unborn(b)
    BY <1>5 DEF Clean, Linked, Owned, Paired, Unborn
<1>9. Once(b, O) /\ Alone(b, O) /\ Held(b, O)
    BY <1>5 DEF Clean, Once, Alone, Held
<1>10. Short(b)
    BY <1>2, <1>5 DEF Clean, Short
<1>11. Clean(b, O) /\ Shrunk(a, b)
    BY <1>4, <1>5, <1>6, <1>7, <1>8, <1>9, <1>10 DEF Clean, Shrunk
<1> QED BY <1>3, <1>11

----------------------------------------------------------------------------
(* The handlers.                                                           *)

LEMMA SetupStep ==
    ASSUME Inv, NEW r \in Rans, HandleNGSetupRequest(r)
    PROVE  Inv'
<1> DEFINE b == [amf EXCEPT !.up[r] = "up"]
<1>1. Leave(b, cmds)
    BY DEF HandleNGSetupRequest
<1>2. ASSUME Clean(amf, overlapped') PROVE Clean(b, overlapped') /\ Shrunk(amf, b)
    BY <1>2, UpClean
<1> HIDE DEF b
<1>3. Sorted(b, cmds, overlapped')
    BY <1>1, <1>2, Given, ShrunkSorted
<1> QED BY <1>1, <1>3, Left

LEMMA RemovalStep ==
    ASSUME Inv, NEW i \in amf.pool, NEW d, d \subseteq cmds, Leave(RemoveRanUe(amf, i), d)
    PROVE  Inv'
<1> DEFINE b == RemoveRanUe(amf, i)
<1>1. Clean(b, overlapped') /\ Shrunk(amf, b)
    BY Given, RemoveRanUeDrops, DroppedShrunk
<1> HIDE DEF b
<1>2. Leave(b, d)
    BY DEF b
<1>3. Sorted(b, d, overlapped')
    BY <1>1, <1>2, Given, ShrunkSorted
<1> QED BY <1>2, <1>3, Left

LEMMA ResetStep ==
    ASSUME Inv, NEW r \in Rans, HandleNGReset(r)
    PROVE  Inv'
<1> DEFINE b == RemoveAllUeInRan(amf, r)
           d == {c \in cmds : amf.ran[c[2]] # r}
<1>1. Leave(b, d)
    BY DEF HandleNGReset
<1>2. Clean(b, overlapped') /\ Shrunk(amf, b)
    BY <1>1, Given, RemoveAllDrops, DroppedShrunk
<1>3. d \subseteq cmds
    OBVIOUS
<1> HIDE DEF b, d
<1>4. Sorted(b, d, overlapped')
    BY <1>1, <1>2, <1>3, Given, ShrunkSorted
<1> QED BY <1>1, <1>4, Left

LEMMA ClosedStep ==
    ASSUME Inv, NEW r \in Rans, RanClosed(r)
    PROVE  Inv'
<1> DEFINE a == RemoveAllUeInRan(amf, r)
           b == [a EXCEPT !.up[r] = "gone"]
           d == {c \in cmds : amf.ran[c[2]] # r}
<1>1. Leave(b, d)
    BY DEF RanClosed
<1>2. Clean(a, overlapped') /\ Shrunk(amf, a) /\ 2 * Len(a.list[r]) < MaxRanUe
    BY <1>1, Given, RemoveAllDrops, DroppedShrunk
<1>3. d \subseteq cmds
    OBVIOUS
<1> HIDE DEF a, d
<1>4. Clean(b, overlapped') /\ Shrunk(a, b)
    BY <1>2, UpClean
<1> HIDE DEF b
<1>5. Shrunk(amf, b)
    BY <1>2, <1>4 DEF Shrunk
<1>6. Sorted(b, d, overlapped')
    BY <1>1, <1>3, <1>4, <1>5, Given, ShrunkSorted
<1> QED BY <1>1, <1>6, Left

LEMMA RemoveAmfUeStep ==
    ASSUME Inv, NEW u \in AmfUes, Leave(RemoveAmfUe(amf, u), cmds)
    PROVE  Inv'
<1> DEFINE b == RemoveAmfUe(amf, u)
<1>1. Clean(b, overlapped') /\ Shrunk(amf, b)
    BY Given, RemoveAmfUeClean
<1> HIDE DEF b
<1>2. Leave(b, cmds)
    BY DEF b
<1>3. Sorted(b, cmds, overlapped')
    BY <1>1, <1>2, Given, ShrunkSorted
<1> QED BY <1>2, <1>3, Left

LEMMA PathSwitchStep ==
    ASSUME Inv, NEW i \in RanUes, NEW r \in Rans, HandlePathSwitchRequest(i, r)
    PROVE  Inv'
<1> DEFINE b == SwitchToRan(amf, i, r)
<1>1. Leave(b, cmds) /\ i \in amf.pool /\ amf.up[r] = "up" /\ r # amf.ran[i]
    BY DEF HandlePathSwitchRequest, Known
<1>2. Clean(b, overlapped') /\ Shrunk(amf, b)
    BY <1>1, Given, SwitchClean
<1> HIDE DEF b
<1>3. Sorted(b, cmds, overlapped')
    BY <1>1, <1>2, Given, ShrunkSorted
<1> QED BY <1>1, <1>3, Left

LEMMA ReleaseRequestStep ==
    ASSUME Inv, NEW i \in RanUes, HandleUEContextReleaseRequest(i)
    PROVE  Inv'
<1> DEFINE act == IF amf.ue[i] # NoUe /\ amf.gmm[amf.ue[i]] # "Registered"
                  THEN "ReleaseUeContext" ELSE "N2NormalRelease"
           b == SendUEContextReleaseCommand(amf, i, act)
<1>1. Leave(b, cmds \cup Release(i))
    BY DEF HandleUEContextReleaseRequest
<1>2. act \in Actions /\ i \in 0..MaxRanUe /\ cmds \subseteq cmds
    BY NgapAssumption DEF Actions, RanUes
<1> HIDE DEF act
<1>3. ASSUME NEW O, Clean(amf, O), Pending(amf, cmds, O), amf.panic = "no", cmds \subseteq Kinds \X RanUes
      PROVE  Sorted(b, cmds \cup Release(i), O)
    BY <1>2, <1>3, SendSorted
<1> HIDE DEF b
<1>4. Sorted(b, cmds \cup Release(i), overlapped')
    BY <1>1, <1>3, Given
<1> QED BY <1>1, <1>4, Left

LEMMA AcknowledgeStep ==
    ASSUME Inv, NEW t \in RanUes, NEW ok \in BOOLEAN, HandleHandoverRequestAcknowledge(t, ok)
    PROVE  Inv'
<1> DEFINE more == IF ok /\ amf.source[t] # 0 /\ <<"Release", t>> \notin cmds
                   THEN {<<"HandoverCommand", t>>} ELSE {}
           d == (cmds \ {<<"HandoverRequest", t>>}) \cup more
<1>1. Leave(amf, d)
    BY DEF HandleHandoverRequestAcknowledge
<1>2. /\ more \subseteq Kinds \X RanUes
      /\ \A j : <<"Release", j>> \notin more
  <2>1. more \subseteq {<<"HandoverCommand", t>>}
      OBVIOUS
  <2> HIDE DEF more
  <2>2. "HandoverCommand" \in Kinds
      BY DEF Kinds
  <2> QED BY <2>1, <2>2
<1> HIDE DEF more
<1>3. d \subseteq Kinds \X RanUes /\ \A j : <<"Release", j>> \in d => <<"Release", j>> \in cmds
    BY <1>2 DEF Inv
<1> HIDE DEF d
<1>4. Pending(amf, d, overlapped') /\ Clean(amf, overlapped') /\ amf.panic = "no"
    BY <1>1, <1>3, Given DEF Pending
<1>5. Sorted(amf, d, overlapped')
    BY <1>3, <1>4 DEF Sorted, Excused
<1> QED BY <1>1, <1>5, Left

LEMMA FailureStep ==
    ASSUME Inv, NEW t \in RanUes, HandleHandoverFailure(t)
    PROVE  Inv'
<1> DEFINE b == SendUEContextReleaseCommand(amf, t, "ReleaseHandover")
           d == cmds \ {<<"HandoverRequest", t>>}
<1>1. Leave(b, d \cup Release(t))
    BY DEF HandleHandoverFailure
<1>2. "ReleaseHandover" \in Actions /\ t \in 0..MaxRanUe /\ d \subseteq cmds
    BY NgapAssumption DEF Actions, RanUes
<1> HIDE DEF d
<1>3. ASSUME NEW O, Clean(amf, O), Pending(amf, cmds, O), amf.panic = "no", cmds \subseteq Kinds \X RanUes
      PROVE  Sorted(b, d \cup Release(t), O)
    BY <1>2, <1>3, SendSorted
<1> HIDE DEF b
<1>4. Sorted(b, d \cup Release(t), overlapped')
    BY <1>1, <1>3, Given
<1> QED BY <1>1, <1>4, Left

LEMMA CancelStep ==
    ASSUME Inv, NEW s \in RanUes, HandleHandoverCancel(s)
    PROVE  Inv'
<1> DEFINE t == amf.target[s]
           b == SendUEContextReleaseCommand(amf, t, "ReleaseHandover")
           d == cmds \ {<<"HandoverCommand", t>>}
<1>1. Leave(b, d \cup Release(t))
    BY DEF HandleHandoverCancel
<1>2. "ReleaseHandover" \in Actions /\ t \in 0..MaxRanUe /\ d \subseteq cmds
  <2>1. amf \in AmfType
      BY DEF Inv, Clean
  <2> QED BY <2>1, Types DEF Actions
<1> HIDE DEF d, t
<1>3. ASSUME NEW O, Clean(amf, O), Pending(amf, cmds, O), amf.panic = "no", cmds \subseteq Kinds \X RanUes
      PROVE  Sorted(b, d \cup Release(t), O)
    BY <1>2, <1>3, SendSorted
<1> HIDE DEF b
<1>4. Sorted(b, d \cup Release(t), overlapped')
    BY <1>1, <1>3, Given
<1> QED BY <1>1, <1>4, Left

LEMMA NotifyStep ==
    ASSUME Inv, NEW t \in RanUes, HandleHandoverNotify(t)
    PROVE  Inv'
<1> DEFINE s == amf.source[t]
           a == AttachRanUe(amf, amf.ue[t], t)
           b == SendUEContextReleaseCommand(a, s, "ReleaseHandover")
           d == cmds \ {<<"HandoverCommand", t>>}
<1>1. t \in amf.pool
  <2>1. <<"HandoverCommand", t>> \in cmds
      BY DEF HandleHandoverNotify
  <2> QED BY <2>1 DEF Inv
<1>2. "ReleaseHandover" \in Actions /\ s \in 0..MaxRanUe /\ d \subseteq cmds
  <2>1. amf \in AmfType
      BY DEF Inv, Clean
  <2> QED BY <2>1, Types DEF Actions
<1>3. \/ Leave(b, d \cup Release(s))
      \/ Leave(amf, d)
    BY DEF HandleHandoverNotify
<1> HIDE DEF d, s
<1>4. ASSUME Leave(b, d \cup Release(s)) PROVE Inv'
  <2>1. /\ Clean(amf, overlapped') /\ Pending(amf, cmds, overlapped') /\ amf.panic = "no"
        /\ cmds \subseteq Kinds \X RanUes
      BY <1>4, Given
  <2>2. Clean(a, overlapped') /\ Shrunk(amf, a)
      BY <1>1, <2>1, AttachClean
  <2> HIDE DEF a
  <2>3. Pending(a, cmds, overlapped') /\ a.panic = "no"
      BY <2>1, <2>2, ShrunkPending DEF Shrunk
  <2>4. Sorted(b, d \cup Release(s), overlapped')
      BY <1>2, <2>1, <2>2, <2>3, SendSorted
  <2> HIDE DEF b
  <2> QED BY <1>4, <2>4, Left
<1>5. ASSUME Leave(amf, d) PROVE Inv'
  <2>1. Shrunk(amf, amf)
      BY DEF Shrunk
  <2>2. Sorted(amf, d, overlapped')
      BY <1>2, <1>5, <2>1, Given, ShrunkSorted
  <2> QED BY <1>5, <2>2, Left
<1> QED BY <1>3, <1>4, <1>5

LEMMA UplinkStep ==
    ASSUME Inv, NEW i \in RanUes, NEW kind \in NasKinds, HandleUplinkNasTransport(i, kind)
    PROVE  Inv'
<1> DEFINE b == HandleNAS(amf, i, NoUe, kind)
           d == cmds \cup NasCmd(amf, i, NoUe, kind)
<1>1. i \in amf.pool /\ amf.ue[i] # NoUe
    BY NgapAssumption DEF HandleUplinkNasTransport, Known, Inv, Clean, Owned
<1>2. Leave(b, d)
    BY <1>1 DEF HandleUplinkNasTransport
<1>3. ASSUME NEW O, Clean(amf, O), Pending(amf, cmds, O), amf.panic = "no", cmds \subseteq Kinds \X RanUes
      PROVE  Sorted(b, d, O)
    BY <1>1, <1>3, NasSorted
<1> HIDE DEF b, d
<1>4. Sorted(b, d, overlapped')
    BY <1>2, <1>3, Given
<1> QED BY <1>2, <1>4, Left

LEMMA InitialKnownStep ==
    ASSUME Inv, NEW r \in Rans, NEW k, NEW kind \in NasKinds, InitialUEMessageKnown(r, k, kind)
    PROVE  Inv'
<1> DEFINE a == AttachRanUe(amf, amf.ue[k], k)
           b == HandleNAS(a, k, NoUe, kind)
           d == cmds \cup NasCmd(a, k, NoUe, kind)
<1>1. k \in amf.pool /\ Leave(b, d)
    BY DEF InitialUEMessageKnown, Known
<1>2. ASSUME NEW O, Clean(amf, O), Pending(amf, cmds, O), amf.panic = "no", cmds \subseteq Kinds \X RanUes
      PROVE  Sorted(b, d, O)
  <2>1. Clean(a, O) /\ Shrunk(amf, a) /\ a.pool = amf.pool
      BY <1>1, <1>2, AttachClean
  <2> HIDE DEF a
  <2>2. Pending(a, cmds, O) /\ a.panic = "no"
      BY <1>2, <2>1, ShrunkPending DEF Shrunk
  <2> QED BY <1>1, <1>2, <2>1, <2>2, NasSorted
<1> HIDE DEF b, d
<1>3. Sorted(b, d, overlapped')
    BY <1>1, <1>2, Given
<1> QED BY <1>1, <1>3, Left

\* A new connection leaves the contexts in order for the AmfUes that overlap then.
LEMMA GrownSorted ==
    ASSUME Inv, amf.panic = "no", amf.next < MaxRanUe, NEW r \in Rans, amf.up[r] = "up",
           NEW i, i = amf.next + 1, NEW u \in AmfUes, NEW s, NEW b, Grown(amf, b, r, i, u),
           Connects(amf, b, i, u) \/ HandsOver(amf, b, i, u, s)
    PROVE  LET O == overlapped \cup Doubled(b)
           IN  /\ Clean(b, O) /\ Pending(b, cmds, O) /\ b.panic = "no" /\ i \in b.pool
               /\ b.ue[i] = u /\ i \in RanUes
<1> DEFINE O == overlapped \cup Doubled(b)
<1>1. Clean(amf, O) /\ Pending(amf, cmds, O)
  <2>1. overlapped \subseteq O /\ Clean(amf, overlapped) /\ Pending(amf, cmds, overlapped)
      BY DEF Inv
  <2> HIDE DEF O
  <2> QED BY <2>1, Wider
<1>2. amf \in AmfType /\ b \in AmfType
    BY <1>1 DEF Clean, Grown
<1>3. i \in RanUes /\ i \notin amf.pool
    BY <1>1, <1>2, Types, NgapAssumption DEF Clean, Unborn, RanUes
<1>4. b.pool = amf.pool \cup {i} /\ b.ue = [amf.ue EXCEPT ![i] = u]
    BY DEF Grown
<1>5. \A j \in RanUes : b.ue[j] = IF j = i THEN u ELSE amf.ue[j]
    BY <1>2, <1>4, Types
<1>6. amf.pool \subseteq RanUes
    BY <1>2, Types
<1>7. \A j \in b.pool : b.ue[j] \in AmfUes
  <2>1. \A j \in amf.pool : amf.ue[j] \in AmfUes
      BY <1>1 DEF Clean, Owned
  <2> HIDE DEF O
  <2> QED BY <1>3, <1>4, <1>5, <1>6, <2>1
<1>8. Once(b, O)
    BY <1>7 DEF Once, Doubled
<1> HIDE DEF O
<1>9. Clean(b, O)
    BY <1>1, <1>8, GrownClean
<1>10. Pending(b, cmds, O)
  <2>1. ASSUME NEW j, <<"Release", j>> \in cmds PROVE j \in amf.pool
      BY <2>1 DEF Inv
  <2>2. b.cause = amf.cause
      BY DEF Grown
  <2> QED BY <1>1, <1>3, <1>4, <1>5, <1>6, <2>1, <2>2 DEF Pending
<1>11. b.panic = "no" /\ i \in b.pool /\ b.ue[i] = u
    BY <1>3, <1>4, <1>5 DEF Grown
<1> QED BY <1>3, <1>9, <1>10, <1>11 DEF O

LEMMA HandoverRequiredStep ==
    ASSUME Inv, NEW s \in RanUes, NEW r \in Rans, HandleHandoverRequired(s, r)
    PROVE  Inv'
<1> DEFINE t == amf.next + 1
           b == AttachSourceUeTargetUe(NewRanUe(amf, r), s, t)
           d == cmds \cup {<<"HandoverRequest", t>>}
<1>1. /\ s \in amf.pool /\ amf.up[r] = "up" /\ amf.target[s] = 0 /\ amf.next < MaxRanUe
      /\ Leave(b, d)
    BY DEF HandleHandoverRequired, Known
<1>2. Clean(amf, overlapped) /\ amf.ue[s] \in AmfUes /\ cmds \subseteq Kinds \X RanUes
    BY <1>1 DEF Inv, Clean, Owned
<1>3. Grown(amf, b, r, t, amf.ue[s]) /\ HandsOver(amf, b, t, amf.ue[s], s)
    BY <1>1, <1>2, HandoverGrows
<1> HIDE DEF b
<1>4. amf.panic = "no" /\ overlapped' = overlapped \cup Doubled(b)
    BY <1>1 DEF Leave
<1>5. Clean(b, overlapped') /\ Pending(b, cmds, overlapped') /\ b.panic = "no" /\ t \in RanUes
  <2> DEFINE O == overlapped \cup Doubled(b)
  <2>1. Clean(b, O) /\ Pending(b, cmds, O) /\ b.panic = "no" /\ t \in RanUes
    <3> DEFINE u == amf.ue[s]
    <3>1. t = amf.next + 1 /\ u \in AmfUes /\ Grown(amf, b, r, t, u) /\ HandsOver(amf, b, t, u, s)
        BY <1>2, <1>3
    <3> HIDE DEF t, d, u
    <3> QED BY <1>1, <1>4, <3>1, GrownSorted
  <2> QED BY <1>4, <2>1
<1>6. d \subseteq Kinds \X RanUes
  <2>1. "HandoverRequest" \in Kinds
      BY DEF Kinds
  <2> HIDE DEF t
  <2> QED BY <1>2, <1>5, <2>1
<1>7. Pending(b, d, overlapped')
    BY <1>5 DEF Pending
<1>8. Sorted(b, d, overlapped')
    BY <1>5, <1>6, <1>7 DEF Sorted, Excused
<1> HIDE DEF d
<1> QED BY <1>1, <1>8, Left

LEMMA InitialNewStep ==
    ASSUME Inv, NEW r \in Rans, NEW kind \in NasKinds, NEW k \in {0} \cup Listed(amf, r),
           NEW g \in {NoUe} \cup amf.uePool, NEW v \in IF g = NoUe THEN Fresh ELSE {NoUe},
           InitialUEMessageNew(r, k, g, v, kind)
    PROVE  Inv'
<1> DEFINE i == amf.next + 1
           n == NewRanUe(amf, r)
           y == IF g = NoUe THEN AttachRanUe(NewAmfUe(n, v), v, i)
                ELSE AttachRanUe(DetachRanUe(n, g), g, i)
           u == IF g = NoUe THEN v ELSE g
           b == Gmm(y, u, kind)
           d == cmds \cup GmmCmd(y, u, kind)
<1>1. Clean(amf, overlapped) /\ cmds \subseteq Kinds \X RanUes
    BY DEF Inv
<1>2. amf.uePool \subseteq AmfUes /\ Fresh \subseteq AmfUes
    BY <1>1, Types DEF Fresh, Clean
<1>3. k = 0
  <2> SUFFICES ASSUME k # 0 PROVE FALSE
      OBVIOUS
  <2>1. k \in Listed(amf, r) /\ amf.ue[k] = NoUe
      BY DEF InitialUEMessageNew
  <2>2. k \in amf.pool
      BY <1>1, <2>1, CleanLists
  <2> QED BY <1>1, <2>1, <2>2, NgapAssumption DEF Clean, Owned
<1>4. amf.up[r] = "up" /\ amf.next < MaxRanUe
    BY DEF InitialUEMessageNew
<1>5. u \in AmfUes /\ Grown(amf, y, r, i, u) /\ Connects(amf, y, i, u)
  <2>1. CASE g = NoUe
    <3>1. v \in AmfUes
        BY <1>2, <2>1
    <3>2. y = AttachRanUe(NewAmfUe(n, v), v, i) /\ u = v
        BY <2>1
    <3> QED BY <1>1, <1>4, <3>1, <3>2, FreshGrows
  <2>2. CASE g # NoUe
    <3>1. g \in amf.uePool
        BY <2>2
    <3>2. y = AttachRanUe(DetachRanUe(n, g), g, i) /\ u = g
        BY <2>2
    <3> QED BY <1>1, <1>2, <1>4, <3>1, <3>2, FoundGrows
  <2> QED BY <2>1, <2>2
<1>6. Leave(b, d)
  <2>1. n.ue[i] = NoUe
      BY <1>1, <1>4, NewRanUeIs
  <2>2. CASE g = NoUe
    <3>1. Leave(HandleNAS(n, i, v, kind), cmds \cup NasCmd(n, i, v, kind))
        BY <1>3, <2>2 DEF InitialUEMessageNew
    <3>2. HandleNAS(n, i, v, kind) = b /\ NasCmd(n, i, v, kind) = GmmCmd(y, u, kind)
        BY <2>1, <2>2 DEF HandleNAS, NasCmd, Attached, UeOf
    <3> QED BY <3>1, <3>2
  <2>3. CASE g # NoUe
    <3>1. Leave(HandleNAS(y, i, v, kind), cmds \cup NasCmd(y, i, v, kind))
        BY <1>3, <2>3 DEF InitialUEMessageNew
    <3>2. y.ue[i] = g /\ u = g
      <4>1. y.ue = [amf.ue EXCEPT ![i] = u] /\ i \in RanUes /\ u = g
          BY <1>1, <1>4, <1>5, <2>3, NewRanUeIs DEF Grown
      <4>2. amf.ue \in [RanUes -> AmfUes \cup {NoUe}]
          BY <1>1, Types DEF Clean
      <4> QED BY <4>1, <4>2
    <3>3. HandleNAS(y, i, v, kind) = b /\ NasCmd(y, i, v, kind) = GmmCmd(y, u, kind)
        BY <2>3, <3>2 DEF HandleNAS, NasCmd, Attached, UeOf
    <3> QED BY <3>1, <3>3
  <2> QED BY <2>2, <2>3
<1> DEFINE O == overlapped \cup Doubled(y)
<1>7. amf.panic = "no" /\ overlapped' = overlapped \cup Doubled(b)
    BY <1>6 DEF Leave
<1> HIDE DEF y, u
<1>8. Clean(y, O) /\ Pending(y, cmds, O) /\ y.panic = "no" /\ i \in y.pool /\ y.ue[i] = u
    BY <1>4, <1>5, <1>7, GrownSorted
<1> HIDE DEF i, O
<1>9. Sorted(b, d, O) /\ b.pool = y.pool /\ b.ue = y.ue
  <2>1. Fit(y, cmds, O)
      BY <1>1, <1>8 DEF Fit
  <2> QED BY <1>8, <2>1, GmmClean
<1> HIDE DEF b
<1>10. overlapped' = O
    BY <1>7, <1>9 DEF O, Doubled
<1> HIDE DEF d
<1> QED BY <1>6, <1>9, <1>10, Left

\* Once the connection is released it is gone, whatever its ReleaseAction.
LEMMA ReleasedClean ==
    ASSUME NEW a, NEW O, Clean(a, O), NEW i \in a.pool, NEW u \in AmfUes
    PROVE  LET b == Released(a, i, u)
           IN  Clean(b, O) /\ Shrunk(a, b) /\ i \notin b.pool
<1>1. a \in AmfType /\ i \in RanUes
    BY Types DEF Clean
<1>2. ASSUME NEW x, Clean(x, O), i \in x.pool
      PROVE  LET b == RemoveRanUe(x, i)
             IN  Clean(b, O) /\ Shrunk(x, b) /\ i \notin b.pool
  <2>1. x \in AmfType
      BY <1>2 DEF Clean
  <2>2. Clean(RemoveRanUe(x, i), O) /\ Dropped(x, RemoveRanUe(x, i), {i})
      BY <1>2, RemoveRanUeDrops
  <2> QED BY <2>1, <2>2, DroppedShrunk DEF Dropped
<1>3. CASE a.action[i] = "N2NormalRelease"
  <2>1. Released(a, i, u) = RemoveRanUe(a, i)
      BY <1>3 DEF Released
  <2> QED BY <1>2, <2>1
<1>4. CASE a.action[i] = "ReleaseUeContext"
  <2> DEFINE x == RemoveRanUe(a, i)
             b == RemoveAmfUe(x, u)
  <2>1. Released(a, i, u) = b
      BY <1>4 DEF Released
  <2>2. Clean(x, O) /\ Shrunk(a, x) /\ i \notin x.pool
      BY <1>2
  <2> HIDE DEF x
  <2>3. Clean(b, O) /\ Shrunk(x, b)
      BY <2>2, RemoveAmfUeClean
  <2> HIDE DEF b
  <2> QED BY <2>1, <2>2, <2>3 DEF Shrunk
<1>5. CASE a.action[i] = "ReleaseHandover"
  <2> DEFINE x == DetachSourceUeTargetUe(a, i)
             b == RemoveRanUe(x, i)
  <2>1. Released(a, i, u) = b
      BY <1>5 DEF Released
  <2>2. Clean(x, O) /\ Shrunk(a, x) /\ x.pool = a.pool
      BY <1>1, DetachClean
  <2> HIDE DEF x
  <2>3. Clean(b, O) /\ Shrunk(x, b) /\ i \notin b.pool
      BY <1>2, <2>2
  <2> HIDE DEF b
  <2> QED BY <2>1, <2>2, <2>3 DEF Shrunk
<1>6. a.action[i] \in Actions
    BY <1>1, Types
<1> QED BY <1>3, <1>4, <1>5, <1>6 DEF Actions

LEMMA ReleaseCompleteStep ==
    ASSUME Inv, NEW i \in RanUes, HandleUEContextReleaseComplete(i)
    PROVE  Inv'
<1> DEFINE u == amf.ue[i]
           d == cmds \ {<<"Release", i>>}
           x == [amf EXCEPT !.cause[u] = "nil"]
           b == Released(x, i, u)
           O == overlapped'
<1>1. <<"Release", i>> \in cmds
    BY DEF HandleUEContextReleaseComplete
<1>2. i \in amf.pool /\ u \in AmfUes /\ u # NoUe /\ d \subseteq cmds
  <2>1. i \in amf.pool
      BY <1>1 DEF Inv
  <2> QED BY <2>1, NgapAssumption DEF Inv, Clean, Owned
<1>3. IF amf.cause[u] = "nil" THEN Leave(Panic(amf, "release", u), d) ELSE Leave(b, d)
    BY <1>2 DEF HandleUEContextReleaseComplete
<1>4. CASE amf.cause[u] = "nil"
  <2> DEFINE p == Panic(amf, "release", u)
  <2>1. Leave(p, d)
      BY <1>3, <1>4
  <2> HIDE DEF p
  <2>2. Clean(amf, O) /\ Pending(amf, cmds, O) /\ amf.panic = "no" /\ cmds \subseteq Kinds \X RanUes
      BY <2>1, Given
  <2>3. u \in O
      BY <1>1, <1>2, <1>4, <2>2 DEF Pending
  <2> HIDE DEF O, u
  <2>4. Clean(p, O) /\ Pending(p, cmds, O) /\ Excused(p, O)
      BY <1>2, <2>2, <2>3, PanicClean DEF p
  <2>5. Pending(p, d, O) /\ d \subseteq Kinds \X RanUes
      BY <1>2, <2>2, <2>4 DEF Pending
  <2>6. Sorted(p, d, overlapped')
      BY <2>4, <2>5 DEF Sorted, O
  <2> HIDE DEF d
  <2> QED BY <2>1, <2>6, Left
<1>5. CASE amf.cause[u] # "nil"
  <2>1. Leave(b, d)
      BY <1>3, <1>5
  <2>2. /\ Clean(amf, O) /\ Pending(amf, cmds, O) /\ amf.panic = "no" /\ cmds \subseteq Kinds \X RanUes
        /\ amf \in AmfType
    <3> HIDE DEF b, d
    <3> QED BY <2>1, Given
  <2>3. Clean(x, O) /\ Frame(amf, x) /\ x.panic = "no" /\ x.cause = [amf.cause EXCEPT ![u] = "nil"]
    <3> DEFINE cause == [amf.cause EXCEPT ![u] = "nil"]
    <3>1. cause \in [AmfUes -> {"ok", "nil"}]
        BY <1>2, <2>2, Types
    <3>2. x = [amf EXCEPT !.cause = cause]
        BY Zenon
    <3> HIDE DEF cause, u, x
    <3>3. x \in AmfType
        BY <2>2, <3>1, <3>2, Zenon DEF AmfType
    <3>4. Frame(amf, x) /\ x.panic = amf.panic /\ x.cause = cause
        BY <2>2, <3>2, Zenon DEF AmfType, Frame
    <3>5. Clean(x, O)
        BY <2>2, <3>3, <3>4, CleanAs
    <3> QED BY <2>2, <3>4, <3>5 DEF cause
  <2> HIDE DEF x, O
  <2>4. x.pool = amf.pool /\ x.ue = amf.ue
      BY <2>3 DEF Frame
  <2>5. Clean(b, O) /\ Shrunk(x, b) /\ i \notin b.pool
      BY <1>2, <2>3, <2>4, ReleasedClean
  <2> HIDE DEF b
  <2>6. Pending(b, d, O)
    <3> SUFFICES ASSUME NEW j \in b.pool, <<"Release", j>> \in d, b.ue[j] \notin O
                 PROVE  b.cause[b.ue[j]] = "ok"
        BY DEF Pending
    <3>1. j \in amf.pool /\ b.ue[j] = amf.ue[j] /\ j # i /\ b.cause = [amf.cause EXCEPT ![u] = "nil"]
        BY <2>3, <2>4, <2>5 DEF Shrunk
    <3>2. amf.cause[amf.ue[j]] = "ok"
        BY <1>2, <2>2, <3>1 DEF Pending
    <3>3. amf.ue[j] # u
        BY <1>2, <2>2, <3>1 DEF Clean, Once
    <3>4. amf.ue[j] \in AmfUes /\ amf.cause \in [AmfUes -> {"ok", "nil"}]
        BY <2>2, <3>1, Types DEF Clean, Owned
    <3> QED BY <3>1, <3>2, <3>3, <3>4
  <2>7. Excused(b, O)
      BY <2>3, <2>5 DEF Shrunk, Excused
  <2>8. Sorted(b, d, overlapped')
      BY <1>2, <2>2, <2>5, <2>6, <2>7 DEF Sorted, O
  <2> HIDE DEF d
  <2> QED BY <2>1, <2>8, Left
<1> QED BY <1>4, <1>5

----------------------------------------------------------------------------
LEMMA InvInit == Init => Inv
<1> SUFFICES ASSUME Init PROVE Inv
    OBVIOUS
<1>1. cmds = {} /\ overlapped = {}
    BY DEF Init
<1>2. /\ amf.up = [r \in Rans |-> "new"] /\ amf.list = [r \in Rans |-> <<>>] /\ amf.next = 0
      /\ amf.pool = {} /\ amf.ue = [i \in RanUes |-> NoUe]
      /\ amf.source = [i \in RanUes |-> 0] /\ amf.target = [i \in RanUes |-> 0]
      /\ amf.cur = [u \in AmfUes |-> 0] /\ amf.uePool = {} /\ amf.panic = "no"
    BY DEF Init
<1>3. amf \in AmfType
  <2> DEFINE z == [i \in RanUes |-> 0]
             c == [u \in AmfUes |-> 0]
             l == [r \in Rans |-> <<>>]
  <2>1. /\ z \in [RanUes -> 0..MaxRanUe] /\ c \in [AmfUes -> 0..MaxRanUe] /\ 0 \in 0..MaxRanUe
        /\ l \in [Rans -> Seq(RanUes)]
      BY NgapAssumption
  <2> HIDE DEF z, c, l
  <2>2. amf = [up |-> [r \in Rans |-> "new"], list |-> l, next |-> 0, pool |-> {},
               ran |-> [i \in RanUes |-> NoRan], ue |-> [i \in RanUes |-> NoUe],
               source |-> z, target |-> z, action |-> [i \in RanUes |-> "N2NormalRelease"],
               cur |-> c, gmm |-> [u \in AmfUes |-> "Deregistered"], uePool |-> {},
               tmsi |-> [u \in AmfUes |-> "none"], cause |-> [u \in AmfUes |-> "ok"],
               panic |-> "no", victim |-> NoUe]
      BY DEF Init, z, c, l
  <2> QED BY <2>1, <2>2 DEF AmfType, Actions, GmmStates
<1>4. Lists(amf)
    BY <1>2 DEF Lists, Listed
<1>5. Linked(amf) /\ Owned(amf) /\ Paired(amf) /\ Unborn(amf)
    BY <1>2, NgapAssumption DEF Linked, Owned, Paired, Unborn, RanUes
<1>6. Once(amf, overlapped) /\ Alone(amf, overlapped) /\ Held(amf, overlapped) /\ Short(amf)
    BY <1>2 DEF Once, Alone, Held, Short
<1> QED BY <1>1, <1>2, <1>3, <1>4, <1>5, <1>6 DEF Inv, Clean, Pending, Excused

LEMMA InvNext == Inv /\ [Next]_vars => Inv'
<1> SUFFICES ASSUME Inv, [Next]_vars PROVE Inv'
    OBVIOUS
<1>1. CASE UNCHANGED vars
  <2>1. amf' = amf /\ cmds' = cmds /\ overlapped' = overlapped
      BY <1>1 DEF vars
  <2> QED BY <2>1 DEF Inv
<1>2. ASSUME NEW r \in Rans, HandleNGSetupRequest(r) PROVE Inv'
    BY <1>2, SetupStep
<1>3. ASSUME NEW r \in Rans, NEW kind \in NasKinds, HandleInitialUEMessage(r, kind) PROVE Inv'
    BY <1>3, InitialKnownStep, InitialNewStep DEF HandleInitialUEMessage
<1>4. ASSUME NEW r \in Rans, HandleNGReset(r) PROVE Inv'
    BY <1>4, ResetStep
<1>5. ASSUME NEW r \in Rans, RanClosed(r) PROVE Inv'
    BY <1>5, ClosedStep
<1>6. ASSUME NEW i \in RanUes, NEW kind \in NasKinds, HandleUplinkNasTransport(i, kind) PROVE Inv'
    BY <1>6, UplinkStep
<1>7. ASSUME NEW i \in RanUes, HandlePartialReset(i) PROVE Inv'
  <2>1. i \in amf.pool /\ Leave(RemoveRanUe(amf, i), cmds) /\ cmds \subseteq cmds
      BY <1>7 DEF HandlePartialReset, Known
  <2> QED BY <2>1, RemovalStep
<1>8. ASSUME NEW i \in RanUes, HandleUEContextReleaseRequest(i) PROVE Inv'
    BY <1>8, ReleaseRequestStep
<1>9. ASSUME NEW i \in RanUes, HandleUEContextReleaseComplete(i) PROVE Inv'
    BY <1>9, ReleaseCompleteStep
<1>10. ASSUME NEW i \in RanUes, NEW r \in Rans, HandleHandoverRequired(i, r) PROVE Inv'
    BY <1>10, HandoverRequiredStep
<1>11. ASSUME NEW i \in RanUes, NEW ok \in BOOLEAN, HandleHandoverRequestAcknowledge(i, ok) PROVE Inv'
    BY <1>11, AcknowledgeStep
<1>12. ASSUME NEW i \in RanUes, HandleHandoverFailure(i) PROVE Inv'
    BY <1>12, FailureStep
<1>13. ASSUME NEW i \in RanUes, HandleHandoverNotify(i) PROVE Inv'
    BY <1>13, NotifyStep
<1>14. ASSUME NEW i \in RanUes, HandleHandoverCancel(i) PROVE Inv'
    BY <1>14, CancelStep
<1>15. ASSUME NEW i \in RanUes, NEW r \in Rans, HandlePathSwitchRequest(i, r) PROVE Inv'
    BY <1>15, PathSwitchStep
<1>16. ASSUME NEW u \in AmfUes, ReleaseUEContextRequest(u) \/ T3560Abort(u) PROVE Inv'
    BY <1>16, RemoveAmfUeStep DEF ReleaseUEContextRequest, T3560Abort
<1> QED BY <1>1, <1>2, <1>3, <1>4, <1>5, <1>6, <1>7, <1>8, <1>9, <1>10, <1>11, <1>12, <1>13, <1>14,
           <1>15, <1>16 DEF Next

LEMMA InvAlways == Spec => []Inv
    BY InvInit, InvNext, PTL DEF Spec

\* The record amf has its type, the AMF asks RANs only about connections that
\* exist, and the history holds AmfUes.
THEOREM TypeCorrect == Spec => []TypeOK
<1>1. Inv => TypeOK
    BY DEF Inv, Clean, TypeOK, Kinds
<1> QED BY <1>1, InvAlways, PTL

\* RanUePool and the RanUeLists of all RANs hold the same connections, each in
\* one list and once, after every removal, reset, closing and path switch.
THEOREM PoolMatchesLists == Spec => []PoolIsLists
<1>1. Inv => PoolIsLists
    BY DEF Inv, Clean, Lists, PoolIsLists
<1> QED BY <1>1, InvAlways, PTL

\* ue.RanUe[AnType] is a connection in the pool that points back, and each
\* connection in the pool has an AmfUe.
THEOREM AttachedBothWays == Spec => []AttachedBack
<1>1. Inv => AttachedBack
    BY NgapAssumption DEF Inv, Clean, Linked, Owned, AttachedBack
<1> QED BY <1>1, InvAlways, PTL

\* SourceUe and TargetUe of a handover point at each other, and belong to one
\* UE as long as both exist.
THEOREM HandoverEndsPaired == Spec => []HandoverPairs
<1>1. Inv => HandoverPairs
    BY DEF Inv, Clean, Paired, HandoverPairs
<1> QED BY <1>1, InvAlways, PTL

\* A UE that never had two connections at once is served through its connection
\* and holds its TMSI.
THEOREM UeNeverLost == Spec => []OneConnection
<1>1. Inv => OneConnection
    BY DEF Inv, Clean, Alone, OneConnection
<1> QED BY <1>1, InvAlways, PTL

\* The nil dereferences in GMM and in the release completion happen only on a UE
\* that had two connections at once.
THEOREM CrashesNeedOverlap == Spec => []CrashNeedsOverlap
<1>1. Inv => CrashNeedsOverlap
    BY DEF Inv, Excused, CrashNeedsOverlap
<1> QED BY <1>1, InvAlways, PTL

\* A RAN that closed its SCTP connection keeps fewer than half of the
\* connections there can be, those that RemoveAllUeInRan passes over.
THEOREM FewLeftBehind == Spec => []LeftBehind
<1>1. Inv => LeftBehind
    BY DEF Inv, Clean, Short, LeftBehind
<1> QED BY <1>1, InvAlways, PTL
=============================================================================
