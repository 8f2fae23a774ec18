--------------------------- MODULE CacheProofs ---------------------------
(***************************************************************************)
(* The doubly linked list of the cache, for any addresses: what the loops  *)
(* over it meet, what linking and unlinking a node make of it, and that it *)
(* is the LRU queue, read from front to end.                               *)
(***************************************************************************)
EXTENDS CacheHistory, FiniteSetTheorems, DataLemmas

(* c[1], ..., c[m] are linked by nx and pv, between the dummies c[0] and
   c[m + 1]. *)
Chain(c, m, nx, pv) ==
  /\ m \in Nat /\ c \in [0..m + 1 -> Addr \cup Dummy]
  /\ c[0] = Front /\ c[m + 1] = End /\ \A i \in 1..m : c[i] \in Addr
  /\ \A i, j \in 1..m : c[i] = c[j] => i = j
  /\ \A i \in 0..m : nx[c[i]] = c[i + 1] /\ pv[c[i + 1]] = c[i]
  /\ pv[Front] = Null /\ nx[End] = Null

Elems(c, m) == {c[i] : i \in 1..m}

Linkage(nx) == nx \in [Addr \cup Dummy -> Addr \cup Dummy \cup {Null}]

(* The set of the nodes is L. *)
Linked(L, m, nx, pv) ==
  /\ Linkage(nx) /\ Linkage(pv)
  /\ \E c : Chain(c, m, nx, pv) /\ L = Elems(c, m)

-----------------------------------------------------------------------
(* The recursive function of Path is the one function that walks along f. *)
Walks(f, a, m, g) ==
  g = [i \in 0..m |-> IF i = 0 THEN a ELSE IF g[i - 1] \in heap THEN f[g[i - 1]] ELSE g[i - 1]]

Walked(f, a, m, g) ==
  /\ g[0] = a
  /\ \A i \in 0..m - 1 : g[i + 1] = IF g[i] \in heap THEN f[g[i]] ELSE g[i]

LEMMA WalksStep ==
  ASSUME NEW f, NEW a, NEW m \in Nat, NEW g, Walks(f, a, m, g)
  PROVE  Walked(f, a, m, g)
<1>. DEFINE e(i) == IF i = 0 THEN a ELSE IF g[i - 1] \in heap THEN f[g[i - 1]] ELSE g[i - 1]
<1>1. g = [i \in 0..m |-> e(i)]
  BY DEF Walks
<1>. HIDE DEF e
<1>2. \A i \in 0..m : g[i] = e(i)
  BY <1>1
<1>3. g[0] = e(0) /\ \A i \in 0..m - 1 : g[i + 1] = e(i + 1)
  BY <1>2
<1>4. \A i \in 0..m - 1 : i + 1 # 0 /\ i + 1 - 1 = i
  OBVIOUS
<1>. QED
  BY <1>3, <1>4 DEF e, Walked

(* A loop that follows f through nodes to something that is none stays there. *)
Leads(f, m, d) ==
  /\ m \in Nat /\ d[m] \notin heap
  /\ \A i \in 0..m - 1 : d[i] \in heap /\ f[d[i]] = d[i + 1]

LEMMA PathIs ==
  ASSUME NEW f, NEW m, NEW d, Leads(f, m, d)
  PROVE  /\ DOMAIN Path(f, d[0]) = 0..Cardinality(Addr)
         /\ \A i \in 0..Cardinality(Addr) : Path(f, d[0])[i] = IF i <= m THEN d[i] ELSE d[m]
<1>. DEFINE C == Cardinality(Addr)
            w == [i \in 0..C |-> IF i <= m THEN d[i] ELSE d[m]]
<1>1. /\ C \in Nat /\ m \in Nat /\ d[m] \notin heap
      /\ \A i \in 0..m - 1 : d[i] \in heap /\ f[d[i]] = d[i + 1]
  BY AddrAssumption, FS_CardinalityType DEF Leads
<1>0. C \in Nat /\ m \in Nat /\ 0 <= m /\ 0 \in 0..C
  BY <1>1
<1>. HIDE DEF C
<1>2. Walks(f, d[0], C, w)
  <2>1. w[0] = d[0] /\ \A i \in 0..C : w[i] = IF i <= m THEN d[i] ELSE d[m]
    BY <1>1
  <2>. HIDE DEF w
  <2>2. ASSUME NEW i \in 1..C
        PROVE  w[i] = IF w[i - 1] \in heap THEN f[w[i - 1]] ELSE w[i - 1]
    <3>1. i - 1 \in 0..C /\ i \in 0..C
      BY <1>1
    <3>2. CASE i <= m
      <4>1. i - 1 \in 0..m - 1 /\ i - 1 + 1 = i
        BY <1>1, <3>2
      <4>2. w[i] = d[i] /\ w[i - 1] = d[i - 1]
        <5>1. i - 1 <= m
          BY <1>0, <3>2
        <5>. QED
          BY <2>1, <3>1, <3>2, <5>1
      <4>3. d[i - 1] \in heap /\ f[d[i - 1]] = d[i]
        BY <1>1, <4>1
      <4>. QED
        BY <4>2, <4>3
    <3>3. CASE ~(i <= m)
      <4>1. w[i] = d[m] /\ w[i - 1] = d[m]
        BY <1>1, <2>1, <3>1, <3>3
      <4>. QED
        BY <1>1, <4>1
    <3>. QED
      BY <3>2, <3>3
  <2>3. \A i \in 0..C : w[i] = IF i = 0 THEN d[0]
           ELSE IF w[i - 1] \in heap THEN f[w[i - 1]] ELSE w[i - 1]
    <3>1. \A i \in 0..C : i = 0 \/ i \in 1..C
      BY <1>1
    <3>. QED
      BY <2>1, <2>2, <3>1
  <2>4. w = [i \in 0..C |-> w[i]]
    BY DEF w
  <2>. QED
    BY <2>3, <2>4 DEF Walks
<1>3. PICK g : Walks(f, d[0], C, g) /\ Path(f, d[0]) = g
  <2>. DEFINE g == CHOOSE h : Walks(f, d[0], C, h)
  <2>1. Walks(f, d[0], C, g)
    BY <1>2
  <2>2. Path(f, d[0]) = g
    BY DEF Path, Walks, C
  <2>. QED
    BY <2>1, <2>2
<1>a. Walks(f, d[0], C, g)
  BY <1>3
<1>b. g[0] = d[0] /\ \A i \in 0..C - 1 : g[i + 1] = IF g[i] \in heap THEN f[g[i]] ELSE g[i]
  <2>1. Walked(f, d[0], C, g)
    BY <1>0, <1>a, WalksStep
  <2>. QED
    BY <2>1 DEF Walked
<1>. DEFINE P == {k \in Nat : k <= C => g[k] = IF k <= m THEN d[k] ELSE d[m]}
<1>4. 0 \in P
  BY <1>0, <1>b
<1>5. ASSUME NEW k \in Nat, k \in P  PROVE k + 1 \in P
  <2>. SUFFICES ASSUME k + 1 <= C
                PROVE  g[k + 1] = IF k + 1 <= m THEN d[k + 1] ELSE d[m]
    OBVIOUS
  <2>1. g[k] = IF k <= m THEN d[k] ELSE d[m]
    BY <1>1, <1>5
  <2>2. g[k + 1] = IF g[k] \in heap THEN f[g[k]] ELSE g[k]
    <3>1. k \in 0..C - 1
      BY <1>1
    <3>. QED
      BY <1>b, <3>1
  <2>3. CASE k + 1 <= m
    <3>1. k \in 0..m - 1 /\ k <= m
      BY <1>1, <2>3
    <3>. QED
      BY <1>1, <2>1, <2>2, <2>3, <3>1
  <2>4. CASE ~(k + 1 <= m)
    <3>1. k = m \/ ~(k <= m)
      BY <1>1, <2>4
    <3>. QED
      BY <1>1, <2>1, <2>2, <2>4, <3>1
  <2>. QED
    BY <2>3, <2>4
<1>6. P = Nat
  <2>. HIDE DEF P
  <2>1. P \in SUBSET Nat
    BY DEF P
  <2>. QED
    BY <1>4, <1>5, <2>1, InductionOverNat
<1>7. \A k \in 0..C : g[k] = IF k <= m THEN d[k] ELSE d[m]
  BY <1>1, <1>6
<1>8. DOMAIN g = 0..C
  BY <1>3 DEF Walks
<1>. QED
  BY <1>3, <1>7, <1>8 DEF C

-----------------------------------------------------------------------
LEMMA ChainLength ==
  ASSUME NEW c, NEW m, NEW nx, NEW pv, Chain(c, m, nx, pv)
  PROVE  /\ m \in Nat /\ m <= Cardinality(Addr) /\ Elems(c, m) \subseteq Addr
         /\ IsFiniteSet(Elems(c, m)) /\ Cardinality(Elems(c, m)) = m
<1>1. /\ m \in Nat /\ \A i \in 1..m : c[i] \in Addr
      /\ \A i, j \in 1..m : c[i] = c[j] => i = j
  BY DEF Chain
<1>. DEFINE b == [i \in 1..m |-> c[i]]
            E == Elems(c, m)
<1>2. b \in Bijection(1..m, E)
  BY <1>1 DEF Elems, Bijection, Injection, Surjection, IsInjective
<1>3. IsFiniteSet(1..m) /\ Cardinality(1..m) = m
  BY <1>1, FS_Interval
<1>4. IsFiniteSet(E) /\ Cardinality(E) = m
  <2>. HIDE DEF b, E
  <2>1. ExistsBijection(1..m, E)
    BY <1>2 DEF ExistsBijection
  <2>. QED
    BY <1>3, <2>1, FS_Bijection
<1>5. E \subseteq Addr
  BY <1>1 DEF Elems
<1>. HIDE DEF E
<1>6. Cardinality(E) <= Cardinality(Addr)
  BY <1>5, AddrAssumption, FS_Subset
<1>. QED
  BY <1>1, <1>4, <1>5, <1>6 DEF E

(* What the links lead to. *)
LEMMA Neighbours ==
  ASSUME NEW L, NEW m, NEW nx, NEW pv, Linked(L, m, nx, pv)
  PROVE  /\ L \subseteq Addr
         /\ nx[Front] \in L \cup {End} /\ pv[End] \in L \cup {Front}
         /\ \A a \in L : nx[a] \in L \cup {End} /\ pv[a] \in L \cup {Front}
         /\ nx[Front] = End => L = {}
         /\ pv[nx[Front]] = Front
         /\ pv[Front] = Null /\ nx[End] = Null
<1>1. PICK c : Chain(c, m, nx, pv) /\ L = Elems(c, m)
  BY DEF Linked
<1>2. /\ m \in Nat /\ c[0] = Front /\ c[m + 1] = End /\ L = {c[i] : i \in 1..m}
      /\ \A i \in 1..m : c[i] \in Addr
      /\ \A i \in 0..m : nx[c[i]] = c[i + 1] /\ pv[c[i + 1]] = c[i]
      /\ pv[Front] = Null /\ nx[End] = Null
  BY <1>1 DEF Chain, Elems
<1>3. \A i \in 0..m : c[i + 1] \in L \cup {End} /\ c[i] \in L \cup {Front}
  <2>. TAKE i \in 0..m
  <2>1. i + 1 = m + 1 \/ i + 1 \in 1..m
    BY <1>2
  <2>2. i = 0 \/ i \in 1..m
    BY <1>2
  <2>. QED
    BY <1>2, <2>1, <2>2
<1>4. nx[Front] \in L \cup {End} /\ pv[End] \in L \cup {Front}
  <2>1. 0 \in 0..m /\ m \in 0..m /\ 0 + 1 = 1
    BY <1>2
  <2>2. nx[c[0]] = c[0 + 1] /\ pv[c[m + 1]] = c[m]
    BY <1>2, <2>1
  <2>. QED
    BY <1>2, <1>3, <2>1, <2>2
<1>5. ASSUME NEW a \in L  PROVE nx[a] \in L \cup {End} /\ pv[a] \in L \cup {Front}
  <2>1. PICK i \in 1..m : a = c[i]
    BY <1>2
  <2>2. i \in 0..m /\ i - 1 \in 0..m /\ i - 1 + 1 = i
    BY <1>2
  <2>3. nx[c[i]] = c[i + 1] /\ pv[c[i - 1 + 1]] = c[i - 1]
    BY <1>2, <2>2
  <2>. QED
    BY <1>3, <2>1, <2>2, <2>3
<1>6. ASSUME nx[Front] = End  PROVE L = {}
  <2>1. c[1] = End
    <3>1. 0 \in 0..m /\ 0 + 1 = 1
      BY <1>2
    <3>. QED
      BY <1>2, <1>6, <3>1
  <2>2. End \notin Addr
    BY AddrAssumption DEF Dummy
  <2>3. m = 0
    BY <1>2, <2>1, <2>2
  <2>. QED
    BY <1>2, <2>3
<1>7. pv[nx[Front]] = Front
  <2>1. 0 \in 0..m
    BY <1>2
  <2>2. nx[c[0]] = c[0 + 1] /\ pv[c[0 + 1]] = c[0]
    BY <1>2, <2>1
  <2>. QED
    BY <1>2, <2>2
<1>. QED
  BY <1>2, <1>4, <1>5, <1>6, <1>7

(* What the loops over the list meet, and when. *)
LEMMA Loops ==
  ASSUME NEW c, NEW m, Chain(c, m, next, prev), Elems(c, m) \subseteq heap, heap \subseteq Addr
  PROVE  /\ DOMAIN Forward = 0..Cardinality(Addr) /\ DOMAIN Backward = 0..Cardinality(Addr)
         /\ \A i \in 0..Cardinality(Addr) :
              /\ Forward[i] = IF i <= m THEN c[i + 1] ELSE End
              /\ Backward[i] = IF i <= m THEN c[m - i] ELSE Front
<1>. DEFINE C == Cardinality(Addr)
<1>2. m \in Nat /\ C \in Nat
  BY ChainLength, AddrAssumption, FS_CardinalityType
<1>3. /\ c[0] = Front /\ c[m + 1] = End /\ \A i \in 1..m : c[i] \in heap
      /\ \A i \in 0..m : next[c[i]] = c[i + 1] /\ prev[c[i + 1]] = c[i]
  BY DEF Chain, Elems
<1>4. Front \notin heap /\ End \notin heap /\ \A i \in 1..m : c[i] \in heap
  BY <1>3, AddrAssumption DEF Dummy
<1>. DEFINE d == [i \in 0..m |-> c[i + 1]]
            r == [i \in 0..m |-> c[m - i]]
<1>. HIDE DEF C
<1>5. /\ DOMAIN Forward = 0..C
      /\ \A i \in 0..C : Forward[i] = IF i <= m THEN c[i + 1] ELSE End
  <2>1. d[0] = next[Front] /\ d[m] = End
    <3>1. 0 \in 0..m /\ m \in 0..m /\ 0 + 1 = 1
      BY <1>2
    <3>. QED
      BY <1>3, <3>1
  <2>2. \A i \in 0..m - 1 : d[i] \in heap /\ next[d[i]] = d[i + 1]
    <3>. TAKE i \in 0..m - 1
    <3>1. i \in 0..m /\ i + 1 \in 1..m /\ i + 1 \in 0..m
      BY <1>2
    <3>2. d[i] = c[i + 1] /\ d[i + 1] = c[i + 1 + 1]
      BY <3>1
    <3>. QED
      BY <1>3, <1>4, <3>1, <3>2
  <2>3. \A i \in 0..m : d[i] = c[i + 1]
    OBVIOUS
  <2>. HIDE DEF d
  <2>a. Leads(next, m, d)
    BY <1>2, <1>4, <2>1, <2>2 DEF Leads
  <2>4. /\ DOMAIN Path(next, d[0]) = 0..C
        /\ \A i \in 0..C : Path(next, d[0])[i] = IF i <= m THEN d[i] ELSE d[m]
    BY <2>a, PathIs DEF C
  <2>. QED
    BY <1>2, <2>1, <2>3, <2>4 DEF Forward
<1>6. /\ DOMAIN Backward = 0..C
      /\ \A i \in 0..C : Backward[i] = IF i <= m THEN c[m - i] ELSE Front
  <2>1. r[0] = prev[End] /\ r[m] = Front
    <3>1. 0 \in 0..m /\ m \in 0..m /\ m - 0 = m /\ m - m = 0
      BY <1>2
    <3>. QED
      BY <1>3, <3>1
  <2>2. \A i \in 0..m - 1 : r[i] \in heap /\ prev[r[i]] = r[i + 1]
    <3>. TAKE i \in 0..m - 1
    <3>1. /\ i \in 0..m /\ i + 1 \in 0..m /\ m - i \in 1..m
          /\ m - (i + 1) \in 0..m /\ m - (i + 1) + 1 = m - i
      BY <1>2
    <3>2. r[i] = c[m - i] /\ r[i + 1] = c[m - (i + 1)]
      BY <3>1
    <3>3. prev[c[m - (i + 1) + 1]] = c[m - (i + 1)]
      BY <1>3, <3>1
    <3>. QED
      BY <1>4, <3>1, <3>2, <3>3
  <2>3. \A i \in 0..m : r[i] = c[m - i]
    OBVIOUS
  <2>. HIDE DEF r
  <2>a. Leads(prev, m, r)
    BY <1>2, <1>4, <2>1, <2>2 DEF Leads
  <2>4. /\ DOMAIN Path(prev, r[0]) = 0..C
        /\ \A i \in 0..C : Path(prev, r[0])[i] = IF i <= m THEN r[i] ELSE r[m]
    BY <2>a, PathIs DEF C
  <2>. QED
    BY <1>2, <2>1, <2>3, <2>4 DEF Backward
<1>. QED
  BY <1>5, <1>6 DEF C

(* What the loops over the list meet. *)
LEMMA Listing ==
  ASSUME NEW L, NEW m, Linked(L, m, next, prev), L \subseteq heap, heap \subseteq Addr
  PROVE  /\ Listed = L /\ Stop(Forward) = End /\ Stop(Backward) = Front
         /\ IsFiniteSet(L) /\ Cardinality(L) = m
         /\ Cardinality(Nodes(Forward)) = m
         /\ Nodes(Backward) \in SUBSET Nat
         /\ \A i \in Nodes(Forward) : next[prev[Forward[i]]] = Forward[i]
         /\ \A i \in Nodes(Backward) : Backward[i] \in L
         /\ \A a \in L : \E i \in Nodes(Backward) : Backward[i] = a
<1>1. PICK c : Chain(c, m, next, prev) /\ L = Elems(c, m)
  BY DEF Linked
<1>. DEFINE C == Cardinality(Addr)
<1>2. /\ m \in Nat /\ C \in Nat /\ m <= C /\ IsFiniteSet(L) /\ Cardinality(L) = m
  BY <1>1, ChainLength, AddrAssumption, FS_CardinalityType
<1>3. /\ c[0] = Front /\ c[m + 1] = End /\ L = {c[i] : i \in 1..m}
      /\ \A i \in 0..m : next[c[i]] = c[i + 1] /\ prev[c[i + 1]] = c[i]
  BY <1>1 DEF Chain, Elems
<1>4. Front \notin heap /\ End \notin heap /\ \A i \in 1..m : c[i] \in heap
  BY <1>3, AddrAssumption DEF Dummy
<1>. HIDE DEF C
<1>5. /\ DOMAIN Forward = 0..C
      /\ \A i \in 0..C : Forward[i] = IF i <= m THEN c[i + 1] ELSE End
  BY <1>1, Loops DEF C
<1>6. /\ DOMAIN Backward = 0..C
      /\ \A i \in 0..C : Backward[i] = IF i <= m THEN c[m - i] ELSE Front
  BY <1>1, Loops DEF C
<1>8. /\ \A i \in 0..m - 1 : i \in 0..C /\ Forward[i] = c[i + 1] /\ Backward[i] = c[m - i]
      /\ \A i \in 0..C : ~(i \in 0..m - 1) => Forward[i] = End /\ Backward[i] = Front
  <2>1. ASSUME NEW i \in 0..m - 1
        PROVE  i \in 0..C /\ Forward[i] = c[i + 1] /\ Backward[i] = c[m - i]
    <3>1. i \in 0..C /\ i <= m
      BY <1>2
    <3>. QED
      BY <1>5, <1>6, <3>1
  <2>2. ASSUME NEW i \in 0..C, ~(i \in 0..m - 1)
        PROVE  Forward[i] = End /\ Backward[i] = Front
    <3>1. i = m \/ ~(i <= m)
      BY <1>2, <2>2
    <3>2. m - m = 0
      BY <1>2
    <3>. QED
      BY <1>3, <1>5, <1>6, <3>1, <3>2
  <2>. QED
    BY <2>1, <2>2
<1>9. /\ \A i \in 0..m - 1 : i + 1 \in 1..m /\ i + 1 \in 0..m /\ m - i \in 1..m
      /\ \A i \in 1..m : i - 1 \in 0..m - 1 /\ i - 1 + 1 = i
  BY <1>2
<1>10. Nodes(Forward) = 0..m - 1 /\ Nodes(Backward) = 0..m - 1
  <2>1. \A i \in 0..m - 1 : Forward[i] \in heap /\ Backward[i] \in heap
    BY <1>4, <1>8, <1>9
  <2>. QED
    BY <1>4, <1>5, <1>6, <1>8, <2>1 DEF Nodes
<1>11. Listed = L
  <2>1. Listed = {Forward[i] : i \in 0..m - 1}
    BY <1>10 DEF Listed
  <2>2. {Forward[i] : i \in 0..m - 1} = {c[i + 1] : i \in 0..m - 1}
    BY <1>8
  <2>3. {c[i + 1] : i \in 0..m - 1} = {c[i] : i \in 1..m}
    BY <1>9
  <2>. QED
    BY <1>3, <2>1, <2>2, <2>3
<1>12. Stop(Forward) = End /\ Stop(Backward) = Front
  <2>1. C \in 0..C /\ ~(C \in 0..m - 1)
    BY <1>2
  <2>. QED
    BY <1>8, <2>1 DEF Stop, C
<1>13. Cardinality(0..m - 1) = m
  BY <1>2, FS_Interval
<1>14. \A i \in Nodes(Forward) : next[prev[Forward[i]]] = Forward[i]
  <2>. SUFFICES ASSUME NEW i \in 0..m - 1  PROVE next[prev[Forward[i]]] = Forward[i]
    BY <1>10
  <2>1. Forward[i] = c[i + 1] /\ i \in 0..m
    BY <1>2, <1>8
  <2>. QED
    BY <1>3, <2>1
<1>15. \A i \in Nodes(Backward) : Backward[i] \in L
  BY <1>3, <1>8, <1>9, <1>10
<1>16. 0..m - 1 \in SUBSET Nat
  BY <1>2
<1>17. ASSUME NEW a \in L  PROVE \E i \in Nodes(Backward) : Backward[i] = a
  <2>1. PICK j \in 1..m : a = c[j]
    BY <1>3
  <2>2. m - j \in 0..m - 1 /\ m - (m - j) = j
    BY <1>2
  <2>. QED
    BY <1>8, <1>10, <2>1, <2>2
<1>. QED
  BY <1>17, <1>2, <1>10, <1>11, <1>12, <1>13, <1>14, <1>15, <1>16

-----------------------------------------------------------------------
(* The dummies are at the ends of the chain and nowhere else. *)
LEMMA ChainApart ==
  ASSUME NEW c, NEW m, NEW nx, NEW pv, Chain(c, m, nx, pv)
  PROVE  /\ m \in Nat
         /\ \A i \in 0..m + 1 : c[i] \in Addr \cup Dummy
         /\ \A i, j \in 0..m + 1 : c[i] = c[j] => i = j
<1>1. /\ m \in Nat /\ c \in [0..m + 1 -> Addr \cup Dummy]
      /\ c[0] = Front /\ c[m + 1] = End /\ \A i \in 1..m : c[i] \in Addr
      /\ \A i, j \in 1..m : c[i] = c[j] => i = j
  BY DEF Chain
<1>2. Front \notin Addr /\ End \notin Addr /\ Front # End
  BY AddrAssumption DEF Dummy, Front, End
<1>3. \A i \in 0..m + 1 : i = 0 \/ i = m + 1 \/ i \in 1..m
  BY <1>1
<1>4. ASSUME NEW i \in 0..m + 1, NEW j \in 0..m + 1, c[i] = c[j]  PROVE i = j
  <2>1. CASE i \in 1..m
    BY <1>1, <1>2, <1>3, <1>4, <2>1
  <2>2. CASE j \in 1..m
    BY <1>1, <1>2, <1>3, <1>4, <2>2
  <2>. QED
    BY <1>1, <1>2, <1>3, <1>4, <2>1, <2>2
<1>. QED
  BY <1>1, <1>4

(* A chain depends on the links of its own nodes only. *)
LEMMA SameChain ==
  ASSUME NEW c, NEW m, NEW nx, NEW pv, NEW nx2, NEW pv2, Chain(c, m, nx, pv),
         \A a \in Elems(c, m) \cup Dummy : nx2[a] = nx[a] /\ pv2[a] = pv[a]
  PROVE  Chain(c, m, nx2, pv2)
<1>. DEFINE L == Elems(c, m)
<1>2. /\ m \in Nat /\ c[0] = Front /\ c[m + 1] = End /\ L = {c[i] : i \in 1..m}
      /\ \A i \in 0..m : nx[c[i]] = c[i + 1] /\ pv[c[i + 1]] = c[i]
      /\ pv[Front] = Null /\ nx[End] = Null
  BY DEF Chain, Elems
<1>3. \A i \in 0..m + 1 : c[i] \in L \cup Dummy
  <2>. TAKE i \in 0..m + 1
  <2>1. i = 0 \/ i = m + 1 \/ i \in 1..m
    BY <1>2
  <2>. QED
    BY <1>2, <2>1 DEF Dummy
<1>4. \A i \in 0..m : i \in 0..m + 1 /\ i + 1 \in 0..m + 1
  BY <1>2
<1>5. \A i \in 0..m : nx2[c[i]] = c[i + 1] /\ pv2[c[i + 1]] = c[i]
  BY <1>2, <1>3, <1>4
<1>6. pv2[Front] = Null /\ nx2[End] = Null
  BY <1>2 DEF Dummy
<1>. QED
  BY <1>5, <1>6 DEF Chain

LEMMA Unaffected ==
  ASSUME NEW L, NEW m, NEW nx, NEW pv, NEW nx2, NEW pv2, Linked(L, m, nx, pv),
         Linkage(nx2), Linkage(pv2),
         \A a \in L \cup Dummy : nx2[a] = nx[a] /\ pv2[a] = pv[a]
  PROVE  Linked(L, m, nx2, pv2)
<1>1. PICK c : Chain(c, m, nx, pv) /\ L = Elems(c, m)
  BY DEF Linked
<1>2. Chain(c, m, nx2, pv2)
  BY <1>1, SameChain
<1>. QED
  BY <1>1, <1>2 DEF Linked

(* The chain with a node at its end, and without its k-th node. *)
Extended(c, m, a) ==
  [i \in 0..m + 2 |-> IF i <= m THEN c[i] ELSE IF i = m + 1 THEN a ELSE End]
Dropped(c, m, k) == [i \in 0..m |-> IF i < k THEN c[i] ELSE c[i + 1]]

(* The links after the writes that put a node before the end dummy, and, of next
   as of prev, after those that take one out. *)
LinkedIn(nx, pv, a) == [nx EXCEPT ![a] = End, ![pv[End]] = a]
LinkedBack(pv, a)   == [pv EXCEPT ![a] = pv[End], ![End] = a]
CutOut(nx, pv, a)   == [nx EXCEPT ![pv[a]] = nx[a]]

(* The writes of enqueue link a node before the end dummy. *)
LEMMA Appended ==
  ASSUME NEW c, NEW m, NEW nx, NEW pv, Linkage(nx), Linkage(pv), Chain(c, m, nx, pv),
         NEW L, L = Elems(c, m), NEW a \in Addr \ L
  PROVE  /\ Linkage(LinkedIn(nx, pv, a)) /\ Linkage(LinkedBack(pv, a))
         /\ Chain(Extended(c, m, a), m + 1, LinkedIn(nx, pv, a), LinkedBack(pv, a))
         /\ Elems(Extended(c, m, a), m + 1) = L \cup {a}
<1>1. Chain(c, m, nx, pv) /\ L = Elems(c, m)
  OBVIOUS
<1>2. /\ m \in Nat /\ c[0] = Front /\ c[m + 1] = End /\ L = {c[i] : i \in 1..m}
      /\ \A i \in 1..m : c[i] \in Addr
      /\ \A i \in 0..m : nx[c[i]] = c[i + 1] /\ pv[c[i + 1]] = c[i]
      /\ pv[Front] = Null /\ nx[End] = Null
  BY <1>1 DEF Chain, Elems
<1>3. /\ \A i \in 0..m + 1 : c[i] \in Addr \cup Dummy
      /\ \A i, j \in 0..m + 1 : c[i] = c[j] => i = j
  BY <1>1, ChainApart
<1>4. /\ DOMAIN nx = Addr \cup Dummy /\ DOMAIN pv = Addr \cup Dummy
      /\ Linkage(nx) /\ Linkage(pv)
  BY DEF Linkage
<1>5. a # Front /\ a # End /\ Front # End /\ Front \in Dummy /\ End \in Dummy
  BY AddrAssumption DEF Dummy, Front, End
<1>6. pv[End] = c[m] /\ m \in 0..m + 1 /\ c[m] # End /\ c[m] # a
  <2>1. m \in 0..m /\ m \in 0..m + 1 /\ m + 1 \in 0..m + 1 /\ m # m + 1
    BY <1>2
  <2>2. m = 0 \/ m \in 1..m
    BY <1>2
  <2>. QED
    BY <1>2, <1>3, <1>5, <2>1, <2>2
<1>. DEFINE e == Extended(c, m, a)
            nx2 == LinkedIn(nx, pv, a)
            pv2 == LinkedBack(pv, a)
<1>0. nx2 = [nx EXCEPT ![a] = End, ![c[m]] = a] /\ pv2 = [pv EXCEPT ![a] = c[m], ![End] = a]
  BY <1>6 DEF LinkedIn, LinkedBack
<1>. HIDE DEF nx2, pv2
<1>7. /\ \A i \in 0..m : e[i] = c[i]
      /\ e[m + 1] = a /\ e[m + 2] = End
  BY <1>2 DEF Extended
<1>8. /\ nx2[a] = End /\ nx2[c[m]] = a
      /\ \A b \in Addr \cup Dummy : b # a /\ b # c[m] => nx2[b] = nx[b]
  BY <1>0, <1>3, <1>4, <1>5, <1>6
<1>9. /\ pv2[a] = c[m] /\ pv2[End] = a
      /\ \A b \in Addr \cup Dummy : b # a /\ b # End => pv2[b] = pv[b]
  BY <1>0, <1>4, <1>5
<1>10. Linkage(nx2) /\ Linkage(pv2)
  BY <1>0, <1>3, <1>4, <1>5, <1>6 DEF Linkage
<1>11. e \in [0..m + 1 + 1 -> Addr \cup Dummy]
  <2>1. m + 1 + 1 = m + 2 /\ \A i \in 0..m + 2 : i <= m => i \in 0..m + 1
    BY <1>2
  <2>. QED
    BY <1>3, <1>5, <2>1 DEF Extended
<1>. HIDE DEF e
<1>12. \A i \in 1..m : c[i] \in L /\ c[i] # a /\ c[i] # End
  BY <1>2, <1>5, AddrAssumption DEF Dummy
<1>13. /\ e[0] = Front /\ e[m + 1 + 1] = End
       /\ \A i \in 1..m + 1 : e[i] \in Addr
  <2>1. 0 \in 0..m /\ m + 1 + 1 = m + 2
    BY <1>2
  <2>2. \A i \in 1..m + 1 : i = m + 1 \/ (i \in 1..m /\ i \in 0..m)
    BY <1>2
  <2>. QED
    BY <1>2, <1>7, <2>1, <2>2
<1>14. ASSUME NEW i \in 1..m + 1, NEW j \in 1..m + 1, e[i] = e[j]  PROVE i = j
  <2>1. \A k \in 1..m + 1 : k = m + 1 \/ (k \in 1..m /\ k \in 0..m /\ k \in 0..m + 1)
    BY <1>2
  <2>. QED
    BY <1>3, <1>7, <1>12, <1>14, <2>1
<1>15. ASSUME NEW i \in 0..m + 1  PROVE nx2[e[i]] = e[i + 1] /\ pv2[e[i + 1]] = e[i]
  <2>1. CASE i = m + 1
    <3>1. i + 1 = m + 2
      BY <1>2, <2>1
    <3>. QED
      BY <1>7, <1>8, <1>9, <2>1, <3>1
  <2>2. CASE i = m
    <3>1. i \in 0..m
      BY <1>2, <2>2
    <3>. QED
      BY <1>7, <1>8, <1>9, <2>2, <3>1
  <2>3. CASE i # m + 1 /\ i # m
    <3>1. i \in 0..m /\ i + 1 \in 1..m /\ i + 1 \in 0..m /\ i \in 0..m + 1
      BY <1>2, <2>3
    <3>2. e[i] = c[i] /\ e[i + 1] = c[i + 1]
      BY <1>7, <3>1
    <3>3. c[i] # a /\ c[i] # c[m]
      <4>1. i = 0 \/ i \in 1..m
        BY <3>1
      <4>. QED
        BY <1>2, <1>3, <1>5, <1>6, <1>12, <2>3, <3>1, <4>1
    <3>4. c[i + 1] # a /\ c[i + 1] # End
      BY <1>12, <3>1
    <3>5. c[i] \in Addr \cup Dummy /\ c[i + 1] \in Addr \cup Dummy
      BY <1>2, <1>3, <3>1
    <3>. QED
      BY <1>2, <1>8, <1>9, <3>1, <3>2, <3>3, <3>4, <3>5
  <2>. QED
    BY <2>1, <2>2, <2>3
<1>16. pv2[Front] = Null /\ nx2[End] = Null
  BY <1>2, <1>5, <1>6, <1>8, <1>9
<1>17. Chain(e, m + 1, nx2, pv2)
  <2>1. m + 1 \in Nat
    BY <1>2
  <2>. QED
    BY <1>11, <1>13, <1>14, <1>15, <1>16, <2>1 DEF Chain
<1>18. L \cup {a} = Elems(e, m + 1)
  <2>1. \A i \in 1..m + 1 : i = m + 1 \/ (i \in 1..m /\ i \in 0..m)
    BY <1>2
  <2>2. m + 1 \in 1..m + 1 /\ \A i \in 1..m : i \in 1..m + 1 /\ i \in 0..m
    BY <1>2
  <2>3. Elems(e, m + 1) \subseteq L \cup {a}
    BY <1>2, <1>7, <2>1 DEF Elems
  <2>4. L \cup {a} \subseteq Elems(e, m + 1)
    BY <1>2, <1>7, <2>2 DEF Elems
  <2>. QED
    BY <2>3, <2>4
<1>. QED
  BY <1>10, <1>17, <1>18 DEF e, nx2, pv2

(* The writes of update and dequeue take a node out. *)
LEMMA Unlinked ==
  ASSUME NEW c, NEW m, NEW nx, NEW pv, Linkage(nx), Linkage(pv), Chain(c, m, nx, pv),
         NEW L, L = Elems(c, m), NEW k \in 1..m, NEW a, a = c[k]
  PROVE  /\ Linkage(CutOut(nx, pv, a)) /\ Linkage(CutOut(pv, nx, a))
         /\ Chain(Dropped(c, m, k), m - 1, CutOut(nx, pv, a), CutOut(pv, nx, a))
         /\ Elems(Dropped(c, m, k), m - 1) = L \ {a}
<1>1. Chain(c, m, nx, pv) /\ L = Elems(c, m)
  OBVIOUS
<1>2. /\ m \in Nat /\ c[0] = Front /\ c[m + 1] = End /\ L = {c[i] : i \in 1..m}
      /\ \A i \in 1..m : c[i] \in Addr
      /\ \A i \in 0..m : nx[c[i]] = c[i + 1] /\ pv[c[i + 1]] = c[i]
      /\ pv[Front] = Null /\ nx[End] = Null
  BY <1>1 DEF Chain, Elems
<1>3. /\ \A i \in 0..m + 1 : c[i] \in Addr \cup Dummy
      /\ \A i, j \in 0..m + 1 : c[i] = c[j] => i = j
  BY <1>1, ChainApart
<1>4. /\ DOMAIN nx = Addr \cup Dummy /\ DOMAIN pv = Addr \cup Dummy
      /\ Linkage(nx) /\ Linkage(pv)
  BY DEF Linkage
<1>5. k \in 1..m /\ a = c[k]
  OBVIOUS
<1>6. /\ k \in Int /\ k - 1 \in 0..m /\ k \in 0..m /\ k - 1 + 1 = k
      /\ k - 1 \in 0..m + 1 /\ k \in 0..m + 1 /\ k + 1 \in 0..m + 1
      /\ m - 1 \in Nat /\ m - 1 + 1 = m
  BY <1>2, <1>5
<1>7. pv[a] = c[k - 1] /\ nx[a] = c[k + 1]
  <2>1. pv[c[k - 1 + 1]] = c[k - 1] /\ nx[c[k]] = c[k + 1]
    BY <1>2, <1>6
  <2>. QED
    BY <1>5, <1>6, <2>1
<1>. DEFINE e == Dropped(c, m, k)
            nx2 == CutOut(nx, pv, a)
            pv2 == CutOut(pv, nx, a)
<1>0. nx2 = [nx EXCEPT ![c[k - 1]] = c[k + 1]] /\ pv2 = [pv EXCEPT ![c[k + 1]] = c[k - 1]]
  BY <1>7 DEF CutOut
<1>. HIDE DEF nx2, pv2
<1>8. \A i \in 0..m : e[i] = IF i < k THEN c[i] ELSE c[i + 1]
  BY DEF Dropped
<1>9. /\ nx2[c[k - 1]] = c[k + 1]
      /\ \A b \in Addr \cup Dummy : b # c[k - 1] => nx2[b] = nx[b]
      /\ pv2[c[k + 1]] = c[k - 1]
      /\ \A b \in Addr \cup Dummy : b # c[k + 1] => pv2[b] = pv[b]
  BY <1>0, <1>3, <1>4, <1>6
<1>10. Linkage(nx2) /\ Linkage(pv2)
  BY <1>0, <1>3, <1>4, <1>6 DEF Linkage
<1>11. e \in [0..m - 1 + 1 -> Addr \cup Dummy]
  <2>1. \A i \in 0..m : i \in 0..m + 1 /\ i + 1 \in 0..m + 1
    BY <1>2
  <2>. QED
    BY <1>3, <1>6, <2>1 DEF Dropped
<1>. HIDE DEF e
<1>13. /\ e[0] = Front /\ e[m] = End
       /\ \A i \in 1..m - 1 : e[i] \in Addr
  <2>1. 0 < k /\ ~(m < k) /\ 0 \in 0..m /\ m \in 0..m
    BY <1>2, <1>5
  <2>2. \A i \in 1..m - 1 : i \in 0..m /\ i \in 1..m /\ i + 1 \in 1..m
    BY <1>2
  <2>. QED
    BY <1>2, <1>8, <2>1, <2>2
<1>14. ASSUME NEW i \in 1..m - 1, NEW j \in 1..m - 1, e[i] = e[j]  PROVE i = j
  <2>1. /\ i \in 0..m /\ i \in 0..m + 1 /\ i + 1 \in 0..m + 1
        /\ j \in 0..m /\ j \in 0..m + 1 /\ j + 1 \in 0..m + 1
    BY <1>2
  <2>2. CASE i < k /\ j < k
    BY <1>3, <1>8, <1>14, <2>1, <2>2
  <2>3. CASE ~(i < k) /\ ~(j < k)
    <3>1. i + 1 = j + 1
      BY <1>3, <1>8, <1>14, <2>1, <2>3
    <3>. QED
      BY <2>1, <3>1
  <2>4. CASE i < k /\ ~(j < k)
    <3>1. i = j + 1
      BY <1>3, <1>8, <1>14, <2>1, <2>4
    <3>. QED
      BY <1>6, <2>1, <2>4, <3>1
  <2>5. CASE ~(i < k) /\ j < k
    <3>1. i + 1 = j
      BY <1>3, <1>8, <1>14, <2>1, <2>5
    <3>. QED
      BY <1>6, <2>1, <2>5, <3>1
  <2>. QED
    BY <2>2, <2>3, <2>4, <2>5
<1>15. ASSUME NEW i \in 0..m - 1  PROVE nx2[e[i]] = e[i + 1] /\ pv2[e[i + 1]] = e[i]
  <2>1. /\ i \in 0..m /\ i + 1 \in 0..m /\ i \in 0..m + 1 /\ i + 1 \in 0..m + 1
        /\ i + 1 + 1 \in 0..m + 1 /\ i \in Int
    BY <1>2
  <2>2. CASE i = k - 1
    <3>1. i < k /\ ~(i + 1 < k) /\ i + 1 + 1 = k + 1
      BY <1>6, <2>2
    <3>2. e[i] = c[k - 1] /\ e[i + 1] = c[k + 1]
      BY <1>8, <2>1, <2>2, <3>1
    <3>. QED
      BY <1>9, <3>2
  <2>3. CASE i < k - 1
    <3>1. i < k /\ i + 1 < k /\ i # k - 1 /\ i + 1 # k + 1
      BY <1>6, <2>1, <2>3
    <3>2. e[i] = c[i] /\ e[i + 1] = c[i + 1]
      BY <1>8, <2>1, <3>1
    <3>3. c[i] # c[k - 1] /\ c[i + 1] # c[k + 1]
      BY <1>3, <1>6, <2>1, <3>1
    <3>4. nx2[c[i]] = nx[c[i]] /\ pv2[c[i + 1]] = pv[c[i + 1]]
      BY <1>3, <1>9, <2>1, <3>3
    <3>. QED
      BY <1>2, <2>1, <3>2, <3>4
  <2>4. CASE i > k - 1
    <3>1. ~(i < k) /\ ~(i + 1 < k) /\ i + 1 # k - 1 /\ i + 1 + 1 # k + 1
      BY <1>6, <2>1, <2>4
    <3>2. e[i] = c[i + 1] /\ e[i + 1] = c[i + 1 + 1]
      BY <1>8, <2>1, <3>1
    <3>3. c[i + 1] # c[k - 1] /\ c[i + 1 + 1] # c[k + 1]
      BY <1>3, <1>6, <2>1, <3>1
    <3>4. nx2[c[i + 1]] = nx[c[i + 1]] /\ pv2[c[i + 1 + 1]] = pv[c[i + 1 + 1]]
      BY <1>3, <1>9, <2>1, <3>3
    <3>. QED
      BY <1>2, <2>1, <3>2, <3>4
  <2>. QED
    BY <1>6, <2>1, <2>2, <2>3, <2>4
<1>16. pv2[Front] = Null /\ nx2[End] = Null
  <2>1. c[k + 1] # c[0] /\ c[k - 1] # c[m + 1]
    <3>1. /\ 0 \in 0..m + 1 /\ m + 1 \in 0..m + 1 /\ k + 1 # 0 /\ k - 1 # m + 1
      BY <1>2, <1>5
    <3>. QED
      BY <1>3, <1>6, <3>1
  <2>. QED
    BY <1>2, <1>9, <2>1 DEF Dummy
<1>17. Chain(e, m - 1, nx2, pv2)
  BY <1>6, <1>11, <1>13, <1>14, <1>15, <1>16 DEF Chain
<1>18. L \ {a} = Elems(e, m - 1)
  <2>1. ASSUME NEW i \in 1..m - 1  PROVE e[i] \in L \ {a}
    <3>1. i \in 0..m /\ i \in 1..m /\ i + 1 \in 1..m /\ i \in 0..m + 1 /\ i + 1 \in 0..m + 1
      BY <1>2
    <3>2. IF i < k THEN i # k ELSE i + 1 # k
      BY <1>6, <3>1
    <3>. QED
      BY <1>2, <1>3, <1>5, <1>6, <1>8, <3>1, <3>2
  <2>2. ASSUME NEW i \in 1..m, c[i] # a  PROVE \E j \in 1..m - 1 : c[i] = e[j]
    <3>1. CASE i < k
      <4>1. i \in 1..m - 1 /\ i \in 0..m
        BY <1>2, <1>5, <3>1
      <4>. QED
        BY <1>8, <3>1, <4>1
    <3>2. CASE ~(i < k)
      <4>1. i # k
        BY <1>5, <2>2
      <4>2. i - 1 \in 1..m - 1 /\ i - 1 \in 0..m /\ ~(i - 1 < k) /\ i - 1 + 1 = i
        BY <1>2, <1>5, <3>2, <4>1
      <4>. QED
        BY <1>8, <4>2
    <3>. QED
      BY <3>1, <3>2
  <2>. QED
    BY <1>2, <2>1, <2>2 DEF Elems
<1>. QED
  BY <1>10, <1>17, <1>18 DEF e, nx2, pv2

(* A node that is linked again goes to the end; nothing else changes. *)
LEMMA Relinked ==
  ASSUME Linkage(next), Linkage(prev), NEW c, NEW m, Chain(c, m, next, prev),
         NEW k \in 1..m, NEW a, a = c[k], MoveLast(a)
  PROVE  /\ Linkage(next') /\ Linkage(prev')
         /\ Chain(Extended(Dropped(c, m, k), m - 1, a), m, next', prev')
         /\ Elems(Extended(Dropped(c, m, k), m - 1, a), m) = Elems(c, m)
<1>. DEFINE L  == Elems(c, m)
            nx == CutOut(next, prev, a)
            pv == CutOut(prev, next, a)
            d  == Dropped(c, m, k)
<1>0. m \in Nat /\ L \subseteq Addr /\ a \in L
  BY ChainLength DEF Elems
<1>1. /\ Linkage(nx) /\ Linkage(pv) /\ Chain(d, m - 1, nx, pv)
      /\ Elems(d, m - 1) = L \ {a}
  BY Unlinked
<1>2. next' = LinkedIn(nx, pv, a) /\ prev' = LinkedBack(pv, a)
  BY DEF MoveLast, CutOut, LinkedIn, LinkedBack
<1>. HIDE DEF nx, pv, d, L
<1>3. a \in Addr \ Elems(d, m - 1)
  BY <1>0, <1>1
<1>4. /\ Linkage(next') /\ Linkage(prev')
      /\ Chain(Extended(d, m - 1, a), m - 1 + 1, next', prev')
      /\ Elems(Extended(d, m - 1, a), m - 1 + 1) = Elems(d, m - 1) \cup {a}
  BY <1>1, <1>2, <1>3, Appended
<1>5. (L \ {a}) \cup {a} = L /\ m - 1 + 1 = m
  BY <1>0
<1>. QED
  BY <1>1, <1>4, <1>5 DEF d, L

-----------------------------------------------------------------------
(* What every thread relies on while the nodes of the list are L. *)
Shared == {"scan", "assert"}
Alone  == {"relink", "append", "unlink"}

Place == Shared \cup Alone \cup
         {"idle", "is_cached", "update", "cache_check", "copy", "respond", "miss",
          "enqueue", "load_test", "dequeue", "free", "print", "walk", "crashed"}
AfterCheck == {"idle", "copy", "load_test", "free"}

Evicts(t) == \/ pc[t] = "free"
             \/ pc[t] \in {"cache_check", "assert"} /\ ret[t] = "free"

Response == [key : Key, val : Value]

ThreadOK(t, L) ==
  /\ pc[t] \in Place /\ ret[t] \in AfterCheck
  /\ req[t] \in Key \cup {Null} /\ node[t] \in Addr \cup {End, Null}
  /\ pc[t] # "idle" => req[t] \in Key
  /\ Owns(t) => node[t] \in heap \ L
  /\ pc[t] \in {"enqueue", "append"} => entry[node[t]].key = req[t]
  /\ Uses(t) => node[t] \in L \/ (pc[t] = "walk" /\ node[t] = End)
  /\ Uses(t) /\ pc[t] # "walk" => Fold[entry[node[t]].key] = Fold[req[t]]
  /\ pc[t] = "respond" => Fold[out[t].key] = Fold[req[t]]

Locals ==
  /\ DOMAIN pc = Thread /\ DOMAIN ret = Thread /\ DOMAIN out = Thread
  /\ req \in [Thread -> Key \cup {Null}]
  /\ node \in [Thread -> Addr \cup {End, Null}]

Stored ==
  /\ heap \subseteq Addr /\ cache_load \in 0..SizeMax
  /\ entry \in [Addr -> Response \cup {NoEntry}]
  /\ \A a \in heap : entry[a] \in Response

(* An address outside the list is one thread's, or free. *)
Memory(L) ==
  /\ L \subseteq heap
  /\ \A a \in heap \ L : \E t \in Thread : Owns(t) /\ node[t] = a
  /\ \A t, u \in Thread : Owns(t) /\ Owns(u) /\ node[t] = node[u] => t = u

(* What is not in the list has no links, but for a node dequeue took out. *)
Blank(L) ==
  \A a \in Addr \ L : \/ next[a] = Null /\ prev[a] = Null
                      \/ \E t \in Thread : Evicts(t) /\ node[t] = a

State(L) ==
  /\ fault = "none" /\ Locals /\ Stored
  /\ Linked(L, cache_count, next, prev)
  /\ Memory(L) /\ Blank(L)
  /\ \A t \in Thread : ThreadOK(t, L)

(* A step of t leaves the other threads where they are. *)
Only(t) ==
  /\ DOMAIN pc' = Thread /\ DOMAIN ret' = Thread /\ DOMAIN out' = Thread
  /\ req' = [req EXCEPT ![t] = req'[t]] /\ node' = [node EXCEPT ![t] = node'[t]]
  /\ \A u \in Thread \ {t} :
       /\ pc'[u] = pc[u] /\ ret'[u] = ret[u] /\ req'[u] = req[u]
       /\ node'[u] = node[u] /\ out'[u] = out[u]

(* A step of t may turn the list into one of K when nothing that another
   thread has or uses is taken from it, and t accounts for the rest. *)
Keeps(t, L, K) ==
  /\ fault' = "none" /\ Stored' /\ Linked(K, cache_count', next', prev')
  /\ K \subseteq heap' /\ ThreadOK(t, K)'
  /\ \A a \in Addr : a \in K /\ a \in L => entry'[a] = entry[a]
  /\ \A u \in Thread \ {t} :
       /\ Owns(u) => /\ node[u] \in heap' \ K /\ entry'[node[u]] = entry[node[u]]
                     /\ Owns(t)' => node'[t] # node[u]
       /\ Uses(u) /\ node[u] \in L => node[u] \in K
  /\ \A a \in heap' \ K : \/ Owns(t)' /\ node'[t] = a
                          \/ \E u \in Thread \ {t} : Owns(u) /\ node[u] = a
  /\ \A a \in Addr \ K : \/ next'[a] = Null /\ prev'[a] = Null
                         \/ Evicts(t)' /\ node'[t] = a
                         \/ \E u \in Thread \ {t} : Evicts(u) /\ node[u] = a

LEMMA KeepsState ==
  ASSUME NEW L, State(L), NEW K, NEW t \in Thread, Only(t), Keeps(t, L, K)
  PROVE  State(K)'
<1>1. \A u \in Thread \ {t} : /\ Owns(u)' <=> Owns(u)
                              /\ Uses(u)' <=> Uses(u)
                              /\ Evicts(u)' <=> Evicts(u)
  BY DEF Only, Owns, Uses, Evicts
<1>2. ASSUME NEW u \in Thread \ {t}  PROVE ThreadOK(u, K)'
  <2>1. ThreadOK(u, L) /\ L \subseteq Addr
    <3>1. L \subseteq heap /\ heap \subseteq Addr
      BY DEF State, Memory, Stored
    <3>. QED
      BY <3>1 DEF State
  <2>2. /\ pc'[u] = pc[u] /\ ret'[u] = ret[u] /\ req'[u] = req[u]
        /\ node'[u] = node[u] /\ out'[u] = out[u]
    BY DEF Only
  <2>3. pc[u] \in {"enqueue", "append"} => Owns(u) /\ entry'[node[u]] = entry[node[u]]
    BY DEF Owns, Keeps
  <2>4. Uses(u) => node[u] \in K \/ (pc[u] = "walk" /\ node[u] = End)
    BY <2>1 DEF ThreadOK, Keeps
  <2>5. Uses(u) /\ pc[u] # "walk" => entry'[node[u]] = entry[node[u]]
    BY <2>1, <2>4 DEF ThreadOK, Keeps
  <2>6. Owns(u) => node[u] \in heap' \ K
    BY DEF Keeps
  <2>. QED
    BY <1>1, <2>1, <2>2, <2>3, <2>4, <2>5, <2>6 DEF ThreadOK
<1>3. Memory(K)'
  <2>1. \A a \in heap' \ K : \E u \in Thread : Owns(u)' /\ node'[u] = a
    BY <1>1 DEF Keeps, Only
  <2>2. ASSUME NEW v \in Thread, NEW u \in Thread, Owns(v)', Owns(u)', node'[v] = node'[u]
        PROVE  v = u
    <3>1. CASE v # t /\ u # t
      BY <1>1, <2>2, <3>1 DEF State, Memory, Only
    <3>2. CASE v = t /\ u # t
      BY <1>1, <2>2, <3>2 DEF Keeps, Only
    <3>3. CASE v # t /\ u = t
      BY <1>1, <2>2, <3>3 DEF Keeps, Only
    <3>. QED
      BY <3>1, <3>2, <3>3
  <2>. QED
    BY <2>1, <2>2 DEF Memory, Keeps
<1>4. Blank(K)'
  BY <1>1 DEF Blank, Keeps, Only
<1>5. Locals'
  <2>1. req'[t] \in Key \cup {Null} /\ node'[t] \in Addr \cup {End, Null}
    BY DEF Keeps, ThreadOK
  <2>. QED
    BY <2>1 DEF State, Only, Locals
<1>. QED
  BY <1>2, <1>3, <1>4, <1>5 DEF State, Keeps

(* A step of t that leaves the list and what t owns as they are. *)
LEMMA QuietState ==
  ASSUME NEW L, State(L), NEW t \in Thread, Only(t), ThreadOK(t, L)',
         UNCHANGED <<links, fault>>, Owns(t)' <=> Owns(t), Evicts(t)' <=> Evicts(t),
         Owns(t) => node'[t] = node[t]
  PROVE  State(L)'
<1>1. Linked(L, cache_count', next', prev') /\ Stored' /\ fault' = "none" /\ L \subseteq heap'
  BY DEF State, links, Stored, Memory
<1>2. \A u \in Thread \ {t} : Owns(u) =>
         /\ node[u] \in heap' \ L /\ entry'[node[u]] = entry[node[u]]
         /\ Owns(t)' => node'[t] # node[u]
  BY DEF State, ThreadOK, Memory, links
<1>3. \A a \in heap' \ L : \/ Owns(t)' /\ node'[t] = a
                           \/ \E u \in Thread \ {t} : Owns(u) /\ node[u] = a
  BY DEF State, Memory, links
<1>4. \A a \in Addr \ L : \/ next'[a] = Null /\ prev'[a] = Null
                          \/ Evicts(t)' /\ node'[t] = a
                          \/ \E u \in Thread \ {t} : Evicts(u) /\ node[u] = a
  <2>1. Evicts(t) => Owns(t)
    BY DEF Evicts, Owns
  <2>. QED
    BY <2>1 DEF State, Blank, links
<1>5. Keeps(t, L, L)
  BY <1>1, <1>2, <1>3, <1>4 DEF Keeps, links
<1>. QED
  BY <1>5, KeepsState

(* Steps that only move the thread on. *)
LEMMA MovesOn ==
  ASSUME NEW L, State(L), NEW t \in Thread, NEW from, NEW to \in Place, Goto(t, from, to),
         UNCHANGED <<links, locals, fault>>, to # "crashed",
         <<from, to>> \in {<<"is_cached", "scan">>, <<"scan", "miss">>, <<"update", "relink">>,
           <<"cache_check", "assert">>, <<"enqueue", "append">>, <<"load_test", "dequeue">>,
           <<"load_test", "print">>, <<"dequeue", "unlink">>}
  PROVE  State(L)'
<1>1. Only(t) /\ pc'[t] = to /\ pc[t] = from
  BY DEF State, Locals, Only, Goto, locals
<1>2. /\ Owns(t)' <=> Owns(t)
      /\ Evicts(t)' <=> Evicts(t)
  BY <1>1 DEF Owns, Evicts, locals
<1>3. Uses(t)' <=> Uses(t)
  BY <1>1 DEF Uses, locals
<1>4. ThreadOK(t, L)'
  BY <1>1, <1>2, <1>3 DEF State, ThreadOK, locals, links
<1>. QED
  BY <1>1, <1>2, <1>4, QuietState DEF locals

(* The asserts of cache_check hold of a linked list. *)
LEMMA ListHolds ==
  ASSUME NEW L, State(L)
  PROVE  /\ ListInv /\ Listed = L /\ L \subseteq Addr
         /\ cache_count \in Nat
<1>1. Linked(L, cache_count, next, prev) /\ L \subseteq heap /\ heap \subseteq Addr
  BY DEF State, Memory, Stored
<1>2. /\ Listed = L /\ Stop(Forward) = End /\ Stop(Backward) = Front
      /\ Cardinality(Nodes(Forward)) = cache_count
      /\ \A i \in Nodes(Forward) : next[prev[Forward[i]]] = Forward[i]
  BY <1>1, Listing
<1>3. PICK c : Chain(c, cache_count, next, prev)
  BY <1>1 DEF Linked
<1>4. /\ cache_count \in Nat /\ c[0] = Front /\ c[cache_count + 1] = End
      /\ \A i \in 0..cache_count : next[c[i]] = c[i + 1] /\ prev[c[i + 1]] = c[i]
      /\ prev[Front] = Null /\ next[End] = Null
  BY <1>3 DEF Chain
<1>5. CASE cache_count = 0
  <2>1. next[c[0]] = c[0 + 1] /\ prev[c[0 + 1]] = c[0]
    BY <1>4, <1>5
  <2>2. is_empty
    BY <1>4, <1>5, <2>1 DEF is_empty
  <2>. QED
    BY <1>1, <1>2, <1>4, <1>5, <2>2 DEF ListInv, CheckHolds
<1>6. CASE cache_count # 0
  BY <1>1, <1>2, <1>4, <1>6 DEF ListInv, CheckHolds
<1>. QED
  BY <1>1, <1>2, <1>4, <1>5, <1>6

(* A request begins; its transaction ends. *)
LEMMA RequestState ==
  ASSUME NEW L, State(L), NEW t \in Thread, Request(t)
  PROVE  State(L)'
<1>1. PICK k \in Key : /\ req' = [req EXCEPT ![t] = k]
                       /\ pc[t] = "idle" /\ pc' = [pc EXCEPT ![t] = "is_cached"]
                       /\ UNCHANGED <<links, node, ret, out, fault>>
  BY DEF Request, Goto
<1>2. Only(t) /\ pc'[t] = "is_cached" /\ req'[t] = k
  BY <1>1 DEF State, Locals, Only
<1>3. ~Owns(t) /\ ~Owns(t)' /\ ~Evicts(t) /\ ~Evicts(t)' /\ ~Uses(t)'
  BY <1>1, <1>2 DEF Owns, Evicts, Uses
<1>4. ThreadOK(t, L)'
  BY <1>1, <1>2, <1>3 DEF State, ThreadOK, Place
<1>. QED
  BY <1>1, <1>2, <1>3, <1>4, QuietState

LEMMA ReturnState ==
  ASSUME NEW L, State(L), NEW t \in Thread, pc[t] \in {"respond", "miss", "walk"},
         Return(t), UNCHANGED <<links, fault>>
  PROVE  State(L)'
<1>1. Only(t) /\ pc'[t] = "idle" /\ req'[t] = Null /\ node'[t] = Null /\ ret'[t] = "idle"
  BY DEF State, Locals, Only, Return
<1>2. ~Owns(t) /\ ~Owns(t)' /\ ~Evicts(t) /\ ~Evicts(t)' /\ ~Uses(t)'
  BY <1>1 DEF Owns, Evicts, Uses
<1>3. ThreadOK(t, L)'
  BY <1>1, <1>2 DEF State, ThreadOK, Place, AfterCheck
<1>. QED
  BY <1>1, <1>2, <1>3, QuietState

(* is_cached finds a listed node, and what it copies was stored for the key. *)
LEMMA ScanState ==
  ASSUME NEW L, State(L), NEW t \in Thread, IsCachedScan(t)
  PROVE  State(L)'
<1>. DEFINE hits == {i \in Nodes(Backward) : is_match(Backward[i], req[t])}
<1>0. /\ Stop(Backward) = Front /\ Nodes(Backward) \in SUBSET Nat
      /\ \A i \in Nodes(Backward) : Backward[i] \in L
  BY Listing DEF State, Memory, Stored
<1>1. CASE /\ hits # {} /\ node' = [node EXCEPT ![t] = Backward[Min(hits)]]
           /\ Goto(t, "scan", "update") /\ UNCHANGED <<links, req, ret, out, fault>>
  <2>1. hits \in SUBSET Nat
    BY <1>0
  <2>. DEFINE n == Backward[Min(hits)]
  <2>2. Min(hits) \in hits
    <3>. HIDE DEF hits
    <3>. QED
      BY <1>1, <2>1, MinIsLeast
  <2>3. n \in L /\ Fold[entry[n].key] = Fold[req[t]]
    BY <1>0, <2>2 DEF is_match
  <2>. HIDE DEF n, hits
  <2>4. node' = [node EXCEPT ![t] = n]
    BY <1>1 DEF n, hits
  <2>5. /\ Only(t) /\ pc[t] = "scan" /\ pc'[t] = "update" /\ node'[t] = n
        /\ UNCHANGED <<links, req, ret, fault>>
    BY <1>1, <2>4 DEF State, Locals, Only, Goto
  <2>6. ~Owns(t) /\ ~Owns(t)' /\ ~Evicts(t) /\ ~Evicts(t)'
    BY <2>5 DEF Owns, Evicts
  <2>7. n \in Addr
    BY <2>3, ListHolds
  <2>8. ThreadOK(t, L)'
    BY <2>3, <2>5, <2>6, <2>7 DEF State, ThreadOK, Place, links
  <2>. QED
    BY <2>5, <2>6, <2>8, QuietState
<1>2. CASE Goto(t, "scan", "miss") /\ UNCHANGED <<links, locals, fault>>
  BY <1>2, MovesOn DEF Place
<1>. QED
  BY <1>0, <1>1, <1>2 DEF IsCachedScan

LEMMA AssertState ==
  ASSUME NEW L, State(L), NEW t \in Thread, CheckAssert(t)
  PROVE  State(L)'
<1>1. CheckHolds
  BY ListHolds DEF ListInv
<1>2. /\ pc[t] = "assert" /\ pc' = [pc EXCEPT ![t] = ret[t]]
      /\ UNCHANGED <<links, locals, fault>>
  BY <1>1 DEF CheckAssert, Goto
<1>3. Only(t) /\ pc'[t] = ret[t] /\ ret[t] \in AfterCheck
  BY <1>2 DEF State, Locals, Only, locals, ThreadOK
<1>4. /\ Owns(t)' <=> Owns(t)
      /\ Evicts(t)' <=> Evicts(t)
      /\ Uses(t)' <=> Uses(t)
      /\ pc'[t] \in Place /\ pc'[t] \notin {"walk", "enqueue", "append", "respond"}
  BY <1>2, <1>3 DEF Owns, Evicts, Uses, Place, locals, AfterCheck
<1>5. ThreadOK(t, L)'
  BY <1>2, <1>3, <1>4 DEF State, ThreadOK, locals, links
<1>. QED
  BY <1>2, <1>3, <1>4, <1>5, QuietState DEF locals

LEMMA CopyState ==
  ASSUME NEW L, State(L), NEW t \in Thread, IsCachedCopy(t)
  PROVE  State(L)'
<1>1. pc[t] = "copy" /\ Uses(t) /\ node[t] \in L
  BY DEF IsCachedCopy, State, ThreadOK, Uses
<1>2. Live(node[t])
  BY <1>1 DEF State, Memory, Live
<1>3. /\ out' = [out EXCEPT ![t] = entry[node[t]]] /\ pc' = [pc EXCEPT ![t] = "respond"]
      /\ UNCHANGED <<links, req, node, ret, fault>>
  BY <1>2 DEF IsCachedCopy, Goto
<1>4. Only(t) /\ pc'[t] = "respond" /\ out'[t] = entry[node[t]]
  BY <1>3 DEF State, Locals, Only
<1>5. ~Owns(t) /\ ~Owns(t)' /\ ~Evicts(t) /\ ~Evicts(t)' /\ ~Uses(t)'
  BY <1>1, <1>4 DEF Owns, Evicts, Uses
<1>6. ThreadOK(t, L)'
  BY <1>1, <1>3, <1>4, <1>5 DEF State, ThreadOK, Place
<1>. QED
  BY <1>3, <1>4, <1>5, <1>6, QuietState

(* print_cache meets listed nodes and the end. *)
LEMMA PrintState ==
  ASSUME NEW L, State(L), NEW t \in Thread, PrintFirst(t) \/ PrintNode(t)
  PROVE  State(L)'
<1>0. /\ L \subseteq heap /\ L \subseteq Addr /\ heap \subseteq Addr
      /\ next[Front] \in L \cup {End} /\ \A a \in L : next[a] \in L \cup {End}
  BY Neighbours DEF State, Memory, Stored
<1>1. ASSUME NEW n \in L \cup {End}, node' = [node EXCEPT ![t] = n],
             pc[t] \in {"print", "walk"},
             pc' = [pc EXCEPT ![t] = "walk"] \/ (pc[t] = "walk" /\ pc' = pc),
             UNCHANGED <<links, req, ret, out, fault>>
      PROVE  State(L)'
  <2>1. Only(t) /\ pc'[t] = "walk" /\ node'[t] = n
    BY <1>1 DEF State, Locals, Only
  <2>2. ~Owns(t) /\ ~Owns(t)' /\ ~Evicts(t) /\ ~Evicts(t)'
    BY <1>1, <2>1 DEF Owns, Evicts
  <2>3. ThreadOK(t, L)'
    BY <1>0, <1>1, <2>1, <2>2 DEF State, ThreadOK, Place
  <2>. QED
    BY <1>1, <2>1, <2>2, <2>3, QuietState
<1>2. CASE PrintFirst(t)
  BY <1>0, <1>1, <1>2 DEF PrintFirst, Goto
<1>3. CASE PrintNode(t)
  <2>1. node[t] \in L \cup {End} /\ pc[t] = "walk" /\ End \notin Addr
    BY <1>3, AddrAssumption DEF PrintNode, State, ThreadOK, Uses, Dummy
  <2>2. CASE node[t] = End
    BY <1>0, <1>3, <2>1, <2>2, ReturnState DEF PrintNode
  <2>3. CASE node[t] # End
    <3>1. /\ node' = [node EXCEPT ![t] = next[node[t]]]
          /\ UNCHANGED <<links, pc, req, ret, out, fault>>
      BY <1>0, <1>3, <2>1, <2>3 DEF PrintNode
    <3>2. next[node[t]] \in L \cup {End}
      BY <1>0, <2>1, <2>3
    <3>. QED
      BY <1>1, <2>1, <3>1, <3>2
  <2>. QED
    BY <2>2, <2>3
<1>. QED
  BY <1>2, <1>3

-----------------------------------------------------------------------
(* A hit moves its node to the end of the list. *)
LEMMA RelinkState ==
  ASSUME NEW L, State(L), NEW t \in Thread, UpdateRelink(t)
  PROVE  State(L)'
<1>1. pc[t] = "relink" /\ Uses(t) /\ node[t] \in L
  BY DEF UpdateRelink, State, ThreadOK, Uses
<1>2. /\ Linked(L, cache_count, next, prev) /\ L \subseteq heap /\ L \subseteq Addr
      /\ \A a \in L : next[a] \in L \cup {End} /\ prev[a] \in L \cup {Front}
      /\ prev[End] \in L \cup {Front}
  BY Neighbours DEF State, Memory
<1>3. Live(node[t]) /\ Live(prev[node[t]]) /\ Live(next[node[t]])
  BY <1>1, <1>2 DEF Live, Dummy
<1>4. /\ MoveLast(node[t]) /\ ret' = [ret EXCEPT ![t] = "copy"]
      /\ pc' = [pc EXCEPT ![t] = "cache_check"]
      /\ UNCHANGED <<heap, entry, cache_count, cache_load, req, node, out, fault>>
  BY <1>3 DEF UpdateRelink, Goto
<1>5. Linked(L, cache_count', next', prev')
  <2>1. PICK c : Chain(c, cache_count, next, prev) /\ L = Elems(c, cache_count)
    BY <1>2 DEF Linked
  <2>2. PICK k \in 1..cache_count : node[t] = c[k]
    BY <1>1, <2>1 DEF Elems
  <2>3. Linkage(next) /\ Linkage(prev) /\ MoveLast(node[t])
    BY <1>2, <1>4 DEF Linked
  <2>. DEFINE e == Extended(Dropped(c, cache_count, k), cache_count - 1, node[t])
  <2>4. /\ Linkage(next') /\ Linkage(prev')
        /\ Chain(e, cache_count, next', prev') /\ Elems(e, cache_count) = L
    BY <2>1, <2>2, <2>3, Relinked
  <2>. HIDE DEF e
  <2>. QED
    BY <1>4, <2>4 DEF Linked
<1>6. \A a \in Addr \ L : next'[a] = next[a] /\ prev'[a] = prev[a]
  <2>. DEFINE n == node[t]
              next1 == [next EXCEPT ![prev[n]] = next[n]]
              prev1 == [prev EXCEPT ![next[n]] = prev[n]]
  <2>1. /\ next' = [next1 EXCEPT ![n] = End, ![prev1[End]] = n]
        /\ prev' = [prev1 EXCEPT ![n] = prev1[End], ![End] = n]
    BY <1>4 DEF MoveLast
  <2>2. /\ n \in L /\ prev[n] \in L \cup {Front} /\ next[n] \in L \cup {End}
        /\ DOMAIN next = Addr \cup Dummy /\ DOMAIN prev = Addr \cup Dummy
        /\ End \notin Addr /\ Front \notin Addr
    BY <1>1, <1>2, AddrAssumption DEF Dummy, Linked, Linkage
  <2>3. prev1[End] \in L \cup {Front}
    BY <1>2, <2>2 DEF Dummy
  <2>4. \A a \in Addr \ L : next1[a] = next[a] /\ prev1[a] = prev[a]
    BY <2>2
  <2>5. DOMAIN next1 = DOMAIN next /\ DOMAIN prev1 = DOMAIN prev
    OBVIOUS
  <2>. HIDE DEF n, next1, prev1
  <2>. QED
    BY <2>1, <2>2, <2>3, <2>4, <2>5
<1>7. Only(t) /\ pc'[t] = "cache_check" /\ ret'[t] = "copy"
  BY <1>4 DEF State, Locals, Only
<1>8. ~Owns(t) /\ ~Owns(t)' /\ ~Evicts(t) /\ ~Evicts(t)' /\ Uses(t)'
  BY <1>1, <1>7 DEF Owns, Evicts, Uses
<1>9. ThreadOK(t, L)'
  BY <1>1, <1>4, <1>7, <1>8 DEF State, ThreadOK, Place, AfterCheck
<1>10. Keeps(t, L, L)
  <2>1. Stored' /\ fault' = "none"
    BY <1>4 DEF State, Stored
  <2>2. \A u \in Thread \ {t} : Owns(u) => node[u] \in heap' \ L
    BY <1>4 DEF State, ThreadOK
  <2>3. \A a \in heap' \ L : \E u \in Thread \ {t} : Owns(u) /\ node[u] = a
    BY <1>4, <1>8 DEF State, Memory
  <2>4. \A a \in Addr \ L : \/ next'[a] = Null /\ prev'[a] = Null
                            \/ \E u \in Thread \ {t} : Evicts(u) /\ node[u] = a
    BY <1>6, <1>8 DEF State, Blank
  <2>. QED
    BY <1>2, <1>4, <1>5, <1>8, <1>9, <2>1, <2>2, <2>3, <2>4 DEF Keeps
<1>. QED
  BY <1>7, <1>10, KeepsState

(* add_cache allocates a node, which no thread has a pointer to. *)
LEMMA NewNodeState ==
  ASSUME NEW L, State(L), NEW t \in Thread, NewNode(t)
  PROVE  State(L)'
<1>1. PICK v \in Value, a \in Addr \ heap :
        /\ heap' = heap \cup {a}
        /\ entry' = [entry EXCEPT ![a] = [key |-> req[t], val |-> v]]
        /\ node' = [node EXCEPT ![t] = a]
        /\ pc[t] = "miss" /\ pc' = [pc EXCEPT ![t] = "enqueue"]
        /\ UNCHANGED <<next, prev, cache_count, cache_load, req, ret, out, fault>>
  BY DEF NewNode, Goto
<1>2. /\ L \subseteq heap /\ heap \subseteq Addr /\ req[t] \in Key
      /\ entry \in [Addr -> Response \cup {NoEntry}]
      /\ Linked(L, cache_count, next, prev)
  BY <1>1 DEF State, Memory, Stored, ThreadOK
<1>3. Only(t) /\ pc'[t] = "enqueue" /\ node'[t] = a
  BY <1>1 DEF State, Locals, Only
<1>4. ~Owns(t) /\ Owns(t)' /\ ~Evicts(t) /\ ~Evicts(t)' /\ ~Uses(t)'
  BY <1>1, <1>3 DEF Owns, Evicts, Uses
<1>5. /\ entry'[a] \in Response /\ entry'[a].key = req[t]
      /\ \A b \in Addr : b # a => entry'[b] = entry[b]
      /\ entry' \in [Addr -> Response \cup {NoEntry}]
  BY <1>1, <1>2 DEF Response
<1>6. ThreadOK(t, L)'
  BY <1>1, <1>2, <1>3, <1>4, <1>5 DEF State, ThreadOK, Place
<1>7. Keeps(t, L, L)
  <2>1. Stored' /\ fault' = "none"
    BY <1>1, <1>2, <1>5 DEF State, Stored
  <2>2. \A b \in Addr : b \in L => entry'[b] = entry[b]
    BY <1>2, <1>5
  <2>3. \A u \in Thread \ {t} : Owns(u) =>
           /\ node[u] \in heap' \ L /\ entry'[node[u]] = entry[node[u]]
           /\ node'[t] # node[u]
    BY <1>1, <1>2, <1>3, <1>5 DEF State, ThreadOK
  <2>4. \A b \in heap' \ L : \/ node'[t] = b
                             \/ \E u \in Thread \ {t} : Owns(u) /\ node[u] = b
    BY <1>1, <1>3, <1>4 DEF State, Memory
  <2>5. \A b \in Addr \ L : \/ next'[b] = Null /\ prev'[b] = Null
                            \/ \E u \in Thread \ {t} : Evicts(u) /\ node[u] = b
    BY <1>1, <1>4 DEF State, Blank
  <2>. QED
    BY <1>1, <1>2, <1>4, <1>6, <2>1, <2>2, <2>3, <2>4, <2>5 DEF Keeps
<1>. QED
  BY <1>3, <1>7, KeepsState

(* A new node becomes the last one. *)
LEMMA AppendState ==
  ASSUME NEW L, State(L), NEW t \in Thread, EnqueueAppend(t), NEW n, n = node[t]
  PROVE  State(L \cup {n})'
<1>0. n = node[t]
  OBVIOUS
<1>. DEFINE K == L \cup {n}
<1>1. pc[t] = "append" /\ Owns(t) /\ n \in heap \ L /\ entry[n].key = req[t] /\ ~Evicts(t)
  BY <1>0 DEF EnqueueAppend, State, ThreadOK, Owns, Evicts
<1>2. /\ Linked(L, cache_count, next, prev) /\ L \subseteq heap /\ L \subseteq Addr
      /\ heap \subseteq Addr /\ prev[End] \in L \cup {Front}
  BY Neighbours DEF State, Memory, Stored
<1>3. /\ LinkLast(n) /\ CountIn(n) /\ ret' = [ret EXCEPT ![t] = "load_test"]
      /\ pc' = [pc EXCEPT ![t] = "cache_check"]
      /\ UNCHANGED <<heap, entry, req, node, out, fault>>
  <2>1. Live(prev[End]) /\ n \in heap
    BY <1>1, <1>2 DEF Live, Dummy
  <2>. QED
    BY <1>0, <2>1 DEF EnqueueAppend, Goto
<1>4. Only(t) /\ pc'[t] = "cache_check" /\ ret'[t] = "load_test"
  BY <1>3 DEF State, Locals, Only
<1>5. ~Owns(t)' /\ ~Evicts(t)' /\ ~Uses(t)'
  BY <1>4 DEF Owns, Evicts, Uses
<1>6. Linked(K, cache_count', next', prev')
  <2>1. n \in Addr \ L
    BY <1>1, <1>2
  <2>2. PICK c : Chain(c, cache_count, next, prev) /\ L = Elems(c, cache_count)
    BY <1>2 DEF Linked
  <2>3. /\ Linkage(next) /\ Linkage(prev) /\ cache_count' = cache_count + 1
        /\ next' = LinkedIn(next, prev, n) /\ prev' = LinkedBack(prev, n)
    BY <1>2, <1>3 DEF Linked, LinkLast, CountIn, LinkedIn, LinkedBack
  <2>4. /\ Linkage(next') /\ Linkage(prev')
        /\ Chain(Extended(c, cache_count, n), cache_count + 1, next', prev')
        /\ Elems(Extended(c, cache_count, n), cache_count + 1) = L \cup {n}
    BY <2>1, <2>2, <2>3, Appended
  <2>. QED
    BY <2>3, <2>4 DEF Linked, K
<1>7. \A a \in Addr \ K : next'[a] = next[a] /\ prev'[a] = prev[a]
  <2>1. /\ DOMAIN next = Addr \cup Dummy /\ DOMAIN prev = Addr \cup Dummy
        /\ End \notin Addr /\ Front \notin Addr
    BY <1>2, AddrAssumption DEF Dummy, Linked, Linkage
  <2>. QED
    BY <1>2, <1>3, <2>1 DEF LinkLast
<1>8. cache_load' \in 0..SizeMax
  <2>1. entry[n].val \in Value
    BY <1>1 DEF State, Stored, Response
  <2>2. PICK s \in StrLen[entry[n].val] : cache_load' = (cache_load + s) % (SizeMax + 1)
    BY <1>3 DEF CountIn
  <2>3. s \in Nat /\ SizeMax \in Nat /\ cache_load \in Nat
    BY <2>1, <2>2, CacheAssumption DEF State, Stored
  <2>4. cache_load + s \in Int
    BY <2>3
  <2>. QED
    BY <2>2, <2>3, <2>4
<1>9. ThreadOK(t, K)'
  BY <1>1, <1>3, <1>4, <1>5 DEF State, ThreadOK, Place, AfterCheck
<1>10. Keeps(t, L, K)
  <2>1. Stored' /\ fault' = "none"
    BY <1>3, <1>8 DEF State, Stored
  <2>2. \A u \in Thread \ {t} : Owns(u) => node[u] \in heap' \ K
    <3>1. \A u \in Thread \ {t} : Owns(u) => node[u] # n
      BY <1>0, <1>1 DEF State, Memory
    <3>. QED
      BY <1>3, <3>1 DEF State, ThreadOK
  <2>3. \A a \in heap' \ K : \E u \in Thread \ {t} : Owns(u) /\ node[u] = a
    BY <1>0, <1>3 DEF State, Memory
  <2>4. \A a \in Addr \ K : \/ next'[a] = Null /\ prev'[a] = Null
                            \/ \E u \in Thread \ {t} : Evicts(u) /\ node[u] = a
    BY <1>0, <1>1, <1>7 DEF State, Blank
  <2>5. K \subseteq heap'
    BY <1>1, <1>2, <1>3
  <2>. QED
    BY <1>3, <1>5, <1>6, <1>9, <2>1, <2>2, <2>3, <2>4, <2>5 DEF Keeps
<1>. QED
  BY <1>4, <1>10, KeepsState

(* dequeue takes the first node, and no pointer of another thread is lost. *)
Safely(t) == pc[t] = "unlink" => Apart(t)

LEMMA UnlinkState ==
  ASSUME NEW L, State(L), NEW t \in Thread, Safely(t), DequeueUnlink(t),
         NEW n, n = next[Front]
  PROVE  State(L \ {n})'
<1>0. n = next[Front]
  OBVIOUS
<1>. DEFINE K == L \ {n}
<1>1. /\ pc[t] = "unlink" /\ ~is_empty /\ ~Owns(t) /\ ~Evicts(t) /\ ~Uses(t)
      /\ \A u \in Thread \ {t} : Uses(u) => node[u] # n
  BY <1>0 DEF DequeueUnlink, Safely, Apart, Owns, Evicts, Uses
<1>2. /\ Linked(L, cache_count, next, prev) /\ L \subseteq heap /\ L \subseteq Addr
      /\ heap \subseteq Addr /\ prev[End] \in L \cup {Front} /\ prev[n] = Front
      /\ n \in L \cup {End} /\ \A a \in L : next[a] \in L \cup {End}
      /\ n = End => L = {}
  BY <1>0, Neighbours DEF State, Memory, Stored
<1>3. n \in L /\ n \in heap /\ Live(next[n])
  BY <1>0, <1>1, <1>2 DEF is_empty, Live, Dummy
<1>4. /\ UnlinkFirst(n) /\ CountOut(n) /\ node' = [node EXCEPT ![t] = n]
      /\ ret' = [ret EXCEPT ![t] = "free"] /\ pc' = [pc EXCEPT ![t] = "cache_check"]
      /\ UNCHANGED <<heap, entry, req, out, fault>>
  BY <1>0, <1>1, <1>3 DEF DequeueUnlink, Goto
<1>5. Only(t) /\ pc'[t] = "cache_check" /\ ret'[t] = "free" /\ node'[t] = n
  BY <1>4 DEF State, Locals, Only
<1>6. Owns(t)' /\ Evicts(t)' /\ ~Uses(t)'
  BY <1>5 DEF Owns, Evicts, Uses
<1>7. Linked(K, cache_count', next', prev')
  <2>1. next' = CutOut(next, prev, n) /\ prev' = CutOut(prev, next, n)
    BY <1>0, <1>2, <1>4 DEF UnlinkFirst, CutOut
  <2>2. PICK c : Chain(c, cache_count, next, prev) /\ L = Elems(c, cache_count)
    BY <1>2 DEF Linked
  <2>3. PICK k \in 1..cache_count : n = c[k]
    BY <1>3, <2>2 DEF Elems
  <2>4. Linkage(next) /\ Linkage(prev) /\ cache_count' = cache_count - 1
    BY <1>2, <1>4 DEF Linked, CountOut
  <2>5. /\ Linkage(next') /\ Linkage(prev')
        /\ Chain(Dropped(c, cache_count, k), cache_count - 1, next', prev')
        /\ Elems(Dropped(c, cache_count, k), cache_count - 1) = L \ {n}
    BY <2>1, <2>2, <2>3, <2>4, Unlinked
  <2>. QED
    BY <2>4, <2>5 DEF Linked, K
<1>8. \A a \in Addr \ L : next'[a] = next[a] /\ prev'[a] = prev[a]
  <2>1. /\ DOMAIN next = Addr \cup Dummy /\ DOMAIN prev = Addr \cup Dummy
        /\ End \notin Addr /\ Front \notin Addr
    BY <1>2, AddrAssumption DEF Dummy, Linked, Linkage
  <2>2. next[n] \in L \cup {End}
    BY <1>2, <1>3
  <2>. QED
    BY <1>4, <2>1, <2>2 DEF UnlinkFirst
<1>9. cache_load' \in 0..SizeMax
  <2>1. entry[n].val \in Value
    BY <1>3 DEF State, Stored, Response
  <2>2. PICK s \in StrLen[entry[n].val] : cache_load' = (cache_load - s) % (SizeMax + 1)
    BY <1>4 DEF CountOut
  <2>3. s \in Nat /\ SizeMax \in Nat /\ cache_load \in Nat
    BY <2>1, <2>2, CacheAssumption DEF State, Stored
  <2>4. cache_load - s \in Int
    BY <2>3
  <2>. QED
    BY <2>2, <2>3, <2>4
<1>10. ThreadOK(t, K)'
  <2>1. req[t] \in Key
    BY <1>1 DEF State, ThreadOK
  <2>. QED
    BY <1>2, <1>3, <1>4, <1>5, <1>6, <2>1 DEF State, ThreadOK, Place, AfterCheck
<1>11. Keeps(t, L, K)
  <2>1. Stored' /\ fault' = "none"
    BY <1>4, <1>9 DEF State, Stored
  <2>2. \A u \in Thread \ {t} : Owns(u) => node[u] \in heap' \ K /\ node'[t] # node[u]
    BY <1>3, <1>4, <1>5 DEF State, ThreadOK
  <2>3. \A a \in heap' \ K : \/ node'[t] = a
                             \/ \E u \in Thread \ {t} : Owns(u) /\ node[u] = a
    BY <1>1, <1>4, <1>5 DEF State, Memory
  <2>4. \A a \in Addr \ K : \/ next'[a] = Null /\ prev'[a] = Null
                            \/ node'[t] = a
                            \/ \E u \in Thread \ {t} : Evicts(u) /\ node[u] = a
    BY <1>1, <1>5, <1>8 DEF State, Blank
  <2>5. K \subseteq heap'
    BY <1>2, <1>4
  <2>6. \A u \in Thread \ {t} : Uses(u) /\ node[u] \in L => node[u] \in K
    BY <1>1
  <2>. QED
    BY <1>4, <1>6, <1>7, <1>10, <2>1, <2>2, <2>3, <2>4, <2>5, <2>6 DEF Keeps
<1>. QED
  BY <1>3, <1>5, <1>11, KeepsState

(* free_node frees a node that only its thread knows of. *)
LEMMA FreeState ==
  ASSUME NEW L, State(L), NEW t \in Thread, FreeNode(t)
  PROVE  State(L)'
<1>. DEFINE n == node[t]
<1>1. pc[t] = "free" /\ Owns(t) /\ n \in heap /\ n \notin L
  BY DEF FreeNode, State, ThreadOK, Owns
<1>2. /\ Linked(L, cache_count, next, prev) /\ L \subseteq heap /\ heap \subseteq Addr
      /\ entry \in [Addr -> Response \cup {NoEntry}]
      /\ DOMAIN next = Addr \cup Dummy /\ DOMAIN prev = Addr \cup Dummy
  BY DEF State, Memory, Stored, Linked, Linkage
<1>3. /\ Free(n) /\ pc' = [pc EXCEPT ![t] = "load_test"]
      /\ UNCHANGED <<cache_count, cache_load, locals, fault>>
  BY <1>1 DEF FreeNode, Goto
<1>4. Only(t) /\ pc'[t] = "load_test"
  BY <1>3 DEF State, Locals, Only, locals
<1>5. ~Owns(t)' /\ ~Evicts(t)' /\ ~Uses(t)'
  BY <1>4 DEF Owns, Evicts, Uses
<1>6. /\ heap' = heap \ {n} /\ next'[n] = Null /\ prev'[n] = Null
      /\ \A a \in Addr \cup Dummy : a # n => next'[a] = next[a] /\ prev'[a] = prev[a]
      /\ \A a \in Addr : a # n => entry'[a] = entry[a]
      /\ entry' \in [Addr -> Response \cup {NoEntry}]
  BY <1>1, <1>2, <1>3 DEF Free
<1>7. Linked(L, cache_count', next', prev')
  <2>1. Linkage(next') /\ Linkage(prev')
    BY <1>1, <1>2, <1>3 DEF Free, Linked, Linkage
  <2>2. \A a \in L \cup Dummy : next'[a] = next[a] /\ prev'[a] = prev[a]
    BY <1>1, <1>2, <1>6, AddrAssumption
  <2>. QED
    BY <1>2, <1>3, <2>1, <2>2, Unaffected
<1>8. ThreadOK(t, L)'
  BY <1>1, <1>3, <1>4, <1>5 DEF State, ThreadOK, Place, AfterCheck, locals
<1>9. Keeps(t, L, L)
  <2>1. Stored' /\ fault' = "none"
    BY <1>2, <1>3, <1>6 DEF State, Stored
  <2>2. \A u \in Thread \ {t} : Owns(u) => node[u] \in heap' \ L /\ node[u] # n
    BY <1>1, <1>6 DEF State, ThreadOK, Memory
  <2>3. \A a \in heap' \ L : \E u \in Thread \ {t} : Owns(u) /\ node[u] = a
    BY <1>6 DEF State, Memory
  <2>4. \A a \in Addr \ L : \/ next'[a] = Null /\ prev'[a] = Null
                            \/ \E u \in Thread \ {t} : Evicts(u) /\ node[u] = a
    BY <1>6 DEF State, Blank
  <2>5. L \subseteq heap' /\ \A a \in Addr : a \in L => entry'[a] = entry[a]
    BY <1>1, <1>2, <1>6
  <2>6. \A u \in Thread \ {t} : Owns(u) => entry'[node[u]] = entry[node[u]]
    BY <1>2, <1>6, <2>2
  <2>. HIDE DEF n
  <2>. QED
    BY <1>5, <1>7, <1>8, <2>1, <2>2, <2>3, <2>4, <2>5, <2>6 DEF Keeps
<1>. QED
  BY <1>4, <1>9, KeepsState

-----------------------------------------------------------------------
(* The list is empty at first. *)
LEMMA InitState == Init => State({})
<1>. SUFFICES ASSUME Init  PROVE State({})
  OBVIOUS
<1>. DEFINE c == [i \in 0..1 |-> IF i = 0 THEN Front ELSE End]
<1>1. Linkage(next) /\ Linkage(prev) /\ cache_count = 0
  BY DEF Init, Linkage, Dummy
<1>2. Chain(c, 0, next, prev)
  <2>1. /\ c \in [0..0 + 1 -> Addr \cup Dummy] /\ c[0] = Front /\ c[0 + 1] = End
        /\ \A i \in 0..0 : i = 0
    BY DEF Dummy
  <2>2. next[Front] = End /\ prev[End] = Front /\ prev[Front] = Null /\ next[End] = Null
    BY DEF Init, Dummy, Front, End
  <2>. HIDE DEF c
  <2>. QED
    BY <2>1, <2>2 DEF Chain
<1>3. Elems(c, 0) = {}
  BY DEF Elems
<1>4. Linked({}, cache_count, next, prev)
  <2>. HIDE DEF c
  <2>. QED
    BY <1>1, <1>2, <1>3 DEF Linked
<1>5. \A a \in Addr : next[a] = Null /\ prev[a] = Null
  BY AddrAssumption DEF Init, Dummy
<1>6. Stored /\ Locals /\ fault = "none" /\ heap = {}
  BY CacheAssumption DEF Init, Stored, Locals
<1>7. \A t \in Thread : ThreadOK(t, {})
  BY DEF Init, ThreadOK, Place, AfterCheck, Owns, Uses
<1>8. \A t \in Thread : ~Owns(t)
  BY DEF Init, Owns
<1>. QED
  BY <1>4, <1>5, <1>6, <1>7, <1>8 DEF State, Memory, Blank

(* Every step of a thread, when dequeue takes nothing another one uses. *)
LEMMA StepState ==
  ASSUME NEW L, State(L), NEW t \in Thread, Safely(t), Request(t) \/ Step(t)
  PROVE  \/ State(L)'
         \/ EnqueueAppend(t) /\ \E n : n = node[t] /\ State(L \cup {n})'
         \/ DequeueUnlink(t) /\ \E n : State(L \ {n})'
<1>1. CASE Request(t)
  BY <1>1, RequestState
<1>2. CASE \/ IsCachedLock(t) \/ UpdateLock(t) \/ CheckLock(t)
           \/ EnqueueLock(t) \/ DequeueLock(t) \/ LoadTest(t)
  BY <1>2, MovesOn DEF Place, Shared, Alone, IsCachedLock, UpdateLock, CheckLock,
                       EnqueueLock, DequeueLock, LoadTest
<1>3. CASE RespondCached(t) \/ NotCacheable(t)
  BY <1>3, ReturnState DEF RespondCached, NotCacheable
<1>4. CASE IsCachedScan(t)
  BY <1>4, ScanState
<1>5. CASE UpdateRelink(t)
  BY <1>5, RelinkState
<1>6. CASE CheckAssert(t)
  BY <1>6, AssertState
<1>7. CASE IsCachedCopy(t)
  BY <1>7, CopyState
<1>8. CASE NewNode(t)
  BY <1>8, NewNodeState
<1>9. CASE EnqueueAppend(t)
  BY <1>9, AppendState
<1>10. CASE DequeueUnlink(t)
  BY <1>10, UnlinkState
<1>11. CASE FreeNode(t)
  BY <1>11, FreeState
<1>12. CASE PrintFirst(t) \/ PrintNode(t)
  BY <1>12, PrintState
<1>. QED
  BY <1>1, <1>2, <1>3, <1>4, <1>5, <1>6, <1>7, <1>8, <1>9, <1>10, <1>11, <1>12 DEF Step

-----------------------------------------------------------------------
(* The copies of a key in the list, and the threads that will add another. *)
Copies(L, k) == {a \in L : Fold[entry[a].key] = Fold[k]}
Pending(k) == {t \in Thread : pc[t] \in {"miss", "enqueue", "append"} /\ Fold[req[t]] = Fold[k]}

FewCopies(L) ==
  \A k \in Key : Cardinality(Copies(L, k)) + Cardinality(Pending(k)) <= Cardinality(Thread)

LEMMA CopiesFinite ==
  ASSUME NEW L, State(L)
  PROVE  /\ IsFiniteSet(L) /\ Cardinality(Thread) \in Nat
         /\ \A k : /\ IsFiniteSet(Copies(L, k)) /\ Cardinality(Copies(L, k)) \in Nat
                   /\ IsFiniteSet(Pending(k)) /\ Cardinality(Pending(k)) \in Nat
                   /\ Cardinality(Pending(k)) <= Cardinality(Thread)
<1>1. L \subseteq Addr
  BY ListHolds
<1>2. IsFiniteSet(L)
  BY <1>1, AddrAssumption, FS_Subset
<1>3. ASSUME NEW k
      PROVE  /\ IsFiniteSet(Copies(L, k)) /\ Cardinality(Copies(L, k)) \in Nat
             /\ IsFiniteSet(Pending(k)) /\ Cardinality(Pending(k)) \in Nat
             /\ Cardinality(Pending(k)) <= Cardinality(Thread)
  <2>1. Copies(L, k) \subseteq L /\ Pending(k) \subseteq Thread
    BY DEF Copies, Pending
  <2>. QED
    BY <1>2, <2>1, ThreadsAssumption, FS_Subset, FS_CardinalityType
<1>. QED
  BY <1>2, <1>3, ThreadsAssumption, FS_CardinalityType

(* Without a new copy or a new thread that will add one. *)
LEMMA FewerCopies ==
  ASSUME NEW L, State(L), NEW K, FewCopies(L),
         \A k \in Key : Copies(K, k)' \subseteq Copies(L, k) /\ Pending(k)' \subseteq Pending(k)
  PROVE  FewCopies(K)'
<1>. SUFFICES ASSUME NEW k \in Key
              PROVE  Cardinality(Copies(K, k)') + Cardinality(Pending(k)') <= Cardinality(Thread)
  BY DEF FewCopies
<1>1. /\ Cardinality(Copies(K, k)') \in Nat /\ Cardinality(Pending(k)') \in Nat
      /\ Cardinality(Copies(K, k)') <= Cardinality(Copies(L, k))
      /\ Cardinality(Pending(k)') <= Cardinality(Pending(k))
  BY CopiesFinite, FS_Subset, FS_CardinalityType
<1>2. Cardinality(Copies(L, k)) + Cardinality(Pending(k)) <= Cardinality(Thread)
  BY DEF FewCopies
<1>. QED
  BY <1>1, <1>2, CopiesFinite

(* A thread that misses will add a copy of a key of which there is none. *)
LEMMA MissCopies ==
  ASSUME NEW L, State(L), FewCopies(L), NEW t \in Thread, IsCachedScan(t)
  PROVE  FewCopies(L)'
<1>0. /\ Stop(Backward) = Front /\ L \subseteq heap /\ pc[t] = "scan"
      /\ \A a \in L : \E i \in Nodes(Backward) : Backward[i] = a
      /\ is_empty => L = {}
  BY Listing, Neighbours DEF State, Memory, Stored, is_empty, IsCachedScan
<1>1. /\ UNCHANGED <<entry, req>> /\ DOMAIN pc' = Thread /\ DOMAIN pc = Thread
      /\ \A u \in Thread \ {t} : pc'[u] = pc[u]
      /\ pc'[t] \in {"update", "miss"}
      /\ pc'[t] = "miss" => \A a \in L : Fold[entry[a].key] # Fold[req[t]]
  <2>1. CASE Goto(t, "scan", "update") /\ UNCHANGED <<links, req>>
    BY <2>1 DEF Goto, links, State, Locals
  <2>2. CASE /\ Goto(t, "scan", "miss") /\ UNCHANGED <<links, locals>>
             /\ is_empty \/ {i \in Nodes(Backward) : is_match(Backward[i], req[t])} = {}
    BY <1>0, <2>2 DEF Goto, links, locals, State, Locals, is_match
  <2>. QED
    BY <1>0, <2>1, <2>2 DEF IsCachedScan
<1>. SUFFICES ASSUME NEW k \in Key
              PROVE  Cardinality(Copies(L, k)') + Cardinality(Pending(k)') <= Cardinality(Thread)
  BY DEF FewCopies
<1>2. Copies(L, k)' = Copies(L, k)
  BY <1>1 DEF Copies
<1>3. CASE pc'[t] = "miss" /\ Fold[req[t]] = Fold[k]
  <2>1. Copies(L, k) = {}
    <3>1. \A a \in L : Fold[entry[a].key] # Fold[k]
      BY <1>1, <1>3
    <3>. QED
      BY <3>1, Zenon DEF Copies
  <2>2. Pending(k)' \subseteq Thread
    BY DEF Pending
  <2>3. Cardinality(Pending(k)') <= Cardinality(Thread) /\ Cardinality(Pending(k)') \in Nat
    BY <2>2, ThreadsAssumption, FS_Subset, FS_CardinalityType
  <2>. QED
    BY <1>2, <2>1, <2>3, FS_EmptySet
<1>4. CASE ~(pc'[t] = "miss" /\ Fold[req[t]] = Fold[k])
  <2>1. \A u \in Thread : u \in Pending(k)' <=> u \in Pending(k)
    <3>. TAKE u \in Thread
    <3>1. CASE u = t
      BY <1>0, <1>1, <1>4, <3>1 DEF Pending
    <3>2. CASE u # t
      BY <1>1, <3>2 DEF Pending
    <3>. QED
      BY <3>1, <3>2
  <2>2. Pending(k)' \subseteq Thread /\ Pending(k) \subseteq Thread
    BY DEF Pending
  <2>3. Pending(k)' = Pending(k)
    BY <2>1, <2>2
  <2>. QED
    BY <1>2, <2>3 DEF FewCopies
<1>. QED
  BY <1>3, <1>4

(* A thread that adds a copy will not add another before it looks again. *)
LEMMA AppendCopies ==
  ASSUME NEW L, State(L), FewCopies(L), NEW t \in Thread, EnqueueAppend(t),
         NEW n, n = node[t], State(L \cup {n})'
  PROVE  FewCopies(L \cup {n})'
<1>0. /\ pc[t] = "append" /\ n \notin L /\ entry[n].key = req[t]
      /\ DOMAIN pc = Thread /\ CheckHolds
  BY ListHolds DEF EnqueueAppend, State, Locals, ThreadOK, Owns, ListInv
<1>1. UNCHANGED <<entry, req>> /\ pc' = [pc EXCEPT ![t] = "cache_check"]
  <2>1. fault' = "none"
    BY DEF State
  <2>. QED
    BY <2>1 DEF EnqueueAppend, Goto, Crash
<1>. SUFFICES ASSUME NEW k \in Key
              PROVE  Cardinality(Copies(L \cup {n}, k)') + Cardinality(Pending(k)')
                       <= Cardinality(Thread)
  BY DEF FewCopies
<1>2. Cardinality(Copies(L, k)) + Cardinality(Pending(k)) <= Cardinality(Thread)
  BY DEF FewCopies
<1>3. CASE Fold[req[t]] = Fold[k]
  <2>1. Copies(L \cup {n}, k)' = Copies(L, k) \cup {n} /\ n \notin Copies(L, k)
    BY <1>0, <1>1, <1>3 DEF Copies
  <2>2. Pending(k)' = Pending(k) \ {t} /\ t \in Pending(k)
    BY <1>0, <1>1, <1>3 DEF Pending
  <2>3. Cardinality(Copies(L \cup {n}, k)') = Cardinality(Copies(L, k)) + 1
    BY <2>1, CopiesFinite, FS_AddElement
  <2>4. Cardinality(Pending(k)') = Cardinality(Pending(k)) - 1
    BY <2>2, CopiesFinite, FS_RemoveElement
  <2>. QED
    BY <1>2, <2>3, <2>4, CopiesFinite
<1>4. CASE Fold[req[t]] # Fold[k]
  <2>1. Copies(L \cup {n}, k)' = Copies(L, k)
    BY <1>0, <1>1, <1>4 DEF Copies
  <2>2. Pending(k)' = Pending(k)
    BY <1>0, <1>1, <1>4 DEF Pending
  <2>. QED
    BY <1>2, <2>1, <2>2
<1>. QED
  BY <1>3, <1>4

(* No step writes to a listed node's entry. *)
LEMMA EntriesKept ==
  ASSUME NEW L, State(L), NEW t \in Thread, Request(t) \/ Step(t)
  PROVE  \A a \in L : entry'[a] = entry[a]
<1>0. L \subseteq heap /\ L \subseteq Addr
  BY ListHolds DEF State, Memory
<1>1. CASE NewNode(t)
  BY <1>0, <1>1 DEF NewNode, State, Stored
<1>2. CASE FreeNode(t)
  <2>1. node[t] \notin L
    BY <1>2 DEF FreeNode, State, ThreadOK, Owns
  <2>. QED
    BY <1>0, <1>2, <2>1 DEF FreeNode, Free, Crash, links, State, Stored
<1>3. CASE ~NewNode(t) /\ ~FreeNode(t)
  BY <1>3 DEF Request, Step, IsCachedLock, IsCachedScan, UpdateLock, UpdateRelink,
       CheckLock, CheckAssert, IsCachedCopy, RespondCached, NotCacheable, EnqueueLock,
       EnqueueAppend, LoadTest, DequeueLock, DequeueUnlink, PrintFirst, PrintNode, Crash, links
<1>. QED
  BY <1>1, <1>2, <1>3

(* No other step adds a copy or a thread that will. *)
LEMMA OtherCopies ==
  ASSUME NEW L, State(L), NEW t \in Thread, Request(t) \/ Step(t), fault' = "none",
         ~IsCachedScan(t), NEW k \in Key
  PROVE  Copies(L, k)' \subseteq Copies(L, k) /\ Pending(k)' \subseteq Pending(k)
<1>0. fault = "none" /\ Locals /\ L \subseteq heap /\ L \subseteq Addr
  BY ListHolds DEF State, Memory
<1>1. \A a \in L : entry'[a] = entry[a]
  BY EntriesKept
<1>2. \A u \in Thread \ {t} : pc'[u] = pc[u] /\ req'[u] = req[u]
  BY <1>0 DEF Locals, Request, Step, IsCachedLock, UpdateLock, UpdateRelink, Goto, Return,
         CheckLock, CheckAssert, IsCachedCopy, RespondCached, NotCacheable, EnqueueLock, FreeNode,
         EnqueueAppend, LoadTest, DequeueLock, DequeueUnlink, PrintFirst, PrintNode, NewNode,
         Crash, locals
<1>3. pc'[t] \in {"miss", "enqueue", "append"} =>
        pc[t] \in {"miss", "enqueue", "append"} /\ req'[t] = req[t]
  <2>1. CASE CheckAssert(t)
    BY <1>0, <2>1 DEF Locals, CheckAssert, Goto, State, ThreadOK, AfterCheck, Crash, locals
  <2>2. CASE ~CheckAssert(t)
    BY <1>0, <2>2 DEF Locals, Request, Step, IsCachedLock, UpdateLock, UpdateRelink, Goto, Return,
         CheckLock, IsCachedCopy, RespondCached, NotCacheable, EnqueueLock, FreeNode,
         EnqueueAppend, LoadTest, DequeueLock, DequeueUnlink, PrintFirst, PrintNode, NewNode,
         Crash, locals
  <2>. QED
    BY <2>1, <2>2
<1>. QED
  BY <1>1, <1>2, <1>3 DEF Copies, Pending

-----------------------------------------------------------------------
(* The invariant: while dequeue takes nothing a thread uses, every step keeps
   the list, everybody's pointers and the number of copies of a key. *)
CacheInv == \E L : State(L) /\ FewCopies(L)

LEMMA StepKeeps ==
  ASSUME CacheInv, NEW t \in Thread, Safely(t), Request(t) \/ Step(t)
  PROVE  CacheInv'
<1>1. PICK L : State(L) /\ FewCopies(L)
  BY DEF CacheInv
<1>. SUFFICES \E K : State(K)' /\ FewCopies(K)'
  BY DEF CacheInv
<1>2. CASE State(L)' /\ IsCachedScan(t)
  BY <1>1, <1>2, MissCopies
<1>3. CASE State(L)' /\ ~IsCachedScan(t)
  <2>1. fault' = "none"
    BY <1>3 DEF State
  <2>2. \A k \in Key : Copies(L, k)' \subseteq Copies(L, k) /\ Pending(k)' \subseteq Pending(k)
    BY <1>1, <1>3, <2>1, OtherCopies
  <2>. QED
    BY <1>1, <1>3, <2>2, FewerCopies
<1>4. CASE EnqueueAppend(t) /\ \E n : n = node[t] /\ State(L \cup {n})'
  BY <1>1, <1>4, AppendCopies
<1>5. ASSUME DequeueUnlink(t), NEW n, State(L \ {n})'
      PROVE  FewCopies(L \ {n})'
  <2>1. fault' = "none"
    BY <1>5 DEF State
  <2>2. ~IsCachedScan(t)
    BY <1>5 DEF DequeueUnlink, IsCachedScan
  <2>3. \A k \in Key : Copies(L, k)' \subseteq Copies(L, k) /\ Pending(k)' \subseteq Pending(k)
    BY <1>1, <2>1, <2>2, OtherCopies
  <2>4. \A k \in Key : Copies(L \ {n}, k)' \subseteq Copies(L, k)'
    BY DEF Copies
  <2>. QED
    BY <1>1, <2>3, <2>4, FewerCopies
<1>. QED
  BY <1>1, <1>2, <1>3, <1>4, <1>5, StepState

LEMMA CacheInvInit == Init => CacheInv
<1>. SUFFICES ASSUME Init  PROVE FewCopies({})
  BY InitState DEF CacheInv
<1>1. ASSUME NEW k  PROVE Copies({}, k) = {} /\ Pending(k) = {}
  BY DEF Init, Copies, Pending
<1>2. Cardinality({}) = 0 /\ Cardinality(Thread) \in Nat
  BY ThreadsAssumption, FS_EmptySet, FS_CardinalityType
<1>3. \A k \in Key : Cardinality(Copies({}, k)) = 0 /\ Cardinality(Pending(k)) = 0
  BY <1>1, <1>2
<1>. QED
  BY <1>2, <1>3 DEF FewCopies

LEMMA StateStutters ==
  ASSUME NEW L, State(L), UNCHANGED <<links, pc, locals, fault>>
  PROVE  State(L)'
<1>1. \A t \in Thread : /\ Owns(t)' <=> Owns(t)
                        /\ Uses(t)' <=> Uses(t)
                        /\ Evicts(t)' <=> Evicts(t)
  BY DEF Owns, Uses, Evicts, locals
<1>2. /\ (fault = "none" /\ Locals /\ Stored)'
      /\ Linked(L, cache_count, next, prev)'
  BY DEF State, Locals, Stored, links, locals
<1>3. Memory(L)' /\ Blank(L)'
  BY <1>1 DEF State, Memory, Blank, links, locals
<1>4. \A t \in Thread : ThreadOK(t, L)'
  BY <1>1 DEF State, ThreadOK, links, locals
<1>. QED
  BY <1>2, <1>3, <1>4 DEF State

LEMMA CacheInvStutters ==
  ASSUME CacheInv, UNCHANGED <<links, pc, locals, fault>>
  PROVE  CacheInv'
<1>1. PICK L : State(L) /\ FewCopies(L)
  BY DEF CacheInv
<1>2. State(L)'
  BY <1>1, StateStutters
<1>3. \A k : Copies(L, k)' = Copies(L, k) /\ Pending(k)' = Pending(k)
  BY DEF Copies, Pending, links, locals
<1>4. FewCopies(L)'
  BY <1>1, <1>3 DEF FewCopies
<1>. QED
  BY <1>2, <1>4 DEF CacheInv

LEMMA CacheInvAlways == Spec /\ []EvictsUnused => []CacheInv
<1>1. CacheInv /\ EvictsUnused /\ [Next]_vars => CacheInv'
  <2>1. CacheInv /\ UNCHANGED vars => CacheInv'
    BY CacheInvStutters DEF vars
  <2>2. CacheInv /\ EvictsUnused /\ Next => CacheInv'
    BY StepKeeps DEF Next, EvictsUnused, Safely
  <2>. QED
    BY <2>1, <2>2
<1>. QED
  BY CacheInvInit, <1>1, PTL DEF Spec

(* What the invariant means for what the runs check. *)
LEMMA InvCounts == CacheInv => ListInv /\ NoLeak /\ NoFault /\ HitServesKey /\ CopiesBounded
<1>. SUFFICES ASSUME CacheInv
              PROVE  ListInv /\ NoLeak /\ NoFault /\ HitServesKey /\ CopiesBounded
  OBVIOUS
<1>1. PICK L : State(L) /\ FewCopies(L)
  BY DEF CacheInv
<1>2. Listed = L /\ ListInv
  BY <1>1, ListHolds
<1>3. NoLeak
  <2>1. \A a \in Owned : a \in heap \ L
    BY <1>1 DEF State, ThreadOK, Owned
  <2>2. \A a \in heap \ L : a \in Owned
    BY <1>1 DEF State, Memory, Owned
  <2>3. L \subseteq heap
    BY <1>1 DEF State, Memory
  <2>4. \A t, u \in Thread : Owns(t) /\ Owns(u) /\ t # u => node[t] # node[u]
    BY <1>1 DEF State, Memory
  <2>. QED
    BY <1>2, <2>1, <2>2, <2>3, <2>4 DEF NoLeak
<1>4. NoFault /\ HitServesKey
  BY <1>1 DEF State, NoFault, HitServesKey, ThreadOK
<1>5. CopiesBounded
  <2>. SUFFICES ASSUME NEW k \in Key  PROVE Cardinality(Copies(L, k)) <= Cardinality(Thread)
    BY <1>2 DEF CopiesBounded, Copies
  <2>1. Cardinality(Copies(L, k)) + Cardinality(Pending(k)) <= Cardinality(Thread)
    BY <1>1 DEF FewCopies
  <2>. QED
    BY <1>1, <2>1, CopiesFinite
<1>. QED
  BY <1>2, <1>3, <1>4, <1>5

(* The lock's holders are threads. *)
LockTypes == readers \subseteq Thread /\ writer \subseteq Thread

LEMMA LockTyped == Spec => []LockTypes
<1>1. Init => LockTypes
  BY DEF Init, LockTypes
<1>2. LockTypes /\ [Next]_vars => LockTypes'
  BY DEF LockTypes, Next, vars, lock, Request, Step, IsCachedLock, IsCachedScan, UpdateLock,
         UpdateRelink, CheckLock, CheckAssert, IsCachedCopy, RespondCached, NewNode,
         NotCacheable, EnqueueLock, EnqueueAppend, LoadTest, DequeueLock, DequeueUnlink,
         FreeNode, PrintFirst, PrintNode, AcquireRead, ReleaseRead, AcquireWrite,
         ReleaseWrite, Crash
<1>. QED
  BY <1>1, <1>2, PTL DEF Spec

LEMMA InvTypes == CacheInv /\ LockTypes => TypeOK
<1>. SUFFICES ASSUME CacheInv, LockTypes  PROVE TypeOK
  OBVIOUS
<1>1. PICK L : State(L)
  BY DEF CacheInv
<1>2. /\ next \in [Addr \cup Dummy -> Addr \cup Dummy \cup {Null}]
      /\ prev \in [Addr \cup Dummy -> Addr \cup Dummy \cup {Null}]
  BY <1>1 DEF State, Linked, Linkage
<1>3. cache_count \in Nat
  BY <1>1, ListHolds
<1>. QED
  BY <1>1, <1>2, <1>3 DEF State, Stored, Response, Locals, LockTypes, TypeOK

-----------------------------------------------------------------------
(* As long as dequeue takes no node that another thread has left the lock with,
   every pointer is to a node or a dummy, and the count and the load are numbers
   in range (cache.c:13-16, 77-126). *)
THEOREM TypesHold == Spec /\ []EvictsUnused => []TypeOK
  BY CacheInvAlways, LockTyped, InvTypes, PTL

(* As long as dequeue takes no node that another thread has left the lock with,
   every allocated node is in the list or one thread's own: the eviction loop
   frees what it unlinks, once (cache.c:119-125). *)
THEOREM NothingLeaks == Spec /\ []EvictsUnused => []NoLeak
  BY CacheInvAlways, InvCounts, PTL

(* As long as dequeue takes no node that another thread has left the lock with,
   a key has at most one node per thread: those that missed it together
   (proxy-module.c:43-64). *)
THEOREM OneCopyPerThread == Spec /\ []EvictsUnused => []CopiesBounded
  BY CacheInvAlways, InvCounts, PTL

-----------------------------------------------------------------------
(* While there is too much in the cache a thread is on its way to see it, or
   the process has failed. *)
Adds(t) == \/ pc[t] \in {"load_test", "dequeue", "unlink", "free", "crashed"}
           \/ pc[t] \in {"cache_check", "assert"} /\ ret[t] \in {"load_test", "free"}

Seen == /\ DOMAIN pc = Thread /\ DOMAIN ret = Thread
        /\ cache_load > MaxCacheSize => \E t \in Thread : Adds(t)

LEMMA SeenStep ==
  ASSUME Seen, NEW t \in Thread, Request(t) \/ Step(t)
  PROVE  Seen'
<1>1. ASSUME NEW kind, Crash(t, kind)  PROVE Seen'
  BY <1>1 DEF Seen, Crash, locals, Adds
<1>2. CASE LoadTest(t)
  <2>1. /\ pc[t] = "load_test" /\ DOMAIN pc' = Thread
        /\ \A u \in Thread \ {t} : pc'[u] = pc[u]
        /\ pc'[t] = IF cache_load > MaxCacheSize THEN "dequeue" ELSE "print"
        /\ ret' = ret /\ cache_load' = cache_load
    BY <1>2 DEF LoadTest, Goto, Seen, locals, links
  <2>. QED
    BY <2>1 DEF Seen, Adds
<1>3. CASE EnqueueAppend(t)
  <2>. SUFFICES ASSUME /\ pc' = [pc EXCEPT ![t] = "cache_check"]
                       /\ ret' = [ret EXCEPT ![t] = "load_test"]
                PROVE  Seen'
    BY <1>1, <1>3 DEF EnqueueAppend, Goto
  <2>. QED
    BY DEF Seen, Adds
<1>4. CASE DequeueUnlink(t)
  <2>1. CASE pc' = [pc EXCEPT ![t] = "free"] /\ ret' = ret
    BY <2>1 DEF Seen, Adds
  <2>2. CASE pc' = [pc EXCEPT ![t] = "cache_check"] /\ ret' = [ret EXCEPT ![t] = "free"]
    BY <2>2 DEF Seen, Adds
  <2>. QED
    BY <1>1, <1>4, <2>1, <2>2 DEF DequeueUnlink, Goto
<1>5. ASSUME DOMAIN pc' = Thread, DOMAIN ret' = Thread, cache_load' = cache_load,
             \A u \in Thread \ {t} : pc'[u] = pc[u] /\ ret'[u] = ret[u], Adds(t) => Adds(t)'
      PROVE  Seen'
  BY <1>5 DEF Seen, Adds
<1>6. CASE CheckAssert(t)
  <2>. SUFFICES ASSUME pc[t] = "assert", pc' = [pc EXCEPT ![t] = ret[t]], ret' = ret,
                       cache_load' = cache_load
                PROVE  Seen'
    BY <1>1, <1>6 DEF CheckAssert, Goto, locals, links
  <2>1. Adds(t) => Adds(t)'
    BY DEF Adds, Seen
  <2>. QED
    BY <1>5, <2>1 DEF Seen
<1>7. CASE Request(t)
  <2>1. Adds(t) => Adds(t)'
    BY <1>7 DEF Request, Goto, Adds
  <2>. QED
    BY <1>5, <1>7, <2>1 DEF Seen, Request, Goto, links
<1>8. CASE RespondCached(t) \/ NotCacheable(t)
  <2>1. Adds(t) => Adds(t)'
    BY <1>8 DEF RespondCached, NotCacheable, Adds
  <2>. QED
    BY <1>5, <1>8, <2>1 DEF Seen, RespondCached, NotCacheable, Return, links
<1>9. CASE \/ IsCachedLock(t) \/ UpdateLock(t) \/ CheckLock(t) \/ EnqueueLock(t)
           \/ DequeueLock(t) \/ NewNode(t) \/ PrintFirst(t)
  <2>1. /\ ret' = ret /\ cache_load' = cache_load
        /\ \E from, to \in Place : Goto(t, from, to) /\ <<from, to>> \in
             {<<"is_cached", "scan">>, <<"update", "relink">>, <<"cache_check", "assert">>,
              <<"enqueue", "append">>, <<"dequeue", "unlink">>, <<"miss", "enqueue">>,
              <<"print", "walk">>}
    BY <1>9 DEF IsCachedLock, UpdateLock, CheckLock, EnqueueLock, DequeueLock, NewNode,
                PrintFirst, Goto, Place, Shared, Alone, locals, links
  <2>. QED
    BY <2>1 DEF Goto, Seen, Adds
<1>10. CASE IsCachedScan(t)
  <2>. SUFFICES ASSUME NEW to \in {"update", "miss"}, Goto(t, "scan", to), ret' = ret,
                       cache_load' = cache_load
                PROVE  Seen'
    BY <1>1, <1>10 DEF IsCachedScan, locals, links
  <2>. QED
    BY <1>5 DEF Goto, Seen, Adds
<1>11. CASE UpdateRelink(t)
  <2>. SUFFICES ASSUME pc[t] = "relink", pc' = [pc EXCEPT ![t] = "cache_check"],
                       ret' = [ret EXCEPT ![t] = "copy"], cache_load' = cache_load
                PROVE  Seen'
    BY <1>1, <1>11 DEF UpdateRelink, Goto
  <2>. QED
    BY <1>5 DEF Seen, Adds
<1>12. CASE IsCachedCopy(t)
  <2>. SUFFICES ASSUME Goto(t, "copy", "respond"), ret' = ret, cache_load' = cache_load
                PROVE  Seen'
    BY <1>1, <1>12 DEF IsCachedCopy, links
  <2>. QED
    BY <1>5 DEF Goto, Seen, Adds
<1>13. CASE FreeNode(t)
  <2>. SUFFICES ASSUME Goto(t, "free", "load_test"), ret' = ret, cache_load' = cache_load
                PROVE  Seen'
    BY <1>1, <1>13 DEF FreeNode, locals
  <2>. QED
    BY <1>5 DEF Goto, Seen, Adds
<1>14. CASE PrintNode(t)
  <2>1. CASE pc[t] = "walk" /\ Return(t) /\ UNCHANGED links
    BY <1>5, <2>1 DEF Return, Seen, Adds, links
  <2>2. CASE UNCHANGED <<links, pc, ret>>
    BY <1>5, <2>2 DEF Seen, Adds, links
  <2>. QED
    BY <1>1, <1>14, <2>1, <2>2 DEF PrintNode
<1>. QED
  BY <1>2, <1>3, <1>4, <1>6, <1>7, <1>8, <1>9, <1>10, <1>11, <1>12, <1>13, <1>14 DEF Step

(* Whatever threads do to each other, once every add_cache has returned the
   cache is within its capacity: each of them leaves its loop only when it finds
   it so (cache.c:119-125), and one that enqueues is in the loop after.  All it
   takes of the load is that it is a size_t, also when it was counted down by
   the length of a node that another thread had freed. *)
THEOREM WithinCapacity == Spec /\ [](cache_load \in 0..SizeMax) => []CapacityRestored
<1>1. Init => Seen
  BY CacheAssumption DEF Init, Seen
<1>2. Seen /\ [Next]_vars => Seen'
  <2>1. Seen /\ UNCHANGED vars => Seen'
    BY DEF Seen, Adds, vars, links, locals
  <2>. QED
    BY <2>1, SeenStep DEF Next
<1>3. Seen /\ cache_load \in 0..SizeMax => CapacityRestored
  <2>. SUFFICES ASSUME Seen, cache_load \in 0..SizeMax, \A t \in Thread : pc[t] = "idle"
                PROVE  cache_load <= MaxCacheSize
    BY DEF CapacityRestored
  <2>1. ~(cache_load > MaxCacheSize)
    BY DEF Seen, Adds
  <2>. QED
    BY <2>1, CacheAssumption
<1>. QED
  BY <1>1, <1>2, <1>3, PTL DEF Spec

-----------------------------------------------------------------------
(* The entries along the chain are the queue of LruCache. *)
Runs(c, L) == Chain(c, cache_count, next, prev) /\ Elems(c, cache_count) = L

ReadsInOrder ==
  \A c, L : State(L) /\ Runs(c, L) => Contents = [i \in 1..cache_count |-> entry[c[i]]]

LEMMA ContentsOrder == ReadsInOrder
<1>. SUFFICES ASSUME NEW c, NEW L, State(L), Runs(c, L)
              PROVE  \A i \in 1..cache_count : Forward[i - 1] = c[i]
  BY DEF ReadsInOrder, Contents
<1>. DEFINE C == Cardinality(Addr)
<1>1. /\ Chain(c, cache_count, next, prev) /\ Elems(c, cache_count) \subseteq heap
      /\ heap \subseteq Addr
  BY DEF Runs, State, Memory, Stored
<1>2. cache_count \in Nat /\ cache_count <= C /\ C \in Nat
  BY <1>1, ChainLength, AddrAssumption, FS_CardinalityType
<1>3. \A i \in 0..C : Forward[i] = IF i <= cache_count THEN c[i + 1] ELSE End
  BY <1>1, Loops DEF C
<1>. HIDE DEF C
<1>. TAKE i \in 1..cache_count
<1>4. i - 1 \in 0..C /\ i - 1 <= cache_count /\ i - 1 + 1 = i
  BY <1>2
<1>. QED
  BY <1>3, <1>4

LEMMA ChainExists ==
  ASSUME NEW L, State(L)
  PROVE  /\ \E c : Runs(c, L)
         /\ Linkage(next) /\ Linkage(prev) /\ cache_count \in Nat
  BY ListHolds DEF State, Linked, Runs

(* The entries that a chain runs through. *)
LEMMA OrderIs ==
  ASSUME NEW L, State(L), NEW c, Runs(c, L), ReadsInOrder
  PROVE  /\ cache_count \in Nat /\ Contents \in Seq(Response) /\ Len(Contents) = cache_count
         /\ \A i \in 1..cache_count : c[i] \in L /\ Contents[i] = entry[c[i]]
<1>1. cache_count \in Nat /\ Contents = [i \in 1..cache_count |-> entry[c[i]]]
  BY ListHolds DEF ReadsInOrder
<1>2. \A i \in 1..cache_count : c[i] \in L /\ entry[c[i]] \in Response
  BY DEF Runs, Elems, State, Memory, Stored
<1>. QED
  BY <1>1, <1>2

(* A step that leaves the links of the list. *)
LEMMA SameContents ==
  ASSUME NEW L, State(L), State(L)', ReadsInOrder, ReadsInOrder', cache_count' = cache_count,
         \A a \in L : entry'[a] = entry[a],
         \A a \in L \cup Dummy : next'[a] = next[a] /\ prev'[a] = prev[a]
  PROVE  Contents' = Contents
<1>1. PICK c : Runs(c, L)
  BY ChainExists
<1>2. Chain(c, cache_count, next', prev')
  BY <1>1, SameChain DEF Runs
<1>3. Runs(c, L)'
  BY <1>1, <1>2 DEF Runs
<1>4. Contents = [i \in 1..cache_count |-> entry[c[i]]]
  BY <1>1 DEF ReadsInOrder
<1>5. Contents' = [i \in 1..cache_count |-> entry'[c[i]]]
  BY <1>3 DEF ReadsInOrder
<1>6. \A i \in 1..cache_count : c[i] \in L
  BY <1>1 DEF Runs, Elems
<1>. QED
  BY <1>4, <1>5, <1>6

(* Sequences with an element more, without the first one, and with one of
   them moved to the end. *)
LEMMA AppendedSeq ==
  ASSUME NEW S, NEW s \in Seq(S), NEW x \in S, NEW u \in Seq(S),
         Len(u) = Len(s) + 1, u[Len(s) + 1] = x, \A i \in 1..Len(s) : u[i] = s[i]
  PROVE  u = Append(s, x)
  OBVIOUS

LEMMA TailSeq ==
  ASSUME NEW S, NEW s \in Seq(S), NEW u \in Seq(S), Len(s) > 0,
         Len(u) = Len(s) - 1, \A i \in 1..Len(u) : u[i] = s[i + 1]
  PROVE  u = Tail(s)
  OBVIOUS

LEMMA MovedSeq ==
  ASSUME NEW S, NEW s \in Seq(S), NEW k \in 1..Len(s), NEW u \in Seq(S), Len(u) = Len(s),
         \A i \in 1..Len(s) : u[i] = IF i < k THEN s[i]
                                    ELSE IF i < Len(s) THEN s[i + 1] ELSE s[k]
  PROVE  u = Append(SubSeq(s, 1, k - 1) \o SubSeq(s, k + 1, Len(s)), s[k])
<1>. DEFINE a == SubSeq(s, 1, k - 1)
            b == SubSeq(s, k + 1, Len(s))
            r == a \o b
<1>1. Len(s) \in Nat /\ k \in Nat /\ s[k] \in S
  BY LenProperties
<1>2. a \in Seq(S) /\ Len(a) = k - 1 /\ \A i \in 1..k - 1 : a[i] = s[i]
  BY <1>1
<1>3. b \in Seq(S) /\ Len(b) = Len(s) - k /\ \A i \in 1..Len(s) - k : b[i] = s[k + i]
  BY <1>1
<1>. HIDE DEF a, b
<1>4. r \in Seq(S) /\ Len(r) = Len(s) - 1
  BY <1>1, <1>2, <1>3, ConcatProperties
<1>5. \A i \in 1..Len(s) - 1 : r[i] = IF i < k THEN s[i] ELSE s[i + 1]
  <2>. TAKE i \in 1..Len(s) - 1
  <2>1. CASE i < k
    <3>1. i \in 1..Len(a) /\ i \in 1..k - 1
      BY <1>1, <1>2, <2>1
    <3>. QED
      BY <1>2, <1>3, <2>1, <3>1, ConcatAt
  <2>2. CASE ~(i < k)
    <3>. DEFINE j == i - (k - 1)
    <3>1. j \in 1..Len(b) /\ Len(a) + j = i /\ k + j = i + 1
      BY <1>1, <1>2, <1>3, <2>2
    <3>. HIDE DEF j
    <3>2. r[Len(a) + j] = b[j]
      BY <1>2, <1>3, <3>1, ConcatAt
    <3>. QED
      BY <1>3, <2>2, <3>1, <3>2
  <2>. QED
    BY <2>1, <2>2
<1>. HIDE DEF r
<1>6. \A i \in 1..Len(r) : u[i] = r[i]
  <2>. TAKE i \in 1..Len(r)
  <2>1. i \in 1..Len(s) /\ i \in 1..Len(s) - 1 /\ i < Len(s)
    BY <1>1, <1>4
  <2>. QED
    BY <1>5, <2>1
<1>7. Len(u) = Len(r) + 1 /\ u[Len(r) + 1] = s[k]
  <2>1. Len(s) \in 1..Len(s) /\ ~(Len(s) < k)
    BY <1>1
  <2>. QED
    BY <1>1, <1>4, <2>1
<1>8. u = Append(r, s[k])
  BY <1>1, <1>4, <1>6, <1>7, AppendedSeq
<1>. QED
  BY <1>8 DEF r, a, b

(* enqueue is an Add: the new node is the last one. *)
LEMMA AppendLru ==
  ASSUME NEW L, State(L), NEW t \in Thread, EnqueueAppend(t), NEW n, n = node[t],
         State(L \cup {n})', ReadsInOrder, ReadsInOrder', NEW m, m = cache_count
  PROVE  Contents' = Append(Contents, entry[n]) /\ entry[n] \in Response
<1>1. PICK c : Runs(c, L)
  BY ChainExists
<1>2. n \in heap \ L /\ n \in Addr \ L /\ entry[n] \in Response /\ pc[t] = "append"
  BY DEF EnqueueAppend, State, ThreadOK, Owns, Stored
<1>3. LinkLast(n) /\ cache_count' = cache_count + 1 /\ entry' = entry
  <2>1. fault' = "none"
    BY DEF State
  <2>. QED
    BY <2>1 DEF EnqueueAppend, CountIn, Crash
<1>4. next' = LinkedIn(next, prev, n) /\ prev' = LinkedBack(prev, n)
  BY <1>3 DEF LinkLast, LinkedIn, LinkedBack
<1>0. PICK e : e = Extended(c, m, n)
  OBVIOUS
<1>5. Chain(e, m + 1, next', prev') /\ Elems(e, m + 1) = L \cup {n}
  <2>1. Linkage(next) /\ Linkage(prev) /\ Chain(c, m, next, prev) /\ L = Elems(c, m)
    BY <1>1, ChainExists DEF Runs
  <2>. QED
    BY <1>0, <1>2, <1>4, <2>1, Appended
<1>6. /\ m \in Nat /\ Contents \in Seq(Response) /\ Len(Contents) = m
      /\ \A i \in 1..m : Contents[i] = entry[c[i]]
  BY <1>1, OrderIs
<1>7. /\ \A i \in 1..m : e[i] = c[i]
      /\ e[m + 1] = n
  BY <1>0, <1>6 DEF Extended
<1>8. Contents' = [i \in 1..m + 1 |-> entry[e[i]]]
  <2>1. Runs(e, L \cup {n})'
    BY <1>3, <1>5 DEF Runs
  <2>. QED
    BY <1>3, <2>1 DEF ReadsInOrder
<1>9. \A i \in 1..m + 1 : entry[e[i]] \in Response
  <2>1. \A i \in 1..m + 1 : i = m + 1 \/ i \in 1..m
    BY <1>6
  <2>2. \A i \in 1..m : Contents[i] \in Response
    BY <1>6
  <2>. QED
    BY <1>2, <1>6, <1>7, <2>1, <2>2
<1>10. /\ Contents' \in Seq(Response) /\ Len(Contents') = m + 1
       /\ Contents'[m + 1] = entry[n] /\ \A i \in 1..m : Contents'[i] = Contents[i]
  BY <1>6, <1>7, <1>8, <1>9
<1>. QED
  BY <1>2, <1>6, <1>10, AppendedSeq

(* dequeue takes the first entry. *)
LEMMA UnlinkLru ==
  ASSUME NEW L, State(L), NEW t \in Thread, Safely(t), DequeueUnlink(t),
         NEW n, n = next[Front], State(L \ {n})', ReadsInOrder, ReadsInOrder',
         NEW m, m = cache_count
  PROVE  Contents' = Tail(Contents)
<1>1. PICK c : Runs(c, L)
  BY ChainExists
<1>2. /\ m \in Nat /\ Chain(c, m, next, prev) /\ L = Elems(c, m)
      /\ Linkage(next) /\ Linkage(prev)
  BY <1>1, ChainExists DEF Runs
<1>3. c[1] = n /\ prev[n] = Front /\ c[0] = Front /\ c[m + 1] = End /\ prev[End] = c[m]
  <2>1. 0 \in 0..m /\ m \in 0..m /\ 0 + 1 = 1
    BY <1>2
  <2>2. next[c[0]] = c[0 + 1] /\ prev[c[0 + 1]] = c[0] /\ prev[c[m + 1]] = c[m]
    BY <1>2, <2>1 DEF Chain
  <2>. QED
    BY <1>2, <2>1, <2>2 DEF Chain
<1>4. pc[t] = "unlink" /\ ~is_empty
  BY DEF DequeueUnlink, Safely, Apart
<1>5. m > 0
  <2>. SUFFICES ASSUME m = 0  PROVE FALSE
    BY <1>2
  <2>1. next[Front] = End /\ prev[End] = Front
    BY <1>3
  <2>. QED
    BY <1>4, <2>1 DEF is_empty
<1>6. UnlinkFirst(n) /\ cache_count' = cache_count - 1 /\ entry' = entry
  <2>1. fault' = "none"
    BY DEF State
  <2>. QED
    BY <1>4, <2>1 DEF DequeueUnlink, CountOut, Crash
<1>7. next' = CutOut(next, prev, n) /\ prev' = CutOut(prev, next, n)
  BY <1>3, <1>6 DEF UnlinkFirst, CutOut
<1>0. PICK e : e = Dropped(c, m, 1)
  OBVIOUS
<1>8. Chain(e, m - 1, next', prev') /\ Elems(e, m - 1) = L \ {n}
  <2>1. 1 \in 1..m
    BY <1>2, <1>5
  <2>. QED
    BY <1>0, <1>2, <1>3, <1>7, <2>1, Unlinked
<1>9. /\ Contents \in Seq(Response) /\ Len(Contents) = m
      /\ \A i \in 1..m : Contents[i] = entry[c[i]]
  BY <1>1, OrderIs
<1>10. \A i \in 1..m - 1 : e[i] = c[i + 1]
  BY <1>0, <1>2 DEF Dropped
<1>11. Contents' = [i \in 1..m - 1 |-> entry[e[i]]]
  <2>1. Runs(e, L \ {n})'
    BY <1>6, <1>8 DEF Runs
  <2>. QED
    BY <1>6, <2>1 DEF ReadsInOrder
<1>12. \A i \in 1..m - 1 : entry[e[i]] \in Response /\ entry[e[i]] = Contents[i + 1]
  <2>1. \A i \in 1..m - 1 : i + 1 \in 1..m
    BY <1>2
  <2>2. \A i \in 1..m : Contents[i] \in Response
    BY <1>9
  <2>. QED
    BY <1>9, <1>10, <2>1, <2>2
<1>13. m - 1 \in Nat
  BY <1>2, <1>5
<1>14. /\ Contents' \in Seq(Response) /\ Len(Contents') = m - 1
       /\ \A i \in 1..m - 1 : Contents'[i] = Contents[i + 1]
  BY <1>11, <1>12, <1>13
<1>. QED
  BY <1>2, <1>5, <1>9, <1>14, TailSeq

(* update moves the entry of a node to the end. *)
LEMMA RelinkLru ==
  ASSUME NEW L, State(L), NEW t \in Thread, UpdateRelink(t), State(L)',
         ReadsInOrder, ReadsInOrder', NEW m, m = cache_count
  PROVE  \E k \in 1..Len(Contents) :
           /\ Contents[k] = entry[node[t]]
           /\ Contents' = Append(SubSeq(Contents, 1, k - 1)
                                   \o SubSeq(Contents, k + 1, Len(Contents)), Contents[k])
<1>1. PICK c : Runs(c, L)
  BY ChainExists
<1>. DEFINE s == Contents
<1>2. /\ m \in Nat /\ Chain(c, m, next, prev) /\ L = Elems(c, m)
      /\ Linkage(next) /\ Linkage(prev)
  BY <1>1, ChainExists DEF Runs
<1>3. /\ s \in Seq(Response) /\ Len(s) = m
      /\ \A i \in 1..m : s[i] = entry[c[i]]
  BY <1>1, OrderIs
<1>4. node[t] \in L
  BY DEF UpdateRelink, State, ThreadOK, Uses
<1>5. PICK k \in 1..m : node[t] = c[k]
  BY <1>2, <1>4 DEF Elems
<1>6. MoveLast(node[t]) /\ cache_count' = cache_count /\ entry' = entry
  <2>1. fault' = "none"
    BY DEF State
  <2>. QED
    BY <2>1 DEF UpdateRelink, Crash
<1>0. PICK e : e = Extended(Dropped(c, m, k), m - 1, c[k])
  OBVIOUS
<1>7. Chain(e, m, next', prev') /\ Elems(e, m) = L
  BY <1>0, <1>2, <1>5, <1>6, Relinked
<1>8. \A i \in 1..m : e[i] = IF i < k THEN c[i] ELSE IF i < m THEN c[i + 1] ELSE c[k]
  <2>. DEFINE d == Dropped(c, m, k)
  <2>1. \A i \in 0..m : d[i] = IF i < k THEN c[i] ELSE c[i + 1]
    BY DEF Dropped
  <2>2. \A i \in 1..m : e[i] = IF i <= m - 1 THEN d[i] ELSE c[k]
    <3>. HIDE DEF d
    <3>1. \A i \in 1..m : i \in 0..m - 1 + 2 /\ (i = m - 1 + 1 \/ i <= m - 1)
      BY <1>2
    <3>. QED
      BY <1>0, <3>1 DEF Extended, d
  <2>3. \A i \in 1..m : i \in 0..m /\ (i <= m - 1 <=> i < m) /\ (~(i < m) => ~(i < k))
    BY <1>2
  <2>. HIDE DEF d
  <2>. QED
    BY <2>1, <2>2, <2>3
<1>9. Contents' = [i \in 1..m |-> entry[e[i]]]
  <2>1. Runs(e, L)'
    BY <1>6, <1>7 DEF Runs
  <2>. QED
    BY <1>6, <2>1 DEF ReadsInOrder
<1>10. \A i \in 1..m : entry[e[i]] = IF i < k THEN s[i] ELSE IF i < m THEN s[i + 1] ELSE s[k]
  <2>1. \A i \in 1..m : i < m => i + 1 \in 1..m
    BY <1>2
  <2>. QED
    BY <1>3, <1>8, <2>1
<1>11. \A i \in 1..m : entry[e[i]] \in Response
  <2>1. \A i \in 1..m : i < m => i + 1 \in 1..m
    BY <1>2
  <2>2. \A i \in 1..m : s[i] \in Response
    BY <1>3
  <2>. QED
    BY <1>10, <2>1, <2>2
<1>12. /\ Contents' \in Seq(Response) /\ Len(Contents') = m
       /\ \A i \in 1..m : Contents'[i] = IF i < k THEN s[i]
                                          ELSE IF i < m THEN s[i + 1] ELSE s[k]
  BY <1>2, <1>9, <1>10, <1>11
<1>13. Contents' = Append(SubSeq(s, 1, k - 1) \o SubSeq(s, k + 1, Len(s)), s[k])
  <2>1. k \in 1..Len(s) /\ s \in Seq(Response)
    BY <1>3
  <2>2. /\ Contents' \in Seq(Response) /\ Len(Contents') = Len(s)
        /\ \A i \in 1..Len(s) : Contents'[i] = IF i < k THEN s[i]
                                              ELSE IF i < Len(s) THEN s[i + 1] ELSE s[k]
    BY <1>3, <1>12
  <2>. HIDE DEF s
  <2>. QED
    BY <2>1, <2>2, MovedSeq
<1>. QED
  BY <1>3, <1>5, <1>13

(* What a thread answers with is its own business. *)
Answer(u) == IF pc[u] = "respond" THEN out[u]
             ELSE IF Serves(u) THEN entry[node[u]] ELSE NoEntry

LEMMA StepOnly ==
  ASSUME NEW L, State(L), NEW t \in Thread, Request(t) \/ Step(t), fault' = "none"
  PROVE  Only(t)
<1>1. Locals /\ fault = "none"
  BY DEF State
<1>. QED
  BY <1>1 DEF Only, Locals, Request, Step, IsCachedLock, IsCachedScan, UpdateLock, UpdateRelink,
       CheckLock, CheckAssert, IsCachedCopy, RespondCached, NotCacheable, EnqueueLock, FreeNode,
       EnqueueAppend, LoadTest, DequeueLock, DequeueUnlink, PrintFirst, PrintNode, NewNode,
       Goto, Return, Crash, locals

LEMMA OthersAnswer ==
  ASSUME NEW L, State(L), NEW t \in Thread, Request(t) \/ Step(t), fault' = "none"
  PROVE  /\ \A u \in Thread \ {t} : Answer(u)' = Answer(u)
         /\ Served = [u \in Thread |-> Answer(u)]
         /\ Served' = [u \in Thread |-> Answer(u)']
         /\ Answer(t)' = Answer(t) => Served' = Served
<1>1. Only(t) /\ \A a \in L : entry'[a] = entry[a]
  BY StepOnly, EntriesKept
<1>2. ASSUME NEW u \in Thread \ {t}  PROVE Answer(u)' = Answer(u)
  <2>1. /\ pc'[u] = pc[u] /\ ret'[u] = ret[u] /\ node'[u] = node[u] /\ out'[u] = out[u]
        /\ Serves(u)' <=> Serves(u)
    BY <1>1 DEF Only, Serves
  <2>2. Serves(u) => node[u] \in L
    BY DEF Serves, State, ThreadOK, Uses
  <2>. QED
    BY <1>1, <2>1, <2>2 DEF Answer
<1>3. Served = [u \in Thread |-> Answer(u)] /\ Served' = [u \in Thread |-> Answer(u)']
  BY DEF Served, Answer
<1>4. ASSUME Answer(t)' = Answer(t)  PROVE Served' = Served
  <2>1. \A u \in Thread : Answer(u)' = Answer(u)
    BY <1>2, <1>4
  <2>. QED
    BY <1>3, <2>1
<1>. QED
  BY <1>2, <1>3, <1>4

Needed(t) == pc[t] = "unlink" => Abstract!Load(Contents) + Slack > MaxCacheSize

LEMMA StepLru ==
  ASSUME NEW L, State(L), NEW t \in Thread, Safely(t), Needed(t), Request(t) \/ Step(t),
         ReadsInOrder, ReadsInOrder'
  PROVE  Abstract!Next \/ UNCHANGED <<Contents, Served>>
<1>0. pc[t] \in Place /\ fault = "none" /\ DOMAIN pc = Thread /\ DOMAIN ret = Thread
      /\ DOMAIN out = Thread /\ DOMAIN node = Thread
  BY DEF State, ThreadOK, Locals
<1>1. CASE EnqueueAppend(t)
  <2>1. PICK n : n = node[t]
    OBVIOUS
  <2>2. State(L \cup {n})'
    BY <1>1, <2>1, AppendState
  <2>3. Contents' = Append(Contents, entry[n]) /\ entry[n] \in Response
    BY <1>1, <2>1, <2>2, AppendLru
  <2>4. fault' = "none"
    BY <2>2 DEF State
  <2>5. Answer(t)' = NoEntry /\ Answer(t) = NoEntry
    BY <1>0, <1>1, <2>4 DEF EnqueueAppend, Goto, Crash, Answer, Serves
  <2>6. Served' = Served
    BY <2>4, <2>5, OthersAnswer
  <2>7. Abstract!Add
    BY <2>3, <2>6 DEF Abstract!Add, Abstract!Entry, Response
  <2>. QED
    BY <2>7 DEF Abstract!Next
<1>2. CASE DequeueUnlink(t)
  <2>1. PICK n : n = next[Front]
    OBVIOUS
  <2>2. State(L \ {n})'
    BY <1>2, <2>1, UnlinkState
  <2>3. Contents' = Tail(Contents)
    BY <1>2, <2>1, <2>2, UnlinkLru
  <2>4. fault' = "none"
    BY <2>2 DEF State
  <2>5. Answer(t)' = NoEntry /\ Answer(t) = NoEntry
    BY <1>0, <1>2, <2>4 DEF DequeueUnlink, Safely, Apart, Goto, Crash, Answer, Serves
  <2>6. Served' = Served
    BY <2>4, <2>5, OthersAnswer
  <2>7. Abstract!Load(Contents) + Slack > MaxCacheSize
    BY <1>2 DEF DequeueUnlink, Needed
  <2>8. Abstract!Evict
    BY <2>3, <2>6, <2>7 DEF Abstract!Evict
  <2>. QED
    BY <2>8 DEF Abstract!Next
<1>3. CASE ~EnqueueAppend(t) /\ ~DequeueUnlink(t)
  <2>0. State(L)' /\ fault' = "none"
    <3>1. State(L)'
      BY <1>3, StepState
    <3>. QED
      BY <3>1 DEF State
  <2>1. CASE UpdateRelink(t)
    <3>1. PICK k \in 1..Len(Contents) :
            /\ Contents[k] = entry[node[t]]
            /\ Contents' = Append(SubSeq(Contents, 1, k - 1)
                                    \o SubSeq(Contents, k + 1, Len(Contents)), Contents[k])
      BY <2>0, <2>1, RelinkLru
    <3>2. Answer(t) = NoEntry /\ Answer(t)' = Contents[k]
      BY <1>0, <2>0, <2>1, <3>1 DEF UpdateRelink, Goto, Crash, Answer, Serves
    <3>3. Served[t] = NoEntry /\ Served' = [Served EXCEPT ![t] = Contents[k]]
      BY <2>0, <3>2, OthersAnswer
    <3>4. Contents' = Append(Abstract!RemoveAt(Contents, k), Contents[k])
      BY <3>1 DEF Abstract!RemoveAt
    <3>5. Abstract!Hit(t)
      BY <3>3, <3>4 DEF Abstract!Hit
    <3>. QED
      BY <3>5 DEF Abstract!Next
  <2>2. CASE ~UpdateRelink(t)
    <3>1. /\ cache_count' = cache_count /\ \A a \in L : entry'[a] = entry[a]
          /\ \A a \in L \cup Dummy : next'[a] = next[a] /\ prev'[a] = prev[a]
      <4>1. CASE FreeNode(t)
        <5>1. node[t] \in heap \ L /\ L \subseteq Addr /\ heap \subseteq Addr
              /\ DOMAIN next = Addr \cup Dummy /\ DOMAIN prev = Addr \cup Dummy
          BY <4>1, ListHolds DEF FreeNode, State, ThreadOK, Owns, Stored, Linked, Linkage
        <5>. QED
          BY <4>1, <5>1, EntriesKept, AddrAssumption DEF FreeNode, Free
      <4>2. CASE ~FreeNode(t)
        <5>1. UNCHANGED <<cache_count, next, prev>>
          BY <1>3, <2>0, <2>2, <4>2
             DEF Request, Step, IsCachedLock, IsCachedScan, UpdateLock, NewNode,
               CheckLock, CheckAssert, IsCachedCopy, RespondCached, NotCacheable, EnqueueLock,
               LoadTest, DequeueLock, PrintFirst, PrintNode, Crash, links
        <5>. QED
          BY <5>1, EntriesKept
      <4>. QED
        BY <4>1, <4>2
    <3>2. Contents' = Contents
      BY <2>0, <3>1, SameContents
    <3>3. CASE RespondCached(t)
      <4>1. Answer(t)' = NoEntry
        BY <1>0, <3>3 DEF RespondCached, Return, Answer, Serves
      <4>2. Served' = [Served EXCEPT ![t] = NoEntry]
        BY <2>0, <4>1, OthersAnswer
      <4>3. Abstract!Done(t)
        BY <3>2, <4>2 DEF Abstract!Done
      <4>. QED
        BY <4>3 DEF Abstract!Next
    <3>4. CASE ~RespondCached(t)
      <4>1. ASSUME IsCachedCopy(t)  PROVE Answer(t)' = Answer(t)
        <5>1. pc[t] = "copy" /\ pc'[t] = "respond" /\ out'[t] = entry[node[t]]
          BY <1>0, <2>0, <4>1 DEF IsCachedCopy, Goto, Crash
        <5>. QED
          BY <5>1 DEF Answer, Serves
      <4>2. ASSUME CheckLock(t) \/ CheckAssert(t)  PROVE Answer(t)' = Answer(t)
        <5>1. /\ ret' = ret /\ node' = node /\ entry' = entry
              /\ pc[t] \in {"cache_check", "assert"}
              /\ pc'[t] \in {"assert", ret[t]} /\ (pc'[t] = "assert" \/ pc[t] = "assert")
          BY <1>0, <2>0, <4>2 DEF CheckLock, CheckAssert, Goto, Crash, locals, links
        <5>2. ret[t] \in AfterCheck
          BY DEF State, ThreadOK
        <5>. QED
          BY <5>1, <5>2 DEF Answer, Serves, AfterCheck
      <4>3. ASSUME ~IsCachedCopy(t), ~CheckLock(t), ~CheckAssert(t)
            PROVE  Answer(t)' = Answer(t)
        <5>1. pc[t] \notin {"cache_check", "assert", "copy", "respond"}
              /\ (pc'[t] \in {"cache_check", "copy", "respond", "assert"} => FALSE)
          BY <1>0, <1>3, <2>0, <2>2, <3>4, <4>3
             DEF Request, Step, IsCachedLock, IsCachedScan, UpdateLock, NewNode, NotCacheable,
               EnqueueLock, LoadTest, DequeueLock, FreeNode, PrintFirst, PrintNode, Goto, Return,
               Crash
        <5>. QED
          BY <5>1 DEF Answer, Serves
      <4>4. Answer(t)' = Answer(t)
        BY <4>1, <4>2, <4>3
      <4>. QED
        BY <2>0, <3>2, <4>4, OthersAnswer
    <3>. QED
      BY <3>3, <3>4
  <2>. QED
    BY <2>1, <2>2
<1>. QED
  BY <1>1, <1>2, <1>3

(* At first the queue is empty and nobody is served. *)
LEMMA InitLru == Init => Abstract!Init
<1>. SUFFICES ASSUME Init  PROVE Contents = <<>> /\ Served = [t \in Thread |-> NoEntry]
  BY DEF Abstract!Init
<1>1. Contents = <<>>
  BY DEF Init, Contents
<1>2. Served = [t \in Thread |-> NoEntry]
  BY DEF Init, Served, Serves
<1>. QED
  BY <1>1, <1>2

LEMMA LruStutters ==
  ASSUME UNCHANGED <<links, pc, locals>>
  PROVE  UNCHANGED <<Contents, Served>>
<1>1. Served' = Served
  BY DEF Served, Serves, links, locals
<1>2. Contents' = Contents
  BY DEF Contents, Forward, Path, links
<1>. QED
  BY <1>1, <1>2

-----------------------------------------------------------------------
LEMMA Lengths ==
  /\ \A v \in Value : Length[v] \in StrLen[v] /\ Length[v] \in Nat
  /\ MaxLength \in Nat
<1>1. ASSUME NEW v \in Value  PROVE Length[v] \in StrLen[v] /\ StrLen[v] \subseteq Nat
  <2>1. StrLen[v] # {} /\ StrLen[v] \subseteq Nat
    BY CacheAssumption
  <2>. QED
    BY <2>1 DEF Length
<1>. QED
  BY <1>1, CacheAssumption DEF MaxLength

(* The lengths of the responses, by the address of their node. *)
Weight == [a \in Addr |-> Length[entry[a].val]]

LEMMA Weights ==
  ASSUME NEW L, State(L)
  PROVE  /\ L \subseteq heap /\ L \subseteq Addr /\ IsFiniteSet(L) /\ Listed = L
         /\ heap \subseteq Addr
         /\ \A a \in heap : Weight[a] = Length[entry[a].val] /\ Weight[a] \in Nat
         /\ \A a \in L : Weight[a] = Length[entry[a].val] /\ Weight[a] \in Nat
<1>1. L \subseteq heap /\ heap \subseteq Addr
  BY DEF State, Memory, Stored
<1>2. IsFiniteSet(L) /\ Listed = L
  BY <1>1, Listing DEF State
<1>3. \A a \in heap : entry[a].val \in Value
  BY DEF State, Stored, Response
<1>. QED
  BY <1>1, <1>2, <1>3, Lengths DEF Weight

(* What the fold of LoadInv computes. *)
LEMMA LoadIsTotal ==
  ASSUME NEW L, State(L)
  PROVE  LoadInv <=> cache_load = Total(Weight, L)
<1>. DEFINE E(g) == g = [s \in SUBSET L |->
                           IF s = {} THEN 0
                           ELSE Length[entry[Picked(s)].val] + g[s \ {Picked(s)}]]
            t == [s \in SUBSET L |-> Total(Weight, s)]
<1>1. IsFiniteSet(L) /\ Listed = L /\ \A a \in L : Weight[a] = Length[entry[a].val] /\ Weight[a] \in Nat
  BY Weights
<1>2. E(t)
  <2>1. ASSUME NEW s \in SUBSET L, s # {}
        PROVE  t[s] = Length[entry[Picked(s)].val] + t[s \ {Picked(s)}]
    <3>1. IsFiniteSet(s) /\ Picked(s) \in s
      BY <1>1, <2>1, FS_Subset, PickedOne
    <3>2. Total(Weight, s) = Weight[Picked(s)] + Total(Weight, s \ {Picked(s)})
      BY <1>1, <2>1, <3>1, TotalPicks
    <3>3. s \ {Picked(s)} \in SUBSET L
      OBVIOUS
    <3>. QED
      BY <1>1, <3>1, <3>2, <3>3
  <2>2. t[{}] = 0
    BY TotalEmpty
  <2>3. \A s \in SUBSET L : t[s] = IF s = {} THEN 0
                                   ELSE Length[entry[Picked(s)].val] + t[s \ {Picked(s)}]
    BY <2>1, <2>2
  <2>4. t = [s \in SUBSET L |-> t[s]]
    OBVIOUS
  <2>. HIDE DEF t
  <2>. QED
    BY <2>3, <2>4
<1>3. PICK g : E(g) /\ (LoadInv <=> cache_load = g[L])
  <2>. DEFINE h == CHOOSE g : E(g)
  <2>1. E(h)
    BY <1>2
  <2>2. LoadInv <=> cache_load = h[L]
    BY <1>1 DEF LoadInv, MapThenSumSet, MapThenFoldSet, Picked
  <2>. QED
    BY <2>1, <2>2
<1>4. SumsUp(Weight, L, g)
  <2>1. \A s \in SUBSET L : g[s] = IF s = {} THEN 0
                                   ELSE Length[entry[Picked(s)].val] + g[s \ {Picked(s)}]
    BY <1>3
  <2>2. \A s \in SUBSET L : s # {} => Picked(s) \in L
    BY PickedOne
  <2>3. g[{}] = 0
    BY <2>1
  <2>. QED
    BY <1>1, <2>1, <2>2, <2>3 DEF SumsUp
<1>. QED
  BY <1>1, <1>3, <1>4, SumIsTotal

(* What the fold of LruCache computes. *)
LEMMA QueueLoad ==
  ASSUME NEW L, State(L), ReadsInOrder
  PROVE  Abstract!Load(Contents) = Total(Weight, L)
<1>0. PICK m \in Nat : m = cache_count
  BY ChainExists
<1>1. PICK c : Runs(c, L)
  BY ChainExists
<1>2. /\ IsFiniteSet(L) /\ \A a \in L : Weight[a] = Length[entry[a].val] /\ Weight[a] \in Nat
  BY Weights
<1>3. /\ DOMAIN Contents = 1..m
      /\ \A i \in 1..m : c[i] \in L /\ Contents[i] = entry[c[i]]
  <2>1. Contents = [i \in 1..m |-> entry[c[i]]]
    BY <1>0, <1>1 DEF ReadsInOrder
  <2>. QED
    BY <2>1, <1>0, <1>1 DEF Runs, Elems
<1>. DEFINE v == [i \in 1..m |-> Length[Contents[i].val]]
            b == [i \in 1..m |-> c[i]]
            D == 1..m
            E(g) == g = [s \in SUBSET D |->
                           IF s = {} THEN 0
                           ELSE g[s \ {Picked(s)}] + Length[Contents[Picked(s)].val]]
            t == [s \in SUBSET D |-> Total(v, s)]
<1>4. /\ IsFiniteSet(D)
      /\ \A i \in D : v[i] = Length[Contents[i].val] /\ v[i] \in Nat /\ Weight[b[i]] = v[i]
  <2>1. IsFiniteSet(1..m)
    BY FS_Interval
  <2>. QED
    BY <2>1, <1>2, <1>3
<1>5. b \in Bijection(D, L)
  <2>1. /\ \A i, j \in 1..m : c[i] = c[j] => i = j
        /\ L = {c[i] : i \in 1..m}
    BY <1>0, <1>1 DEF Runs, Chain, Elems
  <2>. QED
    BY <2>1 DEF Bijection, Injection, Surjection, IsInjective
<1>6. Total(Weight, L) = Total(v, D)
  <2>. HIDE DEF b, v, D
  <2>. QED
    BY <1>4, <1>5, TotalRenamed
<1>. HIDE DEF v
<1>7. E(t)
  <2>1. ASSUME NEW s \in SUBSET D, s # {}
        PROVE  t[s] = t[s \ {Picked(s)}] + Length[Contents[Picked(s)].val]
    <3>0. PICK x \in s : x = Picked(s)
      BY <2>1, PickedOne
    <3>1. IsFiniteSet(s)
      BY <1>4, FS_Subset
    <3>2. /\ Total(v, s) = v[x] + Total(v, s \ {x})
          /\ Total(v, s \ {x}) \in Nat
      BY <1>4, <2>1, <3>0, <3>1, TotalPicks
    <3>3. s \ {x} \in SUBSET D
      OBVIOUS
    <3>4. v[x] \in Nat /\ v[x] = Length[Contents[x].val]
      BY <1>4
    <3>5. v[x] + Total(v, s \ {x}) = Total(v, s \ {x}) + v[x]
      BY <3>2, <3>4
    <3>. QED
      BY <3>0, <3>2, <3>3, <3>4, <3>5
  <2>2. t[{}] = 0
    BY TotalEmpty
  <2>3. \A s \in SUBSET D : t[s] = IF s = {} THEN 0
                                   ELSE t[s \ {Picked(s)}] + Length[Contents[Picked(s)].val]
    BY <2>1, <2>2
  <2>4. t = [s \in SUBSET D |-> t[s]]
    OBVIOUS
  <2>. HIDE DEF t
  <2>. QED
    BY <2>3, <2>4
<1>8. PICK g : E(g) /\ Abstract!Load(Contents) = g[D]
  <2>. DEFINE h == CHOOSE g : E(g)
  <2>1. E(h)
    BY <1>7
  <2>2. Abstract!Load(Contents) = h[D]
    BY <1>3 DEF Abstract!Load, Abstract!FoldSeq, Abstract!FoldFunction,
                Abstract!FoldFunctionOnSet, Abstract!MapThenFoldSet, Picked
  <2>. QED
    BY <2>1, <2>2
<1>9. SumsUp(v, D, g)
  <2>. HIDE DEF D
  <2>1. \A s \in SUBSET D : g[s] = IF s = {} THEN 0
                                   ELSE g[s \ {Picked(s)}] + Length[Contents[Picked(s)].val]
    BY <1>8
  <2>2. g[{}] = 0
    BY <2>1
  <2>3. ASSUME NEW s \in SUBSET D, s # {}, g[s \ {Picked(s)}] \in Nat
        PROVE  g[s] = v[Picked(s)] + g[s \ {Picked(s)}]
    <3>1. PICK x \in D : x = Picked(s)
      BY <2>3, PickedOne
    <3>2. v[x] \in Nat /\ v[x] = Length[Contents[x].val]
      BY <1>4
    <3>3. PICK k \in Nat : k = g[s \ {x}]
      BY <2>3, <3>1
    <3>4. g[s] = k + v[x]
      BY <2>1, <2>3, <3>1, <3>2, <3>3
    <3>5. k + v[x] = v[x] + k
      BY <3>2
    <3>. QED
      BY <3>1, <3>3, <3>4, <3>5
  <2>. QED
    BY <2>2, <2>3 DEF SumsUp
<1>. QED
  BY <1>4, <1>6, <1>8, <1>9, SumIsTotal

(* A stored payload has a NUL in it, the terminator of an unfinished last line
   or any other (nio.c:142, cache.c:94-95): strlen ends there, always. *)
NulStored == \A v \in Value : \E n \in Nat : n < Size[v] /\ StrLen[v] = {n}

LEMMA OneLength ==
  ASSUME NulStored, NEW v \in Value
  PROVE  /\ StrLen[v] = {Length[v]}
         /\ Size[v] < MaxObjectSize => Length[v] <= MaxLength
<1>1. PICK n \in Nat : n < Size[v] /\ StrLen[v] = {n}
  BY DEF NulStored
<1>2. Length[v] = n
  BY <1>1, Lengths
<1>. QED
  BY <1>1, <1>2, CacheAssumption DEF MaxLength

(* A size_t counts the objects that fit into memory. *)
LoadCounts == Cardinality(Addr) * MaxLength <= SizeMax

(* cache_load is exact, and no stored response is larger than what is cached. *)
Loaded(L) ==
  /\ cache_load = Total(Weight, L)
  /\ \A a \in heap : Length[entry[a].val] <= MaxLength

LEMMA LoadBound ==
  ASSUME NEW L, State(L), Loaded(L), NEW K \in SUBSET heap
  PROVE  Total(Weight, K) \in Nat /\ Total(Weight, K) <= Cardinality(Addr) * MaxLength
<1>1. /\ K \in SUBSET Addr /\ IsFiniteSet(K) /\ IsFiniteSet(Addr)
      /\ \A a \in K : Weight[a] \in Nat /\ Weight[a] <= MaxLength
  BY Weights, AddrAssumption, FS_Subset DEF Loaded
<1>. QED
  BY <1>1, Lengths, TotalBound, UnitsFinite

(* cache_load while no entry of the list is written to. *)
LEMMA LoadKept ==
  ASSUME NEW L, State(L), \A a \in L : entry'[a] = entry[a]
  PROVE  Total(Weight, L)' = Total(Weight, L)
<1>1. \A a \in L : Weight'[a] = Weight[a]
  BY Weights DEF Weight
<1>2. Total(Weight', L) = Total(Weight, L)
  BY <1>1, TotalSame
<1>. QED
  BY <1>2

(* No step writes a response that is too large. *)
LEMMA SizesKept ==
  ASSUME NulStored, NEW L, State(L), Loaded(L), NEW t \in Thread, Request(t) \/ Step(t),
         fault' = "none"
  PROVE  \A a \in heap' : Length[entry'[a].val] <= MaxLength
<1>0. DOMAIN entry = Addr /\ heap \subseteq Addr
  BY DEF State, Stored
<1>1. CASE NewNode(t)
  <2>1. PICK v \in Value, a \in Addr \ heap :
          /\ Size[v] < MaxObjectSize /\ heap' = heap \cup {a}
          /\ entry' = [entry EXCEPT ![a] = [key |-> req[t], val |-> v]]
    BY <1>1 DEF NewNode
  <2>2. entry'[a].val = v /\ \A b \in heap : entry'[b] = entry[b]
    BY <1>0, <2>1
  <2>3. Length[v] <= MaxLength
    BY <2>1, OneLength
  <2>. QED
    BY <2>1, <2>2, <2>3 DEF Loaded
<1>2. CASE FreeNode(t)
  <2>1. heap' \subseteq heap /\ \A b \in heap' : entry'[b] = entry[b]
    BY <1>0, <1>2 DEF FreeNode, Free, Crash, links
  <2>. QED
    BY <2>1 DEF Loaded
<1>3. CASE ~NewNode(t) /\ ~FreeNode(t)
  <2>1. UNCHANGED <<heap, entry>>
    BY <1>3 DEF Request, Step, IsCachedLock, IsCachedScan, UpdateLock, UpdateRelink,
         CheckLock, CheckAssert, IsCachedCopy, RespondCached, NotCacheable, EnqueueLock,
         EnqueueAppend, LoadTest, DequeueLock, DequeueUnlink, PrintFirst, PrintNode, Crash, links
  <2>. QED
    BY <2>1 DEF Loaded
<1>. QED
  BY <1>1, <1>2, <1>3

LEMMA AppendLoad ==
  ASSUME NulStored, LoadCounts, NEW L, State(L), Loaded(L), NEW t \in Thread,
         EnqueueAppend(t), NEW n, n = node[t]
  PROVE  /\ State(L \cup {n})' /\ Loaded(L \cup {n})'
         /\ cache_load' >= cache_load /\ cache_load' + MaxLength >= cache_load
<1>0. n = node[t]
  OBVIOUS
<1>1. State(L \cup {n})'
  BY AppendState
<1>2. CountIn(n) /\ UNCHANGED <<heap, entry>>
  <2>1. fault' = "none"
    BY <1>1 DEF State
  <2>. QED
    BY <1>0, <2>1 DEF EnqueueAppend, Crash
<1>3. n \in heap \ L /\ entry[n].val \in Value
  BY <1>0 DEF EnqueueAppend, State, ThreadOK, Owns, Stored, Response
<1>4. PICK k \in Nat : k = Length[entry[n].val]
  BY <1>3, Lengths
<1>5. cache_load' = (cache_load + k) % (SizeMax + 1)
  BY <1>2, <1>3, <1>4, OneLength DEF CountIn
<1>6. \A a \in heap' : Length[entry'[a].val] <= MaxLength
  BY <1>2 DEF Loaded
<1>7. /\ Total(Weight, L \cup {n}) \in Nat
      /\ Total(Weight, L \cup {n}) <= Cardinality(Addr) * MaxLength
  <2>1. L \cup {n} \in SUBSET heap
    BY <1>3, Weights
  <2>. QED
    BY <2>1, LoadBound
<1>8. Weight' = Weight
  BY <1>2 DEF Weight
<1>9. Total(Weight, L \cup {n}) = Total(Weight, L) + k
  <2>1. /\ IsFiniteSet(L) /\ \A a \in L : Weight[a] \in Nat
    BY Weights
  <2>2. Weight[n] = k /\ n \notin L
    BY <1>3, <1>4, Weights
  <2>3. \A a \in L \cup {n} : Weight[a] \in Nat
    BY <2>1, <2>2
  <2>4. PICK w : w = Weight
    OBVIOUS
  <2>5. IsFiniteSet(L) /\ n \notin L /\ \A a \in L \cup {n} : w[a] \in Nat
    BY <2>1, <2>2, <2>3, <2>4
  <2>6. Total(w, L \cup {n}) = Total(w, L) + w[n]
    BY <2>5, TotalAdds
  <2>. QED
    BY <2>2, <2>4, <2>6
<1>10. PICK T \in Nat : T = Total(Weight, L)
  BY Weights, LoadBound
<1>11. T + k <= SizeMax /\ SizeMax \in Nat
  <2>1. T + k = Total(Weight, L \cup {n})
    BY <1>9, <1>10
  <2>2. Cardinality(Addr) * MaxLength \in Nat
    BY AddrAssumption, FS_CardinalityType, Lengths
  <2>. QED
    BY <1>7, <2>1, <2>2, CacheAssumption DEF LoadCounts
<1>12. cache_load' = T + k /\ cache_load = T
  <2>1. cache_load = T
    BY <1>10 DEF Loaded
  <2>2. (T + k) % (SizeMax + 1) = T + k
    BY <1>11
  <2>. QED
    BY <1>5, <2>1, <2>2
<1>13. cache_load' = Total(Weight, L \cup {n})'
  BY <1>8, <1>9, <1>10, <1>12
<1>14. cache_load' >= cache_load /\ cache_load' + MaxLength >= cache_load
  BY <1>4, <1>10, <1>12, Lengths
<1>. QED
  BY <1>1, <1>6, <1>13, <1>14 DEF Loaded

LEMMA UnlinkLoad ==
  ASSUME NEW L, State(L), Loaded(L), NulStored, NEW t \in Thread, Safely(t),
         DequeueUnlink(t), NEW n, n = next[Front]
  PROVE  State(L \ {n})' /\ Loaded(L \ {n})' /\ cache_load' + MaxLength >= cache_load
<1>0. n = next[Front]
  OBVIOUS
<1>1. State(L \ {n})'
  BY UnlinkState
<1>2. CountOut(n) /\ UNCHANGED <<heap, entry>>
  <2>1. fault' = "none" /\ pc[t] = "unlink"
    BY <1>1 DEF State, DequeueUnlink
  <2>. QED
    BY <1>0, <2>1 DEF DequeueUnlink, Safely, Apart, Crash
<1>3. n \in L
  <2>1. ~is_empty
    BY DEF DequeueUnlink, Safely, Apart
  <2>2. Linked(L, cache_count, next, prev)
    BY DEF State
  <2>3. n \in L \cup {End} /\ prev[n] = Front
    BY <1>0, <2>2, Neighbours
  <2>. QED
    BY <1>0, <2>1, <2>3 DEF is_empty
<1>4. PICK k \in Nat : k = Length[entry[n].val] /\ entry[n].val \in Value /\ k <= MaxLength
  <2>1. n \in heap
    BY <1>3, Weights
  <2>2. entry[n].val \in Value
    BY <2>1 DEF State, Stored, Response
  <2>. QED
    BY <2>1, <2>2, Lengths DEF Loaded
<1>5. cache_load' = (cache_load - k) % (SizeMax + 1)
  BY <1>2, <1>4, OneLength DEF CountOut
<1>6. \A a \in heap' : Length[entry'[a].val] <= MaxLength
  BY <1>2 DEF Loaded
<1>8. Weight' = Weight
  BY <1>2 DEF Weight
<1>9. Total(Weight, L) = Total(Weight, L \ {n}) + k
  <2>1. /\ IsFiniteSet(L \ {n}) /\ (L \ {n}) \cup {n} = L /\ n \notin L \ {n}
        /\ \A a \in L : Weight[a] \in Nat
    BY <1>3, Weights, FS_Subset
  <2>2. Weight[n] = k
    BY <1>3, <1>4, Weights
  <2>3. Total(Weight, (L \ {n}) \cup {n}) = Total(Weight, L \ {n}) + Weight[n]
    BY <2>1, TotalAdds
  <2>. QED
    BY <2>1, <2>2, <2>3
<1>10. PICK T \in Nat : T = Total(Weight, L \ {n})
  <2>1. L \ {n} \in SUBSET heap
    BY Weights
  <2>. QED
    BY <2>1, LoadBound
<1>11. cache_load = T + k /\ cache_load <= SizeMax /\ SizeMax \in Nat
  BY <1>9, <1>10, CacheAssumption DEF Loaded, State, Stored
<1>12. cache_load' = T
  <2>1. cache_load - k = T /\ T <= SizeMax
    BY <1>4, <1>10, <1>11
  <2>2. PICK M \in Nat : M = SizeMax
    BY <1>11
  <2>3. T % (M + 1) = T
    BY <2>1, <2>2
  <2>. QED
    BY <1>5, <2>1, <2>2, <2>3
<1>13. cache_load' = Total(Weight, L \ {n})'
  BY <1>8, <1>10, <1>12
<1>14. cache_load' + MaxLength >= cache_load
  BY <1>4, <1>10, <1>11, <1>12, Lengths
<1>. QED
  BY <1>1, <1>6, <1>13, <1>14 DEF Loaded

(* Every step keeps cache_load exact; only dequeue makes it less. *)
LEMMA LoadStep ==
  ASSUME NulStored, LoadCounts, NEW L, State(L), Loaded(L),
         NEW t \in Thread, Safely(t), Request(t) \/ Step(t)
  PROVE  /\ \E K : State(K)' /\ Loaded(K)'
         /\ ~DequeueUnlink(t) => cache_load' >= cache_load
         /\ cache_load' + MaxLength >= cache_load
<1>0. cache_load \in Nat /\ MaxLength \in Nat /\ SizeMax \in Nat
  BY CacheAssumption, Lengths DEF State, Stored
<1>1. CASE EnqueueAppend(t)
  <2>1. PICK n : n = node[t]
    OBVIOUS
  <2>2. /\ State(L \cup {n})' /\ Loaded(L \cup {n})'
        /\ cache_load' >= cache_load /\ cache_load' + MaxLength >= cache_load
    BY <1>1, <2>1, AppendLoad
  <2>3. \E K : State(K)' /\ Loaded(K)'
    BY <2>2, Zenon
  <2>. QED
    BY <2>2, <2>3, Zenon
<1>2. CASE DequeueUnlink(t)
  <2>1. PICK n : n = next[Front]
    OBVIOUS
  <2>2. State(L \ {n})' /\ Loaded(L \ {n})' /\ cache_load' + MaxLength >= cache_load
    BY <1>2, <2>1, UnlinkLoad
  <2>3. \E K : State(K)' /\ Loaded(K)'
    BY <2>2, Zenon
  <2>. QED
    BY <1>2, <2>2, <2>3, Zenon
<1>3. CASE ~EnqueueAppend(t) /\ ~DequeueUnlink(t)
  <2>1. State(L)'
    BY <1>3, StepState
  <2>2. cache_load' = cache_load
    BY <1>3 DEF Request, Step, IsCachedLock, IsCachedScan, UpdateLock, UpdateRelink, NewNode,
         CheckLock, CheckAssert, IsCachedCopy, RespondCached, NotCacheable, EnqueueLock,
         LoadTest, DequeueLock, FreeNode, PrintFirst, PrintNode, Crash, links
  <2>3. Total(Weight, L)' = Total(Weight, L)
    BY EntriesKept, LoadKept
  <2>4. \A a \in heap' : Length[entry'[a].val] <= MaxLength
    <3>1. fault' = "none"
      BY <2>1 DEF State
    <3>. QED
      BY <3>1, SizesKept
  <2>5. Loaded(L)'
    BY <2>2, <2>3, <2>4 DEF Loaded
  <2>. QED
    BY <1>0, <2>1, <2>2, <2>5
<1>. QED
  BY <1>1, <1>2, <1>3

-----------------------------------------------------------------------
(* Threads that have found the load too high and not evicted yet.  When the last
   of them found it so there was more than the capacity; since then every other
   thread has evicted at most once without looking at the load again. *)
Evicting == {t \in Thread : pc[t] \in {"dequeue", "unlink"}}

Room == Evicting # {} =>
  cache_load + (Cardinality(Thread) - Cardinality(Evicting)) * MaxLength > MaxCacheSize

LoadState == Room /\ \E L : State(L) /\ Loaded(L)

LEMMA EvictingCount ==
  /\ IsFiniteSet(Evicting) /\ Cardinality(Evicting) \in Nat /\ Cardinality(Thread) \in Nat
  /\ Cardinality(Evicting) <= Cardinality(Thread)
  /\ Evicting # {} => Cardinality(Evicting) >= 1
<1>1. Evicting \subseteq Thread
  BY DEF Evicting
<1>2. /\ IsFiniteSet(Evicting) /\ Cardinality(Evicting) <= Cardinality(Thread)
      /\ Cardinality(Evicting) \in Nat /\ Cardinality(Thread) \in Nat
  BY <1>1, ThreadsAssumption, FS_Subset, FS_CardinalityType
<1>3. Evicting # {} => Cardinality(Evicting) # 0
  BY <1>2, FS_EmptySet
<1>. QED
  BY <1>2, <1>3

(* Arithmetic of Room: N threads, p of which evict, objects of M bytes at most, a
   capacity C, and the load before (x) and after (y). *)
LEMMA OneLess ==
  ASSUME NEW N \in Nat, NEW p \in Nat, NEW M \in Nat, NEW C \in Nat,
         NEW x \in Nat, NEW y \in Nat, x + (N - p) * M > C, y + M >= x
  PROVE  y + (N - (p - 1)) * M > C
<1>1. PICK a \in Int : a = N - p
  OBVIOUS
<1>2. N - (p - 1) = a + 1
  BY <1>1
<1>3. (a + 1) * M = a * M + M /\ a * M \in Int
  BY <1>1
<1>4. PICK b \in Int : b = a * M
  BY <1>3
<1>5. x + b > C
  BY <1>1, <1>4
<1>6. y + (b + M) > C
  BY <1>5
<1>. QED
  BY <1>2, <1>3, <1>4, <1>6

LEMMA NotLess ==
  ASSUME NEW N \in Nat, NEW p \in Nat, p <= N, NEW M \in Nat, NEW C \in Nat,
         NEW y \in Nat, y > C
  PROVE  y + (N - p) * M > C
<1>1. PICK a \in Nat : a = N - p
  OBVIOUS
<1>2. a * M \in Nat
  BY <1>1
<1>3. PICK b \in Nat : b = a * M
  BY <1>2
<1>4. y + b > C
  BY <1>3
<1>. QED
  BY <1>1, <1>3, <1>4

LEMMA StillRoom ==
  ASSUME NEW N \in Nat, NEW p \in Nat, NEW M \in Nat, NEW C \in Nat,
         NEW x \in Nat, NEW y \in Nat, x + (N - p) * M > C, y >= x
  PROVE  y + (N - p) * M > C
<1>1. PICK b \in Int : b = (N - p) * M
  OBVIOUS
<1>2. x + b > C
  BY <1>1
<1>3. y + b > C
  BY <1>2
<1>. QED
  BY <1>1, <1>3

LEMMA RoomStep ==
  ASSUME NEW L, State(L), Room, NEW t \in Thread, Safely(t), Request(t) \/ Step(t),
         NEW K, State(K)',
         ~DequeueUnlink(t) => cache_load' >= cache_load,
         cache_load' + MaxLength >= cache_load
  PROVE  Room'
<1>0. fault = "none" /\ fault' = "none" /\ Only(t) /\ pc[t] \in Place /\ ret[t] \in AfterCheck
      /\ DOMAIN pc = Thread
  BY StepOnly DEF State, ThreadOK, Locals
<1>1. PICK N \in Nat, M \in Nat, C \in Nat :
        N = Cardinality(Thread) /\ M = MaxLength /\ C = MaxCacheSize
  BY EvictingCount, CacheAssumption, Lengths
<1>2. PICK p \in Nat : p = Cardinality(Evicting) /\ p <= N /\ (Evicting # {} => p >= 1)
  BY <1>1, EvictingCount
<1>3. PICK x \in Nat : x = cache_load
  BY CacheAssumption DEF State, Stored
<1>4. PICK y \in Nat : y = cache_load'
  BY CacheAssumption DEF State, Stored
<1>5. Evicting # {} => x + (N - p) * M > C
  BY <1>1, <1>2, <1>3 DEF Room
<1>6. \A u \in Thread \ {t} : u \in Evicting' <=> u \in Evicting
  BY <1>0 DEF Evicting, Only
<1>7. Evicting \subseteq Thread /\ Evicting' \subseteq Thread
  BY DEF Evicting
<1>. DEFINE R(q) == y + (N - q) * M > C
<1>8. CASE DequeueUnlink(t)
  <2>1. pc[t] = "unlink" /\ pc'[t] = "cache_check"
    BY <1>0, <1>8 DEF DequeueUnlink, Safely, Apart, Goto, Crash
  <2>2. t \in Evicting /\ Evicting' = Evicting \ {t}
    BY <1>6, <1>7, <2>1 DEF Evicting
  <2>3. Cardinality(Evicting') = p - 1
    BY <1>2, <2>2, EvictingCount, FS_RemoveElement
  <2>4. y + M >= x
    BY <1>1, <1>3, <1>4
  <2>5. y + (N - (p - 1)) * M > C
    BY <1>5, <2>2, <2>4, OneLess
  <2>. QED
    BY <1>1, <1>4, <2>3, <2>5 DEF Room
<1>9. CASE ~DequeueUnlink(t)
  <2>1. y >= x
    BY <1>3, <1>4, <1>9
  <2>2. CASE Evicting' = Evicting
    <3>1. Evicting # {} => y + (N - p) * M > C
      BY <1>5, <2>1, StillRoom
    <3>. QED
      BY <1>1, <1>2, <1>4, <2>2, <3>1 DEF Room
  <2>3. CASE LoadTest(t) /\ cache_load > MaxCacheSize
    <3>1. y = x /\ x > C
      BY <1>1, <1>3, <1>4, <2>3 DEF LoadTest, links
    <3>2. IsFiniteSet(Evicting') /\ Cardinality(Evicting') \in Nat
          /\ Cardinality(Evicting') <= N
      BY <1>1, <1>7, ThreadsAssumption, FS_Subset, FS_CardinalityType
    <3>3. PICK q \in Nat : q = Cardinality(Evicting') /\ q <= N
      BY <3>2
    <3>4. y + (N - q) * M > C
      BY <3>1, <3>3, NotLess
    <3>. QED
      BY <1>1, <1>4, <3>3, <3>4 DEF Room
  <2>4. CASE ~(LoadTest(t) /\ cache_load > MaxCacheSize)
    <3>1. pc'[t] \in {"dequeue", "unlink"} <=> pc[t] \in {"dequeue", "unlink"}
      BY <1>0, <1>9, <2>4
         DEF Request, Step, IsCachedLock, IsCachedScan, UpdateLock, UpdateRelink,
           CheckLock, CheckAssert, IsCachedCopy, RespondCached, NotCacheable, EnqueueLock, FreeNode,
           EnqueueAppend, LoadTest, DequeueLock, PrintFirst, PrintNode, NewNode,
           Goto, Return, Crash, locals, Place, Shared, Alone, AfterCheck
    <3>2. Evicting' = Evicting
      BY <1>6, <1>7, <3>1 DEF Evicting
    <3>. QED
      BY <2>2, <3>2
  <2>. QED
    BY <2>3, <2>4
<1>. QED
  BY <1>8, <1>9

LEMMA LoadStateInit == Init => LoadState
<1>. SUFFICES ASSUME Init  PROVE Loaded({}) /\ Room
  BY InitState DEF LoadState
<1>1. Total(Weight, {}) = 0
  BY TotalEmpty
<1>2. Evicting = {}
  BY DEF Init, Evicting
<1>. QED
  BY <1>1, <1>2 DEF Init, Loaded, Room

LEMMA LoadStateStutters ==
  ASSUME LoadState, UNCHANGED <<links, pc, locals, fault>>
  PROVE  LoadState'
<1>1. PICK L : State(L) /\ Loaded(L)
  BY DEF LoadState
<1>2. State(L)'
  BY <1>1, StateStutters
<1>3. UNCHANGED <<heap, entry, cache_load, Evicting>>
  BY DEF links, Evicting
<1>4. Weight' = Weight
  BY <1>3 DEF Weight
<1>5. Loaded(L)'
  BY <1>1, <1>3, <1>4 DEF Loaded
<1>6. Room'
  BY <1>3 DEF LoadState, Room
<1>. QED
  BY <1>2, <1>5, <1>6 DEF LoadState

LEMMA LoadStateKept ==
  ASSUME NulStored, LoadCounts, LoadState, NEW t \in Thread, Safely(t), Request(t) \/ Step(t)
  PROVE  LoadState'
<1>1. PICK L : State(L) /\ Loaded(L)
  BY DEF LoadState
<1>2. /\ \E K : State(K)' /\ Loaded(K)'
      /\ ~DequeueUnlink(t) => cache_load' >= cache_load
      /\ cache_load' + MaxLength >= cache_load
  BY <1>1, LoadStep
<1>3. PICK K : State(K)' /\ Loaded(K)'
  BY <1>2
<1>4. Room
  BY DEF LoadState
<1>5. Room'
  BY <1>1, <1>2, <1>3, <1>4, RoomStep
<1>. QED
  BY <1>3, <1>5 DEF LoadState

(* There is something to evict when the load is not zero. *)
LEMMA NodeLeft ==
  ASSUME NEW L, State(L), Loaded(L), cache_load > 0
  PROVE  ~is_empty
<1>1. L # {}
  BY TotalEmpty DEF Loaded
<1>. QED
  BY <1>1, Neighbours DEF State, is_empty

(* All threads but one can evict, and there is something left: with 8 threads
   (proxy.h:7) these are 7 * 102398 bytes of 1049000 (cache.h:7-8). *)
Roomy == (Cardinality(Thread) - 1) * MaxLength <= MaxCacheSize

LEMMA LeftOver ==
  ASSUME NEW N \in Nat, NEW p \in Nat, 1 <= p, p <= N, NEW M \in Nat, NEW C \in Nat,
         NEW x \in Nat, x + (N - p) * M > C, (N - 1) * M <= C
  PROVE  x > 0 /\ x + (N - 1) * M > C
<1>1. PICK a \in Nat, d \in Nat : a = N - p /\ d = p - 1
  OBVIOUS
<1>2. N - 1 = a + d
  BY <1>1
<1>3. (a + d) * M = a * M + d * M /\ a * M \in Nat /\ d * M \in Nat
  BY <1>1
<1>4. PICK b \in Nat, e \in Nat : b = a * M /\ e = d * M
  BY <1>3
<1>5. x + b > C /\ b + e <= C /\ (N - 1) * M = b + e
  BY <1>1, <1>2, <1>3, <1>4
<1>. QED
  BY <1>4, <1>5

(* Then dequeue finds a node, and the load no lower than the evictions of the
   other threads explain. *)
LEMMA FindsOne ==
  ASSUME Roomy, LoadState, NEW t \in Thread, pc[t] = "unlink"
  PROVE  ~is_empty /\ cache_load + Slack > MaxCacheSize
<1>1. PICK L : State(L) /\ Loaded(L)
  BY DEF LoadState
<1>2. t \in Evicting
  BY DEF Evicting
<1>3. PICK N \in Nat, M \in Nat, C \in Nat :
        N = Cardinality(Thread) /\ M = MaxLength /\ C = MaxCacheSize
  BY EvictingCount, CacheAssumption, Lengths
<1>4. PICK p \in Nat : p = Cardinality(Evicting) /\ p <= N /\ 1 <= p
  BY <1>2, <1>3, EvictingCount
<1>5. PICK x \in Nat : x = cache_load
  BY <1>1, CacheAssumption DEF State, Stored
<1>6. x + (N - p) * M > C
  BY <1>2, <1>3, <1>4, <1>5 DEF LoadState, Room
<1>7. (N - 1) * M <= C
  BY <1>3 DEF Roomy
<1>8. x > 0 /\ x + (N - 1) * M > C
  BY <1>4, <1>6, <1>7, LeftOver
<1>9. ~is_empty
  BY <1>1, <1>5, <1>8, NodeLeft
<1>. QED
  BY <1>3, <1>5, <1>8, <1>9 DEF Slack

-----------------------------------------------------------------------
(* Until a thread is robbed of its node the list is a list, the load is exact,
   and what is evicted is not in use. *)
Sound == robbed \/ (LoadState /\ CacheInv)

LEMMA SafeUnlessRobs ==
  ASSUME Roomy, LoadState, NEW t \in Thread, ~Robs(t)
  PROVE  Safely(t)
<1>. SUFFICES ASSUME pc[t] = "unlink"  PROVE Apart(t)
  BY DEF Safely
<1>1. ~is_empty
  BY FindsOne
<1>. QED
  BY <1>1 DEF Apart, Robs

LEMMA SoundInit == HistoryInit => Sound
  BY LoadStateInit, CacheInvInit DEF HistoryInit, Sound

LEMMA SoundKept ==
  ASSUME NulStored, LoadCounts, Roomy, Sound, [HistoryNext]_historyvars
  PROVE  Sound'
<1>. SUFFICES ASSUME ~robbed'  PROVE LoadState' /\ CacheInv'
  BY DEF Sound
<1>1. CASE UNCHANGED historyvars
  <2>1. LoadState /\ CacheInv
    BY <1>1 DEF Sound, historyvars
  <2>. QED
    BY <1>1, <2>1, LoadStateStutters, CacheInvStutters DEF historyvars, vars
<1>2. CASE HistoryNext
  <2>1. PICK t \in Thread : (Request(t) \/ Step(t)) /\ ~Robs(t) /\ ~robbed
    BY <1>2 DEF HistoryNext
  <2>2. LoadState /\ CacheInv /\ Safely(t)
    BY <2>1, SafeUnlessRobs DEF Sound
  <2>. QED
    BY <2>1, <2>2, LoadStateKept, StepKeeps
<1>. QED
  BY <1>1, <1>2

LEMMA SoundAlways == NulStored /\ LoadCounts /\ Roomy => (HistorySpec => []Sound)
<1>. SUFFICES ASSUME NulStored, LoadCounts, Roomy  PROVE HistorySpec => []Sound
  OBVIOUS
<1>1. Sound /\ [HistoryNext]_historyvars => Sound'
  BY SoundKept
<1>. QED
  BY <1>1, SoundInit, PTL DEF HistorySpec

(* Any number of threads share the cache without a fault of any kind - an assert
   of cache_check that fails (cache.c:276-290), a freed node that is touched, a
   NULL that is freed (cache.c:103-109) - until dequeue takes a node that another
   thread found and left the lock with (cache.c:184-200, 245-249).  Nothing is
   assumed about when threads evict: those that evict for the same excess, which
   they read without the lock (cache.c:119-125), find a node each. *)
THEOREM NothingFails ==
  NulStored /\ LoadCounts /\ Roomy => (HistorySpec => []FaultOnlyRobbed)
<1>. SUFFICES ASSUME NulStored, LoadCounts, Roomy  PROVE HistorySpec => []FaultOnlyRobbed
  OBVIOUS
<1>1. Sound => FaultOnlyRobbed
  BY InvCounts DEF Sound, FaultOnlyRobbed, NoFault
<1>2. HistorySpec => []Sound
  BY SoundAlways
<1>. QED
  BY <1>1, <1>2, PTL

(* Until then, what is_cached copies without the lock (cache.c:243-249) was stored
   for the requested key. *)
THEOREM AnswersTheKey ==
  NulStored /\ LoadCounts /\ Roomy => (HistorySpec => []AnswersUnlessRobbed)
<1>. SUFFICES ASSUME NulStored, LoadCounts, Roomy  PROVE HistorySpec => []AnswersUnlessRobbed
  OBVIOUS
<1>1. Sound => AnswersUnlessRobbed
  BY InvCounts DEF Sound, AnswersUnlessRobbed, HitServesKey
<1>2. HistorySpec => []Sound
  BY SoundAlways
<1>. QED
  BY <1>1, <1>2, PTL

(* Until then, cache_load is the sum of the lengths of the listed texts
   (cache.c:16): what enqueue adds, dequeue takes away again, by a second strlen
   of the same bytes, and the unsigned counter never wraps. *)
THEOREM LoadExact ==
  NulStored /\ LoadCounts /\ Roomy => (HistorySpec => []LoadUnlessRobbed)
<1>. SUFFICES ASSUME NulStored, LoadCounts, Roomy
              PROVE  HistorySpec => []LoadUnlessRobbed
  OBVIOUS
<1>1. Sound => LoadUnlessRobbed
  BY LoadIsTotal DEF Sound, LoadState, Loaded, LoadUnlessRobbed
<1>2. HistorySpec => []Sound
  BY SoundAlways
<1>. QED
  BY <1>1, <1>2, PTL

(* What dequeue finds, as the queue's load. *)
LEMMA NeededThen ==
  ASSUME Roomy, LoadState, ReadsInOrder, NEW t \in Thread
  PROVE  Needed(t)
<1>. SUFFICES ASSUME pc[t] = "unlink"
              PROVE  Abstract!Load(Contents) + Slack > MaxCacheSize
  BY DEF Needed
<1>1. PICK L : State(L) /\ Loaded(L)
  BY DEF LoadState
<1>2. Abstract!Load(Contents) = cache_load
  BY <1>1, QueueLoad DEF Loaded
<1>. QED
  BY <1>2, FindsOne

(* Until then, the threads together do what one LRU queue does, step by step
   (cache.c:22-29, 77-200): an entry is added behind all others, the entry that a
   thread answers with is moved there, the first one is evicted, and nothing else
   happens.  An eviction may find the load below the capacity, because every other
   thread may have evicted one entry for the excess it was seen by, and not lower
   than that. *)
THEOREM LruOrder ==
  NulStored /\ LoadCounts /\ Roomy => (HistorySpec => LruUntilRobbed)
<1>. SUFFICES ASSUME NulStored, LoadCounts, Roomy  PROVE HistorySpec => LruUntilRobbed
  OBVIOUS
<1>1. /\ Sound /\ [HistoryNext]_historyvars /\ ReadsInOrder /\ ReadsInOrder'
      => [robbed' \/ Abstract!Next \/ UNCHANGED Abstract!vars]_historyvars
  <2>. SUFFICES ASSUME Sound, HistoryNext, ReadsInOrder, ReadsInOrder', ~robbed'
                PROVE  Abstract!Next \/ UNCHANGED <<Contents, Served>>
    BY DEF Abstract!vars
  <2>1. PICK t \in Thread : (Request(t) \/ Step(t)) /\ ~Robs(t) /\ ~robbed
    BY DEF HistoryNext
  <2>2. LoadState /\ Safely(t) /\ Needed(t)
    BY <2>1, SafeUnlessRobs, NeededThen DEF Sound
  <2>3. PICK L : State(L)
    BY <2>2 DEF LoadState
  <2>. QED
    BY <2>1, <2>2, <2>3, StepLru
<1>2. HistoryInit => Abstract!Init
  BY InitLru DEF HistoryInit
<1>3. HistorySpec => []Sound
  BY SoundAlways
<1>. QED
  BY <1>1, <1>2, <1>3, ContentsOrder, PTL DEF HistorySpec, LruUntilRobbed

-----------------------------------------------------------------------
(* As in the tests of the cache (test/cache-test.cpp). *)
OneThread == \A t, u \in Thread : t = u

LEMMA OneSafe ==
  ASSUME OneThread, Thread # {}
  PROVE  Roomy /\ Slack = 0 /\ \A t \in Thread : ~Robs(t)
<1>1. PICK t \in Thread : Thread = {t}
  BY DEF OneThread
<1>2. Cardinality(Thread) = 1
  BY <1>1, FS_Singleton
<1>3. MaxLength \in Nat /\ MaxCacheSize \in Nat
  BY Lengths, CacheAssumption
<1>4. (Cardinality(Thread) - 1) * MaxLength = 0
  BY <1>2, <1>3
<1>. QED
  BY <1>1, <1>3, <1>4 DEF Roomy, Slack, Robs

(* A single thread needs nothing: it always finds a node to evict, and the load
   still too high (cache.c:119-125), and the cache is the strict LRU queue
   (cache.c:22-29). *)
THEOREM OneThreadLru ==
  NulStored /\ LoadCounts /\ OneThread => (Spec => []EvictsUnused /\ ImplementsLru)
<1>. SUFFICES ASSUME NulStored, LoadCounts, OneThread
              PROVE  Spec => []EvictsUnused /\ ImplementsLru
  OBVIOUS
<1>1. LoadState => \A t \in Thread : Safely(t)
  BY OneSafe, SafeUnlessRobs
<1>2. LoadState /\ [Next]_vars => LoadState'
  BY <1>1, LoadStateKept, LoadStateStutters DEF Next, vars
<1>3. LoadState => EvictsUnused
  BY <1>1 DEF EvictsUnused, Safely
<1>4. LoadState /\ [Next]_vars /\ ReadsInOrder /\ ReadsInOrder'
      => [Abstract!Next]_(Abstract!vars)
  <2>. SUFFICES ASSUME LoadState, [Next]_vars, ReadsInOrder, ReadsInOrder'
                PROVE  Abstract!Next \/ UNCHANGED <<Contents, Served>>
    BY DEF Abstract!vars
  <2>1. CASE UNCHANGED vars
    BY <2>1, LruStutters DEF vars
  <2>2. ASSUME NEW t \in Thread, Request(t) \/ Step(t)
        PROVE  Abstract!Next \/ UNCHANGED <<Contents, Served>>
    <3>1. Safely(t) /\ Needed(t)
      BY <1>1, OneSafe, NeededThen
    <3>2. PICK L : State(L)
      BY DEF LoadState
    <3>. QED
      BY <2>2, <3>1, <3>2, StepLru
  <2>. QED
    BY <2>1, <2>2 DEF Next
<1>5. Init => Abstract!Init
  BY InitLru
<1>. QED
  BY <1>2, <1>3, <1>4, <1>5, LoadStateInit, ContentsOrder, PTL
     DEF Spec, ImplementsLru, Abstract!Spec

=======================================================================
