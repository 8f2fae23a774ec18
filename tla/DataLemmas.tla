---------------------------- MODULE DataLemmas ----------------------------
(***************************************************************************)
(* Induction over naturals and sequences for proofs about recursive        *)
(* functions.  The library's induction theorems have an operator as their  *)
(* parameter; here the property is a set instead, and the argument is that *)
(* a set of naturals that is not empty has a least element.  Then          *)
(* rearrangements of sequences that are cut and put together, and sums     *)
(* over sets.                                                              *)
(***************************************************************************)
EXTENDS Integers, Sequences, FiniteSetsExt, FiniteSetTheorems, SequenceTheorems,
        WellFoundedInduction, TLAPS

(* Some element of a set of naturals is the least one. *)
LEMMA LeastExists ==
  ASSUME NEW T \in SUBSET Nat, T # {}
  PROVE  \E x \in T : \A y \in T : x <= y
<1>. DEFINE Below == OpToRel(<, Nat)
<1>1. PICK x \in T : \A y \in T : ~(<<y, x>> \in Below)
  BY NatLessThanWellFounded, WFMin
<1>2. ASSUME NEW y \in T
      PROVE  x <= y
  <2>1. x \in Nat /\ y \in Nat
    OBVIOUS
  <2>2. y < x => <<y, x>> \in Below
    BY <2>1 DEF OpToRel
  <2>3. ~(y < x)
    BY <2>2, <1>1
  <2>. HIDE DEF Below
  <2>. QED
    BY <2>1, <2>3
<1>. QED
  BY <1>2

(* Min is the least element. *)
LEMMA MinIsLeast ==
  ASSUME NEW T \in SUBSET Nat, T # {}
  PROVE  Min(T) \in T /\ \A y \in T : Min(T) <= y
  BY LeastExists DEF Min

(* A set that has 0 and with a number the next one has all of them. *)
LEMMA InductionOverNat ==
  ASSUME NEW P \in SUBSET Nat, 0 \in P, \A m \in Nat : m \in P => m + 1 \in P
  PROVE  P = Nat
<1>. SUFFICES ASSUME Nat \ P # {}  PROVE FALSE
  OBVIOUS
<1>1. PICK x \in Nat \ P : \A y \in Nat \ P : x <= y
  BY LeastExists
<1>2. x - 1 \in Nat /\ x - 1 \notin Nat \ P
  BY <1>1
<1>. QED
  BY <1>1, <1>2

(* A set that has the empty sequence and with a sequence every one that is
   longer by one element has all of them. *)
LEMMA InductionOverSeq ==
  ASSUME NEW S, NEW P \in SUBSET Seq(S), <<>> \in P,
         \A s \in P, x \in S : Append(s, x) \in P
  PROVE  P = Seq(S)
<1>. DEFINE Q == {k \in Nat : \A s \in Seq(S) : Len(s) = k => s \in P}
<1>1. 0 \in Q
  BY EmptySeq
<1>2. ASSUME NEW k \in Nat, k \in Q  PROVE k + 1 \in Q
  <2>. SUFFICES ASSUME NEW s \in Seq(S), Len(s) = k + 1  PROVE s \in P
    OBVIOUS
  <2>1. s # <<>>
    BY EmptySeq
  <2>2. PICK t \in Seq(S), x \in S : s = Append(t, x)
    BY <2>1, SequenceEmptyOrAppend
  <2>3. Len(t) \in Nat /\ Len(s) = Len(t) + 1
    BY <2>2, AppendProperties, LenProperties
  <2>4. Len(t) = k
    BY <2>3
  <2>. QED
    BY <1>2, <2>2, <2>4
<1>3. Q = Nat
  <2>. HIDE DEF Q
  <2>1. Q \in SUBSET Nat
    BY DEF Q
  <2>. QED
    BY <1>1, <1>2, <2>1, InductionOverNat
<1>4. ASSUME NEW s \in Seq(S)  PROVE s \in P
  <2>1. Len(s) \in Q
    BY <1>3, LenProperties
  <2>. QED
    BY <2>1
<1>. QED
  BY <1>4
-----------------------------------------------------------------------
(* Rearrangements of sequences. *)
LEMMA Associative ==
  ASSUME NEW S, NEW a, NEW b, NEW c, a \in Seq(S) /\ b \in Seq(S) /\ c \in Seq(S)
  PROVE  (a \o b) \o c = a \o (b \o c)
  OBVIOUS

LEMMA Split ==
  ASSUME NEW S, NEW s \in Seq(S), NEW k \in 1..Len(s)
  PROVE  /\ SubSeq(s, 1, k) \in Seq(S) /\ Len(SubSeq(s, 1, k)) = k
         /\ SubSeq(s, k + 1, Len(s)) \in Seq(S)
         /\ Len(SubSeq(s, k + 1, Len(s))) = Len(s) - k
         /\ SubSeq(s, 1, k) \o SubSeq(s, k + 1, Len(s)) = s
<1>1. Len(s) \in Nat
  BY LenProperties
<1>2. (\A i \in 1..k : s[i] \in S) /\ \A i \in k + 1..Len(s) : s[i] \in S
  BY <1>1, ElementOfSeq
<1>3. SubSeq(s, 1, k) \in Seq(S) /\ Len(SubSeq(s, 1, k)) = k
  BY <1>2, SubSeqProperties
<1>4. /\ SubSeq(s, k + 1, Len(s)) \in Seq(S)
      /\ Len(SubSeq(s, k + 1, Len(s))) = Len(s) - k
  BY <1>1, <1>2, SubSeqProperties
<1>5. SubSeq(s, 1, k) \o SubSeq(s, k + 1, Len(s)) = SubSeq(s, 1, Len(s))
  <2>1. 1 \in 1..Len(s) + 1 /\ k \in 1 - 1..Len(s) /\ Len(s) \in k..Len(s)
    BY <1>1
  <2>. QED
    BY <2>1, ConcatAdjacentSubSeq
<1>. QED
  BY <1>3, <1>4, <1>5, SubSeqFull

LEMMA ConcatAt ==
  ASSUME NEW S, NEW s \in Seq(S), NEW t \in Seq(S)
  PROVE  /\ \A i \in 1..Len(s) : (s \o t)[i] = s[i]
         /\ \A i \in 1..Len(t) : (s \o t)[Len(s) + i] = t[i]
<1>. DEFINE u == s \o t
<1>1. Len(s) \in Nat /\ Len(t) \in Nat
  BY LenProperties
<1>2. \A i \in 1..Len(s) + Len(t) : u[i] = IF i <= Len(s) THEN s[i] ELSE t[i - Len(s)]
  BY ConcatProperties
<1>. HIDE DEF u
<1>3. ASSUME NEW i \in 1..Len(s)  PROVE u[i] = s[i]
  BY <1>1, <1>2
<1>4. ASSUME NEW i \in 1..Len(t)  PROVE u[Len(s) + i] = t[i]
  <2>1. Len(s) + i \in 1..Len(s) + Len(t) /\ ~(Len(s) + i <= Len(s)) /\ Len(s) + i - Len(s) = i
    BY <1>1
  <2>. QED
    BY <1>2, <2>1
<1>. QED
  BY <1>3, <1>4 DEF u

LEMMA TakenOne ==
  ASSUME NEW S, NEW a \in Seq(S), NEW b \in Seq(S), NEW c \in Seq(S), c # <<>>
  PROVE  a \o Append(b, Head(c)) \o Tail(c) = a \o b \o c
<1>. DEFINE h == <<Head(c)>>
            t == Tail(c)
<1>1. h \in Seq(S) /\ t \in Seq(S) /\ a \o b \in Seq(S)
  BY HeadTailProperties, ConcatProperties
<1>2. Append(b, Head(c)) = b \o h
  BY HeadTailProperties, AppendIsConcat
<1>3. h \o t = c
  OBVIOUS
<1>. HIDE DEF h, t
<1>4. a \o (b \o h) = (a \o b) \o h
  BY <1>1, Associative
<1>5. ((a \o b) \o h) \o t = (a \o b) \o (h \o t)
  BY <1>1, Associative
<1>. QED
  BY <1>2, <1>3, <1>4, <1>5, Zenon DEF t

-----------------------------------------------------------------------
(* Sums.  Units has w[a] pairs for each a of S, so its cardinality is the sum
   of w over S in whatever order a fold takes the elements. *)
Units(w, S) == UNION {{a} \X (1..w[a]) : a \in S}
Total(w, S) == Cardinality(Units(w, S))

LEMMA UnitsFinite ==
  ASSUME NEW S, IsFiniteSet(S), NEW w, \A a \in S : w[a] \in Nat
  PROVE  IsFiniteSet(Units(w, S)) /\ Total(w, S) \in Nat
<1>. DEFINE U == {{a} \X (1..w[a]) : a \in S}
<1>1. IsFiniteSet(U)
  <2>. DEFINE h == [a \in S |-> {a} \X (1..w[a])]
  <2>1. h \in Surjection(S, U)
    BY DEF Surjection
  <2>. QED
    BY <2>1, FS_Surjection
<1>2. ASSUME NEW a \in S  PROVE IsFiniteSet({a} \X (1..w[a]))
  <2>1. PICK n \in Nat : n = w[a]
    OBVIOUS
  <2>2. IsFiniteSet({a})
    BY FS_Singleton
  <2>3. IsFiniteSet(1..n)
    BY FS_Interval
  <2>. QED
    BY <2>1, <2>2, <2>3, FS_Product
<1>3. IsFiniteSet(UNION U)
  <2>1. \A T \in U : IsFiniteSet(T)
    BY <1>2
  <2>. HIDE DEF U
  <2>. QED
    BY <1>1, <2>1, FS_UNION
<1>. QED
  BY <1>3, FS_CardinalityType DEF Units, Total

LEMMA TotalEmpty ==
  ASSUME NEW w
  PROVE  Total(w, {}) = 0
<1>1. Units(w, {}) = {}
  BY DEF Units
<1>. QED
  BY <1>1, FS_EmptySet DEF Total

LEMMA TotalAdds ==
  ASSUME NEW S, IsFiniteSet(S), NEW w, NEW x, x \notin S,
         \A a \in S \cup {x} : w[a] \in Nat
  PROVE  Total(w, S \cup {x}) = Total(w, S) + w[x]
<1>. DEFINE X == {x} \X (1..w[x])
<1>1. IsFiniteSet(X) /\ Cardinality(X) = w[x]
  <2>1. IsFiniteSet({x}) /\ Cardinality({x}) = 1
    BY FS_Singleton
  <2>2. IsFiniteSet(1..w[x]) /\ Cardinality(1..w[x]) = w[x]
    BY FS_Interval
  <2>. QED
    BY <2>1, <2>2, FS_Product
<1>2. Units(w, S \cup {x}) = Units(w, S) \cup X
  BY DEF Units
<1>3. Units(w, S) \cap X = {}
  BY DEF Units
<1>4. IsFiniteSet(Units(w, S)) /\ Total(w, S) \in Nat
  BY UnitsFinite
<1>. HIDE DEF X
<1>6. w[x] \in Nat /\ Cardinality({}) = 0
  BY FS_EmptySet
<1>5. Cardinality(Units(w, S) \cup X)
        = Cardinality(Units(w, S)) + Cardinality(X) - Cardinality(Units(w, S) \cap X)
  BY <1>1, <1>4, FS_Union
<1>7. Cardinality(Units(w, S) \cup X) = Cardinality(Units(w, S)) + w[x] - 0
  BY <1>1, <1>3, <1>5, <1>6
<1>8. Total(w, S \cup {x}) = Cardinality(Units(w, S) \cup X)
  BY <1>2 DEF Total
<1>9. Cardinality(Units(w, S)) = Total(w, S)
  BY DEF Total
<1>. QED
  BY <1>4, <1>6, <1>7, <1>8, <1>9

LEMMA TotalSame ==
  ASSUME NEW S, NEW v, NEW w, \A a \in S : v[a] = w[a]
  PROVE  Total(v, S) = Total(w, S)
<1>1. Units(v, S) = Units(w, S)
  BY DEF Units
<1>. QED
  BY <1>1 DEF Total

LEMMA TotalBound ==
  ASSUME NEW A, IsFiniteSet(A), NEW S \in SUBSET A, NEW w, NEW B \in Nat,
         \A a \in S : w[a] \in Nat /\ w[a] <= B
  PROVE  Total(w, S) <= Cardinality(A) * B
<1>1. Units(w, S) \subseteq A \X (1..B)
  BY DEF Units
<1>2. IsFiniteSet(1..B) /\ Cardinality(1..B) = B
  BY FS_Interval
<1>3. IsFiniteSet(A \X (1..B)) /\ Cardinality(A \X (1..B)) = Cardinality(A) * B
  BY <1>2, FS_Product
<1>. QED
  BY <1>1, <1>3, FS_Subset DEF Total

(* What a fold over a set computes: g sums the elements up one after another,
   in the order in which CHOOSE takes them. *)
Picked(s) == CHOOSE x \in s : TRUE

SumsUp(w, S, g) ==
  /\ g[{}] = 0
  /\ \A s \in SUBSET S :
       s # {} /\ g[s \ {Picked(s)}] \in Nat
         => g[s] = w[Picked(s)] + g[s \ {Picked(s)}]

LEMMA PickedOne ==
  ASSUME NEW s, s # {}
  PROVE  Picked(s) \in s
  BY DEF Picked

LEMMA TotalPicks ==
  ASSUME NEW s, IsFiniteSet(s), s # {}, NEW w, \A a \in s : w[a] \in Nat
  PROVE  /\ Total(w, s \ {Picked(s)}) \in Nat
         /\ Total(w, s) = w[Picked(s)] + Total(w, s \ {Picked(s)})
<1>1. PICK x \in s : x = Picked(s)
  BY PickedOne
<1>2. IsFiniteSet(s \ {x}) /\ (s \ {x}) \cup {x} = s /\ x \notin s \ {x}
  BY FS_RemoveElement
<1>3. Total(w, (s \ {x}) \cup {x}) = Total(w, s \ {x}) + w[x]
  BY <1>2, TotalAdds
<1>4. Total(w, s \ {x}) \in Nat
  BY <1>2, UnitsFinite
<1>. QED
  BY <1>1, <1>2, <1>3, <1>4

LEMMA SumIsTotal ==
  ASSUME NEW S, IsFiniteSet(S), NEW w, \A a \in S : w[a] \in Nat, NEW g, SumsUp(w, S, g)
  PROVE  g[S] = Total(w, S)
<1>. DEFINE P == {n \in Nat : \A s \in SUBSET S : Cardinality(s) = n => g[s] = Total(w, s)}
<1>1. 0 \in P
  <2>. SUFFICES ASSUME NEW s \in SUBSET S, Cardinality(s) = 0  PROVE g[s] = Total(w, s)
    OBVIOUS
  <2>1. s = {}
    BY FS_Subset, FS_EmptySet
  <2>. QED
    BY <2>1, TotalEmpty DEF SumsUp
<1>2. ASSUME NEW n \in Nat, n \in P  PROVE n + 1 \in P
  <2>. SUFFICES ASSUME NEW s \in SUBSET S, Cardinality(s) = n + 1  PROVE g[s] = Total(w, s)
    OBVIOUS
  <2>1. IsFiniteSet(s) /\ s # {}
    BY FS_Subset, FS_EmptySet
  <2>2. PICK x \in s : x = Picked(s)
    BY <2>1, PickedOne
  <2>3. s \ {x} \in SUBSET S /\ Cardinality(s \ {x}) = n
    <3>1. Cardinality(s \ {x}) = Cardinality(s) - 1
      BY <2>1, <2>2, FS_RemoveElement
    <3>. QED
      BY <3>1
  <2>4. g[s \ {x}] = Total(w, s \ {x})
    BY <1>2, <2>3
  <2>5. Total(w, s \ {x}) \in Nat /\ Total(w, s) = w[x] + Total(w, s \ {x})
    BY <2>1, <2>2, TotalPicks
  <2>. QED
    BY <2>1, <2>2, <2>4, <2>5 DEF SumsUp
<1>3. P = Nat
  <2>. HIDE DEF P
  <2>1. P \in SUBSET Nat
    BY DEF P
  <2>. QED
    BY <1>1, <1>2, <2>1, InductionOverNat
<1>4. Cardinality(S) \in P
  BY <1>3, FS_CardinalityType
<1>. QED
  BY <1>4

(* The same sum with its elements named otherwise. *)
LEMMA TotalRenamed ==
  ASSUME NEW S, IsFiniteSet(S), NEW T, NEW v, NEW w, NEW c, c \in Bijection(S, T),
         \A a \in S : v[a] \in Nat /\ w[c[a]] = v[a]
  PROVE  Total(w, T) = Total(v, S)
<1>. DEFINE f == [p \in Units(v, S) |-> <<c[p[1]], p[2]>>]
<1>0. c \in [S -> T] /\ (\A a, b \in S : c[a] = c[b] => a = b) /\ \A b \in T : \E a \in S : c[a] = b
  BY DEF Bijection, Injection, Surjection, IsInjective
<1>1. IsFiniteSet(Units(v, S))
  BY UnitsFinite
<1>2. ASSUME NEW p \in Units(v, S)
      PROVE  p = <<p[1], p[2]>> /\ p[1] \in S /\ p[2] \in 1..v[p[1]]
  BY DEF Units
<1>3. f \in [Units(v, S) -> Units(w, T)]
  <2>. SUFFICES ASSUME NEW p \in Units(v, S)  PROVE <<c[p[1]], p[2]>> \in Units(w, T)
    OBVIOUS
  <2>. QED
    BY <1>0, <1>2 DEF Units
<1>4. ASSUME NEW p \in Units(v, S), NEW q \in Units(v, S), f[p] = f[q]  PROVE p = q
  <2>1. c[p[1]] = c[q[1]] /\ p[2] = q[2]
    BY <1>4
  <2>2. p[1] = q[1]
    BY <1>0, <1>2, <2>1
  <2>. QED
    BY <1>2, <2>1, <2>2
<1>5. ASSUME NEW q \in Units(w, T)  PROVE \E p \in Units(v, S) : f[p] = q
  <2>1. PICK b \in T : \E i \in 1..w[b] : q = <<b, i>>
    BY DEF Units
  <2>4. PICK i \in 1..w[b] : q = <<b, i>>
    BY <2>1
  <2>2. PICK a \in S : c[a] = b
    BY <1>0
  <2>3. <<a, i>> \in Units(v, S)
    BY <2>4, <2>2 DEF Units
  <2>. QED
    BY <2>4, <2>2, <2>3
<1>. HIDE DEF f
<1>6. f \in Bijection(Units(v, S), Units(w, T))
  BY <1>3, <1>4, <1>5 DEF Bijection, Injection, Surjection, IsInjective
<1>7. ExistsBijection(Units(v, S), Units(w, T))
  BY <1>6 DEF ExistsBijection
<1>. QED
  BY <1>1, <1>7, FS_Bijection DEF Total
=======================================================================
