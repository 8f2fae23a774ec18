-------------------------- MODULE SbufProofs --------------------------
(***************************************************************************)
(* Proofs about the bounded buffer, for any number of threads and slots,   *)
(* as long as the C ints front and rear do not overflow, that is for at    *)
(* most IntMax insertions (MCSbufWrap.cfg shows what happens after that).  *)
(***************************************************************************)
EXTENDS Sbuf, Sequences, FiniteSetTheorems, TLAPS

(* The size of a set of threads is a natural number, moved by one when a
   thread enters or leaves the set. *)
LEMMA SizeFacts ==
  ASSUME NEW S \in SUBSET Thread, NEW t \in Thread
  PROVE  /\ Cardinality(S) \in Nat
         /\ t \notin S => Cardinality(S \cup {t}) = Cardinality(S) + 1
         /\ t \in S    => Cardinality(S \ {t}) = Cardinality(S) - 1
         /\ t \in S    => Cardinality(S) > 0
<1>1. IsFiniteSet(Thread)
  BY SbufAssumption, FS_Union DEF Thread
<1>2. IsFiniteSet(S)
  BY <1>1, FS_Subset
<1>3. t \in S => Cardinality(S) > 0
  <2> SUFFICES ASSUME t \in S PROVE Cardinality(S) > 0
    OBVIOUS
  <2>1. Cardinality(S) # 0
    BY <1>2, FS_EmptySet
  <2> QED
    BY <2>1, <1>2, FS_CardinalityType
<1> QED
  BY <1>2, <1>3, FS_CardinalityType, FS_AddElement, FS_RemoveElement

(* A non-negative index selects a slot of the array. *)
LEMMA ModInRange ==
  ASSUME NEW i \in Nat
  PROVE  Mod(i) = i % N /\ Mod(i) \in 0..(N - 1)
BY SbufAssumption DEF Mod

(* Two indices less than N apart select different slots. *)
LEMMA ModDistinct ==
  ASSUME NEW i \in Nat, NEW j \in Nat, i < j, j < i + N
  PROVE  Mod(i) # Mod(j)
<1> DEFINE q(k) == k \div N
<1> SUFFICES ASSUME i % N = j % N PROVE FALSE
  BY ModInRange
<1>1. /\ N \in Nat \ {0} /\ q(i) \in Int /\ q(j) \in Int
      /\ i = N * q(i) + (i % N) /\ j = N * q(j) + (j % N)
      /\ i % N \in Int
  BY SbufAssumption
<1>2. j - i = N * (q(j) - q(i))
  <2> HIDE DEF q
  <2> QED
    BY <1>1
<1> HIDE DEF q
<1> DEFINE d == q(j) - q(i)
<1>3. d \in Int /\ N * d = j - i
  BY <1>1, <1>2
<1> HIDE DEF d
<1>4. CASE d <= 0
  <2>1. N * d <= 0
    BY <1>1, <1>3, <1>4
  <2> QED
    BY <2>1, <1>3
<1>5. CASE d >= 1
  <2>1. N * d >= N
    BY <1>1, <1>3, <1>5
  <2> QED
    BY <2>1, <1>1, <1>3
<1> QED
  BY <1>3, <1>4, <1>5

-----------------------------------------------------------------------
LEMMA InitInv == Init => SbufInv
<1> SUFFICES ASSUME Init PROVE SbufInv
  OBVIOUS
<1> USE SbufAssumption DEF Init, At
<1>1. TypeOK /\ wild = {}
  BY DEF TypeOK, Label, Thread
<1>2. MutexInv
  BY DEF MutexInv, Inside
<1>3. /\ Calling = {} /\ Reserved = {} /\ Announcing = {}
      /\ Claimed = {} /\ Returning = {} /\ First = 0 /\ Last = 0
  BY DEF Calling, Reserved, Announcing, Claimed, Returning, First, Last
<1>4. CountInv
  BY <1>3, FS_EmptySet DEF CountInv
<1> QED
  BY <1>1, <1>2, <1>4 DEF SbufInv

(* The sets the accounting speaks of have a size. *)
LEMMA Sizes ==
  /\ Cardinality(Calling) \in Nat /\ Cardinality(Reserved) \in Nat
  /\ Cardinality(Announcing) \in Nat /\ Cardinality(Claimed) \in Nat
  /\ Cardinality(Returning) \in Nat
<1>1. IsFiniteSet(Thread)
  BY SbufAssumption, FS_Union DEF Thread
<1>2. /\ IsFiniteSet(Calling) /\ IsFiniteSet(Reserved) /\ IsFiniteSet(Announcing)
      /\ IsFiniteSet(Claimed) /\ IsFiniteSet(Returning)
  BY <1>1, FS_Subset DEF Calling, Reserved, Announcing, Claimed, Returning, At
<1> QED
  BY <1>2, FS_CardinalityType

(* What the accounting says of the two indices: the filled part is within
   the array, and an index that is about to be incremented does not wrap. *)
LEMMA IndexFacts ==
  ASSUME SbufInv, MaxInserts <= IntMax
  PROVE  /\ First \in Nat /\ Last \in Nat /\ First <= Last /\ Last - First <= N
         /\ \A p \in Producer : pc[p] = "inc_rear"  => Inc(rear) = rear + 1
         /\ \A p \in Producer : pc[p] = "store" =>
              rear = Last + 1 /\ rear \in Nat /\ First = front /\ Last - First < N
         /\ \A c \in Consumer : pc[c] = "inc_front" => Inc(front) = front + 1
         /\ \A c \in Consumer : pc[c] = "load" =>
              front = First + 1 /\ front \in Nat /\ Last = rear /\ First < Last
<1>1. /\ front \in Int /\ rear \in Int /\ slots \in Nat /\ items \in Nat
      /\ inserts \in Nat /\ inserts <= IntMax
  BY SbufAssumption DEF SbufInv, TypeOK
<1>2. First \in Int /\ Last \in Int
  BY <1>1 DEF First, Last
<1>3. CountInv /\ N \in Nat /\ IntMax \in Nat
  BY SbufAssumption DEF SbufInv
<1>4. First \in Nat /\ Last \in Nat /\ First <= Last /\ Last - First <= N
  BY <1>1, <1>2, <1>3, Sizes DEF CountInv
<1>5. ASSUME NEW p \in Producer, pc[p] = "inc_rear"
      PROVE  Inc(rear) = rear + 1
  <2>1. Cardinality(Calling) > 0
    BY <1>5, SizeFacts DEF Calling, At, Thread
  <2>2. rear < IntMax
    BY <2>1, <1>1, <1>3, Sizes DEF CountInv
  <2> QED
    BY <2>2, <1>1, <1>3 DEF Inc
<1>6. ASSUME NEW p \in Producer, pc[p] = "store"
      PROVE  rear = Last + 1 /\ rear \in Nat /\ First = front /\ Last - First < N
  <2>1. Cardinality(Reserved) > 0
    BY <1>6, SizeFacts DEF Reserved, At, Thread
  <2>2. rear = Last + 1 /\ First = front
    BY <1>6, <1>1 DEF First, Last, SbufInv, MutexInv, Inside, At, Thread
  <2>3. Last - First < N
    BY <2>1, <1>1, <1>2, <1>3, Sizes DEF CountInv
  <2> QED
    BY <2>2, <2>3, <1>4
<1>7. ASSUME NEW c \in Consumer, pc[c] = "inc_front"
      PROVE  Inc(front) = front + 1
  <2>1. Cardinality(Claimed) > 0
    BY <1>7, SizeFacts DEF Claimed, At, Thread
  <2>2. First = front /\ Last = rear
    BY <1>7 DEF First, Last, SbufInv, MutexInv, Inside, At, Thread
  <2>3. front < IntMax
    BY <2>1, <2>2, <1>1, <1>3, Sizes DEF CountInv
  <2> QED
    BY <2>3, <1>1, <1>3 DEF Inc
<1>8. ASSUME NEW c \in Consumer, pc[c] = "load"
      PROVE  front = First + 1 /\ front \in Nat /\ Last = rear /\ First < Last
  <2>1. Cardinality(Claimed) > 0
    BY <1>8, SizeFacts DEF Claimed, At, Thread
  <2>2. front = First + 1 /\ Last = rear
    BY <1>8, <1>1 DEF First, Last, SbufInv, MutexInv, Inside, At, Thread
  <2>3. First < Last
    BY <2>1, <1>1, <1>2, <1>3, Sizes DEF CountInv
  <2> QED
    BY <2>2, <2>3, <1>4
<1> QED
  BY <1>4, <1>5, <1>6, <1>7, <1>8

(* Where the filled part of the buffer begins and ends after each action: it
   grows by one when a producer stores, shrinks by one when a consumer loads. *)
LEMMA EndsStep ==
  ASSUME MaxInserts <= IntMax, SbufInv
  PROVE  /\ \A p \in Producer :
              /\ \/ CallInsert(p) \/ WaitSlot(p) \/ InsertLock(p) \/ IncRear(p)
                 \/ InsertUnlock(p) \/ SignalItem(p)
                 => First' = First /\ Last' = Last
              /\ Store(p) => First' = First /\ Last' = Last + 1
         /\ \A c \in Consumer :
              /\ \/ CallRemove(c) \/ WaitItem(c) \/ RemoveLock(c) \/ IncFront(c)
                 \/ RemoveUnlock(c) \/ SignalSlot(c)
                 => First' = First /\ Last' = Last
              /\ Load(c) => First' = First + 1 /\ Last' = Last
<1> USE SbufAssumption DEF Goto, sems, SbufInv, TypeOK, MutexInv, Inside, First, Last, At, Thread
<1>1. ASSUME NEW p \in Producer, CallInsert(p) PROVE First' = First /\ Last' = Last
  BY <1>1 DEF CallInsert
<1>2. ASSUME NEW p \in Producer, WaitSlot(p) PROVE First' = First /\ Last' = Last
  BY <1>2 DEF WaitSlot
<1>3. ASSUME NEW p \in Producer, InsertLock(p) PROVE First' = First /\ Last' = Last
  BY <1>3 DEF InsertLock
<1>4. ASSUME NEW p \in Producer, IncRear(p) PROVE First' = First /\ Last' = Last
  BY <1>4, IndexFacts DEF IncRear
<1>5. ASSUME NEW p \in Producer, Store(p) PROVE First' = First /\ Last' = Last + 1
  BY <1>5, IndexFacts DEF Store
<1>6. ASSUME NEW p \in Producer, InsertUnlock(p) PROVE First' = First /\ Last' = Last
  BY <1>6 DEF InsertUnlock
<1>7. ASSUME NEW p \in Producer, SignalItem(p) PROVE First' = First /\ Last' = Last
  BY <1>7 DEF SignalItem
<1>8. ASSUME NEW c \in Consumer, CallRemove(c) PROVE First' = First /\ Last' = Last
  BY <1>8 DEF CallRemove
<1>9. ASSUME NEW c \in Consumer, WaitItem(c) PROVE First' = First /\ Last' = Last
  BY <1>9 DEF WaitItem
<1>10. ASSUME NEW c \in Consumer, RemoveLock(c) PROVE First' = First /\ Last' = Last
  BY <1>10 DEF RemoveLock
<1>11. ASSUME NEW c \in Consumer, IncFront(c) PROVE First' = First /\ Last' = Last
  BY <1>11, IndexFacts DEF IncFront
<1>12. ASSUME NEW c \in Consumer, Load(c) PROVE First' = First + 1 /\ Last' = Last
  BY <1>12, IndexFacts DEF Load
<1>13. ASSUME NEW c \in Consumer, RemoveUnlock(c) PROVE First' = First /\ Last' = Last
  BY <1>13 DEF RemoveUnlock
<1>14. ASSUME NEW c \in Consumer, SignalSlot(c) PROVE First' = First /\ Last' = Last
  BY <1>14 DEF SignalSlot
<1> QED
  BY <1>1, <1>2, <1>3, <1>4, <1>5, <1>6, <1>7, <1>8,
     <1>9, <1>10, <1>11, <1>12, <1>13, <1>14

(* One step per action: which of the accounted sets the thread enters or
   leaves, where the filled part of the buffer begins and ends afterwards,
   and from these the three parts of the invariant. *)
LEMMA StepInv ==
  ASSUME MaxInserts <= IntMax, SbufInv, [Next]_vars
  PROVE  SbufInv'
<1> USE DEF Goto, sems
<1>0. CASE UNCHANGED vars
  BY <1>0 DEF SbufInv, vars, TypeOK, MutexInv, CountInv, Inside, Calling,
     Reserved, Announcing, Claimed, Returning, First, Last, At
<1>T. /\ TypeOK /\ MutexInv /\ CountInv /\ wild = {}
      /\ First \in Int /\ Last \in Int
      /\ slots \in Nat /\ items \in Nat /\ inserts \in Nat /\ rear \in Int
      /\ N \in Nat
  BY IndexFacts, SbufAssumption DEF SbufInv, TypeOK
<1>1. ASSUME NEW p \in Producer, CallInsert(p) PROVE SbufInv'
  <2>0. p \in Thread
    BY DEF Thread
  <2>1. /\ Calling' = Calling \cup {p} /\ p \notin Calling
        /\ Reserved' = Reserved
        /\ Announcing' = Announcing
        /\ Claimed' = Claimed
        /\ Returning' = Returning
    BY <1>1, <2>0, <1>T DEF CallInsert, TypeOK, Calling, Reserved, Announcing, Claimed, Returning, At
  <2>2. /\ Cardinality(Calling') = Cardinality(Calling) + 1
    BY <2>0, <2>1, SizeFacts
       DEF Calling, Reserved, Announcing, Claimed, Returning, At
  <2>3. First' = First /\ Last' = Last
    BY <1>1, EndsStep
  <2>4. slots' = slots /\ items' = items /\ inserts' = inserts + 1 /\ rear' = rear
    BY <1>1, <2>0, <1>T DEF CallInsert, P, V
  <2>5. TypeOK' /\ wild' = {}
    BY <1>1, <2>0, <1>T, SbufAssumption DEF CallInsert, TypeOK, Label, P, V
  <2>6. MutexInv'
    BY <1>1, <2>0, <1>T DEF CallInsert, TypeOK, MutexInv, Inside, At, P, V
  <2>7. CountInv'
    BY <1>T, <2>1, <2>2, <2>3, <2>4, Sizes DEF CountInv
  <2> QED
    BY <2>5, <2>6, <2>7 DEF SbufInv
<1>2. ASSUME NEW p \in Producer, WaitSlot(p) PROVE SbufInv'
  <2>0. p \in Thread
    BY DEF Thread
  <2>1. /\ Calling' = Calling
        /\ Reserved' = Reserved \cup {p} /\ p \notin Reserved
        /\ Announcing' = Announcing
        /\ Claimed' = Claimed
        /\ Returning' = Returning
    BY <1>2, <2>0, <1>T DEF WaitSlot, TypeOK, Calling, Reserved, Announcing, Claimed, Returning, At
  <2>2. /\ Cardinality(Reserved') = Cardinality(Reserved) + 1
    BY <2>0, <2>1, SizeFacts
       DEF Calling, Reserved, Announcing, Claimed, Returning, At
  <2>3. First' = First /\ Last' = Last
    BY <1>2, EndsStep
  <2>4. slots' = slots - 1 /\ items' = items /\ inserts' = inserts /\ rear' = rear
    BY <1>2, <2>0, <1>T DEF WaitSlot, P, V
  <2>5. TypeOK' /\ wild' = {}
    BY <1>2, <2>0, <1>T DEF WaitSlot, TypeOK, Label, P, V
  <2>6. MutexInv'
    BY <1>2, <2>0, <1>T DEF WaitSlot, TypeOK, MutexInv, Inside, At, P, V
  <2>7. CountInv'
    BY <1>T, <2>1, <2>2, <2>3, <2>4, Sizes DEF CountInv
  <2> QED
    BY <2>5, <2>6, <2>7 DEF SbufInv
<1>3. ASSUME NEW p \in Producer, InsertLock(p) PROVE SbufInv'
  <2>0. p \in Thread
    BY DEF Thread
  <2>1. /\ Calling' = Calling
        /\ Reserved' = Reserved
        /\ Announcing' = Announcing
        /\ Claimed' = Claimed
        /\ Returning' = Returning
    BY <1>3, <2>0, <1>T DEF InsertLock, TypeOK, Calling, Reserved, Announcing, Claimed, Returning, At
  <2>3. First' = First /\ Last' = Last
    BY <1>3, EndsStep
  <2>4. slots' = slots /\ items' = items /\ inserts' = inserts /\ rear' = rear
    BY <1>3, <2>0, <1>T DEF InsertLock, P, V
  <2>5. TypeOK' /\ wild' = {}
    BY <1>3, <2>0, <1>T DEF InsertLock, TypeOK, Label, P, V, MutexInv, Inside, At
  <2>6. MutexInv'
    BY <1>3, <2>0, <1>T DEF InsertLock, TypeOK, MutexInv, Inside, At, P, V
  <2>7. CountInv'
    BY <1>T, <2>1, <2>3, <2>4, Sizes DEF CountInv
  <2> QED
    BY <2>5, <2>6, <2>7 DEF SbufInv
<1>4. ASSUME NEW p \in Producer, IncRear(p) PROVE SbufInv'
  <2>0. p \in Thread
    BY DEF Thread
  <2>1. /\ Calling' = Calling \ {p} /\ p \in Calling
        /\ Reserved' = Reserved
        /\ Announcing' = Announcing
        /\ Claimed' = Claimed
        /\ Returning' = Returning
    BY <1>4, <2>0, <1>T DEF IncRear, TypeOK, Calling, Reserved, Announcing, Claimed, Returning, At
  <2>2. /\ Cardinality(Calling') = Cardinality(Calling) - 1
    BY <2>0, <2>1, SizeFacts
       DEF Calling, Reserved, Announcing, Claimed, Returning, At
  <2>3. First' = First /\ Last' = Last
    BY <1>4, EndsStep
  <2>4. slots' = slots /\ items' = items /\ inserts' = inserts /\ rear' = rear + 1
    BY <1>4, <2>0, <1>T, IndexFacts DEF IncRear, P, V
  <2>5. TypeOK' /\ wild' = {}
    <3>1. rear' \in Int
      BY <1>4, <2>0, <1>T, IndexFacts DEF IncRear, TypeOK
    <3> QED
      BY <1>4, <2>0, <1>T, <3>1 DEF IncRear, TypeOK, Label
  <2>6. MutexInv'
    BY <1>4, <2>0, <1>T DEF IncRear, TypeOK, MutexInv, Inside, At, P, V
  <2>7. CountInv'
    BY <1>T, <2>1, <2>2, <2>3, <2>4, Sizes DEF CountInv
  <2> QED
    BY <2>5, <2>6, <2>7 DEF SbufInv
<1>5. ASSUME NEW p \in Producer, Store(p) PROVE SbufInv'
  <2>0. p \in Thread
    BY DEF Thread
  <2>1. /\ Calling' = Calling
        /\ Reserved' = Reserved \ {p} /\ p \in Reserved
        /\ Announcing' = Announcing \cup {p} /\ p \notin Announcing
        /\ Claimed' = Claimed
        /\ Returning' = Returning
    BY <1>5, <2>0, <1>T DEF Store, TypeOK, Calling, Reserved, Announcing, Claimed, Returning, At
  <2>2. /\ Cardinality(Reserved') = Cardinality(Reserved) - 1
        /\ Cardinality(Announcing') = Cardinality(Announcing) + 1
    BY <2>0, <2>1, SizeFacts
       DEF Calling, Reserved, Announcing, Claimed, Returning, At
  <2>3. First' = First /\ Last' = Last + 1
    BY <1>5, EndsStep
  <2>4. slots' = slots /\ items' = items /\ inserts' = inserts /\ rear' = rear
    BY <1>5, <2>0, <1>T DEF Store, P, V
  <2>5. TypeOK' /\ wild' = {}
    <3>1. Mod(rear) \in 0..(N - 1)
      BY <1>5, <2>0, <1>T, IndexFacts, ModInRange DEF Store
    <3>2. wild' = {} /\ buf' = [buf EXCEPT ![Mod(rear)] = item[p]]
      BY <1>5, <2>0, <1>T, <3>1 DEF Store
    <3> QED
      BY <1>5, <2>0, <1>T, <3>1, <3>2 DEF Store, TypeOK, Label
  <2>6. MutexInv'
    BY <1>5, <2>0, <1>T DEF Store, TypeOK, MutexInv, Inside, At, P, V
  <2>7. CountInv'
    <3>1. slots' + Cardinality(Reserved') + (Last' - First') + Cardinality(Returning') = N
      BY <1>T, <2>1, <2>2, <2>3, <2>4, Sizes DEF CountInv
    <3>2. items' + Cardinality(Announcing') + Cardinality(Claimed') = Last' - First'
      BY <1>T, <2>1, <2>2, <2>3, <2>4, Sizes DEF CountInv
    <3>3. rear' + Cardinality(Calling') = inserts' /\ First' >= 0
      BY <1>T, <2>1, <2>2, <2>3, <2>4, Sizes DEF CountInv
    <3> QED
      BY <3>1, <3>2, <3>3 DEF CountInv
  <2> QED
    BY <2>5, <2>6, <2>7 DEF SbufInv
<1>6. ASSUME NEW p \in Producer, InsertUnlock(p) PROVE SbufInv'
  <2>0. p \in Thread
    BY DEF Thread
  <2>1. /\ Calling' = Calling
        /\ Reserved' = Reserved
        /\ Announcing' = Announcing
        /\ Claimed' = Claimed
        /\ Returning' = Returning
    BY <1>6, <2>0, <1>T DEF InsertUnlock, TypeOK, Calling, Reserved, Announcing, Claimed, Returning, At
  <2>3. First' = First /\ Last' = Last
    BY <1>6, EndsStep
  <2>4. slots' = slots /\ items' = items /\ inserts' = inserts /\ rear' = rear
    BY <1>6, <2>0, <1>T DEF InsertUnlock, P, V
  <2>5. TypeOK' /\ wild' = {}
    BY <1>6, <2>0, <1>T DEF InsertUnlock, TypeOK, Label, P, V, MutexInv, Inside, At
  <2>6. MutexInv'
    BY <1>6, <2>0, <1>T DEF InsertUnlock, TypeOK, MutexInv, Inside, At, P, V
  <2>7. CountInv'
    BY <1>T, <2>1, <2>3, <2>4, Sizes DEF CountInv
  <2> QED
    BY <2>5, <2>6, <2>7 DEF SbufInv
<1>7. ASSUME NEW p \in Producer, SignalItem(p) PROVE SbufInv'
  <2>0. p \in Thread
    BY DEF Thread
  <2>1. /\ Calling' = Calling
        /\ Reserved' = Reserved
        /\ Announcing' = Announcing \ {p} /\ p \in Announcing
        /\ Claimed' = Claimed
        /\ Returning' = Returning
    BY <1>7, <2>0, <1>T DEF SignalItem, TypeOK, Calling, Reserved, Announcing, Claimed, Returning, At
  <2>2. /\ Cardinality(Announcing') = Cardinality(Announcing) - 1
    BY <2>0, <2>1, SizeFacts
       DEF Calling, Reserved, Announcing, Claimed, Returning, At
  <2>3. First' = First /\ Last' = Last
    BY <1>7, EndsStep
  <2>4. slots' = slots /\ items' = items + 1 /\ inserts' = inserts /\ rear' = rear
    BY <1>7, <2>0, <1>T DEF SignalItem, P, V
  <2>5. TypeOK' /\ wild' = {}
    BY <1>7, <2>0, <1>T DEF SignalItem, TypeOK, Label, P, V
  <2>6. MutexInv'
    BY <1>7, <2>0, <1>T DEF SignalItem, TypeOK, MutexInv, Inside, At, P, V
  <2>7. CountInv'
    BY <1>T, <2>1, <2>2, <2>3, <2>4, Sizes DEF CountInv
  <2> QED
    BY <2>5, <2>6, <2>7 DEF SbufInv
<1>8. ASSUME NEW c \in Consumer, CallRemove(c) PROVE SbufInv'
  <2>0. c \in Thread
    BY DEF Thread
  <2>1. /\ Calling' = Calling
        /\ Reserved' = Reserved
        /\ Announcing' = Announcing
        /\ Claimed' = Claimed
        /\ Returning' = Returning
    BY <1>8, <2>0, <1>T DEF CallRemove, TypeOK, Calling, Reserved, Announcing, Claimed, Returning, At
  <2>3. First' = First /\ Last' = Last
    BY <1>8, EndsStep
  <2>4. slots' = slots /\ items' = items /\ inserts' = inserts /\ rear' = rear
    BY <1>8, <2>0, <1>T DEF CallRemove, P, V
  <2>5. TypeOK' /\ wild' = {}
    BY <1>8, <2>0, <1>T, SbufAssumption DEF CallRemove, TypeOK, Label, P, V
  <2>6. MutexInv'
    BY <1>8, <2>0, <1>T DEF CallRemove, TypeOK, MutexInv, Inside, At, P, V
  <2>7. CountInv'
    BY <1>T, <2>1, <2>3, <2>4, Sizes DEF CountInv
  <2> QED
    BY <2>5, <2>6, <2>7 DEF SbufInv
<1>9. ASSUME NEW c \in Consumer, WaitItem(c) PROVE SbufInv'
  <2>0. c \in Thread
    BY DEF Thread
  <2>1. /\ Calling' = Calling
        /\ Reserved' = Reserved
        /\ Announcing' = Announcing
        /\ Claimed' = Claimed \cup {c} /\ c \notin Claimed
        /\ Returning' = Returning
    BY <1>9, <2>0, <1>T DEF WaitItem, TypeOK, Calling, Reserved, Announcing, Claimed, Returning, At
  <2>2. /\ Cardinality(Claimed') = Cardinality(Claimed) + 1
    BY <2>0, <2>1, SizeFacts
       DEF Calling, Reserved, Announcing, Claimed, Returning, At
  <2>3. First' = First /\ Last' = Last
    BY <1>9, EndsStep
  <2>4. slots' = slots /\ items' = items - 1 /\ inserts' = inserts /\ rear' = rear
    BY <1>9, <2>0, <1>T DEF WaitItem, P, V
  <2>5. TypeOK' /\ wild' = {}
    BY <1>9, <2>0, <1>T DEF WaitItem, TypeOK, Label, P, V
  <2>6. MutexInv'
    BY <1>9, <2>0, <1>T DEF WaitItem, TypeOK, MutexInv, Inside, At, P, V
  <2>7. CountInv'
    BY <1>T, <2>1, <2>2, <2>3, <2>4, Sizes DEF CountInv
  <2> QED
    BY <2>5, <2>6, <2>7 DEF SbufInv
<1>10. ASSUME NEW c \in Consumer, RemoveLock(c) PROVE SbufInv'
  <2>0. c \in Thread
    BY DEF Thread
  <2>1. /\ Calling' = Calling
        /\ Reserved' = Reserved
        /\ Announcing' = Announcing
        /\ Claimed' = Claimed
        /\ Returning' = Returning
    BY <1>10, <2>0, <1>T DEF RemoveLock, TypeOK, Calling, Reserved, Announcing, Claimed, Returning, At
  <2>3. First' = First /\ Last' = Last
    BY <1>10, EndsStep
  <2>4. slots' = slots /\ items' = items /\ inserts' = inserts /\ rear' = rear
    BY <1>10, <2>0, <1>T DEF RemoveLock, P, V
  <2>5. TypeOK' /\ wild' = {}
    BY <1>10, <2>0, <1>T DEF RemoveLock, TypeOK, Label, P, V, MutexInv, Inside, At
  <2>6. MutexInv'
    BY <1>10, <2>0, <1>T DEF RemoveLock, TypeOK, MutexInv, Inside, At, P, V
  <2>7. CountInv'
    BY <1>T, <2>1, <2>3, <2>4, Sizes DEF CountInv
  <2> QED
    BY <2>5, <2>6, <2>7 DEF SbufInv
<1>11. ASSUME NEW c \in Consumer, IncFront(c) PROVE SbufInv'
  <2>0. c \in Thread
    BY DEF Thread
  <2>1. /\ Calling' = Calling
        /\ Reserved' = Reserved
        /\ Announcing' = Announcing
        /\ Claimed' = Claimed
        /\ Returning' = Returning
    BY <1>11, <2>0, <1>T DEF IncFront, TypeOK, Calling, Reserved, Announcing, Claimed, Returning, At
  <2>3. First' = First /\ Last' = Last
    BY <1>11, EndsStep
  <2>4. slots' = slots /\ items' = items /\ inserts' = inserts /\ rear' = rear
    BY <1>11, <2>0, <1>T DEF IncFront, P, V
  <2>5. TypeOK' /\ wild' = {}
    <3>1. front' \in Int
      BY <1>11, <2>0, <1>T, IndexFacts DEF IncFront, TypeOK
    <3> QED
      BY <1>11, <2>0, <1>T, <3>1 DEF IncFront, TypeOK, Label
  <2>6. MutexInv'
    BY <1>11, <2>0, <1>T DEF IncFront, TypeOK, MutexInv, Inside, At, P, V
  <2>7. CountInv'
    BY <1>T, <2>1, <2>3, <2>4, Sizes DEF CountInv
  <2> QED
    BY <2>5, <2>6, <2>7 DEF SbufInv
<1>12. ASSUME NEW c \in Consumer, Load(c) PROVE SbufInv'
  <2>0. c \in Thread
    BY DEF Thread
  <2>1. /\ Calling' = Calling
        /\ Reserved' = Reserved
        /\ Announcing' = Announcing
        /\ Claimed' = Claimed \ {c} /\ c \in Claimed
        /\ Returning' = Returning \cup {c} /\ c \notin Returning
    BY <1>12, <2>0, <1>T DEF Load, TypeOK, Calling, Reserved, Announcing, Claimed, Returning, At
  <2>2. /\ Cardinality(Claimed') = Cardinality(Claimed) - 1
        /\ Cardinality(Returning') = Cardinality(Returning) + 1
    BY <2>0, <2>1, SizeFacts
       DEF Calling, Reserved, Announcing, Claimed, Returning, At
  <2>3. First' = First + 1 /\ Last' = Last
    BY <1>12, EndsStep
  <2>4. slots' = slots /\ items' = items /\ inserts' = inserts /\ rear' = rear
    BY <1>12, <2>0, <1>T DEF Load, P, V
  <2>5. TypeOK' /\ wild' = {}
    <3>1. Mod(front) \in 0..(N - 1)
      BY <1>12, <2>0, <1>T, IndexFacts, ModInRange DEF Load
    <3>2. wild' = {} /\ removed' = [removed EXCEPT ![c] = buf[Mod(front)]]
      BY <1>12, <2>0, <1>T, <3>1 DEF Load
    <3> QED
      BY <1>12, <2>0, <1>T, <3>1, <3>2 DEF Load, TypeOK, Label
  <2>6. MutexInv'
    BY <1>12, <2>0, <1>T DEF Load, TypeOK, MutexInv, Inside, At, P, V
  <2>7. CountInv'
    BY <1>T, <2>1, <2>2, <2>3, <2>4, Sizes DEF CountInv
  <2> QED
    BY <2>5, <2>6, <2>7 DEF SbufInv
<1>13. ASSUME NEW c \in Consumer, RemoveUnlock(c) PROVE SbufInv'
  <2>0. c \in Thread
    BY DEF Thread
  <2>1. /\ Calling' = Calling
        /\ Reserved' = Reserved
        /\ Announcing' = Announcing
        /\ Claimed' = Claimed
        /\ Returning' = Returning
    BY <1>13, <2>0, <1>T DEF RemoveUnlock, TypeOK, Calling, Reserved, Announcing, Claimed, Returning, At
  <2>3. First' = First /\ Last' = Last
    BY <1>13, EndsStep
  <2>4. slots' = slots /\ items' = items /\ inserts' = inserts /\ rear' = rear
    BY <1>13, <2>0, <1>T DEF RemoveUnlock, P, V
  <2>5. TypeOK' /\ wild' = {}
    BY <1>13, <2>0, <1>T DEF RemoveUnlock, TypeOK, Label, P, V, MutexInv, Inside, At
  <2>6. MutexInv'
    BY <1>13, <2>0, <1>T DEF RemoveUnlock, TypeOK, MutexInv, Inside, At, P, V
  <2>7. CountInv'
    BY <1>T, <2>1, <2>3, <2>4, Sizes DEF CountInv
  <2> QED
    BY <2>5, <2>6, <2>7 DEF SbufInv
<1>14. ASSUME NEW c \in Consumer, SignalSlot(c) PROVE SbufInv'
  <2>0. c \in Thread
    BY DEF Thread
  <2>1. /\ Calling' = Calling
        /\ Reserved' = Reserved
        /\ Announcing' = Announcing
        /\ Claimed' = Claimed
        /\ Returning' = Returning \ {c} /\ c \in Returning
    BY <1>14, <2>0, <1>T DEF SignalSlot, TypeOK, Calling, Reserved, Announcing, Claimed, Returning, At
  <2>2. /\ Cardinality(Returning') = Cardinality(Returning) - 1
    BY <2>0, <2>1, SizeFacts
       DEF Calling, Reserved, Announcing, Claimed, Returning, At
  <2>3. First' = First /\ Last' = Last
    BY <1>14, EndsStep
  <2>4. slots' = slots + 1 /\ items' = items /\ inserts' = inserts /\ rear' = rear
    BY <1>14, <2>0, <1>T DEF SignalSlot, P, V
  <2>5. TypeOK' /\ wild' = {}
    BY <1>14, <2>0, <1>T DEF SignalSlot, TypeOK, Label, P, V
  <2>6. MutexInv'
    BY <1>14, <2>0, <1>T DEF SignalSlot, TypeOK, MutexInv, Inside, At, P, V
  <2>7. CountInv'
    BY <1>T, <2>1, <2>2, <2>3, <2>4, Sizes DEF CountInv
  <2> QED
    BY <2>5, <2>6, <2>7 DEF SbufInv
<1> QED
  BY <1>0, <1>1, <1>2, <1>3, <1>4, <1>5, <1>6, <1>7,
     <1>8, <1>9, <1>10, <1>11, <1>12, <1>13, <1>14
     DEF Next, Insert, Remove

-----------------------------------------------------------------------
(* The semaphores account for every slot and every item, at most one thread
   is inside, and no index leaves the array (sbuf.c:18-36). *)
THEOREM SbufCorrect == MaxInserts <= IntMax => (Spec => []SbufInv)
<1> SUFFICES ASSUME MaxInserts <= IntMax PROVE Spec => []SbufInv
  OBVIOUS
<1>1. SbufInv /\ [Next]_vars => SbufInv'
  BY StepInv
<1> QED
  BY <1>1, InitInv, PTL DEF Spec

(* The buffer implements the bounded FIFO queue: no descriptor is lost,
   overwritten, handed out twice or overtaken. *)
THEOREM SbufRefinement == MaxInserts <= IntMax => (Spec => ImplementsQueue)
<1> SUFFICES ASSUME MaxInserts <= IntMax PROVE Spec => ImplementsQueue
  OBVIOUS
<1>1. Init => Abstract!Init
  <2> SUFFICES ASSUME Init PROVE Abstract!Init
    OBVIOUS
  <2>1. First = 0 /\ Last = 0
    BY DEF Init, First, Last, At
  <2>2. Filled = <<>>
    BY <2>1 DEF Filled
  <2> QED
    BY <2>2, SbufAssumption DEF Init, Abstract!Init
<1>2. SbufInv /\ [Next]_vars => [Abstract!Next]_(Abstract!vars)
  <2> SUFFICES ASSUME SbufInv, [Next]_vars
               PROVE  [Abstract!Next]_(Abstract!vars)
    OBVIOUS
  <2> USE DEF Goto
  <2>0. CASE UNCHANGED vars
    BY <2>0 DEF vars, Abstract!vars, Filled, First, Last, At
  <2>1. ASSUME NEW p \in Producer, CallInsert(p) PROVE Abstract!Offer(p)
    <3>1. Filled' = Filled
      BY <2>1, EndsStep DEF CallInsert, Filled
    <3> QED
      BY <2>1, <3>1 DEF CallInsert, Abstract!Offer
  <2>2. ASSUME NEW p \in Producer, Store(p) PROVE Abstract!Enqueue(p)
    <3>1. /\ First \in Nat /\ Last \in Nat /\ First <= Last /\ Last - First < N
          /\ rear = Last + 1 /\ N \in Nat
          /\ First' = First /\ Last' = Last + 1
      BY <2>2, IndexFacts, EndsStep, SbufAssumption DEF Store
    <3>2. buf' = [buf EXCEPT ![Mod(rear)] = item[p]]
      BY <2>2, <3>1, ModInRange DEF Store
    <3>3. buf \in [0..(N - 1) -> Item]
      BY DEF SbufInv, TypeOK
    <3> DEFINE k == Last - First
    <3>4. \A i \in 1..k : buf'[Mod(First + i)] = buf[Mod(First + i)]
      <4> TAKE i \in 1..k
      <4>1. Mod(First + i) # Mod(rear)
        BY <3>1, ModDistinct
      <4>2. Mod(First + i) \in 0..(N - 1)
        BY <3>1, ModInRange
      <4> QED
        BY <3>2, <3>3, <4>1, <4>2
    <3>5. buf'[Mod(First + (k + 1))] = item[p]
      BY <3>1, <3>2, <3>3, ModInRange
    <3>6. Filled = [i \in 1..k |-> buf[Mod(First + i)]]
      BY DEF Filled
    <3>7. Filled' = [i \in 1..(k + 1) |-> buf'[Mod(First + i)]]
      BY <3>1 DEF Filled
    <3>8. k \in Nat /\ k < N
      BY <3>1
    <3> HIDE DEF k
    <3>9. Len(Filled) = k
      BY <3>6, <3>8
    <3>10. \A i \in 1..(k + 1) :
             Filled'[i] = IF i <= k THEN Filled[i] ELSE item[p]
      <4> TAKE i \in 1..(k + 1)
      <4>1. CASE i \in 1..k
        BY <4>1, <3>4, <3>6, <3>7, <3>8
      <4>2. CASE i = k + 1
        BY <4>2, <3>5, <3>7, <3>8
      <4> QED
        BY <4>1, <4>2, <3>8
    <3>11. Append(Filled, item[p])
             = [i \in 1..(k + 1) |-> IF i <= k THEN Filled[i] ELSE item[p]]
      BY <3>6, <3>8, <3>9
    <3>12. Filled' = Append(Filled, item[p])
      BY <3>7, <3>10, <3>11
    <3> QED
      BY <2>2, <3>8, <3>9, <3>12 DEF Store, Abstract!Enqueue
  <2>3. ASSUME NEW c \in Consumer, Load(c) PROVE Abstract!Dequeue(c)
    <3>1. /\ First \in Nat /\ Last \in Nat /\ First < Last
          /\ front = First + 1
          /\ First' = First + 1 /\ Last' = Last
      BY <2>3, IndexFacts, EndsStep DEF Load
    <3>2. removed' = [removed EXCEPT ![c] = buf[Mod(First + 1)]] /\ buf' = buf
      BY <2>3, <3>1, ModInRange DEF Load
    <3> DEFINE k == Last - First
    <3>3. Filled = [i \in 1..k |-> buf[Mod(First + i)]]
      BY DEF Filled
    <3>4. Filled' = [i \in 1..(k - 1) |-> buf[Mod(First + 1 + i)]]
      BY <3>1, <3>2 DEF Filled
    <3>5. k \in Nat /\ k > 0
      BY <3>1
    <3> HIDE DEF k
    <3>6. Filled # <<>> /\ Head(Filled) = buf[Mod(First + 1)]
      BY <3>3, <3>5
    <3>7. Filled' = Tail(Filled)
      BY <3>1, <3>3, <3>4, <3>5
    <3> QED
      BY <2>3, <3>2, <3>6, <3>7 DEF Load, Abstract!Dequeue
  <2>4. ASSUME NEW p \in Producer,
               WaitSlot(p) \/ InsertLock(p) \/ IncRear(p)
                 \/ InsertUnlock(p) \/ SignalItem(p)
        PROVE  UNCHANGED Abstract!vars
    BY <2>4, EndsStep DEF WaitSlot, InsertLock, IncRear, InsertUnlock,
       SignalItem, Abstract!vars, Filled
  <2>5. ASSUME NEW c \in Consumer,
               CallRemove(c) \/ WaitItem(c) \/ RemoveLock(c) \/ IncFront(c)
                 \/ RemoveUnlock(c) \/ SignalSlot(c)
        PROVE  UNCHANGED Abstract!vars
    BY <2>5, EndsStep DEF CallRemove, WaitItem, RemoveLock, IncFront,
       RemoveUnlock, SignalSlot, Abstract!vars, Filled
  <2> QED
    BY <2>0, <2>1, <2>2, <2>3, <2>4, <2>5 DEF Next, Insert, Remove, Abstract!Next
<1>3. Spec => []SbufInv
  BY SbufCorrect
<1> QED
  BY <1>1, <1>2, <1>3, PTL DEF Spec, ImplementsQueue, Abstract!Spec
=======================================================================
