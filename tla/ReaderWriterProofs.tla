---------------------- MODULE ReaderWriterProofs ----------------------
(***************************************************************************)
(* Proofs about the readers-favoured lock, for any finite set of threads:  *)
(* LockInv is inductive, so a writer is alone and readers are favoured,    *)
(* and the semaphores implement the abstract lock RWLock.                  *)
(***************************************************************************)
EXTENDS ReaderWriter, FiniteSetTheorems, TLAPS

(* readcnt, the size of the set of counted threads, is 0 exactly when no
   thread is counted, and moves by one when a thread enters or leaves. *)
LEMMA CountedFacts ==
  ASSUME NEW S \in SUBSET Thread, NEW t \in Thread
  PROVE  /\ IsFiniteSet(S) /\ Cardinality(S) \in Nat
         /\ Cardinality(S) = 0 <=> S = {}
         /\ t \notin S => Cardinality(S \cup {t}) = Cardinality(S) + 1
         /\ t \in S    => Cardinality(S \ {t}) = Cardinality(S) - 1
<1>1. IsFiniteSet(S)
  BY ThreadAssumption, FS_Subset
<1> QED
  BY <1>1, FS_CardinalityType, FS_EmptySet, FS_AddElement, FS_RemoveElement

LEMMA InitInv == Init => LockInv
<1> SUFFICES ASSUME Init PROVE LockInv
  OBVIOUS
<1> USE DEF Init, Inside, Counted, Holding, Writers, At
<1>1. TypeOK /\ MutexInv /\ WriterInv
  BY DEF TypeOK, Label, MutexInv, WriterInv
<1>2. CountInv
  BY FS_EmptySet DEF CountInv
<1> QED
  BY <1>1, <1>2 DEF LockInv

LEMMA StepInv == LockInv /\ [Next]_vars => LockInv'
<1> SUFFICES ASSUME LockInv, [Next]_vars PROVE LockInv'
  OBVIOUS
<1> USE DEF LockInv, Goto, P, V
<1>0. CASE UNCHANGED vars
  BY <1>0 DEF vars, TypeOK, MutexInv, CountInv, WriterInv, Inside, Counted,
              Holding, Writers, At
<1>1. SUFFICES ASSUME NEW t \in Thread, Call(t) \/ Step(t) PROVE LockInv'
  BY <1>0 DEF Next
(* Only PreReadCount and PostReadCount change the set of counted threads. *)
<1>2. CASE PreReadCount(t)
  <2>1. /\ TypeOK' /\ pc[t] = "inc_readcnt"
        /\ Counted' = Counted \cup {t} /\ t \notin Counted
    BY <1>2 DEF PreReadCount, TypeOK, Label, Counted, At
  <2>2. CountInv'
    BY <2>1, <1>2, CountedFacts DEF CountInv, PreReadCount, Counted, At
  <2>3. readcnt' = 1 <=> Counted = {}
    <3>1. readcnt = 0 <=> Counted = {}
      BY CountedFacts DEF CountInv, Counted, At
    <3> QED
      BY <3>1, <1>2 DEF PreReadCount, TypeOK
  <2>4. MutexInv'
    BY <1>2, <2>1 DEF PreReadCount, TypeOK, MutexInv, Inside, At
  <2>5. WriterInv'
    BY <1>2, <2>1, <2>3
       DEF PreReadCount, TypeOK, MutexInv, WriterInv, Inside, Counted,
           Holding, Writers, At
  <2> QED
    BY <2>1, <2>2, <2>4, <2>5
<1>3. CASE PostReadCount(t)
  <2>1. /\ pc[t] = "dec_readcnt"
        /\ Counted' = Counted \ {t} /\ t \in Counted
    BY <1>3 DEF PostReadCount, TypeOK, Label, Counted, At
  <2>2. CountInv' /\ readcnt' \in Nat
    BY <2>1, <1>3, CountedFacts DEF CountInv, PostReadCount, Counted, At, TypeOK
  <2>3. readcnt' = 0 <=> Counted' = {}
    BY <2>1, <2>2, CountedFacts DEF CountInv, Counted, At
  <2>4. TypeOK' /\ MutexInv'
    BY <1>3, <2>2 DEF PostReadCount, TypeOK, Label, MutexInv, Inside, At
  <2>5. WriterInv'
    BY <1>3, <2>1, <2>3, <2>4
       DEF PostReadCount, TypeOK, MutexInv, WriterInv, Inside, Counted,
           Holding, Writers, At
  <2> QED
    BY <2>2, <2>4, <2>5
<1>4. CASE Call(t) \/ (Step(t) /\ ~PreReadCount(t) /\ ~PostReadCount(t))
  <2> USE DEF TypeOK, Label, MutexInv, WriterInv, Inside, Counted, Holding,
              Writers, At
  <2>1. SUFFICES ASSUME Counted' = Counted => CountInv'
                 PROVE  LockInv'
    BY <1>4 DEF Call, Step, CallRead, CallWrite, PreReadLock, CountInv,
       PreReadBlockWriters, PreReadUnlock, PostReadLock,
       PostReadUnblockWriters, PostReadUnlock, PreWrite, PostWrite
  <2>2. CASE CallRead(t)
    BY <2>1, <2>2 DEF CallRead
  <2>3. CASE CallWrite(t)
    BY <2>1, <2>3 DEF CallWrite
  <2>4. CASE PreReadLock(t)
    BY <2>1, <2>4 DEF PreReadLock
  <2>5. CASE PreReadBlockWriters(t)
    BY <2>1, <2>5 DEF PreReadBlockWriters
  <2>6. CASE PreReadUnlock(t)
    BY <2>1, <2>6 DEF PreReadUnlock
  <2>7. CASE PostReadLock(t)
    BY <2>1, <2>7 DEF PostReadLock
  <2>8. CASE PostReadUnblockWriters(t)
    BY <2>1, <2>8 DEF PostReadUnblockWriters
  <2>9. CASE PostReadUnlock(t)
    BY <2>1, <2>9 DEF PostReadUnlock
  <2>10. CASE PreWrite(t)
    BY <2>1, <2>10 DEF PreWrite
  <2>11. CASE PostWrite(t)
    BY <2>1, <2>11 DEF PostWrite
  <2> QED
    BY <1>4, <2>2, <2>3, <2>4, <2>5, <2>6, <2>7, <2>8, <2>9, <2>10, <2>11
       DEF Call, Step
<1> QED
  BY <1>1, <1>2, <1>3, <1>4

(* The semaphores and the reader count always agree with where the threads
   are: nobody forgets or repeats a P or a V of cache.c:45-75. *)
THEOREM LockCorrect == Spec => []LockInv
BY InitInv, StepInv, PTL DEF Spec

(* A thread between pre_write and post_write is alone with the list. *)
THEOREM WriterAlone == Spec => []WriterExclusive
<1>1. LockInv => WriterExclusive
  BY DEF LockInv, WriterInv, WriterExclusive, Holding, Readers, Writers, At
<1> QED
  BY <1>1, LockCorrect, PTL

(* A reader waits for w only when no other reader is inside. *)
THEOREM ReadersFirst == Spec => []ReaderFavoured
<1>1. LockInv => ReaderFavoured
  BY DEF LockInv, WriterInv, ReaderFavoured, Counted, Readers, At
<1> QED
  BY <1>1, LockCorrect, PTL

(* The lock of cache.c implements the abstract reader-writer lock. *)
THEOREM LockRefinement == Spec => ImplementsRWLock
<1> USE DEF Readers, Writers, At
<1>1. Init => Abstract!Init
  BY DEF Init, Abstract!Init
<1>2. LockInv /\ [Next]_vars => [Abstract!Next]_(Abstract!vars)
  <2> SUFFICES ASSUME LockInv, [Next]_vars
               PROVE  [Abstract!Next]_(Abstract!vars)
    OBVIOUS
  <2>0. CASE UNCHANGED vars
    BY <2>0 DEF vars, Abstract!vars
  <2>1. SUFFICES ASSUME NEW t \in Thread, Call(t) \/ Step(t)
                 PROVE  [Abstract!Next]_(Abstract!vars)
    BY <2>0 DEF Next
  <2> USE DEF Goto, P, V, LockInv, TypeOK, Abstract!vars
  <2>2. CASE PreReadCount(t)
    <3>1. CASE readcnt' = 1
      BY <2>2, <3>1 DEF PreReadCount
    <3>2. CASE readcnt' # 1
      <4>1. Counted # {}
        <5>1. readcnt = 0 <=> Counted = {}
          BY CountedFacts DEF CountInv, Counted
        <5> QED
          BY <5>1, <2>2, <3>2 DEF PreReadCount
      <4>2. Writers = {} /\ t \notin Readers
        BY <4>1, <2>2 DEF PreReadCount, MutexInv, WriterInv, Inside, Counted, Holding
      <4>3. Abstract!ReadAcquire(t)
        BY <4>2, <2>2, <3>2 DEF PreReadCount, Abstract!ReadAcquire
      <4> QED
        BY <4>3 DEF Abstract!Next
    <3> QED
      BY <3>1, <3>2
  <2>3. CASE PreReadBlockWriters(t)
    <3>1. Abstract!ReadAcquire(t)
      BY <2>3 DEF PreReadBlockWriters, WriterInv, Holding, Abstract!ReadAcquire
    <3> QED
      BY <3>1 DEF Abstract!Next
  <2>4. CASE PostReadCount(t)
    <3>1. Abstract!ReadRelease(t)
      BY <2>4 DEF PostReadCount, Abstract!ReadRelease
    <3> QED
      BY <3>1 DEF Abstract!Next
  <2>5. CASE PreWrite(t)
    <3>1. Abstract!WriteAcquire(t)
      BY <2>5 DEF PreWrite, WriterInv, Holding, Abstract!WriteAcquire
    <3> QED
      BY <3>1 DEF Abstract!Next
  <2>6. CASE PostWrite(t)
    <3>1. Abstract!WriteRelease(t)
      BY <2>6 DEF PostWrite, Abstract!WriteRelease
    <3> QED
      BY <3>1 DEF Abstract!Next
  <2>7. CASE Call(t) \/ PreReadLock(t) \/ PreReadUnlock(t) \/ PostReadLock(t)
             \/ PostReadUnblockWriters(t) \/ PostReadUnlock(t)
    BY <2>7 DEF Call, CallRead, CallWrite, PreReadLock, PreReadUnlock,
                PostReadLock, PostReadUnblockWriters, PostReadUnlock
  <2> QED
    BY <2>1, <2>2, <2>3, <2>4, <2>5, <2>6, <2>7 DEF Step
<1> QED
  BY <1>1, <1>2, LockCorrect, PTL DEF Spec, ImplementsRWLock, Abstract!Spec
=======================================================================
