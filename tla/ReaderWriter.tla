------------------------- MODULE ReaderWriter -------------------------
(***************************************************************************)
(* The readers-favoured lock of lib/src/cache.c:45-75: two binary          *)
(* semaphores, mutex (protects readcnt) and w (the writer lock), and the   *)
(* count readcnt of readers.  Every P, every V and every update of readcnt *)
(* is a step of its own, so the model has all interleavings of the         *)
(* library's threads.  app/reader-writer.c:13-42 is the same algorithm.    *)
(***************************************************************************)
EXTENDS Integers, FiniteSets

CONSTANT Thread
ASSUME ThreadAssumption == IsFiniteSet(Thread)

VARIABLES mutex,    \* semaphore, 1 initially: protects readcnt
          w,        \* semaphore, 1 initially: writer lock
          readcnt,  \* number of readers that are in or entering
          pc        \* where each thread is: see Label

vars == <<mutex, w, readcnt, pc>>

(***************************************************************************)
(* "pre_read" and "pre_write" wait for their first semaphore; "reading"    *)
(* and "writing" are the callers' critical sections; the others are the    *)
(* statement the thread executes next while it holds mutex.                *)
(***************************************************************************)
Label == {"idle",
          "pre_read", "inc_readcnt", "P_w", "pre_read_V", "reading",
          "dec_readcnt", "V_w", "post_read_V",
          "pre_write", "writing"}

P(sem) == sem > 0 /\ sem' = sem - 1
V(sem) == sem' = sem + 1

Goto(t, from, to) == pc[t] = from /\ pc' = [pc EXCEPT ![t] = to]

Init ==
  /\ mutex = 1 /\ w = 1 /\ readcnt = 0
  /\ pc = [t \in Thread |-> "idle"]

-----------------------------------------------------------------------
(* Faulty variants of the steps below, one per mistake the properties are
   meant to catch. *)
PreReadLockUnguarded(t) ==          \* readcnt updated without P(mutex)
  Goto(t, "pre_read", "inc_readcnt") /\ UNCHANGED <<mutex, w, readcnt>>

PreReadCountNoBlock(t) ==           \* the first reader does not take w
  /\ readcnt' = readcnt + 1
  /\ Goto(t, "inc_readcnt", "pre_read_V")
  /\ UNCHANGED <<mutex, w>>

PreReadCountAlwaysBlock(t) ==       \* every reader takes w
  /\ readcnt' = readcnt + 1
  /\ Goto(t, "inc_readcnt", "P_w")
  /\ UNCHANGED <<mutex, w>>

PostReadCountEarly(t) ==            \* any leaving reader gives w up
  /\ readcnt' = readcnt - 1
  /\ Goto(t, "dec_readcnt", "V_w")
  /\ UNCHANGED <<mutex, w>>

PostReadCountLeak(t) ==             \* the last reader keeps w
  /\ readcnt' = readcnt - 1
  /\ Goto(t, "dec_readcnt", "post_read_V")
  /\ UNCHANGED <<mutex, w>>

-----------------------------------------------------------------------
(* A caller enters pre_read() or pre_write(). *)
CallRead(t)  == Goto(t, "idle", "pre_read")  /\ UNCHANGED <<mutex, w, readcnt>>
CallWrite(t) == Goto(t, "idle", "pre_write") /\ UNCHANGED <<mutex, w, readcnt>>

(* pre_read *)
PreReadLock(t) ==
  Goto(t, "pre_read", "inc_readcnt") /\ P(mutex) /\ UNCHANGED <<w, readcnt>>

PreReadCount(t) ==
  /\ readcnt' = readcnt + 1
  /\ Goto(t, "inc_readcnt", IF readcnt' = 1 THEN "P_w" ELSE "pre_read_V")
  /\ UNCHANGED <<mutex, w>>

PreReadBlockWriters(t) ==
  Goto(t, "P_w", "pre_read_V") /\ P(w) /\ UNCHANGED <<mutex, readcnt>>

PreReadUnlock(t) ==
  Goto(t, "pre_read_V", "reading") /\ V(mutex) /\ UNCHANGED <<w, readcnt>>

(* post_read; a thread that is "reading" ends its section by P(mutex) *)
PostReadLock(t) ==
  Goto(t, "reading", "dec_readcnt") /\ P(mutex) /\ UNCHANGED <<w, readcnt>>

PostReadCount(t) ==
  /\ readcnt' = readcnt - 1
  /\ Goto(t, "dec_readcnt", IF readcnt' = 0 THEN "V_w" ELSE "post_read_V")
  /\ UNCHANGED <<mutex, w>>

PostReadUnblockWriters(t) ==
  Goto(t, "V_w", "post_read_V") /\ V(w) /\ UNCHANGED <<mutex, readcnt>>

PostReadUnlock(t) ==
  Goto(t, "post_read_V", "idle") /\ V(mutex) /\ UNCHANGED <<w, readcnt>>

(* pre_write and post_write *)
PreWrite(t)  ==
  Goto(t, "pre_write", "writing") /\ P(w) /\ UNCHANGED <<mutex, readcnt>>

PostWrite(t) ==
  Goto(t, "writing", "idle") /\ V(w) /\ UNCHANGED <<mutex, readcnt>>

-----------------------------------------------------------------------
Call(t) == CallRead(t) \/ CallWrite(t)

(* The steps a thread takes inside the lock's functions, and out of its
   critical section. *)
Step(t) ==
  \/ PreReadLock(t)  \/ PreReadCount(t)  \/ PreReadBlockWriters(t)
  \/ PreReadUnlock(t)
  \/ PostReadLock(t) \/ PostReadCount(t) \/ PostReadUnblockWriters(t)
  \/ PostReadUnlock(t)
  \/ PreWrite(t) \/ PostWrite(t)

Next == \E t \in Thread : Call(t) \/ Step(t)

Spec == Init /\ [][Next]_vars

(* A thread that can run does run, and every section of cache.c ends.
   Nothing is assumed of the order in which a semaphore wakes its waiters. *)
FairSpec == Spec /\ \A t \in Thread : WF_vars(Step(t))

-----------------------------------------------------------------------
At(labels) == {t \in Thread : pc[t] \in labels}

(* Threads between P(mutex) and V(mutex); the ones readcnt counts; the ones
   on whose behalf w is held. *)
Inside  == At({"inc_readcnt", "P_w", "pre_read_V",
               "dec_readcnt", "V_w", "post_read_V"})
Counted == At({"P_w", "pre_read_V", "reading", "dec_readcnt"})
Holding == At({"pre_read_V", "reading", "dec_readcnt", "V_w", "writing"})

(* The threads that have read access, and the ones that have write access. *)
Readers == At({"pre_read_V", "reading", "dec_readcnt"})
Writers == At({"writing"})

(* Semaphores stay binary, readcnt counts threads. *)
TypeOK ==
  /\ mutex \in {0, 1} /\ w \in {0, 1}
  /\ readcnt \in Nat
  /\ pc \in [Thread -> Label]

(* mutex is 0 exactly while one thread is between its P and its V. *)
MutexInv ==
  /\ mutex = 0 <=> Inside # {}
  /\ \A t, u \in Inside : t = u

(* readcnt is the number of threads that have entered and not left. *)
CountInv == readcnt = Cardinality(Counted)

(* w is 0 exactly while readers or one writer hold it; the first reader
   waits for it before anyone else is counted, the last one gives it up
   after everyone has left. *)
WriterInv ==
  /\ w = 0 <=> Holding # {}
  /\ \A t \in Writers : Holding = {t}
  /\ \A t \in At({"P_w"}) : Counted = {t}
  /\ At({"V_w"}) # {} => Counted = {}

(* The inductive invariant of the lock: together the parts say who holds
   what, at every statement of pre_read, post_read, pre_write, post_write. *)
LockInv == TypeOK /\ MutexInv /\ CountInv /\ WriterInv

(* "Writers must have exclusive access to the object" (cache.h:12): a thread
   between pre_write and post_write is alone, readers included. *)
WriterExclusive ==
  \A t \in Writers : \A u \in Thread : u # t => u \notin Readers \cup Writers

(* Readers-favoured (cache.h:10, README.md:83): a reader ever waits for the
   writer lock only when no other reader is inside, so a waiting writer never
   holds up a reader that arrives while others read. *)
ReaderFavoured == At({"P_w"}) # {} => Readers = {}

(* The semaphores implement the abstract reader-writer lock. *)
Abstract == INSTANCE RWLock WITH readers <- Readers, writers <- Writers
ImplementsRWLock == Abstract!Spec

(* No lost wake-up and no deadlock between mutex and w: once threads stop
   making new calls, every call that is waiting or inside completes, however
   the semaphores choose among their waiters. *)
Quiescence ==
  <>[][\A t \in Thread : ~Call(t)]_vars
    => <>[](\A t \in Thread : pc[t] = "idle")
=======================================================================
