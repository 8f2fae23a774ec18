----------------------------- MODULE Sbuf -----------------------------
(***************************************************************************)
(* The bounded buffer of lib/src/sbuf.c, which carries connection          *)
(* descriptors from the master (listen_on, app/proxy.c:28) to the workers  *)
(* (worker, app/proxy.c:66).  Every semaphore operation is a step, and so  *)
(* are the increment of an index and the access to the slot it selects:    *)
(* only the semaphore mutex makes the two one operation.                   *)
(*                                                                         *)
(* front and rear are C ints that are only ever incremented.  The Debug    *)
(* build (lib/CMakeLists.txt:3) wraps on overflow, and % keeps the sign of *)
(* the dividend; IntMax stands for INT_MAX.                                *)
(***************************************************************************)
EXTENDS Integers, FiniteSets

CONSTANTS Producer, Consumer,  \* the threads that insert and that remove
          Item,                \* connection descriptors
          Zero,                \* the value calloc leaves in a slot
          N,                   \* number of slots (SBUFSIZE)
          IntMax,              \* largest C int
          MaxInserts           \* bound: how many times sbuf_insert is called

ASSUME SbufAssumption ==
  /\ IsFiniteSet(Producer) /\ IsFiniteSet(Consumer)
  /\ Producer \cap Consumer = {}
  /\ Zero \in Item
  /\ N \in Nat \ {0} /\ IntMax \in Nat /\ MaxInserts \in Nat

VARIABLES buf,      \* the slots, indexed 0..N-1
          front,    \* index of the last item removed
          rear,     \* index of the last item inserted
          mutex, slots, items,  \* semaphores
          pc,       \* where each thread is
          item,     \* sbuf_insert's argument, per producer
          removed,  \* sbuf_remove's local variable, per consumer
          inserts,  \* how many calls of sbuf_insert were made
          wild      \* the threads that used an index outside the array

vars == <<buf, front, rear, mutex, slots, items, pc, item, removed, inserts, wild>>
sems == <<mutex, slots, items>>

Thread == Producer \cup Consumer
Label  == {"idle",
           "P_slots", "ins_P_mutex", "inc_rear", "store", "ins_V_mutex", "V_items",
           "P_items", "rem_P_mutex", "inc_front", "load", "rem_V_mutex", "V_slots"}

P(sem) == sem > 0 /\ sem' = sem - 1
V(sem) == sem' = sem + 1
Goto(t, from, to) == pc[t] = from /\ pc' = [pc EXCEPT ![t] = to]

(* C int arithmetic: ++ wraps, % has the sign of its left operand. *)
Inc(i) == IF i = IntMax THEN -IntMax - 1 ELSE i + 1
Mod(i) == IF i >= 0 THEN i % N ELSE -((-i) % N)

(* A faulty sbuf_setup: one slot more than the array has. *)
InitExtraSlot ==
  /\ buf = [i \in 0..(N - 1) |-> Zero] /\ front = 0 /\ rear = 0
  /\ mutex = 1 /\ slots = N + 1 /\ items = 0
  /\ pc = [t \in Thread |-> "idle"]
  /\ item = [p \in Producer |-> Zero] /\ removed = [c \in Consumer |-> Zero]
  /\ inserts = 0 /\ wild = {}

(* sbuf_setup *)
Init ==
  /\ buf = [i \in 0..(N - 1) |-> Zero] /\ front = 0 /\ rear = 0
  /\ mutex = 1 /\ slots = N /\ items = 0
  /\ pc = [t \in Thread |-> "idle"]
  /\ item = [p \in Producer |-> Zero] /\ removed = [c \in Consumer |-> Zero]
  /\ inserts = 0 /\ wild = {}

-----------------------------------------------------------------------
(* Faulty variants of the steps below, one per mistake the properties are
   meant to catch. *)
RemoveLockUnguarded(c) ==            \* sbuf_remove without P(mutex)
  /\ Goto(c, "rem_P_mutex", "inc_front")
  /\ UNCHANGED <<buf, front, rear, sems, item, removed, inserts, wild>>

SignalItemLost(p) ==                 \* sbuf_insert without V(items)
  /\ Goto(p, "V_items", "idle")
  /\ UNCHANGED <<buf, front, rear, sems, item, removed, inserts, wild>>

-----------------------------------------------------------------------
(* sbuf_insert *)
CallInsert(p) ==
  /\ inserts < MaxInserts /\ inserts' = inserts + 1
  /\ Goto(p, "idle", "P_slots")
  /\ \E x \in Item : item' = [item EXCEPT ![p] = x]
  /\ UNCHANGED <<buf, front, rear, sems, removed, wild>>

WaitSlot(p) ==
  /\ Goto(p, "P_slots", "ins_P_mutex") /\ P(slots)
  /\ UNCHANGED <<buf, front, rear, mutex, items, item, removed, inserts, wild>>

InsertLock(p) ==
  /\ Goto(p, "ins_P_mutex", "inc_rear") /\ P(mutex)
  /\ UNCHANGED <<buf, front, rear, slots, items, item, removed, inserts, wild>>

IncRear(p) ==
  /\ Goto(p, "inc_rear", "store")
  /\ rear' = Inc(rear)
  /\ UNCHANGED <<buf, front, sems, item, removed, inserts, wild>>

Store(p) ==
  /\ Goto(p, "store", "ins_V_mutex")
  /\ IF Mod(rear) \in 0..(N - 1)
     THEN buf' = [buf EXCEPT ![Mod(rear)] = item[p]] /\ wild' = wild
     ELSE buf' = buf /\ wild' = wild \cup {p}
  /\ UNCHANGED <<front, rear, sems, item, removed, inserts>>

InsertUnlock(p) ==
  /\ Goto(p, "ins_V_mutex", "V_items") /\ V(mutex)
  /\ UNCHANGED <<buf, front, rear, slots, items, item, removed, inserts, wild>>

SignalItem(p) ==
  /\ Goto(p, "V_items", "idle") /\ V(items)
  /\ UNCHANGED <<buf, front, rear, mutex, slots, item, removed, inserts, wild>>

(* sbuf_remove *)
CallRemove(c) ==
  /\ Goto(c, "idle", "P_items")
  /\ UNCHANGED <<buf, front, rear, sems, item, removed, inserts, wild>>

WaitItem(c) ==
  /\ Goto(c, "P_items", "rem_P_mutex") /\ P(items)
  /\ UNCHANGED <<buf, front, rear, mutex, slots, item, removed, inserts, wild>>

RemoveLock(c) ==
  /\ Goto(c, "rem_P_mutex", "inc_front") /\ P(mutex)
  /\ UNCHANGED <<buf, front, rear, slots, items, item, removed, inserts, wild>>

IncFront(c) ==
  /\ Goto(c, "inc_front", "load")
  /\ front' = Inc(front)
  /\ UNCHANGED <<buf, rear, sems, item, removed, inserts, wild>>

(* what lies outside the array is not known *)
Load(c) ==
  /\ Goto(c, "load", "rem_V_mutex")
  /\ IF Mod(front) \in 0..(N - 1)
     THEN removed' = [removed EXCEPT ![c] = buf[Mod(front)]] /\ wild' = wild
     ELSE \E x \in Item : removed' = [removed EXCEPT ![c] = x] /\ wild' = wild \cup {c}
  /\ UNCHANGED <<buf, front, rear, sems, item, inserts>>

RemoveUnlock(c) ==
  /\ Goto(c, "rem_V_mutex", "V_slots") /\ V(mutex)
  /\ UNCHANGED <<buf, front, rear, slots, items, item, removed, inserts, wild>>

SignalSlot(c) ==
  /\ Goto(c, "V_slots", "idle") /\ V(slots)
  /\ UNCHANGED <<buf, front, rear, mutex, items, item, removed, inserts, wild>>

-----------------------------------------------------------------------
Insert(p) == \/ WaitSlot(p) \/ InsertLock(p) \/ IncRear(p) \/ Store(p)
             \/ InsertUnlock(p) \/ SignalItem(p)
Remove(c) == \/ CallRemove(c) \/ WaitItem(c) \/ RemoveLock(c) \/ IncFront(c)
             \/ Load(c) \/ RemoveUnlock(c) \/ SignalSlot(c)

Next == \/ \E p \in Producer : CallInsert(p) \/ Insert(p)
        \/ \E c \in Consumer : Remove(c)

Spec == Init /\ [][Next]_vars

(* A call of sbuf_insert that can run does, and the workers' loop returns to
   sbuf_remove; the semaphores may choose any waiter. *)
FairSpec == /\ Spec
            /\ \A p \in Producer : WF_vars(Insert(p))
            /\ \A c \in Consumer : WF_vars(Remove(c))

-----------------------------------------------------------------------
At(labels) == {t \in Thread : pc[t] \in labels}

Inside     == At({"inc_rear", "store", "ins_V_mutex",
                  "inc_front", "load", "rem_V_mutex"})
Calling    == At({"P_slots", "ins_P_mutex", "inc_rear"})
Reserved   == At({"ins_P_mutex", "inc_rear", "store"})
Announcing == At({"ins_V_mutex", "V_items"})
Claimed    == At({"rem_P_mutex", "inc_front", "load"})
Returning  == At({"rem_V_mutex", "V_slots"})

(* The part of the buffer that is filled: an index that was incremented but
   whose slot was not accessed yet does not count. *)
First == IF At({"load"}) = {} THEN front ELSE front - 1
Last  == IF At({"store"}) = {} THEN rear ELSE rear - 1

(* Threads are where their role lets them be and semaphores are not negative. *)
TypeOK ==
  /\ buf \in [0..(N - 1) -> Item] /\ front \in Int /\ rear \in Int
  /\ mutex \in {0, 1} /\ slots \in Nat /\ items \in Nat
  /\ pc \in [Thread -> Label]
  /\ \A p \in Producer : pc[p] \in {"idle", "P_slots", "ins_P_mutex", "inc_rear",
                                    "store", "ins_V_mutex", "V_items"}
  /\ \A c \in Consumer : pc[c] \in {"idle", "P_items", "rem_P_mutex", "inc_front",
                                    "load", "rem_V_mutex", "V_slots"}
  /\ item \in [Producer -> Item] /\ removed \in [Consumer -> Item]
  /\ inserts \in 0..MaxInserts /\ wild \subseteq Thread

MutexInv ==
  /\ mutex = 0 <=> Inside # {}
  /\ \A t, u \in Inside : t = u

(* Every slot is free, promised to a producer, filled, or about to be given
   back by a consumer; every filled slot is announced by items, about to be
   announced, or claimed by a consumer.  All calls are accounted for. *)
CountInv ==
  /\ slots + Cardinality(Reserved) + (Last - First) + Cardinality(Returning) = N
  /\ items + Cardinality(Announcing) + Cardinality(Claimed) = Last - First
  /\ rear + Cardinality(Calling) = inserts
  /\ First >= 0

(* The inductive invariant; it holds as long as the indices do not wrap. *)
SbufInv == TypeOK /\ MutexInv /\ CountInv /\ wild = {}

(* The queue the buffer stands for: the filled slots in index order. *)
Filled == [i \in 1..(Last - First) |-> buf[Mod(First + i)]]

(* Whatever the interleaving, the buffer is a bounded FIFO: a descriptor is
   not overwritten before it was removed, lost, removed twice or overtaken. *)
Abstract == INSTANCE BoundedQueue
              WITH offer <- item, queue <- Filled, taken <- removed
ImplementsQueue == Abstract!Spec

(* Every inserted descriptor is eventually removed: no wake-up is lost. *)
EventuallyRemoved ==
  \A k \in 1..MaxInserts : (Last = k) ~> (First >= k)
=======================================================================
