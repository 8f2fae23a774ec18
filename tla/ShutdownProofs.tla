------------------------- MODULE ShutdownProofs -------------------------
(***************************************************************************)
(* Sections of the cache are apart, for any threads, keys, responses and   *)
(* capacity, wherever and however often SIGTERM arrives.                   *)
(*                                                                         *)
(* Every action either stays outside the sections, or enters or leaves one *)
(* of them; there is a lemma per kind of move.  SectionsApart itself is    *)
(* not inductive: a thread and the handler that interrupted it are one     *)
(* holder of the lock, so the set of writers does not tell which of the    *)
(* two is in its section.  Held says that never both are.                 *)
(***************************************************************************)
EXTENDS Shutdown, CacheProofs

PlaceOK ==
  /\ pc \in [Thread -> Place]
  /\ ret \in [Thread -> {"idle", "copy", "load_test", "free"}]
  /\ hpc \in [Thread \cup {Master} -> {"none", "pre_write", "free"}]

Held ==
  /\ readers = {t \in Thread : pc[t] \in Shared}
  /\ writer = {t \in Thread : pc[t] \in Alone} \cup {t \in Taker : hpc[t] = "free"}
  /\ writer # {} => readers = {} /\ \E t \in Thread \cup Taker : writer = {t}
  /\ \A t \in Thread \cap Taker : ~(pc[t] \in Alone /\ hpc[t] = "free")

SectionInv == PlaceOK /\ (fault = "none" => Held)

-----------------------------------------------------------------------
(* A thread that stays out of the sections leaves the lock as it is. *)
LEMMA StaysOut ==
  ASSUME PlaceOK, Held, NEW t \in Thread, NEW to \in Place,
         pc[t] \notin Shared \cup Alone, to \notin Shared \cup Alone,
         pc' = [pc EXCEPT ![t] = to], UNCHANGED <<lock, hpc>>
  PROVE  Held'
  BY DEF PlaceOK, Held, lock, Shared, Alone

(* A reader enters while there is no writer. *)
LEMMA EntersShared ==
  ASSUME PlaceOK, Held, NEW t \in Thread, NEW to \in Shared,
         pc[t] \notin Shared \cup Alone,
         pc' = [pc EXCEPT ![t] = to], AcquireRead(t), UNCHANGED hpc
  PROVE  Held'
  BY DEF PlaceOK, Held, AcquireRead, Shared, Alone

(* A reader leaves. *)
LEMMA LeavesShared ==
  ASSUME PlaceOK, Held, NEW t \in Thread, NEW to \in Place,
         pc[t] \in Shared, to \notin Shared \cup Alone,
         pc' = [pc EXCEPT ![t] = to], ReleaseRead(t), UNCHANGED hpc
  PROVE  Held'
  BY DEF PlaceOK, Held, ReleaseRead, Shared, Alone

(* A writer enters while there is nobody in a section. *)
LEMMA EntersAlone ==
  ASSUME PlaceOK, Held, NEW t \in Thread, NEW to \in Alone,
         pc[t] \notin Shared \cup Alone,
         pc' = [pc EXCEPT ![t] = to], AcquireWrite(t), UNCHANGED hpc
  PROVE  Held'
  BY DEF PlaceOK, Held, AcquireWrite, Shared, Alone

(* A writer leaves. *)
LEMMA LeavesAlone ==
  ASSUME PlaceOK, Held, NEW t \in Thread, NEW to \in Place,
         pc[t] \in Alone, to \notin Shared \cup Alone,
         pc' = [pc EXCEPT ![t] = to], ReleaseWrite(t), UNCHANGED hpc
  PROVE  Held'
  BY DEF PlaceOK, Held, ReleaseWrite, Shared, Alone

(* What each kind of move does to the inductive invariant. *)
LEMMA Crashes ==
  ASSUME PlaceOK, NEW t, NEW kind, kind # "none", Crash(t, kind), UNCHANGED hpc
  PROVE  SectionInv'
  BY DEF PlaceOK, SectionInv, Crash, locals, Master, Place

-----------------------------------------------------------------------
(* Every step of a thread preserves the invariant, its handler not running. *)
LEMMA ThreadStep ==
  ASSUME SectionInv, NEW t \in Thread, Request(t) \/ Step(t), UNCHANGED hpc,
         hpc[t] = "none", fault = "none"
  PROVE  SectionInv'
<1>. USE DEF SectionInv, Master, Place, Shared, Alone
<1>a. PlaceOK /\ Held
  OBVIOUS
<1>1. CASE Request(t)
  <2>1. PlaceOK'  BY <1>1 DEF Request, Goto, PlaceOK
  <2>2. Held'    BY <1>a, <1>1, StaysOut DEF Request, Goto
  <2>. QED        BY <2>1, <2>2
<1>2. CASE IsCachedLock(t)
  <2>1. PlaceOK'  BY <1>2 DEF IsCachedLock, Goto, PlaceOK, locals
  <2>2. Held'    BY <1>a, <1>2, EntersShared DEF IsCachedLock, Goto
  <2>. QED        BY <2>1, <2>2
<1>3. CASE IsCachedScan(t)
  <2>1. CASE Crash(t, "use_after_free")
    BY <2>1, Crashes
  <2>2. CASE /\ Goto(t, "scan", "update") \/ Goto(t, "scan", "miss")
             /\ ReleaseRead(t) /\ UNCHANGED ret
    <3>1. PlaceOK'  BY <2>2 DEF Goto, PlaceOK
    <3>2. Held'    BY <1>a, <2>2, LeavesShared DEF Goto
    <3>. QED        BY <3>1, <3>2
  <2>. QED
    BY <1>3, <2>1, <2>2 DEF IsCachedScan, locals
<1>4. CASE UpdateLock(t)
  <2>1. PlaceOK'  BY <1>4 DEF UpdateLock, Goto, PlaceOK, locals
  <2>2. Held'    BY <1>a, <1>4, EntersAlone DEF UpdateLock, Goto
  <2>. QED        BY <2>1, <2>2
<1>5. CASE UpdateRelink(t)
  <2>1. CASE Crash(t, "use_after_free")
    BY <2>1, Crashes
  <2>2. CASE /\ Goto(t, "relink", "cache_check") /\ ReleaseWrite(t)
             /\ ret' = [ret EXCEPT ![t] = "copy"]
    <3>1. PlaceOK'  BY <2>2 DEF Goto, PlaceOK
    <3>2. Held'    BY <1>a, <2>2, LeavesAlone DEF Goto
    <3>. QED        BY <3>1, <3>2
  <2>. QED
    BY <1>5, <2>1, <2>2 DEF UpdateRelink
<1>6. CASE CheckLock(t)
  <2>1. PlaceOK'  BY <1>6 DEF CheckLock, Goto, PlaceOK, locals
  <2>2. Held'    BY <1>a, <1>6, EntersShared DEF CheckLock, Goto
  <2>. QED        BY <2>1, <2>2
<1>7. CASE CheckAssert(t)
  <2>1. CASE Crash(t, "assert")
    BY <2>1, Crashes
  <2>2. CASE Goto(t, "assert", ret[t]) /\ ReleaseRead(t) /\ UNCHANGED ret
    <3>1. ret[t] \in {"idle", "copy", "load_test", "free"}
      BY DEF PlaceOK
    <3>2. PlaceOK'  BY <2>2, <3>1 DEF Goto, PlaceOK
    <3>3. Held'    BY <1>a, <2>2, <3>1, LeavesShared DEF Goto
    <3>. QED        BY <3>2, <3>3
  <2>. QED
    BY <1>7, <2>1, <2>2 DEF CheckAssert, locals
<1>8. CASE IsCachedCopy(t)
  <2>1. CASE Crash(t, "use_after_free")
    BY <2>1, Crashes
  <2>2. CASE Goto(t, "copy", "respond") /\ UNCHANGED <<lock, ret>>
    <3>1. PlaceOK'  BY <2>2 DEF Goto, PlaceOK
    <3>2. Held'    BY <1>a, <2>2, StaysOut DEF Goto
    <3>. QED        BY <3>1, <3>2
  <2>. QED
    BY <1>8, <2>1, <2>2 DEF IsCachedCopy
<1>9. CASE RespondCached(t) \/ NotCacheable(t)
  <2>1. PlaceOK'  BY <1>9 DEF RespondCached, NotCacheable, Return, PlaceOK
  <2>2. Held'    BY <1>a, <1>9, StaysOut
                  DEF RespondCached, NotCacheable, Return
  <2>. QED        BY <2>1, <2>2
<1>10. CASE NewNode(t)
  <2>1. Goto(t, "miss", "enqueue") /\ UNCHANGED <<lock, ret>>
                  BY <1>10 DEF NewNode
  <2>2. PlaceOK'  BY <2>1 DEF Goto, PlaceOK
  <2>3. Held'    BY <1>a, <2>1, StaysOut DEF Goto
  <2>. QED        BY <2>2, <2>3
<1>11. CASE EnqueueLock(t) \/ DequeueLock(t)
  <2>1. PlaceOK'  BY <1>11 DEF EnqueueLock, DequeueLock, Goto, PlaceOK, locals
  <2>2. Held'    BY <1>a, <1>11, EntersAlone
                  DEF EnqueueLock, DequeueLock, Goto
  <2>. QED        BY <2>1, <2>2
<1>12. CASE EnqueueAppend(t)
  <2>1. CASE Crash(t, "use_after_free")
    BY <2>1, Crashes
  <2>2. CASE /\ Goto(t, "append", "cache_check") /\ ReleaseWrite(t)
             /\ ret' = [ret EXCEPT ![t] = "load_test"]
    <3>1. PlaceOK'  BY <2>2 DEF Goto, PlaceOK
    <3>2. Held'    BY <1>a, <2>2, LeavesAlone DEF Goto
    <3>. QED        BY <3>1, <3>2
  <2>. QED
    BY <1>12, <2>1, <2>2 DEF EnqueueAppend
<1>13. CASE LoadTest(t)
  <2>1. PICK to \in {"dequeue", "print"} : Goto(t, "load_test", to)
                  BY <1>13 DEF LoadTest
  <2>2. UNCHANGED <<lock, ret>>
                  BY <1>13 DEF LoadTest, locals
  <2>3. PlaceOK'  BY <2>1, <2>2 DEF Goto, PlaceOK
  <2>4. Held'    BY <1>a, <2>1, <2>2, StaysOut DEF Goto
  <2>. QED        BY <2>3, <2>4
<1>14. CASE DequeueUnlink(t)
  <2>1. CASE Crash(t, "use_after_free")
    BY <2>1, Crashes
  <2>2. CASE /\ Goto(t, "unlink", "free") \/ Goto(t, "unlink", "cache_check")
             /\ ReleaseWrite(t)
             /\ ret' = ret \/ ret' = [ret EXCEPT ![t] = "free"]
    <3>1. PlaceOK'  BY <2>2 DEF Goto, PlaceOK
    <3>2. Held'    BY <1>a, <2>2, LeavesAlone DEF Goto
    <3>. QED        BY <3>1, <3>2
  <2>. QED
    BY <1>14, <2>1, <2>2 DEF DequeueUnlink
<1>15. CASE FreeNode(t)
  <2>1. CASE \E kind \in {"null", "use_after_free"} : Crash(t, kind)
    BY <2>1, Crashes
  <2>2. CASE Goto(t, "free", "load_test") /\ UNCHANGED <<lock, locals>>
    <3>1. PlaceOK'  BY <2>2 DEF Goto, PlaceOK, locals
    <3>2. Held'    BY <1>a, <2>2, StaysOut DEF Goto
    <3>. QED        BY <3>1, <3>2
  <2>. QED
    BY <1>15, <2>1, <2>2 DEF FreeNode
<1>16. CASE PrintFirst(t)
  <2>1. PlaceOK'  BY <1>16 DEF PrintFirst, Goto, PlaceOK
  <2>2. Held'    BY <1>a, <1>16, StaysOut DEF PrintFirst, Goto
  <2>. QED        BY <2>1, <2>2
<1>17. CASE PrintNode(t)
  <2>1. CASE Crash(t, "use_after_free")
    BY <2>1, Crashes
  <2>2. CASE pc[t] = "walk" /\ Return(t) /\ UNCHANGED lock
    <3>1. PlaceOK'  BY <2>2 DEF Return, PlaceOK
    <3>2. Held'    BY <1>a, <2>2, StaysOut DEF Return
    <3>. QED        BY <3>1, <3>2
  <2>3. CASE UNCHANGED <<lock, pc, ret>>
    BY <1>a, <2>3 DEF PlaceOK, Held, lock
  <2>. QED
    BY <1>17, <2>1, <2>2, <2>3 DEF PrintNode
<1>. QED
  BY <1>1, <1>2, <1>3, <1>4, <1>5, <1>6, <1>7, <1>8, <1>9, <1>10, <1>11, <1>12,
     <1>13, <1>14, <1>15, <1>16, <1>17 DEF Step

-----------------------------------------------------------------------
(* Every step of a handler preserves the invariant: it waits, it gets the lock
   as a writer does, or it frees the list and releases the lock. *)
LEMMA HandlerStep ==
  ASSUME SectionInv, NEW t \in Taker, Signal(t) \/ Handler(t)
  PROVE  SectionInv'
<1>. USE DEF SectionInv, Master, Shared, Alone
<1>a. PlaceOK /\ Held /\ t \in Thread \cup {Master}
  BY ShutdownAssumption DEF Signal, Handler
<1>1. CASE Sigterm(t)
  <2>1. HGoto(t, "none", "pre_write") /\ UNCHANGED <<lock, pc, ret>>
                  BY <1>1 DEF Sigterm, vars, locals
  <2>2. PlaceOK'  BY <1>a, <2>1 DEF HGoto, PlaceOK
  <2>3. Held'    BY <1>a, <2>1 DEF HGoto, PlaceOK, Held, lock
  <2>. QED        BY <2>2, <2>3
<1>2. CASE DestroyLock(t)
  <2>1. HGoto(t, "pre_write", "free") /\ AcquireWrite(t) /\ UNCHANGED <<pc, ret>>
                  BY <1>2 DEF DestroyLock, locals
  <2>2. PlaceOK'  BY <1>a, <2>1 DEF HGoto, PlaceOK
  <2>3. Held'    BY <1>a, <2>1 DEF HGoto, PlaceOK, Held, AcquireWrite
  <2>. QED        BY <2>2, <2>3
<1>3. CASE DestroyFree(t)
  <2>1. CASE Crash(t, "use_after_free") /\ UNCHANGED hvars
    BY <1>a, <2>1, Crashes DEF hvars
  <2>2. CASE HGoto(t, "free", "none") /\ ReleaseWrite(t) /\ UNCHANGED <<pc, ret>>
    <3>1. PlaceOK'  BY <1>a, <2>2 DEF HGoto, PlaceOK
    <3>2. Held'    BY <1>a, <2>2 DEF HGoto, PlaceOK, Held, ReleaseWrite
    <3>. QED        BY <3>1, <3>2
  <2>. QED
    BY <1>3, <2>1, <2>2 DEF DestroyFree, locals
<1>. QED
  BY <1>1, <1>2, <1>3 DEF Signal, Handler

(* A process in which something failed does nothing that this relies on: every
   thread has stopped for good. *)
StoppedInv == fault # "none" => \A t \in Thread : pc[t] = "crashed"

LEMMA StoppedStep ==
  ASSUME StoppedInv, PlaceOK, fault # "none", NEW t \in Thread, Request(t) \/ Step(t)
  PROVE  FALSE
  BY DEF StoppedInv, Request, Step, Goto, IsCachedLock, IsCachedScan, UpdateLock,
         UpdateRelink, CheckLock, CheckAssert, IsCachedCopy, RespondCached, NewNode,
         NotCacheable, EnqueueLock, EnqueueAppend, LoadTest, DequeueLock,
         DequeueUnlink, FreeNode, PrintFirst, PrintNode

(* Nothing fails but by a crash, which stops every thread. *)
LEMMA FailsByCrash ==
  ASSUME fault = "none",
         \/ \E t \in Thread : Request(t) \/ Step(t)
         \/ \E t \in Taker : Signal(t) \/ Handler(t)
  PROVE  StoppedInv'
<1>1. fault' = fault \/ \E t, kind : Crash(t, kind)
  <2>1. CASE \E t \in Thread : Request(t) \/ Step(t)
    BY <2>1 DEF Request, Step, IsCachedLock, IsCachedScan, UpdateLock,
         UpdateRelink, CheckLock, CheckAssert, IsCachedCopy, RespondCached, NewNode,
         NotCacheable, EnqueueLock, EnqueueAppend, LoadTest, DequeueLock,
         DequeueUnlink, FreeNode, PrintFirst, PrintNode
  <2>2. CASE \E t \in Taker : Signal(t) \/ Handler(t)
    BY <2>2 DEF Signal, Handler, Sigterm, DestroyLock, DestroyFree, vars
  <2>. QED
    BY <2>1, <2>2
<1>. QED
  BY <1>1 DEF StoppedInv, Crash

-----------------------------------------------------------------------
IInv == SectionInv /\ StoppedInv

LEMMA IInvInit == ShutdownInit => IInv
  BY ShutdownAssumption
     DEF ShutdownInit, Init, IInv, SectionInv, PlaceOK, Held, StoppedInv, Place,
         Shared, Alone, Master

LEMMA IInvNext == IInv /\ [ShutdownNext]_allvars => IInv'
<1>. SUFFICES ASSUME IInv, [ShutdownNext]_allvars  PROVE IInv'
  OBVIOUS
<1>. USE DEF IInv
<1>1. CASE UNCHANGED allvars
  BY <1>1 DEF allvars, vars, hvars, lock, locals, SectionInv, PlaceOK, Held,
              StoppedInv, Master
<1>2. ASSUME NEW t \in Thread, Resumed(t, Request(t)) \/ Resumed(t, Step(t))
      PROVE  IInv'
  <2>1. /\ Request(t) \/ Step(t)
        /\ hpc[t] = "none" /\ UNCHANGED hpc
    BY <1>2 DEF Resumed, hvars
  <2>2. fault = "none"
    BY <2>1, StoppedStep DEF SectionInv
  <2>3. SectionInv'
    BY <2>1, <2>2, ThreadStep
  <2>4. StoppedInv'
    BY <2>1, <2>2, FailsByCrash
  <2>. QED
    BY <2>3, <2>4
<1>3. ASSUME NEW t \in Taker, Signal(t) \/ Handler(t)
      PROVE  IInv'
  <2>1. SectionInv'
    BY <1>3, HandlerStep
  <2>2. StoppedInv'
    BY <1>3, FailsByCrash DEF Signal, Handler
  <2>. QED
    BY <2>1, <2>2
<1>4. CASE Setup
  BY <1>4 DEF Setup, vars, lock, locals, SectionInv, PlaceOK, Held, StoppedInv, Master
<1>. QED
  BY <1>1, <1>2, <1>3, <1>4 DEF ShutdownNext

LEMMA ApartSections == IInv => SectionsApart
<1>. SUFFICES ASSUME Held  PROVE SectionsApart
  BY DEF IInv, SectionInv, SectionsApart
<1>1. writer # {} => readers = {} /\ Cardinality(writer) = 1
  BY FS_Singleton DEF Held
<1>. QED
  BY <1>1 DEF Held, SectionsApart, Shared, Alone

(* Whoever stands at a section's statement has the lock and a writer has it
   alone, so sigterm_handler's cache_destroy (app/proxy.c:82-86,
   cache.c:144-156) meets no thread inside a section. *)
THEOREM SectionsAreApart == ShutdownSpec => []SectionsApart
<1>1. ShutdownSpec => []IInv
  BY IInvInit, IInvNext, PTL DEF ShutdownSpec
<1>. QED
  BY <1>1, ApartSections, PTL

-----------------------------------------------------------------------
(* What is left when the cache was destroyed: nodes of the threads, and
   pointers to addresses that may be allocated again but lead nowhere. *)
Gone ==
  /\ DOMAIN next = Addr \cup Dummy /\ DOMAIN prev = Addr \cup Dummy /\ DOMAIN node = Thread
  /\ next[Front] = Null /\ prev[End] = Null
  /\ heap \subseteq Addr
  /\ \A t \in Thread : Owns(t) => node[t] \in heap
  /\ \A t \in Thread : Uses(t) /\ pc[t] # "walk" =>
       node[t] \in Addr /\ \A u \in Thread : Evicts(u) => node[u] # node[t]
  /\ Memory({}) /\ Blank({})

(* The pointers of front and end are no nodes any more. *)
LEMMA GonePaths ==
  ASSUME heap \subseteq Addr
  PROVE  /\ next[Front] = Null => Nodes(Forward) = {} /\ Stop(Forward) = Null
         /\ prev[End] = Null => Nodes(Backward) = {} /\ Stop(Backward) = Null
<1>1. Null \notin heap /\ Cardinality(Addr) \in Nat
  BY AddrAssumption, FS_CardinalityType
<1>2. ASSUME NEW f
      PROVE  Nodes(Path(f, Null)) = {} /\ Stop(Path(f, Null)) = Null
  <2>. DEFINE d == [i \in 0..0 |-> Null]
  <2>1. d[0] = Null
    OBVIOUS
  <2>. HIDE DEF d
  <2>2. Leads(f, 0, d)
    BY <1>1, <2>1 DEF Leads
  <2>3. /\ DOMAIN Path(f, Null) = 0..Cardinality(Addr)
        /\ \A i \in 0..Cardinality(Addr) : Path(f, Null)[i] = IF i <= 0 THEN d[i] ELSE d[0]
    BY <2>1, <2>2, PathIs
  <2>4. \A i \in 0..Cardinality(Addr) : Path(f, Null)[i] = Null
    <3>. TAKE i \in 0..Cardinality(Addr)
    <3>1. i = 0 \/ ~(i <= 0)
      BY <1>1
    <3>. QED
      BY <2>1, <2>3, <3>1
  <2>5. Cardinality(Addr) \in 0..Cardinality(Addr)
    BY <1>1
  <2>. QED
    BY <1>1, <2>3, <2>4, <2>5 DEF Nodes, Stop
<1>. QED
  BY <1>2 DEF Forward, Backward

(* A step of t that leaves what t has, and finds nothing new. *)
LEMMA GoneQuiet ==
  ASSUME Gone, NEW t \in Thread, UNCHANGED links, DOMAIN node' = Thread,
         \A u \in Thread \ {t} : pc'[u] = pc[u] /\ ret'[u] = ret[u] /\ node'[u] = node[u],
         Owns(t)' <=> Owns(t), Evicts(t)' <=> Evicts(t), Owns(t) => node'[t] = node[t],
         Uses(t)' /\ pc'[t] # "walk" => Uses(t) /\ pc[t] # "walk" /\ node'[t] = node[t]
  PROVE  Gone'
<1>1. \A u \in Thread \ {t} : /\ Owns(u)' <=> Owns(u)
                              /\ Uses(u)' <=> Uses(u)
                              /\ Evicts(u)' <=> Evicts(u)
  BY DEF Owns, Uses, Evicts
<1>2. \A u \in Thread : /\ Owns(u)' <=> Owns(u)
                        /\ Evicts(u)' <=> Evicts(u)
                        /\ Owns(u) => node'[u] = node[u]
                        /\ Evicts(u) => node'[u] = node[u]
  <2>1. Evicts(t) => Owns(t)
    BY DEF Evicts, Owns
  <2>. QED
    BY <1>1, <2>1
<1>3. \A u \in Thread : Uses(u)' /\ pc'[u] # "walk" =>
         Uses(u) /\ pc[u] # "walk" /\ node'[u] = node[u]
  BY <1>1
<1>4. Memory({})' /\ Blank({})'
  BY <1>2 DEF Gone, Memory, Blank, links
<1>. QED
  BY <1>2, <1>3, <1>4 DEF Gone, links

(* Every step of a thread in a destroyed cache leaves it so or fails. *)
LEMMA GoneStep ==
  ASSUME Gone, PlaceOK, NEW t \in Thread, Request(t) \/ Step(t), fault' = "none"
  PROVE  Gone'
<1>0. /\ DOMAIN pc = Thread /\ DOMAIN ret = Thread /\ DOMAIN node = Thread
      /\ Nodes(Backward) = {} /\ Stop(Backward) = Null /\ ~is_empty
      /\ Null \notin heap /\ Null \notin Dummy /\ heap \subseteq Addr
  BY GonePaths, AddrAssumption DEF Gone, PlaceOK, is_empty, Null, Dummy, End, Front
<1>1. ASSUME NEW from, NEW to, Goto(t, from, to), UNCHANGED <<links, node, ret>>,
             <<from, to>> \in {<<"idle", "is_cached">>, <<"is_cached", "scan">>,
               <<"update", "relink">>, <<"cache_check", "assert">>, <<"enqueue", "append">>,
               <<"load_test", "dequeue">>, <<"load_test", "print">>, <<"dequeue", "unlink">>,
               <<"copy", "respond">>}
      PROVE  Gone'
  <2>1. /\ Owns(t)' <=> Owns(t)
        /\ Evicts(t)' <=> Evicts(t)
        /\ Uses(t)' => Uses(t) /\ pc[t] # "walk"
    BY <1>0, <1>1 DEF Goto, Owns, Evicts, Uses
  <2>2. \A u \in Thread \ {t} : pc'[u] = pc[u] /\ ret'[u] = ret[u] /\ node'[u] = node[u]
    BY <1>1 DEF Goto
  <2>. QED
    BY <1>0, <1>1, <2>1, <2>2, GoneQuiet
<1>2. CASE \/ Request(t) \/ IsCachedLock(t) \/ UpdateLock(t) \/ CheckLock(t)
           \/ EnqueueLock(t) \/ DequeueLock(t) \/ LoadTest(t)
  BY <1>1, <1>2 DEF Request, IsCachedLock, UpdateLock, CheckLock, EnqueueLock, DequeueLock,
                    LoadTest, locals
<1>3. ASSUME NEW kind, kind # "none", Crash(t, kind)
      PROVE  FALSE
  BY <1>3 DEF Crash
<1>4. CASE IsCachedScan(t)
  BY <1>0, <1>3, <1>4 DEF IsCachedScan, Null, Front
<1>5. CASE UpdateRelink(t)
  <2>1. pc[t] = "relink" /\ Uses(t)
    BY <1>5 DEF UpdateRelink, Uses
  <2>2. node[t] \in Addr /\ \A u \in Thread : Evicts(u) => node[u] # node[t]
    BY <2>1 DEF Gone
  <2>3. prev[node[t]] = Null
    BY <2>2 DEF Gone, Blank
  <2>. QED
    BY <1>0, <1>3, <1>5, <2>3 DEF UpdateRelink, Live
<1>6. CASE CheckAssert(t)
  <2>1. /\ pc[t] = "assert" /\ pc' = [pc EXCEPT ![t] = ret[t]] /\ UNCHANGED <<links, node, ret>>
    BY <1>3, <1>6 DEF CheckAssert, Goto, locals
  <2>2. ret[t] \in {"idle", "copy", "load_test", "free"}
    BY DEF PlaceOK
  <2>3. /\ Owns(t)' <=> Owns(t)
        /\ Evicts(t)' <=> Evicts(t)
        /\ Uses(t)' => Uses(t) /\ pc[t] # "walk"
    BY <1>0, <2>1, <2>2 DEF Owns, Evicts, Uses
  <2>. QED
    BY <1>0, <2>1, <2>3, GoneQuiet
<1>7. CASE IsCachedCopy(t)
  BY <1>1, <1>3, <1>7 DEF IsCachedCopy
<1>8. ASSUME Return(t), UNCHANGED links, pc[t] \in {"respond", "miss", "walk"}
      PROVE  Gone'
  <2>1. /\ DOMAIN node' = Thread /\ pc'[t] = "idle"
        /\ \A u \in Thread \ {t} : pc'[u] = pc[u] /\ ret'[u] = ret[u] /\ node'[u] = node[u]
    BY <1>0, <1>8 DEF Return
  <2>2. ~Owns(t) /\ ~Owns(t)' /\ ~Evicts(t) /\ ~Evicts(t)' /\ ~Uses(t)'
    BY <1>8, <2>1 DEF Owns, Evicts, Uses
  <2>. QED
    BY <1>8, <2>1, <2>2, GoneQuiet
<1>9. CASE RespondCached(t) \/ NotCacheable(t)
  BY <1>8, <1>9 DEF RespondCached, NotCacheable
<1>10. CASE NewNode(t)
  <2>1. PICK a \in Addr \ heap :
          /\ heap' = heap \cup {a} /\ node' = [node EXCEPT ![t] = a]
          /\ pc[t] = "miss" /\ pc' = [pc EXCEPT ![t] = "enqueue"]
          /\ UNCHANGED <<next, prev, ret>>
    BY <1>10 DEF NewNode, Goto
  <2>2. ~Owns(t) /\ Owns(t)' /\ ~Evicts(t) /\ ~Evicts(t)' /\ ~Uses(t)'
    BY <1>0, <2>1 DEF Owns, Evicts, Uses
  <2>3. \A u \in Thread \ {t} : /\ Owns(u)' <=> Owns(u)
                                /\ Uses(u)' <=> Uses(u)
                                /\ Evicts(u)' <=> Evicts(u)
                                /\ node'[u] = node[u] /\ pc'[u] = pc[u]
    BY <1>0, <2>1 DEF Owns, Uses, Evicts
  <2>4. node'[t] = a /\ \A u \in Thread : Owns(u) => node[u] # a
    BY <1>0, <2>1 DEF Gone
  <2>5. Memory({})'
    BY <2>1, <2>2, <2>3, <2>4 DEF Gone, Memory
  <2>6. Blank({})'
    BY <2>1, <2>2, <2>3 DEF Gone, Blank
  <2>. QED
    BY <1>0, <2>1, <2>2, <2>3, <2>4, <2>5, <2>6 DEF Gone
<1>11. CASE EnqueueAppend(t)
  BY <1>0, <1>3, <1>11 DEF EnqueueAppend, Gone, Live
<1>12. CASE DequeueUnlink(t)
  BY <1>0, <1>3, <1>12 DEF DequeueUnlink, Gone
<1>13. CASE FreeNode(t)
  <2>1. pc[t] = "free" /\ Owns(t) /\ node[t] \in heap
    BY <1>13 DEF FreeNode, Gone, Owns
  <2>2. Free(node[t]) /\ pc' = [pc EXCEPT ![t] = "load_test"] /\ UNCHANGED <<node, ret>>
    BY <1>13, <2>1 DEF FreeNode, Goto, locals
  <2>3. ~Owns(t)' /\ ~Evicts(t)' /\ ~Uses(t)'
    BY <1>0, <2>2 DEF Owns, Evicts, Uses
  <2>4. \A u \in Thread \ {t} : /\ Owns(u)' <=> Owns(u)
                                /\ Uses(u)' <=> Uses(u)
                                /\ Evicts(u)' <=> Evicts(u)
                                /\ pc'[u] = pc[u] /\ (Owns(u) => node[u] # node[t])
    BY <1>0, <2>1, <2>2 DEF Owns, Uses, Evicts, Gone, Memory
  <2>5. /\ heap' = heap \ {node[t]} /\ next'[node[t]] = Null /\ prev'[node[t]] = Null
        /\ \A a \in Addr \cup Dummy : a # node[t] => next'[a] = next[a] /\ prev'[a] = prev[a]
        /\ DOMAIN next' = DOMAIN next /\ DOMAIN prev' = DOMAIN prev
    BY <1>0, <2>1, <2>2 DEF Free, Gone
  <2>6. Memory({})'
    BY <2>2, <2>3, <2>4, <2>5 DEF Gone, Memory
  <2>7. Blank({})'
    BY <2>2, <2>4, <2>5 DEF Gone, Blank
  <2>8. next'[Front] = Null /\ prev'[End] = Null
    BY <1>0, <2>1, <2>5, AddrAssumption DEF Gone, Dummy
  <2>. QED
    BY <1>0, <2>2, <2>3, <2>4, <2>5, <2>6, <2>7, <2>8 DEF Gone
<1>14. CASE PrintFirst(t) \/ (PrintNode(t) /\ ~(node[t] = End /\ Return(t)))
  <2>1. /\ pc[t] \in {"print", "walk"} /\ DOMAIN node' = Thread
        /\ \A u \in Thread \ {t} : pc'[u] = pc[u] /\ ret'[u] = ret[u] /\ node'[u] = node[u]
        /\ UNCHANGED links /\ pc'[t] = "walk"
    BY <1>0, <1>3, <1>14 DEF PrintFirst, PrintNode, Goto
  <2>2. ~Owns(t) /\ ~Owns(t)' /\ ~Evicts(t) /\ ~Evicts(t)'
    BY <2>1 DEF Owns, Evicts
  <2>. QED
    BY <2>1, <2>2, GoneQuiet
<1>15. CASE PrintNode(t) /\ node[t] = End /\ Return(t)
  <2>1. UNCHANGED links /\ pc[t] = "walk"
    BY <1>0, <1>3, <1>15, AddrAssumption DEF PrintNode, Dummy
  <2>. QED
    BY <1>8, <1>15, <2>1
<1>. QED
  BY <1>2, <1>4, <1>5, <1>6, <1>7, <1>9, <1>10, <1>11, <1>12, <1>13, <1>14, <1>15 DEF Step

(* The handler frees the list, and every pointer into it is one to nothing. *)
LEMMA DestroyGone ==
  ASSUME NEW L, State(L), FreeNodes(L \cup Dummy), UNCHANGED <<pc, locals>>
  PROVE  Gone'
<1>1. /\ Linked(L, cache_count, next, prev) /\ L \subseteq heap /\ heap \subseteq Addr
      /\ DOMAIN next = Addr \cup Dummy /\ DOMAIN prev = Addr \cup Dummy /\ DOMAIN node = Thread
  BY DEF State, Memory, Stored, Linked, Linkage, Locals
<1>2. /\ heap' = heap \ L
      /\ \A a \in L \cup Dummy : next'[a] = Null /\ prev'[a] = Null
      /\ \A a \in Addr \ L : next'[a] = next[a] /\ prev'[a] = prev[a]
      /\ DOMAIN next' = Addr \cup Dummy /\ DOMAIN prev' = Addr \cup Dummy
  BY <1>1, AddrAssumption DEF FreeNodes
<1>3. \A t \in Thread : /\ Owns(t)' <=> Owns(t)
                        /\ Uses(t)' <=> Uses(t)
                        /\ Evicts(t)' <=> Evicts(t)
                        /\ pc'[t] = pc[t] /\ node'[t] = node[t]
                        /\ Evicts(t) => Owns(t)
  BY DEF Owns, Uses, Evicts, locals
<1>4. \A t \in Thread : /\ Owns(t) => node[t] \in heap \ L
                        /\ Uses(t) /\ pc[t] # "walk" => node[t] \in L
  BY DEF State, ThreadOK
<1>5. Memory({})'
  BY <1>2, <1>3 DEF State, Memory
<1>6. Blank({})'
  BY <1>2, <1>3 DEF State, Blank
<1>. QED
  BY <1>1, <1>2, <1>3, <1>4, <1>5, <1>6 DEF Gone, locals, Dummy

-----------------------------------------------------------------------
(* The invariant: the cache's own until it is destroyed. *)
DestroyInv ==
  /\ destroyed \in BOOLEAN
  /\ ~destroyed => CacheInv
  /\ destroyed => next[Front] = Null /\ heap \subseteq Addr
  /\ destroyed /\ fault = "none" => Gone

LEMMA DestroyInvInit == ShutdownInit => DestroyInv
  BY CacheInvInit DEF ShutdownInit, DestroyInv

LEMMA DestroyInvStutters ==
  ASSUME DestroyInv, UNCHANGED <<links, pc, locals, fault, destroyed>>
  PROVE  DestroyInv'
<1>1. CASE ~destroyed
  BY <1>1, CacheInvStutters DEF DestroyInv
<1>2. CASE destroyed
  <2>1. \A t \in Thread : /\ Owns(t)' <=> Owns(t)
                          /\ Uses(t)' <=> Uses(t)
                          /\ Evicts(t)' <=> Evicts(t)
    BY DEF Owns, Uses, Evicts, locals
  <2>2. Gone => Gone'
    BY <2>1 DEF Gone, Memory, Blank, links, locals
  <2>. QED
    BY <1>2, <2>2 DEF DestroyInv, links
<1>. QED
  BY <1>1, <1>2 DEF DestroyInv

LEMMA DestroyInvNext ==
  IInv /\ DestroyInv /\ UnusedUntilDestroyed /\ [ShutdownNext]_allvars => DestroyInv'
<1>. SUFFICES ASSUME IInv, DestroyInv, UnusedUntilDestroyed, [ShutdownNext]_allvars
              PROVE  DestroyInv'
  OBVIOUS
<1>0. PlaceOK
  BY DEF IInv, SectionInv
<1>1. CASE UNCHANGED allvars
  BY <1>1, DestroyInvStutters DEF allvars, vars, hvars
<1>2. ASSUME NEW t \in Thread, Resumed(t, Request(t)) \/ Resumed(t, Step(t))
      PROVE  DestroyInv'
  <2>1. (Request(t) \/ Step(t)) /\ destroyed' = destroyed
    BY <1>2 DEF Resumed, hvars
  <2>2. fault = "none"
    BY <1>0, <2>1, StoppedStep DEF IInv
  <2>3. CASE ~destroyed
    BY <2>1, <2>3, StepKeeps DEF DestroyInv, UnusedUntilDestroyed, EvictsUnused, Safely
  <2>4. CASE destroyed
    <3>1. CASE fault' = "none"
      <4>1. Gone'
        BY <1>0, <2>1, <2>2, <2>4, <3>1, GoneStep DEF DestroyInv
      <4>. QED
        BY <2>1, <2>4, <4>1 DEF DestroyInv, Gone
    <3>2. CASE fault' # "none"
      <4>1. UNCHANGED links
        BY <2>1, <2>2, <3>2
           DEF Request, Step, IsCachedLock, IsCachedScan, UpdateLock, UpdateRelink,
               CheckLock, CheckAssert, IsCachedCopy, RespondCached, NewNode, NotCacheable,
               EnqueueLock, EnqueueAppend, LoadTest, DequeueLock, DequeueUnlink, FreeNode,
               PrintFirst, PrintNode, Crash
      <4>. QED
        BY <2>1, <2>4, <3>2, <4>1 DEF DestroyInv, links
    <3>. QED
      BY <3>1, <3>2
  <2>. QED
    BY <2>3, <2>4 DEF DestroyInv
<1>3. ASSUME NEW t \in Taker, Signal(t) \/ Handler(t)
      PROVE  DestroyInv'
  <2>1. CASE Sigterm(t) \/ DestroyLock(t)
    BY <2>1, DestroyInvStutters DEF Sigterm, DestroyLock, vars
  <2>2. CASE DestroyFree(t) /\ ~destroyed
    <3>1. PICK L : State(L)
      BY <2>2 DEF DestroyInv, CacheInv
    <3>2. Listed = L /\ Stop(Forward) = End
      BY <3>1, Listing DEF State, Memory, Stored
    <3>3. FreeNodes(L \cup Dummy) /\ UNCHANGED <<pc, locals, fault>> /\ destroyed' = TRUE
      BY <2>2, <3>2 DEF DestroyFree
    <3>4. Gone'
      BY <3>1, <3>3, DestroyGone
    <3>. QED
      BY <3>3, <3>4 DEF DestroyInv, Gone
  <2>3. CASE DestroyFree(t) /\ destroyed
    <3>1. Stop(Forward) = Null /\ Null # End
      BY <2>3, GonePaths DEF DestroyInv, Null, End
    <3>2. Crash(t, "use_after_free") /\ UNCHANGED hvars
      BY <2>3, <3>1 DEF DestroyFree
    <3>. QED
      BY <2>3, <3>2 DEF DestroyInv, Crash, links, hvars
  <2>. QED
    BY <1>3, <2>1, <2>2, <2>3 DEF Signal, Handler, DestroyInv
<1>4. CASE Setup
  BY <1>4, DestroyInvStutters DEF Setup, vars
<1>. QED
  BY <1>1, <1>2, <1>3, <1>4 DEF ShutdownNext

LEMMA DestroyInvAlways == ShutdownSpec /\ []UnusedUntilDestroyed => []DestroyInv
<1>1. ShutdownSpec => []IInv
  BY IInvInit, IInvNext, PTL DEF ShutdownSpec
<1>. QED
  BY <1>1, DestroyInvInit, DestroyInvNext, PTL DEF ShutdownSpec

LEMMA DestroyInvCounts ==
  DestroyInv => Consistent /\ NothingLost /\ CopiesBounded
<1>. SUFFICES ASSUME DestroyInv
              PROVE  Consistent /\ NothingLost /\ CopiesBounded
  OBVIOUS
<1>1. CASE ~destroyed
  BY <1>1, InvCounts DEF DestroyInv, Consistent, NothingLost, NoFault
<1>2. CASE destroyed
  <2>1. Nodes(Forward) = {}
    BY <1>2, GonePaths DEF DestroyInv
  <2>2. Listed = {}
    BY <2>1 DEF Listed
  <2>3. Gone => NoLeak
    <3>. SUFFICES ASSUME Gone  PROVE NoLeak
      OBVIOUS
    <3>1. \A a \in Owned : a \in heap
      BY DEF Gone, Owned
    <3>2. \A a \in heap : a \in Owned
      BY DEF Gone, Memory, Owned
    <3>3. \A t, u \in Thread : Owns(t) /\ Owns(u) /\ t # u => node[t] # node[u]
      BY DEF Gone, Memory
    <3>. QED
      BY <2>2, <3>1, <3>2, <3>3 DEF NoLeak
  <2>4. CopiesBounded
    <3>1. \A k \in Key : {a \in Listed : Fold[entry[a].key] = Fold[k]} = {}
      BY <2>2
    <3>2. Cardinality(Thread) \in Nat /\ Cardinality({}) = 0
      BY ThreadsAssumption, FS_CardinalityType, FS_EmptySet
    <3>. QED
      BY <3>1, <3>2 DEF CopiesBounded
  <2>. QED
    BY <1>2, <2>3, <2>4 DEF DestroyInv, Consistent, NothingLost
<1>. QED
  BY <1>1, <1>2 DEF DestroyInv

(* Wherever threads and handlers stand, the list is linked both ways and as long
   as cache_count says until the cache is destroyed (cache.c:276-290), as long
   as dequeue takes no node that another thread has left the lock with. *)
THEOREM ListConsistent == ShutdownSpec /\ []UnusedUntilDestroyed => []Consistent
  BY DestroyInvAlways, DestroyInvCounts, PTL

(* The handler frees every listed node and none that a thread has to itself
   (cache.c:144-156), and what the threads do with their pointers afterwards
   loses nothing either until the process fails. *)
THEOREM LosesNothing == ShutdownSpec /\ []UnusedUntilDestroyed => []NothingLost
  BY DestroyInvAlways, DestroyInvCounts, PTL

(* A key has at most one node per thread, also while SIGTERM arrives. *)
THEOREM CopiesWithSignals == ShutdownSpec /\ []UnusedUntilDestroyed => []CopiesBounded
  BY DestroyInvAlways, DestroyInvCounts, PTL

=======================================================================
