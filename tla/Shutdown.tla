--------------------------- MODULE Shutdown ---------------------------
(***************************************************************************)
(* The cache while SIGTERM arrives: sigterm_handler (app/proxy.c:82-86)    *)
(* calls cache_destroy (cache.c:144-156) on whichever thread the signal    *)
(* interrupts, at any of its statements, and returns to it.  The handler   *)
(* waits for the lock like any writer, also when the thread it runs on has *)
(* the lock already.                                                       *)
(*                                                                         *)
(* The interrupted thread does nothing until its handler returns; a        *)
(* semaphore it was waiting for is waited for again (signal() sets         *)
(* SA_RESTART).  SIGTERM is blocked in the thread that handles one, and    *)
(* can be delivered to another.  The handler is installed before the cache *)
(* is initialised, and may be on a thread that is inside pre_read or       *)
(* post_read and holds the reader count's semaphore.                       *)
(***************************************************************************)
EXTENDS Cache

CONSTANTS Taker,       \* the threads a SIGTERM may be delivered to
          MaxSigterm   \* bound: how many are sent

Master == "master"     \* the thread in listen_on, which does not use the cache

ASSUME ShutdownAssumption ==
  Taker \subseteq Thread \cup {Master} /\ MaxSigterm \in Nat

VARIABLES hpc,         \* where the handler is on each thread
          destroyed,   \* the cache was destroyed, its dummies included
          sent,        \* SIGTERMs so far
          ready,       \* cache_init has returned and the workers exist
          counting     \* the interrupted threads that hold mutex: one at most

hvars == <<hpc, destroyed, sent, ready, counting>>
allvars == <<vars, hvars>>

ShutdownInit ==
  /\ Init
  /\ hpc = [t \in Thread \cup {Master} |-> "none"]
  /\ destroyed = FALSE /\ sent = 0 /\ ready = FALSE /\ counting = {}

HGoto(t, from, to) == hpc[t] = from /\ hpc' = [hpc EXCEPT ![t] = to]

-----------------------------------------------------------------------
(* Faulty variants of definitions below, one per mistake the properties are
   meant to catch. *)
DestroyLockNot(t) ==         \* cache_destroy without pre_write
  /\ ready /\ HGoto(t, "pre_write", "free")
  /\ UNCHANGED <<vars, destroyed, sent, ready, counting>>

FreeNodesOdd(freed) ==       \* a loop that skips a node after each it frees
  LET kept == {Forward[i] : i \in {j \in Nodes(Forward) : j % 2 = 0}}
  IN  /\ heap' = (heap \ freed) \cup kept
      /\ next' = [a \in DOMAIN next |-> IF a \in freed THEN Null ELSE next[a]]
      /\ prev' = [a \in DOMAIN prev |-> IF a \in freed THEN Null ELSE prev[a]]
      /\ entry' = [a \in Addr |-> IF a \in freed THEN NoEntry ELSE entry[a]]

-----------------------------------------------------------------------
(* main calls cache_init and creates the workers. *)
Setup ==
  /\ ~ready /\ hpc[Master] = "none" /\ ready' = TRUE
  /\ UNCHANGED <<vars, hpc, destroyed, sent, counting>>

(* Where a thread takes or gives back the read lock, or has just done so: it
   may be between P(&mutex) and V(&mutex). *)
MayCount(t) ==
  pc[t] \in {"is_cached", "scan", "cache_check", "assert",
            "update", "miss", "copy", "load_test", "free"}

(* A SIGTERM is delivered to t. *)
Sigterm(t) ==
  /\ sent < MaxSigterm /\ sent' = sent + 1
  /\ HGoto(t, "none", "pre_write")
  /\ \/ UNCHANGED counting
     \/ t \in Thread /\ MayCount(t) /\ counting = {} /\ counting' = {t}
  /\ t \in Thread => ready
  /\ UNCHANGED <<vars, destroyed, ready>>

(* Before cache_init w is zero, and nobody posts it while main is interrupted. *)
DestroyLock(t) ==
  /\ ready /\ HGoto(t, "pre_write", "free") /\ AcquireWrite(t)
  /\ UNCHANGED <<links, pc, locals, fault, destroyed, sent, ready, counting>>

(* The loop of cache_destroy: free_node for everything in freed. *)
FreeNodes(freed) ==
  /\ heap' = heap \ freed
  /\ next' = [a \in DOMAIN next |-> IF a \in freed THEN Null ELSE next[a]]
  /\ prev' = [a \in DOMAIN prev |-> IF a \in freed THEN Null ELSE prev[a]]
  /\ entry' = [a \in Addr |-> IF a \in freed THEN NoEntry ELSE entry[a]]

(* From front along next to end, both included; then post_write, and the
   handler prints and returns.  A second walk starts at a freed dummy. *)
DestroyFree(t) ==
  \/ /\ HGoto(t, "free", "none") /\ Stop(Forward) = End
     /\ FreeNodes(Listed \cup Dummy)
     /\ cache_count' = 0 /\ cache_load' = 0
     /\ destroyed' = TRUE
     /\ ReleaseWrite(t) /\ counting' = counting \ {t}
     /\ UNCHANGED <<pc, locals, fault, sent, ready>>
  \/ /\ hpc[t] = "free" /\ Stop(Forward) # End
     /\ Crash(t, "use_after_free") /\ UNCHANGED hvars

-----------------------------------------------------------------------
Handler(t) == fault = "none" /\ (DestroyLock(t) \/ DestroyFree(t))
Signal(t)  == fault = "none" /\ Sigterm(t)

(* A worker goes on unless it was interrupted, or needs mutex to take or give
   back the read lock while an interrupted thread holds it. *)
Counts(t) == pc[t] \in {"is_cached", "scan", "cache_check", "assert"}
Resumed(t, A) ==
  /\ ready /\ hpc[t] = "none" /\ A /\ UNCHANGED hvars
  /\ Counts(t) => counting = {} \/ fault' # "none"

ShutdownNext ==
  \/ Setup
  \/ \E t \in Thread : Resumed(t, Request(t)) \/ Resumed(t, Step(t))
  \/ \E t \in Taker : Signal(t) \/ Handler(t)

ShutdownSpec == ShutdownInit /\ [][ShutdownNext]_allvars

FairShutdown ==
  /\ ShutdownSpec
  /\ WF_allvars(Setup)
  /\ \A t \in Thread : WF_allvars(Resumed(t, Step(t)))
  /\ \A t \in Taker : WF_allvars(Handler(t))

-----------------------------------------------------------------------
(* Until it is destroyed the list is linked both ways and as long as
   cache_count says, wherever threads and handlers stand: what cache_check
   asserts (cache.c:276-290), at every moment. *)
Consistent == ~destroyed => ListInv

(* dequeue takes no node that another thread has found and left the lock with,
   as long as there is a list. *)
UnusedUntilDestroyed == ~destroyed => EvictsUnused

(* The nodes that are allocated are those in the list and those one thread has
   to itself, also after the handler freed the list under everyone's pointers:
   cache_destroy (cache.c:147-151) forgets none and takes none from a thread. *)
NothingLost == fault = "none" => NoLeak

(* Whoever stands at a section's statement has the lock, and a writer, the
   handler among them, has it alone: "release lock at every exit point"
   (cache.c:7).  So cache_destroy meets nobody in a section. *)
SectionsApart ==
  fault = "none" =>
    /\ readers = {t \in Thread : pc[t] \in {"scan", "assert"}}
    /\ writer = {t \in Thread : pc[t] \in {"relink", "append", "unlink"}}
                  \cup {t \in Taker : hpc[t] = "free"}
    /\ writer # {} => readers = {} /\ Cardinality(writer) = 1

(* Once no requests and signals come, every handler gets the lock, frees the
   list and returns: "do not nest critical sections (nested mutex lock is a
   fatal error)" (cache.c:8-9), "Cache destroyed, exit by SIGTERM"
   (app/proxy.c:84). *)
HandlerEnds ==
  <>[][\A t \in Thread, u \in Taker : ~Request(t) /\ ~Sigterm(u)]_allvars =>
    \A t \in Taker : hpc[t] = "pre_write" ~> (hpc[t] = "none" \/ fault # "none")
=======================================================================
