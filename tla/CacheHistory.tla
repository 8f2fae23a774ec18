------------------------- MODULE CacheHistory -------------------------
(***************************************************************************)
(* Cache with a history variable that remembers whether dequeue has ever   *)
(* unlinked a node another thread was still using.  is_cached and          *)
(* print_cache leave the lock with a pointer into the list (cache.c:245,   *)
(* 134) and nothing keeps dequeue from that node, so this does happen      *)
(* (NoFault is violated).  What is stated here is that it is the only      *)
(* thing that goes wrong when threads share the cache.                     *)
(***************************************************************************)
EXTENDS Cache

VARIABLE robbed

historyvars == <<vars, robbed>>

(* dequeue is about to take a node from under another thread. *)
Robs(t) ==
  /\ pc[t] = "unlink" /\ ~is_empty
  /\ \E u \in Thread \ {t} : Uses(u) /\ node[u] = next[Front]

HistoryInit == Init /\ robbed = FALSE

HistoryNext ==
  \E t \in Thread :
    /\ Request(t) \/ Step(t)
    /\ robbed' = (robbed \/ Robs(t))

HistorySpec == HistoryInit /\ [][HistoryNext]_historyvars

FairHistory ==
  /\ HistorySpec
  /\ \A t \in Thread :
       WF_historyvars(Step(t) /\ robbed' = (robbed \/ Robs(t)))

-----------------------------------------------------------------------
(* Threads share the cache without a fault of any kind unless a node was taken
   from under one of them: insertions, hits and evictions in every order, two
   evictions for the same excess (cache.c:119-125) included, neither touch a
   freed node, fail an assert of cache_check (cache.c:276-290), nor hand
   free_node the NULL of an empty list (cache.c:187-189, 103-109). *)
FaultOnlyRobbed == fault # "none" => robbed

(* What is copied after the lock was released (cache.c:245-249) answers the
   request, whatever was stored, moved and freed in between, unless the node
   was taken from under the thread and its address is used again. *)
AnswersUnlessRobbed ==
  \A t \in Thread : pc[t] = "respond" /\ ~robbed => Fold[out[t].key] = Fold[req[t]]

(* Until then cache_load is the total length of the listed texts (cache.c:16,
   170, 194), whatever the order in which threads add and evict: what dequeue
   subtracts for a node is what enqueue added for it. *)
LoadUnlessRobbed == robbed \/ LoadInv

(* Threads together implement the LRU queue: hits of different threads move
   entries one after the other, the least recently used one leaves, and no
   eviction finds the load lower than the evictions of the other threads for
   the same excess explain. *)
LruUntilRobbed ==
  Abstract!Init /\ [][robbed' \/ Abstract!Next \/ UNCHANGED Abstract!vars]_historyvars

(* Once no new requests arrive, every transaction of every thread ends: no
   deadlock among the sections, no thread waits for a lock that is not given
   back, and the eviction loop (cache.c:119-125) and the walks terminate while
   the other threads change what they look at. *)
DrainsUnlessRobbed == Drains \/ <>robbed
=======================================================================
