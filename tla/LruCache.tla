--------------------------- MODULE LruCache ---------------------------
(***************************************************************************)
(* What the cache promises (cache.c:22-29, README.md:83): a queue of       *)
(* entries from the least to the most recently used one.  A new entry goes *)
(* to its end, and so does an entry that answers a request; entries leave  *)
(* from its front, and only while their total length, up to Slack, exceeds *)
(* the capacity.                                                           *)
(***************************************************************************)
EXTENDS Integers, Sequences, SequencesExt

CONSTANTS Thread, Key, Value, Length, MaxCacheSize, NoEntry,
          Slack   \* how far below the capacity an eviction may find the load

VARIABLES lru,    \* the entries, least recently used first
          served  \* the entry each thread answers its client with

vars == <<lru, served>>

Entry == [key : Key, val : Value]
Load(s) == FoldSeq(LAMBDA e, sum : sum + Length[e.val], 0, s)

Init == lru = <<>> /\ served = [t \in Thread |-> NoEntry]

Add == /\ \E e \in Entry : lru' = Append(lru, e)
       /\ UNCHANGED served

Hit(t) == /\ served[t] = NoEntry
          /\ \E i \in 1..Len(lru) :
               /\ served' = [served EXCEPT ![t] = lru[i]]
               /\ lru' = Append(RemoveAt(lru, i), lru[i])

Done(t) == served' = [served EXCEPT ![t] = NoEntry] /\ UNCHANGED lru

Evict == /\ Load(lru) + Slack > MaxCacheSize
         /\ lru' = Tail(lru) /\ UNCHANGED served

Next == Add \/ Evict \/ \E t \in Thread : Hit(t) \/ Done(t)

Spec == Init /\ [][Next]_vars
=======================================================================
