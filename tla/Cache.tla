---------------------------- MODULE Cache ----------------------------
(***************************************************************************)
(* The LRU cache of lib/src/cache.c as the worker threads use it           *)
(* (proxy-module.c:43-64): is_cached, update, add_cache, enqueue, dequeue, *)
(* free_node, cache_check and print_cache over the doubly linked list      *)
(*                                                                         *)
(*    front <-> least recently used <-> ... <-> most recently used <-> end *)
(*                                                                         *)
(* at the level of its pointers.  Addresses are allocated and freed, and   *)
(* an address that was freed can be allocated again.  Waiting for the      *)
(* reader-writer lock is a step, and what is done under it together with   *)
(* its release is the next one; the lock is the abstract one of RWLock,    *)
(* which ReaderWriter implements.  What the code does without the lock is  *)
(* a step of its own.                                                      *)
(***************************************************************************)
EXTENDS Integers, FiniteSets, FiniteSetsExt

CONSTANTS Thread,         \* the worker threads
          Key,            \* (host, port, path) as requested
          Fold,           \* Fold[k] = Fold[l] iff k, l are equal to strcasecmp
          Value,          \* responses of servers
          Size,           \* bytesize of a response: what forward_response returns
          StrLen,         \* the values strlen may return for the stored payload
          Addr,           \* addresses malloc returns for a node
          MaxCacheSize,   \* MAX_CACHE_SIZE
          MaxObjectSize,  \* MAX_OBJECT_SIZE
          SizeMax         \* largest size_t: cache_load wraps beyond it

ASSUME CacheAssumption ==
  /\ Size \in [Value -> Nat]
  /\ StrLen \in [Value -> (SUBSET Nat) \ {{}}]
  /\ MaxCacheSize \in Nat /\ MaxObjectSize \in Nat \ {0, 1} /\ SizeMax \in Nat
  /\ Key \subseteq DOMAIN Fold

Front == "front"
End   == "end"
Null  == "NULL"
Dummy == {Front, End}
NoEntry == [key |-> Null, val |-> Null]

(* There are finitely many threads; the memory is finite, and no node is where
   a dummy is. *)
ASSUME ThreadsAssumption == IsFiniteSet(Thread)
ASSUME AddrAssumption == IsFiniteSet(Addr) /\ Addr \cap (Dummy \cup {Null}) = {}

VARIABLES heap,         \* addresses allocated to nodes
          next, prev,   \* the links of nodes and of the two dummies
          entry,        \* key and payload of each node
          cache_count, cache_load,
          readers, writer,   \* who holds the reader-writer lock
          pc,           \* where each thread is
          req,          \* the key a thread looks up or adds
          node,         \* the thread's node pointer (p, node, del)
          ret,          \* where the thread continues after cache_check
          out,          \* what is_cached copied for the client
          fault         \* first undefined behaviour or failed assert

links  == <<heap, next, prev, entry, cache_count, cache_load>>
lock   == <<readers, writer>>
locals == <<req, node, ret, out>>
vars   == <<links, lock, pc, locals, fault>>

(* cache_init *)
Init ==
  /\ heap = {} /\ cache_count = 0 /\ cache_load = 0
  /\ next = [a \in Addr \cup Dummy |-> IF a = Front THEN End ELSE Null]
  /\ prev = [a \in Addr \cup Dummy |-> IF a = End THEN Front ELSE Null]
  /\ entry = [a \in Addr |-> NoEntry]
  /\ readers = {} /\ writer = {}
  /\ pc = [t \in Thread |-> "idle"]
  /\ req = [t \in Thread |-> Null]
  /\ node = [t \in Thread |-> Null]
  /\ ret = [t \in Thread |-> "idle"]
  /\ out = [t \in Thread |-> NoEntry]
  /\ fault = "none"

Goto(t, from, to) == pc[t] = from /\ pc' = [pc EXCEPT ![t] = to]

-----------------------------------------------------------------------
(* Faulty variants of definitions below, one per mistake the properties are
   meant to catch. *)
MatchAny(a, k)  == TRUE      \* is_match that ignores the key
MatchNone(a, k) == FALSE     \* is_match that never matches

MoveLastOneWay(n) ==         \* update without tomove->next->prev = tomove->prev
  LET next1 == [next EXCEPT ![prev[n]] = next[n]]
  IN  /\ prev' = [prev EXCEPT ![n] = prev[End], ![End] = n]
      /\ next' = [next1 EXCEPT ![n] = End, ![prev[End]] = n]

MoveNot(n) == UNCHANGED <<next, prev>>    \* a hit that does not refresh the node

CountInTwice(n) ==           \* enqueue that counts the terminator as well
  /\ cache_count' = cache_count + 1
  /\ cache_load' = cache_load + Size[entry[n].val] + 1

CountOutHalf(n) ==           \* dequeue that leaves cache_load as it is
  cache_count' = cache_count - 1 /\ UNCHANGED cache_load

LoadTestOnce(t) ==           \* "if" in the place of "while"
  /\ Goto(t, "load_test",
          IF cache_load > MaxCacheSize /\ ret[t] # "free" THEN "dequeue" ELSE "print")
  /\ UNCHANGED <<links, lock, locals, fault>>

PrintFirstDummy(t) ==        \* print_cache that starts at the dummy
  /\ Goto(t, "print", "walk")
  /\ node' = [node EXCEPT ![t] = Front]
  /\ UNCHANGED <<links, lock, req, ret, out, fault>>

PrintNodeStuck(t) ==         \* print_cache without p = p->next
  /\ pc[t] = "walk" /\ node[t] \in heap
  /\ UNCHANGED vars

-----------------------------------------------------------------------

(* pre_read and pre_write, once the thread gets the lock; post_read and
   post_write. *)
AcquireRead(t)  == writer = {} /\ readers' = readers \cup {t} /\ UNCHANGED writer
ReleaseRead(t)  == readers' = readers \ {t} /\ UNCHANGED writer
AcquireWrite(t) == readers = {} /\ writer = {} /\ writer' = {t} /\ UNCHANGED readers
ReleaseWrite(t) == writer' = {} /\ UNCHANGED readers

(* A pointer that may be followed. *)
Live(a) == a \in heap \cup Dummy

is_empty == next[Front] = End /\ prev[End] = Front

(* strcasecmp on the three parts of the key *)
is_match(a, k) == Fold[entry[a].key] = Fold[k]

(* The pointers met when a loop follows f from a: it stops at a dummy, or at
   a pointer to memory that is not a node any more. *)
Path(f, a) ==
  LET p[i \in 0..Cardinality(Addr)] ==
        IF i = 0 THEN a ELSE IF p[i - 1] \in heap THEN f[p[i - 1]] ELSE p[i - 1]
  IN  p
Nodes(p)  == {i \in DOMAIN p : p[i] \in heap}
Stop(p)   == p[Cardinality(Addr)]
Forward   == Path(next, next[Front])
Backward  == Path(prev, prev[End])

(* Nothing is known of the process after a fault: no thread goes on. *)
Crash(t, kind) ==
  /\ fault' = kind
  /\ pc' = [u \in Thread |-> "crashed"]
  /\ UNCHANGED <<links, lock, locals>>

(* The transaction is over: its local variables are gone. *)
Return(t) ==
  /\ pc' = [pc EXCEPT ![t] = "idle"]
  /\ req' = [req EXCEPT ![t] = Null] /\ node' = [node EXCEPT ![t] = Null]
  /\ ret' = [ret EXCEPT ![t] = "idle"]  /\ out' = [out EXCEPT ![t] = NoEntry]

(* Writes to the list, each as the sequence of assignments in the code:
   append a node; unlink it and append it again; unlink the front node. *)
LinkLast(n) ==
  /\ prev' = [prev EXCEPT ![n] = prev[End], ![End] = n]
  /\ next' = [next EXCEPT ![n] = End, ![prev[End]] = n]

MoveLast(n) ==
  LET next1 == [next EXCEPT ![prev[n]] = next[n]]
      prev1 == [prev EXCEPT ![next[n]] = prev[n]]
  IN  /\ prev' = [prev1 EXCEPT ![n] = prev1[End], ![End] = n]
      /\ next' = [next1 EXCEPT ![n] = End, ![prev1[End]] = n]

UnlinkFirst(n) ==
  /\ next' = [next EXCEPT ![Front] = next[n]]
  /\ prev' = [prev EXCEPT ![next[n]] = Front]

(* cache_count and cache_load when a node enters and leaves the list;
   cache_load is unsigned. *)
CountIn(n) ==
  /\ cache_count' = cache_count + 1
  /\ \E s \in StrLen[entry[n].val] : cache_load' = (cache_load + s) % (SizeMax + 1)

CountOut(n) ==
  /\ cache_count' = cache_count - 1
  /\ \E s \in StrLen[entry[n].val] : cache_load' = (cache_load - s) % (SizeMax + 1)

(* free; what the memory holds afterwards is not known, and no step reads it. *)
Free(n) ==
  /\ heap' = heap \ {n}
  /\ next' = [next EXCEPT ![n] = Null]
  /\ prev' = [prev EXCEPT ![n] = Null]
  /\ entry' = [entry EXCEPT ![n] = NoEntry]

-----------------------------------------------------------------------
(* worker_main:43 calls is_cached for the key of a valid request. *)
Request(t) ==
  /\ \E k \in Key : req' = [req EXCEPT ![t] = k]
  /\ Goto(t, "idle", "is_cached")
  /\ UNCHANGED <<links, lock, node, ret, out, fault>>

IsCachedLock(t) ==
  /\ Goto(t, "is_cached", "scan") /\ AcquireRead(t)
  /\ UNCHANGED <<links, locals, fault>>

(* The scan from the most recently used node, and post_read. *)
IsCachedScan(t) ==
  LET p    == Backward
      hits == {i \in Nodes(p) : is_match(p[i], req[t])}
  IN  /\ pc[t] = "scan"
      /\ \/ /\ hits # {} /\ ~is_empty
            /\ node' = [node EXCEPT ![t] = p[Min(hits)]]
            /\ Goto(t, "scan", "update") /\ ReleaseRead(t)
            /\ UNCHANGED <<links, req, ret, out, fault>>
         \/ /\ is_empty \/ (hits = {} /\ Stop(p) = Front)
            /\ Goto(t, "scan", "miss") /\ ReleaseRead(t)
            /\ UNCHANGED <<links, locals, fault>>
         \/ /\ ~is_empty /\ hits = {} /\ Stop(p) # Front
            /\ Crash(t, "use_after_free")

UpdateLock(t) ==
  /\ Goto(t, "update", "relink") /\ AcquireWrite(t)
  /\ UNCHANGED <<links, locals, fault>>

(* update: unlink the node, link it before end, post_write. *)
UpdateRelink(t) ==
  LET n      == node[t]
      intact == Live(n) /\ Live(prev[n]) /\ Live(next[n])
  IN  /\ pc[t] = "relink"
      /\ \/ /\ intact /\ MoveLast(n)
            /\ ret' = [ret EXCEPT ![t] = "copy"]
            /\ Goto(t, "relink", "cache_check") /\ ReleaseWrite(t)
            /\ UNCHANGED <<heap, entry, cache_count, cache_load, req, node, out, fault>>
         \/ /\ ~intact /\ Crash(t, "use_after_free")

CheckLock(t) ==
  /\ Goto(t, "cache_check", "assert") /\ AcquireRead(t)
  /\ UNCHANGED <<links, locals, fault>>

(* The asserts of cache_check: the list is linked both ways and has
   cache_count nodes. *)
CheckHolds ==
  IF cache_count = 0
  THEN is_empty /\ prev[Front] = Null /\ next[End] = Null
  ELSE LET p == Forward
       IN  /\ Stop(p) = End
           /\ \A i \in Nodes(p) : next[prev[p[i]]] = p[i]
           /\ Cardinality(Nodes(p)) = cache_count

CheckAssert(t) ==
  /\ pc[t] = "assert"
  /\ \/ /\ CheckHolds
        /\ Goto(t, "assert", ret[t]) /\ ReleaseRead(t)
        /\ UNCHANGED <<links, locals, fault>>
     \/ /\ ~CheckHolds
        /\ Crash(t, "assert")

(* is_cached after update: the copy is made without the lock. *)
IsCachedCopy(t) ==
  /\ pc[t] = "copy"
  /\ \/ /\ Live(node[t])
        /\ out' = [out EXCEPT ![t] = entry[node[t]]]
        /\ Goto(t, "copy", "respond")
        /\ UNCHANGED <<links, lock, req, node, ret, fault>>
     \/ /\ ~Live(node[t])
        /\ Crash(t, "use_after_free")

(* forward_response_cached; worker_main returns. *)
RespondCached(t) ==
  pc[t] = "respond" /\ Return(t) /\ UNCHANGED <<links, lock, fault>>

(* The response was fetched from the server: add_cache allocates a node for
   it unless it is too large. *)
NewNode(t) ==
  /\ \E v \in Value, a \in Addr \ heap :
       /\ Size[v] < MaxObjectSize
       /\ heap' = heap \cup {a}
       /\ entry' = [entry EXCEPT ![a] = [key |-> req[t], val |-> v]]
       /\ node' = [node EXCEPT ![t] = a]
  /\ Goto(t, "miss", "enqueue")
  /\ UNCHANGED <<next, prev, cache_count, cache_load, lock, req, ret, out, fault>>

NotCacheable(t) ==
  /\ pc[t] = "miss" /\ \E v \in Value : Size[v] >= MaxObjectSize
  /\ Return(t) /\ UNCHANGED <<links, lock, fault>>

EnqueueLock(t) ==
  /\ Goto(t, "enqueue", "append") /\ AcquireWrite(t)
  /\ UNCHANGED <<links, locals, fault>>

EnqueueAppend(t) ==
  LET intact == node[t] \in heap /\ Live(prev[End])
  IN  /\ pc[t] = "append"
      /\ \/ /\ intact /\ LinkLast(node[t]) /\ CountIn(node[t])
            /\ ret' = [ret EXCEPT ![t] = "load_test"]
            /\ Goto(t, "append", "cache_check") /\ ReleaseWrite(t)
            /\ UNCHANGED <<heap, entry, req, node, out, fault>>
         \/ /\ ~intact /\ Crash(t, "use_after_free")

(* add_cache reads cache_load without the lock. *)
LoadTest(t) ==
  /\ Goto(t, "load_test", IF cache_load > MaxCacheSize THEN "dequeue" ELSE "print")
  /\ UNCHANGED <<links, lock, locals, fault>>

DequeueLock(t) ==
  /\ Goto(t, "dequeue", "unlink") /\ AcquireWrite(t)
  /\ UNCHANGED <<links, locals, fault>>

DequeueUnlink(t) ==
  LET del    == next[Front]
      intact == del \in heap /\ Live(next[del])
  IN  /\ pc[t] = "unlink"
      /\ \/ /\ is_empty
            /\ node' = [node EXCEPT ![t] = Null]
            /\ Goto(t, "unlink", "free") /\ ReleaseWrite(t)
            /\ UNCHANGED <<links, req, ret, out, fault>>
         \/ /\ ~is_empty /\ intact /\ UnlinkFirst(del) /\ CountOut(del)
            /\ node' = [node EXCEPT ![t] = del]
            /\ ret' = [ret EXCEPT ![t] = "free"]
            /\ Goto(t, "unlink", "cache_check") /\ ReleaseWrite(t)
            /\ UNCHANGED <<heap, entry, req, out, fault>>
         \/ /\ ~is_empty /\ ~intact /\ Crash(t, "use_after_free")

(* free_node dereferences its argument. *)
FreeNode(t) ==
  /\ pc[t] = "free"
  /\ \/ /\ node[t] \in heap /\ Free(node[t])
        /\ Goto(t, "free", "load_test")
        /\ UNCHANGED <<cache_count, cache_load, lock, locals, fault>>
     \/ /\ node[t] \notin heap
        /\ Crash(t, IF node[t] = Null THEN "null" ELSE "use_after_free")

(* print_cache walks the list without the lock, then worker_main returns. *)
PrintFirst(t) ==
  /\ Goto(t, "print", "walk")
  /\ node' = [node EXCEPT ![t] = next[Front]]
  /\ UNCHANGED <<links, lock, req, ret, out, fault>>

PrintNode(t) ==
  /\ pc[t] = "walk"
  /\ \/ /\ node[t] = End /\ Return(t)
        /\ UNCHANGED <<links, lock, fault>>
     \/ /\ node[t] \in heap
        /\ node' = [node EXCEPT ![t] = next[node[t]]]
        /\ UNCHANGED <<links, lock, pc, req, ret, out, fault>>
     \/ /\ node[t] # End /\ node[t] \notin heap
        /\ Crash(t, "use_after_free")

-----------------------------------------------------------------------
Step(t) ==
  \/ IsCachedLock(t) \/ IsCachedScan(t) \/ UpdateLock(t) \/ UpdateRelink(t)
  \/ CheckLock(t) \/ CheckAssert(t) \/ IsCachedCopy(t) \/ RespondCached(t)
  \/ NewNode(t) \/ NotCacheable(t) \/ EnqueueLock(t) \/ EnqueueAppend(t)
  \/ LoadTest(t) \/ DequeueLock(t) \/ DequeueUnlink(t) \/ FreeNode(t)
  \/ PrintFirst(t) \/ PrintNode(t)

Next == \E t \in Thread : Request(t) \/ Step(t)

Spec == Init /\ [][Next]_vars

-----------------------------------------------------------------------
Listed == {Forward[i] : i \in Nodes(Forward)}

(* Nodes a thread has to itself: allocated and not linked yet, or unlinked
   and not freed yet. *)
Owns(t) == \/ pc[t] \in {"enqueue", "append", "free"}
           \/ pc[t] \in {"cache_check", "assert"} /\ ret[t] = "free"
Owned == {node[t] : t \in {u \in Thread : Owns(u)}}

(* Threads whose pointer is one into the list. *)
Uses(t) == \/ pc[t] \in {"update", "relink", "copy", "walk"}
           \/ pc[t] \in {"cache_check", "assert"} /\ ret[t] = "copy"

(* Types of the state.  cache_count never becomes negative: dequeue takes no
   more nodes out (cache.c:184-200) than enqueue has put in; no loop ever has
   its pointer at the front dummy. *)
TypeOK ==
  /\ heap \subseteq Addr
  /\ next \in [Addr \cup Dummy -> Addr \cup Dummy \cup {Null}]
  /\ prev \in [Addr \cup Dummy -> Addr \cup Dummy \cup {Null}]
  /\ entry \in [Addr -> [key : Key, val : Value] \cup {NoEntry}]
  /\ cache_count \in Nat /\ cache_load \in 0..SizeMax
  /\ readers \subseteq Thread /\ writer \subseteq Thread
  /\ req \in [Thread -> Key \cup {Null}]
  /\ node \in [Thread -> Addr \cup {End, Null}]
  /\ fault \in {"none", "use_after_free", "assert", "null"}

(* The list is doubly linked from front to end, and cache_count is its length:
   what cache_check asserts, at every moment and not only when it runs. *)
ListInv == CheckHolds /\ Stop(Backward) = Front

(* The text of a stored response: the bytes before the first NUL in it.  One
   that ends with a newline has none (nio.c:129-143, cache.c:94-95). *)
Length == [v \in Value |-> CHOOSE n \in StrLen[v] : TRUE]

(* cache_load is the total length of the listed texts (cache.c:16, 170, 194). *)
LoadInv == cache_load = MapThenSumSet(LAMBDA a : Length[entry[a].val], Listed)

(* Every allocated node is in the list or in the hands of exactly one thread:
   nothing leaks and nothing is freed while it is reachable. *)
NoLeak ==
  /\ heap = Listed \cup Owned
  /\ Listed \cap Owned = {}
  /\ \A t, u \in Thread : Owns(t) /\ Owns(u) /\ t # u => node[t] # node[u]

(* dequeue takes a node out, and only one that no other thread has found and
   left the lock with (cache.c:184-200, 243-249): what the code needs of the
   times at which add_cache evicts, and does not see to. *)
Apart(t) == ~is_empty /\ \A u \in Thread \ {t} : Uses(u) => node[u] # next[Front]
EvictsUnused == \A t \in Thread : pc[t] = "unlink" => Apart(t)

(* No assert fails, no freed node is touched, free_node never gets NULL: the
   cache is "thread-safe" (README.md:42). *)
NoFault == fault = "none"

(* The bytes a client is answered with were stored for a key that strcasecmp
   does not tell from the requested one: is_cached returns the payload it
   found for host, port and path (cache.c:225-249). *)
HitServesKey ==
  \A t \in Thread : pc[t] = "respond" => Fold[out[t].key] = Fold[req[t]]

(* An empty cache has no load (test/cache-test.cpp:55-56). *)
EmptyLoadZero == cache_count = 0 => cache_load = 0

(* Once every add_cache has returned, the cache is within its capacity. *)
CapacityRestored ==
  (\A t \in Thread : pc[t] = "idle") => cache_load <= MaxCacheSize

(* A key has at most one node per thread: add_cache does not look again, so
   threads that missed together add together, but never more often. *)
CopiesBounded ==
  \A k \in Key :
    Cardinality({a \in Listed : Fold[entry[a].key] = Fold[k]})
      <= Cardinality(Thread)

(* The list is the abstract LRU queue: the entry that answers a request is
   one of the cached ones and moves to the end, the least recently used one
   leaves, and only while the load is too high.  What a thread serves is the
   node that was moved, and once it has made its copy (cache.c:247-249) that. *)
Contents == [i \in 1..cache_count |-> entry[Forward[i - 1]]]
Serves(t) == \/ pc[t] = "copy"
             \/ pc[t] \in {"cache_check", "assert"} /\ ret[t] = "copy"
Served == [t \in Thread |-> IF pc[t] = "respond" THEN out[t]
                           ELSE IF Serves(t) THEN entry[node[t]] ELSE NoEntry]

(* add_cache compares cache_load before it waits for dequeue's lock
   (cache.c:119-125), so every other thread may have evicted one node for the
   same excess by then.  A cached text is shorter than MAX_OBJECT_SIZE by its
   terminator and one. *)
MaxLength == MaxObjectSize - 2
Slack     == (Cardinality(Thread) - 1) * MaxLength

Abstract == INSTANCE LruCache WITH lru <- Contents, served <- Served
ImplementsLru == Abstract!Spec

(* Once no new requests arrive, every transaction ends. *)
Drains == <>[][\A t \in Thread : ~Request(t)]_vars
            => <>[](\A t \in Thread : pc[t] = "idle")

=======================================================================
