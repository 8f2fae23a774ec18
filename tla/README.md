# Verification of Mini Proxy

TLA+ models of the concurrent core of Mini Proxy, a threaded caching HTTP proxy
in C, with model-checking configurations for TLC and machine-checked proofs for
TLAPS.  Paths below are relative to `src/`.

## The system

| part | code | state | operations |
|---|---|---|---|
| master | `app/proxy.c:17-39, 88-104` | the listening socket, `connfd` | `main`: `open_listenfd`; `listen_on`: accept, insert into the queue, `getnameinfo` |
| message queue | `lib/src/sbuf.c` | a ring of descriptors, `front`, `rear`, three semaphores | `sbuf_setup`, `sbuf_insert`, `sbuf_remove` |
| workers | `app/proxy.c:56-75`, `lib/src/proxy-module.c:16-66` | `connfd`, request, host, port, path, payload | `worker`: remove, `worker_main`, close |
| request parsing | `proxy-module.c:74-130, 190-277` | strings | `parse_request`, `parse_uri`, `read_request_header`, `response_failure` |
| response transfer | `proxy-module.c:135-183`, `lib/src/nio.c` | `nio_buf`, line buffer, `payload`, `sum` | `forward_response`, `nio_readlineb`, `nio_read`, `nio_writen` |
| LRU cache | `lib/src/cache.c:77-290` | doubly linked list with two dummies, `cache_count`, `cache_load` | `is_cached`, `update`, `add_cache`, `enqueue`, `dequeue`, `free_node`, `cache_check`, `print_cache`, `cache_destroy` |
| reader-writer lock | `cache.c:45-75` | `mutex`, `w`, `readcnt` | `pre_read`, `post_read`, `pre_write`, `post_write` |
| connection helpers | `lib/src/inet-helper.c` | sockets | `open_clientfd`, `open_listenfd` |
| signals | `app/proxy.c:77-86` | - | SIGPIPE prints; SIGTERM destroys the cache and returns |
| others | `csapp.c`, `comm.h`, `app/client.c`, `app/reader-writer.c` | - | course library (P and V are used), logging, a client for trying servers, an example of the lock |

The master hands descriptors to eight workers through the queue.  A worker reads
and parses one request, looks its key up in the cache, and on a hit sends the
cached bytes; on a miss it connects to the server, relays the response line by
line while it collects up to 100 KiB of it, and adds the response to the cache,
which evicts least recently used entries above 1 MiB.  All workers share the
cache through the reader-writer lock, and the process's descriptor table.

What is hard here, and to test: the order of the lock's semaphore operations; what
`is_cached`, `add_cache` and `print_cache` do *outside* the lock; the ring's
indices and semaphores; failures whose results are not checked (`accept`,
`open_clientfd`, `read` as a `size_t`); descriptors reused as soon as they are
closed; reads that cut lines anywhere; lengths that are off by one at a newline,
at a full buffer and at the end of the input; a signal handler that takes the
lock on whichever thread it interrupts and frees what all of them point to.
`PROJECT.json` lists these hazards at their lines.

What makes each part correct: writers alone and no lost wake-up (lock); bounded
FIFO hand-over, each item to one consumer, eventually (queue); a consistent list
that is an LRU queue within its capacity, no node used after it was freed
(cache); what the server sends reaches the client in order and whole, and the
cache gets what the client got (transfer); one holder per connection, service as
long as a worker is free (master and workers).

## Modules

| module | models | state and actions |
|---|---|---|
| `RWLock` | what the lock promises (`cache.h:10-14`) | sets of readers and writers |
| `ReaderWriter` | `cache.c:45-75` | one action for each P, V and update of `readcnt`; `pc` is the statement a thread executes next |
| `ReaderWriterProofs` | | theorems about `ReaderWriter` |
| `BoundedQueue` | what the queue promises (`README.md:54-56`) | a sequence of at most `N` items, the item each producer offers, the one each consumer took |
| `Sbuf` | `sbuf.c` | one action for each semaphore operation, index increment and slot access; indices are C ints that wrap at `IntMax` |
| `SbufProofs` | | theorems about `Sbuf` |
| `LruCache` | what the cache promises (`cache.c:22-29`, `README.md:83`) | the sequence of entries from least to most recently used, the entry each thread serves |
| `Cache` | `cache.c:77-290` as `proxy-module.c:43-64` uses it | links `next`/`prev` of addresses that are allocated, freed and reused; a section under the lock is one action, waiting for the lock is one, and every unlocked statement is its own |
| `CacheHistory` | `Cache` with a history variable | `robbed`: `dequeue` has taken a node that another thread was still using |
| `Shutdown` | `main` up to the workers, `sigterm_handler` and `cache_destroy` (`proxy.c:82-86, 95-100`, `cache.c:144-156`) over `Cache` | where the handler is on each thread; delivery of a SIGTERM, waiting for the lock, the walk that frees; an interrupted thread does not move, and may hold the readers' `mutex` |
| `CacheProofs` | | theorems about `Cache` and `CacheHistory`, and lemmas about its list that the next module uses too |
| `ShutdownProofs` | | theorems about `Shutdown` and the `Cache` in it |
| `Forward` | `forward_response` over `nio.c`, and the block `new_node` makes for the result (`cache.c:92-95`) | a response as a sequence of bytes; actions for `read()`, each byte `nio_readlineb` takes, its three returns, the relay of a line, each `write()`, the copy into the block |
| `Request` | `parse_request`, `parse_uri` with the buffers of `worker_main`, `read_request_header` | one action per check and per part, and per header line; a URI is a sequence of tokens, a header one of lines |
| `Proxy` | `main`, `listen_on`, `worker`, `worker_main`, `open_listenfd`, `open_clientfd` | the descriptor table, the queue, where master and workers are, the addresses left to try |
| `ForwardProofs`, `RequestProofs`, `ProxyProofs` | | theorems about these three |
| `DataLemmas` | | lemmas about data that several proofs use: least elements, induction over naturals and sequences, rearrangements of sequences |
| `MC*` | | instances for TLC |

They build on one another by abstraction: `ReaderWriter` implements `RWLock`,
and `Cache` uses the lock in the form of `RWLock` (its sets `readers` and
`writer`); `Sbuf` implements `BoundedQueue`, and `Proxy` uses the queue as a
sequence bounded by `QueueSize`; `Cache` implements `LruCache`, and `Proxy` sees
a lookup as a hit or a miss; `Request` is the inside of `Proxy`'s `ParseRequest`,
`Forward` the inside of its `ForwardResponse`; `Shutdown` extends `Cache` by the
handler, whose steps interleave with all of the threads'; what `Forward` finds
in a block (`BlockFits`) is what `MCCache` says of `strlen` of a stored response
(`Terminated`, `Unterminated`).

Correspondence that needs a word:

* **Sections of `Cache` are atomic.**  `SectionsApart` and the refinement of
  `RWLock` justify it: what happens between `pre_write` and `post_write` is seen
  by no other holder.  Threads that read the list *without* the lock
  (`print_cache`, the copy in `is_cached`) can only see the state between
  sections, so the model has fewer faults than the code, never more.
* **Freed memory** is a fault when it is used (`fault`), after which the process
  stops.  An address that was freed and allocated again is live and not a
  fault: then the wrong entry is served.
* **`strlen`** of a stored payload is a choice from `StrLen[v]`, as the stored
  copy need not be terminated (`cache.c:94-95`).  A last line without a newline
  has its terminator counted as a byte of the response (`nio.c:142-143`) and
  stored with it: `strlen` is the size less one (`Terminated`).  A response that
  ends with a newline has an unwritten byte where the terminator should be:
  `strlen` is the size or more, and not the same each time (`Unterminated`, the
  run `cache_strlen`).
* **The abstract LRU queue** evicts only while its load, plus `Slack`, exceeds the
  capacity.  `add_cache` reads `cache_load` without the lock and `dequeue` waits
  for it, so each of the other threads may have evicted one entry for the same
  excess in between; `Slack` is that much, and 0 for one thread.
* **Semaphores before `cache_init`** are zero, as static data is: a handler that
  runs on `main` before the cache is initialised waits for ever (`Setup`,
  `DestroyLock`).  A thread that was interrupted between P and V of `mutex` keeps
  every other thread from taking or giving back the read lock (`counting`).
* **SIGTERM** may be delivered to the master or to any worker (POSIX leaves that
  open; Linux prefers the master).  `signal()` of the C library sets
  `SA_RESTART`, so a semaphore operation that was interrupted is repeated.  A
  signal that hits a thread inside `malloc` or `printf`, whose own locks the
  handler needs as well, is not modelled.
* **After `cache_destroy`** the dummies are no pointers to follow any more: their
  links are `NULL` in the model, so every use of the list is a fault.
* **Read errors** in `Forward` are -1 converted to `size_t`, modulo `SizeMax + 1`;
  the `memcpy` of `SizeMax` bytes that may follow is the last step of the process.
* **NULs** are bytes like any other: servers send them, and `nio_readlineb` adds
  its terminator to a line that is as long as the buffer and to a last line
  without a newline.  `Framed` says where, independently of the chunks read.
* **`accept` with a full table** fails at once, as Linux reserves the descriptor
  before it waits for a client.
* **`open_clientfd` is defined twice**, in `inet-helper.c` (which exits when a
  name does not resolve) and in `csapp.c` (which returns -2); both are linked as
  shared libraries, so `Proxy` has both outcomes.
* **`EINTR`** repeats the call and changes nothing, a stuttering step.
* In each module, definitions under "Faulty variants" are deliberately wrong
  forms of a definition below them; every property is violated by one of them.

## Runs

| run | result | what it shows |
|---|---|---|
| `rwlock` | holds | four threads, every statement interleaved: the inductive invariant `LockInv`, `WriterExclusive`, `ReaderFavoured`, the refinement of `RWLock`, and `Quiescence`: once no new calls come, every pending call completes |
| `sbuf` | holds | two producers, two consumers, two slots, four inserts, no wrap: `SbufInv`, refinement of `BoundedQueue`, `EventuallyRemoved` |
| `cache_shared` | holds | two threads, two keys, sizes 2 and 3, capacity 2, three addresses, every interleaving to its end: a fault, a wrong answer, a wrong load, a transaction that does not end or a step that is none of the LRU queue only after `dequeue` took a node from under another thread (`FaultOnlyRobbed`, `AnswersUnlessRobbed`, `LoadUnlessRobbed`, `DrainsUnlessRobbed`, `LruUntilRobbed`); the capacity is restored in any case |
| `cache_concurrent` | holds | two threads, two keys, four addresses, a capacity of 2, two SIGTERMs delivered to any thread at any statement: the cache is shared *and* evicts, in every state up to one where `UnusedUntilDestroyed` is violated, that is where `dequeue` would take a node that another thread uses outside the lock.  Until the cache is destroyed the list is consistent (`Consistent`); at most one copy of a key per thread; writers, the handler among them, are alone (`SectionsApart`); the handler frees every listed node and no other, and none is lost (`NothingLost`) |
| `cache_eviction_race` | **violated** | two threads and a capacity of 3: a freed node is used |
| `cache_strlen` | **violated** | an empty cache with a load that is not 0 |
| `cache_sigterm` | **violated** | a SIGTERM inside a section: its handler waits for the lock its own thread has |
| `forward` | holds | responses of up to 6 bytes over `a`, NUL, newline; lines of 3, input buffer of 2, objects of 5: no byte lost or reordered, only the NULs of `Framed` added (`Conserved`), delivered in order, cache contents equal to what was relayed and complete unless the server reset, no overrun of `payload` but after a read error (`OverrunCrashes`), the copy of `new_node` within its block for text lines that fit the buffer (`BlockFits`), termination |
| `forward_reply` | **violated** | a line longer than the buffer: the client receives a NUL the server did not send, the returned size is one too large, and the copy of `new_node` exceeds its block, in one behaviour |
| `request` | holds | URIs over six tokens, up to 4 long or `http://` and up to 5 more, with what an earlier request left in `port`: `FormatParsed` (the documented format, taken apart as documented), `PartsFromUri`, `AnsweredOnce`; headers of up to three fields, complete or cut off: no line is asked for behind the blank one (`NeverWaits`) |
| `proxy` | holds | two workers, three clients, two descriptors, servers of up to two addresses, queue of 2; all behaviours of clients, servers and `open_listenfd`: `OneHolder`, `QueueServed`, `Released` |
| `proxy_connect` | **violated** | a refused connection to a server leaves the client's connection open for ever |

The violated runs are the findings of `PROJECT.json`, each against a line of the
repository's own documentation, comments or tests.  Two of them have a claim that
holds beside them.  `cache_eviction_race` shows what happens when `dequeue` takes a
node that another thread has found under the lock and uses without it, and
`cache_shared` that nothing else goes wrong: not by evictions for an excess that is
gone, by lookups and insertions of the same key, or by copies made without the
lock.  `forward_reply` shows what a long line does, and `Conserved` and `BlockFits`
that whole lines which fit the buffer are handed on unchanged and stored within
their block.

### Other disagreements

The models contain some more behaviour that the repository's documents do not
promise, which the properties above allow for and no run is about:

* **Wrong answers.**  When the node in `cache_eviction_race` is freed *and* its
  address allocated again, the copy is of another key (`IsCachedCopy`).
* **Headers.**  `read_request_header` stops after two lines, as its condition is
  inverted (`proxy-module.c:196`, `NextHeader`), and leaves the rest unread;
  `proxy-module.h:9` calls 100 the "maximum lines read from request header".
* **Leaked descriptors.**  `worker_main` never closes its connection to the server
  (`proxy-module.c:53`, `Close`): the table fills, and then no client is accepted.
* **Read errors.**  While the response is small, -1 as a `size_t` makes `memcpy`
  overrun `payload` (`proxy-module.c:164-167`, `ReadError`).
* **Wrapping indices.**  After `INT_MAX` inserts the index is negative and selects
  no slot of the array (`sbuf.c:21`, `Inc`, `Mod`).
* **Partial responses.**  A response cut short by a reset is cached as if it were
  complete (`nio.c:70`, `EndOfFile`).

### Bounds

* `rwlock`: with four threads there are two readers, a third arriving and a writer
  at once, so first/last reader transitions overlap in every way; the theorems
  remove the bound.
* `sbuf`: two slots and four inserts make the buffer full and empty and reuse both
  slots; the theorems hold for any size and number of threads.
* `cache_shared`: texts have 1 and 2 characters, and two small entries or a big one
  fill the cache: an insertion evicts one or two nodes, while the other thread is
  anywhere, and both may evict for one excess.  Three addresses are more than the
  capacity holds, so an address that was freed is used again.  There is no
  constraint, and no symmetry, as the run has a liveness property.
* `cache_concurrent`: four addresses, so that both threads may hold a node beside
  a full list, and two signals, so that a second handler meets a destroyed cache.
  Its CONSTRAINT `UnusedUntilDestroyed` has TLC check the states in which it is
  violated but not go on from them, as the behaviours behind them are those of
  `cache_eviction_race`.  Symmetry is over addresses, which nothing orders.
* `SizeMax` is far above any correct load, so a wrap shows.
* `forward_reply`: no NUL in the response and all of it cached, so that whatever
  goes wrong is the line's length.
* `forward`: `MAXLINE` < `MaxObjectSize` < `MaxResponse`, so full lines, lines
  ended by a newline, by the end of file, objects just below, at and above the
  limit all occur, and a long line can be followed by another in a response
  that is small enough to be cached.
* `request`: host, colon, digit, slash and word make a complete URI behind `http://`,
  so five tokens have every order of the separators; `long` is a word that does
  not fit `scheme`.  `HEADER_LINE_SIZE` is 3 in the place of 100, with up to
  three fields and the blank line, so headers at and above the limit occur.
* `proxy`: two descriptors for three clients and their servers exhaust the table;
  a queue of 2 blocks the master; with two addresses a failed one is followed
  by another or by none.

`Forward` and `Request` describe one transfer and one request, and stutter at their
end.  `CHECK_DEADLOCK FALSE` is used where the system may stop: `sbuf` after
the last insert; `cache_shared` after a fault; `cache_concurrent` and
`cache_sigterm` after a fault or when a handler waits for its own thread; the
runs of `Proxy` when all clients were served, all workers are stuck, or the
process has exited.

### Fairness

Weak fairness per thread: a thread that can take its next step eventually does,
which is what a preemptive scheduler gives.  Semaphores are not assumed fair
(`sem_wait` promises no order), so no property says that one particular waiter
gets a contended semaphore; `Quiescence` and `DrainsUnlessRobbed` speak of the time
after new calls stopped, `EventuallyRemoved` of items and not of threads.  New calls and
requests are never fair.  In `Forward` the server's data arrives and its
connection ends; in `Shutdown` a thread that is not interrupted and a handler
that can get the lock go on; in `Proxy` clients and servers may keep silent or
stop reading for ever, which leaves a worker at `waits`.

## Proofs

TLAPS checks the following for every value of the constants that their
assumptions allow.

**Reader-writer lock**, any finite set of threads:

* `LockCorrect`: `LockInv` is an invariant of `ReaderWriter`.  `WriterExclusive`
  alone is not inductive: a writer is excluded because `w` is 0, which is so
  because readers hold it, which `readcnt` knows only if `mutex` made its updates
  atomic.  `LockInv` therefore says who is inside `mutex` (`MutexInv`), whom
  `readcnt` counts at each statement (`CountInv`) and on whose behalf `w` is
  held (`WriterInv`): in particular the reader at `P(w)` is the only counted
  one, and at `V(w)` nobody is counted.  Cardinality lemmas turn the changes of
  `pc` into changes of `readcnt`.
* `WriterAlone`, `ReadersFirst`: `WriterExclusive` and `ReaderFavoured` follow from
  `LockInv`.
* `LockRefinement`: every step is a step of `RWLock` or a stutter under the
  mapping to the threads between acquisition and release.

**Message queue**, any number of producers and consumers, any size and items:

* `SbufCorrect`: `SbufInv`, if at most `IntMax` inserts are made (the hypothesis
  `MaxInserts <= IntMax`, without which an index wraps and leaves the array).
  Slots are free, reserved, filled or being returned, filled slots are announced, being announced or claimed, and these counts add up to
  `N` through every interleaving (`CountInv`).
* `SbufRefinement`: the filled slots, from `First` to `Last`, are the queue of
  `BoundedQueue`; distinct indices less than `N` apart select distinct slots.

**Sections of the cache**, any set of threads, keys, responses, capacity and
number of SIGTERMs:

* `SectionsAreApart`: `SectionsApart`.  It is not inductive: a thread and the
  handler that interrupted it are one holder of the lock, so `writer` does not
  tell which of the two is in its section.  `Apart` adds that never both are,
  and `StoppedInv` that after a fault no thread goes on.  Each action of a
  thread stays out of the sections, or enters or leaves one; there is a lemma
  for each kind of move.  Nothing about the list is needed: threads are kept
  apart also when the list is broken.

**List of the cache**, any finite sets of threads and addresses, any keys,
responses and capacity.  The first three theorems have the hypothesis
`[]EvictsUnused`: whenever a thread stands at the body of `dequeue`, the list is
not empty and its first node is not one that another thread uses outside the
lock, which `cache.c` needs and does nothing to ensure.  The others replace it by
the history variable `robbed` and conditions on constants alone.

* `TypesHold`, `NothingLeaks`, `OneCopyPerThread`: `TypeOK`, `NoLeak` and
  `CopiesBounded` of `Cache`, from `CacheInv`.  It says that there is a set of nodes
  `L` which is the list (`State(L)`): the links are one chain through `L` in both
  directions, with `cache_count` nodes (`Linked`); every other allocated node
  belongs to exactly one thread (`Memory`) and has no links but those `dequeue`
  leaves in it (`Blank`); and what a thread uses outside the lock is in `L` and was
  stored for its key (`ThreadOK`).  A node is added, moved or taken out by the
  four assignments of `enqueue`, `update` or `dequeue`; `Appended`, `Relinked` and
  `Unlinked` show that the chain stays one, also when the node is the first, the
  last or the only one.  `FewCopies` adds to the copies of a key the threads that
  have missed it.
* `NothingFails`, `AnswersTheKey`, `LoadExact`, `LruOrder`: `FaultOnlyRobbed`,
  `AnswersUnlessRobbed`, `LoadUnlessRobbed` and `LruUntilRobbed` of `CacheHistory`.
  They assume nothing of evictions, only that every stored response contains a
  NUL (`NulStored`, which leaves out those that end with a newline: see
  `cache_strlen`), that a `size_t` counts the load of all nodes (`LoadCounts`) and
  that the cache has room for one object per thread but one (`Roomy`; 7 * 100 KiB
  and 1 MiB in the code).  The inductive invariant `Sound` is `CacheInv` and
  `LoadState`: `cache_load` is exact (`Loaded`, with `Total`, a sum over a finite set
  that gains and loses an element), and a thread that has decided to evict finds
  a load that exceeds the capacity but for one object per thread that is not
  deciding (`Room`).  This is why the list is never empty in `dequeue`
  (`FindsOne`), and it gives the `Slack` of the LRU queue.
  `Contents` is read off the chain (`ContentsOrder`, `OrderIs`): `enqueue` appends its
  node's entry (`AppendLru`), `dequeue` drops the head (`UnlinkLru`), `update` takes
  one out of the middle and appends it (`RelinkLru`).  What a thread serves is the
  entry of its node until the copy is made, then the copy; no other thread
  changes it (`OthersAnswer`).
* `OneThreadLru`: a single thread robs nobody, so it satisfies `EvictsUnused` and
  `ImplementsLru` under `NulStored` and `LoadCounts`.
* `WithinCapacity`: `CapacityRestored` without a condition on `dequeue`: evictions
  of nodes in use, and even faults, do not change it.  Its hypothesis is that
  `cache_load` stays in its type, `size_t`.

**List and SIGTERM**, also any number of signals, under `EvictsUnused` until the
cache is destroyed (`UnusedUntilDestroyed`):

* `ListConsistent`, `LosesNothing`, `CopiesWithSignals`: `Consistent`, `NothingLost`
  and `CopiesBounded` of `Shutdown`, from `DestroyInv`.  Until the handler has
  freed the list it is `CacheInv`; from then on, while nothing has failed, the
  dummies have no links and every allocated node belongs to one thread (`Gone`).
  `Blank` is what makes `Gone` follow: no node that is not in the list leads back into it.  That the walk of
  `cache_destroy` frees exactly `L` needs the chain, and that no thread is in the
  middle of changing it needs `SectionsAreApart`.

**Master and workers**, any finite sets of workers, clients and descriptors and
any size of the queue:

* `ProxyCorrect`, `ProxyTypes`, `HeldByOne`: `TypeOK` and `OneHolder`.  The latter
  counts holders, which a step changes in several places at once; the invariant
  says the same without counting: what is held is open (`HeldOpen`), no two hold
  the same (`HeldOnce`), and what is open is held (`OpenHeld`).  `OpenHeld` is what
  makes the number the kernel gives to a new connection nobody's.  `Held` says
  nothing once the process has exited.

**Requests**, any methods, protocols, URIs of any length, headers of any length
and any limit of lines:

* `OneAnswer`: `AnsweredOnce`; the invariant adds which checks lie behind each
  place of the parser.
* `NoWait`: `NeverWaits` for clients that end their header with a blank line or
  close (the hypothesis `HeadersEnd`; a client that stops in between is waited
  for).  While `read_request_header` runs, its buffer holds the blank line or
  more lines follow.
* `Parsed`, `PiecesOfUri`, `FormatAccepted`: `PartsFromUri` and `FormatParsed`.
  `ParseInv` says, for each place of the parser, where the parts read so far end:
  at the first separator, which is a minimum over positions.  `FormatParsed`
  compares this with a concatenation of parts, so its proof turns minima over
  positions into lengths of the parts.

**Response transfer**, any bytes, response, ending of the connection, sizes of
the two buffers and limit of the cached object:

* `ForwardCorrect`: `IInv` is an invariant of `Forward`.  `FlowInv` says that the
  response is what `nio_read` has handed out (the history variable `got`), what is
  in the input buffer, what is unread and what was cut off, in this order;
  `FrameInv` that what was relayed and the line are the framed form of `got`;
  `DeliveryInv` relates the client to what was relayed; `LineInv` says what
  `nio_readlineb`'s counter counts; `SumInv` that `sum` and `payload` follow `relayed`
  until the limit, that after a read error the sum stays above the limit or the
  process is gone, and that the size cannot wrap otherwise; `CacheInv` what has
  been handed to the cache.
* `ForwardTypes`, `CopyFits`, `NothingLostOnTheWay`, `DeliveredInOrder`,
  `CachedAsSent`, `CompleteUnlessReset`, `CopyFitsBlock`: the seven invariants of the
  run `forward`.  For `CopyFitsBlock` the framed form of a text without NULs and
  long lines is that text, with a NUL at its end unless it ends with a newline.
* `Framed` is a recursive function.  That it exists, and what it returns for a
  sequence with one more byte, is proved by induction: the library's induction
  theorems take an operator as a parameter, which no backend can instantiate, so
  `DataLemmas` proves induction for a *set* of naturals or of sequences, from the
  well-foundedness of <.

Each of these inductive invariants was checked by TLC on a small instance before
it was proved.

The assumptions on constants, which TLC evaluates in the runs, are
`ThreadAssumption`, `SbufAssumption`, `CacheAssumption`, `ThreadsAssumption` (there
are finitely many threads), `AddrAssumption` (finitely many addresses, none of them
a dummy or `NULL`), `ShutdownAssumption`,
`ProxyAssumption`, `NamesAssumption` (the names of clients are no names of workers
or states of descriptors), `RequestAssumption` and `ForwardAssumption`.  The last
one has 2 * `MaxResponse` <= `SizeMax`: a `size_t` counts the longest response with
a NUL for every byte of it, which is so for everything a connection can carry.

Only model-checked:

* all liveness properties (`Quiescence`, `EventuallyRemoved`, `DrainsUnlessRobbed`,
  `TransferEnds`, `QueueServed`, `Released`), as they depend on fairness, which is
  beyond the prover;
* the invariants of the runs that are expected to be violated.

## Not modelled

* The sizes of the buffers a request is copied into, except `scheme[10]`: all
  others are as large as the line.
* `exit` while other threads hold the lock or descriptors: the process is gone, and
  with it all state.
* `response_failure` as text: what `sprintf` does with a buffer that is also an
  argument (`proxy-module.c:289-296`) is undefined.
* `nio_readn`, `nio_readnb`, `sbuf_is_empty`, `subf_teardown`: unused; `csapp.c` apart
  from P and V, as the proxy calls nothing else of it but possibly its
  `open_clientfd`; logging, `app/client.c`, the tests.
* `googletest/`: vendored, no part of the proxy, and 95% of the repository's lines.
  The models cover most of the proxy's own control flow (`app/proxy.c`,
  `cache.c`, `sbuf.c`, `proxy-module.c`, `inet-helper.c`, half of `nio.c`); what
  of these files is not covered is unused or console output, so the share of
  all lines that a model can stand for stays small.

## Plan

Done: lock, queue, cache with `cache_destroy` and SIGTERM, transfer with the
block of `new_node`, request line and header, master and workers with both
connection helpers; proofs of the lock, of the queue, of the cache with and
without signals, and of all safety properties of `Proxy`, `Request` and `Forward`.

What is left:

1. Two requests of one client address through `Request`, `Cache` and `Forward` in
   one module, so that a key with the size of its response is what the next
   request is answered with.
2. Which copy of a duplicated key a hit returns while both are moved by other
   threads, as a property of `CacheHistory`.
3. The proof that the lock under signals (`DestroyLock`) is the one of
   `ReaderWriter` with a handler as a writer that runs on a reader's thread.
