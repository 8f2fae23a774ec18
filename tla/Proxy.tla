----------------------------- MODULE Proxy -----------------------------
(***************************************************************************)
(* The proxy process: the master that opens the listening socket and       *)
(* accepts connections (main and listen_on, app/proxy.c:17-39, 88-104),    *)
(* the message queue, and the worker threads that take connections from it *)
(* and run worker_main on them (app/proxy.c:56-75, proxy-module.c:16-66),  *)
(* with the table of file descriptors they share.                          *)
(*                                                                         *)
(* The queue is the abstract one that Sbuf implements, a transfer is one   *)
(* step (Forward has its inside), and a lookup in the cache is a hit or a  *)
(* miss (Cache has its inside).                                            *)
(***************************************************************************)
EXTENDS Integers, Sequences, FiniteSets, FiniteSetsExt

CONSTANTS Worker, Client,
          Sends,       \* what clients send, see ProxyAssumption
          Connect,     \* what open_clientfd meets, see ProxyAssumption
          Listen,      \* what open_listenfd meets: subset of {"ok", "failed", "unresolved"}
          MaxAddress,  \* bound: addresses of a server
          Fd,          \* descriptors the process may have besides its listening one
          QueueSize    \* SBUFSIZE

(* A client sends a request for a document, or one that parse_request refuses;
   it closes before it sends anything, or keeps silent, or sends the request
   line and then stalls, or sends a request and does not read the answer.  A
   server ends its response, or keeps silent once it is reached, or refuses the
   connection, or its name does not resolve. *)
ASSUME ProxyAssumption ==
  /\ Sends \subseteq {"valid", "invalid", "nothing", "silence", "line", "deaf"}
  /\ Sends \cap {"valid", "invalid", "line", "deaf"} # {}
  /\ Connect \subseteq {"ok", "silent", "refused", "unresolved"}
  /\ Listen \subseteq {"ok", "failed", "unresolved"}
  /\ MaxAddress \in Nat \ {0}
  /\ IsFiniteSet(Fd) /\ Fd \subseteq Nat
  /\ QueueSize \in Nat \ {0}

NoFd    == -1
Free    == "free"
Forward == "forward"   \* a connection to a server

(* A descriptor of a client refers to nothing else. *)
ASSUME NamesAssumption == Client \cap (Worker \cup {Free, Forward}) = {}

VARIABLES listening, \* listenfd is a listening socket, not -1
          backlog,   \* clients the kernel has or will have queued
          desc,      \* what each descriptor refers to: a client, a server, the
                     \* socket a worker is connecting, nothing
          queue,     \* the message queue
          mpc, mfd,  \* the master: where it is, its connfd
          wpc, wfd,  \* the workers: where they are, their connfd
          left,      \* addresses of its server a worker has not tried yet
          closed     \* clients whose connection the proxy has closed

vars == <<listening, backlog, desc, queue, mpc, mfd, wpc, wfd, left, closed>>
shared == <<listening, backlog, queue, mpc, mfd>>   \* not touched by worker_main

Init ==
  /\ listening = FALSE /\ backlog = Client
  /\ desc = [fd \in Fd |-> Free]
  /\ queue = <<>>
  /\ mpc = "open_listenfd" /\ mfd = NoFd
  /\ wpc = [w \in Worker |-> "remove"] /\ wfd = [w \in Worker |-> NoFd]
  /\ left = [w \in Worker |-> 0]
  /\ closed = {}

(* exit(1): no thread of the process takes another step. *)
Exit == mpc' = "exited" /\ wpc' = [w \in Worker |-> "exited"]
Exited == mpc = "exited"

Unused == {fd \in Fd : desc[fd] = Free}

-----------------------------------------------------------------------
(* Faulty variants of definitions below, one per mistake the properties are
   meant to catch. *)
RemoveKeeps(w) ==            \* sbuf_remove that leaves the item in the queue
  /\ wpc[w] = "remove" /\ queue # <<>>
  /\ wfd' = [wfd EXCEPT ![w] = Head(queue)]
  /\ wpc' = [wpc EXCEPT ![w] = "read"]
  /\ UNCHANGED <<listening, backlog, desc, queue, mpc, mfd, left, closed>>

CloseForgotten(w) ==         \* a worker that does not close its connfd
  /\ wpc[w] = "close" /\ wpc' = [wpc EXCEPT ![w] = "remove"]
  /\ wfd' = [wfd EXCEPT ![w] = NoFd]
  /\ UNCHANGED <<shared, desc, left, closed>>

InsertUnguarded ==           \* sbuf_insert that does not wait for a slot
  /\ mpc = "insert"
  /\ queue' = Append(queue, mfd)
  /\ mpc' = "getnameinfo"
  /\ UNCHANGED <<listening, backlog, desc, mfd, wpc, wfd, left, closed>>

ParseFailureReturns(w) ==    \* an invalid request ends the worker's loop
  /\ wpc[w] = "failure"
  /\ wpc' = [wpc EXCEPT ![w] = "gone"]
  /\ UNCHANGED <<listening, backlog, desc, queue, mpc, mfd, wfd, left, closed>>

-----------------------------------------------------------------------
(* open_listenfd, while the workers wait already: a port that cannot be looked
   up ends the process, or gives -2 (csapp.c); when no address can be bound and
   listened on it returns -1.  The result is not checked. *)
OpenListenFd ==
  /\ mpc = "open_listenfd"
  /\ \/ /\ \E how \in Listen : listening' = (how = "ok")
        /\ mpc' = "accept" /\ UNCHANGED wpc
     \/ /\ "unresolved" \in Listen
        /\ Exit /\ UNCHANGED listening
  /\ UNCHANGED <<backlog, desc, queue, mfd, wfd, left, closed>>

(* listen_on.  accept takes the lowest free descriptor; when there is none it
   fails at once, whether or not a client is waiting, and so it does without a
   listening socket; its -1 is queued like a descriptor. *)
Accept ==
  /\ mpc = "accept"
  /\ \/ \E c \in backlog :
          /\ listening /\ Unused # {}
          /\ mfd' = Min(Unused) /\ desc' = [desc EXCEPT ![Min(Unused)] = c]
          /\ backlog' = backlog \ {c}
     \/ /\ ~listening \/ Unused = {}
        /\ mfd' = NoFd /\ UNCHANGED <<desc, backlog>>
  /\ mpc' = "insert"
  /\ UNCHANGED <<listening, queue, wpc, wfd, left, closed>>

(* sbuf_insert, which waits for a free slot *)
Insert ==
  /\ mpc = "insert" /\ Len(queue) < QueueSize
  /\ queue' = Append(queue, mfd)
  /\ mpc' = "getnameinfo"
  /\ UNCHANGED <<listening, backlog, desc, mfd, wpc, wfd, left, closed>>

(* getnameinfo; with the address of a failed accept it may fail: exit(1). *)
GetNameInfo ==
  /\ mpc = "getnameinfo"
  /\ \/ mpc' = "accept" /\ UNCHANGED wpc
     \/ mfd = NoFd /\ Exit
  /\ mfd' = NoFd
  /\ UNCHANGED <<listening, backlog, desc, queue, wfd, left, closed>>

-----------------------------------------------------------------------
WGoto(w, from, to) == wpc[w] = from /\ wpc' = [wpc EXCEPT ![w] = to]

(* sbuf_remove *)
Remove(w) ==
  /\ WGoto(w, "remove", "read") /\ queue # <<>>
  /\ wfd' = [wfd EXCEPT ![w] = Head(queue)]
  /\ queue' = Tail(queue)
  /\ UNCHANGED <<listening, backlog, desc, mpc, mfd, left, closed>>

(* nio_readlineb reads the request line.  A client that closed sends nothing
   and the session is closed; for a silent one the worker waits, as the call
   has no timeout.  On descriptor -1 the read fails with -1, which is not 0. *)
ReadRequest(w) ==
  /\ \/ WGoto(w, "read", "parse")
     \/ wfd[w] \in Fd /\ "nothing" \in Sends /\ WGoto(w, "read", "close")
     \/ wfd[w] \in Fd /\ "silence" \in Sends /\ WGoto(w, "read", "waits")
  /\ UNCHANGED <<shared, desc, wfd, left, closed>>

(* parse_request and parse_uri; after a failed read they are given the buffer
   as it happens to be. *)
ParseRequest(w) ==
  /\ \/ /\ "invalid" \in Sends \/ wfd[w] = NoFd
        /\ WGoto(w, "parse", "failure")
     \/ /\ {"valid", "line", "deaf"} \cap Sends # {} \/ wfd[w] = NoFd
        /\ WGoto(w, "parse", "is_cached")
  /\ UNCHANGED <<shared, desc, wfd, left, closed>>

(* response_failure: 400, 501 or 404, then worker_main returns. *)
ResponseFailure(w) ==
  WGoto(w, "failure", "close") /\ UNCHANGED <<shared, desc, wfd, left, closed>>

(* The client of w takes in no more than its socket buffers hold, so a write
   of more than that waits for ever. *)
Deaf(w) == wfd[w] \in Fd /\ "deaf" \in Sends

(* is_cached; a hit is answered by forward_response_cached. *)
Lookup(w) ==
  /\ \/ \E to \in {"close", "header"} : WGoto(w, "is_cached", to)
     \/ Deaf(w) /\ WGoto(w, "is_cached", "waits")
  /\ UNCHANGED <<shared, desc, wfd, left, closed>>

(* read_request_header: one or two more lines, for which the worker waits if
   the client stalls; an end of file and an error count as a line. *)
ReadRequestHeader(w) ==
  /\ \/ WGoto(w, "header", "open_clientfd")
     \/ wfd[w] \in Fd /\ "line" \in Sends /\ WGoto(w, "header", "waits")
  /\ UNCHANGED <<shared, desc, wfd, left, closed>>

(* open_clientfd: getaddrinfo gives the server's addresses.  A name that does
   not resolve ends the process or gives -2, depending on which of the two
   definitions of open_clientfd (inet-helper.c, csapp.c) is linked.  The result
   is not checked: with -1 or -2 every read in forward_response fails, with -1
   that counts as a length, and its loop never ends. *)
GetAddrInfo(w) ==
  /\ \/ /\ WGoto(w, "open_clientfd", "socket") /\ UNCHANGED mpc
        /\ \E a \in 1..MaxAddress : left' = [left EXCEPT ![w] = a]
     \/ /\ "unresolved" \in Connect /\ WGoto(w, "open_clientfd", "spin")
        /\ UNCHANGED <<mpc, left>>
     \/ /\ "unresolved" \in Connect /\ wpc[w] = "open_clientfd"
        /\ Exit /\ UNCHANGED left
  /\ UNCHANGED <<listening, backlog, queue, mfd, desc, wfd, closed>>

(* The loop goes on to the next address, or returns -1 behind the last one. *)
NextAddress(w, from) ==
  /\ left' = [left EXCEPT ![w] = left[w] - 1]
  /\ WGoto(w, from, IF left[w] = 1 THEN "spin" ELSE "socket")

OpenSocket(w) ==
  /\ \/ /\ Unused # {}
        /\ desc' = [desc EXCEPT ![Min(Unused)] = w]
        /\ WGoto(w, "socket", "connect") /\ UNCHANGED left
     \/ /\ Unused = {}
        /\ NextAddress(w, "socket") /\ UNCHANGED desc
  /\ UNCHANGED <<shared, wfd, closed>>

(* connect in open_clientfd; a socket that is not connected is closed. *)
ConnectServer(w) ==
  /\ \/ /\ {"ok", "silent"} \cap Connect # {}
        /\ desc' = [fd \in Fd |-> IF desc[fd] = w THEN Forward ELSE desc[fd]]
        /\ WGoto(w, "connect", "forward")
        /\ left' = [left EXCEPT ![w] = 0]
     \/ /\ "refused" \in Connect
        /\ desc' = [fd \in Fd |-> IF desc[fd] = w THEN Free ELSE desc[fd]]
        /\ NextAddress(w, "connect")
  /\ UNCHANGED <<shared, wfd, closed>>

(* forward_request, forward_response, add_cache; the descriptor of the server
   stays open.  Neither the read from a server that keeps silent nor the write
   to a client that does not read has a timeout. *)
ForwardResponse(w) ==
  /\ \/ "ok" \in Connect /\ WGoto(w, "forward", "close")
     \/ ("silent" \in Connect \/ Deaf(w)) /\ WGoto(w, "forward", "waits")
  /\ UNCHANGED <<shared, desc, wfd, left, closed>>

(* close(connfd) in worker *)
Close(w) ==
  /\ WGoto(w, "close", "remove")
  /\ desc' = [fd \in Fd |-> IF fd = wfd[w] THEN Free ELSE desc[fd]]
  /\ closed' = closed \cup ({desc[fd] : fd \in {wfd[w]} \cap Fd} \cap Client)
  /\ wfd' = [wfd EXCEPT ![w] = NoFd]
  /\ UNCHANGED <<shared, left>>

-----------------------------------------------------------------------
Master == OpenListenFd \/ Accept \/ Insert \/ GetNameInfo
Work(w) == \/ Remove(w) \/ ReadRequest(w) \/ ParseRequest(w)
           \/ ResponseFailure(w) \/ Lookup(w)
           \/ ReadRequestHeader(w) \/ GetAddrInfo(w) \/ OpenSocket(w) \/ ConnectServer(w)
           \/ ForwardResponse(w) \/ Close(w)

Next == Master \/ \E w \in Worker : Work(w)

Spec == Init /\ [][Next]_vars

(* Threads that can run do run. *)
FairSpec == /\ Spec
            /\ WF_vars(Master)
            /\ \A w \in Worker : WF_vars(Work(w))

-----------------------------------------------------------------------
(* Types of the state; the queue never holds more than SBUFSIZE descriptors
   (app/proxy.c:28). *)
TypeOK ==
  /\ backlog \subseteq Client
  /\ desc \in [Fd -> Client \cup Worker \cup {Free, Forward}]
  /\ queue \in Seq(Fd \cup {NoFd}) /\ Len(queue) <= QueueSize
  /\ mfd \in Fd \cup {NoFd} /\ wfd \in [Worker -> Fd \cup {NoFd}]
  /\ closed \subseteq Client
  /\ left \in [Worker -> 0..MaxAddress]
  /\ \A w \in Worker : wpc[w] \in {"socket", "connect"} => left[w] > 0

(* Where a descriptor is held: by the master until it is queued, in the queue,
   by a worker. *)
Holders(fd) ==
  {<<"master", 0>> : x \in {y \in {mfd} : y = fd /\ mpc = "insert"}}
    \cup {<<"queue", i>> : i \in {j \in 1..Len(queue) : queue[j] = fd}}
    \cup {<<"worker", w>> : w \in {v \in Worker : wfd[v] = fd}}

(* While the process runs, a client's connection is held in exactly one place,
   and whatever is held is still open: no descriptor is served twice, closed
   under another worker or reused while someone means the old connection
   (app/proxy.c:27-28, 66-70). *)
OneHolder ==
  ~Exited =>
    \A fd \in Fd :
      IF desc[fd] \in Client THEN Cardinality(Holders(fd)) = 1
                             ELSE Holders(fd) = {}

(* A worker that will not come back: its server was not reached, or its
   client or its server keeps it waiting. *)
Stuck(w) == wpc[w] \in {"spin", "waits"}

Queued(c) == \E i \in 1..Len(queue) : queue[i] \in Fd /\ desc[queue[i]] = c

(* A queued connection is taken by a worker, however many descriptors of failed
   accepts and other connections are queued with it, unless every worker is
   stuck or the process has exited (app/proxy.c:26-28, 64-70). *)
QueueServed ==
  \A c \in Client :
    Queued(c) ~> (~Queued(c) \/ Exited \/ \A w \in Worker : Stuck(w))

Serving(w, c) == wfd[w] \in Fd /\ desc[wfd[w]] = c

(* A connection a worker has taken is answered or refused and closed in the
   end, unless that worker is stuck or the process has exited: whatever the
   other threads do with their descriptors meanwhile (app/proxy.c:64-72). *)
Released ==
  \A c \in Client :
    (\E w \in Worker : Serving(w, c))
      ~> (c \in closed \/ Exited \/ \E w \in Worker : Serving(w, c) /\ Stuck(w))

(* A worker takes care of each connection it retrieved (README.md:67): it is
   closed in the end, unless the client or the server keeps the worker waiting. *)
ConnectionEnds ==
  \A c \in Client, w \in Worker :
    Serving(w, c) ~> (c \in closed \/ Exited \/ wpc[w] = "waits")
=======================================================================
