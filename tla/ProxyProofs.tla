--------------------------- MODULE ProxyProofs ---------------------------
(***************************************************************************)
(* Connections are handed from the master through the queue to the workers *)
(* without being lost, duplicated or closed under somebody, for any number *)
(* of workers, clients and descriptors and any size of the queue.          *)
(*                                                                         *)
(* OneHolder counts who holds a descriptor.  The invariant says the same   *)
(* without counting: what is held is open (HeldOpen), no two hold the same *)
(* (HeldOnce), and what is open is held (OpenHeld); and it says where the  *)
(* local variables hold nothing (Places).                                  *)
(***************************************************************************)
EXTENDS Proxy, SequenceTheorems, DataLemmas

Places ==
  /\ mpc \in {"open_listenfd", "accept", "insert", "getnameinfo", "exited"}
  /\ wpc \in [Worker -> {"remove", "read", "waits", "parse", "failure", "is_cached",
                         "header", "open_clientfd", "socket", "connect", "forward",
                         "spin", "close", "exited"}]
  /\ \A w \in Worker : Exited <=> wpc[w] = "exited"
  /\ \A w \in Worker : wpc[w] = "remove" => wfd[w] = NoFd

IsClient(fd) == fd \in Fd /\ desc[fd] \in Client

HeldOpen ==
  /\ mpc = "insert" /\ mfd \in Fd => IsClient(mfd)
  /\ \A i \in 1..Len(queue) : queue[i] \in Fd => IsClient(queue[i])
  /\ \A w \in Worker : wfd[w] \in Fd => IsClient(wfd[w])

HeldOnce ==
  /\ mpc = "insert" /\ mfd \in Fd =>
       /\ \A i \in 1..Len(queue) : queue[i] # mfd
       /\ \A w \in Worker : wfd[w] # mfd
  /\ \A i, j \in 1..Len(queue) : queue[i] \in Fd /\ queue[i] = queue[j] => i = j
  /\ \A i \in 1..Len(queue), w \in Worker : queue[i] \in Fd => queue[i] # wfd[w]
  /\ \A v, w \in Worker : wfd[v] \in Fd /\ wfd[v] = wfd[w] => v = w

OpenHeld ==
  \A fd \in Fd : IsClient(fd) =>
    \/ mpc = "insert" /\ mfd = fd
    \/ \E i \in 1..Len(queue) : queue[i] = fd
    \/ \E w \in Worker : wfd[w] = fd

Held == HeldOpen /\ HeldOnce /\ OpenHeld

IInv == TypeOK /\ Places /\ (~Exited => Held)

-----------------------------------------------------------------------
(* The descriptor that open or accept gives is a free one. *)
LEMMA LowestUnused == Unused # {} => Min(Unused) \in Fd /\ desc[Min(Unused)] = Free
<1>. SUFFICES ASSUME Unused # {}  PROVE Min(Unused) \in Unused
  BY DEF Unused
<1>1. Unused \in SUBSET Nat
  BY ProxyAssumption DEF Unused
<1>. QED
  BY <1>1, MinIsLeast

(* Neither names, nor -1, are clients. *)
LEMMA NotClients == /\ Free \notin Client /\ Forward \notin Client
                    /\ \A w \in Worker : w \notin Client
                    /\ NoFd \notin Fd
  BY NamesAssumption, ProxyAssumption DEF NoFd

(* Exit stops every thread wherever it is. *)
LEMMA Exits ==
  ASSUME IInv, Exit, UNCHANGED <<backlog, desc, queue, wfd, closed, left>>,
         mfd' \in Fd \cup {NoFd}
  PROVE  IInv'
  BY DEF IInv, TypeOK, Places, IsClient, Exit, Exited, NoFd

(* A worker that neither takes nor gives up a connection; the descriptors of
   clients are what they were. *)
LEMMA KeepsConnection ==
  ASSUME IInv, ~Exited, NEW w \in Worker, NEW to,
         to \in {"read", "waits", "parse", "failure", "is_cached", "header",
                 "open_clientfd", "socket", "connect", "forward", "spin", "close"},
         wpc[w] # "remove", wpc' = [wpc EXCEPT ![w] = to],
         left' \in [Worker -> 0..MaxAddress],
         to \in {"socket", "connect"} => left'[w] > 0,
         \A v \in Worker \ {w} : left'[v] = left[v],
         desc' \in [Fd -> Client \cup Worker \cup {Free, Forward}],
         \A fd \in Fd : desc[fd] = desc'[fd]
                          \/ (desc[fd] \notin Client /\ desc'[fd] \notin Client),
         UNCHANGED <<shared, wfd, closed>>
  PROVE  IInv'
<1>. USE DEF IInv, shared
<1>1. TypeOK'
  BY DEF TypeOK, Places
<1>2. Places' /\ ~Exited'
  BY DEF Places, Exited, NoFd
<1>3. \A fd : IsClient(fd)' <=> IsClient(fd)
  BY DEF IsClient
<1>4. \A fd : IsClient(fd) => desc'[fd] = desc[fd]
  BY DEF IsClient
<1>5. Held'
  BY <1>3, <1>4 DEF Held, HeldOpen, HeldOnce, OpenHeld
<1>. QED
  BY <1>1, <1>2, <1>5

-----------------------------------------------------------------------
(* The master's steps. *)
LEMMA OpenListenFdStep == IInv /\ OpenListenFd => IInv'
<1>. SUFFICES ASSUME IInv, OpenListenFd  PROVE IInv'
  OBVIOUS
<1>1. CASE Exit
  BY <1>1, Exits DEF OpenListenFd, IInv, TypeOK
<1>2. CASE mpc' = "accept" /\ UNCHANGED wpc
  BY <1>2 DEF OpenListenFd, IInv, TypeOK, Places, Exited, Held, HeldOpen, HeldOnce,
              OpenHeld, IsClient
<1>. QED
  BY <1>1, <1>2 DEF OpenListenFd

LEMMA AcceptStep == IInv /\ Accept => IInv'
<1>. SUFFICES ASSUME IInv, Accept  PROVE IInv'
  OBVIOUS
<1>. USE DEF IInv
<1>0. Held /\ mpc = "accept" /\ mpc' = "insert"
  BY DEF Accept, Exited
<1>1. CASE mfd' = NoFd /\ UNCHANGED <<desc, backlog>>
  <2>1. TypeOK'
    BY <1>1 DEF Accept, TypeOK
  <2>2. Places'
    BY <1>0 DEF Accept, Places, Exited
  <2>3. Held'
    BY <1>0, <1>1, NotClients DEF Accept, Held, HeldOpen, HeldOnce, OpenHeld, IsClient
  <2>. QED
    BY <2>1, <2>2, <2>3
<1>2. ASSUME NEW c \in backlog,
             Unused # {}, mfd' = Min(Unused),
             desc' = [desc EXCEPT ![Min(Unused)] = c],
             backlog' = backlog \ {c}
      PROVE  IInv'
  <2>. DEFINE fd == Min(Unused)
  <2>1. fd \in Fd /\ desc[fd] = Free /\ ~IsClient(fd) /\ c \in Client
    BY <1>2, LowestUnused, NotClients DEF IsClient, TypeOK
  <2>. HIDE DEF fd
  <2>2. mfd' = fd /\ desc' = [desc EXCEPT ![fd] = c]
    BY <1>2 DEF fd
  <2>3. desc'[fd] = c /\ \A other \in Fd \ {fd} : desc'[other] = desc[other]
    BY <2>1, <2>2 DEF TypeOK
  <2>4. \A other : IsClient(other)' <=> (IsClient(other) \/ other = fd)
    BY <2>1, <2>3 DEF IsClient
  <2>5. TypeOK'
    BY <1>2, <2>1, <2>2 DEF Accept, TypeOK
  <2>6. Places'
    BY <1>0 DEF Accept, Places, Exited
  <2>7. Held'
    <3>1. UNCHANGED <<queue, wfd>>
      BY DEF Accept
    <3>2. HeldOpen'
      BY <1>0, <2>2, <2>4, <3>1 DEF Held, HeldOpen
    <3>3. HeldOnce'
      BY <1>0, <2>1, <2>2, <3>1 DEF Held, HeldOnce, HeldOpen
    <3>4. OpenHeld'
      BY <1>0, <2>2, <2>4, <3>1 DEF Held, OpenHeld
    <3>. QED
      BY <3>2, <3>3, <3>4 DEF Held
  <2>. QED
    BY <2>5, <2>6, <2>7
<1>. QED
  BY <1>1, <1>2 DEF Accept

LEMMA InsertStep == IInv /\ Insert => IInv'
<1>. SUFFICES ASSUME IInv, Insert  PROVE IInv'
  OBVIOUS
<1>. USE DEF IInv
<1>0. Held /\ mpc = "insert" /\ mpc' = "getnameinfo"
  BY DEF Insert, Exited
<1>1. /\ queue' \in Seq(Fd \cup {NoFd}) /\ Len(queue') = Len(queue) + 1
      /\ \A i \in 1..Len(queue) : queue'[i] = queue[i]
      /\ queue'[Len(queue) + 1] = mfd /\ Len(queue) \in Nat
  BY AppendProperties, LenProperties DEF Insert, TypeOK
<1>2. UNCHANGED <<backlog, desc, mfd, wpc, wfd, left, closed>>
  BY DEF Insert
<1>3. TypeOK'
  BY <1>1, <1>2, ProxyAssumption DEF Insert, TypeOK
<1>4. Places'
  BY <1>0, <1>2 DEF Places, Exited
<1>5. Held'
  <2>1. \A fd : IsClient(fd)' <=> IsClient(fd)
    BY <1>2 DEF IsClient
  <2>2. HeldOpen'
    BY <1>0, <1>1, <1>2, <2>1 DEF Held, HeldOpen
  <2>3. HeldOnce'
    BY <1>0, <1>1, <1>2 DEF Held, HeldOnce
  <2>4. OpenHeld'
    BY <1>0, <1>1, <1>2, <2>1 DEF Held, OpenHeld
  <2>. QED
    BY <2>2, <2>3, <2>4 DEF Held
<1>. QED
  BY <1>3, <1>4, <1>5

LEMMA GetNameInfoStep == IInv /\ GetNameInfo => IInv'
<1>. SUFFICES ASSUME IInv, GetNameInfo  PROVE IInv'
  OBVIOUS
<1>1. CASE Exit
  BY <1>1, Exits DEF GetNameInfo, IInv, TypeOK
<1>2. CASE mpc' = "accept" /\ UNCHANGED wpc
  BY <1>2 DEF GetNameInfo, IInv, TypeOK, Places, Exited, Held, HeldOpen, HeldOnce,
              OpenHeld, IsClient
<1>. QED
  BY <1>1, <1>2 DEF GetNameInfo

-----------------------------------------------------------------------
(* The workers' steps: taking a connection, *)
LEMMA RemoveStep == ASSUME IInv, NEW w \in Worker, Remove(w)  PROVE IInv'
<1>. USE DEF IInv
<1>0. /\ wpc[w] = "remove" /\ wfd[w] = NoFd
      /\ wpc' = [wpc EXCEPT ![w] = "read"] /\ queue # <<>>
      /\ UNCHANGED <<listening, backlog, desc, mpc, mfd, left, closed>>
  BY DEF Remove, WGoto, Places
<1>1. ~Exited /\ Held
  BY <1>0 DEF Places
<1>2. /\ queue' \in Seq(Fd \cup {NoFd}) /\ Len(queue') = Len(queue) - 1
      /\ \A i \in 1..Len(queue') : queue'[i] = queue[i + 1]
      /\ Len(queue) \in Nat \ {0} /\ queue[1] \in Fd \cup {NoFd}
      /\ wfd' = [wfd EXCEPT ![w] = queue[1]]
  BY <1>0, HeadTailProperties, EmptySeq, LenProperties, ElementOfSeq DEF Remove, TypeOK
<1>3. wfd'[w] = queue[1] /\ \A v \in Worker \ {w} : wfd'[v] = wfd[v]
  BY <1>2 DEF TypeOK
<1>4. TypeOK'
  BY <1>0, <1>2, ProxyAssumption DEF TypeOK, Places
<1>5. Places'
  BY <1>0, <1>1, <1>3 DEF Places, Exited
<1>6. Held'
  <2>1. \A fd : IsClient(fd)' <=> IsClient(fd)
    BY <1>0 DEF IsClient
  <2>2. HeldOpen'
    BY <1>0, <1>1, <1>2, <1>3, <2>1 DEF Held, HeldOpen
  <2>3. HeldOnce'
    <3>1. mpc' = "insert" /\ mfd' \in Fd =>
            /\ \A i \in 1..Len(queue') : queue'[i] # mfd'
            /\ \A v \in Worker : wfd'[v] # mfd'
      BY <1>0, <1>1, <1>2, <1>3 DEF Held, HeldOnce
    <3>2. \A i, j \in 1..Len(queue') : queue'[i] \in Fd /\ queue'[i] = queue'[j] => i = j
      BY <1>1, <1>2 DEF Held, HeldOnce
    <3>3. \A i \in 1..Len(queue'), v \in Worker : queue'[i] \in Fd => queue'[i] # wfd'[v]
      BY <1>1, <1>2, <1>3 DEF Held, HeldOnce
    <3>4. \A u, v \in Worker : wfd'[u] \in Fd /\ wfd'[u] = wfd'[v] => u = v
      BY <1>1, <1>2, <1>3 DEF Held, HeldOnce
    <3>. QED
      BY <3>1, <3>2, <3>3, <3>4 DEF HeldOnce
  <2>4. OpenHeld'
    <3>. SUFFICES ASSUME NEW fd \in Fd, IsClient(fd)
                  PROVE  \/ mpc' = "insert" /\ mfd' = fd
                         \/ \E i \in 1..Len(queue') : queue'[i] = fd
                         \/ \E v \in Worker : wfd'[v] = fd
      BY <2>1 DEF OpenHeld
    <3>1. CASE mpc = "insert" /\ mfd = fd
      BY <1>0, <3>1
    <3>2. ASSUME NEW i \in 1..Len(queue), queue[i] = fd
          PROVE  \/ \E j \in 1..Len(queue') : queue'[j] = fd
                 \/ \E v \in Worker : wfd'[v] = fd
      <4>1. CASE i = 1
        BY <1>3, <3>2, <4>1
      <4>2. CASE i # 1
        <5>1. i - 1 \in 1..Len(queue') /\ queue'[i - 1] = queue[i]
          BY <1>2, <4>2
        <5>. QED
          BY <3>2, <5>1
      <4>. QED
        BY <4>1, <4>2
    <3>3. ASSUME NEW v \in Worker, wfd[v] = fd
          PROVE  \E u \in Worker : wfd'[u] = fd
      BY <1>0, <1>3, <3>3, NotClients
    <3>. QED
      BY <1>1, <3>1, <3>2, <3>3 DEF Held, OpenHeld
  <2>. QED
    BY <2>2, <2>3, <2>4 DEF Held
<1>. QED
  BY <1>4, <1>5, <1>6

(* closing it, *)
LEMMA CloseStep == ASSUME IInv, NEW w \in Worker, Close(w)  PROVE IInv'
<1>. USE DEF IInv
<1>. DEFINE fd == wfd[w]
<1>0. /\ wpc[w] = "close" /\ wpc' = [wpc EXCEPT ![w] = "remove"]
      /\ desc' = [f \in Fd |-> IF f = fd THEN Free ELSE desc[f]]
      /\ closed' = closed \cup ({desc[f] : f \in {fd} \cap Fd} \cap Client)
      /\ wfd' = [wfd EXCEPT ![w] = NoFd]
      /\ UNCHANGED <<listening, backlog, queue, mpc, mfd, left>>
      /\ fd \in Fd \cup {NoFd}
  BY DEF Close, WGoto, shared, TypeOK
<1>1. ~Exited /\ Held
  BY <1>0 DEF Places
<1>2. fd \in Fd => IsClient(fd)
  BY <1>1 DEF Held, HeldOpen
<1>3. closed' = IF fd \in Fd THEN closed \cup {desc[fd]} ELSE closed
  BY <1>0, <1>2 DEF IsClient
<1>4. wfd'[w] = NoFd /\ \A v \in Worker \ {w} : wfd'[v] = wfd[v]
  BY <1>0 DEF TypeOK
<1>. HIDE DEF fd
<1>5. \A f : IsClient(f)' <=> IsClient(f) /\ f # fd
  BY <1>0, NotClients DEF IsClient
<1>6. TypeOK'
  BY <1>0, <1>2, <1>3 DEF TypeOK, Places, IsClient
<1>7. Places'
  BY <1>0, <1>1, <1>4 DEF Places, Exited
<1>8. Held'
  <2>1. HeldOpen'
    BY <1>0, <1>1, <1>4, <1>5, NotClients DEF Held, HeldOpen, HeldOnce, fd
  <2>2. HeldOnce'
    BY <1>0, <1>1, <1>4, NotClients DEF Held, HeldOnce
  <2>3. OpenHeld'
    BY <1>0, <1>1, <1>4, <1>5 DEF Held, OpenHeld, fd
  <2>. QED
    BY <2>1, <2>2, <2>3 DEF Held
<1>. QED
  BY <1>6, <1>7, <1>8

(* and everything between the two. *)
LEMMA ServingStep ==
  ASSUME IInv, NEW w \in Worker,
         \/ ReadRequest(w) \/ ParseRequest(w) \/ ResponseFailure(w) \/ Lookup(w)
         \/ ReadRequestHeader(w) \/ ForwardResponse(w)
  PROVE  IInv'
<1>1. PICK to \in {"parse", "close", "waits", "failure", "is_cached", "header",
                   "open_clientfd"} :
        wpc' = [wpc EXCEPT ![w] = to]
  BY DEF ReadRequest, ParseRequest, ResponseFailure, Lookup, ReadRequestHeader,
         ForwardResponse, WGoto
<1>2. /\ wpc[w] \notin {"remove", "exited"}
      /\ UNCHANGED <<shared, desc, wfd, left, closed>>
  BY DEF ReadRequest, ParseRequest, ResponseFailure, Lookup, ReadRequestHeader,
         ForwardResponse, WGoto
<1>3. ~Exited /\ left' \in [Worker -> 0..MaxAddress]
      /\ desc' \in [Fd -> Client \cup Worker \cup {Free, Forward}]
  BY <1>2 DEF IInv, Places, TypeOK
<1>4. /\ \A v \in Worker \ {w} : left'[v] = left[v]
      /\ \A fd \in Fd : desc[fd] = desc'[fd]
                          \/ (desc[fd] \notin Client /\ desc'[fd] \notin Client)
  BY <1>2
<1>. QED
  BY <1>1, <1>2, <1>3, <1>4, KeepsConnection

LEMMA GetAddrInfoStep ==
  ASSUME IInv, NEW w \in Worker, GetAddrInfo(w)  PROVE IInv'
<1>0. /\ wpc[w] = "open_clientfd" /\ ~Exited
      /\ UNCHANGED <<listening, backlog, queue, mfd, desc, wfd, closed>>
  BY DEF GetAddrInfo, WGoto, IInv, Places
<1>1. CASE Exit /\ UNCHANGED left
  BY <1>0, <1>1, Exits DEF IInv, TypeOK
<1>2. ASSUME NEW to \in {"socket", "spin"}, wpc' = [wpc EXCEPT ![w] = to],
             UNCHANGED mpc, NEW a \in 1..MaxAddress,
             left' = [left EXCEPT ![w] = a] \/ (to = "spin" /\ left' = left)
      PROVE  IInv'
  <2>1. /\ left' \in [Worker -> 0..MaxAddress]
        /\ to \in {"socket", "connect"} => left'[w] > 0
        /\ \A v \in Worker \ {w} : left'[v] = left[v]
    <3>1. left \in [Worker -> 0..MaxAddress] /\ a \in 0..MaxAddress /\ a > 0
      BY ProxyAssumption DEF IInv, TypeOK
    <3>2. CASE left' = [left EXCEPT ![w] = a]
      BY <3>1, <3>2
    <3>3. CASE to = "spin" /\ left' = left
      BY <3>1, <3>3
    <3>. QED
      BY <1>2, <3>2, <3>3
  <2>2. desc' \in [Fd -> Client \cup Worker \cup {Free, Forward}]
    BY <1>0 DEF IInv, TypeOK
  <2>3. UNCHANGED <<shared, wfd, closed>>
    BY <1>0, <1>2 DEF shared
  <2>. QED
    BY <1>0, <1>2, <2>1, <2>2, <2>3, KeepsConnection
<1>3. 1 \in 1..MaxAddress
  BY ProxyAssumption
<1>. QED
  BY <1>1, <1>2, <1>3 DEF GetAddrInfo, WGoto

(* The loop of open_clientfd goes on while it has addresses left. *)
LEMMA NextAddressStep ==
  ASSUME IInv, NEW w \in Worker, NEW from \in {"socket", "connect"},
         NextAddress(w, from)
  PROVE  /\ wpc[w] = from /\ left' \in [Worker -> 0..MaxAddress]
         /\ \A v \in Worker \ {w} : left'[v] = left[v]
         /\ \E to \in {"socket", "spin"} :
              wpc' = [wpc EXCEPT ![w] = to] /\ (to = "socket" => left'[w] > 0)
<1>1. /\ wpc[w] = from /\ left' = [left EXCEPT ![w] = left[w] - 1]
      /\ wpc' = [wpc EXCEPT ![w] = IF left[w] = 1 THEN "spin" ELSE "socket"]
  BY DEF NextAddress, WGoto
<1>2. left \in [Worker -> 0..MaxAddress] /\ left[w] > 0 /\ MaxAddress \in Nat
  BY <1>1, ProxyAssumption DEF IInv, TypeOK
<1>3. left' \in [Worker -> 0..MaxAddress] /\ left'[w] = left[w] - 1
      /\ \A v \in Worker \ {w} : left'[v] = left[v]
  BY <1>1, <1>2
<1>4. CASE left[w] = 1
  BY <1>1, <1>3, <1>4
<1>5. CASE left[w] # 1
  BY <1>1, <1>2, <1>3, <1>5
<1>. QED
  BY <1>4, <1>5

LEMMA OpenSocketStep ==
  ASSUME IInv, NEW w \in Worker, OpenSocket(w)  PROVE IInv'
<1>0. wpc[w] = "socket" /\ ~Exited /\ UNCHANGED <<shared, wfd, closed>>
  BY DEF OpenSocket, NextAddress, WGoto, IInv, Places
<1>1. CASE /\ Unused # {} /\ desc' = [desc EXCEPT ![Min(Unused)] = w]
           /\ wpc' = [wpc EXCEPT ![w] = "connect"] /\ UNCHANGED left
  <2>1. /\ desc' \in [Fd -> Client \cup Worker \cup {Free, Forward}]
        /\ left' \in [Worker -> 0..MaxAddress] /\ left'[w] > 0
    BY <1>0, <1>1, LowestUnused DEF IInv, TypeOK
  <2>2. \A fd \in Fd : desc[fd] = desc'[fd]
                         \/ (desc[fd] \notin Client /\ desc'[fd] \notin Client)
    BY <1>1, LowestUnused, NotClients DEF IInv, TypeOK
  <2>. QED
    BY <1>0, <1>1, <2>1, <2>2, KeepsConnection
<1>2. CASE NextAddress(w, "socket") /\ UNCHANGED desc
  <2>1. desc' \in [Fd -> Client \cup Worker \cup {Free, Forward}]
    BY <1>2 DEF IInv, TypeOK
  <2>. QED
    BY <1>0, <1>2, <2>1, NextAddressStep, KeepsConnection
<1>. QED
  BY <1>1, <1>2 DEF OpenSocket, WGoto

LEMMA ConnectServerStep ==
  ASSUME IInv, NEW w \in Worker, ConnectServer(w)  PROVE IInv'
<1>0. wpc[w] = "connect" /\ ~Exited /\ UNCHANGED <<shared, wfd, closed>>
  BY DEF ConnectServer, NextAddress, WGoto, IInv, Places
<1>1. ASSUME NEW what \in {Free, Forward},
             desc' = [fd \in Fd |-> IF desc[fd] = w THEN what ELSE desc[fd]]
      PROVE  /\ desc' \in [Fd -> Client \cup Worker \cup {Free, Forward}]
             /\ \A fd \in Fd : desc[fd] = desc'[fd]
                                 \/ (desc[fd] \notin Client /\ desc'[fd] \notin Client)
  BY <1>1, NotClients DEF IInv, TypeOK
<1>2. CASE /\ desc' = [fd \in Fd |-> IF desc[fd] = w THEN Forward ELSE desc[fd]]
           /\ wpc' = [wpc EXCEPT ![w] = "forward"]
           /\ left' = [left EXCEPT ![w] = 0]
  <2>1. /\ left' \in [Worker -> 0..MaxAddress]
        /\ \A v \in Worker \ {w} : left'[v] = left[v]
    BY <1>2, ProxyAssumption DEF IInv, TypeOK
  <2>. QED
    BY <1>0, <1>1, <1>2, <2>1, KeepsConnection
<1>3. CASE /\ desc' = [fd \in Fd |-> IF desc[fd] = w THEN Free ELSE desc[fd]]
           /\ NextAddress(w, "connect")
  BY <1>0, <1>1, <1>3, NextAddressStep, KeepsConnection
<1>. QED
  BY <1>2, <1>3 DEF ConnectServer, WGoto

-----------------------------------------------------------------------
LEMMA IInvInit == Init => IInv
<1>. SUFFICES ASSUME Init  PROVE IInv
  OBVIOUS
<1>1. TypeOK
  BY ProxyAssumption DEF Init, TypeOK
<1>2. Places /\ Held
  BY NotClients DEF Init, Places, Exited, Held, HeldOpen, HeldOnce, OpenHeld, IsClient
<1>. QED
  BY <1>1, <1>2 DEF IInv

LEMMA IInvNext == IInv /\ [Next]_vars => IInv'
<1>. SUFFICES ASSUME IInv, [Next]_vars  PROVE IInv'
  OBVIOUS
<1>1. CASE UNCHANGED vars
  BY <1>1 DEF vars, IInv, TypeOK, Places, Exited, Held, HeldOpen, HeldOnce, OpenHeld,
              IsClient
<1>2. CASE Master
  BY <1>2, OpenListenFdStep, AcceptStep, InsertStep, GetNameInfoStep DEF Master
<1>3. ASSUME NEW w \in Worker, Work(w)  PROVE IInv'
  BY <1>3, RemoveStep, ServingStep, GetAddrInfoStep, OpenSocketStep,
     ConnectServerStep, CloseStep DEF Work
<1>. QED
  BY <1>1, <1>2, <1>3 DEF Next

-----------------------------------------------------------------------
(* Counting the holders. *)
LEMMA HoldersCounted == IInv => OneHolder
<1>. SUFFICES ASSUME IInv, ~Exited, NEW fd \in Fd
              PROVE  IF desc[fd] \in Client THEN Cardinality(Holders(fd)) = 1
                                            ELSE Holders(fd) = {}
  BY DEF OneHolder
<1>0. Held
  BY DEF IInv
<1>1. CASE desc[fd] \notin Client
  BY <1>0, <1>1 DEF Holders, Held, HeldOpen, IsClient
<1>2. CASE desc[fd] \in Client
  <2>1. SUFFICES \E h : Holders(fd) = {h}
    BY <1>2, FS_Singleton
  <2>2. CASE mpc = "insert" /\ mfd = fd
    <3>1. Holders(fd) = {<<"master", 0>>}
      BY <1>0, <2>2 DEF Holders, Held, HeldOnce
    <3>. QED
      BY <3>1
  <2>3. ASSUME NEW i \in 1..Len(queue), queue[i] = fd
        PROVE  Holders(fd) = {<<"queue", i>>}
    BY <1>0, <2>3 DEF Holders, Held, HeldOnce
  <2>4. ASSUME NEW w \in Worker, wfd[w] = fd
        PROVE  Holders(fd) = {<<"worker", w>>}
    BY <1>0, <2>4 DEF Holders, Held, HeldOnce
  <2>. QED
    BY <1>0, <1>2, <2>2, <2>3, <2>4 DEF Held, OpenHeld, IsClient
<1>. QED
  BY <1>1, <1>2

(* The invariant holds throughout; in particular the queue never holds more
   than SBUFSIZE descriptors, and no address is tried that getaddrinfo did not
   give (app/proxy.c:28, inet-helper.c). *)
THEOREM ProxyCorrect == Spec => []IInv
  BY IInvInit, IInvNext, PTL DEF Spec

(* The state has its types, with the bound of the queue and of the addresses. *)
THEOREM ProxyTypes == Spec => []TypeOK
<1>1. IInv => TypeOK
  BY DEF IInv
<1>. QED
  BY <1>1, ProxyCorrect, PTL

(* As long as the process runs, a client's connection is held in exactly one
   place: by the master until it is queued, in the queue, or by one worker;
   nothing held is closed (app/proxy.c:27-28, 66-70). *)
THEOREM HeldByOne == Spec => []OneHolder
  BY ProxyCorrect, HoldersCounted, PTL
=======================================================================
