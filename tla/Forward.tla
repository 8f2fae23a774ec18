---------------------------- MODULE Forward ----------------------------
(***************************************************************************)
(* forward_response (proxy-module.c:156-174) over the buffered input and   *)
(* the robust output of lib/src/nio.c: the response of one server is read  *)
(* in chunks of any size into nio_buf, taken from it line by line, written *)
(* to the client with any number of partial writes, and collected in       *)
(* payload, which worker_main caches if the whole response is small enough *)
(* (proxy-module.c:60-62) in a block that new_node allocates for it        *)
(* (cache.c:92-95).                                                        *)
(*                                                                         *)
(* A system call that is interrupted (EINTR) is repeated with nothing      *)
(* changed, which is a stuttering step here.                               *)
(***************************************************************************)
EXTENDS Integers, Sequences, SequencesExt, FiniteSetsExt

CONSTANTS Byte,           \* bytes of a response, "nl" among them
          MaxResponse,    \* bound: longest response a server sends
          Ending,         \* how connections to servers end, see Init
          MAXLINE,        \* size of the line buffer
          NIO_BUFSIZE,    \* size of the input buffer
          MaxObjectSize,  \* MAX_OBJECT_SIZE
          SizeMax         \* largest size_t

(* A size_t counts the longest response, with a NUL for every byte of it. *)
ASSUME ForwardAssumption ==
  /\ MaxResponse \in Nat /\ 2 * MaxResponse <= SizeMax
  /\ "nl" \in Byte
  /\ Ending \subseteq {"eof", "reset", "error"}
  /\ MAXLINE \in Nat \ {0, 1} /\ NIO_BUFSIZE \in Nat \ {0}
  /\ MaxObjectSize \in Nat /\ SizeMax \in Nat /\ SizeMax > MaxObjectSize

VARIABLES response,  \* what the server sends
          ending,    \* how its connection ends
          unread,    \* the part of response that read() has not returned
          nio_buf,   \* unread bytes of the input buffer
          got,       \* history: all bytes nio_read has handed out
          line,      \* bytes nio_readlineb has put into forwardbuf
          n,         \* nio_readlineb's counter, then its return value
          sum, payload,
          rest,      \* what nio_writen still has to write
          relayed,   \* everything that was given to nio_writen
          client,    \* what reached the client
          clientUp,  \* the client still reads
          cached,    \* what worker_main gives to add_cache
          block,     \* the memory new_node has for it
          pc

vars == <<response, ending, unread, nio_buf, got, line, n, sum, payload, rest,
          relayed, client, clientUp, cached, block, pc>>

None == <<"none">>
NoBlock == [held |-> None, beyond |-> <<>>]

(* "eof": the server closes; "reset": ECONNRESET; "error": read() fails
   otherwise (ETIMEDOUT, EHOSTUNREACH), once, and reports the end of file
   afterwards.  A reset and an error may come before all was read. *)
Init ==
  /\ response \in SeqOf(Byte, MaxResponse)
  /\ ending \in Ending
  /\ unread = response /\ nio_buf = <<>> /\ got = <<>> /\ line = <<>> /\ n = 1
  /\ sum = 0 /\ payload = <<>> /\ rest = <<>> /\ relayed = <<>>
  /\ client = <<>> /\ clientUp = TRUE /\ cached = None
  /\ block = NoBlock
  /\ pc = "readline"

-----------------------------------------------------------------------
(* Faulty variants of definitions below, one per mistake the properties are
   meant to catch. *)
WriteSomeAll ==              \* nio_writen that takes a partial write for all
  /\ pc = "writen" /\ rest # <<>>
  /\ \E k \in 1..Len(rest) :
       client' = IF clientUp THEN client \o SubSeq(rest, 1, k) ELSE client
  /\ rest' = <<>>
  /\ UNCHANGED <<response, ending, unread, nio_buf, got, line, n, sum, payload,
                 relayed, clientUp, cached, block, pc>>

TakeByteCounts ==            \* a newline is counted like any byte
  /\ pc = "readline" /\ n < MAXLINE /\ nio_buf # <<>>
  /\ line' = Append(line, Head(nio_buf)) /\ nio_buf' = Tail(nio_buf)
  /\ got' = Append(got, Head(nio_buf))
  /\ n' = n + 1
  /\ pc' = IF Head(nio_buf) = "nl" THEN "return" ELSE pc
  /\ UNCHANGED <<response, ending, unread, sum, payload, rest, relayed,
                 client, clientUp, cached, block>>

NewNodeTight ==              \* malloc(strlen(payload))
  LET size == IF Contains(payload, "NUL") THEN SelectInSeq(payload, LAMBDA b : b = "NUL") - 1
                                          ELSE Len(payload)
  IN  /\ pc = "new_node" /\ pc' = "end"
      /\ block' = [held   |-> SubSeq(cached, 1, size),
                   beyond |-> SubSeq(cached, size + 1, sum)]
      /\ UNCHANGED <<response, ending, unread, nio_buf, got, line, n, sum, payload, rest,
                     relayed, client, clientUp, cached>>

CollectsAlways(total) == TRUE   \* no bound on the copy
CachesAlways(total) == TRUE     \* large responses are cached as well

TakeByteOver ==              \* n <= maxlen in the place of n < maxlen
  /\ pc = "readline" /\ n <= MAXLINE /\ nio_buf # <<>>
  /\ line' = Append(line, Head(nio_buf)) /\ nio_buf' = Tail(nio_buf)
  /\ got' = Append(got, Head(nio_buf))
  /\ IF Head(nio_buf) = "nl" THEN pc' = "return" /\ n' = n
                             ELSE pc' = pc /\ n' = n + 1
  /\ UNCHANGED <<response, ending, unread, sum, payload, rest, relayed,
                 client, clientUp, cached, block>>

ReadErrorEnds ==             \* every error is taken for an end of file
  /\ pc = "readline" /\ n < MAXLINE /\ nio_buf = <<>> /\ unread = <<>>
  /\ ending = "error" /\ ending' = "failed"
  /\ pc' = IF line = <<>> THEN "done" ELSE "return"
  /\ UNCHANGED <<response, unread, nio_buf, got, line, n, sum, payload, rest, relayed,
                 client, clientUp, cached, block>>

EndOfFileWaits ==            \* nio_read that asks again at end of file
  /\ pc = "readline" /\ n < MAXLINE /\ nio_buf = <<>> /\ unread = <<>>
  /\ ending \in {"eof", "reset", "failed"}
  /\ pc' = IF ending = "eof" THEN pc ELSE IF line = <<>> THEN "done" ELSE "return"
  /\ UNCHANGED <<response, ending, unread, nio_buf, got, line, n, sum, payload, rest,
                 relayed, client, clientUp, cached, block>>

-----------------------------------------------------------------------
(* read() in nio_read, when the input buffer is empty. *)
Refill ==
  /\ pc = "readline" /\ n < MAXLINE /\ nio_buf = <<>>
  /\ \E k \in 1..NIO_BUFSIZE :
       /\ k <= Len(unread)
       /\ nio_buf' = SubSeq(unread, 1, k)
       /\ unread' = SubSeq(unread, k + 1, Len(unread))
  /\ UNCHANGED <<response, ending, got, line, n, sum, payload, rest, relayed,
                 client, clientUp, cached, block, pc>>

(* The connection breaks: what was not read is lost. *)
Reset ==
  /\ ending \in {"reset", "error"} /\ unread # <<>>
  /\ unread' = <<>>
  /\ UNCHANGED <<response, ending, nio_buf, got, line, n, sum, payload, rest, relayed,
                 client, clientUp, cached, block, pc>>

(* nio_readlineb takes one byte; a newline ends the line without n++. *)
TakeByte ==
  /\ pc = "readline" /\ n < MAXLINE /\ nio_buf # <<>>
  /\ line' = Append(line, Head(nio_buf)) /\ nio_buf' = Tail(nio_buf)
  /\ got' = Append(got, Head(nio_buf))
  /\ IF Head(nio_buf) = "nl" THEN pc' = "return" /\ n' = n
                             ELSE pc' = pc /\ n' = n + 1
  /\ UNCHANGED <<response, ending, unread, sum, payload, rest, relayed,
                 client, clientUp, cached, block>>

(* The line buffer is full. *)
LineFull ==
  /\ pc = "readline" /\ n = MAXLINE
  /\ pc' = "return"
  /\ UNCHANGED <<response, ending, unread, nio_buf, got, line, n, sum, payload, rest,
                 relayed, client, clientUp, cached, block>>

(* nio_read returns 0, at end of file and for ECONNRESET alike: the loop of
   forward_response ends if the line is empty, else the line ends here. *)
EndOfFile ==
  /\ pc = "readline" /\ n < MAXLINE /\ nio_buf = <<>> /\ unread = <<>>
  /\ ending \in {"eof", "reset", "failed"}
  /\ pc' = IF line = <<>> THEN "done" ELSE "return"
  /\ UNCHANGED <<response, ending, unread, nio_buf, got, line, n, sum, payload, rest,
                 relayed, client, clientUp, cached, block>>

(* The decisions of proxy-module.c:166 and :61. *)
Collects(total) == total <= MaxObjectSize

Caches(total) == total < MaxObjectSize

(* nio_read returns -1; n is a size_t, so it becomes SizeMax and sum
   decreases by one.  If sum is still small, memcpy writes whatever lies at and
   behind forwardbuf to payload and beyond it until the process crashes; else
   write() of SizeMax bytes fails at once (EFAULT), and the loop goes on.  The
   socket's error is reported once, then the end of file. *)
ReadError ==
  /\ pc = "readline" /\ n < MAXLINE /\ nio_buf = <<>> /\ unread = <<>>
  /\ ending = "error"
  /\ sum' = (sum - 1) % (SizeMax + 1)
  /\ IF Collects(sum')
       THEN pc' = "crashed" /\ payload' = payload \o [i \in 1..SizeMax |-> "any"]
       ELSE pc' = pc /\ payload' = payload
  /\ ending' = "failed" /\ line' = <<>> /\ n' = 1
  /\ UNCHANGED <<response, unread, nio_buf, got, rest, relayed,
                 client, clientUp, cached, block>>

(* nio_readlineb terminates the line and returns n; forward_response adds
   the n bytes to sum and payload and gives them to nio_writen. *)
Relay ==
  LET chunk == SubSeq(line \o <<"NUL">>, 1, n)
  IN  /\ pc = "return"
      /\ sum' = (sum + n) % (SizeMax + 1)
      /\ payload' = IF Collects(sum') THEN payload \o chunk ELSE payload
      /\ rest' = chunk /\ relayed' = relayed \o chunk
      /\ pc' = "writen"
      /\ UNCHANGED <<response, ending, unread, nio_buf, got, line, n,
                     client, clientUp, cached, block>>

(* nio_writen: write() accepts some of the bytes, *)
WriteSome ==
  /\ pc = "writen" /\ rest # <<>> /\ clientUp
  /\ \E k \in 1..Len(rest) :
       /\ client' = client \o SubSeq(rest, 1, k)
       /\ rest' = SubSeq(rest, k + 1, Len(rest))
  /\ UNCHANGED <<response, ending, unread, nio_buf, got, line, n, sum, payload,
                 relayed, clientUp, cached, block, pc>>

(* or fails (EPIPE, ECONNRESET): nio_writen gives up, its result is ignored
   and the response is read to its end all the same. *)
WriteFails ==
  /\ pc = "writen" /\ rest # <<>>
  /\ rest' = <<>> /\ clientUp' = FALSE
  /\ UNCHANGED <<response, ending, unread, nio_buf, got, line, n, sum, payload,
                 relayed, client, cached, block, pc>>

NextLine ==
  /\ pc = "writen" /\ rest = <<>>
  /\ line' = <<>> /\ n' = 1 /\ pc' = "readline"
  /\ UNCHANGED <<response, ending, unread, nio_buf, got, sum, payload, rest, relayed,
                 client, clientUp, cached, block>>

(* worker_main: sum bytes of the zero-filled payload are cached. *)
CacheResponse ==
  /\ pc = "done"
  /\ cached' = IF Caches(sum)
               THEN [i \in 1..sum |-> IF i <= Len(payload) THEN payload[i] ELSE "NUL"]
               ELSE None
  /\ pc' = IF Caches(sum) THEN "new_node" ELSE "end"
  /\ UNCHANGED <<response, ending, unread, nio_buf, got, line, n, sum, payload, rest,
                 relayed, client, clientUp, block>>

(* strlen of the bytes s, which something other than a NUL or nothing follows;
   in payload there are zeros behind what was collected. *)
StrLen(s) == Min({i \in 1..Len(s) : s[i] = "NUL"} \cup {Len(s) + 1}) - 1

(* The block is for the string, the copy for bytesize = sum bytes: what the
   block holds afterwards, and what was copied beyond its end.  A byte that is
   not written has any value. *)
NewNode ==
  LET size == StrLen(payload) + 1
  IN  /\ pc = "new_node" /\ pc' = "end"
      /\ block' = [held   |-> [i \in 1..size |-> IF i <= sum THEN cached[i] ELSE "any"],
                   beyond |-> SubSeq(cached, size + 1, sum)]
      /\ UNCHANGED <<response, ending, unread, nio_buf, got, line, n, sum, payload, rest,
                     relayed, client, clientUp, cached>>

-----------------------------------------------------------------------
Step == \/ Refill \/ TakeByte \/ LineFull \/ EndOfFile \/ ReadError
        \/ Relay \/ WriteSome \/ WriteFails \/ NextLine
        \/ CacheResponse \/ NewNode

(* The transaction is over, or the process is. *)
Ended == pc \in {"end", "crashed"} /\ UNCHANGED vars

Next == Step \/ Reset \/ Ended

Spec == Init /\ [][Next]_vars

(* The worker runs, and the server's data arrives and its connection ends. *)
FairSpec == Spec /\ WF_vars(Step)

-----------------------------------------------------------------------
(* Types and sizes: nio_readlineb leaves room for the terminator it writes
   behind the line (nio.c:129-142). *)
TypeOK ==
  /\ n \in 1..MAXLINE /\ Len(line) < MAXLINE /\ Len(nio_buf) <= NIO_BUFSIZE
  /\ sum \in 0..SizeMax
  /\ pc \in {"readline", "return", "writen", "done", "new_node", "end", "crashed"}

(* The text that the bytes s become on their way through forwardbuf, and how
   many bytes its last line has that nothing ends: a line that fills the buffer
   before its newline gets a NUL behind it, and so does the last line if it does
   not end with a newline, since the terminator is counted (nio.c:129-143). *)
Place(f, b) ==
  LET text == Append(f.text, b)
  IN  CASE b = "nl"                         -> [text |-> text, col |-> 0]
        [] b # "nl" /\ f.col = MAXLINE - 2  -> [text |-> Append(text, "NUL"), col |-> 0]
        [] b # "nl" /\ f.col # MAXLINE - 2  -> [text |-> text, col |-> f.col + 1]

Framed(s) ==
  LET placed[i \in 0..Len(s)] ==
        IF i = 0 THEN [text |-> <<>>, col |-> 0] ELSE Place(placed[i - 1], s[i])
  IN  placed[Len(s)]

Closed(f) == IF f.col = 0 THEN f.text ELSE Append(f.text, "NUL")

(* However read() cuts the response into chunks, no byte is lost, repeated or
   reordered on its way through nio_buf and forwardbuf, and exactly the NULs of
   Framed are inserted, never because of where a chunk ended; a reset and a
   read error cut the response short, and an error drops the line it meets. *)
Conserved ==
  /\ IsPrefix(got \o nio_buf, response)
  /\ ending = "eof" => got \o nio_buf \o unread = response
  /\ IsPrefix(relayed, Closed(Framed(got)))
  /\ pc \in {"done", "new_node", "end"} /\ ending # "failed" => relayed = Closed(Framed(got))

(* Partial writes deliver what was given to nio_writen, in order, as long as
   the client reads. *)
Delivered == /\ IsPrefix(client, relayed)
             /\ clientUp => client \o rest = relayed

(* What is cached is what was sent to the first client, all of it. *)
CachedIsRelayed == cached # None => cached = relayed

(* No sequence of lines writes payload beyond its MAX_OBJECT_SIZE bytes
   (cache.h:8, proxy-module.c:166-169).  The memcpy after a read error does, and
   the process does not survive it. *)
OverrunCrashes ==
  Len(payload) <= MaxObjectSize \/ (pc = "crashed" /\ ending = "failed")

(* A cached response is complete, with the NULs of Framed, unless the server
   reset its connection, which nio_read reports as an end of file; after a read
   error nothing is cached. *)
CachedComplete ==
  cached # None /\ ending # "reset" => cached = Closed(Framed(response))

(* A line of the bytes s that does not fit forwardbuf with its terminator. *)
LongLine(s) == \E i \in 1..Len(s) - (MAXLINE - 2) :
                 \A j \in i..i + MAXLINE - 2 : s[j] # "nl"
WholeLines(s) == s = <<>> \/ Last(s) = "nl"

(* A response of text lines that fit the buffer: strlen in new_node finds the
   end of what is cached, nothing is copied beyond the block (cache.c:94-95),
   and the block holds the response with a terminator, or, if the response ends
   with a newline, with an unwritten byte in the place of the terminator
   (MCCache: Terminated and Unterminated).  For long lines see ReplyHandedOn. *)
BlockFits ==
  block # NoBlock =>
    /\ StrLen(payload) < MaxObjectSize
    /\ ending # "reset" /\ ~LongLine(response) /\ ~Contains(response, "NUL") =>
         /\ block.beyond = <<>>
         /\ block.held = Append(response, IF WholeLines(response) THEN "any" ELSE "NUL")

(* A response of whole lines, once it was read to its end: "the proxy sends the
   reply on to the browser" (README.md:3), forward_response returned the "size
   of response in BYTE" (proxy-module.c:154), and new_node "allocates memory"
   (cache.c:77-79) for all it copied. *)
ReplyHandedOn ==
  pc = "end" /\ ending = "eof" /\ clientUp /\ WholeLines(response) =>
    client = response /\ sum = Len(response) /\ block.beyond = <<>>

(* Once the server has ended its response the transfer ends, even if the
   client went away. *)
TransferEnds == <>(pc \in {"end", "crashed"})
=======================================================================
