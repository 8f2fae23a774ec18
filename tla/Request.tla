---------------------------- MODULE Request ----------------------------
(***************************************************************************)
(* What worker_main makes of a request: parse_request and parse_uri for    *)
(* its first line (proxy-module.c:74-130, 210-277) and, when its document  *)
(* is not cached, read_request_header for the lines behind it (190-200).   *)
(* The request line is given as the words that sscanf finds in it, and a   *)
(* URI as a sequence of tokens: the word http in any case, other words,    *)
(* digits, and the characters the parser looks for.                        *)
(***************************************************************************)
EXTENDS Integers, Sequences, SequencesExt, FiniteSets, FiniteSetsExt

CONSTANTS Uri,       \* the URIs that are requested, not empty
          Method,    \* the methods, GET among them
          Protocol,  \* the protocol versions
          Digit,     \* the tokens that are digits
          Width,     \* how many characters a token has
          Stale,     \* what the stack holds where port will be
          Header,    \* what clients send behind the request line
          HEADER_LINE_SIZE

ASSUME RequestAssumption ==
  /\ Uri \subseteq Seq(STRING) /\ <<>> \notin Uri
  /\ "GET" \in Method /\ Stale \subseteq Seq(STRING)
  /\ Digit \subseteq STRING /\ {"/", ":", "nl"} \cap Digit = {}
  /\ (\A u \in Uri : Range(u) \subseteq DOMAIN Width) /\ Width["http"] = 4
  /\ Header \subseteq Seq({"field", "blank", "eof"}) /\ HEADER_LINE_SIZE \in Nat

VARIABLES request,   \* words: how many, and the first three
          p,         \* the parser's pointer into the URI
          host, port, path,
          status,    \* the codes that were sent to the client
          unread,    \* lines the client sent that were not read; behind the
                     \* last one it waits, unless that is an end of file
          buf,       \* the last line read_request_header got
          headerline,
          pc

parts  == <<p, host, port, path>>
header == <<unread, buf, headerline>>
vars   == <<request, parts, status, header, pc>>

uri == request.uri

(* worker_main's buffers are on the stack and hold what was there before. *)
Init ==
  /\ request \in [words : 0..3, method : Method, uri : Uri, protocol : Protocol]
  /\ p = 1 /\ host = <<>> /\ port \in Stale /\ path = <<>>
  /\ status = <<>> /\ pc = "setup"
  /\ unread = <<>> /\ buf = "any" /\ headerline = 0

Goto(from, to) == pc = from /\ pc' = to

(* response_failure; parse_request returns 0 and the session is closed. *)
Refuse(code) ==
  pc' = "refused" /\ status' = Append(status, code) /\ UNCHANGED <<request, parts>>

Pass(to) == pc' = to /\ UNCHANGED <<request, parts, status>>

(* Index of the first token of the URI from i on that is in C; the index
   behind the last token stands for the terminator. *)
First(C, i) == Min({j \in i..Len(uri) : uri[j] \in C} \cup {Len(uri) + 1})

(* How many characters the tokens of s have. *)
Chars(s) ==
  LET sum[i \in 0..Len(s)] == IF i = 0 THEN 0 ELSE sum[i - 1] + Width[s[i]]
  IN  sum[Len(s)]

(* strncpy of s into a buffer: no terminator is written. *)
Overlay(s, old) == s \o SubSeq(old, Len(s) + 1, Len(old))

-----------------------------------------------------------------------
(* Faulty variants of definitions below, one per mistake the properties are
   meant to catch. *)
SetupKeepsPort ==            \* the memset of port is missing
  /\ Goto("setup", "fields")
  /\ host' = <<>> /\ path' = <<>>
  /\ UNCHANGED <<request, p, port, status>>

CheckFieldsFirst ==          \* only the first word is required
  /\ pc = "fields"
  /\ IF request.words = 0 THEN Refuse("400") ELSE Pass("method")

NextHeaderBlind ==           \* the loop does not look for the blank line
  /\ pc = "headers"
  /\ headerline' = headerline + 1
  /\ pc' = IF unread = <<>> THEN "waits" ELSE "forward"
  /\ UNCHANGED <<buf, unread>>

SlashesOne ==                \* the second slash is not looked at
  /\ pc = "slashes"
  /\ IF p <= Len(uri) /\ uri[p] = "/"
     THEN /\ pc' = "host" /\ p' = p + 2
          /\ UNCHANGED <<request, host, port, path, status>>
     ELSE Refuse("404")

-----------------------------------------------------------------------
(* worker_main zeroes the three buffers. *)
Setup ==
  /\ Goto("setup", "fields")
  /\ host' = <<>> /\ port' = <<>> /\ path' = <<>>
  /\ UNCHANGED <<request, p, status>>

(* parse_request: a line without three words, the empty line included, *)
CheckFields ==
  /\ pc = "fields"
  /\ IF request.words < 3 THEN Refuse("400") ELSE Pass("method")

(* a method that is not GET, *)
CheckMethod ==
  /\ pc = "method"
  /\ IF request.method # "GET" THEN Refuse("501") ELSE Pass("protocol")

(* a protocol that is not HTTP/1.0 or HTTP/1.1. *)
CheckProtocol ==
  /\ pc = "protocol"
  /\ IF request.protocol \notin {"HTTP/1.0", "HTTP/1.1"}
     THEN Refuse("400") ELSE Pass("scheme")

(* parse_uri: the scheme ends at the first colon and must be http.  It is
   copied into ten bytes first, with a terminator behind it; what one that does
   not fit does is not defined. *)
ReadScheme ==
  LET colon  == First({":"}, 1)
      scheme == SubSeq(uri, 1, colon - 1)
  IN  /\ pc = "scheme"
      /\ \/ /\ colon > Len(uri)
            /\ Refuse("404")
         \/ /\ colon <= Len(uri) /\ Chars(scheme) >= 10
            /\ Pass("overrun")
         \/ /\ colon <= Len(uri) /\ Chars(scheme) < 10 /\ scheme # <<"http">>
            /\ Refuse("404")
         \/ /\ colon <= Len(uri) /\ scheme = <<"http">>
            /\ pc' = "slashes" /\ p' = colon + 1
            /\ UNCHANGED <<request, host, port, path, status>>

SkipSlashes ==
  /\ pc = "slashes"
  /\ IF p + 1 <= Len(uri) /\ uri[p] = "/" /\ uri[p + 1] = "/"
     THEN /\ pc' = "host" /\ p' = p + 2
          /\ UNCHANGED <<request, host, port, path, status>>
     ELSE Refuse("404")

ReadHost ==
  LET q == First({"/", ":", "nl"}, p)
  IN  /\ Goto("host", "port")
      /\ host' = SubSeq(uri, p, q - 1) /\ p' = q
      /\ UNCHANGED <<request, port, path, status>>

(* The digits behind a colon, which are copied without a terminator; or 80. *)
ReadPort ==
  LET q == First({t \in Range(uri) : t \notin Digit}, p + 1)
  IN  /\ Goto("port", "path")
      /\ IF p <= Len(uri) /\ uri[p] = ":"
         THEN port' = Overlay(SubSeq(uri, p + 1, q - 1), port) /\ p' = q
         ELSE port' = <<"80">> /\ UNCHANGED p
      /\ UNCHANGED <<request, host, path, status>>

(* The path with its query string; or the root.  The request is accepted. *)
ReadPath ==
  /\ Goto("path", "accepted")
  /\ path' = IF p <= Len(uri) /\ uri[p] = "/"
             THEN SubSeq(uri, p, First({"nl"}, p) - 1)
             ELSE <<"/">>
  /\ UNCHANGED <<request, p, host, port, status>>

-----------------------------------------------------------------------
(* nio_readlineb on the client's connection: at its end buf stays as it is; a
   client that has sent everything and waits makes the worker wait as well. *)
ReadLine(lines, to) ==
  IF lines = <<>>
  THEN pc' = "waits" /\ UNCHANGED <<buf, unread>>
  ELSE /\ pc' = to
       /\ IF Head(lines) = "eof" THEN unread' = lines /\ UNCHANGED buf
                                 ELSE unread' = Tail(lines) /\ buf' = Head(lines)

(* read_request_header for a request that is not cached: its first line, *)
FirstHeader ==
  /\ pc = "accepted"
  /\ \E lines \in Header : ReadLine(lines, "headers")
  /\ UNCHANGED headerline

(* and the condition of the loop; buf is not initialized if there was none. *)
BlankLine ==
  /\ Goto("headers", "forward") /\ buf \in {"blank", "any"}
  /\ UNCHANGED header

(* The loop reads a line, counts it and stops below the limit. *)
NextHeader ==
  /\ pc = "headers" /\ buf # "blank"
  /\ headerline' = headerline + 1
  /\ ReadLine(unread, IF headerline' < HEADER_LINE_SIZE THEN "forward" ELSE "headers")

Ended == pc \in {"accepted", "refused", "overrun", "forward", "waits"} /\ UNCHANGED vars

-----------------------------------------------------------------------
ParseRequest == \/ Setup \/ CheckFields \/ CheckMethod \/ CheckProtocol
                \/ ReadScheme \/ SkipSlashes \/ ReadHost \/ ReadPort \/ ReadPath

ReadRequestHeader == FirstHeader \/ BlankLine \/ NextHeader

Next == \/ ParseRequest /\ UNCHANGED header
        \/ ReadRequestHeader /\ UNCHANGED <<request, parts, status>>
        \/ Ended

Spec == Init /\ [][Next]_vars

-----------------------------------------------------------------------
Prefix == <<"http", ":", "/", "/">>
Valid  == request.words = 3 /\ request.method = "GET"
            /\ request.protocol \in {"HTTP/1.0", "HTTP/1.1"}
Accepted == pc \in {"accepted", "headers", "forward", "waits"}
Over     == Accepted \/ pc \in {"refused", "overrun"}

(* The format at proxy-module.c:206, "[hostname](:port)[path](?query_string)":
   the URI is made of a host, a port (none if empty) and a path (none if
   empty). *)
Format(h, n, d) ==
  /\ h # <<>> /\ {"/", ":", "nl"} \cap Range(h) = {}
  /\ Range(n) \subseteq Digit
  /\ d # <<>> => d[1] = "/" /\ "nl" \notin Range(d)
  /\ uri = Prefix \o h \o (IF n = <<>> THEN <<>> ELSE <<":">> \o n) \o d

(* A URI of the documented format is accepted and taken apart into the host,
   port and path it was made of, with 80 and / for the parts it leaves out,
   whatever an earlier request left in the buffers. *)
FormatParsed ==
  Over /\ Valid =>
    \A i, k \in 4..Len(uri) :
      LET h == SubSeq(uri, 5, i)
          n == SubSeq(uri, i + 2, k)
          d == SubSeq(uri, Max({i, k}) + 1, Len(uri))
      IN  Format(h, n, d) =>
            /\ Accepted /\ host = h
            /\ port = IF n = <<>> THEN <<"80">> ELSE n
            /\ path = IF d = <<>> THEN <<"/">> ELSE d

(* Nothing is made up: the parts of an accepted request are the beginning of
   its URI, apart from the defaults; so two documents of one server have the
   same key in the cache only if the URI goes on behind the port with
   something other than a path. *)
PartsFromUri ==
  Accepted =>
    \E withPort, withPath \in BOOLEAN :
      /\ IsPrefix(Prefix \o host \o (IF withPort THEN <<":">> \o port ELSE <<>>)
                    \o (IF withPath THEN path ELSE <<>>), uri)
      /\ ~withPort => port = <<"80">>
      /\ ~withPath => path = <<"/">>

(* The client of a request that is not accepted gets one answer, and the first
   reason in the order of parse_request decides which one (proxy-module.c:84-125);
   an accepted request has no answer yet. *)
Reason == CASE request.words < 3 -> "400"
            [] request.words = 3 /\ request.method # "GET" -> "501"
            [] request.words = 3 /\ request.method = "GET" /\ ~Valid -> "400"
            [] OTHER -> "404"
AnsweredOnce ==
  /\ pc = "refused" => status = <<Reason>>
  /\ pc # "refused" => status = <<>>

(* No line is asked for behind the blank line that ends the header: its client
   waits for the answer, and would wait for ever for a worker that waits for
   it (proxy-module.c:193-195). *)
NeverWaits == pc # "waits"
=======================================================================
