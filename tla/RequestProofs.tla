-------------------------- MODULE RequestProofs --------------------------
(***************************************************************************)
(* What clients are answered, when the worker waits for them, and what the *)
(* parser makes of a URI, for any URIs, methods, protocols, headers and    *)
(* limit of header lines.                                                  *)
(***************************************************************************)
EXTENDS Request, SequenceTheorems, DataLemmas

AtUri == {"scheme", "slashes", "host", "port", "path", "accepted", "headers",
          "forward", "waits", "overrun"}

(* Each check has been passed where it is behind the parser, and the client has
   an answer only if one has not. *)
AnswerInv ==
  /\ request \in [words : 0..3, method : Method, uri : Uri, protocol : Protocol]
  /\ pc \in {"setup", "fields", "method", "protocol", "refused"} \cup AtUri
  /\ pc \in {"method", "protocol"} \cup AtUri => request.words = 3
  /\ pc \in {"protocol"} \cup AtUri => request.method = "GET"
  /\ pc \in AtUri => Valid
  /\ AnsweredOnce

-----------------------------------------------------------------------
LEMMA AnswerInvInit == Init => AnswerInv
  BY DEF Init, AnswerInv, AnsweredOnce, AtUri

LEMMA AnswerInvNext == AnswerInv /\ [Next]_vars => AnswerInv'
<1>. SUFFICES ASSUME AnswerInv, [Next]_vars  PROVE AnswerInv'
  OBVIOUS
<1>. USE DEF AnswerInv, AnsweredOnce, AtUri
<1>0. /\ request' = request /\ uri' = uri /\ (Valid' <=> Valid) /\ Reason' = Reason
  BY DEF Next, vars, ParseRequest, Setup, CheckFields, CheckMethod, CheckProtocol,
         ReadScheme, SkipSlashes, ReadHost, ReadPort, ReadPath, ReadRequestHeader,
         Ended, Refuse, Pass, uri, Valid, Reason
<1>1. CASE UNCHANGED vars
  BY <1>0, <1>1 DEF vars
<1>2. CASE Setup \/ ReadHost \/ ReadPort \/ ReadPath
  BY <1>0, <1>2 DEF Setup, ReadHost, ReadPort, ReadPath, Goto
<1>3. CASE CheckFields
  BY <1>0, <1>3 DEF CheckFields, Refuse, Pass, Reason
<1>4. CASE CheckMethod
  BY <1>0, <1>4 DEF CheckMethod, Refuse, Pass, Reason
<1>5. CASE CheckProtocol
  BY <1>0, <1>5 DEF CheckProtocol, Refuse, Pass, Reason, Valid
<1>6. CASE ReadScheme \/ SkipSlashes
  <2>1. pc \in AtUri /\ Valid /\ status = <<>>
    BY <1>6 DEF ReadScheme, SkipSlashes
  <2>2. Reason = "404"
    BY <2>1 DEF Valid, Reason
  <2>3. \/ pc' = "refused" /\ status' = Append(status, "404")
        \/ pc' \in {"overrun", "slashes", "host"} /\ status' = status
    BY <1>6 DEF ReadScheme, SkipSlashes, Refuse, Pass
  <2>. QED
    BY <1>0, <2>1, <2>2, <2>3 DEF Valid
<1>7. CASE ReadRequestHeader /\ UNCHANGED <<request, parts, status>>
  BY <1>0, <1>7 DEF ReadRequestHeader, FirstHeader, BlankLine, NextHeader, ReadLine, Goto
<1>. QED
  BY <1>1, <1>2, <1>3, <1>4, <1>5, <1>6, <1>7 DEF Next, ParseRequest, Ended

(* The client of a request that is not accepted gets one answer, for the first
   check it fails; an accepted one has none yet (proxy-module.c:84-125). *)
THEOREM OneAnswer == Spec => []AnsweredOnce
<1>1. AnswerInv => AnsweredOnce
  BY DEF AnswerInv
<1>. QED
  BY <1>1, AnswerInvInit, AnswerInvNext, PTL DEF Spec

-----------------------------------------------------------------------
(* Clients that end the header of a request, or the connection. *)
HeadersEnd ==
  \A lines \in Header : lines # <<>> /\ lines[Len(lines)] \in {"blank", "eof"}

(* Behind a line that is not the blank one there is another one. *)
MoreLines(lines) ==
  /\ lines \in Seq({"field", "blank", "eof"}) /\ lines # <<>>
  /\ lines[Len(lines)] \in {"blank", "eof"}

WaitInv ==
  /\ NeverWaits
  /\ pc = "headers" => buf = "blank" \/ MoreLines(unread)

LEMMA ReadLineStep ==
  ASSUME NEW lines, MoreLines(lines), NEW to, to # "waits", ReadLine(lines, to)
  PROVE  pc' = to /\ (buf' = "blank" \/ MoreLines(unread'))
<1>1. /\ pc' = to /\ lines # <<>>
      /\ IF Head(lines) = "eof" THEN unread' = lines /\ UNCHANGED buf
                               ELSE unread' = Tail(lines) /\ buf' = Head(lines)
  BY DEF ReadLine, MoreLines
<1>2. CASE Head(lines) = "eof" \/ Head(lines) = "blank"
  BY <1>1, <1>2
<1>3. CASE Head(lines) = "field"
  <2>1. /\ Len(lines) \in Nat \ {0} /\ Head(lines) = lines[1]
        /\ Tail(lines) \in Seq({"field", "blank", "eof"})
        /\ Len(Tail(lines)) = Len(lines) - 1
        /\ \A i \in 1..Len(Tail(lines)) : Tail(lines)[i] = lines[i + 1]
    BY HeadTailProperties, EmptySeq DEF MoreLines
  <2>2. Len(lines) # 1
    BY <1>3, <2>1 DEF MoreLines
  <2>3. Tail(lines)[Len(Tail(lines))] = lines[Len(lines)]
    BY <2>1, <2>2
  <2>4. Tail(lines) # <<>>
    <3>1. Len(Tail(lines)) # 0 /\ Len(<<>>) = 0
      BY <2>1, <2>2
    <3>. QED
      BY <3>1, Zenon
  <2>5. MoreLines(Tail(lines))
    <3>1. lines[Len(lines)] \in {"blank", "eof"}
      BY DEF MoreLines
    <3>. QED
      BY <2>1, <2>3, <2>4, <3>1 DEF MoreLines
  <2>. QED
    BY <1>1, <1>3, <2>5
<1>. QED
  BY <1>2, <1>3, HeadTailProperties DEF MoreLines

LEMMA WaitInvNext == HeadersEnd /\ WaitInv /\ [Next]_vars => WaitInv'
<1>. SUFFICES ASSUME HeadersEnd, WaitInv, [Next]_vars  PROVE WaitInv'
  OBVIOUS
<1>. USE DEF WaitInv, NeverWaits
<1>1. CASE UNCHANGED vars \/ Ended
  BY <1>1 DEF vars, header, Ended
<1>2. CASE ParseRequest /\ UNCHANGED header
  BY <1>2 DEF ParseRequest, Setup, CheckFields, CheckMethod, CheckProtocol, ReadScheme,
     SkipSlashes, ReadHost, ReadPort, ReadPath, Goto, Refuse, Pass, header
<1>3. CASE FirstHeader
  <2>1. PICK lines \in Header : ReadLine(lines, "headers")
    BY <1>3 DEF FirstHeader
  <2>2. MoreLines(lines)
    BY RequestAssumption DEF HeadersEnd, MoreLines
  <2>. QED
    BY <2>1, <2>2, ReadLineStep
<1>4. CASE BlankLine
  BY <1>4 DEF BlankLine, Goto
<1>5. CASE NextHeader
  <2>1. PICK to \in {"forward", "headers"} : ReadLine(unread, to)
    BY <1>5 DEF NextHeader
  <2>2. MoreLines(unread)
    BY <1>5 DEF NextHeader
  <2>. QED
    BY <2>1, <2>2, ReadLineStep
<1>. QED
  BY <1>1, <1>2, <1>3, <1>4, <1>5 DEF Next, ReadRequestHeader

(* A client that ends its header is never made to wait for the answer by a
   worker that waits for another line (proxy-module.c:193-195). *)
THEOREM NoWait == HeadersEnd => (Spec => []NeverWaits)
<1>. SUFFICES ASSUME HeadersEnd  PROVE Spec => []NeverWaits
  OBVIOUS
<1>1. Init => WaitInv
  BY DEF Init, WaitInv, NeverWaits
<1>2. WaitInv => NeverWaits
  BY DEF WaitInv
<1>3. WaitInv /\ [Next]_vars => WaitInv'
  BY WaitInvNext
<1>. QED
  BY <1>1, <1>2, <1>3, PTL DEF Spec

-----------------------------------------------------------------------
(* What First returns: the end of the tokens from i on that are not in C. *)
LEMMA FirstFacts ==
  ASSUME NEW S, uri \in Seq(S), NEW C, NEW i \in 1..Len(uri) + 1
  PROVE  /\ First(C, i) \in i..Len(uri) + 1
         /\ First(C, i) <= Len(uri) => uri[First(C, i)] \in C
         /\ \A j \in i..First(C, i) - 1 : uri[j] \notin C
<1>. DEFINE T == {j \in i..Len(uri) : uri[j] \in C} \cup {Len(uri) + 1}
<1>1. Len(uri) \in Nat
  BY LenProperties
<1>2. T \in SUBSET Nat /\ T # {}
  BY <1>1
<1>3. Min(T) \in T /\ \A y \in T : Min(T) <= y
  BY <1>2, MinIsLeast
<1>4. First(C, i) = Min(T)
  BY DEF First
<1>5. \A j \in i..Len(uri) : uri[j] \in C => j \in T
  OBVIOUS
<1>6. Min(T) \in i..Len(uri) + 1 /\ (Min(T) <= Len(uri) => uri[Min(T)] \in C)
  BY <1>1, <1>3
<1>. HIDE DEF T
<1>7. \A j \in i..Min(T) - 1 : uri[j] \notin C
  BY <1>1, <1>3, <1>5, <1>6
<1>. QED
  BY <1>4, <1>6, <1>7

(* Only one index is the end of those tokens. *)
LEMMA FirstIs ==
  ASSUME NEW S, uri \in Seq(S), NEW C, NEW i \in 1..Len(uri) + 1,
         NEW e \in i..Len(uri) + 1,
         e <= Len(uri) => uri[e] \in C,
         \A j \in i..e - 1 : uri[j] \notin C
  PROVE  First(C, i) = e
<1>1. Len(uri) \in Nat
  BY LenProperties
<1>2. /\ First(C, i) \in i..Len(uri) + 1
      /\ First(C, i) <= Len(uri) => uri[First(C, i)] \in C
      /\ \A j \in i..First(C, i) - 1 : uri[j] \notin C
  BY FirstFacts
<1>3. ~(First(C, i) < e)
  BY <1>1, <1>2
<1>4. ~(e < First(C, i))
  BY <1>1, <1>2
<1>. QED
  BY <1>1, <1>2, <1>3, <1>4

-----------------------------------------------------------------------
(* A URI taken apart at once: where its host and its port end, and its parts. *)
StartsRight == /\ Len(uri) >= 4 /\ uri[1] = "http" /\ uri[2] = ":"
               /\ uri[3] = "/" /\ uri[4] = "/"
HostEnd  == First({"/", ":", "nl"}, 5)
HasPort  == HostEnd <= Len(uri) /\ uri[HostEnd] = ":"
PortEnd  == IF HasPort THEN First({t \in Range(uri) : t \notin Digit}, HostEnd + 1)
                       ELSE HostEnd
HasPath  == PortEnd <= Len(uri) /\ uri[PortEnd] = "/"
PathEnd  == First({"nl"}, PortEnd)
Host     == SubSeq(uri, 5, HostEnd - 1)
Port     == IF HasPort THEN SubSeq(uri, HostEnd + 1, PortEnd - 1) ELSE <<"80">>
DocPath  == IF HasPath THEN SubSeq(uri, PortEnd, PathEnd - 1) ELSE <<"/">>

(* The parser has found them where it is behind them, and refuses nothing but
   what does not start with http://. *)
ParseInv ==
  /\ request \in [words : 0..3, method : Method, uri : Uri, protocol : Protocol]
  /\ pc \in {"fields", "method", "protocol", "scheme", "slashes", "host", "port"}
       => port = <<>>
  /\ pc = "slashes" => p = 3 /\ Len(uri) >= 2 /\ uri[1] = "http" /\ uri[2] = ":"
  /\ pc \in {"host", "port", "path"} \/ Accepted => StartsRight
  /\ pc = "host" => p = 5
  /\ pc = "port" => p = HostEnd
  /\ pc = "path" => p = PortEnd
  /\ pc \in {"port", "path"} \/ Accepted => host = Host
  /\ pc = "path" \/ Accepted => port = Port
  /\ Accepted => path = DocPath
  /\ pc = "refused" /\ Valid => ~StartsRight
  /\ pc = "overrun" => ~StartsRight

LEMMA UriIsSeq == ParseInv => uri \in Seq(STRING) /\ Len(uri) \in Nat
  BY RequestAssumption, LenProperties DEF ParseInv, uri

LEMMA Ends ==
  ASSUME ParseInv, StartsRight
  PROVE  /\ HostEnd \in 5..Len(uri) + 1 /\ PortEnd \in HostEnd..Len(uri) + 1
         /\ HasPort => PortEnd \in HostEnd + 1..Len(uri) + 1
         /\ PathEnd \in PortEnd..Len(uri) + 1
<1>1. uri \in Seq(STRING) /\ Len(uri) \in Nat
  BY UriIsSeq
<1>2. HostEnd \in 5..Len(uri) + 1
  BY <1>1, FirstFacts DEF HostEnd, StartsRight
<1>. HIDE DEF HostEnd
<1>3. HasPort => PortEnd \in HostEnd + 1..Len(uri) + 1
  <2>1. HasPort => HostEnd + 1 \in 1..Len(uri) + 1
    BY <1>1, <1>2 DEF HasPort
  <2>. QED
    BY <1>1, <2>1, FirstFacts DEF PortEnd
<1>4. PortEnd \in HostEnd..Len(uri) + 1
  BY <1>1, <1>2, <1>3 DEF PortEnd
<1>5. PathEnd \in PortEnd..Len(uri) + 1
  <2>1. PortEnd \in 1..Len(uri) + 1
    BY <1>1, <1>2, <1>4
  <2>. QED
    BY <1>1, <2>1, FirstFacts DEF PathEnd
<1>. QED
  BY <1>2, <1>3, <1>4, <1>5

(* A piece of the URI. *)
LEMMA UriPiece ==
  ASSUME NEW S, uri \in Seq(S), NEW a \in 1..Len(uri) + 1, NEW b \in a..Len(uri) + 1
  PROVE  /\ SubSeq(uri, a, b - 1) \in Seq(S) /\ Len(SubSeq(uri, a, b - 1)) = b - a
         /\ \A j \in 1..b - a : SubSeq(uri, a, b - 1)[j] = uri[a + j - 1]
<1>1. Len(uri) \in Nat
  BY LenProperties
<1>2. \A j \in a..b - 1 : uri[j] \in S
  BY <1>1, ElementOfSeq
<1>. QED
  BY <1>1, <1>2, SubSeqProperties

LEMMA OneToken ==
  ASSUME NEW S, NEW s \in Seq(S), Len(s) = 1, NEW x, s[1] = x  PROVE s = <<x>>
  OBVIOUS

(* The scheme http fits its ten bytes. *)
LEMMA HttpFits == Chars(<<"http">>) = 4
<1>. DEFINE S(i, g) == IF i = 0 THEN 0 ELSE g[i - 1] + Width[<<"http">>[i]]
            f == CHOOSE g : g = [i \in 0..1 |-> S(i, g)]
            w == [i \in 0..1 |-> IF i = 0 THEN 0 ELSE 4]
<1>1. w = [i \in 0..1 |-> S(i, w)]
  <2>1. \A i \in 0..1 : w[i] = S(i, w)
    BY RequestAssumption
  <2>. QED
    BY <2>1
<1>. HIDE DEF w
<1>2. f = [i \in 0..1 |-> S(i, f)]
  BY <1>1
<1>3. Len(<<"http">>) = 1
  OBVIOUS
<1>4. Chars(<<"http">>) = f[1]
  BY <1>3, Zenon DEF Chars
<1>. HIDE DEF f
<1>5. f[0] = S(0, f) /\ f[1] = S(1, f)
  BY <1>2
<1>6. S(0, f) = 0 /\ S(1, f) = f[0] + 4
  BY RequestAssumption
<1>. QED
  BY <1>4, <1>5, <1>6

LEMMA SchemeStep == ParseInv /\ ReadScheme => ParseInv'
<1>. SUFFICES ASSUME ParseInv, ReadScheme  PROVE ParseInv'
  OBVIOUS
<1>. DEFINE colon == First({":"}, 1)
            scheme == SubSeq(uri, 1, colon - 1)
<1>1. uri \in Seq(STRING) /\ Len(uri) \in Nat /\ port = <<>> /\ pc = "scheme"
  BY UriIsSeq DEF ReadScheme, ParseInv
<1>2. /\ colon \in 1..Len(uri) + 1
      /\ colon <= Len(uri) => uri[colon] = ":"
      /\ \A j \in 1..colon - 1 : uri[j] # ":"
  <2>1. 1 \in 1..Len(uri) + 1
    BY <1>1
  <2>. QED
    BY <1>1, <2>1, FirstFacts
<1>3. request' = request /\ uri' = uri /\ port' = port /\ (StartsRight' <=> StartsRight)
  BY DEF ReadScheme, Refuse, Pass, parts, uri, StartsRight
<1>4. /\ scheme \in Seq(STRING) /\ Len(scheme) = colon - 1
      /\ \A j \in 1..colon - 1 : scheme[j] = uri[j]
  <2>1. \A j \in 1..colon - 1 : uri[j] \in STRING
    BY <1>1, <1>2, ElementOfSeq
  <2>. HIDE DEF colon
  <2>. QED
    BY <1>1, <1>2, <2>1, SubSeqProperties
<1>. HIDE DEF colon, scheme
<1>5. CASE pc' = "refused" /\ (colon > Len(uri) \/ scheme # <<"http">>)
  <2>1. ~StartsRight
    <3>. SUFFICES ASSUME StartsRight  PROVE FALSE
      OBVIOUS
    <3>1. colon = 2
      BY <1>1, <1>2 DEF StartsRight
    <3>2. Len(scheme) = 1 /\ scheme[1] = "http"
      BY <1>4, <3>1 DEF StartsRight
    <3>3. scheme = <<"http">>
      BY <1>4, <3>2, OneToken
    <3>. QED
      BY <1>1, <1>5, <3>1, <3>3 DEF StartsRight
  <2>. QED
    BY <1>1, <1>3, <1>5, <2>1 DEF ParseInv, Accepted
<1>6. CASE pc' = "overrun" /\ Chars(scheme) >= 10
  <2>1. ~StartsRight
    <3>. SUFFICES ASSUME StartsRight  PROVE FALSE
      OBVIOUS
    <3>1. colon = 2
      BY <1>1, <1>2 DEF StartsRight
    <3>2. Len(scheme) = 1 /\ scheme[1] = "http"
      BY <1>4, <3>1 DEF StartsRight
    <3>3. scheme = <<"http">>
      BY <1>4, <3>2, OneToken
    <3>. QED
      BY <1>6, <3>3, HttpFits
  <2>. QED
    BY <1>1, <1>3, <1>6, <2>1 DEF ParseInv, Accepted
<1>7. CASE pc' = "slashes" /\ p' = colon + 1 /\ colon <= Len(uri) /\ scheme = <<"http">>
  <2>1. Len(scheme) = 1 /\ scheme[1] = "http"
    BY <1>7
  <2>2. colon = 2
    <3>1. colon \in Nat
      BY <1>1, <1>2
    <3>2. colon - 1 = 1
      BY <1>4, <2>1
    <3>. HIDE DEF colon
    <3>3. \A m \in Nat : m - 1 = 1 => m = 2
      OBVIOUS
    <3>. QED
      BY <3>1, <3>2, <3>3
  <2>3. Len(uri) >= 2 /\ uri[1] = "http" /\ uri[2] = ":"
    BY <1>2, <1>4, <1>7, <2>1, <2>2
  <2>. QED
    BY <1>1, <1>3, <1>7, <2>2, <2>3 DEF ParseInv, Accepted
<1>. QED
  BY <1>5, <1>6, <1>7 DEF ReadScheme, colon, scheme, Refuse, Pass

(* On a buffer of zeros strncpy leaves a terminated copy. *)
LEMMA CleanOverlay == ASSUME NEW S, NEW s \in Seq(S)  PROVE Overlay(s, <<>>) = s
<1>1. Len(s) \in Nat /\ Len(<<>>) = 0
  BY LenProperties
<1>2. SubSeq(<<>>, Len(s) + 1, Len(<<>>)) = <<>>
  BY <1>1, SubSeqEmpty
<1>. QED
  BY <1>2, ConcatEmptySeq DEF Overlay

LEMMA PartsStep == ParseInv /\ (ReadHost \/ ReadPort \/ ReadPath) => ParseInv'
<1>. SUFFICES ASSUME ParseInv, ReadHost \/ ReadPort \/ ReadPath  PROVE ParseInv'
  OBVIOUS
<1>1. StartsRight /\ uri \in Seq(STRING) /\ Len(uri) \in Nat
  BY UriIsSeq DEF ParseInv, ReadHost, ReadPort, ReadPath, Goto
<1>2. request' = request /\ uri' = uri
  BY DEF ReadHost, ReadPort, ReadPath, uri
<1>3. /\ (StartsRight' <=> StartsRight) /\ HostEnd' = HostEnd /\ PortEnd' = PortEnd
      /\ Host' = Host /\ Port' = Port /\ DocPath' = DocPath
  BY <1>2 DEF StartsRight, HostEnd, HasPort, PortEnd, HasPath, PathEnd, Host, Port,
              DocPath, First
<1>4. CASE ReadHost
  <2>1. pc = "host" /\ pc' = "port" /\ p = 5 /\ port' = <<>>
    BY <1>4 DEF ReadHost, Goto, ParseInv
  <2>2. host' = Host /\ p' = HostEnd
    BY <1>4, <2>1 DEF ReadHost, Host, HostEnd
  <2>. QED
    BY <1>1, <1>2, <1>3, <2>1, <2>2 DEF ParseInv, Accepted
<1>5. CASE ReadPort
  <2>1. pc = "port" /\ pc' = "path" /\ p = HostEnd /\ port = <<>> /\ host' = Host
    BY <1>5 DEF ReadPort, Goto, ParseInv
  <2>2. ASSUME HasPort  PROVE port' = Port /\ p' = PortEnd
    <3>1. HostEnd + 1 \in 1..Len(uri) + 1 /\ PortEnd \in HostEnd + 1..Len(uri) + 1
      BY <1>1, <2>2, Ends
    <3>2. port' = Overlay(SubSeq(uri, HostEnd + 1, PortEnd - 1), <<>>) /\ p' = PortEnd
      BY <1>5, <2>1, <2>2 DEF ReadPort, PortEnd, HasPort
    <3>3. SubSeq(uri, HostEnd + 1, PortEnd - 1) \in Seq(STRING)
      BY <1>1, <3>1, UriPiece
    <3>. QED
      BY <2>2, <3>2, <3>3, CleanOverlay DEF Port
  <2>3. port' = Port /\ p' = PortEnd
    <3>1. ~HasPort => port' = <<"80">> /\ p' = p
      BY <1>5, <2>1 DEF ReadPort, HasPort
    <3>. QED
      BY <2>1, <2>2, <3>1 DEF Port, PortEnd
  <2>. QED
    BY <1>1, <1>2, <1>3, <2>1, <2>3 DEF ParseInv, Accepted
<1>6. CASE ReadPath
  <2>1. pc = "path" /\ pc' = "accepted" /\ p = PortEnd /\ host' = Host /\ port' = Port
    BY <1>6 DEF ReadPath, Goto, ParseInv
  <2>2. path' = DocPath
    BY <1>6, <2>1 DEF ReadPath, DocPath, HasPath, PathEnd
  <2>. QED
    BY <1>1, <1>2, <1>3, <2>1, <2>2 DEF ParseInv, Accepted
<1>. QED
  BY <1>4, <1>5, <1>6

LEMMA ParseInvNext == ParseInv /\ [Next]_vars => ParseInv'
<1>. SUFFICES ASSUME ParseInv, [Next]_vars  PROVE ParseInv'
  OBVIOUS
<1>1. request' = request /\ uri' = uri /\ (Valid' <=> Valid)
  BY DEF Next, vars, ParseRequest, Setup, CheckFields, CheckMethod, CheckProtocol,
         ReadScheme, SkipSlashes, ReadHost, ReadPort, ReadPath, ReadRequestHeader,
         Ended, Refuse, Pass, uri, Valid
<1>2. /\ (StartsRight' <=> StartsRight) /\ HostEnd' = HostEnd /\ PortEnd' = PortEnd
      /\ Host' = Host /\ Port' = Port /\ DocPath' = DocPath
  BY <1>1 DEF StartsRight, HostEnd, HasPort, PortEnd, HasPath, PathEnd, Host, Port,
              DocPath, First
<1>3. CASE UNCHANGED vars
  BY <1>1, <1>2, <1>3 DEF ParseInv, vars, parts, Accepted
<1>4. CASE Setup
  BY <1>1, <1>2, <1>4 DEF ParseInv, Setup, Goto, Accepted
<1>5. CASE CheckFields \/ CheckMethod \/ CheckProtocol
  <2>1. /\ UNCHANGED <<p, host, port, path>> /\ pc \in {"fields", "method", "protocol"}
        /\ \/ pc' = "refused" /\ ~Valid
           \/ pc' \in {"method", "protocol", "scheme"}
    BY <1>5 DEF CheckFields, CheckMethod, CheckProtocol, Refuse, Pass, parts, Valid
  <2>. QED
    BY <1>1, <1>2, <2>1 DEF ParseInv, Accepted
<1>6. CASE ReadScheme
  BY <1>6, SchemeStep
<1>7. CASE SkipSlashes
  <2>1. pc = "slashes" /\ p = 3 /\ uri[1] = "http" /\ uri[2] = ":" /\ Len(uri) \in Nat
    BY <1>7, UriIsSeq DEF SkipSlashes, ParseInv
  <2>2. \/ pc' = "host" /\ p' = 5 /\ StartsRight /\ UNCHANGED <<host, port, path>>
        \/ pc' = "refused" /\ ~StartsRight /\ UNCHANGED <<p, host, port, path>>
    BY <1>7, <2>1 DEF SkipSlashes, Refuse, parts, StartsRight
  <2>. QED
    BY <1>1, <1>2, <2>1, <2>2 DEF ParseInv, Accepted
<1>8. CASE ReadHost \/ ReadPort \/ ReadPath
  BY <1>8, PartsStep
<1>9. CASE ReadRequestHeader /\ UNCHANGED <<request, parts, status>>
  <2>1. Accepted /\ Accepted' /\ pc' \in {"headers", "forward", "waits"}
    BY <1>9 DEF ReadRequestHeader, FirstHeader, BlankLine, NextHeader, ReadLine, Goto,
                Accepted
  <2>. QED
    BY <1>1, <1>2, <1>9, <2>1 DEF ParseInv, parts
<1>. QED
  BY <1>3, <1>4, <1>5, <1>6, <1>7, <1>8, <1>9 DEF Next, ParseRequest, Ended

(* The parser does what the definitions above say of its URI. *)
THEOREM Parsed == Spec => []ParseInv
<1>1. Init => ParseInv
  BY DEF Init, ParseInv, Accepted
<1>. QED
  BY <1>1, ParseInvNext, PTL DEF Spec
-----------------------------------------------------------------------
(* Adjacent pieces of the URI, and a piece at its beginning. *)
LEMMA Join ==
  ASSUME NEW S, uri \in Seq(S), NEW a \in 1..Len(uri) + 1, NEW b \in a..Len(uri) + 1,
         NEW c \in b..Len(uri) + 1
  PROVE  SubSeq(uri, a, b - 1) \o SubSeq(uri, b, c - 1) = SubSeq(uri, a, c - 1)
<1>1. Len(uri) \in Nat
  BY LenProperties
<1>2. b - 1 \in a - 1..Len(uri) /\ c - 1 \in b - 1..Len(uri) /\ b - 1 + 1 = b
  BY <1>1
<1>. QED
  BY <1>2, ConcatAdjacentSubSeq

LEMMA Beginning ==
  ASSUME NEW S, uri \in Seq(S), NEW e \in 1..Len(uri) + 1
  PROVE  IsPrefix(SubSeq(uri, 1, e - 1), uri)
<1>1. Len(uri) \in Nat /\ 1 \in 1..Len(uri) + 1
  BY LenProperties
<1>2. SubSeq(uri, 1, e - 1) \in Seq(S) /\ Len(SubSeq(uri, 1, e - 1)) = e - 1
  BY <1>1, UriPiece
<1>3. SubSeq(SubSeq(uri, 1, e - 1), 1, e - 1) = SubSeq(uri, 1, e - 1)
  BY <1>2, SubSeqFull
<1>. QED
  BY <1>1, <1>2, <1>3 DEF IsPrefix

LEMMA FourTokens ==
  ASSUME NEW S, NEW s \in Seq(S), Len(s) = 4,
         s[1] = "http", s[2] = ":", s[3] = "/", s[4] = "/"
  PROVE  s = Prefix
  BY DEF Prefix

(* The pieces of a URI make up its beginning. *)
LEMMA Pieces ==
  ASSUME ParseInv, StartsRight
  PROVE  IsPrefix(Prefix \o Host \o (IF HasPort THEN <<":">> \o Port ELSE <<>>)
                    \o (IF HasPath THEN DocPath ELSE <<>>), uri)
<1>1. uri \in Seq(STRING) /\ Len(uri) \in Nat
  BY UriIsSeq
<1>2. /\ HostEnd \in 5..Len(uri) + 1 /\ PortEnd \in HostEnd..Len(uri) + 1
      /\ HasPort => PortEnd \in HostEnd + 1..Len(uri) + 1
      /\ PathEnd \in PortEnd..Len(uri) + 1
  BY Ends
<1>3. Prefix = SubSeq(uri, 1, 4)
  <2>1. /\ SubSeq(uri, 1, 5 - 1) \in Seq(STRING) /\ Len(SubSeq(uri, 1, 5 - 1)) = 5 - 1
        /\ \A j \in 1..5 - 1 : SubSeq(uri, 1, 5 - 1)[j] = uri[1 + j - 1]
    <3>1. 1 \in 1..Len(uri) + 1 /\ 5 \in 1..Len(uri) + 1
      BY <1>1 DEF StartsRight
    <3>. QED
      BY <1>1, <3>1, UriPiece
  <2>2. 5 - 1 = 4
    OBVIOUS
  <2>3. SubSeq(uri, 1, 4) \in Seq(STRING) /\ Len(SubSeq(uri, 1, 4)) = 4
    BY <2>1, <2>2
  <2>4. \A j \in 1..4 : SubSeq(uri, 1, 4)[j] = uri[j]
    BY <2>1, <2>2
  <2>5. /\ SubSeq(uri, 1, 4)[1] = "http" /\ SubSeq(uri, 1, 4)[2] = ":"
        /\ SubSeq(uri, 1, 4)[3] = "/" /\ SubSeq(uri, 1, 4)[4] = "/"
    BY <2>4 DEF StartsRight
  <2>. QED
    BY <2>3, <2>5, FourTokens
<1>4. Prefix \o Host = SubSeq(uri, 1, HostEnd - 1)
  <2>1. 1 \in 1..Len(uri) + 1 /\ 5 \in 1..Len(uri) + 1 /\ 5 - 1 = 4
    BY <1>1 DEF StartsRight
  <2>. QED
    BY <1>1, <1>2, <1>3, <2>1, Join DEF Host
<1>5. Prefix \o Host \o (IF HasPort THEN <<":">> \o Port ELSE <<>>)
        = SubSeq(uri, 1, PortEnd - 1)
  <2>1. CASE HasPort
    <3>1. SubSeq(uri, HostEnd, HostEnd) = <<":">>
      <4>1. HostEnd \in 1..Len(uri) + 1 /\ HostEnd + 1 \in HostEnd..Len(uri) + 1
        BY <1>1, <1>2, <2>1 DEF HasPort
      <4>2. HostEnd + 1 - 1 = HostEnd /\ HostEnd + 1 - HostEnd = 1
            /\ HostEnd + 1 - 1 = HostEnd /\ 1 \in 1..1
        BY <1>1, <1>2
      <4>3. /\ SubSeq(uri, HostEnd, HostEnd) \in Seq(STRING)
            /\ Len(SubSeq(uri, HostEnd, HostEnd)) = 1
            /\ SubSeq(uri, HostEnd, HostEnd)[1] = uri[HostEnd]
        BY <1>1, <4>1, <4>2, UriPiece
      <4>. QED
        BY <2>1, <4>3, OneToken DEF HasPort
    <3>2. <<":">> \o Port = SubSeq(uri, HostEnd, PortEnd - 1)
      <4>1. HostEnd \in 1..Len(uri) + 1 /\ HostEnd + 1 \in HostEnd..Len(uri) + 1
            /\ HostEnd + 1 - 1 = HostEnd /\ PortEnd \in HostEnd + 1..Len(uri) + 1
        BY <1>1, <1>2, <2>1 DEF HasPort
      <4>2. SubSeq(uri, HostEnd, HostEnd + 1 - 1) \o SubSeq(uri, HostEnd + 1, PortEnd - 1)
              = SubSeq(uri, HostEnd, PortEnd - 1)
        BY <1>1, <4>1, Join
      <4>. QED
        BY <2>1, <3>1, <4>1, <4>2 DEF Port
    <3>3. SubSeq(uri, 1, HostEnd - 1) \o SubSeq(uri, HostEnd, PortEnd - 1)
            = SubSeq(uri, 1, PortEnd - 1)
      <4>1. 1 \in 1..Len(uri) + 1 /\ HostEnd \in 1..Len(uri) + 1
        BY <1>1, <1>2
      <4>. QED
        BY <1>1, <1>2, <4>1, Join
    <3>. QED
      BY <1>4, <2>1, <3>2, <3>3
  <2>2. CASE ~HasPort
    <3>1. SubSeq(uri, 1, HostEnd - 1) \in Seq(STRING)
      <4>1. 1 \in 1..Len(uri) + 1 /\ HostEnd \in 1..Len(uri) + 1
        BY <1>1, <1>2
      <4>. QED
        BY <1>1, <4>1, UriPiece
    <3>. QED
      BY <1>4, <2>2, <3>1, ConcatEmptySeq DEF PortEnd
  <2>. QED
    BY <2>1, <2>2
<1>6. 1 \in 1..Len(uri) + 1 /\ PortEnd \in 1..Len(uri) + 1 /\ PathEnd \in 1..Len(uri) + 1
  BY <1>1, <1>2
<1>7. CASE HasPath
  <2>1. SubSeq(uri, 1, PortEnd - 1) \o SubSeq(uri, PortEnd, PathEnd - 1)
          = SubSeq(uri, 1, PathEnd - 1)
    BY <1>1, <1>2, <1>6, Join
  <2>2. IsPrefix(SubSeq(uri, 1, PathEnd - 1), uri)
    BY <1>1, <1>6, Beginning
  <2>. QED
    BY <1>5, <1>7, <2>1, <2>2 DEF DocPath
<1>8. CASE ~HasPath
  <2>1. SubSeq(uri, 1, PortEnd - 1) \in Seq(STRING)
    BY <1>1, <1>6, UriPiece
  <2>2. SubSeq(uri, 1, PortEnd - 1) \o <<>> = SubSeq(uri, 1, PortEnd - 1)
    BY <2>1, ConcatEmptySeq
  <2>3. IsPrefix(SubSeq(uri, 1, PortEnd - 1), uri)
    BY <1>1, <1>6, Beginning
  <2>. QED
    BY <1>5, <1>8, <2>2, <2>3
<1>. QED
  BY <1>7, <1>8

(* Whatever the URI and whatever the stack held before, the host, the port and
   the path of an accepted request are pieces of the URI behind each other,
   apart from the defaults (proxy-module.c:210-277). *)
THEOREM PiecesOfUri == Spec => []PartsFromUri
<1>1. ParseInv => PartsFromUri
  <2>. SUFFICES ASSUME ParseInv, Accepted  PROVE PartsFromUri
    BY DEF PartsFromUri
  <2>1. StartsRight /\ host = Host /\ port = Port /\ path = DocPath
    BY DEF ParseInv
  <2>2. IsPrefix(Prefix \o host \o (IF HasPort THEN <<":">> \o port ELSE <<>>)
                   \o (IF HasPath THEN path ELSE <<>>), uri)
    BY <2>1, Pieces
  <2>3. (~HasPort => port = <<"80">>) /\ (~HasPath => path = <<"/">>)
    BY <2>1 DEF Port, DocPath
  <2>4. HasPort \in BOOLEAN /\ HasPath \in BOOLEAN
    BY DEF HasPort, HasPath
  <2>. DEFINE withPort == HasPort
              withPath == HasPath
  <2>. QED
    BY <2>2, <2>3, <2>4, Zenon DEF PartsFromUri
<1>. QED
  BY <1>1, Parsed, PTL
-----------------------------------------------------------------------
LEMMA MaxOfTwo ==
  ASSUME NEW a \in Nat, NEW b \in Nat  PROVE Max({a, b}) = IF a >= b THEN a ELSE b
<1>. DEFINE m == IF a >= b THEN a ELSE b
<1>1. m \in {a, b} /\ \A y \in {a, b} : m >= y
  OBVIOUS
<1>2. \A x \in {a, b} : (\A y \in {a, b} : x >= y) => x = m
  OBVIOUS
<1>. QED
  BY <1>1, <1>2 DEF Max

(* The pieces of FormatParsed that end at i and k, and that the parser is to
   find them. *)
HostAt(i)      == SubSeq(uri, 5, i)
PortAt(i, k)   == SubSeq(uri, i + 2, k)
PathAt(i, k)   == SubSeq(uri, Max({i, k}) + 1, Len(uri))
FormatAt(i, k) == Format(HostAt(i), PortAt(i, k), PathAt(i, k))
FoundAt(i, k)  ==
  /\ StartsRight /\ Host = HostAt(i)
  /\ Port = IF PortAt(i, k) = <<>> THEN <<"80">> ELSE PortAt(i, k)
  /\ DocPath = IF PathAt(i, k) = <<>> THEN <<"/">> ELSE PathAt(i, k)

(* The pieces of a URI of the documented format are those that the parser is to
   find. *)
LEMMA FormatEnds ==
  ASSUME ParseInv, NEW i \in 4..Len(uri), NEW k \in 4..Len(uri), FormatAt(i, k)
  PROVE  FoundAt(i, k)
<1>. DEFINE L  == Len(uri)
            h  == HostAt(i)
            n  == PortAt(i, k)
            d  == PathAt(i, k)
            S  == STRING \cup {"http", ":", "/"}
            m  == Max({i, k})
            X  == Prefix \o h
            pp == IF n = <<>> THEN <<>> ELSE <<":">> \o n
<1>1. uri \in Seq(S) /\ L \in Nat /\ i \in Nat /\ k \in Nat /\ L >= 4
  <2>1. uri \in Seq(STRING) /\ L \in Nat
    BY UriIsSeq
  <2>2. STRING \subseteq S
    OBVIOUS
  <2>. HIDE DEF S
  <2>3. uri \in Seq(S)
    BY <2>1, <2>2, SeqMonotonic
  <2>. QED
    BY <2>1, <2>3
<1>2. m = IF i >= k THEN i ELSE k
  BY <1>1, MaxOfTwo
<1>3. m \in 4..L
  BY <1>1, <1>2
<1>4. "http" \in S /\ ":" \in S /\ "/" \in S
  OBVIOUS
<1>. HIDE DEF m, S, h, n, d
<1>5. /\ h \in Seq(S) /\ Len(h) = i - 4
      /\ \A j \in 1..i - 4 : h[j] = uri[j + 4]
  <2>1. \A j \in 5..i : uri[j] \in S
    BY <1>1, ElementOfSeq
  <2>. QED
    BY <1>1, <2>1, SubSeqProperties DEF h, HostAt
<1>6. /\ n \in Seq(S) /\ Len(n) = IF i + 2 <= k THEN k - i - 1 ELSE 0
      /\ \A j \in 1..k - i - 1 : n[j] = uri[j + i + 1]
  <2>1. \A j \in i + 2..k : uri[j] \in S
    BY <1>1, ElementOfSeq
  <2>. QED
    BY <1>1, <2>1, SubSeqProperties DEF n, PortAt
<1>7. /\ d \in Seq(S) /\ Len(d) = L - m
      /\ \A j \in 1..L - m : d[j] = uri[j + m]
  <2>1. m + 1 \in 1..L + 1 /\ L + 1 \in m + 1..L + 1 /\ L + 1 - 1 = L
        /\ L + 1 - (m + 1) = L - m
    BY <1>1, <1>3
  <2>2. d = SubSeq(uri, m + 1, L)
    BY DEF m, d, PathAt
  <2>3. /\ d \in Seq(S) /\ Len(d) = L - m
        /\ \A j \in 1..L - m : d[j] = uri[m + 1 + j - 1]
    BY <1>1, <2>1, <2>2, UriPiece
  <2>4. \A j \in 1..L - m : m + 1 + j - 1 = j + m
    BY <1>1, <1>3
  <2>. QED
    BY <2>3, <2>4
<1>8. /\ h # <<>> /\ {"/", ":", "nl"} \cap Range(h) = {} /\ Range(n) \subseteq Digit
      /\ d # <<>> => d[1] = "/" /\ "nl" \notin Range(d)
      /\ uri = X \o pp \o d
  BY DEF FormatAt, Format, h, n, d
(* The lengths add up, and the tokens between the pieces are in their places. *)
<1>9. /\ X \in Seq(S) /\ Len(X) = i /\ X[1] = "http" /\ X[2] = ":"
      /\ X[3] = "/" /\ X[4] = "/"
  <2>1. Prefix \in Seq(S) /\ Len(Prefix) = 4
    BY <1>4 DEF Prefix
  <2>2. /\ Prefix[1] = "http" /\ Prefix[2] = ":" /\ Prefix[3] = "/" /\ Prefix[4] = "/"
    BY DEF Prefix
  <2>3. /\ X \in Seq(S) /\ Len(X) = Len(Prefix) + Len(h)
        /\ \A j \in 1..Len(Prefix) + Len(h) :
              X[j] = IF j <= Len(Prefix) THEN Prefix[j] ELSE h[j - Len(Prefix)]
    BY <1>5, <2>1, ConcatProperties
  <2>. HIDE DEF X
  <2>4. Len(X) = i /\ \A j \in 1..4 : X[j] = Prefix[j]
    BY <1>1, <1>5, <2>1, <2>3
  <2>. QED
    BY <2>2, <2>3, <2>4
<1>10. /\ pp \in Seq(S) /\ Len(pp) = IF n = <<>> THEN 0 ELSE Len(n) + 1
       /\ n # <<>> => pp[1] = ":"
  <2>1. CASE n = <<>>
    BY <2>1
  <2>2. CASE n # <<>>
    <3>1. <<":">> \in Seq(S) /\ Len(<<":">>) = 1 /\ <<":">>[1] = ":"
      BY <1>4
    <3>2. /\ <<":">> \o n \in Seq(S) /\ Len(<<":">> \o n) = 1 + Len(n)
          /\ \A j \in 1..1 + Len(n) :
               (<<":">> \o n)[j] = IF j <= 1 THEN <<":">>[j] ELSE n[j - 1]
      BY <1>6, <3>1, ConcatProperties
    <3>3. Len(n) \in Nat
      BY <1>6, LenProperties
    <3>4. (<<":">> \o n)[1] = ":" /\ 1 + Len(n) = Len(n) + 1
      BY <3>1, <3>2, <3>3
    <3>. QED
      BY <2>2, <3>2, <3>4
  <2>. QED
    BY <2>1, <2>2
<1>. HIDE DEF X, pp
<1>11. /\ L = i + Len(pp) + (L - m) /\ StartsRight
       /\ n # <<>> => uri[i + 1] = ":"
  <2>1. /\ X \o pp \in Seq(S) /\ Len(X \o pp) = i + Len(pp)
        /\ \A j \in 1..i + Len(pp) : (X \o pp)[j] = IF j <= i THEN X[j] ELSE pp[j - i]
    BY <1>9, <1>10, ConcatProperties
  <2>2. /\ L = i + Len(pp) + (L - m)
        /\ \A j \in 1..i + Len(pp) : uri[j] = (X \o pp)[j]
    <3>1. /\ L = Len(X \o pp) + Len(d)
          /\ \A j \in 1..Len(X \o pp) + Len(d) : uri[j] =
               IF j <= Len(X \o pp) THEN (X \o pp)[j] ELSE d[j - Len(X \o pp)]
      BY <1>7, <1>8, <2>1, ConcatProperties
    <3>2. Len(pp) \in Nat /\ Len(d) \in Nat
      BY <1>7, <1>10, LenProperties
    <3>. QED
      BY <1>1, <1>7, <2>1, <3>1, <3>2
  <2>3. Len(pp) \in Nat /\ (n # <<>> => Len(pp) >= 1)
    BY <1>6, <1>10, LenProperties
  <2>4. \A j \in 1..4 : uri[j] = X[j]
    BY <1>1, <2>1, <2>2, <2>3
  <2>5. StartsRight
    BY <1>1, <1>9, <2>4 DEF StartsRight
  <2>6. n # <<>> => uri[i + 1] = pp[1]
    BY <1>1, <2>1, <2>2, <2>3
  <2>. QED
    BY <1>10, <2>2, <2>5, <2>6
<1>12. (n = <<>> => m = i) /\ (n # <<>> => m = k /\ k >= i + 2)
  <2>1. n = <<>> => Len(n) = 0 /\ Len(pp) = 0
    BY <1>10
  <2>2. n # <<>> => Len(n) # 0
    BY <1>6, EmptySeq
  <2>. QED
    BY <1>1, <1>2, <1>6, <1>11, <2>1, <2>2
<1>13. i >= 5 /\ \A j \in 5..i : uri[j] \notin {"/", ":", "nl"}
  <2>1. Len(h) # 0
    BY <1>5, <1>8, EmptySeq
  <2>2. \A j \in 5..i : j - 4 \in 1..i - 4 /\ h[j - 4] = uri[j]
    BY <1>1, <1>5
  <2>3. \A j \in 1..i - 4 : h[j] \in Range(h)
    BY <1>5 DEF Range
  <2>4. i >= 5
    BY <1>1, <1>5, <2>1
  <2>5. \A x \in Range(h) : x \notin {"/", ":", "nl"}
    BY <1>8
  <2>6. \A j \in 5..i : uri[j] \in Range(h)
    BY <2>2, <2>3
  <2>. QED
    BY <2>4, <2>5, <2>6
<1>14. /\ m < L <=> d # <<>>
       /\ m < L => uri[m + 1] = "/"
       /\ \A j \in m + 1..L : uri[j] # "nl"
  <2>1. d # <<>> <=> Len(d) # 0
    BY <1>7, EmptySeq
  <2>2. m < L <=> d # <<>>
    BY <1>1, <1>3, <1>7, <2>1
  <2>3. m < L => uri[m + 1] = "/"
    BY <1>1, <1>3, <1>7, <1>8, <2>2
  <2>4. \A j \in 1..L - m : d[j] \in Range(d)
    BY <1>7 DEF Range
  <2>5. \A j \in m + 1..L : j - m \in 1..L - m /\ d[j - m] = uri[j]
    BY <1>1, <1>3, <1>7
  <2>6. ASSUME NEW j \in m + 1..L  PROVE uri[j] # "nl"
    <3>1. m < L
      BY <1>1, <1>3
    <3>2. "nl" \notin Range(d)
      BY <1>8, <2>2, <3>1
    <3>. QED
      BY <2>4, <2>5, <3>2
  <2>. QED
    BY <2>2, <2>3, <2>6
<1>15. HostEnd = i + 1
  <2>1. 5 \in 1..L + 1 /\ i + 1 \in 5..L + 1 /\ i + 1 - 1 = i
    BY <1>1, <1>13
  <2>2. i + 1 <= L => uri[i + 1] \in {"/", ":", "nl"}
    BY <1>1, <1>11, <1>12, <1>14
  <2>. QED
    BY <1>1, <1>13, <2>1, <2>2, FirstIs DEF HostEnd
<1>16. Host = h
  BY <1>1, <1>15 DEF Host, h, HostAt
<1>17. PortEnd = m + 1 /\ Port = IF n = <<>> THEN <<"80">> ELSE n
  <2>1. CASE n = <<>>
    <3>1. ~HasPort
      BY <1>1, <1>12, <1>14, <1>15, <2>1 DEF HasPort
    <3>. QED
      BY <1>12, <1>15, <2>1, <3>1 DEF PortEnd, Port
  <2>2. CASE n # <<>>
    <3>1. HasPort
      BY <1>1, <1>11, <1>12, <1>15, <2>2 DEF HasPort
    <3>2. \A j \in i + 2..k : j - i - 1 \in 1..k - i - 1 /\ n[j - i - 1] = uri[j]
      BY <1>1, <1>6
    <3>3. \A j \in 1..k - i - 1 : n[j] \in Range(n)
      BY <1>1, <1>6, <1>12, <2>2 DEF Range
    <3>4. \A j \in i + 2..k : uri[j] \in Digit
      BY <1>8, <3>2, <3>3
    <3>5. k + 1 <= L => uri[k + 1] \in {t \in Range(uri) : t \notin Digit}
      <4>1. k + 1 <= L => uri[k + 1] = "/" /\ uri[k + 1] \in Range(uri)
        <5>1. \A j \in 1..L : uri[j] \in Range(uri)
          BY <1>1 DEF Range
        <5>. QED
          BY <1>1, <1>12, <1>14, <2>2, <5>1
      <4>. QED
        BY <4>1, RequestAssumption
    <3>6. i + 2 \in 1..L + 1 /\ k + 1 \in i + 2..L + 1 /\ k + 1 - 1 = k /\ i + 1 + 1 = i + 2
      BY <1>1, <1>12, <2>2
    <3>7. First({t \in Range(uri) : t \notin Digit}, i + 2) = k + 1
      <4>. DEFINE C == {t \in Range(uri) : t \notin Digit}
      <4>1. \A j \in i + 2..k + 1 - 1 : uri[j] \notin C
        BY <3>4, <3>6
      <4>2. k + 1 <= L => uri[k + 1] \in C
        BY <3>5
      <4>. HIDE DEF C
      <4>3. First(C, i + 2) = k + 1
        BY <1>1, <3>6, <4>1, <4>2, FirstIs
      <4>. QED
        BY <4>3 DEF C
    <3>. QED
      <4>1. PortEnd = k + 1
        BY <1>15, <3>1, <3>6, <3>7 DEF PortEnd
      <4>2. n = SubSeq(uri, i + 2, k)
        BY DEF n, PortAt
      <4>3. Port = SubSeq(uri, i + 2, k)
        BY <1>15, <3>1, <3>6, <4>1 DEF Port
      <4>. QED
        BY <1>12, <2>2, <4>1, <4>2, <4>3
  <2>. QED
    BY <2>1, <2>2
<1>18. DocPath = IF d = <<>> THEN <<"/">> ELSE d
  <2>1. CASE d = <<>>
    BY <1>1, <1>3, <1>14, <1>17, <2>1 DEF DocPath, HasPath
  <2>2. CASE d # <<>>
    <3>1. HasPath
      BY <1>1, <1>3, <1>14, <1>17, <2>2 DEF HasPath
    <3>2. m + 1 \in 1..L + 1 /\ L + 1 \in m + 1..L + 1 /\ L + 1 - 1 = L /\ ~(L + 1 <= L)
      BY <1>1, <1>3
    <3>3. First({"nl"}, m + 1) = L + 1
      BY <1>1, <1>14, <3>2, FirstIs
    <3>. QED
      <4>1. d = SubSeq(uri, m + 1, L)
        BY DEF m, d, PathAt
      <4>2. DocPath = SubSeq(uri, m + 1, L)
        BY <1>17, <3>1, <3>2, <3>3 DEF DocPath, PathEnd
      <4>. QED
        BY <2>2, <4>1, <4>2
  <2>. QED
    BY <2>1, <2>2
<1>. QED
  BY <1>11, <1>16, <1>17, <1>18 DEF FoundAt, h, n, d

(* A request with a URI of the documented format is accepted with the parts it
   is made of, for any URIs, digits and contents of the stack
   (proxy-module.c:202-277). *)
THEOREM FormatAccepted == Spec => []FormatParsed
<1>1. ParseInv => FormatParsed
  <2>. SUFFICES ASSUME ParseInv, Over, Valid, NEW i \in 4..Len(uri), NEW k \in 4..Len(uri),
                       FormatAt(i, k)
                PROVE  /\ Accepted /\ host = HostAt(i)
                       /\ port = IF PortAt(i, k) = <<>> THEN <<"80">> ELSE PortAt(i, k)
                       /\ path = IF PathAt(i, k) = <<>> THEN <<"/">> ELSE PathAt(i, k)
    BY DEF FormatParsed, FormatAt, HostAt, PortAt, PathAt
  <2>1. FoundAt(i, k)
    BY FormatEnds
  <2>2. Accepted
    BY <2>1 DEF ParseInv, Over, FoundAt
  <2>. QED
    BY <2>1, <2>2 DEF ParseInv, FoundAt
<1>. QED
  BY <1>1, Parsed, PTL
=======================================================================
