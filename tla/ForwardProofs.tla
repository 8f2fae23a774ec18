-------------------------- MODULE ForwardProofs --------------------------
(***************************************************************************)
(* The transfer of a response, for any bytes, sizes of the buffers and the *)
(* cached object, and ways in which the connection to the server ends.     *)
(***************************************************************************)
EXTENDS Forward, SequenceTheorems, DataLemmas

Char == Byte \cup {"NUL"}

(* Bytes that were taken from the server and not given to nio_writen yet. *)
Taken == IF pc \in {"readline", "return"} THEN line ELSE <<>>

-----------------------------------------------------------------------
(* What Framed returns.  It is defined by a recursive function of the length,
   which exists, by induction. *)
Start == [text |-> <<>>, col |-> 0]

Places(s, m, g) == g = [i \in 0..m |-> IF i = 0 THEN Start ELSE Place(g[i - 1], s[i])]

LEMMA PlacesStep ==
  ASSUME NEW s, NEW m \in Nat, NEW g, Places(s, m, g)
  PROVE  /\ g[0] = Start
         /\ \A i \in 0..m - 1 :
              g[i + 1] = Place(g[i], s[i + 1])
<1>. DEFINE e(i) == IF i = 0 THEN Start ELSE Place(g[i - 1], s[i])
<1>1. g = [i \in 0..m |-> e(i)]
  BY DEF Places
<1>. HIDE DEF e
<1>2. \A i \in 0..m : g[i] = e(i)
  BY <1>1
<1>3. g[0] = e(0) /\ \A i \in 0..m - 1 : g[i + 1] = e(i + 1)
  BY <1>2
<1>4. \A i \in 0..m - 1 : i + 1 # 0 /\ i + 1 - 1 = i
  OBVIOUS
<1>. QED
  BY <1>3, <1>4 DEF e

LEMMA PlacesExist ==
  ASSUME NEW s, NEW m \in Nat  PROVE \E g : Places(s, m, g)
<1>. DEFINE P == {k \in Nat : \E g : Places(s, k, g)}
<1>1. 0 \in P
  <2>1. Places(s, 0, [i \in 0..0 |-> Start])
    BY DEF Places
  <2>. QED
    BY <2>1
<1>2. ASSUME NEW k \in Nat, k \in P  PROVE k + 1 \in P
  <2>1. PICK g : Places(s, k, g)
    BY <1>2
  <2>. DEFINE last == Place(g[k], s[k + 1])
              h    == [i \in 0..k + 1 |-> IF i = k + 1 THEN last ELSE g[i]]
  <2>2. \A i \in 0..k : h[i] = g[i]
    OBVIOUS
  <2>3. \A i \in 0..k + 1 : h[i] = IF i = 0 THEN Start ELSE Place(h[i - 1], s[i])
    <3>1. \A i \in 1..k : g[i] = Place(g[i - 1], s[i])
      <4>1. \A i \in 1..k : i - 1 \in 0..k - 1 /\ i - 1 + 1 = i
        OBVIOUS
      <4>2. \A i \in 0..k - 1 :
              g[i + 1] = Place(g[i], s[i + 1])
        BY <2>1, PlacesStep
      <4>. QED
        BY <4>1, <4>2
    <3>2. g[0] = Start
      BY <2>1, PlacesStep
    <3>3. h[k + 1] = last /\ h[k] = g[k] /\ h[0] = g[0]
      OBVIOUS
    <3>4. \A i \in 1..k : h[i] = g[i] /\ h[i - 1] = g[i - 1]
      OBVIOUS
    <3>. HIDE DEF h
    <3>5. k + 1 - 1 = k /\ h[k + 1] = Place(h[k], s[k + 1])
      BY <3>3
    <3>. TAKE i \in 0..k + 1
    <3>6. i = 0 \/ i = k + 1 \/ i \in 1..k
      OBVIOUS
    <3>. QED
      BY <3>1, <3>2, <3>3, <3>4, <3>5, <3>6
  <2>4. Places(s, k + 1, h)
    <3>1. h = [i \in 0..k + 1 |-> h[i]]
      OBVIOUS
    <3>. HIDE DEF h
    <3>. QED
      BY <2>3, <3>1 DEF Places
  <2>. QED
    BY <2>4
<1>3. P = Nat
  <2>. HIDE DEF P
  <2>1. P \in SUBSET Nat
    BY DEF P
  <2>. QED
    BY <1>1, <1>2, <2>1, InductionOverNat
<1>. QED
  BY <1>3

(* Framed, one byte at a time. *)
LEMMA FramedIs ==
  ASSUME NEW s, Len(s) \in Nat
  PROVE  \E g : Places(s, Len(s), g) /\ Framed(s) = g[Len(s)]
<1>. DEFINE g == CHOOSE h : Places(s, Len(s), h)
<1>1. Places(s, Len(s), g)
  BY PlacesExist
<1>2. Framed(s) = g[Len(s)]
  BY DEF Framed, Places, Start
<1>. QED
  BY <1>1, <1>2

LEMMA FramedEmpty == Framed(<<>>) = Start
<1>1. Len(<<>>) = 0
  OBVIOUS
<1>2. PICK g : Places(<<>>, 0, g) /\ Framed(<<>>) = g[0]
  BY <1>1, FramedIs
<1>. QED
  BY <1>2 DEF Places

LEMMA FramedAppend ==
  ASSUME NEW S, NEW s \in Seq(S), NEW x \in S
  PROVE  Framed(Append(s, x)) = Place(Framed(s), x)
<1>. DEFINE t == Append(s, x)
            L == Len(s)
<1>1. L \in Nat /\ Len(t) = L + 1 /\ t[L + 1] = x /\ \A i \in 1..L : t[i] = s[i]
  BY AppendProperties, LenProperties
<1>2. PICK g : Places(s, L, g) /\ Framed(s) = g[L]
  BY <1>1, FramedIs
<1>. HIDE DEF t, L
<1>3. PICK h : Places(t, L + 1, h) /\ Framed(t) = h[L + 1]
  BY <1>1, FramedIs
<1>. DEFINE P == {k \in Nat : k <= L => h[k] = g[k]}
<1>4. 0 \in P
  BY <1>1, <1>2, <1>3, PlacesStep
<1>5. ASSUME NEW k \in Nat, k \in P  PROVE k + 1 \in P
  <2>. SUFFICES ASSUME k + 1 <= L  PROVE h[k + 1] = g[k + 1]
    OBVIOUS
  <2>1. h[k] = g[k] /\ k \in 0..L - 1 /\ k \in 0..L + 1 - 1
    BY <1>1, <1>5
  <2>2. g[k + 1] = Place(g[k], s[k + 1])
    BY <1>1, <1>2, <2>1, PlacesStep
  <2>3. h[k + 1] = Place(h[k], t[k + 1])
    BY <1>1, <1>3, <2>1, PlacesStep
  <2>4. t[k + 1] = s[k + 1]
    BY <1>1, <2>1
  <2>. QED
    BY <2>1, <2>2, <2>3, <2>4
<1>6. h[L] = g[L]
  <2>. HIDE DEF P
  <2>1. P \in SUBSET Nat
    BY DEF P
  <2>2. P = Nat
    BY <1>4, <1>5, <2>1, InductionOverNat
  <2>3. L \in P
    BY <1>1, <2>2
  <2>. QED
    BY <1>1, <2>3 DEF P
<1>7. L + 1 \in Nat /\ L \in 0..L + 1 - 1
  BY <1>1
<1>8. h[L + 1] = Place(h[L], t[L + 1])
  BY <1>1, <1>3, <1>7, PlacesStep
<1>. QED
  BY <1>1, <1>2, <1>3, <1>6, <1>8 DEF t

LEMMA FramedType ==
  ASSUME NEW s \in Seq(Char)
  PROVE  Framed(s).text \in Seq(Char) /\ Framed(s).col \in 0..MAXLINE - 2
<1>. DEFINE Ok(f) == f.text \in Seq(Char) /\ f.col \in 0..MAXLINE - 2
            P == {t \in Seq(Char) : Ok(Framed(t))}
<1>1. <<>> \in P
  <2>1. Ok(Start)
    BY EmptySeq, ForwardAssumption DEF Start
  <2>. HIDE DEF Ok
  <2>. QED
    BY <2>1, FramedEmpty, EmptySeq
<1>2. ASSUME NEW t \in P, NEW x \in Char  PROVE Append(t, x) \in P
  <2>1. Framed(Append(t, x)) = Place(Framed(t), x) /\ Append(t, x) \in Seq(Char)
    BY FramedAppend, AppendProperties
  <2>2. ASSUME NEW f, Ok(f)  PROVE Ok(Place(f, x))
    <3>1. Append(f.text, x) \in Seq(Char) /\ Append(Append(f.text, x), "NUL") \in Seq(Char)
      <4>1. "NUL" \in Char
        BY DEF Char
      <4>. QED
        BY <2>2, <4>1, AppendProperties
    <3>2. f.col # MAXLINE - 2 => f.col + 1 \in 0..MAXLINE - 2
      BY <2>2, ForwardAssumption
    <3>3. 0 \in 0..MAXLINE - 2
      BY ForwardAssumption
    <3>. QED
      BY <3>1, <3>2, <3>3 DEF Place
  <2>. HIDE DEF Ok
  <2>. QED
    BY <2>1, <2>2
<1>. HIDE DEF P
<1>3. P = Seq(Char)
  <2>1. P \in SUBSET Seq(Char)
    BY DEF P
  <2>. QED
    BY <1>1, <1>2, <2>1, InductionOverSeq
<1>. QED
  BY <1>3 DEF P

(* A text without a long line is not changed, and col says how many bytes its
   last line has. *)
Short(s, f) ==
  /\ f.text = s /\ f.col \in 0..Len(s) /\ (f.col = 0 <=> WholeLines(s))
  /\ \A j \in 1..Len(s) : j > Len(s) - f.col => s[j] # "nl"

LEMMA FramedShort ==
  ASSUME NEW s \in Seq(Char), ~LongLine(s)  PROVE Short(s, Framed(s))
<1>. DEFINE P == {t \in Seq(Char) : ~LongLine(t) => Short(t, Framed(t))}
<1>1. <<>> \in P
  <2>1. <<>> \in Seq(Char) /\ Len(<<>>) = 0
    BY EmptySeq
  <2>2. Short(<<>>, Start)
    BY <2>1 DEF Short, Start, WholeLines
  <2>. QED
    BY <2>1, <2>2, FramedEmpty, Zenon
<1>2. ASSUME NEW t \in P, NEW x \in Char  PROVE Append(t, x) \in P
  <2>. DEFINE u == Append(t, x)
              k == Len(t)
              f == Framed(t)
  <2>1. /\ u \in Seq(Char) /\ Len(u) = k + 1 /\ k \in Nat /\ u # <<>> /\ Last(u) = x
        /\ u[k + 1] = x /\ \A i \in 1..k : u[i] = t[i]
    BY AppendProperties, LenProperties, EmptySeq DEF Last
  <2>2. Framed(u) = Place(f, x) /\ f.col \in 0..MAXLINE - 2
    BY FramedAppend, FramedType
  <2>. HIDE DEF u, f
  <2>. SUFFICES ASSUME ~LongLine(u)  PROVE Short(u, Framed(u))
    BY <2>1 DEF u
  <2>3. ~LongLine(t)
    <3>. SUFFICES ASSUME NEW i \in 1..k - (MAXLINE - 2),
                         \A j \in i..i + MAXLINE - 2 : t[j] # "nl"
                  PROVE  FALSE
      BY DEF LongLine
    <3>1. i \in 1..Len(u) - (MAXLINE - 2)
      BY <2>1, ForwardAssumption
    <3>2. \A j \in i..i + MAXLINE - 2 : j \in 1..k
      BY <2>1, ForwardAssumption
    <3>. QED
      BY <2>1, <3>1, <3>2 DEF LongLine
  <2>4. Short(t, f)
    BY <2>3 DEF f
  <2>. HIDE DEF k
  <2>5. /\ f.text = t /\ f.col \in 0..k
        /\ \A j \in 1..k : j > k - f.col => t[j] # "nl"
    BY <2>4 DEF Short, k
  <2>6. Append(f.text, x) = u
    BY <2>5 DEF u
  <2>7. WholeLines(u) <=> x = "nl"
    BY <2>1 DEF WholeLines
  <2>8. CASE x = "nl"
    <3>1. Framed(u).text = u /\ Framed(u).col = 0
      BY <2>2, <2>6, <2>8 DEF Place
    <3>. QED
      BY <2>1, <2>7, <2>8, <3>1 DEF Short
  <2>9. CASE x # "nl"
    <3>1. \A j \in 1..k + 1 : j > k - f.col => u[j] # "nl"
      BY <2>1, <2>5, <2>9
    <3>2. f.col # MAXLINE - 2
      <4>. SUFFICES ASSUME f.col = MAXLINE - 2  PROVE FALSE
        OBVIOUS
      <4>. DEFINE i == k - f.col + 1
      <4>1. i \in 1..Len(u) - (MAXLINE - 2)
        BY <2>1, <2>5, ForwardAssumption
      <4>2. \A j \in i..i + MAXLINE - 2 : j \in 1..k + 1 /\ j > k - f.col
        BY <2>1, <2>5, ForwardAssumption
      <4>. HIDE DEF i
      <4>. QED
        BY <3>1, <4>1, <4>2 DEF LongLine
    <3>3. Framed(u).text = u /\ Framed(u).col = f.col + 1
      BY <2>2, <2>6, <2>9, <3>2 DEF Place
    <3>4. f.col + 1 \in 0..Len(u) /\ f.col + 1 # 0 /\ Len(u) - (f.col + 1) = k - f.col
      <4>. DEFINE c == f.col
      <4>1. c \in 0..k
        BY <2>5
      <4>. HIDE DEF c
      <4>2. c + 1 \in 0..k + 1 /\ c + 1 # 0 /\ k + 1 - (c + 1) = k - c
        BY <2>1, <4>1
      <4>3. c + 1 \in 0..Len(u) /\ Len(u) - (c + 1) = k - c
        BY <2>1, <4>2
      <4>. QED
        BY <4>2, <4>3 DEF c
    <3>. QED
      BY <2>1, <2>7, <2>9, <3>1, <3>3, <3>4 DEF Short
  <2>. QED
    BY <2>8, <2>9
<1>. HIDE DEF P
<1>3. P = Seq(Char)
  <2>1. P \in SUBSET Seq(Char)
    BY DEF P
  <2>. QED
    BY <1>1, <1>2, <2>1, InductionOverSeq
<1>. QED
  BY <1>3 DEF P

-----------------------------------------------------------------------
(* The inductive invariant.  Types, with the values of the sequences: *)
Types ==
  /\ response \in Seq(Byte) /\ Len(response) <= MaxResponse
  /\ unread \in Seq(Byte) /\ nio_buf \in Seq(Byte) /\ line \in Seq(Byte)
  /\ relayed \in Seq(Char) /\ payload \in Seq(Char \cup {"any"})
  /\ pc # "crashed" => payload \in Seq(Char)
  /\ rest \in Seq(Char) /\ client \in Seq(Char)
  /\ clientUp \in BOOLEAN /\ ending \in {"eof", "reset", "error", "failed"}
  /\ TypeOK

Exhausted ==
  unread = <<>> /\ nio_buf = <<>> /\ ending \in {"eof", "reset", "failed"}

NoNewline(s) == \A j \in 1..Len(s) : s[j] # "nl"

(* n counts the terminator of a line that has no newline, and such a line is
   returned only if it fills the buffer or nothing comes behind it. *)
LineInv ==
  /\ pc = "readline" => n = Len(line) + 1 /\ NoNewline(line)
  /\ pc = "return" =>
       /\ line # <<>>
       /\ \/ /\ n = Len(line) + 1 /\ NoNewline(line)
             /\ n = MAXLINE \/ Exhausted
          \/ /\ n = Len(line) /\ line[n] = "nl"
             /\ \A j \in 1..n - 1 : line[j] # "nl"
  /\ pc \in {"done", "new_node", "end"} => Exhausted
  /\ ending = "failed" => /\ unread = <<>> /\ nio_buf = <<>> /\ line = <<>>
                          /\ pc \in {"readline", "done", "end", "crashed"}

(* sum has the size of what was relayed, and until it exceeds the limit payload
   has the bytes.  It does not overflow: a line has a byte for its NUL. *)
SumInv ==
  /\ ending # "failed" =>
       sum = Len(relayed) /\ (sum <= MaxObjectSize => payload = relayed)
  /\ ending = "failed" /\ pc # "crashed" => sum > MaxObjectSize
  /\ pc # "crashed" => Len(payload) <= MaxObjectSize
  /\ pc = "crashed" => ending = "failed"
  /\ Len(relayed) + 2 * (Len(Taken) + Len(nio_buf) + Len(unread)) <= 2 * Len(response)

(* The response is what nio_read has handed out, what is on its way, and what a
   reset or an error has cut off. *)
FlowInv ==
  /\ got \in Seq(Byte)
  /\ \E tail \in Seq(Byte) :
       /\ got \o nio_buf \o unread \o tail = response
       /\ ending = "eof" \/ unread # <<>> => tail = <<>>

(* While a line is read, what was relayed and the line are the text so far, *)
Current == IF n = MAXLINE THEN line \o <<"NUL">> ELSE line

Open(f) ==
  /\ pc \in {"readline", "return"}
  /\ relayed \o Current = f.text
  /\ f.col = IF n = MAXLINE \/ n = Len(line) THEN 0 ELSE Len(line)

(* and once it was relayed it is closed, which only the last line is by force. *)
Flushed(f) == Taken = <<>> /\ relayed = Closed(f) /\ (f.col # 0 => Exhausted)

FrameInv ==
  /\ ending # "failed" => Open(Framed(got)) \/ Flushed(Framed(got))
  /\ ending = "failed" => \E more \in Seq(Char) : relayed \o more = Closed(Framed(got))

DeliveryInv ==
  /\ pc # "writen" => rest = <<>>
  /\ \E lost \in Seq(Char) : client \o lost = relayed /\ (clientUp => lost = rest)

CacheInv ==
  /\ pc \notin {"new_node", "end"} => cached = None
  /\ pc # "end" => block = NoBlock
  /\ cached # None => cached = relayed /\ ending \in {"eof", "reset"}
  /\ pc = "new_node" =>
       /\ cached = relayed /\ payload = relayed /\ sum = Len(relayed)
       /\ sum < MaxObjectSize /\ ending \in {"eof", "reset"}
  /\ BlockFits

IInv == Types /\ LineInv /\ SumInv /\ FlowInv /\ FrameInv /\ DeliveryInv /\ CacheInv

-----------------------------------------------------------------------
LEMMA ConcatPrefix ==
  ASSUME NEW S, NEW s \in Seq(S), NEW t \in Seq(S)  PROVE IsPrefix(s, s \o t)
<1>1. /\ Len(s) \in Nat /\ Len(t) \in Nat /\ Len(s \o t) = Len(s) + Len(t)
      /\ s \o t \in Seq(S)
  BY LenProperties, ConcatProperties
<1>2. SubSeq(s, 1, Len(s)) = s
  BY SubSeqFull
<1>3. SubSeq(s \o t, 1, Len(s)) = s
  <2>1. CASE Len(s) = 0
    <3>1. s = <<>>
      BY <2>1, EmptySeq
    <3>2. SubSeq(s \o t, 1, 0) = <<>>
      BY SubSeqEmpty
    <3>. QED
      BY <2>1, <3>1, <3>2
  <2>2. CASE Len(s) # 0
    <3>1. 1 \in 1..Len(s) /\ Len(s) \in 1..Len(s)
      BY <1>1, <2>2
    <3>. QED
      BY <1>2, <3>1, SubSeqOfConcat1
  <2>. QED
    BY <2>1, <2>2
<1>4. Len(s) <= Len(s \o t)
  BY <1>1
<1>. QED
  BY <1>2, <1>3, <1>4, Zenon DEF IsPrefix

LEMMA Modulo ==
  ASSUME NEW m \in Int
  PROVE  /\ m % (SizeMax + 1) \in 0..SizeMax
         /\ m \in 0..SizeMax => m % (SizeMax + 1) = m
  BY ForwardAssumption

(* What Relay takes from forwardbuf. *)
Chunk == SubSeq(line \o <<"NUL">>, 1, n)

LEMMA ChunkIs ==
  ASSUME Types, LineInv, pc = "return"
  PROVE  /\ Chunk \in Seq(Char) /\ Len(Chunk) = n /\ Len(line) \in Nat \ {0}
         /\ \/ n = Len(line) + 1 /\ Chunk = line \o <<"NUL">>
            \/ n = Len(line) /\ Chunk = line
<1>1. /\ line \in Seq(Char) /\ <<"NUL">> \in Seq(Char) /\ Len(<<"NUL">>) = 1
      /\ line # <<>> /\ Len(line) \in Nat \ {0}
  <2>1. Byte \subseteq Char /\ "NUL" \in Char
    BY DEF Char
  <2>2. line \in Seq(Char) /\ line # <<>>
    BY <2>1, SeqMonotonic DEF Types, LineInv
  <2>. QED
    BY <2>1, <2>2, EmptySeq
<1>2. line \o <<"NUL">> \in Seq(Char) /\ Len(line \o <<"NUL">>) = Len(line) + 1
  BY <1>1, ConcatProperties
<1>3. CASE n = Len(line) + 1
  <2>1. Chunk = line \o <<"NUL">>
    BY <1>2, <1>3, SubSeqFull DEF Chunk
  <2>. QED
    BY <1>1, <1>2, <1>3, <2>1
<1>4. CASE n = Len(line)
  <2>1. 1 \in 1..Len(line) /\ n \in 1..Len(line)
    BY <1>1, <1>4
  <2>2. Chunk = SubSeq(line, 1, n)
    BY <1>1, <2>1, SubSeqOfConcat1 DEF Chunk
  <2>3. Chunk = line
    BY <1>1, <1>4, <2>2, SubSeqFull
  <2>. QED
    BY <1>1, <1>4, <2>3
<1>. QED
  BY <1>3, <1>4 DEF LineInv

LEMMA TypesInit == Init => Types /\ LineInv /\ SumInv
<1>. SUFFICES ASSUME Init  PROVE Types /\ LineInv /\ SumInv
  OBVIOUS
<1>1. response \in Seq(Byte) /\ Len(response) \in Nat /\ Len(response) <= MaxResponse
  <2>1. PICK m \in 0..MaxResponse : response \in [1..m -> Byte]
    BY DEF Init, SeqOf
  <2>2. m \in Nat
    BY <2>1, ForwardAssumption
  <2>. QED
    BY <2>1, <2>2, ForwardAssumption
<1>2. <<>> \in Seq(Byte) /\ <<>> \in Seq(Char) /\ Len(<<>>) = 0
  BY EmptySeq
<1>3. Types
  BY <1>1, <1>2, ForwardAssumption DEF Init, Types, TypeOK
<1>4. LineInv
  BY <1>2, ForwardAssumption DEF Init, LineInv, NoNewline
<1>5. SumInv
  BY <1>1, <1>2, ForwardAssumption DEF Init, SumInv, Taken
<1>. QED
  BY <1>3, <1>4, <1>5

(* These three parts are inductive by themselves. *)
Core == Types /\ LineInv /\ SumInv

LEMMA Lengths ==
  ASSUME Types
  PROVE  /\ Len(response) \in Nat /\ Len(unread) \in Nat /\ Len(nio_buf) \in Nat
         /\ Len(line) \in Nat /\ Len(relayed) \in Nat /\ Len(payload) \in Nat
         /\ Len(rest) \in Nat /\ Len(client) \in Nat /\ Len(<<>>) = 0
         /\ n \in Nat /\ sum \in Nat
  BY LenProperties, ForwardAssumption, EmptySeq DEF Types, TypeOK

LEMMA CoreRefill == Core /\ Refill => Core'
<1>. SUFFICES ASSUME Types, LineInv, SumInv, Refill  PROVE Types' /\ LineInv' /\ SumInv'
  BY DEF Core
<1>1. PICK k \in 1..NIO_BUFSIZE : /\ k <= Len(unread) /\ nio_buf' = SubSeq(unread, 1, k)
                                 /\ unread' = SubSeq(unread, k + 1, Len(unread))
  BY DEF Refill
<1>2. /\ pc = "readline" /\ nio_buf = <<>>
      /\ UNCHANGED <<response, ending, line, n, sum, payload, rest, relayed,
                     client, clientUp, cached, block, pc>>
  BY DEF Refill
<1>3. /\ nio_buf' \in Seq(Byte) /\ Len(nio_buf') = k
      /\ unread' \in Seq(Byte) /\ Len(unread') = Len(unread) - k
      /\ unread # <<>>
  <2>1. unread \in Seq(Byte) /\ k \in 1..Len(unread) /\ unread # <<>>
    BY <1>1, Lengths DEF Types
  <2>. QED
    BY <1>1, <2>1, Split
<1>4. Types'
  BY <1>1, <1>2, <1>3, Lengths DEF Types, TypeOK
<1>5. LineInv'
  BY <1>2, <1>3 DEF LineInv, NoNewline, Exhausted
<1>6. SumInv'
  <2>1. Len(nio_buf) = 0 /\ Taken' = Taken
    BY <1>2, Lengths DEF Taken
  <2>2. Len(nio_buf') + Len(unread') = Len(nio_buf) + Len(unread)
    BY <1>3, <2>1, Lengths
  <2>3. Len(Taken) \in Nat
    BY Lengths DEF Taken
  <2>4. Len(Taken') + Len(nio_buf') + Len(unread') = Len(Taken) + Len(nio_buf) + Len(unread)
    BY <1>3, <2>1, <2>2, <2>3, Lengths
  <2>. QED
    BY <1>2, <2>4 DEF SumInv
<1>. QED
  BY <1>4, <1>5, <1>6

LEMMA CoreReset == Core /\ Reset => Core'
<1>. SUFFICES ASSUME Types, LineInv, SumInv, Reset  PROVE Types' /\ LineInv' /\ SumInv'
  BY DEF Core
<1>. USE DEF Reset
<1>1. Types'
  BY EmptySeq DEF Types, TypeOK
<1>2. LineInv'
  BY DEF LineInv, NoNewline, Exhausted
<1>3. SumInv'
  BY Lengths DEF SumInv, Taken
<1>. QED
  BY <1>1, <1>2, <1>3

LEMMA CoreTakeByte == Core /\ TakeByte => Core'
<1>. SUFFICES ASSUME Types, LineInv, SumInv, TakeByte  PROVE Types' /\ LineInv' /\ SumInv'
  BY DEF Core
<1>. DEFINE x == Head(nio_buf)
<1>1. /\ pc = "readline" /\ n < MAXLINE /\ nio_buf # <<>>
      /\ line' = Append(line, x) /\ nio_buf' = Tail(nio_buf)
      /\ UNCHANGED <<response, ending, unread, sum, payload, rest, relayed,
                     client, clientUp, cached, block>>
      /\ IF x = "nl" THEN pc' = "return" /\ n' = n ELSE pc' = pc /\ n' = n + 1
  BY DEF TakeByte
<1>2. /\ x \in Byte /\ nio_buf' \in Seq(Byte) /\ Len(nio_buf') = Len(nio_buf) - 1
      /\ Len(nio_buf) >= 1
  <2>1. nio_buf \in Seq(Byte) /\ Len(nio_buf) \in Nat \ {0}
    BY <1>1, EmptySeq DEF Types
  <2>. QED
    BY <1>1, <2>1, HeadTailProperties
<1>. HIDE DEF x
<1>3. /\ line' \in Seq(Byte) /\ line' # <<>> /\ Len(line') = Len(line) + 1
      /\ \A j \in 1..Len(line) : line'[j] = line[j]
      /\ line'[Len(line) + 1] = x
  <2>1. line \in Seq(Byte)
    BY DEF Types
  <2>2. line' = Append(line, x)
    BY <1>1
  <2>. QED
    BY <1>2, <2>1, <2>2, AppendProperties
<1>4. n = Len(line) + 1 /\ (\A j \in 1..Len(line) : line[j] # "nl") /\ ending # "failed"
  BY <1>1 DEF LineInv, NoNewline
<1>5. Types'
  BY <1>1, <1>2, <1>3, <1>4, Lengths, ForwardAssumption DEF Types, TypeOK
<1>6. LineInv'
  <2>1. CASE x = "nl"
    BY <1>1, <1>3, <1>4, <2>1, Lengths DEF LineInv, NoNewline
  <2>2. CASE x # "nl"
    <3>1. \A j \in 1..Len(line') : line'[j] # "nl"
      BY <1>3, <1>4, <2>2, Lengths
    <3>. QED
      BY <1>1, <1>3, <1>4, <2>2, <3>1, Lengths DEF LineInv, NoNewline
  <2>. QED
    BY <2>1, <2>2
<1>7. SumInv'
  <2>1. Taken = line /\ Taken' = line'
    BY <1>1 DEF Taken
  <2>2. Len(Taken') + Len(nio_buf') + Len(unread') = Len(Taken) + Len(nio_buf) + Len(unread)
    BY <1>1, <1>2, <1>3, <2>1, Lengths
  <2>. QED
    BY <1>1, <1>4, <2>2 DEF SumInv
<1>. QED
  BY <1>5, <1>6, <1>7

LEMMA CoreLineEnds == Core /\ (LineFull \/ EndOfFile) => Core'
<1>. SUFFICES ASSUME Types, LineInv, SumInv, LineFull \/ EndOfFile
              PROVE Types' /\ LineInv' /\ SumInv'
  BY DEF Core
<1>1. /\ pc = "readline" /\ pc' \in {"return", "done"}
      /\ UNCHANGED <<response, ending, unread, nio_buf, line, n, sum, payload, rest,
                     relayed, client, clientUp, cached, block>>
      /\ n = Len(line) + 1 /\ NoNewline(line)
  BY DEF LineFull, EndOfFile, LineInv
<1>2. /\ pc' = "return" => line # <<>> /\ (n = MAXLINE \/ Exhausted)
      /\ pc' = "done" => Exhausted /\ line = <<>>
      /\ ending = "failed" => pc' = "done"
  <2>1. CASE LineFull
    <3>1. line # <<>> /\ n = MAXLINE /\ pc' = "return"
      BY <1>1, <2>1, Lengths, ForwardAssumption DEF LineFull
    <3>. QED
      BY <3>1 DEF LineInv
  <2>2. CASE EndOfFile
    BY <2>2 DEF EndOfFile, LineInv, Exhausted
  <2>. QED
    BY <2>1, <2>2
<1>3. Types'
  BY <1>1 DEF Types, TypeOK
<1>4. Exhausted' = Exhausted /\ NoNewline(line)'
  BY <1>1 DEF Exhausted, NoNewline
<1>5. LineInv'
  BY <1>1, <1>2, <1>4 DEF LineInv
<1>6. SumInv'
  <2>1. Taken' = Taken
    BY <1>1, <1>2 DEF Taken
  <2>. QED
    BY <1>1, <2>1 DEF SumInv
<1>. QED
  BY <1>3, <1>5, <1>6

(* What memcpy writes behind the collected lines after a read error. *)
Overrun == [i \in 1..SizeMax |-> "any"]

LEMMA CoreReadError == Core /\ ReadError => Core'
<1>. SUFFICES ASSUME Types, LineInv, SumInv, ReadError
              PROVE Types' /\ LineInv' /\ SumInv'
  BY DEF Core
<1>1. /\ pc = "readline" /\ nio_buf = <<>> /\ unread = <<>> /\ ending' = "failed"
      /\ sum' = (sum - 1) % (SizeMax + 1) /\ line' = <<>> /\ n' = 1
      /\ UNCHANGED <<response, unread, nio_buf, rest, relayed,
                     client, clientUp, cached, block>>
      /\ \/ Collects(sum') /\ pc' = "crashed" /\ payload' = payload \o Overrun
         \/ ~Collects(sum') /\ pc' = pc /\ payload' = payload
  BY DEF ReadError, Overrun
<1>2. sum' \in 0..SizeMax /\ Len(<<>>) = 0
  <2>1. sum - 1 \in Int
    BY Lengths
  <2>. QED
    BY <1>1, <2>1, Modulo, EmptySeq
<1>3. <<>> \in Seq(Byte) /\ payload' \in Seq(Char \cup {"any"})
  <2>1. Overrun \in Seq(Char \cup {"any"})
    BY ForwardAssumption DEF Overrun
  <2>. QED
    <3>1. payload \in Seq(Char \cup {"any"})
      BY DEF Types
    <3>2. payload \o Overrun \in Seq(Char \cup {"any"})
      BY <2>1, <3>1, ConcatProperties
    <3>. QED
      BY <1>1, <3>1, <3>2, EmptySeq, Zenon
<1>4. Types'
  BY <1>1, <1>2, <1>3, ForwardAssumption DEF Types, TypeOK
<1>5. LineInv'
  BY <1>1, <1>2 DEF LineInv, NoNewline
<1>6. SumInv'
  <2>1. Len(Taken') = 0 /\ Taken = line
    BY <1>1, <1>2 DEF Taken
  <2>2. Len(relayed) + 2 * (0 + Len(nio_buf) + Len(unread)) <= 2 * Len(response)
    BY <2>1, Lengths DEF SumInv
  <2>3. pc' # "crashed" => sum' > MaxObjectSize
    BY <1>1, <1>2, ForwardAssumption DEF Collects
  <2>. QED
    BY <1>1, <2>1, <2>2, <2>3 DEF SumInv
<1>. QED
  BY <1>4, <1>5, <1>6

LEMMA CoreRelay == Core /\ Relay => Core'
<1>. SUFFICES ASSUME Types, LineInv, SumInv, Relay
              PROVE Types' /\ LineInv' /\ SumInv'
  BY DEF Core
<1>1. /\ pc = "return" /\ pc' = "writen" /\ sum' = (sum + n) % (SizeMax + 1)
      /\ payload' = IF Collects(sum') THEN payload \o Chunk ELSE payload
      /\ rest' = Chunk /\ relayed' = relayed \o Chunk
      /\ UNCHANGED <<response, ending, unread, nio_buf, line, n,
                     client, clientUp, cached, block>>
  BY DEF Relay, Chunk
<1>2. Chunk \in Seq(Char) /\ Len(Chunk) = n /\ Len(line) \in Nat \ {0} /\ n <= Len(line) + 1
  BY <1>1, ChunkIs
<1>3. ending # "failed" /\ sum = Len(relayed) /\ (sum <= MaxObjectSize => payload = relayed)
  BY <1>1 DEF LineInv, SumInv
<1>4. /\ Len(Taken) = Len(line) /\ Len(Taken') = 0
      /\ Len(relayed) + 2 * (Len(line) + Len(nio_buf) + Len(unread)) <= 2 * Len(response)
  BY <1>1, Lengths DEF Taken, SumInv
<1>5. sum + n + 2 * (Len(nio_buf) + Len(unread)) <= 2 * Len(response)
  BY <1>2, <1>3, <1>4, Lengths
<1>6. sum' = sum + n /\ sum + n <= SizeMax
  <2>1. sum + n <= SizeMax
    BY <1>5, Lengths, ForwardAssumption DEF Types
  <2>2. sum + n \in Int /\ sum + n \in 0..SizeMax
    BY <2>1, Lengths
  <2>. QED
    BY <1>1, <2>1, <2>2, Modulo
<1>7. /\ relayed' \in Seq(Char) /\ Len(relayed') = Len(relayed) + n
      /\ payload \o Chunk \in Seq(Char) /\ Len(payload \o Chunk) = Len(payload) + n
  BY <1>1, <1>2, ConcatProperties DEF Types
<1>8. payload' \in Seq(Char) /\ Len(payload') <= MaxObjectSize
      /\ (sum' <= MaxObjectSize => payload' = relayed')
  <2>1. CASE sum' <= MaxObjectSize
    <3>1. sum <= MaxObjectSize
      BY <1>6, <2>1, Lengths, ForwardAssumption
    <3>2. payload' = payload \o Chunk /\ payload = relayed
      BY <1>1, <1>3, <2>1, <3>1 DEF Collects
    <3>3. payload' = relayed' /\ Len(payload') = sum'
      BY <1>1, <1>3, <1>6, <1>7, <3>2
    <3>. QED
      BY <1>7, <2>1, <3>3
  <2>2. CASE ~(sum' <= MaxObjectSize)
    <3>1. payload' = payload
      BY <1>1, <2>2 DEF Collects
    <3>. QED
      BY <1>1, <2>2, <3>1 DEF Types, SumInv
  <2>. QED
    BY <2>1, <2>2
<1>9. Types'
  BY <1>1, <1>2, <1>6, <1>7, <1>8, Lengths DEF Types, TypeOK
<1>10. LineInv'
  BY <1>1, <1>3 DEF LineInv
<1>11. SumInv'
  <2>1. Len(relayed') + 2 * (Len(Taken') + Len(nio_buf') + Len(unread')) <= 2 * Len(response')
    BY <1>1, <1>3, <1>4, <1>5, <1>7, Lengths
  <2>. QED
    BY <1>1, <1>3, <1>6, <1>7, <1>8, <2>1 DEF SumInv
<1>. QED
  BY <1>9, <1>10, <1>11

LEMMA CoreWrite == Core /\ (WriteSome \/ WriteFails) => Core'
<1>. SUFFICES ASSUME Types, LineInv, SumInv, WriteSome \/ WriteFails
              PROVE Types' /\ LineInv' /\ SumInv'
  BY DEF Core
<1>1. /\ pc = "writen" /\ rest # <<>>
      /\ UNCHANGED <<response, ending, unread, nio_buf, line, n, sum, payload,
                     relayed, cached, block, pc>>
      /\ clientUp' \in BOOLEAN
  BY DEF WriteSome, WriteFails, Types
<1>2. client' \in Seq(Char) /\ rest' \in Seq(Char)
  <2>1. CASE WriteSome
    <3>1. PICK k \in 1..Len(rest) : /\ client' = client \o SubSeq(rest, 1, k)
                                    /\ rest' = SubSeq(rest, k + 1, Len(rest))
      BY <2>1 DEF WriteSome
    <3>2. client \in Seq(Char) /\ rest \in Seq(Char)
      BY DEF Types
    <3>3. SubSeq(rest, 1, k) \in Seq(Char) /\ SubSeq(rest, k + 1, Len(rest)) \in Seq(Char)
      BY <3>2, Split
    <3>. QED
      BY <3>1, <3>2, <3>3, ConcatProperties
  <2>2. CASE WriteFails
    BY <2>2, EmptySeq DEF WriteFails, Types
  <2>. QED
    BY <2>1, <2>2
<1>3. Types'
  BY <1>1, <1>2 DEF Types, TypeOK
<1>4. LineInv'
  BY <1>1 DEF LineInv
<1>5. SumInv'
  <2>1. Taken' = Taken
    BY <1>1 DEF Taken
  <2>. QED
    BY <1>1, <2>1 DEF SumInv
<1>. QED
  BY <1>3, <1>4, <1>5

LEMMA CoreNextLine == Core /\ NextLine => Core'
<1>. SUFFICES ASSUME Types, LineInv, SumInv, NextLine
              PROVE Types' /\ LineInv' /\ SumInv'
  BY DEF Core
<1>1. /\ pc = "writen" /\ pc' = "readline" /\ line' = <<>> /\ n' = 1
      /\ UNCHANGED <<response, ending, unread, nio_buf, sum, payload, rest, relayed,
                     client, clientUp, cached, block>>
      /\ <<>> \in Seq(Byte) /\ Len(<<>>) = 0
  BY EmptySeq DEF NextLine
<1>2. Types'
  BY <1>1, ForwardAssumption DEF Types, TypeOK
<1>3. LineInv'
  BY <1>1 DEF LineInv, NoNewline
<1>4. SumInv'
  <2>1. Taken' = Taken
    BY <1>1 DEF Taken
  <2>. QED
    BY <1>1, <2>1 DEF SumInv
<1>. QED
  BY <1>2, <1>3, <1>4

LEMMA CoreCaching == Core /\ (CacheResponse \/ NewNode) => Core'
<1>. SUFFICES ASSUME Types, LineInv, SumInv, CacheResponse \/ NewNode
              PROVE Types' /\ LineInv' /\ SumInv'
  BY DEF Core
<1>1. /\ pc \in {"done", "new_node"} /\ pc' \in {"new_node", "end"}
      /\ UNCHANGED <<response, ending, unread, nio_buf, line, n, sum, payload, rest,
                     relayed, client, clientUp>>
  BY DEF CacheResponse, NewNode
<1>2. ending = "failed" => pc' = "end"
  <2>1. ending = "failed" => pc = "done" /\ sum > MaxObjectSize
    BY <1>1 DEF LineInv, SumInv
  <2>2. ~(sum > MaxObjectSize /\ sum < MaxObjectSize)
    BY Lengths, ForwardAssumption
  <2>. QED
    BY <1>1, <2>1, <2>2 DEF CacheResponse, NewNode, Caches
<1>3. Types'
  BY <1>1 DEF Types, TypeOK
<1>4. Exhausted' = Exhausted
  BY <1>1 DEF Exhausted
<1>5. LineInv'
  BY <1>1, <1>2, <1>4 DEF LineInv
<1>6. SumInv'
  <2>1. Taken' = Taken
    BY <1>1 DEF Taken
  <2>. QED
    BY <1>1, <2>1 DEF SumInv
<1>. QED
  BY <1>3, <1>5, <1>6

LEMMA CoreStutter == Core /\ UNCHANGED vars => Core'
<1>. SUFFICES ASSUME Types, LineInv, SumInv, UNCHANGED vars
              PROVE Types' /\ LineInv' /\ SumInv'
  BY DEF Core
<1>1. Types' /\ SumInv'
  BY DEF vars, Types, TypeOK, SumInv, Taken
<1>2. LineInv'
  BY DEF vars, LineInv, NoNewline, Exhausted
<1>. QED
  BY <1>1, <1>2

LEMMA CoreNext == Core /\ [Next]_vars => Core'
  BY CoreRefill, CoreReset, CoreTakeByte, CoreLineEnds, CoreReadError, CoreRelay,
     CoreWrite, CoreNextLine, CoreCaching, CoreStutter DEF Next, Step, Ended

-----------------------------------------------------------------------
LEMMA DeliveryNext == Core /\ DeliveryInv /\ [Next]_vars => DeliveryInv'
<1>. SUFFICES ASSUME Types, LineInv, DeliveryInv, [Next]_vars  PROVE DeliveryInv'
  BY DEF Core
<1>1. PICK lost \in Seq(Char) : client \o lost = relayed /\ (clientUp => lost = rest)
  BY DEF DeliveryInv
<1>2. pc # "writen" => rest = <<>>
  BY DEF DeliveryInv
<1>3. client \in Seq(Char) /\ rest \in Seq(Char) /\ relayed \in Seq(Char)
  BY DEF Types
<1>4. CASE WriteSome
  <2>1. PICK k \in 1..Len(rest) : /\ client' = client \o SubSeq(rest, 1, k)
                                  /\ rest' = SubSeq(rest, k + 1, Len(rest))
    BY <1>4 DEF WriteSome
  <2>. DEFINE sent == SubSeq(rest, 1, k)
  <2>2. sent \in Seq(Char) /\ rest' \in Seq(Char) /\ sent \o rest' = rest
    BY <1>3, <2>1, Split
  <2>3. client' = client \o sent
    BY <2>1
  <2>. HIDE DEF sent
  <2>4. client' \o rest' = client \o rest
    <3>1. (client \o sent) \o rest' = client \o (sent \o rest')
      <4>1. client \in Seq(Char) /\ sent \in Seq(Char) /\ rest' \in Seq(Char)
        BY <1>3, <2>2
      <4>. QED
        BY <4>1, Associative
    <3>. QED
      BY <2>2, <2>3, <3>1, Zenon
  <2>5. lost = rest /\ pc' = "writen" /\ UNCHANGED <<relayed, clientUp>>
    BY <1>1, <1>4 DEF WriteSome
  <2>. QED
    BY <1>1, <2>2, <2>4, <2>5 DEF DeliveryInv
<1>5. CASE WriteFails
  BY <1>1, <1>5 DEF WriteFails, DeliveryInv
<1>6. CASE Relay
  <2>1. /\ rest' = Chunk /\ relayed' = relayed \o Chunk /\ UNCHANGED <<client, clientUp>>
        /\ pc = "return" /\ pc' = "writen"
    BY <1>6 DEF Relay, Chunk
  <2>2. Chunk \in Seq(Char)
    BY <2>1, ChunkIs
  <2>3. lost \o Chunk \in Seq(Char) /\ client \o (lost \o Chunk) = relayed'
    <3>1. (client \o lost) \o Chunk = client \o (lost \o Chunk)
      <4>1. client \in Seq(Char) /\ lost \in Seq(Char) /\ Chunk \in Seq(Char)
        BY <1>3, <2>2
      <4>. QED
        BY <4>1, Associative
    <3>2. lost \o Chunk \in Seq(Char)
      BY <1>1, <2>2, ConcatProperties
    <3>. QED
      BY <1>1, <2>1, <3>1, <3>2, Zenon
  <2>4. clientUp => lost \o Chunk = Chunk
    BY <1>1, <1>2, <2>1, <2>2, ConcatEmptySeq
  <2>. QED
    BY <2>1, <2>3, <2>4 DEF DeliveryInv
<1>7. CASE UNCHANGED <<client, clientUp, relayed, rest>> /\ (pc = "writen" => pc' = "writen")
  BY <1>1, <1>2, <1>7 DEF DeliveryInv
<1>8. CASE NextLine
  BY <1>1, <1>8 DEF NextLine, DeliveryInv
<1>. QED
  BY <1>4, <1>5, <1>6, <1>7, <1>8 DEF Next, vars, Step, Ended, Refill, TakeByte, LineFull,
     EndOfFile, ReadError, CacheResponse, NewNode, Reset

-----------------------------------------------------------------------
LEMMA FlowNext == Core /\ FlowInv /\ [Next]_vars => FlowInv'
<1>. SUFFICES ASSUME Types, LineInv, FlowInv, [Next]_vars  PROVE FlowInv'
  BY DEF Core
<1>1. PICK tail \in Seq(Byte) : /\ got \o nio_buf \o unread \o tail = response
                                /\ ending = "eof" \/ unread # <<>> => tail = <<>>
  BY DEF FlowInv
<1>2. got \in Seq(Byte) /\ nio_buf \in Seq(Byte) /\ unread \in Seq(Byte)
  BY DEF Types, FlowInv
<1>3. CASE Refill
  <2>1. PICK k \in 1..NIO_BUFSIZE : /\ k <= Len(unread) /\ nio_buf' = SubSeq(unread, 1, k)
                                   /\ unread' = SubSeq(unread, k + 1, Len(unread))
    BY <1>3 DEF Refill
  <2>2. k \in 1..Len(unread)
    BY <2>1, Lengths
  <2>3. /\ nio_buf' \in Seq(Byte) /\ unread' \in Seq(Byte) /\ nio_buf' \o unread' = unread
        /\ unread # <<>>
    BY <1>2, <2>1, <2>2, Split, Lengths
  <2>4. nio_buf = <<>> /\ UNCHANGED <<response, ending, got>>
    BY <1>3 DEF Refill
  <2>5. got \o nio_buf' \o unread' \o tail = got \o <<>> \o unread \o tail
    <3>1. got \in Seq(Byte) /\ nio_buf' \in Seq(Byte) /\ unread' \in Seq(Byte)
      BY <1>2, <2>3
    <3>2. got \o nio_buf' \o unread' = got \o (nio_buf' \o unread')
      BY <3>1, Associative
    <3>3. got \o <<>> = got
      BY <3>1
    <3>. QED
      BY <2>3, <3>2, <3>3, Zenon
  <2>6. got' \o nio_buf' \o unread' \o tail = response'
    BY <1>1, <2>4, <2>5, Zenon
  <2>. QED
    BY <1>1, <1>2, <2>3, <2>4, <2>6 DEF FlowInv
<1>4. CASE Reset
  <2>1. unread' = <<>> /\ ending' # "eof" /\ UNCHANGED <<response, nio_buf, got>>
    BY <1>4 DEF Reset
  <2>2. unread \o tail \in Seq(Byte)
    BY <1>2, ConcatProperties
  <2>3. got \o nio_buf \o unread \o tail = got \o nio_buf \o <<>> \o (unread \o tail)
    <3>1. got \in Seq(Byte) /\ nio_buf \in Seq(Byte) /\ unread \in Seq(Byte) /\ tail \in Seq(Byte)
      BY <1>2
    <3>. QED
      BY <3>1
  <2>4. got' \o nio_buf' \o unread' \o (unread \o tail) = response'
    BY <1>1, <2>1, <2>3, Zenon
  <2>. QED
    BY <1>2, <2>1, <2>2, <2>4 DEF FlowInv
<1>5. CASE TakeByte
  <2>1. /\ nio_buf # <<>> /\ nio_buf' = Tail(nio_buf) /\ got' = Append(got, Head(nio_buf))
        /\ UNCHANGED <<response, ending, unread>>
    BY <1>5 DEF TakeByte
  <2>2. got' \in Seq(Byte) /\ got' \o nio_buf' = got \o nio_buf
    <3>. DEFINE x == Head(nio_buf)
    <3>1. x \in Byte /\ Tail(nio_buf) \in Seq(Byte) /\ <<x>> \o Tail(nio_buf) = nio_buf
      BY <1>2, <2>1, HeadTailProperties
    <3>. HIDE DEF x
    <3>2. got' = got \o <<x>> /\ <<x>> \in Seq(Byte) /\ got' \in Seq(Byte)
      BY <1>2, <2>1, <3>1, AppendProperties, AppendIsConcat DEF x
    <3>3. (got \o <<x>>) \o Tail(nio_buf) = got \o (<<x>> \o Tail(nio_buf))
      BY <1>2, <3>1, <3>2, Associative
    <3>. QED
      BY <2>1, <3>1, <3>2, <3>3, Zenon
  <2>3. got' \o nio_buf' \o unread' \o tail = response'
    BY <1>1, <2>1, <2>2, Zenon
  <2>. QED
    BY <1>1, <2>1, <2>2, <2>3 DEF FlowInv
<1>6. CASE /\ UNCHANGED <<response, unread, nio_buf, got>>
           /\ ending' = ending \/ (ending' # "eof" /\ unread = <<>>)
  BY <1>1, <1>2, <1>6 DEF FlowInv
<1>. QED
  BY <1>3, <1>4, <1>5, <1>6 DEF Next, vars, Step, Ended, ReadError, LineFull, EndOfFile, Relay,
     NextLine, WriteSome, WriteFails, CacheResponse, NewNode

-----------------------------------------------------------------------
(* The text of what nio_read has handed out. *)
LEMMA FrameTypes ==
  ASSUME FlowInv, NEW f, f = Framed(got)
  PROVE  f.text \in Seq(Char) /\ f.col \in 0..MAXLINE - 2 /\ Closed(f) \in Seq(Char)
<1>1. got \in Seq(Char)
  BY SeqMonotonic DEF FlowInv, Char
<1>2. f.text \in Seq(Char) /\ f.col \in 0..MAXLINE - 2
  BY <1>1, FramedType
<1>3. "NUL" \in Char
  BY DEF Char
<1>. QED
  BY <1>2, <1>3, AppendProperties DEF Closed

LEMMA ClosedIs ==
  ASSUME NEW f, f.text \in Seq(Char)
  PROVE  /\ f.col = 0 => Closed(f) = f.text
         /\ f.col # 0 => Closed(f) = f.text \o <<"NUL">>
<1>1. "NUL" \in Char
  BY DEF Char
<1>. QED
  BY <1>1, AppendIsConcat DEF Closed

(* In every state what was relayed is the beginning of that text. *)
LEMMA Beginning ==
  ASSUME Types, FlowInv, FrameInv
  PROVE  \E more \in Seq(Char) : relayed \o more = Closed(Framed(got))
<1>. DEFINE f == Framed(got)
<1>1. f.text \in Seq(Char) /\ Closed(f) \in Seq(Char)
  BY FrameTypes
<1>2. /\ relayed \in Seq(Char) /\ line \in Seq(Char) /\ <<"NUL">> \in Seq(Char)
      /\ <<>> \in Seq(Char) /\ relayed \o <<>> = relayed
  BY SeqMonotonic, ConcatEmptySeq, EmptySeq DEF Types, Char
<1>. HIDE DEF f
<1>3. CASE Open(f)
  <2>1. Current \in Seq(Char) /\ relayed \o Current = f.text
    BY <1>2, <1>3, ConcatProperties DEF Current, Open
  <2>2. CASE f.col = 0
    BY <1>1, <2>1, <2>2, ClosedIs DEF f
  <2>3. CASE f.col # 0
    <3>1. Closed(f) = (relayed \o Current) \o <<"NUL">>
      BY <1>1, <2>1, <2>3, ClosedIs
    <3>2. (relayed \o Current) \o <<"NUL">> = relayed \o (Current \o <<"NUL">>)
      <4>1. relayed \in Seq(Char) /\ Current \in Seq(Char) /\ <<"NUL">> \in Seq(Char)
        BY <1>2, <2>1
      <4>. QED
        BY <4>1, Associative
    <3>3. Current \o <<"NUL">> \in Seq(Char)
      BY <1>2, <2>1, ConcatProperties
    <3>. QED
      BY <3>1, <3>2, <3>3 DEF f
  <2>. QED
    BY <2>2, <2>3
<1>4. CASE Flushed(f)
  <2>1. relayed \o <<>> = Closed(f)
    BY <1>2, <1>4 DEF Flushed
  <2>. QED
    BY <1>2, <2>1 DEF f
<1>. QED
  BY <1>3, <1>4 DEF FrameInv, f

(* Before a byte is taken no line is closed. *)
LEMMA FrameTake ==
  Types /\ LineInv /\ FlowInv /\ FrameInv /\ TakeByte => FrameInv'
<1>. SUFFICES ASSUME Types, LineInv, FlowInv, FrameInv, TakeByte  PROVE FrameInv'
  OBVIOUS
<1>1. PICK x : x = Head(nio_buf)
  OBVIOUS
<1>2. PICK f : f = Framed(got)
  OBVIOUS
<1>3. /\ pc = "readline" /\ n < MAXLINE /\ nio_buf # <<>> /\ UNCHANGED <<relayed, ending>>
      /\ line' = Append(line, x) /\ got' = Append(got, x)
      /\ IF x = "nl" THEN pc' = "return" /\ n' = n ELSE pc' = pc /\ n' = n + 1
  BY <1>1 DEF TakeByte
<1>4. /\ x \in Byte /\ x \in Char /\ "NUL" \in Char /\ line \in Seq(Char) /\ relayed \in Seq(Char)
      /\ got \in Seq(Char)
  BY <1>1, <1>3, HeadTailProperties, SeqMonotonic DEF Types, Char, FlowInv
<1>5. n = Len(line) + 1 /\ Len(line) \in Nat /\ n \in Nat /\ ending # "failed"
  BY <1>3, Lengths DEF LineInv
<1>6. f.text \in Seq(Char) /\ f.col \in 0..MAXLINE - 2
  BY <1>2, FrameTypes
<1>7. relayed \o line = f.text /\ f.col = Len(line)
  <2>1. CASE Open(f)
    <3>1. n # MAXLINE /\ n # Len(line)
      BY <1>3, <1>5, ForwardAssumption
    <3>. QED
      BY <2>1, <3>1 DEF Open, Current
  <2>2. CASE Flushed(f)
    <3>1. f.col = 0 /\ line = <<>>
      BY <1>3, <2>2 DEF Flushed, Exhausted, Taken
    <3>2. relayed = f.text
      BY <1>6, <2>2, <3>1, ClosedIs DEF Flushed
    <3>. QED
      BY <1>4, <3>1, <3>2, ConcatEmptySeq, EmptySeq
  <2>. QED
    BY <1>2, <1>5, <2>1, <2>2 DEF FrameInv
<1>8. PICK g : g = Place(f, x)
  OBVIOUS
<1>9. Framed(got)' = g
  BY <1>2, <1>3, <1>4, <1>8, FramedAppend
<1>10. relayed \o line' = Append(f.text, x) /\ Len(line') = Len(line) + 1 /\ line' \in Seq(Char)
  <2>1. line' = line \o <<x>> /\ Append(f.text, x) = f.text \o <<x>> /\ <<x>> \in Seq(Char)
    BY <1>3, <1>4, <1>6, AppendIsConcat
  <2>2. relayed \o (line \o <<x>>) = (relayed \o line) \o <<x>>
    BY <1>4, <2>1, Associative
  <2>3. Len(line') = Len(line) + 1 /\ line' \in Seq(Char)
    BY <1>3, <1>4, AppendProperties
  <2>. QED
    BY <1>7, <2>1, <2>2, <2>3, Zenon
<1>11. Open(g)'
  <2>1. CASE x = "nl"
    <3>1. g.text = Append(f.text, x) /\ g.col = 0
      BY <1>8, <2>1 DEF Place
    <3>2. pc' = "return" /\ n' = n /\ n' = Len(line') /\ n' # MAXLINE
      BY <1>3, <1>5, <1>10, <2>1, ForwardAssumption
    <3>. QED
      BY <1>3, <1>10, <3>1, <3>2 DEF Open, Current
  <2>2. CASE x # "nl" /\ f.col = MAXLINE - 2
    <3>1. g.text = Append(f.text, x) \o <<"NUL">> /\ g.col = 0
      <4>1. g.text = Append(Append(f.text, x), "NUL") /\ g.col = 0
        BY <1>8, <2>2 DEF Place
      <4>2. Append(f.text, x) \in Seq(Char) /\ "NUL" \in Char
        BY <1>4, <1>6, AppendProperties
      <4>. QED
        BY <4>1, <4>2, AppendIsConcat
    <3>2. pc' = "readline" /\ n' = MAXLINE
      BY <1>3, <1>5, <1>7, <2>2, ForwardAssumption
    <3>3. relayed \o (line' \o <<"NUL">>) = (relayed \o line') \o <<"NUL">>
      <4>1. PICK l : l = line'
        OBVIOUS
      <4>2. relayed \in Seq(Char) /\ l \in Seq(Char) /\ <<"NUL">> \in Seq(Char)
        BY <1>4, <1>10, <4>1
      <4>3. (relayed \o l) \o <<"NUL">> = relayed \o (l \o <<"NUL">>)
        BY <4>2, Associative
      <4>. QED
        BY <4>1, <4>3
    <3>5. relayed' \o (line' \o <<"NUL">>) = g.text
      BY <1>3, <1>10, <3>1, <3>3, Zenon
    <3>. QED
      BY <3>1, <3>2, <3>5 DEF Open, Current
  <2>3. CASE x # "nl" /\ f.col # MAXLINE - 2
    <3>1. g.text = Append(f.text, x) /\ g.col = f.col + 1
      BY <1>8, <2>3 DEF Place
    <3>2. pc' = "readline" /\ n' = Len(line') + 1 /\ n' # MAXLINE /\ n' # Len(line')
          /\ g.col = Len(line')
      BY <1>3, <1>5, <1>7, <1>10, <2>3, <3>1, ForwardAssumption
    <3>. QED
      BY <1>3, <1>10, <3>1, <3>2 DEF Open, Current
  <2>. QED
    BY <2>1, <2>2, <2>3
<1>. QED
  BY <1>3, <1>5, <1>9, <1>11 DEF FrameInv

(* Relay closes the line. *)
LEMMA FrameRelay ==
  Types /\ LineInv /\ FlowInv /\ FrameInv /\ Relay => FrameInv'
<1>. SUFFICES ASSUME Types, LineInv, FlowInv, FrameInv, Relay  PROVE FrameInv'
  OBVIOUS
<1>1. PICK f : f = Framed(got)
  OBVIOUS
<1>2. /\ pc = "return" /\ pc' = "writen" /\ relayed' = relayed \o Chunk
      /\ UNCHANGED <<ending, unread, nio_buf, got>>
  BY DEF Relay, Chunk
<1>3. /\ Len(line) \in Nat \ {0} /\ line # <<>> /\ Len(line) < MAXLINE
      /\ \/ n = Len(line) + 1 /\ Chunk = line \o <<"NUL">>
         \/ n = Len(line) /\ Chunk = line
  BY <1>2, ChunkIs DEF LineInv, Types, TypeOK
<1>4. ending # "failed" /\ Open(f)
  BY <1>1, <1>2, <1>3 DEF LineInv, FrameInv, Flushed, Taken
<1>5. f.text \in Seq(Char)
  BY <1>1, FrameTypes
<1>6. relayed \in Seq(Char) /\ line \in Seq(Char) /\ <<"NUL">> \in Seq(Char)
  BY SeqMonotonic DEF Types, Char
<1>7. relayed' = Closed(f) /\ (f.col # 0 => Exhausted)
  <2>1. CASE n = Len(line)
    <3>1. n # MAXLINE /\ Chunk = line
      BY <1>3, <2>1, ForwardAssumption
    <3>2. relayed' = f.text /\ f.col = 0
      BY <1>2, <1>4, <2>1, <3>1 DEF Open, Current
    <3>. QED
      BY <1>5, <3>2, ClosedIs
  <2>2. CASE n = MAXLINE
    <3>1. Chunk = line \o <<"NUL">>
      BY <1>3, <2>2, ForwardAssumption
    <3>2. relayed' = f.text /\ f.col = 0
      BY <1>2, <1>4, <2>2, <3>1 DEF Open, Current
    <3>. QED
      BY <1>5, <3>2, ClosedIs
  <2>3. CASE n # Len(line) /\ n # MAXLINE
    <3>1. relayed \o line = f.text /\ f.col = Len(line) /\ Chunk = line \o <<"NUL">>
      BY <1>3, <1>4, <2>3 DEF Open, Current
    <3>2. relayed \o (line \o <<"NUL">>) = (relayed \o line) \o <<"NUL">>
      BY <1>6, Associative
    <3>3. f.col # 0 /\ Exhausted
      BY <1>2, <1>3, <2>3, <3>1 DEF LineInv
    <3>. QED
      BY <1>2, <1>5, <3>1, <3>2, <3>3, ClosedIs
  <2>. QED
    BY <2>1, <2>2, <2>3
<1>8. Flushed(f)'
  BY <1>2, <1>7 DEF Flushed, Taken, Exhausted
<1>9. Framed(got)' = f
  BY <1>1, <1>2
<1>. QED
  BY <1>2, <1>4, <1>8, <1>9 DEF FrameInv

LEMMA FrameNext == Core /\ FlowInv /\ FrameInv /\ [Next]_vars => FrameInv'
<1>. SUFFICES ASSUME Types, LineInv, FlowInv, FrameInv, [Next]_vars  PROVE FrameInv'
  BY DEF Core
<1>. SUFFICES ASSUME ~TakeByte, ~Relay  PROVE FrameInv'
  BY FrameTake, FrameRelay
<1>1. PICK f : f = Framed(got)
  OBVIOUS
<1>2. /\ UNCHANGED <<got, relayed>> /\ Framed(got)' = f
      /\ ending' = ending \/ ReadError
  BY <1>1 DEF Next, vars, Step, Ended, Refill, LineFull, EndOfFile, ReadError, WriteSome, WriteFails,
     NextLine, CacheResponse, NewNode, Reset
<1>3. CASE ending' = "failed"
  <2>1. \E more \in Seq(Char) : relayed \o more = Closed(f)
    BY <1>1, Beginning
  <2>. QED
    BY <1>2, <1>3, <2>1 DEF FrameInv
<1>4. CASE ending' # "failed"
  <2>1. ~ReadError /\ ending' = ending /\ (Open(f) \/ Flushed(f))
    BY <1>1, <1>2, <1>4 DEF ReadError, FrameInv
  <2>. SUFFICES Open(f)' \/ Flushed(f)'
    BY <1>2, <1>4 DEF FrameInv
  <2>2. CASE Refill \/ Reset
    <3>1. unread # <<>> /\ UNCHANGED <<pc, line, n>>
      BY <2>2, Lengths DEF Refill, Reset
    <3>2. Open(f) => Open(f)'
      BY <1>2, <3>1 DEF Open, Current
    <3>3. Flushed(f) => Flushed(f)'
      BY <1>2, <3>1 DEF Flushed, Taken, Exhausted
    <3>. QED
      BY <2>1, <3>2, <3>3
  <2>3. CASE LineFull
    <3>1. pc = "readline" /\ pc' = "return" /\ n = MAXLINE /\ UNCHANGED <<line, n>>
      BY <2>3 DEF LineFull
    <3>2. line # <<>>
      BY <3>1, Lengths, ForwardAssumption DEF LineInv
    <3>3. Open(f)
      BY <2>1, <3>1, <3>2 DEF Flushed, Taken
    <3>. QED
      BY <1>2, <3>1, <3>3 DEF Open, Current
  <2>4. CASE EndOfFile
    <3>1. /\ pc = "readline" /\ n < MAXLINE /\ UNCHANGED <<line, n, unread, nio_buf>>
          /\ pc' = IF line = <<>> THEN "done" ELSE "return"
          /\ n = Len(line) + 1
      BY <2>4 DEF EndOfFile, LineInv
    <3>2. CASE line # <<>>
      <4>1. Open(f)
        BY <2>1, <3>1, <3>2 DEF Flushed, Taken
      <4>. QED
        BY <1>2, <3>1, <3>2, <4>1 DEF Open, Current
    <3>3. CASE line = <<>>
      <4>1. Flushed(f) => Flushed(f)'
        BY <1>2, <2>1, <3>1, <3>3 DEF Flushed, Taken, Exhausted
      <4>2. ASSUME Open(f)  PROVE Flushed(f)'
        <5>1. f.col = 0 /\ relayed \o <<>> = f.text
          <6>1. Len(line) = 0 /\ n = 1 /\ n # MAXLINE /\ n # Len(line)
            BY <3>1, <3>3, EmptySeq, ForwardAssumption
          <6>. QED
            BY <3>3, <4>2, <6>1, Zenon DEF Open, Current
        <5>2. relayed \o <<>> = relayed /\ f.text \in Seq(Char)
          BY <1>1, FrameTypes, ConcatEmptySeq DEF Types
        <5>3. relayed = Closed(f)
          BY <5>1, <5>2, ClosedIs
        <5>. QED
          BY <1>2, <3>1, <3>3, <5>1, <5>3 DEF Flushed, Taken
      <4>. QED
        BY <2>1, <4>1, <4>2
    <3>. QED
      BY <3>2, <3>3
  <2>5. CASE NextLine \/ WriteSome \/ WriteFails \/ CacheResponse \/ NewNode
    <3>1. /\ pc \notin {"readline", "return"} /\ UNCHANGED <<unread, nio_buf>>
          /\ pc' \notin {"readline", "return"} \/ line' = <<>>
      BY <2>5 DEF NextLine, WriteSome, WriteFails, CacheResponse, NewNode
    <3>2. Flushed(f)
      BY <2>1, <3>1 DEF Open
    <3>. QED
      BY <1>2, <2>1, <3>1, <3>2 DEF Flushed, Taken, Exhausted
  <2>6. CASE UNCHANGED vars
    BY <1>2, <2>1, <2>6 DEF vars, Open, Current, Flushed, Taken, Exhausted
  <2>. QED
    BY <2>1, <2>2, <2>3, <2>4, <2>5, <2>6 DEF Next, Step, Ended
<1>. QED
  BY <1>3, <1>4

-----------------------------------------------------------------------
(* At the end of file all of the response has been relayed. *)
LEMMA AllRelayed ==
  ASSUME Types, LineInv, FlowInv, FrameInv, pc \in {"done", "new_node", "end"}, ending = "eof"
  PROVE  got = response /\ relayed = Closed(Framed(response))
<1>1. unread = <<>> /\ nio_buf = <<>>
  BY DEF LineInv, Exhausted
<1>2. PICK tail \in Seq(Byte) : /\ got \o nio_buf \o unread \o tail = response
                                /\ tail = <<>>
  BY DEF FlowInv
<1>3. got \in Seq(Byte)
  BY DEF FlowInv
<1>4. got \o <<>> \o <<>> \o <<>> = got
  BY <1>3, ConcatEmptySeq
<1>5. got = response
  BY <1>1, <1>2, <1>4, Zenon
<1>6. relayed = Closed(Framed(got))
  BY DEF FrameInv, Open, Flushed
<1>. QED
  BY <1>5, <1>6

(* strlen stops at the first NUL, at the latest behind the string, *)
LEMMA StrLenFits ==
  ASSUME NEW s \in Seq(Char)  PROVE StrLen(s) \in 0..Len(s)
<1>. DEFINE T == {i \in 1..Len(s) : s[i] = "NUL"} \cup {Len(s) + 1}
<1>1. Len(s) \in Nat
  BY LenProperties
<1>2. T \in SUBSET Nat /\ T # {} /\ Len(s) + 1 \in T /\ \A i \in T : i >= 1
  BY <1>1
<1>3. StrLen(s) = Min(T) - 1
  BY DEF StrLen
<1>. HIDE DEF T
<1>4. Min(T) \in T /\ \A i \in T : Min(T) <= i
  BY <1>2, MinIsLeast
<1>5. Min(T) \in Nat /\ Min(T) >= 1 /\ Min(T) <= Len(s) + 1
  BY <1>2, <1>4
<1>. QED
  BY <1>1, <1>3, <1>5

(* and so at the terminator, or behind a string that has none. *)
LEMMA StrLenIs ==
  ASSUME NEW r \in Seq(Byte), ~Contains(r, "NUL"), NEW s, s = r \/ s = Append(r, "NUL")
  PROVE  StrLen(s) = Len(r)
<1>. DEFINE T == {i \in 1..Len(s) : s[i] = "NUL"} \cup {Len(s) + 1}
<1>1. Len(r) \in Nat /\ r \in Seq(Char) /\ "NUL" \in Char /\ Byte \subseteq Char
  BY LenProperties, SeqMonotonic DEF Char
<1>2. \A i \in 1..Len(r) : r[i] # "NUL"
  BY DEF Contains
<1>3. T \in SUBSET Nat /\ T # {} /\ Len(r) + 1 \in T /\ \A i \in T : i >= Len(r) + 1
  <2>1. CASE s = r
    BY <1>1, <1>2, <2>1
  <2>2. CASE s = Append(r, "NUL")
    <3>1. /\ Len(s) = Len(r) + 1 /\ s[Len(r) + 1] = "NUL"
          /\ \A i \in 1..Len(r) : s[i] = r[i]
      BY <1>1, <2>2, AppendProperties
    <3>. QED
      BY <1>1, <1>2, <3>1
  <2>. QED
    BY <2>1, <2>2
<1>4. StrLen(s) = Min(T) - 1
  BY DEF StrLen
<1>. HIDE DEF T
<1>5. Min(T) \in T /\ \A i \in T : Min(T) <= i
  BY <1>3, MinIsLeast
<1>6. Min(T) \in Nat /\ Min(T) >= Len(r) + 1 /\ Min(T) <= Len(r) + 1
  BY <1>3, <1>5
<1>. QED
  BY <1>1, <1>4, <1>6

(* What new_node leaves in the block of a text of short lines. *)
LEMMA BlockIs ==
  ASSUME Types, LineInv, FlowInv, FrameInv, CacheInv, NewNode, ending # "reset",
         ~LongLine(response), ~Contains(response, "NUL")
  PROVE  /\ block'.beyond = <<>>
         /\ block'.held = Append(response, IF WholeLines(response) THEN "any" ELSE "NUL")
<1>. DEFINE size == StrLen(payload) + 1
<1>1. /\ pc = "new_node"
      /\ block' = [held   |-> [i \in 1..size |-> IF i <= sum THEN cached[i] ELSE "any"],
                   beyond |-> SubSeq(cached, size + 1, sum)]
  BY DEF NewNode
<1>2. cached = relayed /\ payload = relayed /\ sum = Len(relayed) /\ ending = "eof"
  BY <1>1 DEF CacheInv
<1>. DEFINE f == Framed(response)
<1>3. /\ relayed = Closed(f) /\ f.text = response
      /\ f.col = 0 <=> WholeLines(response)
  <2>1. relayed = Closed(f)
    BY <1>1, <1>2, AllRelayed
  <2>2. response \in Seq(Char)
    BY SeqMonotonic DEF Types, Char
  <2>3. Short(response, f)
    BY <2>2, FramedShort
  <2>. QED
    BY <2>1, <2>3 DEF Short
<1>. HIDE DEF f
<1>. DEFINE N == Len(response)
            S == Byte \cup {"NUL", "any"}
<1>4. response \in Seq(Byte) /\ N \in Nat /\ response \in Seq(S)
  <2>1. response \in Seq(Byte) /\ N \in Nat /\ Byte \subseteq S
    BY Lengths DEF Types
  <2>. QED
    BY <2>1, SeqMonotonic
<1>. HIDE DEF size
<1>5. CASE WholeLines(response)
  <2>1. relayed = response
    BY <1>3, <1>5 DEF Closed
  <2>2. size = N + 1 /\ sum = N
    <3>1. StrLen(payload) = N
      BY <1>2, <1>4, <2>1, StrLenIs
    <3>. QED
      BY <1>2, <2>1, <3>1 DEF size
  <2>3. SubSeq(cached, size + 1, sum) = <<>>
    BY <1>4, <2>2, SubSeqEmpty
  <2>. DEFINE h == [i \in 1..N + 1 |-> IF i <= N THEN response[i] ELSE "any"]
              a == Append(response, "any")
  <2>5. h = a
    <3>1. "any" \in S /\ \A i \in 1..N : response[i] \in S
      BY <1>4, ElementOfSeq
    <3>2. /\ a \in Seq(S) /\ Len(a) = N + 1 /\ a[N + 1] = "any"
          /\ \A i \in 1..N : a[i] = response[i]
      BY <1>4, <3>1, AppendProperties
    <3>3. h \in [1..N + 1 -> S]
      BY <1>4, <3>1
    <3>4. h \in Seq(S) /\ Len(h) = N + 1
      BY <1>4, <3>3
    <3>5. \A i \in 1..N + 1 : h[i] = a[i]
      BY <1>4, <3>2
    <3>. HIDE DEF h, a, S
    <3>. QED
      BY <3>2, <3>4, <3>5, SeqEqual
  <2>6. block'.held = h
    BY <1>1, <1>2, <2>1, <2>2
  <2>. QED
    BY <1>1, <1>5, <2>3, <2>5, <2>6
<1>6. CASE ~WholeLines(response)
  <2>1. relayed = Append(response, "NUL") /\ Len(relayed) = N + 1
    <3>1. relayed = Append(response, "NUL") /\ response \in Seq(Char) /\ "NUL" \in Char
      BY <1>3, <1>4, <1>6, SeqMonotonic DEF Closed, Char
    <3>. QED
      BY <3>1, AppendProperties
  <2>2. size = N + 1 /\ sum = N + 1
    <3>1. StrLen(payload) = N
      BY <1>2, <1>4, <2>1, StrLenIs
    <3>. QED
      BY <1>2, <2>1, <3>1 DEF size
  <2>3. SubSeq(cached, size + 1, sum) = <<>>
    BY <1>4, <2>2, SubSeqEmpty
  <2>5. block'.held = cached
    <3>1. cached \in Seq(Char) /\ Len(cached) = N + 1
      BY <1>2, <2>1 DEF Types
    <3>2. cached = [i \in 1..N + 1 |-> cached[i]]
      BY <3>1
    <3>3. [i \in 1..N + 1 |-> IF i <= N + 1 THEN cached[i] ELSE "any"]
            = [i \in 1..N + 1 |-> cached[i]]
      BY <1>4
    <3>. QED
      BY <1>1, <2>2, <3>2, <3>3
  <2>. QED
    BY <1>1, <1>2, <1>6, <2>1, <2>3, <2>5
<1>. QED
  BY <1>5, <1>6

LEMMA CacheNext ==
  Core /\ FlowInv /\ FrameInv /\ CacheInv /\ [Next]_vars => CacheInv'
<1>. SUFFICES ASSUME Types, LineInv, SumInv, FlowInv, FrameInv, CacheInv, [Next]_vars
              PROVE CacheInv'
  BY DEF Core
<1>1. CASE NewNode
  <2>1. /\ pc = "new_node" /\ pc' = "end"
        /\ UNCHANGED <<response, ending, payload, relayed, cached>>
    BY <1>1 DEF NewNode
  <2>2. cached = relayed /\ payload = relayed /\ Len(relayed) < MaxObjectSize
        /\ ending \in {"eof", "reset"}
    BY <2>1 DEF CacheInv
  <2>3. StrLen(payload) < MaxObjectSize
    <3>1. StrLen(payload) \in 0..Len(relayed)
      BY <2>2, StrLenFits DEF Types
    <3>. QED
      BY <2>2, <3>1, Lengths, ForwardAssumption
  <2>5. BlockFits'
    <3>1. ending # "reset" /\ ~LongLine(response) /\ ~Contains(response, "NUL") =>
            /\ block'.beyond = <<>>
            /\ block'.held = Append(response, IF WholeLines(response) THEN "any" ELSE "NUL")
      BY <1>1, BlockIs
    <3>. QED
      BY <2>1, <2>3, <3>1 DEF BlockFits
  <2>. QED
    BY <2>1, <2>2, <2>5 DEF CacheInv
<1>2. CASE CacheResponse
  <2>1. /\ pc = "done" /\ UNCHANGED <<response, ending, sum, payload, relayed, block>>
        /\ block = NoBlock
    BY <1>2 DEF CacheResponse, CacheInv
  <2>2. BlockFits'
    BY <2>1 DEF BlockFits
  <2>3. CASE Caches(sum)
    <3>1. /\ pc' = "new_node"
          /\ cached' = [i \in 1..sum |-> IF i <= Len(payload) THEN payload[i] ELSE "NUL"]
          /\ sum < MaxObjectSize
      BY <1>2, <2>3 DEF CacheResponse, Caches
    <3>2. ~(sum > MaxObjectSize) /\ sum <= MaxObjectSize
      BY <3>1, Lengths, ForwardAssumption
    <3>3. ending # "failed" /\ sum = Len(relayed) /\ payload = relayed
      BY <2>1, <3>2 DEF SumInv
    <3>4. ending \in {"eof", "reset"}
      BY <2>1, <3>3 DEF LineInv, Exhausted
    <3>5. cached' = relayed
      <4>1. relayed = [i \in 1..Len(relayed) |-> relayed[i]]
        BY DEF Types
      <4>2. [i \in 1..Len(relayed) |-> IF i <= Len(relayed) THEN relayed[i] ELSE "NUL"]
              = [i \in 1..Len(relayed) |-> relayed[i]]
        BY Lengths
      <4>. QED
        BY <3>1, <3>3, <4>1, <4>2
    <3>. QED
      BY <2>1, <2>2, <3>1, <3>3, <3>4, <3>5 DEF CacheInv
  <2>4. CASE ~Caches(sum)
    <3>1. pc' = "end" /\ cached' = None
      BY <1>2, <2>4 DEF CacheResponse
    <3>. QED
      BY <2>1, <2>2, <3>1 DEF CacheInv
  <2>. QED
    BY <2>3, <2>4
<1>3. CASE /\ pc \notin {"new_node", "end"} /\ pc' \notin {"new_node", "end"}
           /\ UNCHANGED <<cached, block>>
  BY <1>3 DEF CacheInv, BlockFits
<1>4. CASE UNCHANGED vars \/ Reset
  <2>1. UNCHANGED <<response, ending, payload, relayed, cached, block, pc, sum>>
    BY <1>4 DEF vars, Reset
  <2>2. BlockFits'
    BY <2>1 DEF CacheInv, BlockFits
  <2>. QED
    BY <2>1, <2>2 DEF CacheInv
<1>. QED
  BY <1>1, <1>2, <1>3, <1>4 DEF Next, Step, Ended, Refill, TakeByte, LineFull,
     EndOfFile, ReadError, Relay, WriteSome, WriteFails, NextLine

-----------------------------------------------------------------------
LEMMA InvInit == Init => IInv
<1>. SUFFICES ASSUME Init  PROVE IInv
  OBVIOUS
<1>1. Types /\ LineInv /\ SumInv
  BY TypesInit
<1>2. /\ <<>> \in Seq(Byte) /\ <<>> \in Seq(Char) /\ Len(<<>>) = 0
      /\ response \in Seq(Byte)
  BY <1>1, EmptySeq DEF Types
<1>3. FlowInv
  <2>1. got = <<>> /\ nio_buf = <<>> /\ unread = response
    BY DEF Init
  <2>2. <<>> \o <<>> \o response \o <<>> = response
    BY <1>2, ConcatEmptySeq
  <2>3. got \o nio_buf \o unread \o <<>> = response
    BY <2>1, <2>2, Zenon
  <2>. QED
    BY <1>2, <2>1, <2>3 DEF FlowInv
<1>4. DeliveryInv
  <2>1. rest = <<>> /\ client = <<>> /\ relayed = <<>> /\ <<>> \o <<>> = <<>>
    BY <1>2, ConcatEmptySeq DEF Init
  <2>. QED
    BY <1>2, <2>1 DEF DeliveryInv
<1>5. FrameInv
  <2>1. Flushed(Start)
    BY DEF Init, Flushed, Start, Closed, Taken
  <2>2. Framed(got) = Start
    BY FramedEmpty DEF Init
  <2>3. ending # "failed"
    BY ForwardAssumption DEF Init
  <2>. QED
    BY <2>1, <2>2, <2>3 DEF FrameInv
<1>6. CacheInv
  BY DEF Init, CacheInv, BlockFits
<1>. QED
  BY <1>1, <1>3, <1>4, <1>5, <1>6 DEF IInv

(* The inductive invariant holds of every step: reads of any size, a reset or
   a read error at any time, lines that are cut by MAXLINE, partial and failed
   writes, and the hand-over to the cache. *)
THEOREM ForwardCorrect == Spec => []IInv
<1>1. IInv /\ [Next]_vars => IInv'
  <2>1. IInv => Core
    BY DEF IInv, Core
  <2>2. Core' /\ FlowInv' /\ DeliveryInv' /\ FrameInv' /\ CacheInv' => IInv'
    BY DEF IInv, Core
  <2>. QED
    BY <2>1, <2>2, CoreNext, FlowNext, DeliveryNext, FrameNext, CacheNext DEF IInv
<1>. QED
  BY InvInit, <1>1, PTL DEF Spec

(* The counter, the line with the terminator behind it, the input buffer and
   the size stay within their bounds (nio.c:99-143, proxy-module.c:156-174). *)
THEOREM ForwardTypes == Spec => []TypeOK
<1>1. IInv => TypeOK
  BY DEF IInv, Types
<1>. QED
  BY <1>1, ForwardCorrect, PTL

(* The copies of proxy-module.c:166-169 stay within the MAX_OBJECT_SIZE bytes
   of payload, for lines of any lengths and also after a read error that has
   decreased the sum; only the copy of the error's own (size_t)-1 bytes does
   not, and it ends the process. *)
THEOREM CopyFits == Spec => []OverrunCrashes
<1>1. IInv => OverrunCrashes
  BY DEF IInv, SumInv, OverrunCrashes
<1>. QED
  BY <1>1, ForwardCorrect, PTL

(* nio_read and nio_readlineb lose, repeat and reorder nothing: what was handed
   out and what is in the buffer is a prefix of the response, and, if it is not
   cut short, all of what was read; what was relayed is that text with the NULs
   of Framed, wherever read() cut the response. *)
THEOREM NothingLostOnTheWay == Spec => []Conserved
<1>1. IInv => Conserved
  <2>. SUFFICES ASSUME Types, LineInv, FlowInv, FrameInv  PROVE Conserved
    BY DEF IInv
  <2>. DEFINE read == got \o nio_buf
  <2>1. PICK tail \in Seq(Byte) : read \o unread \o tail = response
                                  /\ (ending = "eof" \/ unread # <<>> => tail = <<>>)
    BY DEF FlowInv
  <2>2. got \in Seq(Byte) /\ nio_buf \in Seq(Byte) /\ unread \in Seq(Byte)
    BY DEF Types, FlowInv
  <2>3. read \in Seq(Byte)
    BY <2>2, ConcatProperties
  <2>. HIDE DEF read
  <2>4. unread \o tail \in Seq(Byte) /\ read \o unread \in Seq(Byte)
    BY <2>2, <2>3, ConcatProperties
  <2>5. read \o (unread \o tail) = response
    <3>1. (read \o unread) \o tail = read \o (unread \o tail)
      <4>1. read \in Seq(Byte) /\ unread \in Seq(Byte) /\ tail \in Seq(Byte)
        BY <2>2, <2>3
      <4>. QED
        BY <4>1, Associative
    <3>. QED
      BY <2>1, <3>1
  <2>6. IsPrefix(read, response)
    <3>1. IsPrefix(read, read \o (unread \o tail))
      BY <2>3, <2>4, ConcatPrefix
    <3>. QED
      BY <2>5, <3>1
  <2>7. ending = "eof" => read \o unread = response
    <3>1. (read \o unread) \o <<>> = read \o unread
      BY <2>4, ConcatEmptySeq
    <3>. QED
      BY <2>1, <3>1
  <2>8. IsPrefix(relayed, Closed(Framed(got)))
    <3>1. PICK more \in Seq(Char) : relayed \o more = Closed(Framed(got))
      BY Beginning
    <3>2. IsPrefix(relayed, relayed \o more)
      BY ConcatPrefix DEF Types
    <3>. QED
      BY <3>1, <3>2
  <2>9. pc \in {"done", "new_node", "end"} /\ ending # "failed" => relayed = Closed(Framed(got))
    BY DEF FrameInv, Open, Flushed
  <2>. QED
    BY <2>6, <2>7, <2>8, <2>9 DEF Conserved, read
<1>. QED
  BY <1>1, ForwardCorrect, PTL

(* Any sequence of partial writes of nio_writen delivers the bytes in their
   order, all of them as long as the client reads (nio.c:50-72). *)
THEOREM DeliveredInOrder == Spec => []Delivered
<1>1. IInv => Delivered
  <2>. SUFFICES ASSUME Types, DeliveryInv  PROVE Delivered
    BY DEF IInv
  <2>1. PICK lost \in Seq(Char) : client \o lost = relayed /\ (clientUp => lost = rest)
    BY DEF DeliveryInv
  <2>2. client \in Seq(Char)
    BY DEF Types
  <2>3. IsPrefix(client, client \o lost)
    BY <2>2, ConcatPrefix
  <2>. QED
    BY <2>1, <2>3 DEF Delivered
<1>. QED
  BY <1>1, ForwardCorrect, PTL

(* worker_main caches what forward_response has sent (proxy-module.c:60-62). *)
THEOREM CachedAsSent == Spec => []CachedIsRelayed
<1>1. IInv => CachedIsRelayed
  BY DEF IInv, CacheInv, CachedIsRelayed
<1>. QED
  BY <1>1, ForwardCorrect, PTL

(* A read error keeps the response from being cached, since the size that
   forward_response returns is then too large, or the process has crashed. *)
THEOREM CompleteUnlessReset == Spec => []CachedComplete
<1>1. IInv => CachedComplete
  <2>. SUFFICES ASSUME Types, LineInv, FlowInv, FrameInv, CacheInv, cached # None,
                       ending # "reset"
                PROVE  cached = Closed(Framed(response))
    BY DEF IInv, CachedComplete
  <2>1. cached = relayed /\ ending = "eof" /\ pc \in {"new_node", "end"}
    BY DEF CacheInv
  <2>. QED
    BY <2>1, AllRelayed
<1>. QED
  BY <1>1, ForwardCorrect, PTL

(* new_node, which allocates by strlen and copies by size (cache.c:92-95), stays
   within the block of a response of text lines that fit forwardbuf; it does
   not for long lines (see ReplyHandedOn). *)
THEOREM CopyFitsBlock == Spec => []BlockFits
<1>1. IInv => BlockFits
  BY DEF IInv, CacheInv
<1>. QED
  BY <1>1, ForwardCorrect, PTL
=======================================================================
