--------------------------- MODULE MCRequest ---------------------------
(* Model-checking instance of Request. *)
EXTENDS Request

CONSTANTS Token,      \* the tokens of URIs
          MaxStart,   \* bound: length of URIs that start in any way
          MaxRest,    \* bound: length of URIs behind http://
          MaxField    \* bound: header fields of a request

Uris == (SeqOf(Token, MaxStart) \ {<<>>})
          \cup {Prefix \o s : s \in SeqOf(Token, MaxRest)}

(* Header fields with the blank line, or cut off by the end of the input. *)
Headers == {[i \in 1..k |-> "field"] \o <<l>> : k \in 0..MaxField, l \in {"blank", "eof"}}

(* Ten characters before the colon may be one word or several. *)
Widths == [t \in Token |-> CASE t = "http" -> 4 [] t = "long" -> 10 [] OTHER -> 1]

StalePorts == {<<>>, <<"1", "1", "1">>}
=======================================================================
