---------------------------- MODULE MCCache ----------------------------
(* Model-checking instances of Cache.  Keys and responses are model values;
   their sizes and what strlen makes of them are given here. *)
EXTENDS Cache, TLC

CONSTANTS k1, k2, k3,     \* keys
          small, big, huge  \* responses of 2 and 3 bytes, and one not cached

(* Keys that differ for strcasecmp. *)
DistinctFold == k1 :> 1 @@ k2 :> 2 @@ k3 :> 3

AllSizes == small :> 2 @@ big :> 3 @@ huge :> 4
Sizes == [v \in Value |-> AllSizes[v]]

(* Responses whose last line has no newline: its terminator was counted as a
   byte of the response (nio.c:142-143) and is stored with it. *)
Terminated == [v \in Value |-> {Sizes[v] - 1}]

(* Responses that end with a newline are stored without a terminator: of the
   strlen(payload) + 1 bytes that were allocated the last is not written
   (cache.c:94-95).  strlen stops there or runs into the memory that follows,
   which other threads and libraries change between two calls. *)
Unterminated == [v \in Value |-> Sizes[v]..Sizes[v] + 2]

Symmetry == Permutations(Addr)
=======================================================================
