--------------------------- MODULE MCForward ---------------------------
(* Model-checking instance of Forward. *)
EXTENDS Forward
=======================================================================
