----------------------------- MODULE MCSbuf -----------------------------
(* Model-checking instance of Sbuf. *)
EXTENDS Sbuf
=======================================================================
