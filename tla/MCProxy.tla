---------------------------- MODULE MCProxy ----------------------------
(* Model-checking instance of Proxy. *)
EXTENDS Proxy
=======================================================================
