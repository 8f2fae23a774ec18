-------------------------- MODULE MCShutdown --------------------------
(* Model-checking instances of Shutdown, with the responses of MCCache. *)
EXTENDS MCCache, Shutdown
=======================================================================
