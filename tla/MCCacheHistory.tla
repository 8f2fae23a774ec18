------------------------ MODULE MCCacheHistory ------------------------
(* Model-checking instances of CacheHistory, with the responses of MCCache. *)
EXTENDS MCCache, CacheHistory
=======================================================================
