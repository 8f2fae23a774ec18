------------------------ MODULE MCReaderWriter ------------------------
(* Model-checking instance of ReaderWriter. Threads are interchangeable, but
   symmetry is not declared because a liveness property is checked. *)
EXTENDS ReaderWriter
=======================================================================
