---------------------------- MODULE RWLock ----------------------------
(***************************************************************************)
(* What the reader-writer lock of lib/src/cache.c promises its callers     *)
(* (lib/include/cache.h:10-14): a thread that writes is alone, threads     *)
(* that read may share.  The lock is named by who holds it; how waiting    *)
(* is organised (semaphores, a reader count) is left to ReaderWriter.      *)
(***************************************************************************)
CONSTANT Thread

VARIABLES readers,  \* threads inside a read section
          writers   \* threads inside a write section

vars == <<readers, writers>>

Init == readers = {} /\ writers = {}

ReadAcquire(t) ==
  /\ t \notin readers /\ writers = {}
  /\ readers' = readers \cup {t}
  /\ UNCHANGED writers

ReadRelease(t) ==
  /\ t \in readers
  /\ readers' = readers \ {t}
  /\ UNCHANGED writers

WriteAcquire(t) ==
  /\ readers = {} /\ writers = {}
  /\ writers' = {t}
  /\ UNCHANGED readers

WriteRelease(t) ==
  /\ t \in writers
  /\ writers' = writers \ {t}
  /\ UNCHANGED readers

Next == \E t \in Thread :
          ReadAcquire(t) \/ ReadRelease(t) \/ WriteAcquire(t) \/ WriteRelease(t)

Spec == Init /\ [][Next]_vars
=======================================================================
