------------------------------ MODULE MCRWLock ------------------------------
(* RWLock on a small set of threads, with the kMaxReaders of Mutex.cpp. *)
EXTENDS RWLock

const_kMaxReaders == 1342177280     \* 0x50000000

=============================================================================
