------------------------------ MODULE MCTimer -------------------------------
(* Timer with two waiting threads and the users of the floppy. *)
EXTENDS Timer

=============================================================================
