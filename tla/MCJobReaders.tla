---------------------------- MODULE MCJobReaders ----------------------------
(* JobReaders on small instances.                                           *)
EXTENDS JobReaders

CONSTANT j1

=============================================================================
