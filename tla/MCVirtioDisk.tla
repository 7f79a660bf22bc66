---------------------------- MODULE MCVirtioDisk ----------------------------
(* Instances of VirtioDisk for model checking.                             *)
EXTENDS VirtioDisk

CONSTANTS p1, p2, p3
=============================================================================
