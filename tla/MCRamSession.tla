---------------------------- MODULE MCRamSession ----------------------------
(* Instances of RamSession for TLC. *)
EXTENDS RamSession

CONSTANTS t1, t2

=============================================================================
