---------------------------- MODULE MCCpuSession ----------------------------
(* Instances of CpuSession for TLC. *)
EXTENDS CpuSession

CONSTANTS t1, t2, t3

=============================================================================
