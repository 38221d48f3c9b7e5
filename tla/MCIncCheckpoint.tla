-------------------------- MODULE MCIncCheckpoint ---------------------------
(* Instances of IncCheckpoint for TLC. *)
EXTENDS IncCheckpoint, TLC

CONSTANTS a1, a2, t1, t2

\* One managed dataspace with two designated dataspaces.
OneDsOf == (a1 :> 1) @@ (a2 :> 1)
OneListHead == <<a2>>
OneAtZero == <<a1>>

\* Threads are alike; not for the runs that check liveness.
ThreadSymmetry == Permutations(Thread)

=============================================================================
