--------------------------- MODULE MemorySnapshot ---------------------------
(***************************************************************************)
(* What Checkpointer::checkpoint() promises about memory, without saying   *)
(* how: between checkpoints the target writes its memory; during one       *)
(* pieces of it are stored; when the checkpoint returns, the stored copy   *)
(* of every piece equals the memory of the target.  The pieces in "missed" *)
(* are the excused ones: the checkpointer has overlooked them, or a thread *)
(* that was not kept paused has written them meanwhile, and a checkpoint   *)
(* may return without having stored them.                                  *)
(***************************************************************************)

CONSTANTS
  Cell,   \* the pieces of memory the promise is about
  Val     \* what a piece may contain

VARIABLES
  mem,    \* mem[c]: the content in the target
  copy,   \* copy[c]: the content in the stored state
  frozen, \* a checkpoint is being taken
  missed  \* pieces overlooked or disturbed and not stored since

vars == <<mem, copy, frozen, missed>>

Init ==
  /\ mem \in [Cell -> Val]
  /\ copy = mem
  /\ frozen = FALSE
  /\ missed = {}

Write(c, v) ==
  /\ ~frozen
  /\ mem' = [mem EXCEPT ![c] = v]
  /\ UNCHANGED <<copy, frozen, missed>>

Freeze ==
  /\ ~frozen
  /\ frozen' = TRUE
  /\ UNCHANGED <<mem, copy, missed>>

Overlook(c) ==
  /\ frozen
  /\ missed' = missed \cup {c}
  /\ UNCHANGED <<mem, copy, frozen>>

\* A thread set running by a late request writes during the checkpoint.
Disturb(c, v) ==
  /\ frozen
  /\ mem' = [mem EXCEPT ![c] = v]
  /\ missed' = missed \cup {c}
  /\ UNCHANGED <<copy, frozen>>

Store(c) ==
  /\ frozen
  /\ copy' = [copy EXCEPT ![c] = mem[c]]
  /\ missed' = missed \ {c}
  /\ UNCHANGED <<mem, frozen>>

Return ==
  /\ frozen
  /\ \A c \in Cell \ missed : copy[c] = mem[c]
  /\ frozen' = FALSE
  /\ UNCHANGED <<mem, copy, missed>>

Next ==
  \/ \E c \in Cell, v \in Val : Write(c, v) \/ Disturb(c, v)
  \/ Freeze
  \/ \E c \in Cell : Overlook(c) \/ Store(c)
  \/ Return

Spec == Init /\ [][Next]_vars

=============================================================================
