------------------------ MODULE MCCheckpointRestore -------------------------
(* Instances of CheckpointRestore for TLC. *)
EXTENDS CheckpointRestore

Menu(uses, n, m) == [kinds |-> uses, new |-> n, ops |-> m]

\* Each target uses a few kinds of objects that have to do with each other.
KindsTogether ==
  { Menu({"region"}, 2, 5), Menu({"ramds", "region"}, 3, 3), Menu({"rm", "map", "region"}, 3, 3),
    Menu({"ramds", "source"}, 3, 4), Menu({"source", "context"}, 2, 3),
    Menu({"context", "timer"}, 2, 4), Menu({"context", "thread"}, 2, 3), Menu({"cpu", "thread"}, 2, 2),
    Menu({"pd", "thread"}, 2, 3), Menu({"ram", "ramds"}, 2, 3), Menu({"native", "log"}, 2, 3) }

\* Enough to write into the first dataspace and restore the old state.
OneDataspace == { Menu({"ramds"}, 1, 1) }

HeadDataspace == {{1006}}

=============================================================================
