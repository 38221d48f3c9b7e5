-------------------------- MODULE CheckpointRestore --------------------------
(***************************************************************************)
(* A target is checkpointed, possibly several times, and at last restored  *)
(* into a fresh child while it stays paused, as                            *)
(* src/src/test/rtcr_restore_child/main.cc does: what the child is then,   *)
(* compared with what the target was.                                      *)
(***************************************************************************)
EXTENDS Restorer

vars == <<targetVars, ckVars, rsVars>>

Init == TargetInit /\ CkInit /\ RsInit

TargetStep == ckPc = "running" /\ TargetRequest /\ UNCHANGED <<ckVars, rsVars>>

CheckpointStep == rsPc = "none" /\ Checkpoint /\ UNCHANGED rsVars

Next == TargetStep \/ CheckpointStep \/ RestorerStep

Spec == Init /\ [][Next]_vars

-----------------------------------------------------------------------------
(* Which targets the checkpointer and the restorer are made for.           *)

StoredOf(o) == FindIn(stored, o)

\* There is a stored info and it was made for this very object, not for an
\* earlier one with the same badge.
Current(o) == Known(stored, o) /\ StoredOf(o).ts = o.ts

\* Every dataspace of the bootstrap is still there, and no thread shares its
\* name with another.
Identifiable ==
  /\ {5, 6} \subseteq {o.badge : o \in Of("ramds")}
  /\ \A o, p \in Of("thread") : o.tag = p.tag => o = p

\* What the restorer can recreate: an info of each object and no others, one PD
\* session, one RAM session with a dataspace of the bootstrap, nothing that
\* refers to an object that is gone, attachments of known dataspaces only, and
\* none where the child has attached something itself during bootstrap.
Restorable ==
  /\ \A o \in Objs : Current(o)
  /\ \A s \in ToSet(stored) : Known(objs, s)
  /\ \E o \in Of("ramds") : o.boot
  /\ Cardinality(Of("pd")) = 1 /\ Cardinality(Of("ram")) = 1
  /\ \A o \in Objs : o.sigh # 0 => \E c \in Of("context") : c.badge = o.sigh
  /\ \A c \in Of("context") : \E s \in Of("source") : s.badge = c.ref
  /\ \A t \in Of("thread") : \E pd \in Of("pd") : pd.badge = t.ref
  /\ \A r \in Of("region") :
       r.boot \/ (r.ref \in Dataspaces \ {ForeignDs} /\ ~(r.owner = SpaceOf(1) /\ r.tag \in {1, 2}))
  /\ ~ArrayOverrun(Under(stored, "ramds", 3))

-----------------------------------------------------------------------------
(* Properties.                                                             *)

IsObj(o) == o.kind \in Kind /\ {o.badge, o.owner, o.ref, o.ts, o.kcap, o.sigh, o.mode} \subseteq Nat

TypeOK ==
  /\ \A l \in {objs, stored, child} : \A i \in DOMAIN l : IsObj(l[i])
  /\ slots \in [1 .. MaxSlots -> Nat] /\ reply \in Nat
  /\ ckPc \in {"running", "ram", "pd", "cpu", "rm", "log", "timer", "taken", "dead"}
  /\ rsPc \in {"none", "identify", "state", "resolved", "capmap", "capspace", "content",
               "done", "failed", "crashed"}
  /\ \A b \in DOMAIN tr : \E o \in ToSet(child) : tr[b] \in {o.badge, o.ref}
  /\ rsPc \in {"capmap", "capspace"} => prev \in 1 .. MaxSlots

\* After a checkpoint the stored lists hold one info for each object of the
\* target with a badge and for no other, with the handler and mode the object
\* has now; an info made for this very object agrees with it in all that never
\* changes.  Regions are looked up by address: each info has at least a
\* neighbour in the target, and no two are for the same place (the _prepare_*
\* functions).
StoredCurrent ==
  ckPc = "taken" =>
    /\ \A o \in Objs :
         /\ o.kind # "region" =>
              /\ Cardinality({i \in DOMAIN stored : Same(stored[i], o)}) = 1
              /\ StoredOf(o).sigh = o.sigh /\ StoredOf(o).mode = o.mode
         /\ Current(o) => StoredOf(o) = [o EXCEPT !.kcap = StoredOf(o).kcap, !.quota = StoredOf(o).quota]
    /\ \A i \in DOMAIN stored : LET s == stored[i] IN
         IF s.kind # "region" THEN Known(objs, s)
         ELSE /\ FindByAddr(objs, s.owner, s.tag) # {}
              /\ \A j \in DOMAIN stored \ {i} :
                   stored[j].kind = "region" /\ stored[j].owner = s.owner => stored[j].tag # s.tag

\* A checkpoint leaves a region out only where an earlier one stored another
\* that includes its address, and a region once stored stays so while it is
\* there (_prepare_attached_regions).
RegionsAccounted ==
  [][CkPd \/ CkRm =>
       \A o \in Of("region") : InSpace(o) = (ckPc = "pd") =>
         /\ FindByAddr(stored, o.owner, o.tag) = {} => FindByAddr(stored', o.owner, o.tag) # {}
         /\ Known(stored, o) => Known(stored', o)]_vars

\* What the restorer made of a badge of the target.
Image(badge) == IF badge = 0 THEN 0 ELSE IF badge \in DOMAIN tr THEN tr[badge] ELSE -1

\* The child has this object of the target: of the same kind, in the translated
\* session, made with the translated object, with the same name, handler, mode,
\* and, unless it was upgraded after its first checkpoint, the same quota.
HasRestored(o) ==
  \E c \in ToSet(child) :
    /\ c.kind = o.kind /\ c.owner = Image(o.owner) /\ c.boot = o.boot
    /\ IF o.kind = "region" THEN c.tag = o.tag ELSE c.badge = Image(o.badge)
    /\ Current(o) => c.tag = o.tag /\ c.ref = Image(o.ref)
    /\ c.sigh = Image(o.sigh) /\ c.mode = o.mode
    /\ taken = 1 => c.quota = o.quota

\* "Recreate" and "restore state": a restore that ends has given the child a
\* counterpart of each object of the target (but for native capabilities, which
\* the restorer does not recreate), and no two objects the same.
ObjectsRestored ==
  rsPc = "done" /\ Identifiable /\ (\A o \in Objs : Current(o)) =>
    /\ \A o \in Objs : o.kind # "native" => HasRestored(o)
    /\ \A b, c \in DOMAIN tr : tr[b] = tr[c] => b = c

\* The restorer does not give up on a target of the kind it is made for.
RestorableIsRestored == Restorable => rsPc \notin {"failed", "crashed"}

\* "Restore capability space ... with new capabilities": where the target held
\* a capability to an object, the child holds one to its counterpart, unless
\* the target had not received it yet when the object was first stored.
CapSpaceRestored ==
  rsPc = "done" /\ Identifiable /\ (\A o \in Objs : Current(o)) =>
    \A o \in Objs : LET k == SlotOf(o.badge) IN
      k # 0 /\ o.kind \notin {"native", "region"} /\ (o.boot \/ StoredOf(o).kcap # 0) =>
        space[k] = Image(o.badge)

\* The capability map stays one list that reaches every capability of the
\* bootstrap and every one the restorer added, exactly once, unless two of them
\* want the same selector.
CapMapIntact ==
  LET added == {i \in DOMAIN caps : caps[i].kcap # 0}
      used == 1 .. 4 \cup {caps[i].kcap : i \in added}
      walk[n \in 0 .. MaxSlots] == IF n = 0 THEN 4 ELSE list[walk[n - 1]]
  IN  rsPc \in {"capspace", "content", "done"} /\ Cardinality(used) = 4 + Cardinality(added) =>
        /\ {walk[n] : n \in 0 .. Cardinality(used) - 1} = used
        /\ walk[Cardinality(used)] = 0

\* What is copied back: the copy of each RAM dataspace of the target once, to
\* the counterpart of that dataspace, and nothing into region maps.
MemoryPlanned ==
  rsPc = "done" /\ ~managed /\ Identifiable /\ (\A o \in Objs : Current(o)) =>
    /\ \A o \in Of("ramds") :
         \E i \in DOMAIN mem :
           /\ mem[i].copy = o.badge /\ mem[i].orig = Image(o.badge)
           /\ \A j \in DOMAIN mem \ {i} : mem[j].copy # o.badge /\ mem[j].orig # mem[i].orig
    /\ Copies \cap RegionMapDataspaces = {}

\* merge_sort returns what it is given, in ascending order.  (A fact about an
\* operator, looked at in the initial states.)
MergeSortSorts ==
  ops = 0 /\ taken = 0 /\ reply = 0 => \A n \in 0 .. 5 : \A seq \in [1 .. n -> 1 .. 3] :
    LET sorted == MergeSort(seq) IN
      /\ \A i, j \in 1 .. n : i < j => sorted[i] <= sorted[j]
      /\ \A v \in 1 .. 3 : Cardinality({i \in 1 .. n : sorted[i] = v})
                             = Cardinality({i \in 1 .. n : seq[i] = v})

\* "Copy stored content to child content" (restorer.cc:1504): at the end the
\* child's dataspaces hold what the checkpoint saved.
ContentRestored ==
  rsPc = "done" => \A i \in DOMAIN mem : content[mem[i].orig] = "checkpoint"

=============================================================================
