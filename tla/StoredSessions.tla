--------------------------- MODULE StoredSessions ---------------------------
(***************************************************************************)
(* The stored lists of Target_state and how Checkpointer::checkpoint()     *)
(* (src/src/rtcr/checkpointer.cc) brings all of them up to date: one       *)
(* action for each _prepare_*_sessions call, which updates the list of     *)
(* sessions and the lists below them.  It is assumed that the target       *)
(* stands still meanwhile and has no request under way; CpuSession and     *)
(* StoredState are without this assumption, which the code's pausing does  *)
(* not justify.                                                            *)
(*                                                                         *)
(* What a list element keeps from its first checkpoint and what is read    *)
(* again each time is the point here; copies of memory are in StoredState. *)
(***************************************************************************)
EXTENDS TargetSessions

CONSTANT MaxCheckpoints

ASSUME CheckpointsAssumption == MaxCheckpoints \in Nat

VARIABLES
  stored,  \* the stored lists
  ckPc,    \* running, a call of checkpoint(), taken or dead
  taken    \* checkpoints so far

ckVars == <<stored, ckPc, taken>>

CkInit == stored = <<>> /\ ckPc = "running" /\ taken = 0

-----------------------------------------------------------------------------
(* One list.                                                               *)

\* The constructor of a stored info: all of the online info and the selector
\* at which the capability map shows the badge (_find_kcap_by_badge).
Stored(o) == [o EXCEPT !.kcap = SlotOf(IF o.kind = "region" THEN o.ref ELSE o.badge)]

\* What is read again for an info that exists already.
Updated(s, o) ==
  CASE IsMap(s) \/ s.kind = "cpu"       -> [s EXCEPT !.sigh = o.sigh]
    [] s.kind \in {"thread", "timer"}   -> [s EXCEPT !.sigh = o.sigh, !.mode = o.mode]
    [] OTHER                            -> s

\* The list of the elements that are in the class, for objects found by their
\* badges.  Infos of objects that are new go to the head one by one, so their
\* order is turned round; infos whose object is gone are destroyed.
Mirrored(list, class) ==
  LET online == Only(objs, class)
      new == Only(online, {o \in class : ~Known(list, o)})
      kept == Only(list, {s \in class : Known(online, s)})
      rest == Only(list, ToSet(list) \ class)
  IN  Reverse([i \in DOMAIN new |-> Stored(new[i])])
        \o [i \in DOMAIN kept |-> Updated(kept[i], FindIn(online, kept[i]))] \o rest

OfKind(list, kind) == Mirrored(list, {o \in Objs \cup ToSet(list) : o.kind = kind})

-----------------------------------------------------------------------------
(* The functions of the checkpointer, one for each kind.                   *)

PrepareRamSessions(list) == OfKind(list, "ram")
PrepareRamDataspaces(list) == OfKind(list, "ramds")
PreparePdSessions(list) == OfKind(list, "pd")
PrepareNativeCaps(list) == OfKind(list, "native")
PrepareSignalSources(list) == OfKind(list, "source")
PrepareSignalContexts(list) == OfKind(list, "context")
PrepareCpuSessions(list) == OfKind(list, "cpu")
PrepareCpuThreads(list) == OfKind(list, "thread")
PrepareRmSessions(list) == OfKind(list, "rm")
PrepareLogSessions(list) == OfKind(list, "log")
PrepareTimerSessions(list) == OfKind(list, "timer")

\* Mutant of RegionsAdded: infos are looked up by the dataspace.
RegionsAddedByBadge(list, online) ==
  LET added[n \in 0 .. Len(online)] ==
        IF n = 0 THEN list
        ELSE IF \E s \in ToSet(added[n - 1]) : /\ s.kind = "region" /\ s.owner = online[n].owner
                                               /\ s.ref = online[n].ref
               THEN added[n - 1]
               ELSE Cons(Stored(online[n]), added[n - 1])
  IN  added[Len(online)]

\* _prepare_attached_regions looks regions up by address.  Its first loop makes
\* an info unless, by now, one in the list includes the address ...
RegionsAdded(list, online) ==
  LET added[n \in 0 .. Len(online)] ==
        IF n = 0 THEN list
        ELSE IF FindByAddr(added[n - 1], online[n].owner, online[n].tag) = {}
               THEN Cons(Stored(online[n]), added[n - 1])
               ELSE added[n - 1]
  IN  added[Len(online)]

\* Mutant of PrepareAttachedRegions: without the second loop.
PrepareAttachedRegionsAddOnly(list, ofSpace) ==
  RegionsAdded(list, Only(objs, {o \in Objs : o.kind = "region" /\ InSpace(o) = ofSpace}))

\* ... and its second loop destroys an info if no region of the target includes
\* its address.  So an info may be missing, and another may stay, because of a
\* neighbour.
PrepareAttachedRegions(list, ofSpace) ==
  LET all == RegionsAdded(list, Only(objs, {o \in Objs : o.kind = "region" /\ InSpace(o) = ofSpace}))
  IN  Only(all, {s \in ToSet(all) : s.kind = "region" /\ InSpace(s) = ofSpace =>
                                      FindByAddr(objs, s.owner, s.tag) # {}})

PrepareRegionMaps(list, ofSpace) ==
  PrepareAttachedRegions(OfKind(list, IF ofSpace THEN "space" ELSE "map"), ofSpace)

-----------------------------------------------------------------------------
(* The memory that the infos name.                                         *)

DataspaceOf(s) == IF s.kind = "ramds" THEN s.badge ELSE s.ref

IsRamDs(badge) == badge % NthBadge(1) < DsOf(0)

\* The dataspace is older than the info and still there.
Stands(s) ==
  \/ DataspaceOf(s) = ForeignDs
  \/ \E o \in Objs :
       /\ o.ts <= s.ts
       /\ o.kind \in {"ramds", "map"}
       /\ DataspaceOf(s) = IF o.kind = "map" THEN o.ref ELSE o.badge

\* Infos with a capability of a dataspace that is gone.
Lost == {s \in ToSet(stored) : s.kind \in {"ramds", "region"} /\ ~Stands(s)}

CapMapFound == \E r \in FindByAddr(objs, SpaceOf(1), CapMapRegion) : Stands(r)

-----------------------------------------------------------------------------
(* A checkpoint.                                                           *)

Call(from, to, list) ==
  /\ ckPc = from /\ ckPc' = to
  /\ stored' = list
  /\ UNCHANGED <<taken, targetVars>>

\* _create_cap_map_infos attaches the region with the target's capability map.
CkStart ==
  /\ ckPc = "running" /\ taken < MaxCheckpoints
  /\ CapMapFound
  /\ ckPc' = "ram" /\ taken' = taken + 1
  /\ UNCHANGED <<stored, targetVars>>

\* It raises an exception when no region is there or its dataspace is gone.
CkNoCapMap ==
  /\ ckPc = "running" /\ taken < MaxCheckpoints
  /\ ~CapMapFound
  /\ ckPc' = "dead"
  /\ UNCHANGED <<stored, taken, targetVars>>

CkRam == Call("ram", "pd", PrepareRamDataspaces(PrepareRamSessions(stored)))

CkPd ==
  Call("pd", "cpu",
       PrepareRegionMaps(PrepareSignalContexts(PrepareSignalSources(
         PrepareNativeCaps(PreparePdSessions(stored)))), TRUE))

\* _destroy_stored_pd_session gives the three region maps, which are members
\* of the session info, back to the allocator: what follows is undefined, and
\* the checkpointer may not survive it.
CkPdDies ==
  /\ ckPc = "pd"
  /\ \E s \in ToSet(stored) : s.kind = "pd" /\ ~Known(objs, s)
  /\ ckPc' = "dead"
  /\ UNCHANGED <<stored, taken, targetVars>>

CkCpu == Call("cpu", "rm", PrepareCpuThreads(PrepareCpuSessions(stored)))

CkRm == Call("rm", "log", PrepareRegionMaps(PrepareRmSessions(stored), FALSE))

CkLog == Call("log", "timer", PrepareLogSessions(stored))

\* At last the memory is copied: what the infos name of RAM must be there.
CkTimer ==
  /\ ~\E s \in Lost : IsRamDs(DataspaceOf(s))
  /\ Call("timer", "taken", PrepareTimerSessions(stored))

\* _checkpoint_dataspace_content attaches a dataspace that is gone, and nobody
\* catches Invalid_dataspace.  An old info can pass its capability on to new
\* ones with the same badge, and dataspaces of region maps are copied only if
\* nobody knows them as such: StoredState has the counted copies.
CkContentDies ==
  /\ ckPc \in {"ram", "timer"}
  /\ Lost # {}
  /\ ckPc' = "dead"
  /\ UNCHANGED <<stored, taken, targetVars>>

\* The caller of checkpoint() resumes the target.
CkResume == Call("taken", "running", stored)

Checkpoint ==
  \/ CkStart \/ CkNoCapMap \/ CkRam \/ CkPd \/ CkPdDies \/ CkCpu \/ CkRm \/ CkLog
  \/ CkTimer \/ CkContentDies \/ CkResume

=============================================================================
