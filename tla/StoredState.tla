----------------------------- MODULE StoredState ----------------------------
(***************************************************************************)
(* The part of Checkpointer::checkpoint() that brings the stored lists of  *)
(* Target_state up to date (src/src/rtcr/checkpointer.cc), against the     *)
(* online lists the intercepted sessions keep.  Modelled are the RAM       *)
(* dataspaces of one RAM session, the attachments of one region map, the   *)
(* region maps of one RM session and the reference-counted copy            *)
(* dataspaces both stored lists share.                                     *)
(*                                                                         *)
(* The online lists belong to the sessions' entrypoint, a thread of its    *)
(* own: a request a target thread had issued before it was paused is       *)
(* served while the checkpointer walks the lists, and the checkpointer     *)
(* takes none of their locks.  New elements go to the head of a list.      *)
(*                                                                         *)
(* A dataspace is known by the badge of its capability.  Core reuses the   *)
(* badge of a freed dataspace (src/src/test/cap_reuse/main.cc), a          *)
(* capability to the freed one stays invalid.                              *)
(***************************************************************************)
EXTENDS Integers, Sequences, FiniteSets, SequencesExt

CONSTANTS
  RamBadge,   \* badges core may give to RAM dataspaces
  RmBadge,    \* badges core may give to the dataspaces of region maps
  NoDs,       \* stands for no dataspace
  NumPages,   \* pages of the region map
  MaxRegions, \* bound on the length of the list of attachments
  MaxFlight   \* bound on the requests under way when the target is paused

Badge == RamBadge \cup RmBadge
Addr == 0 .. NumPages - 1

ASSUME NoDsAssumption == NoDs \notin Badge
ASSUME BoundsAssumption == {NumPages, MaxRegions, MaxFlight} \subseteq Nat

VARIABLES
  real,       \* real[a]: what core's region map holds at page a
  ramds,      \* ram_dataspaces of the session, head first
  regions,    \* attached_regions of the region map, head first
  maps,       \* dataspaces of the RM session's region maps
  storedRam,  \* stored_ramds_infos
  storedRegs, \* stored_attached_region_infos
  refs,       \* _copy_dataspaces: ref_count per badge, 0 if there is no entry
  stale,      \* badges of entries whose orig_ds_cap is invalid
  known,      \* _region_map_dataspaces
  toSave,     \* _memory_to_checkpoint
  ckPc,       \* where checkpoint() is
  left,       \* elements from the one it looks at to the end of the list
  flight,     \* requests still under way while the target is paused
  saved,      \* history: badges whose content was copied this time
  always,     \* history: allocated since this checkpoint began
  ever        \* history: allocated at some time since it began

onVars == <<real, ramds, regions, maps>>
stVars == <<storedRam, storedRegs, refs, known>>
hiVars == <<saved, always, ever>>
vars == <<onVars, stVars, stale, toSave, ckPc, left, flight, hiVars>>

Init ==
  /\ real = [a \in Addr |-> NoDs]
  /\ ramds = <<>> /\ regions = <<>> /\ maps = {}
  /\ storedRam = <<>> /\ storedRegs = <<>>
  /\ refs = [b \in Badge |-> 0] /\ stale = {} /\ known = {} /\ toSave = {}
  /\ ckPc = "idle" /\ left = 0 /\ flight = 0
  /\ saved = {} /\ always = {} /\ ever = {}

-----------------------------------------------------------------------------
(* Lists.                                                                  *)

Live == ToSet(ramds) \cup maps

\* find_by_addr: regions are one page long, and the upper end is included.
Covers(region, a) == region.addr <= a /\ a <= region.addr + 1

\* The place of the element find_by_addr returns, or 0.
FindByAddr(list, a) == SelectInSeq(list, LAMBDA r : Covers(r, a))

CoveredBy(list, a) == \E i \in DOMAIN list : Covers(list[i], a)

\* The element the checkpointer looks at.
CurrentAt(list) == Len(list) - left + 1
Current(list) == list[CurrentAt(list)]

\* "left" after the i-th element of a list has been removed.
LeftAfter(list, i) == IF left > 0 /\ i >= CurrentAt(list) THEN left - 1 ELSE left

IsCurrent(list, i) == left > 0 /\ i = CurrentAt(list)

-----------------------------------------------------------------------------
(* Requests of the target, served by the entrypoint of the sessions.       *)

\* Served while the target runs, or left over from before it was paused.
Request ==
  \/ ckPc = "idle" /\ UNCHANGED flight
  \/ ckPc \notin {"idle", "dead"} /\ flight > 0 /\ flight' = flight - 1

\* Core takes a destroyed dataspace out of every region map and revokes every
\* capability to it.
Destroyed(D) ==
  /\ real' = [a \in Addr |-> IF real[a] \in D THEN NoDs ELSE real[a]]
  /\ stale' = stale \cup {b \in D : refs[b] > 0}

\* Ram_session_component::alloc.
Alloc(b) ==
  /\ Request
  /\ b \notin Live
  /\ ramds' = Cons(b, ramds)
  /\ ever' = IF ckPc = "idle" THEN {} ELSE ever \cup {b}
  /\ UNCHANGED <<real, regions, maps, stVars, stale, toSave, ckPc, left, saved, always>>

\* Ram_session_component::free, possibly of a dataspace that is still attached
\* ("Implicit dataspace detachment"): the attachment list is not told.  If the
\* checkpointer looks at the destroyed element, its next pointer is garbage.
Free(i) ==
  /\ Request
  /\ i \in DOMAIN ramds
  /\ ramds' = RemoveAt(ramds, i)
  /\ Destroyed({ramds[i]})
  /\ IF ckPc = "ram"
       THEN /\ left' = LeftAfter(ramds, i)
            /\ ckPc' = IF IsCurrent(ramds, i) THEN "dead" ELSE ckPc
       ELSE UNCHANGED <<left, ckPc>>
  /\ always' = always \ {ramds[i]}
  /\ UNCHANGED <<regions, maps, stVars, toSave, saved, ever>>

\* Rm_session_component::create.
CreateMap(b) ==
  /\ Request
  /\ b \notin Live
  /\ maps' = maps \cup {b}
  /\ UNCHANGED <<real, ramds, regions, stVars, stale, toSave, ckPc, left, hiVars>>

\* The RM session is closed (Rm_session_component::destroy hangs).
CloseMaps ==
  /\ Request
  /\ maps # {} /\ maps' = {}
  /\ Destroyed(maps)
  /\ UNCHANGED <<ramds, regions, stVars, toSave, ckPc, left, hiVars>>

\* Region_map_component::attach.
Attach(a, b) ==
  /\ Request
  /\ b \in Live /\ real[a] = NoDs
  /\ Len(regions) < MaxRegions
  /\ real' = [real EXCEPT ![a] = b]
  /\ regions' = Cons([addr |-> a, ds |-> b], regions)
  /\ UNCHANGED <<ramds, maps, stVars, stale, toSave, ckPc, left, hiVars>>

\* Region_map_component::detach of an address where something is attached: the
\* first element find_by_addr hits goes, if there is one.
Detach(a) ==
  /\ Request
  /\ real[a] # NoDs
  /\ real' = [real EXCEPT ![a] = NoDs]
  /\ LET i == FindByAddr(regions, a)
     IN  IF i = 0
           THEN UNCHANGED <<regions, left, ckPc>>
           ELSE /\ regions' = RemoveAt(regions, i)
                /\ IF ckPc = "regs"
                     THEN /\ left' = LeftAfter(regions, i)
                          /\ ckPc' = IF IsCurrent(regions, i) THEN "dead" ELSE ckPc
                     ELSE UNCHANGED <<left, ckPc>>
  /\ UNCHANGED <<ramds, maps, stVars, stale, toSave, hiVars>>

Target ==
  \/ \E b \in RamBadge : Alloc(b)
  \/ \E i \in DOMAIN ramds : Free(i)
  \/ \E b \in RmBadge : CreateMap(b)
  \/ CloseMaps
  \/ \E a \in Addr : Detach(a) \/ \E b \in Badge : Attach(a, b)

-----------------------------------------------------------------------------
(* Reference-counted copy dataspaces.                                      *)

\* A new stored info refers to the entry of dataspace b, which is created if
\* there is none.
Refer(b) ==
  /\ refs' = [refs EXCEPT ![b] = @ + 1]
  /\ stale' = IF refs[b] = 0 /\ b \notin Live THEN stale \cup {b} ELSE stale

\* Slip: the last but one reference already drops the entry.
ReleaseEarly(b) ==
  /\ refs' = [refs EXCEPT ![b] = IF @ <= 2 THEN 0 ELSE @ - 1]
  /\ stale' = IF refs[b] <= 2 THEN stale \ {b} ELSE stale

\* Slip: whether there is an entry at all is not asked.
ReleaseUnchecked(b) ==
  /\ refs' = [refs EXCEPT ![b] = @ - 1]
  /\ stale' = IF refs[b] <= 1 THEN stale \ {b} ELSE stale

\* A stored info is destroyed: the last one takes the entry along.  Without an
\* entry there is only an error message.
Release(b) ==
  /\ refs' = [refs EXCEPT ![b] = IF @ > 0 THEN @ - 1 ELSE 0]
  /\ stale' = IF refs[b] <= 1 THEN stale \ {b} ELSE stale

-----------------------------------------------------------------------------
(* Checkpointer::checkpoint.                                               *)

CkStart ==
  /\ ckPc = "idle"
  /\ \E n \in 0 .. MaxFlight : flight' = n
  /\ ckPc' = "known"
  /\ always' = ToSet(ramds) /\ ever' = ToSet(ramds)
  /\ UNCHANGED <<onVars, stVars, stale, toSave, left, saved>>

\* _create_region_map_dataspaces.
CkKnown ==
  /\ ckPc = "known"
  /\ known' = maps
  /\ ckPc' = "ram" /\ left' = Len(ramds)
  /\ UNCHANGED <<onVars, storedRam, storedRegs, refs, stale, toSave, flight, hiVars>>

\* _prepare_ram_dataspaces, first loop.
CkRam ==
  /\ ckPc = "ram" /\ left > 0
  /\ LET b == Current(ramds)
     IN  IF b \in ToSet(storedRam)
           THEN UNCHANGED <<storedRam, refs, stale>>
           ELSE storedRam' = Cons(b, storedRam) /\ Refer(b)
  /\ left' = left - 1
  /\ UNCHANGED <<onVars, storedRegs, known, toSave, ckPc, flight, hiVars>>

CkRamEnd ==
  /\ ckPc = "ram" /\ left = 0
  /\ ckPc' = "ram_del" /\ left' = Len(storedRam)
  /\ UNCHANGED <<onVars, stVars, stale, toSave, flight, hiVars>>

\* Slip: the element after a removed one is skipped.
CkRamDelSkip ==
  /\ ckPc = "ram_del" /\ left > 0
  /\ LET b == Current(storedRam)
     IN  IF b \in ToSet(ramds)
           THEN left' = left - 1 /\ UNCHANGED <<storedRam, refs, stale>>
           ELSE /\ storedRam' = RemoveAt(storedRam, CurrentAt(storedRam)) /\ Release(b)
                /\ left' = IF left > 1 THEN left - 2 ELSE 0
  /\ UNCHANGED <<onVars, storedRegs, known, toSave, ckPc, flight, hiVars>>

\* ... second loop: what the target no longer has goes.
CkRamDel ==
  /\ ckPc = "ram_del" /\ left > 0
  /\ LET b == Current(storedRam)
     IN  IF b \in ToSet(ramds)
           THEN UNCHANGED <<storedRam, refs, stale>>
           ELSE storedRam' = RemoveAt(storedRam, CurrentAt(storedRam)) /\ Release(b)
  /\ left' = left - 1
  /\ UNCHANGED <<onVars, storedRegs, known, toSave, ckPc, flight, hiVars>>

CkRamDelEnd ==
  /\ ckPc = "ram_del" /\ left = 0
  /\ ckPc' = "regs" /\ left' = Len(regions)
  /\ UNCHANGED <<onVars, stVars, stale, toSave, flight, hiVars>>

\* Slip: an attachment is looked up by its dataspace, not by its address.
CkRegsByBadge ==
  /\ ckPc = "regs" /\ left > 0
  /\ LET r == Current(regions)
     IN  IF \E i \in DOMAIN storedRegs : storedRegs[i].ds = r.ds
           THEN UNCHANGED <<storedRegs, refs, stale>>
           ELSE /\ storedRegs' = Cons(r, storedRegs)
                /\ IF refs[r.ds] > 0 \/ r.ds \notin known
                     THEN Refer(r.ds)
                     ELSE UNCHANGED <<refs, stale>>
  /\ left' = left - 1
  /\ UNCHANGED <<onVars, storedRam, known, toSave, ckPc, flight, hiVars>>

\* _prepare_attached_regions, first loop: looked up by address only ("No need
\* to update stored_info").  A region map's dataspace gets no copy.
CkRegs ==
  /\ ckPc = "regs" /\ left > 0
  /\ LET r == Current(regions)
     IN  IF CoveredBy(storedRegs, r.addr)
           THEN UNCHANGED <<storedRegs, refs, stale>>
           ELSE /\ storedRegs' = Cons(r, storedRegs)
                /\ IF refs[r.ds] > 0 \/ r.ds \notin known
                     THEN Refer(r.ds)
                     ELSE UNCHANGED <<refs, stale>>
  /\ left' = left - 1
  /\ UNCHANGED <<onVars, storedRam, known, toSave, ckPc, flight, hiVars>>

CkRegsEnd ==
  /\ ckPc = "regs" /\ left = 0
  /\ ckPc' = "regs_del" /\ left' = Len(storedRegs)
  /\ UNCHANGED <<onVars, stVars, stale, toSave, flight, hiVars>>

\* ... second loop.
CkRegsDel ==
  /\ ckPc = "regs_del" /\ left > 0
  /\ LET r == Current(storedRegs)
     IN  IF CoveredBy(regions, r.addr)
           THEN UNCHANGED <<storedRegs, refs, stale>>
           ELSE storedRegs' = RemoveAt(storedRegs, CurrentAt(storedRegs)) /\ Release(r.ds)
  /\ left' = left - 1
  /\ UNCHANGED <<onVars, storedRam, known, toSave, ckPc, flight, hiVars>>

CkRegsDelEnd ==
  /\ ckPc = "regs_del" /\ left = 0
  /\ ckPc' = "memory"
  /\ UNCHANGED <<onVars, stVars, stale, toSave, left, flight, hiVars>>

\* _create_memory_to_checkpoint.
CkMemory ==
  /\ ckPc = "memory"
  /\ toSave' = {b \in Badge : refs[b] > 0}
  /\ ckPc' = "save"
  /\ UNCHANGED <<onVars, stVars, stale, left, flight, hiVars>>

\* _checkpoint_dataspace_content: attaching an invalid capability raises
\* Invalid_dataspace, which nobody catches.
CkSave(b) ==
  /\ ckPc = "save" /\ b \in toSave
  /\ IF b \in stale
       THEN ckPc' = "dead" /\ UNCHANGED <<toSave, saved>>
       ELSE /\ saved' = saved \cup {b} /\ toSave' = toSave \ {b}
            /\ UNCHANGED ckPc
  /\ UNCHANGED <<onVars, stVars, stale, left, flight, always, ever>>

CkReturn ==
  /\ ckPc = "save" /\ toSave = {}
  /\ ckPc' = "idle" /\ flight' = 0
  /\ known' = {}
  /\ saved' = {} /\ always' = {} /\ ever' = {}
  /\ UNCHANGED <<onVars, storedRam, storedRegs, refs, stale, toSave, left>>

Checkpointer ==
  \/ CkStart \/ CkKnown \/ CkRam \/ CkRamEnd \/ CkRamDel \/ CkRamDelEnd
  \/ CkRegs \/ CkRegsEnd \/ CkRegsDel \/ CkRegsDelEnd
  \/ CkMemory \/ (\E b \in Badge : CkSave(b)) \/ CkReturn

Next == Target \/ Checkpointer

Spec == Init /\ [][Next]_vars

-----------------------------------------------------------------------------
(* Properties.                                                             *)

Region == [addr : Addr, ds : Badge]

TypeOK ==
  /\ real \in [Addr -> Badge \cup {NoDs}]
  /\ ramds \in Seq(RamBadge) /\ storedRam \in Seq(RamBadge)
  /\ regions \in Seq(Region) /\ storedRegs \in Seq(Region)
  /\ maps \subseteq RmBadge /\ known \subseteq RmBadge
  /\ refs \in [Badge -> Nat] /\ stale \subseteq {b \in Badge : refs[b] > 0}
  /\ toSave \subseteq Badge /\ saved \subseteq Badge
  /\ left \in Nat
  /\ ckPc = "ram" => left <= Len(ramds)
  /\ ckPc = "ram_del" => left <= Len(storedRam)
  /\ ckPc = "regs" => left <= Len(regions)
  /\ ckPc = "regs_del" => left <= Len(storedRegs)
  /\ flight \in 0 .. MaxFlight
  /\ always \subseteq ever /\ ever \subseteq RamBadge

\* Every RAM dataspace has as many references as stored infos name it: none
\* loses its copy while an info still refers to it, and no copy outlives the
\* last info (_create_stored_* and _destroy_stored_*).
RefCountExact ==
  \A b \in RamBadge \ RmBadge :
    refs[b] = Cardinality({i \in DOMAIN storedRam : storedRam[i] = b})
            + Cardinality({i \in DOMAIN storedRegs : storedRegs[i].ds = b})

\* Whatever the entrypoint does meanwhile, the stored RAM dataspaces are
\* between those the target had all the time and those it had at some time.
Prepared == ckPc \in {"memory", "save"}

RamRegular ==
  Prepared => always \subseteq ToSet(storedRam) /\ ToSet(storedRam) \subseteq ever

\* A checkpoint that returns has copied every RAM dataspace that was there
\* from its beginning to its end.
EverySaved == [][CkReturn => always \subseteq saved]_vars

\* The restorer attaches every stored region where it was: no two of them may
\* want the same page, even if the online list names one twice.
RegionsRestorable ==
  \A i, j \in DOMAIN storedRegs :
    i # j => storedRegs[i].addr # storedRegs[j].addr

\* "Update stored_info from child_info": the stored regions are what the
\* region map holds, if no request interferes.
RegionsCurrent ==
  Prepared /\ MaxFlight = 0 =>
    \A a \in Addr : real[a] # NoDs =>
      [addr |-> a, ds |-> real[a]] \in ToSet(storedRegs)

=============================================================================
