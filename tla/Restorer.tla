------------------------------ MODULE Restorer ------------------------------
(***************************************************************************)
(* Restorer::restore() (src/src/rtcr/restorer.cc): a fresh child, which    *)
(* waits in its first request for a LOG session, is given the objects,     *)
(* their state, the capabilities and the memory of a checkpoint.           *)
(*                                                                         *)
(* The restorer walks the stored lists several times; todo is what is left *)
(* of the walk under way, and an action treats its first element the way   *)
(* one function of the restorer treats one element of its list.            *)
(***************************************************************************)
EXTENDS StoredSessions

CONSTANT HeadsUp  \* sets of dataspaces whose first designated dataspace bootstrap touches

VARIABLES
  child,    \* the child's objects, newest first
  tr,       \* _ckpt_to_resto_infos: stored badge to the child's badge
  pairs,    \* what _identify_ram_dataspaces returned
  caps,     \* _capability_map_infos: which capability goes to which selector
  mem,      \* _memory_to_restore
  managed,  \* the child's RAM dataspaces are managed (incremental checkpoint)
  todo,     \* what is left of the present walk
  rsPc,     \* none, the walk under way, done, failed (exception) or crashed
  list,     \* list pointers of the stored capability map, 0 is null
  prev,     \* previous_cap_index
  space,    \* the child's capability space
  content   \* what is in a dataspace of the child or in a stored copy

rsVars == <<child, tr, pairs, caps, mem, managed, todo, rsPc, list, prev, space, content>>
capVars == <<list, prev, space>>
memVars == <<mem, managed, content>>
outside == <<targetVars, ckVars>>

Nothing == [x \in {} |-> 0]

RsInit ==
  /\ child = <<>> /\ tr = Nothing /\ pairs = Nothing /\ caps = <<>> /\ mem = <<>>
  /\ managed = FALSE /\ todo = <<>> /\ rsPc = "none"
  /\ list = Nothing /\ prev = 0 /\ space = Nothing /\ content = Nothing

-----------------------------------------------------------------------------
(* Walks over the stored lists.                                            *)

\* Each session followed by its members.
Walk(kind, memberKinds) ==
  LET sessions == Under(stored, kind, 0)
      Below(s) == FlattenSeq([k \in DOMAIN memberKinds |-> Under(stored, memberKinds[k], s.badge)])
  IN  FlattenSeq([i \in DOMAIN sessions |-> <<sessions[i]>> \o Below(sessions[i])])

\* Each region map followed by its attached regions.
WithRegions(walk) ==
  FlattenSeq([i \in DOMAIN walk |->
    <<walk[i]>> \o (IF IsMap(walk[i]) THEN Under(stored, "region", walk[i].badge) ELSE <<>>)])

\* Mutant of IdentifyWalk: contexts are recreated before their sources.
IdentifyWalkContextsFirst ==
  Walk("ram", <<"ramds">>) \o Walk("pd", <<"context", "source", "space">>)
    \o Walk("cpu", <<"thread">>) \o Walk("rm", <<"map">>) \o Walk("log", <<>>) \o Walk("timer", <<>>)

IdentifyWalk ==
  Walk("ram", <<"ramds">>) \o Walk("pd", <<"source", "context", "space">>)
    \o Walk("cpu", <<"thread">>) \o Walk("rm", <<"map">>) \o Walk("log", <<>>) \o Walk("timer", <<>>)

StateWalk ==
  WithRegions(Walk("ram", <<"ramds">>) \o Walk("pd", <<"space">>)
    \o Walk("cpu", <<"thread">>) \o Walk("rm", <<"map">>) \o Walk("log", <<>>) \o Walk("timer", <<>>))

\* The element of this kind that comes next in the walk.
Visit(stage, kind) ==
  /\ rsPc = stage /\ todo # <<>> /\ Head(todo).kind = kind
  /\ todo' = Tail(todo)

\* The stored info the restorer looks at.
S == Head(todo)

\* restore() ends here, in an exception ("failed") or on a null pointer.
Ends(pc) == rsPc' = pc /\ UNCHANGED <<child, caps, tr>>

\* Target_child::resolve_session_request: the child has bootstrapped and asks
\* for its first LOG session.
LogRequest ==
  /\ ckPc = "taken" /\ rsPc = "none"
  /\ child' = Reverse(Bootstrapped(1000))
  /\ todo' = IdentifyWalk /\ rsPc' = "identify"
  /\ UNCHANGED <<outside, tr, pairs, caps, memVars, capVars>>

-----------------------------------------------------------------------------
(* Identify bootstrapped objects, recreate the others.                     *)

\* The child's object made during bootstrap; there is one of each such kind.
BootOf(kind) == CHOOSE o \in ToSet(child) : o.kind = kind /\ o.boot

NewBadge == NthBadge(1011 + Len(child))

\* A translation goes to the head of its list, where find_by_ckpt_badge begins.
Noted(infos, badge, to) ==
  [b \in DOMAIN infos \cup {badge} |-> IF b = badge THEN to ELSE infos[b]]

Identified(badge) ==
  /\ tr' = Noted(tr, S.badge, badge)
  /\ UNCHANGED <<child, caps>>

\* The session's own functions make the object; its capability will go where
\* the target had the old one.
Recreated(owner, ref) ==
  /\ child' = Cons(Obj(S.kind, NewBadge, owner, ref, S.tag), child)
  /\ caps' = Cons([kcap |-> S.kcap, cap |-> NewBadge], caps)
  /\ tr' = Noted(tr, S.badge, NewBadge)

restUnchanged == <<outside, capVars, memVars>>

\* Mutant of Merge: when the right half is used up, the left one starts again.
MergeRestartsLeft(a, b) ==
  LET all == a \o b
      n1 == Len(a)
      n == Len(all)
      Step(m) ==
        IF all[m.p1] <= all[m.p2]
          THEN [m EXCEPT !.out = Append(@, all[m.p1]), !.p1 = IF @ \in {n1, n} THEN n ELSE @ + 1]
          ELSE [m EXCEPT !.out = Append(@, all[m.p2]), !.p2 = IF @ = n THEN 1 ELSE @ + 1]
      after[i \in 0 .. n] ==
        IF i = 0 THEN [p1 |-> 1, p2 |-> n1 + 1, out |-> <<>>] ELSE Step(after[i - 1])
  IN  after[n].out

\* merge_sort.
Merge(a, b) ==
  LET all == a \o b
      n1 == Len(a)
      n == Len(all)
      Step(m) ==
        IF all[m.p1] <= all[m.p2]
          THEN [m EXCEPT !.out = Append(@, all[m.p1]), !.p1 = IF @ \in {n1, n} THEN n ELSE @ + 1]
          ELSE [m EXCEPT !.out = Append(@, all[m.p2]), !.p2 = IF @ = n THEN n1 ELSE @ + 1]
      after[i \in 0 .. n] ==
        IF i = 0 THEN [p1 |-> 1, p2 |-> n1 + 1, out |-> <<>>] ELSE Step(after[i - 1])
  IN  after[n].out

\* sorted[n][lo]: the n elements from the lo-th on, as the two halves merged.
MergeSort(seq) ==
  LET sorted[n \in 0 .. Len(seq)] ==
        [lo \in 1 .. Len(seq) + 1 - n |->
           IF n <= 1 THEN SubSeq(seq, lo, lo + n - 1)
           ELSE Merge(sorted[n \div 2][lo], sorted[n - n \div 2][lo + n \div 2])]
  IN  sorted[Len(seq)][1]

StampsOfBoot(ramds) ==
  LET boot == Only(ramds, {o \in ToSet(ramds) : o.boot}) IN [i \in DOMAIN boot |-> boot[i].ts]

\* Mutant of BootPairs: the n-th in the list, not the n-th oldest.
BootPairsByPlace(storedRamds, ramds) ==
  LET old == StampsOfBoot(storedRamds)
      new == StampsOfBoot(ramds)
      ByStamp(l, ts) == CHOOSE o \in ToSet(l) : o.ts = ts
  IN  [b \in {ByStamp(storedRamds, old[i]).badge : i \in DOMAIN old} |->
         ByStamp(ramds, new[CHOOSE i \in DOMAIN old : ByStamp(storedRamds, old[i]).badge = b]).badge]

\* _identify_ram_dataspaces: the n-th oldest stored dataspace is taken for the
\* n-th oldest of the child.
BootPairs(storedRamds, ramds) ==
  LET old == MergeSort(StampsOfBoot(storedRamds))
      new == MergeSort(StampsOfBoot(ramds))
      ByStamp(l, ts) == CHOOSE o \in ToSet(l) : o.ts = ts
  IN  [b \in {ByStamp(storedRamds, old[i]).badge : i \in DOMAIN old} |->
         ByStamp(ramds, new[CHOOSE i \in DOMAIN old : ByStamp(storedRamds, old[i]).badge = b]).badge]

\* The index that fills the array of timestamps also counts dataspaces that are
\* not bootstrapped: one before the last bootstrapped one, and the array is
\* written past its end and read where nothing was written.
ArrayOverrun(ramds) ==
  \E i, j \in DOMAIN ramds : i < j /\ ~ramds[i].boot /\ ramds[j].boot

\* Of the values such an array can have, only the sorted timestamps themselves
\* let every stored dataspace be found; any other ends in a null pointer.
IdentifyRam ==
  /\ Visit("identify", "ram")
  /\ IF S.boot THEN Identified(BootOf("ram").badge) ELSE Recreated(0, 0)
  /\ LET storedRamds == Under(stored, "ramds", S.badge)
         found == BootPairs(storedRamds, Under(child, "ramds", BootOf("ram").badge))
     IN  IF DOMAIN StampsOfBoot(storedRamds) = {}
           THEN rsPc' = "failed" /\ pairs' = pairs
           ELSE /\ pairs' = found
                /\ \/ rsPc' = rsPc
                   \/ ArrayOverrun(storedRamds) /\ rsPc' = "crashed"
  /\ UNCHANGED restUnchanged

IdentifyRamds ==
  /\ Visit("identify", "ramds")
  /\ IF S.boot THEN Identified(pairs[S.badge]) ELSE Recreated(tr[S.owner], 0)
  /\ UNCHANGED <<rsPc, pairs, restUnchanged>>

\* The three region maps come with the session; no selector is noted for them.
\* A session without a signal source of its own is refused.
IdentifyPd ==
  /\ Visit("identify", "pd")
  /\ IF S.boot
       THEN Identified(BootOf("pd").badge) /\ UNCHANGED rsPc
       ELSE LET areas == SpaceOf(NewBadge) IN
            /\ child' = <<Obj("pd", NewBadge, 0, 0, 0),
                          Obj("space", areas, NewBadge, DsOf(areas), 0)>> \o child
            /\ caps' = Cons([kcap |-> S.kcap, cap |-> NewBadge], caps)
            /\ tr' = Noted(tr, S.badge, NewBadge)
            /\ rsPc' = "failed"
  /\ UNCHANGED <<pairs, restUnchanged>>

IdentifySource ==
  /\ Visit("identify", "source")
  /\ IF S.boot THEN Identified(BootOf("source").badge) ELSE Recreated(tr[S.owner], 0)
  /\ UNCHANGED <<rsPc, pairs, restUnchanged>>

IsChild(kind, badge) == \E o \in ToSet(child) : o.kind = kind /\ o.badge = badge

\* A source that is gone leaves a null pointer, and one whose badge stands for
\* something else now is refused by core.
IdentifyContext ==
  /\ Visit("identify", "context")
  /\ \/ S.ref \notin DOMAIN tr /\ Ends("crashed")
     \/ /\ S.ref \in DOMAIN tr
        /\ IF IsChild("source", tr[S.ref])
             THEN Recreated(tr[S.owner], tr[S.ref]) /\ UNCHANGED rsPc
             ELSE Ends("failed")
  /\ UNCHANGED <<pairs, restUnchanged>>

\* Mutant of IdentifySpace: the areas of the stored session, not the child's.
IdentifySpaceOfStored ==
  /\ Visit("identify", "space")
  /\ LET areas == SpaceOf(S.owner)
     IN  tr' = Noted(Noted(tr, S.badge, areas), S.ref, DsOf(areas))
  /\ UNCHANGED <<child, caps, rsPc, pairs, restUnchanged>>

IdentifySpace ==
  /\ Visit("identify", "space")
  /\ LET areas == SpaceOf(tr[S.owner])
     IN  tr' = Noted(Noted(tr, S.badge, areas), S.ref, DsOf(areas))
  /\ UNCHANGED <<child, caps, rsPc, pairs, restUnchanged>>

IdentifyCpu ==
  /\ Visit("identify", "cpu")
  /\ IF S.boot THEN Identified(BootOf("cpu").badge) ELSE Recreated(0, 0)
  /\ UNCHANGED <<rsPc, pairs, restUnchanged>>

\* find_by_name: a bootstrapped thread is the first of the session with its name.
Named(cpu, name) ==
  Head(Only(child, {o \in ToSet(child) : o.kind = "thread" /\ o.owner = cpu /\ o.tag = name}))

PdTranslated(badge) == badge \in DOMAIN tr /\ IsChild("pd", tr[badge])

IdentifyThread ==
  /\ Visit("identify", "thread")
  /\ \/ S.boot /\ Identified(Named(tr[S.owner], S.tag).badge) /\ UNCHANGED rsPc
     \/ ~S.boot /\ ~PdTranslated(S.ref) /\ Ends("failed")
     \/ ~S.boot /\ PdTranslated(S.ref) /\ Recreated(tr[S.owner], tr[S.ref]) /\ UNCHANGED rsPc
  /\ UNCHANGED <<pairs, restUnchanged>>

IdentifyRm ==
  /\ Visit("identify", "rm") /\ Recreated(0, 0)
  /\ UNCHANGED <<rsPc, pairs, restUnchanged>>

IdentifyMap ==
  /\ Visit("identify", "map")
  /\ child' = Cons(Obj("map", NewBadge, tr[S.owner], DsOf(NewBadge), 0), child)
  /\ caps' = Cons([kcap |-> S.kcap, cap |-> NewBadge], caps)
  /\ tr' = Noted(Noted(tr, S.badge, NewBadge), S.ref, DsOf(NewBadge))
  /\ UNCHANGED <<rsPc, pairs, restUnchanged>>

IdentifyLog ==
  /\ Visit("identify", "log") /\ Recreated(0, 0)
  /\ UNCHANGED <<rsPc, pairs, restUnchanged>>

IdentifyTimer ==
  /\ Visit("identify", "timer") /\ Recreated(0, 0)
  /\ UNCHANGED <<rsPc, pairs, restUnchanged>>

Identify ==
  \/ IdentifyRam \/ IdentifyRamds \/ IdentifyPd \/ IdentifySource \/ IdentifyContext
  \/ IdentifySpace \/ IdentifyCpu \/ IdentifyThread \/ IdentifyRm \/ IdentifyMap
  \/ IdentifyLog \/ IdentifyTimer

IdentifyEnd ==
  /\ rsPc = "identify" /\ todo = <<>>
  /\ rsPc' = "state" /\ todo' = StateWalk
  /\ UNCHANGED <<outside, child, tr, pairs, caps, memVars, capVars>>

-----------------------------------------------------------------------------
(* Restore the state of all objects.                                       *)

\* _find_child_object.
Counterpart == CHOOSE o \in ToSet(child) : o.kind = S.kind /\ o.badge = tr[S.badge]

\* The context that stands for the stored handler; it may be in any PD session.
SighFound == S.sigh = 0 \/ (S.sigh \in DOMAIN tr /\ IsChild("context", tr[S.sigh]))

\* Handler, mode and quota, as far as the kind has them; a handler that is
\* gone ends the restoration.
StateRestored ==
  LET new == [Counterpart EXCEPT !.sigh = IF S.sigh = 0 THEN @ ELSE tr[S.sigh],
                                 !.mode = IF S.mode = 0 THEN @ ELSE S.mode,
                                 !.quota = @ + S.quota]
  IN  IF SighFound THEN child' = Changed(child, Counterpart, new) /\ UNCHANGED rsPc
                   ELSE rsPc' = "failed" /\ UNCHANGED child

RestoreObject(kind) ==
  /\ Visit("state", kind)
  /\ StateRestored
  /\ UNCHANGED <<tr, pairs, caps, restUnchanged>>

RestoreRam == RestoreObject("ram")
RestorePd == RestoreObject("pd")
RestoreSpace == RestoreObject("space")
RestoreCpu == RestoreObject("cpu")
RestoreThread == RestoreObject("thread")
RestoreRm == RestoreObject("rm")
RestoreMap == RestoreObject("map")
RestoreLog == RestoreObject("log")
RestoreTimer == RestoreObject("timer")

\* Copies are known by the badge of the dataspace they were made of.
ToRestore(orig, copy) == [orig |-> orig, copy |-> copy, headOnly |-> FALSE]

RestoreRamds ==
  /\ Visit("state", "ramds")
  /\ mem' = Cons(ToRestore(tr[S.badge], S.badge), mem)
  /\ UNCHANGED <<outside, child, tr, pairs, caps, rsPc, managed, content, capVars>>

\* _create_region_map_dataspaces.
RegionMapDataspaces == {o.ref : o \in {s \in ToSet(stored) : IsMap(s)}}

InMemory(copy) == \E i \in DOMAIN mem : mem[i].copy = copy

\* Mutant of MemoryAdded: one entry for each region, not for each dataspace.
MemoryAddedPerRegion(ds) ==
  mem' = IF S.ref \in RegionMapDataspaces THEN mem ELSE Cons(ToRestore(ds, S.ref), mem)

MemoryAdded(ds) ==
  mem' = IF S.ref \in RegionMapDataspaces \/ InMemory(S.ref) THEN mem
         ELSE Cons(ToRestore(ds, S.ref), mem)

\* The child never detaches, so core's region map holds what the list says.
Occupied(map, addr) ==
  \E o \in ToSet(child) : o.kind = "region" /\ o.owner = map /\ o.tag = addr

IsDataspace(badge) ==
  IsChild("ramds", badge) \/ \E o \in ToSet(child) : IsMap(o) /\ o.ref = badge

\* A bootstrapped region is the first in the child's list that includes the
\* address; there always is one.  Any other is attached again, which core
\* refuses where the child has a region already; a dataspace without translation
\* is to be allocated, but the code before that uses the region it has not found
\* yet.
RestoreRegion ==
  LET map == tr[S.owner] IN
  /\ Visit("state", "region")
  /\ \/ /\ S.boot
        /\ \E o \in FindByAddr(child, map, S.tag) : MemoryAdded(o.ref)
        /\ UNCHANGED <<child, rsPc>>
     \/ ~S.boot /\ S.ref \notin DOMAIN tr /\ rsPc' = "crashed" /\ UNCHANGED <<child, mem>>
     \/ /\ ~S.boot /\ S.ref \in DOMAIN tr
        /\ IF ~Occupied(map, S.tag) /\ IsDataspace(tr[S.ref])
             THEN /\ child' = Cons(Obj("region", 0, map, tr[S.ref], S.tag), child)
                  /\ MemoryAdded(tr[S.ref])
                  /\ UNCHANGED rsPc
             ELSE rsPc' = "failed" /\ UNCHANGED <<child, mem>>
  /\ UNCHANGED <<outside, tr, pairs, caps, managed, content, capVars>>

Restore ==
  \/ RestoreRam \/ RestoreRamds \/ RestorePd \/ RestoreSpace \/ RestoreCpu \/ RestoreThread
  \/ RestoreRm \/ RestoreMap \/ RestoreRegion \/ RestoreLog \/ RestoreTimer

\* _resolve_inc_checkpoint_dataspaces, for one managed dataspace of the child:
\* its entry is replaced by one for the designated dataspace at the head of the
\* list, if that is attached (the `if` should be a loop), else dropped.
Resolved(memory, ds, headUp) ==
  LET at == {i \in DOMAIN memory : memory[i].orig = ds}
      i == CHOOSE j \in at : \A k \in at : j <= k
  IN  IF at = {} THEN memory
      ELSE (IF ds \in headUp THEN <<[memory[i] EXCEPT !.headOnly = TRUE]>> ELSE <<>>)
             \o RemoveAt(memory, i)

\* With incremental checkpoints the dataspaces of the child are managed, and
\* bootstrapping has touched some of them.
ResolveInc ==
  /\ rsPc = "state" /\ todo = <<>>
  /\ rsPc' = "resolved"
  /\ \/ managed' = FALSE /\ mem' = mem
     \/ /\ managed' = TRUE
        /\ \E headUp \in HeadsUp :
             mem' = FoldLeft(LAMBDA m, o : Resolved(m, o.badge, headUp), mem,
                             Only(child, {o \in ToSet(child) : o.kind = "ramds"}))
  /\ UNCHANGED <<outside, child, tr, pairs, caps, todo, content, capVars>>

-----------------------------------------------------------------------------
(* Capability map, capability space and memory.                            *)

\* _restore_cap_map: the array of the child's capability map, in which every
\* capability of the bootstrap was inserted at the head of the list, is copied
\* to the stored one.  The list continues behind the lowest selector that has
\* a successor.  The regions of both maps are always found: the child's is of
\* its bootstrap, and the target's was found by the checkpoint.
CopyCapMap ==
  /\ rsPc = "resolved"
  /\ rsPc' = "capmap" /\ todo' = caps
  /\ list' = [k \in 0 .. MaxSlots |-> IF k \in 2 .. 4 THEN k - 1 ELSE 0]
  /\ prev' = 2
  /\ space' = [k \in 1 .. MaxSlots |-> IF k <= 4 THEN BootSlots(1000)[k] ELSE 0]
  /\ UNCHANGED <<outside, child, tr, pairs, caps, memVars>>

\* Mutant of PatchCapMap: the two links are written in the other order.
PatchCapMapSwapped ==
  LET cur == Head(todo).kcap IN
  /\ rsPc = "capmap" /\ todo # <<>>
  /\ todo' = Tail(todo)
  /\ IF cur = 0 THEN UNCHANGED <<list, prev>>
     ELSE /\ list' = LET linked == [list EXCEPT ![prev] = cur] IN [linked EXCEPT ![cur] = linked[prev]]
          /\ prev' = cur
  /\ UNCHANGED <<outside, child, tr, pairs, caps, rsPc, space, memVars>>

\* _restore_cap_map, for one capability: it is linked behind the one before.
PatchCapMap ==
  LET cur == Head(todo).kcap IN
  /\ rsPc = "capmap" /\ todo # <<>>
  /\ todo' = Tail(todo)
  /\ IF cur = 0 THEN UNCHANGED <<list, prev>>
     ELSE /\ list' = [[list EXCEPT ![cur] = list[prev]] EXCEPT ![prev] = cur]
          /\ prev' = cur
  /\ UNCHANGED <<outside, child, tr, pairs, caps, rsPc, space, memVars>>

PatchCapMapEnd ==
  /\ rsPc = "capmap" /\ todo = <<>>
  /\ rsPc' = "capspace" /\ todo' = caps
  /\ UNCHANGED <<outside, child, tr, pairs, caps, memVars, capVars>>

\* Mutant of Install: what bootstrap left at the selector stays there.
InstallIfFree ==
  /\ rsPc = "capspace" /\ todo # <<>>
  /\ todo' = Tail(todo)
  /\ space' = [k \in DOMAIN space |->
                 IF k = Head(todo).kcap /\ space[k] = 0 THEN Head(todo).cap ELSE space[k]]
  /\ UNCHANGED <<outside, child, tr, pairs, caps, rsPc, list, prev, memVars>>

\* _restore_cap_space, for one capability.
Install ==
  /\ rsPc = "capspace" /\ todo # <<>>
  /\ todo' = Tail(todo)
  /\ space' = [k \in DOMAIN space |-> IF k = Head(todo).kcap THEN Head(todo).cap ELSE space[k]]
  /\ UNCHANGED <<outside, child, tr, pairs, caps, rsPc, list, prev, memVars>>

Origs == {mem[i].orig : i \in DOMAIN mem}
Copies == {mem[i].copy : i \in DOMAIN mem}

InstallEnd ==
  /\ rsPc = "capspace" /\ todo = <<>>
  /\ rsPc' = "content" /\ todo' = mem
  /\ content' = [x \in Origs \cup Copies |-> IF x \in Origs THEN "fresh" ELSE "checkpoint"]
  /\ UNCHANGED <<outside, child, tr, pairs, caps, mem, managed, capVars>>

\* _restore_dataspace_content: memcpy(copy, orig).
RestoreContent ==
  /\ rsPc = "content" /\ todo # <<>>
  /\ todo' = Tail(todo)
  /\ content' = [content EXCEPT ![Head(todo).copy] = content[Head(todo).orig]]
  /\ UNCHANGED <<outside, child, tr, pairs, caps, rsPc, mem, managed, capVars>>

RestoreReturn ==
  /\ rsPc = "content" /\ todo = <<>>
  /\ rsPc' = "done"
  /\ UNCHANGED <<outside, child, tr, pairs, caps, todo, memVars, capVars>>

RestorerStep ==
  \/ LogRequest \/ Identify \/ IdentifyEnd \/ Restore \/ ResolveInc \/ CopyCapMap
  \/ PatchCapMap \/ PatchCapMapEnd \/ Install \/ InstallEnd
  \/ RestoreContent \/ RestoreReturn

=============================================================================
