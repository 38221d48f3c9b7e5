---------------------------- MODULE TargetObjects ----------------------------
(***************************************************************************)
(* The RPC objects of a component as the intercepted sessions              *)
(* (src/src/rtcr/intercept) monitor them and the stored infos              *)
(* (src/src/rtcr/offline_storage) copy them.                               *)
(*                                                                         *)
(* An object is a record; all lists of one component are held in one       *)
(* sequence, head first, and a list is the part of it with a given kind    *)
(* and owner.  A badge is a number, 0 the badge of an invalid capability.  *)
(* Regions carry no capability of their own: they are one page long, their *)
(* tag is their address, and two of them are told apart by the time they   *)
(* were made.  The tag of a thread is its name.                            *)
(***************************************************************************)
EXTENDS Integers, Sequences, FiniteSets, SequencesExt

SessionKind == {"ram", "pd", "cpu", "rm", "log", "timer"}

MemberKind == {"ramds", "source", "context", "native", "space", "region", "thread", "map"}

Kind == SessionKind \cup MemberKind

\* "space" is the address space of a PD session.  Its stack and linker area
\* are region maps of the same kind, treated by the same functions.
IsMap(o) == o.kind \in {"map", "space"}

\* What has an exception, fault or timeout handler.
IsSignalling(o) == o.kind \in {"map", "space", "cpu", "thread", "timer"}

\* "ts" is the timestamp (Simple_counter), "kcap" is used in stored infos only,
\* "ref" is the badge of what the object was created with: the source of a
\* context, the PD session of a thread, the dataspace of a region and, of a
\* region map, its own dataspace.
Obj(kind, badge, owner, ref, tag) ==
  [kind |-> kind, badge |-> badge, owner |-> owner, ref |-> ref, tag |-> tag,
   ts |-> 0, boot |-> FALSE, kcap |-> 0, sigh |-> 0, mode |-> 0, quota |-> 0]

\* The badges core gives out, one by one, after the bootstrap.
NthBadge(n) == 1000 * n

\* Capabilities that come into being with another one.
SpaceOf(pd) == pd + 100
DsOf(map) == map + 200

\* Regions of an address space, as against those of an RM session's region map.
InSpace(region) == region.owner % DsOf(0) >= SpaceOf(0)

\* A dataspace of a service that is not intercepted.
ForeignDs == 999

\* What a list has of a set, in the order of the list.
Only(list, set) ==
  LET only[n \in 0 .. Len(list)] ==
        IF n = 0 THEN <<>>
        ELSE IF list[n] \in set THEN Append(only[n - 1], list[n]) ELSE only[n - 1]
  IN  only[Len(list)]

Under(objs, kind, owner) == Only(objs, {o \in ToSet(objs) : o.kind = kind /\ o.owner = owner})

Has(objs, badge) == \E i \in DOMAIN objs : objs[i].kind # "region" /\ objs[i].badge = badge

\* What tells the elements of a list apart.  The code tells regions apart by
\* their addresses only (FindByAddr).
Key(o) == IF o.kind = "region" THEN o.ts ELSE o.badge

\* find_by_badge, and of a region: it is this very one.
Same(o, p) == o.kind = p.kind /\ o.owner = p.owner /\ Key(o) = Key(p)

FindIn(objs, o) == objs[CHOOSE i \in DOMAIN objs : Same(objs[i], o)]

Known(objs, o) == \E i \in DOMAIN objs : Same(objs[i], o)

\* The upper end counts as part of a region, so the first address of the next
\* page does, too.
Includes(region, addr) == region.tag <= addr /\ addr <= region.tag + 1

\* find_by_addr: of a map's regions the first in the list that includes the
\* address, if there is one.
FindByAddr(objs, map, addr) ==
  LET found == Only(objs, {o \in ToSet(objs) :
                             o.kind = "region" /\ o.owner = map /\ Includes(o, addr)})
  IN  IF found = <<>> THEN {} ELSE {Head(found)}

Changed(objs, o, new) == [i \in DOMAIN objs |-> IF objs[i] = o THEN new ELSE objs[i]]

\* The bootstrapped objects, oldest first: the component's RAM session with two
\* dataspaces, its PD session with one signal source, its CPU session with the
\* main thread, and its address space with two regions.  The first region holds
\* the capability map.
Bootstrapped(d) ==
  LET space == SpaceOf(d + 1)
      boot == << Obj("pd", d + 1, 0, 0, 0), Obj("space", space, d + 1, DsOf(space), 0),
                 Obj("cpu", d + 2, 0, 0, 0), Obj("ram", d + 3, 0, 0, 0),
                 Obj("thread", d + 4, d + 2, d + 1, 1),
                 Obj("ramds", d + 5, d + 3, 0, 0), Obj("ramds", d + 6, d + 3, 0, 0),
                 Obj("source", d + 7, d + 1, 0, 0),
                 Obj("region", 0, space, d + 6, 1), Obj("region", 0, space, d + 5, 2) >>
  IN  [i \in DOMAIN boot |-> [boot[i] EXCEPT !.boot = TRUE, !.ts = i]]

\* The capabilities the component holds after bootstrap: at selector k the one
\* with badge BootSlots(d)[k].
BootSlots(d) == <<d + 1, d + 5, d + 6, d + 7>>

CapMapRegion == 1

=============================================================================
