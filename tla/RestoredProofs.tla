--------------------------- MODULE RestoredProofs ---------------------------
(***************************************************************************)
(* Proofs about the restored child, for any menus, numbers of objects,     *)
(* requests, selectors and checkpoints.  Its types hold throughout, and    *)
(* every badge the restorer has translated leads to an object of the child *)
(* (TypeCorrect); a restore that ends has rebuilt every object of the      *)
(* target with its state (RestoredAsStored), has noted each of the         *)
(* target's RAM dataspaces once for copying (CopiedBackOnce), and has put  *)
(* the capabilities where the target held them (CapabilitiesRestored); a   *)
(* restore of a target it was made for does not fail (RestorableRestored). *)
(*                                                                         *)
(* TypeOK is far from inductive: the restorer dereferences what it finds,  *)
(* so the first walk over the stored lists must be shown to find           *)
(* everything it looks up.  The argument follows the code's.  What can be  *)
(* stored at all is Sane (TargetSound, StoredSound).  The walks visit each *)
(* stored object once, members behind their session (Placed, WalkFacts).   *)
(* Two bootstrapped RAM dataspaces have a counterpart by the rank of their *)
(* time of creation (PairsFacts, from MergeSortFacts).  Matched says what  *)
(* has been translated after part of the first walk; each action either    *)
(* extends it by its object (IdentifyFinds) or ends the program            *)
(* (StopsFacts).  The second walk keeps the counterparts while it changes  *)
(* their state (ChangedSound).                                             *)
(*                                                                         *)
(* The other theorems are about targets of the kind that can be identified *)
(* (Fit).  The walks lead over nothing twice (IdentifyWalkOnce,            *)
(* StateWalkOnce).  Twins says of part of the first walk that each object  *)
(* has its like in the child, not another's; at its end badges can be told *)
(* apart (Faithful).  Rebuilt and MemHolds say of part of the second walk  *)
(* that what it passed has its state and what it is to copy, once, and     *)
(* that the rest is still blank.  ObjectsInv puts these together over the  *)
(* whole restore.                                                          *)
(*                                                                         *)
(* NotedCaps says which capabilities the first walk notes, and Installed   *)
(* that what has been installed stays there: no two noted capabilities     *)
(* want one selector (SlotsSound).                                         *)
(*                                                                         *)
(* Able is what is asked of a target that can be restored.  Telling and    *)
(* Joining say of part of the first and the second walk that nothing it    *)
(* looked up was missing, and why nothing to come will be (AbleInv).       *)
(***************************************************************************)
EXTENDS RestorerProofs

-----------------------------------------------------------------------------
(* What the walks lead over.                                               *)

\* A member comes behind its session.
Placed(w) ==
  \A i \in 1 .. Len(w) : w[i].kind \in MemberKind =>
    \E j \in 1 .. i - 1 : w[j].kind \in OwnerKinds(w[i].kind) /\ w[j].badge = w[i].owner

LEMMA PlacedBoth ==
  ASSUME NEW V, NEW a \in Seq(V), NEW b \in Seq(V), Placed(a), Placed(b)
  PROVE  Placed(a \o b)
<1>1. /\ Len(a) \in Nat /\ Len(b) \in Nat /\ Len(a \o b) = Len(a) + Len(b)
      /\ \A i \in 1 .. Len(a) + Len(b) : (a \o b)[i] = IF i <= Len(a) THEN a[i] ELSE b[i - Len(a)]
  BY ConcatProperties, LenProperties
<1> DEFINE w == a \o b
<1> HIDE DEF w
<1>2. \A i \in 1 .. Len(a) : w[i] = a[i]
  BY <1>1 DEF w
<1>3. \A i \in 1 .. Len(b) : w[Len(a) + i] = b[i]
  BY <1>1 DEF w
<1>4. ASSUME NEW i \in 1 .. Len(a) + Len(b), w[i].kind \in MemberKind
      PROVE  \E j \in 1 .. i - 1 : w[j].kind \in OwnerKinds(w[i].kind) /\ w[j].badge = w[i].owner
  <2>1. CASE i \in 1 .. Len(a)
    <3>1. PICK j \in 1 .. i - 1 : a[j].kind \in OwnerKinds(a[i].kind) /\ a[j].badge = a[i].owner
      BY <1>2, <1>4, <2>1 DEF Placed
    <3>2. j \in 1 .. Len(a)
      BY <1>1, <2>1
    <3> QED
      BY <1>2, <2>1, <3>1, <3>2
  <2>2. CASE i \notin 1 .. Len(a)
    <3> DEFINE k == i - Len(a)
    <3>1. k \in 1 .. Len(b) /\ i = Len(a) + k
      BY <1>1, <2>2
    <3> HIDE DEF k
    <3>2. w[i] = b[k]
      BY <1>3, <3>1
    <3>3. \E j \in 1 .. k - 1 : b[j].kind \in OwnerKinds(b[k].kind) /\ b[j].badge = b[k].owner
      BY <1>4, <3>1, <3>2 DEF Placed
    <3>4. PICK j \in 1 .. k - 1 : b[j].kind \in OwnerKinds(b[k].kind) /\ b[j].badge = b[k].owner
      BY <3>3
    <3>5. j \in 1 .. Len(b) /\ Len(a) + j \in 1 .. i - 1
      BY <1>1, <3>1
    <3>6. w[Len(a) + j] = b[j]
      BY <1>3, <3>5
    <3> QED
      BY <3>2, <3>4, <3>5, <3>6
  <2> QED
    BY <2>1, <2>2
<1> QED
  BY <1>1, <1>4 DEF Placed, w

\* What a list has of a kind below an owner.
LEMMA UnderFacts ==
  ASSUME NEW V, NEW l \in Seq(V), NEW kind, NEW owner
  PROVE  /\ Under(l, kind, owner) \in Seq(V)
         /\ ToSet(Under(l, kind, owner)) = {o \in ToSet(l) : o.kind = kind /\ o.owner = owner}
         /\ Unique(l) => Unique(Under(l, kind, owner))
<1> DEFINE set == {o \in ToSet(l) : o.kind = kind /\ o.owner = owner}
<1>1. /\ Only(l, set) \in Seq(V) /\ ToSet(Only(l, set)) = ToSet(l) \cap set
      /\ Unique(l) => Unique(Only(l, set))
  <2> HIDE DEF set
  <2> QED
    BY OnlyFacts
<1> QED
  BY <1>1 DEF Under

\* The sessions of a kind, and what these have of some kinds of members.
Below(kind, kinds) ==
  {o \in ToSet(stored) : o.kind = kind /\ o.owner = 0}
    \cup {o \in ToSet(stored) : o.kind \in kinds
            /\ \E s \in ToSet(stored) : s.kind = kind /\ s.owner = 0 /\ o.owner = s.badge}

LEMMA WalkFacts ==
  ASSUME NEW V, stored \in Seq(V), NEW kind \in SessionKind, NEW memberKinds, NEW n \in Nat,
         DOMAIN memberKinds = 1 .. n,
         \A k \in 1 .. n : memberKinds[k] \in MemberKind /\ kind \in OwnerKinds(memberKinds[k])
  PROVE  LET w == Walk(kind, memberKinds)
         IN  /\ w \in Seq(V) /\ Placed(w)
             /\ ToSet(w) = Below(kind, {memberKinds[k] : k \in 1 .. n})
<1> DEFINE kinds == {memberKinds[k] : k \in 1 .. n}
           sessions == Under(stored, kind, 0)
           members(s) == [k \in DOMAIN memberKinds |-> Under(stored, memberKinds[k], s.badge)]
           Walked(s) == <<s>> \o FlattenSeq(members(s))
           walks == [i \in DOMAIN sessions |-> <<sessions[i]>> \o FlattenSeq(members(sessions[i]))]
           Mine(s) == {o \in ToSet(stored) : o.kind \in kinds /\ o.owner = s.badge}
           U == Below(kind, kinds)
           C == {w \in Seq(U) : Placed(w)}
<1>1. Walk(kind, memberKinds) = FlattenSeq(walks)
  BY DEF Walk, walks, sessions, members
<1>2. /\ sessions \in Seq(V)
      /\ ToSet(sessions) = {o \in ToSet(stored) : o.kind = kind /\ o.owner = 0}
  BY UnderFacts
<1> HIDE DEF sessions
<1>3. /\ Len(sessions) \in Nat /\ DOMAIN sessions = 1 .. Len(sessions)
      /\ \A i \in DOMAIN sessions : sessions[i] \in V /\ sessions[i] \in ToSet(sessions)
      /\ \A s \in ToSet(sessions) : \E i \in DOMAIN sessions : sessions[i] = s
  BY <1>2, ListElements
<1>4. ASSUME NEW s
      PROVE  FlattenSeq(members(s)) \in Seq(Mine(s)) /\ ToSet(FlattenSeq(members(s))) = Mine(s)
  <2> DEFINE m == members(s)
             B == Mine(s)
             D == Seq(B)
  <2>1. \A k \in 1 .. n : /\ Under(stored, memberKinds[k], s.badge) \in D
                          /\ ToSet(Under(stored, memberKinds[k], s.badge))
                               = {o \in B : o.kind = memberKinds[k]}
    <3> TAKE k \in 1 .. n
    <3> DEFINE u == Under(stored, memberKinds[k], s.badge)
    <3>1. /\ u \in Seq(V)
          /\ ToSet(u) = {o \in ToSet(stored) : o.kind = memberKinds[k] /\ o.owner = s.badge}
      BY UnderFacts
    <3> HIDE DEF u
    <3>2. ToSet(u) = {o \in B : o.kind = memberKinds[k]}
      BY <3>1
    <3>3. u \in Seq(ToSet(u)) /\ ToSet(u) \subseteq B
      BY <3>1, <3>2, OwnElements
    <3>4. u \in D
      <4> HIDE DEF B
      <4> QED
        BY <3>3
    <3> QED
      BY <3>2, <3>4 DEF u
  <2>2. m \in [1 .. n -> D] /\ Len(m) = n
    <3>1. m \in [1 .. n -> D]
      BY <2>1
    <3> QED
      BY <3>1
  <2>3. m \in Seq(D)
    BY <2>2, SeqDef
  <2>4. \A k \in 1 .. n : ToSet(m[k]) = {o \in B : o.kind = memberKinds[k]}
    BY <2>1
  <2>5. \A o \in B : o.kind \in kinds
    OBVIOUS
  <2> HIDE DEF m, B
  <2>6. D \in SUBSET Seq(B) /\ <<>> \in D /\ \A a, b \in D : a \o b \in D
    BY ConcatSet, EmptySeq
  <2> HIDE DEF D
  <2>7. /\ FlattenSeq(m) \in D
        /\ \A i \in 1 .. Len(m) : ToSet(m[i]) \subseteq ToSet(FlattenSeq(m))
    BY <2>3, <2>6, FlattenFacts
  <2>8. \A o \in ToSet(FlattenSeq(m)) : o \in B
    BY <2>7, ListElements DEF D
  <2>9. ASSUME NEW o \in B PROVE o \in ToSet(FlattenSeq(m))
    <3>1. PICK k \in 1 .. n : o.kind = memberKinds[k]
      BY <2>5
    <3> QED
      BY <2>2, <2>4, <2>7, <3>1
  <2> QED
    BY <2>7, <2>8, <2>9 DEF m, D, B
<1> HIDE DEF members
<1>5. ASSUME NEW s \in ToSet(sessions)
      PROVE  Walked(s) \in C /\ ToSet(Walked(s)) = {s} \cup Mine(s)
  <2> DEFINE f == FlattenSeq(members(s))
             B == Mine(s)
             a == <<s>>
  <2>1. s \in ToSet(stored) /\ s.kind = kind /\ s.owner = 0
    BY <1>2
  <2>2. s \in U /\ B \subseteq U
    BY <2>1 DEF Below
  <2>3. f \in Seq(B) /\ ToSet(f) = B
    BY <1>4
  <2>4. \A o \in B : o.kind \in MemberKind /\ kind \in OwnerKinds(o.kind) /\ o.owner = s.badge
    OBVIOUS
  <2> HIDE DEF B, f, U
  <2>5. f \in Seq(U) /\ a \in Seq(U)
    BY <2>2, <2>3
  <2>6. a \o f \in Seq(U) /\ ToSet(a \o f) = ToSet(a) \cup ToSet(f)
    BY <2>5, ConcatSet
  <2>7. ToSet(a) = {s}
    BY DEF ToSet
  <2>8. /\ Len(f) \in Nat /\ Len(a \o f) = 1 + Len(f)
        /\ \A i \in 1 .. 1 + Len(f) : (a \o f)[i] = IF i <= 1 THEN a[i] ELSE f[i - 1]
    BY <2>5, ConcatProperties, LenProperties
  <2>9. \A i \in 1 .. Len(f) : f[i] \in B
    BY <2>3, ListElements
  <2>10. a[1] = s
    OBVIOUS
  <2> DEFINE w == a \o f
  <2> HIDE DEF a
  <2>11. Len(w) = 1 + Len(f) /\ w[1] = s /\ \A i \in 2 .. 1 + Len(f) : w[i] \in B
    <3>1. w[1] = s
      BY <2>8, <2>10
    <3>2. \A i \in 2 .. 1 + Len(f) : w[i] = f[i - 1] /\ i - 1 \in 1 .. Len(f)
      BY <2>8
    <3> QED
      BY <2>8, <2>9, <3>1, <3>2
  <2>12. kind \notin MemberKind
    BY KindFacts
  <2> HIDE DEF w
  <2>13. Placed(w)
    <3> SUFFICES ASSUME NEW i \in 1 .. Len(w), w[i].kind \in MemberKind
                 PROVE  \E j \in 1 .. i - 1 : /\ w[j].kind \in OwnerKinds(w[i].kind)
                                              /\ w[j].badge = w[i].owner
      BY DEF Placed
    <3>1. i # 1
      BY <2>1, <2>11, <2>12
    <3>2. i \in 2 .. 1 + Len(f) /\ 1 \in 1 .. i - 1
      BY <2>8, <2>11, <3>1
    <3> QED
      BY <2>1, <2>4, <2>11, <3>2
  <2> QED
    BY <2>3, <2>6, <2>7, <2>13 DEF w, f, B, a
<1>6. <<>> \in C /\ \A a, b \in C : a \o b \in C
  <2>1. <<>> \in Seq(U) /\ Placed(<<>>)
    BY EmptySeq DEF Placed
  <2> HIDE DEF U
  <2>2. \A a, b \in C : a \o b \in C
    BY ConcatSet, PlacedBoth
  <2> QED
    BY <2>1, <2>2
<1>7. /\ \A i \in DOMAIN sessions : walks[i] = Walked(sessions[i])
      /\ Len(walks) = Len(sessions) /\ walks \in Seq(C)
  <2>1. \A i \in DOMAIN sessions : walks[i] = Walked(sessions[i])
    BY DEF walks, Walked
  <2>2. \A i \in DOMAIN sessions : walks[i] \in C
    BY <1>3, <1>5, <2>1
  <2> HIDE DEF C, Walked
  <2>3. walks \in [1 .. Len(sessions) -> C]
    BY <1>3, <2>2
  <2> QED
    BY <1>3, <2>1, <2>3, SeqDef
<1>8. U \subseteq V /\ C \subseteq Seq(U)
  BY ListElements DEF Below
<1> HIDE DEF walks, C, Walked
<1>9. /\ FlattenSeq(walks) \in C
      /\ \A i \in 1 .. Len(walks) : ToSet(walks[i]) \subseteq ToSet(FlattenSeq(walks))
  BY <1>6, <1>7, <1>8, FlattenFacts
<1>10. FlattenSeq(walks) \in Seq(U) /\ Placed(FlattenSeq(walks))
  BY <1>9 DEF C
<1>11. ToSet(FlattenSeq(walks)) \subseteq U
  <2> HIDE DEF U
  <2> QED
    BY <1>10, ListElements
<1>12. ASSUME NEW o \in U PROVE o \in ToSet(FlattenSeq(walks))
  <2>1. PICK s \in ToSet(sessions) : o = s \/ o \in Mine(s)
    BY <1>2 DEF Below
  <2>2. PICK i \in DOMAIN sessions : sessions[i] = s
    BY <1>3
  <2>3. o \in ToSet(walks[i]) /\ i \in 1 .. Len(walks)
    BY <1>3, <1>5, <1>7, <2>1, <2>2
  <2> QED
    BY <1>9, <2>3
<1>13. FlattenSeq(walks) \in Seq(V)
  <2> HIDE DEF U
  <2> QED
    BY <1>8, <1>10
<1> QED
  BY <1>1, <1>10, <1>11, <1>12, <1>13
LEMMA RegionWalkFacts ==
  ASSUME NEW V, stored \in Seq(V), NEW w \in Seq(V)
  PROVE  /\ WithRegions(w) \in Seq(V)
         /\ ToSet(WithRegions(w)) = ToSet(w) \cup
              {r \in ToSet(stored) : r.kind = "region" /\ \E m \in ToSet(w) : IsMap(m) /\ r.owner = m.badge}
<1> DEFINE Mine(m) == IF IsMap(m) THEN {r \in ToSet(stored) : r.kind = "region" /\ r.owner = m.badge}
                      ELSE {}
           Regions(m) == IF IsMap(m) THEN Under(stored, "region", m.badge) ELSE <<>>
           walks == [i \in DOMAIN w |-> <<w[i]>> \o Regions(w[i])]
           U == ToSet(w) \cup {r \in ToSet(stored) : \E m \in ToSet(w) : r \in Mine(m)}
           C == Seq(U)
<1>1. WithRegions(w) = FlattenSeq(walks)
  BY DEF WithRegions
<1>2. /\ Len(w) \in Nat /\ DOMAIN w = 1 .. Len(w)
      /\ \A i \in DOMAIN w : w[i] \in V /\ w[i] \in ToSet(w)
      /\ \A m \in ToSet(w) : \E i \in DOMAIN w : w[i] = m
  BY ListElements
<1>3. ASSUME NEW m \in ToSet(w)
      PROVE  <<m>> \o Regions(m) \in C /\ ToSet(<<m>> \o Regions(m)) = {m} \cup Mine(m)
  <2> DEFINE r == Regions(m)
             B == Mine(m)
             a == <<m>>
  <2>1. r \in Seq(B) /\ ToSet(r) = B
    <3>1. CASE IsMap(m)
      <4> DEFINE u == Under(stored, "region", m.badge)
      <4>1. ToSet(u) = B /\ u \in Seq(V)
        BY <3>1, UnderFacts
      <4> HIDE DEF u
      <4>2. u \in Seq(ToSet(u))
        BY <4>1, OwnElements
      <4> QED
        BY <3>1, <4>1, <4>2 DEF u
    <3>2. CASE ~IsMap(m)
      BY <3>2, EmptySeq DEF ToSet
    <3> QED
      BY <3>1, <3>2
  <2>2. m \in U /\ B \subseteq U
    OBVIOUS
  <2> HIDE DEF r, B, U
  <2>3. r \in Seq(U) /\ a \in Seq(U)
    BY <2>1, <2>2
  <2>4. a \o r \in Seq(U) /\ ToSet(a \o r) = ToSet(a) \cup ToSet(r)
    BY <2>3, ConcatSet
  <2>5. ToSet(a) = {m}
    BY DEF ToSet
  <2> QED
    BY <2>1, <2>4, <2>5 DEF r, B
<1>4. U \subseteq V
  BY ListElements
<1> HIDE DEF U, Regions
<1>5. C \in SUBSET Seq(V) /\ <<>> \in C /\ \A a, b \in C : a \o b \in C
  BY <1>4, ConcatSet, EmptySeq
<1>6. /\ \A i \in DOMAIN w : walks[i] = <<w[i]>> \o Regions(w[i])
      /\ walks \in Seq(C) /\ Len(walks) = Len(w)
  <2>1. \A i \in DOMAIN w : walks[i] = <<w[i]>> \o Regions(w[i])
    OBVIOUS
  <2>2. \A i \in DOMAIN w : walks[i] \in C
    BY <1>2, <1>3, <2>1
  <2> HIDE DEF C
  <2>3. walks \in [1 .. Len(w) -> C]
    BY <1>2, <2>2
  <2> QED
    BY <1>2, <2>1, <2>3, SeqDef
<1> HIDE DEF walks, C
<1>7. /\ FlattenSeq(walks) \in C
      /\ \A i \in 1 .. Len(walks) : ToSet(walks[i]) \subseteq ToSet(FlattenSeq(walks))
  BY <1>5, <1>6, FlattenFacts
<1>8. ToSet(FlattenSeq(walks)) \subseteq U
  BY <1>7, ListElements DEF C
<1>9. ASSUME NEW o \in U PROVE o \in ToSet(FlattenSeq(walks))
  <2>1. PICK m \in ToSet(w) : o = m \/ o \in Mine(m)
    BY DEF U
  <2>2. PICK i \in DOMAIN w : w[i] = m
    BY <1>2
  <2>3. o \in ToSet(walks[i]) /\ i \in 1 .. Len(walks)
    BY <1>2, <1>3, <1>6, <2>1, <2>2
  <2> QED
    BY <1>7, <2>3
<1>10. U = ToSet(w) \cup
         {r \in ToSet(stored) : r.kind = "region" /\ \E m \in ToSet(w) : IsMap(m) /\ r.owner = m.badge}
  BY DEF U
<1> QED
  BY <1>1, <1>5, <1>7, <1>8, <1>9, <1>10

-----------------------------------------------------------------------------
(* What a finished checkpoint leaves in the lists.                         *)

\* The badges of the target that are in tr for an object.
Keys(s) == {s.badge} \cup IF IsMap(s) THEN {s.ref} ELSE {}

\* Each badge and each place stands for one info, and all infos have their sessions.
StoredWhole ==
  /\ stored \in Seq(Object) /\ Unique(stored)
  /\ \A s \in ToSet(stored) : Sane(s) /\ Plain(s) /\ s \in Object /\ (s.kind # "region" => s.badge # 0)
  /\ \A s, t \in ToSet(stored) : s.kind # "region" /\ t.kind # "region" /\ s.badge = t.badge => s = t
  /\ Apart(stored)
  /\ \A s \in ToSet(stored) : s.kind \in MemberKind =>
       \E p \in ToSet(stored) : p.kind \in OwnerKinds(s.kind) /\ p.badge = s.owner

\* The objects and their infos belong together, but for regions.
LEMMA StoredPartners ==
  ASSUME TargetInv, StoredInv, ckPc = "taken"
  PROVE  /\ \A o \in Objs : o.kind # "region" =>
              \E s \in ToSet(stored) : Same(s, o) /\ s.sigh = o.sigh /\ s.mode = o.mode
         /\ \A s \in ToSet(stored) : s.kind # "region" => \E o \in Objs : Same(s, o)
         /\ \A s \in ToSet(stored) : s.kind = "region" => \E o \in Objs : o.kind = "region" /\ o.owner = s.owner
<1>1. \A o \in Object : Class(o) \in Done("taken")
  BY KindFacts DEF Class, Done, Object
<1>2. objs \in Seq(Object) /\ stored \in Seq(Object)
  BY DEF TargetInv, StoredInv, Good, Proper
<1>3. \A o \in Objs : Class(o) \in Done(ckPc)
  BY <1>1, <1>2, ListElements DEF Objs
<1>4. \A s \in ToSet(stored) : Class(s) \in Done(ckPc)
  BY <1>1, <1>2, ListElements
<1>5. \A o \in Objs : o.kind # "region" =>
        \E s \in ToSet(stored) : Same(s, o) /\ s.sigh = o.sigh /\ s.mode = o.mode
  BY <1>3 DEF StoredInv, Synced
<1>6. ASSUME NEW s \in ToSet(stored), s.kind # "region" PROVE \E o \in Objs : Same(s, o)
  <2>1. Known(objs, s)
    BY <1>4, <1>6 DEF StoredInv, Synced
  <2>2. \E o \in ToSet(objs) : Same(o, s)
    BY <1>2, <2>1, KnownFacts
  <2> QED
    BY <2>2, SameFacts DEF Objs
<1>7. ASSUME NEW s \in ToSet(stored), s.kind = "region"
      PROVE  \E o \in Objs : o.kind = "region" /\ o.owner = s.owner
  <2>1. FindByAddr(objs, s.owner, s.tag) # {}
    BY <1>4, <1>7 DEF StoredInv, Synced
  <2>2. PICK o : o \in FindByAddr(objs, s.owner, s.tag)
    BY <2>1
  <2> QED
    BY <1>2, <2>2, FindByAddrFacts DEF Objs
<1> QED
  BY <1>5, <1>6, <1>7

LEMMA WholeWhenTaken ==
  ASSUME TargetInv, StoredInv, TargetSound, StoredSound, ckPc = "taken"
  PROVE  StoredWhole
<1>1. /\ stored \in Seq(Object) /\ Unique(stored)
      /\ \A s \in ToSet(stored) : Sane(s) /\ Plain(s) /\ s \in Object
  BY ListElements DEF StoredInv, StoredSound, Good, Proper
<1>2. /\ \A o \in Objs : o.kind # "region" => \E s \in ToSet(stored) : Same(s, o)
      /\ \A s \in ToSet(stored) : s.kind # "region" => \E o \in Objs : Same(s, o)
      /\ \A s \in ToSet(stored) : s.kind = "region" => \E o \in Objs : o.kind = "region" /\ o.owner = s.owner
  BY StoredPartners
<1>3. \A s, o : Same(s, o) => /\ s.kind = o.kind /\ s.owner = o.owner
                              /\ (s.kind # "region" => s.badge = o.badge)
  BY DEF Same, Key
<1>4. \A s \in ToSet(stored) : s.kind # "region" => s.badge # 0
  BY <1>2, <1>3, ObjectFacts
<1>5. ASSUME NEW s \in ToSet(stored), NEW t \in ToSet(stored),
             s.kind # "region", t.kind # "region", s.badge = t.badge
      PROVE  s = t
  <2>1. PICK o \in Objs : Same(s, o)
    BY <1>2, <1>5
  <2>2. PICK p \in Objs : Same(t, p)
    BY <1>2, <1>5
  <2>3. o = p
    BY <1>3, <1>5, <2>1, <2>2 DEF TargetSound
  <2>4. Same(s, t)
    BY <2>1, <2>2, <2>3, SameFacts
  <2> QED
    BY <1>1, <2>4, ListElements DEF Unique
<1>6. ASSUME NEW s \in ToSet(stored), s.kind \in MemberKind
      PROVE  \E p \in ToSet(stored) : p.kind \in OwnerKinds(s.kind) /\ p.badge = s.owner
  <2>1. PICK o \in Objs : o.kind = s.kind /\ o.owner = s.owner
    BY <1>2, <1>3
  <2>2. PICK p \in Objs : p.kind \in OwnerKinds(s.kind) /\ p.badge = s.owner
    BY <1>6, <2>1 DEF TargetSound
  <2>3. "region" \notin OwnerKinds(s.kind)
    BY KindFacts
  <2>4. PICK q \in ToSet(stored) : Same(q, p)
    BY <1>2, <2>2, <2>3
  <2>5. q.kind = p.kind /\ (q.kind # "region" => q.badge = p.badge)
    BY <1>3, <2>4
  <2> QED
    BY <2>2, <2>3, <2>4, <2>5
<1>7. Apart(stored)
  BY DEF StoredInv, Good
<1> QED
  BY <1>1, <1>4, <1>5, <1>6, <1>7 DEF StoredWhole

LEMMA KeysApart ==
  ASSUME StoredWhole, NEW s \in ToSet(stored), NEW t \in ToSet(stored),
         s.kind # "region", t.kind # "region", Keys(s) \cap Keys(t) # {}
  PROVE  s = t
<1>1. \A o \in {s, t} : \/ IsPlain(o.badge)
                        \/ o.kind = "space" /\ IsPlain(o.owner) /\ o.badge = SpaceOf(o.owner)
  BY DEF StoredWhole, Sane
<1>2. \A o \in {s, t} : IsMap(o) => o.ref = DsOf(o.badge)
  BY DEF StoredWhole, Sane
<1>3. \A o, p \in {s, t} : IsMap(p) => o.badge # p.ref
  BY <1>1, <1>2, BadgesApart
<1>4. \A o, p \in {s, t} : o.badge \in Nat /\ p.badge \in Nat /\ DsOf(o.badge) = DsOf(p.badge) => o.badge = p.badge
  BY DEF DsOf
<1>5. s.badge = t.badge
  BY <1>2, <1>3, <1>4 DEF Keys, StoredWhole, Object
<1> QED
  BY <1>5 DEF StoredWhole

-----------------------------------------------------------------------------
(* The walks, as a finished checkpoint leaves the lists.                   *)

LEMMA BelowFacts ==
  ASSUME StoredWhole, NEW kind \in SessionKind, NEW kinds, \A k \in kinds : OwnerKinds(k) = {kind},
         kinds \subseteq MemberKind
  PROVE  Below(kind, kinds) = {o \in ToSet(stored) : o.kind \in {kind} \cup kinds}
<1>1. \A o \in ToSet(stored) : o.kind = kind => o.owner = 0
  BY DEF StoredWhole, Sane
<1>2. ASSUME NEW o \in ToSet(stored), o.kind \in kinds
      PROVE  \E s \in ToSet(stored) : s.kind = kind /\ s.owner = 0 /\ o.owner = s.badge
  BY <1>1, <1>2 DEF StoredWhole
<1> QED
  BY <1>1, <1>2 DEF Below

LEMMA WalkOver ==
  ASSUME StoredWhole, NEW kind \in SessionKind, NEW memberKinds, NEW n \in Nat,
         DOMAIN memberKinds = 1 .. n,
         \A k \in 1 .. n : memberKinds[k] \in MemberKind /\ OwnerKinds(memberKinds[k]) = {kind}
  PROVE  LET w == Walk(kind, memberKinds)
         IN  /\ w \in Seq(Object) /\ Placed(w)
             /\ ToSet(w) = {o \in ToSet(stored) : o.kind \in {kind} \cup {memberKinds[k] : k \in 1 .. n}}
<1> DEFINE kinds == {memberKinds[k] : k \in 1 .. n}
<1>1. stored \in Seq(Object)
  BY DEF StoredWhole
<1>2. \A k \in kinds : OwnerKinds(k) = {kind} /\ k \in MemberKind
  OBVIOUS
<1>3. \A k \in 1 .. n : memberKinds[k] \in MemberKind /\ kind \in OwnerKinds(memberKinds[k])
  OBVIOUS
<1>4. LET w == Walk(kind, memberKinds)
      IN  w \in Seq(Object) /\ Placed(w) /\ ToSet(w) = Below(kind, kinds)
  BY <1>1, <1>3, WalkFacts
<1> HIDE DEF kinds
<1>5. Below(kind, kinds) = {o \in ToSet(stored) : o.kind \in {kind} \cup kinds}
  BY <1>2, BelowFacts
<1> QED
  BY <1>4, <1>5 DEF kinds

LEMMA WalksOver ==
  ASSUME StoredWhole
  PROVE  /\ \A w \in {Walk("ram", <<"ramds">>), Walk("pd", <<"source", "context", "space">>),
                      Walk("pd", <<"space">>), Walk("cpu", <<"thread">>), Walk("rm", <<"map">>),
                      Walk("log", <<>>), Walk("timer", <<>>)} : w \in Seq(Object) /\ Placed(w)
         /\ ToSet(Walk("ram", <<"ramds">>)) = {o \in ToSet(stored) : o.kind \in {"ram", "ramds"}}
         /\ ToSet(Walk("pd", <<"source", "context", "space">>))
              = {o \in ToSet(stored) : o.kind \in {"pd", "source", "context", "space"}}
         /\ ToSet(Walk("pd", <<"space">>)) = {o \in ToSet(stored) : o.kind \in {"pd", "space"}}
         /\ ToSet(Walk("cpu", <<"thread">>)) = {o \in ToSet(stored) : o.kind \in {"cpu", "thread"}}
         /\ ToSet(Walk("rm", <<"map">>)) = {o \in ToSet(stored) : o.kind \in {"rm", "map"}}
         /\ ToSet(Walk("log", <<>>)) = {o \in ToSet(stored) : o.kind = "log"}
         /\ ToSet(Walk("timer", <<>>)) = {o \in ToSet(stored) : o.kind = "timer"}
<1>1. /\ OwnerKinds("ramds") = {"ram"} /\ OwnerKinds("source") = {"pd"} /\ OwnerKinds("context") = {"pd"}
      /\ OwnerKinds("space") = {"pd"} /\ OwnerKinds("thread") = {"cpu"} /\ OwnerKinds("map") = {"rm"}
  BY DEF OwnerKinds
<1>2. /\ {"ramds", "source", "context", "space", "thread", "map"} \subseteq MemberKind
      /\ {"ram", "pd", "cpu", "rm", "log", "timer"} \subseteq SessionKind
  BY DEF MemberKind, SessionKind
<1> DEFINE Over(kind, memberKinds, kinds) ==
             /\ Walk(kind, memberKinds) \in Seq(Object) /\ Placed(Walk(kind, memberKinds))
             /\ ToSet(Walk(kind, memberKinds)) = {o \in ToSet(stored) : o.kind \in kinds}
<1>3. ASSUME NEW kind \in SessionKind, NEW member \in MemberKind, OwnerKinds(member) = {kind}
      PROVE  Over(kind, <<member>>, {kind, member})
  <2> DEFINE m == <<member>>
  <2>1. DOMAIN m = 1 .. 1 /\ 1 \in Nat /\ \A k \in 1 .. 1 : m[k] = member
    OBVIOUS
  <2>2. {kind} \cup {m[k] : k \in 1 .. 1} = {kind, member}
    OBVIOUS
  <2> HIDE DEF m
  <2>3. \A k \in 1 .. 1 : m[k] \in MemberKind /\ OwnerKinds(m[k]) = {kind}
    BY <1>3, <2>1
  <2>4. LET w == Walk(kind, m)
        IN  /\ w \in Seq(Object) /\ Placed(w)
            /\ ToSet(w) = {o \in ToSet(stored) : o.kind \in {kind} \cup {m[k] : k \in 1 .. 1}}
    BY <2>1, <2>3, WalkOver
  <2> QED
    BY <2>2, <2>4 DEF m
<1>4. ASSUME NEW kind \in SessionKind PROVE Over(kind, <<>>, {kind})
  <2> DEFINE m == <<>>
  <2>1. DOMAIN m = 1 .. 0 /\ 0 \in Nat
    OBVIOUS
  <2>2. {kind} \cup {m[k] : k \in 1 .. 0} = {kind}
    OBVIOUS
  <2> HIDE DEF m
  <2>3. \A k \in 1 .. 0 : m[k] \in MemberKind /\ OwnerKinds(m[k]) = {kind}
    OBVIOUS
  <2>4. LET w == Walk(kind, m)
        IN  /\ w \in Seq(Object) /\ Placed(w)
            /\ ToSet(w) = {o \in ToSet(stored) : o.kind \in {kind} \cup {m[k] : k \in 1 .. 0}}
    BY <2>1, <2>3, WalkOver
  <2> QED
    BY <2>2, <2>4 DEF m
<1>5. Over("pd", <<"source", "context", "space">>, {"pd", "source", "context", "space"})
  <2> DEFINE m == <<"source", "context", "space">>
  <2>1. DOMAIN m = 1 .. 3 /\ 3 \in Nat /\ "pd" \in SessionKind
    BY <1>2
  <2>2. {m[k] : k \in 1 .. 3} = {"source", "context", "space"}
    <3>1. 1 .. 3 = {1, 2, 3}
      OBVIOUS
    <3> QED
      BY <3>1
  <2> HIDE DEF m
  <2>3. \A k \in 1 .. 3 : m[k] \in MemberKind /\ OwnerKinds(m[k]) = {"pd"}
    BY <1>1, <1>2, <2>2
  <2>4. LET w == Walk("pd", m)
        IN  /\ w \in Seq(Object) /\ Placed(w)
            /\ ToSet(w) = {o \in ToSet(stored) : o.kind \in {"pd"} \cup {m[k] : k \in 1 .. 3}}
    BY <2>1, <2>3, WalkOver
  <2>5. {"pd"} \cup {m[k] : k \in 1 .. 3} = {"pd", "source", "context", "space"}
    BY <2>2
  <2> QED
    BY <2>4, <2>5 DEF m
<1> HIDE DEF Over
<1>6. /\ Over("ram", <<"ramds">>, {"ram", "ramds"}) /\ Over("pd", <<"space">>, {"pd", "space"})
      /\ Over("cpu", <<"thread">>, {"cpu", "thread"}) /\ Over("rm", <<"map">>, {"rm", "map"})
      /\ Over("log", <<>>, {"log"}) /\ Over("timer", <<>>, {"timer"})
  BY <1>1, <1>2, <1>3, <1>4
<1> QED
  BY <1>5, <1>6 DEF Over

LEMMA IdentifyWalkFacts ==
  ASSUME StoredWhole
  PROVE  /\ IdentifyWalk \in Seq(Object) /\ Placed(IdentifyWalk)
         /\ ToSet(IdentifyWalk) = {o \in ToSet(stored) : o.kind \notin {"region", "native"}}
<1> DEFINE C == {w \in Seq(Object) : Placed(w)}
           ram == Walk("ram", <<"ramds">>)
           pd == Walk("pd", <<"source", "context", "space">>)
           cpu == Walk("cpu", <<"thread">>)
           rm == Walk("rm", <<"map">>)
           log == Walk("log", <<>>)
           timer == Walk("timer", <<>>)
<1>1. /\ ram \in C /\ pd \in C /\ cpu \in C /\ rm \in C /\ log \in C /\ timer \in C
      /\ ToSet(ram) = {o \in ToSet(stored) : o.kind \in {"ram", "ramds"}}
      /\ ToSet(pd) = {o \in ToSet(stored) : o.kind \in {"pd", "source", "context", "space"}}
      /\ ToSet(cpu) = {o \in ToSet(stored) : o.kind \in {"cpu", "thread"}}
      /\ ToSet(rm) = {o \in ToSet(stored) : o.kind \in {"rm", "map"}}
      /\ ToSet(log) = {o \in ToSet(stored) : o.kind = "log"}
      /\ ToSet(timer) = {o \in ToSet(stored) : o.kind = "timer"}
  BY WalksOver
<1>2. \A a, b \in C : a \o b \in C /\ ToSet(a \o b) = ToSet(a) \cup ToSet(b)
  BY ConcatSet, PlacedBoth
<1>3. IdentifyWalk = ram \o pd \o cpu \o rm \o log \o timer
  BY DEF IdentifyWalk
<1>4. \A o \in ToSet(stored) : o.kind \in Kind
  BY DEF StoredWhole, Object
<1> HIDE DEF ram, pd, cpu, rm, log, timer
<1>5. IdentifyWalk \in C
  <2> HIDE DEF C
  <2> QED
    BY <1>1, <1>2, <1>3
<1>6. ToSet(IdentifyWalk)
        = ToSet(ram) \cup ToSet(pd) \cup ToSet(cpu) \cup ToSet(rm) \cup ToSet(log) \cup ToSet(timer)
  <2> HIDE DEF C
  <2>1. /\ ram \o pd \in C /\ ram \o pd \o cpu \in C /\ ram \o pd \o cpu \o rm \in C
        /\ ram \o pd \o cpu \o rm \o log \in C
    BY <1>1, <1>2
  <2>2. ToSet(ram \o pd) = ToSet(ram) \cup ToSet(pd)
    BY <1>1, <1>2
  <2>3. ToSet(ram \o pd \o cpu) = ToSet(ram \o pd) \cup ToSet(cpu)
    BY <1>1, <1>2, <2>1
  <2>4. ToSet(ram \o pd \o cpu \o rm) = ToSet(ram \o pd \o cpu) \cup ToSet(rm)
    BY <1>1, <1>2, <2>1
  <2>5. ToSet(ram \o pd \o cpu \o rm \o log) = ToSet(ram \o pd \o cpu \o rm) \cup ToSet(log)
    BY <1>1, <1>2, <2>1
  <2>6. ToSet(IdentifyWalk) = ToSet(ram \o pd \o cpu \o rm \o log) \cup ToSet(timer)
    BY <1>1, <1>2, <1>3, <2>1
  <2> QED
    BY <2>2, <2>3, <2>4, <2>5, <2>6
<1>7. \A o \in ToSet(stored) : o.kind \notin {"region", "native"} <=>
        o.kind \in {"ram", "ramds", "pd", "source", "context", "space", "cpu", "thread", "rm", "map", "log", "timer"}
  BY <1>4 DEF Kind, SessionKind, MemberKind
<1> QED
  BY <1>1, <1>5, <1>6, <1>7

LEMMA StateWalkFacts ==
  ASSUME StoredWhole
  PROVE  /\ StateWalk \in Seq(Object)
         /\ ToSet(StateWalk) = {o \in ToSet(stored) : o.kind \notin {"native", "source", "context"}}
<1> DEFINE C == Seq(Object)
           ram == Walk("ram", <<"ramds">>)
           pd == Walk("pd", <<"space">>)
           cpu == Walk("cpu", <<"thread">>)
           rm == Walk("rm", <<"map">>)
           log == Walk("log", <<>>)
           timer == Walk("timer", <<>>)
           all == ram \o pd \o cpu \o rm \o log \o timer
<1>1. /\ ram \in C /\ pd \in C /\ cpu \in C /\ rm \in C /\ log \in C /\ timer \in C
      /\ ToSet(ram) = {o \in ToSet(stored) : o.kind \in {"ram", "ramds"}}
      /\ ToSet(pd) = {o \in ToSet(stored) : o.kind \in {"pd", "space"}}
      /\ ToSet(cpu) = {o \in ToSet(stored) : o.kind \in {"cpu", "thread"}}
      /\ ToSet(rm) = {o \in ToSet(stored) : o.kind \in {"rm", "map"}}
      /\ ToSet(log) = {o \in ToSet(stored) : o.kind = "log"}
      /\ ToSet(timer) = {o \in ToSet(stored) : o.kind = "timer"}
  BY WalksOver
<1>2. \A a, b \in C : a \o b \in C /\ ToSet(a \o b) = ToSet(a) \cup ToSet(b)
  BY ConcatSet
<1>3. StateWalk = WithRegions(all)
  BY DEF StateWalk
<1>4. \A o \in ToSet(stored) : o.kind \in Kind
  BY DEF StoredWhole, Object
<1> HIDE DEF ram, pd, cpu, rm, log, timer
<1>5. all \in C
  <2> HIDE DEF C
  <2> QED
    BY <1>1, <1>2
<1>6. ToSet(all)
        = ToSet(ram) \cup ToSet(pd) \cup ToSet(cpu) \cup ToSet(rm) \cup ToSet(log) \cup ToSet(timer)
  <2> HIDE DEF C
  <2>1. /\ ram \o pd \in C /\ ram \o pd \o cpu \in C /\ ram \o pd \o cpu \o rm \in C
        /\ ram \o pd \o cpu \o rm \o log \in C
    BY <1>1, <1>2
  <2>2. ToSet(ram \o pd) = ToSet(ram) \cup ToSet(pd)
    BY <1>1, <1>2
  <2>3. ToSet(ram \o pd \o cpu) = ToSet(ram \o pd) \cup ToSet(cpu)
    BY <1>1, <1>2, <2>1
  <2>4. ToSet(ram \o pd \o cpu \o rm) = ToSet(ram \o pd \o cpu) \cup ToSet(rm)
    BY <1>1, <1>2, <2>1
  <2>5. ToSet(ram \o pd \o cpu \o rm \o log) = ToSet(ram \o pd \o cpu \o rm) \cup ToSet(log)
    BY <1>1, <1>2, <2>1
  <2>6. ToSet(all) = ToSet(ram \o pd \o cpu \o rm \o log) \cup ToSet(timer)
    BY <1>1, <1>2, <2>1
  <2> QED
    BY <2>2, <2>3, <2>4, <2>5, <2>6
<1>7. \A o \in ToSet(stored) : o.kind \notin {"native", "source", "context"} <=>
        o.kind \in {"ram", "ramds", "pd", "space", "cpu", "thread", "rm", "map", "log", "timer"} \/ o.kind = "region"
  BY <1>4 DEF Kind, SessionKind, MemberKind
<1>8. ToSet(all) = {o \in ToSet(stored) :
        o.kind \in {"ram", "ramds", "pd", "space", "cpu", "thread", "rm", "map", "log", "timer"}}
  BY <1>1, <1>6
<1> HIDE DEF all
<1>9. /\ WithRegions(all) \in Seq(Object)
      /\ ToSet(WithRegions(all)) = ToSet(all) \cup
           {r \in ToSet(stored) : r.kind = "region" /\ \E m \in ToSet(all) : IsMap(m) /\ r.owner = m.badge}
  BY <1>5, RegionWalkFacts DEF StoredWhole
<1>10. \A r \in ToSet(stored) : r.kind = "region" =>
         \E m \in ToSet(all) : IsMap(m) /\ r.owner = m.badge
  <2>1. "region" \in MemberKind /\ OwnerKinds("region") = {"map", "space"}
    BY DEF MemberKind, OwnerKinds
  <2> QED
    BY <1>8, <2>1 DEF StoredWhole, IsMap
<1> QED
  BY <1>3, <1>7, <1>8, <1>9, <1>10

-----------------------------------------------------------------------------
(* _identify_ram_dataspaces.                                               *)

\* t is s, with every value once.
Once(t, T) ==
  /\ t \in Seq(Nat) /\ (\A i, j \in 1 .. Len(t) : t[i] = t[j] => i = j)
  /\ {t[i] : i \in 1 .. Len(t)} = T

LEMMA OnlyTwice ==
  ASSUME NEW V, NEW l \in Seq(V), NEW p, NEW q
  PROVE  LET r == Only(Only(l, p), q)
         IN  /\ r \in Seq(V) /\ ToSet(r) = ToSet(l) \cap p \cap q
             /\ \E f : /\ f \in [1 .. Len(r) -> 1 .. Len(l)]
                       /\ \A i \in 1 .. Len(r) : r[i] = l[f[i]]
                       /\ \A i, j \in 1 .. Len(r) : f[i] = f[j] => i = j
<1> DEFINE m == Only(l, p)
           r == Only(m, q)
<1>1. m \in Seq(V) /\ ToSet(m) = ToSet(l) \cap p /\ \E f : Picked(m, l, Len(l), p, f)
  BY OnlyFacts, OnlyPicks
<1> HIDE DEF m
<1>2. r \in Seq(V) /\ ToSet(r) = ToSet(m) \cap q /\ \E f : Picked(r, m, Len(m), q, f)
  BY <1>1, OnlyFacts, OnlyPicks
<1> HIDE DEF r
<1>3. PICK f : Picked(m, l, Len(l), p, f)
  BY <1>1
<1>4. PICK g : Picked(r, m, Len(m), q, g)
  BY <1>2
<1>5. Len(l) \in Nat /\ Len(m) \in Nat /\ Len(r) \in Nat
  BY <1>1, <1>2, ListElements
<1> DEFINE h == [i \in 1 .. Len(r) |-> f[g[i]]]
<1>6. \A i \in 1 .. Len(r) : g[i] \in 1 .. Len(m) /\ h[i] = f[g[i]] /\ h[i] \in 1 .. Len(l) /\ r[i] = l[h[i]]
  BY <1>3, <1>4 DEF Picked
<1>7. h \in [1 .. Len(r) -> 1 .. Len(l)]
  BY <1>6
<1> HIDE DEF h
<1>8. \A i, j \in 1 .. Len(r) : i < j => h[i] < h[j]
  <2> SUFFICES ASSUME NEW i \in 1 .. Len(r), NEW j \in 1 .. Len(r), i < j PROVE h[i] < h[j]
    OBVIOUS
  <2>1. g[i] < g[j]
    BY <1>4 DEF Picked
  <2> QED
    BY <1>3, <1>6, <2>1 DEF Picked
<1>9. \A i, j \in 1 .. Len(r) : h[i] = h[j] => i = j
  <2> SUFFICES ASSUME NEW i \in 1 .. Len(r), NEW j \in 1 .. Len(r), h[i] = h[j] PROVE i = j
    OBVIOUS
  <2>1. i \in Nat /\ j \in Nat /\ h[i] \in Nat /\ h[j] \in Nat
    BY <1>5, <1>6
  <2> QED
    BY <1>8, <2>1
<1>10. ToSet(r) = ToSet(l) \cap p \cap q
  BY <1>1, <1>2
<1> QED
  BY <1>2, <1>6, <1>7, <1>9, <1>10 DEF m, r

\* The timestamps of the bootstrapped dataspaces of a session.
LEMMA StampsFacts ==
  ASSUME NEW l \in Seq(Object), NEW owner,
         \A i, j \in DOMAIN l :
           l[i].kind = "ramds" /\ l[i].owner = owner /\ l[i].boot /\ l[j].kind = "ramds"
             /\ l[j].owner = owner /\ l[j].boot /\ l[i].ts = l[j].ts => i = j
  PROVE  Once(StampsOfBoot(Under(l, "ramds", owner)),
              {o.ts : o \in {p \in ToSet(l) : p.kind = "ramds" /\ p.owner = owner /\ p.boot}})
<1> DEFINE p == {o \in ToSet(l) : o.kind = "ramds" /\ o.owner = owner}
           u == Under(l, "ramds", owner)
           q == {o \in ToSet(u) : o.boot}
           boot == Only(u, q)
           t == StampsOfBoot(u)
           B == {o \in ToSet(l) : o.kind = "ramds" /\ o.owner = owner /\ o.boot}
<1>1. u = Only(l, p) /\ ToSet(u) = p
  <2>1. u = Only(l, p)
    BY DEF Under
  <2>2. ToSet(u) = p
    BY UnderFacts
  <2> QED
    BY <2>1, <2>2
<1>2. t = [i \in DOMAIN boot |-> boot[i].ts]
  BY DEF StampsOfBoot
<1>3. ToSet(l) \cap p \cap q = B
  BY <1>1
<1> HIDE DEF p, u, q, t
<1>4. LET r == Only(Only(l, p), q)
      IN  /\ r \in Seq(Object) /\ ToSet(r) = ToSet(l) \cap p \cap q
          /\ \E f : /\ f \in [1 .. Len(r) -> 1 .. Len(l)]
                    /\ \A i \in 1 .. Len(r) : r[i] = l[f[i]]
                    /\ \A i, j \in 1 .. Len(r) : f[i] = f[j] => i = j
  BY OnlyTwice
<1>5. /\ boot \in Seq(Object) /\ ToSet(boot) = B
      /\ \E f : /\ f \in [1 .. Len(boot) -> 1 .. Len(l)]
                /\ \A i \in 1 .. Len(boot) : boot[i] = l[f[i]]
                /\ \A i, j \in 1 .. Len(boot) : f[i] = f[j] => i = j
  BY <1>1, <1>3, <1>4
<1>6. PICK f : /\ f \in [1 .. Len(boot) -> 1 .. Len(l)]
               /\ \A i \in 1 .. Len(boot) : boot[i] = l[f[i]]
               /\ \A i, j \in 1 .. Len(boot) : f[i] = f[j] => i = j
  BY <1>5
<1> HIDE DEF boot, B
<1>7. /\ Len(boot) \in Nat /\ DOMAIN boot = 1 .. Len(boot)
      /\ \A i \in DOMAIN boot : boot[i] \in Object /\ boot[i] \in B
      /\ \A o \in B : \E i \in DOMAIN boot : boot[i] = o
  BY <1>5, ListElements
<1>8. /\ DOMAIN t = 1 .. Len(boot) /\ \A i \in 1 .. Len(boot) : t[i] = boot[i].ts /\ t[i] \in Nat
  BY <1>2, <1>7 DEF Object
<1>9. t \in Seq(Nat) /\ Len(t) = Len(boot)
  <2>1. t \in [1 .. Len(boot) -> Nat]
    BY <1>2, <1>7, <1>8
  <2> QED
    BY <1>7, <2>1, SeqDef
<1>10. ASSUME NEW i \in 1 .. Len(boot), NEW j \in 1 .. Len(boot), t[i] = t[j] PROVE i = j
  <2>1. f[i] \in DOMAIN l /\ f[j] \in DOMAIN l
    BY <1>6, ListElements
  <2>2. l[f[i]] = boot[i] /\ l[f[j]] = boot[j] /\ boot[i] \in B /\ boot[j] \in B
    BY <1>6, <1>7
  <2>3. boot[i].ts = boot[j].ts
    BY <1>8, <1>10
  <2>4. f[i] = f[j]
    BY <2>1, <2>2, <2>3 DEF B
  <2> QED
    BY <1>6, <2>4
<1>11. {t[i] : i \in 1 .. Len(t)} = {o.ts : o \in B}
  <2>1. \A i \in 1 .. Len(t) : t[i] \in {o.ts : o \in B}
    BY <1>7, <1>8, <1>9
  <2>2. \A o \in B : \E i \in 1 .. Len(t) : t[i] = o.ts
    BY <1>7, <1>8, <1>9
  <2> QED
    BY <2>1, <2>2
<1> QED
  BY <1>9, <1>10, <1>11 DEF Once, t, B, u

\* Sorted, a sequence of the numbers T keeps having each once.
LEMMA SortedOnce ==
  ASSUME NEW t, NEW T, Once(t, T)
  PROVE  Once(MergeSort(t), T) /\ Ascending(MergeSort(t)) /\ Len(MergeSort(t)) = Len(t)
<1> DEFINE s == MergeSort(t)
<1>1. t \in Seq(Nat)
  BY DEF Once
<1>2. Sorts(s, t)
  BY <1>1, MergeSortFacts
<1> HIDE DEF s
<1>3. /\ Ascending(s) /\ s \in Seq(Nat) /\ Len(s) = Len(t)
      /\ \E f : Permutes(f, Len(t), s, t)
  BY <1>2 DEF Sorts, Permuted
<1>4. PICK f : Permutes(f, Len(t), s, t)
  BY <1>3
<1> DEFINE n == Len(t)
<1>7. /\ \A i \in 1 .. n : f[i] \in 1 .. n /\ s[i] = t[f[i]]
      /\ \A i, j \in 1 .. n : f[i] = f[j] => i = j
      /\ \A z \in 1 .. n : \E i \in 1 .. n : f[i] = z
  BY <1>4 DEF Permutes
<1>8. Len(s) = n /\ (\A i, j \in 1 .. n : t[i] = t[j] => i = j)
  BY <1>3 DEF Once
<1> HIDE DEF n
<1>5. \A i, j \in 1 .. Len(s) : s[i] = s[j] => i = j
  <2> SUFFICES ASSUME NEW i \in 1 .. n, NEW j \in 1 .. n, s[i] = s[j] PROVE i = j
    BY <1>8
  <2>1. f[i] \in 1 .. n /\ f[j] \in 1 .. n /\ t[f[i]] = t[f[j]]
    BY <1>7
  <2>2. f[i] = f[j]
    BY <1>8, <2>1
  <2> QED
    BY <1>7, <2>2
<1>6. {s[i] : i \in 1 .. Len(s)} = {t[i] : i \in 1 .. Len(t)}
  <2>1. {s[i] : i \in 1 .. n} = {t[i] : i \in 1 .. n}
    BY <1>7
  <2> QED
    BY <1>8, <2>1 DEF n
<1> QED
  BY <1>3, <1>5, <1>6 DEF Once, s

\* Two such numbers, sorted.
LEMMA SortedTwo ==
  ASSUME NEW s, NEW T, Once(s, T), Ascending(s), NEW a \in Nat, NEW b \in Nat, a < b, T \subseteq {a, b}
  PROVE  /\ Len(s) \in 0 .. 2
         /\ T = {a, b} => Len(s) = 2 /\ s[1] = a /\ s[2] = b
<1>1. Len(s) \in Nat /\ \A i \in 1 .. Len(s) : s[i] \in T
  BY LenProperties DEF Once
<1>2. ~(Len(s) > 2)
  <2> SUFFICES ASSUME Len(s) > 2 PROVE FALSE
    OBVIOUS
  <2>1. 1 \in 1 .. Len(s) /\ 2 \in 1 .. Len(s) /\ 3 \in 1 .. Len(s)
    BY <1>1
  <2>2. s[1] # s[2] /\ s[1] # s[3] /\ s[2] # s[3]
    BY <2>1 DEF Once
  <2> QED
    BY <1>1, <2>1, <2>2
<1>3. ASSUME T = {a, b} PROVE Len(s) = 2 /\ s[1] = a /\ s[2] = b
  <2>1. PICK i \in 1 .. Len(s) : s[i] = a
    BY <1>3 DEF Once
  <2>2. PICK j \in 1 .. Len(s) : s[j] = b
    BY <1>3 DEF Once
  <2>3. ~(j < i)
    <3>1. j < i => s[j] <= s[i]
      BY DEF Ascending
    <3> QED
      BY <2>1, <2>2, <3>1
  <2>4. i # j
    BY <2>1, <2>2
  <2>5. i = 1 /\ j = 2 /\ Len(s) = 2
    <3> DEFINE n == Len(s)
    <3>1. n \in Nat /\ ~(n > 2) /\ i \in 1 .. n /\ j \in 1 .. n
      BY <1>1, <1>2
    <3> HIDE DEF n
    <3>2. i \in Nat /\ j \in Nat /\ 1 <= i /\ j <= n /\ i < j
      BY <2>3, <2>4, <3>1
    <3>3. i = 1 /\ j = 2 /\ n = 2
      BY <3>1, <3>2
    <3> QED
      BY <3>3 DEF n
  <2> QED
    BY <2>1, <2>2, <2>5
<1>4. Len(s) \in 0 .. 2
  <2> DEFINE n == Len(s)
  <2>1. n \in Nat /\ ~(n > 2)
    BY <1>1, <1>2
  <2> HIDE DEF n
  <2>2. n \in 0 .. 2
    BY <2>1
  <2> QED
    BY <2>2 DEF n
<1> QED
  BY <1>3, <1>4

\* Bootstrapped dataspaces are translated to such.
PairsRight ==
  /\ \A s \in ToSet(stored) : s.kind = "ramds" /\ s.boot => s.badge \in DOMAIN pairs
  /\ \A b \in DOMAIN pairs : pairs[b] \in {1005, 1006}
  /\ (\A b \in {5, 6} : \E s \in ToSet(stored) : s.kind = "ramds" /\ s.boot /\ s.badge = b) =>
       pairs[5] = 1005 /\ pairs[6] = 1006

\* The bootstrapped dataspaces of a list.
BootRamds(l) == {o \in ToSet(l) : o.kind = "ramds" /\ o.boot}

LEMMA StoredRow ==
  ASSUME StoredWhole, NEW o \in ToSet(stored), o.boot
  PROVE  BootRow(o, 0) /\ o.boot = TRUE
<1>1. Fixed(o) \in BootTable(0)
  BY DEF StoredWhole, Sane
<1>2. \A d \in Nat : Fixed(o) \in BootTable(d) => BootRow(o, d) /\ o.boot = TRUE
  BY BootRows
<1>3. 0 \in Nat
  OBVIOUS
<1> QED
  BY <1>1, <1>2, <1>3, Zenon

LEMMA RowOf ==
  ASSUME NEW d \in Nat, NEW l, BootsIn(l, d), NEW o \in ToSet(l), o.boot
  PROVE  BootRow(o, d) /\ o.boot = TRUE
<1>1. Fixed(o) \in BootTable(d)
  BY DEF BootsIn
<1> QED
  BY <1>1, BootRows

LEMMA ChildRow ==
  ASSUME BootsIn(child, 1000), NEW o \in ToSet(child), o.boot
  PROVE  BootRow(o, 1000) /\ o.boot = TRUE
<1>1. PICK d \in Nat : d = 1000
  OBVIOUS
<1>2. BootsIn(child, d)
  BY <1>1
<1>3. BootRow(o, d) /\ o.boot = TRUE
  BY <1>2, RowOf
<1> QED
  BY <1>1, <1>3

\* What the child has from its bootstrap.
LEMMA HasRows ==
  ASSUME NEW d \in Nat, NEW l, BootsIn(l, d)
  PROVE  /\ \E o \in ToSet(l) : o.boot /\ o.kind = "pd" /\ o.badge = d + 1
         /\ \E o \in ToSet(l) : o.boot /\ o.kind = "space" /\ o.badge = d + 101
         /\ \E o \in ToSet(l) : o.boot /\ o.kind = "cpu" /\ o.badge = d + 2
         /\ \E o \in ToSet(l) : o.boot /\ o.kind = "ram" /\ o.badge = d + 3
         /\ \E o \in ToSet(l) : o.boot /\ o.kind = "thread"
         /\ \E o \in ToSet(l) : o.boot /\ o.kind = "ramds" /\ o.badge = d + 5 /\ o.ts = 6
         /\ \E o \in ToSet(l) : o.boot /\ o.kind = "ramds" /\ o.badge = d + 6 /\ o.ts = 7
         /\ \E o \in ToSet(l) : o.boot /\ o.kind = "source" /\ o.badge = d + 7
<1>1. \A t \in BootTable(d) : \E o \in ToSet(l) : o.boot /\ o.kind = t[1] /\ o.badge = t[2] /\ o.ts = t[6]
  <2> SUFFICES ASSUME NEW t \in BootTable(d)
               PROVE  \E o \in ToSet(l) : o.boot /\ o.kind = t[1] /\ o.badge = t[2] /\ o.ts = t[6]
    OBVIOUS
  <2>1. PICK o \in ToSet(l) : o.boot /\ Fixed(o) = t
    BY BootsThere
  <2> QED
    BY <2>1, FixedParts
<1> DEFINE Row(k, b, ow, r, tg, n) == <<k, b, ow, r, tg, n, TRUE>>
<1>2. /\ Row("pd", d + 1, 0, 0, 0, 1) \in BootTable(d)
      /\ Row("space", d + 101, d + 1, d + 301, 0, 2) \in BootTable(d)
      /\ Row("cpu", d + 2, 0, 0, 0, 3) \in BootTable(d) /\ Row("ram", d + 3, 0, 0, 0, 4) \in BootTable(d)
      /\ Row("thread", d + 4, d + 2, d + 1, 1, 5) \in BootTable(d)
      /\ Row("ramds", d + 5, d + 3, 0, 0, 6) \in BootTable(d) /\ Row("ramds", d + 6, d + 3, 0, 0, 7) \in BootTable(d)
      /\ Row("source", d + 7, d + 1, 0, 0, 8) \in BootTable(d)
  BY DEF BootTable
<1>3. \A k, b, ow, r, tg, n : /\ Row(k, b, ow, r, tg, n)[1] = k /\ Row(k, b, ow, r, tg, n)[2] = b
                              /\ Row(k, b, ow, r, tg, n)[6] = n
  OBVIOUS
<1> HIDE DEF Row
<1>4. \A k, b, ow, r, tg, n : Row(k, b, ow, r, tg, n) \in BootTable(d) =>
        \E o \in ToSet(l) : o.boot /\ o.kind = k /\ o.badge = b /\ o.ts = n
  BY <1>1, <1>3
<1> QED
  BY <1>2, <1>4

LEMMA ChildHas ==
  ASSUME BootsIn(child, 1000)
  PROVE  /\ \E o \in ToSet(child) : o.boot /\ o.kind = "pd" /\ o.badge = 1001
         /\ \E o \in ToSet(child) : o.boot /\ o.kind = "space" /\ o.badge = 1101
         /\ \E o \in ToSet(child) : o.boot /\ o.kind = "cpu" /\ o.badge = 1002
         /\ \E o \in ToSet(child) : o.boot /\ o.kind = "ram" /\ o.badge = 1003
         /\ \E o \in ToSet(child) : o.boot /\ o.kind = "thread"
         /\ \E o \in ToSet(child) : o.boot /\ o.kind = "ramds" /\ o.badge = 1005 /\ o.ts = 6
         /\ \E o \in ToSet(child) : o.boot /\ o.kind = "ramds" /\ o.badge = 1006 /\ o.ts = 7
         /\ \E o \in ToSet(child) : o.boot /\ o.kind = "source" /\ o.badge = 1007
<1>1. PICK d \in Nat : d = 1000
  OBVIOUS
<1>2. BootsIn(child, d)
  BY <1>1
<1>3. /\ d + 1 = 1001 /\ d + 101 = 1101 /\ d + 2 = 1002 /\ d + 3 = 1003 /\ d + 5 = 1005 /\ d + 6 = 1006
      /\ d + 7 = 1007
  BY <1>1
<1> QED
  BY <1>2, <1>3, HasRows

LEMMA PairsFacts ==
  ASSUME StoredWhole, child \in Seq(Object), BootsIn(child, 1000), \A c \in ToSet(child) : ~c.boot => c.ts = 0,
         pairs' = BootPairs(Under(stored, "ramds", 3), Under(child, "ramds", 1003)), UNCHANGED stored
  PROVE  PairsRight'
<1> DEFINE os == Under(stored, "ramds", 3)
           ns == Under(child, "ramds", 1003)
           old == MergeSort(StampsOfBoot(os))
           new == MergeSort(StampsOfBoot(ns))
           ByStamp(l, ts) == CHOOSE o \in ToSet(l) : o.ts = ts
           dom == {ByStamp(os, old[i]).badge : i \in DOMAIN old}
           IsPair(badge, ts, d) == (badge = d + 5 /\ ts = 6) \/ (badge = d + 6 /\ ts = 7)
           At(b) == CHOOSE i \in DOMAIN old : ByStamp(os, old[i]).badge = b
<1>1. pairs' = [b \in dom |-> ByStamp(ns, new[At(b)]).badge]
  BY DEF BootPairs
<1>2. stored \in Seq(Object) /\ Unique(stored)
  BY DEF StoredWhole
<1>3. \A o \in BootRamds(stored) : o.owner = 3 /\ IsPair(o.badge, o.ts, 0)
  <2> SUFFICES ASSUME NEW o \in BootRamds(stored)
               PROVE  o.owner = 3 /\ IsPair(o.badge, o.ts, 0)
    OBVIOUS
  <2>1. o \in ToSet(stored) /\ o.boot /\ o.kind = "ramds"
    BY DEF BootRamds
  <2>2. BootRow(o, 0)
    BY <2>1, StoredRow
  <2> QED
    BY <2>1, <2>2 DEF BootRow
<1>4. \A o \in BootRamds(child) : o.owner = 1003 /\ IsPair(o.badge, o.ts, 1000)
  <2> SUFFICES ASSUME NEW o \in BootRamds(child)
               PROVE  o.owner = 1003 /\ IsPair(o.badge, o.ts, 1000)
    OBVIOUS
  <2>1. o \in ToSet(child) /\ o.boot /\ o.kind = "ramds"
    BY DEF BootRamds
  <2>2. BootRow(o, 1000)
    BY <2>1, ChildRow
  <2> QED
    BY <2>1, <2>2 DEF BootRow
<1>23. \A o \in BootRamds(child) : o.ref = 0 /\ o.tag = 0 /\ o.kind = "ramds" /\ o.boot = TRUE
  <2> SUFFICES ASSUME NEW o \in BootRamds(child)
               PROVE  o.ref = 0 /\ o.tag = 0 /\ o.kind = "ramds" /\ o.boot = TRUE
    OBVIOUS
  <2>1. o \in ToSet(child) /\ o.boot /\ o.kind = "ramds"
    BY DEF BootRamds
  <2>2. BootRow(o, 1000) /\ o.boot = TRUE
    BY <2>1, ChildRow
  <2> QED
    BY <2>1, <2>2 DEF BootRow
<1>5. /\ \E o \in BootRamds(child) : o.ts = 6
      /\ \E o \in BootRamds(child) : o.ts = 7
  BY ChildHas DEF BootRamds
<1>6. Once(StampsOfBoot(os), {o.ts : o \in BootRamds(stored)})
  <2>1. \A i, j \in DOMAIN stored :
          stored[i].kind = "ramds" /\ stored[i].owner = 3 /\ stored[i].boot /\ stored[j].kind = "ramds"
            /\ stored[j].owner = 3 /\ stored[j].boot /\ stored[i].ts = stored[j].ts => i = j
    <3> SUFFICES ASSUME NEW i \in DOMAIN stored, NEW j \in DOMAIN stored,
                        /\ stored[i].kind = "ramds" /\ stored[i].owner = 3 /\ stored[i].boot
                        /\ stored[j].kind = "ramds" /\ stored[j].owner = 3 /\ stored[j].boot
                        /\ stored[i].ts = stored[j].ts
                 PROVE  i = j
      OBVIOUS
    <3>0. stored[i] \in BootRamds(stored) /\ stored[j] \in BootRamds(stored)
      BY <1>2, ListElements DEF BootRamds
    <3>1. stored[i].badge = stored[j].badge
      BY <1>3, <3>0
    <3>2. Same(stored[i], stored[j])
      BY <1>3, <3>0, <3>1 DEF Same, Key, BootRamds
    <3> QED
      BY <1>2, <3>2 DEF Unique
  <2>2. {p \in ToSet(stored) : p.kind = "ramds" /\ p.owner = 3 /\ p.boot} = BootRamds(stored)
    BY <1>3 DEF BootRamds
  <2>3. Once(StampsOfBoot(os), {o.ts : o \in {p \in ToSet(stored) : p.kind = "ramds" /\ p.owner = 3 /\ p.boot}})
    BY <1>2, <2>1, StampsFacts
  <2> QED
    BY <2>2, <2>3
<1>7. Once(StampsOfBoot(ns), {o.ts : o \in BootRamds(child)})
  <2>1. \A i, j \in DOMAIN child :
          child[i].kind = "ramds" /\ child[i].owner = 1003 /\ child[i].boot /\ child[j].kind = "ramds"
            /\ child[j].owner = 1003 /\ child[j].boot /\ child[i].ts = child[j].ts => i = j
    <3> SUFFICES ASSUME NEW i \in DOMAIN child, NEW j \in DOMAIN child,
                        /\ child[i].kind = "ramds" /\ child[i].owner = 1003 /\ child[i].boot
                        /\ child[j].kind = "ramds" /\ child[j].owner = 1003 /\ child[j].boot
                        /\ child[i].ts = child[j].ts
                 PROVE  i = j
      OBVIOUS
    <3>0. child[i] \in BootRamds(child) /\ child[j] \in BootRamds(child)
      BY ListElements DEF BootRamds
    <3>1. child[i].badge = child[j].badge
      BY <1>4, <3>0
    <3>2. \A o \in BootRamds(child) : o.ref = 0 /\ o.tag = 0 /\ o.kind = "ramds" /\ o.boot = TRUE
      BY <1>23
    <3>3. Fixed(child[i]) = Fixed(child[j])
      <4> DEFINE a == child[i]
                 b == child[j]
      <4>1. /\ a.kind = b.kind /\ a.badge = b.badge /\ a.owner = b.owner /\ a.ref = b.ref /\ a.tag = b.tag
            /\ a.ts = b.ts /\ a.boot = b.boot
        BY <1>4, <3>0, <3>1, <3>2
      <4> HIDE DEF a, b
      <4>2. Fixed(a) = Fixed(b)
        BY <4>1 DEF Fixed
      <4> QED
        BY <4>2 DEF a, b
    <3> QED
      BY <3>3 DEF BootsIn
  <2>2. {p \in ToSet(child) : p.kind = "ramds" /\ p.owner = 1003 /\ p.boot} = BootRamds(child)
    BY <1>4 DEF BootRamds
  <2>3. Once(StampsOfBoot(ns), {o.ts : o \in {p \in ToSet(child) : p.kind = "ramds" /\ p.owner = 1003 /\ p.boot}})
    BY <2>1, StampsFacts
  <2> QED
    BY <2>2, <2>3
<1>8. {o.ts : o \in BootRamds(stored)} \subseteq {6, 7} /\ {o.ts : o \in BootRamds(child)} = {6, 7}
  BY <1>3, <1>4, <1>5
<1>9. /\ ToSet(os) = {o \in ToSet(stored) : o.kind = "ramds" /\ o.owner = 3}
      /\ ToSet(ns) = {o \in ToSet(child) : o.kind = "ramds" /\ o.owner = 1003}
  BY <1>2, UnderFacts
<1> HIDE DEF os, ns
<1>10. /\ Once(old, {o.ts : o \in BootRamds(stored)}) /\ Ascending(old)
       /\ Once(new, {o.ts : o \in BootRamds(child)}) /\ Ascending(new)
  BY <1>6, <1>7, SortedOnce
<1> HIDE DEF old, new
<1>11. 6 \in Nat /\ 7 \in Nat /\ 6 < 7
  OBVIOUS
<1>12. /\ Len(old) \in 0 .. 2 /\ ({o.ts : o \in BootRamds(stored)} = {6, 7} => Len(old) = 2 /\ old[1] = 6 /\ old[2] = 7)
       /\ new[1] = 6 /\ new[2] = 7
  <2> DEFINE T == {o.ts : o \in BootRamds(stored)}
             N == {o.ts : o \in BootRamds(child)}
  <2>3. T \subseteq {6, 7} /\ N = {6, 7} /\ N \subseteq {6, 7} /\ Once(old, T) /\ Once(new, N)
    BY <1>8, <1>10
  <2> HIDE DEF T, N
  <2>4. Len(old) \in 0 .. 2 /\ (T = {6, 7} => Len(old) = 2 /\ old[1] = 6 /\ old[2] = 7)
    <3>1. \A a, b \in Nat : a < b /\ T \subseteq {a, b} =>
            Len(old) \in 0 .. 2 /\ (T = {a, b} => Len(old) = 2 /\ old[1] = a /\ old[2] = b)
      <4>1. Once(old, T) /\ Ascending(old)
        BY <1>10, <2>3
      <4> QED
        BY <4>1, SortedTwo
    <3> QED
      BY <1>11, <2>3, <3>1
  <2>1. /\ Len(old) \in 0 .. 2
        /\ ({o.ts : o \in BootRamds(stored)} = {6, 7} => Len(old) = 2 /\ old[1] = 6 /\ old[2] = 7)
    BY <2>4 DEF T
  <2>2. new[1] = 6 /\ new[2] = 7
    BY <1>10, <1>11, <2>3, SortedTwo
  <2> QED
    BY <2>1, <2>2
<1>13. DOMAIN old = 1 .. Len(old) /\ \A i \in DOMAIN old : i = 1 \/ i = 2
  <2>1. DOMAIN old = 1 .. Len(old)
    BY <1>10, LenProperties DEF Once
  <2> QED
    BY <1>12, <2>1
<1>14. \A o \in BootRamds(stored) : ByStamp(os, o.ts) = o
  <2> SUFFICES ASSUME NEW o \in BootRamds(stored) PROVE ByStamp(os, o.ts) = o
    OBVIOUS
  <2>1. o \in ToSet(os)
    BY <1>3, <1>9 DEF BootRamds
  <2>2. ASSUME NEW p \in ToSet(os), p.ts = o.ts PROVE p = o
    <3>1. p \in ToSet(stored) /\ p.kind = "ramds"
      BY <1>9
    <3>2. p.boot
      BY <1>3, <2>2, <3>1 DEF StoredWhole, Sane
    <3>3. p.badge = o.badge
      BY <1>3, <2>2, <3>1, <3>2 DEF BootRamds
    <3> QED
      BY <3>1, <3>3 DEF StoredWhole, BootRamds
  <2> QED
    BY <2>1, <2>2
<1>15. \A ts \in {6, 7} : ByStamp(ns, ts).badge = IF ts = 6 THEN 1005 ELSE 1006
  <2> SUFFICES ASSUME NEW ts \in {6, 7}
               PROVE  ByStamp(ns, ts).badge = IF ts = 6 THEN 1005 ELSE 1006
    OBVIOUS
  <2>1. \E o \in ToSet(ns) : o.ts = ts
    BY <1>4, <1>5, <1>9 DEF BootRamds
  <2>2. ASSUME NEW p \in ToSet(ns), p.ts = ts PROVE p.badge = IF ts = 6 THEN 1005 ELSE 1006
    <3>1. p \in BootRamds(child)
      BY <1>9, <2>2 DEF BootRamds
    <3> QED
      BY <1>4, <2>2, <3>1
  <2>3. ByStamp(ns, ts) \in ToSet(ns) /\ ByStamp(ns, ts).ts = ts
    BY <2>1
  <2> QED
    BY <2>2, <2>3
<1> HIDE DEF ByStamp
<1>16. \A b \in dom : At(b) \in DOMAIN old /\ ByStamp(os, old[At(b)]).badge = b
  OBVIOUS
<1> HIDE DEF At
<1>17. DOMAIN pairs' = dom /\ \A b \in dom : pairs'[b] = ByStamp(ns, new[At(b)]).badge
  BY <1>1
<1>22. {old[i] : i \in 1 .. Len(old)} = {o.ts : o \in BootRamds(stored)}
  BY <1>10 DEF Once
<1>18. \A i \in DOMAIN old : \E o \in BootRamds(stored) : old[i] = o.ts /\ ByStamp(os, old[i]) = o
  <2> SUFFICES ASSUME NEW i \in DOMAIN old
               PROVE  \E o \in BootRamds(stored) : old[i] = o.ts /\ ByStamp(os, old[i]) = o
    OBVIOUS
  <2>1. PICK o \in BootRamds(stored) : old[i] = o.ts
    BY <1>13, <1>22
  <2> QED
    BY <1>14, <2>1
<1>19. \A o \in BootRamds(stored) : o.badge \in dom
  <2> SUFFICES ASSUME NEW o \in BootRamds(stored) PROVE o.badge \in dom
    OBVIOUS
  <2>1. \E i \in 1 .. Len(old) : old[i] = o.ts
    BY <1>22
  <2> QED
    BY <1>13, <1>14, <2>1
<1>20. \A b \in dom : pairs'[b] \in {1005, 1006}
  BY <1>12, <1>13, <1>15, <1>16, <1>17
<1>21. ASSUME \A b \in {5, 6} : \E s \in ToSet(stored) : s.kind = "ramds" /\ s.boot /\ s.badge = b
       PROVE  pairs'[5] = 1005 /\ pairs'[6] = 1006
  <2>1. PICK s \in BootRamds(stored) : s.badge = 5
    BY <1>21 DEF BootRamds
  <2>2. PICK t \in BootRamds(stored) : t.badge = 6
    BY <1>21 DEF BootRamds
  <2>3. s.ts = 6 /\ t.ts = 7
    BY <1>3, <2>1, <2>2
  <2>4. Len(old) = 2 /\ old[1] = 6 /\ old[2] = 7
    BY <1>3, <1>8, <1>12, <2>1, <2>2, <2>3
  <2>5. ByStamp(os, old[1]) = s /\ ByStamp(os, old[2]) = t
    BY <1>14, <2>3, <2>4
  <2>6. 5 \in dom /\ 6 \in dom
    BY <1>19, <2>1, <2>2
  <2>7. At(5) = 1 /\ At(6) = 2
    BY <1>13, <1>16, <2>1, <2>2, <2>5, <2>6
  <2> QED
    BY <1>12, <1>15, <1>17, <2>6, <2>7
<1> QED
  <2> HIDE DEF dom
  <2> QED
    BY <1>17, <1>19, <1>20, <1>21 DEF PairsRight, BootRamds

-----------------------------------------------------------------------------
(* One step of the first walk.                                             *)

\* tr leads to objects of the child.
TrIn == \A b \in DOMAIN tr : \E o \in ToSet(child) : tr[b] \in {o.badge, o.ref}

\* These infos have been treated: each has an object of the child.
Matched(seen) ==
  /\ DOMAIN tr = UNION {Keys(s) : s \in seen}
  /\ \A s \in seen :
       /\ s \in ToSet(stored) /\ s.kind \notin {"region", "native"}
       /\ \E c \in ToSet(child) : c.kind = s.kind /\ c.badge = tr[s.badge]
       /\ s.kind \in {"pd", "cpu", "ram"} /\ s.boot => tr[s.badge] = s.badge + 1000
       /\ s.kind = "pd" => s.boot
       /\ s.kind = "ram" => s.badge = 3 /\ PairsRight

\* What else is true of the child all the time.
ChildSound ==
  /\ child \in Seq(Object) /\ TrIn /\ BootsIn(child, 1000)
  /\ \A c \in ToSet(child) : ~c.boot => c.ts = 0

\* s is translated to c, nothing else is translated anew.
Translated(s, c) ==
  /\ DOMAIN tr' = DOMAIN tr \cup Keys(s)
  /\ tr'[s.badge] = c.badge /\ (IsMap(s) => tr'[s.ref] = c.ref)
  /\ \A b \in DOMAIN tr \ Keys(s) : tr'[b] = tr[b]

\* c is the object that the child has had since its bootstrap.
Found(s, c) ==
  /\ s.boot /\ UNCHANGED child /\ c \in ToSet(child) /\ c.kind = s.kind
  /\ CASE s.kind = "ramds"  -> c.boot /\ c.badge = pairs[s.badge]
       [] s.kind = "thread" -> c = Named(1002, 1) /\ c.owner = 1002 /\ c.tag = 1
       [] OTHER             -> c.boot /\ c.badge = s.badge + 1000

\* c is new.
Made(s, c) ==
  /\ ~s.boot /\ s.kind \notin {"pd", "space"} /\ child' = Cons(c, child) /\ c \in Object
  /\ c = Obj(s.kind, NewBadge, Image(s.owner),
             IF s.kind = "map" THEN DsOf(NewBadge) ELSE Image(s.ref), s.tag)
  /\ s.owner \in {0} \cup DOMAIN tr
  /\ s.kind # "map" => s.ref \in {0} \cup DOMAIN tr

LEMMA TranslatedOne ==
  ASSUME NEW s, ~IsMap(s), NEW c, tr' = Noted(tr, s.badge, c.badge)
  PROVE  Translated(s, c)
<1>1. Keys(s) = {s.badge}
  BY DEF Keys
<1>2. /\ DOMAIN tr' = DOMAIN tr \cup {s.badge} /\ tr'[s.badge] = c.badge
      /\ \A x \in DOMAIN tr \ {s.badge} : tr'[x] = tr[x]
  BY DEF Noted
<1> QED
  BY <1>1, <1>2 DEF Translated

LEMMA TranslatedMap ==
  ASSUME NEW s, IsMap(s), NEW c, s.ref # s.badge,
         tr' = Noted(Noted(tr, s.badge, c.badge), s.ref, c.ref)
  PROVE  Translated(s, c)
<1> DEFINE f == Noted(tr, s.badge, c.badge)
<1>1. Keys(s) = {s.badge, s.ref}
  BY DEF Keys
<1>2. f = Noted(tr, s.badge, c.badge) /\ tr' = Noted(f, s.ref, c.ref)
  OBVIOUS
<1> HIDE DEF f
<1>3. /\ DOMAIN f = DOMAIN tr \cup {s.badge} /\ f[s.badge] = c.badge
      /\ \A x \in DOMAIN tr \ {s.badge} : f[x] = tr[x]
  BY <1>2 DEF Noted
<1>4. /\ DOMAIN tr' = DOMAIN f \cup {s.ref} /\ tr'[s.ref] = c.ref
      /\ \A x \in DOMAIN f \ {s.ref} : tr'[x] = f[x]
  BY <1>2 DEF Noted
<1>5. tr'[s.badge] = c.badge
  BY <1>3, <1>4
<1>6. \A x \in DOMAIN tr \ {s.badge, s.ref} : tr'[x] = tr[x]
  BY <1>3, <1>4
<1> QED
  BY <1>1, <1>3, <1>4, <1>5, <1>6 DEF Translated

LEMMA BootOfFacts ==
  ASSUME BootsIn(child, 1000)
  PROVE  /\ BootOf("ram") \in ToSet(child) /\ BootOf("ram").kind = "ram" /\ BootOf("ram").boot
         /\ BootOf("ram").badge = 1003
         /\ BootOf("pd") \in ToSet(child) /\ BootOf("pd").kind = "pd" /\ BootOf("pd").boot
         /\ BootOf("pd").badge = 1001
         /\ BootOf("cpu") \in ToSet(child) /\ BootOf("cpu").kind = "cpu" /\ BootOf("cpu").boot
         /\ BootOf("cpu").badge = 1002
         /\ BootOf("source") \in ToSet(child) /\ BootOf("source").kind = "source" /\ BootOf("source").boot
         /\ BootOf("source").badge = 1007
<1>1. \A kind \in {"ram", "pd", "cpu", "source"} :
        BootOf(kind) \in ToSet(child) /\ BootOf(kind).kind = kind /\ BootOf(kind).boot
  BY ChildHas DEF BootOf
<1>2. \A o \in ToSet(child) : o.boot => BootRow(o, 1000)
  BY ChildRow
<1>3. \A o : BootRow(o, 1000) => /\ o.kind = "ram" => o.badge = 1003
                                 /\ o.kind = "pd" => o.badge = 1001
                                 /\ o.kind = "cpu" => o.badge = 1002
                                 /\ o.kind = "source" => o.badge = 1007
  BY DEF BootRow
<1> QED
  BY <1>1, <1>2, <1>3

\* The main thread, found by its name.
LEMMA NamedFacts ==
  ASSUME child \in Seq(Object), BootsIn(child, 1000)
  PROVE  LET c == Named(1002, 1)
         IN  c \in ToSet(child) /\ c.kind = "thread" /\ c.owner = 1002 /\ c.tag = 1
<1> DEFINE set == {o \in ToSet(child) : o.kind = "thread" /\ o.owner = 1002 /\ o.tag = 1}
           l == Only(child, set)
<1>1. \E o \in ToSet(child) : o \in set
  <2>1. PICK o \in ToSet(child) : o.boot /\ o.kind = "thread"
    BY ChildHas
  <2>2. BootRow(o, 1000)
    BY <2>1, ChildRow
  <2>3. o.owner = 1002 /\ o.tag = 1
    BY <2>1, <2>2 DEF BootRow
  <2> QED
    BY <2>1, <2>3
<1>2. l \in Seq(Object) /\ ToSet(l) = ToSet(child) \cap set
  <2> HIDE DEF set
  <2> QED
    BY OnlyFacts
<1>3. Named(1002, 1) = Head(l)
  BY DEF Named
<1> HIDE DEF l
<1>4. l # <<>>
  BY <1>1, <1>2 DEF ToSet
<1>5. Head(l) = l[1] /\ 1 \in 1 .. Len(l)
  BY <1>2, <1>4, TailFacts
<1>6. Head(l) \in ToSet(l)
  BY <1>2, <1>5, ListElements
<1> QED
  BY <1>2, <1>3, <1>6

LEMMA NewObject ==
  ASSUME NEW kind \in Kind, NEW badge \in Nat, NEW owner \in Nat, NEW ref \in Nat, NEW tag \in Nat
  PROVE  /\ Obj(kind, badge, owner, ref, tag) \in Object
         /\ LET o == Obj(kind, badge, owner, ref, tag)
            IN  /\ o.kind = kind /\ o.badge = badge /\ o.owner = owner /\ o.ref = ref /\ o.tag = tag
                /\ ~o.boot /\ o.ts = 0 /\ o.kcap = 0 /\ o.sigh = 0 /\ o.mode = 0 /\ o.quota = 0
BY DEF Obj, Object

\* The numbers that tr leads to, and the badges of what was treated.
LEMMA TrFacts ==
  ASSUME StoredWhole, ChildSound, NEW seen, Matched(seen)
  PROVE  /\ \A b \in DOMAIN tr : b # 0 /\ tr[b] \in Nat /\ Image(b) = tr[b]
         /\ Image(0) = 0
         /\ NewBadge \in Nat /\ SpaceOf(NewBadge) \in Nat /\ DsOf(NewBadge) \in Nat
         /\ DsOf(SpaceOf(NewBadge)) \in Nat
         /\ \A s \in seen : Keys(s) \subseteq DOMAIN tr /\ s.badge \in Keys(s) /\ s.badge \in DOMAIN tr
<1>1. \A o \in ToSet(child) : o.badge \in Nat /\ o.ref \in Nat
  <2>1. child \in Seq(Object)
    BY DEF ChildSound
  <2>2. \A o \in ToSet(child) : o \in Object
    BY <2>1, ListElements
  <2> QED
    BY <2>2 DEF Object
<1>2. ASSUME NEW b \in DOMAIN tr PROVE b # 0
  <2>1. PICK s \in seen : b \in Keys(s)
    BY DEF Matched
  <2>2. s \in ToSet(stored) /\ s.kind # "region"
    BY DEF Matched
  <2>3. s.badge # 0 /\ s.badge \in Nat /\ (IsMap(s) => s.ref = s.badge + 200)
    BY <2>2 DEF StoredWhole, Sane, Object, DsOf
  <2> QED
    BY <2>1, <2>3 DEF Keys
<1>3. Len(child) \in Nat
  BY ListElements DEF ChildSound
<1>4. \A b \in DOMAIN tr : tr[b] \in Nat
  BY <1>1 DEF ChildSound, TrIn
<1>5. NewBadge \in Nat
  BY <1>3 DEF NewBadge, NthBadge
<1>6. \A n \in Nat : SpaceOf(n) \in Nat /\ DsOf(n) \in Nat
  BY DEF SpaceOf, DsOf
<1>7. \A s \in seen : Keys(s) \subseteq DOMAIN tr /\ s.badge \in Keys(s)
  BY DEF Matched, Keys
<1> QED
  BY <1>2, <1>4, <1>5, <1>6, <1>7 DEF Image

\* A session of the target, when a member of it is treated.
Reachable(s, seen) ==
  s.kind \in MemberKind => \E p \in seen : p.kind \in OwnerKinds(s.kind) /\ p.badge = s.owner

\* The session of the member has a counterpart.
LEMMA OwnerFacts ==
  ASSUME StoredWhole, ChildSound, NEW seen, Matched(seen), NEW s \in ToSet(stored),
         s.kind \in MemberKind, s.kind # "region", Reachable(s, seen)
  PROVE  /\ s.owner \in DOMAIN tr /\ Image(s.owner) = tr[s.owner] /\ tr[s.owner] \in Nat
         /\ \E p \in seen : p.kind \in OwnerKinds(s.kind) /\ p.badge = s.owner
<1>1. PICK p \in seen : p.kind \in OwnerKinds(s.kind) /\ p.badge = s.owner
  BY DEF Reachable
<1> QED
  BY <1>1, TrFacts

LEMMA RecreatedFacts ==
  ASSUME StoredWhole, ChildSound, NEW seen, Matched(seen), S \in ToSet(stored), ~IsMap(S),
         S.kind \notin {"region", "native", "pd"}, ~S.boot,
         NEW owner, NEW ref, Recreated(owner, ref), owner = Image(S.owner), ref = Image(S.ref),
         S.owner \in {0} \cup DOMAIN tr, S.ref \in {0} \cup DOMAIN tr
  PROVE  \E c : Translated(S, c) /\ Made(S, c)
<1> DEFINE c == Obj(S.kind, NewBadge, owner, ref, S.tag)
<1>1. child' = Cons(c, child) /\ tr' = Noted(tr, S.badge, NewBadge)
  BY DEF Recreated
<1>2. S.kind \in Kind /\ S.tag \in Nat
  BY DEF StoredWhole, Object
<1>3. owner \in Nat /\ ref \in Nat /\ NewBadge \in Nat
  <2>1. \A b \in {0} \cup DOMAIN tr : Image(b) \in Nat
    BY TrFacts
  <2> QED
    BY <2>1, TrFacts
<1>4. c \in Object /\ c.badge = NewBadge
  BY <1>2, <1>3 DEF Obj, Object
<1>5. S.kind \notin {"pd", "space", "map"}
  BY DEF IsMap
<1> HIDE DEF c
<1>6. Translated(S, c)
  BY <1>1, <1>4, TranslatedOne
<1>7. Made(S, c)
  BY <1>1, <1>4, <1>5 DEF Made, c
<1> QED
  BY <1>6, <1>7

LEMMA IdentifiedFacts ==
  ASSUME ~IsMap(S), S.boot, NEW c \in ToSet(child), c.kind = S.kind, Identified(c.badge),
         CASE S.kind = "ramds"  -> c.boot /\ c.badge = pairs[S.badge]
           [] S.kind = "thread" -> c = Named(1002, 1) /\ c.owner = 1002 /\ c.tag = 1
           [] OTHER             -> c.boot /\ c.badge = S.badge + 1000
  PROVE  Translated(S, c) /\ Found(S, c)
<1>1. tr' = Noted(tr, S.badge, c.badge) /\ UNCHANGED child
  BY DEF Identified
<1>2. Translated(S, c)
  BY <1>1, TranslatedOne
<1> QED
  BY <1>1, <1>2 DEF Found

-----------------------------------------------------------------------------
(* What each function of the first walk does to the child.                 *)

Ready(seen) ==
  /\ StoredWhole /\ ChildSound /\ Matched(seen)
  /\ S \in ToSet(stored) /\ S.kind \notin {"region", "native"} /\ Reachable(S, seen)

Treated(s) == \E c : Translated(s, c) /\ (Found(s, c) \/ Made(s, c))

Goes(s) ==
  /\ rsPc' = rsPc /\ Treated(s)
  /\ s.kind = "pd" => s.boot
  /\ IF s.kind = "ram" THEN s.badge = 3 /\ PairsRight' ELSE pairs' = pairs

Stops == rsPc' \in {"failed", "crashed"} /\ child' \in Seq(Object) /\ TrIn'

LEMMA TreatedFacts ==
  ASSUME child \in Seq(Object), TrIn, NEW s, Treated(s)
  PROVE  /\ child' \in Seq(Object) /\ TrIn'
         /\ \A o \in ToSet(child) : o \in ToSet(child')
<1>1. PICK c : Translated(s, c) /\ (Found(s, c) \/ Made(s, c))
  BY DEF Treated
<1>2. child' \in Seq(Object) /\ c \in ToSet(child') /\ \A o \in ToSet(child) : o \in ToSet(child')
  <2>1. CASE Found(s, c)
    BY <2>1 DEF Found
  <2>2. CASE Made(s, c)
    <3>1. child' = Cons(c, child) /\ c \in Object
      BY <2>2 DEF Made
    <3>2. /\ Cons(c, child) \in Seq(Object)
          /\ ToSet(Cons(c, child)) = {c} \cup ToSet(child)
      BY <3>1, ConsFacts
    <3> QED
      BY <3>1, <3>2
  <2> QED
    BY <1>1, <2>1, <2>2
<1>3. ASSUME NEW b \in DOMAIN tr' PROVE \E o \in ToSet(child') : tr'[b] \in {o.badge, o.ref}
  <2>1. CASE b \in Keys(s)
    <3>1. tr'[b] \in {c.badge, c.ref}
      BY <1>1, <2>1 DEF Translated, Keys
    <3> QED
      BY <1>2, <3>1
  <2>2. CASE b \notin Keys(s)
    <3>1. b \in DOMAIN tr /\ tr'[b] = tr[b]
      BY <1>1, <1>3, <2>2 DEF Translated
    <3>2. PICK o \in ToSet(child) : tr[b] \in {o.badge, o.ref}
      BY <3>1 DEF TrIn
    <3> QED
      BY <1>2, <3>1, <3>2
  <2> QED
    BY <2>1, <2>2
<1> QED
  BY <1>2, <1>3 DEF TrIn

\* An exception or a null pointer before anything was made, or after.
LEMMA StopsFacts ==
  ASSUME child \in Seq(Object), TrIn, rsPc' \in {"failed", "crashed"},
         UNCHANGED <<child, tr>> \/ \E s : Treated(s)
  PROVE  Stops
<1>1. CASE UNCHANGED <<child, tr>>
  BY <1>1 DEF Stops, TrIn
<1>2. CASE \E s : Treated(s)
  BY <1>2, TreatedFacts DEF Stops
<1> QED
  BY <1>1, <1>2

\* The kinds of the infos of the target's bootstrap, and their badges.
LEMMA StoredBoot ==
  ASSUME StoredWhole, NEW s \in ToSet(stored)
  PROVE  /\ s.boot => /\ s.kind \in {"pd", "space", "cpu", "ram", "thread", "ramds", "source", "region"}
                      /\ s.kind = "pd" => s.badge = 1
                      /\ s.kind = "space" => s.badge = 101 /\ s.owner = 1 /\ s.ref = 301
                      /\ s.kind = "cpu" => s.badge = 2
                      /\ s.kind = "ram" => s.badge = 3
                      /\ s.kind = "thread" => s.owner = 2 /\ s.tag = 1
                      /\ s.kind = "ramds" => s.owner = 3
                      /\ s.kind = "source" => s.badge = 7
         /\ s.boot \in BOOLEAN /\ s.badge \in Nat
         /\ ~s.boot /\ s.kind # "region" => s.badge >= 1000
         /\ s.kind \in SessionKind => s.owner = 0 /\ s.ref = 0
         /\ s.kind \in {"ramds", "source"} => s.ref = 0
         /\ s.kind = "space" => s.badge = s.owner + 100 /\ s.owner \in Nat
         /\ IsMap(s) => s.ref = s.badge + 200
<1>1. s.boot => BootRow(s, 0)
  BY StoredRow
<1>2. Sane(s) /\ s \in Object
  BY DEF StoredWhole
<1>3. s.boot \in BOOLEAN /\ s.badge \in Nat /\ s.owner \in Nat
  BY <1>2 DEF Object
<1>4. BootRow(s, 0) =>
        /\ s.kind \in {"pd", "space", "cpu", "ram", "thread", "ramds", "source", "region"}
        /\ s.kind = "pd" => s.badge = 1
        /\ s.kind = "space" => s.badge = 101 /\ s.owner = 1 /\ s.ref = 301
        /\ s.kind = "cpu" => s.badge = 2
        /\ s.kind = "ram" => s.badge = 3
        /\ s.kind = "thread" => s.owner = 2 /\ s.tag = 1
        /\ s.kind = "ramds" => s.owner = 3
        /\ s.kind = "source" => s.badge = 7
  BY DEF BootRow
<1>5. /\ ~s.boot /\ s.kind # "region" => s.badge >= 1000
      /\ s.kind \in SessionKind => s.owner = 0 /\ s.ref = 0
      /\ s.kind \in {"ramds", "source"} => s.ref = 0
      /\ s.kind = "space" => s.badge = s.owner + 100
      /\ IsMap(s) => s.ref = s.badge + 200
  BY <1>2 DEF Sane, SpaceOf, DsOf
<1> QED
  BY <1>1, <1>3, <1>4, <1>5

LEMMA IdentifyRamdsFinds ==
  ASSUME NEW seen, Ready(seen), IdentifyRamds
  PROVE  Goes(S)
<1> USE DEF Ready
<1>1. S.kind = "ramds" /\ rsPc' = rsPc /\ pairs' = pairs
  BY DEF IdentifyRamds, Visit, S
<1>2. S.kind \in MemberKind /\ OwnerKinds("ramds") = {"ram"} /\ ~IsMap(S)
  BY <1>1 DEF MemberKind, OwnerKinds, IsMap
<1>3. /\ S.owner \in DOMAIN tr /\ Image(S.owner) = tr[S.owner]
      /\ \E p \in seen : p.kind \in OwnerKinds(S.kind) /\ p.badge = S.owner
  BY <1>1, <1>2, OwnerFacts
<1>4. Treated(S)
  <2>1. CASE S.boot
    <3>1. PairsRight
      BY <1>1, <1>2, <1>3 DEF Matched
    <3>2. pairs[S.badge] \in {1005, 1006}
      BY <1>1, <2>1, <3>1 DEF PairsRight
    <3>3. PICK c \in ToSet(child) : c.boot /\ c.kind = "ramds" /\ c.badge = pairs[S.badge]
      BY <3>2, ChildHas DEF ChildSound
    <3>4. Identified(c.badge)
      BY <1>1, <2>1, <3>3 DEF IdentifyRamds
    <3>5. Translated(S, c) /\ Found(S, c)
      BY <1>1, <1>2, <2>1, <3>3, <3>4, IdentifiedFacts
    <3> QED
      BY <3>5 DEF Treated
  <2>2. CASE ~S.boot
    <3>1. Recreated(tr[S.owner], 0)
      BY <1>1, <2>2 DEF IdentifyRamds
    <3>2. S.ref = 0 /\ Image(0) = 0
      BY <1>1, StoredBoot, TrFacts
    <3>3. \E c : Translated(S, c) /\ Made(S, c)
      BY <1>1, <1>2, <1>3, <2>2, <3>1, <3>2, RecreatedFacts
    <3> QED
      BY <3>3 DEF Treated
  <2> QED
    BY <2>1, <2>2
<1> QED
  BY <1>1, <1>4 DEF Goes

LEMMA IdentifySourceFinds ==
  ASSUME NEW seen, Ready(seen), IdentifySource
  PROVE  Goes(S)
<1> USE DEF Ready
<1>1. S.kind = "source" /\ rsPc' = rsPc /\ pairs' = pairs
  BY DEF IdentifySource, Visit, S
<1>2. S.kind \in MemberKind /\ ~IsMap(S)
  BY <1>1 DEF MemberKind, IsMap
<1>3. S.owner \in DOMAIN tr /\ Image(S.owner) = tr[S.owner]
  BY <1>1, <1>2, OwnerFacts
<1>4. Treated(S)
  <2>1. CASE S.boot
    <3> DEFINE c == BootOf("source")
    <3>1. c \in ToSet(child) /\ c.kind = "source" /\ c.boot /\ c.badge = 1007
      BY BootOfFacts DEF ChildSound
    <3>2. S.badge = 7
      BY <1>1, <2>1, StoredBoot
    <3>3. Identified(c.badge)
      BY <1>1, <2>1 DEF IdentifySource
    <3> HIDE DEF c
    <3>4. Translated(S, c) /\ Found(S, c)
      BY <1>1, <1>2, <2>1, <3>1, <3>2, <3>3, IdentifiedFacts
    <3> QED
      BY <3>4 DEF Treated
  <2>2. CASE ~S.boot
    <3>1. Recreated(tr[S.owner], 0)
      BY <1>1, <2>2 DEF IdentifySource
    <3>2. S.ref = 0 /\ Image(0) = 0
      BY <1>1, StoredBoot, TrFacts
    <3>3. \E c : Translated(S, c) /\ Made(S, c)
      BY <1>1, <1>2, <1>3, <2>2, <3>1, <3>2, RecreatedFacts
    <3> QED
      BY <3>3 DEF Treated
  <2> QED
    BY <2>1, <2>2
<1> QED
  BY <1>1, <1>4 DEF Goes

LEMMA IdentifyCpuFinds ==
  ASSUME NEW seen, Ready(seen), IdentifyCpu
  PROVE  Goes(S)
<1> USE DEF Ready
<1>1. S.kind = "cpu" /\ rsPc' = rsPc /\ pairs' = pairs
  BY DEF IdentifyCpu, Visit, S
<1>2. S.kind \in SessionKind /\ ~IsMap(S)
  BY <1>1 DEF SessionKind, IsMap
<1>4. Treated(S)
  <2>1. CASE S.boot
    <3> DEFINE c == BootOf("cpu")
    <3>1. c \in ToSet(child) /\ c.kind = "cpu" /\ c.boot /\ c.badge = 1002
      BY BootOfFacts DEF ChildSound
    <3>2. S.badge = 2
      BY <1>1, <2>1, StoredBoot
    <3>3. Identified(c.badge)
      BY <1>1, <2>1 DEF IdentifyCpu
    <3> HIDE DEF c
    <3>4. Translated(S, c) /\ Found(S, c)
      BY <1>1, <1>2, <2>1, <3>1, <3>2, <3>3, IdentifiedFacts
    <3> QED
      BY <3>4 DEF Treated
  <2>2. CASE ~S.boot
    <3>1. Recreated(0, 0)
      BY <1>1, <2>2 DEF IdentifyCpu
    <3>2. S.owner = 0 /\ S.ref = 0 /\ Image(0) = 0
      BY <1>2, StoredBoot, TrFacts
    <3>3. \E c : Translated(S, c) /\ Made(S, c)
      BY <1>1, <1>2, <2>2, <3>1, <3>2, RecreatedFacts
    <3> QED
      BY <3>3 DEF Treated
  <2> QED
    BY <2>1, <2>2
<1> QED
  BY <1>1, <1>4 DEF Goes
LEMMA IdentifySessionFinds ==
  ASSUME NEW seen, Ready(seen), NEW kind \in {"rm", "log", "timer"}, Visit("identify", kind),
         Recreated(0, 0), UNCHANGED <<rsPc, pairs>>
  PROVE  Goes(S)
<1> USE DEF Ready
<1>1. S.kind = kind /\ rsPc' = rsPc /\ pairs' = pairs
  BY DEF Visit, S
<1>2. S.kind \in SessionKind /\ ~IsMap(S) /\ S.kind \notin {"pd", "ram"}
  BY <1>1 DEF SessionKind, IsMap
<1>3. ~S.boot /\ S.owner = 0 /\ S.ref = 0 /\ Image(0) = 0
  BY <1>1, <1>2, StoredBoot, TrFacts
<1>4. \E c : Translated(S, c) /\ Made(S, c)
  BY <1>1, <1>2, <1>3, RecreatedFacts
<1> QED
  BY <1>1, <1>2, <1>4 DEF Goes, Treated

LEMMA IdentifyThreadFinds ==
  ASSUME NEW seen, Ready(seen), IdentifyThread
  PROVE  Goes(S) \/ Stops
<1> USE DEF Ready
<1>1. S.kind = "thread" /\ pairs' = pairs
  BY DEF IdentifyThread, Visit, S
<1>2. S.kind \in MemberKind /\ OwnerKinds("thread") = {"cpu"} /\ ~IsMap(S)
  BY <1>1 DEF MemberKind, OwnerKinds, IsMap
<1>3. /\ S.owner \in DOMAIN tr /\ Image(S.owner) = tr[S.owner]
      /\ \E p \in seen : p.kind \in OwnerKinds(S.kind) /\ p.badge = S.owner
  BY <1>1, <1>2, OwnerFacts
<1>4. CASE S.boot
  <2>1. Identified(Named(tr[S.owner], S.tag).badge) /\ rsPc' = rsPc
    BY <1>4 DEF IdentifyThread
  <2>2. S.owner = 2 /\ S.tag = 1
    BY <1>1, <1>4, StoredBoot
  <2>3. PICK p \in seen : p.kind = "cpu" /\ p.badge = 2
    BY <1>1, <1>2, <1>3, <2>2
  <2>4. p \in ToSet(stored) /\ p.boot
    <3>1. p \in ToSet(stored)
      BY DEF Matched
    <3>2. ~p.boot => p.badge >= 1000
      BY <2>3, <3>1, StoredBoot
    <3> QED
      BY <2>3, <3>1, <3>2, StoredBoot
  <2>5. tr[2] = 2 + 1000
    BY <2>3, <2>4 DEF Matched
  <2>6. tr[S.owner] = 1002
    BY <2>2, <2>5
  <2> DEFINE c == Named(1002, 1)
  <2>7. c \in ToSet(child) /\ c.kind = "thread" /\ c.owner = 1002 /\ c.tag = 1
    BY NamedFacts DEF ChildSound
  <2>8. Identified(c.badge) /\ c = Named(1002, 1)
    BY <2>1, <2>2, <2>6
  <2> HIDE DEF c
  <2>9. Translated(S, c) /\ Found(S, c)
    BY <1>1, <1>2, <1>4, <2>7, <2>8, IdentifiedFacts
  <2> QED
    BY <1>1, <2>1, <2>9 DEF Goes, Treated
<1>5. CASE ~S.boot /\ ~PdTranslated(S.ref)
  <2>1. Ends("failed")
    BY <1>5 DEF IdentifyThread
  <2>2. rsPc' = "failed" /\ UNCHANGED <<child, tr>>
    BY <2>1 DEF Ends
  <2> QED
    BY <2>2, StopsFacts DEF ChildSound
<1>6. CASE ~S.boot /\ PdTranslated(S.ref)
  <2>1. Recreated(tr[S.owner], tr[S.ref]) /\ rsPc' = rsPc
    BY <1>6 DEF IdentifyThread
  <2>2. S.ref \in DOMAIN tr
    BY <1>6 DEF PdTranslated
  <2>3. tr[S.ref] = Image(S.ref)
    BY <2>2, TrFacts
  <2>4. \E c : Translated(S, c) /\ Made(S, c)
    BY <1>1, <1>2, <1>3, <1>6, <2>1, <2>2, <2>3, RecreatedFacts
  <2> QED
    BY <1>1, <2>1, <2>4 DEF Goes, Treated
<1> QED
  BY <1>4, <1>5, <1>6

LEMMA IdentifyContextFinds ==
  ASSUME NEW seen, Ready(seen), IdentifyContext
  PROVE  Goes(S) \/ Stops
<1> USE DEF Ready
<1>1. S.kind = "context" /\ pairs' = pairs
  BY DEF IdentifyContext, Visit, S
<1>2. S.kind \in MemberKind /\ ~IsMap(S)
  BY <1>1 DEF MemberKind, IsMap
<1>3. S.owner \in DOMAIN tr /\ Image(S.owner) = tr[S.owner] /\ ~S.boot
  BY <1>1, <1>2, OwnerFacts, StoredBoot
<1>4. CASE Ends("crashed") \/ Ends("failed")
  <2>1. rsPc' \in {"failed", "crashed"} /\ UNCHANGED <<child, tr>>
    BY <1>4 DEF Ends
  <2> QED
    BY <2>1, StopsFacts DEF ChildSound
<1>5. CASE S.ref \in DOMAIN tr /\ Recreated(tr[S.owner], tr[S.ref]) /\ rsPc' = rsPc
  <2>1. tr[S.ref] = Image(S.ref)
    BY <1>5, TrFacts
  <2>2. \E c : Translated(S, c) /\ Made(S, c)
    BY <1>1, <1>2, <1>3, <1>5, <2>1, RecreatedFacts
  <2> QED
    BY <1>1, <1>5, <2>2 DEF Goes, Treated
<1>6. \/ Ends("crashed") \/ Ends("failed")
      \/ S.ref \in DOMAIN tr /\ Recreated(tr[S.owner], tr[S.ref]) /\ rsPc' = rsPc
  BY DEF IdentifyContext
<1> QED
  BY <1>4, <1>5, <1>6

LEMMA IdentifyMapFinds ==
  ASSUME NEW seen, Ready(seen), IdentifyMap
  PROVE  Goes(S)
<1> USE DEF Ready
<1> DEFINE c == Obj("map", NewBadge, tr[S.owner], DsOf(NewBadge), 0)
<1>1. S.kind = "map" /\ pairs' = pairs /\ rsPc' = rsPc
  BY DEF IdentifyMap, Visit, S
<1>2. S.kind \in MemberKind /\ IsMap(S)
  BY <1>1 DEF MemberKind, IsMap
<1>3. S.owner \in DOMAIN tr /\ Image(S.owner) = tr[S.owner] /\ tr[S.owner] \in Nat /\ ~S.boot
  BY <1>1, <1>2, OwnerFacts, StoredBoot
<1>4. NewBadge \in Nat /\ DsOf(NewBadge) \in Nat
  BY TrFacts
<1>5. c \in Object /\ c.badge = NewBadge /\ c.ref = DsOf(NewBadge)
  BY <1>3, <1>4 DEF Obj, Object, Kind, MemberKind
<1>6. S.tag = 0 /\ S.ref # S.badge
  <2>1. S.ref = S.badge + 200 /\ S.badge \in Nat
    BY <1>2, StoredBoot
  <2>2. S.tag = 0
    BY <1>2 DEF StoredWhole, Sane
  <2> QED
    BY <2>1, <2>2
<1>7. /\ child' = Cons(c, child)
      /\ tr' = Noted(Noted(tr, S.badge, NewBadge), S.ref, DsOf(NewBadge))
  BY DEF IdentifyMap
<1>8. c = Obj("map", NewBadge, tr[S.owner], DsOf(NewBadge), 0)
  OBVIOUS
<1> HIDE DEF c
<1>9. Translated(S, c)
  BY <1>2, <1>5, <1>6, <1>7, TranslatedMap
<1>10. c = Obj(S.kind, NewBadge, Image(S.owner), DsOf(NewBadge), S.tag)
  BY <1>1, <1>3, <1>6, <1>8
<1>11. Made(S, c)
  BY <1>1, <1>3, <1>5, <1>7, <1>10 DEF Made
<1> QED
  BY <1>1, <1>9, <1>11 DEF Goes, Treated

LEMMA IdentifySpaceFinds ==
  ASSUME NEW seen, Ready(seen), IdentifySpace
  PROVE  Goes(S)
<1> USE DEF Ready
<1>1. S.kind = "space" /\ pairs' = pairs /\ rsPc' = rsPc /\ UNCHANGED child
  BY DEF IdentifySpace, Visit, S
<1>2. S.kind \in MemberKind /\ OwnerKinds("space") = {"pd"} /\ IsMap(S)
  BY <1>1 DEF MemberKind, OwnerKinds, IsMap
<1>3. PICK p \in seen : p.kind = "pd" /\ p.badge = S.owner
  BY <1>1, <1>2, OwnerFacts
<1>4. p \in ToSet(stored) /\ p.boot
  BY <1>3 DEF Matched
<1>5. S.owner = 1 /\ tr[1] = 1001
  <2>1. p.badge = 1
    BY <1>3, <1>4, StoredBoot
  <2>2. tr[p.badge] = p.badge + 1000
    BY <1>3, <1>4 DEF Matched
  <2> QED
    BY <1>3, <2>1, <2>2
<1>6. S.badge = 101 /\ S.ref = 301 /\ S.boot
  <2>1. S.badge = S.owner + 100 /\ S.ref = S.badge + 200 /\ (~S.boot => S.badge >= 1000)
    BY <1>1, <1>2, StoredBoot
  <2> QED
    BY <1>5, <2>1
<1>7. tr' = Noted(Noted(tr, S.badge, SpaceOf(tr[S.owner])), S.ref, DsOf(SpaceOf(tr[S.owner])))
  BY DEF IdentifySpace
<1>8. SpaceOf(tr[S.owner]) = 1101 /\ DsOf(SpaceOf(tr[S.owner])) = 1301
  BY <1>5 DEF SpaceOf, DsOf
<1>9. PICK c \in ToSet(child) : c.boot /\ c.kind = "space" /\ c.badge = 1101
  BY ChildHas DEF ChildSound
<1>10. c.ref = 1301
  <2>1. BootsIn(child, 1000)
    BY DEF ChildSound
  <2>2. \A o \in ToSet(child) : o.boot => BootRow(o, 1000)
    BY <2>1, ChildRow
  <2>3. \A o : BootRow(o, 1000) /\ o.kind = "space" => o.ref = 1301
    BY DEF BootRow
  <2> QED
    BY <1>9, <2>2, <2>3
<1>11. tr' = Noted(Noted(tr, S.badge, c.badge), S.ref, c.ref) /\ S.ref # S.badge
  BY <1>6, <1>7, <1>8, <1>9, <1>10
<1>12. Translated(S, c)
  BY <1>2, <1>11, TranslatedMap
<1>13. Found(S, c)
  BY <1>1, <1>6, <1>9 DEF Found
<1> QED
  BY <1>1, <1>12, <1>13 DEF Goes, Treated
LEMMA IdentifyPdFinds ==
  ASSUME NEW seen, Ready(seen), IdentifyPd
  PROVE  Goes(S) \/ Stops
<1> USE DEF Ready
<1>1. S.kind = "pd" /\ pairs' = pairs /\ ~IsMap(S)
  BY DEF IdentifyPd, Visit, S, IsMap
<1>2. CASE S.boot
  <2> DEFINE c == BootOf("pd")
  <2>1. c \in ToSet(child) /\ c.kind = "pd" /\ c.boot /\ c.badge = 1001
    BY BootOfFacts DEF ChildSound
  <2>2. S.badge = 1
    BY <1>1, <1>2, StoredBoot
  <2>3. Identified(c.badge) /\ rsPc' = rsPc
    BY <1>2 DEF IdentifyPd
  <2> HIDE DEF c
  <2>4. Translated(S, c) /\ Found(S, c)
    BY <1>1, <1>2, <2>1, <2>2, <2>3, IdentifiedFacts
  <2> QED
    BY <1>1, <1>2, <2>3, <2>4 DEF Goes, Treated
<1>3. CASE ~S.boot
  <2> DEFINE areas == SpaceOf(NewBadge)
             c == Obj("pd", NewBadge, 0, 0, 0)
             d == Obj("space", areas, NewBadge, DsOf(areas), 0)
  <2>1. NewBadge \in Nat /\ areas \in Nat /\ DsOf(areas) \in Nat
    BY TrFacts
  <2>2. /\ child' = <<c, d>> \o child /\ tr' = Noted(tr, S.badge, NewBadge) /\ rsPc' = "failed"
    BY <1>3 DEF IdentifyPd
  <2>3. c \in Object /\ c.badge = NewBadge
    BY <2>1 DEF Obj, Object, Kind, SessionKind
  <2>4. d \in Object
    BY <2>1 DEF Obj, Object, Kind, MemberKind
  <2> HIDE DEF areas, c, d
  <2> DEFINE a == <<c, d>>
  <2>5. a \in Seq(Object) /\ c \in ToSet(a)
    <3>1. a \in Seq(Object)
      BY <2>3, <2>4
    <3>2. a[1] = c /\ 1 \in DOMAIN a
      OBVIOUS
    <3> QED
      BY <3>1, <3>2 DEF ToSet
  <2>6. child \in Seq(Object) /\ TrIn
    BY DEF ChildSound
  <2> HIDE DEF a
  <2>7. /\ a \o child \in Seq(Object)
        /\ ToSet(a \o child) = ToSet(a) \cup ToSet(child)
    BY <2>5, <2>6, ConcatSet
  <2>8. child' = a \o child
    BY <2>2 DEF a
  <2>9. Translated(S, c)
    BY <1>1, <2>2, <2>3, TranslatedOne
  <2>10. ASSUME NEW b \in DOMAIN tr' PROVE \E o \in ToSet(child') : tr'[b] \in {o.badge, o.ref}
    <3>1. CASE b = S.badge
      BY <2>5, <2>7, <2>8, <2>9, <3>1 DEF Translated
    <3>2. CASE b # S.badge
      <4>1. b \in DOMAIN tr /\ tr'[b] = tr[b]
        BY <1>1, <2>9, <2>10, <3>2 DEF Translated, Keys
      <4>2. PICK o \in ToSet(child) : tr[b] \in {o.badge, o.ref}
        BY <2>6, <4>1 DEF TrIn
      <4> QED
        BY <2>7, <2>8, <4>1, <4>2
    <3> QED
      BY <3>1, <3>2
  <2>11. Stops
    BY <2>2, <2>7, <2>8, <2>10 DEF Stops, TrIn
  <2> QED
    BY <2>11
<1> QED
  BY <1>2, <1>3

\* A RAM session of the target that is not its first has no bootstrapped
\* dataspaces.
LEMMA NoStamps ==
  ASSUME StoredWhole, NEW badge, badge # 3
  PROVE  DOMAIN StampsOfBoot(Under(stored, "ramds", badge)) = {}
<1> DEFINE u == Under(stored, "ramds", badge)
           set == {o \in ToSet(u) : o.boot}
           boot == Only(u, set)
<1>1. stored \in Seq(Object)
  BY DEF StoredWhole
<1>2. u \in Seq(Object) /\ ToSet(u) = {o \in ToSet(stored) : o.kind = "ramds" /\ o.owner = badge}
  BY <1>1, UnderFacts
<1>3. \A o \in ToSet(u) : ~o.boot
  BY <1>2, StoredBoot
<1>4. StampsOfBoot(u) = [i \in DOMAIN boot |-> boot[i].ts]
  BY DEF StampsOfBoot
<1> HIDE DEF u
<1>5. set = {}
  BY <1>3
<1> HIDE DEF set
<1>6. boot \in Seq(Object) /\ ToSet(boot) = ToSet(u) \cap set
  BY <1>2, OnlyFacts
<1> HIDE DEF boot
<1>7. DOMAIN boot = {}
  BY <1>5, <1>6 DEF ToSet
<1> QED
  BY <1>4, <1>7 DEF u

LEMMA IdentifyRamFinds ==
  ASSUME NEW seen, Ready(seen), rsPc = "identify", IdentifyRam
  PROVE  Goes(S) \/ Stops
<1> USE DEF Ready
<1>1. S.kind = "ram" /\ ~IsMap(S) /\ S.kind \in SessionKind
  BY DEF IdentifyRam, Visit, S, IsMap, SessionKind
<1>2. S.boot \in BOOLEAN /\ S.badge \in Nat /\ (S.boot => S.badge = 3) /\ (~S.boot => S.badge >= 1000)
  BY <1>1, StoredBoot
<1>3. Treated(S)
  <2>1. CASE S.boot
    <3> DEFINE c == BootOf("ram")
    <3>1. c \in ToSet(child) /\ c.kind = "ram" /\ c.boot /\ c.badge = 1003
      BY BootOfFacts DEF ChildSound
    <3>2. Identified(c.badge)
      BY <2>1 DEF IdentifyRam
    <3>3. S.badge = 3
      BY <1>2, <2>1
    <3> HIDE DEF c
    <3>4. Translated(S, c) /\ Found(S, c)
      BY <1>1, <2>1, <3>1, <3>2, <3>3, IdentifiedFacts
    <3> QED
      BY <3>4 DEF Treated
  <2>2. CASE ~S.boot
    <3>1. Recreated(0, 0)
      BY <2>2 DEF IdentifyRam
    <3>2. S.owner = 0 /\ S.ref = 0 /\ Image(0) = 0
      BY <1>1, StoredBoot, TrFacts
    <3>3. \E c : Translated(S, c) /\ Made(S, c)
      BY <1>1, <2>2, <3>1, <3>2, RecreatedFacts
    <3> QED
      BY <3>3 DEF Treated
  <2> QED
    BY <1>2, <2>1, <2>2
<1>4. CASE rsPc' \in {"failed", "crashed"}
  BY <1>3, <1>4, StopsFacts DEF ChildSound
<1>5. CASE rsPc' = rsPc
  <2> DEFINE storedRamds == Under(stored, "ramds", S.badge)
  <2>1. DOMAIN StampsOfBoot(storedRamds) # {}
        /\ pairs' = BootPairs(storedRamds, Under(child, "ramds", BootOf("ram").badge))
    BY <1>5 DEF IdentifyRam
  <2>2. S.badge = 3
    BY <2>1, NoStamps
  <2>3. BootOf("ram").badge = 1003
    BY BootOfFacts DEF ChildSound
  <2>4. pairs' = BootPairs(Under(stored, "ramds", 3), Under(child, "ramds", 1003))
    BY <2>1, <2>2, <2>3
  <2>5. UNCHANGED stored
    BY DEF IdentifyRam, restUnchanged, outside, ckVars
  <2>6. PairsRight'
    BY <2>4, <2>5, PairsFacts DEF ChildSound
  <2> QED
    BY <1>1, <1>3, <1>5, <2>2, <2>6 DEF Goes
<1>6. rsPc' \in {"failed", "crashed"} \/ rsPc' = rsPc
  BY DEF IdentifyRam
<1> QED
  BY <1>4, <1>5, <1>6

LEMMA IdentifyFinds ==
  ASSUME NEW seen, Ready(seen), rsPc = "identify", Identify
  PROVE  Goes(S) \/ Stops
<1>1. CASE IdentifyRam
  BY <1>1, IdentifyRamFinds
<1>2. CASE IdentifyRamds
  BY <1>2, IdentifyRamdsFinds
<1>3. CASE IdentifyPd
  BY <1>3, IdentifyPdFinds
<1>4. CASE IdentifySource
  BY <1>4, IdentifySourceFinds
<1>5. CASE IdentifyContext
  BY <1>5, IdentifyContextFinds
<1>6. CASE IdentifySpace
  BY <1>6, IdentifySpaceFinds
<1>7. CASE IdentifyCpu
  BY <1>7, IdentifyCpuFinds
<1>8. CASE IdentifyThread
  BY <1>8, IdentifyThreadFinds
<1>9. CASE IdentifyRm
  BY <1>9, IdentifySessionFinds DEF IdentifyRm
<1>10. CASE IdentifyMap
  BY <1>10, IdentifyMapFinds
<1>11. CASE IdentifyLog
  BY <1>11, IdentifySessionFinds DEF IdentifyLog
<1>12. CASE IdentifyTimer
  BY <1>12, IdentifySessionFinds DEF IdentifyTimer
<1> QED
  BY <1>1, <1>2, <1>3, <1>4, <1>5, <1>6, <1>7, <1>8, <1>9, <1>10, <1>11, <1>12 DEF Identify
-----------------------------------------------------------------------------
(* The first walk: what it has treated has a counterpart.                  *)

LEMMA ConsBoots ==
  ASSUME NEW V, NEW l \in Seq(V), NEW e \in V, ~e.boot, NEW d, BootsIn(l, d)
  PROVE  BootsIn(Cons(e, l), d)
<1> DEFINE m == Cons(e, l)
<1>6. /\ Len(l) \in Nat /\ DOMAIN l = 1 .. Len(l)
      /\ DOMAIN Cons(e, l) = 1 .. Len(l) + 1 /\ Cons(e, l)[1] = e
  BY ConsFacts
<1>7. \A i \in 2 .. Len(l) + 1 : Cons(e, l)[i] = l[i - 1]
  BY ConsFacts
<1>8. ToSet(Cons(e, l)) = {e} \cup ToSet(l)
  BY ConsFacts
<1>1. /\ Len(l) \in Nat /\ DOMAIN l = 1 .. Len(l)
      /\ DOMAIN m = 1 .. Len(l) + 1 /\ m[1] = e
      /\ \A i \in 2 .. Len(l) + 1 : m[i] = l[i - 1]
      /\ ToSet(m) = {e} \cup ToSet(l)
  BY <1>6, <1>7, <1>8
<1> HIDE DEF m
<1>2. {p \in ToSet(m) : p.boot} = {p \in ToSet(l) : p.boot}
  BY <1>1
<1>3. {Fixed(o) : o \in {p \in ToSet(m) : p.boot}} = BootTable(d)
  BY <1>2 DEF BootsIn
<1>4. \A i \in DOMAIN m : m[i].boot => i \in 2 .. Len(l) + 1
  BY <1>1
<1>5. ASSUME NEW i \in DOMAIN m, NEW j \in DOMAIN m, m[i].boot, Fixed(m[i]) = Fixed(m[j])
      PROVE  i = j
  <2>1. m[j].boot
    <3>1. Fixed(m[i])[7] = m[i].boot /\ Fixed(m[j])[7] = m[j].boot
      BY FixedParts
    <3> QED
      BY <1>5, <3>1
  <2>2. i - 1 \in DOMAIN l /\ j - 1 \in DOMAIN l /\ m[i] = l[i - 1] /\ m[j] = l[j - 1]
    <3>1. i \in 2 .. Len(l) + 1 /\ j \in 2 .. Len(l) + 1
      BY <1>4, <1>5, <2>1
    <3> QED
      BY <1>1, <3>1
  <2>3. i - 1 = j - 1
    BY <1>5, <2>2 DEF BootsIn
  <2>4. i \in Int /\ j \in Int
    BY <1>1
  <2> QED
    BY <2>3, <2>4
<1> QED
  BY <1>3, <1>5 DEF BootsIn, m

LEMMA SoundStep ==
  ASSUME ChildSound, NEW s, Treated(s)
  PROVE  ChildSound'
<1>1. PICK c : Translated(s, c) /\ (Found(s, c) \/ Made(s, c))
  BY DEF Treated
<1>2. child \in Seq(Object) /\ TrIn /\ BootsIn(child, 1000) /\ \A o \in ToSet(child) : ~o.boot => o.ts = 0
  BY DEF ChildSound
<1>3. child' \in Seq(Object) /\ TrIn'
  BY <1>2, TreatedFacts
<1>4. BootsIn(child', 1000) /\ \A o \in ToSet(child') : ~o.boot => o.ts = 0
  <2>1. CASE Found(s, c)
    BY <1>2, <2>1 DEF Found
  <2>2. CASE Made(s, c)
    <3>1. child' = Cons(c, child) /\ c \in Object
      BY <2>2 DEF Made
    <3>2. ~c.boot /\ c.ts = 0
      BY <2>2 DEF Made, Obj
    <3>3. BootsIn(Cons(c, child), 1000)
      BY <1>2, <3>1, <3>2, ConsBoots
    <3>4. ToSet(Cons(c, child)) = {c} \cup ToSet(child)
      BY <1>2, <3>1, ConsFacts
    <3> QED
      BY <1>2, <3>1, <3>2, <3>3, <3>4
  <2> QED
    BY <1>1, <2>1, <2>2
<1> QED
  BY <1>3, <1>4 DEF ChildSound

LEMMA MatchedStep ==
  ASSUME NEW seen, Ready(seen), Goes(S), UNCHANGED stored, NEW s, s = S
  PROVE  Matched(seen \cup {s})'
<1>1. s \in ToSet(stored) /\ s.kind \notin {"region", "native"} /\ Goes(s)
  BY DEF Ready
<1>2. StoredWhole /\ ChildSound /\ Matched(seen)
  BY DEF Ready
<1>3. PICK c : Translated(s, c) /\ (Found(s, c) \/ Made(s, c))
  BY <1>1 DEF Goes, Treated
<1>4. /\ DOMAIN tr' = DOMAIN tr \cup Keys(s) /\ tr'[s.badge] = c.badge
      /\ \A b \in DOMAIN tr \ Keys(s) : tr'[b] = tr[b]
  BY <1>3 DEF Translated
<1>5. c \in ToSet(child') /\ c.kind = s.kind
  <2>1. CASE Found(s, c)
    BY <2>1 DEF Found
  <2>2. CASE Made(s, c)
    <3>1. child' = Cons(c, child) /\ c \in Object /\ c.kind = s.kind
      BY <2>2 DEF Made, Obj
    <3>2. child \in Seq(Object)
      BY <1>2 DEF ChildSound
    <3>3. ToSet(Cons(c, child)) = {c} \cup ToSet(child)
      BY <3>1, <3>2, ConsFacts
    <3> QED
      BY <3>1, <3>3
  <2> QED
    BY <1>3, <2>1, <2>2
<1>6. \A o \in ToSet(child) : o \in ToSet(child')
  <2>1. Treated(s) /\ child \in Seq(Object) /\ TrIn
    BY <1>1, <1>2 DEF Goes, ChildSound
  <2> QED
    BY <2>1, TreatedFacts
<1>7. DOMAIN tr' = UNION {Keys(t) : t \in seen \cup {s}}
  BY <1>2, <1>4 DEF Matched
<1>8. ASSUME NEW t \in seen, t # s
      PROVE  /\ tr'[t.badge] = tr[t.badge]
             /\ \E o \in ToSet(child') : o.kind = t.kind /\ o.badge = tr'[t.badge]
  <2>1. t \in ToSet(stored) /\ t.kind # "region"
    BY <1>2 DEF Matched
  <2>2. Keys(t) \cap Keys(s) = {}
    BY <1>1, <1>2, <1>8, <2>1, KeysApart
  <2>3. t.badge \in DOMAIN tr /\ t.badge \in Keys(t)
    BY <1>2, TrFacts
  <2>4. tr'[t.badge] = tr[t.badge]
    BY <1>4, <2>2, <2>3
  <2>5. \E o \in ToSet(child) : o.kind = t.kind /\ o.badge = tr[t.badge]
    BY <1>2 DEF Matched
  <2> QED
    BY <1>6, <2>4, <2>5
<1>9. s.kind \in {"pd", "cpu", "ram"} /\ s.boot => tr'[s.badge] = s.badge + 1000
  BY <1>3, <1>4 DEF Found, Made
<1>10. ASSUME \E t \in seen \cup {s} : t.kind = "ram" PROVE PairsRight'
  <2>1. CASE s.kind = "ram"
    BY <1>1, <2>1 DEF Goes
  <2>2. CASE s.kind # "ram"
    <3>1. PairsRight
      BY <1>2, <1>10, <2>2 DEF Matched
    <3>2. pairs' = pairs
      BY <1>1, <2>2 DEF Goes
    <3> QED
      BY <3>1, <3>2 DEF PairsRight
  <2> QED
    BY <2>1, <2>2
<1>11. ASSUME NEW t \in seen \cup {s}
       PROVE  /\ t \in ToSet(stored') /\ t.kind \notin {"region", "native"}
              /\ \E o \in ToSet(child') : o.kind = t.kind /\ o.badge = tr'[t.badge]
              /\ t.kind \in {"pd", "cpu", "ram"} /\ t.boot => tr'[t.badge] = t.badge + 1000
              /\ t.kind = "pd" => t.boot
              /\ t.kind = "ram" => t.badge = 3 /\ PairsRight'
  <2>1. CASE t = s
    <3>1. t \in ToSet(stored') /\ t.kind \notin {"region", "native"}
      BY <1>1, <2>1
    <3>2. \E o \in ToSet(child') : o.kind = t.kind /\ o.badge = tr'[t.badge]
      BY <1>4, <1>5, <2>1
    <3>3. (t.kind = "pd" => t.boot) /\ (t.kind = "ram" => t.badge = 3 /\ PairsRight')
      BY <1>1, <2>1 DEF Goes
    <3> QED
      BY <1>9, <2>1, <3>1, <3>2, <3>3
  <2>2. CASE t # s
    <3>1. t \in seen
      BY <2>2
    <3>2. /\ t \in ToSet(stored) /\ t.kind \notin {"region", "native"}
          /\ t.kind \in {"pd", "cpu", "ram"} /\ t.boot => tr[t.badge] = t.badge + 1000
          /\ t.kind = "pd" => t.boot
          /\ t.kind = "ram" => t.badge = 3
      BY <1>2, <3>1 DEF Matched
    <3>3. /\ tr'[t.badge] = tr[t.badge]
          /\ \E o \in ToSet(child') : o.kind = t.kind /\ o.badge = tr'[t.badge]
      BY <1>8, <2>2, <3>1
    <3>4. t.kind = "ram" => PairsRight'
      BY <1>10
    <3> QED
      BY <3>2, <3>3, <3>4
  <2> QED
    BY <2>1, <2>2
<1> QED
  BY <1>7, <1>11 DEF Matched
-----------------------------------------------------------------------------
(* How far a walk has come.                                                *)

\* todo is what the walk w has left after n elements.
Rest(n, w) ==
  /\ n \in 0 .. Len(w) /\ todo \in Seq(Object) /\ Len(todo) = Len(w) - n
  /\ \A i \in 1 .. Len(todo) : todo[i] = w[n + i]

LEMMA RestStart ==
  ASSUME NEW w \in Seq(Object), todo' = w
  PROVE  Rest(0, w)'
<1>1. Len(w) \in Nat
  BY LenProperties
<1>2. 0 \in 0 .. Len(w) /\ Len(w) = Len(w) - 0 /\ \A i \in 1 .. Len(w) : 0 + i = i
  BY <1>1
<1> QED
  BY <1>2 DEF Rest

LEMMA RestNext ==
  ASSUME NEW w \in Seq(Object), NEW n \in Nat, Rest(n, w), todo # <<>>, todo' = Tail(todo)
  PROVE  /\ n + 1 \in 1 .. Len(w) /\ Len(w) \in Nat /\ S = w[n + 1] /\ S \in ToSet(w) /\ S \in Object
         /\ Rest(n + 1, w)'
<1>1. Len(w) \in Nat /\ DOMAIN w = 1 .. Len(w) /\ \A i \in DOMAIN w : w[i] \in Object /\ w[i] \in ToSet(w)
  BY ListElements
<1>2. /\ todo \in Seq(Object) /\ Len(todo) = Len(w) - n /\ n \in 0 .. Len(w)
      /\ \A i \in 1 .. Len(todo) : todo[i] = w[n + i]
  BY DEF Rest
<1>3. /\ Head(todo) = todo[1] /\ 1 \in 1 .. Len(todo) /\ Len(todo) \in Nat
      /\ Tail(todo) \in Seq(Object) /\ Len(Tail(todo)) = Len(todo) - 1
      /\ \A i \in 1 .. Len(todo) - 1 : Tail(todo)[i] = todo[i + 1]
  BY <1>2, TailFacts
<1> DEFINE m == Len(w)
           k == Len(todo)
           t == Tail(todo)
<1>4. m \in Nat /\ k \in Nat /\ k = m - n /\ n \in 0 .. m /\ 1 \in 1 .. k
  BY <1>1, <1>2, <1>3
<1>5. Len(t) = k - 1
  BY <1>3
<1> HIDE DEF m, k, t
<1>6. n + 1 \in 1 .. m /\ n + 1 \in 0 .. m /\ k - 1 = m - (n + 1)
  BY <1>4
<1>7. ASSUME NEW i \in 1 .. Len(t) PROVE t[i] = w[n + 1 + i]
  <2>1. i \in 1 .. k - 1 /\ i + 1 \in 1 .. k /\ n + (i + 1) = n + 1 + i
    BY <1>4, <1>5
  <2>2. t[i] = todo[i + 1] /\ todo[i + 1] = w[n + (i + 1)]
    BY <1>2, <1>3, <2>1 DEF t, k
  <2> QED
    BY <2>1, <2>2
<1>8. S = w[n + 1]
  BY <1>2, <1>3 DEF S
<1>9. n + 1 \in 1 .. Len(w) /\ n + 1 \in 0 .. Len(w) /\ Len(t) = Len(w) - (n + 1)
  BY <1>5, <1>6 DEF m
<1>10. t \in Seq(Object) /\ todo' = t
  BY <1>3 DEF t
<1> QED
  BY <1>1, <1>7, <1>8, <1>9, <1>10 DEF Rest

LEMMA RestAll ==
  ASSUME NEW w \in Seq(Object), NEW n \in Nat, Rest(n, w), todo = <<>>
  PROVE  n = Len(w)
<1>1. Len(w) \in Nat /\ Len(todo) = 0
  BY LenProperties
<1>2. 0 = Len(w) - n
  BY <1>1 DEF Rest
<1> DEFINE m == Len(w)
<1>3. m \in Nat /\ 0 = m - n
  BY <1>1, <1>2
<1> HIDE DEF m
<1>4. n = m
  BY <1>3
<1> QED
  BY <1>4 DEF m

\* What the first walk has treated so far, and all of it.
Identifying ==
  \E w, n, seen : /\ w = IdentifyWalk /\ n \in Nat /\ Rest(n, w)
                  /\ seen = {w[i] : i \in 1 .. n} /\ Matched(seen)

AllMatched == \E seen : seen = ToSet(IdentifyWalk) /\ Matched(seen)

Restoring == \E w, n : w = StateWalk /\ n \in Nat /\ Rest(n, w)

LEMMA WalksSame == UNCHANGED stored => UNCHANGED <<IdentifyWalk, StateWalk>>
BY DEF IdentifyWalk, StateWalk, Walk, WithRegions

LEMMA LogStarts ==
  ASSUME StoredWhole, LogRequest, tr = Nothing
  PROVE  ChildSound' /\ Identifying'
<1>1. /\ child' = Reverse(Bootstrapped(1000)) /\ todo' = IdentifyWalk /\ tr' = tr
      /\ UNCHANGED stored
  BY DEF LogRequest, outside, ckVars
<1>2. PICK d \in Nat : d = 1000
  OBVIOUS
<1> DEFINE b == Bootstrapped(d)
           r == Reverse(b)
<1>3. b \in Seq(Object) /\ (\A o \in ToSet(b) : o.boot) /\ BootsIn(b, d)
  <2> HIDE DEF b
  <2>1. LET c == Bootstrapped(d) IN c \in Seq(Object) /\ \A o \in ToSet(c) : o.boot
    BY BootFacts
  <2>2. BootsIn(Bootstrapped(d), d)
    BY BootstrapTable
  <2> QED
    BY <2>1, <2>2 DEF b
<1>4. child' = r
  BY <1>1, <1>2
<1> HIDE DEF b
<1>5. /\ r \in Seq(Object) /\ Len(r) = Len(b) /\ Len(b) \in Nat
      /\ \A i \in 1 .. Len(b) : Len(b) - i + 1 \in 1 .. Len(b) /\ r[i] = b[Len(b) - i + 1]
      /\ ToSet(r) = ToSet(b)
  BY <1>3, ReverseFacts
<1> HIDE DEF r
<1>6. BootsIn(r, d)
  <2>1. DOMAIN r = 1 .. Len(b) /\ DOMAIN b = 1 .. Len(b)
    BY <1>3, <1>5, LenProperties
  <2>2. \A i, j \in DOMAIN b : b[i].boot /\ Fixed(b[i]) = Fixed(b[j]) => i = j
    BY <1>3 DEF BootsIn
  <2>3. ASSUME NEW i \in DOMAIN r, NEW j \in DOMAIN r, r[i].boot, Fixed(r[i]) = Fixed(r[j])
        PROVE  i = j
    <3> DEFINE n == Len(b)
    <3>1. n - i + 1 \in 1 .. n /\ r[i] = b[n - i + 1] /\ n - j + 1 \in 1 .. n /\ r[j] = b[n - j + 1]
      BY <1>5, <2>1
    <3>2. n - i + 1 = n - j + 1
      BY <2>1, <2>2, <2>3, <3>1
    <3>3. n \in Nat /\ i \in 1 .. n /\ j \in 1 .. n
      BY <1>5, <2>1
    <3> HIDE DEF n
    <3> QED
      BY <3>2, <3>3
  <2>4. {Fixed(o) : o \in {p \in ToSet(r) : p.boot}} = BootTable(d)
    BY <1>3, <1>5 DEF BootsIn
  <2> QED
    BY <2>3, <2>4 DEF BootsIn
<1>7. DOMAIN tr' = {}
  BY <1>1 DEF Nothing
<1>8. ChildSound'
  <2>1. BootsIn(r, 1000)
    BY <1>2, <1>6
  <2> QED
    BY <1>3, <1>4, <1>5, <1>7, <2>1 DEF ChildSound, TrIn
<1>9. Identifying'
  <2>1. PICK w \in Seq(Object) : w = IdentifyWalk
    BY IdentifyWalkFacts
  <2>2. w = IdentifyWalk'
    BY <1>1, <2>1, WalksSame
  <2>3. Rest(0, w)'
    BY <1>1, <2>1, RestStart
  <2>4. \A seen : seen = {} => Matched(seen)'
    BY <1>7 DEF Matched
  <2>5. 0 \in Nat /\ {w[i] : i \in 1 .. 0} = {}
    OBVIOUS
  <2> QED
    BY <2>2, <2>3, <2>4, <2>5 DEF Identifying
<1> QED
  BY <1>8, <1>9

LEMMA IdentifyStep ==
  ASSUME StoredWhole, ChildSound, Identifying, Identify, UNCHANGED stored
  PROVE  \/ rsPc' = "identify" /\ ChildSound' /\ Identifying'
         \/ Stops
<1>1. PICK w, n, seen : /\ w = IdentifyWalk /\ n \in Nat /\ Rest(n, w)
                        /\ seen = {w[i] : i \in 1 .. n} /\ Matched(seen)
  BY DEF Identifying
<1>2. rsPc = "identify" /\ todo # <<>> /\ todo' = Tail(todo)
  BY IdentifySteps
<1>3. /\ w \in Seq(Object) /\ Placed(w)
      /\ ToSet(w) = {o \in ToSet(stored) : o.kind \notin {"region", "native"}}
  BY <1>1, IdentifyWalkFacts
<1>4. /\ n + 1 \in 1 .. Len(w) /\ Len(w) \in Nat /\ S = w[n + 1] /\ S \in ToSet(w) /\ S \in Object
      /\ Rest(n + 1, w)'
  BY <1>1, <1>2, <1>3, RestNext
<1>5. Reachable(S, seen)
  <2>1. n + 1 - 1 = n
    BY <1>1
  <2> QED
    BY <1>1, <1>3, <1>4, <2>1 DEF Reachable, Placed
<1>6. Ready(seen)
  BY <1>1, <1>3, <1>4, <1>5 DEF Ready
<1>7. Goes(S) \/ Stops
  BY <1>2, <1>6, IdentifyFinds
<1>8. CASE Goes(S)
  <2>1. PICK s : s = S
    OBVIOUS
  <2>2. ChildSound'
    BY <1>8, <2>1, SoundStep DEF Goes
  <2>3. Matched(seen \cup {s})'
    BY <1>6, <1>8, <2>1, MatchedStep
  <2>4. seen \cup {s} = {w[i] : i \in 1 .. n + 1}
    <3>1. 1 .. n + 1 = 1 .. n \cup {n + 1}
      BY <1>1
    <3> QED
      BY <1>1, <1>4, <2>1, <3>1
  <2>5. w = IdentifyWalk'
    BY <1>1, WalksSame
  <2>6. Identifying'
    <3>1. n + 1 \in Nat
      BY <1>1
    <3> QED
      BY <1>4, <2>3, <2>4, <2>5, <3>1 DEF Identifying
  <2> QED
    BY <1>2, <1>8, <2>2, <2>6 DEF Goes
<1> QED
  BY <1>7, <1>8

LEMMA IdentifyEnds ==
  ASSUME StoredWhole, ChildSound, Identifying, IdentifyEnd, UNCHANGED stored
  PROVE  ChildSound' /\ AllMatched' /\ Restoring'
<1>1. PICK w, n, seen : /\ w = IdentifyWalk /\ n \in Nat /\ Rest(n, w)
                        /\ seen = {w[i] : i \in 1 .. n} /\ Matched(seen)
  BY DEF Identifying
<1>2. todo = <<>> /\ todo' = StateWalk /\ UNCHANGED <<child, tr, pairs>>
  BY DEF IdentifyEnd
<1>3. w \in Seq(Object)
  BY <1>1, IdentifyWalkFacts
<1>4. n = Len(w)
  BY <1>1, <1>2, <1>3, RestAll
<1>5. seen = ToSet(w)
  <2>1. DOMAIN w = 1 .. Len(w)
    BY <1>3, LenProperties
  <2> QED
    BY <1>1, <1>4, <2>1 DEF ToSet
<1>6. Matched(seen)'
  BY <1>1, <1>2 DEF Matched, PairsRight
<1>7. AllMatched'
  <2>1. w = IdentifyWalk'
    BY <1>1, WalksSame
  <2> QED
    BY <1>5, <1>6, <2>1 DEF AllMatched
<1>8. ChildSound'
  BY <1>2 DEF ChildSound, TrIn
<1>9. Restoring'
  <2>1. PICK v \in Seq(Object) : v = StateWalk
    BY StateWalkFacts
  <2>2. Rest(0, v)'
    BY <1>2, <2>1, RestStart
  <2>3. v = StateWalk' /\ 0 \in Nat
    BY <2>1, WalksSame
  <2> QED
    BY <2>2, <2>3 DEF Restoring
<1> QED
  BY <1>7, <1>8, <1>9
-----------------------------------------------------------------------------
(* The second walk.                                                        *)

\* Two lists with the same objects, in all that never changes.
LEMMA SameBoots ==
  ASSUME NEW l, NEW m, DOMAIN m = DOMAIN l, \A i \in DOMAIN l : Fixed(m[i]) = Fixed(l[i]),
         NEW d, BootsIn(l, d)
  PROVE  BootsIn(m, d)
<1>1. \A i \in DOMAIN l : m[i].boot = l[i].boot
  <2> TAKE i \in DOMAIN l
  <2>1. Fixed(m[i])[7] = m[i].boot /\ Fixed(l[i])[7] = l[i].boot
    BY FixedParts
  <2> QED
    BY <2>1
<1>2. {Fixed(o) : o \in {p \in ToSet(m) : p.boot}} = {Fixed(o) : o \in {p \in ToSet(l) : p.boot}}
  BY <1>1 DEF ToSet
<1>3. \A i, j \in DOMAIN m : m[i].boot /\ Fixed(m[i]) = Fixed(m[j]) => i = j
  BY <1>1 DEF BootsIn
<1> QED
  BY <1>2, <1>3 DEF BootsIn

LEMMA ChangedSound ==
  ASSUME ChildSound, NEW o \in ToSet(child), NEW new \in Object, Fixed(new) = Fixed(o),
         child' = Changed(child, o, new), UNCHANGED tr
  PROVE  /\ ChildSound'
         /\ \A p \in ToSet(child) : \E q \in ToSet(child') : Fixed(q) = Fixed(p)
<1>1. /\ child \in Seq(Object) /\ TrIn /\ BootsIn(child, 1000)
      /\ \A p \in ToSet(child) : ~p.boot => p.ts = 0
  BY DEF ChildSound
<1>2. /\ Len(child) \in Nat /\ DOMAIN child = 1 .. Len(child)
      /\ \A i \in DOMAIN child : child[i] \in Object /\ child[i] \in ToSet(child)
  BY <1>1, ListElements
<1>3. /\ DOMAIN child' = DOMAIN child
      /\ \A i \in DOMAIN child : child'[i] = IF child[i] = o THEN new ELSE child[i]
  BY DEF Changed
<1>4. \A i \in DOMAIN child : child'[i] \in Object /\ Fixed(child'[i]) = Fixed(child[i])
  BY <1>2, <1>3
<1>5. child' \in Seq(Object)
  <2>1. child' \in [1 .. Len(child) -> Object]
    <3>1. child' = [i \in 1 .. Len(child) |-> child'[i]]
      BY <1>2 DEF Changed
    <3> QED
      BY <1>2, <1>4, <3>1
  <2> QED
    BY <1>2, <2>1, SeqDef
<1>6. BootsIn(child', 1000)
  BY <1>1, <1>3, <1>4, SameBoots
<1>7. \A p \in ToSet(child) : \E q \in ToSet(child') : Fixed(q) = Fixed(p)
  BY <1>3, <1>4 DEF ToSet
<1>8. \A q \in ToSet(child') : \E p \in ToSet(child) : Fixed(q) = Fixed(p)
  BY <1>3, <1>4 DEF ToSet
<1>9. \A p, q : Fixed(p) = Fixed(q) => /\ p.kind = q.kind /\ p.badge = q.badge /\ p.ref = q.ref
                                       /\ p.boot = q.boot /\ p.ts = q.ts
  <2> TAKE p, q
  <2>1. \A x \in {p, q} : /\ Fixed(x)[1] = x.kind /\ Fixed(x)[2] = x.badge /\ Fixed(x)[4] = x.ref
                          /\ Fixed(x)[6] = x.ts /\ Fixed(x)[7] = x.boot
    BY FixedParts
  <2> QED
    BY <2>1
<1>10. \A q \in ToSet(child') : ~q.boot => q.ts = 0
  BY <1>1, <1>8, <1>9
<1>11. TrIn'
  BY <1>1, <1>7, <1>9 DEF TrIn
<1> QED
  BY <1>5, <1>6, <1>7, <1>10, <1>11 DEF ChildSound

LEMMA MatchedKept ==
  ASSUME AllMatched, UNCHANGED <<stored, tr, pairs>>,
         \A o \in ToSet(child) : \E p \in ToSet(child') : p.kind = o.kind /\ p.badge = o.badge
  PROVE  AllMatched'
<1>1. PICK seen : seen = ToSet(IdentifyWalk) /\ Matched(seen)
  BY DEF AllMatched
<1>2. Matched(seen)'
  BY <1>1 DEF Matched, PairsRight
<1>3. IdentifyWalk' = IdentifyWalk
  BY WalksSame
<1> QED
  BY <1>1, <1>2, <1>3 DEF AllMatched

\* Each info that the second walk comes to has a counterpart.
LEMMA CounterpartFacts ==
  ASSUME StoredWhole, ChildSound, AllMatched, S \in ToSet(stored), S.kind \notin {"region", "native"}
  PROVE  /\ Counterpart \in ToSet(child) /\ Counterpart \in Object
         /\ Counterpart.kind = S.kind /\ Counterpart.badge = tr[S.badge]
<1>1. PICK seen : seen = ToSet(IdentifyWalk) /\ Matched(seen)
  BY DEF AllMatched
<1>2. S \in seen
  BY <1>1, IdentifyWalkFacts
<1>3. \E c \in ToSet(child) : c.kind = S.kind /\ c.badge = tr[S.badge]
  BY <1>1, <1>2 DEF Matched
<1>4. \A c \in ToSet(child) : c \in Object
  BY ListElements DEF ChildSound
<1> QED
  BY <1>3, <1>4 DEF Counterpart

LEMMA TrNumbers ==
  ASSUME StoredWhole, ChildSound, AllMatched
  PROVE  /\ \A b \in DOMAIN tr : tr[b] \in Nat /\ b # 0 /\ Image(b) = tr[b]
         /\ \A s \in ToSet(stored) : s.kind \notin {"region", "native"} =>
              Keys(s) \subseteq DOMAIN tr /\ s.badge \in DOMAIN tr
<1>1. PICK seen : seen = ToSet(IdentifyWalk) /\ Matched(seen)
  BY DEF AllMatched
<1>2. \A b \in DOMAIN tr : tr[b] \in Nat /\ b # 0 /\ Image(b) = tr[b]
  BY <1>1, TrFacts
<1>3. \A s \in seen : Keys(s) \subseteq DOMAIN tr /\ s.badge \in DOMAIN tr
  BY <1>1, TrFacts
<1>4. \A s \in ToSet(stored) : s.kind \notin {"region", "native"} => s \in seen
  BY <1>1, IdentifyWalkFacts
<1> QED
  BY <1>2, <1>3, <1>4

\* Handler, mode and quota of an object are restored, or its handler is gone.
LEMMA StateKept ==
  ASSUME StoredWhole, ChildSound, AllMatched, S \in ToSet(stored), S.kind \notin {"region", "native"},
         StateRestored, rsPc = "state", UNCHANGED <<stored, tr, pairs>>
  PROVE  (rsPc' = "state" /\ ChildSound' /\ AllMatched') \/ Stops
<1> DEFINE o == Counterpart
           new == [o EXCEPT !.sigh = IF S.sigh = 0 THEN @ ELSE tr[S.sigh],
                            !.mode = IF S.mode = 0 THEN @ ELSE S.mode,
                            !.quota = @ + S.quota]
<1>1. o \in ToSet(child) /\ o \in Object
  BY CounterpartFacts
<1>2. CASE SighFound
  <2>1. child' = Changed(child, o, new) /\ rsPc' = rsPc
    BY <1>2 DEF StateRestored
  <2>2. S.sigh = 0 \/ tr[S.sigh] \in Nat
    BY <1>2, TrNumbers DEF SighFound
  <2>3. S.mode \in Nat /\ S.quota \in Nat
    BY DEF StoredWhole, Object
  <2>4. new \in Object /\ Fixed(new) = Fixed(o)
    <3> HIDE DEF o
    <3> DEFINE sigh == IF S.sigh = 0 THEN o.sigh ELSE tr[S.sigh]
               mode == IF S.mode = 0 THEN o.mode ELSE S.mode
               quota == o.quota + S.quota
    <3>1. o.sigh \in Nat /\ o.mode \in Nat /\ o.quota \in Nat
      BY <1>1 DEF Object
    <3>2. sigh \in Nat /\ mode \in Nat /\ quota \in Nat
      BY <2>2, <2>3, <3>1
    <3>3. new = [o EXCEPT !.sigh = sigh, !.mode = mode, !.quota = quota]
      BY <1>1 DEF Object
    <3> HIDE DEF sigh, mode, quota, new
    <3> QED
      BY <1>1, <3>2, <3>3 DEF Object, Fixed
  <2> HIDE DEF new, o
  <2>5. ChildSound' /\ \A p \in ToSet(child) : \E q \in ToSet(child') : Fixed(q) = Fixed(p)
    BY <1>1, <2>1, <2>4, ChangedSound
  <2>6. \A p \in ToSet(child) : \E q \in ToSet(child') : q.kind = p.kind /\ q.badge = p.badge
    BY <2>5, FixedParts
  <2>7. AllMatched'
    BY <2>6, MatchedKept
  <2> QED
    BY <2>1, <2>5, <2>7
<1>3. CASE ~SighFound
  <2>1. rsPc' = "failed" /\ UNCHANGED child
    BY <1>3 DEF StateRestored
  <2> QED
    BY <2>1, StopsFacts DEF ChildSound
<1> QED
  BY <1>2, <1>3

\* A region is attached in the child, or core refuses it.
LEMMA RegionKept ==
  ASSUME StoredWhole, ChildSound, AllMatched, S \in ToSet(stored), RestoreRegion, rsPc = "state"
  PROVE  (rsPc' = "state" /\ ChildSound' /\ AllMatched') \/ Stops
<1>1. S.kind = "region" /\ UNCHANGED <<stored, tr, pairs>>
  BY DEF RestoreRegion, Visit, S, outside, ckVars
<1>2. CASE UNCHANGED child /\ rsPc' = rsPc
  <2>1. ChildSound'
    BY <1>1, <1>2 DEF ChildSound, TrIn
  <2>2. AllMatched'
    BY <1>1, <1>2, MatchedKept
  <2> QED
    BY <1>2, <2>1, <2>2
<1>3. CASE UNCHANGED child /\ rsPc' \in {"failed", "crashed"}
  BY <1>1, <1>3, StopsFacts DEF ChildSound
<1>4. CASE /\ S.ref \in DOMAIN tr /\ rsPc' = rsPc
           /\ child' = Cons(Obj("region", 0, tr[S.owner], tr[S.ref], S.tag), child)
  <2> DEFINE c == Obj("region", 0, tr[S.owner], tr[S.ref], S.tag)
  <2>1. tr[S.owner] \in Nat
    <3>1. PICK p \in ToSet(stored) : p.kind \in OwnerKinds(S.kind) /\ p.badge = S.owner
      BY <1>1 DEF StoredWhole, MemberKind
    <3>2. p.kind \notin {"region", "native"}
      BY <1>1, <3>1, KindFacts
    <3>3. p.badge \in DOMAIN tr
      BY <3>2, TrNumbers
    <3> QED
      BY <3>1, <3>3, TrNumbers
  <2>2. tr[S.ref] \in Nat /\ S.tag \in Nat
    BY <1>4, TrNumbers DEF StoredWhole, Object
  <2>3. c \in Object /\ ~c.boot /\ c.ts = 0
    BY <2>1, <2>2 DEF Obj, Object, Kind, MemberKind
  <2>4. child' = Cons(c, child)
    BY <1>4
  <2> HIDE DEF c
  <2>5. /\ child \in Seq(Object) /\ TrIn /\ BootsIn(child, 1000)
        /\ \A p \in ToSet(child) : ~p.boot => p.ts = 0
    BY DEF ChildSound
  <2>6. Cons(c, child) \in Seq(Object) /\ ToSet(Cons(c, child)) = {c} \cup ToSet(child)
    BY <2>3, <2>5, ConsFacts
  <2>7. BootsIn(Cons(c, child), 1000)
    BY <2>3, <2>5, ConsBoots
  <2>8. TrIn'
    BY <1>1, <2>4, <2>5, <2>6 DEF TrIn
  <2>9. ChildSound'
    BY <2>3, <2>4, <2>5, <2>6, <2>7, <2>8 DEF ChildSound
  <2>10. AllMatched'
    BY <1>1, <2>4, <2>6, MatchedKept
  <2> QED
    BY <1>4, <2>9, <2>10
<1>5. \/ UNCHANGED child /\ rsPc' = rsPc
      \/ UNCHANGED child /\ rsPc' \in {"failed", "crashed"}
      \/ /\ S.ref \in DOMAIN tr /\ rsPc' = rsPc
         /\ child' = Cons(Obj("region", 0, tr[S.owner], tr[S.ref], S.tag), child)
  BY DEF RestoreRegion
<1> QED
  BY <1>2, <1>3, <1>4, <1>5
LEMMA RestoreStep ==
  ASSUME StoredWhole, ChildSound, AllMatched, Restoring, Restore, UNCHANGED stored
  PROVE  \/ rsPc' = "state" /\ ChildSound' /\ AllMatched' /\ Restoring'
         \/ Stops
<1>1. PICK w, n : w = StateWalk /\ n \in Nat /\ Rest(n, w)
  BY DEF Restoring
<1>2. \E kind : Visit("state", kind)
  BY DEF Restore, RestoreRam, RestoreRamds, RestorePd, RestoreSpace, RestoreCpu, RestoreThread,
     RestoreRm, RestoreMap, RestoreRegion, RestoreLog, RestoreTimer, RestoreObject
<1>3. rsPc = "state" /\ todo # <<>> /\ todo' = Tail(todo)
  BY <1>2 DEF Visit
<1>4. w \in Seq(Object) /\ ToSet(w) = {o \in ToSet(stored) : o.kind \notin {"native", "source", "context"}}
  BY <1>1, StateWalkFacts
<1>5. S \in ToSet(w) /\ Rest(n + 1, w)' /\ n + 1 \in Nat
  BY <1>1, <1>3, <1>4, RestNext
<1>6. Restoring'
  BY <1>1, <1>5, WalksSame DEF Restoring
<1>7. S \in ToSet(stored) /\ S.kind # "native"
  BY <1>4, <1>5
<1>8. CASE \E kind \in Kind \ {"region"} : RestoreObject(kind)
  <2>1. S.kind # "region" /\ StateRestored /\ UNCHANGED <<tr, pairs>>
    BY <1>8 DEF RestoreObject, Visit, S
  <2>2. (rsPc' = "state" /\ ChildSound' /\ AllMatched') \/ Stops
    BY <1>3, <1>7, <2>1, StateKept
  <2> QED
    BY <1>6, <2>2
<1>9. CASE RestoreRamds
  <2>1. UNCHANGED <<child, tr, pairs, rsPc>>
    BY <1>9 DEF RestoreRamds
  <2>2. ChildSound'
    BY <2>1 DEF ChildSound, TrIn
  <2>3. AllMatched'
    BY <2>1, MatchedKept
  <2> QED
    BY <1>3, <1>6, <2>1, <2>2, <2>3
<1>10. CASE RestoreRegion
  BY <1>3, <1>6, <1>7, <1>10, RegionKept
<1>11. {"ram", "pd", "space", "cpu", "thread", "rm", "map", "log", "timer"} \subseteq Kind \ {"region"}
  BY DEF Kind, SessionKind, MemberKind
<1> QED
  BY <1>8, <1>9, <1>10, <1>11 DEF Restore, RestoreRam, RestorePd, RestoreSpace, RestoreCpu,
     RestoreThread, RestoreRm, RestoreMap, RestoreLog, RestoreTimer

-----------------------------------------------------------------------------
(* Types, and that every translation leads to an object of the child.      *)

ChildInv ==
  /\ child \in Seq(Object) /\ TrIn
  /\ rsPc = "none" => tr = Nothing
  /\ rsPc \notin {"none", "failed", "crashed"} => ChildSound
  /\ rsPc = "identify" => Identifying
  /\ rsPc \notin {"none", "identify", "failed", "crashed"} => AllMatched
  /\ rsPc = "state" => Restoring

LEMMA ChildKept ==
  ASSUME StoredWhole, ChildInv, RestorerStep, ckPc = "taken"
  PROVE  ChildInv'
<1>1. UNCHANGED stored
  BY RestorerReads DEF outside, ckVars
<1>2. CASE LogRequest
  <2>1. rsPc = "none" /\ rsPc' = "identify"
    BY <1>2 DEF LogRequest
  <2>2. ChildSound' /\ Identifying'
    BY <1>2, <2>1, LogStarts DEF ChildInv
  <2> QED
    BY <2>1, <2>2 DEF ChildInv, ChildSound
<1>3. CASE Identify
  <2>1. rsPc = "identify"
    BY <1>3, IdentifySteps
  <2>2. \/ rsPc' = "identify" /\ ChildSound' /\ Identifying'
        \/ Stops
    BY <1>1, <1>3, <2>1, IdentifyStep DEF ChildInv
  <2> QED
    BY <2>2 DEF ChildInv, ChildSound, Stops
<1>4. CASE IdentifyEnd
  <2>1. rsPc = "identify" /\ rsPc' = "state"
    BY <1>4 DEF IdentifyEnd
  <2>2. ChildSound' /\ AllMatched' /\ Restoring'
    BY <1>1, <1>4, <2>1, IdentifyEnds DEF ChildInv
  <2> QED
    BY <2>1, <2>2 DEF ChildInv, ChildSound
<1>5. CASE Restore
  <2>1. rsPc = "state"
    BY <1>5 DEF Restore, RestoreRam, RestoreRamds, RestorePd, RestoreSpace, RestoreCpu,
       RestoreThread, RestoreRm, RestoreMap, RestoreRegion, RestoreLog, RestoreTimer,
       RestoreObject, Visit
  <2>2. \/ rsPc' = "state" /\ ChildSound' /\ AllMatched' /\ Restoring'
        \/ Stops
    BY <1>1, <1>5, <2>1, RestoreStep DEF ChildInv
  <2> QED
    BY <2>2 DEF ChildInv, ChildSound, Stops
<1>6. CASE \/ ResolveInc \/ CopyCapMap \/ PatchCapMap \/ PatchCapMapEnd \/ Install \/ InstallEnd
           \/ RestoreContent \/ RestoreReturn
  <2>1. /\ UNCHANGED <<child, tr, pairs>>
        /\ rsPc \in {"state", "resolved", "capmap", "capspace", "content"}
        /\ rsPc' \in {"resolved", "capmap", "capspace", "content", "done"}
    BY <1>6 DEF ResolveInc, CopyCapMap, PatchCapMap, PatchCapMapEnd, Install, InstallEnd,
       RestoreContent, RestoreReturn
  <2>2. ChildSound /\ AllMatched
    BY <2>1 DEF ChildInv
  <2>3. ChildSound'
    BY <2>1, <2>2 DEF ChildSound, TrIn
  <2>4. AllMatched'
    BY <1>1, <2>1, <2>2, MatchedKept
  <2> QED
    BY <2>1, <2>3, <2>4 DEF ChildInv, ChildSound
<1> QED
  BY <1>2, <1>3, <1>4, <1>5, <1>6 DEF RestorerStep

\* All that the theorems about the child rest on.
RestoredInv == TargetInv /\ StoredInv /\ TargetSound /\ StoredSound /\ CapInv /\ ChildInv

LEMMA RestoredInitially == Init => RestoredInv
<1> SUFFICES ASSUME Init PROVE RestoredInv
  OBVIOUS
<1>1. TargetInv /\ StoredInv /\ TargetSound
  BY StoredInitially, SoundInitially DEF Init
<1>2. /\ stored = <<>> /\ ckPc = "running" /\ taken = 0 /\ child = <<>> /\ tr = Nothing
      /\ caps = <<>> /\ rsPc = "none"
  BY DEF Init, CkInit, RsInit
<1>3. <<>> \in Seq(Object) /\ <<>> \in Seq(Cap) /\ ToSet(<<>>) = {} /\ DOMAIN Nothing = {}
  BY EmptySeq DEF ToSet, Nothing
<1>4. StoredSound
  BY <1>2, <1>3 DEF StoredSound
<1>5. CapInv
  BY <1>2, <1>3 DEF CapInv
<1>6. ChildInv
  BY <1>2, <1>3 DEF ChildInv, TrIn
<1> QED
  BY <1>1, <1>4, <1>5, <1>6 DEF RestoredInv

LEMMA RestoredKept == RestoredInv /\ [Next]_vars => RestoredInv'
<1> SUFFICES ASSUME RestoredInv, [Next]_vars PROVE RestoredInv'
  OBVIOUS
<1>1. TargetInv' /\ StoredInv'
  BY StoredKept DEF RestoredInv
<1>2. TargetSound' /\ StoredSound'
  BY StoredSoundKept DEF RestoredInv
<1>3. CASE RestorerStep
  <2>1. ckPc = "taken"
    BY <1>3, RestorerStarts DEF RestoredInv, StoredSound
  <2>2. StoredWhole
    BY <2>1, WholeWhenTaken DEF RestoredInv
  <2>3. ChildInv'
    BY <1>3, <2>1, <2>2, ChildKept DEF RestoredInv
  <2>4. CapInv'
    BY <1>3, RestorerKeeps DEF RestoredInv, StoredInv
  <2> QED
    BY <1>1, <1>2, <2>3, <2>4 DEF RestoredInv
<1>4. CASE TargetStep \/ CheckpointStep
  <2>1. UNCHANGED <<caps, list, prev, rsPc, todo, child, tr>>
    BY <1>4 DEF TargetStep, CheckpointStep, rsVars
  <2>2. CapInv'
    BY <2>1, MapLeftAlone DEF RestoredInv
  <2>3. rsPc = "none"
    BY <1>4 DEF TargetStep, CheckpointStep, RestoredInv, StoredSound
  <2>4. ChildInv'
    BY <2>1, <2>3 DEF RestoredInv, ChildInv, TrIn
  <2> QED
    BY <1>1, <1>2, <2>2, <2>4 DEF RestoredInv
<1>5. CASE UNCHANGED vars
  <2>1. UNCHANGED <<caps, list, prev, rsPc, todo, child, tr, pairs, stored>>
    BY <1>5 DEF vars, rsVars, ckVars
  <2>2. CapInv'
    BY <2>1, MapLeftAlone DEF RestoredInv
  <2>3. TrIn' = TrIn /\ ChildSound' = ChildSound /\ \A n, w : Rest(n, w)' = Rest(n, w)
    BY <2>1 DEF TrIn, ChildSound, Rest
  <2>4. \A seen : Matched(seen)' = Matched(seen)
    BY <2>1 DEF Matched, PairsRight
  <2>5. IdentifyWalk' = IdentifyWalk /\ StateWalk' = StateWalk
    BY <2>1, WalksSame
  <2>6. Identifying' = Identifying /\ AllMatched' = AllMatched /\ Restoring' = Restoring
    BY <2>3, <2>4, <2>5 DEF Identifying, AllMatched, Restoring
  <2>7. ChildInv'
    BY <2>1, <2>3, <2>6 DEF RestoredInv, ChildInv
  <2> QED
    BY <1>1, <1>2, <2>2, <2>7 DEF RestoredInv
<1> QED
  BY <1>3, <1>4, <1>5 DEF Next

LEMMA TypesFromInv == RestoredInv => TypeOK
<1> SUFFICES ASSUME RestoredInv PROVE TypeOK
  OBVIOUS
<1>1. objs \in Seq(Object) /\ stored \in Seq(Object) /\ child \in Seq(Object)
  BY DEF RestoredInv, TargetInv, StoredInv, Good, Proper, ChildInv
<1>2. \A o \in Object : IsObj(o)
  BY DEF Object, IsObj
<1>3. ASSUME NEW l \in Seq(Object), NEW i \in DOMAIN l PROVE IsObj(l[i])
  <2>1. l[i] \in Object
    BY ListElements
  <2> QED
    BY <1>2, <2>1
<1>4. \A l \in {objs, stored, child} : \A i \in DOMAIN l : IsObj(l[i])
  BY <1>1, <1>3
<1>5. slots \in [1 .. MaxSlots -> Nat] /\ reply \in Nat
  BY DEF RestoredInv, TargetInv
<1>6. ckPc \in {"running", "ram", "pd", "cpu", "rm", "log", "timer", "taken", "dead"}
  BY DEF RestoredInv, StoredInv
<1>7. rsPc \in {"none", "identify", "state", "resolved", "capmap", "capspace", "content",
                "done", "failed", "crashed"}
  BY DEF RestoredInv, CapInv
<1>8. rsPc \in {"capmap", "capspace"} => prev \in 1 .. MaxSlots
  BY DEF RestoredInv, CapInv, Patched
<1>9. \A b \in DOMAIN tr : \E o \in ToSet(child) : tr[b] \in {o.badge, o.ref}
  BY DEF RestoredInv, ChildInv, TrIn
<1> QED
  BY <1>4, <1>5, <1>6, <1>7, <1>8, <1>9 DEF TypeOK

\* At every step of every history of target, checkpointer and restorer the state
\* has its types: the target's, the stored and the child's objects are objects,
\* selectors and list pointers are selectors, and every translation of the
\* restorer leads to an object the child has.
THEOREM TypeCorrect == Spec => []TypeOK
<1>1. Init => RestoredInv
  BY RestoredInitially
<1>2. RestoredInv /\ [Next]_vars => RestoredInv'
  BY RestoredKept
<1>3. RestoredInv => TypeOK
  BY TypesFromInv
<1> QED
  BY <1>1, <1>2, <1>3, PTL DEF Spec

-----------------------------------------------------------------------------
(* The walks lead over nothing twice, and over some kinds first.           *)

EachOnce(w) == \A i, j \in 1 .. Len(w) : w[i] = w[j] => i = j

\* All of the kinds in first come ahead of those in last.
Ahead(w, first, last) == \A i, j \in 1 .. Len(w) : w[i].kind \in first /\ w[j].kind \in last => i < j

LEMMA ConcatParts ==
  ASSUME NEW V, NEW a \in Seq(V), NEW b \in Seq(V), NEW i \in 1 .. Len(a \o b)
  PROVE  /\ Len(a) \in Nat /\ Len(b) \in Nat /\ i \in Nat
         /\ \/ i \in 1 .. Len(a) /\ (a \o b)[i] = a[i] /\ a[i] \in ToSet(a)
            \/ i > Len(a) /\ i - Len(a) \in 1 .. Len(b)
                 /\ (a \o b)[i] = b[i - Len(a)] /\ b[i - Len(a)] \in ToSet(b)
<1>1. /\ Len(a) \in Nat /\ Len(b) \in Nat /\ Len(a \o b) = Len(a) + Len(b)
      /\ \A p \in 1 .. Len(a) + Len(b) : (a \o b)[p] = IF p <= Len(a) THEN a[p] ELSE b[p - Len(a)]
  BY ConcatProperties, LenProperties
<1>2. (\A p \in 1 .. Len(a) : a[p] \in ToSet(a)) /\ \A p \in 1 .. Len(b) : b[p] \in ToSet(b)
  BY ListElements
<1> DEFINE m == Len(a)
           k == Len(b)
<1>3. m \in Nat /\ k \in Nat /\ i \in 1 .. m + k
  BY <1>1
<1> HIDE DEF m, k
<1>4. i \in Nat /\ (i \in 1 .. m \/ (i > m /\ i - m \in 1 .. k))
  BY <1>3
<1>5. CASE i \in 1 .. m
  <2>1. i <= Len(a) /\ i \in 1 .. Len(a)
    BY <1>3, <1>5 DEF m
  <2> QED
    BY <1>1, <1>2, <1>4, <2>1
<1>6. CASE i > m /\ i - m \in 1 .. k
  <2>1. ~(i <= m)
    BY <1>3, <1>6
  <2> QED
    BY <1>1, <1>2, <1>4, <1>6, <2>1 DEF m, k
<1> QED
  BY <1>4, <1>5, <1>6

LEMMA OnceBoth ==
  ASSUME NEW V, NEW a \in Seq(V), NEW b \in Seq(V), EachOnce(a), EachOnce(b), ToSet(a) \cap ToSet(b) = {}
  PROVE  EachOnce(a \o b)
<1> SUFFICES ASSUME NEW i \in 1 .. Len(a \o b), NEW j \in 1 .. Len(a \o b), (a \o b)[i] = (a \o b)[j]
             PROVE  i = j
  BY DEF EachOnce
<1> DEFINE c == a \o b
           m == Len(a)
<1>1. /\ m \in Nat /\ i \in Nat
      /\ \/ i \in 1 .. m /\ c[i] = a[i] /\ a[i] \in ToSet(a)
         \/ i > m /\ i - m \in 1 .. Len(b) /\ c[i] = b[i - m] /\ b[i - m] \in ToSet(b)
  BY ConcatParts
<1>2. /\ m \in Nat /\ j \in Nat
      /\ \/ j \in 1 .. m /\ c[j] = a[j] /\ a[j] \in ToSet(a)
         \/ j > m /\ j - m \in 1 .. Len(b) /\ c[j] = b[j - m] /\ b[j - m] \in ToSet(b)
  BY ConcatParts
<1>3. CASE i \in 1 .. m /\ c[i] = a[i] /\ a[i] \in ToSet(a)
  BY <1>2, <1>3 DEF EachOnce
<1>4. CASE i > m /\ i - m \in 1 .. Len(b) /\ c[i] = b[i - m] /\ b[i - m] \in ToSet(b)
  <2>1. i - m = j - m
    BY <1>2, <1>4 DEF EachOnce
  <2> HIDE DEF m
  <2> QED
    BY <1>1, <1>2, <2>1
<1> QED
  BY <1>1, <1>3, <1>4

LEMMA AheadBoth ==
  ASSUME NEW V, NEW a \in Seq(V), NEW b \in Seq(V), NEW first, NEW last,
         Ahead(a, first, last), Ahead(b, first, last),
         (\A o \in ToSet(a) : o.kind \notin last) \/ (\A o \in ToSet(b) : o.kind \notin first)
  PROVE  Ahead(a \o b, first, last)
<1> DEFINE c == a \o b
           m == Len(a)
<1> SUFFICES ASSUME NEW i \in 1 .. Len(c), NEW j \in 1 .. Len(c), c[i].kind \in first, c[j].kind \in last
             PROVE  i < j
  BY DEF Ahead
<1>1. /\ m \in Nat /\ i \in Nat
      /\ \/ i \in 1 .. m /\ c[i] = a[i] /\ a[i] \in ToSet(a)
         \/ i > m /\ i - m \in 1 .. Len(b) /\ c[i] = b[i - m] /\ b[i - m] \in ToSet(b)
  BY ConcatParts
<1>2. /\ m \in Nat /\ j \in Nat
      /\ \/ j \in 1 .. m /\ c[j] = a[j] /\ a[j] \in ToSet(a)
         \/ j > m /\ j - m \in 1 .. Len(b) /\ c[j] = b[j - m] /\ b[j - m] \in ToSet(b)
  BY ConcatParts
<1>3. CASE i \in 1 .. m /\ c[i] = a[i] /\ j \in 1 .. m /\ c[j] = a[j]
  BY <1>3 DEF Ahead
<1>4. CASE i > m /\ i - m \in 1 .. Len(b) /\ c[i] = b[i - m] /\ j > m /\ j - m \in 1 .. Len(b) /\ c[j] = b[j - m]
  <2>1. i - m < j - m
    BY <1>4 DEF Ahead
  <2> HIDE DEF m
  <2> QED
    BY <1>1, <1>2, <2>1
<1>5. CASE i \in 1 .. m /\ j > m
  <2> HIDE DEF m
  <2> QED
    BY <1>1, <1>2, <1>5
<1>6. ~(i > m /\ j \in 1 .. m)
  <2> SUFFICES ASSUME i > m, j \in 1 .. m PROVE FALSE
    OBVIOUS
  <2>1. ~(i \in 1 .. m) /\ ~(j > m)
    <3> HIDE DEF m
    <3> QED
      BY <1>1, <1>2
  <2> QED
    BY <1>1, <1>2, <2>1
<1> QED
  BY <1>1, <1>2, <1>3, <1>4, <1>5, <1>6

LEMMA OnceFlat ==
  ASSUME NEW V, NEW seqs \in Seq(Seq(V)), \A k \in 1 .. Len(seqs) : EachOnce(seqs[k]),
         \A k, l \in 1 .. Len(seqs) : k # l => ToSet(seqs[k]) \cap ToSet(seqs[l]) = {}
  PROVE  EachOnce(FlattenSeq(seqs))
<1> DEFINE f == FlattenSeq(seqs)
<1>1. f \in Seq(V) /\ \E which, at : Places(f, seqs, Len(seqs), which, at)
  BY FlattenPlaces
<1>2. PICK which, at : Places(f, seqs, Len(seqs), which, at)
  BY <1>1
<1> HIDE DEF f
<1>3. Len(f) \in Nat /\ Len(seqs) \in Nat
  BY <1>1, LenProperties
<1>4. \A p \in 1 .. Len(f) :
        /\ which[p] \in 1 .. Len(seqs) /\ at[p] \in 1 .. Len(seqs[which[p]])
        /\ f[p] = seqs[which[p]][at[p]]
        /\ \A q \in 1 .. p - 1 : which[q] < which[p] \/ (which[q] = which[p] /\ at[q] < at[p])
  BY <1>2 DEF Places
<1>5. \A k \in 1 .. Len(seqs) : Len(seqs[k]) \in Nat /\ \A i \in 1 .. Len(seqs[k]) : seqs[k][i] \in ToSet(seqs[k])
  BY ElementOfSeq, ListElements
<1>6. ASSUME NEW p \in 1 .. Len(f), NEW q \in 1 .. p - 1, f[p] = f[q] PROVE FALSE
  <2>1. q \in 1 .. Len(f)
    BY <1>3
  <2>2. /\ which[p] \in 1 .. Len(seqs) /\ at[p] \in 1 .. Len(seqs[which[p]]) /\ f[p] = seqs[which[p]][at[p]]
        /\ which[q] \in 1 .. Len(seqs) /\ at[q] \in 1 .. Len(seqs[which[q]]) /\ f[q] = seqs[which[q]][at[q]]
        /\ which[q] < which[p] \/ (which[q] = which[p] /\ at[q] < at[p])
    BY <1>4, <2>1
  <2>3. f[p] \in ToSet(seqs[which[p]]) /\ f[q] \in ToSet(seqs[which[q]])
    BY <1>5, <2>2
  <2>4. which[p] = which[q]
    BY <1>6, <2>2, <2>3
  <2>5. at[p] = at[q]
    BY <1>6, <2>2, <2>4 DEF EachOnce
  <2>6. at[p] \in Nat /\ which[p] \in Nat
    BY <1>3, <1>5, <2>2
  <2> QED
    BY <2>2, <2>4, <2>5, <2>6
<1>7. EachOnce(f)
  <2> SUFFICES ASSUME NEW i \in 1 .. Len(f), NEW j \in 1 .. Len(f), f[i] = f[j] PROVE i = j
    BY DEF EachOnce
  <2>1. i \in 1 .. j - 1 \/ i = j \/ j \in 1 .. i - 1
    BY <1>3
  <2> QED
    BY <1>6, <2>1
<1> QED
  BY <1>7 DEF f

LEMMA OnceUnder ==
  ASSUME StoredWhole, NEW kind, NEW owner
  PROVE  LET u == Under(stored, kind, owner)
         IN  /\ u \in Seq(Object) /\ EachOnce(u)
             /\ ToSet(u) = {o \in ToSet(stored) : o.kind = kind /\ o.owner = owner}
<1>1. LET u == Under(stored, kind, owner)
      IN  /\ u \in Seq(Object) /\ Unique(u)
          /\ ToSet(u) = {o \in ToSet(stored) : o.kind = kind /\ o.owner = owner}
  BY UnderFacts DEF StoredWhole
<1> DEFINE u == Under(stored, kind, owner)
<1> HIDE DEF u
<1>2. u \in Seq(Object) /\ Unique(u)
  BY <1>1 DEF u
<1>3. DOMAIN u = 1 .. Len(u)
  BY <1>2, LenProperties
<1>4. EachOnce(u)
  BY <1>2, <1>3, SameFacts DEF EachOnce, Unique
<1> QED
  BY <1>1, <1>4 DEF u

LEMMA OnceOne ==
  ASSUME NEW V, NEW o \in V
  PROVE  <<o>> \in Seq(V) /\ EachOnce(<<o>>) /\ ToSet(<<o>>) = {o}
<1>1. \A i, j \in 1 .. Len(<<o>>) : i = j
  OBVIOUS
<1> QED
  BY <1>1 DEF EachOnce, ToSet

LEMMA OnceNone ==
  ASSUME NEW V
  PROVE  <<>> \in Seq(V) /\ EachOnce(<<>>) /\ ToSet(<<>>) = {}
BY EmptySeq DEF EachOnce, ToSet

LEMMA WalkOnce ==
  ASSUME StoredWhole, NEW kind \in SessionKind, NEW memberKinds, NEW n \in Nat,
         memberKinds \in [1 .. n -> MemberKind], \A k, l \in 1 .. n : memberKinds[k] = memberKinds[l] => k = l
  PROVE  Walk(kind, memberKinds) \in Seq(Object) /\ EachOnce(Walk(kind, memberKinds))
<1> DEFINE sessions == Under(stored, kind, 0)
           members(s) == [k \in DOMAIN memberKinds |-> Under(stored, memberKinds[k], s.badge)]
           Walked(s) == <<s>> \o FlattenSeq(members(s))
           walks == [i \in DOMAIN sessions |-> <<sessions[i]>> \o FlattenSeq(members(sessions[i]))]
           Mine(s) == {o \in ToSet(stored) : o.kind \in MemberKind /\ o.owner = s.badge}
<1>1. Walk(kind, memberKinds) = FlattenSeq(walks)
  BY DEF Walk
<1>2. /\ sessions \in Seq(Object) /\ EachOnce(sessions)
      /\ ToSet(sessions) = {o \in ToSet(stored) : o.kind = kind /\ o.owner = 0}
  BY OnceUnder
<1> HIDE DEF sessions
<1>3. /\ Len(sessions) \in Nat /\ DOMAIN sessions = 1 .. Len(sessions)
      /\ \A i \in DOMAIN sessions : sessions[i] \in Object /\ sessions[i] \in ToSet(sessions)
  BY <1>2, ListElements
<1>4. ASSUME NEW s
      PROVE  /\ FlattenSeq(members(s)) \in Seq(Object) /\ EachOnce(FlattenSeq(members(s)))
             /\ \A o \in ToSet(FlattenSeq(members(s))) : o.kind \in MemberKind /\ o.owner = s.badge
  <2> DEFINE m == members(s)
             B == {o \in Object : o.kind \in MemberKind /\ o.owner = s.badge}
  <2>1. DOMAIN memberKinds = 1 .. n
    OBVIOUS
  <2>2. \A k \in 1 .. n : m[k] = Under(stored, memberKinds[k], s.badge)
    BY <2>1
  <2>3. ASSUME NEW k \in 1 .. n
        PROVE  /\ m[k] \in Seq(B) /\ EachOnce(m[k])
               /\ \A o \in ToSet(m[k]) : o.kind = memberKinds[k]
    <3> DEFINE u == Under(stored, memberKinds[k], s.badge)
    <3>1. /\ u \in Seq(Object) /\ EachOnce(u)
          /\ ToSet(u) = {o \in ToSet(stored) : o.kind = memberKinds[k] /\ o.owner = s.badge}
      BY OnceUnder
    <3>2. m[k] = u
      BY <2>2
    <3> HIDE DEF u, m
    <3>3. memberKinds[k] \in MemberKind
      OBVIOUS
    <3>4. \A o \in ToSet(u) : o \in B
      BY <3>1, <3>3, ListElements
    <3>5. u \in Seq(ToSet(u))
      BY <3>1, OwnElements
    <3>6. u \in Seq(B)
      <4> HIDE DEF B
      <4> QED
        BY <3>4, <3>5
    <3> QED
      BY <3>1, <3>2, <3>6
  <2>4. m = [k \in 1 .. n |-> m[k]]
    BY <2>1
  <2> HIDE DEF m, B
  <2>5. m \in [1 .. n -> Seq(B)]
    BY <2>3, <2>4
  <2>6. m \in Seq(Seq(B)) /\ Len(m) = n
    <3>1. Len(m) = n
      BY <2>4
    <3> QED
      BY <2>5, <3>1, SeqDef
  <2>7. \A k, l \in 1 .. n : k # l => ToSet(m[k]) \cap ToSet(m[l]) = {}
    BY <2>3
  <2>8. EachOnce(FlattenSeq(m))
    BY <2>3, <2>6, <2>7, OnceFlat
  <2>9. FlattenSeq(m) \in Seq(B)
    BY <2>6, FlattenPlaces
  <2>10. \A o \in ToSet(FlattenSeq(m)) : o \in B
    BY <2>9, ListElements
  <2>11. FlattenSeq(m) \in Seq(Object)
    BY <2>9 DEF B
  <2> QED
    BY <2>8, <2>10, <2>11 DEF m, B
<1> HIDE DEF members
<1>5. ASSUME NEW s \in ToSet(sessions)
      PROVE  /\ Walked(s) \in Seq(Object) /\ EachOnce(Walked(s))
             /\ \A o \in ToSet(Walked(s)) : o = s \/ (o.kind \in MemberKind /\ o.owner = s.badge)
  <2> DEFINE f == FlattenSeq(members(s))
             a == <<s>>
  <2>1. s \in Object /\ s.kind = kind
    BY <1>2, ListElements
  <2>2. /\ f \in Seq(Object) /\ EachOnce(f)
        /\ \A o \in ToSet(f) : o.kind \in MemberKind /\ o.owner = s.badge
    BY <1>4
  <2>3. a \in Seq(Object) /\ EachOnce(a) /\ ToSet(a) = {s}
    BY <2>1, OnceOne
  <2> HIDE DEF f, a
  <2>4. ToSet(a) \cap ToSet(f) = {}
    BY <2>1, <2>2, <2>3, KindFacts
  <2>5. EachOnce(a \o f) /\ a \o f \in Seq(Object) /\ ToSet(a \o f) = ToSet(a) \cup ToSet(f)
    BY <2>2, <2>3, <2>4, OnceBoth, ConcatSet
  <2> QED
    BY <2>2, <2>3, <2>5 DEF a, f
<1>6. \A i \in DOMAIN sessions : walks[i] = Walked(sessions[i])
  BY DEF Walked
<1>7. walks = [i \in 1 .. Len(sessions) |-> walks[i]]
  BY <1>3
<1> HIDE DEF walks, Walked
<1>8. \A i \in 1 .. Len(sessions) :
        /\ walks[i] \in Seq(Object) /\ EachOnce(walks[i])
        /\ \A o \in ToSet(walks[i]) : o = sessions[i] \/ (o.kind \in MemberKind /\ o.owner = sessions[i].badge)
  BY <1>3, <1>5, <1>6
<1>9. walks \in Seq(Seq(Object)) /\ Len(walks) = Len(sessions)
  <2>1. walks \in [1 .. Len(sessions) -> Seq(Object)]
    BY <1>7, <1>8
  <2>2. Len(walks) = Len(sessions)
    BY <1>3, <1>7
  <2> QED
    BY <1>3, <2>1, <2>2, SeqDef
<1>10. ASSUME NEW i \in 1 .. Len(sessions), NEW j \in 1 .. Len(sessions), i # j
       PROVE  ToSet(walks[i]) \cap ToSet(walks[j]) = {}
  <2>1. sessions[i] # sessions[j]
    BY <1>2, <1>10 DEF EachOnce
  <2>2. \A k \in {i, j} : sessions[k] \in ToSet(stored) /\ sessions[k].kind = kind
    BY <1>2, <1>3
  <2>3. kind # "region" /\ kind \notin MemberKind
    BY KindFacts
  <2>4. sessions[i].badge # sessions[j].badge
    BY <2>1, <2>2, <2>3 DEF StoredWhole
  <2>5. ASSUME NEW o, o \in ToSet(walks[i]), o \in ToSet(walks[j]) PROVE FALSE
    <3>1. o = sessions[i] \/ (o.kind \in MemberKind /\ o.owner = sessions[i].badge)
      BY <1>8, <2>5
    <3>2. o = sessions[j] \/ (o.kind \in MemberKind /\ o.owner = sessions[j].badge)
      BY <1>8, <2>5
    <3> QED
      BY <2>1, <2>2, <2>3, <2>4, <3>1, <3>2
  <2> QED
    BY <2>5
<1>11. EachOnce(FlattenSeq(walks)) /\ FlattenSeq(walks) \in Seq(Object)
  BY <1>8, <1>9, <1>10, OnceFlat, FlattenPlaces
<1> QED
  BY <1>1, <1>11

LEMMA RegionWalkOnce ==
  ASSUME StoredWhole, NEW w \in Seq(Object), EachOnce(w),
         \A o \in ToSet(w) : o \in ToSet(stored) /\ o.kind # "region",
         NEW first, "region" \notin first, Ahead(w, first, {"map", "space"})
  PROVE  /\ WithRegions(w) \in Seq(Object) /\ EachOnce(WithRegions(w))
         /\ Ahead(WithRegions(w), first \ {"map", "space"}, {"region"})
<1> DEFINE Regions(m) == IF IsMap(m) THEN Under(stored, "region", m.badge) ELSE <<>>
           Walked(m) == <<m>> \o Regions(m)
           walks == [i \in DOMAIN w |-> <<w[i]>> \o Regions(w[i])]
           f == WithRegions(w)
<1>1. f = FlattenSeq(walks)
  BY DEF WithRegions
<1>2. /\ Len(w) \in Nat /\ DOMAIN w = 1 .. Len(w)
      /\ \A i \in 1 .. Len(w) : w[i] \in Object /\ w[i] \in ToSet(w)
  BY ListElements
<1>3. ASSUME NEW m \in ToSet(w)
      PROVE  /\ Walked(m) \in Seq(Object) /\ EachOnce(Walked(m))
             /\ \A o \in ToSet(Walked(m)) : o = m \/ (o.kind = "region" /\ o.owner = m.badge /\ IsMap(m))
  <2> DEFINE r == Regions(m)
             a == <<m>>
  <2>1. /\ r \in Seq(Object) /\ EachOnce(r)
        /\ \A o \in ToSet(r) : o.kind = "region" /\ o.owner = m.badge /\ IsMap(m)
    <3>1. CASE IsMap(m)
      BY <3>1, OnceUnder
    <3>2. CASE ~IsMap(m)
      BY <3>2, OnceNone
    <3> QED
      BY <3>1, <3>2
  <2>2. a \in Seq(Object) /\ EachOnce(a) /\ ToSet(a) = {m}
    BY ListElements, OnceOne
  <2> HIDE DEF r, a
  <2>3. ToSet(a) \cap ToSet(r) = {}
    BY <2>1, <2>2
  <2>4. EachOnce(a \o r) /\ a \o r \in Seq(Object) /\ ToSet(a \o r) = ToSet(a) \cup ToSet(r)
    BY <2>1, <2>2, <2>3, OnceBoth, ConcatSet
  <2> QED
    BY <2>1, <2>2, <2>4 DEF a, r
<1>4. \A i \in DOMAIN w : walks[i] = Walked(w[i])
  OBVIOUS
<1>5. walks = [i \in 1 .. Len(w) |-> walks[i]]
  BY <1>2
<1> HIDE DEF walks, Walked, Regions, f
<1>6. \A i \in 1 .. Len(w) :
        /\ walks[i] \in Seq(Object) /\ EachOnce(walks[i])
        /\ \A o \in ToSet(walks[i]) : o = w[i] \/ (o.kind = "region" /\ o.owner = w[i].badge /\ IsMap(w[i]))
  BY <1>2, <1>3, <1>4
<1>7. walks \in Seq(Seq(Object)) /\ Len(walks) = Len(w)
  <2>1. walks \in [1 .. Len(w) -> Seq(Object)]
    BY <1>5, <1>6
  <2>2. Len(walks) = Len(w)
    BY <1>2, <1>5
  <2> QED
    BY <1>2, <2>1, <2>2, SeqDef
<1>8. ASSUME NEW i \in 1 .. Len(w), NEW j \in 1 .. Len(w), i # j
      PROVE  ToSet(walks[i]) \cap ToSet(walks[j]) = {}
  <2>1. w[i] # w[j]
    BY <1>8 DEF EachOnce
  <2>2. \A k \in {i, j} : w[k] \in ToSet(stored) /\ w[k].kind # "region"
    BY <1>2
  <2>3. w[i].badge # w[j].badge
    BY <2>1, <2>2 DEF StoredWhole
  <2> QED
    BY <1>6, <2>1, <2>2, <2>3
<1>9. EachOnce(f) /\ f \in Seq(Object)
  BY <1>1, <1>6, <1>7, <1>8, OnceFlat, FlattenPlaces
<1>10. PICK which, at : Places(f, walks, Len(w), which, at)
  BY <1>1, <1>7, FlattenPlaces
<1>11. \A p \in 1 .. Len(f) :
        /\ which[p] \in 1 .. Len(w) /\ at[p] \in 1 .. Len(walks[which[p]])
        /\ f[p] = walks[which[p]][at[p]]
        /\ \A q \in 1 .. p - 1 : which[q] < which[p] \/ (which[q] = which[p] /\ at[q] < at[p])
  BY <1>10 DEF Places
<1>12. \A p \in 1 .. Len(f) : f[p] \in ToSet(walks[which[p]])
  BY <1>6, <1>11, ListElements
<1>13. ASSUME NEW i \in 1 .. Len(f), NEW j \in 1 .. Len(f), f[i].kind \in first \ {"map", "space"}, f[j].kind = "region"
       PROVE  i < j
  <2>1. which[i] \in 1 .. Len(w) /\ which[j] \in 1 .. Len(w)
    BY <1>11
  <2>2. w[which[i]].kind \in first
    BY <1>6, <1>12, <1>13, <2>1
  <2>3. w[which[j]].kind \in {"map", "space"}
    <3>1. w[which[j]] \in ToSet(w)
      BY <1>2, <2>1
    <3>2. w[which[j]].kind # "region"
      BY <3>1
    <3> QED
      BY <1>6, <1>12, <1>13, <2>1, <3>2 DEF IsMap
  <2>4. which[i] < which[j]
    BY <2>1, <2>2, <2>3 DEF Ahead
  <2>5. Len(f) \in Nat
    BY <1>9, LenProperties
  <2>6. i \in Nat /\ j \in Nat /\ which[i] \in Nat /\ which[j] \in Nat
    BY <1>2, <2>1, <2>5
  <2>7. i # j
    BY <2>4, <2>6
  <2>8. ~(j \in 1 .. i - 1)
    <3> SUFFICES ASSUME j \in 1 .. i - 1 PROVE FALSE
      OBVIOUS
    <3>1. which[j] < which[i] \/ which[j] = which[i]
      BY <1>11
    <3> QED
      BY <2>4, <2>6, <3>1
  <2> QED
    BY <2>5, <2>6, <2>7, <2>8
<1>14. Ahead(f, first \ {"map", "space"}, {"region"})
  BY <1>13 DEF Ahead
<1> QED
  BY <1>9, <1>14 DEF f

LEMMA WalksOnce ==
  ASSUME StoredWhole
  PROVE  /\ \A w \in {Walk("ram", <<"ramds">>), Walk("pd", <<"source", "context", "space">>),
                      Walk("pd", <<"space">>), Walk("cpu", <<"thread">>), Walk("rm", <<"map">>),
                      Walk("log", <<>>), Walk("timer", <<>>)} : w \in Seq(Object) /\ EachOnce(w)
<1>1. /\ {"ramds", "source", "context", "space", "thread", "map"} \subseteq MemberKind
      /\ {"ram", "pd", "cpu", "rm", "log", "timer"} \subseteq SessionKind
  BY DEF MemberKind, SessionKind
<1>2. ASSUME NEW kind \in SessionKind, NEW member \in MemberKind
      PROVE  Walk(kind, <<member>>) \in Seq(Object) /\ EachOnce(Walk(kind, <<member>>))
  <2> DEFINE m == <<member>>
  <2>1. m \in [1 .. 1 -> MemberKind] /\ 1 \in Nat /\ \A k, l \in 1 .. 1 : m[k] = m[l] => k = l
    OBVIOUS
  <2> HIDE DEF m
  <2>2. Walk(kind, m) \in Seq(Object) /\ EachOnce(Walk(kind, m))
    BY <2>1, WalkOnce
  <2> QED
    BY <2>2 DEF m
<1>3. ASSUME NEW kind \in SessionKind
      PROVE  Walk(kind, <<>>) \in Seq(Object) /\ EachOnce(Walk(kind, <<>>))
  <2> DEFINE m == <<>>
  <2>1. m \in [1 .. 0 -> MemberKind] /\ 0 \in Nat /\ \A k, l \in 1 .. 0 : m[k] = m[l] => k = l
    OBVIOUS
  <2> HIDE DEF m
  <2>2. Walk(kind, m) \in Seq(Object) /\ EachOnce(Walk(kind, m))
    BY <2>1, WalkOnce
  <2> QED
    BY <2>2 DEF m
<1>4. /\ Walk("pd", <<"source", "context", "space">>) \in Seq(Object)
      /\ EachOnce(Walk("pd", <<"source", "context", "space">>))
  <2> DEFINE m == <<"source", "context", "space">>
  <2>1. m \in [1 .. 3 -> MemberKind] /\ 3 \in Nat /\ \A k, l \in 1 .. 3 : m[k] = m[l] => k = l
    BY <1>1
  <2> HIDE DEF m
  <2>2. "pd" \in SessionKind
    BY <1>1
  <2>3. Walk("pd", m) \in Seq(Object) /\ EachOnce(Walk("pd", m))
    BY <2>1, <2>2, WalkOnce
  <2> QED
    BY <2>3 DEF m
<1> QED
  BY <1>1, <1>2, <1>3, <1>4

\* Five walks after one another, each over objects of other kinds.
LEMMA OnceSix ==
  ASSUME NEW a \in Seq(Object), NEW b \in Seq(Object), NEW c \in Seq(Object),
         NEW d \in Seq(Object), NEW e \in Seq(Object), NEW f \in Seq(Object),
         EachOnce(a), EachOnce(b), EachOnce(c), EachOnce(d), EachOnce(e), EachOnce(f),
         ToSet(a) \cap ToSet(b) = {}, (ToSet(a) \cup ToSet(b)) \cap ToSet(c) = {},
         (ToSet(a) \cup ToSet(b) \cup ToSet(c)) \cap ToSet(d) = {},
         (ToSet(a) \cup ToSet(b) \cup ToSet(c) \cup ToSet(d)) \cap ToSet(e) = {},
         (ToSet(a) \cup ToSet(b) \cup ToSet(c) \cup ToSet(d) \cup ToSet(e)) \cap ToSet(f) = {}
  PROVE  /\ a \o b \o c \o d \o e \o f \in Seq(Object)
         /\ EachOnce(a \o b \o c \o d \o e \o f)
<1>1. a \o b \in Seq(Object) /\ EachOnce(a \o b) /\ ToSet(a \o b) = ToSet(a) \cup ToSet(b)
  BY OnceBoth, ConcatSet
<1> DEFINE ab == a \o b
           abc == ab \o c
           abcd == abc \o d
           abcde == abcd \o e
<1> HIDE DEF ab, abc, abcd, abcde
<1>2. abc \in Seq(Object) /\ EachOnce(abc) /\ ToSet(abc) = ToSet(a) \cup ToSet(b) \cup ToSet(c)
  <2>1. ab \in Seq(Object) /\ EachOnce(ab) /\ ToSet(ab) = ToSet(a) \cup ToSet(b)
    BY <1>1 DEF ab
  <2> QED
    BY <2>1, OnceBoth, ConcatSet DEF abc
<1>3. abcd \in Seq(Object) /\ EachOnce(abcd)
      /\ ToSet(abcd) = ToSet(a) \cup ToSet(b) \cup ToSet(c) \cup ToSet(d)
  BY <1>2, OnceBoth, ConcatSet DEF abcd
<1>4. abcde \in Seq(Object) /\ EachOnce(abcde)
      /\ ToSet(abcde) = ToSet(a) \cup ToSet(b) \cup ToSet(c) \cup ToSet(d) \cup ToSet(e)
  BY <1>3, OnceBoth, ConcatSet DEF abcde
<1>5. abcde \o f \in Seq(Object) /\ EachOnce(abcde \o f)
  BY <1>4, OnceBoth, ConcatSet
<1> QED
  BY <1>5 DEF abcde, abcd, abc, ab

LEMMA IdentifyWalkOnce ==
  ASSUME StoredWhole
  PROVE  EachOnce(IdentifyWalk)
<1> DEFINE ram == Walk("ram", <<"ramds">>)
           pd == Walk("pd", <<"source", "context", "space">>)
           cpu == Walk("cpu", <<"thread">>)
           rm == Walk("rm", <<"map">>)
           log == Walk("log", <<>>)
           timer == Walk("timer", <<>>)
<1>1. /\ ToSet(ram) = {o \in ToSet(stored) : o.kind \in {"ram", "ramds"}}
      /\ ToSet(pd) = {o \in ToSet(stored) : o.kind \in {"pd", "source", "context", "space"}}
      /\ ToSet(cpu) = {o \in ToSet(stored) : o.kind \in {"cpu", "thread"}}
      /\ ToSet(rm) = {o \in ToSet(stored) : o.kind \in {"rm", "map"}}
      /\ ToSet(log) = {o \in ToSet(stored) : o.kind = "log"}
      /\ ToSet(timer) = {o \in ToSet(stored) : o.kind = "timer"}
  BY WalksOver
<1>2. \A w \in {ram, pd, cpu, rm, log, timer} : w \in Seq(Object) /\ EachOnce(w)
  BY WalksOnce
<1>3. IdentifyWalk = ram \o pd \o cpu \o rm \o log \o timer
  BY DEF IdentifyWalk
<1> HIDE DEF ram, pd, cpu, rm, log, timer
<1>4. /\ ToSet(ram) \cap ToSet(pd) = {} /\ (ToSet(ram) \cup ToSet(pd)) \cap ToSet(cpu) = {}
      /\ (ToSet(ram) \cup ToSet(pd) \cup ToSet(cpu)) \cap ToSet(rm) = {}
      /\ (ToSet(ram) \cup ToSet(pd) \cup ToSet(cpu) \cup ToSet(rm)) \cap ToSet(log) = {}
      /\ (ToSet(ram) \cup ToSet(pd) \cup ToSet(cpu) \cup ToSet(rm) \cup ToSet(log)) \cap ToSet(timer) = {}
  BY <1>1
<1> QED
  BY <1>2, <1>3, <1>4, OnceSix

LEMMA StateWalkOnce ==
  ASSUME StoredWhole
  PROVE  EachOnce(StateWalk) /\ Ahead(StateWalk, {"ramds"}, {"region"})
<1> DEFINE ram == Walk("ram", <<"ramds">>)
           pd == Walk("pd", <<"space">>)
           cpu == Walk("cpu", <<"thread">>)
           rm == Walk("rm", <<"map">>)
           log == Walk("log", <<>>)
           timer == Walk("timer", <<>>)
           all == ram \o pd \o cpu \o rm \o log \o timer
<1>1. /\ ToSet(ram) = {o \in ToSet(stored) : o.kind \in {"ram", "ramds"}}
      /\ ToSet(pd) = {o \in ToSet(stored) : o.kind \in {"pd", "space"}}
      /\ ToSet(cpu) = {o \in ToSet(stored) : o.kind \in {"cpu", "thread"}}
      /\ ToSet(rm) = {o \in ToSet(stored) : o.kind \in {"rm", "map"}}
      /\ ToSet(log) = {o \in ToSet(stored) : o.kind = "log"}
      /\ ToSet(timer) = {o \in ToSet(stored) : o.kind = "timer"}
  BY WalksOver
<1>2. \A w \in {ram, pd, cpu, rm, log, timer} : w \in Seq(Object) /\ EachOnce(w)
  BY WalksOnce
<1>3. StateWalk = WithRegions(all)
  BY DEF StateWalk
<1> HIDE DEF ram, pd, cpu, rm, log, timer
<1>4. /\ ToSet(ram) \cap ToSet(pd) = {} /\ (ToSet(ram) \cup ToSet(pd)) \cap ToSet(cpu) = {}
      /\ (ToSet(ram) \cup ToSet(pd) \cup ToSet(cpu)) \cap ToSet(rm) = {}
      /\ (ToSet(ram) \cup ToSet(pd) \cup ToSet(cpu) \cup ToSet(rm)) \cap ToSet(log) = {}
      /\ (ToSet(ram) \cup ToSet(pd) \cup ToSet(cpu) \cup ToSet(rm) \cup ToSet(log)) \cap ToSet(timer) = {}
  BY <1>1
<1>5. all \in Seq(Object) /\ EachOnce(all)
  BY <1>2, <1>4, OnceSix
<1> DEFINE F == {"ramds"}
           L == {"map", "space"}
<1>6. \A w \in {ram, pd, cpu, rm, log, timer} : \A i \in 1 .. Len(w) : w[i] \in ToSet(w)
  BY <1>2, ListElements
<1>7. /\ \A o \in ToSet(ram) : o.kind \notin L
      /\ \A o \in ToSet(pd) \cup ToSet(cpu) \cup ToSet(rm) \cup ToSet(log) \cup ToSet(timer) : o.kind \notin F
  BY <1>1
<1>8. \A w \in {ram, pd, cpu, rm, log, timer} : Ahead(w, F, L)
  BY <1>6, <1>7 DEF Ahead
<1>9. Ahead(all, F, L) /\ \A o \in ToSet(all) : o \in ToSet(stored) /\ o.kind # "region"
  <2> HIDE DEF F, L
  <2> DEFINE C == {w \in Seq(Object) : /\ Ahead(w, F, L)
                                       /\ \A o \in ToSet(w) : o \in ToSet(stored) /\ o.kind # "region"}
             D == {w \in C : \A o \in ToSet(w) : o.kind \notin F}
  <2>1. ASSUME NEW a \in C, NEW b \in D PROVE a \o b \in C
    <3>1. ToSet(a \o b) = ToSet(a) \cup ToSet(b) /\ a \o b \in Seq(Object)
      BY ConcatSet
    <3>2. Ahead(a \o b, F, L)
      BY AheadBoth
    <3> QED
      BY <3>1, <3>2
  <2>2. ram \in C /\ pd \in D /\ cpu \in D /\ rm \in D /\ log \in D /\ timer \in D
    BY <1>1, <1>2, <1>7, <1>8
  <2> HIDE DEF C, D
  <2>3. all \in C
    BY <2>1, <2>2
  <2> QED
    BY <2>3 DEF C
<1> HIDE DEF all
<1>10. /\ EachOnce(WithRegions(all))
       /\ Ahead(WithRegions(all), F \ L, {"region"})
  <2>1. "region" \notin F
    OBVIOUS
  <2> HIDE DEF F
  <2> QED
    BY <1>5, <1>9, <2>1, RegionWalkOnce
<1>11. F \ L = F
  OBVIOUS
<1> QED
  BY <1>3, <1>10, <1>11

-----------------------------------------------------------------------------
(* What the first walk makes, of a target with all dataspaces of its       *)
(* bootstrap and threads of different names.                               *)

\* Identifiable, of the stored lists; the first PD session stays anyway.
Fit ==
  /\ \E s \in ToSet(stored) : s.kind = "pd" /\ s.badge = 1
  /\ \A b \in {5, 6} : \E s \in ToSet(stored) : s.kind = "ramds" /\ s.boot /\ s.badge = b
  /\ \A s, t \in ToSet(stored) : s.kind = "thread" /\ t.kind = "thread" /\ s.tag = t.tag => s = t

Blank(c) == c.sigh = 0 /\ c.mode = 0 /\ c.quota = 0

\* c is in the child what s was in the target.
Twin(s, c) ==
  /\ c.kind = s.kind /\ c.boot = s.boot /\ c.tag = s.tag
  /\ s.badge \in DOMAIN tr /\ c.badge = tr[s.badge]
  /\ s.owner \in {0} \cup DOMAIN tr /\ c.owner = Image(s.owner)
  /\ s.ref \in {0} \cup DOMAIN tr /\ c.ref = Image(s.ref)

\* The new badges.
Young(b) == IsPlain(b) /\ b \in 1011000 .. NewBadge - 1

Numbered(seen) ==
  /\ \A s \in seen : s.boot => \A b \in Keys(s) : tr[b] = b + 1000
  /\ \A s \in seen : ~s.boot => Young(tr[s.badge]) /\ (IsMap(s) => tr[s.ref] = DsOf(tr[s.badge]))
  /\ \A s, t \in seen : ~s.boot /\ ~t.boot /\ tr[s.badge] = tr[t.badge] => s = t

\* What is new in the child is new because of one info.
Newcomers(seen) ==
  /\ \A c \in ToSet(child) : Blank(c)
  /\ \A c \in ToSet(child) : ~c.boot =>
       /\ c.kind # "region" /\ Young(c.badge) /\ (IsMap(c) => c.ref = DsOf(c.badge))
       /\ \E s \in seen : ~s.boot /\ c.kind = s.kind /\ c.tag = s.tag /\ c.badge = tr[s.badge]
  /\ \A c, d \in ToSet(child) : ~c.boot /\ ~d.boot /\ c.badge = d.badge => c = d

Twins(seen) ==
  /\ Numbered(seen) /\ Newcomers(seen)
  /\ \A s \in seen : ~s.boot => \E c \in ToSet(child) : Twin(s, c)

LEMMA NewBadgeFacts ==
  ASSUME ChildSound
  PROVE  /\ Len(child) \in Nat /\ NewBadge = 1011000 + 1000 * Len(child) /\ NewBadge \in Nat
         /\ IsPlain(NewBadge) /\ NewBadge >= 1011000
         /\ DsOf(NewBadge) = NewBadge + 200
<1>1. Len(child) \in Nat
  BY ListElements DEF ChildSound
<1>2. NewBadge = 1000 * (1011 + Len(child))
  BY DEF NewBadge, NthBadge
<1> DEFINE n == Len(child)
<1>3. n \in Nat /\ NewBadge = 1000 * (1011 + n)
  BY <1>1, <1>2
<1> HIDE DEF n
<1>4. NewBadge = 1011000 + 1000 * n /\ NewBadge \in Nat /\ NewBadge >= 1011000
  BY <1>3
<1>5. 1011 + n \in Nat /\ NewBadge \in 1000 * (1011 + n) .. 1000 * (1011 + n) + 7
  BY <1>3
<1>6. IsPlain(NewBadge)
  BY <1>5 DEF IsPlain
<1> QED
  BY <1>1, <1>4, <1>6 DEF n, DsOf

\* Translations once made stay.
LEMMA StillTranslated ==
  ASSUME NEW seen, Ready(seen), NEW s, s = S, s \notin seen, NEW c, Translated(s, c)
  PROVE  /\ \A b \in DOMAIN tr : b \notin Keys(s) /\ b \in DOMAIN tr' /\ tr'[b] = tr[b] /\ b # 0
         /\ \A t \in seen : Keys(t) \subseteq DOMAIN tr
         /\ \A b \in {0} \cup DOMAIN tr : b \in {0} \cup DOMAIN tr' /\ Image(b)' = Image(b)
<1>1. s \in ToSet(stored) /\ s.kind # "region"
  BY DEF Ready
<1>2. \A t \in seen : t \in ToSet(stored) /\ t.kind # "region" /\ Keys(t) \subseteq DOMAIN tr
  BY DEF Ready, Matched
<1>3. \A b \in DOMAIN tr : \E t \in seen : b \in Keys(t)
  BY DEF Ready, Matched
<1>4. \A b \in DOMAIN tr : b \notin Keys(s)
  <2> SUFFICES ASSUME NEW b \in DOMAIN tr, b \in Keys(s) PROVE FALSE
    OBVIOUS
  <2>1. PICK t \in seen : b \in Keys(t)
    BY <1>3
  <2>2. t = s
    BY <1>1, <1>2, <2>1, KeysApart DEF Ready
  <2> QED
    BY <2>1, <2>2
<1>5. \A b \in DOMAIN tr : b # 0
  BY TrFacts DEF Ready
<1>6. \A b \in DOMAIN tr : b \in DOMAIN tr' /\ tr'[b] = tr[b]
  BY <1>4 DEF Translated
<1>7. \A b \in {0} \cup DOMAIN tr : Image(b)' = Image(b)
  BY <1>5, <1>6 DEF Image
<1> QED
  BY <1>2, <1>4, <1>5, <1>6, <1>7

\* An object of the bootstrap is found where the target had its own.
LEMMA FoundRight ==
  ASSUME Fit, NEW seen, Ready(seen), Twins(seen), NEW s, s = S, s \notin seen,
         NEW c, Translated(s, c), Found(s, c)
  PROVE  \A b \in Keys(s) : tr'[b] = b + 1000
<1>1. s \in ToSet(stored) /\ s.boot /\ s.kind # "region" /\ StoredWhole /\ ChildSound /\ Matched(seen)
  BY DEF Ready, Found
<1>2. c \in ToSet(child) /\ c.kind = s.kind /\ BootsIn(child, 1000)
  BY <1>1 DEF Found, ChildSound
<1>3. BootRow(s, 0)
  BY <1>1, StoredRow
<1>4. c.boot => BootRow(c, 1000)
  BY <1>2, ChildRow
<1>5. CASE s.kind = "ramds"
  <2>1. PairsRight
    <3>1. PICK p \in seen : p.kind = "ram"
      BY <1>1, <1>5, OwnerFacts DEF Ready, OwnerKinds, MemberKind
    <3> QED
      BY <1>1, <3>1 DEF Matched
  <2>2. pairs[5] = 1005 /\ pairs[6] = 1006
    BY <2>1 DEF PairsRight, Fit
  <2>3. s.badge \in {5, 6}
    BY <1>3, <1>5 DEF BootRow
  <2>4. c.badge = s.badge + 1000
    BY <1>5, <2>2, <2>3 DEF Found
  <2> QED
    BY <1>5, <2>4 DEF Keys, Translated, IsMap
<1>6. CASE s.kind = "thread"
  <2>1. c.owner = 1002 /\ c.tag = 1
    BY <1>6 DEF Found
  <2>2. s.badge = 4 /\ s.tag = 1
    BY <1>3, <1>6 DEF BootRow
  <2>3. c.boot
    <3> SUFFICES ASSUME ~c.boot PROVE FALSE
      OBVIOUS
    <3>1. PICK t \in seen : ~t.boot /\ t.kind = "thread" /\ t.tag = 1
      BY <1>2, <1>6, <2>1 DEF Twins, Newcomers
    <3>2. t \in ToSet(stored)
      BY <1>1, <3>1 DEF Matched
    <3>3. t = s
      BY <1>1, <1>6, <2>2, <3>1, <3>2 DEF Fit
    <3> QED
      BY <1>1, <3>1, <3>3
  <2>4. c.badge = 1004
    BY <1>2, <1>4, <1>6, <2>3 DEF BootRow
  <2> QED
    BY <1>6, <2>2, <2>4 DEF Keys, Translated, IsMap
<1>7. CASE s.kind \notin {"ramds", "thread"}
  <2>1. c.boot /\ c.badge = s.badge + 1000
    BY <1>7 DEF Found
  <2>2. IsMap(s) => s.kind = "space" /\ s.badge = 101 /\ s.ref = 301
    BY <1>3 DEF BootRow, IsMap
  <2>3. IsMap(s) => c.ref = 1301
    BY <1>2, <1>4, <2>1, <2>2 DEF BootRow
  <2> QED
    BY <2>1, <2>2, <2>3 DEF Keys, Translated
<1> QED
  BY <1>5, <1>6, <1>7

LEMMA FoundTwins ==
  ASSUME Fit, NEW seen, Ready(seen), Twins(seen), NEW s, s = S, s \notin seen,
         NEW c, Translated(s, c), Found(s, c)
  PROVE  Twins(seen \cup {s})'
<1>1. \A b \in Keys(s) : tr'[b] = b + 1000
  BY FoundRight
<1>2. UNCHANGED child /\ s.boot
  BY DEF Found
<1>3. /\ \A b \in DOMAIN tr : b \in DOMAIN tr' /\ tr'[b] = tr[b]
      /\ \A t \in seen : Keys(t) \subseteq DOMAIN tr
      /\ \A b \in {0} \cup DOMAIN tr : b \in {0} \cup DOMAIN tr' /\ Image(b)' = Image(b)
  BY StillTranslated
<1>4. \A t : t.badge \in Keys(t) /\ (IsMap(t) => t.ref \in Keys(t))
  BY DEF Keys
<1>5. NewBadge' = NewBadge
  BY <1>2 DEF NewBadge
<1>6. \A b : Young(b)' = Young(b)
  BY <1>5 DEF Young
<1>7. \A t \in seen : /\ tr'[t.badge] = tr[t.badge] /\ (IsMap(t) => tr'[t.ref] = tr[t.ref])
                      /\ \A b \in Keys(t) : tr'[b] = tr[b]
  BY <1>3, <1>4
<1>8. Numbered(seen \cup {s})'
  <2>1. \A t \in seen \cup {s} : t.boot => \A b \in Keys(t) : tr'[b] = b + 1000
    BY <1>1, <1>7 DEF Twins, Numbered
  <2>2. \A t \in seen \cup {s} : ~t.boot =>
          t \in seen /\ tr'[t.badge] = tr[t.badge] /\ (IsMap(t) => tr'[t.ref] = tr[t.ref])
    BY <1>2, <1>7
  <2>3. \A t \in seen \cup {s} : ~t.boot => Young(tr[t.badge])' /\ (IsMap(t) => tr'[t.ref] = DsOf(tr'[t.badge]))
    <3>1. \A t \in seen : ~t.boot => Young(tr[t.badge]) /\ (IsMap(t) => tr[t.ref] = DsOf(tr[t.badge]))
      BY DEF Twins, Numbered
    <3>2. \A t \in seen : ~t.boot => Young(tr[t.badge])' /\ tr'[t.badge] = tr[t.badge]
      BY <1>6, <1>7, <3>1
    <3> QED
      BY <2>2, <3>1, <3>2
  <2>4. \A t, u \in seen \cup {s} : ~t.boot /\ ~u.boot /\ tr'[t.badge] = tr'[u.badge] => t = u
    BY <2>2 DEF Twins, Numbered
  <2> QED
    BY <2>1, <2>3, <2>4 DEF Numbered, Young
<1>9. Newcomers(seen \cup {s})'
  <2>1. \A d \in ToSet(child) : ~d.boot =>
          /\ d.kind # "region" /\ Young(d.badge)' /\ (IsMap(d) => d.ref = DsOf(d.badge))
          /\ \E t \in seen \cup {s} : ~t.boot /\ d.kind = t.kind /\ d.tag = t.tag /\ d.badge = tr'[t.badge]
    BY <1>6, <1>7 DEF Twins, Newcomers
  <2> QED
    BY <1>2, <2>1 DEF Twins, Newcomers, Young
<1>10. ASSUME NEW t \in seen \cup {s}, ~t.boot PROVE \E d \in ToSet(child') : Twin(t, d)'
  <2>1. t \in seen
    BY <1>2, <1>10
  <2>2. PICK d \in ToSet(child) : Twin(t, d)
    BY <1>10, <2>1 DEF Twins
  <2>3. Twin(t, d)'
    BY <1>3, <2>2 DEF Twin
  <2> QED
    BY <1>2, <2>3
<1> QED
  BY <1>8, <1>9, <1>10 DEF Twins

\* An object made anew is what the target's was.
LEMMA MadeTwins ==
  ASSUME Fit, NEW seen, Ready(seen), Twins(seen), NEW s, s = S, s \notin seen,
         NEW c, Translated(s, c), Made(s, c)
  PROVE  Twins(seen \cup {s})'
<1>0. PICK new : new = NewBadge
  OBVIOUS
<1>1. /\ \A b \in DOMAIN tr : b \in DOMAIN tr' /\ tr'[b] = tr[b]
      /\ \A t \in seen : Keys(t) \subseteq DOMAIN tr
      /\ \A b \in {0} \cup DOMAIN tr : b \in {0} \cup DOMAIN tr' /\ Image(b)' = Image(b)
  BY StillTranslated
<1>2. \A t : t.badge \in Keys(t) /\ (IsMap(t) => t.ref \in Keys(t))
  BY DEF Keys
<1>3. \A t \in seen : /\ tr'[t.badge] = tr[t.badge] /\ (IsMap(t) => tr'[t.ref] = tr[t.ref])
                      /\ \A b \in Keys(t) : tr'[b] = tr[b]
  BY <1>1, <1>2
<1>4. /\ ~s.boot /\ child' = Cons(c, child) /\ c \in Object /\ s.kind \notin {"pd", "space"}
      /\ s.owner \in {0} \cup DOMAIN tr /\ (s.kind # "map" => s.ref \in {0} \cup DOMAIN tr)
  BY DEF Made
<1>5. /\ c.kind = s.kind /\ c.badge = new /\ c.owner = Image(s.owner) /\ c.tag = s.tag /\ c.boot = FALSE
      /\ c.ref = (IF s.kind = "map" THEN DsOf(new) ELSE Image(s.ref)) /\ Blank(c)
  BY <1>0 DEF Made, Obj, Blank
<1>6. /\ tr'[s.badge] = new /\ s.badge \in DOMAIN tr' /\ (IsMap(s) => tr'[s.ref] = c.ref /\ s.ref \in DOMAIN tr')
  BY <1>5 DEF Translated, Keys
<1>7. s \in ToSet(stored) /\ s.kind \notin {"region", "native"} /\ StoredWhole /\ ChildSound /\ s.boot \in BOOLEAN
  BY DEF Ready, StoredWhole, Object
<1>8. child \in Seq(Object)
  BY <1>7 DEF ChildSound
<1>9. /\ ToSet(child') = {c} \cup ToSet(child) /\ Len(Cons(c, child)) = Len(child) + 1
      /\ Len(child) \in Nat
  <2>1. c \in Object
    BY <1>4
  <2>2. /\ ToSet(Cons(c, child)) = {c} \cup ToSet(child) /\ Len(Cons(c, child)) = Len(child) + 1
        /\ Len(child) \in Nat
    BY <1>8, <2>1, ConsFacts
  <2> QED
    BY <1>4, <2>2
<1>10. Len(child) \in Nat /\ new = 1011000 + 1000 * Len(child) /\ new \in Nat /\ IsPlain(new) /\ new >= 1011000
       /\ DsOf(new) = new + 200
  BY <1>0, <1>7, NewBadgeFacts
<1>11. NewBadge' = new + 1000
  <2>1. NewBadge' = 1000 * (1011 + (Len(child) + 1))
    BY <1>4, <1>9 DEF NewBadge, NthBadge
  <2> QED
    BY <1>10, <2>1
<1>12. \A b : Young(b) => Young(b)' /\ b < new
  BY <1>0, <1>10, <1>11 DEF Young
<1>13. Young(new)'
  BY <1>10, <1>11 DEF Young
<1>14. IsMap(s) => s.kind = "map"
  BY <1>4 DEF IsMap
<1>15. \A t \in seen : ~t.boot => /\ Young(tr[t.badge]) /\ (IsMap(t) => tr[t.ref] = DsOf(tr[t.badge]))
                                 /\ tr[t.badge] # new
  BY <1>12, <1>10 DEF Twins, Numbered
<1>16. Numbered(seen \cup {s})'
  <2>1. \A t \in seen \cup {s} : t.boot => \A b \in Keys(t) : tr'[b] = b + 1000
    BY <1>3, <1>4 DEF Twins, Numbered
  <2>2. ASSUME NEW t \in seen \cup {s}, ~t.boot
        PROVE  Young(tr[t.badge])' /\ (IsMap(t) => tr'[t.ref] = DsOf(tr'[t.badge]))
    <3>1. CASE t = s
      BY <1>5, <1>6, <1>13, <1>14, <3>1
    <3>2. CASE t \in seen
      <4>1. tr'[t.badge] = tr[t.badge] /\ (IsMap(t) => tr'[t.ref] = tr[t.ref])
        BY <1>3, <3>2
      <4>2. Young(tr[t.badge]) /\ (IsMap(t) => tr[t.ref] = DsOf(tr[t.badge]))
        BY <1>15, <2>2, <3>2
      <4>3. PICK b : b = tr[t.badge] /\ b = tr'[t.badge]
        BY <4>1
      <4>4. Young(b)'
        BY <1>12, <4>2, <4>3
      <4>5. Young(tr[t.badge])'
        BY <4>3, <4>4 DEF Young
      <4> QED
        BY <4>1, <4>2, <4>5
    <3> QED
      BY <3>1, <3>2
  <2>3. \A t, u \in seen \cup {s} : ~t.boot /\ ~u.boot /\ tr'[t.badge] = tr'[u.badge] => t = u
    BY <1>3, <1>6, <1>15 DEF Twins, Numbered
  <2> QED
    BY <2>1, <2>2, <2>3 DEF Numbered, Young
<1>17. Newcomers(seen \cup {s})'
  <2>1. \A d \in ToSet(child') : Blank(d)
    BY <1>5, <1>9 DEF Twins, Newcomers
  <2>2. ASSUME NEW d \in ToSet(child'), ~d.boot
        PROVE  /\ d.kind # "region" /\ Young(d.badge)' /\ (IsMap(d) => d.ref = DsOf(d.badge))
               /\ \E t \in seen \cup {s} : ~t.boot /\ d.kind = t.kind /\ d.tag = t.tag /\ d.badge = tr'[t.badge]
    <3>1. CASE d = c
      <4>1. Young(d.badge)'
        BY <1>5, <1>13, <3>1
      <4>2. IsMap(d) => d.ref = DsOf(d.badge)
        BY <1>4, <1>5, <3>1 DEF IsMap
      <4> QED
        BY <1>4, <1>5, <1>6, <1>7, <3>1, <4>1, <4>2
    <3>2. CASE d \in ToSet(child)
      <4>1. d.kind # "region" /\ Young(d.badge) /\ (IsMap(d) => d.ref = DsOf(d.badge))
        BY <2>2, <3>2 DEF Twins, Newcomers
      <4>2. \E t \in seen : ~t.boot /\ d.kind = t.kind /\ d.tag = t.tag /\ d.badge = tr[t.badge]
        BY <2>2, <3>2 DEF Twins, Newcomers
      <4>3. Young(d.badge)'
        BY <1>12, <4>1
      <4> QED
        BY <1>3, <4>1, <4>2, <4>3
    <3> QED
      BY <1>9, <3>1, <3>2
  <2>3. \A d \in ToSet(child) : ~d.boot => d.badge # new
    BY <1>10, <1>12 DEF Twins, Newcomers
  <2>4. \A d, e \in ToSet(child') : ~d.boot /\ ~e.boot /\ d.badge = e.badge => d = e
    BY <1>5, <1>9, <2>3 DEF Twins, Newcomers
  <2> QED
    BY <2>1, <2>2, <2>4 DEF Newcomers, Young
<1>18. ASSUME NEW t \in seen \cup {s}, ~t.boot PROVE \E d \in ToSet(child') : Twin(t, d)'
  <2>1. CASE t \in seen
    <3>1. PICK d \in ToSet(child) : Twin(t, d)
      BY <1>18, <2>1 DEF Twins
    <3>2. Twin(t, d)'
      BY <1>1, <3>1 DEF Twin
    <3> QED
      BY <1>9, <3>2
  <2>2. CASE t = s
    <3>1. s.owner \in {0} \cup DOMAIN tr' /\ c.owner = Image(s.owner)'
      BY <1>1, <1>4, <1>5
    <3>2. s.ref \in {0} \cup DOMAIN tr' /\ c.ref = Image(s.ref)'
      <4>1. CASE s.kind = "map"
        <5>1. IsMap(s) /\ s.ref # 0
          BY <1>7, <4>1, StoredBoot DEF IsMap
        <5> QED
          BY <1>6, <5>1 DEF Image
      <4>2. CASE s.kind # "map"
        BY <1>1, <1>4, <1>5, <4>2
      <4> QED
        BY <4>1, <4>2
    <3>3. c.kind = s.kind /\ c.boot = s.boot /\ c.tag = s.tag /\ s.badge \in DOMAIN tr' /\ c.badge = tr'[s.badge]
      BY <1>4, <1>5, <1>6, <1>7
    <3>4. Twin(s, c)'
      BY <3>1, <3>2, <3>3 DEF Twin
    <3> QED
      BY <1>9, <2>2, <3>4
  <2> QED
    BY <2>1, <2>2
<1> QED
  BY <1>16, <1>17, <1>18 DEF Twins

LEMMA TwinsStep ==
  ASSUME Fit, NEW seen, Ready(seen), Twins(seen), Goes(S), NEW s, s = S, s \notin seen
  PROVE  Twins(seen \cup {s})'
<1>1. PICK c : Translated(s, c) /\ (Found(s, c) \/ Made(s, c))
  BY DEF Goes, Treated
<1> QED
  BY <1>1, FoundTwins, MadeTwins

LEMMA TwinsStart ==
  ASSUME StoredWhole, LogRequest, tr = Nothing
  PROVE  Twins({})'
<1>1. child' = Reverse(Bootstrapped(1000)) /\ tr' = tr
  BY DEF LogRequest
<1>2. PICK d \in Nat : d = 1000
  OBVIOUS
<1> DEFINE b == Bootstrapped(d)
<1> HIDE DEF b
<1>3. b \in Seq(Object) /\ \A o \in ToSet(b) : o.boot /\ o.sigh = 0 /\ o.mode = 0 /\ o.quota = 0
  <2>1. LET l == Bootstrapped(d)
        IN  l \in Seq(Object) /\ \A o \in ToSet(l) : o.boot /\ o.sigh = 0 /\ o.mode = 0 /\ o.quota = 0
    BY BootFacts
  <2> QED
    BY <2>1 DEF b
<1>4. ToSet(child') = ToSet(b)
  <2>1. ToSet(Reverse(b)) = ToSet(b)
    BY <1>3, ReverseFacts
  <2> QED
    BY <1>1, <1>2, <2>1 DEF b
<1>5. Newcomers({})'
  BY <1>3, <1>4 DEF Newcomers, Blank
<1>6. Numbered({})'
  BY DEF Numbered
<1> QED
  BY <1>5, <1>6 DEF Twins

\* The first walk under way.
Twinning ==
  \E w, n, seen : /\ w = IdentifyWalk /\ n \in Nat /\ Rest(n, w)
                  /\ seen = {w[i] : i \in 1 .. n} /\ Matched(seen) /\ Twins(seen)

LEMMA TwinningStarts ==
  ASSUME StoredWhole, LogRequest, tr = Nothing
  PROVE  Twinning'
<1>1. todo' = IdentifyWalk /\ tr' = tr /\ UNCHANGED stored
  BY DEF LogRequest, outside, ckVars
<1>2. PICK w \in Seq(Object) : w = IdentifyWalk
  BY IdentifyWalkFacts
<1>3. w = IdentifyWalk'
  BY <1>1, <1>2, WalksSame
<1>4. Rest(0, w)'
  BY <1>1, <1>2, RestStart
<1>5. \A seen : seen = {} => Matched(seen)'
  BY <1>1 DEF Matched, Nothing
<1>6. Twins({})'
  BY TwinsStart
<1>7. 0 \in Nat /\ {w[i] : i \in 1 .. 0} = {}
  OBVIOUS
<1> QED
  BY <1>3, <1>4, <1>5, <1>6, <1>7 DEF Twinning

LEMMA TwinningStep ==
  ASSUME StoredWhole, ChildSound, Fit, Twinning, Identify, UNCHANGED stored
  PROVE  Twinning' \/ rsPc' \in {"failed", "crashed"}
<1>1. PICK w, n, seen : /\ w = IdentifyWalk /\ n \in Nat /\ Rest(n, w)
                        /\ seen = {w[i] : i \in 1 .. n} /\ Matched(seen) /\ Twins(seen)
  BY DEF Twinning
<1>2. rsPc = "identify" /\ todo # <<>> /\ todo' = Tail(todo)
  BY IdentifySteps
<1>3. /\ w \in Seq(Object) /\ Placed(w) /\ EachOnce(w)
      /\ ToSet(w) = {o \in ToSet(stored) : o.kind \notin {"region", "native"}}
  BY <1>1, IdentifyWalkFacts, IdentifyWalkOnce
<1>4. /\ n + 1 \in 1 .. Len(w) /\ Len(w) \in Nat /\ S = w[n + 1] /\ S \in ToSet(w) /\ S \in Object
      /\ Rest(n + 1, w)'
  BY <1>1, <1>2, <1>3, RestNext
<1>5. Reachable(S, seen)
  <2>1. n + 1 - 1 = n
    BY <1>1
  <2> QED
    BY <1>1, <1>3, <1>4, <2>1 DEF Reachable, Placed
<1>6. Ready(seen)
  BY <1>1, <1>3, <1>4, <1>5 DEF Ready
<1>7. Goes(S) \/ Stops
  BY <1>2, <1>6, IdentifyFinds
<1>8. CASE Goes(S)
  <2>1. PICK s : s = S
    OBVIOUS
  <2>2. s \notin seen
    <3> SUFFICES ASSUME NEW i \in 1 .. n, w[i] = w[n + 1] PROVE FALSE
      BY <1>1, <1>4, <2>1
    <3>1. i \in 1 .. Len(w) /\ i # n + 1
      BY <1>1, <1>4
    <3> QED
      BY <1>3, <1>4, <3>1 DEF EachOnce
  <2>3. Matched(seen \cup {s})'
    BY <1>6, <1>8, <2>1, MatchedStep
  <2>4. Twins(seen \cup {s})'
    BY <1>1, <1>6, <1>8, <2>1, <2>2, TwinsStep
  <2>5. seen \cup {s} = {w[i] : i \in 1 .. n + 1}
    <3>1. 1 .. n + 1 = 1 .. n \cup {n + 1}
      BY <1>1
    <3> QED
      BY <1>1, <1>4, <2>1, <3>1
  <2>6. w = IdentifyWalk' /\ n + 1 \in Nat
    BY <1>1, WalksSame
  <2> QED
    BY <1>4, <2>3, <2>4, <2>5, <2>6 DEF Twinning
<1> QED
  BY <1>7, <1>8 DEF Stops

-----------------------------------------------------------------------------
(* The child between the two walks.                                        *)

\* Translations can be told apart, and so can the child's badges; what is a
\* dataspace of the child was one of the target; badges of the bootstrap lead to
\* those of the child's.
Faithful ==
  /\ \A b, c \in DOMAIN tr : tr[b] = tr[c] => b = c
  /\ \A c, d \in ToSet(child) : c.kind # "region" /\ d.kind # "region" /\ c.badge = d.badge => c = d
  /\ \A b \in DOMAIN tr : IsDataspace(tr[b]) =>
       b \in RegionMapDataspaces \/ \E s \in ToSet(stored) : s.kind = "ramds" /\ s.badge = b
  /\ \A s \in ToSet(stored) : s.kind \notin {"region", "native"} /\ s.boot =>
       s.badge \in DOMAIN tr /\ tr[s.badge] = s.badge + 1000

\* The state of s is that of its twin, once the second walk has been there.
Shown(s, c, restored) ==
  IF restored /\ s.kind # "ramds"
    THEN c.sigh = Image(s.sigh) /\ c.mode = s.mode /\ c.quota = s.quota
    ELSE Blank(c)

RegionTwin(s, c) ==
  /\ c.kind = "region" /\ c.boot = s.boot /\ c.tag = s.tag /\ Blank(c)
  /\ c.owner = Image(s.owner) /\ c.ref = Image(s.ref)

Rebuilt(done) ==
  /\ \A s \in ToSet(stored) : s.kind \notin {"region", "native"} =>
       \E c \in ToSet(child) : Twin(s, c) /\ Shown(s, c, s \in done)
  /\ \A s \in done : s.kind = "region" => \E c \in ToSet(child) : RegionTwin(s, c)
  /\ \A c \in ToSet(child) : c.kind = "region" => Blank(c)

\* The badges of the child's bootstrap and those of its other objects.
LEMMA ChildBadges ==
  ASSUME ChildSound, NEW seen, Newcomers(seen), NEW c \in ToSet(child)
  PROVE  /\ c.badge \in Nat /\ c.ref \in Nat
         /\ c.boot => BootRow(c, 1000) /\ c.badge <= 1101 /\ (IsMap(c) => c.ref = 1301)
         /\ ~c.boot => /\ c.kind # "region" /\ IsPlain(c.badge) /\ c.badge >= 1011000
                       /\ IsMap(c) => c.ref = DsOf(c.badge)
<1>1. c \in Object /\ BootsIn(child, 1000)
  BY ListElements DEF ChildSound
<1>2. c.boot => BootRow(c, 1000)
  BY <1>1, ChildRow
<1>3. BootRow(c, 1000) => c.badge <= 1101 /\ (IsMap(c) => c.ref = 1301)
  BY DEF BootRow, IsMap
<1>4. ~c.boot => c.kind # "region" /\ Young(c.badge) /\ (IsMap(c) => c.ref = DsOf(c.badge))
  BY DEF Newcomers
<1>5. NewBadge \in Nat
  BY NewBadgeFacts
<1>6. Young(c.badge) => IsPlain(c.badge) /\ c.badge >= 1011000
  BY <1>5 DEF Young
<1> QED
  BY <1>1, <1>2, <1>3, <1>4, <1>6 DEF Object

LEMMA ChildApart ==
  ASSUME ChildSound, NEW seen, Newcomers(seen), NEW c \in ToSet(child), NEW d \in ToSet(child),
         c.kind # "region", d.kind # "region"
  PROVE  (c.badge = d.badge => c = d) /\ (IsMap(c) => c.ref # d.badge)
<1>1. \A e \in {c, d} :
        /\ e.badge \in Nat /\ e.ref \in Nat
        /\ e.boot => BootRow(e, 1000) /\ e.badge <= 1101 /\ (IsMap(e) => e.ref = 1301)
        /\ ~e.boot => /\ IsPlain(e.badge) /\ e.badge >= 1011000
                      /\ IsMap(e) => e.ref = DsOf(e.badge)
  BY ChildBadges
<1>2. ASSUME c.badge = d.badge, c.boot, d.boot PROVE c = d
  <2>1. Fixed(c) = Fixed(d)
    <3>1. BootRow(c, 1000) /\ BootRow(d, 1000) /\ c.boot = TRUE /\ d.boot = TRUE
      <4>1. BootsIn(child, 1000)
        BY DEF ChildSound
      <4>2. BootRow(c, 1000) /\ c.boot = TRUE
        BY <1>2, <4>1, ChildRow
      <4>3. BootRow(d, 1000) /\ d.boot = TRUE
        BY <1>2, <4>1, ChildRow
      <4> QED
        BY <4>2, <4>3
    <3>2. PICK e \in Nat : e = 1000
      OBVIOUS
    <3>3. BootRow(c, e) /\ BootRow(d, e)
      BY <3>1, <3>2
    <3>4. /\ c.kind = d.kind /\ c.owner = d.owner /\ c.ref = d.ref /\ c.tag = d.tag /\ c.ts = d.ts
      BY <1>2, <3>3, SMTT(30) DEF BootRow
    <3> QED
      BY <1>2, <3>1, <3>4 DEF Fixed
  <2>2. child \in Seq(Object) /\ BootsIn(child, 1000)
    BY DEF ChildSound
  <2>3. PICK i \in DOMAIN child, j \in DOMAIN child : child[i] = c /\ child[j] = d
    BY <2>2, ListElements
  <2> QED
    BY <1>2, <2>1, <2>2, <2>3 DEF BootsIn
<1>3. ASSUME c.badge = d.badge, ~c.boot, ~d.boot PROVE c = d
  BY <1>3 DEF Newcomers
<1>4. c.badge = d.badge => (c.boot <=> d.boot)
  BY <1>1
<1>5. ASSUME IsMap(c), c.ref = d.badge PROVE FALSE
  <2>1. CASE c.boot
    <3>1. c.ref = 1301 /\ d.badge = 1301
      BY <1>1, <1>5, <2>1
    <3> QED
      BY <1>1, <3>1
  <2>2. CASE ~c.boot
    <3>1. IsPlain(c.badge) /\ c.ref = c.badge + 200 /\ c.badge >= 1011000 /\ c.badge \in Nat
      BY <1>1, <1>5, <2>2 DEF DsOf
    <3>2. ~d.boot
      <4>1. d.boot => d.badge \in Nat /\ d.badge <= 1101
        BY <1>1
      <4>2. d.badge = c.badge + 200
        BY <1>5, <3>1
      <4> QED
        BY <3>1, <4>1, <4>2
    <3>3. IsPlain(d.badge)
      BY <1>1, <3>2
    <3> QED
      BY <1>1, <1>5, <2>2, <3>1, <3>3, BadgesApart
  <2> QED
    BY <2>1, <2>2
<1> QED
  BY <1>2, <1>3, <1>4, <1>5

\* What a badge was translated to.
LEMMA KeyFacts ==
  ASSUME StoredWhole, ChildSound, NEW seen, Matched(seen), Twins(seen), NEW b \in DOMAIN tr
  PROVE  \E s \in seen :
           /\ b \in Keys(s)
           /\ s.boot => b \in Nat /\ tr[b] = b + 1000 /\ tr[b] <= 1301
           /\ ~s.boot => /\ IsPlain(tr[s.badge]) /\ tr[s.badge] \in Nat /\ tr[s.badge] >= 1011000
                         /\ b = s.badge \/ (b = s.ref /\ IsMap(s) /\ tr[b] = DsOf(tr[s.badge]))
<1>1. PICK s \in seen : b \in Keys(s)
  BY DEF Matched
<1>2. s \in ToSet(stored) /\ s.kind # "region"
  BY <1>1 DEF Matched
<1>3. s.boot => b \in Nat /\ tr[b] = b + 1000 /\ tr[b] <= 1301
  <2> SUFFICES ASSUME s.boot PROVE b \in Nat /\ tr[b] = b + 1000 /\ tr[b] <= 1301
    OBVIOUS
  <2>1. tr[b] = b + 1000
    BY <1>1 DEF Twins, Numbered
  <2>2. BootRow(s, 0)
    BY <1>2, StoredRow
  <2>3. s.badge \in 1 .. 101 /\ (IsMap(s) => s.ref = 301)
    BY <1>2, <2>2 DEF BootRow, IsMap
  <2>4. b \in 1 .. 301
    BY <1>1, <2>3 DEF Keys
  <2> QED
    BY <2>1, <2>4
<1>4. ~s.boot => /\ IsPlain(tr[s.badge]) /\ tr[s.badge] \in Nat /\ tr[s.badge] >= 1011000
                 /\ b = s.badge \/ (b = s.ref /\ IsMap(s) /\ tr[b] = DsOf(tr[s.badge]))
  <2> SUFFICES ASSUME ~s.boot
               PROVE  /\ IsPlain(tr[s.badge]) /\ tr[s.badge] \in Nat /\ tr[s.badge] >= 1011000
                      /\ b = s.badge \/ (b = s.ref /\ IsMap(s) /\ tr[b] = DsOf(tr[s.badge]))
    OBVIOUS
  <2>1. Young(tr[s.badge]) /\ (IsMap(s) => tr[s.ref] = DsOf(tr[s.badge]))
    BY <1>1 DEF Twins, Numbered
  <2>2. NewBadge \in Nat
    BY NewBadgeFacts
  <2>3. \A x : Young(x) => IsPlain(x) /\ x \in Nat /\ x >= 1011000
    BY <2>2 DEF Young
  <2>4. b = s.badge \/ (IsMap(s) /\ b = s.ref)
    BY <1>1 DEF Keys
  <2> QED
    BY <2>1, <2>3, <2>4
<1> QED
  BY <1>1, <1>3, <1>4

LEMMA KeysTold ==
  ASSUME StoredWhole, ChildSound, NEW seen, Matched(seen), Twins(seen),
         NEW b \in DOMAIN tr, NEW c \in DOMAIN tr, tr[b] = tr[c]
  PROVE  b = c
<1>1. PICK s \in seen :
           /\ b \in Keys(s)
           /\ s.boot => b \in Nat /\ tr[b] = b + 1000 /\ tr[b] <= 1301
           /\ ~s.boot => /\ IsPlain(tr[s.badge]) /\ tr[s.badge] \in Nat /\ tr[s.badge] >= 1011000
                         /\ b = s.badge \/ (b = s.ref /\ IsMap(s) /\ tr[b] = DsOf(tr[s.badge]))
  BY KeyFacts
<1>2. PICK t \in seen :
           /\ c \in Keys(t)
           /\ t.boot => c \in Nat /\ tr[c] = c + 1000 /\ tr[c] <= 1301
           /\ ~t.boot => /\ IsPlain(tr[t.badge]) /\ tr[t.badge] \in Nat /\ tr[t.badge] >= 1011000
                         /\ c = t.badge \/ (c = t.ref /\ IsMap(t) /\ tr[c] = DsOf(tr[t.badge]))
  BY KeyFacts
<1>3. \A x : DsOf(x) = x + 200
  BY DEF DsOf
<1> DEFINE x == tr[b]
           y == tr[s.badge]
           z == tr[t.badge]
<1>4. /\ ~s.boot => IsPlain(y) /\ y \in Nat /\ y >= 1011000 /\ (x = y \/ x = DsOf(y))
      /\ ~t.boot => IsPlain(z) /\ z \in Nat /\ z >= 1011000 /\ (x = z \/ x = DsOf(z))
      /\ s.boot => b \in Nat /\ x = b + 1000 /\ x <= 1301
      /\ t.boot => c \in Nat /\ x = c + 1000 /\ x <= 1301
  BY <1>1, <1>2
<1> HIDE DEF x, y, z
<1>5. CASE s.boot /\ t.boot
  BY <1>4, <1>5
<1>6. CASE s.boot /\ ~t.boot
  BY <1>3, <1>4, <1>6
<1>7. CASE ~s.boot /\ t.boot
  BY <1>3, <1>4, <1>7
<1>8. CASE ~s.boot /\ ~t.boot
  <2>1. y = z /\ (x = y => x # DsOf(z)) /\ (x = z => x # DsOf(y))
    BY <1>4, <1>8, BadgesApart
  <2>2. s = t
    BY <1>8, <2>1 DEF Twins, Numbered, y, z
  <2>3. tr[b] = x /\ tr[c] = x /\ tr[s.badge] = y
    BY DEF x, y
  <2>4. CASE x = y
    <3>1. x # DsOf(y)
      BY <2>1, <2>4
    <3>2. b = s.badge /\ c = s.badge
      BY <1>1, <1>2, <1>8, <2>2, <2>3, <3>1
    <3> QED
      BY <3>2
  <2>5. CASE x # y
    <3>1. b # s.badge /\ c # s.badge
      BY <2>3, <2>5
    <3>2. b = s.ref /\ c = s.ref
      BY <1>1, <1>2, <1>8, <2>2, <3>1
    <3> QED
      BY <3>2
  <2> QED
    BY <2>4, <2>5
<1> QED
  BY <1>5, <1>6, <1>7, <1>8

\* A bootstrapped object has its like in the child.
LEMMA BootTwins ==
  ASSUME StoredWhole, ChildSound, Fit, NEW seen, Matched(seen), Twins(seen),
         seen = {o \in ToSet(stored) : o.kind \notin {"region", "native"}}, NEW s \in seen, s.boot
  PROVE  \E c \in ToSet(child) : Twin(s, c)
<1>1. PICK c \in ToSet(child) : c.kind = s.kind /\ c.badge = tr[s.badge]
  BY DEF Matched
<1>2. s \in ToSet(stored) /\ s.kind # "region"
  OBVIOUS
<1>3. BootRow(s, 0) /\ s.boot = TRUE
  BY <1>2, StoredRow
<1>4. \A t \in seen : t.boot => t.badge \in DOMAIN tr /\ tr[t.badge] = t.badge + 1000
                              /\ (IsMap(t) => t.ref \in DOMAIN tr /\ tr[t.ref] = t.ref + 1000)
  BY DEF Twins, Numbered, Matched, Keys
<1>5. s.badge \in 1 .. 101
  BY <1>2, <1>3 DEF BootRow
<1>6. c.badge = s.badge + 1000 /\ c.badge <= 1101
  BY <1>1, <1>4, <1>5
<1>7. c.boot
  <2>1. ~c.boot => c.badge >= 1011000
    BY ChildBadges DEF Twins
  <2> QED
    BY <1>5, <1>6, <2>1
<1>8. BootRow(c, 1000) /\ c.boot = TRUE
  BY <1>7, ChildRow DEF ChildSound
<1>9. s.owner \in {0, 1, 2, 3} /\ (s.owner # 0 => s.owner \in DOMAIN tr /\ tr[s.owner] = s.owner + 1000)
  <2>1. s.owner \in {0, 1, 2, 3} /\ (s.owner # 0 => s.kind \in MemberKind)
    BY <1>2, <1>3 DEF BootRow, MemberKind
  <2>2. ASSUME s.owner # 0 PROVE s.owner \in DOMAIN tr /\ tr[s.owner] = s.owner + 1000
    <3>1. PICK p \in ToSet(stored) : p.kind \in OwnerKinds(s.kind) /\ p.badge = s.owner
      BY <1>2, <2>1, <2>2 DEF StoredWhole
    <3>2. p.kind \notin {"region", "native"}
      BY <3>1, KindFacts
    <3>3. p \in seen /\ p.boot
      <4>1. ~p.boot => p.badge >= 1000
        BY <3>2, StoredBoot
      <4> QED
        BY <2>1, <3>1, <3>2, <4>1
    <3> QED
      BY <1>4, <3>1, <3>3
  <2> QED
    BY <2>1, <2>2
<1>10. s.ref = 0 \/ (s.ref \in DOMAIN tr /\ tr[s.ref] = s.ref + 1000)
  <2>1. CASE s.kind = "thread"
    <3>1. PICK p \in ToSet(stored) : p.kind = "pd" /\ p.badge = 1
      BY DEF Fit
    <3>2. p \in seen /\ p.boot
      <4>1. ~p.boot => p.badge >= 1000
        BY <3>1, StoredBoot
      <4> QED
        BY <3>1, <4>1
    <3>3. s.ref = 1
      BY <1>3, <2>1 DEF BootRow
    <3> QED
      BY <1>4, <3>1, <3>2, <3>3
  <2>2. CASE IsMap(s)
    BY <1>4, <2>2
  <2>3. CASE s.kind # "thread" /\ ~IsMap(s)
    BY <1>2, <1>3, <2>3 DEF BootRow, IsMap
  <2> QED
    BY <2>1, <2>2, <2>3
<1>11. c.tag = s.tag /\ (s.owner = 0 => c.owner = 0) /\ (s.owner # 0 => c.owner = s.owner + 1000)
       /\ (s.ref = 0 => c.ref = 0) /\ (s.ref # 0 => c.ref = s.ref + 1000)
  BY <1>1, <1>2, <1>3, <1>6, <1>8, SMTT(60) DEF BootRow
<1>12. Image(0) = 0 /\ \A b \in DOMAIN tr : Image(b) = tr[b]
  BY TrFacts
<1>13. s.owner \in {0} \cup DOMAIN tr /\ c.owner = Image(s.owner)
  BY <1>9, <1>11, <1>12
<1>14. s.ref \in {0} \cup DOMAIN tr /\ c.ref = Image(s.ref)
  <2>1. CASE s.ref = 0
    BY <1>11, <1>12, <2>1
  <2>2. CASE s.ref # 0
    BY <1>10, <1>11, <1>12, <2>2
  <2> QED
    BY <2>1, <2>2
<1>15. s.badge \in DOMAIN tr
  BY <1>4
<1>16. c.boot = s.boot /\ c.kind = s.kind /\ c.tag = s.tag /\ c.badge = tr[s.badge]
  BY <1>1, <1>3, <1>8, <1>11
<1> QED
  BY <1>13, <1>14, <1>15, <1>16 DEF Twin

\* What the second walk starts from.
LEMMA AllTwins ==
  ASSUME StoredWhole, ChildSound, Fit, NEW seen, Matched(seen), Twins(seen),
         seen = {o \in ToSet(stored) : o.kind \notin {"region", "native"}}
  PROVE  Faithful /\ Rebuilt({})
<1>1. \A s \in seen : \E c \in ToSet(child) : Twin(s, c)
  <2> SUFFICES ASSUME NEW s \in seen PROVE \E c \in ToSet(child) : Twin(s, c)
    OBVIOUS
  <2>1. CASE s.boot
    BY <2>1, BootTwins
  <2>2. CASE ~s.boot
    BY <2>2 DEF Twins
  <2> QED
    BY <2>1, <2>2
<1>2. \A c \in ToSet(child) : Blank(c)
  BY DEF Twins, Newcomers
<1>3. Newcomers(seen)
  BY DEF Twins
<1>4. \A b \in DOMAIN tr : IsDataspace(tr[b]) =>
        b \in RegionMapDataspaces \/ \E s \in ToSet(stored) : s.kind = "ramds" /\ s.badge = b
  <2> SUFFICES ASSUME NEW b \in DOMAIN tr, IsDataspace(tr[b])
               PROVE  b \in RegionMapDataspaces \/ \E s \in ToSet(stored) : s.kind = "ramds" /\ s.badge = b
    OBVIOUS
  <2>1. PICK s \in seen : b \in Keys(s)
    BY DEF Matched
  <2>2. CASE IsMap(s) /\ b = s.ref
    BY <2>2 DEF RegionMapDataspaces
  <2>3. CASE b = s.badge
    <3>1. PICK c \in ToSet(child) : Twin(s, c)
      BY <1>1
    <3>2. c.kind = s.kind /\ c.badge = tr[b] /\ c.kind # "region"
      BY <2>3, <3>1 DEF Twin
    <3>3. PICK d \in ToSet(child) : (d.kind = "ramds" /\ d.badge = tr[b]) \/ (IsMap(d) /\ d.ref = tr[b])
      BY DEF IsDataspace, IsChild
    <3>4. CASE d.kind = "ramds" /\ d.badge = tr[b]
      <4>1. d.kind # "region" /\ d.badge = c.badge
        BY <3>2, <3>4
      <4>2. d = c
        BY <1>3, <3>2, <4>1, ChildApart
      <4> QED
        BY <2>3, <3>2, <3>4, <4>2
    <3>5. CASE IsMap(d) /\ d.ref = tr[b]
      <4>1. d.kind # "region"
        BY <3>5 DEF IsMap
      <4>2. d.ref # c.badge
        BY <1>3, <3>2, <3>5, <4>1, ChildApart
      <4> QED
        BY <3>2, <3>5, <4>2
    <3> QED
      BY <3>3, <3>4, <3>5
  <2> QED
    BY <2>1, <2>2, <2>3 DEF Keys
<1>5. \A c, d \in ToSet(child) : c.kind # "region" /\ d.kind # "region" /\ c.badge = d.badge => c = d
  BY <1>3, ChildApart
<1>6. \A b, c \in DOMAIN tr : tr[b] = tr[c] => b = c
  BY KeysTold
<1>9. \A s \in ToSet(stored) : s.kind \notin {"region", "native"} /\ s.boot =>
        s.badge \in DOMAIN tr /\ tr[s.badge] = s.badge + 1000
  BY DEF Twins, Numbered, Matched, Keys
<1>7. Faithful
  BY <1>4, <1>5, <1>6, <1>9 DEF Faithful
<1>8. Rebuilt({})
  BY <1>1, <1>2 DEF Rebuilt, Shown
<1> QED
  BY <1>7, <1>8

-----------------------------------------------------------------------------
(* The second walk.                                                        *)

\* What the first two translations of a step share.
LEMMA FaithfulKept ==
  ASSUME Faithful, UNCHANGED <<stored, tr>>,
         \A c \in ToSet(child') : c.kind # "region" =>
           \E d \in ToSet(child) : c.kind = d.kind /\ c.badge = d.badge /\ c.ref = d.ref,
         \A c, d \in ToSet(child') : c.kind # "region" /\ d.kind # "region" /\ c.badge = d.badge => c = d
  PROVE  Faithful'
<1>1. ASSUME NEW b, IsDataspace(b)' PROVE IsDataspace(b)
  <2>1. PICK c \in ToSet(child') : (c.kind = "ramds" /\ c.badge = b) \/ (IsMap(c) /\ c.ref = b)
    BY <1>1 DEF IsDataspace, IsChild
  <2>2. c.kind # "region"
    BY <2>1 DEF IsMap
  <2>3. PICK d \in ToSet(child) : c.kind = d.kind /\ c.badge = d.badge /\ c.ref = d.ref
    BY <2>2
  <2> QED
    BY <2>1, <2>3 DEF IsDataspace, IsChild, IsMap
<1>2. RegionMapDataspaces' = RegionMapDataspaces
  BY DEF RegionMapDataspaces
<1>3. \A b \in DOMAIN tr' : IsDataspace(tr[b])' =>
        b \in RegionMapDataspaces' \/ \E s \in ToSet(stored') : s.kind = "ramds" /\ s.badge = b
  <2> SUFFICES ASSUME NEW b \in DOMAIN tr, IsDataspace(tr[b])'
               PROVE  b \in RegionMapDataspaces \/ \E s \in ToSet(stored) : s.kind = "ramds" /\ s.badge = b
    <3>1. DOMAIN tr' = DOMAIN tr /\ tr' = tr /\ stored' = stored
      OBVIOUS
    <3> QED
      BY <1>2, <3>1
  <2>1. PICK x : x = tr[b]
    OBVIOUS
  <2>2. IsDataspace(x)'
    BY <2>1
  <2>3. IsDataspace(x)
    BY <1>1, <2>2
  <2> QED
    BY <2>1, <2>3 DEF Faithful
<1>4. \A b, c \in DOMAIN tr' : tr'[b] = tr'[c] => b = c
  BY DEF Faithful
<1>5. \A s \in ToSet(stored') : s.kind \notin {"region", "native"} /\ s.boot =>
        s.badge \in DOMAIN tr' /\ tr'[s.badge] = s.badge + 1000
  BY DEF Faithful
<1> QED
  BY <1>3, <1>4, <1>5 DEF Faithful

\* Replacing an element of a list.
LEMMA ChangedSet ==
  ASSUME NEW l, NEW o \in ToSet(l), NEW new
  PROVE  ToSet(Changed(l, o, new)) = (ToSet(l) \ {o}) \cup {new}
<1>1. DOMAIN Changed(l, o, new) = DOMAIN l
  BY DEF Changed
<1>2. \A i \in DOMAIN l : Changed(l, o, new)[i] = IF l[i] = o THEN new ELSE l[i]
  BY DEF Changed
<1>3. ToSet(l) = {l[i] : i \in DOMAIN l}
  BY DEF ToSet
<1>4. ToSet(Changed(l, o, new)) = {Changed(l, o, new)[i] : i \in DOMAIN l}
  BY <1>1 DEF ToSet
<1>5. new \in ToSet(Changed(l, o, new))
  BY <1>2, <1>3, <1>4
<1> QED
  BY <1>2, <1>3, <1>4, <1>5

LEMMA StateRebuilt ==
  ASSUME StoredWhole, ChildSound, AllMatched, Faithful, NEW done, Rebuilt(done),
         NEW s \in ToSet(stored), s = S, s \notin done, s.kind \notin {"region", "native", "ramds"},
         StateRestored, SighFound, UNCHANGED <<stored, tr>>
  PROVE  Faithful' /\ Rebuilt(done \cup {s})'
<1>1. PICK c \in ToSet(child) : Twin(s, c) /\ Blank(c)
  BY DEF Rebuilt, Shown
<1>2. /\ Counterpart \in ToSet(child) /\ Counterpart \in Object
      /\ Counterpart.kind = s.kind /\ Counterpart.badge = tr[s.badge]
  BY CounterpartFacts
<1>3. Counterpart = c
  BY <1>1, <1>2 DEF Faithful, Twin
<1>4. c \in Object /\ c.kind = s.kind /\ c.badge = tr[s.badge] /\ s.badge \in DOMAIN tr
  BY <1>1, <1>2, <1>3 DEF Twin
<1>X. PICK sigh, mode, quota : /\ sigh = IF s.sigh = 0 THEN c.sigh ELSE tr[s.sigh]
                               /\ mode = IF s.mode = 0 THEN c.mode ELSE s.mode
                               /\ quota = c.quota + s.quota
  OBVIOUS
<1>Y. PICK new : new = [c EXCEPT !.sigh = sigh, !.mode = mode, !.quota = quota]
  OBVIOUS
<1>5. child' = Changed(child, c, new)
  <2>1. new = [c EXCEPT !.sigh = IF s.sigh = 0 THEN @ ELSE tr[s.sigh],
                        !.mode = IF s.mode = 0 THEN @ ELSE s.mode,
                        !.quota = @ + s.quota]
    BY <1>4, <1>X, <1>Y DEF Object
  <2> QED
    BY <1>3, <2>1 DEF StateRestored
<1>6. /\ new.kind = c.kind /\ new.badge = c.badge /\ new.owner = c.owner /\ new.ref = c.ref
      /\ new.tag = c.tag /\ new.boot = c.boot /\ new.sigh = sigh /\ new.mode = mode /\ new.quota = quota
  BY <1>4, <1>Y DEF Object
<1>7. sigh = Image(s.sigh) /\ mode = s.mode /\ quota = s.quota
  <2>1. c.sigh = 0 /\ c.mode = 0 /\ c.quota = 0
    BY <1>1 DEF Blank
  <2>2. s.quota \in Nat
    BY DEF StoredWhole, Object
  <2>3. s.sigh # 0 => s.sigh \in DOMAIN tr
    BY DEF SighFound
  <2> QED
    BY <1>X, <2>1, <2>2, <2>3 DEF Image
<1>8. ToSet(child') = (ToSet(child) \ {c}) \cup {new}
  BY <1>5, ChangedSet
<1>9. \A b : Image(b)' = Image(b)
  BY DEF Image
<1>10. \A t, d : Twin(t, d) => Twin(t, d)'
  BY <1>9 DEF Twin
<1>11. ASSUME NEW t \in ToSet(stored), t.kind \notin {"region", "native"}
       PROVE  \E d \in ToSet(child') : Twin(t, d)' /\ Shown(t, d, t \in done \cup {s})'
  <2>1. CASE t = s
    <3>1. Twin(s, new)
      BY <1>1, <1>6 DEF Twin
    <3>2. Shown(s, new, TRUE)'
      BY <1>6, <1>7, <1>9 DEF Shown
    <3>3. (t \in done \cup {s}) = TRUE
      BY <2>1
    <3>4. Twin(t, new)' /\ Shown(t, new, t \in done \cup {s})'
      BY <1>10, <2>1, <3>1, <3>2, <3>3
    <3> QED
      BY <1>8, <3>4
  <2>2. CASE t # s
    <3>1. PICK d \in ToSet(child) : Twin(t, d) /\ Shown(t, d, t \in done)
      BY <1>11 DEF Rebuilt
    <3>2. d # c
      <4>1. d = c => t.badge = s.badge
        BY <1>1, <3>1 DEF Twin, Faithful
      <4>2. t.badge # s.badge
        BY <1>11, <2>2 DEF StoredWhole
      <4> QED
        BY <4>1, <4>2
    <3>3. (t \in done \cup {s}) = (t \in done)
      BY <2>2
    <3>4. Shown(t, d, t \in done)'
      BY <1>9, <3>1 DEF Shown
    <3>5. Shown(t, d, t \in done \cup {s})'
      BY <3>3, <3>4
    <3> QED
      BY <1>8, <1>10, <3>1, <3>2, <3>5
  <2> QED
    BY <2>1, <2>2
<1>12. ASSUME NEW t \in done \cup {s}, t.kind = "region"
       PROVE  \E d \in ToSet(child') : RegionTwin(t, d)'
  <2>1. PICK d \in ToSet(child) : RegionTwin(t, d)
    BY <1>12 DEF Rebuilt
  <2>2. d # c
    BY <1>4, <2>1 DEF RegionTwin
  <2>3. RegionTwin(t, d)'
    BY <1>9, <2>1 DEF RegionTwin
  <2> QED
    BY <1>8, <2>2, <2>3
<1>13. \A d \in ToSet(child') : d.kind = "region" => Blank(d)
  BY <1>4, <1>6, <1>8 DEF Rebuilt
<1>14. Rebuilt(done \cup {s})'
  BY <1>11, <1>12, <1>13 DEF Rebuilt
<1>15. Faithful'
  <2>1. \A d \in ToSet(child') : d.kind # "region" =>
          \E e \in ToSet(child) : d.kind = e.kind /\ d.badge = e.badge /\ d.ref = e.ref
    BY <1>1, <1>6, <1>8
  <2>2. \A d, e \in ToSet(child') : d.kind # "region" /\ e.kind # "region" /\ d.badge = e.badge => d = e
    <3>1. \A d \in ToSet(child) \ {c} : d.kind # "region" => d.badge # c.badge
      BY <1>1, <1>4 DEF Faithful
    <3>2. \A d, e \in ToSet(child) : d.kind # "region" /\ e.kind # "region" /\ d.badge = e.badge => d = e
      BY DEF Faithful
    <3> QED
      BY <1>6, <1>8, <3>1, <3>2
  <2> QED
    BY <2>1, <2>2, FaithfulKept
<1> QED
  BY <1>14, <1>15

\* A dataspace is copied back later; the child stays as it is.
LEMMA RamdsRebuilt ==
  ASSUME Faithful, NEW done, Rebuilt(done), NEW s, s.kind = "ramds", UNCHANGED <<stored, tr, child>>
  PROVE  Faithful' /\ Rebuilt(done \cup {s})'
<1>1. \A t \in ToSet(stored) : t.kind # "ramds" => (t \in done \cup {s} <=> t \in done)
  OBVIOUS
<1>2. Faithful'
  BY FaithfulKept DEF Faithful
<1>3. \A b : Image(b)' = Image(b)
  BY DEF Image
<1>4. ASSUME NEW t \in ToSet(stored), t.kind \notin {"region", "native"}
      PROVE  \E c \in ToSet(child') : Twin(t, c)' /\ Shown(t, c, t \in done \cup {s})'
  <2>1. PICK c \in ToSet(child) : Twin(t, c) /\ Shown(t, c, t \in done)
    BY <1>4 DEF Rebuilt
  <2>2. Twin(t, c)'
    BY <1>3, <2>1 DEF Twin
  <2>3. Shown(t, c, t \in done \cup {s})'
    BY <1>1, <1>3, <2>1 DEF Shown
  <2> QED
    BY <2>1, <2>2, <2>3
<1>5. ASSUME NEW t \in done \cup {s}, t.kind = "region"
      PROVE  \E c \in ToSet(child') : RegionTwin(t, c)'
  <2>1. PICK c \in ToSet(child) : RegionTwin(t, c)
    BY <1>5 DEF Rebuilt
  <2>2. RegionTwin(t, c)'
    BY <1>3, <2>1 DEF RegionTwin
  <2> QED
    BY <2>1, <2>2
<1>6. \A c \in ToSet(child') : c.kind = "region" => Blank(c)
  BY DEF Rebuilt
<1> QED
  BY <1>2, <1>4, <1>5, <1>6 DEF Rebuilt

\* A region of the bootstrap has its like in the child already.
LEMMA BootRegion ==
  ASSUME StoredWhole, ChildSound, Fit, Faithful, NEW done, Rebuilt(done),
         NEW s \in ToSet(stored), s.kind = "region", s.boot
  PROVE  (\E c \in ToSet(child) : RegionTwin(s, c)) /\ s.ref \in {5, 6}
<1>1. BootRow(s, 0) /\ s.boot = TRUE
  BY StoredRow
<1>2. \/ s.owner = 101 /\ s.ref = 6 /\ s.tag = 1
      \/ s.owner = 101 /\ s.ref = 5 /\ s.tag = 2
  BY <1>1 DEF BootRow
<1>3. \A b \in {5, 6, 101} : \E p \in ToSet(stored) : p.kind \notin {"region", "native"} /\ p.boot /\ p.badge = b
  <2>1. PICK p \in ToSet(stored) : p.kind \in OwnerKinds(s.kind) /\ p.badge = s.owner
    BY DEF StoredWhole, MemberKind
  <2>2. p.kind \notin {"region", "native"}
    BY <2>1, KindFacts
  <2>3. p.boot
    <3>1. ~p.boot => p.badge >= 1000
      BY <2>2, StoredBoot
    <3> QED
      BY <1>2, <2>1, <3>1
  <2> QED
    BY <1>2, <2>1, <2>2, <2>3 DEF Fit
<1>4. \A b \in {5, 6, 101} : Image(b) = b + 1000
  BY <1>3 DEF Faithful, Image
<1>5. BootsIn(child, 1000)
  BY DEF ChildSound
<1>6. PICK d \in Nat : d = 1000
  OBVIOUS
<1>7. /\ <<"region", 0, d + 101, d + 6, 1, 9, TRUE>> \in BootTable(d)
      /\ <<"region", 0, d + 101, d + 5, 2, 10, TRUE>> \in BootTable(d)
  BY DEF BootTable
<1>8. /\ \E c \in ToSet(child) : Fixed(c) = <<"region", 0, d + 101, d + 6, 1, 9, TRUE>>
      /\ \E c \in ToSet(child) : Fixed(c) = <<"region", 0, d + 101, d + 5, 2, 10, TRUE>>
  <2>1. BootsIn(child, d)
    BY <1>5, <1>6
  <2>2. \A t \in BootTable(d) : \E c \in ToSet(child) : c.boot /\ Fixed(c) = t
    BY <2>1, BootsThere
  <2> QED
    BY <1>7, <2>2
<1>9. \A c, owner, ref, tag, ts : Fixed(c) = <<"region", 0, owner, ref, tag, ts, TRUE>> =>
        c.kind = "region" /\ c.owner = owner /\ c.ref = ref /\ c.tag = tag /\ c.boot = TRUE
  <2> TAKE c, owner, ref, tag, ts
  <2> HAVE Fixed(c) = <<"region", 0, owner, ref, tag, ts, TRUE>>
  <2>1. /\ Fixed(c)[1] = "region" /\ Fixed(c)[3] = owner
        /\ Fixed(c)[4] = ref /\ Fixed(c)[5] = tag /\ Fixed(c)[7] = TRUE
    OBVIOUS
  <2> QED
    BY <2>1, FixedParts
<1>10. \E c \in ToSet(child) : c.kind = "region" /\ c.boot = TRUE /\ c.owner = s.owner + 1000
                              /\ c.ref = s.ref + 1000 /\ c.tag = s.tag
  <2>1. CASE s.owner = 101 /\ s.ref = 6 /\ s.tag = 1
    <3>1. PICK c \in ToSet(child) : Fixed(c) = <<"region", 0, d + 101, d + 6, 1, 9, TRUE>>
      BY <1>8
    <3>2. c.kind = "region" /\ c.owner = d + 101 /\ c.ref = d + 6 /\ c.tag = 1 /\ c.boot = TRUE
      BY <1>9, <3>1
    <3> QED
      BY <1>6, <2>1, <3>2
  <2>2. CASE s.owner = 101 /\ s.ref = 5 /\ s.tag = 2
    <3>1. PICK c \in ToSet(child) : Fixed(c) = <<"region", 0, d + 101, d + 5, 2, 10, TRUE>>
      BY <1>8
    <3>2. c.kind = "region" /\ c.owner = d + 101 /\ c.ref = d + 5 /\ c.tag = 2 /\ c.boot = TRUE
      BY <1>9, <3>1
    <3> QED
      BY <1>6, <2>2, <3>2
  <2> QED
    BY <1>2, <2>1, <2>2
<1>11. PICK c \in ToSet(child) : c.kind = "region" /\ c.boot = TRUE /\ c.owner = s.owner + 1000
                              /\ c.ref = s.ref + 1000 /\ c.tag = s.tag
  BY <1>10
<1>12. c.owner = Image(s.owner) /\ c.ref = Image(s.ref)
  BY <1>2, <1>4, <1>11
<1>13. Blank(c)
  BY <1>11 DEF Rebuilt
<1>14. RegionTwin(s, c)
  BY <1>1, <1>11, <1>12, <1>13 DEF RegionTwin
<1> QED
  BY <1>2, <1>14

LEMMA RegionRebuilt ==
  ASSUME StoredWhole, ChildSound, AllMatched, Fit, Faithful, NEW done, Rebuilt(done),
         NEW s \in ToSet(stored), s = S, s.kind = "region", RestoreRegion, rsPc = "state", rsPc' = "state"
  PROVE  Faithful' /\ Rebuilt(done \cup {s})'
<1>1. UNCHANGED <<stored, tr>>
  BY DEF RestoreRegion, outside, ckVars
<1>2. \A b : Image(b)' = Image(b)
  BY <1>1 DEF Image
<1>3. \A t : t.kind # "region" => (t \in done \cup {s} <=> t \in done)
  OBVIOUS
<1>4. \/ s.boot /\ UNCHANGED child
      \/ ~s.boot /\ s.ref \in DOMAIN tr
           /\ child' = Cons(Obj("region", 0, tr[s.owner], tr[s.ref], s.tag), child)
  BY DEF RestoreRegion
<1>5. PICK c : c = Obj("region", 0, tr[s.owner], tr[s.ref], s.tag)
  OBVIOUS
<1>6. c.kind = "region" /\ ~c.boot /\ c.owner = tr[s.owner] /\ c.ref = tr[s.ref] /\ c.tag = s.tag
      /\ c.boot = FALSE /\ c.sigh = 0 /\ c.mode = 0 /\ c.quota = 0
  BY <1>5 DEF Obj
<1>7. s.owner \in DOMAIN tr
  <2>1. PICK p \in ToSet(stored) : p.kind \in OwnerKinds(s.kind) /\ p.badge = s.owner
    BY DEF StoredWhole, MemberKind
  <2>2. p.kind \notin {"region", "native"}
    BY <2>1, KindFacts
  <2> QED
    BY <2>1, <2>2, TrNumbers
<1>8. /\ s.boot => child' = child /\ ToSet(child') = ToSet(child)
      /\ ~s.boot => s.ref \in DOMAIN tr /\ ToSet(child') = {c} \cup ToSet(child)
  <2>1. CASE s.boot
    BY <1>4, <2>1
  <2>2. CASE ~s.boot
    <3>1. tr[s.owner] \in Nat /\ tr[s.ref] \in Nat /\ s.tag \in Nat
      BY <1>4, <1>7, <2>2, TrNumbers DEF StoredWhole, Object
    <3>2. c \in Object
      BY <1>5, <3>1 DEF Obj, Object, Kind, MemberKind
    <3>3. ToSet(Cons(c, child)) = {c} \cup ToSet(child)
      BY <3>2, ConsFacts DEF ChildSound
    <3> QED
      BY <1>4, <1>5, <2>2, <3>3
  <2> QED
    BY <2>1, <2>2
<1>9. \A d \in ToSet(child) : d \in ToSet(child')
  BY <1>8
<1>10. \A d \in ToSet(child') : d \in ToSet(child) \/ (d = c /\ ~s.boot)
  BY <1>8
<1>11. \E d \in ToSet(child') : RegionTwin(s, d)'
  <2>1. CASE s.boot
    <3>1. PICK d \in ToSet(child) : RegionTwin(s, d)
      BY <2>1, BootRegion
    <3>2. RegionTwin(s, d)'
      BY <1>2, <3>1 DEF RegionTwin
    <3> QED
      BY <1>9, <3>2
  <2>2. CASE ~s.boot
    <3>1. tr[s.owner] = Image(s.owner) /\ tr[s.ref] = Image(s.ref)
      BY <1>7, <1>8, <2>2, TrNumbers
    <3>2. s.boot = FALSE
      BY <2>2, StoredBoot
    <3>3. RegionTwin(s, c)
      BY <1>6, <3>1, <3>2 DEF RegionTwin, Blank
    <3>4. RegionTwin(s, c)'
      BY <1>2, <3>3 DEF RegionTwin
    <3> QED
      BY <1>8, <2>2, <3>4
  <2> QED
    BY <2>1, <2>2
<1>12. ASSUME NEW t \in ToSet(stored), t.kind \notin {"region", "native"}
       PROVE  \E d \in ToSet(child') : Twin(t, d)' /\ Shown(t, d, t \in done \cup {s})'
  <2>1. PICK d \in ToSet(child) : Twin(t, d) /\ Shown(t, d, t \in done)
    BY <1>12 DEF Rebuilt
  <2>2. Twin(t, d)'
    BY <1>1, <1>2, <2>1 DEF Twin
  <2>3. Shown(t, d, t \in done \cup {s})'
    BY <1>2, <1>3, <1>12, <2>1 DEF Shown
  <2> QED
    BY <1>9, <2>2, <2>3
<1>13. ASSUME NEW t \in done \cup {s}, t.kind = "region"
       PROVE  \E d \in ToSet(child') : RegionTwin(t, d)'
  <2>1. CASE t = s
    BY <1>11, <2>1
  <2>2. CASE t \in done
    <3>1. PICK d \in ToSet(child) : RegionTwin(t, d)
      BY <1>13, <2>2 DEF Rebuilt
    <3>2. RegionTwin(t, d)'
      BY <1>2, <3>1 DEF RegionTwin
    <3> QED
      BY <1>9, <3>2
  <2> QED
    BY <2>1, <2>2
<1>14. \A d \in ToSet(child') : d.kind = "region" => Blank(d)
  BY <1>6, <1>10 DEF Rebuilt, Blank
<1>15. Rebuilt(done \cup {s})'
  BY <1>1, <1>12, <1>13, <1>14 DEF Rebuilt
<1>16. Faithful'
  <2>1. \A d \in ToSet(child') : d.kind # "region" => d \in ToSet(child)
    BY <1>6, <1>10
  <2>2. \A d \in ToSet(child') : d.kind # "region" =>
          \E e \in ToSet(child) : d.kind = e.kind /\ d.badge = e.badge /\ d.ref = e.ref
    BY <2>1
  <2>3. \A d, e \in ToSet(child') : d.kind # "region" /\ e.kind # "region" /\ d.badge = e.badge => d = e
    BY <2>1 DEF Faithful
  <2> QED
    BY <1>1, <2>2, <2>3, FaithfulKept
<1> QED
  BY <1>15, <1>16

\* What is to be copied back once the infos in done have been treated.
Planned == [orig : Nat, copy : Nat, headOnly : {FALSE}]

MemHolds(done) ==
  /\ mem \in Seq(Planned)
  /\ \A i \in DOMAIN mem :
       \E s \in done : s.kind = "ramds" /\ mem[i].copy = s.badge /\ mem[i].orig = tr[s.badge]
  /\ \A i, j \in DOMAIN mem : mem[i].copy = mem[j].copy => i = j
  /\ \A s \in done : s.kind = "ramds" => InMemory(s.badge)

LEMMA MemKept ==
  ASSUME NEW done, MemHolds(done), NEW s, s.kind # "ramds", UNCHANGED <<mem, tr>>
  PROVE  MemHolds(done \cup {s})'
<1>1. \A b : InMemory(b)' = InMemory(b)
  BY DEF InMemory
<1>2. \A t \in done \cup {s} : t.kind = "ramds" => t \in done
  OBVIOUS
<1> QED
  BY <1>1, <1>2 DEF MemHolds

LEMMA RamdsCopied ==
  ASSUME StoredWhole, ChildSound, AllMatched, NEW done, done \subseteq ToSet(stored), MemHolds(done),
         NEW s \in ToSet(stored), s = S, s \notin done, s.kind = "ramds", RestoreRamds
  PROVE  MemHolds(done \cup {s})'
<1>1. mem' = Cons(ToRestore(tr[s.badge], s.badge), mem) /\ tr' = tr
  BY DEF RestoreRamds
<1>2. s.badge \in Nat /\ tr[s.badge] \in Nat
  BY TrNumbers DEF StoredWhole, Object
<1>3. PICK e : e = ToRestore(tr[s.badge], s.badge)
  OBVIOUS
<1>4. e \in Planned /\ e.orig = tr[s.badge] /\ e.copy = s.badge
  BY <1>2, <1>3 DEF ToRestore, Planned
<1>5. mem \in Seq(Planned) /\ Len(mem) \in Nat /\ DOMAIN mem = 1 .. Len(mem)
  BY ListElements DEF MemHolds
<1>6. /\ Cons(e, mem) \in Seq(Planned) /\ DOMAIN Cons(e, mem) = 1 .. Len(mem) + 1
      /\ Cons(e, mem)[1] = e /\ \A i \in 2 .. Len(mem) + 1 : Cons(e, mem)[i] = mem[i - 1]
  BY <1>4, <1>5, ConsFacts
<1>7. /\ mem' \in Seq(Planned) /\ DOMAIN mem' = 1 .. Len(mem) + 1
      /\ mem'[1] = e /\ \A i \in 2 .. Len(mem) + 1 : i - 1 \in DOMAIN mem /\ mem'[i] = mem[i - 1]
  <2>1. mem' = Cons(e, mem)
    BY <1>1, <1>3
  <2>2. \A i \in 2 .. Len(mem) + 1 : i - 1 \in 1 .. Len(mem)
    BY <1>5
  <2> QED
    BY <1>5, <1>6, <2>1, <2>2
<1>8. \A i \in DOMAIN mem : mem[i].copy # s.badge
  <2> SUFFICES ASSUME NEW i \in DOMAIN mem, mem[i].copy = s.badge PROVE FALSE
    OBVIOUS
  <2>1. PICK t \in done : t.kind = "ramds" /\ mem[i].copy = t.badge
    BY DEF MemHolds
  <2>2. t = s
    BY <2>1 DEF StoredWhole
  <2> QED
    BY <2>1, <2>2
<1>9. \A i \in DOMAIN mem' : i = 1 \/ i \in 2 .. Len(mem) + 1
  BY <1>5, <1>7
<1>10. \A i \in DOMAIN mem' :
         \E t \in done \cup {s} : t.kind = "ramds" /\ mem'[i].copy = t.badge /\ mem'[i].orig = tr'[t.badge]
  <2> SUFFICES ASSUME NEW i \in DOMAIN mem'
               PROVE  \E t \in done \cup {s} : t.kind = "ramds" /\ mem'[i].copy = t.badge /\ mem'[i].orig = tr'[t.badge]
    OBVIOUS
  <2>1. CASE i = 1
    BY <1>1, <1>4, <1>7, <2>1
  <2>2. CASE i \in 2 .. Len(mem) + 1
    <3>1. i - 1 \in DOMAIN mem /\ mem'[i] = mem[i - 1]
      BY <1>7, <2>2
    <3>2. PICK t \in done : t.kind = "ramds" /\ mem[i - 1].copy = t.badge /\ mem[i - 1].orig = tr[t.badge]
      BY <3>1 DEF MemHolds
    <3> QED
      BY <1>1, <3>1, <3>2
  <2> QED
    BY <1>9, <2>1, <2>2
<1>11. \A i, j \in DOMAIN mem' : mem'[i].copy = mem'[j].copy => i = j
  <2> SUFFICES ASSUME NEW i \in DOMAIN mem', NEW j \in DOMAIN mem', mem'[i].copy = mem'[j].copy
               PROVE  i = j
    OBVIOUS
  <2>1. \A k \in 2 .. Len(mem) + 1 : mem'[k].copy # s.badge
    BY <1>7, <1>8
  <2>2. CASE i = 1 \/ j = 1
    BY <1>4, <1>7, <1>9, <2>1, <2>2
  <2>3. CASE i \in 2 .. Len(mem) + 1 /\ j \in 2 .. Len(mem) + 1
    <3>1. i - 1 \in DOMAIN mem /\ j - 1 \in DOMAIN mem /\ mem[i - 1].copy = mem[j - 1].copy
      BY <1>7, <2>3
    <3>2. i - 1 = j - 1
      BY <3>1 DEF MemHolds
    <3> QED
      BY <1>5, <2>3, <3>2
  <2> QED
    BY <1>9, <2>2, <2>3
<1>12. \A t \in done \cup {s} : t.kind = "ramds" => InMemory(t.badge)'
  <2> SUFFICES ASSUME NEW t \in done \cup {s}, t.kind = "ramds"
               PROVE  \E i \in DOMAIN mem' : mem'[i].copy = t.badge
    BY DEF InMemory
  <2>1. CASE t = s
    <3>1. 1 \in DOMAIN mem'
      BY <1>5, <1>7
    <3> QED
      BY <1>4, <1>7, <2>1, <3>1
  <2>2. CASE t \in done
    <3>1. PICK i \in DOMAIN mem : mem[i].copy = t.badge
      BY <2>2 DEF MemHolds, InMemory
    <3>2. i + 1 \in 2 .. Len(mem) + 1 /\ i + 1 - 1 = i
      BY <1>5, <3>1
    <3>3. mem'[i + 1] = mem[i] /\ i + 1 \in DOMAIN mem'
      BY <1>5, <1>7, <3>2
    <3> QED
      BY <3>1, <3>3
  <2> QED
    BY <2>1, <2>2
<1> QED
  BY <1>7, <1>10, <1>11, <1>12 DEF MemHolds

\* A region adds nothing: its dataspace is noted already, or is a region map's.
LEMMA RegionCopied ==
  ASSUME StoredWhole, ChildSound, Fit, Faithful, NEW done, Rebuilt(done), MemHolds(done),
         NEW s \in ToSet(stored), s = S, s.kind = "region", RestoreRegion,
         \A t \in ToSet(stored) : t.kind = "ramds" => t \in done
  PROVE  MemHolds(done \cup {s})'
<1>1. tr' = tr
  BY DEF RestoreRegion
<1>2. mem' = mem \/ \E ds : MemoryAdded(ds) /\ (s.boot \/ (s.ref \in DOMAIN tr /\ IsDataspace(tr[s.ref])))
  BY DEF RestoreRegion
<1>3. ASSUME NEW ds, MemoryAdded(ds), s.boot \/ (s.ref \in DOMAIN tr /\ IsDataspace(tr[s.ref]))
      PROVE  mem' = mem
  <2>1. s.ref \in RegionMapDataspaces \/ \E t \in ToSet(stored) : t.kind = "ramds" /\ t.badge = s.ref
    <3>1. CASE s.boot
      <4>1. s.ref \in {5, 6}
        BY <3>1, BootRegion
      <4> QED
        BY <4>1 DEF Fit
    <3>2. CASE s.ref \in DOMAIN tr /\ IsDataspace(tr[s.ref])
      BY <3>2 DEF Faithful
    <3> QED
      BY <1>3, <3>1, <3>2
  <2>2. s.ref \in RegionMapDataspaces \/ InMemory(s.ref)
    BY <2>1 DEF MemHolds
  <2> QED
    BY <1>3, <2>2 DEF MemoryAdded
<1>4. mem' = mem
  BY <1>2, <1>3
<1> QED
  BY <1>1, <1>4, MemKept

\* The second walk under way.
Rebuilding ==
  \E w, n, done : /\ w = StateWalk /\ n \in Nat /\ Rest(n, w) /\ done = {w[i] : i \in 1 .. n}
                  /\ Faithful /\ Rebuilt(done) /\ MemHolds(done)

LEMMA RebuildingStarts ==
  ASSUME StoredWhole, ChildSound, Fit, Twinning, IdentifyEnd, mem = <<>>, UNCHANGED stored
  PROVE  Rebuilding'
<1>1. PICK w, n, seen : /\ w = IdentifyWalk /\ n \in Nat /\ Rest(n, w)
                        /\ seen = {w[i] : i \in 1 .. n} /\ Matched(seen) /\ Twins(seen)
  BY DEF Twinning
<1>2. todo = <<>> /\ todo' = StateWalk /\ UNCHANGED <<child, tr, mem>>
  BY DEF IdentifyEnd, memVars
<1>3. w \in Seq(Object) /\ ToSet(w) = {o \in ToSet(stored) : o.kind \notin {"region", "native"}}
  BY <1>1, IdentifyWalkFacts
<1>4. n = Len(w)
  BY <1>1, <1>2, <1>3, RestAll
<1>5. seen = {o \in ToSet(stored) : o.kind \notin {"region", "native"}}
  <2>1. DOMAIN w = 1 .. Len(w)
    BY <1>3, LenProperties
  <2> QED
    BY <1>1, <1>3, <1>4, <2>1 DEF ToSet
<1>6. Faithful /\ Rebuilt({})
  BY <1>1, <1>5, AllTwins
<1>7. Faithful'
  BY <1>2, <1>6, FaithfulKept DEF Faithful
<1>8. PICK none : none = {}
  OBVIOUS
<1>9. Rebuilt(none)'
  BY <1>2, <1>6, <1>8 DEF Rebuilt, Twin, Shown, RegionTwin, Image
<1>10. MemHolds(none)'
  <2>1. <<>> \in Seq(Planned) /\ DOMAIN <<>> = {}
    BY EmptySeq
  <2> QED
    BY <1>2, <1>8, <2>1 DEF MemHolds
<1>11. PICK v \in Seq(Object) : v = StateWalk
  BY StateWalkFacts
<1>12. Rest(0, v)'
  BY <1>2, <1>11, RestStart
<1>13. v = StateWalk' /\ 0 \in Nat /\ none = {v[i] : i \in 1 .. 0}
  BY <1>8, <1>11, WalksSame
<1> QED
  BY <1>7, <1>9, <1>10, <1>12, <1>13 DEF Rebuilding

LEMMA RebuildingStep ==
  ASSUME StoredWhole, ChildSound, AllMatched, Fit, Rebuilding, Restore, rsPc' = "state", UNCHANGED stored
  PROVE  Rebuilding'
<1>1. PICK w, n, done : /\ w = StateWalk /\ n \in Nat /\ Rest(n, w) /\ done = {w[i] : i \in 1 .. n}
                        /\ Faithful /\ Rebuilt(done) /\ MemHolds(done)
  BY DEF Rebuilding
<1>2. \E kind : Visit("state", kind)
  BY DEF Restore, RestoreRam, RestoreRamds, RestorePd, RestoreSpace, RestoreCpu, RestoreThread,
     RestoreRm, RestoreMap, RestoreRegion, RestoreLog, RestoreTimer, RestoreObject
<1>3. rsPc = "state" /\ todo # <<>> /\ todo' = Tail(todo)
  BY <1>2 DEF Visit
<1>4. /\ w \in Seq(Object) /\ EachOnce(w) /\ Ahead(w, {"ramds"}, {"region"})
      /\ ToSet(w) = {o \in ToSet(stored) : o.kind \notin {"native", "source", "context"}}
  BY <1>1, StateWalkFacts, StateWalkOnce
<1>5. /\ n + 1 \in 1 .. Len(w) /\ Len(w) \in Nat /\ S = w[n + 1] /\ S \in ToSet(w) /\ S \in Object
      /\ Rest(n + 1, w)'
  BY <1>1, <1>3, <1>4, RestNext
<1>6. PICK s : s = S
  OBVIOUS
<1>7. s \in ToSet(stored) /\ s.kind # "native"
  BY <1>4, <1>5, <1>6
<1>8. s \notin done
  <2> SUFFICES ASSUME NEW i \in 1 .. n, w[i] = w[n + 1] PROVE FALSE
    BY <1>1, <1>5, <1>6
  <2>1. i \in 1 .. Len(w) /\ i # n + 1
    BY <1>1, <1>5
  <2> QED
    BY <1>4, <1>5, <2>1 DEF EachOnce
<1>9. DOMAIN w = 1 .. Len(w) /\ ToSet(w) = {w[i] : i \in 1 .. Len(w)}
  <2>1. DOMAIN w = 1 .. Len(w)
    BY <1>4, LenProperties
  <2> QED
    BY <2>1 DEF ToSet
<1>10. done \subseteq ToSet(stored)
  <2>1. \A i \in 1 .. n : i \in 1 .. Len(w)
    BY <1>1, <1>5
  <2> QED
    BY <1>1, <1>4, <1>9, <2>1
<1>11. ASSUME \E kind \in {"ram", "pd", "space", "cpu", "thread", "rm", "map", "log", "timer"} : RestoreObject(kind)
       PROVE  Faithful' /\ Rebuilt(done \cup {s})' /\ MemHolds(done \cup {s})'
  <2>1. /\ s.kind \notin {"region", "native", "ramds"} /\ StateRestored
        /\ UNCHANGED <<tr, mem>>
    BY <1>6, <1>11 DEF RestoreObject, Visit, S, restUnchanged, memVars
  <2>2. SighFound
    BY <1>3, <2>1 DEF StateRestored
  <2>3. Faithful' /\ Rebuilt(done \cup {s})'
    BY <1>1, <1>6, <1>7, <1>8, <2>1, <2>2, StateRebuilt
  <2>4. MemHolds(done \cup {s})'
    BY <1>1, <2>1, MemKept
  <2> QED
    BY <2>3, <2>4
<1>12. ASSUME RestoreRamds
       PROVE  Faithful' /\ Rebuilt(done \cup {s})' /\ MemHolds(done \cup {s})'
  <2>1. s.kind = "ramds" /\ UNCHANGED <<tr, child>>
    BY <1>6, <1>12 DEF RestoreRamds, Visit, S
  <2>2. Faithful' /\ Rebuilt(done \cup {s})'
    BY <1>1, <2>1, RamdsRebuilt
  <2>3. MemHolds(done \cup {s})'
    BY <1>1, <1>6, <1>7, <1>8, <1>10, <1>12, <2>1, RamdsCopied
  <2> QED
    BY <2>2, <2>3
<1>13. ASSUME RestoreRegion
       PROVE  Faithful' /\ Rebuilt(done \cup {s})' /\ MemHolds(done \cup {s})'
  <2>1. s.kind = "region"
    BY <1>6, <1>13 DEF RestoreRegion, Visit, S
  <2>2. Faithful' /\ Rebuilt(done \cup {s})'
    BY <1>1, <1>3, <1>6, <1>7, <1>13, <2>1, RegionRebuilt
  <2>3. ASSUME NEW t \in ToSet(stored), t.kind = "ramds" PROVE t \in done
    <3>1. PICK j \in 1 .. Len(w) : w[j] = t
      BY <1>4, <1>9, <2>3
    <3>2. j < n + 1
      BY <1>4, <1>5, <1>6, <2>1, <2>3, <3>1 DEF Ahead
    <3>3. j \in 1 .. n
      BY <1>1, <3>1, <3>2
    <3> QED
      BY <1>1, <3>1, <3>3
  <2>4. MemHolds(done \cup {s})'
    BY <1>1, <1>6, <1>7, <1>13, <2>1, <2>3, RegionCopied
  <2> QED
    BY <2>2, <2>4
<1>14. Faithful' /\ Rebuilt(done \cup {s})' /\ MemHolds(done \cup {s})'
  BY <1>11, <1>12, <1>13 DEF Restore, RestoreRam, RestorePd, RestoreSpace, RestoreCpu,
     RestoreThread, RestoreRm, RestoreMap, RestoreLog, RestoreTimer
<1>15. done \cup {s} = {w[i] : i \in 1 .. n + 1}
  <2>1. 1 .. n + 1 = 1 .. n \cup {n + 1}
    BY <1>1
  <2> QED
    BY <1>1, <1>5, <1>6, <2>1
<1>16. PICK more : more = done \cup {s}
  OBVIOUS
<1>17. w = StateWalk' /\ n + 1 \in Nat /\ more = {w[i] : i \in 1 .. n + 1}
  <2>1. StateWalk' = StateWalk
    BY <1>1, WalksSame
  <2>2. w = StateWalk'
    BY <1>1, <2>1
  <2>3. n + 1 \in Nat
    BY <1>1
  <2>4. more = {w[i] : i \in 1 .. n + 1}
    BY <1>15, <1>16
  <2> QED
    BY <2>2, <2>3, <2>4
<1>18. Faithful' /\ Rebuilt(more)' /\ MemHolds(more)'
  BY <1>14, <1>16
<1> QED
  BY <1>5, <1>17, <1>18 DEF Rebuilding

\* The second walk done.
AllRebuilt ==
  \E done : /\ done = {o \in ToSet(stored) : o.kind \notin {"native", "source", "context"}}
            /\ Faithful /\ Rebuilt(done) /\ (~managed => MemHolds(done))

\* How far the child is rebuilt.
ObjectsInv ==
  /\ rsPc \in {"none", "identify"} => mem = <<>>
  /\ Fit /\ rsPc = "identify" => Twinning
  /\ Fit /\ rsPc = "state" => Rebuilding
  /\ Fit /\ rsPc \in {"resolved", "capmap", "capspace", "content", "done"} => AllRebuilt

LEMMA RebuiltSame ==
  ASSUME NEW done, UNCHANGED <<stored, child, tr>>
  PROVE  Faithful' = Faithful /\ Rebuilt(done)' = Rebuilt(done)
<1>1. \A b : Image(b)' = Image(b)
  BY DEF Image
<1>2. \A s, c : Twin(s, c)' = Twin(s, c) /\ RegionTwin(s, c)' = RegionTwin(s, c)
  BY <1>1 DEF Twin, RegionTwin
<1>3. \A s, c, r : Shown(s, c, r)' = Shown(s, c, r)
  BY <1>1 DEF Shown
<1>4. Rebuilt(done)' = Rebuilt(done)
  BY <1>2, <1>3 DEF Rebuilt
<1>5. Faithful' = Faithful
  BY DEF Faithful, IsDataspace, IsChild, RegionMapDataspaces
<1> QED
  BY <1>4, <1>5

LEMMA HoldsSame ==
  ASSUME NEW done, UNCHANGED <<mem, tr>>
  PROVE  MemHolds(done)' = MemHolds(done)
BY DEF MemHolds, InMemory

LEMMA RebuildingEnds ==
  ASSUME StoredWhole, Rebuilding, ResolveInc
  PROVE  AllRebuilt'
<1>1. PICK w, n, done : /\ w = StateWalk /\ n \in Nat /\ Rest(n, w) /\ done = {w[i] : i \in 1 .. n}
                        /\ Faithful /\ Rebuilt(done) /\ MemHolds(done)
  BY DEF Rebuilding
<1>2. todo = <<>> /\ UNCHANGED <<stored, child, tr>> /\ (~managed' => mem' = mem)
  BY DEF ResolveInc, outside, ckVars
<1>3. w \in Seq(Object) /\ ToSet(w) = {o \in ToSet(stored) : o.kind \notin {"native", "source", "context"}}
  BY <1>1, StateWalkFacts
<1>4. n = Len(w)
  BY <1>1, <1>2, <1>3, RestAll
<1>5. done = {o \in ToSet(stored) : o.kind \notin {"native", "source", "context"}}
  <2>1. DOMAIN w = 1 .. Len(w)
    BY <1>3, LenProperties
  <2> QED
    BY <1>1, <1>3, <1>4, <2>1 DEF ToSet
<1>6. Faithful' /\ Rebuilt(done)'
  BY <1>1, <1>2, RebuiltSame
<1>7. ~managed' => MemHolds(done)'
  BY <1>1, <1>2, HoldsSame
<1> QED
  BY <1>2, <1>5, <1>6, <1>7 DEF AllRebuilt

LEMMA AllRebuiltKept ==
  ASSUME AllRebuilt, UNCHANGED <<stored, child, tr, mem, managed>>
  PROVE  AllRebuilt'
<1>1. PICK done : /\ done = {o \in ToSet(stored) : o.kind \notin {"native", "source", "context"}}
                  /\ Faithful /\ Rebuilt(done) /\ (~managed => MemHolds(done))
  BY DEF AllRebuilt
<1>2. Faithful' /\ Rebuilt(done)' /\ (~managed' => MemHolds(done)')
  BY <1>1, RebuiltSame, HoldsSame
<1> QED
  BY <1>1, <1>2 DEF AllRebuilt

LEMMA WalksStand ==
  ASSUME UNCHANGED <<stored, child, tr, pairs, mem, managed, todo>>
  PROVE  (Twinning => Twinning') /\ (Rebuilding => Rebuilding')
<1>1. \A n, w : Rest(n, w)' = Rest(n, w)
  BY DEF Rest
<1>2. IdentifyWalk' = IdentifyWalk /\ StateWalk' = StateWalk
  BY WalksSame
<1>3. \A seen : Matched(seen)' = Matched(seen)
  BY DEF Matched, PairsRight
<1>4. \A s, c : Twin(s, c)' = Twin(s, c)
  BY DEF Twin, Image
<1>5. \A seen : Twins(seen)' = Twins(seen)
  <2>1. \A b : Young(b)' = Young(b)
    BY DEF Young, NewBadge
  <2>2. \A seen : Numbered(seen)' = Numbered(seen)
    BY DEF Numbered, Young, NewBadge
  <2>3. \A seen : Newcomers(seen)' = Newcomers(seen)
    BY DEF Newcomers, Young, NewBadge
  <2> QED
    BY <1>4, <2>2, <2>3 DEF Twins
<1>6. \A done : Rebuilt(done)' = Rebuilt(done) /\ Faithful' = Faithful /\ MemHolds(done)' = MemHolds(done)
  BY RebuiltSame, HoldsSame
<1>7. Twinning => Twinning'
  <2> SUFFICES ASSUME Twinning PROVE Twinning'
    OBVIOUS
  <2>1. PICK w, n, seen : /\ w = IdentifyWalk /\ n \in Nat /\ Rest(n, w)
                          /\ seen = {w[i] : i \in 1 .. n} /\ Matched(seen) /\ Twins(seen)
    BY DEF Twinning
  <2>2. w = IdentifyWalk' /\ Rest(n, w)' /\ Matched(seen)' /\ Twins(seen)'
    BY <1>1, <1>2, <1>3, <1>5, <2>1
  <2> QED
    BY <2>1, <2>2 DEF Twinning
<1>8. Rebuilding => Rebuilding'
  <2> SUFFICES ASSUME Rebuilding PROVE Rebuilding'
    OBVIOUS
  <2>1. PICK w, n, done : /\ w = StateWalk /\ n \in Nat /\ Rest(n, w) /\ done = {w[i] : i \in 1 .. n}
                          /\ Faithful /\ Rebuilt(done) /\ MemHolds(done)
    BY DEF Rebuilding
  <2>2. w = StateWalk' /\ Rest(n, w)' /\ Faithful' /\ Rebuilt(done)' /\ MemHolds(done)'
    BY <1>1, <1>2, <1>6, <2>1
  <2> QED
    BY <2>1, <2>2 DEF Rebuilding
<1> QED
  BY <1>7, <1>8

LEMMA ObjectsKept == RestoredInv /\ ObjectsInv /\ [Next]_vars => ObjectsInv'
<1> SUFFICES ASSUME RestoredInv, ObjectsInv, [Next]_vars PROVE ObjectsInv'
  OBVIOUS
<1>1. CASE RestorerStep
  <2>1. StoredWhole
    BY <1>1, RestorerStarts, WholeWhenTaken DEF RestoredInv, StoredSound
  <2>2. UNCHANGED stored
    BY <1>1, RestorerReads DEF outside, ckVars
  <2>3. Fit' = Fit
    BY <2>2 DEF Fit
  <2>4. CASE LogRequest
    <3>1. rsPc = "none" /\ rsPc' = "identify" /\ mem' = mem
      BY <2>4 DEF LogRequest, memVars
    <3>2. Twinning'
      BY <2>1, <2>4, <3>1, TwinningStarts DEF RestoredInv, ChildInv
    <3> QED
      BY <3>1, <3>2 DEF ObjectsInv
  <2>5. CASE Identify
    <3>1. rsPc = "identify" /\ rsPc' \in {"identify", "failed", "crashed"} /\ mem' = mem
      <4>1. rsPc = "identify"
        BY <2>5, IdentifySteps
      <4>2. mem' = mem
        BY <2>5 DEF Identify, IdentifyRam, IdentifyRamds, IdentifyPd, IdentifySource,
           IdentifyContext, IdentifySpace, IdentifyCpu, IdentifyThread, IdentifyRm, IdentifyMap,
           IdentifyLog, IdentifyTimer, restUnchanged, memVars
      <4>3. rsPc' = "identify" \/ Stops
        BY <2>1, <2>2, <2>5, <4>1, IdentifyStep DEF RestoredInv, ChildInv
      <4> QED
        BY <4>1, <4>2, <4>3 DEF Stops
    <3>2. Fit => Twinning' \/ rsPc' \in {"failed", "crashed"}
      BY <2>1, <2>2, <2>5, <3>1, TwinningStep DEF RestoredInv, ChildInv, ObjectsInv
    <3> QED
      BY <2>3, <3>1, <3>2 DEF ObjectsInv
  <2>6. CASE IdentifyEnd
    <3>1. rsPc = "identify" /\ rsPc' = "state"
      BY <2>6 DEF IdentifyEnd
    <3>2. Fit => Rebuilding'
      BY <2>1, <2>2, <2>6, <3>1, RebuildingStarts DEF RestoredInv, ChildInv, ObjectsInv
    <3> QED
      BY <2>3, <3>1, <3>2 DEF ObjectsInv
  <2>7. CASE Restore
    <3>1. rsPc = "state"
      BY <2>7 DEF Restore, RestoreRam, RestoreRamds, RestorePd, RestoreSpace, RestoreCpu,
         RestoreThread, RestoreRm, RestoreMap, RestoreRegion, RestoreLog, RestoreTimer,
         RestoreObject, Visit
    <3>2. rsPc' = "state" \/ Stops
      BY <2>1, <2>2, <2>7, <3>1, RestoreStep DEF RestoredInv, ChildInv
    <3>3. Fit /\ rsPc' = "state" => Rebuilding'
      BY <2>1, <2>2, <2>7, <3>1, RebuildingStep DEF RestoredInv, ChildInv, ObjectsInv
    <3> QED
      BY <2>3, <3>2, <3>3 DEF ObjectsInv, Stops
  <2>8. CASE ResolveInc
    <3>1. rsPc = "state" /\ rsPc' = "resolved"
      BY <2>8 DEF ResolveInc
    <3>2. Fit => AllRebuilt'
      BY <2>1, <2>8, <3>1, RebuildingEnds DEF ObjectsInv
    <3> QED
      BY <2>3, <3>1, <3>2 DEF ObjectsInv
  <2>9. CASE \/ CopyCapMap \/ PatchCapMap \/ PatchCapMapEnd \/ Install \/ InstallEnd
             \/ RestoreContent \/ RestoreReturn
    <3>1. /\ UNCHANGED <<child, tr, mem, managed>>
          /\ rsPc \in {"resolved", "capmap", "capspace", "content"}
          /\ rsPc' \in {"capmap", "capspace", "content", "done"}
      BY <2>9 DEF CopyCapMap, PatchCapMap, PatchCapMapEnd, Install, InstallEnd,
         RestoreContent, RestoreReturn, memVars
    <3>2. Fit => AllRebuilt'
      BY <2>2, <3>1, AllRebuiltKept DEF ObjectsInv
    <3> QED
      BY <2>3, <3>1, <3>2 DEF ObjectsInv
  <2> QED
    BY <1>1, <2>4, <2>5, <2>6, <2>7, <2>8, <2>9 DEF RestorerStep
<1>2. CASE TargetStep \/ CheckpointStep
  <2>1. UNCHANGED <<rsPc, mem>>
    BY <1>2 DEF TargetStep, CheckpointStep, rsVars
  <2>2. rsPc = "none"
    BY <1>2 DEF TargetStep, CheckpointStep, RestoredInv, StoredSound
  <2> QED
    BY <2>1, <2>2 DEF ObjectsInv
<1>3. CASE UNCHANGED vars
  <2>1. UNCHANGED <<rsPc, todo, child, tr, pairs, mem, managed, stored>>
    BY <1>3 DEF vars, rsVars, ckVars
  <2>2. Fit' = Fit
    BY <2>1 DEF Fit
  <2>3. (Twinning => Twinning') /\ (Rebuilding => Rebuilding') /\ (AllRebuilt => AllRebuilt')
    BY <2>1, WalksStand, AllRebuiltKept
  <2> QED
    BY <2>1, <2>2, <2>3 DEF ObjectsInv
<1> QED
  BY <1>1, <1>2, <1>3 DEF Next

-----------------------------------------------------------------------------
(* What the restored child is, compared with the target.                   *)

\* The info a checkpoint has of an object, if it was made for that object.
LEMMA CurrentInfo ==
  ASSUME RestoredInv, ckPc = "taken", NEW o \in Objs, Current(o)
  PROVE  /\ StoredOf(o) \in ToSet(stored) /\ Same(StoredOf(o), o) /\ Fixed(StoredOf(o)) = Fixed(o)
         /\ StoredOf(o).sigh = o.sigh /\ StoredOf(o).mode = o.mode
         /\ \A t \in ToSet(stored) : Same(t, o) => t = StoredOf(o)
<1>1. /\ objs \in Seq(Object) /\ stored \in Seq(Object) /\ Proper(stored) /\ Proper(objs)
      /\ TargetInv /\ StoredInv
  BY DEF RestoredInv, TargetInv, StoredInv, Good, Proper
<1>2. StoredOf(o) \in ToSet(stored) /\ Same(StoredOf(o), o) /\ StoredOf(o).ts = o.ts
  BY <1>1, FoundFacts DEF Current, StoredOf
<1>3. \A t \in ToSet(stored) : Same(t, o) => t = StoredOf(o)
  BY <1>1, OneInfo DEF StoredOf
<1>4. Fixed(StoredOf(o)) = Fixed(o)
  BY <1>1, <1>2 DEF StoredInv, Good
<1>5. StoredOf(o).sigh = o.sigh /\ StoredOf(o).mode = o.mode
  <2>1. CASE o.kind # "region"
    <3>1. PICK s \in ToSet(stored) : Same(s, o) /\ s.sigh = o.sigh /\ s.mode = o.mode
      BY <1>1, <2>1, StoredPartners
    <3> QED
      BY <1>3, <3>1
  <2>2. CASE o.kind = "region"
    <3>1. Plain(o) /\ Plain(StoredOf(o)) /\ StoredOf(o).kind = "region"
      BY <1>1, <1>2, <2>2 DEF Proper, Objs, Same
    <3> QED
      BY <2>2, <3>1 DEF Plain, IsSignalling, IsMap
  <2> QED
    BY <2>1, <2>2
<1> QED
  BY <1>2, <1>3, <1>4, <1>5

LEMMA FixedAlike ==
  ASSUME NEW s, NEW o, Fixed(s) = Fixed(o)
  PROVE  /\ s.kind = o.kind /\ s.badge = o.badge /\ s.owner = o.owner /\ s.ref = o.ref
         /\ s.tag = o.tag /\ s.ts = o.ts /\ s.boot = o.boot
BY DEF Fixed

\* Fit is what Identifiable says, of the infos.
LEMMA FitWhenIdentifiable ==
  ASSUME RestoredInv, ckPc = "taken", Identifiable, \A o \in Objs : Current(o)
  PROVE  Fit
<1>1. StoredWhole
  BY WholeWhenTaken DEF RestoredInv
<1>2. /\ \A o \in Objs : o.kind # "region" => \E s \in ToSet(stored) : Same(s, o)
      /\ \A s \in ToSet(stored) : s.kind # "region" => \E o \in Objs : Same(s, o)
  BY StoredPartners DEF RestoredInv
<1>3. \E s \in ToSet(stored) : s.kind = "pd" /\ s.badge = 1
  <2>1. <<"pd", 1, 0, 0, 0, 1, TRUE>> \in MustStay
    BY DEF MustStay
  <2>2. PICK o \in Objs : Fixed(o) = <<"pd", 1, 0, 0, 0, 1, TRUE>>
    BY <2>1 DEF RestoredInv, TargetSound
  <2>3. o.kind = "pd" /\ o.badge = 1
    BY <2>2, FixedParts
  <2>4. PICK s \in ToSet(stored) : Same(s, o)
    BY <1>2, <2>3
  <2> QED
    BY <2>3, <2>4 DEF Same, Key
<1>4. ASSUME NEW b \in {5, 6} PROVE \E s \in ToSet(stored) : s.kind = "ramds" /\ s.boot /\ s.badge = b
  <2>1. PICK o \in Objs : o.kind = "ramds" /\ o.badge = b
    BY DEF Identifiable, Of
  <2>2. PICK s \in ToSet(stored) : Same(s, o)
    BY <1>2, <2>1
  <2>3. s.kind = "ramds" /\ s.badge = b
    BY <2>1, <2>2 DEF Same, Key
  <2>4. ~s.boot => s.badge >= 1000
    BY <1>1, <2>3, StoredBoot
  <2> QED
    BY <2>3, <2>4
<1>5. ASSUME NEW s \in ToSet(stored), NEW t \in ToSet(stored), s.kind = "thread", t.kind = "thread", s.tag = t.tag
      PROVE  s = t
  <2>1. PICK o \in Objs : Same(s, o)
    BY <1>2, <1>5
  <2>2. PICK p \in Objs : Same(t, p)
    BY <1>2, <1>5
  <2>3. StoredOf(o) = s /\ StoredOf(p) = t /\ Fixed(s) = Fixed(o) /\ Fixed(t) = Fixed(p)
    BY <2>1, <2>2, CurrentInfo
  <2>4. o.kind = "thread" /\ p.kind = "thread" /\ o.tag = p.tag
    BY <1>5, <2>3, FixedAlike
  <2>5. o = p
    BY <2>4 DEF Identifiable, Of
  <2> QED
    BY <2>3, <2>5
<1> QED
  BY <1>3, <1>4, <1>5 DEF Fit

LEMMA RestoredFromInv == RestoredInv /\ ObjectsInv => ObjectsRestored
<1> SUFFICES ASSUME RestoredInv, ObjectsInv, rsPc = "done", Identifiable, \A o \in Objs : Current(o)
             PROVE  /\ \A o \in Objs : o.kind # "native" => HasRestored(o)
                    /\ \A b, c \in DOMAIN tr : tr[b] = tr[c] => b = c
  BY DEF ObjectsRestored
<1>1. ckPc = "taken"
  BY DEF RestoredInv, StoredSound
<1>2. Fit
  BY <1>1, FitWhenIdentifiable
<1>3. PICK done : /\ done = {o \in ToSet(stored) : o.kind \notin {"native", "source", "context"}}
                  /\ Faithful /\ Rebuilt(done)
  BY <1>2 DEF ObjectsInv, AllRebuilt
<1>4. StoredWhole
  BY <1>1, WholeWhenTaken DEF RestoredInv
<1>5. ASSUME NEW o \in Objs, o.kind # "native" PROVE HasRestored(o)
  <2>1. PICK s : s = StoredOf(o)
    OBVIOUS
  <2>2. s \in ToSet(stored) /\ Same(s, o) /\ Fixed(s) = Fixed(o) /\ s.sigh = o.sigh /\ s.mode = o.mode
    BY <1>1, <2>1, CurrentInfo
  <2>3. /\ s.kind = o.kind /\ s.badge = o.badge /\ s.owner = o.owner /\ s.ref = o.ref
        /\ s.tag = o.tag /\ s.boot = o.boot
    BY <2>2, FixedAlike
  <2>4. /\ o.kind \in Kind /\ (o.kind \notin SessionKind => o.quota = 0)
        /\ (~IsSignalling(o) => o.sigh = 0) /\ (o.kind \notin {"thread", "timer"} => o.mode = 0)
    BY ObjectFacts DEF RestoredInv, TargetSound, Plain
  <2>5. taken = 1 => s.quota = o.quota
    BY <1>1, <2>2 DEF RestoredInv, StoredSound
  <2>6. Image(0) = 0
    BY DEF Image
  <2>7. CASE o.kind = "region"
    <3>1. PICK c \in ToSet(child) : RegionTwin(s, c)
      BY <1>3, <2>2, <2>3, <2>7 DEF Rebuilt
    <3>2. o.sigh = 0 /\ o.mode = 0 /\ o.quota = 0
      BY <2>4, <2>7 DEF IsSignalling, IsMap, SessionKind
    <3> QED
      BY <2>3, <2>6, <2>7, <3>1, <3>2 DEF HasRestored, RegionTwin, Blank
  <2>8. CASE o.kind # "region"
    <3>1. PICK c \in ToSet(child) : Twin(s, c) /\ Shown(s, c, s \in done)
      BY <1>3, <1>5, <2>2, <2>3, <2>8 DEF Rebuilt
    <3>2. c.sigh = Image(o.sigh) /\ c.mode = o.mode /\ (taken = 1 => c.quota = o.quota)
      <4>1. CASE o.kind \in {"source", "context", "ramds"}
        <5>1. Blank(c)
          BY <1>3, <2>3, <3>1, <4>1 DEF Shown
        <5>2. o.sigh = 0 /\ o.mode = 0 /\ o.quota = 0
          BY <2>4, <4>1 DEF IsSignalling, IsMap, SessionKind
        <5> QED
          BY <2>6, <5>1, <5>2 DEF Blank
      <4>2. CASE o.kind \notin {"source", "context", "ramds"}
        <5>1. s \in done
          BY <1>3, <1>5, <2>2, <2>3, <4>2
        <5>2. c.sigh = Image(s.sigh) /\ c.mode = s.mode /\ c.quota = s.quota
          BY <2>3, <3>1, <4>2, <5>1 DEF Shown
        <5> QED
          BY <2>2, <2>5, <5>2
      <4> QED
        BY <4>1, <4>2
    <3>3. Image(s.badge) = tr[s.badge] /\ c.badge = tr[s.badge]
      <4>1. s.badge # 0
        BY <1>4, <2>2, <2>3, <2>8 DEF StoredWhole
      <4> QED
        BY <3>1, <4>1 DEF Twin, Image
    <3>4. /\ c.kind = o.kind /\ c.owner = Image(o.owner) /\ c.boot = o.boot /\ c.badge = Image(o.badge)
          /\ c.tag = o.tag /\ c.ref = Image(o.ref)
      BY <2>3, <3>1, <3>3 DEF Twin
    <3> QED
      BY <2>8, <3>2, <3>4 DEF HasRestored
  <2> QED
    BY <2>7, <2>8
<1>6. \A b, c \in DOMAIN tr : tr[b] = tr[c] => b = c
  BY <1>3 DEF Faithful
<1> QED
  BY <1>5, <1>6

LEMMA PlannedFromInv == RestoredInv /\ ObjectsInv => MemoryPlanned
<1> SUFFICES ASSUME RestoredInv, ObjectsInv, rsPc = "done", ~managed, Identifiable, \A o \in Objs : Current(o)
             PROVE  /\ \A o \in Of("ramds") :
                         \E i \in DOMAIN mem :
                           /\ mem[i].copy = o.badge /\ mem[i].orig = Image(o.badge)
                           /\ \A j \in DOMAIN mem \ {i} : mem[j].copy # o.badge /\ mem[j].orig # mem[i].orig
                    /\ Copies \cap RegionMapDataspaces = {}
  BY DEF MemoryPlanned
<1>1. ckPc = "taken"
  BY DEF RestoredInv, StoredSound
<1>2. Fit
  BY <1>1, FitWhenIdentifiable
<1>3. PICK done : /\ done = {o \in ToSet(stored) : o.kind \notin {"native", "source", "context"}}
                  /\ Faithful /\ Rebuilt(done) /\ MemHolds(done)
  BY <1>2 DEF ObjectsInv, AllRebuilt
<1>4. StoredWhole
  BY <1>1, WholeWhenTaken DEF RestoredInv
<1>5. \A s \in ToSet(stored) : s.kind = "ramds" => s.badge \in DOMAIN tr /\ s.badge # 0
  <2> SUFFICES ASSUME NEW s \in ToSet(stored), s.kind = "ramds" PROVE s.badge \in DOMAIN tr /\ s.badge # 0
    OBVIOUS
  <2>1. s.badge \in DOMAIN tr
    BY <1>3 DEF Rebuilt, Twin
  <2> QED
    BY <1>4, <2>1 DEF StoredWhole
<1>6. \A i \in DOMAIN mem : \E s \in ToSet(stored) :
        s.kind = "ramds" /\ mem[i].copy = s.badge /\ mem[i].orig = tr[s.badge] /\ s.badge \in DOMAIN tr
  BY <1>3, <1>5 DEF MemHolds
<1>7. ASSUME NEW o \in Of("ramds")
      PROVE  \E i \in DOMAIN mem :
               /\ mem[i].copy = o.badge /\ mem[i].orig = Image(o.badge)
               /\ \A j \in DOMAIN mem \ {i} : mem[j].copy # o.badge /\ mem[j].orig # mem[i].orig
  <2>1. o \in Objs /\ o.kind = "ramds"
    BY DEF Of
  <2>2. PICK s \in ToSet(stored) : Same(s, o)
    BY <1>1, <2>1, StoredPartners DEF RestoredInv
  <2>3. s.kind = "ramds" /\ s.badge = o.badge
    BY <2>1, <2>2 DEF Same, Key
  <2>4. PICK i \in DOMAIN mem : mem[i].copy = s.badge
    BY <1>3, <2>3 DEF MemHolds, InMemory
  <2>5. mem[i].orig = tr[s.badge] /\ s.badge \in DOMAIN tr
    BY <1>6, <2>4
  <2>6. mem[i].orig = Image(o.badge)
    BY <1>5, <2>3, <2>5 DEF Image
  <2>7. ASSUME NEW j \in DOMAIN mem \ {i} PROVE mem[j].copy # o.badge /\ mem[j].orig # mem[i].orig
    <3>1. mem[j].copy # mem[i].copy
      BY <1>3 DEF MemHolds
    <3>2. PICK t \in ToSet(stored) : mem[j].copy = t.badge /\ mem[j].orig = tr[t.badge] /\ t.badge \in DOMAIN tr
      BY <1>6
    <3>3. t.badge # s.badge
      BY <2>4, <3>1, <3>2
    <3>4. tr[t.badge] # tr[s.badge]
      BY <1>3, <2>5, <3>2, <3>3 DEF Faithful
    <3> QED
      BY <2>3, <2>4, <2>5, <3>1, <3>2, <3>4
  <2> QED
    BY <2>3, <2>4, <2>6, <2>7
<1>8. Copies \cap RegionMapDataspaces = {}
  <2> SUFFICES ASSUME NEW b \in Copies, b \in RegionMapDataspaces PROVE FALSE
    OBVIOUS
  <2>1. PICK s \in ToSet(stored) : s.kind = "ramds" /\ s.badge = b
    BY <1>6 DEF Copies
  <2>2. PICK t \in ToSet(stored) : IsMap(t) /\ t.ref = b
    BY DEF RegionMapDataspaces
  <2>3. s.kind # "region" /\ t.kind # "region" /\ b \in Keys(s) /\ b \in Keys(t)
    BY <2>1, <2>2 DEF Keys, IsMap
  <2>4. s = t
    BY <1>4, <2>3, KeysApart
  <2> QED
    BY <2>1, <2>2, <2>4 DEF IsMap
<1> QED
  BY <1>7, <1>8

LEMMA ObjectsInitially == Init => RestoredInv /\ ObjectsInv
<1> SUFFICES ASSUME Init PROVE RestoredInv /\ ObjectsInv
  OBVIOUS
<1>1. RestoredInv
  BY RestoredInitially
<1>2. rsPc = "none" /\ mem = <<>>
  BY DEF Init, RsInit
<1> QED
  BY <1>1, <1>2 DEF ObjectsInv

\* A restore that ends has given the child a counterpart of every object of the
\* target but for native capabilities: of the same kind and name, in and made
\* with the translations of what the target's was in and made with, with its
\* handler and mode and, restored from a first checkpoint, its quota; and no
\* two objects have become one.
THEOREM RestoredAsStored == Spec => []ObjectsRestored
<1>1. RestoredInv /\ ObjectsInv /\ [Next]_vars => (RestoredInv /\ ObjectsInv)'
  BY RestoredKept, ObjectsKept
<1> QED
  BY <1>1, ObjectsInitially, RestoredFromInv, PTL DEF Spec

\* The restorer plans to copy each RAM dataspace of the target back exactly
\* once, into the counterpart of that dataspace, and nothing into a region map.
THEOREM CopiedBackOnce == Spec => []MemoryPlanned
<1>1. RestoredInv /\ ObjectsInv /\ [Next]_vars => (RestoredInv /\ ObjectsInv)'
  BY RestoredKept, ObjectsKept
<1> QED
  BY <1>1, ObjectsInitially, PlannedFromInv, PTL DEF Spec

-----------------------------------------------------------------------------
(* Which capabilities the first walk notes.                                *)

\* A capability is noted for each object that was made anew, with the selector
\* of the info, and no other.
NotedCaps(seen) ==
  ToSet(caps) = {[kcap |-> s.kcap, cap |-> tr[s.badge]] : s \in {t \in seen : ~t.boot}}

\* After part of the first walk, and after all of it.
Noting ==
  \E w, n, seen : /\ w = IdentifyWalk /\ n \in Nat /\ Rest(n, w)
                  /\ seen = {w[i] : i \in 1 .. n} /\ Matched(seen) /\ NotedCaps(seen)

AllNoted == \E seen : seen = ToSet(IdentifyWalk) /\ NotedCaps(seen)

\* A list with one more element is another list.
LEMMA ConsOther ==
  ASSUME NEW V, NEW l \in Seq(V), NEW e
  PROVE  Cons(e, l) # l
<1> DEFINE W == V \cup {e}
<1>1. l \in Seq(W) /\ e \in W
  OBVIOUS
<1> HIDE DEF W
<1>2. Len(Cons(e, l)) = Len(l) + 1 /\ Len(l) \in Nat
  BY <1>1, ConsFacts
<1>3. \A n, m \in Nat : m = n + 1 => m # n
  OBVIOUS
<1> QED
  BY <1>2, <1>3

\* What was made anew is noted, what was found is not.
LEMMA CapNoted ==
  ASSUME ChildSound, caps \in Seq(Cap), S.kcap \in 0 .. MaxSlots, Identify, NEW s, s = S, Goes(s)
  PROVE  IF s.boot THEN caps' = caps
         ELSE ToSet(caps') = {[kcap |-> s.kcap, cap |-> tr'[s.badge]]} \cup ToSet(caps)
<1> DEFINE e == [kcap |-> S.kcap, cap |-> NewBadge]
<1>1. /\ rsPc' = "identify"
      /\ \/ UNCHANGED <<child, caps>>
         \/ caps' = Cons(e, caps) /\ \E new : child' = Cons(new, child)
  BY IdentifySteps DEF Goes
<1>2. child \in Seq(Object)
  BY DEF ChildSound
<1>3. PICK c : Translated(s, c) /\ (Found(s, c) \/ Made(s, c))
  BY DEF Goes, Treated
<1>4. CASE Found(s, c)
  <2>1. s.boot /\ child' = child
    BY <1>4 DEF Found
  <2>2. caps' = caps
    BY <1>1, <1>2, <2>1, ConsOther
  <2> QED
    BY <2>1, <2>2
<1>5. CASE Made(s, c)
  <2>1. ~s.boot /\ child' = Cons(c, child)
    BY <1>5 DEF Made
  <2>2. caps' = Cons(e, caps)
    BY <1>1, <1>2, <2>1, ConsOther
  <2>3. c.badge = NewBadge
    <3>1. c = Obj(s.kind, NewBadge, Image(s.owner),
                  IF s.kind = "map" THEN DsOf(NewBadge) ELSE Image(s.ref), s.tag)
      BY <1>5 DEF Made
    <3> QED
      BY <3>1 DEF Obj
  <2>4. tr'[s.badge] = NewBadge
    BY <1>3, <2>3 DEF Translated
  <2>5. e \in Cap
    BY NewBadgeFacts DEF Cap
  <2>6. e = [kcap |-> s.kcap, cap |-> tr'[s.badge]]
    BY <2>4
  <2> HIDE DEF e
  <2>7. ToSet(Cons(e, caps)) = {e} \cup ToSet(caps)
    BY <2>5, ConsFacts
  <2> QED
    BY <2>1, <2>2, <2>6, <2>7
<1> QED
  BY <1>3, <1>4, <1>5

LEMMA NotingStarts ==
  ASSUME StoredWhole, LogRequest, tr = Nothing, caps = <<>>
  PROVE  Noting'
<1>1. todo' = IdentifyWalk /\ tr' = tr /\ caps' = caps /\ UNCHANGED stored
  BY DEF LogRequest, outside, ckVars
<1>2. PICK w \in Seq(Object) : w = IdentifyWalk
  BY IdentifyWalkFacts
<1>3. w = IdentifyWalk'
  BY <1>1, <1>2, WalksSame
<1>4. Rest(0, w)'
  BY <1>1, <1>2, RestStart
<1>5. \A seen : seen = {} => Matched(seen)'
  BY <1>1 DEF Matched, Nothing
<1>6. \A seen : seen = {} => NotedCaps(seen)'
  BY <1>1 DEF NotedCaps, ToSet
<1>7. 0 \in Nat /\ {w[i] : i \in 1 .. 0} = {}
  OBVIOUS
<1> QED
  BY <1>3, <1>4, <1>5, <1>6, <1>7 DEF Noting

LEMMA NotingStep ==
  ASSUME StoredWhole, ChildSound, CapInv, Noting, Identify, UNCHANGED stored
  PROVE  Noting' \/ rsPc' \in {"failed", "crashed"}
<1>1. PICK w, n, seen : /\ w = IdentifyWalk /\ n \in Nat /\ Rest(n, w)
                        /\ seen = {w[i] : i \in 1 .. n} /\ Matched(seen) /\ NotedCaps(seen)
  BY DEF Noting
<1>2. rsPc = "identify" /\ todo # <<>> /\ todo' = Tail(todo)
  BY IdentifySteps
<1>3. /\ w \in Seq(Object) /\ Placed(w) /\ EachOnce(w)
      /\ ToSet(w) = {o \in ToSet(stored) : o.kind \notin {"region", "native"}}
  BY <1>1, IdentifyWalkFacts, IdentifyWalkOnce
<1>4. /\ n + 1 \in 1 .. Len(w) /\ Len(w) \in Nat /\ S = w[n + 1] /\ S \in ToSet(w) /\ S \in Object
      /\ Rest(n + 1, w)'
  BY <1>1, <1>2, <1>3, RestNext
<1>5. Reachable(S, seen)
  <2>1. n + 1 - 1 = n
    BY <1>1
  <2> QED
    BY <1>1, <1>3, <1>4, <2>1 DEF Reachable, Placed
<1>6. Ready(seen)
  BY <1>1, <1>3, <1>4, <1>5 DEF Ready
<1>7. Goes(S) \/ Stops
  BY <1>2, <1>6, IdentifyFinds
<1>8. CASE Goes(S)
  <2>1. PICK s : s = S
    OBVIOUS
  <2>2. s \notin seen
    <3> SUFFICES ASSUME NEW i \in 1 .. n, w[i] = w[n + 1] PROVE FALSE
      BY <1>1, <1>4, <2>1
    <3>1. i \in 1 .. Len(w) /\ i # n + 1
      BY <1>1, <1>4
    <3> QED
      BY <1>3, <1>4, <3>1 DEF EachOnce
  <2>3. Matched(seen \cup {s})'
    BY <1>6, <1>8, <2>1, MatchedStep
  <2>4. NotedCaps(seen \cup {s})'
    <3>1. caps \in Seq(Cap) /\ S.kcap \in 0 .. MaxSlots
      <4>1. todo \in Seq(Slotted) /\ caps \in Seq(Cap)
        BY <1>2 DEF CapInv
      <4>2. S \in Slotted
        BY <1>2, <4>1, TailFacts DEF S
      <4> QED
        BY <4>1, <4>2 DEF Slotted
    <3>2. IF s.boot THEN caps' = caps
          ELSE ToSet(caps') = {[kcap |-> s.kcap, cap |-> tr'[s.badge]]} \cup ToSet(caps)
      BY <1>8, <2>1, <3>1, CapNoted
    <3>3. \A t \in seen : tr'[t.badge] = tr[t.badge]
      <4>1. PICK c : Translated(s, c)
        BY <1>8, <2>1 DEF Goes, Treated
      <4>2. \A b \in DOMAIN tr : tr'[b] = tr[b]
        BY <1>6, <2>1, <2>2, <4>1, StillTranslated
      <4>3. \A t \in seen : t.badge \in DOMAIN tr
        BY <1>1, TrFacts
      <4> QED
        BY <4>2, <4>3
    <3>4. ToSet(caps) = {[kcap |-> t.kcap, cap |-> tr'[t.badge]] : t \in {u \in seen : ~u.boot}}
      BY <1>1, <3>3 DEF NotedCaps
    <3>5. ToSet(caps') = {[kcap |-> t.kcap, cap |-> tr'[t.badge]] : t \in {u \in seen \cup {s} : ~u.boot}}
      BY <3>2, <3>4
    <3> QED
      BY <3>5 DEF NotedCaps
  <2>5. seen \cup {s} = {w[i] : i \in 1 .. n + 1}
    <3>1. 1 .. n + 1 = 1 .. n \cup {n + 1}
      BY <1>1
    <3> QED
      BY <1>1, <1>4, <2>1, <3>1
  <2>6. w = IdentifyWalk' /\ n + 1 \in Nat
    BY <1>1, WalksSame
  <2> QED
    BY <1>4, <2>3, <2>4, <2>5, <2>6 DEF Noting
<1> QED
  BY <1>7, <1>8 DEF Stops

LEMMA NotingEnds ==
  ASSUME StoredWhole, Noting, IdentifyEnd, UNCHANGED stored
  PROVE  AllNoted'
<1>1. PICK w, n, seen : /\ w = IdentifyWalk /\ n \in Nat /\ Rest(n, w)
                        /\ seen = {w[i] : i \in 1 .. n} /\ Matched(seen) /\ NotedCaps(seen)
  BY DEF Noting
<1>2. todo = <<>> /\ UNCHANGED <<caps, tr>>
  BY DEF IdentifyEnd
<1>3. w \in Seq(Object)
  BY <1>1, IdentifyWalkFacts
<1>4. n = Len(w)
  BY <1>1, <1>2, <1>3, RestAll
<1>5. seen = ToSet(w)
  <2>1. DOMAIN w = 1 .. Len(w)
    BY <1>3, LenProperties
  <2> QED
    BY <1>1, <1>4, <2>1 DEF ToSet
<1>6. NotedCaps(seen)' /\ w = IdentifyWalk'
  BY <1>1, <1>2, WalksSame DEF NotedCaps
<1> QED
  BY <1>5, <1>6 DEF AllNoted

-----------------------------------------------------------------------------
(* The child's capability space.                                           *)

\* What bootstrap leaves at the selector.
AtStart(k) == IF k <= 4 THEN BootSlots(1000)[k] ELSE 0

\* The first n capabilities are where they belong, the rest is as it was.
Installed(n) ==
  /\ DOMAIN space = 1 .. MaxSlots
  /\ \A k \in 1 .. MaxSlots :
       \/ (\A i \in 1 .. n : caps[i].kcap # k) /\ space[k] = AtStart(k)
       \/ \E i \in 1 .. n : caps[i].kcap = k /\ space[k] = caps[i].cap

\* Where the capabilities are, from the first walk to the end.
CapSpaceInv ==
  /\ rsPc = "none" => caps = <<>>
  /\ rsPc = "identify" => Noting
  /\ rsPc \in {"state", "resolved", "capmap", "capspace", "content", "done"} => AllNoted
  /\ rsPc = "capmap" => Installed(0)
  /\ rsPc = "capspace" => \E n \in Nat : Left(n) /\ Installed(n)
  /\ rsPc \in {"content", "done"} => Installed(Len(caps))

LEMMA InstallKeeps ==
  ASSUME caps \in Seq(Cap), NEW n \in Nat, Left(n), Installed(n), Install
  PROVE  Left(n + 1)' /\ Installed(n + 1)'
<1>1. /\ todo # <<>> /\ todo' = Tail(todo) /\ UNCHANGED caps
      /\ space' = [k \in DOMAIN space |-> IF k = Head(todo).kcap THEN Head(todo).cap ELSE space[k]]
  BY DEF Install
<1>2. /\ Head(todo) = todo[1] /\ 1 \in 1 .. Len(todo) /\ Len(todo) \in Nat /\ todo' \in Seq(Cap)
      /\ Len(todo') = Len(todo) - 1 /\ \A i \in 1 .. Len(todo) - 1 : todo'[i] = todo[i + 1]
  BY <1>1, TailFacts DEF Left
<1>3. Len(caps) \in Nat /\ DOMAIN caps = 1 .. Len(caps) /\ \A i \in DOMAIN caps : caps[i] \in Cap
  BY ListElements
<1>4. Head(todo) = caps[n + 1] /\ n + 1 \in 1 .. Len(caps)
  BY <1>2, <1>3 DEF Left
<1>5. Left(n + 1)'
  <2>1. \A i \in 1 .. Len(todo) - 1 : i + 1 \in 1 .. Len(todo) /\ n + (i + 1) = n + 1 + i
    BY <1>2
  <2>2. \A i \in 1 .. Len(todo') : todo'[i] = caps[n + 1 + i]
    BY <1>2, <2>1 DEF Left
  <2>3. n + 1 \in 0 .. Len(caps) /\ Len(todo') = Len(caps) - (n + 1)
    BY <1>2, <1>3, <1>4 DEF Left
  <2> QED
    BY <1>1, <1>2, <2>2, <2>3 DEF Left
<1>6. /\ DOMAIN space = 1 .. MaxSlots /\ DOMAIN space' = 1 .. MaxSlots
      /\ \A k \in 1 .. MaxSlots :
           space'[k] = IF k = caps[n + 1].kcap THEN caps[n + 1].cap ELSE space[k]
  BY <1>1, <1>4 DEF Installed
<1>7. 1 .. n + 1 = 1 .. n \cup {n + 1}
  OBVIOUS
<1>8. ASSUME NEW k \in 1 .. MaxSlots
      PROVE  \/ (\A i \in 1 .. n + 1 : caps[i].kcap # k) /\ space'[k] = AtStart(k)
             \/ \E i \in 1 .. n + 1 : caps[i].kcap = k /\ space'[k] = caps[i].cap
  <2>1. CASE caps[n + 1].kcap = k
    BY <1>6, <1>7, <2>1
  <2>2. CASE caps[n + 1].kcap # k
    <3>1. space'[k] = space[k]
      BY <1>6, <2>2
    <3>2. CASE (\A i \in 1 .. n : caps[i].kcap # k) /\ space[k] = AtStart(k)
      BY <1>7, <2>2, <3>1, <3>2
    <3>3. CASE \E i \in 1 .. n : caps[i].kcap = k /\ space[k] = caps[i].cap
      BY <1>7, <3>1, <3>3
    <3> QED
      BY <3>2, <3>3 DEF Installed
  <2> QED
    BY <2>1, <2>2
<1> QED
  BY <1>1, <1>5, <1>6, <1>8 DEF Installed

LEMMA CapSpaceInitially == Init => CapSpaceInv
BY DEF Init, RsInit, CapSpaceInv

LEMMA CapSpaceKept == RestoredInv /\ CapSpaceInv /\ [Next]_vars => CapSpaceInv'
<1> SUFFICES ASSUME RestoredInv, CapSpaceInv, [Next]_vars PROVE CapSpaceInv'
  OBVIOUS
<1>1. CASE RestorerStep
  <2>1. StoredWhole
    BY <1>1, RestorerStarts, WholeWhenTaken DEF RestoredInv, StoredSound
  <2>2. UNCHANGED stored
    BY <1>1, RestorerReads DEF outside, ckVars
  <2>3. IdentifyWalk' = IdentifyWalk
    BY <2>2, WalksSame
  <2>4. CapInv /\ caps \in Seq(Cap) /\ Len(caps) \in Nat
    <3>1. caps \in Seq(Cap)
      BY DEF RestoredInv, CapInv
    <3> QED
      BY <3>1, LenProperties DEF RestoredInv
  <2>5. UNCHANGED <<caps, tr>> => (AllNoted => AllNoted')
    BY <2>3 DEF AllNoted, NotedCaps
  <2>6. UNCHANGED <<caps, space>> => \A n : Installed(n) => Installed(n)'
    BY DEF Installed
  <2>7. CASE LogRequest
    <3>1. rsPc = "none" /\ rsPc' = "identify"
      BY <2>7 DEF LogRequest
    <3>2. Noting'
      BY <2>1, <2>7, <3>1, NotingStarts DEF RestoredInv, ChildInv, CapSpaceInv
    <3> QED
      BY <3>1, <3>2 DEF CapSpaceInv
  <2>8. CASE Identify
    <3>1. rsPc = "identify" /\ rsPc' \in {"identify", "failed", "crashed"}
      BY <2>8, IdentifySteps
    <3>2. Noting' \/ rsPc' \in {"failed", "crashed"}
      BY <2>1, <2>2, <2>4, <2>8, <3>1, NotingStep DEF RestoredInv, ChildInv, CapSpaceInv
    <3> QED
      BY <3>1, <3>2 DEF CapSpaceInv
  <2>9. CASE IdentifyEnd
    <3>1. rsPc = "identify" /\ rsPc' = "state"
      BY <2>9 DEF IdentifyEnd
    <3>2. AllNoted'
      BY <2>1, <2>2, <2>9, <3>1, NotingEnds DEF CapSpaceInv
    <3> QED
      BY <3>1, <3>2 DEF CapSpaceInv
  <2>10. CASE Restore \/ ResolveInc
    <3>1. UNCHANGED <<caps, tr>> /\ rsPc = "state" /\ rsPc' \in {"state", "resolved", "failed", "crashed"}
      BY <2>10 DEF Restore, RestoreRam, RestoreRamds, RestorePd, RestoreSpace, RestoreCpu,
         RestoreThread, RestoreRm, RestoreMap, RestoreRegion, RestoreLog, RestoreTimer,
         RestoreObject, StateRestored, Visit, ResolveInc
    <3> QED
      BY <2>5, <3>1 DEF CapSpaceInv
  <2>11. CASE CopyCapMap
    <3>1. /\ UNCHANGED <<caps, tr>> /\ rsPc = "resolved" /\ rsPc' = "capmap"
          /\ space' = [k \in 1 .. MaxSlots |-> IF k <= 4 THEN BootSlots(1000)[k] ELSE 0]
      BY <2>11 DEF CopyCapMap
    <3>2. Installed(0)'
      BY <3>1 DEF Installed, AtStart
    <3> QED
      BY <2>5, <3>1, <3>2 DEF CapSpaceInv
  <2>12. CASE PatchCapMap
    <3>1. UNCHANGED <<caps, tr, space>> /\ rsPc = "capmap" /\ rsPc' = "capmap"
      BY <2>12 DEF PatchCapMap
    <3> QED
      BY <2>5, <2>6, <3>1 DEF CapSpaceInv
  <2>13. CASE PatchCapMapEnd
    <3>1. UNCHANGED <<caps, tr, space>> /\ rsPc = "capmap" /\ rsPc' = "capspace" /\ todo' = caps
      BY <2>13 DEF PatchCapMapEnd, capVars
    <3>2. Left(0)'
      <4>1. \A i \in 1 .. Len(caps) : 0 + i = i
        BY <2>4
      <4>2. Len(caps) = Len(caps) - 0 /\ 0 \in 0 .. Len(caps)
        BY <2>4
      <4> QED
        BY <2>4, <3>1, <4>1, <4>2 DEF Left
    <3>3. Installed(0)'
      BY <2>6, <3>1 DEF CapSpaceInv
    <3>4. \E n \in Nat : Left(n)' /\ Installed(n)'
      BY <3>2, <3>3
    <3> QED
      BY <2>5, <3>1, <3>4 DEF CapSpaceInv
  <2>14. CASE Install
    <3>1. UNCHANGED <<caps, tr>> /\ rsPc = "capspace" /\ rsPc' = "capspace"
      BY <2>14 DEF Install
    <3>2. PICK n \in Nat : Left(n) /\ Installed(n)
      BY <3>1 DEF CapSpaceInv
    <3>3. Left(n + 1)' /\ Installed(n + 1)'
      BY <2>4, <2>14, <3>2, InstallKeeps
    <3>4. \E m \in Nat : Left(m)' /\ Installed(m)'
      BY <3>3
    <3> QED
      BY <2>5, <3>1, <3>4 DEF CapSpaceInv
  <2>15. CASE InstallEnd
    <3>1. UNCHANGED <<caps, tr, space>> /\ rsPc = "capspace" /\ rsPc' = "content" /\ todo = <<>>
      BY <2>15 DEF InstallEnd, capVars
    <3>2. PICK n \in Nat : Left(n) /\ Installed(n)
      BY <3>1 DEF CapSpaceInv
    <3>3. n = Len(caps)
      <4>1. Len(todo) = 0
        BY <3>1
      <4> QED
        BY <2>4, <3>2, <4>1 DEF Left
    <3>4. Installed(Len(caps))'
      BY <2>6, <3>1, <3>2, <3>3
    <3> QED
      BY <2>5, <3>1, <3>4 DEF CapSpaceInv
  <2>16. CASE RestoreContent \/ RestoreReturn
    <3>1. UNCHANGED <<caps, tr, space>> /\ rsPc = "content" /\ rsPc' \in {"content", "done"}
      BY <2>16 DEF RestoreContent, RestoreReturn, capVars
    <3>2. Installed(Len(caps))'
      BY <2>6, <3>1 DEF CapSpaceInv
    <3> QED
      BY <2>5, <3>1, <3>2 DEF CapSpaceInv
  <2> QED
    BY <1>1, <2>7, <2>8, <2>9, <2>10, <2>11, <2>12, <2>13, <2>14, <2>15, <2>16 DEF RestorerStep
<1>2. CASE TargetStep \/ CheckpointStep
  <2>1. UNCHANGED <<rsPc, caps>> /\ rsPc = "none"
    BY <1>2 DEF TargetStep, CheckpointStep, rsVars, RestoredInv, StoredSound
  <2> QED
    BY <2>1 DEF CapSpaceInv
<1>3. CASE UNCHANGED vars
  <2>1. UNCHANGED <<rsPc, todo, child, tr, pairs, caps, space, stored>>
    BY <1>3 DEF vars, rsVars, ckVars
  <2>2. IdentifyWalk' = IdentifyWalk
    BY <2>1, WalksSame
  <2>3. \A n, w : Rest(n, w)' = Rest(n, w)
    BY <2>1 DEF Rest
  <2>4. \A seen : Matched(seen)' = Matched(seen) /\ NotedCaps(seen)' = NotedCaps(seen)
    BY <2>1 DEF Matched, PairsRight, NotedCaps
  <2>5. (Noting => Noting') /\ (AllNoted => AllNoted')
    <3>1. ASSUME Noting PROVE Noting'
      <4>1. PICK w, n, seen : /\ w = IdentifyWalk /\ n \in Nat /\ Rest(n, w)
                              /\ seen = {w[i] : i \in 1 .. n} /\ Matched(seen) /\ NotedCaps(seen)
        BY <3>1 DEF Noting
      <4>2. w = IdentifyWalk' /\ Rest(n, w)' /\ Matched(seen)' /\ NotedCaps(seen)'
        BY <2>2, <2>3, <2>4, <4>1
      <4> QED
        BY <4>1, <4>2 DEF Noting
    <3>2. ASSUME AllNoted PROVE AllNoted'
      BY <2>2, <2>4, <3>2 DEF AllNoted
    <3> QED
      BY <3>1, <3>2
  <2>6. \A n : Installed(n)' = Installed(n) /\ Left(n)' = Left(n)
    BY <2>1 DEF Installed, Left
  <2> QED
    BY <2>1, <2>5, <2>6 DEF CapSpaceInv
<1> QED
  BY <1>1, <1>2, <1>3 DEF Next
LEMMA StartFacts ==
  ASSUME NEW k \in Nat, k >= 1, k <= 4
  PROVE  AtStart(k) = BootSlots(0)[k] + 1000
<1>1. k = 1 \/ k = 2 \/ k = 3 \/ k = 4
  OBVIOUS
<1>2. /\ BootSlots(0)[1] = 1 /\ BootSlots(0)[2] = 5 /\ BootSlots(0)[3] = 6 /\ BootSlots(0)[4] = 7
      /\ BootSlots(1000)[1] = 1001 /\ BootSlots(1000)[2] = 1005
      /\ BootSlots(1000)[3] = 1006 /\ BootSlots(1000)[4] = 1007
  BY DEF BootSlots
<1>3. BootSlots(1000)[k] = BootSlots(0)[k] + 1000
  BY <1>1, <1>2
<1> QED
  BY <1>3 DEF AtStart

\* Where the target held a capability, the child holds its translation.
LEMMA CapSpaceFromInv ==
  RestoredInv /\ ObjectsInv /\ SlotsSound /\ CapSpaceInv => CapSpaceRestored
<1> SUFFICES ASSUME RestoredInv, ObjectsInv, SlotsSound, CapSpaceInv,
                    rsPc = "done", Identifiable, \A o \in Objs : Current(o),
                    NEW o \in Objs, NEW k, k = SlotOf(o.badge), k # 0,
                    o.kind \notin {"native", "region"}, o.boot \/ StoredOf(o).kcap # 0
             PROVE  space[k] = Image(o.badge)
  BY DEF CapSpaceRestored
<1>1. ckPc = "taken"
  BY DEF RestoredInv, StoredSound
<1>2. Fit
  BY <1>1, FitWhenIdentifiable
<1>3. Faithful /\ \E done : Rebuilt(done)
  BY <1>2 DEF ObjectsInv, AllRebuilt
<1>4. StoredWhole
  BY <1>1, WholeWhenTaken DEF RestoredInv
<1>5. slots[k] = o.badge /\ k \in 1 .. MaxSlots /\ o.badge # 0 /\ o.badge \in Nat
  <2>1. slots[k] = o.badge
    BY SlotFound
  <2>2. k \in DOMAIN slots /\ o.badge # 0
    BY DEF SlotOf
  <2>3. DOMAIN slots = 1 .. MaxSlots
    BY StoredSelectors DEF RestoredInv
  <2> QED
    BY <2>1, <2>2, <2>3, ObjectFacts DEF RestoredInv
<1>6. PICK s : s = StoredOf(o)
  OBVIOUS
<1>7. s \in ToSet(stored) /\ Same(s, o) /\ Fixed(s) = Fixed(o)
  BY <1>1, <1>6, CurrentInfo
<1>8. s.kind = o.kind /\ s.badge = o.badge /\ s.ts = o.ts /\ s.boot = o.boot
  BY <1>7, FixedAlike
<1>9. s.kcap # 0 => s.kcap = k
  <2> HAVE s.kcap # 0
  <2>1. slots[s.kcap] = o.badge
    BY <1>7, <1>8 DEF SlotsSound
  <2>2. s.kcap \in 1 .. MaxSlots
    BY <1>7, StoredSelectors DEF RestoredInv
  <2> QED
    BY <1>5, <2>1, <2>2 DEF SlotsSound
<1>10. s.badge \in DOMAIN tr /\ Image(o.badge) = tr[s.badge]
  <2>1. s.badge \in DOMAIN tr
    BY <1>3, <1>7, <1>8 DEF Rebuilt, Twin
  <2> QED
    BY <1>5, <1>8, <2>1 DEF Image
<1>11. ToSet(caps) = {[kcap |-> t.kcap, cap |-> tr[t.badge]] : t \in {u \in ToSet(IdentifyWalk) : ~u.boot}}
  BY DEF CapSpaceInv, AllNoted, NotedCaps
<1>12. ToSet(IdentifyWalk) = {t \in ToSet(stored) : t.kind \notin {"region", "native"}}
  BY <1>4, IdentifyWalkFacts
<1>13. Len(caps) \in Nat /\ ToSet(caps) = {caps[i] : i \in 1 .. Len(caps)}
  <2>1. caps \in Seq(Cap)
    BY DEF RestoredInv, CapInv
  <2>2. Len(caps) \in Nat /\ DOMAIN caps = 1 .. Len(caps)
    BY <2>1, LenProperties
  <2> QED
    BY <2>2 DEF ToSet
<1>14. ASSUME NEW i \in 1 .. Len(caps), caps[i].kcap = k
       PROVE  ~s.boot /\ caps[i].cap = tr[s.badge]
  <2>1. caps[i] \in ToSet(caps)
    BY <1>13
  <2>2. PICK t \in ToSet(stored) : /\ t.kind \notin {"region", "native"} /\ ~t.boot
                                   /\ caps[i] = [kcap |-> t.kcap, cap |-> tr[t.badge]]
    BY <1>11, <1>12, <2>1
  <2>3. t.kcap = k /\ caps[i].cap = tr[t.badge]
    BY <1>14, <2>2
  <2>4. PICK p \in Objs : Same(t, p)
    BY <1>1, <2>2, StoredPartners DEF RestoredInv
  <2>5. t = StoredOf(p) /\ Fixed(t) = Fixed(p)
    BY <1>1, <2>4, CurrentInfo
  <2>6. t.ts = p.ts /\ p.kind = t.kind
    BY <2>5, FixedAlike
  <2>7. slots[k] = p.badge
    BY <2>2, <2>3, <2>4, <2>6 DEF SlotsSound
  <2>8. p = o
    BY <1>5, <2>2, <2>6, <2>7 DEF RestoredInv, TargetSound
  <2> QED
    BY <1>6, <2>2, <2>3, <2>5, <2>8
<1>15. /\ \/ (\A i \in 1 .. Len(caps) : caps[i].kcap # k) /\ space[k] = AtStart(k)
          \/ \E i \in 1 .. Len(caps) : caps[i].kcap = k /\ space[k] = caps[i].cap
  BY <1>5 DEF CapSpaceInv, Installed
<1>16. CASE \E i \in 1 .. Len(caps) : caps[i].kcap = k /\ space[k] = caps[i].cap
  BY <1>10, <1>14, <1>16
<1>17. CASE (\A i \in 1 .. Len(caps) : caps[i].kcap # k) /\ space[k] = AtStart(k)
  <2>1. s.boot
    <3> SUFFICES ASSUME ~s.boot PROVE FALSE
      OBVIOUS
    <3>1. s.kcap = k
      BY <1>6, <1>8, <1>9
    <3>2. [kcap |-> s.kcap, cap |-> tr[s.badge]] \in ToSet(caps)
      BY <1>7, <1>8, <1>11, <1>12
    <3>3. PICK i \in 1 .. Len(caps) : caps[i] = [kcap |-> s.kcap, cap |-> tr[s.badge]]
      BY <1>13, <3>2
    <3>4. caps[i].kcap = k
      BY <3>1, <3>3
    <3> QED
      BY <1>17, <3>4
  <2>2. tr[s.badge] = s.badge + 1000
    BY <1>3, <1>7, <1>8, <2>1 DEF Faithful
  <2>3. o.badge \in 1 .. 999
    <3>1. BootRow(s, 0)
      BY <1>4, <1>7, <2>1, StoredRow
    <3>2. s.kind # "region" /\ s.badge \in Nat
      BY <1>5, <1>8
    <3>3. s.badge \in 0 .. 999
      BY <3>1, <3>2 DEF BootRow
    <3> QED
      BY <1>5, <1>8, <3>3
  <2>4. k <= 4 /\ o.badge = BootSlots(0)[k]
    BY <1>5, <2>3 DEF SlotsSound
  <2>5. k \in Nat /\ k >= 1
    BY <1>5, SlotsAssumption
  <2>6. AtStart(k) = BootSlots(0)[k] + 1000
    BY <2>4, <2>5, StartFacts
  <2> QED
    BY <1>8, <1>10, <1>17, <2>2, <2>4, <2>6
<1> QED
  BY <1>15, <1>16, <1>17

\* Where the target held a capability to an object, a restore that ends has
\* given the child one to its counterpart at the same selector; only what the
\* target had not yet received when the object was first stored may be missing.
THEOREM CapabilitiesRestored == Spec => []CapSpaceRestored
<1>1. RestoredInv /\ ObjectsInv /\ SlotsSound /\ CapSpaceInv /\ [Next]_vars
        => (RestoredInv /\ ObjectsInv /\ SlotsSound /\ CapSpaceInv)'
  <2>1. RestoredInv => TargetInv /\ TargetSound /\ StoredInv
    BY DEF RestoredInv
  <2> QED
    BY <2>1, RestoredKept, ObjectsKept, SlotsKept, CapSpaceKept
<1>2. Init => RestoredInv /\ ObjectsInv /\ SlotsSound /\ CapSpaceInv
  BY ObjectsInitially, SlotsInitially, CapSpaceInitially
<1> QED
  BY <1>1, <1>2, CapSpaceFromInv, PTL DEF Spec

-----------------------------------------------------------------------------
(* Targets the restorer is made for.                                       *)

\* Restorable, of the stored lists.
Able ==
  /\ \A s \in ToSet(stored) : s.kind \in {"pd", "ram"} => s.boot
  /\ \E s \in ToSet(stored) : s.kind = "pd"
  /\ \E s \in ToSet(stored) : s.kind = "ramds" /\ s.boot
  /\ \A s \in ToSet(stored) : s.sigh # 0 => \E c \in ToSet(stored) : c.kind = "context" /\ c.badge = s.sigh
  /\ \A s \in ToSet(stored) : s.kind = "context" =>
       \E t \in ToSet(stored) : t.kind = "source" /\ t.badge = s.ref
  /\ \A s \in ToSet(stored) : s.kind = "thread" =>
       \E t \in ToSet(stored) : t.kind = "pd" /\ t.badge = s.ref
  /\ \A s \in ToSet(stored) : s.kind = "region" /\ ~s.boot =>
       /\ s.owner = 101 => s.tag \notin {1, 2}
       /\ \E t \in ToSet(stored) : (t.kind = "ramds" /\ t.badge = s.ref) \/ (t.kind = "map" /\ t.ref = s.ref)
  /\ ~ArrayOverrun(Under(stored, "ramds", 3))

LEMMA OneOfKind ==
  ASSUME TargetInv, NEW kind, Cardinality(Of(kind)) = 1
  PROVE  \A o, p \in Of(kind) : o = p
<1>1. objs \in Seq(Object)
  BY DEF TargetInv, Proper
<1>2. Len(objs) \in Nat /\ DOMAIN objs = 1 .. Len(objs)
  BY <1>1
<1> DEFINE P == 1 .. Len(objs)
           f == [i \in P |-> objs[i]]
<1>3. f \in Surjection(P, Objs)
  BY <1>2 DEF Surjection, Objs, ToSet
<1>4. IsFiniteSet(P)
  BY <1>2, FS_Interval
<1> HIDE DEF f, P
<1>5. IsFiniteSet(Objs)
  BY <1>3, <1>4, FS_Surjection
<1>6. Of(kind) \in SUBSET Objs
  BY DEF Of
<1>7. IsFiniteSet(Of(kind))
  BY <1>5, <1>6, FS_Subset
<1>8. PICK x : Of(kind) = {x}
  BY <1>7, FS_Singleton
<1> QED
  BY <1>8

LEMMA AbleWhenRestorable ==
  ASSUME RestoredInv, ckPc = "taken", Restorable
  PROVE  Able
<1>1. StoredWhole /\ TargetInv /\ TargetSound
  BY WholeWhenTaken DEF RestoredInv
<1>2. ASSUME NEW s \in ToSet(stored)
      PROVE  \E o \in Objs : /\ Fixed(s) = Fixed(o) /\ s.sigh = o.sigh
  <2>1. PICK o \in Objs : Same(s, o)
    <3>1. objs \in Seq(Object) /\ Known(objs, s)
      BY <1>1 DEF Restorable, TargetInv, Proper
    <3> QED
      BY <3>1, KnownFacts, SameFacts DEF Objs
  <2>2. Current(o)
    BY DEF Restorable
  <2> QED
    BY <2>1, <2>2, CurrentInfo
<1>3. ASSUME NEW o \in Objs PROVE \E s \in ToSet(stored) : Fixed(s) = Fixed(o)
  <2>1. Current(o)
    BY DEF Restorable
  <2> QED
    BY <2>1, CurrentInfo
<1>4. ASSUME NEW t \in MustStay
      PROVE  \E o \in Objs : o.kind = t[1] /\ o.owner = t[3] /\ o.ref = t[4] /\ o.tag = t[5] /\ o.boot = t[7]
  <2>1. PICK o \in Objs : Fixed(o) = t
    BY <1>1 DEF TargetSound
  <2> QED
    BY <2>1, FixedParts
<1>5. /\ \E o \in Objs : o.kind = "pd" /\ o.boot = TRUE
      /\ \E o \in Objs : o.kind = "ram" /\ o.boot = TRUE
  <2>1. /\ <<"pd", 1, 0, 0, 0, 1, TRUE>> \in MustStay
        /\ <<"ram", 3, 0, 0, 0, 4, TRUE>> \in MustStay
    BY DEF MustStay
  <2> QED
    BY <1>4, <2>1
<1>6. ASSUME NEW s \in ToSet(stored), s.kind \in {"pd", "ram"} PROVE s.boot
  <2>1. PICK o \in Objs : Fixed(s) = Fixed(o)
    BY <1>2
  <2>2. o.kind = s.kind /\ o.boot = s.boot
    BY <2>1, FixedAlike
  <2>3. PICK p \in Objs : p.kind = s.kind /\ p.boot = TRUE
    BY <1>5, <1>6
  <2>4. Cardinality(Of(s.kind)) = 1
    BY <1>6 DEF Restorable
  <2>5. o = p
    BY <1>1, <2>2, <2>3, <2>4, OneOfKind DEF Of
  <2> QED
    BY <2>2, <2>3, <2>5
<1>7. \E s \in ToSet(stored) : s.kind = "pd"
  <2>1. PICK o \in Objs : o.kind = "pd"
    BY <1>5
  <2> QED
    BY <1>3, <2>1, FixedAlike
<1>10. \E s \in ToSet(stored) : s.kind = "ramds" /\ s.boot
  <2>1. PICK o \in Objs : o.kind = "ramds" /\ o.boot
    BY DEF Restorable, Of
  <2> QED
    BY <1>3, <2>1, FixedAlike
<1>11. ASSUME NEW s \in ToSet(stored), s.sigh # 0
       PROVE  \E c \in ToSet(stored) : c.kind = "context" /\ c.badge = s.sigh
  <2>1. PICK o \in Objs : s.sigh = o.sigh
    BY <1>2
  <2>2. PICK p \in Objs : p.kind = "context" /\ p.badge = s.sigh
    BY <1>11, <2>1 DEF Restorable, Of
  <2> QED
    BY <1>3, <2>2, FixedAlike
<1>12. ASSUME NEW s \in ToSet(stored), s.kind = "context"
       PROVE  \E t \in ToSet(stored) : t.kind = "source" /\ t.badge = s.ref
  <2>1. PICK o \in Objs : Fixed(s) = Fixed(o)
    BY <1>2
  <2>2. o.kind = "context" /\ o.ref = s.ref
    BY <1>12, <2>1, FixedAlike
  <2>3. PICK p \in Objs : p.kind = "source" /\ p.badge = s.ref
    BY <2>2 DEF Restorable, Of
  <2> QED
    BY <1>3, <2>3, FixedAlike
<1>13. ASSUME NEW s \in ToSet(stored), s.kind = "thread"
       PROVE  \E t \in ToSet(stored) : t.kind = "pd" /\ t.badge = s.ref
  <2>1. PICK o \in Objs : Fixed(s) = Fixed(o)
    BY <1>2
  <2>2. o.kind = "thread" /\ o.ref = s.ref
    BY <1>13, <2>1, FixedAlike
  <2>3. PICK p \in Objs : p.kind = "pd" /\ p.badge = s.ref
    BY <2>2 DEF Restorable, Of
  <2> QED
    BY <1>3, <2>3, FixedAlike
<1>14. ASSUME NEW s \in ToSet(stored), s.kind = "region", ~s.boot
       PROVE  /\ s.owner = 101 => s.tag \notin {1, 2}
              /\ \E t \in ToSet(stored) : (t.kind = "ramds" /\ t.badge = s.ref) \/ (t.kind = "map" /\ t.ref = s.ref)
  <2>1. PICK o \in Objs : Fixed(s) = Fixed(o)
    BY <1>2
  <2>2. o.kind = "region" /\ o.ref = s.ref /\ o.owner = s.owner /\ o.tag = s.tag /\ ~o.boot
    BY <1>14, <2>1, FixedAlike
  <2>3. s.ref \in Dataspaces \ {ForeignDs} /\ ~(s.owner = SpaceOf(1) /\ s.tag \in {1, 2})
    BY <2>2 DEF Restorable, Of
  <2>4. PICK p \in Objs : (p.kind = "ramds" /\ p.badge = s.ref) \/ (p.kind = "map" /\ p.ref = s.ref)
    BY <2>3 DEF Dataspaces, Of
  <2>5. PICK t \in ToSet(stored) : Fixed(t) = Fixed(p)
    BY <1>3
  <2>6. (t.kind = "ramds" /\ t.badge = s.ref) \/ (t.kind = "map" /\ t.ref = s.ref)
    BY <2>4, <2>5, FixedAlike
  <2> QED
    BY <2>3, <2>6 DEF SpaceOf
<1>15. ~ArrayOverrun(Under(stored, "ramds", 3))
  BY DEF Restorable
<1> QED
  BY <1>6, <1>7, <1>10, <1>11, <1>12, <1>13, <1>14, <1>15 DEF Able

-----------------------------------------------------------------------------
(* What the first walk looks up has been made before.                      *)

\* What a PD session holds: its sources come ahead of its contexts.
LEMMA MembersAhead ==
  ASSUME StoredWhole, NEW badge
  PROVE  LET kinds == <<"source", "context", "space">>
             f == FlattenSeq([k \in DOMAIN kinds |-> Under(stored, kinds[k], badge)])
         IN  f \in Seq(Object) /\ Ahead(f, {"source"}, {"context"})
<1> DEFINE kinds == <<"source", "context", "space">>
           m == [k \in DOMAIN kinds |-> Under(stored, kinds[k], badge)]
           f == FlattenSeq(m)
<1>1. DOMAIN kinds = 1 .. 3 /\ kinds[1] = "source" /\ kinds[2] = "context" /\ kinds[3] = "space"
  OBVIOUS
<1> HIDE DEF kinds
<1>2. ASSUME NEW k \in 1 .. 3
      PROVE  m[k] \in Seq(Object) /\ \A o \in ToSet(m[k]) : o.kind = kinds[k]
  <2>1. m[k] = Under(stored, kinds[k], badge)
    BY <1>1
  <2> HIDE DEF m
  <2> QED
    BY <2>1, OnceUnder
<1>3. m = [k \in 1 .. 3 |-> m[k]]
  BY <1>1
<1> HIDE DEF m
<1>4. m \in Seq(Seq(Object)) /\ Len(m) = 3
  <2>1. PICK n \in Nat : n = 3
    OBVIOUS
  <2>2. m = [k \in 1 .. n |-> m[k]] /\ \A k \in 1 .. n : m[k] \in Seq(Object)
    BY <1>2, <1>3, <2>1
  <2>3. m \in [1 .. n -> Seq(Object)]
    BY <2>2
  <2>4. m \in Seq(Seq(Object))
    <3> DEFINE C == Seq(Object)
    <3>1. m \in [1 .. n -> C]
      BY <2>3
    <3> HIDE DEF C
    <3>2. m \in Seq(C)
      BY <3>1, SeqDef
    <3> QED
      BY <3>2 DEF C
  <2>5. Len(m) \in Nat /\ 1 .. Len(m) = 1 .. 3
    BY <2>1, <2>2, <2>4, LenProperties
  <2>6. Len(m) = n
    <3>1. PICK k \in Nat : k = Len(m) /\ 1 .. k = 1 .. 3
      BY <2>5
    <3>2. 3 \in 1 .. k
      BY <3>1
    <3>3. k \in 1 .. k
      BY <3>2
    <3>4. k \in 1 .. 3
      BY <3>1, <3>3
    <3> QED
      BY <2>1, <3>1, <3>2, <3>4
  <2> QED
    BY <2>1, <2>4, <2>6
<1>5. f \in Seq(Object) /\ \E which, at : Places(f, m, Len(m), which, at)
  BY <1>4, FlattenPlaces
<1> HIDE DEF f
<1>6. PICK which, at : Places(f, m, 3, which, at)
  BY <1>4, <1>5
<1>7. ASSUME NEW i \in 1 .. Len(f)
      PROVE  which[i] \in 1 .. 3 /\ f[i].kind = kinds[which[i]]
  <2>1. which[i] \in 1 .. 3 /\ at[i] \in 1 .. Len(m[which[i]]) /\ f[i] = m[which[i]][at[i]]
    BY <1>6 DEF Places
  <2>2. m[which[i]] \in Seq(Object)
    BY <1>2, <2>1
  <2>3. f[i] \in ToSet(m[which[i]])
    BY <2>1, <2>2, ListElements
  <2> QED
    BY <1>2, <2>1, <2>3
<1>8. ASSUME NEW i \in 1 .. Len(f), NEW j \in 1 .. Len(f), f[i].kind = "source", f[j].kind = "context"
      PROVE  i < j
  <2>1. which[i] = 1 /\ which[j] = 2
    BY <1>1, <1>7, <1>8
  <2>2. i # j
    BY <1>8
  <2>3. Len(f) \in Nat
    BY <1>5
  <2>4. j < i => j \in 1 .. i - 1
    BY <2>3
  <2>5. j < i => which[j] < which[i] \/ (which[j] = which[i] /\ at[j] < at[i])
    BY <1>6, <2>4 DEF Places
  <2>6. ~(j < i)
    BY <2>1, <2>5
  <2> QED
    BY <2>2, <2>3, <2>6
<1>9. Ahead(f, {"source"}, {"context"})
  BY <1>8 DEF Ahead
<1> QED
  BY <1>5, <1>9 DEF f, m, kinds

\* The one PD session and what it holds.
LEMMA PdWalkAhead ==
  ASSUME StoredWhole, Able
  PROVE  Ahead(Walk("pd", <<"source", "context", "space">>), {"source"}, {"context"})
<1> DEFINE kinds == <<"source", "context", "space">>
           sessions == Under(stored, "pd", 0)
           members(s) == [k \in DOMAIN kinds |-> Under(stored, kinds[k], s.badge)]
           walks == [i \in DOMAIN sessions |-> <<sessions[i]>> \o FlattenSeq(members(sessions[i]))]
<1>1. Walk("pd", kinds) = FlattenSeq(walks)
  BY DEF Walk
<1>2. /\ sessions \in Seq(Object) /\ EachOnce(sessions)
      /\ ToSet(sessions) = {o \in ToSet(stored) : o.kind = "pd" /\ o.owner = 0}
  BY OnceUnder
<1> HIDE DEF sessions
<1>3. /\ Len(sessions) \in Nat /\ DOMAIN sessions = 1 .. Len(sessions)
      /\ \A i \in DOMAIN sessions : sessions[i] \in Object /\ sessions[i] \in ToSet(sessions)
  BY <1>2, ListElements
<1>4. Len(sessions) = 1
  <2>1. \A s \in ToSet(stored) : s.kind = "pd" => s.badge = 1 /\ s.owner = 0
    BY StoredBoot DEF Able, SessionKind
  <2>2. \A s, t \in ToSet(sessions) : s = t
    BY <1>2, <2>1 DEF StoredWhole
  <2>3. Len(sessions) < 2
    <3> SUFFICES ASSUME Len(sessions) >= 2 PROVE FALSE
      BY <1>3
    <3>1. 1 \in 1 .. Len(sessions) /\ 2 \in 1 .. Len(sessions)
      BY <1>3
    <3>2. sessions[1] = sessions[2]
      BY <1>3, <2>2, <3>1
    <3> QED
      BY <1>2, <3>1, <3>2 DEF EachOnce
  <2>4. \E s \in ToSet(sessions) : TRUE
    BY <1>2, <2>1 DEF Able
  <2>5. Len(sessions) # 0
    BY <1>3, <2>4 DEF ToSet
  <2> QED
    BY <1>3, <2>3, <2>5
<1> DEFINE p == sessions[1]
           a == <<p>>
           f == FlattenSeq(members(p))
<1>5. p \in Object /\ p.kind = "pd"
  BY <1>2, <1>3, <1>4
<1>6. walks = [i \in 1 .. 1 |-> walks[i]] /\ walks[1] = a \o f
  BY <1>3, <1>4
<1>7. f \in Seq(Object) /\ Ahead(f, {"source"}, {"context"})
  BY MembersAhead
<1> HIDE DEF p
<1>8. a \in Seq(Object) /\ ToSet(a) = {p}
  BY <1>5, OnceOne
<1>9. Ahead(a, {"source"}, {"context"})
  BY <1>5 DEF Ahead
<1> HIDE DEF a, f, walks, kinds
<1>10. Ahead(a \o f, {"source"}, {"context"}) /\ a \o f \in Seq(Object)
  <2>1. \A o \in ToSet(a) : o.kind \notin {"context"}
    BY <1>5, <1>8
  <2> QED
    BY <1>7, <1>8, <1>9, <2>1, AheadBoth, ConcatSet
<1>11. walks \in Seq(Seq(Object)) /\ Len(walks) = 1
  <2>1. PICK n \in Nat : n = 1
    OBVIOUS
  <2>2. walks = [i \in 1 .. n |-> walks[i]]
    BY <1>6, <2>1
  <2>3. \A i \in 1 .. n : walks[i] \in Seq(Object)
    <3> TAKE i \in 1 .. n
    <3>1. i = 1
      BY <2>1
    <3>2. walks[1] \in Seq(Object)
      BY <1>6, <1>10
    <3> QED
      BY <3>1, <3>2
  <2>4. walks \in [1 .. n -> Seq(Object)]
    BY <2>2, <2>3
  <2>5. walks \in Seq(Seq(Object))
    <3> DEFINE C == Seq(Object)
    <3>1. walks \in [1 .. n -> C]
      BY <2>4
    <3> HIDE DEF C
    <3>2. walks \in Seq(C)
      BY <3>1, SeqDef
    <3> QED
      BY <3>2 DEF C
  <2>6. Len(walks) \in Nat /\ 1 .. Len(walks) = 1 .. 1
    BY <2>1, <2>2, <2>5, LenProperties
  <2>7. Len(walks) = n
    <3>1. PICK k \in Nat : k = Len(walks) /\ 1 .. k = 1 .. 1
      BY <2>6
    <3>2. 1 \in 1 .. k
      BY <3>1
    <3>3. k \in 1 .. k
      BY <3>2
    <3>4. k \in 1 .. 1
      BY <3>1, <3>3
    <3> QED
      BY <2>1, <3>1, <3>2, <3>4
  <2> QED
    BY <2>1, <2>5, <2>7
<1>12. FlattenSeq(walks) = walks[1]
  <2> DEFINE C == Seq(Object)
  <2>1. \A x, y \in C : x \o y \in C
    BY ConcatSet
  <2> HIDE DEF C
  <2>2. walks \in Seq(C) /\ Len(walks) # 0
    BY <1>11 DEF C
  <2>3. \E flat : flat[1] = walks[1] /\ FlattenSeq(walks) = flat[Len(walks)]
    BY <2>1, <2>2, FlattenRounds
  <2> QED
    BY <1>11, <2>3
<1> QED
  BY <1>1, <1>6, <1>10, <1>12 DEF kinds

LEMMA IdentifyWalkAhead ==
  ASSUME StoredWhole, Able
  PROVE  Ahead(IdentifyWalk, {"source"}, {"context"}) /\ Ahead(IdentifyWalk, {"pd"}, {"thread"})
<1> DEFINE ram == Walk("ram", <<"ramds">>)
           pd == Walk("pd", <<"source", "context", "space">>)
           cpu == Walk("cpu", <<"thread">>)
           rm == Walk("rm", <<"map">>)
           log == Walk("log", <<>>)
           timer == Walk("timer", <<>>)
           all == ram \o pd \o cpu \o rm \o log \o timer
<1>1. /\ ToSet(ram) = {o \in ToSet(stored) : o.kind \in {"ram", "ramds"}}
      /\ ToSet(pd) = {o \in ToSet(stored) : o.kind \in {"pd", "source", "context", "space"}}
      /\ ToSet(cpu) = {o \in ToSet(stored) : o.kind \in {"cpu", "thread"}}
      /\ ToSet(rm) = {o \in ToSet(stored) : o.kind \in {"rm", "map"}}
      /\ ToSet(log) = {o \in ToSet(stored) : o.kind = "log"}
      /\ ToSet(timer) = {o \in ToSet(stored) : o.kind = "timer"}
  BY WalksOver
<1>2. \A w \in {ram, pd, cpu, rm, log, timer} : w \in Seq(Object)
  BY WalksOver
<1>3. Ahead(pd, {"source"}, {"context"})
  BY PdWalkAhead
<1>4. IdentifyWalk = all
  BY DEF IdentifyWalk
<1> HIDE DEF ram, pd, cpu, rm, log, timer
<1>5. \A w \in {ram, pd, cpu, rm, log, timer} : \A i \in 1 .. Len(w) : w[i] \in ToSet(w)
  BY <1>2, ListElements
<1>6. ASSUME NEW F, NEW L, \A w \in {ram, pd, cpu, rm, log, timer} : Ahead(w, F, L),
             \A o \in ToSet(ram) : o.kind \notin L,
             \A o \in ToSet(cpu) \cup ToSet(rm) \cup ToSet(log) \cup ToSet(timer) : o.kind \notin F
      PROVE  Ahead(all, F, L)
  <2> DEFINE C == {w \in Seq(Object) : Ahead(w, F, L)}
             D == {w \in C : \A o \in ToSet(w) : o.kind \notin F}
  <2>1. ASSUME NEW a \in C, NEW b \in D PROVE a \o b \in C
    <3>1. a \o b \in Seq(Object)
      BY ConcatSet
    <3>2. Ahead(a \o b, F, L)
      BY AheadBoth
    <3> QED
      BY <3>1, <3>2
  <2>2. ram \o pd \in C
    <3>1. ram \o pd \in Seq(Object)
      BY <1>2, ConcatSet
    <3>2. Ahead(ram \o pd, F, L)
      BY <1>2, <1>6, AheadBoth
    <3> QED
      BY <3>1, <3>2
  <2>3. cpu \in D /\ rm \in D /\ log \in D /\ timer \in D
    BY <1>2, <1>6
  <2> HIDE DEF C, D
  <2>4. all \in C
    BY <2>1, <2>2, <2>3
  <2> QED
    BY <2>4 DEF C
<1> HIDE DEF all
<1>7. Ahead(all, {"source"}, {"context"})
  <2> DEFINE F == {"source"}
             L == {"context"}
  <2>1. \A w \in {ram, cpu, rm, log, timer} : \A i \in 1 .. Len(w) : w[i].kind \notin F
    BY <1>1, <1>5
  <2>2. \A w \in {ram, pd, cpu, rm, log, timer} : Ahead(w, F, L)
    BY <1>3, <2>1 DEF Ahead
  <2>3. \A o \in ToSet(ram) : o.kind \notin L
    BY <1>1
  <2>4. \A o \in ToSet(cpu) \cup ToSet(rm) \cup ToSet(log) \cup ToSet(timer) : o.kind \notin F
    BY <1>1
  <2> HIDE DEF F, L
  <2>5. Ahead(all, F, L)
    BY <1>6, <2>2, <2>3, <2>4
  <2> QED
    BY <2>5 DEF F, L
<1>8. Ahead(all, {"pd"}, {"thread"})
  <2> DEFINE F == {"pd"}
             L == {"thread"}
  <2>1. /\ \A w \in {ram, cpu, rm, log, timer} : \A i \in 1 .. Len(w) : w[i].kind \notin F
        /\ \A i \in 1 .. Len(pd) : pd[i].kind \notin L
    BY <1>1, <1>5
  <2>2. \A w \in {ram, pd, cpu, rm, log, timer} : Ahead(w, F, L)
    BY <2>1 DEF Ahead
  <2>3. \A o \in ToSet(ram) : o.kind \notin L
    BY <1>1
  <2>4. \A o \in ToSet(cpu) \cup ToSet(rm) \cup ToSet(log) \cup ToSet(timer) : o.kind \notin F
    BY <1>1
  <2> HIDE DEF F, L
  <2>5. Ahead(all, F, L)
    BY <1>6, <2>2, <2>3, <2>4
  <2> QED
    BY <2>5 DEF F, L
<1> QED
  BY <1>4, <1>7, <1>8

-----------------------------------------------------------------------------
(* The first walk finds all it looks up.                                   *)

\* The first RAM session of the target has bootstrapped dataspaces.
LEMMA SomeStamps ==
  ASSUME StoredWhole, Able
  PROVE  DOMAIN StampsOfBoot(Under(stored, "ramds", 3)) # {}
<1> DEFINE u == Under(stored, "ramds", 3)
           set == {o \in ToSet(u) : o.boot}
           boot == Only(u, set)
<1>1. stored \in Seq(Object)
  BY DEF StoredWhole
<1>2. u \in Seq(Object) /\ ToSet(u) = {o \in ToSet(stored) : o.kind = "ramds" /\ o.owner = 3}
  BY <1>1, UnderFacts
<1>3. PICK s \in ToSet(stored) : s.kind = "ramds" /\ s.boot
  BY DEF Able
<1>4. s \in ToSet(u)
  BY <1>2, <1>3, StoredBoot
<1>5. StampsOfBoot(u) = [i \in DOMAIN boot |-> boot[i].ts]
  BY DEF StampsOfBoot
<1>6. boot \in Seq(Object) /\ ToSet(boot) = ToSet(u) \cap set
  BY <1>2, OnlyFacts
<1>7. s \in ToSet(boot)
  BY <1>3, <1>4, <1>6
<1> HIDE DEF boot
<1>8. DOMAIN boot # {}
  BY <1>7 DEF ToSet
<1> HIDE DEF u
<1> QED
  BY <1>5, <1>8 DEF u

\* What has been treated is found by the badge it was translated to.
LEMMA FoundTreated ==
  ASSUME StoredWhole, ChildSound, NEW seen, Matched(seen), NEW t \in seen
  PROVE  t.badge \in DOMAIN tr /\ IsChild(t.kind, tr[t.badge])
<1>1. t.badge \in DOMAIN tr
  BY TrFacts
<1> QED
  BY <1>1 DEF Matched, IsChild

LEMMA GoesOn ==
  ASSUME Able, NEW seen, Ready(seen), rsPc = "identify", Identify,
         S.kind = "context" => \E t \in seen : t.kind = "source" /\ t.badge = S.ref,
         S.kind = "thread" => \E t \in seen : t.kind = "pd" /\ t.badge = S.ref
  PROVE  rsPc' = rsPc
<1>1. StoredWhole /\ ChildSound /\ Matched(seen) /\ S \in ToSet(stored)
  BY DEF Ready
<1>2. CASE IdentifyRam
  <2>1. S.kind = "ram"
    BY <1>2 DEF IdentifyRam, Visit, S
  <2>2. S.boot
    BY <1>1, <2>1 DEF Able
  <2>3. S.badge = 3
    BY <1>1, <2>1, <2>2, StoredBoot
  <2>4. DOMAIN StampsOfBoot(Under(stored, "ramds", S.badge)) # {}
    BY <1>1, <2>3, SomeStamps
  <2>5. ~ArrayOverrun(Under(stored, "ramds", S.badge))
    BY <2>3 DEF Able
  <2> QED
    BY <1>2, <2>4, <2>5 DEF IdentifyRam
<1>3. CASE IdentifyPd
  <2>1. S.kind = "pd"
    BY <1>3 DEF IdentifyPd, Visit, S
  <2>2. S.boot
    BY <1>1, <2>1 DEF Able
  <2> QED
    BY <1>3, <2>2 DEF IdentifyPd
<1>4. CASE IdentifyContext
  <2>1. S.kind = "context"
    BY <1>4 DEF IdentifyContext, Visit, S
  <2>2. PICK t \in seen : t.kind = "source" /\ t.badge = S.ref
    BY <2>1
  <2>3. S.ref \in DOMAIN tr /\ IsChild("source", tr[S.ref])
    BY <1>1, <2>2, FoundTreated
  <2> QED
    BY <1>4, <2>3 DEF IdentifyContext
<1>5. CASE IdentifyThread
  <2>1. S.kind = "thread"
    BY <1>5 DEF IdentifyThread, Visit, S
  <2>2. PICK t \in seen : t.kind = "pd" /\ t.badge = S.ref
    BY <2>1
  <2>3. S.ref \in DOMAIN tr /\ IsChild("pd", tr[S.ref])
    BY <1>1, <2>2, FoundTreated
  <2> QED
    BY <1>5, <2>3 DEF IdentifyThread, PdTranslated
<1>6. CASE IdentifyRamds \/ IdentifySource \/ IdentifySpace \/ IdentifyCpu \/ IdentifyRm
        \/ IdentifyMap \/ IdentifyLog \/ IdentifyTimer
  BY <1>6 DEF IdentifyRamds, IdentifySource, IdentifySpace, IdentifyCpu, IdentifyRm, IdentifyMap,
     IdentifyLog, IdentifyTimer
<1> QED
  BY <1>2, <1>3, <1>4, <1>5, <1>6 DEF Identify

-----------------------------------------------------------------------------
(* What the second walk needs of the first: region maps with their         *)
(* dataspaces, and told apart.                                             *)

MapsTold(seen) ==
  /\ \A s \in seen : IsMap(s) =>
       /\ \E c \in ToSet(child) : c.kind = s.kind /\ c.badge = tr[s.badge] /\ c.ref = tr[s.ref]
       /\ s.kind = "space" => tr[s.badge] = 1101
       /\ s.kind = "map" => tr[s.badge] \in Nat /\ tr[s.badge] >= 1011000
  /\ \A s, t \in seen : s.kind = "map" /\ t.kind = "map" /\ tr[s.badge] = tr[t.badge] => s = t

\* Until the end of the first walk new badges are larger, and the child has
\* only the attachments of its bootstrap.
Fresh(seen) ==
  /\ \A s \in seen : s.kind = "map" => tr[s.badge] < NewBadge
  /\ \A c \in ToSet(child) : c.kind = "region" => c.boot

LEMMA MapsStep ==
  ASSUME NEW seen, Ready(seen), MapsTold(seen), Fresh(seen), Goes(S), NEW s, s = S, s \notin seen
  PROVE  MapsTold(seen \cup {s})' /\ Fresh(seen \cup {s})'
<1>1. PICK c : Translated(s, c) /\ (Found(s, c) \/ Made(s, c))
  BY DEF Goes, Treated
<1>2. /\ StoredWhole /\ ChildSound /\ Matched(seen) /\ child \in Seq(Object)
      /\ s \in ToSet(stored) /\ s.kind \notin {"region", "native"}
  BY DEF Ready, ChildSound
<1>3. PICK new : new = NewBadge
  OBVIOUS
<1>4. Len(child) \in Nat /\ new = 1011000 + 1000 * Len(child) /\ new \in Nat /\ new >= 1011000
  BY <1>2, <1>3, NewBadgeFacts
<1>5. ASSUME NEW t \in seen PROVE tr'[t.badge] = tr[t.badge] /\ (IsMap(t) => tr'[t.ref] = tr[t.ref])
  <2>1. Keys(t) \subseteq DOMAIN tr /\ \A b \in DOMAIN tr : tr'[b] = tr[b]
    BY <1>1, StillTranslated
  <2>2. t.badge \in Keys(t) /\ (IsMap(t) => t.ref \in Keys(t))
    BY DEF Keys
  <2> QED
    BY <2>1, <2>2
<1>6. tr'[s.badge] = c.badge /\ (IsMap(s) => tr'[s.ref] = c.ref)
  BY <1>1 DEF Translated
<1>7. /\ \A o \in ToSet(child) : o \in ToSet(child')
      /\ c \in ToSet(child') /\ c.kind = s.kind
      /\ \A o \in ToSet(child') : o.kind = "region" => o \in ToSet(child)
      /\ s.kind = "space" => c.badge = 1101
      /\ s.kind = "map" => c.badge = new /\ NewBadge' > new
      /\ NewBadge' >= new
  <2>1. CASE Found(s, c)
    <3>1. child' = child /\ c \in ToSet(child) /\ c.kind = s.kind /\ s.boot
      BY <2>1 DEF Found
    <3>2. s.kind # "map"
      BY <1>2, <3>1, StoredBoot
    <3>3. s.kind = "space" => c.badge = 1101
      <4> SUFFICES ASSUME s.kind = "space" PROVE c.badge = 1101
        OBVIOUS
      <4>1. s.badge = 101
        BY <1>2, <3>1, StoredBoot
      <4>2. c.badge = s.badge + 1000
        BY <2>1 DEF Found
      <4> QED
        BY <4>1, <4>2
    <3>4. NewBadge' = new
      BY <1>3, <3>1 DEF NewBadge
    <3> QED
      BY <1>4, <3>1, <3>2, <3>3, <3>4
  <2>2. CASE Made(s, c)
    <3>1. child' = Cons(c, child) /\ c \in Object /\ s.kind # "space" /\ c.kind = s.kind /\ c.badge = new
      BY <1>3, <2>2 DEF Made, Obj
    <3>2. ToSet(child') = {c} \cup ToSet(child) /\ Len(child') = Len(child) + 1
      <4>1. c \in Object /\ child \in Seq(Object)
        BY <1>2, <3>1
      <4>2. ToSet(Cons(c, child)) = {c} \cup ToSet(child) /\ Len(Cons(c, child)) = Len(child) + 1
        BY <4>1, ConsFacts
      <4> QED
        BY <3>1, <4>2
    <3>3. NewBadge' = new + 1000
      <4>1. NewBadge' = 1000 * (1011 + (Len(child) + 1))
        BY <3>2 DEF NewBadge, NthBadge
      <4> QED
        BY <1>4, <4>1
    <3> QED
      BY <1>2, <1>4, <3>1, <3>2, <3>3
  <2> QED
    BY <1>1, <2>1, <2>2
<1>8. /\ \A t \in seen : t.kind = "map" => tr[t.badge] \in Nat /\ tr[t.badge] < new
      /\ NewBadge' \in Int
  <2>1. ASSUME NEW t \in seen, t.kind = "map" PROVE tr[t.badge] \in Nat /\ tr[t.badge] < new
    BY <1>3, <2>1 DEF MapsTold, Fresh, IsMap
  <2>2. \A o : NewBadge' = 1000 * (1011 + Len(child'))
    BY DEF NewBadge, NthBadge
  <2>3. child' \in Seq(Object)
    BY <1>2, TreatedFacts DEF Goes, ChildSound
  <2>4. Len(child') \in Nat
    BY <2>3, LenProperties
  <2> QED
    BY <2>1, <2>2, <2>4
<1>9. ASSUME NEW t \in seen \cup {s}, IsMap(t)
      PROVE  /\ \E o \in ToSet(child') : o.kind = t.kind /\ o.badge = tr'[t.badge] /\ o.ref = tr'[t.ref]
             /\ t.kind = "space" => tr'[t.badge] = 1101
             /\ t.kind = "map" => tr'[t.badge] \in Nat /\ tr'[t.badge] >= 1011000
  <2>1. CASE t = s
    BY <1>4, <1>6, <1>7, <1>9, <2>1
  <2>2. CASE t \in seen
    <3>1. PICK o \in ToSet(child) : o.kind = t.kind /\ o.badge = tr[t.badge] /\ o.ref = tr[t.ref]
      BY <1>9, <2>2 DEF MapsTold
    <3>2. /\ t.kind = "space" => tr[t.badge] = 1101
          /\ t.kind = "map" => tr[t.badge] \in Nat /\ tr[t.badge] >= 1011000
      BY <1>9, <2>2 DEF MapsTold
    <3>3. tr'[t.badge] = tr[t.badge] /\ tr'[t.ref] = tr[t.ref]
      BY <1>5, <1>9, <2>2
    <3> QED
      BY <1>7, <3>1, <3>2, <3>3
  <2> QED
    BY <2>1, <2>2
<1>10. ASSUME NEW t \in seen \cup {s}, NEW u \in seen \cup {s},
              t.kind = "map", u.kind = "map", tr'[t.badge] = tr'[u.badge]
       PROVE  t = u
  <2>1. CASE t \in seen /\ u \in seen
    BY <1>5, <1>10, <2>1 DEF MapsTold
  <2>2. CASE t = s /\ u \in seen
    <3>1. tr'[t.badge] = new /\ tr'[u.badge] = tr[u.badge]
      BY <1>5, <1>6, <1>7, <1>10, <2>2
    <3> QED
      BY <1>4, <1>8, <1>10, <2>2, <3>1
  <2>3. CASE t \in seen /\ u = s
    <3>1. tr'[u.badge] = new /\ tr'[t.badge] = tr[t.badge]
      BY <1>5, <1>6, <1>7, <1>10, <2>3
    <3> QED
      BY <1>4, <1>8, <1>10, <2>3, <3>1
  <2> QED
    BY <2>1, <2>2, <2>3
<1>11. MapsTold(seen \cup {s})'
  BY <1>9, <1>10 DEF MapsTold
<1>12. ASSUME NEW t \in seen \cup {s}, t.kind = "map" PROVE tr'[t.badge] < NewBadge'
  <2>1. CASE t = s
    BY <1>6, <1>7, <1>12, <2>1
  <2>2. CASE t \in seen
    <3>1. tr'[t.badge] = tr[t.badge] /\ tr[t.badge] \in Nat /\ tr[t.badge] < new
      BY <1>5, <1>8, <1>12, <2>2
    <3> QED
      BY <1>4, <1>7, <1>8, <3>1
  <2> QED
    BY <2>1, <2>2
<1>13. Fresh(seen \cup {s})'
  BY <1>7, <1>12 DEF Fresh
<1> QED
  BY <1>11, <1>13

\* The first walk under way.
Telling ==
  \E w, n, seen : /\ w = IdentifyWalk /\ n \in Nat /\ Rest(n, w)
                  /\ seen = {w[i] : i \in 1 .. n} /\ Matched(seen) /\ MapsTold(seen) /\ Fresh(seen)

LEMMA TellingStarts ==
  ASSUME StoredWhole, LogRequest, tr = Nothing
  PROVE  Telling' /\ rsPc' = "identify"
<1>1. todo' = IdentifyWalk /\ tr' = tr /\ UNCHANGED stored /\ rsPc' = "identify"
  BY DEF LogRequest, outside, ckVars
<1>2. PICK w \in Seq(Object) : w = IdentifyWalk
  BY IdentifyWalkFacts
<1>3. w = IdentifyWalk'
  BY <1>1, <1>2, WalksSame
<1>4. Rest(0, w)'
  BY <1>1, <1>2, RestStart
<1>5. PICK none : none = {}
  OBVIOUS
<1>6. Matched(none)'
  BY <1>1, <1>5 DEF Matched, Nothing
<1>7. MapsTold(none)'
  BY <1>5 DEF MapsTold
<1>8. \A c \in ToSet(child') : c.boot
  <2>1. child' = Reverse(Bootstrapped(1000))
    BY DEF LogRequest
  <2>2. PICK d \in Nat : d = 1000
    OBVIOUS
  <2> DEFINE b == Bootstrapped(d)
  <2> HIDE DEF b
  <2>3. b \in Seq(Object) /\ \A o \in ToSet(b) : o.boot
    <3>1. LET l == Bootstrapped(d)
          IN  l \in Seq(Object) /\ \A o \in ToSet(l) : o.boot
      BY BootFacts
    <3> QED
      BY <3>1 DEF b
  <2>4. ToSet(Reverse(b)) = ToSet(b)
    BY <2>3, ReverseFacts
  <2> QED
    BY <2>1, <2>2, <2>3, <2>4 DEF b
<1>9. Fresh(none)'
  BY <1>5, <1>8 DEF Fresh
<1>10. 0 \in Nat /\ none = {w[i] : i \in 1 .. 0}
  BY <1>5
<1>11. Telling'
  BY <1>3, <1>4, <1>6, <1>7, <1>9, <1>10 DEF Telling
<1> QED
  BY <1>1, <1>11

LEMMA TellingStep ==
  ASSUME StoredWhole, ChildSound, Able, Telling, Identify, UNCHANGED stored
  PROVE  Telling' /\ rsPc' = "identify"
<1>1. PICK w, n, seen : /\ w = IdentifyWalk /\ n \in Nat /\ Rest(n, w)
                        /\ seen = {w[i] : i \in 1 .. n} /\ Matched(seen) /\ MapsTold(seen) /\ Fresh(seen)
  BY DEF Telling
<1>2. rsPc = "identify" /\ todo # <<>> /\ todo' = Tail(todo)
  BY IdentifySteps
<1>3. /\ w \in Seq(Object) /\ Placed(w) /\ EachOnce(w)
      /\ ToSet(w) = {o \in ToSet(stored) : o.kind \notin {"region", "native"}}
      /\ Ahead(w, {"source"}, {"context"}) /\ Ahead(w, {"pd"}, {"thread"})
  BY <1>1, IdentifyWalkFacts, IdentifyWalkOnce, IdentifyWalkAhead
<1>4. /\ n + 1 \in 1 .. Len(w) /\ Len(w) \in Nat /\ S = w[n + 1] /\ S \in ToSet(w) /\ S \in Object
      /\ Rest(n + 1, w)'
  BY <1>1, <1>2, <1>3, RestNext
<1>5. Reachable(S, seen)
  <2>1. n + 1 - 1 = n
    BY <1>1
  <2> QED
    BY <1>1, <1>3, <1>4, <2>1 DEF Reachable, Placed
<1>6. Ready(seen)
  BY <1>1, <1>3, <1>4, <1>5 DEF Ready
<1>7. DOMAIN w = 1 .. Len(w)
  BY <1>3, LenProperties
<1>8. ASSUME NEW first, NEW last, Ahead(w, first, last), S.kind \in last,
             NEW t \in ToSet(stored), t.kind \in first, t.kind \notin {"region", "native"}
      PROVE  t \in seen
  <2>1. PICK j \in 1 .. Len(w) : w[j] = t
    BY <1>3, <1>7, <1>8 DEF ToSet
  <2>2. j < n + 1
    BY <1>4, <1>8, <2>1 DEF Ahead
  <2>3. j \in 1 .. n
    BY <1>1, <2>1, <2>2
  <2> QED
    BY <1>1, <2>1, <2>3
<1>9. S.kind = "context" => \E t \in seen : t.kind = "source" /\ t.badge = S.ref
  <2> SUFFICES ASSUME S.kind = "context" PROVE \E t \in seen : t.kind = "source" /\ t.badge = S.ref
    OBVIOUS
  <2>1. PICK t \in ToSet(stored) : t.kind = "source" /\ t.badge = S.ref
    BY <1>3, <1>4 DEF Able
  <2>2. t \in seen
    BY <1>3, <1>8, <2>1
  <2> QED
    BY <2>1, <2>2
<1>10. S.kind = "thread" => \E t \in seen : t.kind = "pd" /\ t.badge = S.ref
  <2> SUFFICES ASSUME S.kind = "thread" PROVE \E t \in seen : t.kind = "pd" /\ t.badge = S.ref
    OBVIOUS
  <2>1. PICK t \in ToSet(stored) : t.kind = "pd" /\ t.badge = S.ref
    BY <1>3, <1>4 DEF Able
  <2>2. t \in seen
    BY <1>3, <1>8, <2>1
  <2> QED
    BY <2>1, <2>2
<1>11. rsPc' = rsPc
  BY <1>2, <1>6, <1>9, <1>10, GoesOn
<1>12. Goes(S)
  <2>1. Goes(S) \/ Stops
    BY <1>2, <1>6, IdentifyFinds
  <2> QED
    BY <1>2, <1>11, <2>1 DEF Stops
<1>13. PICK s : s = S
  OBVIOUS
<1>14. s \notin seen
  <2> SUFFICES ASSUME NEW i \in 1 .. n, w[i] = w[n + 1] PROVE FALSE
    BY <1>1, <1>4, <1>13
  <2>1. i \in 1 .. Len(w) /\ i # n + 1
    BY <1>1, <1>4
  <2> QED
    BY <1>3, <1>4, <2>1 DEF EachOnce
<1>15. Matched(seen \cup {s})'
  BY <1>6, <1>12, <1>13, MatchedStep
<1>16. MapsTold(seen \cup {s})' /\ Fresh(seen \cup {s})'
  BY <1>1, <1>6, <1>12, <1>13, <1>14, MapsStep
<1>17. seen \cup {s} = {w[i] : i \in 1 .. n + 1}
  <2>1. 1 .. n + 1 = 1 .. n \cup {n + 1}
    BY <1>1
  <2> QED
    BY <1>1, <1>4, <1>13, <2>1
<1>18. w = IdentifyWalk' /\ n + 1 \in Nat
  BY <1>1, WalksSame
<1>19. Telling'
  BY <1>4, <1>15, <1>16, <1>17, <1>18 DEF Telling
<1> QED
  BY <1>2, <1>11, <1>19

-----------------------------------------------------------------------------
(* The second walk finds all it looks up, and places that are free.        *)

AllTold == \E seen : seen = ToSet(IdentifyWalk) /\ MapsTold(seen)

\* An attachment that the child has not from its bootstrap is one of those
\* that the second walk has passed.
Joined(done) ==
  \A c \in ToSet(child) : c.kind = "region" /\ ~c.boot =>
    \E t \in done : /\ t \in ToSet(stored) /\ t.kind = "region" /\ ~t.boot
                    /\ c.owner = tr[t.owner] /\ c.tag = t.tag

\* The region map that a stored attachment is in.
LEMMA OwnerTold ==
  ASSUME StoredWhole, Able, AllTold, NEW s \in ToSet(stored), s.kind = "region"
  PROVE  \E m \in ToSet(stored) :
           /\ m.badge = s.owner
           /\ \/ m.kind = "space" /\ s.owner = 101 /\ tr[s.owner] = 1101
              \/ m.kind = "map" /\ tr[s.owner] \in Nat /\ tr[s.owner] >= 1011000
<1>1. PICK m \in ToSet(stored) : m.kind \in OwnerKinds(s.kind) /\ m.badge = s.owner
  BY DEF StoredWhole, MemberKind
<1>2. m.kind \in {"map", "space"}
  BY <1>1, KindFacts
<1>3. PICK seen : seen = ToSet(IdentifyWalk) /\ MapsTold(seen)
  BY DEF AllTold
<1>4. m \in seen /\ IsMap(m)
  BY <1>2, <1>3, IdentifyWalkFacts DEF IsMap
<1>5. CASE m.kind = "map"
  <2>1. tr[m.badge] \in Nat /\ tr[m.badge] >= 1011000
    BY <1>3, <1>4, <1>5 DEF MapsTold
  <2> QED
    BY <1>1, <1>5, <2>1
<1>6. CASE m.kind = "space"
  <2>1. PICK p \in ToSet(stored) : p.kind \in OwnerKinds(m.kind) /\ p.badge = m.owner
    BY <1>6 DEF StoredWhole, MemberKind
  <2>2. p.kind = "pd"
    BY <1>6, <2>1 DEF OwnerKinds
  <2>3. p.badge = 1
    BY <2>2, StoredBoot DEF Able
  <2>4. m.badge = 101
    <3>1. m.badge = m.owner + 100
      BY <1>6, StoredBoot
    <3>2. m.owner = 1
      BY <2>1, <2>3
    <3> QED
      BY <3>1, <3>2
  <2>5. tr[m.badge] = 1101
    BY <1>3, <1>4, <1>6 DEF MapsTold
  <2> QED
    BY <1>1, <1>6, <2>4, <2>5
<1> QED
  BY <1>2, <1>5, <1>6

LEMMA OwnersTold ==
  ASSUME StoredWhole, Able, AllTold, NEW s \in ToSet(stored), s.kind = "region",
         NEW t \in ToSet(stored), t.kind = "region", tr[s.owner] = tr[t.owner]
  PROVE  s.owner = t.owner
<1>1. PICK m \in ToSet(stored) :
           /\ m.badge = s.owner
           /\ \/ m.kind = "space" /\ s.owner = 101 /\ tr[s.owner] = 1101
              \/ m.kind = "map" /\ tr[s.owner] \in Nat /\ tr[s.owner] >= 1011000
  BY OwnerTold
<1>2. PICK p \in ToSet(stored) :
           /\ p.badge = t.owner
           /\ \/ p.kind = "space" /\ t.owner = 101 /\ tr[t.owner] = 1101
              \/ p.kind = "map" /\ tr[t.owner] \in Nat /\ tr[t.owner] >= 1011000
  BY OwnerTold
<1>3. PICK seen : seen = ToSet(IdentifyWalk) /\ MapsTold(seen)
  BY DEF AllTold
<1>4. CASE m.kind = "map" /\ p.kind = "map"
  <2>1. m \in seen /\ p \in seen
    BY <1>3, <1>4, IdentifyWalkFacts
  <2>2. m = p
    BY <1>1, <1>2, <1>3, <1>4, <2>1 DEF MapsTold
  <2> QED
    BY <1>1, <1>2, <2>2
<1>5. CASE m.kind = "space" /\ p.kind = "space"
  BY <1>1, <1>2, <1>5
<1>6. CASE m.kind # p.kind
  BY <1>1, <1>2, <1>6
<1> QED
  BY <1>1, <1>2, <1>4, <1>5, <1>6

\* No two stored attachments are at the same place of a region map.
LEMMA PlacesApart ==
  ASSUME StoredWhole, NEW s \in ToSet(stored), NEW t \in ToSet(stored), s.kind = "region", t.kind = "region",
         s.owner = t.owner, s.tag = t.tag
  PROVE  s = t
BY DEF StoredWhole, Apart

LEMMA FreePlace ==
  ASSUME StoredWhole, ChildSound, Able, AllTold, NEW done, Joined(done),
         NEW s \in ToSet(stored), s.kind = "region", ~s.boot, s \notin done
  PROVE  ~Occupied(tr[s.owner], s.tag)
<1> SUFFICES ASSUME NEW c \in ToSet(child), c.kind = "region", c.owner = tr[s.owner], c.tag = s.tag
             PROVE  FALSE
  BY DEF Occupied
<1>1. PICK m \in ToSet(stored) :
           /\ m.badge = s.owner
           /\ \/ m.kind = "space" /\ s.owner = 101 /\ tr[s.owner] = 1101
              \/ m.kind = "map" /\ tr[s.owner] \in Nat /\ tr[s.owner] >= 1011000
  BY OwnerTold
<1>2. c.boot \in BOOLEAN
  <2>1. child \in Seq(Object)
    BY DEF ChildSound
  <2>2. c \in Object
    BY <2>1, ListElements
  <2> QED
    BY <2>2 DEF Object
<1>3. CASE c.boot
  <2>1. BootRow(c, 1000)
    BY <1>3, ChildRow DEF ChildSound
  <2>2. c.owner = 1101 /\ c.tag \in {1, 2}
    BY <2>1 DEF BootRow
  <2>3. s.owner = 101
    BY <1>1, <2>2
  <2> QED
    BY <2>2, <2>3 DEF Able
<1>4. CASE ~c.boot
  <2>1. PICK t \in done : /\ t \in ToSet(stored) /\ t.kind = "region"
                          /\ c.owner = tr[t.owner] /\ c.tag = t.tag
    BY <1>4 DEF Joined
  <2>2. s.owner = t.owner
    BY <2>1, OwnersTold
  <2>3. s = t
    BY <2>1, <2>2, PlacesApart
  <2> QED
    BY <2>1, <2>3
<1> QED
  BY <1>2, <1>3, <1>4

LEMMA DataspaceTold ==
  ASSUME StoredWhole, ChildSound, Able, AllMatched, AllTold, NEW s \in ToSet(stored), s.kind = "region", ~s.boot
  PROVE  s.ref \in DOMAIN tr /\ IsDataspace(tr[s.ref])
<1>1. PICK t \in ToSet(stored) : (t.kind = "ramds" /\ t.badge = s.ref) \/ (t.kind = "map" /\ t.ref = s.ref)
  BY DEF Able
<1>2. PICK seen : seen = ToSet(IdentifyWalk) /\ Matched(seen)
  BY DEF AllMatched
<1>3. PICK told : told = ToSet(IdentifyWalk) /\ MapsTold(told)
  BY DEF AllTold
<1>4. t \in seen /\ t \in told
  BY <1>1, <1>2, <1>3, IdentifyWalkFacts
<1>5. Keys(t) \subseteq DOMAIN tr
  BY <1>2, <1>4, TrFacts
<1>6. CASE t.kind = "ramds" /\ t.badge = s.ref
  <2>1. t.badge \in DOMAIN tr /\ IsChild(t.kind, tr[t.badge])
    BY <1>2, <1>4, FoundTreated
  <2> QED
    BY <1>6, <2>1 DEF IsDataspace
<1>7. CASE t.kind = "map" /\ t.ref = s.ref
  <2>1. IsMap(t)
    BY <1>7 DEF IsMap
  <2>2. PICK c \in ToSet(child) : c.kind = t.kind /\ c.ref = tr[t.ref]
    BY <1>3, <1>4, <2>1 DEF MapsTold
  <2>3. IsMap(c)
    BY <1>7, <2>2 DEF IsMap
  <2>4. t.ref \in DOMAIN tr
    BY <1>5, <2>1 DEF Keys
  <2> QED
    BY <1>7, <2>2, <2>3, <2>4 DEF IsDataspace
<1> QED
  BY <1>1, <1>6, <1>7

\* What the second walk changes in the child's objects is not looked up.
LEMMA ToldKept ==
  ASSUME AllTold, UNCHANGED <<stored, tr>>,
         \A p \in ToSet(child) : \E q \in ToSet(child') : Fixed(q) = Fixed(p)
  PROVE  AllTold'
<1>1. PICK seen : seen = ToSet(IdentifyWalk) /\ MapsTold(seen)
  BY DEF AllTold
<1>2. seen = ToSet(IdentifyWalk')
  BY <1>1, WalksSame
<1>3. ASSUME NEW s \in seen, IsMap(s)
      PROVE  \E c \in ToSet(child') : c.kind = s.kind /\ c.badge = tr'[s.badge] /\ c.ref = tr'[s.ref]
  <2>1. PICK c \in ToSet(child) : c.kind = s.kind /\ c.badge = tr[s.badge] /\ c.ref = tr[s.ref]
    BY <1>1, <1>3 DEF MapsTold
  <2>2. PICK d \in ToSet(child') : Fixed(d) = Fixed(c)
    OBVIOUS
  <2>3. d.kind = c.kind /\ d.badge = c.badge /\ d.ref = c.ref
    BY <2>2, FixedAlike
  <2> QED
    BY <2>1, <2>3
<1>4. MapsTold(seen)'
  BY <1>1, <1>3 DEF MapsTold
<1> QED
  BY <1>2, <1>4 DEF AllTold

LEMMA JoinedKept ==
  ASSUME NEW done, Joined(done), UNCHANGED <<stored, tr>>, NEW s,
         \A q \in ToSet(child') : \E p \in ToSet(child) : Fixed(q) = Fixed(p)
  PROVE  Joined(done \cup {s})'
<1>1. ASSUME NEW c \in ToSet(child'), c.kind = "region", ~c.boot
      PROVE  \E t \in done \cup {s} : /\ t \in ToSet(stored') /\ t.kind = "region" /\ ~t.boot
                                      /\ c.owner = tr'[t.owner] /\ c.tag = t.tag
  <2>1. PICK d \in ToSet(child) : Fixed(c) = Fixed(d)
    OBVIOUS
  <2>2. d.kind = "region" /\ ~d.boot /\ c.owner = d.owner /\ c.tag = d.tag
    BY <1>1, <2>1, FixedAlike
  <2>3. PICK t \in done : /\ t \in ToSet(stored) /\ t.kind = "region" /\ ~t.boot
                          /\ d.owner = tr[t.owner] /\ d.tag = t.tag
    BY <2>2 DEF Joined
  <2> QED
    BY <2>2, <2>3
<1> QED
  BY <1>1 DEF Joined

\* A handler that is stored stands for a context that has been made.
LEMMA StateFound ==
  ASSUME StoredWhole, ChildSound, Able, AllMatched, AllTold, NEW done, Joined(done),
         NEW s \in ToSet(stored), s = S, s.kind \notin {"region", "native"}, StateRestored,
         UNCHANGED <<stored, tr>>
  PROVE  rsPc' = rsPc /\ AllTold' /\ Joined(done \cup {s})'
<1>1. SighFound
  <2>1. CASE s.sigh = 0
    BY <2>1 DEF SighFound
  <2>2. CASE s.sigh # 0
    <3>1. PICK c \in ToSet(stored) : c.kind = "context" /\ c.badge = s.sigh
      BY <2>2 DEF Able
    <3>2. PICK seen : seen = ToSet(IdentifyWalk) /\ Matched(seen)
      BY DEF AllMatched
    <3>3. c \in seen
      BY <3>1, <3>2, IdentifyWalkFacts
    <3>4. s.sigh \in DOMAIN tr /\ IsChild("context", tr[s.sigh])
      BY <3>1, <3>2, <3>3, FoundTreated
    <3> QED
      BY <3>4 DEF SighFound
  <2> QED
    BY <2>1, <2>2
<1> DEFINE o == Counterpart
           new == [o EXCEPT !.sigh = IF S.sigh = 0 THEN @ ELSE tr[S.sigh],
                            !.mode = IF S.mode = 0 THEN @ ELSE S.mode,
                            !.quota = @ + S.quota]
<1>2. o \in ToSet(child) /\ o \in Object
  BY CounterpartFacts
<1>3. child' = Changed(child, o, new) /\ rsPc' = rsPc
  BY <1>1 DEF StateRestored
<1>4. Fixed(new) = Fixed(o)
  <2> HIDE DEF o
  <2> DEFINE sigh == IF S.sigh = 0 THEN o.sigh ELSE tr[S.sigh]
             mode == IF S.mode = 0 THEN o.mode ELSE S.mode
             quota == o.quota + S.quota
  <2>1. new = [o EXCEPT !.sigh = sigh, !.mode = mode, !.quota = quota]
    BY <1>2 DEF Object
  <2> HIDE DEF sigh, mode, quota, new
  <2> QED
    BY <1>2, <2>1 DEF Object, Fixed
<1> HIDE DEF o, new
<1>5. ToSet(child') = (ToSet(child) \ {o}) \cup {new}
  BY <1>2, <1>3, ChangedSet
<1>6. \A p \in ToSet(child) : \E q \in ToSet(child') : Fixed(q) = Fixed(p)
  BY <1>4, <1>5
<1>7. \A q \in ToSet(child') : \E p \in ToSet(child) : Fixed(q) = Fixed(p)
  BY <1>2, <1>4, <1>5
<1>8. AllTold'
  BY <1>6, ToldKept
<1>9. Joined(done \cup {s})'
  BY <1>7, JoinedKept
<1> QED
  BY <1>3, <1>8, <1>9

LEMMA RegionFound ==
  ASSUME StoredWhole, ChildSound, Able, AllMatched, AllTold, NEW done, Joined(done),
         NEW s \in ToSet(stored), s = S, s \notin done, s.kind = "region", RestoreRegion
  PROVE  rsPc' = rsPc /\ AllTold' /\ Joined(done \cup {s})'
<1>1. UNCHANGED <<stored, tr>>
  BY DEF RestoreRegion, outside, ckVars
<1>2. s.boot \in BOOLEAN
  BY StoredBoot
<1>3. CASE s.boot
  <2>1. UNCHANGED <<child, rsPc>>
    BY <1>3 DEF RestoreRegion
  <2>2. AllTold'
    BY <1>1, <2>1, ToldKept
  <2>3. Joined(done \cup {s})'
    BY <1>1, <2>1, JoinedKept
  <2> QED
    BY <2>1, <2>2, <2>3
<1>4. CASE ~s.boot
  <2>1. ~Occupied(tr[s.owner], s.tag)
    BY <1>4, FreePlace
  <2>2. s.ref \in DOMAIN tr /\ IsDataspace(tr[s.ref])
    BY <1>4, DataspaceTold
  <2> DEFINE c == Obj("region", 0, tr[s.owner], tr[s.ref], s.tag)
  <2>3. child' = Cons(c, child) /\ rsPc' = rsPc
    BY <1>4, <2>1, <2>2 DEF RestoreRegion
  <2>4. c.kind = "region" /\ c.owner = tr[s.owner] /\ c.tag = s.tag
    BY DEF Obj
  <2>5. ToSet(Cons(c, child)) = {c} \cup ToSet(child)
    <3> DEFINE V == ToSet(child) \cup {c}
    <3>1. child \in Seq(ToSet(child))
      BY OwnElements DEF ChildSound
    <3>2. child \in Seq(V) /\ c \in V
      BY <3>1, SeqMonotonic
    <3> HIDE DEF V, c
    <3> QED
      BY <3>2, ConsFacts
  <2> HIDE DEF c
  <2>6. ToSet(child') = {c} \cup ToSet(child)
    BY <2>3, <2>5
  <2>7. AllTold'
    BY <1>1, <2>6, ToldKept
  <2>8. ASSUME NEW d \in ToSet(child'), d.kind = "region", ~d.boot
        PROVE  \E t \in done \cup {s} : /\ t \in ToSet(stored') /\ t.kind = "region" /\ ~t.boot
                                        /\ d.owner = tr'[t.owner] /\ d.tag = t.tag
    <3>1. CASE d = c
      BY <1>1, <1>4, <2>4, <3>1
    <3>2. CASE d \in ToSet(child)
      <4>1. PICK t \in done : /\ t \in ToSet(stored) /\ t.kind = "region" /\ ~t.boot
                              /\ d.owner = tr[t.owner] /\ d.tag = t.tag
        BY <2>8, <3>2 DEF Joined
      <4> QED
        BY <1>1, <4>1
    <3> QED
      BY <2>6, <3>1, <3>2
  <2>9. Joined(done \cup {s})'
    BY <2>8 DEF Joined
  <2> QED
    BY <2>3, <2>7, <2>9
<1> QED
  BY <1>2, <1>3, <1>4

\* The second walk under way.
Joining ==
  \E w, n, done : /\ w = StateWalk /\ n \in Nat /\ Rest(n, w) /\ done = {w[i] : i \in 1 .. n}
                  /\ Joined(done)

LEMMA JoiningStarts ==
  ASSUME StoredWhole, ChildSound, Telling, IdentifyEnd, UNCHANGED stored
  PROVE  AllTold' /\ Joining' /\ rsPc' = "state"
<1>1. PICK w, n, seen : /\ w = IdentifyWalk /\ n \in Nat /\ Rest(n, w)
                        /\ seen = {w[i] : i \in 1 .. n} /\ MapsTold(seen) /\ Fresh(seen)
  BY DEF Telling
<1>2. todo = <<>> /\ todo' = StateWalk /\ UNCHANGED <<child, tr>> /\ rsPc' = "state"
  BY DEF IdentifyEnd
<1>3. w \in Seq(Object)
  BY <1>1, IdentifyWalkFacts
<1>4. n = Len(w)
  BY <1>1, <1>2, <1>3, RestAll
<1>5. seen = ToSet(IdentifyWalk)
  <2>1. DOMAIN w = 1 .. Len(w)
    BY <1>3, LenProperties
  <2> QED
    BY <1>1, <1>4, <2>1 DEF ToSet
<1>6. AllTold
  BY <1>1, <1>5 DEF AllTold
<1>7. AllTold'
  BY <1>2, <1>6, ToldKept
<1>8. PICK none : none = {}
  OBVIOUS
<1>9. Joined(none)'
  BY <1>1, <1>2 DEF Joined, Fresh
<1>10. PICK v \in Seq(Object) : v = StateWalk
  BY StateWalkFacts
<1>11. v = StateWalk'
  BY <1>10, WalksSame
<1>12. Rest(0, v)'
  BY <1>2, <1>10, RestStart
<1>13. 0 \in Nat /\ none = {v[i] : i \in 1 .. 0}
  BY <1>8
<1>14. Joining'
  BY <1>9, <1>11, <1>12, <1>13 DEF Joining
<1> QED
  BY <1>2, <1>7, <1>14

LEMMA JoiningStep ==
  ASSUME StoredWhole, ChildSound, Able, AllMatched, AllTold, Joining, Restore, UNCHANGED stored
  PROVE  AllTold' /\ Joining' /\ rsPc' = "state"
<1>1. PICK w, n, done : /\ w = StateWalk /\ n \in Nat /\ Rest(n, w) /\ done = {w[i] : i \in 1 .. n}
                        /\ Joined(done)
  BY DEF Joining
<1>2. \E kind : Visit("state", kind)
  BY DEF Restore, RestoreRam, RestoreRamds, RestorePd, RestoreSpace, RestoreCpu, RestoreThread,
     RestoreRm, RestoreMap, RestoreRegion, RestoreLog, RestoreTimer, RestoreObject
<1>3. rsPc = "state" /\ todo # <<>> /\ todo' = Tail(todo)
  BY <1>2 DEF Visit
<1>4. /\ w \in Seq(Object) /\ EachOnce(w)
      /\ ToSet(w) = {o \in ToSet(stored) : o.kind \notin {"native", "source", "context"}}
  BY <1>1, StateWalkFacts, StateWalkOnce
<1>5. /\ n + 1 \in 1 .. Len(w) /\ Len(w) \in Nat /\ S = w[n + 1] /\ S \in ToSet(w) /\ S \in Object
      /\ Rest(n + 1, w)'
  BY <1>1, <1>3, <1>4, RestNext
<1>6. PICK s : s = S
  OBVIOUS
<1>7. s \in ToSet(stored) /\ s.kind # "native"
  BY <1>4, <1>5, <1>6
<1>8. s \notin done
  <2> SUFFICES ASSUME NEW i \in 1 .. n, w[i] = w[n + 1] PROVE FALSE
    BY <1>1, <1>5, <1>6
  <2>1. i \in 1 .. Len(w) /\ i # n + 1
    BY <1>1, <1>5
  <2> QED
    BY <1>4, <1>5, <2>1 DEF EachOnce
<1>9. ASSUME \E kind \in {"ram", "pd", "space", "cpu", "thread", "rm", "map", "log", "timer"} : RestoreObject(kind)
      PROVE  rsPc' = rsPc /\ AllTold' /\ Joined(done \cup {s})'
  <2>1. s.kind \notin {"region", "native"} /\ StateRestored /\ UNCHANGED tr
    BY <1>6, <1>9 DEF RestoreObject, Visit, S
  <2> QED
    BY <1>1, <1>6, <1>7, <2>1, StateFound
<1>10. ASSUME RestoreRamds
       PROVE  rsPc' = rsPc /\ AllTold' /\ Joined(done \cup {s})'
  <2>1. UNCHANGED <<tr, child, rsPc>>
    BY <1>10 DEF RestoreRamds
  <2>2. AllTold'
    BY <2>1, ToldKept
  <2>3. Joined(done \cup {s})'
    BY <1>1, <2>1, JoinedKept
  <2> QED
    BY <2>1, <2>2, <2>3
<1>11. ASSUME RestoreRegion
       PROVE  rsPc' = rsPc /\ AllTold' /\ Joined(done \cup {s})'
  <2>1. s.kind = "region"
    BY <1>6, <1>11 DEF RestoreRegion, Visit, S
  <2> QED
    BY <1>1, <1>6, <1>7, <1>8, <1>11, <2>1, RegionFound
<1>12. rsPc' = rsPc /\ AllTold' /\ Joined(done \cup {s})'
  BY <1>9, <1>10, <1>11 DEF Restore, RestoreRam, RestorePd, RestoreSpace, RestoreCpu,
     RestoreThread, RestoreRm, RestoreMap, RestoreLog, RestoreTimer
<1>13. done \cup {s} = {w[i] : i \in 1 .. n + 1}
  <2>1. 1 .. n + 1 = 1 .. n \cup {n + 1}
    BY <1>1
  <2> QED
    BY <1>1, <1>5, <1>6, <2>1
<1>14. w = StateWalk' /\ n + 1 \in Nat
  BY <1>1, WalksSame
<1>15. Joining'
  BY <1>5, <1>12, <1>13, <1>14 DEF Joining
<1> QED
  BY <1>3, <1>12, <1>15

\* The restoration of such a target goes on.
AbleInv ==
  Able => /\ rsPc \notin {"failed", "crashed"}
          /\ rsPc = "identify" => Telling
          /\ rsPc = "state" => AllTold /\ Joining

LEMMA AbleStands ==
  ASSUME AbleInv, UNCHANGED <<stored, child, tr, pairs, todo, rsPc>>
  PROVE  AbleInv'
<1>1. \A n, w : Rest(n, w)' = Rest(n, w)
  BY DEF Rest
<1>2. IdentifyWalk' = IdentifyWalk /\ StateWalk' = StateWalk
  BY WalksSame
<1>3. \A seen : Matched(seen)' = Matched(seen)
  BY DEF Matched, PairsRight
<1>4. \A seen : MapsTold(seen)' = MapsTold(seen) /\ Fresh(seen)' = Fresh(seen)
  BY DEF MapsTold, Fresh, NewBadge
<1>5. \A done : Joined(done)' = Joined(done)
  BY DEF Joined
<1>6. Telling' = Telling
  BY <1>1, <1>2, <1>3, <1>4 DEF Telling
<1>7. AllTold' = AllTold /\ Joining' = Joining
  BY <1>1, <1>2, <1>4, <1>5 DEF AllTold, Joining
<1>8. Able' = Able
  BY DEF Able
<1> QED
  BY <1>6, <1>7, <1>8 DEF AbleInv

LEMMA AbleKept == RestoredInv /\ AbleInv /\ [Next]_vars => AbleInv'
<1> SUFFICES ASSUME RestoredInv, AbleInv, [Next]_vars PROVE AbleInv'
  OBVIOUS
<1>1. CASE RestorerStep
  <2>1. StoredWhole
    BY <1>1, RestorerStarts, WholeWhenTaken DEF RestoredInv, StoredSound
  <2>2. UNCHANGED stored
    BY <1>1, RestorerReads DEF outside, ckVars
  <2>3. Able' = Able
    BY <2>2 DEF Able
  <2> SUFFICES ASSUME Able
               PROVE  /\ rsPc' \notin {"failed", "crashed"}
                      /\ rsPc' = "identify" => Telling'
                      /\ rsPc' = "state" => AllTold' /\ Joining'
    BY <2>3 DEF AbleInv
  <2>4. CASE LogRequest
    <3>1. rsPc = "none"
      BY <2>4 DEF LogRequest
    <3>2. Telling' /\ rsPc' = "identify"
      BY <2>1, <2>4, <3>1, TellingStarts DEF RestoredInv, ChildInv
    <3> QED
      BY <3>2
  <2>5. CASE Identify
    <3>1. rsPc = "identify"
      BY <2>5, IdentifySteps
    <3>2. ChildSound /\ Telling
      BY <3>1 DEF RestoredInv, ChildInv, AbleInv
    <3>3. Telling' /\ rsPc' = "identify"
      BY <2>1, <2>2, <2>5, <3>2, TellingStep
    <3> QED
      BY <3>3
  <2>6. CASE IdentifyEnd
    <3>1. rsPc = "identify"
      BY <2>6 DEF IdentifyEnd
    <3>2. ChildSound /\ Telling
      BY <3>1 DEF RestoredInv, ChildInv, AbleInv
    <3>3. AllTold' /\ Joining' /\ rsPc' = "state"
      BY <2>1, <2>2, <2>6, <3>2, JoiningStarts
    <3> QED
      BY <3>3
  <2>7. CASE Restore
    <3>1. rsPc = "state"
      BY <2>7 DEF Restore, RestoreRam, RestoreRamds, RestorePd, RestoreSpace, RestoreCpu,
         RestoreThread, RestoreRm, RestoreMap, RestoreRegion, RestoreLog, RestoreTimer,
         RestoreObject, Visit
    <3>2. ChildSound /\ AllMatched /\ AllTold /\ Joining
      BY <3>1 DEF RestoredInv, ChildInv, AbleInv
    <3>3. AllTold' /\ Joining' /\ rsPc' = "state"
      BY <2>1, <2>2, <2>7, <3>2, JoiningStep
    <3> QED
      BY <3>3
  <2>8. CASE \/ ResolveInc \/ CopyCapMap \/ PatchCapMap \/ PatchCapMapEnd \/ Install \/ InstallEnd
             \/ RestoreContent \/ RestoreReturn
    <3>1. rsPc' \in {"resolved", "capmap", "capspace", "content", "done"}
      BY <2>8 DEF ResolveInc, CopyCapMap, PatchCapMap, PatchCapMapEnd, Install, InstallEnd,
         RestoreContent, RestoreReturn
    <3> QED
      BY <3>1
  <2> QED
    BY <1>1, <2>4, <2>5, <2>6, <2>7, <2>8 DEF RestorerStep
<1>2. CASE TargetStep \/ CheckpointStep
  <2>1. rsPc = "none" /\ rsPc' = "none"
    BY <1>2 DEF TargetStep, CheckpointStep, rsVars, RestoredInv, StoredSound
  <2> QED
    BY <2>1 DEF AbleInv
<1>3. CASE UNCHANGED vars
  <2>1. UNCHANGED <<stored, child, tr, pairs, todo, rsPc>>
    BY <1>3 DEF vars, rsVars, ckVars
  <2> QED
    BY <2>1, AbleStands
<1> QED
  BY <1>1, <1>2, <1>3 DEF Next

\* A checkpoint of a target that the restorer was made for (Restorable) is
\* restored without an exception and without a null pointer, wherever the
\* restorer looks something up: no lookup in the stored-to-restored translation
\* fails, no region is refused by core, and the array of timestamps of
\* _identify_ram_dataspaces is not overrun.
THEOREM RestorableRestored == Spec => []RestorableIsRestored
<1>1. Init => RestoredInv /\ AbleInv
  <2> SUFFICES ASSUME Init PROVE RestoredInv /\ AbleInv
    OBVIOUS
  <2>1. rsPc = "none"
    BY DEF Init, RsInit
  <2> QED
    BY <2>1, RestoredInitially DEF AbleInv
<1>2. RestoredInv /\ AbleInv /\ [Next]_vars => (RestoredInv /\ AbleInv)'
  BY RestoredKept, AbleKept
<1>3. RestoredInv /\ AbleInv => RestorableIsRestored
  <2> SUFFICES ASSUME RestoredInv, AbleInv, Restorable, rsPc \in {"failed", "crashed"}
               PROVE  FALSE
    BY DEF RestorableIsRestored
  <2>1. ckPc = "taken"
    BY DEF RestoredInv, StoredSound
  <2>2. Able
    BY <2>1, AbleWhenRestorable
  <2> QED
    BY <2>2 DEF AbleInv
<1> QED
  BY <1>1, <1>2, <1>3, PTL DEF Spec

=============================================================================
