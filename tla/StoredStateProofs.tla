-------------------------- MODULE StoredStateProofs --------------------------
(***************************************************************************)
(* Theorems about StoredState, for any sets of badges, any number of pages *)
(* and any number of requests under way.                                   *)
(***************************************************************************)
EXTENDS StoredState, ListFacts

\* What was allocated all the time is still in the list, and what is in the
\* list during a checkpoint was allocated at some time.
OnlineInv ==
  /\ ckPc = "idle" => always = {}
  /\ always \subseteq ToSet(ramds)
  /\ ckPc # "idle" => ToSet(ramds) \subseteq ever

TypeInv == TypeOK /\ OnlineInv

-----------------------------------------------------------------------------
(* The element the checkpointer looks at.                                  *)

LEMMA CurrentFacts ==
  ASSUME NEW S, NEW s \in Seq(S), left \in Nat, left > 0, left <= Len(s)
  PROVE  CurrentAt(s) \in DOMAIN s /\ Current(s) \in S /\ Current(s) = s[CurrentAt(s)]
<1>1. Len(s) \in Nat /\ DOMAIN s = 1 .. Len(s)
  BY LenProperties
<1>2. CurrentAt(s) \in 1 .. Len(s)
  BY <1>1 DEF CurrentAt
<1> QED
  BY <1>1, <1>2, ElementOfSeq DEF Current

LEMMA LeftAfterFacts ==
  ASSUME NEW S, NEW s \in Seq(S), NEW i \in DOMAIN s, left \in Nat, left <= Len(s)
  PROVE  LeftAfter(s, i) \in Nat /\ LeftAfter(s, i) <= Len(s) - 1
<1>1. Len(s) \in Nat /\ i \in 1 .. Len(s)
  BY LenProperties
<1> QED
  BY <1>1 DEF LeftAfter, CurrentAt

LEMMA ReferType ==
  ASSUME refs \in [Badge -> Nat], stale \subseteq {b \in Badge : refs[b] > 0},
         NEW b \in Badge, Refer(b) \/ Release(b) \/ UNCHANGED <<refs, stale>>
  PROVE  refs' \in [Badge -> Nat] /\ stale' \subseteq {c \in Badge : refs'[c] > 0}
<1>1. CASE Refer(b)
  BY <1>1 DEF Refer
<1>2. CASE Release(b)
  BY <1>2 DEF Release
<1>3. CASE UNCHANGED <<refs, stale>>
  BY <1>3
<1> QED
  BY <1>1, <1>2, <1>3

-----------------------------------------------------------------------------
(* Type correctness.                                                       *)

LEMMA InitType == Init => TypeInv
<1> SUFFICES ASSUME Init PROVE TypeInv
  OBVIOUS
<1> QED
  BY BoundsAssumption, EmptySeq DEF Init, TypeInv, TypeOK, OnlineInv, ToSet

LEMMA DestroyedType ==
  ASSUME TypeOK, UNCHANGED refs, NEW D \in SUBSET Badge, Destroyed(D)
  PROVE  real' \in [Addr -> Badge \cup {NoDs}] /\ stale' \subseteq {b \in Badge : refs'[b] > 0}
BY DEF TypeOK, Destroyed

LEMMA AllocType ==
  ASSUME TypeInv, NEW b \in RamBadge, Alloc(b)
  PROVE  TypeInv'
<1>1. /\ ramds' \in Seq(RamBadge) /\ Len(ramds') = Len(ramds) + 1 /\ Len(ramds) \in Nat
      /\ ToSet(ramds') = {b} \cup ToSet(ramds)
  BY ConsFacts DEF TypeInv, TypeOK, Alloc
<1>2. always' \subseteq ever' /\ ever' \subseteq RamBadge
  BY DEF TypeInv, TypeOK, OnlineInv, Alloc, hiVars
<1>3. flight' \in 0 .. MaxFlight
  BY BoundsAssumption DEF TypeInv, TypeOK, Alloc, Request
<1>4. OnlineInv'
  BY <1>1 DEF TypeInv, OnlineInv, Alloc
<1> QED
  BY <1>1, <1>2, <1>3, <1>4 DEF TypeInv, TypeOK, Alloc, stVars

LEMMA FreeType ==
  ASSUME TypeInv, NEW i \in DOMAIN ramds, Free(i)
  PROVE  TypeInv'
<1>1. /\ ramds' \in Seq(RamBadge) /\ Len(ramds') = Len(ramds) - 1 /\ Len(ramds) \in Nat
      /\ ToSet(ramds') \subseteq ToSet(ramds) /\ ToSet(ramds) \ {ramds[i]} \subseteq ToSet(ramds')
  BY RemoveAtFacts DEF TypeInv, TypeOK, Free
<1>2. real' \in [Addr -> Badge \cup {NoDs}] /\ stale' \subseteq {b \in Badge : refs'[b] > 0}
  <2>1. {ramds[i]} \subseteq Badge
    BY ElementOfSeq, LenProperties DEF TypeInv, TypeOK, Badge
  <2> QED
    BY <2>1, DestroyedType DEF TypeInv, Free, stVars
<1>3. left' \in Nat /\ (ckPc' = "ram" => left' <= Len(ramds'))
  BY <1>1, LeftAfterFacts DEF TypeInv, TypeOK, Free
<1>4. ckPc' \in {ckPc, "dead"} /\ (ckPc' # "ram" => ckPc' = "dead" \/ UNCHANGED <<ckPc, left>>)
  BY DEF Free
<1>5. flight' \in 0 .. MaxFlight /\ (ckPc' = "idle" <=> ckPc = "idle")
  BY BoundsAssumption DEF TypeInv, TypeOK, Free, Request
<1>6. OnlineInv'
  BY <1>1, <1>5 DEF TypeInv, OnlineInv, Free
<1> QED
  BY <1>1, <1>2, <1>3, <1>4, <1>5, <1>6 DEF TypeInv, TypeOK, Free, stVars

LEMMA MapType ==
  ASSUME TypeInv, CloseMaps \/ \E b \in RmBadge : CreateMap(b)
  PROVE  TypeInv'
<1>1. UNCHANGED <<ramds, regions, stVars, toSave, ckPc, left, hiVars>> /\ maps' \subseteq RmBadge
  BY DEF TypeInv, TypeOK, CloseMaps, CreateMap
<1>2. real' \in [Addr -> Badge \cup {NoDs}] /\ stale' \subseteq {b \in Badge : refs'[b] > 0}
  <2>1. CASE CloseMaps
    <3>1. maps \subseteq Badge
      BY DEF TypeInv, TypeOK, Badge
    <3> QED
      BY <2>1, <3>1, DestroyedType DEF TypeInv, CloseMaps, stVars
  <2>2. CASE \E b \in RmBadge : CreateMap(b)
    BY <2>2 DEF TypeInv, TypeOK, CreateMap, stVars
  <2> QED
    BY <2>1, <2>2
<1>3. flight' \in 0 .. MaxFlight
  BY BoundsAssumption DEF TypeInv, TypeOK, CloseMaps, CreateMap, Request
<1> QED
  BY <1>1, <1>2, <1>3 DEF TypeInv, TypeOK, OnlineInv, stVars, hiVars

LEMMA AttachType ==
  ASSUME TypeInv, NEW a \in Addr, NEW b \in Badge, Attach(a, b)
  PROVE  TypeInv'
<1>1. [addr |-> a, ds |-> b] \in Region
  BY DEF Region
<1>2. /\ regions' \in Seq(Region) /\ Len(regions') = Len(regions) + 1 /\ Len(regions) \in Nat
  BY <1>1, ConsFacts DEF TypeInv, TypeOK, Attach
<1>3. flight' \in 0 .. MaxFlight
  BY BoundsAssumption DEF TypeInv, TypeOK, Attach, Request
<1>4. real' \in [Addr -> Badge \cup {NoDs}]
  BY DEF TypeInv, TypeOK, Attach
<1> QED
  BY <1>2, <1>3, <1>4 DEF TypeInv, TypeOK, OnlineInv, Attach, stVars, hiVars

\* Where find_by_addr hits, there is an element.
LEMMA FoundFacts ==
  ASSUME NEW S, NEW s \in Seq(S), NEW a, FindByAddr(s, a) # 0
  PROVE  FindByAddr(s, a) \in DOMAIN s
<1> DEFINE I == {i \in 1 .. Len(s) : Covers(s[i], a)}
<1>1. DOMAIN s = 1 .. Len(s) /\ Len(s) \in Nat /\ I \in SUBSET Nat
  BY LenProperties
<1>2. FindByAddr(s, a) = IF I # {} THEN Min(I) ELSE 0
  BY DEF FindByAddr, SelectInSeq
<1>3. I # {} => Min(I) \in I
  <2> HIDE DEF I
  <2> QED
    BY <1>1, LeastFacts
<1> QED
  BY <1>1, <1>2, <1>3

LEMMA DetachType ==
  ASSUME TypeInv, NEW a \in Addr, Detach(a)
  PROVE  TypeInv'
<1> DEFINE i == FindByAddr(regions, a)
<1>1. i # 0 => i \in DOMAIN regions
  BY FoundFacts DEF TypeInv, TypeOK
<1>2. /\ IF i = 0
           THEN UNCHANGED <<regions, left, ckPc>>
           ELSE /\ regions' = RemoveAt(regions, i)
                /\ IF ckPc = "regs"
                     THEN /\ left' = LeftAfter(regions, i)
                          /\ ckPc' = IF IsCurrent(regions, i) THEN "dead" ELSE ckPc
                     ELSE UNCHANGED <<left, ckPc>>
      /\ Request /\ real' = [real EXCEPT ![a] = NoDs]
      /\ UNCHANGED <<ramds, maps, stVars, stale, toSave, hiVars>>
  BY DEF Detach
<1> HIDE DEF i
<1>3. /\ regions' \in Seq(Region) /\ left' \in Nat
      /\ ckPc' \in {ckPc, "dead"} /\ (ckPc' = "idle" <=> ckPc = "idle")
      /\ ckPc' # "regs" => ckPc' = "dead" \/ UNCHANGED <<ckPc, left>>
      /\ ckPc' = "regs" => left' <= Len(regions')
  <2>1. CASE i = 0
    BY <1>2, <2>1 DEF TypeInv, TypeOK
  <2>2. CASE i # 0
    <3>1. /\ regions' \in Seq(Region) /\ Len(regions') = Len(regions) - 1
      BY <1>1, <1>2, <2>2, RemoveAtFacts DEF TypeInv, TypeOK
    <3>2. CASE ckPc = "regs"
      <4>1. LeftAfter(regions, i) \in Nat /\ LeftAfter(regions, i) <= Len(regions) - 1
        BY <1>1, <2>2, <3>2, LeftAfterFacts DEF TypeInv, TypeOK
      <4> QED
        BY <1>2, <2>2, <3>1, <3>2, <4>1
    <3>3. CASE ckPc # "regs"
      BY <1>2, <2>2, <3>1, <3>3 DEF TypeInv, TypeOK
    <3> QED
      BY <3>2, <3>3
  <2> QED
    BY <2>1, <2>2
<1>4. flight' \in 0 .. MaxFlight
  BY <1>2, BoundsAssumption DEF TypeInv, TypeOK, Request
<1>5. real' \in [Addr -> Badge \cup {NoDs}]
  BY <1>2 DEF TypeInv, TypeOK
<1> QED
  BY <1>2, <1>3, <1>4, <1>5 DEF TypeInv, TypeOK, OnlineInv, stVars, hiVars

LEMMA CkRamType ==
  ASSUME TypeInv, CkRam
  PROVE  TypeInv'
<1> DEFINE b == Current(ramds)
<1>1. left \in Nat /\ left > 0 /\ left <= Len(ramds) /\ Len(ramds) \in Nat /\ ckPc = "ram"
  BY LenProperties DEF TypeInv, TypeOK, CkRam
<1>2. b \in RamBadge /\ b \in Badge
  BY <1>1, CurrentFacts DEF TypeInv, TypeOK, Badge
<1>3. \/ UNCHANGED <<storedRam, refs, stale>>
      \/ storedRam' = Cons(b, storedRam) /\ Refer(b)
  BY DEF CkRam
<1> HIDE DEF b
<1>4. storedRam' \in Seq(RamBadge)
  <2>1. storedRam \in Seq(RamBadge)
    BY DEF TypeInv, TypeOK
  <2>2. Cons(b, storedRam) \in Seq(RamBadge)
    BY <1>2, <2>1, ConsFacts
  <2> QED
    BY <1>3, <2>1, <2>2
<1>5. refs' \in [Badge -> Nat] /\ stale' \subseteq {c \in Badge : refs'[c] > 0}
  BY <1>2, <1>3, ReferType DEF TypeInv, TypeOK
<1>6. left' \in Nat /\ left' <= Len(ramds)
  BY <1>1 DEF CkRam
<1> QED
  BY <1>1, <1>4, <1>5, <1>6 DEF TypeInv, TypeOK, OnlineInv, CkRam, onVars, hiVars

LEMMA CkRamDelType ==
  ASSUME TypeInv, CkRamDel
  PROVE  TypeInv'
<1> DEFINE b == Current(storedRam)
           k == CurrentAt(storedRam)
<1>1. left \in Nat /\ left > 0 /\ left <= Len(storedRam) /\ Len(storedRam) \in Nat /\ ckPc = "ram_del"
  BY LenProperties DEF TypeInv, TypeOK, CkRamDel
<1>2. b \in RamBadge /\ b \in Badge /\ k \in DOMAIN storedRam
  BY <1>1, CurrentFacts DEF TypeInv, TypeOK, Badge
<1>3. \/ UNCHANGED <<storedRam, refs, stale>>
      \/ storedRam' = RemoveAt(storedRam, k) /\ Release(b)
  BY DEF CkRamDel
<1> HIDE DEF b, k
<1>4. storedRam' \in Seq(RamBadge) /\ Len(storedRam') \in {Len(storedRam), Len(storedRam) - 1}
  BY <1>2, <1>3, RemoveAtFacts DEF TypeInv, TypeOK
<1>5. refs' \in [Badge -> Nat] /\ stale' \subseteq {c \in Badge : refs'[c] > 0}
  BY <1>2, <1>3, ReferType DEF TypeInv, TypeOK
<1>6. left' \in Nat /\ left' <= Len(storedRam')
  BY <1>1, <1>4 DEF CkRamDel
<1> QED
  BY <1>1, <1>4, <1>5, <1>6 DEF TypeInv, TypeOK, OnlineInv, CkRamDel, onVars, hiVars

LEMMA CkRegsType ==
  ASSUME TypeInv, CkRegs
  PROVE  TypeInv'
<1> DEFINE r == Current(regions)
<1>1. left \in Nat /\ left > 0 /\ left <= Len(regions) /\ Len(regions) \in Nat /\ ckPc = "regs"
  BY LenProperties DEF TypeInv, TypeOK, CkRegs
<1>2. r \in Region
  BY <1>1, CurrentFacts DEF TypeInv, TypeOK
<1>3. \/ UNCHANGED <<storedRegs, refs, stale>>
      \/ storedRegs' = Cons(r, storedRegs) /\ (Refer(r.ds) \/ UNCHANGED <<refs, stale>>)
  BY DEF CkRegs
<1> HIDE DEF r
<1>4. storedRegs' \in Seq(Region)
  <2>1. storedRegs \in Seq(Region)
    BY DEF TypeInv, TypeOK
  <2>2. Cons(r, storedRegs) \in Seq(Region)
    BY <1>2, <2>1, ConsFacts
  <2> QED
    BY <1>3, <2>1, <2>2
<1>5. r.ds \in Badge
  BY <1>2 DEF Region
<1>6. refs' \in [Badge -> Nat] /\ stale' \subseteq {c \in Badge : refs'[c] > 0}
  BY <1>3, <1>5, ReferType DEF TypeInv, TypeOK
<1>7. left' \in Nat /\ left' <= Len(regions)
  BY <1>1 DEF CkRegs
<1> QED
  BY <1>1, <1>4, <1>6, <1>7 DEF TypeInv, TypeOK, OnlineInv, CkRegs, onVars, hiVars

LEMMA CkRegsDelType ==
  ASSUME TypeInv, CkRegsDel
  PROVE  TypeInv'
<1> DEFINE r == Current(storedRegs)
           k == CurrentAt(storedRegs)
<1>1. left \in Nat /\ left > 0 /\ left <= Len(storedRegs) /\ Len(storedRegs) \in Nat /\ ckPc = "regs_del"
  BY LenProperties DEF TypeInv, TypeOK, CkRegsDel
<1>2. r \in Region /\ k \in DOMAIN storedRegs
  BY <1>1, CurrentFacts DEF TypeInv, TypeOK
<1>3. \/ UNCHANGED <<storedRegs, refs, stale>>
      \/ storedRegs' = RemoveAt(storedRegs, k) /\ Release(r.ds)
  BY DEF CkRegsDel
<1> HIDE DEF r, k
<1>4. storedRegs' \in Seq(Region) /\ Len(storedRegs') \in {Len(storedRegs), Len(storedRegs) - 1}
  BY <1>2, <1>3, RemoveAtFacts DEF TypeInv, TypeOK
<1>5. r.ds \in Badge
  BY <1>2 DEF Region
<1>6. refs' \in [Badge -> Nat] /\ stale' \subseteq {c \in Badge : refs'[c] > 0}
  BY <1>3, <1>5, ReferType DEF TypeInv, TypeOK
<1>7. left' \in Nat /\ left' <= Len(storedRegs')
  BY <1>1, <1>4 DEF CkRegsDel
<1> QED
  BY <1>1, <1>4, <1>6, <1>7 DEF TypeInv, TypeOK, OnlineInv, CkRegsDel, onVars, hiVars

\* The steps between the walks.
LEMMA BetweenType ==
  ASSUME TypeInv,
         CkStart \/ CkKnown \/ CkRamEnd \/ CkRamDelEnd \/ CkRegsEnd \/ CkRegsDelEnd
  PROVE  TypeInv'
<1>1. Len(ramds) \in Nat /\ Len(storedRam) \in Nat /\ Len(regions) \in Nat /\ Len(storedRegs) \in Nat
  BY LenProperties DEF TypeInv, TypeOK
<1> USE DEF TypeInv, TypeOK, OnlineInv, onVars, stVars, hiVars
<1>2. CASE CkStart
  <2>1. ToSet(ramds) \subseteq RamBadge
    BY LenProperties, ElementOfSeq DEF ToSet
  <2> QED
    BY <1>1, <1>2, <2>1 DEF CkStart
<1>3. CASE CkKnown
  BY <1>1, <1>3 DEF CkKnown
<1>4. CASE CkRamEnd
  BY <1>1, <1>4 DEF CkRamEnd
<1>5. CASE CkRamDelEnd
  BY <1>1, <1>5 DEF CkRamDelEnd
<1>6. CASE CkRegsEnd
  BY <1>1, <1>6 DEF CkRegsEnd
<1>7. CASE CkRegsDelEnd
  BY <1>1, <1>7 DEF CkRegsDelEnd
<1> QED
  BY <1>2, <1>3, <1>4, <1>5, <1>6, <1>7

LEMMA SaveType ==
  ASSUME TypeInv, CkMemory \/ (\E b \in Badge : CkSave(b)) \/ CkReturn
  PROVE  TypeInv'
<1> USE DEF TypeInv, TypeOK, OnlineInv, onVars, stVars, hiVars
<1>1. CASE CkMemory
  BY <1>1 DEF CkMemory
<1>2. ASSUME NEW b \in Badge, CkSave(b) PROVE TypeInv'
  BY <1>2 DEF CkSave
<1>3. CASE CkReturn
  BY <1>3, BoundsAssumption DEF CkReturn
<1> QED
  BY <1>1, <1>2, <1>3

LEMMA StepType == TypeInv /\ [Next]_vars => TypeInv'
<1> SUFFICES ASSUME TypeInv, [Next]_vars PROVE TypeInv'
  OBVIOUS
<1>1. ASSUME NEW b \in RamBadge, Alloc(b) PROVE TypeInv'
  BY <1>1, AllocType
<1>2. ASSUME NEW i \in DOMAIN ramds, Free(i) PROVE TypeInv'
  BY <1>2, FreeType
<1>3. CASE CloseMaps \/ \E b \in RmBadge : CreateMap(b)
  BY <1>3, MapType
<1>4. ASSUME NEW a \in Addr, NEW b \in Badge, Attach(a, b) PROVE TypeInv'
  BY <1>4, AttachType
<1>5. ASSUME NEW a \in Addr, Detach(a) PROVE TypeInv'
  BY <1>5, DetachType
<1>6. CASE CkRam \/ CkRamDel \/ CkRegs \/ CkRegsDel
  BY <1>6, CkRamType, CkRamDelType, CkRegsType, CkRegsDelType
<1>7. CASE CkStart \/ CkKnown \/ CkRamEnd \/ CkRamDelEnd \/ CkRegsEnd \/ CkRegsDelEnd
  BY <1>7, BetweenType
<1>8. CASE CkMemory \/ (\E b \in Badge : CkSave(b)) \/ CkReturn
  BY <1>8, SaveType
<1>9. CASE UNCHANGED vars
  BY <1>9 DEF vars, onVars, stVars, hiVars, TypeInv, TypeOK, OnlineInv
<1> QED
  BY <1>1, <1>2, <1>3, <1>4, <1>5, <1>6, <1>7, <1>8, <1>9 DEF Next, Target, Checkpointer

LEMMA TypeInvariant == Spec => []TypeInv
<1> QED
  BY InitType, StepType, PTL DEF Spec

\* Whatever is allocated, freed, attached and closed while a checkpoint runs:
\* the checkpointer's place stays inside the list it walks, no entry of
\* _copy_dataspaces is stale without being there, and reference counts do not
\* become negative.
THEOREM TypeCorrect == Spec => []TypeOK
<1>1. TypeInv => TypeOK
  BY DEF TypeInv
<1> QED
  BY <1>1, TypeInvariant, PTL

-----------------------------------------------------------------------------
(* Stored regions.                                                         *)

LEMMA StepRegions == TypeInv /\ RegionsRestorable /\ [Next]_vars => RegionsRestorable'
<1> SUFFICES ASSUME TypeInv, RegionsRestorable, [Next]_vars PROVE RegionsRestorable'
  OBVIOUS
<1>1. storedRegs \in Seq(Region) /\ Len(storedRegs) \in Nat /\ DOMAIN storedRegs = 1 .. Len(storedRegs)
  BY LenProperties DEF TypeInv, TypeOK
<1>2. CASE CkRegs
  <2> DEFINE r == Current(regions)
  <2>1. r \in Region
    BY <1>2, CurrentFacts DEF TypeInv, TypeOK, CkRegs
  <2>2. CASE CoveredBy(storedRegs, r.addr)
    BY <1>2, <2>2 DEF CkRegs, RegionsRestorable
  <2>3. CASE ~CoveredBy(storedRegs, r.addr)
    <3>1. \A i \in DOMAIN storedRegs : storedRegs[i].addr # r.addr
      <4> TAKE i \in DOMAIN storedRegs
      <4>1. storedRegs[i] \in Region
        BY <1>1, ElementOfSeq
      <4>2. storedRegs[i].addr \in Int
        BY <4>1 DEF Region, Addr
      <4>3. ~Covers(storedRegs[i], r.addr)
        BY <2>3 DEF CoveredBy
      <4> QED
        BY <4>2, <4>3 DEF Covers
    <3>2. storedRegs' = Cons(r, storedRegs)
      BY <1>2, <2>3 DEF CkRegs
    <3> HIDE DEF r
    <3>3. /\ DOMAIN storedRegs' = 1 .. Len(storedRegs) + 1 /\ storedRegs'[1] = r
          /\ \A i \in 2 .. Len(storedRegs) + 1 : storedRegs'[i] = storedRegs[i - 1]
      <4>1. /\ DOMAIN Cons(r, storedRegs) = 1 .. Len(storedRegs) + 1 /\ Cons(r, storedRegs)[1] = r
            /\ \A i \in 2 .. Len(storedRegs) + 1 : Cons(r, storedRegs)[i] = storedRegs[i - 1]
        BY <1>1, <2>1, ConsFacts
      <4> QED
        BY <3>2, <4>1
    <3> SUFFICES ASSUME NEW i \in DOMAIN storedRegs', NEW j \in DOMAIN storedRegs', i # j
                 PROVE  storedRegs'[i].addr # storedRegs'[j].addr
      BY DEF RegionsRestorable
    <3>4. \A k \in DOMAIN storedRegs' : k # 1 =>
            k \in Int /\ k - 1 \in DOMAIN storedRegs /\ storedRegs'[k] = storedRegs[k - 1]
      BY <1>1, <3>3
    <3>5. CASE i = 1 \/ j = 1
      BY <3>1, <3>3, <3>4, <3>5
    <3>6. CASE i # 1 /\ j # 1
      <4>1. i - 1 # j - 1
        BY <3>4, <3>6
      <4> QED
        BY <3>4, <3>6, <4>1 DEF RegionsRestorable
    <3> QED
      BY <3>5, <3>6
  <2> QED
    BY <2>2, <2>3
<1>3. CASE CkRegsDel
  <2> DEFINE k == CurrentAt(storedRegs)
  <2>1. k \in DOMAIN storedRegs
    BY <1>3, CurrentFacts DEF TypeInv, TypeOK, CkRegsDel
  <2>2. CASE UNCHANGED storedRegs
    BY <2>2 DEF RegionsRestorable
  <2>3. CASE storedRegs' = RemoveAt(storedRegs, k)
    <3> HIDE DEF k
    <3>1. /\ DOMAIN storedRegs' = 1 .. Len(storedRegs) - 1
          /\ \A i \in 1 .. Len(storedRegs) - 1 :
               storedRegs'[i] = IF i < k THEN storedRegs[i] ELSE storedRegs[i + 1]
      BY <1>1, <2>1, <2>3, RemoveAtFacts
    <3> DEFINE Old(i) == IF i < k THEN i ELSE i + 1
    <3>2. \A i \in DOMAIN storedRegs' :
            i \in Int /\ Old(i) \in DOMAIN storedRegs /\ storedRegs'[i] = storedRegs[Old(i)]
      <4> TAKE i \in DOMAIN storedRegs'
      <4>1. i \in 1 .. Len(storedRegs) - 1 /\ i \in 1 .. Len(storedRegs) /\ i + 1 \in 1 .. Len(storedRegs)
        BY <1>1, <3>1
      <4> QED
        BY <1>1, <3>1, <4>1
    <3>3. \A i, j \in DOMAIN storedRegs' : i # j => Old(i) # Old(j)
      BY <1>1, <2>1, <3>2
    <3> HIDE DEF Old
    <3> QED
      BY <3>2, <3>3 DEF RegionsRestorable
  <2> QED
    BY <1>3, <2>2, <2>3 DEF CkRegsDel
<1>4. CASE UNCHANGED storedRegs
  BY <1>4 DEF RegionsRestorable
<1>5. CkRegs \/ CkRegsDel \/ UNCHANGED storedRegs
  BY DEF Next, Target, Alloc, Free, CreateMap, CloseMaps, Attach, Detach, Checkpointer,
         CkStart, CkKnown, CkRam, CkRamEnd, CkRamDel, CkRamDelEnd, CkRegsEnd, CkRegsDelEnd,
         CkMemory, CkSave, CkReturn, vars, stVars
<1> QED
  BY <1>2, <1>3, <1>4, <1>5

\* After any sequence of attaches, detaches and checkpoints, in a region map of
\* any number of pages: no two stored regions claim the same page, so that the
\* restorer can attach all of them (_restore_state_attached_regions).
THEOREM RegionsApart == Spec => []RegionsRestorable
<1>1. Init => RegionsRestorable
  BY DEF Init, RegionsRestorable
<1> QED
  BY <1>1, StepRegions, TypeInvariant, PTL DEF Spec

-----------------------------------------------------------------------------
(* Stored RAM dataspaces.                                                  *)

Done == {"regs", "regs_del", "memory", "save"}

\* In the first loop, what was allocated all the time is stored or still ahead.
\* Afterwards it is stored, for the second loop takes nothing away that is
\* online; what the second loop has passed was allocated at some time.
WalkInv ==
  /\ ckPc = "ram" => \A b \in always :
       b \in ToSet(storedRam) \/ \E j \in CurrentAt(ramds) .. Len(ramds) : ramds[j] = b
  /\ ckPc \in Done \cup {"ram_del"} => always \subseteq ToSet(storedRam)
  /\ ckPc = "ram_del" => \A j \in 1 .. Len(storedRam) - left : storedRam[j] \in ever
  /\ ckPc \in Done => ToSet(storedRam) \subseteq ever

LEMMA AllocWalk ==
  ASSUME TypeInv, WalkInv, NEW b \in RamBadge, Alloc(b)
  PROVE  WalkInv'
<1>1. /\ Len(ramds) \in Nat /\ left \in Nat /\ Len(Cons(b, ramds)) = Len(ramds) + 1
      /\ \A i \in 2 .. Len(ramds) + 1 : Cons(b, ramds)[i] = ramds[i - 1]
  BY ConsFacts DEF TypeInv, TypeOK
<1>2. ramds' = Cons(b, ramds) /\ UNCHANGED <<storedRam, ckPc, left, always>>
  BY DEF Alloc, stVars
<1>3. ckPc # "idle" => ever \subseteq ever'
  BY DEF Alloc
<1>4. ASSUME ckPc = "ram", NEW c \in always, NEW j \in CurrentAt(ramds) .. Len(ramds), ramds[j] = c
      PROVE  \E k \in CurrentAt(ramds)' .. Len(ramds)' : ramds'[k] = c
  <2>1. left <= Len(ramds)
    BY <1>4 DEF TypeInv, TypeOK
  <2>2. CurrentAt(ramds)' = CurrentAt(ramds) + 1 /\ CurrentAt(ramds) \in Nat \ {0}
    <3>1. Len(ramds') = Len(ramds) + 1
      BY <1>1, <1>2
    <3>2. CurrentAt(ramds)' = Len(ramds) + 1 - left + 1
      BY <1>1, <1>2, <3>1 DEF CurrentAt
    <3> QED
      BY <1>1, <2>1, <3>2 DEF CurrentAt
  <2>3. /\ j + 1 \in CurrentAt(ramds)' .. Len(ramds)' /\ j + 1 \in 2 .. Len(ramds) + 1
        /\ j + 1 - 1 = j
    BY <1>1, <1>2, <2>2
  <2>4. ramds'[j + 1] = c
    BY <1>1, <1>2, <1>4, <2>3
  <2> QED
    BY <2>3, <2>4
<1>5. ckPc = "ram" => \A c \in always :
        c \in ToSet(storedRam) \/ \E k \in CurrentAt(ramds)' .. Len(ramds)' : ramds'[k] = c
  BY <1>4 DEF WalkInv
<1> QED
  BY <1>2, <1>3, <1>5 DEF WalkInv, Done

LEMMA FreeWalk ==
  ASSUME TypeInv, WalkInv, NEW i \in DOMAIN ramds, Free(i)
  PROVE  WalkInv'
<1>1. /\ Len(ramds) \in Nat \ {0} /\ DOMAIN ramds = 1 .. Len(ramds) /\ i \in 1 .. Len(ramds)
      /\ Len(RemoveAt(ramds, i)) = Len(ramds) - 1
      /\ \A j \in 1 .. Len(ramds) - 1 :
           RemoveAt(ramds, i)[j] = IF j < i THEN ramds[j] ELSE ramds[j + 1]
  BY RemoveAtFacts DEF TypeInv, TypeOK
<1>2. /\ ramds' = RemoveAt(ramds, i) /\ always' = always \ {ramds[i]}
      /\ UNCHANGED <<storedRam, ever>>
      /\ ckPc' \in {ckPc, "dead"}
      /\ ckPc' = "ram" => left' = LeftAfter(ramds, i) /\ ~IsCurrent(ramds, i)
      /\ ckPc' # "ram" => ckPc' = "dead" \/ UNCHANGED left
  BY DEF Free, stVars
<1>3. ASSUME ckPc' = "ram", NEW c \in always', NEW j \in CurrentAt(ramds) .. Len(ramds), ramds[j] = c
      PROVE  \E k \in CurrentAt(ramds)' .. Len(ramds)' : ramds'[k] = c
  <2>1. left \in Nat /\ left <= Len(ramds) /\ ckPc = "ram"
    BY <1>2, <1>3 DEF TypeInv, TypeOK
  <2>2. j # i /\ j \in Int /\ j >= Len(ramds) - left + 1 /\ j <= Len(ramds)
    BY <1>1, <1>2, <1>3, <2>1 DEF CurrentAt
  <2>3. left > 0 /\ i # Len(ramds) - left + 1
    BY <1>1, <1>2, <1>3, <2>1, <2>2 DEF IsCurrent, CurrentAt
  <2>4. Len(ramds)' = Len(ramds) - 1 /\ CurrentAt(ramds)' = Len(ramds) - 1 - left' + 1
    BY <1>1, <1>2 DEF CurrentAt
  <2>5. left' = IF i >= Len(ramds) - left + 1 THEN left - 1 ELSE left
    BY <1>2, <1>3, <2>3 DEF LeftAfter, CurrentAt
  <2>6. CASE j < i
    <3>1. j \in CurrentAt(ramds)' .. Len(ramds)' /\ j \in 1 .. Len(ramds) - 1
      BY <1>1, <2>1, <2>2, <2>3, <2>4, <2>5, <2>6
    <3> QED
      BY <1>1, <1>2, <1>3, <2>6, <3>1
  <2>7. CASE ~(j < i)
    <3>1. /\ j - 1 \in CurrentAt(ramds)' .. Len(ramds)' /\ j - 1 \in 1 .. Len(ramds) - 1
          /\ ~(j - 1 < i) /\ j - 1 + 1 = j
      BY <1>1, <2>1, <2>2, <2>3, <2>4, <2>5, <2>7
    <3> QED
      BY <1>1, <1>2, <1>3, <3>1
  <2> QED
    BY <2>6, <2>7
<1>4. ckPc' = "ram" => \A c \in always' :
        c \in ToSet(storedRam) \/ \E k \in CurrentAt(ramds)' .. Len(ramds)' : ramds'[k] = c
  BY <1>2, <1>3 DEF WalkInv
<1> QED
  BY <1>2, <1>4 DEF WalkInv, Done

LEMMA CkRamWalk ==
  ASSUME TypeInv, WalkInv, CkRam
  PROVE  WalkInv'
<1> DEFINE b == Current(ramds)
<1>1. /\ left \in Nat /\ left > 0 /\ left <= Len(ramds) /\ Len(ramds) \in Nat
      /\ storedRam \in Seq(RamBadge) /\ ramds \in Seq(RamBadge)
  BY LenProperties DEF TypeInv, TypeOK, CkRam
<1>2. b \in RamBadge /\ b = ramds[CurrentAt(ramds)]
  BY <1>1, CurrentFacts
<1>3. ckPc = "ram" /\ left' = left - 1 /\ UNCHANGED <<ramds, ckPc, always>>
  BY DEF CkRam, onVars, hiVars
<1>4. (b \in ToSet(storedRam) /\ UNCHANGED storedRam) \/ storedRam' = Cons(b, storedRam)
  BY DEF CkRam
<1> HIDE DEF b
<1>5. ToSet(Cons(b, storedRam)) = {b} \cup ToSet(storedRam)
  BY <1>1, <1>2, ConsFacts
<1>6. ToSet(storedRam') = {b} \cup ToSet(storedRam)
  BY <1>4, <1>5
<1>7. CurrentAt(ramds)' = CurrentAt(ramds) + 1 /\ CurrentAt(ramds) \in Int
  BY <1>1, <1>3 DEF CurrentAt
<1>8. ASSUME NEW c \in always, c \notin ToSet(storedRam')
      PROVE  \E j \in CurrentAt(ramds)' .. Len(ramds) : ramds[j] = c
  <2>1. PICK j \in CurrentAt(ramds) .. Len(ramds) : ramds[j] = c
    BY <1>3, <1>6, <1>8 DEF WalkInv
  <2>2. j # CurrentAt(ramds)
    BY <1>2, <1>6, <1>8, <2>1
  <2>3. j \in CurrentAt(ramds)' .. Len(ramds)
    BY <1>1, <1>7, <2>2
  <2> QED
    BY <2>1, <2>3
<1> QED
  BY <1>3, <1>8 DEF WalkInv, Done

LEMMA CkRamDelWalk ==
  ASSUME TypeInv, WalkInv, CkRamDel
  PROVE  WalkInv'
<1> DEFINE b == Current(storedRam)
           k == CurrentAt(storedRam)
<1>1. /\ left \in Nat /\ left > 0 /\ left <= Len(storedRam) /\ Len(storedRam) \in Nat
      /\ storedRam \in Seq(RamBadge)
  BY LenProperties DEF TypeInv, TypeOK, CkRamDel
<1>2. b = storedRam[k] /\ k \in DOMAIN storedRam /\ k = Len(storedRam) - left + 1
  BY <1>1, CurrentFacts DEF CurrentAt
<1>3. /\ ckPc = "ram_del" /\ left' = left - 1 /\ UNCHANGED <<ramds, ckPc, always, ever>>
      /\ \/ b \in ToSet(ramds) /\ UNCHANGED storedRam
         \/ b \notin ToSet(ramds) /\ storedRam' = RemoveAt(storedRam, k)
  BY DEF CkRamDel, onVars, hiVars
<1> HIDE DEF b, k
<1>4. always \subseteq ToSet(ramds) /\ ToSet(ramds) \subseteq ever
  BY <1>3 DEF TypeInv, OnlineInv
<1>5. /\ always \subseteq ToSet(storedRam)
      /\ \A j \in 1 .. Len(storedRam) - left : storedRam[j] \in ever
  BY <1>3 DEF WalkInv
<1>6. CASE b \in ToSet(ramds) /\ UNCHANGED storedRam
  <2>1. \A j \in 1 .. Len(storedRam) - left' : j = k \/ j \in 1 .. Len(storedRam) - left
    BY <1>1, <1>2, <1>3
  <2> QED
    BY <1>2, <1>3, <1>4, <1>5, <1>6, <2>1 DEF WalkInv, Done
<1>7. CASE b \notin ToSet(ramds) /\ storedRam' = RemoveAt(storedRam, k)
  <2>1. /\ Len(RemoveAt(storedRam, k)) = Len(storedRam) - 1
        /\ \A j \in 1 .. Len(storedRam) - 1 :
             RemoveAt(storedRam, k)[j] = IF j < k THEN storedRam[j] ELSE storedRam[j + 1]
        /\ ToSet(storedRam) \ {storedRam[k]} \subseteq ToSet(RemoveAt(storedRam, k))
    BY <1>1, <1>2, RemoveAtFacts
  <2>2. always \subseteq ToSet(storedRam')
    BY <1>2, <1>4, <1>5, <1>7, <2>1
  <2>3. \A j \in 1 .. Len(storedRam') - left' : storedRam'[j] \in ever
    <3> TAKE j \in 1 .. Len(storedRam') - left'
    <3>1. j \in 1 .. Len(storedRam) - left /\ j \in 1 .. Len(storedRam) - 1 /\ j < k
      BY <1>1, <1>2, <1>3, <1>7, <2>1
    <3> QED
      BY <1>5, <1>7, <2>1, <3>1
  <2> QED
    BY <1>3, <2>2, <2>3 DEF WalkInv, Done
<1> QED
  BY <1>3, <1>6, <1>7

LEMMA StepWalk == TypeInv /\ WalkInv /\ [Next]_vars => WalkInv'
<1> SUFFICES ASSUME TypeInv, WalkInv, [Next]_vars PROVE WalkInv'
  OBVIOUS
<1>1. ASSUME NEW b \in RamBadge, Alloc(b) PROVE WalkInv'
  BY <1>1, AllocWalk
<1>2. ASSUME NEW i \in DOMAIN ramds, Free(i) PROVE WalkInv'
  BY <1>2, FreeWalk
<1>3. CASE CkRam
  BY <1>3, CkRamWalk
<1>4. CASE CkRamDel
  BY <1>4, CkRamDelWalk
<1>5. CASE CkKnown
  <2>1. Len(ramds) \in Nat /\ DOMAIN ramds = 1 .. Len(ramds)
    BY LenProperties DEF TypeInv, TypeOK
  <2>2. CurrentAt(ramds)' = 1 /\ ckPc' = "ram" /\ UNCHANGED <<ramds, always>>
    BY <1>5, <2>1 DEF CkKnown, CurrentAt, onVars, hiVars
  <2>3. \A b \in always : \E j \in 1 .. Len(ramds) : ramds[j] = b
    BY <2>1 DEF TypeInv, OnlineInv, ToSet
  <2> QED
    BY <2>2, <2>3 DEF WalkInv, Done
<1>6. CASE CkRamEnd
  <2>1. Len(ramds) \in Nat /\ Len(storedRam) \in Nat
    BY LenProperties DEF TypeInv, TypeOK
  <2>2. CurrentAt(ramds) .. Len(ramds) = {} /\ 1 .. Len(storedRam) - left' = {}
    BY <1>6, <2>1 DEF CkRamEnd, CurrentAt
  <2> QED
    BY <1>6, <2>2 DEF CkRamEnd, WalkInv, Done, onVars, stVars, hiVars
<1>7. CASE CkRamDelEnd
  <2>1. Len(storedRam) - left = Len(storedRam) /\ DOMAIN storedRam = 1 .. Len(storedRam)
    BY <1>7, LenProperties DEF CkRamDelEnd, TypeInv, TypeOK
  <2>2. ToSet(storedRam) \subseteq ever
    BY <1>7, <2>1 DEF CkRamDelEnd, WalkInv, ToSet
  <2> QED
    BY <1>7, <2>2 DEF CkRamDelEnd, WalkInv, Done, onVars, stVars, hiVars
<1>8. CASE UNCHANGED <<ramds, storedRam, always, ever>> /\ ckPc' \in Done \cup {"dead"} /\ ckPc \in Done
  BY <1>8 DEF WalkInv, Done
<1>9. CASE ckPc' \in {"idle", "known", "dead"}
  BY <1>9 DEF WalkInv, Done
<1>10. CASE UNCHANGED <<ramds, storedRam, always, ever, ckPc, left>>
  BY <1>10 DEF WalkInv, CurrentAt
<1>11. ASSUME NEW a \in Addr, Detach(a) PROVE WalkInv'
  <2>1. /\ UNCHANGED <<ramds, storedRam, always, ever>>
        /\ ckPc' = "dead" \/ (ckPc = "regs" /\ ckPc' = "regs") \/ UNCHANGED <<ckPc, left>>
    BY <1>11 DEF Detach, stVars, hiVars
  <2> QED
    BY <1>8, <1>9, <1>10, <2>1 DEF Done
<1>12. CASE CloseMaps \/ \E b \in RmBadge : CreateMap(b)
  BY <1>10, <1>12 DEF CloseMaps, CreateMap, stVars, hiVars
<1>13. ASSUME NEW a \in Addr, NEW b \in Badge, Attach(a, b) PROVE WalkInv'
  BY <1>10, <1>13 DEF Attach, stVars, hiVars
<1>14. CASE CkRegs \/ CkRegsEnd \/ CkRegsDel \/ CkRegsDelEnd \/ CkMemory \/ \E b \in Badge : CkSave(b)
  BY <1>8, <1>14 DEF CkRegs, CkRegsEnd, CkRegsDel, CkRegsDelEnd, CkMemory, CkSave, Done,
                     onVars, stVars, hiVars
<1>15. CASE CkStart \/ CkReturn
  BY <1>9, <1>15 DEF CkStart, CkReturn
<1>16. CASE UNCHANGED vars
  BY <1>10, <1>16 DEF vars, onVars, stVars, hiVars
<1> QED
  BY <1>1, <1>2, <1>3, <1>4, <1>5, <1>6, <1>7, <1>11, <1>12, <1>13, <1>14, <1>15, <1>16
     DEF Next, Target, Checkpointer

LEMMA WalkInvariant == Spec => []WalkInv
<1>1. Init => WalkInv
  BY DEF Init, WalkInv, Done
<1> QED
  BY <1>1, StepWalk, TypeInvariant, PTL DEF Spec

\* However many requests are served while the checkpointer walks the lists: it
\* stores every RAM dataspace that was there all the time, and none that was
\* never there meanwhile (_prepare_ram_dataspaces).
THEOREM RamStored == Spec => []RamRegular
<1>1. WalkInv => RamRegular
  BY DEF WalkInv, Done, RamRegular, Prepared
<1> QED
  BY <1>1, WalkInvariant, PTL

-----------------------------------------------------------------------------
(* Reference counts.                                                       *)

OnlyRam == RamBadge \ RmBadge

Naming(b) == {r \in Region : r.ds = b}

\* RefCountExact in terms of counts over the lists.
CountInv ==
  \A b \in OnlyRam : refs[b] = CountIn(storedRam, {b}) + CountIn(storedRegs, Naming(b))

LEMMA CountExact == TypeOK => (CountInv <=> RefCountExact)
<1> SUFFICES ASSUME TypeOK, NEW b \in OnlyRam
             PROVE  /\ CountIn(storedRam, {b}) = Cardinality({i \in DOMAIN storedRam : storedRam[i] = b})
                    /\ CountIn(storedRegs, Naming(b))
                         = Cardinality({i \in DOMAIN storedRegs : storedRegs[i].ds = b})
  BY DEF CountInv, RefCountExact, OnlyRam
<1>1. {i \in DOMAIN storedRam : storedRam[i] \in {b}} = {i \in DOMAIN storedRam : storedRam[i] = b}
  OBVIOUS
<1>2. \A i \in DOMAIN storedRegs : storedRegs[i] \in Region
  BY LenProperties, ElementOfSeq DEF TypeOK
<1>3. {i \in DOMAIN storedRegs : storedRegs[i] \in Naming(b)}
        = {i \in DOMAIN storedRegs : storedRegs[i].ds = b}
  BY <1>2 DEF Naming
<1> QED
  BY <1>1, <1>3 DEF CountIn

LEMMA CountTypes ==
  ASSUME TypeOK, NEW b
  PROVE  CountIn(storedRam, {b}) \in Nat /\ CountIn(storedRegs, Naming(b)) \in Nat
<1>1. storedRam \in Seq(RamBadge) /\ storedRegs \in Seq(Region)
  BY DEF TypeOK
<1> QED
  BY <1>1, CountType

LEMMA CkRamCount ==
  ASSUME TypeInv, CountInv, CkRam
  PROVE  CountInv'
<1> DEFINE b == Current(ramds)
<1>1. /\ b \in RamBadge /\ b \in Badge /\ storedRam \in Seq(RamBadge)
      /\ refs \in [Badge -> Nat] /\ UNCHANGED storedRegs
  BY CurrentFacts DEF TypeInv, TypeOK, CkRam, Badge
<1>2. \/ UNCHANGED <<storedRam, refs>>
      \/ storedRam' = Cons(b, storedRam) /\ refs' = [refs EXCEPT ![b] = @ + 1]
  BY DEF CkRam, Refer
<1> HIDE DEF b
<1>3. CASE UNCHANGED <<storedRam, refs>>
  BY <1>1, <1>3 DEF CountInv
<1>4. CASE storedRam' = Cons(b, storedRam) /\ refs' = [refs EXCEPT ![b] = @ + 1]
  <2> SUFFICES ASSUME NEW c \in OnlyRam
               PROVE  refs'[c] = CountIn(storedRam', {c}) + CountIn(storedRegs, Naming(c))
    BY <1>1 DEF CountInv
  <2>1. CountIn(storedRam', {c}) = CountIn(storedRam, {c}) + (IF b \in {c} THEN 1 ELSE 0)
    BY <1>1, <1>4, CountCons
  <2>2. refs'[c] = IF c = b THEN refs[c] + 1 ELSE refs[c]
    BY <1>1, <1>4 DEF OnlyRam, Badge
  <2>3. refs[c] = CountIn(storedRam, {c}) + CountIn(storedRegs, Naming(c))
    BY DEF CountInv
  <2>4. CountIn(storedRam, {c}) \in Nat /\ CountIn(storedRegs, Naming(c)) \in Nat
    BY CountTypes DEF TypeInv
  <2> QED
    BY <2>1, <2>2, <2>3, <2>4
<1> QED
  BY <1>2, <1>3, <1>4

\* Where an info is counted, there is an entry to release.
LEMMA ReleaseCount ==
  ASSUME refs \in [Badge -> Nat], NEW b \in Badge, Release(b), NEW c \in OnlyRam,
         c = b => refs[c] > 0
  PROVE  refs'[c] = refs[c] - (IF c = b THEN 1 ELSE 0)
<1>1. c \in Badge /\ refs[c] \in Nat
  BY DEF OnlyRam, Badge
<1> QED
  BY <1>1 DEF Release

LEMMA CkRamDelCount ==
  ASSUME TypeInv, CountInv, CkRamDel
  PROVE  CountInv'
<1> DEFINE b == Current(storedRam)
           k == CurrentAt(storedRam)
<1>1. /\ b \in RamBadge /\ b \in Badge /\ storedRam \in Seq(RamBadge) /\ k \in DOMAIN storedRam
      /\ b = storedRam[k] /\ refs \in [Badge -> Nat] /\ UNCHANGED storedRegs
  BY CurrentFacts DEF TypeInv, TypeOK, CkRamDel, Badge
<1>2. \/ UNCHANGED <<storedRam, refs>>
      \/ storedRam' = RemoveAt(storedRam, k) /\ Release(b)
  BY DEF CkRamDel
<1> HIDE DEF b, k
<1>3. CASE UNCHANGED <<storedRam, refs>>
  BY <1>1, <1>3 DEF CountInv
<1>4. CASE storedRam' = RemoveAt(storedRam, k) /\ Release(b)
  <2> SUFFICES ASSUME NEW c \in OnlyRam
               PROVE  refs'[c] = CountIn(storedRam', {c}) + CountIn(storedRegs, Naming(c))
    BY <1>1 DEF CountInv
  <2>1. CountIn(storedRam', {c}) = CountIn(storedRam, {c}) - (IF storedRam[k] \in {c} THEN 1 ELSE 0)
    BY <1>1, <1>4, CountRemoveAt
  <2>2. refs[c] = CountIn(storedRam, {c}) + CountIn(storedRegs, Naming(c))
    BY DEF CountInv
  <2>3. CountIn(storedRam, {c}) \in Nat /\ CountIn(storedRegs, Naming(c)) \in Nat
    BY CountTypes DEF TypeInv
  <2>4. c = b => CountIn(storedRam, {c}) > 0
    <3>1. c = b => \E i \in DOMAIN storedRam : storedRam[i] \in {c}
      BY <1>1
    <3> QED
      BY <1>1, <3>1, CountType
  <2>5. refs'[c] = refs[c] - (IF c = b THEN 1 ELSE 0)
    BY <1>1, <1>4, <2>2, <2>3, <2>4, ReleaseCount
  <2> QED
    BY <1>1, <2>1, <2>2, <2>3, <2>5
<1> QED
  BY <1>2, <1>3, <1>4

\* No copy is made of a region map's dataspace, and none is missed: it is no
\* RAM dataspace.
LEMMA CkRegsCount ==
  ASSUME TypeInv, CountInv, CkRegs
  PROVE  CountInv'
<1> DEFINE r == Current(regions)
<1>1. /\ r \in Region /\ storedRegs \in Seq(Region) /\ known \subseteq RmBadge
      /\ refs \in [Badge -> Nat] /\ UNCHANGED storedRam
  BY CurrentFacts DEF TypeInv, TypeOK, CkRegs
<1>2. \/ UNCHANGED <<storedRegs, refs>>
      \/ /\ storedRegs' = Cons(r, storedRegs)
         /\ \/ refs' = [refs EXCEPT ![r.ds] = @ + 1]
            \/ r.ds \in known /\ UNCHANGED refs
  BY DEF CkRegs, Refer
<1> HIDE DEF r
<1>3. CASE UNCHANGED <<storedRegs, refs>>
  BY <1>1, <1>3 DEF CountInv
<1>4. CASE /\ storedRegs' = Cons(r, storedRegs)
           /\ \/ refs' = [refs EXCEPT ![r.ds] = @ + 1]
              \/ r.ds \in known /\ UNCHANGED refs
  <2> SUFFICES ASSUME NEW c \in OnlyRam
               PROVE  refs'[c] = CountIn(storedRam, {c}) + CountIn(storedRegs', Naming(c))
    BY <1>1 DEF CountInv
  <2>1. CountIn(storedRegs', Naming(c))
          = CountIn(storedRegs, Naming(c)) + (IF r \in Naming(c) THEN 1 ELSE 0)
    BY <1>1, <1>4, CountCons
  <2>2. r \in Naming(c) <=> r.ds = c
    BY <1>1 DEF Naming
  <2>3. refs'[c] = IF r.ds = c THEN refs[c] + 1 ELSE refs[c]
    BY <1>1, <1>4 DEF OnlyRam, Badge, Region
  <2>4. refs[c] = CountIn(storedRam, {c}) + CountIn(storedRegs, Naming(c))
    BY DEF CountInv
  <2>5. CountIn(storedRam, {c}) \in Nat /\ CountIn(storedRegs, Naming(c)) \in Nat
    BY CountTypes DEF TypeInv
  <2> QED
    BY <2>1, <2>2, <2>3, <2>4, <2>5
<1> QED
  BY <1>2, <1>3, <1>4

LEMMA CkRegsDelCount ==
  ASSUME TypeInv, CountInv, CkRegsDel
  PROVE  CountInv'
<1> DEFINE r == Current(storedRegs)
           k == CurrentAt(storedRegs)
<1>1. /\ r \in Region /\ storedRegs \in Seq(Region) /\ k \in DOMAIN storedRegs
      /\ r = storedRegs[k] /\ refs \in [Badge -> Nat] /\ UNCHANGED storedRam
  BY CurrentFacts DEF TypeInv, TypeOK, CkRegsDel
<1>2. \/ UNCHANGED <<storedRegs, refs>>
      \/ storedRegs' = RemoveAt(storedRegs, k) /\ Release(r.ds)
  BY DEF CkRegsDel
<1> HIDE DEF r, k
<1>3. CASE UNCHANGED <<storedRegs, refs>>
  BY <1>1, <1>3 DEF CountInv
<1>4. CASE storedRegs' = RemoveAt(storedRegs, k) /\ Release(r.ds)
  <2> SUFFICES ASSUME NEW c \in OnlyRam
               PROVE  refs'[c] = CountIn(storedRam, {c}) + CountIn(storedRegs', Naming(c))
    BY <1>1 DEF CountInv
  <2>1. CountIn(storedRegs', Naming(c))
          = CountIn(storedRegs, Naming(c)) - (IF storedRegs[k] \in Naming(c) THEN 1 ELSE 0)
    BY <1>1, <1>4, CountRemoveAt
  <2>2. (storedRegs[k] \in Naming(c) <=> r.ds = c) /\ r.ds \in Badge
    BY <1>1 DEF Naming, Region
  <2>3. refs[c] = CountIn(storedRam, {c}) + CountIn(storedRegs, Naming(c))
    BY DEF CountInv
  <2>4. CountIn(storedRam, {c}) \in Nat /\ CountIn(storedRegs, Naming(c)) \in Nat
    BY CountTypes DEF TypeInv
  <2>5. c = r.ds => CountIn(storedRegs, Naming(c)) > 0
    <3>1. c = r.ds => \E i \in DOMAIN storedRegs : storedRegs[i] \in Naming(c)
      BY <1>1, <2>2
    <3> QED
      BY <1>1, <3>1, CountType
  <2>6. refs'[c] = refs[c] - (IF c = r.ds THEN 1 ELSE 0)
    BY <1>1, <1>4, <2>2, <2>3, <2>4, <2>5, ReleaseCount
  <2> QED
    BY <2>1, <2>2, <2>3, <2>4, <2>6
<1> QED
  BY <1>2, <1>3, <1>4

LEMMA StepCount == TypeInv /\ CountInv /\ [Next]_vars => CountInv'
<1> SUFFICES ASSUME TypeInv, CountInv, [Next]_vars PROVE CountInv'
  OBVIOUS
<1>1. CASE CkRam \/ CkRamDel \/ CkRegs \/ CkRegsDel
  BY <1>1, CkRamCount, CkRamDelCount, CkRegsCount, CkRegsDelCount
<1>2. CASE UNCHANGED <<storedRam, storedRegs, refs>>
  BY <1>2 DEF CountInv
<1>3. CkRam \/ CkRamDel \/ CkRegs \/ CkRegsDel \/ UNCHANGED <<storedRam, storedRegs, refs>>
  BY DEF Next, Target, Alloc, Free, CreateMap, CloseMaps, Attach, Detach, Checkpointer,
         CkStart, CkKnown, CkRamEnd, CkRamDelEnd, CkRegsEnd, CkRegsDelEnd,
         CkMemory, CkSave, CkReturn, vars, stVars
<1> QED
  BY <1>1, <1>2, <1>3

LEMMA CountInvariant == Spec => []CountInv
<1>1. Init => CountInv
  <2> SUFFICES ASSUME Init, NEW b \in OnlyRam
               PROVE  refs[b] = CountIn(storedRam, {b}) + CountIn(storedRegs, Naming(b))
    BY DEF CountInv
  <2>1. CountIn(<<>>, {b}) = 0 /\ CountIn(<<>>, Naming(b)) = 0
    <3>1. \A V : {i \in DOMAIN <<>> : <<>>[i] \in V} = {}
      OBVIOUS
    <3> QED
      BY <3>1, FS_EmptySet DEF CountIn
  <2> QED
    BY <2>1 DEF Init, OnlyRam, Badge
<1> QED
  BY <1>1, StepCount, TypeInvariant, PTL DEF Spec

\* A RAM dataspace has exactly as many references in _copy_dataspaces as stored
\* infos name it, however many infos of both kinds share it, as long as core
\* never gives its badge to a region map.
THEOREM CountsExact == Spec => []RefCountExact
<1>1. TypeInv /\ CountInv => RefCountExact
  BY CountExact DEF TypeInv
<1> QED
  BY <1>1, TypeInvariant, CountInvariant, PTL

-----------------------------------------------------------------------------
(* Saving.                                                                 *)

SaveInv == ckPc = "save" => always \cap OnlyRam \subseteq saved \cup toSave

\* What is stored has a reference.
LEMMA StoredReferred ==
  ASSUME TypeInv, CountInv, NEW b \in OnlyRam, b \in ToSet(storedRam)
  PROVE  refs[b] > 0
<1>1. storedRam \in Seq(RamBadge) /\ \E i \in DOMAIN storedRam : storedRam[i] \in {b}
  BY DEF TypeInv, TypeOK, ToSet
<1>2. CountIn(storedRam, {b}) > 0
  BY <1>1, CountType
<1>3. CountIn(storedRam, {b}) \in Nat /\ CountIn(storedRegs, Naming(b)) \in Nat
  BY CountTypes DEF TypeInv
<1> QED
  BY <1>2, <1>3 DEF CountInv

LEMMA StepSave == TypeInv /\ WalkInv /\ CountInv /\ SaveInv /\ [Next]_vars => SaveInv'
<1> SUFFICES ASSUME TypeInv, WalkInv, CountInv, SaveInv, [Next]_vars PROVE SaveInv'
  OBVIOUS
<1>1. CASE CkMemory
  <2>1. always \subseteq ToSet(storedRam) /\ toSave' = {b \in Badge : refs[b] > 0} /\ UNCHANGED always
    BY <1>1 DEF CkMemory, WalkInv, Done, hiVars
  <2>2. \A b \in always \cap OnlyRam : b \in Badge /\ refs[b] > 0
    BY <2>1, StoredReferred DEF OnlyRam, Badge
  <2> QED
    BY <2>1, <2>2 DEF SaveInv
<1>2. ASSUME NEW b \in Badge, CkSave(b) PROVE SaveInv'
  BY <1>2 DEF CkSave, SaveInv
<1>3. CASE ckPc' # "save"
  BY <1>3 DEF SaveInv
<1>4. CASE ckPc = "save" /\ always' \subseteq always /\ UNCHANGED <<saved, toSave>>
  BY <1>4 DEF SaveInv
<1>5. \/ CkMemory \/ (\E b \in Badge : CkSave(b)) \/ ckPc' # "save"
      \/ ckPc = "save" /\ always' \subseteq always /\ UNCHANGED <<saved, toSave>>
  <2>1. CASE UNCHANGED vars
    BY <2>1 DEF vars, hiVars
  <2>2. CASE Target
    BY <2>2 DEF Target, Alloc, Free, CreateMap, CloseMaps, Attach, Detach, hiVars
  <2>3. CASE Checkpointer
    BY <2>3 DEF Checkpointer, CkStart, CkKnown, CkRam, CkRamEnd, CkRamDel, CkRamDelEnd,
                CkRegs, CkRegsEnd, CkRegsDel, CkRegsDelEnd, CkReturn
  <2> QED
    BY <2>1, <2>2, <2>3 DEF Next
<1> QED
  BY <1>1, <1>2, <1>3, <1>4, <1>5

\* A checkpoint that returns has copied every RAM dataspace that was there from
\* its beginning to its end, whatever else came, went or was attached, as long
\* as core never gives the badge of a RAM dataspace to a region map.  From
\* WalkInv (it is stored), CountInv (so it has a copy) and SaveInv.
THEOREM AllSaved ==
  ASSUME RamBadge \cap RmBadge = {}
  PROVE  Spec => EverySaved
<1>1. Init => SaveInv
  BY DEF Init, SaveInv
<1>2. Spec => []SaveInv
  BY <1>1, StepSave, TypeInvariant, WalkInvariant, CountInvariant, PTL DEF Spec
<1>3. TypeInv /\ SaveInv => (CkReturn => always \subseteq saved)
  BY DEF TypeInv, TypeOK, SaveInv, CkReturn, OnlyRam
<1> QED
  BY <1>2, <1>3, TypeInvariant, PTL DEF EverySaved

=============================================================================
