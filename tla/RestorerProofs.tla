--------------------------- MODULE RestorerProofs ---------------------------
(***************************************************************************)
(* Proofs about what the restorer makes of the stored lists: the restored  *)
(* capability map is one list that leads to every capability once          *)
(* (CapMapIntact), for any menus, numbers of objects and of selectors; and *)
(* merge_sort sorts every list (MergeSortFacts).                           *)
(*                                                                         *)
(* The map is a chain of selectors kept in an array.  Every insertion puts *)
(* a selector behind the one put in last; Linked carries the chain as a    *)
(* path, LinkedMore prolongs it by one, and WalkAlong shows that following *)
(* the array is following the path.                                        *)
(*                                                                         *)
(* merge_sort's loop is followed with MergeState: how many elements of     *)
(* each half it has taken, and where its pointers may stand once a half is *)
(* used up.  Its recursion is unfolded by lengths (MergeSortFacts).        *)
(***************************************************************************)
EXTENDS StoredSessionsProofs

-----------------------------------------------------------------------------
(* The walks.                                                              *)

\* A list is a list of its own elements.
LEMMA OwnElements ==
  ASSUME NEW V, NEW s \in Seq(V)
  PROVE  s \in Seq(ToSet(s))
<1>1. Len(s) \in Nat /\ DOMAIN s = 1 .. Len(s) /\ \A i \in DOMAIN s : s[i] \in ToSet(s)
  BY ListElements
<1>2. s = [i \in 1 .. Len(s) |-> s[i]]
  BY LenProperties
<1>3. s \in [1 .. Len(s) -> ToSet(s)]
  BY <1>1, <1>2
<1> QED
  BY <1>1, <1>3, SeqDef

\* Walks lead over what is stored.
LEMMA WalkType ==
  ASSUME NEW V, stored \in Seq(V), NEW kind, NEW memberKinds, NEW n \in Nat,
         DOMAIN memberKinds = 1 .. n
  PROVE  Walk(kind, memberKinds) \in Seq(V)
<1> DEFINE C == Seq(V)
           sessions == Under(stored, kind, 0)
           members(s) == [k \in DOMAIN memberKinds |-> Under(stored, memberKinds[k], s.badge)]
           walks == [i \in DOMAIN sessions |-> <<sessions[i]>> \o FlattenSeq(members(sessions[i]))]
<1>1. \A any, owner : Under(stored, any, owner) \in C
  BY OnlyFacts DEF Under
<1>2. C \in SUBSET Seq(V) /\ <<>> \in C /\ \A a, b \in C : a \o b \in C
  BY ConcatSet, EmptySeq
<1>4. sessions \in C
  BY <1>1
<1> HIDE DEF sessions
<1>5. /\ Len(sessions) \in Nat /\ DOMAIN sessions = 1 .. Len(sessions)
      /\ \A i \in DOMAIN sessions : sessions[i] \in V
  BY <1>4, ListElements
<1>6. ASSUME NEW s PROVE FlattenSeq(members(s)) \in C
  <2> DEFINE m == members(s)
  <2>1. m \in [1 .. n -> C]
    BY <1>1
  <2>2. m \in Seq(C)
    BY <2>1, SeqDef
  <2> HIDE DEF m, C
  <2>3. FlattenSeq(m) \in C
    BY <1>2, <2>2, FlattenFacts
  <2> QED
    BY <2>3 DEF m
<1> HIDE DEF members
<1>7. walks \in Seq(C)
  <2>1. \A i \in DOMAIN sessions : <<sessions[i]>> \o FlattenSeq(members(sessions[i])) \in C
    <3> TAKE i \in DOMAIN sessions
    <3>1. <<sessions[i]>> \in C
      BY <1>5
    <3> QED
      BY <1>2, <1>6, <3>1
  <2>2. walks \in [1 .. Len(sessions) -> C]
    BY <1>5, <2>1
  <2> QED
    BY <1>5, <2>2, SeqDef
<1>8. Walk(kind, memberKinds) = FlattenSeq(walks)
  BY DEF Walk, walks, sessions, members
<1> HIDE DEF walks, C
<1>9. FlattenSeq(walks) \in C
  BY <1>2, <1>7, FlattenFacts
<1> QED
  BY <1>8, <1>9 DEF C

\* An element with a selector, or none.
Slotted == {s \in Object : s.kcap \in 0 .. MaxSlots}

\* The first walk leads over stored elements.
LEMMA IdentifyWalkType ==
  ASSUME Good(stored)
  PROVE  IdentifyWalk \in Seq(Slotted)
<1>1. stored \in Seq(Slotted)
  <2>1. stored \in Seq(ToSet(stored)) /\ \A s \in ToSet(stored) : s \in Slotted
    BY ListElements, OwnElements DEF Good, Proper, Slotted
  <2>2. ToSet(stored) \subseteq Slotted
    BY <2>1
  <2> QED
    BY <2>1, <2>2
<1>2. /\ DOMAIN <<>> = 1 .. 0 /\ DOMAIN <<"ramds">> = 1 .. 1 /\ DOMAIN <<"thread">> = 1 .. 1
      /\ DOMAIN <<"map">> = 1 .. 1 /\ DOMAIN <<"source", "context", "space">> = 1 .. 3
      /\ 0 \in Nat /\ 1 \in Nat /\ 3 \in Nat
  OBVIOUS
<1>3. /\ Walk("ram", <<"ramds">>) \in Seq(Slotted)
      /\ Walk("pd", <<"source", "context", "space">>) \in Seq(Slotted)
      /\ Walk("cpu", <<"thread">>) \in Seq(Slotted) /\ Walk("rm", <<"map">>) \in Seq(Slotted)
      /\ Walk("log", <<>>) \in Seq(Slotted) /\ Walk("timer", <<>>) \in Seq(Slotted)
  BY <1>1, <1>2, WalkType
<1>4. \A a, b \in Seq(Slotted) : a \o b \in Seq(Slotted)
  BY ConcatSet
<1> QED
  BY <1>3, <1>4 DEF IdentifyWalk

-----------------------------------------------------------------------------
(* Identifying and recreating.                                             *)

\* _capability_map_infos: selector and badge.
Cap == [kcap : 0 .. MaxSlots, cap : Nat]

\* What a step of the first walk does to the child and its capabilities.
LEMMA IdentifySteps ==
  Identify =>
    /\ rsPc = "identify" /\ rsPc' \in {"identify", "failed", "crashed"}
    /\ todo # <<>> /\ todo' = Tail(todo)
    /\ \/ UNCHANGED <<child, caps>>
       \/ /\ caps' = Cons([kcap |-> S.kcap, cap |-> NewBadge], caps)
          /\ (\E new : child' = Cons(new, child)) \/ rsPc' = "failed"
<1> SUFFICES ASSUME Identify
             PROVE  /\ rsPc = "identify" /\ rsPc' \in {"identify", "failed", "crashed"}
                    /\ todo # <<>> /\ todo' = Tail(todo)
                    /\ \/ UNCHANGED <<child, caps>>
                       \/ /\ caps' = Cons([kcap |-> S.kcap, cap |-> NewBadge], caps)
                          /\ (\E new : child' = Cons(new, child)) \/ rsPc' = "failed"
  OBVIOUS
<1> DEFINE Added == /\ caps' = Cons([kcap |-> S.kcap, cap |-> NewBadge], caps)
                    /\ \E new : child' = Cons(new, child)
           Unchanged == UNCHANGED <<child, caps>>
<1>1. \A badge : Identified(badge) => Unchanged
  BY DEF Identified
<1>2. \A owner, ref : Recreated(owner, ref) => Added
  BY DEF Recreated
<1>3. \A pc : Ends(pc) => Unchanged /\ rsPc' = pc
  BY DEF Ends
<1> HIDE DEF Added, Unchanged
<1>4. /\ rsPc = "identify" /\ todo # <<>> /\ todo' = Tail(todo)
  BY DEF Identify, IdentifyRam, IdentifyRamds, IdentifyPd, IdentifySource, IdentifyContext,
     IdentifySpace, IdentifyCpu, IdentifyThread, IdentifyRm, IdentifyMap, IdentifyLog,
     IdentifyTimer, Visit
<1>5. CASE IdentifyPd
  BY <1>1, <1>4, <1>5 DEF IdentifyPd, Unchanged
<1>6. CASE IdentifyMap
  BY <1>4, <1>6 DEF IdentifyMap
<1>7. CASE IdentifySpace
  BY <1>4, <1>7 DEF IdentifySpace
<1>8. CASE \/ IdentifyRam \/ IdentifyRamds \/ IdentifySource \/ IdentifyContext \/ IdentifyCpu
           \/ IdentifyThread \/ IdentifyRm \/ IdentifyLog \/ IdentifyTimer
  <2>1. Added \/ Unchanged
    BY <1>1, <1>2, <1>3, <1>8 DEF IdentifyRam, IdentifyRamds, IdentifySource, IdentifyContext,
       IdentifyCpu, IdentifyThread, IdentifyRm, IdentifyLog, IdentifyTimer
  <2>2. rsPc' \in {"identify", "failed", "crashed"}
    BY <1>3, <1>4, <1>8 DEF IdentifyRam, IdentifyRamds, IdentifySource, IdentifyContext,
       IdentifyCpu, IdentifyThread, IdentifyRm, IdentifyLog, IdentifyTimer
  <2> QED
    BY <1>4, <2>1, <2>2 DEF Added, Unchanged
<1> QED
  BY <1>5, <1>6, <1>7, <1>8 DEF Identify

-----------------------------------------------------------------------------
(* The capability map.                                                     *)

\* No two capabilities want the same selector, nor one of the bootstrap's.
Distinct ==
  \A i, j \in DOMAIN caps :
    caps[i].kcap # 0 => caps[i].kcap > 4 /\ (caps[i].kcap = caps[j].kcap => i = j)

\* The selectors in use when the first n capabilities are in the map.
UsedBy(n) == 1 .. 4 \cup {caps[i].kcap : i \in {j \in 1 .. n : caps[j].kcap # 0}}

\* From selector 4 on the array l leads along the path p through the selectors in
\* use, k of them beyond the bootstrap's, each once, and ends.  A selector that is
\* added goes behind v, the one added last; one of the bootstrap's comes last.
Linked(l, v, k, p, used) ==
  /\ p \in [0 .. k + 4 -> 0 .. MaxSlots]
  /\ p[0] = 4 /\ p[k + 2] = v /\ p[k + 4] = 0
  /\ \A i \in 0 .. k + 3 : l[p[i]] = p[i + 1]
  /\ \A i, j \in 0 .. k + 4 : p[i] = p[j] => i = j
  /\ {p[i] : i \in 0 .. k + 3} = used

\* The first n capabilities are in the map.
Patched(n) ==
  /\ list \in [0 .. MaxSlots -> 0 .. MaxSlots] /\ prev \in 1 .. MaxSlots
  /\ Distinct => \E k \in Nat : \E p : Linked(list, prev, k, p, UsedBy(n))

\* The map that is copied leads to the four selectors of the bootstrap.
LEMMA Copied ==
  ASSUME list' = [k \in 0 .. MaxSlots |-> IF k \in 2 .. 4 THEN k - 1 ELSE 0], prev' = 2
  PROVE  Patched(0)'
<1> DEFINE p == [i \in 0 .. 4 |-> 4 - i]
<1>1. MaxSlots \in Nat /\ MaxSlots >= 4
  BY SlotsAssumption
<1>2. list' \in [0 .. MaxSlots -> 0 .. MaxSlots] /\ prev' \in 1 .. MaxSlots
  BY <1>1
<1>3. \A i \in 0 .. 4 : p[i] = 4 - i
  OBVIOUS
<1>4. p \in [0 .. 4 -> 0 .. MaxSlots]
  BY <1>1
<1> HIDE DEF p
<1>5. \A i \in 0 .. 3 : list'[p[i]] = p[i + 1]
  <2> TAKE i \in 0 .. 3
  <2>1. 4 - i \in 0 .. MaxSlots /\ 4 - i \in 1 .. 4 /\ i + 1 \in 0 .. 4 /\ i \in 0 .. 4
    BY <1>1
  <2>2. list'[4 - i] = IF 4 - i \in 2 .. 4 THEN 4 - i - 1 ELSE 0
    BY <2>1
  <2> QED
    BY <1>3, <2>1, <2>2
<1>6. \A i, j \in 0 .. 4 : p[i] = p[j] => i = j
  BY <1>3
<1>7. {p[i] : i \in 0 .. 3} = 1 .. 4
  <2>1. \A i \in 0 .. 3 : p[i] \in 1 .. 4
    BY <1>3
  <2>2. \A k \in 1 .. 4 : 4 - k \in 0 .. 3 /\ p[4 - k] = k
    BY <1>3
  <2> QED
    BY <2>1, <2>2
<1>8. UsedBy(0)' = 1 .. 4
  BY DEF UsedBy
<1>9. p[0] = 4 /\ p[2] = prev' /\ p[4] = 0
  BY <1>3
<1>10. 0 + 4 = 4 /\ 0 + 3 = 3 /\ 0 + 2 = 2
  OBVIOUS
<1>11. Linked(list', prev', 0, p, UsedBy(0)')
  BY <1>4, <1>5, <1>6, <1>7, <1>8, <1>9, <1>10, Zenon DEF Linked
<1> QED
  BY <1>2, <1>11 DEF Patched

\* A selector that is 0 changes nothing.
LEMMA UsedMore ==
  ASSUME NEW n \in Nat
  PROVE  UsedBy(n + 1) = IF caps[n + 1].kcap = 0 THEN UsedBy(n)
                         ELSE UsedBy(n) \cup {caps[n + 1].kcap}
<1>1. \A j : j \in 1 .. n + 1 <=> j \in 1 .. n \/ j = n + 1
  OBVIOUS
<1> QED
  BY <1>1 DEF UsedBy

\* A new selector is linked behind prev.
LEMMA LinkedMore ==
  ASSUME NEW l \in [0 .. MaxSlots -> 0 .. MaxSlots], NEW v, NEW k \in Nat, NEW p, NEW used,
         Linked(l, v, k, p, used), NEW cur \in 1 .. MaxSlots, cur \notin used,
         NEW m, m = [[l EXCEPT ![cur] = l[v]] EXCEPT ![v] = cur]
  PROVE  \E q : Linked(m, cur, k + 1, q, used \cup {cur})
<1> DEFINE q == [i \in 0 .. k + 5 |-> IF i <= k + 2 THEN p[i]
                                      ELSE IF i = k + 3 THEN cur ELSE p[i - 1]]
<1>1. /\ \A i \in 0 .. k + 4 : p[i] \in 0 .. MaxSlots
      /\ p[0] = 4 /\ p[k + 2] = v /\ p[k + 4] = 0
      /\ \A i \in 0 .. k + 3 : l[p[i]] = p[i + 1]
      /\ \A i, j \in 0 .. k + 4 : p[i] = p[j] => i = j
      /\ {p[i] : i \in 0 .. k + 3} = used
  BY DEF Linked
<1>2. \A i \in 0 .. k + 4 : p[i] # cur
  <2> TAKE i \in 0 .. k + 4
  <2>1. i \in 0 .. k + 3 \/ i = k + 4
    OBVIOUS
  <2>2. cur # 0
    BY SlotsAssumption
  <2> QED
    BY <1>1, <2>1, <2>2
<1>3. /\ \A i \in 0 .. k + 2 : i \in 0 .. k + 5 /\ q[i] = p[i]
      /\ k + 3 \in 0 .. k + 5 /\ q[k + 3] = cur
      /\ \A i \in k + 4 .. k + 5 : i \in 0 .. k + 5 /\ i - 1 \in 0 .. k + 4 /\ q[i] = p[i - 1]
  OBVIOUS
<1>4. \A i \in 0 .. k + 5 : i \in 0 .. k + 2 \/ i = k + 3 \/ i \in k + 4 .. k + 5
  OBVIOUS
<1>5. \A i \in 0 .. k + 2 : i \in 0 .. k + 4
  OBVIOUS
<1>6. q \in [0 .. k + 5 -> 0 .. MaxSlots]
  <2>1. cur \in 0 .. MaxSlots
    BY SlotsAssumption
  <2>2. \A i \in 0 .. k + 5 : q[i] \in 0 .. MaxSlots
    <3> HIDE DEF q
    <3> QED
      BY <1>1, <1>3, <1>4, <1>5, <2>1
  <2> QED
    BY <2>2
<1> HIDE DEF q
<1>7. \A i, j \in 0 .. k + 5 : q[i] = q[j] => i = j
  <2> DEFINE from(i) == IF i <= k + 2 THEN i ELSE i - 1
  <2>1. \A i \in 0 .. k + 5 : i # k + 3 => from(i) \in 0 .. k + 4 /\ q[i] = p[from(i)]
    BY <1>3, <1>4
  <2>2. \A i, j \in 0 .. k + 5 : i # k + 3 /\ j # k + 3 /\ from(i) = from(j) => i = j
    OBVIOUS
  <2> HIDE DEF from
  <2> SUFFICES ASSUME NEW i \in 0 .. k + 5, NEW j \in 0 .. k + 5, q[i] = q[j] PROVE i = j
    OBVIOUS
  <2>3. CASE i # k + 3 /\ j # k + 3
    <3>1. p[from(i)] = p[from(j)] /\ from(i) \in 0 .. k + 4 /\ from(j) \in 0 .. k + 4
      BY <2>1, <2>3
    <3>2. from(i) = from(j)
      BY <1>1, <3>1
    <3> QED
      BY <2>2, <2>3, <3>2
  <2>4. CASE i = k + 3 /\ j # k + 3
    BY <1>2, <1>3, <2>1, <2>4
  <2>5. CASE i # k + 3 /\ j = k + 3
    BY <1>2, <1>3, <2>1, <2>5
  <2> QED
    BY <2>3, <2>4, <2>5
<1>8. \A s \in 0 .. MaxSlots : m[s] = IF s = v THEN cur ELSE IF s = cur THEN l[v] ELSE l[s]
  BY SlotsAssumption
<1>9. \A i \in 0 .. k + 4 : m[q[i]] = q[i + 1]
  <2> TAKE i \in 0 .. k + 4
  <2>0. k + 2 \in 0 .. k + 4 /\ k + 3 \in 0 .. k + 4 /\ k + 2 \in 0 .. k + 3 /\ k + 2 + 1 = k + 3
    OBVIOUS
  <2>1. CASE i \in 0 .. k + 1
    <3>1. i \in 0 .. k + 2 /\ i + 1 \in 0 .. k + 2 /\ i # k + 2 /\ i \in 0 .. k + 3
      BY <2>1
    <3>2. p[i] # v /\ p[i] # cur /\ p[i] \in 0 .. MaxSlots
      BY <1>1, <1>2, <2>0, <3>1
    <3>3. m[p[i]] = p[i + 1]
      BY <1>1, <1>8, <3>1, <3>2
    <3> QED
      BY <1>3, <3>1, <3>3
  <2>2. CASE i = k + 2
    <3>1. i \in 0 .. k + 2 /\ i + 1 = k + 3 /\ v \in 0 .. MaxSlots
      BY <1>1, <2>0, <2>2
    <3> QED
      BY <1>1, <1>3, <1>8, <2>2, <3>1
  <2>3. CASE i = k + 3
    <3>1. i + 1 \in k + 4 .. k + 5 /\ i + 1 - 1 = k + 3 /\ cur \in 0 .. MaxSlots /\ cur # v
      <4>1. i + 1 \in k + 4 .. k + 5 /\ i + 1 - 1 = k + 3
        BY <2>3
      <4>2. cur \in 0 .. MaxSlots
        BY SlotsAssumption
      <4>3. cur # v
        BY <1>1, <1>2, <2>0
      <4> QED
        BY <4>1, <4>2, <4>3
    <3>2. m[cur] = p[k + 3]
      BY <1>1, <1>8, <2>0, <3>1
    <3>3. q[i + 1] = p[k + 3]
      BY <1>3, <3>1
    <3> QED
      BY <1>3, <2>3, <3>2, <3>3
  <2>4. CASE i = k + 4
    <3>1. /\ i \in k + 4 .. k + 5 /\ i - 1 = k + 3 /\ i + 1 \in k + 4 .. k + 5 /\ i + 1 - 1 = k + 4
          /\ k + 3 \in 0 .. k + 3 /\ k + 3 # k + 2 /\ k + 3 + 1 = k + 4
      BY <2>4
    <3>2. p[k + 3] # v /\ p[k + 3] # cur /\ p[k + 3] \in 0 .. MaxSlots
      BY <1>1, <1>2, <2>0, <3>1
    <3>3. m[p[k + 3]] = p[k + 4]
      BY <1>1, <1>8, <3>1, <3>2
    <3>4. q[i] = p[k + 3] /\ q[i + 1] = p[k + 4]
      BY <1>3, <3>1
    <3> QED
      BY <3>3, <3>4
  <2>5. i \in 0 .. k + 1 \/ i = k + 2 \/ i = k + 3 \/ i = k + 4
    OBVIOUS
  <2> QED
    BY <2>1, <2>2, <2>3, <2>4, <2>5
<1>10. {q[i] : i \in 0 .. k + 4} = used \cup {cur}
  <2>1. ASSUME NEW i \in 0 .. k + 4 PROVE q[i] \in used \cup {cur}
    <3>1. CASE i \in 0 .. k + 2
      <4>1. i \in 0 .. k + 3
        BY <3>1
      <4> QED
        BY <1>1, <1>3, <3>1, <4>1
    <3>2. CASE i = k + 3
      BY <1>3, <3>2
    <3>3. CASE i = k + 4
      <4>1. i \in k + 4 .. k + 5 /\ i - 1 \in 0 .. k + 3
        BY <3>3
      <4>2. q[i] = p[i - 1]
        BY <1>3, <4>1
      <4>3. p[i - 1] \in used
        BY <1>1, <4>1
      <4> QED
        BY <4>2, <4>3
    <3> QED
      BY <1>4, <3>1, <3>2, <3>3
  <2>2. ASSUME NEW i \in 0 .. k + 3 PROVE \E j \in 0 .. k + 4 : q[j] = p[i]
    <3>1. CASE i \in 0 .. k + 2
      <4>1. i \in 0 .. k + 4
        BY <3>1
      <4> QED
        BY <1>3, <3>1, <4>1
    <3>2. CASE i = k + 3
      <4>1. k + 4 \in k + 4 .. k + 5 /\ k + 4 - 1 = i /\ k + 4 \in 0 .. k + 4
        BY <3>2
      <4> QED
        BY <1>3, <4>1
    <3>3. i \in 0 .. k + 2 \/ i = k + 3
      OBVIOUS
    <3> QED
      BY <3>1, <3>2, <3>3
  <2>3. k + 3 \in 0 .. k + 4 /\ q[k + 3] = cur
    BY <1>3
  <2>4. ASSUME NEW s \in used PROVE \E j \in 0 .. k + 4 : q[j] = s
    <3>1. PICK i \in 0 .. k + 3 : p[i] = s
      BY <1>1
    <3> QED
      BY <2>2, <3>1
  <2>5. \A s \in used \cup {cur} : \E j \in 0 .. k + 4 : q[j] = s
    BY <2>3, <2>4
  <2> QED
    BY <2>1, <2>5
<1>11. q[0] = 4 /\ q[k + 3] = cur /\ q[k + 5] = 0
  <2>1. 0 \in 0 .. k + 2 /\ k + 5 \in k + 4 .. k + 5 /\ k + 5 - 1 = k + 4
    OBVIOUS
  <2> QED
    BY <1>1, <1>3, <2>1
<1>12. k + 1 + 4 = k + 5 /\ k + 1 + 3 = k + 4 /\ k + 1 + 2 = k + 3
  OBVIOUS
<1>13. Linked(m, cur, k + 1, q, used \cup {cur})
  BY <1>6, <1>7, <1>9, <1>10, <1>11, <1>12, Zenon DEF Linked
<1> QED
  BY <1>13

\* What is left of the walk over the capabilities after n of them.
Left(n) ==
  /\ n \in 0 .. Len(caps) /\ todo \in Seq(Cap) /\ Len(todo) = Len(caps) - n
  /\ \A i \in 1 .. Len(todo) : todo[i] = caps[n + i]

\* The restorer's capabilities, and how far the map is patched with them.
CapInv ==
  /\ caps \in Seq(Cap)
  /\ rsPc \in {"none", "identify", "state", "resolved", "capmap", "capspace", "content",
               "done", "failed", "crashed"}
  /\ rsPc = "identify" => todo \in Seq(Slotted) /\ child \in Seq(ToSet(child))
  /\ rsPc = "capmap" => \E n \in Nat : Left(n) /\ Patched(n)
  /\ rsPc \in {"capspace", "content", "done"} => Patched(Len(caps))

\* The rest of a list.
LEMMA TailFacts ==
  ASSUME NEW V, NEW s \in Seq(V), s # <<>>
  PROVE  /\ Head(s) \in V /\ Head(s) = s[1] /\ 1 \in 1 .. Len(s) /\ Len(s) \in Nat
         /\ Tail(s) \in Seq(V) /\ Len(Tail(s)) = Len(s) - 1
         /\ \A i \in 1 .. Len(s) - 1 : Tail(s)[i] = s[i + 1]
<1>1. Len(s) \in Nat /\ Len(s) # 0
  BY EmptySeq, LenProperties
<1>2. /\ Tail(s) \in Seq(V) /\ Len(Tail(s)) = Len(s) - 1
      /\ \A i \in 1 .. Len(s) - 1 : Tail(s)[i] = s[i + 1]
      /\ Head(s) \in V /\ Head(s) = s[1]
  BY HeadTailProperties
<1> QED
  BY <1>1, <1>2

\* Capabilities that are new for the map.
LEMMA IdentifyKeeps ==
  ASSUME CapInv, Identify
  PROVE  CapInv'
<1>1. /\ rsPc = "identify" /\ rsPc' \in {"identify", "failed", "crashed"}
      /\ todo # <<>> /\ todo' = Tail(todo)
      /\ \/ UNCHANGED <<child, caps>>
         \/ /\ caps' = Cons([kcap |-> S.kcap, cap |-> NewBadge], caps)
            /\ (\E new : child' = Cons(new, child)) \/ rsPc' = "failed"
  BY IdentifySteps
<1>2. todo \in Seq(Slotted) /\ child \in Seq(ToSet(child)) /\ caps \in Seq(Cap)
  BY <1>1 DEF CapInv
<1>3. S \in Slotted /\ todo' \in Seq(Slotted)
  BY <1>1, <1>2, TailFacts DEF S
<1>4. [kcap |-> S.kcap, cap |-> NewBadge] \in Cap
  <2>1. S.kcap \in 0 .. MaxSlots
    BY <1>3 DEF Slotted
  <2>2. NewBadge \in Nat
    <3>1. Len(child) \in Nat
      BY <1>2, LenProperties
    <3> QED
      BY <3>1 DEF NewBadge, NthBadge
  <2> QED
    BY <2>1, <2>2 DEF Cap
<1>5. caps' \in Seq(Cap)
  <2> DEFINE e == [kcap |-> S.kcap, cap |-> NewBadge]
  <2>1. e \in Cap /\ (UNCHANGED caps \/ caps' = Cons(e, caps))
    BY <1>1, <1>4
  <2> HIDE DEF e
  <2>2. Cons(e, caps) \in Seq(Cap)
    BY <1>2, <2>1, ConsFacts
  <2> QED
    BY <1>2, <2>1, <2>2
<1>6. ASSUME rsPc' = "identify" PROVE child' \in Seq(ToSet(child'))
  <2>1. CASE UNCHANGED child
    BY <1>2, <2>1
  <2>2. CASE \E new : child' = Cons(new, child)
    <3>1. PICK new : child' = Cons(new, child)
      BY <2>2
    <3> DEFINE V == ToSet(child) \cup {new}
    <3>2. child \in Seq(V)
      <4>1. /\ Len(child) \in Nat /\ DOMAIN child = 1 .. Len(child)
            /\ \A i \in DOMAIN child : child[i] \in V
        BY <1>2, ListElements
      <4>2. child = [i \in 1 .. Len(child) |-> child[i]]
        BY <1>2, LenProperties
      <4>3. child \in [1 .. Len(child) -> V]
        BY <4>1, <4>2
      <4> QED
        BY <4>1, <4>3, SeqDef
    <3>3. new \in V
      OBVIOUS
    <3> HIDE DEF V
    <3>4. child' \in Seq(V)
      BY <3>1, <3>2, <3>3, ConsFacts
    <3> DEFINE c == child'
    <3>5. c \in Seq(V)
      BY <3>4
    <3> HIDE DEF c
    <3>6. c \in Seq(ToSet(c))
      BY <3>5, OwnElements
    <3> QED
      BY <3>6 DEF c
  <2> QED
    BY <1>1, <1>6, <2>1, <2>2
<1>7. rsPc' \notin {"capmap", "capspace", "content", "done"}
  BY <1>1
<1>8. rsPc' \in {"none", "identify", "state", "resolved", "capmap", "capspace", "content",
                 "done", "failed", "crashed"}
  BY <1>1
<1> QED
  BY <1>3, <1>5, <1>6, <1>7, <1>8 DEF CapInv

\* One capability after the other.
LEMMA PatchKeeps ==
  ASSUME CapInv, PatchCapMap
  PROVE  CapInv'
<1> DEFINE cur == Head(todo).kcap
<1>1. /\ rsPc = "capmap" /\ todo # <<>> /\ todo' = Tail(todo) /\ UNCHANGED <<caps, rsPc>>
      /\ IF cur = 0 THEN UNCHANGED <<list, prev>>
         ELSE /\ list' = [[list EXCEPT ![cur] = list[prev]] EXCEPT ![prev] = cur]
              /\ prev' = cur
  BY DEF PatchCapMap
<1>2. caps \in Seq(Cap)
  BY DEF CapInv
<1>3. PICK n \in Nat : Left(n) /\ Patched(n)
  BY <1>1 DEF CapInv
<1>4. /\ Head(todo) = todo[1] /\ 1 \in 1 .. Len(todo) /\ Len(todo) \in Nat /\ todo' \in Seq(Cap)
      /\ Len(todo') = Len(todo) - 1 /\ \A i \in 1 .. Len(todo) - 1 : todo'[i] = todo[i + 1]
  BY <1>1, <1>3, TailFacts DEF Left
<1>5. Len(caps) \in Nat /\ DOMAIN caps = 1 .. Len(caps) /\ \A i \in DOMAIN caps : caps[i] \in Cap
  BY <1>2, ListElements
<1>6. Head(todo) = caps[n + 1] /\ n + 1 \in 1 .. Len(caps)
  BY <1>3, <1>4, <1>5 DEF Left
<1>7. Left(n + 1)'
  <2>1. \A i \in 1 .. Len(todo) - 1 : i + 1 \in 1 .. Len(todo) /\ n + (i + 1) = n + 1 + i
    BY <1>4
  <2>2. \A i \in 1 .. Len(todo') : todo'[i] = caps[n + 1 + i]
    BY <1>3, <1>4, <2>1 DEF Left
  <2>3. n + 1 \in 0 .. Len(caps) /\ Len(todo') = Len(caps) - (n + 1)
    BY <1>3, <1>4, <1>5, <1>6 DEF Left
  <2> QED
    BY <1>1, <1>4, <2>2, <2>3 DEF Left
<1>8. cur = caps[n + 1].kcap /\ cur \in 0 .. MaxSlots
  BY <1>5, <1>6 DEF Cap
<1> HIDE DEF cur
<1>9. \A m : UsedBy(m)' = UsedBy(m) /\ Distinct' = Distinct
  BY <1>1 DEF UsedBy, Distinct
<1>10. list \in [0 .. MaxSlots -> 0 .. MaxSlots] /\ prev \in 1 .. MaxSlots
  BY <1>3 DEF Patched
<1>11. Patched(n + 1)'
  <2>1. CASE cur = 0
    <3>1. UsedBy(n + 1) = UsedBy(n)
      BY <1>8, <2>1, UsedMore
    <3>2. UNCHANGED <<list, prev>>
      BY <1>1, <2>1
    <3> QED
      BY <1>3, <1>9, <3>1, <3>2 DEF Patched
  <2>2. CASE cur # 0
    <3>1. cur \in 1 .. MaxSlots
      BY <1>8, <2>2, SlotsAssumption
    <3>2. list' = [[list EXCEPT ![cur] = list[prev]] EXCEPT ![prev] = cur] /\ prev' = cur
      BY <1>1, <2>2
    <3>3. list' \in [0 .. MaxSlots -> 0 .. MaxSlots] /\ prev' \in 1 .. MaxSlots
      <4>1. list[prev] \in 0 .. MaxSlots
        BY <1>10, SlotsAssumption
      <4> QED
        BY <1>8, <1>10, <3>1, <3>2, <4>1
    <3>4. UsedBy(n + 1) = UsedBy(n) \cup {cur}
      BY <1>8, <2>2, UsedMore
    <3>5. ASSUME Distinct
          PROVE  \E k \in Nat : \E p : Linked(list', prev', k, p, UsedBy(n) \cup {cur})
      <4>1. cur \notin UsedBy(n)
        <5>1. cur > 4 /\ \A j \in DOMAIN caps : caps[j].kcap = cur => j = n + 1
          BY <1>5, <1>6, <1>8, <2>2, <3>5 DEF Distinct
        <5>2. \A j \in 1 .. n : j \in DOMAIN caps /\ j # n + 1
          BY <1>5, <1>6
        <5>3. cur \notin 1 .. 4
          BY <5>1
        <5> QED
          BY <5>1, <5>2, <5>3 DEF UsedBy
      <4>2. PICK k \in Nat : \E p : Linked(list, prev, k, p, UsedBy(n))
        BY <1>3, <3>5 DEF Patched
      <4>3. PICK p : Linked(list, prev, k, p, UsedBy(n))
        BY <4>2
      <4> DEFINE used == UsedBy(n)
      <4>4. Linked(list, prev, k, p, used) /\ cur \notin used
        BY <4>1, <4>3
      <4> HIDE DEF used
      <4>5. \E q : Linked(list', prev', k + 1, q, used \cup {cur})
        BY <1>10, <3>1, <3>2, <4>4, LinkedMore
      <4>6. k + 1 \in Nat
        OBVIOUS
      <4> QED
        BY <4>5, <4>6 DEF used
    <3> QED
      BY <1>9, <3>3, <3>4, <3>5 DEF Patched
  <2> QED
    BY <2>1, <2>2
<1>12. n + 1 \in Nat
  OBVIOUS
<1> QED
  BY <1>1, <1>2, <1>7, <1>11, <1>12 DEF CapInv

\* A step that leaves the capability map alone.
LEMMA MapLeftAlone ==
  ASSUME CapInv, UNCHANGED <<caps, list, prev>>,
         \/ rsPc' \in {"none", "state", "resolved", "failed", "crashed"}
         \/ rsPc \in {"capspace", "content", "done"} /\ rsPc' \in {"capspace", "content", "done"}
         \/ UNCHANGED <<rsPc, todo, child>>
  PROVE  CapInv'
<1>1. \A n : Patched(n)' = Patched(n)
  BY DEF Patched, Distinct, UsedBy
<1>2. CASE rsPc' \in {"none", "state", "resolved", "failed", "crashed"}
  BY <1>2 DEF CapInv
<1>3. CASE rsPc \in {"capspace", "content", "done"} /\ rsPc' \in {"capspace", "content", "done"}
  BY <1>1, <1>3 DEF CapInv
<1>4. CASE UNCHANGED <<rsPc, todo, child>>
  BY <1>1, <1>4 DEF CapInv, Left
<1> QED
  BY <1>2, <1>3, <1>4

\* Every step of the restorer.
LEMMA RestorerKeeps ==
  ASSUME CapInv, Good(stored), RestorerStep
  PROVE  CapInv'
<1>1. CASE LogRequest
  <2>1. /\ rsPc' = "identify" /\ caps' = caps /\ todo' = IdentifyWalk
        /\ child' = Reverse(Bootstrapped(1000))
    BY <1>1 DEF LogRequest
  <2>2. IdentifyWalk \in Seq(Slotted)
    BY IdentifyWalkType
  <2> DEFINE b == Bootstrapped(1000)
             r == Reverse(b)
  <2>3. b \in Seq(Object)
    BY BootFacts
  <2> HIDE DEF b
  <2>4. r \in Seq(Object)
    BY <2>3, ReverseFacts
  <2> HIDE DEF r
  <2>5. r \in Seq(ToSet(r))
    BY <2>4, OwnElements
  <2> QED
    BY <2>1, <2>2, <2>5 DEF CapInv, b, r
<1>2. CASE Identify
  BY <1>2, IdentifyKeeps
<1>3. CASE IdentifyEnd
  BY <1>3, MapLeftAlone DEF IdentifyEnd, capVars
<1>4. CASE Restore
  <2>1. UNCHANGED <<caps, list, prev>> /\ rsPc' \in {"state", "failed", "crashed"}
    BY <1>4 DEF Restore, RestoreRam, RestoreRamds, RestorePd, RestoreSpace, RestoreCpu,
       RestoreThread, RestoreRm, RestoreMap, RestoreRegion, RestoreLog, RestoreTimer,
       RestoreObject, StateRestored, Visit, restUnchanged, capVars
  <2> QED
    BY <2>1, MapLeftAlone
<1>5. CASE ResolveInc
  <2>1. UNCHANGED <<caps, list, prev>> /\ rsPc' = "resolved"
    BY <1>5 DEF ResolveInc, capVars
  <2> QED
    BY <2>1, MapLeftAlone
<1>6. CASE CopyCapMap
  <2>1. /\ rsPc' = "capmap" /\ todo' = caps /\ caps' = caps /\ prev' = 2
        /\ list' = [k \in 0 .. MaxSlots |-> IF k \in 2 .. 4 THEN k - 1 ELSE 0]
    BY <1>6 DEF CopyCapMap
  <2>2. Patched(0)'
    BY <2>1, Copied
  <2>3. caps \in Seq(Cap) /\ Len(caps) \in Nat
    BY LenProperties DEF CapInv
  <2>4. Left(0)'
    <3>1. \A i \in 1 .. Len(caps) : 0 + i = i
      BY <2>3
    <3>2. Len(caps) = Len(caps) - 0 /\ 0 \in 0 .. Len(caps)
      BY <2>3
    <3> QED
      BY <2>1, <2>3, <3>1, <3>2 DEF Left
  <2> QED
    BY <2>1, <2>2, <2>3, <2>4 DEF CapInv
<1>7. CASE PatchCapMap
  BY <1>7, PatchKeeps
<1>8. CASE PatchCapMapEnd
  <2>1. /\ rsPc = "capmap" /\ todo = <<>> /\ rsPc' = "capspace"
        /\ UNCHANGED <<caps, list, prev>>
    BY <1>8 DEF PatchCapMapEnd, capVars
  <2>2. PICK n \in Nat : Left(n) /\ Patched(n)
    BY <2>1 DEF CapInv
  <2>3. n = Len(caps)
    <3>1. Len(caps) \in Nat /\ Len(todo) = 0
      BY <2>1, LenProperties DEF CapInv
    <3> QED
      BY <2>2, <3>1 DEF Left
  <2>4. \A m : Patched(m)' = Patched(m)
    BY <2>1 DEF Patched, Distinct, UsedBy
  <2> QED
    BY <2>1, <2>2, <2>3, <2>4 DEF CapInv
<1>9. CASE Install \/ InstallEnd \/ RestoreContent \/ RestoreReturn
  <2>1. /\ UNCHANGED <<caps, list, prev>> /\ rsPc \in {"capspace", "content"}
        /\ rsPc' \in {"capspace", "content", "done"}
    BY <1>9 DEF Install, InstallEnd, RestoreContent, RestoreReturn, capVars
  <2> QED
    BY <2>1, MapLeftAlone
<1> QED
  BY <1>1, <1>2, <1>3, <1>4, <1>5, <1>6, <1>7, <1>8, <1>9 DEF RestorerStep

-----------------------------------------------------------------------------
(* What the list is in the end.                                            *)

\* So many selectors can only be in use if no two capabilities share one.
LEMMA Counted ==
  ASSUME CapInv
  PROVE  LET added == {i \in DOMAIN caps : caps[i].kcap # 0}
             used == 1 .. 4 \cup {caps[i].kcap : i \in added}
         IN  /\ used = UsedBy(Len(caps))
             /\ Cardinality(used) = 4 + Cardinality(added) => Distinct
<1> DEFINE added == {i \in DOMAIN caps : caps[i].kcap # 0}
           four == 1 .. 4
           slotsOf == {caps[i].kcap : i \in added}
           used == four \cup slotsOf
           f == [i \in added |-> caps[i].kcap]
<1>1. /\ Len(caps) \in Nat /\ DOMAIN caps = 1 .. Len(caps)
      /\ \A i \in DOMAIN caps : caps[i].kcap \in Nat
  <2>1. caps \in Seq(Cap) /\ Len(caps) \in Nat /\ DOMAIN caps = 1 .. Len(caps)
    BY ListElements DEF CapInv
  <2>2. \A i \in DOMAIN caps : caps[i] \in Cap
    BY <2>1, ListElements
  <2>3. \A c \in Cap : c.kcap \in 0 .. MaxSlots
    BY DEF Cap
  <2> QED
    BY <2>1, <2>2, <2>3, SlotsAssumption
<1>2. used = UsedBy(Len(caps))
  BY <1>1 DEF UsedBy
<1>3. IsFiniteSet(four) /\ Cardinality(four) = 4
  <2>0. 1 \in Int /\ 4 \in Int
    OBVIOUS
  <2>1. Cardinality(1 .. 4) = IF 1 > 4 THEN 0 ELSE 4 - 1 + 1
    BY <2>0, FS_Interval, Zenon
  <2>2. IsFiniteSet(1 .. 4)
    BY <2>0, FS_Interval, Zenon
  <2> QED
    BY <2>1, <2>2
<1>4. IsFiniteSet(added) /\ Cardinality(added) \in Nat
  <2>1. IsFiniteSet(1 .. Len(caps))
    BY <1>1, FS_Interval
  <2>2. added \subseteq 1 .. Len(caps)
    BY <1>1
  <2> HIDE DEF added
  <2> QED
    BY <2>1, <2>2, FS_Subset, FS_CardinalityType
<1>5. f \in Surjection(added, slotsOf)
  BY DEF Surjection
<1> HIDE DEF f
<1>6. /\ IsFiniteSet(slotsOf) /\ Cardinality(slotsOf) <= Cardinality(added)
      /\ Cardinality(slotsOf) \in Nat
  <2> HIDE DEF slotsOf, added
  <2> QED
    BY <1>4, <1>5, FS_Surjection, FS_CardinalityType DEF ExistsSurjection
<1> DEFINE both == four \cap slotsOf
<1>7. IsFiniteSet(both) /\ Cardinality(both) \in Nat
  <2>1. both \subseteq four
    OBVIOUS
  <2> HIDE DEF both, four
  <2> QED
    BY <1>3, <2>1, FS_Subset, FS_CardinalityType
<1>8. Cardinality(used) = Cardinality(four) + Cardinality(slotsOf) - Cardinality(both)
  <2> HIDE DEF four, slotsOf
  <2> QED
    BY <1>3, <1>6, FS_Union
<1>9. ASSUME Cardinality(used) = 4 + Cardinality(added) PROVE Distinct
  <2>1. Cardinality(slotsOf) = Cardinality(added) /\ Cardinality(both) = 0
    BY <1>3, <1>4, <1>6, <1>7, <1>8, <1>9
  <2>2. both = {}
    BY <1>7, <2>1, FS_EmptySet
  <2>3. \A i, j \in added : f[i] = f[j] => i = j
    <3> HIDE DEF slotsOf, added
    <3>1. f \in Injection(added, slotsOf)
      BY <1>4, <1>5, <2>1, FS_SurjSameCardinalityImpliesInj
    <3> QED
      BY <3>1 DEF Injection, IsInjective
  <2>4. \A i \in added : f[i] = caps[i].kcap /\ caps[i].kcap \in slotsOf
    BY DEF f
  <2>5. \A i \in added : caps[i].kcap > 4
    <3> TAKE i \in added
    <3>1. caps[i].kcap \in Nat /\ caps[i].kcap # 0 /\ caps[i].kcap \notin 1 .. 4
      BY <1>1, <2>2, <2>4
    <3> QED
      BY <3>1
  <2> QED
    BY <2>3, <2>4, <2>5 DEF Distinct
<1> QED
  BY <1>2, <1>9 DEF added, used, slotsOf, four

\* The list followed from selector 4 on leads along p.
LEMMA WalkAlong ==
  ASSUME list \in [0 .. MaxSlots -> 0 .. MaxSlots], NEW used, NEW k \in Nat, NEW p,
         Linked(list, prev, k, p, used)
  PROVE  LET walk[n \in 0 .. MaxSlots] == IF n = 0 THEN 4 ELSE list[walk[n - 1]]
         IN  /\ {walk[n] : n \in 0 .. Cardinality(used) - 1} = used
             /\ walk[Cardinality(used)] = 0
<1> DEFINE N == MaxSlots
           A == 0 .. MaxSlots
           step == [n \in 1 .. N |-> [a \in A |-> list[a]]]
           walk == CHOOSE w : w = [n \in 0 .. MaxSlots |-> IF n = 0 THEN 4 ELSE list[w[n - 1]]]
           P == 0 .. k + 3
           g == [i \in P |-> p[i]]
<1>1. /\ p \in [0 .. k + 4 -> 0 .. MaxSlots] /\ p[0] = 4 /\ p[k + 4] = 0
      /\ \A i \in 0 .. k + 3 : list[p[i]] = p[i + 1]
      /\ \A i, j \in 0 .. k + 4 : p[i] = p[j] => i = j
      /\ {p[i] : i \in 0 .. k + 3} = used
  BY DEF Linked
<1>2. N \in Nat /\ 4 \in A
  BY SlotsAssumption
<1>3. \E w : Recurses(w, N, A, 4, step)
  <2>1. step \in [1 .. N -> [A -> A]]
    OBVIOUS
  <2> HIDE DEF N, A, step
  <2> QED
    BY <1>2, <2>1, Recursion
<1>4. PICK w : Recurses(w, N, A, 4, step)
  BY <1>3
<1>5. w = [n \in 0 .. MaxSlots |-> IF n = 0 THEN 4 ELSE list[w[n - 1]]]
  <2>1. \A n \in 1 .. N : n - 1 \in 0 .. N /\ w[n - 1] \in A
    <3>1. \A n \in 1 .. N : n - 1 \in 0 .. N
      BY <1>2
    <3> HIDE DEF A, N
    <3> QED
      BY <1>4, <3>1 DEF Recurses
  <2>2. \A n \in 1 .. N : w[n] = list[w[n - 1]]
    BY <1>4, <2>1 DEF Recurses
  <2>3. \A n \in 0 .. N : n = 0 \/ n \in 1 .. N
    BY <1>2
  <2> HIDE DEF step
  <2> QED
    BY <1>4, <2>2, <2>3 DEF Recurses
<1>6. walk = [n \in 0 .. MaxSlots |-> IF n = 0 THEN 4 ELSE list[walk[n - 1]]]
  BY <1>5
<1> HIDE DEF walk, step
<1>7. walk[0] = 4 /\ \A n \in 0 .. N - 1 : walk[n + 1] = list[walk[n]]
  <2> DEFINE Value(n) == IF n = 0 THEN 4 ELSE list[walk[n - 1]]
  <2>1. \A n \in 0 .. N : walk[n] = Value(n)
    <3>1. walk = [n \in 0 .. N |-> Value(n)]
      BY <1>6
    <3> HIDE DEF Value, N
    <3> QED
      BY <3>1
  <2>2. 0 \in 0 .. N /\ \A n \in 0 .. N - 1 : n + 1 \in 0 .. N /\ n + 1 # 0 /\ n + 1 - 1 = n
    BY <1>2
  <2> HIDE DEF N
  <2>3. ASSUME NEW n \in 0 .. N - 1 PROVE walk[n + 1] = list[walk[n]]
    BY <2>1, <2>2
  <2> QED
    BY <2>1, <2>2, <2>3
<1>8. IsFiniteSet(P) /\ Cardinality(P) = k + 4
  <2> DEFINE m == k + 3
  <2>1. 0 \in Int /\ m \in Int
    OBVIOUS
  <2> HIDE DEF m
  <2>2. IsFiniteSet(0 .. m)
    BY <2>1, FS_Interval, Zenon
  <2>3. Cardinality(0 .. m) = IF 0 > m THEN 0 ELSE m - 0 + 1
    BY <2>1, FS_Interval, Zenon
  <2> QED
    BY <2>2, <2>3 DEF m
<1>9. IsFiniteSet(used) /\ Cardinality(used) = k + 4
  <2>1. \A i \in P : i \in 0 .. k + 4
    OBVIOUS
  <2>2. g \in [P -> used] /\ \A i \in P : g[i] = p[i]
    BY <1>1
  <2>3. /\ \A x, y \in P : g[x] = g[y] => x = y
        /\ \A z \in used : \E x \in P : g[x] = z
    BY <1>1, <2>1, <2>2
  <2> HIDE DEF g, P
  <2> QED
    BY <1>8, <2>2, <2>3, SameCount
<1>10. k + 4 <= N
  <2>1. used \subseteq 1 .. MaxSlots
    <3> SUFFICES ASSUME NEW i \in 0 .. k + 3 PROVE p[i] \in 1 .. MaxSlots
      BY <1>1
    <3>1. i \in 0 .. k + 4 /\ k + 4 \in 0 .. k + 4 /\ i # k + 4
      OBVIOUS
    <3>2. p[i] \in 0 .. MaxSlots /\ p[i] # 0
      BY <1>1, <3>1
    <3> QED
      BY <3>2, SlotsAssumption
  <2>2. 1 \in Int /\ MaxSlots \in Int
    BY SlotsAssumption
  <2>3. /\ IsFiniteSet(1 .. MaxSlots)
        /\ Cardinality(1 .. MaxSlots) = IF 1 > MaxSlots THEN 0 ELSE MaxSlots - 1 + 1
    BY <2>2, FS_Interval, Zenon
  <2>4. Cardinality(used) <= Cardinality(1 .. MaxSlots)
    BY <2>1, <2>3, FS_Subset, Zenon
  <2> QED
    BY <1>9, <2>3, <2>4, SlotsAssumption
<1> DEFINE Q == {n \in Nat : n <= k + 4 => walk[n] = p[n]}
<1>11. 0 \in Q
  BY <1>1, <1>7
<1>12. ASSUME NEW n \in Nat, n \in Q PROVE n + 1 \in Q
  <2> SUFFICES ASSUME n + 1 <= k + 4 PROVE walk[n + 1] = p[n + 1]
    OBVIOUS
  <2>1. n <= k + 4 /\ n \in 0 .. k + 3 /\ n \in 0 .. N - 1
    BY <1>2, <1>10
  <2>2. walk[n] = p[n]
    BY <1>12, <2>1
  <2> HIDE DEF N
  <2> QED
    BY <1>1, <1>7, <2>1, <2>2
<1>13. \A n \in 0 .. k + 4 : walk[n] = p[n]
  <2> HIDE DEF Q
  <2>1. \A n \in Nat : n \in Q
    BY <1>11, <1>12, Induction
  <2> QED
    BY <2>1 DEF Q
<1>14. {walk[n] : n \in 0 .. k + 3} = used
  <2>1. \A n \in 0 .. k + 3 : n \in 0 .. k + 4
    OBVIOUS
  <2> QED
    BY <1>1, <1>13, <2>1
<1>15. walk[k + 4] = 0
  <2>1. k + 4 \in 0 .. k + 4
    OBVIOUS
  <2> QED
    BY <1>1, <1>13, <2>1
<1>16. k + 4 - 1 = k + 3
  OBVIOUS
<1>17. {walk[n] : n \in 0 .. Cardinality(used) - 1} = used /\ walk[Cardinality(used)] = 0
  BY <1>9, <1>14, <1>15, <1>16
<1> QED
  BY <1>17 DEF walk

\* The map the invariant describes is the one the property wants.
LEMMA CapInvSuffices == CapInv => CapMapIntact
<1> DEFINE added == {i \in DOMAIN caps : caps[i].kcap # 0}
           used == 1 .. 4 \cup {caps[i].kcap : i \in added}
           walk == CHOOSE w : w = [n \in 0 .. MaxSlots |-> IF n = 0 THEN 4 ELSE list[w[n - 1]]]
<1> SUFFICES ASSUME CapInv, rsPc \in {"capspace", "content", "done"},
                    Cardinality(used) = 4 + Cardinality(added)
             PROVE  /\ {walk[n] : n \in 0 .. Cardinality(used) - 1} = used
                    /\ walk[Cardinality(used)] = 0
  BY DEF CapMapIntact
<1>1. used = UsedBy(Len(caps)) /\ Distinct
  BY Counted
<1>2. Patched(Len(caps))
  BY DEF CapInv
<1>3. list \in [0 .. MaxSlots -> 0 .. MaxSlots]
  BY <1>2 DEF Patched
<1>4. PICK k \in Nat : \E p : Linked(list, prev, k, p, used)
  BY <1>1, <1>2 DEF Patched
<1>5. PICK p : Linked(list, prev, k, p, used)
  BY <1>4
<1> HIDE DEF used
<1> QED
  BY <1>3, <1>5, WalkAlong

\* Whatever capabilities are restored, at whatever selectors: unless two of them
\* want the same selector, the restored capability map is one list that leads to
\* each of them and to each of the bootstrap's exactly once, and ends.
THEOREM MapStaysOneList == Spec => []CapMapIntact
<1> DEFINE Inv == TargetInv /\ StoredInv /\ CapInv
<1>1. Init => Inv
  <2>1. ASSUME Init PROVE CapInv
    <3>1. caps = <<>> /\ rsPc = "none"
      BY <2>1 DEF Init, RsInit
    <3>2. <<>> \in Seq(Cap)
      BY EmptySeq
    <3> QED
      BY <3>1, <3>2 DEF CapInv
  <2> QED
    BY <2>1, StoredInitially
<1>2. Inv /\ [Next]_vars => Inv'
  <2> SUFFICES ASSUME Inv, [Next]_vars PROVE Inv'
    OBVIOUS
  <2>1. TargetInv' /\ StoredInv'
    BY StoredKept
  <2>2. CASE RestorerStep
    BY <2>1, <2>2, RestorerKeeps DEF StoredInv
  <2>3. CASE TargetStep \/ CheckpointStep \/ UNCHANGED vars
    <3>1. UNCHANGED <<caps, list, prev, rsPc, todo, child>>
      BY <2>3 DEF TargetStep, CheckpointStep, vars, rsVars
    <3> QED
      BY <2>1, <3>1, MapLeftAlone
  <2> QED
    BY <2>2, <2>3 DEF Next
<1>3. Inv => CapMapIntact
  BY CapInvSuffices
<1> HIDE DEF Inv
<1> QED
  BY <1>1, <1>2, <1>3, PTL DEF Spec

-----------------------------------------------------------------------------
(* merge_sort: one round of its loop.                                      *)

\* No element before a smaller one.
Ascending(s) == \A i, j \in 1 .. Len(s) : i < j => s[i] <= s[j]

\* out are the c elements of s from the places in T, in order.
Taken(out, s, c, T) ==
  /\ out \in Seq(Nat) /\ Len(out) = c /\ Ascending(out)
  /\ \E f : /\ f \in [1 .. c -> 1 .. Len(s)]
            /\ \A i, j \in 1 .. c : f[i] = f[j] => i = j
            /\ \A i \in 1 .. c : out[i] = s[f[i]] /\ f[i] \in T
            /\ \A z \in T : \E i \in 1 .. c : f[i] = z

\* t is out with v behind its c elements.
Longer(t, out, c, v) == \A i \in 1 .. c + 1 : t[i] = IF i = c + 1 THEN v ELSE out[i]

\* One element more, not less than those before.
LEMMA OneMore ==
  ASSUME NEW s \in Seq(Nat), NEW out, NEW c \in Nat, NEW T, Taken(out, s, c, T),
         NEW k \in 1 .. Len(s), k \notin T, NEW v, v = s[k], \A i \in 1 .. c : out[i] <= v,
         NEW t, t = Append(out, v)
  PROVE  Taken(t, s, c + 1, T \cup {k}) /\ Longer(t, out, c, v)
<1> DEFINE n == Len(s)
<1>1. PICK f : /\ f \in [1 .. c -> 1 .. n]
               /\ \A i, j \in 1 .. c : f[i] = f[j] => i = j
               /\ \A i \in 1 .. c : out[i] = s[f[i]] /\ f[i] \in T
               /\ \A z \in T : \E i \in 1 .. c : f[i] = z
  BY DEF Taken
<1>2. out \in Seq(Nat) /\ Len(out) = c /\ Ascending(out) /\ v \in Nat
  BY ElementOfSeq DEF Taken
<1> HIDE DEF n
<1> DEFINE g == [i \in 1 .. c + 1 |-> IF i = c + 1 THEN k ELSE f[i]]
<1>3. t \in Seq(Nat) /\ Len(t) = c + 1 /\ t[c + 1] = v /\ \A i \in 1 .. c : t[i] = out[i]
  BY <1>2, AppendProperties
<1>4. \A i \in 1 .. c + 1 : i \in 1 .. c \/ i = c + 1
  OBVIOUS
<1>5. \A i \in 1 .. c : f[i] \in 1 .. n /\ f[i] # k
  BY <1>1
<1>6. \A i \in 1 .. c : i \in 1 .. c + 1 /\ i # c + 1
  OBVIOUS
<1>7. g[c + 1] = k /\ c + 1 \in 1 .. c + 1 /\ \A i \in 1 .. c : g[i] = f[i]
  BY <1>6
<1>8. g \in [1 .. c + 1 -> 1 .. n]
  BY <1>4, <1>5 DEF n
<1> HIDE DEF g
<1>9. Ascending(t)
  <2> SUFFICES ASSUME NEW i \in 1 .. c + 1, NEW j \in 1 .. c + 1, i < j PROVE t[i] <= t[j]
    BY <1>3 DEF Ascending
  <2>1. i \in 1 .. c
    OBVIOUS
  <2>2. CASE j = c + 1
    BY <1>3, <2>1, <2>2
  <2>3. CASE j \in 1 .. c
    BY <1>2, <1>3, <2>1, <2>3 DEF Ascending
  <2> QED
    BY <1>4, <2>2, <2>3
<1>10. \A i, j \in 1 .. c + 1 : g[i] = g[j] => i = j
  <2> TAKE i, j \in 1 .. c + 1
  <2> HAVE g[i] = g[j]
  <2>1. CASE i \in 1 .. c /\ j \in 1 .. c
    BY <1>1, <1>7, <2>1
  <2>2. CASE i = c + 1 \/ j = c + 1
    BY <1>4, <1>5, <1>7, <2>2
  <2> QED
    BY <1>4, <2>1, <2>2
<1>11. \A i \in 1 .. c + 1 : t[i] = s[g[i]] /\ g[i] \in T \cup {k}
  <2> TAKE i \in 1 .. c + 1
  <2>1. CASE i \in 1 .. c
    BY <1>1, <1>3, <1>7, <2>1
  <2>2. CASE i = c + 1
    BY <1>3, <1>7, <2>2
  <2> QED
    BY <1>4, <2>1, <2>2
<1>12. \A z \in T \cup {k} : \E i \in 1 .. c + 1 : g[i] = z
  <2> TAKE z \in T \cup {k}
  <2>1. CASE z \in T
    <3>1. PICK i \in 1 .. c : f[i] = z
      BY <1>1, <2>1
    <3> QED
      BY <1>6, <1>7, <3>1
  <2>2. CASE z = k
    BY <1>7, <2>2
  <2> QED
    BY <2>1, <2>2
<1>13. Taken(t, s, c + 1, T \cup {k})
  BY <1>3, <1>8, <1>9, <1>10, <1>11, <1>12 DEF Taken, n
<1>14. Longer(t, out, c, v)
  BY <1>3, <1>4, <1>6 DEF Longer
<1> QED
  BY <1>13, <1>14

\* One number more.
LEMMA IntervalMore ==
  ASSUME NEW i \in Int, NEW j \in Int, i <= j + 1
  PROVE  (i .. j) \cup {j + 1} = i .. j + 1
<1>1. \A k : k \in (i .. j) \cup {j + 1} <=> k \in i .. j + 1
  OBVIOUS
<1> QED
  BY <1>1

\* The state of the loop of merge_sort after x elements of the left half and y
\* of the right one.  A half that is used up leaves its pointer on the last
\* element of the other half; the right half may then give its last element
\* several times, but only in place of others of the same value.
MergeState(a, b, x, y, m) ==
  LET all == a \o b
      n1 == Len(a)
      n == Len(all)
  IN  /\ x \in 0 .. n1 /\ y \in 0 .. Len(b)
      /\ m \in [p1 : Nat, p2 : Nat, out : Seq(Nat)]
      /\ Taken(m.out, all, x + y, 1 .. x \cup n1 + 1 .. n1 + y)
      /\ x < n1 => m.p1 = x + 1 /\ \A i \in 1 .. x + y : m.out[i] <= a[x + 1]
      /\ x = n1 => m.p1 = n
      /\ y < Len(b) => /\ \A i \in 1 .. x + y : m.out[i] <= b[y + 1]
                       /\ \/ m.p2 = n1 + y + 1
                          \/ x = n1 /\ m.p2 \in n1 + 1 .. n1 + y + 1 /\ all[m.p2] = all[n]
      /\ y = Len(b) /\ x < n1 => m.p2 = n1

\* One round of the loop.
Round(a, b, m) ==
  LET all == a \o b
      n1 == Len(a)
      n == Len(all)
  IN  IF all[m.p1] <= all[m.p2]
        THEN [m EXCEPT !.out = Append(@, all[m.p1]), !.p1 = IF @ \in {n1, n} THEN n ELSE @ + 1]
        ELSE [m EXCEPT !.out = Append(@, all[m.p2]), !.p2 = IF @ = n THEN n1 ELSE @ + 1]

\* A round of the loop takes the next element of one half, or one of the same value.
LEMMA RoundKeeps ==
  ASSUME NEW a \in Seq(Nat), NEW b \in Seq(Nat), Ascending(a), Ascending(b), a # <<>>, b # <<>>,
         NEW x, NEW y, NEW m, MergeState(a, b, x, y, m), x + y < Len(a) + Len(b)
  PROVE  \/ MergeState(a, b, x + 1, y, Round(a, b, m))
         \/ MergeState(a, b, x, y + 1, Round(a, b, m))
<1> DEFINE all == a \o b
           n1 == Len(a)
           n2 == Len(b)
           n == Len(all)
           T == 1 .. x \cup n1 + 1 .. n1 + y
           r == Round(a, b, m)
<1>1. /\ n1 \in Nat /\ n2 \in Nat /\ n1 > 0 /\ n2 > 0 /\ n = n1 + n2 /\ all \in Seq(Nat)
      /\ \A i \in 1 .. n1 : a[i] \in Nat /\ i \in 1 .. n /\ all[i] = a[i]
      /\ \A i \in 1 .. n2 : b[i] \in Nat /\ n1 + i \in 1 .. n /\ all[n1 + i] = b[i]
  <2>1. n1 \in Nat /\ n2 \in Nat /\ n1 # 0 /\ n2 # 0
    BY LenProperties, EmptySeq
  <2>2. all \in Seq(Nat) /\ n = n1 + n2
        /\ \A i \in 1 .. n1 + n2 : all[i] = IF i <= n1 THEN a[i] ELSE b[i - n1]
    BY ConcatProperties
  <2> HIDE DEF all
  <2>3. ASSUME NEW i \in 1 .. n1 PROVE a[i] \in Nat /\ i \in 1 .. n /\ all[i] = a[i]
    <3>1. a[i] \in Nat
      BY ElementOfSeq
    <3>2. i \in 1 .. n1 + n2 /\ i <= n1
      BY <2>1
    <3> QED
      BY <2>2, <3>1, <3>2
  <2>4. ASSUME NEW i \in 1 .. n2 PROVE b[i] \in Nat /\ n1 + i \in 1 .. n /\ all[n1 + i] = b[i]
    <3>1. b[i] \in Nat
      BY ElementOfSeq
    <3>2. n1 + i \in 1 .. n1 + n2 /\ ~(n1 + i <= n1) /\ n1 + i - n1 = i
      BY <2>1
    <3> QED
      BY <2>2, <3>1, <3>2
  <2> QED
    BY <2>1, <2>2, <2>3, <2>4
<1>2. /\ \A i, j \in 1 .. n1 : i <= j => a[i] <= a[j]
      /\ \A i, j \in 1 .. n2 : i <= j => b[i] <= b[j]
  <2>1. ASSUME NEW i \in 1 .. n1, NEW j \in 1 .. n1, i <= j PROVE a[i] <= a[j]
    <3>1. CASE i < j
      BY <3>1 DEF Ascending
    <3>2. CASE i = j
      BY <1>1, <3>2
    <3> QED
      BY <1>1, <2>1, <3>1, <3>2
  <2>2. ASSUME NEW i \in 1 .. n2, NEW j \in 1 .. n2, i <= j PROVE b[i] <= b[j]
    <3>1. CASE i < j
      BY <3>1 DEF Ascending
    <3>2. CASE i = j
      BY <1>1, <3>2
    <3> QED
      BY <1>1, <2>2, <3>1, <3>2
  <2> QED
    BY <2>1, <2>2
<1>3. /\ x \in 0 .. n1 /\ y \in 0 .. n2 /\ x + y \in Nat
      /\ m \in [p1 : Nat, p2 : Nat, out : Seq(Nat)]
      /\ Taken(m.out, all, x + y, T)
      /\ x < n1 => m.p1 = x + 1 /\ \A i \in 1 .. x + y : m.out[i] <= a[x + 1]
      /\ x = n1 => m.p1 = n
      /\ y < n2 => /\ \A i \in 1 .. x + y : m.out[i] <= b[y + 1]
                   /\ \/ m.p2 = n1 + y + 1
                      \/ x = n1 /\ m.p2 \in n1 + 1 .. n1 + y + 1 /\ all[m.p2] = all[n]
      /\ y = n2 /\ x < n1 => m.p2 = n1
  BY <1>1 DEF MergeState
<1>4. r = IF all[m.p1] <= all[m.p2]
            THEN [m EXCEPT !.out = Append(@, all[m.p1]), !.p1 = IF @ \in {n1, n} THEN n ELSE @ + 1]
            ELSE [m EXCEPT !.out = Append(@, all[m.p2]), !.p2 = IF @ = n THEN n1 ELSE @ + 1]
  BY DEF Round
<1> HIDE DEF r, all, n1, n2, n
<1>5. ASSUME all[m.p1] <= all[m.p2], all[m.p1] \in Nat
       PROVE  /\ r \in [p1 : Nat, p2 : Nat, out : Seq(Nat)] /\ r.out = Append(m.out, all[m.p1])
              /\ r.p2 = m.p2 /\ r.p1 = IF m.p1 \in {n1, n} THEN n ELSE m.p1 + 1
  <2> DEFINE o == Append(m.out, all[m.p1])
             q == IF m.p1 \in {n1, n} THEN n ELSE m.p1 + 1
  <2>1. r = [m EXCEPT !.out = o, !.p1 = q]
    BY <1>4, <1>5
  <2>2. o \in Seq(Nat) /\ q \in Nat
    <3>1. m.out \in Seq(Nat) /\ m.p1 \in Nat
      BY <1>3
    <3>2. q \in Nat
      BY <1>1, <3>1
    <3> QED
      BY <1>5, <3>1, <3>2, AppendProperties
  <2> HIDE DEF o, q
  <2>3. r \in [p1 : Nat, p2 : Nat, out : Seq(Nat)] /\ r.out = o /\ r.p2 = m.p2 /\ r.p1 = q
    BY <1>3, <2>1, <2>2
  <2> QED
    BY <2>3 DEF o, q
<1>6. ASSUME ~(all[m.p1] <= all[m.p2]), all[m.p2] \in Nat
       PROVE  /\ r \in [p1 : Nat, p2 : Nat, out : Seq(Nat)] /\ r.out = Append(m.out, all[m.p2])
              /\ r.p1 = m.p1 /\ r.p2 = IF m.p2 = n THEN n1 ELSE m.p2 + 1
  <2> DEFINE o == Append(m.out, all[m.p2])
             q == IF m.p2 = n THEN n1 ELSE m.p2 + 1
  <2>1. r = [m EXCEPT !.out = o, !.p2 = q]
    BY <1>4, <1>6
  <2>2. o \in Seq(Nat) /\ q \in Nat
    <3>1. m.out \in Seq(Nat) /\ m.p2 \in Nat
      BY <1>3
    <3> QED
      BY <1>1, <1>6, <3>1, AppendProperties
  <2> HIDE DEF o, q
  <2>3. r \in [p1 : Nat, p2 : Nat, out : Seq(Nat)] /\ r.out = o /\ r.p1 = m.p1 /\ r.p2 = q
    BY <1>3, <2>1, <2>2
  <2> QED
    BY <2>3 DEF o, q
<1>7. \A i \in 1 .. x + y : m.out[i] \in Nat
  BY <1>3, ElementOfSeq DEF Taken
\* An element of the left half.
<1>8. ASSUME x < n1, r.out = Append(m.out, a[x + 1]),
             r \in [p1 : Nat, p2 : Nat, out : Seq(Nat)], r.p2 = m.p2,
             r.p1 = IF x + 1 \in {n1, n} THEN n ELSE x + 1 + 1,
             y < n2 => a[x + 1] <= b[y + 1]
      PROVE  MergeState(a, b, x + 1, y, r)
  <2>1. x + 1 \in 1 .. n1 /\ x + 1 \in 1 .. n /\ all[x + 1] = a[x + 1] /\ x + 1 \notin T
    <3>1. x \in Nat /\ y \in Nat /\ x + 1 \in 1 .. n1 /\ n1 \in Nat
      BY <1>1, <1>3, <1>8
    <3>2. x + 1 \notin T
      BY <3>1
    <3> QED
      BY <1>1, <3>1, <3>2
  <2> DEFINE o == r.out
  <2>2. /\ Taken(o, all, x + y + 1, T \cup {x + 1})
        /\ \A i \in 1 .. x + y + 1 : o[i] = IF i = x + y + 1 THEN a[x + 1] ELSE m.out[i]
    <3> DEFINE k == x + 1
               c == x + y
               out == m.out
               v == a[x + 1]
    <3>1. /\ \A i \in 1 .. c : out[i] <= v
          /\ v = all[k] /\ o = Append(out, v)
      BY <1>3, <1>8, <2>1
    <3>2. /\ c \in Nat /\ k \in 1 .. Len(all) /\ k \notin T
          /\ Taken(out, all, c, T) /\ all \in Seq(Nat)
      BY <1>1, <1>3, <2>1 DEF n
    <3> HIDE DEF k, c, T, out, v, o
    <3>3. Taken(o, all, c + 1, T \cup {k}) /\ Longer(o, out, c, v)
      BY <3>1, <3>2, OneMore
    <3> QED
      BY <3>3 DEF k, c, out, v, Longer
  <2>3. T \cup {x + 1} = 1 .. x + 1 \cup n1 + 1 .. n1 + y /\ x + y + 1 = x + 1 + y
    <3>1. x \in Nat /\ y \in Nat
      BY <1>1, <1>3
    <3>2. 1 .. x \cup {x + 1} = 1 .. x + 1 /\ x + y + 1 = x + 1 + y
      BY <3>1
    <3> QED
      BY <3>2
  <2>4. /\ r \in [p1 : Nat, p2 : Nat, out : Seq(Nat)] /\ r.out = o /\ r.p2 = m.p2
        /\ r.p1 = IF x + 1 \in {n1, n} THEN n ELSE x + 1 + 1
    BY <1>8
  <2> HIDE DEF o
  <2>6. ASSUME NEW i \in 1 .. x + y + 1
        PROVE  /\ x + 1 < n1 => o[i] <= a[x + 2]
               /\ y < n2 => o[i] <= b[y + 1]
    <3>1. CASE i = x + y + 1
      <4>1. o[i] = a[x + 1]
        BY <2>2, <3>1
      <4>2. x + 1 < n1 => x + 2 \in 1 .. n1 /\ x + 1 <= x + 2
        BY <1>1, <1>3
      <4> QED
        BY <1>2, <1>8, <2>1, <4>1, <4>2
    <3>2. CASE i # x + y + 1
      <4>1. i \in 1 .. x + y /\ o[i] = m.out[i]
        BY <1>3, <2>2, <3>2
      <4>2. m.out[i] <= a[x + 1] /\ m.out[i] \in Nat /\ a[x + 1] \in Nat
        BY <1>1, <1>3, <1>7, <1>8, <2>1, <4>1
      <4>3. ASSUME x + 1 < n1 PROVE o[i] <= a[x + 2]
        <5>1. x + 2 \in 1 .. n1 /\ x + 1 <= x + 2
          BY <1>1, <1>3, <4>3
        <5>2. a[x + 1] <= a[x + 2] /\ a[x + 2] \in Nat
          BY <1>1, <1>2, <2>1, <5>1
        <5> QED
          BY <4>1, <4>2, <5>2
      <4> QED
        BY <1>3, <4>1, <4>3
    <3> QED
      BY <3>1, <3>2
  <2>7. x + 1 < n1 => r.p1 = x + 1 + 1 /\ \A i \in 1 .. x + 1 + y : r.out[i] <= a[x + 1 + 1]
    <3>1. x + 1 + 1 = x + 2 /\ (x + 1 < n1 => x + 1 \notin {n1, n})
      BY <1>1, <1>3
    <3> QED
      BY <2>3, <2>4, <2>6, <3>1
  <2>8. x + 1 = n1 => r.p1 = n
    BY <2>4
  <2>9. y < n2 => /\ \A i \in 1 .. x + 1 + y : r.out[i] <= b[y + 1]
                  /\ r.p2 = n1 + y + 1
    <3>1. ASSUME y < n2 PROVE m.p2 = n1 + y + 1
      BY <1>1, <1>3, <1>8, <3>1
    <3> QED
      BY <2>3, <2>4, <2>6, <3>1
  <2>10. y = n2 /\ x + 1 < n1 => r.p2 = n1
    BY <1>3, <1>8, <2>4
  <2>11. x + 1 \in 0 .. n1 /\ y \in 0 .. n2
    BY <1>3, <2>1
  <2>12. Taken(r.out, all, x + 1 + y, 1 .. x + 1 \cup n1 + 1 .. n1 + y)
    BY <2>2, <2>3, <2>4
  <2> QED
    BY <2>4, <2>7, <2>8, <2>9, <2>10, <2>11, <2>12, Zenon DEF MergeState, all, n1, n2, n
\* An element of the right half, or one of the same value.
<1>9. ASSUME y < n2, r.out = Append(m.out, b[y + 1]),
             r \in [p1 : Nat, p2 : Nat, out : Seq(Nat)], r.p1 = m.p1,
             x < n1 => b[y + 1] <= a[x + 1],
             y + 1 < n2 => \/ r.p2 = n1 + y + 2
                           \/ x = n1 /\ r.p2 \in n1 + 1 .. n1 + y + 2 /\ all[r.p2] = all[n],
             y + 1 = n2 /\ x < n1 => r.p2 = n1
      PROVE  MergeState(a, b, x, y + 1, r)
  <2>1. /\ y + 1 \in 1 .. n2 /\ n1 + (y + 1) \in 1 .. n /\ all[n1 + (y + 1)] = b[y + 1]
        /\ n1 + (y + 1) \notin T
    <3>1. x \in 0 .. n1 /\ y \in Nat /\ y + 1 \in 1 .. n2 /\ n1 \in Nat
      BY <1>1, <1>3, <1>9
    <3>2. n1 + (y + 1) \notin T
      BY <3>1
    <3> QED
      BY <1>1, <3>1, <3>2
  <2> DEFINE o == r.out
  <2>2. /\ Taken(o, all, x + y + 1, T \cup {n1 + (y + 1)})
        /\ \A i \in 1 .. x + y + 1 : o[i] = IF i = x + y + 1 THEN b[y + 1] ELSE m.out[i]
    <3> DEFINE k == n1 + (y + 1)
               c == x + y
               out == m.out
               v == b[y + 1]
    <3>1. /\ \A i \in 1 .. c : out[i] <= v
          /\ v = all[k] /\ o = Append(out, v)
      BY <1>3, <1>9, <2>1
    <3>2. /\ c \in Nat /\ k \in 1 .. Len(all) /\ k \notin T
          /\ Taken(out, all, c, T) /\ all \in Seq(Nat)
      BY <1>1, <1>3, <2>1 DEF n
    <3> HIDE DEF k, c, T, out, v, o
    <3>3. Taken(o, all, c + 1, T \cup {k}) /\ Longer(o, out, c, v)
      BY <3>1, <3>2, OneMore
    <3> QED
      BY <3>3 DEF k, c, out, v, Longer
  <2>3. T \cup {n1 + (y + 1)} = (1 .. x) \cup (n1 + 1 .. n1 + (y + 1)) /\ x + y + 1 = x + (y + 1)
    <3>1. x \in Nat /\ y \in Nat /\ n1 \in Nat
      BY <1>1, <1>3
    <3> DEFINE i == n1 + 1
               j == n1 + y
    <3>2. (n1 + 1 .. n1 + y) \cup {n1 + (y + 1)} = n1 + 1 .. n1 + (y + 1)
      <4>1. i \in Int /\ j \in Int /\ i <= j + 1 /\ j + 1 = n1 + (y + 1)
        BY <3>1
      <4> HIDE DEF i, j
      <4>2. (i .. j) \cup {j + 1} = i .. j + 1
        BY <4>1, IntervalMore
      <4> QED
        BY <4>1, <4>2 DEF i, j
    <3>3. x + y + 1 = x + (y + 1)
      BY <3>1
    <3> QED
      BY <3>2, <3>3
  <2>4. r.out = o
    OBVIOUS
  <2> HIDE DEF o
  <2>5. ASSUME NEW i \in 1 .. x + y + 1
        PROVE  /\ y + 1 < n2 => o[i] <= b[y + 2]
               /\ x < n1 => o[i] <= a[x + 1]
    <3>1. CASE i = x + y + 1
      <4>1. o[i] = b[y + 1]
        BY <2>2, <3>1
      <4>2. y + 1 < n2 => y + 2 \in 1 .. n2 /\ y + 1 <= y + 2
        BY <1>1, <1>3
      <4> QED
        BY <1>2, <1>9, <2>1, <4>1, <4>2
    <3>2. CASE i # x + y + 1
      <4>1. i \in 1 .. x + y /\ o[i] = m.out[i]
        BY <1>3, <2>2, <3>2
      <4>2. m.out[i] <= b[y + 1] /\ m.out[i] \in Nat /\ b[y + 1] \in Nat
        BY <1>1, <1>3, <1>7, <1>9, <2>1, <4>1
      <4>3. ASSUME y + 1 < n2 PROVE o[i] <= b[y + 2]
        <5>1. y + 2 \in 1 .. n2 /\ y + 1 <= y + 2
          BY <1>1, <1>3, <4>3
        <5>2. b[y + 1] <= b[y + 2] /\ b[y + 2] \in Nat
          BY <1>1, <1>2, <2>1, <5>1
        <5> QED
          BY <4>1, <4>2, <5>2
      <4> QED
        BY <1>3, <4>1, <4>3
    <3> QED
      BY <3>1, <3>2
  <2>6. x < n1 => r.p1 = x + 1 /\ \A i \in 1 .. x + (y + 1) : r.out[i] <= a[x + 1]
    BY <1>3, <1>9, <2>3, <2>4, <2>5
  <2>7. x = n1 => r.p1 = n
    BY <1>3, <1>9
  <2>8. y + 1 < n2 => /\ \A i \in 1 .. x + (y + 1) : r.out[i] <= b[y + 1 + 1]
                      /\ \/ r.p2 = n1 + (y + 1) + 1
                         \/ x = n1 /\ r.p2 \in n1 + 1 .. n1 + (y + 1) + 1 /\ all[r.p2] = all[n]
    <3>1. y + 1 + 1 = y + 2 /\ n1 + (y + 1) + 1 = n1 + y + 2
      BY <1>1, <1>3
    <3> QED
      BY <1>9, <2>3, <2>4, <2>5, <3>1
  <2>9. x \in 0 .. n1 /\ y + 1 \in 0 .. n2
    BY <1>3, <2>1
  <2>10. Taken(r.out, all, x + (y + 1), 1 .. x \cup n1 + 1 .. n1 + (y + 1))
    BY <2>2, <2>3, <2>4
  <2> QED
    BY <1>9, <2>6, <2>7, <2>8, <2>9, <2>10, Zenon DEF MergeState, all, n1, n2, n
<1>10. ASSUME x < n1 /\ y < n2
      PROVE  MergeState(a, b, x + 1, y, r) \/ MergeState(a, b, x, y + 1, r)
  <2>1. x + 1 \in 1 .. n1 /\ y + 1 \in 1 .. n2 /\ m.p1 = x + 1 /\ m.p2 = n1 + (y + 1)
    BY <1>1, <1>3, <1>10
  <2>2. all[m.p1] = a[x + 1] /\ all[m.p2] = b[y + 1] /\ a[x + 1] \in Nat /\ b[y + 1] \in Nat
    BY <1>1, <2>1
  <2>3. CASE a[x + 1] <= b[y + 1]
    <3>1. /\ r \in [p1 : Nat, p2 : Nat, out : Seq(Nat)] /\ r.out = Append(m.out, a[x + 1])
          /\ r.p2 = m.p2 /\ r.p1 = IF x + 1 \in {n1, n} THEN n ELSE x + 1 + 1
      BY <1>5, <2>1, <2>2, <2>3
    <3> QED
      BY <1>8, <1>10, <2>3, <3>1
  <2>4. CASE ~(a[x + 1] <= b[y + 1])
    <3>1. /\ r \in [p1 : Nat, p2 : Nat, out : Seq(Nat)] /\ r.out = Append(m.out, b[y + 1])
          /\ r.p1 = m.p1 /\ r.p2 = IF n1 + (y + 1) = n THEN n1 ELSE n1 + (y + 1) + 1
      BY <1>6, <2>1, <2>2, <2>4
    <3>2. /\ y + 1 < n2 => r.p2 = n1 + y + 2
          /\ y + 1 = n2 => r.p2 = n1
      BY <1>1, <1>3, <3>1
    <3>3. b[y + 1] <= a[x + 1]
      BY <2>2, <2>4
    <3> QED
      BY <1>9, <1>10, <3>1, <3>2, <3>3
  <2> QED
    BY <2>3, <2>4
<1>11. ASSUME x < n1 /\ y = n2
      PROVE  MergeState(a, b, x + 1, y, r) \/ MergeState(a, b, x, y + 1, r)
  <2>1. x + 1 \in 1 .. n1 /\ n1 \in 1 .. n1 /\ m.p1 = x + 1 /\ m.p2 = n1 /\ x + 1 <= n1
    BY <1>1, <1>3, <1>11
  <2>2. all[m.p1] = a[x + 1] /\ all[m.p2] = a[n1] /\ a[x + 1] <= a[n1] /\ a[x + 1] \in Nat
    BY <1>1, <1>2, <2>1
  <2>3. /\ r \in [p1 : Nat, p2 : Nat, out : Seq(Nat)] /\ r.out = Append(m.out, a[x + 1])
        /\ r.p2 = m.p2 /\ r.p1 = IF x + 1 \in {n1, n} THEN n ELSE x + 1 + 1
    BY <1>5, <2>1, <2>2
  <2>4. ~(y < n2)
    BY <1>1, <1>11
  <2> QED
    BY <1>8, <1>11, <2>3, <2>4
<1>12. ASSUME x = n1 /\ y < n2
       PROVE  MergeState(a, b, x + 1, y, r) \/ MergeState(a, b, x, y + 1, r)
  <2>1. y + 1 \in 1 .. n2 /\ n2 \in 1 .. n2 /\ y + 1 <= n2 /\ m.p1 = n /\ n = n1 + n2 /\ ~(x < n1)
    BY <1>1, <1>3, <1>12
  <2>2. all[n] = b[n2] /\ b[y + 1] <= b[n2] /\ b[y + 1] \in Nat /\ b[n2] \in Nat
    BY <1>1, <1>2, <2>1
  <2>3. \/ m.p2 = n1 + (y + 1) /\ all[m.p2] = b[y + 1] /\ ~(all[n] <= b[y + 1])
        \/ /\ b[y + 1] = all[n] /\ all[m.p2] = all[n]
           /\ m.p2 \in n1 + 1 .. n1 + y + 1
    <3>1. CASE m.p2 = n1 + y + 1
      <4>1. m.p2 = n1 + (y + 1) /\ m.p2 \in n1 + 1 .. n1 + y + 1
        BY <1>1, <1>3, <3>1
      <4>2. all[m.p2] = b[y + 1]
        BY <1>1, <2>1, <4>1
      <4> QED
        BY <2>2, <4>1, <4>2
    <3>2. CASE m.p2 \in n1 + 1 .. n1 + y + 1 /\ all[m.p2] = all[n]
      <4> DEFINE i == m.p2 - n1
      <4>1. i \in 1 .. n2 /\ n1 + i = m.p2 /\ i <= y + 1
        <5>1. n1 \in Nat /\ n2 \in Nat /\ y \in Nat /\ y + 1 <= n2 /\ m.p2 \in Nat
          BY <1>1, <1>3, <2>1
        <5> DEFINE q == m.p2
        <5>2. q \in n1 + 1 .. n1 + y + 1 /\ i = q - n1
          BY <3>2
        <5> HIDE DEF q, i
        <5>3. i \in 1 .. n2 /\ n1 + i = q /\ i <= y + 1
          BY <5>1, <5>2
        <5> QED
          BY <5>3 DEF q
      <4> HIDE DEF i
      <4>2. all[m.p2] = b[i] /\ b[i] <= b[y + 1] /\ b[i] \in Nat
        BY <1>1, <1>2, <2>1, <4>1
      <4> QED
        BY <2>2, <3>2, <4>2
    <3> QED
      BY <1>3, <1>12, <3>1, <3>2
  <2>4. CASE b[y + 1] = all[n] /\ all[m.p2] = all[n] /\ m.p2 \in n1 + 1 .. n1 + y + 1
    <3>1. /\ r \in [p1 : Nat, p2 : Nat, out : Seq(Nat)] /\ r.out = Append(m.out, b[y + 1])
          /\ r.p2 = m.p2 /\ r.p1 = m.p1
      BY <1>5, <2>1, <2>2, <2>4
    <3>2. m.p2 \in n1 + 1 .. n1 + y + 2
      BY <1>1, <1>3, <2>4
    <3> QED
      BY <1>9, <1>12, <2>1, <2>4, <3>1, <3>2
  <2>5. CASE m.p2 = n1 + (y + 1) /\ all[m.p2] = b[y + 1] /\ ~(all[n] <= b[y + 1])
    <3>1. /\ r \in [p1 : Nat, p2 : Nat, out : Seq(Nat)] /\ r.out = Append(m.out, b[y + 1])
          /\ r.p1 = m.p1 /\ r.p2 = IF n1 + (y + 1) = n THEN n1 ELSE n1 + (y + 1) + 1
      BY <1>6, <2>1, <2>2, <2>5
    <3>2. y + 1 < n2 => r.p2 = n1 + y + 2
      BY <1>1, <1>3, <3>1
    <3> QED
      BY <1>9, <1>12, <2>1, <3>1, <3>2
  <2> QED
    BY <2>3, <2>4, <2>5
<1>13. \/ x < n1 /\ y < n2
       \/ x < n1 /\ y = n2
       \/ x = n1 /\ y < n2
  <2>1. x + y < n1 + n2
    BY DEF n1, n2
  <2> QED
    BY <1>1, <1>3, <2>1
<1>14. MergeState(a, b, x + 1, y, r) \/ MergeState(a, b, x, y + 1, r)
  BY <1>10, <1>11, <1>12, <1>13
<1> QED
  BY <1>14 DEF r

\* The loop of merge_sort.
LEMMA MergeFacts ==
  ASSUME NEW a \in Seq(Nat), NEW b \in Seq(Nat), Ascending(a), Ascending(b), a # <<>>, b # <<>>
  PROVE  Taken(Merge(a, b), a \o b, Len(a) + Len(b), 1 .. Len(a) + Len(b))
<1> DEFINE all == a \o b
           n1 == Len(a)
           n2 == Len(b)
           n == Len(all)
           start == [p1 |-> 1, p2 |-> n1 + 1, out |-> <<>>]
           Then(m) == Round(a, b, m)
           Runs(f, k) == f = [i \in 0 .. k |-> IF i = 0 THEN start ELSE Then(f[i - 1])]
           after == CHOOSE f : f = [i \in 0 .. n |-> IF i = 0 THEN start ELSE Then(f[i - 1])]
<1>1. Merge(a, b) = after[n].out
  BY DEF Merge, Round
<1>2. n1 \in Nat /\ n2 \in Nat /\ n1 # 0 /\ n2 # 0 /\ n = n1 + n2 /\ n \in Nat
  BY LenProperties, EmptySeq, ConcatProperties
<1>3. MergeState(a, b, 0, 0, start)
  <2>1. /\ 0 \in 0 .. n1 /\ 0 \in 0 .. n2 /\ 0 < n1 /\ 0 # n1 /\ 0 # n2
        /\ n1 + 1 = n1 + 0 + 1 /\ 1 = 0 + 1
    BY <1>2
  <2>2. /\ start \in [p1 : Nat, p2 : Nat, out : Seq(Nat)]
        /\ start.p1 = 1 /\ start.p2 = n1 + 1 /\ start.out = <<>>
    <3>1. n1 + 1 \in Nat /\ <<>> \in Seq(Nat)
      BY <1>2
    <3> QED
      BY <3>1
  <2>3. Taken(<<>>, all, 0, {})
    <3>1. <<>> \in Seq(Nat) /\ Len(<<>>) = 0 /\ Ascending(<<>>)
      BY DEF Ascending
    <3> DEFINE f == [i \in 1 .. 0 |-> 1]
    <3>2. f \in [1 .. 0 -> 1 .. Len(all)]
      OBVIOUS
    <3>3. \A i : i \notin 1 .. 0
      OBVIOUS
    <3> HIDE DEF f, all
    <3> QED
      BY <3>1, <3>2, <3>3, Zenon DEF Taken
  <2>4. 1 .. 0 \cup n1 + 1 .. n1 + 0 = {} /\ 0 + 0 = 0 /\ \A i : i \notin 1 .. 0
    BY <1>2
  <2> HIDE DEF start
  <2> QED
    BY <2>1, <2>2, <2>3, <2>4 DEF MergeState
<1> HIDE DEF Then, start, n
<1>4. \E f : Runs(f, n)
  <2> DEFINE P == {k \in Nat : \E f : Runs(f, k)}
  <2>1. 0 \in P
    <3>1. Runs([i \in 0 .. 0 |-> start], 0)
      OBVIOUS
    <3> QED
      BY <3>1
  <2>2. ASSUME NEW k \in Nat, k \in P PROVE k + 1 \in P
    <3>1. PICK f : Runs(f, k)
      BY <2>2
    <3> DEFINE g == [i \in 0 .. k + 1 |-> IF i = k + 1 THEN Then(f[k]) ELSE f[i]]
    <3>2. \A i \in 0 .. k + 1 : /\ i # k + 1 => i \in 0 .. k
                                /\ i # 0 => /\ i - 1 \in 0 .. k /\ i - 1 \in 0 .. k + 1
                                             /\ i - 1 # k + 1
                                /\ k + 1 # 0 /\ k + 1 - 1 = k
      OBVIOUS
    <3>3. \A i \in 0 .. k : f[i] = IF i = 0 THEN start ELSE Then(f[i - 1])
      BY <3>1
    <3>4. \A i \in 0 .. k + 1 : g[i] = IF i = 0 THEN start ELSE Then(g[i - 1])
      BY <3>2, <3>3
    <3>5. g = [i \in 0 .. k + 1 |-> g[i]]
      OBVIOUS
    <3> HIDE DEF g
    <3>6. Runs(g, k + 1)
      BY <3>4, <3>5
    <3>7. k + 1 \in Nat
      OBVIOUS
    <3> HIDE DEF Runs
    <3> QED
      BY <3>6, <3>7
  <2> HIDE DEF P
  <2>3. \A k \in Nat : k \in P
    BY <2>1, <2>2, Induction
  <2> QED
    BY <1>2, <2>3 DEF P
<1>5. Runs(after, n)
  BY <1>4
<1> HIDE DEF after
<1>6. after[0] = start /\ \A i \in 0 .. n - 1 : after[i + 1] = Then(after[i])
  <2>1. \A i \in 0 .. n : after[i] = IF i = 0 THEN start ELSE Then(after[i - 1])
    BY <1>5
  <2>2. 0 \in 0 .. n /\ \A i \in 0 .. n - 1 : i + 1 \in 0 .. n /\ i + 1 # 0 /\ i + 1 - 1 = i
    BY <1>2
  <2> QED
    BY <2>1, <2>2
<1> DEFINE At(i) == \E x \in Nat : \E y \in Nat : x + y = i /\ MergeState(a, b, x, y, after[i])
           Q == {i \in Nat : i <= n => At(i)}
<1>7. 0 \in Q
  <2>1. 0 \in Nat /\ 0 + 0 = 0 /\ MergeState(a, b, 0, 0, after[0])
    BY <1>3, <1>6
  <2> QED
    BY <2>1
<1>8. ASSUME NEW i \in Nat, i \in Q PROVE i + 1 \in Q
  <2> SUFFICES ASSUME i + 1 <= n PROVE At(i + 1)
    OBVIOUS
  <2>1. At(i) /\ i \in 0 .. n - 1
    BY <1>2, <1>8
  <2>2. PICK x \in Nat : \E y \in Nat : x + y = i /\ MergeState(a, b, x, y, after[i])
    BY <2>1
  <2>3. PICK y \in Nat : x + y = i /\ MergeState(a, b, x, y, after[i])
    BY <2>2
  <2>4. x + y < n1 + n2
    BY <1>2, <2>1, <2>3
  <2> DEFINE m == after[i]
  <2>5. MergeState(a, b, x, y, m) /\ after[i + 1] = Round(a, b, m)
    BY <1>6, <2>1, <2>3 DEF Then
  <2> HIDE DEF m
  <2>6. MergeState(a, b, x + 1, y, Round(a, b, m)) \/ MergeState(a, b, x, y + 1, Round(a, b, m))
    BY <2>4, <2>5, RoundKeeps
  <2>7. x + 1 \in Nat /\ y + 1 \in Nat /\ x + 1 + y = i + 1 /\ x + (y + 1) = i + 1
    BY <2>3
  <2> QED
    BY <2>5, <2>6, <2>7
<1>9. At(n)
  <2> HIDE DEF Q, At
  <2>1. \A i \in Nat : i \in Q
    BY <1>7, <1>8, Induction
  <2> QED
    BY <1>2, <2>1 DEF Q
<1>10. PICK x \in Nat : \E y \in Nat : x + y = n /\ MergeState(a, b, x, y, after[n])
  BY <1>9
<1>11. PICK y \in Nat : x + y = n /\ MergeState(a, b, x, y, after[n])
  BY <1>10
<1>12. /\ x \in 0 .. n1 /\ y \in 0 .. n2
       /\ Taken(after[n].out, all, x + y, 1 .. x \cup n1 + 1 .. n1 + y)
  BY <1>11 DEF MergeState
<1>13. x = n1 /\ y = n2
  BY <1>2, <1>11, <1>12
<1>14. 1 .. n1 \cup n1 + 1 .. n1 + n2 = 1 .. n1 + n2
  <2> HIDE DEF n1, n2
  <2> QED
    BY <1>2
<1>15. Taken(after[n].out, all, n1 + n2, 1 .. n1 + n2)
  BY <1>12, <1>13, <1>14
<1> QED
  BY <1>1, <1>15

-----------------------------------------------------------------------------
(* merge_sort: the recursion.                                              *)

\* f tells from where in s each of the n elements of t is.
Permutes(f, n, t, s) ==
  /\ f \in [1 .. n -> 1 .. n]
  /\ \A i, j \in 1 .. n : f[i] = f[j] => i = j
  /\ \A z \in 1 .. n : \E i \in 1 .. n : f[i] = z
  /\ \A i \in 1 .. n : t[i] = s[f[i]]

\* t has the elements of s, each as often as s.
Permuted(t, s) ==
  t \in Seq(Nat) /\ Len(t) = Len(s) /\ \E f : Permutes(f, Len(s), t, s)

\* t is s sorted.
Sorts(t, s) == Ascending(t) /\ Permuted(t, s)

\* What is the same has the same elements.
LEMMA PermutedSame ==
  ASSUME NEW s \in Seq(Nat)
  PROVE  Permuted(s, s)
<1> DEFINE n == Len(s)
           f == [i \in 1 .. n |-> i]
<1>1. f \in [1 .. n -> 1 .. n] /\ \A i \in 1 .. n : f[i] = i
  OBVIOUS
<1> HIDE DEF f
<1>2. Permutes(f, n, s, s)
  BY <1>1 DEF Permutes
<1> QED
  BY <1>2 DEF Permuted

\* One permutation after the other.
LEMMA PermutedAgain ==
  ASSUME NEW s \in Seq(Nat), NEW t, NEW u, Permuted(t, s), Permuted(u, t)
  PROVE  Permuted(u, s)
<1> DEFINE n == Len(s)
<1>1. t \in Seq(Nat) /\ Len(t) = n /\ u \in Seq(Nat) /\ Len(u) = n
  BY DEF Permuted
<1>2. PICK f : Permutes(f, n, t, s)
  BY DEF Permuted
<1>3. PICK g : Permutes(g, n, u, t)
  BY <1>1 DEF Permuted
<1> DEFINE I == 1 .. n
           h == [i \in I |-> f[g[i]]]
<1>4. h \in [I -> I] /\ \A i \in I : h[i] = f[g[i]] /\ g[i] \in I
  BY <1>2, <1>3 DEF Permutes
<1> HIDE DEF h
<1>5. \A i, j \in I : h[i] = h[j] => i = j
  <2> SUFFICES ASSUME NEW i \in I, NEW j \in I, h[i] = h[j] PROVE i = j
    OBVIOUS
  <2>1. g[i] = g[j]
    <3>1. f[g[i]] = f[g[j]] /\ g[i] \in I /\ g[j] \in I
      BY <1>4
    <3>2. \A k, l \in I : f[k] = f[l] => k = l
      BY <1>2 DEF Permutes
    <3> HIDE DEF I
    <3> QED
      BY <3>1, <3>2
  <2> QED
    BY <1>3, <2>1 DEF Permutes
<1>6. \A z \in I : \E i \in I : h[i] = z
  <2> TAKE z \in I
  <2>1. PICK k \in I : f[k] = z
    BY <1>2 DEF Permutes
  <2>2. PICK i \in I : g[i] = k
    BY <1>3 DEF Permutes
  <2> QED
    BY <1>4, <2>1, <2>2
<1>7. \A i \in I : u[i] = s[h[i]]
  <2> TAKE i \in I
  <2>1. u[i] = t[g[i]] /\ g[i] \in I
    BY <1>3, <1>4 DEF Permutes
  <2>2. t[g[i]] = s[f[g[i]]]
    BY <1>2, <2>1 DEF Permutes
  <2> QED
    BY <1>4, <2>1, <2>2
<1>8. Permutes(h, n, u, s)
  BY <1>4, <1>5, <1>6, <1>7 DEF Permutes
<1> QED
  BY <1>1, <1>8 DEF Permuted

\* Two permutations side by side.
LEMMA PermutedConcat ==
  ASSUME NEW s \in Seq(Nat), NEW t \in Seq(Nat), NEW u, NEW v, Permuted(u, s), Permuted(v, t)
  PROVE  Permuted(u \o v, s \o t)
<1> DEFINE n == Len(s)
           k == Len(t)
           I == 1 .. n
           K == 1 .. k
           All == 1 .. n + k
           uv == u \o v
           st == s \o t
<1>0. n \in Nat /\ k \in Nat
  BY LenProperties
<1>1. u \in Seq(Nat) /\ Len(u) = n /\ v \in Seq(Nat) /\ Len(v) = k
  BY DEF Permuted
<1>2. /\ st \in Seq(Nat) /\ Len(st) = n + k
      /\ \A i \in All : st[i] = IF i <= n THEN s[i] ELSE t[i - n]
  BY ConcatProperties
<1>3. /\ uv \in Seq(Nat) /\ Len(uv) = n + k
      /\ \A i \in All : uv[i] = IF i <= n THEN u[i] ELSE v[i - n]
  <2>1. /\ uv \in Seq(Nat) /\ Len(uv) = Len(u) + Len(v)
        /\ \A i \in 1 .. Len(u) + Len(v) : uv[i] = IF i <= Len(u) THEN u[i] ELSE v[i - Len(u)]
    BY <1>1, ConcatProperties
  <2> HIDE DEF uv
  <2> QED
    BY <1>1, <2>1
<1>4. PICK f : /\ f \in [I -> I]
               /\ \A i, j \in I : f[i] = f[j] => i = j
               /\ \A z \in I : \E i \in I : f[i] = z
               /\ \A i \in I : u[i] = s[f[i]]
  BY DEF Permuted, Permutes
<1>5. PICK g : /\ g \in [K -> K]
               /\ \A i, j \in K : g[i] = g[j] => i = j
               /\ \A z \in K : \E i \in K : g[i] = z
               /\ \A i \in K : v[i] = t[g[i]]
  BY DEF Permuted, Permutes
<1> HIDE DEF uv, st, n, k
<1>6. /\ \A i \in All : (i \in I /\ i <= n) \/ (~(i <= n) /\ i - n \in K /\ i = n + (i - n))
      /\ \A i \in I : i \in All /\ i <= n
      /\ \A i \in K : n + i \in All /\ ~(n + i <= n) /\ (n + i) - n = i
      /\ \A i \in I : \A j \in K : i # n + j
      /\ \A i, j \in K : n + i = n + j => i = j
  BY <1>0
<1> DEFINE h == [i \in All |-> IF i <= n THEN f[i] ELSE n + g[i - n]]
<1>7. /\ \A i \in I : h[i] = f[i] /\ f[i] \in I
      /\ \A i \in K : h[n + i] = n + g[i] /\ g[i] \in K
  BY <1>4, <1>5, <1>6
<1>8. h \in [All -> All]
  <2>1. \A i \in All : h[i] \in All
    <3> HIDE DEF h, I, K, All
    <3> QED
      BY <1>6, <1>7
  <2> QED
    BY <2>1
<1> HIDE DEF h, I, K, All
<1>9. \A i, j \in All : h[i] = h[j] => i = j
  <2> SUFFICES ASSUME NEW i \in All, NEW j \in All, h[i] = h[j] PROVE i = j
    OBVIOUS
  <2>1. CASE i \in I /\ j \in I
    BY <1>4, <1>7, <2>1
  <2>2. CASE /\ ~(i <= n) /\ i - n \in K /\ i = n + (i - n)
             /\ ~(j <= n) /\ j - n \in K /\ j = n + (j - n)
    <3>1. n + g[i - n] = n + g[j - n]
      BY <1>7, <2>2
    <3>2. i - n = j - n
      BY <1>5, <1>6, <1>7, <2>2, <3>1
    <3> QED
      BY <2>2, <3>2
  <2>3. CASE i \in I /\ ~(j <= n) /\ j - n \in K /\ j = n + (j - n)
    BY <1>6, <1>7, <2>3
  <2>4. CASE j \in I /\ ~(i <= n) /\ i - n \in K /\ i = n + (i - n)
    BY <1>6, <1>7, <2>4
  <2> QED
    BY <1>6, <2>1, <2>2, <2>3, <2>4
<1>10. \A z \in All : \E i \in All : h[i] = z
  <2> TAKE z \in All
  <2>1. CASE z \in I
    <3>1. PICK i \in I : f[i] = z
      BY <1>4, <2>1
    <3> QED
      BY <1>6, <1>7, <3>1
  <2>2. CASE z - n \in K /\ z = n + (z - n)
    <3>1. PICK i \in K : g[i] = z - n
      BY <1>5, <2>2
    <3> QED
      BY <1>6, <1>7, <2>2, <3>1
  <2> QED
    BY <1>6, <2>1, <2>2
<1>11. \A i \in All : uv[i] = st[h[i]]
  <2> TAKE i \in All
  <2>1. CASE i \in I
    BY <1>2, <1>3, <1>4, <1>6, <1>7, <2>1
  <2>2. CASE ~(i <= n) /\ i - n \in K /\ i = n + (i - n)
    <3> DEFINE j == i - n
    <3>1. j \in K /\ i = n + j /\ uv[i] = v[j]
      BY <1>3, <2>2
    <3> HIDE DEF j
    <3>2. h[i] = n + g[j] /\ g[j] \in K
      BY <1>7, <3>1
    <3>3. st[n + g[j]] = t[g[j]]
      BY <1>2, <1>6, <3>2
    <3> QED
      BY <1>5, <3>1, <3>2, <3>3
  <2> QED
    BY <1>6, <2>1, <2>2
<1>12. Permuted(uv, st)
  <2>1. Permutes(h, n + k, uv, st)
    BY <1>8, <1>9, <1>10, <1>11 DEF Permutes, All
  <2> QED
    BY <1>2, <1>3, <2>1 DEF Permuted
<1> QED
  BY <1>12 DEF uv, st

\* merge_sort's two halves.
LEMMA MergeSorts ==
  ASSUME NEW s \in Seq(Nat), NEW t \in Seq(Nat), NEW a, NEW b, Sorts(a, s), Sorts(b, t),
         s # <<>>, t # <<>>
  PROVE  Sorts(Merge(a, b), s \o t)
<1> DEFINE ab == a \o b
           st == s \o t
           out == Merge(a, b)
           n == Len(a) + Len(b)
<1>1. /\ a \in Seq(Nat) /\ Len(a) = Len(s) /\ Ascending(a) /\ Permuted(a, s)
      /\ b \in Seq(Nat) /\ Len(b) = Len(t) /\ Ascending(b) /\ Permuted(b, t)
  BY DEF Sorts, Permuted
<1>2. a # <<>> /\ b # <<>>
  BY <1>1, EmptySeq
<1>3. Taken(out, ab, n, 1 .. n)
  BY <1>1, <1>2, MergeFacts
<1>4. Permuted(ab, st) /\ st \in Seq(Nat) /\ ab \in Seq(Nat) /\ Len(ab) = n
  BY <1>1, PermutedConcat, ConcatProperties
<1> HIDE DEF ab, st, out, n
<1>5. Permuted(out, ab) /\ Ascending(out)
  <2>1. PICK f : /\ f \in [1 .. n -> 1 .. Len(ab)]
                 /\ \A i, j \in 1 .. n : f[i] = f[j] => i = j
                 /\ \A i \in 1 .. n : out[i] = ab[f[i]] /\ f[i] \in 1 .. n
                 /\ \A z \in 1 .. n : \E i \in 1 .. n : f[i] = z
    BY <1>3 DEF Taken
  <2>2. Permutes(f, n, out, ab)
    BY <1>4, <2>1 DEF Permutes
  <2>3. out \in Seq(Nat) /\ Len(out) = n /\ Ascending(out)
    BY <1>3 DEF Taken
  <2> QED
    BY <1>4, <2>2, <2>3 DEF Permuted
<1>6. Permuted(out, st)
  BY <1>4, <1>5, PermutedAgain
<1> QED
  BY <1>5, <1>6 DEF Sorts, out, st

\* A part of a list.
LEMMA PartFacts ==
  ASSUME NEW s \in Seq(Nat), NEW lo \in Nat, NEW n \in Nat, lo >= 1, lo + n - 1 <= Len(s)
  PROVE  /\ SubSeq(s, lo, lo + n - 1) \in Seq(Nat) /\ Len(SubSeq(s, lo, lo + n - 1)) = n
         /\ \A i \in 1 .. n : SubSeq(s, lo, lo + n - 1)[i] = s[lo + i - 1]
<1> DEFINE m == lo + n - 1
           l == Len(s)
<1>1. lo \in 1 .. l + 1 /\ m \in lo - 1 .. l /\ m - lo + 1 = n /\ l \in Nat
  BY LenProperties
<1> HIDE DEF m, l
<1>2. /\ SubSeq(s, lo, m) \in Seq(Nat) /\ Len(SubSeq(s, lo, m)) = m - lo + 1
      /\ \A i \in 1 .. m - lo + 1 : SubSeq(s, lo, m)[i] = s[lo + i - 1]
  BY <1>1, SubSeqProperties DEF l
<1> QED
  BY <1>1, <1>2 DEF m

\* Two parts side by side.
LEMMA PartsJoin ==
  ASSUME NEW s \in Seq(Nat), NEW lo \in Nat, NEW k \in Nat, NEW n \in Nat,
         lo >= 1, k <= n, lo + n - 1 <= Len(s)
  PROVE  SubSeq(s, lo, lo + k - 1) \o SubSeq(s, lo + k, lo + k + (n - k) - 1)
           = SubSeq(s, lo, lo + n - 1)
<1> DEFINE a == SubSeq(s, lo, lo + k - 1)
           hi == lo + k
           r == n - k
           b == SubSeq(s, hi, hi + r - 1)
           all == SubSeq(s, lo, lo + n - 1)
<1>0. Len(s) \in Nat
  BY LenProperties
<1>1. a \in Seq(Nat) /\ Len(a) = k /\ \A i \in 1 .. k : a[i] = s[lo + i - 1]
  <2>1. lo + k - 1 <= Len(s)
    BY <1>0
  <2> QED
    BY <2>1, PartFacts
<1>2. b \in Seq(Nat) /\ Len(b) = r /\ \A i \in 1 .. r : b[i] = s[hi + i - 1]
  <2>1. hi \in Nat /\ r \in Nat /\ hi >= 1 /\ hi + r - 1 <= Len(s)
    BY <1>0
  <2> HIDE DEF hi, r
  <2> QED
    BY <2>1, PartFacts
<1>3. all \in Seq(Nat) /\ Len(all) = n /\ \A i \in 1 .. n : all[i] = s[lo + i - 1]
  BY PartFacts
<1> HIDE DEF a, b, all
<1>4. /\ a \o b \in Seq(Nat) /\ Len(a \o b) = Len(a) + Len(b)
      /\ \A i \in 1 .. Len(a) + Len(b) : (a \o b)[i] = IF i <= Len(a) THEN a[i] ELSE b[i - Len(a)]
  BY <1>1, <1>2, ConcatProperties
<1>5. k + r = n
  OBVIOUS
<1> DEFINE ab == a \o b
<1>6. ab \in Seq(Nat) /\ Len(ab) = n /\ \A i \in 1 .. n : ab[i] = IF i <= k THEN a[i] ELSE b[i - k]
  BY <1>1, <1>2, <1>4, <1>5
<1> HIDE DEF ab
<1>7. \A i \in 1 .. n : ab[i] = all[i]
  <2> TAKE i \in 1 .. n
  <2>1. CASE i <= k
    <3>1. i \in 1 .. k
      BY <2>1
    <3> QED
      BY <1>1, <1>3, <1>6, <2>1, <3>1
  <2>2. CASE ~(i <= k)
    <3>1. i - k \in 1 .. r /\ hi + (i - k) - 1 = lo + i - 1
      BY <2>2
    <3> QED
      BY <1>2, <1>3, <1>6, <2>2, <3>1
  <2> QED
    BY <2>1, <2>2
<1>8. ab = all
  BY <1>3, <1>6, <1>7, SeqEqual
<1> QED
  BY <1>8 DEF ab, a, b, hi, r, all

\* merge_sort returns the elements it is given, each as often, in ascending order.
THEOREM MergeSortFacts ==
  ASSUME NEW seq \in Seq(Nat)
  PROVE  Sorts(MergeSort(seq), seq)
<1> DEFINE L == Len(seq)
           Part(lo, n) == SubSeq(seq, lo, lo + n - 1)
           Half(f, n, lo) == Merge(f[n \div 2][lo], f[n - n \div 2][lo + n \div 2])
           Runs(f, k) ==
             f = [n \in 0 .. k |->
                    [lo \in 1 .. L + 1 - n |->
                       IF n <= 1 THEN SubSeq(seq, lo, lo + n - 1)
                       ELSE Merge(f[n \div 2][lo], f[n - n \div 2][lo + n \div 2])]]
           sorted == CHOOSE f :
             f = [n \in 0 .. L |->
                    [lo \in 1 .. L + 1 - n |->
                       IF n <= 1 THEN SubSeq(seq, lo, lo + n - 1)
                       ELSE Merge(f[n \div 2][lo], f[n - n \div 2][lo + n \div 2])]]
<1>1. MergeSort(seq) = sorted[L][1]
  BY DEF MergeSort
<1>2. L \in Nat
  BY LenProperties
<1>3. \A n \in Nat : n > 1 => /\ n \div 2 \in 1 .. n - 1 /\ n - n \div 2 \in 1 .. n - 1
                              /\ n \div 2 \in Nat /\ n - n \div 2 \in Nat
  OBVIOUS
<1> DEFINE Row(f, n) == [lo \in 1 .. L + 1 - n |-> IF n <= 1 THEN Part(lo, n) ELSE Half(f, n, lo)]
<1>4. \A f, k : Runs(f, k) <=> f = [n \in 0 .. k |-> Row(f, n)]
  OBVIOUS
<1> HIDE DEF Runs, L
<1>5. ASSUME NEW f, NEW g, NEW n \in Nat, \A i \in 0 .. n - 1 : f[i] = g[i]
      PROVE  Row(f, n) = Row(g, n)
  <2>1. ASSUME n > 1 PROVE \A lo : Half(f, n, lo) = Half(g, n, lo)
    <3>1. n \div 2 \in 0 .. n - 1 /\ n - n \div 2 \in 0 .. n - 1
      BY <1>3, <2>1
    <3> QED
      BY <1>5, <3>1
  <2> HIDE DEF Half, Part
  <2>2. ~(n <= 1) => n > 1
    OBVIOUS
  <2>3. \A lo : (IF n <= 1 THEN Part(lo, n) ELSE Half(f, n, lo))
                 = IF n <= 1 THEN Part(lo, n) ELSE Half(g, n, lo)
    BY <2>1, <2>2
  <2> QED
    BY <2>3
<1>6. \E f : Runs(f, L)
  <2> DEFINE P == {k \in Nat : \E f : Runs(f, k)}
  <2> HIDE DEF Row
  <2>1. 0 \in P
    <3> DEFINE f == [n \in 0 .. 0 |-> Row(<<>>, 0)]
    <3>1. Row(f, 0) = Row(<<>>, 0)
      <4>1. 0 \in Nat /\ \A i \in 0 .. 0 - 1 : f[i] = <<>>[i]
        OBVIOUS
      <4> HIDE DEF f
      <4> QED
        BY <1>5, <4>1
    <3>2. f = [n \in 0 .. 0 |-> Row(<<>>, 0)] /\ \A n \in 0 .. 0 : n = 0
      OBVIOUS
    <3> HIDE DEF f
    <3>3. f = [n \in 0 .. 0 |-> Row(f, n)]
      BY <3>1, <3>2
    <3> QED
      BY <1>4, <3>3
  <2>2. ASSUME NEW k \in Nat, k \in P PROVE k + 1 \in P
    <3>1. PICK f : Runs(f, k)
      BY <2>2
    <3> DEFINE g == [n \in 0 .. k + 1 |-> IF n = k + 1 THEN Row(f, k + 1) ELSE f[n]]
    <3>2. \A n \in 0 .. k : n \in 0 .. k + 1 /\ n # k + 1
      OBVIOUS
    <3>3. g[k + 1] = Row(f, k + 1) /\ \A n \in 0 .. k : g[n] = f[n]
      BY <3>2
    <3>4. g = [n \in 0 .. k + 1 |-> g[n]]
      OBVIOUS
    <3> HIDE DEF g
    <3>5. \A n \in 0 .. k : f[n] = Row(f, n)
      BY <1>4, <3>1
    <3>6. \A n \in 0 .. k + 1 : Row(g, n) = Row(f, n)
      <4> TAKE n \in 0 .. k + 1
      <4>1. n \in Nat /\ \A i \in 0 .. n - 1 : i \in 0 .. k
        OBVIOUS
      <4>2. \A i \in 0 .. n - 1 : g[i] = f[i]
        BY <3>3, <4>1
      <4> QED
        BY <1>5, <4>1, <4>2
    <3>7. \A n \in 0 .. k + 1 : g[n] = Row(g, n)
      <4> TAKE n \in 0 .. k + 1
      <4>1. n = k + 1 \/ n \in 0 .. k
        OBVIOUS
      <4> QED
        BY <3>3, <3>5, <3>6, <4>1
    <3>8. g = [n \in 0 .. k + 1 |-> Row(g, n)]
      BY <3>4, <3>7
    <3>9. k + 1 \in Nat
      OBVIOUS
    <3> QED
      BY <1>4, <3>8, <3>9
  <2> HIDE DEF P
  <2>3. \A k \in Nat : k \in P
    BY <2>1, <2>2, Induction
  <2> QED
    BY <1>2, <2>3 DEF P
<1>7. \A n \in 0 .. L : sorted[n] = Row(sorted, n)
  <2>1. Runs(sorted, L)
    BY <1>6 DEF Runs
  <2> HIDE DEF Row, sorted
  <2> QED
    BY <1>4, <2>1
<1> HIDE DEF sorted
<1> DEFINE Sorted(n) == \A lo \in 1 .. L + 1 - n : Sorts(sorted[n][lo], Part(lo, n))
           Q == {n \in Nat : \A m \in 0 .. n : m <= L => Sorted(m)}
<1>8. ASSUME NEW n \in 0 .. L, \A m \in 0 .. n - 1 : Sorted(m)
      PROVE  Sorted(n)
  <2> SUFFICES ASSUME NEW lo \in 1 .. L + 1 - n PROVE Sorts(sorted[n][lo], Part(lo, n))
    OBVIOUS
  <2>1. sorted[n][lo] = IF n <= 1 THEN Part(lo, n) ELSE Half(sorted, n, lo)
    BY <1>7
  <2>2. n \in Nat /\ lo \in Nat /\ lo >= 1 /\ lo + n - 1 <= L
    BY <1>2
  <2>3. Part(lo, n) \in Seq(Nat) /\ Len(Part(lo, n)) = n
    BY <2>2, PartFacts DEF L
  <2>4. CASE n <= 1
    <3> DEFINE p == Part(lo, n)
    <3>1. p \in Seq(Nat) /\ Len(p) = n
      BY <2>3
    <3> HIDE DEF p
    <3>2. Ascending(p)
      BY <2>2, <2>4, <3>1 DEF Ascending
    <3>3. Permuted(p, p)
      BY <3>1, PermutedSame
    <3> QED
      BY <2>1, <2>4, <3>2, <3>3 DEF Sorts, p
  <2>5. CASE n > 1
    <3> DEFINE k == n \div 2
               r == n - k
               a == sorted[k][lo]
               b == sorted[r][lo + k]
               s == Part(lo, k)
               t == Part(lo + k, r)
    <3>1. k \in 1 .. n - 1 /\ r \in 1 .. n - 1 /\ k \in Nat /\ r \in Nat
      BY <1>3, <2>2, <2>5
    <3> HIDE DEF k
    <3>2. lo \in 1 .. L + 1 - k /\ lo + k \in 1 .. L + 1 - r
      BY <1>2, <2>2, <3>1
    <3>3. Sorts(a, s) /\ Sorts(b, t)
      <4>1. Sorted(k) /\ Sorted(r)
        <5>1. k \in 0 .. n - 1 /\ r \in 0 .. n - 1
          BY <2>2, <3>1
        <5> HIDE DEF Sorted, r
        <5> QED
          BY <1>8, <5>1
      <4> QED
        BY <3>2, <4>1
    <3>4. s \in Seq(Nat) /\ Len(s) = k
      <4>1. lo + k - 1 <= L
        BY <1>2, <2>2, <3>1
      <4> QED
        BY <2>2, <3>1, <4>1, PartFacts DEF L
    <3>5. t \in Seq(Nat) /\ Len(t) = r
      <4> DEFINE hi == lo + k
      <4>1. hi \in Nat /\ hi >= 1 /\ hi + r - 1 <= L
        BY <1>2, <2>2, <3>1
      <4> HIDE DEF hi, r
      <4>2. SubSeq(seq, hi, hi + r - 1) \in Seq(Nat) /\ Len(SubSeq(seq, hi, hi + r - 1)) = r
        BY <3>1, <4>1, PartFacts DEF L
      <4> QED
        BY <4>2 DEF hi
    <3>6. s \o t = Part(lo, n)
      <4>1. k <= n
        BY <2>2, <3>1
      <4> QED
        BY <2>2, <3>1, <4>1, PartsJoin DEF L
    <3>7. sorted[n][lo] = Merge(a, b)
      <4>1. ~(n <= 1)
        BY <2>2, <2>5
      <4> QED
        BY <2>1, <4>1 DEF k
    <3> HIDE DEF a, b, s, t, r
    <3>8. s # <<>> /\ t # <<>>
      BY <3>1, <3>4, <3>5, EmptySeq
    <3>9. Sorts(Merge(a, b), s \o t)
      BY <3>3, <3>4, <3>5, <3>8, MergeSorts
    <3> QED
      BY <3>6, <3>7, <3>9
  <2> QED
    BY <2>2, <2>4, <2>5
<1> HIDE DEF Sorted
<1>9. 0 \in Q
  <2>1. 0 \in 0 .. L /\ \A m \in 0 .. 0 - 1 : Sorted(m)
    BY <1>2
  <2>2. Sorted(0)
    BY <1>8, <2>1
  <2> QED
    BY <2>2
<1>10. ASSUME NEW n \in Nat, n \in Q PROVE n + 1 \in Q
  <2> SUFFICES ASSUME NEW m \in 0 .. n + 1, m <= L PROVE Sorted(m)
    OBVIOUS
  <2>1. \A i \in 0 .. m - 1 : i \in 0 .. n /\ i <= L
    BY <1>2
  <2>2. \A i \in 0 .. m - 1 : Sorted(i)
    BY <1>10, <2>1
  <2>3. m \in 0 .. L
    BY <1>2
  <2> QED
    BY <1>8, <2>2, <2>3
<1>11. Sorted(L)
  <2>1. \A n \in Nat : n \in Q
    <3> HIDE DEF Q
    <3> QED
      BY <1>9, <1>10, Induction
  <2>2. L \in 0 .. L /\ L <= L
    BY <1>2
  <2> QED
    BY <1>2, <2>1, <2>2
<1>12. 1 \in 1 .. L + 1 - L /\ Part(1, L) = seq
  <2>1. 1 \in 1 .. L + 1 - L /\ 1 + L - 1 = L /\ 1 \in Nat /\ 1 >= 1 /\ 1 + L - 1 <= L
    BY <1>2
  <2>2. /\ Part(1, L) \in Seq(Nat) /\ Len(Part(1, L)) = L
        /\ \A i \in 1 .. L : Part(1, L)[i] = seq[1 + i - 1]
    BY <1>2, <2>1, PartFacts DEF L
  <2> DEFINE p == Part(1, L)
  <2>3. p \in Seq(Nat) /\ Len(p) = L /\ \A i \in 1 .. L : p[i] = seq[1 + i - 1]
    BY <2>2
  <2> HIDE DEF p
  <2>4. \A i \in 1 .. L : p[i] = seq[i]
    <3>1. \A i \in 1 .. L : 1 + i - 1 = i
      OBVIOUS
    <3> QED
      BY <2>3, <3>1
  <2>5. p = seq
    BY <2>3, <2>4, SeqEqual DEF L
  <2> QED
    BY <2>1, <2>5 DEF p
<1> QED
  BY <1>1, <1>11, <1>12 DEF Sorted

\* The lists TLC sorts are sorted.
LEMMA SortsSmall == MergeSortSorts
<1> SUFFICES ASSUME NEW n \in 0 .. 5, NEW seq \in [1 .. n -> 1 .. 3]
             PROVE  LET sorted == MergeSort(seq) IN
                      /\ \A i, j \in 1 .. n : i < j => sorted[i] <= sorted[j]
                      /\ \A v \in 1 .. 3 : Cardinality({i \in 1 .. n : sorted[i] = v})
                                             = Cardinality({i \in 1 .. n : seq[i] = v})
  BY DEF MergeSortSorts
<1> DEFINE sorted == MergeSort(seq)
<1>1. seq \in Seq(Nat) /\ Len(seq) = n /\ n \in Nat
  <2>1. n \in Nat /\ seq \in [1 .. n -> Nat]
    OBVIOUS
  <2> QED
    BY <2>1, SeqDef, LenProperties
<1>2. Sorts(sorted, seq)
  BY <1>1, MergeSortFacts
<1> HIDE DEF sorted
<1>3. Ascending(sorted) /\ Len(sorted) = n
  BY <1>1, <1>2 DEF Sorts, Permuted
<1>4. PICK f : Permutes(f, n, sorted, seq)
  BY <1>1, <1>2 DEF Sorts, Permuted
<1>5. ASSUME NEW v \in 1 .. 3
      PROVE  Cardinality({i \in 1 .. n : sorted[i] = v}) = Cardinality({i \in 1 .. n : seq[i] = v})
  <2> DEFINE P == {i \in 1 .. n : sorted[i] = v}
             R == {i \in 1 .. n : seq[i] = v}
             g == [i \in P |-> f[i]]
  <2>1. IsFiniteSet(P)
    <3>1. IsFiniteSet(1 .. n)
      BY <1>1, FS_Interval
    <3>2. P \subseteq 1 .. n
      OBVIOUS
    <3> HIDE DEF P
    <3> QED
      BY <3>1, <3>2, FS_Subset
  <2>2. g \in [P -> R] /\ \A i \in P : g[i] = f[i]
    BY <1>4 DEF Permutes
  <2>3. \A x, y \in P : g[x] = g[y] => x = y
    BY <1>4, <2>2 DEF Permutes
  <2>4. \A z \in R : \E x \in P : g[x] = z
    <3> TAKE z \in R
    <3>1. PICK i \in 1 .. n : f[i] = z
      BY <1>4 DEF Permutes
    <3>2. i \in P
      BY <1>4, <3>1 DEF Permutes
    <3> QED
      BY <2>2, <3>1, <3>2
  <2> HIDE DEF P, R, g
  <2>5. Cardinality(R) = Cardinality(P)
    BY <2>1, <2>2, <2>3, <2>4, SameCount
  <2> QED
    BY <2>5 DEF P, R
<1> QED
  BY <1>3, <1>5 DEF Ascending, sorted

\* Hence in every reachable state merge_sort sorts the lists a run looks at.
THEOREM SortRight == Spec => []MergeSortSorts
<1>1. MergeSortSorts
  BY SortsSmall
<1> QED
  BY <1>1, PTL

=============================================================================
