------------------------ MODULE StoredSessionsProofs ------------------------
(***************************************************************************)
(* Proofs about CheckpointRestore up to the checkpoint: whatever a target  *)
(* does between checkpoints, each checkpoint leaves exactly one info of    *)
(* each object with a badge, as the object is now, and no region's info    *)
(* without a region there or next to it (StoredCurrent); it leaves out a   *)
(* region only where a stored one includes its address (RegionsAccounted). *)
(* This is for any menus and any numbers of objects, requests, selectors   *)
(* and checkpoints.                                                        *)
(*                                                                         *)
(* checkpoint() brings up one class of objects after the other.  A step of *)
(* it leaves the lists sound and its class done, and undoes no other       *)
(* (MirrorStep); a request of the target leaves them sound (RequestKept).  *)
(*                                                                         *)
(* What later proofs need to know of a target comes after the theorems:    *)
(* which objects it can have (TargetSound), which infos of them can be     *)
(* stored (StoredSound), and which capabilities it holds (SlotsSound).     *)
(***************************************************************************)
EXTENDS CheckpointRestore, ListFacts

-----------------------------------------------------------------------------
(* Only.                                                                   *)

\* f leads each place of r to the place in the first n of s it comes from.
Picked(r, s, n, set, f) ==
  /\ f \in [1 .. Len(r) -> 1 .. n]
  /\ \A i \in 1 .. Len(r) : r[i] = s[f[i]] /\ s[f[i]] \in set
  /\ \A i, j \in 1 .. Len(r) : i < j => f[i] < f[j]
  /\ \A k \in 1 .. n : s[k] \in set => \E i \in 1 .. Len(r) : f[i] = k

\* One more element of the list is looked at.
LEMMA PickedMore ==
  ASSUME NEW V, NEW s \in Seq(V), NEW r \in Seq(V), NEW n \in Nat, n + 1 <= Len(s),
         NEW set, NEW f, Picked(r, s, n, set, f)
  PROVE  LET t == IF s[n + 1] \in set THEN Append(r, s[n + 1]) ELSE r
         IN  t \in Seq(V) /\ \E g : Picked(t, s, n + 1, set, g)
<1>1. n + 1 \in 1 .. Len(s) /\ s[n + 1] \in V /\ Len(r) \in Nat
  BY LenProperties, ElementOfSeq
<1>2. CASE s[n + 1] \notin set
  <2>1. f \in [1 .. Len(r) -> 1 .. n + 1]
    BY <1>1 DEF Picked
  <2>2. \A k \in 1 .. n + 1 : s[k] \in set => k \in 1 .. n
    <3> TAKE k \in 1 .. n + 1
    <3>1. k \in 1 .. n \/ k = n + 1
      OBVIOUS
    <3> QED
      BY <3>1, <1>2
  <2>3. Picked(r, s, n + 1, set, f)
    BY <2>1, <2>2 DEF Picked
  <2> QED
    BY <1>2, <2>3
<1>3. CASE s[n + 1] \in set
  <2> DEFINE e == s[n + 1]
             t == Append(r, e)
             g == [i \in 1 .. Len(r) + 1 |-> IF i <= Len(r) THEN f[i] ELSE n + 1]
  <2>1. /\ t \in Seq(V) /\ Len(t) = Len(r) + 1
        /\ \A i \in 1 .. Len(r) : t[i] = r[i]
        /\ t[Len(r) + 1] = e
    BY <1>1, AppendProperties
  <2> HIDE DEF t
  <2>2. \A i \in 1 .. Len(r) : f[i] \in 1 .. n
    BY DEF Picked
  <2>3. g \in [1 .. Len(t) -> 1 .. n + 1]
    BY <1>1, <2>1, <2>2
  <2>4. \A i \in 1 .. Len(r) : i \in 1 .. Len(r) + 1 /\ g[i] = f[i]
    BY <1>1
  <2>5. g[Len(r) + 1] = n + 1 /\ Len(r) + 1 \in 1 .. Len(r) + 1
    BY <1>1
  <2>6. \A i \in 1 .. Len(t) : i \in 1 .. Len(r) \/ i = Len(r) + 1
    BY <1>1, <2>1
  <2> HIDE DEF g
  <2>7. \A i \in 1 .. Len(t) : t[i] = s[g[i]] /\ s[g[i]] \in set
    BY <1>3, <2>1, <2>4, <2>5, <2>6 DEF Picked
  <2>8. \A i, j \in 1 .. Len(t) : i < j => g[i] < g[j]
    <3> TAKE i, j \in 1 .. Len(t)
    <3> HAVE i < j
    <3>1. CASE j \in 1 .. Len(r)
      <4>1. i \in 1 .. Len(r)
        BY <3>1, <1>1, <2>6
      <4> QED
        BY <3>1, <4>1, <2>4 DEF Picked
    <3>2. CASE j = Len(r) + 1
      <4>1. i \in 1 .. Len(r)
        BY <3>2, <1>1, <2>6
      <4> QED
        BY <3>2, <4>1, <2>2, <2>4, <2>5
    <3> QED
      BY <3>1, <3>2, <2>6
  <2>9. \A k \in 1 .. n + 1 : s[k] \in set => \E i \in 1 .. Len(t) : g[i] = k
    <3> TAKE k \in 1 .. n + 1
    <3> HAVE s[k] \in set
    <3>1. CASE k \in 1 .. n
      <4>1. PICK i \in 1 .. Len(r) : f[i] = k
        BY <3>1 DEF Picked
      <4> QED
        BY <4>1, <2>1, <2>4
    <3>2. CASE k = n + 1
      BY <3>2, <2>1, <2>5
    <3> QED
      BY <3>1, <3>2
  <2>10. Picked(t, s, n + 1, set, g)
    BY <2>3, <2>7, <2>8, <2>9 DEF Picked
  <2> QED
    BY <1>3, <2>1, <2>10 DEF t
<1> QED
  BY <1>2, <1>3

\* Only keeps the elements that are in the set, in their order.
LEMMA OnlyPicks ==
  ASSUME NEW V, NEW s \in Seq(V), NEW set
  PROVE  Only(s, set) \in Seq(V) /\ \E f : Picked(Only(s, set), s, Len(s), set, f)
<1> DEFINE N == Len(s)
           A == Seq(V)
           step == [n \in 1 .. N |-> [r \in A |-> IF s[n] \in set THEN Append(r, s[n]) ELSE r]]
           only == CHOOSE f : f = [n \in 0 .. N |-> IF n = 0 THEN <<>>
                                    ELSE IF s[n] \in set THEN Append(f[n - 1], s[n]) ELSE f[n - 1]]
<1>1. N \in Nat /\ <<>> \in A /\ \A n \in 1 .. N : s[n] \in V
  BY LenProperties, ElementOfSeq, EmptySeq
<1>2. step \in [1 .. N -> [A -> A]]
  <2>1. \A n \in 1 .. N, r \in A : (IF s[n] \in set THEN Append(r, s[n]) ELSE r) \in A
    BY <1>1, AppendProperties
  <2> QED
    BY <2>1
<1>3. \E f : Recurses(f, N, A, <<>>, step)
  <2> DEFINE base == <<>>
  <2>1. base \in A
    BY <1>1
  <2> HIDE DEF step, A, N, base
  <2>2. \E f : Recurses(f, N, A, base, step)
    BY <1>1, <1>2, <2>1, Recursion
  <2> QED
    BY <2>2 DEF base
<1>4. PICK f : Recurses(f, N, A, <<>>, step)
  BY <1>3
<1>5. f = [n \in 0 .. N |-> IF n = 0 THEN <<>>
             ELSE IF s[n] \in set THEN Append(f[n - 1], s[n]) ELSE f[n - 1]]
  <2>1. \A n \in 1 .. N : f[n - 1] \in A /\ step[n][f[n - 1]]
             = IF s[n] \in set THEN Append(f[n - 1], s[n]) ELSE f[n - 1]
    <3> TAKE n \in 1 .. N
    <3>1. n - 1 \in 0 .. N
      BY <1>1
    <3>2. f[n - 1] \in A
      BY <1>4, <3>1 DEF Recurses
    <3> QED
      BY <3>2
  <2>2. \A n \in 0 .. N : n # 0 => n \in 1 .. N
    BY <1>1
  <2> HIDE DEF step
  <2> QED
    BY <1>4, <2>1, <2>2 DEF Recurses
<1>6. only = [n \in 0 .. N |-> IF n = 0 THEN <<>>
             ELSE IF s[n] \in set THEN Append(only[n - 1], s[n]) ELSE only[n - 1]]
  BY <1>5
<1>7. Only(s, set) = only[N]
  BY DEF Only
<1> HIDE DEF only, step, A
<1>8. /\ only[0] = <<>>
      /\ \A n \in 0 .. N - 1 :
           only[n + 1] = IF s[n + 1] \in set THEN Append(only[n], s[n + 1]) ELSE only[n]
  <2> DEFINE Value(n) == IF n = 0 THEN <<>>
                         ELSE IF s[n] \in set THEN Append(only[n - 1], s[n]) ELSE only[n - 1]
  <2>1. \A n \in 0 .. N : only[n] = Value(n)
    <3>1. only = [n \in 0 .. N |-> Value(n)]
      BY <1>6
    <3> HIDE DEF Value, N
    <3> QED
      BY <3>1
  <2>2. \A n \in 0 .. N - 1 : n + 1 \in 0 .. N /\ n + 1 # 0 /\ n + 1 - 1 = n
    BY <1>1
  <2>3. 0 \in 0 .. N
    BY <1>1
  <2> HIDE DEF N
  <2>4. only[0] = <<>>
    BY <2>1, <2>3
  <2>5. ASSUME NEW n \in 0 .. N - 1
        PROVE  only[n + 1] = IF s[n + 1] \in set THEN Append(only[n], s[n + 1]) ELSE only[n]
    BY <2>1, <2>2
  <2> QED
    BY <2>4, <2>5
<1> DEFINE P == {n \in Nat : n <= N => only[n] \in Seq(V) /\ \E g : Picked(only[n], s, n, set, g)}
<1>9. 0 \in P
  <2>1. Picked(<<>>, s, 0, set, <<>>)
    BY DEF Picked
  <2> QED
    BY <1>8, <2>1, EmptySeq
<1>10. ASSUME NEW n \in Nat, n \in P PROVE n + 1 \in P
  <2> SUFFICES ASSUME n + 1 <= N
               PROVE  only[n + 1] \in Seq(V) /\ \E g : Picked(only[n + 1], s, n + 1, set, g)
    OBVIOUS
  <2>1. n <= N /\ n \in 0 .. N - 1
    BY <1>1
  <2>2. only[n] \in Seq(V) /\ \E g : Picked(only[n], s, n, set, g)
    BY <1>10, <2>1
  <2>3. PICK g : Picked(only[n], s, n, set, g)
    BY <2>2
  <2> DEFINE t == IF s[n + 1] \in set THEN Append(only[n], s[n + 1]) ELSE only[n]
  <2>4. t \in Seq(V) /\ \E h : Picked(t, s, n + 1, set, h)
    BY <2>2, <2>3, PickedMore
  <2>5. only[n + 1] = t
    BY <1>8, <2>1
  <2> QED
    BY <2>4, <2>5
<1>11. N \in P
  <2> HIDE DEF P
  <2> QED
    BY <1>1, <1>9, <1>10, Induction
<1> QED
  BY <1>1, <1>7, <1>11

-----------------------------------------------------------------------------
(* Objects and lists of them.                                              *)

Object == [kind : Kind, badge : Nat, owner : Nat, ref : Nat, tag : Nat, ts : Nat,
           boot : BOOLEAN, kcap : Nat, sigh : Nat, mode : Nat, quota : Nat]

\* No two elements of a list stand for the same object.
Unique(l) == \A i, j \in DOMAIN l : Same(l[i], l[j]) => i = j

\* Only what can have a handler or a mode has one.
Plain(o) ==
  /\ o.sigh # 0 => IsSignalling(o)
  /\ o.mode # 0 => o.kind \in {"thread", "timer"}

\* What never changes in an object, nor in an info once it is made.
Fixed(o) == <<o.kind, o.badge, o.owner, o.ref, o.tag, o.ts, o.boot>>

Proper(l) == l \in Seq(Object) /\ Unique(l) /\ \A o \in ToSet(l) : Plain(o)

\* The lists that checkpoint() brings up to date one after the other.
Class(o) ==
  IF o.kind # "region" THEN o.kind ELSE IF InSpace(o) THEN "inner" ELSE "outer"

\* The elements of a list.
LEMMA ListElements ==
  ASSUME NEW V, NEW l \in Seq(V)
  PROVE  /\ Len(l) \in Nat /\ DOMAIN l = 1 .. Len(l)
         /\ \A i \in DOMAIN l : l[i] \in V /\ l[i] \in ToSet(l)
         /\ \A o \in ToSet(l) : o \in V /\ \E i \in DOMAIN l : l[i] = o
<1>1. Len(l) \in Nat /\ DOMAIN l = 1 .. Len(l)
  BY LenProperties
<1>2. \A i \in 1 .. Len(l) : l[i] \in V
  BY ElementOfSeq
<1> QED
  BY <1>1, <1>2 DEF ToSet

\* Same is an equivalence, and what is the same is of one class.
LEMMA SameFacts ==
  /\ \A o : Same(o, o)
  /\ \A o, p : Same(o, p) => Same(p, o) /\ Class(o) = Class(p)
  /\ \A o, p, q : Same(o, p) /\ Same(p, q) => Same(o, q)
BY DEF Same, Key, Class, InSpace, SpaceOf, DsOf

\* The elements of Only; no object twice if the list has none twice.
LEMMA OnlyFacts ==
  ASSUME NEW V, NEW s \in Seq(V), NEW set
  PROVE  /\ Only(s, set) \in Seq(V) /\ ToSet(Only(s, set)) = ToSet(s) \cap set
         /\ Unique(s) => Unique(Only(s, set))
<1> DEFINE r == Only(s, set)
<1>1. r \in Seq(V) /\ \E f : Picked(r, s, Len(s), set, f)
  BY OnlyPicks
<1>2. PICK f : Picked(r, s, Len(s), set, f)
  BY <1>1
<1> HIDE DEF r
<1>3. /\ Len(s) \in Nat /\ DOMAIN s = 1 .. Len(s) /\ Len(r) \in Nat /\ DOMAIN r = 1 .. Len(r)
  BY <1>1, ListElements
<1>4. \A i \in 1 .. Len(r) : f[i] \in 1 .. Len(s) /\ r[i] = s[f[i]] /\ s[f[i]] \in set
  BY <1>2 DEF Picked
<1>5. ToSet(r) \subseteq ToSet(s) \cap set
  BY <1>3, <1>4 DEF ToSet
<1>6. ToSet(s) \cap set \subseteq ToSet(r)
  <2> SUFFICES ASSUME NEW k \in 1 .. Len(s), s[k] \in set PROVE s[k] \in ToSet(r)
    BY <1>3 DEF ToSet
  <2>1. PICK i \in 1 .. Len(r) : f[i] = k
    BY <1>2 DEF Picked
  <2> QED
    BY <1>3, <1>4, <2>1 DEF ToSet
<1>7. ASSUME Unique(s) PROVE Unique(r)
  <2> SUFFICES ASSUME NEW i \in 1 .. Len(r), NEW j \in 1 .. Len(r), Same(r[i], r[j]) PROVE i = j
    BY <1>3 DEF Unique
  <2>1. f[i] = f[j]
    BY <1>3, <1>4, <1>7 DEF Unique
  <2>2. ~(i < j) /\ ~(j < i)
    <3>1. f[i] \in Nat /\ f[j] \in Nat
      BY <1>4
    <3>2. (i < j => f[i] < f[j]) /\ (j < i => f[j] < f[i])
      BY <1>2 DEF Picked
    <3> QED
      BY <2>1, <3>1, <3>2
  <2> QED
    BY <2>2
<1> QED
  BY <1>1, <1>5, <1>6, <1>7 DEF r

\* Elements replaced by infos for the same objects.
LEMMA MapUnique ==
  ASSUME NEW l, NEW m, Unique(l), DOMAIN m = DOMAIN l, \A i \in DOMAIN l : Same(m[i], l[i])
  PROVE  Unique(m)
<1> SUFFICES ASSUME NEW i \in DOMAIN l, NEW j \in DOMAIN l, Same(m[i], m[j]) PROVE i = j
  BY DEF Unique
<1>1. Same(l[i], l[j])
  BY SameFacts
<1> QED
  BY <1>1 DEF Unique

\* Turning a list round duplicates nothing.
LEMMA ReverseUnique ==
  ASSUME NEW V, NEW l \in Seq(V), Unique(l)
  PROVE  Unique(Reverse(l))
<1> DEFINE r == Reverse(l)
           n == Len(l)
<1>1. /\ r \in Seq(V) /\ Len(r) = n /\ n \in Nat
      /\ \A i \in 1 .. n : n - i + 1 \in 1 .. n /\ r[i] = l[n - i + 1]
  BY ReverseFacts
<1>2. DOMAIN l = 1 .. n
  BY ListElements
<1> HIDE DEF r
<1>3. DOMAIN r = 1 .. n
  BY <1>1, ListElements
<1> HIDE DEF n
<1>4. \A i, j \in 1 .. n : Same(r[i], r[j]) => n - i + 1 = n - j + 1
  BY <1>1, <1>2 DEF Unique
<1>5. \A i, j \in 1 .. n : n - i + 1 = n - j + 1 => i = j
  BY <1>1
<1>6. Unique(r)
  BY <1>3, <1>4, <1>5 DEF Unique
<1> QED
  BY <1>6 DEF r

\* Lists with no object in common, one behind the other.
LEMMA ConcatUnique ==
  ASSUME NEW V, NEW a \in Seq(V), NEW b \in Seq(V), Unique(a), Unique(b),
         \A o \in ToSet(a), p \in ToSet(b) : ~Same(o, p)
  PROVE  Unique(a \o b)
<1> DEFINE c == a \o b
<1>1. /\ c \in Seq(V) /\ Len(c) = Len(a) + Len(b)
      /\ \A i \in 1 .. Len(a) + Len(b) : c[i] = IF i <= Len(a) THEN a[i] ELSE b[i - Len(a)]
  BY ConcatProperties
<1>2. /\ Len(a) \in Nat /\ DOMAIN a = 1 .. Len(a) /\ Len(b) \in Nat /\ DOMAIN b = 1 .. Len(b)
      /\ \A i \in DOMAIN a : a[i] \in ToSet(a)
      /\ \A i \in DOMAIN b : b[i] \in ToSet(b)
  BY ListElements
<1> HIDE DEF c
<1>3. DOMAIN c = 1 .. Len(a) + Len(b)
  BY <1>1, ListElements
<1>4. ASSUME NEW i \in 1 .. Len(a) + Len(b)
      PROVE  \/ i \in DOMAIN a /\ c[i] = a[i]
             \/ i - Len(a) \in DOMAIN b /\ c[i] = b[i - Len(a)]
  <2>1. i <= Len(a) => i \in DOMAIN a
    BY <1>2
  <2>2. ~(i <= Len(a)) => i - Len(a) \in DOMAIN b
    BY <1>2
  <2> QED
    BY <1>1, <2>1, <2>2
<1>5. ASSUME NEW i \in 1 .. Len(a) + Len(b), NEW j \in 1 .. Len(a) + Len(b), Same(c[i], c[j])
      PROVE  i = j
  <2>1. CASE i \in DOMAIN a /\ c[i] = a[i] /\ j \in DOMAIN a /\ c[j] = a[j]
    BY <1>5, <2>1 DEF Unique
  <2>2. CASE /\ i - Len(a) \in DOMAIN b /\ c[i] = b[i - Len(a)]
             /\ j - Len(a) \in DOMAIN b /\ c[j] = b[j - Len(a)]
    <3>1. i - Len(a) = j - Len(a)
      BY <1>5, <2>2 DEF Unique
    <3> QED
      BY <1>2, <3>1
  <2>3. CASE i \in DOMAIN a /\ c[i] = a[i] /\ j - Len(a) \in DOMAIN b /\ c[j] = b[j - Len(a)]
    BY <1>2, <1>5, <2>3
  <2>4. CASE i - Len(a) \in DOMAIN b /\ c[i] = b[i - Len(a)] /\ j \in DOMAIN a /\ c[j] = a[j]
    BY <1>2, <1>5, <2>4, SameFacts
  <2> QED
    BY <1>4, <2>1, <2>2, <2>3, <2>4
<1>6. Unique(c)
  BY <1>3, <1>5 DEF Unique
<1> QED
  BY <1>6 DEF c

-----------------------------------------------------------------------------
(* One step of the checkpointer.                                           *)

\* A selector of the capability space, or none.
LEMMA SlotType ==
  ASSUME slots \in [1 .. MaxSlots -> Nat], NEW badge
  PROVE  SlotOf(badge) \in 0 .. MaxSlots
<1>1. MaxSlots \in Nat /\ DOMAIN slots = 1 .. MaxSlots
  BY SlotsAssumption
<1>2. CASE \E k \in DOMAIN slots : slots[k] = badge
  <2>1. (CHOOSE k \in DOMAIN slots : slots[k] = badge) \in DOMAIN slots
    BY <1>2
  <2> QED
    BY <1>1, <2>1 DEF SlotOf
<1> QED
  BY <1>1, <1>2 DEF SlotOf

\* The constructor of a stored info copies all but the selector.
LEMMA StoredFacts ==
  ASSUME slots \in [1 .. MaxSlots -> Nat], NEW o \in Object, Plain(o)
  PROVE  /\ Stored(o) \in Object /\ Plain(Stored(o)) /\ Same(Stored(o), o)
         /\ Fixed(Stored(o)) = Fixed(o) /\ Stored(o).ts = o.ts
         /\ Stored(o).sigh = o.sigh /\ Stored(o).mode = o.mode /\ Stored(o).kcap \in 0 .. MaxSlots
         /\ Stored(o).quota = o.quota
<1> DEFINE k == SlotOf(IF o.kind = "region" THEN o.ref ELSE o.badge)
           s == [o EXCEPT !.kcap = k]
<1>1. k \in 0 .. MaxSlots /\ k \in Nat
  BY SlotType, SlotsAssumption
<1>2. Stored(o) = s
  BY DEF Stored
<1> HIDE DEF k
<1>3. /\ s \in Object /\ s.kind = o.kind /\ s.badge = o.badge /\ s.owner = o.owner
      /\ s.ref = o.ref /\ s.tag = o.tag /\ s.ts = o.ts /\ s.boot = o.boot
      /\ s.sigh = o.sigh /\ s.mode = o.mode /\ s.kcap = k /\ s.quota = o.quota
  BY <1>1 DEF Object
<1> HIDE DEF s
<1> QED
  BY <1>1, <1>2, <1>3 DEF Plain, Same, Key, Fixed, IsSignalling

\* Reading again changes the handler and the mode only, to those of now.
LEMMA UpdatedFacts ==
  ASSUME NEW s \in Object, NEW o \in Object, Same(s, o), Plain(s), Plain(o)
  PROVE  /\ Updated(s, o) \in Object /\ Plain(Updated(s, o)) /\ Same(Updated(s, o), s)
         /\ Fixed(Updated(s, o)) = Fixed(s) /\ Updated(s, o).ts = s.ts
         /\ Updated(s, o).sigh = o.sigh /\ Updated(s, o).mode = o.mode /\ Updated(s, o).kcap = s.kcap
         /\ Updated(s, o).quota = s.quota
<1> DEFINE u == Updated(s, o)
<1>1. s.kind = o.kind
  BY DEF Same
<1>2. /\ u \in Object /\ u.kind = s.kind /\ u.badge = s.badge /\ u.owner = s.owner
      /\ u.ref = s.ref /\ u.tag = s.tag /\ u.ts = s.ts /\ u.boot = s.boot /\ u.kcap = s.kcap
      /\ u.quota = s.quota
  <2>1. CASE IsMap(s) \/ s.kind = "cpu"
    <3>1. u = [s EXCEPT !.sigh = o.sigh]
      BY <2>1 DEF Updated, IsMap
    <3> QED
      BY <3>1 DEF Object
  <2>2. CASE ~(IsMap(s) \/ s.kind = "cpu") /\ s.kind \in {"thread", "timer"}
    <3>1. u = [s EXCEPT !.sigh = o.sigh, !.mode = o.mode]
      BY <2>2 DEF Updated
    <3> QED
      BY <3>1 DEF Object
  <2>3. CASE ~(IsMap(s) \/ s.kind = "cpu") /\ s.kind \notin {"thread", "timer"}
    <3>1. u = s
      BY <2>3 DEF Updated
    <3> QED
      BY <3>1
  <2> QED
    BY <2>1, <2>2, <2>3
<1>3. u.sigh = o.sigh /\ u.mode = o.mode
  <2>1. CASE IsMap(s) \/ s.kind = "cpu"
    <3>1. u = [s EXCEPT !.sigh = o.sigh]
      BY <2>1 DEF Updated, IsMap
    <3>2. u.sigh = o.sigh /\ u.mode = s.mode
      BY <3>1 DEF Object
    <3>3. s.mode = 0 /\ o.mode = 0
      BY <1>1, <2>1 DEF Plain, IsMap
    <3> QED
      BY <3>2, <3>3
  <2>2. CASE ~(IsMap(s) \/ s.kind = "cpu") /\ s.kind \in {"thread", "timer"}
    <3>1. u = [s EXCEPT !.sigh = o.sigh, !.mode = o.mode]
      BY <2>2 DEF Updated
    <3> QED
      BY <3>1 DEF Object
  <2>3. CASE ~(IsMap(s) \/ s.kind = "cpu") /\ s.kind \notin {"thread", "timer"}
    <3>1. u = s
      BY <2>3 DEF Updated
    <3>2. s.sigh = 0 /\ o.sigh = 0 /\ s.mode = 0 /\ o.mode = 0
      BY <1>1, <2>3 DEF Plain, IsMap, IsSignalling
    <3> QED
      BY <3>1, <3>2
  <2> QED
    BY <2>1, <2>2, <2>3
<1> HIDE DEF u
<1>4. Plain(u)
  BY <1>1, <1>2, <1>3 DEF Plain, IsSignalling
<1>5. Same(u, s) /\ Fixed(u) = Fixed(s)
  BY <1>2 DEF Same, Key, Fixed
<1> QED
  BY <1>2, <1>3, <1>4, <1>5 DEF u

\* find_by_badge returns an element for the object.
LEMMA FoundFacts ==
  ASSUME NEW V, NEW l \in Seq(V), NEW o, Known(l, o)
  PROVE  FindIn(l, o) \in V /\ FindIn(l, o) \in ToSet(l) /\ Same(FindIn(l, o), o)
<1> DEFINE i == CHOOSE j \in DOMAIN l : Same(l[j], o)
<1>1. i \in DOMAIN l /\ Same(l[i], o)
  BY DEF Known
<1>2. FindIn(l, o) = l[i]
  BY DEF FindIn
<1> HIDE DEF i
<1> QED
  BY <1>1, <1>2, ListElements

\* An object is known when the list has an element for it.
LEMMA KnownFacts ==
  ASSUME NEW V, NEW l \in Seq(V), NEW o
  PROVE  Known(l, o) <=> \E p \in ToSet(l) : Same(p, o)
BY ListElements DEF Known

\* The region s is found when one at the address of o is looked for.
Near(s, o) ==
  s.kind = "region" /\ o.kind = "region" /\ s.owner = o.owner /\ Includes(s, o.tag)

\* find_by_addr returns an element of the list, if there is one to return.
LEMMA FindByAddrFacts ==
  ASSUME NEW V, NEW l \in Seq(V), NEW map, NEW addr
  PROVE  /\ \A o \in FindByAddr(l, map, addr) :
              o \in ToSet(l) /\ o.kind = "region" /\ o.owner = map /\ Includes(o, addr)
         /\ \A o \in ToSet(l) : o.kind = "region" /\ o.owner = map /\ Includes(o, addr) =>
              FindByAddr(l, map, addr) # {}
<1> DEFINE set == {o \in ToSet(l) : o.kind = "region" /\ o.owner = map /\ Includes(o, addr)}
           found == Only(l, set)
<1>1. found \in Seq(V) /\ ToSet(found) = ToSet(l) \cap set
  BY OnlyFacts
<1>2. FindByAddr(l, map, addr) = IF found = <<>> THEN {} ELSE {Head(found)}
  BY DEF FindByAddr
<1> HIDE DEF found
<1>3. found # <<>> => Head(found) \in ToSet(found)
  <2> HAVE found # <<>>
  <2>1. Len(found) \in Nat /\ Len(found) # 0 /\ DOMAIN found = 1 .. Len(found)
    BY <1>1, EmptySeq, LenProperties
  <2> QED
    BY <1>1, <2>1, HeadTailProperties DEF ToSet
<1>4. found = <<>> => ToSet(found) = {}
  BY DEF ToSet
<1> QED
  BY <1>1, <1>2, <1>3, <1>4

\* The stored list has an info for each object of the class, with the handler
\* and mode the object has now, and no other.  Of a region's info it only knows
\* that a region of the target includes its address.
Synced(l, c) ==
  /\ \A o \in Objs : Class(o) = c /\ o.kind # "region" =>
       \E s \in ToSet(l) : Same(s, o) /\ s.sigh = o.sigh /\ s.mode = o.mode
  /\ \A s \in ToSet(l) : Class(s) = c =>
       IF s.kind = "region" THEN FindByAddr(objs, s.owner, s.tag) # {} ELSE Known(objs, s)

\* No two regions of a map at one address.
Apart(l) ==
  \A s, t \in ToSet(l) :
    s.kind = "region" /\ t.kind = "region" /\ s.owner = t.owner /\ s.tag = t.tag => s = t

\* A list as the checkpointer leaves it: no info is from the future or has a
\* selector the target does not have, and one that was made for an object of now
\* has what never changes in it.
Good(l) ==
  /\ Proper(l) /\ Apart(l)
  /\ \A s \in ToSet(l) : s.ts <= 10 + created /\ s.kcap \in 0 .. MaxSlots
  /\ \A s \in ToSet(l), o \in Objs : Same(s, o) /\ s.ts = o.ts => Fixed(s) = Fixed(o)

\* What an info keeps from the checkpoint it was made in.
Alike(s, t) == Fixed(s) = Fixed(t) /\ s.kcap = t.kcap /\ s.quota = t.quota

\* The infos of list m are those of list l, or were made of objects of now.
From(l, m) ==
  \A s \in ToSet(m) : (\E t \in ToSet(l) : Alike(s, t)) \/ \E o \in Objs : Alike(s, Stored(o))

SameRegions(l, m) == \A s : s.kind = "region" => (s \in ToSet(l) <=> s \in ToSet(m))

\* Bringing one class up to date that is found by badges leaves the list sound,
\* that class in sync, every other class in sync that was, and the regions alone.
LEMMA MirrorStep ==
  ASSUME Proper(objs), slots \in [1 .. MaxSlots -> Nat], \A o \in Objs : o.ts <= 10 + created,
         NEW l, Good(l), NEW class, NEW c,
         \A o \in Objs \cup ToSet(l) : o \in class <=> Class(o) = c,
         \A o : Class(o) = c => o.kind # "region"
  PROVE  /\ Good(Mirrored(l, class)) /\ Synced(Mirrored(l, class), c)
         /\ \A d : d # c /\ Synced(l, d) => Synced(Mirrored(l, class), d)
         /\ From(l, Mirrored(l, class)) /\ SameRegions(l, Mirrored(l, class))
<1> DEFINE online == Only(objs, class)
           fresh == {o \in class : ~Known(l, o)}
           old == {s \in class : Known(online, s)}
           new == Only(online, fresh)
           kept == Only(l, old)
           rest == Only(l, ToSet(l) \ class)
           a == [i \in DOMAIN new |-> Stored(new[i])]
           b == [i \in DOMAIN kept |-> Updated(kept[i], FindIn(online, kept[i]))]
           m == Reverse(a) \o b \o rest
<1>1. Mirrored(l, class) = m
  BY DEF Mirrored
<1>2. /\ objs \in Seq(Object) /\ Unique(objs) /\ \A o \in Objs : o \in Object /\ Plain(o)
      /\ l \in Seq(Object) /\ Unique(l) /\ \A s \in ToSet(l) : s \in Object /\ Plain(s)
  BY ListElements DEF Proper, Good, Objs
<1>3. /\ online \in Seq(Object) /\ Unique(online)
      /\ ToSet(online) = {o \in Objs : Class(o) = c}
  <2>1. online \in Seq(Object) /\ ToSet(online) = Objs \cap class /\ Unique(online)
    BY <1>2, OnlyFacts DEF Objs
  <2> QED
    BY <2>1
<1>4. /\ new \in Seq(Object) /\ Unique(new)
      /\ ToSet(new) = {o \in Objs : Class(o) = c /\ ~Known(l, o)}
  <2> HIDE DEF online, fresh
  <2>1. new \in Seq(Object) /\ ToSet(new) = ToSet(online) \cap fresh /\ Unique(new)
    BY <1>3, OnlyFacts
  <2> QED
    BY <1>3, <2>1 DEF fresh
<1>5. /\ kept \in Seq(Object) /\ Unique(kept)
      /\ ToSet(kept) = {s \in ToSet(l) : Class(s) = c /\ Known(online, s)}
  <2> HIDE DEF online, old
  <2>1. kept \in Seq(Object) /\ ToSet(kept) = ToSet(l) \cap old /\ Unique(kept)
    BY <1>2, OnlyFacts
  <2> QED
    BY <2>1 DEF old
<1>6. /\ rest \in Seq(Object) /\ Unique(rest)
      /\ ToSet(rest) = {s \in ToSet(l) : Class(s) # c}
  <2>1. rest \in Seq(Object) /\ ToSet(rest) = ToSet(l) \cap (ToSet(l) \ class) /\ Unique(rest)
    BY <1>2, OnlyFacts
  <2> QED
    BY <2>1
<1> HIDE DEF online, new, kept, rest, fresh, old
\* The infos made now.
<1>7. /\ a \in Seq(Object) /\ Unique(a) /\ ToSet(a) = {Stored(o) : o \in ToSet(new)}
  <2>1. /\ Len(new) \in Nat /\ DOMAIN new = 1 .. Len(new)
        /\ \A i \in DOMAIN new : new[i] \in ToSet(new)
        /\ \A o \in ToSet(new) : \E i \in DOMAIN new : new[i] = o
    BY <1>4, ListElements
  <2>2. \A i \in DOMAIN new : a[i] \in Object /\ Same(a[i], new[i])
    BY <1>2, <1>4, <2>1, StoredFacts
  <2>3. DOMAIN a = DOMAIN new
    OBVIOUS
  <2>4. a \in Seq(Object)
    <3> HIDE DEF a
    <3>1. a \in [1 .. Len(new) -> Object]
      BY <2>1, <2>2, <2>3 DEF a
    <3> QED
      BY <2>1, <3>1, SeqDef
  <2>5. ToSet(a) = {Stored(o) : o \in ToSet(new)}
    BY <2>1 DEF ToSet
  <2>6. Unique(a)
    <3> HIDE DEF a
    <3> QED
      BY <1>4, <2>2, <2>3, MapUnique
  <2> QED
    BY <2>4, <2>5, <2>6
\* The infos read again.
<1>8. /\ b \in Seq(Object) /\ Unique(b)
      /\ ToSet(b) = {Updated(s, FindIn(online, s)) : s \in ToSet(kept)}
      /\ \A s \in ToSet(kept) : /\ FindIn(online, s) \in Objs /\ Same(s, FindIn(online, s))
                                /\ s \in Object /\ Plain(s)
  <2>1. /\ Len(kept) \in Nat /\ DOMAIN kept = 1 .. Len(kept)
        /\ \A i \in DOMAIN kept : kept[i] \in ToSet(kept)
        /\ \A o \in ToSet(kept) : \E i \in DOMAIN kept : kept[i] = o
    BY <1>5, ListElements
  <2>2. \A s \in ToSet(kept) : /\ FindIn(online, s) \in Objs /\ Same(s, FindIn(online, s))
                               /\ s \in Object /\ Plain(s)
    <3> TAKE s \in ToSet(kept)
    <3>1. Known(online, s) /\ s \in Object /\ Plain(s)
      BY <1>2, <1>5
    <3>2. FindIn(online, s) \in ToSet(online) /\ Same(FindIn(online, s), s)
      BY <1>3, <3>1, FoundFacts
    <3> QED
      BY <1>3, <3>1, <3>2, SameFacts
  <2>3. \A i \in DOMAIN kept : b[i] \in Object /\ Same(b[i], kept[i])
    <3> TAKE i \in DOMAIN kept
    <3>1. kept[i] \in ToSet(kept)
      BY <2>1
    <3> DEFINE s == kept[i]
               o == FindIn(online, s)
    <3>2. b[i] = Updated(s, o)
      OBVIOUS
    <3>3. o \in Object /\ Plain(o) /\ Same(s, o) /\ s \in Object /\ Plain(s)
      BY <1>2, <2>2, <3>1
    <3> HIDE DEF s, o
    <3>4. Updated(s, o) \in Object /\ Same(Updated(s, o), s)
      BY <3>3, UpdatedFacts
    <3> QED
      BY <3>2, <3>4 DEF s
  <2>4. DOMAIN b = DOMAIN kept
    OBVIOUS
  <2>5. b \in Seq(Object)
    <3> HIDE DEF b
    <3>1. b \in [1 .. Len(kept) -> Object]
      BY <2>1, <2>3, <2>4 DEF b
    <3> QED
      BY <2>1, <3>1, SeqDef
  <2>6. ToSet(b) = {Updated(s, FindIn(online, s)) : s \in ToSet(kept)}
    BY <2>1 DEF ToSet
  <2>7. Unique(b)
    <3> HIDE DEF b
    <3> QED
      BY <1>5, <2>3, <2>4, MapUnique
  <2> QED
    BY <2>2, <2>5, <2>6, <2>7
<1> HIDE DEF a, b
\* What the new list consists of.
<1>9. \A o \in ToSet(new) : /\ o \in Objs /\ o \in Object /\ Plain(o) /\ Class(o) = c /\ ~Known(l, o)
  BY <1>2, <1>4
<1>10. /\ m \in Seq(Object) /\ ToSet(m) = ToSet(a) \cup ToSet(b) \cup ToSet(rest)
  <2> DEFINE r == Reverse(a)
  <2>1. r \in Seq(Object) /\ ToSet(r) = ToSet(a)
    BY <1>7, ReverseFacts
  <2> HIDE DEF r
  <2>2. r \o b \in Seq(Object) /\ ToSet(r \o b) = ToSet(r) \cup ToSet(b)
    BY <1>8, <2>1, ConcatSet
  <2> DEFINE x == r \o b
  <2> HIDE DEF x
  <2>3. x \o rest \in Seq(Object) /\ ToSet(x \o rest) = ToSet(x) \cup ToSet(rest)
    <3>1. x \in Seq(Object) /\ rest \in Seq(Object)
      BY <1>6, <2>2 DEF x
    <3> QED
      BY <3>1, ConcatSet
  <2> QED
    BY <2>1, <2>2, <2>3 DEF x, r
<1>11. ASSUME NEW s \in ToSet(m)
       PROVE  \/ \E o \in ToSet(new) : s = Stored(o)
              \/ \E t \in ToSet(kept) : s = Updated(t, FindIn(online, t))
              \/ s \in ToSet(l) /\ Class(s) # c
  BY <1>6, <1>7, <1>8, <1>10
\* What is so of an info of each of the three kinds.
<1>12. ASSUME NEW o \in ToSet(new)
       PROVE  /\ Plain(Stored(o)) /\ Same(Stored(o), o) /\ Fixed(Stored(o)) = Fixed(o)
              /\ Stored(o).ts = o.ts /\ Class(Stored(o)) = c
              /\ Stored(o).sigh = o.sigh /\ Stored(o).mode = o.mode
              /\ Stored(o).kcap \in 0 .. MaxSlots
  BY <1>9, StoredFacts, SameFacts
<1>13. ASSUME NEW t \in ToSet(kept)
       PROVE  LET u == Updated(t, FindIn(online, t))
              IN  /\ Plain(u) /\ Same(u, t) /\ Fixed(u) = Fixed(t) /\ u.ts = t.ts /\ Class(u) = c
                  /\ FindIn(online, t) \in Objs /\ Same(t, FindIn(online, t))
                  /\ u.sigh = FindIn(online, t).sigh /\ u.mode = FindIn(online, t).mode
                  /\ u.kcap = t.kcap /\ u.quota = t.quota
  <2> DEFINE o == FindIn(online, t)
  <2>1. o \in Objs /\ o \in Object /\ Plain(o) /\ t \in Object /\ Plain(t) /\ Same(t, o) /\ Class(t) = c
    BY <1>2, <1>5, <1>8
  <2> HIDE DEF o
  <2>2. LET u == Updated(t, o)
        IN  /\ Plain(u) /\ Same(u, t) /\ Fixed(u) = Fixed(t) /\ u.ts = t.ts
            /\ u.sigh = o.sigh /\ u.mode = o.mode /\ u.kcap = t.kcap /\ u.quota = t.quota
    BY <2>1, UpdatedFacts
  <2>3. Class(Updated(t, o)) = c
    BY <2>1, <2>2, SameFacts
  <2> QED
    BY <2>1, <2>2, <2>3 DEF o
<1>14. Unique(m)
  <2> DEFINE r == Reverse(a)
             x == r \o b
  <2>1. r \in Seq(Object) /\ ToSet(r) = ToSet(a) /\ Unique(r)
    BY <1>7, ReverseFacts, ReverseUnique
  <2>2. \A o \in ToSet(r), p \in ToSet(b) : ~Same(o, p)
    <3> SUFFICES ASSUME NEW o \in ToSet(new), NEW t \in ToSet(kept),
                        Same(Stored(o), Updated(t, FindIn(online, t)))
                 PROVE  FALSE
      BY <1>7, <1>8, <2>1
    <3>1. Same(t, o)
      BY <1>12, <1>13, SameFacts
    <3>2. t \in ToSet(l)
      BY <1>5
    <3> QED
      BY <1>2, <1>9, <3>1, <3>2, KnownFacts
  <2> HIDE DEF r
  <2>3. x \in Seq(Object) /\ ToSet(x) = ToSet(a) \cup ToSet(b) /\ Unique(x)
    BY <1>8, <2>1, <2>2, ConcatSet, ConcatUnique
  <2>4. \A o \in ToSet(x), p \in ToSet(rest) : ~Same(o, p)
    <3> SUFFICES ASSUME NEW o \in ToSet(a) \cup ToSet(b), NEW p \in ToSet(rest), Same(o, p) PROVE FALSE
      BY <2>3
    <3>1. Class(o) = c
      BY <1>7, <1>8, <1>12, <1>13
    <3>2. Class(p) # c
      BY <1>6
    <3> QED
      BY <3>1, <3>2, SameFacts
  <2> HIDE DEF x
  <2>5. Unique(x \o rest)
    BY <1>6, <2>3, <2>4, ConcatUnique
  <2> QED
    BY <2>5 DEF x, r
<1> HIDE DEF m
<1>15. ASSUME NEW s \in ToSet(m)
       PROVE  /\ Plain(s) /\ s.ts <= 10 + created /\ s.kcap \in 0 .. MaxSlots
              /\ \A o \in Objs : Same(s, o) /\ s.ts = o.ts => Fixed(s) = Fixed(o)
  <2>1. CASE \E o \in ToSet(new) : s = Stored(o)
    <3>1. PICK o \in ToSet(new) : s = Stored(o)
      BY <2>1
    <3>2. Plain(s) /\ Same(s, o) /\ Fixed(s) = Fixed(o) /\ s.ts = o.ts /\ s.kcap \in 0 .. MaxSlots
      BY <1>12, <3>1
    <3>3. \A p \in Objs : Same(s, p) => p = o
      <4> TAKE p \in Objs
      <4> HAVE Same(s, p)
      <4>1. Same(p, o) /\ o \in Objs
        BY <1>9, <3>2, SameFacts
      <4>2. PICK i \in DOMAIN objs, j \in DOMAIN objs : objs[i] = p /\ objs[j] = o
        BY <4>1, <1>2, ListElements DEF Objs
      <4> QED
        BY <1>2, <4>1, <4>2 DEF Unique
    <3> QED
      BY <1>9, <3>2, <3>3
  <2>2. CASE \E t \in ToSet(kept) : s = Updated(t, FindIn(online, t))
    <3>1. PICK t \in ToSet(kept) : s = Updated(t, FindIn(online, t))
      BY <2>2
    <3>2. Plain(s) /\ Same(s, t) /\ Fixed(s) = Fixed(t) /\ s.ts = t.ts /\ t \in ToSet(l)
          /\ s.kcap = t.kcap
      BY <1>5, <1>13, <3>1
    <3> QED
      BY <3>2, SameFacts DEF Good
  <2>3. CASE s \in ToSet(l)
    BY <1>2, <2>3 DEF Good
  <2> QED
    BY <1>11, <2>1, <2>2, <2>3
<1>20. SameRegions(l, m)
  <2>1. \A s \in ToSet(m) : s.kind = "region" => s \in ToSet(l)
    BY <1>11, <1>12, <1>13
  <2>2. \A s \in ToSet(l) : s.kind = "region" => s \in ToSet(m)
    BY <1>6, <1>10
  <2> QED
    BY <2>1, <2>2 DEF SameRegions
<1>16. Good(m)
  <2>1. Apart(m)
    BY <1>20 DEF Good, Apart, SameRegions
  <2> QED
    BY <1>10, <1>14, <1>15, <2>1 DEF Good, Proper
<1>17. Synced(m, c)
  <2>1. ASSUME NEW o \in Objs, Class(o) = c
        PROVE  \E s \in ToSet(m) : Same(s, o) /\ s.sigh = o.sigh /\ s.mode = o.mode
    <3>1. CASE ~Known(l, o)
      <4>1. o \in ToSet(new) /\ Stored(o) \in ToSet(m)
        BY <1>4, <1>7, <1>10, <2>1, <3>1
      <4> QED
        BY <1>12, <4>1
    <3>2. CASE Known(l, o)
      <4>1. PICK t \in ToSet(l) : Same(t, o)
        BY <1>2, <3>2, KnownFacts
      <4>2. Known(online, t) /\ Class(t) = c
        BY <1>3, <2>1, <4>1, KnownFacts, SameFacts
      <4>3. t \in ToSet(kept)
        BY <1>5, <4>1, <4>2
      <4> DEFINE p == FindIn(online, t)
                 u == Updated(t, p)
      <4>4. u \in ToSet(m) /\ p \in Objs /\ Same(u, t) /\ Same(t, p) /\ u.sigh = p.sigh /\ u.mode = p.mode
        BY <1>8, <1>10, <1>13, <4>3
      <4> HIDE DEF p, u
      <4>5. p = o
        <5>1. Same(p, o)
          BY <4>1, <4>4, SameFacts
        <5>2. PICK i \in DOMAIN objs, j \in DOMAIN objs : objs[i] = p /\ objs[j] = o
          BY <4>4, <1>2, ListElements DEF Objs
        <5> QED
          BY <1>2, <5>1, <5>2 DEF Unique
      <4>6. Same(u, o)
        BY <4>1, <4>4, SameFacts
      <4> QED
        BY <4>4, <4>5, <4>6
    <3> QED
      BY <3>1, <3>2
  <2>2. ASSUME NEW s \in ToSet(m), Class(s) = c PROVE Known(objs, s)
    <3>1. CASE \E o \in ToSet(new) : s = Stored(o)
      BY <1>2, <1>9, <1>12, <3>1, KnownFacts, SameFacts DEF Objs
    <3>2. CASE \E t \in ToSet(kept) : s = Updated(t, FindIn(online, t))
      <4>1. PICK t \in ToSet(kept) : s = Updated(t, FindIn(online, t))
        BY <3>2
      <4>2. Same(FindIn(online, t), s) /\ FindIn(online, t) \in Objs
        BY <1>13, <4>1, SameFacts
      <4> QED
        BY <1>2, <4>2, KnownFacts DEF Objs
    <3> QED
      BY <1>11, <2>2, <3>1, <3>2
  <2> QED
    BY <2>1, <2>2 DEF Synced
<1>18. ASSUME NEW d, d # c, Synced(l, d) PROVE Synced(m, d)
  <2>1. ASSUME NEW o \in Objs, Class(o) = d, o.kind # "region"
        PROVE  \E s \in ToSet(m) : Same(s, o) /\ s.sigh = o.sigh /\ s.mode = o.mode
    <3>1. PICK s \in ToSet(l) : Same(s, o) /\ s.sigh = o.sigh /\ s.mode = o.mode
      BY <1>18, <2>1 DEF Synced
    <3>2. s \in ToSet(m)
      BY <1>6, <1>10, <1>18, <2>1, <3>1, SameFacts
    <3> QED
      BY <3>1, <3>2
  <2>2. ASSUME NEW s \in ToSet(m), Class(s) = d
        PROVE  IF s.kind = "region" THEN FindByAddr(objs, s.owner, s.tag) # {} ELSE Known(objs, s)
    <3>1. s \in ToSet(l)
      BY <1>11, <1>12, <1>13, <1>18, <2>2
    <3> QED
      BY <1>18, <2>2, <3>1 DEF Synced
  <2> QED
    BY <2>1, <2>2 DEF Synced
<1>19. From(l, m)
  BY <1>5, <1>9, <1>11, <1>13 DEF From, Alike
<1> QED
  BY <1>1, <1>16, <1>17, <1>18, <1>19, <1>20

-----------------------------------------------------------------------------
(* The target.                                                             *)

\* A space has its PD session, so the badge a new PD session gets is the owner
\* of no space yet.
Owned(l) ==
  \A o \in ToSet(l) :
    /\ o.kind # "region" => o.badge # 0
    /\ o.kind = "pd" => o.owner = 0
    /\ o.kind = "space" => \E p \in ToSet(l) : p.kind = "pd" /\ p.badge = o.owner

TargetInv ==
  /\ Proper(objs) /\ Owned(objs) /\ created \in Nat
  /\ slots \in [1 .. MaxSlots -> Nat] /\ reply \in Nat
  /\ \A o \in Objs : o.ts <= 10 + created

\* What the bootstrap made.
LEMMA BootFacts ==
  ASSUME NEW d \in Nat
  PROVE  LET b == Bootstrapped(d)
         IN  /\ b \in Seq(Object) /\ Len(b) = 10 /\ Unique(b) /\ Owned(b)
             /\ \A o \in ToSet(b) : /\ Plain(o) /\ o.boot /\ o.ts <= 10 /\ o.kcap = 0
                                    /\ o.sigh = 0 /\ o.mode = 0 /\ o.quota = 0
<1> DEFINE sp == SpaceOf(d + 1)
           boot == << Obj("pd", d + 1, 0, 0, 0), Obj("space", sp, d + 1, DsOf(sp), 0),
                      Obj("cpu", d + 2, 0, 0, 0), Obj("ram", d + 3, 0, 0, 0),
                      Obj("thread", d + 4, d + 2, d + 1, 1),
                      Obj("ramds", d + 5, d + 3, 0, 0), Obj("ramds", d + 6, d + 3, 0, 0),
                      Obj("source", d + 7, d + 1, 0, 0),
                      Obj("region", 0, sp, d + 6, 1), Obj("region", 0, sp, d + 5, 2) >>
           b == [i \in DOMAIN boot |-> [boot[i] EXCEPT !.boot = TRUE, !.ts = i]]
           Plainly(o) == /\ o.ts <= 10 /\ o.boot /\ o.kcap = 0 /\ o.sigh = 0 /\ o.mode = 0
                         /\ o.quota = 0
<1>1. Bootstrapped(d) = b
  BY DEF Bootstrapped
<1>2. sp \in Nat /\ DsOf(sp) \in Nat /\ sp # 0
  BY DEF SpaceOf, DsOf
<1> HIDE DEF sp
<1> DEFINE Mark(o, i) == [o EXCEPT !.boot = TRUE, !.ts = i]
           Is(o, kind, badge, owner, ts) ==
             /\ o \in Object /\ Plainly(o) /\ o.kind = kind /\ o.badge = badge
             /\ o.owner = owner /\ o.ts = ts
<1>3. ASSUME NEW kind \in Kind, NEW badge \in Nat, NEW owner \in Nat, NEW ref \in Nat,
             NEW tag \in Nat, NEW i \in 1 .. 10
      PROVE  Is(Mark(Obj(kind, badge, owner, ref, tag), i), kind, badge, owner, i)
  <2> DEFINE r == Obj(kind, badge, owner, ref, tag)
             o == Mark(r, i)
  <2>1. /\ r \in Object /\ r.kind = kind /\ r.badge = badge /\ r.owner = owner /\ r.tag = tag
        /\ r.kcap = 0 /\ r.sigh = 0 /\ r.mode = 0 /\ r.quota = 0
    BY DEF Obj, Object
  <2>2. i \in Nat /\ i <= 10
    OBVIOUS
  <2> HIDE DEF r
  <2>3. /\ o \in Object /\ o.kind = r.kind /\ o.badge = r.badge /\ o.owner = r.owner
        /\ o.tag = r.tag /\ o.ts = i /\ o.boot = TRUE /\ o.kcap = r.kcap /\ o.sigh = r.sigh
        /\ o.mode = r.mode /\ o.quota = r.quota
    BY <2>1, <2>2 DEF Object
  <2> HIDE DEF o
  <2>4. Is(o, kind, badge, owner, i)
    BY <2>1, <2>2, <2>3
  <2> QED
    BY <2>4 DEF o, r
<1>4. \A i \in DOMAIN boot : b[i] = Mark(boot[i], i)
  BY DEF b
<1>5. DOMAIN b = 1 .. 10 /\ DOMAIN boot = 1 .. 10
  BY DEF b
<1>13. /\ boot[1] = Obj("pd", d + 1, 0, 0, 0) /\ boot[2] = Obj("space", sp, d + 1, DsOf(sp), 0)
      /\ boot[3] = Obj("cpu", d + 2, 0, 0, 0) /\ boot[4] = Obj("ram", d + 3, 0, 0, 0)
      /\ boot[5] = Obj("thread", d + 4, d + 2, d + 1, 1)
      /\ boot[6] = Obj("ramds", d + 5, d + 3, 0, 0) /\ boot[7] = Obj("ramds", d + 6, d + 3, 0, 0)
      /\ boot[8] = Obj("source", d + 7, d + 1, 0, 0)
      /\ boot[9] = Obj("region", 0, sp, d + 6, 1) /\ boot[10] = Obj("region", 0, sp, d + 5, 2)
  OBVIOUS
<1> HIDE DEF b, boot, Mark, Is
<1>6. /\ Is(b[1], "pd", d + 1, 0, 1) /\ Is(b[2], "space", sp, d + 1, 2)
      /\ Is(b[3], "cpu", d + 2, 0, 3) /\ Is(b[4], "ram", d + 3, 0, 4)
      /\ Is(b[5], "thread", d + 4, d + 2, 5)
      /\ Is(b[6], "ramds", d + 5, d + 3, 6) /\ Is(b[7], "ramds", d + 6, d + 3, 7)
      /\ Is(b[8], "source", d + 7, d + 1, 8) /\ Is(b[9], "region", 0, sp, 9)
      /\ Is(b[10], "region", 0, sp, 10)
  <2>1. {"pd", "space", "cpu", "ram", "thread", "ramds", "source", "region"} \subseteq Kind
    BY DEF Kind, SessionKind, MemberKind
  <2>2. /\ 0 \in Nat /\ 1 \in Nat /\ 2 \in Nat /\ d + 1 \in Nat /\ d + 2 \in Nat /\ d + 3 \in Nat
        /\ d + 4 \in Nat /\ d + 5 \in Nat /\ d + 6 \in Nat /\ d + 7 \in Nat
        /\ 1 \in 1 .. 10 /\ 2 \in 1 .. 10 /\ 3 \in 1 .. 10 /\ 4 \in 1 .. 10 /\ 5 \in 1 .. 10
        /\ 6 \in 1 .. 10 /\ 7 \in 1 .. 10 /\ 8 \in 1 .. 10 /\ 9 \in 1 .. 10 /\ 10 \in 1 .. 10
    OBVIOUS
  <2>3. /\ b[1] = Mark(boot[1], 1) /\ b[2] = Mark(boot[2], 2) /\ b[3] = Mark(boot[3], 3)
        /\ b[4] = Mark(boot[4], 4) /\ b[5] = Mark(boot[5], 5) /\ b[6] = Mark(boot[6], 6)
        /\ b[7] = Mark(boot[7], 7) /\ b[8] = Mark(boot[8], 8) /\ b[9] = Mark(boot[9], 9)
        /\ b[10] = Mark(boot[10], 10)
    BY <1>4, <1>5
  <2>4. Is(Mark(Obj("pd", d + 1, 0, 0, 0), 1), "pd", d + 1, 0, 1)
    BY <1>2, <1>3, <2>1, <2>2
  <2>5. Is(Mark(Obj("space", sp, d + 1, DsOf(sp), 0), 2), "space", sp, d + 1, 2)
    BY <1>2, <1>3, <2>1, <2>2
  <2>6. Is(Mark(Obj("cpu", d + 2, 0, 0, 0), 3), "cpu", d + 2, 0, 3)
    BY <1>2, <1>3, <2>1, <2>2
  <2>7. Is(Mark(Obj("ram", d + 3, 0, 0, 0), 4), "ram", d + 3, 0, 4)
    BY <1>2, <1>3, <2>1, <2>2
  <2>8. Is(Mark(Obj("thread", d + 4, d + 2, d + 1, 1), 5), "thread", d + 4, d + 2, 5)
    BY <1>2, <1>3, <2>1, <2>2
  <2>9. Is(Mark(Obj("ramds", d + 5, d + 3, 0, 0), 6), "ramds", d + 5, d + 3, 6)
    BY <1>2, <1>3, <2>1, <2>2
  <2>10. Is(Mark(Obj("ramds", d + 6, d + 3, 0, 0), 7), "ramds", d + 6, d + 3, 7)
    BY <1>2, <1>3, <2>1, <2>2
  <2>11. Is(Mark(Obj("source", d + 7, d + 1, 0, 0), 8), "source", d + 7, d + 1, 8)
    BY <1>2, <1>3, <2>1, <2>2
  <2>12. Is(Mark(Obj("region", 0, sp, d + 6, 1), 9), "region", 0, sp, 9)
    BY <1>2, <1>3, <2>1, <2>2
  <2>13. Is(Mark(Obj("region", 0, sp, d + 5, 2), 10), "region", 0, sp, 10)
    BY <1>2, <1>3, <2>1, <2>2
  <2> QED
    BY <1>13, <2>3, <2>4, <2>5, <2>6, <2>7, <2>8, <2>9, <2>10, <2>11, <2>12, <2>13
<1>7. \A i \in 1 .. 10 : i \in {1, 2, 3, 4, 5, 6, 7, 8, 9, 10}
  OBVIOUS
<1>8. \A i \in 1 .. 10 : b[i] \in Object /\ Plainly(b[i])
  <2> HIDE DEF Plainly
  <2> QED
    BY <1>6, <1>7 DEF Is
<1>9. b \in Seq(Object) /\ Len(b) = 10
  <2>1. b \in [1 .. 10 -> Object]
    BY <1>5, <1>8 DEF b
  <2>2. b \in Seq(Object)
    BY <2>1, SeqDef
  <2> QED
    BY <1>5, <2>2, LenProperties
<1>10. Unique(b)
  <2> SUFFICES ASSUME NEW i \in 1 .. 10, NEW j \in 1 .. 10, Same(b[i], b[j]) PROVE i = j
    BY <1>5 DEF Unique
  <2>1. b[i].kind = b[j].kind /\ Key(b[i]) = Key(b[j])
    BY DEF Same
  <2> HIDE DEF Plainly
  <2> QED
    BY <1>6, <1>7, <2>1 DEF Key, Is
<1>11. Owned(b)
  <2> SUFFICES ASSUME NEW i \in 1 .. 10
               PROVE  /\ b[i].kind # "region" => b[i].badge # 0
                      /\ b[i].kind = "pd" => b[i].owner = 0
                      /\ b[i].kind = "space" => b[1].kind = "pd" /\ b[1].badge = b[i].owner
    <3>1. b[1] \in ToSet(b) /\ \A o \in ToSet(b) : \E i \in 1 .. 10 : o = b[i]
      BY <1>5 DEF ToSet
    <3> QED
      BY <3>1, Zenon DEF Owned
  <2> HIDE DEF Plainly
  <2> QED
    BY <1>2, <1>6, <1>7 DEF Is
<1>12. \A o \in ToSet(b) : Plainly(o) /\ Plain(o)
  BY <1>5, <1>8 DEF ToSet, Plain
<1> QED
  BY <1>1, <1>9, <1>10, <1>11, <1>12

\* The target after its bootstrap.
LEMMA TargetInitially == TargetInit => TargetInv
<1> SUFFICES ASSUME TargetInit PROVE TargetInv
  OBVIOUS
<1> DEFINE b == Bootstrapped(0)
<1>1. /\ b \in Seq(Object) /\ Unique(b) /\ Owned(b)
      /\ \A o \in ToSet(b) : Plain(o) /\ o.ts <= 10
  BY BootFacts
<1>2. objs = Reverse(b) /\ created = 0 /\ reply = 0
  BY DEF TargetInit
<1> HIDE DEF b
<1>3. objs \in Seq(Object) /\ ToSet(objs) = ToSet(b) /\ Unique(objs)
  BY <1>1, <1>2, ReverseFacts, ReverseUnique
<1>4. slots \in [1 .. MaxSlots -> Nat]
  <2>1. \A k \in 1 .. MaxSlots : k <= 4 => BootSlots(0)[k] \in Nat
    <3> TAKE k \in 1 .. MaxSlots
    <3> HAVE k <= 4
    <3>1. k \in {1, 2, 3, 4}
      BY SlotsAssumption
    <3> QED
      BY <3>1 DEF BootSlots
  <2> QED
    BY <2>1 DEF TargetInit
<1> QED
  BY <1>1, <1>2, <1>3, <1>4 DEF TargetInv, Proper, Owned, Objs

-----------------------------------------------------------------------------
(* What a request does.                                                    *)

New(kind, badge, owner, ref, tag, ts) == [Obj(kind, badge, owner, ref, tag) EXCEPT !.ts = ts]

IsNew(o, kind, badge, owner, tag, ts) ==
  /\ o \in Object /\ Plain(o) /\ o.kind = kind /\ o.badge = badge /\ o.owner = owner
  /\ o.tag = tag /\ o.ts = ts

\* A new object.
LEMMA ObjFacts ==
  ASSUME NEW kind \in Kind, NEW badge \in Nat, NEW owner \in Nat, NEW ref \in Nat,
         NEW tag \in Nat, NEW ts \in Nat
  PROVE  IsNew(New(kind, badge, owner, ref, tag, ts), kind, badge, owner, tag, ts)
<1> DEFINE r == Obj(kind, badge, owner, ref, tag)
           o == [r EXCEPT !.ts = ts]
<1>1. /\ r \in Object /\ r.kind = kind /\ r.badge = badge /\ r.owner = owner /\ r.tag = tag
      /\ r.sigh = 0 /\ r.mode = 0
  BY DEF Obj, Object
<1> HIDE DEF r
<1>2. /\ o \in Object /\ o.kind = r.kind /\ o.badge = r.badge /\ o.owner = r.owner
      /\ o.tag = r.tag /\ o.ts = ts /\ o.sigh = r.sigh /\ o.mode = r.mode
  BY <1>1 DEF Object
<1> HIDE DEF o
<1>3. Plain(o)
  BY <1>1, <1>2 DEF Plain
<1> QED
  BY <1>1, <1>2, <1>3 DEF New, IsNew, o, r

\* New objects at the head; nothing stored was made for one of them.
LEMMA MoreObjects ==
  ASSUME TargetInv, Good(stored), NEW new \in Seq(Object), Unique(new),
         objs' = new \o objs, created' = created + 1, UNCHANGED <<stored, slots>>, reply' \in Nat,
         \A o \in ToSet(new) :
           /\ Plain(o) /\ o.ts = 10 + created'
           /\ o.kind # "region" => o.badge # 0
           /\ o.kind = "pd" => o.owner = 0
           /\ o.kind = "space" => \E p \in ToSet(new) : p.kind = "pd" /\ p.badge = o.owner
           /\ \A p \in Objs : ~Same(o, p)
  PROVE  TargetInv' /\ Good(stored)'
<1>1. /\ objs \in Seq(Object) /\ Unique(objs) /\ created \in Nat
      /\ \A o \in Objs : Plain(o) /\ o.ts <= 10 + created /\ o.ts \in Nat
  <2>1. \A o \in Objs : o \in Object
    BY ListElements DEF TargetInv, Proper, Objs
  <2>2. \A o \in Object : o.ts \in Nat
    BY DEF Object
  <2> QED
    BY <2>1, <2>2 DEF TargetInv, Proper, Objs
<1>2. objs' \in Seq(Object) /\ ToSet(objs') = ToSet(new) \cup ToSet(objs)
  BY <1>1, ConcatSet
<1>3. Unique(objs')
  BY <1>1, ConcatUnique DEF Objs
<1>4. \A o \in ToSet(objs') : Plain(o) /\ o.ts <= 10 + created'
  BY <1>1, <1>2 DEF Objs
<1>5. Owned(objs')
  BY <1>2 DEF TargetInv, Owned
<1>6. TargetInv'
  BY <1>1, <1>2, <1>3, <1>4, <1>5 DEF TargetInv, Proper, Objs
<1>7. Good(stored)'
  <2>1. \A s \in ToSet(stored) : s.ts <= 10 + created /\ s.ts \in Nat
    <3>1. \A s \in ToSet(stored) : s \in Object /\ s.ts <= 10 + created
      BY ListElements DEF Good, Proper
    <3>2. \A s \in Object : s.ts \in Nat
      BY DEF Object
    <3> QED
      BY <3>1, <3>2
  <2>2. \A s \in ToSet(stored), o \in ToSet(new) : s.ts # o.ts
    BY <1>1, <2>1
  <2>3. \A s \in ToSet(stored) : s.ts <= 10 + created'
    BY <1>1, <2>1
  <2>4. \A s \in ToSet(stored), o \in Objs' : Same(s, o) /\ s.ts = o.ts => Fixed(s) = Fixed(o)
    BY <1>2, <2>2 DEF Good, Objs
  <2> QED
    BY <2>3, <2>4 DEF Good
<1> QED
  BY <1>6, <1>7

\* A badge that core gives out belongs to nothing that has one.
LEMMA BadgeFacts ==
  ASSUME TargetInv, NEW b \in FreeBadge
  PROVE  /\ b \in Nat /\ b # 0 /\ \A o \in Objs : o.kind # "region" => o.badge # b
<1>1. ~Has(objs, b) /\ b \in {NthBadge(n) : n \in 11 .. 11 + created} /\ created \in Nat
  BY DEF FreeBadge, TargetInv
<1>2. b \in Nat /\ b # 0
  BY <1>1 DEF NthBadge
<1> QED
  BY <1>1, <1>2 DEF Has, Objs, ToSet

\* One new object that answers with its capability.
LEMMA OpenOne ==
  ASSUME TargetInv, Good(stored), UNCHANGED stored,
         NEW kind \in Kind \ {"pd", "space", "region"}, NEW b \in FreeBadge,
         NEW owner \in Nat, NEW ref \in Nat, NEW tag \in Nat,
         Insert(<<Obj(kind, b, owner, ref, tag)>>)
  PROVE  TargetInv' /\ Good(stored)'
<1> DEFINE n == 10 + created'
           o == New(kind, b, owner, ref, tag, n)
           new == <<o>>
<1>1. /\ created' = created + 1 /\ objs' = new \o objs /\ slots' = slots
      /\ reply' = Obj(kind, b, owner, ref, tag).badge
  BY DEF Insert, New
<1>2. b \in Nat /\ b # 0 /\ \A p \in Objs : p.kind # "region" => p.badge # b
  BY BadgeFacts
<1>3. n \in Nat /\ reply' = b
  BY <1>1 DEF TargetInv, Obj
<1>4. /\ o \in Object /\ Plain(o) /\ o.kind = kind /\ o.badge = b /\ o.owner = owner /\ o.ts = n
  <2> HIDE DEF n
  <2>1. IsNew(o, kind, b, owner, tag, n)
    BY <1>2, <1>3, ObjFacts
  <2> HIDE DEF o
  <2> QED
    BY <2>1 DEF IsNew
<1> HIDE DEF o
<1>5. new \in Seq(Object) /\ ToSet(new) = {o} /\ Unique(new)
  BY <1>4 DEF ToSet, Unique
<1>6. \A p \in Objs : ~Same(o, p)
  BY <1>2, <1>4 DEF Same, Key
<1> HIDE DEF new
<1> QED
  BY <1>1, <1>2, <1>3, <1>4, <1>5, <1>6, MoreObjects

\* A new PD session and its address space.
LEMMA OpenPd ==
  ASSUME TargetInv, Good(stored), UNCHANGED stored, NEW b \in FreeBadge,
         Insert(<<Obj("pd", b, 0, 0, 0), Obj("space", SpaceOf(b), b, DsOf(SpaceOf(b)), 0)>>)
  PROVE  TargetInv' /\ Good(stored)'
<1> DEFINE n == 10 + created'
           s == SpaceOf(b)
           x == Obj("pd", b, 0, 0, 0)
           y == Obj("space", s, b, DsOf(s), 0)
           o == New("pd", b, 0, 0, 0, n)
           p == New("space", s, b, DsOf(s), 0, n)
           both == <<x, y>>
           new == <<o, p>>
<1>1. /\ created' = created + 1 /\ slots' = slots /\ reply' = b
      /\ objs' = [i \in DOMAIN both |-> [both[i] EXCEPT !.ts = n]] \o objs
  BY DEF Insert, Obj
<1>2. /\ b \in Nat /\ b # 0 /\ \A q \in Objs : q.kind # "region" => q.badge # b
      /\ s \in Nat /\ s # 0 /\ DsOf(s) \in Nat
  BY BadgeFacts DEF SpaceOf, DsOf
<1>3. n \in Nat
  BY <1>1 DEF TargetInv
<1> HIDE DEF n, s
<1>4. /\ o \in Object /\ Plain(o) /\ o.kind = "pd" /\ o.badge = b /\ o.owner = 0 /\ o.ts = n
      /\ p \in Object /\ Plain(p) /\ p.kind = "space" /\ p.badge = s /\ p.owner = b /\ p.ts = n
  <2>1. "pd" \in Kind /\ "space" \in Kind /\ 0 \in Nat
    BY DEF Kind, SessionKind, MemberKind
  <2>2. IsNew(o, "pd", b, 0, 0, n)
    BY <1>2, <1>3, <2>1, ObjFacts
  <2>3. IsNew(p, "space", s, b, 0, n)
    <3> DEFINE d == DsOf(s)
    <3>1. d \in Nat
      BY <1>2
    <3> HIDE DEF d
    <3>2. IsNew(New("space", s, b, d, 0, n), "space", s, b, 0, n)
      BY <1>2, <1>3, <2>1, <3>1, ObjFacts
    <3> QED
      BY <3>2 DEF d
  <2> HIDE DEF o, p
  <2> QED
    BY <2>2, <2>3 DEF IsNew
<1>5. objs' = new \o objs
  <2>1. o = [x EXCEPT !.ts = n] /\ p = [y EXCEPT !.ts = n]
    BY DEF New
  <2> HIDE DEF x, y, o, p
  <2>2. [i \in DOMAIN both |-> [both[i] EXCEPT !.ts = n]] = new
    BY <2>1
  <2> QED
    BY <1>1, <2>2
<1> HIDE DEF o, p
<1>6. new \in Seq(Object) /\ ToSet(new) = {o, p} /\ Unique(new)
  <2>1. new \in Seq(Object) /\ DOMAIN new = {1, 2} /\ new[1] = o /\ new[2] = p
    BY <1>4
  <2>2. ToSet(new) = {o, p}
    BY <2>1 DEF ToSet
  <2>3. ~Same(o, p) /\ ~Same(p, o)
    BY <1>4 DEF Same
  <2> QED
    BY <2>1, <2>2, <2>3 DEF Unique
<1>7. \A q \in Objs : ~Same(o, q)
  BY <1>2, <1>4 DEF Same, Key
<1>8. \A q \in Objs : ~Same(p, q)
  <2> SUFFICES ASSUME NEW q \in Objs, Same(p, q) PROVE FALSE
    OBVIOUS
  <2>1. q.kind = "space" /\ q.owner = b
    BY <1>4 DEF Same
  <2>2. PICK r \in Objs : r.kind = "pd" /\ r.badge = b
    BY <2>1 DEF TargetInv, Owned, Objs
  <2> QED
    BY <1>2, <2>2
<1> HIDE DEF new
<1> QED
  BY <1>1, <1>2, <1>3, <1>4, <1>5, <1>6, <1>7, <1>8, MoreObjects DEF n

\* A new region.
LEMMA AttachKept ==
  ASSUME TargetInv, Good(stored), UNCHANGED stored, NEW map \in Objs, NEW ds \in Nat,
         NEW addr \in Nat, Attach(map, ds, addr)
  PROVE  TargetInv' /\ Good(stored)'
<1> DEFINE n == 10 + created'
           o == New("region", 0, map.badge, ds, addr, n)
           new == <<o>>
<1>1. /\ created' = created + 1 /\ slots' = slots /\ reply' = reply /\ objs' = new \o objs
  BY DEF Attach, Cons, New
<1>2. n \in Nat /\ reply' \in Nat
  BY <1>1 DEF TargetInv
<1>3. map.badge \in Nat /\ "region" \in Kind /\ 0 \in Nat
  <2>1. map \in Object
    BY ListElements DEF TargetInv, Proper, Objs
  <2>2. "region" \in Kind /\ 0 \in Nat
    BY DEF Kind, MemberKind
  <2> QED
    BY <2>1, <2>2 DEF Object
<1>4. /\ o \in Object /\ Plain(o) /\ o.kind = "region" /\ o.owner = map.badge /\ o.tag = addr
      /\ o.ts = n
  <2> DEFINE badge == map.badge
  <2> HIDE DEF n, badge
  <2>1. IsNew(New("region", 0, badge, ds, addr, n), "region", 0, badge, addr, n)
    BY <1>2, <1>3, ObjFacts DEF badge
  <2>2. IsNew(o, "region", 0, map.badge, addr, n)
    BY <2>1 DEF badge
  <2> HIDE DEF o
  <2> QED
    BY <2>2 DEF IsNew
<1> HIDE DEF o
<1>5. new \in Seq(Object) /\ ToSet(new) = {o} /\ Unique(new)
  BY <1>4 DEF ToSet, Unique
<1>6. \A p \in Objs : ~Same(o, p)
  <2> SUFFICES ASSUME NEW p \in Objs, Same(o, p) PROVE FALSE
    OBVIOUS
  <2>1. p.kind = "region" /\ o.ts = p.ts
    BY <1>4 DEF Same, Key
  <2>2. p.ts <= 10 + created /\ created \in Nat
    BY DEF TargetInv
  <2>3. o.ts = 10 + (created + 1)
    BY <1>1, <1>4
  <2> QED
    BY <2>1, <2>2, <2>3
<1> HIDE DEF new
<1> QED
  BY <1>1, <1>2, <1>4, <1>5, <1>6, MoreObjects

\* A PD session does not leave without its space.
LEMMA WithdrawKept ==
  ASSUME TargetInv, Good(stored), UNCHANGED stored, NEW gone, Withdraw(gone),
         \A p \in Objs \cap gone, o \in Objs :
           p.kind = "pd" /\ o.kind = "space" /\ o.owner = p.badge => o \in gone
  PROVE  TargetInv' /\ Good(stored)'
<1>1. /\ objs' = Only(objs, Objs \ gone) /\ UNCHANGED <<reply, created>>
      /\ slots' = [k \in DOMAIN slots |->
                    IF \E o \in gone : o.kind # "region" /\ o.badge = slots[k] THEN 0 ELSE slots[k]]
  BY DEF Withdraw
<1>2. objs \in Seq(Object) /\ Unique(objs)
  BY DEF TargetInv, Proper
<1>3. objs' \in Seq(Object) /\ ToSet(objs') = Objs \ gone /\ Unique(objs')
  <2>1. ToSet(objs') = ToSet(objs) \cap (Objs \ gone) /\ objs' \in Seq(Object) /\ Unique(objs')
    BY <1>1, <1>2, OnlyFacts
  <2> QED
    BY <2>1 DEF Objs
<1>4. slots' \in [1 .. MaxSlots -> Nat]
  <2>1. slots \in [1 .. MaxSlots -> Nat]
    BY DEF TargetInv
  <2> QED
    BY <1>1, <2>1
<1>5. Owned(objs')
  BY <1>3 DEF TargetInv, Owned, Objs
<1>6. TargetInv'
  BY <1>1, <1>3, <1>4, <1>5 DEF TargetInv, Proper, Objs
<1>7. Good(stored)'
  BY <1>1, <1>3 DEF Good, Objs
<1> QED
  BY <1>6, <1>7

\* An object that is changed stays the same object.
LEMMA UpdateKept ==
  ASSUME TargetInv, Good(stored), UNCHANGED stored, NEW o \in Objs, NEW new \in Object,
         Fixed(new) = Fixed(o), Plain(new), Update(o, new)
  PROVE  TargetInv' /\ Good(stored)'
<1>1. /\ objs' = [i \in DOMAIN objs |-> IF objs[i] = o THEN new ELSE objs[i]]
      /\ UNCHANGED <<slots, reply, created>>
  BY DEF Update, Changed
<1>2. /\ objs \in Seq(Object) /\ Unique(objs) /\ Len(objs) \in Nat /\ DOMAIN objs = 1 .. Len(objs)
      /\ \A i \in DOMAIN objs : objs[i] \in Object /\ objs[i] \in Objs
  BY ListElements DEF TargetInv, Proper, Objs
<1>3. objs' \in Seq(Object) /\ DOMAIN objs' = DOMAIN objs
  <2>1. objs' \in [1 .. Len(objs) -> Object]
    BY <1>1, <1>2
  <2> QED
    BY <1>2, <2>1, SeqDef
<1>4. \A i \in DOMAIN objs : /\ Fixed(objs'[i]) = Fixed(objs[i]) /\ Plain(objs'[i])
  BY <1>1, <1>2 DEF TargetInv, Proper, Objs
<1>5. \A p, q : Fixed(p) = Fixed(q) => /\ Same(p, q) /\ p.kind = q.kind /\ p.badge = q.badge
                                       /\ p.owner = q.owner /\ p.ts = q.ts
  BY DEF Fixed, Same, Key
<1>6. Unique(objs')
  BY <1>2, <1>3, <1>4, <1>5, MapUnique
<1>7. /\ \A p \in Objs' : \E q \in Objs : Fixed(p) = Fixed(q) /\ Plain(p)
      /\ \A q \in Objs : \E p \in Objs' : Fixed(p) = Fixed(q)
  BY <1>3, <1>4 DEF Objs, ToSet
<1>8. Owned(objs')
  <2> SUFFICES ASSUME NEW p \in Objs'
               PROVE  /\ p.kind # "region" => p.badge # 0
                      /\ p.kind = "pd" => p.owner = 0
                      /\ p.kind = "space" => \E q \in Objs' : q.kind = "pd" /\ q.badge = p.owner
    BY DEF Owned, Objs
  <2>1. PICK q \in Objs : Fixed(p) = Fixed(q)
    BY <1>7
  <2>2. p.kind = q.kind /\ p.badge = q.badge /\ p.owner = q.owner
    BY <1>5, <2>1
  <2>3. /\ q.kind # "region" => q.badge # 0
        /\ q.kind = "pd" => q.owner = 0
        /\ q.kind = "space" => \E r \in Objs : r.kind = "pd" /\ r.badge = q.owner
    BY DEF TargetInv, Owned, Objs
  <2>4. ASSUME p.kind = "space" PROVE \E r \in Objs' : r.kind = "pd" /\ r.badge = p.owner
    <3>1. PICK r \in Objs : r.kind = "pd" /\ r.badge = q.owner
      BY <2>2, <2>3, <2>4
    <3>2. PICK t \in Objs' : Fixed(t) = Fixed(r)
      BY <1>7
    <3> QED
      BY <1>5, <2>2, <3>1, <3>2
  <2> QED
    BY <2>2, <2>3, <2>4
<1>9. TargetInv'
  BY <1>1, <1>3, <1>5, <1>6, <1>7, <1>8 DEF TargetInv, Proper, Objs
<1>10. Good(stored)'
  <2>1. ASSUME NEW s \in ToSet(stored), NEW p \in Objs', Same(s, p), s.ts = p.ts
        PROVE  Fixed(s) = Fixed(p)
    <3>1. PICK q \in Objs : Fixed(p) = Fixed(q)
      BY <1>7
    <3>2. Same(s, q) /\ s.ts = q.ts
      BY <1>5, <2>1, <3>1, SameFacts
    <3> QED
      BY <3>1, <3>2 DEF Good
  <2> QED
    BY <1>1, <2>1 DEF Good
<1> QED
  BY <1>9, <1>10

\* The fields of the objects of the target.
LEMMA ObjectFacts ==
  ASSUME TargetInv
  PROVE  \A o \in Objs : /\ o \in Object /\ Plain(o) /\ o.kind \in Kind /\ o.badge \in Nat
                         /\ o.ref \in Nat /\ o.sigh \in Nat /\ o.quota \in Nat
                         /\ o.kind # "region" => o.badge # 0
                         /\ o.kind = "pd" => o.owner = 0
<1>1. \A o \in Objs : /\ o \in Object /\ Plain(o)
                      /\ o.kind # "region" => o.badge # 0
                      /\ o.kind = "pd" => o.owner = 0
  BY ListElements DEF TargetInv, Proper, Owned, Objs
<1>2. \A o \in Object : /\ o.kind \in Kind /\ o.badge \in Nat
                         /\ o.ref \in Nat /\ o.sigh \in Nat /\ o.quota \in Nat
  BY DEF Object
<1> QED
  BY <1>1, <1>2

\* All that answers with a capability.
LEMMA OpenKept ==
  ASSUME TargetInv, Good(stored), UNCHANGED stored,
         \/ \E kind \in SessionKind \ {"pd"} : OpenSession(kind)
         \/ OpenPdSession
         \/ \E pd \in Of("pd") :
              \/ AllocSignalSource(pd)
              \/ \E source \in Of("source") : AllocContext(pd, source)
              \/ \E ep \in Of("thread") : AllocRpcCap(pd, ep)
              \/ \E cpu \in Of("cpu"), name \in {1, 2} : CreateThread(cpu, pd, name)
         \/ \E ram \in Of("ram") : AllocRam(ram)
         \/ \E rm \in Of("rm") : CreateMap(rm)
  PROVE  TargetInv' /\ Good(stored)'
<1>1. \A o \in Objs : o.badge \in Nat
  BY ObjectFacts
<1>2. 0 \in Nat /\ 1 \in Nat /\ 2 \in Nat
  OBVIOUS
<1>3. \A b \in FreeBadge : DsOf(b) \in Nat
  BY BadgeFacts DEF DsOf
<1>4. /\ SessionKind \ {"pd"} \subseteq Kind \ {"pd", "space", "region"}
      /\ {"source", "context", "native", "ramds", "map", "thread"}
           \subseteq Kind \ {"pd", "space", "region"}
  BY DEF Kind, SessionKind, MemberKind
<1>5. ASSUME NEW kind \in Kind \ {"pd", "space", "region"}, NEW owner \in Nat, NEW ref \in Nat,
             NEW tag \in Nat, \E b \in FreeBadge : Insert(<<Obj(kind, b, owner, ref, tag)>>)
      PROVE  TargetInv' /\ Good(stored)'
  <2>1. PICK b \in FreeBadge : Insert(<<Obj(kind, b, owner, ref, tag)>>)
    BY <1>5
  <2> QED
    BY <2>1, OpenOne
<1>6. CASE \E kind \in SessionKind \ {"pd"} : OpenSession(kind)
  <2>1. PICK kind \in SessionKind \ {"pd"} : \E b \in FreeBadge : Insert(<<Obj(kind, b, 0, 0, 0)>>)
    BY <1>6 DEF OpenSession
  <2> QED
    BY <1>2, <1>4, <1>5, <2>1
<1>7. CASE OpenPdSession
  <2>1. PICK b \in FreeBadge :
          Insert(<<Obj("pd", b, 0, 0, 0), Obj("space", SpaceOf(b), b, DsOf(SpaceOf(b)), 0)>>)
    BY <1>7 DEF OpenPdSession
  <2> QED
    BY <2>1, OpenPd
<1>8. ASSUME NEW pd \in Of("pd"),
             \/ AllocSignalSource(pd)
             \/ \E source \in Of("source") : AllocContext(pd, source)
             \/ \E ep \in Of("thread") : AllocRpcCap(pd, ep)
             \/ \E cpu \in Of("cpu"), name \in {1, 2} : CreateThread(cpu, pd, name)
      PROVE  TargetInv' /\ Good(stored)'
  <2>1. pd.badge \in Nat
    BY <1>1 DEF Of
  <2>2. CASE AllocSignalSource(pd)
    BY <1>2, <1>4, <1>5, <2>1, <2>2 DEF AllocSignalSource
  <2>3. CASE \E source \in Of("source") : AllocContext(pd, source)
    <3>1. PICK source \in Of("source") : AllocContext(pd, source)
      BY <2>3
    <3>2. source.badge \in Nat
      BY <1>1 DEF Of
    <3> QED
      BY <1>2, <1>4, <1>5, <2>1, <3>1, <3>2 DEF AllocContext
  <2>4. CASE \E ep \in Of("thread") : AllocRpcCap(pd, ep)
    <3>1. PICK ep \in Of("thread") : AllocRpcCap(pd, ep)
      BY <2>4
    <3>2. ep.badge \in Nat
      BY <1>1 DEF Of
    <3> QED
      BY <1>2, <1>4, <1>5, <2>1, <3>1, <3>2 DEF AllocRpcCap
  <2>5. CASE \E cpu \in Of("cpu"), name \in {1, 2} : CreateThread(cpu, pd, name)
    <3>1. PICK cpu \in Of("cpu"), name \in {1, 2} : CreateThread(cpu, pd, name)
      BY <2>5
    <3>2. cpu.badge \in Nat /\ name \in Nat
      BY <1>1, <1>2 DEF Of
    <3> QED
      BY <1>2, <1>4, <1>5, <2>1, <3>1, <3>2 DEF CreateThread
  <2> QED
    BY <1>8, <2>2, <2>3, <2>4, <2>5
<1>9. ASSUME NEW ram \in Of("ram"), AllocRam(ram) PROVE TargetInv' /\ Good(stored)'
  <2>1. ram.badge \in Nat
    BY <1>1 DEF Of
  <2> QED
    BY <1>2, <1>4, <1>5, <1>9, <2>1 DEF AllocRam
<1>10. ASSUME NEW rm \in Of("rm"), CreateMap(rm) PROVE TargetInv' /\ Good(stored)'
  <2>1. rm.badge \in Nat
    BY <1>1 DEF Of
  <2>2. PICK b \in FreeBadge : Insert(<<Obj("map", b, rm.badge, DsOf(b), 0)>>)
    BY <1>10 DEF CreateMap
  <2> DEFINE d == DsOf(b)
  <2>3. d \in Nat
    BY <1>3
  <2>4. Insert(<<Obj("map", b, rm.badge, d, 0)>>)
    BY <2>2
  <2> HIDE DEF d
  <2> QED
    BY <1>2, <1>4, <2>1, <2>3, <2>4, OpenOne
<1> QED
  BY <1>6, <1>7, <1>8, <1>9, <1>10

\* A session that is closed leaves with all it holds.
LEMMA CloseKept ==
  ASSUME TargetInv, Good(stored), UNCHANGED stored, NEW kind \in SessionKind,
         NEW o \in Objs, CloseSession(kind, o)
  PROVE  TargetInv' /\ Good(stored)'
<1> DEFINE gone == {o} \cup Members(o)
<1>1. Withdraw(gone) /\ kind = o.kind
  BY DEF CloseSession
<1>2. ASSUME NEW p \in Objs \cap gone, NEW s \in Objs,
             p.kind = "pd", s.kind = "space", s.owner = p.badge
      PROVE  s \in gone
  <2>1. p.owner = 0
    BY <1>2, ObjectFacts
  <2>2. CASE p = o
    BY <1>2, <2>2 DEF Members
  <2>3. CASE p \in Members(o)
    <3>1. \A m \in Objs : IsMap(m) => m.badge # 0
      BY ObjectFacts DEF IsMap
    <3>2. o.badge = 0
      BY <2>1, <2>3, <3>1 DEF Members
    <3>3. o.kind # "region"
      BY DEF CloseSession, SessionKind
    <3> QED
      BY <3>2, <3>3, ObjectFacts
  <2> QED
    BY <2>2, <2>3
<1> HIDE DEF gone
<1> QED
  BY <1>1, <1>2, WithdrawKept

\* What is freed.
LEMMA OtherGoneKept ==
  ASSUME TargetInv, Good(stored), UNCHANGED stored, NEW o \in Objs,
         FreeSignalSource(o) \/ FreeContext(o) \/ FreeRpcCap(o) \/ FreeRam(o)
  PROVE  TargetInv' /\ Good(stored)'
<1> DEFINE gone == {o}
<1>1. Withdraw(gone) /\ o.kind # "pd"
  BY DEF FreeSignalSource, FreeContext, FreeRpcCap, FreeCap, FreeRam
<1> HIDE DEF gone
<1>2. \A p \in Objs \cap gone : p.kind # "pd"
  BY <1>1 DEF gone
<1> QED
  BY <1>1, <1>2, WithdrawKept

\* The region that is found at a detached address goes.
LEMMA DetachKept ==
  ASSUME TargetInv, Good(stored), UNCHANGED stored, NEW map, NEW addr, Detach(map, addr)
  PROVE  TargetInv' /\ Good(stored)'
<1> DEFINE gone == FindByAddr(objs, map.badge, addr)
<1>1. Withdraw(gone)
  BY DEF Detach
<1>2. objs \in Seq(Object)
  BY DEF TargetInv, Proper
<1>3. \A p \in gone : p.kind = "region"
  BY <1>2, FindByAddrFacts
<1> HIDE DEF gone
<1> QED
  BY <1>1, <1>3, WithdrawKept

\* An object gets another handler, mode or quota.
LEMMA ChangeKept ==
  ASSUME TargetInv, Good(stored), UNCHANGED stored, NEW o \in Objs, NEW sigh \in Nat, NEW mode \in Nat,
         NEW quota \in Nat, NEW new, Update(o, new),
         \/ new = [o EXCEPT !.sigh = sigh] /\ IsSignalling(o)
         \/ new = [o EXCEPT !.mode = mode] /\ o.kind \in {"thread", "timer"}
         \/ new = [o EXCEPT !.quota = quota]
  PROVE  TargetInv' /\ Good(stored)'
<1>1. o \in Object /\ Plain(o)
  BY ObjectFacts
<1>2. /\ new \in Object /\ new.kind = o.kind /\ new.badge = o.badge /\ new.owner = o.owner
      /\ new.ref = o.ref /\ new.tag = o.tag /\ new.ts = o.ts /\ new.boot = o.boot
      /\ new.sigh = o.sigh \/ IsSignalling(o)
      /\ new.mode = o.mode \/ o.kind \in {"thread", "timer"}
  BY <1>1 DEF Object
<1>3. Fixed(new) = Fixed(o)
  BY <1>2 DEF Fixed
<1>4. Plain(new)
  BY <1>1, <1>2 DEF Plain, IsSignalling
<1> QED
  BY <1>2, <1>3, <1>4, UpdateKept

\* Any request of the target.
LEMMA RequestKept ==
  ASSUME TargetInv, Good(stored), UNCHANGED stored, TargetRequest
  PROVE  TargetInv' /\ Good(stored)'
<1>1. \A o \in Objs : o.badge \in Nat /\ o.ref \in Nat /\ o.quota \in Nat
  BY ObjectFacts
<1>2. 0 \in Nat /\ 1 \in Nat /\ 2 \in Nat /\ 3 \in Nat /\ ForeignDs \in Nat
  BY DEF ForeignDs
<1>3. CASE \/ OpenRamSession \/ OpenCpuSession \/ OpenRmSession \/ OpenLogSession \/ OpenTimerSession
           \/ OpenPdSession
  <2>1. {"ram", "cpu", "rm", "log", "timer"} \subseteq SessionKind \ {"pd"}
    BY DEF SessionKind
  <2> QED
    BY <1>3, <2>1, OpenKept DEF OpenRamSession, OpenCpuSession, OpenRmSession, OpenLogSession,
       OpenTimerSession
<1>4. ASSUME NEW o \in Objs,
             \/ ClosePdSession(o) \/ CloseRamSession(o) \/ CloseCpuSession(o)
             \/ CloseRmSession(o) \/ CloseLogSession(o) \/ CloseTimerSession(o)
      PROVE  TargetInv' /\ Good(stored)'
  BY <1>4, CloseKept DEF SessionKind, ClosePdSession, CloseRamSession, CloseCpuSession, CloseRmSession,
     CloseLogSession, CloseTimerSession
<1>5. ASSUME NEW o \in Objs,
             \/ UpgradePdSession(o) \/ UpgradeRamSession(o) \/ UpgradeCpuSession(o)
             \/ UpgradeRmSession(o) \/ UpgradeLogSession(o) \/ UpgradeTimerSession(o)
      PROVE  TargetInv' /\ Good(stored)'
  <2>1. Update(o, [o EXCEPT !.quota = o.quota + 1])
    BY <1>5 DEF UpgradePdSession, UpgradeRamSession, UpgradeCpuSession, UpgradeRmSession,
       UpgradeLogSession, UpgradeTimerSession, UpgradeSession
  <2>2. o.quota + 1 \in Nat
    BY <1>1
  <2> QED
    BY <1>2, <2>1, <2>2, ChangeKept
<1>6. ASSUME NEW o \in Objs,
             \/ FreeSignalSource(o) \/ FreeContext(o) \/ FreeRpcCap(o) \/ FreeRam(o)
             \/ \E addr \in {2, 3} : Detach(o, addr)
      PROVE  TargetInv' /\ Good(stored)'
  BY <1>6, OtherGoneKept, DetachKept
<1>7. ASSUME NEW o \in Objs, NEW c \in Of("context"),
             FaultHandler(o, c) \/ CpuExceptionSigh(o, c) \/ ThreadExceptionSigh(o, c) \/ TimerSigh(o, c)
      PROVE  TargetInv' /\ Good(stored)'
  <2>1. c.badge \in Nat
    BY <1>1 DEF Of
  <2>2. IsSignalling(o) /\ Update(o, [o EXCEPT !.sigh = c.badge])
    BY <1>7 DEF FaultHandler, CpuExceptionSigh, ThreadExceptionSigh, TimerSigh, SetSigh, IsMap,
       IsSignalling
  <2> QED
    BY <1>2, <2>1, <2>2, ChangeKept
<1>8. ASSUME NEW o \in Objs, NEW enabled \in BOOLEAN,
             TriggerOnce(o) \/ TriggerPeriodic(o) \/ SingleStep(o, enabled)
      PROVE  TargetInv' /\ Good(stored)'
  <2>1. PICK mode \in {0, 1, 2} : o.kind \in {"thread", "timer"} /\ Update(o, [o EXCEPT !.mode = mode])
    BY <1>8 DEF TriggerOnce, TriggerPeriodic, SingleStep, SetMode
  <2>2. mode \in Nat
    OBVIOUS
  <2> QED
    BY <1>2, <2>1, <2>2, ChangeKept
<1>9. ASSUME NEW o \in Objs, NEW ds \in Dataspaces, NEW addr \in {2, 3}, Attach(o, ds, addr)
      PROVE  TargetInv' /\ Good(stored)'
  <2>1. ds \in Nat /\ addr \in Nat
    BY <1>1, <1>2 DEF Dataspaces, Of
  <2> QED
    BY <1>9, <2>1, AttachKept
<1>10. CASE Receive
  <2>1. UNCHANGED <<objs, created>> /\ reply' = 0
    BY <1>10 DEF Receive
  <2>2. slots' \in [1 .. MaxSlots -> Nat]
    BY <1>10 DEF Receive, TargetInv
  <2>3. Good(stored)'
    BY <2>1 DEF Good, Objs
  <2> QED
    BY <1>2, <2>1, <2>2, <2>3 DEF TargetInv, Objs
<1>11. \/ SessionRequest
       \/ \E o \in Objs :
            \/ FreeSignalSource(o) \/ FreeContext(o) \/ FreeRpcCap(o) \/ FreeRam(o)
            \/ \E addr \in {2, 3} : Detach(o, addr)
            \/ \E c \in Of("context") :
                 \/ FaultHandler(o, c) \/ CpuExceptionSigh(o, c)
                 \/ ThreadExceptionSigh(o, c) \/ TimerSigh(o, c)
            \/ \E enabled \in BOOLEAN : TriggerOnce(o) \/ TriggerPeriodic(o) \/ SingleStep(o, enabled)
            \/ \E ds \in Dataspaces, addr \in {2, 3} : Attach(o, ds, addr)
       \/ \E pd \in Of("pd") :
            \/ AllocSignalSource(pd)
            \/ \E source \in Of("source") : AllocContext(pd, source)
            \/ \E ep \in Of("thread") : AllocRpcCap(pd, ep)
            \/ \E cpu \in Of("cpu"), name \in {1, 2} : CreateThread(cpu, pd, name)
       \/ \E ram \in Of("ram") : AllocRam(ram)
       \/ \E rm \in Of("rm") : CreateMap(rm)
       \/ Receive
  BY DEF TargetRequest
<1>12. CASE SessionRequest
  BY <1>3, <1>4, <1>5, <1>12 DEF SessionRequest
<1> QED
  BY <1>6, <1>7, <1>8, <1>9, <1>10, <1>11, <1>12, OpenKept

-----------------------------------------------------------------------------
(* A checkpoint.                                                           *)

\* The classes of objects that are done when the checkpointer gets there.
Done(pc) ==
  CASE pc = "pd"    -> {"ram", "ramds"}
    [] pc = "cpu"   -> {"ram", "ramds", "pd", "native", "source", "context", "space", "inner"}
    [] pc = "rm"    -> {"ram", "ramds", "pd", "native", "source", "context", "space", "inner",
                        "cpu", "thread"}
    [] pc = "log"   -> {"ram", "ramds", "pd", "native", "source", "context", "space", "inner",
                        "cpu", "thread", "rm", "map", "outer"}
    [] pc = "timer" -> {"ram", "ramds", "pd", "native", "source", "context", "space", "inner",
                        "cpu", "thread", "rm", "map", "outer", "log"}
    [] pc = "taken" -> (Kind \ {"region"}) \cup {"inner", "outer"}
    [] OTHER        -> {}

StoredInv ==
  /\ Good(stored)
  /\ ckPc \in {"running", "ram", "pd", "cpu", "rm", "log", "timer", "taken", "dead"}
  /\ \A c \in Done(ckPc) : Synced(stored, c)

\* Classes brought up to date on the way from list l to list m.
Brought(l, m, classes) ==
  /\ Good(m) /\ (\A c \in classes : Synced(m, c)) /\ \A c : Synced(l, c) => Synced(m, c)
  /\ From(l, m)
  /\ "inner" \notin classes /\ "outer" \notin classes => SameRegions(l, m)

\* One call of the checkpointer after another.
LEMMA BroughtBoth ==
  ASSUME NEW l, NEW m, NEW n, NEW cs, NEW ds, Brought(l, m, cs), Brought(m, n, ds)
  PROVE  Brought(l, n, cs \cup ds)
BY DEF Brought, From, Alike, SameRegions

\* One list, of objects that have a capability.
LEMMA KindBrought ==
  ASSUME TargetInv, NEW l, Good(l), NEW kind \in Kind \ {"region"}
  PROVE  Brought(l, OfKind(l, kind), {kind})
<1> DEFINE class == {o \in Objs \cup ToSet(l) : o.kind = kind}
<1>1. \A o \in Objs \cup ToSet(l) : o \in class <=> Class(o) = kind
  <2>1. kind # "inner" /\ kind # "outer"
    BY DEF Kind, SessionKind, MemberKind
  <2> QED
    BY <2>1 DEF Class
<1>2. OfKind(l, kind) = Mirrored(l, class)
  BY DEF OfKind
<1>3. Proper(objs) /\ slots \in [1 .. MaxSlots -> Nat] /\ \A o \in Objs : o.ts <= 10 + created
  BY DEF TargetInv
<1> HIDE DEF class
<1>4. /\ Good(Mirrored(l, class)) /\ Synced(Mirrored(l, class), kind)
      /\ \A d : d # kind /\ Synced(l, d) => Synced(Mirrored(l, class), d)
      /\ From(l, Mirrored(l, class)) /\ SameRegions(l, Mirrored(l, class))
  <2>1. \A o : Class(o) = kind => o.kind # "region"
    BY DEF Class, Kind, SessionKind, MemberKind
  <2> QED
    BY <1>1, <1>3, <2>1, MirrorStep
<1> QED
  BY <1>2, <1>4 DEF Brought

\* The first loop treats the target's regions one by one.
LEMMA AddedRounds ==
  ASSUME TargetInv, NEW l \in Seq(Object), NEW online \in Seq(Object),
         \A o \in ToSet(online) : o \in Objs
  PROVE  \E added :
           /\ added[0] = l /\ RegionsAdded(l, online) = added[Len(online)]
           /\ \A n \in 0 .. Len(online) - 1 :
                added[n + 1] = IF FindByAddr(added[n], online[n + 1].owner, online[n + 1].tag) = {}
                                 THEN Cons(Stored(online[n + 1]), added[n]) ELSE added[n]
<1> DEFINE N == Len(online)
           A == Seq(Object)
           Next1(n, m) == IF FindByAddr(m, online[n].owner, online[n].tag) = {}
                            THEN Cons(Stored(online[n]), m) ELSE m
           step == [n \in 1 .. N |-> [m \in A |-> Next1(n, m)]]
           added == CHOOSE f : f = [n \in 0 .. N |->
                      IF n = 0 THEN l
                      ELSE IF FindByAddr(f[n - 1], online[n].owner, online[n].tag) = {}
                             THEN Cons(Stored(online[n]), f[n - 1])
                             ELSE f[n - 1]]
<1>1. N \in Nat /\ DOMAIN online = 1 .. N /\ l \in A
      /\ \A n \in 1 .. N : online[n] \in Objs
  BY ListElements
<1>2. step \in [1 .. N -> [A -> A]]
  <2>1. ASSUME NEW n \in 1 .. N, NEW m \in A PROVE Next1(n, m) \in A
    <3>1. online[n] \in Object /\ Plain(online[n]) /\ slots \in [1 .. MaxSlots -> Nat]
      BY <1>1, ObjectFacts DEF TargetInv
    <3>2. Stored(online[n]) \in Object
      BY <3>1, StoredFacts
    <3> QED
      BY <3>2, ConsFacts
  <2> HIDE DEF Next1
  <2> QED
    BY <2>1
<1>3. \E f : Recurses(f, N, A, l, step)
  <2> HIDE DEF step, A, N
  <2> QED
    BY <1>1, <1>2, Recursion
<1>4. PICK f : Recurses(f, N, A, l, step)
  BY <1>3
<1>5. f = [n \in 0 .. N |->
             IF n = 0 THEN l
             ELSE IF FindByAddr(f[n - 1], online[n].owner, online[n].tag) = {}
                    THEN Cons(Stored(online[n]), f[n - 1])
                    ELSE f[n - 1]]
  <2>1. \A n \in 1 .. N : step[n][f[n - 1]] = Next1(n, f[n - 1])
    <3> TAKE n \in 1 .. N
    <3>1. n - 1 \in 0 .. N
      BY <1>1
    <3>2. f[n - 1] \in A
      BY <1>4, <3>1 DEF Recurses
    <3> HIDE DEF Next1
    <3> QED
      BY <3>2
  <2>2. \A n \in 0 .. N : n # 0 => n \in 1 .. N
    BY <1>1
  <2>3. \A n \in 0 .. N : f[n] = IF n = 0 THEN l ELSE Next1(n, f[n - 1])
    <3> HIDE DEF step, Next1
    <3> QED
      BY <1>4, <2>1, <2>2 DEF Recurses
  <2>4. f \in [0 .. N -> A]
    BY <1>4 DEF Recurses
  <2> HIDE DEF step, N, A
  <2> QED
    BY <2>3, <2>4
<1>6. added = [n \in 0 .. N |->
             IF n = 0 THEN l
             ELSE IF FindByAddr(added[n - 1], online[n].owner, online[n].tag) = {}
                    THEN Cons(Stored(online[n]), added[n - 1])
                    ELSE added[n - 1]]
  BY <1>5
<1>7. RegionsAdded(l, online) = added[N]
  BY DEF RegionsAdded
<1> HIDE DEF added, step, A
<1>8. \A n \in 0 .. N : added[n] = IF n = 0 THEN l ELSE Next1(n, added[n - 1])
  <2> DEFINE Value(n) == IF n = 0 THEN l ELSE Next1(n, added[n - 1])
  <2>1. added = [n \in 0 .. N |-> Value(n)]
    BY <1>6
  <2> HIDE DEF Value, N
  <2>2. \A n \in 0 .. N : added[n] = Value(n)
    BY <2>1
  <2> QED
    BY <2>2 DEF Value
<1>9. 0 \in 0 .. N /\ \A n \in 0 .. N - 1 : n + 1 \in 0 .. N /\ n + 1 # 0 /\ n + 1 - 1 = n
  BY <1>1
<1>10. added[0] = l /\ \A n \in 0 .. N - 1 : added[n + 1] = Next1(n + 1, added[n])
  <2> HIDE DEF Next1, N
  <2> QED
    BY <1>8, <1>9
<1> QED
  BY <1>7, <1>10

\* An info is made when no region of the list includes the address.
LEMMA OneRegionAdded ==
  ASSUME TargetInv, NEW l, Good(l), NEW o \in Objs, o.kind = "region",
         \A t \in ToSet(l) : ~Near(t, o)
  PROVE  LET m == Cons(Stored(o), l)
         IN  /\ Good(m) /\ From(l, m) /\ ToSet(m) = {Stored(o)} \cup ToSet(l)
             /\ Stored(o).kind = "region" /\ Stored(o).owner = o.owner /\ Stored(o).tag = o.tag
             /\ Same(Stored(o), o) /\ Class(Stored(o)) = Class(o) /\ Near(Stored(o), o)
<1> DEFINE s == Stored(o)
           m == Cons(s, l)
<1>1. /\ o \in Object /\ Plain(o) /\ slots \in [1 .. MaxSlots -> Nat] /\ o.ts <= 10 + created
      /\ l \in Seq(Object) /\ Unique(l) /\ \A t \in ToSet(l) : t \in Object /\ Plain(t)
  BY ObjectFacts, ListElements DEF TargetInv, Good, Proper
<1>2. /\ s \in Object /\ Plain(s) /\ Same(s, o) /\ Fixed(s) = Fixed(o)
      /\ s.ts = o.ts /\ s.kcap \in 0 .. MaxSlots
  BY <1>1, StoredFacts
<1> HIDE DEF s
<1>3. s.kind = "region" /\ s.owner = o.owner /\ s.tag = o.tag /\ Class(s) = Class(o)
  <2>1. s.kind = o.kind /\ s.owner = o.owner /\ s.tag = o.tag
    BY <1>2 DEF Fixed
  <2>2. Class(s) = Class(o)
    BY <1>2, SameFacts
  <2> QED
    BY <2>1, <2>2
<1>4. /\ m \in Seq(Object) /\ ToSet(m) = {s} \cup ToSet(l)
      /\ Len(l) \in Nat /\ DOMAIN m = 1 .. Len(l) + 1 /\ DOMAIN l = 1 .. Len(l) /\ m[1] = s
      /\ \A i \in 2 .. Len(l) + 1 : m[i] = l[i - 1]
  <2>1. l \in Seq(Object) /\ s \in Object
    BY <1>1, <1>2
  <2>2. m \in Seq(Object)
    BY <2>1, ConsFacts
  <2>3. Len(l) \in Nat /\ DOMAIN l = 1 .. Len(l)
    BY <2>1, ConsFacts
  <2>4. DOMAIN m = 1 .. Len(l) + 1
    BY <2>1, ConsFacts
  <2>5. m[1] = s
    BY <2>1, ConsFacts
  <2>6. \A i \in 2 .. Len(l) + 1 : m[i] = l[i - 1]
    BY <2>1, ConsFacts
  <2>7. ToSet(m) = {s} \cup ToSet(l)
    BY <2>1, ConsFacts
  <2> HIDE DEF m
  <2> QED
    BY <2>2, <2>3, <2>4, <2>5, <2>6, <2>7
<1> HIDE DEF m
<1>5. \A t \in ToSet(l) : t.kind = "region" /\ t.owner = o.owner => t.tag # o.tag
  <2> SUFFICES ASSUME NEW t \in ToSet(l), t.kind = "region", t.owner = o.owner, t.tag = o.tag
               PROVE  FALSE
    OBVIOUS
  <2>1. o.tag \in Nat
    BY <1>1 DEF Object
  <2>2. Includes(t, o.tag)
    BY <2>1 DEF Includes
  <2> QED
    BY <2>2 DEF Near
<1>6. \A t \in ToSet(l) : ~Same(t, s)
  <2> SUFFICES ASSUME NEW t \in ToSet(l), Same(t, s) PROVE FALSE
    OBVIOUS
  <2>1. Same(t, o) /\ t.kind = "region"
    BY <1>2, <1>3, SameFacts DEF Same
  <2>2. t.ts = o.ts /\ t.owner = o.owner
    BY <2>1 DEF Same, Key
  <2>3. Fixed(t) = Fixed(o)
    BY <2>1, <2>2 DEF Good
  <2>4. t.tag = o.tag
    BY <2>3 DEF Fixed
  <2> QED
    BY <1>5, <2>1, <2>2, <2>4
<1>7. Unique(m)
  <2> SUFFICES ASSUME NEW i \in DOMAIN m, NEW j \in DOMAIN m, Same(m[i], m[j]) PROVE i = j
    BY DEF Unique
  <2>1. \A k \in DOMAIN m : k = 1 \/ (k \in 2 .. Len(l) + 1 /\ k - 1 \in DOMAIN l)
    BY <1>4
  <2>2. \A k \in DOMAIN l : l[k] \in ToSet(l)
    BY <1>1, ListElements
  <2>3. CASE i = 1 /\ j = 1
    BY <2>3
  <2>4. CASE i = 1 /\ j # 1
    BY <1>4, <1>6, <2>1, <2>2, <2>4, SameFacts
  <2>5. CASE i # 1 /\ j = 1
    BY <1>4, <1>6, <2>1, <2>2, <2>5, SameFacts
  <2>6. CASE i # 1 /\ j # 1
    <3>1. i - 1 = j - 1
      BY <1>1, <1>4, <2>1, <2>6 DEF Unique
    <3> QED
      BY <1>4, <3>1
  <2> QED
    BY <2>3, <2>4, <2>5, <2>6
<1>8. Apart(m)
  BY <1>3, <1>4, <1>5 DEF Apart, Good
<1>9. \A p \in Objs : Same(s, p) => Fixed(s) = Fixed(p)
  <2> SUFFICES ASSUME NEW p \in Objs, Same(s, p) PROVE Fixed(s) = Fixed(p)
    OBVIOUS
  <2>1. Same(p, o) /\ objs \in Seq(Object) /\ Unique(objs)
    BY <1>2, SameFacts DEF TargetInv, Proper
  <2>2. PICK i \in DOMAIN objs, j \in DOMAIN objs : objs[i] = p /\ objs[j] = o
    BY <2>1, ListElements DEF Objs
  <2> QED
    BY <1>2, <2>1, <2>2 DEF Unique
<1>10. Good(m)
  BY <1>1, <1>2, <1>4, <1>7, <1>8, <1>9 DEF Good, Proper
<1>11. From(l, m)
  BY <1>4 DEF From, Alike, s
<1>12. Near(s, o)
  <2>1. o.tag \in Nat
    BY <1>1 DEF Object
  <2> QED
    BY <1>3, <2>1 DEF Near, Includes
<1> QED
  BY <1>2, <1>3, <1>4, <1>10, <1>11, <1>12 DEF m, s

\* What the first loop leaves: each region of the target has an info that
\* includes its address.
AddedTo(l, m, online) ==
  /\ Good(m) /\ From(l, m) /\ ToSet(l) \subseteq ToSet(m)
  /\ \A s \in ToSet(m) \ ToSet(l) :
       \E o \in ToSet(online) : /\ s.kind = "region" /\ s.owner = o.owner /\ s.tag = o.tag
                                /\ Same(s, o) /\ Class(s) = Class(o)

LEMMA RegionsAddedFacts ==
  ASSUME TargetInv, NEW l, Good(l), NEW online \in Seq(Object),
         \A o \in ToSet(online) : o \in Objs /\ o.kind = "region"
  PROVE  /\ AddedTo(l, RegionsAdded(l, online), online)
         /\ \A o \in ToSet(online) : \E s \in ToSet(RegionsAdded(l, online)) : Near(s, o)
<1> DEFINE N == Len(online)
<1>1. /\ N \in Nat /\ DOMAIN online = 1 .. N /\ l \in Seq(Object)
      /\ \A n \in 1 .. N : online[n] \in ToSet(online)
      /\ \A o \in ToSet(online) : \E n \in 1 .. N : online[n] = o
  BY ListElements DEF Good, Proper
<1>2. PICK added :
           /\ added[0] = l /\ RegionsAdded(l, online) = added[N]
           /\ \A n \in 0 .. N - 1 :
                added[n + 1] = IF FindByAddr(added[n], online[n + 1].owner, online[n + 1].tag) = {}
                                 THEN Cons(Stored(online[n + 1]), added[n]) ELSE added[n]
  BY <1>1, AddedRounds
<1> DEFINE Reached(n) == /\ AddedTo(l, added[n], online)
                         /\ \A k \in 1 .. n : \E s \in ToSet(added[n]) : Near(s, online[k])
           P == {n \in Nat : n <= N => Reached(n)}
<1>3. 0 \in P
  BY <1>2 DEF AddedTo, From, Alike
<1>4. ASSUME NEW n \in Nat, n \in P PROVE n + 1 \in P
  <2> SUFFICES ASSUME n + 1 <= N PROVE Reached(n + 1)
    OBVIOUS
  <2> DEFINE m == added[n]
             o == online[n + 1]
  <2>1. n \in 0 .. N - 1 /\ n + 1 \in 1 .. N /\ n <= N
    BY <1>1
  <2>2. Reached(n)
    BY <1>4, <2>1
  <2>3. o \in ToSet(online) /\ o \in Objs /\ o.kind = "region"
    BY <1>1, <2>1
  <2>4. added[n + 1] = IF FindByAddr(m, o.owner, o.tag) = {} THEN Cons(Stored(o), m) ELSE m
    BY <1>2, <2>1
  <2>5. AddedTo(l, m, online) /\ \A k \in 1 .. n : \E s \in ToSet(m) : Near(s, online[k])
    BY <2>2
  <2>6. Good(m) /\ m \in Seq(Object)
    BY <2>5 DEF AddedTo, Good, Proper
  <2>7. \A k \in 1 .. n + 1 : k \in 1 .. n \/ k = n + 1
    OBVIOUS
  <2> HIDE DEF P, Reached, N
  <2>8. CASE \E t \in ToSet(m) : Near(t, o)
    <3>1. FindByAddr(m, o.owner, o.tag) # {}
      BY <2>6, <2>8, FindByAddrFacts DEF Near
    <3>2. added[n + 1] = m
      BY <2>4, <3>1
    <3>3. \A k \in 1 .. n + 1 : \E s \in ToSet(m) : Near(s, online[k])
      BY <2>5, <2>7, <2>8
    <3> QED
      BY <2>5, <3>2, <3>3 DEF Reached
  <2>9. CASE \A t \in ToSet(m) : ~Near(t, o)
    <3>1. FindByAddr(m, o.owner, o.tag) = {}
      BY <2>3, <2>6, <2>9, FindByAddrFacts DEF Near
    <3> DEFINE new == Cons(Stored(o), m)
    <3>2. added[n + 1] = new
      BY <2>4, <3>1
    <3>3. /\ Good(new) /\ From(m, new) /\ ToSet(new) = {Stored(o)} \cup ToSet(m)
          /\ Stored(o).kind = "region" /\ Stored(o).owner = o.owner /\ Stored(o).tag = o.tag
          /\ Same(Stored(o), o) /\ Class(Stored(o)) = Class(o) /\ Near(Stored(o), o)
      <4> HIDE DEF m, o
      <4> QED
        BY <2>3, <2>6, <2>9, OneRegionAdded
    <3> HIDE DEF new
    <3>4. From(l, new)
      BY <2>5, <3>3 DEF AddedTo, From, Alike
    <3>5. AddedTo(l, new, online)
      <4> HIDE DEF m, o
      <4> QED
        BY <2>3, <2>5, <3>3, <3>4 DEF AddedTo
    <3>6. \A k \in 1 .. n + 1 : \E s \in ToSet(new) : Near(s, online[k])
      BY <2>5, <2>7, <3>3
    <3> QED
      BY <3>2, <3>5, <3>6 DEF Reached
  <2> QED
    BY <2>8, <2>9
<1>5. N \in P
  <2> HIDE DEF P
  <2> QED
    BY <1>1, <1>3, <1>4, Induction
<1>6. Reached(N)
  BY <1>1, <1>5
<1> QED
  BY <1>1, <1>2, <1>6

\* Infos are destroyed.
LEMMA OnlyGood ==
  ASSUME NEW l, Good(l), NEW set
  PROVE  Good(Only(l, set)) /\ ToSet(Only(l, set)) = ToSet(l) \cap set
<1>1. l \in Seq(Object) /\ Unique(l)
  BY DEF Good, Proper
<1>2. /\ Only(l, set) \in Seq(Object) /\ ToSet(Only(l, set)) = ToSet(l) \cap set
      /\ Unique(Only(l, set))
  BY <1>1, OnlyFacts
<1> QED
  BY <1>2 DEF Good, Proper, Apart

\* What both loops do to the regions of all maps of a kind: one is left out only
\* if an info included its address before, and none that had an info loses it.
RegionsDone(l, m, c) ==
  \A o \in Objs : o.kind = "region" /\ Class(o) = c =>
    /\ FindByAddr(l, o.owner, o.tag) = {} => FindByAddr(m, o.owner, o.tag) # {}
    /\ Known(l, o) => Known(m, o)

\* The attached regions of all maps of a kind.
LEMMA RegionsBrought ==
  ASSUME TargetInv, NEW l, Good(l), NEW ofSpace \in BOOLEAN
  PROVE  LET c == IF ofSpace THEN "inner" ELSE "outer"
         IN  /\ Brought(l, PrepareAttachedRegions(l, ofSpace), {c})
             /\ RegionsDone(l, PrepareAttachedRegions(l, ofSpace), c)
<1> DEFINE c == IF ofSpace THEN "inner" ELSE "outer"
           online == Only(objs, {o \in Objs : o.kind = "region" /\ InSpace(o) = ofSpace})
           all == RegionsAdded(l, online)
           keep == {s \in ToSet(all) : s.kind = "region" /\ InSpace(s) = ofSpace =>
                                         FindByAddr(objs, s.owner, s.tag) # {}}
           m == Only(all, keep)
<1>1. PrepareAttachedRegions(l, ofSpace) = m
  BY DEF PrepareAttachedRegions
<1>2. objs \in Seq(Object) /\ l \in Seq(Object)
  BY DEF TargetInv, Good, Proper
<1>3. online \in Seq(Object) /\ \A o : o \in ToSet(online) <=>
                                  o \in Objs /\ o.kind = "region" /\ InSpace(o) = ofSpace
  <2>1. /\ online \in Seq(Object)
        /\ ToSet(online) = ToSet(objs) \cap {o \in Objs : o.kind = "region" /\ InSpace(o) = ofSpace}
    BY <1>2, OnlyFacts
  <2> QED
    BY <2>1 DEF Objs
<1> HIDE DEF online
<1>4. AddedTo(l, all, online) /\ \A o \in ToSet(online) : \E s \in ToSet(all) : Near(s, o)
  BY <1>3, RegionsAddedFacts
<1> HIDE DEF all
<1>5. Good(m) /\ ToSet(m) = ToSet(all) \cap keep
  <2> HIDE DEF keep
  <2> QED
    BY <1>4, OnlyGood DEF AddedTo
<1> HIDE DEF m
\* The classes.
<1>6. \A o \in ToSet(all) \cup Objs :
        /\ o \in Object /\ o.tag \in Nat
        /\ Class(o) = c <=> o.kind = "region" /\ InSpace(o) = ofSpace
  <2>1. \A o \in ToSet(all) \cup Objs : o \in Object
    BY <1>2, <1>4, ListElements DEF AddedTo, Good, Proper, Objs
  <2>2. \A o \in Object : o.kind \in Kind /\ InSpace(o) \in BOOLEAN /\ o.tag \in Nat
    BY DEF Object, InSpace, SpaceOf, DsOf
  <2>3. "inner" \notin Kind /\ "outer" \notin Kind /\ "inner" # "outer"
    BY DEF Kind, SessionKind, MemberKind
  <2> QED
    BY <2>1, <2>2, <2>3 DEF Class
<1>7. \A s \in ToSet(m) : Class(s) = c =>
        s.kind = "region" /\ FindByAddr(objs, s.owner, s.tag) # {}
  BY <1>5, <1>6
<1> HIDE DEF c
<1>8. \A s \in ToSet(all) : Class(s) # c => s \in ToSet(m)
  BY <1>5, <1>6
<1>9. \A s \in ToSet(all) \ ToSet(l) : Class(s) = c
  BY <1>3, <1>4, <1>6 DEF AddedTo
\* What is kept of the class.
<1>10. \A s \in ToSet(all), p \in Objs :
         s.kind = "region" /\ p.kind = "region" /\ s.owner = p.owner /\ s.tag = p.tag => s \in ToSet(m)
  <2> SUFFICES ASSUME NEW s \in ToSet(all), NEW p \in Objs, s.kind = "region", p.kind = "region",
                      s.owner = p.owner, s.tag = p.tag
               PROVE  FindByAddr(objs, s.owner, s.tag) # {}
    BY <1>5
  <2>1. Includes(p, s.tag)
    BY <1>6 DEF Includes
  <2> QED
    BY <1>2, <2>1, FindByAddrFacts DEF Objs
<1>11. From(l, m)
  BY <1>4, <1>5 DEF AddedTo, From
<1>12. Synced(m, c)
  BY <1>6, <1>7 DEF Synced
<1>13. ASSUME NEW d, Synced(l, d) PROVE Synced(m, d)
  <2>1. CASE d = c
    BY <1>12, <2>1
  <2>2. CASE d # c
    <3>1. \A s \in ToSet(m) : Class(s) = d => s \in ToSet(l)
      BY <1>5, <1>9, <2>2
    <3>2. \A s \in ToSet(l) : Class(s) = d => s \in ToSet(m)
      BY <1>4, <1>8, <2>2 DEF AddedTo
    <3>3. \A s, o : Same(s, o) => Class(s) = Class(o)
      BY SameFacts
    <3> QED
      BY <1>13, <3>1, <3>2, <3>3 DEF Synced
  <2> QED
    BY <2>1, <2>2
<1>14. ASSUME NEW o \in Objs, o.kind = "region", Class(o) = c,
              FindByAddr(l, o.owner, o.tag) = {}
       PROVE  FindByAddr(m, o.owner, o.tag) # {}
  <2>1. o \in ToSet(online)
    BY <1>3, <1>6, <1>14
  <2>2. PICK s \in ToSet(all) : Near(s, o)
    BY <1>4, <2>1
  <2>3. s \notin ToSet(l)
    BY <1>2, <1>14, <2>2, FindByAddrFacts DEF Near
  <2>4. PICK p \in ToSet(online) : s.kind = "region" /\ s.owner = p.owner /\ s.tag = p.tag
    BY <1>4, <2>2, <2>3 DEF AddedTo
  <2>5. s \in ToSet(m)
    BY <1>3, <1>10, <2>2, <2>4
  <2>6. m \in Seq(Object)
    BY <1>5 DEF Good, Proper
  <2> QED
    BY <2>2, <2>5, <2>6, FindByAddrFacts DEF Near
<1>15. ASSUME NEW o \in Objs, o.kind = "region", Known(l, o) PROVE Known(m, o)
  <2>1. PICK s \in ToSet(l) : Same(s, o)
    BY <1>2, <1>15, KnownFacts
  <2>2. s.ts = o.ts /\ s.kind = "region" /\ s.owner = o.owner
    BY <1>15, <2>1 DEF Same, Key
  <2>3. s.tag = o.tag
    BY <2>1, <2>2 DEF Good, Fixed
  <2>4. s \in ToSet(m)
    BY <1>4, <1>10, <1>15, <2>2, <2>3 DEF AddedTo
  <2>5. m \in Seq(Object)
    BY <1>5 DEF Good, Proper
  <2> QED
    BY <2>1, <2>4, <2>5, KnownFacts
<1>16. Brought(l, m, {c})
  <2>1. c = "inner" \/ c = "outer"
    BY DEF c
  <2> QED
    BY <1>5, <1>11, <1>12, <1>13, <2>1 DEF Brought
<1>17. RegionsDone(l, m, c)
  BY <1>14, <1>15 DEF RegionsDone
<1> QED
  BY <1>1, <1>16, <1>17 DEF c

\* The region maps of a kind and their regions.
LEMMA MapsBrought ==
  ASSUME TargetInv, NEW l, Good(l)
  PROVE  /\ Brought(l, PrepareRegionMaps(l, TRUE), {"space", "inner"})
         /\ Brought(l, PrepareRegionMaps(l, FALSE), {"map", "outer"})
<1>1. "space" \in Kind \ {"region"} /\ "map" \in Kind \ {"region"}
  BY DEF Kind, SessionKind, MemberKind
<1> DEFINE m == OfKind(l, "space")
           n == OfKind(l, "map")
<1>2. /\ PrepareRegionMaps(l, TRUE) = PrepareAttachedRegions(m, TRUE)
      /\ PrepareRegionMaps(l, FALSE) = PrepareAttachedRegions(n, FALSE)
  BY DEF PrepareRegionMaps
<1>3. Brought(l, m, {"space"}) /\ Brought(l, n, {"map"})
  BY <1>1, KindBrought
<1> HIDE DEF m, n
<1>4. Good(m) /\ Good(n)
  BY <1>3 DEF Brought
<1>5. Brought(m, PrepareAttachedRegions(m, TRUE), {"inner"})
  <2>1. Brought(m, PrepareAttachedRegions(m, TRUE), {IF TRUE THEN "inner" ELSE "outer"})
    BY <1>4, RegionsBrought, TRUE \in BOOLEAN
  <2> QED
    BY <2>1
<1>6. Brought(n, PrepareAttachedRegions(n, FALSE), {"outer"})
  <2>1. Brought(n, PrepareAttachedRegions(n, FALSE), {IF FALSE THEN "inner" ELSE "outer"})
    BY <1>4, RegionsBrought, FALSE \in BOOLEAN
  <2> QED
    BY <2>1
<1>7. Brought(l, PrepareRegionMaps(l, TRUE), {"space"} \cup {"inner"})
  BY <1>2, <1>3, <1>5, BroughtBoth
<1>8. Brought(l, PrepareRegionMaps(l, FALSE), {"map"} \cup {"outer"})
  BY <1>2, <1>3, <1>6, BroughtBoth
<1>9. {"space"} \cup {"inner"} = {"space", "inner"} /\ {"map"} \cup {"outer"} = {"map", "outer"}
  OBVIOUS
<1> QED
  BY <1>7, <1>8, <1>9

\* A call that brings some classes up to date.
LEMMA CallKept ==
  ASSUME TargetInv, StoredInv, NEW from, NEW to \in {"pd", "cpu", "rm", "log", "timer", "taken"},
         NEW l, Call(from, to, l), NEW classes, Brought(stored, l, classes),
         Done(to) \subseteq Done(from) \cup classes
  PROVE  TargetInv' /\ StoredInv' /\ From(stored, stored')
<1>1. ckPc = from /\ ckPc' = to /\ stored' = l /\ UNCHANGED <<objs, slots, created, reply>>
  BY DEF Call, targetVars
<1>2. \A c : Synced(l, c) => Synced(stored, c)'
  BY <1>1 DEF Synced, Objs
<1>3. Good(stored)'
  BY <1>1 DEF Brought, Good, Objs
<1>4. TargetInv'
  BY <1>1 DEF TargetInv, Objs
<1>5. \A c \in Done(ckPc') : Synced(stored, c)'
  BY <1>1, <1>2 DEF StoredInv, Brought
<1>6. From(stored, stored')
  BY <1>1 DEF Brought
<1> QED
  BY <1>1, <1>3, <1>4, <1>5, <1>6 DEF StoredInv

\* Any step of the checkpointer.
LEMMA CheckpointKept ==
  ASSUME TargetInv, StoredInv, Checkpoint
  PROVE  TargetInv' /\ StoredInv' /\ From(stored, stored')
<1> USE DEF Brought
<1>1. Good(stored)
  BY DEF StoredInv
<1>2. ASSUME NEW l, Good(l), NEW a \in Kind \ {"region"}, NEW b \in Kind \ {"region"}
      PROVE  Brought(l, OfKind(OfKind(l, a), b), {a, b})
  <2> HIDE DEF Brought
  <2>1. Brought(l, OfKind(l, a), {a}) /\ Good(OfKind(l, a))
    BY <1>2, KindBrought DEF Brought
  <2> DEFINE m == OfKind(l, a)
  <2> HIDE DEF m
  <2>2. Brought(m, OfKind(m, b), {b})
    BY <1>2, <2>1, KindBrought DEF m
  <2>3. Brought(l, OfKind(m, b), {a} \cup {b})
    BY <2>1, <2>2, BroughtBoth DEF m
  <2>4. {a} \cup {b} = {a, b}
    OBVIOUS
  <2> QED
    BY <2>3, <2>4 DEF m
<1> HIDE DEF Brought
<1>3. /\ {"ram", "ramds", "pd", "native", "source", "context", "cpu", "thread", "rm", "log", "timer"}
           \subseteq Kind \ {"region"}
  BY DEF Kind, SessionKind, MemberKind
<1>13. CASE CkNoCapMap \/ CkContentDies
  <2>1. ckPc' = "dead" /\ UNCHANGED <<stored, objs, slots, created, reply>>
    BY <1>13 DEF CkNoCapMap, CkContentDies, targetVars
  <2>2. TargetInv' /\ Good(stored)'
    BY <1>1, <2>1 DEF TargetInv, Good, Objs
  <2>3. Done(ckPc') = {}
    BY <2>1 DEF Done
  <2>4. From(stored, stored')
    BY <2>1 DEF From, Alike
  <2> QED
    BY <2>1, <2>2, <2>3, <2>4 DEF StoredInv
<1>4. CASE CkStart
  <2>1. ckPc' = "ram" /\ UNCHANGED <<stored, objs, slots, created, reply>>
    BY <1>4 DEF CkStart, targetVars
  <2>2. TargetInv' /\ Good(stored)'
    BY <1>1, <2>1 DEF TargetInv, Good, Objs
  <2>3. Done(ckPc') = {}
    BY <2>1 DEF Done
  <2>4. From(stored, stored')
    BY <2>1 DEF From, Alike
  <2> QED
    BY <2>1, <2>2, <2>3, <2>4 DEF StoredInv
<1>5. CASE CkPdDies
  <2>1. ckPc' = "dead" /\ UNCHANGED <<stored, objs, slots, created, reply>>
    BY <1>5 DEF CkPdDies, targetVars
  <2>2. TargetInv' /\ Good(stored)'
    BY <1>1, <2>1 DEF TargetInv, Good, Objs
  <2>3. Done(ckPc') = {}
    BY <2>1 DEF Done
  <2>4. From(stored, stored')
    BY <2>1 DEF From, Alike
  <2> QED
    BY <2>1, <2>2, <2>3, <2>4 DEF StoredInv
<1>6. CASE CkResume
  <2>1. ckPc' = "running" /\ UNCHANGED <<stored, objs, slots, created, reply>>
    BY <1>6 DEF CkResume, Call, targetVars
  <2>2. TargetInv' /\ Good(stored)'
    BY <1>1, <2>1 DEF TargetInv, Good, Objs
  <2>3. Done(ckPc') = {}
    BY <2>1 DEF Done
  <2>4. From(stored, stored')
    BY <2>1 DEF From, Alike
  <2> QED
    BY <2>1, <2>2, <2>3, <2>4 DEF StoredInv
<1>7. CASE CkRam
  <2> DEFINE l == OfKind(OfKind(stored, "ram"), "ramds")
  <2>1. Call("ram", "pd", l)
    BY <1>7 DEF CkRam, PrepareRamDataspaces, PrepareRamSessions
  <2>2. Brought(stored, l, {"ram", "ramds"})
    BY <1>1, <1>2, <1>3
  <2>3. Done("pd") \subseteq Done("ram") \cup {"ram", "ramds"}
    BY DEF Done
  <2> HIDE DEF l
  <2> QED
    BY <2>1, <2>2, <2>3, CallKept
<1>8. CASE CkPd
  <2> DEFINE l == OfKind(OfKind(stored, "pd"), "native")
             m == OfKind(OfKind(l, "source"), "context")
             n == PrepareRegionMaps(m, TRUE)
             all == ({"pd", "native"} \cup {"source", "context"}) \cup {"space", "inner"}
  <2>1. Call("pd", "cpu", n)
    BY <1>8 DEF CkPd, PreparePdSessions, PrepareNativeCaps, PrepareSignalSources,
       PrepareSignalContexts
  <2>2. Brought(stored, l, {"pd", "native"})
    BY <1>1, <1>2, <1>3
  <2> HIDE DEF l
  <2>3. Brought(l, m, {"source", "context"})
    <3>1. Good(l)
      BY <2>2 DEF Brought
    <3> QED
      BY <1>2, <1>3, <3>1
  <2> HIDE DEF m
  <2>4. Brought(m, n, {"space", "inner"})
    <3>1. Good(m)
      BY <2>3 DEF Brought
    <3> QED
      BY <3>1, MapsBrought
  <2> HIDE DEF n
  <2>5. Brought(stored, m, {"pd", "native"} \cup {"source", "context"})
    BY <2>2, <2>3, BroughtBoth
  <2>6. Brought(stored, n, all)
    BY <2>4, <2>5, BroughtBoth
  <2>7. Done("cpu") \subseteq Done("pd") \cup all
    BY DEF Done
  <2> HIDE DEF all
  <2> QED
    BY <2>1, <2>6, <2>7, CallKept
<1>9. CASE CkCpu
  <2> DEFINE l == OfKind(OfKind(stored, "cpu"), "thread")
  <2>1. Call("cpu", "rm", l)
    BY <1>9 DEF CkCpu, PrepareCpuThreads, PrepareCpuSessions
  <2>2. Brought(stored, l, {"cpu", "thread"})
    BY <1>1, <1>2, <1>3
  <2>3. Done("rm") \subseteq Done("cpu") \cup {"cpu", "thread"}
    BY DEF Done
  <2> HIDE DEF l
  <2> QED
    BY <2>1, <2>2, <2>3, CallKept
<1>10. CASE CkRm
  <2> DEFINE l == OfKind(stored, "rm")
             m == PrepareRegionMaps(l, FALSE)
             all == {"rm"} \cup {"map", "outer"}
  <2>1. Call("rm", "log", m)
    BY <1>10 DEF CkRm, PrepareRmSessions
  <2>2. Brought(stored, l, {"rm"})
    BY <1>1, <1>3, KindBrought
  <2> HIDE DEF l
  <2>3. Brought(l, m, {"map", "outer"})
    <3>1. Good(l)
      BY <2>2 DEF Brought
    <3> QED
      BY <3>1, MapsBrought
  <2> HIDE DEF m
  <2>4. Brought(stored, m, all)
    BY <2>2, <2>3, BroughtBoth
  <2>5. Done("log") \subseteq Done("rm") \cup all
    BY DEF Done
  <2> HIDE DEF all
  <2> QED
    BY <2>1, <2>4, <2>5, CallKept
<1>11. CASE CkLog
  <2>1. Call("log", "timer", OfKind(stored, "log"))
    BY <1>11 DEF CkLog, PrepareLogSessions
  <2>2. Brought(stored, OfKind(stored, "log"), {"log"})
    BY <1>1, <1>3, KindBrought
  <2>3. Done("timer") \subseteq Done("log") \cup {"log"}
    BY DEF Done
  <2> QED
    BY <2>1, <2>2, <2>3, CallKept
<1>12. CASE CkTimer
  <2>1. Call("timer", "taken", OfKind(stored, "timer"))
    BY <1>12 DEF CkTimer, PrepareTimerSessions
  <2>2. Brought(stored, OfKind(stored, "timer"), {"timer"})
    BY <1>1, <1>3, KindBrought
  <2>3. Done("taken") \subseteq Done("timer") \cup {"timer"}
    BY DEF Done, Kind, SessionKind, MemberKind
  <2> QED
    BY <2>1, <2>2, <2>3, CallKept
<1> QED
  BY <1>4, <1>5, <1>6, <1>7, <1>8, <1>9, <1>10, <1>11, <1>12, <1>13 DEF Checkpoint

-----------------------------------------------------------------------------
(* The theorem.                                                            *)

\* Restoring leaves the target and the stored lists alone.
LEMMA RestorerReads == RestorerStep => UNCHANGED outside
BY DEF RestorerStep, LogRequest, Identify, IdentifyRam, IdentifyRamds, IdentifyPd, IdentifySource,
   IdentifyContext, IdentifySpace, IdentifyCpu, IdentifyThread, IdentifyRm, IdentifyMap,
   IdentifyLog, IdentifyTimer, IdentifyEnd, Restore, RestoreRam, RestoreRamds, RestorePd,
   RestoreSpace, RestoreCpu, RestoreThread, RestoreRm, RestoreMap, RestoreRegion, RestoreLog,
   RestoreTimer, RestoreObject, ResolveInc, CopyCapMap, PatchCapMap, PatchCapMapEnd, Install,
   InstallEnd, RestoreContent, RestoreReturn, restUnchanged

\* At the start nothing is stored.
LEMMA StoredInitially == Init => TargetInv /\ StoredInv
<1> SUFFICES ASSUME Init PROVE TargetInv /\ StoredInv
  OBVIOUS
<1>1. TargetInv
  BY TargetInitially DEF Init
<1>2. stored = <<>> /\ ckPc = "running"
  BY DEF Init, CkInit
<1>3. stored \in Seq(Object) /\ ToSet(stored) = {} /\ DOMAIN stored = {}
  BY <1>2 DEF ToSet
<1>4. Good(stored)
  BY <1>3 DEF Good, Proper, Unique, Apart
<1>5. Done(ckPc) = {}
  BY <1>2 DEF Done
<1> QED
  BY <1>1, <1>2, <1>4, <1>5 DEF StoredInv

\* Every step keeps the target and the stored lists sound.
LEMMA StoredKept == TargetInv /\ StoredInv /\ [Next]_vars => TargetInv' /\ StoredInv'
<1> SUFFICES ASSUME TargetInv, StoredInv, [Next]_vars PROVE TargetInv' /\ StoredInv'
  OBVIOUS
<1>1. CASE TargetStep
  <2>1. ckPc = "running" /\ TargetRequest /\ UNCHANGED <<stored, ckPc>>
    BY <1>1 DEF TargetStep, ckVars
  <2>2. TargetInv' /\ Good(stored)'
    BY <2>1, RequestKept DEF StoredInv
  <2>3. Done(ckPc') = {}
    BY <2>1 DEF Done
  <2> QED
    BY <2>1, <2>2, <2>3 DEF StoredInv
<1>2. CASE CheckpointStep
  BY <1>2, CheckpointKept DEF CheckpointStep
<1>3. CASE RestorerStep \/ UNCHANGED vars
  <2>1. UNCHANGED <<objs, slots, created, reply, stored, ckPc>>
    BY <1>3, RestorerReads DEF vars, outside, targetVars, ckVars
  <2> QED
    BY <2>1 DEF TargetInv, StoredInv, Good, Synced, Objs
<1> QED
  BY <1>1, <1>2, <1>3 DEF Next

\* What a list has of each object, it has at one place.
LEMMA OneInfo ==
  ASSUME NEW l, Proper(l), NEW o, NEW s \in ToSet(l), Same(s, o)
  PROVE  Known(l, o) /\ FindIn(l, o) = s
<1>1. l \in Seq(Object)
  BY DEF Proper
<1>2. Known(l, o)
  BY <1>1, KnownFacts
<1>3. FindIn(l, o) \in ToSet(l) /\ Same(FindIn(l, o), s)
  BY <1>1, <1>2, FoundFacts, SameFacts
<1> QED
  BY <1>1, <1>2, <1>3, ListElements DEF Proper, Unique

\* With all classes in sync the lists agree, but for regions.
LEMMA StoredInvSuffices == TargetInv /\ StoredInv => StoredCurrent
<1> SUFFICES ASSUME TargetInv, StoredInv, ckPc = "taken" PROVE StoredCurrent
  BY DEF StoredCurrent
<1>1. /\ Proper(objs) /\ Proper(stored) /\ Apart(stored)
      /\ stored \in Seq(Object) /\ objs \in Seq(Object)
      /\ \A o \in Objs \cup ToSet(stored) : o \in Object
  BY ListElements DEF TargetInv, StoredInv, Good, Proper, Objs
<1>2. \A o \in Objs \cup ToSet(stored) : Synced(stored, Class(o))
  <2>1. \A o \in Object : Class(o) \in Done("taken")
    BY DEF Object, Class, Done
  <2> QED
    BY <1>1, <2>1 DEF StoredInv
<1>3. ASSUME NEW o \in Objs, o.kind # "region"
      PROVE  /\ Cardinality({i \in DOMAIN stored : Same(stored[i], o)}) = 1
             /\ StoredOf(o).sigh = o.sigh /\ StoredOf(o).mode = o.mode
  <2>1. PICK s \in ToSet(stored) : Same(s, o) /\ s.sigh = o.sigh /\ s.mode = o.mode
    BY <1>2, <1>3 DEF Synced
  <2>2. StoredOf(o) = s
    BY <1>1, <2>1, OneInfo DEF StoredOf
  <2>3. PICK i \in DOMAIN stored : stored[i] = s
    BY <1>1, <2>1, ListElements
  <2>4. {j \in DOMAIN stored : Same(stored[j], o)} = {i}
    <3>1. \A j \in DOMAIN stored : Same(stored[j], o) <=> j = i
      BY <1>1, <2>1, <2>3, SameFacts DEF Proper, Unique
    <3> QED
      BY <3>1
  <2> QED
    BY <2>1, <2>2, <2>4, FS_Singleton
<1>4. ASSUME NEW o \in Objs, Current(o)
      PROVE  StoredOf(o) = [o EXCEPT !.kcap = StoredOf(o).kcap, !.quota = StoredOf(o).quota]
  <2> DEFINE s == StoredOf(o)
  <2>1. s \in ToSet(stored) /\ Same(s, o) /\ s.ts = o.ts
    BY <1>1, <1>4, FoundFacts DEF Current, StoredOf
  <2>6. o.kind # "region" => s.sigh = o.sigh /\ s.mode = o.mode
    BY <1>3
  <2> HIDE DEF s
  <2>2. s \in Object /\ o \in Object /\ Fixed(s) = Fixed(o)
    BY <1>1, <2>1 DEF StoredInv, Good
  <2>3. s.sigh = o.sigh /\ s.mode = o.mode
    <3>1. CASE o.kind # "region"
      BY <2>6, <3>1
    <3>2. CASE o.kind = "region"
      <4>1. Plain(o) /\ Plain(s)
        BY <1>1, <2>1 DEF Proper, Objs
      <4>2. s.kind = "region"
        BY <2>1, <3>2 DEF Same
      <4> QED
        BY <3>2, <4>1, <4>2 DEF Plain, IsSignalling, IsMap
    <3> QED
      BY <3>1, <3>2
  <2>4. /\ s.kind = o.kind /\ s.badge = o.badge /\ s.owner = o.owner /\ s.ref = o.ref
        /\ s.tag = o.tag /\ s.ts = o.ts /\ s.boot = o.boot
    BY <2>2 DEF Fixed
  <2>5. s = [o EXCEPT !.kcap = s.kcap, !.quota = s.quota]
    BY <2>2, <2>3, <2>4 DEF Object
  <2> QED
    BY <2>5 DEF s
<1>5. ASSUME NEW i \in DOMAIN stored, stored[i].kind # "region" PROVE Known(objs, stored[i])
  BY <1>1, <1>2, <1>5, ListElements DEF Synced
<1>6. ASSUME NEW i \in DOMAIN stored, stored[i].kind = "region"
      PROVE  FindByAddr(objs, stored[i].owner, stored[i].tag) # {}
  BY <1>1, <1>2, <1>6, ListElements DEF Synced
<1>7. ASSUME NEW i \in DOMAIN stored, NEW j \in DOMAIN stored \ {i}, stored[i].kind = "region",
             stored[j].kind = "region", stored[j].owner = stored[i].owner
      PROVE  stored[j].tag # stored[i].tag
  <2>1. ~Same(stored[i], stored[j])
    BY <1>1 DEF Proper, Unique
  <2>2. stored[i] # stored[j]
    BY <2>1, SameFacts
  <2> QED
    BY <1>1, <1>7, <2>2, ListElements DEF Apart
<1> QED
  BY <1>3, <1>4, <1>5, <1>6, <1>7 DEF StoredCurrent

\* After a checkpoint the stored lists hold exactly one info for each object of
\* the target with a badge, with its present handler and mode, and an info made
\* for this very object differs from it in its selector and quota at most,
\* whatever the target created, destroyed and changed between the checkpoints.
\* Infos of regions have a region of the target at or next to their address, and
\* no two are for one place.
THEOREM StoredAfterCheckpoint == Spec => []StoredCurrent
<1>1. Init => TargetInv /\ StoredInv
  BY StoredInitially
<1>2. (TargetInv /\ StoredInv) /\ [Next]_vars => (TargetInv /\ StoredInv)'
  BY StoredKept
<1>3. TargetInv /\ StoredInv => StoredCurrent
  BY StoredInvSuffices
<1> QED
  BY <1>1, <1>2, <1>3, PTL DEF Spec

-----------------------------------------------------------------------------
(* What a checkpoint does to regions.                                      *)

\* Calls that leave the regions alone leave alone what is found of them.
LEMMA SameRegionsFound ==
  ASSUME NEW l \in Seq(Object), NEW m \in Seq(Object), SameRegions(l, m)
  PROVE  \A o : /\ FindByAddr(l, o.owner, o.tag) = {} <=> FindByAddr(m, o.owner, o.tag) = {}
                /\ o.kind = "region" => (Known(l, o) <=> Known(m, o))
<1> TAKE o
<1>1. /\ FindByAddr(l, o.owner, o.tag) = {} <=>
           ~\E s \in ToSet(l) : s.kind = "region" /\ s.owner = o.owner /\ Includes(s, o.tag)
      /\ FindByAddr(m, o.owner, o.tag) = {} <=>
           ~\E s \in ToSet(m) : s.kind = "region" /\ s.owner = o.owner /\ Includes(s, o.tag)
  <2>1. \A k \in {l, m} :
          FindByAddr(k, o.owner, o.tag) = {} <=>
            ~\E s \in ToSet(k) : s.kind = "region" /\ s.owner = o.owner /\ Includes(s, o.tag)
    <3> TAKE k \in {l, m}
    <3>1. k \in Seq(Object)
      OBVIOUS
    <3> DEFINE found == FindByAddr(k, o.owner, o.tag)
    <3>2. /\ \A p \in found : p \in ToSet(k) /\ p.kind = "region" /\ p.owner = o.owner /\ Includes(p, o.tag)
          /\ \A p \in ToSet(k) : p.kind = "region" /\ p.owner = o.owner /\ Includes(p, o.tag) => found # {}
      BY <3>1, FindByAddrFacts
    <3> HIDE DEF found
    <3>3. found = {} <=> ~\E s \in ToSet(k) : s.kind = "region" /\ s.owner = o.owner /\ Includes(s, o.tag)
      BY <3>2
    <3> QED
      BY <3>3 DEF found
  <2> QED
    BY <2>1
<1>2. o.kind = "region" => (Known(l, o) <=> Known(m, o))
  BY KnownFacts DEF SameRegions, Same
<1> QED
  BY <1>1, <1>2 DEF SameRegions

\* Of what the checkpointer does for PD and RM sessions only the last call is
\* about regions.
LEMMA RegionsStep ==
  ASSUME TargetInv, StoredInv, CkPd \/ CkRm
  PROVE  \A o \in Of("region") : InSpace(o) = (ckPc = "pd") =>
           /\ FindByAddr(stored, o.owner, o.tag) = {} => FindByAddr(stored', o.owner, o.tag) # {}
           /\ Known(stored, o) => Known(stored', o)
<1>1. Good(stored)
  BY DEF StoredInv
<1>2. ASSUME NEW l, Good(l), NEW kind \in {"pd", "native", "source", "context", "space", "rm", "map"}
      PROVE  Good(OfKind(l, kind)) /\ SameRegions(l, OfKind(l, kind))
  <2>1. kind \in Kind \ {"region"}
    BY DEF Kind, SessionKind, MemberKind
  <2> QED
    BY <1>2, <2>1, KindBrought DEF Brought
<1>3. \A l, m, n : SameRegions(l, m) /\ SameRegions(m, n) => SameRegions(l, n)
  BY DEF SameRegions
<1>4. PICK l : /\ Good(l) /\ SameRegions(stored, l)
               /\ stored' = PrepareAttachedRegions(l, ckPc = "pd")
  <2>1. CASE CkPd
    <3> DEFINE a == OfKind(stored, "pd")
               b == OfKind(a, "native")
               c == OfKind(b, "source")
               d == OfKind(c, "context")
               e == OfKind(d, "space")
    <3>1. ckPc = "pd" /\ stored' = PrepareAttachedRegions(e, TRUE)
      BY <2>1 DEF CkPd, Call, PreparePdSessions, PrepareNativeCaps, PrepareSignalSources,
         PrepareSignalContexts, PrepareRegionMaps
    <3> HIDE DEF e
    <3>2. Good(a) /\ SameRegions(stored, a)
      BY <1>1, <1>2
    <3>3. Good(b) /\ SameRegions(a, b)
      BY <1>2, <3>2
    <3> HIDE DEF a, b
    <3>4. Good(c) /\ SameRegions(b, c)
      BY <1>2, <3>3
    <3> HIDE DEF c
    <3>5. Good(d) /\ SameRegions(c, d)
      BY <1>2, <3>4
    <3> HIDE DEF d
    <3>6. Good(e) /\ SameRegions(d, e)
      BY <1>2, <3>5 DEF e
    <3> QED
      BY <1>3, <3>1, <3>2, <3>3, <3>4, <3>5, <3>6
  <2>2. CASE CkRm
    <3> DEFINE a == OfKind(stored, "rm")
               b == OfKind(a, "map")
    <3>1. ckPc = "rm" /\ stored' = PrepareAttachedRegions(b, FALSE)
      BY <2>2 DEF CkRm, Call, PrepareRmSessions, PrepareRegionMaps
    <3>2. Good(a) /\ SameRegions(stored, a)
      BY <1>1, <1>2
    <3>3. Good(b) /\ SameRegions(a, b)
      BY <1>2, <3>2
    <3> QED
      BY <1>3, <3>1, <3>2, <3>3
  <2> QED
    BY <2>1, <2>2
<1>5. RegionsDone(l, stored', IF ckPc = "pd" THEN "inner" ELSE "outer")
  <2>1. (ckPc = "pd") \in BOOLEAN
    OBVIOUS
  <2> QED
    BY <1>4, <2>1, RegionsBrought
<1>6. stored \in Seq(Object) /\ l \in Seq(Object)
  BY <1>1, <1>4 DEF Good, Proper
<1> TAKE o \in Of("region")
<1> HAVE InSpace(o) = (ckPc = "pd")
<1>7. o \in Objs /\ o.kind = "region" /\ Class(o) = IF ckPc = "pd" THEN "inner" ELSE "outer"
  BY DEF Of, Class
<1> QED
  BY <1>4, <1>5, <1>6, <1>7, SameRegionsFound DEF RegionsDone

\* Whatever was checkpointed before, a checkpoint leaves out a region only where
\* the stored list already has one that includes its address, and does not lose
\* the info of a region that is still there.
THEOREM RegionsKept == Spec => RegionsAccounted
<1>1. Init => TargetInv /\ StoredInv
  BY StoredInitially
<1>2. (TargetInv /\ StoredInv) /\ [Next]_vars => (TargetInv /\ StoredInv)'
  BY StoredKept
<1>3. (TargetInv /\ StoredInv) /\ [Next]_vars =>
        [CkPd \/ CkRm =>
           \A o \in Of("region") : InSpace(o) = (ckPc = "pd") =>
             /\ FindByAddr(stored, o.owner, o.tag) = {} => FindByAddr(stored', o.owner, o.tag) # {}
             /\ Known(stored, o) => Known(stored', o)]_vars
  BY RegionsStep
<1> QED
  BY <1>1, <1>2, <1>3, PTL DEF Spec, RegionsAccounted

-----------------------------------------------------------------------------
(* Badges.                                                                 *)

\* A badge that core gave out, to the target or the child, in their bootstrap or
\* after it.
IsPlain(b) == \E n \in Nat : b \in 1000 * n .. 1000 * n + 7

\* Badges that come with others differ from all that do not, and from each other.
LEMMA BadgesApart ==
  ASSUME NEW a, NEW b, IsPlain(a), IsPlain(b)
  PROVE  /\ a \in Nat /\ ~IsPlain(SpaceOf(a)) /\ ~IsPlain(DsOf(a)) /\ ~IsPlain(DsOf(SpaceOf(a)))
         /\ SpaceOf(a) # DsOf(b) /\ SpaceOf(a) # DsOf(SpaceOf(b)) /\ DsOf(a) # DsOf(SpaceOf(b))
         /\ (SpaceOf(a) = SpaceOf(b) \/ DsOf(a) = DsOf(b) => a = b)
         /\ SpaceOf(a) \in Nat /\ DsOf(a) \in Nat
<1>1. PICK n \in Nat : a \in 1000 * n .. 1000 * n + 7
  BY DEF IsPlain
<1>2. PICK m \in Nat : b \in 1000 * m .. 1000 * m + 7
  BY DEF IsPlain
<1>3. a \in Nat /\ b \in Nat
  BY <1>1, <1>2
<1>4. \A k \in Nat : /\ a + 100 \notin 1000 * k .. 1000 * k + 7
                     /\ a + 200 \notin 1000 * k .. 1000 * k + 7
                     /\ a + 100 + 200 \notin 1000 * k .. 1000 * k + 7
  BY <1>1
<1>5. a + 100 # b + 200 /\ a + 100 # b + 100 + 200 /\ a + 200 # b + 100 + 200
  BY <1>1, <1>2
<1> QED
  BY <1>3, <1>4, <1>5 DEF IsPlain, SpaceOf, DsOf

\* What the bootstrap of a component whose badges begin behind d makes (Fixed).
BootTable(d) ==
  { <<"pd", d + 1, 0, 0, 0, 1, TRUE>>, <<"space", d + 101, d + 1, d + 301, 0, 2, TRUE>>,
    <<"cpu", d + 2, 0, 0, 0, 3, TRUE>>, <<"ram", d + 3, 0, 0, 0, 4, TRUE>>,
    <<"thread", d + 4, d + 2, d + 1, 1, 5, TRUE>>, <<"ramds", d + 5, d + 3, 0, 0, 6, TRUE>>,
    <<"ramds", d + 6, d + 3, 0, 0, 7, TRUE>>, <<"source", d + 7, d + 1, 0, 0, 8, TRUE>>,
    <<"region", 0, d + 101, d + 6, 1, 9, TRUE>>, <<"region", 0, d + 101, d + 5, 2, 10, TRUE>> }

\* The list has these, each once.
BootsIn(l, d) ==
  /\ {Fixed(o) : o \in {p \in ToSet(l) : p.boot}} = BootTable(d)
  /\ \A i, j \in DOMAIN l : l[i].boot /\ Fixed(l[i]) = Fixed(l[j]) => i = j

LEMMA BootstrapTable ==
  ASSUME NEW d \in Nat
  PROVE  BootsIn(Bootstrapped(d), d)
<1> DEFINE sp == SpaceOf(d + 1)
           boot == << Obj("pd", d + 1, 0, 0, 0), Obj("space", sp, d + 1, DsOf(sp), 0),
                      Obj("cpu", d + 2, 0, 0, 0), Obj("ram", d + 3, 0, 0, 0),
                      Obj("thread", d + 4, d + 2, d + 1, 1),
                      Obj("ramds", d + 5, d + 3, 0, 0), Obj("ramds", d + 6, d + 3, 0, 0),
                      Obj("source", d + 7, d + 1, 0, 0),
                      Obj("region", 0, sp, d + 6, 1), Obj("region", 0, sp, d + 5, 2) >>
           b == [i \in DOMAIN boot |-> [boot[i] EXCEPT !.boot = TRUE, !.ts = i]]
<1>1. Bootstrapped(d) = b
  BY DEF Bootstrapped
<1>2. sp = d + 101 /\ DsOf(sp) = d + 301
  BY DEF SpaceOf, DsOf
<1> HIDE DEF sp
<1> DEFINE Mark(o, i) == [o EXCEPT !.boot = TRUE, !.ts = i]
           Is(o, kind, badge, owner, ref, tag, i) ==
             Fixed(o) = <<kind, badge, owner, ref, tag, i, TRUE>>
<1>3. \A kind, badge, owner, ref, tag, i :
        /\ Is(Mark(Obj(kind, badge, owner, ref, tag), i), kind, badge, owner, ref, tag, i)
        /\ Mark(Obj(kind, badge, owner, ref, tag), i).boot
  BY DEF Obj, Fixed
<1>14. \A i \in DOMAIN boot : b[i] = Mark(boot[i], i)
  BY DEF b
<1>15. DOMAIN boot = 1 .. 10 /\ DOMAIN b = 1 .. 10
  BY DEF b
<1>6. /\ boot[1] = Obj("pd", d + 1, 0, 0, 0) /\ boot[2] = Obj("space", sp, d + 1, DsOf(sp), 0)
      /\ boot[3] = Obj("cpu", d + 2, 0, 0, 0) /\ boot[4] = Obj("ram", d + 3, 0, 0, 0)
      /\ boot[5] = Obj("thread", d + 4, d + 2, d + 1, 1)
      /\ boot[6] = Obj("ramds", d + 5, d + 3, 0, 0) /\ boot[7] = Obj("ramds", d + 6, d + 3, 0, 0)
      /\ boot[8] = Obj("source", d + 7, d + 1, 0, 0)
      /\ boot[9] = Obj("region", 0, sp, d + 6, 1) /\ boot[10] = Obj("region", 0, sp, d + 5, 2)
  OBVIOUS
<1> HIDE DEF b, boot, Mark, Is
<1>5. DOMAIN b = 1 .. 10 /\ \A i \in 1 .. 10 : b[i] = Mark(boot[i], i)
  BY <1>14, <1>15
<1>7. \A i \in 1 .. 10 : i \in {1, 2, 3, 4, 5, 6, 7, 8, 9, 10}
  OBVIOUS
<1>8. 1 .. 10 = {1, 2, 3, 4, 5, 6, 7, 8, 9, 10}
  OBVIOUS
<1> DEFINE F(i) == Fixed(b[i])
<1>16. /\ 1 \in 1 .. 10 /\ 2 \in 1 .. 10 /\ 3 \in 1 .. 10 /\ 4 \in 1 .. 10 /\ 5 \in 1 .. 10
       /\ 6 \in 1 .. 10 /\ 7 \in 1 .. 10 /\ 8 \in 1 .. 10 /\ 9 \in 1 .. 10 /\ 10 \in 1 .. 10
  OBVIOUS
<1>17. /\ b[1] = Mark(boot[1], 1) /\ b[2] = Mark(boot[2], 2) /\ b[3] = Mark(boot[3], 3)
       /\ b[4] = Mark(boot[4], 4) /\ b[5] = Mark(boot[5], 5) /\ b[6] = Mark(boot[6], 6)
       /\ b[7] = Mark(boot[7], 7) /\ b[8] = Mark(boot[8], 8) /\ b[9] = Mark(boot[9], 9)
       /\ b[10] = Mark(boot[10], 10)
  BY <1>5, <1>16, Zenon
<1>18. /\ Is(b[1], "pd", d + 1, 0, 0, 0, 1)
      /\ Is(b[2], "space", sp, d + 1, DsOf(sp), 0, 2)
      /\ Is(b[3], "cpu", d + 2, 0, 0, 0, 3)
      /\ Is(b[4], "ram", d + 3, 0, 0, 0, 4)
      /\ Is(b[5], "thread", d + 4, d + 2, d + 1, 1, 5)
      /\ Is(b[6], "ramds", d + 5, d + 3, 0, 0, 6)
      /\ Is(b[7], "ramds", d + 6, d + 3, 0, 0, 7)
      /\ Is(b[8], "source", d + 7, d + 1, 0, 0, 8)
      /\ Is(b[9], "region", 0, sp, d + 6, 1, 9)
      /\ Is(b[10], "region", 0, sp, d + 5, 2, 10)
  BY <1>3, <1>6, <1>17
<1>9. /\ F(1) = <<"pd", d + 1, 0, 0, 0, 1, TRUE>>
      /\ F(2) = <<"space", sp, d + 1, DsOf(sp), 0, 2, TRUE>>
      /\ F(3) = <<"cpu", d + 2, 0, 0, 0, 3, TRUE>>
      /\ F(4) = <<"ram", d + 3, 0, 0, 0, 4, TRUE>>
      /\ F(5) = <<"thread", d + 4, d + 2, d + 1, 1, 5, TRUE>>
      /\ F(6) = <<"ramds", d + 5, d + 3, 0, 0, 6, TRUE>>
      /\ F(7) = <<"ramds", d + 6, d + 3, 0, 0, 7, TRUE>>
      /\ F(8) = <<"source", d + 7, d + 1, 0, 0, 8, TRUE>>
      /\ F(9) = <<"region", 0, sp, d + 6, 1, 9, TRUE>>
      /\ F(10) = <<"region", 0, sp, d + 5, 2, 10, TRUE>>
  BY <1>18 DEF Is, F
<1>10. \A i \in 1 .. 10 : b[i].boot
  BY <1>3, <1>6, <1>7, <1>17
<1> HIDE DEF F
<1>11. {F(i) : i \in 1 .. 10} = BootTable(d)
  <2>1. {F(i) : i \in {1, 2, 3, 4, 5, 6, 7, 8, 9, 10}}
          = {F(1), F(2), F(3), F(4), F(5), F(6), F(7), F(8), F(9), F(10)}
    OBVIOUS
  <2> QED
    BY <1>2, <1>8, <1>9, <2>1 DEF BootTable
<1>12. \A i, j \in 1 .. 10 : F(i) = F(j) => i = j
  <2>1. \A i \in 1 .. 10 : F(i)[6] = i
    BY <1>7, <1>9
  <2> QED
    BY <2>1
<1>13. {Fixed(o) : o \in {p \in ToSet(b) : p.boot}} = {F(i) : i \in 1 .. 10}
  BY <1>5, <1>10 DEF ToSet, F
<1> QED
  BY <1>1, <1>5, <1>11, <1>12, <1>13 DEF BootsIn, F

-----------------------------------------------------------------------------
(* The target's objects and requests.                                      *)

\* What holds members of a kind.
OwnerKinds(kind) ==
  CASE kind \in {"source", "context", "native", "space"} -> {"pd"}
    [] kind = "ramds"  -> {"ram"}
    [] kind = "thread" -> {"cpu"}
    [] kind = "map"    -> {"rm"}
    [] kind = "region" -> {"map", "space"}
    [] OTHER           -> {}

\* The badges of an object, whatever was made of it since.
Sane(o) ==
  /\ o.kind \in SessionKind \cup {"ramds", "source"} => o.ref = 0
  /\ o.kind \in SessionKind => o.owner = 0
  /\ o.kind \notin {"region", "space"} => IsPlain(o.badge)
  /\ o.kind = "space" => IsPlain(o.owner) /\ o.badge = SpaceOf(o.owner)
  /\ IsMap(o) => o.ref = DsOf(o.badge) /\ o.tag = 0
  /\ o.kind = "region" => o.badge = 0
  /\ IF o.boot THEN Fixed(o) \in BootTable(0)
               ELSE o.ts > 10 /\ (o.kind # "region" => o.badge >= 1000)

\* What nobody can take from a target.
MustStay ==
  { <<"pd", 1, 0, 0, 0, 1, TRUE>>, <<"space", 101, 1, 301, 0, 2, TRUE>>,
    <<"cpu", 2, 0, 0, 0, 3, TRUE>>, <<"ram", 3, 0, 0, 0, 4, TRUE>>,
    <<"thread", 4, 2, 1, 1, 5, TRUE>> }

\* No badge stands for two objects, all have their sessions.
TargetSound ==
  /\ \A o \in Objs : Sane(o) /\ o.kcap = 0 /\ (o.quota # 0 => o.kind \in SessionKind)
  /\ \A o, p \in Objs : o.kind # "region" /\ p.kind # "region" /\ o.badge = p.badge => o = p
  /\ \A o \in Objs : o.kind \in MemberKind =>
       \E p \in Objs : p.kind \in OwnerKinds(o.kind) /\ p.badge = o.owner
  /\ \A t \in MustStay : \E o \in Objs : Fixed(o) = t

\* The ways in which a request changes the objects.
One(kind, b, owner, ref, tag) ==
  /\ Insert(<<Obj(kind, b, owner, ref, tag)>>)
  /\ kind \in Kind \ {"pd", "space", "region"} /\ b \in FreeBadge
  /\ owner \in Nat /\ ref \in Nat /\ tag \in Nat
  /\ kind \in SessionKind \cup {"ramds", "source"} => ref = 0
  /\ kind = "map" => ref = DsOf(b) /\ tag = 0
  /\ IF kind \in SessionKind THEN owner = 0
     ELSE \E p \in Objs : p.kind \in OwnerKinds(kind) /\ p.badge = owner

Two(b) ==
  /\ Insert(<<Obj("pd", b, 0, 0, 0), Obj("space", SpaceOf(b), b, DsOf(SpaceOf(b)), 0)>>)
  /\ b \in FreeBadge

Gone(gone) ==
  /\ Withdraw(gone) /\ gone \subseteq Objs
  /\ \A o \in Objs, p \in gone : p.kind \in OwnerKinds(o.kind) /\ p.badge = o.owner => o \in gone
  /\ \A o \in gone : Fixed(o) \notin MustStay

Edited(o, new) ==
  /\ Update(o, new) /\ o \in Objs /\ new \in Object /\ Fixed(new) = Fixed(o) /\ Plain(new)
  /\ new.kcap = o.kcap /\ (new.quota = o.quota \/ o.kind \in SessionKind)

Requested ==
  \/ reply = 0 /\ \E kind, b, owner, ref, tag : One(kind, b, owner, ref, tag)
  \/ reply = 0 /\ \E b : Two(b)
  \/ reply = 0 /\ \E map \in Objs, ds \in Dataspaces, addr \in {2, 3} : Attach(map, ds, addr)
  \/ reply = 0 /\ \E gone : Gone(gone)
  \/ reply = 0 /\ \E o, new : Edited(o, new)
  \/ Receive

LEMMA KindFacts ==
  /\ Kind = SessionKind \cup MemberKind /\ SessionKind \cap MemberKind = {}
  /\ \A k : OwnerKinds(k) \subseteq Kind \ {"region", "native", "context", "source", "thread", "ramds"}
  /\ \A k \in SessionKind : OwnerKinds(k) = {}
  /\ \A k \in MemberKind \ {"region"} : OwnerKinds(k) \subseteq SessionKind
  /\ \A k \in SessionKind : k \notin {"region", "space", "map", "native", "context", "source", "thread", "ramds"}
  /\ OwnerKinds("region") = {"map", "space"}
BY DEF Kind, SessionKind, MemberKind, OwnerKinds

LEMMA FixedParts ==
  \A o : /\ Fixed(o)[1] = o.kind /\ Fixed(o)[2] = o.badge /\ Fixed(o)[3] = o.owner
         /\ Fixed(o)[4] = o.ref /\ Fixed(o)[5] = o.tag /\ Fixed(o)[6] = o.ts
         /\ Fixed(o)[7] = o.boot
BY DEF Fixed

\* Closing a session takes all that it holds, and nothing that must stay.
LEMMA CloseGone ==
  ASSUME TargetInv, TargetSound, NEW kind \in SessionKind, NEW o \in Objs, CloseSession(kind, o)
  PROVE  Gone({o} \cup Members(o))
<1> DEFINE gone == {o} \cup Members(o)
<1>1. Withdraw(gone) /\ o.kind = kind /\ ~o.boot
  BY DEF CloseSession
<1>2. gone \subseteq Objs
  BY DEF Members
<1>3. IsPlain(o.badge) /\ o.badge >= 1000 /\ o.kind # "region" /\ o.badge # 0
  BY <1>1, KindFacts DEF TargetSound, Sane, SessionKind
<1>4. ASSUME NEW x \in Objs, NEW p \in gone, p.kind \in OwnerKinds(x.kind), p.badge = x.owner
      PROVE  x \in gone
  <2>1. CASE p = o
    BY <1>4, <2>1 DEF Members
  <2>2. CASE p \in Objs /\ p.owner = o.badge
    <3>1. p.kind \notin SessionKind
      BY <1>3, <2>2 DEF TargetSound, Sane
    <3>2. IsMap(p)
      <4>1. x.kind \in Kind
        BY ObjectFacts
      <4> QED
        BY <1>4, <3>1, <4>1, KindFacts DEF IsMap
    <3> QED
      BY <1>4, <2>2, <3>2 DEF Members
  <2>3. CASE \E m \in Objs : m.owner = o.badge /\ IsMap(m) /\ p.owner = m.badge
    <3>1. PICK m \in Objs : m.owner = o.badge /\ IsMap(m) /\ p.owner = m.badge
      BY <2>3
    <3>2. p \in Objs /\ m.badge # 0 /\ m.kind # "region"
      BY <1>2, <3>1, ObjectFacts DEF IsMap
    <3>3. p.kind \notin SessionKind
      BY <3>1, <3>2 DEF TargetSound, Sane
    <3>4. IsMap(p)
      <4>1. x.kind \in Kind
        BY ObjectFacts
      <4> QED
        BY <1>4, <3>3, <4>1, KindFacts DEF IsMap
    <3>5. PICK q \in Objs : q.kind \in OwnerKinds(p.kind) /\ q.badge = p.owner
      BY <3>2, <3>4 DEF TargetSound, IsMap, MemberKind
    <3>6. q = m
      BY <3>1, <3>2, <3>5, KindFacts DEF TargetSound
    <3> QED
      BY <3>1, <3>4, <3>5, <3>6, KindFacts DEF IsMap, OwnerKinds
  <2> QED
    BY <2>1, <2>2, <2>3 DEF Members
<1>5. ASSUME NEW x \in gone, Fixed(x) \in MustStay PROVE FALSE
  <2>1. x.badge \in {0, 1, 2, 3, 4, 101}
    BY <1>5 DEF MustStay, Fixed
  <2>4. x.owner \in {0, 1, 2, 101}
    BY <1>5 DEF MustStay, Fixed
  <2>2. x \in Objs /\ x.owner # o.badge
    BY <1>2, <1>3, <2>4
  <2>3. CASE \E m \in Objs : m.owner = o.badge /\ IsMap(m) /\ x.owner = m.badge
    <3>1. PICK m \in Objs : m.owner = o.badge /\ IsMap(m) /\ x.owner = m.badge
      BY <2>3
    <3>2. m.kind \in {"map", "space"} /\ m.badge # 0 /\ Sane(m)
      BY <3>1, ObjectFacts DEF IsMap, TargetSound
    <3>3. CASE m.boot
      <4>1. m.owner \in {0, 1, 2, 3, 101}
        BY <3>2, <3>3 DEF Sane, BootTable, Fixed
      <4> QED
        BY <1>3, <3>1, <4>1
    <3>4. CASE ~m.boot
      BY <2>4, <3>1, <3>2, <3>4 DEF Sane
    <3> QED
      BY <3>3, <3>4
  <2> QED
    BY <1>3, <2>1, <2>2, <2>3 DEF Members
<1> HIDE DEF gone
<1>7. \A x \in gone : Fixed(x) \notin MustStay
  BY <1>5
<1>8. \A x \in Objs, p \in gone : p.kind \in OwnerKinds(x.kind) /\ p.badge = x.owner => x \in gone
  BY <1>4
<1>9. Gone(gone)
  BY <1>1, <1>2, <1>7, <1>8 DEF Gone
<1> QED
  BY <1>9 DEF gone

\* What answers with one new capability.
LEMMA OpenForm ==
  ASSUME TargetInv,
         \/ \E kind \in SessionKind \ {"pd"} : OpenSession(kind)
         \/ \E pd \in Of("pd") :
              \/ AllocSignalSource(pd)
              \/ \E source \in Of("source") : AllocContext(pd, source)
              \/ \E ep \in Of("thread") : AllocRpcCap(pd, ep)
              \/ \E cpu \in Of("cpu"), name \in {1, 2} : CreateThread(cpu, pd, name)
         \/ \E ram \in Of("ram") : AllocRam(ram)
         \/ \E rm \in Of("rm") : CreateMap(rm)
  PROVE  reply = 0 /\ \E kind, b, owner, ref, tag : One(kind, b, owner, ref, tag)
<1>1. \A o \in Objs : o.badge \in Nat /\ o \in Objs
  BY ObjectFacts
<1>2. 0 \in Nat /\ 1 \in Nat /\ 2 \in Nat
  OBVIOUS
<1>3. \A b \in FreeBadge : DsOf(b) \in Nat
  BY BadgeFacts DEF DsOf
<1>4. /\ SessionKind \ {"pd"} \subseteq Kind \ {"pd", "space", "region", "map"}
      /\ {"source", "context", "native", "ramds", "map", "thread"}
           \subseteq (Kind \ {"pd", "space", "region"}) \ SessionKind
  BY DEF Kind, SessionKind, MemberKind
<1>5. /\ \A k \in {"source", "context", "native"} : OwnerKinds(k) = {"pd"}
      /\ OwnerKinds("ramds") = {"ram"} /\ OwnerKinds("thread") = {"cpu"} /\ OwnerKinds("map") = {"rm"}
  BY DEF OwnerKinds
<1>6. CASE \E kind \in SessionKind \ {"pd"} : OpenSession(kind)
  <2>1. PICK kind \in SessionKind \ {"pd"} : OpenSession(kind)
    BY <1>6
  <2>2. PICK b \in FreeBadge : Insert(<<Obj(kind, b, 0, 0, 0)>>)
    BY <2>1 DEF OpenSession
  <2>3. One(kind, b, 0, 0, 0)
    BY <1>2, <1>4, <2>2 DEF One
  <2> QED
    BY <2>1, <2>3 DEF OpenSession, Request
<1>7. ASSUME NEW pd \in Of("pd"), AllocSignalSource(pd)
      PROVE  reply = 0 /\ \E kind, b, owner, ref, tag : One(kind, b, owner, ref, tag)
  <2>1. PICK b \in FreeBadge : Insert(<<Obj("source", b, pd.badge, 0, 0)>>)
    BY <1>7 DEF AllocSignalSource
  <2>2. One("source", b, pd.badge, 0, 0)
    BY <1>1, <1>2, <1>4, <1>5, <2>1 DEF One, Of
  <2> QED
    BY <1>7, <2>2 DEF AllocSignalSource, Request
<1>8. ASSUME NEW pd \in Of("pd"), NEW source \in Of("source"), AllocContext(pd, source)
      PROVE  reply = 0 /\ \E kind, b, owner, ref, tag : One(kind, b, owner, ref, tag)
  <2>1. PICK b \in FreeBadge : Insert(<<Obj("context", b, pd.badge, source.badge, 0)>>)
    BY <1>8 DEF AllocContext
  <2>2. One("context", b, pd.badge, source.badge, 0)
    BY <1>1, <1>2, <1>4, <1>5, <2>1 DEF One, Of
  <2> QED
    BY <1>8, <2>2 DEF AllocContext, Request
<1>9. ASSUME NEW pd \in Of("pd"), NEW ep \in Of("thread"), AllocRpcCap(pd, ep)
      PROVE  reply = 0 /\ \E kind, b, owner, ref, tag : One(kind, b, owner, ref, tag)
  <2>1. PICK b \in FreeBadge : Insert(<<Obj("native", b, pd.badge, ep.badge, 0)>>)
    BY <1>9 DEF AllocRpcCap
  <2>2. One("native", b, pd.badge, ep.badge, 0)
    BY <1>1, <1>2, <1>4, <1>5, <2>1 DEF One, Of
  <2> QED
    BY <1>9, <2>2 DEF AllocRpcCap, Request
<1>10. ASSUME NEW pd \in Of("pd"), NEW cpu \in Of("cpu"), NEW name \in {1, 2}, CreateThread(cpu, pd, name)
       PROVE  reply = 0 /\ \E kind, b, owner, ref, tag : One(kind, b, owner, ref, tag)
  <2>1. PICK b \in FreeBadge : Insert(<<Obj("thread", b, cpu.badge, pd.badge, name)>>)
    BY <1>10 DEF CreateThread
  <2>2. One("thread", b, cpu.badge, pd.badge, name)
    BY <1>1, <1>2, <1>4, <1>5, <2>1 DEF One, Of
  <2> QED
    BY <1>10, <2>2 DEF CreateThread, Request
<1>11. ASSUME NEW ram \in Of("ram"), AllocRam(ram)
       PROVE  reply = 0 /\ \E kind, b, owner, ref, tag : One(kind, b, owner, ref, tag)
  <2>1. PICK b \in FreeBadge : Insert(<<Obj("ramds", b, ram.badge, 0, 0)>>)
    BY <1>11 DEF AllocRam
  <2>2. One("ramds", b, ram.badge, 0, 0)
    BY <1>1, <1>2, <1>4, <1>5, <2>1 DEF One, Of
  <2> QED
    BY <1>11, <2>2 DEF AllocRam, Request
<1>12. ASSUME NEW rm \in Of("rm"), CreateMap(rm)
       PROVE  reply = 0 /\ \E kind, b, owner, ref, tag : One(kind, b, owner, ref, tag)
  <2>1. PICK b \in FreeBadge : Insert(<<Obj("map", b, rm.badge, DsOf(b), 0)>>)
    BY <1>12 DEF CreateMap
  <2>2. One("map", b, rm.badge, DsOf(b), 0)
    BY <1>1, <1>2, <1>3, <1>4, <1>5, <2>1 DEF One, Of
  <2> QED
    BY <1>12, <2>2 DEF CreateMap, Request
<1> QED
  BY <1>6, <1>7, <1>8, <1>9, <1>10, <1>11, <1>12

\* Every request is of one of the forms.
LEMMA RequestForms ==
  ASSUME TargetInv, TargetSound, TargetRequest
  PROVE  Requested
<1>1. \A o \in Objs : o \in Object /\ Plain(o) /\ o.badge \in Nat /\ o.ref \in Nat /\ o.quota \in Nat
                      /\ o.kind \in Kind
  BY ObjectFacts
<1>2. 0 \in Nat /\ 1 \in Nat /\ 2 \in Nat
  OBVIOUS
<1>3. CASE \/ OpenRamSession \/ OpenCpuSession \/ OpenRmSession \/ OpenLogSession \/ OpenTimerSession
  <2>1. {"ram", "cpu", "rm", "log", "timer"} \subseteq SessionKind \ {"pd"}
    BY DEF SessionKind
  <2> QED
    BY <1>3, <2>1, OpenForm DEF OpenRamSession, OpenCpuSession, OpenRmSession, OpenLogSession,
       OpenTimerSession, Requested
<1>4. CASE OpenPdSession
  <2>1. reply = 0 /\ \E b : Two(b)
    BY <1>4 DEF OpenPdSession, Request, Two
  <2> QED
    BY <2>1 DEF Requested
<1>5. ASSUME NEW o \in Objs,
             \/ ClosePdSession(o) \/ CloseRamSession(o) \/ CloseCpuSession(o)
             \/ CloseRmSession(o) \/ CloseLogSession(o) \/ CloseTimerSession(o)
      PROVE  Requested
  <2>1. PICK kind \in SessionKind : CloseSession(kind, o)
    BY <1>5 DEF SessionKind, ClosePdSession, CloseRamSession, CloseCpuSession, CloseRmSession,
       CloseLogSession, CloseTimerSession
  <2>2. Gone({o} \cup Members(o)) /\ reply = 0
    BY <2>1, CloseGone DEF CloseSession, Request
  <2> QED
    BY <2>2 DEF Requested
<1>6. ASSUME NEW o \in Objs, NEW sigh \in Nat, NEW mode \in Nat, NEW quota \in Nat, NEW new,
             Update(o, new), reply = 0,
             \/ new = [o EXCEPT !.sigh = sigh] /\ IsSignalling(o)
             \/ new = [o EXCEPT !.mode = mode] /\ o.kind \in {"thread", "timer"}
             \/ new = [o EXCEPT !.quota = quota] /\ o.kind \in SessionKind
      PROVE  Requested
  <2>1. /\ new \in Object /\ new.kind = o.kind /\ new.badge = o.badge /\ new.owner = o.owner
        /\ new.ref = o.ref /\ new.tag = o.tag /\ new.ts = o.ts /\ new.boot = o.boot /\ new.kcap = o.kcap
        /\ new.sigh = o.sigh \/ IsSignalling(o)
        /\ new.mode = o.mode \/ o.kind \in {"thread", "timer"}
        /\ new.quota = o.quota \/ o.kind \in SessionKind
    BY <1>1, <1>6 DEF Object
  <2>2. Fixed(new) = Fixed(o)
    BY <2>1 DEF Fixed
  <2>3. Plain(new)
    BY <1>1, <2>1 DEF Plain, IsSignalling
  <2>4. Edited(o, new)
    BY <1>6, <2>1, <2>2, <2>3 DEF Edited
  <2> QED
    BY <1>6, <2>4 DEF Requested
<1>7. ASSUME NEW o \in Objs,
             \/ UpgradePdSession(o) \/ UpgradeRamSession(o) \/ UpgradeCpuSession(o)
             \/ UpgradeRmSession(o) \/ UpgradeLogSession(o) \/ UpgradeTimerSession(o)
      PROVE  Requested
  <2>1. Update(o, [o EXCEPT !.quota = o.quota + 1]) /\ o.kind \in SessionKind /\ reply = 0
    BY <1>7 DEF UpgradePdSession, UpgradeRamSession, UpgradeCpuSession, UpgradeRmSession,
       UpgradeLogSession, UpgradeTimerSession, UpgradeSession, Request, SessionKind
  <2>2. o.quota + 1 \in Nat
    BY <1>1
  <2> QED
    BY <1>2, <1>6, <2>1, <2>2
<1>8. ASSUME NEW o \in Objs,
             \/ FreeSignalSource(o) \/ FreeContext(o) \/ FreeRpcCap(o) \/ FreeRam(o)
             \/ \E addr \in {2, 3} : Detach(o, addr)
      PROVE  Requested
  <2>1. PICK gone \in SUBSET Objs :
          /\ Withdraw(gone) /\ reply = 0
          /\ \A p \in gone : p.kind \in {"source", "context", "native", "ramds", "region"}
    <3>1. CASE FreeSignalSource(o) \/ FreeContext(o) \/ FreeRpcCap(o) \/ FreeRam(o)
      <4>1. /\ Withdraw({o}) /\ reply = 0
            /\ o.kind \in {"source", "context", "native", "ramds"}
        BY <3>1 DEF FreeSignalSource, FreeContext, FreeRpcCap, FreeCap, FreeRam, Request
      <4> QED
        BY <4>1
    <3>2. ASSUME NEW addr \in {2, 3}, Detach(o, addr)
          PROVE  \E gone \in SUBSET Objs :
                   /\ Withdraw(gone) /\ reply = 0
                   /\ \A p \in gone : p.kind \in {"source", "context", "native", "ramds", "region"}
      <4> DEFINE gone == FindByAddr(objs, o.badge, addr)
      <4>1. Withdraw(gone) /\ reply = 0
        BY <3>2 DEF Detach, Request
      <4>2. gone \subseteq Objs /\ \A p \in gone : p.kind = "region"
        BY FindByAddrFacts DEF TargetInv, Proper, Objs
      <4> HIDE DEF gone
      <4> QED
        BY <4>1, <4>2
    <3> QED
      BY <1>8, <3>1, <3>2
  <2>2. \A x \in Objs, p \in gone : p.kind \notin OwnerKinds(x.kind)
    BY <2>1, KindFacts
  <2>3. \A p \in gone : Fixed(p) \notin MustStay
    <3>1. \A p : Fixed(p) \in MustStay => p.kind \in {"pd", "space", "cpu", "ram", "thread"}
      BY DEF MustStay, Fixed
    <3> QED
      BY <2>1, <3>1
  <2>4. Gone(gone)
    BY <2>1, <2>2, <2>3 DEF Gone
  <2> QED
    BY <2>1, <2>4 DEF Requested
<1>9. ASSUME NEW o \in Objs, NEW c \in Of("context"),
             FaultHandler(o, c) \/ CpuExceptionSigh(o, c) \/ ThreadExceptionSigh(o, c) \/ TimerSigh(o, c)
      PROVE  Requested
  <2>1. c.badge \in Nat
    BY <1>1 DEF Of
  <2>2. IsSignalling(o) /\ Update(o, [o EXCEPT !.sigh = c.badge]) /\ reply = 0
    BY <1>9 DEF FaultHandler, CpuExceptionSigh, ThreadExceptionSigh, TimerSigh, SetSigh, IsMap,
       IsSignalling, Request
  <2> QED
    BY <1>2, <1>6, <2>1, <2>2
<1>10. ASSUME NEW o \in Objs, NEW enabled \in BOOLEAN,
              TriggerOnce(o) \/ TriggerPeriodic(o) \/ SingleStep(o, enabled)
       PROVE  Requested
  <2>1. /\ reply = 0 /\ o.kind \in {"thread", "timer"}
        /\ \E mode \in {0, 1, 2} : Update(o, [o EXCEPT !.mode = mode])
    BY <1>10 DEF TriggerOnce, TriggerPeriodic, SingleStep, SetMode, Request
  <2>2. PICK mode \in {0, 1, 2} : Update(o, [o EXCEPT !.mode = mode])
    BY <2>1
  <2>3. mode \in Nat
    OBVIOUS
  <2> QED
    BY <1>2, <1>6, <2>1, <2>2, <2>3
<1>11. ASSUME NEW o \in Objs, NEW ds \in Dataspaces, NEW addr \in {2, 3}, Attach(o, ds, addr)
       PROVE  Requested
  BY <1>11 DEF Attach, Request, Requested
<1>12. CASE Receive
  BY <1>12 DEF Requested
<1>13. CASE \/ \E pd \in Of("pd") :
                 \/ AllocSignalSource(pd)
                 \/ \E source \in Of("source") : AllocContext(pd, source)
                 \/ \E ep \in Of("thread") : AllocRpcCap(pd, ep)
                 \/ \E cpu \in Of("cpu"), name \in {1, 2} : CreateThread(cpu, pd, name)
            \/ \E ram \in Of("ram") : AllocRam(ram)
            \/ \E rm \in Of("rm") : CreateMap(rm)
  BY <1>13, OpenForm DEF Requested
<1>14. CASE SessionRequest
  BY <1>3, <1>4, <1>5, <1>7, <1>14 DEF SessionRequest
<1>15. \/ SessionRequest
       \/ \E o \in Objs :
            \/ FreeSignalSource(o) \/ FreeContext(o) \/ FreeRpcCap(o) \/ FreeRam(o)
            \/ \E addr \in {2, 3} : Detach(o, addr)
            \/ \E c \in Of("context") :
                 \/ FaultHandler(o, c) \/ CpuExceptionSigh(o, c)
                 \/ ThreadExceptionSigh(o, c) \/ TimerSigh(o, c)
            \/ \E enabled \in BOOLEAN : TriggerOnce(o) \/ TriggerPeriodic(o) \/ SingleStep(o, enabled)
            \/ \E ds \in Dataspaces, addr \in {2, 3} : Attach(o, ds, addr)
       \/ \E pd \in Of("pd") :
            \/ AllocSignalSource(pd)
            \/ \E source \in Of("source") : AllocContext(pd, source)
            \/ \E ep \in Of("thread") : AllocRpcCap(pd, ep)
            \/ \E cpu \in Of("cpu"), name \in {1, 2} : CreateThread(cpu, pd, name)
       \/ \E ram \in Of("ram") : AllocRam(ram)
       \/ \E rm \in Of("rm") : CreateMap(rm)
       \/ Receive
  BY DEF TargetRequest
<1> QED
  BY <1>8, <1>9, <1>10, <1>11, <1>12, <1>13, <1>14, <1>15

-----------------------------------------------------------------------------
(* The target stays sound.                                                 *)

LEMMA NewParts ==
  ASSUME NEW kind, NEW badge, NEW owner, NEW ref, NEW tag, NEW ts, NEW o,
         o = New(kind, badge, owner, ref, tag, ts)
  PROVE  /\ o.kind = kind /\ o.badge = badge /\ o.owner = owner /\ o.ref = ref /\ o.tag = tag
         /\ o.ts = ts /\ ~o.boot /\ o.kcap = 0 /\ o.quota = 0 /\ o.sigh = 0 /\ o.mode = 0
<1> DEFINE r == Obj(kind, badge, owner, ref, tag)
<1>1. o = [r EXCEPT !.ts = ts]
  BY DEF New
<1>2. /\ r.kind = kind /\ r.badge = badge /\ r.owner = owner /\ r.ref = ref /\ r.tag = tag
      /\ ~r.boot /\ r.kcap = 0 /\ r.quota = 0 /\ r.sigh = 0 /\ r.mode = 0
      /\ DOMAIN r = {"kind", "badge", "owner", "ref", "tag", "ts", "boot", "kcap", "sigh", "mode", "quota"}
  BY DEF Obj
<1> HIDE DEF r
<1> QED
  BY <1>1, <1>2

\* New objects with badges of their own, whose sessions are there.
LEMMA SoundMore ==
  ASSUME TargetInv, TargetSound, NEW new, Objs' = new \cup Objs,
         \A o \in new : Sane(o) /\ ~o.boot /\ o.kcap = 0 /\ o.quota = 0,
         \A o \in new, p \in new \cup Objs :
           o.kind # "region" /\ p.kind # "region" /\ o.badge = p.badge => o = p,
         \A o \in new : o.kind \in MemberKind =>
           \E p \in new \cup Objs : p.kind \in OwnerKinds(o.kind) /\ p.badge = o.owner
  PROVE  TargetSound'
<1>1. \A o \in Objs' : Sane(o) /\ o.kcap = 0 /\ (o.quota # 0 => o.kind \in SessionKind)
  BY DEF TargetSound
<1>2. \A o, p \in Objs' : o.kind # "region" /\ p.kind # "region" /\ o.badge = p.badge => o = p
  BY DEF TargetSound
<1>3. \A o \in Objs' : o.kind \in MemberKind =>
        \E p \in Objs' : p.kind \in OwnerKinds(o.kind) /\ p.badge = o.owner
  BY DEF TargetSound
<1>4. \A t \in MustStay : \E o \in Objs' : Fixed(o) = t
  BY DEF TargetSound
<1> QED
  BY <1>1, <1>2, <1>3, <1>4 DEF TargetSound

\* A badge that core gives out, and the one of the address space it comes with.
LEMMA FreeFacts ==
  ASSUME TargetInv, TargetSound, NEW b \in FreeBadge
  PROVE  /\ IsPlain(b) /\ b >= 1000 /\ b \in Nat
         /\ \A o \in Objs : o.kind # "region" => o.badge # b /\ o.badge # SpaceOf(b)
<1>1. b \in Nat /\ \A o \in Objs : o.kind # "region" => o.badge # b
  BY BadgeFacts
<1>2. PICK n \in 11 .. 11 + created : b = 1000 * n
  BY DEF FreeBadge, NthBadge
<1>3. n \in Nat /\ n >= 11
  BY <1>2 DEF TargetInv
<1>4. IsPlain(b) /\ b >= 1000
  BY <1>2, <1>3 DEF IsPlain
<1>5. ASSUME NEW o \in Objs, o.kind # "region", o.badge = SpaceOf(b) PROVE FALSE
  <2>1. CASE o.kind # "space"
    BY <1>4, <1>5, <2>1, BadgesApart DEF TargetSound, Sane
  <2>2. CASE o.kind = "space"
    <3>1. IsPlain(o.owner) /\ o.badge = SpaceOf(o.owner)
      BY <2>2 DEF TargetSound, Sane
    <3>2. o.owner = b
      BY <1>4, <1>5, <3>1, BadgesApart
    <3>3. PICK p \in Objs : p.kind = "pd" /\ p.badge = b
      BY <2>2, <3>2 DEF TargetInv, Owned, Objs
    <3> QED
      BY <1>1, <3>3
  <2> QED
    BY <2>1, <2>2
<1> QED
  BY <1>1, <1>4, <1>5

LEMMA OneSound ==
  ASSUME TargetInv, TargetSound,
         NEW kind, NEW b, NEW owner, NEW ref, NEW tag, One(kind, b, owner, ref, tag)
  PROVE  TargetSound'
<1> DEFINE n == 10 + created'
           o == New(kind, b, owner, ref, tag, n)
           new == <<o>>
<1>1. created' = created + 1 /\ objs' = new \o objs /\ created \in Nat /\ objs \in Seq(Object)
  BY DEF One, Insert, New, TargetInv, Proper
<1>2. n \in Nat /\ n > 10
  BY <1>1
<1> HIDE DEF n
<1>3. /\ o.kind = kind /\ o.badge = b /\ o.owner = owner /\ o.ref = ref /\ o.tag = tag
      /\ o.ts = n /\ ~o.boot /\ o.kcap = 0 /\ o.quota = 0
  <2> HIDE DEF o
  <2> QED
    BY NewParts DEF o
<1>4. /\ IsPlain(b) /\ b >= 1000 /\ b \in Nat /\ b \in FreeBadge
      /\ \A p \in Objs : p.kind # "region" => p.badge # b
  BY FreeFacts DEF One
<1>5. o \in Object
  <2>1. kind \in Kind /\ owner \in Nat /\ ref \in Nat /\ tag \in Nat
    BY DEF One
  <2> HIDE DEF o
  <2>2. IsNew(o, kind, b, owner, tag, n)
    BY <1>2, <1>4, <2>1, ObjFacts DEF o
  <2> QED
    BY <2>2 DEF IsNew
<1> HIDE DEF o
<1>6. Objs' = {o} \cup Objs
  <2>1. new \in Seq(Object) /\ ToSet(new) = {o}
    BY <1>5 DEF ToSet
  <2> HIDE DEF new
  <2> QED
    BY <1>1, <2>1, ConcatSet DEF Objs
<1>7. Sane(o)
  <2>1. kind \notin {"pd", "space", "region"}
    BY DEF One
  <2>2. IsMap(o) => o.ref = DsOf(o.badge) /\ o.tag = 0
    BY <1>3, <2>1 DEF One, IsMap
  <2>3. o.kind \in SessionKind => o.owner = 0
    BY <1>3 DEF One
  <2>4. o.kind \in SessionKind \cup {"ramds", "source"} => o.ref = 0
    BY <1>3 DEF One
  <2> QED
    BY <1>2, <1>3, <1>4, <2>1, <2>2, <2>3, <2>4 DEF Sane
<1>8. o.kind \in MemberKind => \E p \in {o} \cup Objs : p.kind \in OwnerKinds(o.kind) /\ p.badge = o.owner
  BY <1>3, KindFacts DEF One
<1> DEFINE N == {o}
<1>9. /\ Objs' = N \cup Objs
      /\ \A x \in N : Sane(x) /\ ~x.boot /\ x.kcap = 0 /\ x.quota = 0
      /\ \A x \in N, p \in N \cup Objs :
           x.kind # "region" /\ p.kind # "region" /\ x.badge = p.badge => x = p
      /\ \A x \in N : x.kind \in MemberKind =>
           \E p \in N \cup Objs : p.kind \in OwnerKinds(x.kind) /\ p.badge = x.owner
  BY <1>3, <1>4, <1>6, <1>7, <1>8
<1> HIDE DEF N
<1> QED
  BY <1>9, SoundMore

LEMMA TwoSound ==
  ASSUME TargetInv, TargetSound, NEW b, Two(b)
  PROVE  TargetSound'
<1> DEFINE n == 10 + created'
           s == SpaceOf(b)
           x == Obj("pd", b, 0, 0, 0)
           y == Obj("space", s, b, DsOf(s), 0)
           o == New("pd", b, 0, 0, 0, n)
           p == New("space", s, b, DsOf(s), 0, n)
           both == <<x, y>>
           new == <<o, p>>
<1>1. /\ created' = created + 1 /\ created \in Nat /\ objs \in Seq(Object)
      /\ objs' = [i \in DOMAIN both |-> [both[i] EXCEPT !.ts = n]] \o objs
  BY DEF Two, Insert, TargetInv, Proper
<1>2. /\ IsPlain(b) /\ b >= 1000 /\ b \in Nat /\ b \in FreeBadge
      /\ \A q \in Objs : q.kind # "region" => q.badge # b /\ q.badge # s
  BY FreeFacts DEF Two
<1>3. n \in Nat /\ n > 10
  BY <1>1
<1>4. s \in Nat /\ DsOf(s) \in Nat /\ s # b /\ s >= 1000
  BY <1>2 DEF SpaceOf, DsOf
<1> HIDE DEF n, s
<1>5. /\ o.kind = "pd" /\ o.badge = b /\ o.owner = 0 /\ o.ref = 0 /\ o.tag = 0
      /\ o.ts = n /\ ~o.boot /\ o.kcap = 0 /\ o.quota = 0
  <2> HIDE DEF o
  <2> QED
    BY NewParts DEF o
<1>6. /\ p.kind = "space" /\ p.badge = s /\ p.owner = b /\ p.ref = DsOf(s) /\ p.tag = 0
      /\ p.ts = n /\ ~p.boot /\ p.kcap = 0 /\ p.quota = 0
  <2> DEFINE d == DsOf(s)
  <2>1. p = New("space", s, b, d, 0, n)
    OBVIOUS
  <2> HIDE DEF p, d
  <2>2. /\ p.kind = "space" /\ p.badge = s /\ p.owner = b /\ p.ref = d /\ p.tag = 0
        /\ p.ts = n /\ ~p.boot /\ p.kcap = 0 /\ p.quota = 0
    BY <2>1, NewParts
  <2> QED
    BY <2>2 DEF d
<1>7. o = [x EXCEPT !.ts = n] /\ p = [y EXCEPT !.ts = n]
  BY DEF New
<1> HIDE DEF x, y, o, p
<1>8. Objs' = {o, p} \cup Objs
  <2>1. [i \in DOMAIN both |-> [both[i] EXCEPT !.ts = n]] = new
    BY <1>7
  <2>2. new \in Seq({o, p}) /\ new[1] = o /\ new[2] = p /\ DOMAIN new = {1, 2}
    OBVIOUS
  <2>3. ToSet(new) = {o, p}
    BY <2>2 DEF ToSet
  <2>4. objs' = new \o objs
    BY <1>1, <2>1
  <2> HIDE DEF new
  <2>5. new \in Seq({o, p} \cup Object) /\ objs \in Seq({o, p} \cup Object)
    <3>1. \A V, W : V \subseteq W => Seq(V) \subseteq Seq(W)
      OBVIOUS
    <3> QED
      BY <1>1, <2>2, <3>1
  <2> QED
    BY <2>3, <2>4, <2>5, ConcatSet DEF Objs
<1>9. Sane(o)
  BY <1>2, <1>3, <1>5 DEF Sane, IsMap, SessionKind
<1>10. Sane(p)
  <2>1. p.badge = SpaceOf(p.owner) /\ p.ref = DsOf(p.badge)
    BY <1>6 DEF s
  <2> QED
    BY <1>2, <1>3, <1>4, <1>6, <2>1 DEF Sane, IsMap, SessionKind
<1>11. /\ "pd" \notin MemberKind /\ OwnerKinds("space") = {"pd"}
  BY DEF MemberKind, OwnerKinds
<1> DEFINE N == {o, p}
<1>12. /\ Objs' = N \cup Objs
       /\ \A z \in N : Sane(z) /\ ~z.boot /\ z.kcap = 0 /\ z.quota = 0
  BY <1>5, <1>6, <1>8, <1>9, <1>10
<1>13. \A z \in N, q \in N \cup Objs :
         z.kind # "region" /\ q.kind # "region" /\ z.badge = q.badge => z = q
  BY <1>2, <1>4, <1>5, <1>6
<1>14. \A z \in N : z.kind \in MemberKind =>
         \E q \in N \cup Objs : q.kind \in OwnerKinds(z.kind) /\ q.badge = z.owner
  BY <1>5, <1>6, <1>11
<1> HIDE DEF N
<1> QED
  BY <1>12, <1>13, <1>14, SoundMore

LEMMA AttachSound ==
  ASSUME TargetInv, TargetSound, NEW map \in Objs, NEW ds \in Nat, NEW addr \in Nat,
         Attach(map, ds, addr)
  PROVE  TargetSound'
<1> DEFINE n == 10 + created'
           badge == map.badge
           o == New("region", 0, badge, ds, addr, n)
           new == <<o>>
<1>1. /\ created' = created + 1 /\ objs' = new \o objs /\ created \in Nat /\ objs \in Seq(Object)
      /\ IsMap(map)
  BY DEF Attach, Cons, New, TargetInv, Proper
<1>2. n \in Nat /\ n > 10
  BY <1>1
<1>3. badge \in Nat
  BY ObjectFacts
<1> HIDE DEF n, badge
<1>4. /\ o.kind = "region" /\ o.badge = 0 /\ o.owner = badge
      /\ o.ts = n /\ ~o.boot /\ o.kcap = 0 /\ o.quota = 0
  <2> HIDE DEF o
  <2> QED
    BY NewParts DEF o
<1>5. o \in Object
  <2>1. "region" \in Kind /\ 0 \in Nat
    BY DEF Kind, MemberKind
  <2> HIDE DEF o
  <2>2. IsNew(o, "region", 0, badge, addr, n)
    BY <1>2, <1>3, <2>1, ObjFacts DEF o
  <2> QED
    BY <2>2 DEF IsNew
<1> HIDE DEF o
<1>6. Objs' = {o} \cup Objs
  <2>1. new \in Seq(Object) /\ ToSet(new) = {o}
    BY <1>5 DEF ToSet
  <2> HIDE DEF new
  <2> QED
    BY <1>1, <2>1, ConcatSet DEF Objs
<1>7. Sane(o)
  BY <1>2, <1>4 DEF Sane, IsMap, SessionKind
<1>8. \E p \in {o} \cup Objs : p.kind \in OwnerKinds(o.kind) /\ p.badge = o.owner
  BY <1>1, <1>4, KindFacts DEF IsMap, badge
<1> DEFINE N == {o}
<1>9. /\ Objs' = N \cup Objs
      /\ \A x \in N : Sane(x) /\ ~x.boot /\ x.kcap = 0 /\ x.quota = 0
      /\ \A x \in N, p \in N \cup Objs :
           x.kind # "region" /\ p.kind # "region" /\ x.badge = p.badge => x = p
      /\ \A x \in N : x.kind \in MemberKind =>
           \E p \in N \cup Objs : p.kind \in OwnerKinds(x.kind) /\ p.badge = x.owner
  BY <1>4, <1>6, <1>7, <1>8
<1> HIDE DEF N
<1> QED
  BY <1>9, SoundMore

LEMMA GoneSound ==
  ASSUME TargetInv, TargetSound, NEW gone, Gone(gone)
  PROVE  TargetSound'
<1>1. Objs' = Objs \ gone
  <2>1. objs \in Seq(Object) /\ objs' = Only(objs, Objs \ gone)
    BY DEF Gone, Withdraw, TargetInv, Proper
  <2>2. ToSet(objs') = ToSet(objs) \cap (Objs \ gone)
    BY <2>1, OnlyFacts
  <2> QED
    BY <2>2 DEF Objs
<1>2. \A o \in Objs' : o.kind \in MemberKind =>
        \E p \in Objs' : p.kind \in OwnerKinds(o.kind) /\ p.badge = o.owner
  BY <1>1 DEF TargetSound, Gone
<1>3. \A t \in MustStay : \E o \in Objs' : Fixed(o) = t
  BY <1>1 DEF TargetSound, Gone
<1>4. /\ \A o \in Objs' : Sane(o) /\ o.kcap = 0 /\ (o.quota # 0 => o.kind \in SessionKind)
      /\ \A o, p \in Objs' : o.kind # "region" /\ p.kind # "region" /\ o.badge = p.badge => o = p
  BY <1>1 DEF TargetSound
<1> QED
  BY <1>2, <1>3, <1>4 DEF TargetSound

\* Sane looks at what never changes.
LEMMA SaneFixed ==
  ASSUME NEW o, NEW p, Fixed(o) = Fixed(p), Sane(o)
  PROVE  Sane(p)
<1>1. /\ o.kind = p.kind /\ o.badge = p.badge /\ o.owner = p.owner /\ o.ref = p.ref
      /\ o.tag = p.tag /\ o.ts = p.ts /\ o.boot = p.boot
  BY FixedParts
<1>2. o.boot => Fixed(p) \in BootTable(0)
  BY DEF Sane
<1> QED
  BY <1>1, <1>2 DEF Sane, IsMap

LEMMA EditedSound ==
  ASSUME TargetInv, TargetSound, NEW o, NEW new, Edited(o, new)
  PROVE  TargetSound'
<1> DEFINE F(p) == IF p = o THEN new ELSE p
<1>1. /\ objs' = [i \in DOMAIN objs |-> IF objs[i] = o THEN new ELSE objs[i]]
      /\ o \in Objs /\ Fixed(new) = Fixed(o) /\ new.kcap = o.kcap
      /\ new.quota = o.quota \/ o.kind \in SessionKind
  BY DEF Edited, Update, Changed
<1>2. Objs' = {F(p) : p \in Objs}
  BY <1>1 DEF Objs, ToSet
<1>3. \A p \in Objs : Fixed(F(p)) = Fixed(p)
  BY <1>1
<1>4. \A p : /\ p.kind = Fixed(p)[1] /\ p.badge = Fixed(p)[2] /\ p.owner = Fixed(p)[3]
  BY FixedParts
<1>5. \A p \in Objs : F(p).kind = p.kind /\ F(p).badge = p.badge /\ F(p).owner = p.owner
  BY <1>3, <1>4
<1>6. \A p \in Objs : F(p).kcap = 0 /\ (F(p).quota # 0 => F(p).kind \in SessionKind)
  BY <1>1, <1>5 DEF TargetSound
<1> HIDE DEF F
<1>7. \A p \in Objs' : Sane(p) /\ p.kcap = 0 /\ (p.quota # 0 => p.kind \in SessionKind)
  <2>1. \A p \in Objs : Sane(F(p))
    BY <1>3, SaneFixed DEF TargetSound
  <2> QED
    BY <1>2, <1>6, <2>1
<1>8. \A p, q \in Objs' : p.kind # "region" /\ q.kind # "region" /\ p.badge = q.badge => p = q
  BY <1>2, <1>5 DEF TargetSound
<1>9. \A p \in Objs' : p.kind \in MemberKind =>
        \E q \in Objs' : q.kind \in OwnerKinds(p.kind) /\ q.badge = p.owner
  <2>1. ASSUME NEW p \in Objs, p.kind \in MemberKind
        PROVE  \E q \in Objs' : q.kind \in OwnerKinds(p.kind) /\ q.badge = p.owner
    <3>1. PICK q \in Objs : q.kind \in OwnerKinds(p.kind) /\ q.badge = p.owner
      BY <2>1 DEF TargetSound
    <3> QED
      BY <1>2, <1>5, <3>1
  <2> QED
    BY <1>2, <1>5, <2>1
<1>10. \A t \in MustStay : \E p \in Objs' : Fixed(p) = t
  <2>1. ASSUME NEW t \in MustStay PROVE \E p \in Objs' : Fixed(p) = t
    <3>1. PICK q \in Objs : Fixed(q) = t
      BY DEF TargetSound
    <3> QED
      BY <1>2, <1>3, <3>1
  <2> QED
    BY <2>1
<1> QED
  BY <1>7, <1>8, <1>9, <1>10 DEF TargetSound

LEMMA SoundKept ==
  ASSUME TargetInv, TargetSound, TargetRequest
  PROVE  TargetSound'
<1>1. CASE \E kind, b, owner, ref, tag : One(kind, b, owner, ref, tag)
  BY <1>1, OneSound
<1>2. CASE \E b : Two(b)
  BY <1>2, TwoSound
<1>3. CASE \E map \in Objs, ds \in Dataspaces, addr \in {2, 3} : Attach(map, ds, addr)
  <2>1. Dataspaces \subseteq Nat /\ {2, 3} \subseteq Nat
    BY ObjectFacts DEF Dataspaces, Of, ForeignDs
  <2> QED
    BY <1>3, <2>1, AttachSound
<1>4. CASE \E gone : Gone(gone)
  BY <1>4, GoneSound
<1>5. CASE \E o, new : Edited(o, new)
  BY <1>5, EditedSound
<1>6. CASE Receive
  BY <1>6 DEF Receive, TargetSound, Objs
<1> QED
  BY <1>1, <1>2, <1>3, <1>4, <1>5, <1>6, RequestForms DEF Requested

\* The rows of the table, one by one.
BootRow(o, d) ==
  \/ o.kind = "pd" /\ o.badge = d + 1 /\ o.owner = 0 /\ o.ref = 0 /\ o.tag = 0 /\ o.ts = 1
  \/ o.kind = "space" /\ o.badge = d + 101 /\ o.owner = d + 1 /\ o.ref = d + 301 /\ o.tag = 0 /\ o.ts = 2
  \/ o.kind = "cpu" /\ o.badge = d + 2 /\ o.owner = 0 /\ o.ref = 0 /\ o.tag = 0 /\ o.ts = 3
  \/ o.kind = "ram" /\ o.badge = d + 3 /\ o.owner = 0 /\ o.ref = 0 /\ o.tag = 0 /\ o.ts = 4
  \/ o.kind = "thread" /\ o.badge = d + 4 /\ o.owner = d + 2 /\ o.ref = d + 1 /\ o.tag = 1 /\ o.ts = 5
  \/ o.kind = "ramds" /\ o.badge = d + 5 /\ o.owner = d + 3 /\ o.ref = 0 /\ o.tag = 0 /\ o.ts = 6
  \/ o.kind = "ramds" /\ o.badge = d + 6 /\ o.owner = d + 3 /\ o.ref = 0 /\ o.tag = 0 /\ o.ts = 7
  \/ o.kind = "source" /\ o.badge = d + 7 /\ o.owner = d + 1 /\ o.ref = 0 /\ o.tag = 0 /\ o.ts = 8
  \/ o.kind = "region" /\ o.badge = 0 /\ o.owner = d + 101 /\ o.ref = d + 6 /\ o.tag = 1 /\ o.ts = 9
  \/ o.kind = "region" /\ o.badge = 0 /\ o.owner = d + 101 /\ o.ref = d + 5 /\ o.tag = 2 /\ o.ts = 10

LEMMA BootRows ==
  ASSUME NEW d \in Nat, NEW o, Fixed(o) \in BootTable(d)
  PROVE  BootRow(o, d) /\ o.boot = TRUE
<1>0. /\ Fixed(o)[1] = o.kind /\ Fixed(o)[2] = o.badge /\ Fixed(o)[3] = o.owner
      /\ Fixed(o)[4] = o.ref /\ Fixed(o)[5] = o.tag /\ Fixed(o)[6] = o.ts
      /\ Fixed(o)[7] = o.boot
  BY FixedParts
<1> DEFINE t == Fixed(o)
<1> HIDE DEF t
<1>1. /\ t[1] = o.kind /\ t[2] = o.badge /\ t[3] = o.owner
      /\ t[4] = o.ref /\ t[5] = o.tag /\ t[6] = o.ts /\ t[7] = o.boot
  BY <1>0 DEF t
<1>2. \/ t = <<"pd", d + 1, 0, 0, 0, 1, TRUE>> \/ t = <<"space", d + 101, d + 1, d + 301, 0, 2, TRUE>>
      \/ t = <<"cpu", d + 2, 0, 0, 0, 3, TRUE>> \/ t = <<"ram", d + 3, 0, 0, 0, 4, TRUE>>
      \/ t = <<"thread", d + 4, d + 2, d + 1, 1, 5, TRUE>> \/ t = <<"ramds", d + 5, d + 3, 0, 0, 6, TRUE>>
      \/ t = <<"ramds", d + 6, d + 3, 0, 0, 7, TRUE>> \/ t = <<"source", d + 7, d + 1, 0, 0, 8, TRUE>>
      \/ t = <<"region", 0, d + 101, d + 6, 1, 9, TRUE>> \/ t = <<"region", 0, d + 101, d + 5, 2, 10, TRUE>>
  BY DEF BootTable, t
<1>3. CASE t = <<"pd", d + 1, 0, 0, 0, 1, TRUE>>
  BY <1>1, <1>3 DEF BootRow
<1>4. CASE t = <<"space", d + 101, d + 1, d + 301, 0, 2, TRUE>>
  BY <1>1, <1>4 DEF BootRow
<1>5. CASE t = <<"cpu", d + 2, 0, 0, 0, 3, TRUE>>
  BY <1>1, <1>5 DEF BootRow
<1>6. CASE t = <<"ram", d + 3, 0, 0, 0, 4, TRUE>>
  BY <1>1, <1>6 DEF BootRow
<1>7. CASE t = <<"thread", d + 4, d + 2, d + 1, 1, 5, TRUE>>
  BY <1>1, <1>7 DEF BootRow
<1>8. CASE t = <<"ramds", d + 5, d + 3, 0, 0, 6, TRUE>>
  BY <1>1, <1>8 DEF BootRow
<1>9. CASE t = <<"ramds", d + 6, d + 3, 0, 0, 7, TRUE>>
  BY <1>1, <1>9 DEF BootRow
<1>10. CASE t = <<"source", d + 7, d + 1, 0, 0, 8, TRUE>>
  BY <1>1, <1>10 DEF BootRow
<1>11. CASE t = <<"region", 0, d + 101, d + 6, 1, 9, TRUE>>
  BY <1>1, <1>11 DEF BootRow
<1>12. CASE t = <<"region", 0, d + 101, d + 5, 2, 10, TRUE>>
  BY <1>1, <1>12 DEF BootRow
<1> QED
  BY <1>2, <1>3, <1>4, <1>5, <1>6, <1>7, <1>8, <1>9, <1>10, <1>11, <1>12

\* A row of the table is in a list that has the bootstrap.
LEMMA BootsThere ==
  ASSUME NEW d \in Nat, NEW l, BootsIn(l, d), NEW t \in BootTable(d)
  PROVE  \E o \in ToSet(l) : o.boot /\ Fixed(o) = t
BY DEF BootsIn

LEMMA BootSane ==
  ASSUME NEW o, Fixed(o) \in BootTable(0)
  PROVE  Sane(o)
<1>1. BootRow(o, 0) /\ o.boot = TRUE
  <2>1. 0 \in Nat
    OBVIOUS
  <2> QED
    BY <2>1, BootRows
<1>2. \A b \in 0 .. 7 : IsPlain(b)
  <2>1. 0 \in Nat
    OBVIOUS
  <2> QED
    BY <2>1 DEF IsPlain
<1>3. /\ o.kind \in SessionKind \cup {"ramds", "source"} => o.ref = 0
      /\ o.kind \in SessionKind => o.owner = 0
  BY <1>1 DEF BootRow, SessionKind
<1>4. o.kind \notin {"region", "space"} => o.badge \in 0 .. 7
  BY <1>1 DEF BootRow
<1>5. o.kind = "space" => o.owner \in 0 .. 7 /\ o.badge = o.owner + 100
  BY <1>1 DEF BootRow
<1>6. IsMap(o) => o.ref = o.badge + 200 /\ o.tag = 0
  BY <1>1 DEF BootRow, IsMap
<1>7. o.kind = "region" => o.badge = 0
  BY <1>1 DEF BootRow
<1> QED
  BY <1>1, <1>2, <1>3, <1>4, <1>5, <1>6, <1>7 DEF Sane, SpaceOf, DsOf

LEMMA SoundInitially == TargetInit => TargetSound
<1> SUFFICES ASSUME TargetInit PROVE TargetSound
  OBVIOUS
<1> DEFINE b == Bootstrapped(0)
<1>1. /\ b \in Seq(Object) /\ \A o \in ToSet(b) : o.boot /\ o.kcap = 0 /\ o.quota = 0
      /\ BootsIn(b, 0)
  <2>1. 0 \in Nat
    OBVIOUS
  <2> HIDE DEF b
  <2>2. LET c == Bootstrapped(0)
        IN  c \in Seq(Object) /\ \A o \in ToSet(c) : o.boot /\ o.kcap = 0 /\ o.quota = 0
    BY <2>1, BootFacts
  <2>3. BootsIn(Bootstrapped(0), 0)
    BY <2>1, BootstrapTable
  <2> QED
    BY <2>2, <2>3 DEF b
<1>2. objs = Reverse(b)
  BY DEF TargetInit
<1> HIDE DEF b
<1>3. Objs = ToSet(b)
  BY <1>1, <1>2, ReverseFacts DEF Objs
<1>4. \A o \in Objs : Fixed(o) \in BootTable(0) /\ o.kcap = 0 /\ o.quota = 0
  BY <1>1, <1>3 DEF BootsIn
<1>5. \A t \in BootTable(0) : \E o \in Objs : Fixed(o) = t
  BY <1>1, <1>3 DEF BootsIn
<1>6. \A o \in Objs : BootRow(o, 0)
  <2>1. 0 \in Nat
    OBVIOUS
  <2> QED
    BY <1>4, <2>1, BootRows
<1>7. \A o \in Objs : Sane(o)
  BY <1>4, BootSane
<1>8. ASSUME NEW o \in Objs, NEW p \in Objs, o.kind # "region", p.kind # "region", o.badge = p.badge
      PROVE  o = p
  <2>1. o.ts = p.ts
    BY <1>6, <1>8 DEF BootRow
  <2>2. PICK i \in DOMAIN b, j \in DOMAIN b : b[i] = o /\ b[j] = p
    BY <1>3 DEF ToSet
  <2>3. /\ o.kind = p.kind /\ o.owner = p.owner /\ o.ref = p.ref /\ o.tag = p.tag
    BY <1>6, <1>8 DEF BootRow
  <2>4. o.boot = TRUE /\ p.boot = TRUE
    <3>1. 0 \in Nat
      OBVIOUS
    <3> QED
      BY <1>4, <3>1, BootRows
  <2>5. Fixed(o) = Fixed(p)
    BY <1>8, <2>1, <2>3, <2>4 DEF Fixed
  <2> QED
    BY <1>1, <2>2, <2>4, <2>5 DEF BootsIn
<1>9. ASSUME NEW o \in Objs, o.kind \in MemberKind
      PROVE  \E p \in Objs : p.kind \in OwnerKinds(o.kind) /\ p.badge = o.owner
  <2>1. \A t \in BootTable(0) : \E p \in Objs : p.kind = t[1] /\ p.badge = t[2]
    BY <1>5, FixedParts
  <2>2. \E p \in Objs : p.kind = "pd" /\ p.badge = 1
    <3>1. <<"pd", 0 + 1, 0, 0, 0, 1, TRUE>> \in BootTable(0)
      BY DEF BootTable
    <3> QED
      BY <2>1, <3>1
  <2>3. \E p \in Objs : p.kind = "space" /\ p.badge = 101
    <3>1. <<"space", 0 + 101, 0 + 1, 0 + 301, 0, 2, TRUE>> \in BootTable(0)
      BY DEF BootTable
    <3> QED
      BY <2>1, <3>1
  <2>4. \E p \in Objs : p.kind = "cpu" /\ p.badge = 2
    <3>1. <<"cpu", 0 + 2, 0, 0, 0, 3, TRUE>> \in BootTable(0)
      BY DEF BootTable
    <3> QED
      BY <2>1, <3>1
  <2>5. \E p \in Objs : p.kind = "ram" /\ p.badge = 3
    <3>1. <<"ram", 0 + 3, 0, 0, 0, 4, TRUE>> \in BootTable(0)
      BY DEF BootTable
    <3> QED
      BY <2>1, <3>1
  <2>6. \/ o.kind \in {"space", "source"} /\ o.owner = 1
        \/ o.kind = "thread" /\ o.owner = 2
        \/ o.kind = "ramds" /\ o.owner = 3
        \/ o.kind = "region" /\ o.owner = 101
    BY <1>6, <1>9 DEF BootRow, MemberKind
  <2>7. /\ OwnerKinds("space") = {"pd"} /\ OwnerKinds("source") = {"pd"} /\ OwnerKinds("thread") = {"cpu"}
        /\ OwnerKinds("ramds") = {"ram"} /\ OwnerKinds("region") = {"map", "space"}
    BY DEF OwnerKinds
  <2> QED
    BY <2>2, <2>3, <2>4, <2>5, <2>6, <2>7
<1>10. MustStay \subseteq BootTable(0)
  BY DEF MustStay, BootTable
<1> QED
  BY <1>4, <1>5, <1>7, <1>8, <1>9, <1>10 DEF TargetSound

\* The stored infos are sound too; those of the first checkpoint have the quota
\* of now.
StoredSound ==
  /\ \A s \in ToSet(stored) : Sane(s)
  /\ taken \in Nat /\ (taken = 0 => stored = <<>> /\ ckPc \in {"running", "dead"})
  /\ taken = 1 /\ ckPc \notin {"running", "dead"} =>
       \A s \in ToSet(stored), o \in Objs : Same(s, o) => s.quota = o.quota
  /\ rsPc # "none" => ckPc = "taken"

\* Nothing is restored before a checkpoint is taken.
LEMMA RestorerStarts == RestorerStep => rsPc # "none" \/ ckPc = "taken"
BY DEF RestorerStep, LogRequest, Identify, IdentifyRam, IdentifyRamds, IdentifyPd, IdentifySource,
   IdentifyContext, IdentifySpace, IdentifyCpu, IdentifyThread, IdentifyRm, IdentifyMap,
   IdentifyLog, IdentifyTimer, IdentifyEnd, Restore, RestoreRam, RestoreRamds, RestorePd,
   RestoreSpace, RestoreCpu, RestoreThread, RestoreRm, RestoreMap, RestoreRegion, RestoreLog,
   RestoreTimer, RestoreObject, ResolveInc, CopyCapMap, PatchCapMap, PatchCapMapEnd, Install,
   InstallEnd, RestoreContent, RestoreReturn, Visit

LEMMA StoredSoundKept ==
  ASSUME TargetInv, StoredInv, TargetSound, StoredSound, [Next]_vars
  PROVE  TargetSound' /\ StoredSound'
<1>1. CASE TargetStep
  <2>1. TargetRequest /\ ckPc = "running" /\ UNCHANGED <<stored, ckPc, taken, rsPc>>
    BY <1>1 DEF TargetStep, ckVars, rsVars
  <2>2. TargetSound'
    BY <2>1, SoundKept
  <2> QED
    BY <2>1, <2>2 DEF StoredSound
<1>2. CASE CheckpointStep
  <2>1. Checkpoint /\ rsPc = "none" /\ UNCHANGED rsPc
    BY <1>2 DEF CheckpointStep, rsVars
  <2>2. UNCHANGED <<objs, slots>>
    BY <2>1 DEF Checkpoint, CkStart, CkRam, CkPd, CkPdDies, CkCpu, CkRm, CkLog, CkTimer,
       CkNoCapMap, CkContentDies, CkResume,
       Call, targetVars
  <2>3. TargetSound'
    BY <2>2 DEF TargetSound, Objs
  <2>4. From(stored, stored')
    BY <2>1, CheckpointKept
  <2>5. \A o \in Objs : Fixed(Stored(o)) = Fixed(o) /\ Stored(o).quota = o.quota /\ Same(Stored(o), o)
    BY ObjectFacts, StoredFacts DEF TargetInv
  <2>6. \A s \in ToSet(stored') : Sane(s)
    <3> SUFFICES ASSUME NEW s \in ToSet(stored') PROVE Sane(s)
      OBVIOUS
    <3>1. \/ \E t \in ToSet(stored) : Fixed(s) = Fixed(t) /\ Sane(t)
          \/ \E o \in Objs : Fixed(s) = Fixed(o) /\ Sane(o)
      BY <2>4, <2>5 DEF From, Alike, StoredSound, TargetSound
    <3> QED
      BY <3>1, SaneFixed
  <2>7. \/ ckPc = "running" /\ taken' = taken + 1 /\ UNCHANGED stored
        \/ ckPc = "running" /\ taken' = taken /\ UNCHANGED stored /\ ckPc' = "dead"
        \/ ckPc \notin {"running", "dead"} /\ taken' = taken
    BY <2>1 DEF Checkpoint, CkStart, CkRam, CkPd, CkPdDies, CkCpu, CkRm, CkLog, CkTimer,
       CkNoCapMap, CkContentDies, CkResume, Call
  <2>8. ASSUME taken' = 1, ckPc' # "dead", NEW s \in ToSet(stored'), NEW o \in Objs, Same(s, o)
        PROVE  s.quota = o.quota
    <3>1. CASE \E t \in ToSet(stored) : Alike(s, t)
      <4>1. PICK t \in ToSet(stored) : Alike(s, t)
        BY <3>1
      <4>2. s.kind = t.kind /\ s.owner = t.owner /\ s.badge = t.badge /\ s.ts = t.ts
        BY <4>1, FixedParts DEF Alike
      <4>3. Same(t, o) /\ s.quota = t.quota
        BY <2>8, <4>1, <4>2 DEF Same, Key, Alike
      <4>4. taken # 0
        BY <4>1 DEF StoredSound, ToSet
      <4>5. ckPc \notin {"running", "dead"} /\ taken = 1
        BY <2>7, <2>8, <4>4 DEF StoredSound
      <4> QED
        BY <4>3, <4>5 DEF StoredSound
    <3>2. CASE \E p \in Objs : Alike(s, Stored(p))
      <4>1. PICK p \in Objs : Alike(s, Stored(p))
        BY <3>2
      <4>2. Fixed(s) = Fixed(p) /\ s.quota = p.quota
        BY <2>5, <4>1 DEF Alike
      <4>3. s.kind = p.kind /\ s.owner = p.owner /\ s.badge = p.badge /\ s.ts = p.ts
        BY <4>2, FixedParts
      <4>4. Same(p, o)
        BY <2>8, <4>3 DEF Same, Key
      <4>5. objs \in Seq(Object) /\ Unique(objs)
        BY DEF TargetInv, Proper
      <4>6. PICK i \in DOMAIN objs, j \in DOMAIN objs : objs[i] = p /\ objs[j] = o
        BY <4>5, ListElements DEF Objs
      <4> QED
        BY <4>2, <4>4, <4>5, <4>6 DEF Unique
    <3> QED
      BY <2>4, <3>1, <3>2 DEF From
  <2>9. taken' \in Nat /\ (taken' = 0 => stored' = <<>> /\ ckPc' \in {"running", "dead"})
    BY <2>7 DEF StoredSound
  <2> QED
    BY <2>1, <2>2, <2>3, <2>6, <2>8, <2>9 DEF StoredSound, Objs
<1>3. CASE RestorerStep \/ UNCHANGED vars
  <2>1. UNCHANGED <<objs, stored, ckPc, taken>>
    BY <1>3, RestorerReads DEF vars, outside, targetVars, ckVars
  <2>2. rsPc' # "none" => rsPc # "none" \/ ckPc = "taken"
    BY <1>3, RestorerStarts DEF vars, rsVars
  <2> QED
    BY <2>1, <2>2 DEF TargetSound, StoredSound, Objs
<1> QED
  BY <1>1, <1>2, <1>3 DEF Next

-----------------------------------------------------------------------------
(* The capabilities the target holds.                                      *)

\* The badge of an object whose capability is handed out.
Handed(b) == \E o \in Objs : o.kind \notin {"region", "space"} /\ o.badge = b

\* What the target holds is there, once; what comes with a low badge came with
\* the bootstrap; and a selector noted in an info still has the capability it had.
SlotsSound ==
  /\ \A k \in 1 .. MaxSlots : slots[k] # 0 => Handed(slots[k])
  /\ \A k, l \in 1 .. MaxSlots : slots[k] = slots[l] /\ slots[k] # 0 => k = l
  /\ \A k \in 1 .. MaxSlots : slots[k] \in 1 .. 999 => k <= 4 /\ slots[k] = BootSlots(0)[k]
  /\ reply # 0 => reply >= 1000 /\ Handed(reply) /\ \A k \in 1 .. MaxSlots : slots[k] # reply
  /\ \A s \in ToSet(stored), o \in Objs :
       Same(s, o) /\ s.ts = o.ts /\ o.kind # "region" /\ s.kcap # 0 => slots[s.kcap] = o.badge

\* Selectors of the stored infos.
LEMMA StoredSelectors ==
  ASSUME TargetInv, StoredInv
  PROVE  /\ MaxSlots \in Nat /\ MaxSlots >= 4 /\ slots \in [1 .. MaxSlots -> Nat] /\ created \in Nat
         /\ \A s \in ToSet(stored) : /\ s.kcap \in 0 .. MaxSlots /\ s.ts \in Nat /\ s.ts <= 10 + created
                                     /\ (s.kcap # 0 => s.kcap \in 1 .. MaxSlots)
<1>1. MaxSlots \in Nat /\ MaxSlots >= 4
  BY SlotsAssumption
<1>2. \A s \in ToSet(stored) : s \in Object /\ s.kcap \in 0 .. MaxSlots /\ s.ts <= 10 + created
  BY ListElements DEF StoredInv, Good, Proper
<1>3. \A s \in Object : s.ts \in Nat
  BY DEF Object
<1>4. \A k \in 0 .. MaxSlots : k # 0 => k \in 1 .. MaxSlots
  BY <1>1
<1> QED
  BY <1>1, <1>2, <1>3, <1>4 DEF TargetInv

\* New objects at the head of the list.
LEMMA InsertAdds ==
  ASSUME TargetInv, NEW new \in Seq(Object), Insert(new)
  PROVE  \E added :
           /\ Objs' = added \cup Objs
           /\ \A o \in added : o.ts = 10 + created'
           /\ \A i \in DOMAIN new : \E o \in added : o.badge = new[i].badge /\ o.kind = new[i].kind
           /\ \A o \in added : \E i \in DOMAIN new : o.kind = new[i].kind
<1> DEFINE n == 10 + created'
           more == [i \in DOMAIN new |-> [new[i] EXCEPT !.ts = n]]
           V == ToSet(more) \cup Object
<1>1. objs' = more \o objs /\ objs \in Seq(Object) /\ created' = created + 1 /\ created \in Nat
  BY DEF Insert, TargetInv, Proper
<1>2. Len(new) \in Nat /\ DOMAIN new = 1 .. Len(new) /\ \A i \in DOMAIN new : new[i] \in Object
  BY ListElements
<1> HIDE DEF n
<1>3. \A i \in DOMAIN new : LET o == [new[i] EXCEPT !.ts = n] IN
        o.ts = n /\ o.badge = new[i].badge /\ o.kind = new[i].kind
  <2>1. ASSUME NEW x \in Object
        PROVE  [x EXCEPT !.ts = n].ts = n /\ [x EXCEPT !.ts = n].badge = x.badge /\ [x EXCEPT !.ts = n].kind = x.kind
    BY DEF Object
  <2> QED
    BY <1>2, <2>1
<1>4. \A i \in DOMAIN new : more[i].ts = n /\ more[i].badge = new[i].badge /\ more[i].kind = new[i].kind
  BY <1>3
<1>5. DOMAIN more = DOMAIN new
  OBVIOUS
<1> HIDE DEF more
<1>6. ToSet(more) = {more[i] : i \in DOMAIN new}
  BY <1>5 DEF ToSet
<1>7. Objs' = ToSet(more) \cup Objs
  <2>1. more \in Seq(V)
    <3>1. \A i \in 1 .. Len(new) : more[i] \in V
      BY <1>2, <1>6
    <3>2. more = [i \in 1 .. Len(new) |-> more[i]]
      BY <1>2 DEF more
    <3> HIDE DEF V
    <3> QED
      BY <1>2, <3>1, <3>2
  <2>2. objs \in Seq(V)
    <3>1. \A W, U : W \subseteq U => Seq(W) \subseteq Seq(U)
      OBVIOUS
    <3> QED
      BY <1>1, <3>1
  <2> HIDE DEF V
  <2>3. ToSet(more \o objs) = ToSet(more) \cup ToSet(objs)
    BY <2>1, <2>2, ConcatSet
  <2> QED
    BY <1>1, <2>3 DEF Objs
<1> DEFINE added == ToSet(more)
<1>8. /\ \A o \in added : o.ts = 10 + created'
      /\ \A i \in DOMAIN new : \E o \in added : o.badge = new[i].badge /\ o.kind = new[i].kind
      /\ \A o \in added : \E i \in DOMAIN new : o.kind = new[i].kind
  BY <1>4, <1>6 DEF n
<1> HIDE DEF added
<1> QED
  BY <1>7, <1>8 DEF added

\* The capability of a new object is on its way; nothing stored is of that object.
LEMMA SlotsMore ==
  ASSUME TargetInv, StoredInv, SlotsSound, UNCHANGED <<slots, stored>>, reply = 0,
         created' = created + 1, NEW added, Objs' = added \cup Objs,
         \A o \in added : o.ts = 10 + created',
         \/ reply' = 0
         \/ reply' \in FreeBadge /\ reply' >= 1000 /\ \E o \in added : o.badge = reply' /\ o.kind \notin {"region", "space"}
  PROVE  SlotsSound'
<1>1. \A b : Handed(b) => Handed(b)'
  BY DEF Handed
<1>2. /\ \A k \in 1 .. MaxSlots : slots'[k] # 0 => Handed(slots[k])'
      /\ \A k, l \in 1 .. MaxSlots : slots'[k] = slots'[l] /\ slots'[k] # 0 => k = l
      /\ \A k \in 1 .. MaxSlots : slots'[k] \in 1 .. 999 => k <= 4 /\ slots'[k] = BootSlots(0)[k]
  BY <1>1 DEF SlotsSound
<1>3. ASSUME reply' # 0
      PROVE  reply' >= 1000 /\ Handed(reply)' /\ \A k \in 1 .. MaxSlots : slots'[k] # reply'
  <2>1. reply' \in FreeBadge /\ reply' >= 1000 /\ Handed(reply)'
    BY <1>3 DEF Handed
  <2>2. ~Handed(reply') /\ reply' # 0
    <3> DEFINE b == reply'
    <3>1. b \in FreeBadge
      BY <2>1
    <3> HIDE DEF b
    <3>2. \A o \in Objs : o.kind # "region" => o.badge # b
      BY <3>1, BadgeFacts
    <3> QED
      BY <1>3, <3>2 DEF Handed, b
  <2>3. \A k \in 1 .. MaxSlots : slots[k] # reply'
    BY <2>2 DEF SlotsSound
  <2> QED
    BY <2>1, <2>3
<1>4. \A s \in ToSet(stored'), o \in Objs' :
        Same(s, o) /\ s.ts = o.ts /\ o.kind # "region" /\ s.kcap # 0 => slots'[s.kcap] = o.badge
  <2>1. \A s \in ToSet(stored), o \in added : s.ts # o.ts
    BY StoredSelectors
  <2> QED
    BY <2>1 DEF SlotsSound
<1> QED
  BY <1>2, <1>3, <1>4 DEF SlotsSound

LEMMA OneSlots ==
  ASSUME TargetInv, TargetSound, StoredInv, SlotsSound, UNCHANGED stored, reply = 0,
         NEW kind, NEW b, NEW owner, NEW ref, NEW tag, One(kind, b, owner, ref, tag)
  PROVE  SlotsSound'
<1> DEFINE x == Obj(kind, b, owner, ref, tag)
           new == <<x>>
<1>1. /\ Insert(new) /\ kind \notin {"region", "space"} /\ b \in FreeBadge /\ b \in Nat /\ b >= 1000
  BY FreeFacts DEF One
<1>2. x \in Object /\ x.kind = kind /\ x.badge = b
  BY <1>1 DEF One, Obj, Object
<1> HIDE DEF x
<1>3. new \in Seq(Object) /\ Head(new) = x /\ 1 \in DOMAIN new /\ new[1] = x
  BY <1>2
<1> HIDE DEF new
<1>4. UNCHANGED slots /\ created' = created + 1 /\ reply' = b
  BY <1>1, <1>2, <1>3 DEF Insert
<1>5. PICK added : /\ Objs' = added \cup Objs
                   /\ \A o \in added : o.ts = 10 + created'
                   /\ \A i \in DOMAIN new : \E o \in added : o.badge = new[i].badge /\ o.kind = new[i].kind
  BY <1>1, <1>3, InsertAdds
<1>6. \E o \in added : o.badge = b /\ o.kind \notin {"region", "space"}
  BY <1>1, <1>2, <1>3, <1>5
<1> QED
  BY <1>1, <1>4, <1>5, <1>6, SlotsMore

LEMMA TwoSlots ==
  ASSUME TargetInv, TargetSound, StoredInv, SlotsSound, UNCHANGED stored, reply = 0, NEW b, Two(b)
  PROVE  SlotsSound'
<1> DEFINE x == Obj("pd", b, 0, 0, 0)
           s == SpaceOf(b)
           y == Obj("space", s, b, DsOf(s), 0)
           new == <<x, y>>
<1>1. /\ Insert(new) /\ b \in FreeBadge /\ b \in Nat /\ b >= 1000
  BY FreeFacts DEF Two
<1>2. s \in Nat /\ DsOf(s) \in Nat
  BY <1>1 DEF SpaceOf, DsOf
<1>3. x \in Object /\ y \in Object /\ x.kind = "pd" /\ x.badge = b
  BY <1>1, <1>2 DEF Obj, Object, Kind, SessionKind, MemberKind
<1> HIDE DEF x, y
<1>4. new \in Seq(Object) /\ Head(new) = x /\ 1 \in DOMAIN new /\ new[1] = x
  BY <1>3
<1> HIDE DEF new
<1>5. UNCHANGED slots /\ created' = created + 1 /\ reply' = b
  BY <1>1, <1>3, <1>4 DEF Insert
<1>6. PICK added : /\ Objs' = added \cup Objs
                   /\ \A o \in added : o.ts = 10 + created'
                   /\ \A i \in DOMAIN new : \E o \in added : o.badge = new[i].badge /\ o.kind = new[i].kind
  BY <1>1, <1>4, InsertAdds
<1>7. \E o \in added : o.badge = b /\ o.kind \notin {"region", "space"}
  BY <1>3, <1>4, <1>6
<1> QED
  BY <1>1, <1>5, <1>6, <1>7, SlotsMore

LEMMA AttachSlots ==
  ASSUME TargetInv, StoredInv, SlotsSound, UNCHANGED stored, reply = 0,
         NEW map \in Objs, NEW ds \in Nat, NEW addr \in Nat, Attach(map, ds, addr)
  PROVE  SlotsSound'
<1> DEFINE n == 10 + created'
           r == Obj("region", 0, map.badge, ds, addr)
           o == [r EXCEPT !.ts = n]
           new == <<o>>
<1>1. /\ created' = created + 1 /\ objs' = new \o objs /\ created \in Nat /\ objs \in Seq(Object)
      /\ UNCHANGED <<slots, reply>>
  BY DEF Attach, Cons, TargetInv, Proper
<1>2. map.badge \in Nat /\ n \in Nat
  BY <1>1, ObjectFacts
<1> HIDE DEF n
<1>3. r \in Object
  BY <1>2 DEF Obj, Object, Kind, MemberKind
<1> HIDE DEF r
<1>4. o \in Object /\ o.ts = n
  BY <1>2, <1>3 DEF Object
<1> HIDE DEF o
<1>5. Objs' = {o} \cup Objs
  <2>1. new \in Seq(Object) /\ ToSet(new) = {o}
    BY <1>4 DEF ToSet
  <2> HIDE DEF new
  <2> QED
    BY <1>1, <2>1, ConcatSet DEF Objs
<1> DEFINE added == {o}
<1>6. Objs' = added \cup Objs /\ \A p \in added : p.ts = 10 + created'
  BY <1>4, <1>5 DEF n
<1> HIDE DEF added
<1> QED
  BY <1>1, <1>6, SlotsMore

LEMMA GoneSlots ==
  ASSUME TargetInv, TargetSound, StoredInv, SlotsSound, UNCHANGED stored, reply = 0, NEW gone, Gone(gone)
  PROVE  SlotsSound'
<1>1. Objs' = Objs \ gone /\ reply' = 0
  <2>1. objs \in Seq(Object) /\ objs' = Only(objs, Objs \ gone) /\ reply' = reply
    BY DEF Gone, Withdraw, TargetInv, Proper
  <2>2. ToSet(objs') = ToSet(objs) \cap (Objs \ gone)
    BY <2>1, OnlyFacts
  <2> QED
    BY <2>1, <2>2 DEF Objs
<1> DEFINE GivenUp(b) == \E o \in gone : o.kind # "region" /\ o.badge = b
<1>2. DOMAIN slots = 1 .. MaxSlots /\ gone \subseteq Objs
  BY StoredSelectors DEF Gone
<1>3. \A k \in 1 .. MaxSlots : slots'[k] = IF GivenUp(slots[k]) THEN 0 ELSE slots[k]
  BY <1>2 DEF Gone, Withdraw
<1>4. \A o \in Objs' : o.kind # "region" => ~GivenUp(o.badge)
  BY <1>1, <1>2 DEF TargetSound
<1>5. ASSUME NEW k \in 1 .. MaxSlots, slots'[k] # 0 PROVE slots'[k] = slots[k] /\ Handed(slots[k])'
  <2>1. slots'[k] = slots[k] /\ ~GivenUp(slots[k])
    BY <1>3, <1>5
  <2>2. PICK o \in Objs : o.kind \notin {"region", "space"} /\ o.badge = slots[k]
    BY <1>5, <2>1 DEF SlotsSound, Handed
  <2>3. o \in Objs'
    BY <1>1, <2>1, <2>2
  <2> QED
    BY <2>1, <2>2, <2>3 DEF Handed
<1>6. \A s \in ToSet(stored'), o \in Objs' :
        Same(s, o) /\ s.ts = o.ts /\ o.kind # "region" /\ s.kcap # 0 => slots'[s.kcap] = o.badge
  <2> SUFFICES ASSUME NEW s \in ToSet(stored), NEW o \in Objs',
                      Same(s, o), s.ts = o.ts, o.kind # "region", s.kcap # 0
               PROVE  slots'[s.kcap] = o.badge
    OBVIOUS
  <2>1. slots[s.kcap] = o.badge /\ s.kcap \in 1 .. MaxSlots
    BY <1>1, StoredSelectors DEF SlotsSound
  <2> QED
    BY <1>3, <1>4, <2>1
<1> HIDE DEF GivenUp
<1>7. \A k, l \in 1 .. MaxSlots : slots'[k] = slots'[l] /\ slots'[k] # 0 => k = l
  BY <1>5 DEF SlotsSound
<1>8. \A k \in 1 .. MaxSlots : slots'[k] \in 1 .. 999 => k <= 4 /\ slots'[k] = BootSlots(0)[k]
  <2> TAKE k \in 1 .. MaxSlots
  <2> HAVE slots'[k] \in 1 .. 999
  <2>1. slots'[k] # 0
    OBVIOUS
  <2>2. slots'[k] = slots[k]
    BY <1>5, <2>1
  <2>3. slots[k] \in 1 .. 999
    BY <2>2
  <2>4. k <= 4 /\ slots[k] = BootSlots(0)[k]
    BY <2>3 DEF SlotsSound
  <2> QED
    BY <2>2, <2>4
<1> QED
  BY <1>1, <1>5, <1>6, <1>7, <1>8 DEF SlotsSound

LEMMA EditedSlots ==
  ASSUME TargetInv, TargetSound, StoredInv, SlotsSound, UNCHANGED stored, NEW o, NEW new, Edited(o, new)
  PROVE  SlotsSound'
<1> DEFINE F(p) == IF p = o THEN new ELSE p
<1>1. /\ objs' = [i \in DOMAIN objs |-> IF objs[i] = o THEN new ELSE objs[i]]
      /\ Fixed(new) = Fixed(o) /\ UNCHANGED <<slots, reply>>
  BY DEF Edited, Update, Changed
<1>2. Objs' = {F(p) : p \in Objs}
  BY <1>1 DEF Objs, ToSet
<1>3. \A p \in Objs : /\ F(p).kind = p.kind /\ F(p).badge = p.badge /\ F(p).owner = p.owner
                      /\ F(p).tag = p.tag /\ F(p).ts = p.ts
  <2>1. /\ new.kind = o.kind /\ new.badge = o.badge /\ new.owner = o.owner
        /\ new.tag = o.tag /\ new.ts = o.ts
    BY <1>1, FixedParts
  <2> QED
    BY <2>1
<1> HIDE DEF F
<1>4. \A b : Handed(b) => Handed(b)'
  <2> SUFFICES ASSUME NEW p \in Objs, p.kind \notin {"region", "space"}
               PROVE  \E q \in Objs' : q.kind \notin {"region", "space"} /\ q.badge = p.badge
    BY DEF Handed
  <2> QED
    BY <1>2, <1>3
<1>5. \A s, p : p \in Objs /\ Same(s, F(p)) => Same(s, p)
  BY <1>3 DEF Same, Key
<1>6. \A s \in ToSet(stored'), q \in Objs' :
        Same(s, q) /\ s.ts = q.ts /\ q.kind # "region" /\ s.kcap # 0 => slots'[s.kcap] = q.badge
  <2> SUFFICES ASSUME NEW s \in ToSet(stored), NEW p \in Objs,
                      Same(s, F(p)), s.ts = F(p).ts, F(p).kind # "region", s.kcap # 0
               PROVE  slots[s.kcap] = F(p).badge
    BY <1>1, <1>2
  <2> QED
    BY <1>3, <1>5 DEF SlotsSound
<1> QED
  BY <1>1, <1>4, <1>6 DEF SlotsSound

LEMMA ReceiveSlots ==
  ASSUME TargetInv, StoredInv, SlotsSound, UNCHANGED stored, Receive
  PROVE  SlotsSound'
<1> DEFINE free == {k \in DOMAIN slots : slots[k] = 0}
           at == CHOOSE k \in free : \A l \in free : k <= l
<1>1. free # {} /\ slots' = [slots EXCEPT ![at] = reply] /\ reply' = 0 /\ reply # 0 /\ UNCHANGED objs
  BY DEF Receive
<1>2. /\ MaxSlots \in Nat /\ slots \in [1 .. MaxSlots -> Nat]
      /\ \A s \in ToSet(stored) : s.kcap # 0 => s.kcap \in 1 .. MaxSlots
  BY StoredSelectors
<1>3. at \in 1 .. MaxSlots /\ slots[at] = 0
  <2>1. free \subseteq Nat
    BY <1>2
  <2>2. \E k \in free : \A l \in free : k <= l
    <3> HIDE DEF free
    <3> QED
      BY <1>1, <2>1, LeastFacts
  <2>3. at \in free
    <3> HIDE DEF free
    <3> QED
      BY <2>2
  <2> QED
    BY <1>2, <2>3
<1> HIDE DEF at, free
<1>4. \A k \in 1 .. MaxSlots : slots'[k] = IF k = at THEN reply ELSE slots[k]
  BY <1>1, <1>2, <1>3
<1>5. \A b : Handed(b) <=> Handed(b)'
  BY <1>1 DEF Handed, Objs
<1>6. \A s \in ToSet(stored'), o \in Objs' :
        Same(s, o) /\ s.ts = o.ts /\ o.kind # "region" /\ s.kcap # 0 => slots'[s.kcap] = o.badge
  <2> SUFFICES ASSUME NEW s \in ToSet(stored), NEW o \in Objs,
                      Same(s, o), s.ts = o.ts, o.kind # "region", s.kcap # 0
               PROVE  slots'[s.kcap] = o.badge
    BY <1>1 DEF Objs
  <2>1. slots[s.kcap] = o.badge /\ s.kcap \in 1 .. MaxSlots /\ o.badge # 0
    BY <1>2, ObjectFacts DEF SlotsSound
  <2> QED
    BY <1>3, <1>4, <2>1
<1>7. \A k \in 1 .. MaxSlots : slots'[k] # 0 => Handed(slots[k])'
  BY <1>1, <1>4, <1>5 DEF SlotsSound
<1>8. \A k, l \in 1 .. MaxSlots : slots'[k] = slots'[l] /\ slots'[k] # 0 => k = l
  BY <1>1, <1>4 DEF SlotsSound
<1>9. \A k \in 1 .. MaxSlots : slots'[k] \in 1 .. 999 => k <= 4 /\ slots'[k] = BootSlots(0)[k]
  <2>1. reply >= 1000 /\ reply \in Nat
    BY <1>1 DEF SlotsSound, TargetInv
  <2>2. reply \notin 1 .. 999
    BY <2>1
  <2> TAKE k \in 1 .. MaxSlots
  <2> HAVE slots'[k] \in 1 .. 999
  <2>3. slots'[k] = slots[k]
    BY <1>4, <2>2
  <2> QED
    BY <2>3 DEF SlotsSound
<1> QED
  BY <1>1, <1>6, <1>7, <1>8, <1>9 DEF SlotsSound

\* An info that is made notes the selector the capability has.
LEMMA SlotFound ==
  ASSUME NEW b, SlotOf(b) # 0
  PROVE  slots[SlotOf(b)] = b
<1>1. \E k \in DOMAIN slots : slots[k] = b
  BY DEF SlotOf
<1>2. SlotOf(b) = CHOOSE k \in DOMAIN slots : slots[k] = b
  BY DEF SlotOf
<1> QED
  BY <1>1, <1>2

LEMMA CheckpointSlots ==
  ASSUME TargetInv, StoredInv, SlotsSound, Checkpoint
  PROVE  SlotsSound'
<1>1. UNCHANGED <<objs, slots, reply>>
  BY DEF Checkpoint, CkStart, CkRam, CkPd, CkPdDies, CkCpu, CkRm, CkLog, CkTimer,
       CkNoCapMap, CkContentDies, CkResume,
     Call, targetVars
<1>2. From(stored, stored')
  BY CheckpointKept
<1>3. \A b : Handed(b) <=> Handed(b)'
  BY <1>1 DEF Handed, Objs
<1>4. ASSUME NEW s \in ToSet(stored'), NEW o \in Objs, Same(s, o), s.ts = o.ts, o.kind # "region", s.kcap # 0
      PROVE  slots[s.kcap] = o.badge
  <2>1. CASE \E t \in ToSet(stored) : Alike(s, t)
    <3>1. PICK t \in ToSet(stored) : Alike(s, t)
      BY <2>1
    <3>2. /\ s.kind = t.kind /\ s.owner = t.owner /\ s.badge = t.badge /\ s.tag = t.tag
          /\ s.ts = t.ts /\ s.kcap = t.kcap
      BY <3>1, FixedParts DEF Alike
    <3>3. Same(t, o)
      BY <1>4, <3>2 DEF Same, Key
    <3> QED
      BY <1>4, <3>2, <3>3 DEF SlotsSound
  <2>2. CASE \E p \in Objs : Alike(s, Stored(p))
    <3>1. PICK p \in Objs : Alike(s, Stored(p))
      BY <2>2
    <3>2. p \in Object /\ Plain(p)
      BY ObjectFacts
    <3>3. Fixed(s) = Fixed(p)
      BY <3>1, <3>2, StoredFacts DEF Alike, TargetInv
    <3>4. s.kind = p.kind /\ s.owner = p.owner /\ s.badge = p.badge /\ s.tag = p.tag
      BY <3>3, FixedParts
    <3>5. Same(p, o) /\ p.kind # "region"
      BY <1>4, <3>4 DEF Same, Key
    <3>6. p.badge = o.badge
      BY <3>5 DEF Same, Key
    <3>7. s.kcap = SlotOf(p.badge)
      <4>1. s.kcap = Stored(p).kcap
        BY <3>1 DEF Alike
      <4>2. Stored(p).kcap = SlotOf(p.badge)
        BY <3>2, <3>5 DEF Stored, Object
      <4> QED
        BY <4>1, <4>2
    <3> QED
      BY <1>4, <3>6, <3>7, SlotFound
  <2> QED
    BY <1>2, <2>1, <2>2 DEF From
<1> QED
  BY <1>1, <1>3, <1>4 DEF SlotsSound, Objs

LEMMA SlotsInitially == Init => SlotsSound
<1> SUFFICES ASSUME Init PROVE SlotsSound
  OBVIOUS
<1>1. /\ slots = [k \in 1 .. MaxSlots |-> IF k <= 4 THEN BootSlots(0)[k] ELSE 0]
      /\ reply = 0 /\ ToSet(stored) = {} /\ TargetSound
  BY SoundInitially DEF Init, TargetInit, CkInit, ToSet
<1>2. BootSlots(0)[1] = 1 /\ BootSlots(0)[2] = 5 /\ BootSlots(0)[3] = 6 /\ BootSlots(0)[4] = 7
  BY DEF BootSlots
<1>3. MaxSlots \in Nat /\ MaxSlots >= 4
  BY SlotsAssumption
<1>4. \A k \in 1 .. MaxSlots : slots[k] = IF k <= 4 THEN BootSlots(0)[k] ELSE 0
  BY <1>1
<1>5. \A k \in 1 .. MaxSlots :
        \/ k = 1 /\ slots[k] = 1
        \/ k = 2 /\ slots[k] = 5
        \/ k = 3 /\ slots[k] = 6
        \/ k = 4 /\ slots[k] = 7
        \/ k > 4 /\ slots[k] = 0
  <2> TAKE k \in 1 .. MaxSlots
  <2>1. k = 1 \/ k = 2 \/ k = 3 \/ k = 4 \/ k > 4
    BY <1>3
  <2>2. k <= 4 => slots[k] = BootSlots(0)[k]
    BY <1>4
  <2>3. k > 4 => slots[k] = 0
    BY <1>3, <1>4
  <2>4. CASE k = 1
    BY <1>2, <2>2, <2>4
  <2>5. CASE k = 2
    BY <1>2, <2>2, <2>5
  <2>6. CASE k = 3
    BY <1>2, <2>2, <2>6
  <2>7. CASE k = 4
    BY <1>2, <2>2, <2>7
  <2> QED
    BY <2>1, <2>3, <2>4, <2>5, <2>6, <2>7
<1>6. \A b \in {1, 5, 6, 7} : Handed(b)
  <2>1. \A t \in BootTable(0) : \E o \in Objs : Fixed(o) = t
    <3>1. BootsIn(Bootstrapped(0), 0) /\ Bootstrapped(0) \in Seq(Object)
      <4>1. 0 \in Nat
        OBVIOUS
      <4> QED
        BY <4>1, BootstrapTable, BootFacts
    <3>2. Objs = ToSet(Bootstrapped(0))
      BY <3>1, ReverseFacts DEF Objs, Init, TargetInit
    <3> QED
      BY <3>1, <3>2, BootsThere
  <2>2. /\ <<"pd", 0 + 1, 0, 0, 0, 1, TRUE>> \in BootTable(0)
        /\ <<"ramds", 0 + 5, 0 + 3, 0, 0, 6, TRUE>> \in BootTable(0)
        /\ <<"ramds", 0 + 6, 0 + 3, 0, 0, 7, TRUE>> \in BootTable(0)
        /\ <<"source", 0 + 7, 0 + 1, 0, 0, 8, TRUE>> \in BootTable(0)
    BY DEF BootTable
  <2>3. \A t \in BootTable(0) : \E o \in Objs : o.kind = t[1] /\ o.badge = t[2]
    BY <2>1, FixedParts
  <2>4. /\ \E o \in Objs : o.kind = "pd" /\ o.badge = 1
        /\ \E o \in Objs : o.kind = "ramds" /\ o.badge = 5
        /\ \E o \in Objs : o.kind = "ramds" /\ o.badge = 6
        /\ \E o \in Objs : o.kind = "source" /\ o.badge = 7
    BY <2>2, <2>3
  <2> QED
    BY <2>4 DEF Handed
<1>7. \A k \in 1 .. MaxSlots : slots[k] # 0 => Handed(slots[k])
  BY <1>5, <1>6
<1>8. \A k, l \in 1 .. MaxSlots : slots[k] = slots[l] /\ slots[k] # 0 => k = l
  BY <1>5
<1>9. \A k \in 1 .. MaxSlots : slots[k] \in 1 .. 999 => k <= 4 /\ slots[k] = BootSlots(0)[k]
  <2> TAKE k \in 1 .. MaxSlots
  <2> HAVE slots[k] \in 1 .. 999
  <2>1. k <= 4
    BY <1>3, <1>4
  <2> QED
    BY <1>4, <2>1
<1> QED
  BY <1>1, <1>7, <1>8, <1>9 DEF SlotsSound

LEMMA SlotsKept ==
  ASSUME TargetInv, TargetSound, StoredInv, SlotsSound, [Next]_vars
  PROVE  SlotsSound'
<1>1. CASE TargetStep
  <2>1. TargetRequest /\ UNCHANGED stored
    BY <1>1 DEF TargetStep, ckVars
  <2>2. Dataspaces \subseteq Nat /\ {2, 3} \subseteq Nat
    BY ObjectFacts DEF Dataspaces, Of, ForeignDs
  <2>3. Requested
    BY <2>1, RequestForms
  <2>4. (reply = 0 /\ \E kind, b, owner, ref, tag : One(kind, b, owner, ref, tag)) => SlotsSound'
    BY <2>1, OneSlots
  <2>5. (reply = 0 /\ \E b : Two(b)) => SlotsSound'
    BY <2>1, TwoSlots
  <2>6. (reply = 0 /\ \E map \in Objs, ds \in Dataspaces, addr \in {2, 3} : Attach(map, ds, addr)) => SlotsSound'
    BY <2>1, <2>2, AttachSlots
  <2>7. (reply = 0 /\ \E gone : Gone(gone)) => SlotsSound'
    BY <2>1, GoneSlots
  <2>8. (\E o, new : Edited(o, new)) => SlotsSound'
    BY <2>1, EditedSlots
  <2>9. Receive => SlotsSound'
    BY <2>1, ReceiveSlots
  <2> QED
    BY <2>3, <2>4, <2>5, <2>6, <2>7, <2>8, <2>9 DEF Requested
<1>2. CASE CheckpointStep
  BY <1>2, CheckpointSlots DEF CheckpointStep
<1>3. CASE RestorerStep \/ UNCHANGED vars
  <2>1. UNCHANGED <<objs, slots, reply, stored>>
    BY <1>3, RestorerReads DEF vars, outside, targetVars, ckVars
  <2> QED
    BY <2>1 DEF SlotsSound, Handed, Objs
<1> QED
  BY <1>1, <1>2, <1>3 DEF Next

=============================================================================
