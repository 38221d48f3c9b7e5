-------------------------- MODULE RamSessionProofs --------------------------
(***************************************************************************)
(* Proofs about RamSession, for any page size, granularity, quota and      *)
(* sizes of dataspaces: whoever walks ram_dataspaces without the lock sees *)
(* complete dataspaces in which find_by_addr is right (Tiled), and the     *)
(* parent's RAM is accounted for (RamAccounted).  Then, for any number of  *)
(* threads, dataspaces and signals, that the pager dies for no other cause *)
(* than the two that DiesForCause names, and that the states of session,   *)
(* pager and parent are well typed and in balance (TypeOK).                *)
(***************************************************************************)
EXTENDS RamSession, ListFacts, FunctionTheorems

-----------------------------------------------------------------------------
(* Arithmetic of designated dataspaces.                                    *)

LEMMA DivFacts ==
  ASSUME NEW s \in Nat, NEW d \in Nat \ {0}
  PROVE  s \div d \in Nat /\ s % d \in 0 .. d - 1 /\ s = d * (s \div d) + (s % d)
OBVIOUS

LEMMA NextMultiple ==
  ASSUME NEW d \in Nat, NEW i \in Int, NEW j \in Int, i < j
  PROVE  d * i \in Int /\ d * j \in Int /\ d * i + d <= d * j
OBVIOUS

LEMMA DsSizeType == DsSize \in Nat \ {0}
BY SizeAssumption DEF DsSize

\* Rounding up to pages does not lose a byte.
LEMMA RemainingFacts ==
  ASSUME NEW s \in Nat
  PROVE  RemainingSize(s) \in Nat /\ s % DsSize <= RemainingSize(s)
<1> DEFINE r == s % DsSize
           q == (r + Page - 1) \div Page
<1>1. r \in Nat
  BY DsSizeType, DivFacts
<1>2. Page \in Nat \ {0} /\ r + Page - 1 \in Nat
  BY <1>1, SizeAssumption
<1> HIDE DEF r
<1>3. /\ q \in Nat /\ (r + Page - 1) % Page \in 0 .. Page - 1
      /\ r + Page - 1 = Page * q + ((r + Page - 1) % Page)
  BY <1>2, DivFacts
<1> HIDE DEF q
<1>4. Page * q = q * Page /\ Page * q \in Nat
  BY <1>2, <1>3
<1>5. r <= q * Page
  BY <1>1, <1>2, <1>3, <1>4
<1>6. RemainingSize(s) = q * Page
  BY DEF RemainingSize, q, r
<1> QED
  BY <1>4, <1>5, <1>6 DEF r

LEMMA PartsType ==
  ASSUME NEW s \in Nat
  PROVE  NumDataspaces(s) \in Nat /\ NumParts(s) \in Nat
<1>1. NumDataspaces(s) \in Nat
  BY DsSizeType, DivFacts DEF NumDataspaces
<1> QED
  BY <1>1 DEF NumParts

DdInfo == [addr : Nat, size : Nat]

LEMMA PartType ==
  ASSUME NEW s \in Nat, NEW i \in Nat
  PROVE  Part(s, i) \in DdInfo
<1>1. DsSize * i \in Nat /\ DsSize \in Nat
  BY DsSizeType
<1> QED
  BY <1>1, RemainingFacts DEF Part, DdInfo

\* The part with number x \div DsSize holds address x.
LEMMA PartHolds ==
  ASSUME NEW s \in Nat, NEW x \in 0 .. s - 1
  PROVE  LET k == x \div DsSize
         IN  /\ k \in Nat /\ k < NumParts(s) /\ Holds(Part(s, k), x)
             /\ x < DsSize * k + DsSize
<1> DEFINE k == x \div DsSize
           q == s \div DsSize
<1>x. x \in Nat
  OBVIOUS
<1>1. /\ k \in Nat /\ x % DsSize \in 0 .. DsSize - 1
      /\ x = DsSize * k + (x % DsSize)
  BY <1>x, DsSizeType, DivFacts
<1>2. /\ q \in Nat /\ s % DsSize \in 0 .. DsSize - 1
      /\ s = DsSize * q + (s % DsSize)
  BY DsSizeType, DivFacts
<1>3. NumDataspaces(s) = q
  BY DEF NumDataspaces
<1> HIDE DEF k, q
<1>4. DsSize * k \in Nat /\ DsSize * q \in Nat /\ DsSize \in Nat
  BY <1>1, <1>2, DsSizeType
<1>5. DsSize * k <= x /\ x < DsSize * k + DsSize
  BY <1>1, <1>4
<1>6. k <= q
  <2> SUFFICES ASSUME q < k PROVE FALSE
    BY <1>1, <1>2
  <2>1. DsSize * q + DsSize <= DsSize * k
    BY <1>1, <1>2, <1>4, NextMultiple
  <2> QED
    BY <1>2, <1>4, <1>5, <2>1
<1>7. CASE k < q
  <2>1. k < NumParts(s)
    BY <1>1, <1>2, <1>3, <1>7 DEF NumParts
  <2>2. Part(s, k) = [addr |-> DsSize * k, size |-> DsSize]
    BY <1>3, <1>7 DEF Part
  <2> QED
    BY <1>1, <1>5, <2>1, <2>2 DEF Holds, k
<1>8. CASE k = q
  <2>1. x < DsSize * k + (s % DsSize)
    BY <1>2, <1>4, <1>8
  <2>2. RemainingSize(s) \in Nat /\ s % DsSize <= RemainingSize(s)
    BY RemainingFacts
  <2>3. RemainingSize(s) # 0 /\ x < DsSize * k + RemainingSize(s)
    BY <1>2, <1>4, <1>5, <2>1, <2>2
  <2>4. k < NumParts(s)
    BY <1>1, <1>3, <1>8, <2>3 DEF NumParts
  <2>5. Part(s, k) = [addr |-> DsSize * k, size |-> RemainingSize(s)]
    BY <1>1, <1>3, <1>8 DEF Part
  <2> QED
    BY <1>1, <1>5, <2>3, <2>4, <2>5 DEF Holds, k
<1> QED
  BY <1>1, <1>2, <1>6, <1>7, <1>8

\* Since dd_infos has the highest address at its head, the first element that
\* find_by_addr accepts is the right one, although it counts the byte behind
\* each element in.
LEMMA Located ==
  ASSUME NEW s \in Nat, NEW x \in 0 .. s - 1, NEW infos \in Seq(DdInfo),
         Len(infos) = NumParts(s),
         \A i \in DOMAIN infos : infos[i] = Part(s, Len(infos) - i)
  PROVE  FindByAddr(infos, x) # 0 /\ Holds(infos[FindByAddr(infos, x)], x)
<1> DEFINE k == x \div DsSize
           n == NumParts(s)
           p == n - k
           I == {i \in 1 .. Len(infos) : infos[i].addr <= x /\ x <= infos[i].addr + infos[i].size}
<1>1. /\ k \in Nat /\ k < n /\ Holds(Part(s, k), x) /\ x < DsSize * k + DsSize
      /\ Part(s, k) \in DdInfo /\ n \in Nat /\ x \in Nat
  <2>1. k \in Nat /\ k < n /\ Holds(Part(s, k), x) /\ x < DsSize * k + DsSize
    BY PartHolds
  <2>2. n \in Nat /\ x \in Nat
    BY PartsType
  <2> HIDE DEF k, n
  <2> QED
    BY <2>1, <2>2, PartType
<1>2. DOMAIN infos = 1 .. n
  BY LenProperties
<1> HIDE DEF k, n
<1>3. p \in 1 .. n /\ n - p = k
  BY <1>1
<1>4. infos[p] = Part(s, k)
  BY <1>2, <1>3 DEF n
<1>5. p \in I
  BY <1>1, <1>3, <1>4 DEF Holds, DdInfo, n
<1>6. ASSUME NEW i \in 1 .. n, i < p PROVE i \notin I
  <2>1. n - i \in Nat /\ k < n - i
    BY <1>1, <1>6
  <2>2. infos[i].addr = DsSize * (n - i)
    BY <1>2, <1>6 DEF Part, n
  <2>3. DsSize * k \in Int /\ DsSize * (n - i) \in Int
        /\ DsSize * k + DsSize <= DsSize * (n - i)
    BY <1>1, <2>1, DsSizeType, NextMultiple
  <2>4. ~(infos[i].addr <= x)
    <3>1. DsSize \in Nat /\ x \in Nat
      BY <1>1, DsSizeType
    <3> QED
      BY <1>1, <2>2, <2>3, <3>1
  <2> QED
    BY <2>4
<1>7. I \in SUBSET Nat /\ I \subseteq 1 .. n
  BY <1>2 DEF n
<1>8. FindByAddr(infos, x) = IF I # {} THEN Min(I) ELSE 0
  BY DEF FindByAddr, SelectInSeq
<1> HIDE DEF I
<1>9. Min(I) \in I /\ Min(I) <= p
  BY <1>5, <1>7, LeastFacts
<1>10. Min(I) = p
  <2>1. Min(I) \in 1 .. n
    BY <1>7, <1>9
  <2>2. ~(Min(I) < p)
    BY <1>6, <1>9, <2>1
  <2> QED
    BY <1>1, <1>3, <1>9, <2>1, <2>2
<1> HIDE DEF p
<1> QED
  BY <1>1, <1>3, <1>4, <1>5, <1>8, <1>10

-----------------------------------------------------------------------------
(* What the parent has given.                                              *)

\* Given adds up sizes from the end of a list to its head.
LEMMA GivenFacts ==
  ASSUME NEW infos \in Seq(DdInfo)
  PROVE  \E sum \in [0 .. Len(infos) -> Nat] :
           /\ sum[0] = 0 /\ Given(infos) = sum[Len(infos)]
           /\ \A n \in 1 .. Len(infos) : sum[n] = sum[n - 1] + infos[n].size
<1> DEFINE N == Len(infos)
           step == [n \in 1 .. N |-> [v \in Nat |-> v + infos[n].size]]
           Value(s, n) == IF n = 0 THEN 0 ELSE s[n - 1] + infos[n].size
           sum == CHOOSE s : s = [n \in 0 .. N |-> Value(s, n)]
<1>1. N \in Nat /\ \A n \in 1 .. N : infos[n] \in DdInfo /\ infos[n].size \in Nat
  <2>1. N \in Nat
    BY LenProperties
  <2>2. \A n \in 1 .. Len(infos) : infos[n] \in DdInfo
    BY ElementOfSeq
  <2> QED
    BY <2>1, <2>2 DEF DdInfo
<1>2. step \in [1 .. N -> [Nat -> Nat]]
  BY <1>1
<1>3. PICK f : Recurses(f, N, Nat, 0, step)
  <2> HIDE DEF N, step
  <2> QED
    BY <1>1, <1>2, Recursion
<1>4. \A n \in 1 .. N : f[n] = f[n - 1] + infos[n].size
  <2> TAKE n \in 1 .. N
  <2>1. n - 1 \in 0 .. N
    BY <1>1
  <2>2. f[n - 1] \in Nat
    BY <1>3, <2>1 DEF Recurses
  <2>3. f[n] = step[n][f[n - 1]]
    BY <1>3 DEF Recurses
  <2> QED
    BY <2>2, <2>3
<1>5. f \in [0 .. N -> Nat] /\ f[0] = 0
  BY <1>3 DEF Recurses
<1>6. \A n \in 0 .. N : f[n] = Value(f, n)
  <2> TAKE n \in 0 .. N
  <2>1. n # 0 => n \in 1 .. N
    BY <1>1
  <2> QED
    BY <1>4, <1>5, <2>1
<1>7. f = [n \in 0 .. N |-> Value(f, n)]
  <2> HIDE DEF Value
  <2> QED
    BY <1>5, <1>6
<1>8. sum = [n \in 0 .. N |-> Value(sum, n)]
  <2> HIDE DEF Value
  <2> QED
    BY <1>7
<1>9. Given(infos) = sum[N]
  BY DEF Given
<1> HIDE DEF sum
<1>10. \A n \in 0 .. N : sum[n] = Value(sum, n)
  <2> HIDE DEF Value, N
  <2> QED
    BY <1>8
<1>11. sum[0] = 0 /\ \A n \in 1 .. N : sum[n] = sum[n - 1] + infos[n].size
  <2>1. 0 \in 0 .. N /\ \A n \in 1 .. N : n \in 0 .. N /\ n # 0
    BY <1>1
  <2> QED
    BY <1>10, <2>1
<1> DEFINE P == {n \in Nat : n <= N => sum[n] = f[n]}
<1>12. 0 \in P
  BY <1>5, <1>11
<1>13. ASSUME NEW n \in Nat, n \in P PROVE n + 1 \in P
  <2> SUFFICES ASSUME n + 1 <= N PROVE sum[n + 1] = f[n + 1]
    OBVIOUS
  <2>1. n + 1 \in 1 .. N /\ n + 1 - 1 = n /\ n <= N
    BY <1>1
  <2>2. sum[n] = f[n]
    BY <1>13, <2>1
  <2>3. sum[n + 1] = sum[n + 1 - 1] + infos[n + 1].size /\ f[n + 1] = f[n + 1 - 1] + infos[n + 1].size
    BY <1>4, <1>11, <2>1
  <2> QED
    BY <2>1, <2>2, <2>3
<1>14. \A n \in Nat : n \in P
  <2> HIDE DEF P
  <2> QED
    BY <1>12, <1>13, Induction
<1>15. \A n \in 0 .. N : sum[n] = f[n]
  BY <1>14
<1>16. Given(infos) = f[N]
  BY <1>1, <1>9, <1>15
<1> QED
  BY <1>4, <1>5, <1>16

LEMMA GivenCons ==
  ASSUME NEW infos \in Seq(DdInfo), NEW d \in DdInfo
  PROVE  Given(infos) \in Nat /\ Given(Cons(d, infos)) = Given(infos) + d.size
<1> DEFINE N == Len(infos)
           more == Cons(d, infos)
<1>1. /\ N \in Nat /\ more \in Seq(DdInfo) /\ Len(more) = N + 1 /\ more[1] = d
      /\ \A i \in 2 .. N + 1 : more[i] = infos[i - 1]
  BY ConsFacts
<1> HIDE DEF more
<1>2. PICK f \in [0 .. N -> Nat] : /\ f[0] = 0 /\ Given(infos) = f[N]
                                   /\ \A n \in 1 .. N : f[n] = f[n - 1] + infos[n].size
  BY GivenFacts
<1>3. PICK g \in [0 .. N + 1 -> Nat] : /\ g[0] = 0 /\ Given(more) = g[N + 1]
                                       /\ \A n \in 1 .. N + 1 : g[n] = g[n - 1] + more[n].size
  <2> DEFINE L == Len(more)
  <2>1. \E g \in [0 .. L -> Nat] : /\ g[0] = 0 /\ Given(more) = g[L]
                                  /\ \A n \in 1 .. L : g[n] = g[n - 1] + more[n].size
    BY <1>1, GivenFacts
  <2>2. L = N + 1
    BY <1>1
  <2> HIDE DEF L, N
  <2> QED
    BY <2>1, <2>2
<1> HIDE DEF N
<1>4. d.size \in Nat
  BY DEF DdInfo
<1> DEFINE P == {n \in Nat : n <= N => g[n + 1] = f[n] + d.size}
<1>5. 0 \in P
  <2>1. g[1] = g[1 - 1] + more[1].size
    BY <1>1, <1>3
  <2> QED
    BY <1>1, <1>2, <1>3, <1>4, <2>1
<1>6. ASSUME NEW n \in Nat, n \in P PROVE n + 1 \in P
  <2> SUFFICES ASSUME n + 1 <= N PROVE g[n + 1 + 1] = f[n + 1] + d.size
    OBVIOUS
  <2>1. /\ n <= N /\ n + 1 \in 1 .. N /\ n + 1 + 1 \in 2 .. N + 1 /\ n + 1 + 1 \in 1 .. N + 1
        /\ n + 1 + 1 - 1 = n + 1 /\ n + 1 - 1 = n /\ n \in 0 .. N
    BY <1>1
  <2>2. g[n + 1] = f[n] + d.size
    BY <1>6, <2>1
  <2>3. more[n + 1 + 1] = infos[n + 1]
    BY <1>1, <2>1
  <2>4. g[n + 1 + 1] = g[n + 1] + infos[n + 1].size
    BY <1>3, <2>1, <2>3
  <2>5. f[n + 1] = f[n] + infos[n + 1].size /\ f[n] \in Nat /\ f[n + 1] \in Nat
    BY <1>2, <2>1
  <2>6. infos[n + 1].size \in Nat
    <3>1. infos[n + 1] \in DdInfo
      BY <2>1, ElementOfSeq DEF N
    <3> QED
      BY <3>1 DEF DdInfo
  <2> QED
    BY <1>4, <2>2, <2>4, <2>5, <2>6
<1>7. \A n \in Nat : n \in P
  <2> HIDE DEF P
  <2> QED
    BY <1>5, <1>6, Induction
<1>8. g[N + 1] = f[N] + d.size /\ f[N] \in Nat
  BY <1>1, <1>2, <1>7
<1> QED
  BY <1>2, <1>3, <1>8 DEF more

LEMMA GivenEmpty == Given(<<>>) = 0
<1>1. <<>> \in Seq(DdInfo) /\ Len(<<>>) = 0
  BY EmptySeq
<1> QED
  BY <1>1, GivenFacts

\* The sums of f[1], f[1] + f[2], ...
Sums(sum, f, n) ==
  /\ sum \in [0 .. n -> Nat] /\ sum[0] = 0
  /\ \A i \in 1 .. n : sum[i] = sum[i - 1] + f[i]
  /\ \A i, j \in 0 .. n : i <= j => sum[i] <= sum[j]

LEMMA OneChanged ==
  ASSUME NEW n \in Nat, NEW f \in [1 .. n -> Nat], NEW sum, Sums(sum, f, n),
         NEW m \in 1 .. n, NEW v \in Nat
  PROVE  /\ f[m] <= sum[n]
         /\ \E new : Sums(new, [f EXCEPT ![m] = v], n) /\ new[n] = sum[n] - f[m] + v
<1>1. \A i \in 0 .. n : sum[i] \in Nat
  BY DEF Sums
<1>2. m - 1 \in 0 .. n /\ m \in 0 .. n /\ n \in 0 .. n /\ f[m] \in Nat
  OBVIOUS
<1>3. sum[m] = sum[m - 1] + f[m]
  BY DEF Sums
<1>4. \A i \in m .. n : i \in 0 .. n /\ sum[m] <= sum[i] /\ sum[i] - f[m] \in Nat /\ sum[m - 1] <= sum[i] - f[m]
  <2> TAKE i \in m .. n
  <2>1. i \in 0 .. n /\ m <= i
    BY <1>2
  <2>2. sum[m] <= sum[i]
    BY <1>2, <2>1 DEF Sums
  <2> QED
    BY <1>1, <1>2, <1>3, <2>1, <2>2
<1> DEFINE g == [f EXCEPT ![m] = v]
           new == [i \in 0 .. n |-> IF i < m THEN sum[i] ELSE sum[i] - f[m] + v]
<1>5. new \in [0 .. n -> Nat]
  <2>1. \A i \in 0 .. n : i < m \/ i \in m .. n
    BY <1>2
  <2> QED
    BY <1>1, <1>4, <2>1
<1>6. new[0] = 0
  BY <1>2 DEF Sums
<1>7. \A i \in 1 .. n : new[i] = new[i - 1] + g[i]
  <2> TAKE i \in 1 .. n
  <2>1. i - 1 \in 0 .. n /\ i \in 0 .. n /\ sum[i] = sum[i - 1] + f[i] /\ f[i] \in Nat
    BY DEF Sums
  <2>2. CASE i < m
    <3>1. i - 1 < m /\ g[i] = f[i]
      BY <2>2
    <3> QED
      BY <2>1, <2>2, <3>1
  <2>3. CASE i = m
    <3>1. i - 1 < m /\ g[i] = v
      BY <2>3
    <3> QED
      BY <1>1, <2>1, <2>3, <3>1
  <2>4. CASE i > m
    <3>1. ~(i - 1 < m) /\ ~(i < m) /\ g[i] = f[i]
      BY <2>4
    <3> QED
      BY <1>1, <1>2, <2>1, <3>1
  <2> QED
    BY <2>2, <2>3, <2>4
<1>8. \A i, j \in 0 .. n : i <= j => new[i] <= new[j]
  <2> TAKE i, j \in 0 .. n
  <2> HAVE i <= j
  <2>1. sum[i] <= sum[j] /\ sum[i] \in Nat /\ sum[j] \in Nat
    BY <1>1 DEF Sums
  <2>2. CASE j < m
    BY <2>1, <2>2
  <2>3. CASE ~(j < m) /\ i < m
    <3>1. i <= m - 1 /\ j \in m .. n
      BY <2>3
    <3>2. sum[i] <= sum[m - 1] /\ sum[m - 1] \in Nat
      BY <1>1, <1>2, <3>1 DEF Sums
    <3>3. sum[m - 1] <= sum[j] - f[m]
      BY <1>4, <3>1
    <3> QED
      BY <1>2, <2>1, <2>3, <3>2, <3>3
  <2>4. CASE ~(i < m)
    <3>1. ~(j < m)
      BY <2>4
    <3> QED
      BY <1>2, <2>1, <2>4, <3>1
  <2> QED
    BY <2>2, <2>3, <2>4
<1>9. Sums(new, g, n)
  BY <1>5, <1>6, <1>7, <1>8 DEF Sums
<1>10. new[n] = sum[n] - f[m] + v
  BY <1>2
<1>11. f[m] <= sum[n]
  <2>1. n \in m .. n /\ sum[m - 1] \in Nat
    BY <1>1, <1>2
  <2> QED
    BY <1>1, <1>2, <1>3, <1>4, <2>1
<1> QED
  BY <1>9, <1>10, <1>11

-----------------------------------------------------------------------------
(* The invariant.                                                          *)

\* The infos of m are the first ones alloc() makes, the last of them in front.
Built(m) == \A i \in DOMAIN dds[m] : dds[m][i] = Part(size[m], Len(dds[m]) - i)

Complete(m) == Built(m) /\ Len(dds[m]) = NumParts(size[m])

BuildType ==
  /\ made \in 0 .. MaxMaps
  /\ list \in Seq(Map) /\ ToSet(list) \subseteq 1 .. made
  /\ size \in [Map -> Nat] /\ dds \in [Map -> Seq(DdInfo)]
  /\ epPc \in {"idle", "alloc", "dissolve", "destroy"}
  /\ epPc = "idle" => epMap = NoMap
  /\ epPc # "idle" => epMap \in 1 .. made

\* An element that is removed once is gone, and the one the entrypoint works
\* on is not in the list.
Distinct ==
  /\ \A i, j \in DOMAIN list : i # j => list[i] # list[j]
  /\ epMap \notin ToSet(list)

\* Elements of the list are complete, the one in the making is on its way.
BuildInv ==
  /\ BuildType /\ Distinct
  /\ \A m \in ToSet(list) : Complete(m)
  /\ epPc = "alloc" => Built(epMap) /\ Len(dds[epMap]) <= NumParts(size[epMap])
  /\ \A m \in Map : m > made => dds[m] = <<>>
  /\ RamAccounted

LEMMA InitBuild == Init => BuildInv
<1> SUFFICES ASSUME Init PROVE BuildInv
  OBVIOUS
<1>1. ToSet(list) = {}
  BY DEF Init, ToSet
<1>2. \A m \in Map : dds[m] = <<>>
  BY DEF Init
<1>3. list \in Seq(Map) /\ dds \in [Map -> Seq(DdInfo)]
  BY EmptySeq DEF Init
<1> QED
  BY <1>1, <1>2, <1>3, MapsAssumption
  DEF Init, BuildInv, BuildType, Distinct, RamAccounted

\* Steps of the pager, the target's threads and the checkpointer.
LEMMA OtherBuild ==
  ASSUME BuildInv, UNCHANGED <<list, size, dds, made, epPc, epMap, abandoned>>
  PROVE  BuildInv'
BY DEF BuildInv, BuildType, Distinct, Complete, Built, RamAccounted

LEMMA StartBuild ==
  ASSUME BuildInv, NEW s \in Sizes, AllocStart(s)
  PROVE  BuildInv'
<1>1. /\ epPc = "idle" /\ made < MaxMaps /\ made' = made + 1
      /\ size' = [size EXCEPT ![made + 1] = s]
      /\ epPc' = "alloc" /\ epMap' = made + 1
      /\ UNCHANGED <<list, dds, abandoned>>
  BY DEF AllocStart
<1>2. made \in Nat /\ MaxMaps \in Nat /\ made + 1 \in Map /\ s \in Nat
  BY <1>1, MapsAssumption, SizeAssumption DEF BuildInv, BuildType, Map
<1>3. BuildType'
  BY <1>1, <1>2 DEF BuildInv, BuildType
<1>4. Distinct'
  BY <1>1, <1>2 DEF BuildInv, BuildType, Distinct
<1>5. \A m \in ToSet(list)' : Complete(m)'
  <2> SUFFICES ASSUME NEW m \in ToSet(list) PROVE Complete(m)'
    BY <1>1
  <2>1. m \in Map /\ m # made + 1
    BY <1>2 DEF BuildInv, BuildType, Map
  <2>2. size'[m] = size[m] /\ dds' = dds
    BY <1>1, <2>1 DEF BuildInv, BuildType
  <2> QED
    BY <2>2 DEF BuildInv, Complete, Built
<1>6. dds'[epMap'] = <<>> /\ size'[epMap'] = s
  BY <1>1, <1>2 DEF BuildInv, BuildType
<1>7. Built(epMap)' /\ Len(dds'[epMap']) <= NumParts(size'[epMap'])
  BY <1>2, <1>6, PartsType DEF Built
<1>8. \A m \in Map : m > made' => dds'[m] = <<>>
  BY <1>1, <1>2 DEF BuildInv, Map
<1>9. RamAccounted'
  <2>1. \A m \in Map : dds[m] # <<>> => m \in ToSet(list) \cup abandoned
    <3> SUFFICES ASSUME NEW m \in Map, dds[m] # <<>> PROVE m # epMap
      BY DEF BuildInv, RamAccounted
    <3> QED
      BY <1>1 DEF BuildInv, BuildType, Map, NoMap
  <2> QED
    BY <1>1, <2>1 DEF RamAccounted
<1> QED
  BY <1>1, <1>3, <1>4, <1>5, <1>7, <1>8, <1>9 DEF BuildInv

LEMMA PartBuild ==
  ASSUME BuildInv, AllocPart
  PROVE  BuildInv'
<1> DEFINE e == epMap
           n == Len(dds[e])
           new == Cons(Part(size[e], n), dds[e])
<1>1. /\ epPc = "alloc" /\ n < NumParts(size[e])
      /\ dds' = [dds EXCEPT ![e] = new]
      /\ UNCHANGED <<list, size, made, epPc, epMap, abandoned>>
  BY DEF AllocPart, Incomplete, NextPart, epVars
<1>2. e \in Map /\ e \in 1 .. made /\ dds[e] \in Seq(DdInfo) /\ size[e] \in Nat
      /\ made \in Nat
  BY <1>1, MapsAssumption DEF BuildInv, BuildType, Map
<1>3. n \in Nat /\ Part(size[e], n) \in DdInfo
  BY <1>2, LenProperties, PartType
<1>4. /\ new \in Seq(DdInfo) /\ Len(new) = n + 1 /\ DOMAIN new = 1 .. n + 1
      /\ DOMAIN dds[e] = 1 .. n
      /\ new[1] = Part(size[e], n) /\ \A i \in 2 .. n + 1 : new[i] = dds[e][i - 1]
  <2> DEFINE p == Part(size[e], n)
             infos == dds[e]
  <2>1. infos \in Seq(DdInfo) /\ p \in DdInfo
    BY <1>2, <1>3
  <2>2. new = Cons(p, infos) /\ n = Len(infos)
    OBVIOUS
  <2> HIDE DEF p, infos, new, n
  <2>3. /\ Cons(p, infos) \in Seq(DdInfo) /\ Len(infos) \in Nat
        /\ DOMAIN infos = 1 .. Len(infos) /\ Len(Cons(p, infos)) = Len(infos) + 1
        /\ DOMAIN Cons(p, infos) = 1 .. Len(infos) + 1 /\ Cons(p, infos)[1] = p
        /\ \A i \in 2 .. Len(infos) + 1 : Cons(p, infos)[i] = infos[i - 1]
    BY <2>1, ConsFacts
  <2>4. infos = dds[e] /\ p = Part(size[e], n)
    BY DEF infos, p
  <2> QED
    BY <2>2, <2>3, <2>4
<1> HIDE DEF n, new
<1>5. \A i \in DOMAIN new : new[i] = Part(size[e], n + 1 - i)
  <2> SUFFICES ASSUME NEW i \in 1 .. n + 1 PROVE new[i] = Part(size[e], n + 1 - i)
    BY <1>4
  <2>1. CASE i = 1
    BY <1>3, <1>4, <2>1
  <2>2. CASE i # 1
    <3>1. i \in 2 .. n + 1 /\ i - 1 \in 1 .. n /\ n - (i - 1) = n + 1 - i
      BY <1>3, <2>2
    <3>2. dds[e][i - 1] = Part(size[e], n - (i - 1))
      BY <1>1, <1>4, <3>1 DEF BuildInv, Built, n
    <3> QED
      BY <1>4, <3>1, <3>2
  <2> QED
    BY <2>1, <2>2
<1>6. dds'[e] = new /\ \A m \in Map : m # e => dds'[m] = dds[m]
  BY <1>1, <1>2 DEF BuildInv, BuildType
<1>7. BuildType' /\ Distinct'
  BY <1>1, <1>2, <1>4 DEF BuildInv, BuildType, Distinct
<1>8. \A m \in ToSet(list)' : Complete(m)'
  <2> SUFFICES ASSUME NEW m \in ToSet(list) PROVE Complete(m)'
    BY <1>1
  <2>1. m # e /\ m \in Map
    BY <1>2, MapsAssumption DEF BuildInv, BuildType, Distinct, Map
  <2> QED
    BY <1>1, <1>6, <2>1 DEF BuildInv, Complete, Built
<1>9. Built(epMap)' /\ Len(dds'[e]) <= NumParts(size[e])
  <2>1. NumParts(size[e]) \in Nat
    BY <1>2, PartsType
  <2> QED
    BY <1>1, <1>3, <1>4, <1>5, <1>6, <2>1 DEF Built
<1>10. \A m \in Map : m > made' => dds'[m] = <<>>
  BY <1>1, <1>2, <1>6 DEF BuildInv
<1>11. RamAccounted'
  BY <1>1, <1>6 DEF BuildInv, RamAccounted
<1> QED
  BY <1>1, <1>7, <1>8, <1>9, <1>10, <1>11 DEF BuildInv

LEMMA InsertBuild ==
  ASSUME BuildInv, AllocInsert \/ AllocFails
  PROVE  BuildInv'
<1>1. /\ epPc = "alloc" /\ epPc' = "idle" /\ epMap' = NoMap
      /\ UNCHANGED <<size, dds, made>>
  BY DEF AllocInsert, AllocFails, ramVars
<1>2. epMap \in Map /\ epMap \in 1 .. made /\ NoMap \notin Map
  BY <1>1, MapsAssumption DEF BuildInv, BuildType, Map, NoMap
<1>3. CASE AllocFails
  <2>1. list' = list /\ abandoned' = abandoned \cup {epMap}
    BY <1>3 DEF AllocFails, ramVars
  <2>2. BuildType'
    BY <1>1, <2>1 DEF BuildInv, BuildType
  <2>3. Distinct'
    BY <1>1, <2>1, MapsAssumption DEF BuildInv, BuildType, Distinct, NoMap
  <2>4. RamAccounted'
    BY <1>1, <2>1 DEF BuildInv, RamAccounted
  <2> QED
    BY <1>1, <2>1, <2>2, <2>3, <2>4 DEF BuildInv, Complete, Built
<1>4. CASE AllocInsert
  <2>1. list' = Cons(epMap, list) /\ abandoned' = abandoned
        /\ ~(Len(dds[epMap]) < NumParts(size[epMap]))
    BY <1>4 DEF AllocInsert, Incomplete
  <2>2. /\ list' \in Seq(Map) /\ ToSet(list') = {epMap} \cup ToSet(list)
        /\ Len(list) \in Nat /\ DOMAIN list = 1 .. Len(list)
        /\ DOMAIN list' = 1 .. Len(list) + 1
        /\ list'[1] = epMap /\ \A i \in 2 .. Len(list) + 1 : list'[i] = list[i - 1]
    <3> DEFINE l == list
               m == epMap
    <3>1. l \in Seq(Map) /\ m \in Map
      BY <1>2 DEF BuildInv, BuildType
    <3> HIDE DEF l, m
    <3>2. /\ Cons(m, l) \in Seq(Map) /\ Len(l) \in Nat
          /\ DOMAIN l = 1 .. Len(l) /\ DOMAIN Cons(m, l) = 1 .. Len(l) + 1
          /\ Cons(m, l)[1] = m /\ \A i \in 2 .. Len(l) + 1 : Cons(m, l)[i] = l[i - 1]
      BY <3>1, ConsFacts
    <3>3. ToSet(Cons(m, l)) = {m} \cup ToSet(l)
      BY <3>1, ConsFacts, Zenon
    <3> QED
      BY <2>1, <3>2, <3>3 DEF l, m
  <2>3. BuildType'
    BY <1>1, <1>2, <2>2 DEF BuildInv, BuildType
  <2>4. Distinct'
    <3>1. \A i \in 1 .. Len(list) : list[i] \in ToSet(list)
      BY <2>2 DEF ToSet
    <3>2. ASSUME NEW i \in DOMAIN list', NEW j \in DOMAIN list', i # j
          PROVE  list'[i] # list'[j]
      <4>1. i \in 1 .. Len(list) + 1 /\ j \in 1 .. Len(list) + 1
        BY <2>2
      <4>2. CASE i = 1
        <5>1. j - 1 \in 1 .. Len(list) /\ j \in 2 .. Len(list) + 1
          BY <2>2, <3>2, <4>1, <4>2
        <5> QED
          BY <2>2, <3>1, <4>2, <5>1 DEF BuildInv, Distinct
      <4>3. CASE j = 1
        <5>1. i - 1 \in 1 .. Len(list) /\ i \in 2 .. Len(list) + 1
          BY <2>2, <3>2, <4>1, <4>3
        <5> QED
          BY <2>2, <3>1, <4>3, <5>1 DEF BuildInv, Distinct
      <4>4. CASE i # 1 /\ j # 1
        <5>1. /\ i - 1 \in 1 .. Len(list) /\ i \in 2 .. Len(list) + 1
              /\ j - 1 \in 1 .. Len(list) /\ j \in 2 .. Len(list) + 1
              /\ i - 1 # j - 1
          BY <2>2, <3>2, <4>1, <4>4
        <5> QED
          BY <2>2, <5>1 DEF BuildInv, Distinct
      <4> QED
        BY <4>2, <4>3, <4>4
    <3>3. epMap' \notin ToSet(list')
      BY <1>1, <1>2, <2>2, MapsAssumption DEF BuildInv, BuildType, NoMap
    <3> QED
      BY <3>2, <3>3 DEF Distinct
  <2>5. Complete(epMap)
    <3>1. NumParts(size[epMap]) \in Nat /\ Len(dds[epMap]) \in Nat
      BY <1>2, PartsType, LenProperties DEF BuildInv, BuildType
    <3> QED
      BY <1>1, <2>1, <3>1 DEF BuildInv, Complete
  <2>6. \A m \in ToSet(list') : Complete(m)'
    BY <1>1, <2>2, <2>5 DEF BuildInv, Complete, Built
  <2>7. RamAccounted'
    BY <1>1, <2>1, <2>2 DEF BuildInv, RamAccounted
  <2> QED
    BY <1>1, <2>3, <2>4, <2>6, <2>7 DEF BuildInv
<1> QED
  BY <1>3, <1>4

LEMMA RemoveBuild ==
  ASSUME BuildInv, NEW k \in DOMAIN list, FreeStart(k)
  PROVE  BuildInv'
<1>1. /\ epPc = "idle" /\ epPc' = "dissolve" /\ epMap' = list[k]
      /\ list' = RemoveAt(list, k)
      /\ UNCHANGED <<size, dds, made, abandoned>>
  BY DEF FreeStart
<1> DEFINE n == Len(list)
<1>2. /\ list' \in Seq(Map) /\ n \in Nat \ {0} /\ DOMAIN list = 1 .. n
      /\ DOMAIN list' = 1 .. n - 1
      /\ \A i \in 1 .. n - 1 : list'[i] = IF i < k THEN list[i] ELSE list[i + 1]
      /\ ToSet(list') \subseteq ToSet(list) /\ ToSet(list) \ {list[k]} \subseteq ToSet(list')
  <2>1. list \in Seq(Map)
    BY DEF BuildInv, BuildType
  <2>2. /\ RemoveAt(list, k) \in Seq(Map) /\ n \in Nat \ {0} /\ DOMAIN list = 1 .. n
        /\ DOMAIN RemoveAt(list, k) = 1 .. n - 1
        /\ \A i \in 1 .. n - 1 :
             RemoveAt(list, k)[i] = IF i < k THEN list[i] ELSE list[i + 1]
        /\ ToSet(RemoveAt(list, k)) \subseteq ToSet(list)
        /\ ToSet(list) \ {list[k]} \subseteq ToSet(RemoveAt(list, k))
    BY <2>1, RemoveAtFacts
  <2> QED
    BY <1>1, <2>2
<1>3. list[k] \in ToSet(list)
  BY DEF ToSet
<1> HIDE DEF n
\* Where the i-th element after the removal was before.
<1> DEFINE from(i) == IF i < k THEN i ELSE i + 1
<1>4. ASSUME NEW i \in 1 .. n - 1
      PROVE  from(i) \in DOMAIN list /\ from(i) # k /\ list'[i] = list[from(i)]
  BY <1>2
<1>5. ASSUME NEW i \in 1 .. n - 1, NEW j \in 1 .. n - 1, i # j
      PROVE  from(i) # from(j)
  BY <1>2, <1>5
<1>6. Distinct'
  <2>1. ASSUME NEW i \in DOMAIN list', NEW j \in DOMAIN list', i # j
        PROVE  list'[i] # list'[j]
    <3>1. i \in 1 .. n - 1 /\ j \in 1 .. n - 1
      BY <1>2
    <3>2. /\ from(i) \in DOMAIN list /\ list'[i] = list[from(i)]
          /\ from(j) \in DOMAIN list /\ list'[j] = list[from(j)]
      BY <1>4, <3>1
    <3>3. from(i) # from(j)
      BY <1>5, <2>1, <3>1
    <3> HIDE DEF from
    <3> QED
      BY <3>2, <3>3 DEF BuildInv, Distinct
  <2>2. list[k] \notin ToSet(list')
    <3> SUFFICES ASSUME NEW i \in 1 .. n - 1 PROVE list'[i] # list[k]
      BY <1>2 DEF ToSet
    <3> QED
      BY <1>4 DEF BuildInv, Distinct
  <2> QED
    BY <1>1, <2>1, <2>2 DEF Distinct
<1>7. BuildType'
  BY <1>1, <1>2, <1>3 DEF BuildInv, BuildType
<1>8. RamAccounted'
  <2>1. ASSUME NEW m \in Map, dds[m] # <<>>
        PROVE  m \in ToSet(list') \cup {list[k]} \cup abandoned
    <3>1. m # epMap
      BY <1>1 DEF BuildInv, BuildType, Map, NoMap
    <3> QED
      BY <1>2, <2>1, <3>1 DEF BuildInv, RamAccounted
  <2> QED
    BY <1>1, <2>1 DEF RamAccounted
<1> QED
  BY <1>1, <1>2, <1>6, <1>7, <1>8 DEF BuildInv, Complete, Built

LEMMA DestroyBuild ==
  ASSUME BuildInv, FreeDissolve \/ FreeDestroy
  PROVE  BuildInv'
<1>1. CASE FreeDissolve
  BY <1>1 DEF FreeDissolve, ramVars, BuildInv, BuildType, Distinct, Complete, Built,
     RamAccounted
<1>2. CASE FreeDestroy
  <2>1. /\ epPc = "destroy" /\ epPc' = "idle" /\ epMap' = NoMap
        /\ dds' = [dds EXCEPT ![epMap] = <<>>]
        /\ UNCHANGED <<list, size, made, abandoned>>
    BY <1>2 DEF FreeDestroy
  <2>2. epMap \in Map /\ epMap \in 1 .. made
    BY <2>1, MapsAssumption DEF BuildInv, BuildType, Map
  <2>3. dds'[epMap] = <<>> /\ \A m \in Map : m # epMap => dds'[m] = dds[m]
    BY <2>1, <2>2 DEF BuildInv, BuildType
  <2>4. BuildType'
    BY <2>1, EmptySeq DEF BuildInv, BuildType
  <2>5. Distinct'
    BY <2>1, MapsAssumption DEF BuildInv, BuildType, Distinct, NoMap
  <2>6. \A m \in ToSet(list)' : Complete(m)'
    <3> SUFFICES ASSUME NEW m \in ToSet(list) PROVE Complete(m)'
      BY <2>1
    <3>1. m # epMap /\ m \in Map
      BY MapsAssumption DEF BuildInv, BuildType, Distinct, Map
    <3> QED
      BY <2>1, <2>3, <3>1 DEF BuildInv, Complete, Built
  <2>7. RamAccounted'
    BY <2>1, <2>3 DEF BuildInv, RamAccounted
  <2> QED
    BY <2>1, <2>3, <2>4, <2>5, <2>6, <2>7 DEF BuildInv
<1> QED
  BY <1>1, <1>2

LEMMA BuildInvariant == Spec => []BuildInv
<1>1. BuildInv /\ [Next]_vars => BuildInv'
  <2> SUFFICES ASSUME BuildInv, [Next]_vars PROVE BuildInv'
    OBVIOUS
  <2>1. ASSUME NEW t \in Thread, NEW m \in ToSet(list),
               \E x \in 0 .. size[m] - 1 : Touch(t, m, x)
        PROVE  BuildInv'
    BY <2>1, OtherBuild DEF Touch, ramVars, epVars
  <2>2. CASE Checkpoint
    BY <2>2, OtherBuild DEF Checkpoint, ramVars, epVars
  <2>3. CASE \E s \in Sizes : AllocStart(s)
    BY <2>3, StartBuild
  <2>4. CASE \E i \in DOMAIN list : FreeStart(i)
    BY <2>4, RemoveBuild
  <2>5. CASE EntrypointStep
    BY <2>5, PartBuild, InsertBuild, DestroyBuild DEF EntrypointStep
  <2>6. CASE Pager
    BY <2>6, OtherBuild DEF Pager, PagerTake, PagerScan, PagerScanNull, PagerState,
       PagerAttach, epUnchanged, ramVars, epVars
  <2>7. CASE UNCHANGED vars
    BY <2>7, OtherBuild DEF vars, ramVars, epVars
  <2> QED
    BY <2>1, <2>2, <2>3, <2>4, <2>5, <2>6, <2>7 DEF Next
<1> QED
  BY <1>1, InitBuild, PTL DEF Spec

\* Whoever walks the list without the lock sees only dataspaces that alloc()
\* has completed, and in these find_by_addr is right at every address the
\* target may use, whatever the granularity and the size asked for.
THEOREM EveryAddressFound == Spec => []Tiled
<1>1. BuildInv => Tiled
  <2> SUFFICES ASSUME BuildInv, NEW m \in ToSet(list), NEW x \in 0 .. size[m] - 1
               PROVE  FindByAddr(dds[m], x) # 0 /\ Holds(dds[m][FindByAddr(dds[m], x)], x)
    BY DEF Tiled
  <2>1. m \in Map
    BY MapsAssumption DEF BuildInv, BuildType, Map
  <2>2. size[m] \in Nat /\ dds[m] \in Seq(DdInfo) /\ Complete(m)
    BY <2>1 DEF BuildInv, BuildType
  <2> QED
    BY <2>2, Located DEF Complete, Built
<1> QED
  BY <1>1, BuildInvariant, PTL

\* What the parent's RAM session has given belongs to a dataspace in the list,
\* to the one the entrypoint works on, or to a failed alloc().
THEOREM NothingElseGiven == Spec => []RamAccounted
<1>1. BuildInv => RamAccounted
  BY DEF BuildInv
<1> QED
  BY <1>1, BuildInvariant, PTL

-----------------------------------------------------------------------------
(* The pager dies for no other cause than the two that DiesForCause names: *)
(* as long as neither has occurred, there are no more rounds to come than  *)
(* threads that wait, so each round finds a fault.                         *)

Clean == ~doubled /\ ~freedEarly

Waiters == {t \in Thread : fault[t] # NoFault}

\* The rounds to come, each with the context whose signal calls for it; those
\* of the signal the pager holds go under NoMap.
Left(m) == IF m = NoMap THEN pgNum ELSE pending[m]
Rounds == {r \in (Map \cup {NoMap}) \X (Nat \ {0}) : r[2] <= Left(r[1])}

RoundType ==
  /\ fault \in [Thread -> [map : Map \cup {NoMap}, addr : Nat]]
  /\ pending \in [Map -> Nat] /\ pgNum \in Nat /\ pgLeft \in Nat
  /\ pgPc \in {"wait", "scan", "state", "attach", "dead"}
  /\ pgPc = "wait" => pgNum = 0
  /\ pgPc \in {"scan", "state", "attach"} => pgNum > 0
  /\ pgPc = "scan" => pgLeft <= Len(list)
  /\ pgPc \in {"state", "attach"} => pgMap \in Map
  /\ doubled \in BOOLEAN /\ freedEarly \in BOOLEAN

\* What a thread waits for is in the list, and no other thread waits for the
\* same designated dataspace.
Apart ==
  /\ \A t \in Waiters : fault[t].map \in ToSet(list)
  /\ \A t, u \in Waiters : fault[t].map = fault[u].map =>
       \A d \in ToSet(dds[fault[t].map]) :
         Holds(d, fault[t].addr) /\ Holds(d, fault[u].addr) => t = u

Enough ==
  /\ IsFiniteSet(Waiters) /\ IsFiniteSet(Rounds)
  /\ Cardinality(Rounds) <= Cardinality(Waiters)

\* A fault is still ahead of the pager.
Ahead ==
  \E t \in Waiters, i \in DOMAIN list : i >= Cursor /\ list[i] = fault[t].map

\* The round is about a fault.
OnFault ==
  /\ pgPc = "scan" => Ahead
  /\ pgPc = "state" => Faulters(pgMap) # {}
  /\ pgPc = "attach" => \E t \in Faulters(pgMap) : fault[t].addr = pgAddr

KeptInv == Clean => pgPc # "dead" /\ Apart /\ Enough /\ OnFault

PagerInv == BuildInv /\ RoundType /\ KeptInv

-----------------------------------------------------------------------------
(* Designated dataspaces do not overlap.                                   *)

LEMMA PartsInOrder ==
  ASSUME NEW s \in Nat, NEW a \in Nat, NEW b \in Nat, NEW x,
         a < b, b < NumParts(s), Holds(Part(s, a), x), x \in Nat
  PROVE  ~Holds(Part(s, b), x)
<1>1. NumDataspaces(s) \in Nat /\ a < NumDataspaces(s)
  BY PartsType DEF NumParts
<1>2. DsSize \in Nat /\ DsSize * a \in Int /\ DsSize * b \in Int
      /\ DsSize * a + DsSize <= DsSize * b
  BY DsSizeType, NextMultiple
<1>3. x < DsSize * a + DsSize
  BY <1>1 DEF Part, Holds
<1>4. ~(DsSize * b <= x)
  BY <1>2, <1>3
<1> QED
  BY <1>4 DEF Part, Holds

LEMMA Disjoint ==
  ASSUME BuildInv, NEW m \in ToSet(list), NEW d \in ToSet(dds[m]), NEW e \in ToSet(dds[m]),
         NEW x \in Nat, Holds(d, x), Holds(e, x)
  PROVE  d = e
<1> DEFINE n == Len(dds[m])
<1>1. m \in Map
  BY MapsAssumption DEF BuildInv, BuildType, Map
<1>2. size[m] \in Nat /\ n \in Nat /\ DOMAIN dds[m] = 1 .. n
  BY <1>1, LenProperties DEF BuildInv, BuildType
<1>3. n = NumParts(size[m]) /\ \A i \in DOMAIN dds[m] : dds[m][i] = Part(size[m], n - i)
  BY DEF BuildInv, Complete, Built
<1> HIDE DEF n
<1>4. PICK i \in 1 .. n, j \in 1 .. n : d = Part(size[m], n - i) /\ e = Part(size[m], n - j)
  BY <1>2, <1>3 DEF ToSet
<1>5. n - i \in Nat /\ n - j \in Nat /\ n - i < n /\ n - j < n
  BY <1>2
<1>6. CASE n - i < n - j
  BY <1>2, <1>3, <1>4, <1>5, <1>6, PartsInOrder
<1>7. CASE n - j < n - i
  BY <1>2, <1>3, <1>4, <1>5, <1>7, PartsInOrder
<1>8. CASE n - i = n - j
  BY <1>4, <1>8
<1> QED
  BY <1>5, <1>6, <1>7, <1>8

LEMMA FoundInDomain ==
  ASSUME NEW infos, NEW x, FindByAddr(infos, x) # 0
  PROVE  FindByAddr(infos, x) \in 1 .. Len(infos)
<1> DEFINE I == {i \in 1 .. Len(infos) : infos[i].addr <= x /\ x <= infos[i].addr + infos[i].size}
<1>1. FindByAddr(infos, x) = IF I # {} THEN Min(I) ELSE 0
  BY DEF FindByAddr, SelectInSeq
<1>2. I \in SUBSET Nat /\ I \subseteq 1 .. Len(infos)
  OBVIOUS
<1> HIDE DEF I
<1> QED
  BY <1>1, <1>2, LeastFacts

-----------------------------------------------------------------------------
(* Counting rounds.                                                        *)

LEMMA RoundFacts ==
  ASSUME RoundType
  PROVE  /\ NoMap \notin Map
         /\ \A m \in Map \cup {NoMap} : Left(m) \in Nat
         /\ \A m \in Map \cup {NoMap}, i \in Nat \ {0} :
              <<m, i>> \in Rounds <=> i <= Left(m)
<1>1. NoMap \notin Map
  BY MapsAssumption DEF Map, NoMap
<1>2. \A m \in Map \cup {NoMap} : Left(m) \in Nat
  BY <1>1 DEF Left, RoundType
<1>3. ASSUME NEW m \in Map \cup {NoMap}, NEW i \in Nat \ {0}
      PROVE  <<m, i>> \in Rounds <=> i <= Left(m)
  BY DEF Rounds
<1> QED
  BY <1>1, <1>2, <1>3

\* A signal more of m's context is a round more.
LEMMA OneSignalMore ==
  ASSUME RoundType, RoundType', NEW m \in Map,
         pending' = [pending EXCEPT ![m] = @ + 1], pgNum' = pgNum
  PROVE  Rounds' = Rounds \cup {<<m, pending[m] + 1>>}
<1>1. Left(m) = pending[m] /\ Left(m)' = pending[m] + 1 /\ pending[m] \in Nat
  BY RoundFacts DEF Left, RoundType
<1>2. \A k \in Map \cup {NoMap} : k # m => Left(k)' = Left(k)
  BY RoundFacts DEF Left, RoundType
<1>3. ASSUME NEW r PROVE r \in Rounds' <=> r \in Rounds \/ r = <<m, pending[m] + 1>>
  <2>1. CASE r \in (Map \cup {NoMap}) \X (Nat \ {0})
    <3>1. PICK k \in Map \cup {NoMap}, i \in Nat \ {0} : r = <<k, i>>
      BY <2>1
    <3>2. (r \in Rounds <=> i <= Left(k)) /\ (r \in Rounds' <=> i <= Left(k)')
      BY <3>1 DEF Rounds
    <3>3. CASE k = m
      BY <1>1, <3>1, <3>2, <3>3
    <3>4. CASE k # m
      BY <1>2, <3>1, <3>2, <3>4
    <3> QED
      BY <3>3, <3>4
  <2>2. CASE r \notin (Map \cup {NoMap}) \X (Nat \ {0})
    BY <1>1, <2>2 DEF Rounds
  <2> QED
    BY <2>1, <2>2
<1> QED
  BY <1>3

\* A round that ends is the last one of those the pager has.
LEMMA OneRoundLess ==
  ASSUME RoundType, RoundType', pgNum > 0,
         pending' = pending, pgNum' = pgNum - 1
  PROVE  Rounds' = Rounds \ {<<NoMap, pgNum>>} /\ <<NoMap, pgNum>> \in Rounds
<1>1. Left(NoMap) = pgNum /\ Left(NoMap)' = pgNum - 1 /\ pgNum \in Nat \ {0}
  BY DEF Left, RoundType
<1>2. \A k \in Map \cup {NoMap} : k # NoMap => Left(k)' = Left(k)
  BY DEF Left
<1>3. ASSUME NEW r PROVE r \in Rounds' <=> r \in Rounds /\ r # <<NoMap, pgNum>>
  <2>1. CASE r \in (Map \cup {NoMap}) \X (Nat \ {0})
    <3>1. PICK k \in Map \cup {NoMap}, i \in Nat \ {0} : r = <<k, i>>
      BY <2>1
    <3>2. (r \in Rounds <=> i <= Left(k)) /\ (r \in Rounds' <=> i <= Left(k)')
      BY <3>1 DEF Rounds
    <3>3. CASE k = NoMap
      BY <1>1, <3>1, <3>2, <3>3
    <3>4. CASE k # NoMap
      BY <1>2, <3>1, <3>2, <3>4
    <3> QED
      BY <3>3, <3>4
  <2>2. CASE r \notin (Map \cup {NoMap}) \X (Nat \ {0})
    BY <2>2 DEF Rounds
  <2> QED
    BY <2>1, <2>2
<1>4. <<NoMap, pgNum>> \in Rounds
  BY <1>1, RoundFacts
<1> QED
  BY <1>3, <1>4

\* Taking a signal changes the name of its rounds, not their number.
LEMMA SameRounds ==
  ASSUME RoundType, RoundType', IsFiniteSet(Rounds), NEW m \in Map, pgNum = 0,
         pending' = [pending EXCEPT ![m] = 0], pgNum' = pending[m]
  PROVE  IsFiniteSet(Rounds') /\ Cardinality(Rounds') = Cardinality(Rounds)
<1>1. NoMap \notin Map /\ Left(m) = pending[m] /\ Left(m)' = 0 /\ Left(NoMap) = 0
      /\ Left(NoMap)' = pending[m] /\ pending[m] \in Nat
  BY RoundFacts DEF Left, RoundType
<1>2. \A k \in Map : k # m => Left(k)' = Left(k)
  BY <1>1 DEF Left, RoundType
<1>3. \A k \in Map \cup {NoMap}, i \in Nat \ {0} :
        /\ <<k, i>> \in Rounds <=> i <= Left(k)
        /\ <<k, i>> \in Rounds' <=> i <= Left(k)'
  BY DEF Rounds
<1>4. /\ Rounds \subseteq (Map \cup {NoMap}) \X (Nat \ {0})
      /\ Rounds' \subseteq (Map \cup {NoMap}) \X (Nat \ {0})
  BY DEF Rounds
<1> DEFINE new(k) == IF k = m THEN NoMap ELSE k
           f == [r \in Rounds |-> <<new(r[1]), r[2]>>]
<1>5. ASSUME NEW r \in Rounds
      PROVE  /\ r = <<r[1], r[2]>> /\ r[1] \in Map /\ r[2] \in Nat \ {0}
             /\ r[2] <= Left(r[1])
  <2>1. PICK k \in Map \cup {NoMap}, i \in Nat \ {0} : r = <<k, i>>
    BY <1>4
  <2>2. i <= Left(k)
    BY <1>3, <2>1
  <2>3. k # NoMap
    BY <1>1, <2>2
  <2> QED
    BY <2>1, <2>2, <2>3
<1>6. \A r \in Rounds : <<new(r[1]), r[2]>> \in Rounds'
  <2> TAKE r \in Rounds
  <2>1. r[1] \in Map /\ r[2] \in Nat \ {0} /\ r[2] <= Left(r[1])
    BY <1>5
  <2>2. new(r[1]) \in Map \cup {NoMap} /\ Left(new(r[1]))' = Left(r[1])
    BY <1>1, <1>2, <2>1
  <2> QED
    BY <1>3, <2>1, <2>2
<1>7. \A q, r \in Rounds : f[q] = f[r] => q = r
  <2> SUFFICES ASSUME NEW q \in Rounds, NEW r \in Rounds, f[q] = f[r] PROVE q = r
    OBVIOUS
  <2>1. new(q[1]) = new(r[1]) /\ q[2] = r[2]
    OBVIOUS
  <2>2. q[1] \in Map /\ r[1] \in Map /\ q = <<q[1], q[2]>> /\ r = <<r[1], r[2]>>
    BY <1>5
  <2>3. q[1] = r[1]
    BY <1>1, <2>1, <2>2
  <2> QED
    BY <2>1, <2>2, <2>3
<1>8. \A r \in Rounds' : \E q \in Rounds : f[q] = r
  <2> SUFFICES ASSUME NEW r \in Rounds' PROVE \E q \in Rounds : f[q] = r
    OBVIOUS
  <2>r. PICK k \in Map \cup {NoMap}, i \in Nat \ {0} : r = <<k, i>>
    BY <1>4
  <2>1. i <= Left(k)'
    BY <1>3, <2>r
  <2>2. CASE k = NoMap
    <3>1. <<m, i>> \in Rounds
      BY <1>1, <1>3, <2>1, <2>2
    <3>2. f[<<m, i>>] = <<NoMap, i>>
      BY <3>1
    <3> QED
      BY <2>r, <2>2, <3>1, <3>2
  <2>3. CASE k # NoMap
    <3>1. k \in Map /\ k # m
      BY <1>1, <2>1, <2>3
    <3>2. <<k, i>> \in Rounds
      BY <1>2, <1>3, <2>1, <3>1
    <3>3. f[<<k, i>>] = <<k, i>>
      BY <3>1, <3>2
    <3> QED
      BY <2>r, <3>2, <3>3
  <2> QED
    BY <2>2, <2>3
<1>9. f \in [Rounds -> Rounds']
  BY <1>6
<1> HIDE DEF f
<1>10. f \in Bijection(Rounds, Rounds')
  BY <1>7, <1>8, <1>9, Fun_IsBij
<1> QED
  BY <1>10, FS_Bijection DEF ExistsBijection

-----------------------------------------------------------------------------
(* Steps.                                                                  *)

LEMMA SomeWaiter ==
  ASSUME NEW W, NEW R, IsFiniteSet(W), IsFiniteSet(R), Cardinality(R) <= Cardinality(W),
         NEW r \in R
  PROVE  W # {}
<1>1. Cardinality(R) # 0 /\ Cardinality(R) \in Nat
  BY FS_EmptySet, FS_CardinalityType
<1>2. W = {} => Cardinality(W) = 0
  BY FS_EmptySet
<1> QED
  BY <1>1, <1>2

LEMMA ListType ==
  ASSUME BuildInv
  PROVE  /\ Len(list) \in Nat /\ DOMAIN list = 1 .. Len(list)
         /\ ToSet(list) \subseteq Map
         /\ \A i \in 1 .. Len(list) : list[i] \in ToSet(list)
         /\ \A m \in ToSet(list) : \E i \in 1 .. Len(list) : list[i] = m
<1>1. Len(list) \in Nat /\ DOMAIN list = 1 .. Len(list)
  BY LenProperties DEF BuildInv, BuildType
<1>2. ToSet(list) \subseteq Map
  BY MapsAssumption DEF BuildInv, BuildType, Map
<1> QED
  BY <1>1, <1>2 DEF ToSet

LEMMA InitPager == Init => RoundType /\ KeptInv
<1> SUFFICES ASSUME Init PROVE RoundType /\ KeptInv
  OBVIOUS
<1>1. RoundType
  BY DEF Init, RoundType, NoFault
<1>2. Waiters = {} /\ Rounds = {}
  <2>1. Waiters = {}
    BY DEF Init, Waiters
  <2>2. \A m \in Map \cup {NoMap} : Left(m) = 0
    BY DEF Init, Left
  <2>3. ASSUME NEW r \in Rounds PROVE FALSE
    <3>1. r[1] \in Map \cup {NoMap} /\ r[2] \in Nat \ {0} /\ r[2] <= Left(r[1])
      BY DEF Rounds
    <3> QED
      BY <2>2, <3>1
  <2> QED
    BY <2>1, <2>3
<1>3. Apart /\ Enough
  BY <1>2, FS_EmptySet DEF Apart, Enough
<1>4. OnFault /\ pgPc # "dead"
  BY DEF Init, OnFault
<1> QED
  BY <1>1, <1>3, <1>4 DEF KeptInv

\* Steps that leave faults, signals, the pager and the list alone.
LEMMA QuietPager ==
  ASSUME PagerInv, \A m \in ToSet(list) : dds'[m] = dds[m],
         UNCHANGED <<list, fault, pending, pgVars, doubled, freedEarly>>
  PROVE  RoundType' /\ KeptInv'
<1>1. RoundType'
  BY DEF PagerInv, RoundType, pgVars
<1>2. Waiters' = Waiters /\ Rounds' = Rounds
  BY DEF Waiters, Rounds, Left, pgVars
<1>3. Apart => Apart'
  BY <1>2 DEF Apart
<1>4. Enough => Enough'
  BY <1>2 DEF Enough
<1>5. OnFault => OnFault'
  BY <1>2 DEF OnFault, Ahead, Cursor, Faulters, pgVars
<1> QED
  BY <1>1, <1>3, <1>4, <1>5 DEF PagerInv, KeptInv, Clean, pgVars

LEMMA TouchPager ==
  ASSUME PagerInv, NEW t \in Thread, NEW m \in ToSet(list), NEW x \in 0 .. size[m] - 1,
         Touch(t, m, x)
  PROVE  RoundType' /\ KeptInv'
<1>1. /\ fault[t] = NoFault /\ UNCHANGED <<list, dds, pgVars, freedEarly>>
      /\ fault' = [fault EXCEPT ![t] = [map |-> m, addr |-> x]]
      /\ pending' = [pending EXCEPT ![m] = @ + 1]
  BY DEF Touch, ramVars
<1>2. PICK d0 \in ToSet(dds[m]) : Holds(d0, x) /\ doubled' = (doubled \/ Waiting(m, d0) # {})
  BY DEF Touch
<1>3. m \in Map /\ NoMap \notin Map /\ x \in Nat
  BY ListType, RoundFacts DEF PagerInv
<1>4. RoundType'
  BY <1>1, <1>2, <1>3 DEF PagerInv, RoundType, pgVars
<1>5. /\ fault'[t] = [map |-> m, addr |-> x] /\ \A u \in Thread : u # t => fault'[u] = fault[u]
      /\ fault \in [Thread -> [map : Map \cup {NoMap}, addr : Nat]]
  BY <1>1 DEF PagerInv, RoundType
<1>6. Waiters' = Waiters \cup {t} /\ t \notin Waiters
  BY <1>1, <1>3, <1>5 DEF Waiters, NoFault
<1> SUFFICES ASSUME Clean' PROVE pgPc' # "dead" /\ Apart' /\ Enough' /\ OnFault'
  BY <1>4 DEF KeptInv
<1>7. /\ Clean /\ Waiting(m, d0) = {}
      /\ pgPc # "dead" /\ Apart /\ Enough /\ OnFault
  BY <1>1, <1>2 DEF Clean, PagerInv, KeptInv, RoundType
<1>8. Apart'
  <2>1. \A u \in Waiters' : fault'[u].map \in ToSet(list')
    BY <1>1, <1>5, <1>6, <1>7 DEF Apart
  <2>2. ASSUME NEW u \in Waiters, NEW d \in ToSet(dds[m]), fault[u].map = m, u # t,
               Holds(d, x), Holds(d, fault[u].addr)
        PROVE  FALSE
    <3>1. d = d0
      BY <1>2, <1>3, <2>2, Disjoint DEF PagerInv
    <3> QED
      BY <1>7, <2>2, <3>1 DEF Waiting, Faulters, Waiters
  <2>3. ASSUME NEW u \in Waiters', NEW v \in Waiters', fault'[u].map = fault'[v].map,
               NEW d \in ToSet(dds'[fault'[u].map]),
               Holds(d, fault'[u].addr), Holds(d, fault'[v].addr)
        PROVE  u = v
    <3>a. u \in Thread /\ v \in Thread /\ d \in ToSet(dds[fault'[u].map])
      BY <1>1 DEF Waiters
    <3>b. fault'[t].map = m /\ fault'[t].addr = x
      BY <1>5
    <3>1. CASE u = t /\ v # t
      <4>1. v \in Waiters /\ fault'[v] = fault[v]
        BY <1>5, <1>6, <3>a, <3>1
      <4>2. fault[v].map = m /\ Holds(d, x) /\ Holds(d, fault[v].addr) /\ d \in ToSet(dds[m])
        BY <2>3, <3>a, <3>b, <3>1, <4>1
      <4> QED
        BY <2>2, <3>1, <4>1, <4>2
    <3>2. CASE u # t /\ v = t
      <4>1. u \in Waiters /\ fault'[u] = fault[u]
        BY <1>5, <1>6, <3>a, <3>2
      <4>2. fault[u].map = m /\ Holds(d, x) /\ Holds(d, fault[u].addr) /\ d \in ToSet(dds[m])
        BY <2>3, <3>a, <3>b, <3>2, <4>1
      <4> QED
        BY <2>2, <3>2, <4>1, <4>2
    <3>3. CASE u # t /\ v # t
      <4>1. /\ u \in Waiters /\ fault'[u] = fault[u]
            /\ v \in Waiters /\ fault'[v] = fault[v]
        BY <1>5, <1>6, <3>a, <3>3
      <4> QED
        BY <1>7, <2>3, <3>a, <4>1 DEF Apart
    <3> QED
      BY <3>1, <3>2, <3>3
  <2> QED
    BY <1>1, <2>1, <2>3 DEF Apart
<1>9. Enough'
  <2>1. Rounds' = Rounds \cup {<<m, pending[m] + 1>>}
    BY <1>1, <1>3, <1>4, OneSignalMore DEF PagerInv, pgVars
  <2>2. IsFiniteSet(Rounds) /\ IsFiniteSet(Waiters)
    BY <1>7 DEF Enough
  <2>3. IsFiniteSet(Rounds') /\ Cardinality(Rounds') <= Cardinality(Rounds) + 1
    <3>1. /\ IsFiniteSet(Rounds')
          /\ \/ Cardinality(Rounds') = Cardinality(Rounds)
             \/ Cardinality(Rounds') = Cardinality(Rounds) + 1
      BY <2>1, <2>2, FS_AddElement
    <3>2. Cardinality(Rounds) \in Nat
      BY <2>2, FS_CardinalityType
    <3> QED
      BY <3>1, <3>2
  <2>4. IsFiniteSet(Waiters') /\ Cardinality(Waiters') = Cardinality(Waiters) + 1
    BY <1>6, <2>2, FS_AddElement
  <2>5. /\ Cardinality(Rounds) \in Nat /\ Cardinality(Waiters) \in Nat
        /\ Cardinality(Rounds') \in Nat
    BY <2>2, <2>3, FS_CardinalityType
  <2> QED
    BY <1>7, <2>3, <2>4, <2>5 DEF Enough
<1>10. OnFault'
  <2>1. \A u \in Waiters : u \in Waiters' /\ fault'[u] = fault[u]
    BY <1>5, <1>6 DEF Waiters
  <2>2. \A k \in Map : \A u \in Faulters(k) : u \in Faulters(k)' /\ fault'[u] = fault[u]
    BY <1>1, <1>3, <1>5 DEF Faulters, NoFault
  <2>3. Ahead => Ahead'
    BY <1>1, <2>1 DEF Ahead, Cursor, pgVars
  <2>4. pgPc \in {"state", "attach"} => pgMap \in Map
    BY DEF PagerInv, RoundType
  <2>5. UNCHANGED <<pgPc, pgMap, pgAddr>>
    BY <1>1 DEF pgVars
  <2> QED
    BY <1>7, <2>2, <2>3, <2>4, <2>5 DEF OnFault
<1> QED
  BY <1>1, <1>7, <1>8, <1>9, <1>10 DEF pgVars

\* free() of a dataspace while somebody waits makes freedEarly true; otherwise
\* the pager has nothing to do.
LEMMA RemovePager ==
  ASSUME PagerInv, BuildInv', NEW k \in DOMAIN list, FreeStart(k)
  PROVE  RoundType' /\ KeptInv'
<1>1. /\ list' = RemoveAt(list, k) /\ UNCHANGED <<dds, pgCtx, pgNum, pgMap, pgAddr, fault, pending, doubled>>
      /\ IF pgPc = "scan" /\ pgLeft > 0
           THEN /\ pgPc' = IF k = Cursor THEN "dead" ELSE pgPc
                /\ pgLeft' = IF k >= Cursor THEN pgLeft - 1 ELSE pgLeft
           ELSE UNCHANGED <<pgPc, pgLeft>>
      /\ freedEarly' = (freedEarly \/ \E t \in Thread : fault[t] # NoFault)
  BY DEF FreeStart, faultVars
<1>2. Len(list') = Len(list) - 1 /\ Len(list) \in Nat \ {0} /\ k \in 1 .. Len(list)
  <2>1. list \in Seq(Map)
    BY DEF PagerInv, BuildInv, BuildType
  <2> QED
    BY <1>1, <2>1, RemoveAtFacts
<1>3. RoundType'
  <2>1. pgPc = "scan" /\ pgPc' = "scan" => pgLeft' \in Nat /\ pgLeft' <= Len(list')
    BY <1>1, <1>2 DEF PagerInv, RoundType, Cursor
  <2>2. pgLeft' \in Nat
    BY <1>1 DEF PagerInv, RoundType
  <2>3. pgPc' = pgPc \/ (pgPc = "scan" /\ pgPc' = "dead")
    BY <1>1
  <2>4. freedEarly' \in BOOLEAN
    BY <1>1 DEF PagerInv, RoundType
  <2> QED
    BY <1>1, <2>1, <2>2, <2>3, <2>4 DEF PagerInv, RoundType
<1> SUFFICES ASSUME Clean' PROVE pgPc' # "dead" /\ Apart' /\ Enough' /\ OnFault'
  BY <1>3 DEF KeptInv
<1>4. Clean /\ Waiters = {}
  BY <1>1 DEF Clean, Waiters, PagerInv, RoundType
<1>5. pgPc # "dead" /\ Enough /\ OnFault
  BY <1>4 DEF PagerInv, KeptInv
<1>6. pgPc \notin {"scan", "state", "attach"}
  <2>1. ~Ahead
    BY <1>4 DEF Ahead
  <2>2. ASSUME pgMap \in Map PROVE Faulters(pgMap) = {}
    BY <1>4, <2>2, RoundFacts DEF Faulters, Waiters, NoFault, PagerInv
  <2> QED
    BY <1>5, <2>1, <2>2 DEF OnFault, PagerInv, RoundType
<1>7. pgPc' = pgPc
  BY <1>1, <1>6
<1>8. Waiters' = {} /\ Rounds' = Rounds
  BY <1>1, <1>4 DEF Waiters, Rounds, Left
<1>9. Apart'
  BY <1>8 DEF Apart
<1>10. Enough'
  BY <1>4, <1>5, <1>8 DEF Enough
<1>11. OnFault'
  BY <1>6, <1>7 DEF OnFault
<1> QED
  BY <1>5, <1>7, <1>9, <1>10, <1>11

LEMMA InsertPager ==
  ASSUME PagerInv, AllocInsert
  PROVE  RoundType' /\ KeptInv'
<1>1. /\ list' = Cons(epMap, list) /\ epPc = "alloc"
      /\ UNCHANGED <<dds, fault, pending, pgVars, doubled, freedEarly>>
  BY DEF AllocInsert, faultVars
<1>2. /\ Len(list) \in Nat /\ DOMAIN list = 1 .. Len(list)
      /\ Len(list') = Len(list) + 1 /\ DOMAIN list' = 1 .. Len(list) + 1
      /\ \A i \in 2 .. Len(list) + 1 : list'[i] = list[i - 1]
      /\ ToSet(list) \subseteq ToSet(list')
  <2> DEFINE l == list
             m == epMap
  <2>1. l \in Seq(Map) /\ m \in Map
    BY <1>1, MapsAssumption DEF PagerInv, BuildInv, BuildType, Map
  <2> HIDE DEF l, m
  <2>2. /\ Len(l) \in Nat /\ DOMAIN l = 1 .. Len(l)
        /\ Len(Cons(m, l)) = Len(l) + 1 /\ DOMAIN Cons(m, l) = 1 .. Len(l) + 1
        /\ \A i \in 2 .. Len(l) + 1 : Cons(m, l)[i] = l[i - 1]
    BY <2>1, ConsFacts
  <2>3. ToSet(Cons(m, l)) = {m} \cup ToSet(l)
    BY <2>1, ConsFacts, Zenon
  <2> QED
    BY <1>1, <2>2, <2>3 DEF l, m
<1>3. RoundType'
  BY <1>1, <1>2 DEF PagerInv, RoundType, pgVars
<1>4. Waiters' = Waiters /\ Rounds' = Rounds
  BY <1>1 DEF Waiters, Rounds, Left, pgVars
<1>5. Apart => Apart'
  BY <1>1, <1>2, <1>4 DEF Apart
<1>6. Enough => Enough'
  BY <1>4 DEF Enough
<1>7. pgPc = "scan" /\ Ahead => Ahead'
  <2> SUFFICES ASSUME pgPc = "scan", NEW t \in Waiters, NEW i \in DOMAIN list,
                      i >= Cursor, list[i] = fault[t].map
               PROVE  Ahead'
    BY DEF Ahead
  <2>1. Cursor' = Cursor + 1 /\ Cursor \in Int
    BY <1>1, <1>2 DEF Cursor, pgVars, PagerInv, RoundType
  <2>2. i + 1 \in 2 .. Len(list) + 1 /\ i + 1 \in DOMAIN list' /\ i + 1 - 1 = i
    BY <1>2
  <2>3. list'[i + 1] = fault'[t].map /\ i + 1 >= Cursor'
    BY <1>1, <1>2, <2>1, <2>2
  <2> QED
    BY <1>4, <2>2, <2>3 DEF Ahead
<1>8. OnFault => OnFault'
  BY <1>1, <1>7 DEF OnFault, Faulters, pgVars
<1> QED
  BY <1>1, <1>3, <1>5, <1>6, <1>8 DEF PagerInv, KeptInv, Clean, pgVars

\* Signals that are dropped are rounds that do not take place.
LEMMA DissolvePager ==
  ASSUME PagerInv, FreeDissolve
  PROVE  RoundType' /\ KeptInv'
<1>1. /\ pending' = [pending EXCEPT ![epMap] = 0] /\ epPc = "dissolve"
      /\ UNCHANGED <<list, dds, fault, pgVars, doubled, freedEarly>>
  BY DEF FreeDissolve, ramVars
<1>2. RoundType'
  BY <1>1 DEF PagerInv, RoundType, pgVars
<1>3. Waiters' = Waiters
  BY <1>1 DEF Waiters
<1>4. Rounds' \subseteq Rounds
  <2>1. \A m \in Map \cup {NoMap} :
          Left(m)' <= Left(m) /\ Left(m)' \in Nat /\ Left(m) \in Nat
    BY <1>1, <1>2, RoundFacts DEF Left, PagerInv, RoundType, pgVars
  <2> SUFFICES ASSUME NEW r \in Rounds' PROVE r \in Rounds
    OBVIOUS
  <2>2. /\ r \in (Map \cup {NoMap}) \X (Nat \ {0}) /\ r[2] <= Left(r[1])'
    BY DEF Rounds
  <2>3. r[2] <= Left(r[1])
    BY <2>1, <2>2
  <2> QED
    BY <2>2, <2>3 DEF Rounds
<1>5. Enough => Enough'
  <2> SUFFICES ASSUME Enough PROVE Enough'
    OBVIOUS
  <2>1. IsFiniteSet(Rounds') /\ Cardinality(Rounds') <= Cardinality(Rounds)
    BY <1>4, FS_Subset DEF Enough
  <2>2. /\ Cardinality(Rounds) \in Nat /\ Cardinality(Waiters) \in Nat
        /\ Cardinality(Rounds') \in Nat
    BY <2>1, FS_CardinalityType DEF Enough
  <2> QED
    BY <1>3, <2>1, <2>2 DEF Enough
<1>6. Apart => Apart'
  BY <1>1, <1>3 DEF Apart
<1>7. OnFault => OnFault'
  BY <1>1, <1>3 DEF OnFault, Ahead, Cursor, Faulters, pgVars
<1> QED
  BY <1>1, <1>2, <1>5, <1>6, <1>7 DEF PagerInv, KeptInv, Clean, pgVars

\* A pager that is about a fault is not at the region map that is destroyed.
LEMMA DestroyPager ==
  ASSUME PagerInv, FreeDestroy
  PROVE  RoundType' /\ KeptInv'
<1>1. /\ epPc = "destroy" /\ dds' = [dds EXCEPT ![epMap] = <<>>]
      /\ pgPc' = IF pgPc \in {"state", "attach"} /\ pgMap = epMap THEN "dead" ELSE pgPc
      /\ UNCHANGED <<list, pgCtx, pgNum, pgLeft, pgMap, pgAddr, fault, pending, doubled,
                     freedEarly>>
  BY DEF FreeDestroy
<1>2. CASE pgPc' = pgPc
  <2>1. \A m \in ToSet(list) : dds'[m] = dds[m]
    <3>1. epMap \notin ToSet(list) /\ ToSet(list) \subseteq Map
      BY ListType DEF PagerInv, BuildInv, Distinct
    <3> QED
      BY <1>1, <3>1 DEF PagerInv, BuildInv, BuildType
  <2> QED
    BY <1>1, <1>2, <2>1, QuietPager DEF pgVars
<1>3. CASE pgPc' # pgPc
  <2>1. pgPc \in {"state", "attach"} /\ pgMap = epMap /\ pgPc' = "dead"
    BY <1>1, <1>3
  <2>2. ~Clean
    <3> SUFFICES ASSUME Clean PROVE FALSE
      OBVIOUS
    <3>1. PICK t \in Faulters(pgMap) : TRUE
      BY <2>1 DEF PagerInv, KeptInv, OnFault
    <3>2. t \in Waiters /\ fault[t].map = epMap
      BY <2>1, <3>1, RoundFacts DEF Faulters, Waiters, NoFault, PagerInv, RoundType
    <3> QED
      BY <3>2 DEF PagerInv, KeptInv, Apart, BuildInv, Distinct
  <2>3. RoundType'
    BY <1>1, <2>1 DEF PagerInv, RoundType
  <2> QED
    BY <1>1, <2>2, <2>3 DEF KeptInv, Clean
<1> QED
  BY <1>2, <1>3

\* A signal taken has a fault that belongs to it.
LEMMA TakePager ==
  ASSUME PagerInv, NEW m \in Map, PagerTake(m)
  PROVE  RoundType' /\ KeptInv'
<1>1. /\ pgPc = "wait" /\ pending[m] > 0 /\ pgNum' = pending[m]
      /\ pending' = [pending EXCEPT ![m] = 0] /\ pgPc' = "scan" /\ pgLeft' = Len(list)
      /\ UNCHANGED <<list, dds, fault, doubled, freedEarly>>
  BY DEF PagerTake, epUnchanged, ramVars
<1>2. Len(list) \in Nat /\ pgNum = 0 /\ pending[m] \in Nat
  BY <1>1, ListType DEF PagerInv, RoundType
<1>3. RoundType'
  BY <1>1, <1>2 DEF PagerInv, RoundType
<1> SUFFICES ASSUME Clean PROVE pgPc' # "dead" /\ Apart' /\ Enough' /\ OnFault'
  BY <1>1, <1>3 DEF KeptInv, Clean
<1>4. Apart /\ Enough
  BY DEF PagerInv, KeptInv
<1>5. Waiters' = Waiters
  BY <1>1 DEF Waiters
<1>6. IsFiniteSet(Rounds') /\ Cardinality(Rounds') = Cardinality(Rounds)
  BY <1>1, <1>2, <1>3, <1>4, SameRounds DEF Enough, PagerInv
<1>7. Enough'
  BY <1>4, <1>5, <1>6 DEF Enough
<1>8. Waiters # {}
  <2>1. <<m, 1>> \in Rounds
    BY <1>1, <1>2, RoundFacts DEF Left, PagerInv
  <2> QED
    BY <1>4, <2>1, SomeWaiter DEF Enough
<1>9. Ahead'
  <2>1. PICK t \in Waiters : fault[t].map \in ToSet(list)
    BY <1>4, <1>8 DEF Apart
  <2>2. PICK i \in 1 .. Len(list) : list[i] = fault[t].map
    BY <2>1, ListType DEF PagerInv
  <2>3. Cursor' = 1 /\ i >= 1 /\ i \in DOMAIN list
    BY <1>1, <1>2, ListType DEF Cursor, PagerInv
  <2> QED
    BY <1>1, <1>5, <2>2, <2>3 DEF Ahead
<1>10. OnFault'
  BY <1>1, <1>9 DEF OnFault
<1>11. Apart'
  BY <1>1, <1>4, <1>5 DEF Apart
<1> QED
  BY <1>1, <1>7, <1>10, <1>11

LEMMA ScanPager ==
  ASSUME PagerInv, PagerScan \/ PagerScanNull \/ PagerState
  PROVE  RoundType' /\ KeptInv'
<1>1. UNCHANGED <<list, dds, fault, pending, pgNum, doubled, freedEarly>>
  BY DEF PagerScan, PagerScanNull, PagerState, epUnchanged, ramVars, faultVars
<1>2. Waiters' = Waiters /\ Rounds' = Rounds
  BY <1>1 DEF Waiters, Rounds, Left
<1>3. (Apart => Apart') /\ (Enough => Enough')
  BY <1>1, <1>2 DEF Apart, Enough
<1>4. /\ Len(list) \in Nat /\ DOMAIN list = 1 .. Len(list)
      /\ \A i \in 1 .. Len(list) : list[i] \in Map
  BY ListType DEF PagerInv
<1>5. CASE PagerScan
  <2>1. /\ pgPc = "scan" /\ pgLeft > 0 /\ pgLeft \in Nat /\ pgLeft <= Len(list)
        /\ IF Faulters(list[Cursor]) = {}
             THEN pgLeft' = pgLeft - 1 /\ UNCHANGED <<pgPc, pgMap>>
             ELSE pgPc' = "state" /\ pgMap' = list[Cursor] /\ pgLeft' = 0
    BY <1>5 DEF PagerScan, PagerInv, RoundType
  <2>2. Cursor \in 1 .. Len(list)
    BY <1>4, <2>1 DEF Cursor
  <2>3. CASE Faulters(list[Cursor]) = {}
    <3>1. RoundType'
      BY <1>1, <2>1, <2>3 DEF PagerInv, RoundType
    <3>2. ASSUME Ahead PROVE Ahead'
      <4>1. PICK t \in Waiters, i \in DOMAIN list : i >= Cursor /\ list[i] = fault[t].map
        BY <3>2 DEF Ahead
      <4>2. i # Cursor
        BY <2>3, <4>1 DEF Faulters, Waiters
      <4>3. i >= Cursor'
        BY <1>1, <1>4, <2>1, <2>3, <4>1, <4>2 DEF Cursor
      <4> QED
        BY <1>1, <1>2, <4>1, <4>3 DEF Ahead
    <3>3. OnFault => OnFault'
      BY <2>1, <2>3, <3>2 DEF OnFault
    <3> QED
      BY <1>1, <1>3, <2>1, <2>3, <3>1, <3>3 DEF PagerInv, KeptInv, Clean
  <2>4. CASE Faulters(list[Cursor]) # {}
    <3>1. RoundType'
      BY <1>1, <1>4, <2>1, <2>2, <2>4 DEF PagerInv, RoundType
    <3>2. OnFault'
      <4>1. pgPc' = "state" /\ pgMap' = list[Cursor]
        BY <2>1, <2>4
      <4>2. Faulters(pgMap)' = Faulters(list[Cursor])
        BY <1>1, <4>1 DEF Faulters
      <4> QED
        BY <2>4, <4>1, <4>2 DEF OnFault
    <3> QED
      BY <1>1, <1>3, <2>1, <2>4, <3>1, <3>2 DEF PagerInv, KeptInv, Clean
  <2> QED
    BY <2>3, <2>4
<1>6. CASE PagerScanNull
  <2>1. pgPc = "scan" /\ pgLeft = 0 /\ pgPc' = "dead" /\ UNCHANGED <<pgLeft, pgMap>>
    BY <1>6 DEF PagerScanNull
  <2>2. ~Ahead
    BY <1>4, <2>1 DEF Ahead, Cursor
  <2>3. ~Clean
    BY <2>1, <2>2 DEF PagerInv, KeptInv, OnFault
  <2>4. RoundType'
    BY <1>1, <2>1 DEF PagerInv, RoundType
  <2> QED
    BY <1>1, <2>3, <2>4 DEF KeptInv, Clean
<1>7. CASE PagerState
  <2>1. pgPc = "state" /\ pgPc' = "attach" /\ UNCHANGED <<pgLeft, pgMap>>
    BY <1>7 DEF PagerState
  <2>2. RoundType'
    BY <1>1, <2>1 DEF PagerInv, RoundType
  <2>3. PICK t \in Faulters(pgMap) : pgAddr' = fault[t].addr
    BY <1>7 DEF PagerState
  <2>4. OnFault'
    BY <1>1, <2>1, <2>3 DEF OnFault, Faulters
  <2> QED
    BY <1>1, <1>3, <2>1, <2>2, <2>4 DEF PagerInv, KeptInv, Clean
<1> QED
  BY <1>5, <1>6, <1>7

\* A round wakes at most one thread, and leaves a round less to come.
LEMMA AttachPager ==
  ASSUME PagerInv, PagerAttach
  PROVE  RoundType' /\ KeptInv'
<1> DEFINE i == FindByAddr(dds[pgMap], pgAddr)
           woken == IF i # 0 /\ dds[pgMap][i].addr \in away[pgMap]
                      THEN Waiting(pgMap, dds[pgMap][i]) ELSE {}
<1>1. /\ pgPc = "attach" /\ pgNum' = pgNum - 1
      /\ IF pgNum > 1 THEN pgPc' = "scan" /\ pgLeft' = Len(list)
                      ELSE pgPc' = "wait" /\ pgLeft' = 0
      /\ UNCHANGED <<list, dds, pending, doubled, freedEarly>>
  BY DEF PagerAttach, RoundEnds, epUnchanged, ramVars
<1>2. pgMap \in Map /\ pgNum \in Nat /\ pgNum > 0 /\ Len(list) \in Nat
      /\ NoMap \notin Map
  BY <1>1, ListType, RoundFacts DEF PagerInv, RoundType
<1>3. /\ fault \in [Thread -> [map : Map \cup {NoMap}, addr : Nat]]
      /\ fault' \in [Thread -> [map : Map \cup {NoMap}, addr : Nat]]
      /\ \A t \in Thread : fault'[t] = IF t \in woken THEN NoFault ELSE fault[t]
  <2>1. fault \in [Thread -> [map : Map \cup {NoMap}, addr : Nat]]
    BY DEF PagerInv, RoundType
  <2>2. fault' = IF i # 0 /\ dds[pgMap][i].addr \in away[pgMap]
                  THEN [t \in Thread |-> IF t \in Waiting(pgMap, dds[pgMap][i])
                                           THEN NoFault ELSE fault[t]]
                  ELSE fault
    BY DEF PagerAttach, Attach
  <2>3. NoFault \in [map : Map \cup {NoMap}, addr : Nat]
    BY DEF NoFault
  <2> HIDE DEF i
  <2> QED
    BY <2>1, <2>2, <2>3
<1>4. RoundType'
  BY <1>1, <1>2, <1>3 DEF PagerInv, RoundType
<1> HIDE DEF i
<1> SUFFICES ASSUME Clean PROVE pgPc' # "dead" /\ Apart' /\ Enough' /\ OnFault'
  BY <1>1, <1>4 DEF KeptInv, Clean
<1>5. Apart /\ Enough
  BY DEF PagerInv, KeptInv
<1>6. Waiters' = Waiters \ woken
  BY <1>3 DEF Waiters
<1>7. \A t, u \in woken : t = u
  <2> SUFFICES ASSUME NEW t \in woken, NEW u \in woken PROVE t = u
    OBVIOUS
  <2>1. i # 0 /\ t \in Waiting(pgMap, dds[pgMap][i]) /\ u \in Waiting(pgMap, dds[pgMap][i])
    OBVIOUS
  <2>2. dds[pgMap][i] \in ToSet(dds[pgMap])
    <3>1. dds[pgMap] \in Seq(DdInfo)
      BY <1>2 DEF PagerInv, BuildInv, BuildType
    <3>2. DOMAIN dds[pgMap] = 1 .. Len(dds[pgMap])
      BY <3>1, LenProperties
    <3> QED
      BY <2>1, <3>2, FoundInDomain DEF i, ToSet
  <2>3. /\ t \in Waiters /\ fault[t].map = pgMap /\ Holds(dds[pgMap][i], fault[t].addr)
        /\ u \in Waiters /\ fault[u].map = pgMap /\ Holds(dds[pgMap][i], fault[u].addr)
    BY <1>2, <2>1 DEF Waiting, Faulters, Waiters, NoFault
  <2> HIDE DEF woken
  <2> QED
    BY <1>5, <2>2, <2>3 DEF Apart
<1> HIDE DEF woken
<1>8. Enough'
  <2>1. Rounds' = Rounds \ {<<NoMap, pgNum>>} /\ <<NoMap, pgNum>> \in Rounds
    BY <1>1, <1>2, <1>4, OneRoundLess DEF PagerInv
  <2>2. IsFiniteSet(Rounds') /\ Cardinality(Rounds') = Cardinality(Rounds) - 1
    BY <1>5, <2>1, FS_RemoveElement DEF Enough
  <2>3. /\ IsFiniteSet(Waiters')
        /\ \/ Cardinality(Waiters') = Cardinality(Waiters)
           \/ Cardinality(Waiters') = Cardinality(Waiters) - 1
    <3>1. CASE woken = {}
      BY <1>5, <1>6, <3>1 DEF Enough
    <3>2. CASE woken # {}
      <4>1. PICK t \in woken : woken = {t}
        BY <1>7, <3>2
      <4>2. Waiters' = Waiters \ {t}
        BY <1>6, <4>1
      <4> QED
        BY <1>5, <4>2, FS_RemoveElement DEF Enough
    <3> QED
      BY <3>1, <3>2
  <2>4. Cardinality(Rounds) \in Nat /\ Cardinality(Waiters) \in Nat
    BY <1>5, FS_CardinalityType DEF Enough
  <2> QED
    BY <1>5, <2>2, <2>3, <2>4 DEF Enough
<1>9. \A t \in Waiters' : t \in Waiters /\ fault'[t] = fault[t]
  BY <1>3, <1>6 DEF Waiters
<1>10. Apart'
  BY <1>1, <1>5, <1>9 DEF Apart
<1>11. pgNum > 1 => Ahead'
  <2> SUFFICES ASSUME pgNum > 1 PROVE Ahead'
    OBVIOUS
  <2>1. <<NoMap, 1>> \in Rounds'
    <3>1. Left(NoMap)' = pgNum - 1
      BY <1>1 DEF Left
    <3>2. 1 <= Left(NoMap)'
      BY <1>2, <3>1
    <3> QED
      BY <3>2 DEF Rounds
  <2>2. PICK t \in Waiters' : TRUE
    BY <1>8, <2>1, SomeWaiter DEF Enough
  <2>3. fault'[t].map \in ToSet(list)
    BY <1>5, <1>9, <2>2 DEF Apart
  <2>4. PICK j \in 1 .. Len(list) : list[j] = fault'[t].map
    BY <2>3, ListType DEF PagerInv
  <2>5. Cursor' = 1 /\ j >= 1 /\ j \in DOMAIN list
    BY <1>1, <1>2, ListType DEF Cursor, PagerInv
  <2> QED
    BY <1>1, <2>2, <2>4, <2>5 DEF Ahead
<1>12. OnFault'
  BY <1>1, <1>11 DEF OnFault
<1> QED
  BY <1>1, <1>8, <1>10, <1>12

LEMMA PagerInvariant == Spec => []PagerInv
<1>1. PagerInv /\ [Next]_vars /\ BuildInv' => PagerInv'
  <2> SUFFICES ASSUME PagerInv, [Next]_vars, BuildInv' PROVE RoundType' /\ KeptInv'
    BY DEF PagerInv
  <2>1. CASE \E t \in Thread, m \in ToSet(list) : \E x \in 0 .. size[m] - 1 : Touch(t, m, x)
    BY <2>1, TouchPager
  <2>2. CASE Checkpoint \/ \E s \in Sizes : AllocStart(s)
    BY <2>2, QuietPager DEF Checkpoint, AllocStart, ramVars, faultVars
  <2>3. CASE \E k \in DOMAIN list : FreeStart(k)
    BY <2>3, RemovePager
  <2>4. CASE AllocPart
    <3>1. /\ dds' = [dds EXCEPT ![epMap] = Cons(NextPart, @)] /\ epMap \notin ToSet(list)
          /\ UNCHANGED <<list, fault, pending, pgVars, doubled, freedEarly>>
      BY <2>4 DEF AllocPart, faultVars, PagerInv, BuildInv, Distinct
    <3>2. \A m \in ToSet(list) : dds'[m] = dds[m]
      BY <3>1, ListType DEF PagerInv, BuildInv, BuildType
    <3> QED
      BY <3>1, <3>2, QuietPager
  <2>5. CASE AllocFails
    BY <2>5, QuietPager DEF AllocFails, ramVars, faultVars
  <2>6. CASE AllocInsert \/ FreeDissolve \/ FreeDestroy
    BY <2>6, InsertPager, DissolvePager, DestroyPager
  <2>7. CASE Pager
    BY <2>7, TakePager, ScanPager, AttachPager DEF Pager
  <2>8. CASE UNCHANGED vars
    BY <2>8, QuietPager DEF vars, ramVars, faultVars
  <2> QED
    BY <2>1, <2>2, <2>3, <2>4, <2>5, <2>6, <2>7, <2>8 DEF Next, EntrypointStep
<1>2. Init /\ BuildInv => PagerInv
  BY InitPager DEF PagerInv
<1> QED
  BY <1>1, <1>2, BuildInvariant, PTL DEF Spec

\* However alloc() and free() change ram_dataspaces under the pager, it only
\* dies after two threads have waited for one designated dataspace, or
\* something was freed while a thread waited.
THEOREM DeathHasCause == Spec => []DiesForCause
<1>1. PagerInv => DiesForCause
  BY DEF PagerInv, KeptInv, Clean, DiesForCause
<1> QED
  BY <1>1, PagerInvariant, PTL

-----------------------------------------------------------------------------
(* Types, and the balance of the parent's RAM session.                     *)

\* What the parent has given is what the designated dataspaces that exist add
\* up to; so what free() gives back was given.
Balanced ==
  /\ \E sum : Sums(sum, [m \in Map |-> Given(dds[m])], MaxMaps) /\ used = sum[MaxMaps]
  /\ used <= Quota

RestType ==
  /\ size \in [Map -> Sizes \cup {0}] /\ away \in [Map -> SUBSET Nat]
  /\ \A m \in Map : away[m] \subseteq {d.addr : d \in ToSet(dds[m])}
  /\ \A t \in Thread : fault[t] # NoFault =>
       fault[t].map \in 1 .. made /\ fault[t].addr \in 0 .. size[fault[t].map] - 1
  /\ pgPc \in {"scan", "state", "attach"} => pgCtx \in Map
  /\ pgPc = "wait" => pgCtx = NoMap
  /\ checks \in 0 .. MaxCheckpoints

LEMMA GivenType ==
  ASSUME BuildInv
  PROVE  [m \in Map |-> Given(dds[m])] \in [1 .. MaxMaps -> Nat]
<1>1. \A m \in Map : dds[m] \in Seq(DdInfo) /\ Given(dds[m]) \in Nat
  <2> TAKE m \in Map
  <2>1. dds[m] \in Seq(DdInfo)
    BY DEF BuildInv, BuildType
  <2> DEFINE infos == dds[m]
             p == [addr |-> 0, size |-> 0]
  <2>2. p \in DdInfo
    BY DEF DdInfo
  <2>3. Given(infos) \in Nat
    <3> HIDE DEF infos, p
    <3> QED
      BY <2>1, <2>2, GivenCons DEF infos
  <2> QED
    BY <2>1, <2>3
<1> QED
  BY <1>1 DEF Map

LEMMA InitRest == Init => Balanced /\ RestType
<1> SUFFICES ASSUME Init PROVE Balanced /\ RestType
  OBVIOUS
<1> DEFINE f == [m \in Map |-> Given(dds[m])]
           sum == [i \in 0 .. MaxMaps |-> 0]
<1>1. \A m \in Map : f[m] = 0
  BY GivenEmpty DEF Init
<1>2. Sums(sum, f, MaxMaps)
  <2>1. sum \in [0 .. MaxMaps -> Nat] /\ 0 \in 0 .. MaxMaps /\ MaxMaps \in Nat
    BY MapsAssumption
  <2>2. \A i \in 1 .. MaxMaps : i \in 0 .. MaxMaps /\ i - 1 \in 0 .. MaxMaps /\ f[i] = 0
    BY <1>1, <2>1 DEF Map
  <2> HIDE DEF f
  <2> QED
    BY <2>1, <2>2 DEF Sums
<1>3. sum[MaxMaps] = 0 /\ used = 0 /\ used <= Quota
  BY MapsAssumption, SizeAssumption DEF Init
<1> HIDE DEF sum
<1>4. Balanced
  <2>1. Sums(sum, f, MaxMaps) /\ used = sum[MaxMaps]
    BY <1>2, <1>3
  <2> QED
    BY <1>3, <2>1 DEF Balanced
<1>5. RestType
  BY MapsAssumption DEF Init, RestType
<1> QED
  BY <1>4, <1>5

LEMMA BalanceKept ==
  ASSUME BuildInv, Balanced, [Next]_vars
  PROVE  Balanced'
<1> DEFINE f == [m \in Map |-> Given(dds[m])]
<1>1. PICK sum : Sums(sum, f, MaxMaps) /\ used = sum[MaxMaps]
  BY DEF Balanced
<1>2. used <= Quota /\ Quota \in Nat /\ MaxMaps \in Nat
  BY SizeAssumption, MapsAssumption DEF Balanced
<1>3. f \in [1 .. MaxMaps -> Nat]
  BY GivenType
<1>4. ASSUME UNCHANGED <<dds, used>> PROVE Balanced'
  BY <1>4 DEF Balanced
<1>5. ASSUME NEW v \in Nat, NEW infos, epMap \in Map, Given(infos) = v,
             dds' = [dds EXCEPT ![epMap] = infos],
             used' = used - Given(dds[epMap]) + v, used' <= Quota
      PROVE  Balanced'
  <2> DEFINE g == [f EXCEPT ![epMap] = v]
  <2>1. [m \in Map |-> Given(dds'[m])] = g
    BY <1>3, <1>5 DEF BuildInv, BuildType
  <2>2. epMap \in 1 .. MaxMaps /\ f[epMap] = Given(dds[epMap])
    BY <1>5 DEF Map
  <2>3. PICK new : Sums(new, g, MaxMaps) /\ new[MaxMaps] = sum[MaxMaps] - f[epMap] + v
    <3> DEFINE k == epMap
    <3> HIDE DEF f, k
    <3>1. k \in 1 .. MaxMaps
      BY <2>2 DEF k
    <3>2. \E new : Sums(new, [f EXCEPT ![k] = v], MaxMaps) /\ new[MaxMaps] = sum[MaxMaps] - f[k] + v
      <4>1. Sums(sum, f, MaxMaps) /\ MaxMaps \in Nat /\ f \in [1 .. MaxMaps -> Nat] /\ v \in Nat
        BY <1>1, <1>2, <1>3
      <4> QED
        BY <3>1, <4>1, OneChanged, ZenonT(30)
    <3> QED
      BY <3>2 DEF k
  <2>4. used' = new[MaxMaps]
    BY <1>1, <1>5, <2>2, <2>3
  <2> QED
    BY <1>5, <2>1, <2>3, <2>4 DEF Balanced
<1>6. CASE AllocPart
  <2> DEFINE infos == dds[epMap]
             d == NextPart
  <2>1. /\ epPc = "alloc" /\ used + d.size <= Quota /\ used' = used + d.size
        /\ dds' = [dds EXCEPT ![epMap] = Cons(d, infos)]
    BY <1>6 DEF AllocPart
  <2>2. epMap \in Map /\ infos \in Seq(DdInfo) /\ size[epMap] \in Nat
    BY <2>1, MapsAssumption DEF BuildInv, BuildType, Map
  <2>3. d \in DdInfo
    BY <2>2, PartType, LenProperties DEF NextPart
  <2> HIDE DEF infos, d
  <2>4. Given(infos) \in Nat /\ Given(Cons(d, infos)) = Given(infos) + d.size
    BY <2>2, <2>3, GivenCons
  <2>5. d.size \in Nat /\ used \in Nat
    <3>1. d.size \in Nat
      BY <2>3 DEF DdInfo
    <3>2. sum[MaxMaps] \in Nat
      BY <1>1, <1>2 DEF Sums
    <3> QED
      BY <1>1, <3>1, <3>2
  <2>6. Given(infos) + d.size \in Nat
        /\ used' = used - Given(dds[epMap]) + (Given(infos) + d.size)
    BY <2>1, <2>4, <2>5 DEF infos
  <2> QED
    BY <1>5, <2>1, <2>2, <2>4, <2>6
<1>7. CASE FreeDestroy
  <2>1. /\ epPc = "destroy" /\ used' = used - Given(dds[epMap])
        /\ dds' = [dds EXCEPT ![epMap] = <<>>]
    BY <1>7 DEF FreeDestroy
  <2>2. epMap \in Map
    BY <2>1, MapsAssumption DEF BuildInv, BuildType, Map
  <2>3. Given(dds[epMap]) \in Nat /\ used \in Nat
    <3>1. f[epMap] \in Nat
      BY <1>3, <2>2 DEF Map
    <3>2. sum[MaxMaps] \in Nat
      BY <1>1, <1>2 DEF Sums
    <3> QED
      BY <1>1, <2>2, <3>1, <3>2
  <2>4. used' = used - Given(dds[epMap]) + 0 /\ used' <= Quota
    BY <1>2, <2>1, <2>3
  <2>5. 0 \in Nat
    OBVIOUS
  <2> HIDE DEF f
  <2> QED
    BY <1>5, <2>1, <2>2, <2>4, <2>5, GivenEmpty
<1>8. CASE UNCHANGED <<dds, used>>
  BY <1>4, <1>8
<1>9. AllocPart \/ FreeDestroy \/ UNCHANGED <<dds, used>>
  BY DEF Next, Touch, Checkpoint, AllocStart, FreeStart, EntrypointStep, AllocFails,
     AllocInsert, FreeDissolve, Pager, PagerTake, PagerScan, PagerScanNull, PagerState,
     PagerAttach, epUnchanged, vars, ramVars
<1> QED
  BY <1>6, <1>7, <1>8, <1>9


LEMMA RestKept ==
  ASSUME BuildInv, RoundType, RestType, [Next]_vars
  PROVE  RestType'
<1> DEFINE Addrs(m) == {d.addr : d \in ToSet(dds[m])}
<1>1. made \in Nat /\ MaxMaps \in Nat /\ made <= MaxMaps /\ MaxCheckpoints \in Nat
  BY MapsAssumption DEF BuildInv, BuildType
<1>2. \A m \in Map : Addrs(m) \in SUBSET Nat
  <2> TAKE m \in Map
  <2>1. \A d \in ToSet(dds[m]) : d \in DdInfo
    <3>1. dds[m] \in Seq(DdInfo)
      BY DEF BuildInv, BuildType
    <3>2. \A i \in DOMAIN dds[m] : dds[m][i] \in DdInfo
      BY <3>1, LenProperties, ElementOfSeq
    <3> QED
      BY <3>2 DEF ToSet
  <2> QED
    BY <2>1 DEF DdInfo
<1> HIDE DEF Addrs
\* Sizes.
<1>3. /\ size' \in [Map -> Sizes \cup {0}]
      /\ \A m \in 1 .. made : size'[m] = size[m]
      /\ made' = made \/ made' = made + 1
  <2>1. CASE UNCHANGED <<size, made>>
    BY <2>1 DEF RestType
  <2>2. CASE \E s \in Sizes : AllocStart(s)
    <3>1. PICK s \in Sizes : made < MaxMaps /\ made' = made + 1 /\ size' = [size EXCEPT ![made + 1] = s]
      BY <2>2 DEF AllocStart
    <3>2. made + 1 \in Map /\ made + 1 \notin 1 .. made /\ 1 .. made \subseteq Map
      BY <1>1, <3>1 DEF Map
    <3> QED
      BY <3>1, <3>2 DEF RestType
  <2>3. UNCHANGED <<size, made>> \/ \E s \in Sizes : AllocStart(s)
    BY DEF Next, Touch, Checkpoint, FreeStart, EntrypointStep, AllocPart, AllocFails,
       AllocInsert, FreeDissolve, FreeDestroy, Pager, PagerTake, PagerScan, PagerScanNull,
       PagerState, PagerAttach, epUnchanged, vars, ramVars
  <2> QED
    BY <2>1, <2>2, <2>3
\* Faults.
<1>4. ASSUME NEW t \in Thread, fault'[t] # NoFault
      PROVE  fault'[t].map \in 1 .. made' /\ fault'[t].addr \in 0 .. size'[fault'[t].map] - 1
  <2>1. ASSUME fault'[t] = fault[t]
        PROVE  fault'[t].map \in 1 .. made' /\ fault'[t].addr \in 0 .. size'[fault'[t].map] - 1
    <3>1. fault[t].map \in 1 .. made /\ fault[t].addr \in 0 .. size[fault[t].map] - 1
      BY <1>4, <2>1 DEF RestType
    <3>2. fault[t].map \in 1 .. made'
      BY <1>1, <1>3, <3>1
    <3> QED
      BY <1>3, <2>1, <3>1, <3>2
  <2>2. CASE UNCHANGED fault
    BY <2>1, <2>2
  <2>3. CASE \E u \in Thread, m \in ToSet(list) : \E x \in 0 .. size[m] - 1 : Touch(u, m, x)
    <3>0. PICK u \in Thread, m \in ToSet(list) : \E x \in 0 .. size[m] - 1 : Touch(u, m, x)
      BY <2>3
    <3>1. PICK x \in 0 .. size[m] - 1 :
            fault' = [fault EXCEPT ![u] = [map |-> m, addr |-> x]] /\ UNCHANGED <<size, made>>
      BY <3>0 DEF Touch, ramVars
    <3>2. CASE u = t
      <4>1. fault'[t] = [map |-> m, addr |-> x] /\ m \in 1 .. made
        BY <3>1, <3>2 DEF RoundType, BuildInv, BuildType
      <4> QED
        BY <3>1, <4>1
    <3>3. CASE u # t
      BY <2>1, <3>1, <3>3 DEF RoundType
    <3> QED
      BY <3>2, <3>3
  <2>4. CASE PagerAttach
    <3>1. fault' = fault \/ \E m, d : fault' = [u \in Thread |-> IF u \in Waiting(m, d) THEN NoFault ELSE fault[u]]
      BY <2>4 DEF PagerAttach, Attach
    <3>2. fault'[t] = NoFault \/ fault'[t] = fault[t]
      BY <3>1
    <3> QED
      BY <1>4, <2>1, <3>2
  <2>5. \/ UNCHANGED fault \/ PagerAttach
        \/ \E u \in Thread, m \in ToSet(list) : \E x \in 0 .. size[m] - 1 : Touch(u, m, x)
    BY DEF Next, Checkpoint, AllocStart, FreeStart, EntrypointStep, AllocPart, AllocFails,
       AllocInsert, FreeDissolve, FreeDestroy, Pager, PagerTake, PagerScan, PagerScanNull,
       PagerState, vars, faultVars
  <2> QED
    BY <2>2, <2>3, <2>4, <2>5
\* Detached parts.
<1>5. away' \in [Map -> SUBSET Nat] /\ \A m \in Map : away'[m] \subseteq Addrs(m)'
  <2>1. away \in [Map -> SUBSET Nat] /\ \A m \in Map : away[m] \subseteq Addrs(m)
    BY DEF RestType, Addrs
  <2>2. CASE UNCHANGED <<away, dds>>
    <3>1. \A m \in Map : Addrs(m)' = Addrs(m)
      BY <2>2 DEF Addrs
    <3> QED
      BY <2>2, <3>1 DEF RestType, Addrs
  <2>3. CASE Checkpoint
    <3>1. /\ away' = [m \in Map |-> IF m \in ToSet(list) THEN Addrs(m) ELSE away[m]]
          /\ dds' = dds
      BY <2>3 DEF Checkpoint, ramVars, Addrs
    <3>2. \A m \in Map : Addrs(m)' = Addrs(m)
      BY <3>1 DEF Addrs
    <3> QED
      BY <1>2, <2>1, <3>1, <3>2
  <2>4. CASE AllocPart
    <3> DEFINE infos == dds[epMap]
               d == NextPart
    <3>1. epPc = "alloc" /\ dds' = [dds EXCEPT ![epMap] = Cons(d, infos)] /\ away' = away
      BY <2>4 DEF AllocPart, faultVars
    <3>2. epMap \in Map /\ infos \in Seq(DdInfo) /\ size[epMap] \in Nat
      BY <3>1, MapsAssumption DEF BuildInv, BuildType, Map
    <3>3. d \in DdInfo
      BY <3>2, PartType, LenProperties DEF NextPart
    <3> HIDE DEF infos, d
    <3>4. ToSet(Cons(d, infos)) = {d} \cup ToSet(infos)
      BY <3>2, <3>3, ConsFacts, Zenon
    <3>5. ASSUME NEW m \in Map PROVE away'[m] \subseteq Addrs(m)'
      <4>1. CASE m = epMap
        <5>1. dds'[m] = Cons(d, infos)
          BY <3>1, <4>1 DEF BuildInv, BuildType
        <5>2. Addrs(m) \subseteq Addrs(m)'
          BY <3>4, <4>1, <5>1 DEF Addrs, infos
        <5> QED
          BY <2>1, <3>1, <5>2
      <4>2. CASE m # epMap
        BY <2>1, <3>1, <4>2 DEF BuildInv, BuildType, Addrs
      <4> QED
        BY <4>1, <4>2
    <3> QED
      BY <3>1, <3>5 DEF RestType
  <2>5. CASE FreeDestroy
    <3>1. /\ epPc = "destroy" /\ dds' = [dds EXCEPT ![epMap] = <<>>]
          /\ away' = [away EXCEPT ![epMap] = {}]
      BY <2>5 DEF FreeDestroy
    <3>2. \A m \in Map : m # epMap => dds'[m] = dds[m] /\ away'[m] = away[m]
      BY <2>1, <3>1 DEF BuildInv, BuildType
    <3>3. epMap \in Map => away'[epMap] = {}
      BY <2>1, <3>1
    <3>4. ASSUME NEW m \in Map PROVE away'[m] \subseteq Addrs(m)'
      BY <2>1, <3>2, <3>3 DEF Addrs
    <3>5. away' \in [Map -> SUBSET Nat]
      BY <2>1, <3>1
    <3> QED
      BY <3>4, <3>5
  <2>6. CASE PagerAttach
    <3>1. dds' = dds /\ (away' = away \/ \E m, d : away' = [away EXCEPT ![m] = @ \ {d.addr}])
      BY <2>6 DEF PagerAttach, Attach, epUnchanged, ramVars
    <3>2. \A m \in Map : away'[m] \subseteq away[m] /\ Addrs(m)' = Addrs(m)
      BY <2>1, <3>1 DEF Addrs
    <3>3. away' \in [Map -> SUBSET Nat]
      <4>1. away' = away \/ \E m : \E T : away' = [away EXCEPT ![m] = away[m] \ T]
        BY <3>1
      <4>2. ASSUME NEW m, NEW T PROVE [away EXCEPT ![m] = away[m] \ T] \in [Map -> SUBSET Nat]
        BY <2>1
      <4> QED
        BY <2>1, <4>1, <4>2, Zenon
    <3> QED
      BY <3>2, <3>3, <2>1
  <2>7. UNCHANGED <<away, dds>> \/ Checkpoint \/ AllocPart \/ FreeDestroy \/ PagerAttach
    BY DEF Next, Touch, AllocStart, FreeStart, EntrypointStep, AllocFails, AllocInsert,
       FreeDissolve, Pager, PagerTake, PagerScan, PagerScanNull, PagerState, epUnchanged,
       vars, ramVars, faultVars
  <2> QED
    BY <2>2, <2>3, <2>4, <2>5, <2>6, <2>7
\* The pager's registers.
<1>6. /\ pgPc' \in {"scan", "state", "attach"} => pgCtx' \in Map
      /\ pgPc' = "wait" => pgCtx' = NoMap
  <2>1. CASE pgCtx' = pgCtx /\ (pgPc' = pgPc \/ pgPc' = "dead")
    BY <2>1 DEF RestType
  <2>2. CASE Pager
    BY <2>2 DEF RestType, Pager, PagerTake, PagerScan, PagerScanNull, PagerState,
       PagerAttach, RoundEnds
  <2>3. Pager \/ (pgCtx' = pgCtx /\ (pgPc' = pgPc \/ pgPc' = "dead"))
    BY DEF Next, Touch, Checkpoint, AllocStart, FreeStart, EntrypointStep, AllocPart,
       AllocFails, AllocInsert, FreeDissolve, FreeDestroy, vars, pgVars
  <2> QED
    BY <2>1, <2>2, <2>3
<1>7. checks' \in 0 .. MaxCheckpoints
  <2>1. CASE checks' = checks
    BY <2>1 DEF RestType
  <2>2. CASE Checkpoint
    BY <1>1, <2>2 DEF RestType, Checkpoint
  <2>3. checks' = checks \/ Checkpoint
    BY DEF Next, Touch, AllocStart, FreeStart, EntrypointStep, AllocPart, AllocFails,
       AllocInsert, FreeDissolve, FreeDestroy, Pager, PagerTake, PagerScan, PagerScanNull,
       PagerState, PagerAttach, epUnchanged, vars
  <2> QED
    BY <2>1, <2>2, <2>3
<1> QED
  BY <1>3, <1>4, <1>5, <1>6, <1>7 DEF RestType, Addrs

LEMMA TypeInvariant == Spec => [](PagerInv /\ Balanced /\ RestType)
<1>1. PagerInv /\ Balanced /\ RestType /\ [Next]_vars => Balanced' /\ RestType'
  BY BalanceKept, RestKept DEF PagerInv
<1> QED
  BY <1>1, InitRest, PagerInvariant, PTL DEF Spec

\* The parent's RAM session never gives more than its quota nor gets back more
\* than it gave; a thread waits at an address its dataspace has, for a part
\* that exists; the entrypoint never works on a dataspace that is in the list.
THEOREM TypeCorrect == Spec => []TypeOK
<1>1. PagerInv /\ Balanced /\ RestType => TypeOK
  <2> SUFFICES ASSUME PagerInv, Balanced, RestType PROVE TypeOK
    OBVIOUS
  <2>1. MaxMaps \in Nat /\ Quota \in Nat
    BY MapsAssumption, SizeAssumption
  <2>2. used \in 0 .. Quota
    <3>1. PICK sum : Sums(sum, [m \in Map |-> Given(dds[m])], MaxMaps) /\ used = sum[MaxMaps]
      BY DEF Balanced
    <3>2. sum[MaxMaps] \in Nat
      BY <2>1, <3>1 DEF Sums
    <3> QED
      BY <2>1, <3>1, <3>2 DEF Balanced
  <2>3. ASSUME NEW t \in Thread, fault[t] # NoFault
        PROVE  fault[t].map \in Map /\ fault[t].addr \in 0 .. size[fault[t].map] - 1
    BY <2>1, <2>3 DEF RestType, PagerInv, BuildInv, BuildType, Map
  <2>4. epMap \in (IF epPc = "idle" THEN {NoMap} ELSE Map \ ToSet(list))
    BY <2>1 DEF PagerInv, BuildInv, BuildType, Distinct, Map
  <2>5. /\ pgPc \in {"wait", "scan", "state", "attach", "dead"}
        /\ pgPc \in {"scan", "state", "attach"} => pgCtx \in Map /\ pgNum > 0
        /\ pgPc = "wait" => pgCtx = NoMap
        /\ pgPc = "scan" => pgLeft <= Len(list)
    BY DEF RestType, PagerInv, RoundType
  <2> QED
    BY <2>2, <2>3, <2>4, <2>5
    DEF TypeOK, RestType, PagerInv, BuildInv, BuildType, Distinct, RoundType
<1> QED
  BY <1>1, TypeInvariant, PTL

=============================================================================
