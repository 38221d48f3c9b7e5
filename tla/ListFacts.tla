------------------------------ MODULE ListFacts -----------------------------
(***************************************************************************)
(* Facts about Genode's lists as the modules have them, sequences with     *)
(* their head first: what inserting at the head (Cons) and removing an     *)
(* element (RemoveAt) do to positions, to the set of elements and to how   *)
(* often a value occurs; what Reverse and FlattenSeq return; and the means *)
(* to prove such facts, induction and recursion stated with sets and       *)
(* functions instead of operators.                                         *)
(***************************************************************************)
EXTENDS Integers, SequencesExt, SequenceTheorems, FiniteSetTheorems, TLAPS

-----------------------------------------------------------------------------
(* Least elements, induction and recursion.                                *)

\* SelectInSeq gives the first place of an element, if there is one to select.
LEMMA LeastFacts ==
  ASSUME NEW T \in SUBSET Nat, T # {}
  PROVE  Min(T) \in T /\ \A y \in T : Min(T) <= y
<1> DEFINE R == OpToRel(<, Nat)
<1>1. \E x \in T : \A y \in T : ~(<<y, x>> \in R)
  <2> HIDE DEF R
  <2>1. IsWellFoundedOn(R, Nat)
    BY NatLessThanWellFounded DEF R
  <2> QED
    BY <2>1, WFMin
<1>2. PICK x \in T : \A y \in T : ~(<<y, x>> \in R)
  BY <1>1
<1>3. ASSUME NEW y \in T PROVE x <= y
  <2>1. x \in Nat /\ y \in Nat
    OBVIOUS
  <2>2. ~(y < x)
    BY <1>2, <2>1 DEF OpToRel
  <2> QED
    BY <2>1, <2>2
<1> QED
  BY <1>3 DEF Min

\* Induction over the naturals, for what can be stated as a set.
LEMMA Induction ==
  ASSUME NEW P, 0 \in P, \A n \in Nat : n \in P => n + 1 \in P
  PROVE  \A n \in Nat : n \in P
<1> DEFINE T == {n \in Nat : n \notin P}
<1> SUFFICES ASSUME T # {} PROVE FALSE
  OBVIOUS
<1> DEFINE m == Min(T)
<1>1. T \in SUBSET Nat
  OBVIOUS
<1>2. m \in T /\ \A y \in T : m <= y
  <2> HIDE DEF T
  <2> QED
    BY <1>1, LeastFacts
<1> HIDE DEF m
<1>3. m \in Nat /\ m # 0 /\ m - 1 \in Nat
  BY <1>2
<1>4. m - 1 \notin T
  BY <1>2, <1>3
<1>5. m - 1 \in P /\ m - 1 + 1 = m
  BY <1>3, <1>4
<1> QED
  BY <1>2, <1>3, <1>5

Recurses(f, k, A, base, step) ==
  /\ f \in [0 .. k -> A] /\ f[0] = base
  /\ \A n \in 1 .. k : f[n] = step[n][f[n - 1]]

\* A function that is defined by recursion over 0 .. N exists.
LEMMA Recursion ==
  ASSUME NEW N \in Nat, NEW A, NEW base \in A, NEW step \in [1 .. N -> [A -> A]]
  PROVE  \E f : Recurses(f, N, A, base, step)
<1> DEFINE Rec(f, k) == Recurses(f, k, A, base, step)
           P == {k \in Nat : k <= N => \E f : Rec(f, k)}
<1> HIDE DEF Rec
<1>1. 0 \in P
  <2>1. Rec([n \in 0 .. 0 |-> base], 0)
    BY DEF Rec, Recurses
  <2> QED
    BY <2>1
<1>2. ASSUME NEW k \in Nat, k \in P PROVE k + 1 \in P
  <2> SUFFICES ASSUME k + 1 <= N PROVE \E g : Rec(g, k + 1)
    OBVIOUS
  <2>1. PICK f : Rec(f, k)
    BY <1>2
  <2> DEFINE g == [n \in 0 .. k + 1 |-> IF n <= k THEN f[n] ELSE step[k + 1][f[k]]]
  <2>2. f[k] \in A /\ k + 1 \in 1 .. N
    BY <2>1 DEF Rec, Recurses
  <2>3. step[k + 1][f[k]] \in A
    BY <2>2
  <2>4. g \in [0 .. k + 1 -> A] /\ g[0] = base
    BY <2>1, <2>3 DEF Rec, Recurses
  <2>5. ASSUME NEW n \in 1 .. k + 1 PROVE g[n] = step[n][g[n - 1]]
    <3>1. CASE n <= k
      <4>1. n \in 1 .. k /\ n - 1 \in 0 .. k /\ n - 1 \in 0 .. k + 1 /\ n \in 0 .. k + 1 /\ n - 1 <= k
        BY <3>1
      <4>2. g[n] = f[n] /\ g[n - 1] = f[n - 1]
        BY <3>1, <4>1
      <4> QED
        BY <2>1, <4>1, <4>2 DEF Rec, Recurses
    <3>2. CASE n = k + 1
      <4>1. g[n] = step[k + 1][f[k]] /\ g[n - 1] = f[k]
        BY <3>2
      <4> QED
        BY <3>2, <4>1
    <3> QED
      BY <3>1, <3>2
  <2> QED
    BY <2>4, <2>5 DEF Rec, Recurses
<1>3. N \in P
  <2> HIDE DEF P
  <2> QED
    BY <1>1, <1>2, Induction
<1> QED
  BY <1>3 DEF Rec
-----------------------------------------------------------------------------
(* Inserting and removing.                                                 *)

LEMMA ConsFacts ==
  ASSUME NEW S, NEW s \in Seq(S), NEW e \in S
  PROVE  /\ Cons(e, s) \in Seq(S)
         /\ Len(s) \in Nat /\ DOMAIN s = 1 .. Len(s)
         /\ Len(Cons(e, s)) = Len(s) + 1
         /\ DOMAIN Cons(e, s) = 1 .. Len(s) + 1
         /\ Cons(e, s)[1] = e
         /\ \A i \in 2 .. Len(s) + 1 : Cons(e, s)[i] = s[i - 1]
         /\ ToSet(Cons(e, s)) = {e} \cup ToSet(s)
<1> DEFINE c == Cons(e, s)
<1>1. <<e>> \in Seq(S) /\ Len(<<e>>) = 1 /\ <<e>>[1] = e
  OBVIOUS
<1>2. Len(s) \in Nat /\ DOMAIN s = 1 .. Len(s)
  BY LenProperties
<1>3. /\ c \in Seq(S)
      /\ Len(c) = 1 + Len(s)
      /\ \A i \in 1 .. 1 + Len(s) : c[i] = IF i <= 1 THEN <<e>>[i] ELSE s[i - 1]
  BY <1>1, ConcatProperties DEF Cons
<1>4. DOMAIN c = 1 .. Len(s) + 1
  BY <1>2, <1>3, LenProperties
<1>5. c[1] = e
  BY <1>1, <1>2, <1>3
<1>6. \A i \in 2 .. Len(s) + 1 : c[i] = s[i - 1]
  BY <1>2, <1>3
<1>7. ToSet(c) = {e} \cup ToSet(s)
  <2>1. ASSUME NEW x \in ToSet(c) PROVE x \in {e} \cup ToSet(s)
    <3>1. PICK i \in 1 .. Len(s) + 1 : x = c[i]
      BY <2>1, <1>4 DEF ToSet
    <3>2. i # 1 => i - 1 \in DOMAIN s /\ i \in 2 .. Len(s) + 1
      BY <1>2
    <3> QED
      BY <3>1, <3>2, <1>5, <1>6 DEF ToSet
  <2>2. ASSUME NEW x \in ToSet(s) PROVE x \in ToSet(c)
    <3>1. PICK i \in 1 .. Len(s) : x = s[i]
      BY <2>2, <1>2 DEF ToSet
    <3>2. i + 1 \in 2 .. Len(s) + 1 /\ i + 1 \in DOMAIN c /\ i + 1 - 1 = i
      BY <1>2, <1>4
    <3> QED
      BY <3>1, <3>2, <1>6 DEF ToSet
  <2>3. e \in ToSet(c)
    BY <1>2, <1>4, <1>5 DEF ToSet
  <2> QED
    BY <2>1, <2>2, <2>3
<1> QED
  BY <1>2, <1>3, <1>4, <1>5, <1>6, <1>7

\* The elements behind the removed one move up by one position.
LEMMA RemoveAtFacts ==
  ASSUME NEW S, NEW s \in Seq(S), NEW k \in DOMAIN s
  PROVE  /\ RemoveAt(s, k) \in Seq(S)
         /\ Len(s) \in Nat \ {0} /\ DOMAIN s = 1 .. Len(s)
         /\ Len(RemoveAt(s, k)) = Len(s) - 1
         /\ DOMAIN RemoveAt(s, k) = 1 .. Len(s) - 1
         /\ \A i \in 1 .. Len(s) - 1 :
              RemoveAt(s, k)[i] = IF i < k THEN s[i] ELSE s[i + 1]
         /\ ToSet(RemoveAt(s, k)) \subseteq ToSet(s)
         /\ ToSet(s) \ {s[k]} \subseteq ToSet(RemoveAt(s, k))
<1> DEFINE n == Len(s)
           r == RemoveAt(s, k)
           a == SubSeq(s, 1, k - 1)
           b == SubSeq(s, k + 1, n)
<1>1. n \in Nat /\ DOMAIN s = 1 .. n /\ k \in 1 .. n /\ \A i \in 1 .. n : s[i] \in S
  BY LenProperties, ElementOfSeq
<1>2. a \in Seq(S) /\ Len(a) = k - 1 /\ \A i \in 1 .. k - 1 : a[i] = s[i]
  <2>1. \A i \in 1 .. k - 1 : s[i] \in S
    BY <1>1
  <2>2. /\ a \in Seq(S) /\ Len(a) = IF 1 <= k - 1 THEN k - 1 - 1 + 1 ELSE 0
        /\ \A i \in 1 .. k - 1 - 1 + 1 : a[i] = s[1 + i - 1]
    BY <1>1, <2>1, SubSeqProperties
  <2> HIDE DEF a
  <2>3. \A i \in 1 .. k - 1 : i \in 1 .. k - 1 - 1 + 1 /\ 1 + i - 1 = i
    BY <1>1
  <2> QED
    BY <1>1, <2>2, <2>3
<1>3. b \in Seq(S) /\ Len(b) = n - k /\ \A i \in 1 .. n - k : b[i] = s[k + i]
  <2>1. \A i \in k + 1 .. n : s[i] \in S
    BY <1>1
  <2>2. /\ b \in Seq(S) /\ Len(b) = IF k + 1 <= n THEN n - (k + 1) + 1 ELSE 0
        /\ \A i \in 1 .. n - (k + 1) + 1 : b[i] = s[k + 1 + i - 1]
    BY <1>1, <2>1, SubSeqProperties
  <2> HIDE DEF b
  <2>3. \A i \in 1 .. n - k : i \in 1 .. n - (k + 1) + 1 /\ k + 1 + i - 1 = k + i
    BY <1>1
  <2> QED
    BY <1>1, <2>2, <2>3
<1>4. /\ r = a \o b /\ r \in Seq(S) /\ Len(r) = Len(a) + Len(b)
      /\ \A i \in 1 .. Len(a) + Len(b) : r[i] = IF i <= Len(a) THEN a[i] ELSE b[i - Len(a)]
  BY <1>2, <1>3, ConcatProperties DEF RemoveAt
<1> HIDE DEF a, b, r
<1>5. Len(r) = n - 1 /\ DOMAIN r = 1 .. n - 1
  <2>1. DOMAIN r = 1 .. Len(r)
    BY <1>4, LenProperties
  <2>2. Len(r) = n - 1
    BY <1>1, <1>2, <1>3, <1>4
  <2> QED
    BY <2>1, <2>2
<1>6. \A i \in 1 .. n - 1 : r[i] = IF i < k THEN s[i] ELSE s[i + 1]
  <2> TAKE i \in 1 .. n - 1
  <2>1. CASE i < k
    <3>1. i \in 1 .. Len(a) + Len(b) /\ i <= Len(a) /\ i \in 1 .. k - 1
      BY <1>1, <1>2, <1>3, <2>1
    <3> QED
      BY <1>2, <1>4, <2>1, <3>1
  <2>2. CASE ~(i < k)
    <3>1. /\ i \in 1 .. Len(a) + Len(b) /\ ~(i <= Len(a))
          /\ i - Len(a) \in 1 .. n - k /\ k + (i - Len(a)) = i + 1
      BY <1>1, <1>2, <1>3, <2>2
    <3> QED
      BY <1>3, <1>4, <2>2, <3>1
  <2> QED
    BY <2>1, <2>2
<1>7. ToSet(r) \subseteq ToSet(s)
  <2>1. \A i \in 1 .. n - 1 : i \in 1 .. n /\ i + 1 \in 1 .. n
    BY <1>1
  <2> QED
    BY <1>1, <1>5, <1>6, <2>1 DEF ToSet
<1>8. ToSet(s) \ {s[k]} \subseteq ToSet(r)
  <2> SUFFICES ASSUME NEW i \in 1 .. n, s[i] # s[k] PROVE s[i] \in ToSet(r)
    BY <1>1 DEF ToSet
  <2>1. CASE i < k
    <3>1. i \in 1 .. n - 1
      BY <1>1, <2>1
    <3> QED
      BY <1>5, <1>6, <2>1, <3>1 DEF ToSet
  <2>2. CASE ~(i < k)
    <3>1. i # k
      OBVIOUS
    <3>2. i - 1 \in 1 .. n - 1 /\ ~(i - 1 < k) /\ i - 1 + 1 = i
      BY <1>1, <2>2, <3>1
    <3> QED
      BY <1>5, <1>6, <3>2 DEF ToSet
  <2> QED
    BY <2>1, <2>2
<1>9. n \in Nat \ {0}
  BY <1>1
<1> QED
  BY <1>1, <1>4, <1>5, <1>6, <1>7, <1>8, <1>9 DEF r

-----------------------------------------------------------------------------
(* Reversing, concatenating and flattening.                                *)

LEMMA ReverseFacts ==
  ASSUME NEW V, NEW s \in Seq(V)
  PROVE  /\ Reverse(s) \in Seq(V) /\ Len(Reverse(s)) = Len(s) /\ Len(s) \in Nat
         /\ \A i \in 1 .. Len(s) : Len(s) - i + 1 \in 1 .. Len(s) /\ Reverse(s)[i] = s[Len(s) - i + 1]
         /\ ToSet(Reverse(s)) = ToSet(s)
<1> DEFINE n == Len(s)
           r == [i \in 1 .. n |-> s[(n - i) + 1]]
<1>1. n \in Nat /\ DOMAIN s = 1 .. n /\ \A i \in 1 .. n : s[i] \in V
  BY LenProperties, ElementOfSeq
<1>2. Reverse(s) = r
  BY DEF Reverse
<1> HIDE DEF n
<1>3. \A i \in 1 .. n : n - i + 1 \in 1 .. n /\ n - (n - i + 1) + 1 = i
  BY <1>1
<1>4. r \in [1 .. n -> V] /\ DOMAIN r = 1 .. n
  BY <1>1, <1>3
<1>5. r \in Seq(V)
  BY <1>1, <1>4, SeqDef
<1>6. \A i \in 1 .. n : r[i] = s[n - i + 1]
  BY <1>3
<1> HIDE DEF r
<1>7. Len(r) = n
  BY <1>1, <1>4, <1>5, LenProperties
<1>8. ToSet(r) = ToSet(s)
  <2>1. \A x \in ToSet(r) : x \in ToSet(s)
    BY <1>1, <1>3, <1>4, <1>6 DEF ToSet
  <2>2. \A x \in ToSet(s) : x \in ToSet(r)
    <3> TAKE x \in ToSet(s)
    <3>1. PICK i \in 1 .. n : x = s[i]
      BY <1>1 DEF ToSet
    <3>2. r[n - i + 1] = s[i] /\ n - i + 1 \in 1 .. n
      BY <1>3, <1>6
    <3> QED
      BY <3>1, <3>2, <1>4 DEF ToSet
  <2> QED
    BY <2>1, <2>2
<1> QED
  BY <1>1, <1>2, <1>3, <1>5, <1>6, <1>7, <1>8 DEF n

LEMMA ConcatSet ==
  ASSUME NEW V, NEW s \in Seq(V), NEW t \in Seq(V)
  PROVE  s \o t \in Seq(V) /\ ToSet(s \o t) = ToSet(s) \cup ToSet(t)
<1>1. s \o t \in Seq(V) /\ Range(s \o t) = Range(s) \cup Range(t)
  BY ConcatProperties, RangeConcatenation
<1> QED
  BY <1>1 DEF ToSet, Range

\* FlattenSeq appends one sequence after the other.
LEMMA FlattenRounds ==
  ASSUME NEW C, \A a, b \in C : a \o b \in C, NEW seqs \in Seq(C), Len(seqs) # 0
  PROVE  \E flat : /\ flat[1] = seqs[1] /\ FlattenSeq(seqs) = flat[Len(seqs)]
                   /\ \A n \in 1 .. Len(seqs) - 1 : flat[n + 1] = flat[n] \o seqs[n + 1]
<1>0. /\ Len(seqs) \in Nat /\ DOMAIN seqs = 1 .. Len(seqs) /\ Len(seqs) # 0
      /\ \A i \in 1 .. Len(seqs) : seqs[i] \in C
  BY LenProperties, ElementOfSeq
<1> DEFINE N == Len(seqs) - 1
           step == [n \in 1 .. N |-> [a \in C |-> a \o seqs[n + 1]]]
           first == seqs[1]
           Value(g, i) == IF i = 1 THEN seqs[i] ELSE g[i - 1] \o seqs[i]
           flat == CHOOSE g : g = [i \in 1 .. Len(seqs) |-> Value(g, i)]
<1>1. N \in Nat /\ first \in C /\ N + 1 = Len(seqs)
  BY <1>0
<1>2. step \in [1 .. N -> [C -> C]]
  <2>1. \A n \in 1 .. N : seqs[n + 1] \in C
    BY <1>0, <1>1
  <2> QED
    BY <2>1
<1>3. \E f : Recurses(f, N, C, first, step)
  <2> HIDE DEF N, step, first
  <2> QED
    BY <1>1, <1>2, Recursion
<1>4. PICK f : Recurses(f, N, C, first, step)
  BY <1>3
<1> DEFINE h == [i \in 1 .. Len(seqs) |-> f[i - 1]]
<1>5. \A i \in 1 .. Len(seqs) : h[i] = Value(h, i)
  <2> TAKE i \in 1 .. Len(seqs)
  <2>1. CASE i = 1
    BY <2>1, <1>1, <1>4 DEF Recurses
  <2>2. CASE i # 1
    <3>1. i - 1 \in 1 .. N /\ i - 1 \in 1 .. Len(seqs) /\ i - 1 - 1 \in 0 .. N /\ i - 1 + 1 = i
      BY <2>2, <1>1
    <3>2. f[i - 1 - 1] \in C
      BY <3>1, <1>4 DEF Recurses
    <3>3. f[i - 1] = step[i - 1][f[i - 1 - 1]]
      BY <3>1, <1>4 DEF Recurses
    <3>4. f[i - 1] = f[i - 1 - 1] \o seqs[i]
      BY <3>1, <3>2, <3>3
    <3>5. h[i] = f[i - 1] /\ h[i - 1] = f[i - 1 - 1]
      BY <3>1
    <3> QED
      BY <2>2, <3>4, <3>5
  <2> QED
    BY <2>1, <2>2
<1>6. h = [i \in 1 .. Len(seqs) |-> Value(h, i)]
  <2> HIDE DEF Value
  <2> QED
    BY <1>5
<1>7. flat = [i \in 1 .. Len(seqs) |-> Value(flat, i)]
  <2> HIDE DEF h, Value
  <2> QED
    BY <1>6
<1>8. FlattenSeq(seqs) = flat[Len(seqs)]
  BY <1>0 DEF FlattenSeq
<1> HIDE DEF flat
<1>9. \A i \in 1 .. Len(seqs) : flat[i] = Value(flat, i)
  <2> HIDE DEF Value
  <2> QED
    BY <1>7
<1>10. flat[1] = seqs[1] /\ \A n \in 1 .. N : flat[n + 1] = flat[n] \o seqs[n + 1]
  <2>1. 1 \in 1 .. Len(seqs) /\ flat[1] = Value(flat, 1)
    BY <1>0, <1>9
  <2>2. ASSUME NEW n \in 1 .. N PROVE flat[n + 1] = flat[n] \o seqs[n + 1]
    <3>0. ASSUME NEW i, i # 1 PROVE Value(flat, i) = flat[i - 1] \o seqs[i]
      BY <3>0, Zenon
    <3>1. PICK k \in 1 .. Len(seqs) : k = n + 1
      BY <1>1
    <3>2. k # 1 /\ k - 1 = n
      BY <3>1
    <3>3. flat[k] = flat[k - 1] \o seqs[k]
      <4> HIDE DEF Value
      <4> QED
        BY <3>0, <3>2, <1>9
    <3> QED
      BY <3>1, <3>2, <3>3
  <2> QED
    BY <2>1, <2>2
<1> QED
  BY <1>8, <1>10

\* A property of sequences that concatenation keeps, stated as the set of the
\* sequences that have it, is kept by FlattenSeq, and nothing is lost.
LEMMA FlattenFacts ==
  ASSUME NEW V, NEW C \in SUBSET Seq(V), <<>> \in C, \A a, b \in C : a \o b \in C,
         NEW seqs \in Seq(C)
  PROVE  /\ FlattenSeq(seqs) \in C
         /\ \A i \in 1 .. Len(seqs) : ToSet(seqs[i]) \subseteq ToSet(FlattenSeq(seqs))
<1>1. /\ Len(seqs) \in Nat /\ DOMAIN seqs = 1 .. Len(seqs)
      /\ \A i \in 1 .. Len(seqs) : seqs[i] \in C
  BY LenProperties, ElementOfSeq
<1>2. CASE Len(seqs) = 0
  <2>1. seqs = <<>>
    BY <1>2, EmptySeq
  <2> QED
    BY <1>2, <2>1 DEF FlattenSeq
<1>3. CASE Len(seqs) # 0
  <2> DEFINE N == Len(seqs) - 1
  <2>1. N \in Nat /\ N + 1 = Len(seqs)
    BY <1>1, <1>3
  <2>2. PICK flat : /\ flat[1] = seqs[1] /\ FlattenSeq(seqs) = flat[Len(seqs)]
                    /\ \A n \in 1 .. N : flat[n + 1] = flat[n] \o seqs[n + 1]
    BY <1>3, FlattenRounds
  <2> DEFINE P == {n \in Nat : n <= N =>
                     /\ flat[n + 1] \in C
                     /\ \A i \in 1 .. n + 1 : ToSet(seqs[i]) \subseteq ToSet(flat[n + 1])}
  <2>3. 0 \in P
    BY <2>1, <2>2
  <2>4. ASSUME NEW n \in Nat, n \in P PROVE n + 1 \in P
    <3> SUFFICES ASSUME n + 1 <= N
                 PROVE  /\ flat[n + 1 + 1] \in C
                        /\ \A i \in 1 .. n + 1 + 1 : ToSet(seqs[i]) \subseteq ToSet(flat[n + 1 + 1])
      OBVIOUS
    <3>1. n + 1 \in 1 .. N /\ n <= N /\ n + 1 + 1 \in 1 .. Len(seqs)
      BY <2>1
    <3>2. flat[n + 1] \in C /\ \A i \in 1 .. n + 1 : ToSet(seqs[i]) \subseteq ToSet(flat[n + 1])
      BY <2>4, <3>1
    <3> DEFINE a == flat[n + 1]
               b == seqs[n + 1 + 1]
    <3>3. flat[n + 1 + 1] = a \o b /\ b \in C
      BY <1>1, <2>2, <3>1
    <3>4. a \in Seq(V) /\ b \in Seq(V)
      BY <3>2, <3>3
    <3>5. ToSet(a \o b) = ToSet(a) \cup ToSet(b)
      <4> HIDE DEF a, b
      <4> QED
        BY <3>4, ConcatSet
    <3>6. ASSUME NEW i \in 1 .. n + 1 + 1 PROVE ToSet(seqs[i]) \subseteq ToSet(a \o b)
      <4>1. i \in 1 .. n + 1 \/ i = n + 1 + 1
        OBVIOUS
      <4> QED
        BY <4>1, <3>2, <3>5
    <3> QED
      BY <3>2, <3>3, <3>6
  <2>5. N \in P
    <3> HIDE DEF P, N
    <3> QED
      BY <2>1, <2>3, <2>4, Induction
  <2>6. flat[N + 1] \in C /\ \A i \in 1 .. N + 1 : ToSet(seqs[i]) \subseteq ToSet(flat[N + 1])
    BY <2>1, <2>5
  <2> QED
    BY <2>1, <2>2, <2>6
<1> QED
  BY <1>2, <1>3

\* Which element of which of the first n sequences stands where in f.
Places(f, seqs, n, which, at) ==
  \A p \in 1 .. Len(f) :
    /\ which[p] \in 1 .. n /\ at[p] \in 1 .. Len(seqs[which[p]])
    /\ f[p] = seqs[which[p]][at[p]]
    /\ \A q \in 1 .. p - 1 : which[q] < which[p] \/ (which[q] = which[p] /\ at[q] < at[p])

LEMMA PlacesMore ==
  ASSUME NEW V, NEW seqs \in Seq(Seq(V)), NEW n \in Nat, n + 1 \in 1 .. Len(seqs),
         NEW f \in Seq(V), NEW which, NEW at, Places(f, seqs, n, which, at)
  PROVE  /\ f \o seqs[n + 1] \in Seq(V)
         /\ \E w, a : Places(f \o seqs[n + 1], seqs, n + 1, w, a)
<1> DEFINE b == seqs[n + 1]
           m == Len(f)
           k == Len(b)
           c == f \o b
           w == [p \in 1 .. m + k |-> IF p <= m THEN which[p] ELSE n + 1]
           a == [p \in 1 .. m + k |-> IF p <= m THEN at[p] ELSE p - m]
<1>1. b \in Seq(V)
  BY ElementOfSeq
<1> HIDE DEF b
<1>2. /\ m \in Nat /\ k \in Nat /\ c \in Seq(V) /\ Len(c) = m + k
      /\ \A p \in 1 .. m + k : c[p] = IF p <= m THEN f[p] ELSE b[p - m]
  BY <1>1, ConcatProperties, LenProperties
<1> HIDE DEF c, m, k
<1>3. ASSUME NEW p \in 1 .. m
      PROVE  /\ which[p] \in 1 .. n /\ at[p] \in 1 .. Len(seqs[which[p]]) /\ f[p] = seqs[which[p]][at[p]]
             /\ \A q \in 1 .. p - 1 : which[q] < which[p] \/ (which[q] = which[p] /\ at[q] < at[p])
  BY DEF Places, m
<1>4. /\ \A p \in 1 .. m : p \in 1 .. m + k /\ w[p] = which[p] /\ a[p] = at[p] /\ c[p] = f[p]
      /\ \A p \in m + 1 .. m + k : p \in 1 .. m + k /\ w[p] = n + 1 /\ a[p] = p - m /\ c[p] = b[p - m]
  BY <1>2
<1> HIDE DEF w, a
<1>5. ASSUME NEW p \in 1 .. m + k
      PROVE  /\ w[p] \in 1 .. n + 1 /\ a[p] \in 1 .. Len(seqs[w[p]]) /\ c[p] = seqs[w[p]][a[p]]
             /\ \A q \in 1 .. p - 1 : w[q] < w[p] \/ (w[q] = w[p] /\ a[q] < a[p])
  <2>1. CASE p \in 1 .. m
    <3>1. w[p] \in 1 .. n + 1
      BY <1>3, <1>4, <2>1
    <3>2. \A q \in 1 .. p - 1 : q \in 1 .. m
      BY <1>2, <2>1
    <3> QED
      BY <1>3, <1>4, <2>1, <3>1, <3>2
  <2>2. CASE p \notin 1 .. m
    <3>1. p \in m + 1 .. m + k /\ p - m \in 1 .. k
      BY <1>2, <2>2
    <3>2. w[p] = n + 1 /\ a[p] = p - m /\ c[p] = b[p - m] /\ n + 1 \in 1 .. n + 1
      BY <1>4, <3>1
    <3>3. ASSUME NEW q \in 1 .. p - 1
          PROVE  w[q] < w[p] \/ (w[q] = w[p] /\ a[q] < a[p])
      <4>1. CASE q \in 1 .. m
        <5>1. w[q] = which[q] /\ which[q] \in 1 .. n
          BY <1>3, <1>4, <4>1
        <5> QED
          BY <3>2, <5>1
      <4>2. CASE q \notin 1 .. m
        <5>1. q \in m + 1 .. m + k /\ q - m < p - m
          BY <1>2, <4>2, <3>1
        <5>2. w[q] = n + 1 /\ a[q] = q - m
          BY <1>4, <5>1
        <5> QED
          BY <3>2, <5>1, <5>2
      <4> QED
        BY <4>1, <4>2
    <3>4. a[p] \in 1 .. Len(seqs[w[p]]) /\ c[p] = seqs[w[p]][a[p]]
      BY <3>1, <3>2 DEF b, k
    <3> QED
      BY <3>2, <3>3, <3>4
  <2> QED
    BY <2>1, <2>2
<1>6. Places(c, seqs, n + 1, w, a)
  BY <1>2, <1>5 DEF Places
<1> QED
  BY <1>2, <1>6 DEF c, b

\* FlattenSeq keeps the order of the sequences and of their elements.
LEMMA FlattenPlaces ==
  ASSUME NEW V, NEW seqs \in Seq(Seq(V))
  PROVE  /\ FlattenSeq(seqs) \in Seq(V)
         /\ \E which, at : Places(FlattenSeq(seqs), seqs, Len(seqs), which, at)
<1> DEFINE C == Seq(V)
<1>1. /\ Len(seqs) \in Nat /\ DOMAIN seqs = 1 .. Len(seqs)
      /\ \A i \in 1 .. Len(seqs) : seqs[i] \in Seq(V)
  BY LenProperties, ElementOfSeq
<1>2. CASE Len(seqs) = 0
  <2>1. seqs = <<>>
    BY <1>2, EmptySeq
  <2>2. FlattenSeq(seqs) = <<>>
    BY <1>2, <2>1 DEF FlattenSeq
  <2>3. Len(<<>>) = 0 /\ <<>> \in Seq(V)
    BY EmptySeq
  <2> QED
    BY <2>2, <2>3 DEF Places
<1>3. CASE Len(seqs) # 0
  <2> DEFINE N == Len(seqs) - 1
  <2>1. N \in Nat /\ N + 1 = Len(seqs)
    BY <1>1, <1>3
  <2>2. \A x, y \in C : x \o y \in C
    BY ConcatSet
  <2>3. PICK flat : /\ flat[1] = seqs[1] /\ FlattenSeq(seqs) = flat[Len(seqs)]
                    /\ \A n \in 1 .. N : flat[n + 1] = flat[n] \o seqs[n + 1]
    <3> HIDE DEF C
    <3>1. seqs \in Seq(C)
      BY DEF C
    <3> QED
      BY <1>3, <2>2, <3>1, FlattenRounds
  <2> DEFINE P == {n \in Nat : n <= N =>
                     flat[n + 1] \in C /\ \E w, a : Places(flat[n + 1], seqs, n + 1, w, a)}
  <2>4. 0 \in P
    <3>1. 1 \in 1 .. Len(seqs) /\ seqs[1] \in C
      BY <1>1, <1>3
    <3>2. <<>> \in Seq(V) /\ Len(<<>>) = 0
      BY EmptySeq
    <3>3. \A w, a : Places(<<>>, seqs, 0, w, a)
      BY <3>2 DEF Places
    <3>4. 0 \in Nat /\ 0 + 1 = 1
      OBVIOUS
    <3>5. \E w, a : Places(<<>> \o seqs[0 + 1], seqs, 0 + 1, w, a)
      BY <3>1, <3>2, <3>3, <3>4, PlacesMore
    <3>6. <<>> \o seqs[1] = seqs[1]
      BY <3>1, ConcatEmptySeq
    <3> QED
      BY <2>3, <3>1, <3>4, <3>5, <3>6
  <2>5. ASSUME NEW n \in Nat, n \in P PROVE n + 1 \in P
    <3> SUFFICES ASSUME n + 1 <= N
                 PROVE  /\ flat[n + 1 + 1] \in C
                        /\ \E w, a : Places(flat[n + 1 + 1], seqs, n + 1 + 1, w, a)
      OBVIOUS
    <3>1. n + 1 \in 1 .. N /\ n <= N /\ n + 1 + 1 \in 1 .. Len(seqs) /\ n + 1 \in Nat
      BY <2>1
    <3>2. flat[n + 1] \in C /\ \E w, a : Places(flat[n + 1], seqs, n + 1, w, a)
      BY <2>5, <3>1
    <3>3. flat[n + 1 + 1] = flat[n + 1] \o seqs[n + 1 + 1]
      BY <2>3, <3>1
    <3> QED
      BY <3>1, <3>2, <3>3, PlacesMore
  <2>6. N \in P
    <3> HIDE DEF P, N
    <3> QED
      BY <2>1, <2>4, <2>5, Induction
  <2>7. flat[N + 1] \in C /\ \E w, a : Places(flat[N + 1], seqs, N + 1, w, a)
    BY <2>1, <2>6
  <2> QED
    BY <2>1, <2>3, <2>7
<1> QED
  BY <1>2, <1>3
-----------------------------------------------------------------------------
(* Counting.                                                               *)

\* How many elements of a list are in a set.
CountIn(s, V) == Cardinality({i \in DOMAIN s : s[i] \in V})

LEMMA CountType ==
  ASSUME NEW S, NEW s \in Seq(S), NEW V
  PROVE  /\ IsFiniteSet({i \in DOMAIN s : s[i] \in V})
         /\ CountIn(s, V) \in Nat
         /\ (\E i \in DOMAIN s : s[i] \in V) => CountIn(s, V) > 0
<1> DEFINE P == {i \in DOMAIN s : s[i] \in V}
<1>1. Len(s) \in Nat /\ DOMAIN s = 1 .. Len(s)
  BY LenProperties
<1>2. IsFiniteSet(1 .. Len(s))
  BY <1>1, FS_Interval
<1>3. IsFiniteSet(P)
  BY <1>1, <1>2, FS_Subset
<1> HIDE DEF P
<1>4. Cardinality(P) \in Nat /\ (P # {} => Cardinality(P) # 0)
  BY <1>3, FS_CardinalityType, FS_EmptySet
<1> QED
  BY <1>3, <1>4 DEF CountIn, P

\* Shifting positions changes no count.
LEMMA SameCount ==
  ASSUME NEW P, NEW Q, IsFiniteSet(P), NEW f \in [P -> Q],
         \A x, y \in P : f[x] = f[y] => x = y,
         \A z \in Q : \E x \in P : f[x] = z
  PROVE  IsFiniteSet(Q) /\ Cardinality(Q) = Cardinality(P)
<1>1. f \in Bijection(P, Q)
  BY DEF Bijection, Injection, Surjection, IsInjective
<1> QED
  BY <1>1, FS_Bijection DEF ExistsBijection

LEMMA CountCons ==
  ASSUME NEW S, NEW s \in Seq(S), NEW e \in S, NEW V
  PROVE  CountIn(Cons(e, s), V) = CountIn(s, V) + (IF e \in V THEN 1 ELSE 0)
<1> DEFINE c == Cons(e, s)
           P == {i \in DOMAIN s : s[i] \in V}
           Q == {i \in DOMAIN c : c[i] \in V}
           f == [i \in P |-> i + 1]
<1>1. /\ c \in Seq(S) /\ Len(s) \in Nat /\ DOMAIN s = 1 .. Len(s) /\ DOMAIN c = 1 .. Len(s) + 1
      /\ c[1] = e /\ \A i \in 2 .. Len(s) + 1 : c[i] = s[i - 1]
  BY ConsFacts
<1> HIDE DEF c
<1>2. IsFiniteSet(P) /\ IsFiniteSet(Q) /\ Cardinality(P) \in Nat /\ Cardinality(Q) \in Nat
  BY <1>1, CountType DEF CountIn
<1>3. \A i \in P : i \in Int /\ i + 1 \in Q \ {1}
  <2> TAKE i \in P
  <2>1. i \in 1 .. Len(s) /\ i + 1 \in 2 .. Len(s) + 1 /\ i + 1 - 1 = i /\ i + 1 # 1
    BY <1>1
  <2> QED
    BY <1>1, <2>1
<1>4. \A z \in Q \ {1} : z \in Int /\ z - 1 \in P
  <2> TAKE z \in Q \ {1}
  <2>1. z \in 2 .. Len(s) + 1 /\ z - 1 \in 1 .. Len(s)
    BY <1>1
  <2> QED
    BY <1>1, <2>1
<1>5. 1 \in Q <=> e \in V
  BY <1>1
<1> HIDE DEF P, Q
<1>6. f \in [P -> Q \ {1}]
  BY <1>3
<1>7. \A x, y \in P : f[x] = f[y] => x = y
  BY <1>3
<1>8. \A z \in Q \ {1} : \E x \in P : f[x] = z
  <2> TAKE z \in Q \ {1}
  <2>1. z - 1 \in P /\ f[z - 1] = z
    BY <1>4
  <2> QED
    BY <2>1
<1> HIDE DEF f
<1>9. Cardinality(Q \ {1}) = Cardinality(P)
  BY <1>2, <1>6, <1>7, <1>8, SameCount
<1>10. Cardinality(Q \ {1}) = IF 1 \in Q THEN Cardinality(Q) - 1 ELSE Cardinality(Q)
  BY <1>2, FS_RemoveElement
<1>11. Cardinality(Q) = Cardinality(P) + (IF e \in V THEN 1 ELSE 0)
  BY <1>2, <1>5, <1>9, <1>10
<1> QED
  BY <1>11 DEF CountIn, c, P, Q

LEMMA CountRemoveAt ==
  ASSUME NEW S, NEW s \in Seq(S), NEW k \in DOMAIN s, NEW V
  PROVE  CountIn(RemoveAt(s, k), V) = CountIn(s, V) - (IF s[k] \in V THEN 1 ELSE 0)
<1> DEFINE r == RemoveAt(s, k)
           P == {i \in DOMAIN r : r[i] \in V}
           Q == {i \in DOMAIN s : s[i] \in V}
           f == [i \in P |-> IF i < k THEN i ELSE i + 1]
<1>1. /\ r \in Seq(S) /\ Len(s) \in Nat /\ DOMAIN s = 1 .. Len(s) /\ DOMAIN r = 1 .. Len(s) - 1
      /\ \A i \in 1 .. Len(s) - 1 : r[i] = IF i < k THEN s[i] ELSE s[i + 1]
  BY RemoveAtFacts
<1> HIDE DEF r
<1>2. IsFiniteSet(P) /\ IsFiniteSet(Q) /\ Cardinality(P) \in Nat /\ Cardinality(Q) \in Nat
  BY <1>1, CountType DEF CountIn
<1>3. k \in Int
  BY <1>1
<1>4. \A i \in P : i \in Int /\ (i < k => i \in Q \ {k}) /\ (~(i < k) => i + 1 \in Q \ {k})
  <2> TAKE i \in P
  <2>1. i \in 1 .. Len(s) - 1 /\ i \in 1 .. Len(s) /\ i + 1 \in 1 .. Len(s)
    BY <1>1
  <2>2. (i < k => i # k) /\ (~(i < k) => i + 1 # k)
    BY <1>3, <2>1
  <2> QED
    BY <1>1, <2>1, <2>2
<1>5. \A z \in Q \ {k} : z \in Int /\ (z < k => z \in P) /\ (~(z < k) => z - 1 \in P /\ ~(z - 1 < k))
  <2> TAKE z \in Q \ {k}
  <2>1. z \in 1 .. Len(s) /\ z # k
    BY <1>1
  <2>2. CASE z < k
    <3>1. z \in 1 .. Len(s) - 1
      BY <1>1, <2>1, <2>2
    <3> QED
      BY <1>1, <2>1, <2>2, <3>1
  <2>3. CASE ~(z < k)
    <3>1. z - 1 \in 1 .. Len(s) - 1 /\ ~(z - 1 < k) /\ z - 1 + 1 = z
      BY <1>1, <2>1, <2>3
    <3> QED
      BY <1>1, <2>1, <2>3, <3>1
  <2> QED
    BY <2>2, <2>3
<1>6. k \in Q <=> s[k] \in V
  OBVIOUS
<1> HIDE DEF P, Q
<1>7. f \in [P -> Q \ {k}]
  BY <1>4
<1>8. \A x, y \in P : f[x] = f[y] => x = y
  BY <1>3, <1>4
<1>9. \A z \in Q \ {k} : \E x \in P : f[x] = z
  <2> TAKE z \in Q \ {k}
  <2>1. CASE z < k
    BY <1>5, <2>1
  <2>2. CASE ~(z < k)
    <3>1. z \in Int /\ z - 1 \in P /\ ~(z - 1 < k)
      BY <1>5, <2>2
    <3>2. f[z - 1] = z
      BY <3>1
    <3> QED
      BY <3>1, <3>2
  <2> QED
    BY <2>1, <2>2
<1> HIDE DEF f
<1>10. Cardinality(Q \ {k}) = Cardinality(P)
  BY <1>2, <1>7, <1>8, <1>9, SameCount
<1>11. Cardinality(Q \ {k}) = IF k \in Q THEN Cardinality(Q) - 1 ELSE Cardinality(Q)
  BY <1>2, FS_RemoveElement
<1>12. Cardinality(P) = Cardinality(Q) - (IF s[k] \in V THEN 1 ELSE 0)
  BY <1>2, <1>6, <1>10, <1>11
<1> QED
  BY <1>12 DEF CountIn, r, P, Q

=============================================================================
