------------------------ MODULE IncCheckpointProofs -------------------------
(***************************************************************************)
(* Proofs about IncCheckpoint, for every number of threads and of          *)
(* dataspaces: type correctness, that the first designated dataspace of    *)
(* every list keeps its changes (HeadNotForgotten), that only late threads *)
(* change memory during a checkpoint (FrozenMemory), that the checkpointer *)
(* implements MemorySnapshot for those designated dataspaces, that it      *)
(* reads the capability map without a fault (CapMapReadable) and that      *)
(* every fault is covered by a signal or the round of the pager            *)
(* (FaultCovered).                                                         *)
(***************************************************************************)
EXTENDS IncCheckpoint, FiniteSetTheorems, TLAPS

-----------------------------------------------------------------------------
(* Type correctness.                                                       *)

LEMMA HeadsAreDds == Heads \subseteq Dd
BY ListHeadAssumption DEF Heads

LEMMA InitType == Init => TypeOK
<1> SUFFICES ASSUME Init PROVE TypeOK
  OBVIOUS
<1> USE ZeroAssumption, NumRamdsAssumption DEF Init, Ramds
<1>1. /\ mem \in [Dd -> Val] /\ copy \in [Dd -> Val]
      /\ inMap \in [Dd -> BOOLEAN] /\ attached \in [Dd -> BOOLEAN]
      /\ fault \in [Thread -> Dd \cup {NoDd}] /\ paused \in [Thread -> BOOLEAN]
  OBVIOUS
<1>2. /\ asked \subseteq Thread \X Thread /\ late \subseteq Thread /\ lost \in BOOLEAN
      /\ ckTodo \subseteq Dd /\ marked \subseteq Dd /\ memory \subseteq Dd
      /\ missed \subseteq Dd
  OBVIOUS
<1>3. /\ signals \in Nat /\ pgCur \in 1 .. NumRamds + 1
      /\ pgDd \in Dd \cup {NoDd} /\ ckDd \in Dd \cup {NoDd}
  OBVIOUS
<1> QED
  BY <1>1, <1>2, <1>3 DEF TypeOK, PagerBusy, CkPcs, Freezing

LEMMA TargetType ==
  ASSUME TypeOK, NEW t \in Thread, NEW d \in Dd,
         PageFault(t, d) \/ \E v \in Val : Write(t, d, v)
  PROVE  TypeOK'
<1>1. CASE PageFault(t, d)
  BY <1>1 DEF PageFault, TypeOK, reqVars, pgVars, ckVars
<1>2. ASSUME NEW v \in Val, Write(t, d, v) PROVE TypeOK'
  BY <1>2 DEF Write, TypeOK, thVars, reqVars, pgVars
<1> QED BY <1>1, <1>2

LEMMA RequestType ==
  ASSUME TypeOK, NEW t \in Thread, NEW u \in Thread, Ask(t, u) \/ Serve(t, u)
  PROVE  TypeOK'
<1>1. CASE Ask(t, u)
  BY <1>1 DEF Ask, TypeOK, pgVars, ckVars
<1>2. CASE Serve(t, u)
  BY <1>2 DEF Serve, TypeOK, pgVars, ckVars
<1> QED BY <1>1, <1>2

LEMMA PagerType == TypeOK /\ Pager => TypeOK'
<1> SUFFICES ASSUME TypeOK, Pager PROVE TypeOK'
  OBVIOUS
<1> USE DEF TypeOK, PagerBusy, thVars, reqVars, pgVars, ckVars, Ramds
<1>1. CASE PagerTake
  BY <1>1, NumRamdsAssumption DEF PagerTake
<1>2. CASE PagerScanReady
  BY <1>2, NumRamdsAssumption DEF PagerScanReady
<1>3. CASE PagerScanFound
  BY <1>3 DEF PagerScanFound
<1>4. CASE PagerScanNull
  BY <1>4 DEF PagerScanNull
<1>5. CASE PagerState
  <2>1. FaultingDd(pgCur) \subseteq Dd
    BY <1>5, AtZeroAssumption DEF PagerState, FaultingDd, Faulters, DdsOf
  <2> QED BY <1>5, <2>1 DEF PagerState
<1>6. CASE PagerAttach
  BY <1>6 DEF PagerAttach
<1>7. CASE PagerAttachAt
  BY <1>7 DEF PagerAttachAt, MapAttach
<1>8. CASE PagerMark
  BY <1>8 DEF PagerMark
<1> QED
  BY <1>1, <1>2, <1>3, <1>4, <1>5, <1>6, <1>7, <1>8 DEF Pager

LEMMA CheckpointerType ==
  TypeOK /\ (CkStart \/ CkResume \/ CheckpointerStep) => TypeOK'
<1> SUFFICES ASSUME TypeOK, CkStart \/ CkResume \/ CheckpointerStep
             PROVE  TypeOK'
  OBVIOUS
<1> USE DEF TypeOK, CkPcs, Freezing, Ramds, thVars, reqVars, pgVars
<1>1. CASE CkStart
  BY <1>1 DEF CkStart
<1>2. CASE CkResume
  BY <1>2 DEF CkResume
<1>3. ASSUME NEW t \in Thread, CkPause(t) PROVE TypeOK'
  BY <1>3 DEF CkPause
<1>4. ASSUME NEW t \in Thread, CkResumeThread(t) PROVE TypeOK'
  BY <1>4 DEF CkResumeThread
<1>5. CASE CkPaused
  BY <1>5 DEF CkPaused, CapMapDd
<1>6. CASE CkMapAttach
  BY <1>6 DEF CkMapAttach
<1>7. CASE CkMapAttachAt
  BY <1>7 DEF CkMapAttachAt, MapAttach
<1>8. CASE CkMapFlag
  BY <1>8 DEF CkMapFlag
<1>9. CASE CkMapMarked
  BY <1>9 DEF CkMapMarked
<1>10. CASE CkMapRead
  BY <1>10 DEF CkMapRead
<1>11. CASE CkMapUnflag
  BY <1>11 DEF CkMapUnflag
<1>12. CASE CkMapDetached
  BY <1>12 DEF CkMapDetached
<1>13. CASE CkResolved
  BY <1>13 DEF CkResolved
<1>14. CASE CkUnflag
  BY <1>14 DEF CkUnflag
<1>15. CASE CkDetached
  BY <1>15 DEF CkDetached
<1>16. CASE CkReturn
  BY <1>16 DEF CkReturn
<1>17. CASE CkResumed
  BY <1>17 DEF CkResumed
<1>18. ASSUME NEW d \in Dd, CkMapMark(d) PROVE TypeOK'
  BY <1>18 DEF CkMapMark
<1>19. ASSUME NEW d \in Dd, CkMapDetach(d) PROVE TypeOK'
  BY <1>19 DEF CkMapDetach, MapDetach
<1>20. ASSUME NEW d \in Dd, CkDetach(d) PROVE TypeOK'
  BY <1>20 DEF CkDetach, MapDetach
<1>21. ASSUME NEW d \in Dd, CkStore(d) PROVE TypeOK'
  BY <1>21 DEF CkStore
<1>22. ASSUME NEW r \in Ramds, CkResolve(r) PROVE TypeOK'
  <2>1. ToStore(r) \subseteq Dd
    BY ListHeadAssumption DEF ToStore
  <2> QED BY <1>22, <2>1 DEF CkResolve, DdsOf
<1> QED
  BY <1>1, <1>2, <1>3, <1>4, <1>5, <1>6, <1>7, <1>8, <1>9, <1>10, <1>11, <1>12, <1>13, <1>14, <1>15, <1>16, <1>17, <1>18, <1>19, <1>20, <1>21, <1>22
  DEF CheckpointerStep

\* Every variable keeps its type.
THEOREM TypeCorrect == Spec => []TypeOK
<1>1. TypeOK /\ [Next]_vars => TypeOK'
  <2> SUFFICES ASSUME TypeOK, [Next]_vars PROVE TypeOK'
    OBVIOUS
  <2>1. CASE \E t \in Thread, d \in Dd : PageFault(t, d) \/ \E v \in Val : Write(t, d, v)
    BY <2>1, TargetType
  <2>2. CASE Pager
    BY <2>2, PagerType
  <2>3. CASE CkStart \/ CkResume \/ CheckpointerStep
    BY <2>3, CheckpointerType
  <2>5. CASE \E t, u \in Thread : Ask(t, u) \/ Serve(t, u)
    BY <2>5, RequestType
  <2>4. CASE UNCHANGED vars
    BY <2>4 DEF vars, thVars, reqVars, pgVars, ckVars, TypeOK
  <2> QED
    BY <2>1, <2>2, <2>3, <2>4, <2>5 DEF Next
<1> QED
  BY <1>1, InitType, PTL DEF Spec

-----------------------------------------------------------------------------
(* Nothing of a head is forgotten.                                         *)
(*                                                                         *)
(* HeadNotForgotten is not inductive: that a head may be detached depends  *)
(* on what the checkpointer has seen of it before.  The strengthening says *)
(* for every phase of the checkpoint which heads are safe to detach, and   *)
(* that only late threads run meanwhile: what they write is in missed.     *)

\* Detaching d loses nothing.
Safe(d) == Stored(d) \/ d \in missed

\* A thread the checkpointer has paused stays paused, unless it is late.
PausedInv ==
  /\ ckPc = "pause" => \A t \in Thread \ ckTodo : paused[t] \/ t \in late
  /\ ckPc \in Freezing => \A t \in Thread : paused[t] \/ t \in late

MapPcs == {"map_mark", "map_attach", "map_attach_at", "map_flag", "map_read",
           "map_detach", "map_unflag"}

\* What the checkpointer attaches to read the capability map, and so will
\* detach again, was detached before.
MarkInv ==
  /\ ckPc \in {"idle", "pause", "resume"} \cup MapPcs => memory = {}
  /\ ckPc \notin MapPcs \cup {"dead"} => marked = {}
  /\ ckPc \in MapPcs => \A d \in Heads \cap marked : Safe(d)
  /\ ckPc \in {"map_attach", "map_attach_at", "map_flag"} =>
       (ckDd \in Heads => Safe(ckDd))
  /\ ckPc \in {"map_detach", "map_unflag"} => ckTodo \subseteq marked

\* A head the checkpointer has looked at is in the list or safe.
ResolveInv ==
  /\ ckPc = "resolve" =>
       \A r \in Ramds \ ckTodo : ListHead[r] \in memory \/ Safe(ListHead[r])
  /\ ckPc \in {"detach", "unflag", "store"} =>
       \A d \in Heads : d \in memory \/ Safe(d)

HeadInv == TypeOK /\ PausedInv /\ MarkInv /\ ResolveInv /\ HeadNotForgotten

LEMMA InitHead == Init => HeadInv
<1> SUFFICES ASSUME Init PROVE HeadInv
  OBVIOUS
<1>1. TypeOK
  BY InitType
<1>2. HeadNotForgotten
  BY HeadsAreDds DEF Init, HeadNotForgotten, NotForgotten
<1> QED
  BY <1>1, <1>2 DEF Init, HeadInv, PausedInv, MarkInv, ResolveInv, MapPcs, Freezing

\* Threads of the target: they write only what the region map contains, and
\* what they write while a checkpoint is taken is missed.
LEMMA TargetHead ==
  ASSUME HeadInv, NEW t \in Thread, NEW d \in Dd,
         PageFault(t, d) \/ \E v \in Val : Write(t, d, v)
  PROVE  HeadInv'
<1>1. TypeOK'
  BY TargetType DEF HeadInv
<1>3. CASE PageFault(t, d)
  BY <1>1, <1>3 DEF PageFault, HeadInv, PausedInv, MarkInv, ResolveInv, HeadNotForgotten,
     NotForgotten, Safe, Stored, reqVars, pgVars, ckVars
<1>4. ASSUME NEW v \in Val, Write(t, d, v) PROVE HeadInv'
  <2>1. /\ UNCHANGED <<copy, inMap, paused, late, ckPc, ckTodo, ckDd, marked, memory>>
        /\ \A e \in Dd \ {d} : mem'[e] = mem[e] /\ (e \in missed' <=> e \in missed)
        /\ inMap[d] /\ (ckPc \in Freezing => d \in missed')
    BY <1>4 DEF Write, thVars, reqVars, HeadInv, TypeOK
  <2>2. ckPc \in Freezing => \A e \in Dd : Safe(e) => Safe(e)'
    BY <2>1 DEF Safe, Stored
  <2>3. HeadNotForgotten'
    BY <2>1, HeadsAreDds DEF HeadInv, HeadNotForgotten, NotForgotten, Stored
  <2>4. PausedInv' /\ MarkInv' /\ ResolveInv'
    <3>1. PausedInv'
      BY <2>1 DEF HeadInv, PausedInv
    <3>2. MarkInv'
      BY <2>1, <2>2, HeadsAreDds DEF HeadInv, MarkInv, MapPcs, Freezing
    <3>3. ResolveInv'
      BY <2>1, <2>2, HeadsAreDds, ListHeadAssumption
      DEF HeadInv, ResolveInv, Freezing, Heads
    <3> QED BY <3>1, <3>2, <3>3
  <2> QED BY <1>1, <2>3, <2>4 DEF HeadInv
<1> QED BY <1>3, <1>4

\* A request that is served sets a thread running, which is then late.
LEMMA RequestHead ==
  ASSUME HeadInv, NEW t \in Thread, NEW u \in Thread, Ask(t, u) \/ Serve(t, u)
  PROVE  HeadInv'
<1>1. TypeOK'
  BY RequestType DEF HeadInv
<1>2. UNCHANGED <<mem, copy, inMap, ckVars>>
  BY DEF Ask, Serve
<1>3. PausedInv'
  <2>1. CASE Ask(t, u)
    BY <2>1 DEF Ask, HeadInv, PausedInv, ckVars
  <2>2. CASE Serve(t, u)
    BY <2>2 DEF Serve, HeadInv, TypeOK, PausedInv, ckVars
  <2> QED BY <2>1, <2>2
<1> QED
  BY <1>1, <1>2, <1>3 DEF HeadInv, MarkInv, ResolveInv, HeadNotForgotten, NotForgotten,
     Safe, Stored, ckVars

\* The pager: it only ever attaches.
LEMMA PagerHead == HeadInv /\ Pager => HeadInv'
<1> SUFFICES ASSUME HeadInv, Pager PROVE HeadInv'
  OBVIOUS
<1>1. TypeOK'
  BY PagerType DEF HeadInv
<1>2. /\ UNCHANGED <<mem, copy, paused, late, ckVars>>
      /\ \A d \in Dd : inMap[d] => inMap'[d]
  BY DEF Pager, PagerTake, PagerScanReady, PagerScanFound, PagerScanNull, PagerState,
     PagerAttach, PagerAttachAt, PagerMark, MapAttach, thVars, reqVars, HeadInv, TypeOK
<1> QED
  BY <1>1, <1>2, HeadsAreDds DEF HeadInv, PausedInv, MarkInv, ResolveInv, HeadNotForgotten,
     NotForgotten, Safe, Stored, ckVars

\* The checkpointer, one step per action.
LEMMA CheckpointerHead ==
  HeadInv /\ (CkStart \/ CkResume \/ CheckpointerStep) => HeadInv'
<1> SUFFICES ASSUME HeadInv, CkStart \/ CkResume \/ CheckpointerStep
             PROVE  HeadInv'
  OBVIOUS
<1>0. TypeOK'
  BY CheckpointerType DEF HeadInv
<1> USE <1>0, HeadsAreDds DEF HeadInv, TypeOK, PausedInv, MarkInv, ResolveInv, HeadNotForgotten,
    NotForgotten, Safe, Stored, MapPcs, Freezing, thVars, reqVars
<1>1. CASE CkStart
  BY <1>1 DEF CkStart
<1>2. CASE CkPaused
  BY <1>2 DEF CkPaused
<1>3. CASE CkMapAttach
  BY <1>3 DEF CkMapAttach
<1>4. CASE CkMapAttachAt
  <2>1. \A d \in Dd : inMap[d] => inMap'[d]
    BY <1>4 DEF CkMapAttachAt, MapAttach
  <2>2. /\ UNCHANGED <<mem, copy, paused, late, ckTodo, ckDd, marked, memory, missed>>
        /\ ckPc = "map_attach_at" /\ ckPc' \in {"map_flag", "dead"}
    BY <1>4 DEF CkMapAttachAt
  <2>3. HeadNotForgotten'
    BY <2>1, <2>2
  <2>4. PausedInv' /\ MarkInv' /\ ResolveInv'
    BY <2>2
  <2> QED
    BY <2>3, <2>4
<1>5. CASE CkMapFlag
  BY <1>5 DEF CkMapFlag
<1>6. CASE CkMapMarked
  BY <1>6 DEF CkMapMarked
<1>7. CASE CkMapRead
  BY <1>7 DEF CkMapRead
<1>8. CASE CkMapUnflag
  BY <1>8 DEF CkMapUnflag
<1>9. CASE CkMapDetached
  BY <1>9 DEF CkMapDetached
<1>10. CASE CkResolved
  BY <1>10, ListHeadAssumption DEF CkResolved, Heads
<1>11. CASE CkUnflag
  BY <1>11 DEF CkUnflag
<1>12. CASE CkDetached
  BY <1>12 DEF CkDetached
<1>13. CASE CkReturn
  BY <1>13 DEF CkReturn
<1>14. CASE CkResume
  BY <1>14 DEF CkResume
<1>15. CASE CkResumed
  BY <1>15 DEF CkResumed
<1>16. ASSUME NEW t \in Thread, CkPause(t) PROVE HeadInv'
  BY <1>16 DEF CkPause
<1>17. ASSUME NEW t \in Thread, CkResumeThread(t) PROVE HeadInv'
  BY <1>17 DEF CkResumeThread
<1>18. ASSUME NEW d \in Dd, CkMapMark(d) PROVE HeadInv'
  BY <1>18 DEF CkMapMark
<1>19. ASSUME NEW d \in Dd, CkMapDetach(d) PROVE HeadInv'
  BY <1>19 DEF CkMapDetach, MapDetach
<1>20. ASSUME NEW d \in Dd, CkDetach(d) PROVE HeadInv'
  BY <1>20 DEF CkDetach, MapDetach
<1>21. ASSUME NEW d \in Dd, CkStore(d) PROVE HeadInv'
  BY <1>21 DEF CkStore
<1>22. ASSUME NEW r \in Ramds, CkResolve(r) PROVE HeadInv'
  BY <1>22, ListHeadAssumption DEF CkResolve, ToStore, DdsOf, Heads
<1> QED
  BY <1>1, <1>2, <1>3, <1>4, <1>5, <1>6, <1>7, <1>8, <1>9, <1>10, <1>11, <1>12, <1>13, <1>14, <1>15, <1>16, <1>17, <1>18, <1>19, <1>20, <1>21, <1>22
  DEF CheckpointerStep

\* The strengthening is an invariant.
LEMMA HeadInvariant == Spec => []HeadInv
<1>1. HeadInv /\ [Next]_vars => HeadInv'
  <2> SUFFICES ASSUME HeadInv, [Next]_vars PROVE HeadInv'
    OBVIOUS
  <2>1. CASE \E t \in Thread, d \in Dd : PageFault(t, d) \/ \E v \in Val : Write(t, d, v)
    BY <2>1, TargetHead
  <2>2. CASE Pager
    BY <2>2, PagerHead
  <2>3. CASE CkStart \/ CkResume \/ CheckpointerStep
    BY <2>3, CheckpointerHead
  <2>5. CASE \E t, u \in Thread : Ask(t, u) \/ Serve(t, u)
    BY <2>5, RequestHead
  <2>4. CASE UNCHANGED vars
    <3>1. HeadNotForgotten' /\ PausedInv'
      BY <2>4 DEF HeadInv, HeadNotForgotten, NotForgotten, Stored, PausedInv,
         vars, thVars, reqVars, ckVars
    <3>2. TypeOK'
      BY <2>4 DEF vars, thVars, reqVars, pgVars, ckVars, HeadInv, TypeOK
    <3>3. MarkInv' /\ ResolveInv'
      BY <2>4 DEF HeadInv, MarkInv, ResolveInv, Safe, Stored, vars, ckVars
    <3> QED BY <3>1, <3>2, <3>3 DEF HeadInv
  <2> QED
    BY <2>1, <2>2, <2>3, <2>4, <2>5 DEF Next
<1> QED
  BY <1>1, InitHead, PTL DEF Spec

\* The designated dataspace at the head of each dd_infos list is never
\* forgotten by the checkpointer: whenever the stored copy lags behind the
\* memory, the dataspace is attached or in _memory_to_checkpoint, unless the
\* checkpointer overlooked it or a late thread wrote it during a checkpoint.
THEOREM HeadsKept == Spec => []HeadNotForgotten
<1>1. HeadInv => HeadNotForgotten
  BY DEF HeadInv
<1> QED
  BY <1>1, HeadInvariant, PTL

-----------------------------------------------------------------------------
(* Memory changes by the hand of late threads only.                        *)

\* Nothing but a thread of the target writes memory.
LEMMA OthersDoNotWrite ==
  ASSUME [Next]_vars,
         ~ \E t \in Thread, d \in Dd, v \in Val : Write(t, d, v)
  PROVE  mem' = mem
<1>1. ASSUME NEW t \in Thread, NEW d \in Dd, PageFault(t, d) PROVE mem' = mem
  BY <1>1 DEF PageFault
<1>2. ASSUME NEW t \in Thread, NEW u \in Thread, Ask(t, u) \/ Serve(t, u)
      PROVE  mem' = mem
  BY <1>2 DEF Ask, Serve
<1>3. CASE Pager
  BY <1>3 DEF Pager, PagerTake, PagerScanReady, PagerScanFound, PagerScanNull,
     PagerState, PagerAttach, PagerAttachAt, PagerMark
<1>4. CASE CkStart \/ CkResume \/ CheckpointerStep
  BY <1>4 DEF CheckpointerStep, CkStart, CkResume, CkPause, CkResumeThread, CkPaused,
     CkMapAttach, CkMapAttachAt, CkMapFlag, CkMapMarked, CkMapRead, CkMapUnflag,
     CkMapDetached, CkResolved, CkUnflag, CkDetached, CkReturn, CkResumed,
     CkMapMark, CkMapDetach, CkDetach, CkStore, CkResolve
<1>5. CASE UNCHANGED vars
  BY <1>5 DEF vars
<1> QED
  BY <1>1, <1>2, <1>3, <1>4, <1>5 DEF Next

\* A thread that runs during a checkpoint is late.
LEMMA RunningIsLate ==
  ASSUME HeadInv, ckPc \in Freezing, NEW t \in Thread, Running(t)
  PROVE  t \in late
BY DEF HeadInv, PausedInv, Running

\* Without a late thread nobody asks, without a request nobody becomes late.
LEMMA StaysUndisturbed ==
  ASSUME HeadInv, [Next]_vars, ckPc \in Freezing, Undisturbed, ckPc' \in Freezing
  PROVE  Undisturbed'
<1>1. ASSUME NEW t \in Thread, NEW d \in Dd, PageFault(t, d) PROVE Undisturbed'
  BY <1>1 DEF PageFault, Undisturbed, reqVars
<1>2. ASSUME NEW t \in Thread, NEW d \in Dd, NEW v \in Val, Write(t, d, v)
      PROVE  Undisturbed'
  BY <1>2 DEF Write, Undisturbed, thVars, reqVars
<1>3. ASSUME NEW t \in Thread, NEW u \in Thread, Ask(t, u) PROVE FALSE
  BY <1>3, RunningIsLate DEF Ask, Undisturbed
<1>4. ASSUME NEW t \in Thread, NEW u \in Thread, Serve(t, u) PROVE FALSE
  BY <1>4 DEF Serve, Undisturbed
<1>5. CASE Pager
  BY <1>5 DEF Pager, PagerTake, PagerScanReady, PagerScanFound, PagerScanNull,
     PagerState, PagerAttach, PagerAttachAt, PagerMark, Undisturbed, thVars, reqVars
<1>6. CASE CkStart \/ CkResume \/ CheckpointerStep
  BY <1>6 DEF CheckpointerStep, CkStart, CkResume, CkPause, CkResumeThread, CkPaused,
     CkMapAttach, CkMapAttachAt, CkMapFlag, CkMapMarked, CkMapRead, CkMapUnflag,
     CkMapDetached, CkResolved, CkUnflag, CkDetached, CkReturn, CkResumed,
     CkMapMark, CkMapDetach, CkDetach, CkStore, CkResolve, Undisturbed, thVars,
     reqVars, Freezing
<1>7. CASE UNCHANGED vars
  BY <1>7 DEF vars, thVars, reqVars, Undisturbed
<1> QED
  BY <1>1, <1>2, <1>3, <1>4, <1>5, <1>6, <1>7 DEF Next

\* From the moment Target_child::pause has returned until checkpoint() returns,
\* the memory that is being stored changes only by the hand of a thread that a
\* request served meanwhile has set running; without a late thread and without
\* a request under way it stands still to the end.
THEOREM MemoryFrozen == Spec => FrozenMemory
<1>1. HeadInv /\ [Next]_vars => FrozenStep
  <2> SUFFICES ASSUME HeadInv, [Next]_vars, ckPc \in Freezing
               PROVE  /\ mem' # mem => \E t \in late : Running(t)
                      /\ Undisturbed /\ ckPc' \in Freezing => Undisturbed'
    BY DEF FrozenStep
  <2>1. ASSUME mem' # mem PROVE \E t \in late : Running(t)
    <3>1. PICK t \in Thread : Running(t)
      BY <2>1, OthersDoNotWrite DEF Write
    <3> QED BY <3>1, RunningIsLate
  <2> QED BY <2>1, StaysUndisturbed
<1> QED
  BY <1>1, HeadInvariant, PTL DEF Spec, FrozenMemory

-----------------------------------------------------------------------------
(* The checkpointer implements MemorySnapshot for the heads of the lists.  *)
(* Every step below is a step of the promise or leaves its state alone.    *)

smissed == missed \cap Heads

\* A step that disturbs nothing the promise is about.
Stutter ==
  /\ UNCHANGED <<mem, copy, smissed>>
  /\ (ckPc' \in Freezing) = (ckPc \in Freezing)

LEMMA StutterStep == Stutter => UNCHANGED Snapshot!vars
BY DEF Stutter, smissed, Snapshot!vars

\* A head belongs to one list only.
LEMMA OneHead == \A r \in Ramds : DdsOf(r) \cap Heads = {ListHead[r]}
BY ListHeadAssumption DEF DdsOf, Heads

LEMMA SnapshotInit == Init => Snapshot!Init
BY ZeroAssumption, HeadsAreDds DEF Init, Snapshot!Init, Freezing

\* The target: a write is a write if it hits a head, and disturbs a checkpoint
\* that is being taken.
LEMMA SnapshotTarget ==
  ASSUME HeadInv, NEW t \in Thread, NEW d \in Dd,
         PageFault(t, d) \/ \E v \in Val : Write(t, d, v)
  PROVE  [Snapshot!Next]_Snapshot!vars
<1>1. CASE PageFault(t, d)
  BY <1>1, StutterStep DEF PageFault, Stutter, smissed, ckVars
<1>2. ASSUME NEW v \in Val, Write(t, d, v) PROVE [Snapshot!Next]_Snapshot!vars
  <2>1. /\ UNCHANGED <<copy, ckPc>>
        /\ missed' = IF ckPc \in Freezing THEN missed \cup {d} ELSE missed
    BY <1>2 DEF Write
  <2>2. mem' = [mem EXCEPT ![d] = v] /\ DOMAIN mem = Dd
    BY <1>2 DEF Write, HeadInv, TypeOK
  <2>3. CASE d \in Heads
    <3>1. [h \in Heads |-> mem[h]]' = [[h \in Heads |-> mem[h]] EXCEPT ![d] = v]
      BY <2>2, <2>3, HeadsAreDds
    <3>2. CASE ckPc \in Freezing
      <4>1. smissed' = smissed \cup {d}
        BY <2>1, <2>3, <3>2 DEF smissed
      <4>2. Snapshot!Disturb(d, v)
        BY <2>1, <3>1, <3>2, <4>1 DEF Snapshot!Disturb, smissed
      <4> QED BY <4>2, <2>3 DEF Snapshot!Next
    <3>3. CASE ckPc \notin Freezing
      <4>1. Snapshot!Write(d, v)
        BY <2>1, <3>1, <3>3 DEF Snapshot!Write
      <4> QED BY <4>1, <2>3 DEF Snapshot!Next
    <3> QED BY <3>2, <3>3
  <2>4. CASE d \notin Heads
    <3>1. [h \in Heads |-> mem[h]]' = [h \in Heads |-> mem[h]]
      BY <2>2, <2>4, HeadsAreDds
    <3>2. smissed' = smissed
      BY <2>1, <2>4 DEF smissed
    <3> QED BY <2>1, <3>1, <3>2 DEF Snapshot!vars, smissed
  <2> QED BY <2>3, <2>4
<1> QED BY <1>1, <1>2

\* Requests do not show.
LEMMA SnapshotRequest ==
  ASSUME NEW t \in Thread, NEW u \in Thread, Ask(t, u) \/ Serve(t, u)
  PROVE  UNCHANGED Snapshot!vars
BY StutterStep DEF Ask, Serve, Stutter, smissed, ckVars

\* The pager never shows.
LEMMA SnapshotPager == Pager => UNCHANGED Snapshot!vars
<1> SUFFICES ASSUME Pager PROVE Stutter
  BY StutterStep
<1>1. UNCHANGED <<mem, copy, ckPc, missed>>
  BY DEF Pager, PagerTake, PagerScanReady, PagerScanFound, PagerScanNull, PagerState,
     PagerAttach, PagerAttachAt, PagerMark, ckVars
<1> QED
  BY <1>1 DEF Stutter, smissed

\* What the checkpointer does with the promise's state, action by action.
LEMMA SnapshotCheckpointer ==
  ASSUME HeadInv, CkStart \/ CkResume \/ CheckpointerStep
  PROVE  [Snapshot!Next]_Snapshot!vars
<1>1. CASE \/ CkStart \/ CkResume \/ CkResumed
           \/ \E t \in Thread : CkPause(t) \/ CkResumeThread(t)
  <2>1. Stutter
    BY <1>1 DEF Stutter, smissed, Freezing, CkStart, CkResume, CkResumed, CkPause, CkResumeThread
  <2> QED BY <2>1, StutterStep
<1>2. CASE CkPaused
  <2>1. Snapshot!Freeze
    BY <1>2 DEF CkPaused, Snapshot!Freeze, Freezing
  <2> QED BY <2>1 DEF Snapshot!Next
<1>3. CASE \/ CkMapAttach \/ CkMapAttachAt \/ CkMapFlag \/ CkMapMarked \/ CkMapRead
           \/ CkMapUnflag \/ CkMapDetached \/ CkResolved \/ CkUnflag \/ CkDetached
           \/ \E d \in Dd : CkMapDetach(d) \/ CkDetach(d)
  <2>1. UNCHANGED <<mem, copy, missed>>
    BY <1>3 DEF CkMapAttach, CkMapAttachAt, CkMapFlag, CkMapMarked, CkMapRead,
       CkMapUnflag, CkMapDetached, CkResolved, CkUnflag, CkDetached, CkMapDetach, CkDetach
  <2>2. ckPc \in Freezing /\ ckPc' \in Freezing
    BY <1>3 DEF Freezing, CkMapAttach, CkMapAttachAt, CkMapFlag, CkMapMarked, CkMapRead,
       CkMapUnflag, CkMapDetached, CkResolved, CkUnflag, CkDetached, CkMapDetach, CkDetach
  <2> QED BY <2>1, <2>2, StutterStep DEF Stutter, smissed
<1>4. ASSUME NEW d \in Dd, CkMapMark(d) PROVE [Snapshot!Next]_Snapshot!vars
  <2>1. ckPc \in Freezing /\ ckPc' \in Freezing /\ UNCHANGED <<mem, copy>>
    BY <1>4 DEF CkMapMark, Freezing
  <2>2. missed' = missed \/ missed' = missed \cup {d}
    BY <1>4 DEF CkMapMark
  <2>3. CASE missed' = missed \cup {d} /\ d \in Heads
    <3>1. Snapshot!Overlook(d)
      BY <2>1, <2>3 DEF Snapshot!Overlook
    <3> QED BY <3>1, <2>3 DEF Snapshot!Next
  <2>4. CASE missed' = missed \/ d \notin Heads
    BY <2>1, <2>2, <2>4, StutterStep DEF Stutter, smissed
  <2> QED BY <2>2, <2>3, <2>4
<1>5. ASSUME NEW r \in Ramds, CkResolve(r) PROVE [Snapshot!Next]_Snapshot!vars
  <2>1. ckPc \in Freezing /\ ckPc' \in Freezing /\ UNCHANGED <<mem, copy>>
    BY <1>5 DEF CkResolve, Freezing
  <2>2. ListHead[r] \in Heads
    BY DEF Heads
  <2>3. smissed' = smissed \/ smissed' = smissed \cup {ListHead[r]}
    BY <1>5, OneHead DEF CkResolve, smissed
  <2>4. CASE smissed' = smissed \cup {ListHead[r]}
    <3>1. Snapshot!Overlook(ListHead[r])
      BY <2>1, <2>4 DEF Snapshot!Overlook, smissed
    <3> QED BY <3>1, <2>2 DEF Snapshot!Next
  <2>5. CASE smissed' = smissed
    BY <2>1, <2>5, StutterStep DEF Stutter
  <2> QED BY <2>3, <2>4, <2>5
<1>6. ASSUME NEW d \in Dd, CkStore(d) PROVE [Snapshot!Next]_Snapshot!vars
  <2>1. /\ ckPc \in Freezing /\ ckPc' = ckPc /\ mem' = mem
        /\ copy' = [copy EXCEPT ![d] = mem[d]] /\ missed' = missed \ {d}
        /\ DOMAIN copy = Dd
    BY <1>6 DEF CkStore, Freezing, HeadInv, TypeOK
  <2>2. CASE d \in Heads
    <3>1. Snapshot!Store(d)
      BY <2>1, <2>2, HeadsAreDds DEF Snapshot!Store
    <3> QED BY <3>1, <2>2 DEF Snapshot!Next
  <2>3. CASE d \notin Heads
    <3>1. [h \in Heads |-> copy[h]]' = [h \in Heads |-> copy[h]]
      BY <2>1, <2>3, HeadsAreDds
    <3> QED BY <2>1, <2>3, <3>1 DEF Snapshot!vars
  <2> QED BY <2>2, <2>3
<1>7. CASE CkReturn
  <2>1. \A h \in Heads \ (missed \cap Heads) : copy[h] = mem[h]
    BY <1>7 DEF CkReturn, HeadInv, ResolveInv, Safe, Stored
  <2>2. Snapshot!Return
    BY <1>7, <2>1 DEF CkReturn, Snapshot!Return, Freezing
  <2> QED BY <2>2 DEF Snapshot!Next
<1> QED
  BY <1>1, <1>2, <1>3, <1>4, <1>5, <1>6, <1>7 DEF CheckpointerStep

\* Checkpoint after checkpoint, and whatever the pager and the target do
\* between and during them, checkpoint() keeps the promise of MemorySnapshot
\* for the first designated dataspace of every list: what it returns with is
\* the memory of the target, but for the pieces it overlooked and those that a
\* thread set running meanwhile has written.
THEOREM Implements == Spec => SnapshotSpec
<1>1. HeadInv /\ [Next]_vars => [Snapshot!Next]_Snapshot!vars
  <2> SUFFICES ASSUME HeadInv, [Next]_vars PROVE [Snapshot!Next]_Snapshot!vars
    OBVIOUS
  <2>1. CASE \E t \in Thread, d \in Dd : PageFault(t, d) \/ \E v \in Val : Write(t, d, v)
    BY <2>1, SnapshotTarget
  <2>2. CASE Pager
    BY <2>2, SnapshotPager
  <2>3. CASE CkStart \/ CkResume \/ CheckpointerStep
    BY <2>3, SnapshotCheckpointer
  <2>5. CASE \E t, u \in Thread : Ask(t, u) \/ Serve(t, u)
    BY <2>5, SnapshotRequest
  <2>4. CASE UNCHANGED vars
    BY <2>4, StutterStep DEF vars, ckVars, Stutter, smissed
  <2> QED
    BY <2>1, <2>2, <2>3, <2>4, <2>5 DEF Next
<1> QED
  BY <1>1, SnapshotInit, HeadInvariant, PTL DEF Spec, SnapshotSpec, Snapshot!Spec

-----------------------------------------------------------------------------
(* Faults.  Both facts rest on how the flag "attached" relates to the      *)
(* kernel's region map.                                                    *)

\* A dataspace whose flag is set is in the region map, but for the one the
\* checkpointer is detaching.  The pager may set a flag the checkpointer is
\* about to reset, hence no such fact holds of dataspaces whose flag is not set.
FlagInv ==
  /\ \A d \in Dd : attached[d] => inMap[d] \/ (Unflagging /\ ckDd = d)
  /\ pgPc = "mark" =>
       inMap[pgDd] /\ (attached[pgDd] => Unflagging /\ ckDd = pgDd)
  /\ ckPc = "map_flag" =>
       inMap[ckDd] /\ (pgPc = "mark" => pgDd # ckDd)

\* The flags of the capability map's dataspaces the checkpointer has visited.
ReadInv ==
  /\ ckPc \in {"map_mark", "map_attach", "map_attach_at", "map_flag"} =>
       \A d \in CapMapDd \ ckTodo : attached[d] \/ (ckPc # "map_mark" /\ d = ckDd)
  /\ ckPc = "map_read" => \A d \in CapMapDd : attached[d]

MapInv == HeadInv /\ FlagInv /\ ReadInv

\* Threads wait only for dataspaces that are not in the region map, and, while
\* no fault has been lost, for none the checkpointer is detaching.
WaitInv ==
  /\ \A t \in Thread : fault[t] # NoDd => ~inMap[fault[t]]
  /\ Unflagging /\ ~lost => ckDd \notin FaultedDds

\* The round of the pager is still about a fault.
OnFault ==
  \/ pgPc = "scan"
  \/ pgPc = "state" /\ Faulters(pgCur) # {}
  \/ pgPc \in {"attach", "attach_at"} /\ pgDd \in FaultedDds

\* FaultCovered, counting the pager's round only as long as it is about a
\* fault: somebody else may have attached the dataspace meanwhile.
CountInv ==
  /\ IsFiniteSet(FaultedDds)
  /\ ~lost /\ pgPc # "dead" =>
       Cardinality(FaultedDds) <= signals + (IF OnFault THEN 1 ELSE 0)

FaultInv == MapInv /\ WaitInv /\ CountInv

-----------------------------------------------------------------------------
(* The capability map can be read.                                         *)

LEMMA InitMap == Init => MapInv
<1> SUFFICES ASSUME Init PROVE MapInv
  OBVIOUS
<1>1. FlagInv /\ ReadInv
  BY DEF Init, FlagInv, ReadInv, Unflagging
<1> QED
  BY <1>1, InitHead DEF MapInv

LEMMA TargetMap ==
  ASSUME MapInv, NEW t \in Thread, NEW d \in Dd,
         PageFault(t, d) \/ \E v \in Val : Write(t, d, v)
  PROVE  FlagInv' /\ ReadInv'
BY DEF MapInv, FlagInv, ReadInv, Unflagging, PageFault, Write, pgVars, ckVars, CapMapDd

LEMMA RequestMap ==
  ASSUME MapInv, NEW t \in Thread, NEW u \in Thread, Ask(t, u) \/ Serve(t, u)
  PROVE  FlagInv' /\ ReadInv'
BY DEF MapInv, FlagInv, ReadInv, Unflagging, Ask, Serve, pgVars, ckVars

LEMMA PagerMap == MapInv /\ Pager => FlagInv' /\ ReadInv'
<1> SUFFICES ASSUME MapInv, Pager PROVE FlagInv' /\ ReadInv'
  OBVIOUS
<1>t. TypeOK
  BY DEF MapInv, HeadInv
<1> USE DEF MapInv, FlagInv, ReadInv, Unflagging, ckVars
<1>1. CASE PagerTake \/ PagerScanReady \/ PagerScanFound \/ PagerScanNull
           \/ PagerState \/ PagerAttach
  BY <1>1 DEF PagerTake, PagerScanReady, PagerScanFound, PagerScanNull,
     PagerState, PagerAttach, thVars
<1>2. CASE PagerAttachAt
  BY <1>2, <1>t DEF PagerAttachAt, MapAttach, TypeOK
<1>3. CASE PagerMark
  BY <1>3, <1>t DEF PagerMark, TypeOK
<1> QED
  BY <1>1, <1>2, <1>3 DEF Pager

LEMMA CheckpointerMap ==
  MapInv /\ (CkStart \/ CkResume \/ CheckpointerStep) => FlagInv' /\ ReadInv'
<1> SUFFICES ASSUME MapInv, CkStart \/ CkResume \/ CheckpointerStep
             PROVE  FlagInv' /\ ReadInv'
  OBVIOUS
<1>t. TypeOK
  BY DEF MapInv, HeadInv
<1> USE DEF MapInv, FlagInv, ReadInv, Unflagging, thVars, pgVars
<1>1. CASE CkStart \/ CkResume \/ CkPaused \/ CkMapRead \/ CkMapDetached
           \/ CkResolved \/ CkDetached \/ CkReturn \/ CkResumed
  BY <1>1 DEF CkStart, CkResume, CkPaused, CkMapRead, CkMapDetached, CkResolved,
     CkDetached, CkReturn, CkResumed
<1>2. ASSUME NEW t \in Thread, CkPause(t) \/ CkResumeThread(t)
      PROVE  FlagInv' /\ ReadInv'
  BY <1>2 DEF CkPause, CkResumeThread
<1>3. ASSUME NEW d \in Dd, CkMapMark(d) PROVE FlagInv' /\ ReadInv'
  BY <1>3 DEF CkMapMark
<1>4. CASE CkMapAttach
  BY <1>4 DEF CkMapAttach
<1>5. CASE CkMapAttachAt
  BY <1>5, <1>t DEF CkMapAttachAt, MapAttach, TypeOK
<1>6. CASE CkMapFlag
  BY <1>6, <1>t DEF CkMapFlag, TypeOK
<1>7. CASE CkMapMarked
  BY <1>7 DEF CkMapMarked
<1>8. ASSUME NEW d \in Dd, CkMapDetach(d) \/ CkDetach(d) PROVE FlagInv' /\ ReadInv'
  BY <1>8, <1>t DEF CkMapDetach, CkDetach, MapDetach, TypeOK
<1>9. CASE CkMapUnflag \/ CkUnflag
  BY <1>9, <1>t DEF CkMapUnflag, CkUnflag, TypeOK
<1>10. ASSUME NEW d \in Dd, CkStore(d) PROVE FlagInv' /\ ReadInv'
  BY <1>10 DEF CkStore
<1>11. ASSUME NEW r \in Ramds, CkResolve(r) PROVE FlagInv' /\ ReadInv'
  BY <1>11 DEF CkResolve
<1> QED
  BY <1>1, <1>2, <1>3, <1>4, <1>5, <1>6, <1>7, <1>8, <1>9, <1>10, <1>11
  DEF CheckpointerStep

LEMMA MapInvariant == Spec => []MapInv
<1>1. HeadInv /\ FlagInv /\ ReadInv /\ [Next]_vars => FlagInv' /\ ReadInv'
  <2> SUFFICES ASSUME MapInv, [Next]_vars PROVE FlagInv' /\ ReadInv'
    BY DEF MapInv
  <2>1. CASE \E t \in Thread, d \in Dd : PageFault(t, d) \/ \E v \in Val : Write(t, d, v)
    BY <2>1, TargetMap
  <2>2. CASE Pager
    BY <2>2, PagerMap
  <2>3. CASE CkStart \/ CkResume \/ CheckpointerStep
    BY <2>3, CheckpointerMap
  <2>5. CASE \E t, u \in Thread : Ask(t, u) \/ Serve(t, u)
    BY <2>5, RequestMap
  <2>4. CASE UNCHANGED vars
    BY <2>4 DEF MapInv, FlagInv, ReadInv, Unflagging, vars, pgVars, ckVars
  <2> QED
    BY <2>1, <2>2, <2>3, <2>4, <2>5 DEF Next
<1>2. Init => FlagInv /\ ReadInv
  BY InitMap DEF MapInv
<1>3. MapInv <=> HeadInv /\ FlagInv /\ ReadInv
  BY DEF MapInv
<1> QED
  BY <1>1, <1>2, <1>3, HeadInvariant, PTL DEF Spec

\* While the checkpointer reads the capability map through its own mapping
\* (_create_cap_map_infos), all of it is in the region map: neither the pager
\* nor the checkpointer takes a marked dataspace away.
THEOREM MapReadable == Spec => []CapMapReadable
<1>1. MapInv => CapMapReadable
  BY DEF MapInv, FlagInv, ReadInv, Unflagging, CapMapReadable, CapMapDd
<1> QED
  BY <1>1, MapInvariant, PTL

-----------------------------------------------------------------------------
(* Every fault is covered.                                                 *)

LEMMA FaultedAreDds == FaultedDds \subseteq Dd
BY DEF FaultedDds

\* attach_at wakes the threads that wait for d, and nobody else.
LEMMA Woken ==
  ASSUME TypeOK, NEW d \in Dd, MapAttach(d)
  PROVE  FaultedDds' = FaultedDds \ {d} /\ (d \notin FaultedDds => fault' = fault)
<1>1. \A t \in Thread : fault'[t] = IF fault[t] = d THEN NoDd ELSE fault[t]
  BY DEF MapAttach
<1>2. FaultedDds' = FaultedDds \ {d}
  BY <1>1, NoDdAssumption DEF FaultedDds
<1>3. ASSUME d \notin FaultedDds PROVE fault' = fault
  <2>1. \A t \in Thread : fault[t] # d
    BY <1>3 DEF FaultedDds
  <2> QED
    BY <2>1 DEF MapAttach, TypeOK
<1> QED
  BY <1>2, <1>3

\* ... so that one signal less is needed if d was waited for.
LEMMA WokenCount ==
  ASSUME TypeOK, IsFiniteSet(FaultedDds), NEW d \in Dd, MapAttach(d)
  PROVE  /\ IsFiniteSet(FaultedDds') /\ Cardinality(FaultedDds) \in Nat
         /\ Cardinality(FaultedDds') = IF d \in FaultedDds THEN Cardinality(FaultedDds) - 1
                                      ELSE Cardinality(FaultedDds)
BY Woken, FS_RemoveElement, FS_CardinalityType

LEMMA InitFault == Init => FaultInv
<1> SUFFICES ASSUME Init PROVE FaultInv
  OBVIOUS
<1>1. FaultedDds = {}
  BY NoDdAssumption DEF Init, FaultedDds
<1>2. IsFiniteSet(FaultedDds) /\ Cardinality(FaultedDds) = 0
  BY <1>1, FS_EmptySet
<1>3. WaitInv /\ CountInv
  BY <1>1, <1>2 DEF Init, WaitInv, CountInv, OnFault, Unflagging
<1> QED
  BY <1>3, InitMap DEF FaultInv

LEMMA TargetFault ==
  ASSUME FaultInv, NEW t \in Thread, NEW d \in Dd,
         PageFault(t, d) \/ \E v \in Val : Write(t, d, v)
  PROVE  WaitInv' /\ CountInv'
<1>t. TypeOK
  BY DEF FaultInv, MapInv, HeadInv
<1>1. CASE PageFault(t, d)
  <2>1. ~lost' => ~lost /\ ~(Unflagging /\ ckDd = d)
    BY <1>1 DEF PageFault
  <2>2. WaitInv'
    <3>1. \A u \in Thread : fault'[u] = IF u = t THEN d ELSE fault[u]
      BY <1>1, <1>t DEF PageFault, TypeOK
    <3>2. \A u \in Thread : fault'[u] # NoDd => ~inMap'[fault'[u]]
      BY <1>1, <3>1 DEF FaultInv, WaitInv, PageFault
    <3>3. UNCHANGED <<ckPc, ckDd>>
      BY <1>1 DEF PageFault, ckVars
    <3>4. ASSUME Unflagging', ~lost' PROVE ckDd' \notin FaultedDds'
      BY <2>1, <3>1, <3>3, <3>4 DEF FaultInv, WaitInv, Unflagging, FaultedDds
    <3> QED BY <3>2, <3>4 DEF WaitInv
  <2>3. FaultedDds' = FaultedDds \cup {d}
    BY <1>1, <1>t, NoDdAssumption DEF PageFault, Running, FaultedDds, TypeOK
  <2>4. /\ IsFiniteSet(FaultedDds') /\ Cardinality(FaultedDds) \in Nat
        /\ Cardinality(FaultedDds') \in Nat
        /\ Cardinality(FaultedDds') <= Cardinality(FaultedDds) + 1
    <3>1. IsFiniteSet(FaultedDds)
      BY DEF FaultInv, CountInv
    <3>2. Cardinality(FaultedDds) \in Nat
      BY <3>1, FS_CardinalityType
    <3>3. /\ IsFiniteSet(FaultedDds \cup {d})
          /\ Cardinality(FaultedDds \cup {d}) =
               IF d \in FaultedDds THEN Cardinality(FaultedDds)
               ELSE Cardinality(FaultedDds) + 1
      BY <3>1, FS_AddElement
    <3> QED
      BY <2>3, <3>2, <3>3
  <2>5. OnFault => OnFault'
    <3>1. Faulters(pgCur) # {} => Faulters(pgCur)' # {}
      BY <1>1, <1>t, NoDdAssumption DEF PageFault, Running, Faulters, DdsOf, TypeOK, pgVars
    <3> QED
      BY <1>1, <2>3, <3>1 DEF OnFault, PageFault, pgVars
  <2>6. signals \in Nat /\ signals' = signals + 1 /\ pgPc' = pgPc
    BY <1>1, <1>t DEF PageFault, TypeOK, pgVars
  <2>7. CountInv'
    <3>1. CASE OnFault
      BY <2>1, <2>4, <2>5, <2>6, <3>1 DEF FaultInv, CountInv
    <3>2. CASE ~OnFault
      BY <2>1, <2>4, <2>6, <3>2 DEF FaultInv, CountInv
    <3> QED
      BY <3>1, <3>2
  <2> QED
    BY <2>2, <2>7
<1>2. ASSUME NEW v \in Val, Write(t, d, v) PROVE WaitInv' /\ CountInv'
  BY <1>2 DEF FaultInv, WaitInv, CountInv, OnFault, FaultedDds, Faulters, Unflagging,
     Write, thVars, pgVars
<1> QED
  BY <1>1, <1>2

LEMMA RequestFault ==
  ASSUME FaultInv, NEW t \in Thread, NEW u \in Thread, Ask(t, u) \/ Serve(t, u)
  PROVE  WaitInv' /\ CountInv'
BY DEF FaultInv, WaitInv, CountInv, OnFault, FaultedDds, Faulters, Unflagging,
   Ask, Serve, pgVars, ckVars

LEMMA PagerFault == FaultInv /\ Pager => WaitInv' /\ CountInv'
<1> SUFFICES ASSUME FaultInv, Pager PROVE WaitInv' /\ CountInv'
  OBVIOUS
<1>t. TypeOK /\ signals \in Nat
  BY DEF FaultInv, MapInv, HeadInv, TypeOK
<1>c. IsFiniteSet(FaultedDds) /\ Cardinality(FaultedDds) \in Nat
  BY FS_CardinalityType DEF FaultInv, CountInv
<1>l. lost' = lost
  BY DEF Pager, PagerTake, PagerScanReady, PagerScanFound, PagerScanNull, PagerState,
     PagerAttach, PagerAttachAt, PagerMark, thVars
<1>1. ASSUME PagerTake \/ PagerScanReady \/ PagerScanFound \/ PagerScanNull
             \/ PagerState \/ PagerAttach \/ PagerMark
      PROVE  fault' = fault /\ FaultedDds' = FaultedDds /\ inMap' = inMap
             /\ UNCHANGED <<ckPc, ckDd>>
  BY <1>1 DEF PagerTake, PagerScanReady, PagerScanFound, PagerScanNull, PagerState,
     PagerAttach, PagerMark, FaultedDds, thVars, ckVars
<1>2. ASSUME fault' = fault, FaultedDds' = FaultedDds, inMap' = inMap,
             UNCHANGED <<ckPc, ckDd>>
      PROVE  WaitInv'
  BY <1>2, <1>l DEF FaultInv, WaitInv, Unflagging, FaultedDds
<1>3. CASE PagerTake
  <2>1. (~lost => Cardinality(FaultedDds) <= signals' + 1) /\ OnFault'
    BY <1>3, <1>t, <1>c DEF PagerTake, FaultInv, CountInv, OnFault
  <2> QED
    BY <1>1, <1>2, <1>3, <1>c, <1>l, <2>1 DEF CountInv
<1>4. CASE PagerScanReady \/ PagerScanFound
  <2>1. OnFault' /\ OnFault /\ signals' = signals /\ pgPc = "scan"
    BY <1>1, <1>4 DEF PagerScanReady, PagerScanFound, OnFault, thVars, Faulters
  <2> QED
    BY <1>1, <1>2, <1>4, <1>c, <1>l, <2>1 DEF FaultInv, CountInv
<1>5. CASE PagerScanNull
  BY <1>1, <1>2, <1>5, <1>c, <1>l DEF PagerScanNull, CountInv
<1>6. CASE PagerState
  <2>1. Faulters(pgCur) # {} => OnFault'
    <3> SUFFICES ASSUME Faulters(pgCur) # {} PROVE pgDd' \in FaultedDds
      BY <1>1, <1>6 DEF PagerState, OnFault
    <3>1. FaultingDd(pgCur) = {fault[t] : t \in Faulters(pgCur)}
      BY DEF FaultingDd
    <3>2. \A t \in Faulters(pgCur) : fault[t] \in FaultedDds
      BY DEF Faulters, FaultedDds, DdsOf
    <3> QED
      BY <1>6, <3>1, <3>2 DEF PagerState
  <2>2. signals' = signals /\ pgPc = "state" /\ (OnFault <=> Faulters(pgCur) # {})
    BY <1>6 DEF PagerState, OnFault, thVars
  <2> QED
    BY <1>1, <1>2, <1>6, <1>t, <1>c, <1>l, <2>1, <2>2 DEF FaultInv, CountInv
<1>7. CASE PagerAttach
  \* A flag that is set means nobody waits for the dataspace.
  <2>1. ~lost /\ attached[pgDd] => pgDd \notin FaultedDds
    <3> SUFFICES ASSUME ~lost, attached[pgDd], pgDd \in FaultedDds PROVE FALSE
      OBVIOUS
    <3>1. pgDd \in Dd /\ ~inMap[pgDd]
      BY NoDdAssumption DEF FaultedDds, FaultInv, WaitInv
    <3>2. Unflagging /\ ckDd = pgDd
      BY <3>1 DEF FaultInv, MapInv, FlagInv
    <3> QED
      BY <3>2 DEF FaultInv, WaitInv
  <2>2. /\ signals' = signals /\ pgPc = "attach"
        /\ pgPc' = IF attached[pgDd] THEN "wait" ELSE "attach_at"
        /\ ~attached[pgDd] => pgDd' = pgDd
    BY <1>7 DEF PagerAttach, thVars
  <2>3. ~lost /\ OnFault => OnFault'
    BY <1>1, <1>7, <2>1, <2>2 DEF OnFault
  <2> QED
    BY <1>1, <1>2, <1>7, <1>t, <1>c, <1>l, <2>2, <2>3 DEF FaultInv, CountInv
<1>8. CASE PagerAttachAt
  <2>1. CASE inMap[pgDd]
    BY <2>1, <1>8, <1>c, <1>l DEF PagerAttachAt, FaultInv, WaitInv, CountInv, FaultedDds,
       Unflagging, ckVars
  <2>2. CASE ~inMap[pgDd]
    <3>1. pgDd \in Dd /\ MapAttach(pgDd) /\ pgPc' = "mark" /\ signals' = signals
          /\ pgPc = "attach_at" /\ UNCHANGED <<ckPc, ckDd>>
      BY <1>8, <1>t, <2>2 DEF PagerAttachAt, TypeOK, ckVars
    <3>2. WaitInv'
      BY <3>1, <1>t, <1>l, Woken DEF FaultInv, WaitInv, MapAttach, Unflagging, TypeOK
    <3>3. (~lost => Cardinality(FaultedDds') <= signals) /\ IsFiniteSet(FaultedDds')
      BY <3>1, <1>t, <1>c, WokenCount DEF FaultInv, CountInv, OnFault
    <3>4. Cardinality(FaultedDds') \in Nat
      BY <3>3, FS_CardinalityType
    <3> QED
      BY <1>t, <1>l, <3>1, <3>2, <3>3, <3>4 DEF CountInv
  <2> QED
    BY <2>1, <2>2
<1>9. CASE PagerMark
  BY <1>1, <1>2, <1>9, <1>t, <1>c, <1>l DEF PagerMark, FaultInv, CountInv, OnFault, thVars
<1> QED
  BY <1>3, <1>4, <1>5, <1>6, <1>7, <1>8, <1>9 DEF Pager

LEMMA CheckpointerFault ==
  FaultInv /\ (CkStart \/ CkResume \/ CheckpointerStep) => WaitInv' /\ CountInv'
<1> SUFFICES ASSUME FaultInv, CkStart \/ CkResume \/ CheckpointerStep
             PROVE  WaitInv' /\ CountInv'
  OBVIOUS
<1>t. TypeOK /\ signals \in Nat
  BY DEF FaultInv, MapInv, HeadInv, TypeOK
<1>c. IsFiniteSet(FaultedDds) /\ Cardinality(FaultedDds) \in Nat
  BY FS_CardinalityType DEF FaultInv, CountInv
<1>l. lost' = lost
  BY DEF CheckpointerStep, CkStart, CkResume, CkPause, CkResumeThread, CkPaused,
     CkMapAttach, CkMapAttachAt, CkMapFlag, CkMapMarked, CkMapRead, CkMapUnflag,
     CkMapDetached, CkResolved, CkUnflag, CkDetached, CkReturn, CkResumed,
     CkMapMark, CkMapDetach, CkDetach, CkStore, CkResolve, thVars
<1>1. ASSUME UNCHANGED <<fault, signals, pgVars>> PROVE CountInv'
  BY <1>1, <1>l DEF FaultInv, CountInv, OnFault, FaultedDds, Faulters, pgVars
<1>2. ASSUME UNCHANGED <<fault, inMap>>, ~Unflagging' PROVE WaitInv'
  BY <1>2 DEF FaultInv, WaitInv
<1>3. CASE CkStart \/ CkResume \/ CkPaused \/ CkMapAttach \/ CkMapFlag \/ CkMapMarked
           \/ CkMapRead \/ CkMapUnflag \/ CkMapDetached \/ CkResolved \/ CkUnflag
           \/ CkDetached \/ CkReturn \/ CkResumed
  <2>1. UNCHANGED <<fault, inMap, signals, pgVars>> /\ ~Unflagging'
    BY <1>3 DEF CkStart, CkResume, CkPaused, CkMapAttach, CkMapFlag, CkMapMarked,
       CkMapRead, CkMapUnflag, CkMapDetached, CkResolved, CkUnflag, CkDetached,
       CkReturn, CkResumed, Unflagging, thVars
  <2> QED
    BY <1>1, <1>2, <2>1
<1>4. ASSUME NEW t \in Thread, CkPause(t) \/ CkResumeThread(t) PROVE WaitInv' /\ CountInv'
  <2>1. UNCHANGED <<fault, inMap, signals, pgVars>> /\ ~Unflagging'
    BY <1>4 DEF CkPause, CkResumeThread, Unflagging
  <2> QED
    BY <1>1, <1>2, <2>1
<1>5. ASSUME NEW d \in Dd, CkMapMark(d) \/ CkStore(d) PROVE WaitInv' /\ CountInv'
  <2>1. UNCHANGED <<fault, inMap, signals, pgVars>> /\ ~Unflagging'
    BY <1>5 DEF CkMapMark, CkStore, Unflagging, thVars
  <2> QED
    BY <1>1, <1>2, <2>1
<1>6. ASSUME NEW r \in Ramds, CkResolve(r) PROVE WaitInv' /\ CountInv'
  <2>1. UNCHANGED <<fault, inMap, signals, pgVars>> /\ ~Unflagging'
    BY <1>6 DEF CkResolve, Unflagging, thVars
  <2> QED
    BY <1>1, <1>2, <2>1
\* What is detached was in the region map, so nobody waits for it.
<1>7. ASSUME NEW d \in Dd, CkMapDetach(d) \/ CkDetach(d) PROVE WaitInv' /\ CountInv'
  <2>1. UNCHANGED <<fault, signals, pgVars>> /\ ckPc \in {"map_detach", "detach"}
    BY <1>7 DEF CkMapDetach, CkDetach, thVars
  <2>2. CASE attached[d]
    <3>1. inMap[d]
      BY <2>1, <2>2 DEF FaultInv, MapInv, FlagInv, Unflagging
    <3>2. \A t \in Thread : fault[t] # d
      BY <3>1, NoDdAssumption DEF FaultInv, WaitInv
    <3>3. ckDd' = d /\ inMap' = [inMap EXCEPT ![d] = FALSE]
      BY <1>7, <2>2 DEF CkMapDetach, CkDetach, MapDetach
    <3>4. WaitInv'
      BY <1>t, <2>1, <3>2, <3>3 DEF FaultInv, WaitInv, FaultedDds, TypeOK
    <3> QED
      BY <1>1, <2>1, <3>4
  <2>3. CASE ~attached[d]
    <3>1. UNCHANGED inMap /\ ~Unflagging'
      BY <1>7, <2>1, <2>3 DEF CkMapDetach, CkDetach, Unflagging
    <3> QED
      BY <1>1, <1>2, <2>1, <3>1
  <2> QED
    BY <2>2, <2>3
<1>8. CASE CkMapAttachAt
  <2>1. CASE inMap[ckDd]
    <3>1. UNCHANGED <<fault, inMap, signals, pgVars>> /\ ~Unflagging'
      BY <1>8, <2>1 DEF CkMapAttachAt, Unflagging
    <3> QED
      BY <1>1, <1>2, <3>1
  <2>2. CASE ~inMap[ckDd]
    <3>1. ckDd \in Dd /\ MapAttach(ckDd) /\ ~Unflagging' /\ UNCHANGED <<signals, pgVars>>
      BY <1>8, <1>t, <2>2 DEF CkMapAttachAt, Unflagging, TypeOK
    <3>2. WaitInv'
      BY <3>1, <1>t DEF FaultInv, WaitInv, MapAttach, TypeOK
    <3>3. CASE ckDd \in FaultedDds
      <4>1. ~lost /\ pgPc # "dead" => Cardinality(FaultedDds') <= signals
        BY <1>t, <1>c, <3>1, <3>3, WokenCount DEF FaultInv, CountInv
      <4>2. IsFiniteSet(FaultedDds') /\ Cardinality(FaultedDds') \in Nat
        BY <1>t, <1>c, <3>1, WokenCount, FS_CardinalityType
      <4> QED
        BY <1>t, <1>l, <3>1, <3>2, <4>1, <4>2 DEF CountInv, pgVars
    <3>4. CASE ckDd \notin FaultedDds
      BY <1>1, <1>t, <3>1, <3>2, <3>4, Woken
    <3> QED
      BY <3>3, <3>4
  <2> QED
    BY <2>1, <2>2
<1> QED
  BY <1>3, <1>4, <1>5, <1>6, <1>7, <1>8 DEF CheckpointerStep

LEMMA FaultInvariant == Spec => []FaultInv
<1>1. MapInv /\ WaitInv /\ CountInv /\ [Next]_vars => WaitInv' /\ CountInv'
  <2> SUFFICES ASSUME FaultInv, [Next]_vars PROVE WaitInv' /\ CountInv'
    BY DEF FaultInv
  <2>1. CASE \E t \in Thread, d \in Dd : PageFault(t, d) \/ \E v \in Val : Write(t, d, v)
    BY <2>1, TargetFault
  <2>2. CASE Pager
    BY <2>2, PagerFault
  <2>3. CASE CkStart \/ CkResume \/ CheckpointerStep
    BY <2>3, CheckpointerFault
  <2>5. CASE \E t, u \in Thread : Ask(t, u) \/ Serve(t, u)
    BY <2>5, RequestFault
  <2>4. CASE UNCHANGED vars
    BY <2>4 DEF FaultInv, WaitInv, CountInv, OnFault, FaultedDds, Faulters, Unflagging,
       vars, thVars, pgVars, ckVars
  <2> QED
    BY <2>1, <2>2, <2>3, <2>4, <2>5 DEF Next
<1>2. Init => WaitInv /\ CountInv
  BY InitFault DEF FaultInv
<1>3. FaultInv <=> MapInv /\ WaitInv /\ CountInv
  BY DEF FaultInv
<1> QED
  BY <1>1, <1>2, <1>3, MapInvariant, PTL DEF Spec

\* No fault is left without a signal or a round of the pager to handle it,
\* although the handler counts signals instead of telling them apart and the
\* checkpointer attaches and detaches meanwhile.
THEOREM FaultsCovered == Spec => []FaultCovered
<1>1. FaultInv => FaultCovered
  <2> SUFFICES ASSUME FaultInv, ~lost, pgPc # "dead"
               PROVE  Cardinality(FaultedDds) <= signals + (IF pgPc \in PagerBusy THEN 1 ELSE 0)
    BY DEF FaultCovered
  <2>1. signals \in Nat /\ Cardinality(FaultedDds) \in Nat
    BY FS_CardinalityType DEF FaultInv, MapInv, HeadInv, TypeOK, CountInv
  <2>2. OnFault => pgPc \in PagerBusy
    BY DEF OnFault, PagerBusy
  <2> QED
    BY <2>1, <2>2 DEF FaultInv, CountInv
<1> QED
  BY <1>1, FaultInvariant, PTL

=============================================================================
