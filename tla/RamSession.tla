----------------------------- MODULE RamSession -----------------------------
(***************************************************************************)
(* Managed dataspaces of one RAM session that come and go: alloc() and     *)
(* free() of Ram_session_component, served by the resources entrypoint,    *)
(* against the thread "managed dataspace pager" (both in                   *)
(* src/src/rtcr/intercept/ram_session.cc).  The pager walks ram_dataspaces *)
(* without ram_dataspaces_lock; what keeps it apart from free() is that    *)
(* dissolving a signal context waits until nobody holds a signal of it.    *)
(*                                                                         *)
(* The races of pager and checkpointer about one designated dataspace are  *)
(* the subject of IncCheckpoint, and so is what a thread does that a late  *)
(* request sets running during a checkpoint.  Here attaching is one step,  *)
(* and so is a checkpoint, which detaches everything.                      *)
(***************************************************************************)
EXTENDS Integers, Sequences, FiniteSets, SequencesExt

CONSTANTS
  Thread,         \* threads of the target
  Page,           \* bytes of a page
  Granularity,    \* pages of a designated dataspace
  Sizes,          \* sizes the target asks for, in bytes
  Quota,          \* bytes the parent's RAM session can give
  MaxMaps,        \* bound on the region maps core creates
  MaxCheckpoints  \* bound on the checkpoints

Map == 1 .. MaxMaps  \* region maps in the order core creates them, never destroyed
NoMap == 0
NoFault == [map |-> NoMap, addr |-> 0]

ASSUME SizeAssumption == Page \in Nat \ {0} /\ Granularity \in Nat \ {0}
                         /\ Sizes \subseteq Nat \ {0} /\ Quota \in Nat
ASSUME MapsAssumption == MaxMaps \in Nat /\ MaxCheckpoints \in Nat

VARIABLES
  list,      \* ram_dataspaces, head first, as the region maps of the infos
  size,      \* size[m]: what the target asked for
  dds,       \* dds[m]: dd_infos, head first
  away,      \* away[m]: addresses at which a designated dataspace is detached
  used,      \* bytes the parent's RAM session has given
  made,      \* region maps created so far
  fault,     \* fault[t]: the access thread t waits for, or NoFault
  pending,   \* pending[m]: signals of m's context nobody has received
  epPc,      \* where the entrypoint is
  epMap,     \* region map of the request it serves
  pgPc,      \* where the pager is
  pgCtx,     \* context whose signal it holds
  pgNum,     \* rounds left of "i < signal.num()", with the present one
  pgLeft,    \* elements from the one it looks at to the end of the list
  pgMap,     \* region map it found in a fault
  pgAddr,    \* fault address it was told
  checks,    \* checkpoints so far
  abandoned, \* history: region maps of an alloc() that failed half way
  doubled,   \* history: two threads have waited for one designated dataspace
  freedEarly \* history: something was freed while a thread waited

ramVars == <<list, size, dds, used, made>>
epVars == <<epPc, epMap, abandoned>>
pgVars == <<pgPc, pgCtx, pgNum, pgLeft, pgMap, pgAddr>>
faultVars == <<fault, pending, away>>
vars == <<ramVars, epVars, pgVars, faultVars, checks, doubled, freedEarly>>

Init ==
  /\ list = <<>> /\ used = 0 /\ made = 0
  /\ size = [m \in Map |-> 0] /\ dds = [m \in Map |-> <<>>]
  /\ away = [m \in Map |-> {}] /\ pending = [m \in Map |-> 0]
  /\ fault = [t \in Thread |-> NoFault]
  /\ epPc = "idle" /\ epMap = NoMap /\ abandoned = {}
  /\ pgPc = "wait" /\ pgCtx = NoMap /\ pgNum = 0 /\ pgLeft = 0
  /\ pgMap = NoMap /\ pgAddr = 0
  /\ checks = 0 /\ doubled = FALSE /\ freedEarly = FALSE

-----------------------------------------------------------------------------
(* Designated dataspaces.                                                  *)

DsSize == Page * Granularity
NumDataspaces(s) == s \div DsSize
RemainingSize(s) == (((s % DsSize) + Page - 1) \div Page) * Page
NumParts(s) == NumDataspaces(s) + (IF RemainingSize(s) # 0 THEN 1 ELSE 0)

\* The i-th designated dataspace, counted from 0, of a dataspace of s bytes.
Part(s, i) ==
  [addr |-> DsSize * i,
   size |-> IF i < NumDataspaces(s) THEN DsSize ELSE RemainingSize(s)]

\* find_by_addr: the upper end is included; 0 if nothing is found.
FindByAddr(infos, x) ==
  SelectInSeq(infos, LAMBDA d : d.addr <= x /\ x <= d.addr + d.size)

\* What core finds at address x.
Holds(d, x) == d.addr <= x /\ x < d.addr + d.size

Faulters(m) == {t \in Thread : fault[t].map = m}
Waiting(m, d) == {t \in Faulters(m) : Holds(d, fault[t].addr)}

-----------------------------------------------------------------------------
(* Threads of the target, and a checkpoint.                                *)

\* A thread touches a dataspace it has.  If the part is detached, it blocks and
\* core submits a signal to the context of the region map.
Touch(t, m, x) ==
  /\ fault[t] = NoFault
  /\ m \in ToSet(list) /\ x < size[m]
  /\ \E d \in ToSet(dds[m]) :
       /\ Holds(d, x) /\ d.addr \in away[m]
       /\ doubled' = (doubled \/ Waiting(m, d) # {})
  /\ fault' = [fault EXCEPT ![t] = [map |-> m, addr |-> x]]
  /\ pending' = [pending EXCEPT ![m] = @ + 1]
  /\ UNCHANGED <<ramVars, epVars, pgVars, away, checks, freedEarly>>

\* _detach_designated_dataspaces of everything in the list.
Checkpoint ==
  /\ checks < MaxCheckpoints
  /\ checks' = checks + 1
  /\ away' = [m \in Map |-> IF m \in ToSet(list) THEN {d.addr : d \in ToSet(dds[m])}
                            ELSE away[m]]
  /\ UNCHANGED <<ramVars, epVars, pgVars, fault, pending, doubled, freedEarly>>

-----------------------------------------------------------------------------
(* Ram_session_component::alloc, with a granularity.                       *)

AllocStart(s) ==
  /\ epPc = "idle" /\ made < MaxMaps
  /\ made' = made + 1
  /\ size' = [size EXCEPT ![made + 1] = s]
  /\ epPc' = "alloc" /\ epMap' = made + 1
  /\ UNCHANGED <<list, dds, used, abandoned, pgVars, faultVars, checks, doubled, freedEarly>>

NextPart == Part(size[epMap], Len(dds[epMap]))
Incomplete == Len(dds[epMap]) < NumParts(size[epMap])

\* Slip: new elements go to the end of the list.
AllocPartTail ==
  /\ epPc = "alloc" /\ Incomplete
  /\ used + NextPart.size <= Quota
  /\ used' = used + NextPart.size
  /\ dds' = [dds EXCEPT ![epMap] = Append(@, NextPart)]
  /\ UNCHANGED <<list, size, made, epVars, pgVars, faultVars, checks, doubled, freedEarly>>

\* One designated dataspace, attached and at the head of dd_infos.
AllocPart ==
  /\ epPc = "alloc" /\ Incomplete
  /\ used + NextPart.size <= Quota
  /\ used' = used + NextPart.size
  /\ dds' = [dds EXCEPT ![epMap] = Cons(NextPart, @)]
  /\ UNCHANGED <<list, size, made, epVars, pgVars, faultVars, checks, doubled, freedEarly>>

\* Quota_exceeded: alloc() returns an invalid capability and leaves behind what
\* it has so far.
AllocFails ==
  /\ epPc = "alloc" /\ Incomplete
  /\ used + NextPart.size > Quota
  /\ abandoned' = abandoned \cup {epMap}
  /\ epPc' = "idle" /\ epMap' = NoMap
  /\ UNCHANGED <<ramVars, pgVars, faultVars, checks, doubled, freedEarly>>

AllocInsert ==
  /\ epPc = "alloc" /\ ~Incomplete
  /\ list' = Cons(epMap, list)
  /\ epPc' = "idle" /\ epMap' = NoMap
  /\ UNCHANGED <<size, dds, used, made, abandoned, pgVars, faultVars, checks,
                 doubled, freedEarly>>

-----------------------------------------------------------------------------
(* Ram_session_component::free and _destroy_ramds_info.                    *)

\* The place of the element the pager looks at.
Cursor == Len(list) - pgLeft + 1

\* Slip: the walk does not notice that an element ahead is gone.
FreeStartStale(i) ==
  /\ epPc = "idle" /\ i \in DOMAIN list
  /\ epPc' = "dissolve" /\ epMap' = list[i]
  /\ list' = RemoveAt(list, i)
  /\ freedEarly' = (freedEarly \/ \E t \in Thread : fault[t] # NoFault)
  /\ UNCHANGED <<size, dds, used, made, abandoned, pgVars, faultVars, checks, doubled>>

\* The info leaves the list.  If the pager stands on it, what it reads next is
\* undefined.
FreeStart(i) ==
  /\ epPc = "idle" /\ i \in DOMAIN list
  /\ epPc' = "dissolve" /\ epMap' = list[i]
  /\ list' = RemoveAt(list, i)
  /\ IF pgPc = "scan" /\ pgLeft > 0
       THEN /\ pgPc' = IF i = Cursor THEN "dead" ELSE pgPc
            /\ pgLeft' = IF i >= Cursor THEN pgLeft - 1 ELSE pgLeft
       ELSE UNCHANGED <<pgPc, pgLeft>>
  /\ freedEarly' = (freedEarly \/ \E t \in Thread : fault[t] # NoFault)
  /\ UNCHANGED <<size, dds, used, made, abandoned, pgCtx, pgNum, pgMap, pgAddr,
                 faultVars, checks, doubled>>

\* Signal_receiver::dissolve (external) returns when nobody holds a signal of
\* the context any more; signals not yet received are dropped.
FreeDissolve ==
  /\ epPc = "dissolve" /\ pgCtx # epMap
  /\ pending' = [pending EXCEPT ![epMap] = 0]
  /\ epPc' = "destroy"
  /\ UNCHANGED <<ramVars, epMap, abandoned, pgVars, fault, away, checks, doubled, freedEarly>>

Given(infos) ==
  LET sum[n \in 0 .. Len(infos)] == IF n = 0 THEN 0 ELSE sum[n - 1] + infos[n].size
  IN  sum[Len(infos)]

\* Slip: only the first designated dataspace is destroyed.
FreeDestroyFirst ==
  /\ epPc = "destroy"
  /\ used' = used - Head(dds[epMap]).size
  /\ dds' = [dds EXCEPT ![epMap] = Tail(@)]
  /\ away' = [away EXCEPT ![epMap] = {}]
  /\ epPc' = "idle" /\ epMap' = NoMap
  /\ pgPc' = IF pgPc \in {"state", "attach"} /\ pgMap = epMap THEN "dead" ELSE pgPc
  /\ UNCHANGED <<list, size, made, abandoned, pgCtx, pgNum, pgLeft, pgMap, pgAddr,
                 fault, pending, checks, doubled, freedEarly>>

\* Every designated dataspace goes back to the parent.  The region map stays:
\* its dataspace is handed to the RAM session, which does not own it.  A pager
\* that came here with another context's signal reads what is destroyed.
FreeDestroy ==
  /\ epPc = "destroy"
  /\ used' = used - Given(dds[epMap])
  /\ dds' = [dds EXCEPT ![epMap] = <<>>]
  /\ away' = [away EXCEPT ![epMap] = {}]
  /\ epPc' = "idle" /\ epMap' = NoMap
  /\ pgPc' = IF pgPc \in {"state", "attach"} /\ pgMap = epMap THEN "dead" ELSE pgPc
  /\ UNCHANGED <<list, size, made, abandoned, pgCtx, pgNum, pgLeft, pgMap, pgAddr,
                 fault, pending, checks, doubled, freedEarly>>

\* The rest of a request the entrypoint has begun.
EntrypointStep == AllocPart \/ AllocFails \/ AllocInsert \/ FreeDissolve \/ FreeDestroy

-----------------------------------------------------------------------------
(* Fault_handler.                                                          *)

epUnchanged == UNCHANGED <<ramVars, epVars, checks, doubled, freedEarly>>

\* Slip: one round, however many signals were merged.
PagerTakeOnce(m) ==
  /\ pgPc = "wait" /\ pending[m] > 0
  /\ pgCtx' = m /\ pgNum' = 1
  /\ pending' = [pending EXCEPT ![m] = 0]
  /\ pgPc' = "scan" /\ pgLeft' = Len(list)
  /\ UNCHANGED <<pgMap, pgAddr, fault, away>> /\ epUnchanged

\* Slip: one round too many ("i <= signal.num()").
PagerTakeMore(m) ==
  /\ pgPc = "wait" /\ pending[m] > 0
  /\ pgCtx' = m /\ pgNum' = pending[m] + 1
  /\ pending' = [pending EXCEPT ![m] = 0]
  /\ pgPc' = "scan" /\ pgLeft' = Len(list)
  /\ UNCHANGED <<pgMap, pgAddr, fault, away>> /\ epUnchanged

\* wait_for_signal: the signals of one context come as one, with their number.
PagerTake(m) ==
  /\ pgPc = "wait" /\ pending[m] > 0
  /\ pgCtx' = m /\ pgNum' = pending[m]
  /\ pending' = [pending EXCEPT ![m] = 0]
  /\ pgPc' = "scan" /\ pgLeft' = Len(list)
  /\ UNCHANGED <<pgMap, pgAddr, fault, away>> /\ epUnchanged

\* _find_faulting_mrm_info.
PagerScan ==
  /\ pgPc = "scan" /\ pgLeft > 0
  /\ IF Faulters(list[Cursor]) = {}
       THEN pgLeft' = pgLeft - 1 /\ UNCHANGED <<pgPc, pgMap>>
       ELSE pgPc' = "state" /\ pgMap' = list[Cursor] /\ pgLeft' = 0
  /\ UNCHANGED <<pgCtx, pgNum, pgAddr, faultVars>> /\ epUnchanged

\* _handle_fault dereferences a null pointer.
PagerScanNull ==
  /\ pgPc = "scan" /\ pgLeft = 0
  /\ pgPc' = "dead"
  /\ UNCHANGED <<pgCtx, pgNum, pgLeft, pgMap, pgAddr, faultVars>> /\ epUnchanged

\* The second state() call: core tells one of the fault addresses.
PagerState ==
  /\ pgPc = "state"
  /\ \E t \in Faulters(pgMap) : pgAddr' = fault[t].addr
  /\ pgPc' = "attach"
  /\ UNCHANGED <<pgCtx, pgNum, pgLeft, pgMap, faultVars>> /\ epUnchanged

\* attach_at wakes whoever waits for what is attached.
Attach(m, d) ==
  /\ away' = [away EXCEPT ![m] = @ \ {d.addr}]
  /\ fault' = [t \in Thread |-> IF t \in Waiting(m, d) THEN NoFault ELSE fault[t]]

\* Slip: the signal is kept until the next one arrives.
RoundEndsHolding ==
  /\ pgNum' = pgNum - 1 /\ pgMap' = NoMap /\ pgAddr' = 0
  /\ UNCHANGED pgCtx
  /\ IF pgNum > 1
       THEN pgPc' = "scan" /\ pgLeft' = Len(list)
       ELSE pgPc' = "wait" /\ pgLeft' = 0

\* The next round, or the signal is given up and the next one waited for.
RoundEnds ==
  /\ pgNum' = pgNum - 1 /\ pgMap' = NoMap /\ pgAddr' = 0
  /\ IF pgNum > 1
       THEN pgPc' = "scan" /\ pgLeft' = Len(list) /\ UNCHANGED pgCtx
       ELSE pgPc' = "wait" /\ pgLeft' = 0 /\ pgCtx' = NoMap

\* find_by_addr and attach(), which both do nothing but warn if there is
\* nothing to attach.
PagerAttach ==
  /\ pgPc = "attach"
  /\ LET i == FindByAddr(dds[pgMap], pgAddr)
     IN  IF i # 0 /\ dds[pgMap][i].addr \in away[pgMap]
           THEN Attach(pgMap, dds[pgMap][i])
           ELSE UNCHANGED <<away, fault>>
  /\ RoundEnds
  /\ UNCHANGED pending /\ epUnchanged

Pager ==
  \/ \E m \in Map : PagerTake(m)
  \/ PagerScan \/ PagerScanNull \/ PagerState \/ PagerAttach

Next ==
  \/ \E t \in Thread, m \in ToSet(list) : \E x \in 0 .. size[m] - 1 : Touch(t, m, x)
  \/ Checkpoint
  \/ \E s \in Sizes : AllocStart(s)
  \/ \E i \in DOMAIN list : FreeStart(i)
  \/ EntrypointStep \/ Pager

\* Pager and entrypoint are threads that nothing pauses; the target and the
\* caller of checkpoint() owe nothing.
Spec == Init /\ [][Next]_vars /\ WF_vars(Pager) /\ WF_vars(EntrypointStep)

-----------------------------------------------------------------------------
(* Properties.                                                             *)

TypeOK ==
  /\ ToSet(list) \subseteq 1 .. made /\ made \in 0 .. MaxMaps
  /\ \A i, j \in DOMAIN list : i # j => list[i] # list[j]
  /\ size \in [Map -> Sizes \cup {0}]
  /\ \A m \in Map : away[m] \subseteq {d.addr : d \in ToSet(dds[m])}
  /\ used \in 0 .. Quota
  /\ \A t \in Thread : fault[t] # NoFault =>
       fault[t].map \in Map /\ fault[t].addr \in 0 .. size[fault[t].map] - 1
  /\ pending \in [Map -> Nat]
  /\ epPc \in {"idle", "alloc", "dissolve", "destroy"}
  /\ epMap \in (IF epPc = "idle" THEN {NoMap} ELSE Map \ ToSet(list))
  /\ pgPc \in {"wait", "scan", "state", "attach", "dead"}
  /\ pgPc \in {"scan", "state", "attach"} => pgCtx \in Map /\ pgNum > 0
  /\ pgPc = "wait" => pgCtx = NoMap
  /\ pgPc = "scan" => pgLeft <= Len(list)
  /\ checks \in 0 .. MaxCheckpoints

\* Whoever walks ram_dataspaces without the lock sees complete dataspaces only:
\* for each address the target may use, find_by_addr gives the designated
\* dataspace that holds it, although it counts the byte behind each one in.
Tiled ==
  \A m \in ToSet(list) : \A x \in 0 .. size[m] - 1 :
    LET i == FindByAddr(dds[m], x) IN i # 0 /\ Holds(dds[m][i], x)

\* The parent's RAM goes to dataspaces the target has, to the one the
\* entrypoint works on, and to those a failed alloc() left; nothing else.
RamAccounted ==
  \A m \in Map : dds[m] # <<>> => m \in ToSet(list) \cup {epMap} \cup abandoned

\* The pager only dies after two threads have waited for one designated
\* dataspace, or something was freed while a thread waited: that it walks the
\* list while alloc() and free() change it does no harm otherwise.
DiesForCause == pgPc = "dead" => doubled \/ freedEarly

\* A fault is resolved in the end, unless the pager is dead, or free() has
\* dropped signals while a thread waited.
FaultResolved ==
  \A t \in Thread :
    fault[t] # NoFault ~> (fault[t] = NoFault \/ pgPc = "dead" \/ freedEarly)

\* alloc() and free() return, although free() waits for the pager, unless the
\* pager has died.
Answered == epPc # "idle" ~> (epPc = "idle" \/ pgPc = "dead")

=============================================================================
