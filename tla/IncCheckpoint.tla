---------------------------- MODULE IncCheckpoint ---------------------------
(***************************************************************************)
(* Incremental checkpointing of managed dataspaces: the threads of the     *)
(* target, the thread "managed dataspace pager" of a RAM session           *)
(* (src/src/rtcr/intercept/ram_session.cc) and the thread that runs        *)
(* Checkpointer::checkpoint() (src/src/rtcr/checkpointer.cc).              *)
(*                                                                         *)
(* A managed dataspace is a region map filled with designated dataspaces.  *)
(* An attached designated dataspace counts as touched since the last       *)
(* checkpoint; a detached one faults on the next access, and the pager     *)
(* attaches it again.  Pager and checkpointer work on the same             *)
(* Designated_dataspace_info records without a lock, so every access of    *)
(* theirs to a shared record or to a kernel object is a step of its own.   *)
(*                                                                         *)
(* The checkpointer pauses the threads one after the other, and nothing    *)
(* keeps the entrypoint of the CPU session from serving afterwards what a  *)
(* thread asked for before it was paused.  A thread set running that way   *)
(* runs, faults and writes while the checkpoint is taken.                  *)
(***************************************************************************)
EXTENDS Integers, FiniteSets

CONSTANTS
  Thread,     \* threads of the target
  NumRamds,   \* managed dataspaces of the session, numbered in list order
  Dd,         \* designated dataspaces
  NoDd,       \* stands for no designated dataspace
  DsOf,       \* DsOf[d]: the managed dataspace d belongs to
  ListHead,   \* ListHead[r]: first element of r's dd_infos
  AtZero,     \* AtZero[r]: the designated dataspace at relative address 0 of r
  CapMapDs,   \* managed dataspaces that hold the capability map (one or none)
  Val,        \* contents of a designated dataspace
  Zero,       \* content of a fresh dataspace
  MaxSignals  \* bound on the fault signals under way

Ramds == 1 .. NumRamds

ASSUME NumRamdsAssumption == NumRamds \in Nat
ASSUME NoDdAssumption == NoDd \notin Dd
ASSUME DsOfAssumption == DsOf \in [Dd -> Ramds]
\* alloc() inserts every designated dataspace at the head of dd_infos.
ASSUME ListHeadAssumption ==
  /\ ListHead \in [Ramds -> Dd]
  /\ \A r \in Ramds : DsOf[ListHead[r]] = r
ASSUME AtZeroAssumption ==
  /\ AtZero \in [Ramds -> Dd]
  /\ \A r \in Ramds : DsOf[AtZero[r]] = r
ASSUME CapMapDsAssumption == CapMapDs \subseteq Ramds
ASSUME ZeroAssumption == Zero \in Val
ASSUME MaxSignalsAssumption == MaxSignals \in Nat

Heads == {ListHead[r] : r \in Ramds}
DdsOf(r) == {d \in Dd : DsOf[d] = r}
CapMapDd == {d \in Dd : DsOf[d] \in CapMapDs}

VARIABLES
  mem,      \* mem[d]: content of d
  copy,     \* copy[d]: content of d's part of the copy dataspace
  inMap,    \* inMap[d]: the region map really contains d (kernel state)
  attached, \* attached[d]: Designated_dataspace_info::attached
  fault,    \* fault[t]: what thread t waits for, NoDd if it runs
  paused,   \* paused[t]: thread t is paused
  signals,  \* page-fault signals not yet handled
  asked,    \* <<t, u>>: t waits for its request to start or resume u
  late,     \* history: threads a request set running since checkpoint() began
  lost,     \* history: a thread touched what was detached, its flag still set
  pgPc,     \* where the pager is
  pgCur,    \* element of ram_dataspaces the pager looks at
  pgDd,     \* designated dataspace the pager attaches
  ckPc,     \* where the thread running the checkpointer is
  ckTodo,   \* rest of the list it iterates over
  ckDd,     \* designated dataspace it attaches or detaches
  marked,   \* marked_badge_infos
  memory,   \* _memory_to_checkpoint, as the designated dataspaces in it
  missed    \* history: attached dds it took for detached, and those a late
            \* thread wrote during the checkpoint, not stored since

reqVars == <<asked, late>>
thVars == <<fault, paused, signals, reqVars, lost>>
pgVars == <<pgPc, pgCur, pgDd>>
ckVars == <<ckPc, ckTodo, ckDd, marked, memory, missed>>
vars == <<mem, copy, inMap, attached, thVars, pgVars, ckVars>>

PagerBusy == {"scan", "state", "attach", "attach_at", "mark"}

\* Between pausing the last thread and returning from checkpoint().
Freezing == {"map_mark", "map_attach", "map_attach_at", "map_flag", "map_read",
             "map_detach", "map_unflag", "resolve", "detach", "unflag",
             "store", "dead"}

CkPcs == {"idle", "pause", "resume"} \cup Freezing

\* The checkpointer has detached ckDd and not yet reset its flag.
Unflagging == ckPc \in {"map_unflag", "unflag"}

Init ==
  /\ mem = [d \in Dd |-> Zero]
  /\ copy = [d \in Dd |-> Zero]
  \* "Every new dataspace shall be attached and marked"
  /\ inMap = [d \in Dd |-> TRUE]
  /\ attached = [d \in Dd |-> TRUE]
  /\ fault = [t \in Thread |-> NoDd]
  /\ paused = [t \in Thread |-> FALSE]
  /\ signals = 0
  /\ asked = {} /\ late = {} /\ lost = FALSE
  /\ pgPc = "wait" /\ pgCur = 1 /\ pgDd = NoDd
  /\ ckPc = "idle" /\ ckTodo = {} /\ ckDd = NoDd
  /\ marked = {} /\ memory = {} /\ missed = {}

-----------------------------------------------------------------------------
(* Region map of a managed dataspace (core service, external).             *)

\* The faulting threads of region map r.
Faulters(r) == {t \in Thread : fault[t] \in DdsOf(r)}

\* attach_at: core wakes the threads whose fault address is now populated.
MapAttach(d) ==
  /\ inMap' = [inMap EXCEPT ![d] = TRUE]
  /\ fault' = [t \in Thread |-> IF fault[t] = d THEN NoDd ELSE fault[t]]

MapDetach(d) == inMap' = [inMap EXCEPT ![d] = FALSE]

-----------------------------------------------------------------------------
(* Threads of the target.                                                  *)

Waits(t) == \E u \in Thread : <<t, u>> \in asked

Running(t) == ~paused[t] /\ fault[t] = NoDd /\ ~Waits(t)

\* Thread t writes v into d, which its region map contains.  (A write while
\* memcpy copies d counts as one after it.)
Write(t, d, v) ==
  /\ Running(t) /\ inMap[d]
  /\ mem' = [mem EXCEPT ![d] = v]
  /\ missed' = IF ckPc \in Freezing THEN missed \cup {d} ELSE missed
  /\ UNCHANGED <<copy, inMap, attached, thVars, pgVars, ckPc, ckTodo, ckDd,
                 marked, memory>>

\* Thread t touches d, which is detached: it blocks and core submits a signal
\* to the fault handler of the region map.
PageFault(t, d) ==
  /\ Running(t) /\ ~inMap[d]
  /\ signals < MaxSignals
  /\ fault' = [fault EXCEPT ![t] = d]
  /\ signals' = signals + 1
  /\ lost' = (lost \/ (Unflagging /\ ckDd = d))
  /\ UNCHANGED <<mem, copy, inMap, attached, paused, reqVars, pgVars, ckVars>>

\* Thread t asks the CPU session to start or resume another thread.
Ask(t, u) ==
  /\ Running(t) /\ t # u
  /\ asked' = asked \cup {<<t, u>>}
  /\ UNCHANGED <<mem, copy, inMap, attached, fault, paused, signals, late, lost,
                 pgVars, ckVars>>

\* The entrypoint serves the request, whether t has been paused meanwhile or
\* not.  A thread created only now counts as one that was paused before.
\* (The order in which requests and pauses are served is left open here.)
Serve(t, u) ==
  /\ <<t, u>> \in asked
  /\ asked' = asked \ {<<t, u>>}
  /\ paused' = [paused EXCEPT ![u] = FALSE]
  /\ late' = IF ckPc \in {"pause"} \cup Freezing THEN late \cup {u} ELSE late
  /\ UNCHANGED <<mem, copy, inMap, attached, fault, signals, lost, pgVars, ckVars>>

-----------------------------------------------------------------------------
(* Pager: Fault_handler::entry, _handle_fault, _find_faulting_mrm_info.     *)

\* Slip: a signal is handled once, whatever signal.num() says.
PagerTakeOnce ==
  /\ pgPc = "wait" /\ signals > 0
  /\ signals' = 0
  /\ pgPc' = "scan" /\ pgCur' = 1
  /\ UNCHANGED <<mem, copy, inMap, attached, fault, paused, reqVars, lost, pgDd,
                 ckVars>>

\* One round of the loop over signal.num(): the handler does not look at the
\* context a signal came from, so only their number counts.
PagerTake ==
  /\ pgPc = "wait" /\ signals > 0
  /\ signals' = signals - 1
  /\ pgPc' = "scan" /\ pgCur' = 1
  /\ UNCHANGED <<mem, copy, inMap, attached, fault, paused, reqVars, lost, pgDd,
                 ckVars>>

\* The region map at the cursor is READY: go on.
PagerScanReady ==
  /\ pgPc = "scan" /\ pgCur \in Ramds
  /\ Faulters(pgCur) = {}
  /\ pgCur' = pgCur + 1
  /\ UNCHANGED <<mem, copy, inMap, attached, thVars, pgPc, pgDd, ckVars>>

\* The region map at the cursor has a fault.
PagerScanFound ==
  /\ pgPc = "scan" /\ pgCur \in Ramds
  /\ Faulters(pgCur) # {}
  /\ pgPc' = "state"
  /\ UNCHANGED <<mem, copy, inMap, attached, thVars, pgCur, pgDd, ckVars>>

\* Slip: the search ends on the list's end marker and goes on with it.
PagerScanEnd ==
  /\ pgPc = "scan" /\ pgCur \notin Ramds
  /\ pgPc' = "state"
  /\ UNCHANGED <<mem, copy, inMap, attached, thVars, pgCur, pgDd, ckVars>>

\* No region map has a fault: _handle_fault dereferences the null pointer it
\* was given and the pager is stuck in a page fault of its own.
PagerScanNull ==
  /\ pgPc = "scan" /\ pgCur \notin Ramds
  /\ pgPc' = "dead"
  /\ UNCHANGED <<mem, copy, inMap, attached, thVars, pgCur, pgDd, ckVars>>

\* Slip: the fault address is not looked at.
FirstDd(r) == {AtZero[r]}

\* The second state() call.  A region map that is READY by now reports
\* address 0, and find_by_addr finds the designated dataspace there.
FaultingDd(r) ==
  IF Faulters(r) = {} THEN {AtZero[r]} ELSE {fault[t] : t \in Faulters(r)}

PagerState ==
  /\ pgPc = "state"
  /\ \E d \in FaultingDd(pgCur) : pgDd' = d
  /\ pgPc' = "attach"
  /\ UNCHANGED <<mem, copy, inMap, attached, thVars, pgCur, ckVars>>

\* Designated_dataspace_info::attach, "if(!attached)".
PagerAttach ==
  /\ pgPc = "attach"
  /\ IF attached[pgDd]
       THEN pgPc' = "wait" /\ pgDd' = NoDd
       ELSE pgPc' = "attach_at" /\ UNCHANGED pgDd
  /\ UNCHANGED <<mem, copy, inMap, attached, thVars, pgCur, ckVars>>

\* ... attach_at.  An occupied location raises Region_conflict, which nobody
\* catches.
PagerAttachAt ==
  /\ pgPc = "attach_at"
  /\ IF inMap[pgDd]
       THEN pgPc' = "dead" /\ UNCHANGED <<inMap, fault>>
       ELSE pgPc' = "mark" /\ MapAttach(pgDd)
  /\ UNCHANGED <<mem, copy, attached, paused, signals, reqVars, lost, pgCur, pgDd,
                 ckVars>>

\* ... "attached = true".
PagerMark ==
  /\ pgPc = "mark"
  /\ attached' = [attached EXCEPT ![pgDd] = TRUE]
  /\ pgPc' = "wait" /\ pgDd' = NoDd
  /\ UNCHANGED <<mem, copy, inMap, thVars, pgCur, ckVars>>

Pager ==
  \/ PagerTake \/ PagerScanReady \/ PagerScanFound \/ PagerScanNull
  \/ PagerState \/ PagerAttach \/ PagerAttachAt \/ PagerMark

-----------------------------------------------------------------------------
(* Checkpointer::checkpoint.  The order in which a list is visited is left *)
(* open: ckTodo is the set of elements still to visit.                     *)

\* _child.pause(): pause_threads visits every thread of the CPU session.
CkStart ==
  /\ ckPc = "idle"
  /\ ckPc' = "pause" /\ ckTodo' = Thread
  /\ UNCHANGED <<mem, copy, inMap, attached, thVars, pgVars, ckDd, marked, memory, missed>>

\* Slip: only the first thread of the list is paused.
CkPauseFirst(t) ==
  /\ ckPc = "pause" /\ t \in ckTodo
  /\ paused' = [paused EXCEPT ![t] = TRUE]
  /\ late' = late \ {t}
  /\ ckTodo' = {}
  /\ UNCHANGED <<mem, copy, inMap, attached, fault, signals, asked, lost, pgVars,
                 ckPc, ckDd, marked, memory, missed>>

\* One step of the walk.  A thread it has passed may be set running again.
CkPause(t) ==
  /\ ckPc = "pause" /\ t \in ckTodo
  /\ paused' = [paused EXCEPT ![t] = TRUE]
  /\ late' = late \ {t}
  /\ ckTodo' = ckTodo \ {t}
  /\ UNCHANGED <<mem, copy, inMap, attached, fault, signals, asked, lost, pgVars,
                 ckPc, ckDd, marked, memory, missed>>

CkPaused ==
  /\ ckPc = "pause" /\ ckTodo = {}
  /\ ckPc' = "map_mark" /\ ckTodo' = CapMapDd
  /\ UNCHANGED <<mem, copy, inMap, attached, thVars, pgVars, ckDd, marked, memory, missed>>

\* Slip: only the first designated dataspace is attached ("if" for "while").
CkMapMarkFirst(d) ==
  /\ ckPc = "map_mark" /\ d \in ckTodo
  /\ ckTodo' = {}
  /\ IF attached[d]
       THEN UNCHANGED <<ckPc, ckDd, missed>>
       ELSE /\ ckPc' = "map_attach" /\ ckDd' = d
            /\ missed' = IF inMap[d] THEN missed \cup {d} ELSE missed
  /\ UNCHANGED <<mem, copy, inMap, attached, thVars, pgVars, marked, memory>>

\* _create_cap_map_infos reads the capability map through a mapping of its
\* own.  _mark_attach_designated_dataspaces first attaches what is detached.
CkMapMark(d) ==
  /\ ckPc = "map_mark" /\ d \in ckTodo
  /\ ckTodo' = ckTodo \ {d}
  /\ IF attached[d]
       THEN UNCHANGED <<ckPc, ckDd, missed>>
       ELSE /\ ckPc' = "map_attach" /\ ckDd' = d
            /\ missed' = IF inMap[d] THEN missed \cup {d} ELSE missed
  /\ UNCHANGED <<mem, copy, inMap, attached, thVars, pgVars, marked, memory>>

\* Designated_dataspace_info::attach looks at the flag again.
CkMapAttach ==
  /\ ckPc = "map_attach"
  /\ IF attached[ckDd]
       THEN ckPc' = "map_mark" /\ marked' = marked \cup {ckDd} /\ ckDd' = NoDd
       ELSE ckPc' = "map_attach_at" /\ UNCHANGED <<marked, ckDd>>
  /\ UNCHANGED <<mem, copy, inMap, attached, thVars, pgVars, ckTodo, memory, missed>>

CkMapAttachAt ==
  /\ ckPc = "map_attach_at"
  /\ IF inMap[ckDd]
       THEN ckPc' = "dead" /\ UNCHANGED <<inMap, fault>>
       ELSE ckPc' = "map_flag" /\ MapAttach(ckDd)
  /\ UNCHANGED <<mem, copy, attached, paused, signals, reqVars, lost, pgVars,
                 ckTodo, ckDd, marked, memory, missed>>

CkMapFlag ==
  /\ ckPc = "map_flag"
  /\ attached' = [attached EXCEPT ![ckDd] = TRUE]
  /\ marked' = marked \cup {ckDd}
  /\ ckPc' = "map_mark" /\ ckDd' = NoDd
  /\ UNCHANGED <<mem, copy, inMap, thVars, pgVars, ckTodo, memory, missed>>

CkMapMarked ==
  /\ ckPc = "map_mark" /\ ckTodo = {}
  /\ ckPc' = "map_read"
  /\ UNCHANGED <<mem, copy, inMap, attached, thVars, pgVars, ckTodo, ckDd,
                 marked, memory, missed>>

\* The entries are read; _detach_unmark_designated_dataspaces follows.
CkMapRead ==
  /\ ckPc = "map_read"
  /\ ckPc' = "map_detach" /\ ckTodo' = marked
  /\ UNCHANGED <<mem, copy, inMap, attached, thVars, pgVars, ckDd, marked, memory, missed>>

CkMapDetach(d) ==
  /\ ckPc = "map_detach" /\ d \in ckTodo
  /\ ckTodo' = ckTodo \ {d}
  /\ IF attached[d]
       THEN ckPc' = "map_unflag" /\ ckDd' = d /\ MapDetach(d)
       ELSE UNCHANGED <<ckPc, ckDd, inMap>>
  /\ UNCHANGED <<mem, copy, attached, thVars, pgVars, marked, memory, missed>>

CkMapUnflag ==
  /\ ckPc = "map_unflag"
  /\ attached' = [attached EXCEPT ![ckDd] = FALSE]
  /\ ckPc' = "map_detach" /\ ckDd' = NoDd
  /\ UNCHANGED <<mem, copy, inMap, thVars, pgVars, ckTodo, marked, memory, missed>>

\* The stored lists are brought up to date (module StoredState) and every
\* managed dataspace has an entry in _memory_to_checkpoint.
CkMapDetached ==
  /\ ckPc = "map_detach" /\ ckTodo = {}
  /\ marked' = {}
  /\ ckPc' = "resolve" /\ ckTodo' = Ramds
  /\ UNCHANGED <<mem, copy, inMap, attached, thVars, pgVars, ckDd, memory, missed>>

\* Slip: the test of the flag is the wrong way round.
ToStoreDetached(r) == {d \in {ListHead[r]} : ~attached[d]}

\* What replaces r's entry: the first designated dataspace, if attached.
ToStore(r) == {d \in {ListHead[r]} : attached[d]}

\* _resolve_inc_checkpoint_dataspaces, one managed dataspace.
CkResolve(r) ==
  /\ ckPc = "resolve" /\ r \in ckTodo
  /\ ckTodo' = ckTodo \ {r}
  /\ memory' = memory \cup ToStore(r)
  /\ missed' = missed \cup {d \in DdsOf(r) : inMap[d] /\ ~attached[d]}
  /\ UNCHANGED <<mem, copy, inMap, attached, thVars, pgVars, ckPc, ckDd, marked>>

CkResolved ==
  /\ ckPc = "resolve" /\ ckTodo = {}
  /\ ckPc' = "detach" /\ ckTodo' = Dd
  /\ UNCHANGED <<mem, copy, inMap, attached, thVars, pgVars, ckDd, marked, memory, missed>>

\* _detach_designated_dataspaces, one designated dataspace.
CkDetach(d) ==
  /\ ckPc = "detach" /\ d \in ckTodo
  /\ ckTodo' = ckTodo \ {d}
  /\ IF attached[d]
       THEN ckPc' = "unflag" /\ ckDd' = d /\ MapDetach(d)
       ELSE UNCHANGED <<ckPc, ckDd, inMap>>
  /\ UNCHANGED <<mem, copy, attached, thVars, pgVars, marked, memory, missed>>

CkUnflag ==
  /\ ckPc = "unflag"
  /\ attached' = [attached EXCEPT ![ckDd] = FALSE]
  /\ ckPc' = "detach" /\ ckDd' = NoDd
  /\ UNCHANGED <<mem, copy, inMap, thVars, pgVars, ckTodo, marked, memory, missed>>

CkDetached ==
  /\ ckPc = "detach" /\ ckTodo = {}
  /\ ckPc' = "store"
  /\ UNCHANGED <<mem, copy, inMap, attached, thVars, pgVars, ckTodo, ckDd,
                 marked, memory, missed>>

\* _checkpoint_dataspaces, one entry: memcpy into the copy dataspace.
CkStore(d) ==
  /\ ckPc = "store" /\ d \in memory
  /\ copy' = [copy EXCEPT ![d] = mem[d]]
  /\ memory' = memory \ {d}
  /\ missed' = missed \ {d}
  /\ UNCHANGED <<mem, inMap, attached, thVars, pgVars, ckPc, ckTodo, ckDd, marked>>

\* Slip: checkpoint() returns before everything is copied.
CkReturnEarly ==
  /\ ckPc = "store"
  /\ ckPc' = "idle" /\ memory' = {} /\ late' = {}
  /\ UNCHANGED <<mem, copy, inMap, attached, fault, paused, signals, asked, lost,
                 pgVars, ckTodo, ckDd, marked, missed>>

\* checkpoint() returns; "_child.resume()" is commented out.
CkReturn ==
  /\ ckPc = "store" /\ memory = {}
  /\ ckPc' = "idle" /\ late' = {}
  /\ UNCHANGED <<mem, copy, inMap, attached, fault, paused, signals, asked, lost,
                 pgVars, ckTodo, ckDd, marked, memory, missed>>

\* The caller of checkpoint() may call Target_child::resume.
CkResume ==
  /\ ckPc = "idle"
  /\ ckPc' = "resume" /\ ckTodo' = Thread
  /\ UNCHANGED <<mem, copy, inMap, attached, thVars, pgVars, ckDd, marked, memory, missed>>

CkResumeThread(t) ==
  /\ ckPc = "resume" /\ t \in ckTodo
  /\ paused' = [paused EXCEPT ![t] = FALSE]
  /\ ckTodo' = ckTodo \ {t}
  /\ UNCHANGED <<mem, copy, inMap, attached, fault, signals, reqVars, lost,
                 pgVars, ckPc, ckDd, marked, memory, missed>>

CkResumed ==
  /\ ckPc = "resume" /\ ckTodo = {}
  /\ ckPc' = "idle"
  /\ UNCHANGED <<mem, copy, inMap, attached, thVars, pgVars, ckTodo, ckDd,
                 marked, memory, missed>>

\* A step of a checkpoint or a resume that has begun.
CheckpointerStep ==
  \/ \E t \in Thread : CkPause(t) \/ CkResumeThread(t)
  \/ CkPaused \/ CkMapAttach \/ CkMapAttachAt \/ CkMapFlag \/ CkMapMarked
  \/ CkMapRead \/ CkMapUnflag \/ CkMapDetached \/ CkResolved \/ CkUnflag
  \/ CkDetached \/ CkReturn \/ CkResumed
  \/ \E d \in Dd : CkMapMark(d) \/ CkMapDetach(d) \/ CkDetach(d) \/ CkStore(d)
  \/ \E r \in Ramds : CkResolve(r)

Next ==
  \/ \E t \in Thread, d \in Dd : PageFault(t, d) \/ \E v \in Val : Write(t, d, v)
  \/ \E t, u \in Thread : Ask(t, u) \/ Serve(t, u)
  \/ Pager
  \/ CkStart \/ CkResume \/ CheckpointerStep

Spec == Init /\ [][Next]_vars

\* The pager and a checkpoint that has begun run on threads of their own that
\* nothing stops; the target's threads, the requests they wait for and the
\* caller owe nothing.
FairSpec == Spec /\ WF_vars(Pager) /\ WF_vars(CheckpointerStep)

-----------------------------------------------------------------------------
(* Properties.                                                             *)

TypeOK ==
  /\ mem \in [Dd -> Val] /\ copy \in [Dd -> Val]
  /\ inMap \in [Dd -> BOOLEAN] /\ attached \in [Dd -> BOOLEAN]
  /\ fault \in [Thread -> Dd \cup {NoDd}] /\ paused \in [Thread -> BOOLEAN]
  /\ signals \in Nat
  /\ asked \subseteq Thread \X Thread /\ late \subseteq Thread /\ lost \in BOOLEAN
  /\ pgPc \in PagerBusy \cup {"wait", "dead"}
  /\ pgCur \in 1 .. NumRamds + 1
  /\ pgDd \in Dd \cup {NoDd}
  /\ pgPc = "state" => pgCur \in Ramds
  /\ pgPc \in {"attach", "attach_at", "mark"} => pgDd \in Dd
  /\ ckPc \in CkPcs
  /\ ckTodo \subseteq (IF ckPc \in {"pause", "resume"} THEN Thread
                      ELSE IF ckPc = "resolve" THEN Ramds ELSE Dd)
  /\ ckDd \in Dd \cup {NoDd}
  /\ ckPc \in {"map_attach", "map_attach_at", "map_flag", "map_unflag", "unflag"}
       => ckDd \in Dd
  /\ marked \subseteq Dd /\ memory \subseteq Dd /\ missed \subseteq Dd

Stored(d) == copy[d] = mem[d]

\* No change of a designated dataspace is forgotten: what the copy lacks is
\* attached, hence in the next checkpoint, or about to be copied.
NotForgotten(d) == Stored(d) \/ inMap[d] \/ d \in memory

\* The designated dataspace at the head of its list is never forgotten, unless
\* the checkpointer looked at its flag while the pager had attached it but not
\* yet set the flag (Designated_dataspace_info::attach has no lock), or a late
\* thread wrote it during a checkpoint that did not copy it afterwards.
HeadNotForgotten == \A d \in Heads \ missed : NotForgotten(d)

\* The same without the excuse.
HeadNeverForgotten == \A d \in Heads : NotForgotten(d)

\* The same for every designated dataspace.
NothingForgotten == \A d \in Dd \ missed : NotForgotten(d)

\* No thread has been set running during the checkpoint and none can be.
Undisturbed == late = {} /\ asked = {}

\* From the last pause to the return of checkpoint() memory changes only by the
\* hand of a thread that a late request has set running; if no request is under
\* way when the walk is through, it stands still up to the return.
FrozenStep ==
  ckPc \in Freezing =>
    /\ mem' # mem => \E t \in late : Running(t)
    /\ Undisturbed /\ ckPc' \in Freezing => Undisturbed'

FrozenMemory == [][FrozenStep]_vars

\* Nothing faults while the checkpointer reads the capability map.
CapMapReadable == ckPc = "map_read" => \A d \in CapMapDd : inMap[d]

\* Every designated dataspace a thread waits for is covered by a signal, or by
\* the round the pager is in: no fault is left without somebody to handle it,
\* unless a late thread has touched what the checkpointer had detached while the
\* flag was still set: the pager takes such a dataspace for attached.
FaultedDds == {d \in Dd : \E t \in Thread : fault[t] = d}

FaultCovered ==
  ~lost /\ pgPc # "dead" =>
    Cardinality(FaultedDds) <= signals + (IF pgPc \in PagerBusy THEN 1 ELSE 0)

\* README.md: "The page fault is resolved by a thread which attaches the
\* corresponding designated dataspace", at least if the target is not
\* checkpointed over and over and no late thread has faulted as above.
EveryFaultResolved ==
  \A t \in Thread :
    <>[](ckPc = "idle") =>
      [](fault[t] # NoDd => <>(fault[t] = NoDd \/ lost))

\* The promise about memory, for the heads of the lists.
Snapshot == INSTANCE MemorySnapshot WITH
  Cell <- Heads,
  mem <- [d \in Heads |-> mem[d]],
  copy <- [d \in Heads |-> copy[d]],
  frozen <- ckPc \in Freezing,
  missed <- missed \cap Heads

SnapshotSpec == Snapshot!Spec

=============================================================================
