--------------------------- MODULE TargetSessions ---------------------------
(***************************************************************************)
(* The running target and the sessions intercepted from it: what its       *)
(* requests do to the online lists (src/src/rtcr/intercept/*_session.cc),  *)
(* which capabilities it holds at which selector of its capability space,  *)
(* and what core's region maps really hold.  A request and its answer are  *)
(* two steps: in between the object is in the list, but the target does    *)
(* not hold its capability yet.                                            *)
(*                                                                         *)
(* kill_thread and Rm_session_component::destroy are left out, they hang   *)
(* (CpuSession).  Races of requests with the checkpointer are the subject  *)
(* of StoredState.                                                         *)
(***************************************************************************)
EXTENDS TargetObjects

CONSTANTS
  Menus,          \* what the targets of an instance may do
  MaxSlots        \* selectors of a capability space

\* A menu: the kinds of objects a target uses, a bound on the objects it
\* creates and a bound on its requests.
ASSUME MenusAssumption == \A m \in Menus : m \in [kinds : SUBSET Kind, new : Nat, ops : Nat]

\* Bootstrapping fills four selectors (BootSlots).
ASSUME SlotsAssumption == MaxSlots \in Nat /\ MaxSlots >= 4

VARIABLES
  menu,           \* the menu of this target
  objs,           \* its objects, newest first
  real,           \* core's region maps: which dataspace is at which address
  slots,          \* slots[k]: badge of the capability at selector k, or 0
  reply,          \* badge of the capability on its way to the target, or 0
  created,        \* objects created so far
  ops             \* requests so far

targetVars == <<menu, objs, real, slots, reply, created, ops>>

TargetInit ==
  /\ menu \in Menus
  /\ objs = Reverse(Bootstrapped(0))
  /\ real = {[map |-> o.owner, addr |-> o.tag, ds |-> o.ref] :
               o \in {p \in ToSet(objs) : p.kind = "region"}}
  /\ slots = [k \in 1 .. MaxSlots |-> IF k <= 4 THEN BootSlots(0)[k] ELSE 0]
  /\ reply = 0 /\ created = 0 /\ ops = 0

-----------------------------------------------------------------------------
Objs == ToSet(objs)

Of(kind) == {o \in Objs : o.kind = kind}

\* Core gives out the badges of destroyed objects again
\* (src/src/test/cap_reuse/main.cc).
FreeBadge == {b \in {NthBadge(n) : n \in 11 .. 11 + created} : ~Has(objs, b)}

\* Selector 0 when no selector holds a capability with this badge.
SlotOf(badge) ==
  IF badge # 0 /\ \E k \in DOMAIN slots : slots[k] = badge
    THEN CHOOSE k \in DOMAIN slots : slots[k] = badge
    ELSE 0

Request(kind) ==
  /\ kind \in menu.kinds
  /\ ops < menu.ops /\ reply = 0
  /\ ops' = ops + 1
  /\ UNCHANGED menu

\* The new list element goes to the head, the capability back to the target.
\* Timestamps never come back.
Insert(new) ==
  /\ created < menu.new /\ created' = created + 1
  /\ objs' = [i \in DOMAIN new |-> [new[i] EXCEPT !.ts = 10 + created']] \o objs
  /\ reply' = Head(new).badge
  /\ UNCHANGED <<slots, real>>

\* Elements leave their lists; the target gives up their capabilities.
Withdraw(gone) ==
  /\ objs' = Only(objs, Objs \ gone)
  /\ slots' = [k \in DOMAIN slots |->
                 IF \E o \in gone : o.kind # "region" /\ o.badge = slots[k] THEN 0 ELSE slots[k]]
  /\ UNCHANGED <<reply, created>>

\* Core takes destroyed dataspaces out of every region map, and destroyed
\* region maps with all they hold: the lists of regions are not told.
Destroyed(gone) ==
  LET dead == {o.badge : o \in {p \in gone : p.kind # "region"}}
                \cup {o.ref : o \in {p \in gone : IsMap(p)}}
  IN  real' = {r \in real : r.map \notin dead /\ r.ds \notin dead}

Update(o, new) == objs' = Changed(objs, o, new) /\ UNCHANGED <<real, slots, reply, created>>

\* The target receives the capability at the first free selector.
Receive ==
  /\ reply # 0
  /\ LET free == {k \in DOMAIN slots : slots[k] = 0} IN
       /\ free # {}
       /\ slots' = [slots EXCEPT ![CHOOSE k \in free : \A l \in free : k <= l] = reply]
  /\ reply' = 0
  /\ UNCHANGED <<menu, objs, real, created, ops>>

-----------------------------------------------------------------------------
(* Sessions.                                                               *)

\* _create_session of the roots: the monitor's session goes to the head of the
\* list.  It is not marked bootstrapped any more.
OpenSession(kind) ==
  /\ Request(kind)
  /\ \E b \in FreeBadge : Insert(<<Obj(kind, b, 0, 0, 0)>>)

OpenRamSession == OpenSession("ram")
OpenCpuSession == OpenSession("cpu")
OpenRmSession == OpenSession("rm")
OpenLogSession == OpenSession("log")
OpenTimerSession == OpenSession("timer")

\* The session brings its address space with it.
OpenPdSession ==
  /\ Request("pd")
  /\ \E b \in FreeBadge :
       Insert(<<Obj("pd", b, 0, 0, 0), Obj("space", SpaceOf(b), b, DsOf(SpaceOf(b)), 0)>>)

Members(session) ==
  LET direct == {o \in Objs : o.owner = session.badge}
  IN  direct \cup {o \in Objs : \E m \in direct : IsMap(m) /\ o.owner = m.badge}

\* _destroy_session: the session goes with all it holds.
CloseSession(kind, o) ==
  /\ Request(kind)
  /\ o.kind = kind /\ ~o.boot
  /\ Withdraw({o} \cup Members(o)) /\ Destroyed({o} \cup Members(o))

ClosePdSession(o) == CloseSession("pd", o)
CloseRamSession(o) == CloseSession("ram", o)
CloseCpuSession(o) == CloseSession("cpu", o)
CloseRmSession(o) == CloseSession("rm", o)
CloseLogSession(o) == CloseSession("log", o)
CloseTimerSession(o) == CloseSession("timer", o)

\* _upgrade_session adds to the quota noted in upgrade_args.
UpgradeSession(kind, o) ==
  /\ Request(kind)
  /\ o.kind = kind
  /\ Update(o, [o EXCEPT !.quota = @ + 1])

UpgradePdSession(o) == UpgradeSession("pd", o)
UpgradeRamSession(o) == UpgradeSession("ram", o)
UpgradeCpuSession(o) == UpgradeSession("cpu", o)
UpgradeRmSession(o) == UpgradeSession("rm", o)
UpgradeLogSession(o) == UpgradeSession("log", o)
UpgradeTimerSession(o) == UpgradeSession("timer", o)

SessionRequest ==
  \/ OpenPdSession \/ OpenRamSession \/ OpenCpuSession
  \/ OpenRmSession \/ OpenLogSession \/ OpenTimerSession
  \/ \E o \in Objs :
       \/ ClosePdSession(o) \/ CloseRamSession(o) \/ CloseCpuSession(o)
       \/ CloseRmSession(o) \/ CloseLogSession(o) \/ CloseTimerSession(o)
       \/ UpgradePdSession(o) \/ UpgradeRamSession(o) \/ UpgradeCpuSession(o)
       \/ UpgradeRmSession(o) \/ UpgradeLogSession(o) \/ UpgradeTimerSession(o)

-----------------------------------------------------------------------------
(* PD session.                                                             *)

AllocSignalSource(pd) ==
  /\ Request("source")
  /\ \E b \in FreeBadge : Insert(<<Obj("source", b, pd.badge, 0, 0)>>)

AllocContext(pd, source) ==
  /\ Request("context")
  /\ \E b \in FreeBadge : Insert(<<Obj("context", b, pd.badge, source.badge, 0)>>)

AllocRpcCap(pd, ep) ==
  /\ Request("native")
  /\ \E b \in FreeBadge : Insert(<<Obj("native", b, pd.badge, ep.badge, 0)>>)

\* free_signal_source, free_context, free_rpc_cap: nobody looks whether
\* something still refers to the object.
FreeCap(kind, o) ==
  /\ Request(kind)
  /\ o.kind = kind
  /\ Withdraw({o}) /\ UNCHANGED real

FreeSignalSource(o) == FreeCap("source", o)
FreeContext(o) == FreeCap("context", o)
FreeRpcCap(o) == FreeCap("native", o)

-----------------------------------------------------------------------------
(* RAM session, region maps, CPU session, handlers and timers.             *)

AllocRam(ram) ==
  /\ Request("ramds")
  /\ \E b \in FreeBadge : Insert(<<Obj("ramds", b, ram.badge, 0, 0)>>)

\* Nobody looks whether the dataspace is still attached somewhere.
FreeRam(o) ==
  /\ Request("ramds")
  /\ o.kind = "ramds"
  /\ Withdraw({o}) /\ Destroyed({o})

CreateMap(rm) ==
  /\ Request("map")
  /\ \E b \in FreeBadge : Insert(<<Obj("map", b, rm.badge, DsOf(b), 0)>>)

Dataspaces == {o.badge : o \in Of("ramds")} \cup {o.ref : o \in Of("map")} \cup {ForeignDs}

\* Attaching answers with an address, not with a capability.  Core refuses an
\* address where the map really holds something.
Attach(map, ds, addr) ==
  /\ Request("region")
  /\ IsMap(map) /\ map.ref # ds
  /\ ~\E r \in real : r.map = map.badge /\ r.addr = addr
  /\ real' = real \cup {[map |-> map.badge, addr |-> addr, ds |-> ds]}
  /\ created < menu.new /\ created' = created + 1
  /\ objs' = Cons([Obj("region", 0, map.badge, ds, addr) EXCEPT !.ts = 10 + created'], objs)
  /\ UNCHANGED <<slots, reply>>

\* What is at the address goes from core's map, and from the list the first
\* region that find_by_addr hits, if there is one: it may be a neighbour.
Detach(map, addr) ==
  /\ Request("region")
  /\ IsMap(map)
  /\ \E r \in real : r.map = map.badge /\ r.addr = addr /\ real' = real \ {r}
  /\ Withdraw(FindByAddr(objs, map.badge, addr))

CreateThread(cpu, pd, name) ==
  /\ Request("thread")
  /\ \E b \in FreeBadge : Insert(<<Obj("thread", b, cpu.badge, pd.badge, name)>>)

SetSigh(o, context) ==
  /\ Request("context")
  /\ o.sigh # context.badge
  /\ Update(o, [o EXCEPT !.sigh = context.badge])

FaultHandler(map, context) == IsMap(map) /\ SetSigh(map, context)
CpuExceptionSigh(cpu, context) == cpu.kind = "cpu" /\ SetSigh(cpu, context)
ThreadExceptionSigh(thread, context) ==
  thread.kind = "thread" /\ "thread" \in menu.kinds /\ SetSigh(thread, context)
TimerSigh(timer, context) == timer.kind = "timer" /\ SetSigh(timer, context)

SetMode(kind, o, mode) ==
  /\ Request(kind)
  /\ o.kind = kind
  /\ o.mode # mode
  /\ Update(o, [o EXCEPT !.mode = mode])

TriggerOnce(timer) == SetMode("timer", timer, 1)
TriggerPeriodic(timer) == SetMode("timer", timer, 2)
SingleStep(thread, enabled) == SetMode("thread", thread, IF enabled THEN 1 ELSE 0)

TargetRequest ==
  \/ SessionRequest
  \/ \E o \in Objs :
       \/ FreeSignalSource(o) \/ FreeContext(o) \/ FreeRpcCap(o) \/ FreeRam(o)
       \/ \E c \in Of("context") :
            FaultHandler(o, c) \/ CpuExceptionSigh(o, c) \/ ThreadExceptionSigh(o, c) \/ TimerSigh(o, c)
       \/ TriggerOnce(o) \/ TriggerPeriodic(o)
       \/ \E enabled \in BOOLEAN : SingleStep(o, enabled)
       \/ \E addr \in {2, 3} : Detach(o, addr) \/ \E ds \in Dataspaces : Attach(o, ds, addr)
  \/ \E pd \in Of("pd") :
       \/ AllocSignalSource(pd)
       \/ \E source \in Of("source") : AllocContext(pd, source)
       \/ \E ep \in Of("thread") : AllocRpcCap(pd, ep)
       \/ \E cpu \in Of("cpu"), name \in {1, 2} : CreateThread(cpu, pd, name)
  \/ \E ram \in Of("ram") : AllocRam(ram)
  \/ \E rm \in Of("rm") : CreateMap(rm)
  \/ Receive

=============================================================================
