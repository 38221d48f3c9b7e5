----------------------------- MODULE CpuSession -----------------------------
(***************************************************************************)
(* Pausing and resuming the target: the intercepted CPU session            *)
(* (src/src/rtcr/intercept/cpu_session.cc, cpu_thread_component.cc), its   *)
(* entrypoint, the target's threads that send requests to it, and the      *)
(* thread that runs Checkpointer::checkpoint().                            *)
(*                                                                         *)
(* The checkpointer pauses a thread with a remote procedure call to the    *)
(* same entrypoint that serves the target.  Requests the target's threads  *)
(* sent before they were paused are therefore served in between.           *)
(***************************************************************************)
EXTENDS Integers, Sequences, SequencesExt

CONSTANTS
  Thread, \* threads the target may create
  Main,   \* its first thread
  Ck      \* the thread that runs the checkpointer

ASSUME MainAssumption == Main \in Thread
ASSUME CkAssumption == Ck \notin Thread

Op == {"create", "start", "pause", "resume", "kill"}
Message == [from : Thread \cup {Ck}, op : Op, on : Thread]

VARIABLES
  threads, \* cpu_threads, head first
  started, \* started[t]: Cpu_thread_info::started
  stopped, \* stopped[t]: the kernel does not schedule t
  paused,  \* paused[t]: Cpu_thread_info::paused
  queue,   \* requests the entrypoint has not answered, in order of arrival
  lock,    \* holder of cpu_threads_lock: "free", "entrypoint" or "checkpointer"
  ckPc,    \* where the checkpointer is
  left,    \* elements of cpu_threads from the one it looks at to the end
  stored,  \* threads with a Stored_cpu_thread_info
  late     \* history: threads set running by a request since checkpoint() began

thVars == <<started, stopped, paused>>
ckVars == <<ckPc, left, stored>>
vars == <<threads, thVars, queue, lock, ckVars, late>>

Init ==
  /\ threads = <<Main>>
  /\ started = [t \in Thread |-> t = Main]
  /\ stopped = [t \in Thread |-> FALSE]
  /\ paused = [t \in Thread |-> FALSE]
  /\ queue = <<>> /\ lock = "free"
  /\ ckPc = "idle" /\ left = 0 /\ stored = {} /\ late = {}

Runs(t) == started[t] /\ ~stopped[t]

\* Nobody releases a lock the entrypoint waits for itself.
Hung == lock = "entrypoint"

Pausing == ckPc \in {"pause", "pause_call"}
Checkpointing == Pausing \/ ckPc = "store"

-----------------------------------------------------------------------------
(* Threads of the target: a running thread calls and waits for the answer. *)

Waits(t) == \E i \in DOMAIN queue : queue[i].from = t

Call(c, op, t) == queue' = Append(queue, [from |-> c, op |-> op, on |-> t])

Existing(t) == t \in ToSet(threads)

\* Legal calls: a thread is created once, started once, and killed or resumed
\* by another thread.
Legal(op, c, t) ==
  LET asked == \E i \in DOMAIN queue : queue[i].op = op /\ queue[i].on = t
  IN  CASE op = "create" -> ~Existing(t) /\ ~asked
        [] op = "start"  -> Existing(t) /\ ~started[t] /\ ~asked
        [] op = "kill"   -> Existing(t) /\ t # c
        [] op = "resume" -> started[t] /\ t # c
        [] OTHER         -> started[t]

TargetCall(c, op, t) ==
  /\ Runs(c) /\ ~Waits(c)
  /\ Legal(op, c, t)
  /\ Call(c, op, t)
  /\ UNCHANGED <<threads, thVars, lock, ckVars, late>>

-----------------------------------------------------------------------------
(* Entrypoint: one request at a time.                                      *)

AtHead(op) == queue # <<>> /\ ~Hung /\ Head(queue).op = op

\* Slip: any answer moves the checkpointer on.
AnswerAny ==
  /\ queue' = Tail(queue)
  /\ left' = left - 1
  /\ ckPc' = IF ckPc = "pause_call" THEN "pause" ELSE ckPc

\* The answer: the caller goes on, the checkpointer to the next element.
Answer ==
  /\ queue' = Tail(queue)
  /\ IF Head(queue).from # Ck
       THEN UNCHANGED <<ckPc, left>>
       ELSE /\ left' = left - 1
            /\ ckPc' = IF ckPc = "pause_call" THEN "pause" ELSE "resume"

\* Set running by the target while the checkpointer believes it is paused.
MarkLate(t) == late' = IF Checkpointing THEN late \cup {t} ELSE late

\* Cpu_session_component::create_thread: the new element goes to the head.
ServeCreate ==
  /\ AtHead("create") /\ lock = "free"
  /\ threads' = Cons(Head(queue).on, threads)
  /\ Answer
  /\ UNCHANGED <<thVars, lock, stored, late>>

\* Cpu_thread_component::start.
ServeStart ==
  /\ AtHead("start")
  /\ LET t == Head(queue).on
     IN  started' = [started EXCEPT ![t] = TRUE] /\ MarkLate(t)
  /\ Answer
  /\ UNCHANGED <<threads, stopped, paused, lock, stored>>

\* Cpu_thread_component::pause.  The kernel ignores it for a thread that has
\* not been started; the flag is set all the same.
ServePause ==
  /\ AtHead("pause")
  /\ LET t == Head(queue).on
     IN  /\ stopped' = [stopped EXCEPT ![t] = started[t]]
         /\ paused' = [paused EXCEPT ![t] = TRUE]
  /\ Answer
  /\ UNCHANGED <<threads, started, lock, stored, late>>

\* Cpu_thread_component::resume.
ServeResume ==
  /\ AtHead("resume")
  /\ LET t == Head(queue).on
     IN  /\ stopped' = [stopped EXCEPT ![t] = FALSE]
         /\ paused' = [paused EXCEPT ![t] = FALSE]
         /\ IF Head(queue).from = Ck THEN UNCHANGED late ELSE MarkLate(t)
  /\ Answer
  /\ UNCHANGED <<threads, started, lock, stored>>

\* Cpu_session_component::kill_thread takes cpu_threads_lock and calls
\* _kill_thread, which waits for it for ever.
ServeKill ==
  /\ AtHead("kill") /\ lock = "free"
  /\ lock' = "entrypoint"
  /\ UNCHANGED <<threads, thVars, queue, ckVars, late>>

Entrypoint == ServeCreate \/ ServeStart \/ ServePause \/ ServeResume \/ ServeKill

-----------------------------------------------------------------------------
(* Checkpointer and its caller.                                            *)

Current == threads[Len(threads) - left + 1]

\* Slip: the list is walked under its lock, as the comment of cpu_threads_lock
\* suggests, and not given back before the checkpoint returns.
CkStartLocked ==
  /\ ckPc = "idle" /\ lock = "free"
  /\ lock' = "checkpointer"
  /\ ckPc' = "pause" /\ left' = Len(threads) /\ late' = {}
  /\ UNCHANGED <<threads, thVars, queue, stored>>

\* checkpoint() calls pause_threads.
CkStart ==
  /\ ckPc = "idle"
  /\ ckPc' = "pause" /\ left' = Len(threads) /\ late' = {}
  /\ UNCHANGED <<threads, thVars, queue, lock, stored>>

CkPause ==
  /\ ckPc = "pause" /\ left > 0
  /\ Call(Ck, "pause", Current)
  /\ ckPc' = "pause_call"
  /\ UNCHANGED <<threads, thVars, lock, left, stored, late>>

\* Slip: the loop ends at the last element instead of behind it.
CkPausedEarly ==
  /\ ckPc = "pause" /\ left <= 1
  /\ ckPc' = "store" /\ left' = Len(threads)
  /\ UNCHANGED <<threads, thVars, queue, lock, stored, late>>

\* _prepare_cpu_threads follows.
CkPaused ==
  /\ ckPc = "pause" /\ left = 0
  /\ ckPc' = "store" /\ left' = Len(threads)
  /\ UNCHANGED <<threads, thVars, queue, lock, stored, late>>

\* One thread: its info is created if it has none, its registers and flags
\* are read.
CkStore ==
  /\ ckPc = "store" /\ left > 0
  /\ stored' = stored \cup {Current}
  /\ left' = left - 1
  /\ UNCHANGED <<threads, thVars, queue, lock, ckPc, late>>

\* Slip: the last element of the list is not stored.
CkReturnEarly ==
  /\ ckPc = "store" /\ left <= 1
  /\ ckPc' = "idle"
  /\ UNCHANGED <<threads, thVars, queue, lock, left, stored, late>>

CkReturn ==
  /\ ckPc = "store" /\ left = 0
  /\ ckPc' = "idle"
  /\ UNCHANGED <<threads, thVars, queue, lock, left, stored, late>>

\* The caller of checkpoint() calls Target_child::resume.
CkResume ==
  /\ ckPc = "idle"
  /\ ckPc' = "resume" /\ left' = Len(threads)
  /\ UNCHANGED <<threads, thVars, queue, lock, stored, late>>

CkResumeThread ==
  /\ ckPc = "resume" /\ left > 0
  /\ Call(Ck, "resume", Current)
  /\ ckPc' = "resume_call"
  /\ UNCHANGED <<threads, thVars, lock, left, stored, late>>

CkResumed ==
  /\ ckPc = "resume" /\ left = 0
  /\ ckPc' = "idle"
  /\ UNCHANGED <<threads, thVars, queue, lock, left, stored, late>>

CheckpointerStep ==
  CkPause \/ CkPaused \/ CkStore \/ CkReturn \/ CkResumeThread \/ CkResumed

Next ==
  \/ \E c, t \in Thread, op \in Op : TargetCall(c, op, t)
  \/ Entrypoint
  \/ CkStart \/ CkResume \/ CheckpointerStep

Spec == Init /\ [][Next]_vars

\* The entrypoint serves what has arrived, and a checkpoint that has begun
\* goes on; the target and the caller of checkpoint() owe nothing.
FairSpec == Spec /\ WF_vars(Entrypoint) /\ WF_vars(CheckpointerStep)

-----------------------------------------------------------------------------
(* Properties.                                                             *)

TypeOK ==
  /\ threads \in Seq(Thread) /\ IsInjective(threads)
  /\ started \in [Thread -> BOOLEAN]
  /\ stopped \in [Thread -> BOOLEAN]
  /\ paused \in [Thread -> BOOLEAN]
  /\ queue \in Seq(Message)
  /\ lock \in {"free", "entrypoint", "checkpointer"}
  /\ ckPc \in {"idle", "pause", "pause_call", "store", "resume", "resume_call"}
  /\ left \in 0 .. Len(threads)
  /\ ckPc \in {"pause_call", "resume_call"} <=> Waits(Ck)
  /\ stored \subseteq ToSet(threads) /\ late \subseteq Thread

\* README.md: "Pause target during checkpoint".
TargetPaused == ckPc = "store" => \A t \in Thread : ~Runs(t)

\* Once every thread of the list has been paused, only threads that the target
\* itself has set running meanwhile run.
OnlyLateRun == ckPc = "store" => \A t \in Thread : Runs(t) => t \in late

\* When the checkpoint returns, every thread it paused has been stored: a
\* thread nobody stored came after the first step of the checkpoint.
PausedAreStored ==
  [][CkReturn => \A t \in Thread : stopped[t] /\ t \notin late => t \in stored]_vars

\* A caller gets its answer, unless a kill_thread has hung the entrypoint.
Answered == \A c \in Thread : Waits(c) ~> (~Waits(c) \/ Hung)

\* The checkpointer gets past pausing, unless a kill_thread has hung the
\* entrypoint.
PausingEnds == Pausing ~> (~Pausing \/ Hung)

\* cpu_session.cc, kill_thread: "If found, delete everything concerning this
\* RPC object".
Killed ==
  \A t \in Thread :
    (queue # <<>> /\ Head(queue).op = "kill" /\ Head(queue).on = t)
      ~> (t \notin ToSet(threads))

=============================================================================
