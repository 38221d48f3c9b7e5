-------------------------- MODULE CpuSessionProofs --------------------------
(***************************************************************************)
(* Theorems about CpuSession, for any set of threads.                      *)
(***************************************************************************)
EXTENDS CpuSession, ListFacts

\* What the entrypoint's queue holds: one request per caller, one creation per
\* thread, requests about existing threads otherwise, and the request of the
\* checkpointer, which is for the thread it looks at.
OnePerCaller ==
  \A i, j \in DOMAIN queue : queue[i].from = queue[j].from => i = j

OneCreation ==
  \A i, j \in DOMAIN queue :
    queue[i].op = "create" /\ queue[j].op = "create" /\ queue[i].on = queue[j].on
      => i = j

AboutListed ==
  \A i \in DOMAIN queue : queue[i].op = "create" <=> ~Existing(queue[i].on)

AboutCurrent ==
  \A i \in DOMAIN queue : queue[i].from = Ck =>
    /\ left > 0 /\ queue[i].on = Current
    /\ ckPc = "pause_call" => queue[i].op = "pause"
    /\ ckPc = "resume_call" => queue[i].op = "resume"

QueueInv == OnePerCaller /\ OneCreation /\ AboutListed /\ AboutCurrent

\* Only threads of the list run.
ListedInv == \A t \in Thread : started[t] => Existing(t)

\* The elements before the cursor of pause_threads are stopped, not started, or
\* were set running after it had passed them.
PassedInv ==
  Pausing => \A j \in 1 .. Len(threads) - left :
               Runs(threads[j]) => threads[j] \in late

PauseInv == TypeOK /\ QueueInv /\ ListedInv /\ PassedInv /\ OnlyLateRun

-----------------------------------------------------------------------------
(* Sequences.                                                              *)

LEMMA TailFacts ==
  ASSUME NEW S, NEW q \in Seq(S), q # <<>>
  PROVE  /\ Tail(q) \in Seq(S)
         /\ Head(q) = q[1] /\ Head(q) \in S /\ 1 \in DOMAIN q
         /\ \A i \in DOMAIN Tail(q) :
              i \in Nat /\ i + 1 # 1 /\ i + 1 \in DOMAIN q /\ Tail(q)[i] = q[i + 1]
         /\ \A i \in DOMAIN q : i # 1 =>
              i \in Int /\ i - 1 \in DOMAIN Tail(q) /\ Tail(q)[i - 1] = q[i]
<1>1. Len(q) \in Nat \ {0} /\ DOMAIN q = 1 .. Len(q)
  BY EmptySeq, LenProperties
<1>2. /\ Tail(q) \in Seq(S) /\ Head(q) \in S
      /\ Len(Tail(q)) = Len(q) - 1
      /\ \A i \in 1 .. Len(Tail(q)) : Tail(q)[i] = q[i + 1]
  BY HeadTailProperties
<1>3. DOMAIN Tail(q) = 1 .. Len(q) - 1
  BY <1>2, LenProperties
<1>4. Head(q) = q[1]
  BY <1>1
<1> QED
  BY <1>1, <1>2, <1>3, <1>4

LEMMA AppendFacts ==
  ASSUME NEW S, NEW q \in Seq(S), NEW e \in S
  PROVE  /\ Append(q, e) \in Seq(S)
         /\ Len(q) \in Nat /\ DOMAIN q = 1 .. Len(q)
         /\ DOMAIN Append(q, e) = 1 .. Len(q) + 1
         /\ Append(q, e)[Len(q) + 1] = e
         /\ \A i \in DOMAIN q : Append(q, e)[i] = q[i]
<1>1. /\ Append(q, e) \in Seq(S)
      /\ Len(Append(q, e)) = Len(q) + 1
      /\ \A i \in 1 .. Len(q) : Append(q, e)[i] = q[i]
      /\ Append(q, e)[Len(q) + 1] = e
  BY AppendProperties
<1> QED
  BY <1>1, LenProperties

-----------------------------------------------------------------------------
(* The queue.                                                              *)

CallPcs == {"pause_call", "resume_call"}

\* Initially the queue is empty and only the main thread is started.
LEMMA InitPause == Init => PauseInv
<1> SUFFICES ASSUME Init PROVE PauseInv
  OBVIOUS
<1> USE MainAssumption DEF Init
<1>1. threads \in Seq(Thread) /\ Len(threads) = 1 /\ DOMAIN threads = {1} /\ threads[1] = Main
  OBVIOUS
<1>2. queue \in Seq(Message) /\ DOMAIN queue = {}
  OBVIOUS
<1>3. TypeOK
  BY <1>1, <1>2 DEF TypeOK, IsInjective, Waits, ToSet
<1>4. QueueInv
  BY <1>2 DEF QueueInv, OnePerCaller, OneCreation, AboutListed, AboutCurrent
<1>5. ListedInv
  <2>1. Existing(Main)
    BY <1>1 DEF Existing, ToSet
  <2> QED
    BY <2>1 DEF ListedInv
<1>6. PassedInv /\ OnlyLateRun
  BY DEF PassedInv, OnlyLateRun, Pausing
<1> QED
  BY <1>3, <1>4, <1>5, <1>6 DEF PauseInv

\* A caller that does not wait enqueues one request.
LEMMA CallQueue ==
  ASSUME TypeOK, QueueInv,
         NEW c \in Thread \cup {Ck}, NEW op \in Op, NEW t \in Thread,
         ~Waits(c), Call(c, op, t), UNCHANGED <<threads, left>>,
         op = "create" <=> ~Existing(t),
         op = "create" => \A i \in DOMAIN queue :
                            queue[i].op = "create" => queue[i].on # t,
         c # Ck => UNCHANGED ckPc,
         c = Ck => /\ left > 0 /\ t = Current
                   /\ \/ ckPc' = "pause_call" /\ op = "pause"
                      \/ ckPc' = "resume_call" /\ op = "resume"
  PROVE  /\ QueueInv' /\ queue' \in Seq(Message)
         /\ ckPc' \in CallPcs <=> Waits(Ck)'
<1> DEFINE m == [from |-> c, op |-> op, on |-> t]
           n == Len(queue) + 1
<1>1. queue \in Seq(Message) /\ m \in Message /\ queue' = Append(queue, m)
  BY DEF TypeOK, Message, Call
<1>2. /\ queue' \in Seq(Message)
      /\ n \notin DOMAIN queue
      /\ DOMAIN queue' = DOMAIN queue \cup {n}
      /\ queue'[n] = m
      /\ \A i \in DOMAIN queue : queue'[i] = queue[i]
  BY <1>1, AppendFacts
<1>3. \A i \in DOMAIN queue : queue[i].from # c
  BY DEF Waits
<1>4. m.from = c /\ m.op = op /\ m.on = t
  OBVIOUS
<1> HIDE DEF m, n
<1>5. OnePerCaller'
  BY <1>2, <1>3, <1>4 DEF QueueInv, OnePerCaller
<1>6. OneCreation'
  BY <1>2, <1>4 DEF QueueInv, OneCreation
<1>7. AboutListed'
  BY <1>2, <1>4 DEF QueueInv, AboutListed, Existing
<1>8. CASE c = Ck
  <2>1. \A i \in DOMAIN queue' : queue'[i].from = Ck => i = n
    BY <1>2, <1>3, <1>8
  <2>2. AboutCurrent'
    BY <1>2, <1>4, <1>8, <2>1 DEF AboutCurrent, Current
  <2>3. Waits(Ck)' /\ ckPc' \in CallPcs
    BY <1>2, <1>4, <1>8 DEF Waits, CallPcs
  <2> QED
    BY <1>2, <1>5, <1>6, <1>7, <2>2, <2>3 DEF QueueInv
<1>9. CASE c # Ck
  <2>1. \A i \in DOMAIN queue' : queue'[i].from = Ck => i \in DOMAIN queue
    BY <1>2, <1>4, <1>9
  <2>2. AboutCurrent'
    BY <1>2, <1>9, <2>1 DEF QueueInv, AboutCurrent, Current
  <2>3. Waits(Ck)' <=> Waits(Ck)
    BY <1>2, <2>1 DEF Waits
  <2>4. ckPc' \in CallPcs <=> Waits(Ck)'
    BY <2>3, <1>9 DEF TypeOK, CallPcs
  <2> QED
    BY <1>2, <1>5, <1>6, <1>7, <2>2, <2>4 DEF QueueInv
<1> QED
  BY <1>8, <1>9

\* An answer takes the request at the head away; if it was the checkpointer's,
\* the cursor moves on.
Moved ==
  IF Head(queue).from = Ck
    THEN /\ left > 0 /\ left' = left - 1 /\ Head(queue).on = Current
         /\ \/ ckPc = "pause_call" /\ ckPc' = "pause" /\ Head(queue).op = "pause"
            \/ ckPc = "resume_call" /\ ckPc' = "resume" /\ Head(queue).op = "resume"
    ELSE UNCHANGED <<ckPc, left>>

LEMMA AnswerMoves ==
  ASSUME TypeOK, QueueInv, queue # <<>>, Answer
  PROVE  /\ Moved
         /\ queue' \in Seq(Message)
         /\ OnePerCaller' /\ OneCreation'
         /\ ckPc' \in CallPcs <=> Waits(Ck)'
         /\ Head(queue) = queue[1] /\ 1 \in DOMAIN queue
         /\ Head(queue) \in Message /\ Head(queue).on \in Thread
         /\ \A i \in DOMAIN queue' :
              \E j \in DOMAIN queue : j # 1 /\ queue'[i] = queue[j]
<1>1. queue \in Seq(Message)
  BY DEF TypeOK
<1>2. /\ queue' = Tail(queue) /\ queue' \in Seq(Message)
      /\ Head(queue) = queue[1] /\ Head(queue) \in Message /\ 1 \in DOMAIN queue
      /\ \A i \in DOMAIN queue' :
           i \in Nat /\ i + 1 # 1 /\ i + 1 \in DOMAIN queue /\ queue'[i] = queue[i + 1]
      /\ \A i \in DOMAIN queue : i # 1 =>
           i \in Int /\ i - 1 \in DOMAIN queue' /\ queue'[i - 1] = queue[i]
  BY <1>1, TailFacts DEF Answer
<1>3. OnePerCaller' /\ OneCreation'
  <2> SUFFICES ASSUME NEW i \in DOMAIN queue', NEW j \in DOMAIN queue'
               PROVE  /\ queue'[i].from = queue'[j].from => i = j
                      /\ queue'[i].op = "create" /\ queue'[j].op = "create"
                           /\ queue'[i].on = queue'[j].on => i = j
    BY DEF OnePerCaller, OneCreation
  <2>1. i \in Nat /\ j \in Nat /\ (i + 1 = j + 1 => i = j)
    BY <1>2
  <2>2. /\ i + 1 \in DOMAIN queue /\ queue'[i] = queue[i + 1]
        /\ j + 1 \in DOMAIN queue /\ queue'[j] = queue[j + 1]
    BY <1>2
  <2> QED
    BY <2>1, <2>2 DEF QueueInv, OnePerCaller, OneCreation
<1>4. Head(queue).on \in Thread
  BY <1>2 DEF Message
<1>5. \A i \in DOMAIN queue' :
        \E j \in DOMAIN queue : j # 1 /\ queue'[i] = queue[j]
  BY <1>2
<1>6. CASE Head(queue).from # Ck
  <2>1. UNCHANGED <<ckPc, left>>
    BY <1>6 DEF Answer
  <2>2. ASSUME Waits(Ck) PROVE Waits(Ck)'
    <3>1. PICK i \in DOMAIN queue : queue[i].from = Ck
      BY <2>2 DEF Waits
    <3>2. i - 1 \in DOMAIN queue' /\ queue'[i - 1].from = Ck
      BY <3>1, <1>2, <1>6
    <3> QED
      BY <3>2 DEF Waits
  <2>3. ASSUME Waits(Ck)' PROVE Waits(Ck)
    BY <2>3, <1>5 DEF Waits
  <2>4. ckPc' \in CallPcs <=> Waits(Ck)'
    BY <2>1, <2>2, <2>3 DEF TypeOK, CallPcs
  <2> QED
    BY <1>2, <1>3, <1>4, <1>5, <1>6, <2>1, <2>4 DEF Moved
<1>7. CASE Head(queue).from = Ck
  <2>1. \A j \in DOMAIN queue : j # 1 => queue[j].from # Ck
    BY <1>2, <1>7 DEF QueueInv, OnePerCaller
  <2>2. ~Waits(Ck)'
    BY <1>5, <2>1 DEF Waits
  <2>3. Waits(Ck)
    BY <1>2, <1>7 DEF Waits
  <2>4. ckPc \in CallPcs
    BY <2>3 DEF TypeOK, CallPcs
  <2>5. /\ left' = left - 1
        /\ ckPc' = IF ckPc = "pause_call" THEN "pause" ELSE "resume"
    BY <1>7 DEF Answer
  <2>6. /\ left > 0 /\ Head(queue).on = Current
        /\ ckPc = "pause_call" => Head(queue).op = "pause"
        /\ ckPc = "resume_call" => Head(queue).op = "resume"
    BY <1>2, <1>7 DEF QueueInv, AboutCurrent
  <2>7. Moved
    BY <1>7, <2>4, <2>5, <2>6 DEF Moved, CallPcs
  <2>8. ckPc' \notin CallPcs
    BY <2>4, <2>5 DEF CallPcs
  <2> QED
    BY <1>2, <1>3, <1>4, <1>5, <2>2, <2>7, <2>8
<1> QED
  BY <1>6, <1>7

\* If the list stays as it is, so does the rest of QueueInv.
LEMMA AnswerQueue ==
  ASSUME TypeOK, QueueInv, queue # <<>>, Answer, UNCHANGED threads
  PROVE  /\ QueueInv' /\ left' \in 0 .. Len(threads)
         /\ Head(queue).op # "create" => Existing(Head(queue).on)
<1>1. /\ Moved /\ OnePerCaller' /\ OneCreation'
      /\ Head(queue) = queue[1] /\ 1 \in DOMAIN queue
      /\ \A i \in DOMAIN queue' :
           \E j \in DOMAIN queue : j # 1 /\ queue'[i] = queue[j]
  BY AnswerMoves
<1>2. AboutListed'
  BY <1>1 DEF QueueInv, AboutListed, Existing
<1>3. AboutCurrent'
  <2>1. CASE Head(queue).from = Ck
    BY <1>1, <2>1 DEF QueueInv, OnePerCaller, AboutCurrent
  <2>2. CASE Head(queue).from # Ck
    BY <1>1, <2>2 DEF Moved, QueueInv, AboutCurrent, Current
  <2> QED
    BY <2>1, <2>2
<1>4. left' \in 0 .. Len(threads)
  <2>1. left \in 0 .. Len(threads) /\ Len(threads) \in Nat
    BY LenProperties DEF TypeOK
  <2> QED
    BY <1>1, <2>1 DEF Moved
<1>5. Head(queue).op # "create" => Existing(Head(queue).on)
  BY <1>1 DEF QueueInv, AboutListed
<1> QED
  BY <1>1, <1>2, <1>3, <1>4, <1>5 DEF QueueInv

-----------------------------------------------------------------------------
(* The steps.                                                              *)

\* The element the checkpointer looks at is an element of the list.
LEMMA CurrentFacts ==
  ASSUME TypeOK
  PROVE  /\ Len(threads) \in Nat /\ DOMAIN threads = 1 .. Len(threads)
         /\ left \in Nat /\ left <= Len(threads)
         /\ left > 0 => Current \in Thread /\ Existing(Current)
         /\ \A t : Existing(t) <=> \E j \in 1 .. Len(threads) : t = threads[j]
<1>1. Len(threads) \in Nat /\ DOMAIN threads = 1 .. Len(threads)
  BY LenProperties DEF TypeOK
<1>2. left \in Nat /\ left <= Len(threads)
  BY <1>1 DEF TypeOK
<1>3. \A t : Existing(t) <=> \E j \in 1 .. Len(threads) : t = threads[j]
  BY <1>1 DEF Existing, ToSet
<1>4. left > 0 => Current \in Thread /\ Existing(Current)
  <2> SUFFICES ASSUME left > 0 PROVE Current \in Thread /\ Existing(Current)
    OBVIOUS
  <2>1. Len(threads) - left + 1 \in 1 .. Len(threads)
    BY <1>1, <1>2
  <2>2. Current \in Thread
    BY <2>1, ElementOfSeq DEF TypeOK, Current
  <2> QED
    BY <2>1, <2>2, <1>3 DEF Current
<1> QED
  BY <1>1, <1>2, <1>3, <1>4

\* A call of the target leaves everything but the queue alone.
LEMMA TargetCallPause ==
  ASSUME PauseInv, NEW c \in Thread, NEW t \in Thread, NEW op \in Op, TargetCall(c, op, t)
  PROVE  PauseInv'
<1>1. TypeOK /\ QueueInv /\ ListedInv
  BY DEF PauseInv
<1>2. /\ ~Waits(c) /\ Legal(op, c, t) /\ Call(c, op, t)
      /\ UNCHANGED <<threads, started, stopped, paused, lock, ckPc, left, stored, late>>
  BY DEF TargetCall, thVars, ckVars
<1>3. c # Ck
  BY CkAssumption
<1>4. /\ op = "create" <=> ~Existing(t)
      /\ op = "create" => \A i \in DOMAIN queue : queue[i].op = "create" => queue[i].on # t
  BY <1>1, <1>2 DEF Legal, ListedInv, Op
<1>5. /\ QueueInv' /\ queue' \in Seq(Message)
      /\ ckPc' \in CallPcs <=> Waits(Ck)'
  BY <1>1, <1>2, <1>3, <1>4, CallQueue
<1>6. TypeOK'
  BY <1>1, <1>2, <1>5 DEF TypeOK, CallPcs
<1>7. ListedInv' /\ PassedInv' /\ OnlyLateRun'
  BY <1>2 DEF PauseInv, ListedInv, PassedInv, OnlyLateRun, Existing, Runs, Pausing
<1> QED
  BY <1>5, <1>6, <1>7 DEF PauseInv

\* A call of the checkpointer is for the thread it looks at.
LEMMA CkCallPause ==
  ASSUME PauseInv, CkPause \/ CkResumeThread
  PROVE  PauseInv'
<1>1. TypeOK /\ QueueInv /\ ListedInv
  BY DEF PauseInv
<1>2. PICK op \in {"pause", "resume"} :
        /\ left > 0 /\ Call(Ck, op, Current)
        /\ \/ ckPc = "pause" /\ ckPc' = "pause_call" /\ op = "pause"
           \/ ckPc = "resume" /\ ckPc' = "resume_call" /\ op = "resume"
        /\ UNCHANGED <<threads, started, stopped, paused, lock, left, stored, late>>
  BY DEF CkPause, CkResumeThread, thVars
<1>3. Current \in Thread /\ Existing(Current)
  BY <1>1, <1>2, CurrentFacts
<1>4. ~Waits(Ck)
  BY <1>1, <1>2 DEF TypeOK
<1>5. op \in Op /\ op # "create"
  BY DEF Op
<1>6. /\ QueueInv' /\ queue' \in Seq(Message)
      /\ ckPc' \in CallPcs <=> Waits(Ck)'
  BY <1>1, <1>2, <1>3, <1>4, <1>5, CallQueue
<1>7. TypeOK'
  BY <1>1, <1>2, <1>6 DEF TypeOK, CallPcs
<1>8. ListedInv' /\ PassedInv' /\ OnlyLateRun'
  BY <1>2 DEF PauseInv, ListedInv, PassedInv, OnlyLateRun, Existing, Runs, Pausing
<1> QED
  BY <1>6, <1>7, <1>8 DEF PauseInv

\* A new thread is not started, and the cursor stays on its element.
LEMMA ServeCreatePause ==
  ASSUME PauseInv, ServeCreate
  PROVE  PauseInv'
<1> DEFINE x == Head(queue).on
<1>1. TypeOK /\ QueueInv /\ ListedInv /\ PassedInv /\ OnlyLateRun
  BY DEF PauseInv
<1>2. /\ queue # <<>> /\ Head(queue).op = "create" /\ Answer
      /\ threads' = Cons(x, threads)
      /\ UNCHANGED <<started, stopped, paused, lock, stored, late>>
  BY DEF ServeCreate, AtHead, thVars
<1>3. /\ Moved /\ queue' \in Seq(Message)
      /\ OnePerCaller' /\ OneCreation'
      /\ ckPc' \in CallPcs <=> Waits(Ck)'
      /\ Head(queue) = queue[1] /\ 1 \in DOMAIN queue /\ x \in Thread
      /\ \A i \in DOMAIN queue' :
           \E j \in DOMAIN queue : j # 1 /\ queue'[i] = queue[j]
  BY <1>1, <1>2, AnswerMoves
<1>4. UNCHANGED <<ckPc, left>>
  BY <1>2, <1>3 DEF Moved
<1>5. ~Existing(x) /\ ~started[x]
  BY <1>1, <1>2, <1>3 DEF QueueInv, AboutListed, ListedInv
<1>6. /\ threads' \in Seq(Thread)
      /\ Len(threads') = Len(threads) + 1
      /\ DOMAIN threads' = 1 .. Len(threads) + 1
      /\ threads'[1] = x
      /\ \A i \in 2 .. Len(threads) + 1 : threads'[i] = threads[i - 1]
      /\ ToSet(threads') = {x} \cup ToSet(threads)
  <2>1. threads \in Seq(Thread) /\ x \in Thread /\ threads' = Cons(x, threads)
    BY <1>1, <1>2, <1>3 DEF TypeOK
  <2> HIDE DEF x
  <2> DEFINE c == Cons(x, threads)
  <2>2. /\ c \in Seq(Thread)
        /\ Len(c) = Len(threads) + 1
        /\ DOMAIN c = 1 .. Len(threads) + 1
        /\ c[1] = x
        /\ \A i \in 2 .. Len(threads) + 1 : c[i] = threads[i - 1]
        /\ ToSet(c) = {x} \cup ToSet(threads)
    <3>1. threads \in Seq(Thread) /\ x \in Thread
      BY <2>1
    <3>2. c \in Seq(Thread)
      BY <3>1, ConsFacts
    <3>3. Len(c) = Len(threads) + 1
      BY <3>1, ConsFacts
    <3>4. DOMAIN c = 1 .. Len(threads) + 1
      BY <3>1, ConsFacts
    <3>5. c[1] = x
      BY <3>1, ConsFacts
    <3>6. \A i \in 2 .. Len(threads) + 1 : c[i] = threads[i - 1]
      BY <3>1, ConsFacts
    <3>7. ToSet(c) = {x} \cup ToSet(threads)
      BY <3>1, ConsFacts
    <3> QED
      BY <3>2, <3>3, <3>4, <3>5, <3>6, <3>7
  <2>3. threads' = c
    BY <2>1
  <2> HIDE DEF c
  <2> QED
    BY <2>2, <2>3
<1>7. /\ Len(threads) \in Nat /\ DOMAIN threads = 1 .. Len(threads)
      /\ left \in Nat /\ left <= Len(threads)
      /\ \A t : Existing(t) <=> \E j \in 1 .. Len(threads) : t = threads[j]
  BY <1>1, CurrentFacts
<1> HIDE DEF x
<1>8. IsInjective(threads')
  <2> SUFFICES ASSUME NEW i \in DOMAIN threads', NEW j \in DOMAIN threads',
                      threads'[i] = threads'[j]
               PROVE  i = j
    BY DEF IsInjective
  <2>1. \A k \in DOMAIN threads' : k # 1 =>
          k \in 2 .. Len(threads) + 1 /\ k - 1 \in 1 .. Len(threads)
    BY <1>6, <1>7
  <2>2. \A k \in DOMAIN threads' : k # 1 => threads'[k] = threads[k - 1] /\ threads'[k] # x
    BY <2>1, <1>5, <1>6, <1>7
  <2>3. CASE i = 1 \/ j = 1
    BY <2>2, <2>3, <1>6
  <2>4. CASE i # 1 /\ j # 1
    <3>1. i - 1 = j - 1
      BY <2>1, <2>2, <2>4, <1>1, <1>7 DEF TypeOK, IsInjective
    <3> QED
      BY <3>1, <1>6, <1>7
  <2> QED
    BY <2>3, <2>4
<1>9. TypeOK'
  <2>1. left' \in 0 .. Len(threads')
    BY <1>4, <1>6, <1>7
  <2>2. stored' \subseteq ToSet(threads')
    BY <1>1, <1>2, <1>6 DEF TypeOK
  <2>3. ckPc' \in {"pause_call", "resume_call"} <=> Waits(Ck)'
    BY <1>3 DEF CallPcs
  <2> QED
    BY <1>1, <1>2, <1>3, <1>4, <1>6, <1>8, <2>1, <2>2, <2>3 DEF TypeOK
<1>10. AboutListed'
  <2> SUFFICES ASSUME NEW i \in DOMAIN queue'
               PROVE  queue'[i].op = "create" <=> queue'[i].on \notin ToSet(threads')
    BY DEF AboutListed, Existing
  <2>1. PICK j \in DOMAIN queue : j # 1 /\ queue'[i] = queue[j]
    BY <1>3
  <2>2. queue[j].op = "create" => queue[j].on # queue[1].on
    BY <2>1, <1>1, <1>2, <1>3 DEF QueueInv, OneCreation
  <2>3. queue[j].op = "create" <=> ~Existing(queue[j].on)
    BY <1>1 DEF QueueInv, AboutListed
  <2> QED
    BY <2>1, <2>2, <2>3, <1>3, <1>6 DEF Existing, x
<1>11. AboutCurrent'
  <2>1. left > 0 => Current' = Current
    <3> SUFFICES ASSUME left > 0 PROVE Current' = Current
      OBVIOUS
    <3> DEFINE k == Len(threads) + 1 - left + 1
    <3>1. k \in 2 .. Len(threads) + 1 /\ k - 1 = Len(threads) - left + 1
      BY <1>7
    <3>2. Current' = threads'[k]
      <4>1. Current' = threads'[Len(threads') - left' + 1]
        BY DEF Current
      <4>2. Len(threads') - left' + 1 = k
        BY <1>4, <1>6, <1>7
      <4> QED
        BY <4>1, <4>2
    <3> HIDE DEF k
    <3> QED
      BY <3>1, <3>2, <1>6 DEF Current
  <2> QED
    BY <2>1, <1>1, <1>3, <1>4 DEF QueueInv, AboutCurrent
<1>12. ListedInv'
  BY <1>1, <1>2, <1>6 DEF ListedInv, Existing
<1>13. PassedInv'
  <2> SUFFICES ASSUME Pausing, NEW j \in 1 .. Len(threads) + 1 - left, Runs(threads'[j])
               PROVE  threads'[j] \in late
    <3>1. Len(threads') - left' = Len(threads) + 1 - left
      BY <1>4, <1>6, <1>7
    <3>2. /\ Pausing' <=> Pausing
          /\ late' = late /\ started' = started /\ stopped' = stopped
      BY <1>2, <1>4 DEF Pausing
    <3> QED
      BY <3>1, <3>2 DEF PassedInv, Runs
  <2>1. j # 1
    BY <1>5, <1>6 DEF Runs
  <2>2. j \in 2 .. Len(threads) + 1 /\ j - 1 \in 1 .. Len(threads) - left
    BY <2>1, <1>7
  <2> QED
    BY <2>2, <1>1, <1>6 DEF PassedInv
<1>14. OnlyLateRun'
  BY <1>1, <1>2, <1>4 DEF OnlyLateRun, Runs
<1> QED
  BY <1>3, <1>9, <1>10, <1>11, <1>12, <1>13, <1>14 DEF PauseInv, QueueInv

\* What an answer that leaves the list alone keeps.
LEMMA AnswerTypes ==
  ASSUME PauseInv, queue # <<>>, Answer, Head(queue).op # "create",
         UNCHANGED <<threads, lock, stored>>,
         started' \in [Thread -> BOOLEAN], stopped' \in [Thread -> BOOLEAN],
         paused' \in [Thread -> BOOLEAN], late' \subseteq Thread
  PROVE  /\ TypeOK' /\ QueueInv' /\ Moved
         /\ Head(queue).on \in Thread /\ Existing(Head(queue).on)
<1>1. TypeOK /\ QueueInv
  BY DEF PauseInv
<1>2. /\ Moved /\ queue' \in Seq(Message) /\ Head(queue).on \in Thread
      /\ ckPc' \in CallPcs <=> Waits(Ck)'
  BY <1>1, AnswerMoves
<1>3. QueueInv' /\ left' \in 0 .. Len(threads) /\ Existing(Head(queue).on)
  BY <1>1, AnswerQueue
<1>4. ckPc' \in {"idle", "pause", "pause_call", "store", "resume", "resume_call"}
  BY <1>1, <1>2 DEF Moved, TypeOK
<1>5. TypeOK'
  BY <1>1, <1>2, <1>3, <1>4 DEF TypeOK, CallPcs
<1> QED
  BY <1>2, <1>3, <1>5

\* The cursor passes a thread only when it has been paused.
LEMMA PassedStep ==
  ASSUME PauseInv, Moved, UNCHANGED threads, late \subseteq late',
         \A t \in Thread : Runs(t)' => Runs(t) \/ t \in late' \/ ~(Checkpointing),
         ckPc = "pause_call" /\ Head(queue).from = Ck
           => \A t \in Thread : t = Current => ~Runs(t)'
  PROVE  PassedInv' /\ OnlyLateRun'
<1>1. TypeOK /\ PassedInv /\ OnlyLateRun
  BY DEF PauseInv
<1>2. /\ Len(threads) \in Nat /\ left \in Nat /\ left <= Len(threads)
      /\ \A j \in 1 .. Len(threads) : threads[j] \in Thread
  BY <1>1, CurrentFacts, ElementOfSeq DEF TypeOK
<1>3. OnlyLateRun'
  <2> SUFFICES ASSUME ckPc' = "store", NEW t \in Thread, Runs(t)' PROVE t \in late'
    BY DEF OnlyLateRun
  <2>1. ckPc = "store"
    BY DEF Moved
  <2> QED
    BY <2>1, <1>1 DEF OnlyLateRun, Checkpointing
<1>4. PassedInv'
  <2> SUFFICES ASSUME Pausing', NEW j \in 1 .. Len(threads) - left',
                      NEW t \in Thread, t = threads[j], Runs(t)'
               PROVE  t \in late'
    <3>1. \A j \in 1 .. Len(threads) - left' : Pausing' => threads[j] \in Thread
      BY <1>2 DEF Moved, Pausing
    <3> QED
      BY <3>1 DEF PassedInv, Runs
  <2>1. CASE Head(queue).from # Ck
    <3>1. Pausing /\ left' = left
      BY <2>1 DEF Moved, Pausing
    <3>2. Runs(t) => t \in late
      BY <3>1, <1>1 DEF PassedInv
    <3> QED
      BY <3>1, <3>2 DEF Checkpointing
  <2>2. CASE Head(queue).from = Ck
    <3>1. ckPc = "pause_call" /\ left' = left - 1 /\ left > 0 /\ Pausing
      BY <2>2 DEF Moved, Pausing
    <3>2. CASE j = Len(threads) - left + 1
      BY <3>1, <3>2, <2>2 DEF Current
    <3>3. CASE j # Len(threads) - left + 1
      <4>1. j \in 1 .. Len(threads) - left
        BY <3>1, <3>3, <1>2
      <4>2. Runs(t) => t \in late
        BY <4>1, <3>1, <1>1 DEF PassedInv
      <4> QED
        BY <4>2, <3>1 DEF Checkpointing
    <3> QED
      BY <3>2, <3>3
  <2> QED
    BY <2>1, <2>2
<1> QED
  BY <1>3, <1>4

\* A thread the target starts meanwhile is late.
LEMMA ServeStartPause ==
  ASSUME PauseInv, ServeStart
  PROVE  PauseInv'
<1> DEFINE x == Head(queue).on
<1>1. /\ queue # <<>> /\ Head(queue).op = "start" /\ Answer /\ MarkLate(x)
      /\ started' = [started EXCEPT ![x] = TRUE]
      /\ UNCHANGED <<threads, stopped, paused, lock, stored>>
  BY DEF ServeStart, AtHead
<1>2. TypeOK /\ QueueInv /\ ListedInv
  BY DEF PauseInv
<1>3. x \in Thread
  BY <1>1, <1>2, AnswerMoves
<1>4. /\ started' \in [Thread -> BOOLEAN] /\ stopped' \in [Thread -> BOOLEAN]
      /\ paused' \in [Thread -> BOOLEAN] /\ late' \subseteq Thread /\ late \subseteq late'
  BY <1>1, <1>2, <1>3 DEF TypeOK, MarkLate
<1>5. TypeOK' /\ QueueInv' /\ Moved /\ Existing(x)
  BY <1>1, <1>4, AnswerTypes
<1>6. ListedInv'
  BY <1>1, <1>2, <1>3, <1>5 DEF ListedInv, Existing, TypeOK
<1>7. \A t \in Thread : Runs(t)' => Runs(t) \/ t \in late' \/ ~Checkpointing
  BY <1>1, <1>2, <1>3 DEF Runs, MarkLate, TypeOK
<1>8. Head(queue).from # Ck
  BY <1>1, <1>5 DEF Moved
<1>9. PassedInv' /\ OnlyLateRun'
  BY <1>1, <1>4, <1>5, <1>7, <1>8, PassedStep
<1> QED
  BY <1>5, <1>6, <1>9 DEF PauseInv

\* A paused thread does not run.
LEMMA ServePausePause ==
  ASSUME PauseInv, ServePause
  PROVE  PauseInv'
<1> DEFINE x == Head(queue).on
<1>1. /\ queue # <<>> /\ Head(queue).op = "pause" /\ Answer
      /\ stopped' = [stopped EXCEPT ![x] = started[x]]
      /\ paused' = [paused EXCEPT ![x] = TRUE]
      /\ UNCHANGED <<threads, started, lock, stored, late>>
  BY DEF ServePause, AtHead
<1>2. TypeOK /\ QueueInv /\ ListedInv
  BY DEF PauseInv
<1>3. x \in Thread
  BY <1>1, <1>2, AnswerMoves
<1>4. /\ started' \in [Thread -> BOOLEAN] /\ stopped' \in [Thread -> BOOLEAN]
      /\ paused' \in [Thread -> BOOLEAN] /\ late' \subseteq Thread /\ late \subseteq late'
  BY <1>1, <1>2, <1>3 DEF TypeOK
<1>5. TypeOK' /\ QueueInv' /\ Moved
  BY <1>1, <1>4, AnswerTypes
<1>6. ListedInv'
  BY <1>1, <1>2 DEF ListedInv, Existing
<1>7. \A t \in Thread : (t = x => ~Runs(t)') /\ (Runs(t)' => Runs(t))
  <2> SUFFICES ASSUME NEW t \in Thread
               PROVE  (t = x => ~Runs(t)') /\ (Runs(t)' => Runs(t))
    OBVIOUS
  <2>1. started'[t] = started[t] /\ started[t] \in BOOLEAN
    BY <1>1, <1>2 DEF TypeOK
  <2>2. stopped'[t] = IF t = x THEN started[t] ELSE stopped[t]
    BY <1>1, <1>2 DEF TypeOK
  <2> QED
    BY <2>1, <2>2 DEF Runs
<1>8. Head(queue).from = Ck => x = Current
  BY <1>5 DEF Moved
<1>9. PassedInv' /\ OnlyLateRun'
  BY <1>1, <1>4, <1>5, <1>7, <1>8, PassedStep
<1> QED
  BY <1>5, <1>6, <1>9 DEF PauseInv

\* A thread the target resumes meanwhile is late; the checkpointer resumes
\* only after the checkpoint.
LEMMA ServeResumePause ==
  ASSUME PauseInv, ServeResume
  PROVE  PauseInv'
<1> DEFINE x == Head(queue).on
<1>1. /\ queue # <<>> /\ Head(queue).op = "resume" /\ Answer
      /\ stopped' = [stopped EXCEPT ![x] = FALSE]
      /\ paused' = [paused EXCEPT ![x] = FALSE]
      /\ IF Head(queue).from = Ck THEN UNCHANGED late ELSE MarkLate(x)
      /\ UNCHANGED <<threads, started, lock, stored>>
  BY DEF ServeResume, AtHead
<1>2. TypeOK /\ QueueInv /\ ListedInv
  BY DEF PauseInv
<1>3. x \in Thread
  BY <1>1, <1>2, AnswerMoves
<1>4. /\ started' \in [Thread -> BOOLEAN] /\ stopped' \in [Thread -> BOOLEAN]
      /\ paused' \in [Thread -> BOOLEAN] /\ late' \subseteq Thread /\ late \subseteq late'
  BY <1>1, <1>2, <1>3 DEF TypeOK, MarkLate
<1>5. TypeOK' /\ QueueInv' /\ Moved
  BY <1>1, <1>4, AnswerTypes
<1>6. ListedInv'
  BY <1>1, <1>2 DEF ListedInv, Existing
<1>7. Head(queue).from = Ck => ckPc = "resume_call"
  BY <1>1, <1>5 DEF Moved
<1>8. \A t \in Thread : Runs(t)' => Runs(t) \/ t \in late' \/ ~Checkpointing
  BY <1>1, <1>2, <1>3, <1>7 DEF Runs, MarkLate, TypeOK, Checkpointing, Pausing
<1>9. PassedInv' /\ OnlyLateRun'
  BY <1>1, <1>4, <1>5, <1>7, <1>8, PassedStep
<1> QED
  BY <1>5, <1>6, <1>9 DEF PauseInv

\* A step that leaves the queue and the list alone and is no call.
LEMMA QuietQueue ==
  ASSUME TypeOK, QueueInv, UNCHANGED <<threads, queue>>,
         \/ UNCHANGED <<ckPc, left>>
         \/ ckPc \notin CallPcs /\ ckPc' \notin CallPcs
  PROVE  QueueInv' /\ (ckPc' \in CallPcs <=> Waits(Ck)')
<1>1. Waits(Ck)' <=> Waits(Ck)
  BY DEF Waits
<1>2. ckPc' \in CallPcs <=> Waits(Ck)'
  BY <1>1 DEF TypeOK, CallPcs
<1>3. OnePerCaller' /\ OneCreation' /\ AboutListed'
  BY DEF QueueInv, OnePerCaller, OneCreation, AboutListed, Existing
<1>4. AboutCurrent'
  <2>1. CASE UNCHANGED <<ckPc, left>>
    BY <2>1 DEF QueueInv, AboutCurrent, Current
  <2>2. CASE ckPc \notin CallPcs
    BY <2>2 DEF TypeOK, Waits, AboutCurrent, CallPcs
  <2> QED
    BY <2>1, <2>2
<1> QED
  BY <1>2, <1>3, <1>4 DEF QueueInv

\* Only CkPaused turns what PassedInv says into what OnlyLateRun says.
LEMMA QuietPause ==
  ASSUME PauseInv,
         ServeKill \/ CkStart \/ CkPaused \/ CkStore \/ CkReturn
           \/ CkResume \/ CkResumed \/ UNCHANGED vars
  PROVE  PauseInv'
<1> USE DEF thVars, ckVars, vars
<1>1. TypeOK /\ QueueInv /\ ListedInv /\ PassedInv /\ OnlyLateRun
  BY DEF PauseInv
<1>2. /\ Len(threads) \in Nat
      /\ left \in Nat /\ left <= Len(threads)
      /\ left > 0 => Existing(Current)
      /\ \A t : Existing(t) <=> \E j \in 1 .. Len(threads) : t = threads[j]
  BY <1>1, CurrentFacts
<1>3. /\ UNCHANGED <<threads, started, stopped, paused, queue>>
      /\ \/ UNCHANGED <<ckPc, left>>
         \/ ckPc \notin CallPcs /\ ckPc' \notin CallPcs
  BY DEF ServeKill, CkStart, CkPaused, CkStore, CkReturn, CkResume, CkResumed, CallPcs
<1>4. QueueInv' /\ (ckPc' \in CallPcs <=> Waits(Ck)')
  BY <1>1, <1>3, QuietQueue
<1>5. ckPc' \in {"idle", "pause", "pause_call", "store", "resume", "resume_call"}
  BY <1>1 DEF TypeOK, ServeKill, CkStart, CkPaused, CkStore, CkReturn, CkResume, CkResumed
<1>6. left' \in 0 .. Len(threads)
  BY <1>2 DEF ServeKill, CkStart, CkPaused, CkStore, CkReturn, CkResume, CkResumed
<1>7. lock' \in {"free", "entrypoint", "checkpointer"}
  BY <1>1 DEF TypeOK, ServeKill, CkStart, CkPaused, CkStore, CkReturn, CkResume, CkResumed
<1>8. stored' \subseteq ToSet(threads) /\ late' \subseteq Thread
  BY <1>1, <1>2 DEF TypeOK, ServeKill, CkStart, CkPaused, CkStore, CkReturn, CkResume,
                    CkResumed, Existing
<1>9. TypeOK'
  BY <1>1, <1>3, <1>4, <1>5, <1>6, <1>7, <1>8 DEF TypeOK, CallPcs
<1>10. ListedInv'
  BY <1>1, <1>3 DEF ListedInv, Existing
<1>11. PassedInv'
  <2>1. CASE CkStart
    BY <2>1, <1>2 DEF CkStart, PassedInv
  <2>2. CASE ~CkStart
    BY <2>2, <1>1 DEF PassedInv, Pausing, Runs, ServeKill, CkPaused, CkStore, CkReturn,
                      CkResume, CkResumed
  <2> QED
    BY <2>1, <2>2
<1>12. OnlyLateRun'
  <2>1. CASE CkPaused
    <3> SUFFICES ASSUME NEW t \in Thread, Runs(t) PROVE t \in late
      BY <2>1 DEF CkPaused, OnlyLateRun, Runs
    <3>1. PICK j \in 1 .. Len(threads) : t = threads[j]
      BY <1>1, <1>2 DEF ListedInv, Runs
    <3>2. j \in 1 .. Len(threads) - left /\ Pausing
      BY <2>1, <3>1, <1>2 DEF CkPaused, Pausing
    <3> QED
      BY <3>1, <3>2, <1>1 DEF PassedInv
  <2>2. CASE ~CkPaused
    BY <2>2, <1>1 DEF OnlyLateRun, Runs, ServeKill, CkStart, CkStore, CkReturn, CkResume,
                      CkResumed
  <2> QED
    BY <2>1, <2>2
<1> QED
  BY <1>4, <1>9, <1>10, <1>11, <1>12 DEF PauseInv

-----------------------------------------------------------------------------
(* What _prepare_cpu_threads has stored.                                   *)

\* The kernel stops only started threads, and the elements before the cursor
\* of _prepare_cpu_threads that the target has not set running meanwhile are
\* stored.
StoreInv ==
  /\ \A t \in Thread : stopped[t] => started[t]
  /\ ckPc = "store" =>
       \A j \in 1 .. Len(threads) - left :
         started[threads[j]] => threads[j] \in stored \cup late

\* Answering a request of the target does not move the cursor.
LEMMA AnswerStore ==
  ASSUME PauseInv, StoreInv, queue # <<>>, Answer, UNCHANGED <<threads, stored>>,
         late \subseteq late',
         \A t \in Thread : started'[t] => started[t] \/ t \in late' \/ ~Checkpointing,
         \A t \in Thread : stopped'[t] => started'[t]
  PROVE  StoreInv'
<1>1. TypeOK /\ QueueInv
  BY DEF PauseInv
<1>2. Moved
  BY <1>1, AnswerMoves
<1> SUFFICES ASSUME ckPc' = "store", NEW j \in 1 .. Len(threads) - left',
                    started'[threads[j]]
             PROVE  threads[j] \in stored \cup late'
  BY DEF StoreInv
<1>3. ckPc = "store" /\ left' = left
  BY <1>2 DEF Moved
<1>4. Len(threads) \in Nat /\ left \in Nat
  BY <1>1, CurrentFacts
<1>5. threads[j] \in Thread
  BY <1>1, <1>3, <1>4, ElementOfSeq DEF TypeOK
<1> QED
  BY <1>3, <1>5 DEF StoreInv, Checkpointing

\* A new element is not started.
LEMMA CreateStore ==
  ASSUME PauseInv, StoreInv, ServeCreate
  PROVE  StoreInv'
<1> DEFINE x == Head(queue).on
<1>1. TypeOK /\ QueueInv /\ ListedInv
  BY DEF PauseInv
<1>2. /\ queue # <<>> /\ Head(queue).op = "create" /\ Answer
      /\ threads' = Cons(x, threads)
      /\ UNCHANGED <<started, stopped, stored, late>>
  BY DEF ServeCreate, AtHead, thVars
<1>3. Moved /\ Head(queue) = queue[1] /\ 1 \in DOMAIN queue /\ x \in Thread
  BY <1>1, <1>2, AnswerMoves
<1>4. UNCHANGED <<ckPc, left>>
  BY <1>2, <1>3 DEF Moved
<1>5. ~started[x]
  BY <1>1, <1>2, <1>3 DEF QueueInv, AboutListed, ListedInv
<1>6. threads \in Seq(Thread)
  BY <1>1 DEF TypeOK
<1> HIDE DEF x
<1>7. /\ Len(threads') = Len(threads) + 1
      /\ threads'[1] = x
      /\ \A i \in 2 .. Len(threads) + 1 : threads'[i] = threads[i - 1]
  <2> DEFINE c == Cons(x, threads)
  <2>1. Len(c) = Len(threads) + 1
    BY <1>3, <1>6, ConsFacts
  <2>2. c[1] = x
    BY <1>3, <1>6, ConsFacts
  <2>3. \A i \in 2 .. Len(threads) + 1 : c[i] = threads[i - 1]
    BY <1>3, <1>6, ConsFacts
  <2> QED
    BY <1>2, <2>1, <2>2, <2>3
<1>8. Len(threads) \in Nat /\ left \in Nat
  BY <1>1, CurrentFacts
<1>9. Len(threads') - left' = Len(threads) + 1 - left
  BY <1>4, <1>7, <1>8
<1> SUFFICES ASSUME ckPc = "store", NEW j \in 1 .. Len(threads) + 1 - left,
                    started[threads'[j]]
             PROVE  threads'[j] \in stored \cup late
  BY <1>2, <1>4, <1>9 DEF StoreInv
<1>10. j # 1
  BY <1>5, <1>7
<1>11. j \in 2 .. Len(threads) + 1 /\ j - 1 \in 1 .. Len(threads) - left
  BY <1>8, <1>10
<1> QED
  BY <1>7, <1>11 DEF StoreInv

\* Every step keeps StoreInv.
LEMMA StepStore == PauseInv /\ StoreInv /\ [Next]_vars => StoreInv'
<1> SUFFICES ASSUME PauseInv, StoreInv, [Next]_vars PROVE StoreInv'
  OBVIOUS
<1> USE DEF thVars, ckVars
<1>1. TypeOK /\ QueueInv
  BY DEF PauseInv
<1>2. \A t \in Thread : stopped[t] => started[t]
  BY DEF StoreInv
<1>3. CASE \/ \E c, t \in Thread, op \in Op : TargetCall(c, op, t)
           \/ ServeKill \/ CkStart \/ CkPause \/ CkReturn
           \/ CkResume \/ CkResumeThread \/ CkResumed \/ UNCHANGED vars
  BY <1>3 DEF StoreInv, TargetCall, ServeKill, CkStart, CkPause, CkReturn, CkResume,
              CkResumeThread, CkResumed, vars
<1>4. CASE ServeCreate
  BY <1>4, CreateStore
<1>5. CASE ServeStart
  <2> DEFINE x == Head(queue).on
  <2>1. /\ queue # <<>> /\ Answer /\ UNCHANGED <<threads, stopped, stored>>
        /\ started' = [started EXCEPT ![x] = TRUE] /\ MarkLate(x)
    BY <1>5 DEF ServeStart, AtHead
  <2>2. late \subseteq late' /\ (Checkpointing => x \in late')
    BY <2>1 DEF MarkLate
  <2>3. \A t \in Thread : started'[t] => started[t] \/ t = x
    BY <2>1, <1>1 DEF TypeOK
  <2>4. \A t \in Thread : started[t] => started'[t]
    BY <2>1, <1>1 DEF TypeOK
  <2>5. \A t \in Thread : stopped'[t] => started'[t]
    BY <2>1, <2>4, <1>2
  <2> QED
    BY <2>1, <2>2, <2>3, <2>5, AnswerStore
<1>6. CASE ServePause
  <2> DEFINE x == Head(queue).on
  <2>1. /\ queue # <<>> /\ Answer /\ UNCHANGED <<threads, started, stored, late>>
        /\ stopped' = [stopped EXCEPT ![x] = started[x]]
    BY <1>6 DEF ServePause, AtHead
  <2>2. \A t \in Thread : stopped'[t] => started'[t]
    <3> SUFFICES ASSUME NEW t \in Thread PROVE stopped'[t] => started[t]
      BY <2>1
    <3>1. stopped'[t] = IF t = x THEN started[t] ELSE stopped[t]
      BY <2>1, <1>1 DEF TypeOK
    <3> QED
      BY <3>1, <1>2
  <2> QED
    BY <2>1, <2>2, AnswerStore
<1>7. CASE ServeResume
  <2> DEFINE x == Head(queue).on
  <2>1. /\ queue # <<>> /\ Answer /\ UNCHANGED <<threads, started, stored>>
        /\ stopped' = [stopped EXCEPT ![x] = FALSE] /\ late \subseteq late'
    BY <1>7 DEF ServeResume, AtHead, MarkLate
  <2>2. \A t \in Thread : stopped'[t] => stopped[t]
    BY <2>1, <1>1 DEF TypeOK
  <2> QED
    BY <2>1, <2>2, <1>2, AnswerStore
<1>8. CASE CkPaused
  <2>1. \A j \in 1 .. Len(threads) - Len(threads) : FALSE
    BY <1>1, CurrentFacts
  <2> QED
    BY <1>8, <2>1 DEF CkPaused, StoreInv
<1>9. CASE CkStore
  <2>1. /\ ckPc = "store" /\ left > 0 /\ left' = left - 1
        /\ stored' = stored \cup {Current}
        /\ UNCHANGED <<threads, started, stopped, ckPc, late>>
    BY <1>9 DEF CkStore
  <2>2. Len(threads) \in Nat /\ left \in Nat
    BY <1>1, CurrentFacts
  <2> SUFFICES ASSUME NEW j \in 1 .. Len(threads) - (left - 1), started[threads[j]]
               PROVE  threads[j] \in stored \cup {Current} \cup late
    BY <2>1 DEF StoreInv
  <2>3. j \in 1 .. Len(threads) - left \/ j = Len(threads) - left + 1
    BY <2>2
  <2> QED
    BY <2>1, <2>3 DEF StoreInv, Current
<1> QED
  BY <1>3, <1>4, <1>5, <1>6, <1>7, <1>8, <1>9 DEF Next, Entrypoint, CheckpointerStep

-----------------------------------------------------------------------------
(* Theorems.                                                               *)

\* Every step keeps PauseInv.
LEMMA StepPause == PauseInv /\ [Next]_vars => PauseInv'
<1> SUFFICES ASSUME PauseInv, [Next]_vars PROVE PauseInv'
  OBVIOUS
<1>1. CASE \E c, t \in Thread, op \in Op : TargetCall(c, op, t)
  BY <1>1, TargetCallPause
<1>2. CASE ServeCreate
  BY <1>2, ServeCreatePause
<1>3. CASE ServeStart
  BY <1>3, ServeStartPause
<1>4. CASE ServePause
  BY <1>4, ServePausePause
<1>5. CASE ServeResume
  BY <1>5, ServeResumePause
<1>6. CASE CkPause \/ CkResumeThread
  BY <1>6, CkCallPause
<1>7. CASE \/ ServeKill \/ CkStart \/ CkPaused \/ CkStore \/ CkReturn
           \/ CkResume \/ CkResumed \/ UNCHANGED vars
  BY <1>7, QuietPause
<1> QED
  BY <1>1, <1>2, <1>3, <1>4, <1>5, <1>6, <1>7 DEF Next, Entrypoint, CheckpointerStep

LEMMA PauseInvariant == Spec => []PauseInv
<1> QED
  BY InitPause, StepPause, PTL DEF Spec

\* Whatever threads the target creates, and in whatever order its requests and
\* the checkpointer's reach the entrypoint: cpu_threads holds no thread twice,
\* the checkpointer's place in it stays inside the list although create_thread
\* puts new elements in front of it, and only listed threads are stored.
THEOREM TypeCorrect == Spec => []TypeOK
<1>1. PauseInv => TypeOK
  BY DEF PauseInv
<1> QED
  BY <1>1, PauseInvariant, PTL

\* When pause_threads has gone through the list, the only threads that run are
\* those the target itself has started or resumed since checkpoint() began:
\* the loop skips no thread, for any number of them.
THEOREM OnlyLateRuns == Spec => []OnlyLateRun
<1>1. PauseInv => OnlyLateRun
  BY DEF PauseInv
<1> QED
  BY <1>1, PauseInvariant, PTL

\* When the checkpoint returns, every thread it paused has been stored, for any
\* number of threads: _prepare_cpu_threads skips none, although the target may
\* have created others between the two walks of the list.
THEOREM StoresPaused == Spec => PausedAreStored
<1>1. Init => StoreInv
  BY DEF Init, StoreInv
<1>2. PauseInv /\ StoreInv
        => (CkReturn => \A t \in Thread : stopped[t] /\ t \notin late => t \in stored)
  <2> SUFFICES ASSUME PauseInv, StoreInv, CkReturn,
                      NEW t \in Thread, stopped[t], t \notin late
               PROVE  t \in stored
    OBVIOUS
  <2>1. TypeOK /\ ListedInv
    BY DEF PauseInv
  <2>2. Len(threads) \in Nat /\ \A u : Existing(u) <=> \E j \in 1 .. Len(threads) : u = threads[j]
    BY <2>1, CurrentFacts
  <2>3. started[t]
    BY DEF StoreInv
  <2>4. PICK j \in 1 .. Len(threads) : t = threads[j]
    BY <2>1, <2>2, <2>3 DEF ListedInv
  <2>5. ckPc = "store" /\ j \in 1 .. Len(threads) - left
    BY <2>2 DEF CkReturn
  <2> QED
    BY <2>3, <2>4, <2>5 DEF StoreInv
<1>3. Spec => []StoreInv
  BY <1>1, StepStore, PauseInvariant, PTL DEF Spec
<1> QED
  BY <1>2, <1>3, PauseInvariant, PTL DEF PausedAreStored

=============================================================================
