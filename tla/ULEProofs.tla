----------------------------- MODULE ULEProofs -----------------------------
(***************************************************************************)
(* Proof that the locks of the scheduler keep every thread in one place,   *)
(* that no CPU halts with a thread in its queue that preempts its idle     *)
(* thread, and that CPUs do not spin for each other in a circle, for any   *)
(* number of CPUs and threads.                                             *)
(***************************************************************************)
EXTENDS ULE, FiniteSetTheorems, WellFoundedInduction, TLAPS

CpuState == [pc : Label, op : Op, td : Thread \cup {Idle, None}, from : CPU \cup {None},
             to : CPU \cup {None}, mtx : CPU \cup {SleepQ, None}]

\* The types, without the bound of the load, which the other parts give.
Typed ==
    /\ queue \in [CPU -> SUBSET Thread] /\ load \in [CPU -> Int]
    /\ lock \in [CPU -> CPU \cup {None}]
    /\ cur \in [CPU -> Thread \cup {Idle, None}]
    /\ td_lock \in [Thread -> CPU \cup {SleepQ, Blocked}] /\ asleep \subseteq Thread
    /\ cpu_idle \in [CPU -> BOOLEAN] /\ ipi \in [CPU -> BOOLEAN]
    /\ idlepc \in [CPU -> IdleLabel] /\ cpu \in [CPU -> CpuState]

\* What the local state of a CPU is at each label.  mtx says what becomes of the thread
\* that runs: None, it stays; the CPU itself, it is queued again; SleepQ, it goes to sleep;
\* another CPU, it migrates there.
ShapeOf(c) ==
    LET s == cpu[c]
    IN  /\ s.pc \in IdleLabel \cup {"halt"} => s = Running(s.pc) /\ cur[c] = Idle
        /\ s.pc = "run" => s = Running(s.pc) /\ cur[c] \in Thread
        /\ s.pc = "setcpu" => s.op = "wake" /\ s.td \in Thread /\ s.to \in CPU /\ s.mtx = None /\ cur[c] # None
        /\ s.pc = "spin" => s.td # None /\ cur[c] = None /\ s.mtx = None
        /\ s.pc = "choose" => cur[c] # None /\ IF cur[c] = Idle THEN s.mtx \in {None, c} ELSE s.mtx # None
        /\ s.pc = "notify" =>
             /\ s.to \in CPU \ {c} /\ cur[c] # None /\ s.op \in {"wake", "balance", "migrate"}
             /\ s.op = "balance" => s.from \in CPU \ {s.to}
             /\ IF s.op = "migrate" THEN s.from = c /\ s.mtx = s.to /\ cur[c] \in Thread ELSE s.mtx = None
        /\ s.pc = "search" => \/ s.op = "trysteal" /\ s.mtx = SleepQ /\ cur[c] \in Thread
                              \/ s.op = "idled" /\ s.mtx = None /\ cur[c] = Idle
        /\ s.pc \in {"pair1", "pair2", "move"} =>
             /\ s.from \in CPU /\ s.to \in CPU \ {s.from}
             /\ \/ s.op = "trysteal" /\ s.mtx = SleepQ /\ s.to = c /\ cur[c] \in Thread
                \/ s.op = "idled" /\ s.mtx = None /\ s.to = c /\ cur[c] = Idle
                \/ s.op = "balance" /\ s.mtx = None /\ cur[c] # None
                \/ s.op = "migrate" /\ s.pc # "move" /\ s.mtx = s.to /\ s.from = c /\ cur[c] \in Thread /\ s.td = cur[c]

\* The tdq locks that a CPU holds at each label.
Holds(c) ==
    CASE cpu[c].pc \in {"choose", "spin"} -> {c}
      [] cpu[c].pc = "pair2" -> {First(c)}
      [] cpu[c].pc = "move" -> {cpu[c].from, cpu[c].to}
      [] cpu[c].pc = "notify" -> IF cpu[c].op = "wake" THEN {cpu[c].to} ELSE {cpu[c].from, cpu[c].to}
      [] OTHER -> {}
LockInv == \A c, x \in CPU : lock[x] = c <=> x \in Holds(c)

\* The thread that tdq_move waits for stays in its queue, which is locked.
MoveOf(c) == cpu[c].pc = "move" => cpu[c].td \in queue[cpu[c].from]

\* The threads that belong to a CPU: those of its queue, and the one it is switching to.
Spins(c) == IF cpu[c].pc = "spin" THEN {cpu[c].td} \ {Idle} ELSE {}
Has(c) == queue[c] \cup Spins(c)
Wakes(c, t) == cpu[c].pc = "setcpu" /\ cpu[c].td = t

HasOf(c) ==
    /\ queue[c] \cap Spins(c) = {}
    /\ \A t \in Has(c) : t \notin asleep /\ td_lock[t] \in {c, Blocked} /\ \A k \in CPU : t \in Has(k) => k = c

\* Where the thread that runs on a CPU is, and its lock.
CurOf(c) == cur[c] \in Thread =>
    LET t == cur[c]
        m == cpu[c].mtx
    IN  /\ \A k \in CPU : cur[k] = t => k = c
        /\ m = None => td_lock[t] = c /\ t \notin asleep /\ t \notin Has(c)
        /\ m = c => td_lock[t] = c /\ t \in queue[c]
        /\ m = SleepQ => td_lock[t] = Blocked /\ t \in asleep
        /\ m \in CPU \ {c} =>
             /\ td_lock[t] = Blocked /\ t \notin asleep
             /\ IF cpu[c].pc \in {"pair1", "pair2"} THEN \A x \in CPU : t \notin Has(x) ELSE t \in Has(m)

\* A thread that sched_add has taken from its sleep queue is nowhere else.
WakeOf(c) == \A t \in Thread : Wakes(c, t) =>
    /\ td_lock[t] = Blocked /\ t \notin asleep
    /\ \A k \in CPU : cur[k] # t /\ t \notin Has(k) /\ (Wakes(k, t) => k = c)

\* A thread with the lock of a sleep queue has left its CPU; one that is awake is somewhere.
RestOf(t) ==
    /\ td_lock[t] = SleepQ => t \in asleep /\ \A c \in CPU : cur[c] # t
    /\ t \in asleep \/ \E c \in CPU : cur[c] = t \/ t \in Has(c) \/ Wakes(c, t)

ThreadInv == (\A c \in CPU : HasOf(c) /\ CurOf(c) /\ WakeOf(c)) /\ \A t \in Thread : RestOf(t)

\* tdq_load counts the queue, and the thread that runs, or is switched to, and stays.
Counted(c) == IF cpu[c].pc = "spin" THEN cpu[c].td # Idle ELSE cpu[c].mtx = None /\ cur[c] # Idle
Own(c) == IF Counted(c) THEN 1 ELSE 0
LoadInv == \A c \in CPU : load[c] = Cardinality(queue[c]) + Own(c)

\* tdq_cpu_idle is set when the load is read for the last time before the CPU halts, also
\* when an interrupt comes between.
IdleOf(c) ==
    /\ cpu[c].pc \in {"reread", "halt"} => cpu_idle[c]
    /\ (cur[c] # Idle \/ cpu[c].pc = "choose") /\ idlepc[c] = "reread" => cpu_idle[c]

\* The inductive invariant.
LocalInv == (\A c \in CPU : ShapeOf(c) /\ MoveOf(c) /\ IdleOf(c)) /\ LockInv /\ NoThreadStranded
IInv == Typed /\ LocalInv /\ ThreadInv /\ LoadInv

-----------------------------------------------------------------------------
(* Facts that several actions need.                                        *)

\* tdq_lock_pair takes the lock with the lower address first.
LEMMA PairOrdered ==
    ASSUME NEW c \in CPU, cpu[c].from \in CPU, cpu[c].to \in CPU, cpu[c].from # cpu[c].to
    PROVE  /\ First(c) \in CPU /\ Second(c) \in CPU /\ First(c) < Second(c)
           /\ {First(c), Second(c)} = {cpu[c].from, cpu[c].to}
<1> DEFINE S == {cpu[c].from, cpu[c].to}
<1>1. S \subseteq Nat  BY ULEAssumption
<1>2. PICK m \in S : \A y \in S : m <= y  BY <1>1
<1>3. Min(S) \in S /\ \A y \in S : Min(S) <= y  BY <1>2 DEF Min
<1>4. First(c) \in S /\ \A y \in S : First(c) <= y  BY <1>3 DEF First
<1>5. QED  BY <1>1, <1>4, ULEAssumption DEF Second

\* What the step of c may do to the lock of x: nothing, take it, or give it up.
LockStep(c, x) ==
    \/ lock'[x] = lock[x] /\ (x \in Holds(c)' <=> x \in Holds(c))
    \/ lock'[x] = c /\ x \in Holds(c)' /\ lock[x] \in {c, None}
    \/ lock'[x] = None /\ x \notin Holds(c)' /\ lock[x] \in {c, None}

\* A step of c that changes only what c has, or what it holds the locks of, and that wakes
\* whom it gives a thread, keeps the locks and the idle CPUs in order.
LEMMA LocalStep ==
    ASSUME IInv, NEW c \in CPU, cpu[c].pc # "notify",
           \A k \in CPU \ {c} : /\ cpu'[k] = cpu[k] /\ cur'[k] = cur[k] /\ idlepc'[k] = idlepc[k]
                                /\ cpu_idle'[k] = cpu_idle[k] /\ ipi'[k] = ipi[k],
           ShapeOf(c)', MoveOf(c)', IdleOf(c)',
           \A x \in CPU : LockStep(c, x),
           \A k \in CPU \ {c}, x \in CPU : lock[x] = k => queue[x] \subseteq queue'[x],
           \A k \in CPU \ {c} : queue'[k] \subseteq queue[k] \cup lowest \/ Notifies(c, k)',
           cpu'[c].pc # "halt" \/ queue'[c] = {}
    PROVE  LocalInv'
<1> USE DEF IInv, LocalInv
<1>1. \A k \in CPU \ {c} : ShapeOf(k)' /\ IdleOf(k)'  BY DEF ShapeOf, IdleOf
<1>2. \A k \in CPU \ {c} : Holds(k)' = Holds(k)  BY DEF Holds, First
<1>3. \A k \in CPU \ {c} : MoveOf(k)'
  <2> SUFFICES ASSUME NEW k \in CPU \ {c}, cpu[k].pc = "move" PROVE cpu[k].td \in queue'[cpu[k].from]
    BY DEF MoveOf
  <2>1. cpu[k].from \in CPU /\ cpu[k].from \in Holds(k)  BY DEF ShapeOf, Holds
  <2>2. lock[cpu[k].from] = k  BY <2>1 DEF LockInv
  <2>3. QED  BY <2>1, <2>2 DEF MoveOf
<1>4. LockInv'
  <2> SUFFICES ASSUME NEW k \in CPU, NEW x \in CPU PROVE lock'[x] = k <=> x \in Holds(k)'  BY DEF LockInv
  <2>1. LockStep(c, x) /\ None \notin CPU /\ (lock[x] = k <=> x \in Holds(k)) /\ (lock[x] = c <=> x \in Holds(c))
    BY ULEAssumption DEF LockInv
  <2>2. QED  BY <1>2, <2>1 DEF LockStep
<1>5. NoThreadStranded'
  <2> SUFFICES ASSUME NEW k \in CPU, cpu'[k].pc = "halt", ~(queue'[k] \subseteq lowest)
               PROVE  ipi'[k] \/ \E j \in CPU : Notifies(j, k)'
    BY DEF NoThreadStranded
  <2>1. k # c /\ cpu[k].pc = "halt" /\ ipi'[k] = ipi[k]  OBVIOUS
  <2>2. CASE queue'[k] \subseteq queue[k] \cup lowest
    <3>1. ipi[k] \/ \E j \in CPU : Notifies(j, k)  BY <2>1, <2>2 DEF NoThreadStranded
    <3>2. \A j \in CPU : Notifies(j, k) => Notifies(j, k)'  BY DEF Notifies
    <3>3. QED  BY <2>1, <3>1, <3>2
  <2>3. CASE Notifies(c, k)'  BY <2>3
  <2>4. QED  BY <2>1, <2>2, <2>3
<1>6. QED  BY <1>1, <1>3, <1>4, <1>5

\* A step that leaves the threads where they are.
LEMMA QuietStep ==
    ASSUME Typed, ThreadInv, LoadInv, UNCHANGED <<queue, load, tdVars>>,
           \A k \in CPU : /\ {cpu[k].pc, cpu'[k].pc} \cap {"spin", "setcpu"} # {} => cpu'[k] = cpu[k]
                          /\ cur[k] # Idle => cpu'[k].mtx = cpu[k].mtx
                          /\ cpu[k].mtx \in CPU => (cpu'[k].pc \in {"pair1", "pair2"} <=> cpu[k].pc \in {"pair1", "pair2"})
    PROVE  ThreadInv' /\ LoadInv'
<1> USE DEF tdVars
<1>1. \A k \in CPU : Spins(k)' = Spins(k) /\ Has(k)' = Has(k)  BY DEF Has, Spins
<1>2. \A k \in CPU, t \in Thread : Wakes(k, t)' <=> Wakes(k, t)  BY DEF Wakes
<1>3. \A k \in CPU : HasOf(k)'  BY <1>1 DEF HasOf, ThreadInv
<1>4. ASSUME NEW k \in CPU, cur[k] \in Thread PROVE CurOf(k)'
  <2>1. cpu'[k].mtx = cpu[k].mtx /\ CurOf(k)  BY <1>4, ULEAssumption DEF ThreadInv
  <2>2. QED  BY <1>1, <1>4, <2>1 DEF CurOf
<1>5. \A k \in CPU : WakeOf(k)'  BY <1>1, <1>2 DEF WakeOf, ThreadInv
<1>6. \A t \in Thread : RestOf(t)'  BY <1>1, <1>2 DEF RestOf, ThreadInv
<1>7. LoadInv'  BY DEF LoadInv, Own, Counted
<1>8. QED  BY <1>3, <1>4, <1>5, <1>6, <1>7 DEF ThreadInv, CurOf

\* Both at once: c changes its own state only, and takes or gives up locks.
LEMMA QuietKeeps ==
    ASSUME IInv, NEW c \in CPU, cpu[c].pc \notin {"notify", "spin", "setcpu"},
           UNCHANGED <<queue, load, tdVars>>, NEW s \in CpuState, cpu' = [cpu EXCEPT ![c] = s],
           s.pc \notin {"spin", "setcpu"}, cur[c] # Idle => s.mtx = cpu[c].mtx,
           cpu[c].mtx \in CPU => (s.pc \in {"pair1", "pair2"} <=> cpu[c].pc \in {"pair1", "pair2"}),
           ShapeOf(c)', MoveOf(c)', IdleOf(c)', s.pc # "halt" \/ queue[c] = {},
           lock' \in [CPU -> CPU \cup {None}], \A x \in CPU : LockStep(c, x),
           ipi' \in [CPU -> BOOLEAN], cpu_idle' \in [CPU -> BOOLEAN], idlepc' \in [CPU -> IdleLabel],
           \A k \in CPU \ {c} : idlepc'[k] = idlepc[k] /\ cpu_idle'[k] = cpu_idle[k] /\ ipi'[k] = ipi[k]
    PROVE  IInv'
<1>1. cpu' \in [CPU -> CpuState] /\ cpu'[c] = s /\ \A k \in CPU \ {c} : cpu'[k] = cpu[k]  BY DEF IInv, Typed
<1>2. Typed'  BY <1>1 DEF IInv, Typed, tdVars
<1>3. LocalInv'  BY <1>1, LocalStep DEF tdVars
<1>4. ThreadInv' /\ LoadInv'  BY <1>1, QuietStep DEF IInv
<1>5. QED  BY <1>2, <1>3, <1>4 DEF IInv

-----------------------------------------------------------------------------
(* One lemma per action: first those that leave the threads alone.         *)

\* The end of cpu_idle: the flag is cleared.
LEMMA WokenKeeps == ASSUME IInv, NEW c \in CPU, Woken(c) PROVE IInv'
<1> DEFINE s == [cpu[c] EXCEPT !.pc = "idle"]
<1>1. cpu[c] = Running("woken") /\ cur[c] = Idle /\ cpu[c] \in CpuState
  BY DEF Woken, IInv, LocalInv, ShapeOf, Typed, IdleLabel
<1>2. s = Running("idle") /\ s \in CpuState /\ cpu' = [cpu EXCEPT ![c] = s]
  BY <1>1 DEF Woken, Goto, Running, CpuState, Label, IdleLabel
<1>3. cpu'[c] = Running("idle")  BY <1>2 DEF IInv, Typed
<1>4. ShapeOf(c)' /\ MoveOf(c)' /\ IdleOf(c)'
  BY <1>1, <1>3 DEF Woken, tdVars, tdqVars, ShapeOf, MoveOf, IdleOf, Running, IdleLabel
<1>5. \A x \in CPU : LockStep(c, x)  BY <1>1, <1>3 DEF Woken, tdqVars, LockStep, Holds, Running
<1>6. QED
  BY <1>1, <1>2, <1>4, <1>5, QuietKeeps DEF Woken, tdqVars, tdVars, IInv, Typed, Running

\* Another interrupt ends cpu_idle.
LEMMA InterruptKeeps == ASSUME IInv, NEW c \in CPU, Interrupt(c) PROVE IInv'
<1> DEFINE s == Running("woken")
<1>1. cpu[c] = Running("halt") /\ cur[c] = Idle  BY DEF Interrupt, IInv, LocalInv, ShapeOf
<1>2. s \in CpuState /\ cpu' = [cpu EXCEPT ![c] = s]
  BY <1>1 DEF Interrupt, Return, Returned, Running, CpuState, Label, IdleLabel, Op
<1>3. cpu'[c] = s  BY <1>2 DEF IInv, Typed
<1>4. ShapeOf(c)' /\ MoveOf(c)' /\ IdleOf(c)'
  BY <1>1, <1>3 DEF Interrupt, tdVars, tdqVars, ipiVars, ShapeOf, MoveOf, IdleOf, Running, IdleLabel
<1>5. \A x \in CPU : LockStep(c, x)  BY <1>1, <1>3 DEF Interrupt, tdqVars, LockStep, Holds, Running
<1>6. QED
  BY <1>1, <1>2, <1>4, <1>5, QuietKeeps DEF Interrupt, tdqVars, tdVars, ipiVars, IInv, Typed, Running

\* The queue of a CPU is finite, and empty when the load is 0.
LEMMA QueueFinite ==
    ASSUME IInv, NEW c \in CPU
    PROVE  /\ IsFiniteSet(queue[c]) /\ Cardinality(queue[c]) \in Nat
           /\ load[c] = 0 => queue[c] = {}
<1>1. queue[c] \in SUBSET Thread  BY DEF IInv, Typed
<1>2. IsFiniteSet(queue[c]) /\ Cardinality(queue[c]) \in Nat
  BY <1>1, FS_Subset, FS_CardinalityType, ULEAssumption
<1>3. load[c] = 0 => Cardinality(queue[c]) = 0  BY <1>2 DEF IInv, LoadInv, Own
<1>4. QED  BY <1>2, <1>3, FS_EmptySet

\* The load is read for the last time: a CPU that halts has an empty queue.
LEMMA HaltKeeps == ASSUME IInv, NEW c \in CPU, Halt(c) PROVE IInv'
<1>1. cpu[c] = Running("reread") /\ cur[c] = Idle /\ cpu_idle[c] /\ cpu[c] \in CpuState
  BY DEF Halt, IInv, LocalInv, ShapeOf, IdleOf, IdleLabel, Typed
<1>2. PICK l \in {"woken", "halt"} : cpu' = [cpu EXCEPT ![c].pc = l] /\ (l = "halt" => queue[c] = {})
  <2>1. load[c] \in Int /\ Cardinality(queue[c]) \in Nat  BY QueueFinite DEF IInv, Typed
  <2>2. ~(load[c] > 0) => load[c] = 0  BY <2>1 DEF IInv, LoadInv, Own
  <2>3. QED  BY <2>2, QueueFinite DEF Halt, Goto
<1> DEFINE s == [cpu[c] EXCEPT !.pc = l]
<1>3. s = Running(l) /\ s \in CpuState /\ cpu' = [cpu EXCEPT ![c] = s]
  BY <1>1, <1>2 DEF Running, CpuState, Label, IdleLabel
<1>4. cpu'[c] = Running(l)  BY <1>3 DEF IInv, Typed
<1>5. ShapeOf(c)' /\ MoveOf(c)' /\ IdleOf(c)'
  BY <1>1, <1>4 DEF Halt, tdVars, tdqVars, ipiVars, ShapeOf, MoveOf, IdleOf, Running, IdleLabel
<1>6. \A x \in CPU : LockStep(c, x)  BY <1>1, <1>4 DEF Halt, tdqVars, LockStep, Holds, Running
<1>7. QED
  BY <1>1, <1>2, <1>3, <1>5, <1>6, QuietKeeps DEF Halt, tdqVars, tdVars, ipiVars, IInv, Typed, Running

\* sched_idletd takes its lock to switch, searches, or gets ready to halt.
LEMMA sched_idletdKeeps == ASSUME IInv, NEW c \in CPU, sched_idletd(c) PROVE IInv'
<1>1. cpu[c] = Running(cpu[c].pc) /\ cpu[c].pc \in {"idle", "set"} /\ cur[c] = Idle /\ cpu[c] \in CpuState
  BY DEF sched_idletd, IInv, LocalInv, ShapeOf, IdleLabel, Typed
<1>2. CASE /\ cpu[c].pc = "idle" /\ load[c] > 0 /\ Free(c)
           /\ lock' = [lock EXCEPT ![c] = c] /\ idlepc' = [idlepc EXCEPT ![c] = "idle"]
           /\ Goto(c, "choose") /\ UNCHANGED <<queue, load, tdVars, cpu_idle, ipi>>
  <2> DEFINE s == Running("choose")
  <2>1. s \in CpuState /\ cpu' = [cpu EXCEPT ![c] = s]
    <3>1. [cpu[c] EXCEPT !.pc = "choose"] = s  BY <1>1 DEF Running
    <3>2. QED  BY <1>2, <3>1 DEF Goto, Running, CpuState, Label, IdleLabel, Op
  <2>2. cpu'[c] = s /\ idlepc'[c] = "idle" /\ idlepc' \in [CPU -> IdleLabel]
    BY <1>2, <2>1 DEF IInv, Typed, IdleLabel
  <2>3. ShapeOf(c)' /\ MoveOf(c)' /\ IdleOf(c)'
    BY <1>1, <1>2, <2>2, ULEAssumption DEF tdVars, ShapeOf, MoveOf, IdleOf, Running, IdleLabel
  <2>4. \A x \in CPU : LockStep(c, x)
    BY <1>1, <1>2, <2>2 DEF LockStep, Holds, Running, Free, IInv, Typed
  <2>5. QED
    BY <1>1, <1>2, <2>1, <2>2, <2>3, <2>4, QuietKeeps DEF IInv, Typed, Running
<1>3. CASE /\ cpu[c].pc = "idle" /\ load[c] = 0
           /\ \/ cpu' = [cpu EXCEPT ![c].pc = "search", ![c].op = "idled"]
              \/ Goto(c, "set")
           /\ UNCHANGED <<tdqVars, tdVars, ipiVars>>
  <2>1. PICK s \in {Running("set"), [Running("search") EXCEPT !.op = "idled"]} : cpu' = [cpu EXCEPT ![c] = s]
    BY <1>1, <1>3 DEF Goto, Running, IInv, Typed
  <2>2. s \in CpuState  BY <2>1 DEF Running, CpuState, Label, IdleLabel, Op
  <2>3. cpu'[c] = s  BY <2>1 DEF IInv, Typed
  <2>4. ShapeOf(c)' /\ MoveOf(c)' /\ IdleOf(c)'
    BY <1>1, <1>3, <2>1, <2>3 DEF tdVars, tdqVars, ipiVars, ShapeOf, MoveOf, IdleOf, Running, IdleLabel
  <2>5. \A x \in CPU : LockStep(c, x)  BY <1>1, <1>3, <2>1, <2>3 DEF LockStep, Holds, Running, tdqVars
  <2>6. QED
    BY <1>1, <1>3, <2>1, <2>2, <2>4, <2>5, QuietKeeps DEF IInv, Typed, Running, tdqVars, tdVars, ipiVars
<1>4. CASE /\ cpu[c].pc = "set" /\ Goto(c, "reread") /\ cpu_idle' = [cpu_idle EXCEPT ![c] = TRUE]
           /\ UNCHANGED <<tdqVars, tdVars, ipi, idlepc>>
  <2> DEFINE s == Running("reread")
  <2>1. s \in CpuState /\ cpu' = [cpu EXCEPT ![c] = s]
    <3>1. [cpu[c] EXCEPT !.pc = "reread"] = s  BY <1>1 DEF Running
    <3>2. QED  BY <1>4, <3>1 DEF Goto, Running, CpuState, Label, IdleLabel, Op
  <2>2. cpu'[c] = s /\ cpu_idle'[c] = TRUE /\ cpu_idle' \in [CPU -> BOOLEAN]  BY <1>4, <2>1 DEF IInv, Typed
  <2>3. ShapeOf(c)' /\ MoveOf(c)' /\ IdleOf(c)'
    BY <1>1, <1>4, <2>2 DEF tdVars, tdqVars, ShapeOf, MoveOf, IdleOf, Running, IdleLabel
  <2>4. \A x \in CPU : LockStep(c, x)  BY <1>1, <1>4, <2>2 DEF LockStep, Holds, Running, tdqVars
  <2>5. QED
    BY <1>1, <1>4, <2>1, <2>2, <2>3, <2>4, QuietKeeps DEF IInv, Typed, Running, tdqVars, tdVars
<1>5. QED  BY <1>2, <1>3, <1>4 DEF sched_idletd

\* The search for a loaded CPU finds one, or ends.
LEMMA SearchKeeps == ASSUME IInv, NEW c \in CPU, Search(c) PROVE IInv'
<1>1. /\ cpu[c].pc = "search" /\ cpu[c] \in CpuState
      /\ \/ cpu[c].op = "trysteal" /\ cpu[c].mtx = SleepQ /\ cur[c] \in Thread
         \/ cpu[c].op = "idled" /\ cpu[c].mtx = None /\ cur[c] = Idle
  BY DEF Search, IInv, LocalInv, ShapeOf, Typed
<1>2. UNCHANGED <<queue, load, cur, td_lock, asleep, cpu_idle, ipi, idlepc>>  BY DEF Search, tdVars, ipiVars
<1>3. CASE cpu[c].op = "trysteal" /\ Free(c) /\ Goto(c, "choose") /\ lock' = [lock EXCEPT ![c] = c]
  <2> DEFINE s == [cpu[c] EXCEPT !.pc = "choose"]
  <2>1. s \in CpuState /\ cpu' = [cpu EXCEPT ![c] = s] /\ s.pc = "choose" /\ s.mtx = SleepQ
    BY <1>1, <1>3, ULEAssumption DEF Goto, CpuState, Label
  <2>2. cpu'[c].pc = "choose" /\ cpu'[c].mtx = SleepQ  BY <2>1 DEF IInv, Typed
  <2>3. ShapeOf(c)' /\ MoveOf(c)' /\ IdleOf(c)'
    BY <1>1, <1>2, <1>3, <2>2, ULEAssumption DEF ShapeOf, MoveOf, IdleOf, IdleLabel, IInv, LocalInv
  <2>4. \A x \in CPU : LockStep(c, x)  BY <1>1, <1>3, <2>2 DEF LockStep, Holds, Free, IInv, Typed
  <2>5. QED
    BY <1>1, <1>2, <1>3, <2>1, <2>3, <2>4, QuietKeeps, ULEAssumption DEF IInv, Typed, tdVars
<1>4. CASE /\ cpu[c].op = "idled" /\ cpu' = [cpu EXCEPT ![c] = Running(IF load[c] > 0 THEN "idle" ELSE "set")]
           /\ UNCHANGED lock
  <2>1. PICK l \in {"idle", "set"} : cpu' = [cpu EXCEPT ![c] = Running(l)]  BY <1>4
  <2> DEFINE s == Running(l)
  <2>2. s \in CpuState  BY DEF Running, CpuState, Label, IdleLabel, Op
  <2>3. cpu'[c] = s  BY <2>1 DEF IInv, Typed
  <2>4. ShapeOf(c)' /\ MoveOf(c)' /\ IdleOf(c)'
    BY <1>1, <1>2, <1>4, <2>3, ULEAssumption DEF ShapeOf, MoveOf, IdleOf, Running, IdleLabel
  <2>5. \A x \in CPU : LockStep(c, x)  BY <1>1, <1>4, <2>3 DEF LockStep, Holds, Running
  <2>6. QED
    BY <1>1, <1>2, <1>4, <2>1, <2>2, <2>4, <2>5, QuietKeeps, ULEAssumption DEF IInv, Typed, tdVars, Running
<1>5. CASE UNCHANGED lock /\ \E x \in sched_highest(c) : cpu' = [cpu EXCEPT ![c].pc = "pair1", ![c].from = x, ![c].to = c]
  <2>1. PICK x \in CPU \ {c} : cpu' = [cpu EXCEPT ![c].pc = "pair1", ![c].from = x, ![c].to = c]
    BY <1>5 DEF sched_highest
  <2> DEFINE s == [cpu[c] EXCEPT !.pc = "pair1", !.from = x, !.to = c]
  <2>2. /\ s \in CpuState /\ cpu' = [cpu EXCEPT ![c] = s] /\ s.pc = "pair1" /\ s.from = x /\ s.to = c
        /\ s.mtx = cpu[c].mtx /\ s.op = cpu[c].op
    BY <1>1, <2>1 DEF CpuState, Label
  <2>3. cpu'[c] = s  BY <2>2 DEF IInv, Typed
  <2> HIDE DEF s
  <2>4. ShapeOf(c)' /\ MoveOf(c)' /\ IdleOf(c)'
    BY <1>1, <1>2, <1>5, <2>2, <2>3, ULEAssumption DEF ShapeOf, MoveOf, IdleOf, IdleLabel, IInv, LocalInv
  <2>5. \A y \in CPU : LockStep(c, y)  BY <1>1, <1>5, <2>2, <2>3 DEF LockStep, Holds
  <2>6. QED
    BY <1>1, <1>2, <1>5, <2>2, <2>4, <2>5, QuietKeeps, ULEAssumption DEF IInv, Typed, tdVars
<1>6. QED  BY <1>3, <1>4, <1>5 DEF Search

\* sched_balance chooses two CPUs.
LEMMA sched_balanceKeeps == ASSUME IInv, NEW c \in CPU, NEW high \in CPU, NEW low \in CPU, sched_balance(c, high, low) PROVE IInv'
<1> DEFINE s == [Running("pair1") EXCEPT !.op = "balance", !.from = high, !.to = low]
<1>1. cpu[c] = Running(cpu[c].pc) /\ cpu[c].pc \in {"run", "halt"} /\ cur[c] \in Thread \cup {Idle} /\ high # low
  BY DEF sched_balance, IInv, LocalInv, ShapeOf
<1>2. /\ s \in CpuState /\ cpu' = [cpu EXCEPT ![c] = s] /\ s.pc = "pair1" /\ s.from = high /\ s.to = low
      /\ s.mtx = None /\ s.op = "balance"
  BY DEF sched_balance, Running, CpuState, Label, Op
<1>3. cpu'[c] = s  BY <1>2 DEF IInv, Typed
<1> HIDE DEF s
<1>4. UNCHANGED <<queue, load, lock, cur, td_lock, asleep, cpu_idle, ipi, idlepc>>
  BY DEF sched_balance, tdqVars, tdVars, ipiVars
<1>5. ShapeOf(c)' /\ MoveOf(c)' /\ IdleOf(c)'
  BY <1>1, <1>2, <1>3, <1>4, ULEAssumption DEF ShapeOf, MoveOf, IdleOf, IdleLabel, IInv, LocalInv
<1>6. \A x \in CPU : LockStep(c, x)  BY <1>1, <1>2, <1>3, <1>4 DEF LockStep, Holds
<1>7. cpu[c].mtx = None /\ None \notin CPU  BY <1>1, ULEAssumption DEF Running
<1>8. QED
  BY <1>1, <1>2, <1>4, <1>5, <1>6, <1>7, QuietKeeps DEF IInv, Typed, tdVars

\* The state of a CPU that locks two queues.
PairShape(c) ==
    /\ cpu[c] \in CpuState /\ cpu[c].from \in CPU /\ cpu[c].to \in CPU \ {cpu[c].from}
    /\ \/ cpu[c].op = "trysteal" /\ cpu[c].mtx = SleepQ /\ cpu[c].to = c /\ cur[c] \in Thread
       \/ cpu[c].op = "idled" /\ cpu[c].mtx = None /\ cpu[c].to = c /\ cur[c] = Idle
       \/ cpu[c].op = "balance" /\ cpu[c].mtx = None /\ cur[c] # None
       \/ /\ cpu[c].op = "migrate" /\ cpu[c].pc # "move" /\ cpu[c].mtx = cpu[c].to
          /\ cpu[c].from = c /\ cur[c] \in Thread /\ cpu[c].td = cur[c]

\* The invariant gives it, with the locks that are held.
LEMMA PairHas ==
    ASSUME IInv, NEW c \in CPU, cpu[c].pc \in {"pair1", "pair2", "move"}
    PROVE  /\ PairShape(c) /\ First(c) \in CPU /\ Second(c) \in CPU /\ First(c) < Second(c)
           /\ {First(c), Second(c)} = {cpu[c].from, cpu[c].to}
           /\ cpu[c].pc = "pair2" => lock[First(c)] = c
           /\ cpu[c].pc = "move" => lock[First(c)] = c /\ lock[Second(c)] = c
<1>1. PairShape(c)  BY DEF IInv, LocalInv, ShapeOf, Typed, PairShape
<1>2. /\ First(c) \in CPU /\ Second(c) \in CPU /\ First(c) < Second(c)
      /\ {First(c), Second(c)} = {cpu[c].from, cpu[c].to}
  BY <1>1, PairOrdered DEF PairShape
<1>3. CASE cpu[c].pc = "pair2"
  <2>1. First(c) \in Holds(c)  BY <1>3 DEF Holds
  <2>2. QED  BY <1>1, <1>2, <1>3, <2>1 DEF IInv, LocalInv, LockInv
<1>4. CASE cpu[c].pc = "move"
  <2>1. First(c) \in Holds(c) /\ Second(c) \in Holds(c)  BY <1>2, <1>4 DEF Holds
  <2>2. QED  BY <1>1, <1>2, <1>4, <2>1 DEF IInv, LocalInv, LockInv
<1>5. QED  BY <1>1, <1>2, <1>3, <1>4

\* The first of two locks is taken.
LEMMA tdq_lock_pairKeeps == ASSUME IInv, NEW c \in CPU, tdq_lock_pair(c) PROVE IInv'
<1> DEFINE s == [cpu[c] EXCEPT !.pc = "pair2"]
<1>1. cpu[c].pc = "pair1" /\ Free(First(c)) /\ PairShape(c) /\ First(c) \in CPU
  BY PairHas DEF tdq_lock_pair
<1>2. /\ s \in CpuState /\ cpu' = [cpu EXCEPT ![c] = s] /\ s.pc = "pair2" /\ s.from = cpu[c].from /\ s.to = cpu[c].to
      /\ s.mtx = cpu[c].mtx /\ s.op = cpu[c].op /\ s.td = cpu[c].td
  BY <1>1 DEF tdq_lock_pair, Goto, CpuState, Label, PairShape
<1>3. cpu'[c] = s  BY <1>2 DEF IInv, Typed
<1> HIDE DEF s
<1>4. /\ UNCHANGED <<queue, load, cur, td_lock, asleep, cpu_idle, ipi, idlepc>>
      /\ lock' = [lock EXCEPT ![First(c)] = c]
  BY DEF tdq_lock_pair, tdVars, ipiVars
<1>5. ShapeOf(c)' /\ MoveOf(c)' /\ IdleOf(c)'
  BY <1>1, <1>2, <1>3, <1>4 DEF PairShape, ShapeOf, MoveOf, IdleOf, IdleLabel, IInv, LocalInv
<1>6. Holds(c) = {} /\ Holds(c)' = {First(c)}  BY <1>1, <1>2, <1>3 DEF Holds, First
<1>7. \A x \in CPU : LockStep(c, x)  BY <1>1, <1>4, <1>6 DEF LockStep, Free, IInv, Typed
<1>8. QED
  BY <1>1, <1>2, <1>4, <1>5, <1>7, QuietKeeps DEF IInv, Typed, tdVars

\* With both locks: a thread is found that may move.
LEMMA tdq_stealKeeps == ASSUME IInv, NEW c \in CPU, tdq_steal(c) PROVE IInv'
<1>1. PICK td \in queue[cpu[c].from] : cpu' = [cpu EXCEPT ![c].pc = "move", ![c].td = td]  BY DEF tdq_steal
<1> DEFINE s == [cpu[c] EXCEPT !.pc = "move", !.td = td]
<1>2. /\ cpu[c].pc = "pair2" /\ Free(Second(c)) /\ PairShape(c) /\ cpu[c].op # "migrate"
      /\ First(c) \in CPU /\ Second(c) \in CPU /\ {First(c), Second(c)} = {cpu[c].from, cpu[c].to}
      /\ lock[First(c)] = c
  BY PairHas DEF tdq_steal, Locked
<1>3. td \in Thread  BY <1>2 DEF IInv, Typed, PairShape
<1>4. /\ s \in CpuState /\ cpu' = [cpu EXCEPT ![c] = s] /\ s.pc = "move" /\ s.from = cpu[c].from /\ s.to = cpu[c].to
      /\ s.mtx = cpu[c].mtx /\ s.op = cpu[c].op /\ s.td = td
  BY <1>1, <1>2, <1>3 DEF CpuState, Label, PairShape
<1>5. cpu'[c] = s  BY <1>4 DEF IInv, Typed
<1> HIDE DEF s
<1>6. /\ UNCHANGED <<queue, load, cur, td_lock, asleep, cpu_idle, ipi, idlepc>>
      /\ lock' = [lock EXCEPT ![Second(c)] = c]
  BY DEF tdq_steal, Both, tdVars, ipiVars
<1>7. ShapeOf(c)' /\ MoveOf(c)' /\ IdleOf(c)'
  BY <1>1, <1>2, <1>4, <1>5, <1>6 DEF PairShape, ShapeOf, MoveOf, IdleOf, IdleLabel, IInv, LocalInv
<1>8. Holds(c) = {First(c)} /\ Holds(c)' = {First(c), Second(c)}  BY <1>2, <1>4, <1>5 DEF Holds
<1>9. \A x \in CPU : LockStep(c, x)  BY <1>2, <1>6, <1>8 DEF LockStep, Free, IInv, Typed
<1>10. cpu[c].mtx \notin CPU  BY <1>2, ULEAssumption DEF PairShape
<1>11. QED
  BY <1>2, <1>4, <1>6, <1>7, <1>9, <1>10, QuietKeeps DEF IInv, Typed, tdVars

\* With both locks: nothing is moved.
LEMMA GiveUpKeeps == ASSUME IInv, NEW c \in CPU, GiveUp(c) PROVE IInv'
<1>1. /\ cpu[c].pc = "pair2" /\ Free(Second(c)) /\ PairShape(c) /\ cpu[c].op # "migrate"
      /\ First(c) \in CPU /\ Second(c) \in CPU /\ {First(c), Second(c)} = {cpu[c].from, cpu[c].to}
      /\ lock[First(c)] = c /\ lock[Second(c)] = None
  BY PairHas DEF GiveUp, Locked, Free
<1>2. cpu[c].mtx \notin CPU /\ Holds(c) = {First(c)}  BY <1>1, ULEAssumption DEF PairShape, Holds
<1>3. UNCHANGED <<queue, load, cur, td_lock, asleep, cpu_idle, ipi>>  BY DEF GiveUp, tdVars
<1>4. PICK s : /\ cpu' = [cpu EXCEPT ![c] = s] /\ s \in CpuState /\ s.pc \in {"choose", "search", "set", "run", "woken"}
               /\ s.mtx = cpu[c].mtx
               /\ s.pc = "choose" => /\ cpu[c].op \in {"trysteal", "idled"} /\ lock' = [lock EXCEPT ![cpu[c].from] = None, ![c] = c]
                                     /\ idlepc' = IF cpu[c].op = "idled" THEN [idlepc EXCEPT ![c] = "idle"] ELSE idlepc
               /\ s.pc # "choose" => lock' = [lock EXCEPT ![cpu[c].from] = None, ![cpu[c].to] = None] /\ UNCHANGED idlepc
               /\ s.pc = "search" => s.op = "idled" /\ s.mtx = None /\ cur[c] = Idle
               /\ s.pc \in {"set", "woken"} => cur[c] = Idle /\ s = Running(s.pc)
               /\ s.pc = "run" => cur[c] \in Thread /\ s = Running("run")
  <2>1. CASE cpu[c].op = "trysteal" \/ (cpu[c].op = "idled" /\ load[c] > 0)
    <3> DEFINE s == [Running("choose") EXCEPT !.mtx = cpu[c].mtx]
    <3>1. s \in CpuState /\ s.pc = "choose" /\ s.mtx = cpu[c].mtx  BY <1>1 DEF Running, CpuState, Label, Op, PairShape
    <3>2. /\ cpu' = [cpu EXCEPT ![c] = s] /\ lock' = [lock EXCEPT ![cpu[c].from] = None, ![c] = c]
          /\ idlepc' = IF cpu[c].op = "idled" THEN [idlepc EXCEPT ![c] = "idle"] ELSE idlepc
      <4>1. load[c] > 0 => ~(load[c] = 0)  BY DEF IInv, Typed
      <4>2. CASE cpu[c].op = "trysteal"  BY <4>2 DEF GiveUp
      <4>3. CASE cpu[c].op = "idled" /\ load[c] > 0
        <5>1. ~(cpu[c].op = "idled" /\ load[c] = 0) /\ ~(cpu[c].op = "balance")  BY <4>1, <4>3
        <5>2. QED  BY <4>3, <5>1 DEF GiveUp
      <4>4. QED  BY <2>1, <4>2, <4>3
    <3> HIDE DEF s
    <3>3. QED  BY <2>1, <3>1, <3>2
  <2>2. CASE cpu[c].op = "idled" /\ load[c] = 0
    <3>1. PICK s \in {[Running("search") EXCEPT !.op = "idled"], Running("set")} : cpu' = [cpu EXCEPT ![c] = s]
      BY <2>2 DEF GiveUp, IInv, Typed
    <3>2. /\ lock' = [lock EXCEPT ![c] = None, ![cpu[c].from] = None] /\ UNCHANGED idlepc
          /\ cpu[c].to = c /\ cpu[c].mtx = None /\ cur[c] = Idle /\ cpu[c].from # c
      BY <1>1, <2>2 DEF GiveUp, PairShape
    <3>3. s \in CpuState /\ s.mtx = None /\ (s.pc = "set" => s = Running("set")) /\ s.pc \in {"search", "set"}
          /\ (s.pc = "search" => s.op = "idled")
      BY <3>1 DEF Running, CpuState, Label, IdleLabel, Op
    <3>4. lock' = [lock EXCEPT ![cpu[c].from] = None, ![cpu[c].to] = None]  BY <1>1, <3>2 DEF IInv, Typed, PairShape
    <3>5. QED  BY <3>1, <3>2, <3>3, <3>4
  <2>3. CASE cpu[c].op = "balance"
    <3>1. PICK s : s = Returned(c)  OBVIOUS
    <3>2. s \in {Running("woken"), Running("run")} /\ (IF cur[c] = Idle THEN s = Running("woken") ELSE s = Running("run"))
      BY <3>1 DEF Returned
    <3>3. cpu' = [cpu EXCEPT ![c] = s] /\ UNCHANGED idlepc /\ lock' = [lock EXCEPT ![cpu[c].from] = None, ![cpu[c].to] = None]
      BY <2>3, <3>1 DEF GiveUp, Return
    <3>4. cpu[c].mtx = None /\ cur[c] \in Thread \cup {Idle}  BY <1>1, <2>3 DEF PairShape, IInv, Typed
    <3>5. s \in CpuState /\ s.mtx = None /\ s.pc \in {"woken", "run"} /\ s = Running(s.pc)
          /\ (s.pc = "woken" <=> cur[c] = Idle)
      BY <3>2 DEF Running, CpuState, Label, IdleLabel, Op
    <3>6. QED  BY <3>3, <3>4, <3>5
  <2>4. load[c] \in Int /\ Cardinality(queue[c]) \in Nat /\ (load[c] > 0 \/ load[c] = 0)
    BY QueueFinite DEF IInv, Typed, LoadInv, Own
  <2>5. QED  BY <1>1, <2>1, <2>2, <2>3, <2>4 DEF PairShape
<1>5. cpu'[c] = s  BY <1>4 DEF IInv, Typed
<1>6. idlepc' \in [CPU -> IdleLabel] /\ \A k \in CPU \ {c} : idlepc'[k] = idlepc[k]
  BY <1>4 DEF IInv, Typed, IdleLabel
<1>7. ShapeOf(c)' /\ MoveOf(c)'
  BY <1>1, <1>3, <1>4, <1>5, ULEAssumption DEF PairShape, ShapeOf, MoveOf, IdleLabel
<1>8. IdleOf(c)'  BY <1>1, <1>3, <1>4, <1>5, ULEAssumption DEF PairShape, IdleOf, IInv, LocalInv, Typed
<1>9. Holds(c)' = IF s.pc = "choose" THEN {c} ELSE {}  BY <1>4, <1>5 DEF Holds
<1>10. lock' \in [CPU -> CPU \cup {None}] /\ \A x \in CPU : LockStep(c, x)
  <2>1. lock \in [CPU -> CPU \cup {None}] /\ cpu[c].from \in CPU /\ cpu[c].to \in CPU
    BY <1>1 DEF IInv, Typed, PairShape
  <2>2. /\ lock[cpu[c].from] \in {c, None} /\ lock[cpu[c].to] \in {c, None}
        /\ First(c) \in {cpu[c].from, cpu[c].to}
    BY <1>1
  <2>3. CASE s.pc = "choose"
    <3>1. cpu[c].to = c /\ cpu[c].from # c  BY <1>1, <1>4, <2>3 DEF PairShape
    <3>2. QED  BY <1>2, <1>4, <1>9, <2>1, <2>2, <2>3, <3>1 DEF LockStep
  <2>4. CASE s.pc # "choose"  BY <1>2, <1>4, <1>9, <2>1, <2>2, <2>4 DEF LockStep
  <2>5. QED  BY <2>3, <2>4
<1>11. QED
  BY <1>1, <1>2, <1>3, <1>4, <1>6, <1>7, <1>8, <1>10, QuietKeeps DEF IInv, Typed, tdVars

\* tdq_notify: the CPU that was given a thread is not halted, or is woken, or an IPI is on
\* its way; tdq_cpu_idle cannot be clear while it halts.
LEMMA tdq_notifyKeeps == ASSUME IInv, NEW c \in CPU, tdq_notify(c) PROVE IInv'
<1> DEFINE x == cpu[c].to
           r == Notified(c)
<1>1. /\ cpu[c] \in CpuState /\ cpu[c].pc = "notify" /\ x \in CPU \ {c} /\ cur[c] \in Thread \cup {Idle}
      /\ cpu[c].op \in {"wake", "balance", "migrate"}
      /\ cpu[c].op = "balance" => cpu[c].from \in CPU \ {x}
      /\ IF cpu[c].op = "migrate" THEN cpu[c].from = c /\ cpu[c].mtx = x /\ cur[c] \in Thread ELSE cpu[c].mtx = None
  BY DEF tdq_notify, IInv, LocalInv, ShapeOf, Typed
<1>2. UNCHANGED <<queue, load, cur, td_lock, asleep, cpu_idle, idlepc>>  BY DEF tdq_notify, tdVars
<1>3. /\ r \in CpuState /\ r.mtx = cpu[c].mtx
      /\ IF cpu[c].op = "migrate" THEN r.pc = "choose" /\ r.mtx = x
         ELSE r = Running(r.pc) /\ r.pc = IF cur[c] = Idle THEN "woken" ELSE "run"
  BY <1>1 DEF Notified, Returned, Running, CpuState, Label, IdleLabel, Op
<1> HIDE DEF r
<1>4. \/ /\ ipi[x] \/ cpu[c].td \in lowest \/ cur[x] # Idle \/ ~cpu_idle[x]
         /\ cpu' = [cpu EXCEPT ![c] = r] /\ UNCHANGED ipi
      \/ /\ cpu[x].pc = "halt" /\ cur[x] = Idle
         /\ cpu' = [cpu EXCEPT ![c] = r, ![x] = Running("woken")] /\ UNCHANGED ipi
      \/ /\ ipi' = [ipi EXCEPT ![x] = TRUE] /\ cpu' = [cpu EXCEPT ![c] = r]
  BY DEF tdq_notify, r
<1>5. Running("woken") \in CpuState  BY DEF Running, CpuState, Label, IdleLabel, Op
<1>6. /\ cpu' \in [CPU -> CpuState] /\ cpu'[c] = r
      /\ \A k \in CPU \ {c} : \/ cpu'[k] = cpu[k]
                              \/ k = x /\ cpu[x].pc = "halt" /\ cur[x] = Idle /\ cpu'[x] = Running("woken")
  BY <1>1, <1>3, <1>4, <1>5 DEF IInv, Typed
<1>7. ipi' \in [CPU -> BOOLEAN] /\ \A k \in CPU : (ipi[k] => ipi'[k])  BY <1>1, <1>4 DEF IInv, Typed
<1>8. \A k \in CPU : ShapeOf(k)' /\ MoveOf(k)' /\ IdleOf(k)'
  <2>1. ShapeOf(c)' /\ MoveOf(c)' /\ IdleOf(c)'
    BY <1>1, <1>2, <1>3, <1>6, ULEAssumption DEF ShapeOf, MoveOf, IdleOf, IdleLabel, IInv, LocalInv
  <2>2. ASSUME NEW k \in CPU \ {c} PROVE ShapeOf(k)' /\ MoveOf(k)' /\ IdleOf(k)'
    <3>1. CASE cpu'[k] = cpu[k]  BY <1>2, <3>1 DEF ShapeOf, MoveOf, IdleOf, IInv, LocalInv
    <3>2. CASE cpu'[k] = Running("woken") /\ cur[k] = Idle
      BY <1>2, <3>2 DEF ShapeOf, MoveOf, IdleOf, Running, IdleLabel
    <3>3. QED  BY <1>6, <3>1, <3>2
  <2>3. QED  BY <2>1, <2>2
<1>9. LockInv' /\ lock' \in [CPU -> CPU \cup {None}]
  <2>1. /\ Holds(c)' = IF cpu[c].op = "migrate" THEN {c} ELSE {}
        /\ Holds(c) = IF cpu[c].op = "wake" THEN {x} ELSE {cpu[c].from, x}
    BY <1>1, <1>3, <1>6 DEF Holds, Running
  <2>2. \A k \in CPU \ {c} : Holds(k)' = Holds(k)
    <3> SUFFICES ASSUME NEW k \in CPU \ {c} PROVE Holds(k)' = Holds(k)  OBVIOUS
    <3>1. CASE cpu'[k] = cpu[k]  BY <3>1 DEF Holds, First
    <3>2. CASE cpu[k].pc = "halt" /\ cpu'[k] = Running("woken")  BY <3>2 DEF Holds, Running
    <3>3. QED  BY <1>6, <3>1, <3>2
  <2>3. lock \in [CPU -> CPU \cup {None}] /\ None \notin CPU  BY ULEAssumption DEF IInv, Typed
  <2>4. \A y \in CPU : lock'[y] = IF y \in Holds(c) /\ y \notin Holds(c)' THEN None ELSE lock[y]
    BY <1>1, <2>1, <2>3 DEF tdq_notify
  <2>5. lock' \in [CPU -> CPU \cup {None}]  BY <1>1, <2>3 DEF tdq_notify
  <2>6. Holds(c)' \subseteq Holds(c)  BY <1>1, <2>1
  <2>7. ASSUME NEW k \in CPU, NEW y \in CPU PROVE lock'[y] = k <=> y \in Holds(k)'
    BY <2>2, <2>3, <2>4, <2>6 DEF IInv, LocalInv, LockInv
  <2>8. QED  BY <2>5, <2>7 DEF LockInv
<1>10. NoThreadStranded'
  <2> SUFFICES ASSUME NEW k \in CPU, cpu'[k].pc = "halt", ~(queue[k] \subseteq lowest)
               PROVE  ipi'[k] \/ \E j \in CPU : Notifies(j, k)'
    BY <1>2 DEF NoThreadStranded
  <2>1. k # c /\ cpu'[k] = cpu[k] /\ cur[k] = Idle /\ cpu_idle[k]
    <3>1. k # c /\ cpu'[k] = cpu[k]  BY <1>3, <1>6 DEF Running
    <3>2. QED  BY <3>1 DEF IInv, LocalInv, ShapeOf, IdleOf
  <2>2. ipi[k] \/ \E j \in CPU : Notifies(j, k)  BY <2>1 DEF IInv, LocalInv, NoThreadStranded
  <2>3. \A j \in CPU \ {c} : Notifies(j, k) => Notifies(j, k)'  BY <1>6 DEF Notifies
  <2>4. CASE Notifies(c, k)  BY <1>4, <2>1, <2>4 DEF Notifies, Running, IInv, Typed
  <2>5. QED  BY <1>7, <2>2, <2>3, <2>4
<1>11. ThreadInv' /\ LoadInv'
  <2>1. \A k \in CPU : /\ {cpu[k].pc, cpu'[k].pc} \cap {"spin", "setcpu"} # {} => cpu'[k] = cpu[k]
                       /\ cur[k] # Idle => cpu'[k].mtx = cpu[k].mtx
                       /\ cpu[k].mtx \in CPU => (cpu'[k].pc \in {"pair1", "pair2"} <=> cpu[k].pc \in {"pair1", "pair2"})
    BY <1>1, <1>3, <1>6 DEF Running
  <2>2. QED  BY <1>2, <2>1, QuietStep DEF IInv, tdVars
<1>12. QED  BY <1>2, <1>6, <1>7, <1>8, <1>9, <1>10, <1>11 DEF IInv, LocalInv, Typed

\* The handler of an IPI that leaves the queue alone: the idle thread switches, or nothing
\* is to be done.
LEMMA sched_preemptQuiet ==
    ASSUME IInv, NEW c \in CPU, sched_preempt(c), queue' = queue
    PROVE  IInv'
<1> DEFINE l == cpu[c].pc
<1>1. UNCHANGED <<queue, load, cur, td_lock, asleep, cpu_idle>> /\ Free(c) /\ cpu[c] \in CpuState
  BY DEF sched_preempt, tdVars, IInv, Typed
<1>2. \/ cur[c] \in Thread /\ l = "run" /\ cpu[c] = Running("run")
      \/ cur[c] = Idle /\ l \in IdleLabel \cup {"halt"} /\ cpu[c].mtx = None
      \/ cur[c] = Idle /\ l = "search" /\ cpu[c].op = "idled" /\ cpu[c].mtx = None
  <2>1. l \in IdleLabel \cup {"halt", "run"} \/ (l = "search" /\ cpu[c].op = "idled")  BY DEF sched_preempt
  <2>2. ShapeOf(c)  BY DEF IInv, LocalInv
  <2>3. CASE l = "run"  BY <2>2, <2>3 DEF ShapeOf
  <2>4. CASE l \in IdleLabel \cup {"halt"}
    <3>1. cpu[c] = Running(l) /\ cur[c] = Idle  BY <2>2, <2>4 DEF ShapeOf
    <3>2. QED  BY <2>4, <3>1 DEF Running
  <2>5. CASE l = "search" /\ cpu[c].op = "idled"  BY <2>2, <2>5 DEF ShapeOf
  <2>6. QED  BY <2>1, <2>3, <2>4, <2>5
<1>3. Holds(c) = {}  BY <1>2 DEF Holds, IdleLabel
<1>4. ipi' \in [CPU -> BOOLEAN] /\ \A k \in CPU \ {c} : ipi'[k] = ipi[k]  BY DEF sched_preempt, IInv, Typed
<1>5. CASE /\ l # "run" /\ lock' = [lock EXCEPT ![c] = c]
           /\ cpu' = [cpu EXCEPT ![c] = [Running("choose") EXCEPT !.mtx = c]]
           /\ idlepc' = CASE l \in IdleLabel -> [idlepc EXCEPT ![c] = l]
                          [] l = "halt" -> [idlepc EXCEPT ![c] = "woken"]
                          [] l = "search" -> [idlepc EXCEPT ![c] = "idle"]
                          [] OTHER -> idlepc
  <2> DEFINE s == [Running("choose") EXCEPT !.mtx = c]
  <2>1. s \in CpuState /\ s.pc = "choose" /\ s.mtx = c  BY DEF Running, CpuState, Label, Op
  <2>2. cpu'[c] = s  BY <1>5 DEF IInv, Typed
  <2> HIDE DEF s
  <2>3. PICK i \in IdleLabel : idlepc' = [idlepc EXCEPT ![c] = i] /\ (i = "reread" => l = "reread")
    BY <1>2, <1>5 DEF IdleLabel
  <2>4. idlepc' \in [CPU -> IdleLabel] /\ idlepc'[c] = i /\ \A k \in CPU \ {c} : idlepc'[k] = idlepc[k]
    BY <2>3 DEF IInv, Typed
  <2>5. ShapeOf(c)' /\ MoveOf(c)'
    BY <1>1, <1>2, <1>5, <2>1, <2>2, ULEAssumption DEF ShapeOf, MoveOf, IdleLabel
  <2>6. IdleOf(c)'  BY <1>1, <2>1, <2>2, <2>3, <2>4 DEF IdleOf, IInv, LocalInv
  <2>7. \A x \in CPU : LockStep(c, x)
    <3>1. Holds(c)' = {c}  BY <2>1, <2>2 DEF Holds
    <3>2. QED  BY <1>1, <1>3, <1>5, <3>1 DEF LockStep, Free, IInv, Typed
  <2>8. cur[c] = Idle /\ cpu[c].mtx \notin CPU /\ l \notin {"notify", "spin", "setcpu"}
    BY <1>2, <1>5, ULEAssumption DEF IdleLabel
  <2>9. lock' \in [CPU -> CPU \cup {None}] /\ cpu' = [cpu EXCEPT ![c] = s]  BY <1>5 DEF s, IInv, Typed
  <2>10. QED
    BY <1>1, <1>4, <2>1, <2>4, <2>5, <2>6, <2>7, <2>8, <2>9, QuietKeeps DEF IInv, Typed, tdVars
<1>6. CASE (IF l = "halt" THEN Return(c) ELSE UNCHANGED cpu) /\ UNCHANGED <<lock, idlepc>>
  <2> DEFINE s == IF l = "halt" THEN Running("woken") ELSE cpu[c]
  <2>1. s \in CpuState /\ s.mtx = cpu[c].mtx /\ s.pc = IF l = "halt" THEN "woken" ELSE l
    BY <1>1, <1>2 DEF Running, CpuState, Label, IdleLabel, Op
  <2>2. cpu' = [cpu EXCEPT ![c] = s]  BY <1>2, <1>6, ULEAssumption DEF Return, Returned, IInv, Typed
  <2>3. cpu'[c] = s  BY <2>2 DEF IInv, Typed
  <2>4. ShapeOf(c)' /\ MoveOf(c)' /\ IdleOf(c)'
    <3>1. CASE l = "halt"  BY <1>1, <1>2, <1>6, <2>3, <3>1, ULEAssumption DEF ShapeOf, MoveOf, IdleOf, Running, IdleLabel
    <3>2. CASE l # "halt"  BY <1>1, <1>6, <2>3, <3>2 DEF ShapeOf, MoveOf, IdleOf, IInv, LocalInv
    <3>3. QED  BY <3>1, <3>2
  <2> HIDE DEF s
  <2>5. \A x \in CPU : LockStep(c, x)
    <3>1. Holds(c)' = {}  BY <1>2, <2>1, <2>3 DEF Holds, IdleLabel
    <3>2. QED  BY <1>3, <1>6, <3>1 DEF LockStep
  <2>6. l \notin {"notify", "spin", "setcpu", "pair1", "pair2"} /\ s.pc # "halt"  BY <1>2, <2>1 DEF IdleLabel
  <2>7. s.pc \notin {"spin", "setcpu", "pair1", "pair2"}  BY <2>1, <2>6
  <2>8. QED
    BY <1>1, <1>4, <1>6, <2>1, <2>2, <2>4, <2>5, <2>6, <2>7, QuietKeeps DEF IInv, Typed, tdVars
<1>7. QED
  <2>1. CASE l = "run" /\ lock' = [lock EXCEPT ![c] = c] /\ queue' = [queue EXCEPT ![c] = @ \cup {cur[c]}]
    <3>1. cur[c] \in queue[c]  BY <1>1, <2>1 DEF IInv, Typed
    <3>2. cur[c] \in Thread /\ cpu[c].mtx = None  BY <1>2, <2>1 DEF Running, IdleLabel
    <3>3. CurOf(c)  BY DEF IInv, ThreadInv
    <3>4. QED  BY <3>1, <3>2, <3>3 DEF CurOf, Has
  <2>2. QED  BY <1>2, <1>5, <1>6, <2>1 DEF sched_preempt, IdleLabel

-----------------------------------------------------------------------------
(* The actions that move threads.                                          *)

\* One thread more, or less, in a queue.
LEMMA QueueCounted ==
    ASSUME IInv, NEW k \in CPU, NEW td, queue'[k] \in {queue[k], queue[k] \cup {td}, queue[k] \ {td}}
    PROVE  Cardinality(queue'[k]) = Cardinality(queue[k]) + (IF td \in queue'[k] THEN 1 ELSE 0)
                                                          - (IF td \in queue[k] THEN 1 ELSE 0)
<1>1. IsFiniteSet(queue[k]) /\ Cardinality(queue[k]) \in Nat  BY QueueFinite
<1>2. CASE queue'[k] = queue[k]  BY <1>1, <1>2
<1>3. CASE queue'[k] = queue[k] \cup {td}
  <2>1. Cardinality(queue[k] \cup {td}) = IF td \in queue[k] THEN Cardinality(queue[k]) ELSE Cardinality(queue[k]) + 1
    BY <1>1, FS_AddElement
  <2>2. td \in queue'[k]  BY <1>3
  <2>3. QED  BY <1>1, <1>3, <2>1, <2>2
<1>4. CASE queue'[k] = queue[k] \ {td}
  <2>1. Cardinality(queue[k] \ {td}) = IF td \in queue[k] THEN Cardinality(queue[k]) - 1 ELSE Cardinality(queue[k])
    BY <1>1, FS_RemoveElement
  <2>2. td \notin queue'[k]  BY <1>4
  <2>3. QED  BY <1>1, <1>4, <2>1, <2>2
<1>5. QED  BY <1>2, <1>3, <1>4

\* tdq_load follows the queue and the thread that the CPU counts besides.
LEMMA LoadStep ==
    ASSUME IInv, NEW k \in CPU, NEW td, queue'[k] \in {queue[k], queue[k] \cup {td}, queue[k] \ {td}},
           load'[k] - load[k] = (IF td \in queue'[k] THEN 1 ELSE 0) - (IF td \in queue[k] THEN 1 ELSE 0)
                                + Own(k)' - Own(k),
           load'[k] \in Int
    PROVE  load'[k] = Cardinality(queue'[k]) + Own(k)'
<1>1. load[k] = Cardinality(queue[k]) + Own(k) /\ Own(k) \in Int /\ Own(k)' \in Int /\ load[k] \in Int
  BY DEF IInv, LoadInv, Own, Typed
<1>2. Cardinality(queue[k]) \in Nat  BY QueueFinite
<1>3. Cardinality(queue'[k]) = Cardinality(queue[k]) + (IF td \in queue'[k] THEN 1 ELSE 0)
                                                     - (IF td \in queue[k] THEN 1 ELSE 0)
  BY QueueCounted
<1>4. PICK a \in Int, b \in Int : a = (IF td \in queue'[k] THEN 1 ELSE 0) /\ b = (IF td \in queue[k] THEN 1 ELSE 0)
  OBVIOUS
<1>5. load'[k] - load[k] = a - b + Own(k)' - Own(k) /\ Cardinality(queue'[k]) = Cardinality(queue[k]) + a - b
  BY <1>3, <1>4
<1>6. QED  BY <1>1, <1>2, <1>5

\* What belongs to a CPU are threads.
LEMMA HasThreads ==
    ASSUME IInv, NEW k \in CPU
    PROVE  Spins(k) \subseteq Thread /\ Has(k) \subseteq Thread
<1>1. cpu[k] \in CpuState /\ queue[k] \subseteq Thread /\ ShapeOf(k)  BY DEF IInv, Typed, LocalInv
<1>2. cpu[k].pc = "spin" => cpu[k].td \in Thread \cup {Idle}  BY <1>1 DEF CpuState, ShapeOf
<1>3. QED  BY <1>1, <1>2 DEF Spins, Has

\* sched_add takes a thread from its sleep queue.
LEMMA sched_addKeeps == ASSUME IInv, NEW c \in CPU, NEW td \in Thread, NEW x \in CPU, sched_add(c, td, x) PROVE IInv'
<1> DEFINE s == [Running("setcpu") EXCEPT !.op = "wake", !.td = td, !.to = x]
<1>1. /\ cpu[c] = Running(cpu[c].pc) /\ cpu[c].pc \in {"run", "halt"} /\ cur[c] \in Thread \cup {Idle}
      /\ td \in asleep /\ td_lock[td] = SleepQ
  BY DEF sched_add, IInv, LocalInv, ShapeOf
<1>2. /\ s \in CpuState /\ cpu' = [cpu EXCEPT ![c] = s] /\ s.pc = "setcpu" /\ s.td = td /\ s.to = x
      /\ s.mtx = None /\ s.op = "wake"
  BY DEF sched_add, Running, CpuState, Label, Op
<1>3. cpu' \in [CPU -> CpuState] /\ cpu'[c] = s /\ \A k \in CPU \ {c} : cpu'[k] = cpu[k]  BY <1>2 DEF IInv, Typed
<1> HIDE DEF s
<1>4. /\ UNCHANGED <<queue, load, lock, cur, cpu_idle, ipi, idlepc>> /\ asleep' = asleep \ {td}
      /\ td_lock' \in [Thread -> CPU \cup {SleepQ, Blocked}]
      /\ td_lock'[td] = Blocked /\ \A t \in Thread \ {td} : td_lock'[t] = td_lock[t]
  BY DEF sched_add, tdqVars, ipiVars, IInv, Typed
<1>5. LocalInv'
  <2>1. ShapeOf(c)' /\ MoveOf(c)' /\ IdleOf(c)'
    BY <1>1, <1>2, <1>3, <1>4, ULEAssumption DEF ShapeOf, MoveOf, IdleOf, IdleLabel, IInv, LocalInv
  <2>2. \A y \in CPU : LockStep(c, y)  BY <1>1, <1>2, <1>3, <1>4 DEF LockStep, Holds
  <2>3. QED  BY <1>1, <1>2, <1>3, <1>4, <2>1, <2>2, LocalStep
<1>6. /\ \A k \in CPU : Spins(k)' = Spins(k) /\ Has(k)' = Has(k) /\ Has(k) \subseteq Thread /\ cpu'[k].mtx = cpu[k].mtx
      /\ \A k \in CPU, t \in Thread : Wakes(k, t)' <=> (k = c /\ t = td) \/ (k # c /\ Wakes(k, t))
      /\ \A t \in Thread : ~Wakes(c, t)
  <2>1. Spins(c)' = {} /\ Spins(c) = {} /\ cpu[c].mtx = None  BY <1>1, <1>2, <1>3 DEF Spins, Running
  <2>2. \A k \in CPU : Spins(k)' = Spins(k) /\ Spins(k) \subseteq Thread
    BY <1>3, <2>1, HasThreads DEF Spins
  <2>3. QED  BY <1>1, <1>2, <1>3, <1>4, <2>1, <2>2 DEF Has, Wakes, IInv, Typed
<1>7. /\ \A k \in CPU : HasOf(k) /\ CurOf(k) /\ WakeOf(k)
      /\ \A t \in Thread : RestOf(t)
  BY DEF IInv, ThreadInv
<1>8. \A k \in CPU : cur[k] # td /\ td \notin Has(k) /\ ~Wakes(k, td)
  BY <1>1, <1>7, ULEAssumption DEF HasOf, WakeOf, RestOf
<1>9. \A k \in CPU : HasOf(k)'  BY <1>4, <1>6, <1>7, <1>8 DEF HasOf
<1>10. ASSUME NEW k \in CPU, cur[k] \in Thread PROVE CurOf(k)'
  <2>1. CurOf(k) /\ cur[k] # td  BY <1>7, <1>8
  <2>2. cpu'[k].pc \in {"pair1", "pair2"} <=> cpu[k].pc \in {"pair1", "pair2"}  BY <1>1, <1>2, <1>3
  <2>3. QED  BY <1>4, <1>6, <1>10, <2>1, <2>2 DEF CurOf
<1>11. \A k \in CPU : WakeOf(k)'  BY <1>4, <1>6, <1>7, <1>8 DEF WakeOf
<1>12. \A t \in Thread : RestOf(t)'
  <2> SUFFICES ASSUME NEW t \in Thread PROVE RestOf(t)'  OBVIOUS
  <2>1. CASE t = td  BY <1>4, <1>6, <2>1, ULEAssumption DEF RestOf
  <2>2. CASE t # td  BY <1>4, <1>6, <1>7, <2>2 DEF RestOf
  <2>3. QED  BY <2>1, <2>2
<1>13. LoadInv'
  <2>1. \A k \in CPU : Own(k)' = Own(k)  BY <1>1, <1>2, <1>3, <1>4, <1>6 DEF Counted, Own
  <2>2. QED  BY <1>4, <2>1 DEF LoadInv, IInv
<1>14. QED
  BY <1>3, <1>4, <1>5, <1>9, <1>10, <1>11, <1>12, <1>13 DEF IInv, Typed, ThreadInv, CurOf

\* sched_setcpu gives it to the queue that was chosen, whose CPU is told.
LEMMA sched_setcpuKeeps == ASSUME IInv, NEW c \in CPU, sched_setcpu(c) PROVE IInv'
<1>1. PICK td \in Thread, x \in CPU :
        /\ cpu[c].pc = "setcpu" /\ cpu[c] \in CpuState /\ td = cpu[c].td /\ x = cpu[c].to /\ cur[c] \in Thread \cup {Idle}
        /\ cpu[c].mtx = None /\ cpu[c].op = "wake" /\ lock[x] = None
  BY DEF sched_setcpu, IInv, LocalInv, ShapeOf, Typed, Free
<1> DEFINE s == IF x = c THEN Returned(c) ELSE [cpu[c] EXCEPT !.pc = "notify"]
<1>2. /\ s \in CpuState /\ cpu' = [cpu EXCEPT ![c] = s] /\ s.mtx = None
      /\ x # c => s.pc = "notify" /\ s.to = x /\ s.op = "wake" /\ s.td = td
      /\ x = c => s.pc = (IF cur[c] = Idle THEN "woken" ELSE "run") /\ s = Running(s.pc)
  <2>1. CASE x = c  BY <1>1, <2>1 DEF sched_setcpu, Return, Returned, Running, CpuState, Label, IdleLabel, Op
  <2>2. CASE x # c  BY <1>1, <2>2 DEF sched_setcpu, Goto, CpuState, Label
  <2>3. QED  BY <2>1, <2>2
<1>3. cpu' \in [CPU -> CpuState] /\ cpu'[c] = s /\ \A k \in CPU \ {c} : cpu'[k] = cpu[k]  BY <1>2 DEF IInv, Typed
<1> HIDE DEF s
<1>4. /\ UNCHANGED <<cur, asleep, cpu_idle, ipi, idlepc>>
      /\ td_lock' \in [Thread -> CPU \cup {SleepQ, Blocked}] /\ lock' \in [CPU -> CPU \cup {None}]
      /\ queue' \in [CPU -> SUBSET Thread] /\ load' \in [CPU -> Int]
      /\ td_lock'[td] = x /\ \A t \in Thread \ {td} : td_lock'[t] = td_lock[t]
      /\ queue'[x] = queue[x] \cup {td} /\ \A k \in CPU \ {x} : queue'[k] = queue[k]
      /\ load'[x] = load[x] + 1 /\ \A k \in CPU \ {x} : load'[k] = load[k]
      /\ \A k \in CPU : lock'[k] = IF k = x /\ x # c THEN c ELSE lock[k]
  BY <1>1 DEF sched_setcpu, tdq_add, ipiVars, IInv, Typed
<1>5. LocalInv'
  <2>1. ShapeOf(c)' /\ MoveOf(c)' /\ IdleOf(c)'
    BY <1>1, <1>2, <1>3, <1>4, ULEAssumption DEF ShapeOf, MoveOf, IdleOf, IdleLabel, IInv, LocalInv
  <2>2. Holds(c) = {} /\ Holds(c)' = IF x = c THEN {} ELSE {x}  BY <1>1, <1>2, <1>3 DEF Holds
  <2>3. \A y \in CPU : LockStep(c, y)  BY <1>1, <1>4, <2>2 DEF LockStep
  <2>4. /\ \A k \in CPU \ {c} : queue'[k] \subseteq queue[k] \cup lowest \/ Notifies(c, k)'
        /\ cpu'[c].pc # "halt" /\ \A k \in CPU : queue[k] \subseteq queue'[k]
    BY <1>1, <1>2, <1>3, <1>4 DEF Notifies
  <2>5. QED  BY <1>1, <1>3, <1>4, <2>1, <2>3, <2>4, LocalStep
<1>6. /\ \A k \in CPU : Spins(k)' = Spins(k) /\ Has(k) \subseteq Thread /\ cpu'[k].mtx = cpu[k].mtx
      /\ \A k \in CPU : Has(k)' = IF k = x THEN Has(k) \cup {td} ELSE Has(k)
      /\ \A k \in CPU, t \in Thread : Wakes(k, t)' <=> (k # c /\ Wakes(k, t))
      /\ \A t \in Thread : Wakes(c, t) <=> t = td
  <2>1. Spins(c)' = {} /\ Spins(c) = {}  BY <1>1, <1>2, <1>3 DEF Spins
  <2>2. \A k \in CPU : Spins(k)' = Spins(k) /\ Spins(k) \subseteq Thread
    BY <1>3, <2>1, HasThreads DEF Spins
  <2>3. QED  BY <1>1, <1>2, <1>3, <1>4, <2>1, <2>2 DEF Has, Wakes, IInv, Typed
<1>7. /\ \A k \in CPU : HasOf(k) /\ CurOf(k) /\ WakeOf(k)
      /\ \A t \in Thread : RestOf(t)
  BY DEF IInv, ThreadInv
<1>8. td \notin asleep /\ \A k \in CPU : cur[k] # td /\ td \notin Has(k) /\ (k # c => ~Wakes(k, td))
  BY <1>1, <1>6, <1>7 DEF WakeOf
<1>9. ASSUME NEW k \in CPU PROVE HasOf(k)'
  <2>1. queue[k]' \cap Spins(k)' = {}  BY <1>4, <1>6, <1>7, <1>8 DEF HasOf, Has
  <2>2. ASSUME NEW t \in Has(k)'
        PROVE  t \notin asleep' /\ td_lock'[t] \in {k, Blocked} /\ \A j \in CPU : t \in Has(j)' => j = k
    BY <1>4, <1>6, <1>7, <1>8, <2>2 DEF HasOf
  <2>3. QED  BY <2>1, <2>2 DEF HasOf
<1>10. ASSUME NEW k \in CPU, cur[k] \in Thread PROVE CurOf(k)'
  <2>1. CurOf(k) /\ cur[k] # td  BY <1>7, <1>8
  <2>2. cpu'[k].pc \in {"pair1", "pair2"} <=> cpu[k].pc \in {"pair1", "pair2"}  BY <1>1, <1>2, <1>3
  <2>3. \A j \in CPU : cur[k] \in Has(j)' <=> cur[k] \in Has(j)  BY <1>6, <2>1
  <2>4. cur[k] \in queue'[k] <=> cur[k] \in queue[k]  BY <1>4, <2>1
  <2>5. QED  BY <1>4, <1>6, <1>10, <2>1, <2>2, <2>3, <2>4 DEF CurOf
<1>11. \A k \in CPU : WakeOf(k)'  BY <1>4, <1>6, <1>7, <1>8 DEF WakeOf
<1>12. \A t \in Thread : RestOf(t)'
  <2> SUFFICES ASSUME NEW t \in Thread PROVE RestOf(t)'  OBVIOUS
  <2>1. CASE t = td  BY <1>1, <1>4, <1>6, <2>1, ULEAssumption DEF RestOf
  <2>2. CASE t # td  BY <1>4, <1>6, <1>7, <2>2 DEF RestOf
  <2>3. QED  BY <2>1, <2>2
<1>13. LoadInv'
  <2>1. \A k \in CPU : Own(k)' = Own(k)  BY <1>1, <1>2, <1>3, <1>4, <1>6 DEF Counted, Own
  <2>2. td \notin queue[x]  BY <1>1, <1>8 DEF Has
  <2>3. ASSUME NEW k \in CPU PROVE load'[k] = Cardinality(queue'[k]) + Own(k)'
    <3>1. /\ queue'[k] \in {queue[k], queue[k] \cup {td}, queue[k] \ {td}} /\ load'[k] \in Int /\ load[k] \in Int
          /\ Own(k) \in Int
      BY <1>4 DEF IInv, Typed, Own
    <3>2. CASE k = x
      <4>1. td \in queue'[k] /\ td \notin queue[k] /\ load'[k] = load[k] + 1  BY <1>4, <2>2, <3>2
      <4>2. QED  BY <2>1, <3>1, <4>1, LoadStep
    <3>3. CASE k # x  BY <1>4, <2>1, <3>3 DEF LoadInv, IInv
    <3>4. QED  BY <3>2, <3>3
  <2>4. QED  BY <2>3 DEF LoadInv
<1>14. QED
  BY <1>3, <1>4, <1>5, <1>9, <1>10, <1>11, <1>12, <1>13 DEF IInv, Typed, ThreadInv, CurOf

\* The thread that runs goes back to the queue of its CPU (sched_switch, and sched_preempt).
LEMMA RequeueKeeps ==
    ASSUME IInv, NEW c \in CPU, cpu[c].pc = "run", Free(c),
           lock' = [lock EXCEPT ![c] = c], queue' = [queue EXCEPT ![c] = @ \cup {cur[c]}],
           cpu' = [cpu EXCEPT ![c] = [Running("choose") EXCEPT !.mtx = c]],
           UNCHANGED <<load, tdVars, cpu_idle, idlepc>>,
           ipi' \in [CPU -> BOOLEAN], \A k \in CPU \ {c} : ipi'[k] = ipi[k]
    PROVE  IInv'
<1> DEFINE s == [Running("choose") EXCEPT !.mtx = c]
<1>1. PICK td \in Thread : td = cur[c] /\ cpu[c] = Running("run") /\ cpu[c].mtx = None
  BY DEF IInv, LocalInv, ShapeOf, Running
<1>2. s \in CpuState /\ s.pc = "choose" /\ s.mtx = c /\ c # None
  BY ULEAssumption DEF Running, CpuState, Label, Op
<1>3. cpu' \in [CPU -> CpuState] /\ cpu'[c] = s /\ \A k \in CPU \ {c} : cpu'[k] = cpu[k]  BY <1>2 DEF IInv, Typed
<1> HIDE DEF s
<1>4. /\ UNCHANGED <<cur, asleep, td_lock, load, cpu_idle, idlepc>>
      /\ lock' \in [CPU -> CPU \cup {None}] /\ queue' \in [CPU -> SUBSET Thread]
      /\ queue'[c] = queue[c] \cup {td} /\ \A k \in CPU \ {c} : queue'[k] = queue[k]
      /\ lock'[c] = c /\ lock[c] = None /\ \A k \in CPU \ {c} : lock'[k] = lock[k]
  BY <1>1 DEF tdVars, IInv, Typed, Free
<1>5. LocalInv'
  <2>1. ShapeOf(c)' /\ MoveOf(c)' /\ IdleOf(c)'
    <3>1. cpu'[c].pc = "choose" /\ cpu'[c].mtx = c /\ cur'[c] = td /\ td # None /\ td # Idle /\ c # None
      BY <1>1, <1>2, <1>3, <1>4, ULEAssumption
    <3>2. ShapeOf(c)' /\ MoveOf(c)'  BY <3>1 DEF ShapeOf, MoveOf, IdleLabel
    <3>3. IdleOf(c)'  BY <1>1, <1>4, <3>1 DEF IdleOf, IInv, LocalInv
    <3>4. QED  BY <3>2, <3>3
  <2>2. Holds(c) = {} /\ Holds(c)' = {c}  BY <1>1, <1>2, <1>3 DEF Holds
  <2>3. \A y \in CPU : LockStep(c, y)  BY <1>4, <2>2 DEF LockStep
  <2>4. \A k \in CPU : queue[k] \subseteq queue'[k]  BY <1>4
  <2>5. QED  BY <1>1, <1>2, <1>3, <1>4, <2>1, <2>3, <2>4, LocalStep
<1>6. /\ \A k \in CPU : Spins(k)' = Spins(k) /\ Has(k) \subseteq Thread
      /\ \A k \in CPU : Has(k)' = IF k = c THEN Has(k) \cup {td} ELSE Has(k)
      /\ \A k \in CPU, t \in Thread : Wakes(k, t)' <=> Wakes(k, t)
      /\ Spins(c) = {}
  <2>1. Spins(c)' = {} /\ Spins(c) = {}  BY <1>1, <1>2, <1>3 DEF Spins
  <2>2. \A k \in CPU : Spins(k)' = Spins(k) /\ Has(k) \subseteq Thread
    BY <1>3, <2>1, HasThreads DEF Spins
  <2>3. QED  BY <1>1, <1>2, <1>3, <1>4, <2>1, <2>2 DEF Has, Wakes
<1>7. /\ \A k \in CPU : HasOf(k) /\ CurOf(k) /\ WakeOf(k)
      /\ \A t \in Thread : RestOf(t)
  BY DEF IInv, ThreadInv
<1>8. /\ td_lock[td] = c /\ td \notin asleep /\ \A k \in CPU : cur[k] = td => k = c
      /\ \A k \in CPU : td \notin Has(k)
  <2>1. td_lock[td] = c /\ td \notin asleep /\ td \notin Has(c) /\ \A k \in CPU : cur[k] = td => k = c
    BY <1>1, <1>7 DEF CurOf
  <2>2. QED  BY <1>7, <2>1, ULEAssumption DEF HasOf
<1>9. ASSUME NEW k \in CPU PROVE HasOf(k)'
  <2>1. queue[k]' \cap Spins(k)' = {}  BY <1>4, <1>6, <1>7 DEF HasOf
  <2>2. ASSUME NEW t \in Has(k)'
        PROVE  t \notin asleep' /\ td_lock'[t] \in {k, Blocked} /\ \A j \in CPU : t \in Has(j)' => j = k
    BY <1>4, <1>6, <1>7, <1>8, <2>2 DEF HasOf
  <2>3. QED  BY <2>1, <2>2 DEF HasOf
<1>10. ASSUME NEW k \in CPU, cur[k] \in Thread PROVE CurOf(k)'
  <2>1. CASE k = c  BY <1>1, <1>2, <1>3, <1>4, <1>8, <2>1, ULEAssumption DEF CurOf
  <2>2. CASE k # c
    <3>1. CurOf(k) /\ cur[k] # td  BY <1>7, <1>8, <2>2
    <3>2. \A j \in CPU : cur[k] \in Has(j)' <=> cur[k] \in Has(j)  BY <1>6, <3>1
    <3>3. QED  BY <1>3, <1>4, <1>10, <2>2, <3>1, <3>2 DEF CurOf
  <2>3. QED  BY <2>1, <2>2
<1>11. \A k \in CPU : WakeOf(k)'  BY <1>1, <1>4, <1>6, <1>7 DEF WakeOf
<1>12. \A t \in Thread : RestOf(t)'  BY <1>4, <1>6, <1>7 DEF RestOf
<1>13. LoadInv'
  <2>1. Own(c) = 1 /\ Own(c)' = 0 /\ \A k \in CPU \ {c} : Own(k)' = Own(k)
    BY <1>1, <1>2, <1>3, <1>4, ULEAssumption DEF Counted, Own
  <2>2. td \notin queue[c] /\ td \in queue'[c]  BY <1>4, <1>8 DEF Has
  <2>3. load'[c] = Cardinality(queue'[c]) + Own(c)'
    <3>1. load[c] \in Int /\ load'[c] = load[c]  BY <1>4 DEF IInv, Typed
    <3>2. load'[c] - load[c] = (IF td \in queue'[c] THEN 1 ELSE 0) - (IF td \in queue[c] THEN 1 ELSE 0)
                               + Own(c)' - Own(c)
      BY <2>1, <2>2, <3>1
    <3>3. queue'[c] \in {queue[c], queue[c] \cup {td}, queue[c] \ {td}} /\ load'[c] \in Int  BY <1>4, <3>1
    <3>4. QED  BY ONLY IInv, c \in CPU, <3>2, <3>3, LoadStep
  <2>4. QED  BY <1>4, <2>1, <2>3 DEF LoadInv, IInv
<1>14. QED
  BY <1>3, <1>4, <1>5, <1>9, <1>10, <1>11, <1>12, <1>13 DEF IInv, Typed, ThreadInv, CurOf

\* sched_switch of a thread that is preempted or yields.
LEMMA sched_switchKeeps == ASSUME IInv, NEW c \in CPU, sched_switch(c) PROVE IInv'
BY RequeueKeeps DEF sched_switch, ipiVars, IInv, Typed

\* The handler of an IPI.
LEMMA sched_preemptKeeps == ASSUME IInv, NEW c \in CPU, sched_preempt(c) PROVE IInv'
<1>1. CASE queue' = queue  BY <1>1, sched_preemptQuiet
<1>2. CASE queue' # queue
  <2>1. /\ Free(c) /\ queue' = [queue EXCEPT ![c] = @ \cup {cur[c]}] /\ lock' = [lock EXCEPT ![c] = c]
        /\ cpu[c].pc \notin IdleLabel \cup {"halt", "search"}
        /\ cpu' = [cpu EXCEPT ![c] = [Running("choose") EXCEPT !.mtx = c]] /\ UNCHANGED <<load, tdVars, cpu_idle>>
        /\ idlepc' = CASE cpu[c].pc \in IdleLabel -> [idlepc EXCEPT ![c] = cpu[c].pc]
                       [] cpu[c].pc = "halt" -> [idlepc EXCEPT ![c] = "woken"]
                       [] cpu[c].pc = "search" -> [idlepc EXCEPT ![c] = "idle"]
                       [] OTHER -> idlepc
        /\ ipi' = [ipi EXCEPT ![c] = FALSE]
    BY <1>2 DEF sched_preempt
  <2>2. cpu[c].pc = "run"  BY <2>1 DEF sched_preempt
  <2>3. idlepc' = idlepc  BY <2>1
  <2>4. ipi' \in [CPU -> BOOLEAN] /\ \A k \in CPU \ {c} : ipi'[k] = ipi[k]  BY <2>1 DEF IInv, Typed
  <2>5. QED  BY <2>1, <2>2, <2>3, <2>4, RequeueKeeps
<1>3. QED  BY <1>1, <1>2

\* The thread that runs leaves: it goes to sleep or ends (mtx is SleepQ), or it migrates to
\* another CPU.  It is in no queue, its lock is blocked, and tdq_load does not count it.
LEMMA LeaveKeeps ==
    ASSUME IInv, NEW c \in CPU, cpu[c].pc = "run", Free(c), NEW td \in Thread, td = cur[c],
           NEW s \in CpuState, cpu' = [cpu EXCEPT ![c] = s], s.mtx \in (CPU \cup {SleepQ}) \ {c},
           td_lock' = [td_lock EXCEPT ![td] = Blocked], tdq_load_rem(c),
           asleep' = IF s.mtx = SleepQ THEN asleep \cup {td} ELSE asleep,
           s.pc \in {"choose", "search", "pair1"}, s.mtx \in CPU => s.pc = "pair1",
           s.pc = "search" => s.op = "trysteal" /\ s.mtx = SleepQ,
           s.pc = "pair1" => s.op = "migrate" /\ s.from = c /\ s.to = s.mtx /\ s.mtx \in CPU /\ s.td = td,
           lock' = IF s.pc = "choose" THEN [lock EXCEPT ![c] = c] ELSE lock,
           UNCHANGED <<queue, cur, ipiVars>>
    PROVE  IInv'
<1>1. cur[c] = td /\ cpu[c] = Running("run") /\ cpu[c].mtx = None /\ s.mtx # None /\ td # Idle
  BY ULEAssumption DEF IInv, LocalInv, ShapeOf, Running
<1>3. cpu' \in [CPU -> CpuState] /\ cpu'[c] = s /\ \A k \in CPU \ {c} : cpu'[k] = cpu[k]  BY DEF IInv, Typed
<1>4. /\ UNCHANGED <<queue, cur, cpu_idle, idlepc, ipi>> /\ asleep' \subseteq Thread
      /\ lock' \in [CPU -> CPU \cup {None}] /\ load' \in [CPU -> Int]
      /\ td_lock' \in [Thread -> CPU \cup {SleepQ, Blocked}]
      /\ td_lock'[td] = Blocked /\ \A t \in Thread \ {td} : td_lock'[t] = td_lock[t]
      /\ load'[c] = load[c] - 1 /\ \A k \in CPU \ {c} : load'[k] = load[k]
      /\ lock[c] = None /\ \A k \in CPU : lock'[k] = IF k = c /\ s.pc = "choose" THEN c ELSE lock[k]
  BY DEF ipiVars, tdq_load_rem, IInv, Typed, Free
<1>5. LocalInv'
  <2>1. ShapeOf(c)' /\ MoveOf(c)' /\ IdleOf(c)'
    BY <1>1, <1>3, <1>4, ULEAssumption DEF ShapeOf, MoveOf, IdleOf, IdleLabel, IInv, LocalInv
  <2>2. Holds(c) = {} /\ Holds(c)' = IF s.pc = "choose" THEN {c} ELSE {}  BY <1>1, <1>3 DEF Holds
  <2>3. \A y \in CPU : LockStep(c, y)  BY <1>4, <2>2 DEF LockStep
  <2>4. QED  BY <1>1, <1>3, <1>4, <2>1, <2>3, LocalStep
<1>6. /\ \A k \in CPU : Spins(k)' = Spins(k) /\ Has(k) \subseteq Thread /\ Has(k)' = Has(k)
      /\ \A k \in CPU, t \in Thread : Wakes(k, t)' <=> Wakes(k, t)
  <2>1. Spins(c)' = {} /\ Spins(c) = {}  BY <1>1, <1>3 DEF Spins
  <2>2. \A k \in CPU : Spins(k)' = Spins(k) /\ Has(k) \subseteq Thread
    BY <1>3, <2>1, HasThreads DEF Spins
  <2>3. QED  BY <1>1, <1>3, <1>4, <2>1, <2>2 DEF Has, Wakes
<1>7. /\ \A k \in CPU : HasOf(k) /\ CurOf(k) /\ WakeOf(k)
      /\ \A t \in Thread : RestOf(t)
  BY DEF IInv, ThreadInv
<1>8. /\ td_lock[td] = c /\ td \notin asleep /\ \A k \in CPU : cur[k] = td => k = c
      /\ \A k \in CPU : td \notin Has(k)
  <2>1. td_lock[td] = c /\ td \notin asleep /\ td \notin Has(c) /\ \A k \in CPU : cur[k] = td => k = c
    BY <1>1, <1>7 DEF CurOf
  <2>2. QED  BY <1>7, <2>1, ULEAssumption DEF HasOf
<1>9. \A k \in CPU : HasOf(k)'  BY <1>4, <1>6, <1>7, <1>8 DEF HasOf
<1>10. ASSUME NEW k \in CPU, cur[k] \in Thread PROVE CurOf(k)'
  <2>1. CASE k = c  BY <1>1, <1>3, <1>4, <1>6, <1>8, <2>1, ULEAssumption DEF CurOf
  <2>2. CASE k # c
    <3>1. CurOf(k) /\ cur[k] # td  BY <1>7, <1>8, <2>2
    <3>2. QED  BY <1>3, <1>4, <1>6, <1>10, <2>2, <3>1 DEF CurOf
  <2>3. QED  BY <2>1, <2>2
<1>11. \A k \in CPU : WakeOf(k)'  BY <1>1, <1>4, <1>6, <1>7 DEF WakeOf
<1>12. \A t \in Thread : RestOf(t)'
  <2> SUFFICES ASSUME NEW t \in Thread PROVE RestOf(t)'  OBVIOUS
  <2>1. CASE t = td  BY <1>1, <1>4, <2>1, ULEAssumption DEF RestOf
  <2>2. CASE t # td  BY <1>4, <1>6, <1>7, <2>2 DEF RestOf
  <2>3. QED  BY <2>1, <2>2
<1>13. LoadInv'
  <2>1. Own(c) = 1 /\ Own(c)' = 0 /\ \A k \in CPU \ {c} : Own(k)' = Own(k)
    BY <1>1, <1>3, <1>4 DEF Counted, Own
  <2>2. load'[c] = Cardinality(queue'[c]) + Own(c)'
    <3>1. load[c] = Cardinality(queue[c]) + 1 /\ Cardinality(queue[c]) \in Nat
      BY <2>1, QueueFinite DEF IInv, LoadInv
    <3>2. QED  BY <1>4, <2>1, <3>1
  <2>3. QED  BY <1>4, <2>1, <2>2 DEF LoadInv, IInv
<1>14. QED
  BY <1>3, <1>4, <1>5, <1>9, <1>10, <1>11, <1>12, <1>13 DEF IInv, Typed, ThreadInv, CurOf

\* A thread goes to sleep.
LEMMA sched_sleepKeeps == ASSUME IInv, NEW c \in CPU, sched_sleep(c) PROVE IInv'
<1>1. PICK td \in Thread : td = cur[c]  BY DEF sched_sleep, IInv, LocalInv, ShapeOf
<1> DEFINE s == IF load[c] = 1 THEN [Running("search") EXCEPT !.op = "trysteal", !.mtx = SleepQ]
                ELSE [Running("choose") EXCEPT !.mtx = SleepQ]
<1>2. /\ s \in CpuState /\ s.mtx = SleepQ /\ SleepQ \notin CPU
      /\ IF load[c] = 1 THEN s.pc = "search" /\ s.op = "trysteal" ELSE s.pc = "choose"
  BY ULEAssumption DEF Running, CpuState, Label, Op
<1>3. cpu' = [cpu EXCEPT ![c] = s] /\ lock' = IF load[c] = 1 THEN lock ELSE [lock EXCEPT ![c] = c]
  BY DEF sched_sleep
<1> HIDE DEF s
<1>4. QED  BY <1>1, <1>2, <1>3, LeaveKeeps DEF sched_sleep

\* A thread ends.
LEMMA sched_throwKeeps == ASSUME IInv, NEW c \in CPU, sched_throw(c) PROVE IInv'
<1>1. PICK td \in Thread : td = cur[c]  BY DEF sched_throw, IInv, LocalInv, ShapeOf
<1> DEFINE s == [Running("choose") EXCEPT !.mtx = SleepQ]
<1>2. s \in CpuState /\ s.mtx = SleepQ /\ SleepQ \notin CPU /\ s.pc = "choose"
  BY ULEAssumption DEF Running, CpuState, Label, Op
<1>3. cpu' = [cpu EXCEPT ![c] = s]  BY DEF sched_throw
<1> HIDE DEF s
<1>4. QED  BY <1>1, <1>2, <1>3, LeaveKeeps DEF sched_throw

\* A thread starts to migrate.
LEMMA sched_switch_migrateKeeps == ASSUME IInv, NEW c \in CPU, NEW x \in CPU, sched_switch_migrate(c, x) PROVE IInv'
<1>1. PICK td \in Thread : td = cur[c]  BY DEF sched_switch_migrate, IInv, LocalInv, ShapeOf
<1> DEFINE s == [Running("pair1") EXCEPT !.op = "migrate", !.td = td, !.from = c, !.to = x, !.mtx = x]
<1>2. s \in CpuState /\ s.mtx = x /\ SleepQ # x /\ s.pc = "pair1" /\ s.op = "migrate" /\ s.from = c /\ s.to = x /\ s.td = td
  BY ULEAssumption DEF Running, CpuState, Label, Op
<1>3. cpu' = [cpu EXCEPT ![c] = s] /\ x # c  BY <1>1 DEF sched_switch_migrate
<1> HIDE DEF s
<1>4. /\ cpu[c].pc = "run" /\ Free(c) /\ tdq_load_rem(c) /\ td_lock' = [td_lock EXCEPT ![td] = Blocked]
      /\ UNCHANGED <<queue, cur, ipiVars>> /\ lock' = lock /\ asleep' = asleep
  BY <1>1 DEF sched_switch_migrate
<1>5. s.mtx \in (CPU \cup {SleepQ}) \ {c} /\ s.mtx # SleepQ  BY <1>2, <1>3
<1>6. QED  BY <1>1, <1>2, <1>3, <1>4, <1>5, LeaveKeeps

\* choosethread and the first part of cpu_switch.
LEMMA choosethreadKeeps == ASSUME IInv, NEW c \in CPU, choosethread(c) PROVE IInv'
<1>1. PICK td \in IF queue[c] = {} THEN {Idle} ELSE queue[c], u \in Thread \cup {Idle}, m \in CPU \cup {SleepQ, None} :
        /\ cpu[c].pc = "choose" /\ u = cur[c] /\ m = cpu[c].mtx
        /\ IF u = Idle THEN m \in {None, c} ELSE m # None
        /\ queue' = [queue EXCEPT ![c] = @ \ {td}]
        /\ td_lock' = IF u = Idle THEN td_lock ELSE [td_lock EXCEPT ![u] = m]
        /\ IF td = u
           THEN /\ lock' = [lock EXCEPT ![c] = None] /\ UNCHANGED cur
                /\ cpu' = [cpu EXCEPT ![c] = Running(IF td = Idle THEN idlepc[c] ELSE "run")]
           ELSE /\ cur' = [cur EXCEPT ![c] = None] /\ UNCHANGED lock
                /\ cpu' = [cpu EXCEPT ![c] = [Running("spin") EXCEPT !.td = td]]
        /\ UNCHANGED <<load, asleep, cpu_idle, ipi, idlepc>>
  <2>1. cpu[c].pc = "choose" /\ cpu[c] \in CpuState /\ cur[c] \in Thread \cup {Idle, None} /\ ShapeOf(c)
    BY DEF choosethread, IInv, LocalInv, Typed
  <2>2. cur[c] \in Thread \cup {Idle} /\ cpu[c].mtx \in CPU \cup {SleepQ, None}
        /\ IF cur[c] = Idle THEN cpu[c].mtx \in {None, c} ELSE cpu[c].mtx # None
    BY <2>1 DEF ShapeOf, CpuState
  <2>3. QED  BY <2>1, <2>2 DEF choosethread, ipiVars
<1>2. /\ td \in Thread \cup {Idle} /\ (td \in Thread => td \in queue[c]) /\ Idle \notin Thread /\ None \notin CPU \cup Thread
      /\ SleepQ \notin CPU /\ SleepQ # None /\ None # Idle /\ Blocked \notin CPU \cup {SleepQ, None}
  BY <1>1, ULEAssumption DEF IInv, Typed
<1>3. /\ queue' \in [CPU -> SUBSET Thread] /\ queue'[c] = queue[c] \ {td} /\ \A k \in CPU \ {c} : queue'[k] = queue[k]
      /\ lock' \in [CPU -> CPU \cup {None}] /\ lock[c] = c
      /\ \A k \in CPU : lock'[k] = IF td = u /\ k = c THEN None ELSE lock[k]
  <2>1. c \in Holds(c)  BY <1>1 DEF Holds
  <2>2. QED  BY <1>1, <2>1 DEF IInv, Typed, LocalInv, LockInv
<1>4. /\ \A k \in CPU : HasOf(k) /\ CurOf(k) /\ WakeOf(k)
      /\ \A t \in Thread : RestOf(t)
  BY DEF IInv, ThreadInv
<1>5. Holds(c) = {c} /\ \A t \in Thread : ~Wakes(c, t)  BY <1>1 DEF Holds, Wakes
<1>6. CASE td = u /\ u = Idle
  <2> DEFINE s == Running(idlepc[c])
  <2>1. idlepc[c] \in IdleLabel /\ queue' = queue /\ td_lock' = td_lock /\ cur' = cur
    BY <1>1, <1>2, <1>3, <1>6 DEF IInv, Typed
  <2>2. s \in CpuState /\ s.pc = idlepc[c] /\ s = Running(s.pc) /\ cpu' = [cpu EXCEPT ![c] = s]
    BY <1>1, <1>6, <2>1 DEF Running, CpuState, Label, Op
  <2>3. cpu'[c] = s  BY <2>2 DEF IInv, Typed
  <2> HIDE DEF s
  <2>4. s.pc \notin {"halt", "choose", "run", "setcpu", "spin", "notify", "search", "pair1", "pair2", "move"}
    BY <2>1, <2>2 DEF IdleLabel
  <2>5. ShapeOf(c)' /\ MoveOf(c)' /\ IdleOf(c)'
    <3>1. cpu'[c].pc = s.pc /\ cpu'[c] = Running(s.pc) /\ cur'[c] = Idle  BY <1>1, <1>6, <2>1, <2>2, <2>3
    <3>2. ShapeOf(c)' /\ MoveOf(c)'  BY <2>4, <3>1 DEF ShapeOf, MoveOf
    <3>3. idlepc[c] = "reread" => cpu_idle[c]  BY <1>1 DEF IInv, LocalInv, IdleOf
    <3>4. IdleOf(c)'  BY <1>1, <2>2, <2>4, <3>1, <3>3 DEF IdleOf
    <3>5. QED  BY <3>2, <3>4
  <2>6. \A x \in CPU : LockStep(c, x)
    <3>1. Holds(c)' = {}  BY <2>3, <2>4 DEF Holds
    <3>2. QED  BY <1>3, <1>5, <1>6, <3>1 DEF LockStep
  <2>7. s.pc \notin {"pair1", "pair2"} /\ cpu[c].pc \notin {"pair1", "pair2"}  BY <1>1, <2>4
  <2>8. QED
    BY <1>1, <1>3, <1>6, <2>1, <2>2, <2>4, <2>5, <2>6, <2>7, QuietKeeps DEF IInv, Typed, tdVars
<1>7. CASE td = u /\ u \in Thread
  <2> DEFINE s == Running("run")
  <2>1. s \in CpuState /\ s.pc = "run" /\ s.mtx = None /\ s = Running(s.pc)
    BY DEF Running, CpuState, Label, IdleLabel, Op
  <2>2. cpu' = [cpu EXCEPT ![c] = s]  BY <1>1, <1>2, <1>7
  <2>3. cpu' \in [CPU -> CpuState] /\ cpu'[c] = s /\ \A k \in CPU \ {c} : cpu'[k] = cpu[k]
    BY <2>1, <2>2 DEF IInv, Typed
  <2> HIDE DEF s
  <2>4. u \in queue[c] /\ u \in Has(c) /\ u # Idle  BY <1>2, <1>7 DEF Has
  <2>5. u \notin asleep /\ (\A k \in CPU : u \in Has(k) => k = c) /\ CurOf(c)  BY <1>4, <2>4 DEF HasOf
  <2>6. m = c /\ td_lock[u] = c /\ \A k \in CPU : cur[k] = u => k = c
    BY <1>1, <1>2, <1>7, <2>4, <2>5 DEF CurOf
  <2>7. td_lock' = td_lock /\ cur' = cur  BY <1>1, <1>7, <2>4, <2>6 DEF IInv, Typed
  <2>8. LocalInv'
    <3>1. ShapeOf(c)' /\ MoveOf(c)' /\ IdleOf(c)'
      BY <1>1, <1>2, <1>7, <2>1, <2>3, <2>4, <2>7 DEF ShapeOf, MoveOf, IdleOf, IdleLabel, IInv, LocalInv
    <3>2. Holds(c)' = {}  BY <2>1, <2>3 DEF Holds
    <3>3. \A y \in CPU : LockStep(c, y)  BY <1>3, <1>5, <1>7, <3>2 DEF LockStep
    <3>4. \A k \in CPU \ {c}, x \in CPU : lock[x] = k => queue[x] \subseteq queue'[x]  BY <1>3
    <3>5. QED  BY <1>1, <1>3, <2>1, <2>3, <2>7, <3>1, <3>3, <3>4, LocalStep
  <2>9. /\ \A k \in CPU : Spins(k)' = Spins(k) /\ Has(k) \subseteq Thread
        /\ \A k \in CPU : Has(k)' = IF k = c THEN Has(k) \ {u} ELSE Has(k)
        /\ \A k \in CPU, t \in Thread : Wakes(k, t)' <=> Wakes(k, t)
    <3>1. Spins(c)' = {} /\ Spins(c) = {}  BY <1>1, <2>1, <2>3 DEF Spins
    <3>2. \A k \in CPU : Spins(k)' = Spins(k) /\ Has(k) \subseteq Thread
      <4>1. \A k \in CPU \ {c} : Spins(k)' = Spins(k)  BY <2>3 DEF Spins
      <4>2. QED  BY <3>1, <4>1, HasThreads
    <3>3. QED  BY <1>1, <1>3, <1>7, <2>1, <2>3, <3>1, <3>2 DEF Has, Wakes
  <2>10. \A k \in CPU : HasOf(k)'
    <3>1. \A k \in CPU : queue'[k] \cap Spins(k)' = {}  BY <1>3, <1>4, <2>9 DEF HasOf
    <3>2. QED  BY <1>1, <1>4, <2>7, <2>9, <3>1 DEF HasOf
  <2>11. ASSUME NEW k \in CPU, cur[k] \in Thread PROVE CurOf(k)'
    <3>1. CASE k = c  BY <1>1, <1>2, <2>1, <2>3, <2>5, <2>6, <2>7, <2>9, <3>1 DEF CurOf
    <3>2. CASE k # c
      <4>1. CurOf(k) /\ cur[k] # u  BY <1>4, <2>6, <3>2
      <4>2. \A j \in CPU : cur[k] \in Has(j)' <=> cur[k] \in Has(j)  BY <2>9, <4>1
      <4>3. QED  BY <1>1, <1>3, <2>3, <2>7, <2>11, <3>2, <4>1, <4>2 DEF CurOf
    <3>3. QED  BY <3>1, <3>2
  <2>12. \A k \in CPU : WakeOf(k)'  BY <1>1, <1>4, <2>7, <2>9 DEF WakeOf
  <2>13. \A t \in Thread : RestOf(t)'  BY <1>1, <1>4, <2>7, <2>9 DEF RestOf
  <2>14. LoadInv'
    <3>1. Own(c) = 0 /\ Own(c)' = 1 /\ \A k \in CPU \ {c} : Own(k)' = Own(k)
      BY <1>1, <1>2, <2>1, <2>3, <2>4, <2>6, <2>7 DEF Counted, Own
    <3>2. u \in queue[c] /\ u \notin queue'[c]  BY <1>3, <1>7, <2>4
    <3>3. load[c] \in Int /\ load' = load  BY <1>1 DEF IInv, Typed
    <3>4. load'[c] - load[c] = (IF u \in queue'[c] THEN 1 ELSE 0) - (IF u \in queue[c] THEN 1 ELSE 0)
                               + Own(c)' - Own(c)
      BY <3>1, <3>2, <3>3
    <3>5. load'[c] = Cardinality(queue'[c]) + Own(c)'
      <4>1. queue'[c] \in {queue[c], queue[c] \cup {u}, queue[c] \ {u}} /\ load'[c] \in Int  BY <1>3, <1>7, <3>3
      <4>2. QED  BY <3>4, <4>1, LoadStep
    <3>6. QED  BY <1>3, <3>1, <3>3, <3>5 DEF LoadInv, IInv
  <2>15. QED
    BY <1>1, <1>3, <2>3, <2>7, <2>8, <2>10, <2>11, <2>12, <2>13, <2>14 DEF IInv, Typed, ThreadInv, CurOf
<1>8. CASE td # u
  <2> DEFINE s == [Running("spin") EXCEPT !.td = td]
  <2>1. s \in CpuState /\ s.pc = "spin" /\ s.mtx = None /\ s.td = td
    BY <1>2 DEF Running, CpuState, Label, Op
  <2>2. cpu' = [cpu EXCEPT ![c] = s]  BY <1>1, <1>8
  <2>3. cpu' \in [CPU -> CpuState] /\ cpu'[c] = s /\ \A k \in CPU \ {c} : cpu'[k] = cpu[k]
    BY <2>1, <2>2 DEF IInv, Typed
  <2> HIDE DEF s
  <2>4. cur' \in [CPU -> Thread \cup {Idle, None}] /\ cur'[c] = None /\ \A k \in CPU \ {c} : cur'[k] = cur[k]
    BY <1>1, <1>8 DEF IInv, Typed
  <2>5. /\ td_lock' \in [Thread -> CPU \cup {SleepQ, Blocked}] /\ (u \in Thread => td_lock'[u] = m)
        /\ \A t \in Thread \ {u} : td_lock'[t] = td_lock[t]
    BY <1>1, <1>2 DEF IInv, Typed
  <2>6. u \in Thread => \A k \in CPU : cur[k] = u => k = c  BY <1>1, <1>4 DEF CurOf
  <2>7. /\ u \in Thread /\ m \in CPU => u \in Has(m) /\ u \notin asleep /\ \A k \in CPU : u \in Has(k) => k = m
        /\ u \in Thread /\ m = SleepQ => u \in asleep
        /\ u \in Thread => m \in CPU \cup {SleepQ}
    BY <1>1, <1>2, <1>4 DEF CurOf, HasOf, Has
  <2>8. LocalInv'
    <3>1. ShapeOf(c)' /\ MoveOf(c)' /\ IdleOf(c)'
      BY <1>1, <1>2, <2>1, <2>3, <2>4 DEF ShapeOf, MoveOf, IdleOf, IdleLabel, IInv, LocalInv
    <3>2. Holds(c)' = {c}  BY <2>1, <2>3 DEF Holds
    <3>3. \A y \in CPU : LockStep(c, y)  BY <1>3, <1>5, <1>8, <3>2 DEF LockStep
    <3>4. \A k \in CPU \ {c}, x \in CPU : lock[x] = k => queue[x] \subseteq queue'[x]  BY <1>3
    <3>5. QED  BY <1>1, <1>3, <2>1, <2>3, <2>4, <3>1, <3>3, <3>4, LocalStep
  <2>9. /\ \A k \in CPU : Has(k) \subseteq Thread /\ Has(k)' = Has(k) /\ queue'[k] \cap Spins(k)' = {}
        /\ \A k \in CPU, t \in Thread : Wakes(k, t)' <=> Wakes(k, t)
    <3>1. Spins(c)' = {td} \ {Idle} /\ Spins(c) = {}  BY <1>1, <2>1, <2>3 DEF Spins
    <3>2. \A k \in CPU \ {c} : Spins(k)' = Spins(k) /\ queue[k] \cap Spins(k) = {}  BY <1>4, <2>3 DEF Spins, HasOf
    <3>3. \A k \in CPU : queue'[k] \cap Spins(k)' = {}  BY <1>3, <3>1, <3>2
    <3>4. \A k \in CPU : Has(k) \subseteq Thread /\ Has(k)' = Has(k)
      BY <1>2, <1>3, <3>1, <3>2, HasThreads DEF Has, IInv, Typed
    <3>5. QED  BY <1>1, <2>1, <2>3, <3>3, <3>4 DEF Wakes
  <2>10. ASSUME NEW k \in CPU PROVE HasOf(k)'
    <3>1. ASSUME NEW t \in Has(k)
          PROVE  t \notin asleep' /\ td_lock'[t] \in {k, Blocked} /\ \A j \in CPU : t \in Has(j)' => j = k
      BY <1>1, <1>4, <2>5, <2>7, <2>9, <3>1 DEF HasOf
    <3>2. QED  BY <2>9, <3>1 DEF HasOf
  <2>11. ASSUME NEW k \in CPU, cur'[k] \in Thread PROVE CurOf(k)'
    <3>1. k # c /\ cur'[k] = cur[k]  BY <1>2, <2>4, <2>11
    <3>2. CurOf(k) /\ cur[k] # u  BY <1>4, <2>6, <2>11, <3>1
    <3>3. \A j \in CPU : cur'[j] = cur[k] => cur[j] = cur[k]  BY <1>2, <2>4, <2>11, <3>1
    <3>4. QED  BY <1>1, <1>3, <2>3, <2>4, <2>5, <2>9, <2>11, <3>1, <3>2, <3>3 DEF CurOf
  <2>12. ASSUME NEW k \in CPU PROVE WakeOf(k)'
    <3> SUFFICES ASSUME NEW t \in Thread, Wakes(k, t)
                 PROVE  /\ td_lock'[t] = Blocked /\ t \notin asleep'
                        /\ \A j \in CPU : cur'[j] # t /\ t \notin Has(j)' /\ (Wakes(j, t)' => j = k)
      BY <2>9 DEF WakeOf
    <3>1. t # u  BY <1>1, <1>4 DEF WakeOf
    <3>2. QED  BY <1>1, <1>2, <1>4, <2>4, <2>5, <2>9, <3>1 DEF WakeOf
  <2>13. ASSUME NEW t \in Thread PROVE RestOf(t)'
    <3>1. CASE t = u  BY <1>1, <1>2, <2>4, <2>5, <2>6, <2>7, <2>9, <3>1 DEF RestOf
    <3>2. CASE t # u  BY <1>1, <1>2, <1>4, <2>4, <2>5, <2>9, <3>2 DEF RestOf
    <3>3. QED  BY <3>1, <3>2
  <2>14. LoadInv'
    <3>1. Own(c) = 0 /\ Own(c)' = (IF td = Idle THEN 0 ELSE 1) /\ \A k \in CPU \ {c} : Own(k)' = Own(k)
      BY <1>1, <1>2, <2>1, <2>3, <2>4 DEF Counted, Own
    <3>2. load[c] \in Int /\ load' = load  BY <1>1 DEF IInv, Typed
    <3>3. load'[c] = Cardinality(queue'[c]) + Own(c)'
      <4>1. CASE td = Idle
        <5>1. queue'[c] = queue[c]  BY <1>2, <1>3, <4>1 DEF IInv, Typed
        <5>2. QED  BY <3>1, <3>2, <4>1, <5>1 DEF LoadInv, IInv
      <4>2. CASE td # Idle
        <5>1. td \in queue[c] /\ td \notin queue'[c]  BY <1>2, <1>3, <4>2
        <5>2. load'[c] - load[c] = (IF td \in queue'[c] THEN 1 ELSE 0) - (IF td \in queue[c] THEN 1 ELSE 0)
                                   + Own(c)' - Own(c)
          BY <3>1, <3>2, <4>2, <5>1
        <5>3. queue'[c] \in {queue[c], queue[c] \cup {td}, queue[c] \ {td}} /\ load'[c] \in Int  BY <1>3, <3>2
        <5>4. QED  BY <5>2, <5>3, LoadStep
      <4>3. QED  BY <4>1, <4>2
    <3>4. QED  BY <1>3, <3>1, <3>2, <3>3 DEF LoadInv, IInv
  <2>15. QED
    BY <1>1, <1>3, <2>3, <2>4, <2>5, <2>8, <2>10, <2>11, <2>12, <2>13, <2>14 DEF IInv, Typed, ThreadInv, CurOf
<1>9. QED  BY <1>1, <1>6, <1>7, <1>8

\* A thread that belongs to a CPU, and whose lock is not blocked, runs nowhere else.
LEMMA NotElsewhere ==
    ASSUME IInv, NEW k \in CPU, NEW td \in Has(k), td_lock[td] # Blocked
    PROVE  td_lock[td] = k /\ \A j \in CPU : cur[j] = td => j = k
<1>1. td \in Thread /\ td_lock[td] = k  BY HasThreads DEF IInv, ThreadInv, HasOf
<1>2. ASSUME NEW j \in CPU, cur[j] = td PROVE j = k
  <2>1. CurOf(j) /\ cpu[j].mtx \in CPU \cup {SleepQ, None}  BY DEF IInv, ThreadInv, Typed, CpuState
  <2>2. QED  BY <1>1, <1>2, <2>1 DEF CurOf
<1>3. QED  BY <1>1, <1>2

\* The second part of cpu_switch: the new thread runs.
LEMMA cpu_switchKeeps == ASSUME IInv, NEW c \in CPU, cpu_switch(c) PROVE IInv'
<1>1. PICK td \in Thread \cup {Idle} :
        /\ cpu[c].pc = "spin" /\ td = cpu[c].td /\ (td # Idle => td_lock[td] # Blocked)
        /\ cur[c] = None /\ cpu[c].mtx = None
  <2>1. cpu[c].pc = "spin" /\ cpu[c] \in CpuState /\ ShapeOf(c)  BY DEF cpu_switch, IInv, LocalInv, Typed
  <2>2. cpu[c].td \in Thread \cup {Idle} /\ cur[c] = None /\ cpu[c].mtx = None  BY <2>1 DEF ShapeOf, CpuState
  <2>3. QED  BY <2>1, <2>2 DEF cpu_switch
<1>2. Idle \notin Thread /\ None \notin CPU \cup Thread /\ None # Idle  BY ULEAssumption
<1>3. PICK l \in IdleLabel \cup {"run"} : l = IF td = Idle THEN idlepc[c] ELSE "run"
  BY DEF IInv, Typed
<1> DEFINE s == Running(l)
<1>4. /\ s \in CpuState /\ s.pc = l /\ s.mtx = None /\ s = Running(s.pc) /\ cpu' = [cpu EXCEPT ![c] = s]
  BY <1>1, <1>3 DEF cpu_switch, Running, CpuState, Label, Op
<1>5. cpu' \in [CPU -> CpuState] /\ cpu'[c] = s /\ \A k \in CPU \ {c} : cpu'[k] = cpu[k]
  BY <1>4 DEF IInv, Typed
<1> HIDE DEF s
<1>6. l \notin {"halt", "choose", "setcpu", "spin", "notify", "search", "pair1", "pair2", "move"} /\ (l = "run" <=> td # Idle)
  BY <1>3 DEF IdleLabel, IInv, Typed
<1>7. /\ UNCHANGED <<queue, load, td_lock, asleep, cpu_idle, ipi, idlepc>>
      /\ cur' \in [CPU -> Thread \cup {Idle, None}] /\ cur'[c] = td /\ \A k \in CPU \ {c} : cur'[k] = cur[k]
      /\ lock' \in [CPU -> CPU \cup {None}] /\ lock'[c] = None /\ \A k \in CPU \ {c} : lock'[k] = lock[k]
  BY <1>1 DEF cpu_switch, ipiVars, IInv, Typed
<1>8. Holds(c) = {c} /\ lock[c] = c /\ Holds(c)' = {}
  <2>1. Holds(c) = {c} /\ Holds(c)' = {}  BY <1>1, <1>4, <1>5, <1>6 DEF Holds
  <2>2. QED  BY <2>1 DEF IInv, LocalInv, LockInv
<1>9. LocalInv'
  <2>1. ShapeOf(c)' /\ MoveOf(c)'
    <3>1. cpu'[c].pc = l /\ cpu'[c] = Running(l) /\ cur'[c] = td  BY <1>4, <1>5, <1>7
    <3>2. CASE td = Idle
      <4>1. l # "run"  BY <1>6, <3>2
      <4>2. QED  BY <1>6, <3>1, <3>2, <4>1 DEF ShapeOf, MoveOf
    <3>3. CASE td # Idle
      <4>1. l = "run" /\ td \in Thread  BY <1>6, <3>3
      <4>2. QED  BY <3>1, <4>1 DEF ShapeOf, MoveOf, IdleLabel
    <3>4. QED  BY <3>2, <3>3
  <2>2. idlepc[c] = "reread" => cpu_idle[c]  BY <1>1, <1>2 DEF IInv, LocalInv, IdleOf
  <2>3. IdleOf(c)'  BY <1>3, <1>4, <1>5, <1>6, <1>7, <2>2 DEF IdleOf
  <2>4. \A y \in CPU : LockStep(c, y)  BY <1>7, <1>8 DEF LockStep
  <2>5. QED  BY <1>1, <1>4, <1>5, <1>6, <1>7, <2>1, <2>3, <2>4, LocalStep
<1>10. /\ \A k \in CPU : HasOf(k) /\ CurOf(k) /\ WakeOf(k)
       /\ \A t \in Thread : RestOf(t)
  BY DEF IInv, ThreadInv
<1>11. /\ \A k \in CPU : Has(k) \subseteq Thread /\ Has(k)' = (IF k = c THEN Has(k) \ {td} ELSE Has(k))
       /\ \A k \in CPU : queue'[k] \cap Spins(k)' = {}
       /\ \A k \in CPU, t \in Thread : Wakes(k, t)' <=> Wakes(k, t)
       /\ td # Idle => td \in Has(c)
  <2>1. Spins(c)' = {} /\ Spins(c) = {td} \ {Idle}  BY <1>1, <1>4, <1>5, <1>6 DEF Spins
  <2>2. \A k \in CPU \ {c} : Spins(k)' = Spins(k)  BY <1>5 DEF Spins
  <2>3. \A k \in CPU : queue[k] \cap Spins(k) = {} /\ queue[k] \subseteq Thread  BY <1>10 DEF HasOf, IInv, Typed
  <2>4. \A k \in CPU, t \in Thread : Wakes(k, t)' <=> Wakes(k, t)  BY <1>1, <1>4, <1>5, <1>6 DEF Wakes
  <2>5. Has(c)' = Has(c) \ {td} /\ (td # Idle => td \in Has(c))  BY <1>2, <1>7, <2>1, <2>3 DEF Has
  <2>6. \A k \in CPU \ {c} : Has(k)' = Has(k)  BY <1>7, <2>2 DEF Has
  <2>7. \A k \in CPU : queue'[k] \cap Spins(k)' = {}  BY <1>7, <2>1, <2>2, <2>3
  <2>8. QED  BY <2>4, <2>5, <2>6, <2>7, HasThreads
<1>12. td # Idle => /\ td_lock[td] = c /\ td \notin asleep /\ \A k \in CPU : cur[k] # td
                    /\ \A k \in CPU : (td \in Has(k) => k = c) /\ ~Wakes(k, td)
  BY <1>1, <1>2, <1>10, <1>11, NotElsewhere DEF HasOf, WakeOf
<1>13. \A k \in CPU : HasOf(k)'  BY <1>7, <1>10, <1>11 DEF HasOf
<1>14. ASSUME NEW k \in CPU, cur'[k] \in Thread PROVE CurOf(k)'
  <2>1. CASE k = c
    <3>1. cur'[c] = td /\ td # Idle /\ cpu'[c].mtx = None /\ None \notin {c, SleepQ} \cup CPU
      BY <1>2, <1>4, <1>5, <1>7, <1>14, <2>1, ULEAssumption
    <3>2. td_lock'[td] = c /\ td \notin asleep' /\ td \notin Has(c)' /\ \A j \in CPU : cur'[j] = td => j = c
      BY <1>7, <1>11, <1>12, <3>1
    <3>3. QED  BY <2>1, <3>1, <3>2 DEF CurOf
  <2>2. CASE k # c
    <3>1. CurOf(k) /\ cur'[k] = cur[k] /\ cur[k] # td  BY <1>2, <1>7, <1>10, <1>12, <1>14, <2>2
    <3>2. \A j \in CPU : cur[k] \in Has(j)' <=> cur[k] \in Has(j)  BY <1>11, <3>1
    <3>3. \A j \in CPU : cur'[j] = cur[k] => cur[j] = cur[k]  BY <1>7, <3>1
    <3>4. QED  BY <1>5, <1>7, <1>14, <2>2, <3>1, <3>2, <3>3 DEF CurOf
  <2>3. QED  BY <2>1, <2>2
<1>15. ASSUME NEW k \in CPU PROVE WakeOf(k)'
  <2> SUFFICES ASSUME NEW t \in Thread, Wakes(k, t)
               PROVE  /\ td_lock'[t] = Blocked /\ t \notin asleep'
                      /\ \A j \in CPU : cur'[j] # t /\ t \notin Has(j)' /\ (Wakes(j, t)' => j = k)
    BY <1>11 DEF WakeOf
  <2>1. t # td  BY <1>2, <1>12
  <2>2. QED  BY <1>7, <1>10, <1>11, <2>1 DEF WakeOf
<1>16. ASSUME NEW t \in Thread PROVE RestOf(t)'
  <2>1. CASE t = td  BY <1>2, <1>7, <1>12, <2>1, ULEAssumption DEF RestOf
  <2>2. CASE t # td  BY <1>1, <1>2, <1>7, <1>10, <1>11, <2>2 DEF RestOf
  <2>3. QED  BY <2>1, <2>2
<1>17. LoadInv'
  <2>1. \A k \in CPU : Own(k)' = Own(k)
    <3>1. Own(c)' = Own(c)  BY <1>1, <1>4, <1>5, <1>6, <1>7 DEF Own, Counted
    <3>2. \A k \in CPU \ {c} : Own(k)' = Own(k)  BY <1>5, <1>7 DEF Own, Counted
    <3>3. QED  BY <3>1, <3>2
  <2>2. QED  BY <1>7, <2>1 DEF LoadInv, IInv
<1>18. QED
  BY <1>5, <1>7, <1>9, <1>13, <1>14, <1>15, <1>16, <1>17 DEF IInv, Typed, ThreadInv, CurOf

\* A thread that migrates enters the queue of the other CPU; its lock stays blocked.
LEMMA MigrateKeeps == ASSUME IInv, NEW c \in CPU, Migrate(c) PROVE IInv'
<1>1. PICK td \in Thread, x \in CPU \ {c} :
        /\ cpu[c].pc = "pair2" /\ cpu[c] \in CpuState /\ td = cpu[c].td /\ td = cur[c] /\ x = cpu[c].to
        /\ cpu[c].from = c /\ cpu[c].mtx = x /\ cpu[c].op = "migrate"
        /\ First(c) \in CPU /\ Second(c) \in CPU /\ {First(c), Second(c)} = {c, x}
        /\ lock[First(c)] = c /\ lock[Second(c)] = None
  BY PairHas DEF Migrate, Locked, Free, PairShape
<1> DEFINE s == [cpu[c] EXCEPT !.pc = "notify"]
<1>2. /\ s \in CpuState /\ cpu' = [cpu EXCEPT ![c] = s] /\ s.mtx = x /\ s.pc = "notify" /\ s.to = x
      /\ s.op = "migrate" /\ s.from = c /\ s.td = td
  BY <1>1 DEF Migrate, Goto, CpuState, Label
<1>3. cpu' \in [CPU -> CpuState] /\ cpu'[c] = s /\ \A k \in CPU \ {c} : cpu'[k] = cpu[k]  BY <1>2 DEF IInv, Typed
<1> HIDE DEF s
<1>4. /\ UNCHANGED <<cur, td_lock, asleep, cpu_idle, ipi, idlepc>> /\ lock' \in [CPU -> CPU \cup {None}]
      /\ queue' \in [CPU -> SUBSET Thread] /\ load' \in [CPU -> Int]
      /\ queue'[x] = queue[x] \cup {td} /\ \A k \in CPU \ {x} : queue'[k] = queue[k]
      /\ load'[x] = load[x] + 1 /\ \A k \in CPU \ {x} : load'[k] = load[k]
      /\ \A k \in CPU : lock'[k] = IF k = Second(c) THEN c ELSE lock[k]
  BY <1>1 DEF Migrate, tdq_add, Both, tdVars, ipiVars, IInv, Typed
<1>5. LocalInv'
  <2>1. ShapeOf(c)' /\ MoveOf(c)' /\ IdleOf(c)'
    BY <1>1, <1>2, <1>3, <1>4, ULEAssumption DEF ShapeOf, MoveOf, IdleOf, IdleLabel, IInv, LocalInv
  <2>2. Holds(c) = {First(c)} /\ Holds(c)' = {First(c), Second(c)}  BY <1>1, <1>2, <1>3 DEF Holds
  <2>3. \A y \in CPU : LockStep(c, y)  BY <1>1, <1>4, <2>2 DEF LockStep
  <2>4. /\ \A k \in CPU \ {c} : queue'[k] \subseteq queue[k] \cup lowest \/ Notifies(c, k)'
        /\ cpu'[c].pc # "halt" /\ \A k \in CPU : queue[k] \subseteq queue'[k]
    BY <1>1, <1>2, <1>3, <1>4 DEF Notifies
  <2>5. QED  BY <1>1, <1>3, <1>4, <2>1, <2>3, <2>4, LocalStep
<1>6. /\ \A k \in CPU : Spins(k)' = Spins(k) /\ Has(k) \subseteq Thread /\ cpu'[k].mtx = cpu[k].mtx
      /\ \A k \in CPU : Has(k)' = IF k = x THEN Has(k) \cup {td} ELSE Has(k)
      /\ \A k \in CPU, t \in Thread : Wakes(k, t)' <=> Wakes(k, t)
  <2>1. Spins(c)' = {} /\ Spins(c) = {}  BY <1>1, <1>2, <1>3 DEF Spins
  <2>2. \A k \in CPU \ {c} : Spins(k)' = Spins(k)  BY <1>3 DEF Spins
  <2>3. \A k \in CPU : Spins(k)' = Spins(k) /\ Has(k) \subseteq Thread  BY <2>1, <2>2, HasThreads
  <2>4. QED  BY <1>1, <1>2, <1>3, <1>4, <2>3 DEF Has, Wakes
<1>7. /\ \A k \in CPU : HasOf(k) /\ CurOf(k) /\ WakeOf(k)
      /\ \A t \in Thread : RestOf(t)
  BY DEF IInv, ThreadInv
<1>8. /\ td_lock[td] = Blocked /\ td \notin asleep /\ \A k \in CPU : td \notin Has(k)
      /\ \A k \in CPU : cur[k] = td => k = c
  <2>1. CurOf(c)  BY <1>7
  <2>2. QED  BY <1>1, <2>1 DEF CurOf
<1>9. ASSUME NEW k \in CPU PROVE HasOf(k)'
  <2>1. queue[k]' \cap Spins(k)' = {}  BY <1>4, <1>6, <1>7, <1>8 DEF HasOf, Has
  <2>2. ASSUME NEW t \in Has(k)'
        PROVE  t \notin asleep' /\ td_lock'[t] \in {k, Blocked} /\ \A j \in CPU : t \in Has(j)' => j = k
    BY <1>4, <1>6, <1>7, <1>8, <2>2 DEF HasOf
  <2>3. QED  BY <2>1, <2>2 DEF HasOf
<1>10. ASSUME NEW k \in CPU, cur[k] \in Thread PROVE CurOf(k)'
  <2>1. CASE k = c
    <3>1. cur'[c] = td /\ cpu'[c].mtx = x /\ x \in CPU \ {c} /\ cpu'[c].pc = "notify" /\ x \notin {None, SleepQ}
      BY <1>1, <1>2, <1>3, <1>4, ULEAssumption
    <3>2. td_lock'[td] = Blocked /\ td \notin asleep' /\ td \in Has(x)' /\ \A j \in CPU : cur'[j] = td => j = c
      BY <1>4, <1>6, <1>8
    <3>3. QED  BY <2>1, <3>1, <3>2 DEF CurOf
  <2>2. CASE k # c
    <3>1. CurOf(k) /\ cur[k] # td  BY <1>7, <1>8, <2>2
    <3>2. \A j \in CPU : cur[k] \in Has(j)' <=> cur[k] \in Has(j)  BY <1>6, <3>1
    <3>3. cur[k] \in queue'[k] <=> cur[k] \in queue[k]  BY <1>4, <3>1
    <3>4. QED  BY <1>3, <1>4, <1>10, <2>2, <3>1, <3>2, <3>3 DEF CurOf
  <2>3. QED  BY <2>1, <2>2
<1>11. \A k \in CPU : WakeOf(k)'  BY <1>1, <1>4, <1>6, <1>7 DEF WakeOf
<1>12. \A t \in Thread : RestOf(t)'  BY <1>4, <1>6, <1>7 DEF RestOf
<1>13. LoadInv'
  <2>1. \A k \in CPU : Own(k)' = Own(k)  BY <1>1, <1>2, <1>3, <1>4, <1>6 DEF Counted, Own
  <2>2. td \notin queue[x]  BY <1>1, <1>8 DEF Has
  <2>3. ASSUME NEW k \in CPU PROVE load'[k] = Cardinality(queue'[k]) + Own(k)'
    <3>1. /\ queue'[k] \in {queue[k], queue[k] \cup {td}, queue[k] \ {td}} /\ load'[k] \in Int /\ load[k] \in Int
          /\ Own(k) \in Int
      BY <1>4 DEF IInv, Typed, Own
    <3>2. CASE k = x
      <4>1. td \in queue'[k] /\ td \notin queue[k] /\ load'[k] = load[k] + 1  BY <1>4, <2>2, <3>2
      <4>2. QED  BY <2>1, <3>1, <4>1, LoadStep
    <3>3. CASE k # x  BY <1>4, <2>1, <3>3 DEF LoadInv, IInv
    <3>4. QED  BY <3>2, <3>3
  <2>4. QED  BY <2>3 DEF LoadInv
<1>14. QED
  BY <1>3, <1>4, <1>5, <1>9, <1>10, <1>11, <1>12, <1>13 DEF IInv, Typed, ThreadInv, CurOf

\* tdq_move: a thread that runs nowhere changes its queue and its lock.
LEMMA tdq_moveKeeps == ASSUME IInv, NEW c \in CPU, tdq_move(c) PROVE IInv'
<1>1. PICK td \in Thread, from \in CPU, to \in CPU :
        /\ from # to /\ cpu[c].pc = "move" /\ cpu[c] \in CpuState /\ td = cpu[c].td /\ from = cpu[c].from /\ to = cpu[c].to
        /\ td \in queue[from] /\ td_lock[td] # Blocked /\ lock[from] = c /\ lock[to] = c
        /\ \/ cpu[c].op = "trysteal" /\ cpu[c].mtx = SleepQ /\ to = c /\ cur[c] \in Thread
           \/ cpu[c].op = "idled" /\ cpu[c].mtx = None /\ to = c /\ cur[c] = Idle
           \/ cpu[c].op = "balance" /\ cpu[c].mtx = None /\ cur[c] \in Thread \cup {Idle}
  <2>1. cpu[c].pc = "move" /\ td_lock[cpu[c].td] # Blocked  BY DEF tdq_move
  <2>2. cpu[c].from \in CPU /\ cpu[c].to \in CPU \ {cpu[c].from} /\ PairShape(c)  BY <2>1, PairHas DEF PairShape
  <2>3. lock[cpu[c].from] = c /\ lock[cpu[c].to] = c
    <3>1. cpu[c].from \in Holds(c) /\ cpu[c].to \in Holds(c)  BY <2>1 DEF Holds
    <3>2. QED  BY <2>2, <3>1 DEF IInv, LocalInv, LockInv
  <2>4. cpu[c].td \in queue[cpu[c].from]  BY <2>1 DEF IInv, LocalInv, MoveOf
  <2>5. cpu[c].td \in Thread /\ cur[c] \in Thread \cup {Idle, None}  BY <2>2, <2>4 DEF IInv, Typed
  <2>6. QED  BY <2>1, <2>2, <2>3, <2>4, <2>5 DEF PairShape
<1>2. PICK s \in CpuState :
        /\ cpu' = [cpu EXCEPT ![c] = s] /\ s.mtx = cpu[c].mtx
        /\ \/ /\ cpu[c].op = "balance" /\ to # c /\ s.pc = "notify" /\ s.from = from /\ s.to = to /\ s.op = "balance"
              /\ s.td = td /\ UNCHANGED <<lock, idlepc>>
           \/ /\ cpu[c].op = "balance" /\ to = c /\ s.pc = (IF cur[c] = Idle THEN "woken" ELSE "run") /\ s = Running(s.pc)
              /\ lock' = [lock EXCEPT ![from] = None, ![to] = None] /\ UNCHANGED idlepc
           \/ /\ cpu[c].op \in {"trysteal", "idled"} /\ s.pc = "choose" /\ lock' = [lock EXCEPT ![from] = None]
              /\ idlepc' = IF cpu[c].op = "idled" THEN [idlepc EXCEPT ![c] = "idle"] ELSE idlepc
  <2>1. CASE cpu[c].op = "balance" /\ to # c
    <3> DEFINE s == [cpu[c] EXCEPT !.pc = "notify"]
    <3>1. s \in CpuState /\ s.mtx = cpu[c].mtx /\ s.pc = "notify" /\ s.from = from /\ s.to = to /\ s.op = "balance"
          /\ s.td = td
      BY <1>1, <2>1 DEF CpuState, Label
    <3>2. cpu' = [cpu EXCEPT ![c] = s] /\ UNCHANGED <<lock, idlepc>>  BY <1>1, <2>1 DEF tdq_move, Goto
    <3> HIDE DEF s
    <3>3. QED  BY <2>1, <3>1, <3>2
  <2>2. CASE cpu[c].op = "balance" /\ to = c
    <3>1. PICK s : s = Returned(c)  OBVIOUS
    <3>2. s \in CpuState /\ s.mtx = None /\ s.pc = (IF cur[c] = Idle THEN "woken" ELSE "run") /\ s = Running(s.pc)
      BY <3>1 DEF Returned, Running, CpuState, Label, IdleLabel, Op
    <3>3. cpu' = [cpu EXCEPT ![c] = s] /\ lock' = [lock EXCEPT ![from] = None, ![to] = None] /\ UNCHANGED idlepc
      BY <1>1, <2>2, <3>1 DEF tdq_move, Return
    <3>4. QED  BY <1>1, <2>2, <3>2, <3>3
  <2>3. CASE cpu[c].op \in {"trysteal", "idled"}
    <3> DEFINE s == [Running("choose") EXCEPT !.mtx = cpu[c].mtx]
    <3>1. s \in CpuState /\ s.mtx = cpu[c].mtx /\ s.pc = "choose"
      BY <1>1 DEF Running, CpuState, Label, Op
    <3>2. /\ cpu' = [cpu EXCEPT ![c] = s] /\ lock' = [lock EXCEPT ![from] = None]
          /\ idlepc' = IF cpu[c].op = "idled" THEN [idlepc EXCEPT ![c] = "idle"] ELSE idlepc
      BY <1>1, <2>3 DEF tdq_move
    <3> HIDE DEF s
    <3>3. QED  BY <2>3, <3>1, <3>2
  <2>4. QED  BY <1>1, <2>1, <2>2, <2>3
<1>3. cpu' \in [CPU -> CpuState] /\ cpu'[c] = s /\ \A k \in CPU \ {c} : cpu'[k] = cpu[k]  BY <1>2 DEF IInv, Typed
<1>4. /\ UNCHANGED <<cur, asleep, cpu_idle, ipi>>
      /\ queue' \in [CPU -> SUBSET Thread] /\ load' \in [CPU -> Int]
      /\ td_lock' \in [Thread -> CPU \cup {SleepQ, Blocked}]
      /\ td_lock'[td] = to /\ \A t \in Thread \ {td} : td_lock'[t] = td_lock[t]
      /\ queue'[from] = queue[from] \ {td} /\ queue'[to] = queue[to] \cup {td}
      /\ load'[from] = load[from] - 1 /\ load'[to] = load[to] + 1
      /\ \A k \in CPU \ {from, to} : queue'[k] = queue[k] /\ load'[k] = load[k]
  BY <1>1 DEF tdq_move, IInv, Typed
<1>5. /\ lock' \in [CPU -> CPU \cup {None}] /\ idlepc' \in [CPU -> IdleLabel]
      /\ \A k \in CPU \ {c} : idlepc'[k] = idlepc[k]
  BY <1>1, <1>2 DEF IInv, Typed, IdleLabel
<1>6. LocalInv'
  <2>1. ShapeOf(c)' /\ MoveOf(c)'
    BY <1>1, <1>2, <1>3, <1>4, ULEAssumption DEF ShapeOf, MoveOf, IdleLabel
  <2>2. IdleOf(c)'
    BY <1>1, <1>2, <1>3, <1>4, ULEAssumption DEF IdleOf, IdleLabel, IInv, LocalInv, Typed
  <2>3. Holds(c) = {from, to}  BY <1>1 DEF Holds
  <2>4. Holds(c)' = (IF s.pc = "notify" THEN {from, to} ELSE IF s.pc = "choose" THEN {c} ELSE {})
    BY <1>1, <1>2, <1>3 DEF Holds
  <2>5. \A y \in CPU : LockStep(c, y)  BY <1>1, <1>2, <2>3, <2>4 DEF LockStep, IInv, Typed
  <2>6. \A k \in CPU \ {c}, x \in CPU : lock[x] = k => queue[x] \subseteq queue'[x]  BY <1>1, <1>4
  <2>7. \A k \in CPU \ {c} : queue'[k] \subseteq queue[k] \cup lowest \/ Notifies(c, k)'
    BY <1>1, <1>2, <1>3, <1>4 DEF Notifies
  <2>8. cpu'[c].pc # "halt" /\ cpu[c].pc # "notify"  BY <1>1, <1>2, <1>3
  <2>9. QED  BY <1>3, <1>4, <1>5, <2>1, <2>2, <2>5, <2>6, <2>7, <2>8, LocalStep
<1>7. /\ \A k \in CPU : HasOf(k) /\ CurOf(k) /\ WakeOf(k)
      /\ \A t \in Thread : RestOf(t)
  BY DEF IInv, ThreadInv
<1>8. td \in Has(from) /\ td \notin asleep /\ \A k \in CPU : (td \in Has(k) => k = from) /\ cur[k] # td /\ ~Wakes(k, td)
  <2>1. td \in Has(from)  BY <1>1 DEF Has
  <2>2. td \notin asleep /\ \A k \in CPU : (td \in Has(k) => k = from) /\ ~Wakes(k, td)
    BY <1>7, <2>1 DEF HasOf, WakeOf
  <2>3. td_lock[td] = from /\ \A k \in CPU : cur[k] = td => k = from  BY <1>1, <2>1, NotElsewhere
  <2>4. cur[from] # td
    <3>1. SUFFICES ASSUME cur[from] = td PROVE FALSE  OBVIOUS
    <3>2. CurOf(from) /\ cpu[from].mtx \in CPU \cup {SleepQ, None}  BY <1>7 DEF IInv, Typed, CpuState
    <3>3. cpu[from].mtx = from  BY <1>1, <2>1, <2>3, <3>1, <3>2 DEF CurOf
    <3>4. cpu[from].pc = "choose"
      <4>1. ShapeOf(from) /\ cpu[from] \in CpuState  BY DEF IInv, LocalInv, Typed
      <4>2. from \notin {None, SleepQ} /\ cur[from] \notin {None, Idle}  BY <3>1, ULEAssumption
      <4>3. QED  BY <3>3, <4>1, <4>2 DEF ShapeOf, Running, CpuState, Label, IdleLabel
    <3>5. from \in Holds(from)  BY <3>4 DEF Holds
    <3>6. lock[from] = from  BY <3>5 DEF IInv, LocalInv, LockInv
    <3>7. QED  BY <1>1, <3>4, <3>6
  <2>5. QED  BY <2>1, <2>2, <2>3, <2>4
<1>9. /\ \A k \in CPU : Spins(k)' = Spins(k) /\ Has(k) \subseteq Thread /\ cpu'[k].mtx = cpu[k].mtx
      /\ Has(from)' = Has(from) \ {td} /\ Has(to)' = Has(to) \cup {td}
      /\ \A k \in CPU \ {from, to} : Has(k)' = Has(k)
      /\ \A k \in CPU, t \in Thread : Wakes(k, t)' <=> Wakes(k, t)
  <2>1. Spins(c)' = {} /\ Spins(c) = {}  BY <1>1, <1>2, <1>3 DEF Spins
  <2>2. \A k \in CPU \ {c} : Spins(k)' = Spins(k)  BY <1>3 DEF Spins
  <2>3. \A k \in CPU : Spins(k)' = Spins(k) /\ Has(k) \subseteq Thread  BY <2>1, <2>2, HasThreads
  <2>4. td \notin Spins(from)  BY <1>1, <1>7 DEF HasOf
  <2>5. \A k \in CPU, t \in Thread : Wakes(k, t)' <=> Wakes(k, t)  BY <1>1, <1>2, <1>3 DEF Wakes
  <2>6. \A k \in CPU : cpu'[k].mtx = cpu[k].mtx  BY <1>2, <1>3
  <2>7. Has(from)' = Has(from) \ {td} /\ Has(to)' = Has(to) \cup {td} /\ \A k \in CPU \ {from, to} : Has(k)' = Has(k)
    BY <1>4, <2>3, <2>4 DEF Has
  <2>8. QED  BY <2>3, <2>5, <2>6, <2>7
<1>10. ASSUME NEW k \in CPU PROVE HasOf(k)'
  <2>1. queue[k]' \cap Spins(k)' = {}  BY <1>4, <1>7, <1>8, <1>9 DEF HasOf, Has
  <2>2. ASSUME NEW t \in Has(k)'
        PROVE  t \notin asleep' /\ td_lock'[t] \in {k, Blocked} /\ \A j \in CPU : t \in Has(j)' => j = k
    <3>1. CASE t = td
      <4>1. \A j \in CPU : td \in Has(j)' => j = to  BY <1>8, <1>9
      <4>2. QED  BY <1>4, <1>8, <2>2, <3>1, <4>1
    <3>2. CASE t # td
      <4>1. \A j \in CPU : t \in Has(j)' <=> t \in Has(j)  BY <1>9, <3>2
      <4>2. t \in Has(k) /\ t \in Thread  BY <1>9, <2>2, <4>1
      <4>3. QED  BY <1>4, <1>7, <3>2, <4>1, <4>2 DEF HasOf
    <3>3. QED  BY <3>1, <3>2
  <2>3. QED  BY <2>1, <2>2 DEF HasOf
<1>11. ASSUME NEW k \in CPU, cur[k] \in Thread PROVE CurOf(k)'
  <2>1. CurOf(k) /\ cur[k] # td  BY <1>7, <1>8
  <2>2. \A j \in CPU : cur[k] \in Has(j)' <=> cur[k] \in Has(j)  BY <1>9, <2>1
  <2>3. cur[k] \in queue'[k] <=> cur[k] \in queue[k]  BY <1>4, <2>1
  <2>4. cpu[k].mtx \in CPU \ {k} => k # c  BY <1>1, ULEAssumption
  <2>5. cpu[k].mtx \in CPU \ {k} => cpu'[k] = cpu[k]  BY <1>3, <2>4
  <2>6. QED  BY <1>4, <1>9, <1>11, <2>1, <2>2, <2>3, <2>5 DEF CurOf
<1>12. ASSUME NEW k \in CPU PROVE WakeOf(k)'
  <2> SUFFICES ASSUME NEW t \in Thread, Wakes(k, t)
               PROVE  /\ td_lock'[t] = Blocked /\ t \notin asleep'
                      /\ \A j \in CPU : cur'[j] # t /\ t \notin Has(j)' /\ (Wakes(j, t)' => j = k)
    BY <1>9 DEF WakeOf
  <2>1. t # td  BY <1>8
  <2>2. \A j \in CPU : t \in Has(j)' <=> t \in Has(j)  BY <1>9, <2>1
  <2>3. QED  BY <1>4, <1>7, <1>9, <2>1, <2>2 DEF WakeOf
<1>13. ASSUME NEW t \in Thread PROVE RestOf(t)'
  <2>1. CASE t = td  BY <1>1, <1>4, <1>8, <1>9, <2>1, ULEAssumption DEF RestOf
  <2>2. CASE t # td
    <3>1. \A j \in CPU : t \in Has(j)' <=> t \in Has(j)  BY <1>9, <2>2
    <3>2. QED  BY <1>4, <1>7, <1>9, <2>2, <3>1 DEF RestOf
  <2>3. QED  BY <2>1, <2>2
<1>14. LoadInv'
  <2>1. \A k \in CPU : Own(k)' = Own(k)  BY <1>1, <1>2, <1>3, <1>4, <1>9 DEF Counted, Own
  <2>2. td \notin queue[to]  BY <1>1, <1>8 DEF Has
  <2>3. ASSUME NEW k \in CPU PROVE load'[k] = Cardinality(queue'[k]) + Own(k)'
    <3>1. /\ queue'[k] \in {queue[k], queue[k] \cup {td}, queue[k] \ {td}} /\ load'[k] \in Int /\ load[k] \in Int
          /\ Own(k) \in Int
      BY <1>4 DEF IInv, Typed, Own
    <3>2. CASE k = to
      <4>1. td \in queue'[k] /\ td \notin queue[k] /\ load'[k] = load[k] + 1  BY <1>4, <2>2, <3>2
      <4>2. QED  BY <2>1, <3>1, <4>1, LoadStep
    <3>3. CASE k = from
      <4>1. td \notin queue'[k] /\ td \in queue[k] /\ load'[k] = load[k] - 1  BY <1>1, <1>4, <3>3
      <4>2. QED  BY <2>1, <3>1, <4>1, LoadStep
    <3>4. CASE k \notin {from, to}  BY <1>4, <2>1, <3>4 DEF LoadInv, IInv
    <3>5. QED  BY <3>2, <3>3, <3>4
  <2>4. QED  BY <2>3 DEF LoadInv
<1>15. QED
  BY <1>3, <1>4, <1>5, <1>6, <1>10, <1>11, <1>12, <1>13, <1>14 DEF IInv, Typed, ThreadInv, CurOf

-----------------------------------------------------------------------------
(* The theorems.                                                           *)

\* All threads sleep, and all CPUs are idle.
LEMMA InitHolds == Init => IInv
<1> SUFFICES ASSUME Init PROVE IInv  OBVIOUS
<1>1. \A c \in CPU : /\ queue[c] = {} /\ load[c] = 0 /\ lock[c] = None /\ cur[c] = Idle /\ cpu[c] = Running("idle")
                     /\ cpu[c].pc = "idle" /\ cpu[c].mtx = None
  BY DEF Init, Running
<1>2. Running("idle") \in CpuState  BY DEF Running, CpuState, Label, IdleLabel, Op
<1>3. Typed  BY <1>2, ULEAssumption DEF Init, Typed, IdleLabel
<1>4. \A c \in CPU : Holds(c) = {} /\ Spins(c) = {} /\ Has(c) = {} /\ \A t \in Thread : ~Wakes(c, t)
  BY <1>1 DEF Holds, Spins, Has, Wakes
<1>5. LocalInv
  <2>1. \A c \in CPU : ShapeOf(c) /\ MoveOf(c)  BY <1>1 DEF ShapeOf, MoveOf, IdleLabel
  <2>2. \A c \in CPU : IdleOf(c)  BY <1>1 DEF IdleOf
  <2>3. LockInv  BY <1>1, <1>4, ULEAssumption DEF LockInv
  <2>4. NoThreadStranded  BY <1>1 DEF NoThreadStranded
  <2>5. QED  BY <2>1, <2>2, <2>3, <2>4 DEF LocalInv
<1>6. ThreadInv  BY <1>1, <1>4, ULEAssumption DEF Init, ThreadInv, HasOf, CurOf, WakeOf, RestOf
<1>7. LoadInv  BY <1>1, FS_EmptySet DEF LoadInv, Own, Counted
<1>8. QED  BY <1>3, <1>5, <1>6, <1>7 DEF IInv

\* Every step keeps the invariant.
LEMMA NextKeeps == IInv /\ [Next]_vars => IInv'
<1> SUFFICES ASSUME IInv, [Next]_vars PROVE IInv'  OBVIOUS
<1>1. CASE UNCHANGED vars
  <2>1. UNCHANGED <<queue, load, lock, cur, td_lock, asleep, cpu_idle, ipi, idlepc, cpu>>
    BY <1>1 DEF vars, tdqVars, tdVars, ipiVars
  <2>2. Typed' /\ NoThreadStranded'  BY <2>1 DEF IInv, Typed, LocalInv, NoThreadStranded, Notifies
  <2>3. \A c \in CPU : ShapeOf(c)' /\ MoveOf(c)' /\ IdleOf(c)'  BY <2>1 DEF IInv, LocalInv, ShapeOf, MoveOf, IdleOf
  <2>4. LockInv'  BY <2>1 DEF IInv, LocalInv, LockInv, Holds, First
  <2>5. ThreadInv' /\ LoadInv'  BY <2>1, QuietStep DEF IInv, tdVars
  <2>6. QED  BY <2>2, <2>3, <2>4, <2>5 DEF IInv, LocalInv
<1>2. CASE Next
  <2>1. PICK c \in CPU :
          \/ \E td \in Thread, x \in CPU : sched_add(c, td, x)
          \/ \E x \in CPU : sched_switch_migrate(c, x)
          \/ \E high, low \in CPU : sched_balance(c, high, low)
          \/ sched_setcpu(c) \/ tdq_notify(c)
          \/ sched_switch(c) \/ sched_sleep(c) \/ sched_throw(c) \/ choosethread(c) \/ cpu_switch(c)
          \/ sched_preempt(c) \/ Search(c) \/ tdq_lock_pair(c) \/ Migrate(c) \/ GiveUp(c)
          \/ tdq_steal(c) \/ tdq_move(c) \/ sched_idletd(c) \/ Halt(c) \/ Interrupt(c) \/ Woken(c)
    BY <1>2 DEF Next
  <2>2. QED
    BY <2>1, sched_addKeeps, sched_switch_migrateKeeps, sched_balanceKeeps, sched_setcpuKeeps, tdq_notifyKeeps,
       sched_switchKeeps, sched_sleepKeeps, sched_throwKeeps, choosethreadKeeps, cpu_switchKeeps,
       sched_preemptKeeps, SearchKeeps, tdq_lock_pairKeeps, MigrateKeeps, GiveUpKeeps, tdq_stealKeeps,
       tdq_moveKeeps, sched_idletdKeeps, HaltKeeps, InterruptKeeps, WokenKeeps
<1>3. QED  BY <1>1, <1>2

\* Locks, queues, threads and loads agree in every state.
THEOREM InvariantHolds == Spec => []IInv
BY InitHolds, NextKeeps, PTL DEF Spec

\* A set whose elements are all equal has at most one.
LEMMA AtMostOne == ASSUME NEW S, \A x, y \in S : x = y PROVE Cardinality(S) <= 1
<1>1. CASE S = {}  BY <1>1, FS_EmptySet
<1>2. CASE S # {}
  <2>1. PICK x : S = {x}  BY <1>2
  <2>2. QED  BY <2>1, FS_Singleton
<1>3. QED  BY <1>1, <1>2

\* The load of a CPU, which other CPUs read without its lock, is within its type.
LEMMA LoadBounded == ASSUME IInv, NEW c \in CPU PROVE load[c] \in 0 .. Cardinality(Thread)
<1>1. /\ load[c] = Cardinality(queue[c]) + Own(c) /\ Cardinality(queue[c]) \in Nat
      /\ queue[c] \in SUBSET Thread /\ IsFiniteSet(queue[c])
  BY QueueFinite DEF IInv, LoadInv, Typed
<1>2. Cardinality(Thread) \in Nat /\ Cardinality(queue[c]) <= Cardinality(Thread)
  BY <1>1, FS_Subset, FS_CardinalityType, ULEAssumption
<1>3. CASE Counted(c)
  <2>1. PICK t \in Thread : t \notin queue[c]
    <3>1. ShapeOf(c) /\ CurOf(c) /\ HasOf(c) /\ cpu[c] \in CpuState /\ cur[c] \in Thread \cup {Idle, None}
      BY DEF IInv, LocalInv, ThreadInv, Typed
    <3>2. CASE cpu[c].pc = "spin"
      <4>1. Spins(c) = {cpu[c].td}  BY <1>3, <3>2 DEF Spins, Counted
      <4>2. cpu[c].td \in Thread /\ cpu[c].td \notin queue[c]  BY <3>1, <4>1, HasThreads DEF HasOf
      <4>3. QED  BY <4>2
    <3>3. CASE cpu[c].pc # "spin"
      <4>1. cur[c] # None  BY <3>1, <3>3, ULEAssumption DEF ShapeOf, CpuState, Label
      <4>2. cur[c] \in Thread /\ cpu[c].mtx = None  BY <1>3, <3>1, <3>3, <4>1 DEF Counted
      <4>3. cur[c] \notin queue[c]  BY <3>1, <4>2 DEF CurOf, Has
      <4>4. QED  BY <4>2, <4>3
    <3>4. QED  BY <3>2, <3>3
  <2>2. Cardinality(queue[c] \cup {t}) = Cardinality(queue[c]) + 1  BY <1>1, <2>1, FS_AddElement
  <2>3. queue[c] \cup {t} \in SUBSET Thread  BY <1>1, <2>1
  <2>4. Cardinality(queue[c] \cup {t}) <= Cardinality(Thread)  BY <2>3, FS_Subset, ULEAssumption
  <2>5. QED  BY <1>1, <1>2, <1>3, <2>2, <2>4 DEF Own
<1>4. CASE ~Counted(c)  BY <1>1, <1>2, <1>4 DEF Own
<1>5. QED  BY <1>3, <1>4

\* However many CPUs and threads there are, and however they are stolen, balanced and
\* migrated, a thread runs on one CPU and waits in one queue at most, is not forgotten, and
\* tdq_load is exact whenever the queue is not locked.
THEOREM ThreadsStayInOnePlace == Spec => []ThreadsInOnePlace
<1>1. ASSUME IInv PROVE ThreadsInOnePlace
  <2> USE <1>1
  <2>1. TypeOK
    <3>1. load \in [CPU -> 0 .. Cardinality(Thread)]  BY LoadBounded DEF IInv, Typed
    <3>2. QED  BY <3>1 DEF IInv, Typed, TypeOK, CpuState
  <2>2. ASSUME NEW t \in Thread
        PROVE  LET on == {c \in CPU : cur[c] = t}
                   in == {c \in CPU : t \in queue[c]}
               IN  /\ Cardinality(on) <= 1 /\ Cardinality(in) <= 1
                   /\ \A c \in on, x \in in : x # c => td_lock[t] = Blocked
                   /\ t \in asleep => in = {}
                   /\ t \notin asleep /\ on = {} /\ in = {} => \E c \in CPU : cpu[c].td = t
    <3> DEFINE on == {c \in CPU : cur[c] = t}
               in == {c \in CPU : t \in queue[c]}
    <3>1. /\ \A c \in CPU : HasOf(c) /\ CurOf(c) /\ cpu[c].mtx \in CPU \cup {SleepQ, None}
          /\ \A c \in CPU : queue[c] \subseteq Has(c)
          /\ RestOf(t)
      BY DEF IInv, ThreadInv, Has, Typed, CpuState
    <3>2. \A c, k \in on : c = k  BY <3>1 DEF CurOf
    <3>3. \A c, k \in in : c = k  BY <3>1 DEF HasOf
    <3>4. Cardinality(on) <= 1 /\ Cardinality(in) <= 1  BY <3>2, <3>3, AtMostOne
    <3>5. ASSUME NEW c \in on, NEW x \in in, x # c PROVE td_lock[t] = Blocked
      <4>1. td_lock[t] \in {x, Blocked} /\ (t \in queue[c] => x = c) /\ t \notin asleep  BY <3>1, <3>3 DEF HasOf
      <4>2. QED  BY <3>1, <3>5, <4>1 DEF CurOf
    <3>6. t \in asleep => in = {}  BY <3>1 DEF HasOf
    <3>7. t \notin asleep /\ on = {} /\ in = {} => \E c \in CPU : cpu[c].td = t
      BY <3>1 DEF RestOf, Has, Spins, Wakes
    <3>8. QED  BY <3>4, <3>5, <3>6, <3>7
  <2>3. ASSUME NEW c \in CPU
        PROVE  /\ cpu[c].pc = "run" => td_lock[cur[c]] = c
               /\ Free(c) => load[c] = Cardinality(queue[c]) + IF cur[c] \in Thread /\ ~Leaves(c) THEN 1 ELSE 0
    <3>1. ShapeOf(c) /\ CurOf(c) /\ cpu[c] \in CpuState /\ cur[c] \in Thread \cup {Idle, None}
      BY DEF IInv, LocalInv, ThreadInv, Typed
    <3>2. cpu[c].pc = "run" => td_lock[cur[c]] = c  BY <3>1 DEF ShapeOf, CurOf, Running
    <3>3. ASSUME Free(c) PROVE load[c] = Cardinality(queue[c]) + IF cur[c] \in Thread /\ ~Leaves(c) THEN 1 ELSE 0
      <4>1. c \notin Holds(c)  BY <3>3, ULEAssumption DEF Free, IInv, LocalInv, LockInv
      <4>2. cpu[c].pc \notin {"choose", "spin"}  BY <4>1 DEF Holds
      <4>3. cpu[c].mtx = None <=> ~Leaves(c)
        <5>1. CASE cpu[c].pc \in IdleLabel \cup {"halt", "run"}  BY <3>1, <5>1 DEF ShapeOf, Running, Leaves
        <5>2. CASE cpu[c].pc \in {"setcpu", "notify", "search", "pair1", "pair2", "move"}
          BY <3>1, <5>2, ULEAssumption DEF ShapeOf, Leaves
        <5>3. QED  BY <3>1, <4>2, <5>1, <5>2 DEF CpuState, Label
      <4>4. cur[c] # None  BY <3>1, <4>2, ULEAssumption DEF ShapeOf, CpuState, Label
      <4>5. Own(c) = IF cur[c] \in Thread /\ ~Leaves(c) THEN 1 ELSE 0
        BY <3>1, <4>2, <4>3, <4>4, ULEAssumption DEF Own, Counted
      <4>6. QED  BY <4>5 DEF IInv, LoadInv
    <3>4. QED  BY <3>2, <3>3
  <2>4. QED  BY <2>1, <2>2, <2>3 DEF ThreadsInOnePlace
<1>2. QED  BY <1>1, InvariantHolds, PTL

\* No CPU halts with a thread in its queue that is better than its idle thread, unless
\* somebody is about to wake it.
THEOREM NoThreadIsStranded == Spec => []NoThreadStranded
<1>1. IInv => NoThreadStranded  BY DEF IInv, LocalInv
<1>2. QED  BY <1>1, InvariantHolds, PTL

\* A finite set of numbers has a greatest one: the numbers above it are the fewest.
LEMMA GreatestExists ==
    ASSUME NEW S \in SUBSET Nat, IsFiniteSet(S), S # {}
    PROVE  \E m \in S : \A x \in S : x <= m
<1> DEFINE Above(m) == {x \in S : x > m}
           T == {Above(m) : m \in S}
<1>1. T \subseteq FiniteSubsetsOf(S)  BY FS_Subset DEF FiniteSubsetsOf
<1>2. T # {}  OBVIOUS
<1>3. PICK U \in T : \A V \in T : ~(<<V, U>> \in StrictSubsetOrdering(S))
  BY <1>1, <1>2, FS_StrictSubsetOrderingWellFounded, WFMin
<1>4. PICK m \in S : U = Above(m)  OBVIOUS
<1>5. ASSUME NEW x \in S, ~(x <= m) PROVE FALSE
  <2>1. x > m  BY <1>5
  <2>2. x \in U /\ x \notin Above(x) /\ Above(x) \in T  BY <1>4, <2>1
  <2>5. ASSUME NEW y \in Above(x) PROVE y \in U
    <3>1. y \in S /\ y > x  OBVIOUS
    <3>2. y > m  BY <2>1, <3>1
    <3>3. QED  BY <1>4, <3>1, <3>2
  <2>3. <<Above(x), U>> \in StrictSubsetOrdering(S)  BY <1>4, <2>2, <2>5 DEF StrictSubsetOrdering
  <2>4. QED  BY <1>3, <2>2, <2>3
<1>6. QED  BY <1>5

\* Who is waited for waits for nobody, or has locked the lower of two queues.
LEMMA WaitedFor ==
    ASSUME IInv, NEW c \in CPU, NEW k \in WaitsFor(c)
    PROVE  /\ k \in CPU
           /\ cpu[k].pc \in {"choose", "notify", "spin", "move", "pair2"}
           /\ cpu[c].pc \in {"setcpu", "pair1", "pair2", "spin", "move"}
           /\ cpu[c].pc \in {"spin", "move"} => cpu[k].pc \in {"choose", "notify"}
           /\ cpu[c].pc = "pair2" /\ cpu[k].pc = "pair2" => First(c) < First(k)
<1>1. k \in CPU  BY DEF WaitsFor
<1>2. CASE \E x \in Wanted(c) : lock[x] = k
  <2>1. PICK x \in Wanted(c) : lock[x] = k  BY <1>2
  <2>2. cpu[c].pc \in {"setcpu", "pair1", "pair2"} /\ x \in CPU /\ (cpu[c].pc = "pair2" => x = Second(c))
    <3>1. CASE cpu[c].pc = "setcpu"  BY <3>1 DEF Wanted, IInv, LocalInv, ShapeOf
    <3>2. CASE cpu[c].pc \in {"pair1", "pair2"}  BY <3>2, PairHas DEF Wanted
    <3>3. QED  BY <3>1, <3>2 DEF Wanted
  <2>3. x \in Holds(k)  BY <1>1, <2>1, <2>2 DEF IInv, LocalInv, LockInv
  <2>4. cpu[k].pc \in {"choose", "notify", "spin", "move", "pair2"} /\ (cpu[k].pc = "pair2" => x = First(k))
    BY <2>3 DEF Holds
  <2>5. QED  BY <1>1, <2>2, <2>4, PairHas
<1>3. CASE cpu[c].pc \in {"move", "spin"} /\ cpu[c].td \in Thread /\ td_lock[cpu[c].td] = Blocked /\ cur[k] = cpu[c].td
  <2>1. PICK t \in Thread, x \in CPU : t = cpu[c].td /\ t \in Has(x)
    <3>1. CASE cpu[c].pc = "move"  BY <1>3, <3>1, PairHas DEF IInv, LocalInv, MoveOf, Has, PairShape
    <3>2. CASE cpu[c].pc = "spin"  BY <1>3, <3>2, ULEAssumption DEF Has, Spins
    <3>3. QED  BY <1>3, <3>1, <3>2
  <2>2. CurOf(k) /\ ShapeOf(k) /\ cpu[k] \in CpuState /\ HasOf(x)
    BY <1>1, <2>1 DEF IInv, ThreadInv, LocalInv, Typed
  <2>3. cpu[k].mtx \in CPU \ {k} /\ cpu[k].pc \notin {"pair1", "pair2"}
    BY <1>1, <1>3, <2>1, <2>2, ULEAssumption DEF CurOf, HasOf, CpuState
  <2>4. cpu[k].mtx \notin {None, SleepQ} /\ cpu[k].mtx # k /\ cur[k] # None  BY <1>3, <2>3, ULEAssumption
  <2>5. cpu[k].pc \in {"choose", "notify"}
    <3>1. cpu[k].pc \notin IdleLabel \cup {"halt", "run"}  BY <2>2, <2>4 DEF ShapeOf, Running
    <3>2. cpu[k].pc \notin {"setcpu", "search", "move", "spin"}  BY <2>2, <2>3, <2>4 DEF ShapeOf
    <3>3. QED  BY <2>2, <2>3, <3>1, <3>2 DEF CpuState, Label
  <2>6. QED  BY <1>1, <1>3, <2>5
<1>4. QED  BY <1>2, <1>3 DEF WaitsFor

\* CPUs never wait for one another in a circle: only CPUs at pair2 are both waited for and
\* waiting, and of those the one that holds the highest first queue waits for none of them.
THEOREM CpusNeverSpinInACircle == Spec => []NoSpinCycle
<1>1. ASSUME IInv, NEW S \in SUBSET CPU, S # {}, \A c \in S : WaitsFor(c) \cap S # {}
      PROVE  FALSE
  <2> USE <1>1
  <2> DEFINE T == {c \in S : cpu[c].pc = "pair2"}
             F == {First(c) : c \in T}
  <2>1. ASSUME NEW c \in S PROVE \E k \in WaitsFor(c) : k \in T
    <3>1. PICK k \in S : k \in WaitsFor(c)  OBVIOUS
    <3>2. PICK l \in S : l \in WaitsFor(k)  OBVIOUS
    <3>3. cpu[k].pc \in {"choose", "notify", "spin", "move", "pair2"}  BY <3>1, WaitedFor
    <3>4. /\ cpu[k].pc \in {"setcpu", "pair1", "pair2", "spin", "move"}
          /\ cpu[k].pc \in {"spin", "move"} => cpu[l].pc \in {"choose", "notify"}
      BY <3>2, WaitedFor
    <3>5. cpu[l].pc \in {"setcpu", "pair1", "pair2", "spin", "move"}
      <4>1. PICK m \in S : m \in WaitsFor(l)  OBVIOUS
      <4>2. QED  BY <4>1, WaitedFor
    <3>6. cpu[k].pc = "pair2"  BY <3>3, <3>4, <3>5
    <3>7. QED  BY <3>1, <3>6
  <2>2. T # {}  BY <2>1
  <2>3. \A c \in T : First(c) \in CPU  BY PairHas
  <2>4. F \in SUBSET Nat /\ IsFiniteSet(F) /\ F # {}
    <3>1. F \in SUBSET CPU  BY <2>3
    <3>2. CPU \in SUBSET Nat /\ IsFiniteSet(CPU)  BY ULEAssumption
    <3>3. IsFiniteSet(F)  BY <3>1, <3>2, FS_Subset
    <3>4. QED  BY <2>2, <3>1, <3>2, <3>3
  <2>5. PICK m \in F : \A x \in F : x <= m  BY <2>4, GreatestExists
  <2>6. PICK c \in T : m = First(c)  OBVIOUS
  <2>7. PICK k \in WaitsFor(c) : k \in T  BY <2>1
  <2>8. First(c) < First(k)  BY <2>7, WaitedFor
  <2>9. First(k) \in F /\ First(k) \in Nat /\ First(c) \in Nat  BY <2>4, <2>7
  <2>10. QED  BY <2>5, <2>6, <2>8, <2>9
<1>2. ASSUME IInv PROVE NoSpinCycle
  <2>1. ASSUME NEW S \in (SUBSET CPU) \ {{}} PROVE \E c \in S : WaitsFor(c) \cap S = {}
    BY <1>1, <1>2
  <2>2. QED  BY <2>1 DEF NoSpinCycle
<1>3. QED  BY <1>2, InvariantHolds, PTL
=============================================================================
