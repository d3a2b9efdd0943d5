-------------------------------- MODULE ULE --------------------------------
(***************************************************************************)
(* The scheduler of asgn2/kern/sched_ule.c across CPUs: the locks of the   *)
(* thread queues, threads that wake, sleep, migrate, are stolen or         *)
(* balanced, the idle loop and the IPIs that end it.  What a CPU does with *)
(* the priorities and the run queues of its own tdq is in TDQ; here a tdq  *)
(* is the set of its queued threads, any of which may be chosen.           *)
(*                                                                         *)
(* A CPU spins for a tdq lock, or for the lock of a thread (td_lock) that  *)
(* is blocked; everything else is one step.  CPUs are numbered in the      *)
(* order of the addresses of their queues.                                 *)
(***************************************************************************)
EXTENDS Integers, FiniteSetsExt

CONSTANTS
    CPU, Thread,
    cpuset,                \* td_cpuset: the CPUs a thread may run on
    lowest,                \* the threads with the priority of the idle threads, PRI_MAX_IDLE
    steal_thresh,          \* kern.sched.steal_thresh
    Idle, None,            \* the idle thread of a CPU; no thread, a lock that is free
    SleepQ, Blocked        \* the lock of a sleep queue, and blocked_lock

ASSUME ULEAssumption ==
    /\ CPU \subseteq Nat \ {0} /\ IsFiniteSet(CPU) /\ CPU # {} /\ IsFiniteSet(Thread)
    /\ cpuset \in [Thread -> (SUBSET CPU) \ {{}}] /\ steal_thresh \in Nat \ {0}
    /\ lowest \subseteq Thread
    /\ {Idle, None} \cap (CPU \cup Thread) = {} /\ Idle # None
    /\ {SleepQ, Blocked} \cap (CPU \cup {None}) = {} /\ SleepQ # Blocked

VARIABLES
    queue, load,           \* tdq: the queued threads, tdq_load
    lock,                  \* tdq_lock: the CPU that holds it
    cur,                   \* pc_curthread; None while the CPU switches stacks
    td_lock,               \* of a thread: the lock of a tdq, of a sleep queue, or blocked
    asleep,                \* threads that sleep, are not born or have ended
    cpu_idle, ipi,         \* tdq_cpu_idle; tdq_ipipending, an IPI is on its way
    idlepc,                \* where the idle thread goes on when it runs again
    cpu                    \* what a CPU is doing

tdqVars == <<queue, load, lock>>
tdVars  == <<cur, td_lock, asleep>>
ipiVars == <<cpu_idle, ipi, idlepc>>
vars == <<tdqVars, tdVars, ipiVars, cpu>>

IdleLabel == {"idle", "set", "reread", "woken"}
Label == IdleLabel \cup {"halt", "run", "setcpu", "notify", "search", "pair1", "pair2", "move",
                         "choose", "spin"}
Op == {"none", "wake", "trysteal", "idled", "migrate", "balance"}

TypeOK ==
    /\ queue \in [CPU -> SUBSET Thread] /\ load \in [CPU -> 0 .. Cardinality(Thread)]
    /\ lock \in [CPU -> CPU \cup {None}]
    /\ cur \in [CPU -> Thread \cup {Idle, None}]
    /\ td_lock \in [Thread -> CPU \cup {SleepQ, Blocked}] /\ asleep \subseteq Thread
    /\ cpu_idle \in [CPU -> BOOLEAN] /\ ipi \in [CPU -> BOOLEAN]
    /\ idlepc \in [CPU -> IdleLabel]
    /\ cpu \in [CPU -> [pc : Label, op : Op, td : Thread \cup {Idle, None}, from : CPU \cup {None},
                        to : CPU \cup {None}, mtx : CPU \cup {SleepQ, None}]]

Running(l) == [pc |-> l, op |-> "none", td |-> None, from |-> None, to |-> None, mtx |-> None]

Init ==
    /\ queue = [c \in CPU |-> {}] /\ load = [c \in CPU |-> 0] /\ lock = [c \in CPU |-> None]
    /\ cur = [c \in CPU |-> Idle] /\ td_lock = [t \in Thread |-> SleepQ] /\ asleep = Thread
    /\ cpu_idle = [c \in CPU |-> FALSE] /\ ipi = [c \in CPU |-> FALSE]
    /\ idlepc = [c \in CPU |-> "idle"] /\ cpu = [c \in CPU |-> Running("idle")]

Goto(c, l) == cpu' = [cpu EXCEPT ![c].pc = l]
Free(x) == lock[x] = None

\* The end of an operation: back to the thread that runs, or out of cpu_idle.
Returned(c) == Running(IF cur[c] = Idle THEN "woken" ELSE "run")
Return(c)   == cpu' = [cpu EXCEPT ![c] = Returned(c)]

tdq_load_rem(c) == load' = [load EXCEPT ![c] = @ - 1]

tdq_add(x, td) ==
    /\ queue' = [queue EXCEPT ![x] = @ \cup {td}] /\ load' = [load EXCEPT ![x] = @ + 1]

-----------------------------------------------------------------------------
(* Threads wake: sched_wakeup, sched_add.                                  *)

\* sched_setcpu blocks the lock of the thread before it takes that of the queue that
\* sched_pickcpu chose from loads and priorities it reads without locks.  The CPU runs
\* a thread, or handles an interrupt that ended cpu_idle.
sched_add(c, td, x) ==
    /\ cpu[c].pc \in {"run", "halt"} /\ td \in asleep /\ td_lock[td] = SleepQ /\ x \in cpuset[td]
    /\ td_lock' = [td_lock EXCEPT ![td] = Blocked] /\ asleep' = asleep \ {td}
    /\ cpu' = [cpu EXCEPT ![c] = [Running("setcpu") EXCEPT !.op = "wake", !.td = td, !.to = x]]
    /\ UNCHANGED <<tdqVars, cur, ipiVars>>

sched_setcpu(c) ==
    LET td == cpu[c].td
        x  == cpu[c].to
    IN  /\ cpu[c].pc = "setcpu" /\ Free(x)
        /\ td_lock' = [td_lock EXCEPT ![td] = x] /\ tdq_add(x, td)
        /\ IF x = c THEN Return(c) /\ UNCHANGED lock
           ELSE lock' = [lock EXCEPT ![x] = c] /\ Goto(c, "notify")
        /\ UNCHANGED <<cur, asleep, ipiVars>>

\* What follows tdq_notify: a thread that migrates is left; otherwise the CPU returns.
Notified(c) ==
    IF cpu[c].op = "migrate" THEN [cpu[c] EXCEPT !.pc = "choose", !.from = None, !.to = None]
    ELSE Returned(c)

\* No IPI when one is pending, when the thread that runs there is to stay (sched_shouldpreempt:
\* the idle thread stays, too, when the priority is not better than its own), or when the idle
\* thread there has not set tdq_cpu_idle.  cpu_idle_wakeup may do without an IPI.
tdq_notify(c) ==
    LET x       == cpu[c].to
        next    == [cpu EXCEPT ![c] = Notified(c)]
        preempt == ~ipi[x] /\ cpu[c].td \notin lowest
    IN  /\ cpu[c].pc = "notify"
        /\ lock' = IF cpu[c].op = "balance" THEN [lock EXCEPT ![x] = None, ![cpu[c].from] = None]
                   ELSE [lock EXCEPT ![x] = None]
        /\ \/ /\ ~preempt \/ cur[x] # Idle \/ ~cpu_idle[x]
              /\ cpu' = next /\ UNCHANGED ipi
           \/ /\ preempt /\ cur[x] = Idle /\ cpu_idle[x] /\ cpu[x].pc = "halt"
              /\ cpu' = [next EXCEPT ![x] = Running("woken")] /\ UNCHANGED ipi
           \/ /\ preempt /\ (cur[x] # Idle \/ cpu_idle[x])
              /\ ipi' = [ipi EXCEPT ![x] = TRUE] /\ cpu' = next
        /\ UNCHANGED <<queue, load, tdVars, cpu_idle, idlepc>>

-----------------------------------------------------------------------------
(* Threads leave their CPU: sched_switch.                                  *)

\* The running thread yields or is preempted: it goes back to its own queue.
sched_switch(c) ==
    /\ cpu[c].pc = "run" /\ Free(c)
    /\ lock' = [lock EXCEPT ![c] = c] /\ queue' = [queue EXCEPT ![c] = @ \cup {cur[c]}]
    /\ cpu' = [cpu EXCEPT ![c] = [Running("choose") EXCEPT !.mtx = c]]
    /\ UNCHANGED <<load, tdVars, ipiVars>>

\* It goes to sleep; a CPU without other threads tries to steal one before it idles.
sched_sleep(c) ==
    /\ cpu[c].pc = "run" /\ Free(c)
    /\ td_lock' = [td_lock EXCEPT ![cur[c]] = Blocked] /\ asleep' = asleep \cup {cur[c]}
    /\ tdq_load_rem(c)
    /\ IF load[c] = 1
       THEN /\ cpu' = [cpu EXCEPT ![c] = [Running("search") EXCEPT !.op = "trysteal", !.mtx = SleepQ]]
            /\ UNCHANGED lock
       ELSE /\ cpu' = [cpu EXCEPT ![c] = [Running("choose") EXCEPT !.mtx = SleepQ]]
            /\ lock' = [lock EXCEPT ![c] = c]
    /\ UNCHANGED <<queue, cur, ipiVars>>

\* It ends.
sched_throw(c) ==
    /\ cpu[c].pc = "run" /\ Free(c) /\ lock' = [lock EXCEPT ![c] = c]
    /\ td_lock' = [td_lock EXCEPT ![cur[c]] = Blocked] /\ asleep' = asleep \cup {cur[c]}
    /\ tdq_load_rem(c)
    /\ cpu' = [cpu EXCEPT ![c] = [Running("choose") EXCEPT !.mtx = SleepQ]]
    /\ UNCHANGED <<queue, cur, ipiVars>>

\* It was bound to the CPU x, or may no longer run here.  Mutant: its lock is not blocked.
switch_migrate_unblocked(c, x) ==
    /\ cpu[c].pc = "run" /\ Free(c) /\ x # c /\ x \in cpuset[cur[c]]
    /\ tdq_load_rem(c) /\ td_lock' = [td_lock EXCEPT ![cur[c]] = x]
    /\ cpu' = [cpu EXCEPT ![c] = [Running("pair1") EXCEPT !.op = "migrate", !.td = cur[c], !.from = c,
                                                          !.to = x, !.mtx = x]]
    /\ UNCHANGED <<queue, lock, cur, asleep, ipiVars>>

sched_switch_migrate(c, x) ==
    /\ cpu[c].pc = "run" /\ Free(c) /\ x # c /\ x \in cpuset[cur[c]]
    /\ tdq_load_rem(c) /\ td_lock' = [td_lock EXCEPT ![cur[c]] = Blocked]
    /\ cpu' = [cpu EXCEPT ![c] = [Running("pair1") EXCEPT !.op = "migrate", !.td = cur[c], !.from = c,
                                                          !.to = x, !.mtx = x]]
    /\ UNCHANGED <<queue, lock, cur, asleep, ipiVars>>

\* choosethread, and the part of cpu_switch that leaves the old thread and gives it its
\* lock back.
choosethread(c) ==
    /\ cpu[c].pc = "choose"
    /\ \E td \in IF queue[c] = {} THEN {Idle} ELSE queue[c] :
         /\ queue' = [queue EXCEPT ![c] = @ \ {td}]
         /\ td_lock' = IF cur[c] = Idle THEN td_lock ELSE [td_lock EXCEPT ![cur[c]] = cpu[c].mtx]
         /\ IF td = cur[c]
            THEN /\ lock' = [lock EXCEPT ![c] = None] /\ UNCHANGED cur
                 /\ cpu' = [cpu EXCEPT ![c] = Running(IF td = Idle THEN idlepc[c] ELSE "run")]
            ELSE /\ cur' = [cur EXCEPT ![c] = None] /\ UNCHANGED lock
                 /\ cpu' = [cpu EXCEPT ![c] = [Running("spin") EXCEPT !.td = td]]
    /\ UNCHANGED <<load, asleep, ipiVars>>

\* The other part waits until the new thread has left its old CPU.
cpu_switch(c) ==
    LET td == cpu[c].td
    IN  /\ cpu[c].pc = "spin" /\ (td # Idle => td_lock[td] # Blocked)
        /\ cur' = [cur EXCEPT ![c] = td] /\ lock' = [lock EXCEPT ![c] = None]
        /\ cpu' = [cpu EXCEPT ![c] = Running(IF td = Idle THEN idlepc[c] ELSE "run")]
        /\ UNCHANGED <<queue, load, td_lock, asleep, ipiVars>>

\* The handler of the IPI: interrupts are enabled in threads and in the idle loop.  It
\* switches when tdq_lowpri is better than the priority of the thread that runs; tdq_lowpri
\* bounds the queue, but a thread that was stolen may have left it too low.
sched_preempt(c) ==
    LET l == cpu[c].pc
        idles == l \in IdleLabel \cup {"halt"} \/ (l = "search" /\ cpu[c].op = "idled")
    IN  /\ ipi[c] /\ Free(c) /\ (l = "run" \/ idles)
        /\ ipi' = [ipi EXCEPT ![c] = FALSE]
        /\ \/ /\ lock' = [lock EXCEPT ![c] = c]
              /\ queue' = IF idles THEN queue ELSE [queue EXCEPT ![c] = @ \cup {cur[c]}]
              /\ cpu' = [cpu EXCEPT ![c] = [Running("choose") EXCEPT !.mtx = c]]
              /\ idlepc' = CASE l \in IdleLabel -> [idlepc EXCEPT ![c] = l]
                             [] l = "halt" -> [idlepc EXCEPT ![c] = "woken"]
                             [] l = "search" -> [idlepc EXCEPT ![c] = "idle"]
                             [] OTHER -> idlepc
           \/ /\ queue[c] \subseteq lowest \/ l = "run"
              /\ IF l = "halt" THEN Return(c) ELSE UNCHANGED cpu
              /\ UNCHANGED <<queue, lock, idlepc>>
        /\ UNCHANGED <<load, tdVars, cpu_idle>>

-----------------------------------------------------------------------------
(* Threads are moved: tdq_trysteal, tdq_idled, sched_balance.              *)

\* cpu_search: what sched_highest may find.
sched_highest(c) == {x \in CPU \ {c} : load[x] >= steal_thresh /\ queue[x] # {}}
Stale(c) == load[cpu[c].from] < steal_thresh \/ queue[cpu[c].from] = {}

\* tdq_trysteal has given up the lock of its queue, and takes it again when it stops;
\* tdq_idled never had it.  They may also miss a loaded CPU, for the loads are read one
\* after the other, trysteal_limit bounds the groups that are searched, and CPUs that
\* failed before are left out.
Search(c) ==
    /\ cpu[c].pc = "search"
    /\ \/ /\ cpu[c].op = "trysteal" /\ Free(c)
          /\ Goto(c, "choose") /\ lock' = [lock EXCEPT ![c] = c]
       \/ /\ cpu[c].op = "idled"
          /\ cpu' = [cpu EXCEPT ![c] = Running(IF load[c] > 0 THEN "idle" ELSE "set")]
          /\ UNCHANGED lock
       \/ /\ load[c] = 0 /\ UNCHANGED lock
          /\ \E x \in sched_highest(c) :
               cpu' = [cpu EXCEPT ![c].pc = "pair1", ![c].from = x, ![c].to = c]
    /\ UNCHANGED <<queue, load, tdVars, ipiVars>>

\* sched_balance, on the first CPU: any pair, by loads that were read without locks.
sched_balance(c, high, low) ==
    /\ c = Min(CPU) /\ cpu[c].pc \in {"run", "halt"} /\ Free(c) /\ high # low
    /\ load[high] >= 2 /\ queue[high] # {} /\ load[low] < load[high]
    /\ cpu' = [cpu EXCEPT ![c] = [Running("pair1") EXCEPT !.op = "balance", !.from = high, !.to = low]]
    /\ UNCHANGED <<tdqVars, tdVars, ipiVars>>

\* tdq_lock_pair, in the order of addresses.  Mutant: in the order of the arguments.
First_given(c) == cpu[c].to
First(c) == Min({cpu[c].from, cpu[c].to})
Second(c) == IF First(c) = cpu[c].from THEN cpu[c].to ELSE cpu[c].from

tdq_lock_pair(c) ==
    /\ cpu[c].pc = "pair1" /\ Free(First(c))
    /\ lock' = [lock EXCEPT ![First(c)] = c] /\ Goto(c, "pair2")
    /\ UNCHANGED <<queue, load, tdVars, ipiVars>>

\* The second lock is free and taken: both are locked in what follows.
Locked(c) == cpu[c].pc = "pair2" /\ Free(Second(c))
Both(c) == [lock EXCEPT ![Second(c)] = c]

\* sched_switch_migrate, with both locks: the thread's own lock is still blocked.
Migrate(c) ==
    /\ Locked(c) /\ cpu[c].op = "migrate" /\ lock' = Both(c)
    /\ tdq_add(cpu[c].to, cpu[c].td) /\ Goto(c, "notify")
    /\ UNCHANGED <<tdVars, ipiVars>>

\* There is nothing to move, or tdq_steal finds no thread that may move: threads of the
\* lottery queue, for instance.
GiveUp(c) ==
    /\ Locked(c) /\ cpu[c].op # "migrate"
    /\ CASE cpu[c].op = "trysteal" \/ (cpu[c].op = "idled" /\ load[c] > 0) ->
              /\ lock' = [lock EXCEPT ![cpu[c].from] = None, ![c] = c]
              /\ cpu' = [cpu EXCEPT ![c] = [Running("choose") EXCEPT !.mtx = cpu[c].mtx]]
              /\ idlepc' = IF cpu[c].op = "idled" THEN [idlepc EXCEPT ![c] = "idle"] ELSE idlepc
         [] cpu[c].op = "idled" /\ load[c] = 0 ->
              /\ lock' = [lock EXCEPT ![c] = None, ![cpu[c].from] = None]
              /\ \/ cpu' = [cpu EXCEPT ![c] = [Running("search") EXCEPT !.op = "idled"]]
                 \/ ~Stale(c) /\ cpu' = [cpu EXCEPT ![c] = Running("set")]
              /\ UNCHANGED idlepc
         [] cpu[c].op = "balance" ->
              /\ lock' = [lock EXCEPT ![cpu[c].from] = None, ![cpu[c].to] = None]
              /\ Return(c) /\ UNCHANGED idlepc
    /\ UNCHANGED <<queue, load, tdVars, cpu_idle, ipi>>

tdq_steal(c) ==
    /\ Locked(c) /\ cpu[c].op # "migrate" /\ lock' = Both(c)
    /\ IF cpu[c].op = "balance" THEN load[cpu[c].from] > load[cpu[c].to] ELSE load[c] = 0 /\ ~Stale(c)
    /\ \E td \in queue[cpu[c].from] : cpu[c].to \in cpuset[td] /\ cpu' = [cpu EXCEPT ![c].pc = "move", ![c].td = td]
    /\ UNCHANGED <<queue, load, tdVars, ipiVars>>

\* tdq_move spins for the thread's lock with both queues locked.
tdq_move(c) ==
    LET td   == cpu[c].td
        from == cpu[c].from
        to   == cpu[c].to
    IN  /\ cpu[c].pc = "move" /\ td_lock[td] # Blocked
        /\ queue' = [queue EXCEPT ![from] = @ \ {td}, ![to] = @ \cup {td}]
        /\ load' = [load EXCEPT ![from] = @ - 1, ![to] = @ + 1]
        /\ td_lock' = [td_lock EXCEPT ![td] = to]
        /\ CASE cpu[c].op = "balance" /\ to # c -> Goto(c, "notify") /\ UNCHANGED <<lock, idlepc>>
             [] cpu[c].op = "balance" /\ to = c ->
                  lock' = [lock EXCEPT ![from] = None, ![to] = None] /\ Return(c) /\ UNCHANGED idlepc
             [] OTHER ->
                  /\ lock' = [lock EXCEPT ![from] = None]
                  /\ cpu' = [cpu EXCEPT ![c] = [Running("choose") EXCEPT !.mtx = cpu[c].mtx]]
                  /\ idlepc' = IF cpu[c].op = "idled" THEN [idlepc EXCEPT ![c] = "idle"] ELSE idlepc
        /\ UNCHANGED <<cur, asleep, cpu_idle, ipi>>

-----------------------------------------------------------------------------
(* sched_idletd.                                                           *)

\* The load is read for the last time before tdq_cpu_idle is set in the step that goes to
\* "set".
sched_idletd(c) ==
    \/ /\ cpu[c].pc = "idle" /\ load[c] > 0 /\ Free(c)
       /\ lock' = [lock EXCEPT ![c] = c] /\ idlepc' = [idlepc EXCEPT ![c] = "idle"]
       /\ Goto(c, "choose") /\ UNCHANGED <<queue, load, tdVars, cpu_idle, ipi>>
    \/ /\ cpu[c].pc = "idle" /\ load[c] = 0
       /\ \/ cpu' = [cpu EXCEPT ![c].pc = "search", ![c].op = "idled"]
          \/ Goto(c, "set")
       /\ UNCHANGED <<tdqVars, tdVars, ipiVars>>
    \/ /\ cpu[c].pc = "set" /\ Goto(c, "reread") /\ cpu_idle' = [cpu_idle EXCEPT ![c] = TRUE]
       /\ UNCHANGED <<tdqVars, tdVars, ipi, idlepc>>

\* The load is read again after tdq_cpu_idle is set.  Mutant: it is not.
Halt_at_once(c) ==
    /\ cpu[c].pc = "reread" /\ Goto(c, "halt") /\ UNCHANGED <<tdqVars, tdVars, ipiVars>>

Halt(c) ==
    /\ cpu[c].pc = "reread" /\ Goto(c, IF load[c] > 0 THEN "woken" ELSE "halt")
    /\ UNCHANGED <<tdqVars, tdVars, ipiVars>>

\* Any other interrupt ends cpu_idle.
Interrupt(c) ==
    /\ cpu[c].pc = "halt" /\ Return(c) /\ UNCHANGED <<tdqVars, tdVars, ipiVars>>

Woken(c) ==
    /\ cpu[c].pc = "woken" /\ Goto(c, "idle") /\ cpu_idle' = [cpu_idle EXCEPT ![c] = FALSE]
    /\ UNCHANGED <<tdqVars, tdVars, ipi, idlepc>>

-----------------------------------------------------------------------------
Next == \E c \in CPU :
    \/ \E td \in Thread, x \in CPU : sched_add(c, td, x)
    \/ \E x \in CPU : sched_switch_migrate(c, x)
    \/ \E high, low \in CPU : sched_balance(c, high, low)
    \/ sched_setcpu(c) \/ tdq_notify(c)
    \/ sched_switch(c) \/ sched_sleep(c) \/ sched_throw(c) \/ choosethread(c) \/ cpu_switch(c)
    \/ sched_preempt(c) \/ Search(c) \/ tdq_lock_pair(c) \/ Migrate(c) \/ GiveUp(c)
    \/ tdq_steal(c) \/ tdq_move(c) \/ sched_idletd(c) \/ Halt(c) \/ Interrupt(c) \/ Woken(c)

Spec == Init /\ [][Next]_vars

-----------------------------------------------------------------------------
(* Properties.                                                             *)

\* The current thread of c is no longer in its load.
Leaves(c) == cpu[c].op \in {"trysteal", "migrate"} /\ cpu[c].pc # "run"

\* A thread runs on one CPU and waits in one queue at most; it is in the queue of another
\* CPU while it still runs only with a blocked lock, and a thread that runs undisturbed
\* has the lock of its CPU (the assertions at the end of sched_switch).  No thread is
\* forgotten, and tdq_load counts the queue and the running thread.
ThreadsInOnePlace ==
    /\ TypeOK
    /\ \A t \in Thread :
         LET on == {c \in CPU : cur[c] = t}
             in == {c \in CPU : t \in queue[c]}
         IN  /\ Cardinality(on) <= 1 /\ Cardinality(in) <= 1
             /\ \A c \in on, x \in in : x # c => td_lock[t] = Blocked
             /\ t \in asleep => in = {}
             /\ t \notin asleep /\ on = {} /\ in = {} => \E c \in CPU : cpu[c].td = t
    /\ \A c \in CPU :
         /\ cpu[c].pc = "run" => td_lock[cur[c]] = c
         /\ Free(c) => load[c] = Cardinality(queue[c]) + IF cur[c] \in Thread /\ ~Leaves(c) THEN 1 ELSE 0

\* The CPU k is about to tell c of a thread that preempts the idle thread.
Notifies(k, c) == cpu[k].pc = "notify" /\ cpu[k].to = c /\ cpu[k].td \notin lowest

\* No thread that is better than the idle thread waits in the queue of a CPU that halts and
\* that nobody is about to wake: tdq_notify reads tdq_cpu_idle after the load was raised, the
\* idle thread reads the load after it set tdq_cpu_idle.  A thread of PRI_MAX_IDLE does wait
\* there, until the next interrupt.
NoThreadStranded ==
    \A c \in CPU : cpu[c].pc = "halt" /\ ~(queue[c] \subseteq lowest) =>
        ipi[c] \/ \E k \in CPU : Notifies(k, c)

\* What c spins for, and which CPU has to act first.
Wanted(c) ==
    CASE cpu[c].pc = "setcpu" -> {cpu[c].to}
      [] cpu[c].pc = "pair1"  -> {First(c)}
      [] cpu[c].pc = "pair2"  -> {Second(c)}
      [] OTHER -> {}
WaitsFor(c) ==
    {k \in CPU : \/ \E x \in Wanted(c) : lock[x] = k
                 \/ cpu[c].pc \in {"move", "spin"} /\ cpu[c].td \in Thread
                    /\ td_lock[cpu[c].td] = Blocked /\ cur[k] = cpu[c].td}

\* CPUs never spin for each other in a circle, although a CPU holds its queue while it
\* waits for a thread to leave another CPU (sched_switch_migrate's comment).
NoSpinCycle == \A S \in (SUBSET CPU) \ {{}} : \E c \in S : WaitsFor(c) \cap S = {}
=============================================================================
