-------------------------------- MODULE TDQ --------------------------------
(***************************************************************************)
(* The thread queue (struct tdq) of one CPU in the lottery scheduler of    *)
(* asgn2: the run queues of kern_switch.c and what sched_ule.c does with   *)
(* them.  Every action runs with the queue's lock held, so this module is  *)
(* what the lock serialises: the steps of the CPU itself, and those of     *)
(* other CPUs that add, steal or reprioritise threads of this queue.       *)
(*                                                                         *)
(* A thread is running (cur), on a run queue, or away: asleep, exited or   *)
(* with another CPU.  The priority and slice of a thread that is away are  *)
(* not kept but chosen anew when it comes back.                            *)
(***************************************************************************)
EXTENDS Integers, FiniteSetsExt, SequencesExt

CONSTANTS
    Thread, NoThread,      \* threads; NoThread is NULL, and the idle thread
    Root,                  \* the threads whose cr_uid is 0
    MayPin,                \* the threads that call sched_pin
    Prio,                  \* priorities that threads are given
    Nice,                  \* nice values that sched_nice is called with
    RQ_NQS, RQ_PPQ,        \* queues of a runq; priorities per queue
    PRI_MIN_BATCH, PRI_MAX_BATCH, PRI_MIN_IDLE, PRI_MAX_IDLE,
    preempt_thresh,        \* PRI_MIN_KERN in a kernel with PREEMPTION
    sched_slice, sched_slice_min

ASSUME TDQAssumption ==
    /\ IsFiniteSet(Thread) /\ NoThread \notin Thread /\ Root \subseteq Thread /\ MayPin \subseteq Thread
    /\ RQ_NQS \in Nat \ {0} /\ 256 % RQ_NQS = 0 /\ RQ_PPQ \in Nat \ {0}
    /\ {PRI_MIN_BATCH, PRI_MAX_BATCH, PRI_MIN_IDLE, PRI_MAX_IDLE} \subseteq Nat
    /\ PRI_MIN_BATCH <= PRI_MAX_BATCH /\ PRI_MIN_IDLE = PRI_MAX_BATCH + 1
    /\ PRI_MIN_IDLE <= PRI_MAX_IDLE /\ PRI_MAX_IDLE \div RQ_PPQ < RQ_NQS
    /\ Prio \subseteq 0 .. PRI_MAX_IDLE /\ Prio # {}
    /\ Nice \subseteq Int /\ Nice # {}
    /\ preempt_thresh \in Nat
    /\ sched_slice \in Nat \ {0} /\ sched_slice_min \in Nat \ {0}

Slot == 0 .. RQ_NQS - 1
RunQ == {"realtime", "timeshare", "lottery", "idle"}
NotQueued == <<>>

\* Flags of tdq_runq_add: SRQ_BORROWING, SRQ_PREEMPTED.
Flag == {"BORROWING", "PREEMPTED"}

VARIABLES
    tdq,                     \* the struct tdq, with ts_runq, td_rqindex, TSF_XFERABLE
    cur,                     \* the running thread, NoThread for the idle thread
    need, sliceend, owe,     \* its TDF_NEEDRESCHED, TDF_SLICEEND, td_owepreempt
    pinned,                  \* the threads with td_pinned > 0
    pri, slice,              \* td_priority, ts_slice
    nice,                    \* p_nice, of the threads whose tickets it gives
    panic                    \* lottery_q_choose divided by zero or followed NULL

cpuVars == <<cur, need, sliceend, owe>>
vars == <<tdq, cpuVars, pinned, pri, nice, slice, panic>>

Tdq == [queue : [RunQ -> [Slot -> Seq(Thread)]], status : [RunQ -> SUBSET Slot],
        idx : Slot, ridx : Slot, load : Nat, transferable : Nat, lowpri : 0 .. PRI_MAX_IDLE,
        where : [Thread -> (RunQ \X Slot) \cup {NotQueued}],
        xfer : SUBSET Thread]

TypeOK ==
    /\ tdq \in Tdq
    /\ cur \in Thread \cup {NoThread}
    /\ {need, sliceend, owe, panic} \subseteq BOOLEAN
    /\ pinned \subseteq Thread
    /\ pri \in [Thread -> Prio] /\ nice \in [Thread \ Root -> Nice] /\ slice \in [Thread -> Nat]

Queued(q) == {td \in Thread : q.where[td] # NotQueued}
Away      == Thread \ (Queued(tdq) \cup {cur})
PriOf(td) == IF td = NoThread THEN PRI_MAX_IDLE ELSE pri[td]
AnyPrio   == CHOOSE p \in Prio : TRUE

tdq_setup ==
    [queue |-> [r \in RunQ |-> [i \in Slot |-> <<>>]], status |-> [r \in RunQ |-> {}],
     idx |-> 0, ridx |-> 0, load |-> 0, transferable |-> 0, lowpri |-> PRI_MAX_IDLE,
     where |-> [td \in Thread |-> NotQueued], xfer |-> {}]

Init ==
    /\ tdq = tdq_setup
    /\ cur = NoThread /\ need = FALSE /\ sliceend = FALSE /\ owe = FALSE
    /\ pinned = {} /\ pri = [td \in Thread |-> AnyPrio]
    /\ nice \in [Thread \ Root -> Nice]
    /\ slice = [td \in Thread |-> 0] /\ panic = FALSE

-----------------------------------------------------------------------------
(* kern_switch.c.  An operator that changes the queue takes the tdq q and  *)
(* returns the new one.  The status words are the set of the bits set.     *)

\* runq_setbit and the insertion: runq_add, runq_add_pri and lottery_q_add.
runq_add(q, rq, i, td, atHead) ==
    [q EXCEPT !.status[rq] = @ \cup {i},
              !.queue[rq][i] = IF atHead THEN <<td>> \o @ ELSE Append(@, td),
              !.where[td] = <<rq, i>>]

\* TAILQ_REMOVE.
Without(s, td) == LET k == CHOOSE k \in DOMAIN s : s[k] = td
                  IN  [j \in 1 .. Len(s) - 1 |-> IF j < k THEN s[j] ELSE s[j + 1]]

\* Mutant: the status bit of an emptied queue stays set.
runq_remove_idx_bit(q, td, rotate) ==
    LET rq == q.where[td][1]
        i  == q.where[td][2]
    IN  [q EXCEPT !.queue[rq][i] = Without(@, td), !.where[td] = NotQueued]

\* runq_remove_idx, and lottery_q_remove with queue 0: the bit is cleared when the
\* queue is empty, and then an index that points to it moves on.
runq_remove_idx(q, td, rotate) ==
    LET rq == q.where[td][1]
        i  == q.where[td][2]
        rest == Without(q.queue[rq][i], td)
    IN  [q EXCEPT !.queue[rq][i] = rest,
                  !.status[rq] = IF rest = <<>> THEN @ \ {i} ELSE @,
                  !.ridx = IF rotate /\ rest = <<>> /\ @ = i THEN (i + 1) % RQ_NQS ELSE @,
                  !.where[td] = NotQueued]

runq_findbit(bits) == Min(bits)

\* Wraps around to the beginning once.
runq_findbit_from(bits, i) ==
    LET from == {j \in bits : j >= i} IN IF from # {} THEN Min(from) ELSE Min(bits)

\* Tickets of the first k threads: a thread has p_nice + 1.
TicketsUpTo(s, k) == MapThenSumSet(LAMBDA j : nice[s[j]] + 1, 1 .. k)
tck_tot(s) == TicketsUpTo(s, Len(s))

\* random() % tck_tot is unsigned: with a negative total it is the random number, and
\* all from the number of positive tickets on run off the list.
Draws(s) == IF tck_tot(s) > 0 THEN 0 .. tck_tot(s) - 1
            ELSE IF tck_tot(s) = 0 THEN {}
            ELSE 0 .. MapThenSumSet(LAMBDA j : nice[s[j]] + 1, {j \in DOMAIN s : nice[s[j]] >= 0})

\* Mutant: a draw stops at zero.
Negative_zero(s, r) == {k \in DOMAIN s : r - TicketsUpTo(s, k) <= 0}

\* The thread whose subtraction makes r negative is the k-th with k the least of these.
Negative(s, r) == {k \in DOMAIN s : r - TicketsUpTo(s, k) < 0}
LotteryWinner(s, r) == s[Min(Negative(s, r))]

\* What the draw may return, and whether it may fault: with no ticket in total it
\* divides by zero, after the end of the list the message follows NULL.
lottery_q_choose(s) == {LotteryWinner(s, r) : r \in {d \in Draws(s) : Negative(s, d) # {}}}
LotteryFaults(s) == s # <<>> /\ (tck_tot(s) = 0 \/ \E r \in Draws(s) : Negative(s, r) = {})

-----------------------------------------------------------------------------
(* sched_ule.c: the queues of a tdq.                                       *)

isRoot(td) == td \in Root

\* Mutant: the calendar does not wrap around.
TimeshareSlot_off(q, p, flags) ==
    (RQ_NQS * (p - PRI_MIN_BATCH)) \div (PRI_MAX_BATCH - PRI_MIN_BATCH + 1) + q.idx

\* The calendar slot of a timeshare thread.  (unsigned char)(pri - 1) is 255 for 0.
TimeshareSlot(q, p, flags) ==
    LET s == ((RQ_NQS * (p - PRI_MIN_BATCH)) \div (PRI_MAX_BATCH - PRI_MIN_BATCH + 1) + q.idx) % RQ_NQS
    IN  IF flags # {} THEN q.ridx
        ELSE IF q.ridx # q.idx /\ s = q.ridx THEN ((s + 255) % 256) % RQ_NQS
        ELSE s

Enqueue(q, td, p, flags) ==
    LET preempted == "PREEMPTED" \in flags
    IN  IF p < PRI_MIN_BATCH THEN runq_add(q, "realtime", p \div RQ_PPQ, td, preempted)
        ELSE IF p > PRI_MAX_BATCH THEN runq_add(q, "idle", p \div RQ_PPQ, td, preempted)
        ELSE IF ~isRoot(td) THEN runq_add(q, "lottery", 0, td, TRUE)
        ELSE runq_add(q, "timeshare", TimeshareSlot(q, p, flags), td, preempted)

tdq_runq_add(q, td, p, flags) ==
    IF td \in pinned THEN Enqueue(q, td, p, flags)
    ELSE [Enqueue(q, td, p, flags) EXCEPT !.transferable = @ + 1, !.xfer = @ \cup {td}]

\* Mutant: a lottery thread leaves before the transferable count is corrected.
tdq_runq_rem_lottery(q, td) ==
    LET r == runq_remove_idx(q, td, q.where[td][1] = "timeshare" /\ q.idx # q.ridx)
    IN  IF q.where[td][1] = "lottery" THEN r
        ELSE [r EXCEPT !.transferable = IF td \in q.xfer THEN @ - 1 ELSE @, !.xfer = @ \ {td}]

\* Mutant: the removal index does not follow an emptied slot.
tdq_runq_rem_still(q, td) ==
    [runq_remove_idx(q, td, FALSE) EXCEPT
        !.transferable = IF td \in q.xfer THEN @ - 1 ELSE @, !.xfer = @ \ {td}]

tdq_runq_rem(q, td) ==
    [runq_remove_idx(q, td, q.where[td][1] = "timeshare" /\ q.idx # q.ridx) EXCEPT
        !.transferable = IF td \in q.xfer THEN @ - 1 ELSE @,
        !.xfer = @ \ {td}]

tdq_load_add(q) == [q EXCEPT !.load = @ + 1]
tdq_load_rem(q) == [q EXCEPT !.load = @ - 1]

tdq_slice(q) ==
    LET n == q.load - 1
    IN  IF n >= 6 THEN sched_slice_min ELSE IF n <= 1 THEN sched_slice ELSE sched_slice \div n

\* The thread to run next, as the set of the possible answers: {NoThread} if there
\* is none.
tdq_choose(q) ==
    IF q.status["realtime"] # {}
    THEN {Head(q.queue["realtime"][runq_findbit(q.status["realtime"])])}
    ELSE IF q.status["timeshare"] # {}
    THEN {Head(q.queue["timeshare"][runq_findbit_from(q.status["timeshare"], q.ridx)])}
    ELSE IF q.queue["lottery"][0] # <<>> THEN lottery_q_choose(q.queue["lottery"][0])
    ELSE IF q.status["idle"] # {}
    THEN {Head(q.queue["idle"][runq_findbit(q.status["idle"])])}
    ELSE {NoThread}

ChooseFaults(q) ==
    /\ q.status["realtime"] = {} /\ q.status["timeshare"] = {}
    /\ LotteryFaults(q.queue["lottery"][0])

\* The kernel stops in the draw.
Fault == panic' = TRUE /\ UNCHANGED <<tdq, cpuVars, pinned, pri, nice, slice>>

\* tdq_setlowpri with priority cp of the running thread and td from tdq_choose.
Lowered(q, td, cp) ==
    [q EXCEPT !.lowpri = IF td = NoThread \/ pri[td] > cp THEN cp ELSE pri[td]]

tdq_add(q, td, p, flags) ==
    tdq_load_add(tdq_runq_add([q EXCEPT !.lowpri = IF p < @ THEN p ELSE @], td, p, flags))

\* With remote = 0.
sched_shouldpreempt(p, cpri) ==
    p < cpri /\ (cpri >= PRI_MIN_IDLE \/ (preempt_thresh # 0 /\ p <= preempt_thresh))

\* A thread of priority p was added by this CPU (sched_setpreempt), or by another one,
\* which calls tdq_notify.
sched_setpreempt(p) ==
    /\ need' = (need \/ p < PriOf(cur))
    /\ owe' = (owe \/ sched_shouldpreempt(p, PriOf(cur)))
    /\ UNCHANGED <<cur, sliceend>>

Preempt(p) == sched_setpreempt(p) \/ UNCHANGED cpuVars

-----------------------------------------------------------------------------
(* Threads come and go.                                                    *)

Arrive(td, p, n, flags) ==
    /\ td \in Away
    /\ pri' = [pri EXCEPT ![td] = p]
    /\ slice' = [slice EXCEPT ![td] = n]
    /\ tdq' = tdq_add(tdq, td, p, flags)
    /\ UNCHANGED <<pinned, nice, panic>>

sched_wakeup(td, p) == Arrive(td, p, 0, {}) /\ Preempt(p)

\* A thread that waited on another CPU gets a better priority, and sched_pickcpu picks this
\* one (sched_thread_priority).
Lend(td, p, n) == td \notin pinned /\ Arrive(td, p, n, {"BORROWING"}) /\ Preempt(p)

\* A thread that ran on another CPU migrates here, as a bound thread does that is pinned.
sched_switch_migrate(td, p, n) ==
    \E flags \in {{}, {"PREEMPTED"}} : Arrive(td, p, n, flags) /\ UNCHANGED cpuVars

\* tdq_move to this queue, by sched_balance_pair: the slice comes along.  A thread of
\* any priority may come: one may have got it while it was on the other queue.
tdq_move_here(td, p, n) == td \notin pinned /\ Arrive(td, p, n, {}) /\ UNCHANGED cpuVars

\* The queues that sched_rem may leave: lowpri is searched anew if the thread
\* determined it.
Removed(td) == tdq_load_rem(tdq_runq_rem(tdq, td))
sched_rem(td) ==
    IF pri[td] # tdq.lowpri THEN {Removed(td)}
    ELSE {Lowered(Removed(td), next, PriOf(cur)) : next \in tdq_choose(Removed(td))}
RemFaults(td) == pri[td] = tdq.lowpri /\ ChooseFaults(Removed(td))

\* The thread goes to another queue.
Leave(td) ==
    \/ RemFaults(td) /\ Fault
    \/ \E q \in sched_rem(td) :
          /\ tdq' = q
          /\ pri' = [pri EXCEPT ![td] = AnyPrio] /\ slice' = [slice EXCEPT ![td] = 0]
          /\ UNCHANGED <<cpuVars, pinned, nice, panic>>

\* The threads that tdq_steal may take, in the order it looks at the queue, given
\* those that the other CPU may run (THREAD_CAN_SCHED).
CanMigrate(s, ok) == {k \in DOMAIN s : s[k] \in ok \ pinned}

runq_steal(q, rq, ok) ==
    LET s == FlattenSeq([i \in 1 .. RQ_NQS |-> q.queue[rq][i - 1]])
    IN  IF CanMigrate(s, ok) = {} THEN NoThread ELSE s[Min(CanMigrate(s, ok))]

\* From ridx to the end, then everything from slot 0; the very first thread is taken
\* only when no other can be, if it is then the last one looked at.
runq_steal_from(q, ok) ==
    LET all(from) == FlattenSeq([i \in 1 .. RQ_NQS - from |-> q.queue["timeshare"][from + i - 1]])
        s == all(q.ridx) \o IF q.ridx = 0 THEN <<>> ELSE all(0)
        can == CanMigrate(s, ok)
    IN  IF can \ {1} # {} THEN s[Min(can \ {1})]
        ELSE IF Len(s) \in can THEN s[Len(s)] ELSE NoThread

tdq_steal(q, ok) ==
    IF runq_steal(q, "realtime", ok) # NoThread THEN runq_steal(q, "realtime", ok)
    ELSE IF runq_steal_from(q, ok) # NoThread THEN runq_steal_from(q, ok)
    ELSE runq_steal(q, "idle", ok)

\* tdq_move of a thread from here to another CPU.
tdq_move_away ==
    /\ tdq.transferable # 0
    /\ \E ok \in SUBSET Thread :
          tdq_steal(tdq, ok) # NoThread /\ Leave(tdq_steal(tdq, ok))

\* The cpuset of the thread changed to one without this CPU.
sched_affinity(td) ==
    \/ td \in Queued(tdq) /\ Leave(td)
    \/ /\ td = cur /\ need' = TRUE
       /\ UNCHANGED <<tdq, cur, sliceend, owe, pinned, pri, nice, slice, panic>>

-----------------------------------------------------------------------------
(* The CPU itself.                                                         *)

\* choosethread at the end of sched_switch, with the queue q that the leaving thread
\* is on or has left and the threads' priorities p and slices s by then; the flags of
\* the leaving thread are cleared.
SwitchTo(q, p, s) ==
    \/ ChooseFaults(q) /\ Fault
    \/ \E td \in tdq_choose(q) :
          /\ tdq' = IF td = NoThread THEN [q EXCEPT !.lowpri = PRI_MAX_IDLE]
                    ELSE [tdq_runq_rem(q, td) EXCEPT !.lowpri = p[td]]
          /\ cur' = td
          /\ need' = FALSE /\ sliceend' = FALSE /\ owe' = FALSE
          /\ pri' = p /\ slice' = s
          /\ UNCHANGED <<pinned, nice, panic>>

\* The running thread sleeps or exits (sched_throw) or goes to another CPU.
SwitchOut == SwitchTo(tdq_load_rem(tdq), [pri EXCEPT ![cur] = AnyPrio], [slice EXCEPT ![cur] = 0])

\* sched_switch of the idle thread or of a running one, which migrates if its cpuset
\* or sched_bind says so.
sched_switch(SW_PREEMPT) ==
    LET flags == IF SW_PREEMPT /\ ~sliceend THEN {"PREEMPTED"} ELSE {}
    IN  IF cur = NoThread THEN SwitchTo(tdq, pri, slice)
        ELSE \/ SwitchTo(tdq_runq_add(tdq, cur, pri[cur], flags), pri, slice)
             \/ cur \notin pinned /\ SwitchOut

\* ast: TDF_NEEDRESCHED on the way back to user mode.
ast == cur # NoThread /\ need /\ sched_switch(FALSE)

sched_relinquish == cur # NoThread /\ sched_switch(FALSE)

critical_exit == owe /\ sched_switch(TRUE)

\* The idle thread finds a load.
sched_idletd == cur = NoThread /\ tdq.load > 0 /\ sched_switch(FALSE)

\* The idle thread steals a thread and switches.
tdq_idled(td, p, n) ==
    /\ cur = NoThread /\ tdq.load = 0 /\ td \in Away \ pinned
    /\ SwitchTo(tdq_add(tdq, td, p, {}), [pri EXCEPT ![td] = p], [slice EXCEPT ![td] = n])

\* IPI_PREEMPT, sent by tdq_notify or sched_affinity; in a critical section the switch
\* is owed.
sched_preempt ==
    /\ PriOf(cur) > tdq.lowpri
    /\ \/ sched_switch(TRUE)
       \/ owe' = TRUE /\ UNCHANGED <<tdq, cur, need, sliceend, pinned, pri, nice, slice, panic>>

sleep == cur # NoThread /\ SwitchOut

\* A thread sleeps and leaves an empty queue, to which one is stolen.
tdq_trysteal(td, p, n) ==
    /\ cur # NoThread /\ tdq.load = 1 /\ td \in Away \ pinned
    /\ SwitchTo(tdq_add(tdq_load_rem(tdq), td, p, {}),
                [pri EXCEPT ![cur] = AnyPrio, ![td] = p], [slice EXCEPT ![cur] = 0, ![td] = n])

\* Mutant: the insert index does not advance.
sched_clock_still ==
    /\ IF cur = NoThread THEN UNCHANGED <<slice, need, sliceend>>
       ELSE slice' = [slice EXCEPT ![cur] = 0] /\ need' = TRUE /\ sliceend' = TRUE
    /\ UNCHANGED <<tdq, cur, owe, pinned, pri, nice, panic>>

sched_clock ==
    LET empty == tdq.queue["timeshare"][tdq.ridx] = <<>>
        i     == (tdq.idx + 1) % RQ_NQS
        over  == slice[cur] + 1 >= tdq_slice(tdq)
    IN  /\ tdq' = IF tdq.idx # tdq.ridx THEN tdq
                  ELSE [tdq EXCEPT !.idx = i, !.ridx = IF empty THEN i ELSE @]
        /\ IF cur = NoThread THEN UNCHANGED <<slice, need, sliceend>>
           ELSE /\ slice' = [slice EXCEPT ![cur] = IF over THEN 0 ELSE @ + 1]
                /\ need' = (need \/ over) /\ sliceend' = (sliceend \/ over)
        /\ UNCHANGED <<cur, owe, pinned, pri, nice, panic>>

-----------------------------------------------------------------------------
(* Priorities.                                                             *)

\* Mutant: the thread keeps its place on the queue.
Elevate_stay(td, p) ==
    /\ td \in Queued(tdq) /\ p < pri[td]
    /\ pri' = [pri EXCEPT ![td] = p]
    /\ UNCHANGED <<tdq, cpuVars, pinned, nice, slice, panic>>

\* sched_thread_priority of a queued thread that gets a better priority: it is added
\* again, to this queue or to another.
Elevate(td, p) ==
    /\ td \in Queued(tdq) /\ p < pri[td]
    /\ \/ RemFaults(td) /\ Fault
       \/ \E q \in sched_rem(td) :
             /\ tdq' = tdq_add(q, td, p, {"BORROWING"})
             /\ pri' = [pri EXCEPT ![td] = p]
             /\ Preempt(p)
             /\ UNCHANGED <<pinned, nice, slice, panic>>

\* A queued thread that gets a worse one stays where it is.
Demote(td, p) ==
    /\ td \in Queued(tdq) /\ p > pri[td]
    /\ pri' = [pri EXCEPT ![td] = p]
    /\ UNCHANGED <<tdq, cpuVars, pinned, nice, slice, panic>>

\* Mutant: lowpri stays.
Adjust_lost(p) ==
    /\ cur # NoThread /\ p # pri[cur] /\ pri' = [pri EXCEPT ![cur] = p]
    /\ UNCHANGED <<tdq, cpuVars, pinned, nice, slice, panic>>

\* tdq_setlowpri for the running thread and its new priority.
tdq_setlowpri(p) ==
    \/ ChooseFaults(tdq) /\ Fault
    \/ /\ \E td \in tdq_choose(tdq) : tdq' = Lowered(tdq, td, p)
       /\ pri' = [pri EXCEPT ![cur] = p]
       /\ UNCHANGED <<cpuVars, pinned, nice, slice, panic>>

\* The running thread: lowpri follows.
Adjust(p) ==
    /\ cur # NoThread /\ p # pri[cur]
    /\ IF p < tdq.lowpri \/ tdq.lowpri # pri[cur]
       THEN /\ tdq' = [tdq EXCEPT !.lowpri = IF p < @ THEN p ELSE @]
            /\ pri' = [pri EXCEPT ![cur] = p]
            /\ UNCHANGED <<cpuVars, pinned, nice, slice, panic>>
       ELSE tdq_setlowpri(p)

sched_thread_priority(td, p) == Elevate(td, p) \/ Demote(td, p) \/ (td = cur /\ Adjust(p))

sched_userret(p) == cur # NoThread /\ p # pri[cur] /\ tdq_setlowpri(p)

\* p_nice is set under the process lock only; the priority follows as
\* sched_thread_priority under the thread lock.
sched_nice(td, n) ==
    /\ nice' = [nice EXCEPT ![td] = n]
    /\ UNCHANGED <<tdq, cpuVars, pinned, pri, slice, panic>>

\* sched_pin and sched_unpin, by the thread itself.
sched_pin ==
    /\ cur \in MayPin
    /\ pinned' = IF cur \in pinned THEN pinned \ {cur} ELSE pinned \cup {cur}
    /\ UNCHANGED <<tdq, cpuVars, pri, nice, slice, panic>>

-----------------------------------------------------------------------------
\* The switches that are due.
Due == ast \/ critical_exit \/ sched_idletd

Next ==
    /\ ~panic
    /\ \/ Due \/ sched_preempt \/ sched_clock
       \/ tdq_move_away \/ sleep \/ sched_relinquish \/ sched_pin
       \/ \E td \in Thread :
             \/ sched_affinity(td)
             \/ \E n \in Nice : td \notin Root /\ sched_nice(td, n)
             \/ \E p \in Prio :
                   \/ sched_wakeup(td, p) \/ sched_thread_priority(td, p)
                   \/ \E n \in 0 .. sched_slice - 1 :
                         \/ tdq_move_here(td, p, n) \/ tdq_idled(td, p, n) \/ tdq_trysteal(td, p, n)
                         \/ Lend(td, p, n) \/ sched_switch_migrate(td, p, n)
       \/ \E p \in Prio : sched_userret(p)

Spec == Init /\ [][Next]_vars

\* The clock ticks; a switch that is due is made.
FairSpec == Spec /\ WF_vars(~panic /\ sched_clock) /\ WF_vars(~panic /\ Due)

-----------------------------------------------------------------------------
(* Properties.                                                             *)

\* The run queues and the threads' own fields agree: a thread is on one queue, once,
\* where its ts_runq and td_rqindex say, or on none; a status bit is set exactly when
\* its queue has a thread, so that no runnable thread is overlooked and no choose
\* finds a busy queue empty (runq_add, runq_remove_idx, lottery_q_add and _remove,
\* which keeps no td_rqindex).
QueuesMatchThreads ==
    /\ \A rq \in RunQ, i \in Slot :
          /\ i \in tdq.status[rq] <=> tdq.queue[rq][i] # <<>>
          /\ \A k \in 1 .. Len(tdq.queue[rq][i]) : tdq.where[tdq.queue[rq][i][k]] = <<rq, i>>
          /\ \A j, k \in 1 .. Len(tdq.queue[rq][i]) :
                tdq.queue[rq][i][j] = tdq.queue[rq][i][k] => j = k
    /\ \A td \in Queued(tdq) :
          \E k \in 1 .. Len(tdq.queue[tdq.where[td][1]][tdq.where[td][2]]) :
              tdq.queue[tdq.where[td][1]][tdq.where[td][2]][k] = td
    /\ cur # NoThread => cur \notin Queued(tdq)

\* The counters other CPUs balance by are exact: tdq_load is the number of threads
\* running and queued, tdq_transferable that of the queued threads which could
\* migrate when they were queued, whatever sched_pin and the moves did since.
CountersExact ==
    /\ tdq.load = Cardinality(Queued(tdq) \cup ({cur} \ {NoThread}))
    /\ tdq.transferable = Cardinality(tdq.xfer) /\ tdq.xfer \subseteq Queued(tdq)

\* The queues hold the threads they are meant for, although a queued thread may get
\* a worse priority in place: the assertions of tdq_choose, and "ONLY NON-ROOT
\* timeshare threads" in the lottery.
QueuesHoldTheirClass ==
    \A td \in Queued(tdq) :
        LET rq == tdq.where[td][1]
        IN  /\ rq \in {"timeshare", "lottery"} => pri[td] >= PRI_MIN_BATCH
            /\ rq = "idle" => pri[td] >= PRI_MIN_IDLE
            /\ rq = "timeshare" => isRoot(td)
            /\ rq = "lottery" => ~isRoot(td) /\ tdq.where[td][2] = 0

\* The insert index runs at most one slot ahead of the removal index, and only while
\* the slot at the removal index still has a thread; so the calendar never stands
\* still at an empty slot (sched_clock, tdq_runq_rem, runq_remove_idx).
CalendarDrains ==
    tdq.idx # tdq.ridx => /\ tdq.idx = (tdq.ridx + 1) % RQ_NQS
                          /\ tdq.queue["timeshare"][tdq.ridx] # <<>>

\* tdq_lowpri is never worse than the running thread's priority: a CPU that another
\* one takes to be idle or doing low priority work is (sched_pickcpu, sched_preempt).
LowpriBoundsCurrent == tdq.lowpri <= PriOf(cur)

\* Each thread of the lottery wins for exactly as many random numbers as it has
\* tickets.
DrawIsProportional ==
    LET s == tdq.queue["lottery"][0]
    IN  (tck_tot(s) > 0 /\ \A k \in DOMAIN s : nice[s[k]] >= -1) =>
            \A k \in DOMAIN s :
                Cardinality({r \in 0 .. tck_tot(s) - 1 : LotteryWinner(s, r) = s[k]}) = nice[s[k]] + 1

\* SRQ_BORROWING and SRQ_PREEMPTED put a thread into the slot that is being drained: one
\* that waits here and is lent priority, or one that comes from another CPU.
Overtakes(td) ==
    \/ {td} \subseteq Queued(tdq) \cap Queued(tdq') /\ pri'[td] < pri[td]
    \/ /\ td \in Away /\ tdq.idx # tdq.ridx /\ tdq'.ridx = tdq.ridx
       /\ tdq'.where[td] = <<"timeshare", tdq.ridx>>
OvertakingStops == <>[][\A td \in Thread : ~Overtakes(td)]_vars

\* Realtime and interactive threads, and those of the kernel, have run and stay away.
BetterClassRests ==
    <>[](tdq.status["realtime"] = {} /\ PriOf(cur) >= PRI_MIN_BATCH)

\* If the better classes do not keep the CPU for ever, and threads are not lent priority or
\* migrated after a preemption for ever, a thread on the timeshare queue runs in the end,
\* or leaves it: the insert index moves at each tick "to ensure that all threads get a chance
\* to run" (sched_clock).
OnTimeshare(td) == td \in Queued(tdq) /\ tdq.where[td][1] = "timeshare"
TimeshareThreadRuns(td) ==
    OvertakingStops /\ BetterClassRests => (OnTimeshare(td) ~> ~OnTimeshare(td))

\* A draw from a lottery queue that is not empty returns one of its threads.
LotteryReturnsAThread == ~panic
=============================================================================
