----------------------------- MODULE PageDaemon -----------------------------
(***************************************************************************)
(* Who waits for whom when memory runs short: threads that allocate pages  *)
(* (asgn3/vm/vm_page.c), one page daemon per memory domain, the laundry    *)
(* thread and the OOM killer (asgn3/vm/vm_pageout.c).  Pages are counted:  *)
(* free, inactive in each domain, and in the laundry.                      *)
(* What happens to single pages of a queue is in PageQueues, with the      *)
(* statistics that stop the kernel on an empty queue; here a walk over a   *)
(* queue is one step.  vm_page_queue_free_mtx is held from one step to the *)
(* next only between a worker's tests and its sleep; pagedaemon_wakeup     *)
(* does not take it.                                                       *)
(***************************************************************************)
EXTENDS Integers, FiniteSetsExt, Functions, TLC

CONSTANTS
    Thread, Domain,
    Pages,                        \* pages of memory (v_page_count)
    v_interrupt_free_min, v_pageout_free_min, v_free_reserved, v_free_min, v_free_target,
    vm_pageout_wakeup_thresh,
    vm_pageout_oom_seq,           \* scans without success before a vote
    MaxDeficit                    \* a bound of vm_pageout_deficit

\* The order that vm_pageout_init gives the thresholds.
ASSUME DaemonAssumption ==
    /\ IsFiniteSet(Thread) /\ IsFiniteSet(Domain) /\ Domain # {}
    /\ {v_interrupt_free_min, v_pageout_free_min, v_free_reserved, v_free_min, v_free_target,
         Pages, vm_pageout_wakeup_thresh, MaxDeficit} \subseteq Nat
    /\ v_interrupt_free_min <= v_pageout_free_min
    /\ v_pageout_free_min <= v_free_reserved /\ v_free_reserved < v_free_min
    /\ v_free_min < v_free_target /\ v_free_target <= Pages
    /\ vm_pageout_oom_seq \in Nat \ {0}

VARIABLES
    free, inactive, laundry,      \* v_free_count, v_inactive_count of a domain, v_laundry_count
    wanted,                       \* vm_pageout_wanted
    needed,                       \* vm_pages_needed
    pages_needed,                 \* vm_pageout_pages_needed: the laundry thread waits too
    user,                         \* the threads
    worker,                       \* the page daemons
    vote,                         \* vm_pageout_oom_vote
    request, washer               \* vm_laundry_request, the laundry thread

pageVars == <<free, inactive, laundry>>
washVars == <<request, washer>>
vars == <<pageVars, wanted, needed, pages_needed, user, worker, vote, washVars>>

UserState   == {"run", "advise", "advise_wait", "vm_wait", "asleep", "killed", "dead"}
WorkerLabel == {"top", "sleep", "asleep", "scan", "post", "vote", "oom", "recall"}
WasherLabel == {"launder", "advise", "advise_wait", "wait", "memwait", "check", "asleep", "woken"}

\* What a scan came to: it had nothing to do, met its shortage, freed some pages or none.
Result == {"enough", "met", "some", "none"}

TypeOK ==
    /\ free \in 0 .. Pages /\ laundry \in 0 .. Pages
    /\ inactive \in [Domain -> 0 .. Pages]
    /\ free + laundry + SumFunction(inactive) = Pages
    /\ {wanted, needed, pages_needed} \subseteq BOOLEAN
    /\ user \in [Thread -> UserState]
    /\ worker \in [Domain -> [pc : WorkerLabel, result : Result, seq : 0 .. vm_pageout_oom_seq, oom : BOOLEAN]]
    /\ vote \in 0 .. Cardinality(Domain)
    /\ request \in {"IDLE", "BACKGROUND", "SHORTFALL"}
    /\ washer \in [pc : WasherLabel, target : BOOLEAN, in_shortfall : BOOLEAN]

Init ==
    /\ free = Pages /\ laundry = 0
    /\ inactive = [d \in Domain |-> 0]
    /\ wanted = FALSE /\ needed = FALSE /\ pages_needed = FALSE
    /\ user = [t \in Thread |-> "run"]
    /\ worker = [d \in Domain |-> [pc |-> "top", result |-> "enough", seq |-> 0, oom |-> FALSE]]
    /\ vote = 0 /\ request = "IDLE"
    /\ washer = [pc |-> "check", target |-> FALSE, in_shortfall |-> FALSE]

\* vm_page_queue_free_mtx.
FreeLock == \A d \in Domain : worker[d].pc # "sleep"

vm_page_count_min(f) == v_free_min > f
vm_paging_needed(f)  == f < vm_pageout_wakeup_thresh
vm_paging_target     == v_free_target - free
vm_laundry_target    == vm_paging_target

At(d, label) == [worker EXCEPT ![d].pc = label]

\* wakeup(&vm_cnt.v_free_count) and wakeup(&vm_pageout_wanted).
Awake(u) == [t \in Thread |-> IF u[t] = "asleep" THEN "run" ELSE u[t]]
WakeWorkers ==
    worker' = [d \in Domain |-> IF worker[d].pc = "asleep" THEN [worker[d] EXCEPT !.pc = "scan"] ELSE worker[d]]

\* The body of pagedaemon_wakeup.
WantPages == IF ~wanted THEN wanted' = TRUE /\ WakeWorkers ELSE UNCHANGED <<wanted, worker>>

\* vm_page_free_wakeup, when f pages are free and the threads are as in u; what it does to
\* the laundry thread.
vm_page_free_wakeup(f, u) ==
    /\ free' = f
    /\ pages_needed' = (pages_needed /\ f < v_pageout_free_min)
    /\ needed' = (needed /\ vm_page_count_min(f))
    /\ user' = IF needed /\ ~needed' THEN Awake(u) ELSE u
Relieved(f) ==
    IF pages_needed /\ f >= v_pageout_free_min /\ washer.pc = "memwait"
    THEN [washer EXCEPT !.pc = "launder"] ELSE washer

-----------------------------------------------------------------------------
(* Threads that allocate.                                                  *)

\* The three classes of requests.
Limit == {v_free_reserved, v_interrupt_free_min, 0}

\* The page ends up in the inactive queue of its domain.
vm_page_alloc(t) ==
    /\ user[t] = "run" /\ FreeLock /\ \E l \in Limit : free > l
    /\ \E d \in Domain : inactive' = [inactive EXCEPT ![d] = @ + 1]
    /\ free' = free - 1
    /\ user' = [user EXCEPT ![t] = IF vm_paging_needed(free - 1) THEN "advise" ELSE "run"]
    /\ UNCHANGED <<laundry, wanted, needed, pages_needed, worker, vote, washVars>>

\* pagedaemon_wait, with the lock of the free queues.  Mutant: trusts an advisory wakeup
\* that may have been lost.
pagedaemon_wait_trusting(t) ==
    /\ IF ~wanted THEN wanted' = TRUE /\ WakeWorkers ELSE UNCHANGED <<wanted, worker>>
    /\ needed' = TRUE /\ user' = [user EXCEPT ![t] = "asleep"]

pagedaemon_wait(t) ==
    /\ IF ~wanted \/ ~needed THEN wanted' = TRUE /\ WakeWorkers ELSE UNCHANGED <<wanted, worker>>
    /\ needed' = TRUE /\ user' = [user EXCEPT ![t] = "asleep"]

\* vm_page_alloc_fail: waits at once, or tells the daemon and leaves it to the caller to
\* wait.
vm_page_alloc_fail(t) ==
    /\ user[t] = "run" /\ FreeLock /\ \E l \in Limit : free <= l
    /\ \/ pagedaemon_wait(t)
       \/ user' = [user EXCEPT ![t] = "advise_wait"] /\ UNCHANGED <<wanted, needed, worker>>
    /\ UNCHANGED <<pageVars, pages_needed, vote, request, washer>>

\* Without the lock.
pagedaemon_wakeup(t) ==
    /\ user[t] \in {"advise", "advise_wait"}
    /\ user' = [user EXCEPT ![t] = IF user[t] = "advise" THEN "run" ELSE "vm_wait"]
    /\ WantPages
    /\ UNCHANGED <<pageVars, needed, pages_needed, vote, request, washer>>

\* vm_wait, vm_waitpfault: sleeps even if there are free pages by now.
vm_wait(t) ==
    /\ user[t] = "vm_wait" /\ FreeLock /\ pagedaemon_wait(t)
    /\ UNCHANGED <<pageVars, pages_needed, vote, request, washer>>

\* A process that was killed gives back its pages.
exit(t) ==
    /\ user[t] = "killed" /\ FreeLock
    /\ \E d \in Domain :
         /\ inactive' = [inactive EXCEPT ![d] = 0]
         /\ vm_page_free_wakeup(free + inactive[d], [user EXCEPT ![t] = "dead"])
         /\ washer' = Relieved(free + inactive[d])
    /\ UNCHANGED <<laundry, wanted, worker, vote, request>>

-----------------------------------------------------------------------------
(* vm_pageout_mightbe_oom: the last domain to vote kills a process.  The   *)
(* flag vmd_oom is read by its own daemon only; the count is changed       *)
(* without a lock, in a step after the flag.                               *)

\* vmd_oom_seq after a scan.  Mutant: does not add up.
Failures_last(w, result) == IF result = "none" THEN 1 ELSE 0
Failures(w, result) == IF result = "none" THEN w.seq + 1 ELSE 0

\* The worker w after a scan with this result: it votes ("vote"), takes its vote back
\* ("recall") or neither.
vm_pageout_mightbe_oom(w, result) ==
    LET seq   == Failures(w, result)
        votes == seq >= vm_pageout_oom_seq
    IN  [pc |-> CASE votes /\ ~w.oom -> "vote" [] ~votes /\ w.oom -> "recall" [] OTHER -> "top",
         oom |-> votes, seq |-> IF votes THEN 0 ELSE seq, result |-> result]

\* atomic_fetchadd_int.
Vote(d) ==
    /\ worker[d].pc = "vote"
    /\ vote' = vote + 1 /\ worker' = At(d, IF vote = Cardinality(Domain) - 1 THEN "oom" ELSE "top")
    /\ UNCHANGED <<pageVars, wanted, needed, pages_needed, user, washVars>>

\* Mutant: a vote that is taken back still counts.
Recall_forgotten(d) ==
    /\ worker[d].pc = "recall" /\ worker' = At(d, "top")
    /\ UNCHANGED <<pageVars, wanted, needed, pages_needed, user, vote, washVars>>

\* atomic_subtract_int.
Recall(d) ==
    /\ worker[d].pc = "recall" /\ worker' = At(d, "top")
    /\ vote' = vote - 1
    /\ UNCHANGED <<pageVars, wanted, needed, pages_needed, user, washVars>>

\* The vote is recalled after one round.
AfterOom(d) == worker' = [worker EXCEPT ![d].pc = "recall", ![d].oom = FALSE]

\* A process is killed, and everybody who waits for pages wakes up; then the worker recalls
\* its vote.
Kill(d) ==
    /\ worker[d].pc = "oom" /\ AfterOom(d)
    /\ \E t \in Thread : user[t] \notin {"killed", "dead"} /\ user' = [Awake(user) EXCEPT ![t] = "killed"]
    /\ UNCHANGED <<pageVars, wanted, needed, pages_needed, vote, washVars>>

\* No victim is found: processes that are protected or whose map is locked are passed over.
NoVictim(d) ==
    /\ worker[d].pc = "oom" /\ AfterOom(d)
    /\ UNCHANGED <<pageVars, wanted, needed, pages_needed, user, vote, washVars>>

vm_pageout_oom(d) == Kill(d) \/ NoVictim(d)

-----------------------------------------------------------------------------
(* vm_pageout_scan.                                                        *)

\* Mutant: frees pages without taking them off the inactive queue.
scan_keeps(d, c, l) == inactive' = [inactive EXCEPT ![d] = @ - l] /\ laundry' = laundry + l
Unqueued(d, c, l) == inactive' = [inactive EXCEPT ![d] = @ - c - l] /\ laundry' = laundry + l

\* After the walk: vm_laundry_request is tested without a lock, and may have to be set.
EndScan(d, result) ==
    worker' = [worker EXCEPT ![d] = IF request = "IDLE" /\ result # "enough"
                                    THEN [@ EXCEPT !.pc = "post", !.result = result]
                                    ELSE vm_pageout_mightbe_oom(@, result)]

\* A scan with pass = 0, or one that finds enough free pages.
ScanIdle(d) == EndScan(d, "enough") /\ UNCHANGED <<pageVars, wanted, needed, pages_needed, user, vote, washVars>>

\* The scan finds c clean pages, which it frees, and l dirty ones, which go to the
\* laundry; the others are busy, or were referenced.  maxscan is the length of the queue,
\* and vmd_inacthead, which is first in it, takes one of it.
vm_pageout_scan(d) ==
    /\ worker[d].pc = "scan" /\ FreeLock
    /\ \/ vm_paging_target <= 0 /\ ScanIdle(d)
       \/ LET maxscan  == Max({inactive[d] - 1, 0})
          IN  \E deficit \in 0 .. MaxDeficit, c, l \in 0 .. maxscan :
                LET shortage == vm_paging_target + deficit
                IN  /\ shortage > 0 /\ c <= shortage /\ c + l <= maxscan
                    /\ Unqueued(d, c, l)
                    /\ IF c > 0
                       THEN vm_page_free_wakeup(free + c, user) /\ washer' = Relieved(free + c)
                       ELSE UNCHANGED <<free, pages_needed, needed, user, washer>>
                    /\ EndScan(d, CASE c = shortage -> "met" [] c = 0 -> "none" [] OTHER -> "some")
                    /\ UNCHANGED <<wanted, vote, request>>

\* vm_laundry_request is set and signalled under the lock of the laundry queue: another
\* daemon may have set it, and SHORTFALL overrides BACKGROUND.
Request(d) ==
    /\ worker[d].pc = "post"
    /\ request' = CASE worker[d].result # "met" -> "SHORTFALL"
                    [] request = "IDLE" -> "BACKGROUND"
                    [] OTHER -> request
    /\ washer' = IF washer.pc = "asleep" THEN [washer EXCEPT !.pc = "woken"] ELSE washer
    /\ worker' = [worker EXCEPT ![d] = vm_pageout_mightbe_oom(@, worker[d].result)]
    /\ UNCHANGED <<pageVars, wanted, needed, pages_needed, user, vote>>

-----------------------------------------------------------------------------
(* vm_pageout_worker.                                                      *)

\* Threads wait although there are free pages: one that found none goes to sleep later
\* (vm_wait).
Relief == needed /\ ~vm_page_count_min(free)

\* The tests at the top of the loop.  A worker that finds vm_pageout_wanted set and has
\* scanned with pass >= 1 pauses for a while before it scans again.
vm_pageout_worker(d) ==
    /\ worker[d].pc = "top" /\ FreeLock
    /\ LET want == wanted /\ worker[d].result \in {"some", "none"}
           need == needed /\ ~Relief
       IN  /\ needed' = need /\ wanted' = want
           /\ user' = IF Relief THEN Awake(user) ELSE user
           /\ worker' = [worker EXCEPT ![d].pc = IF want \/ need THEN "scan" ELSE "sleep", ![d].result = "enough"]
    /\ UNCHANGED <<pageVars, pages_needed, vote, washVars>>

\* mtx_sleep gives up the lock as the worker falls asleep.
mtx_sleep(d) ==
    /\ worker[d].pc = "sleep" /\ worker' = At(d, "asleep")
    /\ UNCHANGED <<pageVars, wanted, needed, pages_needed, user, vote, washVars>>

\* After hz ticks: a scan with pass = 0, which frees nothing.
timeout(d) == worker[d].pc = "asleep" /\ ScanIdle(d)

-----------------------------------------------------------------------------
(* vm_pageout_laundry_worker.                                              *)

washOnly == UNCHANGED <<wanted, needed, pages_needed, user, worker, vote>>

\* A new round, under the lock of the laundry queue before or after the sleep.  A request
\* for a shortfall preempts background laundering and starts a cycle of rounds, unless one
\* is under way (ended: shortfall_cycle = 0); laundering in the background starts when the
\* laundry is large for the number of times that the page daemon was woken (starts), and is
\* given up when it was not woken for long (belt).  In a long cycle a round may have nothing
\* to do (launder = 0).
NextRound ==
    \E ended, starts, belt \in BOOLEAN, deficit \in 0 .. MaxDeficit :
      LET new     == request = "SHORTFALL" /\ (~washer.in_shortfall \/ ended)
          target  == washer.target /\ ~new
          enters  == new /\ vm_laundry_target + deficit > 0
          goes_on == ~enters /\ washer.in_shortfall /\ ~ended /\ vm_laundry_target > 0
          stops   == washer.in_shortfall /\ ~goes_on
          more    == enters \/ (IF goes_on THEN target ELSE (target /\ ~stops /\ ~belt) \/ starts)
      IN  /\ request' = IF target THEN request ELSE "IDLE"
          /\ \E l \in {"launder", "check"} :
               /\ l = "launder" => more
               /\ l = "check" => ~more \/ goes_on \/ enters
               /\ washer' = [pc |-> l, target |-> more, in_shortfall |-> enters \/ goes_on]

\* The pager may need pages of its own; the process of the page daemon may go down to
\* v_interrupt_free_min.  Such a page is inactive in the end, too.
PagerAlloc ==
    /\ washer.pc = "launder" /\ laundry > 0 /\ FreeLock
    /\ \E l \in {v_interrupt_free_min, 0} : free > l
    /\ \E d \in Domain : inactive' = [inactive EXCEPT ![d] = @ + 1]
    /\ free' = free - 1
    /\ washer' = [washer EXCEPT !.pc = IF vm_paging_needed(free - 1) THEN "advise" ELSE "launder"]
    /\ UNCHANGED <<laundry, request>> /\ washOnly

\* It fails, and waits for vm_pageout_pages_needed at once or after pagedaemon_wakeup.
PagerFails ==
    /\ washer.pc = "launder" /\ laundry > 0 /\ FreeLock
    /\ \E l \in {v_interrupt_free_min, 0} : free <= l
    /\ \/ pages_needed' = TRUE /\ washer' = [washer EXCEPT !.pc = "memwait"]
       \/ washer' = [washer EXCEPT !.pc = "advise_wait"] /\ UNCHANGED pages_needed
    /\ UNCHANGED <<pageVars, request, wanted, needed, user, worker, vote>>

PagerAdvises ==
    /\ washer.pc \in {"advise", "advise_wait"} /\ WantPages
    /\ washer' = [washer EXCEPT !.pc = IF @ = "advise" THEN "launder" ELSE "wait"]
    /\ UNCHANGED <<pageVars, request, needed, pages_needed, user, vote>>

PagerWaits ==
    /\ washer.pc = "wait" /\ FreeLock
    /\ pages_needed' = TRUE /\ washer' = [washer EXCEPT !.pc = "memwait"]
    /\ UNCHANGED <<pageVars, request, wanted, needed, user, worker, vote>>

Pager == PagerAlloc \/ PagerFails \/ PagerAdvises \/ PagerWaits

\* k pages are written, or were referenced or could not be written, and are back in an
\* inactive queue; c are clean by now and are freed, which does not count as laundering.
\* The target may be reached.
vm_pageout_launder ==
    /\ washer.pc = "launder" /\ FreeLock
    /\ \E k, c \in 0 .. laundry, d \in Domain, target \in BOOLEAN :
         /\ k + c <= laundry /\ laundry' = laundry - k - c
         /\ inactive' = [inactive EXCEPT ![d] = @ + k]
         /\ k = 0 => target
         /\ IF c > 0 THEN vm_page_free_wakeup(free + c, user) ELSE UNCHANGED <<free, pages_needed, needed, user>>
         /\ washer' = [washer EXCEPT !.pc = "check", !.target = target]
    /\ UNCHANGED <<request, wanted, worker, vote>>

Check ==
    /\ washer.pc = "check"
    /\ IF ~washer.target /\ request = "IDLE"
       THEN washer' = [washer EXCEPT !.pc = "asleep"] /\ UNCHANGED request
       ELSE NextRound
    /\ UNCHANGED pageVars /\ washOnly

Woken ==
    /\ washer.pc = "woken" /\ NextRound
    /\ UNCHANGED pageVars /\ washOnly

-----------------------------------------------------------------------------
User(t) ==
    \/ vm_page_alloc(t) \/ vm_page_alloc_fail(t) \/ pagedaemon_wakeup(t) \/ vm_wait(t) \/ exit(t)

Worker(d) ==
    \/ vm_pageout_worker(d) \/ mtx_sleep(d) \/ timeout(d) \/ vm_pageout_scan(d)
    \/ Request(d) \/ Vote(d) \/ vm_pageout_oom(d) \/ Recall(d)

Washer == Pager \/ vm_pageout_launder \/ Check \/ Woken

Next == (\E t \in Thread : User(t)) \/ (\E d \in Domain : Worker(d)) \/ Washer

Spec == Init /\ [][Next]_vars

\* The page daemons run, and their sleep times out; an OOM killer that is called again and
\* again does not pass over every process each time.  Nothing is assumed of the laundry
\* thread, whose pager may wait for ever, nor of the threads that allocate.
FairSpec ==
    /\ Spec
    /\ \A d \in Domain : WF_vars(Worker(d))
    /\ SF_vars(\E d \in Domain : Kill(d))

-----------------------------------------------------------------------------
(* Properties.                                                             *)

\* While a thread waits for pages no page daemon sleeps, although pagedaemon_wakeup sets
\* vm_pageout_wanted between the tests of a daemon and its sleep and its wakeup is lost;
\* the laundry thread does not sleep while a request is posted, and when it waits for a
\* page itself who frees one is told.
DaemonsAwakeForSleepers ==
    /\ (\E t \in Thread : user[t] = "asleep") =>
         needed /\ \A d \in Domain : worker[d].pc \notin {"sleep", "asleep"}
    /\ request # "IDLE" => washer.pc # "asleep"
    /\ washer.pc = "memwait" => pages_needed

\* The domains whose votes vm_pageout_oom_vote counts.
Counted(w) == {d \in Domain : w[d].pc = "recall" \/ (w[d].oom /\ w[d].pc # "vote")}

\* A process is killed only when every other domain has failed and voted for it, or is just
\* taking its vote back (vm_pageout_mightbe_oom): none is counted twice, and no vote that
\* was taken back counts for long.
KillNeedsEveryVote ==
    [][ \A d \in Domain : worker[d].pc # "oom" /\ worker'[d].pc = "oom" => Counted(worker') = Domain ]_vars


\* A scan fails as the one before it did, and takes back the vote that that one gave:
\* vmd_oom_seq started again with the vote, and is now below vm_pageout_oom_seq.
VoteTakenBack ==
    \E d \in Domain : /\ worker[d].pc \in {"scan", "post"} /\ worker'[d].pc = "recall"
                      /\ worker'[d].result = "none"

\* When all threads that are left wait for pages somebody wakes up, because pages are
\* freed or because a process is killed: unless the laundry's pager takes pages for ever,
\* the OOM killer passes over every process for ever (FairSpec), or the domains never vote
\* at one time and each takes its vote back (RepeatedFailureKills).
EverybodyWaits ==
    /\ \E t \in Thread : user[t] = "asleep"
    /\ \A t \in Thread : user[t] \in {"asleep", "killed", "dead"}
WaitersWake ==
    []<><<PagerAlloc>>_vars \/ []<><<VoteTakenBack>>_vars \/ (EverybodyWaits ~> ~EverybodyWaits)

\* vm_pageout_scan says: "If the inactive queue scan fails repeatedly to meet its target,
\* kill the largest process".  But vmd_oom_seq starts again when a domain votes, and the next
\* scan, which fails as well, takes the vote back: domains that do not vote at the same time
\* never get their votes together (with two domains and vm_pageout_oom_seq above 1).
RepeatedFailureKills ==
    <>[]EverybodyWaits /\ <>[][free' = free]_vars => []<><<\E d \in Domain : vm_pageout_oom(d)>>_vars
=============================================================================
