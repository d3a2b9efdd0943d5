------------------------------ MODULE PageBusy ------------------------------
(***************************************************************************)
(* The busy lock of one page (asgn3/vm/vm_page.c, vm_page.h).  Threads     *)
(* look the page up in its object, busy it exclusively or shared, sleep    *)
(* while it is busy, and give it up; it may be freed and allocated again.  *)
(* The word busy_lock is only changed by compare-and-set or by the owner's *)
(* store, so a thread's steps are the single reads and writes of it, with  *)
(* the copy x that it compares.  The object lock and the page lock are     *)
(* mutexes; wakeup(m) wakes every thread asleep on the page.               *)
(***************************************************************************)
EXTENDS Integers, FiniteSets, TLC

CONSTANTS Thread, NoThread

ASSUME BusyAssumption == NoThread \notin Thread /\ IsFiniteSet(Thread)

VARIABLES
    busy,        \* m->busy_lock
    resident,    \* the object has the page (m->object # NULL)
    objlock,     \* owner of the lock of the object
    pagelock,    \* owner of the lock of the page
    pc, x,       \* where a thread is, and the word it read last
    req,         \* how it wants the page
    hold,        \* how it has the page busied
    panicked     \* vm_page_xbusy or vm_page_sbusy failed, or a busy page was freed

threadVars == <<pc, x, req>>
vars == <<busy, resident, objlock, pagelock, pc, x, req, hold, panicked>>

-----------------------------------------------------------------------------
(* The word.  VPB_BIT_SHARED is set exactly when VPB_BIT_EXCLUSIVE is not. *)

Word == [excl : BOOLEAN, sharers : 0 .. Cardinality(Thread), waiters : BOOLEAN]
VPB_SHARERS_WORD(n)   == [excl |-> FALSE, sharers |-> n, waiters |-> FALSE]
VPB_UNBUSIED          == VPB_SHARERS_WORD(0)
VPB_SINGLE_EXCLUSIVER == [excl |-> TRUE, sharers |-> 0, waiters |-> FALSE]

vm_page_busied  == busy # VPB_UNBUSIED
vm_page_xbusied == busy.excl
vm_page_sbusied == ~busy.excl /\ busy # VPB_UNBUSIED

\* Exclusive, shared (VM_ALLOC_SBUSY with VM_ALLOC_IGN_SBUSY), or not at all
\* (VM_ALLOC_NOBUSY, and vm_page_sleep_if_busy).
Request == {"excl", "shared", "nobusy"}

Label == {"idle", "lookup", "xbusy", "trysbusy", "trysbusy_cas", "locked", "sleep_cas",
          "asleep", "relock", "have", "xhard", "xstore", "xwake",
          "downgrade", "downgrade_lock", "downgrade_cas", "downgrade_wake",
          "sunbusy", "sunbusy_cas", "sunbusy_lock", "sunbusy_cas_locked", "sunbusy_wake",
          "free_obj", "free_page", "free", "free_store", "free_wake",
          "flash", "flash_cas", "flash_wake"}

TypeOK ==
    /\ busy \in Word /\ resident \in BOOLEAN /\ panicked \in BOOLEAN
    /\ objlock \in Thread \cup {NoThread} /\ pagelock \in Thread \cup {NoThread}
    /\ pc \in [Thread -> Label] /\ x \in [Thread -> Word] /\ req \in [Thread -> Request]
    /\ hold \in [Thread -> {"none", "excl", "shared"}]

Init ==
    /\ busy = VPB_UNBUSIED /\ resident \in BOOLEAN /\ panicked = FALSE
    /\ objlock = NoThread /\ pagelock = NoThread
    /\ pc = [t \in Thread |-> "idle"] /\ x = [t \in Thread |-> VPB_UNBUSIED]
    /\ req = [t \in Thread |-> "nobusy"] /\ hold = [t \in Thread |-> "none"]

Sleepers == {t \in Thread : pc[t] = "asleep"}

\* A thread goes on at label l; its copy of the word is forgotten.
Goto(t, l) ==
    pc' = [pc EXCEPT ![t] = l] /\ x' = [x EXCEPT ![t] = VPB_UNBUSIED] /\ UNCHANGED req

\* It reads the word and goes on at l.
Load(t, l) ==
    pc' = [pc EXCEPT ![t] = l] /\ x' = [x EXCEPT ![t] = busy] /\ UNCHANGED req

\* wakeup(m): every sleeper wakes up.
Wakeup(t, l) ==
    /\ pc' = [u \in Thread |-> IF u = t THEN l ELSE IF u \in Sleepers THEN "relock" ELSE pc[u]]
    /\ x' = [x EXCEPT ![t] = VPB_UNBUSIED] /\ UNCHANGED req

Holds(t, h)   == hold' = [hold EXCEPT ![t] = h]
LockObject(t) == objlock = NoThread /\ objlock' = t
LockPage(t)   == pagelock = NoThread /\ pagelock' = t

-----------------------------------------------------------------------------
(* vm_page_grab, and vm_page_grab_pages for each of its pages.             *)

\* The caller locks the object, or the thread locks it again after its sleep.
Grab(t, r) ==
    /\ pc[t] = "idle" /\ LockObject(t)
    /\ pc' = [pc EXCEPT ![t] = "lookup"] /\ req' = [req EXCEPT ![t] = r]
    /\ UNCHANGED <<busy, resident, pagelock, x, hold, panicked>>

\* Mutant: the page is not looked up again after the sleep.
Relock_noretry(t) ==
    /\ pc[t] = "relock" /\ LockObject(t)
    /\ Goto(t, IF req[t] = "excl" THEN "xbusy" ELSE "lookup")
    /\ UNCHANGED <<busy, resident, pagelock, hold, panicked>>

Relock(t) ==
    /\ pc[t] = "relock" /\ LockObject(t) /\ Goto(t, "lookup")
    /\ UNCHANGED <<busy, resident, pagelock, hold, panicked>>

\* The object has no page there: vm_page_alloc_after stores the word before the page
\* can be found.
vm_page_alloc_after(t) ==
    /\ pc[t] = "lookup" /\ ~resident
    /\ resident' = TRUE /\ objlock' = NoThread
    /\ busy' = CASE req[t] = "excl"   -> VPB_SINGLE_EXCLUSIVER
                 [] req[t] = "shared" -> VPB_SHARERS_WORD(1)
                 [] OTHER             -> VPB_UNBUSIED
    /\ IF req[t] = "nobusy" THEN Goto(t, "idle") /\ UNCHANGED hold
       ELSE Goto(t, "have") /\ Holds(t, req[t])
    /\ UNCHANGED <<pagelock, panicked>>

\* Whether to sleep: VM_ALLOC_IGN_SBUSY.
MustSleep(t) == IF req[t] = "shared" THEN vm_page_xbusied ELSE vm_page_busied

\* With VM_ALLOC_NOWAIT the caller gets NULL; otherwise the page is locked before the
\* object is unlocked.
GrabBusy(t) ==
    /\ pc[t] = "lookup" /\ resident /\ MustSleep(t)
    /\ \/ Goto(t, "idle") /\ UNCHANGED pagelock
       \/ LockPage(t) /\ Goto(t, "locked")
    /\ objlock' = NoThread
    /\ UNCHANGED <<busy, resident, hold, panicked>>

GrabFree(t) ==
    /\ pc[t] = "lookup" /\ resident /\ ~MustSleep(t)
    /\ CASE req[t] = "excl"   -> Goto(t, "xbusy") /\ UNCHANGED objlock
         [] req[t] = "shared" -> Goto(t, "trysbusy") /\ UNCHANGED objlock
         [] OTHER             -> Goto(t, "idle") /\ objlock' = NoThread
    /\ UNCHANGED <<busy, resident, pagelock, hold, panicked>>

\* vm_page_xbusy after the test: the page must still be free.
vm_page_xbusy(t) ==
    /\ pc[t] = "xbusy" /\ objlock' = NoThread
    /\ IF busy = VPB_UNBUSIED
       THEN busy' = VPB_SINGLE_EXCLUSIVER /\ Holds(t, "excl") /\ Goto(t, "have")
            /\ UNCHANGED panicked
       ELSE panicked' = TRUE /\ Goto(t, "idle") /\ UNCHANGED <<busy, hold>>
    /\ UNCHANGED <<resident, pagelock>>

\* vm_page_sbusy: reads the word, adds a sharer if it has not changed.
vm_page_trysbusy(t) ==
    /\ pc[t] = "trysbusy"
    /\ IF busy.excl
       THEN panicked' = TRUE /\ Goto(t, "idle") /\ objlock' = NoThread
       ELSE Load(t, "trysbusy_cas") /\ UNCHANGED <<objlock, panicked>>
    /\ UNCHANGED <<busy, resident, pagelock, hold>>

\* Mutant: stores the new word without a comparison.
trysbusy_cas_store(t) ==
    /\ pc[t] = "trysbusy_cas"
    /\ busy' = [x[t] EXCEPT !.sharers = @ + 1] /\ objlock' = NoThread
    /\ Holds(t, "shared") /\ Goto(t, "have")
    /\ UNCHANGED <<resident, pagelock, panicked>>

trysbusy_cas(t) ==
    /\ pc[t] = "trysbusy_cas"
    /\ IF busy = x[t]
       THEN /\ busy' = [busy EXCEPT !.sharers = @ + 1] /\ objlock' = NoThread
            /\ Holds(t, "shared") /\ Goto(t, "have")
       ELSE Goto(t, "trysbusy") /\ UNCHANGED <<busy, objlock, hold>>
    /\ UNCHANGED <<resident, pagelock, panicked>>

-----------------------------------------------------------------------------
(* vm_page_busy_sleep, with the page locked.                               *)

\* Mutant: sleeps without a look at the word.
busy_sleep_blind(t) ==
    /\ pc[t] = "locked" /\ Goto(t, "asleep") /\ pagelock' = NoThread
    /\ UNCHANGED <<busy, resident, objlock, hold, panicked>>

\* The page may have been given up since the object was unlocked; nonshared means that
\* a shared busy page is good enough.
vm_page_busy_sleep(t) ==
    /\ pc[t] = "locked"
    /\ IF busy = VPB_UNBUSIED \/ (req[t] = "shared" /\ ~busy.excl)
       THEN Goto(t, "relock") /\ pagelock' = NoThread
       ELSE IF busy.waiters THEN Goto(t, "asleep") /\ pagelock' = NoThread
       ELSE Load(t, "sleep_cas") /\ UNCHANGED pagelock
    /\ UNCHANGED <<busy, resident, objlock, hold, panicked>>

\* Sets VPB_BIT_WAITERS; msleep releases the page lock as it puts the thread to sleep.
busy_sleep_cas(t) ==
    /\ pc[t] = "sleep_cas" /\ pagelock' = NoThread
    /\ IF busy = x[t]
       THEN busy' = [busy EXCEPT !.waiters = TRUE] /\ Goto(t, "asleep")
       ELSE Goto(t, "relock") /\ UNCHANGED busy
    /\ UNCHANGED <<resident, objlock, hold, panicked>>

-----------------------------------------------------------------------------
(* vm_page_xunbusy: the fast path succeeds only without waiters.           *)

vm_page_xunbusy(t) ==
    /\ pc[t] = "have" /\ hold[t] = "excl"
    /\ IF busy = VPB_SINGLE_EXCLUSIVER
       THEN busy' = VPB_UNBUSIED /\ Holds(t, "none") /\ Goto(t, "idle")
       ELSE Goto(t, "xhard") /\ UNCHANGED <<busy, hold>>
    /\ UNCHANGED <<resident, objlock, pagelock, panicked>>

vm_page_xunbusy_hard(t) ==
    /\ pc[t] = "xhard" /\ LockPage(t) /\ Goto(t, "xstore")
    /\ UNCHANGED <<busy, resident, objlock, hold, panicked>>

\* vm_page_xunbusy_locked.
xunbusy_store(t) ==
    /\ pc[t] = "xstore" /\ busy' = VPB_UNBUSIED /\ Holds(t, "none") /\ Goto(t, "xwake")
    /\ UNCHANGED <<resident, objlock, pagelock, panicked>>

UnlockAndWake(t, from, to) ==
    /\ pc[t] = from /\ Wakeup(t, to) /\ pagelock' = NoThread
    /\ UNCHANGED <<busy, resident, objlock, hold, panicked>>

xunbusy_wakeup(t) == UnlockAndWake(t, "xwake", "idle")

-----------------------------------------------------------------------------
(* vm_page_busy_downgrade: the page is locked while there are waiters.     *)

Downgrade(t) ==
    /\ pc[t] = "have" /\ hold[t] = "excl" /\ Goto(t, "downgrade")
    /\ UNCHANGED <<busy, resident, objlock, pagelock, hold, panicked>>

vm_page_busy_downgrade(t) ==
    /\ pc[t] = "downgrade" /\ Load(t, IF busy.waiters THEN "downgrade_lock" ELSE "downgrade_cas")
    /\ UNCHANGED <<busy, resident, objlock, pagelock, hold, panicked>>

downgrade_lock(t) ==
    /\ pc[t] = "downgrade_lock" /\ LockPage(t)
    /\ pc' = [pc EXCEPT ![t] = "downgrade_cas"]
    /\ UNCHANGED <<busy, resident, objlock, x, req, hold, panicked>>

\* Mutant: a waiter that came since the read is dropped with the old word.
downgrade_cas_store(t) ==
    /\ pc[t] = "downgrade_cas"
    /\ busy' = VPB_SHARERS_WORD(1) /\ Holds(t, "shared")
    /\ Goto(t, IF x[t].waiters THEN "downgrade_wake" ELSE "have")
    /\ UNCHANGED <<resident, objlock, pagelock, panicked>>

downgrade_cas(t) ==
    /\ pc[t] = "downgrade_cas"
    /\ IF busy = x[t]
       THEN /\ busy' = VPB_SHARERS_WORD(1) /\ Holds(t, "shared")
            /\ Goto(t, IF x[t].waiters THEN "downgrade_wake" ELSE "have")
            /\ UNCHANGED pagelock
       ELSE /\ Goto(t, "downgrade") /\ UNCHANGED <<busy, hold>>
            /\ pagelock' = IF pagelock = t THEN NoThread ELSE pagelock
    /\ UNCHANGED <<resident, objlock, panicked>>

downgrade_wakeup(t) == UnlockAndWake(t, "downgrade_wake", "have")

-----------------------------------------------------------------------------
(* vm_page_sunbusy.                                                        *)

Sunbusy(t) ==
    /\ pc[t] = "have" /\ hold[t] = "shared" /\ Goto(t, "sunbusy")
    /\ UNCHANGED <<busy, resident, objlock, pagelock, hold, panicked>>

vm_page_sunbusy(t) ==
    /\ pc[t] = "sunbusy"
    /\ Load(t, IF busy.sharers > 1 \/ ~busy.waiters THEN "sunbusy_cas" ELSE "sunbusy_lock")
    /\ UNCHANGED <<busy, resident, objlock, pagelock, hold, panicked>>

\* One sharer less; the last one leaves VPB_UNBUSIED, which has no waiters.
sunbusy_cas(t) ==
    /\ pc[t] = "sunbusy_cas"
    /\ IF busy = x[t]
       THEN busy' = [busy EXCEPT !.sharers = @ - 1] /\ Holds(t, "none") /\ Goto(t, "idle")
       ELSE Goto(t, "sunbusy") /\ UNCHANGED <<busy, hold>>
    /\ UNCHANGED <<resident, objlock, pagelock, panicked>>

sunbusy_lock(t) ==
    /\ pc[t] = "sunbusy_lock" /\ LockPage(t)
    /\ pc' = [pc EXCEPT ![t] = "sunbusy_cas_locked"]
    /\ UNCHANGED <<busy, resident, objlock, x, req, hold, panicked>>

sunbusy_cas_locked(t) ==
    /\ pc[t] = "sunbusy_cas_locked"
    /\ IF busy = x[t]
       THEN busy' = VPB_UNBUSIED /\ Holds(t, "none") /\ Goto(t, "sunbusy_wake") /\ UNCHANGED pagelock
       ELSE Goto(t, "sunbusy") /\ pagelock' = NoThread /\ UNCHANGED <<busy, hold>>
    /\ UNCHANGED <<resident, objlock, panicked>>

sunbusy_wakeup(t) == UnlockAndWake(t, "sunbusy_wake", "idle")

-----------------------------------------------------------------------------
(* vm_page_free of a page that the thread has exclusively, and             *)
(* vm_page_try_to_free of one it does not have.                            *)

Free(t) ==
    /\ pc[t] = "idle" \/ (pc[t] = "have" /\ hold[t] = "excl")
    /\ Goto(t, "free_obj")
    /\ UNCHANGED <<busy, resident, objlock, pagelock, hold, panicked>>

free_lock_object(t) ==
    /\ pc[t] = "free_obj" /\ LockObject(t)
    /\ IF resident THEN Goto(t, "free_page") ELSE Goto(t, "free")
    /\ UNCHANGED <<busy, resident, pagelock, hold, panicked>>

free_lock_page(t) ==
    /\ pc[t] = "free_page" /\ LockPage(t) /\ Goto(t, "free")
    /\ UNCHANGED <<busy, resident, objlock, hold, panicked>>

\* vm_page_free_prep and vm_page_remove, with vm_page_xunbusy_maybelocked for a page
\* that is exclusively busy.
vm_page_free(t) ==
    /\ pc[t] = "free"
    /\ IF ~resident \/ (hold[t] = "none" /\ vm_page_busied)
       THEN /\ Goto(t, "idle") /\ objlock' = NoThread
            /\ pagelock' = IF pagelock = t THEN NoThread ELSE pagelock
            /\ UNCHANGED <<busy, resident, hold, panicked>>
       ELSE IF vm_page_sbusied
       THEN panicked' = TRUE /\ UNCHANGED <<busy, resident, objlock, pagelock, threadVars, hold>>
       ELSE IF busy.waiters
       THEN Goto(t, "free_store") /\ UNCHANGED <<busy, resident, objlock, pagelock, hold, panicked>>
       ELSE /\ busy' = VPB_UNBUSIED /\ resident' = FALSE /\ Holds(t, "none") /\ Goto(t, "idle")
            /\ objlock' = NoThread /\ pagelock' = NoThread /\ UNCHANGED panicked

free_store(t) ==
    /\ pc[t] = "free_store" /\ busy' = VPB_UNBUSIED /\ Holds(t, "none") /\ Goto(t, "free_wake")
    /\ UNCHANGED <<resident, objlock, pagelock, panicked>>

free_wakeup(t) ==
    /\ pc[t] = "free_wake" /\ Wakeup(t, "idle")
    /\ resident' = FALSE /\ objlock' = NoThread /\ pagelock' = NoThread
    /\ UNCHANGED <<busy, hold, panicked>>

-----------------------------------------------------------------------------
(* vm_page_flash: wakes the sleepers, who will sleep again.                *)

Flash(t) ==
    /\ pc[t] = "idle" /\ LockPage(t) /\ Goto(t, "flash")
    /\ UNCHANGED <<busy, resident, objlock, hold, panicked>>

vm_page_flash(t) ==
    /\ pc[t] = "flash"
    /\ IF busy.waiters THEN Load(t, "flash_cas") /\ UNCHANGED pagelock
       ELSE Goto(t, "idle") /\ pagelock' = NoThread
    /\ UNCHANGED <<busy, resident, objlock, hold, panicked>>

flash_cas(t) ==
    /\ pc[t] = "flash_cas"
    /\ IF busy = x[t] THEN busy' = [busy EXCEPT !.waiters = FALSE] /\ Goto(t, "flash_wake")
       ELSE Goto(t, "flash") /\ UNCHANGED busy
    /\ UNCHANGED <<resident, objlock, pagelock, hold, panicked>>

flash_wakeup(t) == UnlockAndWake(t, "flash_wake", "idle")

-----------------------------------------------------------------------------
\* What a thread has begun.
Continue(t) ==
    \/ Relock(t) \/ vm_page_alloc_after(t) \/ GrabBusy(t) \/ GrabFree(t)
    \/ vm_page_xbusy(t) \/ vm_page_trysbusy(t) \/ trysbusy_cas(t)
    \/ vm_page_busy_sleep(t) \/ busy_sleep_cas(t)
    \/ vm_page_xunbusy_hard(t) \/ xunbusy_store(t) \/ xunbusy_wakeup(t)
    \/ vm_page_busy_downgrade(t) \/ downgrade_lock(t) \/ downgrade_cas(t) \/ downgrade_wakeup(t)
    \/ vm_page_sunbusy(t) \/ sunbusy_cas(t) \/ sunbusy_lock(t) \/ sunbusy_cas_locked(t)
    \/ sunbusy_wakeup(t)
    \/ free_lock_object(t) \/ free_lock_page(t) \/ vm_page_free(t) \/ free_store(t) \/ free_wakeup(t)
    \/ vm_page_flash(t) \/ flash_cas(t) \/ flash_wakeup(t)

\* A thread gives up the page it has busied.
GiveUp(t) == vm_page_xunbusy(t) \/ Sunbusy(t)

Step(t) ==
    /\ ~panicked
    /\ \/ Continue(t) \/ GiveUp(t) \/ Downgrade(t) \/ Free(t) \/ Flash(t)
       \/ \E r \in Request : Grab(t, r)

Next == \E t \in Thread : Step(t)

Spec == Init /\ [][Next]_vars

\* A thread goes on with what it has begun, gets a lock that is free again and again,
\* and gives up a page that it has busied.
FairSpec == Spec /\ \A t \in Thread : SF_vars(~panicked /\ Continue(t)) /\ WF_vars(~panicked /\ GiveUp(t))

-----------------------------------------------------------------------------
(* Properties.                                                             *)

Sharers == {t \in Thread : hold[t] = "shared"}
Owners  == {t \in Thread : hold[t] = "excl"}

\* The word counts exactly those who have the page: an exclusive owner is alone, no
\* sharer is lost or counted twice by a compare-and-set that works on an old copy, and
\* nobody has a page that was freed (vm_page_trysbusy, vm_page_sunbusy,
\* vm_page_busy_downgrade, vm_page_remove).
BusyWordCountsHolders ==
    /\ TypeOK
    /\ Owners # {} => Cardinality(Owners) = 1 /\ Sharers = {}
    /\ busy.excl <=> Owners # {}
    /\ busy.sharers = Cardinality(Sharers)
    /\ ~resident => ~vm_page_busied

\* A thread asleep on the page is not forgotten: the waiters bit is set, so that who
\* gives the page up will see it, or a thread that cleared the bit is about to call
\* wakeup (vm_page_busy_sleep against each way to give the page up).
SleepersAreSeen ==
    Sleepers # {} =>
        \/ busy.waiters
        \/ \E t \in Thread : pc[t] \in {"xwake", "downgrade_wake", "sunbusy_wake", "free_wake", "flash_wake"}

\* vm_page_xbusy and vm_page_sbusy, called some time after vm_page_grab looked at the
\* word, never find the page taken, and nobody frees a page that others share.
BusyingSucceeds == ~panicked

\* A sleeper wakes up, if the page does not stay shared by ever new threads:
\* vm_page_trysbusy does not look at the waiters bit.
SleepersWake == []<>(busy.sharers = 0) => \A t \in Thread : pc[t] = "asleep" ~> pc[t] # "asleep"
=============================================================================
