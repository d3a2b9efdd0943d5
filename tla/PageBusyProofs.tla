--------------------------- MODULE PageBusyProofs ---------------------------
(***************************************************************************)
(* Proof that the busy word of a page counts its holders, loses no sleeper *)
(* and is never taken twice, for any number of threads.                    *)
(***************************************************************************)
EXTENDS PageBusy, FiniteSetTheorems, TLAPS

\* Where a thread owns the lock of the object, and that of the page.
ObjectLabel == {"lookup", "xbusy", "trysbusy", "trysbusy_cas", "free_page", "free", "free_store",
                "free_wake"}
PageLabel == {"locked", "sleep_cas", "xstore", "xwake", "downgrade_wake", "sunbusy_cas_locked",
              "sunbusy_wake", "free_store", "free_wake", "flash", "flash_cas", "flash_wake"}
OwnsPage(t) ==
    \/ pc[t] \in PageLabel
    \/ pc[t] = "downgrade_cas" /\ x[t].waiters
    \/ pc[t] = "free" /\ resident

\* A lock is owned exactly between lock and unlock.
LockInv == \A t \in Thread :
    /\ objlock = t <=> pc[t] \in ObjectLabel
    /\ pagelock = t <=> OwnsPage(t)

\* Where a thread has the page, and how.
HoldInv == \A t \in Thread :
    /\ hold[t] = "excl" =>
         pc[t] \in {"have", "xhard", "xstore", "downgrade", "downgrade_lock", "downgrade_cas",
                    "free_obj", "free_page", "free", "free_store"}
    /\ hold[t] = "shared" =>
         pc[t] \in {"have", "downgrade_wake", "sunbusy", "sunbusy_cas", "sunbusy_lock",
                    "sunbusy_cas_locked"}
    /\ hold[t] = "none" =>
         pc[t] \notin {"have", "xhard", "xstore", "downgrade", "downgrade_lock", "downgrade_cas",
                       "downgrade_wake", "sunbusy", "sunbusy_cas", "sunbusy_lock",
                       "sunbusy_cas_locked", "free_store"}

\* The fields of a word that is VPB_UNBUSIED.
Unbusied(w) == ~w.excl /\ w.sharers = 0 /\ ~w.waiters

\* What a thread that owns the lock of the object relies on: nobody else busies the page.
LookInv == \A t \in Thread :
    /\ pc[t] \in {"xbusy", "free_wake"} => Unbusied(busy)
    /\ pc[t] \in {"trysbusy", "trysbusy_cas"} => ~busy.excl
    /\ pc[t] \in {"xbusy", "trysbusy", "trysbusy_cas", "free_page", "free_store", "free_wake"} => resident

\* What a thread knows from the copy of the word that it will compare.
CopyInv == \A t \in Thread :
    /\ pc[t] = "sleep_cas" => ~Unbusied(x[t])
    /\ pc[t] = "downgrade_lock" => x[t].waiters
    /\ pc[t] = "sunbusy_cas" => x[t].sharers > 1 \/ ~x[t].waiters
    /\ pc[t] \in {"sunbusy_lock", "sunbusy_cas_locked"} => x[t].waiters /\ x[t].sharers <= 1

\* BusyWordCountsHolders, thread by thread, and that only a busy page has waiters.
Counts ==
    /\ \A s, t \in Thread : hold[s] = "excl" /\ hold[t] # "none" => s = t
    /\ busy.excl <=> \E t \in Thread : hold[t] = "excl"
    /\ busy.sharers = Cardinality(Sharers)
    /\ busy.waiters => busy.excl \/ busy.sharers > 0
    /\ ~resident => Unbusied(busy)

\* SleepersAreSeen, thread by thread.
Waker == {"xwake", "downgrade_wake", "sunbusy_wake", "free_wake", "flash_wake"}
Seen == \A s \in Thread : pc[s] = "asleep" => busy.waiters \/ \E t \in Thread : pc[t] \in Waker

\* The inductive invariant.
IInv ==
    /\ TypeOK /\ ~panicked
    /\ LockInv /\ HoldInv /\ LookInv /\ CopyInv /\ Counts /\ Seen

-----------------------------------------------------------------------------
(* Words and the set of sharers.                                           *)

\* The constants of vm_page.h are words, with these fields.
LEMMA Words ==
    /\ \A w \in Word : w.excl \in BOOLEAN /\ w.waiters \in BOOLEAN /\ w.sharers \in Nat
    /\ \A w \in Word : w = VPB_UNBUSIED <=> Unbusied(w)
    /\ VPB_UNBUSIED \in Word /\ Unbusied(VPB_UNBUSIED)
    /\ VPB_SINGLE_EXCLUSIVER \in Word /\ VPB_SINGLE_EXCLUSIVER.excl
    /\ VPB_SINGLE_EXCLUSIVER.sharers = 0 /\ ~VPB_SINGLE_EXCLUSIVER.waiters
    /\ \A n : ~VPB_SHARERS_WORD(n).excl /\ VPB_SHARERS_WORD(n).sharers = n /\ ~VPB_SHARERS_WORD(n).waiters
    /\ Thread # {} => VPB_SHARERS_WORD(1) \in Word
<1>1. Cardinality(Thread) \in Nat /\ (Thread # {} => Cardinality(Thread) > 0)
  BY FS_CardinalityType, FS_EmptySet, BusyAssumption
<1>2. QED  BY <1>1 DEF Word, VPB_UNBUSIED, VPB_SINGLE_EXCLUSIVER, VPB_SHARERS_WORD, Unbusied

\* The sharers are finitely many, at most all threads.
LEMMA SharersFinite ==
    /\ IsFiniteSet(Sharers) /\ Cardinality(Sharers) \in Nat
    /\ Cardinality(Sharers) <= Cardinality(Thread) /\ Cardinality(Thread) \in Nat
    /\ Cardinality(Sharers) = 0 <=> Sharers = {}
<1>1. Sharers \in SUBSET Thread  BY DEF Sharers
<1>2. QED  BY <1>1, BusyAssumption, FS_Subset, FS_CardinalityType, FS_EmptySet

\* A thread that did not share the page shares it now.
LEMMA OneMore ==
    ASSUME TypeOK, NEW t \in Thread, hold[t] # "shared", Holds(t, "shared")
    PROVE  Cardinality(Sharers') = Cardinality(Sharers) + 1 /\ Cardinality(Sharers') <= Cardinality(Thread)
<1>1. Sharers' = Sharers \cup {t} /\ t \notin Sharers  BY DEF TypeOK, Sharers, Holds
<1>2. Sharers' \in SUBSET Thread  BY DEF Sharers
<1>3. QED  BY <1>1, <1>2, FS_AddElement, FS_Subset, SharersFinite, BusyAssumption

\* A thread that shared the page has given it up.
LEMMA OneLess ==
    ASSUME TypeOK, NEW t \in Thread, hold[t] = "shared", Holds(t, "none")
    PROVE  Cardinality(Sharers') = Cardinality(Sharers) - 1 /\ Cardinality(Sharers) >= 1
<1>1. Sharers' = Sharers \ {t} /\ t \in Sharers  BY DEF TypeOK, Sharers, Holds
<1>2. Cardinality(Sharers) # 0  BY <1>1, SharersFinite
<1>3. QED  BY <1>1, <1>2, FS_RemoveElement, SharersFinite

\* The sharers stay the same when a thread takes or gives up the page exclusively.
LEMMA SameSharers ==
    ASSUME TypeOK, NEW t \in Thread, NEW h \in {"none", "excl"}, hold[t] # "shared", Holds(t, h)
    PROVE  Sharers' = Sharers
BY DEF TypeOK, Sharers, Holds

\* The number of sharers is zero exactly if there is none.
LEMMA NoSharers == ASSUME Counts PROVE busy.sharers = 0 <=> \A t \in Thread : hold[t] # "shared"
BY SharersFinite DEF Counts, Sharers

-----------------------------------------------------------------------------
(* The control state of the threads is typed after each kind of step.      *)

\* The parts of TypeOK about the threads.
ThreadsTyped == pc \in [Thread -> Label] /\ x \in [Thread -> Word] /\ req \in [Thread -> Request]

\* A step to a label.
LEMMA GotoTyped ==
    ASSUME TypeOK, NEW t \in Thread, NEW l \in Label, Goto(t, l) PROVE ThreadsTyped'
BY Words DEF TypeOK, ThreadsTyped, Goto

\* A step that takes a copy of the word.
LEMMA LoadTyped ==
    ASSUME TypeOK, NEW t \in Thread, NEW l \in Label, Load(t, l) PROVE ThreadsTyped'
BY DEF TypeOK, ThreadsTyped, Load

\* A step that wakes the sleepers.
LEMMA WakeupTyped ==
    ASSUME TypeOK, NEW t \in Thread, NEW l \in Label, Wakeup(t, l) PROVE ThreadsTyped'
<1>1. "relock" \in Label  BY DEF Label
<1>2. QED  BY <1>1, Words DEF TypeOK, ThreadsTyped, Wakeup

-----------------------------------------------------------------------------
(* One lemma per action.                                                   *)

\* A request begins with the lock of the object.
LEMMA GrabKeeps == ASSUME IInv, NEW t \in Thread, NEW r \in Request, Grab(t, r) PROVE IInv'
<1> USE BusyAssumption DEF IInv, Grab
<1>1. TypeOK'
  <2>1. {"idle", "lookup"} \subseteq Label  BY DEF Label
  <2>2. QED  BY <2>1 DEF TypeOK, ThreadsTyped, LockObject
<1>2. LockInv'  BY DEF TypeOK, LockInv, ObjectLabel, PageLabel, OwnsPage, LockObject
<1>3. HoldInv'  BY DEF TypeOK, HoldInv, LockObject
<1>4. LookInv'  BY DEF TypeOK, LookInv, LockInv, ObjectLabel, LockObject
<1>5. CopyInv'  BY DEF TypeOK, CopyInv, LockObject
<1>6. Counts'  BY DEF Counts, Sharers
<1>7. Seen'  BY DEF TypeOK, Seen, Waker, LockObject
<1>8. QED  BY <1>1, <1>2, <1>3, <1>4, <1>5, <1>6, <1>7

\* After its sleep a thread locks the object and looks the page up again.
LEMMA RelockKeeps == ASSUME IInv, NEW t \in Thread, Relock(t) PROVE IInv'
<1> USE BusyAssumption DEF IInv, Relock
<1>1. TypeOK'
  <2>1. {"relock", "lookup"} \subseteq Label  BY DEF Label
  <2>2. QED  BY <2>1, GotoTyped DEF TypeOK, ThreadsTyped, Goto, LockObject
<1>2. LockInv'  BY DEF TypeOK, LockInv, ObjectLabel, PageLabel, OwnsPage, Goto, LockObject
<1>3. HoldInv'  BY DEF TypeOK, HoldInv, Goto, LockObject
<1>4. LookInv'  BY DEF TypeOK, LookInv, LockInv, ObjectLabel, Goto, LockObject
<1>5. CopyInv'  BY DEF TypeOK, CopyInv, Goto, LockObject
<1>6. Counts'  BY DEF Counts, Sharers
<1>7. Seen'  BY DEF TypeOK, Seen, Waker, Goto, LockObject
<1>8. QED  BY <1>1, <1>2, <1>3, <1>4, <1>5, <1>6, <1>7

\* The new word counts the thread that allocates, and nobody else had the page.
LEMMA vm_page_alloc_afterKeeps == ASSUME IInv, NEW t \in Thread, vm_page_alloc_after(t) PROVE IInv'
<1> USE BusyAssumption DEF IInv, vm_page_alloc_after
<1>1. Unbusied(busy) /\ \A s \in Thread : hold[s] = "none"
  BY NoSharers DEF Unbusied, Counts, TypeOK
<1>2. /\ busy' \in Word /\ ~busy'.waiters /\ (busy'.excl <=> req[t] = "excl")
      /\ busy'.sharers = IF req[t] = "shared" THEN 1 ELSE 0
  BY Words DEF Unbusied, TypeOK, Request
<1>3. \A s \in Thread : hold'[s] = IF s = t /\ req[t] # "nobusy" THEN req[t] ELSE "none"
  BY <1>1 DEF Holds, TypeOK
<1>4. Goto(t, IF req[t] = "nobusy" THEN "idle" ELSE "have")  OBVIOUS
<1>5. TypeOK'
  <2>1. {"idle", "have"} \subseteq Label  BY DEF Label
  <2>2. hold' \in [Thread -> {"none", "excl", "shared"}]  BY DEF TypeOK, Request, Holds
  <2>3. QED  BY <1>2, <1>4, <2>1, <2>2, GotoTyped DEF TypeOK, ThreadsTyped
<1>6. LockInv'  BY <1>4 DEF TypeOK, LockInv, ObjectLabel, PageLabel, OwnsPage, Goto, Holds
<1>7. HoldInv'  BY <1>1, <1>3, <1>4 DEF TypeOK, HoldInv, Goto, Request
<1>8. LookInv'  BY <1>4 DEF TypeOK, LookInv, LockInv, ObjectLabel, Goto, Holds
<1>9. CopyInv'  BY <1>4 DEF TypeOK, CopyInv, Goto, Holds
<1>10. Counts'
  <2>1. Sharers' = IF req[t] = "shared" THEN {t} ELSE {}  BY <1>3 DEF Sharers
  <2>2. Cardinality(Sharers') = IF req[t] = "shared" THEN 1 ELSE 0  BY <2>1, FS_EmptySet, FS_Singleton
  <2>3. QED  BY <1>2, <1>3, <2>2 DEF Counts, TypeOK, Request
<1>11. Seen'  BY <1>1, <1>4 DEF TypeOK, Seen, Waker, Goto, Unbusied
<1>12. QED  BY <1>5, <1>6, <1>7, <1>8, <1>9, <1>10, <1>11

\* A busy page: the thread goes away, or locks the page before it unlocks the object.
LEMMA GrabBusyKeeps == ASSUME IInv, NEW t \in Thread, GrabBusy(t) PROVE IInv'
<1> USE BusyAssumption DEF IInv, GrabBusy
<1>1. TypeOK'
  <2>1. {"lookup", "idle", "locked"} \subseteq Label  BY DEF Label
  <2>2. QED  BY <2>1, GotoTyped DEF TypeOK, ThreadsTyped, Goto, LockPage
<1>2. LockInv'  BY DEF TypeOK, LockInv, ObjectLabel, PageLabel, OwnsPage, Goto, LockPage
<1>3. HoldInv'  BY DEF TypeOK, HoldInv, Goto, LockPage
<1>4. LookInv'  BY DEF TypeOK, LookInv, LockInv, ObjectLabel, Goto, LockPage
<1>5. CopyInv'  BY DEF TypeOK, CopyInv, Goto, LockPage
<1>6. Counts'  BY DEF Counts, Sharers
<1>7. Seen'  BY DEF TypeOK, Seen, Waker, Goto, LockPage
<1>8. QED  BY <1>1, <1>2, <1>3, <1>4, <1>5, <1>6, <1>7

\* A page found free stays so, for the thread keeps the lock of the object.
LEMMA GrabFreeKeeps == ASSUME IInv, NEW t \in Thread, GrabFree(t) PROVE IInv'
<1> USE BusyAssumption DEF IInv, GrabFree
<1>1. TypeOK'
  <2>1. {"lookup", "xbusy", "trysbusy", "idle"} \subseteq Label  BY DEF Label
  <2>2. QED  BY <2>1, GotoTyped DEF TypeOK, ThreadsTyped, Goto
<1>2. LockInv'  BY DEF TypeOK, LockInv, ObjectLabel, PageLabel, OwnsPage, Goto
<1>3. HoldInv'  BY DEF TypeOK, HoldInv, Goto
<1>4. LookInv'
  BY Words DEF TypeOK, LookInv, LockInv, ObjectLabel, Goto, MustSleep, vm_page_busied, vm_page_xbusied
<1>5. CopyInv'  BY DEF TypeOK, CopyInv, Goto
<1>6. Counts'  BY DEF Counts, Sharers
<1>7. Seen'  BY DEF TypeOK, Seen, Waker, Goto
<1>8. QED  BY <1>1, <1>2, <1>3, <1>4, <1>5, <1>6, <1>7

\* The page is still unbusied, so that its only holder is the thread.
LEMMA vm_page_xbusyKeeps == ASSUME IInv, NEW t \in Thread, vm_page_xbusy(t) PROVE IInv'
<1> USE BusyAssumption DEF IInv, vm_page_xbusy
<1>1. Unbusied(busy) /\ busy = VPB_UNBUSIED /\ busy' = VPB_SINGLE_EXCLUSIVER /\ UNCHANGED panicked
  BY Words DEF LookInv, TypeOK
<1>2. \A s \in Thread : hold[s] = "none"  BY <1>1, NoSharers DEF Unbusied, Counts, TypeOK
<1>3. busy' \in Word /\ busy'.excl /\ busy'.sharers = 0 /\ ~busy'.waiters  BY <1>1, Words
<1>4. Holds(t, "excl") /\ Goto(t, "have")  BY <1>1
<1>5. TypeOK'
  <2>1. {"xbusy", "have", "idle"} \subseteq Label  BY DEF Label
  <2>2. QED  BY <2>1, GotoTyped, <1>3, <1>4 DEF TypeOK, ThreadsTyped, Goto, Holds
<1>6. LockInv'  BY DEF TypeOK, LockInv, ObjectLabel, PageLabel, OwnsPage, Goto, Holds
<1>7. HoldInv'  BY <1>2, <1>4 DEF TypeOK, HoldInv, Goto, Holds
<1>8. LookInv'  BY <1>1, <1>3, <1>4 DEF TypeOK, LookInv, LockInv, ObjectLabel, Goto, Holds
<1>9. CopyInv'  BY DEF TypeOK, CopyInv, Goto, Holds
<1>10. Counts'
  <2>1. Sharers' = Sharers  BY <1>2, <1>4, SameSharers
  <2>2. QED  BY <1>1, <1>2, <1>3, <1>4, <2>1 DEF Counts, Unbusied, TypeOK, LookInv, Holds
<1>11. Seen'  BY <1>1, <1>4 DEF TypeOK, Seen, Waker, Goto, Unbusied
<1>12. QED  BY <1>1, <1>5, <1>6, <1>7, <1>8, <1>9, <1>10, <1>11

\* The page is not exclusively busy: the copy is taken.
LEMMA vm_page_trysbusyKeeps == ASSUME IInv, NEW t \in Thread, vm_page_trysbusy(t) PROVE IInv'
<1> USE BusyAssumption DEF IInv, vm_page_trysbusy
<1>1. TypeOK'
  <2>1. {"trysbusy", "idle", "trysbusy_cas"} \subseteq Label  BY DEF Label
  <2>2. QED  BY <2>1, GotoTyped, LoadTyped DEF TypeOK, ThreadsTyped, Goto, Load
<1>2. LockInv'  BY DEF TypeOK, LockInv, ObjectLabel, PageLabel, OwnsPage, Goto, Load
<1>3. HoldInv'  BY DEF TypeOK, HoldInv, Goto, Load
<1>4. LookInv'  BY DEF TypeOK, LookInv, LockInv, ObjectLabel, Goto, Load
<1>5. CopyInv'  BY DEF TypeOK, CopyInv, Goto, Load
<1>6. Counts'  BY DEF Counts, Sharers
<1>7. Seen'  BY DEF TypeOK, Seen, Waker, Goto, Load
<1>8. ~busy.excl  BY DEF LookInv
<1>9. QED  BY <1>1, <1>2, <1>3, <1>4, <1>5, <1>6, <1>7, <1>8

\* One sharer more, or a new attempt.
LEMMA trysbusy_casKeeps == ASSUME IInv, NEW t \in Thread, trysbusy_cas(t) PROVE IInv'
<1> USE BusyAssumption DEF IInv, trysbusy_cas
<1>1. hold[t] = "none" /\ ~busy.excl /\ resident  BY DEF HoldInv, LookInv, TypeOK
<1>2. busy = x[t] => Cardinality(Sharers') = Cardinality(Sharers) + 1 /\ Cardinality(Sharers') <= Cardinality(Thread)
  BY <1>1, OneMore
<1>3. /\ busy' \in Word /\ ~busy'.excl /\ busy'.waiters = busy.waiters
      /\ busy'.sharers = IF busy = x[t] THEN busy.sharers + 1 ELSE busy.sharers
  BY <1>1, <1>2, Words, SharersFinite DEF TypeOK, Word, Counts
<1>4. TypeOK'
  <2>1. {"trysbusy_cas", "have", "trysbusy"} \subseteq Label  BY DEF Label
  <2>2. QED  BY <2>1, GotoTyped, <1>3 DEF TypeOK, ThreadsTyped, Goto, Holds
<1>5. LockInv'  BY DEF TypeOK, LockInv, ObjectLabel, PageLabel, OwnsPage, Goto, Holds
<1>6. HoldInv'  BY <1>1 DEF TypeOK, HoldInv, Goto, Holds
<1>7. LookInv'  BY <1>1, <1>3 DEF TypeOK, LookInv, LockInv, ObjectLabel, Goto, Holds
<1>8. CopyInv'  BY DEF TypeOK, CopyInv, Goto, Holds
<1>9. Counts'
  <2>1. Cardinality(Sharers') = busy'.sharers  BY <1>2, <1>3 DEF Counts, Sharers
  <2>2. QED  BY <1>1, <1>3, <2>1, Words DEF Counts, TypeOK, Holds
<1>10. Seen'  BY <1>3 DEF TypeOK, Seen, Waker, Goto, Holds
<1>11. QED  BY <1>4, <1>5, <1>6, <1>7, <1>8, <1>9, <1>10

\* The thread sleeps only if the waiters bit is set; a copy taken here is a busy word.
LEMMA vm_page_busy_sleepKeeps == ASSUME IInv, NEW t \in Thread, vm_page_busy_sleep(t) PROVE IInv'
<1> USE BusyAssumption DEF IInv, vm_page_busy_sleep
<1>1. TypeOK'
  <2>1. {"locked", "relock", "asleep", "sleep_cas"} \subseteq Label  BY DEF Label
  <2>2. QED  BY <2>1, GotoTyped, LoadTyped DEF TypeOK, ThreadsTyped, Goto, Load
<1>2. LockInv'  BY DEF TypeOK, LockInv, ObjectLabel, PageLabel, OwnsPage, Goto, Load
<1>3. HoldInv'  BY DEF TypeOK, HoldInv, Goto, Load
<1>4. LookInv'  BY DEF TypeOK, LookInv, LockInv, ObjectLabel, Goto, Load
<1>5. CopyInv'  BY Words DEF TypeOK, CopyInv, Goto, Load
<1>6. Counts'  BY DEF Counts, Sharers
<1>7. Seen'  BY DEF TypeOK, Seen, Waker, Goto, Load
<1>8. QED  BY <1>1, <1>2, <1>3, <1>4, <1>5, <1>6, <1>7

\* The waiters bit is set on a busy word, and the sleeper is seen.
LEMMA busy_sleep_casKeeps == ASSUME IInv, NEW t \in Thread, busy_sleep_cas(t) PROVE IInv'
<1> USE BusyAssumption DEF IInv, busy_sleep_cas
<1>1. /\ busy' \in Word /\ busy'.excl = busy.excl /\ busy'.sharers = busy.sharers
      /\ busy'.waiters = (busy.waiters \/ busy = x[t])
  BY Words DEF TypeOK, Word
<1>2. busy = x[t] => ~Unbusied(busy)  BY DEF CopyInv
<1>3. Unbusied(busy) => busy' = busy  BY <1>2
<1>4. TypeOK'
  <2>1. {"sleep_cas", "asleep", "relock"} \subseteq Label  BY DEF Label
  <2>2. QED  BY <2>1, GotoTyped, <1>1 DEF TypeOK, ThreadsTyped, Goto
<1>5. LockInv'  BY DEF TypeOK, LockInv, ObjectLabel, PageLabel, OwnsPage, Goto
<1>6. HoldInv'  BY DEF TypeOK, HoldInv, Goto
<1>7. LookInv'  BY <1>1, <1>3 DEF TypeOK, LookInv, LockInv, ObjectLabel, Goto
<1>8. CopyInv'  BY DEF TypeOK, CopyInv, Goto
<1>9. Counts'  BY <1>1, <1>2, Words DEF Counts, Sharers, Unbusied, TypeOK
<1>10. Seen'  BY <1>1 DEF TypeOK, Seen, Waker, Goto
<1>11. QED  BY <1>4, <1>5, <1>6, <1>7, <1>8, <1>9, <1>10

\* The fast path finds no waiters, hence leaves no sleeper without a waker.
LEMMA vm_page_xunbusyKeeps == ASSUME IInv, NEW t \in Thread, vm_page_xunbusy(t) PROVE IInv'
<1> USE BusyAssumption DEF IInv, vm_page_xunbusy
<1>1. busy.excl /\ \A s \in Thread : s # t => hold[s] = "none"  BY DEF Counts, TypeOK
<1>2. /\ busy' \in Word
      /\ IF busy = VPB_SINGLE_EXCLUSIVER THEN Unbusied(busy') /\ ~busy.waiters ELSE busy' = busy
  BY Words DEF TypeOK
<1>3. TypeOK'
  <2>1. {"have", "idle", "xhard"} \subseteq Label  BY DEF Label
  <2>2. QED  BY <2>1, GotoTyped, <1>2 DEF TypeOK, ThreadsTyped, Goto, Holds
<1>4. LockInv'  BY DEF TypeOK, LockInv, ObjectLabel, PageLabel, OwnsPage, Goto, Holds
<1>5. HoldInv'  BY <1>1 DEF TypeOK, HoldInv, Goto, Holds
<1>6. LookInv'  BY <1>1, <1>2 DEF TypeOK, LookInv, Unbusied, Goto
<1>7. CopyInv'  BY DEF TypeOK, CopyInv, Goto, Holds
<1>8. Counts'
  <2>1. Sharers' = Sharers  BY SameSharers DEF Sharers
  <2>2. busy.sharers = 0  BY <1>1, NoSharers
  <2>3. QED  BY <1>1, <1>2, <2>1, <2>2 DEF Counts, Unbusied, Holds, TypeOK
<1>9. Seen'  BY <1>2 DEF TypeOK, Seen, Waker, Goto, Holds
<1>10. QED  BY <1>3, <1>4, <1>5, <1>6, <1>7, <1>8, <1>9

\* The slow path locks the page.
LEMMA vm_page_xunbusy_hardKeeps == ASSUME IInv, NEW t \in Thread, vm_page_xunbusy_hard(t) PROVE IInv'
<1> USE BusyAssumption DEF IInv, vm_page_xunbusy_hard
<1>1. TypeOK'
  <2>1. {"xhard", "xstore"} \subseteq Label  BY DEF Label
  <2>2. QED  BY <2>1, GotoTyped DEF TypeOK, ThreadsTyped, Goto, LockPage
<1>2. LockInv'  BY DEF TypeOK, LockInv, ObjectLabel, PageLabel, OwnsPage, Goto, LockPage
<1>3. HoldInv'  BY DEF TypeOK, HoldInv, Goto, LockPage
<1>4. LookInv'  BY DEF TypeOK, LookInv, LockInv, ObjectLabel, Goto, LockPage
<1>5. CopyInv'  BY DEF TypeOK, CopyInv, Goto, LockPage
<1>6. Counts'  BY DEF Counts, Sharers
<1>7. Seen'  BY DEF TypeOK, Seen, Waker, Goto, LockPage
<1>8. QED  BY <1>1, <1>2, <1>3, <1>4, <1>5, <1>6, <1>7

\* The store drops the waiters bit, and the thread becomes the waker.
LEMMA xunbusy_storeKeeps == ASSUME IInv, NEW t \in Thread, xunbusy_store(t) PROVE IInv'
<1> USE BusyAssumption DEF IInv, xunbusy_store
<1>1. hold[t] = "excl" /\ busy.excl /\ \A s \in Thread : s # t => hold[s] = "none"
  BY DEF Counts, TypeOK, HoldInv
<1>2. busy' \in Word /\ Unbusied(busy')  BY Words
<1>3. TypeOK'
  <2>1. {"xstore", "xwake"} \subseteq Label  BY DEF Label
  <2>2. QED  BY <2>1, GotoTyped, <1>2 DEF TypeOK, ThreadsTyped, Goto, Holds
<1>4. LockInv'  BY DEF TypeOK, LockInv, ObjectLabel, PageLabel, OwnsPage, Goto, Holds
<1>5. HoldInv'  BY <1>1 DEF TypeOK, HoldInv, Goto, Holds
<1>6. LookInv'  BY <1>1, <1>2 DEF TypeOK, LookInv, Unbusied, Goto
<1>7. CopyInv'  BY DEF TypeOK, CopyInv, Goto, Holds
<1>8. Counts'
  <2>1. Sharers' = Sharers  BY <1>1, SameSharers DEF Sharers
  <2>2. busy.sharers = 0  BY <1>1, NoSharers
  <2>3. QED  BY <1>1, <1>2, <2>1, <2>2 DEF Counts, Unbusied, Holds, TypeOK
<1>9. Seen'  BY <1>2 DEF TypeOK, Seen, Waker, Goto, Holds
<1>10. QED  BY <1>3, <1>4, <1>5, <1>6, <1>7, <1>8, <1>9

\* The wakeup leaves no thread asleep.
LEMMA xunbusy_wakeupKeeps == ASSUME IInv, NEW t \in Thread, xunbusy_wakeup(t) PROVE IInv'
<1> USE BusyAssumption DEF IInv, xunbusy_wakeup
<1>1. TypeOK'
  <2>1. {"xwake", "idle"} \subseteq Label  BY DEF Label
  <2>2. QED  BY <2>1, WakeupTyped DEF TypeOK, ThreadsTyped, UnlockAndWake, Wakeup, Sleepers
<1>2. LockInv'
  BY DEF TypeOK, LockInv, ObjectLabel, PageLabel, OwnsPage, UnlockAndWake, Wakeup, Sleepers
<1>3. HoldInv'  BY DEF TypeOK, HoldInv, UnlockAndWake, Wakeup, Sleepers
<1>4. LookInv'  BY DEF TypeOK, LookInv, LockInv, ObjectLabel, UnlockAndWake, Wakeup, Sleepers
<1>5. CopyInv'  BY DEF TypeOK, CopyInv, UnlockAndWake, Wakeup, Sleepers
<1>6. Counts'  BY DEF Counts, Sharers, UnlockAndWake
<1>7. Seen'  BY DEF TypeOK, Seen, Waker, UnlockAndWake, Wakeup, Sleepers
<1>8. QED  BY <1>1, <1>2, <1>3, <1>4, <1>5, <1>6, <1>7 DEF UnlockAndWake

\* An exclusive owner starts to downgrade.
LEMMA DowngradeKeeps == ASSUME IInv, NEW t \in Thread, Downgrade(t) PROVE IInv'
<1> USE BusyAssumption DEF IInv, Downgrade
<1>1. TypeOK'
  <2>1. {"have", "downgrade"} \subseteq Label  BY DEF Label
  <2>2. QED  BY <2>1, GotoTyped DEF TypeOK, ThreadsTyped, Goto
<1>2. LockInv'  BY DEF TypeOK, LockInv, ObjectLabel, PageLabel, OwnsPage, Goto
<1>3. HoldInv'  BY DEF TypeOK, HoldInv, Goto
<1>4. LookInv'  BY DEF TypeOK, LookInv, LockInv, ObjectLabel, Goto
<1>5. CopyInv'  BY DEF TypeOK, CopyInv, Goto
<1>6. Counts'  BY DEF Counts, Sharers
<1>7. Seen'  BY DEF TypeOK, Seen, Waker, Goto
<1>8. QED  BY <1>1, <1>2, <1>3, <1>4, <1>5, <1>6, <1>7

\* The copy tells whether the page is locked before the compare-and-set.
LEMMA vm_page_busy_downgradeKeeps == ASSUME IInv, NEW t \in Thread, vm_page_busy_downgrade(t) PROVE IInv'
<1> USE BusyAssumption DEF IInv, vm_page_busy_downgrade
<1>1. TypeOK'
  <2>1. {"downgrade", "downgrade_lock", "downgrade_cas"} \subseteq Label  BY DEF Label
  <2>2. QED  BY <2>1, LoadTyped DEF TypeOK, ThreadsTyped, Load
<1>2. LockInv'  BY DEF TypeOK, LockInv, ObjectLabel, PageLabel, OwnsPage, Load
<1>3. HoldInv'  BY DEF TypeOK, HoldInv, Load
<1>4. LookInv'  BY DEF TypeOK, LookInv, LockInv, ObjectLabel, Load
<1>5. CopyInv'  BY DEF TypeOK, CopyInv, Load
<1>6. Counts'  BY DEF Counts, Sharers
<1>7. Seen'  BY DEF TypeOK, Seen, Waker, Load
<1>8. QED  BY <1>1, <1>2, <1>3, <1>4, <1>5, <1>6, <1>7

\* The page is locked because the copy has waiters.
LEMMA downgrade_lockKeeps == ASSUME IInv, NEW t \in Thread, downgrade_lock(t) PROVE IInv'
<1> USE BusyAssumption DEF IInv, downgrade_lock
<1>1. TypeOK'
  <2>1. {"downgrade_lock", "downgrade_cas"} \subseteq Label  BY DEF Label
  <2>2. QED  BY <2>1 DEF TypeOK, ThreadsTyped, LockPage
<1>2. LockInv'  BY DEF TypeOK, LockInv, ObjectLabel, PageLabel, OwnsPage, CopyInv, LockPage
<1>3. HoldInv'  BY DEF TypeOK, HoldInv, LockPage
<1>4. LookInv'  BY DEF TypeOK, LookInv, LockInv, ObjectLabel, LockPage
<1>5. CopyInv'  BY DEF TypeOK, CopyInv, LockPage
<1>6. Counts'  BY DEF Counts, Sharers
<1>7. Seen'  BY DEF TypeOK, Seen, Waker, LockPage
<1>8. QED  BY <1>1, <1>2, <1>3, <1>4, <1>5, <1>6, <1>7

\* The exclusive owner becomes the one sharer; with waiters it is their waker.
LEMMA downgrade_casKeeps == ASSUME IInv, NEW t \in Thread, downgrade_cas(t) PROVE IInv'
<1> USE BusyAssumption DEF IInv, downgrade_cas
<1>1. hold[t] = "excl" /\ busy.excl /\ \A s \in Thread : s # t => hold[s] = "none"
  BY DEF Counts, TypeOK, HoldInv
<1>2. /\ busy' \in Word
      /\ IF busy = x[t] THEN ~busy'.excl /\ busy'.sharers = 1 /\ ~busy'.waiters ELSE busy' = busy
  BY Words DEF TypeOK
<1>3. x[t].waiters \in BOOLEAN  BY Words DEF TypeOK
<1>4. TypeOK'
  <2>1. {"downgrade_cas", "downgrade_wake", "have", "downgrade"} \subseteq Label  BY DEF Label
  <2>2. QED  BY <2>1, GotoTyped, <1>2 DEF TypeOK, ThreadsTyped, Goto, Holds
<1>5. LockInv'  BY <1>3 DEF TypeOK, LockInv, ObjectLabel, PageLabel, OwnsPage, Goto, Holds
<1>6. HoldInv'  BY <1>1 DEF TypeOK, HoldInv, Goto, Holds
<1>7. LookInv'  BY <1>1, <1>2 DEF TypeOK, LookInv, Unbusied, Goto
<1>8. CopyInv'  BY DEF TypeOK, CopyInv, Goto, Holds
<1>9. Counts'
  <2>1. CASE busy = x[t]
    <3>1. Cardinality(Sharers') = Cardinality(Sharers) + 1  BY <1>1, <2>1, OneMore
    <3>2. busy.sharers = 0  BY <1>1, NoSharers
    <3>3. QED  BY <1>1, <1>2, <2>1, <3>1, <3>2 DEF Counts, Holds, TypeOK, Unbusied
  <2>2. CASE busy # x[t]  BY <1>2, <2>2 DEF Counts, Sharers
  <2>3. QED  BY <2>1, <2>2
<1>10. Seen'  BY <1>2, <1>3 DEF TypeOK, Seen, Waker, Goto, Holds
<1>11. QED  BY <1>4, <1>5, <1>6, <1>7, <1>8, <1>9, <1>10

\* The wakeup leaves no thread asleep, and the thread still shares the page.
LEMMA downgrade_wakeupKeeps == ASSUME IInv, NEW t \in Thread, downgrade_wakeup(t) PROVE IInv'
<1> USE BusyAssumption DEF IInv, downgrade_wakeup
<1>1. TypeOK'
  <2>1. {"downgrade_wake", "have"} \subseteq Label  BY DEF Label
  <2>2. QED  BY <2>1, WakeupTyped DEF TypeOK, ThreadsTyped, UnlockAndWake, Wakeup, Sleepers
<1>2. LockInv'
  BY DEF TypeOK, LockInv, ObjectLabel, PageLabel, OwnsPage, UnlockAndWake, Wakeup, Sleepers
<1>3. HoldInv'  BY DEF TypeOK, HoldInv, UnlockAndWake, Wakeup, Sleepers
<1>4. LookInv'  BY DEF TypeOK, LookInv, LockInv, ObjectLabel, UnlockAndWake, Wakeup, Sleepers
<1>5. CopyInv'  BY DEF TypeOK, CopyInv, UnlockAndWake, Wakeup, Sleepers
<1>6. Counts'  BY DEF Counts, Sharers, UnlockAndWake
<1>7. Seen'  BY DEF TypeOK, Seen, Waker, UnlockAndWake, Wakeup, Sleepers
<1>8. QED  BY <1>1, <1>2, <1>3, <1>4, <1>5, <1>6, <1>7 DEF UnlockAndWake

\* A sharer starts to give up the page.
LEMMA SunbusyKeeps == ASSUME IInv, NEW t \in Thread, Sunbusy(t) PROVE IInv'
<1> USE BusyAssumption DEF IInv, Sunbusy
<1>1. TypeOK'
  <2>1. {"have", "sunbusy"} \subseteq Label  BY DEF Label
  <2>2. QED  BY <2>1, GotoTyped DEF TypeOK, ThreadsTyped, Goto
<1>2. LockInv'  BY DEF TypeOK, LockInv, ObjectLabel, PageLabel, OwnsPage, Goto
<1>3. HoldInv'  BY DEF TypeOK, HoldInv, Goto
<1>4. LookInv'  BY DEF TypeOK, LookInv, LockInv, ObjectLabel, Goto
<1>5. CopyInv'  BY DEF TypeOK, CopyInv, Goto
<1>6. Counts'  BY DEF Counts, Sharers
<1>7. Seen'  BY DEF TypeOK, Seen, Waker, Goto
<1>8. QED  BY <1>1, <1>2, <1>3, <1>4, <1>5, <1>6, <1>7

\* The copy tells whether the last sharer has waiters to wake.
LEMMA vm_page_sunbusyKeeps == ASSUME IInv, NEW t \in Thread, vm_page_sunbusy(t) PROVE IInv'
<1> USE BusyAssumption DEF IInv, vm_page_sunbusy
<1>1. TypeOK'
  <2>1. {"sunbusy", "sunbusy_cas", "sunbusy_lock"} \subseteq Label  BY DEF Label
  <2>2. QED  BY <2>1, LoadTyped DEF TypeOK, ThreadsTyped, Load
<1>2. LockInv'  BY DEF TypeOK, LockInv, ObjectLabel, PageLabel, OwnsPage, Load
<1>3. HoldInv'  BY DEF TypeOK, HoldInv, Load
<1>4. LookInv'  BY DEF TypeOK, LookInv, LockInv, ObjectLabel, Load
<1>5. CopyInv'  BY Words DEF TypeOK, CopyInv, Load
<1>6. Counts'  BY DEF Counts, Sharers
<1>7. Seen'  BY DEF TypeOK, Seen, Waker, Load
<1>8. QED  BY <1>1, <1>2, <1>3, <1>4, <1>5, <1>6, <1>7

\* One sharer less; the last one only without waiters.
LEMMA sunbusy_casKeeps == ASSUME IInv, NEW t \in Thread, sunbusy_cas(t) PROVE IInv'
<1> USE BusyAssumption DEF IInv, sunbusy_cas
<1>1. hold[t] = "shared" /\ ~busy.excl /\ \A s \in Thread : hold[s] # "excl"
  BY DEF Counts, TypeOK, HoldInv
<1>2. busy = x[t] => Cardinality(Sharers') = Cardinality(Sharers) - 1 /\ Cardinality(Sharers) >= 1
  BY <1>1, OneLess
<1>3. /\ busy' \in Word /\ ~busy'.excl /\ busy'.waiters = busy.waiters
      /\ busy'.sharers = IF busy = x[t] THEN busy.sharers - 1 ELSE busy.sharers
      /\ busy = x[t] => busy.sharers > 1 \/ ~busy.waiters
  BY <1>1, <1>2, Words, SharersFinite DEF TypeOK, Word, Counts, CopyInv
<1>4. busy.sharers >= 1  BY <1>1, NoSharers, Words DEF TypeOK
<1>5. TypeOK'
  <2>1. {"sunbusy_cas", "idle", "sunbusy"} \subseteq Label  BY DEF Label
  <2>2. QED  BY <2>1, GotoTyped, <1>3 DEF TypeOK, ThreadsTyped, Goto, Holds
<1>6. LockInv'  BY DEF TypeOK, LockInv, ObjectLabel, PageLabel, OwnsPage, Goto, Holds
<1>7. HoldInv'  BY <1>1 DEF TypeOK, HoldInv, Goto, Holds
<1>8. LookInv'  BY <1>1, <1>3, <1>4 DEF TypeOK, LookInv, Unbusied, Goto
<1>9. CopyInv'  BY DEF TypeOK, CopyInv, Goto, Holds
<1>10. Counts'
  <2>1. Cardinality(Sharers') = busy'.sharers  BY <1>2, <1>3 DEF Counts, Sharers
  <2>2. resident  BY <1>4 DEF Counts, Unbusied
  <2>3. QED  BY <1>1, <1>3, <1>4, <2>1, <2>2, Words DEF Counts, TypeOK, Holds
<1>11. Seen'  BY <1>3 DEF TypeOK, Seen, Waker, Goto, Holds
<1>12. QED  BY <1>5, <1>6, <1>7, <1>8, <1>9, <1>10, <1>11

\* The last sharer locks the page.
LEMMA sunbusy_lockKeeps == ASSUME IInv, NEW t \in Thread, sunbusy_lock(t) PROVE IInv'
<1> USE BusyAssumption DEF IInv, sunbusy_lock
<1>1. TypeOK'
  <2>1. {"sunbusy_lock", "sunbusy_cas_locked"} \subseteq Label  BY DEF Label
  <2>2. QED  BY <2>1 DEF TypeOK, ThreadsTyped, LockPage
<1>2. LockInv'  BY DEF TypeOK, LockInv, ObjectLabel, PageLabel, OwnsPage, LockPage
<1>3. HoldInv'  BY DEF TypeOK, HoldInv, LockPage
<1>4. LookInv'  BY DEF TypeOK, LookInv, LockInv, ObjectLabel, LockPage
<1>5. CopyInv'  BY DEF TypeOK, CopyInv, LockPage
<1>6. Counts'  BY DEF Counts, Sharers
<1>7. Seen'  BY DEF TypeOK, Seen, Waker, LockPage
<1>8. QED  BY <1>1, <1>2, <1>3, <1>4, <1>5, <1>6, <1>7

\* The last sharer leaves the page unbusied and becomes the waker.
LEMMA sunbusy_cas_lockedKeeps == ASSUME IInv, NEW t \in Thread, sunbusy_cas_locked(t) PROVE IInv'
<1> USE BusyAssumption DEF IInv, sunbusy_cas_locked
<1>1. hold[t] = "shared" /\ ~busy.excl /\ \A s \in Thread : hold[s] # "excl"
  BY DEF Counts, TypeOK, HoldInv
<1>2. busy = x[t] => Cardinality(Sharers') = Cardinality(Sharers) - 1 /\ Cardinality(Sharers) >= 1
  BY <1>1, OneLess
<1>3. /\ busy' \in Word
      /\ IF busy = x[t] THEN Unbusied(busy') /\ busy.sharers <= 1 ELSE busy' = busy
  BY Words DEF TypeOK, CopyInv
<1>4. busy.sharers >= 1  BY <1>1, NoSharers, Words DEF TypeOK
<1>5. TypeOK'
  <2>1. {"sunbusy_cas_locked", "sunbusy_wake", "sunbusy"} \subseteq Label  BY DEF Label
  <2>2. QED  BY <2>1, GotoTyped, <1>3 DEF TypeOK, ThreadsTyped, Goto, Holds
<1>6. LockInv'  BY DEF TypeOK, LockInv, ObjectLabel, PageLabel, OwnsPage, Goto, Holds
<1>7. HoldInv'  BY <1>1 DEF TypeOK, HoldInv, Goto, Holds
<1>8. LookInv'  BY <1>1, <1>3, <1>4 DEF TypeOK, LookInv, Unbusied, Goto
<1>9. CopyInv'  BY DEF TypeOK, CopyInv, Goto, Holds
<1>10. Counts'
  <2>1. CASE busy = x[t]
    <3>1. Cardinality(Sharers') = 0 /\ busy'.sharers = 0
      BY <1>2, <1>3, <1>4, <2>1, SharersFinite, Words DEF Counts, Unbusied, TypeOK
    <3>2. QED  BY <1>1, <1>3, <1>4, <2>1, <3>1, Words DEF Counts, TypeOK, Holds, Unbusied
  <2>2. CASE busy # x[t]  BY <2>2 DEF Counts, Sharers
  <2>3. QED  BY <2>1, <2>2
<1>11. Seen'  BY <1>3 DEF TypeOK, Seen, Waker, Goto, Holds
<1>12. QED  BY <1>5, <1>6, <1>7, <1>8, <1>9, <1>10, <1>11

\* The wakeup leaves no thread asleep.
LEMMA sunbusy_wakeupKeeps == ASSUME IInv, NEW t \in Thread, sunbusy_wakeup(t) PROVE IInv'
<1> USE BusyAssumption DEF IInv, sunbusy_wakeup
<1>1. TypeOK'
  <2>1. {"sunbusy_wake", "idle"} \subseteq Label  BY DEF Label
  <2>2. QED  BY <2>1, WakeupTyped DEF TypeOK, ThreadsTyped, UnlockAndWake, Wakeup, Sleepers
<1>2. LockInv'
  BY DEF TypeOK, LockInv, ObjectLabel, PageLabel, OwnsPage, UnlockAndWake, Wakeup, Sleepers
<1>3. HoldInv'  BY DEF TypeOK, HoldInv, UnlockAndWake, Wakeup, Sleepers
<1>4. LookInv'  BY DEF TypeOK, LookInv, LockInv, ObjectLabel, UnlockAndWake, Wakeup, Sleepers
<1>5. CopyInv'  BY DEF TypeOK, CopyInv, UnlockAndWake, Wakeup, Sleepers
<1>6. Counts'  BY DEF Counts, Sharers, UnlockAndWake
<1>7. Seen'  BY DEF TypeOK, Seen, Waker, UnlockAndWake, Wakeup, Sleepers
<1>8. QED  BY <1>1, <1>2, <1>3, <1>4, <1>5, <1>6, <1>7 DEF UnlockAndWake

\* A thread that has the page exclusively, or not at all, starts to free it.
LEMMA FreeKeeps == ASSUME IInv, NEW t \in Thread, Free(t) PROVE IInv'
<1> USE BusyAssumption DEF IInv, Free
<1>1. TypeOK'
  <2>1. {"idle", "have", "free_obj"} \subseteq Label  BY DEF Label
  <2>2. QED  BY <2>1, GotoTyped DEF TypeOK, ThreadsTyped, Goto
<1>2. LockInv'  BY DEF TypeOK, LockInv, ObjectLabel, PageLabel, OwnsPage, Goto
<1>3. HoldInv'  BY DEF TypeOK, HoldInv, Goto
<1>4. LookInv'  BY DEF TypeOK, LookInv, LockInv, ObjectLabel, Goto
<1>5. CopyInv'  BY DEF TypeOK, CopyInv, Goto
<1>6. Counts'  BY DEF Counts, Sharers
<1>7. Seen'  BY DEF TypeOK, Seen, Waker, Goto
<1>8. QED  BY <1>1, <1>2, <1>3, <1>4, <1>5, <1>6, <1>7

\* The object is locked; the page is there or not until it is unlocked.
LEMMA free_lock_objectKeeps == ASSUME IInv, NEW t \in Thread, free_lock_object(t) PROVE IInv'
<1> USE BusyAssumption DEF IInv, free_lock_object
<1>1. TypeOK'
  <2>1. {"free_obj", "free_page", "free"} \subseteq Label  BY DEF Label
  <2>2. QED  BY <2>1, GotoTyped DEF TypeOK, ThreadsTyped, Goto, LockObject
<1>2. LockInv'  BY DEF TypeOK, LockInv, ObjectLabel, PageLabel, OwnsPage, Goto, LockObject
<1>3. HoldInv'  BY DEF TypeOK, HoldInv, Goto, LockObject
<1>4. LookInv'  BY DEF TypeOK, LookInv, LockInv, ObjectLabel, Goto, LockObject
<1>5. CopyInv'  BY DEF TypeOK, CopyInv, Goto, LockObject
<1>6. Counts'  BY DEF Counts, Sharers
<1>7. Seen'  BY DEF TypeOK, Seen, Waker, Goto, LockObject
<1>8. QED  BY <1>1, <1>2, <1>3, <1>4, <1>5, <1>6, <1>7

\* The page is locked after the object.
LEMMA free_lock_pageKeeps == ASSUME IInv, NEW t \in Thread, free_lock_page(t) PROVE IInv'
<1> USE BusyAssumption DEF IInv, free_lock_page
<1>1. TypeOK'
  <2>1. {"free_page", "free"} \subseteq Label  BY DEF Label
  <2>2. QED  BY <2>1, GotoTyped DEF TypeOK, ThreadsTyped, Goto, LockPage
<1>2. LockInv'  BY DEF TypeOK, LockInv, LookInv, ObjectLabel, PageLabel, OwnsPage, Goto, LockPage
<1>3. HoldInv'  BY DEF TypeOK, HoldInv, Goto, LockPage
<1>4. LookInv'  BY DEF TypeOK, LookInv, LockInv, ObjectLabel, Goto, LockPage
<1>5. CopyInv'  BY DEF TypeOK, CopyInv, Goto, LockPage
<1>6. Counts'  BY DEF Counts, Sharers
<1>7. Seen'  BY DEF TypeOK, Seen, Waker, Goto, LockPage
<1>8. QED  BY <1>1, <1>2, <1>3, <1>4, <1>5, <1>6, <1>7

\* A page that others have is left alone; a page with waiters is unbusied first; any
\* other page leaves the object with an unbusied word.
LEMMA vm_page_freeKeeps == ASSUME IInv, NEW t \in Thread, vm_page_free(t) PROVE IInv'
<1> USE BusyAssumption DEF IInv
<1>1. /\ hold[t] \in {"none", "excl"} /\ pc[t] = "free" /\ {"idle", "free_store"} \subseteq Label
      /\ hold[t] = "excl" => busy.excl /\ busy.sharers = 0 /\ \A s \in Thread : s # t => hold[s] = "none"
      /\ vm_page_busied <=> ~Unbusied(busy)
      /\ resident => pagelock = t
  BY NoSharers, Words DEF HoldInv, TypeOK, Counts, vm_page_free, Label, vm_page_busied, LockInv, OwnsPage
<1>2. CASE ~resident \/ (hold[t] = "none" /\ vm_page_busied)
  <2>1. /\ Goto(t, "idle") /\ objlock' = NoThread
        /\ pagelock' = IF pagelock = t THEN NoThread ELSE pagelock
        /\ UNCHANGED <<busy, resident, hold, panicked>> /\ hold[t] = "none"
    BY <1>1, <1>2 DEF vm_page_free, Counts, Unbusied
  <2>2. TypeOK'  BY <1>1, <2>1, GotoTyped DEF TypeOK, ThreadsTyped
  <2>3. LockInv'  BY <1>1, <2>1 DEF TypeOK, LockInv, ObjectLabel, PageLabel, OwnsPage, Goto
  <2>4. HoldInv' /\ CopyInv'  BY <2>1 DEF TypeOK, HoldInv, CopyInv, Goto
  <2>5. LookInv'  BY <2>1 DEF TypeOK, LookInv, Goto
  <2>6. Counts'  BY <2>1 DEF Counts, Sharers
  <2>7. Seen'  BY <1>1, <2>1 DEF TypeOK, Seen, Waker, Goto
  <2>8. QED  BY <2>1, <2>2, <2>3, <2>4, <2>5, <2>6, <2>7
<1>3. CASE resident /\ ~(hold[t] = "none" /\ vm_page_busied) /\ busy.waiters
  <2>1. /\ Goto(t, "free_store") /\ hold[t] = "excl" /\ resident
        /\ UNCHANGED <<busy, resident, objlock, pagelock, hold, panicked>>
    BY <1>1, <1>3 DEF vm_page_free, vm_page_sbusied, Unbusied
  <2>2. TypeOK'  BY <1>1, <2>1, GotoTyped DEF TypeOK, ThreadsTyped
  <2>3. LockInv'  BY <1>1, <2>1 DEF TypeOK, LockInv, ObjectLabel, PageLabel, OwnsPage, Goto
  <2>4. HoldInv' /\ CopyInv'  BY <2>1 DEF TypeOK, HoldInv, CopyInv, Goto
  <2>5. LookInv'  BY <2>1 DEF TypeOK, LookInv, Goto
  <2>6. Counts'  BY <2>1 DEF Counts, Sharers
  <2>7. Seen'  BY <1>1, <2>1 DEF TypeOK, Seen, Waker, Goto
  <2>8. QED  BY <2>1, <2>2, <2>3, <2>4, <2>5, <2>6, <2>7
<1>4. CASE resident /\ ~(hold[t] = "none" /\ vm_page_busied) /\ ~busy.waiters
  <2>0. (Unbusied(busy) \/ hold[t] = "excl") /\ ~vm_page_sbusied
    BY <1>1, <1>4, Words DEF vm_page_sbusied, vm_page_busied, TypeOK
  <2>1. /\ busy' = VPB_UNBUSIED /\ resident' = FALSE /\ Holds(t, "none") /\ Goto(t, "idle")
        /\ objlock' = NoThread /\ pagelock' = NoThread /\ UNCHANGED panicked
    BY <1>4, <2>0 DEF vm_page_free
  <2>2. busy' \in Word /\ Unbusied(busy')  BY <2>1, Words
  <2>3. /\ \A s \in Thread : s # t => hold[s] = "none"
        /\ \A s \in Thread : hold'[s] = "none" /\ pc[s] \notin ObjectLabel \ {"free"}
    BY <1>1, <2>0, <2>1, NoSharers DEF Unbusied, Counts, TypeOK, Holds, LockInv, ObjectLabel
  <2>4. TypeOK'  BY <1>1, <2>1, <2>2, GotoTyped DEF TypeOK, ThreadsTyped, Holds
  <2>5. LockInv'  BY <1>1, <1>4, <2>1 DEF TypeOK, LockInv, ObjectLabel, PageLabel, OwnsPage, Goto
  <2>6. HoldInv' /\ CopyInv'  BY <2>1, <2>3 DEF TypeOK, HoldInv, CopyInv, Goto
  <2>7. LookInv'  BY <2>1, <2>3 DEF TypeOK, LookInv, ObjectLabel, Goto
  <2>8. Counts'
    <3>1. Sharers' = {}  BY <2>3 DEF Sharers
    <3>2. QED  BY <2>2, <2>3, <3>1, FS_EmptySet DEF Counts, Unbusied
  <2>9. Seen'  BY <1>1, <1>4, <2>1 DEF TypeOK, Seen, Waker, Goto
  <2>10. QED  BY <2>1, <2>4, <2>5, <2>6, <2>7, <2>8, <2>9
<1>5. QED  BY <1>2, <1>3, <1>4 DEF TypeOK

\* The store drops the waiters bit, and the thread becomes the waker.
LEMMA free_storeKeeps == ASSUME IInv, NEW t \in Thread, free_store(t) PROVE IInv'
<1> USE BusyAssumption DEF IInv, free_store
<1>1. hold[t] = "excl" /\ busy.excl /\ \A s \in Thread : s # t => hold[s] = "none"
  BY DEF Counts, TypeOK, HoldInv
<1>2. busy' \in Word /\ Unbusied(busy')  BY Words
<1>3. TypeOK'
  <2>1. {"free_store", "free_wake"} \subseteq Label  BY DEF Label
  <2>2. QED  BY <2>1, GotoTyped, <1>2 DEF TypeOK, ThreadsTyped, Goto, Holds
<1>4. LockInv'  BY DEF TypeOK, LockInv, ObjectLabel, PageLabel, OwnsPage, Goto, Holds
<1>5. HoldInv'  BY <1>1 DEF TypeOK, HoldInv, Goto, Holds
<1>6. LookInv'  BY <1>1, <1>2 DEF TypeOK, LookInv, Unbusied, Goto
<1>7. CopyInv'  BY DEF TypeOK, CopyInv, Goto, Holds
<1>8. Counts'
  <2>1. Sharers' = Sharers  BY <1>1, SameSharers DEF Sharers
  <2>2. busy.sharers = 0  BY <1>1, NoSharers
  <2>3. QED  BY <1>1, <1>2, <2>1, <2>2 DEF Counts, Unbusied, Holds, TypeOK
<1>9. Seen'  BY <1>2 DEF TypeOK, Seen, Waker, Goto, Holds
<1>10. QED  BY <1>3, <1>4, <1>5, <1>6, <1>7, <1>8, <1>9

\* The page leaves the object unbusied, and the wakeup leaves no thread asleep.
LEMMA free_wakeupKeeps == ASSUME IInv, NEW t \in Thread, free_wakeup(t) PROVE IInv'
<1> USE BusyAssumption DEF IInv, free_wakeup
<1>1. Unbusied(busy)  BY DEF LookInv
<1>2. TypeOK'
  <2>1. {"free_wake", "idle"} \subseteq Label  BY DEF Label
  <2>2. QED  BY <2>1, WakeupTyped DEF TypeOK, ThreadsTyped, Wakeup, Sleepers
<1>3. LockInv'  BY DEF TypeOK, LockInv, ObjectLabel, PageLabel, OwnsPage, Wakeup, Sleepers
<1>4. HoldInv'  BY DEF TypeOK, HoldInv, Wakeup, Sleepers
<1>5. LookInv'  BY DEF TypeOK, LookInv, LockInv, ObjectLabel, Wakeup, Sleepers
<1>6. CopyInv'  BY DEF TypeOK, CopyInv, Wakeup, Sleepers
<1>7. Counts'  BY <1>1 DEF Counts, Sharers
<1>8. Seen'  BY DEF TypeOK, Seen, Waker, Wakeup, Sleepers
<1>9. QED  BY <1>2, <1>3, <1>4, <1>5, <1>6, <1>7, <1>8

\* vm_page_flash begins with the lock of the page.
LEMMA FlashKeeps == ASSUME IInv, NEW t \in Thread, Flash(t) PROVE IInv'
<1> USE BusyAssumption DEF IInv, Flash
<1>1. TypeOK'
  <2>1. {"idle", "flash"} \subseteq Label  BY DEF Label
  <2>2. QED  BY <2>1, GotoTyped DEF TypeOK, ThreadsTyped, Goto, LockPage
<1>2. LockInv'  BY DEF TypeOK, LockInv, ObjectLabel, PageLabel, OwnsPage, Goto, LockPage
<1>3. HoldInv'  BY DEF TypeOK, HoldInv, Goto, LockPage
<1>4. LookInv'  BY DEF TypeOK, LookInv, LockInv, ObjectLabel, Goto, LockPage
<1>5. CopyInv'  BY DEF TypeOK, CopyInv, Goto, LockPage
<1>6. Counts'  BY DEF Counts, Sharers
<1>7. Seen'  BY DEF TypeOK, Seen, Waker, Goto, LockPage
<1>8. QED  BY <1>1, <1>2, <1>3, <1>4, <1>5, <1>6, <1>7

\* The copy is taken if there are waiters.
LEMMA vm_page_flashKeeps == ASSUME IInv, NEW t \in Thread, vm_page_flash(t) PROVE IInv'
<1> USE BusyAssumption DEF IInv, vm_page_flash
<1>1. TypeOK'
  <2>1. {"flash", "flash_cas", "idle"} \subseteq Label  BY DEF Label
  <2>2. QED  BY <2>1, GotoTyped, LoadTyped DEF TypeOK, ThreadsTyped, Goto, Load
<1>2. LockInv'  BY DEF TypeOK, LockInv, ObjectLabel, PageLabel, OwnsPage, Goto, Load
<1>3. HoldInv'  BY DEF TypeOK, HoldInv, Goto, Load
<1>4. LookInv'  BY DEF TypeOK, LookInv, LockInv, ObjectLabel, Goto, Load
<1>5. CopyInv'  BY DEF TypeOK, CopyInv, Goto, Load
<1>6. Counts'  BY DEF Counts, Sharers
<1>7. Seen'  BY DEF TypeOK, Seen, Waker, Goto, Load
<1>8. QED  BY <1>1, <1>2, <1>3, <1>4, <1>5, <1>6, <1>7

\* The waiters bit is dropped, and the thread becomes the waker.
LEMMA flash_casKeeps == ASSUME IInv, NEW t \in Thread, flash_cas(t) PROVE IInv'
<1> USE BusyAssumption DEF IInv, flash_cas
<1>1. /\ busy' \in Word /\ busy'.excl = busy.excl /\ busy'.sharers = busy.sharers
      /\ busy'.waiters => busy.waiters
      /\ busy # x[t] => busy' = busy
  BY Words DEF TypeOK, Word
<1>2. TypeOK'
  <2>1. {"flash_cas", "flash_wake", "flash"} \subseteq Label  BY DEF Label
  <2>2. QED  BY <2>1, GotoTyped, <1>1 DEF TypeOK, ThreadsTyped, Goto
<1>3. LockInv'  BY DEF TypeOK, LockInv, ObjectLabel, PageLabel, OwnsPage, Goto
<1>4. HoldInv'  BY DEF TypeOK, HoldInv, Goto
<1>5. LookInv'  BY <1>1 DEF TypeOK, LookInv, LockInv, ObjectLabel, Goto, Unbusied
<1>6. CopyInv'  BY DEF TypeOK, CopyInv, Goto
<1>7. Counts'  BY <1>1, Words DEF Counts, Sharers, Unbusied, TypeOK
<1>8. Seen'  BY <1>1 DEF TypeOK, Seen, Waker, Goto
<1>9. QED  BY <1>2, <1>3, <1>4, <1>5, <1>6, <1>7, <1>8

\* The wakeup leaves no thread asleep.
LEMMA flash_wakeupKeeps == ASSUME IInv, NEW t \in Thread, flash_wakeup(t) PROVE IInv'
<1> USE BusyAssumption DEF IInv, flash_wakeup
<1>1. TypeOK'
  <2>1. {"flash_wake", "idle"} \subseteq Label  BY DEF Label
  <2>2. QED  BY <2>1, WakeupTyped DEF TypeOK, ThreadsTyped, UnlockAndWake, Wakeup, Sleepers
<1>2. LockInv'
  BY DEF TypeOK, LockInv, ObjectLabel, PageLabel, OwnsPage, UnlockAndWake, Wakeup, Sleepers
<1>3. HoldInv'  BY DEF TypeOK, HoldInv, UnlockAndWake, Wakeup, Sleepers
<1>4. LookInv'  BY DEF TypeOK, LookInv, LockInv, ObjectLabel, UnlockAndWake, Wakeup, Sleepers
<1>5. CopyInv'  BY DEF TypeOK, CopyInv, UnlockAndWake, Wakeup, Sleepers
<1>6. Counts'  BY DEF Counts, Sharers, UnlockAndWake
<1>7. Seen'  BY DEF TypeOK, Seen, Waker, UnlockAndWake, Wakeup, Sleepers
<1>8. QED  BY <1>1, <1>2, <1>3, <1>4, <1>5, <1>6, <1>7 DEF UnlockAndWake

-----------------------------------------------------------------------------
(* The theorems.                                                           *)

\* The page starts unbusied, in the object or not, and no thread knows of it.
LEMMA InitHolds == Init => IInv
<1> SUFFICES ASSUME Init PROVE IInv  OBVIOUS
<1> USE BusyAssumption DEF Init
<1>1. "idle" \in Label /\ "nobusy" \in Request  BY DEF Label, Request
<1>2. TypeOK  BY <1>1, Words DEF TypeOK
<1>3. LockInv /\ HoldInv /\ LookInv /\ CopyInv /\ Seen
  BY DEF LockInv, HoldInv, LookInv, CopyInv, Seen, ObjectLabel, PageLabel, OwnsPage
<1>4. Counts
  <2>1. Sharers = {}  BY DEF Sharers
  <2>2. QED  BY <2>1, FS_EmptySet, Words DEF Counts, Unbusied
<1>5. QED  BY <1>2, <1>3, <1>4 DEF IInv

\* Every step keeps the invariant.
LEMMA NextKeeps == IInv /\ [Next]_vars => IInv'
<1> SUFFICES ASSUME IInv, [Next]_vars PROVE IInv'  OBVIOUS
<1>1. ASSUME NEW t \in Thread, Continue(t) PROVE IInv'
  BY <1>1, RelockKeeps, vm_page_alloc_afterKeeps, GrabBusyKeeps, GrabFreeKeeps, vm_page_xbusyKeeps,
     vm_page_trysbusyKeeps, trysbusy_casKeeps, vm_page_busy_sleepKeeps, busy_sleep_casKeeps,
     vm_page_xunbusy_hardKeeps, xunbusy_storeKeeps, xunbusy_wakeupKeeps,
     vm_page_busy_downgradeKeeps, downgrade_lockKeeps, downgrade_casKeeps,
     downgrade_wakeupKeeps, vm_page_sunbusyKeeps, sunbusy_casKeeps, sunbusy_lockKeeps,
     sunbusy_cas_lockedKeeps, sunbusy_wakeupKeeps, free_lock_objectKeeps,
     free_lock_pageKeeps, vm_page_freeKeeps, free_storeKeeps, free_wakeupKeeps,
     vm_page_flashKeeps, flash_casKeeps, flash_wakeupKeeps DEF Continue
<1>2. ASSUME NEW t \in Thread, GiveUp(t) \/ Downgrade(t) \/ Free(t) \/ Flash(t) PROVE IInv'
  BY <1>2, vm_page_xunbusyKeeps, SunbusyKeeps, DowngradeKeeps, FreeKeeps, FlashKeeps DEF GiveUp
<1>3. CASE UNCHANGED vars
  <2>1. Counts'  BY <1>3 DEF IInv, Counts, Sharers, vars
  <2>2. QED  BY <1>3, <2>1 DEF IInv, TypeOK, LockInv, HoldInv, LookInv, CopyInv, Seen, OwnsPage, vars
<1>4. QED  BY <1>1, <1>2, <1>3, GrabKeeps DEF Next, Step

\* The locks, the copies of the word and what threads have agree at every single read
\* and compare-and-set, for any number of threads.
THEOREM InvariantHolds == Spec => []IInv
BY InitHolds, NextKeeps, PTL DEF Spec

\* The busy word counts exactly the threads that have the page: an exclusive owner is
\* alone, no sharer is lost or counted twice by a compare-and-set on an old copy, and a
\* page that is freed is not busy.
THEOREM WordStaysExact == Spec => []BusyWordCountsHolders
<1>1. IInv => BusyWordCountsHolders
  <2> SUFFICES ASSUME IInv PROVE BusyWordCountsHolders  OBVIOUS
  <2>1. ASSUME NEW t \in Owners PROVE Owners = {t} /\ Sharers = {}
    BY DEF IInv, TypeOK, Counts, Owners, Sharers
  <2>2. Owners # {} => Cardinality(Owners) = 1 /\ Sharers = {}  BY <2>1, FS_Singleton
  <2>3. (busy.excl <=> Owners # {}) /\ (~resident => ~vm_page_busied)
    BY Words DEF IInv, TypeOK, Counts, Owners, vm_page_busied
  <2>4. QED  BY <2>2, <2>3 DEF IInv, Counts, BusyWordCountsHolders
<1>2. QED  BY <1>1, InvariantHolds, PTL

\* A thread that sleeps on the page is never forgotten, whichever way the page is given up.
THEOREM SleepersStaySeen == Spec => []SleepersAreSeen
<1>1. IInv => SleepersAreSeen  BY DEF IInv, Seen, SleepersAreSeen, Sleepers, Waker
<1>2. QED  BY <1>1, InvariantHolds, PTL

\* Busying a page that was found free under the lock of the object always succeeds, and no
\* page is freed that others share.
THEOREM BusyingAlwaysSucceeds == Spec => []BusyingSucceeds
<1>1. IInv => BusyingSucceeds  BY DEF IInv, BusyingSucceeds
<1>2. QED  BY <1>1, InvariantHolds, PTL
=============================================================================
