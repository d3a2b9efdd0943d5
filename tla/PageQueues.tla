----------------------------- MODULE PageQueues -----------------------------
(***************************************************************************)
(* The page queues (asgn3/vm/vm_page.c), the FIFO page-out scan and the    *)
(* laundry (asgn3/vm/vm_pageout.c).  Users of memory allocate, map, write, *)
(* hold, wire and free the pages of an object while the page daemon        *)
(* ("scan") walks the inactive queue and the laundry thread ("laundry")    *)
(* the laundry queue.  A user's call is one step: it holds the locks it    *)
(* needs from its first to its last access.  The two threads give up their *)
(* queue lock in the middle of a walk and keep their place by a marker in  *)
(* the queue, the name of the thread; a write through a mapping happens at *)
(* any time.  Busying is one step here, its protocol is in PageBusy.       *)
(***************************************************************************)
EXTENDS Integers, Sequences, SequencesExt, FiniteSetsExt, TLC

CONSTANTS Page,      \* the pages of one memory domain
          Workload,  \* what users do in a behaviour (a bound): the pages that they allocate,
                     \* of these the ones that they map and that they hold, wire or allocate
                     \* in another way than exclusively busy, and the type of the object
          Target,    \* pages that a walk is to free or launder
          NoPage     \* the end of a queue

ASSUME PageAssumption ==
    /\ IsFiniteSet(Page) /\ NoPage \notin Page /\ Target \in Nat
    /\ (Page \cup {NoPage}) \cap {"scan", "laundry", "inacthead"} = {}   \* markers are no pages
    /\ Workload \subseteq [allocates : SUBSET Page, maps : SUBSET Page, pins : SUBSET Page, vnode : BOOLEAN]

VARIABLES
    page,      \* the vm_page structures, and the fate of what was last written
    pq,        \* the two queues in use, with the markers in them
    object,    \* the mappings of the object: ref_count # 0, ref_count = 0, or OBJ_DEAD
    use,       \* the workload
    th,        \* the two daemon threads: place, page, maxscan, target, and the pages that
               \* this walk has left where they are because they were busy or held
    cluster,   \* the pages that the laundry thread has given to the pager
    stopped    \* "no", or the kernel stopped: at an assertion, or in the statistics

vars == <<page, pq, object, use, th, cluster, stopped>>

Thread == {"scan", "laundry"}
Queue  == {"INACTIVE", "LAUNDRY"}
QueueOf(t) == IF t = "scan" THEN "INACTIVE" ELSE "LAUNDRY"

\* m->queue is PQ_NONE for two reasons: who has allocated or unwired the page does not
\* want it on a queue ("OFF"), or any other ("NONE").  unsaved is what becomes of the last
\* write of a process: "yes" until it is stored, "refused" if VM_PAGER_BAD gave it up.
PageState ==
    [resident : BOOLEAN,                         \* m->object # NULL
     queue    : Queue \cup {"NONE", "OFF"},
     pin      : {"no", "held", "wired"},         \* hold_count, wire_count
     busy     : {"no", "x", "s"},
     content  : {"invalid", "clean", "dirty"},   \* valid and dirty bits
     map      : {"none", "ro", "rw", "mod"},     \* pmap: "mod" is modified and not yet noticed
     unsaved  : {"no", "yes", "refused"}]

FreePage == [resident |-> FALSE, queue |-> "NONE", pin |-> "no", busy |-> "no",
             content |-> "invalid", map |-> "none", unsaved |-> "no"]

Label == {"idle", "lock", "page", "wait_page", "wait_object", "work", "remove",
          "vget", "put", "relock"}

Resting == [pc |-> "idle", m |-> NoPage, left |-> 0, want |-> 0, skipped |-> {}]

TypeOK ==
    /\ page \in [Page -> PageState]
    /\ DOMAIN pq = Queue
    /\ \A q \in Queue : Range(pq[q]) \subseteq Page \cup Thread \cup {"inacthead"}
    /\ object \in {"mapped", "unmapped", "dead"} /\ use \in Workload
    /\ th \in [Thread -> [pc : Label, m : Page \cup Thread \cup {"inacthead", NoPage},
                          left : 0 .. Cardinality(Page), want : 0 .. Target,
                          skipped : SUBSET Page]]
    /\ cluster \subseteq Page
    /\ stopped \in {"no", "assertion", "statistics"}

\* vm_page_startup, vm_page_domain_init, vm_pageout_init_marker: vmd_inacthead is the
\* first entry of the inactive queue.
Init ==
    /\ page = [p \in Page |-> FreePage]
    /\ pq = [q \in Queue |-> IF q = "INACTIVE" THEN <<"inacthead">> ELSE <<>>]
    /\ object = "mapped" /\ use \in Workload
    /\ th = [t \in Thread |-> Resting]
    /\ cluster = {} /\ stopped = "no"

-----------------------------------------------------------------------------
(* Queues as sequences.                                                    *)

Place(s, e)       == CHOOSE i \in DOMAIN s : s[i] = e
TAILQ_NEXT(s, e)  == IF Last(s) = e THEN NoPage ELSE s[Place(s, e) + 1]
TAILQ_PREV(s, e)  == IF Head(s) = e THEN NoPage ELSE s[Place(s, e) - 1]
TAILQ_REMOVE(s, e) == RemoveAt(s, Place(s, e))
InsertAfter(s, e, x) == InsertAt(s, Place(s, e) + 1, x)

\* pq_cnt, which markers are not part of.
pq_cnt(q) == Cardinality(Range(pq[q]) \cap Page)

-----------------------------------------------------------------------------
(* Operations on a memory M = [page, pq].                                  *)

memory == [page |-> page, pq |-> pq]
Becomes(M) == page' = M.page /\ pq' = M.pq

vm_page_dequeue(M, p) ==
    IF M.page[p].queue \notin Queue THEN M
    ELSE [page |-> [M.page EXCEPT ![p].queue = "NONE"],
          pq   |-> [M.pq EXCEPT ![M.page[p].queue] = TAILQ_REMOVE(@, p)]]

\* PQ_ACTIVE is PQ_INACTIVE here.
vm_page_enqueue(M, q, p) ==
    [page |-> [M.page EXCEPT ![p].queue = q],
     pq   |-> [M.pq EXCEPT ![q] = Append(@, p)]]

Requeue(M, q, p) ==
    IF M.page[p].pin = "wired" THEN M ELSE vm_page_enqueue(vm_page_dequeue(M, p), q, p)

vm_page_activate(M, p) == Requeue(M, "INACTIVE", p)

\* Mutant: the page that will not be used again goes to the head of the queue.
deactivate_head(M, p, noreuse) ==
    IF M.page[p].pin = "wired" \/ (M.page[p].queue = "INACTIVE" /\ ~noreuse) THEN M
    ELSE LET D == vm_page_dequeue(M, p)
         IN  IF noreuse THEN [page |-> [D.page EXCEPT ![p].queue = "INACTIVE"],
                              pq   |-> [D.pq EXCEPT !["INACTIVE"] = InsertAfter(@, "inacthead", p)]]
             ELSE vm_page_enqueue(D, "INACTIVE", p)

vm_page_deactivate(M, p, noreuse) ==
    IF M.page[p].queue = "INACTIVE" /\ ~noreuse THEN M ELSE Requeue(M, "INACTIVE", p)

vm_page_launder(M, p) ==
    IF M.page[p].queue = "LAUNDRY" THEN M ELSE Requeue(M, "LAUNDRY", p)

vm_page_undirty(s)    == IF s.content = "dirty" THEN [s EXCEPT !.content = "clean"] ELSE s
vm_page_test_dirty(s) == IF s.map = "mod" THEN [s EXCEPT !.content = "dirty"] ELSE s
\* pmap_remove_all and pmap_remove_write note the modification before they drop it.
pmap_remove_all(s)    == [vm_page_test_dirty(s) EXCEPT !.map = "none"]
pmap_remove_write(s)  == [vm_page_test_dirty(s) EXCEPT !.map = IF @ = "none" THEN "none" ELSE "ro"]

\* What vm_page_free_prep asserts.
FreeAsserts(s) == s.map = "none" /\ s.busy # "s" /\ s.pin # "wired"

\* vm_page_free_toq.  A page that is held leaves the object, and is freed when the hold
\* ends (PG_UNHOLDFREE); unsaved is left as it is.
vm_page_free(M, p) ==
    LET D == vm_page_dequeue(M, p)
    IN  [D EXCEPT !.page[p] = [FreePage EXCEPT !.pin = M.page[p].pin, !.unsaved = M.page[p].unsaved]]

KASSERT(b) == stopped' = IF b THEN stopped ELSE "assertion"

-----------------------------------------------------------------------------
(* Locks.  Only the two threads keep a lock over several steps.            *)

PageLocked(p)  == \E t \in Thread : th[t].m = p /\ th[t].pc \in {"work", "remove"}
QueueLocked(q) == \E t \in Thread : QueueOf(t) = q /\ th[t].pc = "page"
ObjectLocked   == \E t \in Thread : th[t].pc \in {"work", "remove"}
QueuesFree     == \A q \in Queue : ~QueueLocked(q)

Go(t, l) == th' = [th EXCEPT ![t].pc = l]

\* The head of the loop: on with page m while there is one, maxscan and the target allow
\* it; otherwise the walk ends.
Walk(t, m, left, want, skipped) ==
    th' = [th EXCEPT ![t] =
             IF m = NoPage \/ left = 0 \/ want = 0 THEN Resting
             ELSE [pc |-> "page", m |-> m, left |-> left, want |-> want, skipped |-> skipped]]
WalkOn(t, m) == Walk(t, m, th[t].left, th[t].want, th[t].skipped)

-----------------------------------------------------------------------------
(* The walk of either thread: vm_pageout_scan, vm_pageout_launder.         *)

\* maxscan is read before the queue is locked.
Begin(t) ==
    /\ th[t].pc = "idle"
    /\ th' = [th EXCEPT ![t].pc = "lock", ![t].left = pq_cnt(QueueOf(t)), ![t].want = Target]
    /\ UNCHANGED <<page, pq, object, cluster, stopped>>

Eligible(q) == {p \in Range(pq[q]) \cap Page : page[p].pin # "held" /\ page[p].busy = "no"}

\* The statistics of vm_pageout_scan follow the first eligible page, which may be NULL,
\* and the last page of the queue, which is not set when that one is not eligible.
Lock(t) ==
    /\ th[t].pc = "lock" /\ ~QueueLocked(QueueOf(t))
    /\ LET q == pq[QueueOf(t)]
       IN  \/ /\ t = "scan" => Eligible("INACTIVE") # {}
              /\ WalkOn(t, IF q = <<>> THEN NoPage ELSE Head(q))
              /\ UNCHANGED stopped
           \/ /\ t = "scan" /\ Last(q) \notin Eligible("INACTIVE")
              /\ stopped' = "statistics" /\ UNCHANGED th
    /\ UNCHANGED <<page, pq, object, cluster>>

SkipMarker(t) ==
    /\ th[t].pc = "page" /\ th[t].m \notin Page
    /\ Walk(t, TAILQ_NEXT(pq[QueueOf(t)], th[t].m), th[t].left - 1, th[t].want, th[t].skipped)
    /\ UNCHANGED <<page, pq, object, cluster, stopped>>

\* Leaves the page where it is, for it is held or busy.
Skip(t, q) ==
    /\ Walk(t, TAILQ_NEXT(q, th[t].m), th[t].left - 1, th[t].want,
            IF t = "scan" THEN th[t].skipped \cup {th[t].m} ELSE {})
    /\ pq' = [pq EXCEPT ![QueueOf(t)] = q] /\ UNCHANGED page

\* The page has left its place: goes on behind the marker.
Moved(t, marked) ==
    /\ Walk(t, TAILQ_NEXT(marked, t), th[t].left - 1, th[t].want, th[t].skipped)
    /\ pq' = [pq EXCEPT ![QueueOf(t)] = TAILQ_REMOVE(marked, t)] /\ UNCHANGED page

\* Gives up the locks and keeps its place by a marker behind the page.
Wait(t, q, l) ==
    /\ Go(t, l)
    /\ pq' = [pq EXCEPT ![QueueOf(t)] = InsertAfter(q, th[t].m, t)] /\ UNCHANGED page

\* The marker goes behind the page, which the scan also takes off the queue.
Take(t, q) ==
    /\ th' = [th EXCEPT ![t].pc = "work", ![t].left = @ - 1]
    /\ LET M == [page |-> page, pq |-> [pq EXCEPT ![QueueOf(t)] = InsertAfter(q, th[t].m, t)]]
       IN  Becomes(IF t = "scan" THEN vm_page_dequeue(M, th[t].m) ELSE M)

\* With the page, its object and the queue q locked.
SkipOrTake(t, q) ==
    LET s == page[th[t].m]
    IN  IF s.pin = "held" \/ s.busy # "no" THEN Skip(t, q) ELSE Take(t, q)

\* With the page and the queue q locked.  VM_OBJECT_TRYWLOCK may always fail, for a user
\* may have the lock.
TryObject(t, q) ==
    IF page[th[t].m].pin = "held" THEN Skip(t, q)
    ELSE (~ObjectLocked /\ SkipOrTake(t, q)) \/ Wait(t, q, "wait_object")

\* vm_pageout_page_lock: vm_page_trylock may fail too.
TryPage(t) ==
    /\ th[t].pc = "page" /\ th[t].m \in Page
    /\ LET q == pq[QueueOf(t)]
       IN  (~PageLocked(th[t].m) /\ TryObject(t, q)) \/ Wait(t, q, "wait_page")
    /\ UNCHANGED <<object, cluster, stopped>>

\* The page and the queue are locked again, and the marker tells if the page has moved.
WaitPage(t) ==
    /\ th[t].pc = "wait_page" /\ ~PageLocked(th[t].m) /\ ~QueueLocked(QueueOf(t))
    /\ LET marked == pq[QueueOf(t)]
           unchanged == TAILQ_PREV(marked, t) = th[t].m
       IN  /\ IF unchanged THEN TryObject(t, TAILQ_REMOVE(marked, t)) ELSE Moved(t, marked)
           /\ KASSERT(unchanged => page[th[t].m].queue = QueueOf(t))
    /\ UNCHANGED <<object, cluster>>

\* vm_pageout_fallback_object_lock.
WaitObject(t) ==
    /\ th[t].pc = "wait_object"
    /\ ~ObjectLocked /\ ~PageLocked(th[t].m) /\ ~QueueLocked(QueueOf(t))
    /\ LET marked == pq[QueueOf(t)]
           unchanged == page[th[t].m].resident /\ TAILQ_PREV(marked, t) = th[t].m
       IN  /\ IF unchanged THEN SkipOrTake(t, TAILQ_REMOVE(marked, t)) ELSE Moved(t, marked)
           /\ KASSERT(unchanged => page[th[t].m].queue = QueueOf(t))
    /\ UNCHANGED <<object, cluster>>

\* On to the page behind the marker.
Relock(t) ==
    /\ th[t].pc = "relock" /\ ~QueueLocked(QueueOf(t))
    /\ WalkOn(t, TAILQ_NEXT(pq[QueueOf(t)], t))
    /\ pq' = [pq EXCEPT ![QueueOf(t)] = TAILQ_REMOVE(@, t)]
    /\ UNCHANGED <<page, object, cluster, stopped>>

-----------------------------------------------------------------------------
(* What becomes of a page: its page and object locks are held.             *)

Done(t)    == th' = [th EXCEPT ![t].pc = "relock", ![t].m = NoPage]
Counted(t) == th' = [th EXCEPT ![t].pc = "relock", ![t].m = NoPage, ![t].want = @ - 1]

FreeIt(t) ==
    /\ QueuesFree /\ Becomes(vm_page_free(memory, th[t].m)) /\ KASSERT(FreeAsserts(page[th[t].m]))
    /\ IF t = "scan" THEN Counted(t) ELSE Done(t)

\* Invalid pages are freed at once; vm_page_test_dirty for the others, if they may be
\* mapped.
Work(t) ==
    /\ th[t].pc = "work"
    /\ IF page[th[t].m].content = "invalid" THEN FreeIt(t)
       ELSE /\ page' = [page EXCEPT ![th[t].m] = IF object = "mapped" THEN vm_page_test_dirty(@) ELSE @]
            /\ Go(t, "remove") /\ UNCHANGED <<pq, stopped>>
    /\ UNCHANGED <<object, cluster>>

\* The laundry thread finds a valid page referenced.
Referenced(t) ==
    /\ t = "laundry" /\ th[t].pc = "work" /\ page[th[t].m].content # "invalid" /\ QueuesFree
    /\ \/ /\ object = "mapped" /\ Becomes(vm_page_activate(memory, th[t].m))
          /\ Done(t) \/ Counted(t)     \* in_shortfall or not
       \/ object = "unmapped" /\ Becomes(Requeue(memory, "LAUNDRY", th[t].m)) /\ Done(t)
    /\ UNCHANGED <<object, cluster, stopped>>

\* A clean page loses its mappings, which may show that it was modified since.
Unmapped(s) == IF object = "mapped" /\ s.content = "clean" THEN pmap_remove_all(s) ELSE s

\* Mutant: whether the page is clean was decided before the mappings were removed.
RemoveFree_early(t) ==
    /\ th[t].pc = "remove" /\ page[th[t].m].content = "clean"
    /\ QueuesFree /\ Done(t)
    /\ Becomes(vm_page_free([memory EXCEPT !.page[th[t].m] = Unmapped(@)], th[t].m))
    /\ UNCHANGED <<object, cluster, stopped>>

RemoveFree(t) ==
    /\ th[t].pc = "remove"
    /\ LET s == Unmapped(page[th[t].m])
       IN  /\ s.content = "clean" /\ QueuesFree
           /\ Becomes(vm_page_free([memory EXCEPT !.page[th[t].m] = s], th[t].m))
           /\ KASSERT(FreeAsserts(s))
    /\ IF t = "scan" THEN Counted(t) ELSE Done(t)
    /\ UNCHANGED <<object, cluster>>

\* Mutant: the scan has taken the page off its queue and puts it on no other.
RemoveDirty_drop(t) ==
    /\ th[t].pc = "remove" /\ Unmapped(page[th[t].m]).content = "dirty" /\ QueuesFree
    /\ Becomes([memory EXCEPT !.page[th[t].m] = Unmapped(@)])
    /\ Done(t)
    /\ UNCHANGED <<object, cluster, stopped>>

\* The scan sends a dirty page to the laundry, unless its object is dead; the laundry
\* thread leaves it in the queue, behind the others when swapping is disabled.
RemoveDirty(t) ==
    /\ th[t].pc = "remove" /\ Unmapped(page[th[t].m]).content = "dirty" /\ QueuesFree
    /\ LET M == [memory EXCEPT !.page[th[t].m] = Unmapped(@)]
       IN  \/ t = "scan" /\ object # "dead" /\ Becomes(vm_page_launder(M, th[t].m))
           \/ object = "dead" /\ Becomes(M)
           \/ /\ t = "laundry" /\ object # "dead" /\ ~use.vnode
              /\ Becomes(Requeue(M, "LAUNDRY", th[t].m))
    /\ Done(t)
    /\ UNCHANGED <<object, cluster, stopped>>

-----------------------------------------------------------------------------
(* vm_pageout_clean, vm_pageout_cluster, vm_pageout_flush.                 *)

\* Dirty pages in the laundry that may be written together with p.
Companions(p) ==
    {q \in Page \ {p} : /\ page[q].resident /\ page[q].queue = "LAUNDRY" /\ ~PageLocked(q)
                        /\ page[q].busy = "no" /\ page[q].pin # "held"
                        /\ vm_page_test_dirty(page[q]).content = "dirty"}

\* The pages lose their writable mappings and are shared busy while the pager, which
\* unlocks the object, writes them.
Flush(t, C) ==
    /\ page' = [p \in Page |-> IF p \in C THEN [pmap_remove_write(page[p]) EXCEPT !.busy = "s"]
                               ELSE page[p]]
    /\ cluster' = C /\ th' = [th EXCEPT ![t].pc = "put", ![t].m = NoPage]
    /\ KASSERT(\A p \in C : page[p].busy = "no" /\ page[p].content # "invalid" /\ page[p].pin # "held")

Clean(t) ==
    /\ t = "laundry" /\ th[t].pc = "remove" /\ object # "dead"
    /\ Unmapped(page[th[t].m]).content = "dirty"
    /\ \/ ~use.vnode /\ \E C \in SUBSET Companions(th[t].m) : Flush(t, C \cup {th[t].m})
       \/ /\ use.vnode /\ Go(t, "vget")
          /\ page' = [page EXCEPT ![th[t].m] = Unmapped(@)] /\ UNCHANGED <<cluster, stopped>>
    /\ UNCHANGED <<pq, object>>

\* Mutant: the page is taken for what it was.
StillToClean_once(s) == s.resident

\* While nothing was locked for vget the page may have been moved, freed, cleaned,
\* busied or held.
StillToClean(s) ==
    s.resident /\ s.queue = "LAUNDRY" /\ s.content = "dirty" /\ s.busy = "no" /\ s.pin # "held"

vget(t) ==
    /\ th[t].pc = "vget"
    /\ \/ /\ ~ObjectLocked /\ ~PageLocked(th[t].m) /\ StillToClean(page[th[t].m])
          /\ \E C \in SUBSET Companions(th[t].m) : Flush(t, C \cup {th[t].m})
       \/ Done(t) /\ UNCHANGED <<page, cluster, stopped>>
    /\ UNCHANGED <<pq, object>>

Stored(s) == [vm_page_undirty(s) EXCEPT !.unsaved = "no"]

\* VM_PAGER_BAD: the page is outside the object's range, and the kernel only pretends that
\* the pageout worked.
Refused(s) == [vm_page_undirty(s) EXCEPT !.unsaved = IF @ = "yes" THEN "refused" ELSE @]

\* What the pager's status makes of a page.
Written(M, p, status) ==
    LET clean == [M EXCEPT !.page[p] = IF status = "OK" THEN Stored(@) ELSE Refused(@)]
        out   == IF M.page[p].queue = "LAUNDRY" THEN vm_page_deactivate(clean, p, TRUE) ELSE clean
        N     == CASE status \in {"OK", "BAD"}     -> out
                   [] status \in {"ERROR", "FAIL"} -> vm_page_activate(M, p)
                   [] OTHER                        -> M
    IN  IF status = "PEND" THEN N ELSE [N EXCEPT !.page[p].busy = "no"]

Status == {"OK", "PEND", "BAD", "ERROR", "FAIL", "AGAIN"}

\* The pager gives the pages of a cluster one status (a bound); they count if they were
\* written or are being written.
put(t) ==
    /\ th[t].pc = "put" /\ ~ObjectLocked /\ QueuesFree /\ \A p \in cluster : ~PageLocked(p)
    /\ \E status \in Status :
         LET n == IF status \in {"OK", "PEND"} THEN Cardinality(cluster) ELSE 0
         IN  /\ KASSERT(status = "PEND" \/ \A p \in cluster : page[p].map \notin {"rw", "mod"})
             /\ Becomes(FoldSet(LAMBDA p, M : Written(M, p, status), memory, cluster))
             /\ th' = [th EXCEPT ![t].pc = "relock", ![t].want = Max({@ - n, 0}),
                              ![t].left = IF n = 0 THEN @ ELSE Max({@ - (n - 1), 0})]
    /\ cluster' = {}
    /\ UNCHANGED object

\* The end of a write that was pending.
iodone(p) ==
    /\ page[p].busy = "s" /\ page[p].content = "dirty" /\ p \notin cluster
    /\ ~PageLocked(p) /\ QueuesFree
    /\ \E status \in {"OK", "ERROR"} : Becomes(Written(memory, p, status))
    /\ UNCHANGED <<object, th, cluster, stopped>>

-----------------------------------------------------------------------------
(* Users of the pages.                                                     *)

\* A user has the lock of page p, and of the object and the queues where its call takes
\* them.
UserLocks(p) == ~PageLocked(p) /\ ~ObjectLocked /\ QueuesFree
Idle(p) == page[p].resident /\ page[p].busy = "no"
Pinnable(p) == p \in use.pins /\ page[p].resident /\ page[p].busy # "x" /\ page[p].pin = "no"
Only == UNCHANGED <<object, th, cluster>>

\* The page is exclusively busy, or what VM_ALLOC_SBUSY, VM_ALLOC_NOBUSY and
\* VM_ALLOC_WIRED make of it.
vm_page_alloc(p) ==
    /\ p \in use.allocates /\ UserLocks(p) /\ ~page[p].resident /\ page[p].pin = "no" /\ object # "dead"
    /\ \E busy \in {"x", "s", "no"}, pin \in {"no", "wired"} :
         /\ (busy = "x" /\ pin = "no") \/ p \in use.pins
         /\ page' = [page EXCEPT ![p] = [FreePage EXCEPT !.resident = TRUE, !.busy = busy, !.pin = pin,
                                           !.queue = IF busy = "x" THEN "NONE" ELSE "OFF"]]
    /\ KASSERT(page[p] = [FreePage EXCEPT !.unsaved = page[p].unsaved])
    /\ UNCHANGED pq /\ Only

\* An exclusively busy page is filled from the store and queued, or could not be filled
\* and is freed.
fill(p) ==
    /\ UserLocks(p) /\ page[p].busy = "x"
    /\ LET M == [memory EXCEPT !.page[p].busy = "no"]
           N == [M EXCEPT !.page[p].content = "clean"]
       IN  \/ Becomes(vm_page_activate(N, p)) /\ UNCHANGED stopped
           \/ /\ page[p].pin # "wired"
              /\ Becomes(vm_page_free(memory, p)) /\ KASSERT(FreeAsserts(page[p]))
    /\ Only

\* A page that is not exclusively busy gets its contents, and a shared one is released.
vm_page_set_valid_range(p) ==
    /\ UserLocks(p) /\ page[p].resident /\ page[p].busy # "x" /\ page[p].content = "invalid"
    /\ page' = [page EXCEPT ![p].content = "clean"]
    /\ UNCHANGED <<pq, stopped>> /\ Only

vm_page_sunbusy(p) ==
    /\ page[p].busy = "s" /\ page[p].content # "dirty" /\ p \notin cluster
    /\ page' = [page EXCEPT ![p].busy = "no"]
    /\ UNCHANGED <<pq, stopped>> /\ Only

\* A fault on a resident page, for writing; a mapping for reading is what
\* pmap_remove_write leaves.
fault(p) ==
    /\ p \in use.maps /\ UserLocks(p) /\ Idle(p) /\ page[p].content # "invalid" /\ object = "mapped"
    /\ page[p].map \in {"none", "ro"} /\ page' = [page EXCEPT ![p].map = "rw"]
    /\ UNCHANGED <<pq, stopped>> /\ Only

\* The processor writes through a mapping; it asks for no lock.
write(p) ==
    /\ page[p].map \in {"rw", "mod"}
    /\ page' = [page EXCEPT ![p].map = "mod", ![p].unsaved = "yes"]
    /\ UNCHANGED <<pq, stopped>> /\ Only

\* A mapping goes away with the map entry; pmap_remove asks for no lock of ours.
unmap(p) ==
    /\ page[p].map # "none" /\ page' = [page EXCEPT ![p] = pmap_remove_all(@)]
    /\ UNCHANGED <<pq, stopped>> /\ Only

vm_page_hold(p) ==
    /\ UserLocks(p) /\ Pinnable(p)
    /\ page' = [page EXCEPT ![p].pin = "held"]
    /\ UNCHANGED <<pq, stopped>> /\ Only

vm_page_unhold(p) ==
    /\ UserLocks(p) /\ page[p].pin = "held"
    /\ page' = [page EXCEPT ![p].pin = "no"]
    /\ UNCHANGED <<pq, stopped>> /\ Only

vm_page_wire(p) ==
    /\ UserLocks(p) /\ Pinnable(p)
    /\ Becomes([vm_page_dequeue(memory, p) EXCEPT !.page[p].pin = "wired"])
    /\ UNCHANGED stopped /\ Only

\* The page goes to the queue that the caller names, or to none (PQ_NONE).
vm_page_unwire(p) ==
    /\ UserLocks(p) /\ page[p].pin = "wired"
    /\ LET M == [memory EXCEPT !.page[p].pin = "no"]
       IN  \/ \E q \in Queue : Becomes(vm_page_enqueue(M, q, p))
           \/ Becomes([M EXCEPT !.page[p].queue = "OFF"])
    /\ UNCHANGED stopped /\ Only

\* vm_page_deactivate, vm_page_launder and vm_page_activate by users, and what
\* vm_page_advise makes of MADV_FREE, MADV_DONTNEED and MADV_WILLNEED.
vm_page_advise(p) ==
    /\ UserLocks(p) /\ Idle(p)
    /\ LET freed  == IF page[p].content = "dirty" /\ page[p].map # "mod" THEN Stored(page[p])
                     ELSE vm_page_undirty(page[p])
           tested == vm_page_test_dirty(page[p])
       IN  \/ Becomes(vm_page_deactivate([memory EXCEPT !.page[p] = freed], p, TRUE))
           \/ /\ tested.content # "dirty" /\ Becomes(vm_page_deactivate(memory, p, TRUE))
           \/ /\ tested.content = "dirty"
              /\ Becomes(vm_page_launder([memory EXCEPT !.page[p] = tested], p))
           \/ Becomes(vm_page_activate(memory, p))
           \/ Becomes(vm_page_deactivate(memory, p, FALSE))
    /\ UNCHANGED stopped /\ Only

vm_page_try_to_free(p) ==
    /\ UserLocks(p) /\ Idle(p) /\ page[p].content # "dirty" /\ page[p].pin = "no"
    /\ LET s == IF object = "mapped" THEN pmap_remove_all(page[p]) ELSE page[p]
           M == [memory EXCEPT !.page[p] = s]
       IN  IF s.content = "dirty" THEN Becomes(M) /\ UNCHANGED stopped
           ELSE Becomes(vm_page_free(M, p)) /\ KASSERT(FreeAsserts(s))
    /\ Only

\* vm_page_set_invalid: the range of the file is cut off.
vm_page_set_invalid(p) ==
    /\ UserLocks(p) /\ Idle(p) /\ page[p].content # "invalid"
    /\ LET s == IF object = "mapped" THEN pmap_remove_all(page[p]) ELSE page[p]
       IN  /\ page' = [page EXCEPT ![p] = [s EXCEPT !.content = "invalid", !.unsaved = "no"]]
           /\ KASSERT(s.map = "none")
    /\ UNCHANGED pq /\ Only

-----------------------------------------------------------------------------
(* The object.                                                             *)

\* The last mapping of the object goes, or the first one comes.
reference ==
    /\ ~ObjectLocked /\ object # "dead"
    /\ object' = IF object = "mapped" THEN "unmapped" ELSE "mapped"
    /\ page' = [p \in Page |-> pmap_remove_all(page[p])]
    /\ UNCHANGED <<pq, th, cluster, stopped>>

\* OBJ_DEAD is set once no page of the object is being written.
terminate ==
    /\ ~ObjectLocked /\ object = "unmapped" /\ \A p \in Page : page[p].busy = "no"
    /\ th["laundry"].pc # "vget"
    /\ object' = "dead"
    /\ UNCHANGED <<page, pq, th, cluster, stopped>>

\* The thread that destroys the object frees its pages; then there is a new object.
vm_object_terminate(p) ==
    /\ UserLocks(p) /\ object = "dead" /\ Idle(p) /\ page[p].pin # "wired"
    /\ Becomes(vm_page_free([memory EXCEPT !.page[p].unsaved = "no"], p))
    /\ KASSERT(FreeAsserts(page[p])) /\ Only

renew ==
    /\ object = "dead" /\ ~ObjectLocked /\ \A p \in Page : ~page[p].resident
    /\ object' = "mapped"
    /\ UNCHANGED <<page, pq, th, cluster, stopped>>

-----------------------------------------------------------------------------
Daemon(t) ==
    \/ Begin(t) \/ Lock(t) \/ SkipMarker(t) \/ TryPage(t) \/ WaitPage(t)
    \/ WaitObject(t) \/ Relock(t) \/ Work(t) \/ Referenced(t) \/ RemoveFree(t)
    \/ RemoveDirty(t) \/ Clean(t) \/ vget(t) \/ put(t)

User(p) ==
    \/ vm_page_alloc(p) \/ fill(p) \/ vm_page_set_valid_range(p) \/ vm_page_sunbusy(p) \/ fault(p) \/ write(p) \/ unmap(p)
    \/ vm_page_hold(p) \/ vm_page_unhold(p) \/ vm_page_wire(p) \/ vm_page_unwire(p)
    \/ vm_page_advise(p) \/ vm_page_try_to_free(p) \/ vm_page_set_invalid(p)
    \/ vm_object_terminate(p) \/ iodone(p)

Next ==
    /\ stopped = "no" /\ UNCHANGED use
    /\ (\E t \in Thread : Daemon(t)) \/ (\E p \in Page : User(p)) \/ reference \/ terminate \/ renew

Spec == Init /\ [][Next]_vars

-----------------------------------------------------------------------------
(* Properties.                                                             *)

\* Every page is on the one queue that m->queue names, once.  A wired or free page is on
\* none; a page that nobody has busied or wired is on one, where it will be found again,
\* unless the scan has it in hand, its object is dead, or it was allocated without
\* exclusive busy (VM_ALLOC_NOBUSY, VM_ALLOC_SBUSY) or unwired to PQ_NONE and no one has
\* queued it since.  A marker is in its queue exactly while its thread is away.
QueuesMatchPages ==
    /\ TypeOK
    /\ \A p \in Page, q \in Queue :
         Cardinality({i \in DOMAIN pq[q] : pq[q][i] = p}) = IF page[p].queue = q THEN 1 ELSE 0
    /\ \A p \in Page : page[p].pin = "wired" \/ ~page[p].resident => page[p].queue \notin Queue
    /\ \A p \in Page :
         page[p].resident /\ page[p].pin # "wired" /\ page[p].busy = "no" /\ page[p].queue = "NONE"
             => object = "dead" \/ th["scan"].m = p
    /\ \A t \in Thread :
         t \in Range(pq[QueueOf(t)]) <=>
             th[t].pc \in {"wait_page", "wait_object", "work", "remove", "vget", "put", "relock"}

\* What a process has written is not thrown away by the page daemon, the laundry or
\* vm_page_try_to_free: until it is stored, the page stays and is dirty, or the pmap
\* still knows (vm_page_test_dirty, pmap_remove_all, StillToClean).  The one exception is
\* a page that the pager has refused with VM_PAGER_BAD, whose changes vm_pageout_flush
\* gives up.
NoWriteIsLost ==
    \A p \in Page : page[p].unsaved # "no" =>
        \/ page[p].unsaved = "refused"
        \/ page[p].resident /\ (page[p].content = "dirty" \/ page[p].map = "mod")

\* The assertions of vm_page_free_prep, vm_page_alloc_check, vm_pageout_flush and of the
\* marker functions hold.
AssertionsHold == stopped # "assertion"

\* FIFO: the scan takes a page only if it has left every page before it in the queue in
\* place because it was busy or held.
ScanTakesTheOldest ==
    [][ \A p \in Page :
          th["scan"].m = p /\ th["scan"].pc # "work" /\ th'["scan"].pc = "work" =>
              \A i \in 1 .. Place(pq["INACTIVE"], p) - 1 : pq["INACTIVE"][i] \in Page =>
                  pq["INACTIVE"][i] \in th["scan"].skipped ]_vars
=============================================================================
