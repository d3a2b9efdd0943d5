-------------------------- MODULE PageQueuesProofs --------------------------
(***************************************************************************)
(* Proofs about the page queues, the page-out scan and the laundry, for    *)
(* any set of pages and any workload.                                      *)
(***************************************************************************)
EXTENDS PageQueues, FiniteSetTheorems, WellFoundedInduction, TLAPS

-----------------------------------------------------------------------------
(* The inductive invariant.                                                *)

\* What a queue may hold, and what is in front of an entry.
Entry == Page \cup Thread \cup {"inacthead"}
Distinct(s) == \A i, j \in 1 .. Len(s) : s[i] = s[j] => i = j
Before(s, e) == {s[i] : i \in 1 .. Place(s, e) - 1}

\* A memory whose queues have each page where the page says it is.
Good(M) ==
    /\ M \in [page : [Page -> PageState], pq : [Queue -> Seq(Entry)]]
    /\ \A q \in Queue : Distinct(M.pq[q])
    /\ \A p \in Page, q \in Queue : p \in Range(M.pq[q]) <=> M.page[p].queue = q

\* A page by itself, with its object in state o.
PageOK(s, o) ==
    /\ ~s.resident => s.queue = "NONE" /\ s.busy = "no" /\ s.content = "invalid" /\ s.pin # "wired"
    /\ s.pin = "wired" => s.queue \notin Queue
    /\ s.busy = "x" => s.content = "invalid"
    /\ s.busy = "s" => s.map \in {"none", "ro"}
    /\ s.content = "invalid" => s.map = "none"
    /\ s.unsaved = "yes" => s.resident /\ (s.content = "dirty" \/ s.map = "mod")
    /\ o # "mapped" => s.map = "none"
    /\ o = "dead" => s.busy = "no"

\* A page that nobody fills or has wired is on a queue, or its user wants it on none; with
\* inhand, the scan has it.
Homed(s, o, inhand) ==
    s.resident /\ s.pin # "wired" /\ s.busy # "x" /\ s.queue = "NONE" => o = "dead" \/ inhand
InHand(k, p) == k.m = p /\ k.pc \in {"work", "remove"}

Away == {"wait_page", "wait_object", "work", "remove", "vget", "put", "relock"}

ThreadState == [pc : Label, m : Entry \cup {NoPage}, left : 0 .. Cardinality(Page), want : 0 .. Target,
                skipped : SUBSET Page]

\* The thread t, in state k, with the memory M.
ThreadOK(t, k, M) ==
    /\ k \in ThreadState
    /\ \A q \in Queue : t \in Range(M.pq[q]) <=> q = QueueOf(t) /\ k.pc \in Away
    /\ k.pc = "page" => k.m \in Range(M.pq[QueueOf(t)])
    /\ k.pc \in {"page", "wait_page", "wait_object"} => k.left > 0 /\ k.want > 0
    /\ k.pc \in {"wait_page", "wait_object", "work", "remove", "vget"} => k.m \in Page
    /\ k.pc \in {"work", "remove"} =>
          /\ k.want > 0 /\ M.page[k.m].resident /\ M.page[k.m].busy = "no" /\ M.page[k.m].pin = "no"
          /\ M.page[k.m].queue = IF t = "scan" THEN "NONE" ELSE "LAUNDRY"
    /\ k.pc = "remove" => M.page[k.m].content # "invalid"
    /\ k.pc \in {"vget", "put"} => t = "laundry"

\* Every page in front of the place of the scan, in state k, in the inactive queue s has
\* been left there because it was busy or held.  While the scan waits, its page is still
\* the last one in front of the marker or is no longer in front of it.
FifoOK(k, s) ==
    /\ k.pc = "page" => Before(s, k.m) \cap Page \subseteq k.skipped
    /\ k.pc \in {"wait_page", "wait_object"} =>
          /\ Before(s, "scan") \cap Page \subseteq k.skipped \cup {k.m}
          /\ k.m \in Before(s, "scan") => Before(s, "scan") \ {k.m} \subseteq Before(s, k.m)
    /\ k.pc \in {"work", "remove", "relock"} => Before(s, "scan") \cap Page \subseteq k.skipped

\* The two threads do not both have the lock of the object.
Alone(h) == ~\A t \in Thread : h[t].pc \in {"work", "remove"}

\* The pages that the pager has are shared busy.
ClusterOK(c, pg, h) ==
    c \subseteq Page /\ (\A p \in c : pg[p].busy = "s") /\ (c # {} => h["laundry"].pc = "put")

PagesInv   == Good(memory) /\ \A p \in Page : PageOK(page[p], object) /\ Homed(page[p], object, InHand(th["scan"], p))
ThreadsInv == /\ th \in [Thread -> ThreadState] /\ (\A t \in Thread : ThreadOK(t, th[t], memory)) /\ Alone(th)
              /\ FifoOK(th["scan"], pq["INACTIVE"])
RestInv    == /\ ClusterOK(cluster, page, th) /\ stopped \in {"no", "statistics"}
              /\ object \in {"mapped", "unmapped", "dead"} /\ use \in Workload
              /\ object = "dead" => th["laundry"].pc # "vget"

IInv == PagesInv /\ ThreadsInv /\ RestInv

-----------------------------------------------------------------------------
(* Queues as sequences.                                                    *)

\* The place of an entry.
LEMMA PlaceIs == ASSUME NEW s, NEW i \in DOMAIN s PROVE Place(s, s[i]) \in DOMAIN s /\ s[Place(s, s[i])] = s[i]
<1>1. \E j \in DOMAIN s : s[j] = s[i]  OBVIOUS
<1>2. QED  BY <1>1, Zenon DEF Place

\* The entry i of a queue without repetitions, and what is in front of it.
LEMMA PlaceOf ==
    ASSUME NEW T, NEW s \in Seq(T), Distinct(s), NEW i \in 1 .. Len(s)
    PROVE  Place(s, s[i]) = i /\ Before(s, s[i]) = {s[j] : j \in 1 .. i - 1}
<1>1. i \in DOMAIN s /\ DOMAIN s = 1 .. Len(s)  OBVIOUS
<1>2. Place(s, s[i]) \in 1 .. Len(s) /\ s[Place(s, s[i])] = s[i]  BY <1>1, PlaceIs
<1>3. Place(s, s[i]) = i  BY <1>2 DEF Distinct
<1>4. QED  BY <1>3, Zenon DEF Before

\* The entries of a queue.
LEMMA InRange == ASSUME NEW T, NEW s \in Seq(T) PROVE \A e : e \in Range(s) <=> \E i \in 1 .. Len(s) : e = s[i]
  BY DEF Range

\* Two sequences, one after the other.
LEMMA Concat ==
    ASSUME NEW T, NEW a \in Seq(T), NEW b \in Seq(T)
    PROVE  /\ a \o b \in Seq(T) /\ Len(a \o b) = Len(a) + Len(b)
           /\ \A i \in 1 .. Len(a) : (a \o b)[i] = a[i]
           /\ \A i \in Len(a) + 1 .. Len(a) + Len(b) : (a \o b)[i] = b[i - Len(a)]
  OBVIOUS

\* r is s, but for entries of C that have left or come at the end: what stays has nothing
\* in front of it that was not there, and in the same order.
Moves(s, r, C) ==
    /\ r \in Seq(Entry) /\ Distinct(r)
    /\ \A e : e \notin C => (e \in Range(r) <=> e \in Range(s))
    /\ \A e \in Range(s) \ C :
          /\ Before(r, e) \subseteq Before(s, e)
          /\ \A y \in Before(r, e) : Before(s, y) \cap Before(r, e) \subseteq Before(r, y)

\* What is in front of an entry is in the queue.
LEMMA BeforeIn ==
    ASSUME NEW s \in Seq(Entry), Distinct(s), NEW e \in Range(s)
    PROVE  /\ Before(s, e) \subseteq Range(s) \ {e}
           /\ \A x \in Before(s, e) : e \notin Before(s, x)
<1>1. \A y : y \in Range(s) <=> \E i \in 1 .. Len(s) : y = s[i]  BY InRange
<1>2. PICK k \in 1 .. Len(s) : s[k] = e  BY <1>1
<1>3. Before(s, s[k]) = {s[j] : j \in 1 .. k - 1}  BY PlaceOf
<1>4. ASSUME NEW x \in Before(s, e) PROVE x \in Range(s) \ {e} /\ e \notin Before(s, x)
  <2>1. PICK j \in 1 .. k - 1 : x = s[j]  BY <1>2, <1>3, <1>4
  <2>2. j \in 1 .. Len(s) /\ j # k /\ \A i \in 1 .. j - 1 : i \in 1 .. Len(s) /\ i # k  OBVIOUS
  <2>3. Before(s, s[j]) = {s[i] : i \in 1 .. j - 1}  BY <2>2, PlaceOf
  <2>4. x \in Range(s) /\ x # e  BY <1>1, <1>2, <2>1, <2>2 DEF Distinct
  <2>5. ASSUME NEW i \in 1 .. j - 1 PROVE s[i] # e  BY <1>2, <2>2 DEF Distinct
  <2>6. QED  BY <2>1, <2>3, <2>4, <2>5
<1>5. QED  BY <1>4

\* TAILQ_REMOVE.
LEMMA Removed ==
    ASSUME NEW s \in Seq(Entry), Distinct(s), NEW x \in Range(s)
    PROVE  /\ Moves(s, TAILQ_REMOVE(s, x), {x}) /\ Range(TAILQ_REMOVE(s, x)) = Range(s) \ {x}
           /\ \A e \in Range(s) \ {x} : Before(TAILQ_REMOVE(s, x), e) = Before(s, e) \ {x}
<1>1. PICK k \in 1 .. Len(s) : s[k] = x  BY InRange
<1>2. Place(s, x) = k  BY <1>1, PlaceOf
<1> DEFINE r == SubSeq(s, 1, k - 1) \o SubSeq(s, k + 1, Len(s))
<1>3. TAILQ_REMOVE(s, x) = r  BY <1>2, Zenon DEF TAILQ_REMOVE, RemoveAt
<1>4. /\ r \in Seq(Entry) /\ Len(r) = Len(s) - 1 /\ Len(s) \in Nat
      /\ \A j \in 1 .. Len(s) - 1 : r[j] = IF j < k THEN s[j] ELSE s[j + 1]
  <2>1. SubSeq(s, 1, k - 1) \in Seq(Entry) /\ Len(SubSeq(s, 1, k - 1)) = k - 1
        /\ \A j \in 1 .. k - 1 : SubSeq(s, 1, k - 1)[j] = s[j]
    OBVIOUS
  <2>2. SubSeq(s, k + 1, Len(s)) \in Seq(Entry) /\ Len(SubSeq(s, k + 1, Len(s))) = Len(s) - k
        /\ \A j \in 1 .. Len(s) - k : SubSeq(s, k + 1, Len(s))[j] = s[k + j]
    OBVIOUS
  <2> DEFINE a == SubSeq(s, 1, k - 1)
             b == SubSeq(s, k + 1, Len(s))
  <2>3. a \in Seq(Entry) /\ b \in Seq(Entry) /\ Len(a) = k - 1 /\ Len(b) = Len(s) - k  BY <2>1, <2>2
  <2>4. r = a \o b /\ Len(s) \in Nat /\ k \in Nat  OBVIOUS
  <2>5. \A j \in 1 .. k - 1 : a[j] = s[j]  BY <2>1
  <2>6. \A j \in 1 .. Len(s) - k : b[j] = s[k + j]  BY <2>2
  <2> HIDE DEF a, b, r
  <2>7. ASSUME NEW j \in 1 .. Len(s) - 1 PROVE r[j] = IF j < k THEN s[j] ELSE s[j + 1]
    <3>1. CASE j < k
      <4>1. j \in 1 .. Len(a) /\ j \in 1 .. k - 1  BY <2>3, <2>4, <3>1
      <4>2. QED  BY <2>3, <2>4, <2>5, <3>1, <4>1, Concat
    <3>2. CASE ~(j < k)
      <4>1. j \in Len(a) + 1 .. Len(a) + Len(b) /\ j - Len(a) \in 1 .. Len(s) - k  BY <2>3, <2>4, <3>2
      <4>2. k + (j - Len(a)) = j + 1  BY <2>3, <2>4
      <4>3. QED  BY <2>3, <2>4, <2>6, <3>2, <4>1, <4>2, Concat
    <3>3. QED  BY <3>1, <3>2
  <2>8. r \in Seq(Entry) /\ Len(r) = Len(a) + Len(b)  BY <2>3, <2>4, Concat
  <2>9. Len(r) = Len(s) - 1  BY <2>3, <2>4, <2>8
  <2>10. QED  BY <2>4, <2>7, <2>8, <2>9
<1> HIDE DEF r
<1>5. \A i \in 1 .. Len(s) : i # k => \E j \in 1 .. Len(r) : r[j] = s[i] /\ j = IF i < k THEN i ELSE i - 1
  <2> SUFFICES ASSUME NEW i \in 1 .. Len(s), i # k
               PROVE  \E j \in 1 .. Len(r) : r[j] = s[i] /\ j = IF i < k THEN i ELSE i - 1
    OBVIOUS
  <2>1. CASE i < k
    <3>1. i \in 1 .. Len(r) /\ r[i] = s[i]  BY <1>4, <2>1
    <3>2. QED  BY <2>1, <3>1
  <2>2. CASE ~(i < k)
    <3>1. i - 1 \in 1 .. Len(r) /\ r[i - 1] = s[i]  BY <1>4, <2>2
    <3>2. QED  BY <2>2, <3>1
  <2>3. QED  BY <2>1, <2>2
<1>6. Distinct(r)  BY <1>4 DEF Distinct
<1>7. Range(r) = Range(s) \ {x}
  <2>1. \A e : e \in Range(r) <=> \E i \in 1 .. Len(r) : e = r[i]  BY <1>4, InRange
  <2>2. \A e : e \in Range(s) <=> \E i \in 1 .. Len(s) : e = s[i]  BY InRange
  <2>3. ASSUME NEW e \in Range(r) PROVE e \in Range(s) /\ e # x
    <3>1. PICK i \in 1 .. Len(r) : e = r[i]  BY <2>1
    <3>2. i \in 1 .. Len(s) /\ i + 1 \in 1 .. Len(s)  BY <1>4, <3>1
    <3>3. PICK j \in 1 .. Len(s) : e = s[j] /\ j # k  BY <1>4, <3>1, <3>2
    <3>4. QED  BY <1>1, <2>2, <3>3 DEF Distinct
  <2>4. ASSUME NEW e \in Range(s), e # x PROVE e \in Range(r)
    <3>1. PICK i \in 1 .. Len(s) : e = s[i]  BY <2>2
    <3>2. i # k  BY <1>1, <2>4, <3>1
    <3>3. QED  BY <1>5, <2>1, <3>1, <3>2
  <2>5. QED  BY <2>3, <2>4
<1>8. ASSUME NEW e \in Range(s) \ {x} PROVE Before(r, e) = Before(s, e) \ {x}
  <2>1. PICK i \in 1 .. Len(s) : e = s[i]  BY InRange
  <2>2. i # k  BY <1>1, <1>8, <2>1
  <2>3. PICK m \in 1 .. Len(r) : r[m] = s[i] /\ m = IF i < k THEN i ELSE i - 1  BY <1>5, <2>2
  <2>4. Before(r, e) = {r[j] : j \in 1 .. m - 1}
    <3>1. Before(r, r[m]) = {r[j] : j \in 1 .. m - 1}  BY <1>4, <1>6, PlaceOf
    <3>2. QED  BY <2>1, <2>3, <3>1
  <2>5. Before(s, e) = {s[j] : j \in 1 .. i - 1}  BY <2>1, PlaceOf
  <2>6. ASSUME NEW j \in 1 .. m - 1 PROVE r[j] \in {s[l] : l \in 1 .. i - 1} \ {x}
    <3>1. j \in 1 .. Len(s) - 1  BY <1>4, <2>3
    <3>2. CASE j < k
      <4>1. r[j] = s[j] /\ j \in 1 .. i - 1 /\ j # k /\ j \in 1 .. Len(s)  BY <1>4, <2>3, <3>1, <3>2
      <4>2. s[j] # x  BY <1>1, <4>1 DEF Distinct
      <4>3. QED  BY <4>1, <4>2
    <3>3. CASE ~(j < k)
      <4>1. r[j] = s[j + 1] /\ j + 1 \in 1 .. i - 1 /\ j + 1 # k /\ j + 1 \in 1 .. Len(s)  BY <1>4, <2>3, <3>1, <3>3
      <4>2. s[j + 1] # x  BY <1>1, <4>1 DEF Distinct
      <4>3. QED  BY <4>1, <4>2
    <3>4. QED  BY <3>2, <3>3
  <2>7. ASSUME NEW l \in 1 .. i - 1, s[l] # x PROVE s[l] \in {r[j] : j \in 1 .. m - 1}
    <3>1. l \in 1 .. Len(s) /\ l # k  BY <1>1, <2>7
    <3>2. PICK j \in 1 .. Len(r) : r[j] = s[l] /\ j = IF l < k THEN l ELSE l - 1  BY <1>5, <3>1
    <3>3. j \in 1 .. m - 1  BY <2>2, <2>3, <3>1, <3>2
    <3>4. QED  BY <3>2, <3>3
  <2>8. QED  BY <2>4, <2>5, <2>6, <2>7
<1>9. ASSUME NEW e \in Range(s) \ {x}, NEW y \in Before(r, e) PROVE Before(s, y) \cap Before(r, e) \subseteq Before(r, y)
  <2>1. Before(r, e) = Before(s, e) \ {x} /\ Before(s, e) \subseteq Range(s)  BY <1>8, BeforeIn
  <2>2. y \in Range(s) \ {x}  BY <2>1
  <2>3. Before(r, y) = Before(s, y) \ {x}  BY <1>8, <2>2
  <2>4. QED  BY <2>1, <2>3
<1>10. Moves(s, r, {x})  BY <1>4, <1>6, <1>7, <1>8, <1>9 DEF Moves
<1>11. QED  BY <1>3, <1>7, <1>8, <1>10

\* TAILQ_INSERT_TAIL.
LEMMA Appended ==
    ASSUME NEW s \in Seq(Entry), Distinct(s), NEW x \in Entry, x \notin Range(s)
    PROVE  Moves(s, Append(s, x), {x}) /\ Range(Append(s, x)) = Range(s) \cup {x}
<1> DEFINE r == Append(s, x)
<1>1. /\ r \in Seq(Entry) /\ Len(r) = Len(s) + 1 /\ Len(s) \in Nat
      /\ (\A j \in 1 .. Len(s) : r[j] = s[j]) /\ r[Len(s) + 1] = x
  OBVIOUS
<1> HIDE DEF r
<1>2. \A e : e \in Range(s) <=> \E i \in 1 .. Len(s) : e = s[i]  BY InRange
<1>3. \A e : e \in Range(r) <=> \E i \in 1 .. Len(r) : e = r[i]  BY <1>1, InRange
<1>4. Distinct(r)
  <2>1. ASSUME NEW i \in 1 .. Len(r), NEW j \in 1 .. Len(r), r[i] = r[j] PROVE i = j
    <3>1. i \in 1 .. Len(s) \/ i = Len(s) + 1  BY <1>1
    <3>2. j \in 1 .. Len(s) \/ j = Len(s) + 1  BY <1>1
    <3>3. QED  BY <1>1, <1>2, <2>1, <3>1, <3>2 DEF Distinct
  <2>2. QED  BY <2>1 DEF Distinct
<1>5. Range(r) = Range(s) \cup {x}
  <2>1. ASSUME NEW e \in Range(r) PROVE e \in Range(s) \cup {x}
    <3>1. PICK i \in 1 .. Len(r) : e = r[i]  BY <1>3
    <3>2. i \in 1 .. Len(s) \/ i = Len(s) + 1  BY <1>1
    <3>3. QED  BY <1>1, <1>2, <3>1, <3>2
  <2>2. ASSUME NEW e \in Range(s) PROVE e \in Range(r)
    <3>1. PICK i \in 1 .. Len(s) : e = s[i]  BY <1>2
    <3>2. i \in 1 .. Len(r)  BY <1>1
    <3>3. QED  BY <1>1, <1>3, <3>1, <3>2
  <2>3. x \in Range(r)
    <3>1. Len(s) + 1 \in 1 .. Len(r)  BY <1>1
    <3>2. QED  BY <1>1, <1>3, <3>1
  <2>4. QED  BY <2>1, <2>2, <2>3
<1>6. ASSUME NEW e \in Range(s) \ {x} PROVE Before(r, e) = Before(s, e)
  <2>1. PICK i \in 1 .. Len(s) : e = s[i]  BY <1>2
  <2>2. i \in 1 .. Len(r) /\ r[i] = e  BY <1>1, <2>1
  <2>3. Before(r, r[i]) = {r[j] : j \in 1 .. i - 1}  BY <1>1, <1>4, <2>2, PlaceOf
  <2>4. Before(s, s[i]) = {s[j] : j \in 1 .. i - 1}  BY PlaceOf
  <2>5. \A j \in 1 .. i - 1 : r[j] = s[j]  BY <1>1
  <2>6. QED  BY <2>1, <2>2, <2>3, <2>4, <2>5
<1>7. ASSUME NEW e \in Range(s) \ {x}, NEW y \in Before(r, e) PROVE Before(s, y) \cap Before(r, e) \subseteq Before(r, y)
  <2>1. y \in Range(s) \ {x}  BY <1>6, BeforeIn
  <2>2. QED  BY <1>6, <2>1
<1>8. Moves(s, r, {x})  BY <1>1, <1>4, <1>5, <1>6, <1>7 DEF Moves
<1>9. QED  BY <1>5, <1>8 DEF r

\* TAILQ_INSERT_AFTER, of a marker.
LEMMA Inserted ==
    ASSUME NEW s \in Seq(Entry), Distinct(s), NEW e \in Range(s), NEW x \in Entry, x \notin Range(s)
    PROVE  /\ InsertAfter(s, e, x) \in Seq(Entry) /\ Distinct(InsertAfter(s, e, x))
           /\ Range(InsertAfter(s, e, x)) = Range(s) \cup {x}
           /\ Before(InsertAfter(s, e, x), x) = Before(s, e) \cup {e}
           /\ Before(InsertAfter(s, e, x), e) = Before(s, e)
<1>1. \A y : y \in Range(s) <=> \E i \in 1 .. Len(s) : y = s[i]  BY InRange
<1>2. PICK k \in 1 .. Len(s) : s[k] = e  BY <1>1
<1>3. Place(s, e) = k  BY <1>2, PlaceOf
<1> DEFINE a == SubSeq(s, 1, k)
           b == SubSeq(s, k + 1, Len(s))
           r == (a \o <<x>>) \o b
<1>4. InsertAfter(s, e, x) = r
  <2>1. InsertAfter(s, e, x) = SubSeq(s, 1, (k + 1) - 1) \o <<x>> \o SubSeq(s, k + 1, Len(s))
    BY <1>3, Zenon DEF InsertAfter, InsertAt
  <2>2. (k + 1) - 1 = k  OBVIOUS
  <2>3. QED  BY <2>1, <2>2
<1>5. a \in Seq(Entry) /\ Len(a) = k /\ (\A j \in 1 .. k : a[j] = s[j]) /\ Len(s) \in Nat  OBVIOUS
<1>6. b \in Seq(Entry) /\ Len(b) = Len(s) - k /\ (\A j \in 1 .. Len(s) - k : b[j] = s[k + j])  OBVIOUS
<1> HIDE DEF a, b
<1> DEFINE c == a \o <<x>>
<1>7. c \in Seq(Entry) /\ Len(c) = k + 1 /\ (\A j \in 1 .. k : c[j] = s[j]) /\ c[k + 1] = x
  <2>1. <<x>> \in Seq(Entry) /\ Len(<<x>>) = 1 /\ <<x>>[1] = x  OBVIOUS
  <2>2. /\ c \in Seq(Entry) /\ Len(c) = Len(a) + Len(<<x>>) /\ (\A i \in 1 .. Len(a) : c[i] = a[i])
        /\ \A i \in Len(a) + 1 .. Len(a) + Len(<<x>>) : c[i] = <<x>>[i - Len(a)]
    BY <1>5, <2>1, Concat
  <2>3. k + 1 \in k + 1 .. k + 1 /\ (k + 1) - k = 1  BY <1>2
  <2> HIDE DEF c
  <2>4. c[k + 1] = <<x>>[(k + 1) - k]  BY <1>5, <2>1, <2>2, <2>3
  <2>5. QED  BY <1>5, <2>1, <2>2, <2>3, <2>4
<1>8. r = c \o b  OBVIOUS
<1> HIDE DEF c, r
<1>9. /\ r \in Seq(Entry) /\ Len(r) = Len(s) + 1
      /\ (\A j \in 1 .. k : r[j] = s[j]) /\ r[k + 1] = x /\ (\A j \in k + 2 .. Len(s) + 1 : r[j] = s[j - 1])
  <2>1. /\ r \in Seq(Entry) /\ Len(r) = Len(c) + Len(b) /\ (\A i \in 1 .. Len(c) : r[i] = c[i])
        /\ \A i \in Len(c) + 1 .. Len(c) + Len(b) : r[i] = b[i - Len(c)]
    BY <1>6, <1>7, <1>8, Concat
  <2>2. Len(r) = Len(s) + 1  BY <1>5, <1>6, <1>7, <2>1
  <2>3. (\A j \in 1 .. k : r[j] = s[j]) /\ r[k + 1] = x  BY <1>7, <2>1
  <2>4. ASSUME NEW j \in k + 2 .. Len(s) + 1 PROVE r[j] = s[j - 1]
    <3>1. j \in Len(c) + 1 .. Len(c) + Len(b) /\ j - Len(c) \in 1 .. Len(s) - k /\ k + (j - Len(c)) = j - 1
      BY <1>5, <1>6, <1>7
    <3>2. r[j] = b[j - Len(c)] /\ b[j - Len(c)] = s[k + (j - Len(c))]  BY <1>6, <2>1, <3>1
    <3>3. QED  BY <3>1, <3>2
  <2>5. QED  BY <2>1, <2>2, <2>3, <2>4
<1>10. Distinct(r)
  <2>1. ASSUME NEW i \in 1 .. Len(r) PROVE (i = k + 1 /\ r[i] = x) \/ \E l \in 1 .. Len(s) : r[i] = s[l] /\ l = IF i <= k THEN i ELSE i - 1
    <3>1. CASE i <= k
      <4>1. i \in 1 .. k /\ i \in 1 .. Len(s)  BY <1>5, <3>1
      <4>2. QED  BY <1>9, <3>1, <4>1
    <3>2. CASE i = k + 1  BY <1>9, <3>2
    <3>3. CASE i > k + 1
      <4>1. i \in k + 2 .. Len(s) + 1 /\ i - 1 \in 1 .. Len(s) /\ ~(i <= k)  BY <1>5, <1>9, <3>3
      <4>2. QED  BY <1>9, <4>1
    <3>4. QED  BY <1>5, <1>9, <3>1, <3>2, <3>3
  <2>2. ASSUME NEW i \in 1 .. Len(r), NEW j \in 1 .. Len(r), r[i] = r[j] PROVE i = j
    <3>1. i \in Int /\ j \in Int  BY <1>5, <1>9
    <3>2. CASE i = k + 1  BY <1>1, <1>9, <2>1, <2>2, <3>2
    <3>3. CASE j = k + 1  BY <1>1, <1>9, <2>1, <2>2, <3>3
    <3>4. CASE i # k + 1 /\ j # k + 1
      <4>1. PICK l \in 1 .. Len(s) : r[i] = s[l] /\ l = IF i <= k THEN i ELSE i - 1  BY <2>1, <3>4
      <4>2. PICK n \in 1 .. Len(s) : r[j] = s[n] /\ n = IF j <= k THEN j ELSE j - 1  BY <2>1, <3>4
      <4>3. l = n  BY <2>2, <4>1, <4>2 DEF Distinct
      <4>4. QED  BY <3>1, <3>4, <4>1, <4>2, <4>3
    <3>5. QED  BY <3>2, <3>3, <3>4
  <2>3. QED  BY <2>2 DEF Distinct
<1>11. Range(r) = Range(s) \cup {x}
  <2>1. \A y : y \in Range(r) <=> \E i \in 1 .. Len(r) : y = r[i]  BY <1>9, InRange
  <2>2. ASSUME NEW y \in Range(r) PROVE y \in Range(s) \cup {x}
    <3>1. PICK i \in 1 .. Len(r) : y = r[i]  BY <2>1
    <3>2. CASE i <= k
      <4>1. i \in 1 .. k /\ i \in 1 .. Len(s)  BY <1>5, <3>2
      <4>2. QED  BY <1>1, <1>9, <3>1, <4>1
    <3>3. CASE i = k + 1  BY <1>9, <3>1, <3>3
    <3>4. CASE i > k + 1
      <4>1. i \in k + 2 .. Len(s) + 1 /\ i - 1 \in 1 .. Len(s)  BY <1>5, <1>9, <3>4
      <4>2. QED  BY <1>1, <1>9, <3>1, <4>1
    <3>5. QED  BY <1>5, <1>9, <3>2, <3>3, <3>4
  <2>3. ASSUME NEW y \in Range(s) PROVE y \in Range(r)
    <3>1. PICK i \in 1 .. Len(s) : y = s[i]  BY <1>1
    <3>2. CASE i <= k
      <4>1. i \in 1 .. k /\ i \in 1 .. Len(r)  BY <1>5, <1>9, <3>2
      <4>2. QED  BY <1>9, <2>1, <3>1, <4>1
    <3>3. CASE ~(i <= k)
      <4>1. i + 1 \in k + 2 .. Len(s) + 1 /\ i + 1 \in 1 .. Len(r) /\ (i + 1) - 1 = i  BY <1>5, <1>9, <3>3
      <4>2. r[i + 1] = s[(i + 1) - 1]  BY <1>9, <4>1
      <4>3. QED  BY <2>1, <3>1, <4>1, <4>2
    <3>4. QED  BY <3>2, <3>3
  <2>4. x \in Range(r)
    <3>1. k + 1 \in 1 .. Len(r)  BY <1>5, <1>9
    <3>2. QED  BY <1>9, <2>1, <3>1
  <2>5. QED  BY <2>2, <2>3, <2>4
<1>12. Before(r, x) = Before(s, e) \cup {e}
  <2>1. k + 1 \in 1 .. Len(r)  BY <1>5, <1>9
  <2>2. Before(r, r[k + 1]) = {r[j] : j \in 1 .. (k + 1) - 1}  BY <1>9, <1>10, <2>1, PlaceOf
  <2>3. Before(s, s[k]) = {s[j] : j \in 1 .. k - 1}  BY PlaceOf
  <2>4. (k + 1) - 1 = k /\ \A j : j \in 1 .. k <=> j \in 1 .. k - 1 \/ j = k  OBVIOUS
  <2>5. \A j \in 1 .. k : r[j] = s[j]  BY <1>9
  <2>6. {r[j] : j \in 1 .. k} = {s[j] : j \in 1 .. k - 1} \cup {s[k]}  BY <2>4, <2>5
  <2>7. QED  BY <1>2, <1>9, <2>2, <2>3, <2>4, <2>6
<1>13. Before(r, e) = Before(s, e)
  <2>1. k \in 1 .. Len(r)  BY <1>5, <1>9
  <2>2. Before(r, r[k]) = {r[j] : j \in 1 .. k - 1}  BY <1>9, <1>10, <2>1, PlaceOf
  <2>3. Before(s, s[k]) = {s[j] : j \in 1 .. k - 1}  BY PlaceOf
  <2>4. r[k] = s[k] /\ \A j \in 1 .. k - 1 : r[j] = s[j]  BY <1>9
  <2>5. QED  BY <1>2, <2>2, <2>3, <2>4
<1>14. QED  BY <1>4, <1>9, <1>10, <1>11, <1>12, <1>13

\* TAILQ_NEXT.
LEMMA Nexts ==
    ASSUME NEW s \in Seq(Entry), Distinct(s), NEW e \in Range(s), TAILQ_NEXT(s, e) # NoPage
    PROVE  /\ TAILQ_NEXT(s, e) \in Range(s) \ {e}
           /\ Before(s, TAILQ_NEXT(s, e)) = Before(s, e) \cup {e}
<1>1. \A y : y \in Range(s) <=> \E i \in 1 .. Len(s) : y = s[i]  BY InRange
<1>2. PICK k \in 1 .. Len(s) : s[k] = e  BY <1>1
<1>3. Place(s, e) = k  BY <1>2, PlaceOf
<1>4. s[Len(s)] # e /\ TAILQ_NEXT(s, e) = s[k + 1]  BY <1>3 DEF TAILQ_NEXT, Last
<1>5. k + 1 \in 1 .. Len(s)
  <2>1. Len(s) \in Nat /\ k # Len(s)  BY <1>2, <1>4
  <2>2. QED  BY <2>1
<1>6. s[k + 1] \in Range(s) \ {e}  BY <1>1, <1>2, <1>5 DEF Distinct
<1>7. Before(s, s[k + 1]) = {s[j] : j \in 1 .. (k + 1) - 1}  BY <1>5, PlaceOf
<1>8. Before(s, s[k]) = {s[j] : j \in 1 .. k - 1}  BY PlaceOf
<1>9. (k + 1) - 1 = k /\ \A j : j \in 1 .. k <=> j \in 1 .. k - 1 \/ j = k  OBVIOUS
<1>10. {s[j] : j \in 1 .. k} = {s[j] : j \in 1 .. k - 1} \cup {s[k]}  BY <1>9
<1>11. QED  BY <1>2, <1>4, <1>6, <1>7, <1>8, <1>9, <1>10

\* TAILQ_PREV.
LEMMA Prevs ==
    ASSUME NEW s \in Seq(Entry), Distinct(s), NEW e \in Range(s), TAILQ_PREV(s, e) # NoPage
    PROVE  /\ TAILQ_PREV(s, e) \in Range(s) \ {e}
           /\ Before(s, e) = Before(s, TAILQ_PREV(s, e)) \cup {TAILQ_PREV(s, e)}
           /\ TAILQ_PREV(s, e) \notin Before(s, TAILQ_PREV(s, e))
<1>1. \A y : y \in Range(s) <=> \E i \in 1 .. Len(s) : y = s[i]  BY InRange
<1>2. PICK k \in 1 .. Len(s) : s[k] = e  BY <1>1
<1>3. Place(s, e) = k  BY <1>2, PlaceOf
<1>4. Head(s) # e /\ TAILQ_PREV(s, e) = s[k - 1]  BY <1>3 DEF TAILQ_PREV
<1>5. k - 1 \in 1 .. Len(s)
  <2>1. k # 1
    <3>1. s # <<>>  BY <1>2
    <3>2. Head(s) = s[1]  BY <3>1
    <3>3. QED  BY <1>2, <1>4, <3>2
  <2>2. QED  BY <2>1
<1>6. s[k - 1] \in Range(s) \ {e}  BY <1>1, <1>2, <1>5 DEF Distinct
<1>7. Before(s, s[k - 1]) = {s[j] : j \in 1 .. (k - 1) - 1}  BY <1>5, PlaceOf
<1>8. Before(s, s[k]) = {s[j] : j \in 1 .. k - 1}  BY PlaceOf
<1>9. \A j : j \in 1 .. k - 1 <=> j \in 1 .. (k - 1) - 1 \/ j = k - 1  BY <1>5
<1>10. {s[j] : j \in 1 .. k - 1} = {s[j] : j \in 1 .. (k - 1) - 1} \cup {s[k - 1]}  BY <1>9
<1>11. s[k - 1] \notin {s[j] : j \in 1 .. (k - 1) - 1}
  <2>1. \A j \in 1 .. (k - 1) - 1 : j \in 1 .. Len(s) /\ j # k - 1  BY <1>5
  <2>2. QED  BY <1>5, <2>1 DEF Distinct
<1>12. QED  BY <1>2, <1>4, <1>6, <1>7, <1>8, <1>10, <1>11

\* TAILQ_FIRST.
LEMMA Firsts ==
    ASSUME NEW s \in Seq(Entry), Distinct(s), s # <<>>
    PROVE  Head(s) \in Range(s) /\ Before(s, Head(s)) = {}
<1>1. 1 \in 1 .. Len(s) /\ Head(s) = s[1]  OBVIOUS
<1>2. Before(s, s[1]) = {s[j] : j \in 1 .. 1 - 1}  BY <1>1, PlaceOf
<1>3. \A j : j \notin 1 .. 1 - 1  OBVIOUS
<1>4. s[1] \in Range(s)  BY <1>1, InRange
<1>5. QED  BY <1>1, <1>2, <1>3, <1>4

\* A queue that has not changed.
LEMMA MovesSelf == ASSUME NEW s \in Seq(Entry), Distinct(s), NEW C PROVE Moves(s, s, C)
  BY DEF Moves

\* Two moves, one after the other, are a move of the pages of both.
LEMMA MovesTwice ==
    ASSUME NEW s, NEW r, NEW u, NEW C, NEW D, Moves(s, r, C), Moves(r, u, D)
    PROVE  Moves(s, u, C \cup D)
<1>1. u \in Seq(Entry) /\ Distinct(u)  BY DEF Moves
<1>2. \A e : e \notin C \cup D => (e \in Range(u) <=> e \in Range(s))  BY DEF Moves
<1>3. ASSUME NEW e \in Range(s) \ (C \cup D)
      PROVE  /\ Before(u, e) \subseteq Before(s, e)
             /\ \A y \in Before(u, e) : Before(s, y) \cap Before(u, e) \subseteq Before(u, y)
  <2>1. e \in Range(s) \ C /\ e \in Range(r) \ D  BY DEF Moves
  <2>2. Before(u, e) \subseteq Before(r, e) /\ Before(r, e) \subseteq Before(s, e)  BY <2>1 DEF Moves
  <2>3. ASSUME NEW y \in Before(u, e), NEW x \in Before(s, y) \cap Before(u, e) PROVE x \in Before(u, y)
    <3>1. x \in Before(r, y)  BY <2>1, <2>2, <2>3 DEF Moves
    <3>2. QED  BY <2>1, <2>3, <3>1 DEF Moves
  <2>4. QED  BY <2>2, <2>3
<1>4. QED  BY <1>1, <1>2, <1>3 DEF Moves

-----------------------------------------------------------------------------
(* Operations on a memory.                                                 *)

\* An operation on the page p of the memory M makes r of it: the page is now s, and no
\* other page has moved.
Makes(M, r, p, s) ==
    /\ Good(r) /\ s \in PageState /\ r.page = [M.page EXCEPT ![p] = s]
    /\ \A q \in Queue : Moves(M.pq[q], r.pq[q], {p})

\* The parts of a memory.
LEMMA GoodHas ==
    ASSUME NEW M, Good(M)
    PROVE  /\ M = [page |-> M.page, pq |-> M.pq] /\ M.page \in [Page -> PageState]
           /\ \A q \in Queue : M.pq[q] \in Seq(Entry) /\ Distinct(M.pq[q])
           /\ \A p \in Page, q \in Queue : p \in Range(M.pq[q]) <=> M.page[p].queue = q
  BY DEF Good

\* A memory from its parts.
LEMMA GoodIs ==
    ASSUME NEW pg \in [Page -> PageState], NEW qs \in [Queue -> Seq(Entry)], \A q \in Queue : Distinct(qs[q]),
           \A p \in Page, q \in Queue : p \in Range(qs[q]) <=> pg[p].queue = q
    PROVE  Good([page |-> pg, pq |-> qs])
  BY DEF Good

\* Two operations in a row.
LEMMA MakesTwice ==
    ASSUME NEW M, Good(M), NEW N, NEW r, NEW p \in Page, NEW s, NEW u, Makes(M, N, p, s), Makes(N, r, p, u)
    PROVE  Makes(M, r, p, u)
<1>1. Good(r) /\ u \in PageState /\ r.page = [N.page EXCEPT ![p] = u] /\ N.page = [M.page EXCEPT ![p] = s]
  BY DEF Makes
<1>2. M.page \in [Page -> PageState]  BY GoodHas
<1>3. r.page = [M.page EXCEPT ![p] = u]  BY <1>1, <1>2
<1>4. ASSUME NEW q \in Queue PROVE Moves(M.pq[q], r.pq[q], {p})
  <2>1. Moves(M.pq[q], N.pq[q], {p}) /\ Moves(N.pq[q], r.pq[q], {p})  BY DEF Makes
  <2>2. Moves(M.pq[q], r.pq[q], {p} \cup {p})  BY <2>1, MovesTwice
  <2>3. {p} \cup {p} = {p}  OBVIOUS
  <2>4. QED  BY <2>2, <2>3
<1>5. QED  BY <1>1, <1>3, <1>4 DEF Makes

\* On the same queue, or both on none.
SameQueue(s, u) == s.queue = u.queue \/ (s.queue \notin Queue /\ u.queue \notin Queue)

\* A page that stays where it is.
LEMMA EditMakes ==
    ASSUME NEW M, Good(M), NEW p \in Page, NEW s \in PageState, SameQueue(s, M.page[p])
    PROVE  Makes(M, [M EXCEPT !.page[p] = s], p, s)
<1> DEFINE r == [M EXCEPT !.page[p] = s]
<1>1. r = [page |-> [M.page EXCEPT ![p] = s], pq |-> M.pq]  BY GoodHas
<1> HIDE DEF r
<1>2. [M.page EXCEPT ![p] = s] \in [Page -> PageState]  BY GoodHas
<1>3. \A x \in Page, q \in Queue : [M.page EXCEPT ![p] = s][x].queue = q <=> M.page[x].queue = q
  BY GoodHas DEF SameQueue
<1>4. M.pq \in [Queue -> Seq(Entry)]  BY DEF Good
<1>5. Good(r)
  <2> DEFINE pg == [M.page EXCEPT ![p] = s]
  <2>1. /\ pg \in [Page -> PageState]
        /\ \A x \in Page, q \in Queue : pg[x].queue = q <=> M.page[x].queue = q
    BY <1>2, <1>3
  <2>2. \A x \in Page, q \in Queue : x \in Range(M.pq[q]) <=> M.page[x].queue = q  BY GoodHas
  <2>3. \A q \in Queue : Distinct(M.pq[q])  BY GoodHas
  <2>4. r = [page |-> pg, pq |-> M.pq]  BY <1>1
  <2> HIDE DEF pg
  <2>5. \A x \in Page, q \in Queue : x \in Range(M.pq[q]) <=> pg[x].queue = q  BY <2>1, <2>2
  <2>6. QED  BY <1>4, <2>1, <2>3, <2>4, <2>5, GoodIs
<1>6. \A q \in Queue : Moves(M.pq[q], r.pq[q], {p})  BY <1>1, GoodHas, MovesSelf
<1>7. QED  BY <1>1, <1>5, <1>6 DEF Makes, r

Off(s) == IF s.queue \in Queue THEN [s EXCEPT !.queue = "NONE"] ELSE s

\* vm_page_dequeue makes Off of the page, and moves no other.
LEMMA DequeueMakes ==
    ASSUME NEW M, Good(M), NEW p \in Page
    PROVE  Makes(M, vm_page_dequeue(M, p), p, Off(M.page[p]))
<1>1. M.page[p] \in PageState /\ Off(M.page[p]) \in PageState  BY GoodHas DEF Off, PageState
<1>2. CASE M.page[p].queue \notin Queue
  <2>1. Off(M.page[p]) = M.page[p]  BY <1>2 DEF Off
  <2>2. vm_page_dequeue(M, p) = M /\ [M.page EXCEPT ![p] = M.page[p]] = M.page  BY <1>2, GoodHas DEF vm_page_dequeue
  <2>3. \A q \in Queue : Moves(M.pq[q], M.pq[q], {p})  BY GoodHas, MovesSelf
  <2>4. QED  BY <1>1, <2>1, <2>2, <2>3 DEF Makes
<1>3. CASE M.page[p].queue \in Queue
  <2> DEFINE k == M.page[p].queue
             pg == [M.page EXCEPT ![p].queue = "NONE"]
             qs == [M.pq EXCEPT ![k] = TAILQ_REMOVE(@, p)]
             r == [page |-> pg, pq |-> qs]
  <2>1. k \in Queue /\ vm_page_dequeue(M, p) = r  BY <1>1, <1>3 DEF vm_page_dequeue, PageState
  <2>2. pg = [M.page EXCEPT ![p] = Off(M.page[p])]  BY <1>3 DEF Off
  <2>3. pg \in [Page -> PageState] /\ pg[p].queue = "NONE" /\ \A x \in Page : x # p => pg[x] = M.page[x]
    BY <1>1, <2>2, GoodHas DEF Off, PageState
  <2>4. M.pq \in [Queue -> Seq(Entry)]  BY DEF Good
  <2>5. qs[k] = TAILQ_REMOVE(M.pq[k], p) /\ \A q \in Queue : q # k => qs[q] = M.pq[q]  BY <2>1, <2>4
  <2>6. p \in Range(M.pq[k]) /\ M.pq[k] \in Seq(Entry) /\ Distinct(M.pq[k])  BY <2>1, GoodHas
  <2>7. /\ Moves(M.pq[k], TAILQ_REMOVE(M.pq[k], p), {p})
        /\ Range(TAILQ_REMOVE(M.pq[k], p)) = Range(M.pq[k]) \ {p}
    BY <2>6, Removed
  <2> HIDE DEF k, pg
  <2>8. ASSUME NEW q \in Queue PROVE Moves(M.pq[q], qs[q], {p}) /\ (\A x \in Page : x \in Range(qs[q]) <=> pg[x].queue = q)
    <3>1. CASE q = k
      <4>1. Moves(M.pq[q], qs[q], {p}) /\ Range(qs[q]) = Range(M.pq[q]) \ {p}  BY <2>5, <2>7, <3>1
      <4>2. \A x \in Page : x \in Range(M.pq[q]) <=> M.page[x].queue = q  BY GoodHas
      <4>3. q # "NONE"  BY DEF Queue
      <4>4. QED  BY <2>3, <4>1, <4>2, <4>3
    <3>2. CASE q # k
      <4>1. qs[q] = M.pq[q] /\ Moves(M.pq[q], M.pq[q], {p})  BY <2>5, <3>2, GoodHas, MovesSelf
      <4>2. \A x \in Page : x \in Range(M.pq[q]) <=> M.page[x].queue = q  BY GoodHas
      <4>3. q # "NONE"  BY DEF Queue
      <4>4. QED  BY <2>3, <3>2, <4>1, <4>2, <4>3 DEF k
    <3>3. QED  BY <3>1, <3>2
  <2>9. qs \in [Queue -> Seq(Entry)] /\ \A q \in Queue : Distinct(qs[q])
    <3>1. \A q \in Queue : qs[q] \in Seq(Entry) /\ Distinct(qs[q])  BY <2>8 DEF Moves
    <3>2. qs = [q \in Queue |-> qs[q]]  BY <2>4
    <3> HIDE DEF qs
    <3>3. QED  BY <3>1, <3>2
  <2> HIDE DEF qs
  <2>10. Good(r)  BY <2>3, <2>8, <2>9, GoodIs
  <2>11. r.page = pg /\ r.pq = qs  OBVIOUS
  <2>12. QED  BY <1>1, <2>1, <2>2, <2>8, <2>10, <2>11 DEF Makes, pg
<1>4. QED  BY <1>2, <1>3

\* vm_page_enqueue of a page that is on no queue.
LEMMA EnqueueMakes ==
    ASSUME NEW M, Good(M), NEW p \in Page, M.page[p].queue \notin Queue, NEW k \in Queue
    PROVE  Makes(M, vm_page_enqueue(M, k, p), p, [M.page[p] EXCEPT !.queue = k])
<1> DEFINE s == [M.page[p] EXCEPT !.queue = k]
           pg == [M.page EXCEPT ![p].queue = k]
           qs == [M.pq EXCEPT ![k] = Append(@, p)]
           r == [page |-> pg, pq |-> qs]
<1>1. M.page[p] \in PageState /\ s \in PageState  BY GoodHas DEF PageState
<1>2. vm_page_enqueue(M, k, p) = r  BY DEF vm_page_enqueue
<1>3. pg = [M.page EXCEPT ![p] = s]  OBVIOUS
<1>4. pg \in [Page -> PageState] /\ pg[p].queue = k /\ \A x \in Page : x # p => pg[x] = M.page[x]
  BY <1>1, <1>3, GoodHas DEF PageState
<1>5. M.pq \in [Queue -> Seq(Entry)]  BY DEF Good
<1>6. qs[k] = Append(M.pq[k], p) /\ \A q \in Queue : q # k => qs[q] = M.pq[q]  BY <1>5
<1>7. p \notin Range(M.pq[k]) /\ M.pq[k] \in Seq(Entry) /\ Distinct(M.pq[k]) /\ p \in Entry
  BY GoodHas DEF Queue, Entry
<1>8. Moves(M.pq[k], Append(M.pq[k], p), {p}) /\ Range(Append(M.pq[k], p)) = Range(M.pq[k]) \cup {p}
  BY <1>7, Appended
<1> HIDE DEF pg
<1>9. ASSUME NEW q \in Queue PROVE Moves(M.pq[q], qs[q], {p}) /\ (\A x \in Page : x \in Range(qs[q]) <=> pg[x].queue = q)
  <2>1. CASE q = k
    <3>1. Moves(M.pq[q], qs[q], {p}) /\ Range(qs[q]) = Range(M.pq[q]) \cup {p}  BY <1>6, <1>8, <2>1
    <3>2. \A x \in Page : x \in Range(M.pq[q]) <=> M.page[x].queue = q  BY GoodHas
    <3>3. QED  BY <1>4, <2>1, <3>1, <3>2
  <2>2. CASE q # k
    <3>1. qs[q] = M.pq[q] /\ Moves(M.pq[q], M.pq[q], {p})  BY <1>6, <2>2, GoodHas, MovesSelf
    <3>2. \A x \in Page : x \in Range(M.pq[q]) <=> M.page[x].queue = q  BY GoodHas
    <3>3. QED  BY <1>4, <2>2, <3>1, <3>2
  <2>3. QED  BY <2>1, <2>2
<1>10. qs \in [Queue -> Seq(Entry)] /\ \A q \in Queue : Distinct(qs[q])
  <2>1. \A q \in Queue : qs[q] \in Seq(Entry) /\ Distinct(qs[q])  BY <1>9 DEF Moves
  <2>2. qs = [q \in Queue |-> qs[q]]  BY <1>5
  <2> HIDE DEF qs
  <2>3. QED  BY <2>1, <2>2
<1> HIDE DEF qs
<1>11. Good(r)  BY <1>4, <1>9, <1>10, GoodIs
<1>12. r.page = pg /\ r.pq = qs  OBVIOUS
<1>13. QED  BY <1>1, <1>2, <1>3, <1>9, <1>11, <1>12 DEF Makes, pg

Requeued(s, q) == IF s.pin = "wired" THEN s ELSE [s EXCEPT !.queue = q]

\* An operation that returns early.
LEMMA SameMakes ==
    ASSUME NEW M, Good(M), NEW p \in Page
    PROVE  Makes(M, M, p, M.page[p])
<1>1. [M.page EXCEPT ![p] = M.page[p]] = M.page /\ M.page[p] \in PageState  BY GoodHas
<1>2. \A q \in Queue : Moves(M.pq[q], M.pq[q], {p})  BY GoodHas, MovesSelf
<1>3. QED  BY <1>1, <1>2 DEF Makes

\* The page goes to the tail of a queue, unless it is wired.
LEMMA RequeueMakes ==
    ASSUME NEW M, Good(M), NEW p \in Page, NEW q \in Queue
    PROVE  Makes(M, Requeue(M, q, p), p, Requeued(M.page[p], q))
<1>1. CASE M.page[p].pin = "wired"  BY <1>1, SameMakes DEF Requeue, Requeued
<1>2. CASE M.page[p].pin # "wired"
  <2> DEFINE D == vm_page_dequeue(M, p)
  <2>1. Makes(M, D, p, Off(M.page[p]))  BY DequeueMakes
  <2> HIDE DEF D
  <2>2. Good(D) /\ D.page[p] = Off(M.page[p])  BY <2>1, GoodHas DEF Makes
  <2>3. M.page[p] \in PageState  BY GoodHas
  <2>4. D.page[p].queue \notin Queue /\ [D.page[p] EXCEPT !.queue = q] = [M.page[p] EXCEPT !.queue = q]
    BY <2>2, <2>3 DEF Off, PageState, Queue
  <2>5. Makes(D, vm_page_enqueue(D, q, p), p, [M.page[p] EXCEPT !.queue = q])  BY <2>2, <2>4, EnqueueMakes
  <2>6. Makes(M, vm_page_enqueue(D, q, p), p, [M.page[p] EXCEPT !.queue = q])  BY <2>1, <2>5, MakesTwice
  <2>7. QED  BY <1>2, <2>6 DEF Requeue, Requeued, D
<1>3. QED  BY <1>1, <1>2

\* vm_page_launder.
LEMMA LaunderMakes ==
    ASSUME NEW M, Good(M), NEW p \in Page
    PROVE  Makes(M, vm_page_launder(M, p), p, Requeued(M.page[p], "LAUNDRY"))
<1>1. CASE M.page[p].queue = "LAUNDRY"
  <2>1. M.page[p] \in PageState  BY GoodHas
  <2>2. Requeued(M.page[p], "LAUNDRY") = M.page[p]  BY <1>1, <2>1 DEF Requeued, PageState
  <2>3. QED  BY <1>1, <2>2, SameMakes DEF vm_page_launder
<1>2. CASE M.page[p].queue # "LAUNDRY"
  <2>1. "LAUNDRY" \in Queue  BY DEF Queue
  <2>2. QED  BY <1>2, <2>1, RequeueMakes DEF vm_page_launder
<1>3. QED  BY <1>1, <1>2

\* vm_page_activate.
LEMMA ActivateMakes ==
    ASSUME NEW M, Good(M), NEW p \in Page
    PROVE  Makes(M, vm_page_activate(M, p), p, Requeued(M.page[p], "INACTIVE"))
<1>1. "INACTIVE" \in Queue  BY DEF Queue
<1>2. QED  BY <1>1, RequeueMakes DEF vm_page_activate

\* vm_page_deactivate.
LEMMA DeactivateMakes ==
    ASSUME NEW M, Good(M), NEW p \in Page, NEW noreuse \in BOOLEAN
    PROVE  Makes(M, vm_page_deactivate(M, p, noreuse), p, Requeued(M.page[p], "INACTIVE"))
<1>1. CASE M.page[p].queue = "INACTIVE" /\ ~noreuse
  <2>1. M.page[p] \in PageState  BY GoodHas
  <2>2. Requeued(M.page[p], "INACTIVE") = M.page[p]  BY <1>1, <2>1 DEF Requeued, PageState
  <2>3. QED  BY <1>1, <2>2, SameMakes DEF vm_page_deactivate
<1>2. CASE ~(M.page[p].queue = "INACTIVE" /\ ~noreuse)
  <2>1. vm_page_deactivate(M, p, noreuse) = Requeue(M, "INACTIVE", p) /\ "INACTIVE" \in Queue
    BY <1>2 DEF vm_page_deactivate, Queue
  <2>2. QED  BY <2>1, RequeueMakes
<1>3. QED  BY <1>1, <1>2

Freed(s) == [FreePage EXCEPT !.pin = s.pin, !.unsaved = s.unsaved]

\* vm_page_free_toq takes the page off its queue and out of its object.
LEMMA FreeMakes ==
    ASSUME NEW M, Good(M), NEW p \in Page
    PROVE  Makes(M, vm_page_free(M, p), p, Freed(M.page[p]))
<1> DEFINE D == vm_page_dequeue(M, p)
           s == Freed(M.page[p])
<1>1. Makes(M, D, p, Off(M.page[p]))  BY DequeueMakes
<1>2. vm_page_free(M, p) = [D EXCEPT !.page[p] = s]  BY DEF vm_page_free, Freed
<1> HIDE DEF D
<1>3. Good(D) /\ D.page[p] = Off(M.page[p])  BY <1>1, GoodHas DEF Makes
<1>4. M.page[p] \in PageState  BY GoodHas
<1>5. s \in PageState /\ SameQueue(s, D.page[p])
  BY <1>3, <1>4 DEF Freed, FreePage, Off, PageState, SameQueue, Queue
<1> HIDE DEF s
<1>6. Makes(D, [D EXCEPT !.page[p] = s], p, s)  BY <1>3, <1>5, EditMakes
<1>7. QED  BY <1>1, <1>2, <1>6, MakesTwice DEF s

-----------------------------------------------------------------------------
(* What an operation on one page keeps.                                    *)

\* Markers are no pages.
LEMMA Markers ==
    /\ \A t \in Thread : t \notin Page /\ t # NoPage /\ t \in Entry /\ QueueOf(t) \in Queue
    /\ "inacthead" \notin Page /\ NoPage \notin Entry
  BY PageAssumption DEF Thread, Queue, QueueOf, Entry

\* A page that its thread would not tell from what it was.
Alike(s, u) ==
    /\ s.resident = u.resident /\ s.busy = u.busy /\ s.pin = u.pin /\ s.queue = u.queue
    /\ u.content # "invalid" => s.content # "invalid"

\* The thread t, in state k, while others do something to page p.
LEMMA ThreadKeeps ==
    ASSUME NEW t \in Thread, NEW k, NEW M, Good(M), ThreadOK(t, k, M),
           NEW p \in Page, NEW s, NEW r, Makes(M, r, p, s), k.pc = "page" => r.pq[QueueOf(t)] = M.pq[QueueOf(t)],
           k.pc \in {"work", "remove"} => p # k.m \/ Alike(s, M.page[p])
    PROVE  ThreadOK(t, k, r)
<1>1. t # p /\ QueueOf(t) \in Queue  BY Markers
<1>2. \A q \in Queue : t \in Range(r.pq[q]) <=> t \in Range(M.pq[q])  BY <1>1 DEF Makes, Moves
<1>3. M.page \in [Page -> PageState] /\ r.page = [M.page EXCEPT ![p] = s]  BY GoodHas DEF Makes
<1>4. k.pc \in {"work", "remove"} => k.m \in Page /\ (k.m = p \/ r.page[k.m] = M.page[k.m]) /\ r.page[p] = s
  BY <1>3 DEF ThreadOK
<1>5. CASE k.pc \in {"work", "remove"}
  <2>1. Alike(r.page[k.m], M.page[k.m])  BY <1>4, <1>5 DEF Alike
  <2> DEFINE a == r.page[k.m]
             b == M.page[k.m]
  <2>2. /\ k.want > 0 /\ b.resident /\ b.busy = "no" /\ b.pin = "no"
        /\ b.queue = IF t = "scan" THEN "NONE" ELSE "LAUNDRY"
        /\ k.pc = "remove" => b.content # "invalid"
    BY <1>5 DEF ThreadOK
  <2>3. /\ k.want > 0 /\ a.resident /\ a.busy = "no" /\ a.pin = "no"
        /\ a.queue = IF t = "scan" THEN "NONE" ELSE "LAUNDRY"
        /\ k.pc = "remove" => a.content # "invalid"
    <3> HIDE DEF a, b
    <3>1. Alike(a, b)  BY <2>1 DEF a, b
    <3>2. QED  BY <2>2, <3>1 DEF Alike
  <2>4. QED  BY <1>2, <1>5, <2>3 DEF ThreadOK
<1>6. CASE k.pc \notin {"work", "remove"}
  <2>1. k.pc = "page" => k.m \in Range(r.pq[QueueOf(t)])  BY DEF ThreadOK
  <2>2. QED  BY <1>2, <1>6, <2>1 DEF ThreadOK
<1>7. QED  BY <1>5, <1>6

\* The scan keeps its marker behind the pages that it has left while others move.
LEMMA FifoMoves ==
    ASSUME NEW k, NEW s, NEW r, NEW C, Moves(s, r, C), "scan" \notin C, "scan" \in Range(s) <=> k.pc \in Away,
           k.pc # "page", FifoOK(k, s)
    PROVE  FifoOK(k, r)
<1>1. CASE k.pc \in Away
  <2>1. Before(r, "scan") \subseteq Before(s, "scan")  BY <1>1 DEF Moves
  <2>2. ASSUME k.m \in Before(r, "scan"), Before(s, "scan") \ {k.m} \subseteq Before(s, k.m)
        PROVE  Before(r, "scan") \ {k.m} \subseteq Before(r, k.m)
    <3>1. Before(s, k.m) \cap Before(r, "scan") \subseteq Before(r, k.m)  BY <1>1, <2>2 DEF Moves
    <3>2. QED  BY <2>1, <2>2, <3>1
  <2>3. QED  BY <2>1, <2>2 DEF FifoOK
<1>2. CASE k.pc \notin Away  BY <1>2 DEF FifoOK, Away
<1>3. QED  BY <1>1, <1>2

\* So it does when page p moves.
LEMMA FifoKeeps ==
    ASSUME NEW k, NEW M, Good(M), ThreadOK("scan", k, M), FifoOK(k, M.pq["INACTIVE"]),
           NEW p \in Page, NEW s, NEW r, Makes(M, r, p, s), k.pc = "page" => r.pq["INACTIVE"] = M.pq["INACTIVE"]
    PROVE  FifoOK(k, r.pq["INACTIVE"])
<1>1. "scan" \in Thread /\ "INACTIVE" \in Queue /\ "scan" # p /\ QueueOf("scan") = "INACTIVE"
  BY Markers DEF Thread, Queue, QueueOf
<1>2. CASE k.pc = "page"  BY <1>2 DEF FifoOK
<1>3. CASE k.pc # "page"
  <2>1. "scan" \in Range(M.pq["INACTIVE"]) <=> k.pc \in Away  BY <1>1 DEF ThreadOK
  <2>2. Moves(M.pq["INACTIVE"], r.pq["INACTIVE"], {p})  BY <1>1 DEF Makes
  <2>3. "scan" \notin {p}  BY <1>1
  <2>4. QED  BY <1>3, <2>1, <2>2, <2>3, FifoMoves
<1>4. QED  BY <1>2, <1>3

\* The memory after a step.
LEMMA BecomesIs == ASSUME NEW r, Good(r), Becomes(r) PROVE memory' = r /\ page' = r.page /\ pq' = r.pq
<1>1. page' = r.page /\ pq' = r.pq /\ r = [page |-> r.page, pq |-> r.pq]  BY GoodHas DEF Becomes
<1>2. memory' = [page |-> page', pq |-> pq']  BY DEF memory
<1>3. QED  BY <1>1, <1>2

\* The pages, with the state of the object and the hand of the scan.
LEMMA PagesKeep ==
    ASSUME PagesInv, NEW p \in Page, NEW s, NEW r, Makes(memory, r, p, s), Becomes(r), object' = object,
           PageOK(s, object), Homed(s, object, InHand(th'["scan"], p)),
           \A x \in Page \ {p} : InHand(th["scan"], x) => InHand(th'["scan"], x)
    PROVE  PagesInv'
<1>1. Good(r)  BY DEF Makes
<1>2. memory' = r /\ page' = r.page  BY <1>1, BecomesIs
<1>3. page \in [Page -> PageState] /\ r.page = [page EXCEPT ![p] = s]  BY GoodHas DEF Makes, PagesInv, memory
<1>4. ASSUME NEW x \in Page PROVE PageOK(page'[x], object') /\ Homed(page'[x], object', InHand(th'["scan"], x))
  <2>1. CASE x = p  BY <1>2, <1>3, <2>1
  <2>2. CASE x # p
    <3>1. page'[x] = page[x]  BY <1>2, <1>3, <2>2
    <3>2. PageOK(page[x], object) /\ Homed(page[x], object, InHand(th["scan"], x))  BY DEF PagesInv
    <3>3. Homed(page[x], object, InHand(th'["scan"], x))  BY <2>2, <3>2 DEF Homed
    <3>4. QED  BY <3>1, <3>2, <3>3
  <2>3. QED  BY <2>1, <2>2
<1>5. QED  BY <1>1, <1>2, <1>4 DEF PagesInv

\* A step of a user on page p.
UserStep(p, r, s) ==
    /\ Makes(memory, r, p, s) /\ Becomes(r)
    /\ object' = object /\ th' = th /\ cluster' = cluster /\ use' = use
    /\ QueuesFree \/ r.pq = pq
    /\ ~PageLocked(p) \/ Alike(s, page[p])
    /\ PageOK(s, object) /\ Homed(s, object, InHand(th["scan"], p))
    /\ p \in cluster => s.busy = "s"
    /\ stopped' \in {"no", "statistics"}

\* Such a step keeps the invariant.
LEMMA UserStepKeeps == ASSUME IInv, NEW p \in Page, NEW r, NEW s, UserStep(p, r, s) PROVE IInv'
<1>1. PagesInv'
  <2>1. \A x \in Page \ {p} : InHand(th["scan"], x) => InHand(th'["scan"], x)  BY DEF UserStep
  <2>2. InHand(th'["scan"], p) = InHand(th["scan"], p)  BY DEF UserStep
  <2>3. QED  BY <2>1, <2>2, PagesKeep DEF UserStep, IInv
<1>2. Good(memory) /\ Good(r) /\ Makes(memory, r, p, s) /\ memory.pq = pq /\ memory.page = page
  BY DEF IInv, PagesInv, UserStep, Makes, memory
<1>3. memory' = r /\ page' = r.page /\ pq' = r.pq  BY <1>2, BecomesIs DEF UserStep
<1>4. ASSUME NEW t \in Thread PROVE th[t].pc = "page" => r.pq = memory.pq
  <2>1. QueueOf(t) \in Queue  BY Markers
  <2>2. QED  BY <1>2, <2>1 DEF UserStep, QueuesFree, QueueLocked
<1>5. ASSUME NEW t \in Thread PROVE ThreadOK(t, th'[t], memory')
  <2>1. ThreadOK(t, th[t], memory) /\ th'[t] = th[t]  BY DEF IInv, ThreadsInv, UserStep
  <2>2. th[t].pc \in {"work", "remove"} => p # th[t].m \/ Alike(s, memory.page[p])  BY <1>2 DEF UserStep, PageLocked
  <2>3. ThreadOK(t, th[t], r)  BY <1>2, <1>4, <2>1, <2>2, ThreadKeeps
  <2>4. QED  BY <1>3, <2>1, <2>3
<1>6. FifoOK(th'["scan"], pq'["INACTIVE"])
  <2>1. "scan" \in Thread  BY DEF Thread
  <2>2. ThreadOK("scan", th["scan"], memory) /\ FifoOK(th["scan"], memory.pq["INACTIVE"]) /\ th' = th
    BY <1>2, <2>1 DEF IInv, ThreadsInv, UserStep
  <2>3. FifoOK(th["scan"], r.pq["INACTIVE"])  BY <1>2, <1>4, <2>1, <2>2, FifoKeeps
  <2>4. QED  BY <1>3, <2>2, <2>3
<1>7. ThreadsInv'  BY <1>5, <1>6 DEF IInv, ThreadsInv, UserStep, Alone
<1>8. ClusterOK(cluster', page', th')
  <2>1. page' = [page EXCEPT ![p] = s] /\ page \in [Page -> PageState]  BY <1>2, <1>3, GoodHas DEF Makes
  <2>2. QED  BY <2>1 DEF IInv, RestInv, ClusterOK, UserStep
<1>9. RestInv'  BY <1>8 DEF IInv, RestInv, UserStep
<1>10. QED  BY <1>1, <1>7, <1>9 DEF IInv

-----------------------------------------------------------------------------
(* Users of the pages.                                                     *)

\* What is known of a page.
LEMMA PageHas ==
    ASSUME IInv, NEW p \in Page
    PROVE  /\ Good(memory) /\ memory.page = page /\ memory.pq = pq /\ page \in [Page -> PageState]
           /\ page[p] \in PageState /\ PageOK(page[p], object) /\ Homed(page[p], object, InHand(th["scan"], p))
           /\ object \in {"mapped", "unmapped", "dead"}
           /\ p \in cluster => page[p].busy = "s"
           /\ InHand(th["scan"], p) => PageLocked(p)
<1>1. Good(memory) /\ memory.page = page /\ memory.pq = pq  BY DEF IInv, PagesInv, memory
<1>2. page \in [Page -> PageState]  BY <1>1, GoodHas
<1>3. "scan" \in Thread  BY DEF Thread
<1>4. QED  BY <1>1, <1>2, <1>3 DEF IInv, PagesInv, RestInv, ClusterOK, InHand, PageLocked

\* A step that leaves the page on its queue.
LEMMA EditStep ==
    ASSUME IInv, NEW p \in Page, NEW s \in PageState, SameQueue(s, page[p]), page' = [page EXCEPT ![p] = s],
           pq' = pq, object' = object, th' = th, cluster' = cluster, use' = use,
           ~PageLocked(p) \/ Alike(s, page[p]), PageOK(s, object), Homed(s, object, InHand(th["scan"], p)),
           p \in cluster => s.busy = "s", stopped' \in {"no", "statistics"}
    PROVE  IInv'
<1> DEFINE r == [memory EXCEPT !.page[p] = s]
<1>1. Good(memory) /\ memory.page = page /\ memory.pq = pq  BY PageHas
<1>2. Makes(memory, r, p, s)  BY <1>1, EditMakes DEF SameQueue
<1>3. r.page = page' /\ r.pq = pq  BY DEF memory
<1> HIDE DEF r
<1>4. UserStep(p, r, s)  BY <1>2, <1>3 DEF UserStep, Becomes
<1>5. QED  BY <1>4, UserStepKeeps

\* vm_page_alloc finds the page as vm_page_free left it.
LEMMA vm_page_allocKeeps ==
    ASSUME IInv, stopped = "no", use' = use, NEW p \in Page, vm_page_alloc(p) PROVE IInv'
<1> DEFINE u == page[p]
           New(busy, pin) == [FreePage EXCEPT !.resident = TRUE, !.busy = busy, !.pin = pin,
                                              !.queue = IF busy = "x" THEN "NONE" ELSE "OFF"]
<1>1. u \in PageState /\ PageOK(u, object)  BY PageHas
<1>2. /\ ~u.resident /\ u.pin = "no" /\ object # "dead" /\ ~PageLocked(p)
      /\ pq' = pq /\ object' = object /\ th' = th /\ cluster' = cluster
      /\ KASSERT(u = [FreePage EXCEPT !.unsaved = u.unsaved])
  BY DEF vm_page_alloc, UserLocks, Only
<1>3. PICK busy \in {"x", "s", "no"}, pin \in {"no", "wired"} : page' = [page EXCEPT ![p] = New(busy, pin)]
  BY DEF vm_page_alloc
<1> DEFINE s == New(busy, pin)
<1>4. u.queue = "NONE" /\ u.busy = "no" /\ u = [FreePage EXCEPT !.unsaved = u.unsaved]
  <2> HIDE DEF u
  <2>1. /\ u.queue = "NONE" /\ u.busy = "no" /\ u.content = "invalid" /\ u.map = "none"
        /\ u.pin = "no" /\ u.resident = FALSE
    BY <1>1, <1>2 DEF PageOK, PageState
  <2> DEFINE v == [FreePage EXCEPT !.unsaved = u.unsaved]
  <2>2. /\ v.queue = "NONE" /\ v.busy = "no" /\ v.content = "invalid" /\ v.map = "none" /\ v.pin = "no"
        /\ v.resident = FALSE /\ v.unsaved = u.unsaved /\ v \in PageState
    BY <1>1 DEF FreePage, PageState
  <2> HIDE DEF v
  <2>3. u = v  BY <1>1, <2>1, <2>2 DEF PageState
  <2>4. QED  BY <2>1, <2>3 DEF v
<1>5. stopped' = "no"  BY <1>2, <1>4 DEF KASSERT
<1>6. s \in PageState /\ SameQueue(s, u) /\ PageOK(s, object) /\ Homed(s, object, InHand(th["scan"], p))
  <2>1. /\ s.resident /\ s.busy = busy /\ s.pin = pin /\ s.queue = (IF busy = "x" THEN "NONE" ELSE "OFF")
        /\ s.content = "invalid" /\ s.map = "none" /\ s.unsaved = "no" /\ s \in PageState
    BY DEF FreePage, PageState
  <2> HIDE DEF s, u, New
  <2>2. QED  BY <1>2, <1>4, <2>1 DEF SameQueue, PageOK, Homed, Queue
<1>7. p \notin cluster  BY <1>4, PageHas
<1>8. page' = [page EXCEPT ![p] = s]  BY <1>3
<1> HIDE DEF s, New
<1>9. QED  BY <1>2, <1>5, <1>6, <1>7, <1>8, EditStep DEF SameQueue

\* A page that is not exclusively busy gets its contents, or its share is given back.
LEMMA vm_page_sunbusyKeeps ==
    ASSUME IInv, stopped = "no", use' = use, NEW p \in Page, vm_page_set_valid_range(p) \/ vm_page_sunbusy(p) PROVE IInv'
<1> DEFINE u == page[p]
<1>1. /\ u \in PageState /\ PageOK(u, object) /\ Homed(u, object, InHand(th["scan"], p)) /\ (p \in cluster => u.busy = "s")
      /\ page \in [Page -> PageState] /\ Good(memory) /\ memory.page = page
      /\ InHand(th["scan"], p) => PageLocked(p)
  BY PageHas
<1>2. /\ pq' = pq /\ object' = object /\ th' = th /\ cluster' = cluster /\ stopped' = stopped
  BY DEF vm_page_set_valid_range, vm_page_sunbusy, Only
<1>3. CASE vm_page_set_valid_range(p)
  <2> DEFINE s == [u EXCEPT !.content = "clean"]
  <2>1. u.resident /\ u.busy # "x" /\ u.content = "invalid" /\ ~PageLocked(p) /\ page' = [page EXCEPT ![p] = s]
    BY <1>3 DEF vm_page_set_valid_range, UserLocks
  <2>2. s \in PageState /\ s.queue = u.queue /\ s.busy = u.busy /\ PageOK(s, object)
        /\ Homed(s, object, InHand(th["scan"], p))
    <3> HIDE DEF u
    <3>1. QED  BY <1>1, <2>1 DEF PageState, PageOK, Homed
  <2> HIDE DEF s
  <2>3. SameQueue(s, page[p])  BY <2>2 DEF SameQueue
  <2>4. QED  BY <1>1, <1>2, <2>1, <2>2, <2>3, EditStep DEF SameQueue
<1>4. CASE vm_page_sunbusy(p)
  <2> DEFINE s == [u EXCEPT !.busy = "no"]
  <2>1. u.busy = "s" /\ p \notin cluster /\ page' = [page EXCEPT ![p] = s]
    BY <1>4 DEF vm_page_sunbusy
  <2>2. s \in PageState /\ s.queue = u.queue /\ PageOK(s, object) /\ Homed(s, object, InHand(th["scan"], p))
    <3> HIDE DEF u
    <3>1. QED  BY <1>1, <2>1 DEF PageState, PageOK, Homed
  <2>3. ~PageLocked(p)
    <3>1. ASSUME PageLocked(p) PROVE FALSE
      <4>1. PICK t \in Thread : th[t].m = p /\ th[t].pc \in {"work", "remove"}  BY <3>1 DEF PageLocked
      <4>2. ThreadOK(t, th[t], memory)  BY DEF IInv, ThreadsInv
      <4>3. memory.page[p].busy = "no"  BY <4>1, <4>2 DEF ThreadOK
      <4>4. QED  BY <1>1, <2>1, <4>3
    <3>2. QED  BY <3>1
  <2> HIDE DEF s
  <2>4. SameQueue(s, page[p])  BY <2>2 DEF SameQueue
  <2>5. QED  BY <1>1, <1>2, <2>1, <2>2, <2>3, <2>4, EditStep DEF SameQueue
<1>5. QED  BY <1>3, <1>4

\* A fault.
LEMMA faultKeeps == ASSUME IInv, stopped = "no", use' = use, NEW p \in Page, fault(p) PROVE IInv'
<1> DEFINE u == page[p]
           s == [u EXCEPT !.map = "rw"]
<1>1. u \in PageState /\ PageOK(u, object) /\ Homed(u, object, InHand(th["scan"], p)) /\ (p \in cluster => u.busy = "s")
  BY PageHas
<1>2. /\ u.resident /\ u.busy = "no" /\ u.content # "invalid" /\ object = "mapped" /\ u.map \in {"none", "ro"} /\ ~PageLocked(p)
      /\ page' = [page EXCEPT ![p] = s] /\ pq' = pq /\ object' = object /\ th' = th /\ cluster' = cluster /\ stopped' = stopped
  BY DEF fault, UserLocks, Idle, Only
<1>3. s \in PageState /\ s.queue = u.queue /\ PageOK(s, object)  BY <1>1, <1>2 DEF PageState, PageOK
<1>4. Homed(s, object, InHand(th["scan"], p))  BY <1>1 DEF Homed, PageState
<1> HIDE DEF s
<1>5. QED  BY <1>1, <1>2, <1>3, <1>4, EditStep DEF SameQueue

\* A write through a mapping.
LEMMA writeKeeps == ASSUME IInv, stopped = "no", use' = use, NEW p \in Page, write(p) PROVE IInv'
<1> DEFINE u == page[p]
           s == [u EXCEPT !.map = "mod", !.unsaved = "yes"]
<1>1. u \in PageState /\ PageOK(u, object) /\ Homed(u, object, InHand(th["scan"], p)) /\ (p \in cluster => u.busy = "s")
  BY PageHas
<1>2. /\ u.map \in {"rw", "mod"}
      /\ page' = [page EXCEPT ![p] = s] /\ pq' = pq /\ object' = object /\ th' = th /\ cluster' = cluster /\ stopped' = stopped
  BY DEF write, Only
<1>3. s \in PageState /\ s.queue = u.queue /\ PageOK(s, object) /\ Alike(s, u) /\ s.busy = u.busy
  BY <1>1, <1>2 DEF PageState, PageOK, Alike
<1>4. Homed(s, object, InHand(th["scan"], p))  BY <1>1 DEF Homed, PageState
<1> HIDE DEF s
<1>5. QED  BY <1>1, <1>2, <1>3, <1>4, EditStep DEF SameQueue

\* pmap_remove_all keeps a page sound.
LEMMA RemovesAll ==
    ASSUME NEW s \in PageState, NEW o, PageOK(s, o)
    PROVE  /\ pmap_remove_all(s) \in PageState /\ PageOK(pmap_remove_all(s), o) /\ Alike(pmap_remove_all(s), s)
           /\ pmap_remove_all(s).map = "none"
           /\ \A inhand : Homed(s, o, inhand) => Homed(pmap_remove_all(s), o, inhand)
  BY DEF pmap_remove_all, vm_page_test_dirty, PageState, PageOK, Alike, Homed

\* A mapping goes away.
LEMMA unmapKeeps == ASSUME IInv, stopped = "no", use' = use, NEW p \in Page, unmap(p) PROVE IInv'
<1> DEFINE u == page[p]
           s == pmap_remove_all(u)
<1>1. u \in PageState /\ PageOK(u, object) /\ Homed(u, object, InHand(th["scan"], p)) /\ (p \in cluster => u.busy = "s")
  BY PageHas
<1>2. /\ page' = [page EXCEPT ![p] = s] /\ pq' = pq /\ object' = object /\ th' = th /\ cluster' = cluster /\ stopped' = stopped
  BY DEF unmap, Only
<1>3. s \in PageState /\ PageOK(s, object) /\ Alike(s, u) /\ Homed(s, object, InHand(th["scan"], p))
  BY <1>1, RemovesAll
<1>4. s.queue = u.queue /\ s.busy = u.busy  BY <1>3 DEF Alike
<1> HIDE DEF s
<1>5. QED  BY <1>1, <1>2, <1>3, <1>4, EditStep DEF SameQueue

\* A hold begins, and ends.
LEMMA vm_page_holdKeeps ==
    ASSUME IInv, stopped = "no", use' = use, NEW p \in Page, vm_page_hold(p) \/ vm_page_unhold(p) PROVE IInv'
<1> DEFINE u == page[p]
           s == [u EXCEPT !.pin = IF vm_page_hold(p) THEN "held" ELSE "no"]
<1>1. u \in PageState /\ PageOK(u, object) /\ Homed(u, object, InHand(th["scan"], p)) /\ (p \in cluster => u.busy = "s")
  BY PageHas
<1>2. /\ page' = [page EXCEPT ![p] = s] /\ pq' = pq /\ object' = object /\ th' = th /\ cluster' = cluster /\ stopped' = stopped
      /\ ~PageLocked(p) /\ (vm_page_hold(p) => u.busy # "x") /\ u.pin # "wired"
  BY DEF vm_page_hold, vm_page_unhold, Only, UserLocks, Pinnable
<1>3. s \in PageState /\ PageOK(s, object) /\ s.queue = u.queue /\ s.busy = u.busy
  BY <1>1, <1>2 DEF PageState, PageOK
<1>4. Homed(s, object, InHand(th["scan"], p))  BY <1>1, <1>2 DEF Homed, PageState
<1> HIDE DEF s
<1>5. QED  BY <1>1, <1>2, <1>3, <1>4, EditStep DEF SameQueue

\* vm_page_set_invalid.
LEMMA vm_page_set_invalidKeeps ==
    ASSUME IInv, stopped = "no", use' = use, NEW p \in Page, vm_page_set_invalid(p) PROVE IInv'
<1> DEFINE u == page[p]
           m == IF object = "mapped" THEN pmap_remove_all(u) ELSE u
           s == [m EXCEPT !.content = "invalid", !.unsaved = "no"]
<1>1. u \in PageState /\ PageOK(u, object) /\ Homed(u, object, InHand(th["scan"], p)) /\ (p \in cluster => u.busy = "s")
  BY PageHas
<1>2. /\ page' = [page EXCEPT ![p] = s] /\ pq' = pq /\ object' = object /\ th' = th /\ cluster' = cluster
      /\ ~PageLocked(p) /\ u.busy = "no" /\ KASSERT(m.map = "none")
  BY DEF vm_page_set_invalid, Only, UserLocks, Idle
<1>3. m \in PageState /\ PageOK(m, object) /\ m.map = "none" /\ m.queue = u.queue /\ m.busy = u.busy /\ Homed(m, object, InHand(th["scan"], p))
  <2>1. CASE object = "mapped"  BY <1>1, <2>1, RemovesAll DEF Alike
  <2>2. CASE object # "mapped"  BY <1>1, <2>2 DEF PageOK
  <2>3. QED  BY <2>1, <2>2
<1> HIDE DEF m
<1>4. s \in PageState /\ PageOK(s, object) /\ s.queue = u.queue /\ s.busy = "no"  BY <1>2, <1>3 DEF PageState, PageOK
<1>5. Homed(s, object, InHand(th["scan"], p))  BY <1>3 DEF Homed, PageState
<1>6. stopped' = "no"  BY <1>2, <1>3 DEF KASSERT
<1> HIDE DEF s
<1>7. QED  BY <1>1, <1>2, <1>4, <1>5, <1>6, EditStep DEF SameQueue

\* A step of a user that takes the locks of the page, of the object and of the queues.
LEMMA LockedStep ==
    ASSUME IInv, NEW p \in Page, UserLocks(p), use' = use, Only, NEW r, NEW s, Makes(memory, r, p, s), Becomes(r),
           PageOK(s, object), Homed(s, object, FALSE), page[p].busy = s.busy \/ page[p].busy # "s",
           stopped' \in {"no", "statistics"}
    PROVE  IInv'
<1>1. /\ QueuesFree /\ ~PageLocked(p) /\ object' = object /\ th' = th /\ cluster' = cluster
  BY DEF UserLocks, Only
<1>2. Homed(s, object, InHand(th["scan"], p))  BY DEF Homed
<1>3. p \in cluster => s.busy = "s"  BY PageHas
<1>4. UserStep(p, r, s)  BY <1>1, <1>2, <1>3 DEF UserStep
<1>5. QED  BY <1>4, UserStepKeeps

\* A page after an edit that leaves it on its queue, and then an operation on the queues.
LEMMA EditThen ==
    ASSUME IInv, NEW p \in Page, NEW s \in PageState, SameQueue(s, page[p])
    PROVE  LET M == [memory EXCEPT !.page[p] = s]
           IN  /\ Good(M) /\ M.page[p] = s /\ Makes(memory, M, p, s)
               /\ \A r, u : Makes(M, r, p, u) => Makes(memory, r, p, u)
<1> DEFINE M == [memory EXCEPT !.page[p] = s]
<1>1. Good(memory) /\ memory.page = page /\ page \in [Page -> PageState]  BY PageHas
<1>2. Makes(memory, M, p, s)  BY <1>1, EditMakes DEF SameQueue
<1> HIDE DEF M
<1>3. Good(M) /\ M.page[p] = s  BY <1>1, <1>2 DEF Makes
<1>4. \A r, u : Makes(M, r, p, u) => Makes(memory, r, p, u)  BY <1>1, <1>2, MakesTwice
<1>5. QED  BY <1>2, <1>3, <1>4 DEF M

\* A page is filled and queued, or freed.
LEMMA fillKeeps == ASSUME IInv, stopped = "no", use' = use, NEW p \in Page, fill(p) PROVE IInv'
<1> DEFINE u == page[p]
<1>1. u \in PageState /\ PageOK(u, object) /\ Good(memory) /\ memory.page = page  BY PageHas
<1>2. UserLocks(p) /\ u.busy = "x" /\ Only  BY DEF fill
<1>3. CASE /\ Becomes(vm_page_activate([[memory EXCEPT !.page[p].busy = "no"] EXCEPT !.page[p].content = "clean"], p))
           /\ UNCHANGED stopped
  <2> DEFINE n == [u EXCEPT !.busy = "no", !.content = "clean"]
             N == [memory EXCEPT !.page[p] = n]
             s == Requeued(n, "INACTIVE")
  <2>1. [[memory EXCEPT !.page[p].busy = "no"] EXCEPT !.page[p].content = "clean"] = N
    <3>1. memory = [page |-> page, pq |-> pq] /\ page \in [Page -> PageState]  BY PageHas DEF memory
    <3>2. QED  BY <3>1
  <2>2. n \in PageState /\ n.queue = u.queue  BY <1>1 DEF PageState
  <2>3. PageOK(s, object) /\ Homed(s, object, FALSE)
    <3>1. u.resident /\ u.unsaved # "yes" /\ u.content = "invalid" /\ u.map = "none" /\ u.busy = "x"
      BY <1>1, <1>2 DEF PageOK, PageState
    <3> HIDE DEF u
    <3>2. QED  BY <1>1, <1>2, <3>1 DEF PageOK, Homed, PageState, Requeued
  <2> HIDE DEF n
  <2>4. Good(N) /\ N.page[p] = n /\ \A r, v : Makes(N, r, p, v) => Makes(memory, r, p, v)  BY <2>2, EditThen DEF SameQueue
  <2>5. Becomes(vm_page_activate(N, p)) /\ stopped' = "no"  BY <1>3, <2>1
  <2> HIDE DEF N
  <2>6. Makes(memory, vm_page_activate(N, p), p, s)  BY <2>4, ActivateMakes
  <2> HIDE DEF s
  <2>7. QED  BY <1>2, <2>3, <2>5, <2>6, LockedStep
<1>4. CASE u.pin # "wired" /\ Becomes(vm_page_free(memory, p)) /\ KASSERT(FreeAsserts(page[p]))
  <2>1. Makes(memory, vm_page_free(memory, p), p, Freed(u))  BY <1>1, FreeMakes
  <2>2. FreeAsserts(u)  BY <1>1, <1>2, <1>4 DEF FreeAsserts, PageOK
  <2>3. stopped' = "no"  BY <1>4, <2>2 DEF KASSERT
  <2>4. PageOK(Freed(u), object) /\ Homed(Freed(u), object, FALSE)
    <3>1. u.unsaved # "yes"  BY <1>1, <1>2 DEF PageOK, PageState
    <3> HIDE DEF u
    <3>2. QED  BY <1>4, <3>1 DEF Freed, FreePage, PageOK, Homed
  <2>5. QED  BY <1>2, <1>4, <2>1, <2>3, <2>4, LockedStep
<1>5. QED  BY <1>3, <1>4 DEF fill

\* A page is wired, and leaves its queue.
LEMMA vm_page_wireKeeps ==
    ASSUME IInv, stopped = "no", use' = use, NEW p \in Page, vm_page_wire(p) PROVE IInv'
<1> DEFINE u == page[p]
           D == vm_page_dequeue(memory, p)
           s == [Off(u) EXCEPT !.pin = "wired"]
           r == [D EXCEPT !.page[p] = s]
<1>1. u \in PageState /\ PageOK(u, object) /\ Good(memory) /\ memory.page = page  BY PageHas
<1>2. UserLocks(p) /\ u.resident /\ u.busy # "x" /\ Only /\ stopped' = stopped /\ Becomes([D EXCEPT !.page[p].pin = "wired"])
  BY DEF vm_page_wire, Pinnable
<1>3. Makes(memory, D, p, Off(u))  BY <1>1, DequeueMakes
<1> HIDE DEF D
<1>4. Good(D) /\ D.page[p] = Off(u)  BY <1>1, <1>3, GoodHas DEF Makes
<1>5. [D EXCEPT !.page[p].pin = "wired"] = r  BY <1>4
<1>6. s \in PageState /\ s.queue = D.page[p].queue  BY <1>1, <1>4 DEF Off, PageState
<1>7. PageOK(s, object) /\ Homed(s, object, FALSE) /\ s.busy = u.busy
  <2> HIDE DEF u
  <2>1. Off(u).queue \notin Queue /\ s.queue = Off(u).queue /\ s.pin = "wired"
    BY <1>1, <1>6 DEF Off, PageState, Queue
  <2>2. /\ s.resident = u.resident /\ s.busy = u.busy /\ s.content = u.content /\ s.map = u.map
        /\ s.unsaved = u.unsaved
    BY <1>1 DEF Off, PageState
  <2> HIDE DEF s
  <2>3. QED  BY <1>1, <1>2, <2>1, <2>2 DEF PageOK, Homed
<1> HIDE DEF s
<1>8. Makes(D, r, p, s)  BY <1>4, <1>6, EditMakes DEF SameQueue
<1>9. Makes(memory, r, p, s)  BY <1>1, <1>3, <1>8, MakesTwice
<1>10. QED  BY <1>2, <1>5, <1>7, <1>9, LockedStep

\* A page is unwired, and goes to the queue that the caller names or to none.
LEMMA vm_page_unwireKeeps ==
    ASSUME IInv, stopped = "no", use' = use, NEW p \in Page, vm_page_unwire(p) PROVE IInv'
<1> DEFINE u == page[p]
           n == [u EXCEPT !.pin = "no"]
           M == [memory EXCEPT !.page[p] = n]
<1>1. u \in PageState /\ PageOK(u, object) /\ Good(memory) /\ memory.page = page  BY PageHas
<1>2. UserLocks(p) /\ u.pin = "wired" /\ Only /\ stopped' = stopped  BY DEF vm_page_unwire
<1>3. [memory EXCEPT !.page[p].pin = "no"] = M  BY <1>1 DEF memory
<1>4. n \in PageState /\ n.queue = u.queue /\ n.queue \notin Queue /\ u.resident
  BY <1>1, <1>2 DEF PageState, PageOK
<1>5. ASSUME NEW q \in Queue \cup {"OFF"}
      PROVE  LET s == [n EXCEPT !.queue = q]
             IN  s \in PageState /\ s.queue = q /\ PageOK(s, object) /\ Homed(s, object, FALSE) /\ s.busy = u.busy
  <2>1. q # "NONE"  BY DEF Queue
  <2> HIDE DEF u
  <2>2. QED  BY <1>1, <1>2, <1>4, <2>1 DEF PageOK, Homed, PageState
<1>6. CASE \E q \in Queue : Becomes(vm_page_enqueue(M, q, p))
  <2>1. PICK q \in Queue : Becomes(vm_page_enqueue(M, q, p))  BY <1>6
  <2> DEFINE s == [n EXCEPT !.queue = q]
  <2>2. PageOK(s, object) /\ Homed(s, object, FALSE) /\ s.busy = u.busy  BY <1>5
  <2> HIDE DEF n
  <2>3. SameQueue(n, page[p])  BY <1>4 DEF SameQueue
  <2>4. Good(M) /\ M.page[p] = n /\ \A r, v : Makes(M, r, p, v) => Makes(memory, r, p, v)  BY <1>4, <2>3, EditThen DEF SameQueue
  <2> HIDE DEF M
  <2>5. Makes(memory, vm_page_enqueue(M, q, p), p, s)  BY <1>4, <2>4, EnqueueMakes
  <2> HIDE DEF s
  <2>6. QED  BY <1>2, <2>1, <2>2, <2>5, LockedStep
<1>7. CASE Becomes([M EXCEPT !.page[p].queue = "OFF"])
  <2> DEFINE s == [n EXCEPT !.queue = "OFF"]
             r == [memory EXCEPT !.page[p] = s]
  <2>1. [M EXCEPT !.page[p].queue = "OFF"] = r  BY <1>1 DEF memory
  <2>2. s \in PageState /\ s.queue = "OFF" /\ PageOK(s, object) /\ Homed(s, object, FALSE) /\ s.busy = u.busy
    BY <1>5
  <2>3. SameQueue(s, page[p])  BY <1>4, <2>2 DEF SameQueue, Queue
  <2> HIDE DEF s
  <2>4. Makes(memory, r, p, s)  BY <1>1, <2>2, <2>3, EditMakes DEF SameQueue
  <2>5. Becomes(r)  BY <1>7, <2>1
  <2> HIDE DEF r
  <2>6. QED  BY <1>2, <2>2, <2>4, <2>5, LockedStep
<1>8. QED  BY <1>3, <1>6, <1>7, Zenon DEF vm_page_unwire

\* A page that stays sound, in whichever queue it is put then.
LEMMA RequeuedOK ==
    ASSUME NEW s \in PageState, NEW o, NEW q \in Queue, PageOK(s, o), s.resident, s.busy # "x"
    PROVE  PageOK(Requeued(s, q), o) /\ Homed(Requeued(s, q), o, FALSE) /\ Requeued(s, q).busy = s.busy
<1>1. q # "NONE"  BY DEF Queue
<1>2. QED  BY <1>1 DEF Requeued, PageOK, Homed, PageState

\* What advice does to a page: MADV_FREE keeps a page that is modified and not yet noticed.
LEMMA vm_page_adviseKeeps ==
    ASSUME IInv, stopped = "no", use' = use, NEW p \in Page, vm_page_advise(p) PROVE IInv'
<1> DEFINE u == page[p]
           f == IF u.content = "dirty" /\ u.map # "mod" THEN Stored(u) ELSE vm_page_undirty(u)
           d == vm_page_test_dirty(u)
<1>1. u \in PageState /\ PageOK(u, object) /\ Good(memory) /\ memory.page = page  BY PageHas
<1>2. UserLocks(p) /\ u.resident /\ u.busy = "no" /\ Only /\ stopped' = stopped  BY DEF vm_page_advise, Idle
<1>3. "INACTIVE" \in Queue /\ "LAUNDRY" \in Queue  BY DEF Queue
<1>4. f \in PageState /\ f.queue = u.queue /\ PageOK(f, object) /\ f.resident /\ f.busy = "no"
  <2> HIDE DEF u
  <2>1. QED  BY <1>1, <1>2 DEF Stored, vm_page_undirty, PageState, PageOK
<1>5. d \in PageState /\ d.queue = u.queue /\ PageOK(d, object) /\ d.resident /\ d.busy = "no"
  <2> HIDE DEF u
  <2>1. QED  BY <1>1, <1>2 DEF vm_page_test_dirty, PageState, PageOK
<1>6. \/ Becomes(vm_page_deactivate([memory EXCEPT !.page[p] = f], p, TRUE))
      \/ Becomes(vm_page_deactivate(memory, p, TRUE))
      \/ Becomes(vm_page_launder([memory EXCEPT !.page[p] = d], p))
      \/ Becomes(vm_page_activate(memory, p))
      \/ Becomes(vm_page_deactivate(memory, p, FALSE))
  BY DEF vm_page_advise
<1> HIDE DEF f, d
<1>7. CASE Becomes(vm_page_deactivate([memory EXCEPT !.page[p] = f], p, TRUE))
  <2> DEFINE M == [memory EXCEPT !.page[p] = f]
  <2>1. Good(M) /\ M.page[p] = f /\ \A r, v : Makes(M, r, p, v) => Makes(memory, r, p, v)  BY <1>4, EditThen DEF SameQueue
  <2>2. Becomes(vm_page_deactivate(M, p, TRUE))  BY <1>7
  <2> HIDE DEF M
  <2>3. Makes(memory, vm_page_deactivate(M, p, TRUE), p, Requeued(f, "INACTIVE"))  BY <2>1, DeactivateMakes
  <2>4. PageOK(Requeued(f, "INACTIVE"), object) /\ Homed(Requeued(f, "INACTIVE"), object, FALSE)  BY <1>3, <1>4, RequeuedOK
  <2>5. QED  BY <1>2, <2>2, <2>3, <2>4, LockedStep
<1>8. CASE Becomes(vm_page_launder([memory EXCEPT !.page[p] = d], p))
  <2> DEFINE M == [memory EXCEPT !.page[p] = d]
  <2>1. Good(M) /\ M.page[p] = d /\ \A r, v : Makes(M, r, p, v) => Makes(memory, r, p, v)  BY <1>5, EditThen DEF SameQueue
  <2>2. Becomes(vm_page_launder(M, p))  BY <1>8
  <2> HIDE DEF M
  <2>3. Makes(memory, vm_page_launder(M, p), p, Requeued(d, "LAUNDRY"))  BY <2>1, LaunderMakes
  <2>4. PageOK(Requeued(d, "LAUNDRY"), object) /\ Homed(Requeued(d, "LAUNDRY"), object, FALSE)  BY <1>3, <1>5, RequeuedOK
  <2>5. QED  BY <1>2, <2>2, <2>3, <2>4, LockedStep
<1>9. CASE \/ Becomes(vm_page_deactivate(memory, p, TRUE)) \/ Becomes(vm_page_activate(memory, p))
           \/ Becomes(vm_page_deactivate(memory, p, FALSE))
  <2>1. PageOK(Requeued(u, "INACTIVE"), object) /\ Homed(Requeued(u, "INACTIVE"), object, FALSE)
    BY <1>1, <1>2, <1>3, RequeuedOK
  <2>2. Makes(memory, vm_page_deactivate(memory, p, TRUE), p, Requeued(u, "INACTIVE"))  BY <1>1, DeactivateMakes
  <2>3. Makes(memory, vm_page_deactivate(memory, p, FALSE), p, Requeued(u, "INACTIVE"))  BY <1>1, DeactivateMakes
  <2>4. Makes(memory, vm_page_activate(memory, p), p, Requeued(u, "INACTIVE"))  BY <1>1, ActivateMakes
  <2>5. QED  BY <1>2, <1>9, <2>1, <2>2, <2>3, <2>4, LockedStep
<1>10. QED  BY <1>6, <1>7, <1>8, <1>9

\* A page that is not dirty, has no mappings and is not wired may be freed.
LEMMA FreedOK ==
    ASSUME NEW s \in PageState, NEW o, PageOK(s, o), s.pin # "wired", s.unsaved # "yes"
    PROVE  PageOK(Freed(s), o) /\ \A inhand : Homed(Freed(s), o, inhand)
  BY DEF Freed, FreePage, PageOK, Homed, PageState

\* vm_page_try_to_free, which frees the page unless removing its mappings showed that it is dirty.
LEMMA vm_page_try_to_freeKeeps ==
    ASSUME IInv, stopped = "no", use' = use, NEW p \in Page, vm_page_try_to_free(p) PROVE IInv'
<1> DEFINE u == page[p]
           s == IF object = "mapped" THEN pmap_remove_all(u) ELSE u
           M == [memory EXCEPT !.page[p] = s]
<1>1. /\ u \in PageState /\ PageOK(u, object) /\ Homed(u, object, InHand(th["scan"], p)) /\ Good(memory)
      /\ InHand(th["scan"], p) => PageLocked(p)
  BY PageHas
<1>2. UserLocks(p) /\ u.resident /\ u.busy = "no" /\ u.content # "dirty" /\ u.pin = "no" /\ Only
  BY DEF vm_page_try_to_free, Idle
<1>3. /\ s \in PageState /\ PageOK(s, object) /\ s.map = "none" /\ Alike(s, u)
      /\ Homed(s, object, FALSE)
  <2>1. Homed(u, object, FALSE)  BY <1>1, <1>2 DEF Homed, UserLocks
  <2>2. CASE object = "mapped"  BY <1>1, <2>1, <2>2, RemovesAll
  <2>3. CASE object # "mapped"  BY <1>1, <2>1, <2>3 DEF PageOK, Alike
  <2>4. QED  BY <2>2, <2>3
<1>4. IF s.content = "dirty" THEN Becomes(M) /\ UNCHANGED stopped
      ELSE Becomes(vm_page_free(M, p)) /\ KASSERT(FreeAsserts(s))
  BY DEF vm_page_try_to_free
<1> HIDE DEF s
<1>5. s.queue = u.queue /\ s.busy = u.busy /\ s.pin = u.pin  BY <1>3 DEF Alike
<1>6. Good(M) /\ M.page[p] = s /\ Makes(memory, M, p, s) /\ \A r, v : Makes(M, r, p, v) => Makes(memory, r, p, v)
  BY <1>3, <1>5, EditThen DEF SameQueue
<1> HIDE DEF M
<1>7. CASE s.content = "dirty"  BY <1>2, <1>3, <1>4, <1>5, <1>6, <1>7, LockedStep
<1>8. CASE s.content # "dirty"
  <2>1. FreeAsserts(s)  BY <1>2, <1>3, <1>5 DEF FreeAsserts
  <2>2. stopped' = "no" /\ Becomes(vm_page_free(M, p))  BY <1>4, <1>8, <2>1 DEF KASSERT
  <2>3. s.pin # "wired" /\ s.unsaved # "yes"  BY <1>2, <1>3, <1>5, <1>8 DEF PageOK
  <2>4. Makes(memory, vm_page_free(M, p), p, Freed(s))  BY <1>6, FreeMakes
  <2>5. PageOK(Freed(s), object) /\ Homed(Freed(s), object, FALSE)  BY <1>3, <2>3, FreedOK
  <2>6. QED  BY <1>2, <2>2, <2>4, <2>5, LockedStep
<1>9. QED  BY <1>7, <1>8

\* The thread that destroys the object frees its pages.
LEMMA vm_object_terminateKeeps ==
    ASSUME IInv, stopped = "no", use' = use, NEW p \in Page, vm_object_terminate(p) PROVE IInv'
<1> DEFINE u == page[p]
           s == [u EXCEPT !.unsaved = "no"]
           M == [memory EXCEPT !.page[p] = s]
<1>1. u \in PageState /\ PageOK(u, object) /\ Good(memory) /\ memory.page = page  BY PageHas
<1>2. UserLocks(p) /\ object = "dead" /\ u.busy = "no" /\ u.pin # "wired" /\ Only /\ KASSERT(FreeAsserts(u))
  BY DEF vm_object_terminate, Idle
<1>3. [memory EXCEPT !.page[p].unsaved = "no"] = M  BY <1>1 DEF memory
<1>4. Becomes(vm_page_free(M, p))  BY <1>3 DEF vm_object_terminate
<1>5. s \in PageState /\ s.queue = u.queue /\ PageOK(s, object) /\ s.pin # "wired" /\ s.unsaved # "yes"
  <2> HIDE DEF u
  <2>1. QED  BY <1>1, <1>2 DEF PageState, PageOK
<1>6. FreeAsserts(u)  BY <1>1, <1>2 DEF FreeAsserts, PageOK
<1>7. stopped' = "no"  BY <1>2, <1>6 DEF KASSERT
<1> HIDE DEF s
<1>8. Good(M) /\ M.page[p] = s /\ \A r, v : Makes(M, r, p, v) => Makes(memory, r, p, v)  BY <1>5, EditThen DEF SameQueue
<1> HIDE DEF M
<1>9. Makes(memory, vm_page_free(M, p), p, Freed(s))  BY <1>8, FreeMakes
<1>10. PageOK(Freed(s), object) /\ Homed(Freed(s), object, FALSE)  BY <1>5, FreedOK
<1>11. QED  BY <1>2, <1>4, <1>7, <1>9, <1>10, LockedStep

\* What a pager's status makes of a page.
Cleaned(s, status) == IF status = "OK" THEN Stored(s) ELSE Refused(s)

WrittenPage(s, status) ==
    LET n == IF status \in {"OK", "BAD"} THEN IF s.queue = "LAUNDRY" THEN Requeued(Cleaned(s, status), "INACTIVE") ELSE Cleaned(s, status)
             ELSE IF status \in {"ERROR", "FAIL"} THEN Requeued(s, "INACTIVE") ELSE s
    IN  IF status = "PEND" THEN n ELSE [n EXCEPT !.busy = "no"]

\* Written makes that of the page, and moves no other.
LEMMA WrittenMakes ==
    ASSUME NEW M, Good(M), NEW p \in Page, NEW status \in Status
    PROVE  Makes(M, Written(M, p, status), p, WrittenPage(M.page[p], status))
<1> DEFINE u == M.page[p]
           clean == [M EXCEPT !.page[p] = (IF status = "OK" THEN Stored(@) ELSE Refused(@))]
           out == IF u.queue = "LAUNDRY" THEN vm_page_deactivate(clean, p, TRUE) ELSE clean
           N == CASE status \in {"OK", "BAD"}     -> out
                  [] status \in {"ERROR", "FAIL"} -> vm_page_activate(M, p)
                  [] OTHER                        -> M
           n == IF status \in {"OK", "BAD"} THEN IF u.queue = "LAUNDRY" THEN Requeued(Cleaned(u, status), "INACTIVE") ELSE Cleaned(u, status)
                ELSE IF status \in {"ERROR", "FAIL"} THEN Requeued(u, "INACTIVE") ELSE u
<1>1. Written(M, p, status) = IF status = "PEND" THEN N ELSE [N EXCEPT !.page[p].busy = "no"]  BY Zenon DEF Written
<1>2. WrittenPage(u, status) = IF status = "PEND" THEN n ELSE [n EXCEPT !.busy = "no"]  BY Zenon DEF WrittenPage
<1>3. u \in PageState /\ M.page \in [Page -> PageState]  BY GoodHas
<1>4. Cleaned(u, status) \in PageState /\ Cleaned(u, status).queue = u.queue  BY <1>3 DEF Cleaned, Stored, Refused, vm_page_undirty, PageState
<1>5. clean = [M EXCEPT !.page[p] = Cleaned(u, status)]  BY DEF Cleaned
<1>6. Makes(M, clean, p, Cleaned(u, status))  BY <1>4, <1>5, EditMakes DEF SameQueue
<1> HIDE DEF clean
<1>7. Good(clean) /\ clean.page[p] = Cleaned(u, status)  BY <1>3, <1>6 DEF Makes
<1>8. Makes(M, N, p, n)
  <2>1. CASE status \in {"OK", "BAD"}
    <3>1. N = out  BY <2>1, Zenon
    <3>2. CASE u.queue = "LAUNDRY"
      <4> DEFINE d == vm_page_deactivate(clean, p, TRUE)
                 v == Requeued(Cleaned(u, status), "INACTIVE")
      <4>1. Makes(clean, d, p, v)  BY <1>7, DeactivateMakes
      <4>2. N = d /\ n = v  BY <2>1, <3>1, <3>2, Zenon
      <4> HIDE DEF N, n, d, v, u, out
      <4>3. Makes(M, d, p, v)  BY <1>6, <4>1, MakesTwice
      <4>4. QED  BY <4>2, <4>3
    <3>3. CASE u.queue # "LAUNDRY"
      <4>1. N = clean /\ n = Cleaned(u, status)  BY <2>1, <3>1, <3>3, Zenon
      <4> HIDE DEF N, n, u, out
      <4>2. QED  BY <1>6, <4>1
    <3>4. QED  BY <3>2, <3>3, Zenon
  <2>2. CASE status \in {"ERROR", "FAIL"}
    <3>1. status \notin {"OK", "BAD"}  BY <2>2
    <3> DEFINE d == vm_page_activate(M, p)
               v == Requeued(u, "INACTIVE")
    <3>2. N = d /\ n = v
      <4> HIDE DEF d, v, out
      <4>1. n = v  BY <2>2, <3>1, Zenon DEF v
      <4>2. N = d
        <5>1. N = CASE status \in {"OK", "BAD"} -> out [] status \in {"ERROR", "FAIL"} -> d [] OTHER -> M  BY Zenon DEF d
        <5> HIDE DEF N, n
        <5>2. QED  BY <2>2, <3>1, <5>1
      <4>3. QED  BY <4>1, <4>2, Zenon
    <3>3. Makes(M, d, p, v)  BY ActivateMakes
    <3> HIDE DEF N, n, d, v
    <3>4. QED  BY <3>2, <3>3
  <2>3. CASE status \in {"PEND", "AGAIN"}
    <3>1. status \notin {"OK", "BAD"} /\ status \notin {"ERROR", "FAIL"}  BY <2>3
    <3>2. N = M /\ n = u
      <4> HIDE DEF out
      <4>1. n = u  BY <3>1, Zenon
      <4> DEFINE d == vm_page_activate(M, p)
      <4>2. N = CASE status \in {"OK", "BAD"} -> out [] status \in {"ERROR", "FAIL"} -> d [] OTHER -> M  BY Zenon
      <4> HIDE DEF N, n, d
      <4>3. N = M  BY <3>1, <4>2
      <4>4. QED  BY <4>1, <4>3
    <3>3. Makes(M, M, p, u)  BY SameMakes
    <3> HIDE DEF N, n
    <3>4. QED  BY <3>2, <3>3
  <2>4. QED  BY <2>1, <2>2, <2>3, Zenon DEF Status
<1> HIDE DEF N, n
<1>9. CASE status = "PEND"  BY <1>1, <1>2, <1>8, <1>9
<1>10. CASE status # "PEND"
  <2> DEFINE s == [n EXCEPT !.busy = "no"]
  <2>1. Good(N) /\ N.page[p] = n /\ n \in PageState  BY <1>3, <1>8 DEF Makes
  <2>2. s \in PageState /\ s.queue = N.page[p].queue  BY <2>1 DEF PageState
  <2>3. [N EXCEPT !.page[p].busy = "no"] = [N EXCEPT !.page[p] = s]  BY <2>1
  <2> HIDE DEF s
  <2>4. Makes(N, [N EXCEPT !.page[p] = s], p, s)  BY <2>1, <2>2, EditMakes DEF SameQueue
  <2>5. Makes(M, [N EXCEPT !.page[p] = s], p, s)  BY <1>8, <2>4, MakesTwice
  <2>6. QED  BY <1>1, <1>2, <1>10, <2>3, <2>5 DEF s
<1>11. QED  BY <1>9, <1>10

\* A page that is being written stays sound and on a queue, however that ends.
LEMMA WrittenOK ==
    ASSUME NEW s \in PageState, NEW o, NEW status \in Status, PageOK(s, o), Homed(s, o, FALSE), s.busy = "s"
    PROVE  PageOK(WrittenPage(s, status), o) /\ Homed(WrittenPage(s, status), o, FALSE)
<1>1. s.resident /\ s.map \in {"none", "ro"} /\ s.pin \in {"no", "held", "wired"}
  BY DEF PageOK, PageState
<1>2. s.pin # "wired" => s.queue # "NONE" \/ o = "dead"  BY <1>1 DEF Homed
<1>3. QED  BY <1>1, <1>2 DEF WrittenPage, Requeued, Cleaned, Stored, Refused, vm_page_undirty, PageOK, Homed, PageState

\* The end of a pending write.
LEMMA iodoneKeeps == ASSUME IInv, stopped = "no", use' = use, NEW p \in Page, iodone(p) PROVE IInv'
<1>1. PICK status \in {"OK", "ERROR"} : Becomes(Written(memory, p, status))  BY DEF iodone
<1>2. /\ page[p].busy = "s" /\ p \notin cluster /\ ~PageLocked(p) /\ QueuesFree
      /\ object' = object /\ th' = th /\ cluster' = cluster /\ stopped' = stopped
  BY DEF iodone
<1>3. /\ page[p] \in PageState /\ PageOK(page[p], object) /\ Homed(page[p], object, InHand(th["scan"], p))
      /\ Good(memory) /\ memory.page = page /\ (InHand(th["scan"], p) => PageLocked(p))
  BY PageHas
<1>4. Homed(page[p], object, FALSE) /\ status \in Status  BY <1>2, <1>3 DEF Homed, Status
<1> DEFINE s == WrittenPage(page[p], status)
           r == Written(memory, p, status)
<1>5. Makes(memory, r, p, s)  BY <1>3, <1>4, WrittenMakes
<1>6. PageOK(s, object) /\ Homed(s, object, FALSE)  BY <1>2, <1>3, <1>4, WrittenOK
<1>7. Becomes(r)  BY <1>1
<1> HIDE DEF s, r
<1>8. Homed(s, object, InHand(th["scan"], p))  BY <1>6 DEF Homed
<1>9. UserStep(p, r, s)  BY <1>2, <1>5, <1>6, <1>7, <1>8 DEF UserStep
<1>10. QED  BY <1>9, UserStepKeeps

-----------------------------------------------------------------------------
(* The object.                                                             *)

\* A thread that cannot tell the pages from what they were.
LEMMA AlikeKeeps ==
    ASSUME NEW t \in Thread, NEW k, NEW M, ThreadOK(t, k, M), NEW r, r.pq = M.pq,
           \A x \in Page : Alike(r.page[x], M.page[x])
    PROVE  ThreadOK(t, k, r)
<1>1. CASE k.pc \in {"work", "remove"}
  <2> DEFINE a == r.page[k.m]
             b == M.page[k.m]
  <2>1. k.m \in Page  BY <1>1 DEF ThreadOK
  <2>2. /\ k.want > 0 /\ b.resident /\ b.busy = "no" /\ b.pin = "no"
        /\ b.queue = IF t = "scan" THEN "NONE" ELSE "LAUNDRY"
        /\ k.pc = "remove" => b.content # "invalid"
    BY <1>1 DEF ThreadOK
  <2>3. /\ k.want > 0 /\ a.resident /\ a.busy = "no" /\ a.pin = "no"
        /\ a.queue = IF t = "scan" THEN "NONE" ELSE "LAUNDRY"
        /\ k.pc = "remove" => a.content # "invalid"
    <3>1. Alike(a, b)  BY <2>1
    <3> HIDE DEF a, b
    <3>2. QED  BY <2>2, <3>1 DEF Alike
  <2>4. QED  BY <1>1, <2>3 DEF ThreadOK
<1>2. CASE k.pc \notin {"work", "remove"}  BY <1>2 DEF ThreadOK
<1>3. QED  BY <1>1, <1>2

\* The object is mapped for the first time, or for the last.
LEMMA referenceKeeps == ASSUME IInv, stopped = "no", use' = use, reference PROVE IInv'
<1>1. /\ object # "dead" /\ object' \in {"mapped", "unmapped"} /\ page' = [p \in Page |-> pmap_remove_all(page[p])]
      /\ pq' = pq /\ th' = th /\ cluster' = cluster /\ stopped' = stopped
  BY DEF reference
<1>2. Good(memory) /\ memory.page = page /\ memory.pq = pq  BY DEF IInv, PagesInv, memory
<1>3. ASSUME NEW p \in Page
      PROVE  /\ page'[p] \in PageState /\ Alike(page'[p], page[p]) /\ page'[p].queue = page[p].queue
             /\ page'[p].busy = page[p].busy
             /\ PageOK(page'[p], object') /\ Homed(page'[p], object', InHand(th["scan"], p))
  <2> DEFINE s == page'[p]
  <2>1. /\ page[p] \in PageState /\ PageOK(page[p], object) /\ Homed(page[p], object, InHand(th["scan"], p))
        /\ s = pmap_remove_all(page[p])
    BY <1>1, PageHas
  <2>2. /\ s \in PageState /\ Alike(s, page[p]) /\ PageOK(s, object) /\ s.map = "none"
        /\ Homed(s, object, InHand(th["scan"], p))
    BY <2>1, RemovesAll
  <2> HIDE DEF s
  <2>3. PageOK(s, object') /\ Homed(s, object', InHand(th["scan"], p))  BY <1>1, <2>2 DEF PageOK, Homed
  <2>4. QED  BY <2>2, <2>3 DEF Alike, s
<1>4. page' \in [Page -> PageState] /\ pq \in [Queue -> Seq(Entry)]  BY <1>1, <1>2, <1>3 DEF Good
<1>5. memory' = [page |-> page', pq |-> pq]  BY <1>1 DEF memory
<1>6. Good(memory')
  <2>1. \A x \in Page, q \in Queue : x \in Range(pq[q]) <=> page[x].queue = q  BY <1>2, GoodHas
  <2>2. \A x \in Page, q \in Queue : x \in Range(pq[q]) <=> page'[x].queue = q  BY <1>3, <2>1
  <2>3. \A q \in Queue : Distinct(pq[q])  BY <1>2, GoodHas
  <2>4. QED  BY <1>4, <1>5, <2>2, <2>3, GoodIs
<1>7. PagesInv'  BY <1>1, <1>3, <1>6 DEF PagesInv
<1>8. ThreadsInv'
  <2>1. memory'.pq = memory.pq /\ memory'.page = page'  BY <1>2, <1>5
  <2>2. ASSUME NEW t \in Thread PROVE ThreadOK(t, th'[t], memory')
    <3>1. ThreadOK(t, th[t], memory) /\ th'[t] = th[t]  BY <1>1 DEF IInv, ThreadsInv
    <3>2. ThreadOK(t, th[t], memory')  BY <1>2, <1>3, <2>1, <3>1, AlikeKeeps
    <3>3. QED  BY <3>1, <3>2
  <2>3. QED  BY <1>1, <2>2 DEF IInv, ThreadsInv, Alone
<1>9. RestInv'
  <2>1. ClusterOK(cluster', page', th')  BY <1>1, <1>3 DEF IInv, RestInv, ClusterOK
  <2>2. QED  BY <1>1, <2>1 DEF IInv, RestInv
<1>10. QED  BY <1>7, <1>8, <1>9 DEF IInv

\* The object dies, and there is another one.
LEMMA terminateKeeps == ASSUME IInv, stopped = "no", use' = use, terminate \/ renew PROVE IInv'
<1>1. /\ page' = page /\ pq' = pq /\ th' = th /\ cluster' = cluster /\ stopped' = stopped /\ memory' = memory
      /\ object' \in {"mapped", "dead"} /\ (object' = "dead" => th["laundry"].pc # "vget")
  BY DEF terminate, renew, memory
<1>2. ASSUME NEW p \in Page PROVE PageOK(page[p], object') /\ Homed(page[p], object', InHand(th["scan"], p))
  <2>1. PageOK(page[p], object)  BY PageHas
  <2>2. CASE terminate
    <3>1. object = "unmapped" /\ object' = "dead" /\ page[p].busy = "no"  BY <2>2 DEF terminate
    <3>2. QED  BY <2>1, <3>1 DEF PageOK, Homed
  <2>3. CASE renew
    <3>1. object = "dead" /\ object' = "mapped" /\ ~page[p].resident  BY <2>3 DEF renew
    <3>2. QED  BY <2>1, <3>1 DEF PageOK, Homed
  <2>4. QED  BY <2>2, <2>3
<1>3. PagesInv'  BY <1>1, <1>2 DEF IInv, PagesInv
<1>4. ThreadsInv'  BY <1>1 DEF IInv, ThreadsInv, Alone
<1>5. RestInv'  BY <1>1 DEF IInv, RestInv, ClusterOK
<1>6. QED  BY <1>3, <1>4, <1>5 DEF IInv

-----------------------------------------------------------------------------
(* The walk of the two threads.                                            *)

\* What is known of a thread and of its queue.
LEMMA ThreadHas ==
    ASSUME IInv, NEW t \in Thread
    PROVE  /\ ThreadOK(t, th[t], memory) /\ th[t] \in ThreadState /\ DOMAIN th = Thread
           /\ Good(memory) /\ memory.page = page /\ memory.pq = pq /\ QueueOf(t) \in Queue
           /\ page \in [Page -> PageState] /\ pq \in [Queue -> Seq(Entry)]
           /\ pq[QueueOf(t)] \in Seq(Entry) /\ Distinct(pq[QueueOf(t)])
<1>1. Good(memory) /\ memory.page = page /\ memory.pq = pq  BY DEF IInv, PagesInv, memory
<1>2. QueueOf(t) \in Queue  BY Markers
<1>3. ThreadOK(t, th[t], memory) /\ DOMAIN th = Thread  BY DEF IInv, ThreadsInv
<1>4. page \in [Page -> PageState] /\ pq \in [Queue -> Seq(Entry)]  BY <1>1 DEF Good
<1>5. Distinct(pq[QueueOf(t)])  BY <1>1, <1>2 DEF Good
<1>6. QED  BY <1>1, <1>2, <1>3, <1>4, <1>5 DEF ThreadOK

\* Bounds are natural numbers.
LEMMA Bounds == Cardinality(Page) \in Nat /\ Target \in Nat /\ Resting \in ThreadState
<1>1. Cardinality(Page) \in Nat /\ Target \in Nat  BY PageAssumption, FS_CardinalityType
<1>2. QED  BY <1>1 DEF Resting, ThreadState, Label

\* A step of the thread t to the state k.
LEMMA ThreadStepKeeps ==
    ASSUME IInv, NEW t \in Thread, NEW k, th' = [th EXCEPT ![t] = k], PagesInv', ThreadOK(t, k, memory'),
           \A x \in Thread \ {t} : ThreadOK(x, th[x], memory'), FifoOK(th'["scan"], pq'["INACTIVE"]),
           k.pc \in {"work", "remove"} => th[t].pc \in {"work", "remove"} \/ ~ObjectLocked,
           ClusterOK(cluster', page', th'), stopped' \in {"no", "statistics"}, object' = object, use' = use,
           k.pc = "vget" => object # "dead"
    PROVE  IInv'
<1>1. /\ th' \in [Thread -> ThreadState] /\ th'[t] = k /\ \A x \in Thread \ {t} : th'[x] = th[x]
  BY DEF IInv, ThreadsInv, ThreadOK
<1>2. Alone(th')
  <2>1. PICK x \in Thread : x # t  BY DEF Thread
  <2>2. ASSUME k.pc \in {"work", "remove"}, th[x].pc \in {"work", "remove"} PROVE FALSE
    <3>1. ObjectLocked  BY <2>2 DEF ObjectLocked
    <3>2. th[t].pc \in {"work", "remove"}  BY <2>2, <3>1
    <3>3. \A y \in Thread : y = t \/ y = x  BY <2>1 DEF Thread
    <3>4. QED  BY <2>2, <3>2, <3>3 DEF IInv, ThreadsInv, Alone
  <2>3. QED  BY <1>1, <2>1, <2>2 DEF Alone
<1>3. \A x \in Thread : ThreadOK(x, th'[x], memory')  BY <1>1
<1>4. ThreadsInv'  BY <1>1, <1>2, <1>3 DEF ThreadsInv
<1>5. "laundry" \in Thread  BY DEF Thread
<1>6. object' = "dead" => th'["laundry"].pc # "vget"  BY <1>1, <1>5 DEF IInv, RestInv
<1>7. RestInv'  BY <1>6 DEF IInv, RestInv
<1>8. QED  BY <1>4, <1>7 DEF IInv

\* The marker of thread t comes or goes: r is now its queue.
LEMMA MarkMakes ==
    ASSUME IInv, NEW t \in Thread, NEW r \in Seq(Entry), Distinct(r),
           Range(r) \ {t} = Range(pq[QueueOf(t)]) \ {t}
    PROVE  LET M == [page |-> page, pq |-> [pq EXCEPT ![QueueOf(t)] = r]]
           IN  /\ Good(M) /\ M.page = page /\ M.pq[QueueOf(t)] = r
               /\ \A q \in Queue : q # QueueOf(t) => M.pq[q] = pq[q] /\ t \notin Range(M.pq[q])
               /\ \A x \in Thread \ {t} : ThreadOK(x, th[x], M)
<1> DEFINE qs == [pq EXCEPT ![QueueOf(t)] = r]
           M == [page |-> page, pq |-> qs]
           Q == QueueOf(t)
<1>1. /\ ThreadOK(t, th[t], memory) /\ Good(memory) /\ memory.page = page /\ memory.pq = pq /\ Q \in Queue
      /\ page \in [Page -> PageState] /\ pq \in [Queue -> Seq(Entry)]
  BY ThreadHas
<1>2. qs \in [Queue -> Seq(Entry)] /\ qs[Q] = r /\ \A q \in Queue : q # Q => qs[q] = pq[q]  BY <1>1
<1>3. \A q \in Queue : q # Q => t \notin Range(pq[q])  BY <1>1 DEF ThreadOK
<1>4. M.page = page /\ M.pq = qs  OBVIOUS
<1> HIDE DEF qs
<1>5. \A q \in Queue : Distinct(qs[q])  BY <1>1, <1>2, GoodHas
<1>6. ASSUME NEW p \in Page, NEW q \in Queue PROVE p \in Range(qs[q]) <=> page[p].queue = q
  <2>1. p \in Range(pq[q]) <=> page[p].queue = q  BY <1>1, GoodHas
  <2>2. p # t  BY Markers
  <2>3. QED  BY <1>2, <2>1, <2>2
<1>7. Good(M)  BY <1>1, <1>2, <1>5, <1>6, GoodIs
<1> HIDE DEF M
<1>8. ASSUME NEW x \in Thread \ {t} PROVE ThreadOK(x, th[x], M)
  <2>1. ThreadOK(x, th[x], memory) /\ QueueOf(x) \in Queue /\ QueueOf(x) # Q  BY ThreadHas DEF Thread, QueueOf
  <2>2. M.pq[QueueOf(x)] = pq[QueueOf(x)]  BY <1>2, <1>4, <2>1
  <2>3. \A q \in Queue : x \in Range(M.pq[q]) <=> x \in Range(pq[q])  BY <1>2, <1>4
  <2>4. QED  BY <1>1, <1>4, <2>1, <2>2, <2>3 DEF ThreadOK
<1>9. QED  BY <1>2, <1>3, <1>4, <1>7, <1>8 DEF M, qs

\* The state k of a thread t that has no page in its hands, with r its queue.
WalkOK(t, k, r) ==
    /\ k \in ThreadState /\ k.pc \in {"idle", "lock", "page", "wait_page", "wait_object", "relock"}
    /\ t \in Range(r) <=> k.pc \in Away
    /\ k.pc = "page" => k.m \in Range(r)
    /\ k.pc \in {"page", "wait_page", "wait_object"} => k.left > 0 /\ k.want > 0
    /\ k.pc \in {"wait_page", "wait_object"} => k.m \in Page
    /\ t = "scan" => FifoOK(k, r)

\* A step of a thread that has no page in its hands.
LEMMA WalkStepKeeps ==
    ASSUME IInv, NEW t \in Thread, NEW k, NEW r \in Seq(Entry), Distinct(r),
           Range(r) \ {t} = Range(pq[QueueOf(t)]) \ {t}, th[t].pc \notin {"work", "remove", "put"},
           WalkOK(t, k, r), th' = [th EXCEPT ![t] = k], pq' = [pq EXCEPT ![QueueOf(t)] = r], page' = page,
           object' = object, cluster' = cluster, use' = use, stopped' = "no"
    PROVE  IInv'
<1> DEFINE M == [page |-> page, pq |-> [pq EXCEPT ![QueueOf(t)] = r]]
<1>1. /\ Good(M) /\ M.page = page /\ M.pq[QueueOf(t)] = r
      /\ \A q \in Queue : q # QueueOf(t) => M.pq[q] = pq[q] /\ t \notin Range(M.pq[q])
      /\ \A x \in Thread \ {t} : ThreadOK(x, th[x], M)
  BY MarkMakes
<1>2. memory' = M /\ pq' = M.pq  BY DEF memory
<1> HIDE DEF M
<1>3. QueueOf(t) \in Queue /\ DOMAIN th = Thread  BY ThreadHas
<1>4. th'[t] = k /\ \A x \in Thread \ {t} : th'[x] = th[x]  BY <1>3
<1>5. "scan" \in Thread /\ "laundry" \in Thread  BY DEF Thread
<1>6. ThreadOK(t, k, memory')
  <2>1. \A q \in Queue : t \in Range(M.pq[q]) <=> q = QueueOf(t) /\ k.pc \in Away  BY <1>1 DEF WalkOK
  <2>2. k.pc \notin {"work", "remove", "vget", "put"}  BY DEF WalkOK
  <2>3. QED  BY <1>1, <1>2, <2>1, <2>2 DEF WalkOK, ThreadOK
<1>7. FifoOK(th'["scan"], pq'["INACTIVE"])
  <2>1. CASE t = "scan"
    <3>1. QueueOf(t) = "INACTIVE"  BY <2>1 DEF QueueOf
    <3>2. QED  BY <1>1, <1>2, <1>4, <2>1, <3>1 DEF WalkOK
  <2>2. CASE t # "scan"
    <3>1. QueueOf(t) # "INACTIVE" /\ "INACTIVE" \in Queue  BY <2>2 DEF QueueOf, Queue
    <3>2. pq'["INACTIVE"] = pq["INACTIVE"] /\ th'["scan"] = th["scan"]  BY <1>1, <1>2, <1>4, <1>5, <2>2, <3>1
    <3>3. QED  BY <3>2 DEF IInv, ThreadsInv
  <2>3. QED  BY <2>1, <2>2
<1>8. PagesInv'
  <2>1. ASSUME NEW p \in Page PROVE PageOK(page[p], object) /\ Homed(page[p], object, InHand(th'["scan"], p))
    <3>1. PageOK(page[p], object) /\ Homed(page[p], object, InHand(th["scan"], p))  BY DEF IInv, PagesInv
    <3>2. InHand(th["scan"], p) => InHand(th'["scan"], p)  BY <1>4, <1>5 DEF InHand
    <3>3. QED  BY <3>1, <3>2 DEF Homed
  <2>2. QED  BY <1>1, <1>2, <2>1 DEF PagesInv
<1>9. ClusterOK(cluster', page', th')
  <2>1. ClusterOK(cluster, page, th)  BY DEF IInv, RestInv
  <2>2. CASE t = "laundry"  BY <2>1, <2>2 DEF ClusterOK
  <2>3. CASE t # "laundry"  BY <1>4, <1>5, <2>1, <2>3 DEF ClusterOK
  <2>4. QED  BY <2>2, <2>3
<1>10. k.pc \notin {"work", "remove", "vget"}  BY DEF WalkOK
<1>11. QED  BY <1>1, <1>2, <1>6, <1>7, <1>8, <1>9, <1>10, ThreadStepKeeps

\* The head of the loop.
Onward(m, left, want, skipped) ==
    IF m = NoPage \/ left = 0 \/ want = 0 THEN Resting
    ELSE [pc |-> "page", m |-> m, left |-> left, want |-> want, skipped |-> skipped]

\* The head of the loop, at the entry m of a queue r without the marker.
LEMMA WalkIs ==
    ASSUME NEW t \in Thread, NEW r \in Seq(Entry), t \notin Range(r), NEW m, m # NoPage => m \in Range(r),
           NEW left \in 0 .. Cardinality(Page), NEW want \in 0 .. Target, NEW skipped \in SUBSET Page,
           t = "scan" /\ m # NoPage => Before(r, m) \cap Page \subseteq skipped
    PROVE  WalkOK(t, Onward(m, left, want, skipped), r)
<1>1. Cardinality(Page) \in Nat /\ Target \in Nat /\ Resting \in ThreadState  BY Bounds
<1>2. CASE m = NoPage \/ left = 0 \/ want = 0
  <2>1. Onward(m, left, want, skipped) = Resting  BY <1>2 DEF Onward
  <2>2. Resting.pc = "idle" /\ "idle" \notin Away  BY DEF Resting, Away
  <2>3. QED  BY <1>1, <2>1, <2>2 DEF WalkOK, FifoOK
<1>3. CASE ~(m = NoPage \/ left = 0 \/ want = 0)
  <2> DEFINE k == [pc |-> "page", m |-> m, left |-> left, want |-> want, skipped |-> skipped]
  <2>1. Onward(m, left, want, skipped) = k  BY <1>3 DEF Onward
  <2>2. m \in Entry  BY <1>3, InRange
  <2>3. k \in ThreadState  BY <2>2 DEF ThreadState, Label
  <2>4. k.pc = "page" /\ k.m = m /\ k.left > 0 /\ k.want > 0 /\ k.skipped = skipped /\ "page" \notin Away
    BY <1>1, <1>3 DEF Away
  <2> HIDE DEF k
  <2>5. QED  BY <1>3, <2>1, <2>3, <2>4 DEF WalkOK, FifoOK
<1>4. QED  BY <1>2, <1>3

\* A thread that reads maxscan, and one that has only its queue before it.
LEMMA BeginKeeps == ASSUME IInv, stopped = "no", use' = use, NEW t \in Thread, Begin(t) PROVE IInv'
<1> DEFINE Q == QueueOf(t)
           k == [th[t] EXCEPT !.pc = "lock", !.left = pq_cnt(Q), !.want = Target]
<1>1. /\ ThreadOK(t, th[t], memory) /\ th[t] \in ThreadState /\ Q \in Queue /\ DOMAIN th = Thread
      /\ pq \in [Queue -> Seq(Entry)] /\ pq[Q] \in Seq(Entry) /\ Distinct(pq[Q]) /\ memory.pq = pq
  BY ThreadHas
<1>2. th[t].pc = "idle" /\ page' = page /\ pq' = pq /\ object' = object /\ cluster' = cluster /\ stopped' = stopped
  BY DEF Begin
<1>3. th' = [th EXCEPT ![t] = k]  BY <1>1 DEF Begin
<1>4. pq_cnt(Q) \in 0 .. Cardinality(Page)
  <2>1. IsFiniteSet(Page) /\ Range(pq[Q]) \cap Page \subseteq Page  BY PageAssumption
  <2>2. /\ Cardinality(Range(pq[Q]) \cap Page) <= Cardinality(Page) /\ IsFiniteSet(Range(pq[Q]) \cap Page)
    BY <2>1, FS_Subset
  <2>3. Cardinality(Range(pq[Q]) \cap Page) \in Nat /\ Cardinality(Page) \in Nat  BY <2>1, <2>2, FS_CardinalityType
  <2>4. QED  BY <2>2, <2>3 DEF pq_cnt
<1>5. Target \in Nat  BY Bounds
<1>6. k \in ThreadState /\ k.pc = "lock"
  <2> DEFINE c == pq_cnt(Q)
  <2>1. c \in 0 .. Cardinality(Page)  BY <1>4
  <2> HIDE DEF c
  <2>2. [th[t] EXCEPT !.pc = "lock", !.left = c, !.want = Target] \in ThreadState
    <3>1. th[t] \in ThreadState /\ Target \in 0 .. Target  BY <1>1, <1>5
    <3>2. QED  BY <2>1, <3>1 DEF ThreadState, Label
  <2>3. QED  BY <1>1, <2>2 DEF c, ThreadState
<1> HIDE DEF k
<1>7. t \notin Range(pq[Q])  BY <1>1, <1>2 DEF ThreadOK, Away
<1>8. WalkOK(t, k, pq[Q])  BY <1>6, <1>7 DEF WalkOK, FifoOK, Away
<1>9. pq' = [pq EXCEPT ![Q] = pq[Q]]  BY <1>1, <1>2
<1> HIDE DEF Q
<1>10. QED  BY <1>1, <1>2, <1>3, <1>8, <1>9, WalkStepKeeps DEF Q

\* The walk starts at the head of the queue, or the statistics stop it.
LEMMA LockKeeps == ASSUME IInv, stopped = "no", use' = use, NEW t \in Thread, Lock(t) PROVE IInv'
<1> DEFINE Q == QueueOf(t)
           m == IF pq[Q] = <<>> THEN NoPage ELSE Head(pq[Q])
           k == Onward(m, th[t].left, th[t].want, th[t].skipped)
<1>1. /\ ThreadOK(t, th[t], memory) /\ th[t] \in ThreadState /\ Q \in Queue /\ DOMAIN th = Thread
      /\ pq \in [Queue -> Seq(Entry)] /\ pq[Q] \in Seq(Entry) /\ Distinct(pq[Q]) /\ memory.pq = pq
  BY ThreadHas
<1>2. th[t].pc = "lock" /\ page' = page /\ pq' = pq /\ object' = object /\ cluster' = cluster
  BY DEF Lock
<1>3. (th' = [th EXCEPT ![t] = k] /\ stopped' = stopped) \/ (th' = th /\ stopped' = "statistics")
  BY DEF Lock, WalkOn, Walk, Onward
<1>4. CASE th' = [th EXCEPT ![t] = k] /\ stopped' = stopped
  <2>1. t \notin Range(pq[Q])  BY <1>1, <1>2 DEF ThreadOK, Away
  <2>2. m # NoPage => m \in Range(pq[Q]) /\ Before(pq[Q], m) = {}  BY <1>1, Firsts
  <2>3. th[t].left \in 0 .. Cardinality(Page) /\ th[t].want \in 0 .. Target /\ th[t].skipped \in SUBSET Page
    BY <1>1 DEF ThreadState
  <2> HIDE DEF m
  <2>4. WalkOK(t, k, pq[Q])  BY <1>1, <2>1, <2>2, <2>3, WalkIs
  <2>5. pq' = [pq EXCEPT ![Q] = pq[Q]]  BY <1>1, <1>2
  <2> HIDE DEF k, Q
  <2>6. QED  BY <1>1, <1>2, <1>4, <2>4, <2>5, WalkStepKeeps DEF Q
<1>5. CASE th' = th /\ stopped' = "statistics"
  <2>1. memory' = memory  BY <1>2 DEF memory
  <2>2. PagesInv' /\ ThreadsInv'  BY <1>2, <1>5, <2>1 DEF IInv, PagesInv, ThreadsInv, Alone
  <2>3. RestInv'  BY <1>2, <1>5 DEF IInv, RestInv, ClusterOK
  <2>4. QED  BY <2>2, <2>3 DEF IInv
<1>6. QED  BY <1>3, <1>4, <1>5

\* The walk passes a marker.
LEMMA SkipMarkerKeeps == ASSUME IInv, stopped = "no", use' = use, NEW t \in Thread, SkipMarker(t) PROVE IInv'
<1> DEFINE Q == QueueOf(t)
           m == TAILQ_NEXT(pq[Q], th[t].m)
           k == Onward(m, th[t].left - 1, th[t].want, th[t].skipped)
<1>1. /\ ThreadOK(t, th[t], memory) /\ th[t] \in ThreadState /\ Q \in Queue /\ DOMAIN th = Thread
      /\ pq \in [Queue -> Seq(Entry)] /\ pq[Q] \in Seq(Entry) /\ Distinct(pq[Q]) /\ memory.pq = pq
  BY ThreadHas
<1>2. /\ th[t].pc = "page" /\ th[t].m \notin Page /\ page' = page /\ pq' = pq /\ object' = object
      /\ cluster' = cluster /\ stopped' = stopped
  BY DEF SkipMarker
<1>3. th' = [th EXCEPT ![t] = k]  BY DEF SkipMarker, Walk, Onward
<1>4. th[t].m \in Range(pq[Q]) /\ th[t].left > 0 /\ t \notin Range(pq[Q])  BY <1>1, <1>2 DEF ThreadOK, Away
<1>5. m # NoPage => m \in Range(pq[Q]) /\ Before(pq[Q], m) = Before(pq[Q], th[t].m) \cup {th[t].m}
  BY <1>1, <1>4, Nexts
<1>6. t = "scan" => Before(pq[Q], th[t].m) \cap Page \subseteq th[t].skipped
  BY <1>2 DEF IInv, ThreadsInv, FifoOK, QueueOf
<1>7. th[t].left - 1 \in 0 .. Cardinality(Page) /\ th[t].want \in 0 .. Target /\ th[t].skipped \in SUBSET Page
  BY <1>1, <1>4, Bounds DEF ThreadState
<1> HIDE DEF m
<1>8. t = "scan" /\ m # NoPage => Before(pq[Q], m) \cap Page \subseteq th[t].skipped  BY <1>2, <1>5, <1>6
<1>9. WalkOK(t, k, pq[Q])  BY <1>1, <1>4, <1>5, <1>7, <1>8, WalkIs
<1>10. pq' = [pq EXCEPT ![Q] = pq[Q]]  BY <1>1, <1>2
<1> HIDE DEF k, Q
<1>11. QED  BY <1>1, <1>2, <1>3, <1>9, <1>10, WalkStepKeeps DEF Q

\* The thread t is at its page, with q its queue without the marker.
Ready(t, q) ==
    /\ q \in Seq(Entry) /\ Distinct(q) /\ Range(q) = Range(pq[QueueOf(t)]) \ {t}
    /\ th[t].m \in Range(q) /\ th[t].m \in Page /\ th[t].pc \in {"page", "wait_page", "wait_object"}
    /\ t = "scan" => Before(q, th[t].m) \cap Page \subseteq th[t].skipped
\* What else a step of a thread leaves as it is.
Quiet == object' = object /\ cluster' = cluster /\ use' = use /\ stopped' = "no"

\* The page is left where it is.
LEMMA SkipKeeps == ASSUME IInv, Quiet, NEW t \in Thread, NEW q, Ready(t, q), Skip(t, q) PROVE IInv'
<1> DEFINE m == TAILQ_NEXT(q, th[t].m)
           sk == IF t = "scan" THEN th[t].skipped \cup {th[t].m} ELSE {}
           k == Onward(m, th[t].left - 1, th[t].want, sk)
<1>1. /\ ThreadOK(t, th[t], memory) /\ th[t] \in ThreadState
  BY ThreadHas
<1>2. page' = page /\ pq' = [pq EXCEPT ![QueueOf(t)] = q] /\ th' = [th EXCEPT ![t] = k]
  BY DEF Skip, Walk, Onward
<1>3. th[t].left > 0 /\ t \notin Range(q)  BY <1>1 DEF ThreadOK, Ready
<1>4. m # NoPage => m \in Range(q) /\ Before(q, m) = Before(q, th[t].m) \cup {th[t].m}  BY Nexts DEF Ready
<1>5. /\ th[t].left - 1 \in 0 .. Cardinality(Page) /\ th[t].want \in 0 .. Target /\ th[t].skipped \in SUBSET Page
      /\ sk \in SUBSET Page
  BY <1>1, <1>3, Bounds DEF ThreadState, Ready
<1>6. t = "scan" /\ m # NoPage => Before(q, m) \cap Page \subseteq sk  BY <1>4 DEF Ready
<1> HIDE DEF m, sk
<1>7. WalkOK(t, k, q)  BY <1>3, <1>4, <1>5, <1>6, WalkIs DEF Ready
<1> HIDE DEF k
<1>8. Range(q) \ {t} = Range(pq[QueueOf(t)]) \ {t}  BY DEF Ready
<1>9. QED  BY <1>2, <1>7, <1>8, WalkStepKeeps DEF Ready, Quiet

\* The locks are given up, and a marker keeps the place.
LEMMA WaitKeeps ==
    ASSUME IInv, Quiet, NEW t \in Thread, NEW q, Ready(t, q), NEW l \in {"wait_page", "wait_object"}, Wait(t, q, l)
    PROVE  IInv'
<1> DEFINE r == InsertAfter(q, th[t].m, t)
           k == [th[t] EXCEPT !.pc = l]
<1>1. ThreadOK(t, th[t], memory) /\ th[t] \in ThreadState /\ DOMAIN th = Thread  BY ThreadHas
<1>2. page' = page /\ pq' = [pq EXCEPT ![QueueOf(t)] = r] /\ th' = [th EXCEPT ![t] = k]
  BY DEF Wait, Go
<1>3. t \in Entry /\ t \notin Range(q)  BY Markers DEF Ready
<1>4. /\ r \in Seq(Entry) /\ Distinct(r) /\ Range(r) = Range(q) \cup {t}
      /\ Before(r, t) = Before(q, th[t].m) \cup {th[t].m} /\ Before(r, th[t].m) = Before(q, th[t].m)
  BY <1>3, Inserted DEF Ready
<1> HIDE DEF r
<1>5. th[t].left > 0 /\ th[t].want > 0 /\ th[t].m \in Page  BY <1>1 DEF ThreadOK, Ready
<1>6. /\ k \in ThreadState /\ k.pc = l /\ k.m = th[t].m /\ k.left = th[t].left /\ k.want = th[t].want
      /\ k.skipped = th[t].skipped
  BY <1>1 DEF ThreadState, Label
<1> HIDE DEF k
<1>7. l \in Away /\ l # "page"  BY DEF Away
<1>8. t = "scan" => FifoOK(k, r)  BY <1>4, <1>6, <1>7 DEF FifoOK, Ready
<1>9. WalkOK(t, k, r)  BY <1>4, <1>5, <1>6, <1>7, <1>8 DEF WalkOK
<1>10. Range(r) \ {t} = Range(pq[QueueOf(t)]) \ {t}  BY <1>4 DEF Ready
<1>11. QED  BY <1>2, <1>4, <1>9, <1>10, WalkStepKeeps DEF Ready, Quiet

\* The walk goes on behind the marker, and removes it.
LEMMA BehindKeeps ==
    ASSUME IInv, Quiet, NEW t \in Thread, th[t].pc \in {"wait_page", "wait_object", "relock"},
           t = "scan" => Before(pq[QueueOf(t)], t) \cap Page \subseteq th[t].skipped,
           NEW left \in 0 .. Cardinality(Page),
           th' = [th EXCEPT ![t] = Onward(TAILQ_NEXT(pq[QueueOf(t)], t), left, th[t].want, th[t].skipped)],
           pq' = [pq EXCEPT ![QueueOf(t)] = TAILQ_REMOVE(pq[QueueOf(t)], t)], page' = page
    PROVE  IInv'
<1> DEFINE s == pq[QueueOf(t)]
           r == TAILQ_REMOVE(s, t)
           m == TAILQ_NEXT(s, t)
           k == Onward(m, left, th[t].want, th[t].skipped)
<1>1. /\ ThreadOK(t, th[t], memory) /\ th[t] \in ThreadState /\ s \in Seq(Entry) /\ Distinct(s)
      /\ memory.pq = pq /\ QueueOf(t) \in Queue
  BY ThreadHas
<1>2. t \in Range(s)  BY <1>1 DEF ThreadOK, Away
<1> HIDE DEF s
<1>3. /\ r \in Seq(Entry) /\ Distinct(r) /\ Range(r) = Range(s) \ {t}
      /\ \A e \in Range(s) \ {t} : Before(r, e) = Before(s, e) \ {t}
  BY <1>1, <1>2, Removed DEF Moves
<1>4. m # NoPage => m \in Range(s) \ {t} /\ Before(s, m) = Before(s, t) \cup {t}  BY <1>1, <1>2, Nexts
<1> HIDE DEF r, m
<1>5. t = "scan" => Before(s, t) \cap Page \subseteq th[t].skipped  BY DEF s
<1>6. t = "scan" /\ m # NoPage => Before(r, m) \cap Page \subseteq th[t].skipped  BY <1>3, <1>4, <1>5
<1>7. th[t].want \in 0 .. Target /\ th[t].skipped \in SUBSET Page  BY <1>1 DEF ThreadState
<1>8. t \notin Range(r) /\ (m # NoPage => m \in Range(r))  BY <1>3, <1>4
<1>9. WalkOK(t, k, r)  BY <1>3, <1>6, <1>7, <1>8, WalkIs
<1>10. Range(r) \ {t} = Range(pq[QueueOf(t)]) \ {t}  BY <1>3 DEF s
<1>11. th' = [th EXCEPT ![t] = k] /\ pq' = [pq EXCEPT ![QueueOf(t)] = r]  BY DEF r, s, m
<1> HIDE DEF k
<1>12. QED  BY <1>3, <1>9, <1>10, <1>11, WalkStepKeeps DEF Quiet

\* The walk goes on when a page has been dealt with.
LEMMA RelockKeeps == ASSUME IInv, stopped = "no", use' = use, NEW t \in Thread, Relock(t) PROVE IInv'
<1>1. /\ th[t].pc = "relock" /\ pq' = [pq EXCEPT ![QueueOf(t)] = TAILQ_REMOVE(pq[QueueOf(t)], t)]
      /\ page' = page /\ Quiet
  <2>1. /\ th[t].pc = "relock" /\ pq' = [pq EXCEPT ![QueueOf(t)] = TAILQ_REMOVE(@, t)]
        /\ page' = page /\ object' = object /\ cluster' = cluster /\ stopped' = stopped
    BY DEF Relock
  <2>2. QED  BY <2>1 DEF Quiet
<1>2. th' = [th EXCEPT ![t] = Onward(TAILQ_NEXT(pq[QueueOf(t)], t), th[t].left, th[t].want, th[t].skipped)]
  BY DEF Relock, WalkOn, Walk, Onward
<1>3. th[t].left \in 0 .. Cardinality(Page)  BY ThreadHas DEF ThreadState
<1>4. t = "scan" => Before(pq[QueueOf(t)], t) \cap Page \subseteq th[t].skipped
  BY <1>1 DEF IInv, ThreadsInv, FifoOK, QueueOf
<1>5. QED  BY <1>1, <1>2, <1>3, <1>4, BehindKeeps

\* The page is no longer where the thread has left it.
LEMMA MovedKeeps ==
    ASSUME IInv, Quiet, NEW t \in Thread, th[t].pc \in {"wait_page", "wait_object"},
           th[t].m \notin Range(pq[QueueOf(t)]) \/ TAILQ_PREV(pq[QueueOf(t)], t) # th[t].m,
           Moved(t, pq[QueueOf(t)])
    PROVE  IInv'
<1> DEFINE s == pq[QueueOf(t)]
           m == th[t].m
           v == TAILQ_PREV(s, t)
<1>1. /\ ThreadOK(t, th[t], memory) /\ th[t] \in ThreadState /\ s \in Seq(Entry) /\ Distinct(s)
      /\ memory.pq = pq /\ QueueOf(t) \in Queue
  BY ThreadHas
<1>2. t \in Range(s) /\ th[t].left > 0  BY <1>1 DEF ThreadOK, Away
<1>3. /\ page' = page /\ pq' = [pq EXCEPT ![QueueOf(t)] = TAILQ_REMOVE(s, t)]
      /\ th' = [th EXCEPT ![t] = Onward(TAILQ_NEXT(s, t), th[t].left - 1, th[t].want, th[t].skipped)]
  BY DEF Moved, Walk, Onward
<1>4. th[t].left - 1 \in 0 .. Cardinality(Page)  BY <1>1, <1>2, Bounds DEF ThreadState
<1>5. ASSUME t = "scan" PROVE Before(s, t) \cap Page \subseteq th[t].skipped
  <2>1. Before(s, t) \cap Page \subseteq th[t].skipped \cup {m} /\ (m \in Before(s, t) => Before(s, t) \ {m} \subseteq Before(s, m))
    BY <1>5 DEF IInv, ThreadsInv, FifoOK, QueueOf
  <2>2. ASSUME m \in Before(s, t) PROVE FALSE
    <3>1. m \in Range(s)  BY <1>1, <1>2, <2>2, BeforeIn
    <3>2. v # m  BY <3>1
    <3>3. CASE v = NoPage
      <4>1. PICK i \in 1 .. Len(s) : s[i] = t  BY <1>1, <1>2, InRange
      <4>2. Place(s, t) = i  BY <1>1, <4>1, PlaceOf
      <4>3. s # <<>>  BY <1>1, <4>1
      <4>4. Head(s) = t
        <5>1. ASSUME Head(s) # t PROVE FALSE
          <6>1. v = s[i - 1]  BY <4>2, <5>1 DEF TAILQ_PREV
          <6>2. Head(s) = s[1] /\ i # 1  BY <1>1, <4>1, <4>3, <5>1
          <6>3. i - 1 \in 1 .. Len(s)  BY <1>1, <6>2
          <6>4. s[i - 1] \in Entry  BY <1>1, <6>3
          <6>5. QED  BY <3>3, <6>1, <6>4, Markers
        <5>2. QED  BY <5>1
      <4>5. Before(s, t) = {}  BY <1>1, <4>3, <4>4, Firsts
      <4>6. QED  BY <2>2, <4>5
    <3>4. CASE v # NoPage
      <4>1. v \in Range(s) /\ Before(s, t) = Before(s, v) \cup {v}  BY <1>1, <1>2, <3>4, Prevs
      <4> HIDE DEF v, m, s
      <4>2. v \in Before(s, m) /\ m \in Before(s, v)  BY <2>1, <2>2, <3>2, <4>1
      <4>3. QED  BY <1>1, <3>1, <4>2, BeforeIn
    <3>5. QED  BY <3>3, <3>4
  <2>3. QED  BY <2>1, <2>2
<1>6. QED  BY <1>3, <1>4, <1>5, BehindKeeps

\* The thread takes its page; the scan takes it off its queue too.
LEMMA TakeKeeps ==
    ASSUME IInv, Quiet, NEW t \in Thread, NEW q, Ready(t, q), Take(t, q), ~ObjectLocked,
           page[th[t].m].pin # "held", page[th[t].m].busy = "no"
    PROVE  IInv'
<1> DEFINE p == th[t].m
           Q == QueueOf(t)
           r == InsertAfter(q, p, t)
           M == [page |-> page, pq |-> [pq EXCEPT ![Q] = r]]
           D == IF t = "scan" THEN vm_page_dequeue(M, p) ELSE M
           s == IF t = "scan" THEN Off(page[p]) ELSE page[p]
           k == [th[t] EXCEPT !.pc = "work", !.left = @ - 1]
<1>1. /\ ThreadOK(t, th[t], memory) /\ th[t] \in ThreadState /\ DOMAIN th = Thread /\ Q \in Queue
      /\ Good(memory) /\ memory.page = page /\ memory.pq = pq /\ page \in [Page -> PageState]
  BY ThreadHas
<1>2. p \in Page /\ t \in Entry /\ t \notin Range(q) /\ t # p  BY Markers DEF Ready
<1>3. /\ r \in Seq(Entry) /\ Distinct(r) /\ Range(r) = Range(q) \cup {t} /\ Before(r, t) = Before(q, p) \cup {p}
  BY <1>2, Inserted DEF Ready
<1> HIDE DEF r
<1>4. Range(r) \ {t} = Range(pq[Q]) \ {t}  BY <1>3 DEF Ready
<1>5. /\ Good(M) /\ M.page = page /\ M.pq[Q] = r
      /\ \A x \in Queue : x # Q => M.pq[x] = pq[x] /\ t \notin Range(M.pq[x])
      /\ \A x \in Thread \ {t} : ThreadOK(x, th[x], M)
  BY <1>3, <1>4, MarkMakes
<1>6. Becomes(D) /\ th' = [th EXCEPT ![t] = k]
  <2>1. Becomes(D)  BY Zenon DEF Take, r
  <2>2. th' = [th EXCEPT ![t].pc = "work", ![t].left = @ - 1]  BY Zenon DEF Take
  <2> HIDE DEF D
  <2>3. QED  BY <1>1, <2>1, <2>2
<1> HIDE DEF M
<1>7. Makes(M, D, p, s)
  <2>1. CASE t = "scan"  BY <1>2, <1>5, <2>1, DequeueMakes
  <2>2. CASE t # "scan"  BY <1>2, <1>5, <2>2, SameMakes
  <2>3. QED  BY <2>1, <2>2
<1>8. /\ page[p] \in PageState /\ page[p].queue = Q /\ page[p].resident /\ page[p].pin = "no" /\ page[p].busy = "no"
      /\ PageOK(page[p], object)
  <2>1. page[p] \in PageState /\ PageOK(page[p], object)  BY <1>1, <1>2 DEF IInv, PagesInv
  <2>2. p \in Range(pq[Q])  BY DEF Ready
  <2>3. page[p].queue = Q  BY <1>1, <1>2, <2>2, GoodHas
  <2>4. Q \in Queue /\ Q # "NONE"  BY <1>1 DEF Queue
  <2> HIDE DEF p, Q
  <2>5. page[p].pin # "held" /\ page[p].busy = "no"  BY DEF p
  <2>6. QED  BY <2>1, <2>3, <2>4, <2>5 DEF PageState, PageOK
<1>9. \A x \in Queue : x # Q => D.pq[x] = M.pq[x]
  <2>1. CASE t = "scan"
    <3>1. M.page[p].queue = Q /\ Q \in Queue  BY <1>1, <1>5, <1>8
    <3>2. D = [page |-> [M.page EXCEPT ![p].queue = "NONE"], pq |-> [M.pq EXCEPT ![Q] = TAILQ_REMOVE(@, p)]]
      BY <2>1, <3>1 DEF vm_page_dequeue
    <3>3. M.pq \in [Queue -> Seq(Entry)]  BY <1>5 DEF Good
    <3> HIDE DEF D
    <3>4. QED  BY <3>2, <3>3
  <2>2. CASE t # "scan"  BY <2>2
  <2>3. QED  BY <2>1, <2>2
<1>10. /\ s \in PageState /\ PageOK(s, object) /\ s.resident /\ s.busy = "no" /\ s.pin = "no"
       /\ s.queue = IF t = "scan" THEN "NONE" ELSE "LAUNDRY"
  <2>1. CASE t = "scan"
    <3>1. page[p].queue \in Queue  BY <1>1, <1>8
    <3> DEFINE u == page[p]
    <3>2. s = [u EXCEPT !.queue = "NONE"] /\ u \in PageState  BY <1>8, <2>1, <3>1 DEF Off
    <3> HIDE DEF s
    <3>3. /\ s \in PageState /\ s.queue = "NONE" /\ s.resident = u.resident /\ s.busy = u.busy /\ s.pin = u.pin
          /\ s.content = u.content /\ s.map = u.map /\ s.unsaved = u.unsaved
      BY <3>2 DEF PageState
    <3>4. PageOK(s, object)  BY <1>8, <3>3 DEF PageOK, Queue
    <3>5. QED  BY <1>8, <2>1, <3>3, <3>4
  <2>2. CASE t # "scan"  BY <1>8, <2>2 DEF QueueOf
  <2>3. QED  BY <2>1, <2>2
<1> HIDE DEF D, s
<1>11. Good(D) /\ D.page = [page EXCEPT ![p] = s] /\ memory' = D /\ page' = D.page /\ pq' = D.pq
  BY <1>5, <1>6, <1>7, BecomesIs DEF Makes
<1>12. page'[p] = s /\ \A x \in Page : x # p => page'[x] = page[x]  BY <1>1, <1>2, <1>11
<1>13. /\ k.pc = "work" /\ k.m = p /\ k.want = th[t].want /\ k.skipped = th[t].skipped /\ k \in ThreadState
       /\ k.want > 0
  <2>1. th[t].left > 0 /\ th[t].want > 0  BY <1>1 DEF ThreadOK, Ready
  <2>2. th[t].left - 1 \in 0 .. Cardinality(Page)  BY <1>1, <2>1, Bounds DEF ThreadState
  <2>3. QED  BY <1>1, <2>1, <2>2 DEF ThreadState, Label
<1> HIDE DEF k
<1>14. th'[t] = k /\ \A x \in Thread \ {t} : th'[x] = th[x]  BY <1>1, <1>6
<1>15. ThreadOK(t, k, memory')
  <2>1. ASSUME NEW x \in Queue PROVE t \in Range(D.pq[x]) <=> x = Q
    <3>1. t \in Range(D.pq[x]) <=> t \in Range(M.pq[x])  BY <1>2, <1>7 DEF Makes, Moves
    <3>2. QED  BY <1>3, <1>5, <3>1
  <2>2. D.page[p] = s  BY <1>11, <1>12
  <2>3. "work" \in Away  BY DEF Away
  <2> HIDE DEF p, Q
  <2>4. p \in Page /\ Q = QueueOf(t)  BY <1>2 DEF p, Q
  <2>5. QED  BY <1>10, <1>11, <1>13, <2>1, <2>2, <2>3, <2>4 DEF ThreadOK
<1>16. ASSUME NEW x \in Thread \ {t} PROVE ThreadOK(x, th[x], memory')
  <2>1. th[x].pc \notin {"work", "remove"}  BY DEF ObjectLocked
  <2>2. QueueOf(x) \in Queue /\ QueueOf(x) # Q  BY Markers DEF Thread, QueueOf
  <2>3. D.pq[QueueOf(x)] = M.pq[QueueOf(x)]  BY <1>9, <2>2
  <2>4. ThreadOK(x, th[x], D)  BY <1>2, <1>5, <1>7, <2>1, <2>3, ThreadKeeps
  <2>5. QED  BY <1>11, <2>4
<1>17. FifoOK(th'["scan"], pq'["INACTIVE"])
  <2>1. CASE t = "scan"
    <3>1. Q = "INACTIVE"  BY <2>1 DEF QueueOf
    <3>2. Moves(r, D.pq[Q], {p}) /\ D.pq[Q] \in Seq(Entry) /\ Distinct(D.pq[Q])  BY <1>1, <1>5, <1>7 DEF Makes, Moves
    <3>3. t \in Range(r)  BY <1>3
    <3>4. t \in Range(D.pq[Q]) /\ Before(D.pq[Q], t) \subseteq Before(q, p) \cup {p}
      BY <1>2, <1>3, <3>2, <3>3 DEF Moves
    <3>5. p \notin Range(D.pq[Q])
      <4>1. D.page[p].queue = "NONE" /\ Q # "NONE"  BY <1>1, <1>10, <1>11, <1>12, <2>1 DEF Queue
      <4>2. QED  BY <1>1, <1>2, <1>11, <4>1, GoodHas
    <3>6. Before(D.pq[Q], t) \subseteq Range(D.pq[Q])  BY <3>2, <3>4, BeforeIn
    <3>7. Before(q, p) \cap Page \subseteq th[t].skipped  BY <2>1 DEF Ready
    <3>8. Before(D.pq[Q], t) \cap Page \subseteq k.skipped  BY <1>13, <3>4, <3>5, <3>6, <3>7
    <3>9. th'["scan"] = k /\ pq'["INACTIVE"] = D.pq[Q]  BY <1>11, <1>14, <2>1, <3>1
    <3>10. QED  BY <1>13, <2>1, <3>8, <3>9 DEF FifoOK
  <2>2. CASE t # "scan"
    <3>1. "INACTIVE" \in Queue /\ Q # "INACTIVE" /\ "scan" \in Thread  BY <2>2 DEF Queue, QueueOf, Thread
    <3>2. pq'["INACTIVE"] = pq["INACTIVE"] /\ th'["scan"] = th["scan"]  BY <1>5, <1>9, <1>11, <1>14, <2>2, <3>1
    <3>3. QED  BY <3>2 DEF IInv, ThreadsInv
  <2>3. QED  BY <2>1, <2>2
<1>18. PagesInv'
  <2>1. ASSUME NEW x \in Page PROVE PageOK(page'[x], object') /\ Homed(page'[x], object', InHand(th'["scan"], x))
    <3>1. PageOK(page[x], object) /\ Homed(page[x], object, InHand(th["scan"], x)) /\ object' = object
      BY DEF IInv, PagesInv, Quiet
    <3>2. "scan" \in Thread  BY DEF Thread
    <3>3. ~InHand(th["scan"], x)  BY <3>2 DEF InHand, ObjectLocked
    <3>4. CASE x # p  BY <1>12, <3>1, <3>3, <3>4 DEF Homed
    <3>5. CASE x = p /\ t = "scan"
      <4>1. InHand(th'["scan"], p)  BY <1>13, <1>14, <3>5 DEF InHand
      <4>2. QED  BY <1>10, <1>12, <3>1, <3>5, <4>1 DEF Homed
    <3>6. CASE x = p /\ t # "scan"
      <4>1. s.queue # "NONE"  BY <1>10, <3>6
      <4>2. QED  BY <1>10, <1>12, <3>1, <3>6, <4>1 DEF Homed
    <3>7. QED  BY <3>4, <3>5, <3>6
  <2>2. QED  BY <1>11, <2>1 DEF PagesInv
<1>19. ClusterOK(cluster', page', th')
  <2>1. ClusterOK(cluster, page, th) /\ cluster' = cluster  BY DEF IInv, RestInv, Quiet
  <2>2. "laundry" \in Thread /\ th[t].pc # "put"  BY DEF Thread, Ready
  <2>3. cluster # {} => th'["laundry"] = th["laundry"]  BY <1>14, <2>1, <2>2 DEF ClusterOK
  <2>4. ASSUME NEW x \in cluster PROVE page'[x].busy = "s"
    <3>1. x \in Page /\ page[x].busy = "s"  BY <2>1 DEF ClusterOK
    <3>2. x # p  BY <1>8, <3>1
    <3>3. QED  BY <1>12, <3>1, <3>2
  <2>5. QED  BY <2>1, <2>3, <2>4 DEF ClusterOK
<1>20. k.pc # "vget"  BY <1>13
<1>21. QED  BY <1>6, <1>15, <1>16, <1>17, <1>18, <1>19, <1>20, ThreadStepKeeps DEF Quiet

\* With the page, its object and the queue q locked.
LEMMA SkipOrTakeKeeps ==
    ASSUME IInv, Quiet, NEW t \in Thread, NEW q, Ready(t, q), ~ObjectLocked, SkipOrTake(t, q) PROVE IInv'
<1>1. CASE page[th[t].m].pin = "held" \/ page[th[t].m].busy # "no"  BY <1>1, SkipKeeps DEF SkipOrTake
<1>2. CASE ~(page[th[t].m].pin = "held" \/ page[th[t].m].busy # "no")  BY <1>2, TakeKeeps DEF SkipOrTake
<1>3. QED  BY <1>1, <1>2

\* With the page and the queue q locked.
LEMMA TryObjectKeeps ==
    ASSUME IInv, Quiet, NEW t \in Thread, NEW q, Ready(t, q), TryObject(t, q) PROVE IInv'
<1>1. CASE Skip(t, q)  BY <1>1, SkipKeeps
<1>2. CASE ~ObjectLocked /\ SkipOrTake(t, q)  BY <1>2, SkipOrTakeKeeps
<1>3. CASE Wait(t, q, "wait_object")  BY <1>3, WaitKeeps
<1>4. QED  BY <1>1, <1>2, <1>3 DEF TryObject

\* A thread at a page is ready, with the queue as it is.
LEMMA AtPage == ASSUME IInv, NEW t \in Thread, th[t].pc = "page", th[t].m \in Page PROVE Ready(t, pq[QueueOf(t)])
<1>1. /\ ThreadOK(t, th[t], memory) /\ memory.pq = pq /\ QueueOf(t) \in Queue
      /\ pq[QueueOf(t)] \in Seq(Entry) /\ Distinct(pq[QueueOf(t)])
  BY ThreadHas
<1>2. t \notin Range(pq[QueueOf(t)]) /\ th[t].m \in Range(pq[QueueOf(t)])  BY <1>1 DEF ThreadOK, Away
<1>3. t = "scan" => Before(pq[QueueOf(t)], th[t].m) \cap Page \subseteq th[t].skipped
  BY DEF IInv, ThreadsInv, FifoOK, QueueOf
<1>4. QED  BY <1>1, <1>2, <1>3 DEF Ready

\* A thread whose page is still in front of its marker is ready, with the marker removed.
LEMMA AtMarker ==
    ASSUME IInv, NEW t \in Thread, th[t].pc \in {"wait_page", "wait_object"}, TAILQ_PREV(pq[QueueOf(t)], t) = th[t].m
    PROVE  /\ Ready(t, TAILQ_REMOVE(pq[QueueOf(t)], t)) /\ page[th[t].m].queue = QueueOf(t)
           /\ t = "scan" => Before(pq[QueueOf(t)], th[t].m) \cap Page \subseteq th[t].skipped
<1> DEFINE s == pq[QueueOf(t)]
           m == th[t].m
           q == TAILQ_REMOVE(s, t)
<1>1. /\ ThreadOK(t, th[t], memory) /\ memory.pq = pq /\ memory.page = page /\ Good(memory) /\ QueueOf(t) \in Queue
      /\ s \in Seq(Entry) /\ Distinct(s)
  BY ThreadHas
<1>2. t \in Range(s) /\ m \in Page  BY <1>1 DEF ThreadOK, Away
<1>3. TAILQ_PREV(s, t) = m /\ m # NoPage  BY <1>2, PageAssumption
<1>4. t = "scan" => Before(s, t) \cap Page \subseteq th[t].skipped \cup {m}  BY DEF IInv, ThreadsInv, FifoOK, QueueOf
<1>5. m \in Range(s) => page[m].queue = QueueOf(t)  BY <1>1, <1>2, GoodHas
<1> HIDE DEF s, m
<1>6. m \in Range(s) \ {t} /\ Before(s, t) = Before(s, m) \cup {m} /\ m \notin Before(s, m)
  BY <1>1, <1>2, <1>3, Prevs
<1>7. q \in Seq(Entry) /\ Distinct(q) /\ Range(q) = Range(s) \ {t} /\ Before(q, m) = Before(s, m) \ {t}
  BY <1>1, <1>2, <1>6, Removed DEF Moves
<1>8. t = "scan" => Before(s, m) \cap Page \subseteq th[t].skipped  BY <1>4, <1>6
<1>9. t = "scan" => Before(q, m) \cap Page \subseteq th[t].skipped  BY <1>7, <1>8
<1> HIDE DEF q
<1>10. /\ Range(q) = Range(pq[QueueOf(t)]) \ {t} /\ th[t].m \in Range(q) /\ th[t].m \in Page
       /\ (t = "scan" => Before(q, th[t].m) \cap Page \subseteq th[t].skipped)
       /\ page[th[t].m].queue = QueueOf(t)
       /\ (t = "scan" => Before(pq[QueueOf(t)], th[t].m) \cap Page \subseteq th[t].skipped)
  BY <1>2, <1>5, <1>6, <1>7, <1>8, <1>9 DEF s, m
<1>11. Ready(t, q)  BY <1>7, <1>10 DEF Ready
<1>12. QED  BY <1>10, <1>11 DEF q, s

\* vm_pageout_page_lock.
LEMMA TryPageKeeps == ASSUME IInv, stopped = "no", use' = use, NEW t \in Thread, TryPage(t) PROVE IInv'
<1>1. Quiet /\ th[t].pc = "page" /\ th[t].m \in Page  BY DEF TryPage, Quiet
<1>2. Ready(t, pq[QueueOf(t)])  BY <1>1, AtPage
<1>3. TryObject(t, pq[QueueOf(t)]) \/ Wait(t, pq[QueueOf(t)], "wait_page")  BY DEF TryPage
<1>4. QED  BY <1>1, <1>2, <1>3, TryObjectKeeps, WaitKeeps

\* The page and the queue are locked again.
LEMMA WaitPageKeeps == ASSUME IInv, stopped = "no", use' = use, NEW t \in Thread, WaitPage(t) PROVE IInv'
<1> DEFINE marked == pq[QueueOf(t)]
           unchanged == TAILQ_PREV(marked, t) = th[t].m
<1>1. th[t].pc = "wait_page" /\ object' = object /\ cluster' = cluster  BY DEF WaitPage
<1>2. IF unchanged THEN TryObject(t, TAILQ_REMOVE(marked, t)) ELSE Moved(t, marked)  BY Zenon DEF WaitPage
<1>3. KASSERT(unchanged => page[th[t].m].queue = QueueOf(t))  BY Zenon DEF WaitPage
<1>4. unchanged => Ready(t, TAILQ_REMOVE(marked, t)) /\ page[th[t].m].queue = QueueOf(t)  BY <1>1, AtMarker
<1> HIDE DEF unchanged
<1>5. Quiet  BY <1>1, <1>3, <1>4 DEF KASSERT, Quiet
<1>6. CASE unchanged  BY <1>2, <1>4, <1>5, <1>6, TryObjectKeeps
<1>7. CASE ~unchanged
  <2>1. Moved(t, marked) /\ TAILQ_PREV(marked, t) # th[t].m  BY <1>2, <1>7 DEF unchanged
  <2>2. QED  BY <1>1, <1>5, <2>1, MovedKeeps
<1>8. QED  BY <1>6, <1>7

\* vm_pageout_fallback_object_lock.
LEMMA WaitObjectKeeps == ASSUME IInv, stopped = "no", use' = use, NEW t \in Thread, WaitObject(t) PROVE IInv'
<1> DEFINE marked == pq[QueueOf(t)]
           unchanged == page[th[t].m].resident /\ TAILQ_PREV(marked, t) = th[t].m
<1>1. th[t].pc = "wait_object" /\ ~ObjectLocked /\ object' = object /\ cluster' = cluster  BY DEF WaitObject
<1>2. IF unchanged THEN SkipOrTake(t, TAILQ_REMOVE(marked, t)) ELSE Moved(t, marked)  BY Zenon DEF WaitObject
<1>3. KASSERT(unchanged => page[th[t].m].queue = QueueOf(t))  BY Zenon DEF WaitObject
<1>4. unchanged => Ready(t, TAILQ_REMOVE(marked, t)) /\ page[th[t].m].queue = QueueOf(t)  BY <1>1, AtMarker
<1>5. ~unchanged => th[t].m \notin Range(marked) \/ TAILQ_PREV(marked, t) # th[t].m
  <2>1. /\ ThreadOK(t, th[t], memory) /\ memory.pq = pq /\ memory.page = page /\ Good(memory)
        /\ QueueOf(t) \in Queue
    BY ThreadHas
  <2>2. th[t].m \in Page  BY <1>1, <2>1 DEF ThreadOK
  <2>3. PageOK(page[th[t].m], object)  BY <2>2 DEF IInv, PagesInv
  <2>4. ASSUME ~page[th[t].m].resident PROVE th[t].m \notin Range(marked)
    <3>1. page[th[t].m].queue = "NONE" /\ QueueOf(t) # "NONE"  BY <2>1, <2>3, <2>4 DEF PageOK, Queue
    <3>2. QED  BY <2>1, <2>2, <3>1, GoodHas
  <2>5. QED  BY <2>4
<1> HIDE DEF unchanged
<1>6. Quiet  BY <1>1, <1>3, <1>4 DEF KASSERT, Quiet
<1>7. CASE unchanged  BY <1>1, <1>2, <1>4, <1>6, <1>7, SkipOrTakeKeeps
<1>8. CASE ~unchanged
  <2>1. Moved(t, marked) /\ (th[t].m \notin Range(marked) \/ TAILQ_PREV(marked, t) # th[t].m)  BY <1>2, <1>5, <1>8
  <2>2. QED  BY <1>1, <1>6, <2>1, MovedKeeps
<1>9. QED  BY <1>7, <1>8

-----------------------------------------------------------------------------
(* What becomes of the page that a thread has taken.                       *)

\* What is known of that page.
LEMMA HandHas ==
    ASSUME IInv, NEW t \in Thread, th[t].pc \in {"work", "remove"}
    PROVE  /\ th[t].m \in Page /\ page[th[t].m] \in PageState /\ PageOK(page[th[t].m], object)
           /\ page[th[t].m].resident /\ page[th[t].m].busy = "no" /\ page[th[t].m].pin = "no"
           /\ page[th[t].m].queue = (IF t = "scan" THEN "NONE" ELSE "LAUNDRY")
           /\ th[t].pc = "remove" => page[th[t].m].content # "invalid"
           /\ Good(memory) /\ memory.page = page /\ memory.pq = pq
<1>1. ThreadOK(t, th[t], memory) /\ Good(memory) /\ memory.page = page /\ memory.pq = pq  BY ThreadHas
<1>2. th[t].m \in Page  BY <1>1 DEF ThreadOK
<1>3. page[th[t].m] \in PageState /\ PageOK(page[th[t].m], object)  BY <1>2, PageHas
<1>4. QED  BY <1>1, <1>2, <1>3 DEF ThreadOK

\* A step that makes s of the page: the thread is done with it, or looks at it once more.
LEMMA HandStepKeeps ==
    ASSUME IInv, Quiet, NEW t \in Thread, th[t].pc \in {"work", "remove"}, NEW s, NEW r, Makes(memory, r, th[t].m, s),
           Becomes(r), QueuesFree \/ r.pq = pq, PageOK(s, object), NEW k \in ThreadState, th' = [th EXCEPT ![t] = k],
           k.skipped = th[t].skipped,
           \/ k.pc = "relock" /\ Homed(s, object, FALSE)
           \/ k.pc = "remove" /\ k.m = th[t].m /\ k.want > 0 /\ Alike(s, page[th[t].m]) /\ s.content # "invalid"
           \/ k.pc = "vget" /\ k.m = th[t].m /\ t = "laundry" /\ object # "dead" /\ Alike(s, page[th[t].m])
    PROVE  IInv'
<1> DEFINE p == th[t].m
<1>1. /\ p \in Page /\ page[p].resident /\ page[p].busy = "no" /\ page[p].pin = "no"
      /\ page[p].queue = (IF t = "scan" THEN "NONE" ELSE "LAUNDRY")
      /\ Good(memory) /\ memory.page = page /\ memory.pq = pq
  BY HandHas
<1>2. /\ ThreadOK(t, th[t], memory) /\ DOMAIN th = Thread /\ page \in [Page -> PageState] /\ QueueOf(t) \in Queue
  BY ThreadHas
<1>3. th'[t] = k /\ \A x \in Thread \ {t} : th'[x] = th[x]  BY <1>2
<1>4. Good(r) /\ memory' = r /\ page' = r.page /\ pq' = r.pq /\ r.page = [page EXCEPT ![p] = s]
  BY <1>1, BecomesIs DEF Makes
<1>5. page'[p] = s /\ \A x \in Page : x # p => page'[x] = page[x]  BY <1>1, <1>2, <1>4
<1>6. "scan" \in Thread /\ "laundry" \in Thread /\ t # p  BY <1>1, Markers DEF Thread
<1>7. k.pc \in {"remove", "vget"} =>
         s.resident /\ s.busy = "no" /\ s.pin = "no" /\ s.queue = (IF t = "scan" THEN "NONE" ELSE "LAUNDRY")
  BY <1>1 DEF Alike
<1>8. ThreadOK(t, k, memory')
  <2>1. \A q \in Queue : t \in Range(r.pq[q]) <=> q = QueueOf(t)
    <3>1. \A q \in Queue : t \in Range(r.pq[q]) <=> t \in Range(pq[q])  BY <1>1, <1>6 DEF Makes, Moves
    <3>2. QED  BY <1>1, <1>2, <3>1 DEF ThreadOK, Away
  <2>2. k.pc \in Away /\ k.pc \in {"relock", "remove", "vget"}  BY DEF Away
  <2>3. r.page[p] = s  BY <1>4, <1>5
  <2>4. CASE k.pc = "relock"  BY <1>4, <2>1, <2>2, <2>4 DEF ThreadOK
  <2>5. CASE k.pc = "remove"
    <3>1. k.m = p  BY <2>5
    <3> HIDE DEF p
    <3>2. k.want > 0 /\ s.content # "invalid"  BY <2>5
    <3>3. QED  BY <1>1, <1>4, <1>7, <2>1, <2>2, <2>3, <2>5, <3>1, <3>2 DEF ThreadOK
  <2>6. CASE k.pc = "vget"
    <3>1. k.m \in Page /\ t = "laundry"  BY <1>1, <2>6
    <3>2. QED  BY <1>4, <2>1, <2>2, <2>6, <3>1 DEF ThreadOK
  <2>7. QED  BY <2>2, <2>4, <2>5, <2>6
<1>9. ASSUME NEW x \in Thread \ {t} PROVE ThreadOK(x, th[x], memory')
  <2>1. \A y \in Thread : y = t \/ y = x  BY <1>9 DEF Thread
  <2>2. th[x].pc \notin {"work", "remove"}  BY <2>1 DEF IInv, ThreadsInv, Alone
  <2>3. ThreadOK(x, th[x], memory) /\ QueueOf(x) \in Queue  BY ThreadHas
  <2>4. th[x].pc = "page" => r.pq[QueueOf(x)] = memory.pq[QueueOf(x)]  BY <1>1, <2>3 DEF QueuesFree, QueueLocked
  <2>5. ThreadOK(x, th[x], r)  BY <1>1, <2>2, <2>3, <2>4, ThreadKeeps
  <2>6. QED  BY <1>4, <2>5
<1>10. FifoOK(th'["scan"], pq'["INACTIVE"])
  <2>1. ThreadOK("scan", th["scan"], memory) /\ FifoOK(th["scan"], memory.pq["INACTIVE"])
    BY <1>1, <1>6, ThreadHas DEF IInv, ThreadsInv
  <2>2. th["scan"].pc = "page" => r.pq["INACTIVE"] = memory.pq["INACTIVE"]
    <3>1. QueueOf("scan") = "INACTIVE" /\ "INACTIVE" \in Queue  BY DEF QueueOf, Queue
    <3>2. QED  BY <1>1, <1>6, <3>1 DEF QueuesFree, QueueLocked
  <2>3. FifoOK(th["scan"], r.pq["INACTIVE"])  BY <1>1, <2>1, <2>2, FifoKeeps
  <2>4. CASE t = "scan"
    <3>1. Before(r.pq["INACTIVE"], "scan") \cap Page \subseteq k.skipped /\ k.pc \in {"relock", "remove"}
      BY <2>3, <2>4 DEF FifoOK
    <3>2. QED  BY <1>3, <1>4, <2>4, <3>1 DEF FifoOK
  <2>5. CASE t # "scan"  BY <1>3, <1>4, <1>6, <2>3, <2>5
  <2>6. QED  BY <2>4, <2>5
<1>11. PagesInv'
  <2>1. ASSUME NEW x \in Page \ {p}, InHand(th["scan"], x) PROVE InHand(th'["scan"], x)
    <3>1. t # "scan"  BY <2>1 DEF InHand
    <3>2. QED  BY <1>3, <1>6, <2>1, <3>1
  <2>2. Homed(s, object, InHand(th'["scan"], p))
    <3>1. CASE k.pc = "relock"  BY <3>1 DEF Homed
    <3>2. CASE k.pc = "remove" /\ t = "scan"
      <4>1. InHand(th'["scan"], p)  BY <1>3, <3>2 DEF InHand
      <4>2. QED  BY <4>1 DEF Homed
    <3>3. CASE k.pc \in {"remove", "vget"} /\ t # "scan"
      <4>1. s.queue # "NONE"  BY <1>7, <3>3
      <4>2. QED  BY <4>1 DEF Homed
    <3>4. QED  BY <3>1, <3>2, <3>3
  <2>3. object' = object /\ PagesInv  BY DEF Quiet, IInv
  <2>4. QED  BY <1>1, <2>1, <2>2, <2>3, PagesKeep
<1>12. ClusterOK(cluster', page', th')
  <2>1. ClusterOK(cluster, page, th) /\ cluster' = cluster  BY DEF IInv, RestInv, Quiet
  <2>2. cluster # {} => th'["laundry"] = th["laundry"]  BY <1>3, <1>6, <2>1 DEF ClusterOK
  <2>3. ASSUME NEW x \in cluster PROVE page'[x].busy = "s"
    <3>1. x \in Page /\ page[x].busy = "s"  BY <2>1 DEF ClusterOK
    <3>2. x # p  BY <1>1, <3>1
    <3>3. QED  BY <1>5, <3>1, <3>2
  <2>4. QED  BY <2>1, <2>2, <2>3 DEF ClusterOK
<1>13. QED  BY <1>8, <1>9, <1>10, <1>11, <1>12, ThreadStepKeeps DEF Quiet

\* Done and Counted.
LEMMA DoneIs ==
    ASSUME IInv, NEW t \in Thread, th[t].pc \in {"work", "remove"}, Done(t) \/ Counted(t)
    PROVE  \E k \in ThreadState : th' = [th EXCEPT ![t] = k] /\ k.pc = "relock" /\ k.skipped = th[t].skipped
<1>1. ThreadOK(t, th[t], memory) /\ th[t] \in ThreadState /\ DOMAIN th = Thread  BY ThreadHas
<1>2. th[t].want > 0  BY <1>1 DEF ThreadOK
<1>3. th[t].want \in 0 .. Target /\ Target \in Nat  BY <1>1, Bounds DEF ThreadState
<1> DEFINE d == [th[t] EXCEPT !.pc = "relock", !.m = NoPage]
           c == [th[t] EXCEPT !.pc = "relock", !.m = NoPage, !.want = @ - 1]
<1>4. d \in ThreadState /\ d.pc = "relock" /\ d.skipped = th[t].skipped  BY <1>1 DEF ThreadState, Label
<1>5. c \in ThreadState /\ c.pc = "relock" /\ c.skipped = th[t].skipped
  <2>1. th[t].want - 1 \in 0 .. Target  BY <1>2, <1>3
  <2>2. QED  BY <1>1, <2>1 DEF ThreadState, Label
<1>6. th' = [th EXCEPT ![t] = d] \/ th' = [th EXCEPT ![t] = c]
  <2>1. CASE Done(t)  BY <1>1, <2>1 DEF Done
  <2>2. CASE Counted(t)
    <3>1. th' = [th EXCEPT ![t].pc = "relock", ![t].m = NoPage, ![t].want = @ - 1]  BY <2>2, Zenon DEF Counted
    <3>2. QED  BY <1>1, <3>1
  <2>3. QED  BY <2>1, <2>2
<1> HIDE DEF c, d
<1>7. QED  BY <1>4, <1>5, <1>6

\* A step in which the thread is done with its page, which is now s.
LEMMA DoneKeeps ==
    ASSUME IInv, Quiet, NEW t \in Thread, th[t].pc \in {"work", "remove"}, NEW s, NEW r, Makes(memory, r, th[t].m, s),
           Becomes(r), QueuesFree, PageOK(s, object), Homed(s, object, FALSE), Done(t) \/ Counted(t)
    PROVE  IInv'
<1>1. PICK k \in ThreadState : th' = [th EXCEPT ![t] = k] /\ k.pc = "relock" /\ k.skipped = th[t].skipped  BY DoneIs
<1>2. QED  BY <1>1, HandStepKeeps

\* An invalid page is freed, and a valid one is looked at.
LEMMA WorkKeeps == ASSUME IInv, stopped = "no", use' = use, NEW t \in Thread, Work(t) PROVE IInv'
<1> DEFINE p == th[t].m
           u == page[p]
<1>1. th[t].pc = "work" /\ object' = object /\ cluster' = cluster  BY DEF Work
<1>2. /\ p \in Page /\ u \in PageState /\ PageOK(u, object) /\ u.resident /\ u.busy = "no" /\ u.pin = "no"
      /\ Good(memory) /\ memory.page = page /\ memory.pq = pq
  BY <1>1, HandHas
<1>3. CASE u.content = "invalid"
  <2>1. FreeIt(t)  BY <1>3 DEF Work
  <2>2. QueuesFree /\ Becomes(vm_page_free(memory, p)) /\ KASSERT(FreeAsserts(u)) /\ (Done(t) \/ Counted(t))
    BY <2>1 DEF FreeIt
  <2> HIDE DEF u
  <2>3. FreeAsserts(u) /\ u.unsaved # "yes"  BY <1>2, <1>3 DEF FreeAsserts, PageOK
  <2>4. Quiet  BY <1>1, <2>2, <2>3 DEF KASSERT, Quiet
  <2>5. Makes(memory, vm_page_free(memory, p), p, Freed(u))  BY <1>2, FreeMakes DEF u
  <2>6. PageOK(Freed(u), object) /\ Homed(Freed(u), object, FALSE)  BY <1>2, <2>3, FreedOK
  <2>7. QED  BY <1>1, <2>2, <2>4, <2>5, <2>6, DoneKeeps
<1>4. CASE u.content # "invalid"
  <2> DEFINE s == IF object = "mapped" THEN vm_page_test_dirty(u) ELSE u
             r == [memory EXCEPT !.page[p] = s]
             k == [th[t] EXCEPT !.pc = "remove"]
  <2>1. page' = [page EXCEPT ![p] = s] /\ pq' = pq /\ stopped' = stopped /\ Go(t, "remove")  BY <1>2, <1>4 DEF Work
  <2>2. s \in PageState /\ PageOK(s, object) /\ Alike(s, u) /\ s.content # "invalid"
    <3> HIDE DEF u
    <3>1. QED  BY <1>2, <1>4 DEF vm_page_test_dirty, PageState, PageOK, Alike
  <2>3. th[t] \in ThreadState /\ ThreadOK(t, th[t], memory) /\ DOMAIN th = Thread  BY ThreadHas
  <2>4. /\ k \in ThreadState /\ k.pc = "remove" /\ k.m = p /\ k.want = th[t].want /\ k.skipped = th[t].skipped
        /\ th' = [th EXCEPT ![t] = k]
    BY <2>1, <2>3 DEF ThreadState, Label, Go
  <2>5. k.want > 0  BY <1>1, <2>3, <2>4 DEF ThreadOK
  <2> HIDE DEF s, k
  <2>6. Makes(memory, r, p, s)  BY <1>2, <2>2, EditMakes DEF Alike, SameQueue
  <2>7. Becomes(r) /\ r.pq = pq  BY <1>2, <2>1 DEF Becomes, memory
  <2> HIDE DEF r
  <2>8. Quiet  BY <1>1, <2>1 DEF Quiet
  <2>9. QED  BY <1>1, <2>2, <2>4, <2>5, <2>6, <2>7, <2>8, HandStepKeeps
<1>5. QED  BY <1>3, <1>4

\* The laundry thread finds its page referenced.
LEMMA ReferencedKeeps == ASSUME IInv, stopped = "no", use' = use, NEW t \in Thread, Referenced(t) PROVE IInv'
<1> DEFINE p == th[t].m
           u == page[p]
<1>1. th[t].pc = "work" /\ QueuesFree /\ Quiet /\ (Done(t) \/ Counted(t))  BY DEF Referenced, Quiet
<1>2. Becomes(vm_page_activate(memory, p)) \/ Becomes(Requeue(memory, "LAUNDRY", p))  BY DEF Referenced
<1>3. /\ p \in Page /\ u \in PageState /\ PageOK(u, object) /\ u.resident /\ u.busy # "x"
      /\ Good(memory) /\ memory.page = page
  BY <1>1, HandHas
<1>4. "INACTIVE" \in Queue /\ "LAUNDRY" \in Queue  BY DEF Queue
<1>5. Makes(memory, vm_page_activate(memory, p), p, Requeued(u, "INACTIVE"))  BY <1>3, ActivateMakes
<1>6. Makes(memory, Requeue(memory, "LAUNDRY", p), p, Requeued(u, "LAUNDRY"))  BY <1>3, <1>4, RequeueMakes
<1>7. \A q \in Queue : PageOK(Requeued(u, q), object) /\ Homed(Requeued(u, q), object, FALSE)  BY <1>3, RequeuedOK
<1> HIDE DEF u
<1>8. QED  BY <1>1, <1>2, <1>4, <1>5, <1>6, <1>7, DoneKeeps

\* A clean page that loses its mappings.
LEMMA UnmappedOK ==
    ASSUME NEW s \in PageState, PageOK(s, object)
    PROVE  /\ Unmapped(s) \in PageState /\ PageOK(Unmapped(s), object) /\ Alike(Unmapped(s), s)
           /\ Unmapped(s).content = "clean" => Unmapped(s).map = "none" /\ Unmapped(s).unsaved # "yes"
<1>1. CASE object = "mapped" /\ s.content = "clean"
  <2>1. Unmapped(s) = pmap_remove_all(s)  BY <1>1 DEF Unmapped
  <2>2. QED  BY <2>1, RemovesAll DEF PageOK
<1>2. CASE ~(object = "mapped" /\ s.content = "clean")
  <2>1. Unmapped(s) = s  BY <1>2 DEF Unmapped
  <2>2. QED  BY <1>2, <2>1 DEF PageOK, Alike
<1>3. QED  BY <1>1, <1>2

\* A page that is still clean when its mappings are gone is freed.
LEMMA RemoveFreeKeeps == ASSUME IInv, stopped = "no", use' = use, NEW t \in Thread, RemoveFree(t) PROVE IInv'
<1> DEFINE p == th[t].m
           u == page[p]
           s == Unmapped(u)
           M == [memory EXCEPT !.page[p] = s]
<1>1. /\ th[t].pc = "remove" /\ s.content = "clean" /\ QueuesFree /\ Becomes(vm_page_free(M, p))
      /\ KASSERT(FreeAsserts(s)) /\ object' = object /\ cluster' = cluster
  BY DEF RemoveFree
<1>2. Done(t) \/ Counted(t)  BY DEF RemoveFree
<1>3. p \in Page /\ u \in PageState /\ PageOK(u, object) /\ u.busy = "no" /\ u.pin = "no"  BY <1>1, HandHas
<1>4. s \in PageState /\ PageOK(s, object) /\ Alike(s, u) /\ s.map = "none" /\ s.unsaved # "yes"  BY <1>1, <1>3, UnmappedOK
<1> HIDE DEF s
<1>5. FreeAsserts(s) /\ s.queue = u.queue /\ s.pin # "wired"  BY <1>3, <1>4 DEF FreeAsserts, Alike
<1>6. Quiet  BY <1>1, <1>5 DEF KASSERT, Quiet
<1>7. Good(M) /\ M.page[p] = s /\ \A r, v : Makes(M, r, p, v) => Makes(memory, r, p, v)  BY <1>3, <1>4, <1>5, EditThen DEF SameQueue
<1> HIDE DEF M
<1>8. Makes(memory, vm_page_free(M, p), p, Freed(s))  BY <1>3, <1>7, FreeMakes
<1>9. PageOK(Freed(s), object) /\ Homed(Freed(s), object, FALSE)  BY <1>4, <1>5, FreedOK
<1>10. QED  BY <1>1, <1>2, <1>6, <1>8, <1>9, DoneKeeps

\* A dirty page goes to the laundry, or stays there.
LEMMA RemoveDirtyKeeps == ASSUME IInv, stopped = "no", use' = use, NEW t \in Thread, RemoveDirty(t) PROVE IInv'
<1> DEFINE p == th[t].m
           u == page[p]
           s == Unmapped(u)
           M == [memory EXCEPT !.page[p] = s]
<1>1. th[t].pc = "remove" /\ QueuesFree /\ Done(t) /\ Quiet  BY DEF RemoveDirty, Quiet
<1>2. /\ p \in Page /\ u \in PageState /\ PageOK(u, object) /\ u.busy = "no" /\ u.resident /\ memory.page = page
  BY <1>1, HandHas
<1>3. [memory EXCEPT !.page[p] = Unmapped(@)] = M  BY <1>2
<1>4. \/ Becomes(vm_page_launder(M, p))
      \/ object = "dead" /\ Becomes(M)
      \/ Becomes(Requeue(M, "LAUNDRY", p))
  BY <1>3, Zenon DEF RemoveDirty
<1>5. s \in PageState /\ PageOK(s, object) /\ Alike(s, u)  BY <1>2, UnmappedOK
<1> HIDE DEF s
<1>6. s.queue = u.queue /\ s.resident /\ s.busy # "x" /\ "LAUNDRY" \in Queue  BY <1>2, <1>5 DEF Alike, Queue
<1>7. Good(M) /\ M.page[p] = s /\ Makes(memory, M, p, s) /\ \A r, v : Makes(M, r, p, v) => Makes(memory, r, p, v)
  BY <1>2, <1>5, <1>6, EditThen DEF SameQueue
<1> HIDE DEF M
<1>8. /\ Makes(memory, vm_page_launder(M, p), p, Requeued(s, "LAUNDRY"))
      /\ Makes(memory, Requeue(M, "LAUNDRY", p), p, Requeued(s, "LAUNDRY"))
  BY <1>2, <1>6, <1>7, LaunderMakes, RequeueMakes
<1>9. PageOK(Requeued(s, "LAUNDRY"), object) /\ Homed(Requeued(s, "LAUNDRY"), object, FALSE)  BY <1>5, <1>6, RequeuedOK
<1>10. object = "dead" => Homed(s, object, FALSE)  BY DEF Homed
<1>11. QED  BY <1>1, <1>4, <1>5, <1>7, <1>8, <1>9, <1>10, DoneKeeps

\* The pages of a cluster are given to the pager.
LEMMA FlushKeeps ==
    ASSUME IInv, stopped = "no", use' = use, NEW t \in Thread, t = "laundry", th[t].pc \in {"remove", "vget"},
           object # "dead", th["scan"].pc \notin {"work", "remove"}, NEW C \in SUBSET Page,
           \A p \in C : /\ page[p].resident /\ page[p].busy = "no" /\ page[p].queue = "LAUNDRY" /\ page[p].pin # "held"
                        /\ page[p].content # "invalid",
           Flush(t, C), pq' = pq, object' = object
    PROVE  IInv'
<1> DEFINE k == [th[t] EXCEPT !.pc = "put", !.m = NoPage]
<1>1. /\ ThreadOK(t, th[t], memory) /\ th[t] \in ThreadState /\ DOMAIN th = Thread /\ Good(memory)
      /\ memory.page = page /\ memory.pq = pq /\ page \in [Page -> PageState] /\ pq \in [Queue -> Seq(Entry)]
  BY ThreadHas
<1>2. /\ page' = [p \in Page |-> IF p \in C THEN [pmap_remove_write(page[p]) EXCEPT !.busy = "s"] ELSE page[p]]
      /\ cluster' = C
  BY DEF Flush
<1>3. th' = [th EXCEPT ![t] = k]  BY <1>1 DEF Flush
<1>4. stopped' = "no"
  <2>1. \A p \in C : page[p].busy = "no" /\ page[p].content # "invalid" /\ page[p].pin # "held"  OBVIOUS
  <2>2. QED  BY <2>1 DEF Flush, KASSERT
<1>5. k \in ThreadState /\ k.pc = "put"  BY <1>1 DEF ThreadState, Label
<1> HIDE DEF k
<1>6. th'[t] = k /\ th'["scan"] = th["scan"] /\ "scan" \in Thread  BY <1>1, <1>3 DEF Thread
<1>7. ASSUME NEW p \in Page
      PROVE  /\ page'[p] \in PageState /\ page'[p].queue = page[p].queue /\ PageOK(page'[p], object)
             /\ Homed(page'[p], object, InHand(th["scan"], p)) /\ (p \in C => page'[p].busy = "s")
  <2> DEFINE u == page[p]
             s == [pmap_remove_write(u) EXCEPT !.busy = "s"]
  <2>1. u \in PageState /\ PageOK(u, object) /\ Homed(u, object, InHand(th["scan"], p))  BY PageHas
  <2>2. CASE p \notin C  BY <1>2, <2>1, <2>2
  <2>3. CASE p \in C
    <3>1. page'[p] = s /\ u.resident /\ u.busy = "no" /\ u.queue = "LAUNDRY" /\ u.content # "invalid"  BY <1>2, <2>3
    <3> HIDE DEF u
    <3>2. /\ s \in PageState /\ s.queue = u.queue /\ s.busy = "s" /\ s.resident /\ s.content # "invalid"
          /\ s.map \in {"none", "ro"} /\ (u.map = "none" => s.map = "none") /\ s.pin = u.pin
          /\ (s.unsaved = "yes" => s.content = "dirty")
      BY <2>1, <3>1 DEF pmap_remove_write, vm_page_test_dirty, PageState, PageOK
    <3> HIDE DEF s
    <3>3. PageOK(s, object)  BY <2>1, <3>1, <3>2 DEF PageOK
    <3>4. Homed(s, object, InHand(th["scan"], p))  BY <3>1, <3>2 DEF Homed
    <3>5. QED  BY <3>1, <3>2, <3>3, <3>4 DEF u
  <2>4. QED  BY <2>2, <2>3
<1>8. memory' = [page |-> page', pq |-> pq]  BY DEF memory
<1>9. Good(memory')
  <2>1. page' \in [Page -> PageState]  BY <1>2, <1>7
  <2>2. \A x \in Page, q \in Queue : x \in Range(pq[q]) <=> page[x].queue = q  BY <1>1, GoodHas
  <2>3. \A x \in Page, q \in Queue : x \in Range(pq[q]) <=> page'[x].queue = q  BY <1>7, <2>2
  <2>4. \A q \in Queue : Distinct(pq[q])  BY <1>1, GoodHas
  <2>5. QED  BY <1>1, <1>8, <2>1, <2>3, <2>4, GoodIs
<1>10. PagesInv'  BY <1>6, <1>7, <1>9 DEF PagesInv
<1>11. memory'.pq = pq  BY <1>8
<1>12. ThreadOK(t, k, memory')
  <2>1. \A q \in Queue : t \in Range(pq[q]) <=> q = QueueOf(t)  BY <1>1 DEF ThreadOK, Away
  <2>2. "put" \in Away  BY DEF Away
  <2>3. QED  BY <1>5, <1>11, <2>1, <2>2 DEF ThreadOK
<1>13. ASSUME NEW x \in Thread \ {t} PROVE ThreadOK(x, th[x], memory')
  <2>1. x = "scan"  BY DEF Thread
  <2>2. ThreadOK(x, th[x], memory)  BY ThreadHas
  <2>3. QED  BY <1>1, <1>11, <2>1, <2>2 DEF ThreadOK
<1>14. FifoOK(th'["scan"], pq'["INACTIVE"])  BY <1>6 DEF IInv, ThreadsInv
<1>15. ClusterOK(cluster', page', th')  BY <1>2, <1>5, <1>6, <1>7 DEF ClusterOK
<1>16. k.pc \notin {"work", "remove", "vget"}  BY <1>5
<1>17. QED  BY <1>3, <1>4, <1>10, <1>12, <1>13, <1>14, <1>15, <1>16, ThreadStepKeeps

\* The pages that are written together with page p.
LEMMA CompanionsOK ==
    ASSUME IInv, NEW p \in Page, NEW x \in Companions(p)
    PROVE  /\ x \in Page /\ page[x].resident /\ page[x].busy = "no" /\ page[x].queue = "LAUNDRY" /\ page[x].pin # "held"
           /\ page[x].content # "invalid"
<1>1. /\ x \in Page /\ page[x].resident /\ page[x].busy = "no" /\ page[x].queue = "LAUNDRY" /\ page[x].pin # "held"
      /\ vm_page_test_dirty(page[x]).content = "dirty"
  BY DEF Companions
<1>2. PageOK(page[x], object)  BY <1>1, PageHas
<1>3. page[x].content # "invalid"
  <2>1. SUFFICES ASSUME page[x].content = "invalid" PROVE FALSE  OBVIOUS
  <2>2. page[x].map # "mod"  BY <1>2, <2>1 DEF PageOK
  <2>3. QED  BY <1>1, <2>1, <2>2 DEF vm_page_test_dirty
<1>4. QED  BY <1>1, <1>3

\* vm_pageout_clean, up to the pager or to vget.
LEMMA CleanKeeps == ASSUME IInv, stopped = "no", use' = use, NEW t \in Thread, Clean(t) PROVE IInv'
<1> DEFINE p == th[t].m
           u == page[p]
           s == Unmapped(u)
           r == [memory EXCEPT !.page[p] = s]
           k == [th[t] EXCEPT !.pc = "vget"]
<1>1. t = "laundry" /\ th[t].pc = "remove" /\ object # "dead" /\ pq' = pq /\ object' = object  BY DEF Clean
<1>2. /\ p \in Page /\ u \in PageState /\ PageOK(u, object) /\ u.resident /\ u.busy = "no" /\ u.pin = "no"
      /\ u.queue = "LAUNDRY" /\ u.content # "invalid" /\ Good(memory) /\ memory.page = page /\ memory.pq = pq
  BY <1>1, HandHas
<1>3. CASE \E C \in SUBSET Companions(p) : Flush(t, C \cup {p})
  <2>1. PICK C \in SUBSET Companions(p) : Flush(t, C \cup {p})  BY <1>3
  <2> DEFINE D == C \cup {p}
  <2>2. \A x \in D : /\ x \in Page /\ page[x].resident /\ page[x].busy = "no" /\ page[x].queue = "LAUNDRY"
                     /\ page[x].pin # "held" /\ page[x].content # "invalid"
    BY <1>2, CompanionsOK
  <2>3. th["scan"].pc \notin {"work", "remove"}
    <3>1. \A x \in Thread : x = "scan" \/ x = t  BY <1>1 DEF Thread
    <3>2. QED  BY <1>1, <3>1 DEF IInv, ThreadsInv, Alone
  <2>4. D \in SUBSET Page /\ Flush(t, D)  BY <2>1, <2>2
  <2> HIDE DEF D
  <2>5. QED  BY <1>1, <2>2, <2>3, <2>4, FlushKeeps
<1>4. CASE Go(t, "vget") /\ page' = [page EXCEPT ![p] = Unmapped(@)] /\ cluster' = cluster /\ stopped' = stopped
  <2>1. page' = [page EXCEPT ![p] = s] /\ Quiet  BY <1>1, <1>2, <1>4 DEF Quiet
  <2>2. s \in PageState /\ PageOK(s, object) /\ Alike(s, u)  BY <1>2, UnmappedOK
  <2>3. th[t] \in ThreadState /\ DOMAIN th = Thread  BY ThreadHas
  <2>4. k \in ThreadState /\ k.pc = "vget" /\ k.m = p /\ k.skipped = th[t].skipped /\ th' = [th EXCEPT ![t] = k]
    BY <1>4, <2>3 DEF ThreadState, Label, Go
  <2> HIDE DEF s, k
  <2>5. Makes(memory, r, p, s)  BY <1>2, <2>2, EditMakes DEF Alike, SameQueue
  <2>6. Becomes(r) /\ r.pq = pq  BY <1>1, <1>2, <2>1 DEF Becomes, memory
  <2> HIDE DEF r
  <2>7. QED  BY <1>1, <2>1, <2>2, <2>4, <2>5, <2>6, HandStepKeeps
<1>5. QED  BY <1>3, <1>4 DEF Clean

\* The page is looked at again when the vnode is locked.
LEMMA vgetKeeps == ASSUME IInv, stopped = "no", use' = use, NEW t \in Thread, vget(t) PROVE IInv'
<1> DEFINE p == th[t].m
           Q == QueueOf(t)
<1>1. th[t].pc = "vget" /\ pq' = pq /\ object' = object  BY DEF vget
<1>2. /\ ThreadOK(t, th[t], memory) /\ th[t] \in ThreadState /\ DOMAIN th = Thread /\ memory.pq = pq
      /\ pq \in [Queue -> Seq(Entry)] /\ Q \in Queue /\ pq[Q] \in Seq(Entry) /\ Distinct(pq[Q])
  BY ThreadHas
<1>3. t = "laundry" /\ p \in Page /\ t \in Range(pq[Q])  BY <1>1, <1>2 DEF ThreadOK, Away
<1>4. CASE ~ObjectLocked /\ StillToClean(page[p]) /\ \E C \in SUBSET Companions(p) : Flush(t, C \cup {p})
  <2>1. PICK C \in SUBSET Companions(p) : Flush(t, C \cup {p})  BY <1>4
  <2> DEFINE D == C \cup {p}
  <2>2. \A x \in D : /\ x \in Page /\ page[x].resident /\ page[x].busy = "no" /\ page[x].queue = "LAUNDRY"
                     /\ page[x].pin # "held" /\ page[x].content # "invalid"
    <3>1. /\ page[p].resident /\ page[p].busy = "no" /\ page[p].queue = "LAUNDRY"
          /\ page[p].pin # "held" /\ page[p].content # "invalid"
      BY <1>4 DEF StillToClean
    <3>2. QED  BY <1>3, <3>1, CompanionsOK
  <2>3. th["scan"].pc \notin {"work", "remove"} /\ object # "dead"
    <3>1. "scan" \in Thread  BY DEF Thread
    <3>2. QED  BY <1>1, <1>3, <1>4, <3>1 DEF ObjectLocked, IInv, RestInv
  <2>4. D \in SUBSET Page /\ Flush(t, D)  BY <2>1, <2>2
  <2> HIDE DEF D
  <2>5. QED  BY <1>1, <1>3, <2>2, <2>3, <2>4, FlushKeeps
<1>5. CASE Done(t) /\ page' = page /\ cluster' = cluster /\ stopped' = stopped
  <2> DEFINE k == [th[t] EXCEPT !.pc = "relock", !.m = NoPage]
  <2>1. k \in ThreadState /\ k.pc = "relock" /\ th' = [th EXCEPT ![t] = k]  BY <1>2, <1>5 DEF ThreadState, Label, Done
  <2> HIDE DEF k
  <2>2. WalkOK(t, k, pq[Q])  BY <1>3, <2>1 DEF WalkOK, Away
  <2>3. pq' = [pq EXCEPT ![Q] = pq[Q]]  BY <1>1, <1>2
  <2> HIDE DEF Q
  <2>4. QED  BY <1>1, <1>2, <1>5, <2>1, <2>2, <2>3, WalkStepKeeps DEF Q
<1>6. QED  BY <1>4, <1>5 DEF vget

-----------------------------------------------------------------------------
(* The pages of a cluster come back from the pager.                        *)

\* A set of sets of pages has a least one.
LEMMA LeastSet ==
    ASSUME NEW B, B \subseteq SUBSET Page, B # {}
    PROVE  \E u \in B : \A v \in B : v \subseteq u => v = u
<1>1. B \subseteq FiniteSubsetsOf(Page)
  <2>1. ASSUME NEW u \in B PROVE u \in FiniteSubsetsOf(Page)
    <3>1. u \in SUBSET Page  BY <2>1
    <3>2. IsFiniteSet(u)  BY <3>1, PageAssumption, FS_Subset
    <3>3. QED  BY <3>1, <3>2 DEF FiniteSubsetsOf
  <2>2. QED  BY <2>1
<1>2. PICK u \in B : \A v \in B : ~(<<v, u>> \in StrictSubsetOrdering(Page))
  BY <1>1, FS_StrictSubsetOrderingWellFounded, WFMin
<1>3. ASSUME NEW v \in B, v \subseteq u, v # u PROVE FALSE
  <2>1. u \in SUBSET Page /\ v \in SUBSET Page  BY <1>3
  <2>2. <<v, u>> \in StrictSubsetOrdering(Page)  BY <1>3, <2>1 DEF StrictSubsetOrdering
  <2>3. QED  BY <1>2, <1>3, <2>2
<1>4. QED  BY <1>2, <1>3

\* f solves the equation of the fold of put, over the sets of pages that are in U.
First(S) == CHOOSE x \in S : TRUE
Solves(f, U, status) ==
    f = [S \in SUBSET U |-> IF S = {} THEN memory ELSE Written(f[S \ {First(S)}], First(S), status)]

\* The fold is the value at U of a solution.
LEMMA BatchFold ==
    ASSUME NEW U, NEW status
    PROVE  FoldSet(LAMBDA p, M : Written(M, p, status), memory, U) = (CHOOSE f : Solves(f, U, status))[U]
  BY Zenon DEF FoldSet, MapThenFoldSet, Solves, First

\* What a solution says.
LEMMA SolvesSays ==
    ASSUME NEW f, NEW U, NEW status, Solves(f, U, status), NEW S \in SUBSET U
    PROVE  f[S] = IF S = {} THEN memory ELSE Written(f[S \ {First(S)}], First(S), status)
<1> DEFINE w(T) == IF T = {} THEN memory ELSE Written(f[T \ {First(T)}], First(T), status)
<1>1. f = [T \in SUBSET U |-> w(T)]  BY Zenon DEF Solves
<1> HIDE DEF w
<1>2. f[S] = w(S)  BY <1>1
<1>3. QED  BY <1>2, Zenon DEF w

\* A set loses its first page.
LEMMA FirstOf == ASSUME NEW S, S # {} PROVE First(S) \in S /\ S \ {First(S)} \subseteq S /\ S \ {First(S)} # S
<1>1. First(S) \in S  BY DEF First
<1>2. QED  BY <1>1

\* Two solutions agree where both are defined.
LEMMA SolvesAgree ==
    ASSUME NEW status, NEW U \in SUBSET Page, NEW V \in SUBSET Page, NEW f, NEW g, Solves(f, U, status), Solves(g, V, status),
           NEW S \in SUBSET (U \cap V)
    PROVE  f[S] = g[S]
<1> DEFINE B == {T \in SUBSET (U \cap V) : f[T] # g[T]}
<1>1. SUFFICES ASSUME B # {} PROVE FALSE  OBVIOUS
<1>2. B \subseteq SUBSET Page  OBVIOUS
<1> HIDE DEF B
<1>3. PICK u \in B : \A v \in B : v \subseteq u => v = u  BY <1>1, <1>2, LeastSet
<1>4. u \in SUBSET U /\ u \in SUBSET V /\ f[u] # g[u]  BY <1>3 DEF B
<1>5. f[u] = IF u = {} THEN memory ELSE Written(f[u \ {First(u)}], First(u), status)  BY <1>4, SolvesSays
<1>6. g[u] = IF u = {} THEN memory ELSE Written(g[u \ {First(u)}], First(u), status)  BY <1>4, SolvesSays
<1>7. CASE u = {}  BY <1>4, <1>5, <1>6, <1>7
<1>8. CASE u # {}
  <2> DEFINE v == u \ {First(u)}
  <2>1. v \subseteq u /\ v # u  BY <1>8, FirstOf
  <2>2. v \notin B /\ v \in SUBSET (U \cap V)  BY <1>3, <1>4, <2>1
  <2>3. f[v] = g[v]  BY <2>2 DEF B
  <2> HIDE DEF v
  <2>4. f[u] = Written(f[v], First(u), status) /\ g[u] = Written(g[v], First(u), status)  BY <1>5, <1>6, <1>8 DEF v
  <2>5. QED  BY <1>4, <2>3, <2>4, Zenon
<1>9. QED  BY <1>7, <1>8

\* The equation of the fold has a solution, for every set of pages.
LEMMA SolutionExists == ASSUME NEW status, NEW U \in SUBSET Page PROVE \E f : Solves(f, U, status)
<1> DEFINE B == {V \in SUBSET Page : ~\E f : Solves(f, V, status)}
<1>1. SUFFICES ASSUME B # {} PROVE FALSE  OBVIOUS
<1>2. B \subseteq SUBSET Page  OBVIOUS
<1> HIDE DEF B
<1>3. PICK V \in B : \A T \in B : T \subseteq V => T = V  BY <1>1, <1>2, LeastSet
<1>4. V \in SUBSET Page /\ ~\E f : Solves(f, V, status)  BY <1>3 DEF B
<1>5. \A T \in SUBSET V : T # V => \E f : Solves(f, T, status)  BY <1>3, <1>4 DEF B
<1> DEFINE h(T) == CHOOSE f : Solves(f, T, status)
           w(T) == IF T = {} THEN memory ELSE Written(h(T \ {First(T)})[T \ {First(T)}], First(T), status)
           g == [T \in SUBSET V |-> w(T)]
<1>6. \A T \in SUBSET V : T # V => Solves(h(T), T, status)  BY <1>5
<1> HIDE DEF h
<1>7. \A T \in SUBSET V : g[T] = w(T)  OBVIOUS
<1>8. ASSUME NEW T \in SUBSET V, T # {} PROVE g[T \ {First(T)}] = h(T \ {First(T)})[T \ {First(T)}]
  <2> DEFINE S == T \ {First(T)}
  <2>1. S \in SUBSET V /\ S # V  BY <1>8, FirstOf
  <2> DEFINE hs == h(S)
  <2>2. Solves(hs, S, status) /\ S \in SUBSET S  BY <1>6, <2>1
  <2>3. g[S] = w(S)  BY <1>7, <2>1
  <2> HIDE DEF S, g, hs
  <2>4. hs[S] = IF S = {} THEN memory ELSE Written(hs[S \ {First(S)}], First(S), status)  BY <2>2, SolvesSays
  <2>5. g[S] = hs[S]
    <3>1. CASE S = {}  BY <2>3, <2>4, <3>1
    <3>2. CASE S # {}
      <4> DEFINE R == S \ {First(S)}
                 hr == h(R)
      <4>1. R \subseteq S /\ R \in SUBSET V /\ R # V  BY <2>1, <3>2, FirstOf
      <4>2. Solves(hr, R, status)  BY <1>6, <4>1
      <4>3. S \in SUBSET Page /\ R \in SUBSET Page /\ R \in SUBSET (R \cap S)  BY <1>4, <2>1, <4>1
      <4>4. w(S) = Written(hr[R], First(S), status)  BY <3>2, Zenon
      <4>5. hs[S] = Written(hs[R], First(S), status)  BY <2>4, <3>2, Zenon
      <4> HIDE DEF R, hr
      <4>6. hr[R] = hs[R]  BY <2>2, <4>2, <4>3, SolvesAgree
      <4>7. QED  BY <2>3, <4>4, <4>5, <4>6, Zenon
    <3>3. QED  BY <3>1, <3>2
  <2>6. QED  BY <2>5 DEF S, hs
<1>9. ASSUME NEW T \in SUBSET V
      PROVE  g[T] = IF T = {} THEN memory ELSE Written(g[T \ {First(T)}], First(T), status)
  <2>1. g[T] = w(T)  BY <1>7
  <2> HIDE DEF g
  <2>2. CASE T = {}  BY <2>1, <2>2
  <2>3. CASE T # {}
    <3>1. w(T) = Written(h(T \ {First(T)})[T \ {First(T)}], First(T), status)  BY <2>3, Zenon
    <3>2. g[T \ {First(T)}] = h(T \ {First(T)})[T \ {First(T)}]  BY <1>8, <2>3
    <3>3. g[T] = Written(g[T \ {First(T)}], First(T), status)  BY <2>1, <3>1, <3>2, Zenon
    <3>4. QED  BY <2>3, <3>3, Zenon
  <2>4. QED  BY <2>2, <2>3
<1>10. g = [T \in SUBSET V |-> g[T]]  OBVIOUS
<1> HIDE DEF g
<1> DEFINE z(T) == IF T = {} THEN memory ELSE Written(g[T \ {First(T)}], First(T), status)
<1>11. \A T \in SUBSET V : g[T] = z(T)  BY <1>9, Zenon
<1> HIDE DEF z
<1>12. g = [T \in SUBSET V |-> z(T)]  BY <1>10, <1>11
<1>13. Solves(g, V, status)  BY <1>12, Zenon DEF Solves, z
<1>14. QED  BY <1>4, <1>13

\* What the pager's status makes of the pages T of the cluster.
Returned(T, r, status) ==
    /\ Good(r) /\ \A q \in Queue : Moves(pq[q], r.pq[q], T)
    /\ \A x \in Page : r.page[x] = IF x \in T THEN WrittenPage(page[x], status) ELSE page[x]

\* The fold returns every page of the cluster, whatever its order.
LEMMA BatchReturns ==
    ASSUME IInv, NEW U \in SUBSET Page, NEW status \in Status
    PROVE  Returned(U, FoldSet(LAMBDA p, M : Written(M, p, status), memory, U), status)
<1> DEFINE h == CHOOSE f : Solves(f, U, status)
<1>1. FoldSet(LAMBDA p, M : Written(M, p, status), memory, U) = h[U]  BY BatchFold
<1>2. Solves(h, U, status)  BY SolutionExists
<1> HIDE DEF h
<1>3. Good(memory) /\ memory.page = page /\ memory.pq = pq  BY DEF IInv, PagesInv, memory
<1> DEFINE B == {T \in SUBSET U : ~Returned(T, h[T], status)}
<1>4. SUFFICES ASSUME B # {} PROVE FALSE  BY <1>1
<1>5. B \subseteq SUBSET Page  OBVIOUS
<1> HIDE DEF B
<1>6. PICK T \in B : \A S \in B : S \subseteq T => S = T  BY <1>4, <1>5, LeastSet
<1>7. T \in SUBSET U /\ ~Returned(T, h[T], status)  BY <1>6 DEF B
<1>8. h[T] = IF T = {} THEN memory ELSE Written(h[T \ {First(T)}], First(T), status)  BY <1>2, <1>7, SolvesSays
<1>9. CASE T = {}
  <2>1. h[T] = memory  BY <1>8, <1>9
  <2>2. \A q \in Queue : Moves(pq[q], pq[q], T)  BY <1>3, GoodHas, MovesSelf
  <2>3. QED  BY <1>3, <1>7, <1>9, <2>1, <2>2 DEF Returned
<1>10. CASE T # {}
  <2> DEFINE p == First(T)
             S == T \ {p}
             M == h[S]
             r == Written(M, p, status)
  <2>1. p \in T /\ S \subseteq T /\ S # T  BY <1>10, FirstOf
  <2>2. p \in Page /\ S \in SUBSET U /\ S \cup {p} = T /\ p \notin S  BY <1>7, <2>1
  <2>3. Returned(S, M, status)  BY <1>6, <2>1, <2>2 DEF B
  <2>4. h[T] = r  BY <1>8, <1>10, Zenon
  <2> HIDE DEF M, S, p
  <2>5. Good(M) /\ M.page[p] = page[p] /\ M.page \in [Page -> PageState]  BY <2>2, <2>3, GoodHas DEF Returned
  <2>6. Makes(M, r, p, WrittenPage(page[p], status))  BY <2>2, <2>5, WrittenMakes
  <2> HIDE DEF r
  <2>7. Good(r) /\ r.page = [M.page EXCEPT ![p] = WrittenPage(page[p], status)]  BY <2>6 DEF Makes
  <2>8. ASSUME NEW x \in Page PROVE r.page[x] = IF x \in T THEN WrittenPage(page[x], status) ELSE page[x]
    <3>1. M.page[x] = IF x \in S THEN WrittenPage(page[x], status) ELSE page[x]  BY <2>3 DEF Returned
    <3>2. CASE x = p  BY <2>1, <2>2, <2>5, <2>7, <3>2
    <3>3. CASE x # p
      <4>1. r.page[x] = M.page[x] /\ (x \in T <=> x \in S)  BY <2>2, <2>5, <2>7, <3>3
      <4>2. QED  BY <3>1, <4>1
    <3>4. QED  BY <3>2, <3>3
  <2>9. ASSUME NEW q \in Queue PROVE Moves(pq[q], r.pq[q], T)
    <3>1. Moves(pq[q], M.pq[q], S) /\ Moves(M.pq[q], r.pq[q], {p})  BY <2>3, <2>6 DEF Returned, Makes
    <3>2. Moves(pq[q], r.pq[q], S \cup {p})  BY <3>1, MovesTwice
    <3>3. QED  BY <2>2, <3>2
  <2>10. Returned(T, r, status)  BY <2>7, <2>8, <2>9 DEF Returned
  <2>11. QED  BY <1>7, <2>4, <2>10
<1>11. QED  BY <1>9, <1>10

\* The larger of a number and zero.
LEMMA MaxZero == ASSUME NEW a \in Int, NEW b \in Nat, a <= b PROVE Max({a, 0}) \in 0 .. b
<1> DEFINE m == Max({a, 0})
<1>1. \E x \in {a, 0} : \A y \in {a, 0} : x >= y
  <2>1. CASE a >= 0  BY <2>1
  <2>2. CASE a < 0  BY <2>2
  <2>3. QED  BY <2>1, <2>2
<1>2. m \in {a, 0} /\ \A y \in {a, 0} : m >= y  BY <1>1, Zenon DEF Max
<1> HIDE DEF m
<1>3. m \in 0 .. b  BY <1>2
<1>4. QED  BY <1>3 DEF m

\* The laundry thread has the pager's answer.
LEMMA putKeeps == ASSUME IInv, stopped = "no", use' = use, NEW t \in Thread, put(t) PROVE IInv'
<1>1. /\ th[t].pc = "put" /\ ~ObjectLocked /\ QueuesFree /\ cluster' = {} /\ object' = object
  BY DEF put
<1>2. /\ ThreadOK(t, th[t], memory) /\ th[t] \in ThreadState /\ DOMAIN th = Thread /\ Good(memory)
      /\ memory.page = page /\ memory.pq = pq /\ QueueOf(t) \in Queue
  BY ThreadHas
<1>3. PICK status \in Status :
        LET n == IF status \in {"OK", "PEND"} THEN Cardinality(cluster) ELSE 0
        IN  /\ KASSERT(status = "PEND" \/ \A p \in cluster : page[p].map \notin {"rw", "mod"})
            /\ Becomes(FoldSet(LAMBDA p, M : Written(M, p, status), memory, cluster))
            /\ th' = [th EXCEPT ![t].pc = "relock", ![t].want = Max({@ - n, 0}),
                             ![t].left = IF n = 0 THEN @ ELSE Max({@ - (n - 1), 0})]
  BY Zenon DEF put
<1> DEFINE n == IF status \in {"OK", "PEND"} THEN Cardinality(cluster) ELSE 0
           r == FoldSet(LAMBDA p, M : Written(M, p, status), memory, cluster)
           left == IF n = 0 THEN th[t].left ELSE Max({th[t].left - (n - 1), 0})
           want == Max({th[t].want - n, 0})
           k == [th[t] EXCEPT !.pc = "relock", !.want = want, !.left = left]
<1>4. cluster \in SUBSET Page /\ \A p \in cluster : page[p].busy = "s"  BY DEF IInv, RestInv, ClusterOK
<1>5. Returned(cluster, r, status)  BY <1>4, BatchReturns
<1>6. Becomes(r) /\ KASSERT(status = "PEND" \/ \A p \in cluster : page[p].map \notin {"rw", "mod"})  BY <1>3, Zenon
<1> HIDE DEF r
<1>7. th' = [th EXCEPT ![t] = k]
  <2>1. th' = [th EXCEPT ![t].pc = "relock", ![t].want = Max({@ - n, 0}),
                       ![t].left = IF n = 0 THEN @ ELSE Max({@ - (n - 1), 0})]
    BY <1>3, Zenon
  <2> HIDE DEF n
  <2>2. QED  BY <1>2, <2>1
<1>8. n \in Nat
  <2>1. IsFiniteSet(cluster)  BY <1>4, PageAssumption, FS_Subset
  <2>2. Cardinality(cluster) \in Nat  BY <2>1, FS_CardinalityType
  <2>3. QED  BY <2>2
<1> HIDE DEF n
<1>9. want \in 0 .. Target /\ left \in 0 .. Cardinality(Page)
  <2>1. th[t].want \in 0 .. Target /\ th[t].left \in 0 .. Cardinality(Page)  BY <1>2 DEF ThreadState
  <2>2. Target \in Nat /\ Cardinality(Page) \in Nat  BY Bounds
  <2>3. th[t].want - n \in Int /\ th[t].want - n <= Target  BY <1>8, <2>1, <2>2
  <2>4. want \in 0 .. Target  BY <2>2, <2>3, MaxZero
  <2>5. CASE n = 0  BY <2>1, <2>4, <2>5
  <2>6. CASE n # 0
    <3>1. th[t].left - (n - 1) \in Int /\ th[t].left - (n - 1) <= Cardinality(Page)  BY <1>8, <2>1, <2>2, <2>6
    <3>2. Max({th[t].left - (n - 1), 0}) \in 0 .. Cardinality(Page)  BY <2>2, <3>1, MaxZero
    <3>3. QED  BY <2>4, <2>6, <3>2
  <2>7. QED  BY <2>5, <2>6
<1> HIDE DEF left, want
<1>10. k \in ThreadState /\ k.pc = "relock"  BY <1>2, <1>9 DEF ThreadState, Label
<1> HIDE DEF k
<1>11. t = "laundry" /\ "scan" \in Thread /\ "scan" # t  BY <1>1, <1>2 DEF ThreadOK, Thread
<1>12. th'[t] = k /\ \A x \in Thread \ {t} : th'[x] = th[x]  BY <1>2, <1>7
<1>13. Good(r) /\ memory' = r /\ page' = r.page /\ pq' = r.pq  BY <1>5, <1>6, BecomesIs DEF Returned
<1>14. stopped' = "no"
  <2>1. ASSUME NEW p \in cluster PROVE page[p].map \notin {"rw", "mod"}
    <3>1. page[p].busy = "s" /\ p \in Page  BY <1>4
    <3>2. PageOK(page[p], object)  BY <3>1, PageHas
    <3>3. page[p].map \in {"none", "ro"}  BY <3>1, <3>2 DEF PageOK
    <3>4. QED  BY <3>3
  <2>2. QED  BY <1>6, <2>1 DEF KASSERT
<1>15. \A x \in Thread, q \in Queue : x \in Range(r.pq[q]) <=> x \in Range(pq[q])
  <2>1. \A x \in Thread : x \notin cluster  BY <1>4, Markers
  <2>2. QED  BY <1>5, <2>1 DEF Returned, Moves
<1>16. ThreadOK(t, k, memory')
  <2>1. \A q \in Queue : t \in Range(pq[q]) <=> q = QueueOf(t)  BY <1>1, <1>2 DEF ThreadOK, Away
  <2>2. \A q \in Queue : t \in Range(r.pq[q]) <=> q = QueueOf(t)  BY <1>15, <2>1
  <2>3. "relock" \in Away  BY DEF Away
  <2>4. QED  BY <1>10, <1>13, <2>2, <2>3 DEF ThreadOK
<1>17. ASSUME NEW x \in Thread \ {t} PROVE ThreadOK(x, th[x], memory')
  <2>1. ThreadOK(x, th[x], memory) /\ QueueOf(x) \in Queue  BY ThreadHas
  <2>2. th[x].pc \notin {"page", "work", "remove"}  BY <1>1, <2>1 DEF ObjectLocked, QueuesFree, QueueLocked
  <2>3. \A q \in Queue : x \in Range(r.pq[q]) <=> x \in Range(memory.pq[q])  BY <1>2, <1>15
  <2>4. QED  BY <1>13, <2>1, <2>2, <2>3 DEF ThreadOK
<1>18. FifoOK(th'["scan"], pq'["INACTIVE"])
  <2>1. QueueOf("scan") = "INACTIVE" /\ "INACTIVE" \in Queue  BY DEF QueueOf, Queue
  <2>2. th["scan"].pc # "page"  BY <1>1, <1>11, <2>1 DEF QueuesFree, QueueLocked
  <2>3. ThreadOK("scan", th["scan"], memory)  BY <1>11, ThreadHas
  <2>4. "scan" \in Range(pq["INACTIVE"]) <=> th["scan"].pc \in Away  BY <1>2, <2>1, <2>3 DEF ThreadOK
  <2>5. "scan" \notin cluster  BY <1>4, <1>11, Markers
  <2>6. Moves(pq["INACTIVE"], r.pq["INACTIVE"], cluster)  BY <1>5, <2>1 DEF Returned
  <2>7. FifoOK(th["scan"], pq["INACTIVE"])  BY DEF IInv, ThreadsInv
  <2>8. FifoOK(th["scan"], r.pq["INACTIVE"])  BY <2>2, <2>4, <2>5, <2>6, <2>7, FifoMoves
  <2>9. QED  BY <1>11, <1>12, <1>13, <2>8
<1>19. PagesInv'
  <2>1. ASSUME NEW x \in Page PROVE PageOK(page'[x], object) /\ Homed(page'[x], object, InHand(th["scan"], x))
    <3>1. /\ page[x] \in PageState /\ PageOK(page[x], object) /\ Homed(page[x], object, InHand(th["scan"], x))
      BY PageHas
    <3>2. ~InHand(th["scan"], x)  BY <1>1, <1>11 DEF InHand, ObjectLocked
    <3>3. CASE x \in cluster
      <4>1. page'[x] = WrittenPage(page[x], status) /\ page[x].busy = "s"  BY <1>4, <1>5, <1>13, <3>3 DEF Returned
      <4>2. PageOK(page'[x], object) /\ Homed(page'[x], object, FALSE)  BY <3>1, <3>2, <4>1, WrittenOK DEF Homed
      <4>3. QED  BY <4>2 DEF Homed
    <3>4. CASE x \notin cluster
      <4>1. page'[x] = page[x]  BY <1>5, <1>13, <3>4 DEF Returned
      <4>2. QED  BY <3>1, <4>1
    <3>5. QED  BY <3>3, <3>4
  <2>2. th'["scan"] = th["scan"]  BY <1>11, <1>12
  <2>3. QED  BY <1>1, <1>13, <2>1, <2>2 DEF PagesInv
<1>20. ClusterOK(cluster', page', th')  BY <1>1 DEF ClusterOK
<1>21. k.pc \notin {"work", "remove", "vget"}  BY <1>10
<1>22. QED  BY <1>1, <1>7, <1>14, <1>16, <1>17, <1>18, <1>19, <1>20, <1>21, ThreadStepKeeps

-----------------------------------------------------------------------------
(* The invariant holds.                                                    *)

\* At first all pages are free, and only vmd_inacthead is in a queue.
LEMMA InitHolds == Init => IInv
<1> SUFFICES ASSUME Init PROVE IInv  OBVIOUS
<1>1. /\ page = [p \in Page |-> FreePage] /\ pq = [q \in Queue |-> IF q = "INACTIVE" THEN <<"inacthead">> ELSE <<>>]
      /\ object = "mapped" /\ use \in Workload /\ th = [t \in Thread |-> Resting] /\ cluster = {} /\ stopped = "no"
  BY DEF Init
<1>2. page \in [Page -> PageState]  BY <1>1 DEF FreePage, PageState
<1>3. <<"inacthead">> \in Seq(Entry) /\ <<>> \in Seq(Entry)  BY DEF Entry
<1>4. pq \in [Queue -> Seq(Entry)]  BY <1>1, <1>3
<1>5. \A q \in Queue : Distinct(pq[q]) /\ Range(pq[q]) \subseteq {"inacthead"}  BY <1>1 DEF Distinct, Range
<1>6. Good(memory)
  <2>1. \A x \in Page, q \in Queue : x \notin Range(pq[q]) /\ page[x].queue # q
    BY <1>1, <1>5, Markers DEF FreePage, Queue
  <2>2. QED  BY <1>2, <1>4, <1>5, <2>1, GoodIs DEF memory
<1>7. ASSUME NEW p \in Page PROVE PageOK(page[p], object) /\ Homed(page[p], object, InHand(th["scan"], p))
  BY <1>1 DEF FreePage, PageOK, Homed
<1>8. ASSUME NEW t \in Thread PROVE ThreadOK(t, th[t], memory) /\ th[t] = Resting
  <2>1. th[t] = Resting /\ Resting.pc = "idle" /\ Resting \in ThreadState  BY <1>1, Bounds DEF Resting
  <2>2. \A q \in Queue : t \notin Range(pq[q])  BY <1>5 DEF Thread
  <2>3. memory.pq = pq  BY DEF memory
  <2>4. QED  BY <2>1, <2>2, <2>3 DEF ThreadOK, Away
<1>9. "scan" \in Thread /\ Resting.pc = "idle"  BY DEF Thread, Resting
<1>10. FifoOK(th["scan"], pq["INACTIVE"]) /\ Alone(th)  BY <1>8, <1>9 DEF FifoOK, Alone
<1>11. th \in [Thread -> ThreadState]  BY <1>1, Bounds
<1>12. PagesInv /\ ThreadsInv  BY <1>6, <1>7, <1>8, <1>10, <1>11 DEF PagesInv, ThreadsInv
<1>13. RestInv  BY <1>1 DEF RestInv, ClusterOK
<1>14. QED  BY <1>12, <1>13 DEF IInv

\* Every step keeps the invariant.
LEMMA NextKeeps == IInv /\ [Next]_vars => IInv'
<1> SUFFICES ASSUME IInv, [Next]_vars PROVE IInv'  OBVIOUS
<1>1. CASE Next
  <2>1. stopped = "no" /\ use' = use  BY <1>1 DEF Next
  <2>2. ASSUME NEW t \in Thread, Daemon(t) PROVE IInv'
    BY <2>1, <2>2, BeginKeeps, LockKeeps, SkipMarkerKeeps, TryPageKeeps, WaitPageKeeps, WaitObjectKeeps, RelockKeeps,
       WorkKeeps, ReferencedKeeps, RemoveFreeKeeps, RemoveDirtyKeeps, CleanKeeps, vgetKeeps, putKeeps, Zenon DEF Daemon
  <2>3. ASSUME NEW p \in Page, User(p) PROVE IInv'
    BY <2>1, <2>3, vm_page_allocKeeps, fillKeeps, vm_page_sunbusyKeeps, faultKeeps, writeKeeps, unmapKeeps, vm_page_holdKeeps, vm_page_wireKeeps,
       vm_page_unwireKeeps, vm_page_adviseKeeps, vm_page_try_to_freeKeeps, vm_page_set_invalidKeeps,
       vm_object_terminateKeeps, iodoneKeeps, Zenon DEF User
  <2>4. CASE reference \/ terminate \/ renew  BY <2>1, <2>4, referenceKeeps, terminateKeeps
  <2>5. QED  BY <1>1, <2>2, <2>3, <2>4 DEF Next
<1>2. CASE UNCHANGED vars
  <2>1. /\ page' = page /\ pq' = pq /\ object' = object /\ use' = use /\ th' = th /\ cluster' = cluster
        /\ stopped' = stopped /\ memory' = memory
    BY <1>2 DEF vars, memory
  <2>2. PagesInv' /\ ThreadsInv'  BY <2>1 DEF IInv, PagesInv, ThreadsInv, Alone
  <2>3. RestInv'  BY <2>1 DEF IInv, RestInv, ClusterOK
  <2>4. QED  BY <2>2, <2>3 DEF IInv
<1>3. QED  BY <1>1, <1>2

\* The queues, the pages, the two threads and the cluster agree in every state.
THEOREM InvariantHolds == Spec => []IInv
BY InitHolds, NextKeeps, PTL DEF Spec

\* However many pages there are, each is on the queue that m->queue names and on it once,
\* and one that nobody has busied, wired or taken is on a queue, unless it was allocated
\* without exclusive busy or unwired to PQ_NONE and no one has queued it since; a marker
\* is in its queue exactly while its thread is away.
THEOREM PagesStayOnTheirQueue == Spec => []QueuesMatchPages
<1>1. ASSUME IInv PROVE QueuesMatchPages
  <2>1. Good(memory) /\ memory.page = page /\ memory.pq = pq /\ th \in [Thread -> ThreadState]
    BY <1>1 DEF IInv, PagesInv, ThreadsInv, memory
  <2>2. page \in [Page -> PageState] /\ pq \in [Queue -> Seq(Entry)]  BY <2>1 DEF Good
  <2>3. TypeOK
    <3>1. \A q \in Queue : Range(pq[q]) \subseteq Page \cup Thread \cup {"inacthead"}
      <4>1. \A q \in Queue : pq[q] \in Seq(Entry)  BY <2>2
      <4>2. QED  BY <4>1, InRange DEF Entry
    <3>2. ThreadState = [pc : Label, m : Page \cup Thread \cup {"inacthead", NoPage}, left : 0 .. Cardinality(Page),
                         want : 0 .. Target, skipped : SUBSET Page]
      <4>1. Entry \cup {NoPage} = Page \cup Thread \cup {"inacthead", NoPage}  BY DEF Entry
      <4>2. QED  BY <4>1, Zenon DEF ThreadState
    <3>3. QED  BY <1>1, <2>1, <2>2, <3>1, <3>2 DEF TypeOK, IInv, RestInv, ClusterOK
  <2>4. ASSUME NEW p \in Page, NEW q \in Queue
        PROVE  Cardinality({i \in DOMAIN pq[q] : pq[q][i] = p}) = IF page[p].queue = q THEN 1 ELSE 0
    <3> DEFINE s == pq[q]
               I == {i \in DOMAIN s : s[i] = p}
    <3>1. s \in Seq(Entry) /\ Distinct(s) /\ (p \in Range(s) <=> page[p].queue = q)  BY <2>1, GoodHas
    <3>2. DOMAIN s = 1 .. Len(s) /\ \A e : e \in Range(s) <=> \E i \in 1 .. Len(s) : e = s[i]  BY <3>1, InRange
    <3> HIDE DEF s
    <3>3. CASE page[p].queue = q
      <4>1. PICK i \in 1 .. Len(s) : s[i] = p  BY <3>1, <3>2, <3>3
      <4>2. I = {i}  BY <3>1, <3>2, <4>1 DEF Distinct
      <4>3. Cardinality(I) = 1  BY <4>2, FS_Singleton
      <4>4. QED  BY <3>3, <4>3 DEF s
    <3>4. CASE page[p].queue # q
      <4>1. I = {}  BY <3>1, <3>2, <3>4
      <4>2. Cardinality(I) = 0  BY <4>1, FS_EmptySet
      <4>3. QED  BY <3>4, <4>2 DEF s
    <3>5. QED  BY <3>3, <3>4
  <2>5. ASSUME NEW p \in Page
        PROVE  /\ page[p].pin = "wired" \/ ~page[p].resident => page[p].queue \notin Queue
               /\ page[p].resident /\ page[p].pin # "wired" /\ page[p].busy = "no" /\ page[p].queue = "NONE"
                     => object = "dead" \/ th["scan"].m = p
    <3>1. PageOK(page[p], object) /\ Homed(page[p], object, InHand(th["scan"], p))  BY <1>1, PageHas
    <3>2. QED  BY <3>1 DEF PageOK, Homed, InHand, Queue
  <2>6. ASSUME NEW t \in Thread PROVE t \in Range(pq[QueueOf(t)]) <=> th[t].pc \in Away
    <3>1. ThreadOK(t, th[t], memory) /\ QueueOf(t) \in Queue  BY <1>1, ThreadHas
    <3>2. QED  BY <2>1, <3>1 DEF ThreadOK
  <2>7. QED  BY <2>3, <2>4, <2>5, <2>6 DEF QueuesMatchPages, Away
<1>2. QED  BY <1>1, InvariantHolds, PTL

\* What a process has written stays in memory, and is known to be modified, until the
\* laundry has stored it, a user has discarded it (MADV_FREE, a truncation, the end of the
\* object), or the pager has refused it as outside the object's range (VM_PAGER_BAD).
THEOREM WritesStay == Spec => []NoWriteIsLost
<1>1. ASSUME IInv PROVE NoWriteIsLost
  <2>1. \A p \in Page : PageOK(page[p], object) /\ page[p] \in PageState  BY <1>1, PageHas
  <2>2. QED  BY <2>1 DEF PageOK, NoWriteIsLost, PageState
<1>2. QED  BY <1>1, InvariantHolds, PTL

\* No assertion of the page allocator, of the page daemon or of the laundry fails.
THEOREM NoAssertionFails == Spec => []AssertionsHold
<1>1. IInv => AssertionsHold  BY DEF IInv, RestInv, AssertionsHold
<1>2. QED  BY <1>1, InvariantHolds, PTL

-----------------------------------------------------------------------------
(* The scan is first in, first out.                                        *)

\* The scan takes a page from where it stands in front of it, all others before it skipped.
LEMMA TakesFrom ==
    ASSUME IInv, Next, th["scan"].pc # "work", th'["scan"].pc = "work", th["scan"].m \in Page
    PROVE  Before(pq["INACTIVE"], th["scan"].m) \cap Page \subseteq th["scan"].skipped
<1> DEFINE t == "scan"
<1>1. t \in Thread /\ QueueOf(t) = "INACTIVE" /\ th \in [Thread -> ThreadState]
  BY DEF Thread, QueueOf, IInv, ThreadsInv
<1>2. ASSUME NEW x \in Thread, Daemon(x) PROVE x = t /\ (TryPage(t) \/ WaitPage(t) \/ WaitObject(t))
  <2>1. th' # th  BY <1>1
  <2>2. ASSUME NEW k, th' = [th EXCEPT ![x] = k] PROVE x = t /\ k.pc = "work"
    <3>1. x = t  BY <1>1, <2>2
    <3>2. QED  BY <1>1, <2>2, <3>1
  <2>3. ASSUME NEW m, NEW left, NEW want, NEW skipped, Walk(x, m, left, want, skipped) PROVE FALSE
    <3>1. th' = [th EXCEPT ![x] = Onward(m, left, want, skipped)]  BY <2>3, Zenon DEF Walk, Onward
    <3>2. Onward(m, left, want, skipped).pc = "work"  BY <2>2, <3>1
    <3>3. QED  BY <3>2 DEF Onward, Resting
  <2>4. ASSUME NEW l, th' = [th EXCEPT ![x] = [th[x] EXCEPT !.pc = l]] PROVE x = t /\ l = "work"
    <3>1. x = t /\ [th[x] EXCEPT !.pc = l].pc = "work"  BY <2>2, <2>4
    <3>2. th[x] \in ThreadState  BY <1>1
    <3>3. QED  BY <3>1, <3>2 DEF ThreadState
  <2>5. \A l : Go(x, l) => x = t /\ l = "work"
    <3>1. SUFFICES ASSUME NEW l, Go(x, l) PROVE x = t /\ l = "work"  OBVIOUS
    <3>2. th' = [th EXCEPT ![x] = [th[x] EXCEPT !.pc = l]]  BY <3>1 DEF Go
    <3>3. QED  BY <2>4, <3>2
  <2>6. ASSUME NEW k, th' = [th EXCEPT ![x] = k], k.pc # "work" PROVE FALSE  BY <2>2, <2>6
  <2>7. th[x] \in [pc : Label, m : Entry \cup {NoPage}, left : 0 .. Cardinality(Page), want : 0 .. Target, skipped : SUBSET Page]
    BY <1>1, Zenon DEF ThreadState
  <2>8. ~Begin(x)
    <3>1. SUFFICES ASSUME Begin(x) PROVE FALSE  OBVIOUS
    <3> DEFINE k == [th[x] EXCEPT !.pc = "lock", !.left = pq_cnt(QueueOf(x)), !.want = Target]
    <3>2. th' = [th EXCEPT ![x] = k]  BY <3>1 DEF Begin
    <3>3. k.pc = "lock"  BY <2>7
    <3>4. QED  BY <2>6, <3>2, <3>3
  <2>9. ~Lock(x)  BY <2>1, <2>3 DEF Lock, WalkOn
  <2>10. ~SkipMarker(x)  BY <2>3 DEF SkipMarker
  <2>11. ~Relock(x)  BY <2>3 DEF Relock, WalkOn
  <2>12. ~Done(x) /\ ~Counted(x) /\ ~Go(x, "remove") /\ ~Go(x, "vget")
    <3>1. ASSUME Done(x) PROVE FALSE
      <4> DEFINE k == [th[x] EXCEPT !.pc = "relock", !.m = NoPage]
      <4>1. th' = [th EXCEPT ![x] = k]  BY <3>1 DEF Done
      <4>2. k.pc = "relock"  BY <2>7
      <4>3. QED  BY <2>6, <4>1, <4>2
    <3>2. ASSUME Counted(x) PROVE FALSE
      <4> DEFINE k == [th[x] EXCEPT !.pc = "relock", !.m = NoPage, !.want = @ - 1]
      <4>1. th' = [th EXCEPT ![x] = k]  BY <3>2 DEF Counted
      <4>2. k.pc = "relock"  BY <2>7
      <4>3. QED  BY <2>6, <4>1, <4>2
    <3>3. QED  BY <2>5, <3>1, <3>2
  <2>13. ~Work(x) /\ ~Referenced(x) /\ ~RemoveFree(x) /\ ~RemoveDirty(x)
    BY <2>12, Zenon DEF Work, FreeIt, Referenced, RemoveFree, RemoveDirty
  <2>14. ASSUME NEW C, Flush(x, C) PROVE FALSE  BY <1>1, <2>2, <2>14 DEF Flush
  <2>15. ~Clean(x) /\ ~vget(x)  BY <2>12, <2>14, Zenon DEF Clean, vget
  <2>16. ~put(x)
    <3>1. SUFFICES ASSUME put(x) PROVE FALSE  OBVIOUS
    <3>2. PICK n : th' = [th EXCEPT ![x].pc = "relock", ![x].want = Max({@ - n, 0}),
                                    ![x].left = IF n = 0 THEN @ ELSE Max({@ - (n - 1), 0})]
      BY <3>1, Zenon DEF put
    <3> DEFINE k == [th[x] EXCEPT !.pc = "relock", !.want = Max({@ - n, 0}),
                                  !.left = IF n = 0 THEN @ ELSE Max({@ - (n - 1), 0})]
    <3>3. th' = [th EXCEPT ![x] = k]  BY <3>2
    <3>4. k.pc = "relock"  BY <2>7
    <3>5. QED  BY <2>6, <3>3, <3>4
  <2>17. TryPage(x) \/ WaitPage(x) \/ WaitObject(x)
    BY <1>2, <2>8, <2>9, <2>10, <2>11, <2>13, <2>15, <2>16, Zenon DEF Daemon
  <2>18. x = t
    <3>1. SUFFICES ASSUME x # t PROVE FALSE  OBVIOUS
    <3>2. ~Go(x, "wait_page") /\ ~Go(x, "wait_object")  BY <2>5, <3>1
    <3>3. \A q : ~Skip(x, q) /\ ~Moved(x, q)  BY <2>3 DEF Skip, Moved
    <3>4. ASSUME NEW q, Take(x, q) PROVE FALSE
      <4>1. th' = [th EXCEPT ![x].pc = "work", ![x].left = @ - 1]  BY <3>4, Zenon DEF Take
      <4>2. QED  BY <1>1, <3>1, <4>1
    <3>5. \A q : ~SkipOrTake(x, q)  BY <3>3, <3>4, Zenon DEF SkipOrTake
    <3>6. \A q : ~TryObject(x, q)  BY <3>2, <3>3, <3>5, Zenon DEF TryObject, Wait
    <3>7. QED  BY <2>17, <3>2, <3>3, <3>5, <3>6, Zenon DEF TryPage, WaitPage, WaitObject, Wait
  <2>19. QED  BY <2>17, <2>18
<1>3. ASSUME NEW p \in Page, User(p) PROVE th' = th
  BY <1>3, Zenon DEF User, Only, vm_page_alloc, fill, vm_page_set_valid_range, vm_page_sunbusy, fault, write, unmap, vm_page_hold, vm_page_unhold, vm_page_wire,
     vm_page_unwire, vm_page_advise, vm_page_try_to_free, vm_page_set_invalid, vm_object_terminate, iodone
<1>4. TryPage(t) \/ WaitPage(t) \/ WaitObject(t)  BY <1>2, <1>3 DEF Next, reference, terminate, renew
<1>5. CASE TryPage(t)
  <2>1. th[t].pc = "page"  BY <1>5 DEF TryPage
  <2>2. Ready(t, pq[QueueOf(t)])  BY <1>1, <2>1, AtPage
  <2>3. QED  BY <1>1, <2>2 DEF Ready
<1>6. CASE WaitPage(t) \/ WaitObject(t)
  <2>1. th[t].pc \in {"wait_page", "wait_object"}  BY <1>6 DEF WaitPage, WaitObject
  <2>2. TAILQ_PREV(pq[QueueOf(t)], t) = th[t].m
    <3>1. SUFFICES ASSUME TAILQ_PREV(pq[QueueOf(t)], t) # th[t].m PROVE FALSE  OBVIOUS
    <3>2. Moved(t, pq[QueueOf(t)])  BY <1>6, <3>1, Zenon DEF WaitPage, WaitObject
    <3>3. PICK m, left, want, skipped : th' = [th EXCEPT ![t] = Onward(m, left, want, skipped)]
      BY <3>2, Zenon DEF Moved, Walk, Onward
    <3>4. th'[t] = Onward(m, left, want, skipped)  BY <1>1, <3>3
    <3>5. QED  BY <3>4 DEF Onward, Resting
  <2>3. t = "scan" => Before(pq[QueueOf(t)], th[t].m) \cap Page \subseteq th[t].skipped  BY <1>1, <2>1, <2>2, AtMarker
  <2>4. QED  BY <1>1, <2>3
<1>7. QED  BY <1>4, <1>5, <1>6

\* The scan takes a page only if it has left every page before it where it was because
\* that one was busy or held, whatever was moved while it had given up its locks.
THEOREM ScanStaysFIFO == Spec => ScanTakesTheOldest
<1> DEFINE A == \A p \in Page :
                  th["scan"].m = p /\ th["scan"].pc # "work" /\ th'["scan"].pc = "work" =>
                      \A i \in 1 .. Place(pq["INACTIVE"], p) - 1 : pq["INACTIVE"][i] \in Page =>
                          pq["INACTIVE"][i] \in th["scan"].skipped
<1>1. ASSUME IInv, [Next]_vars PROVE [A]_vars
  <2>1. SUFFICES ASSUME Next, NEW p \in Page, th["scan"].m = p, th["scan"].pc # "work", th'["scan"].pc = "work",
                        NEW i \in 1 .. Place(pq["INACTIVE"], p) - 1, pq["INACTIVE"][i] \in Page
                 PROVE  pq["INACTIVE"][i] \in th["scan"].skipped
    BY <1>1, Zenon DEF vars
  <2>2. Before(pq["INACTIVE"], p) \cap Page \subseteq th["scan"].skipped  BY <1>1, <2>1, TakesFrom
  <2>3. pq["INACTIVE"][i] \in Before(pq["INACTIVE"], p)  BY Zenon DEF Before
  <2>4. QED  BY <2>1, <2>2, <2>3
<1>2. QED  BY <1>1, InvariantHolds, PTL DEF Spec, ScanTakesTheOldest
=============================================================================
