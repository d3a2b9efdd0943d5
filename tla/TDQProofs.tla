----------------------------- MODULE TDQProofs -----------------------------
(***************************************************************************)
(* Proofs about the thread queue of one CPU, for any threads, priorities,  *)
(* number of queues and slices.                                            *)
(***************************************************************************)
EXTENDS TDQ, FiniteSetTheorems, WellFoundedInduction, TLAPS

-----------------------------------------------------------------------------
(* The inductive invariant.  The operations of TDQ build a new tdq from an *)
(* old one, often several in a row, so most of it is stated of any tdq q.  *)

\* The queues, the status bits and the threads' own fields agree; on is the set of the
\* queued threads.
Agree(queue, status, where, on) ==
    /\ \A rq \in RunQ, i \in Slot :
          /\ i \in status[rq] <=> queue[rq][i] # <<>>
          /\ \A k \in 1 .. Len(queue[rq][i]) : where[queue[rq][i][k]] = <<rq, i>>
          /\ \A j, k \in 1 .. Len(queue[rq][i]) : queue[rq][i][j] = queue[rq][i][k] => j = k
    /\ \A td \in on :
          \E k \in 1 .. Len(queue[where[td][1]][where[td][2]]) : queue[where[td][1]][where[td][2]][k] = td
Matched(q) == q \in Tdq /\ Agree(q.queue, q.status, q.where, Queued(q))

Transfers(q) == q.transferable = Cardinality(q.xfer) /\ q.xfer \subseteq Queued(q)

Drains(q) ==
    q.idx # q.ridx => q.idx = (q.ridx + 1) % RQ_NQS /\ q.queue["timeshare"][q.ridx] # <<>>

Sound(q) == Matched(q) /\ Transfers(q) /\ Drains(q)

\* The class of a queued thread, with the priorities pr.
ClassOf(td, w, pr) ==
    /\ w[1] \in {"timeshare", "lottery"} => pr[td] >= PRI_MIN_BATCH
    /\ w[1] = "idle" => pr[td] >= PRI_MIN_IDLE
    /\ w[1] = "timeshare" => isRoot(td)
    /\ w[1] = "lottery" => ~isRoot(td) /\ w[2] = 0
Classed(q, pr) == \A td \in Queued(q) : ClassOf(td, q.where[td], pr)

\* The load, when the threads in R run.
Loaded(q, R) == q.load = Cardinality(Queued(q) \cup R)

\* Everything about the tdq q of a CPU that runs c, with the priorities pr.
Whole(q, pr, c) ==
    /\ Sound(q) /\ Classed(q, pr) /\ Loaded(q, {c} \ {NoThread}) /\ c \notin Queued(q)
    /\ q.lowpri <= IF c = NoThread THEN PRI_MAX_IDLE ELSE pr[c]

\* The rest of TypeOK.
Typed ==
    /\ cur \in Thread \cup {NoThread}
    /\ {need, sliceend, owe, panic} \subseteq BOOLEAN
    /\ pinned \subseteq Thread
    /\ pri \in [Thread -> Prio] /\ nice \in [Thread \ Root -> Nice] /\ slice \in [Thread -> Nat]

IInv == Typed /\ Whole(tdq, pri, cur)

\* The thread that runs, if it is not the idle thread.
Running == {cur} \ {NoThread}

-----------------------------------------------------------------------------
(* Numbers and sequences.                                                  *)

\* A non-empty set of natural numbers has a least one.
LEMMA LeastExists == ASSUME NEW S \in SUBSET Nat, S # {} PROVE \E m \in S : \A x \in S : m <= x
<1>1. PICK m \in S : \A x \in S : ~(<<x, m>> \in OpToRel(<, Nat))
  BY NatLessThanWellFounded, WFMin
<1>2. \A x \in S : ~(x < m)  BY <1>1 DEF OpToRel
<1>3. QED  BY <1>2

\* A sequence of sequences over T, one after the other, is a sequence over T; by the least
\* prefix for which it would not be.
LEMMA Flattened ==
    ASSUME NEW T, NEW n \in Nat, NEW ss \in [1 .. n -> Seq(T)]
    PROVE  FlattenSeq(ss) \in Seq(T)
<1> DEFINE Eq(f) == f = [i \in 1 .. Len(ss) |-> IF i = 1 THEN ss[i] ELSE f[i-1] \o ss[i]]
           P(m) == \E f \in [1 .. m -> Seq(T)] : \A i \in 1 .. m : f[i] = IF i = 1 THEN ss[i] ELSE f[i-1] \o ss[i]
           B == {m \in 0 .. n : ~P(m)}
<1>1. Len(ss) = n /\ ss \in Seq(Seq(T))  OBVIOUS
<1>2. B = {}
  <2> SUFFICES ASSUME B # {} PROVE FALSE  OBVIOUS
  <2> HIDE DEF P
  <2>0. B \in SUBSET Nat  OBVIOUS
  <2> HIDE DEF B
  <2>1. PICK m \in B : \A x \in B : m <= x  BY <2>0, LeastExists
  <2>2. m # 0
    <3>1. <<>> \in [1 .. 0 -> Seq(T)]  OBVIOUS
    <3>2. \A i \in 1 .. 0 : FALSE  OBVIOUS
    <3>3. P(0)  BY <3>1, <3>2 DEF P
    <3>4. QED  BY <3>3 DEF B
  <2>3. m - 1 \in 0 .. n /\ m - 1 \notin B /\ m \in 1 .. n
    <3>1. m \in 0 .. n  BY DEF B
    <3>2. m - 1 \in 0 .. n /\ m \in 1 .. n /\ ~(m <= m - 1)  BY <2>2, <3>1
    <3>3. QED  BY <2>1, <3>2
  <2>4. P(m - 1)  BY <2>3 DEF B
  <2>5. PICK f \in [1 .. m - 1 -> Seq(T)] : \A i \in 1 .. m - 1 : f[i] = IF i = 1 THEN ss[i] ELSE f[i-1] \o ss[i]
    BY <2>4 DEF P
  <2> DEFINE g == [i \in 1 .. m |-> IF i < m THEN f[i] ELSE IF m = 1 THEN ss[m] ELSE f[m-1] \o ss[m]]
  <2>6. g \in [1 .. m -> Seq(T)]
    <3>1. ASSUME NEW i \in 1 .. m PROVE g[i] \in Seq(T)
      <4>1. CASE i < m
        <5>1. i \in 1 .. m - 1  BY <2>3, <4>1
        <5>2. QED  BY <4>1, <5>1
      <4>2. CASE i = m /\ m = 1  BY <2>3, <4>2
      <4>3. CASE i = m /\ m # 1
        <5>1. f[m-1] \in Seq(T) /\ ss[m] \in Seq(T)  BY <2>3, <4>3
        <5>2. QED  BY <4>3, <5>1
      <4>4. QED  BY <2>3, <4>1, <4>2, <4>3
    <3>2. QED  BY <3>1
  <2>7. ASSUME NEW i \in 1 .. m PROVE g[i] = IF i = 1 THEN ss[i] ELSE g[i-1] \o ss[i]
    <3>1. CASE i < m
      <4>0. i \in 1 .. m - 1  BY <2>3, <3>1
      <4>1. g[i] = f[i] /\ f[i] = IF i = 1 THEN ss[i] ELSE f[i-1] \o ss[i]
        <5>1. g[i] = f[i]  BY <3>1
        <5>2. f[i] = IF i = 1 THEN ss[i] ELSE f[i-1] \o ss[i]  BY <2>5, <4>0, Zenon
        <5>3. QED  BY <5>1, <5>2, Zenon
      <4>2. i # 1 => i - 1 \in 1 .. m - 1 /\ g[i-1] = f[i-1]  BY <2>3, <3>1
      <4>3. QED  BY <4>0, <4>1, <4>2
    <3>2. CASE i = m  BY <2>3, <2>5, <3>2
    <3>3. QED  BY <2>3, <3>1, <3>2
  <2> HIDE DEF g
  <2>8. P(m)  BY <2>6, <2>7 DEF P
  <2>9. QED  BY <2>8 DEF B
<1>3. P(n)
  <2>1. n \in 0 .. n  OBVIOUS
  <2>2. QED  BY <1>2, <2>1, Zenon
<1>4. PICK f \in [1 .. n -> Seq(T)] : Eq(f)  BY <1>1, <1>3
<1> DEFINE h == CHOOSE e : Eq(e)
<1>5. Eq(h)  BY <1>4
<1>6. CASE n = 0
  <2>1. FlattenSeq(ss) = ss BY <1>1, <1>6 DEF FlattenSeq
  <2>2. QED  BY <1>1, <1>6, <2>1
<1>7. CASE n # 0
  <2>1. FlattenSeq(ss) = h[n]  BY <1>1, <1>7, Zenon DEF FlattenSeq
  <2>2. \A i \in 1 .. n : h[i] = IF i = 1 THEN ss[i] ELSE h[i-1] \o ss[i]  BY <1>1, <1>5
  <2> HIDE DEF h
  <2> DEFINE C == {i \in 1 .. n : h[i] \notin Seq(T)}
  <2>3. C = {}
    <3> SUFFICES ASSUME C # {} PROVE FALSE  OBVIOUS
    <3>0. C \in SUBSET Nat  OBVIOUS
    <3>1. PICK m \in C : \A x \in C : m <= x  BY <3>0, LeastExists
    <3>2. CASE m = 1  BY <2>2, <3>2
    <3>3. CASE m # 1
      <4>1. m - 1 \in 1 .. n /\ m - 1 \notin C  BY <3>1, <3>3
      <4>2. h[m-1] \in Seq(T) /\ ss[m] \in Seq(T)  BY <4>1
      <4>3. h[m] = h[m-1] \o ss[m]  BY <2>2, <3>3
      <4>4. h[m-1] \o ss[m] \in Seq(T)  BY <4>2
      <4>5. QED  BY <4>3, <4>4
    <3>4. QED  BY <3>2, <3>3
  <2>4. n \in 1 .. n  BY <1>7
  <2>5. h[n] \in Seq(T)  BY <2>3, <2>4
  <2>6. QED  BY <2>1, <2>5
<1>8. QED  BY <1>6, <1>7

\* The least of a set of numbers is one of them.
LEMMA MinIn == ASSUME NEW S \in SUBSET Nat, S # {} PROVE Min(S) \in S
<1>1. \E m \in S : \A x \in S : m <= x  BY LeastExists
<1>2. QED  BY <1>1, Zenon DEF Min

\* TAILQ_REMOVE takes one thread off a queue and leaves the others, once each.
Distinct(s) == \A j, k \in 1 .. Len(s) : s[j] = s[k] => j = k
OneLess(s, m, w) ==
    /\ w \in Seq(Thread) /\ Len(w) = Len(s) - 1 /\ Distinct(w)
    /\ \A j \in 1 .. Len(w) : w[j] # s[m] /\ \E k \in 1 .. Len(s) : w[j] = s[k]
    /\ \A k \in 1 .. Len(s) : k # m => \E j \in 1 .. Len(w) : w[j] = s[k]

\* The place of the thread in the queue is the only one where it is.
LEMMA WithoutIs ==
    ASSUME NEW s \in Seq(Thread), NEW m \in 1 .. Len(s), Distinct(s)
    PROVE  OneLess(s, m, Without(s, s[m]))
<1> USE DEF Distinct
<1> DEFINE w == [j \in 1 .. Len(s) - 1 |-> IF j < m THEN s[j] ELSE s[j + 1]]
<1>1. Without(s, s[m]) = w
  <2>1. \E k \in DOMAIN s : s[k] = s[m]  OBVIOUS
  <2>2. (CHOOSE k \in DOMAIN s : s[k] = s[m]) = m
    <3> DEFINE c == CHOOSE k \in DOMAIN s : s[k] = s[m]
    <3>1. c \in DOMAIN s /\ s[c] = s[m]  BY <2>1, Zenon
    <3> HIDE DEF c
    <3>2. c = m  BY <3>1
    <3>3. QED  BY <3>2 DEF c
  <2>3. QED  BY <2>2, Zenon DEF Without
<1>2. Len(s) \in Nat /\ Len(s) - 1 \in Nat  OBVIOUS
<1>3. \A j \in 1 .. Len(s) - 1 :
          /\ j \in 1 .. Len(s) /\ j + 1 \in 1 .. Len(s)
          /\ w[j] = IF j < m THEN s[j] ELSE s[j + 1]
  BY <1>2
<1>4. w \in Seq(Thread) /\ Len(w) = Len(s) - 1
  <2>1. \A j \in 1 .. Len(s) - 1 : w[j] \in Thread  BY <1>3
  <2>2. w \in [1 .. Len(s) - 1 -> Thread]  BY <2>1
  <2>3. QED  BY <1>2, <2>2
<1> HIDE DEF w
<1>5. \A j \in 1 .. Len(w) : w[j] # s[m] /\ \E k \in 1 .. Len(s) : w[j] = s[k]  BY <1>3, <1>4
<1>6. ASSUME NEW k \in 1 .. Len(s), k # m PROVE \E j \in 1 .. Len(w) : w[j] = s[k]
  <2>1. CASE k < m
    <3>1. k \in 1 .. Len(w) /\ w[k] = s[k]  BY <1>2, <1>3, <1>4, <2>1
    <3>2. QED  BY <3>1
  <2>2. CASE k > m
    <3>1. k - 1 \in 1 .. Len(w) /\ w[k - 1] = s[k]  BY <1>2, <1>3, <1>4, <2>2
    <3>2. QED  BY <3>1
  <2>3. QED  BY <1>6, <2>1, <2>2
<1>7. \A j, k \in 1 .. Len(w) : w[j] = w[k] => j = k  BY <1>3, <1>4
<1>8. QED  BY <1>1, <1>4, <1>5, <1>6, <1>7 DEF OneLess

\* The queue numbers that the code computes are queues.
LEMMA ModSlot == ASSUME NEW a \in Int PROVE a % RQ_NQS \in Slot
  BY TDQAssumption DEF Slot

\* A priority has a queue: the last one's is below RQ_NQS.
LEMMA PrioSlot == ASSUME NEW p \in Prio PROVE p \div RQ_PPQ \in Slot
<1>1. p \in Nat /\ p <= PRI_MAX_IDLE /\ PRI_MAX_IDLE \in Nat  BY TDQAssumption
<1>2. RQ_PPQ \in Nat /\ RQ_PPQ > 0  BY TDQAssumption
<1>3. p \div RQ_PPQ <= PRI_MAX_IDLE \div RQ_PPQ /\ p \div RQ_PPQ \in Nat  BY <1>1, <1>2
<1>4. QED  BY <1>3, TDQAssumption DEF Slot

\* The slot of the calendar, whatever the flags.
LEMMA TimeshareSlotIn ==
    ASSUME NEW q \in Tdq, NEW p \in Prio, NEW flags, p >= PRI_MIN_BATCH, p <= PRI_MAX_BATCH
    PROVE  TimeshareSlot(q, p, flags) \in Slot
<1> DEFINE x == (RQ_NQS * (p - PRI_MIN_BATCH)) \div (PRI_MAX_BATCH - PRI_MIN_BATCH + 1)
<1>1. PRI_MAX_BATCH - PRI_MIN_BATCH + 1 \in Nat \ {0} /\ p \in Nat  BY TDQAssumption
<1>2. RQ_NQS * (p - PRI_MIN_BATCH) \in Int  BY <1>1, TDQAssumption
<1>3. x \in Int  BY <1>1, <1>2
<1> HIDE DEF x
<1>4. q.idx \in Int /\ q.ridx \in Slot /\ x + q.idx \in Int  BY <1>3, TDQAssumption DEF Tdq, Slot
<1>5. (x + q.idx) % RQ_NQS \in Slot /\ (x + q.idx) % RQ_NQS \in Int
  <2>1. (x + q.idx) % RQ_NQS \in Slot  BY <1>4, ModSlot
  <2>2. Slot \subseteq Int  BY TDQAssumption DEF Slot
  <2>3. QED  BY <2>1, <2>2
<1>6. ((((x + q.idx) % RQ_NQS) + 255) % 256) \in Int  BY <1>5
<1>7. ((((x + q.idx) % RQ_NQS) + 255) % 256) % RQ_NQS \in Slot  BY <1>6, ModSlot
<1>8. QED  BY <1>4, <1>5, <1>7, Zenon DEF TimeshareSlot, x

-----------------------------------------------------------------------------
(* kern_switch.c                                                           *)

\* What a tdq of the right type has.
LEMMA TdqHas ==
    ASSUME NEW q \in Tdq
    PROVE  /\ q.queue \in [RunQ -> [Slot -> Seq(Thread)]] /\ q.status \in [RunQ -> SUBSET Slot]
           /\ q.idx \in Slot /\ q.ridx \in Slot /\ q.load \in Nat /\ q.transferable \in Nat
           /\ q.lowpri \in 0 .. PRI_MAX_IDLE
           /\ q.where \in [Thread -> (RunQ \X Slot) \cup {NotQueued}] /\ q.xfer \in SUBSET Thread
  BY DEF Tdq

\* A queued thread is on a queue that exists.
LEMMA WhereHas ==
    ASSUME NEW q \in Tdq, NEW td \in Queued(q)
    PROVE  /\ td \in Thread /\ q.where[td][1] \in RunQ /\ q.where[td][2] \in Slot
           /\ q.where[td] = <<q.where[td][1], q.where[td][2]>>
<1>1. td \in Thread /\ q.where[td] # NotQueued  BY DEF Queued
<1>2. q.where[td] \in RunQ \X Slot  BY <1>1, TdqHas
<1>3. QED  BY <1>1, <1>2

\* A queue is not NotQueued.
LEMMA PlaceIsSome == \A rq, i : <<rq, i>> # NotQueued
  BY DEF NotQueued

\* A thread on a queue is one of Queued.
LEMMA MemberQueued ==
    ASSUME NEW q, Matched(q), NEW rq \in RunQ, NEW i \in Slot, NEW k \in 1 .. Len(q.queue[rq][i])
    PROVE  q.queue[rq][i][k] \in Queued(q) /\ q.where[q.queue[rq][i][k]] = <<rq, i>>
<1>1. q.queue[rq][i] \in Seq(Thread)  BY TdqHas DEF Matched, Agree
<1>2. q.queue[rq][i][k] \in Thread  BY <1>1
<1>3. q.where[q.queue[rq][i][k]] = <<rq, i>>  BY DEF Matched, Agree
<1>4. QED  BY <1>2, <1>3, PlaceIsSome DEF Queued

\* Adding a thread to a queue: what becomes of the fields.
AddedTo(q, rq, i, td, atHead, r) ==
    LET s == IF atHead THEN <<td>> \o q.queue[rq][i] ELSE Append(q.queue[rq][i], td)
    IN  /\ r \in Tdq
        /\ \A x \in RunQ, j \in Slot :
              /\ r.queue[x][j] = IF x = rq /\ j = i THEN s ELSE q.queue[x][j]
              /\ j \in r.status[x] <=> j \in q.status[x] \/ (x = rq /\ j = i)
        /\ \A x \in Thread : r.where[x] = IF x = td THEN <<rq, i>> ELSE q.where[x]
        /\ r.idx = q.idx /\ r.ridx = q.ridx /\ r.load = q.load /\ r.lowpri = q.lowpri
        /\ r.transferable = q.transferable /\ r.xfer = q.xfer

\* It is what runq_add does.
LEMMA runq_addIs ==
    ASSUME NEW q \in Tdq, NEW rq \in RunQ, NEW i \in Slot, NEW td \in Thread, NEW atHead \in BOOLEAN
    PROVE  AddedTo(q, rq, i, td, atHead, runq_add(q, rq, i, td, atHead))
<1> DEFINE s == IF atHead THEN <<td>> \o q.queue[rq][i] ELSE Append(q.queue[rq][i], td)
           r == runq_add(q, rq, i, td, atHead)
<1>1. /\ q.queue \in [RunQ -> [Slot -> Seq(Thread)]] /\ q.status \in [RunQ -> SUBSET Slot]
      /\ q.where \in [Thread -> (RunQ \X Slot) \cup {NotQueued}]
  BY TdqHas
<1>2. s \in Seq(Thread)
  <2>1. q.queue[rq][i] \in Seq(Thread)  BY <1>1
  <2>2. <<td>> \o q.queue[rq][i] \in Seq(Thread)  BY <2>1
  <2>3. Append(q.queue[rq][i], td) \in Seq(Thread)  BY <2>1
  <2>4. QED  BY <2>2, <2>3
<1>3. r = [q EXCEPT !.status = [q.status EXCEPT ![rq] = q.status[rq] \cup {i}],
                    !.queue = [q.queue EXCEPT ![rq] = [q.queue[rq] EXCEPT ![i] = s]],
                    !.where = [q.where EXCEPT ![td] = <<rq, i>>]]
  BY DEF runq_add, Tdq
<1> HIDE DEF s, r
<1>4. /\ r.status = [q.status EXCEPT ![rq] = q.status[rq] \cup {i}]
      /\ r.queue = [q.queue EXCEPT ![rq] = [q.queue[rq] EXCEPT ![i] = s]]
      /\ r.where = [q.where EXCEPT ![td] = <<rq, i>>]
      /\ r.idx = q.idx /\ r.ridx = q.ridx /\ r.load = q.load /\ r.lowpri = q.lowpri
      /\ r.transferable = q.transferable /\ r.xfer = q.xfer
  BY <1>3 DEF Tdq
<1>5. r \in Tdq
  <2>1. r.status \in [RunQ -> SUBSET Slot]  BY <1>1, <1>4
  <2>2. r.queue \in [RunQ -> [Slot -> Seq(Thread)]]  BY <1>1, <1>2, <1>4
  <2>3. r.where \in [Thread -> (RunQ \X Slot) \cup {NotQueued}]  BY <1>1, <1>4
  <2>4. QED  BY <1>3, <1>4, <2>1, <2>2, <2>3 DEF Tdq
<1>6. \A x \in RunQ, j \in Slot :
         /\ r.queue[x][j] = IF x = rq /\ j = i THEN s ELSE q.queue[x][j]
         /\ j \in r.status[x] <=> j \in q.status[x] \/ (x = rq /\ j = i)
  BY <1>1, <1>4
<1>7. \A x \in Thread : r.where[x] = IF x = td THEN <<rq, i>> ELSE q.where[x]  BY <1>1, <1>4
<1>8. QED  BY <1>4, <1>5, <1>6, <1>7 DEF AddedTo, s, r

\* A thread that was on no queue is then on that one, once, and the others stay.
LEMMA runq_addKeeps ==
    ASSUME NEW q, Matched(q), NEW rq \in RunQ, NEW i \in Slot, NEW td \in Thread \ Queued(q), NEW atHead \in BOOLEAN
    PROVE  LET r == runq_add(q, rq, i, td, atHead)
           IN  Matched(r) /\ Queued(r) = Queued(q) \cup {td}
<1> DEFINE s == IF atHead THEN <<td>> \o q.queue[rq][i] ELSE Append(q.queue[rq][i], td)
           o == q.queue[rq][i]
           r == runq_add(q, rq, i, td, atHead)
<1>1. /\ r \in Tdq /\ q \in Tdq
      /\ \A x \in RunQ, j \in Slot :
            /\ r.queue[x][j] = IF x = rq /\ j = i THEN s ELSE q.queue[x][j]
            /\ j \in r.status[x] <=> j \in q.status[x] \/ (x = rq /\ j = i)
      /\ \A x \in Thread : r.where[x] = IF x = td THEN <<rq, i>> ELSE q.where[x]
  <2>1. q \in Tdq  BY DEF Matched
  <2>2. AddedTo(q, rq, i, td, atHead, r)  BY <2>1, runq_addIs
  <2> HIDE DEF r
  <2>3. QED  BY <2>1, <2>2 DEF AddedTo
<1> HIDE DEF r
<1>2. o \in Seq(Thread)  BY <1>1, TdqHas
<1>3. /\ s # <<>> /\ Len(s) = Len(o) + 1
      /\ \E k \in 1 .. Len(s) : s[k] = td
      /\ \A k \in 1 .. Len(o) : \E j \in 1 .. Len(s) : s[j] = o[k]
      /\ \A k \in 1 .. Len(s) : s[k] = td \/ \E j \in 1 .. Len(o) : s[k] = o[j]
      /\ (\A k \in 1 .. Len(o) : o[k] # td) /\ (\A j, k \in 1 .. Len(o) : o[j] = o[k] => j = k)
           => \A j, k \in 1 .. Len(s) : s[j] = s[k] => j = k
  <2> HIDE DEF o
  <2>1. CASE atHead
    <3> DEFINE h == <<td>> \o o
    <3>1. h \in Seq(Thread) /\ Len(h) = Len(o) + 1 /\ h[1] = td /\ \A k \in 1 .. Len(o) : h[k + 1] = o[k]
      BY <1>2
    <3>2. s = h  BY <2>1 DEF o
    <3> HIDE DEF h, s
    <3>3. \A k \in 1 .. Len(s) : k = 1 \/ (k - 1 \in 1 .. Len(o) /\ s[k] = o[k - 1])
      <4> SUFFICES ASSUME NEW k \in 1 .. Len(s), k # 1 PROVE k - 1 \in 1 .. Len(o) /\ s[k] = o[k - 1]  OBVIOUS
      <4>1. k - 1 \in 1 .. Len(o) /\ k - 1 + 1 = k  BY <1>2, <3>1, <3>2
      <4>2. QED  BY <3>1, <3>2, <4>1
    <3>4. 1 \in 1 .. Len(s) /\ \A k \in 1 .. Len(o) : k + 1 \in 1 .. Len(s) /\ s[k + 1] = o[k]  BY <1>2, <3>1, <3>2
    <3>5. s # <<>> /\ Len(s) = Len(o) + 1 /\ s[1] = td /\ Len(o) \in Nat  BY <1>2, <3>1, <3>2
    <3>6. \A k \in 1 .. Len(s) : s[k] = td \/ \E j \in 1 .. Len(o) : s[k] = o[j]  BY <3>3, <3>5
    <3>7. ASSUME \A k \in 1 .. Len(o) : o[k] # td, \A j, k \in 1 .. Len(o) : o[j] = o[k] => j = k,
                 NEW j \in 1 .. Len(s), NEW k \in 1 .. Len(s), s[j] = s[k]
          PROVE  j = k
      <4>1. CASE j = 1 \/ k = 1  BY <3>3, <3>5, <3>7, <4>1
      <4>2. CASE j # 1 /\ k # 1
        <5>1. j - 1 \in 1 .. Len(o) /\ k - 1 \in 1 .. Len(o) /\ o[j - 1] = o[k - 1]  BY <3>3, <3>7, <4>2
        <5>2. j - 1 = k - 1  BY <3>7, <5>1
        <5>3. QED  BY <5>2
      <4>3. QED  BY <4>1, <4>2
    <3>8. QED  BY <3>4, <3>5, <3>6, <3>7
  <2>2. CASE ~atHead
    <3>1. s = Append(o, td)  BY <2>2 DEF o
    <3> HIDE DEF s
    <3>2. s \in Seq(Thread) /\ Len(s) = Len(o) + 1 /\ s[Len(o) + 1] = td /\ \A k \in 1 .. Len(o) : s[k] = o[k]
      BY <1>2, <3>1
    <3>3. Len(o) + 1 \in 1 .. Len(s) /\ \A k \in 1 .. Len(o) : k \in 1 .. Len(s)  BY <1>2, <3>2
    <3>4. \A k \in 1 .. Len(s) : k = Len(o) + 1 \/ k \in 1 .. Len(o)  BY <1>2, <3>2
    <3>5. QED  BY <1>2, <3>2, <3>3, <3>4
  <2>3. QED  BY <2>1, <2>2
<1>4. \A k \in 1 .. Len(o) : o[k] # td /\ q.where[o[k]] = <<rq, i>> /\ o[k] \in Thread
  <2>1. \A k \in 1 .. Len(o) : o[k] \in Queued(q) /\ q.where[o[k]] = <<rq, i>>  BY MemberQueued
  <2>2. QED  BY <2>1 DEF Queued
<1>5. Queued(r) = Queued(q) \cup {td}  BY <1>1, PlaceIsSome DEF Queued
<1> HIDE DEF s, o
<1>6. ASSUME NEW x \in RunQ, NEW j \in Slot
      PROVE  /\ j \in r.status[x] <=> r.queue[x][j] # <<>>
             /\ \A k \in 1 .. Len(r.queue[x][j]) : r.where[r.queue[x][j][k]] = <<x, j>>
             /\ \A l, k \in 1 .. Len(r.queue[x][j]) : r.queue[x][j][l] = r.queue[x][j][k] => l = k
  <2>1. CASE x = rq /\ j = i
    <3>1. r.queue[x][j] = s /\ j \in r.status[x]  BY <1>1, <2>1
    <3>2. \A l, k \in 1 .. Len(o) : o[l] = o[k] => l = k  BY DEF Matched, Agree, o
    <3>3. \A l, k \in 1 .. Len(s) : s[l] = s[k] => l = k  BY <1>3, <1>4, <3>2
    <3>4. ASSUME NEW k \in 1 .. Len(s) PROVE r.where[s[k]] = <<rq, i>>
      <4>1. CASE s[k] = td  BY <1>1, <4>1
      <4>2. CASE s[k] # td
        <5>1. PICK l \in 1 .. Len(o) : s[k] = o[l]  BY <1>3, <4>2
        <5>2. s[k] \in Thread /\ q.where[s[k]] = <<rq, i>>  BY <1>4, <5>1
        <5>3. QED  BY <1>1, <4>2, <5>2
      <4>3. QED  BY <4>1, <4>2
    <3>5. s # <<>>  BY <1>3
    <3>6. j \in r.status[x] <=> r.queue[x][j] # <<>>  BY <3>1, <3>5
    <3>7. \A k \in 1 .. Len(r.queue[x][j]) : r.where[r.queue[x][j][k]] = <<x, j>>  BY <2>1, <3>1, <3>4
    <3>8. QED  BY <3>1, <3>3, <3>6, <3>7
  <2>2. CASE ~(x = rq /\ j = i)
    <3>1. r.queue[x][j] = q.queue[x][j] /\ (j \in r.status[x] <=> j \in q.status[x])  BY <1>1, <2>2
    <3>2. ASSUME NEW k \in 1 .. Len(q.queue[x][j]) PROVE r.where[q.queue[x][j][k]] = <<x, j>>
      <4>1. q.queue[x][j][k] \in Queued(q) /\ q.where[q.queue[x][j][k]] = <<x, j>>  BY MemberQueued
      <4>2. q.queue[x][j][k] \in Thread \ {td}  BY <4>1 DEF Queued
      <4>3. QED  BY <1>1, <4>1, <4>2
    <3>3. /\ j \in q.status[x] <=> q.queue[x][j] # <<>>
          /\ \A l, k \in 1 .. Len(q.queue[x][j]) : q.queue[x][j][l] = q.queue[x][j][k] => l = k
      BY SMTT(30) DEF Matched, Agree
    <3>4. QED  BY <3>1, <3>2, <3>3
  <2>3. QED  BY <2>1, <2>2
<1>7. ASSUME NEW x \in Queued(r)
      PROVE  \E k \in 1 .. Len(r.queue[r.where[x][1]][r.where[x][2]]) : r.queue[r.where[x][1]][r.where[x][2]][k] = x
  <2>1. CASE x = td
    <3>1. r.where[x][1] = rq /\ r.where[x][2] = i  BY <1>1, <2>1
    <3>2. QED  BY <1>1, <1>3, <2>1, <3>1
  <2>2. CASE x # td
    <3>1. x \in Queued(q) /\ r.where[x] = q.where[x]  BY <1>1, <1>5, <2>2 DEF Queued
    <3>2. q.where[x][1] \in RunQ /\ q.where[x][2] \in Slot  BY <1>1, <3>1, WhereHas
    <3>3. PICK k \in 1 .. Len(q.queue[q.where[x][1]][q.where[x][2]]) : q.queue[q.where[x][1]][q.where[x][2]][k] = x
      BY <3>1 DEF Matched, Agree
    <3>4. CASE q.where[x][1] = rq /\ q.where[x][2] = i
      <4>1. r.queue[rq][i] = s  BY <1>1
      <4>2. k \in 1 .. Len(o) /\ o[k] = x  BY <3>3, <3>4 DEF o
      <4>3. \E l \in 1 .. Len(s) : s[l] = x  BY <1>3, <4>2
      <4>4. QED  BY <3>1, <3>4, <4>1, <4>3, Zenon
    <3>5. CASE ~(q.where[x][1] = rq /\ q.where[x][2] = i)
      <4>1. r.queue[q.where[x][1]][q.where[x][2]] = q.queue[q.where[x][1]][q.where[x][2]]  BY <1>1, <3>2, <3>5
      <4>2. QED  BY <3>1, <3>3, <4>1, Zenon
    <3>6. QED  BY <3>4, <3>5
  <2>3. QED  BY <2>1, <2>2
<1>8. Matched(r)  BY <1>1, <1>6, <1>7, Zenon DEF Matched, Agree
<1>9. QED  BY <1>5, <1>8 DEF r

\* Taking a queued thread off its queue: what becomes of the fields.
RemovedFrom(q, td, rotate, r) ==
    LET rq == q.where[td][1]
        i  == q.where[td][2]
        s  == Without(q.queue[rq][i], td)
    IN  /\ r \in Tdq
        /\ \A x \in RunQ, j \in Slot :
              /\ r.queue[x][j] = IF x = rq /\ j = i THEN s ELSE q.queue[x][j]
              /\ j \in r.status[x] <=> j \in q.status[x] /\ ~(x = rq /\ j = i /\ s = <<>>)
        /\ \A x \in Thread : r.where[x] = IF x = td THEN NotQueued ELSE q.where[x]
        /\ r.ridx = IF rotate /\ s = <<>> /\ q.ridx = i THEN (i + 1) % RQ_NQS ELSE q.ridx
        /\ r.idx = q.idx /\ r.load = q.load /\ r.lowpri = q.lowpri
        /\ r.transferable = q.transferable /\ r.xfer = q.xfer

\* It is what runq_remove_idx does.
LEMMA runq_remove_idxIs ==
    ASSUME NEW q, Matched(q), NEW td \in Queued(q), NEW rotate \in BOOLEAN
    PROVE  RemovedFrom(q, td, rotate, runq_remove_idx(q, td, rotate))
<1> DEFINE rq == q.where[td][1]
           i  == q.where[td][2]
           s  == Without(q.queue[rq][i], td)
           st == IF s = <<>> THEN q.status[rq] \ {i} ELSE q.status[rq]
           ri == IF rotate /\ s = <<>> /\ q.ridx = i THEN (i + 1) % RQ_NQS ELSE q.ridx
           r  == runq_remove_idx(q, td, rotate)
<1>1. /\ q \in Tdq /\ td \in Thread /\ rq \in RunQ /\ i \in Slot
      /\ q.queue \in [RunQ -> [Slot -> Seq(Thread)]] /\ q.status \in [RunQ -> SUBSET Slot]
      /\ q.where \in [Thread -> (RunQ \X Slot) \cup {NotQueued}] /\ q.ridx \in Slot
  BY WhereHas, TdqHas DEF Matched, Agree
<1>2. r = [q EXCEPT !.queue = [q.queue EXCEPT ![rq] = [q.queue[rq] EXCEPT ![i] = s]],
                    !.status = [q.status EXCEPT ![rq] = st],
                    !.ridx = ri,
                    !.where = [q.where EXCEPT ![td] = NotQueued]]
  BY <1>1 DEF runq_remove_idx, Tdq
<1>3. s \in Seq(Thread)
  <2> HIDE DEF rq, i
  <2>1. q.queue[rq][i] \in Seq(Thread)  BY <1>1
  <2>2. PICK m \in 1 .. Len(q.queue[rq][i]) : q.queue[rq][i][m] = td  BY DEF Matched, Agree, rq, i
  <2>3. Distinct(q.queue[rq][i])  BY <1>1 DEF Matched, Agree, Distinct
  <2>4. OneLess(q.queue[rq][i], m, Without(q.queue[rq][i], q.queue[rq][i][m]))  BY <2>1, <2>3, WithoutIs
  <2>5. QED  BY <2>2, <2>4 DEF OneLess
<1>4. ri \in Slot
  <2>1. (i + 1) % RQ_NQS \in Slot
    <3> HIDE DEF i
    <3>1. i + 1 \in Int  BY <1>1, TDQAssumption DEF Slot
    <3>2. QED  BY <3>1, ModSlot
  <2>2. QED  BY <1>1, <2>1
<1> HIDE DEF rq, i, s, ri, r
<1>5. st \in SUBSET Slot /\ \A j \in Slot : j \in st <=> j \in q.status[rq] /\ ~(j = i /\ s = <<>>)  BY <1>1
<1> HIDE DEF st
<1>6. /\ r.status = [q.status EXCEPT ![rq] = st]
      /\ r.queue = [q.queue EXCEPT ![rq] = [q.queue[rq] EXCEPT ![i] = s]]
      /\ r.where = [q.where EXCEPT ![td] = NotQueued] /\ r.ridx = ri
      /\ r.idx = q.idx /\ r.load = q.load /\ r.lowpri = q.lowpri
      /\ r.transferable = q.transferable /\ r.xfer = q.xfer
  BY <1>1, <1>2 DEF Tdq
<1>7. r \in Tdq
  <2>1. r.status \in [RunQ -> SUBSET Slot]  BY <1>1, <1>5, <1>6
  <2>2. r.queue \in [RunQ -> [Slot -> Seq(Thread)]]  BY <1>1, <1>3, <1>6
  <2>3. r.where \in [Thread -> (RunQ \X Slot) \cup {NotQueued}]  BY <1>1, <1>6
  <2>4. QED  BY <1>1, <1>2, <1>4, <1>6, <2>1, <2>2, <2>3 DEF Tdq
<1>8. \A x \in RunQ, j \in Slot :
         /\ r.queue[x][j] = IF x = rq /\ j = i THEN s ELSE q.queue[x][j]
         /\ j \in r.status[x] <=> j \in q.status[x] /\ ~(x = rq /\ j = i /\ s = <<>>)
  BY <1>1, <1>5, <1>6
<1>9. \A x \in Thread : r.where[x] = IF x = td THEN NotQueued ELSE q.where[x]  BY <1>1, <1>6
<1>10. QED  BY <1>6, <1>7, <1>8, <1>9, Zenon DEF RemovedFrom, s, r, rq, i, ri

\* The thread is on no queue then, and the others stay; the calendar keeps draining.
LEMMA runq_remove_idxKeeps ==
    ASSUME NEW q, Matched(q), NEW td \in Queued(q), NEW rotate \in BOOLEAN
    PROVE  LET r == runq_remove_idx(q, td, rotate)
           IN  /\ Matched(r) /\ Queued(r) = Queued(q) \ {td}
               /\ \A x \in Queued(r) : r.where[x] = q.where[x]
<1> DEFINE rq == q.where[td][1]
           i  == q.where[td][2]
           o  == q.queue[rq][i]
           s  == Without(o, td)
           r  == runq_remove_idx(q, td, rotate)
<1>1. /\ r \in Tdq /\ q \in Tdq /\ td \in Thread /\ rq \in RunQ /\ i \in Slot
      /\ \A x \in RunQ, j \in Slot :
            /\ r.queue[x][j] = IF x = rq /\ j = i THEN s ELSE q.queue[x][j]
            /\ j \in r.status[x] <=> j \in q.status[x] /\ ~(x = rq /\ j = i /\ s = <<>>)
      /\ \A x \in Thread : r.where[x] = IF x = td THEN NotQueued ELSE q.where[x]
  <2>1. q \in Tdq /\ td \in Thread /\ rq \in RunQ /\ i \in Slot  BY WhereHas DEF Matched, Agree
  <2>2. RemovedFrom(q, td, rotate, r)  BY runq_remove_idxIs
  <2> HIDE DEF r
  <2>3. QED  BY <2>1, <2>2 DEF RemovedFrom
<1>2. /\ Queued(r) = Queued(q) \ {td}
      /\ \A x \in Queued(r) : r.where[x] = q.where[x]
  BY <1>1 DEF Queued
<1>3. PICK m \in 1 .. Len(o) : o[m] = td  BY DEF Matched, Agree
<1> HIDE DEF rq, i, r
<1>4. o \in Seq(Thread)  BY <1>1, TdqHas
<1>5. \A j, k \in 1 .. Len(o) : o[j] = o[k] => j = k  BY <1>1 DEF Matched, Agree
<1>6. \A k \in 1 .. Len(o) : q.where[o[k]] = <<rq, i>> /\ o[k] \in Thread  BY <1>1, <1>4 DEF Matched, Agree
<1> HIDE DEF o
<1>7. /\ s \in Seq(Thread)
      /\ \A j \in 1 .. Len(s) : s[j] # td /\ \E k \in 1 .. Len(o) : s[j] = o[k]
      /\ \A k \in 1 .. Len(o) : k # m => \E j \in 1 .. Len(s) : s[j] = o[k]
      /\ \A j, k \in 1 .. Len(s) : s[j] = s[k] => j = k
  <2>1. Distinct(o)  BY <1>5 DEF Distinct
  <2>2. OneLess(o, m, Without(o, o[m]))  BY <1>4, <2>1, WithoutIs
  <2>3. Without(o, o[m]) = s  BY <1>3
  <2> HIDE DEF s
  <2>4. OneLess(o, m, s)  BY <2>2, <2>3
  <2>5. QED  BY <1>3, <2>4 DEF OneLess, Distinct
<1> HIDE DEF s
<1>8. ASSUME NEW x \in RunQ, NEW j \in Slot
      PROVE  /\ j \in r.status[x] <=> r.queue[x][j] # <<>>
             /\ \A k \in 1 .. Len(r.queue[x][j]) : r.where[r.queue[x][j][k]] = <<x, j>>
             /\ \A l, k \in 1 .. Len(r.queue[x][j]) : r.queue[x][j][l] = r.queue[x][j][k] => l = k
  <2>1. CASE x = rq /\ j = i
    <3>1. r.queue[x][j] = s /\ (j \in r.status[x] <=> j \in q.status[x] /\ s # <<>>)  BY <1>1, <2>1
    <3>2. j \in q.status[x]
      <4>1. o # <<>>  BY <1>3
      <4>2. QED  BY <2>1, <4>1 DEF Matched, Agree, o
    <3>3. ASSUME NEW k \in 1 .. Len(s) PROVE r.where[s[k]] = <<rq, i>>
      <4>1. PICK l \in 1 .. Len(o) : s[k] = o[l]  BY <1>7
      <4>2. s[k] # td /\ s[k] \in Thread /\ q.where[s[k]] = <<rq, i>>  BY <1>6, <1>7, <4>1
      <4>3. QED  BY <1>1, <4>2
    <3>4. \A k \in 1 .. Len(r.queue[x][j]) : r.where[r.queue[x][j][k]] = <<x, j>>  BY <2>1, <3>1, <3>3
    <3>5. QED  BY <1>7, <3>1, <3>2, <3>4
  <2>2. CASE ~(x = rq /\ j = i)
    <3>1. r.queue[x][j] = q.queue[x][j] /\ (j \in r.status[x] <=> j \in q.status[x])  BY <1>1, <2>2
    <3>2. ASSUME NEW k \in 1 .. Len(q.queue[x][j]) PROVE r.where[q.queue[x][j][k]] = <<x, j>>
      <4>1. q.queue[x][j][k] \in Queued(q) /\ q.where[q.queue[x][j][k]] = <<x, j>>  BY MemberQueued
      <4>2. q.where[td] = <<rq, i>>  BY <1>1, WhereHas DEF rq, i
      <4>3. q.queue[x][j][k] \in Thread \ {td}  BY <2>2, <4>1, <4>2 DEF Queued
      <4>4. QED  BY <1>1, <4>1, <4>3
    <3>3. /\ j \in q.status[x] <=> q.queue[x][j] # <<>>
          /\ \A l, k \in 1 .. Len(q.queue[x][j]) : q.queue[x][j][l] = q.queue[x][j][k] => l = k
      BY SMTT(30) DEF Matched, Agree
    <3>4. QED  BY <3>1, <3>2, <3>3
  <2>3. QED  BY <2>1, <2>2
<1>9. ASSUME NEW x \in Queued(r)
      PROVE  \E k \in 1 .. Len(r.queue[r.where[x][1]][r.where[x][2]]) : r.queue[r.where[x][1]][r.where[x][2]][k] = x
  <2>1. x \in Queued(q) /\ x # td /\ r.where[x] = q.where[x]  BY <1>2
  <2>2. q.where[x][1] \in RunQ /\ q.where[x][2] \in Slot  BY <1>1, <2>1, WhereHas
  <2>3. PICK k \in 1 .. Len(q.queue[q.where[x][1]][q.where[x][2]]) : q.queue[q.where[x][1]][q.where[x][2]][k] = x
    BY <2>1 DEF Matched, Agree
  <2>4. CASE q.where[x][1] = rq /\ q.where[x][2] = i
    <3>1. r.queue[rq][i] = s  BY <1>1
    <3>2. k \in 1 .. Len(o) /\ o[k] = x /\ k # m  BY <1>3, <2>1, <2>3, <2>4 DEF o
    <3>3. \E l \in 1 .. Len(s) : s[l] = x  BY <1>7, <3>2
    <3>4. QED  BY <2>1, <2>4, <3>1, <3>3, Zenon
  <2>5. CASE ~(q.where[x][1] = rq /\ q.where[x][2] = i)
    <3>1. r.queue[q.where[x][1]][q.where[x][2]] = q.queue[q.where[x][1]][q.where[x][2]]  BY <1>1, <2>2, <2>5
    <3>2. QED  BY <2>1, <2>3, <3>1, Zenon
  <2>6. QED  BY <2>4, <2>5
<1>10. Matched(r)  BY <1>1, <1>8, <1>9, Zenon DEF Matched, Agree
<1>11. QED  BY <1>2, <1>10 DEF r

-----------------------------------------------------------------------------
(* sched_ule.c: the queues of a tdq.                                       *)

\* Only the load and lowpri differ.
SameQueues(q, r) ==
    /\ r \in Tdq /\ r.queue = q.queue /\ r.status = q.status /\ r.where = q.where
    /\ r.idx = q.idx /\ r.ridx = q.ridx /\ r.transferable = q.transferable /\ r.xfer = q.xfer

\* The queues do not depend on the load and on lowpri.
LEMMA SameQueuesKeep ==
    ASSUME NEW q, NEW r, Sound(q), SameQueues(q, r)
    PROVE  Sound(r) /\ Queued(r) = Queued(q) /\ \A pr : Classed(q, pr) => Classed(r, pr)
<1>1. Queued(r) = Queued(q)  BY DEF SameQueues, Queued
<1>2. Matched(r)  BY <1>1 DEF Sound, SameQueues, Matched
<1>3. Transfers(r) /\ Drains(r)  BY <1>1 DEF Sound, SameQueues, Transfers, Drains
<1>4. \A pr : Classed(q, pr) => Classed(r, pr)  BY <1>1, Zenon DEF SameQueues, Classed
<1>5. QED  BY <1>1, <1>2, <1>3, <1>4 DEF Sound

\* The load and lowpri of a tdq may be set to anything of their type, and so may the
\* threads that can migrate and their number.
LoadSet(q, n, r) == SameQueues(q, r) /\ r.load = n /\ r.lowpri = q.lowpri
LowpriSet(q, p, r) == SameQueues(q, r) /\ r.load = q.load /\ r.lowpri = p
TransfersSet(q, n, x, r) ==
    /\ r \in Tdq /\ r.queue = q.queue /\ r.status = q.status /\ r.where = q.where
    /\ r.idx = q.idx /\ r.ridx = q.ridx /\ r.load = q.load /\ r.lowpri = q.lowpri
    /\ r.transferable = n /\ r.xfer = x

\* Setting the load.
LEMMA SetLoad == ASSUME NEW q \in Tdq, NEW n \in Nat PROVE LoadSet(q, n, [q EXCEPT !.load = n])
  BY DEF Tdq, SameQueues, LoadSet

\* Setting lowpri.
LEMMA SetLowpri ==
    ASSUME NEW q \in Tdq, NEW p \in 0 .. PRI_MAX_IDLE PROVE LowpriSet(q, p, [q EXCEPT !.lowpri = p])
  BY DEF Tdq, SameQueues, LowpriSet

\* Setting the transferable threads.
LEMMA SetTransfers ==
    ASSUME NEW q \in Tdq, NEW n \in Nat, NEW x \in SUBSET Thread
    PROVE  TransfersSet(q, n, x, [q EXCEPT !.transferable = n, !.xfer = x])
  BY DEF Tdq, TransfersSet

\* A thread is put on the queue of its class.
LEMMA EnqueueIs ==
    ASSUME NEW q \in Tdq, NEW td \in Thread, NEW pr \in [Thread -> Prio], NEW flags
    PROVE  \E rq \in RunQ, i \in Slot, h \in BOOLEAN :
               /\ Enqueue(q, td, pr[td], flags) = runq_add(q, rq, i, td, h)
               /\ ClassOf(td, <<rq, i>>, pr)
<1> DEFINE h == "PREEMPTED" \in flags
           p == pr[td]
           e == Enqueue(q, td, p, flags)
<1>1. p \in Prio /\ p \in Nat /\ h \in BOOLEAN /\ TRUE \in BOOLEAN
  <2>1. p \in Prio  OBVIOUS
  <2>2. Prio \subseteq Nat  BY TDQAssumption
  <2>3. h \in BOOLEAN  OBVIOUS
  <2> HIDE DEF h, p
  <2>4. QED  BY <2>1, <2>2, <2>3
<1>2. {PRI_MIN_BATCH, PRI_MAX_BATCH, PRI_MIN_IDLE} \subseteq Nat /\ PRI_MIN_IDLE = PRI_MAX_BATCH + 1
  BY TDQAssumption
<1>3. p \div RQ_PPQ \in Slot  BY <1>1, PrioSlot
<1>4. CASE p < PRI_MIN_BATCH
  <2>1. e = runq_add(q, "realtime", p \div RQ_PPQ, td, h)  BY <1>4, Zenon DEF Enqueue
  <2>2. ClassOf(td, <<"realtime", p \div RQ_PPQ>>, pr) /\ "realtime" \in RunQ  BY DEF ClassOf, RunQ
  <2>3. QED  BY <1>1, <1>3, <2>1, <2>2, Zenon
<1>5. CASE ~(p < PRI_MIN_BATCH) /\ p > PRI_MAX_BATCH
  <2>1. e = runq_add(q, "idle", p \div RQ_PPQ, td, h)  BY <1>5, Zenon DEF Enqueue
  <2>2. "idle" \in RunQ  BY DEF RunQ
  <2>3. ClassOf(td, <<"idle", p \div RQ_PPQ>>, pr)  BY <1>1, <1>2, <1>5 DEF ClassOf
  <2>4. QED  BY <1>1, <1>3, <2>1, <2>2, <2>3, Zenon
<1>6. CASE ~(p < PRI_MIN_BATCH) /\ ~(p > PRI_MAX_BATCH) /\ ~isRoot(td)
  <2>1. e = runq_add(q, "lottery", 0, td, TRUE)  BY <1>6, Zenon DEF Enqueue
  <2>2. ClassOf(td, <<"lottery", 0>>, pr) /\ "lottery" \in RunQ  BY <1>1, <1>2, <1>6 DEF ClassOf, RunQ
  <2>3. 0 \in Slot  BY TDQAssumption DEF Slot
  <2>4. QED  BY <1>1, <2>1, <2>2, <2>3, Zenon
<1>7. CASE ~(p < PRI_MIN_BATCH) /\ ~(p > PRI_MAX_BATCH) /\ isRoot(td)
  <2> DEFINE i == TimeshareSlot(q, p, flags)
  <2>1. e = runq_add(q, "timeshare", i, td, h)  BY <1>7, Zenon DEF Enqueue
  <2>2. ClassOf(td, <<"timeshare", i>>, pr) /\ "timeshare" \in RunQ  BY <1>1, <1>2, <1>7 DEF ClassOf, RunQ
  <2>3. i \in Slot  BY <1>1, <1>2, <1>7, TimeshareSlotIn
  <2>4. QED  BY <1>1, <2>1, <2>2, <2>3, Zenon
<1>8. QED  BY <1>4, <1>5, <1>6, <1>7

\* r is q with one more thread, which is where its priority puts it.
OneMore(q, td, pr, r) ==
    /\ Sound(r) /\ Queued(r) = Queued(q) \cup {td} /\ Classed(r, pr)
    /\ r.load = q.load /\ r.lowpri = q.lowpri

\* r is q without a thread; the others stay where they are.
OneOff(q, td, r) ==
    /\ Sound(r) /\ Queued(r) = Queued(q) \ {td}
    /\ \A x \in Queued(r) : r.where[x] = q.where[x]
    /\ r.load = q.load /\ r.lowpri = q.lowpri

\* The queued threads are finitely many.
LEMMA QueuedFinite ==
    ASSUME NEW q \in Tdq
    PROVE  /\ IsFiniteSet(Queued(q)) /\ Queued(q) \subseteq Thread
           /\ IsFiniteSet(q.xfer) /\ Cardinality(q.xfer) \in Nat
<1>1. Queued(q) \subseteq Thread /\ q.xfer \subseteq Thread  BY TdqHas DEF Queued
<1>2. QED  BY <1>1, FS_Subset, FS_CardinalityType, TDQAssumption

\* tdq_runq_add.
LEMMA tdq_runq_addKeeps ==
    ASSUME NEW q, Sound(q), NEW td \in Thread \ Queued(q), NEW pr \in [Thread -> Prio], Classed(q, pr), NEW flags
    PROVE  OneMore(q, td, pr, tdq_runq_add(q, td, pr[td], flags))
<1> DEFINE e == Enqueue(q, td, pr[td], flags)
           t == [e EXCEPT !.transferable = e.transferable + 1, !.xfer = e.xfer \cup {td}]
<1>1. q \in Tdq /\ Matched(q)  BY DEF Sound, Matched, Agree
<1>2. PICK rq \in RunQ, i \in Slot, h \in BOOLEAN : e = runq_add(q, rq, i, td, h) /\ ClassOf(td, <<rq, i>>, pr)
  BY <1>1, EnqueueIs
<1> HIDE DEF e
<1>3. Matched(e) /\ Queued(e) = Queued(q) \cup {td}  BY <1>1, <1>2, runq_addKeeps
<1>4. /\ e \in Tdq
      /\ \A x \in RunQ, j \in Slot : j \in e.status[x] <=> j \in q.status[x] \/ (x = rq /\ j = i)
      /\ \A x \in Thread : e.where[x] = IF x = td THEN <<rq, i>> ELSE q.where[x]
      /\ e.idx = q.idx /\ e.ridx = q.ridx /\ e.load = q.load /\ e.lowpri = q.lowpri
      /\ e.transferable = q.transferable /\ e.xfer = q.xfer
  <2>1. AddedTo(q, rq, i, td, h, e)  BY <1>1, <1>2, runq_addIs
  <2>2. QED  BY <2>1 DEF AddedTo
<1>5. Drains(e)
  <2>1. q.ridx \in Slot /\ "timeshare" \in RunQ  BY <1>1, TdqHas DEF RunQ
  <2>2. q.queue["timeshare"][q.ridx] # <<>> => e.queue["timeshare"][q.ridx] # <<>>
    <3>1. \A x \in RunQ, j \in Slot : j \in q.status[x] <=> q.queue[x][j] # <<>>  BY <1>1 DEF Matched, Agree
    <3>2. \A x \in RunQ, j \in Slot : j \in e.status[x] <=> e.queue[x][j] # <<>>  BY <1>3 DEF Matched, Agree
    <3>3. \A x \in RunQ, j \in Slot : j \in q.status[x] => j \in e.status[x]  BY <1>4
    <3>4. QED  BY <2>1, <3>1, <3>2, <3>3
  <2>3. QED  BY <1>4, <2>2 DEF Sound, Drains
<1>6. Classed(e, pr)
  <2>1. ASSUME NEW x \in Queued(e) PROVE ClassOf(x, e.where[x], pr)
    <3>1. CASE x = td  BY <1>2, <1>4, <3>1
    <3>2. CASE x # td
      <4>1. x \in Queued(q) /\ x \in Thread  BY <1>3, <3>2 DEF Queued
      <4>2. e.where[x] = q.where[x]  BY <1>4, <3>2, <4>1
      <4>3. QED  BY <4>1, <4>2, Zenon DEF Classed
    <3>3. QED  BY <3>1, <3>2
  <2>2. QED  BY <2>1, Zenon DEF Classed
<1>7. CASE td \in pinned
  <2>1. tdq_runq_add(q, td, pr[td], flags) = e  BY <1>7 DEF tdq_runq_add, e
  <2>2. Transfers(e)  BY <1>3, <1>4 DEF Sound, Transfers
  <2>3. QED  BY <1>3, <1>4, <1>5, <1>6, <2>1, <2>2 DEF OneMore, Sound
<1>8. CASE td \notin pinned
  <2>1. tdq_runq_add(q, td, pr[td], flags) = t
    <3>1. tdq_runq_add(q, td, pr[td], flags) =
             [Enqueue(q, td, pr[td], flags) EXCEPT !.transferable = @ + 1, !.xfer = @ \cup {td}]
      BY <1>8 DEF tdq_runq_add
    <3>2. QED  BY <3>1, <1>4 DEF e, Tdq
  <2>2. /\ t \in Tdq /\ t.queue = e.queue /\ t.status = e.status /\ t.where = e.where /\ t.idx = e.idx
        /\ t.ridx = e.ridx /\ t.load = e.load /\ t.lowpri = e.lowpri
        /\ t.transferable = e.transferable + 1 /\ t.xfer = e.xfer \cup {td}
    <3>1. e.transferable + 1 \in Nat /\ e.xfer \cup {td} \in SUBSET Thread  BY <1>4, TdqHas
    <3>2. TransfersSet(e, e.transferable + 1, e.xfer \cup {td}, t)  BY <1>4, <3>1, SetTransfers, Zenon
    <3> HIDE DEF t
    <3>3. QED  BY <3>2 DEF TransfersSet
  <2> HIDE DEF t
  <2>3. Queued(t) = Queued(e)  BY <2>2 DEF Queued
  <2>4. Matched(t)  BY <1>3, <2>2, <2>3 DEF Matched
  <2>5. Transfers(t)
    <3>1. td \notin q.xfer /\ q.transferable = Cardinality(q.xfer)  BY DEF Sound, Transfers
    <3>2. Cardinality(q.xfer \cup {td}) = Cardinality(q.xfer) + 1  BY <1>1, <3>1, QueuedFinite, FS_AddElement
    <3>3. t.xfer \subseteq Queued(t)  BY <1>3, <1>4, <2>2, <2>3 DEF Sound, Transfers
    <3>4. QED  BY <1>4, <2>2, <3>1, <3>2, <3>3 DEF Transfers
  <2>6. Drains(t) /\ Classed(t, pr)  BY <1>5, <1>6, <2>2, <2>3 DEF Drains, Classed
  <2>7. QED  BY <1>3, <1>4, <2>1, <2>2, <2>3, <2>4, <2>5, <2>6 DEF OneMore, Sound
<1>9. QED  BY <1>7, <1>8

\* tdq_runq_rem: an index that points to the emptied slot moves on to the other.
LEMMA tdq_runq_remKeeps ==
    ASSUME NEW q, Sound(q), NEW td \in Queued(q)
    PROVE  OneOff(q, td, tdq_runq_rem(q, td))
<1> DEFINE rotate == q.where[td][1] = "timeshare" /\ q.idx # q.ridx
           e == runq_remove_idx(q, td, rotate)
           n == IF td \in q.xfer THEN e.transferable - 1 ELSE e.transferable
           t == [e EXCEPT !.transferable = n, !.xfer = e.xfer \ {td}]
<1>1. q \in Tdq /\ Matched(q) /\ rotate \in BOOLEAN  BY DEF Sound, Matched, Agree
<1>2. /\ Matched(e) /\ Queued(e) = Queued(q) \ {td}
      /\ \A x \in Queued(e) : e.where[x] = q.where[x]
  BY <1>1, runq_remove_idxKeeps
<1>3. RemovedFrom(q, td, rotate, e)  BY <1>1, runq_remove_idxIs
<1>4. tdq_runq_rem(q, td) = t
  <2>1. e \in Tdq  BY <1>2 DEF Matched
  <2>2. tdq_runq_rem(q, td) = [e EXCEPT !.transferable = IF td \in q.xfer THEN @ - 1 ELSE @, !.xfer = @ \ {td}]
    BY DEF tdq_runq_rem
  <2> HIDE DEF e
  <2>3. QED  BY <2>1, <2>2 DEF Tdq
<1> HIDE DEF e, rotate
<1>5. e \in Tdq /\ e.idx = q.idx /\ e.load = q.load /\ e.lowpri = q.lowpri
      /\ e.transferable = q.transferable /\ e.xfer = q.xfer
  BY <1>3 DEF RemovedFrom
<1>6. q.transferable = Cardinality(q.xfer) /\ q.xfer \subseteq Queued(q) /\ q.transferable \in Nat
  BY <1>1, TdqHas DEF Sound, Transfers
<1>7. /\ td \in q.xfer => Cardinality(q.xfer \ {td}) = Cardinality(q.xfer) - 1 /\ Cardinality(q.xfer) > 0
      /\ td \notin q.xfer => q.xfer \ {td} = q.xfer
  <2>1. IsFiniteSet(q.xfer) /\ IsFiniteSet(q.xfer \ {td})  BY <1>1, QueuedFinite, FS_RemoveElement
  <2>2. Cardinality(q.xfer \ {td}) \in Nat  BY <2>1, FS_CardinalityType
  <2>3. QED  BY <1>6, <2>1, <2>2, FS_RemoveElement
<1>8. /\ t \in Tdq /\ t.queue = e.queue /\ t.status = e.status /\ t.where = e.where /\ t.idx = e.idx
      /\ t.ridx = e.ridx /\ t.load = e.load /\ t.lowpri = e.lowpri
      /\ t.transferable = (IF td \in q.xfer THEN q.transferable - 1 ELSE q.transferable)
      /\ t.xfer = q.xfer \ {td}
  <2>1. n \in Nat /\ n = (IF td \in q.xfer THEN q.transferable - 1 ELSE q.transferable)  BY <1>5, <1>6, <1>7
  <2>2. e.xfer \ {td} \in SUBSET Thread  BY <1>5, TdqHas
  <2>3. TransfersSet(e, n, e.xfer \ {td}, t)  BY <1>5, <2>1, <2>2, SetTransfers, Zenon
  <2> HIDE DEF n, t
  <2>4. QED  BY <1>5, <2>1, <2>3 DEF TransfersSet
<1> HIDE DEF t
<1>9. Queued(t) = Queued(q) \ {td} /\ Queued(t) = Queued(e)  BY <1>2, <1>8 DEF Queued
<1>10. Matched(t)  BY <1>2, <1>8, <1>9 DEF Matched
<1>11. Transfers(t)  BY <1>6, <1>7, <1>8, <1>9 DEF Transfers
<1>12. Drains(t)
  <2> DEFINE i == q.where[td][2]
             s == Without(q.queue[q.where[td][1]][i], td)
  <2>1. /\ e.queue["timeshare"][q.ridx] =
             IF "timeshare" = q.where[td][1] /\ q.ridx = i THEN s ELSE q.queue["timeshare"][q.ridx]
        /\ e.ridx = IF rotate /\ s = <<>> /\ q.ridx = i THEN (i + 1) % RQ_NQS ELSE q.ridx
    <3>1. q.ridx \in Slot /\ "timeshare" \in RunQ  BY <1>1, TdqHas DEF RunQ
    <3>2. QED  BY <1>3, <3>1 DEF RemovedFrom
  <2> HIDE DEF s, i
  <2>2. CASE rotate /\ s = <<>> /\ q.ridx = i
    <3>1. q.idx = (q.ridx + 1) % RQ_NQS  BY <2>2 DEF rotate, Sound, Drains
    <3>2. QED  BY <1>5, <1>8, <2>1, <2>2, <3>1 DEF Drains
  <2>3. CASE ~(rotate /\ s = <<>> /\ q.ridx = i)
    <3>1. t.ridx = q.ridx /\ t.idx = q.idx  BY <1>5, <1>8, <2>1, <2>3
    <3>2. q.idx # q.ridx => e.queue["timeshare"][q.ridx] # <<>>
      BY <2>1, <2>3 DEF rotate, Sound, Drains
    <3>3. QED  BY <1>8, <3>1, <3>2 DEF Sound, Drains
  <2>4. QED  BY <2>2, <2>3
<1>13. QED  BY <1>2, <1>4, <1>5, <1>8, <1>9, <1>10, <1>11, <1>12 DEF OneOff, Sound

-----------------------------------------------------------------------------
(* Threads that are chosen or stolen.                                      *)

\* A set of queue numbers that is not empty has a least one.
LEMMA LeastSlot == ASSUME NEW S \in SUBSET Slot, S # {} PROVE Min(S) \in S
<1>1. S \in SUBSET Nat  BY TDQAssumption DEF Slot
<1>2. QED  BY <1>1, MinIn

\* The head of a queue whose status bit is set.
LEMMA HeadQueued ==
    ASSUME NEW q, Matched(q), NEW rq \in RunQ, NEW i \in q.status[rq]
    PROVE  Head(q.queue[rq][i]) \in Queued(q)
<1>1. i \in Slot /\ q.queue[rq][i] \in Seq(Thread)  BY TdqHas DEF Matched
<1>2. q.queue[rq][i] # <<>>  BY <1>1 DEF Matched, Agree
<1>3. 1 \in 1 .. Len(q.queue[rq][i]) /\ Head(q.queue[rq][i]) = q.queue[rq][i][1]  BY <1>1, <1>2
<1>4. QED  BY <1>1, <1>3, MemberQueued

\* tdq_choose returns a queued thread, or none.
LEMMA tdq_chooseIn ==
    ASSUME NEW q, Matched(q), NEW td \in tdq_choose(q)
    PROVE  td \in Queued(q) \cup {NoThread}
<1> DEFINE R == q.status["realtime"]
           T == q.status["timeshare"]
           I == q.status["idle"]
           s == q.queue["lottery"][0]
<1>1. R \in SUBSET Slot /\ T \in SUBSET Slot /\ I \in SUBSET Slot /\ 0 \in Slot /\ s \in Seq(Thread)
  <2>1. {"realtime", "timeshare", "lottery", "idle"} = RunQ /\ q \in Tdq /\ 0 \in Slot
    BY TDQAssumption DEF RunQ, Matched, Slot
  <2>2. QED  BY <2>1, TdqHas
<1>2. CASE R # {}
  <2>1. Min(R) \in R  BY <1>1, <1>2, LeastSlot
  <2>2. Head(q.queue["realtime"][Min(R)]) \in Queued(q)  BY <2>1, HeadQueued DEF RunQ
  <2>3. td = Head(q.queue["realtime"][Min(R)])  BY <1>2 DEF tdq_choose, runq_findbit
  <2>4. QED  BY <2>2, <2>3
<1>3. CASE R = {} /\ T # {}
  <2> DEFINE from == {j \in T : j >= q.ridx}
             i == IF from # {} THEN Min(from) ELSE Min(T)
  <2>1. i \in T
    <3>1. from # {} => Min(from) \in from  BY <1>1, LeastSlot
    <3>2. Min(T) \in T  BY <1>1, <1>3, LeastSlot
    <3>3. QED  BY <3>1, <3>2
  <2>2. td = Head(q.queue["timeshare"][i])  BY <1>3 DEF tdq_choose, runq_findbit_from
  <2> HIDE DEF i
  <2>3. Head(q.queue["timeshare"][i]) \in Queued(q)  BY <2>1, HeadQueued DEF RunQ
  <2>4. QED  BY <2>2, <2>3
<1>4. CASE R = {} /\ T = {} /\ s # <<>>
  <2>1. td \in lottery_q_choose(s)  BY <1>4 DEF tdq_choose
  <2>2. PICK r : td = LotteryWinner(s, r) /\ Negative(s, r) # {}  BY <2>1 DEF lottery_q_choose
  <2>3. Negative(s, r) \in SUBSET Nat /\ Negative(s, r) \subseteq 1 .. Len(s)  BY <1>1 DEF Negative
  <2>4. Min(Negative(s, r)) \in Negative(s, r)  BY <2>2, <2>3, MinIn
  <2>5. td = s[Min(Negative(s, r))] /\ Min(Negative(s, r)) \in 1 .. Len(s)  BY <2>2, <2>3, <2>4 DEF LotteryWinner
  <2>6. QED  BY <1>1, <2>5, MemberQueued DEF RunQ
<1>5. CASE R = {} /\ T = {} /\ s = <<>> /\ I # {}
  <2>1. Min(I) \in I  BY <1>1, <1>5, LeastSlot
  <2>2. Head(q.queue["idle"][Min(I)]) \in Queued(q)  BY <2>1, HeadQueued DEF RunQ
  <2>3. td = Head(q.queue["idle"][Min(I)])  BY <1>5 DEF tdq_choose, runq_findbit
  <2>4. QED  BY <2>2, <2>3
<1>6. CASE R = {} /\ T = {} /\ s = <<>> /\ I = {}  BY <1>6 DEF tdq_choose
<1>7. QED  BY <1>2, <1>3, <1>4, <1>5, <1>6

\* The queues from one slot on, one after the other, hold queued threads only.
LEMMA SlotsQueued ==
    ASSUME NEW q, Matched(q), NEW rq \in RunQ, NEW from \in Slot
    PROVE  FlattenSeq([i \in 1 .. RQ_NQS - from |-> q.queue[rq][from + i - 1]]) \in Seq(Queued(q))
<1> DEFINE ss == [i \in 1 .. RQ_NQS - from |-> q.queue[rq][from + i - 1]]
<1>1. RQ_NQS - from \in Nat /\ \A i \in 1 .. RQ_NQS - from : from + i - 1 \in Slot  BY TDQAssumption DEF Slot
<1>2. ASSUME NEW i \in Slot PROVE q.queue[rq][i] \in Seq(Queued(q))
  <2>1. q.queue[rq][i] \in Seq(Thread)  BY TdqHas DEF Matched
  <2>2. \A k \in 1 .. Len(q.queue[rq][i]) : q.queue[rq][i][k] \in Queued(q)  BY MemberQueued
  <2>3. QED  BY <2>1, <2>2
<1>3. ss \in [1 .. RQ_NQS - from -> Seq(Queued(q))]  BY <1>1, <1>2
<1> HIDE DEF ss
<1>4. FlattenSeq(ss) \in Seq(Queued(q))  BY <1>1, <1>3, Flattened
<1>5. QED  BY <1>4 DEF ss

\* The first of a sequence that can migrate.
LEMMA FirstCan ==
    ASSUME NEW T, NEW s \in Seq(T), NEW ok, NEW S \in SUBSET CanMigrate(s, ok), S # {}
    PROVE  s[Min(S)] \in T
<1>1. S \in SUBSET Nat /\ S \subseteq 1 .. Len(s)  BY DEF CanMigrate
<1>2. Min(S) \in 1 .. Len(s)  BY <1>1, MinIn
<1>3. \A k \in 1 .. Len(s) : s[k] \in T  OBVIOUS
<1>4. QED  BY <1>2, <1>3

\* tdq_steal returns a queued thread, or none.
LEMMA tdq_stealIn ==
    ASSUME NEW q, Matched(q), NEW ok
    PROVE  tdq_steal(q, ok) \in Queued(q) \cup {NoThread}
<1>1. ASSUME NEW rq \in RunQ PROVE runq_steal(q, rq, ok) \in Queued(q) \cup {NoThread}
  <2> DEFINE s == FlattenSeq([i \in 1 .. RQ_NQS |-> q.queue[rq][i - 1]])
  <2>1. s \in Seq(Queued(q))
    <3>1. 0 \in Slot  BY TDQAssumption DEF Slot
    <3>2. [i \in 1 .. RQ_NQS |-> q.queue[rq][i - 1]] = [i \in 1 .. RQ_NQS - 0 |-> q.queue[rq][0 + i - 1]]
      BY TDQAssumption
    <3>3. QED  BY <3>1, <3>2, SlotsQueued
  <2>2. runq_steal(q, rq, ok) = IF CanMigrate(s, ok) = {} THEN NoThread ELSE s[Min(CanMigrate(s, ok))]
    BY DEF runq_steal
  <2> HIDE DEF s
  <2>3. QED  BY <2>1, <2>2, FirstCan
<1>2. runq_steal_from(q, ok) \in Queued(q) \cup {NoThread}
  <2> DEFINE all(from) == FlattenSeq([i \in 1 .. RQ_NQS - from |-> q.queue["timeshare"][from + i - 1]])
             s == all(q.ridx) \o IF q.ridx = 0 THEN <<>> ELSE all(0)
             can == CanMigrate(s, ok)
  <2>1. s \in Seq(Queued(q))
    <3>1. 0 \in Slot /\ q.ridx \in Slot /\ "timeshare" \in RunQ  BY TDQAssumption, TdqHas DEF Slot, Matched, RunQ
    <3>2. all(q.ridx) \in Seq(Queued(q)) /\ all(0) \in Seq(Queued(q))  BY <3>1, SlotsQueued
    <3> HIDE DEF all
    <3>3. QED  BY <3>2
  <2>2. runq_steal_from(q, ok) = IF can \ {1} # {} THEN s[Min(can \ {1})]
                                 ELSE IF Len(s) \in can THEN s[Len(s)] ELSE NoThread
    BY DEF runq_steal_from
  <2> HIDE DEF s
  <2>3. can \ {1} # {} => s[Min(can \ {1})] \in Queued(q)  BY <2>1, FirstCan
  <2>4. Len(s) \in can => s[Len(s)] \in Queued(q)  BY <2>1 DEF CanMigrate
  <2>5. QED  BY <2>2, <2>3, <2>4
<1>3. QED  BY <1>1, <1>2 DEF tdq_steal, RunQ

-----------------------------------------------------------------------------
(* The operations on a whole tdq.                                          *)

\* r is a whole tdq that holds the threads Q while those in R run.
Holds(r, Q, pr, R) == Sound(r) /\ Queued(r) = Q /\ Classed(r, pr) /\ Loaded(r, R)

\* The load changes by one when a thread comes or goes.
LEMMA OneMoreLoad ==
    ASSUME NEW Q \in SUBSET Thread, NEW td \in Thread \ Q
    PROVE  /\ Cardinality(Q) \in Nat /\ Cardinality(Q \cup {td}) = Cardinality(Q) + 1
           /\ IsFiniteSet(Q)
<1>1. IsFiniteSet(Q)  BY FS_Subset, TDQAssumption
<1>2. QED  BY <1>1, FS_CardinalityType, FS_AddElement

\* tdq_add: the thread is queued, the load counts it, and lowpri does not get worse.
LEMMA tdq_addKeeps ==
    ASSUME NEW q, Sound(q), NEW R \in SUBSET Thread, Loaded(q, R), NEW td \in Thread \ (Queued(q) \cup R),
           NEW pr \in [Thread -> Prio], Classed(q, pr), NEW flags
    PROVE  LET r == tdq_add(q, td, pr[td], flags)
           IN  Holds(r, Queued(q) \cup {td}, pr, R) /\ r.lowpri <= q.lowpri
<1> DEFINE l == IF pr[td] < q.lowpri THEN pr[td] ELSE q.lowpri
           a == [q EXCEPT !.lowpri = l]
           b == tdq_runq_add(a, td, pr[td], flags)
           r == [b EXCEPT !.load = b.load + 1]
<1>1. q \in Tdq  BY DEF Sound, Matched
<1>2. tdq_add(q, td, pr[td], flags) = r
  <2>1. [q EXCEPT !.lowpri = IF pr[td] < @ THEN pr[td] ELSE @] = a  BY <1>1 DEF Tdq
  <2>2. tdq_add(q, td, pr[td], flags) = tdq_load_add(b)  BY <2>1 DEF tdq_add
  <2>3. QED  BY <2>2 DEF tdq_load_add
<1>3. l \in 0 .. PRI_MAX_IDLE /\ l <= q.lowpri
  <2>1. pr[td] \in 0 .. PRI_MAX_IDLE /\ q.lowpri \in 0 .. PRI_MAX_IDLE  BY <1>1, TdqHas, TDQAssumption
  <2>2. QED  BY <2>1
<1> HIDE DEF l
<1>4. LowpriSet(q, l, a)  BY <1>1, <1>3, SetLowpri
<1> HIDE DEF a
<1>5. Sound(a) /\ Queued(a) = Queued(q) /\ Classed(a, pr)  BY <1>4, SameQueuesKeep DEF LowpriSet
<1>6. OneMore(a, td, pr, b)  BY <1>5, tdq_runq_addKeeps
<1> HIDE DEF b
<1>7. b \in Tdq /\ b.load = q.load /\ b.load + 1 \in Nat /\ b.lowpri = l
  BY <1>4, <1>6, TdqHas DEF OneMore, Sound, Matched, LowpriSet
<1>8. LoadSet(b, b.load + 1, r)  BY <1>7, SetLoad
<1> HIDE DEF r
<1>9. Sound(r) /\ Queued(r) = Queued(q) \cup {td} /\ Classed(r, pr)
  BY <1>5, <1>6, <1>8, SameQueuesKeep DEF OneMore, LoadSet
<1>10. Loaded(r, R)
  <2>1. Queued(q) \cup R \in SUBSET Thread  BY DEF Queued
  <2>2. Cardinality((Queued(q) \cup R) \cup {td}) = Cardinality(Queued(q) \cup R) + 1  BY <2>1, OneMoreLoad
  <2>3. (Queued(q) \cup R) \cup {td} = Queued(r) \cup R  BY <1>9
  <2>4. QED  BY <1>7, <1>8, <2>2, <2>3 DEF Loaded, LoadSet
<1>11. r.lowpri = l  BY <1>7, <1>8 DEF LoadSet
<1>12. QED  BY <1>2, <1>3, <1>9, <1>10, <1>11 DEF Holds

\* A running thread that leaves is not counted any more.
LEMMA tdq_load_remKeeps ==
    ASSUME NEW q, Sound(q), NEW pr, Classed(q, pr), NEW td \in Thread \ Queued(q), Loaded(q, {td})
    PROVE  Holds(tdq_load_rem(q), Queued(q), pr, {})
<1> DEFINE r == [q EXCEPT !.load = q.load - 1]
<1>1. q \in Tdq  BY DEF Sound, Matched
<1>2. tdq_load_rem(q) = r  BY <1>1 DEF tdq_load_rem, Tdq
<1>3. q.load - 1 \in Nat /\ q.load - 1 = Cardinality(Queued(q))
  <2>1. Queued(q) \in SUBSET Thread  BY DEF Queued
  <2>2. QED  BY <2>1, OneMoreLoad DEF Loaded
<1>4. LoadSet(q, q.load - 1, r)  BY <1>1, <1>3, SetLoad
<1> HIDE DEF r
<1>5. Sound(r) /\ Queued(r) = Queued(q) /\ Classed(r, pr)  BY <1>4, SameQueuesKeep DEF LoadSet
<1>6. Loaded(r, {})
  <2>1. Queued(q) \cup {} = Queued(q)  OBVIOUS
  <2>2. QED  BY <1>3, <1>4, <1>5, <2>1 DEF Loaded, LoadSet
<1>7. QED  BY <1>2, <1>5, <1>6 DEF Holds

\* The priority of a thread that is not queued does not matter to the queues.
LEMMA OtherPrio ==
    ASSUME NEW q, NEW pr, NEW ps, Classed(q, pr), \A td \in Queued(q) : ps[td] = pr[td]
    PROVE  Classed(q, ps)
  BY DEF Classed, ClassOf

\* Taking a thread off keeps the class of the others.
LEMMA OneOffClassed ==
    ASSUME NEW q, NEW td, NEW r, NEW pr, Classed(q, pr), OneOff(q, td, r)
    PROVE  Classed(r, pr)
<1>1. \A x \in Queued(r) : x \in Queued(q) /\ r.where[x] = q.where[x]  BY DEF OneOff
<1>2. QED  BY <1>1, Zenon DEF Classed

\* A priority is one.
LEMMA PriOfIn ==
    ASSUME pri \in [Thread -> Prio], NEW td \in Thread \cup {NoThread} PROVE PriOf(td) \in 0 .. PRI_MAX_IDLE
<1>1. Prio \subseteq 0 .. PRI_MAX_IDLE /\ PRI_MAX_IDLE \in 0 .. PRI_MAX_IDLE  BY TDQAssumption
<1>2. CASE td = NoThread  BY <1>1, <1>2 DEF PriOf
<1>3. CASE td # NoThread
  <2>1. pri[td] \in Prio  BY <1>3
  <2>2. QED  BY <1>1, <1>3, <2>1 DEF PriOf
<1>4. QED  BY <1>2, <1>3

\* sched_rem of a queued thread, whoever runs: lowpri may be searched anew.
LEMMA sched_remKeeps ==
    ASSUME IInv, NEW td \in Queued(tdq), NEW r \in sched_rem(td)
    PROVE  Holds(r, Queued(tdq) \ {td}, pri, Running) /\ r.lowpri <= PriOf(cur)
<1> DEFINE a == tdq_runq_rem(tdq, td)
           b == [a EXCEPT !.load = a.load - 1]
<1>1. /\ Sound(tdq) /\ Classed(tdq, pri) /\ Loaded(tdq, Running) /\ tdq \in Tdq
      /\ cur \notin Queued(tdq) /\ tdq.lowpri <= PriOf(cur)
      /\ cur \in Thread \cup {NoThread} /\ pri \in [Thread -> Prio]
  BY DEF IInv, Typed, Whole, Running, PriOf, Sound, Matched
<1>2. OneOff(tdq, td, a)  BY <1>1, tdq_runq_remKeeps
<1>3. Removed(td) = b
  <2>1. Removed(td) = tdq_load_rem(a)  BY DEF Removed
  <2> HIDE DEF a
  <2>2. QED  BY <2>1 DEF tdq_load_rem
<1> HIDE DEF a
<1>4. /\ Sound(a) /\ a \in Tdq /\ Queued(a) = Queued(tdq) \ {td} /\ Classed(a, pri)
      /\ a.load = tdq.load /\ a.lowpri = tdq.lowpri
  BY <1>1, <1>2, OneOffClassed DEF OneOff, Sound, Matched
<1>5. a.load - 1 \in Nat /\ a.load - 1 = Cardinality(Queued(a) \cup Running)
  <2>1. Queued(a) \cup Running \in SUBSET Thread /\ td \in Thread /\ td \notin Queued(a) \cup Running
    BY <1>1, <1>4 DEF Queued, Running
  <2>2. Cardinality((Queued(a) \cup Running) \cup {td}) = Cardinality(Queued(a) \cup Running) + 1
        /\ Cardinality(Queued(a) \cup Running) \in Nat
    BY <2>1, OneMoreLoad
  <2>3. (Queued(a) \cup Running) \cup {td} = Queued(tdq) \cup Running  BY <1>4
  <2>4. tdq.load = Cardinality((Queued(a) \cup Running) \cup {td})  BY <1>1, <2>3, Zenon DEF Loaded
  <2>5. QED  BY <1>4, <2>2, <2>4
<1>6. LoadSet(a, a.load - 1, b)  BY <1>4, <1>5, SetLoad
<1> HIDE DEF b
<1>7. /\ Sound(b) /\ b \in Tdq /\ Queued(b) = Queued(tdq) \ {td} /\ Classed(b, pri)
      /\ Loaded(b, Running) /\ b.lowpri = tdq.lowpri
  <2>1. Sound(b) /\ Queued(b) = Queued(a) /\ Classed(b, pri)  BY <1>4, <1>6, SameQueuesKeep DEF LoadSet
  <2>2. QED  BY <1>4, <1>5, <1>6, <2>1 DEF Loaded, LoadSet, Sound, Matched
<1>8. CASE pri[td] # tdq.lowpri
  <2>1. r = b  BY <1>3, <1>8 DEF sched_rem
  <2>2. QED  BY <1>1, <1>7, <2>1 DEF Holds
<1>9. CASE pri[td] = tdq.lowpri
  <2>1. PICK next \in tdq_choose(b) : r = Lowered(b, next, PriOf(cur))  BY <1>3, <1>9 DEF sched_rem
  <2> DEFINE l == IF next = NoThread \/ pri[next] > PriOf(cur) THEN PriOf(cur) ELSE pri[next]
  <2>2. r = [b EXCEPT !.lowpri = l]  BY <2>1 DEF Lowered
  <2>3. l \in 0 .. PRI_MAX_IDLE /\ l <= PriOf(cur)
    <3>1. next \in Thread \cup {NoThread}
      <4>1. Matched(b)  BY <1>7 DEF Sound
      <4>2. next \in Queued(b) \cup {NoThread}  BY <4>1, tdq_chooseIn
      <4>3. QED  BY <4>2 DEF Queued
    <3>2. PriOf(cur) \in 0 .. PRI_MAX_IDLE /\ (next # NoThread => pri[next] \in 0 .. PRI_MAX_IDLE)
      <4>1. PriOf(cur) \in 0 .. PRI_MAX_IDLE  BY <1>1, PriOfIn
      <4>2. PriOf(next) \in 0 .. PRI_MAX_IDLE  BY <1>1, <3>1, PriOfIn
      <4>3. QED  BY <4>1, <4>2 DEF PriOf
    <3>3. QED  BY <3>2
  <2> HIDE DEF l
  <2>4. LowpriSet(b, l, r)  BY <1>7, <2>2, <2>3, SetLowpri
  <2>5. Sound(r) /\ Queued(r) = Queued(b) /\ Classed(r, pri)  BY <1>7, <2>4, SameQueuesKeep DEF LowpriSet
  <2>6. QED  BY <1>7, <2>3, <2>4, <2>5 DEF Holds, Loaded, LowpriSet
<1>10. QED  BY <1>8, <1>9

-----------------------------------------------------------------------------
(* The actions.                                                            *)

\* The kernel stops: nothing else changes.
LEMMA FaultKeeps == ASSUME IInv, Fault PROVE IInv'
<1>1. UNCHANGED <<tdq, cur, need, sliceend, owe, pinned, pri, nice, slice>> /\ panic' = TRUE  BY DEF Fault, cpuVars
<1>2. Typed'  BY <1>1 DEF IInv, Typed
<1>3. Whole(tdq', pri', cur')  BY <1>1 DEF IInv
<1>4. QED  BY <1>2, <1>3 DEF IInv

\* The end of sched_switch, when nobody runs any more.
LEMMA SwitchToKeeps ==
    ASSUME IInv, NEW q, NEW Q, NEW p \in [Thread -> Prio], NEW s \in [Thread -> Nat], Holds(q, Q, p, {}), SwitchTo(q, p, s)
    PROVE  IInv'
<1>1. CASE Fault  BY <1>1, FaultKeeps
<1>2. ASSUME NEW td \in tdq_choose(q),
             /\ tdq' = IF td = NoThread THEN [q EXCEPT !.lowpri = PRI_MAX_IDLE]
                       ELSE [tdq_runq_rem(q, td) EXCEPT !.lowpri = p[td]]
             /\ cur' = td /\ need' = FALSE /\ sliceend' = FALSE /\ owe' = FALSE
             /\ pri' = p /\ slice' = s
             /\ UNCHANGED <<pinned, nice, panic>>
      PROVE  IInv'
  <2>1. Sound(q) /\ Matched(q) /\ q \in Tdq /\ Classed(q, p) /\ q.load = Cardinality(Queued(q) \cup {})
    BY DEF Holds, Sound, Matched, Loaded
  <2>2. td \in Queued(q) \cup {NoThread}  BY <2>1, tdq_chooseIn
  <2>3. Typed'
    <3>1. td \in Thread \cup {NoThread}  BY <2>2 DEF Queued
    <3>2. QED  BY <1>2, <3>1 DEF IInv, Typed
  <2>4. CASE td = NoThread
    <3>1. tdq' = [q EXCEPT !.lowpri = PRI_MAX_IDLE] /\ PRI_MAX_IDLE \in 0 .. PRI_MAX_IDLE
      BY <1>2, <2>4, TDQAssumption
    <3>2. LowpriSet(q, PRI_MAX_IDLE, tdq')  BY <2>1, <3>1, SetLowpri
    <3>3. Sound(tdq') /\ Queued(tdq') = Queued(q) /\ Classed(tdq', p)  BY <2>1, <3>2, SameQueuesKeep DEF LowpriSet
    <3>4. Loaded(tdq', {td} \ {NoThread})
      <4>1. {td} \ {NoThread} = {}  BY <2>4
      <4>2. QED  BY <2>1, <3>2, <3>3, <4>1, Zenon DEF Loaded, LowpriSet
    <3>5. td \notin Queued(q)  BY <2>4, TDQAssumption DEF Queued
    <3>6. tdq'.lowpri <= PRI_MAX_IDLE  BY <3>2, TDQAssumption DEF LowpriSet
    <3>7. Whole(tdq', pri', cur')  BY <1>2, <2>4, <3>3, <3>4, <3>5, <3>6 DEF Whole
    <3>8. QED  BY <2>3, <3>7 DEF IInv
  <2>5. CASE td # NoThread
    <3> DEFINE r == tdq_runq_rem(q, td)
    <3>1. td \in Queued(q) /\ td \in Thread  BY <2>2, <2>5 DEF Queued
    <3>2. OneOff(q, td, r)  BY <2>1, <3>1, tdq_runq_remKeeps
    <3>3. tdq' = [r EXCEPT !.lowpri = p[td]]  BY <1>2, <2>5
    <3> HIDE DEF r
    <3>4. Sound(r) /\ r \in Tdq /\ Queued(r) = Queued(q) \ {td} /\ Classed(r, p) /\ r.load = q.load
      BY <2>1, <3>2, OneOffClassed DEF OneOff, Sound, Matched
    <3>5. p[td] \in 0 .. PRI_MAX_IDLE  BY <3>1, TDQAssumption
    <3>6. LowpriSet(r, p[td], tdq')  BY <3>3, <3>4, <3>5, SetLowpri
    <3>7. Sound(tdq') /\ Queued(tdq') = Queued(r) /\ Classed(tdq', p)  BY <3>4, <3>6, SameQueuesKeep DEF LowpriSet
    <3>8. Loaded(tdq', {td} \ {NoThread})
      <4>1. Queued(tdq') \cup ({td} \ {NoThread}) = Queued(q) \cup {}  BY <2>5, <3>1, <3>4, <3>7
      <4>2. tdq'.load = q.load  BY <3>4, <3>6 DEF LowpriSet
      <4>3. QED  BY <2>1, <4>1, <4>2, Zenon DEF Loaded
    <3>9. td \notin Queued(tdq') /\ tdq'.lowpri <= p[td]  BY <3>4, <3>5, <3>6, <3>7 DEF LowpriSet
    <3>10. Whole(tdq', pri', cur')  BY <1>2, <2>5, <3>7, <3>8, <3>9 DEF Whole
    <3>11. QED  BY <2>3, <3>10 DEF IInv
  <2>6. QED  BY <2>4, <2>5
<1>3. QED  BY <1>1, <1>2 DEF SwitchTo

\* What the invariant says, taken apart.
LEMMA InvHas ==
    ASSUME IInv
    PROVE  /\ Sound(tdq) /\ tdq \in Tdq /\ Classed(tdq, pri) /\ Loaded(tdq, Running)
           /\ cur \notin Queued(tdq) /\ tdq.lowpri <= PriOf(cur) /\ Queued(tdq) \in SUBSET Thread
           /\ cur \in Thread \cup {NoThread} /\ pri \in [Thread -> Prio] /\ slice \in [Thread -> Nat]
           /\ cur # NoThread => cur \in Thread /\ Running = {cur}
           /\ cur = NoThread => Running = {}
  BY DEF IInv, Typed, Whole, Running, PriOf, Sound, Matched, Queued

\* The priority that a thread away has in the model is one.
LEMMA AnyPrioIn == AnyPrio \in Prio
  BY TDQAssumption DEF AnyPrio

\* The running thread leaves this CPU.
LEMMA SwitchOutKeeps == ASSUME IInv, cur # NoThread, SwitchOut PROVE IInv'
<1> DEFINE p == [pri EXCEPT ![cur] = AnyPrio]
           s == [slice EXCEPT ![cur] = 0]
<1>1. p \in [Thread -> Prio] /\ s \in [Thread -> Nat]  BY InvHas, AnyPrioIn
<1>2. \A td \in Queued(tdq) : p[td] = pri[td]  BY InvHas
<1>3. SwitchTo(tdq_load_rem(tdq), p, s)  BY DEF SwitchOut
<1> HIDE DEF p, s
<1>4. Classed(tdq, p)  BY <1>2, InvHas, OtherPrio
<1>5. Sound(tdq) /\ cur \in Thread \ Queued(tdq) /\ Loaded(tdq, {cur})  BY InvHas
<1>6. Holds(tdq_load_rem(tdq), Queued(tdq), p, {})  BY <1>4, <1>5, tdq_load_remKeeps
<1>7. QED  BY <1>1, <1>3, <1>6, SwitchToKeeps

\* sched_switch: the idle thread is on no queue, a thread that stays runnable is put back.
LEMMA sched_switchKeeps == ASSUME IInv, NEW preempt, sched_switch(preempt) PROVE IInv'
<1> DEFINE flags == IF preempt /\ ~sliceend THEN {"PREEMPTED"} ELSE {}
<1>1. CASE cur = NoThread
  <2>1. SwitchTo(tdq, pri, slice)  BY <1>1 DEF sched_switch
  <2>2. Holds(tdq, Queued(tdq), pri, {})  BY <1>1, InvHas DEF Holds
  <2>3. QED  BY <2>1, <2>2, InvHas, SwitchToKeeps
<1>2. CASE cur # NoThread /\ SwitchTo(tdq_runq_add(tdq, cur, pri[cur], flags), pri, slice)
  <2> DEFINE r == tdq_runq_add(tdq, cur, pri[cur], flags)
  <2>1. cur \in Thread \ Queued(tdq)  BY <1>2, InvHas
  <2>2. OneMore(tdq, cur, pri, r)  BY <2>1, InvHas, tdq_runq_addKeeps
  <2>3. SwitchTo(r, pri, slice)  BY <1>2
  <2> HIDE DEF r
  <2>4. Loaded(r, {})
    <3>1. Queued(r) \cup {} = Queued(tdq) \cup {cur}  BY <2>2 DEF OneMore
    <3>2. r.load = Cardinality(Queued(tdq) \cup {cur})  BY <1>2, <2>2, InvHas DEF OneMore, Loaded
    <3>3. QED  BY <3>1, <3>2, Zenon DEF Loaded
  <2>5. Holds(r, Queued(r), pri, {})  BY <2>2, <2>4 DEF Holds, OneMore
  <2>6. QED  BY <2>3, <2>5, InvHas, SwitchToKeeps
<1>3. CASE cur # NoThread /\ SwitchOut  BY <1>3, SwitchOutKeeps
<1>4. QED  BY <1>1, <1>2, <1>3 DEF sched_switch

\* A thread that is away is given a priority and a slice.
LEMMA AwayHas ==
    ASSUME IInv, NEW td \in Away, NEW p \in Prio
    PROVE  /\ td \in Thread \ (Queued(tdq) \cup Running) /\ td # cur
           /\ [pri EXCEPT ![td] = p] \in [Thread -> Prio] /\ [pri EXCEPT ![td] = p][td] = p
           /\ Classed(tdq, [pri EXCEPT ![td] = p])
<1>1. td \in Thread \ (Queued(tdq) \cup Running) /\ td # cur  BY DEF Away, Running
<1>2. [pri EXCEPT ![td] = p] \in [Thread -> Prio] /\ [pri EXCEPT ![td] = p][td] = p
  BY <1>1, InvHas
<1>3. \A x \in Queued(tdq) : [pri EXCEPT ![td] = p][x] = pri[x]  BY <1>1, InvHas
<1>4. Classed(tdq, [pri EXCEPT ![td] = p])  BY <1>3, InvHas, OtherPrio
<1>5. QED  BY <1>1, <1>2, <1>4

\* The idle thread steals one.
LEMMA tdq_idledKeeps ==
    ASSUME IInv, NEW td \in Thread, NEW p \in Prio, NEW n \in Nat, tdq_idled(td, p, n) PROVE IInv'
<1> DEFINE ps == [pri EXCEPT ![td] = p]
           s == [slice EXCEPT ![td] = n]
<1>1. cur = NoThread /\ td \in Away /\ SwitchTo(tdq_add(tdq, td, p, {}), ps, s)  BY DEF tdq_idled
<1>2. ps \in [Thread -> Prio] /\ ps[td] = p /\ Classed(tdq, ps) /\ td \in Thread \ (Queued(tdq) \cup {})
  BY <1>1, AwayHas, Zenon
<1>3. s \in [Thread -> Nat]  BY InvHas
<1> HIDE DEF ps, s
<1>4. Sound(tdq) /\ Loaded(tdq, {}) /\ {} \in SUBSET Thread  BY <1>1, InvHas
<1>5. Holds(tdq_add(tdq, td, ps[td], {}), Queued(tdq) \cup {td}, ps, {})  BY <1>2, <1>4, tdq_addKeeps
<1>6. QED  BY <1>1, <1>2, <1>3, <1>5, SwitchToKeeps

\* The running thread sleeps, and one is stolen to the empty queue.
LEMMA tdq_trystealKeeps ==
    ASSUME IInv, NEW td \in Thread, NEW p \in Prio, NEW n \in Nat, tdq_trysteal(td, p, n) PROVE IInv'
<1> DEFINE ps == [pri EXCEPT ![cur] = AnyPrio, ![td] = p]
           s == [slice EXCEPT ![cur] = 0, ![td] = n]
           q == tdq_load_rem(tdq)
<1>1. cur # NoThread /\ td \in Away /\ SwitchTo(tdq_add(q, td, p, {}), ps, s)  BY DEF tdq_trysteal
<1>2. td \notin Queued(tdq) /\ cur \in Thread \ Queued(tdq) /\ Loaded(tdq, {cur}) /\ Sound(tdq)
  BY <1>1, InvHas DEF Away
<1>3. ps \in [Thread -> Prio] /\ ps[td] = p /\ s \in [Thread -> Nat]  BY InvHas, AnyPrioIn
<1>4. \A x \in Queued(tdq) : ps[x] = pri[x]  BY <1>2, InvHas
<1> HIDE DEF ps, s, q
<1>5. Classed(tdq, ps)  BY <1>4, InvHas, OtherPrio
<1>6. Holds(q, Queued(tdq), ps, {})  BY <1>2, <1>5, tdq_load_remKeeps DEF q
<1>7. Sound(q) /\ Loaded(q, {}) /\ Classed(q, ps) /\ td \in Thread \ (Queued(q) \cup {}) /\ {} \in SUBSET Thread
  BY <1>2, <1>6 DEF Holds
<1>8. Holds(tdq_add(q, td, ps[td], {}), Queued(q) \cup {td}, ps, {})  BY <1>3, <1>7, tdq_addKeeps
<1>9. QED  BY <1>1, <1>3, <1>8, SwitchToKeeps

\* What sched_setpreempt and its absence leave alone.
LEMMA PreemptHas ==
    ASSUME IInv, NEW p, Preempt(p) PROVE cur' = cur /\ {need', sliceend', owe'} \subseteq BOOLEAN
<1>1. need \in BOOLEAN /\ sliceend \in BOOLEAN /\ owe \in BOOLEAN  BY DEF IInv, Typed
<1>2. CASE sched_setpreempt(p)
  <2>1. cur' = cur /\ sliceend' = sliceend  BY <1>2 DEF sched_setpreempt
  <2>2. need' \in BOOLEAN /\ owe' \in BOOLEAN  BY <1>2, Zenon DEF sched_setpreempt
  <2>3. QED  BY <1>1, <2>1, <2>2
<1>3. CASE UNCHANGED cpuVars  BY <1>1, <1>3 DEF cpuVars
<1>4. QED  BY <1>2, <1>3 DEF Preempt

\* A thread comes to this queue while cur runs on.
LEMMA ArriveKeeps ==
    ASSUME IInv, NEW td \in Thread, NEW p \in Prio, NEW n \in Nat, NEW flags,
           Arrive(td, p, n, flags), Preempt(p)
    PROVE  IInv'
<1> DEFINE ps == [pri EXCEPT ![td] = p]
<1>1. td \in Away /\ pri' = ps /\ tdq' = tdq_add(tdq, td, p, flags)  BY DEF Arrive
<1>2. /\ slice' = [slice EXCEPT ![td] = n] /\ UNCHANGED <<pinned, nice, panic>>
      /\ cur' = cur /\ {need', sliceend', owe'} \subseteq BOOLEAN
  BY PreemptHas DEF Arrive
<1>3. /\ ps \in [Thread -> Prio] /\ ps[td] = p /\ Classed(tdq, ps) /\ td # cur
      /\ td \in Thread \ (Queued(tdq) \cup Running)
  BY <1>1, AwayHas, Zenon
<1>4. cur # NoThread => ps[cur] = pri[cur]  BY <1>3, InvHas
<1> HIDE DEF ps
<1>5. Sound(tdq) /\ Loaded(tdq, Running) /\ Running \in SUBSET Thread  BY InvHas
<1>6. Holds(tdq', Queued(tdq) \cup {td}, ps, Running) /\ tdq'.lowpri <= tdq.lowpri
  BY <1>1, <1>3, <1>5, tdq_addKeeps
<1>7. tdq'.lowpri <= PriOf(cur)
  <2>1. tdq'.lowpri \in Int /\ tdq.lowpri \in Int /\ PriOf(cur) \in Int
    <3>1. tdq' \in Tdq /\ tdq \in Tdq  BY <1>6, InvHas DEF Holds, Sound, Matched
    <3>2. PriOf(cur) \in 0 .. PRI_MAX_IDLE  BY InvHas, PriOfIn
    <3>3. QED  BY <3>1, <3>2, TdqHas
  <2>2. QED  BY <1>6, <2>1, InvHas
<1>8. Whole(tdq', pri', cur')
  <2>1. cur \notin Queued(tdq')  BY <1>3, <1>6, InvHas DEF Holds
  <2>2. QED  BY <1>1, <1>2, <1>4, <1>6, <1>7, <2>1 DEF Whole, Holds, Running, PriOf
<1>9. Typed'  BY <1>1, <1>2, <1>3 DEF IInv, Typed
<1>10. QED  BY <1>8, <1>9 DEF IInv

\* A queued thread goes to another queue.
LEMMA LeaveKeeps == ASSUME IInv, NEW td \in Queued(tdq), Leave(td) PROVE IInv'
<1>1. CASE Fault  BY <1>1, FaultKeeps
<1>2. ASSUME NEW q \in sched_rem(td),
             /\ tdq' = q
             /\ pri' = [pri EXCEPT ![td] = AnyPrio] /\ slice' = [slice EXCEPT ![td] = 0]
             /\ UNCHANGED <<cpuVars, pinned, nice, panic>>
      PROVE  IInv'
  <2>1. Holds(q, Queued(tdq) \ {td}, pri, Running) /\ q.lowpri <= PriOf(cur)  BY sched_remKeeps
  <2>2. td \in Thread /\ td # cur  BY InvHas
  <2>3. pri' \in [Thread -> Prio] /\ slice' \in [Thread -> Nat] /\ \A x \in Thread \ {td} : pri'[x] = pri[x]
    BY <1>2, InvHas, AnyPrioIn
  <2>4. Classed(q, pri')
    <3>1. \A x \in Queued(q) : pri'[x] = pri[x]  BY <2>1, <2>3, InvHas DEF Holds
    <3>2. QED  BY <2>1, <3>1, OtherPrio DEF Holds
  <2>5. cur' = cur /\ (cur # NoThread => pri'[cur] = pri[cur]) /\ cur \notin Queued(q)
    BY <1>2, <2>1, <2>2, <2>3, InvHas DEF cpuVars, Holds
  <2>6. Whole(tdq', pri', cur')  BY <1>2, <2>1, <2>4, <2>5 DEF Whole, Holds, Running, PriOf
  <2>7. Typed'  BY <1>2, <2>3 DEF IInv, Typed, cpuVars
  <2>8. QED  BY <2>6, <2>7 DEF IInv
<1>3. QED  BY <1>1, <1>2 DEF Leave

\* A queued thread is added again with a better priority.
LEMMA ElevateKeeps == ASSUME IInv, NEW td \in Thread, NEW p \in Prio, Elevate(td, p) PROVE IInv'
<1>1. CASE Fault  BY <1>1, FaultKeeps
<1>2. ASSUME td \in Queued(tdq), NEW q \in sched_rem(td), Preempt(p),
             /\ tdq' = tdq_add(q, td, p, {"BORROWING"})
             /\ pri' = [pri EXCEPT ![td] = p]
             /\ UNCHANGED <<pinned, nice, slice, panic>>
      PROVE  IInv'
  <2>1. Holds(q, Queued(tdq) \ {td}, pri, Running) /\ q.lowpri <= PriOf(cur)  BY <1>2, sched_remKeeps
  <2>2. td # cur  BY <1>2, InvHas
  <2>3. pri' \in [Thread -> Prio] /\ pri'[td] = p /\ \A x \in Thread \ {td} : pri'[x] = pri[x]  BY <1>2, InvHas
  <2>4. Classed(q, pri')
    <3>1. \A x \in Queued(q) : pri'[x] = pri[x]  BY <2>1, <2>3, InvHas DEF Holds
    <3>2. QED  BY <2>1, <3>1, OtherPrio DEF Holds
  <2>5. Sound(q) /\ Loaded(q, Running) /\ Running \in SUBSET Thread /\ td \in Thread \ (Queued(q) \cup Running)
    BY <2>1, <2>2, InvHas DEF Holds, Running
  <2>6. Holds(tdq', Queued(q) \cup {td}, pri', Running) /\ tdq'.lowpri <= q.lowpri
    <3>1. tdq' = tdq_add(q, td, pri'[td], {"BORROWING"})  BY <1>2, <2>3
    <3> DEFINE ps == pri'
    <3>2. ps \in [Thread -> Prio] /\ Classed(q, ps) /\ tdq' = tdq_add(q, td, ps[td], {"BORROWING"})  BY <2>3, <2>4, <3>1
    <3> HIDE DEF ps
    <3>3. Holds(tdq', Queued(q) \cup {td}, ps, Running) /\ tdq'.lowpri <= q.lowpri  BY <2>5, <3>2, tdq_addKeeps
    <3>4. QED  BY <3>3 DEF ps
  <2>7. tdq'.lowpri <= PriOf(cur)
    <3>1. tdq' \in Tdq /\ q \in Tdq  BY <2>5, <2>6 DEF Holds, Sound, Matched
    <3>2. PriOf(cur) \in 0 .. PRI_MAX_IDLE  BY InvHas, PriOfIn
    <3>3. tdq'.lowpri \in 0 .. PRI_MAX_IDLE /\ q.lowpri \in 0 .. PRI_MAX_IDLE  BY <3>1, TdqHas
    <3>4. QED  BY <2>1, <2>6, <3>2, <3>3
  <2>8. cur' = cur /\ {need', sliceend', owe'} \subseteq BOOLEAN  BY <1>2, PreemptHas
  <2>9. (cur # NoThread => pri'[cur] = pri[cur]) /\ cur \notin Queued(tdq')
    BY <2>1, <2>2, <2>3, <2>6, InvHas DEF Holds
  <2>10. Whole(tdq', pri', cur')  BY <2>6, <2>7, <2>8, <2>9 DEF Whole, Holds, Running, PriOf
  <2>11. Typed'  BY <1>2, <2>3, <2>8 DEF IInv, Typed
  <2>12. QED  BY <2>10, <2>11 DEF IInv
<1>3. QED  BY <1>1, <1>2 DEF Elevate

\* A queued thread with a worse priority is still in a queue that may hold it.
LEMMA DemoteKeeps == ASSUME IInv, NEW td \in Thread, NEW p \in Prio, Demote(td, p) PROVE IInv'
<1>1. td \in Queued(tdq) /\ p > pri[td] /\ pri' = [pri EXCEPT ![td] = p] /\ UNCHANGED <<tdq, cpuVars, pinned, nice, slice, panic>>
  BY DEF Demote
<1>2. pri' \in [Thread -> Prio] /\ td # cur /\ \A x \in Thread : pri'[x] = IF x = td THEN p ELSE pri[x]
  BY <1>1, InvHas
<1>3. Prio \subseteq Nat /\ PRI_MIN_BATCH \in Nat /\ PRI_MIN_IDLE \in Nat  BY TDQAssumption
<1>4. Classed(tdq, pri')
  <2>1. ASSUME NEW x \in Queued(tdq) PROVE ClassOf(x, tdq.where[x], pri')
    <3>1. ClassOf(x, tdq.where[x], pri)  BY InvHas, Zenon DEF Classed
    <3>2. x \in Thread /\ pri[x] \in Nat /\ pri'[x] \in Nat  BY <1>2, <1>3, InvHas
    <3>3. pri'[x] >= pri[x]  BY <1>1, <1>2, <3>2
    <3>4. QED  BY <1>3, <3>1, <3>2, <3>3 DEF ClassOf
  <2>2. QED  BY <2>1, Zenon DEF Classed
<1>5. cur' = cur /\ tdq' = tdq /\ (cur # NoThread => pri'[cur] = pri[cur])  BY <1>1, <1>2, InvHas DEF cpuVars
<1>6. Whole(tdq', pri', cur')  BY <1>4, <1>5 DEF IInv, Whole
<1>7. Typed'  BY <1>1, <1>2 DEF IInv, Typed, cpuVars
<1>8. QED  BY <1>6, <1>7 DEF IInv

\* The running thread gets a priority that lowpri does not exceed.
LEMMA NewPriority ==
    ASSUME IInv, cur # NoThread, NEW p \in Prio, NEW l \in 0 .. PRI_MAX_IDLE, l <= p,
           tdq' = [tdq EXCEPT !.lowpri = l], pri' = [pri EXCEPT ![cur] = p],
           UNCHANGED <<cpuVars, pinned, nice, slice, panic>>
    PROVE  IInv'
<1>1. pri' \in [Thread -> Prio] /\ pri'[cur] = p /\ \A x \in Thread \ {cur} : pri'[x] = pri[x]  BY InvHas
<1>2. \A x \in Queued(tdq) : pri'[x] = pri[x]  BY <1>1, InvHas
<1>3. Classed(tdq, pri')  BY <1>2, InvHas, OtherPrio
<1>4. LowpriSet(tdq, l, tdq')  BY InvHas, SetLowpri
<1>5. Sound(tdq') /\ Queued(tdq') = Queued(tdq) /\ Classed(tdq', pri')
  BY <1>3, <1>4, InvHas, SameQueuesKeep DEF LowpriSet
<1>6. cur' = cur  BY DEF cpuVars
<1>7. Loaded(tdq', {cur'} \ {NoThread})  BY <1>4, <1>5, <1>6, InvHas DEF Loaded, Running, LowpriSet
<1>8. Whole(tdq', pri', cur')  BY <1>1, <1>4, <1>5, <1>6, <1>7, InvHas DEF Whole, LowpriSet
<1>9. Typed'  BY <1>1 DEF IInv, Typed, cpuVars
<1>10. QED  BY <1>8, <1>9 DEF IInv

\* tdq_setlowpri for the running thread.
LEMMA tdq_setlowpriKeeps == ASSUME IInv, cur # NoThread, NEW p \in Prio, tdq_setlowpri(p) PROVE IInv'
<1>1. CASE Fault  BY <1>1, FaultKeeps
<1>2. ASSUME NEW td \in tdq_choose(tdq), tdq' = Lowered(tdq, td, p), pri' = [pri EXCEPT ![cur] = p],
             UNCHANGED <<cpuVars, pinned, nice, slice, panic>>
      PROVE  IInv'
  <2> DEFINE l == IF td = NoThread \/ pri[td] > p THEN p ELSE pri[td]
  <2>1. tdq' = [tdq EXCEPT !.lowpri = l]  BY <1>2 DEF Lowered
  <2>2. l \in 0 .. PRI_MAX_IDLE /\ l <= p
    <3>1. td \in Thread \cup {NoThread}
      <4>1. td \in Queued(tdq) \cup {NoThread}  BY <1>2, InvHas, tdq_chooseIn DEF Sound
      <4>2. QED  BY <4>1 DEF Queued
    <3>2. p \in 0 .. PRI_MAX_IDLE  BY TDQAssumption
    <3>3. PriOf(td) \in 0 .. PRI_MAX_IDLE  BY <3>1, InvHas, PriOfIn
    <3>4. QED  BY <3>2, <3>3 DEF PriOf
  <2> HIDE DEF l
  <2>3. QED  BY <1>2, <2>1, <2>2, NewPriority
<1>3. QED  BY <1>1, <1>2 DEF tdq_setlowpri

\* lowpri follows the running thread.
LEMMA AdjustKeeps == ASSUME IInv, NEW p \in Prio, Adjust(p) PROVE IInv'
<1>1. CASE p < tdq.lowpri \/ tdq.lowpri # pri[cur]
  <2> DEFINE l == IF p < tdq.lowpri THEN p ELSE tdq.lowpri
  <2>1. tdq' = [tdq EXCEPT !.lowpri = l]  BY <1>1, InvHas DEF Adjust, Tdq
  <2>2. l \in 0 .. PRI_MAX_IDLE /\ l <= p
    <3>1. p \in 0 .. PRI_MAX_IDLE /\ tdq.lowpri \in 0 .. PRI_MAX_IDLE  BY InvHas, TdqHas, TDQAssumption
    <3>2. QED  BY <3>1
  <2> HIDE DEF l
  <2>3. /\ cur # NoThread /\ pri' = [pri EXCEPT ![cur] = p]
        /\ UNCHANGED <<cpuVars, pinned, nice, slice, panic>>
    BY <1>1 DEF Adjust
  <2>4. QED  BY <2>1, <2>2, <2>3, NewPriority
<1>2. CASE ~(p < tdq.lowpri \/ tdq.lowpri # pri[cur])
  <2>1. cur # NoThread /\ tdq_setlowpri(p)  BY <1>2 DEF Adjust
  <2>2. QED  BY <2>1, tdq_setlowpriKeeps
<1>3. QED  BY <1>1, <1>2

\* A step that leaves the queues, the priorities and the running thread alone.
LEMMA OthersKeep == ASSUME IInv, Typed', UNCHANGED <<tdq, pri, cur>> PROVE IInv'
<1>1. Whole(tdq', pri', cur')  BY DEF IInv
<1>2. QED  BY <1>1 DEF IInv

\* The clock: the insert index moves on, and the removal index with it if its slot is empty.
LEMMA sched_clockKeeps == ASSUME IInv, sched_clock PROVE IInv'
<1>1. UNCHANGED <<cur, owe, pinned, pri, nice, panic>>  BY DEF sched_clock
<1>2. Typed'
  <2>1. slice' \in [Thread -> Nat]
    <3>1. CASE cur = NoThread  BY <3>1, InvHas DEF sched_clock
    <3>2. CASE cur # NoThread
      <4> DEFINE n == IF slice[cur] + 1 >= tdq_slice(tdq) THEN 0 ELSE slice[cur] + 1
      <4>1. slice' = [slice EXCEPT ![cur] = n]  BY <3>2, InvHas DEF sched_clock
      <4>2. slice[cur] \in Nat  BY <3>2, InvHas
      <4>3. n \in Nat  BY <4>2
      <4> HIDE DEF n
      <4>4. QED  BY <4>1, <4>3, InvHas
    <3>3. QED  BY <3>1, <3>2
  <2>2. need' \in BOOLEAN /\ sliceend' \in BOOLEAN
    <3>1. need \in BOOLEAN /\ sliceend \in BOOLEAN  BY DEF IInv, Typed
    <3>2. CASE cur = NoThread  BY <3>1, <3>2 DEF sched_clock
    <3>3. CASE cur # NoThread  BY <3>3, Zenon DEF sched_clock
    <3>4. QED  BY <3>2, <3>3
  <2>3. QED  BY <1>1, <2>1, <2>2 DEF IInv, Typed
<1>3. CASE tdq' = tdq  BY <1>1, <1>2, <1>3, OthersKeep
<1>4. CASE tdq.idx = tdq.ridx
  <2> DEFINE i == (tdq.idx + 1) % RQ_NQS
             j == IF tdq.queue["timeshare"][tdq.ridx] = <<>> THEN i ELSE tdq.ridx
  <2>1. tdq' = [tdq EXCEPT !.idx = i, !.ridx = j]  BY <1>4, InvHas DEF sched_clock, Tdq
  <2>2. i \in Slot /\ j \in Slot /\ (i # j => j = tdq.ridx /\ tdq.queue["timeshare"][j] # <<>>)
    <3>1. tdq.idx \in Slot /\ tdq.ridx \in Slot  BY InvHas, TdqHas
    <3>2. tdq.idx + 1 \in Int  BY <3>1, TDQAssumption DEF Slot
    <3>3. i \in Slot  BY <3>2, ModSlot
    <3> HIDE DEF i
    <3>4. QED  BY <3>1, <3>3
  <2>3. i # j => i = (j + 1) % RQ_NQS  BY <1>4, <2>2
  <2> HIDE DEF i, j
  <2>4. /\ tdq' \in Tdq /\ tdq'.queue = tdq.queue /\ tdq'.status = tdq.status /\ tdq'.where = tdq.where
        /\ tdq'.idx = i /\ tdq'.ridx = j /\ tdq'.load = tdq.load /\ tdq'.lowpri = tdq.lowpri
        /\ tdq'.transferable = tdq.transferable /\ tdq'.xfer = tdq.xfer
    BY <2>1, <2>2, InvHas DEF Tdq
  <2>5. Queued(tdq') = Queued(tdq)  BY <2>4 DEF Queued
  <2>6. Matched(tdq') /\ Transfers(tdq')  BY <2>4, <2>5, InvHas DEF Sound, Matched, Transfers
  <2>7. Drains(tdq')  BY <2>2, <2>3, <2>4 DEF Drains
  <2>8. Classed(tdq', pri')  BY <1>1, <2>4, <2>5, InvHas DEF Classed
  <2>9. Whole(tdq', pri', cur')  BY <1>1, <2>4, <2>5, <2>6, <2>7, <2>8 DEF IInv, Whole, Sound, Loaded
  <2>10. QED  BY <1>2, <2>9 DEF IInv
<1>5. QED  BY <1>3, <1>4 DEF sched_clock

\* sched_affinity of the running thread, a preemption that is owed, sched_nice and sched_pin.
LEMMA FlagsKeep ==
    ASSUME IInv, NEW td \in Thread,
           \/ need' = TRUE /\ UNCHANGED <<tdq, cur, sliceend, owe, pinned, pri, nice, slice, panic>>
           \/ owe' = TRUE /\ UNCHANGED <<tdq, cur, need, sliceend, pinned, pri, nice, slice, panic>>
           \/ td \notin Root /\ \E n \in Nice : sched_nice(td, n)
           \/ sched_pin
    PROVE  IInv'
<1>1. UNCHANGED <<tdq, pri, cur>>  BY DEF sched_nice, sched_pin, cpuVars
<1>2. Typed'
  <2>1. CASE need' = TRUE /\ UNCHANGED <<tdq, cur, sliceend, owe, pinned, pri, nice, slice, panic>>
    BY <2>1 DEF IInv, Typed
  <2>2. CASE owe' = TRUE /\ UNCHANGED <<tdq, cur, need, sliceend, pinned, pri, nice, slice, panic>>
    BY <2>2 DEF IInv, Typed
  <2>3. CASE td \notin Root /\ \E n \in Nice : sched_nice(td, n)
    <3>1. UNCHANGED <<tdq, cur, need, sliceend, owe, pinned, pri, slice, panic>> /\ nice' \in [Thread \ Root -> Nice]
      BY <2>3 DEF sched_nice, cpuVars, IInv, Typed
    <3>2. QED  BY <3>1 DEF IInv, Typed
  <2>4. CASE sched_pin
    <3>1. UNCHANGED <<tdq, cur, need, sliceend, owe, pri, nice, slice, panic>> /\ pinned' \subseteq Thread
      BY <2>4, TDQAssumption DEF sched_pin, cpuVars, IInv, Typed
    <3>2. QED  BY <3>1 DEF IInv, Typed
  <2>5. QED  BY <2>1, <2>2, <2>3, <2>4
<1>3. QED  BY <1>1, <1>2, OthersKeep

\* Another CPU takes a thread.
LEMMA tdq_move_awayKeeps == ASSUME IInv, tdq_move_away PROVE IInv'
<1>1. PICK ok \in SUBSET Thread : tdq_steal(tdq, ok) # NoThread /\ Leave(tdq_steal(tdq, ok))  BY DEF tdq_move_away
<1>2. tdq_steal(tdq, ok) \in Queued(tdq) \cup {NoThread}  BY InvHas, tdq_stealIn DEF Sound
<1>3. tdq_steal(tdq, ok) \in Queued(tdq)  BY <1>1, <1>2
<1>4. QED  BY <1>1, <1>3, LeaveKeeps

\* Every step of the thread queue keeps the invariant.
LEMMA NextKeeps == ASSUME IInv, [Next]_vars PROVE IInv'
<1>1. CASE Due \/ sched_relinquish
  <2>1. sched_switch(FALSE) \/ sched_switch(TRUE)  BY <1>1 DEF Due, ast, critical_exit, sched_idletd, sched_relinquish
  <2>2. QED  BY <2>1, sched_switchKeeps
<1>2. CASE sched_preempt
  <2>1. CASE sched_switch(TRUE)  BY <2>1, sched_switchKeeps
  <2>2. CASE owe' = TRUE /\ UNCHANGED <<tdq, cur, need, sliceend, pinned, pri, nice, slice, panic>>
    <3>1. UNCHANGED <<tdq, pri, cur>> /\ Typed'  BY <2>2 DEF IInv, Typed
    <3>2. QED  BY <3>1, OthersKeep
  <2>3. QED  BY <1>2, <2>1, <2>2 DEF sched_preempt
<1>3. CASE sched_clock  BY <1>3, sched_clockKeeps
<1>4. CASE tdq_move_away  BY <1>4, tdq_move_awayKeeps
<1>5. CASE sleep  BY <1>5, SwitchOutKeeps DEF sleep
<1>6. CASE sched_pin
  <2>1. cur \in Thread  BY <1>6, TDQAssumption DEF sched_pin
  <2>2. QED  BY <1>6, <2>1, FlagsKeep
<1>7. ASSUME NEW p \in Prio, sched_userret(p) PROVE IInv'  BY <1>7, tdq_setlowpriKeeps DEF sched_userret
<1>8. ASSUME NEW td \in Thread, sched_affinity(td) PROVE IInv'
  <2>1. CASE td \in Queued(tdq) /\ Leave(td)  BY <2>1, LeaveKeeps
  <2>2. CASE need' = TRUE /\ UNCHANGED <<tdq, cur, sliceend, owe, pinned, pri, nice, slice, panic>>
    BY <2>2, FlagsKeep
  <2>3. QED  BY <1>8, <2>1, <2>2 DEF sched_affinity
<1>9. ASSUME NEW td \in Thread, td \notin Root, NEW n \in Nice, sched_nice(td, n) PROVE IInv'  BY <1>9, FlagsKeep
<1>10. ASSUME NEW td \in Thread, NEW p \in Prio, sched_wakeup(td, p) PROVE IInv'
  BY <1>10, ArriveKeeps DEF sched_wakeup
<1>11. ASSUME NEW td \in Thread, NEW p \in Prio, sched_thread_priority(td, p) PROVE IInv'
  BY <1>11, ElevateKeeps, DemoteKeeps, AdjustKeeps DEF sched_thread_priority
<1>12. ASSUME NEW td \in Thread, NEW p \in Prio, NEW n \in 0 .. sched_slice - 1,
              \/ tdq_move_here(td, p, n) \/ tdq_idled(td, p, n) \/ tdq_trysteal(td, p, n)
              \/ Lend(td, p, n) \/ sched_switch_migrate(td, p, n)
       PROVE  IInv'
  <2>1. n \in Nat  BY TDQAssumption
  <2>2. CASE tdq_move_here(td, p, n)
    <3>1. Arrive(td, p, n, {}) /\ Preempt(p)  BY <2>2 DEF tdq_move_here, Preempt
    <3>2. QED  BY <2>1, <3>1, ArriveKeeps
  <2>3. CASE tdq_idled(td, p, n)  BY <2>1, <2>3, tdq_idledKeeps
  <2>4. CASE tdq_trysteal(td, p, n)  BY <2>1, <2>4, tdq_trystealKeeps
  <2>5. CASE Lend(td, p, n)  BY <2>1, <2>5, ArriveKeeps DEF Lend
  <2>6. CASE sched_switch_migrate(td, p, n)
    <3>1. PICK flags \in {{}, {"PREEMPTED"}} : Arrive(td, p, n, flags) /\ UNCHANGED cpuVars
      BY <2>6 DEF sched_switch_migrate
    <3>2. Preempt(p)  BY <3>1 DEF Preempt
    <3>3. QED  BY <2>1, <3>1, <3>2, ArriveKeeps
  <2>7. QED  BY <1>12, <2>2, <2>3, <2>4, <2>5, <2>6
<1>13. CASE UNCHANGED vars
  <2>1. UNCHANGED <<tdq, pri, cur>> /\ Typed'  BY <1>13 DEF vars, cpuVars, IInv, Typed
  <2>2. QED  BY <2>1, OthersKeep
<1>14. QED  BY <1>1, <1>2, <1>3, <1>4, <1>5, <1>6, <1>7, <1>8, <1>9, <1>10, <1>11, <1>12, <1>13 DEF Next

\* tdq_setup.
LEMMA InitHolds == ASSUME Init PROVE IInv
<1>1. /\ tdq = tdq_setup /\ cur = NoThread /\ pri = [td \in Thread |-> AnyPrio]
      /\ 0 \in Slot /\ PRI_MAX_IDLE \in 0 .. PRI_MAX_IDLE
  BY TDQAssumption DEF Init, Slot
<1>2. Typed  BY AnyPrioIn DEF Init, Typed
<1>3. tdq \in Tdq
  <2>1. [r \in RunQ |-> [i \in Slot |-> <<>>]] \in [RunQ -> [Slot -> Seq(Thread)]]  OBVIOUS
  <2>2. [td \in Thread |-> NotQueued] \in [Thread -> (RunQ \X Slot) \cup {NotQueued}]  OBVIOUS
  <2>3. QED  BY <1>1, <2>1, <2>2 DEF tdq_setup, Tdq
<1>4. Queued(tdq) = {}  BY <1>1 DEF tdq_setup, Queued
<1>5. Matched(tdq)
  <2>1. \A rq \in RunQ, i \in Slot : tdq.queue[rq][i] = <<>> /\ i \notin tdq.status[rq]  BY <1>1 DEF tdq_setup
  <2>2. Len(<<>>) = 0 /\ \A k \in 1 .. 0 : FALSE  OBVIOUS
  <2>3. QED  BY <1>3, <1>4, <2>1, <2>2 DEF Matched, Agree
<1>6. Cardinality({}) = 0  BY FS_EmptySet
<1>7. Transfers(tdq) /\ Drains(tdq)  BY <1>1, <1>4, <1>6 DEF Transfers, Drains, tdq_setup
<1>8. Classed(tdq, pri)  BY <1>4 DEF Classed
<1>9. Loaded(tdq, {cur} \ {NoThread})
  <2>1. Queued(tdq) \cup ({cur} \ {NoThread}) = {} /\ tdq.load = 0  BY <1>1, <1>4 DEF tdq_setup
  <2>2. QED  BY <1>6, <2>1, Zenon DEF Loaded
<1>10. tdq.lowpri <= PRI_MAX_IDLE  BY <1>1 DEF tdq_setup
<1>11. QED  BY <1>1, <1>2, <1>4, <1>5, <1>7, <1>8, <1>9, <1>10 DEF IInv, Whole, Sound

-----------------------------------------------------------------------------
(* The theorems.                                                           *)

\* The invariant of the thread queue of one CPU holds for any threads and priorities, and
\* whatever the draws of the lottery are.
THEOREM InvariantHolds == Spec => []IInv
<1>1. Init => IInv  BY InitHolds
<1>2. IInv /\ [Next]_vars => IInv'  BY NextKeeps
<1>3. QED  BY <1>1, <1>2, PTL DEF Spec

\* Every field of the tdq stays in its type: no slot of the calendar is out of its range,
\* and no counter becomes negative.
THEOREM TypesStay == Spec => []TypeOK
<1>1. IInv => TypeOK  BY DEF IInv, Typed, Whole, Sound, Matched, TypeOK
<1>2. QED  BY <1>1, InvariantHolds, PTL

\* The queues, the status bits and the threads' own fields agree for ever.
THEOREM QueuesStayMatched == Spec => []QueuesMatchThreads
<1>1. IInv => QueuesMatchThreads  BY DEF IInv, Whole, Sound, Matched, Agree, QueuesMatchThreads
<1>2. QED  BY <1>1, InvariantHolds, PTL

\* tdq_load and tdq_transferable are exact for ever.
THEOREM CountersStayExact == Spec => []CountersExact
<1>1. IInv => CountersExact  BY DEF IInv, Whole, Sound, Transfers, Loaded, CountersExact
<1>2. QED  BY <1>1, InvariantHolds, PTL

\* No queue ever holds a thread that the assertions of tdq_choose would refuse.
THEOREM QueuesKeepTheirClass == Spec => []QueuesHoldTheirClass
<1>1. IInv => QueuesHoldTheirClass  BY DEF IInv, Whole, Classed, ClassOf, QueuesHoldTheirClass
<1>2. QED  BY <1>1, InvariantHolds, PTL

\* The two indices of the calendar never part by more than a slot, nor at an empty one.
THEOREM CalendarStaysDraining == Spec => []CalendarDrains
<1>1. IInv => CalendarDrains  BY DEF IInv, Whole, Sound, Drains, CalendarDrains
<1>2. QED  BY <1>1, InvariantHolds, PTL

\* tdq_lowpri is never worse than the running thread's priority.
THEOREM LowpriStaysABound == Spec => []LowpriBoundsCurrent
<1>1. IInv => LowpriBoundsCurrent  BY DEF IInv, Whole, PriOf, LowpriBoundsCurrent
<1>2. QED  BY <1>1, InvariantHolds, PTL
=============================================================================
