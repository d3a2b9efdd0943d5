-------------------------- MODULE PageDaemonProofs --------------------------
(***************************************************************************)
(* Proof that no page daemon sleeps while a thread waits for pages, that   *)
(* the laundry thread is not forgotten, that the OOM killer needs the      *)
(* votes of all domains and that no page is lost, for any number of        *)
(* threads, domains and pages.                                             *)
(***************************************************************************)
EXTENDS PageDaemon, FiniteSetTheorems, WellFoundedInduction, TLAPS

WorkerRec == [pc : WorkerLabel, result : Result, seq : 0 .. vm_pageout_oom_seq, oom : BOOLEAN]
WasherRec == [pc : WasherLabel, target : BOOLEAN, in_shortfall : BOOLEAN]

\* The types of all but the pages.
Typed ==
    /\ {wanted, needed, pages_needed} \subseteq BOOLEAN
    /\ user \in [Thread -> UserState]
    /\ worker \in [Domain -> WorkerRec]
    /\ request \in {"IDLE", "BACKGROUND", "SHORTFALL"}
    /\ washer \in WasherRec

\* A thread that sleeps has set vm_pages_needed, and with vm_pages_needed set no daemon
\* sleeps: the two are only changed together, under the lock of the free queues.
NeedInv ==
    /\ \A t \in Thread : user[t] = "asleep" => needed
    /\ needed => \A d \in Domain : worker[d].pc \notin {"sleep", "asleep"}

\* The laundry thread has read every request, and is known to wait for a page.
LaundryInv ==
    /\ request # "IDLE" => washer.pc # "asleep"
    /\ washer.pc = "memwait" => pages_needed

\* vm_pageout_oom_vote counts the domains that have voted, not yet those that are about to
\* and still those that take their vote back.
Voters == Counted(worker)
VoteInv ==
    /\ vote = Cardinality(Voters)
    /\ \A d \in Domain : /\ worker[d].pc \in {"vote", "oom"} => worker[d].oom
                         /\ worker[d].pc = "recall" => ~worker[d].oom

\* The counts of pages are never negative, and no page is lost.
PagesInv ==
    /\ free \in Nat /\ laundry \in Nat /\ inactive \in [Domain -> Nat]
    /\ free + laundry + SumFunction(inactive) = Pages

\* The inductive invariant.
IInv == Typed /\ PagesInv /\ NeedInv /\ LaundryInv /\ VoteInv

-----------------------------------------------------------------------------
(* The pages of all domains.  SumFunction is a fold over a set in the      *)
(* order of a CHOOSE: one solution of a recursive equation.                *)

First(S) == CHOOSE x \in S : TRUE

\* h has the sum of f over every subset of U.
Adds(h, f, U) == h = [S \in SUBSET U |-> IF S = {} THEN 0 ELSE f[First(S)] + h[S \ {First(S)}]]

\* The fold is the value of a solution.
LEMMA SumIs == ASSUME NEW f \in [Domain -> Nat] PROVE SumFunction(f) = (CHOOSE h : Adds(h, f, Domain))[Domain]
<1>1. DOMAIN f = Domain  OBVIOUS
<1>2. SumFunction(f) = SumFunctionOnSet(f, Domain)  BY <1>1, Zenon DEF SumFunction
<1>3. SumFunctionOnSet(f, Domain) = (CHOOSE h : Adds(h, f, Domain))[Domain]
  BY Zenon DEF SumFunctionOnSet, FoldFunctionOnSet, MapThenFoldSet, Adds, First
<1>4. QED  BY <1>2, <1>3

\* What a solution says.
LEMMA AddsSays ==
    ASSUME NEW h, NEW f, NEW U, Adds(h, f, U), NEW S \in SUBSET U
    PROVE  h[S] = IF S = {} THEN 0 ELSE f[First(S)] + h[S \ {First(S)}]
<1> DEFINE w(T) == IF T = {} THEN 0 ELSE f[First(T)] + h[T \ {First(T)}]
<1>1. h = [T \in SUBSET U |-> w(T)]  BY Zenon DEF Adds
<1> HIDE DEF w
<1>2. h[S] = w(S)  BY <1>1
<1>3. QED  BY <1>2, Zenon DEF w

\* A set loses its first element.
LEMMA FirstOf == ASSUME NEW S, S # {} PROVE First(S) \in S /\ S \ {First(S)} \subseteq S /\ S \ {First(S)} # S
<1>1. First(S) \in S  BY DEF First
<1>2. QED  BY <1>1

\* A set of sets of domains has a least one.
LEMMA LeastSet ==
    ASSUME NEW B, B \subseteq SUBSET Domain, B # {}
    PROVE  \E u \in B : \A v \in B : v \subseteq u => v = u
<1>1. B \subseteq FiniteSubsetsOf(Domain)
  <2>1. ASSUME NEW u \in B PROVE u \in FiniteSubsetsOf(Domain)
    <3>1. u \in SUBSET Domain  BY <2>1
    <3>2. IsFiniteSet(u)  BY <3>1, DaemonAssumption, FS_Subset
    <3>3. QED  BY <3>1, <3>2 DEF FiniteSubsetsOf
  <2>2. QED  BY <2>1
<1>2. PICK u \in B : \A v \in B : ~(<<v, u>> \in StrictSubsetOrdering(Domain))
  BY <1>1, FS_StrictSubsetOrderingWellFounded, DaemonAssumption, WFMin
<1>3. ASSUME NEW v \in B, v \subseteq u, v # u PROVE FALSE
  <2>1. u \in SUBSET Domain /\ v \in SUBSET Domain  BY <1>3
  <2>2. <<v, u>> \in StrictSubsetOrdering(Domain)  BY <1>3, <2>1 DEF StrictSubsetOrdering
  <2>3. QED  BY <1>2, <1>3, <2>2
<1>4. QED  BY <1>2, <1>3

\* Two sums of the same function agree.
LEMMA AddsAgree ==
    ASSUME NEW a, NEW U \in SUBSET Domain, NEW V \in SUBSET Domain, NEW f, NEW g, Adds(f, a, U), Adds(g, a, V),
           NEW S \in SUBSET (U \cap V)
    PROVE  f[S] = g[S]
<1> DEFINE B == {T \in SUBSET (U \cap V) : f[T] # g[T]}
<1>1. SUFFICES ASSUME B # {} PROVE FALSE  OBVIOUS
<1>2. B \subseteq SUBSET Domain  OBVIOUS
<1> HIDE DEF B
<1>3. PICK u \in B : \A v \in B : v \subseteq u => v = u  BY <1>1, <1>2, LeastSet
<1>4. u \in SUBSET U /\ u \in SUBSET V /\ f[u] # g[u]  BY <1>3 DEF B
<1>5. f[u] = IF u = {} THEN 0 ELSE a[First(u)] + f[u \ {First(u)}]  BY <1>4, AddsSays
<1>6. g[u] = IF u = {} THEN 0 ELSE a[First(u)] + g[u \ {First(u)}]  BY <1>4, AddsSays
<1>7. CASE u = {}  BY <1>4, <1>5, <1>6, <1>7
<1>8. CASE u # {}
  <2> DEFINE v == u \ {First(u)}
  <2>1. v \subseteq u /\ v # u  BY <1>8, FirstOf
  <2>2. v \notin B /\ v \in SUBSET (U \cap V)  BY <1>3, <1>4, <2>1
  <2>3. f[v] = g[v]  BY <2>2 DEF B
  <2> HIDE DEF v
  <2>4. f[u] = a[First(u)] + f[v] /\ g[u] = a[First(u)] + g[v]  BY <1>5, <1>6, <1>8 DEF v
  <2>5. QED  BY <1>4, <2>3, <2>4, Zenon
<1>9. QED  BY <1>7, <1>8

\* There is a sum over every set of domains.
LEMMA SumExists == ASSUME NEW a, NEW U \in SUBSET Domain PROVE \E f : Adds(f, a, U)
<1> DEFINE B == {V \in SUBSET Domain : ~\E f : Adds(f, a, V)}
<1>1. SUFFICES ASSUME B # {} PROVE FALSE  OBVIOUS
<1>2. B \subseteq SUBSET Domain  OBVIOUS
<1> HIDE DEF B
<1>3. PICK V \in B : \A T \in B : T \subseteq V => T = V  BY <1>1, <1>2, LeastSet
<1>4. V \in SUBSET Domain /\ ~\E f : Adds(f, a, V)  BY <1>3 DEF B
<1>5. \A T \in SUBSET V : T # V => \E f : Adds(f, a, T)  BY <1>3, <1>4 DEF B
<1> DEFINE h(T) == CHOOSE f : Adds(f, a, T)
           w(T) == IF T = {} THEN 0 ELSE a[First(T)] + h(T \ {First(T)})[T \ {First(T)}]
           g == [T \in SUBSET V |-> w(T)]
<1>6. \A T \in SUBSET V : T # V => Adds(h(T), a, T)  BY <1>5
<1> HIDE DEF h
<1>7. \A T \in SUBSET V : g[T] = w(T)  OBVIOUS
<1>8. ASSUME NEW T \in SUBSET V, T # {} PROVE g[T \ {First(T)}] = h(T \ {First(T)})[T \ {First(T)}]
  <2> DEFINE S == T \ {First(T)}
  <2>1. S \in SUBSET V /\ S # V  BY <1>8, FirstOf
  <2> DEFINE hs == h(S)
  <2>2. Adds(hs, a, S) /\ S \in SUBSET S  BY <1>6, <2>1
  <2>3. g[S] = w(S)  BY <1>7, <2>1
  <2> HIDE DEF S, g, hs
  <2>4. hs[S] = IF S = {} THEN 0 ELSE a[First(S)] + hs[S \ {First(S)}]  BY <2>2, AddsSays
  <2>5. g[S] = hs[S]
    <3>1. CASE S = {}  BY <2>3, <2>4, <3>1
    <3>2. CASE S # {}
      <4> DEFINE R == S \ {First(S)}
                 hr == h(R)
      <4>1. R \subseteq S /\ R \in SUBSET V /\ R # V  BY <2>1, <3>2, FirstOf
      <4>2. Adds(hr, a, R)  BY <1>6, <4>1
      <4>3. S \in SUBSET Domain /\ R \in SUBSET Domain /\ R \in SUBSET (R \cap S)  BY <1>4, <2>1, <4>1
      <4>4. w(S) = a[First(S)] + hr[R]  BY <3>2, Zenon
      <4>5. hs[S] = a[First(S)] + hs[R]  BY <2>4, <3>2, Zenon
      <4> HIDE DEF R, hr
      <4>6. hr[R] = hs[R]  BY <2>2, <4>2, <4>3, AddsAgree
      <4>7. QED  BY <2>3, <4>4, <4>5, <4>6, Zenon
    <3>3. QED  BY <3>1, <3>2
  <2>6. QED  BY <2>5 DEF S, hs
<1>9. ASSUME NEW T \in SUBSET V
      PROVE  g[T] = IF T = {} THEN 0 ELSE a[First(T)] + g[T \ {First(T)}]
  <2>1. g[T] = w(T)  BY <1>7
  <2> HIDE DEF g
  <2>2. CASE T = {}  BY <2>1, <2>2
  <2>3. CASE T # {}
    <3>1. w(T) = a[First(T)] + h(T \ {First(T)})[T \ {First(T)}]  BY <2>3, Zenon
    <3>2. g[T \ {First(T)}] = h(T \ {First(T)})[T \ {First(T)}]  BY <1>8, <2>3
    <3>3. g[T] = a[First(T)] + g[T \ {First(T)}]  BY <2>1, <3>1, <3>2, Zenon
    <3>4. QED  BY <2>3, <3>3, Zenon
  <2>4. QED  BY <2>2, <2>3
<1>10. g = [T \in SUBSET V |-> g[T]]  OBVIOUS
<1> HIDE DEF g
<1> DEFINE z(T) == IF T = {} THEN 0 ELSE a[First(T)] + g[T \ {First(T)}]
<1>11. \A T \in SUBSET V : g[T] = z(T)  BY <1>9, Zenon
<1> HIDE DEF z
<1>12. g = [T \in SUBSET V |-> z(T)]  BY <1>10, <1>11
<1>13. Adds(g, a, V)  BY <1>12, Zenon DEF Adds, z
<1>14. QED  BY <1>4, <1>13

\* Of natural numbers the sum is one too, and no smaller than each of them.
LEMMA AddsNat ==
    ASSUME NEW f \in [Domain -> Nat], NEW h, Adds(h, f, Domain), NEW S \in SUBSET Domain
    PROVE  h[S] \in Nat /\ \A x \in S : f[x] <= h[S]
<1> DEFINE P(T) == h[T] \in Nat /\ \A x \in T : f[x] <= h[T]
           B == {T \in SUBSET Domain : ~P(T)}
<1>1. SUFFICES ASSUME B # {} PROVE FALSE  OBVIOUS
<1>2. B \subseteq SUBSET Domain  OBVIOUS
<1> HIDE DEF B, P
<1>3. PICK u \in B : \A v \in B : v \subseteq u => v = u  BY <1>1, <1>2, LeastSet
<1>4. u \in SUBSET Domain /\ ~P(u)  BY <1>3 DEF B
<1>5. h[u] = IF u = {} THEN 0 ELSE f[First(u)] + h[u \ {First(u)}]  BY <1>4, AddsSays
<1>6. CASE u = {}  BY <1>4, <1>5, <1>6 DEF P
<1>7. CASE u # {}
  <2> DEFINE v == u \ {First(u)}
  <2>1. v \subseteq u /\ v # u /\ First(u) \in u  BY <1>7, FirstOf
  <2>2. P(v)  BY <1>3, <1>4, <2>1 DEF B
  <2>3. h[u] = f[First(u)] + h[v] /\ \A x \in u : x = First(u) \/ x \in v  BY <1>5, <1>7
  <2> HIDE DEF v
  <2>4. f[First(u)] \in Nat /\ \A x \in u : f[x] \in Nat  BY <1>4, <2>1
  <2>5. P(u)  BY <2>2, <2>3, <2>4 DEF P
  <2>6. QED  BY <1>4, <2>5
<1>8. QED  BY <1>6, <1>7

\* One value changes, and the sum by as much, whatever the order of the fold.
LEMMA AddsChange ==
    ASSUME NEW f \in [Domain -> Nat], NEW h, Adds(h, f, Domain), NEW d \in Domain,
           NEW e \in [Domain -> Nat], \A x \in Domain : x # d => e[x] = f[x], NEW g, Adds(g, e, Domain),
           NEW S \in SUBSET Domain
    PROVE  g[S] = IF d \in S THEN h[S] - f[d] + e[d] ELSE h[S]
<1> DEFINE n == e[d]
           P(T) == g[T] = IF d \in T THEN h[T] - f[d] + n ELSE h[T]
           B == {T \in SUBSET Domain : ~P(T)}
<1>1. SUFFICES ASSUME B # {} PROVE FALSE  OBVIOUS
<1>2. B \subseteq SUBSET Domain  OBVIOUS
<1>3. n \in Nat /\ e[d] = n /\ \A x \in Domain : x # d => e[x] = f[x]  OBVIOUS
<1> HIDE DEF B, P, n
<1>4. PICK u \in B : \A v \in B : v \subseteq u => v = u  BY <1>1, <1>2, LeastSet
<1>5. u \in SUBSET Domain /\ ~P(u)  BY <1>4 DEF B
<1>6. h[u] = IF u = {} THEN 0 ELSE f[First(u)] + h[u \ {First(u)}]
  <2>1. Adds(h, f, Domain) /\ u \in SUBSET Domain  BY <1>5
  <2>2. QED  BY ONLY <2>1, AddsSays
<1>7. g[u] = IF u = {} THEN 0 ELSE e[First(u)] + g[u \ {First(u)}]
  <2>1. Adds(g, e, Domain) /\ u \in SUBSET Domain  BY <1>5
  <2>2. QED  BY ONLY <2>1, AddsSays
<1>8. CASE u = {}  BY <1>5, <1>6, <1>7, <1>8 DEF P
<1>9. CASE u # {}
  <2> DEFINE v == u \ {First(u)}
  <2>1. v \subseteq u /\ v # u /\ First(u) \in u  BY <1>9, FirstOf
  <2>2. P(v)  BY <1>4, <1>5, <2>1 DEF B
  <2>3. /\ h[u] = f[First(u)] + h[v] /\ g[u] = e[First(u)] + g[v]
        /\ d \in u <=> d = First(u) \/ d \in v
        /\ First(u) \notin v
    BY <1>6, <1>7, <1>9, <2>1
  <2>4. v \in SUBSET Domain /\ First(u) \in Domain  BY <1>5, <2>1
  <2> HIDE DEF v
  <2>5. h[v] \in Nat /\ f[d] \in Nat /\ n \in Nat /\ f[First(u)] \in Nat  BY <1>3, <2>4, AddsNat
  <2>6. P(u)
    <3>1. CASE d = First(u)
      <4>1. g[v] = h[v]  BY <2>2, <2>3, <3>1 DEF P
      <4>2. g[u] = n + h[v] /\ h[u] = f[d] + h[v]  BY <1>3, <2>3, <3>1, <4>1
      <4>3. g[u] = h[u] - f[d] + n /\ d \in u  BY <2>1, <2>5, <3>1, <4>2
      <4>4. QED  BY <4>3 DEF P
    <3>2. CASE d # First(u)
      <4>1. e[First(u)] = f[First(u)] /\ (d \in u <=> d \in v)  BY <1>3, <2>3, <2>4, <3>2
      <4>2. CASE d \in v  BY <2>2, <2>3, <2>5, <4>1, <4>2 DEF P
      <4>3. CASE d \notin v  BY <2>2, <2>3, <4>1, <4>3 DEF P
      <4>4. QED  BY <4>2, <4>3
    <3>3. QED  BY <3>1, <3>2
  <2>7. QED  BY <1>5, <2>6
<1>10. QED  BY <1>8, <1>9

\* The pages of all domains when those of one domain become n.
LEMMA SumChanges ==
    ASSUME NEW f \in [Domain -> Nat]
    PROVE  /\ SumFunction(f) \in Nat /\ \A d \in Domain : f[d] <= SumFunction(f)
           /\ \A d \in Domain, n \in Nat : SumFunction([f EXCEPT ![d] = n]) = SumFunction(f) - f[d] + n
<1> DEFINE h == CHOOSE h : Adds(h, f, Domain)
<1>1. Adds(h, f, Domain) /\ SumFunction(f) = h[Domain]  BY SumExists, SumIs
<1> HIDE DEF h
<1>2. SumFunction(f) \in Nat /\ \A d \in Domain : f[d] <= SumFunction(f)  BY <1>1, AddsNat
<1>3. ASSUME NEW d \in Domain, NEW n \in Nat PROVE SumFunction([f EXCEPT ![d] = n]) = SumFunction(f) - f[d] + n
  <2> DEFINE e == [f EXCEPT ![d] = n]
             g == CHOOSE g : Adds(g, e, Domain)
  <2>1. e \in [Domain -> Nat] /\ e[d] = n /\ \A x \in Domain : x # d => e[x] = f[x]  OBVIOUS
  <2> HIDE DEF e
  <2>2. Adds(g, e, Domain) /\ SumFunction(e) = g[Domain]  BY <2>1, SumExists, SumIs
  <2> HIDE DEF g
  <2>3. g[Domain] = h[Domain] - f[d] + n  BY <1>1, <2>1, <2>2, AddsChange
  <2>4. QED  BY <1>1, <2>2, <2>3 DEF e
<1>4. QED  BY <1>2, <1>3

\* At first no domain has a page.
LEMMA SumOfNone == SumFunction([d \in Domain |-> 0]) = 0
<1> DEFINE f == [d \in Domain |-> 0]
           h == CHOOSE h : Adds(h, f, Domain)
           B == {T \in SUBSET Domain : h[T] # 0}
<1>1. f \in [Domain -> Nat] /\ \A d \in Domain : f[d] = 0  OBVIOUS
<1> HIDE DEF f
<1>2. Adds(h, f, Domain) /\ SumFunction(f) = h[Domain]  BY <1>1, SumExists, SumIs
<1> HIDE DEF h
<1>3. ASSUME B # {} PROVE FALSE
  <2>1. B \subseteq SUBSET Domain  OBVIOUS
  <2> HIDE DEF B
  <2>2. PICK u \in B : \A v \in B : v \subseteq u => v = u  BY <1>3, <2>1, LeastSet
  <2>3. u \in SUBSET Domain /\ h[u] # 0  BY <2>2 DEF B
  <2>4. h[u] = IF u = {} THEN 0 ELSE f[First(u)] + h[u \ {First(u)}]  BY <1>2, <2>3, AddsSays
  <2>5. u # {} /\ h[u] = f[First(u)] + h[u \ {First(u)}]  BY <2>3, <2>4
  <2>6. First(u) \in u /\ u \ {First(u)} \subseteq u /\ u \ {First(u)} # u  BY <2>5, FirstOf
  <2>7. h[u \ {First(u)}] = 0 /\ f[First(u)] = 0  BY <1>1, <2>2, <2>3, <2>6 DEF B
  <2>8. QED  BY <2>3, <2>5, <2>7
<1>4. QED  BY <1>2, <1>3 DEF f

-----------------------------------------------------------------------------
(* Votes.                                                                  *)

\* The voters are finitely many; all domains, if they are as many.
LEMMA VotersFinite ==
    /\ IsFiniteSet(Voters) /\ Cardinality(Voters) \in Nat /\ Cardinality(Domain) \in Nat
    /\ Cardinality(Voters) <= Cardinality(Domain)
    /\ Cardinality(Voters) = Cardinality(Domain) => Voters = Domain
<1>1. Voters \in SUBSET Domain  BY DEF Voters, Counted
<1>2. QED  BY <1>1, DaemonAssumption, FS_Subset, FS_CardinalityType

\* The worker of one domain goes on, others only wake up: their votes stay as they are.
LEMMA VotesKept ==
    ASSUME \A d \in Domain : /\ worker'[d].oom = worker[d].oom
                             /\ \/ worker'[d].pc = worker[d].pc
                                \/ {worker[d].pc, worker'[d].pc} \cap {"vote", "oom", "recall"} = {}
    PROVE  Voters' = Voters /\ (VoteInv /\ vote' = vote => VoteInv')
<1>1. \A d \in Domain : d \in Counted(worker') <=> d \in Counted(worker)  BY DEF Counted
<1>2. Counted(worker') \subseteq Domain /\ Counted(worker) \subseteq Domain  BY DEF Counted
<1>3. Voters' = Voters  BY <1>1, <1>2 DEF Voters
<1>4. QED  BY <1>3 DEF VoteInv

\* vm_pageout_mightbe_oom decides, and changes the count later.
LEMMA MightbeOom ==
    ASSUME Typed, NEW d \in Domain, NEW w, worker[d] = w, NEW result \in Result
    PROVE  LET x == vm_pageout_mightbe_oom(w, result)
           IN  /\ x \in WorkerRec /\ x.pc \in {"top", "vote", "recall"}
               /\ x.pc = "vote" <=> x.oom /\ ~w.oom
               /\ x.pc = "recall" <=> ~x.oom /\ w.oom
<1> DEFINE seq   == IF result = "none" THEN w.seq + 1 ELSE 0
           votes == seq >= vm_pageout_oom_seq
           x     == vm_pageout_mightbe_oom(w, result)
<1>1. w \in WorkerRec  BY DEF Typed
<1>2. w.seq \in 0 .. vm_pageout_oom_seq /\ vm_pageout_oom_seq \in Nat \ {0} /\ w.oom \in BOOLEAN
  BY <1>1, DaemonAssumption DEF WorkerRec
<1>3. seq \in Nat /\ votes \in BOOLEAN  BY <1>2
<1>4. x = [pc |-> CASE votes /\ ~w.oom -> "vote" [] ~votes /\ w.oom -> "recall" [] OTHER -> "top",
           oom |-> votes, seq |-> IF votes THEN 0 ELSE seq, result |-> result]
  BY DEF vm_pageout_mightbe_oom, Failures
<1>5. x.seq \in 0 .. vm_pageout_oom_seq  BY <1>2, <1>3, <1>4
<1> HIDE DEF votes, seq, x
<1>6. /\ x.pc \in {"top", "vote", "recall"} /\ x.oom = votes
      /\ x.pc = "vote" <=> votes /\ ~w.oom
      /\ x.pc = "recall" <=> ~votes /\ w.oom
  BY <1>3, <1>4
<1>7. x \in WorkerRec  BY <1>3, <1>4, <1>5, <1>6 DEF WorkerRec, WorkerLabel
<1>8. QED  BY <1>6, <1>7 DEF x

\* The scan ends: the worker goes on to post a request, to vote, to take its vote back or to
\* the top of its loop; the count is what it was.
LEMMA ScanEnds ==
    ASSUME Typed, VoteInv, NEW d \in Domain, worker[d].pc \in {"scan", "asleep", "post"}, NEW result \in Result,
           \/ EndScan(d, result)
           \/ worker' = [worker EXCEPT ![d] = vm_pageout_mightbe_oom(@, result)],
           UNCHANGED vote
    PROVE  /\ worker' \in [Domain -> WorkerRec]
           /\ worker'[d].pc \in {"top", "post", "vote", "recall"} /\ \A e \in Domain : e # d => worker'[e] = worker[e]
           /\ VoteInv'
<1> DEFINE x == vm_pageout_mightbe_oom(worker[d], result)
           y == [worker[d] EXCEPT !.pc = "post", !.result = result]
<1>1. /\ x \in WorkerRec /\ x.pc \in {"top", "vote", "recall"}
      /\ x.pc = "vote" <=> x.oom /\ ~worker[d].oom
      /\ x.pc = "recall" <=> ~x.oom /\ worker[d].oom
  BY MightbeOom
<1>2. y \in WorkerRec /\ y.pc = "post" /\ y.oom = worker[d].oom
  BY DEF Typed, WorkerRec, WorkerLabel
<1>3. \/ worker' = [worker EXCEPT ![d] = x]
      \/ worker' = [worker EXCEPT ![d] = y]
  BY DEF EndScan
<1> HIDE DEF x, y
<1>4. /\ worker'[d] \in {x, y} /\ worker' \in [Domain -> WorkerRec]
      /\ \A e \in Domain : e # d => worker'[e] = worker[e]
  BY <1>1, <1>2, <1>3 DEF Typed
<1>5. worker[d].oom \in BOOLEAN /\ x.oom \in BOOLEAN  BY <1>1 DEF Typed, WorkerRec
<1>6. d \in Counted(worker') <=> d \in Counted(worker)  BY <1>1, <1>2, <1>4, <1>5 DEF Counted
<1>7. \A e \in Domain : e \in Counted(worker') <=> e \in Counted(worker)  BY <1>4, <1>6 DEF Counted
<1>8. Counted(worker') \subseteq Domain /\ Counted(worker) \subseteq Domain  BY DEF Counted
<1>9. Voters' = Voters  BY <1>7, <1>8 DEF Voters
<1>10. VoteInv'  BY <1>1, <1>2, <1>4, <1>5, <1>9 DEF VoteInv
<1>11. QED  BY <1>1, <1>2, <1>4, <1>10

-----------------------------------------------------------------------------
(* Sleeping and waking.                                                    *)

\* wakeup(&vm_cnt.v_free_count): nobody is left asleep, and the threads stay typed.
LEMMA AwakeTyped ==
    ASSUME NEW u \in [Thread -> UserState]
    PROVE  Awake(u) \in [Thread -> UserState] /\ \A t \in Thread : Awake(u)[t] # "asleep"
BY DEF Awake, UserState

\* wakeup(&vm_pageout_wanted): no daemon is asleep, one that is about to sleep stays so,
\* and votes do not change.
LEMMA WorkersWoken ==
    ASSUME Typed, VoteInv, WakeWorkers, UNCHANGED vote
    PROVE  /\ worker' \in [Domain -> WorkerRec]
           /\ \A d \in Domain : worker'[d].pc = IF worker[d].pc = "asleep" THEN "scan" ELSE worker[d].pc
           /\ VoteInv'
<1>1. \A d \in Domain :
        /\ worker'[d] \in WorkerRec
        /\ worker'[d].pc = IF worker[d].pc = "asleep" THEN "scan" ELSE worker[d].pc
        /\ worker'[d].oom = worker[d].oom
  BY DEF WakeWorkers, Typed, WorkerLabel, WorkerRec
<1>2. VoteInv'  BY <1>1, VotesKept
<1>3. QED  BY <1>1, <1>2 DEF WakeWorkers

\* pagedaemon_wakeup, without the lock.
LEMMA WantKeeps ==
    ASSUME IInv, WantPages, UNCHANGED vote
    PROVE  /\ wanted' \in BOOLEAN /\ worker' \in [Domain -> WorkerRec] /\ VoteInv'
           /\ \A d \in Domain : worker'[d].pc \in {"sleep", "asleep"} => worker[d].pc = worker'[d].pc
<1> USE DEF IInv
<1>1. CASE ~wanted  BY <1>1, WorkersWoken DEF WantPages
<1>2. CASE wanted
  <2>1. UNCHANGED <<wanted, worker>>  BY <1>2 DEF WantPages
  <2>2. VoteInv'  BY <2>1, VotesKept
  <2>3. QED  BY <2>1, <2>2 DEF Typed
<1>3. QED  BY <1>1, <1>2 DEF Typed

\* pagedaemon_wait, with the lock of the free queues, keeps the invariant.
LEMMA WaitKeeps ==
    ASSUME IInv, NEW t \in Thread, FreeLock, pagedaemon_wait(t),
           UNCHANGED <<pageVars, pages_needed, vote, request, washer>>
    PROVE  IInv'
<1>1. user' \in [Thread -> UserState] /\ PagesInv'
  BY DEF IInv, Typed, PagesInv, pageVars, pagedaemon_wait, UserState
<1>2. CASE ~wanted \/ ~needed
  <2>1. wanted' = TRUE /\ needed' = TRUE /\ WakeWorkers  BY <1>2 DEF pagedaemon_wait
  <2>2. Typed' /\ VoteInv'  BY <1>1, <2>1, WorkersWoken DEF IInv, Typed
  <2>3. NeedInv'  BY <2>1, WorkersWoken DEF IInv, NeedInv, FreeLock
  <2>4. QED  BY <1>1, <2>2, <2>3 DEF IInv, LaundryInv
<1>3. CASE wanted /\ needed
  <2>1. UNCHANGED <<wanted, worker>> /\ needed' = TRUE  BY <1>3 DEF pagedaemon_wait, IInv, Typed
  <2>2. Typed' /\ VoteInv'  BY <1>1, <2>1 DEF IInv, Typed, VoteInv, Voters, Counted
  <2>3. NeedInv'  BY <1>3, <2>1 DEF IInv, NeedInv
  <2>4. QED  BY <1>1, <2>2, <2>3 DEF IInv, LaundryInv
<1>4. QED  BY <1>2, <1>3 DEF IInv, Typed

\* vm_page_free_wakeup: threads wake when vm_pages_needed is cleared, and the laundry thread
\* when vm_pageout_pages_needed is.
LEMMA FreeWakeup ==
    ASSUME Typed, NeedInv, LaundryInv, NEW f \in Nat, NEW u \in [Thread -> UserState],
           \A t \in Thread : u[t] = "asleep" => user[t] = "asleep", vm_page_free_wakeup(f, u)
    PROVE  /\ {needed, pages_needed}' \subseteq BOOLEAN /\ (needed' => needed)
           /\ user' \in [Thread -> UserState] /\ \A t \in Thread : user'[t] = "asleep" => needed'
           /\ Relieved(f) \in WasherRec
           /\ Relieved(f).pc = "memwait" => pages_needed'
           /\ Relieved(f).pc = "asleep" => washer.pc = "asleep"
<1>1. {needed, pages_needed} \subseteq BOOLEAN  BY DEF Typed
<1>2. needed' = (needed /\ vm_page_count_min(f)) /\ pages_needed' = (pages_needed /\ f < v_pageout_free_min)
  BY DEF vm_page_free_wakeup
<1>3. {needed, pages_needed}' \subseteq BOOLEAN /\ (needed' => needed)
  BY <1>1, <1>2 DEF vm_page_count_min
<1>4. user' \in [Thread -> UserState] /\ \A t \in Thread : user'[t] = "asleep" => needed'
  <2>1. CASE needed /\ ~needed'  BY <2>1, AwakeTyped DEF vm_page_free_wakeup
  <2>2. CASE ~(needed /\ ~needed')  BY <2>2 DEF vm_page_free_wakeup, NeedInv
  <2>3. QED  BY <2>1, <2>2
<1>5. Relieved(f) \in WasherRec
  BY DEF Relieved, Typed, WasherLabel, WasherRec
<1>6. Relieved(f).pc = "asleep" => washer.pc = "asleep"  BY DEF Relieved, Typed
<1>7. ASSUME Relieved(f).pc = "memwait" PROVE pages_needed'
  <2>1. washer.pc = "memwait" /\ ~(pages_needed /\ f >= v_pageout_free_min)  BY <1>7 DEF Relieved, Typed
  <2>2. pages_needed /\ ~(f >= v_pageout_free_min)  BY <2>1 DEF LaundryInv
  <2>3. f < v_pageout_free_min  BY <2>2, DaemonAssumption
  <2>4. QED  BY <1>2, <2>2, <2>3
<1>8. QED  BY <1>3, <1>4, <1>5, <1>6, <1>7

-----------------------------------------------------------------------------
(* One lemma per action.                                                   *)

\* A page more that is inactive in a domain, and one less free.
LEMMA PageTaken ==
    ASSUME PagesInv, free > 0, NEW d \in Domain, inactive' = [inactive EXCEPT ![d] = inactive[d] + 1],
           free' = free - 1, UNCHANGED laundry
    PROVE  PagesInv'
<1>1. inactive[d] + 1 \in Nat  BY DEF PagesInv
<1>2. SumFunction(inactive') = SumFunction(inactive) - inactive[d] + (inactive[d] + 1)
  BY <1>1, SumChanges DEF PagesInv
<1>3. QED  BY <1>1, <1>2, SumChanges DEF PagesInv

\* An allocation changes no flag; the thread goes on, or will call pagedaemon_wakeup.
LEMMA vm_page_allocKeeps == ASSUME IInv, NEW t \in Thread, vm_page_alloc(t) PROVE IInv'
<1> USE DEF IInv, vm_page_alloc, washVars
<1>1. user' \in [Thread -> UserState] /\ user'[t] # "asleep" /\ \A s \in Thread : s # t => user'[s] = user[s]
  BY DEF Typed, UserState
<1>2. Typed'  BY <1>1 DEF Typed
<1>3. NeedInv' /\ LaundryInv'  BY <1>1 DEF NeedInv, LaundryInv
<1>4. VoteInv'  BY DEF VoteInv, Voters, Counted
<1>5. PagesInv'
  <2>1. free > 0  BY DaemonAssumption DEF PagesInv, Limit
  <2>2. QED  BY <2>1, PageTaken
<1>6. QED  BY <1>2, <1>3, <1>4, <1>5

\* A failed allocation waits at once, or leaves that to its caller.
LEMMA vm_page_alloc_failKeeps == ASSUME IInv, NEW t \in Thread, vm_page_alloc_fail(t) PROVE IInv'
<1>1. CASE pagedaemon_wait(t)  BY <1>1, WaitKeeps DEF vm_page_alloc_fail
<1>2. CASE user' = [user EXCEPT ![t] = "advise_wait"] /\ UNCHANGED <<wanted, needed, worker>>
  <2>1. user' \in [Thread -> UserState] /\ user'[t] # "asleep" /\ \A s \in Thread : s # t => user'[s] = user[s]
    BY <1>2 DEF IInv, Typed, UserState
  <2>2. UNCHANGED <<pageVars, wanted, needed, pages_needed, worker, vote, request, washer>>
    BY <1>2 DEF vm_page_alloc_fail
  <2>3. Typed' /\ PagesInv'  BY <2>1, <2>2 DEF IInv, Typed, PagesInv, pageVars
  <2>4. NeedInv' /\ LaundryInv' /\ VoteInv'  BY <2>1, <2>2 DEF IInv, NeedInv, LaundryInv, VoteInv, Voters, Counted
  <2>5. QED  BY <2>3, <2>4 DEF IInv
<1>3. QED  BY <1>1, <1>2 DEF vm_page_alloc_fail

\* pagedaemon_wakeup, without the lock: a daemon between its tests and its sleep misses it,
\* but then vm_pages_needed is not set.
LEMMA pagedaemon_wakeupKeeps == ASSUME IInv, NEW t \in Thread, pagedaemon_wakeup(t) PROVE IInv'
<1> USE DEF IInv, pagedaemon_wakeup
<1>1. user' \in [Thread -> UserState] /\ user'[t] # "asleep" /\ \A s \in Thread : s # t => user'[s] = user[s]
  BY DEF Typed, UserState
<1> PagesInv'  BY DEF PagesInv, pageVars
<1>2. Typed' /\ VoteInv'  BY <1>1, WantKeeps DEF Typed
<1>3. NeedInv' /\ LaundryInv'  BY <1>1, WantKeeps DEF NeedInv, LaundryInv
<1>4. QED  BY <1>2, <1>3

\* vm_wait.
LEMMA vm_waitKeeps == ASSUME IInv, NEW t \in Thread, vm_wait(t) PROVE IInv'
BY WaitKeeps DEF vm_wait

\* A killed process frees its pages.
LEMMA exitKeeps == ASSUME IInv, NEW t \in Thread, exit(t) PROVE IInv'
<1> USE DEF IInv, exit
<1>1. PICK d \in Domain : /\ inactive' = [inactive EXCEPT ![d] = 0]
                          /\ vm_page_free_wakeup(free + inactive[d], [user EXCEPT ![t] = "dead"])
                          /\ washer' = Relieved(free + inactive[d])
  OBVIOUS
<1> free + inactive[d] \in Nat  BY DEF PagesInv
<1> PagesInv'
  <2>1. SumFunction(inactive') = SumFunction(inactive) - inactive[d] + 0  BY <1>1, SumChanges DEF PagesInv
  <2>2. free' = free + inactive[d]  BY <1>1 DEF vm_page_free_wakeup
  <2>3. QED  BY <1>1, <2>1, <2>2, SumChanges DEF PagesInv
<1> DEFINE u == [user EXCEPT ![t] = "dead"]
<1>2. u \in [Thread -> UserState] /\ \A s \in Thread : u[s] = "asleep" => user[s] = "asleep"
  BY DEF Typed, UserState
<1> HIDE DEF u
<1>3. /\ {needed, pages_needed}' \subseteq BOOLEAN /\ (needed' => needed)
      /\ user' \in [Thread -> UserState] /\ \A s \in Thread : user'[s] = "asleep" => needed'
      /\ washer' \in WasherRec
      /\ washer'.pc = "memwait" => pages_needed'
      /\ washer'.pc = "asleep" => washer.pc = "asleep"
  BY <1>1, <1>2, FreeWakeup DEF u
<1>4. Typed' /\ VoteInv'  BY <1>3 DEF Typed, VoteInv, Voters, Counted
<1>5. NeedInv' /\ LaundryInv'  BY <1>3 DEF NeedInv, LaundryInv
<1>6. QED  BY <1>4, <1>5

\* The tests at the top of the loop of a daemon: it sleeps only if vm_pages_needed is clear
\* or is cleared with a wakeup of the threads.
LEMMA vm_pageout_workerKeeps == ASSUME IInv, NEW d \in Domain, vm_pageout_worker(d) PROVE IInv'
<1> USE DEF IInv
<1> DEFINE relief == needed /\ ~vm_page_count_min(free)
           want   == wanted /\ worker[d].result \in {"some", "none"}
           need   == needed /\ ~relief
<1>1. /\ needed' = need /\ wanted' = want
      /\ user' = IF relief THEN Awake(user) ELSE user
      /\ worker' = [worker EXCEPT ![d].pc = IF want \/ need THEN "scan" ELSE "sleep", ![d].result = "enough"]
      /\ UNCHANGED <<pageVars, pages_needed, vote, request, washer>>
  BY DEF vm_pageout_worker, Relief, washVars
<1>2. need \in BOOLEAN /\ want \in BOOLEAN /\ (need => needed) /\ (~relief => need = needed)
  BY DEF Typed, vm_page_count_min
<1>3. /\ worker' \in [Domain -> WorkerRec]
      /\ worker'[d].pc = IF want \/ need THEN "scan" ELSE "sleep"
      /\ \A e \in Domain : worker'[e].oom = worker[e].oom /\ (e # d => worker'[e] = worker[e])
  BY <1>1 DEF Typed, WorkerLabel, WorkerRec, Result
<1>4. user' \in [Thread -> UserState] /\ \A t \in Thread : user'[t] = "asleep" => user[t] = "asleep" /\ ~relief
  BY <1>1, AwakeTyped DEF Typed
<1> HIDE DEF relief, want, need
<1>5. Typed'  BY <1>1, <1>2, <1>3, <1>4 DEF Typed
<1>6. NeedInv'  BY <1>1, <1>2, <1>3, <1>4 DEF NeedInv
<1>7. VoteInv'  BY <1>1, <1>3, VotesKept DEF vm_pageout_worker, Relief
<1>8. QED  BY <1>1, <1>5, <1>6, <1>7 DEF LaundryInv, PagesInv, pageVars

\* A daemon falls asleep: vm_pages_needed is clear, as it was at its tests.
LEMMA mtx_sleepKeeps == ASSUME IInv, NEW d \in Domain, mtx_sleep(d) PROVE IInv'
<1> USE DEF IInv, mtx_sleep, washVars
<1>1. /\ worker' \in [Domain -> WorkerRec]
      /\ worker'[d].pc = "asleep"
      /\ \A e \in Domain : worker'[e].oom = worker[e].oom /\ (e # d => worker'[e] = worker[e])
  BY DEF Typed, WorkerLabel, At, WorkerRec
<1>2. ~needed  BY DEF NeedInv
<1>3. Typed'  BY <1>1 DEF Typed
<1>4. NeedInv' /\ LaundryInv'  BY <1>1, <1>2 DEF NeedInv, LaundryInv
<1>5. VoteInv'  BY <1>1, VotesKept
<1>6. QED  BY <1>3, <1>4, <1>5 DEF PagesInv, pageVars

\* A scan that frees nothing because it need not.
LEMMA ScanIdleKeeps ==
    ASSUME IInv, NEW d \in Domain, worker[d].pc \in {"scan", "asleep"}, ScanIdle(d)
    PROVE  IInv'
<1> USE DEF IInv, ScanIdle, washVars
<1>1. /\ worker' \in [Domain -> WorkerRec] /\ VoteInv'
      /\ worker'[d].pc \in {"top", "post", "vote", "recall"} /\ \A e \in Domain : e # d => worker'[e] = worker[e]
  BY ScanEnds DEF Result
<1>2. Typed'  BY <1>1 DEF Typed
<1>3. NeedInv' /\ LaundryInv'  BY <1>1 DEF NeedInv, LaundryInv
<1>4. QED  BY <1>1, <1>2, <1>3 DEF PagesInv, pageVars

\* The scan leaves vmd_inacthead in the queue, and an empty queue as it is.
LEMMA MaxscanBounded == ASSUME NEW n \in Nat PROVE Max({n - 1, 0}) \in 0 .. n
<1>1. PICK m \in {n - 1, 0} : \A x \in {n - 1, 0} : m >= x  OBVIOUS
<1>2. Max({n - 1, 0}) \in {n - 1, 0} /\ \A x \in {n - 1, 0} : Max({n - 1, 0}) >= x  BY <1>1 DEF Max
<1>3. QED  BY <1>2

\* A scan that frees pages and wakes who waits for them.
LEMMA vm_pageout_scanKeeps == ASSUME IInv, NEW d \in Domain, vm_pageout_scan(d) PROVE IInv'
<1> USE DEF IInv
<1>1. CASE ScanIdle(d)  BY <1>1, ScanIdleKeeps DEF vm_pageout_scan
<1>2. CASE ~ScanIdle(d)
  <2>1. PICK c \in Nat, l \in Nat, result \in Result :
          /\ c + l <= inactive[d] /\ Unqueued(d, c, l)
          /\ IF c > 0
             THEN vm_page_free_wakeup(free + c, user) /\ washer' = Relieved(free + c)
             ELSE UNCHANGED <<free, pages_needed, needed, user, washer>>
          /\ EndScan(d, result)
          /\ UNCHANGED <<wanted, vote, request>>
    <3>1. Max({inactive[d] - 1, 0}) \in 0 .. inactive[d] /\ inactive[d] \in Nat  BY MaxscanBounded DEF PagesInv
    <3> DEFINE Found(c, shortage) == CASE c = shortage -> "met" [] c = 0 -> "none" [] OTHER -> "some"
    <3>2. PICK deficit \in 0 .. MaxDeficit, c \in 0 .. Max({inactive[d] - 1, 0}), l \in 0 .. Max({inactive[d] - 1, 0}) :
            /\ c + l <= Max({inactive[d] - 1, 0}) /\ Unqueued(d, c, l)
            /\ IF c > 0
               THEN vm_page_free_wakeup(free + c, user) /\ washer' = Relieved(free + c)
               ELSE UNCHANGED <<free, pages_needed, needed, user, washer>>
            /\ EndScan(d, Found(c, vm_paging_target + deficit))
            /\ UNCHANGED <<wanted, vote, request>>
      BY <1>2 DEF vm_pageout_scan
    <3> DEFINE result == Found(c, vm_paging_target + deficit)
    <3>3. result \in Result  BY DEF Result
    <3>4. c \in Nat /\ l \in Nat /\ c + l <= inactive[d]  BY <3>1, <3>2
    <3> HIDE DEF Found
    <3>5. QED  BY <3>2, <3>3, <3>4
  <2> free + c \in Nat  BY DEF PagesInv
  <2> PagesInv'
    <3>1. free' = free + c  BY <2>1 DEF PagesInv, vm_page_free_wakeup
    <3>2. inactive[d] - c - l \in Nat  BY <2>1 DEF PagesInv
    <3>3. inactive' = [inactive EXCEPT ![d] = inactive[d] - c - l] /\ laundry' = laundry + l  BY <2>1 DEF Unqueued
    <3>4. SumFunction(inactive') = SumFunction(inactive) - inactive[d] + (inactive[d] - c - l)
      BY <3>2, <3>3, SumChanges DEF PagesInv
    <3>5. QED  BY <3>1, <3>2, <3>3, <3>4, SumChanges DEF PagesInv
  <2>2. /\ {needed, pages_needed}' \subseteq BOOLEAN /\ (needed' => needed)
        /\ user' \in [Thread -> UserState] /\ \A t \in Thread : user'[t] = "asleep" => needed'
        /\ washer' \in WasherRec
        /\ washer'.pc = "memwait" => pages_needed'
        /\ washer'.pc = "asleep" => washer.pc = "asleep"
    <3>1. user \in [Thread -> UserState] /\ washer \in WasherRec  BY DEF Typed
    <3>2. CASE c > 0  BY <2>1, <3>1, <3>2, FreeWakeup
    <3>3. CASE ~(c > 0)  BY <2>1, <3>1, <3>3 DEF Typed, LaundryInv, NeedInv
    <3>4. QED  BY <3>2, <3>3
  <2>3. /\ worker' \in [Domain -> WorkerRec] /\ VoteInv'
        /\ worker'[d].pc \in {"top", "post", "vote", "recall"} /\ \A e \in Domain : e # d => worker'[e] = worker[e]
    BY <2>1, ScanEnds DEF vm_pageout_scan
  <2>4. Typed'  BY <2>1, <2>2, <2>3 DEF Typed
  <2>5. NeedInv' /\ LaundryInv'  BY <2>1, <2>2, <2>3 DEF NeedInv, LaundryInv
  <2>6. QED  BY <2>3, <2>4, <2>5
<1>3. QED  BY <1>1, <1>2

\* A request is posted together with the wakeup of the laundry thread.
LEMMA RequestKeeps == ASSUME IInv, NEW d \in Domain, Request(d) PROVE IInv'
<1> USE DEF IInv, Request
<1>1. worker[d].result \in Result  BY DEF Typed, WorkerRec
<1>2. /\ worker' \in [Domain -> WorkerRec] /\ VoteInv'
      /\ worker'[d].pc \in {"top", "post", "vote", "recall"} /\ \A e \in Domain : e # d => worker'[e] = worker[e]
  BY <1>1, ScanEnds
<1>3. /\ request' \in {"IDLE", "BACKGROUND", "SHORTFALL"} /\ washer' \in WasherRec
      /\ washer'.pc # "asleep" /\ (washer'.pc = "memwait" => washer.pc = "memwait")
  BY DEF Typed, WasherRec, WasherLabel
<1>4. Typed'  BY <1>2, <1>3 DEF Typed
<1>5. NeedInv' /\ LaundryInv'  BY <1>2, <1>3 DEF NeedInv, LaundryInv
<1>6. QED  BY <1>2, <1>4, <1>5 DEF PagesInv, pageVars

\* A daemon moves on to label l without touching its flag.
LEMMA Labelled ==
    ASSUME Typed, NEW d \in Domain, NEW l \in WorkerLabel, worker' = At(d, l)
    PROVE  /\ worker' \in [Domain -> WorkerRec] /\ worker'[d].pc = l
           /\ \A e \in Domain : worker'[e].oom = worker[e].oom /\ (e # d => worker'[e] = worker[e])
BY DEF Typed, At, WorkerRec

\* A vote is counted.
LEMMA VoteKeeps == ASSUME IInv, NEW d \in Domain, Vote(d) PROVE IInv' /\ (worker'[d].pc = "oom" => Voters' = Domain)
<1> USE DEF IInv, Vote, washVars
<1>1. PICK l \in {"oom", "top"} : worker' = At(d, l) /\ (l = "oom" <=> vote = Cardinality(Domain) - 1)
  <2>1. CASE vote = Cardinality(Domain) - 1  BY <2>1
  <2>2. CASE vote # Cardinality(Domain) - 1  BY <2>2
  <2>3. QED  BY <2>1, <2>2
<1>2. /\ worker' \in [Domain -> WorkerRec] /\ worker'[d].pc = l
      /\ \A e \in Domain : worker'[e].oom = worker[e].oom /\ (e # d => worker'[e] = worker[e])
  BY <1>1, Labelled DEF WorkerLabel
<1>3. Voters' = Voters \cup {d} /\ d \notin Voters  BY <1>1, <1>2 DEF Voters, Counted, VoteInv
<1>4. vote' = Cardinality(Voters')  BY <1>3, VotersFinite, FS_AddElement DEF VoteInv
<1>5. VoteInv'  BY <1>1, <1>2, <1>4 DEF VoteInv
<1>6. Typed'  BY <1>2 DEF Typed
<1>7. NeedInv' /\ LaundryInv'  BY <1>1, <1>2 DEF NeedInv, LaundryInv
<1>8. ASSUME worker'[d].pc = "oom" PROVE Voters' = Domain
  <2>1. vote' = Cardinality(Domain)  BY <1>1, <1>2, <1>8, VotersFinite DEF VoteInv
  <2>2. Voters' \in SUBSET Domain  BY DEF Voters, Counted
  <2>3. QED  BY <1>4, <2>1, <2>2, FS_Subset, DaemonAssumption
<1>9. QED  BY <1>5, <1>6, <1>7, <1>8 DEF PagesInv, pageVars

\* A vote leaves the count.
LEMMA RecallKeeps == ASSUME IInv, NEW d \in Domain, Recall(d) PROVE IInv'
<1> USE DEF IInv, Recall, washVars
<1>1. /\ worker' \in [Domain -> WorkerRec] /\ worker'[d].pc = "top"
      /\ \A e \in Domain : worker'[e].oom = worker[e].oom /\ (e # d => worker'[e] = worker[e])
  BY Labelled DEF WorkerLabel
<1>2. Voters' = Voters \ {d} /\ d \in Voters  BY <1>1 DEF Voters, Counted, VoteInv
<1>3. vote' = Cardinality(Voters')  BY <1>2, VotersFinite, FS_RemoveElement DEF VoteInv
<1>4. VoteInv'  BY <1>1, <1>3 DEF VoteInv
<1>5. Typed'  BY <1>1 DEF Typed
<1>6. NeedInv' /\ LaundryInv'  BY <1>1 DEF NeedInv, LaundryInv
<1>7. QED  BY <1>4, <1>5, <1>6 DEF PagesInv, pageVars

\* A kill wakes every thread; with or without a victim the daemon will recall its vote.
LEMMA vm_pageout_oomKeeps == ASSUME IInv, NEW d \in Domain, vm_pageout_oom(d) PROVE IInv'
<1> USE DEF IInv, vm_pageout_oom, Kill, NoVictim, washVars
<1>1. user' \in [Thread -> UserState] /\ \A t \in Thread : user'[t] = "asleep" => user[t] = "asleep"
  BY AwakeTyped DEF Typed, UserState
<1>2. /\ worker' \in [Domain -> WorkerRec]
      /\ worker'[d].pc = "recall" /\ worker'[d].oom = FALSE /\ \A e \in Domain : e # d => worker'[e] = worker[e]
  BY DEF Typed, WorkerLabel, WorkerRec, AfterOom
<1>3. Typed'  BY <1>1, <1>2 DEF Typed
<1>4. NeedInv' /\ LaundryInv'  BY <1>1, <1>2 DEF NeedInv, LaundryInv
<1>5. Voters' = Voters  BY <1>2 DEF Voters, Counted, VoteInv
<1>6. QED  BY <1>2, <1>3, <1>4, <1>5 DEF VoteInv, PagesInv, pageVars

\* The laundry's pager allocates: it advises and waits like a thread.
LEMMA PagerKeeps == ASSUME IInv, Pager PROVE IInv'
<1> USE DEF IInv
<1>1. CASE PagerAlloc
  <2> USE <1>1 DEF PagerAlloc, washOnly
  <2>1. free > 0  BY DaemonAssumption DEF PagesInv
  <2>2. PagesInv'  BY <2>1, PageTaken
  <2>3. washer' \in WasherRec /\ washer'.pc \in {"advise", "launder"}  BY DEF Typed, WasherRec, WasherLabel
  <2>4. Typed' /\ NeedInv' /\ LaundryInv'  BY <2>3 DEF Typed, NeedInv, LaundryInv
  <2>5. QED  BY <2>2, <2>4 DEF VoteInv, Voters, Counted
<1>2. CASE PagerFails \/ PagerWaits
  <2>1. /\ UNCHANGED <<pageVars, request, wanted, needed, user, worker, vote>> /\ pages_needed' \in BOOLEAN
        /\ washer' \in WasherRec /\ washer'.pc # "asleep" /\ (washer'.pc = "memwait" => pages_needed')
    BY <1>2 DEF PagerFails, PagerWaits, Typed, WasherRec, WasherLabel
  <2>2. Typed' /\ NeedInv' /\ LaundryInv'  BY <2>1 DEF Typed, NeedInv, LaundryInv
  <2>3. QED  BY <2>1, <2>2 DEF VoteInv, Voters, Counted, PagesInv, pageVars
<1>3. CASE PagerAdvises
  <2> USE <1>3 DEF PagerAdvises
  <2>1. washer' \in WasherRec /\ washer'.pc \in {"launder", "wait"}  BY DEF Typed, WasherRec, WasherLabel
  <2>2. Typed' /\ VoteInv'  BY <2>1, WantKeeps DEF Typed
  <2>3. NeedInv' /\ LaundryInv'  BY <2>1, WantKeeps DEF NeedInv, LaundryInv
  <2>4. QED  BY <2>2, <2>3 DEF PagesInv, pageVars
<1>4. QED  BY <1>1, <1>2, <1>3 DEF Pager

\* The laundry writes pages and frees some.
LEMMA vm_pageout_launderKeeps == ASSUME IInv, vm_pageout_launder PROVE IInv'
<1> USE DEF IInv
<1>1. PICK k \in 0 .. laundry, c \in 0 .. laundry, d \in Domain, target \in BOOLEAN :
        /\ k + c <= laundry /\ laundry' = laundry - k - c
        /\ inactive' = [inactive EXCEPT ![d] = inactive[d] + k]
        /\ IF c > 0 THEN vm_page_free_wakeup(free + c, user) ELSE UNCHANGED <<free, pages_needed, needed, user>>
        /\ washer' = [washer EXCEPT !.pc = "check", !.target = target]
  BY DEF vm_pageout_launder
<1>2. UNCHANGED <<request, wanted, worker, vote>>  BY DEF vm_pageout_launder
<1>3. k \in Nat /\ c \in Nat /\ free + c \in Nat /\ inactive[d] + k \in Nat  BY DEF PagesInv
<1>4. free' = free + c  BY <1>1, <1>3 DEF vm_page_free_wakeup, PagesInv
<1>5. PagesInv'
  <2>1. SumFunction(inactive') = SumFunction(inactive) - inactive[d] + (inactive[d] + k)
    BY <1>1, <1>3, SumChanges DEF PagesInv
  <2>2. QED  BY <1>1, <1>3, <1>4, <2>1, SumChanges DEF PagesInv
<1>6. washer' \in WasherRec /\ washer'.pc = "check"  BY <1>1 DEF Typed, WasherRec, WasherLabel
<1>7. /\ {needed, pages_needed}' \subseteq BOOLEAN /\ (needed' => needed)
      /\ user' \in [Thread -> UserState] /\ \A t \in Thread : user'[t] = "asleep" => needed'
  <2>1. user \in [Thread -> UserState]  BY DEF Typed
  <2>2. CASE c > 0  BY <1>1, <1>3, <2>1, <2>2, FreeWakeup
  <2>3. CASE ~(c > 0)  BY <1>1, <2>3 DEF Typed, NeedInv
  <2>4. QED  BY <2>2, <2>3
<1>8. Typed'  BY <1>2, <1>6, <1>7 DEF Typed
<1>9. NeedInv' /\ LaundryInv'  BY <1>2, <1>6, <1>7 DEF NeedInv, LaundryInv
<1>10. QED  BY <1>2, <1>5, <1>8, <1>9 DEF VoteInv, Voters, Counted

\* The laundry thread looks for work.
LEMMA LaundryRoundKeeps == ASSUME IInv, Check \/ Woken PROVE IInv'
<1> USE DEF IInv
<1>1. UNCHANGED <<pageVars, wanted, needed, pages_needed, user, worker, vote>>  BY DEF Check, Woken, washOnly
<1>2. /\ request' \in {"IDLE", "BACKGROUND", "SHORTFALL"} /\ washer' \in WasherRec
      /\ request' # "IDLE" => washer'.pc # "asleep"
      /\ washer'.pc # "memwait"
  <2>1. ASSUME NextRound
        PROVE  /\ request' \in {"IDLE", "BACKGROUND", "SHORTFALL"} /\ washer'.pc \in {"launder", "check"}
               /\ washer' \in WasherRec
    BY <2>1 DEF NextRound, Typed, WasherLabel, WasherRec
  <2>2. CASE Check  BY <2>1, <2>2 DEF Check, Typed, WasherLabel, WasherRec
  <2>3. CASE Woken  BY <2>1, <2>3 DEF Woken
  <2>4. QED  BY <2>2, <2>3
<1>3. Typed' /\ NeedInv' /\ LaundryInv'  BY <1>1, <1>2 DEF Typed, NeedInv, LaundryInv
<1>4. QED  BY <1>1, <1>3 DEF VoteInv, Voters, Counted, PagesInv, pageVars

-----------------------------------------------------------------------------
(* The theorems.                                                           *)

\* All pages are free, and nobody waits.
LEMMA InitHolds == Init => IInv
<1> SUFFICES ASSUME Init PROVE IInv  OBVIOUS
<1>1. Typed /\ PagesInv
  <2>1. 0 \in 0 .. vm_pageout_oom_seq /\ Pages \in Nat  BY DaemonAssumption
  <2>2. [pc |-> "top", result |-> "enough", seq |-> 0, oom |-> FALSE]
          \in WorkerRec
    BY <2>1 DEF WorkerLabel, WorkerRec, Result
  <2>3. worker \in [Domain -> WorkerRec]
    BY <2>2 DEF Init
  <2>4. washer \in WasherRec  BY DEF Init, WasherLabel, WasherRec
  <2>5. user \in [Thread -> UserState] /\ PagesInv  BY <2>1, SumOfNone DEF Init, UserState, PagesInv
  <2>6. QED  BY <2>3, <2>4, <2>5 DEF Init, Typed
<1>2. Voters = {}  BY DEF Init, Voters, Counted
<1>3. VoteInv  BY <1>2, FS_EmptySet DEF Init, VoteInv
<1>4. QED  BY <1>1, <1>3 DEF Init, IInv, NeedInv, LaundryInv

\* Every step keeps the invariant.
LEMMA NextKeeps == IInv /\ [Next]_vars => IInv'
<1> SUFFICES ASSUME IInv, [Next]_vars PROVE IInv'  OBVIOUS
<1>1. ASSUME NEW t \in Thread, User(t) PROVE IInv'
  BY <1>1, vm_page_allocKeeps, vm_page_alloc_failKeeps, pagedaemon_wakeupKeeps, vm_waitKeeps, exitKeeps DEF User
<1>2. ASSUME NEW d \in Domain, Worker(d) PROVE IInv'
  BY <1>2, vm_pageout_workerKeeps, mtx_sleepKeeps, ScanIdleKeeps, vm_pageout_scanKeeps, RequestKeeps,
     VoteKeeps, vm_pageout_oomKeeps, RecallKeeps DEF Worker, timeout
<1>3. CASE UNCHANGED vars
  BY <1>3 DEF IInv, Typed, PagesInv, NeedInv, LaundryInv, VoteInv, Voters, vars, washVars, pageVars
<1>4. CASE Washer  BY <1>4, PagerKeeps, vm_pageout_launderKeeps, LaundryRoundKeeps DEF Washer
<1>5. QED  BY <1>1, <1>2, <1>3, <1>4 DEF Next

\* The flags, the sleepers and the votes agree in every state.
THEOREM InvariantHolds == Spec => []IInv
BY InitHolds, NextKeeps, PTL DEF Spec

\* No page is lost or counted twice: those that are free, in the laundry and inactive are
\* all pages, whatever the daemons, the laundry and the threads move at the same time.
THEOREM PagesStayCounted == Spec => []TypeOK
<1>1. ASSUME IInv PROVE TypeOK
  <2>1. SumFunction(inactive) \in Nat /\ \A d \in Domain : inactive[d] <= SumFunction(inactive)
    BY <1>1, SumChanges DEF IInv, PagesInv
  <2>2. free \in 0 .. Pages /\ laundry \in 0 .. Pages /\ inactive \in [Domain -> 0 .. Pages]
    BY <1>1, <2>1, DaemonAssumption DEF IInv, PagesInv
  <2>3. vote \in 0 .. Cardinality(Domain)
    BY <1>1, VotersFinite DEF IInv, VoteInv
  <2>4. QED  BY <1>1, <2>2, <2>3 DEF TypeOK, IInv, Typed, PagesInv, WorkerRec, WasherRec
<1>2. QED  BY <1>1, InvariantHolds, PTL

\* However many threads and domains there are, no page daemon sleeps or is about to while a
\* thread waits for pages, and the laundry thread is told of every request and every page.
THEOREM DaemonsStayAwake == Spec => []DaemonsAwakeForSleepers
<1>1. IInv => DaemonsAwakeForSleepers  BY DEF IInv, NeedInv, LaundryInv, DaemonsAwakeForSleepers
<1>2. QED  BY <1>1, InvariantHolds, PTL

\* A daemon starts to kill only in a step after which the votes of all domains are counted:
\* each has failed and voted, and at most takes its vote back at this moment.
THEOREM KillsNeedEveryVote == Spec => KillNeedsEveryVote
<1> DEFINE A == \A d \in Domain : worker[d].pc # "oom" /\ worker'[d].pc = "oom" => Counted(worker') = Domain
<1>1. ASSUME IInv, [Next]_vars PROVE [A]_vars
  <2> USE <1>1 DEF IInv
  <2>1. ASSUME WantPages PROVE \A d \in Domain : worker'[d].pc = "oom" => worker[d].pc = "oom"
    BY <2>1 DEF WantPages, WakeWorkers, Typed, WorkerRec
  <2>2. ASSUME NEW t \in Thread, User(t) PROVE \A d \in Domain : worker'[d].pc = "oom" => worker[d].pc = "oom"
    BY <2>1, <2>2 DEF User, vm_page_alloc, vm_page_alloc_fail, pagedaemon_wait, pagedaemon_wakeup, vm_wait,
       exit, WakeWorkers, Typed, WorkerRec
  <2>3. ASSUME NEW d \in Domain, Worker(d) PROVE A
    <3>1. CASE vm_pageout_scan(d) \/ timeout(d) \/ Request(d)
      <4>1. PICK result : \/ EndScan(d, result)
                          \/ worker' = [worker EXCEPT ![d] = vm_pageout_mightbe_oom(worker[d], result)]
        BY <3>1 DEF vm_pageout_scan, timeout, ScanIdle, Request
      <4>2. vm_pageout_mightbe_oom(worker[d], result).pc # "oom"  BY DEF vm_pageout_mightbe_oom, Failures
      <4>3. worker'[d].pc # "oom" /\ \A e \in Domain : e # d => worker'[e] = worker[e]
        <5> DEFINE x == vm_pageout_mightbe_oom(worker[d], result)
                   y == [worker[d] EXCEPT !.pc = "post", !.result = result]
        <5>1. worker' = [worker EXCEPT ![d] = x] \/ worker' = [worker EXCEPT ![d] = y]  BY <4>1 DEF EndScan
        <5>2. x.pc # "oom" /\ y.pc # "oom"  BY <4>2 DEF Typed, WorkerRec
        <5> HIDE DEF x, y
        <5>3. QED  BY <5>1, <5>2 DEF Typed
      <4>4. QED  BY <4>3
    <3>2. CASE vm_pageout_worker(d) \/ mtx_sleep(d) \/ vm_pageout_oom(d) \/ Recall(d)
      <4>1. worker'[d].pc # "oom" /\ \A e \in Domain : e # d => worker'[e] = worker[e]
        BY <3>2 DEF vm_pageout_worker, Relief, mtx_sleep, vm_pageout_oom, Kill, NoVictim, AfterOom, Recall, At, Typed, WorkerRec
      <4>2. QED  BY <4>1
    <3>3. CASE Vote(d)
      <4>1. \A e \in Domain : e # d => worker'[e] = worker[e]  BY <3>3 DEF Vote, At, Typed
      <4>2. QED  BY <3>3, <4>1, VoteKeeps DEF Voters
    <3>4. QED  BY <2>3, <3>1, <3>2, <3>3 DEF Worker
  <2>4. ASSUME Washer PROVE \A d \in Domain : worker'[d].pc = "oom" => worker[d].pc = "oom"
    BY <2>1, <2>4 DEF Washer, Pager, PagerAlloc, PagerFails, PagerAdvises, PagerWaits, vm_pageout_launder, Check,
       Woken, washOnly
  <2>5. QED  BY <1>1, <2>2, <2>3, <2>4 DEF Next
<1>2. QED  BY <1>1, InvariantHolds, PTL DEF Spec, KillNeedsEveryVote
=============================================================================
