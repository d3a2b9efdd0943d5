--------------------------- MODULE LotteryProofs ---------------------------
(***************************************************************************)
(* The draw of the lottery is proportional to the tickets, for any number  *)
(* of threads and any tickets.  The tickets are added up by a fold over a  *)
(* set, in the order of a CHOOSE; the proof shows that the sum is the sum  *)
(* of a prefix of the queue, and that the thread k wins for the random     *)
(* numbers between two of these sums.                                      *)
(***************************************************************************)
EXTENDS TDQProofs

-----------------------------------------------------------------------------
(* Sums of prefixes.                                                       *)

\* p[i] is the sum of the first i values of g.
Sums(g, n, p) == p \in [0 .. n -> Int] /\ p[0] = 0 /\ \A i \in 1 .. n : p[i] = p[i - 1] + g[i]

\* They exist; by the least prefix that has none.
LEMMA SumsExist == ASSUME NEW n \in Nat, NEW g \in [1 .. n -> Int] PROVE \E p : Sums(g, n, p)
<1> DEFINE B == {m \in 0 .. n : ~\E p : Sums(g, m, p)}
<1>1. B \in SUBSET Nat  OBVIOUS
<1>2. ASSUME B # {} PROVE FALSE
  <2> HIDE DEF B
  <2>1. PICK m \in B : \A x \in B : m <= x  BY <1>1, <1>2, LeastExists
  <2>2. m \in 0 .. n /\ ~\E p : Sums(g, m, p)  BY DEF B
  <2>3. CASE m = 0
    <3>1. [i \in 0 .. 0 |-> 0] \in [0 .. 0 -> Int] /\ [i \in 0 .. 0 |-> 0][0] = 0 /\ \A i \in 1 .. 0 : FALSE  OBVIOUS
    <3>2. Sums(g, 0, [i \in 0 .. 0 |-> 0])  BY <3>1 DEF Sums
    <3>3. QED  BY <2>2, <2>3, <3>2
  <2>4. CASE m # 0
    <3>1. m - 1 \in 0 .. n /\ ~(m <= m - 1) /\ m \in 1 .. n  BY <2>2, <2>4
    <3>2. PICK p : Sums(g, m - 1, p)  BY <2>1, <3>1 DEF B
    <3> DEFINE q == [i \in 0 .. m |-> IF i < m THEN p[i] ELSE p[m - 1] + g[m]]
    <3>3. p \in [0 .. m - 1 -> Int] /\ p[0] = 0 /\ \A i \in 1 .. m - 1 : p[i] = p[i - 1] + g[i]  BY <3>2 DEF Sums
    <3>4. p[m - 1] + g[m] \in Int  BY <3>1, <3>3
    <3>5. q \in [0 .. m -> Int]
      <4>1. ASSUME NEW i \in 0 .. m PROVE q[i] \in Int
        <5>1. CASE i < m
          <6>1. i \in 0 .. m - 1  BY <3>1, <5>1
          <6>2. QED  BY <3>3, <5>1, <6>1
        <5>2. CASE ~(i < m)  BY <3>4, <5>2
        <5>3. QED  BY <5>1, <5>2
      <4>2. QED  BY <4>1
    <3>6. q[0] = 0  BY <3>1, <3>3
    <3>7. ASSUME NEW i \in 1 .. m PROVE q[i] = q[i - 1] + g[i]
      <4>1. i - 1 \in 0 .. m /\ i - 1 < m /\ q[i - 1] = p[i - 1]  BY <3>1
      <4>2. CASE i < m
        <5>1. i \in 1 .. m - 1 /\ q[i] = p[i]  BY <3>1, <4>2
        <5>2. QED  BY <3>3, <4>1, <5>1
      <4>3. CASE i = m
        <5>1. q[i] = p[m - 1] + g[m]  BY <3>1, <4>3
        <5>2. QED  BY <4>1, <4>3, <5>1
      <4>4. QED  BY <3>1, <4>2, <4>3
    <3> HIDE DEF q
    <3>8. Sums(g, m, q)  BY <3>5, <3>6, <3>7 DEF Sums
    <3>9. QED  BY <2>2, <3>8
  <2>5. QED  BY <2>3, <2>4
<1>3. n \in 0 .. n  OBVIOUS
<1>4. QED  BY <1>2, <1>3

\* The values f, but for d more at the place x.
DiffersAt(g, f, n, x, d) ==
    /\ g \in [1 .. n -> Int] /\ f \in [1 .. n -> Int] /\ x \in 1 .. n /\ d \in Int
    /\ \A i \in 1 .. n : g[i] = IF i = x THEN f[i] + d ELSE f[i]

\* Two of them that add up the same values, but for d at the place x, differ by d from there on.
LEMMA SumsDiffer ==
    ASSUME NEW n \in Nat, NEW g, NEW f, NEW x, NEW d, DiffersAt(g, f, n, x, d),
           NEW p, NEW q, Sums(g, n, p), Sums(f, n, q)
    PROVE  p[n] = q[n] + d
<1> DEFINE B == {i \in 0 .. n : ~(p[i] = IF x <= i THEN q[i] + d ELSE q[i])}
<1>0. /\ g \in [1 .. n -> Int] /\ f \in [1 .. n -> Int] /\ x \in 1 .. n /\ d \in Int
      /\ \A i \in 1 .. n : g[i] = IF i = x THEN f[i] + d ELSE f[i]
  BY DEF DiffersAt
<1>1. B \in SUBSET Nat  OBVIOUS
<1>2. /\ p \in [0 .. n -> Int] /\ p[0] = 0 /\ \A i \in 1 .. n : p[i] = p[i - 1] + g[i]
      /\ q \in [0 .. n -> Int] /\ q[0] = 0 /\ \A i \in 1 .. n : q[i] = q[i - 1] + f[i]
  BY DEF Sums
<1>3. ASSUME B # {} PROVE FALSE
  <2> HIDE DEF B
  <2>1. PICK m \in B : \A y \in B : m <= y  BY <1>1, <1>3, LeastExists
  <2>2. m \in 0 .. n /\ ~(p[m] = IF x <= m THEN q[m] + d ELSE q[m])  BY DEF B
  <2>3. m # 0  BY <1>0, <1>2, <2>2
  <2>4. m \in 1 .. n /\ m - 1 \in 0 .. n /\ ~(m <= m - 1)  BY <2>2, <2>3
  <2>5. p[m - 1] = IF x <= m - 1 THEN q[m - 1] + d ELSE q[m - 1]  BY <2>1, <2>4 DEF B
  <2>6. p[m] = p[m - 1] + g[m] /\ q[m] = q[m - 1] + f[m] /\ g[m] = IF m = x THEN f[m] + d ELSE f[m]  BY <1>0, <1>2, <2>4
  <2>7. p[m - 1] \in Int /\ q[m - 1] \in Int /\ f[m] \in Int /\ g[m] \in Int  BY <1>0, <1>2, <2>4
  <2>8. QED  BY <1>0, <2>2, <2>4, <2>5, <2>6, <2>7
<1>4. p[n] = IF x <= n THEN q[n] + d ELSE q[n]
  <2>1. n \in 0 .. n  OBVIOUS
  <2>2. QED  BY <1>3, <2>1
<1>5. QED  BY <1>0, <1>4

\* With values that are not negative the sums grow.
LEMMA SumsGrow ==
    ASSUME NEW n \in Nat, NEW g \in [1 .. n -> Int], NEW p, Sums(g, n, p), \A i \in 1 .. n : g[i] >= 0,
           NEW j \in 0 .. n
    PROVE  \A i \in j .. n : p[j] <= p[i]
<1> DEFINE B == {i \in j .. n : ~(p[j] <= p[i])}
<1>1. B \in SUBSET Nat  OBVIOUS
<1>2. p \in [0 .. n -> Int] /\ \A i \in 1 .. n : p[i] = p[i - 1] + g[i]  BY DEF Sums
<1>3. ASSUME B # {} PROVE FALSE
  <2> HIDE DEF B
  <2>1. PICK m \in B : \A y \in B : m <= y  BY <1>1, <1>3, LeastExists
  <2>2. m \in j .. n /\ ~(p[j] <= p[m])  BY DEF B
  <2>3. p[j] \in Int  BY <1>2
  <2>4. m # j  BY <2>2, <2>3
  <2>5. m \in 1 .. n /\ m - 1 \in j .. n /\ ~(m <= m - 1) /\ m - 1 \in 0 .. n  BY <2>2, <2>4
  <2>6. p[j] <= p[m - 1]  BY <2>1, <2>5 DEF B
  <2>7. p[m] = p[m - 1] + g[m] /\ g[m] \in Int /\ g[m] >= 0 /\ p[m - 1] \in Int  BY <1>2, <2>5
  <2>8. QED  BY <2>2, <2>3, <2>6, <2>7
<1>4. QED  BY <1>3

-----------------------------------------------------------------------------
(* The fold over a set.                                                    *)

\* The values of g at the places in t, and their sum.
Masked(g, k, t) == [i \in 1 .. k |-> IF i \in t THEN g[i] ELSE 0]
SumOver(g, k, t) == (CHOOSE p : Sums(Masked(g, k, t), k, p))[k]

\* The sum is that of any prefix sums.
LEMMA SumOverIs ==
    ASSUME NEW k \in Nat, NEW g \in [1 .. k -> Int], NEW t, NEW p, Sums(Masked(g, k, t), k, p)
    PROVE  SumOver(g, k, t) = p[k] /\ SumOver(g, k, t) \in Int
<1> DEFINE m == Masked(g, k, t)
           q == CHOOSE q : Sums(m, k, q)
<1>1. m \in [1 .. k -> Int]  BY DEF Masked
<1> HIDE DEF m
<1>2. Sums(m, k, p)  BY DEF m
<1>3. Sums(m, k, q)  BY <1>2
<1>4. SumOver(g, k, t) = q[k]  BY DEF SumOver, m
<1> HIDE DEF q
<1>6. q[k] = p[k] /\ q[k] \in Int
  <2>1. p[k] \in Int /\ q[k] \in Int /\ p[0] = 0 /\ q[0] = 0  BY <1>2, <1>3 DEF Sums
  <2>2. CASE k = 0  BY <2>1, <2>2
  <2>3. CASE k # 0
    <3>1. DiffersAt(m, m, k, 1, 0)  BY <1>1, <2>3 DEF DiffersAt
    <3>2. q[k] = p[k] + 0  BY <1>2, <1>3, <3>1, SumsDiffer
    <3>3. QED  BY <2>1, <3>2
  <2>4. QED  BY <2>2, <2>3
<1>7. QED  BY <1>4, <1>6

\* One place less, one value less, whichever it is.
LEMMA SumOverLess ==
    ASSUME NEW k \in Nat, NEW g \in [1 .. k -> Int], NEW t \in SUBSET (1 .. k), NEW x \in t
    PROVE  SumOver(g, k, t) = g[x] + SumOver(g, k, t \ {x}) /\ SumOver(g, k, t) \in Int
<1> DEFINE a == Masked(g, k, t)
           b == Masked(g, k, t \ {x})
<1>1. /\ a \in [1 .. k -> Int] /\ b \in [1 .. k -> Int] /\ x \in 1 .. k /\ g[x] \in Int
      /\ \A i \in 1 .. k : a[i] = IF i = x THEN b[i] + g[x] ELSE b[i]
  BY DEF Masked
<1> HIDE DEF a, b
<1>2. PICK p : Sums(a, k, p)  BY <1>1, SumsExist
<1>3. PICK q : Sums(b, k, q)  BY <1>1, SumsExist
<1>4. SumOver(g, k, t) = p[k] /\ p[k] \in Int  BY <1>2, SumOverIs DEF a
<1>5. SumOver(g, k, t \ {x}) = q[k] /\ q[k] \in Int  BY <1>3, SumOverIs DEF b
<1>6. p[k] = q[k] + g[x]
  <2>1. DiffersAt(a, b, k, x, g[x])  BY <1>1 DEF DiffersAt
  <2>2. QED  BY <1>2, <1>3, <2>1, SumsDiffer
<1>7. QED  BY <1>1, <1>4, <1>5, <1>6

\* No place, no value.
LEMMA SumOverNone == ASSUME NEW k \in Nat, NEW g \in [1 .. k -> Int] PROVE SumOver(g, k, {}) = 0
<1> DEFINE z == [i \in 0 .. k |-> 0]
<1>1. z \in [0 .. k -> Int] /\ z[0] = 0 /\ z[k] = 0 /\ \A i \in 1 .. k : z[i] = 0 /\ z[i - 1] = 0  OBVIOUS
<1>2. \A i \in 1 .. k : Masked(g, k, {})[i] = 0  BY DEF Masked
<1> HIDE DEF z
<1>3. Sums(Masked(g, k, {}), k, z)  BY <1>1, <1>2 DEF Sums
<1>4. QED  BY <1>1, <1>3, SumOverIs

\* The fold of tck_tot and of the draw, unfolded.
LEMMA TicketsFold ==
    ASSUME NEW s, NEW k
    PROVE  TicketsUpTo(s, k) = (CHOOSE h : h = [t \in SUBSET (1 .. k) |->
                IF t = {} THEN 0 ELSE (nice[s[CHOOSE x \in t : TRUE]] + 1) + h[t \ {CHOOSE x \in t : TRUE}]])[1 .. k]
  BY Zenon DEF TicketsUpTo, MapThenSumSet, MapThenFoldSet

\* Whatever order the fold takes, the tickets of the first k threads are a prefix sum.
LEMMA TicketsAre ==
    ASSUME NEW s, NEW k \in Nat, NEW g \in [1 .. k -> Int], \A i \in 1 .. k : nice[s[i]] + 1 = g[i],
           NEW p, Sums(g, k, p)
    PROVE  TicketsUpTo(s, k) = p[k]
<1>0. \A t \in SUBSET (1 .. k) : \A x \in t : SumOver(g, k, t) = g[x] + SumOver(g, k, t \ {x})
  <2>1. SUFFICES ASSUME NEW t \in SUBSET (1 .. k), NEW x \in t
                 PROVE  SumOver(g, k, t) = g[x] + SumOver(g, k, t \ {x})
    OBVIOUS
  <2>2. QED  BY SumOverLess
<1> DEFINE c(t) == CHOOSE x \in t : TRUE
           S == 1 .. k
           Eq(h) == h = [t \in SUBSET S |-> IF t = {} THEN 0 ELSE (nice[s[c(t)]] + 1) + h[t \ {c(t)}]]
           h == CHOOSE h : Eq(h)
           w == [t \in SUBSET S |-> SumOver(g, k, t)]
<1>1. \A t \in SUBSET S : t # {} => c(t) \in t  OBVIOUS
<1>2. TicketsUpTo(s, k) = h[S]  BY TicketsFold, Zenon
<1> HIDE DEF c
<1>3. ASSUME NEW t \in SUBSET S, t # {}
      PROVE  /\ c(t) \in t /\ t \ {c(t)} \in SUBSET S /\ nice[s[c(t)]] + 1 = g[c(t)]
             /\ SumOver(g, k, t) = g[c(t)] + SumOver(g, k, t \ {c(t)})
  <2>1. c(t) \in t  BY <1>1, <1>3
  <2>2. SumOver(g, k, t) = g[c(t)] + SumOver(g, k, t \ {c(t)})  BY <1>0, <2>1, Zenon
  <2>3. QED  BY <2>1, <2>2
<1>4. Eq(w)
  <2>1. ASSUME NEW t \in SUBSET S
        PROVE  w[t] = IF t = {} THEN 0 ELSE (nice[s[c(t)]] + 1) + w[t \ {c(t)}]
    <3>1. CASE t = {}  BY <3>1, SumOverNone
    <3>2. CASE t # {}
      <4>1. w[t] = SumOver(g, k, t) /\ w[t \ {c(t)}] = SumOver(g, k, t \ {c(t)})  BY <1>3, <3>2
      <4>2. QED  BY <1>3, <3>2, <4>1
    <3>3. QED  BY <3>1, <3>2
  <2>2. w = [t \in SUBSET S |-> w[t]]  OBVIOUS
  <2> HIDE DEF w
  <2>3. QED  BY <2>1, <2>2
<1> HIDE DEF w
<1>5. Eq(h)  BY <1>4
<1> HIDE DEF h
<1>6. \A t \in SUBSET S : h[t] = IF t = {} THEN 0 ELSE (nice[s[c(t)]] + 1) + h[t \ {c(t)}]  BY <1>5
<1>7. ASSUME NEW t \in SUBSET S, h[t] # SumOver(g, k, t) PROVE FALSE
  <2> DEFINE B == {u \in SUBSET S : h[u] # SumOver(g, k, u)}
  <2>1. IsFiniteSet(S)  BY FS_Interval
  <2>2. B \subseteq FiniteSubsetsOf(S)
    <3>1. ASSUME NEW u \in B PROVE u \in FiniteSubsetsOf(S)
      <4>1. u \in SUBSET S  OBVIOUS
      <4>2. IsFiniteSet(u)  BY <2>1, <4>1, FS_Subset
      <4>3. QED  BY <4>1, <4>2 DEF FiniteSubsetsOf
    <3>2. QED  BY <3>1
  <2>3. B # {}  BY <1>7
  <2> HIDE DEF B
  <2>4. PICK u \in B : \A v \in B : ~(<<v, u>> \in StrictSubsetOrdering(S))
    BY <2>1, <2>2, <2>3, FS_StrictSubsetOrderingWellFounded, WFMin
  <2>5. u \in SUBSET S /\ h[u] # SumOver(g, k, u)  BY DEF B
  <2>6. CASE u = {}  BY <1>6, <2>5, <2>6, SumOverNone
  <2>7. CASE u # {}
    <3> DEFINE v == u \ {c(u)}
    <3>1. v \in SUBSET S /\ v \subseteq u /\ v # u  BY <1>3, <2>5, <2>7
    <3>2. <<v, u>> \in StrictSubsetOrdering(S)  BY <2>5, <3>1 DEF StrictSubsetOrdering
    <3>3. v \notin B  BY <2>4, <3>2
    <3>4. h[v] = SumOver(g, k, v)  BY <3>1, <3>3 DEF B
    <3>5. h[u] = (nice[s[c(u)]] + 1) + h[v]  BY <1>6, <2>5, <2>7
    <3>6. QED  BY <1>3, <2>5, <2>7, <3>4, <3>5
  <2>8. QED  BY <2>6, <2>7
<1>8. Masked(g, k, S) = g
  <2>1. \A i \in 1 .. k : Masked(g, k, S)[i] = g[i]  BY DEF Masked
  <2>2. Masked(g, k, S) \in [1 .. k -> Int]  BY DEF Masked
  <2>3. QED  BY <2>1, <2>2
<1>9. SumOver(g, k, S) = p[k]  BY <1>8, SumOverIs
<1>10. QED  BY <1>2, <1>7, <1>9

\* The sums of a prefix are the first of the sums.
LEMMA PrefixSums ==
    ASSUME NEW n \in Nat, NEW g \in [1 .. n -> Int], NEW p, Sums(g, n, p), NEW k \in 0 .. n
    PROVE  /\ [i \in 1 .. k |-> g[i]] \in [1 .. k -> Int]
           /\ Sums([i \in 1 .. k |-> g[i]], k, [i \in 0 .. k |-> p[i]])
<1> DEFINE f == [i \in 1 .. k |-> g[i]]
           q == [i \in 0 .. k |-> p[i]]
<1>1. p \in [0 .. n -> Int] /\ p[0] = 0 /\ \A i \in 1 .. n : p[i] = p[i - 1] + g[i]  BY DEF Sums
<1>2. (\A i \in 1 .. k : i \in 1 .. n) /\ (\A i \in 0 .. k : i \in 0 .. n)  OBVIOUS
<1>3. f \in [1 .. k -> Int]  BY <1>2
<1>4. q \in [0 .. k -> Int] /\ q[0] = 0  BY <1>1, <1>2
<1>5. ASSUME NEW i \in 1 .. k PROVE q[i] = q[i - 1] + f[i]
  <2>1. i \in 0 .. k /\ i - 1 \in 0 .. k  OBVIOUS
  <2>2. p[i] = p[i - 1] + g[i]  BY <1>1, <1>2
  <2>3. QED  BY <2>1, <2>2
<1> HIDE DEF f, q
<1>6. Sums(f, k, q)  BY <1>4, <1>5 DEF Sums
<1>7. QED  BY <1>3, <1>6 DEF f, q

\* The tickets g of the threads on s, and their sums p.
Ticketed(s, n, g, p) ==
    /\ n \in Nat /\ g \in [1 .. n -> Int] /\ Sums(g, n, p)
    /\ \A i \in 1 .. n : nice[s[i]] + 1 = g[i]

\* The tickets of each prefix of the queue.
LEMMA TicketsOfPrefix ==
    ASSUME NEW s, NEW n, NEW g, NEW p, Ticketed(s, n, g, p), NEW k \in 0 .. n
    PROVE  TicketsUpTo(s, k) = p[k] /\ p[k] \in Int
<1> DEFINE f == [i \in 1 .. k |-> g[i]]
           q == [i \in 0 .. k |-> p[i]]
<1>1. n \in Nat /\ g \in [1 .. n -> Int] /\ Sums(g, n, p) /\ \A i \in 1 .. n : nice[s[i]] + 1 = g[i]  BY DEF Ticketed
<1>2. k \in Nat /\ k \in 0 .. k /\ \A i \in 1 .. k : i \in 1 .. n  BY <1>1
<1>3. f \in [1 .. k -> Int] /\ Sums(f, k, q)  BY <1>1, PrefixSums
<1>4. \A i \in 1 .. k : nice[s[i]] + 1 = f[i]  BY <1>1, <1>2
<1>5. q[k] = p[k]  BY <1>2
<1> HIDE DEF f, q
<1>6. TicketsUpTo(s, k) = q[k]  BY <1>2, <1>3, <1>4, TicketsAre
<1>7. p[k] \in Int  BY <1>1 DEF Sums
<1>8. QED  BY <1>5, <1>6, <1>7

-----------------------------------------------------------------------------
(* The draw.                                                               *)

\* Thread k wins for the random numbers from the tickets before it to its own, and for no
\* others.
LEMMA WinnerIs ==
    ASSUME NEW s, NEW n, NEW g, NEW p, Ticketed(s, n, g, p), DOMAIN s = 1 .. n, \A i \in 1 .. n : g[i] >= 0,
           NEW r \in 0 .. p[n] - 1, NEW k \in 1 .. n
    PROVE  /\ Min(Negative(s, r)) \in 1 .. n
           /\ Min(Negative(s, r)) = k <=> (p[k - 1] <= r /\ r < p[k])
<1> DEFINE N == Negative(s, r)
           m == Min(N)
<1>1. n \in Nat /\ g \in [1 .. n -> Int] /\ Sums(g, n, p)  BY DEF Ticketed
<1>2. p \in [0 .. n -> Int] /\ p[0] = 0 /\ n \in 0 .. n  BY <1>1 DEF Sums
<1>3. r \in Int /\ 0 <= r /\ r < p[n]  BY <1>2
<1>4. n \in 1 .. n
  <2>1. n # 0  BY <1>2, <1>3
  <2>2. QED  BY <1>1, <2>1
<1>5. \A i \in 1 .. n : i \in N <=> r < p[i]
  <2>1. ASSUME NEW i \in 1 .. n PROVE i \in N <=> r < p[i]
    <3>1. i \in 0 .. n  BY <1>1
    <3>2. TicketsUpTo(s, i) = p[i] /\ p[i] \in Int  BY <3>1, TicketsOfPrefix
    <3>3. i \in N <=> r - TicketsUpTo(s, i) < 0  BY DEF Negative
    <3>4. QED  BY <1>3, <3>2, <3>3
  <2>2. QED  BY <2>1
<1>6. N \in SUBSET Nat /\ N \in SUBSET (1 .. n)  BY <1>1 DEF Negative
<1>7. N # {}  BY <1>3, <1>4, <1>5
<1> HIDE DEF N
<1>8. \E x \in N : \A y \in N : x <= y  BY <1>6, <1>7, LeastExists
<1>9. m \in N /\ \A y \in N : m <= y  BY <1>8, Zenon DEF Min
<1>10. m \in 1 .. n  BY <1>6, <1>9
<1> HIDE DEF m
<1>11. ASSUME m = k PROVE p[k - 1] <= r /\ r < p[k]
  <2>1. r < p[k]  BY <1>5, <1>9, <1>11
  <2>2. CASE k = 1  BY <1>2, <1>3, <2>1, <2>2
  <2>3. CASE k # 1
    <3>1. k - 1 \in 1 .. n /\ k - 1 \in 0 .. n /\ ~(k <= k - 1)  BY <2>3, <1>1
    <3>2. k - 1 \notin N  BY <1>9, <1>11, <3>1
    <3>3. ~(r < p[k - 1]) /\ p[k - 1] \in Int  BY <1>2, <1>5, <3>1, <3>2
    <3>4. QED  BY <1>3, <2>1, <3>3
  <2>4. QED  BY <2>2, <2>3
<1>12. ASSUME p[k - 1] <= r, r < p[k] PROVE m = k
  <2>1. k \in N  BY <1>5, <1>12
  <2>2. m <= k  BY <1>9, <2>1
  <2>3. ASSUME m < k PROVE FALSE
    <3>1. m \in 0 .. n /\ k - 1 \in m .. n /\ k - 1 \in 0 .. n  BY <1>1, <1>10, <2>3
    <3>2. p[m] <= p[k - 1]  BY <1>1, <3>1, SumsGrow
    <3>3. r < p[m]  BY <1>5, <1>9, <1>10
    <3>4. p[m] \in Int /\ p[k - 1] \in Int  BY <1>2, <3>1
    <3>5. QED  BY <1>3, <1>12, <3>2, <3>3, <3>4
  <2>4. QED  BY <1>10, <2>2, <2>3
<1>13. QED  BY <1>10, <1>11, <1>12 DEF m, N

\* As many random numbers draw a thread as it has tickets.
LEMMA DrawCount ==
    ASSUME NEW s, NEW n, NEW g, NEW p, Ticketed(s, n, g, p), DOMAIN s = 1 .. n, \A i \in 1 .. n : g[i] >= 0,
           \A i, j \in 1 .. n : s[i] = s[j] => i = j, NEW k \in 1 .. n
    PROVE  Cardinality({r \in 0 .. p[n] - 1 : LotteryWinner(s, r) = s[k]}) = g[k]
<1> DEFINE W == {r \in 0 .. p[n] - 1 : LotteryWinner(s, r) = s[k]}
<1>1. n \in Nat /\ g \in [1 .. n -> Int] /\ Sums(g, n, p)  BY DEF Ticketed
<1>2. k - 1 \in 0 .. n /\ 0 \in 0 .. n /\ k \in 0 .. n /\ n \in k .. n /\ k - 1 \in 0 .. n  BY <1>1
<1>3. /\ p[0] = 0 /\ p[n] \in Int /\ p[k] \in Int /\ p[k - 1] \in Int /\ p[k] = p[k - 1] + g[k]
      /\ g[k] \in Int /\ g[k] >= 0
  BY <1>1, <1>2 DEF Sums
<1>4. p[0] <= p[k - 1] /\ p[k] <= p[n]
  <2>1. \A i \in 0 .. n : p[0] <= p[i]  BY <1>1, <1>2, SumsGrow
  <2>2. \A i \in k .. n : p[k] <= p[i]  BY <1>1, <1>2, SumsGrow
  <2>3. QED  BY <1>2, <2>1, <2>2
<1>5. ASSUME NEW r \in 0 .. p[n] - 1 PROVE LotteryWinner(s, r) = s[k] <=> (p[k - 1] <= r /\ r < p[k])
  <2> DEFINE m == Min(Negative(s, r))
  <2>1. m \in 1 .. n /\ (m = k <=> (p[k - 1] <= r /\ r < p[k]))  BY <1>5, WinnerIs
  <2>2. LotteryWinner(s, r) = s[m]  BY DEF LotteryWinner
  <2> HIDE DEF m
  <2>3. s[m] = s[k] <=> m = k  BY <2>1
  <2>4. QED  BY <2>1, <2>2, <2>3
<1>6. W = p[k - 1] .. (p[k] - 1)
  <2>1. \A r \in p[k - 1] .. (p[k] - 1) : r \in 0 .. p[n] - 1 /\ p[k - 1] <= r /\ r < p[k]  BY <1>3, <1>4
  <2>2. \A r \in 0 .. p[n] - 1 : p[k - 1] <= r /\ r < p[k] => r \in p[k - 1] .. (p[k] - 1)  BY <1>3
  <2>3. QED  BY <1>5, <2>1, <2>2
<1> HIDE DEF W
<1>7. Cardinality(W) = IF p[k - 1] > p[k] - 1 THEN 0 ELSE (p[k] - 1) - p[k - 1] + 1
  <2>1. p[k] - 1 \in Int  BY <1>3
  <2>2. QED  BY <1>3, <1>6, <2>1, FS_Interval
<1>8. Cardinality(W) = g[k]  BY <1>3, <1>7
<1>9. QED  BY <1>8 DEF W

\* The threads on the lottery queue are distinct and have tickets.
LEMMA LotteryQueue ==
    ASSUME IInv, NEW s, s = tdq.queue["lottery"][0]
    PROVE  /\ s \in Seq(Thread)
           /\ \A i, j \in 1 .. Len(s) : s[i] = s[j] => i = j
           /\ \A i \in 1 .. Len(s) : nice[s[i]] \in Int
<1>1. Matched(tdq) /\ Classed(tdq, pri) /\ nice \in [Thread \ Root -> Nice] /\ Nice \subseteq Int
  BY TDQAssumption DEF IInv, Typed, Whole, Sound
<1>2. "lottery" \in RunQ /\ 0 \in Slot  BY TDQAssumption DEF RunQ, Slot
<1>3. s \in Seq(Thread)  BY <1>1, <1>2, TdqHas DEF Matched
<1>4. \A i, j \in 1 .. Len(s) : s[i] = s[j] => i = j  BY <1>1, <1>2 DEF Matched, Agree
<1>5. ASSUME NEW i \in 1 .. Len(s) PROVE nice[s[i]] \in Int
  <2>1. tdq.where[s[i]] = <<"lottery", 0>>  BY <1>1, <1>2 DEF Matched, Agree
  <2>2. s[i] \in Queued(tdq)  BY <1>1, <1>2, MemberQueued
  <2>3. ClassOf(s[i], tdq.where[s[i]], pri)  BY <1>1, <2>2 DEF Classed
  <2>4. tdq.where[s[i]][1] = "lottery"  BY <2>1
  <2>5. s[i] \notin Root  BY <2>3, <2>4 DEF ClassOf, isRoot
  <2>6. s[i] \in Thread  BY <1>3
  <2>7. QED  BY <1>1, <2>5, <2>6
<1>6. QED  BY <1>3, <1>4, <1>5

\* While every thread on the queue has tickets that are not negative, each is drawn by as
\* many random numbers as it has tickets, of all those below their total: for any number of
\* threads and any tickets, and in every state of the queue.
THEOREM DrawsStayProportional == Spec => []DrawIsProportional
<1>1. ASSUME IInv PROVE DrawIsProportional
  <2> DEFINE s == tdq.queue["lottery"][0]
  <2>1. /\ s \in Seq(Thread)
        /\ \A i, j \in 1 .. Len(s) : s[i] = s[j] => i = j
        /\ \A i \in 1 .. Len(s) : nice[s[i]] \in Int
    BY <1>1, LotteryQueue
  <2> HIDE DEF s
  <2>2. SUFFICES ASSUME \A k \in DOMAIN s : nice[s[k]] >= -1, NEW k \in DOMAIN s
                 PROVE  Cardinality({r \in 0 .. tck_tot(s) - 1 : LotteryWinner(s, r) = s[k]}) = nice[s[k]] + 1
    BY DEF DrawIsProportional, s
  <2> DEFINE n == Len(s)
             g == [i \in 1 .. n |-> nice[s[i]] + 1]
  <2>3. n \in Nat /\ DOMAIN s = 1 .. n  BY <2>1
  <2> HIDE DEF n
  <2>4. g \in [1 .. n -> Int] /\ (\A i \in 1 .. n : nice[s[i]] + 1 = g[i])  BY <2>1 DEF n
  <2>5. \A i \in 1 .. n : g[i] >= 0
    <3>1. ASSUME NEW i \in 1 .. n PROVE g[i] >= 0
      <4>1. nice[s[i]] \in Int /\ nice[s[i]] >= -1  BY <2>1, <2>2, <2>3 DEF n
      <4>2. QED  BY <4>1
    <3>2. QED  BY <3>1
  <2>6. g[k] = nice[s[k]] + 1  BY <2>3, <2>4
  <2> HIDE DEF g
  <2>7. PICK p : Sums(g, n, p)  BY <2>3, <2>4, SumsExist
  <2>8. Ticketed(s, n, g, p)  BY <2>3, <2>4, <2>7 DEF Ticketed
  <2>9. tck_tot(s) = p[n]
    <3>1. n \in 0 .. n  BY <2>3
    <3>2. TicketsUpTo(s, n) = p[n]  BY <2>8, <3>1, TicketsOfPrefix
    <3>3. QED  BY <3>2 DEF tck_tot, n
  <2>10. \A i, j \in 1 .. n : s[i] = s[j] => i = j  BY <2>1 DEF n
  <2>11. Cardinality({r \in 0 .. p[n] - 1 : LotteryWinner(s, r) = s[k]}) = g[k]
    BY <2>3, <2>5, <2>8, <2>10, DrawCount
  <2>12. QED  BY <2>6, <2>9, <2>11
<1>2. QED  BY <1>1, InvariantHolds, PTL
=============================================================================
