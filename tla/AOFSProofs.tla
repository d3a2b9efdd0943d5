----------------------------- MODULE AOFSProofs -----------------------------
(***************************************************************************)
(* Proofs that the images of AOFS have sound chains, that reads and        *)
(* truncations keep to them, and that what their files hold is what        *)
(* FileSpec says, for any number of blocks, block size, names, bytes,      *)
(* buffers and sizes.                                                      *)
(***************************************************************************)
EXTENDS MCAOFS, FiniteSetTheorems, SequenceTheorems, WellFoundedInduction, TLAPS

-----------------------------------------------------------------------------
(* Numbers, and the rounds of a loop.                                      *)

\* A non-empty set of natural numbers has a least one.
LEMMA LeastExists == ASSUME NEW S \in SUBSET Nat, S # {} PROVE \E m \in S : \A x \in S : m <= x
<1>1. PICK m \in S : \A x \in S : ~(<<x, m>> \in OpToRel(<, Nat))
  BY NatLessThanWellFounded, WFMin
<1>2. \A x \in S : ~(x < m)  BY <1>1 DEF OpToRel
<1>3. QED  BY <1>2

\* Induction up to k, for membership in a set; by the least number outside of it.
LEMMA Inductive ==
    ASSUME NEW k \in Nat, NEW I, 0 \in I, \A i \in 0 .. k - 1 : i \in I => i + 1 \in I
    PROVE  \A i \in 0 .. k : i \in I
<1> DEFINE B == {i \in 0 .. k : i \notin I}
<1>1. B \in SUBSET Nat  OBVIOUS
<1>2. ASSUME B # {} PROVE FALSE
  <2> HIDE DEF B
  <2>1. PICK m \in B : \A y \in B : m <= y  BY <1>1, <1>2, LeastExists
  <2>2. m \in 0 .. k /\ m \notin I  BY DEF B
  <2>3. m # 0  BY <2>2
  <2>4. m - 1 \in 0 .. k - 1 /\ ~(m <= m - 1) /\ m - 1 \in 0 .. k /\ m - 1 + 1 = m  BY <2>2, <2>3
  <2>5. m - 1 \in I  BY <2>1, <2>4 DEF B
  <2>6. QED  BY <2>2, <2>4, <2>5
<1>3. QED  BY <1>2

\* t is what the first k rounds of f make of x.
Rounds(f, S, x, k, t) == t \in [0 .. k -> S] /\ t[0] = x /\ \A i \in 1 .. k : t[i] = f[t[i - 1]]

\* A loop whose body stays in a set has a state after every round.
LEMMA RoundsExist ==
    ASSUME NEW S, NEW f \in [S -> S], NEW x \in S, NEW k \in Nat
    PROVE  \E t : Rounds(f, S, x, k, t)
<1> DEFINE I == {i \in 0 .. k : \E t : Rounds(f, S, x, i, t)}
<1>1. 0 \in I
  <2>1. Rounds(f, S, x, 0, [i \in 0 .. 0 |-> x])  BY DEF Rounds
  <2>2. QED  BY <2>1
<1>2. ASSUME NEW i \in 0 .. k - 1, i \in I PROVE i + 1 \in I
  <2>1. PICK t : Rounds(f, S, x, i, t)  BY <1>2
  <2>2. t \in [0 .. i -> S] /\ t[0] = x /\ \A j \in 1 .. i : t[j] = f[t[j - 1]]  BY <2>1 DEF Rounds
  <2> DEFINE u == [j \in 0 .. i + 1 |-> IF j <= i THEN t[j] ELSE f[t[i]]]
  <2>3. u \in [0 .. i + 1 -> S] /\ u[0] = x  BY <2>2
  <2>4. ASSUME NEW j \in 1 .. i + 1 PROVE u[j] = f[u[j - 1]]
    <3>1. j - 1 \in 0 .. i /\ u[j - 1] = t[j - 1]  OBVIOUS
    <3>2. CASE j <= i  BY <2>2, <3>1, <3>2
    <3>3. CASE j = i + 1  BY <3>1, <3>3
    <3>4. QED  BY <3>2, <3>3
  <2>5. Rounds(f, S, x, i + 1, u)  BY <2>3, <2>4 DEF Rounds
  <2>6. i + 1 \in 0 .. k  OBVIOUS
  <2>7. QED  BY <2>5, <2>6
<1>3. k \in I
  <2> HIDE DEF I
  <2>1. \A i \in 0 .. k : i \in I  BY <1>1, <1>2, Inductive
  <2>2. QED  BY <2>1
<1>4. QED  BY <1>3

\* A function that follows the rounds is the state after every one of them.
LEMMA RoundsOnly ==
    ASSUME NEW S, NEW f \in [S -> S], NEW x \in S, NEW k \in Nat, NEW t, Rounds(f, S, x, k, t),
           NEW n \in Nat, NEW r, r[0] = x, \A i \in 1 .. n : r[i - 1] \in S => r[i] = f[r[i - 1]], n <= k
    PROVE  r[n] = t[n]
<1> DEFINE I == {i \in 0 .. n : r[i] = t[i]}
<1>0. t \in [0 .. k -> S] /\ t[0] = x /\ \A i \in 1 .. k : t[i] = f[t[i - 1]]  BY DEF Rounds
<1>1. 0 \in I  BY <1>0
<1>2. ASSUME NEW i \in 0 .. n - 1, i \in I PROVE i + 1 \in I
  <2>1. r[i] = t[i] /\ i \in 0 .. k /\ i + 1 \in 1 .. n /\ i + 1 \in 1 .. k /\ i + 1 - 1 = i  BY <1>2
  <2>2. t[i] \in S  BY <1>0, <2>1
  <2>3. r[i + 1] = f[r[i]]  BY <2>1, <2>2
  <2>4. t[i + 1] = f[t[i]]  BY <1>0, <2>1
  <2>5. QED  BY <2>1, <2>3, <2>4
<1>3. \A i \in 0 .. n : i \in I
  <2> HIDE DEF I
  <2>1. QED  BY <1>1, <1>2, Inductive
<1>4. QED  BY <1>3

-----------------------------------------------------------------------------
(* Links.                                                                  *)

\* Numbers of blocks, and -1.
Num == BlockNum \cup {-1}

\* The links lead to blocks.
Links(d) == \A n \in BlockNum : d.block[n].next \in Num

\* Seek is what rounds of Follow make of a block number.
LEMMA SeekIs ==
    ASSUME NEW d, Links(d), NEW n \in Num, NEW k \in Nat
    PROVE  \E t : /\ Rounds([m \in Num |-> Follow(d, m)], Num, n, k, t)
                  /\ \A i \in 0 .. k : Seek(d, n, i) = t[i]
<1> DEFINE f == [m \in Num |-> Follow(d, m)]
<1>1. f \in [Num -> Num]  BY DEF Links, Follow, Num
<1>2. \A m \in Num : f[m] = Follow(d, m)  OBVIOUS
<1> HIDE DEF f
<1>3. PICK t : Rounds(f, Num, n, k, t)  BY <1>1, RoundsExist
<1>4. t \in [0 .. k -> Num] /\ t[0] = n /\ \A i \in 1 .. k : t[i] = f[t[i - 1]]  BY <1>3 DEF Rounds
<1>5. ASSUME NEW i \in 0 .. k PROVE Seek(d, n, i) = t[i]
  <2> DEFINE Eq(r) == r = [j \in 0 .. i |-> IF j = 0 THEN n ELSE Follow(d, r[j - 1])]
  <2>1. Seek(d, n, i) = (CHOOSE r : Eq(r))[i]  BY Zenon DEF Seek, Times
  <2> DEFINE u == [j \in 0 .. i |-> t[j]]
  <2>2. Eq(u)
    <3>1. ASSUME NEW j \in 0 .. i PROVE u[j] = IF j = 0 THEN n ELSE Follow(d, u[j - 1])
      <4>1. CASE j = 0  BY <1>4, <4>1
      <4>2. CASE j # 0
        <5>1. j \in 1 .. k /\ j - 1 \in 0 .. k /\ j - 1 \in 0 .. i  BY <4>2
        <5>2. t[j] = Follow(d, t[j - 1])  BY <1>2, <1>4, <5>1
        <5>3. QED  BY <4>2, <5>1, <5>2
      <4>3. QED  BY <4>1, <4>2
    <3>2. QED  BY <3>1
  <2> DEFINE r == CHOOSE r : Eq(r)
  <2>3. Eq(r)  BY <2>2
  <2> HIDE DEF r
  <2>4. r[0] = n /\ \A j \in 1 .. i : r[j - 1] \in Num => r[j] = f[r[j - 1]]  BY <1>2, <2>3
  <2>5. r[i] = t[i]  BY <1>1, <1>3, <2>4, RoundsOnly
  <2>6. QED  BY <2>1, <2>5 DEF r
<1>6. QED  BY <1>3, <1>5 DEF f

\* The blocks after n, one by one.
LEMMA SeekSteps ==
    ASSUME NEW d, Links(d), NEW n \in Num
    PROVE  /\ Seek(d, n, 0) = n
           /\ \A k \in Nat : Seek(d, n, k) \in Num /\ Seek(d, n, k + 1) = Follow(d, Seek(d, n, k))
<1>1. Seek(d, n, 0) = n
  <2>1. PICK t : /\ Rounds([m \in Num |-> Follow(d, m)], Num, n, 0, t)
                 /\ \A i \in 0 .. 0 : Seek(d, n, i) = t[i]
    BY SeekIs
  <2>2. QED  BY <2>1 DEF Rounds
<1>2. ASSUME NEW k \in Nat PROVE Seek(d, n, k) \in Num /\ Seek(d, n, k + 1) = Follow(d, Seek(d, n, k))
  <2>1. PICK t : /\ Rounds([m \in Num |-> Follow(d, m)], Num, n, k + 1, t)
                 /\ \A i \in 0 .. k + 1 : Seek(d, n, i) = t[i]
    BY SeekIs
  <2>2. k \in 0 .. k + 1 /\ k + 1 \in 1 .. k + 1 /\ k + 1 \in 0 .. k + 1 /\ k + 1 - 1 = k  OBVIOUS
  <2>3. t[k] \in Num /\ t[k + 1] = [m \in Num |-> Follow(d, m)][t[k]]  BY <2>1, <2>2 DEF Rounds
  <2>4. QED  BY <2>1, <2>2, <2>3
<1>3. QED  BY <1>1, <1>2

\* The end of a chain stays the end.
LEMMA SeekEnds ==
    ASSUME NEW d, Links(d), NEW n \in Num, NEW i \in Nat, NEW k \in Nat, i <= k, Seek(d, n, i) = -1
    PROVE  Seek(d, n, k) = -1
<1> DEFINE I == {j \in Nat : Seek(d, n, i + j) = -1}
<1>1. 0 \in I  OBVIOUS
<1>2. ASSUME NEW j \in 0 .. (k - i) - 1, j \in I PROVE j + 1 \in I
  <2>1. Seek(d, n, i + j + 1) = Follow(d, Seek(d, n, i + j))  BY SeekSteps
  <2>2. i + (j + 1) = i + j + 1  OBVIOUS
  <2>3. QED  BY <1>2, <2>1, <2>2 DEF Follow
<1>3. k - i \in I
  <2> HIDE DEF I
  <2>1. k - i \in Nat /\ k - i \in 0 .. k - i  OBVIOUS
  <2>2. QED  BY <1>1, <1>2, <2>1, Inductive
<1>4. i + (k - i) = k  OBVIOUS
<1>5. QED  BY <1>3, <1>4

-----------------------------------------------------------------------------
(* The place of a block.                                                   *)

\* An image as such.
DiskType == [bitmap : SUBSET BlockNum, block : [BlockNum -> Block], astray : BOOLEAN]

\* Every allocated block has a place in a file: the head of its chain and the
\* number of blocks before it.  No two have the same, and the links lead from
\* each to the next.
Placed(d, own, rank) ==
    /\ own \in [d.bitmap -> d.bitmap] /\ rank \in [d.bitmap -> Nat]
    /\ \A n \in d.bitmap :
          /\ rank[own[n]] = 0
          /\ d.block[n].head <=> rank[n] = 0
          /\ rank[n] = 0 => own[n] = n
          /\ d.block[n].next # -1 => /\ d.block[n].next \in d.bitmap
                                     /\ own[d.block[n].next] = own[n]
                                     /\ rank[d.block[n].next] = rank[n] + 1
          /\ rank[n] # 0 => \E m \in d.bitmap : d.block[m].next = n
    /\ \A m, n \in d.bitmap : own[m] = own[n] /\ rank[m] = rank[n] => m = n

\* What the parts of an image are.
LEMMA DiskHas ==
    ASSUME NEW d \in DiskType
    PROVE  /\ d.bitmap \subseteq BlockNum /\ d.astray \in BOOLEAN /\ d.block \in [BlockNum -> Block]
           /\ \A n \in BlockNum :
                 /\ d.block[n] \in Block /\ d.block[n].next \in Num /\ d.block[n].head \in BOOLEAN
                 /\ d.block[n].filename \in Name \cup {NoName} /\ d.block[n].st_size \in Nat
                 /\ d.block[n].data \in [0 .. BLOCK_DATA - 1 -> Byte \cup {0}]
           /\ Links(d) /\ -1 \notin BlockNum
<1>1. d.bitmap \subseteq BlockNum /\ d.astray \in BOOLEAN /\ d.block \in [BlockNum -> Block]  BY DEF DiskType
<1>2. ASSUME NEW n \in BlockNum
      PROVE  /\ d.block[n] \in Block /\ d.block[n].next \in Num /\ d.block[n].head \in BOOLEAN
             /\ d.block[n].filename \in Name \cup {NoName} /\ d.block[n].st_size \in Nat
             /\ d.block[n].data \in [0 .. BLOCK_DATA - 1 -> Byte \cup {0}]
  <2>1. d.block[n] \in Block  BY <1>1
  <2>2. QED  BY <2>1 DEF Block, Num
<1>3. Links(d)  BY <1>2 DEF Links
<1>4. -1 \notin BlockNum  BY DEF BlockNum
<1>5. QED  BY <1>1, <1>2, <1>3, <1>4

\* What lies behind a block has a place behind its place.
LEMMA SeekForward ==
    ASSUME NEW d \in DiskType, NEW own, NEW rank, Placed(d, own, rank), NEW n \in d.bitmap,
           NEW k \in Nat, Seek(d, n, k) # -1
    PROVE  LET m == Seek(d, n, k) IN m \in d.bitmap /\ own[m] = own[n] /\ rank[m] = rank[n] + k
<1> DEFINE P(j) == LET m == Seek(d, n, j)
                   IN  m # -1 => m \in d.bitmap /\ own[m] = own[n] /\ rank[m] = rank[n] + j
           I == {j \in Nat : P(j)}
<1>0. n \in Num /\ Links(d)  BY DiskHas DEF Num
<1>1. 0 \in I  BY <1>0, SeekSteps DEF Placed
<1>2. ASSUME NEW j \in 0 .. k - 1, j \in I PROVE j + 1 \in I
  <2>1. Seek(d, n, j + 1) = Follow(d, Seek(d, n, j)) /\ j \in Nat  BY <1>0, SeekSteps
  <2>2. CASE Seek(d, n, j) = -1  BY <2>1, <2>2 DEF Follow
  <2>3. CASE Seek(d, n, j) # -1
    <3> DEFINE m == Seek(d, n, j)
    <3>1. m \in d.bitmap /\ own[m] = own[n] /\ rank[m] = rank[n] + j  BY <1>2, <2>3
    <3>2. Seek(d, n, j + 1) = d.block[m].next  BY <2>1, <2>3 DEF Follow
    <3> HIDE DEF m
    <3>3. rank[n] \in Nat  BY DEF Placed
    <3>4. QED  BY <3>1, <3>2, <3>3 DEF Placed
  <2>4. QED  BY <2>2, <2>3
<1>3. k \in I
  <2> HIDE DEF I
  <2>1. QED  BY <1>1, <1>2, Inductive
<1>4. QED  BY <1>3

\* What has a place behind a block lies behind it.
LEMMA SeekBack ==
    ASSUME NEW d \in DiskType, NEW own, NEW rank, Placed(d, own, rank), NEW n \in d.bitmap,
           NEW k \in Nat, NEW m \in d.bitmap, own[m] = own[n], rank[m] = rank[n] + k
    PROVE  Seek(d, n, k) = m
<1> DEFINE P(j) == \A x \in d.bitmap : own[x] = own[n] /\ rank[x] = rank[n] + j => Seek(d, n, j) = x
           I == {j \in Nat : P(j)}
<1>0. n \in Num /\ Links(d) /\ rank[n] \in Nat  BY DiskHas DEF Num, Placed
<1>1. 0 \in I  BY <1>0, SeekSteps DEF Placed
<1>2. ASSUME NEW j \in 0 .. k - 1, j \in I PROVE j + 1 \in I
  <2>1. Seek(d, n, j + 1) = Follow(d, Seek(d, n, j)) /\ j \in Nat  BY <1>0, SeekSteps
  <2>2. ASSUME NEW x \in d.bitmap, own[x] = own[n], rank[x] = rank[n] + (j + 1) PROVE Seek(d, n, j + 1) = x
    <3>1. rank[x] # 0  BY <1>0, <2>1, <2>2
    <3>2. PICK y \in d.bitmap : d.block[y].next = x  BY <3>1 DEF Placed
    <3>3. x # -1 /\ y # -1  BY DiskHas
    <3>4. own[y] = own[n] /\ rank[y] + 1 = rank[x] /\ rank[y] \in Nat  BY <2>2, <3>2, <3>3 DEF Placed
    <3>5. rank[y] = rank[n] + j  BY <1>0, <2>1, <2>2, <3>4
    <3>6. Seek(d, n, j) = y  BY <1>2, <3>4, <3>5
    <3>7. QED  BY <2>1, <3>2, <3>3, <3>6 DEF Follow
  <2>3. QED  BY <2>1, <2>2
<1>3. k \in I
  <2> HIDE DEF I
  <2>1. QED  BY <1>1, <1>2, Inductive
<1>4. QED  BY <1>3

\* So a place with another one behind it in the same file is taken.
LEMMA NoGaps ==
    ASSUME NEW d \in DiskType, NEW own, NEW rank, Placed(d, own, rank), NEW m \in d.bitmap,
           NEW i \in 0 .. rank[m]
    PROVE  LET n == Seek(d, own[m], i) IN n \in d.bitmap /\ own[n] = own[m] /\ rank[n] = i
<1> DEFINE h == own[m]
<1>1. h \in d.bitmap /\ rank[h] = 0 /\ own[h] = h /\ rank[m] \in Nat /\ i \in Nat  BY DEF Placed
<1>2. h \in Num /\ Links(d) /\ m # -1  BY <1>1, DiskHas DEF Num
<1>3. Seek(d, h, rank[m]) = m  BY <1>1, SeekBack
<1>4. Seek(d, h, i) # -1  BY <1>1, <1>2, <1>3, SeekEnds
<1>5. QED  BY <1>1, <1>4, SeekForward

\* No chain is longer than the disk.
LEMMA RankBound ==
    ASSUME NEW d \in DiskType, NEW own, NEW rank, Placed(d, own, rank), NEW m \in d.bitmap
    PROVE  rank[m] <= BLOCK_NUM - 1
<1> DEFINE at == [i \in 0 .. rank[m] |-> Seek(d, own[m], i)]
<1>1. rank[m] \in Nat /\ BLOCK_NUM \in Nat \ {0}  BY AOFSAssumption DEF Placed
<1>2. at \in [0 .. rank[m] -> BlockNum]  BY NoGaps, DiskHas
<1>3. ASSUME NEW i \in 0 .. rank[m], NEW j \in 0 .. rank[m], at[i] = at[j] PROVE i = j
  BY <1>3, NoGaps
<1>4. at \in Injection(0 .. rank[m], BlockNum)  BY <1>2, <1>3 DEF Injection, IsInjective
<1>5. IsFiniteSet(BlockNum) /\ Cardinality(BlockNum) = BLOCK_NUM
  <2>1. BlockNum = 0 .. BLOCK_NUM - 1 /\ BLOCK_NUM - 1 \in Int /\ ~(0 > BLOCK_NUM - 1)  BY <1>1 DEF BlockNum
  <2>2. IsFiniteSet(0 .. BLOCK_NUM - 1) /\ Cardinality(0 .. BLOCK_NUM - 1) = BLOCK_NUM - 1 - 0 + 1
    BY <2>1, FS_Interval
  <2>3. QED  BY <1>1, <2>1, <2>2
<1>6. Cardinality(0 .. rank[m]) = rank[m] + 1
  <2>1. 0 \in Int /\ rank[m] \in Int /\ ~(0 > rank[m])  BY <1>1
  <2>2. Cardinality(0 .. rank[m]) = rank[m] - 0 + 1  BY <2>1, FS_Interval
  <2>3. QED  BY <1>1, <2>2
<1>7. Cardinality(0 .. rank[m]) <= Cardinality(BlockNum)  BY <1>4, <1>5, FS_Injection
<1>8. QED  BY <1>1, <1>5, <1>6, <1>7

\* The chain of a block, as a set.
LEMMA ChainBlocksAre ==
    ASSUME NEW d \in DiskType, NEW own, NEW rank, Placed(d, own, rank), NEW n \in d.bitmap
    PROVE  ChainBlocks(d, n) = {m \in d.bitmap : own[m] = own[n] /\ rank[m] >= rank[n]}
<1>0. rank[n] \in Nat /\ BLOCK_NUM \in Nat  BY AOFSAssumption DEF Placed
<1>1. ASSUME NEW m \in ChainBlocks(d, n) PROVE m \in d.bitmap /\ own[m] = own[n] /\ rank[m] >= rank[n]
  <2>1. PICK k \in 0 .. BLOCK_NUM - 1 : m = Seek(d, n, k) /\ m # -1  BY DEF ChainBlocks
  <2>2. k \in Nat  OBVIOUS
  <2>3. QED  BY <1>0, <2>1, <2>2, SeekForward
<1>2. ASSUME NEW m \in d.bitmap, own[m] = own[n], rank[m] >= rank[n] PROVE m \in ChainBlocks(d, n)
  <2> DEFINE k == rank[m] - rank[n]
  <2>1. rank[m] \in Nat /\ k \in Nat /\ rank[m] = rank[n] + k  BY <1>0, <1>2 DEF Placed
  <2>2. k \in 0 .. BLOCK_NUM - 1  BY <1>0, <2>1, RankBound
  <2>3. Seek(d, n, k) = m /\ m # -1  BY <1>2, <2>1, SeekBack, DiskHas
  <2>4. QED  BY <2>2, <2>3 DEF ChainBlocks
<1>3. QED  BY <1>1, <1>2

-----------------------------------------------------------------------------
(* What changes of links do to the places.                                 *)

\* f with the value v at a.
With(f, a, v) == [n \in DOMAIN f \cup {a} |-> IF n = a THEN v ELSE f[n]]
\* f without what is not in S.
Left(f, S) == [n \in S |-> f[n]]

\* f with a value more is a function on one argument more.
LEMMA WithHas ==
    ASSUME NEW S, NEW T, NEW f \in [S -> T], NEW a, NEW v \in T
    PROVE  /\ With(f, a, v) \in [S \cup {a} -> T] /\ With(f, a, v)[a] = v
           /\ \A n \in S : n # a => With(f, a, v)[n] = f[n]
  BY DEF With

\* Blocks n of d and e are linked alike.
SameLink(d, e, n) == e.block[n].head = d.block[n].head /\ e.block[n].next = d.block[n].next

\* Places do not depend on anything but the bitmap and the links.
LEMMA PlacedSame ==
    ASSUME NEW d, NEW own, NEW rank, Placed(d, own, rank), NEW e, e.bitmap = d.bitmap,
           \A n \in d.bitmap : SameLink(d, e, n)
    PROVE  Placed(e, own, rank)
  BY DEF Placed, SameLink

\* A new block that is a head.
LEMMA PlacedNew ==
    ASSUME NEW d, NEW own, NEW rank, Placed(d, own, rank), NEW e, NEW a, a \notin d.bitmap, a # -1,
           e.bitmap = d.bitmap \cup {a}, \A n \in d.bitmap : SameLink(d, e, n),
           e.block[a].head = TRUE, e.block[a].next = -1, -1 \notin d.bitmap
    PROVE  Placed(e, With(own, a, a), With(rank, a, 0))
<1> DEFINE own2 == With(own, a, a)
           rank2 == With(rank, a, 0)
<1>1. own2 \in [e.bitmap -> e.bitmap] /\ own2[a] = a /\ \A n \in d.bitmap : own2[n] = own[n] /\ own[n] # a /\ n # a
  BY DEF Placed, With
<1>2. rank2 \in [e.bitmap -> Nat] /\ rank2[a] = 0 /\ \A n \in d.bitmap : rank2[n] = rank[n]
  BY DEF Placed, With
<1> HIDE DEF own2, rank2
<1>3. ASSUME NEW n \in e.bitmap
      PROVE  /\ rank2[own2[n]] = 0
             /\ e.block[n].head <=> rank2[n] = 0
             /\ rank2[n] = 0 => own2[n] = n
             /\ e.block[n].next # -1 => /\ e.block[n].next \in e.bitmap
                                        /\ own2[e.block[n].next] = own2[n]
                                        /\ rank2[e.block[n].next] = rank2[n] + 1
             /\ rank2[n] # 0 => \E m \in e.bitmap : e.block[m].next = n
  <2>1. CASE n = a  BY <1>1, <1>2, <2>1
  <2>2. CASE n \in d.bitmap
    <3>1. own[n] \in d.bitmap /\ SameLink(d, e, n)  BY <2>2 DEF Placed
    <3>2. rank2[n] # 0 => \E m \in e.bitmap : e.block[m].next = n
      BY <1>2, <2>2 DEF Placed, SameLink
    <3>3. QED  BY <1>1, <1>2, <2>2, <3>1, <3>2 DEF Placed, SameLink
  <2>3. QED  BY <2>1, <2>2
<1>4. ASSUME NEW m \in e.bitmap, NEW n \in e.bitmap, own2[m] = own2[n], rank2[m] = rank2[n] PROVE m = n
  BY <1>1, <1>2, <1>4 DEF Placed
<1>5. QED  BY <1>1, <1>2, <1>3, <1>4 DEF Placed, own2, rank2

\* A new block behind the last one of a chain.
LEMMA PlacedBehind ==
    ASSUME NEW d, NEW own, NEW rank, Placed(d, own, rank), NEW e, NEW a, a \notin d.bitmap, a # -1,
           NEW p \in d.bitmap, d.block[p].next = -1, -1 \notin d.bitmap,
           e.bitmap = d.bitmap \cup {a}, \A n \in d.bitmap : n # p => SameLink(d, e, n),
           e.block[p].head = d.block[p].head, e.block[p].next = a,
           ~e.block[a].head, e.block[a].next = -1
    PROVE  Placed(e, With(own, a, own[p]), With(rank, a, rank[p] + 1))
<1> DEFINE own2 == With(own, a, own[p])
           rank2 == With(rank, a, rank[p] + 1)
<1>0. own[p] \in d.bitmap /\ rank[p] \in Nat /\ rank[p] + 1 \in Nat /\ rank[p] + 1 # 0  BY DEF Placed
<1>1. own2 \in [e.bitmap -> e.bitmap] /\ own2[a] = own[p] /\ \A n \in d.bitmap : own2[n] = own[n] /\ own[n] # a /\ n # a
  BY <1>0 DEF Placed, With
<1>2. rank2 \in [e.bitmap -> Nat] /\ rank2[a] = rank[p] + 1 /\ \A n \in d.bitmap : rank2[n] = rank[n]
  BY <1>0 DEF Placed, With
<1>3. ASSUME NEW m \in d.bitmap, own[m] = own[p], rank[m] = rank[p] + 1 PROVE FALSE
  <2>1. PICK y \in d.bitmap : d.block[y].next = m  BY <1>0, <1>3 DEF Placed
  <2>2. own[y] = own[p] /\ rank[y] + 1 = rank[p] + 1 /\ rank[y] \in Nat  BY <1>3, <2>1 DEF Placed
  <2>3. rank[y] = rank[p]  BY <1>0, <2>2
  <2>4. y = p  BY <2>2, <2>3 DEF Placed
  <2>5. QED  BY <2>1, <2>4
<1> HIDE DEF own2, rank2
<1>4. ASSUME NEW n \in e.bitmap
      PROVE  /\ rank2[own2[n]] = 0
             /\ e.block[n].head <=> rank2[n] = 0
             /\ rank2[n] = 0 => own2[n] = n
             /\ e.block[n].next # -1 => /\ e.block[n].next \in e.bitmap
                                        /\ own2[e.block[n].next] = own2[n]
                                        /\ rank2[e.block[n].next] = rank2[n] + 1
             /\ rank2[n] # 0 => \E m \in e.bitmap : e.block[m].next = n
  <2>1. CASE n = a
    <3>1. rank2[own2[n]] = 0  BY <1>0, <1>1, <1>2, <2>1 DEF Placed
    <3>2. p \in e.bitmap /\ e.block[p].next = n  BY <2>1
    <3>3. QED  BY <1>0, <1>2, <2>1, <3>1, <3>2
  <2>2. CASE n \in d.bitmap
    <3>1. own[n] \in d.bitmap /\ (n # p => SameLink(d, e, n)) /\ e.block[n].head = d.block[n].head
      BY <2>2 DEF Placed, SameLink
    <3>2. rank2[n] # 0 => \E m \in e.bitmap : e.block[m].next = n
      <4>1. SUFFICES ASSUME rank[n] # 0 PROVE \E m \in e.bitmap : e.block[m].next = n  BY <1>2, <2>2
      <4>2. PICK y \in d.bitmap : d.block[y].next = n  BY <2>2, <4>1 DEF Placed
      <4>3. y # p  BY <2>2, <4>2
      <4>4. QED  BY <4>2, <4>3 DEF SameLink
    <3>3. /\ rank2[own2[n]] = 0
          /\ e.block[n].head <=> rank2[n] = 0
          /\ rank2[n] = 0 => own2[n] = n
      BY <1>1, <1>2, <2>2, <3>1 DEF Placed
    <3>4. e.block[n].next # -1 => /\ e.block[n].next \in e.bitmap
                                 /\ own2[e.block[n].next] = own2[n]
                                 /\ rank2[e.block[n].next] = rank2[n] + 1
      <4>1. CASE n = p  BY <1>1, <1>2, <4>1
      <4>2. CASE n # p
        <5>1. e.block[n].next = d.block[n].next  BY <3>1, <4>2 DEF SameLink
        <5>2. QED  BY <1>1, <1>2, <2>2, <5>1 DEF Placed
      <4>3. QED  BY <4>1, <4>2
    <3>5. QED  BY <3>2, <3>3, <3>4
  <2>3. QED  BY <2>1, <2>2
<1>5. ASSUME NEW m \in e.bitmap, NEW n \in e.bitmap, own2[m] = own2[n], rank2[m] = rank2[n] PROVE m = n
  <2>1. CASE m \in d.bitmap /\ n \in d.bitmap  BY <1>1, <1>2, <1>5, <2>1 DEF Placed
  <2>2. CASE m = a /\ n \in d.bitmap  BY <1>1, <1>2, <1>3, <1>5, <2>2
  <2>3. CASE n = a /\ m \in d.bitmap  BY <1>1, <1>2, <1>3, <1>5, <2>3
  <2>4. QED  BY <2>1, <2>2, <2>3
<1>6. QED  BY <1>1, <1>2, <1>4, <1>5 DEF Placed, own2, rank2

\* A chain cut off after p.
LEMMA PlacedCut ==
    ASSUME NEW d, NEW own, NEW rank, Placed(d, own, rank), NEW e, NEW p \in d.bitmap, -1 \notin d.bitmap,
           e.bitmap = d.bitmap \ {m \in d.bitmap : own[m] = own[p] /\ rank[m] >= rank[p] + 1},
           \A n \in e.bitmap : n # p => SameLink(d, e, n),
           e.block[p].head = d.block[p].head, e.block[p].next = -1
    PROVE  Placed(e, Left(own, e.bitmap), Left(rank, e.bitmap))
<1> DEFINE own2 == Left(own, e.bitmap)
           rank2 == Left(rank, e.bitmap)
<1>0. own \in [d.bitmap -> d.bitmap] /\ rank \in [d.bitmap -> Nat] /\ e.bitmap \subseteq d.bitmap  BY DEF Placed
<1>1. \A n \in e.bitmap : own2[n] = own[n] /\ rank2[n] = rank[n] /\ own[n] \in e.bitmap
  <2>1. ASSUME NEW n \in e.bitmap PROVE own[n] \in e.bitmap
    <3>1. own[n] \in d.bitmap /\ rank[own[n]] = 0 /\ rank[p] \in Nat  BY <1>0 DEF Placed
    <3>2. QED  BY <3>1
  <2>2. QED  BY <2>1 DEF Left
<1>2. own2 \in [e.bitmap -> e.bitmap] /\ rank2 \in [e.bitmap -> Nat]  BY <1>0, <1>1 DEF Left
<1> HIDE DEF own2, rank2
<1>3. ASSUME NEW n \in e.bitmap
      PROVE  /\ rank2[own2[n]] = 0
             /\ e.block[n].head <=> rank2[n] = 0
             /\ rank2[n] = 0 => own2[n] = n
             /\ e.block[n].next # -1 => /\ e.block[n].next \in e.bitmap
                                        /\ own2[e.block[n].next] = own2[n]
                                        /\ rank2[e.block[n].next] = rank2[n] + 1
             /\ rank2[n] # 0 => \E m \in e.bitmap : e.block[m].next = n
  <2>1. n \in d.bitmap /\ (n # p => SameLink(d, e, n)) /\ e.block[n].head = d.block[n].head
        /\ rank[n] \in Nat /\ rank[p] \in Nat
    BY <1>0 DEF SameLink
  <2>2. /\ rank2[own2[n]] = 0
        /\ e.block[n].head <=> rank2[n] = 0
        /\ rank2[n] = 0 => own2[n] = n
    BY <1>1, <2>1 DEF Placed
  <2>3. e.block[n].next # -1 => /\ e.block[n].next \in e.bitmap
                               /\ own2[e.block[n].next] = own2[n]
                               /\ rank2[e.block[n].next] = rank2[n] + 1
    <3> DEFINE x == e.block[n].next
    <3>1. SUFFICES ASSUME x # -1 PROVE x \in e.bitmap /\ own2[x] = own2[n] /\ rank2[x] = rank2[n] + 1  OBVIOUS
    <3>2. n # p /\ x = d.block[n].next  BY <2>1, <3>1 DEF SameLink
    <3> HIDE DEF x
    <3>3. x \in d.bitmap /\ own[x] = own[n] /\ rank[x] = rank[n] + 1  BY <2>1, <3>1, <3>2 DEF Placed
    <3>4. ASSUME own[n] = own[p], rank[n] + 1 >= rank[p] + 1 PROVE FALSE
      <4>1. ~(rank[n] >= rank[p] + 1)  BY <2>1, <3>4
      <4>2. rank[n] = rank[p]  BY <2>1, <3>4, <4>1
      <4>3. QED  BY <2>1, <3>2, <3>4, <4>2 DEF Placed
    <3>5. x \in e.bitmap  BY <3>3, <3>4
    <3>6. QED  BY <1>1, <3>3, <3>5
  <2>4. rank2[n] # 0 => \E m \in e.bitmap : e.block[m].next = n
    <3>1. SUFFICES ASSUME rank[n] # 0 PROVE \E m \in e.bitmap : e.block[m].next = n  BY <1>1
    <3>2. PICK y \in d.bitmap : d.block[y].next = n  BY <2>1, <3>1 DEF Placed
    <3>3. n # -1 /\ own[y] = own[n] /\ rank[n] = rank[y] + 1 /\ rank[y] \in Nat  BY <2>1, <3>2 DEF Placed
    <3>4. y \in e.bitmap /\ y # p  BY <2>1, <3>3
    <3>5. QED  BY <3>2, <3>4 DEF SameLink
  <2>5. QED  BY <2>2, <2>3, <2>4
<1>4. ASSUME NEW m \in e.bitmap, NEW n \in e.bitmap, own2[m] = own2[n], rank2[m] = rank2[n] PROVE m = n
  BY <1>0, <1>1, <1>4 DEF Placed
<1>5. QED  BY <1>2, <1>3, <1>4 DEF Placed, own2, rank2

\* A chain taken away.
LEMMA PlacedGone ==
    ASSUME NEW d, NEW own, NEW rank, Placed(d, own, rank), NEW e, NEW h \in d.bitmap, -1 \notin d.bitmap,
           e.bitmap = d.bitmap \ {m \in d.bitmap : own[m] = h}, \A n \in e.bitmap : SameLink(d, e, n)
    PROVE  Placed(e, Left(own, e.bitmap), Left(rank, e.bitmap))
<1> DEFINE own2 == Left(own, e.bitmap)
           rank2 == Left(rank, e.bitmap)
<1>0. own \in [d.bitmap -> d.bitmap] /\ rank \in [d.bitmap -> Nat] /\ e.bitmap \subseteq d.bitmap  BY DEF Placed
<1>1. \A n \in e.bitmap : own2[n] = own[n] /\ rank2[n] = rank[n] /\ own[n] \in e.bitmap
  <2>1. ASSUME NEW n \in e.bitmap PROVE own[n] \in e.bitmap
    <3>1. own[n] \in d.bitmap /\ rank[own[n]] = 0 /\ own[own[n]] = own[n] /\ own[n] # h  BY <1>0 DEF Placed
    <3>2. QED  BY <3>1
  <2>2. QED  BY <2>1 DEF Left
<1>2. own2 \in [e.bitmap -> e.bitmap] /\ rank2 \in [e.bitmap -> Nat]  BY <1>0, <1>1 DEF Left
<1> HIDE DEF own2, rank2
<1>3. ASSUME NEW n \in e.bitmap
      PROVE  /\ rank2[own2[n]] = 0
             /\ e.block[n].head <=> rank2[n] = 0
             /\ rank2[n] = 0 => own2[n] = n
             /\ e.block[n].next # -1 => /\ e.block[n].next \in e.bitmap
                                        /\ own2[e.block[n].next] = own2[n]
                                        /\ rank2[e.block[n].next] = rank2[n] + 1
             /\ rank2[n] # 0 => \E m \in e.bitmap : e.block[m].next = n
  <2>1. n \in d.bitmap /\ SameLink(d, e, n) /\ own[n] # h  BY <1>0
  <2>2. /\ rank2[own2[n]] = 0
        /\ e.block[n].head <=> rank2[n] = 0
        /\ rank2[n] = 0 => own2[n] = n
    BY <1>1, <2>1 DEF Placed, SameLink
  <2>3. ASSUME e.block[n].next # -1
        PROVE  /\ e.block[n].next \in e.bitmap
               /\ own2[e.block[n].next] = own2[n]
               /\ rank2[e.block[n].next] = rank2[n] + 1
    BY <1>1, <2>1, <2>3 DEF Placed, SameLink
  <2>4. rank2[n] # 0 => \E m \in e.bitmap : e.block[m].next = n
    <3>1. SUFFICES ASSUME rank[n] # 0 PROVE \E m \in e.bitmap : e.block[m].next = n  BY <1>1
    <3>2. PICK y \in d.bitmap : d.block[y].next = n  BY <2>1, <3>1 DEF Placed
    <3>3. n # -1 /\ own[y] = own[n]  BY <2>1, <3>2 DEF Placed
    <3>4. y \in e.bitmap  BY <2>1, <3>3
    <3>5. QED  BY <3>2, <3>4 DEF SameLink
  <2>5. QED  BY <2>2, <2>3, <2>4
<1>4. ASSUME NEW m \in e.bitmap, NEW n \in e.bitmap, own2[m] = own2[n], rank2[m] = rank2[n] PROVE m = n
  BY <1>0, <1>1, <1>4 DEF Placed
<1>5. QED  BY <1>2, <1>3, <1>4 DEF Placed, own2, rank2

-----------------------------------------------------------------------------
(* Blocks, the bitmap and the files of an image.                           *)

LEMMA MinIn == ASSUME NEW S \in SUBSET Nat, S # {} PROVE Min(S) \in S
<1>1. \E m \in S : \A x \in S : m <= x  BY LeastExists
<1>2. QED  BY <1>1 DEF Min

\* The block that clear_block makes.
LEMMA ClearIn ==
    /\ clear_block \in Block /\ clear_block.next = -1 /\ clear_block.head = FALSE
    /\ clear_block.st_size = 0 /\ clear_block.filename = NoName
    /\ clear_block.data = [i \in 0 .. BLOCK_DATA - 1 |-> 0]
<1>1. Blank \in [0 .. BLOCK_DATA - 1 -> Byte \cup {0}] /\ Blank = [i \in 0 .. BLOCK_DATA - 1 |-> 0]  BY DEF Blank
<1>2. QED  BY <1>1 DEF clear_block, Block

\* An image is its three parts.
LEMMA DiskIs ==
    ASSUME NEW d, d = [bitmap |-> d.bitmap, block |-> d.block, astray |-> d.astray],
           d.bitmap \subseteq BlockNum, d.astray \in BOOLEAN, d.block \in [BlockNum -> Block]
    PROVE  d \in DiskType
  BY DEF DiskType



\* write_block changes one block.
LEMMA WriteBlockIs ==
    ASSUME NEW d \in DiskType, NEW n \in BlockNum, NEW b \in Block
    PROVE  LET e == write_block(d, n, b)
           IN  /\ e \in DiskType /\ e.bitmap = d.bitmap /\ e.astray = d.astray
               /\ e.block = [d.block EXCEPT ![n] = b]
<1>1. n # -1  BY DEF BlockNum
<1>2. d.block \in [BlockNum -> Block]  BY DEF DiskType
<1>3. [d.block EXCEPT ![n] = b] \in [BlockNum -> Block]  BY <1>2
<1>4. QED  BY <1>1, <1>2, <1>3 DEF write_block, DiskType

\* read_block returns a block.
LEMMA ReadBlockIn ==
    ASSUME NEW d \in DiskType, NEW n \in Num PROVE read_block(d, n) \in Block
  BY ClearIn, DiskHas DEF read_block, Num

\* allocate_block takes a free block and clears it, or the disk is full.
LEMMA AllocateIs ==
    ASSUME NEW d \in DiskType
    PROVE  LET a == allocate_block(d)
           IN  \/ a.num = -1 /\ a.disk = d /\ BlockNum \subseteq d.bitmap
               \/ /\ a.num \in BlockNum /\ a.num \notin d.bitmap
                  /\ a.disk \in DiskType /\ a.disk.astray = d.astray
                  /\ a.disk.bitmap = d.bitmap \cup {a.num}
                  /\ a.disk.block = [d.block EXCEPT ![a.num] = clear_block]
<1> DEFINE n == find_free_bit(d.bitmap)
<1>1. CASE BlockNum \subseteq d.bitmap
  <2>1. n = -1  BY <1>1 DEF find_free_bit
  <2>2. QED  BY <1>1, <2>1 DEF allocate_block
<1>2. CASE ~(BlockNum \subseteq d.bitmap)
  <2>1. n = Min(BlockNum \ d.bitmap)  BY <1>2 DEF find_free_bit
  <2>2. BlockNum \ d.bitmap # {} /\ BlockNum \ d.bitmap \in SUBSET Nat  BY <1>2 DEF BlockNum
  <2>3. n \in BlockNum /\ n \notin d.bitmap /\ n # -1  BY <2>1, <2>2, MinIn
  <2> DEFINE e == set_bit(d, n)
  <2> HIDE DEF n
  <2>4. e \in DiskType /\ e.bitmap = d.bitmap \cup {n} /\ e.block = d.block /\ e.astray = d.astray
    BY <2>3 DEF set_bit, DiskType
  <2> HIDE DEF e
  <2> DEFINE f == write_block(e, n, clear_block)
  <2>5. f \in DiskType /\ f.bitmap = e.bitmap /\ f.astray = e.astray /\ f.block = [e.block EXCEPT ![n] = clear_block]
    BY <2>3, <2>4, ClearIn, WriteBlockIs
  <2>6. allocate_block(d) = [disk |-> f, num |-> n]  BY <2>3 DEF allocate_block, n, e
  <2> HIDE DEF f
  <2>7. QED  BY <2>3, <2>4, <2>5, <2>6
<1>3. QED  BY <1>1, <1>2

\* aofs_find_file_head finds a head that carries the name, if there is one.
LEMMA FindHeadIs ==
    ASSUME NEW d \in DiskType, NEW name
    PROVE  LET h == aofs_find_file_head(d, name)
           IN  \/ h = -1 /\ Heads(d, name) = {}
               \/ h \in Heads(d, name) /\ h # -1
<1>1. Heads(d, name) \in SUBSET Nat /\ -1 \notin Heads(d, name)  BY DiskHas DEF Heads, BlockNum
<1>2. CASE Heads(d, name) = {}  BY <1>2 DEF aofs_find_file_head
<1>3. CASE Heads(d, name) # {}  BY <1>1, <1>3, MinIn DEF aofs_find_file_head
<1>4. QED  BY <1>2, <1>3

\* Two heads have two names.
OneHead(d) ==
    \A m, n \in d.bitmap :
        d.block[m].head /\ d.block[n].head /\ d.block[m].filename = d.block[n].filename => m = n

\* Files other than that of h have in e the blocks and the places that they have in d.
Kept(d, own, rank, e, own2, rank2, h) ==
    /\ \A n \in d.bitmap : own[n] # h => /\ n \in e.bitmap /\ own2[n] = own[n] /\ rank2[n] = rank[n]
                                         /\ e.block[n] = d.block[n]
    /\ \A n \in e.bitmap : own2[n] # h => n \in d.bitmap /\ own[n] # h

\* Names stay single when only the file of h changes and its name is free or its own.
LEMMA OneHeadKept ==
    ASSUME NEW d, NEW own, NEW rank, Placed(d, own, rank), NEW e, NEW own2, NEW rank2, Placed(e, own2, rank2),
           OneHead(d), NEW h, Kept(d, own, rank, e, own2, rank2, h),
           h \in e.bitmap => \A n \in d.bitmap : d.block[n].head /\ d.block[n].filename = e.block[h].filename => n = h
    PROVE  OneHead(e)
<1>1. SUFFICES ASSUME NEW m \in e.bitmap, NEW n \in e.bitmap, e.block[m].head, e.block[n].head,
                      e.block[m].filename = e.block[n].filename
               PROVE  m = n
  BY DEF OneHead
<1>2. own2[m] = m /\ own2[n] = n  BY <1>1 DEF Placed
<1>3. CASE m # h /\ n # h
  <2>1. m \in d.bitmap /\ n \in d.bitmap /\ e.block[m] = d.block[m] /\ e.block[n] = d.block[n]
    BY <1>2, <1>3 DEF Kept
  <2>2. QED  BY <1>1, <2>1 DEF OneHead
<1>4. CASE m = h /\ n # h
  <2>1. n \in d.bitmap /\ e.block[n] = d.block[n]  BY <1>2, <1>4 DEF Kept
  <2>2. QED  BY <1>1, <1>4, <2>1
<1>5. CASE m # h /\ n = h
  <2>1. m \in d.bitmap /\ e.block[m] = d.block[m]  BY <1>2, <1>5 DEF Kept
  <2>2. QED  BY <1>1, <1>5, <2>1
<1>6. QED  BY <1>3, <1>4, <1>5

-----------------------------------------------------------------------------
(* Places of bytes, and what a file needs of blocks.                       *)

\* The first byte of the block with r blocks before it.
Start(r) == r * BLOCK_DATA

\* Places of bytes grow with the ranks of blocks, by a block at least.
LEMMA Starts ==
    /\ Start(0) = 0
    /\ \A r \in Nat : Start(r) \in Nat /\ Start(r + 1) = Start(r) + BLOCK_DATA
    /\ \A r, s \in Nat : r < s => Start(r) + BLOCK_DATA <= Start(s)
<1>0. BLOCK_DATA \in Nat \ {0}  BY AOFSAssumption
<1>1. \A r \in Nat : Start(r) \in Nat  BY <1>0 DEF Start
<1>2. \A r \in Nat : Start(r + 1) = Start(r) + BLOCK_DATA  BY <1>0 DEF Start
<1>3. ASSUME NEW r \in Nat, NEW s \in Nat, r < s PROVE Start(r) + BLOCK_DATA <= Start(s)
  <2> DEFINE t == s - (r + 1)
  <2>1. t \in Nat /\ s = r + 1 + t  BY <1>3
  <2>2. Start(s) = Start(r + 1) + t * BLOCK_DATA  BY <1>0, <2>1 DEF Start
  <2>3. t * BLOCK_DATA \in Nat  BY <1>0, <2>1
  <2> HIDE DEF t
  <2>4. Start(r + 1) \in Nat /\ Start(r + 1) = Start(r) + BLOCK_DATA  BY <1>1, <1>2
  <2>5. QED  BY <2>2, <2>3, <2>4
<1>4. Start(0) = 0  BY <1>0 DEF Start
<1>5. QED  BY <1>1, <1>2, <1>3, <1>4

\* A chain has a block for every full block that the size speaks of.
Covered(d, own, rank) ==
    \A h \in d.bitmap : d.block[h].head =>
        \E n \in d.bitmap : own[n] = h /\ d.block[h].st_size < Start(rank[n]) + 2 * BLOCK_DATA

\* A file whose own chain covers it, among others that are kept.
LEMMA CoveredKept ==
    ASSUME NEW d, NEW own, NEW rank, Placed(d, own, rank), Covered(d, own, rank),
           NEW e, NEW own2, NEW rank2, Placed(e, own2, rank2), NEW h, Kept(d, own, rank, e, own2, rank2, h),
           h \in e.bitmap => \E n \in e.bitmap : own2[n] = h /\ e.block[h].st_size < Start(rank2[n]) + 2 * BLOCK_DATA
    PROVE  Covered(e, own2, rank2)
<1>1. SUFFICES ASSUME NEW g \in e.bitmap, e.block[g].head
               PROVE  \E n \in e.bitmap : own2[n] = g /\ e.block[g].st_size < Start(rank2[n]) + 2 * BLOCK_DATA
  BY DEF Covered
<1>2. CASE g = h  BY <1>2
<1>3. CASE g # h
  <2>1. own2[g] = g  BY <1>1 DEF Placed
  <2>2. g \in d.bitmap /\ own[g] # h /\ e.block[g] = d.block[g]  BY <1>3, <2>1 DEF Kept
  <2>3. PICK n \in d.bitmap : own[n] = g /\ d.block[g].st_size < Start(rank[n]) + 2 * BLOCK_DATA
    BY <1>1, <2>2 DEF Covered
  <2>4. n \in e.bitmap /\ own2[n] = g /\ rank2[n] = rank[n]  BY <1>3, <2>3 DEF Kept
  <2>5. QED  BY <2>2, <2>3, <2>4
<1>4. QED  BY <1>2, <1>3

\* The image with the places of its blocks.
Image(d, own, rank) == d \in DiskType /\ OneHead(d) /\ Placed(d, own, rank) /\ Covered(d, own, rank)

-----------------------------------------------------------------------------
(* Creating and deleting.                                                  *)

\* The head of a new file.
NewHead(name) == [clear_block EXCEPT !.filename = name, !.head = TRUE]

\* What the head of a new file is.
LEMMA HeadIn ==
    ASSUME NEW name \in Name
    PROVE  /\ NewHead(name) \in Block /\ NewHead(name).filename = name /\ NewHead(name).head = TRUE
           /\ NewHead(name).next = -1 /\ NewHead(name).st_size = 0 /\ NewHead(name).data = clear_block.data
  BY ClearIn DEF NewHead, Block

\* aofs_create_file makes an image with one file more, or changes nothing.
LEMMA CreateIs ==
    ASSUME NEW d, NEW own, NEW rank, Image(d, own, rank), NEW name \in Name, Heads(d, name) = {}
    PROVE  LET a == aofs_create_file(d, name)
           IN  \/ a.num = -1 /\ a.disk = d
               \/ /\ a.num \in BlockNum /\ a.num \notin d.bitmap
                  /\ a.disk.astray = d.astray
                  /\ a.disk.bitmap = d.bitmap \cup {a.num}
                  /\ a.disk.block = [d.block EXCEPT ![a.num] = NewHead(name)]
                  /\ Image(a.disk, With(own, a.num, a.num), With(rank, a.num, 0))
                  /\ Kept(d, own, rank, a.disk, With(own, a.num, a.num), With(rank, a.num, 0), a.num)
<1> DEFINE a == allocate_block(d)
           c == aofs_create_file(d, name)
<1>0. d \in DiskType /\ OneHead(d) /\ Placed(d, own, rank) /\ Covered(d, own, rank)  BY DEF Image
<1>a. \/ a.num = -1 /\ a.disk = d
      \/ /\ a.num \in BlockNum /\ a.num \notin d.bitmap
         /\ a.disk \in DiskType /\ a.disk.astray = d.astray
         /\ a.disk.bitmap = d.bitmap \cup {a.num}
         /\ a.disk.block = [d.block EXCEPT ![a.num] = clear_block]
  BY <1>0, AllocateIs
<1>b. a.num = -1 => a.num \notin BlockNum  BY DEF BlockNum
<1>1. CASE a.num = -1
  <2>1. a.disk = d  BY <1>a, <1>b, <1>1
  <2>2. c = a  BY <1>1 DEF aofs_create_file
  <2>3. QED  BY <1>1, <2>1, <2>2
<1>2. CASE a.num # -1
  <2>1. /\ a.num \in BlockNum /\ a.num \notin d.bitmap
        /\ a.disk \in DiskType /\ a.disk.astray = d.astray
        /\ a.disk.bitmap = d.bitmap \cup {a.num}
        /\ a.disk.block = [d.block EXCEPT ![a.num] = clear_block]
    BY <1>a, <1>2
  <2> DEFINE n == a.num
             e == write_block(a.disk, n, NewHead(name))
             own2 == With(own, n, n)
             rank2 == With(rank, n, 0)
  <2>2. a = [disk |-> a.disk, num |-> a.num]  BY <1>2 DEF allocate_block
  <2>3. c = [a EXCEPT !.disk = e]  BY <1>2 DEF aofs_create_file, NewHead
  <2>4. c.num = n /\ c.disk = e  BY <2>2, <2>3
  <2> HIDE DEF c, a
  <2>5. /\ e \in DiskType /\ e.bitmap = a.disk.bitmap /\ e.astray = a.disk.astray
        /\ e.block = [a.disk.block EXCEPT ![n] = NewHead(name)]
    <3>1. NewHead(name) \in Block  BY HeadIn
    <3>2. a.disk \in DiskType /\ n \in BlockNum  BY <2>1
    <3>3. QED  BY <3>1, <3>2, WriteBlockIs
  <2>6. d.block \in [BlockNum -> Block]  BY <1>0, DiskHas
  <2>7. e.bitmap = d.bitmap \cup {n} /\ e.astray = d.astray /\ e.block = [d.block EXCEPT ![n] = NewHead(name)]
    BY <2>1, <2>5, <2>6
  <2> HIDE DEF e
  <2>8. d.bitmap \subseteq BlockNum /\ -1 \notin BlockNum /\ n \in BlockNum /\ n \notin d.bitmap  BY <1>0, <2>1, DiskHas
  <2>9. e.block[n] = NewHead(name) /\ \A x \in d.bitmap : e.block[x] = d.block[x]  BY <2>6, <2>7, <2>8
  <2>10. Placed(e, own2, rank2)
    <3>1. \A x \in d.bitmap : SameLink(d, e, x)  BY <2>9 DEF SameLink
    <3>2. e.block[n].head = TRUE /\ e.block[n].next = -1  BY <2>9, HeadIn
    <3>3. n # -1 /\ -1 \notin d.bitmap  BY <2>8
    <3>4. QED  BY <1>0, <2>7, <2>8, <3>1, <3>2, <3>3, PlacedNew
  <2>11. /\ own2[n] = n /\ rank2[n] = 0
         /\ \A x \in d.bitmap : own2[x] = own[x] /\ rank2[x] = rank[x] /\ own[x] # n
    BY <1>0, <2>8 DEF Placed, With
  <2> HIDE DEF own2, rank2
  <2>12. Kept(d, own, rank, e, own2, rank2, n)  BY <2>7, <2>9, <2>11 DEF Kept
  <2>13. OneHead(e)
    <3>1. \A x \in d.bitmap : ~(d.block[x].head /\ d.block[x].filename = e.block[n].filename)
      BY <2>9, HeadIn DEF Heads
    <3>2. QED  BY <1>0, <2>10, <2>12, <3>1, OneHeadKept
  <2>14. Covered(e, own2, rank2)
    <3>1. BLOCK_DATA \in Nat \ {0} /\ Start(0) = 0  BY AOFSAssumption, Starts
    <3>a. e.block[n].st_size = 0  BY <2>9, HeadIn
    <3>b. Start(rank2[n]) = 0  BY <2>11, <3>1
    <3>2. n \in e.bitmap /\ own2[n] = n  BY <2>7, <2>11
    <3>3. 0 < 0 + 2 * BLOCK_DATA  BY <3>1
    <3>4. QED  BY <1>0, <2>10, <2>12, <3>a, <3>b, <3>2, <3>3, CoveredKept
  <2>15. Image(e, own2, rank2)  BY <2>5, <2>10, <2>13, <2>14 DEF Image
  <2>16. /\ c.num \in BlockNum /\ c.num \notin d.bitmap
         /\ c.disk.astray = d.astray /\ c.disk.bitmap = d.bitmap \cup {c.num}
         /\ c.disk.block = [d.block EXCEPT ![c.num] = NewHead(name)]
    BY <2>4, <2>7, <2>8
  <2>17. own2 = With(own, c.num, c.num) /\ rank2 = With(rank, c.num, 0)  BY <2>4 DEF own2, rank2
  <2>18. /\ Image(c.disk, With(own, c.num, c.num), With(rank, c.num, 0))
         /\ Kept(d, own, rank, c.disk, With(own, c.num, c.num), With(rank, c.num, 0), c.num)
    BY <2>4, <2>12, <2>15, <2>17
  <2>19. QED  BY <2>16, <2>18 DEF c
<1>3. QED  BY <1>1, <1>2

\* deallocate_blocks takes blocks out of the bitmap and leaves the other blocks.
LEMMA DeallocatedIs ==
    ASSUME NEW d \in DiskType, NEW S
    PROVE  LET e == deallocate_blocks(d, S)
           IN  /\ e \in DiskType /\ e.bitmap = d.bitmap \ S /\ e.astray = d.astray
               /\ \A n \in BlockNum : n \notin S => e.block[n] = d.block[n]
<1> DEFINE blk == [n \in BlockNum |-> IF n \in S THEN clear_block ELSE d.block[n]]
<1>1. d.block \in [BlockNum -> Block]  BY DiskHas
<1>2. blk \in [BlockNum -> Block]  BY <1>1, ClearIn
<1>3. deallocate_blocks(d, S) = [d EXCEPT !.bitmap = d.bitmap \ S, !.block = blk]  BY DEF deallocate_blocks
<1> HIDE DEF blk
<1> DEFINE e == [d EXCEPT !.bitmap = d.bitmap \ S, !.block = blk]
<1>4. e \in DiskType /\ e.bitmap = d.bitmap \ S /\ e.block = blk /\ e.astray = d.astray
  BY <1>2 DEF DiskType
<1>5. \A n \in BlockNum : n \notin S => blk[n] = d.block[n]  BY DEF blk
<1> HIDE DEF e
<1>6. deallocate_blocks(d, S) = e  BY <1>3 DEF e
<1>7. QED  BY <1>4, <1>5, <1>6

\* delete_chain of a head takes its file, and only that, out of the image.
LEMMA UnlinkIs ==
    ASSUME NEW d, NEW own, NEW rank, Image(d, own, rank), NEW h \in d.bitmap, d.block[h].head
    PROVE  LET e == delete_chain(d, h)
           IN  /\ e.bitmap = d.bitmap \ {m \in d.bitmap : own[m] = h} /\ e.astray = d.astray
               /\ Image(e, Left(own, e.bitmap), Left(rank, e.bitmap))
               /\ Kept(d, own, rank, e, Left(own, e.bitmap), Left(rank, e.bitmap), h)
<1> DEFINE e == delete_chain(d, h)
           own2 == Left(own, e.bitmap)
           rank2 == Left(rank, e.bitmap)
<1>0. d \in DiskType /\ OneHead(d) /\ Placed(d, own, rank) /\ Covered(d, own, rank)  BY DEF Image
<1>1. own[h] = h /\ rank[h] = 0  BY <1>0 DEF Placed
<1>2. ChainBlocks(d, h) = {m \in d.bitmap : own[m] = h}
  <2>1. ChainBlocks(d, h) = {m \in d.bitmap : own[m] = own[h] /\ rank[m] >= rank[h]}  BY <1>0, ChainBlocksAre
  <2>2. \A m \in d.bitmap : rank[m] \in Nat  BY <1>0 DEF Placed
  <2>3. QED  BY <1>1, <2>1, <2>2
<1>3. /\ e \in DiskType /\ e.bitmap = d.bitmap \ {m \in d.bitmap : own[m] = h} /\ e.astray = d.astray
      /\ \A n \in BlockNum : n \notin {m \in d.bitmap : own[m] = h} => e.block[n] = d.block[n]
  BY <1>0, <1>2, DeallocatedIs DEF delete_chain
<1> HIDE DEF e
<1>4. d.bitmap \subseteq BlockNum /\ -1 \notin BlockNum  BY <1>0, DiskHas
<1>5. \A n \in e.bitmap : n \in d.bitmap /\ own[n] # h /\ e.block[n] = d.block[n]  BY <1>3, <1>4
<1>6. Placed(e, own2, rank2)
  <2>1. \A n \in e.bitmap : SameLink(d, e, n)  BY <1>5 DEF SameLink
  <2>2. QED  BY <1>0, <1>3, <1>4, <2>1, PlacedGone
<1>7. Kept(d, own, rank, e, own2, rank2, h)  BY <1>3, <1>5 DEF Kept, Left
<1>8. h \notin e.bitmap  BY <1>1, <1>3
<1>9. OneHead(e)  BY <1>0, <1>6, <1>7, <1>8, OneHeadKept
<1>10. Covered(e, own2, rank2)  BY <1>0, <1>6, <1>7, <1>8, CoveredKept
<1>11. QED  BY <1>3, <1>6, <1>7, <1>9, <1>10 DEF Image, e

-----------------------------------------------------------------------------
(* Truncating.                                                             *)

LEMMA DivMod == ASSUME NEW a \in Int, NEW b \in Int, b > 0 PROVE a = b * (a \div b) + (a % b)
  BY Z3

\* The block that holds a byte, and where it is in the block.
LEMMA Bytes ==
    ASSUME NEW q \in Nat
    PROVE  /\ q \div BLOCK_DATA \in Nat /\ q % BLOCK_DATA \in 0 .. BLOCK_DATA - 1
           /\ q = Start(q \div BLOCK_DATA) + (q % BLOCK_DATA)
<1>0. BLOCK_DATA \in Int /\ BLOCK_DATA > 0  BY AOFSAssumption
<1>1. q \div BLOCK_DATA \in Nat /\ q % BLOCK_DATA \in 0 .. BLOCK_DATA - 1  BY <1>0
<1>2. q = BLOCK_DATA * (q \div BLOCK_DATA) + (q % BLOCK_DATA)  BY <1>0, DivMod
<1>3. BLOCK_DATA * (q \div BLOCK_DATA) = (q \div BLOCK_DATA) * BLOCK_DATA  BY <1>0, <1>1
<1>4. QED  BY <1>1, <1>2, <1>3 DEF Start

\* A block with a smaller first byte comes before.
LEMMA StartsLess ==
    ASSUME NEW r \in Nat, NEW s \in Nat, Start(r) < Start(s) PROVE r < s
<1>0. BLOCK_DATA \in Nat \ {0}  BY AOFSAssumption
<1>1. Start(r) \in Nat /\ Start(s) \in Nat  BY Starts
<1>2. ASSUME s < r PROVE FALSE
  <2>1. Start(s) + BLOCK_DATA <= Start(r)  BY <1>2, Starts
  <2>2. QED  BY <1>0, <1>1, <2>1
<1>3. r # s  BY <1>1
<1>4. QED  BY <1>2, <1>3

\* The byte of offset j in block r.
LEMMA ByteOf ==
    ASSUME NEW r \in Nat, NEW j \in 0 .. BLOCK_DATA - 1
    PROVE  (Start(r) + j) \div BLOCK_DATA = r /\ (Start(r) + j) % BLOCK_DATA = j
<1> DEFINE q == Start(r) + j
           s == q \div BLOCK_DATA
           i == q % BLOCK_DATA
<1>0. BLOCK_DATA \in Nat \ {0} /\ Start(r) \in Nat  BY AOFSAssumption, Starts
<1>a. q \in Nat
  <2> j \in Nat  BY <1>0
  <2> QED  BY <1>0
<1> HIDE DEF q
<1>1. s \in Nat /\ i \in 0 .. BLOCK_DATA - 1 /\ q = Start(s) + i
  <2>1. /\ q \div BLOCK_DATA \in Nat /\ q % BLOCK_DATA \in 0 .. BLOCK_DATA - 1
        /\ q = Start(q \div BLOCK_DATA) + (q % BLOCK_DATA)
    BY <1>a, Bytes, Zenon
  <2>2. QED  BY <2>1, Zenon
<1>2. Start(s) \in Nat  BY <1>1, Starts
<1> HIDE DEF s, i
<1>b. q = Start(r) + j  BY DEF q
<1>3. ~(s < r)
  <2>1. s < r => Start(s) + BLOCK_DATA <= Start(r)  BY <1>1, Starts
  <2>2. QED  BY <1>0, <1>1, <1>2, <1>b, <2>1
<1>4. ~(r < s)
  <2>1. r < s => Start(r) + BLOCK_DATA <= Start(s)  BY <1>1, Starts
  <2>2. QED  BY <1>0, <1>1, <1>2, <1>b, <2>1
<1>5. s = r  BY <1>1, <1>3, <1>4
<1>6. i = j  BY <1>0, <1>1, <1>2, <1>5, <1>b
<1>7. QED  BY <1>5, <1>6 DEF s, i, q

\* A chain has a last block, and no block behind it.
LEMMA LastExists ==
    ASSUME NEW d \in DiskType, NEW own, NEW rank, Placed(d, own, rank), NEW h \in d.bitmap, own[h] = h
    PROVE  \E m \in d.bitmap : own[m] = h /\ d.block[m].next = -1
<1> DEFINE B == {BLOCK_NUM - rank[m] : m \in {x \in d.bitmap : own[x] = h}}
<1>0. BLOCK_NUM \in Nat /\ \A m \in d.bitmap : rank[m] \in Nat /\ rank[m] <= BLOCK_NUM - 1
  BY AOFSAssumption, RankBound DEF Placed
<1>1. B \in SUBSET Nat /\ B # {}  BY <1>0
<1>2. PICK b \in B : \A y \in B : b <= y  BY <1>1, LeastExists
<1>3. PICK m \in d.bitmap : own[m] = h /\ b = BLOCK_NUM - rank[m]  BY <1>2
<1>4. ASSUME d.block[m].next # -1 PROVE FALSE
  <2> DEFINE x == d.block[m].next
  <2>1. x \in d.bitmap /\ own[x] = h /\ rank[x] = rank[m] + 1  BY <1>3, <1>4 DEF Placed
  <2>2. BLOCK_NUM - rank[x] \in B  BY <2>1
  <2>3. b <= BLOCK_NUM - rank[x]  BY <1>2, <2>2
  <2> HIDE DEF x
  <2>4. QED  BY <1>0, <1>3, <2>1, <2>3
<1>5. QED  BY <1>3, <1>4

\* A block without a link is the last one of its file.
LEMMA LastIsLast ==
    ASSUME NEW d \in DiskType, NEW own, NEW rank, Placed(d, own, rank), NEW m \in d.bitmap, d.block[m].next = -1,
           NEW n \in d.bitmap, own[n] = own[m]
    PROVE  rank[n] <= rank[m]
<1>0. rank[m] \in Nat /\ rank[n] \in Nat  BY DEF Placed
<1>1. ASSUME rank[n] > rank[m] PROVE FALSE
  <2>1. rank[m] + 1 \in 0 .. rank[n]  BY <1>0, <1>1
  <2>2. PICK x \in d.bitmap : own[x] = own[m] /\ rank[x] = rank[m] + 1  BY <2>1, NoGaps
  <2>3. rank[x] # 0  BY <1>0, <2>2
  <2>4. PICK y \in d.bitmap : d.block[y].next = x  BY <2>3 DEF Placed
  <2>5. x # -1  BY DiskHas
  <2>6. own[y] = own[m] /\ rank[y] + 1 = rank[m] + 1 /\ rank[y] \in Nat  BY <2>2, <2>4, <2>5 DEF Placed
  <2>7. y = m  BY <1>0, <2>6 DEF Placed
  <2>8. QED  BY <2>4, <2>5, <2>7
<1>2. QED  BY <1>0, <1>1

\* SeekLast finds the last block of a file.
LEMMA SeekLastIs ==
    ASSUME NEW d \in DiskType, NEW own, NEW rank, Placed(d, own, rank), NEW h \in d.bitmap, own[h] = h
    PROVE  LET m == SeekLast(d, h) IN m \in d.bitmap /\ own[m] = h /\ d.block[m].next = -1
<1>1. PICK m \in d.bitmap : own[m] = h /\ d.block[m].next = -1  BY LastExists
<1>2. rank[h] = 0 /\ \A x \in d.bitmap : rank[x] \in Nat  BY DEF Placed
<1>3. ChainBlocks(d, h) = {x \in d.bitmap : own[x] = h}
  <2>1. ChainBlocks(d, h) = {x \in d.bitmap : own[x] = own[h] /\ rank[x] >= rank[h]}  BY ChainBlocksAre
  <2>2. QED  BY <1>2, <2>1
<1>4. m \in ChainBlocks(d, h)  BY <1>1, <1>3
<1>5. SeekLast(d, h) \in ChainBlocks(d, h) /\ d.block[SeekLast(d, h)].next = -1  BY <1>1, <1>4 DEF SeekLast
<1>6. QED  BY <1>3, <1>5

\* No block, no chain.
LEMMA ChainOfNone == ASSUME NEW d \in DiskType PROVE ChainBlocks(d, -1) = {}
<1>1. -1 \in Num /\ Links(d)  BY DiskHas DEF Num
<1>2. Seek(d, -1, 0) = -1  BY <1>1, SeekSteps
<1>3. ASSUME NEW k \in 0 .. BLOCK_NUM - 1 PROVE Seek(d, -1, k) = -1
  <2>1. k \in Nat /\ 0 <= k  OBVIOUS
  <2>2. QED  BY <1>1, <1>2, <2>1, SeekEnds
<1>4. QED  BY <1>3 DEF ChainBlocks

\* e is d with the chain of h cut off after p, and p with zeros from off on.
CutAt(d, own, rank, h, p, off, e) ==
    /\ e \in DiskType /\ e.astray = d.astray
    /\ e.bitmap = d.bitmap \ {m \in d.bitmap : own[m] = h /\ rank[m] >= rank[p] + 1}
    /\ \A n \in e.bitmap : n # p => e.block[n] = d.block[n]
    /\ e.block[p] = [d.block[p] EXCEPT !.next = -1,
           !.data = [i \in DOMAIN d.block[p].data |-> IF i >= off THEN 0 ELSE d.block[p].data[i]]]
    /\ Placed(e, Left(own, e.bitmap), Left(rank, e.bitmap))

\* BreakDown cuts the chain after block k.
LEMMA BreakDownIs ==
    ASSUME NEW d, NEW own, NEW rank, Image(d, own, rank), NEW h \in d.bitmap, own[h] = h,
           NEW p \in d.bitmap, own[p] = h, NEW k \in Nat, rank[p] = k, NEW off \in Nat
    PROVE  CutAt(d, own, rank, h, p, off, BreakDown(d, h, k, off))
<1> DEFINE x == d.block[p].next
           gone == {m \in d.bitmap : own[m] = h /\ rank[m] >= k + 1}
           d1 == delete_chain(d, x)
           b == [d.block[p] EXCEPT !.next = -1,
                      !.data = [i \in DOMAIN d.block[p].data |-> IF i >= off THEN 0 ELSE d.block[p].data[i]]]
           e == write_block(d1, p, b)
<1>0. d \in DiskType /\ Placed(d, own, rank) /\ d.bitmap \subseteq BlockNum /\ -1 \notin BlockNum  BY DiskHas DEF Image
<1>1. rank[h] = 0 /\ p # -1 /\ p \in BlockNum  BY <1>0 DEF Placed
<1>2. Seek(d, h, k) = p
  <2>1. own[p] = own[h] /\ rank[p] = rank[h] + k  BY <1>1
  <2>2. QED  BY <1>0, <2>1, SeekBack
<1>3. ChainBlocks(d, x) = gone
  <2>1. CASE x = -1
    <3>1. ChainBlocks(d, x) = {}  BY <1>0, <2>1, ChainOfNone
    <3>2. ASSUME NEW m \in gone PROVE FALSE
      <4>1. rank[m] <= rank[p]  BY <1>0, <2>1, LastIsLast
      <4>2. rank[m] \in Nat  BY <1>0 DEF Placed
      <4>3. QED  BY <4>1, <4>2
    <3>3. QED  BY <3>1, <3>2
  <2>2. CASE x # -1
    <3>1. x \in d.bitmap /\ own[x] = h /\ rank[x] = k + 1  BY <1>0, <2>2 DEF Placed
    <3>2. QED  BY <1>0, <3>1, ChainBlocksAre
  <2>3. QED  BY <2>1, <2>2
<1>4. /\ d1 \in DiskType /\ d1.bitmap = d.bitmap \ gone /\ d1.astray = d.astray
      /\ \A n \in BlockNum : n \notin gone => d1.block[n] = d.block[n]
  BY <1>0, <1>3, DeallocatedIs DEF delete_chain
<1>5. b \in Block
  <2>1. d.block[p] \in Block /\ d.block[p].data \in [0 .. BLOCK_DATA - 1 -> Byte \cup {0}]  BY <1>0, <1>1, DiskHas
  <2>2. [i \in DOMAIN d.block[p].data |-> IF i >= off THEN 0 ELSE d.block[p].data[i]] \in [0 .. BLOCK_DATA - 1 -> Byte \cup {0}]
    BY <2>1
  <2>3. QED  BY <2>1, <2>2 DEF Block
<1>6. BreakDown(d, h, k, off) = e  BY <1>1, <1>2 DEF BreakDown
<1>h. b.head = d.block[p].head /\ b.next = -1
  <2>1. d.block[p] \in Block  BY <1>0, <1>1, DiskHas
  <2>2. QED  BY <2>1 DEF Block
<1> HIDE DEF d1, b
<1>7. e \in DiskType /\ e.bitmap = d1.bitmap /\ e.astray = d1.astray /\ e.block = [d1.block EXCEPT ![p] = b]
  BY <1>1, <1>4, <1>5, WriteBlockIs
<1> HIDE DEF e
<1>8. d1.block \in [BlockNum -> Block] /\ p \notin gone  BY <1>4, DiskHas
<1>9. e.block[p] = b /\ \A n \in e.bitmap : n # p => e.block[n] = d.block[n]  BY <1>0, <1>1, <1>4, <1>7, <1>8
<1>10. e.bitmap = d.bitmap \ {m \in d.bitmap : own[m] = own[p] /\ rank[m] >= rank[p] + 1}  BY <1>4, <1>7
<1>11. \A n \in e.bitmap : n # p => SameLink(d, e, n)  BY <1>9 DEF SameLink
<1>12. e.block[p].head = d.block[p].head /\ e.block[p].next = -1  BY <1>9, <1>h
<1>13. Placed(e, Left(own, e.bitmap), Left(rank, e.bitmap))  BY <1>0, <1>10, <1>11, <1>12, PlacedCut
<1>14. e \in DiskType /\ e.astray = d.astray /\ e.bitmap = d.bitmap \ gone  BY <1>4, <1>7
<1>15. CutAt(d, own, rank, h, p, off, e)  BY <1>9, <1>10, <1>13, <1>14 DEF b, CutAt
<1>16. QED  BY <1>6, <1>15

\* e is d with block h replaced by b, in which only the size is another.
SizeStored(d, h, size, b, e) ==
    /\ b \in Block /\ e \in DiskType /\ e.bitmap = d.bitmap /\ e.astray = d.astray
    /\ \A n \in BlockNum : n # h => e.block[n] = d.block[n]
    /\ e.block[h] = b /\ b.st_size = size /\ SameLink(d, e, h)
    /\ b.filename = d.block[h].filename /\ b.data = d.block[h].data

\* What storing a size in a head changes.
LEMMA SizeIs ==
    ASSUME NEW d \in DiskType, NEW h \in BlockNum, NEW size \in Nat
    PROVE  LET b == [d.block[h] EXCEPT !.st_size = size]
               e == write_block(d, h, b)
           IN  e = [d EXCEPT !.block[h].st_size = size] /\ SizeStored(d, h, size, b, e)
<1> DEFINE b == [d.block[h] EXCEPT !.st_size = size]
           e == write_block(d, h, b)
<1>1. d.block[h] \in Block /\ d.block \in [BlockNum -> Block] /\ h # -1  BY DiskHas
<1>2. /\ b \in Block /\ b.st_size = size /\ b.head = d.block[h].head /\ b.next = d.block[h].next
      /\ b.filename = d.block[h].filename /\ b.data = d.block[h].data
  BY <1>1 DEF Block
<1>3. e = [d EXCEPT !.block[h].st_size = size]  BY <1>1 DEF write_block
<1> HIDE DEF b
<1>4. e \in DiskType /\ e.bitmap = d.bitmap /\ e.astray = d.astray /\ e.block = [d.block EXCEPT ![h] = b]
  BY <1>2, WriteBlockIs
<1>5. e.block[h] = b /\ \A n \in BlockNum : n # h => e.block[n] = d.block[n]  BY <1>1, <1>4
<1>6. SameLink(d, e, h)  BY <1>2, <1>5 DEF SameLink
<1>7. SizeStored(d, h, size, b, e)  BY <1>2, <1>4, <1>5, <1>6 DEF SizeStored
<1>8. QED  BY <1>3, <1>7 DEF b

\* e has the blocks of d at their places, and perhaps more blocks in the file of h.
Grows(d, own, rank, e, own2, rank2, h) ==
    /\ e \in DiskType /\ Placed(e, own2, rank2)
    /\ \A n \in d.bitmap : /\ n \in e.bitmap /\ own2[n] = own[n] /\ rank2[n] = rank[n]
                           /\ e.block[n].head = d.block[n].head /\ e.block[n].filename = d.block[n].filename
                           /\ e.block[n].st_size = d.block[n].st_size
                           /\ own[n] # h => e.block[n] = d.block[n]
    /\ \A n \in e.bitmap : n \notin d.bitmap => own2[n] = h

\* A file that grows leaves the others alone.
LEMMA GrowsKeeps ==
    ASSUME NEW d, NEW own, NEW rank, NEW e, NEW own2, NEW rank2, NEW h, Grows(d, own, rank, e, own2, rank2, h)
    PROVE  Kept(d, own, rank, e, own2, rank2, h)
  BY DEF Grows, Kept

\* One more block behind the last one of h, p, which may get other data.
LEMMA GrowsBy ==
    ASSUME NEW d, NEW own, NEW rank, NEW e, NEW own2, NEW rank2, NEW h, Grows(d, own, rank, e, own2, rank2, h),
           NEW p \in e.bitmap, own2[p] = h, e.block[p].next = -1, NEW a, a \notin e.bitmap,
           NEW f \in DiskType, f.bitmap = e.bitmap \cup {a},
           \A n \in e.bitmap : n # p => f.block[n] = e.block[n],
           f.block[p].head = e.block[p].head, f.block[p].next = a,
           p \in d.bitmap => f.block[p].filename = e.block[p].filename /\ f.block[p].st_size = e.block[p].st_size,
           ~f.block[a].head, f.block[a].next = -1
    PROVE  /\ Grows(d, own, rank, f, With(own2, a, h), With(rank2, a, rank2[p] + 1), h)
           /\ With(own2, a, h)[a] = h /\ With(rank2, a, rank2[p] + 1)[a] = rank2[p] + 1
<1> DEFINE own3 == With(own2, a, h)
           rank3 == With(rank2, a, rank2[p] + 1)
<1>1. e \in DiskType /\ Placed(e, own2, rank2)  BY DEF Grows
<1>2. -1 \notin e.bitmap /\ -1 \notin f.bitmap /\ a # -1  BY <1>1, DiskHas
<1>3. Placed(f, own3, rank3)
  <2>1. \A n \in e.bitmap : n # p => SameLink(e, f, n)  BY DEF SameLink
  <2>2. Placed(f, With(own2, a, own2[p]), With(rank2, a, rank2[p] + 1))  BY <1>1, <1>2, <2>1, PlacedBehind
  <2>3. QED  BY <2>2
<1>4. own3[a] = h /\ rank3[a] = rank2[p] + 1 /\ \A n \in e.bitmap : own3[n] = own2[n] /\ rank3[n] = rank2[n]
  BY <1>1 DEF With, Placed
<1> HIDE DEF own3, rank3
<1>5. Grows(d, own, rank, f, own3, rank3, h)
  <2>1. ASSUME NEW n \in d.bitmap
        PROVE  /\ n \in f.bitmap /\ own3[n] = own[n] /\ rank3[n] = rank[n]
               /\ f.block[n].head = d.block[n].head /\ f.block[n].filename = d.block[n].filename
               /\ f.block[n].st_size = d.block[n].st_size
               /\ own[n] # h => f.block[n] = d.block[n]
    BY <1>4 DEF Grows
  <2>2. ASSUME NEW n \in f.bitmap, n \notin d.bitmap PROVE own3[n] = h  BY <1>4, <2>2 DEF Grows
  <2>3. QED  BY <1>3, <2>1, <2>2 DEF Grows
<1>6. QED  BY <1>4, <1>5 DEF own3, rank3

\* Block p of h gets other data, and its links stay.
LEMMA GrowsSame ==
    ASSUME NEW d, NEW own, NEW rank, NEW e, NEW own2, NEW rank2, NEW h, Grows(d, own, rank, e, own2, rank2, h),
           NEW p \in e.bitmap, own2[p] = h, NEW f \in DiskType, f.bitmap = e.bitmap,
           \A n \in e.bitmap : n # p => f.block[n] = e.block[n], SameLink(e, f, p),
           p \in d.bitmap => f.block[p].filename = e.block[p].filename /\ f.block[p].st_size = e.block[p].st_size
    PROVE  Grows(d, own, rank, f, own2, rank2, h)
<1>1. e \in DiskType /\ Placed(e, own2, rank2)  BY DEF Grows
<1>2. \A n \in e.bitmap : SameLink(e, f, n)  BY DEF SameLink
<1>3. Placed(f, own2, rank2)  BY <1>1, <1>2, PlacedSame
<1>4. ASSUME NEW n \in d.bitmap
      PROVE  /\ n \in f.bitmap /\ own2[n] = own[n] /\ rank2[n] = rank[n]
             /\ f.block[n].head = d.block[n].head /\ f.block[n].filename = d.block[n].filename
             /\ f.block[n].st_size = d.block[n].st_size
             /\ own[n] # h => f.block[n] = d.block[n]
  BY <1>2 DEF Grows, SameLink
<1>5. QED  BY <1>3, <1>4 DEF Grows

\* The states of the loop of Expand.
GState == [disk : DiskType, prev : BlockNum, full : BOOLEAN]

\* One round of Expand: a block is allocated and linked, or the disk is full.
LEMMA GrowIs ==
    ASSUME NEW name \in Name, NEW s \in GState
    PROVE  LET e == Grow(name, s)
           IN  /\ e \in GState
               /\ \/ e.disk = s.disk /\ e.prev = s.prev /\ e.full = TRUE /\ BlockNum \subseteq s.disk.bitmap
                  \/ /\ e.full = FALSE /\ e.disk.astray = s.disk.astray
                     /\ e.prev \in BlockNum /\ e.prev \notin s.disk.bitmap
                     /\ e.disk.bitmap = s.disk.bitmap \cup {e.prev}
                     /\ \A n \in BlockNum : n # s.prev /\ n # e.prev => e.disk.block[n] = s.disk.block[n]
                     /\ s.prev \in s.disk.bitmap =>
                           e.disk.block[s.prev] = [s.disk.block[s.prev] EXCEPT !.next = e.prev]
                     /\ e.disk.block[e.prev] = [clear_block EXCEPT !.filename = name]
<1> DEFINE a == allocate_block(s.disk)
           b == [a.disk.block[s.prev] EXCEPT !.next = a.num]
           l == [a.disk EXCEPT !.block[s.prev].next = a.num]
           c == [clear_block EXCEPT !.filename = name]
           g == write_block(l, a.num, c)
           e == Grow(name, s)
<1>0. s.disk \in DiskType /\ s.prev \in BlockNum /\ s.full \in BOOLEAN  BY DEF GState
<1>1. \/ a.num = -1 /\ a.disk = s.disk /\ BlockNum \subseteq s.disk.bitmap
      \/ /\ a.num \in BlockNum /\ a.num \notin s.disk.bitmap
         /\ a.disk \in DiskType /\ a.disk.astray = s.disk.astray
         /\ a.disk.bitmap = s.disk.bitmap \cup {a.num}
         /\ a.disk.block = [s.disk.block EXCEPT ![a.num] = clear_block]
  BY <1>0, AllocateIs
<1>2. CASE a.num = -1
  <2>1. e = [s EXCEPT !.full = TRUE]  BY <1>2 DEF Grow
  <2>2. e \in GState /\ e.disk = s.disk /\ e.prev = s.prev /\ e.full = TRUE  BY <2>1 DEF GState
  <2>3. BlockNum \subseteq s.disk.bitmap
    <3>1. -1 \notin BlockNum  BY DEF BlockNum
    <3>2. QED  BY <1>1, <1>2, <3>1
  <2>4. QED  BY <2>2, <2>3
<1>3. CASE a.num # -1
  <2>1. /\ a.num \in BlockNum /\ a.num \notin s.disk.bitmap
        /\ a.disk \in DiskType /\ a.disk.astray = s.disk.astray
        /\ a.disk.bitmap = s.disk.bitmap \cup {a.num}
        /\ a.disk.block = [s.disk.block EXCEPT ![a.num] = clear_block]
    BY <1>1, <1>3
  <2>2. e = [disk |-> g, prev |-> a.num, full |-> FALSE]  BY <1>3 DEF Grow
  <2> HIDE DEF a, e
  <2>3. c \in Block  BY ClearIn DEF Block
  <2>4. l = write_block(a.disk, s.prev, b)
    <3>1. s.prev # -1  BY <1>0 DEF BlockNum
    <3>2. QED  BY <3>1 DEF write_block
  <2>5. b \in Block
    <3>1. a.disk.block[s.prev] \in Block /\ a.num \in Num  BY <1>0, <2>1, DiskHas DEF Num
    <3>2. QED  BY <3>1 DEF Block, Num
  <2> HIDE DEF l
  <2>6. /\ l \in DiskType /\ l.bitmap = a.disk.bitmap /\ l.astray = a.disk.astray
        /\ l.block = [a.disk.block EXCEPT ![s.prev] = b]
    BY <1>0, <2>1, <2>4, <2>5, WriteBlockIs
  <2>7. /\ g \in DiskType /\ g.bitmap = l.bitmap /\ g.astray = l.astray
        /\ g.block = [l.block EXCEPT ![a.num] = c]
    BY <2>1, <2>3, <2>6, WriteBlockIs
  <2> HIDE DEF g, b
  <2>8. s.disk.block \in [BlockNum -> Block]  BY <1>0, DiskHas
  <2>9. /\ g.block[a.num] = c
        /\ \A n \in BlockNum : n # s.prev /\ n # a.num => g.block[n] = s.disk.block[n]
        /\ s.prev # a.num => g.block[s.prev] = b
    BY <1>0, <2>1, <2>6, <2>7, <2>8
  <2>10. s.prev \in s.disk.bitmap => s.prev # a.num /\ b = [s.disk.block[s.prev] EXCEPT !.next = a.num]
    BY <1>0, <2>1, <2>8 DEF b
  <2>11. e \in GState /\ e.disk = g /\ e.prev = a.num /\ e.full = FALSE  BY <2>1, <2>2, <2>7 DEF GState
  <2>12. g.astray = s.disk.astray /\ g.bitmap = s.disk.bitmap \cup {a.num}  BY <2>1, <2>6, <2>7
  <2>13. QED  BY <2>1, <2>9, <2>10, <2>11, <2>12 DEF e, c
<1>4. QED  BY <1>2, <1>3

\* After i rounds of Expand from the last block p of h.
Grown(d, own, rank, h, p, i, s, own2, rank2) ==
    /\ s \in GState /\ Grows(d, own, rank, s.disk, own2, rank2, h) /\ s.disk.astray = d.astray
    /\ s.prev \in s.disk.bitmap /\ own2[s.prev] = h /\ s.disk.block[s.prev].next = -1
    /\ s.full => BlockNum \subseteq s.disk.bitmap
    /\ ~s.full => rank2[s.prev] = rank[p] + i
    /\ \A n \in d.bitmap : s.disk.block[n].data = d.block[n].data
    /\ \A n \in s.disk.bitmap : n \notin d.bitmap => s.disk.block[n].data = clear_block.data

\* One round more.
LEMMA GrownStep ==
    ASSUME NEW d, NEW own, NEW rank, NEW h, NEW p \in d.bitmap, Placed(d, own, rank), NEW i \in Nat,
           NEW s, NEW own2, NEW rank2, Grown(d, own, rank, h, p, i, s, own2, rank2), NEW name \in Name
    PROVE  \E own3, rank3 : Grown(d, own, rank, h, p, i + 1, Grow(name, s), own3, rank3)
<1> DEFINE e == Grow(name, s)
<1>1. /\ s \in GState /\ s.disk \in DiskType /\ Grows(d, own, rank, s.disk, own2, rank2, h)
      /\ s.disk.astray = d.astray /\ s.prev \in s.disk.bitmap /\ own2[s.prev] = h
      /\ s.disk.block[s.prev].next = -1
  BY DEF Grown, GState
<1>2. /\ e \in GState
      /\ \/ e.disk = s.disk /\ e.prev = s.prev /\ e.full = TRUE /\ BlockNum \subseteq s.disk.bitmap
         \/ /\ e.full = FALSE /\ e.disk.astray = s.disk.astray
            /\ e.prev \in BlockNum /\ e.prev \notin s.disk.bitmap
            /\ e.disk.bitmap = s.disk.bitmap \cup {e.prev}
            /\ \A n \in BlockNum : n # s.prev /\ n # e.prev => e.disk.block[n] = s.disk.block[n]
            /\ s.prev \in s.disk.bitmap =>
                  e.disk.block[s.prev] = [s.disk.block[s.prev] EXCEPT !.next = e.prev]
            /\ e.disk.block[e.prev] = [clear_block EXCEPT !.filename = name]
  BY <1>1, GrowIs
<1> HIDE DEF e
<1>3. CASE e.disk = s.disk /\ e.prev = s.prev /\ e.full = TRUE /\ BlockNum \subseteq s.disk.bitmap
  <2>1. Grown(d, own, rank, h, p, i + 1, e, own2, rank2)  BY <1>2, <1>3 DEF Grown
  <2>2. QED  BY <2>1 DEF e
<1>4. CASE /\ e.full = FALSE /\ e.disk.astray = s.disk.astray
           /\ e.prev \in BlockNum /\ e.prev \notin s.disk.bitmap
           /\ e.disk.bitmap = s.disk.bitmap \cup {e.prev}
           /\ \A n \in BlockNum : n # s.prev /\ n # e.prev => e.disk.block[n] = s.disk.block[n]
           /\ s.prev \in s.disk.bitmap =>
                 e.disk.block[s.prev] = [s.disk.block[s.prev] EXCEPT !.next = e.prev]
           /\ e.disk.block[e.prev] = [clear_block EXCEPT !.filename = name]
  <2> DEFINE a == e.prev
             q == s.prev
             g == e.disk
             own3 == With(own2, a, h)
             rank3 == With(rank2, a, rank2[q] + 1)
  <2>1. s.disk.bitmap \subseteq BlockNum /\ s.disk.block[q] \in Block  BY <1>1, DiskHas
  <2>2. /\ g.block[q].head = s.disk.block[q].head /\ g.block[q].next = a
        /\ g.block[q].filename = s.disk.block[q].filename /\ g.block[q].st_size = s.disk.block[q].st_size
        /\ g.block[q].data = s.disk.block[q].data
    BY <1>1, <1>4, <2>1 DEF Block
  <2>3. ~g.block[a].head /\ g.block[a].next = -1 /\ g.block[a].data = clear_block.data
    BY <1>4 DEF clear_block
  <2>4. \A n \in s.disk.bitmap : n # q => g.block[n] = s.disk.block[n]  BY <1>4, <2>1
  <2>5. g \in DiskType /\ g.bitmap = s.disk.bitmap \cup {a} /\ g.astray = d.astray /\ a \notin s.disk.bitmap
    BY <1>1, <1>2, <1>4 DEF GState
  <2>6. ~s.full
    <3>1. s.full => BlockNum \subseteq s.disk.bitmap  BY DEF Grown
    <3>2. QED  BY <1>4, <3>1
  <2>7. rank2[q] = rank[p] + i /\ rank[p] \in Nat  BY <2>6 DEF Grown, Placed
  <2> HIDE DEF a, q, g
  <2>8. /\ Grows(d, own, rank, g, own3, rank3, h) /\ own3[a] = h /\ rank3[a] = rank2[q] + 1
    <3>1. q \in s.disk.bitmap /\ own2[q] = h /\ s.disk.block[q].next = -1  BY <1>1 DEF q
    <3>2. Grows(d, own, rank, s.disk, own2, rank2, h)  BY <1>1
    <3> DEFINE s0 == s.disk
    <3>3. /\ g.block[q].head = s0.block[q].head /\ g.block[q].next = a
          /\ g.block[q].filename = s0.block[q].filename /\ g.block[q].st_size = s0.block[q].st_size
          /\ ~g.block[a].head /\ g.block[a].next = -1
          /\ \A n \in s0.bitmap : n # q => g.block[n] = s0.block[n]
          /\ g \in DiskType /\ g.bitmap = s0.bitmap \cup {a} /\ a \notin s0.bitmap
          /\ q \in s0.bitmap /\ own2[q] = h /\ s0.block[q].next = -1
          /\ Grows(d, own, rank, s0, own2, rank2, h)
      BY <2>2, <2>3, <2>4, <2>5, <3>1, <3>2
    <3> HIDE DEF s0, own3, rank3
    <3>4. /\ Grows(d, own, rank, g, With(own2, a, h), With(rank2, a, rank2[q] + 1), h)
          /\ With(own2, a, h)[a] = h /\ With(rank2, a, rank2[q] + 1)[a] = rank2[q] + 1
      BY <3>3, GrowsBy
    <3>5. QED  BY <3>4 DEF own3, rank3
  <2> HIDE DEF own3, rank3
  <2>9. \A n \in d.bitmap : g.block[n].data = d.block[n].data
    <3>1. ASSUME NEW n \in d.bitmap PROVE g.block[n].data = d.block[n].data
      <4>1. n \in s.disk.bitmap /\ s.disk.block[n].data = d.block[n].data  BY DEF Grown, Grows
      <4>2. QED  BY <2>2, <2>4, <4>1
    <3>2. QED  BY <3>1
  <2>10. \A n \in g.bitmap : n \notin d.bitmap => g.block[n].data = clear_block.data
    <3>1. ASSUME NEW n \in g.bitmap, n \notin d.bitmap PROVE g.block[n].data = clear_block.data
      <4>1. CASE n = a  BY <2>3, <4>1
      <4>2. CASE n \in s.disk.bitmap
        <5>1. s.disk.block[n].data = clear_block.data  BY <3>1, <4>2 DEF Grown
        <5>2. QED  BY <2>2, <2>4, <4>2, <5>1
      <4>3. QED  BY <2>5, <4>1, <4>2
    <3>2. QED  BY <3>1
  <2>11. rank3[a] = rank[p] + (i + 1)  BY <2>7, <2>8
  <2>12. e.full = FALSE /\ e.disk = g /\ e.prev = a /\ a \in g.bitmap  BY <1>4, <2>5 DEF a, g
  <2>13. Grown(d, own, rank, h, p, i + 1, e, own3, rank3)
    BY <1>2, <2>3, <2>5, <2>8, <2>9, <2>10, <2>11, <2>12 DEF Grown
  <2>14. QED  BY <2>13 DEF e
<1>5. QED  BY <1>2, <1>3, <1>4

\* The rounds of Expand.
LEMMA ExpandRounds ==
    ASSUME NEW d \in DiskType, NEW p \in BlockNum, NEW name \in Name, NEW k \in Nat
    PROVE  \E t : /\ t \in [0 .. k -> GState] /\ t[0] = [disk |-> d, prev |-> p, full |-> FALSE]
                  /\ \A i \in 1 .. k : t[i] = Grow(name, t[i - 1])
                  /\ Expand(d, name, p, k) = t[k]
<1> DEFINE f == [s \in GState |-> Grow(name, s)]
           x == [disk |-> d, prev |-> p, full |-> FALSE]
<1>1. f \in [GState -> GState] /\ x \in GState  BY GrowIs DEF GState
<1>2. \A s \in GState : f[s] = Grow(name, s)  OBVIOUS
<1> HIDE DEF f
<1>3. PICK t : Rounds(f, GState, x, k, t)  BY <1>1, RoundsExist
<1>4. t \in [0 .. k -> GState] /\ t[0] = x /\ \A i \in 1 .. k : t[i] = f[t[i - 1]]  BY <1>3 DEF Rounds
<1>5. \A i \in 1 .. k : t[i] = Grow(name, t[i - 1])
  <2>1. ASSUME NEW i \in 1 .. k PROVE t[i] = Grow(name, t[i - 1])
    <3>1. i - 1 \in 0 .. k  OBVIOUS
    <3>2. t[i - 1] \in GState  BY <1>4, <3>1
    <3>3. QED  BY <1>2, <1>4, <3>2
  <2>2. QED  BY <2>1
<1> DEFINE Eq(r) == r = [j \in 0 .. k |-> IF j = 0 THEN x ELSE Grow(name, r[j - 1])]
<1>6. Expand(d, name, p, k) = (CHOOSE r : Eq(r))[k]  BY Zenon DEF Expand, Times
<1>7. Eq(t)
  <2>1. ASSUME NEW j \in 0 .. k PROVE t[j] = IF j = 0 THEN x ELSE Grow(name, t[j - 1])
    <3>1. CASE j = 0  BY <1>4, <3>1
    <3>2. CASE j # 0  BY <1>5, <3>2
    <3>3. QED  BY <3>1, <3>2
  <2> HIDE DEF x
  <2>2. QED  BY <1>4, <2>1
<1> DEFINE r == CHOOSE r : Eq(r)
<1>8. Eq(r)  BY <1>7
<1> HIDE DEF r
<1>9. r[0] = x /\ \A j \in 1 .. k : r[j - 1] \in GState => r[j] = f[r[j - 1]]
  <2> HIDE DEF x
  <2>1. QED  BY <1>2, <1>8
<1> HIDE DEF x
<1>10. r[k] = t[k]  BY <1>1, <1>3, <1>9, RoundsOnly
<1>11. QED  BY <1>4, <1>5, <1>6, <1>10 DEF r, x

\* Expand adds up to k blocks at the end of a chain.
LEMMA ExpandIs ==
    ASSUME NEW d \in DiskType, NEW own, NEW rank, Placed(d, own, rank), NEW h, NEW p \in d.bitmap,
           own[p] = h, d.block[p].next = -1, NEW k \in Nat, NEW name \in Name
    PROVE  \E own2, rank2 : Grown(d, own, rank, h, p, k, Expand(d, name, p, k), own2, rank2)
<1>1. p \in BlockNum  BY DiskHas
<1>2. PICK t : /\ t \in [0 .. k -> GState] /\ t[0] = [disk |-> d, prev |-> p, full |-> FALSE]
               /\ \A i \in 1 .. k : t[i] = Grow(name, t[i - 1])
               /\ Expand(d, name, p, k) = t[k]
  BY <1>1, ExpandRounds
<1> DEFINE I == {i \in 0 .. k : \E own2, rank2 : Grown(d, own, rank, h, p, i, t[i], own2, rank2)}
<1>3. 0 \in I
  <2>1. t[0].disk = d /\ t[0].prev = p /\ t[0].full = FALSE /\ t[0] \in GState  BY <1>1, <1>2 DEF GState
  <2>2. Grows(d, own, rank, d, own, rank, h)  BY DEF Grows
  <2>3. rank[p] = rank[p] + 0  BY DEF Placed
  <2>4. Grown(d, own, rank, h, p, 0, t[0], own, rank)  BY <2>1, <2>2, <2>3 DEF Grown
  <2>5. QED  BY <2>4
<1>4. ASSUME NEW i \in 0 .. k - 1, i \in I PROVE i + 1 \in I
  <2>1. PICK own2, rank2 : Grown(d, own, rank, h, p, i, t[i], own2, rank2)  BY <1>4
  <2>2. i + 1 \in 1 .. k /\ i + 1 - 1 = i /\ i \in Nat /\ i + 1 \in 0 .. k  OBVIOUS
  <2>3. t[i + 1] = Grow(name, t[i])  BY <1>2, <2>2
  <2>4. \E own3, rank3 : Grown(d, own, rank, h, p, i + 1, Grow(name, t[i]), own3, rank3)
    BY <2>1, <2>2, GrownStep
  <2>5. QED  BY <2>2, <2>3, <2>4
<1>5. k \in I
  <2> HIDE DEF I
  <2>1. QED  BY <1>3, <1>4, Inductive
<1>6. QED  BY <1>2, <1>5

\* The last block has at most one full block behind it that the size speaks of.
LEMMA LastCovers ==
    ASSUME NEW d, NEW own, NEW rank, Image(d, own, rank), NEW h \in d.bitmap, d.block[h].head,
           NEW p \in d.bitmap, own[p] = h, d.block[p].next = -1
    PROVE  d.block[h].st_size < Start(rank[p] + 2) /\ Start(rank[p] + 2) = Start(rank[p]) + 2 * BLOCK_DATA
<1>0. d \in DiskType /\ Placed(d, own, rank) /\ Covered(d, own, rank)  BY DEF Image
<1>1. PICK n \in d.bitmap : own[n] = h /\ d.block[h].st_size < Start(rank[n]) + 2 * BLOCK_DATA  BY <1>0 DEF Covered
<1>2. rank[n] <= rank[p] /\ rank[n] \in Nat /\ rank[p] \in Nat
  <2>1. rank[n] <= rank[p]  BY <1>0, <1>1, LastIsLast
  <2>2. QED  BY <1>0, <2>1 DEF Placed
<1>3. Start(rank[n]) <= Start(rank[p])
  <2>1. BLOCK_DATA \in Nat  BY AOFSAssumption
  <2>2. Start(rank[n]) \in Nat /\ Start(rank[p]) \in Nat  BY <1>2, Starts
  <2>3. rank[n] < rank[p] => Start(rank[n]) + BLOCK_DATA <= Start(rank[p])  BY <1>2, Starts
  <2>4. QED  BY <1>2, <2>1, <2>2, <2>3
<1>4. Start(rank[p] + 2) = Start(rank[p]) + 2 * BLOCK_DATA
  <2>1. rank[p] + 1 \in Nat /\ rank[p] + 1 + 1 = rank[p] + 2  BY <1>2
  <2>2. Start(rank[p] + 1) = Start(rank[p]) + BLOCK_DATA /\ Start(rank[p] + 2) = Start(rank[p] + 1) + BLOCK_DATA
    BY <1>2, <2>1, Starts
  <2>3. BLOCK_DATA \in Nat /\ Start(rank[p]) \in Nat  BY <1>2, AOFSAssumption, Starts
  <2>4. QED  BY <2>2, <2>3
<1>5. d.block[h].st_size \in Nat /\ BLOCK_DATA \in Nat /\ Start(rank[n]) \in Nat /\ Start(rank[p]) \in Nat
  BY <1>0, <1>2, AOFSAssumption, Starts, DiskHas
<1>6. QED  BY <1>1, <1>3, <1>4, <1>5

\* The bytes of the file of h below size, or all of them when the file does not
\* become shorter, are where they were.
BytesStay(d, own, rank, e, own2, rank2, h, size) ==
    \A n \in d.bitmap :
        own[n] = h /\ (Start(rank[n]) < size \/ d.block[h].st_size <= size) =>
            /\ n \in e.bitmap /\ own2[n] = h /\ rank2[n] = rank[n]
            /\ \A j \in 0 .. BLOCK_DATA - 1 :
                  Start(rank[n]) + j < size \/ d.block[h].st_size <= size =>
                      e.block[n].data[j] = d.block[n].data[j]

\* e is d after the file of h was truncated to size.
Resized(d, own, rank, e, own2, rank2, h, size) ==
    /\ Image(e, own2, rank2) /\ ~e.astray /\ Kept(d, own, rank, e, own2, rank2, h)
    /\ h \in e.bitmap /\ own2[h] = h /\ e.block[h].head
    /\ e.block[h].filename = d.block[h].filename
    /\ \/ e.block[h].st_size = size
       \/ d.block[h].st_size < size /\ e.block[h].st_size = d.block[h].st_size
    /\ BytesStay(d, own, rank, e, own2, rank2, h, size)

\* What to show of a truncation.
LEMMA ResizedIs ==
    ASSUME NEW d, NEW own, NEW rank, Image(d, own, rank), NEW h \in d.bitmap, d.block[h].head, NEW size \in Nat,
           NEW e \in DiskType, ~e.astray, NEW own2, NEW rank2, Placed(e, own2, rank2),
           Kept(d, own, rank, e, own2, rank2, h), h \in e.bitmap, own2[h] = h, e.block[h].head,
           e.block[h].filename = d.block[h].filename,
           \/ e.block[h].st_size = size
           \/ d.block[h].st_size < size /\ e.block[h].st_size = d.block[h].st_size,
           BytesStay(d, own, rank, e, own2, rank2, h, size),
           \E n \in e.bitmap : own2[n] = h /\ e.block[h].st_size < Start(rank2[n]) + 2 * BLOCK_DATA
    PROVE  Resized(d, own, rank, e, own2, rank2, h, size)
<1>0. Placed(d, own, rank) /\ OneHead(d) /\ Covered(d, own, rank)  BY DEF Image
<1>1. \A n \in d.bitmap : d.block[n].head /\ d.block[n].filename = e.block[h].filename => n = h  BY <1>0 DEF OneHead
<1>2. OneHead(e)  BY <1>0, <1>1, OneHeadKept
<1>3. Covered(e, own2, rank2)  BY <1>0, CoveredKept
<1>4. QED  BY <1>2, <1>3 DEF Resized, Image

\* The same when the size is stored last.
LEMMA ResizedWith ==
    ASSUME NEW d, NEW own, NEW rank, Image(d, own, rank), NEW h \in d.bitmap, d.block[h].head, NEW size \in Nat,
           NEW g \in DiskType, ~g.astray, NEW own2, NEW rank2, Placed(g, own2, rank2),
           Kept(d, own, rank, g, own2, rank2, h), h \in g.bitmap, own2[h] = h, g.block[h].head,
           g.block[h].filename = d.block[h].filename,
           BytesStay(d, own, rank, g, own2, rank2, h, size),
           \E n \in g.bitmap : own2[n] = h /\ size < Start(rank2[n]) + 2 * BLOCK_DATA
    PROVE  Resized(d, own, rank, [g EXCEPT !.block[h].st_size = size], own2, rank2, h, size)
<1> DEFINE b == [g.block[h] EXCEPT !.st_size = size]
           e == write_block(g, h, b)
<1>0. h \in BlockNum /\ g.bitmap \subseteq BlockNum  BY DiskHas
<1>1. /\ e = [g EXCEPT !.block[h].st_size = size]
      /\ e \in DiskType /\ e.bitmap = g.bitmap /\ e.astray = g.astray
      /\ \A n \in BlockNum : n # h => e.block[n] = g.block[n]
      /\ e.block[h] = b /\ b.st_size = size /\ SameLink(g, e, h)
      /\ b.filename = g.block[h].filename /\ b.data = g.block[h].data
  <2>1. e = [g EXCEPT !.block[h].st_size = size] /\ SizeStored(g, h, size, b, e)  BY <1>0, SizeIs
  <2> HIDE DEF e, b
  <2>2. QED  BY <2>1 DEF SizeStored
<1> HIDE DEF e, b
<1>2. \A n \in g.bitmap : SameLink(g, e, n) /\ (n # h => e.block[n] = g.block[n]) /\ e.block[n].data = g.block[n].data
  BY <1>0, <1>1 DEF SameLink
<1>3. Placed(e, own2, rank2)  BY <1>1, <1>2, PlacedSame
<1>4. Kept(d, own, rank, e, own2, rank2, h)
  <2>1. own[h] = h  BY DEF Placed, Image
  <2>2. QED  BY <1>1, <1>2, <2>1 DEF Kept
<1>5. BytesStay(d, own, rank, e, own2, rank2, h, size)  BY <1>1, <1>2 DEF BytesStay
<1>6. h \in e.bitmap /\ e.block[h].head /\ e.block[h].filename = d.block[h].filename /\ e.block[h].st_size = size
  BY <1>1 DEF SameLink
<1>7. \E n \in e.bitmap : own2[n] = h /\ e.block[h].st_size < Start(rank2[n]) + 2 * BLOCK_DATA  BY <1>1
<1>8. Resized(d, own, rank, e, own2, rank2, h, size)  BY <1>1, <1>3, <1>4, <1>5, <1>6, <1>7, ResizedIs
<1>9. QED  BY <1>1, <1>8

\* A truncation that drops blocks.
LEMMA ShrinkIs ==
    ASSUME NEW d, NEW own, NEW rank, Image(d, own, rank), ~d.astray, NEW h \in d.bitmap, d.block[h].head,
           NEW size \in Nat, size \div BLOCK_DATA < d.block[h].st_size \div BLOCK_DATA
    PROVE  LET g == BreakDown(d, h, size \div BLOCK_DATA, size % BLOCK_DATA)
           IN  ~g.astray /\ \E own2, rank2 : Resized(d, own, rank, [g EXCEPT !.block[h].st_size = size], own2, rank2, h, size)
<1> DEFINE k == size \div BLOCK_DATA
           off == size % BLOCK_DATA
           c == d.block[h].st_size \div BLOCK_DATA
           g == BreakDown(d, h, k, off)
           own2 == Left(own, g.bitmap)
           rank2 == Left(rank, g.bitmap)
<1>0. d \in DiskType /\ Placed(d, own, rank) /\ d.bitmap \subseteq BlockNum  BY DiskHas DEF Image
<1>1. own[h] = h /\ rank[h] = 0 /\ d.block[h].st_size \in Nat  BY <1>0, DiskHas DEF Placed
<1>2. k \in Nat /\ off \in 0 .. BLOCK_DATA - 1 /\ size = Start(k) + off /\ c \in Nat /\ Start(c) <= d.block[h].st_size
  <2>1. k \in Nat /\ off \in 0 .. BLOCK_DATA - 1 /\ size = Start(k) + off  BY Bytes
  <2>2. c \in Nat /\ d.block[h].st_size % BLOCK_DATA \in 0 .. BLOCK_DATA - 1
        /\ d.block[h].st_size = Start(c) + (d.block[h].st_size % BLOCK_DATA)
    BY <1>1, Bytes
  <2>3. Start(c) \in Nat /\ BLOCK_DATA \in Nat  BY <2>2, Starts, AOFSAssumption
  <2> HIDE DEF c
  <2>4. QED  BY <2>1, <2>2, <2>3
<1>a. k < c  OBVIOUS
<1> HIDE DEF k, off, c
<1>3. PICK p \in d.bitmap : own[p] = h /\ rank[p] = k
  <2>1. PICK m \in d.bitmap : own[m] = h /\ d.block[m].next = -1  BY <1>0, <1>1, LastExists
  <2>2. d.block[h].st_size < Start(rank[m] + 2)  BY <2>1, LastCovers
  <2>3. rank[m] \in Nat  BY <1>0 DEF Placed
  <2>a. rank[m] + 2 \in Nat  BY <2>3
  <2>4. Start(c) \in Nat /\ Start(rank[m] + 2) \in Nat  BY <1>2, <2>a, Starts
  <2>5. Start(c) < Start(rank[m] + 2)  BY <1>1, <1>2, <2>2, <2>4
  <2>6. c < rank[m] + 2  BY <1>2, <2>a, <2>5, StartsLess
  <2>7. k \in 0 .. rank[m]  BY <1>2, <1>a, <2>3, <2>6
  <2>8. QED  BY <1>0, <2>1, <2>7, NoGaps
<1> DEFINE data == [i \in DOMAIN d.block[p].data |-> IF i >= off THEN 0 ELSE d.block[p].data[i]]
<1>4. /\ g \in DiskType /\ g.astray = d.astray
      /\ g.bitmap = d.bitmap \ {m \in d.bitmap : own[m] = h /\ rank[m] >= k + 1}
      /\ \A n \in g.bitmap : n # p => g.block[n] = d.block[n]
      /\ g.block[p] = [d.block[p] EXCEPT !.next = -1, !.data = data]
      /\ Placed(g, own2, rank2)
  <2>1. off \in Nat  BY <1>2, AOFSAssumption
  <2>2. own[h] = h /\ own[p] = h /\ rank[p] = k /\ k \in Nat  BY <1>1, <1>2, <1>3
  <2>3. CutAt(d, own, rank, h, p, off, g)  BY <2>1, <2>2, BreakDownIs
  <2> HIDE DEF g
  <2>4. QED  BY <2>2, <2>3 DEF CutAt, own2, rank2
<1> HIDE DEF g
<1>5. d.block[p] \in Block /\ p \in BlockNum /\ DOMAIN d.block[p].data = 0 .. BLOCK_DATA - 1  BY <1>0, <1>3, DiskHas
<1>6. /\ g.block[p].head = d.block[p].head /\ g.block[p].filename = d.block[p].filename /\ g.block[p].data = data
  <2> HIDE DEF data
  <2>1. QED  BY <1>4, <1>5 DEF Block
<1>7. \A n \in g.bitmap : own2[n] = own[n] /\ rank2[n] = rank[n]  BY DEF Left
<1> HIDE DEF own2, rank2
<1>8. Kept(d, own, rank, g, own2, rank2, h)  BY <1>3, <1>4, <1>7 DEF Kept
<1>9. h \in g.bitmap /\ own2[h] = h  BY <1>1, <1>2, <1>4, <1>7
<1>10. g.block[h].head /\ g.block[h].filename = d.block[h].filename
  <2>1. CASE h = p  BY <1>6, <2>1
  <2>2. CASE h # p  BY <1>4, <1>9, <2>2
  <2>3. QED  BY <2>1, <2>2
<1>11. p \in g.bitmap /\ own2[p] = h /\ rank2[p] = k  BY <1>2, <1>3, <1>4, <1>7
<1>12. size < Start(rank2[p]) + 2 * BLOCK_DATA
  <2>1. Start(k) \in Nat /\ BLOCK_DATA \in Nat  BY <1>2, Starts, AOFSAssumption
  <2>2. QED  BY <1>2, <1>11, <2>1
<1>13. size < d.block[h].st_size
  <2>1. Start(k) + BLOCK_DATA <= Start(c)  BY <1>2, <1>a, Starts
  <2>2. Start(k) \in Nat /\ Start(c) \in Nat /\ BLOCK_DATA \in Nat  BY <1>2, Starts, AOFSAssumption
  <2>3. QED  BY <1>1, <1>2, <2>1, <2>2
<1>14. BytesStay(d, own, rank, g, own2, rank2, h, size)
  <2>1. SUFFICES ASSUME NEW n \in d.bitmap, own[n] = h, Start(rank[n]) < size
                 PROVE  /\ n \in g.bitmap /\ own2[n] = h /\ rank2[n] = rank[n]
                        /\ \A j \in 0 .. BLOCK_DATA - 1 : Start(rank[n]) + j < size => g.block[n].data[j] = d.block[n].data[j]
    BY <1>1, <1>13 DEF BytesStay
  <2>2. rank[n] \in Nat /\ Start(rank[n]) \in Nat /\ Start(k) \in Nat /\ BLOCK_DATA \in Nat
    BY <1>0, <1>2, Starts, AOFSAssumption DEF Placed
  <2>3. ~(k < rank[n])
    <3>1. k < rank[n] => Start(k) + BLOCK_DATA <= Start(rank[n])  BY <1>2, <2>2, Starts
    <3>2. QED  BY <1>2, <2>1, <2>2, <3>1
  <2>4. n \in g.bitmap  BY <1>2, <1>4, <2>2, <2>3
  <2>5. ASSUME NEW j \in 0 .. BLOCK_DATA - 1, Start(rank[n]) + j < size PROVE g.block[n].data[j] = d.block[n].data[j]
    <3>1. CASE n # p  BY <1>4, <2>4, <3>1
    <3>2. CASE n = p
      <4>1. j < off  BY <1>2, <1>3, <2>2, <2>5, <3>2
      <4>2. ~(j >= off)  BY <1>2, <4>1
      <4>3. QED  BY <1>5, <1>6, <3>2, <4>2
    <3>3. QED  BY <3>1, <3>2
  <2>6. QED  BY <1>7, <2>1, <2>4, <2>5
<1>15. Resized(d, own, rank, [g EXCEPT !.block[h].st_size = size], own2, rank2, h, size)
  <2>1. \E n \in g.bitmap : own2[n] = h /\ size < Start(rank2[n]) + 2 * BLOCK_DATA  BY <1>11, <1>12
  <2>2. ~g.astray  BY <1>4
  <2>3. QED  BY <1>4, <1>8, <1>9, <1>10, <1>14, <2>1, <2>2, ResizedWith
<1>16. QED  BY <1>4, <1>15 DEF g, k, off

\* A truncation that adds blocks, also when the disk is full before the last.
LEMMA LengthenIs ==
    ASSUME NEW d, NEW own, NEW rank, Image(d, own, rank), ~d.astray, NEW h \in d.bitmap, d.block[h].head,
           NEW size \in Nat, NEW name \in Name, d.block[h].st_size < size,
           d.block[h].st_size \div BLOCK_DATA < size \div BLOCK_DATA
    PROVE  LET k == size \div BLOCK_DATA - d.block[h].st_size \div BLOCK_DATA
               r == Expand(d, name, SeekLast(d, h), k)
           IN  /\ ~r.disk.astray
               /\ r.full => \E own2, rank2 : Resized(d, own, rank, r.disk, own2, rank2, h, size)
               /\ ~r.full => \E own2, rank2 :
                      Resized(d, own, rank, [r.disk EXCEPT !.block[h].st_size = size], own2, rank2, h, size)
<1> DEFINE new == size \div BLOCK_DATA
           c == d.block[h].st_size \div BLOCK_DATA
           p == SeekLast(d, h)
           r == Expand(d, name, p, new - c)
           g == r.disk
<1>0. d \in DiskType /\ Placed(d, own, rank) /\ d.bitmap \subseteq BlockNum  BY DiskHas DEF Image
<1>1. own[h] = h /\ d.block[h].st_size \in Nat  BY <1>0, DiskHas DEF Placed
<1>2. new \in Nat /\ c \in Nat /\ size < Start(new + 1) /\ Start(c) <= d.block[h].st_size
  <2>1. new \in Nat /\ size % BLOCK_DATA \in 0 .. BLOCK_DATA - 1 /\ size = Start(new) + (size % BLOCK_DATA)  BY Bytes
  <2>2. c \in Nat /\ d.block[h].st_size % BLOCK_DATA \in 0 .. BLOCK_DATA - 1
        /\ d.block[h].st_size = Start(c) + (d.block[h].st_size % BLOCK_DATA)
    BY <1>1, Bytes
  <2>3. Start(new) \in Nat /\ Start(c) \in Nat /\ BLOCK_DATA \in Nat  BY <2>1, <2>2, Starts, AOFSAssumption
  <2>4. Start(new + 1) = Start(new) + BLOCK_DATA  BY <2>1, Starts
  <2> HIDE DEF c, new
  <2>5. QED  BY <2>1, <2>2, <2>3, <2>4
<1>3. p \in d.bitmap /\ own[p] = h /\ d.block[p].next = -1  BY <1>0, <1>1, SeekLastIs
<1>a. c < new  OBVIOUS
<1> HIDE DEF new, c, p
<1>4. new - c \in Nat  BY <1>2, <1>a
<1>5. PICK own2, rank2 : Grown(d, own, rank, h, p, new - c, r, own2, rank2)  BY <1>0, <1>3, <1>4, ExpandIs
<1> HIDE DEF r
<1>6. /\ g \in DiskType /\ Grows(d, own, rank, g, own2, rank2, h) /\ Placed(g, own2, rank2)
      /\ r.prev \in g.bitmap /\ own2[r.prev] = h
      /\ ~r.full => rank2[r.prev] = rank[p] + (new - c)
  BY <1>5 DEF Grown, Grows
<1>7. ~g.astray  BY <1>5 DEF Grown
<1>8. Kept(d, own, rank, g, own2, rank2, h)  BY <1>6, GrowsKeeps
<1>9. /\ h \in g.bitmap /\ own2[h] = h /\ g.block[h].head /\ g.block[h].filename = d.block[h].filename
      /\ g.block[h].st_size = d.block[h].st_size
  BY <1>1, <1>6 DEF Grows
<1>10. BytesStay(d, own, rank, g, own2, rank2, h, size)
  <2>1. \A n \in d.bitmap : g.block[n].data = d.block[n].data  BY <1>5 DEF Grown
  <2>2. \A n \in d.bitmap : n \in g.bitmap /\ own2[n] = own[n] /\ rank2[n] = rank[n]  BY <1>6 DEF Grows
  <2>3. QED  BY <2>1, <2>2 DEF BytesStay
<1>11. rank[p] \in Nat /\ d.block[h].st_size < Start(rank[p] + 2) /\ Start(rank[p] + 2) = Start(rank[p]) + 2 * BLOCK_DATA
  <2>1. rank[p] \in Nat  BY <1>0, <1>3 DEF Placed
  <2>2. QED  BY <1>3, <2>1, LastCovers
<1>12. CASE r.full
  <2>1. p \in g.bitmap /\ own2[p] = h /\ rank2[p] = rank[p]  BY <1>3, <1>6 DEF Grows
  <2>2. \E n \in g.bitmap : own2[n] = h /\ g.block[h].st_size < Start(rank2[n]) + 2 * BLOCK_DATA
    BY <1>9, <1>11, <2>1
  <2>3. Resized(d, own, rank, g, own2, rank2, h, size)  BY <1>6, <1>7, <1>8, <1>9, <1>10, <2>2, ResizedIs
  <2>4. QED  BY <1>7, <1>12, <2>3 DEF r, p, new, c
<1>13. CASE ~r.full
  <2> DEFINE q == r.prev
             s == rank2[q]
  <2>1. q \in g.bitmap /\ own2[q] = h /\ s = rank[p] + (new - c) /\ s \in Nat  BY <1>2, <1>6, <1>11, <1>13, <1>a
  <2> HIDE DEF q, s
  <2>2. c < rank[p] + 2
    <3>1. rank[p] + 2 \in Nat  BY <1>11
    <3>2. Start(c) \in Nat /\ Start(rank[p] + 2) \in Nat  BY <1>2, <3>1, Starts
    <3>3. Start(c) < Start(rank[p] + 2)  BY <1>1, <1>2, <1>11, <3>2
    <3>4. QED  BY <1>2, <3>1, <3>3, StartsLess
  <2>3. new + 1 <= s + 2 /\ s + 1 \in Nat /\ s + 1 + 1 = s + 2 /\ new + 1 \in Nat /\ s + 2 \in Nat
    BY <1>2, <1>11, <2>1, <2>2
  <2>4. Start(s + 2) = Start(s) + 2 * BLOCK_DATA /\ Start(s) \in Nat /\ BLOCK_DATA \in Nat
    <3>1. Start(s) \in Nat /\ BLOCK_DATA \in Nat  BY <2>1, Starts, AOFSAssumption
    <3>2. Start(s + 1) = Start(s) + BLOCK_DATA /\ Start(s + 1 + 1) = Start(s + 1) + BLOCK_DATA  BY <2>1, <2>3, Starts
    <3>3. QED  BY <2>3, <3>1, <3>2
  <2>5. Start(new + 1) <= Start(s + 2)
    <3>1. Start(new + 1) \in Nat /\ Start(s + 2) \in Nat  BY <2>3, Starts
    <3>2. new + 1 < s + 2 => Start(new + 1) + BLOCK_DATA <= Start(s + 2)  BY <2>3, Starts
    <3>3. QED  BY <2>3, <2>4, <3>1, <3>2
  <2>6. size < Start(s) + 2 * BLOCK_DATA
    <3>1. Start(new + 1) \in Nat  BY <2>3, Starts
    <3>2. QED  BY <1>2, <2>4, <2>5, <3>1
  <2>7. \E n \in g.bitmap : own2[n] = h /\ size < Start(rank2[n]) + 2 * BLOCK_DATA  BY <2>1, <2>6 DEF s
  <2>8. Resized(d, own, rank, [g EXCEPT !.block[h].st_size = size], own2, rank2, h, size)
    BY <1>6, <1>7, <1>8, <1>9, <1>10, <2>7, ResizedWith
  <2>9. QED  BY <1>7, <1>13, <2>8 DEF r, p, new, c
<1>14. QED  BY <1>12, <1>13

\* A truncation that only stores the size.
LEMMA SameBlocksIs ==
    ASSUME NEW d, NEW own, NEW rank, Image(d, own, rank), ~d.astray, NEW h \in d.bitmap, d.block[h].head,
           NEW size \in Nat, size <= d.block[h].st_size \/ size \div BLOCK_DATA = d.block[h].st_size \div BLOCK_DATA
    PROVE  Resized(d, own, rank, [d EXCEPT !.block[h].st_size = size], own, rank, h, size)
<1> DEFINE c == d.block[h].st_size \div BLOCK_DATA
<1>0. d \in DiskType /\ Placed(d, own, rank) /\ d.bitmap \subseteq BlockNum  BY DiskHas DEF Image
<1>1. own[h] = h /\ d.block[h].st_size \in Nat  BY <1>0, DiskHas DEF Placed
<1>2. Kept(d, own, rank, d, own, rank, h)  BY DEF Kept
<1>3. BytesStay(d, own, rank, d, own, rank, h, size)  BY DEF BytesStay
<1>4. PICK n \in d.bitmap : own[n] = h /\ d.block[n].next = -1  BY <1>0, <1>1, LastExists
<1>5. d.block[h].st_size < Start(rank[n] + 2) /\ Start(rank[n] + 2) = Start(rank[n]) + 2 * BLOCK_DATA
  BY <1>4, LastCovers
<1>6. rank[n] \in Nat /\ rank[n] + 2 \in Nat  BY <1>0 DEF Placed
<1>7. Start(rank[n] + 2) \in Nat  BY <1>6, Starts
<1>8. size < Start(rank[n] + 2)
  <2>1. CASE size <= d.block[h].st_size  BY <1>1, <1>5, <1>7, <2>1
  <2>2. CASE size \div BLOCK_DATA = c
    <3>1. c \in Nat /\ size % BLOCK_DATA \in 0 .. BLOCK_DATA - 1 /\ size = Start(c) + (size % BLOCK_DATA)
      BY <2>2, Bytes
    <3>2. d.block[h].st_size % BLOCK_DATA \in 0 .. BLOCK_DATA - 1
          /\ d.block[h].st_size = Start(c) + (d.block[h].st_size % BLOCK_DATA)
      BY <1>1, Bytes
    <3>3. Start(c) \in Nat /\ BLOCK_DATA \in Nat  BY <3>1, Starts, AOFSAssumption
    <3> HIDE DEF c
    <3>4. Start(c) < Start(rank[n] + 2)  BY <1>1, <1>5, <1>7, <3>2, <3>3
    <3>5. c < rank[n] + 2  BY <1>6, <3>1, <3>4, StartsLess
    <3>6. Start(c) + BLOCK_DATA <= Start(rank[n] + 2)  BY <1>6, <3>1, <3>5, Starts
    <3>7. QED  BY <1>7, <3>1, <3>3, <3>6
  <2>3. QED  BY <2>1, <2>2
<1>9. \E m \in d.bitmap : own[m] = h /\ size < Start(rank[m]) + 2 * BLOCK_DATA  BY <1>4, <1>5, <1>8
<1>10. QED  BY <1>0, <1>1, <1>2, <1>3, <1>9, ResizedWith

\* aofs_truncate_file does nothing to a missing file and resizes the file of another.
LEMMA TruncateIs ==
    ASSUME NEW d, NEW own, NEW rank, Image(d, own, rank), ~d.astray, NEW name \in Name, NEW size \in Nat
    PROVE  LET h == aofs_find_file_head(d, name)
               e == aofs_truncate_file(d, name, size)
           IN  \/ Heads(d, name) = {} /\ e = d
               \/ h \in Heads(d, name) /\ \E own2, rank2 : Resized(d, own, rank, e, own2, rank2, h, size)
<1> DEFINE h == aofs_find_file_head(d, name)
           cur_size == d.block[h].st_size
           cur == cur_size \div BLOCK_DATA
           new == size \div BLOCK_DATA
           g == BreakDown(d, h, new, size % BLOCK_DATA)
           x == Expand(d, name, SeekLast(d, h), new - cur)
           e == aofs_truncate_file(d, name, size)
<1>0. d \in DiskType /\ Placed(d, own, rank)  BY DEF Image
<1>1. \/ h = -1 /\ Heads(d, name) = {}
      \/ h \in Heads(d, name) /\ h # -1
  BY <1>0, FindHeadIs
<1>2. CASE h = -1
  <2>1. e = d  BY <1>2 DEF aofs_truncate_file
  <2>2. -1 \notin Heads(d, name)  BY <1>0, DiskHas DEF Heads
  <2>3. QED  BY <1>1, <1>2, <2>1, <2>2
<1>3. CASE h # -1
  <2>1. h \in Heads(d, name) /\ h \in d.bitmap /\ d.block[h].head  BY <1>1, <1>3 DEF Heads
  <2>2. h \in BlockNum  BY <1>0, <2>1, DiskHas
  <2>3. cur_size \in Nat  BY <1>0, <2>2, DiskHas
  <2>4. new \in Nat /\ cur \in Nat  BY <2>3, Bytes
  <2> DEFINE r == IF size < cur_size /\ cur # new THEN [disk |-> g, full |-> FALSE]
                  ELSE IF size > cur_size /\ new # cur THEN x
                  ELSE [disk |-> d, full |-> FALSE]
  <2>5. e = IF r.disk.astray \/ r.full THEN r.disk ELSE [r.disk EXCEPT !.block[h].st_size = size]
    BY <1>3 DEF aofs_truncate_file
  <2>o. size < cur_size => new <= cur
    <3>1. new \in Nat /\ size % BLOCK_DATA \in 0 .. BLOCK_DATA - 1 /\ size = Start(new) + (size % BLOCK_DATA)  BY Bytes
    <3>2. cur \in Nat /\ cur_size % BLOCK_DATA \in 0 .. BLOCK_DATA - 1 /\ cur_size = Start(cur) + (cur_size % BLOCK_DATA)
      BY <2>3, Bytes
    <3>3. Start(new) \in Nat /\ Start(cur) \in Nat /\ BLOCK_DATA \in Nat  BY <3>1, <3>2, Starts, AOFSAssumption
    <3>4. cur < new => Start(cur) + BLOCK_DATA <= Start(new)  BY <3>1, <3>2, Starts
    <3> HIDE DEF cur, new, cur_size
    <3>5. QED  BY <3>1, <3>2, <3>3, <3>4
  <2>p. cur_size < size => cur <= new
    <3>1. new \in Nat /\ size % BLOCK_DATA \in 0 .. BLOCK_DATA - 1 /\ size = Start(new) + (size % BLOCK_DATA)  BY Bytes
    <3>2. cur \in Nat /\ cur_size % BLOCK_DATA \in 0 .. BLOCK_DATA - 1 /\ cur_size = Start(cur) + (cur_size % BLOCK_DATA)
      BY <2>3, Bytes
    <3>3. Start(new) \in Nat /\ Start(cur) \in Nat /\ BLOCK_DATA \in Nat  BY <3>1, <3>2, Starts, AOFSAssumption
    <3>4. new < cur => Start(new) + BLOCK_DATA <= Start(cur)  BY <3>1, <3>2, Starts
    <3> HIDE DEF cur, new, cur_size
    <3>5. QED  BY <3>1, <3>2, <3>3, <3>4
  <2>6. CASE size < cur_size /\ cur # new
    <3>1. new < cur  BY <2>4, <2>6, <2>o
    <3>2. ~g.astray /\ \E own2, rank2 : Resized(d, own, rank, [g EXCEPT !.block[h].st_size = size], own2, rank2, h, size)
      BY <2>1, <3>1, ShrinkIs
    <3> HIDE DEF g
    <3>3. r.disk = g /\ r.full = FALSE  BY <2>6
    <3>4. e = [g EXCEPT !.block[h].st_size = size]  BY <2>5, <3>2, <3>3
    <3>5. QED  BY <2>1, <3>2, <3>4
  <2>7. CASE cur_size < size /\ cur # new
    <3>1. cur < new  BY <2>4, <2>7, <2>p
    <3>2. /\ ~x.disk.astray
          /\ x.full => \E own2, rank2 : Resized(d, own, rank, x.disk, own2, rank2, h, size)
          /\ ~x.full => \E own2, rank2 : Resized(d, own, rank, [x.disk EXCEPT !.block[h].st_size = size], own2, rank2, h, size)
      BY <2>1, <2>7, <3>1, LengthenIs
    <3> HIDE DEF x
    <3>3. r = x
      <4>1. size > cur_size /\ ~(size < cur_size)  BY <2>3, <2>7
      <4>2. QED  BY <2>7, <4>1
    <3>4. e = IF x.full THEN x.disk ELSE [x.disk EXCEPT !.block[h].st_size = size]  BY <2>5, <3>2, <3>3
    <3>5. QED  BY <2>1, <3>2, <3>4
  <2>8. CASE cur = new \/ cur_size = size
    <3>1. r = [disk |-> d, full |-> FALSE]
      <4>1. cur_size = size => ~(size < cur_size) /\ ~(size > cur_size)  BY <2>3
      <4>2. QED  BY <2>8, <4>1
    <3>a. r.disk = d /\ r.full = FALSE  BY <3>1
    <3> HIDE DEF r, e
    <3>2. e = [d EXCEPT !.block[h].st_size = size]  BY <2>5, <3>a
    <3>3. size <= cur_size \/ new = cur  BY <2>3, <2>8
    <3>4. Resized(d, own, rank, [d EXCEPT !.block[h].st_size = size], own, rank, h, size)
      BY <2>1, <3>3, SameBlocksIs
    <3>5. QED  BY <2>1, <3>2, <3>4 DEF e
  <2>9. QED  BY <2>3, <2>6, <2>7, <2>8
<1>4. QED  BY <1>2, <1>3

-----------------------------------------------------------------------------
(* Writing.                                                                *)

\* What is left of a sequence behind its first m elements.
LEMMA RestIs ==
    ASSUME NEW T, NEW q \in Seq(T), NEW m \in Nat
    PROVE  LET r == SubSeq(q, m + 1, Len(q))
           IN  /\ r \in Seq(T) /\ Len(r) = (IF m < Len(q) THEN Len(q) - m ELSE 0)
               /\ \A x \in 1 .. Len(r) : r[x] = q[m + x]
               /\ r = <<>> <=> Len(r) = 0
<1> DEFINE r == SubSeq(q, m + 1, Len(q))
<1>1. (Len(q) \in Nat /\ m + 1 \in 1 .. Len(q) + 1) \/ m + 1 > Len(q)  BY LenProperties
<1>2. \A i \in m + 1 .. Len(q) : q[i] \in T  BY LenProperties, ElementOfSeq
<1>3. r \in Seq(T) /\ Len(r) = (IF m < Len(q) THEN Len(q) - m ELSE 0)
  BY <1>2, SubSeqProperties, LenProperties
<1>4. \A x \in 1 .. Len(r) : r[x] = q[m + x]
  BY <1>2, <1>3, SubSeqProperties, LenProperties
<1>5. r = <<>> <=> Len(r) = 0  BY <1>3, EmptySeq
<1>6. QED  BY <1>3, <1>4, <1>5

\* The states of the loop of aofs_write_file.
WState == [disk : DiskType, num : Num, b : Block, buf : Seq(Byte), off : Nat]

\* c is b with the bytes of buf that fit in it from off on, linked to n.
Overwritten(buf, b, off, n, c) ==
    /\ c.next = n /\ c.head = b.head /\ c.st_size = b.st_size /\ c.filename = b.filename
    /\ \A j \in 0 .. BLOCK_DATA - 1 :
          c.data[j] = IF j \in off .. off + Len(buf) - 1 THEN buf[j - off + 1] ELSE b.data[j]

\* write_to_block puts the bytes that fit into the block.
LEMMA WriteToBlockIs ==
    ASSUME NEW buf \in Seq(Byte), NEW b \in Block, NEW off \in Nat, NEW n \in Num
    PROVE  LET c == [write_to_block(buf, b, off) EXCEPT !.next = n]
           IN  c \in Block /\ Overwritten(buf, b, off, n, c)
<1> DEFINE data == [i \in 0 .. BLOCK_DATA - 1 |->
                       IF i \in off .. off + Len(buf) - 1 THEN buf[i - off + 1] ELSE b.data[i]]
           c == [write_to_block(buf, b, off) EXCEPT !.next = n]
<1>1. b.data \in [0 .. BLOCK_DATA - 1 -> Byte \cup {0}] /\ DOMAIN b.data = 0 .. BLOCK_DATA - 1  BY DEF Block
<1>2. data \in [0 .. BLOCK_DATA - 1 -> Byte \cup {0}]
  <2>1. ASSUME NEW i \in 0 .. BLOCK_DATA - 1, i \in off .. off + Len(buf) - 1 PROVE buf[i - off + 1] \in Byte
    <3>1. i - off + 1 \in 1 .. Len(buf)  BY <2>1, LenProperties
    <3>2. QED  BY <3>1, ElementOfSeq
  <2>2. QED  BY <1>1, <2>1
<1>3. c = [b EXCEPT !.data = data, !.next = n]  BY <1>1 DEF write_to_block
<1>4. \A j \in 0 .. BLOCK_DATA - 1 :
         data[j] = IF j \in off .. off + Len(buf) - 1 THEN buf[j - off + 1] ELSE b.data[j]
  OBVIOUS
<1> HIDE DEF data, c
<1>5. c \in Block /\ c.next = n /\ c.head = b.head /\ c.st_size = b.st_size /\ c.filename = b.filename /\ c.data = data
  BY <1>2, <1>3 DEF Block, Num
<1>6. c \in Block /\ Overwritten(buf, b, off, n, c)  BY <1>4, <1>5 DEF Overwritten
<1>7. QED  BY <1>6 DEF c

\* From s to e: the block in memory was stored with the bytes that fit in it, and
\* linked to e.num; what did not fit is left to write.
Stored(s, e) ==
    /\ e \in WState /\ ~e.disk.astray /\ e.off = 0
    /\ Len(e.buf) = IF BLOCK_DATA - s.off < Len(s.buf) THEN Len(s.buf) - (BLOCK_DATA - s.off) ELSE 0
    /\ \A x \in 1 .. Len(e.buf) : e.buf[x] = s.buf[BLOCK_DATA - s.off + x]
    /\ Overwritten(s.buf, s.b, s.off, e.num, e.disk.block[s.num])

\* No block was allocated: the next one exists, is not needed, or there is none.
Onwards(s, e) ==
    /\ e.num = s.b.next /\ e.disk.bitmap = s.disk.bitmap
    /\ \A n \in BlockNum : n # s.num => e.disk.block[n] = s.disk.block[n]
    /\ e.num # -1 => e.b = s.disk.block[e.num]

\* A block was allocated.
Chained(s, e) ==
    /\ e.buf # <<>> /\ s.b.next = -1
    /\ e.num \in BlockNum /\ e.num \notin s.disk.bitmap
    /\ e.disk.bitmap = s.disk.bitmap \cup {e.num}
    /\ \A n \in BlockNum : n # s.num /\ n # e.num => e.disk.block[n] = s.disk.block[n]
    /\ e.num # s.num => e.disk.block[e.num] = clear_block
    /\ e.b.head = clear_block.head /\ e.b.next = -1 /\ e.b.st_size = 0 /\ e.b.data = clear_block.data

\* A round that stores a block.
LEMMA StoreRound ==
    ASSUME NEW name \in Name, NEW s \in WState, s.buf # <<>>, ~s.disk.astray, s.num # -1, s.off <= BLOCK_DATA
    PROVE  LET e == WriteRound(name, s) IN Stored(s, e) /\ (Onwards(s, e) \/ Chained(s, e))
<1> DEFINE rest == SubSeq(s.buf, BLOCK_DATA - s.off + 1, Len(s.buf))
           grow == rest # <<>> /\ s.b.next = -1
           a    == IF grow THEN allocate_block(s.disk) ELSE [disk |-> s.disk, num |-> s.b.next]
           nb   == read_block(a.disk, a.num)
           nb2  == IF grow THEN [nb EXCEPT !.filename = name] ELSE nb
           wb   == [write_to_block(s.buf, s.b, s.off) EXCEPT !.next = a.num]
           g    == write_block(a.disk, s.num, wb)
           e    == WriteRound(name, s)
<1>0. /\ s.disk \in DiskType /\ s.num \in BlockNum /\ s.b \in Block /\ s.buf \in Seq(Byte) /\ s.off \in Nat
      /\ s.b.next \in Num /\ BLOCK_DATA \in Nat /\ -1 \notin BlockNum
  <2>1. s.disk \in DiskType /\ s.num \in BlockNum /\ s.b \in Block /\ s.buf \in Seq(Byte) /\ s.off \in Nat
    BY DEF WState, Num
  <2>2. s.b.next \in Num  BY <2>1 DEF Block, Num
  <2>3. QED  BY <2>1, <2>2, AOFSAssumption DEF BlockNum
<1>1. e = [disk |-> g, num |-> a.num, b |-> nb2, buf |-> rest, off |-> 0]
  <2>1. ~(s.off > BLOCK_DATA)  BY <1>0
  <2>2. QED  BY <2>1, Zenon DEF WriteRound
<1>2. /\ rest \in Seq(Byte)
      /\ Len(rest) = (IF BLOCK_DATA - s.off < Len(s.buf) THEN Len(s.buf) - (BLOCK_DATA - s.off) ELSE 0)
      /\ \A x \in 1 .. Len(rest) : rest[x] = s.buf[BLOCK_DATA - s.off + x]
  <2>1. BLOCK_DATA - s.off \in Nat  BY <1>0
  <2> DEFINE m == BLOCK_DATA - s.off
  <2> HIDE DEF m
  <2>2. LET r == SubSeq(s.buf, m + 1, Len(s.buf))
        IN  /\ r \in Seq(Byte) /\ Len(r) = (IF m < Len(s.buf) THEN Len(s.buf) - m ELSE 0)
            /\ \A x \in 1 .. Len(r) : r[x] = s.buf[m + x]
    BY <1>0, <2>1, RestIs DEF m
  <2>3. QED  BY <2>2, Zenon DEF m
<1>a. /\ a.disk \in DiskType /\ a.num \in Num /\ ~a.disk.astray
      /\ \/ ~grow /\ a.disk = s.disk /\ a.num = s.b.next
         \/ grow /\ a.disk = s.disk /\ a.num = -1
         \/ /\ grow /\ a.num \in BlockNum /\ a.num \notin s.disk.bitmap
            /\ a.disk.bitmap = s.disk.bitmap \cup {a.num}
            /\ a.disk.block = [s.disk.block EXCEPT ![a.num] = clear_block]
  <2> DEFINE al == allocate_block(s.disk)
  <2>1. \/ al.num = -1 /\ al.disk = s.disk /\ BlockNum \subseteq s.disk.bitmap
        \/ /\ al.num \in BlockNum /\ al.num \notin s.disk.bitmap
           /\ al.disk \in DiskType /\ al.disk.astray = s.disk.astray
           /\ al.disk.bitmap = s.disk.bitmap \cup {al.num}
           /\ al.disk.block = [s.disk.block EXCEPT ![al.num] = clear_block]
    BY <1>0, AllocateIs
  <2>2. CASE ~grow
    <3>1. a = [disk |-> s.disk, num |-> s.b.next]  BY <2>2
    <3> HIDE DEF a, grow
    <3>2. a.disk = s.disk /\ a.num = s.b.next  BY <3>1
    <3>3. QED  BY <1>0, <2>2, <3>2
  <2>3. CASE grow
    <3>1. a = al  BY <2>3
    <3> HIDE DEF a, grow, al
    <3>2. QED  BY <1>0, <2>1, <2>3, <3>1 DEF Num
  <2>4. QED  BY <2>2, <2>3
<1> HIDE DEF rest, grow, a, e
<1>3. wb \in Block /\ Overwritten(s.buf, s.b, s.off, a.num, wb)
  BY <1>0, <1>a, WriteToBlockIs
<1>4. nb \in Block /\ nb2 \in Block
  <2>1. nb \in Block  BY <1>a, ReadBlockIn
  <2>2. QED  BY <2>1 DEF Block
<1> HIDE DEF wb
<1>5. /\ g \in DiskType /\ g.bitmap = a.disk.bitmap /\ g.astray = a.disk.astray
      /\ g.block = [a.disk.block EXCEPT ![s.num] = wb]
  BY <1>0, <1>3, <1>a, WriteBlockIs
<1>b. a.disk.block \in [BlockNum -> Block] /\ s.disk.block \in [BlockNum -> Block]  BY <1>0, <1>a, DiskHas
<1> HIDE DEF g
<1>c. g.block[s.num] = wb /\ \A n \in BlockNum : n # s.num => g.block[n] = a.disk.block[n]  BY <1>0, <1>5, <1>b
<1>6. e.disk = g /\ e.num = a.num /\ e.b = nb2 /\ e.buf = rest /\ e.off = 0  BY <1>1
<1>7. e \in WState  BY <1>1, <1>2, <1>4, <1>5, <1>a DEF WState
<1>8. Stored(s, e)
  <2>1. ~e.disk.astray  BY <1>5, <1>6, <1>a
  <2>2. e.disk.block[s.num] = wb  BY <1>6, <1>c
  <2>3. QED  BY <1>2, <1>3, <1>6, <1>7, <2>1, <2>2 DEF Stored
<1>9. CASE a.disk = s.disk /\ a.num = s.b.next
  <2>1. e.num # -1 => e.b = s.disk.block[e.num]
    <3>1. SUFFICES ASSUME a.num # -1 PROVE e.b = s.disk.block[a.num]  BY <1>6
    <3>2. ~grow  BY <1>9, <3>1 DEF grow
    <3>3. nb = s.disk.block[a.num]  BY <1>9, <3>1 DEF read_block
    <3>4. QED  BY <1>6, <3>2, <3>3
  <2>2. Onwards(s, e)  BY <1>5, <1>6, <1>9, <1>c, <2>1 DEF Onwards
  <2>3. QED  BY <1>8, <2>2 DEF e
<1>10. CASE /\ grow /\ a.num \in BlockNum /\ a.num \notin s.disk.bitmap
            /\ a.disk.bitmap = s.disk.bitmap \cup {a.num}
            /\ a.disk.block = [s.disk.block EXCEPT ![a.num] = clear_block]
  <2>1. a.num # -1 /\ a.disk.block[a.num] = clear_block /\ nb = clear_block
    <3>1. a.num # -1 /\ a.disk.block[a.num] = clear_block  BY <1>0, <1>10, <1>b
    <3>2. QED  BY <3>1 DEF read_block
  <2>2. e.b = [clear_block EXCEPT !.filename = name]  BY <1>6, <1>10, <2>1
  <2>3. e.b.head = clear_block.head /\ e.b.next = -1 /\ e.b.st_size = 0 /\ e.b.data = clear_block.data
    BY <2>2 DEF clear_block
  <2>4. e.buf # <<>> /\ s.b.next = -1  BY <1>6, <1>10 DEF grow
  <2>5. \A n \in BlockNum : n # s.num /\ n # a.num => g.block[n] = s.disk.block[n]  BY <1>10, <1>b, <1>c
  <2>6. a.num # s.num => g.block[a.num] = clear_block  BY <1>10, <1>c, <2>1
  <2>7. g.bitmap = s.disk.bitmap \cup {a.num}  BY <1>5, <1>10
  <2>8. Chained(s, e)  BY <1>6, <1>10, <2>3, <2>4, <2>5, <2>6, <2>7 DEF Chained
  <2>9. QED  BY <1>8, <2>8 DEF e
<1>11. CASE grow /\ a.disk = s.disk /\ a.num = -1
  <2>1. s.b.next = -1  BY <1>11 DEF grow
  <2>2. QED  BY <1>9, <1>11, <2>1
<1>12. QED  BY <1>9, <1>10, <1>11, <1>a

\* The rounds that store nothing.
LEMMA OtherRounds ==
    ASSUME NEW name \in Name, NEW s \in WState
    PROVE  LET e == WriteRound(name, s)
           IN  /\ s.buf = <<>> \/ s.disk.astray => e = s
               /\ s.buf # <<>> /\ ~s.disk.astray /\ s.num = -1 => e \in WState /\ e.disk.astray
               /\ s.buf # <<>> /\ ~s.disk.astray /\ s.num # -1 /\ s.off > BLOCK_DATA =>
                     e = [s EXCEPT !.num = s.b.next, !.b = read_block(s.disk, s.b.next), !.off = s.off - BLOCK_DATA]
                     /\ e \in WState
<1>0. s.disk \in DiskType /\ s.num \in Num /\ s.b \in Block /\ s.buf \in Seq(Byte) /\ s.off \in Nat /\ BLOCK_DATA \in Nat
  BY AOFSAssumption DEF WState
<1>1. s.buf = <<>> \/ s.disk.astray => WriteRound(name, s) = s  BY DEF WriteRound
<1>2. ASSUME s.buf # <<>>, ~s.disk.astray, s.num = -1
      PROVE  WriteRound(name, s) \in WState /\ WriteRound(name, s).disk.astray
  <2> DEFINE g == GoAstray(s.disk)
  <2>1. WriteRound(name, s) = [s EXCEPT !.disk = g]  BY <1>2 DEF WriteRound
  <2>2. g \in DiskType /\ g.astray  BY <1>0 DEF GoAstray, DiskType
  <2> HIDE DEF g
  <2>3. QED  BY <2>1, <2>2 DEF WState
<1>3. ASSUME s.buf # <<>>, ~s.disk.astray, s.num # -1, s.off > BLOCK_DATA
      PROVE  /\ WriteRound(name, s) = [s EXCEPT !.num = s.b.next, !.b = read_block(s.disk, s.b.next), !.off = s.off - BLOCK_DATA]
             /\ WriteRound(name, s) \in WState
  <2>1. WriteRound(name, s) = [s EXCEPT !.num = s.b.next, !.b = read_block(s.disk, s.b.next), !.off = s.off - BLOCK_DATA]
    BY <1>3 DEF WriteRound
  <2>2. s.b.next \in Num  BY <1>0 DEF Block, Num
  <2>3. read_block(s.disk, s.b.next) \in Block  BY <1>0, <2>2, ReadBlockIn
  <2>4. s.off - BLOCK_DATA \in Nat  BY <1>0, <1>3
  <2>5. QED  BY <2>1, <2>2, <2>3, <2>4 DEF WState
<1>4. QED  BY <1>1, <1>2, <1>3

\* The bytes of the file of h in e: those of B from O on, as far as done, before
\* them those of d.
WData(d, e, own2, rank2, h, O, B, done) ==
    \A n \in e.bitmap, j \in 0 .. BLOCK_DATA - 1 :
        LET q == Start(rank2[n]) + j
        IN  own2[n] = h =>
                /\ O <= q /\ q < O + done => e.block[n].data[j] = B[q - O + 1]
                /\ q < O => n \in d.bitmap /\ e.block[n].data[j] = d.block[n].data[j]

\* Where the loop is: at block s.num, whose copy is s.b.
WriterAt(d, h, O, done, s, own2, rank2) ==
    /\ s.num \in s.disk.bitmap /\ own2[s.num] = h /\ Start(rank2[s.num]) + s.off = O + done
    /\ s.b.head = s.disk.block[s.num].head /\ s.b.next = s.disk.block[s.num].next
    /\ s.b.data = s.disk.block[s.num].data
    /\ s.num \in d.bitmap => /\ s.b.filename = s.disk.block[s.num].filename
                             /\ s.b.st_size = s.disk.block[s.num].st_size

\* Some block of the file of h reaches to the offset O.
Reached(d, own, rank, h, O) == \E n \in d.bitmap : own[n] = h /\ O <= Start(rank[n]) + BLOCK_DATA

\* The loop of a write of B from O on in the image d, with Len(s.buf) bytes left.
Writing(d, own, rank, h, O, B, s, own2, rank2) ==
    /\ s \in WState /\ ~s.disk.astray /\ Grows(d, own, rank, s.disk, own2, rank2, h)
    /\ Len(s.buf) <= Len(B) /\ \A x \in 1 .. Len(s.buf) : s.buf[x] = B[Len(B) - Len(s.buf) + x]
    /\ WData(d, s.disk, own2, rank2, h, O, B, Len(B) - Len(s.buf))
    /\ Len(s.buf) < Len(B) => Reached(s.disk, own2, rank2, h, O + (Len(B) - Len(s.buf)))
    /\ Reached(d, own, rank, h, O) \/ (s.disk = d /\ s.buf = B)
    /\ s.buf # <<>> /\ s.num # -1 => WriterAt(d, h, O, Len(B) - Len(s.buf), s, own2, rank2)

\* Two bytes of one file at the same place are in one block.
LEMMA SameRank ==
    ASSUME NEW r \in Nat, NEW t \in Nat, NEW j \in 0 .. BLOCK_DATA - 1,
           Start(t) <= Start(r) + j, Start(r) + j < Start(t) + BLOCK_DATA
    PROVE  r = t
<1>1. Start(r) \in Nat /\ Start(t) \in Nat /\ BLOCK_DATA \in Nat  BY Starts, AOFSAssumption
<1>2. r < t => Start(r) + BLOCK_DATA <= Start(t)  BY Starts
<1>3. t < r => Start(t) + BLOCK_DATA <= Start(r)  BY Starts
<1>4. QED  BY <1>1, <1>2, <1>3

\* The data that a round stores extend the part of the buffer that is written.
LEMMA DataStored ==
    ASSUME NEW d, NEW own2, NEW rank2, NEW own3, NEW rank3, NEW h, NEW O \in Nat, NEW B \in Seq(Byte),
           NEW s \in WState, NEW e, Stored(s, e), s.disk.bitmap \subseteq e.disk.bitmap, s.off <= BLOCK_DATA,
           Len(s.buf) <= Len(B), \A x \in 1 .. Len(s.buf) : s.buf[x] = B[Len(B) - Len(s.buf) + x],
           WData(d, s.disk, own2, rank2, h, O, B, Len(B) - Len(s.buf)),
           WriterAt(d, h, O, Len(B) - Len(s.buf), s, own2, rank2),
           Placed(s.disk, own2, rank2), Placed(e.disk, own3, rank3),
           \A n \in s.disk.bitmap : /\ own3[n] = own2[n] /\ rank3[n] = rank2[n]
                                    /\ n # s.num => e.disk.block[n] = s.disk.block[n],
           \A n \in e.disk.bitmap : n \notin s.disk.bitmap => rank3[n] = rank2[s.num] + 1
    PROVE  /\ Len(e.buf) <= Len(s.buf)
           /\ \A x \in 1 .. Len(e.buf) : e.buf[x] = B[Len(B) - Len(e.buf) + x]
           /\ WData(d, e.disk, own3, rank3, h, O, B, Len(B) - Len(e.buf))
           /\ O + (Len(B) - Len(e.buf)) <= Start(rank2[s.num]) + BLOCK_DATA
           /\ Len(e.buf) # 0 => O + (Len(B) - Len(e.buf)) = Start(rank2[s.num]) + BLOCK_DATA
           /\ O <= Start(rank2[s.num]) + BLOCK_DATA
<1> DEFINE L == Len(s.buf)
           L2 == Len(e.buf)
           N == Len(B)
           r == rank2[s.num]
           S == Start(r)
           t == s.off
<1>1. L \in Nat /\ L2 \in Nat /\ N \in Nat /\ t \in Nat /\ BLOCK_DATA \in Nat
  <2>1. s.buf \in Seq(Byte) /\ e.buf \in Seq(Byte) /\ s.off \in Nat  BY DEF WState, Stored
  <2>2. QED  BY <2>1, LenProperties, AOFSAssumption
<1>2. r \in Nat /\ S \in Nat /\ r + 1 \in Nat /\ Start(r + 1) = S + BLOCK_DATA
  <2>1. r \in Nat  BY DEF WriterAt, Placed
  <2> HIDE DEF r
  <2>2. r + 1 \in Nat  BY <2>1
  <2>3. QED  BY <2>1, <2>2, Starts
<1>3. S + t = O + (N - L) /\ t <= BLOCK_DATA  BY DEF WriterAt
<1>4. L2 = IF BLOCK_DATA - t < L THEN L - (BLOCK_DATA - t) ELSE 0  BY DEF Stored
<1>5. \A x \in 1 .. L2 : e.buf[x] = s.buf[BLOCK_DATA - t + x]  BY DEF Stored
<1>6. L <= N /\ \A x \in 1 .. L : s.buf[x] = B[N - L + x]  OBVIOUS
<1>7. \A j \in 0 .. BLOCK_DATA - 1 :
         e.disk.block[s.num].data[j] =
             IF j \in t .. t + L - 1 THEN s.buf[j - t + 1] ELSE s.disk.block[s.num].data[j]
  BY DEF Stored, Overwritten, WriterAt
<1> HIDE DEF L, L2, N, S, t, r
<1>8. L2 <= L /\ O + (N - L2) <= S + BLOCK_DATA /\ (L2 # 0 => O + (N - L2) = S + BLOCK_DATA) /\ O <= S + BLOCK_DATA
  <2>0. L <= N  BY <1>6
  <2>1. CASE BLOCK_DATA - t < L
    <3>1. L2 = L - (BLOCK_DATA - t)  BY <1>4, <2>1
    <3>2. QED  BY <1>1, <1>2, <1>3, <2>0, <2>1, <3>1
  <2>2. CASE ~(BLOCK_DATA - t < L)
    <3>1. L2 = 0  BY <1>4, <2>2
    <3>2. QED  BY <1>1, <1>2, <1>3, <2>0, <2>2, <3>1
  <2>3. QED  BY <2>1, <2>2
<1>9. ASSUME NEW x \in 1 .. L2 PROVE e.buf[x] = B[N - L2 + x]
  <2>1. BLOCK_DATA - t + x \in 1 .. L /\ N - L + (BLOCK_DATA - t + x) = N - L2 + x  BY <1>1, <1>3, <1>4, <1>9
  <2>2. e.buf[x] = s.buf[BLOCK_DATA - t + x]  BY <1>5
  <2>3. s.buf[BLOCK_DATA - t + x] = B[N - L + (BLOCK_DATA - t + x)]  BY <1>6, <2>1
  <2>4. QED  BY <2>1, <2>2, <2>3
<1>10. ASSUME NEW n \in e.disk.bitmap, NEW j \in 0 .. BLOCK_DATA - 1, own3[n] = h
       PROVE  LET q == Start(rank3[n]) + j
              IN  /\ O <= q /\ q < O + (N - L2) => e.disk.block[n].data[j] = B[q - O + 1]
                  /\ q < O => n \in d.bitmap /\ e.disk.block[n].data[j] = d.block[n].data[j]
  <2> DEFINE q == Start(rank3[n]) + j
  <2>0. rank3[n] \in Nat  BY DEF Placed
  <2>1. Start(rank3[n]) \in Nat /\ j \in Nat /\ q \in Nat
    <3>1. Start(rank3[n]) \in Nat  BY <2>0, Starts
    <3>2. QED  BY <1>1, <3>1
  <2>2. CASE n \notin s.disk.bitmap
    <3>1. q >= S + BLOCK_DATA  BY <1>1, <1>2, <2>1, <2>2 DEF r
    <3>2. ~(q < O) /\ ~(q < O + (N - L2))  BY <1>1, <1>2, <1>8, <2>1, <3>1
    <3>3. QED  BY <3>2
  <2>3. CASE n \in s.disk.bitmap
    <3>1. own2[n] = h /\ rank2[n] = rank3[n]  BY <1>10, <2>3
    <3>2. /\ O <= q /\ q < O + (N - L) => s.disk.block[n].data[j] = B[q - O + 1]
          /\ q < O => n \in d.bitmap /\ s.disk.block[n].data[j] = d.block[n].data[j]
      BY <2>3, <3>1 DEF WData, N, L
    <3>3. CASE n # s.num
      <4>1. e.disk.block[n] = s.disk.block[n]  BY <2>3, <3>3
      <4>2. ~(O + (N - L) <= q /\ q < O + (N - L2))
        <5>1. SUFFICES ASSUME O + (N - L) <= q, q < O + (N - L2) PROVE FALSE  OBVIOUS
        <5>2. S <= q /\ q < S + BLOCK_DATA  BY <1>1, <1>2, <1>3, <1>8, <2>1, <5>1
        <5>3. rank3[n] = r  BY <1>2, <2>0, <5>2, SameRank DEF S
        <5>4. own2[s.num] = h /\ s.num \in s.disk.bitmap  BY DEF WriterAt
        <5>5. n = s.num  BY <2>3, <3>1, <5>3, <5>4 DEF Placed, r
        <5>6. QED  BY <3>3, <5>5
      <4>3. O <= q /\ q < O + (N - L2) => q < O + (N - L)  BY <1>1, <2>1, <4>2
      <4>4. QED  BY <3>2, <4>1, <4>3
    <3>4. CASE n = s.num
      <4>1. q = S + j  BY <3>1, <3>4 DEF S, r
      <4> HIDE DEF q
      <4>2. CASE j \in t .. t + L - 1
        <5>1. e.disk.block[n].data[j] = s.buf[j - t + 1]  BY <1>7, <3>4, <4>2
        <5>2. j - t + 1 \in 1 .. L /\ N - L + (j - t + 1) = q - O + 1 /\ ~(q < O)
          BY <1>1, <1>2, <1>3, <1>6, <4>1, <4>2
        <5>3. s.buf[j - t + 1] = B[N - L + (j - t + 1)]  BY <1>6, <5>2
        <5>4. QED  BY <5>1, <5>2, <5>3 DEF q
      <4>3. CASE j \notin t .. t + L - 1
        <5>1. e.disk.block[n].data[j] = s.disk.block[n].data[j]  BY <1>7, <3>4, <4>3
        <5>2. q < O + (N - L2) => q < O + (N - L)  BY <1>1, <1>2, <1>3, <1>4, <4>1, <4>3
        <5>3. QED  BY <3>2, <5>1, <5>2 DEF q
      <4>4. QED  BY <4>2, <4>3
    <3>5. QED  BY <3>3, <3>4
  <2>4. QED  BY <2>2, <2>3
<1>11. WData(d, e.disk, own3, rank3, h, O, B, N - L2)
  <2>1. QED  BY <1>10 DEF WData
<1>12. QED  BY <1>8, <1>9, <1>11 DEF L, L2, N, S, r

\* A round that stores a block keeps the invariant when the chain and the next
\* block are right.
LEMMA WritingNext ==
    ASSUME NEW d, NEW own, NEW rank, NEW h, NEW O \in Nat, NEW B \in Seq(Byte),
           NEW s, NEW own2, NEW rank2, Writing(d, own, rank, h, O, B, s, own2, rank2),
           s.buf # <<>>, s.num # -1, s.off <= BLOCK_DATA,
           NEW e, NEW own3, NEW rank3, Stored(s, e), Grows(d, own, rank, e.disk, own3, rank3, h),
           s.disk.bitmap \subseteq e.disk.bitmap,
           \A n \in s.disk.bitmap : /\ own3[n] = own2[n] /\ rank3[n] = rank2[n]
                                    /\ n # s.num => e.disk.block[n] = s.disk.block[n],
           \A n \in e.disk.bitmap : n \notin s.disk.bitmap => rank3[n] = rank2[s.num] + 1,
           e.buf # <<>> /\ e.num # -1 =>
               /\ e.num \in e.disk.bitmap /\ own3[e.num] = h /\ rank3[e.num] = rank2[s.num] + 1
               /\ e.b.head = e.disk.block[e.num].head /\ e.b.next = e.disk.block[e.num].next
               /\ e.b.data = e.disk.block[e.num].data
               /\ e.num \in d.bitmap => /\ e.b.filename = e.disk.block[e.num].filename
                                        /\ e.b.st_size = e.disk.block[e.num].st_size
    PROVE  Writing(d, own, rank, h, O, B, e, own3, rank3)
<1> DEFINE r == rank2[s.num]
<1>0. /\ s \in WState /\ Placed(s.disk, own2, rank2) /\ Placed(e.disk, own3, rank3)
      /\ Len(s.buf) <= Len(B) /\ \A x \in 1 .. Len(s.buf) : s.buf[x] = B[Len(B) - Len(s.buf) + x]
      /\ WData(d, s.disk, own2, rank2, h, O, B, Len(B) - Len(s.buf))
      /\ WriterAt(d, h, O, Len(B) - Len(s.buf), s, own2, rank2)
  BY DEF Writing, Grows
<1>1. /\ Len(e.buf) <= Len(s.buf)
      /\ \A x \in 1 .. Len(e.buf) : e.buf[x] = B[Len(B) - Len(e.buf) + x]
      /\ WData(d, e.disk, own3, rank3, h, O, B, Len(B) - Len(e.buf))
      /\ O + (Len(B) - Len(e.buf)) <= Start(r) + BLOCK_DATA
      /\ Len(e.buf) # 0 => O + (Len(B) - Len(e.buf)) = Start(r) + BLOCK_DATA
      /\ O <= Start(r) + BLOCK_DATA
  BY <1>0, DataStored
<1>2. e \in WState /\ ~e.disk.astray /\ e.off = 0  BY DEF Stored
<1>3. Len(s.buf) \in Nat /\ Len(e.buf) \in Nat /\ Len(B) \in Nat /\ (e.buf # <<>> => Len(e.buf) # 0)
  <2>1. s.buf \in Seq(Byte) /\ e.buf \in Seq(Byte)  BY <1>0, <1>2 DEF WState
  <2>2. QED  BY <2>1, LenProperties, EmptySeq
<1>4. s.num \in s.disk.bitmap /\ own2[s.num] = h /\ r \in Nat /\ BLOCK_DATA \in Nat /\ Start(r) \in Nat
  <2>1. s.num \in s.disk.bitmap /\ own2[s.num] = h /\ r \in Nat  BY <1>0 DEF WriterAt, Placed
  <2>2. QED  BY <2>1, Starts, AOFSAssumption
<1>5. Reached(e.disk, own3, rank3, h, O + (Len(B) - Len(e.buf)))
  <2>1. s.num \in e.disk.bitmap /\ own3[s.num] = h /\ rank3[s.num] = r  BY <1>4
  <2> HIDE DEF r
  <2>2. QED  BY <1>1, <2>1 DEF Reached
<1>6. Reached(d, own, rank, h, O)
  <2>1. CASE Reached(d, own, rank, h, O)  BY <2>1
  <2>2. CASE s.disk = d
    <3>1. s.num \in d.bitmap /\ own[s.num] = h /\ rank[s.num] = r  BY <1>4, <2>2 DEF Writing, Grows
    <3> HIDE DEF r
    <3>2. QED  BY <1>1, <3>1 DEF Reached
  <2>3. QED  BY <2>1, <2>2 DEF Writing
<1>7. e.buf # <<>> /\ e.num # -1 => WriterAt(d, h, O, Len(B) - Len(e.buf), e, own3, rank3)
  <2>1. SUFFICES ASSUME e.buf # <<>>, e.num # -1 PROVE WriterAt(d, h, O, Len(B) - Len(e.buf), e, own3, rank3)
    OBVIOUS
  <2> HIDE DEF r
  <2>2. Start(r + 1) = Start(r) + BLOCK_DATA  BY <1>4, Starts
  <2>3. rank3[e.num] = r + 1  BY <2>1 DEF r
  <2>4. Start(rank3[e.num]) + e.off = O + (Len(B) - Len(e.buf))
    <3>1. Start(rank3[e.num]) = Start(r) + BLOCK_DATA /\ e.off = 0  BY <1>2, <2>2, <2>3
    <3>2. O + (Len(B) - Len(e.buf)) = Start(r) + BLOCK_DATA  BY <1>1, <1>3, <2>1
    <3>3. Start(r) + BLOCK_DATA + 0 = Start(r) + BLOCK_DATA  BY <1>4
    <3>4. QED  BY <3>1, <3>2, <3>3, Zenon
  <2>5. QED  BY <2>1, <2>4 DEF WriterAt
<1>8. Len(e.buf) <= Len(B)  BY <1>0, <1>1, <1>3
<1> HIDE DEF r
<1>9. QED  BY <1>1, <1>2, <1>5, <1>6, <1>7, <1>8 DEF Writing

\* A round that stores a block keeps the invariant of the loop.
LEMMA WritingStores ==
    ASSUME NEW d, NEW own, NEW rank, NEW h, NEW O \in Nat, NEW B \in Seq(Byte),
           NEW s, NEW own2, NEW rank2, Writing(d, own, rank, h, O, B, s, own2, rank2),
           s.buf # <<>>, s.num # -1, s.off <= BLOCK_DATA, NEW name \in Name
    PROVE  \E own3, rank3 : Writing(d, own, rank, h, O, B, WriteRound(name, s), own3, rank3)
<1> DEFINE e == WriteRound(name, s)
           p == s.num
           r == rank2[p]
<1>0. /\ s \in WState /\ ~s.disk.astray /\ s.disk \in DiskType
      /\ Grows(d, own, rank, s.disk, own2, rank2, h) /\ Placed(s.disk, own2, rank2)
      /\ WriterAt(d, h, O, Len(B) - Len(s.buf), s, own2, rank2)
  BY DEF Writing, Grows
<1>1. Stored(s, e) /\ (Onwards(s, e) \/ Chained(s, e))  BY <1>0, StoreRound
<1> HIDE DEF e
<1>2. e \in WState /\ e.disk \in DiskType /\ Overwritten(s.buf, s.b, s.off, e.num, e.disk.block[p])
  BY <1>1 DEF Stored, WState
<1>3. p \in s.disk.bitmap /\ own2[p] = h /\ r \in Nat /\ s.disk.bitmap \subseteq BlockNum /\ -1 \notin BlockNum
  BY <1>0, DiskHas DEF WriterAt, Placed
<1>4. /\ e.disk.block[p].head = s.disk.block[p].head
      /\ s.b.next = s.disk.block[p].next /\ e.disk.block[p].next = e.num
      /\ p \in d.bitmap => /\ e.disk.block[p].filename = s.disk.block[p].filename
                           /\ e.disk.block[p].st_size = s.disk.block[p].st_size
  BY <1>0, <1>2 DEF WriterAt, Overwritten
<1>5. CASE Onwards(s, e)
  <2>1. /\ e.num = s.b.next /\ e.disk.bitmap = s.disk.bitmap
        /\ \A n \in s.disk.bitmap : n # p => e.disk.block[n] = s.disk.block[n]
    BY <1>3, <1>5 DEF Onwards
  <2>2. SameLink(s.disk, e.disk, p)  BY <1>4, <2>1 DEF SameLink
  <2>3. Grows(d, own, rank, e.disk, own2, rank2, h)
    <3> DEFINE g == s.disk
               f == e.disk
    <3>1. /\ Grows(d, own, rank, g, own2, rank2, h) /\ p \in g.bitmap /\ own2[p] = h /\ f \in DiskType
          /\ f.bitmap = g.bitmap /\ SameLink(g, f, p)
          /\ \A n \in g.bitmap : n # p => f.block[n] = g.block[n]
          /\ p \in d.bitmap => f.block[p].filename = g.block[p].filename /\ f.block[p].st_size = g.block[p].st_size
      BY <1>0, <1>2, <1>3, <1>4, <2>1, <2>2
    <3> HIDE DEF g, f, p
    <3>2. Grows(d, own, rank, f, own2, rank2, h)  BY <3>1, GrowsSame
    <3>3. QED  BY <3>2 DEF f
  <2>4. ASSUME e.buf # <<>>, e.num # -1
        PROVE  /\ e.num \in e.disk.bitmap /\ own2[e.num] = h /\ rank2[e.num] = rank2[p] + 1
               /\ e.b = e.disk.block[e.num]
    <3>1. e.num \in s.disk.bitmap /\ own2[e.num] = h /\ rank2[e.num] = r + 1
      BY <1>0, <1>3, <1>4, <2>1, <2>4 DEF Placed
    <3>2. e.num # p  BY <1>3, <3>1
    <3>3. e.b = s.disk.block[e.num]  BY <1>5, <2>4 DEF Onwards
    <3>4. QED  BY <2>1, <3>1, <3>2, <3>3
  <2>5. Writing(d, own, rank, h, O, B, e, own2, rank2)  BY <1>1, <2>1, <2>3, <2>4, WritingNext
  <2>6. QED  BY <2>5 DEF e
<1>6. CASE Chained(s, e)
  <2> DEFINE a == e.num
             own3 == With(own2, a, h)
             rank3 == With(rank2, a, r + 1)
  <2>1. /\ a \in BlockNum /\ a \notin s.disk.bitmap /\ e.disk.bitmap = s.disk.bitmap \cup {a}
        /\ \A n \in s.disk.bitmap : n # p => e.disk.block[n] = s.disk.block[n]
        /\ a # p /\ e.disk.block[a] = clear_block /\ s.b.next = -1
    BY <1>3, <1>6 DEF Chained
  <2>2. ~e.disk.block[a].head /\ e.disk.block[a].next = -1  BY <2>1, ClearIn
  <2>3. Grows(d, own, rank, e.disk, own3, rank3, h) /\ own3[a] = h /\ rank3[a] = r + 1
    <3> DEFINE g == s.disk
               f == e.disk
    <3>1. /\ Grows(d, own, rank, g, own2, rank2, h) /\ p \in g.bitmap /\ own2[p] = h /\ f \in DiskType
          /\ g.block[p].next = -1 /\ a \notin g.bitmap
          /\ f.bitmap = g.bitmap \cup {a}
          /\ \A n \in g.bitmap : n # p => f.block[n] = g.block[n]
          /\ f.block[p].head = g.block[p].head /\ f.block[p].next = a
          /\ p \in d.bitmap => f.block[p].filename = g.block[p].filename /\ f.block[p].st_size = g.block[p].st_size
          /\ ~f.block[a].head /\ f.block[a].next = -1
      BY <1>0, <1>2, <1>3, <1>4, <2>1, <2>2
    <3> HIDE DEF g, f, a, p, own3, rank3
    <3>2. /\ Grows(d, own, rank, f, With(own2, a, h), With(rank2, a, rank2[p] + 1), h)
          /\ With(own2, a, h)[a] = h /\ With(rank2, a, rank2[p] + 1)[a] = rank2[p] + 1
      BY <3>1, GrowsBy
    <3>3. QED  BY <3>2 DEF f, own3, rank3
  <2>4. \A n \in s.disk.bitmap : own3[n] = own2[n] /\ rank3[n] = rank2[n]
    BY <1>0, <2>1 DEF With, Placed
  <2> HIDE DEF own3, rank3
  <2>5. e.b.head = e.disk.block[a].head /\ e.b.next = e.disk.block[a].next /\ e.b.data = e.disk.block[a].data
    BY <1>6, <2>1, <2>2 DEF Chained
  <2>6. a \notin d.bitmap  BY <1>0, <2>1 DEF Grows
  <2>7. \A n \in e.disk.bitmap : n \notin s.disk.bitmap => rank3[n] = rank2[p] + 1  BY <2>1, <2>3
  <2>8. s.disk.bitmap \subseteq e.disk.bitmap /\ a \in e.disk.bitmap  BY <2>1
  <2>9. Writing(d, own, rank, h, O, B, e, own3, rank3)
    BY <1>1, <2>1, <2>3, <2>4, <2>5, <2>6, <2>7, <2>8, WritingNext
  <2>10. QED  BY <2>9 DEF e
<1>7. QED  BY <1>1, <1>5, <1>6

\* A round that skips a block: the offset lies behind it.
LEMMA WritingSkips ==
    ASSUME NEW d, NEW own, NEW rank, NEW h, NEW O \in Nat, NEW B \in Seq(Byte),
           NEW s, NEW own2, NEW rank2, Writing(d, own, rank, h, O, B, s, own2, rank2),
           s.buf # <<>>, s.num # -1, s.off > BLOCK_DATA, NEW name \in Name
    PROVE  Writing(d, own, rank, h, O, B, WriteRound(name, s), own2, rank2)
<1> DEFINE e == WriteRound(name, s)
           r == rank2[s.num]
           done == Len(B) - Len(s.buf)
<1>0. /\ s \in WState /\ ~s.disk.astray /\ Placed(s.disk, own2, rank2)
      /\ WriterAt(d, h, O, done, s, own2, rank2)
  BY DEF Writing, Grows
<1>1. /\ e = [s EXCEPT !.num = s.b.next, !.b = read_block(s.disk, s.b.next), !.off = s.off - BLOCK_DATA]
      /\ e \in WState
  BY <1>0, OtherRounds
<1> HIDE DEF e
<1>2. e.disk = s.disk /\ e.buf = s.buf /\ e.num = s.b.next /\ e.b = read_block(s.disk, s.b.next) /\ e.off = s.off - BLOCK_DATA
  BY <1>0, <1>1 DEF WState
<1>3. s.num \in s.disk.bitmap /\ own2[s.num] = h /\ r \in Nat /\ BLOCK_DATA \in Nat /\ Start(r) \in Nat /\ s.off \in Nat
  <2>1. s.num \in s.disk.bitmap /\ own2[s.num] = h /\ r \in Nat  BY <1>0 DEF WriterAt, Placed
  <2>2. s.off \in Nat  BY <1>0 DEF WState
  <2>3. QED  BY <2>1, <2>2, Starts, AOFSAssumption
<1>4. ASSUME e.num # -1 PROVE WriterAt(d, h, O, done, e, own2, rank2)
  <2>1. e.num = s.disk.block[s.num].next  BY <1>0, <1>2 DEF WriterAt
  <2>2. e.num \in s.disk.bitmap /\ own2[e.num] = h /\ rank2[e.num] = r + 1  BY <1>0, <1>3, <1>4, <2>1 DEF Placed
  <2>3. e.b = s.disk.block[e.num]  BY <1>2, <1>4 DEF read_block
  <2>4. Start(r) + s.off = O + done  BY <1>0 DEF WriterAt
  <2> HIDE DEF r
  <2>5. Start(rank2[e.num]) = Start(r) + BLOCK_DATA  BY <1>3, <2>2, Starts
  <2>6. Start(r) + BLOCK_DATA + (s.off - BLOCK_DATA) = Start(r) + s.off  BY <1>3
  <2>7. Start(rank2[e.num]) + e.off = O + done  BY <1>2, <2>4, <2>5, <2>6, Zenon
  <2> HIDE DEF done
  <2>8. QED  BY <1>2, <2>2, <2>3, <2>7 DEF WriterAt
<1>5. QED  BY <1>1, <1>2, <1>4 DEF Writing, e

\* Every round that stores or skips a block shortens the buffer or the offset.
LEMMA Shortens ==
    ASSUME NEW name \in Name, NEW s \in WState, s.buf # <<>>, ~s.disk.astray, s.num # -1
    PROVE  LET e == WriteRound(name, s) IN Len(e.buf) + e.off < Len(s.buf) + s.off
<1> DEFINE e == WriteRound(name, s)
           L == Len(s.buf)
           t == s.off
<1>1. L \in Nat /\ L # 0 /\ t \in Nat /\ BLOCK_DATA \in Nat /\ BLOCK_DATA # 0
  <2>1. s.buf \in Seq(Byte) /\ t \in Nat  BY DEF WState
  <2>2. QED  BY <2>1, LenProperties, EmptySeq, AOFSAssumption
<1>2. CASE t > BLOCK_DATA
  <2>1. e = [s EXCEPT !.num = s.b.next, !.b = read_block(s.disk, s.b.next), !.off = s.off - BLOCK_DATA]
    BY <1>2, OtherRounds
  <2> HIDE DEF e
  <2>2. e.buf = s.buf /\ e.off = t - BLOCK_DATA  BY <2>1 DEF WState
  <2> HIDE DEF t, L
  <2>3. L + (t - BLOCK_DATA) < L + t  BY <1>1
  <2>4. QED  BY <2>2, <2>3 DEF e, t, L
<1>3. CASE t <= BLOCK_DATA
  <2>1. Stored(s, e)  BY <1>3, StoreRound
  <2> HIDE DEF e
  <2>2. e.off = 0 /\ Len(e.buf) = IF BLOCK_DATA - t < L THEN L - (BLOCK_DATA - t) ELSE 0  BY <2>1 DEF Stored
  <2> HIDE DEF t, L
  <2>3. CASE BLOCK_DATA - t < L
    <3>1. L - (BLOCK_DATA - t) + 0 < L + t  BY <1>1, <1>3
    <3>2. QED  BY <2>2, <2>3, <3>1 DEF e, t, L
  <2>4. CASE ~(BLOCK_DATA - t < L)
    <3>1. 0 + 0 < L + t  BY <1>1
    <3>2. QED  BY <2>2, <2>4, <3>1 DEF e, t, L
  <2>5. QED  BY <2>3, <2>4
<1>4. QED  BY <1>1, <1>2, <1>3

\* The rounds of a write.
WriteLoop(name, x, k) == Times(LAMBDA s : WriteRound(name, s), x, k)

\* The rounds of a write, one by one.
LEMMA WriteRounds ==
    ASSUME NEW name \in Name, NEW x \in WState, NEW k \in Nat
    PROVE  \E t : /\ t \in [0 .. k -> WState] /\ t[0] = x
                  /\ \A i \in 1 .. k : t[i] = WriteRound(name, t[i - 1])
                  /\ WriteLoop(name, x, k) = t[k]
<1> DEFINE f == [s \in WState |-> WriteRound(name, s)]
<1>1. f \in [WState -> WState]
  <2>1. ASSUME NEW s \in WState PROVE WriteRound(name, s) \in WState
    <3>1. s.off \in Nat /\ BLOCK_DATA \in Nat  BY AOFSAssumption DEF WState
    <3>2. CASE s.buf = <<>> \/ s.disk.astray  BY <3>2, OtherRounds
    <3>3. CASE s.buf # <<>> /\ ~s.disk.astray /\ s.num = -1  BY <3>3, OtherRounds
    <3>4. CASE s.buf # <<>> /\ ~s.disk.astray /\ s.num # -1 /\ s.off > BLOCK_DATA  BY <3>4, OtherRounds
    <3>5. CASE s.buf # <<>> /\ ~s.disk.astray /\ s.num # -1 /\ s.off <= BLOCK_DATA
      BY <3>5, StoreRound DEF Stored
    <3>6. QED  BY <3>1, <3>2, <3>3, <3>4, <3>5
  <2>2. QED  BY <2>1
<1>2. \A s \in WState : f[s] = WriteRound(name, s)  OBVIOUS
<1> HIDE DEF f
<1>3. PICK t : Rounds(f, WState, x, k, t)  BY <1>1, RoundsExist
<1>4. t \in [0 .. k -> WState] /\ t[0] = x /\ \A i \in 1 .. k : t[i] = f[t[i - 1]]  BY <1>3 DEF Rounds
<1>5. \A i \in 1 .. k : t[i] = WriteRound(name, t[i - 1])
  <2>1. ASSUME NEW i \in 1 .. k PROVE t[i] = WriteRound(name, t[i - 1])
    <3>1. i - 1 \in 0 .. k  OBVIOUS
    <3>2. t[i - 1] \in WState  BY <1>4, <3>1
    <3>3. QED  BY <1>2, <1>4, <3>2
  <2>2. QED  BY <2>1
<1> DEFINE Eq(r) == r = [j \in 0 .. k |-> IF j = 0 THEN x ELSE WriteRound(name, r[j - 1])]
<1>6. WriteLoop(name, x, k) = (CHOOSE r : Eq(r))[k]  BY Zenon DEF WriteLoop, Times
<1>7. Eq(t)
  <2>1. ASSUME NEW j \in 0 .. k PROVE t[j] = IF j = 0 THEN x ELSE WriteRound(name, t[j - 1])
    <3>1. CASE j = 0  BY <1>4, <3>1
    <3>2. CASE j # 0  BY <1>5, <3>2
    <3>3. QED  BY <3>1, <3>2
  <2>2. QED  BY <1>4, <2>1
<1> DEFINE r == CHOOSE r : Eq(r)
<1>8. Eq(r)  BY <1>7
<1> HIDE DEF r
<1>9. r[0] = x /\ \A j \in 1 .. k : r[j - 1] \in WState => r[j] = f[r[j - 1]]  BY <1>2, <1>8
<1>10. r[k] = t[k]  BY <1>1, <1>3, <1>9, RoundsOnly
<1>11. QED  BY <1>4, <1>5, <1>6, <1>10 DEF r

\* The loop keeps its invariant and ends with the buffer written, or goes astray.
LEMMA WriteLoopIs ==
    ASSUME NEW name \in Name, NEW d, NEW own, NEW rank, NEW h, NEW O \in Nat, NEW B \in Seq(Byte),
           NEW x \in WState, x.off = O, x.buf = B,
           x.disk.astray \/ Writing(d, own, rank, h, O, B, x, own, rank)
    PROVE  LET r == WriteLoop(name, x, O + Len(B))
           IN  r.disk.astray \/ \E own2, rank2 : Writing(d, own, rank, h, O, B, r, own2, rank2) /\ r.buf = <<>>
<1> DEFINE k == O + Len(B)
<1>0. k \in Nat /\ Len(B) \in Nat /\ BLOCK_DATA \in Nat  BY LenProperties, AOFSAssumption
<1> HIDE DEF k
<1>1. PICK t : /\ t \in [0 .. k -> WState] /\ t[0] = x
               /\ \A i \in 1 .. k : t[i] = WriteRound(name, t[i - 1])
               /\ WriteLoop(name, x, k) = t[k]
  BY <1>0, WriteRounds
<1> DEFINE Inv(i) == \/ t[i].disk.astray
                     \/ /\ \E own2, rank2 : Writing(d, own, rank, h, O, B, t[i], own2, rank2)
                        /\ t[i].buf = <<>> \/ Len(t[i].buf) + t[i].off <= k - i
           I == {i \in 0 .. k : Inv(i)}
<1>2. 0 \in I
  <2>1. 0 \in 0 .. k /\ Len(B) + O <= k - 0  BY <1>0 DEF k
  <2>2. t[0] = x  BY <1>1
  <2>3. QED  BY <2>1, <2>2
<1>3. ASSUME NEW i \in 0 .. k - 1, i \in I PROVE i + 1 \in I
  <2> DEFINE s == t[i]
             e == WriteRound(name, s)
  <2>1. t[i + 1] = e /\ s \in WState /\ i + 1 \in 0 .. k
    <3>1. i + 1 \in 1 .. k /\ i + 1 - 1 = i /\ i \in 0 .. k  BY <1>0
    <3>2. QED  BY <1>1, <3>1
  <2>2. CASE s.disk.astray
    <3>1. e = s  BY <2>1, <2>2, OtherRounds
    <3>2. QED  BY <2>1, <2>2, <3>1
  <2>3. CASE ~s.disk.astray
    <3>1. PICK own2, rank2 : Writing(d, own, rank, h, O, B, s, own2, rank2)  BY <1>3, <2>3
    <3>2. CASE s.buf = <<>>
      <4>1. e = s  BY <2>1, <3>2, OtherRounds
      <4>2. QED  BY <2>1, <3>1, <3>2, <4>1
    <3>3. CASE s.buf # <<>> /\ s.num = -1
      <4>1. e.disk.astray  BY <2>1, <2>3, <3>3, OtherRounds
      <4>2. QED  BY <2>1, <4>1
    <3>4. CASE s.buf # <<>> /\ s.num # -1
      <4>0. s.off \in Nat  BY <2>1 DEF WState
      <4>1. \E own3, rank3 : Writing(d, own, rank, h, O, B, e, own3, rank3)
        <5>1. CASE s.off > BLOCK_DATA  BY <3>1, <3>4, <5>1, WritingSkips
        <5>2. CASE s.off <= BLOCK_DATA  BY <3>1, <3>4, <5>2, WritingStores
        <5>3. QED  BY <1>0, <4>0, <5>1, <5>2
      <4>2. Len(e.buf) + e.off < Len(s.buf) + s.off  BY <2>1, <2>3, <3>4, Shortens
      <4>3. Len(s.buf) + s.off <= k - i  BY <1>3, <2>3, <3>4
      <4>4. e \in WState  BY <4>1 DEF Writing
      <4> HIDE DEF e, s
      <4>5. Len(e.buf) \in Nat /\ e.off \in Nat /\ Len(s.buf) \in Nat
        <5>1. e.buf \in Seq(Byte) /\ e.off \in Nat /\ s.buf \in Seq(Byte)  BY <2>1, <4>4 DEF WState
        <5>2. QED  BY <5>1, LenProperties
      <4>6. Len(e.buf) + e.off <= k - (i + 1)  BY <1>0, <4>0, <4>2, <4>3, <4>5
      <4>7. Inv(i + 1)  BY <2>1, <4>1, <4>6
      <4>8. QED  BY <2>1, <4>7
    <3>5. QED  BY <3>2, <3>3, <3>4
  <2>4. QED  BY <2>2, <2>3
<1>4. k \in I
  <2> HIDE DEF I, Inv
  <2>1. k \in Nat /\ k \in 0 .. k  BY <1>0
  <2>2. \A i \in 0 .. k - 1 : i \in I => i + 1 \in I  BY <1>3
  <2>3. \A i \in 0 .. k : i \in I  BY <1>2, <2>1, <2>2, Inductive
  <2>4. QED  BY <2>1, <2>3
<1>5. CASE t[k].disk.astray  BY <1>1, <1>5 DEF k
<1>6. CASE ~t[k].disk.astray
  <2>1. PICK own2, rank2 : Writing(d, own, rank, h, O, B, t[k], own2, rank2)  BY <1>4, <1>6
  <2>2. t[k].buf = <<>> \/ Len(t[k].buf) + t[k].off <= k - k  BY <1>4, <1>6
  <2>3. t[k].buf \in Seq(Byte) /\ t[k].off \in Nat
    <3>1. t[k] \in WState  BY <2>1 DEF Writing
    <3>2. QED  BY <3>1 DEF WState
  <2>4. Len(t[k].buf) \in Nat /\ (t[k].buf # <<>> => Len(t[k].buf) # 0)  BY <2>3, LenProperties, EmptySeq
  <2>5. t[k].buf = <<>>
    <3>1. k - k = 0  BY <1>0
    <3>2. QED  BY <2>2, <2>3, <2>4, <3>1
  <2>6. QED  BY <1>1, <2>1, <2>5 DEF k
<1>7. QED  BY <1>5, <1>6

\* e is d after B was written to the file of h from O on.
Wrote(d, own, rank, e, own2, rank2, h, O, B) ==
    /\ Image(e, own2, rank2) /\ ~e.astray /\ Kept(d, own, rank, e, own2, rank2, h)
    /\ h \in e.bitmap /\ own2[h] = h /\ e.block[h].head /\ e.block[h].st_size = Len(B) + O
    /\ Reached(e, own2, rank2, h, O + Len(B))
    /\ \A n \in d.bitmap : own[n] = h => n \in e.bitmap /\ own2[n] = h /\ rank2[n] = rank[n]
    /\ WData(d, e, own2, rank2, h, O, B, Len(B))

\* A write to a file from offset O on.
LEMMA WriteFromIs ==
    ASSUME NEW c, NEW own, NEW rank, Image(c, own, rank), ~c.astray, NEW name \in Name,
           NEW h \in c.bitmap, c.block[h].head, NEW B \in Seq(Byte), B # <<>>, NEW O \in Nat
    PROVE  LET b == [c.block[h] EXCEPT !.st_size = Len(B) + O]
               x == [disk |-> write_block(c, h, b), num |-> h, b |-> b, buf |-> B, off |-> O]
               r == WriteLoop(name, x, O + Len(B)).disk
           IN  \/ r.astray
               \/ /\ Reached(c, own, rank, h, O)
                  /\ \E own2, rank2 : /\ Wrote(c, own, rank, r, own2, rank2, h, O, B)
                                      /\ r.block[h].filename = c.block[h].filename
<1> DEFINE b == [c.block[h] EXCEPT !.st_size = Len(B) + O]
           d == write_block(c, h, b)
           x == [disk |-> d, num |-> h, b |-> b, buf |-> B, off |-> O]
           y == WriteLoop(name, x, O + Len(B))
           r == y.disk
<1>0. /\ c \in DiskType /\ Placed(c, own, rank) /\ OneHead(c) /\ Covered(c, own, rank)
      /\ c.bitmap \subseteq BlockNum /\ h \in BlockNum
  BY DiskHas DEF Image
<1>1. Len(B) \in Nat /\ Len(B) # 0 /\ Len(B) + O \in Nat /\ BLOCK_DATA \in Nat /\ BLOCK_DATA # 0
  BY LenProperties, EmptySeq, AOFSAssumption
<1>2. /\ b \in Block /\ d \in DiskType /\ d.bitmap = c.bitmap /\ d.astray = c.astray
      /\ \A n \in BlockNum : n # h => d.block[n] = c.block[n]
      /\ d.block[h] = b /\ b.st_size = Len(B) + O /\ SameLink(c, d, h)
      /\ b.filename = c.block[h].filename /\ b.data = c.block[h].data
  <2>1. SizeStored(c, h, Len(B) + O, b, d)  BY <1>0, <1>1, SizeIs
  <2> HIDE DEF b, d
  <2>2. QED  BY <2>1 DEF SizeStored
<1>3. own[h] = h /\ rank[h] = 0  BY <1>0 DEF Placed
<1> HIDE DEF b, d
<1>4. /\ Placed(d, own, rank) /\ ~d.astray
      /\ \A n \in c.bitmap : /\ d.block[n].data = c.block[n].data /\ d.block[n].filename = c.block[n].filename
                             /\ SameLink(c, d, n) /\ (n # h => d.block[n] = c.block[n])
  <2>1. ASSUME NEW n \in c.bitmap
        PROVE  /\ d.block[n].data = c.block[n].data /\ d.block[n].filename = c.block[n].filename
               /\ SameLink(c, d, n) /\ (n # h => d.block[n] = c.block[n])
    BY <1>0, <1>2 DEF SameLink
  <2>2. Placed(d, own, rank)  BY <1>0, <1>2, <2>1, PlacedSame
  <2>3. QED  BY <1>2, <2>1, <2>2
<1>5. /\ x \in WState /\ x.off = O /\ x.buf = B /\ x.disk = d /\ x.num = h /\ x.b = b
  BY <1>0, <1>2 DEF WState, Num
<1>6. Writing(d, own, rank, h, O, B, x, own, rank)
  <2>1. Grows(d, own, rank, d, own, rank, h)  BY <1>2, <1>4 DEF Grows
  <2>2. Len(B) - Len(B) = 0 /\ \A i \in 1 .. Len(B) : B[0 + i] = B[i]  BY <1>1
  <2>3. WData(d, d, own, rank, h, O, B, 0)
    <3>1. ASSUME NEW n \in d.bitmap, NEW j \in 0 .. BLOCK_DATA - 1 PROVE Start(rank[n]) + j \in Nat
      <4>1. rank[n] \in Nat  BY <1>4 DEF Placed
      <4>2. Start(rank[n]) \in Nat  BY <4>1, Starts
      <4>3. QED  BY <4>2
    <3>2. \A q \in Nat : ~(O <= q /\ q < O + 0)  OBVIOUS
    <3>3. QED  BY <3>1, <3>2 DEF WData
  <2>4. WriterAt(d, h, O, 0, x, own, rank)
    <3>1. Start(rank[h]) + O = O + 0  BY <1>3, Starts
    <3>2. QED  BY <1>2, <1>3, <1>5, <3>1 DEF WriterAt
  <2>5. ~(Len(B) < Len(B)) /\ Len(B) <= Len(B)  BY <1>1
  <2>6. WData(d, d, own, rank, h, O, B, Len(B) - Len(B))  BY <2>2, <2>3
  <2>7. WriterAt(d, h, O, Len(B) - Len(B), x, own, rank)  BY <2>2, <2>4
  <2>8. \A i \in 1 .. Len(B) : B[i] = B[Len(B) - Len(B) + i]  BY <2>2
  <2> HIDE DEF x
  <2>9. QED  BY <1>4, <1>5, <2>1, <2>5, <2>6, <2>7, <2>8 DEF Writing
<1> HIDE DEF x
<1>7. y.disk.astray \/ \E own2, rank2 : Writing(d, own, rank, h, O, B, y, own2, rank2) /\ y.buf = <<>>
  BY <1>5, <1>6, WriteLoopIs
<1> HIDE DEF y
<1>8. CASE ~r.astray
  <2>1. PICK own2, rank2 : Writing(d, own, rank, h, O, B, y, own2, rank2) /\ y.buf = <<>>  BY <1>7, <1>8
  <2>2. Len(y.buf) = 0 /\ Len(B) - Len(y.buf) = Len(B) /\ Len(y.buf) < Len(B)
    <3>1. Len(y.buf) = 0  BY <2>1
    <3>2. QED  BY <1>1, <3>1
  <2>3. Grows(d, own, rank, r, own2, rank2, h)  BY <2>1 DEF Writing
  <2>4. WData(d, r, own2, rank2, h, O, B, Len(B)) /\ Reached(r, own2, rank2, h, O + Len(B))  BY <2>1, <2>2 DEF Writing
  <2>5. Reached(d, own, rank, h, O)
    <3>1. y.buf # B  BY <2>1
    <3>2. QED  BY <2>1, <3>1 DEF Writing
  <2> HIDE DEF r
  <2>6. Reached(c, own, rank, h, O)  BY <1>2, <2>5 DEF Reached
  <2>7. Kept(c, own, rank, r, own2, rank2, h)
    <3>1. Kept(d, own, rank, r, own2, rank2, h)  BY <2>3, GrowsKeeps
    <3>2. QED  BY <1>2, <1>3, <1>4, <3>1 DEF Kept
  <2>8. /\ r \in DiskType /\ Placed(r, own2, rank2) /\ h \in r.bitmap /\ own2[h] = h
        /\ r.block[h].filename = c.block[h].filename /\ r.block[h].st_size = Len(B) + O
    BY <1>2, <1>3, <2>3 DEF Grows
  <2>9. r.block[h].head
    <3>1. r.block[h].head = d.block[h].head  BY <1>2, <2>3 DEF Grows
    <3>2. d.block[h].head = c.block[h].head  BY <1>4 DEF SameLink
    <3>3. QED  BY <3>1, <3>2
  <2>10. \A n \in c.bitmap : own[n] = h => n \in r.bitmap /\ own2[n] = h /\ rank2[n] = rank[n]
    BY <1>2, <2>3 DEF Grows
  <2>11. WData(c, r, own2, rank2, h, O, B, Len(B))  BY <1>2, <1>4, <2>4 DEF WData
  <2>12. OneHead(r)
    <3>1. \A n \in c.bitmap : c.block[n].head /\ c.block[n].filename = r.block[h].filename => n = h
      BY <1>0, <2>8 DEF OneHead
    <3>2. QED  BY <1>0, <2>7, <2>8, <3>1, OneHeadKept
  <2>13. Covered(r, own2, rank2)
    <3>1. PICK n \in r.bitmap : own2[n] = h /\ O + Len(B) <= Start(rank2[n]) + BLOCK_DATA  BY <2>4 DEF Reached
    <3>2. rank2[n] \in Nat  BY <2>8 DEF Placed
    <3>3. Start(rank2[n]) \in Nat  BY <3>2, Starts
    <3>4. Len(B) + O < Start(rank2[n]) + 2 * BLOCK_DATA  BY <1>1, <3>1, <3>3
    <3>5. \E m \in r.bitmap : own2[m] = h /\ r.block[h].st_size < Start(rank2[m]) + 2 * BLOCK_DATA
      BY <2>8, <3>1, <3>4
    <3>6. QED  BY <1>0, <2>7, <2>8, <3>5, CoveredKept
  <2>14. ~r.astray  BY <1>8 DEF r
  <2>15. Wrote(c, own, rank, r, own2, rank2, h, O, B)
    BY <2>4, <2>7, <2>8, <2>9, <2>10, <2>11, <2>12, <2>13, <2>14 DEF Wrote, Image
  <2>16. QED  BY <2>6, <2>8, <2>15 DEF r, y, x, d, b
<1>9. CASE r.astray  BY <1>9 DEF y, x, d, b
<1>10. QED  BY <1>8, <1>9

\* What two changes in a row leave alone.
LEMMA KeptTwice ==
    ASSUME NEW d, NEW own, NEW rank, NEW c, NEW ownc, NEW rankc, NEW e, NEW own2, NEW rank2, NEW h,
           Kept(d, own, rank, c, ownc, rankc, h), Kept(c, ownc, rankc, e, own2, rank2, h)
    PROVE  Kept(d, own, rank, e, own2, rank2, h)
  BY DEF Kept

\* A loop that went astray stays where it is.
LEMMA Stuck ==
    ASSUME NEW name \in Name, NEW x \in WState, x.disk.astray, NEW k \in Nat
    PROVE  WriteLoop(name, x, k) = x
<1>1. PICK t : /\ t \in [0 .. k -> WState] /\ t[0] = x
               /\ \A i \in 1 .. k : t[i] = WriteRound(name, t[i - 1])
               /\ WriteLoop(name, x, k) = t[k]
  BY WriteRounds
<1> DEFINE I == {i \in 0 .. k : t[i] = x}
<1>2. 0 \in I  BY <1>1
<1>3. ASSUME NEW i \in 0 .. k - 1, i \in I PROVE i + 1 \in I
  <2>1. i + 1 \in 1 .. k /\ i + 1 - 1 = i /\ i + 1 \in 0 .. k  OBVIOUS
  <2>2. t[i + 1] = WriteRound(name, x)  BY <1>1, <1>3, <2>1
  <2>3. WriteRound(name, x) = x  BY OtherRounds
  <2>4. QED  BY <2>1, <2>2, <2>3
<1> HIDE DEF I
<1>4. \A i \in 0 .. k : i \in I  BY <1>2, <1>3, Inductive
<1>5. QED  BY <1>1, <1>4 DEF I

\* aofs_write_file writes to its file or to a new one, or goes astray.
LEMMA WriteIs ==
    ASSUME NEW d, NEW own, NEW rank, Image(d, own, rank), ~d.astray, NEW name \in Name,
           NEW B \in Seq(Byte), B # <<>>, NEW offset \in Nat
    PROVE  LET h == aofs_find_file_head(d, name)
               O == IF offset > d.block[h].st_size THEN d.block[h].st_size ELSE offset
               e == aofs_write_file(d, name, B, offset)
           IN  \/ e = GoAstray(d)
               \/ /\ h \in Heads(d, name) /\ Reached(d, own, rank, h, O)
                  /\ \E own2, rank2 : Wrote(d, own, rank, e, own2, rank2, h, O, B) /\ e.block[h].filename = name
               \/ /\ Heads(d, name) = {}
                  /\ \E n, own2, rank2 : /\ n \notin d.bitmap
                                         /\ Wrote(d, own, rank, e, own2, rank2, n, 0, B)
                                         /\ e.block[n].filename = name
<1> DEFINE h == aofs_find_file_head(d, name)
           c == IF h = -1 THEN aofs_create_file(d, name) ELSE [disk |-> d, num |-> h]
           b0 == read_block(c.disk, c.num)
           off == IF offset > b0.st_size THEN b0.st_size ELSE offset
           b  == [b0 EXCEPT !.st_size = Len(B) + off]
           x == [disk |-> write_block(c.disk, c.num, b), num |-> c.num, b |-> b, buf |-> B, off |-> off]
           y == WriteLoop(name, x, off + Len(B))
           e == aofs_write_file(d, name, B, offset)
<1>0. d \in DiskType /\ Placed(d, own, rank) /\ d.bitmap \subseteq BlockNum  BY DiskHas DEF Image
<1>1. e = IF y.disk.astray THEN GoAstray(d) ELSE y.disk
  BY Zenon DEF aofs_write_file, WriteLoop
<1>2. \/ h = -1 /\ Heads(d, name) = {}
      \/ h \in Heads(d, name) /\ h # -1
  BY <1>0, FindHeadIs
<1> HIDE DEF e
<1>3. CASE y.disk.astray
  <2>1. e = GoAstray(d)  BY <1>1, <1>3
  <2>2. QED  BY <2>1 DEF e
<1>4. CASE ~y.disk.astray /\ h # -1
  <2> DEFINE O == IF offset > d.block[h].st_size THEN d.block[h].st_size ELSE offset
             bh == [d.block[h] EXCEPT !.st_size = Len(B) + O]
             xh == [disk |-> write_block(d, h, bh), num |-> h, b |-> bh, buf |-> B, off |-> O]
             r == WriteLoop(name, xh, O + Len(B)).disk
  <2>1. h \in Heads(d, name) /\ h \in d.bitmap /\ d.block[h].head /\ d.block[h].filename = name
    BY <1>2, <1>4 DEF Heads
  <2>2. O \in Nat
    <3>1. d.block[h].st_size \in Nat  BY <1>0, <2>1, DiskHas
    <3>2. QED  BY <3>1
  <2>3. c.disk = d /\ c.num = h  BY <1>4
  <2>4. b0 = d.block[h]  BY <1>4, <2>3 DEF read_block
  <2> HIDE DEF c, b0, h
  <2>5. off = O  BY <2>4
  <2>6. y.disk = r  BY <2>3, <2>4, <2>5, Zenon
  <2> HIDE DEF O
  <2>7. \/ r.astray
        \/ /\ Reached(d, own, rank, h, O)
           /\ \E own2, rank2 : Wrote(d, own, rank, r, own2, rank2, h, O, B) /\ r.block[h].filename = d.block[h].filename
    BY <2>1, <2>2, WriteFromIs
  <2> HIDE DEF r, y
  <2>8. e = r /\ ~r.astray  BY <1>1, <1>4, <2>6
  <2>9. QED  BY <2>1, <2>7, <2>8 DEF e, O, h
<1>5. CASE ~y.disk.astray /\ h = -1
  <2> DEFINE a == aofs_create_file(d, name)
  <2>1. Heads(d, name) = {}
    <3>1. -1 \notin Heads(d, name)  BY <1>0, DiskHas DEF Heads
    <3>2. QED  BY <1>2, <1>5, <3>1
  <2>2. c = a  BY <1>5
  <2> HIDE DEF h, c, a
  <2>3. CASE a.num = -1 /\ a.disk = d
    <3>1. c.num = -1 /\ c.disk = d  BY <2>2, <2>3
    <3>2. b0 = clear_block  BY <3>1 DEF read_block
    <3> HIDE DEF b0
    <3>3. off = 0
      <4>1. b0.st_size = 0  BY <3>2, ClearIn
      <4>2. QED  BY <4>1
    <3> HIDE DEF off
    <3>4. b \in Block /\ Len(B) \in Nat
      <4>1. Len(B) + off \in Nat /\ Len(B) \in Nat  BY <3>3, LenProperties
      <4>2. QED  BY <3>2, <4>1, ClearIn DEF Block
    <3>5. x.disk = GoAstray(d)  BY <3>1 DEF write_block
    <3>6. GoAstray(d) \in DiskType /\ GoAstray(d).astray  BY <1>0 DEF GoAstray, DiskType
    <3>7. x \in WState /\ x.off = off /\ x.buf = B /\ x.disk.astray
      <4>1. x.num = -1 /\ x.b = b /\ x.buf = B /\ x.off = off  BY <3>1
      <4>2. QED  BY <3>3, <3>4, <3>5, <3>6, <4>1 DEF WState, Num
    <3> HIDE DEF x, b
    <3>8. y.disk.astray \/ \E own2, rank2 : Writing(d, own, rank, h, off, B, y, own2, rank2) /\ y.buf = <<>>
      <4>1. off \in Nat  BY <3>3
      <4>2. QED  BY <3>7, <4>1, WriteLoopIs
    <3>9. y.disk.astray
      <4> DEFINE k == off + Len(B)
      <4>1. k \in Nat  BY <3>3, <3>4
      <4>2. x \in WState /\ x.disk.astray  BY <3>7
      <4>3. y = WriteLoop(name, x, k)  OBVIOUS
      <4> HIDE DEF k, y
      <4>4. WriteLoop(name, x, k) = x  BY <4>1, <4>2, Stuck
      <4>5. QED  BY <4>2, <4>3, <4>4
    <3>10. QED  BY <1>5, <3>9
  <2>4. CASE /\ a.num \in BlockNum /\ a.num \notin d.bitmap /\ a.disk.astray = d.astray
             /\ a.disk.bitmap = d.bitmap \cup {a.num}
             /\ a.disk.block = [d.block EXCEPT ![a.num] = NewHead(name)]
             /\ Image(a.disk, With(own, a.num, a.num), With(rank, a.num, 0))
             /\ Kept(d, own, rank, a.disk, With(own, a.num, a.num), With(rank, a.num, 0), a.num)
    <3> DEFINE g == a.disk
               n == a.num
               ownc == With(own, n, n)
               rankc == With(rank, n, 0)
               O  == 0
               bn == [g.block[n] EXCEPT !.st_size = Len(B) + O]
               xn == [disk |-> write_block(g, n, bn), num |-> n, b |-> bn, buf |-> B, off |-> O]
               r == WriteLoop(name, xn, O + Len(B)).disk
    <3>1. n # -1 /\ n \in g.bitmap /\ g.block[n] = NewHead(name)
      <4>1. d.block \in [BlockNum -> Block] /\ -1 \notin BlockNum  BY <1>0, DiskHas
      <4>2. QED  BY <2>4, <4>1
    <3>2. g.block[n].head /\ g.block[n].filename = name /\ g.block[n].st_size = 0  BY <3>1, HeadIn
    <3>3. c.disk = g /\ c.num = n  BY <2>2
    <3>4. b0 = g.block[n]  BY <3>1, <3>3 DEF read_block
    <3>5. Image(g, ownc, rankc) /\ Kept(d, own, rank, g, ownc, rankc, n) /\ n \notin d.bitmap /\ n \in BlockNum  BY <2>4
    <3>6. ~g.astray  BY <2>4
    <3> HIDE DEF b0, g, n
    <3>7. off = 0
      <4>1. b0.st_size = 0  BY <3>2, <3>4
      <4>2. QED  BY <4>1
    <3> HIDE DEF off
    <3>8. y.disk = r
      <4>1. off = O  BY <3>7
      <4> HIDE DEF O
      <4>2. QED  BY <3>3, <3>4, <4>1, Zenon
    <3>0. O \in Nat /\ O \leq g.block[n].st_size  BY <3>2
    <3> HIDE DEF ownc, rankc, O
    <3>9. \/ r.astray
          \/ /\ Reached(g, ownc, rankc, n, O)
             /\ \E own2, rank2 : Wrote(g, ownc, rankc, r, own2, rank2, n, O, B) /\ r.block[n].filename = g.block[n].filename
      <4>1. n \in g.bitmap /\ g.block[n].head  BY <3>1, <3>2
      <4>2. Image(g, ownc, rankc)  BY <3>5
      <4>3. QED  BY <4>1, <4>2, <3>0, <3>6, WriteFromIs
    <3> HIDE DEF r, y
    <3>10. e = r /\ ~r.astray  BY <1>1, <1>5, <3>8
    <3>11. PICK own2, rank2 : Wrote(g, ownc, rankc, r, own2, rank2, n, 0, B) /\ r.block[n].filename = name
      BY <3>2, <3>9, <3>10 DEF O
    <3>12. Wrote(d, own, rank, r, own2, rank2, n, 0, B)
      <4>1. Kept(d, own, rank, r, own2, rank2, n)  BY <3>5, <3>11, KeptTwice DEF Wrote
      <4>2. \A m \in d.bitmap : own[m] # n  BY <1>0, <3>5 DEF Placed
      <4>3. WData(d, r, own2, rank2, n, 0, B, Len(B))
        <5>1. Placed(r, own2, rank2) /\ WData(g, r, own2, rank2, n, 0, B, Len(B))  BY <3>11 DEF Wrote, Image
        <5>2. ASSUME NEW m \in r.bitmap, NEW j \in 0 .. BLOCK_DATA - 1 PROVE ~(Start(rank2[m]) + j < 0)
          <6>1. rank2[m] \in Nat  BY <5>1 DEF Placed
          <6>2. Start(rank2[m]) \in Nat  BY <6>1, Starts
          <6>3. QED  BY <6>2
        <5>3. QED  BY <5>1, <5>2 DEF WData
      <4>4. QED  BY <3>11, <4>1, <4>2, <4>3 DEF Wrote
    <3>13. QED  BY <2>1, <3>5, <3>10, <3>11, <3>12 DEF e
  <2>5. QED  BY <2>1, <2>3, <2>4, CreateIs DEF a
<1>6. QED  BY <1>3, <1>4, <1>5

-----------------------------------------------------------------------------
(* The invariant.                                                          *)

\* Every block has its place, whatever the handlers did.
Sound == \E own, rank : Image(disk, own, rank)

\* A block that is stored as it was read changes nothing.
LEMMA Restored ==
    ASSUME NEW d \in DiskType, NEW n \in BlockNum
    PROVE  write_block(d, n, read_block(d, n)) = d
<1>1. d.block \in [BlockNum -> Block] /\ n # -1  BY DiskHas
<1>2. write_block(d, n, read_block(d, n)) = [d EXCEPT !.block[n] = d.block[n]]  BY <1>1 DEF write_block, read_block
<1>3. [d.block EXCEPT ![n] = d.block[n]] = d.block  BY <1>1
<1>4. [d EXCEPT !.block[n] = d.block[n]] = d  BY <1>3 DEF DiskType
<1>5. QED  BY <1>2, <1>4

\* Going astray leaves the image alone.
LEMMA AstrayImage ==
    ASSUME NEW d, NEW own, NEW rank, Image(d, own, rank)
    PROVE  Image(GoAstray(d), own, rank)
<1> DEFINE e == GoAstray(d)
<1>1. d \in DiskType /\ Placed(d, own, rank) /\ OneHead(d) /\ Covered(d, own, rank)  BY DEF Image
<1>2. e \in DiskType /\ e.bitmap = d.bitmap /\ e.block = d.block  BY <1>1 DEF GoAstray, DiskType
<1> HIDE DEF e
<1>3. \A n \in d.bitmap : SameLink(d, e, n)  BY <1>2 DEF SameLink
<1>4. Placed(e, own, rank)  BY <1>1, <1>2, <1>3, PlacedSame
<1>5. OneHead(e)  BY <1>1, <1>2 DEF OneHead
<1>6. Covered(e, own, rank)  BY <1>1, <1>2 DEF Covered
<1>7. Image(e, own, rank)  BY <1>2, <1>4, <1>5, <1>6 DEF Image
<1>8. QED  BY <1>7 DEF e

\* The image that init_disk.c makes.
LEMMA EmptyImage == Image(init_fs, [n \in {} |-> n], [n \in {} |-> 0])
<1> DEFINE d == init_fs
<1>1. d \in DiskType /\ d.bitmap = {}  BY ClearIn DEF init_fs, DiskType
<1> HIDE DEF d
<1>2. Placed(d, [n \in {} |-> n], [n \in {} |-> 0])  BY <1>1 DEF Placed
<1>3. OneHead(d) /\ Covered(d, [n \in {} |-> n], [n \in {} |-> 0])  BY <1>1 DEF OneHead, Covered
<1>4. Image(d, [n \in {} |-> n], [n \in {} |-> 0])  BY <1>1, <1>2, <1>3 DEF Image
<1>5. QED  BY <1>4 DEF d

\* A file exists when a head carries its name.
LEMMA ExistsIs ==
    ASSUME disk \in DiskType, NEW name
    PROVE  Exists(name) <=> Heads(disk, name) # {}
<1> DEFINE h == aofs_find_file_head(disk, name)
<1>1. \/ h = -1 /\ Heads(disk, name) = {}
      \/ h \in Heads(disk, name) /\ h # -1
  BY FindHeadIs
<1>2. aofs_getattr(name) = IF h = -1 THEN -2 ELSE disk.block[h].st_size  BY DEF aofs_getattr, ENOENT
<1> HIDE DEF h
<1>3. CASE h = -1
  BY <1>1, <1>2, <1>3 DEF Exists, ENOENT
<1>4. CASE h # -1
  <2>1. h \in disk.bitmap  BY <1>1, <1>4 DEF Heads
  <2>2. disk.block[h].st_size \in Nat  BY <2>1, DiskHas
  <2>3. disk.block[h].st_size # -2  BY <2>2
  <2>4. QED  BY <1>1, <1>2, <1>4, <2>3 DEF Exists, ENOENT
<1>5. QED  BY <1>3, <1>4

\* Buffers are non-empty sequences of bytes.
LEMMA BufferIs == ASSUME NEW B \in Buffer PROVE B \in Seq(Byte) /\ B # <<>>
<1>1. PICK k \in 1 .. MaxLen : B \in [1 .. k -> Byte]  BY DEF Buffer
<1>2. k \in Nat /\ k # 0  BY <1>1, AOFSAssumption
<1>3. B \in Seq(Byte) /\ Len(B) = k  BY <1>1, <1>2
<1>4. QED  BY <1>2, <1>3

\* The parts of an image that the handlers use.
LEMMA ImageHas ==
    ASSUME NEW d, NEW own, NEW rank, Image(d, own, rank)
    PROVE  d \in DiskType /\ d.bitmap \subseteq BlockNum
  BY DiskHas DEF Image

\* utimens, chown and read write back the head that they read.
LEMMA HeadWritten ==
    ASSUME NEW d, NEW own, NEW rank, Image(d, own, rank), NEW name
    PROVE  LET h == aofs_find_file_head(d, name) IN h = -1 \/ write_block(d, h, read_block(d, h)) = d
<1> DEFINE h == aofs_find_file_head(d, name)
<1>1. d \in DiskType /\ d.bitmap \subseteq BlockNum  BY ImageHas
<1>2. h = -1 \/ h \in Heads(d, name)  BY <1>1, FindHeadIs
<1> HIDE DEF h
<1>3. h = -1 \/ h \in BlockNum  BY <1>1, <1>2 DEF Heads
<1>4. h = -1 \/ write_block(d, h, read_block(d, h)) = d  BY <1>1, <1>3, Restored
<1>5. QED  BY <1>4 DEF h

\* Every handler keeps the invariant.
LEMMA SoundStep ==
    ASSUME Sound, [Next]_vars
    PROVE  Sound'
<1>1. PICK own, rank : Image(disk, own, rank)  BY DEF Sound
<1>2. disk \in DiskType  BY <1>1, ImageHas
<1>3. ASSUME disk' = disk PROVE Sound'  BY <1>1, <1>3 DEF Sound
<1>4. ASSUME NEW name \in Name, aofs_create(name) PROVE Sound'
  <2>1. Heads(disk, name) = {}  BY <1>2, <1>4, ExistsIs DEF aofs_create
  <2>2. disk' = aofs_create_file(disk, name).disk  BY <1>4 DEF aofs_create
  <2>3. CASE aofs_create_file(disk, name).disk = disk  BY <1>3, <2>2, <2>3
  <2>4. CASE \E own2, rank2 : Image(aofs_create_file(disk, name).disk, own2, rank2)
    BY <2>2, <2>4 DEF Sound
  <2>5. QED  BY <1>1, <2>1, <2>3, <2>4, CreateIs
<1>5. ASSUME NEW name \in Name, NEW B \in Buffer, NEW offset \in 0 .. MaxSize, aofs_write(name, B, offset)
      PROVE  Sound'
  <2> DEFINE e == aofs_write_file(disk, name, B, offset)
  <2>1. ~disk.astray /\ disk' = e  BY <1>5 DEF aofs_write
  <2>2. B \in Seq(Byte) /\ B # <<>> /\ offset \in Nat  BY BufferIs, AOFSAssumption
  <2>3. \/ e = GoAstray(disk)
        \/ \E h, O, own2, rank2 : Wrote(disk, own, rank, e, own2, rank2, h, O, B)
    BY <1>1, <2>1, <2>2, WriteIs
  <2> HIDE DEF e
  <2>4. CASE e = GoAstray(disk)  BY <1>1, <2>1, <2>4, AstrayImage DEF Sound
  <2>5. CASE e # GoAstray(disk)  BY <2>1, <2>3, <2>5 DEF Sound, Wrote
  <2>6. QED  BY <2>4, <2>5
<1>6. ASSUME NEW name \in Name, aofs_unlink(name) PROVE Sound'
  <2> DEFINE h == aofs_find_file_head(disk, name)
  <2>1. h = -1 \/ (h \in Heads(disk, name) /\ h # -1)  BY <1>2, FindHeadIs
  <2>2. disk' = IF h = -1 THEN disk ELSE delete_chain(disk, h)  BY <1>6 DEF aofs_unlink, aofs_delete_file
  <2> HIDE DEF h
  <2>3. CASE h = -1  BY <1>3, <2>2, <2>3
  <2>4. CASE h # -1
    <3>1. h \in disk.bitmap /\ disk.block[h].head  BY <2>1, <2>4 DEF Heads
    <3>2. \E own2, rank2 : Image(delete_chain(disk, h), own2, rank2)  BY <1>1, <3>1, UnlinkIs
    <3>3. QED  BY <2>2, <2>4, <3>2 DEF Sound
  <2>5. QED  BY <2>3, <2>4
<1>7. ASSUME NEW name \in Name, NEW size \in 0 .. MaxSize, aofs_truncate(name, size) PROVE Sound'
  <2> DEFINE e == aofs_truncate_file(disk, name, size)
  <2>1. ~disk.astray /\ disk' = e  BY <1>7 DEF aofs_truncate
  <2>2. size \in Nat  BY AOFSAssumption
  <2>3. e = disk \/ \E h, own2, rank2 : Resized(disk, own, rank, e, own2, rank2, h, size)
    BY <1>1, <2>1, <2>2, TruncateIs
  <2> HIDE DEF e
  <2>4. CASE e = disk  BY <1>3, <2>1, <2>4
  <2>5. CASE e # disk  BY <2>1, <2>3, <2>5 DEF Sound, Resized
  <2>6. QED  BY <2>4, <2>5
<1>8. ASSUME NEW name \in Name, aofs_read(name) PROVE Sound'
  <2>1. disk' = disk  BY <1>1, <1>8, HeadWritten DEF aofs_read
  <2>2. QED  BY <1>3, <2>1
<1>9. ASSUME NEW name \in Name, Exists(name), aofs_utimens(name) PROVE Sound'
  <2>1. aofs_find_file_head(disk, name) # -1  BY <1>9 DEF Exists, aofs_getattr
  <2>2. disk' = disk  BY <1>1, <1>9, <2>1, HeadWritten DEF aofs_utimens
  <2>3. QED  BY <1>3, <2>2
<1>10. CASE Next  BY <1>3, <1>4, <1>5, <1>6, <1>7, <1>8, <1>9, <1>10 DEF Next, aofs_release
<1>11. QED  BY <1>3, <1>10 DEF vars

\* The invariant: see Image.
THEOREM ImageSound == Spec => []Sound
<1>1. Init => Sound  BY EmptyImage DEF Init, Sound
<1>2. Sound /\ [Next]_vars => Sound'  BY SoundStep
<1>3. QED  BY <1>1, <1>2, PTL DEF Spec

\* Whatever the handlers do, and also after one went astray, the image is a
\* bitmap over the blocks and blocks with links to blocks (all of aofs.c).
THEOREM Typed == Spec => []TypeOK
<1>1. Sound => TypeOK  BY ImageHas DEF Sound, TypeOK, DiskType
<1>2. QED  BY <1>1, ImageSound, PTL

\* For every number of blocks and every set of names, no two heads carry one
\* name (aofs_create_file, aofs_find_file_head, readdir).
THEOREM OneHeadPerName == Spec => []ReaddirListsEachFileOnce
<1>1. Sound => ReaddirListsEachFileOnce
  BY DEF Sound, Image, OneHead, ReaddirListsEachFileOnce, aofs_readdir, IsInjective
<1>2. QED  BY <1>1, ImageSound, PTL

\* A truncation never uses block number -1, for every disk size, block size and
\* truncation size (aofs_truncate_file).
THEOREM TruncationKeepsToTheChain == Spec => []TruncateKeepsToTheChain
<1>1. Sound => TruncateKeepsToTheChain
  <2>1. SUFFICES ASSUME Sound, ~disk.astray, NEW name \in Name, NEW size \in 0 .. MaxSize
                 PROVE  ~aofs_truncate_file(disk, name, size).astray
    BY DEF TruncateKeepsToTheChain
  <2>2. PICK own, rank : Image(disk, own, rank)  BY <2>1 DEF Sound
  <2>3. size \in Nat  BY AOFSAssumption
  <2> DEFINE e == aofs_truncate_file(disk, name, size)
  <2>4. e = disk \/ \E h, own2, rank2 : Resized(disk, own, rank, e, own2, rank2, h, size)
    BY <2>1, <2>2, <2>3, TruncateIs
  <2> HIDE DEF e
  <2>5. ~e.astray  BY <2>1, <2>4 DEF Resized
  <2>6. QED  BY <2>5 DEF e
<1>2. QED  BY <1>1, ImageSound, PTL

-----------------------------------------------------------------------------
(* Chains as sequences.                                                    *)

\* c lists the blocks of the file of h by their rank.
Lists(d, own, rank, h, c) ==
    /\ c \in Seq(d.bitmap)
    /\ \A k \in 1 .. Len(c) : own[c[k]] = h /\ rank[c[k]] = k - 1
    /\ \A n \in d.bitmap : own[n] = h => rank[n] + 1 \in 1 .. Len(c) /\ c[rank[n] + 1] = n

\* Chain lists the blocks of a file in the order of their links.
LEMMA ChainLists ==
    ASSUME NEW d \in DiskType, NEW own, NEW rank, Placed(d, own, rank), NEW h \in d.bitmap, own[h] = h
    PROVE  Lists(d, own, rank, h, Chain(d, h)) /\ Len(Chain(d, h)) <= BLOCK_NUM
<1> DEFINE K == {k \in 0 .. BLOCK_NUM : Seek(d, h, k) # -1}
           c == Chain(d, h)
<1>1. PICK m \in d.bitmap : own[m] = h /\ d.block[m].next = -1  BY LastExists
<1>2. rank[m] \in Nat /\ rank[h] = 0 /\ \A n \in d.bitmap : own[n] \in d.bitmap /\ rank[n] \in Nat
  BY <1>1 DEF Placed
<1>3. rank[m] <= BLOCK_NUM - 1  BY <1>1, RankBound
<1>4. Links(d) /\ h \in Num /\ m \in Num /\ -1 \notin d.bitmap  BY <1>1, DiskHas DEF Num
<1> DEFINE r == rank[m]
<1>5. r \in Nat /\ r + 1 \in Nat /\ r + 1 <= BLOCK_NUM  BY <1>2, <1>3, AOFSAssumption
<1>6. ASSUME NEW i \in 0 .. r
      PROVE  LET n == Seek(d, h, i) IN n \in d.bitmap /\ own[n] = h /\ rank[n] = i
  BY <1>1, NoGaps
<1> HIDE DEF r
<1>7. Seek(d, h, r + 1) = -1
  <2>1. Seek(d, h, r) \in d.bitmap /\ own[Seek(d, h, r)] = h /\ rank[Seek(d, h, r)] = r
    BY <1>5, <1>6
  <2>2. Seek(d, h, r) = m  BY <1>1, <2>1 DEF Placed, r
  <2>3. Seek(d, h, r + 1) = Follow(d, m)  BY <1>4, <1>5, <2>2, SeekSteps
  <2>4. m # -1  BY <1>1, <1>4
  <2>5. QED  BY <1>1, <2>3, <2>4 DEF Follow
<1>8. K = 0 .. r
  <2>1. ASSUME NEW k \in 0 .. BLOCK_NUM PROVE Seek(d, h, k) # -1 <=> k <= r
    <3>1. CASE k <= r
      <4>1. k \in 0 .. r  BY <1>5, <3>1
      <4>2. Seek(d, h, k) \in d.bitmap  BY <1>6, <4>1
      <4>3. QED  BY <1>4, <3>1, <4>2
    <3>2. CASE ~(k <= r)
      <4>1. k \in Nat /\ r + 1 <= k  BY <1>5, <3>2
      <4>2. Seek(d, h, k) = -1  BY <1>4, <1>5, <1>7, <4>1, SeekEnds
      <4>3. QED  BY <3>2, <4>2
    <3>3. QED  BY <3>1, <3>2
  <2>2. QED  BY <1>5, <2>1, AOFSAssumption
<1>9. Cardinality(0 .. r) = r + 1
  <2>1. 0 \in Int /\ r \in Int /\ ~(0 > r)  BY <1>5
  <2>2. Cardinality(0 .. r) = r - 0 + 1  BY <2>1, FS_Interval
  <2>3. QED  BY <1>5, <2>2
<1>10. ChainLen(d, h) = r + 1  BY <1>8, <1>9 DEF ChainLen
<1> HIDE DEF K
<1>11. c = [k \in 1 .. r + 1 |-> Seek(d, h, k - 1)]  BY <1>10 DEF Chain
<1> HIDE DEF c
<1>12. ASSUME NEW k \in 1 .. r + 1
       PROVE  c[k] \in d.bitmap /\ own[c[k]] = h /\ rank[c[k]] = k - 1
  <2>1. k - 1 \in 0 .. r /\ c[k] = Seek(d, h, k - 1)  BY <1>5, <1>11
  <2>2. QED  BY <1>6, <2>1
<1>13. c \in [1 .. r + 1 -> d.bitmap]  BY <1>11, <1>12
<1>14. c \in Seq(d.bitmap) /\ Len(c) = r + 1  BY <1>5, <1>13
<1>15. ASSUME NEW n \in d.bitmap, own[n] = h
       PROVE  rank[n] + 1 \in 1 .. r + 1 /\ c[rank[n] + 1] = n
  <2>1. rank[n] \in Nat /\ rank[n] <= r  BY <1>1, <1>2, <1>15, LastIsLast DEF r
  <2>2. rank[n] + 1 \in 1 .. r + 1 /\ (rank[n] + 1) - 1 = rank[n]  BY <1>5, <2>1
  <2>3. c[rank[n] + 1] \in d.bitmap /\ own[c[rank[n] + 1]] = h /\ rank[c[rank[n] + 1]] = rank[n]
    BY <1>12, <2>2
  <2>4. QED  BY <1>15, <2>2, <2>3 DEF Placed
<1>16. Lists(d, own, rank, h, c)  BY <1>12, <1>14, <1>15 DEF Lists
<1>17. QED  BY <1>5, <1>14, <1>16 DEF c

\* The heads are the blocks at the head of their own chain.
LEMMA HeadOwns ==
    ASSUME NEW d, NEW own, NEW rank, Placed(d, own, rank), NEW h \in d.bitmap
    PROVE  d.block[h].head <=> own[h] = h
<1>1. rank[own[h]] = 0 /\ (d.block[h].head <=> rank[h] = 0) /\ (rank[h] = 0 => own[h] = h)  BY DEF Placed
<1>2. QED  BY <1>1

\* A chain has a block for every full block of its file's size, for every disk and
\* block size (the handlers that store a size: aofs_write_file, aofs_truncate_file).
THEOREM FullBlocksCovered == Spec => []ChainCoversFullBlocks
<1>1. Sound => ChainCoversFullBlocks
  <2>1. SUFFICES ASSUME Sound, NEW h \in disk.bitmap, disk.block[h].head
                 PROVE  Len(Chain(disk, h)) >= disk.block[h].st_size \div BLOCK_DATA
    BY DEF ChainCoversFullBlocks, HeadBlocks
  <2>2. PICK own, rank : Image(disk, own, rank)  BY <2>1 DEF Sound
  <2>3. disk \in DiskType /\ Placed(disk, own, rank) /\ Covered(disk, own, rank)  BY <2>2 DEF Image
  <2>4. own[h] = h  BY <2>1, <2>3, HeadOwns
  <2> DEFINE c == Chain(disk, h)
             size == disk.block[h].st_size
  <2>5. Lists(disk, own, rank, h, c)  BY <2>3, <2>4, ChainLists
  <2> HIDE DEF c
  <2>6. PICK n \in disk.bitmap : own[n] = h /\ size < Start(rank[n]) + 2 * BLOCK_DATA
    BY <2>1, <2>3 DEF Covered
  <2>7. Len(c) \in Nat /\ rank[n] \in Nat /\ rank[n] + 1 <= Len(c)
    <3>1. rank[n] \in Nat  BY <2>3 DEF Placed
    <3>2. c \in Seq(disk.bitmap) /\ rank[n] + 1 \in 1 .. Len(c)  BY <2>5, <2>6 DEF Lists
    <3>3. QED  BY <3>1, <3>2
  <2>8. size \in Nat  BY <2>1, <2>3, DiskHas
  <2> HIDE DEF size
  <2> DEFINE q == size \div BLOCK_DATA
  <2>9. q \in Nat /\ size % BLOCK_DATA \in 0 .. BLOCK_DATA - 1 /\ size = Start(q) + (size % BLOCK_DATA)
    BY <2>8, Bytes
  <2> HIDE DEF q
  <2>10. Start(rank[n] + 2) = Start(rank[n]) + 2 * BLOCK_DATA /\ Start(rank[n]) \in Nat /\ Start(rank[n] + 2) \in Nat
    <3>1. rank[n] + 1 \in Nat /\ (rank[n] + 1) + 1 = rank[n] + 2 /\ rank[n] + 2 \in Nat  BY <2>7
    <3>2. Start(rank[n] + 1) = Start(rank[n]) + BLOCK_DATA /\ Start(rank[n]) \in Nat  BY <2>7, Starts
    <3>3. Start((rank[n] + 1) + 1) = Start(rank[n] + 1) + BLOCK_DATA  BY <3>1, Starts
    <3>4. Start(rank[n] + 2) \in Nat  BY <3>1, Starts
    <3>5. QED  BY <3>1, <3>2, <3>3, <3>4, AOFSAssumption
  <2>11. Start(q) \in Nat  BY <2>9, Starts
  <2>12. Start(q) < Start(rank[n] + 2)  BY <2>6, <2>8, <2>9, <2>10, <2>11, AOFSAssumption
  <2>13. q < rank[n] + 2
    <3>1. rank[n] + 2 \in Nat  BY <2>7
    <3>2. QED  BY <2>9, <2>12, <3>1, StartsLess
  <2>14. Len(c) >= q  BY <2>7, <2>9, <2>13
  <2>15. QED  BY <2>14 DEF c, q, size
<1>2. QED  BY <1>1, ImageSound, PTL

\* Every allocated block is at one place on the chain of one file, and chains
\* hold allocated blocks only, for every disk and every sequence of handlers
\* (allocate_block, deallocate_block, delete_chain and the loops that link).
THEOREM ChainsPartition == Spec => []ChainsPartitionBitmap
<1>1. Sound => ChainsPartitionBitmap
  <2>1. SUFFICES ASSUME Sound PROVE ChainsPartitionBitmap  OBVIOUS
  <2>2. PICK own, rank : Image(disk, own, rank)  BY <2>1 DEF Sound
  <2>3. disk \in DiskType /\ Placed(disk, own, rank)  BY <2>2 DEF Image
  <2>4. ASSUME NEW h \in HeadBlocks(disk)
        PROVE  /\ h \in disk.bitmap /\ own[h] = h
               /\ Lists(disk, own, rank, h, Chain(disk, h)) /\ Len(Chain(disk, h)) <= BLOCK_NUM
    <3>1. h \in disk.bitmap /\ disk.block[h].head  BY DEF HeadBlocks
    <3>2. own[h] = h  BY <2>3, <3>1, HeadOwns
    <3>3. QED  BY <2>3, <3>1, <3>2, ChainLists
  <2>5. ASSUME NEW h \in HeadBlocks(disk) PROVE Range(Chain(disk, h)) \subseteq disk.bitmap
    <3>1. Chain(disk, h) \in Seq(disk.bitmap)  BY <2>4 DEF Lists
    <3> DEFINE c == Chain(disk, h)
    <3> HIDE DEF c
    <3>2. c \in Seq(disk.bitmap)  BY <3>1 DEF c
    <3>3. Range(c) \subseteq disk.bitmap  BY <3>2 DEF Range
    <3>4. QED  BY <3>3 DEF c
  <2>6. ASSUME NEW n \in disk.bitmap
        PROVE  Cardinality({at \in HeadBlocks(disk) \X (1 .. BLOCK_NUM + 1) :
                               at[2] <= Len(Chain(disk, at[1])) /\ Chain(disk, at[1])[at[2]] = n}) = 1
    <3> DEFINE A == {at \in HeadBlocks(disk) \X (1 .. BLOCK_NUM + 1) :
                        at[2] <= Len(Chain(disk, at[1])) /\ Chain(disk, at[1])[at[2]] = n}
               at0 == <<own[n], rank[n] + 1>>
    <3>1. own[n] \in disk.bitmap /\ rank[own[n]] = 0 /\ rank[n] \in Nat  BY <2>3 DEF Placed
    <3>2. own[n] \in HeadBlocks(disk)  BY <2>3, <3>1 DEF HeadBlocks, Placed
    <3>3. /\ Lists(disk, own, rank, own[n], Chain(disk, own[n])) /\ Len(Chain(disk, own[n])) <= BLOCK_NUM
          /\ Chain(disk, own[n]) \in Seq(disk.bitmap)
      BY <2>4, <3>2 DEF Lists
    <3>4. rank[n] + 1 \in 1 .. Len(Chain(disk, own[n])) /\ Chain(disk, own[n])[rank[n] + 1] = n
      BY <3>3 DEF Lists
    <3>5. rank[n] + 1 \in 1 .. BLOCK_NUM + 1 /\ rank[n] + 1 <= Len(Chain(disk, own[n]))
      <4>1. Len(Chain(disk, own[n])) \in Nat  BY <3>3, LenProperties
      <4>2. QED  BY <3>1, <3>3, <3>4, <4>1, AOFSAssumption
    <3>6. at0 \in A  BY <3>2, <3>4, <3>5
    <3>7. ASSUME NEW h \in HeadBlocks(disk), NEW k \in 1 .. BLOCK_NUM + 1,
                 k <= Len(Chain(disk, h)), Chain(disk, h)[k] = n
          PROVE  h = own[n] /\ k = rank[n] + 1
      <4>1. Lists(disk, own, rank, h, Chain(disk, h))  BY <2>4
      <4>2. k \in 1 .. Len(Chain(disk, h))
        <5>1. Len(Chain(disk, h)) \in Nat  BY <4>1, LenProperties DEF Lists
        <5>2. QED  BY <3>7, <5>1
      <4>3. own[n] = h /\ rank[n] = k - 1  BY <3>7, <4>1, <4>2 DEF Lists
      <4>4. QED  BY <3>1, <4>3
    <3>8. A = {at0}
      <4>1. ASSUME NEW at \in A PROVE at = at0
        <5>1. /\ at = <<at[1], at[2]>> /\ at[1] \in HeadBlocks(disk) /\ at[2] \in 1 .. BLOCK_NUM + 1
              /\ at[2] <= Len(Chain(disk, at[1])) /\ Chain(disk, at[1])[at[2]] = n
          OBVIOUS
        <5>2. at[1] = own[n] /\ at[2] = rank[n] + 1  BY <3>7, <5>1
        <5>3. QED  BY <5>1, <5>2
      <4>2. QED  BY <3>6, <4>1
    <3> HIDE DEF A, at0
    <3>9. Cardinality(A) = 1  BY <3>8, FS_Singleton
    <3>10. QED  BY <3>9 DEF A
  <2>7. QED  BY <2>5, <2>6 DEF ChainsPartitionBitmap
<1>2. QED  BY <1>1, ImageSound, PTL

-----------------------------------------------------------------------------
(* Contents.                                                               *)

LEMMA MinTwo == ASSUME NEW a \in Nat, NEW b \in Nat PROVE Min({a, b}) = IF a <= b THEN a ELSE b
  BY DEF Min

\* w is what the blocks of the file of h hold, in the order of their ranks.
Holds(d, own, rank, h, w) ==
    /\ w \in Seq(Byte \cup {0})
    /\ \A q \in 0 .. Len(w) - 1 : \E n \in d.bitmap, j \in 0 .. BLOCK_DATA - 1 :
          own[n] = h /\ q = Start(rank[n]) + j
    /\ \A n \in d.bitmap, j \in 0 .. BLOCK_DATA - 1 :
          own[n] = h /\ Start(rank[n]) + j < Len(w) => w[Start(rank[n]) + j + 1] = d.block[n].data[j]

\* ChainBytes is what the blocks of a file hold, up to the end of each block.
LEMMA ChainBytesAre ==
    ASSUME NEW d \in DiskType, NEW own, NEW rank, Placed(d, own, rank), NEW h \in d.bitmap, own[h] = h
    PROVE  LET w == ChainBytes(d, h)
           IN  /\ Holds(d, own, rank, h, w)
               /\ \A n \in d.bitmap : own[n] = h => Start(rank[n]) + BLOCK_DATA <= Len(w)
<1> DEFINE c == Chain(d, h)
           w == ChainBytes(d, h)
<1>1. Lists(d, own, rank, h, c)  BY ChainLists
<1>2. w = [p \in 1 .. BLOCK_DATA * Len(c) |->
              d.block[c[(p - 1) \div BLOCK_DATA + 1]].data[(p - 1) % BLOCK_DATA]]
  BY DEF ChainBytes
<1> HIDE DEF c, w
<1> DEFINE L == Len(c)
<1>3. L \in Nat /\ c \in Seq(d.bitmap)  BY <1>1, LenProperties DEF Lists
<1>4. \A n \in d.bitmap : rank[n] \in Nat /\ n \in BlockNum  BY DiskHas DEF Placed
<1>5. Start(L) \in Nat /\ BLOCK_DATA * L = Start(L)
  <2>1. Start(L) \in Nat  BY <1>3, Starts
  <2>2. QED  BY <1>3, <2>1, AOFSAssumption DEF Start
<1>6. ASSUME NEW q \in 0 .. Start(L) - 1
      PROVE  LET n == c[q \div BLOCK_DATA + 1]
                 j == q % BLOCK_DATA
             IN  /\ n \in d.bitmap /\ own[n] = h /\ j \in 0 .. BLOCK_DATA - 1
                 /\ q = Start(rank[n]) + j /\ w[q + 1] = d.block[n].data[j]
                 /\ d.block[n].data[j] \in Byte \cup {0}
  <2> DEFINE r == q \div BLOCK_DATA
             j == q % BLOCK_DATA
  <2>1. q \in Nat /\ q < Start(L)  BY <1>5
  <2>2. r \in Nat /\ j \in 0 .. BLOCK_DATA - 1 /\ q = Start(r) + j  BY <2>1, Bytes
  <2>3. w[q + 1] = d.block[c[r + 1]].data[j]
    <3>1. q + 1 \in 1 .. BLOCK_DATA * Len(c)  BY <1>5, <2>1
    <3>2. (q + 1) - 1 = q  BY <2>1
    <3>3. QED  BY <1>2, <3>1, <3>2
  <2> HIDE DEF r, j, L
  <2>4. Start(r) \in Nat  BY <2>2, Starts
  <2>5. r < L
    <3>1. j \in Nat  BY <2>2, AOFSAssumption
    <3>2. Start(r) < Start(L)  BY <1>5, <2>1, <2>2, <2>4, <3>1
    <3>3. QED  BY <1>3, <2>2, <3>2, StartsLess
  <2>6. r + 1 \in 1 .. L /\ (r + 1) - 1 = r  BY <1>3, <2>2, <2>5
  <2>7. c[r + 1] \in d.bitmap /\ own[c[r + 1]] = h /\ rank[c[r + 1]] = r
    <3>1. c[r + 1] \in d.bitmap  BY <1>3, <2>6, ElementOfSeq DEF L
    <3>2. QED  BY <1>1, <2>6, <3>1 DEF Lists, L
  <2>8. d.block[c[r + 1]].data[j] \in Byte \cup {0}
    <3>1. d.block[c[r + 1]].data \in [0 .. BLOCK_DATA - 1 -> Byte \cup {0}]  BY <1>4, <2>7, DiskHas
    <3>2. QED  BY <2>2, <3>1
  <2>9. QED  BY <2>2, <2>3, <2>7, <2>8 DEF r, j
<1> HIDE DEF L
<1>7. w \in [1 .. Start(L) -> Byte \cup {0}]
  <2>1. DOMAIN w = 1 .. Start(L) /\ w = [p \in 1 .. Start(L) |-> w[p]]  BY <1>2, <1>5 DEF L
  <2>2. ASSUME NEW p \in 1 .. Start(L) PROVE w[p] \in Byte \cup {0}
    <3>1. p - 1 \in 0 .. Start(L) - 1 /\ (p - 1) + 1 = p  BY <1>5
    <3>2. QED  BY <1>6, <3>1
  <2>3. QED  BY <2>1, <2>2
<1>8. w \in Seq(Byte \cup {0}) /\ Len(w) = Start(L)  BY <1>5, <1>7
<1>9. ASSUME NEW n \in d.bitmap, own[n] = h
      PROVE  Start(rank[n]) \in Nat /\ Start(rank[n]) + BLOCK_DATA <= Start(L)
  <2>1. rank[n] + 1 \in 1 .. L  BY <1>1, <1>9 DEF Lists, L
  <2>2. rank[n] \in Nat /\ rank[n] < L  BY <1>3, <1>4, <2>1
  <2>3. QED  BY <1>3, <2>2, Starts
<1>10. ASSUME NEW n \in d.bitmap, NEW j \in 0 .. BLOCK_DATA - 1, own[n] = h
       PROVE  w[Start(rank[n]) + j + 1] = d.block[n].data[j]
  <2> DEFINE q == Start(rank[n]) + j
  <2>1. q \in 0 .. Start(L) - 1  BY <1>5, <1>9, <1>10, AOFSAssumption
  <2>2. q \div BLOCK_DATA = rank[n] /\ q % BLOCK_DATA = j  BY <1>4, ByteOf
  <2>3. c[rank[n] + 1] = n  BY <1>1, <1>10 DEF Lists
  <2> HIDE DEF q
  <2>4. w[q + 1] = d.block[n].data[j]  BY <1>6, <2>1, <2>2, <2>3
  <2>5. QED  BY <2>4 DEF q
<1>11. \A q \in 0 .. Len(w) - 1 : \E n \in d.bitmap, j \in 0 .. BLOCK_DATA - 1 :
          own[n] = h /\ q = Start(rank[n]) + j
  BY <1>6, <1>8
<1>12. Holds(d, own, rank, h, w)  BY <1>8, <1>10, <1>11 DEF Holds
<1>13. QED  BY <1>8, <1>9, <1>12 DEF w

\* w is the file of h: what its blocks hold inside its size.
FileIs(d, own, rank, h, w) ==
    /\ Holds(d, own, rank, h, w)
    /\ Len(w) <= d.block[h].st_size
    /\ Len(w) < d.block[h].st_size => \A n \in d.bitmap : own[n] = h => Start(rank[n]) + BLOCK_DATA <= Len(w)

\* Contents is the file of a head.
LEMMA ContentsAre ==
    ASSUME NEW d \in DiskType, NEW own, NEW rank, Placed(d, own, rank), NEW h \in d.bitmap, own[h] = h
    PROVE  FileIs(d, own, rank, h, Contents(d, h))
<1> DEFINE w == ChainBytes(d, h)
           size == d.block[h].st_size
           L == IF size <= Len(w) THEN size ELSE Len(w)
           v == SubSeq(w, 1, L)
<1>1. Holds(d, own, rank, h, w)  BY ChainBytesAre
<1>2. \A n \in d.bitmap : own[n] = h => Start(rank[n]) + BLOCK_DATA <= Len(w)  BY ChainBytesAre
<1>3. size \in Nat  BY DiskHas
<1>4. Contents(d, h) = SubSeq(w, 1, Min({size, Len(w)}))  BY DEF Contents
<1> HIDE DEF w, size
<1>5. w \in Seq(Byte \cup {0}) /\ Len(w) \in Nat  BY <1>1, LenProperties DEF Holds
<1>6. Contents(d, h) = v
  <2>1. Min({size, Len(w)}) = L  BY <1>3, <1>5, MinTwo
  <2>2. QED  BY <1>4, <2>1
<1>7. L \in Nat /\ L <= Len(w) /\ L <= size /\ (L < size => L = Len(w))  BY <1>3, <1>5
<1> HIDE DEF L
<1>8. v \in Seq(Byte \cup {0}) /\ Len(v) = L /\ \A p \in 1 .. L : v[p] = w[p]
  <2>1. \A p \in 1 .. L : w[p] \in Byte \cup {0}  BY <1>5, <1>7, ElementOfSeq
  <2>2. 1 \in Int /\ L \in Int /\ (1 <= L => 1 \in 1 .. Len(w) /\ L \in 1 .. Len(w))  BY <1>5, <1>7
  <2>3. QED  BY <1>5, <1>7, <2>1, <2>2, SubSeqProperties
<1> HIDE DEF v
<1>9. ASSUME NEW n \in d.bitmap, NEW j \in 0 .. BLOCK_DATA - 1, own[n] = h, Start(rank[n]) + j < L
      PROVE  v[Start(rank[n]) + j + 1] = d.block[n].data[j]
  <2>1. rank[n] \in Nat  BY DEF Placed
  <2>2. Start(rank[n]) \in Nat /\ j \in Nat
    <3>1. Start(rank[n]) \in Nat  BY <2>1, Starts
    <3>2. j \in Nat  BY AOFSAssumption
    <3>3. QED  BY <3>1, <3>2
  <2>3. Start(rank[n]) + j + 1 \in 1 .. L /\ Start(rank[n]) + j < Len(w)  BY <1>5, <1>7, <1>9, <2>2
  <2>4. w[Start(rank[n]) + j + 1] = d.block[n].data[j]  BY <1>1, <1>9, <2>3 DEF Holds
  <2>5. QED  BY <1>8, <2>3, <2>4
<1>10. \A q \in 0 .. Len(v) - 1 : q \in 0 .. Len(w) - 1  BY <1>5, <1>7, <1>8
<1>11. Holds(d, own, rank, h, v)  BY <1>1, <1>8, <1>9, <1>10 DEF Holds
<1>12. FileIs(d, own, rank, h, v)  BY <1>2, <1>7, <1>8, <1>11 DEF FileIs, size
<1>13. QED  BY <1>6, <1>12

\* A byte inside the size and inside the chain is in the file.
LEMMA InFile ==
    ASSUME NEW d \in DiskType, NEW own, NEW rank, Placed(d, own, rank), NEW h \in d.bitmap,
           NEW w, FileIs(d, own, rank, h, w), NEW q \in Nat, q < d.block[h].st_size,
           NEW n \in d.bitmap, own[n] = h, q < Start(rank[n]) + BLOCK_DATA
    PROVE  q < Len(w)
<1>1. Len(w) \in Nat  BY LenProperties DEF FileIs, Holds
<1>2. d.block[h].st_size \in Nat  BY DiskHas
<1>3. rank[n] \in Nat  BY DEF Placed
<1>4. Start(rank[n]) \in Nat  BY <1>3, Starts
<1>5. CASE Len(w) < d.block[h].st_size
  <2>1. Start(rank[n]) + BLOCK_DATA <= Len(w)  BY <1>5 DEF FileIs
  <2>2. QED  BY <1>1, <1>4, <2>1, AOFSAssumption
<1>6. CASE ~(Len(w) < d.block[h].st_size)  BY <1>1, <1>2, <1>6
<1>7. QED  BY <1>5, <1>6

\* The file of another name is the same in both images.
LEMMA OtherFile ==
    ASSUME NEW d, NEW own, NEW rank, Image(d, own, rank), NEW e, NEW own2, NEW rank2, Image(e, own2, rank2),
           NEW h, Kept(d, own, rank, e, own2, rank2, h), NEW g \in d.bitmap, g # h, own[g] = g
    PROVE  g \in e.bitmap /\ own2[g] = g /\ e.block[g] = d.block[g] /\ Contents(e, g) = Contents(d, g)
<1> DEFINE w == Contents(d, g)
           v == Contents(e, g)
<1>1. d \in DiskType /\ Placed(d, own, rank) /\ e \in DiskType /\ Placed(e, own2, rank2)  BY DEF Image
<1>2. g \in e.bitmap /\ own2[g] = g /\ e.block[g] = d.block[g]  BY DEF Kept
<1>3. FileIs(d, own, rank, g, w)  BY <1>1, ContentsAre
<1>4. FileIs(e, own2, rank2, g, v)  BY <1>1, <1>2, ContentsAre
<1> HIDE DEF w, v
<1>5. w \in Seq(Byte \cup {0}) /\ v \in Seq(Byte \cup {0}) /\ Len(w) \in Nat /\ Len(v) \in Nat
  BY <1>3, <1>4, LenProperties DEF FileIs, Holds
<1>6. d.block[g].st_size \in Nat  BY <1>1, DiskHas
<1>7. ASSUME NEW n \in d.bitmap, own[n] = g
      PROVE  n \in e.bitmap /\ own2[n] = g /\ rank2[n] = rank[n] /\ e.block[n] = d.block[n]
  BY <1>7 DEF Kept
<1>8. ASSUME NEW n \in e.bitmap, own2[n] = g
      PROVE  n \in d.bitmap /\ own[n] = g
  <2>1. n \in d.bitmap /\ own[n] # h  BY <1>8 DEF Kept
  <2>2. own2[n] = own[n]  BY <2>1 DEF Kept
  <2>3. QED  BY <1>8, <2>1, <2>2
<1>9. ASSUME NEW q \in 0 .. Len(w) - 1 PROVE q < Len(v) /\ v[q + 1] = w[q + 1]
  <2>1. PICK n \in d.bitmap, j \in 0 .. BLOCK_DATA - 1 : own[n] = g /\ q = Start(rank[n]) + j
    BY <1>3 DEF FileIs, Holds
  <2>2. n \in e.bitmap /\ own2[n] = g /\ rank2[n] = rank[n] /\ e.block[n] = d.block[n]  BY <1>7, <2>1
  <2>3. rank[n] \in Nat  BY <1>1 DEF Placed
  <2>4. Start(rank[n]) \in Nat  BY <2>3, Starts
  <2>5. q \in Nat /\ q < Len(w) /\ q < Start(rank2[n]) + BLOCK_DATA  BY <1>5, <2>1, <2>2, <2>4, AOFSAssumption
  <2>6. q < e.block[g].st_size  BY <1>2, <1>3, <1>5, <1>6, <2>5 DEF FileIs
  <2>7. q < Len(v)  BY <1>1, <1>2, <1>4, <2>2, <2>5, <2>6, InFile
  <2>8. w[q + 1] = d.block[n].data[j]  BY <1>3, <2>1, <2>5 DEF FileIs, Holds
  <2>9. v[q + 1] = e.block[n].data[j]  BY <1>4, <2>1, <2>2, <2>7 DEF FileIs, Holds
  <2>10. QED  BY <2>2, <2>7, <2>8, <2>9
<1>10. ASSUME NEW q \in 0 .. Len(v) - 1 PROVE q < Len(w)
  <2>1. PICK n \in e.bitmap, j \in 0 .. BLOCK_DATA - 1 : own2[n] = g /\ q = Start(rank2[n]) + j
    BY <1>4 DEF FileIs, Holds
  <2>2. n \in d.bitmap /\ own[n] = g  BY <1>8, <2>1
  <2>3. rank2[n] = rank[n] /\ rank[n] \in Nat  BY <1>1, <1>7, <2>2 DEF Placed
  <2>4. Start(rank[n]) \in Nat  BY <2>3, Starts
  <2>5. q \in Nat /\ q < Len(v) /\ q < Start(rank[n]) + BLOCK_DATA  BY <1>5, <2>1, <2>3, <2>4, AOFSAssumption
  <2>6. q < d.block[g].st_size  BY <1>2, <1>4, <1>5, <1>6, <2>5 DEF FileIs
  <2>7. QED  BY <1>1, <1>3, <2>2, <2>5, <2>6, InFile
<1>11. Len(v) = Len(w)
  <2>1. ~(Len(v) < Len(w))
    <3>1. Len(v) < Len(w) => Len(v) \in 0 .. Len(w) - 1  BY <1>5
    <3>2. QED  BY <1>5, <1>9, <3>1
  <2>2. ~(Len(w) < Len(v))
    <3>1. Len(w) < Len(v) => Len(w) \in 0 .. Len(v) - 1  BY <1>5
    <3>2. QED  BY <1>5, <1>10, <3>1
  <2>3. QED  BY <1>5, <2>1, <2>2
<1>12. ASSUME NEW p \in 1 .. Len(v) PROVE v[p] = w[p]
  <2>1. p - 1 \in 0 .. Len(w) - 1 /\ (p - 1) + 1 = p  BY <1>5, <1>11
  <2>2. QED  BY <1>9, <2>1
<1>13. v = w  BY <1>5, <1>11, <1>12, SeqEqual
<1>14. QED  BY <1>2, <1>13 DEF v, w

\* The head with a name is the one that aofs_find_file_head finds.
LEMMA TheHead ==
    ASSUME NEW d, NEW own, NEW rank, Image(d, own, rank), NEW name, NEW h \in Heads(d, name)
    PROVE  aofs_find_file_head(d, name) = h /\ Heads(d, name) = {h} /\ h \in d.bitmap /\ own[h] = h
<1> DEFINE g == aofs_find_file_head(d, name)
<1>1. d \in DiskType /\ OneHead(d) /\ Placed(d, own, rank)  BY DEF Image
<1>2. g \in Heads(d, name)  BY <1>1, FindHeadIs
<1> HIDE DEF g
<1>3. \A n \in Heads(d, name) : n = h  BY <1>1 DEF OneHead, Heads
<1>4. g = h  BY <1>2, <1>3
<1>5. h \in d.bitmap /\ d.block[h].head  BY DEF Heads
<1>6. own[h] = h  BY <1>1, <1>5, HeadOwns
<1>7. QED  BY <1>3, <1>4, <1>5, <1>6 DEF g

-----------------------------------------------------------------------------
(* The files of an image, of which a handler changes one.                  *)

\* Only the file of h, which is name's before and after if there is one, differs.
OneChanged(d, own, rank, e, own2, rank2, h, name) ==
    /\ Image(d, own, rank) /\ Image(e, own2, rank2) /\ Kept(d, own, rank, e, own2, rank2, h)
    /\ Heads(d, name) \subseteq {h}
    /\ h \in d.bitmap => h \in Heads(d, name)
    /\ h \in e.bitmap => h \in Heads(e, name)

\* The other names keep their heads.
LEMMA OtherHeads ==
    ASSUME NEW d, NEW own, NEW rank, NEW e, NEW own2, NEW rank2, NEW h, NEW name,
           OneChanged(d, own, rank, e, own2, rank2, h, name)
    PROVE  /\ \A f \in Name : f # name => Heads(e, f) = Heads(d, f)
           /\ Heads(e, name) = IF h \in e.bitmap THEN {h} ELSE {}
<1>1. /\ Placed(d, own, rank) /\ Placed(e, own2, rank2) /\ Kept(d, own, rank, e, own2, rank2, h)
      /\ Heads(d, name) \subseteq {h}
      /\ h \in d.bitmap => h \in Heads(d, name)
      /\ h \in e.bitmap => h \in Heads(e, name)
  BY DEF OneChanged, Image
<1>2. ASSUME NEW n \in d.bitmap, d.block[n].head, n # h
      PROVE  n \in e.bitmap /\ e.block[n] = d.block[n]
  <2>1. own[n] = n  BY <1>1, <1>2, HeadOwns
  <2>2. QED  BY <1>1, <1>2, <2>1 DEF Kept
<1>3. ASSUME NEW n \in e.bitmap, e.block[n].head, n # h
      PROVE  n \in d.bitmap /\ e.block[n] = d.block[n]
  <2>1. own2[n] = n  BY <1>1, <1>3, HeadOwns
  <2>2. n \in d.bitmap /\ own[n] # h  BY <1>1, <1>3, <2>1 DEF Kept
  <2>3. QED  BY <1>1, <2>2 DEF Kept
<1>4. ASSUME NEW f \in Name, f # name PROVE Heads(e, f) = Heads(d, f)
  <2>1. ASSUME NEW n \in Heads(d, f) PROVE n \in Heads(e, f)
    <3>1. n \in d.bitmap /\ d.block[n].head /\ d.block[n].filename = f  BY DEF Heads
    <3>2. n # h  BY <1>1, <1>4, <3>1 DEF Heads
    <3>3. n \in e.bitmap /\ e.block[n] = d.block[n]  BY <1>2, <3>1, <3>2
    <3>4. QED  BY <3>1, <3>3 DEF Heads
  <2>2. ASSUME NEW n \in Heads(e, f) PROVE n \in Heads(d, f)
    <3>1. n \in e.bitmap /\ e.block[n].head /\ e.block[n].filename = f  BY DEF Heads
    <3>2. n # h  BY <1>1, <1>4, <3>1 DEF Heads
    <3>3. n \in d.bitmap /\ e.block[n] = d.block[n]  BY <1>3, <3>1, <3>2
    <3>4. QED  BY <3>1, <3>3 DEF Heads
  <2>3. QED  BY <2>1, <2>2
<1>5. ASSUME NEW n \in Heads(e, name), n # h PROVE FALSE
  <2>1. n \in e.bitmap /\ e.block[n].head /\ e.block[n].filename = name  BY DEF Heads
  <2>2. n \in d.bitmap /\ e.block[n] = d.block[n]  BY <1>3, <1>5, <2>1
  <2>3. n \in Heads(d, name)  BY <2>1, <2>2 DEF Heads
  <2>4. QED  BY <1>1, <1>5, <2>3
<1>6. Heads(e, name) \subseteq e.bitmap  BY DEF Heads
<1>7. Heads(e, name) = IF h \in e.bitmap THEN {h} ELSE {}  BY <1>1, <1>5, <1>6
<1>8. QED  BY <1>4, <1>7

\* FilesOf by its names and values.
LEMMA FilesAre ==
    ASSUME NEW d
    PROVE  /\ DOMAIN FilesOf(d) = {f \in Name : Heads(d, f) # {}}
           /\ FilesOf(d) = [f \in DOMAIN FilesOf(d) |-> FilesOf(d)[f]]
           /\ \A f \in DOMAIN FilesOf(d) : FilesOf(d)[f] = Contents(d, aofs_find_file_head(d, f))
  BY DEF FilesOf

\* Only name differs in the files, and its contents are those of the chain of h.
FilesAfter(d, e, h, name) ==
    /\ DOMAIN FilesOf(e) = (DOMAIN FilesOf(d) \ {name}) \cup (IF h \in e.bitmap THEN {name} ELSE {})
    /\ \A f \in DOMAIN FilesOf(d) : f # name => FilesOf(e)[f] = FilesOf(d)[f]
    /\ h \in e.bitmap => FilesOf(e)[name] = Contents(e, h)

\* When one file of the image changes, one of its names does.
LEMMA OneFileChanged ==
    ASSUME NEW d, NEW own, NEW rank, NEW e, NEW own2, NEW rank2, NEW h, NEW name \in Name,
           OneChanged(d, own, rank, e, own2, rank2, h, name)
    PROVE  FilesAfter(d, e, h, name)
<1>1. /\ Image(d, own, rank) /\ Image(e, own2, rank2) /\ Kept(d, own, rank, e, own2, rank2, h)
      /\ h \in d.bitmap => h \in Heads(d, name)
  BY DEF OneChanged
<1>2. /\ \A f \in Name : f # name => Heads(e, f) = Heads(d, f)
      /\ Heads(e, name) = IF h \in e.bitmap THEN {h} ELSE {}
  BY OtherHeads
<1>3. DOMAIN FilesOf(e) = (DOMAIN FilesOf(d) \ {name}) \cup (IF h \in e.bitmap THEN {name} ELSE {})
  BY <1>2, FilesAre
<1>4. ASSUME NEW f \in DOMAIN FilesOf(d), f # name PROVE FilesOf(e)[f] = FilesOf(d)[f]
  <2>1. f \in Name /\ Heads(d, f) # {} /\ FilesOf(d)[f] = Contents(d, aofs_find_file_head(d, f))
    BY FilesAre
  <2>2. f \in DOMAIN FilesOf(e)  BY <1>3, <1>4
  <2>3. FilesOf(e)[f] = Contents(e, aofs_find_file_head(e, f))  BY <2>2, FilesAre
  <2>4. PICK g : g \in Heads(d, f) /\ g \in Heads(e, f)  BY <1>2, <1>4, <2>1
  <2>5. aofs_find_file_head(d, f) = g /\ g \in d.bitmap /\ own[g] = g  BY <1>1, <2>4, TheHead
  <2>6. aofs_find_file_head(e, f) = g  BY <1>1, <2>4, TheHead
  <2>7. g # h
    <3>1. d.block[g].filename = f  BY <2>4 DEF Heads
    <3>2. g = h => d.block[g].filename = name  BY <1>1, <2>5 DEF Heads
    <3>3. QED  BY <1>4, <3>1, <3>2
  <2>8. Contents(e, g) = Contents(d, g)  BY <1>1, <2>5, <2>7, OtherFile
  <2>9. QED  BY <2>1, <2>3, <2>5, <2>6, <2>8
<1>5. ASSUME h \in e.bitmap PROVE FilesOf(e)[name] = Contents(e, h)
  <2>1. h \in Heads(e, name)  BY <1>2, <1>5
  <2>2. aofs_find_file_head(e, name) = h  BY <1>1, <2>1, TheHead
  <2>3. name \in DOMAIN FilesOf(e)  BY <1>3, <1>5
  <2>4. QED  BY <2>2, <2>3, FilesAre
<1>6. QED  BY <1>3, <1>4, <1>5 DEF FilesAfter

\* A file that changes or comes is a Put.
LEMMA FilesPut ==
    ASSUME NEW d, NEW own, NEW rank, NEW e, NEW own2, NEW rank2, NEW h, NEW name \in Name,
           OneChanged(d, own, rank, e, own2, rank2, h, name), h \in e.bitmap
    PROVE  FilesOf(e) = FS!Put(FilesOf(d), name, Contents(e, h))
<1> DEFINE fs == FilesOf(d)
           gs == FilesOf(e)
           v  == Contents(e, h)
<1>1. /\ DOMAIN gs = (DOMAIN fs \ {name}) \cup {name}
      /\ \A f \in DOMAIN fs : f # name => gs[f] = fs[f]
      /\ gs[name] = v
  <2>1. FilesAfter(d, e, h, name)  BY OneFileChanged
  <2>2. QED  BY <2>1 DEF FilesAfter
<1>2. gs = [f \in DOMAIN gs |-> gs[f]]  BY FilesAre
<1> HIDE DEF fs, gs, v
<1>3. gs = [f \in DOMAIN fs \cup {name} |-> IF f = name THEN v ELSE fs[f]]
  <2>1. DOMAIN gs = DOMAIN fs \cup {name}  BY <1>1
  <2>2. \A f \in DOMAIN gs : gs[f] = IF f = name THEN v ELSE fs[f]  BY <1>1, <2>1
  <2>3. QED  BY <1>2, <2>1, <2>2
<1>4. gs = FS!Put(fs, name, v)  BY <1>3 DEF FS!Put
<1>5. QED  BY <1>4 DEF fs, gs, v

\* A file that goes is a Removed.
LEMMA FilesRemoved ==
    ASSUME NEW d, NEW own, NEW rank, NEW e, NEW own2, NEW rank2, NEW h, NEW name \in Name,
           OneChanged(d, own, rank, e, own2, rank2, h, name), h \notin e.bitmap
    PROVE  FilesOf(e) = FS!Removed(FilesOf(d), name)
<1> DEFINE fs == FilesOf(d)
           gs == FilesOf(e)
<1>1. DOMAIN gs = DOMAIN fs \ {name} /\ \A f \in DOMAIN fs : f # name => gs[f] = fs[f]
  <2>1. FilesAfter(d, e, h, name)  BY OneFileChanged
  <2>2. QED  BY <2>1 DEF FilesAfter
<1>2. gs = [f \in DOMAIN gs |-> gs[f]]  BY FilesAre
<1> HIDE DEF fs, gs
<1>3. gs = [f \in DOMAIN fs \ {name} |-> fs[f]]
  <2>1. \A f \in DOMAIN gs : gs[f] = fs[f]  BY <1>1
  <2>2. QED  BY <1>1, <1>2, <2>1
<1>4. gs = FS!Removed(fs, name)  BY <1>3 DEF FS!Removed
<1>5. QED  BY <1>4 DEF fs, gs

-----------------------------------------------------------------------------
(* What the handlers do to the files.                                      *)

LEMMA NoSize ==
    ASSUME NEW d, NEW own, NEW rank, Image(d, own, rank), NEW h \in d.bitmap, own[h] = h, d.block[h].st_size = 0
    PROVE  Contents(d, h) = <<>>
<1>1. d \in DiskType /\ Placed(d, own, rank)  BY DEF Image
<1> DEFINE w == Contents(d, h)
<1>2. FileIs(d, own, rank, h, w)  BY <1>1, ContentsAre
<1> HIDE DEF w
<1>3. w \in Seq(Byte \cup {0}) /\ Len(w) <= 0  BY <1>2 DEF FileIs, Holds
<1>4. w = <<>>  BY <1>3, EmptySeq, LenProperties
<1>5. QED  BY <1>4 DEF w

\* Creating puts an empty file.
LEMMA FilesCreated ==
    ASSUME NEW d, NEW own, NEW rank, Image(d, own, rank), NEW name \in Name, Heads(d, name) = {}
    PROVE  LET e == aofs_create_file(d, name).disk
           IN  e = d \/ FilesOf(e) = FS!Put(FilesOf(d), name, <<>>)
<1> DEFINE a == aofs_create_file(d, name)
           n == a.num
           e == a.disk
           own2 == With(own, n, n)
           rank2 == With(rank, n, 0)
<1>1. \/ n = -1 /\ e = d
      \/ /\ n \in BlockNum /\ n \notin d.bitmap /\ e.bitmap = d.bitmap \cup {n}
         /\ e.block = [d.block EXCEPT ![n] = NewHead(name)]
         /\ Image(e, own2, rank2) /\ Kept(d, own, rank, e, own2, rank2, n)
  BY CreateIs
<1>2. own2[n] = n  BY DEF With
<1> HIDE DEF n, e, own2, rank2
<1>3. CASE /\ n \in BlockNum /\ n \notin d.bitmap /\ e.bitmap = d.bitmap \cup {n}
           /\ e.block = [d.block EXCEPT ![n] = NewHead(name)]
           /\ Image(e, own2, rank2) /\ Kept(d, own, rank, e, own2, rank2, n)
  <2>1. d.block \in [BlockNum -> Block]  BY DiskHas DEF Image
  <2>2. e.block[n] = NewHead(name)  BY <1>3, <2>1
  <2>3. n \in Heads(e, name) /\ n \in e.bitmap /\ e.block[n].st_size = 0
    BY <1>3, <2>2, HeadIn DEF Heads
  <2>4. OneChanged(d, own, rank, e, own2, rank2, n, name)  BY <1>3, <2>3 DEF OneChanged
  <2>5. Contents(e, n) = <<>>  BY <1>2, <1>3, <2>3, NoSize
  <2>6. FilesOf(e) = FS!Put(FilesOf(d), name, Contents(e, n))  BY <2>3, <2>4, FilesPut
  <2>7. QED  BY <2>5, <2>6 DEF e
<1>4. QED  BY <1>1, <1>3 DEF e

\* Deleting removes the file.
LEMMA FilesUnlinked ==
    ASSUME NEW d, NEW own, NEW rank, Image(d, own, rank), NEW name \in Name, NEW h \in Heads(d, name)
    PROVE  FilesOf(delete_chain(d, h)) = FS!Removed(FilesOf(d), name)
<1> DEFINE e == delete_chain(d, h)
           own2 == Left(own, e.bitmap)
           rank2 == Left(rank, e.bitmap)
<1>1. h \in d.bitmap /\ d.block[h].head  BY DEF Heads
<1>2. Heads(d, name) = {h} /\ own[h] = h  BY TheHead
<1>3. /\ e.bitmap = d.bitmap \ {m \in d.bitmap : own[m] = h}
      /\ Image(e, own2, rank2) /\ Kept(d, own, rank, e, own2, rank2, h)
  BY <1>1, UnlinkIs
<1> HIDE DEF e, own2, rank2
<1>4. h \notin e.bitmap  BY <1>1, <1>2, <1>3
<1>5. OneChanged(d, own, rank, e, own2, rank2, h, name)  BY <1>2, <1>3, <1>4 DEF OneChanged
<1>6. FilesOf(e) = FS!Removed(FilesOf(d), name)  BY <1>4, <1>5, FilesRemoved
<1>7. QED  BY <1>6 DEF e

\* The bytes w keeps as v when it is truncated to size.
CutTo(w, v, size) ==
    /\ w \in Seq(Byte \cup {0}) /\ v \in Seq(Byte \cup {0})
    /\ Len(w) \in Nat /\ Len(v) \in Nat /\ Len(v) <= size
    /\ \A q \in Nat : q < Len(w) /\ q < size => q < Len(v) /\ v[q + 1] = w[q + 1]

\* The bytes of a file that was truncated.
LEMMA ResizedFile ==
    ASSUME NEW d, NEW own, NEW rank, Image(d, own, rank), NEW e, NEW own2, NEW rank2, NEW h \in d.bitmap,
           own[h] = h, NEW size \in Nat, Resized(d, own, rank, e, own2, rank2, h, size),
           NEW w, FileIs(d, own, rank, h, w), NEW v, FileIs(e, own2, rank2, h, v)
    PROVE  CutTo(w, v, size)
<1>1. /\ d \in DiskType /\ Placed(d, own, rank) /\ e \in DiskType /\ Placed(e, own2, rank2)
      /\ h \in e.bitmap
  BY DEF Image, Resized
<1>2. /\ w \in Seq(Byte \cup {0}) /\ v \in Seq(Byte \cup {0}) /\ Len(w) \in Nat /\ Len(v) \in Nat
      /\ Len(w) <= d.block[h].st_size /\ Len(v) <= e.block[h].st_size
  BY LenProperties DEF FileIs, Holds
<1>3. d.block[h].st_size \in Nat /\ e.block[h].st_size \in Nat  BY <1>1, DiskHas
<1>4. \/ e.block[h].st_size = size
      \/ d.block[h].st_size < size /\ e.block[h].st_size = d.block[h].st_size
  BY DEF Resized
<1>5. Len(v) <= size  BY <1>2, <1>3, <1>4
<1>6. ASSUME NEW q \in Nat, q < Len(w), q < size PROVE q < Len(v) /\ v[q + 1] = w[q + 1]
  <2>1. q \in 0 .. Len(w) - 1  BY <1>2, <1>6
  <2>2. PICK n \in d.bitmap, j \in 0 .. BLOCK_DATA - 1 : own[n] = h /\ q = Start(rank[n]) + j
    BY <2>1 DEF FileIs, Holds
  <2>3. rank[n] \in Nat  BY <1>1 DEF Placed
  <2>4. Start(rank[n]) \in Nat  BY <2>3, Starts
  <2>5. Start(rank[n]) < size /\ Start(rank[n]) + j < size /\ q < Start(rank[n]) + BLOCK_DATA
    BY <1>6, <2>2, <2>4, AOFSAssumption
  <2>6. /\ n \in e.bitmap /\ own2[n] = h /\ rank2[n] = rank[n] /\ e.block[n].data[j] = d.block[n].data[j]
    <3>1. BytesStay(d, own, rank, e, own2, rank2, h, size)  BY DEF Resized
    <3>2. QED  BY <2>2, <2>5, <3>1 DEF BytesStay
  <2>7. q < e.block[h].st_size  BY <1>2, <1>3, <1>4, <1>6
  <2>8. q < Len(v)  BY <1>1, <2>5, <2>6, <2>7, InFile
  <2>9. w[q + 1] = d.block[n].data[j]  BY <1>6, <2>2 DEF FileIs, Holds
  <2>10. v[q + 1] = e.block[n].data[j]  BY <2>2, <2>6, <2>8 DEF FileIs, Holds
  <2>11. QED  BY <2>6, <2>8, <2>9, <2>10
<1>7. QED  BY <1>2, <1>5, <1>6 DEF CutTo

\* Truncating is what FileSpec calls Truncated.
LEMMA FilesTruncated ==
    ASSUME NEW d, NEW own, NEW rank, Image(d, own, rank), ~d.astray, NEW name \in Name, NEW size \in Nat,
           Heads(d, name) # {}
    PROVE  FS!Truncated(FilesOf(d), FilesOf(aofs_truncate_file(d, name, size)), name, size)
<1> DEFINE h == aofs_find_file_head(d, name)
           e == aofs_truncate_file(d, name, size)
<1>1. PICK own2, rank2 : Resized(d, own, rank, e, own2, rank2, h, size)  BY TruncateIs
<1>2. h \in Heads(d, name)  BY FindHeadIs DEF Image
<1> HIDE DEF h, e
<1>3. Heads(d, name) = {h} /\ h \in d.bitmap /\ own[h] = h /\ aofs_find_file_head(d, name) = h
  BY <1>2, TheHead
<1>4. h \in e.bitmap /\ own2[h] = h /\ h \in Heads(e, name)
  <2>1. h \in e.bitmap /\ own2[h] = h /\ e.block[h].head /\ e.block[h].filename = d.block[h].filename
    BY <1>1 DEF Resized
  <2>2. QED  BY <1>2, <2>1 DEF Heads
<1>5. OneChanged(d, own, rank, e, own2, rank2, h, name)  BY <1>1, <1>2, <1>3, <1>4 DEF OneChanged, Resized
<1> DEFINE w == Contents(d, h)
           v == Contents(e, h)
           fs == FilesOf(d)
           gs == FilesOf(e)
<1>6. FileIs(d, own, rank, h, w)  BY <1>3, ContentsAre DEF Image
<1>7. FileIs(e, own2, rank2, h, v)  BY <1>1, <1>4, ContentsAre DEF Image, Resized
<1>8. gs = FS!Put(fs, name, v)  BY <1>4, <1>5, FilesPut
<1>9. name \in DOMAIN fs /\ fs[name] = w
  <2>1. name \in DOMAIN fs  BY FilesAre
  <2>2. QED  BY <1>3, <2>1, FilesAre
<1> HIDE DEF w, v, fs, gs
<1>10. /\ w \in Seq(Byte \cup {0}) /\ v \in Seq(Byte \cup {0})
       /\ Len(w) \in Nat /\ Len(v) \in Nat /\ Len(v) <= size
       /\ \A q \in Nat : q < Len(w) /\ q < size => q < Len(v) /\ v[q + 1] = w[q + 1]
  <2>1. CutTo(w, v, size)  BY <1>1, <1>3, <1>6, <1>7, ResizedFile
  <2>2. QED  BY <2>1 DEF CutTo
<1>11. ASSUME NEW p \in Nat, p # 0, p <= Len(w), p <= size PROVE p <= Len(v) /\ v[p] = w[p]
  <2>1. p - 1 \in Nat /\ p - 1 < Len(w) /\ p - 1 < size /\ (p - 1) + 1 = p  BY <1>10, <1>11
  <2>2. QED  BY <1>10, <2>1
<1>12. CASE size < Len(w)
  <2>1. Len(v) = size
    <3>1. CASE size = 0  BY <1>10, <3>1
    <3>2. CASE size # 0
      <4>1. size <= Len(v)  BY <1>10, <1>11, <1>12, <3>2
      <4>2. QED  BY <1>10, <4>1
    <3>3. QED  BY <3>1, <3>2
  <2> DEFINE u == SubSeq(w, 1, size)
  <2>2. u \in Seq(Byte \cup {0}) /\ Len(u) = size /\ \A p \in 1 .. size : u[p] = w[p]
    <3>1. \A p \in 1 .. size : w[p] \in Byte \cup {0}  BY <1>10, <1>12, ElementOfSeq
    <3>2. QED  BY <3>1, SubSeqProperties
  <2> HIDE DEF u
  <2>3. \A p \in 1 .. Len(v) : v[p] = u[p]  BY <1>10, <1>11, <1>12, <2>1, <2>2
  <2>4. v = u  BY <1>10, <2>1, <2>2, <2>3, SeqEqual
  <2>5. gs = FS!Put(fs, name, SubSeq(fs[name], 1, size))  BY <1>8, <1>9, <2>4 DEF u
  <2>6. FS!Truncated(fs, gs, name, size)  BY <1>9, <1>12, <2>5 DEF FS!Truncated
  <2>7. QED  BY <2>6 DEF fs, gs, e
<1>13. CASE ~(size < Len(w))
  <2>1. Len(w) <= size  BY <1>10, <1>13
  <2>2. Len(w) <= Len(v)
    <3>1. CASE Len(w) = 0  BY <1>10, <3>1
    <3>2. CASE Len(w) # 0  BY <1>10, <1>11, <2>1, <3>2
    <3>3. QED  BY <3>1, <3>2
  <2> DEFINE u == SubSeq(w, 1, Len(w))
             x == SubSeq(v, 1, Len(w))
  <2>3. u \in Seq(Byte \cup {0}) /\ Len(u) = Len(w) /\ \A p \in 1 .. Len(w) : u[p] = w[p]
    <3>1. \A p \in 1 .. Len(w) : w[p] \in Byte \cup {0}  BY <1>10, ElementOfSeq
    <3>2. QED  BY <1>10, <3>1, SubSeqProperties
  <2>4. x \in Seq(Byte \cup {0}) /\ Len(x) = Len(w) /\ \A p \in 1 .. Len(w) : x[p] = v[p]
    <3>1. \A p \in 1 .. Len(w) : v[p] \in Byte \cup {0}
      <4>1. \A p \in 1 .. Len(w) : p \in 1 .. Len(v)  BY <1>10, <2>2
      <4>2. QED  BY <1>10, <4>1, ElementOfSeq
    <3>2. QED  BY <1>10, <3>1, SubSeqProperties
  <2> HIDE DEF u, x
  <2>5. \A p \in 1 .. Len(u) : u[p] = x[p]  BY <1>10, <1>11, <2>1, <2>3, <2>4
  <2>6. u = x  BY <2>3, <2>4, <2>5, SeqEqual
  <2>7. FS!IsPrefix(w, v)  BY <2>2, <2>6 DEF FS!IsPrefix, u, x
  <2>8. gs[name] = v /\ DOMAIN gs = DOMAIN fs  BY <1>8, <1>9 DEF FS!Put
  <2>9. FS!Truncated(fs, gs, name, size)  BY <1>8, <1>9, <1>10, <1>13, <2>7, <2>8 DEF FS!Truncated
  <2>10. QED  BY <2>9 DEF fs, gs, e
<1>14. QED  BY <1>12, <1>13

\* The bytes v of a file after B was written at O, from the bytes w before.
Rewritten(w, v, O, B) == v = SubSeq(w, 1, O) \o B

\* The bytes of a file that was written.
LEMMA WrittenFile ==
    ASSUME NEW d, NEW own, NEW rank, Image(d, own, rank), NEW e, NEW own2, NEW rank2, NEW h,
           NEW O \in Nat, NEW B \in Seq(Byte), Wrote(d, own, rank, e, own2, rank2, h, O, B),
           NEW w \in Seq(Byte \cup {0}), O <= Len(w), O = 0 \/ FileIs(d, own, rank, h, w),
           NEW v, FileIs(e, own2, rank2, h, v)
    PROVE  Rewritten(w, v, O, B)
<1>1. /\ e \in DiskType /\ Placed(e, own2, rank2) /\ h \in e.bitmap /\ own2[h] = h
      /\ e.block[h].st_size = Len(B) + O
      /\ Kept(d, own, rank, e, own2, rank2, h)
      /\ \A n \in d.bitmap : own[n] = h => n \in e.bitmap /\ own2[n] = h /\ rank2[n] = rank[n]
      /\ WData(d, e, own2, rank2, h, O, B, Len(B))
  BY DEF Wrote, Image
<1>2. B \in Seq(Byte \cup {0}) /\ Len(B) \in Nat /\ Len(w) \in Nat  BY SeqMonotonic, LenProperties
<1>3. v \in Seq(Byte \cup {0}) /\ Len(v) \in Nat /\ Len(v) <= Len(B) + O
  BY <1>1, LenProperties DEF FileIs, Holds
<1>4. O + Len(B) <= Len(v)
  <2>1. PICK n \in e.bitmap : own2[n] = h /\ O + Len(B) <= Start(rank2[n]) + BLOCK_DATA
    BY DEF Wrote, Reached
  <2>2. rank2[n] \in Nat  BY <1>1 DEF Placed
  <2>3. Start(rank2[n]) \in Nat  BY <2>2, Starts
  <2>4. CASE Len(v) < e.block[h].st_size
    <3>1. Start(rank2[n]) + BLOCK_DATA <= Len(v)  BY <2>1, <2>4 DEF FileIs
    <3>2. QED  BY <1>2, <1>3, <2>1, <2>3, <3>1, AOFSAssumption
  <2>5. CASE ~(Len(v) < e.block[h].st_size)  BY <1>1, <1>2, <1>3, <2>5
  <2>6. QED  BY <2>4, <2>5
<1>5. Len(v) = O + Len(B)  BY <1>2, <1>3, <1>4
<1> DEFINE s == SubSeq(w, 1, O)
           u == s \o B
<1>6. s \in Seq(Byte \cup {0}) /\ Len(s) = O /\ \A p \in 1 .. O : s[p] = w[p]
  <2>1. \A p \in 1 .. O : w[p] \in Byte \cup {0}
    <3>1. \A p \in 1 .. O : p \in 1 .. Len(w)  BY <1>2
    <3>2. QED  BY <3>1, ElementOfSeq
  <2>2. QED  BY <2>1, SubSeqProperties
<1> HIDE DEF s
<1>7. u \in Seq(Byte \cup {0}) /\ Len(u) = O + Len(B)
      /\ \A p \in 1 .. O + Len(B) : u[p] = IF p <= O THEN s[p] ELSE B[p - O]
  BY <1>2, <1>6, ConcatProperties
<1> HIDE DEF u
<1>8. ASSUME NEW q \in 0 .. Len(v) - 1 PROVE v[q + 1] = u[q + 1]
  <2>1. PICK n \in e.bitmap, j \in 0 .. BLOCK_DATA - 1 : own2[n] = h /\ q = Start(rank2[n]) + j
    BY DEF FileIs, Holds
  <2>2. q \in Nat /\ q < Len(v) /\ q + 1 \in 1 .. O + Len(B) /\ (q + 1) - O = q - O + 1  BY <1>2, <1>3, <1>5
  <2>3. v[q + 1] = e.block[n].data[j]  BY <2>1, <2>2 DEF FileIs, Holds
  <2>4. /\ O <= q /\ q < O + Len(B) => e.block[n].data[j] = B[q - O + 1]
        /\ q < O => n \in d.bitmap /\ e.block[n].data[j] = d.block[n].data[j]
    BY <1>1, <2>1 DEF WData
  <2>5. CASE O <= q
    <3>1. v[q + 1] = B[q - O + 1]  BY <1>5, <2>2, <2>3, <2>4, <2>5
    <3>2. ~(q + 1 <= O)  BY <2>2, <2>5
    <3>3. u[q + 1] = B[(q + 1) - O]  BY <1>7, <2>2, <3>2
    <3>4. QED  BY <2>2, <3>1, <3>3
  <2>6. CASE q < O
    <3>1. n \in d.bitmap /\ e.block[n].data[j] = d.block[n].data[j]  BY <2>4, <2>6
    <3>2. own[n] = h  BY <1>1, <2>1, <3>1 DEF Kept
    <3>3. rank2[n] = rank[n]  BY <1>1, <3>1, <3>2
    <3>4. O # 0 /\ q < Len(w)  BY <1>2, <2>2, <2>6
    <3>5. Holds(d, own, rank, h, w)  BY <3>4 DEF FileIs
    <3>6. w[q + 1] = d.block[n].data[j]  BY <2>1, <3>1, <3>2, <3>3, <3>4, <3>5 DEF Holds
    <3>7. q + 1 \in 1 .. O /\ q + 1 <= O  BY <2>2, <2>6
    <3>8. u[q + 1] = w[q + 1]  BY <1>6, <1>7, <2>2, <3>7
    <3>9. QED  BY <2>3, <3>1, <3>6, <3>8
  <2>7. QED  BY <2>2, <2>5, <2>6
<1>9. ASSUME NEW p \in 1 .. Len(v) PROVE v[p] = u[p]
  <2>1. p - 1 \in 0 .. Len(v) - 1 /\ (p - 1) + 1 = p  BY <1>3
  <2>2. QED  BY <1>8, <2>1
<1>10. v = u  BY <1>3, <1>5, <1>7, <1>9, SeqEqual
<1>11. QED  BY <1>10 DEF u, s, Rewritten

\* Writing is what FileSpec calls Written, unless it goes astray.
LEMMA FilesWritten ==
    ASSUME NEW d, NEW own, NEW rank, Image(d, own, rank), ~d.astray, NEW name \in Name,
           NEW B \in Seq(Byte), B # <<>>, NEW offset \in Nat
    PROVE  LET e == aofs_write_file(d, name, B, offset)
           IN  e = GoAstray(d) \/ FilesOf(e) = FS!Written(FilesOf(d), name, B, offset)
<1> DEFINE h == aofs_find_file_head(d, name)
           O == IF offset > d.block[h].st_size THEN d.block[h].st_size ELSE offset
           e == aofs_write_file(d, name, B, offset)
           fs == FilesOf(d)
<1>1. \/ e = GoAstray(d)
      \/ /\ h \in Heads(d, name) /\ Reached(d, own, rank, h, O)
         /\ \E own2, rank2 : Wrote(d, own, rank, e, own2, rank2, h, O, B) /\ e.block[h].filename = name
      \/ /\ Heads(d, name) = {}
         /\ \E n, own2, rank2 : /\ n \notin d.bitmap
                                /\ Wrote(d, own, rank, e, own2, rank2, n, 0, B)
                                /\ e.block[n].filename = name
  BY WriteIs
<1>2. d \in DiskType /\ Placed(d, own, rank)  BY DEF Image
<1> HIDE DEF e
<1>3. ASSUME h \in Heads(d, name), Reached(d, own, rank, h, O), NEW own2, NEW rank2,
             Wrote(d, own, rank, e, own2, rank2, h, O, B), e.block[h].filename = name
      PROVE  FilesOf(e) = FS!Written(FilesOf(d), name, B, offset)
  <2>1. Heads(d, name) = {h} /\ h \in d.bitmap /\ own[h] = h  BY <1>3, TheHead
  <2>2. h \in e.bitmap /\ own2[h] = h /\ e.block[h].head /\ Image(e, own2, rank2)  BY <1>3 DEF Wrote
  <2>3. h \in Heads(e, name)  BY <1>3, <2>2 DEF Heads
  <2>4. OneChanged(d, own, rank, e, own2, rank2, h, name)  BY <1>3, <2>1, <2>2, <2>3 DEF OneChanged, Wrote
  <2>5. FilesOf(e) = FS!Put(fs, name, Contents(e, h))  BY <2>2, <2>4, FilesPut
  <2> DEFINE w == Contents(d, h)
             v == Contents(e, h)
             size == d.block[h].st_size
             cut == IF offset > Len(w) THEN Len(w) ELSE offset
  <2>6. FileIs(d, own, rank, h, w)  BY <1>2, <2>1, ContentsAre
  <2>7. FileIs(e, own2, rank2, h, v)  BY <2>2, ContentsAre DEF Image
  <2>8. name \in DOMAIN fs /\ fs[name] = w
    <3>1. name \in DOMAIN fs  BY <1>3, FilesAre
    <3>2. QED  BY <3>1, FilesAre
  <2>9. size \in Nat  BY <1>2, <2>1, DiskHas
  <2>10. O \in Nat /\ O <= size /\ (offset <= size => O = offset) /\ (offset > size => O = size)
    <3> HIDE DEF size, h
    <3>1. O = IF offset > size THEN size ELSE offset  BY DEF size
    <3> HIDE DEF O
    <3>2. QED  BY <2>9, <3>1
  <2> HIDE DEF h, O, fs, w, v, size
  <2>11. w \in Seq(Byte \cup {0}) /\ Len(w) \in Nat /\ Len(w) <= size
    BY <2>6, LenProperties DEF FileIs, Holds, size
  <2>12. O <= Len(w)
    <3>1. PICK n \in d.bitmap : own[n] = h /\ O <= Start(rank[n]) + BLOCK_DATA  BY <1>3 DEF Reached
    <3>2. rank[n] \in Nat  BY <1>2 DEF Placed
    <3>3. Start(rank[n]) \in Nat  BY <3>2, Starts
    <3>4. CASE Len(w) < size
      <4>1. Start(rank[n]) + BLOCK_DATA <= Len(w)  BY <2>6, <3>1, <3>4 DEF FileIs, size
      <4>2. QED  BY <2>10, <2>11, <3>1, <3>3, <4>1, AOFSAssumption
    <3>5. CASE ~(Len(w) < size)  BY <2>9, <2>10, <2>11, <3>5
    <3>6. QED  BY <3>4, <3>5
  <2>13. cut = O  BY <2>9, <2>10, <2>11, <2>12
  <2>14. v = SubSeq(w, 1, O) \o B
    <3>1. O = 0 \/ FileIs(d, own, rank, h, w)  BY <2>6
    <3>2. O \in Nat /\ w \in Seq(Byte \cup {0}) /\ O <= Len(w)  BY <2>10, <2>11, <2>12
    <3>3. Rewritten(w, v, O, B)  BY <1>3, <2>7, <3>1, <3>2, WrittenFile
    <3>4. QED  BY <3>3 DEF Rewritten
  <2>15. v = SubSeq(w, 1, cut) \o B  BY <2>13, <2>14
  <2>16. FS!Bytes(fs, name) = w  BY <2>8 DEF FS!Bytes
  <2>17. FS!Written(fs, name, B, offset) = FS!Put(fs, name, SubSeq(w, 1, cut) \o B)
    BY <2>16 DEF FS!Written
  <2>18. FilesOf(e) = FS!Written(fs, name, B, offset)  BY <2>5, <2>15, <2>17 DEF v
  <2>19. QED  BY <2>18 DEF fs
<1>4. ASSUME Heads(d, name) = {}, NEW n, NEW own2, NEW rank2, n \notin d.bitmap,
             Wrote(d, own, rank, e, own2, rank2, n, 0, B), e.block[n].filename = name
      PROVE  FilesOf(e) = FS!Written(FilesOf(d), name, B, offset)
  <2>1. n \in e.bitmap /\ own2[n] = n /\ e.block[n].head /\ Image(e, own2, rank2)  BY <1>4 DEF Wrote
  <2>2. n \in Heads(e, name)  BY <1>4, <2>1 DEF Heads
  <2>3. OneChanged(d, own, rank, e, own2, rank2, n, name)  BY <1>4, <2>1, <2>2 DEF OneChanged, Wrote
  <2>4. FilesOf(e) = FS!Put(fs, name, Contents(e, n))  BY <2>1, <2>3, FilesPut
  <2> DEFINE v == Contents(e, n)
             w == <<>>
             cut == IF offset > Len(w) THEN Len(w) ELSE offset
  <2>5. FileIs(e, own2, rank2, n, v)  BY <2>1, ContentsAre DEF Image
  <2>6. name \notin DOMAIN fs  BY <1>4, FilesAre
  <2>7. w \in Seq(Byte \cup {0}) /\ Len(w) = 0 /\ 0 <= Len(w) /\ 0 \in Nat  BY EmptySeq
  <2>8. cut = 0  BY <2>7
  <2> HIDE DEF fs, v, w
  <2>9. v = SubSeq(w, 1, 0) \o B
    <3> DEFINE Z == 0
    <3>1. Z \in Nat /\ Z <= Len(w) /\ Z = 0  BY <2>7
    <3>2. Wrote(d, own, rank, e, own2, rank2, n, Z, B)  BY <1>4
    <3> HIDE DEF Z
    <3>3. Rewritten(w, v, Z, B)  BY <2>5, <2>7, <3>1, <3>2, WrittenFile
    <3>4. QED  BY <3>3 DEF Z, Rewritten
  <2>10. v = SubSeq(w, 1, cut) \o B  BY <2>8, <2>9
  <2>11. FS!Bytes(fs, name) = w  BY <2>6 DEF FS!Bytes, w
  <2>12. FS!Written(fs, name, B, offset) = FS!Put(fs, name, SubSeq(w, 1, cut) \o B)
    BY <2>11 DEF FS!Written
  <2>13. FilesOf(e) = FS!Written(fs, name, B, offset)  BY <2>4, <2>10, <2>12 DEF v
  <2>14. QED  BY <2>13 DEF fs
<1> HIDE DEF h, O, fs
<1>5. QED  BY <1>1, <1>3, <1>4 DEF e

\* The same blocks are the same files.
LEMMA SameFiles ==
    ASSUME NEW d, NEW own, NEW rank, Image(d, own, rank), NEW e, Image(e, own, rank),
           e.bitmap = d.bitmap, e.block = d.block
    PROVE  FilesOf(e) = FilesOf(d)
<1>1. d \in DiskType /\ Placed(d, own, rank) /\ d.bitmap \subseteq BlockNum /\ -1 \notin BlockNum
  BY DiskHas DEF Image
<1>2. \A f : Heads(e, f) = Heads(d, f)  BY DEF Heads
<1>3. Kept(d, own, rank, e, own, rank, -1)
  <2>1. \A n \in d.bitmap : own[n] \in d.bitmap  BY <1>1 DEF Placed
  <2>2. QED  BY <1>1, <2>1 DEF Kept
<1>4. DOMAIN FilesOf(e) = DOMAIN FilesOf(d)  BY <1>2, FilesAre
<1>5. ASSUME NEW f \in DOMAIN FilesOf(d) PROVE FilesOf(e)[f] = FilesOf(d)[f]
  <2>1. PICK h : h \in Heads(d, f)  BY FilesAre
  <2>2. aofs_find_file_head(d, f) = h /\ h \in d.bitmap /\ own[h] = h  BY <2>1, TheHead
  <2>3. aofs_find_file_head(e, f) = h  BY <1>2, <2>1, TheHead
  <2>4. h # -1  BY <1>1, <2>2
  <2>5. Contents(e, h) = Contents(d, h)  BY <1>3, <2>2, <2>4, OtherFile
  <2>6. FilesOf(e)[f] = Contents(e, h)  BY <1>4, <2>3, FilesAre
  <2>7. FilesOf(d)[f] = Contents(d, h)  BY <2>2, FilesAre
  <2>8. QED  BY <2>5, <2>6, <2>7
<1> DEFINE fs == FilesOf(d)
           gs == FilesOf(e)
<1>6. fs = [f \in DOMAIN fs |-> fs[f]] /\ gs = [f \in DOMAIN gs |-> gs[f]]  BY FilesAre
<1> HIDE DEF fs, gs
<1>7. gs = fs  BY <1>4, <1>5, <1>6 DEF fs, gs
<1>8. QED  BY <1>7 DEF fs, gs

\* Going astray leaves the files alone.
LEMMA AstrayFiles ==
    ASSUME NEW d, NEW own, NEW rank, Image(d, own, rank)
    PROVE  FilesOf(GoAstray(d)) = FilesOf(d)
<1>1. GoAstray(d).bitmap = d.bitmap /\ GoAstray(d).block = d.block  BY DEF GoAstray, Image, DiskType
<1>2. Image(GoAstray(d), own, rank)  BY AstrayImage
<1>3. QED  BY <1>1, <1>2, SameFiles

\* The contents are those of the image.
MCSound == Sound /\ files = FilesOf(disk)

\* The invariant with the files.
LEMMA MCSoundAlways == MCSpec => []MCSound
<1>1. MCInit => MCSound  BY EmptyImage DEF MCInit, Init, MCSound, Sound
<1>2. MCSound /\ [MCNext]_<<disk, files>> => MCSound'
  <2>1. SUFFICES ASSUME MCSound, [MCNext]_<<disk, files>> PROVE MCSound'  OBVIOUS
  <2>2. CASE MCNext
    <3>1. Sound /\ [Next]_vars  BY <2>1, <2>2 DEF MCNext, MCSound
    <3>2. Sound'  BY <3>1, SoundStep
    <3>3. QED  BY <2>2, <3>2 DEF MCNext, MCSound
  <2>3. CASE UNCHANGED <<disk, files>>
    <3>1. Sound /\ [Next]_vars  BY <2>1, <2>3 DEF MCSound, vars
    <3>2. Sound'  BY <3>1, SoundStep
    <3>3. files' = files /\ disk' = disk /\ files = FilesOf(disk)  BY <2>1, <2>3 DEF MCSound
    <3>4. files' = FilesOf(disk')  BY <3>3
    <3>5. QED  BY <3>2, <3>4 DEF MCSound
  <2>4. QED  BY <2>1, <2>2, <2>3
<1>3. QED  BY <1>1, <1>2, PTL DEF MCSpec

\* A write that finds its blocks leaves in the file what was before the offset
\* and then the buffer, and changes no other file: for every disk, block size,
\* buffer and offset (aofs_write_file).
THEOREM WritesStoreBuffer == MCSpec => []WriteStoresBuffer
<1>1. MCSound => WriteStoresBuffer
  <2>1. SUFFICES ASSUME MCSound, ~disk.astray, NEW name \in Name, NEW B \in Buffer, NEW offset \in 0 .. MaxSize
                 PROVE  LET e == aofs_write_file(disk, name, B, offset)
                        IN  e.astray \/ FilesOf(e) = FS!Written(files, name, B, offset)
    BY DEF WriteStoresBuffer
  <2> DEFINE e == aofs_write_file(disk, name, B, offset)
  <2>2. PICK own, rank : Image(disk, own, rank)  BY <2>1 DEF MCSound, Sound
  <2>3. files = FilesOf(disk)  BY <2>1 DEF MCSound
  <2>4. B \in Seq(Byte) /\ B # <<>> /\ offset \in Nat  BY BufferIs, AOFSAssumption
  <2>5. e = GoAstray(disk) \/ FilesOf(e) = FS!Written(FilesOf(disk), name, B, offset)
    BY <2>1, <2>2, <2>4, FilesWritten
  <2>6. GoAstray(disk).astray  BY <2>2 DEF GoAstray, Image, DiskType
  <2> HIDE DEF e
  <2>7. e.astray \/ FilesOf(e) = FS!Written(files, name, B, offset)  BY <2>3, <2>5, <2>6
  <2>8. QED  BY <2>7 DEF e
<1>2. QED  BY <1>1, MCSoundAlways, PTL

\* A truncation keeps the first bytes of the file and every other file, also
\* when it runs out of blocks (aofs_truncate_file).
THEOREM TruncationsKeepPrefix == MCSpec => []TruncateKeepsPrefix
<1>1. MCSound => TruncateKeepsPrefix
  <2>1. SUFFICES ASSUME MCSound, ~disk.astray, NEW name \in DOMAIN files, NEW size \in 0 .. MaxSize
                 PROVE  FS!Truncated(files, FilesOf(aofs_truncate_file(disk, name, size)), name, size)
    BY DEF TruncateKeepsPrefix
  <2>2. PICK own, rank : Image(disk, own, rank)  BY <2>1 DEF MCSound, Sound
  <2>3. files = FilesOf(disk)  BY <2>1 DEF MCSound
  <2>4. name \in Name /\ Heads(disk, name) # {}  BY <2>1, <2>3, FilesAre
  <2>5. size \in Nat  BY AOFSAssumption
  <2>6. QED  BY <2>1, <2>2, <2>3, <2>4, <2>5, FilesTruncated
<1>2. QED  BY <1>1, MCSoundAlways, PTL

\* Every handler is a step of FileSpec or leaves the files alone.
LEMMA FilesStep ==
    ASSUME MCSound, MCNext
    PROVE  [FS!Next]_files
<1>1. PICK own, rank : Image(disk, own, rank)  BY DEF MCSound, Sound
<1>2. disk \in DiskType  BY <1>1, ImageHas
<1>3. files = FilesOf(disk) /\ files' = FilesOf(disk')  BY DEF MCSound, MCNext
<1>4. ASSUME disk' = disk PROVE files' = files  BY <1>3, <1>4
<1>5. ASSUME NEW name \in Name, aofs_create(name) PROVE FS!Create(name) \/ files' = files
  <2>1. Heads(disk, name) = {}  BY <1>2, <1>5, ExistsIs DEF aofs_create
  <2>2. disk' = aofs_create_file(disk, name).disk  BY <1>5 DEF aofs_create
  <2>3. disk' = disk \/ FilesOf(disk') = FS!Put(FilesOf(disk), name, <<>>)
    BY <1>1, <2>1, <2>2, FilesCreated
  <2>4. name \notin DOMAIN FilesOf(disk)  BY <2>1, FilesAre
  <2>5. QED  BY <1>3, <1>4, <2>3, <2>4 DEF FS!Create
<1>6. ASSUME NEW name \in Name, NEW B \in Buffer, NEW offset \in 0 .. MaxSize, aofs_write(name, B, offset)
      PROVE  FS!Write(name, B, offset) \/ files' = files
  <2>1. ~disk.astray /\ disk' = aofs_write_file(disk, name, B, offset)  BY <1>6 DEF aofs_write
  <2>2. B \in Seq(Byte) /\ B # <<>> /\ offset \in Nat  BY BufferIs, AOFSAssumption
  <2>3. disk' = GoAstray(disk) \/ FilesOf(disk') = FS!Written(FilesOf(disk), name, B, offset)
    BY <1>1, <2>1, <2>2, FilesWritten
  <2>4. FilesOf(GoAstray(disk)) = FilesOf(disk)  BY <1>1, AstrayFiles
  <2>5. QED  BY <1>3, <2>3, <2>4 DEF FS!Write
<1>7. ASSUME NEW name \in Name, aofs_unlink(name) PROVE FS!Unlink(name) \/ files' = files
  <2> DEFINE h == aofs_find_file_head(disk, name)
  <2>1. h = -1 \/ (h \in Heads(disk, name) /\ h # -1)  BY <1>2, FindHeadIs
  <2>2. disk' = IF h = -1 THEN disk ELSE delete_chain(disk, h)  BY <1>7 DEF aofs_unlink, aofs_delete_file
  <2> HIDE DEF h
  <2>3. CASE h = -1  BY <1>4, <2>2, <2>3
  <2>4. CASE h # -1
    <3>1. FilesOf(delete_chain(disk, h)) = FS!Removed(FilesOf(disk), name)  BY <1>1, <2>1, <2>4, FilesUnlinked
    <3>2. QED  BY <1>3, <2>2, <2>4, <3>1 DEF FS!Unlink
  <2>5. QED  BY <2>3, <2>4
<1>8. ASSUME NEW name \in Name, NEW size \in 0 .. MaxSize, aofs_truncate(name, size)
      PROVE  FS!Truncate(name, size) \/ files' = files
  <2>1. ~disk.astray /\ disk' = aofs_truncate_file(disk, name, size)  BY <1>8 DEF aofs_truncate
  <2>2. size \in Nat  BY AOFSAssumption
  <2>3. CASE Heads(disk, name) = {}
    <3>1. aofs_truncate_file(disk, name, size) = disk  BY <1>1, <2>1, <2>2, <2>3, TruncateIs
    <3>2. QED  BY <1>4, <2>1, <3>1
  <2>4. CASE Heads(disk, name) # {}
    <3>1. FS!Truncated(FilesOf(disk), FilesOf(disk'), name, size)
      BY <1>1, <2>1, <2>2, <2>4, FilesTruncated
    <3>2. name \in DOMAIN FilesOf(disk)  BY <2>4, FilesAre
    <3>3. QED  BY <1>3, <3>1, <3>2 DEF FS!Truncate
  <2>5. QED  BY <2>3, <2>4
<1>9. ASSUME NEW name \in Name, aofs_read(name) PROVE files' = files
  <2>1. disk' = disk  BY <1>1, <1>9, HeadWritten DEF aofs_read
  <2>2. QED  BY <1>4, <2>1
<1>10. ASSUME NEW name \in Name, Exists(name), aofs_utimens(name) PROVE files' = files
  <2>1. aofs_find_file_head(disk, name) # -1  BY <1>10 DEF Exists, aofs_getattr
  <2>2. disk' = disk  BY <1>1, <1>10, <2>1, HeadWritten DEF aofs_utimens
  <2>3. QED  BY <1>4, <2>2
<1>11. Next  BY DEF MCNext
<1>12. QED  BY <1>4, <1>5, <1>6, <1>7, <1>8, <1>9, <1>10, <1>11 DEF Next, aofs_release, FS!Next, Buffer

\* Every handler, on chains of reused blocks with leftover bytes, does to the
\* bytes of one file what FileSpec allows, for every disk, block size, set of
\* names and length: the image implements the file system of FileSpec.
THEOREM ImageImplementsFiles == MCSpec => ImplementsFileSpec
<1>1. MCInit => FS!Init
  <2>1. SUFFICES ASSUME MCInit PROVE files = <<>>  BY DEF FS!Init
  <2>2. files = FilesOf(init_fs)  BY <2>1 DEF MCInit, Init
  <2>3. \A f : Heads(init_fs, f) = {}  BY DEF Heads, init_fs
  <2> DEFINE fs == FilesOf(init_fs)
  <2>4. DOMAIN fs = {} /\ fs = [f \in DOMAIN fs |-> fs[f]]  BY <2>3, FilesAre
  <2> HIDE DEF fs
  <2>5. fs = [i \in 1 .. 0 |-> i]  BY <2>4
  <2>6. <<>> = [i \in 1 .. 0 |-> i]  OBVIOUS
  <2>7. QED  BY <2>2, <2>5, <2>6 DEF fs
<1>2. MCSound /\ [MCNext]_<<disk, files>> => [FS!Next]_files  BY FilesStep
<1>3. QED  BY <1>1, <1>2, MCSoundAlways, PTL DEF MCSpec, ImplementsFileSpec, FS!Spec

-----------------------------------------------------------------------------
(* Reading.                                                                *)

LEMMA MinMaxInt ==
    ASSUME NEW a \in Int, NEW b \in Int
    PROVE  Min({a, b}) = (IF a <= b THEN a ELSE b) /\ Max({a, b}) = (IF a >= b THEN a ELSE b)
  BY DEF Min, Max

\* Places of bytes add up.
LEMMA StartsAdd ==
    ASSUME NEW r \in Nat, NEW s \in Nat
    PROVE  Start(r + s) = Start(r) + Start(s)
  BY AOFSAssumption, Z3 DEF Start

\* How a read is divided over its blocks.
PlanType == [num_blocks : Nat, size_f : Nat, size_l : Nat]

\* What ReadPlan computes: blocks after the first, bytes in the first and in the last.
LEMMA PlanIs ==
    ASSUME NEW size \in Nat, size # 0, NEW b \in 0 .. BLOCK_DATA - 1
    PROVE  LET p == ReadPlan(size, b)
           IN  /\ p \in PlanType
               /\ p.num_blocks = 0 => p.size_f = size /\ b + size <= BLOCK_DATA
               /\ p.num_blocks # 0 => /\ p.size_f = BLOCK_DATA - b
                                      /\ p.size_l = b + size - Start(p.num_blocks)
                                      /\ Start(p.num_blocks) < b + size
               /\ b + size <= Start(p.num_blocks) + BLOCK_DATA
               /\ b + size <= BLOCK_DATA => p.num_blocks = 0
<1> DEFINE p == ReadPlan(size, b)
           N == (b + size - 1) \div BLOCK_DATA
           f == IF N = 0 THEN size ELSE BLOCK_DATA - b
           l == IF N = 0 THEN 0 ELSE size - (f + (N - 1) * BLOCK_DATA)
<1>1. p.num_blocks = N /\ p.size_f = f /\ p.size_l = l /\ p = [num_blocks |-> N, size_f |-> f, size_l |-> l]
  BY DEF ReadPlan
<1> HIDE DEF p
<1> DEFINE q == b + size - 1
<1>2. q \in Nat /\ b \in Nat /\ b < BLOCK_DATA /\ BLOCK_DATA \in Nat  BY AOFSAssumption
<1>3. N \in Nat /\ q % BLOCK_DATA \in 0 .. BLOCK_DATA - 1 /\ q = Start(N) + (q % BLOCK_DATA)
  <2> HIDE DEF q
  <2>1. q \div BLOCK_DATA \in Nat /\ q % BLOCK_DATA \in 0 .. BLOCK_DATA - 1 /\ q = Start(q \div BLOCK_DATA) + (q % BLOCK_DATA)
    BY <1>2, Bytes
  <2>2. QED  BY <2>1 DEF q
<1> DEFINE m == q % BLOCK_DATA
<1>4. m \in Nat /\ m < BLOCK_DATA /\ b + size = Start(N) + m + 1
  <2>1. Start(N) \in Nat  BY <1>3, Starts
  <2> HIDE DEF N
  <2>2. QED  BY <1>2, <1>3, <2>1
<1> HIDE DEF N, m
<1>5. Start(N) \in Nat /\ Start(0) = 0  BY <1>3, Starts
<1>6. CASE N = 0
  <2>1. b + size <= BLOCK_DATA  BY <1>2, <1>4, <1>5, <1>6
  <2>2. p \in PlanType  BY <1>1, <1>6 DEF PlanType
  <2>3. b + size <= Start(p.num_blocks) + BLOCK_DATA  BY <1>1, <1>2, <1>5, <1>6, <2>1
  <2>4. QED  BY <1>1, <1>6, <2>1, <2>2, <2>3 DEF p
<1>7. CASE N # 0
  <2>1. N - 1 \in Nat /\ (N - 1) + 1 = N  BY <1>3, <1>7
  <2>2. Start(N) = Start(N - 1) + BLOCK_DATA /\ Start(N - 1) \in Nat  BY <2>1, Starts
  <2>3. (N - 1) * BLOCK_DATA = Start(N - 1)  BY DEF Start
  <2>4. f = BLOCK_DATA - b /\ l = size - (f + Start(N - 1))  BY <1>7, <2>3
  <2> HIDE DEF f, l
  <2>5. f \in Nat /\ l = b + size - Start(N) /\ l \in Nat /\ Start(N) < b + size
    BY <1>2, <1>4, <1>5, <2>2, <2>4
  <2>6. p \in PlanType  BY <1>1, <1>3, <2>5 DEF PlanType
  <2>7. b + size <= Start(N) + BLOCK_DATA /\ ~(b + size <= BLOCK_DATA)
    BY <1>2, <1>4, <1>5, <2>2
  <2>8. QED  BY <1>1, <1>7, <2>4, <2>5, <2>6, <2>7 DEF p
<1>8. QED  BY <1>6, <1>7

\* The bytes of an image, and the buffers that a read may fill with them.
DataOf(d) == {d.block[n].data[k] : n \in BlockNum, k \in Int}
BufOf(d)  == UNION {[D -> DataOf(d)] : D \in SUBSET Int}
\* The states of the reading loop.
RState(d) == [n : BlockNum, buf : BufOf(d), count : Nat, i : Nat]

\* A copy into a buffer is a buffer.
LEMMA CopyIn ==
    ASSUME NEW d, NEW buf \in BufOf(d), NEW pos \in Int, NEW n \in BlockNum, NEW from \in Int, NEW len \in Int
    PROVE  Copy(buf, pos, d.block[n].data, from, len) \in BufOf(d)
<1> DEFINE c == Copy(buf, pos, d.block[n].data, from, len)
<1>1. PICK D \in SUBSET Int : buf \in [D -> DataOf(d)]  BY DEF BufOf
<1> DEFINE E == D \cup pos .. pos + len - 1
<1>2. E \in SUBSET Int  OBVIOUS
<1>3. c = [i \in E |-> IF i \in pos .. pos + len - 1 THEN d.block[n].data[from + i - pos] ELSE buf[i]]
  BY <1>1 DEF Copy
<1>4. ASSUME NEW i \in pos .. pos + len - 1 PROVE d.block[n].data[from + i - pos] \in DataOf(d)
  <2>1. from + i - pos \in Int  OBVIOUS
  <2>2. QED  BY <2>1 DEF DataOf
<1>5. \A i \in E : (IF i \in pos .. pos + len - 1 THEN d.block[n].data[from + i - pos] ELSE buf[i]) \in DataOf(d)
  BY <1>1, <1>4
<1>6. c \in [E -> DataOf(d)]  BY <1>3, <1>5
<1>7. QED  BY <1>2, <1>6 DEF BufOf

\* The rounds of a read.
ReadLoop(d, plan, b, x, k) == Times(LAMBDA s : ReadRound(d, plan, b, s), x, k)

\* A round follows one link and counts its bytes, or the chain has ended.
LEMMA ReadRoundIn ==
    ASSUME NEW d \in DiskType, NEW plan \in PlanType, NEW b \in Nat, NEW s \in RState(d)
    PROVE  LET e == ReadRound(d, plan, b, s)
               nx == d.block[s.n].next
           IN  /\ e \in RState(d)
               /\ nx = -1 => e = s
               /\ nx # -1 => /\ e.n = nx /\ e.i = s.i + 1
                             /\ e.count = s.count + (IF s.i = plan.num_blocks - 1 THEN plan.size_l ELSE BLOCK_DATA)
<1> DEFINE e == ReadRound(d, plan, b, s)
           nx == d.block[s.n].next
           len == IF s.i = plan.num_blocks - 1 THEN plan.size_l ELSE BLOCK_DATA
           m == IF s.i = plan.num_blocks - 1 THEN plan.num_blocks ELSE s.i
           pos == b + BLOCK_DATA * m
           y == Copy(s.buf, pos, d.block[nx].data, 0, len)
<1>1. e = IF nx = -1 THEN s ELSE [n |-> nx, buf |-> y, count |-> s.count + len, i |-> s.i + 1]
  BY DEF ReadRound
<1> HIDE DEF e
<1>2. s.n \in BlockNum /\ s.buf \in BufOf(d) /\ s.count \in Nat /\ s.i \in Nat  BY DEF RState
<1>3. nx = -1 \/ nx \in BlockNum  BY <1>2, DiskHas DEF Num
<1>4. len \in Nat /\ m \in Nat  BY <1>2, AOFSAssumption DEF PlanType
<1> HIDE DEF len, m, nx
<1>5. pos \in Int
  <2>1. Start(m) \in Nat  BY <1>4, Starts
  <2>2. BLOCK_DATA * m = Start(m)  BY <1>4, AOFSAssumption DEF Start
  <2>3. QED  BY <2>1, <2>2
<1> HIDE DEF pos
<1>6. nx \in BlockNum => y \in BufOf(d)
  <2>1. 0 \in Int /\ len \in Int  BY <1>4
  <2>2. QED  BY <1>2, <1>5, <2>1, CopyIn
<1> HIDE DEF y
<1>7. CASE nx = -1  BY <1>1, <1>7 DEF e, nx
<1>8. CASE nx # -1
  <2>1. e = [n |-> nx, buf |-> y, count |-> s.count + len, i |-> s.i + 1]  BY <1>1, <1>8
  <2>2. s.count + len \in Nat /\ s.i + 1 \in Nat  BY <1>2, <1>4
  <2>3. e \in RState(d)  BY <1>3, <1>6, <1>8, <2>1, <2>2 DEF RState
  <2>4. e.n = nx /\ e.i = s.i + 1 /\ e.count = s.count + len  BY <2>1
  <2>5. QED  BY <1>8, <2>3, <2>4 DEF e, nx, len
<1>9. QED  BY <1>7, <1>8

\* t has the state after every round.
ReadTrace(d, plan, b, x, k, t) ==
    /\ t \in [0 .. k -> RState(d)] /\ t[0] = x
    /\ \A i \in 1 .. k : t[i] = ReadRound(d, plan, b, t[i - 1])
    /\ ReadLoop(d, plan, b, x, k) = t[k]

\* The rounds of a read, one by one.
LEMMA ReadRounds ==
    ASSUME NEW d \in DiskType, NEW plan \in PlanType, NEW b \in Nat, NEW x \in RState(d), NEW k \in Nat
    PROVE  \E t : ReadTrace(d, plan, b, x, k, t)
<1> DEFINE S == RState(d)
           f == [s \in S |-> ReadRound(d, plan, b, s)]
<1>1. f \in [S -> S]  BY ReadRoundIn
<1>2. \A s \in S : f[s] = ReadRound(d, plan, b, s)  OBVIOUS
<1> HIDE DEF f, S
<1>0. x \in S  BY DEF S
<1>3. PICK t : Rounds(f, S, x, k, t)  BY <1>0, <1>1, RoundsExist
<1>4. t \in [0 .. k -> S] /\ t[0] = x /\ \A i \in 1 .. k : t[i] = f[t[i - 1]]  BY <1>3 DEF Rounds
<1>5. \A i \in 1 .. k : t[i] = ReadRound(d, plan, b, t[i - 1])
  <2>1. ASSUME NEW i \in 1 .. k PROVE t[i] = ReadRound(d, plan, b, t[i - 1])
    <3>1. i - 1 \in 0 .. k  OBVIOUS
    <3>2. t[i - 1] \in S  BY <1>4, <3>1
    <3>3. QED  BY <1>2, <1>4, <3>2
  <2>2. QED  BY <2>1
<1> DEFINE Eq(r) == r = [j \in 0 .. k |-> IF j = 0 THEN x ELSE ReadRound(d, plan, b, r[j - 1])]
<1>6. ReadLoop(d, plan, b, x, k) = (CHOOSE r : Eq(r))[k]  BY Zenon DEF ReadLoop, Times
<1>7. Eq(t)
  <2>1. ASSUME NEW j \in 0 .. k PROVE t[j] = IF j = 0 THEN x ELSE ReadRound(d, plan, b, t[j - 1])
    <3>1. CASE j = 0  BY <1>4, <3>1
    <3>2. CASE j # 0  BY <1>5, <3>2
    <3>3. QED  BY <3>1, <3>2
  <2>2. QED  BY <1>4, <2>1
<1> DEFINE r == CHOOSE r : Eq(r)
<1>8. Eq(r)  BY <1>7
<1> HIDE DEF r
<1>9. r[0] = x /\ \A j \in 1 .. k : r[j - 1] \in S => r[j] = f[r[j - 1]]  BY <1>2, <1>8
<1>10. r[k] = t[k]  BY <1>0, <1>1, <1>3, <1>9, RoundsOnly
<1>11. QED  BY <1>4, <1>5, <1>6, <1>10 DEF r, S, ReadTrace

\* The length of a chain in bytes, by its last block.
LEMMA FullLength ==
    ASSUME NEW d \in DiskType, NEW own, NEW rank, Placed(d, own, rank), NEW h \in d.bitmap, own[h] = h,
           NEW m \in d.bitmap, own[m] = h, d.block[m].next = -1
    PROVE  Len(ChainBytes(d, h)) = Start(rank[m]) + BLOCK_DATA
<1> DEFINE w == ChainBytes(d, h)
<1>1. Holds(d, own, rank, h, w) /\ Start(rank[m]) + BLOCK_DATA <= Len(w)  BY ChainBytesAre
<1> HIDE DEF w
<1>2. Len(w) \in Nat  BY <1>1, LenProperties DEF Holds
<1>3. rank[m] \in Nat /\ \A n \in d.bitmap : rank[n] \in Nat  BY DEF Placed
<1>4. Start(rank[m]) \in Nat  BY <1>3, Starts
<1>5. Len(w) # 0  BY <1>1, <1>2, <1>4, AOFSAssumption
<1>6. Len(w) - 1 \in 0 .. Len(w) - 1  BY <1>2, <1>5
<1>7. PICK n \in d.bitmap, j \in 0 .. BLOCK_DATA - 1 : own[n] = h /\ Len(w) - 1 = Start(rank[n]) + j
  BY <1>1, <1>6 DEF Holds
<1>8. rank[n] <= rank[m]  BY <1>7, LastIsLast
<1>9. Start(rank[n]) \in Nat  BY <1>3, Starts
<1>10. Start(rank[n]) <= Start(rank[m])
  <2>1. CASE rank[n] = rank[m]  BY <1>4, <2>1
  <2>2. CASE rank[n] # rank[m]
    <3>1. rank[n] < rank[m]  BY <1>3, <1>8, <2>2
    <3>2. Start(rank[n]) + BLOCK_DATA <= Start(rank[m])  BY <1>3, <3>1, Starts
    <3>3. QED  BY <1>4, <1>9, <3>2, AOFSAssumption
  <2>3. QED  BY <2>1, <2>2
<1>11. Len(w) = Start(rank[m]) + BLOCK_DATA  BY <1>1, <1>2, <1>4, <1>7, <1>9, <1>10, AOFSAssumption
<1>12. QED  BY <1>11 DEF w

\* Where a read that began at block n0 is: s.i blocks further, with what they hold counted.
ReaderAt(d, own, rank, n0, plan, size, b, s) ==
    /\ s.n \in d.bitmap /\ own[s.n] = own[n0] /\ rank[s.n] = rank[n0] + s.i
    /\ s.i <= plan.num_blocks
    /\ s.count = IF s.i = plan.num_blocks THEN size ELSE Start(s.i) + BLOCK_DATA - b

\* A round that finds a block.
LEMMA ReaderMoves ==
    ASSUME NEW d \in DiskType, NEW own, NEW rank, Placed(d, own, rank), NEW n0 \in d.bitmap,
           NEW size \in Nat, size # 0, NEW b \in 0 .. BLOCK_DATA - 1, NEW plan, plan = ReadPlan(size, b),
           NEW s \in RState(d), ReaderAt(d, own, rank, n0, plan, size, b, s), s.i < plan.num_blocks,
           d.block[s.n].next # -1
    PROVE  ReaderAt(d, own, rank, n0, plan, size, b, ReadRound(d, plan, b, s))
<1> DEFINE e == ReadRound(d, plan, b, s)
           N == plan.num_blocks
<1>1. /\ plan \in PlanType
      /\ plan.num_blocks # 0 => plan.size_l = b + size - Start(plan.num_blocks)
  BY PlanIs
<1>2. b \in Nat /\ BLOCK_DATA \in Nat  BY AOFSAssumption
<1>3. /\ e.n = d.block[s.n].next /\ e.i = s.i + 1
      /\ e.count = s.count + (IF s.i = plan.num_blocks - 1 THEN plan.size_l ELSE BLOCK_DATA)
  BY <1>1, <1>2, ReadRoundIn
<1>4. s.n \in d.bitmap /\ own[s.n] = own[n0] /\ rank[s.n] = rank[n0] + s.i /\ s.count = Start(s.i) + BLOCK_DATA - b
  <2>1. s.i # plan.num_blocks  BY <1>1 DEF PlanType, RState
  <2>2. QED  BY <2>1 DEF ReaderAt
<1>5. N \in Nat /\ s.i \in Nat /\ s.i < N /\ N # 0 /\ rank[n0] \in Nat  BY <1>1 DEF PlanType, RState, Placed
<1> HIDE DEF e, N
<1>6. e.n \in d.bitmap /\ own[e.n] = own[n0] /\ rank[e.n] = rank[n0] + e.i
  <2>1. e.n \in d.bitmap /\ own[e.n] = own[s.n] /\ rank[e.n] = rank[s.n] + 1  BY <1>3, <1>4 DEF Placed
  <2>2. QED  BY <1>3, <1>4, <1>5, <2>1
<1>7. Start(s.i) \in Nat /\ Start(s.i + 1) = Start(s.i) + BLOCK_DATA  BY <1>5, Starts
<1>8. e.count = IF e.i = N THEN size ELSE Start(e.i) + BLOCK_DATA - b
  <2>1. CASE s.i = N - 1
    <3>1. e.i = N /\ e.count = s.count + plan.size_l  BY <1>3, <1>5, <2>1 DEF N
    <3>2. Start(N) = Start(s.i) + BLOCK_DATA  BY <1>5, <1>7, <2>1
    <3>3. plan.size_l = b + size - Start(N)  BY <1>1, <1>5 DEF N
    <3>4. e.count = size  BY <1>2, <1>4, <1>7, <3>1, <3>2, <3>3
    <3>5. QED  BY <3>1, <3>4
  <2>2. CASE s.i # N - 1
    <3>1. e.i # N /\ e.count = s.count + BLOCK_DATA  BY <1>3, <1>5, <2>2 DEF N
    <3>2. e.count = Start(e.i) + BLOCK_DATA - b  BY <1>2, <1>3, <1>4, <1>7, <3>1
    <3>3. QED  BY <3>1, <3>2
  <2>3. QED  BY <2>1, <2>2
<1>9. e.i <= N  BY <1>3, <1>5
<1>10. ReaderAt(d, own, rank, n0, plan, size, b, e)  BY <1>6, <1>8, <1>9 DEF ReaderAt, N
<1>11. QED  BY <1>10 DEF e

\* The reader at the end of its rounds.
ReaderDone(d, own, rank, n0, plan, size, b, e) ==
    /\ ReaderAt(d, own, rank, n0, plan, size, b, e)
    /\ e.i = plan.num_blocks \/ d.block[e.n].next = -1
    /\ e \in RState(d)

\* The rounds end at the last block wanted or at the end of the chain.
LEMMA ReaderEnds ==
    ASSUME NEW d \in DiskType, NEW own, NEW rank, Placed(d, own, rank), NEW n0 \in d.bitmap,
           NEW size \in Nat, size # 0, NEW b \in 0 .. BLOCK_DATA - 1, NEW plan, plan = ReadPlan(size, b),
           NEW x \in RState(d), x.n = n0, x.i = 0, x.count = plan.size_f
    PROVE  ReaderDone(d, own, rank, n0, plan, size, b, ReadLoop(d, plan, b, x, plan.num_blocks))
<1> DEFINE N == plan.num_blocks
           At(s) == ReaderAt(d, own, rank, n0, plan, size, b, s)
<1>1. /\ plan \in PlanType
      /\ plan.num_blocks = 0 => plan.size_f = size
      /\ plan.num_blocks # 0 => plan.size_f = BLOCK_DATA - b
  BY PlanIs
<1>2. b \in Nat /\ BLOCK_DATA \in Nat /\ N \in Nat  BY <1>1, AOFSAssumption DEF PlanType
<1>3. PICK t : /\ t \in [0 .. N -> RState(d)] /\ t[0] = x
               /\ \A i \in 1 .. N : t[i] = ReadRound(d, plan, b, t[i - 1])
               /\ ReadLoop(d, plan, b, x, N) = t[N]
  <2>1. PICK t : ReadTrace(d, plan, b, x, N, t)
    <3> HIDE DEF N
    <3>1. QED  BY <1>1, <1>2, ReadRounds
  <2>2. QED  BY <2>1 DEF ReadTrace
<1>4. At(x)
  <2>1. rank[n0] \in Nat /\ Start(0) = 0  BY Starts DEF Placed
  <2>2. x.count = IF x.i = plan.num_blocks THEN size ELSE Start(x.i) + BLOCK_DATA - b  BY <1>1, <1>2, <2>1
  <2>3. QED  BY <1>2, <2>1, <2>2 DEF ReaderAt
<1> HIDE DEF At
<1> DEFINE I == {i \in 0 .. N : At(t[i]) /\ (t[i].i = i \/ d.block[t[i].n].next = -1)}
<1>5. 0 \in I  BY <1>2, <1>3, <1>4
<1>6. ASSUME NEW i \in 0 .. N - 1, i \in I PROVE i + 1 \in I
  <2>1. i \in 0 .. N /\ i + 1 \in 1 .. N /\ i + 1 - 1 = i /\ i + 1 \in 0 .. N /\ i < N  BY <1>2
  <2>2. t[i + 1] = ReadRound(d, plan, b, t[i]) /\ t[i] \in RState(d)  BY <1>3, <2>1
  <2>3. At(t[i]) /\ (t[i].i = i \/ d.block[t[i].n].next = -1)  BY <1>6
  <2>4. CASE d.block[t[i].n].next = -1
    <3>1. t[i + 1] = t[i]  BY <1>1, <1>2, <2>2, <2>4, ReadRoundIn
    <3>2. QED  BY <2>1, <2>3, <2>4, <3>1
  <2>5. CASE d.block[t[i].n].next # -1
    <3>1. t[i].i = i /\ t[i].i < plan.num_blocks  BY <2>1, <2>3, <2>5
    <3>2. At(t[i + 1])  BY <2>2, <2>3, <2>5, <3>1, ReaderMoves DEF At
    <3>3. t[i + 1].i = i + 1  BY <1>1, <1>2, <2>2, <2>5, <3>1, ReadRoundIn
    <3>4. QED  BY <2>1, <3>2, <3>3
  <2>6. QED  BY <2>4, <2>5
<1> HIDE DEF I
<1>7. \A i \in 0 .. N : i \in I  BY <1>2, <1>5, <1>6, Inductive
<1>8. At(t[N]) /\ (t[N].i = N \/ d.block[t[N].n].next = -1) /\ t[N] \in RState(d)
  BY <1>2, <1>3, <1>7 DEF I
<1>9. QED  BY <1>3, <1>8 DEF At, ReaderDone

\* The loop counts the bytes asked for, or those that the chain still has.
LEMMA LoopCounts ==
    ASSUME NEW d \in DiskType, NEW own, NEW rank, Placed(d, own, rank), NEW h \in d.bitmap, own[h] = h,
           NEW n0 \in d.bitmap, own[n0] = h,
           NEW size \in Nat, size # 0, NEW b \in 0 .. BLOCK_DATA - 1, NEW plan, plan = ReadPlan(size, b),
           NEW x \in RState(d), x.n = n0, x.i = 0, x.count = plan.size_f
    PROVE  LET left == Len(ChainBytes(d, h)) - (Start(rank[n0]) + b)
           IN  /\ left \in Nat
               /\ ReadLoop(d, plan, b, x, plan.num_blocks).count = IF size <= left THEN size ELSE left
<1> DEFINE e == ReadLoop(d, plan, b, x, plan.num_blocks)
           N == plan.num_blocks
           L == Len(ChainBytes(d, h))
           left == L - (Start(rank[n0]) + b)
<1>1. /\ ReaderAt(d, own, rank, n0, plan, size, b, e)
      /\ e.i = plan.num_blocks \/ d.block[e.n].next = -1
      /\ e \in RState(d)
  <2>1. ReaderDone(d, own, rank, n0, plan, size, b, e)  BY ReaderEnds
  <2> HIDE DEF e
  <2>2. QED  BY <2>1 DEF ReaderDone
<1>2. /\ plan \in PlanType
      /\ plan.num_blocks # 0 => Start(plan.num_blocks) < b + size
      /\ b + size <= Start(plan.num_blocks) + BLOCK_DATA
  BY PlanIs
<1> HIDE DEF e, N
<1>3. /\ e.n \in d.bitmap /\ own[e.n] = h /\ rank[e.n] = rank[n0] + e.i /\ e.i <= N
      /\ e.count = IF e.i = N THEN size ELSE Start(e.i) + BLOCK_DATA - b
  BY <1>1 DEF ReaderAt, N
<1>4. N \in Nat /\ e.i \in Nat /\ rank[n0] \in Nat /\ b \in Nat /\ b < BLOCK_DATA /\ BLOCK_DATA \in Nat
  BY <1>1, <1>2, AOFSAssumption DEF PlanType, RState, Placed, N
<1>5. Start(rank[e.n]) = Start(rank[n0]) + Start(e.i) /\ Start(rank[n0]) \in Nat /\ Start(e.i) \in Nat
  <2>1. Start(rank[n0] + e.i) = Start(rank[n0]) + Start(e.i)  BY <1>4, StartsAdd
  <2>2. Start(rank[n0]) \in Nat /\ Start(e.i) \in Nat  BY <1>4, Starts
  <2>3. QED  BY <1>3, <2>1, <2>2
<1>6. L \in Nat /\ Start(rank[e.n]) + BLOCK_DATA <= L /\ Start(rank[n0]) + BLOCK_DATA <= L
  <2>1. Holds(d, own, rank, h, ChainBytes(d, h)) /\ \A n \in d.bitmap : own[n] = h => Start(rank[n]) + BLOCK_DATA <= L
    BY ChainBytesAre
  <2>2. ChainBytes(d, h) \in Seq(Byte \cup {0})  BY <2>1 DEF Holds
  <2>3. L \in Nat  BY <2>2, LenProperties
  <2>4. QED  BY <1>3, <2>1, <2>3
<1>7. left \in Nat
  <2> HIDE DEF L
  <2>1. QED  BY <1>4, <1>5, <1>6
<1>8. e.count = IF size <= left THEN size ELSE left
  <2>1. CASE e.i = N
    <3>1. b + size <= Start(e.i) + BLOCK_DATA  BY <1>2, <2>1 DEF N
    <3> HIDE DEF L
    <3>2. size <= left  BY <1>4, <1>5, <1>6, <3>1
    <3>3. QED  BY <1>3, <2>1, <3>2
  <2>2. CASE e.i # N
    <3>1. d.block[e.n].next = -1  BY <1>1, <2>2 DEF N
    <3>2. L = Start(rank[e.n]) + BLOCK_DATA  BY <1>3, <3>1, FullLength
    <3>3. e.count = Start(e.i) + BLOCK_DATA - b  BY <1>3, <2>2
    <3>4. e.i < N /\ N # 0  BY <1>3, <1>4, <2>2
    <3>5. Start(e.i) + BLOCK_DATA <= Start(N) /\ Start(N) \in Nat  BY <1>4, <3>4, Starts
    <3>6. Start(N) < b + size  BY <1>2, <3>4 DEF N
    <3> HIDE DEF L
    <3>7. left = Start(e.i) + BLOCK_DATA - b  BY <1>4, <1>5, <3>2
    <3>8. ~(size <= left)  BY <1>4, <1>5, <3>5, <3>6, <3>7
    <3>9. QED  BY <3>3, <3>7, <3>8
  <2>3. QED  BY <2>1, <2>2
<1>9. QED  BY <1>7, <1>8 DEF e

\* The block with the byte at offset.
LEMMA SeekByte ==
    ASSUME NEW d \in DiskType, NEW own, NEW rank, Placed(d, own, rank), NEW h \in d.bitmap, own[h] = h,
           NEW offset \in Nat
    PROVE  LET n == Seek(d, h, offset \div BLOCK_DATA)
           IN  /\ n # -1 => n \in d.bitmap /\ own[n] = h /\ rank[n] = offset \div BLOCK_DATA
               /\ offset < Len(ChainBytes(d, h)) => n # -1
<1> DEFINE r == offset \div BLOCK_DATA
           n == Seek(d, h, r)
           w == ChainBytes(d, h)
<1>1. r \in Nat /\ offset % BLOCK_DATA \in 0 .. BLOCK_DATA - 1 /\ offset = Start(r) + (offset % BLOCK_DATA)
  BY Bytes
<1>2. Holds(d, own, rank, h, w)  BY ChainBytesAre
<1> HIDE DEF r, w
<1>3. rank[h] = 0 /\ \A m \in d.bitmap : rank[m] \in Nat  BY DEF Placed
<1>4. n # -1 => n \in d.bitmap /\ own[n] = h /\ rank[n] = r
  <2>1. n # -1 => n \in d.bitmap /\ own[n] = own[h] /\ rank[n] = rank[h] + r  BY <1>1, SeekForward
  <2>2. QED  BY <1>1, <1>3, <2>1
<1>5. ASSUME offset < Len(w) PROVE n # -1
  <2>1. Len(w) \in Nat  BY <1>2, LenProperties DEF Holds
  <2>2. offset \in 0 .. Len(w) - 1  BY <1>5, <2>1
  <2>3. PICK m \in d.bitmap, j \in 0 .. BLOCK_DATA - 1 : own[m] = h /\ offset = Start(rank[m]) + j
    BY <1>2, <2>2 DEF Holds
  <2>4. rank[m] = r
    <3>1. rank[m] \in Nat  BY <1>3
    <3>2. (Start(rank[m]) + j) \div BLOCK_DATA = rank[m]  BY <3>1, ByteOf
    <3>3. QED  BY <2>3, <3>2 DEF r
  <2>5. rank[m] = rank[h] + r /\ own[m] = own[h]  BY <1>1, <1>3, <2>3, <2>4
  <2>6. n = m  BY <1>1, <2>5, SeekBack
  <2>7. -1 \notin d.bitmap  BY DiskHas
  <2>8. QED  BY <2>6, <2>7
<1>6. QED  BY <1>4, <1>5 DEF r, w

\* The empty buffer is a buffer.
LEMMA EmptyBuf == ASSUME NEW d PROVE <<>> \in BufOf(d)
<1>1. <<>> \in [{} -> DataOf(d)]  OBVIOUS
<1>2. {} \in SUBSET Int  OBVIOUS
<1>3. QED  BY <1>1, <1>2 DEF BufOf

\* What aofs_read_file is when it finds its first block n.
ReadFrom(d, n, size, b) ==
    LET plan == ReadPlan(size, b)
    IN  ReadLoop(d, plan, b, [n |-> n, buf |-> Copy(<<>>, 0, d.block[n].data, b, plan.size_f),
                              count |-> plan.size_f, i |-> 0], plan.num_blocks)

\* aofs_read_file seeks its first block and reads from there.
LEMMA ReadFileIs ==
    ASSUME NEW d \in DiskType, NEW own, NEW rank, Placed(d, own, rank), NEW name, NEW h \in d.bitmap, own[h] = h,
           aofs_find_file_head(d, name) = h, NEW size, NEW offset \in Nat
    PROVE  LET n == Seek(d, h, offset \div BLOCK_DATA)
           IN  aofs_read_file(d, name, size, offset) =
                   IF n = -1 THEN [buf |-> <<>>, count |-> 0] ELSE ReadFrom(d, n, size, offset % BLOCK_DATA)
<1> DEFINE r == offset \div BLOCK_DATA
           b == offset - r * BLOCK_DATA
           n == Seek(d, h, r)
<1>1. b = offset % BLOCK_DATA
  <2>1. r \in Nat /\ offset % BLOCK_DATA \in 0 .. BLOCK_DATA - 1 /\ offset = Start(r) + (offset % BLOCK_DATA)
    BY Bytes
  <2>2. Start(r) = r * BLOCK_DATA  BY DEF Start
  <2>3. Start(r) \in Nat  BY <2>1, Starts
  <2> HIDE DEF r
  <2>4. QED  BY <2>1, <2>2, <2>3
<1>2. aofs_read_file(d, name, size, offset) =
          IF n = -1 THEN [buf |-> <<>>, count |-> 0] ELSE ReadFrom(d, n, size, b)
  BY Zenon DEF aofs_read_file, ReadFrom, ReadLoop
<1> HIDE DEF b
<1>3. QED  BY <1>1, <1>2

\* The count of a read of an existing file.
LEMMA ReadCounts ==
    ASSUME NEW d, NEW own, NEW rank, Image(d, own, rank), NEW name, NEW h \in Heads(d, name),
           NEW size \in Nat, size # 0, NEW offset \in Nat
    PROVE  aofs_read_file(d, name, size, offset).count = Max({0, Min({size, Len(ChainBytes(d, h)) - offset})})
<1>1. d \in DiskType /\ Placed(d, own, rank)  BY DEF Image
<1>2. aofs_find_file_head(d, name) = h /\ h \in d.bitmap /\ own[h] = h  BY TheHead
<1> DEFINE L == Len(ChainBytes(d, h))
           r == offset \div BLOCK_DATA
           b == offset % BLOCK_DATA
           n == Seek(d, h, r)
           c == aofs_read_file(d, name, size, offset).count
           left == L - offset
<1>3. r \in Nat /\ b \in 0 .. BLOCK_DATA - 1 /\ offset = Start(r) + b  BY Bytes
<1>4. L \in Nat
  <2>1. Holds(d, own, rank, h, ChainBytes(d, h))  BY <1>1, <1>2, ChainBytesAre
  <2>2. ChainBytes(d, h) \in Seq(Byte \cup {0})  BY <2>1 DEF Holds
  <2>3. QED  BY <2>2, LenProperties
<1>5. /\ n # -1 => n \in d.bitmap /\ own[n] = h /\ rank[n] = r
      /\ offset < L => n # -1
  BY <1>1, <1>2, SeekByte
<1>6. aofs_read_file(d, name, size, offset) =
          IF n = -1 THEN [buf |-> <<>>, count |-> 0] ELSE ReadFrom(d, n, size, b)
  BY <1>1, <1>2, ReadFileIs
<1> HIDE DEF L
<1>7. c = IF left < 0 THEN 0 ELSE IF size <= left THEN size ELSE left
  <2>1. CASE n = -1
    <3>1. c = 0  BY <1>6, <2>1
    <3>2. left \in Int /\ left <= 0  BY <1>4, <1>5, <2>1
    <3>3. QED  BY <3>1, <3>2
  <2>2. CASE n # -1
    <3> DEFINE plan == ReadPlan(size, b)
               x == [n |-> n, buf |-> Copy(<<>>, 0, d.block[n].data, b, plan.size_f), count |-> plan.size_f, i |-> 0]
    <3>1. n \in d.bitmap /\ own[n] = h /\ rank[n] = r /\ n \in BlockNum  BY <1>1, <1>5, <2>2, DiskHas
    <3>2. c = ReadLoop(d, plan, b, x, plan.num_blocks).count  BY <1>6, <2>2 DEF ReadFrom
    <3> HIDE DEF n, c, b, r
    <3>3. plan \in PlanType  BY <1>3, PlanIs
    <3> HIDE DEF plan
    <3>4. plan = ReadPlan(size, b)  BY DEF plan
    <3>5. x \in RState(d) /\ x.n = n /\ x.i = 0 /\ x.count = plan.size_f
      <4>1. plan.size_f \in Nat /\ plan.size_f \in Int  BY <3>3 DEF PlanType
      <4>2. Copy(<<>>, 0, d.block[n].data, b, plan.size_f) \in BufOf(d)
        <5>1. b \in Int /\ 0 \in Int  BY <1>3
        <5>2. QED  BY <3>1, <4>1, <5>1, EmptyBuf, CopyIn
      <4>3. QED  BY <3>1, <4>1, <4>2 DEF RState, x
    <3> HIDE DEF x
    <3> DEFINE l == Len(ChainBytes(d, h)) - (Start(rank[n]) + b)
    <3>6. l \in Nat /\ ReadLoop(d, plan, b, x, plan.num_blocks).count = IF size <= l THEN size ELSE l
      BY <1>1, <1>2, <1>3, <3>1, <3>4, <3>5, LoopCounts
    <3>7. l = left  BY <1>3, <3>1 DEF L
    <3>8. QED  BY <3>2, <3>6, <3>7
  <2>3. QED  BY <2>1, <2>2
<1> HIDE DEF c
<1>8. left \in Int /\ size \in Int /\ 0 \in Int  BY <1>4
<1> HIDE DEF left
<1> DEFINE m == Min({size, left})
<1>9. m = (IF size <= left THEN size ELSE left) /\ m \in Int  BY <1>8, MinMaxInt
<1> HIDE DEF m
<1>10. Max({0, m}) = IF 0 >= m THEN 0 ELSE m  BY <1>8, <1>9, MinMaxInt
<1>11. c = Max({0, m})  BY <1>7, <1>8, <1>9, <1>10
<1>12. QED  BY <1>11 DEF c, m, left, L

\* The file is the beginning of what its chain holds.
LEMMA FileBegins ==
    ASSUME NEW d, NEW own, NEW rank, Image(d, own, rank), NEW name, NEW h \in Heads(d, name)
    PROVE  LET all  == ChainBytes(d, h)
               file == Contents(d, aofs_find_file_head(d, name))
           IN  /\ Len(all) \in Nat /\ Len(file) \in Nat /\ Len(file) <= Len(all)
               /\ \A i \in 1 .. Len(file) : file[i] = all[i]
<1>1. d \in DiskType /\ Placed(d, own, rank)  BY DEF Image
<1>2. aofs_find_file_head(d, name) = h /\ h \in d.bitmap /\ own[h] = h  BY TheHead
<1> DEFINE all == ChainBytes(d, h)
           k == Min({d.block[h].st_size, Len(all)})
<1>3. all \in Seq(Byte \cup {0})
  <2>1. Holds(d, own, rank, h, ChainBytes(d, h))  BY <1>1, <1>2, ChainBytesAre
  <2>2. QED  BY <2>1 DEF Holds
<1>4. Len(all) \in Nat  BY <1>3, LenProperties
<1>5. Contents(d, h) = SubSeq(all, 1, k)  BY DEF Contents
<1>6. d.block[h].st_size \in Nat  BY <1>1, <1>2, DiskHas
<1> HIDE DEF all
<1>7. k \in Nat /\ k <= Len(all)  BY <1>4, <1>6, MinTwo
<1> HIDE DEF k
<1>8. Len(SubSeq(all, 1, k)) = k /\ \A i \in 1 .. k : SubSeq(all, 1, k)[i] = all[i]
  <2>1. CASE k = 0
    <3>1. SubSeq(all, 1, k) = <<>>  BY <1>3, <1>4, <2>1, SubSeqProperties
    <3>2. QED  BY <2>1, <3>1
  <2>2. CASE k # 0
    <3>1. 1 \in 1 .. Len(all) + 1 /\ k \in 0 .. Len(all) /\ k \in 1 .. Len(all)  BY <1>4, <1>7, <2>2
    <3>2. Len(SubSeq(all, 1, k)) = k /\ \A i \in 1 .. k : SubSeq(all, 1, k)[i] = all[1 + i - 1]
      BY <1>3, <1>4, <1>7, <3>1, SubSeqProperties
    <3>3. QED  BY <1>7, <3>2
  <2>3. QED  BY <2>1, <2>2
<1>9. QED  BY <1>2, <1>4, <1>5, <1>7, <1>8 DEF all

\* A read that begins in the file counts the bytes asked for or at least those left
\* in it, for every block size, offset and size (aofs_read_file: first block,
\* middle blocks, last block, early returns).
THEOREM ReadsCount == Spec => []ReadCountsFileBytes
<1>1. Sound => ReadCountsFileBytes
  <2>1. SUFFICES ASSUME Sound, NEW name \in Name, NEW size \in 1 .. MaxLen, NEW offset \in 0 .. MaxSize, Exists(name),
                        Len(FileOf(name)) - offset > 0
                 PROVE  LET left  == Len(FileOf(name)) - offset
                            count == aofs_read_file(disk, name, size, offset).count
                        IN  count <= size /\ (count >= left \/ count = size)
    BY DEF ReadCountsFileBytes
  <2>2. PICK own, rank : Image(disk, own, rank)  BY <2>1 DEF Sound
  <2>3. disk \in DiskType  BY <2>2, ImageHas
  <2>4. PICK h : h \in Heads(disk, name)  BY <2>1, <2>3, ExistsIs
  <2> DEFINE count == aofs_read_file(disk, name, size, offset).count
             file == FileOf(name)
             all == ChainBytes(disk, h)
  <2>5. Len(all) \in Nat /\ Len(file) \in Nat /\ Len(file) <= Len(all)  BY <2>2, <2>4, FileBegins DEF FileOf
  <2>6. size \in Nat /\ size # 0 /\ offset \in Nat  BY AOFSAssumption
  <2>7. count = Max({0, Min({size, Len(all) - offset})})  BY <2>2, <2>4, <2>6, ReadCounts
  <2>8. Len(file) - offset > 0  BY <2>1
  <2> HIDE DEF count, file, all
  <2> DEFINE rest == Len(all) - offset
             m == Min({size, rest})
  <2>9. rest \in Int /\ rest > 0 /\ rest >= Len(file) - offset  BY <2>5, <2>6, <2>8
  <2>10. size \in Int /\ 0 \in Int  BY <2>6
  <2> HIDE DEF rest
  <2>11. m = (IF size <= rest THEN size ELSE rest) /\ m \in Int  BY <2>9, <2>10, MinMaxInt
  <2> HIDE DEF m
  <2>12. Max({0, m}) = IF 0 >= m THEN 0 ELSE m  BY <2>10, <2>11, MinMaxInt
  <2>13. count = m  BY <2>6, <2>7, <2>9, <2>11, <2>12 DEF m, rest
  <2>14. count <= size /\ (count >= Len(file) - offset \/ count = size)
    BY <2>5, <2>6, <2>9, <2>11, <2>13
  <2>15. QED  BY <2>14 DEF count, file
<1>2. QED  BY <1>1, ImageSound, PTL

\* The bytes of a read inside one block.
LEMMA ReadsOneBlock ==
    ASSUME NEW d, NEW own, NEW rank, Image(d, own, rank), NEW name, NEW h \in Heads(d, name),
           NEW size \in Nat, size # 0, NEW offset \in Nat, (offset % BLOCK_DATA) + size <= BLOCK_DATA,
           offset < Len(ChainBytes(d, h)), NEW i \in 0 .. size - 1
    PROVE  aofs_read_file(d, name, size, offset).buf[i] = ChainBytes(d, h)[offset + i + 1]
<1>1. d \in DiskType /\ Placed(d, own, rank)  BY DEF Image
<1>2. aofs_find_file_head(d, name) = h /\ h \in d.bitmap /\ own[h] = h  BY TheHead
<1> DEFINE w == ChainBytes(d, h)
           r == offset \div BLOCK_DATA
           b == offset % BLOCK_DATA
           n == Seek(d, h, r)
           plan == ReadPlan(size, b)
           first == Copy(<<>>, 0, d.block[n].data, b, plan.size_f)
           x == [n |-> n, buf |-> first, count |-> plan.size_f, i |-> 0]
<1>3. r \in Nat /\ b \in 0 .. BLOCK_DATA - 1 /\ offset = Start(r) + b  BY Bytes
<1>4. n \in d.bitmap /\ own[n] = h /\ rank[n] = r /\ n # -1  BY <1>1, <1>2, SeekByte
<1>5. aofs_read_file(d, name, size, offset) = ReadFrom(d, n, size, b)  BY <1>1, <1>2, <1>4, ReadFileIs
<1>6. n \in BlockNum  BY <1>1, <1>4, DiskHas
<1>7. plan \in PlanType /\ plan.num_blocks = 0 /\ plan.size_f = size
  <2>1. b + size <= BLOCK_DATA  OBVIOUS
  <2> HIDE DEF b
  <2>2. QED  BY <1>3, <2>1, PlanIs
<1>8. ReadFrom(d, n, size, b) = ReadLoop(d, plan, b, x, plan.num_blocks)  BY DEF ReadFrom
<1> HIDE DEF n, plan, b, r
<1>9. x \in RState(d)
  <2>1. b \in Int /\ 0 \in Int /\ plan.size_f \in Int /\ plan.size_f \in Nat  BY <1>3, <1>7
  <2>2. first \in BufOf(d)  BY <1>6, <2>1, EmptyBuf, CopyIn
  <2> HIDE DEF first
  <2>3. QED  BY <1>6, <2>1, <2>2 DEF RState
<1> HIDE DEF x
<1>10. ReadLoop(d, plan, b, x, plan.num_blocks) = x
  <2> DEFINE k == plan.num_blocks
  <2>1. k \in Nat /\ b \in Nat /\ k = 0  BY <1>3, <1>7
  <2> HIDE DEF k
  <2>2. PICK t : ReadTrace(d, plan, b, x, k, t)  BY <1>1, <1>7, <1>9, <2>1, ReadRounds
  <2>3. ReadLoop(d, plan, b, x, k) = x  BY <2>1, <2>2 DEF ReadTrace
  <2>4. QED  BY <2>3 DEF k
<1>11. aofs_read_file(d, name, size, offset).buf = first  BY <1>5, <1>8, <1>10 DEF x
<1>12. first[i] = d.block[n].data[b + i]
  <2>1. first = [p \in {} \cup 0 .. 0 + plan.size_f - 1 |->
                    IF p \in 0 .. 0 + plan.size_f - 1 THEN d.block[n].data[b + p - 0] ELSE <<>>[p]]
    BY DEF Copy
  <2>2. i \in 0 .. 0 + plan.size_f - 1 /\ b + i - 0 = b + i  BY <1>3, <1>7
  <2>3. QED  BY <2>1, <2>2
<1> HIDE DEF first, w
<1>13. b + i \in 0 .. BLOCK_DATA - 1 /\ offset + i = Start(r) + (b + i) /\ Start(r) \in Nat
  <2>1. b + size <= BLOCK_DATA  BY DEF b
  <2>2. Start(r) \in Nat  BY <1>3, Starts
  <2>3. b \in Nat /\ i \in Nat /\ i < size /\ BLOCK_DATA \in Nat  BY <1>3, AOFSAssumption
  <2>4. b + i \in 0 .. BLOCK_DATA - 1  BY <2>1, <2>3
  <2>5. offset + i = Start(r) + (b + i)  BY <1>3, <2>2, <2>3
  <2>6. QED  BY <2>2, <2>4, <2>5
<1>14. Holds(d, own, rank, h, w) /\ Start(rank[n]) + BLOCK_DATA <= Len(w)  BY <1>1, <1>2, <1>4, ChainBytesAre DEF w
<1>15. Len(w) \in Nat  BY <1>14, LenProperties DEF Holds
<1>16. w[Start(rank[n]) + (b + i) + 1] = d.block[n].data[b + i]
  <2> DEFINE j == b + i
  <2>1. j \in 0 .. BLOCK_DATA - 1 /\ Start(rank[n]) + j < Len(w)  BY <1>4, <1>13, <1>14, <1>15, AOFSAssumption
  <2> HIDE DEF j
  <2>2. w[Start(rank[n]) + j + 1] = d.block[n].data[j]  BY <1>4, <1>14, <2>1 DEF Holds
  <2>3. QED  BY <2>2 DEF j
<1>17. QED  BY <1>4, <1>11, <1>12, <1>13, <1>16 DEF w

\* A read inside one block and the file delivers the bytes of the file, for every
\* block size (aofs_read_file).
THEOREM ReadsInsideOneBlock == Spec => []ReadInsideOneBlockIsExact
<1>1. Sound => ReadInsideOneBlockIsExact
  <2>1. SUFFICES ASSUME Sound, NEW name \in Name, NEW size \in 1 .. MaxLen, NEW offset \in 0 .. MaxSize, Exists(name),
                        (offset % BLOCK_DATA) + size <= BLOCK_DATA,
                        offset + size <= Len(FileOf(name)), NEW i \in 0 .. size - 1
                 PROVE  aofs_read_file(disk, name, size, offset).buf[i] = FileOf(name)[offset + i + 1]
    BY DEF ReadInsideOneBlockIsExact
  <2>2. PICK own, rank : Image(disk, own, rank)  BY <2>1 DEF Sound
  <2>3. disk \in DiskType  BY <2>2, ImageHas
  <2>4. PICK h : h \in Heads(disk, name)  BY <2>1, <2>3, ExistsIs
  <2>5. size \in Nat /\ size # 0 /\ offset \in Nat  BY AOFSAssumption
  <2> DEFINE file == FileOf(name)
             all == ChainBytes(disk, h)
  <2>6. /\ Len(all) \in Nat /\ Len(file) \in Nat /\ Len(file) <= Len(all)
        /\ \A j \in 1 .. Len(file) : file[j] = all[j]
    BY <2>2, <2>4, FileBegins DEF FileOf
  <2>7. offset + size <= Len(file)  BY <2>1
  <2> HIDE DEF file
  <2>8. offset < Len(all) /\ offset + i + 1 \in 1 .. Len(file)  BY <2>5, <2>6, <2>7
  <2>9. aofs_read_file(disk, name, size, offset).buf[i] = all[offset + i + 1]
    BY <2>1, <2>2, <2>4, <2>5, <2>8, ReadsOneBlock
  <2>10. QED  BY <2>6, <2>8, <2>9 DEF file
<1>2. QED  BY <1>1, ImageSound, PTL
=============================================================================
