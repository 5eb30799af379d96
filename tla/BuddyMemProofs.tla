--------------------------- MODULE BuddyMemProofs ---------------------------
(***************************************************************************)
(* The theorems about the buddy allocator, for one caller: mem_free does   *)
(* not take g_mem_lock, and with a second caller two blocks in use may     *)
(* share memory (the run BuddyMemShared).                                  *)
(*                                                                         *)
(* All of them follow from one invariant.  A pool in which no mem_free is  *)
(* at work is cut into blocks: there is a set S of addresses such that     *)
(* the blocks that begin there lie at multiples of their size and follow   *)
(* one another from the start of the pool to its end (Cut); the free ones  *)
(* among them are linked both ways with those of their tag, no two of them *)
(* are buddies of the same size, and when the whole pool is one free block *)
(* its list has it (Listed); the others are those the caller has (Owns).   *)
(* While mem_free is at work the same holds of the pool with the block it  *)
(* has merged so far in place of the words in memory (Merging).            *)
(*                                                                         *)
(* The arithmetic they need comes first: sizes are powers of two, and      *)
(* get_buddy gives the other half of the block twice as large.             *)
(***************************************************************************)
EXTENDS BuddyMem, FiniteSetTheorems, WellFoundedInduction, TLAPS

\* A set of naturals that is not empty has a least member.
LEMMA LeastOf ==
  ASSUME NEW T, T \subseteq Nat, T # {}
  PROVE  \E m \in T : \A k \in T : m <= k
  <1> DEFINE R == OpToRel(<, Nat)
  <1>1. \A x, y \in Nat : x < y => << x, y >> \in R
    BY DEF OpToRel
  <1>2. IsWellFoundedOn(R, Nat)
    BY NatLessThanWellFounded
  <1> HIDE DEF R
  <1>3. PICK m \in T : \A y \in T : ~ (<< y, m >> \in R)
    BY <1>2, WFMin
  <1>4. ASSUME NEW k \in T
        PROVE  m <= k
    <2>1. ~ (k < m)
      BY <1>1, <1>3
    <2>2. k \in Nat /\ m \in Nat
      OBVIOUS
    <2> QED BY <2>1, <2>2
  <1> QED BY <1>3, <1>4

\* A set with 0 and the successors of its members has all naturals.
LEMMA NatSetInduction ==
  ASSUME NEW S, 0 \in S, \A n \in Nat : n \in S => n + 1 \in S
  PROVE  Nat \subseteq S
  <1>1. SUFFICES ASSUME Nat \ S # {}
                 PROVE  FALSE
    OBVIOUS
  <1>2. PICK m \in Nat \ S : \A k \in Nat \ S : m <= k
    BY <1>1, LeastOf
  <1>3. m # 0
    BY <1>2
  <1>4. m - 1 \in Nat /\ m - 1 \in S
    BY <1>2, <1>3
  <1> QED BY <1>2, <1>4

-----------------------------------------------------------------------------
(* Sizes of blocks.                                                        *)

\* The size of a block of tag k, in units.
Size(k) == 2 ^ k

LEMMA SizeIsNat ==
  ASSUME NEW n \in Nat
  PROVE  /\ Size(n) \in Nat /\ IsFiniteSet(SUBSET (1 .. n))
         /\ Cardinality(SUBSET (1 .. n)) = Size(n)
<1>1. IsFiniteSet(1 .. n) /\ Cardinality(1 .. n) = n
  <2>1. 1 \in Int /\ n \in Int
    OBVIOUS
  <2>2. IsFiniteSet(1 .. n) /\ Cardinality(1 .. n) = IF 1 > n THEN 0 ELSE n - 1 + 1
    BY <2>1, FS_Interval
  <2> QED BY <2>2
<1>2. IsFiniteSet(SUBSET (1 .. n)) /\ Cardinality(SUBSET (1 .. n)) = 2 ^ Cardinality(1 .. n)
  BY <1>1, FS_SUBSET
<1>3. Cardinality(SUBSET (1 .. n)) \in Nat
  BY <1>2, FS_CardinalityType
<1> QED BY <1>1, <1>2, <1>3 DEF Size

\* Half of the subsets of 1 .. n + 1 have n + 1 as a member.
LEMMA SizeDoubles ==
  ASSUME NEW n \in Nat
  PROVE  Size(n + 1) = Size(n) + Size(n)
<1> DEFINE A == SUBSET (1 .. n)
           W == SUBSET (1 .. n + 1)
           B == {X \in W : n + 1 \in X}
           f == [X \in A |-> X \cup {n + 1}]
<1>1. n + 1 \in Nat
  OBVIOUS
<1>2. IsFiniteSet(A) /\ Cardinality(A) = Size(n) /\ IsFiniteSet(W) /\ Cardinality(W) = Size(n + 1)
  BY <1>1, SizeIsNat
<1>3. 1 .. n + 1 = (1 .. n) \cup {n + 1} /\ n + 1 \notin 1 .. n
  OBVIOUS
<1>4. W = A \cup B /\ A \cap B = {}
  BY <1>3
<1>5. f \in [A -> B]
  BY <1>3
<1>6. \A X, Y \in A : f[X] = f[Y] => X = Y
  <2> SUFFICES ASSUME NEW X \in A, NEW Y \in A, f[X] = f[Y] PROVE X = Y
    OBVIOUS
  <2>1. X \cup {n + 1} = Y \cup {n + 1} /\ n + 1 \notin X /\ n + 1 \notin Y
    BY <1>3
  <2> QED BY <2>1
<1>7. \A Y \in B : \E X \in A : f[X] = Y
  <2> SUFFICES ASSUME NEW Y \in B PROVE \E X \in A : f[X] = Y
    OBVIOUS
  <2>1. Y \ {n + 1} \in A
    BY <1>3
  <2>2. f[Y \ {n + 1}] = Y
    BY <2>1
  <2> QED BY <2>1, <2>2
<1>8. f \in Bijection(A, B)
  <2>1. f \in Injection(A, B)
    BY <1>5, <1>6 DEF Injection, IsInjective
  <2>2. f \in Surjection(A, B)
    BY <1>5, <1>7 DEF Surjection
  <2> QED BY <2>1, <2>2 DEF Bijection
<1>9. IsFiniteSet(B) /\ Cardinality(B) = Cardinality(A)
  BY <1>2, <1>8, FS_Bijection DEF ExistsBijection
<1>10. Cardinality(A \cup B) = Cardinality(A) + Cardinality(B) - Cardinality(A \cap B)
  BY <1>2, <1>9, FS_Union
<1>11. Cardinality(A \cap B) = 0
  BY <1>4, FS_EmptySet
<1>12. Cardinality(A) \in Nat
  BY <1>2, FS_CardinalityType
<1> HIDE DEF A, B, W
<1>13. Cardinality(W) = Cardinality(A) + Cardinality(A)
  BY <1>4, <1>9, <1>10, <1>11, <1>12
<1> QED BY <1>2, <1>13

LEMMA Sizes ==
  /\ \A n \in Nat : Size(n) \in Nat /\ Size(n) > 0 /\ Size(n + 1) = Size(n) + Size(n)
  /\ Size(0) = 1
<1>1. \A n \in Nat : Size(n) \in Nat /\ Size(n + 1) = Size(n) + Size(n)
  BY SizeIsNat, SizeDoubles
<1>2. Size(0) = 1
  BY DEF Size
<1>3. PICK P \in SUBSET Nat : P = {n \in Nat : Size(n) > 0}
  OBVIOUS
<1>4. 0 \in P
  BY <1>2, <1>3
<1>5. \A n \in Nat : n \in P => n + 1 \in P
  BY <1>1, <1>3
<1>6. Nat \subseteq P
  BY <1>4, <1>5, NatSetInduction
<1> QED BY <1>1, <1>2, <1>3, <1>6

\* The size of a larger block is a multiple of that of a smaller one.
LEMMA SizeDivides ==
  ASSUME NEW i \in Nat, NEW j \in Nat, i <= j
  PROVE  \E q \in Nat : q > 0 /\ Size(j) = q * Size(i)
<1>1. PICK P \in SUBSET Nat : P = {d \in Nat : \E q \in Nat : q > 0 /\ Size(i + d) = q * Size(i)}
  OBVIOUS
<1>2. 0 \in P
  <2>1. Size(i + 0) = 1 * Size(i)
    BY Sizes
  <2> QED BY <1>1, <2>1
<1>3. ASSUME NEW d \in Nat, d \in P
      PROVE  d + 1 \in P
  <2>1. PICK q \in Nat : q > 0 /\ Size(i + d) = q * Size(i)
    BY <1>1, <1>3
  <2>2. PICK e \in Nat : e = i + d
    OBVIOUS
  <2>3. Size(e + 1) = Size(e) + Size(e)
    BY Sizes
  <2>4. Size(e + 1) = (q + q) * Size(i)
    BY <2>1, <2>2, <2>3, Sizes
  <2>5. i + (d + 1) = e + 1 /\ q + q \in Nat /\ q + q > 0 /\ d + 1 \in Nat
    BY <2>1, <2>2
  <2> QED BY <1>1, <2>4, <2>5
<1>4. Nat \subseteq P
  BY <1>2, <1>3, NatSetInduction
<1>5. j - i \in P /\ i + (j - i) = j
  BY <1>4
<1> QED BY <1>1, <1>5

LEMMA SizesGrow ==
  ASSUME NEW i \in Nat, NEW j \in Nat
  PROVE  /\ i <= j => Size(i) <= Size(j)
         /\ i < j => Size(i) + Size(i) <= Size(j)
<1>1. \A k, l \in Nat : k <= l => Size(k) <= Size(l)
  <2> SUFFICES ASSUME NEW k \in Nat, NEW l \in Nat, k <= l PROVE Size(k) <= Size(l)
    OBVIOUS
  <2>1. PICK q \in Nat : q > 0 /\ Size(l) = q * Size(k)
    BY SizeDivides
  <2>2. PICK s \in Nat : s = Size(k)
    BY Sizes
  <2>3. q * s = s + (q - 1) * s /\ (q - 1) * s >= 0
    BY <2>1
  <2> QED BY <2>1, <2>2, <2>3
<1>2. i < j => i + 1 \in Nat /\ i + 1 <= j
  OBVIOUS
<1>3. Size(i + 1) = Size(i) + Size(i)
  BY Sizes
<1> QED BY <1>1, <1>2, <1>3

-----------------------------------------------------------------------------
(* Aligned addresses.                                                      *)

Aligned(a, k) == a % Size(k) = 0

\* What division is: the quotient and the rest give the number back.
LEMMA Division ==
  ASSUME NEW a \in Nat, NEW s \in Nat, s > 0
  PROVE  a = s * (a \div s) + (a % s)
<1>1. PICK d \in Nat : d = a \div s
  OBVIOUS
<1>2. PICK r \in Nat : r = a % s
  OBVIOUS
<1>3. a = s * d + r
  BY <1>1, <1>2
<1> QED BY <1>1, <1>2, <1>3

\* A multiple leaves no rest.
LEMMA MultipleLeavesNothing ==
  ASSUME NEW a \in Nat, NEW q \in Nat, NEW s \in Nat, s > 0, a = q * s
  PROVE  a % s = 0
OBVIOUS

LEMMA AlignedIs ==
  ASSUME NEW a \in Nat, NEW k \in Nat
  PROVE  Aligned(a, k) <=> \E q \in Nat : a = q * Size(k)
<1>1. PICK s \in Nat : s = Size(k) /\ s > 0
  BY Sizes
<1>s. s > 0
  BY <1>1
<1>2. ASSUME a % s = 0
      PROVE  \E q \in Nat : a = q * s
  <2>1. PICK d \in Nat : d = a \div s
    BY <1>s
  <2>2. a = s * d + 0
    BY <1>s, <1>2, <2>1, Division
  <2>3. s * d + 0 = d * s
    OBVIOUS
  <2> QED BY <2>2, <2>3
<1>3. ASSUME NEW q \in Nat, a = q * s
      PROVE  a % s = 0
  BY <1>s, <1>3, MultipleLeavesNothing
<1> QED BY <1>1, <1>2, <1>3 DEF Aligned

LEMMA AlignedDown ==
  ASSUME NEW a \in Nat, NEW i \in Nat, NEW k \in Nat, Aligned(a, k), i <= k
  PROVE  Aligned(a, i)
<1>1. PICK q \in Nat : a = q * Size(k)
  BY AlignedIs
<1>2. PICK r \in Nat : Size(k) = r * Size(i)
  BY SizeDivides
<1>3. PICK s \in Nat : s = Size(i)
  BY Sizes
<1>4. q * (r * s) = (q * r) * s /\ q * r \in Nat
  OBVIOUS
<1> QED BY <1>1, <1>2, <1>3, <1>4, AlignedIs

LEMMA AlignedPlus ==
  ASSUME NEW a \in Nat, NEW b \in Nat, NEW k \in Nat, Aligned(a, k), Aligned(b, k)
  PROVE  /\ Aligned(a + b, k)
         /\ b <= a => Aligned(a - b, k)
<1>1. PICK s \in Nat : s = Size(k) /\ s > 0
  BY Sizes
<1>2. PICK p \in Nat : a = p * s
  BY <1>1, AlignedIs
<1>3. PICK q \in Nat : b = q * s
  BY <1>1, AlignedIs
<1>4. a + b = (p + q) * s /\ a - b = (p - q) * s
  BY <1>2, <1>3
<1>5. Aligned(a + b, k)
  BY <1>1, <1>4, AlignedIs
<1>6. ASSUME b <= a PROVE Aligned(a - b, k)
  <2>1. p - q >= 0
    <3> SUFFICES ASSUME p < q PROVE FALSE
      OBVIOUS
    <3>1. (p - q) * s < 0
      BY <1>1
    <3> QED BY <1>4, <1>6, <3>1
  <2>2. p - q \in Nat /\ a - b \in Nat
    BY <1>6, <2>1
  <2> QED BY <1>1, <1>4, <2>2, AlignedIs
<1> QED BY <1>5, <1>6

LEMMA AlignedSelf ==
  ASSUME NEW k \in Nat, NEW i \in Nat, i <= k
  PROVE  Aligned(0, i) /\ Aligned(Size(k), i)
<1>1. PICK s \in Nat : s = Size(i)
  BY Sizes
<1>2. 0 = 0 * s
  OBVIOUS
<1>3. PICK q \in Nat : Size(k) = q * s
  BY <1>1, SizeDivides
<1> QED BY <1>1, <1>2, <1>3, Sizes, AlignedIs

\* Between two aligned addresses there is room for a block.
LEMMA AlignedApart ==
  ASSUME NEW a \in Nat, NEW b \in Nat, NEW k \in Nat, Aligned(a, k), Aligned(b, k), a < b
  PROVE  a + Size(k) <= b
<1>1. PICK s \in Nat : s = Size(k) /\ s > 0
  BY Sizes
<1>2. PICK q \in Nat : b - a = q * s
  BY <1>1, AlignedPlus, AlignedIs
<1>3. q # 0
  BY <1>2
<1>4. q * s = s + (q - 1) * s /\ (q - 1) * s >= 0
  BY <1>3
<1> QED BY <1>1, <1>2, <1>4

\* get_buddy yields the other half of the block twice as large.
LEMMA BuddyIs ==
  ASSUME NEW a \in Nat, NEW k \in Nat, Aligned(a, k)
  PROVE  \/ Aligned(a, k + 1) /\ Buddy(a, k) = a + Size(k)
         \/ /\ ~ Aligned(a, k + 1) /\ a >= Size(k) /\ Buddy(a, k) = a - Size(k)
            /\ Aligned(a - Size(k), k + 1)
<1>1. PICK s \in Nat : s = Size(k) /\ s > 0 /\ Size(k + 1) = s + s
  BY Sizes
<1>2. PICK q \in Nat : a = q * s
  BY <1>1, AlignedIs
<1>3. Buddy(a, k) = IF ~ Aligned(a, k + 1) THEN a - s ELSE a + s
  BY <1>1 DEF Buddy, Aligned, Size
<1>4. CASE Aligned(a, k + 1)
  BY <1>1, <1>3, <1>4
<1>5. CASE ~ Aligned(a, k + 1)
  <2>1. \A r \in Nat : q # 2 * r
    <3> SUFFICES ASSUME NEW r \in Nat, q = 2 * r PROVE FALSE
      OBVIOUS
    <3>1. a = r * (s + s)
      BY <1>2
    <3> QED BY <1>1, <1>5, <3>1, AlignedIs
  <2>2. PICK r \in Nat : q = 2 * r + 1
    <3>1. q % 2 = 1
      BY <2>1
    <3> QED BY <3>1
  <2>3. a = r * (s + s) + s
    BY <1>2, <2>2
  <2>4. PICK h \in Nat : h = r * (s + s)
    OBVIOUS
  <2>5. a = h + s /\ a - s = h
    BY <2>3, <2>4
  <2>6. Aligned(h, k + 1)
    BY <1>1, <2>4, AlignedIs
  <2> QED BY <1>1, <1>3, <1>5, <2>5, <2>6
<1> QED BY <1>4, <1>5

-----------------------------------------------------------------------------
(* Pools cut into blocks.                                                  *)

\* The blocks of tag t[b] at the addresses b in S fill a pool of tag max.
Cut(max, S, t) ==
  /\ S \subseteq Addr /\ 0 \in S
  /\ \A b \in S :
       /\ t[b] \in MinTag .. max /\ Aligned(b, t[b])
       /\ b + Size(t[b]) \in S \cup {Size(max)}
       /\ b + Size(t[b]) <= Size(max)
  /\ \A b, d \in S : b < d => b + Size(t[b]) <= d

LEMMA Constants ==
  /\ MinTag \in Nat /\ BlockTag \in Nat /\ MaxTag \in Nat /\ MaxPools \in Nat
  /\ 0 < MinTag /\ MinTag <= BlockTag /\ BlockTag <= MaxTag /\ MaxPools > 0
  BY BuddyAssumption

LEMMA AddrIs ==
  /\ \A a \in Addr : a \in Nat /\ a < Size(MaxTag) /\ Aligned(a, MinTag)
  /\ \A a \in Nat : a < Size(MaxTag) /\ Aligned(a, MinTag) => a \in Addr
  /\ 0 \in Addr /\ NULL \notin Addr
<1>1. PICK s \in Nat : s = Size(MaxTag) /\ s > 0
  BY Sizes, Constants
<1>2. Addr = {a \in 0 .. s - 1 : Aligned(a, MinTag)}
  BY <1>1 DEF Addr, Aligned, Size
<1>3. Aligned(0, MinTag)
  BY AlignedSelf, Constants
<1> QED BY <1>1, <1>2, <1>3 DEF NULL

\* What Cut says of one block, with its tag a natural number.
LEMMA BlockIs ==
  ASSUME NEW max \in Nat, NEW S, NEW t, Cut(max, S, t), NEW b \in S
  PROVE  /\ b \in Nat /\ b \in Addr /\ t[b] \in Nat /\ t[b] \in MinTag .. max /\ Aligned(b, t[b])
         /\ Size(t[b]) \in Nat /\ Size(t[b]) > 0 /\ b + Size(t[b]) <= Size(max)
         /\ Size(max) \in Nat /\ b < Size(max)
<1>1. b \in Addr /\ b \in Nat /\ t[b] \in MinTag .. max /\ Aligned(b, t[b])
  BY AddrIs DEF Cut
<1>2. t[b] \in Nat
  BY <1>1, Constants
<1>3. Size(t[b]) \in Nat /\ Size(t[b]) > 0 /\ Size(max) \in Nat
  BY <1>2, Sizes
<1>4. b + Size(t[b]) <= Size(max)
  BY DEF Cut
<1> QED BY <1>1, <1>2, <1>3, <1>4

LEMMA CutIsFull ==
  ASSUME NEW max \in Nat, NEW S, NEW t, Cut(max, S, t), NEW x \in Nat, x < Size(max)
  PROVE  \E b \in S : b <= x /\ x < b + Size(t[b])
<1>1. PICK D \in SUBSET Nat : D = {d \in Nat : d <= x /\ x - d \in S}
  OBVIOUS
<1>2. x \in D
  BY <1>1 DEF Cut
<1>3. PICK d \in D : \A y \in D : d <= y
  BY <1>2, LeastOf
<1>4. PICK b : b = x - d
  OBVIOUS
<1>5. b \in S /\ b <= x /\ b \in Nat
  BY <1>1, <1>3, <1>4
<1>6. PICK e : e = b + Size(t[b])
  OBVIOUS
<1>7. e \in Nat /\ b < e /\ e \in S \cup {Size(max)}
  <2>1. Size(t[b]) \in Nat /\ Size(t[b]) > 0
    BY <1>5, BlockIs
  <2>2. b + Size(t[b]) \in S \cup {Size(max)}
    BY <1>5 DEF Cut
  <2> QED BY <1>5, <1>6, <2>1, <2>2
<1>8. ~ (e <= x)
  <2> SUFFICES ASSUME e <= x PROVE FALSE
    OBVIOUS
  <2>1. e \in S
    BY <1>7
  <2>2. x - e \in Nat /\ x - e <= x /\ x - (x - e) = e
    BY <1>7
  <2>3. x - e \in D
    BY <1>1, <2>1, <2>2
  <2>4. d <= x - e
    BY <1>3, <2>3
  <2> QED BY <1>4, <1>5, <1>7, <2>4, <1>3
<1> QED BY <1>5, <1>6, <1>7, <1>8

\* Where the buddy of a block would begin a block begins, and it is no larger.
LEMMA BuddyIsABlock ==
  ASSUME NEW max \in Nat, NEW S, NEW t, Cut(max, S, t), NEW a \in S, t[a] < max
  PROVE  /\ Buddy(a, t[a]) \in S /\ Buddy(a, t[a]) # a /\ t[Buddy(a, t[a])] <= t[a]
         /\ Buddy(a, t[a]) \in Nat
<1>1. PICK k : k = t[a]
  OBVIOUS
<1>2. k \in Nat /\ k < max /\ a \in Nat /\ Aligned(a, k) /\ a < Size(max) /\ k + 1 \in Nat /\ k + 1 <= max
  BY <1>1, BlockIs
<1>3. PICK s \in Nat : s = Size(k) /\ s > 0 /\ Size(k + 1) = s + s
  BY <1>2, Sizes
<1>4. PICK m \in Nat : m = Size(max)
  BY Sizes
<1>5. Aligned(m, k + 1) /\ Aligned(m, k) /\ Aligned(s, k)
  BY <1>2, <1>3, <1>4, AlignedSelf
<1>6. PICK b : b = Buddy(a, k)
  OBVIOUS
<1>7. \/ Aligned(a, k + 1) /\ b = a + s
      \/ a >= s /\ b = a - s /\ Aligned(b, k + 1)
  BY <1>2, <1>3, <1>6, BuddyIs
<1>8. b \in Nat /\ b # a /\ Aligned(b, k) /\ b < m
  <2>1. CASE Aligned(a, k + 1) /\ b = a + s
    <3>1. a + (s + s) <= m
      <4>1. a < m
        BY <1>2, <1>4
      <4>2. a + Size(k + 1) <= m
        BY <1>2, <1>5, <2>1, <4>1, AlignedApart
      <4> QED BY <1>3, <4>2
    <3>2. Aligned(b, k)
      BY <1>2, <1>3, <1>5, <2>1, AlignedPlus
    <3> QED BY <1>2, <1>3, <1>4, <2>1, <3>1, <3>2
  <2>2. CASE a >= s /\ b = a - s /\ Aligned(b, k + 1)
    <3>1. b \in Nat
      BY <1>2, <1>3, <2>2
    <3>2. Aligned(b, k)
      BY <1>2, <2>2, <3>1, AlignedDown
    <3> QED BY <1>2, <1>3, <1>4, <2>2, <3>1, <3>2
  <2> QED BY <1>7, <2>1, <2>2
<1>9. PICK x \in S : x <= b /\ b < x + Size(t[x])
  BY <1>4, <1>8, CutIsFull
<1>10. PICK i : i = t[x]
  OBVIOUS
<1>11. x \in Nat /\ i \in Nat /\ Aligned(x, i)
  BY <1>10, BlockIs
<1>12. PICK z \in Nat : z = Size(i)
  BY <1>11, Sizes
<1>13. i <= k
  <2> SUFFICES ASSUME i > k PROVE FALSE
    BY <1>2, <1>11
  <2>1. Aligned(x, k + 1) /\ Aligned(z, k + 1) /\ Aligned(x + z, k + 1)
    <3>1. k + 1 <= i
      BY <1>2, <1>11
    <3>2. Aligned(x, k + 1) /\ Aligned(z, k + 1)
      BY <1>2, <1>11, <1>12, <3>1, AlignedDown, AlignedSelf
    <3> QED BY <1>2, <1>11, <3>2, AlignedPlus
  <2>2. x # a
    BY <1>1, <1>2, <1>10
  <2>3. x < a => x + z <= a
    BY <1>10, <1>12 DEF Cut
  <2>4. CASE Aligned(a, k + 1) /\ b = a + s
    <3>1. ~ (x < a)
      BY <1>2, <1>3, <1>9, <1>10, <1>11, <1>12, <2>3, <2>4
    <3>2. a < x
      BY <1>2, <1>11, <2>2, <3>1
    <3>3. a + (s + s) <= x
      BY <1>2, <1>3, <1>11, <2>1, <2>4, <3>2, AlignedApart
    <3> QED BY <1>2, <1>3, <1>9, <1>11, <2>4, <3>3
  <2>5. CASE a >= s /\ b = a - s /\ Aligned(b, k + 1)
    <3>1. b < x + z /\ x + z \in Nat
      BY <1>9, <1>10, <1>11, <1>12
    <3>2. b + (s + s) <= x + z
      BY <1>2, <1>3, <1>8, <2>1, <2>5, <3>1, AlignedApart
    <3>3. x < a
      BY <1>2, <1>3, <1>8, <1>9, <1>11, <2>5
    <3> QED BY <1>2, <1>3, <1>11, <1>12, <2>3, <2>5, <3>2, <3>3
  <2> QED BY <1>7, <2>4, <2>5
<1>14. x = b
  <2> SUFFICES ASSUME x # b PROVE FALSE
    OBVIOUS
  <2>1. x < b
    BY <1>8, <1>9, <1>11
  <2>2. Aligned(b, i)
    BY <1>2, <1>8, <1>11, <1>13, AlignedDown
  <2>3. x + z <= b
    BY <1>8, <1>11, <1>12, <2>1, <2>2, AlignedApart
  <2> QED BY <1>8, <1>9, <1>10, <1>11, <1>12, <2>3
<1> QED BY <1>1, <1>6, <1>8, <1>10, <1>13, <1>14

\* Two buddies of the same size become one block.
LEMMA CutMerges ==
  ASSUME NEW max \in Nat, NEW S, NEW t, Cut(max, S, t), NEW a \in S, t[a] < max,
         NEW b, b = Buddy(a, t[a]), t[b] = t[a],
         NEW low, low = (IF b < a THEN b ELSE a), NEW high, high = (IF b < a THEN a ELSE b),
         NEW u, u[low] = t[a] + 1, \A d \in S : d # low => u[d] = t[d]
  PROVE  Cut(max, S \ {high}, u) /\ low \in S \ {high} /\ low < high /\ t[a] + 1 <= max
<1>1. b \in S /\ b # a /\ b \in Nat
  BY BuddyIsABlock
<1>2. PICK k : k = t[a]
  OBVIOUS
<1>3. k \in Nat /\ k < max /\ MinTag <= k /\ a \in Nat /\ Aligned(a, k) /\ k + 1 \in Nat /\ k + 1 <= max
  BY <1>2, BlockIs
<1>4. PICK s \in Nat : s = Size(k) /\ s > 0 /\ Size(k + 1) = s + s
  BY <1>3, Sizes
<1>5. Aligned(low, k + 1) /\ high = low + s /\ low < high /\ low \in S /\ high \in S /\ low \in Nat /\ high \in Nat
  <2>1. \/ Aligned(a, k + 1) /\ b = a + s
        \/ a >= s /\ b = a - s /\ Aligned(b, k + 1)
    BY <1>2, <1>3, <1>4, BuddyIs
  <2> QED BY <1>1, <1>3, <1>4, <2>1
<1>6. PICK m \in Nat : m = Size(max)
  BY Sizes
<1>7. t[low] = k /\ t[high] = k /\ u[low] = k + 1
  BY <1>1, <1>2
<1>8. high + s \in S \cup {m} /\ high + s <= m
  BY <1>4, <1>5, <1>6, <1>7 DEF Cut
<1>9. \A d \in S : d < low => d + Size(t[d]) <= low
  BY <1>5 DEF Cut
<1>10. \A d \in S : high < d => high + s <= d
  BY <1>4, <1>5, <1>7 DEF Cut
<1>11. \A d \in S : low < d => high <= d
  BY <1>4, <1>5, <1>7 DEF Cut
<1>12. S \ {high} \subseteq Addr /\ 0 \in S \ {high}
  <2>1. high # 0
    BY <1>5
  <2> QED BY <2>1 DEF Cut
<1>13. ASSUME NEW d \in S \ {high}
       PROVE  /\ u[d] \in MinTag .. max /\ Aligned(d, u[d])
              /\ d + Size(u[d]) \in (S \ {high}) \cup {m}
              /\ d + Size(u[d]) <= m
  <2>1. CASE d = low
    <3>1. low + (s + s) = high + s /\ high + s # high
      BY <1>4, <1>5
    <3>2. low + Size(u[low]) = high + s
      BY <1>4, <1>7, <3>1
    <3>3. u[low] \in MinTag .. max
      BY <1>3, <1>7, Constants
    <3> QED BY <1>5, <1>7, <1>8, <2>1, <3>1, <3>2, <3>3
  <2>2. CASE d # low
    <3>1. u[d] = t[d]
      BY <2>2
    <3>2. PICK e : e = d + Size(t[d])
      OBVIOUS
    <3>3. d \in Nat /\ e \in Nat /\ t[d] \in MinTag .. max /\ Aligned(d, t[d]) /\ e \in S \cup {m} /\ e <= m /\ d < e
      BY <1>6, <3>2, BlockIs DEF Cut
    <3>4. e # high
      <4>1. CASE d < low
        BY <1>5, <1>9, <3>2, <3>3, <4>1
      <4>2. CASE low < d
        <5>1. high < d
          BY <1>5, <1>11, <3>3, <4>2
        <5> QED BY <1>5, <3>3, <5>1
      <4> QED BY <1>5, <2>2, <3>3, <4>1, <4>2
    <3> QED BY <3>1, <3>2, <3>3, <3>4
  <2> QED BY <2>1, <2>2
<1>14. ASSUME NEW d \in S \ {high}, NEW e \in S \ {high}, d < e
       PROVE  d + Size(u[d]) <= e
  <2>1. d \in Nat /\ e \in Nat
    BY BlockIs
  <2>2. CASE d = low
    <3>1. high < e
      BY <1>5, <1>11, <1>14, <2>1, <2>2
    <3>2. high + s <= e
      BY <1>10, <3>1
    <3> QED BY <1>4, <1>5, <1>7, <2>1, <2>2, <3>2
  <2>3. CASE d # low
    BY <1>14, <2>3 DEF Cut
  <2> QED BY <2>2, <2>3
<1>15. Cut(max, S \ {high}, u)
  BY <1>6, <1>12, <1>13, <1>14 DEF Cut
<1> QED BY <1>2, <1>3, <1>5, <1>15

\* A block as large as its pool is the only one.
LEMMA CutIsOne ==
  ASSUME NEW max \in Nat, NEW S, NEW t, Cut(max, S, t), NEW b \in S, t[b] = max
  PROVE  b = 0 /\ S = {0}
<1>1. PICK m \in Nat : m = Size(max) /\ m > 0
  BY Sizes
<1>2. b \in Nat /\ b + m <= m
  BY <1>1, BlockIs
<1>3. b = 0
  BY <1>1, <1>2
<1>4. ASSUME NEW d \in S, d # 0 PROVE FALSE
  <2>1. d \in Nat /\ d < m
    BY <1>1, BlockIs
  <2>2. 0 < d
    BY <1>4, <2>1
  <2>3. 0 + m <= d
    BY <1>1, <1>3, <2>2 DEF Cut
  <2> QED BY <1>1, <2>1, <2>3
<1> QED BY <1>3, <1>4

\* The block b becomes one of tag req, and one of each tag in between.
CutInto(max, S, t, b, req, split, half, u) ==
  /\ Cut(max, S, t) /\ b \in S /\ req <= t[b]
  /\ split = {i \in Nat : req <= i /\ i < t[b]} /\ half = {b + Size(i) : i \in split}
  /\ u[b] = req /\ \A i \in split : u[b + Size(i)] = i
  /\ \A d \in S : d # b => u[d] = t[d]

LEMMA CutSplit ==
  ASSUME NEW max \in Nat, max <= MaxTag, NEW S, NEW t, NEW b, NEW req \in Nat, MinTag <= req,
         NEW split, NEW half, NEW u, CutInto(max, S, t, b, req, split, half, u)
  PROVE  Cut(max, S \cup half, u) /\ half \cap S = {} /\ half \subseteq Addr
<1>21. /\ Cut(max, S, t) /\ b \in S /\ req <= t[b]
       /\ split = {i \in Nat : req <= i /\ i < t[b]} /\ half = {b + Size(i) : i \in split}
  BY DEF CutInto
<1>22. u[b] = req /\ \A i \in split : u[b + Size(i)] = i
  BY DEF CutInto
<1>23. \A d \in S : d # b => u[d] = t[d]
  BY DEF CutInto
<1> USE <1>21, <1>22, <1>23
<1>1. PICK k : k = t[b]
  OBVIOUS
<1>2. PICK m \in Nat : m = Size(max)
  BY Sizes
<1>3. /\ k \in Nat /\ k <= max /\ b \in Nat /\ b \in Addr /\ Aligned(b, k)
      /\ Size(k) \in Nat /\ b + Size(k) <= m /\ req <= k
  BY <1>1, <1>2, BlockIs
<1>4. PICK s \in Nat : s = Size(k)
  BY <1>3
<1>5. m <= Size(MaxTag) /\ MinTag \in Nat /\ MaxTag \in Nat /\ Size(MaxTag) \in Nat
  BY <1>2, Constants, Sizes, SizesGrow
<1>6. b + s \in S \cup {m}
  BY <1>1, <1>2, <1>4 DEF Cut
<1>7. \A d \in S : b < d => b + s <= d
  BY <1>1, <1>4 DEF Cut
<1>8. \A i \in split : i \in Nat /\ req <= i /\ i < k /\ i + 1 \in Nat
  BY <1>1
<1>9. \A i \in split : /\ Size(i) \in Nat /\ Size(i) > 0 /\ Size(i) + Size(i) <= s /\ Size(i + 1) = Size(i) + Size(i)
                       /\ Size(req) <= Size(i)
  BY <1>3, <1>4, <1>8, Sizes, SizesGrow
<1>10. PICK r \in Nat : r = Size(req) /\ r > 0 /\ r <= s
  BY <1>3, <1>4, Sizes, SizesGrow
<1>11. \A i \in split, j \in split : Size(i) < Size(j) => Size(i) + Size(i) <= Size(j)
  <2> SUFFICES ASSUME NEW i \in split, NEW j \in split, Size(i) < Size(j) PROVE Size(i) + Size(i) <= Size(j)
    OBVIOUS
  <2>1. ~ (j <= i)
    <3>1. j <= i => Size(j) <= Size(i)
      BY <1>8, SizesGrow
    <3> QED BY <1>9, <3>1
  <2>2. i < j
    BY <1>8, <2>1
  <2> QED BY <1>8, <2>2, SizesGrow
<1>12. \A d \in half : \E i \in split : d = b + Size(i)
  OBVIOUS
<1>13. \A i \in split : b + Size(i) \in half
  OBVIOUS
<1>14. \A i \in Nat : req <= i /\ i < k => i \in split
  BY <1>1
<1>15. ASSUME NEW i \in split
       PROVE  /\ b + Size(i) \in Nat /\ b < b + Size(i) /\ b + Size(i) < b + s
              /\ b + Size(i) + Size(i) <= b + s
              /\ Aligned(b + Size(i), i) /\ b + Size(i) \in Addr
  <2>1. PICK z \in Nat : z = Size(i) /\ z > 0 /\ z + z <= s
    BY <1>9
  <2>2. i \in Nat /\ i <= k /\ MinTag <= i
    <3>1. i \in Nat /\ req <= i /\ i < k
      BY <1>8
    <3>2. MinTag \in Nat
      BY <1>5
    <3> QED BY <1>3, <3>1, <3>2
  <2>3. Aligned(b, i) /\ Aligned(z, i)
    BY <1>3, <2>1, <2>2, AlignedDown, AlignedSelf
  <2>4. Aligned(b + z, i)
    BY <1>3, <2>2, <2>3, AlignedPlus
  <2>5. Aligned(b + z, MinTag)
    BY <1>3, <1>5, <2>2, <2>4, AlignedDown
  <2>6. b + z < Size(MaxTag)
    BY <1>3, <1>4, <1>5, <2>1
  <2>7. b + z \in Addr
    BY <1>3, <2>5, <2>6, AddrIs
  <2> QED BY <1>3, <2>1, <2>4, <2>7
<1>16. half \cap S = {}
  <2> SUFFICES ASSUME NEW d \in half, d \in S PROVE FALSE
    OBVIOUS
  <2>1. PICK i \in split : d = b + Size(i)
    BY <1>12
  <2>2. b < d /\ d < b + s /\ d \in Nat
    BY <1>15, <2>1
  <2> QED BY <1>3, <1>4, <1>7, <2>2
<1>17. S \cup half \subseteq Addr /\ 0 \in S \cup half /\ half \subseteq Addr
  BY <1>12, <1>15 DEF Cut
<1>18. ASSUME NEW d \in S \cup half
       PROVE  /\ u[d] \in MinTag .. max /\ Aligned(d, u[d])
              /\ d + Size(u[d]) \in (S \cup half) \cup {m}
              /\ d + Size(u[d]) <= m
  <2>1. CASE d = b
    <3>1. Aligned(b, req)
      BY <1>3, AlignedDown
    <3>2. b + r <= m
      BY <1>3, <1>4, <1>10
    <3>3. b + r \in S \cup half \cup {m}
      <4>1. CASE req = k
        BY <1>4, <1>6, <1>10, <4>1
      <4>2. CASE req # k
        BY <1>3, <1>10, <1>13, <1>14, <4>2
      <4> QED BY <4>1, <4>2
    <3>4. req \in MinTag .. max
      BY <1>3, <1>5
    <3> QED BY <1>10, <2>1, <3>1, <3>2, <3>3, <3>4
  <2>2. CASE d \in half
    <3>1. PICK i \in split : d = b + Size(i)
      BY <1>12, <2>2
    <3>2. PICK z \in Nat : z = Size(i) /\ z + z <= s /\ Size(i + 1) = z + z
      BY <1>9
    <3>3. u[d] = i /\ i \in MinTag .. max /\ Aligned(d, i)
      BY <1>3, <1>5, <1>8, <1>15, <3>1
    <3>4. d + z = b + (z + z) /\ b + (z + z) <= m
      BY <1>3, <1>4, <3>1, <3>2
    <3>5. b + (z + z) \in S \cup half \cup {m}
      <4>1. CASE i + 1 = k
        BY <1>4, <1>6, <3>2, <4>1
      <4>2. CASE i + 1 # k
        <5>1. i + 1 \in split
          BY <1>3, <1>8, <1>14, <4>2
        <5> QED BY <1>13, <3>2, <5>1
      <4> QED BY <4>1, <4>2
    <3> QED BY <3>2, <3>3, <3>4, <3>5
  <2>3. CASE d \in S /\ d # b
    <3>1. u[d] = t[d]
      BY <2>3
    <3> QED BY <1>2, <2>3, <3>1 DEF Cut
  <2> QED BY <2>1, <2>2, <2>3
<1>19. ASSUME NEW d \in S \cup half, NEW e \in S \cup half, d < e
       PROVE  d + Size(u[d]) <= e
  <2>1. d \in Nat /\ e \in Nat
    BY <1>17, AddrIs
  <2>2. CASE d = b
    <3>1. CASE e \in S
      BY <1>3, <1>4, <1>7, <1>10, <1>19, <2>1, <2>2, <3>1
    <3>2. CASE e \in half
      <4>1. PICK i \in split : e = b + Size(i)
        BY <1>12, <3>2
      <4> QED BY <1>3, <1>9, <1>10, <2>2, <4>1
    <3> QED BY <3>1, <3>2
  <2>3. CASE d \in half
    <3>1. PICK i \in split : d = b + Size(i)
      BY <1>12, <2>3
    <3>2. PICK z \in Nat : z = Size(i) /\ z > 0 /\ z + z <= s
      BY <1>9
    <3>3. u[d] = i /\ d + Size(u[d]) = b + (z + z) /\ b + (z + z) <= b + s
      BY <1>3, <3>1, <3>2
    <3>4. CASE e \in S
      <4>1. b + s <= e
        BY <1>3, <1>7, <1>19, <2>1, <3>1, <3>2, <3>4
      <4> QED BY <1>3, <2>1, <3>2, <3>3, <4>1
    <3>5. CASE e \in half
      <4>1. PICK j \in split : e = b + Size(j)
        BY <1>12, <3>5
      <4>2. PICK y \in Nat : y = Size(j)
        BY <1>9
      <4>3. z < y
        BY <1>3, <1>19, <3>1, <3>2, <4>1, <4>2
      <4>4. z + z <= y
        BY <1>11, <3>2, <4>2, <4>3
      <4> QED BY <1>3, <3>2, <3>3, <4>1, <4>2, <4>4
    <3> QED BY <3>4, <3>5
  <2>4. CASE d \in S /\ d # b
    <3>1. u[d] = t[d]
      BY <2>4
    <3>2. CASE e \in S
      BY <1>19, <2>4, <3>1, <3>2 DEF Cut
    <3>3. CASE e \in half
      <4>1. PICK i \in split : e = b + Size(i)
        BY <1>12, <3>3
      <4>2. b < e /\ e < b + s
        BY <1>15, <4>1
      <4>3. d < b
        BY <1>3, <1>4, <1>7, <1>19, <2>1, <2>4, <4>2
      <4>4. d + Size(t[d]) <= b
        BY <2>4, <4>3 DEF Cut
      <4>5. Size(t[d]) \in Nat
        BY <2>4, BlockIs
      <4> QED BY <1>3, <2>1, <3>1, <4>2, <4>4, <4>5
    <3> QED BY <3>2, <3>3
  <2> QED BY <2>2, <2>3, <2>4
<1>20. Cut(max, S \cup half, u)
  BY <1>2, <1>17, <1>18, <1>19 DEF Cut
<1> QED BY <1>16, <1>17, <1>20

\* The buddy of the buddy is the block.
LEMMA BuddyBack ==
  ASSUME NEW a \in Nat, NEW k \in Nat, Aligned(a, k)
  PROVE  /\ Buddy(a, k) \in Nat /\ Buddy(a, k) # a /\ Aligned(Buddy(a, k), k)
         /\ Buddy(Buddy(a, k), k) = a
<1>1. PICK s \in Nat : s = Size(k) /\ s > 0 /\ Size(k + 1) = s + s
  BY Sizes
<1>2. PICK b : b = Buddy(a, k)
  OBVIOUS
<1>3. \/ Aligned(a, k + 1) /\ b = a + s
      \/ a >= s /\ b = a - s /\ Aligned(b, k + 1)
  BY <1>1, <1>2, BuddyIs
<1>4. b \in Nat /\ b # a
  BY <1>1, <1>3
<1>5. Aligned(s, k)
  BY <1>1, AlignedSelf
<1>6. Aligned(b, k)
  BY <1>3, <1>4, <1>5, AlignedPlus
<1>7. \/ Aligned(b, k + 1) /\ Buddy(b, k) = b + s
      \/ ~ Aligned(b, k + 1) /\ Buddy(b, k) = b - s
  BY <1>1, <1>4, <1>6, BuddyIs
<1>8. CASE a >= s /\ b = a - s /\ Aligned(b, k + 1)
  BY <1>1, <1>2, <1>4, <1>6, <1>7, <1>8
<1>9. CASE Aligned(a, k + 1) /\ b = a + s
  <2>1. ~ Aligned(b, k + 1)
    <3> SUFFICES ASSUME Aligned(b, k + 1) PROVE FALSE
      OBVIOUS
    <3>1. k + 1 \in Nat /\ a < b
      BY <1>1, <1>9
    <3>2. a + (s + s) <= b
      BY <1>1, <1>4, <1>9, <3>1, AlignedApart
    <3> QED BY <1>1, <1>9, <3>2
  <2> QED BY <1>1, <1>2, <1>4, <1>6, <1>7, <1>9, <2>1
<1> QED BY <1>3, <1>8, <1>9

-----------------------------------------------------------------------------
(* The free lists of a pool whose blocks have the tags t and whose free    *)
(* blocks are F.                                                           *)

Heads(p, t, F) ==
  \A i \in Tags : p.avail[i] # NULL =>
    p.avail[i] \in F /\ t[p.avail[i]] = i /\ p.prev[p.avail[i]] = NULL

Nexts(p, t, F) ==
  \A b \in F : p.next[b] # NULL =>
    p.next[b] \in F /\ t[p.next[b]] = t[b] /\ p.prev[p.next[b]] = b

Prevs(p, t, F) ==
  \A b \in F : p.prev[b] # NULL =>
    p.prev[b] \in F /\ t[p.prev[b]] = t[b] /\ p.next[p.prev[b]] = b

\* No two free blocks are buddies of the same size.
Apart(t, F) == \A b \in F : \A d \in F : t[b] = t[d] => Buddy(b, t[b]) # d

Whole(p, t, F) == 0 \in F /\ t[0] = p.maxTag => p.avail[p.maxTag] = 0

Listed(p, t, F) ==
  Heads(p, t, F) /\ Nexts(p, t, F) /\ Prevs(p, t, F) /\ Apart(t, F) /\ Whole(p, t, F)

Free(p, S) == {b \in S : ~ p.res[b]}

\* The blocks of S that are reserved in pool k are those of the set have.
Owns(k, p, S, t, have) ==
  /\ \A b \in S : p.res[b] => [pool |-> k, addr |-> b, tag |-> t[b]] \in have
  /\ \A o \in have : o.pool = k => o.addr \in S /\ p.res[o.addr] /\ o.tag = t[o.addr]

-----------------------------------------------------------------------------
LEMMA UnlinkLists ==
  ASSUME NEW p \in Pool, NEW t, NEW F \in SUBSET Addr, Listed(p, t, F),
         NEW b \in F, NEW k \in Tags, t[b] = k, k < p.maxTag,
         NEW u, \A d \in F : d # b => u[d] = t[d]
  PROVE  Listed(Unlinked(p, b, k), u, F \ {b})
<1>1. PICK q : q = Unlinked(p, b, k)
  OBVIOUS
<1>2. /\ q.maxTag = p.maxTag
      /\ \A i \in Tags : i # k => q.avail[i] = p.avail[i]
      /\ q.avail[k] = IF p.avail[k] = b THEN NULL ELSE p.avail[k]
      /\ \A a \in Addr : q.next[a] = IF a = p.prev[b] THEN p.next[b] ELSE p.next[a]
      /\ \A a \in Addr : q.prev[a] = IF a = p.next[b] THEN p.prev[b] ELSE p.prev[a]
  <2>1. PICK av, nx, pv : av = p.avail /\ nx = p.next /\ pv = p.prev
    OBVIOUS
  <2>2. av \in [Tags -> Addr \cup {NULL}] /\ nx \in [Addr -> Addr \cup {NULL}] /\ pv \in [Addr -> Addr \cup {NULL}]
    BY <2>1 DEF Pool
  <2> QED BY <1>1, <2>1, <2>2 DEF Unlinked, Pool
<1>3. b \in Addr /\ NULL \notin Addr /\ F \subseteq Addr /\ b # NULL
  BY AddrIs
<1>4. ASSUME NEW i \in Tags, q.avail[i] # NULL
      PROVE  q.avail[i] \in F \ {b} /\ u[q.avail[i]] = i /\ q.prev[q.avail[i]] = NULL
  <2>1. PICK d : d = q.avail[i]
    OBVIOUS
  <2>2. p.avail[i] = d /\ d # NULL /\ d # b
    <3>1. CASE i = k
      BY <1>2, <1>3, <1>4, <2>1, <3>1
    <3>2. CASE i # k
      <4>1. p.avail[i] = d /\ d # NULL
        BY <1>2, <1>4, <2>1, <3>2
      <4>2. t[d] = i
        BY <4>1 DEF Listed, Heads
      <4> QED BY <3>2, <4>1, <4>2
    <3> QED BY <3>1, <3>2
  <2>3. d \in F /\ t[d] = i /\ p.prev[d] = NULL
    BY <2>2 DEF Listed, Heads
  <2>4. d # p.next[b]
    <3> SUFFICES ASSUME d = p.next[b] PROVE FALSE
      OBVIOUS
    <3>1. p.prev[d] = b
      BY <2>2 DEF Listed, Nexts
    <3> QED BY <1>3, <2>3, <3>1
  <2> QED BY <1>2, <1>3, <2>1, <2>2, <2>3, <2>4
<1>5. ASSUME NEW d \in F \ {b}, q.next[d] # NULL
      PROVE  q.next[d] \in F \ {b} /\ u[q.next[d]] = u[d] /\ q.prev[q.next[d]] = d
  <2>1. PICK e : e = q.next[d]
    OBVIOUS
  <2>2. d \in Addr /\ d # NULL /\ u[d] = t[d]
    BY <1>3
  <2>3. CASE d = p.prev[b]
    <3>1. e = p.next[b] /\ e # NULL /\ p.prev[b] # NULL
      BY <1>2, <1>5, <2>1, <2>2, <2>3
    <3>2. t[d] = t[b] /\ e \in F /\ t[e] = t[b] /\ p.prev[e] = b
      BY <2>3, <3>1 DEF Listed, Nexts, Prevs
    <3>3. e # b
      BY <2>3, <3>2
    <3>4. q.prev[e] = d
      BY <1>2, <1>3, <2>3, <3>1, <3>2
    <3> QED BY <2>1, <2>2, <3>2, <3>3, <3>4
  <2>4. CASE d # p.prev[b]
    <3>1. e = p.next[d] /\ e # NULL
      BY <1>2, <1>5, <2>1, <2>2, <2>4
    <3>2. e \in F /\ t[e] = t[d] /\ p.prev[e] = d
      BY <3>1 DEF Listed, Nexts
    <3>3. e # b
      BY <2>4, <3>2
    <3>4. e # p.next[b]
      <4> SUFFICES ASSUME e = p.next[b] PROVE FALSE
        OBVIOUS
      <4>1. p.prev[e] = b
        BY <3>1 DEF Listed, Nexts
      <4> QED BY <3>2, <4>1
    <3>5. q.prev[e] = d
      BY <1>2, <1>3, <3>2, <3>4
    <3> QED BY <2>1, <2>2, <3>2, <3>3, <3>5
  <2> QED BY <2>3, <2>4
<1>6. ASSUME NEW d \in F \ {b}, q.prev[d] # NULL
      PROVE  q.prev[d] \in F \ {b} /\ u[q.prev[d]] = u[d] /\ q.next[q.prev[d]] = d
  <2>1. PICK e : e = q.prev[d]
    OBVIOUS
  <2>2. d \in Addr /\ d # NULL /\ u[d] = t[d]
    BY <1>3
  <2>3. CASE d = p.next[b]
    <3>1. e = p.prev[b] /\ e # NULL /\ p.next[b] # NULL
      BY <1>2, <1>6, <2>1, <2>2, <2>3
    <3>2. t[d] = t[b] /\ e \in F /\ t[e] = t[b] /\ p.next[e] = b
      BY <2>3, <3>1 DEF Listed, Nexts, Prevs
    <3>3. e # b
      BY <2>3, <3>2
    <3>4. q.next[e] = d
      BY <1>2, <1>3, <2>3, <3>1, <3>2
    <3> QED BY <2>1, <2>2, <3>2, <3>3, <3>4
  <2>4. CASE d # p.next[b]
    <3>1. e = p.prev[d] /\ e # NULL
      BY <1>2, <1>6, <2>1, <2>2, <2>4
    <3>2. e \in F /\ t[e] = t[d] /\ p.next[e] = d
      BY <3>1 DEF Listed, Prevs
    <3>3. e # b
      BY <2>4, <3>2
    <3>4. e # p.prev[b]
      <4> SUFFICES ASSUME e = p.prev[b] PROVE FALSE
        OBVIOUS
      <4>1. p.next[e] = b
        BY <3>1 DEF Listed, Prevs
      <4> QED BY <3>2, <4>1
    <3>5. q.next[e] = d
      BY <1>2, <1>3, <3>2, <3>4
    <3> QED BY <2>1, <2>2, <3>2, <3>3, <3>5
  <2> QED BY <2>3, <2>4
<1>7. Apart(u, F \ {b})
  BY DEF Listed, Apart
<1>8. Whole(q, u, F \ {b})
  <2> SUFFICES ASSUME 0 \in F \ {b}, u[0] = q.maxTag PROVE q.avail[q.maxTag] = 0
    BY DEF Whole
  <2>1. p.avail[p.maxTag] = 0
    BY <1>2 DEF Listed, Whole
  <2>2. p.maxTag \in Tags /\ p.maxTag # k
    BY DEF Pool, Tags
  <2> QED BY <1>2, <2>1, <2>2
<1>9. Heads(q, u, F \ {b}) /\ Nexts(q, u, F \ {b}) /\ Prevs(q, u, F \ {b})
  <2>1. Heads(q, u, F \ {b})
    BY <1>4 DEF Heads
  <2>2. Nexts(q, u, F \ {b})
    BY <1>5 DEF Nexts
  <2>3. Prevs(q, u, F \ {b})
    BY <1>6 DEF Prevs
  <2> QED BY <2>1, <2>2, <2>3
<1> QED BY <1>1, <1>7, <1>8, <1>9 DEF Listed

LEMMA ReleaseLists ==
  ASSUME NEW p \in Pool, NEW t, NEW F \in SUBSET Addr, Listed(p, t, F),
         NEW b \in Addr, b \notin F, NEW k \in Tags, t[b] = k,
         \A d \in F : t[d] = k => Buddy(b, k) # d /\ Buddy(d, k) # b,
         Buddy(b, k) # b, k = p.maxTag => b = 0 /\ F = {}
  PROVE  Listed(Released(p, b, k), t, F \cup {b})
<1>1. PICK q : q = Released(p, b, k)
  OBVIOUS
<1>2. /\ q.maxTag = p.maxTag
      /\ \A i \in Tags : i # k => q.avail[i] = p.avail[i]
      /\ q.avail[k] = b
      /\ \A a \in Addr : q.next[a] = IF a = b THEN p.avail[k] ELSE p.next[a]
      /\ \A a \in Addr : q.prev[a] = IF a = b THEN NULL ELSE IF a = p.avail[k] THEN b ELSE p.prev[a]
  <2>1. PICK av, nx, pv : av = p.avail /\ nx = p.next /\ pv = p.prev
    OBVIOUS
  <2>2. av \in [Tags -> Addr \cup {NULL}] /\ nx \in [Addr -> Addr \cup {NULL}] /\ pv \in [Addr -> Addr \cup {NULL}]
    BY <2>1 DEF Pool
  <2> QED BY <1>1, <2>1, <2>2 DEF Released, Pool
<1>3. NULL \notin Addr /\ F \subseteq Addr /\ b # NULL
  BY AddrIs
<1>4. ASSUME NEW i \in Tags, q.avail[i] # NULL
      PROVE  q.avail[i] \in F \cup {b} /\ t[q.avail[i]] = i /\ q.prev[q.avail[i]] = NULL
  <2>1. CASE i = k
    BY <1>2, <2>1
  <2>2. CASE i # k
    <3>1. PICK d : d = q.avail[i]
      OBVIOUS
    <3>2. d = p.avail[i] /\ d # NULL
      BY <1>2, <1>4, <2>2, <3>1
    <3>3. d \in F /\ t[d] = i /\ p.prev[d] = NULL
      BY <3>2 DEF Listed, Heads
    <3>4. d # p.avail[k]
      <4>1. p.avail[k] # NULL => t[p.avail[k]] = k
        BY DEF Listed, Heads
      <4> QED BY <2>2, <3>2, <3>3, <4>1
    <3>5. d # b
      BY <3>3
    <3> QED BY <1>2, <1>3, <3>1, <3>3, <3>4, <3>5
  <2> QED BY <2>1, <2>2
<1>5. ASSUME NEW d \in F \cup {b}, q.next[d] # NULL
      PROVE  q.next[d] \in F \cup {b} /\ t[q.next[d]] = t[d] /\ q.prev[q.next[d]] = d
  <2>1. PICK e : e = q.next[d]
    OBVIOUS
  <2>2. CASE d = b
    <3>1. e = p.avail[k] /\ e # NULL
      BY <1>2, <1>5, <2>1, <2>2
    <3>2. e \in F /\ t[e] = k
      BY <3>1 DEF Listed, Heads
    <3>3. q.prev[e] = b
      BY <1>2, <1>3, <3>1, <3>2
    <3> QED BY <2>1, <2>2, <3>2, <3>3
  <2>3. CASE d # b
    <3>1. d \in F /\ e = p.next[d] /\ e # NULL
      BY <1>2, <1>3, <1>5, <2>1, <2>3
    <3>2. e \in F /\ t[e] = t[d] /\ p.prev[e] = d
      BY <3>1 DEF Listed, Nexts
    <3>3. e # p.avail[k]
      <4>1. p.avail[k] # NULL => p.prev[p.avail[k]] = NULL
        BY DEF Listed, Heads
      <4> QED BY <1>3, <3>1, <3>2, <4>1
    <3>4. e # b
      BY <3>2
    <3> QED BY <1>2, <1>3, <2>1, <3>2, <3>3, <3>4
  <2> QED BY <2>2, <2>3
<1>6. ASSUME NEW d \in F \cup {b}, q.prev[d] # NULL
      PROVE  q.prev[d] \in F \cup {b} /\ t[q.prev[d]] = t[d] /\ q.next[q.prev[d]] = d
  <2>1. d # b /\ d \in F /\ d \in Addr
    BY <1>2, <1>3, <1>6
  <2>2. CASE d = p.avail[k]
    <3>1. q.prev[d] = b /\ q.next[b] = d
      BY <1>2, <2>1, <2>2
    <3>2. t[d] = k
      BY <1>3, <2>1, <2>2 DEF Listed, Heads
    <3> QED BY <3>1, <3>2
  <2>3. CASE d # p.avail[k]
    <3>1. q.prev[d] = p.prev[d] /\ p.prev[d] # NULL
      BY <1>2, <1>6, <2>1, <2>3
    <3>2. p.prev[d] \in F /\ t[p.prev[d]] = t[d] /\ p.next[p.prev[d]] = d
      BY <2>1, <3>1 DEF Listed, Prevs
    <3>3. p.prev[d] # b
      BY <3>2
    <3> QED BY <1>2, <1>3, <3>1, <3>2, <3>3
  <2> QED BY <2>2, <2>3
<1>7. Apart(t, F \cup {b})
  <2> SUFFICES ASSUME NEW d \in F \cup {b}, NEW e \in F \cup {b}, t[d] = t[e]
               PROVE  Buddy(d, t[d]) # e
    BY DEF Apart
  <2>1. CASE d \in F /\ e \in F
    BY <2>1 DEF Listed, Apart
  <2>2. CASE d = b \/ e = b
    BY <2>2
  <2> QED BY <2>1, <2>2
<1>8. Whole(q, t, F \cup {b})
  <2> SUFFICES ASSUME 0 \in F \cup {b}, t[0] = p.maxTag PROVE q.avail[p.maxTag] = 0
    BY <1>2 DEF Whole
  <2>1. CASE k = p.maxTag
    BY <1>2, <2>1
  <2>2. CASE k # p.maxTag
    <3>1. 0 \in F
      BY <2>2
    <3>2. p.avail[p.maxTag] = 0 /\ p.maxTag \in Tags
      BY <3>1 DEF Listed, Whole, Pool
    <3> QED BY <1>2, <2>2, <3>2
  <2> QED BY <2>1, <2>2
<1>9. Heads(q, t, F \cup {b}) /\ Nexts(q, t, F \cup {b}) /\ Prevs(q, t, F \cup {b})
  <2>1. Heads(q, t, F \cup {b})
    BY <1>4 DEF Heads
  <2>2. Nexts(q, t, F \cup {b})
    BY <1>5 DEF Nexts
  <2>3. Prevs(q, t, F \cup {b})
    BY <1>6 DEF Prevs
  <2> QED BY <2>1, <2>2, <2>3
<1> QED BY <1>1, <1>7, <1>8, <1>9 DEF Listed

-----------------------------------------------------------------------------
(* mem_allocate_block.                                                     *)

\* The tags a block of tag k is split into on the way down to req.
Split(k, req) == {i \in Tags : req <= i /\ i < k}

Halves(b, k, req) == {b + Size(i) : i \in Split(k, req)}

LEMMA SplitIs ==
  ASSUME NEW k \in Tags, NEW req \in Tags, NEW b \in Nat
  PROVE  /\ Split(k, req) = {i \in Nat : req <= i /\ i < k}
         /\ \A i \in Split(k, req) : i \in Tags /\ i \in Nat /\ b < b + Size(i)
         /\ \A i, j \in Split(k, req) : b + Size(i) = b + Size(j) => i = j
<1>1. MinTag \in Nat /\ MaxTag \in Nat
  BY Constants
<1>2. \A i \in Tags : i \in Nat /\ MinTag <= i /\ i <= MaxTag
  BY <1>1 DEF Tags
<1>3. \A i \in Nat : req <= i /\ i < k => i \in Tags
  BY <1>1, <1>2 DEF Tags
<1>4. Split(k, req) = {i \in Nat : req <= i /\ i < k}
  BY <1>2, <1>3 DEF Split
<1>5. \A i \in Split(k, req) : i \in Tags /\ i \in Nat
  BY <1>2 DEF Split
<1>6. \A i \in Split(k, req) : Size(i) \in Nat /\ Size(i) > 0
  BY <1>5, Sizes
<1>7. ASSUME NEW i \in Split(k, req), NEW j \in Split(k, req), b + Size(i) = b + Size(j)
      PROVE  i = j
  <2>1. Size(i) = Size(j) /\ Size(i) \in Nat /\ Size(i) > 0
    BY <1>6, <1>7
  <2>2. i \in Nat /\ j \in Nat
    BY <1>5
  <2>3. ~ (i < j)
    BY <2>1, <2>2, SizesGrow
  <2>4. ~ (j < i)
    BY <2>1, <2>2, SizesGrow
  <2> QED BY <2>2, <2>3, <2>4
<1> QED BY <1>4, <1>5, <1>6, <1>7

\* What mem_allocate_block leaves in the words of the pool.
AllocIs(p, q, b, k, req) ==
  /\ q.maxTag = p.maxTag
  /\ q.avail[k] = p.next[b]
  /\ \A i \in Split(k, req) : q.avail[i] = b + Size(i)
  /\ \A i \in Tags : i # k /\ i \notin Split(k, req) => q.avail[i] = p.avail[i]
  /\ q.tag[b] = req
  /\ \A i \in Split(k, req) : q.tag[b + Size(i)] = i
  /\ \A a \in Addr : a # b /\ a \notin Halves(b, k, req) => q.tag[a] = p.tag[a]
  /\ q.res[b]
  /\ \A a \in Halves(b, k, req) : ~ q.res[a]
  /\ \A a \in Addr : a # b /\ a \notin Halves(b, k, req) => q.res[a] = p.res[a]
  /\ \A a \in Halves(b, k, req) : q.next[a] = NULL /\ q.prev[a] = NULL
  /\ \A a \in Addr : a \notin Halves(b, k, req) => q.next[a] = p.next[a]
  /\ p.next[b] # NULL => q.prev[p.next[b]] = NULL
  /\ \A a \in Addr : a \notin Halves(b, k, req) /\ a # p.next[b] => q.prev[a] = p.prev[a]

LEMMA Allocates ==
  ASSUME NEW p \in Pool, NEW k \in Tags, NEW req \in Tags, NEW b \in Addr, p.avail[k] = b,
         Halves(b, k, req) \subseteq Addr
  PROVE  /\ AllocateBlock(p, k, req) \in Pool
         /\ AllocIs(p, AllocateBlock(p, k, req), b, k, req)
<1>1. PICK av, tg, rs, nx, pv : av = p.avail /\ tg = p.tag /\ rs = p.res /\ nx = p.next /\ pv = p.prev
  OBVIOUS
<1>2. /\ av \in [Tags -> Addr \cup {NULL}] /\ tg \in [Addr -> Tags \cup {0}] /\ rs \in [Addr -> BOOLEAN]
      /\ nx \in [Addr -> Addr \cup {NULL}] /\ pv \in [Addr -> Addr \cup {NULL}]
  BY <1>1 DEF Pool
<1>3. PICK split : split = Split(k, req)
  OBVIOUS
<1>4. PICK half : half = Halves(b, k, req)
  OBVIOUS
<1>5. half = {b + Size(i) : i \in split}
  BY <1>3, <1>4 DEF Halves
<1>6. b \in Nat /\ NULL \notin Addr
  BY AddrIs
<1>7. /\ \A i \in split : i \in Tags /\ i \in Nat /\ b + Size(i) # b
      /\ \A i, j \in split : b + Size(i) = b + Size(j) => i = j
  <2>1. \A i \in split : i \in Tags /\ i \in Nat /\ b < b + Size(i)
    BY <1>3, <1>6, SplitIs
  <2>2. \A i \in split : Size(i) \in Nat
    BY <2>1, Sizes
  <2> QED BY <1>3, <1>6, <2>1, <2>2, SplitIs
<1>8. PICK g : g = [a \in half |-> CHOOSE i \in split : a = b + Size(i)]
  OBVIOUS
<1>9. \A a \in half : g[a] \in split /\ a = b + Size(g[a])
  BY <1>5, <1>8
<1>10. \A i \in split : b + Size(i) \in half /\ g[b + Size(i)] = i
  BY <1>5, <1>7, <1>9
<1>11. PICK fav : fav = [i \in Tags |-> IF i = k THEN nx[b] ELSE IF i \in split THEN b + Size(i) ELSE av[i]]
  OBVIOUS
<1>12. PICK ftg : ftg = [a \in Addr |-> IF a = b THEN req ELSE IF a \in half THEN g[a] ELSE tg[a]]
  OBVIOUS
<1>13. PICK frs : frs = [a \in Addr |-> IF a \in half \cup {b} THEN a = b ELSE rs[a]]
  OBVIOUS
<1>14. PICK fnx : fnx = [a \in Addr |-> IF a \in half THEN NULL ELSE nx[a]]
  OBVIOUS
<1>15. PICK fpv : fpv = [a \in Addr |-> IF a \in half \cup {nx[b]} THEN NULL ELSE pv[a]]
  OBVIOUS
<1>16. AllocateBlock(p, k, req) =
         [p EXCEPT !.avail = fav, !.tag = ftg, !.res = frs, !.next = fnx, !.prev = fpv]
  <2>1. split = {i \in Tags : req <= i /\ i < k} /\ half = {b + 2 ^ i : i \in split}
    BY <1>3, <1>5 DEF Split, Size
  <2>2. fav = [i \in Tags |-> IF i = k THEN p.next[b] ELSE IF i \in split THEN b + 2 ^ i ELSE p.avail[i]]
    BY <1>1, <1>11 DEF Size
  <2>3. ftg = [a \in Addr |-> IF a = b THEN req
                              ELSE IF a \in half THEN CHOOSE i \in split : a = b + 2 ^ i ELSE p.tag[a]]
    BY <1>1, <1>8, <1>12 DEF Size
  <2>4. frs = [a \in Addr |-> IF a \in half \cup {b} THEN a = b ELSE p.res[a]]
    BY <1>1, <1>13
  <2>5. fnx = [a \in Addr |-> IF a \in half THEN NULL ELSE p.next[a]]
    BY <1>1, <1>14
  <2>6. fpv = [a \in Addr |-> IF a \in half \cup {p.next[b]} THEN NULL ELSE p.prev[a]]
    BY <1>1, <1>15
  <2> QED BY <2>1, <2>2, <2>3, <2>4, <2>5, <2>6 DEF AllocateBlock
<1>17. PICK q : q = AllocateBlock(p, k, req)
  OBVIOUS
<1>18. q.maxTag = p.maxTag /\ q.avail = fav /\ q.tag = ftg /\ q.res = frs /\ q.next = fnx /\ q.prev = fpv
  BY <1>16, <1>17 DEF Pool
<1>19. /\ fav \in [Tags -> Addr \cup {NULL}] /\ ftg \in [Addr -> Tags \cup {0}] /\ frs \in [Addr -> BOOLEAN]
       /\ fnx \in [Addr -> Addr \cup {NULL}] /\ fpv \in [Addr -> Addr \cup {NULL}]
  <2>1. fav \in [Tags -> Addr \cup {NULL}]
    <3>1. nx[b] \in Addr \cup {NULL}
      BY <1>2
    <3>2. \A i \in split : b + Size(i) \in Addr
      BY <1>4, <1>10
    <3> QED BY <1>2, <1>11, <3>1, <3>2
  <2>2. ftg \in [Addr -> Tags \cup {0}]
    BY <1>2, <1>7, <1>9, <1>12
  <2>3. frs \in [Addr -> BOOLEAN]
    BY <1>2, <1>13
  <2>4. fnx \in [Addr -> Addr \cup {NULL}] /\ fpv \in [Addr -> Addr \cup {NULL}]
    BY <1>2, <1>14, <1>15
  <2> QED BY <2>1, <2>2, <2>3, <2>4
<1>20. q \in Pool
  BY <1>16, <1>17, <1>19 DEF Pool
<1>21. b \notin half /\ k \notin split /\ half \subseteq Addr
  <2>1. b \notin half
    BY <1>5, <1>7
  <2>2. k \notin split
    <3>1. k \in Nat
      BY Constants DEF Tags
    <3> QED BY <1>3, <3>1 DEF Split
  <2> QED BY <1>4, <2>1, <2>2
<1>22. /\ fav[k] = nx[b]
       /\ \A i \in split : fav[i] = b + Size(i)
       /\ \A i \in Tags : i # k /\ i \notin split => fav[i] = av[i]
  BY <1>7, <1>11, <1>21
<1>23. /\ ftg[b] = req
       /\ \A i \in split : ftg[b + Size(i)] = i
       /\ \A a \in Addr : a # b /\ a \notin half => ftg[a] = tg[a]
  BY <1>7, <1>10, <1>12, <1>21
<1>24. /\ frs[b]
       /\ \A a \in half : ~ frs[a]
       /\ \A a \in Addr : a # b /\ a \notin half => frs[a] = rs[a]
  BY <1>13, <1>21
<1>25. /\ \A a \in half : fnx[a] = NULL /\ fpv[a] = NULL
       /\ \A a \in Addr : a \notin half => fnx[a] = nx[a]
       /\ nx[b] # NULL => fpv[nx[b]] = NULL
       /\ \A a \in Addr : a \notin half /\ a # nx[b] => fpv[a] = pv[a]
  BY <1>2, <1>14, <1>15, <1>21
<1>26. AllocIs(p, q, b, k, req)
  BY <1>1, <1>3, <1>4, <1>18, <1>22, <1>23, <1>24, <1>25 DEF AllocIs
<1> QED BY <1>17, <1>20, <1>26

LEMMA HalvesLie ==
  ASSUME NEW max \in Nat, max <= MaxTag, NEW S, NEW t, Cut(max, S, t), NEW b \in S,
         NEW k \in Tags, k = t[b], NEW req \in Tags
  PROVE  Halves(b, k, req) \subseteq Addr
<1>1. /\ k \in Nat /\ k <= max /\ b \in Nat /\ Aligned(b, k) /\ b + Size(k) <= Size(max)
      /\ Size(max) \in Nat /\ Size(k) \in Nat
  BY BlockIs
<1>2. Size(max) <= Size(MaxTag) /\ MinTag \in Nat /\ MaxTag \in Nat /\ Size(MaxTag) \in Nat
  BY Constants, Sizes, SizesGrow
<1>3. ASSUME NEW i \in Split(k, req) PROVE b + Size(i) \in Addr
  <2>1. i \in Nat /\ i < k /\ MinTag <= i
    <3>1. i \in Tags /\ i < k
      BY DEF Split
    <3> QED BY <1>2, <3>1 DEF Tags
  <2>2. PICK z \in Nat : z = Size(i) /\ z > 0 /\ z + z <= Size(k)
    BY <1>1, <2>1, Sizes, SizesGrow
  <2>3. Aligned(b, i) /\ Aligned(z, i)
    BY <1>1, <2>1, <2>2, AlignedDown, AlignedSelf
  <2>4. Aligned(b + z, i) /\ b + z \in Nat
    <3>1. b \in Nat /\ z \in Nat /\ i \in Nat
      BY <1>1, <2>1
    <3> QED BY <2>3, <3>1, AlignedPlus
  <2>5. Aligned(b + z, MinTag)
    BY <1>2, <2>1, <2>4, AlignedDown
  <2>6. b + z < Size(MaxTag)
    BY <1>1, <1>2, <2>2
  <2> QED BY <2>2, <2>4, <2>5, <2>6, AddrIs
<1> QED BY <1>3 DEF Halves

-----------------------------------------------------------------------------
\* A request served from a free list.
LEMMA AllocateLists ==
  ASSUME NEW p \in Pool, NEW S \in SUBSET Addr, Cut(p.maxTag, S, p.tag), Listed(p, p.tag, Free(p, S)),
         NEW k \in Tags, NEW req \in Tags, req <= k, k <= p.maxTag, p.avail[k] # NULL,
         \A i \in Split(k, req) : p.avail[i] = NULL,
         NEW b, b = p.avail[k],
         NEW q, q = AllocateBlock(p, k, req)
  PROVE  /\ b \in S /\ ~ p.res[b] /\ p.tag[b] = k /\ q \in Pool
         /\ AllocIs(p, q, b, k, req)
         /\ Halves(b, k, req) \subseteq Addr /\ Halves(b, k, req) \cap S = {}
         /\ Cut(q.maxTag, S \cup Halves(b, k, req), q.tag)
         /\ Listed(q, q.tag, Free(q, S \cup Halves(b, k, req)))
<1>1. PICK F \in SUBSET Addr : F = Free(p, S)
  BY DEF Free
<1>2. PICK t : t = p.tag
  OBVIOUS
<1>3. b \in F /\ t[b] = k /\ p.prev[b] = NULL
  BY <1>1, <1>2 DEF Listed, Heads
<1>4. b \in S /\ ~ p.res[b] /\ b \in Addr /\ F \subseteq S
  BY <1>1, <1>3 DEF Free
<1>5. b \in Nat /\ NULL \notin Addr
  BY <1>4, AddrIs
<1>6. k \in Nat /\ req \in Nat /\ MinTag <= req /\ MinTag \in Nat /\ p.maxTag \in Nat /\ p.maxTag <= MaxTag /\ p.maxTag \in Tags
  BY Constants DEF Tags, Pool
<1>7. PICK half : half = Halves(b, k, req)
  OBVIOUS
<1>8. PICK split : split = Split(k, req)
  OBVIOUS
<1>9. /\ split = {i \in Nat : req <= i /\ i < k}
      /\ half = {b + Size(i) : i \in split}
      /\ \A i \in split : i \in Tags /\ i \in Nat /\ b < b + Size(i)
      /\ \A i, j \in split : b + Size(i) = b + Size(j) => i = j
  BY <1>5, <1>7, <1>8, SplitIs DEF Halves
<1>10. half \subseteq Addr
  BY <1>2, <1>3, <1>4, <1>6, <1>7, HalvesLie
<1>11. q \in Pool /\ AllocIs(p, q, b, k, req)
  BY <1>4, <1>7, <1>10, Allocates
<1>12. PICK u : u = q.tag
  OBVIOUS
<1>13. q.maxTag = p.maxTag
  BY <1>11 DEF AllocIs
<1>14. u[b] = req /\ \A i \in split : u[b + Size(i)] = i
  BY <1>8, <1>11, <1>12 DEF AllocIs
<1>15. \A a \in Addr : a # b /\ a \notin half => u[a] = t[a] /\ q.res[a] = p.res[a]
  BY <1>2, <1>7, <1>11, <1>12 DEF AllocIs
<1>34. /\ p.maxTag \in Nat /\ p.maxTag <= MaxTag /\ Cut(p.maxTag, S, t) /\ b \in S
       /\ req \in Nat /\ MinTag <= req /\ req <= t[b]
       /\ split = {i \in Nat : req <= i /\ i < t[b]} /\ half = {b + Size(i) : i \in split}
  BY <1>2, <1>3, <1>4, <1>6, <1>9
<1>16. half \cap S = {}
  <2> SUFFICES ASSUME NEW d \in S, NEW i \in split, d = b + Size(i) PROVE FALSE
    BY <1>9
  <2>1. PICK z \in Nat : z = Size(i) /\ z > 0 /\ z + z <= Size(k)
    BY <1>6, <1>9, Sizes, SizesGrow
  <2>2. b + Size(t[b]) <= d
    <3>1. b < d
      BY <1>5, <2>1
    <3> QED BY <1>2, <1>4, <3>1 DEF Cut
  <2>3. Size(k) \in Nat
    BY <1>6, Sizes
  <2> QED BY <1>3, <1>5, <2>1, <2>2, <2>3
<1>17. \A d \in S : d # b => u[d] = t[d] /\ q.res[d] = p.res[d]
  BY <1>15, <1>16
<1>18. Cut(p.maxTag, S \cup half, u)
  <2>1. \A d \in S : d # b => u[d] = t[d]
    BY <1>17
  <2>2. CutInto(p.maxTag, S, t, b, req, split, half, u)
    BY <1>34, <1>14, <2>1 DEF CutInto
  <2> QED BY <1>34, <2>2, CutSplit
<1>19. PICK G : G = Free(q, S \cup half)
  OBVIOUS
<1>20. G = (F \ {b}) \cup half
  <2>1. q.res[b] /\ (\A a \in half : ~ q.res[a])
    BY <1>7, <1>11 DEF AllocIs
  <2>2. b \notin half
    BY <1>4, <1>16
  <2>3. F = {d \in S : ~ p.res[d]}
    BY <1>1 DEF Free
  <2>4. G = {d \in S \cup half : ~ q.res[d]}
    BY <1>19 DEF Free
  <2> QED BY <1>4, <1>17, <2>1, <2>2, <2>3, <2>4
<1>21. F \cap half = {} /\ F \subseteq Addr /\ b \notin half
  BY <1>4, <1>16
<1>22. \A d \in half : \E i \in split : d = b + Size(i) /\ u[d] = i
  BY <1>9, <1>14
<1>23. /\ q.avail[k] = p.next[b]
       /\ \A i \in split : q.avail[i] = b + Size(i)
       /\ \A i \in Tags : i # k /\ i \notin split => q.avail[i] = p.avail[i]
  BY <1>8, <1>11 DEF AllocIs
<1>24. /\ \A a \in half : q.next[a] = NULL /\ q.prev[a] = NULL
       /\ \A a \in Addr : a \notin half => q.next[a] = p.next[a]
       /\ p.next[b] # NULL => q.prev[p.next[b]] = NULL
       /\ \A a \in Addr : a \notin half /\ a # p.next[b] => q.prev[a] = p.prev[a]
  BY <1>7, <1>11 DEF AllocIs
<1>25. \A d \in F : d # b => u[d] = t[d]
  BY <1>4, <1>17
<1>26. b # NULL
  BY <1>4, <1>5
<1>27. ASSUME NEW i \in Tags, q.avail[i] # NULL
       PROVE  q.avail[i] \in G /\ u[q.avail[i]] = i /\ q.prev[q.avail[i]] = NULL
  <2>1. CASE i = k
    <3>1. PICK d : d = p.next[b]
      OBVIOUS
    <3>2. q.avail[i] = d /\ d # NULL
      BY <1>23, <1>27, <2>1, <3>1
    <3>3. d \in F /\ t[d] = k /\ p.prev[d] = b
      BY <1>1, <1>2, <1>3, <3>1, <3>2 DEF Listed, Nexts
    <3>4. d # b
      BY <1>3, <1>26, <3>3
    <3> QED BY <1>20, <1>24, <1>25, <2>1, <3>1, <3>2, <3>3, <3>4
  <2>2. CASE i \in split
    <3>1. b + Size(i) \in half
      BY <1>9, <2>2
    <3> QED BY <1>14, <1>20, <1>23, <1>24, <2>2, <3>1
  <2>3. CASE i # k /\ i \notin split
    <3>1. PICK d : d = p.avail[i]
      OBVIOUS
    <3>2. q.avail[i] = d /\ d # NULL
      BY <1>23, <1>27, <2>3, <3>1
    <3>3. d \in F /\ t[d] = i /\ p.prev[d] = NULL
      BY <1>1, <1>2, <3>1, <3>2 DEF Listed, Heads
    <3>4. d # b
      BY <1>3, <2>3, <3>3
    <3>5. q.prev[d] = NULL
      BY <1>21, <1>24, <3>2, <3>3
    <3> QED BY <1>20, <1>25, <3>2, <3>3, <3>4, <3>5
  <2> QED BY <2>1, <2>2, <2>3
<1>28. ASSUME NEW d \in G, q.next[d] # NULL
       PROVE  q.next[d] \in G /\ u[q.next[d]] = u[d] /\ q.prev[q.next[d]] = d
  <2>1. d \in F /\ d # b /\ d \notin half /\ d \in Addr
    BY <1>20, <1>21, <1>24, <1>28
  <2>2. PICK e : e = p.next[d]
    OBVIOUS
  <2>3. q.next[d] = e /\ e # NULL
    BY <1>24, <1>28, <2>1, <2>2
  <2>4. e \in F /\ t[e] = t[d] /\ p.prev[e] = d
    BY <1>1, <1>2, <2>1, <2>2, <2>3 DEF Listed, Nexts
  <2>5. d # NULL
    BY <1>5, <2>1
  <2>6. e # b
    BY <1>3, <2>4, <2>5
  <2>7. e # p.next[b]
    <3> SUFFICES ASSUME e = p.next[b] PROVE FALSE
      OBVIOUS
    <3>1. p.prev[e] = b
      BY <1>1, <1>3, <2>3 DEF Listed, Nexts
    <3> QED BY <2>1, <2>4, <3>1
  <2>8. q.prev[e] = d
    BY <1>21, <1>24, <2>4, <2>7
  <2> QED BY <1>20, <1>25, <2>1, <2>3, <2>4, <2>6, <2>8
<1>29. ASSUME NEW d \in G, q.prev[d] # NULL
       PROVE  q.prev[d] \in G /\ u[q.prev[d]] = u[d] /\ q.next[q.prev[d]] = d
  <2>1. d \in F /\ d # b /\ d \notin half /\ d \in Addr /\ d # p.next[b]
    <3>1. d \notin half
      BY <1>24, <1>29
    <3>2. d \in F /\ d # b /\ d \in Addr
      BY <1>20, <1>21, <3>1
    <3>3. d # NULL
      BY <1>5, <3>2
    <3> QED BY <1>24, <1>29, <3>1, <3>2, <3>3
  <2>2. PICK e : e = p.prev[d]
    OBVIOUS
  <2>3. q.prev[d] = e /\ e # NULL
    BY <1>24, <1>29, <2>1, <2>2
  <2>4. e \in F /\ t[e] = t[d] /\ p.next[e] = d
    BY <1>1, <1>2, <2>1, <2>2, <2>3 DEF Listed, Prevs
  <2>5. e # b
    BY <2>1, <2>4
  <2>6. q.next[e] = d
    BY <1>21, <1>24, <2>4
  <2> QED BY <1>20, <1>25, <2>1, <2>3, <2>4, <2>5, <2>6
<1>30. \A i \in split : Buddy(b, i) = b + Size(i) /\ Buddy(b + Size(i), i) = b
  <2> SUFFICES ASSUME NEW i \in split PROVE Buddy(b, i) = b + Size(i) /\ Buddy(b + Size(i), i) = b
    OBVIOUS
  <2>1. Aligned(b, k) /\ i \in Nat /\ i + 1 \in Nat /\ i + 1 <= k /\ i <= k
    <3>1. Aligned(b, k)
      BY <1>2, <1>3, <1>4, <1>6, BlockIs
    <3> QED BY <1>6, <1>9, <3>1
  <2>2. Aligned(b, i) /\ Aligned(b, i + 1)
    BY <1>5, <1>6, <2>1, AlignedDown
  <2>3. Buddy(b, i) = b + Size(i)
    BY <1>5, <2>1, <2>2, BuddyIs
  <2> QED BY <1>5, <2>1, <2>2, <2>3, BuddyBack
<1>31. Apart(u, G)
  <2> SUFFICES ASSUME NEW d \in G, NEW e \in G, u[d] = u[e] PROVE Buddy(d, u[d]) # e
    BY DEF Apart
  <2>1. CASE d \in F /\ e \in F
    <3>1. d # b /\ e # b
      BY <1>20, <1>21, <2>1
    <3>2. t[d] = t[e] /\ u[d] = t[d]
      BY <1>25, <2>1, <3>1
    <3> QED BY <1>1, <1>2, <2>1, <3>2 DEF Listed, Apart
  <2>2. CASE d \in half
    <3>1. PICK i \in split : d = b + Size(i) /\ u[d] = i
      BY <1>22, <2>2
    <3>2. Buddy(d, u[d]) = b
      BY <1>30, <3>1
    <3> QED BY <1>20, <1>21, <3>2
  <2>3. CASE e \in half /\ d \in F
    <3>1. PICK i \in split : e = b + Size(i) /\ u[e] = i
      BY <1>22, <2>3
    <3>2. d # b /\ d \in S /\ u[d] = t[d]
      BY <1>4, <1>20, <1>21, <1>25, <2>3
    <3>3. d \in Nat /\ i \in Nat /\ Aligned(d, i)
      BY <1>2, <1>6, <3>1, <3>2, BlockIs
    <3>4. Buddy(Buddy(d, i), i) = d
      BY <3>3, BuddyBack
    <3>5. Buddy(e, i) = b
      BY <1>30, <3>1
    <3> QED BY <3>1, <3>2, <3>4, <3>5
  <2> QED BY <1>20, <2>1, <2>2, <2>3
<1>32. Whole(q, u, G)
  <2> SUFFICES ASSUME 0 \in G, u[0] = p.maxTag PROVE q.avail[p.maxTag] = 0
    BY <1>13 DEF Whole
  <2>1. 0 \notin half
    <3>1. \A i \in split : b + Size(i) # 0
      <4>1. \A i \in split : Size(i) \in Nat /\ Size(i) > 0
        BY <1>9, Sizes
      <4> QED BY <1>5, <4>1
    <3> QED BY <1>9, <3>1
  <2>2. 0 \in F /\ b # 0 /\ t[0] = p.maxTag
    BY <1>20, <1>25, <2>1
  <2>3. p.avail[p.maxTag] = 0
    BY <1>1, <1>2, <2>2 DEF Listed, Whole
  <2>4. p.maxTag # k
    BY <2>2, <2>3
  <2>5. p.maxTag \notin split
    BY <1>6, <1>9
  <2> QED BY <1>6, <1>23, <2>3, <2>4, <2>5
<1>33. Listed(q, u, G)
  <2>1. Heads(q, u, G)
    BY <1>27 DEF Heads
  <2>2. Nexts(q, u, G)
    BY <1>28 DEF Nexts
  <2>3. Prevs(q, u, G)
    BY <1>29 DEF Prevs
  <2> QED BY <1>31, <1>32, <2>1, <2>2, <2>3 DEF Listed
<1> QED BY <1>2, <1>3, <1>4, <1>7, <1>10, <1>11, <1>12, <1>13, <1>16, <1>18, <1>19, <1>33

-----------------------------------------------------------------------------
(* A pool.  X holds the block a mem_free has in its hands, which is on no  *)
(* list and nobody's, or is empty.                                         *)

PoolIs(k, p, S, t, X, have) ==
  Cut(p.maxTag, S, t) /\ Listed(p, t, Free(p, S \ X)) /\ Owns(k, p, S \ X, t, have)

\* Pool k, that is p, while no call is at work in it.
AtEase(k, p, have) == \E S \in SUBSET Addr : PoolIs(k, p, S, p.tag, {}, have)

\* Pool k while a mem_free has merged its block to one of tag i at a.
Merging(k, p, a, i, have) ==
  \E S \in SUBSET Addr : a \in S /\ PoolIs(k, p, S, [p.tag EXCEPT ![a] = i], {a}, have)

Owned == [pool : 1 .. MaxPools, addr : Addr, tag : Tags]

Block(k, a, i) == [pool |-> k, addr |-> a, tag |-> i]

LEMMA PoolParts ==
  ASSUME NEW p \in Pool
  PROVE  /\ p.maxTag \in Tags /\ p.maxTag \in Nat /\ MinTag <= p.maxTag /\ p.maxTag <= MaxTag
         /\ p.avail \in [Tags -> Addr \cup {NULL}] /\ p.tag \in [Addr -> Tags \cup {0}]
         /\ p.res \in [Addr -> BOOLEAN]
         /\ p.next \in [Addr -> Addr \cup {NULL}] /\ p.prev \in [Addr -> Addr \cup {NULL}]
  BY Constants DEF Pool, Tags

LEMMA OneBlock ==
  ASSUME NEW max \in Tags, NEW t, t[0] = max
  PROVE  Cut(max, {0}, t)
<1>1. max \in Nat /\ max \in MinTag .. max
  BY Constants DEF Tags
<1>2. PICK m \in Nat : m = Size(max) /\ m > 0
  BY <1>1, Sizes
<1>3. Aligned(0, max)
  BY <1>1, AlignedSelf
<1>4. 0 \in Addr
  BY AddrIs
<1> QED BY <1>1, <1>2, <1>3, <1>4 DEF Cut

LEMMA NewPoolAtEase ==
  ASSUME NEW max \in Tags, NEW k, NEW have, \A o \in have : o.pool # k
  PROVE  NewPool(max) \in Pool /\ AtEase(k, NewPool(max), have) /\ NewPool(max).avail[max] = 0
<1>1. PICK p : p = NewPool(max)
  OBVIOUS
<1>2. 0 \in Addr /\ NULL \notin Addr
  BY AddrIs
<1>3. /\ p.maxTag = max
      /\ p.avail = [i \in Tags |-> IF i = max THEN 0 ELSE NULL]
      /\ p.tag = [a \in Addr |-> IF a = 0 THEN max ELSE 0]
      /\ p.res = [a \in Addr |-> FALSE]
      /\ p.next = [a \in Addr |-> NULL] /\ p.prev = [a \in Addr |-> NULL]
  BY <1>1 DEF NewPool
<1>4. p \in Pool
  BY <1>1, <1>2 DEF NewPool, Pool
<1>5. p.tag[0] = max /\ ~ p.res[0] /\ p.next[0] = NULL /\ p.prev[0] = NULL /\ p.avail[max] = 0
  BY <1>2, <1>3
<1>6. Cut(max, {0}, p.tag)
  BY <1>5, OneBlock
<1>7. Free(p, {0} \ {}) = {0}
  BY <1>5 DEF Free
<1>8. max \in Nat /\ Aligned(0, max)
  <2>1. max \in Nat
    BY Constants DEF Tags
  <2> QED BY <2>1, AlignedSelf
<1>9. Listed(p, p.tag, {0})
  <2>1. Heads(p, p.tag, {0})
    BY <1>3, <1>5 DEF Heads
  <2>2. Nexts(p, p.tag, {0}) /\ Prevs(p, p.tag, {0})
    BY <1>5 DEF Nexts, Prevs
  <2>3. Apart(p.tag, {0})
    <3>1. Buddy(0, max) # 0
      BY <1>8, BuddyBack
    <3> QED BY <1>5, <3>1 DEF Apart
  <2>4. Whole(p, p.tag, {0})
    BY <1>3, <1>5 DEF Whole
  <2> QED BY <2>1, <2>2, <2>3, <2>4 DEF Listed
<1>10. Owns(k, p, {0} \ {}, p.tag, have)
  BY <1>5 DEF Owns
<1>11. PoolIs(k, p, {0}, p.tag, {}, have)
  BY <1>3, <1>6, <1>7, <1>9, <1>10 DEF PoolIs
<1>12. AtEase(k, p, have)
  BY <1>2, <1>11 DEF AtEase
<1> QED BY <1>1, <1>4, <1>5, <1>12

\* Blocks of another pool do not concern this one.
LEMMA OwnsOther ==
  ASSUME NEW k, NEW p, NEW have, NEW have2,
         \A o : o.pool = k => (o \in have <=> o \in have2)
  PROVE  AtEase(k, p, have) => AtEase(k, p, have2)
<1>1. ASSUME NEW S, PoolIs(k, p, S, p.tag, {}, have)
      PROVE  PoolIs(k, p, S, p.tag, {}, have2)
  <2>1. Owns(k, p, S \ {}, p.tag, have)
    BY <1>1 DEF PoolIs
  <2>2. ASSUME NEW b \in S \ {}, p.res[b] PROVE [pool |-> k, addr |-> b, tag |-> p.tag[b]] \in have2
    <3>1. [pool |-> k, addr |-> b, tag |-> p.tag[b]] \in have
      BY <2>1, <2>2 DEF Owns
    <3> QED BY <3>1
  <2>3. ASSUME NEW o \in have2, o.pool = k
        PROVE  o.addr \in S \ {} /\ p.res[o.addr] /\ o.tag = p.tag[o.addr]
    <3>1. o \in have
      BY <2>3
    <3> QED BY <2>1, <2>3, <3>1 DEF Owns
  <2>4. Owns(k, p, S \ {}, p.tag, have2)
    BY <2>2, <2>3 DEF Owns
  <2> QED BY <1>1, <2>4 DEF PoolIs
<1> QED BY <1>1 DEF AtEase

-----------------------------------------------------------------------------
LEMMA SmallestIs ==
  ASSUME NEW p \in Pool, NEW req \in Tags, Fits(p, req) # {}
  PROVE  /\ Smallest(Fits(p, req)) \in Fits(p, req)
         /\ \A j \in Fits(p, req) : Smallest(Fits(p, req)) <= j
<1>1. Fits(p, req) \subseteq Nat
  BY Constants DEF Fits, Tags
<1>2. \E k \in Fits(p, req) : \A j \in Fits(p, req) : k <= j
  BY <1>1, LeastOf
<1> QED BY <1>2 DEF Smallest

LEMMA ServedFromList ==
  ASSUME NEW k, NEW p \in Pool, NEW have, AtEase(k, p, have),
         NEW req \in Tags, Fits(p, req) # {}
  PROVE  /\ Served(p, req) \in Pool /\ ServedAt(p, req) \in Addr
         /\ AtEase(k, Served(p, req), have \cup {Block(k, ServedAt(p, req), req)})
<1>1. PICK i : i = Smallest(Fits(p, req))
  OBVIOUS
<1>2. i \in Fits(p, req) /\ \A j \in Fits(p, req) : i <= j
  BY <1>1, SmallestIs
<1>3. i \in Tags /\ req <= i /\ i <= p.maxTag /\ p.avail[i] # NULL
  BY <1>2 DEF Fits
<1>4. \A j \in Split(i, req) : p.avail[j] = NULL
  <2> SUFFICES ASSUME NEW j \in Split(i, req), p.avail[j] # NULL PROVE FALSE
    OBVIOUS
  <2>1. j \in Tags /\ req <= j /\ j < i /\ j \in Nat /\ i \in Nat /\ p.maxTag \in Nat
    BY <1>3, Constants, PoolParts DEF Split, Tags
  <2>2. j \in Fits(p, req)
    BY <1>3, <2>1 DEF Fits
  <2> QED BY <1>2, <2>1, <2>2
<1>5. PICK b : b = p.avail[i]
  OBVIOUS
<1>6. PICK q : q = AllocateBlock(p, i, req)
  OBVIOUS
<1>7. Served(p, req) = q /\ ServedAt(p, req) = b
  BY <1>1, <1>5, <1>6 DEF Served, ServedAt
<1>8. PICK S \in SUBSET Addr : PoolIs(k, p, S, p.tag, {}, have)
  BY DEF AtEase
<1>9. S \ {} = S
  OBVIOUS
<1>10. Cut(p.maxTag, S, p.tag) /\ Listed(p, p.tag, Free(p, S)) /\ Owns(k, p, S, p.tag, have)
  BY <1>8, <1>9 DEF PoolIs
<1>11. PICK half : half = Halves(b, i, req)
  OBVIOUS
<1>12. /\ b \in S /\ ~ p.res[b] /\ p.tag[b] = i /\ q \in Pool
       /\ AllocIs(p, q, b, i, req)
       /\ half \subseteq Addr /\ half \cap S = {}
       /\ Cut(q.maxTag, S \cup half, q.tag)
       /\ Listed(q, q.tag, Free(q, S \cup half))
  BY <1>3, <1>4, <1>5, <1>6, <1>10, <1>11, AllocateLists
<1>13. /\ q.tag[b] = req /\ q.res[b] /\ \A a \in half : ~ q.res[a]
       /\ \A d \in S : d # b => q.tag[d] = p.tag[d] /\ q.res[d] = p.res[d]
  BY <1>11, <1>12 DEF AllocIs
<1>14. PICK new : new = Block(k, b, req)
  OBVIOUS
<1>15. new.pool = k /\ new.addr = b /\ new.tag = req
  BY <1>14 DEF Block
<1>16. Owns(k, q, S \cup half, q.tag, have \cup {new})
  <2>1. ASSUME NEW d \in S \cup half, q.res[d]
        PROVE  [pool |-> k, addr |-> d, tag |-> q.tag[d]] \in have \cup {new}
    <3>1. d \in S
      BY <1>13, <2>1
    <3>2. CASE d = b
      BY <1>13, <1>14, <3>2 DEF Block
    <3>3. CASE d # b
      <4>1. p.res[d] /\ q.tag[d] = p.tag[d]
        BY <1>13, <2>1, <3>1, <3>3
      <4> QED BY <1>10, <3>1, <4>1 DEF Owns
    <3> QED BY <3>2, <3>3
  <2>2. ASSUME NEW o \in have \cup {new}, o.pool = k
        PROVE  o.addr \in S \cup half /\ q.res[o.addr] /\ o.tag = q.tag[o.addr]
    <3>1. CASE o = new
      BY <1>12, <1>13, <1>15, <3>1
    <3>2. CASE o \in have
      <4>1. o.addr \in S /\ p.res[o.addr] /\ o.tag = p.tag[o.addr]
        BY <1>10, <2>2, <3>2 DEF Owns
      <4>2. o.addr # b
        BY <1>12, <4>1
      <4> QED BY <1>13, <4>1, <4>2
    <3> QED BY <2>2, <3>1, <3>2
  <2> QED BY <2>1, <2>2 DEF Owns
<1>17. (S \cup half) \ {} = S \cup half /\ S \cup half \in SUBSET Addr
  BY <1>12
<1>18. PoolIs(k, q, S \cup half, q.tag, {}, have \cup {new})
  BY <1>12, <1>16, <1>17 DEF PoolIs
<1>19. AtEase(k, q, have \cup {new})
  BY <1>17, <1>18 DEF AtEase
<1> QED BY <1>7, <1>12, <1>14, <1>19

LEMMA ServedByGrowing ==
  ASSUME NEW k, NEW p \in Pool, NEW have, AtEase(k, p, have),
         NEW req \in Tags, Fits(p, req) = {}, CanExpand(p)
  PROVE  /\ Served(p, req) \in Pool /\ ServedAt(p, req) \in Addr
         /\ AtEase(k, Served(p, req), have \cup {Block(k, ServedAt(p, req), req)})
<1>1. PICK S \in SUBSET Addr : PoolIs(k, p, S, p.tag, {}, have)
  BY DEF AtEase
<1>2. S \ {} = S
  OBVIOUS
<1>3. Cut(p.maxTag, S, p.tag) /\ Listed(p, p.tag, Free(p, S)) /\ Owns(k, p, S, p.tag, have)
  BY <1>1, <1>2 DEF PoolIs
<1>4. p.tag[0] = p.maxTag /\ ~ p.res[0] /\ 0 \in S
  BY <1>3 DEF CanExpand, Cut
<1>5. S = {0}
  BY <1>3, <1>4, PoolParts, CutIsOne
<1>6. Free(p, S) = {0}
  BY <1>4, <1>5 DEF Free
<1>7. 0 \in Addr /\ NULL # 0 /\ NULL \notin Addr
  BY AddrIs DEF NULL
<1>8. p.avail[p.maxTag] = 0 /\ p.maxTag \in Tags
  BY <1>3, <1>4, <1>6, PoolParts DEF Listed, Whole
<1>9. p.prev[0] = NULL
  BY <1>3, <1>7, <1>8 DEF Listed, Heads
<1>10. p.next[0] = NULL
  <2> SUFFICES ASSUME p.next[0] # NULL PROVE FALSE
    OBVIOUS
  <2>1. p.next[0] \in {0} /\ p.prev[p.next[0]] = 0
    BY <1>3, <1>6 DEF Listed, Nexts
  <2> QED BY <1>7, <1>9, <2>1
<1>11. PICK pe : pe = Expanded(p, req)
  OBVIOUS
<1>12. /\ pe.maxTag = req /\ pe.avail = [i \in Tags |-> IF i = req THEN 0 ELSE NULL]
       /\ pe.tag = p.tag /\ pe.res = p.res /\ pe.next = p.next /\ pe.prev = p.prev
  BY <1>11 DEF Expanded, Pool
<1>13. pe \in Pool
  BY <1>7, <1>11 DEF Expanded, Pool
<1>14. PICK q : q = AllocateBlock(pe, req, req)
  OBVIOUS
<1>15. Served(p, req) = q /\ ServedAt(p, req) = 0
  BY <1>11, <1>14 DEF Served, ServedAt
<1>16. Split(req, req) = {}
  BY Constants DEF Split, Tags
<1>17. Halves(0, req, req) = {}
  BY <1>16 DEF Halves
<1>18. pe.avail[req] = 0
  BY <1>12
<1>19. q \in Pool /\ AllocIs(pe, q, 0, req, req)
  BY <1>7, <1>13, <1>14, <1>17, <1>18, Allocates
<1>20. /\ q.maxTag = req /\ q.tag[0] = req /\ q.res[0]
       /\ q.avail[req] = pe.next[0]
       /\ \A i \in Tags : i # req => q.avail[i] = pe.avail[i]
  BY <1>12, <1>16, <1>19 DEF AllocIs
<1>21. \A i \in Tags : q.avail[i] = NULL
  BY <1>10, <1>12, <1>20
<1>22. Free(q, {0}) = {}
  BY <1>20 DEF Free
<1>23. Listed(q, q.tag, {})
  BY <1>21 DEF Listed, Heads, Nexts, Prevs, Apart, Whole
<1>24. Cut(req, {0}, q.tag)
  BY <1>20, OneBlock
<1>25. PICK new : new = Block(k, 0, req)
  OBVIOUS
<1>26. Owns(k, q, {0}, q.tag, have \cup {new})
  <2>1. \A o \in have : o.pool # k
    BY <1>3, <1>4, <1>5 DEF Owns
  <2>2. new.pool = k /\ new.addr = 0 /\ new.tag = req /\ new = [pool |-> k, addr |-> 0, tag |-> q.tag[0]]
    BY <1>20, <1>25 DEF Block
  <2> QED BY <1>20, <2>1, <2>2 DEF Owns
<1>27. {0} \ {} = {0} /\ {0} \in SUBSET Addr
  BY <1>7
<1>28. PoolIs(k, q, {0}, q.tag, {}, have \cup {new})
  BY <1>20, <1>22, <1>23, <1>24, <1>26, <1>27 DEF PoolIs
<1>29. AtEase(k, q, have \cup {new})
  BY <1>27, <1>28 DEF AtEase
<1> QED BY <1>7, <1>15, <1>19, <1>25, <1>29

LEMMA ServedIs ==
  ASSUME NEW k, NEW p \in Pool, NEW have, AtEase(k, p, have), NEW req \in Tags, CanServe(p, req)
  PROVE  /\ Served(p, req) \in Pool /\ ServedAt(p, req) \in Addr
         /\ AtEase(k, Served(p, req), have \cup {Block(k, ServedAt(p, req), req)})
<1>1. CASE Fits(p, req) # {}
  BY <1>1, ServedFromList
<1>2. CASE Fits(p, req) = {} /\ CanExpand(p)
  BY <1>2, ServedByGrowing
<1> QED BY <1>1, <1>2 DEF CanServe

-----------------------------------------------------------------------------
(* mem_free.                                                               *)

\* mem_free is called with a block that is in use: it is where its words say.
LEMMA FreeStarts ==
  ASSUME NEW k, NEW p \in Pool, NEW have \in SUBSET Owned, AtEase(k, p, have),
         NEW b \in have, b.pool = k
  PROVE  /\ p.res[b.addr] /\ p.tag[b.addr] = b.tag
         /\ Merging(k, p, b.addr, b.tag, have \ {b})
<1>1. PICK S \in SUBSET Addr : PoolIs(k, p, S, p.tag, {}, have)
  BY DEF AtEase
<1>2. S \ {} = S
  OBVIOUS
<1>3. Cut(p.maxTag, S, p.tag) /\ Listed(p, p.tag, Free(p, S)) /\ Owns(k, p, S, p.tag, have)
  BY <1>1, <1>2 DEF PoolIs
<1>4. PICK a : a = b.addr
  OBVIOUS
<1>5. a \in S /\ p.res[a] /\ b.tag = p.tag[a]
  BY <1>3, <1>4 DEF Owns
<1>6. [p.tag EXCEPT ![a] = b.tag] = p.tag
  BY <1>5, PoolParts
<1>7. Free(p, S \ {a}) = Free(p, S)
  BY <1>5 DEF Free
<1>8. Owns(k, p, S \ {a}, p.tag, have \ {b})
  <2>1. ASSUME NEW d \in S \ {a}, p.res[d]
        PROVE  [pool |-> k, addr |-> d, tag |-> p.tag[d]] \in have \ {b}
    <3>1. [pool |-> k, addr |-> d, tag |-> p.tag[d]] \in have
      BY <1>3, <2>1 DEF Owns
    <3>2. [pool |-> k, addr |-> d, tag |-> p.tag[d]].addr # b.addr
      BY <1>4
    <3> QED BY <3>1, <3>2
  <2>2. ASSUME NEW o \in have \ {b}, o.pool = k
        PROVE  o.addr \in S \ {a} /\ p.res[o.addr] /\ o.tag = p.tag[o.addr]
    <3>1. o.addr \in S /\ p.res[o.addr] /\ o.tag = p.tag[o.addr]
      BY <1>3, <2>2 DEF Owns
    <3>2. o.addr # a
      <4> SUFFICES ASSUME o.addr = a PROVE FALSE
        OBVIOUS
      <4>1. o \in Owned /\ b \in Owned /\ o.pool = b.pool /\ o.addr = b.addr /\ o.tag = b.tag
        BY <1>4, <1>5, <2>2, <3>1
      <4>2. o = b
        BY <4>1 DEF Owned
      <4> QED BY <4>2
    <3> QED BY <3>1, <3>2
  <2> QED BY <2>1, <2>2 DEF Owns
<1>9. PoolIs(k, p, S, [p.tag EXCEPT ![a] = b.tag], {a}, have \ {b})
  BY <1>3, <1>6, <1>7, <1>8 DEF PoolIs
<1>10. Merging(k, p, a, b.tag, have \ {b})
  BY <1>5, <1>9 DEF Merging
<1> QED BY <1>4, <1>5, <1>10

LEMMA Unlinks ==
  ASSUME NEW p \in Pool, NEW b \in Addr, NEW i \in Tags
  PROVE  /\ Unlinked(p, b, i) \in Pool
         /\ Unlinked(p, b, i).maxTag = p.maxTag /\ Unlinked(p, b, i).tag = p.tag
         /\ Unlinked(p, b, i).res = p.res
<1>1. PICK av, nx, pv : av = p.avail /\ nx = p.next /\ pv = p.prev
  OBVIOUS
<1>2. av \in [Tags -> Addr \cup {NULL}] /\ nx \in [Addr -> Addr \cup {NULL}] /\ pv \in [Addr -> Addr \cup {NULL}]
  BY <1>1, PoolParts
<1>3. PICK fnx : fnx = [a \in Addr |-> IF a = pv[b] THEN nx[b] ELSE nx[a]]
  OBVIOUS
<1>4. PICK fpv : fpv = [a \in Addr |-> IF a = nx[b] THEN pv[b] ELSE pv[a]]
  OBVIOUS
<1>5. PICK fav : fav = [av EXCEPT ![i] = IF av[i] = b THEN NULL ELSE av[i]]
  OBVIOUS
<1>6. fnx \in [Addr -> Addr \cup {NULL}] /\ fpv \in [Addr -> Addr \cup {NULL}] /\ fav \in [Tags -> Addr \cup {NULL}]
  BY <1>2, <1>3, <1>4, <1>5
<1>7. Unlinked(p, b, i) = [p EXCEPT !.next = fnx, !.prev = fpv, !.avail = fav]
  <2>1. p.avail = av /\ p.next = nx /\ p.prev = pv
    BY <1>1
  <2> QED BY <1>3, <1>4, <1>5, <2>1 DEF Unlinked, Pool
<1> QED BY <1>6, <1>7 DEF Pool

LEMMA Releases ==
  ASSUME NEW p \in Pool, NEW b \in Addr, NEW i \in Tags
  PROVE  /\ Released(p, b, i) \in Pool
         /\ Released(p, b, i).maxTag = p.maxTag
         /\ Released(p, b, i).tag = [p.tag EXCEPT ![b] = i]
         /\ Released(p, b, i).res = [p.res EXCEPT ![b] = FALSE]
<1>1. PICK av, tg, rs, nx, pv : av = p.avail /\ tg = p.tag /\ rs = p.res /\ nx = p.next /\ pv = p.prev
  OBVIOUS
<1>2. /\ av \in [Tags -> Addr \cup {NULL}] /\ nx \in [Addr -> Addr \cup {NULL}] /\ pv \in [Addr -> Addr \cup {NULL}]
      /\ tg \in [Addr -> Tags \cup {0}] /\ rs \in [Addr -> BOOLEAN]
  BY <1>1, PoolParts
<1>3. PICK fnx : fnx = [nx EXCEPT ![b] = av[i]]
  OBVIOUS
<1>4. PICK fpv : fpv = [a \in Addr |-> IF a = b THEN NULL ELSE IF a = av[i] THEN b ELSE pv[a]]
  OBVIOUS
<1>5. PICK fav : fav = [av EXCEPT ![i] = b]
  OBVIOUS
<1>6. PICK ftg : ftg = [tg EXCEPT ![b] = i]
  OBVIOUS
<1>7. PICK frs : frs = [rs EXCEPT ![b] = FALSE]
  OBVIOUS
<1>8. /\ fnx \in [Addr -> Addr \cup {NULL}] /\ fpv \in [Addr -> Addr \cup {NULL}] /\ fav \in [Tags -> Addr \cup {NULL}]
      /\ ftg \in [Addr -> Tags \cup {0}] /\ frs \in [Addr -> BOOLEAN]
  BY <1>2, <1>3, <1>4, <1>5, <1>6, <1>7
<1>9. Released(p, b, i) = [p EXCEPT !.tag = ftg, !.res = frs, !.next = fnx, !.prev = fpv, !.avail = fav]
  <2>1. p.avail = av /\ p.tag = tg /\ p.res = rs /\ p.next = nx /\ p.prev = pv
    BY <1>1
  <2> QED BY <1>3, <1>4, <1>5, <1>6, <1>7, <2>1 DEF Released, Pool
<1> QED BY <1>1, <1>6, <1>7, <1>8, <1>9 DEF Pool

-----------------------------------------------------------------------------
\* A block and its free buddy become one, and the buddy is on no list.
LEMMA MergeIs ==
  ASSUME NEW k, NEW p \in Pool, NEW have, NEW a \in Addr, NEW i \in Tags,
         Merging(k, p, a, i, have), i < p.maxTag,
         NEW b, b = Buddy(a, i), ~ p.res[b], p.tag[b] = i
  PROVE  /\ Unlinked(p, b, i) \in Pool /\ (IF b < a THEN b ELSE a) \in Addr /\ i + 1 \in Tags
         /\ Merging(k, Unlinked(p, b, i), IF b < a THEN b ELSE a, i + 1, have)
<1>1. PICK S \in SUBSET Addr : a \in S /\ PoolIs(k, p, S, [p.tag EXCEPT ![a] = i], {a}, have)
  BY DEF Merging
<1>2. PICK t : t = [p.tag EXCEPT ![a] = i]
  OBVIOUS
<1>3. Cut(p.maxTag, S, t) /\ Listed(p, t, Free(p, S \ {a})) /\ Owns(k, p, S \ {a}, t, have)
  BY <1>1, <1>2 DEF PoolIs
<1>4. t[a] = i /\ \A d \in Addr : d # a => t[d] = p.tag[d]
  BY <1>2, PoolParts
<1>5. p.maxTag \in Nat /\ i + 1 \in Tags
  <2>1. p.maxTag \in Nat /\ p.maxTag <= MaxTag
    BY PoolParts
  <2> QED BY <2>1, Constants DEF Tags
<1>6. b \in S /\ b # a /\ b \in Addr
  BY <1>1, <1>3, <1>4, <1>5, BuddyIsABlock
<1>7. t[b] = i
  BY <1>4, <1>6
<1>8. PICK low : low = IF b < a THEN b ELSE a
  OBVIOUS
<1>9. PICK high : high = IF b < a THEN a ELSE b
  OBVIOUS
<1>10. {low, high} = {a, b} /\ low # high /\ low \in Addr /\ high \in Addr
  BY <1>6, <1>8, <1>9
<1>11. PICK q : q = Unlinked(p, b, i)
  OBVIOUS
<1>12. q \in Pool /\ q.maxTag = p.maxTag /\ q.tag = p.tag /\ q.res = p.res
  BY <1>6, <1>11, Unlinks
<1>13. PICK u : u = [q.tag EXCEPT ![low] = i + 1]
  OBVIOUS
<1>14. u[low] = i + 1 /\ \A d \in Addr : d # low => u[d] = p.tag[d]
  BY <1>10, <1>12, <1>13, PoolParts
<1>15. PICK v : v = [t EXCEPT ![low] = i + 1]
  OBVIOUS
<1>16. v[low] = i + 1 /\ \A d \in Addr : d # low => v[d] = t[d]
  BY <1>2, <1>10, <1>15, PoolParts
<1>17. Cut(p.maxTag, S \ {high}, v) /\ low \in S \ {high}
  <2>1. \A d \in S : d # low => v[d] = t[d]
    BY <1>16
  <2>2. v[low] = t[a] + 1 /\ b = Buddy(a, t[a]) /\ t[b] = t[a] /\ t[a] < p.maxTag
    BY <1>4, <1>7, <1>16
  <2> QED BY <1>1, <1>3, <1>5, <1>8, <1>9, <2>1, <2>2, CutMerges
<1>18. \A d \in S \ {high} : u[d] = v[d]
  <2> SUFFICES ASSUME NEW d \in S, d # high PROVE u[d] = v[d]
    OBVIOUS
  <2>1. CASE d = low
    BY <1>14, <1>16, <2>1
  <2>2. CASE d # low
    <3>1. d # a
      BY <1>10, <2>2
    <3> QED BY <1>4, <1>14, <1>16, <2>2, <3>1
  <2> QED BY <2>1, <2>2
<1>19. Cut(p.maxTag, S \ {high}, u)
  BY <1>17, <1>18 DEF Cut
<1>20. PICK F \in SUBSET Addr : F = Free(p, S \ {a})
  BY DEF Free
<1>21. b \in F /\ a \notin F
  BY <1>6, <1>20 DEF Free
<1>22. Free(q, (S \ {high}) \ {low}) = F \ {b}
  BY <1>10, <1>12, <1>20 DEF Free
<1>23. \A d \in F : d # b => u[d] = t[d]
  <2> SUFFICES ASSUME NEW d \in F, d # b PROVE u[d] = t[d]
    OBVIOUS
  <2>1. d # low /\ d # a /\ d \in Addr
    BY <1>10, <1>21
  <2> QED BY <1>4, <1>14, <2>1
<1>24. Listed(q, u, F \ {b})
  BY <1>3, <1>7, <1>11, <1>20, <1>21, <1>23, UnlinkLists
<1>25. Owns(k, q, (S \ {high}) \ {low}, u, have)
  <2>1. ASSUME NEW d \in (S \ {high}) \ {low}, q.res[d]
        PROVE  [pool |-> k, addr |-> d, tag |-> u[d]] \in have
    <3>1. d \in S \ {a} /\ p.res[d] /\ d # low /\ d \in Addr
      BY <1>10, <1>12, <2>1
    <3>2. [pool |-> k, addr |-> d, tag |-> t[d]] \in have
      BY <1>3, <3>1 DEF Owns
    <3>3. u[d] = t[d]
      BY <1>4, <1>14, <3>1
    <3> QED BY <3>2, <3>3
  <2>2. ASSUME NEW o \in have, o.pool = k
        PROVE  o.addr \in (S \ {high}) \ {low} /\ q.res[o.addr] /\ o.tag = u[o.addr]
    <3>1. o.addr \in S \ {a} /\ p.res[o.addr] /\ o.tag = t[o.addr]
      BY <1>3, <2>2 DEF Owns
    <3>2. o.addr # b
      BY <3>1
    <3>3. o.addr # low /\ o.addr # high /\ o.addr # a /\ o.addr \in Addr
      BY <1>10, <3>1, <3>2
    <3> QED BY <1>4, <1>12, <1>14, <3>1, <3>3
  <2> QED BY <2>1, <2>2 DEF Owns
<1>26. PoolIs(k, q, S \ {high}, u, {low}, have)
  BY <1>12, <1>19, <1>22, <1>24, <1>25 DEF PoolIs
<1>27. Merging(k, q, low, i + 1, have)
  <2>1. S \ {high} \in SUBSET Addr
    OBVIOUS
  <2> QED BY <1>13, <1>17, <1>26, <2>1 DEF Merging
<1> QED BY <1>5, <1>8, <1>10, <1>11, <1>12, <1>27

\* A block without a free buddy of its size is released.
LEMMA ReleaseIs ==
  ASSUME NEW k, NEW p \in Pool, NEW have, NEW a \in Addr, NEW i \in Tags,
         Merging(k, p, a, i, have),
         ~ (i < p.maxTag /\ ~ p.res[Buddy(a, i)] /\ p.tag[Buddy(a, i)] = i)
  PROVE  Released(p, a, i) \in Pool /\ AtEase(k, Released(p, a, i), have)
<1>1. PICK S \in SUBSET Addr : a \in S /\ PoolIs(k, p, S, [p.tag EXCEPT ![a] = i], {a}, have)
  BY DEF Merging
<1>2. PICK t : t = [p.tag EXCEPT ![a] = i]
  OBVIOUS
<1>3. Cut(p.maxTag, S, t) /\ Listed(p, t, Free(p, S \ {a})) /\ Owns(k, p, S \ {a}, t, have)
  BY <1>1, <1>2 DEF PoolIs
<1>4. t[a] = i /\ \A d \in Addr : d # a => t[d] = p.tag[d]
  BY <1>2, PoolParts
<1>5. PICK q : q = Released(p, a, i)
  OBVIOUS
<1>6. q \in Pool /\ q.maxTag = p.maxTag /\ q.tag = t /\ q.res = [p.res EXCEPT ![a] = FALSE]
  BY <1>2, <1>5, Releases
<1>7. ~ q.res[a] /\ \A d \in Addr : d # a => q.res[d] = p.res[d]
  BY <1>6, PoolParts
<1>8. PICK F \in SUBSET Addr : F = Free(p, S \ {a})
  BY DEF Free
<1>9. a \notin F /\ F \subseteq S
  BY <1>8 DEF Free
<1>10. p.maxTag \in Nat /\ a \in Nat /\ i \in Nat /\ i <= p.maxTag /\ Aligned(a, i)
  <2>1. p.maxTag \in Nat
    BY PoolParts
  <2>2. t[a] \in Nat /\ t[a] \in MinTag .. p.maxTag /\ Aligned(a, t[a]) /\ a \in Nat
    BY <1>1, <1>3, <2>1, BlockIs
  <2> QED BY <1>4, <2>1, <2>2, Constants
<1>11. i = p.maxTag => a = 0 /\ F = {}
  <2> SUFFICES ASSUME i = p.maxTag PROVE a = 0 /\ F = {}
    OBVIOUS
  <2>1. a = 0 /\ S = {0}
    BY <1>1, <1>3, <1>4, <1>10, CutIsOne
  <2> QED BY <1>9, <2>1
<1>12. ASSUME NEW d \in F, t[d] = i
       PROVE  Buddy(a, i) # d /\ Buddy(d, i) # a
  <2>1. d \in S /\ d # a /\ ~ p.res[d] /\ p.tag[d] = i /\ i # p.maxTag
    BY <1>4, <1>8, <1>11, <1>12 DEF Free
  <2>2. Buddy(a, i) # d
    BY <1>10, <2>1
  <2>3. d \in Nat /\ Aligned(d, i)
    BY <1>3, <1>10, <1>12, <2>1, BlockIs
  <2>4. Buddy(Buddy(d, i), i) = d
    BY <1>10, <2>3, BuddyBack
  <2> QED BY <2>2, <2>4
<1>13. Buddy(a, i) # a
  BY <1>10, BuddyBack
<1>14. Listed(q, t, F \cup {a})
  BY <1>3, <1>4, <1>5, <1>8, <1>9, <1>11, <1>12, <1>13, ReleaseLists
<1>15. Free(q, S \ {}) = F \cup {a}
  BY <1>1, <1>7, <1>8 DEF Free
<1>16. Owns(k, q, S \ {}, t, have)
  <2>1. ASSUME NEW d \in S, q.res[d] PROVE [pool |-> k, addr |-> d, tag |-> t[d]] \in have
    <3>1. d # a
      BY <1>7, <2>1
    <3>2. d \in S \ {a} /\ p.res[d]
      BY <1>7, <2>1, <3>1
    <3> QED BY <1>3, <3>2 DEF Owns
  <2>2. ASSUME NEW o \in have, o.pool = k
        PROVE  o.addr \in S /\ q.res[o.addr] /\ o.tag = t[o.addr]
    <3>1. o.addr \in S \ {a} /\ p.res[o.addr] /\ o.tag = t[o.addr]
      BY <1>3, <2>2 DEF Owns
    <3> QED BY <1>7, <3>1
  <2>3. S \ {} = S
    OBVIOUS
  <2> QED BY <2>1, <2>2, <2>3 DEF Owns
<1>17. PoolIs(k, q, S, t, {}, have)
  BY <1>3, <1>6, <1>14, <1>15, <1>16 DEF PoolIs
<1>18. AtEase(k, q, have)
  BY <1>6, <1>17 DEF AtEase
<1> QED BY <1>5, <1>6, <1>18

-----------------------------------------------------------------------------
(* The invariant, for one caller.                                          *)

Working(c) == pc[c] \in {"merge", "unlink", "release"}

CallOK(c) ==
  LET j == job[c]
  IN  /\ pc[c] # "retry" => last = Len(pools)
      /\ pc[c] = "probe" => j.addr = last /\ j.pool \in 1 .. last + 1
      /\ pc[c] = "retry" =>
           /\ Len(pools) = last + 1 /\ j.pool = Len(pools)
           /\ pools[j.pool] = NewPool(IF j.tag > BlockTag THEN j.tag ELSE BlockTag)
      /\ Working(c) => j.pool \in 1 .. Len(pools) /\ j.addr \in Addr
      /\ pc[c] = "unlink" => Merges(j)
      /\ pc[c] = "release" => ~ Merges(j)

PoolOK(c, k) ==
  IF Working(c) /\ job[c].pool = k
  THEN Merging(k, pools[k], job[c].addr, job[c].tag, owned)
  ELSE AtEase(k, pools[k], owned)

IInv(c) ==
  /\ TypeOK /\ CallOK(c)
  /\ \A k \in 1 .. Len(pools) : PoolOK(c, k)
  /\ \A o \in owned : o.pool <= Len(pools)

Job == [pool : 1 .. MaxPools + 1, addr : Addr \cup 1 .. MaxPools, tag : Tags]

Labels == {"idle", "probe", "retry", "merge", "unlink", "release"}

LEMMA TypeIs ==
  TypeOK <=> /\ pools \in Seq(Pool) /\ Len(pools) \in 1 .. MaxPools
             /\ last \in 1 .. MaxPools
             /\ pc \in [Clients -> {"idle", "probe", "retry", "merge", "unlink", "release"}]
             /\ job \in [Clients -> Job]
             /\ owned \subseteq Owned
             /\ heap \in {"ok", "no table", "pool replaced", "read past the pool"}
  BY DEF TypeOK, Job, Owned

LEMMA TypeParts ==
  ASSUME TypeOK
  PROVE  /\ pools \in Seq(Pool) /\ Len(pools) \in Nat /\ 1 <= Len(pools) /\ Len(pools) <= MaxPools
         /\ last \in Nat /\ 1 <= last /\ last <= MaxPools
         /\ \A c \in Clients : /\ pc[c] \in Labels /\ job[c] \in Job /\ job[c].tag \in Tags
                               /\ job[c].pool \in Nat /\ 1 <= job[c].pool /\ job[c].pool <= MaxPools + 1
         /\ \A o \in owned : o \in Owned /\ o.pool \in Nat /\ 1 <= o.pool /\ o.addr \in Addr /\ o.tag \in Tags
<1>1. PICK n \in Nat : n = MaxPools
  BY Constants
<1>2. pools \in Seq(Pool) /\ Len(pools) \in 1 .. n /\ last \in 1 .. n
  BY <1>1, TypeIs
<1>3. \A c \in Clients : pc[c] \in Labels /\ job[c] \in Job
  BY TypeIs DEF Labels
<1>4. \A r \in Job : r.tag \in Tags /\ r.pool \in Nat /\ 1 <= r.pool /\ r.pool <= n + 1
  BY <1>1 DEF Job
<1>5. \A o \in Owned : o.pool \in Nat /\ 1 <= o.pool /\ o.addr \in Addr /\ o.tag \in Tags
  BY <1>1 DEF Owned
<1>6. owned \subseteq Owned
  BY TypeIs
<1> QED BY <1>1, <1>2, <1>3, <1>4, <1>5, <1>6

LEMMA SeqExcept ==
  ASSUME NEW s \in Seq(Pool), NEW k \in 1 .. Len(s), NEW p \in Pool
  PROVE  /\ [s EXCEPT ![k] = p] \in Seq(Pool) /\ Len([s EXCEPT ![k] = p]) = Len(s)
         /\ [s EXCEPT ![k] = p][k] = p
         /\ \A i \in 1 .. Len(s) : i # k => [s EXCEPT ![k] = p][i] = s[i]
  OBVIOUS

LEMMA SeqAppend ==
  ASSUME NEW s \in Seq(Pool), NEW p \in Pool
  PROVE  /\ Append(s, p) \in Seq(Pool) /\ Len(Append(s, p)) = Len(s) + 1
         /\ Append(s, p)[Len(s) + 1] = p
         /\ \A i \in 1 .. Len(s) : Append(s, p)[i] = s[i]
  OBVIOUS

LEMMA IdleIs == Idle \in Job /\ Idle.pool = 1 /\ Idle.addr = 0 /\ Idle.tag = MinTag
<1>1. 0 \in Addr /\ MinTag \in Tags /\ 1 \in 1 .. MaxPools + 1
  BY AddrIs, Constants DEF Tags
<1> QED BY <1>1 DEF Idle, Job

\* Only the one caller has a job and a place in its call.
LEMMA OneClient ==
  ASSUME NEW c, Clients = {c}, NEW f, NEW T, f \in [Clients -> T], NEW x \in T
  PROVE  /\ [f EXCEPT ![c] = x] \in [Clients -> T] /\ [f EXCEPT ![c] = x][c] = x
  OBVIOUS

\* A step leaves the pools and the blocks in use as they are, and the call is not
\* at work in one before or after it.
LEMMA PoolsKept ==
  ASSUME NEW c, \A k \in 1 .. Len(pools) : PoolOK(c, k), ~ Working(c), ~ Working(c)',
         UNCHANGED << pools, owned >>
  PROVE  \A k \in 1 .. Len(pools') : PoolOK(c, k)'
  BY DEF PoolOK

LEMMA StartAllocKeeps ==
  ASSUME NEW c, Clients = {c}, IInv(c), NEW req \in Tags, StartAlloc(c, req)
  PROVE  IInv(c)'
<1>1. /\ TypeOK /\ CallOK(c) /\ \A k \in 1 .. Len(pools) : PoolOK(c, k)
      /\ \A o \in owned : o.pool <= Len(pools)
  BY DEF IInv
<1>2. pc[c] = "idle" /\ pc' = [pc EXCEPT ![c] = "probe"] /\ UNCHANGED << pools, last, owned, heap >>
  BY DEF StartAlloc, Goto
<1>3. PICK r \in Job : r = [pool |-> 1, addr |-> last, tag |-> req]
  <2>1. PICK n \in Nat : n = MaxPools
    BY Constants
  <2>2. last \in 1 .. n /\ 1 \in 1 .. n + 1
    BY <1>1, <2>1, TypeParts
  <2> QED BY <2>1, <2>2 DEF Job
<1>4. job' = [job EXCEPT ![c] = r]
  BY <1>3 DEF StartAlloc
<1>5. pc'[c] = "probe" /\ job'[c] = r /\ pc' \in [Clients -> Labels] /\ job' \in [Clients -> Job]
  BY <1>1, <1>2, <1>4, TypeIs, OneClient DEF Labels
<1>6. TypeOK'
  BY <1>1, <1>2, <1>5, TypeIs DEF TypeOK, Labels, Job
<1>7. last = Len(pools) /\ last \in Nat
  BY <1>1, <1>2, TypeParts DEF CallOK
<1>8. CallOK(c)'
  BY <1>2, <1>3, <1>5, <1>7 DEF CallOK, Working
<1>9. ~ Working(c) /\ ~ Working(c)'
  BY <1>2, <1>5 DEF Working
<1>10. \A k \in 1 .. Len(pools') : PoolOK(c, k)'
  BY <1>1, <1>2, <1>9, PoolsKept
<1>11. \A o \in owned' : o.pool <= Len(pools')
  BY <1>1, <1>2
<1> QED BY <1>6, <1>8, <1>10, <1>11 DEF IInv

LEMMA ProbeFailsKeeps ==
  ASSUME NEW c, Clients = {c}, IInv(c), ProbeFails(c)
  PROVE  IInv(c)'
<1>1. /\ TypeOK /\ CallOK(c) /\ \A k \in 1 .. Len(pools) : PoolOK(c, k)
      /\ \A o \in owned : o.pool <= Len(pools)
  BY DEF IInv
<1>2. pc[c] = "probe" /\ job[c].pool <= job[c].addr /\ UNCHANGED << pools, last, pc, owned, heap >>
  BY DEF ProbeFails
<1>3. last = Len(pools) /\ last \in 1 .. MaxPools /\ job[c].addr = last /\ job[c].pool \in 1 .. last + 1
      /\ job \in [Clients -> Job] /\ MaxPools \in Nat
  BY <1>1, <1>2, TypeIs, Constants DEF CallOK
<1>4. PICK r : r = [job[c] EXCEPT !.pool = job[c].pool + 1]
  OBVIOUS
<1>5. r \in Job /\ r.pool = job[c].pool + 1 /\ r.addr = last
  BY <1>2, <1>3, <1>4 DEF Job
<1>6. job' = [job EXCEPT ![c] = r]
  BY <1>4 DEF ProbeFails
<1>7. job'[c] = r /\ job' \in [Clients -> Job]
  BY <1>3, <1>5, <1>6, OneClient
<1>8. TypeOK'
  BY <1>1, <1>2, <1>7, TypeIs DEF TypeOK, Job
<1>9. r.pool \in 1 .. last + 1
  BY <1>2, <1>3, <1>5
<1>10. CallOK(c)'
  BY <1>2, <1>3, <1>5, <1>7, <1>9 DEF CallOK, Working
<1>11. ~ Working(c) /\ ~ Working(c)'
  BY <1>2 DEF Working
<1>12. \A k \in 1 .. Len(pools') : PoolOK(c, k)'
  BY <1>1, <1>2, <1>11, PoolsKept
<1>13. \A o \in owned' : o.pool <= Len(pools')
  BY <1>1, <1>2
<1> QED BY <1>8, <1>10, <1>12, <1>13 DEF IInv

LEMMA MakePoolKeeps ==
  ASSUME NEW c, Clients = {c}, IInv(c), MakePool(c)
  PROVE  IInv(c)'
<1>1. /\ TypeOK /\ CallOK(c) /\ \A k \in 1 .. Len(pools) : PoolOK(c, k)
      /\ \A o \in owned : o.pool <= Len(pools)
  BY DEF IInv
<1>2. /\ pc[c] = "probe" /\ job[c].pool > job[c].addr /\ job[c].pool <= MaxPools
      /\ pc' = [pc EXCEPT ![c] = "retry"] /\ UNCHANGED << last, job, owned >>
  BY DEF MakePool, Goto
<1>3. PICK n \in Nat : n = Len(pools)
  BY <1>1, TypeParts
<1>4. /\ last = n /\ job[c].addr = n /\ job[c].pool \in 1 .. n + 1 /\ 1 <= n /\ job[c].tag \in Tags
      /\ job \in [Clients -> Job] /\ pools \in Seq(Pool)
  BY <1>1, <1>2, <1>3, TypeParts, TypeIs DEF CallOK
<1>5. job[c].pool = n + 1 /\ n + 1 <= MaxPools
  BY <1>2, <1>4
<1>6. PICK max : max = IF job[c].tag > BlockTag THEN job[c].tag ELSE BlockTag
  OBVIOUS
<1>7. max \in Tags
  <2>1. BlockTag \in Tags
    BY Constants DEF Tags
  <2> QED BY <1>4, <1>6, <2>1
<1>8. \A o \in owned : o.pool # n + 1
  <2> SUFFICES ASSUME NEW o \in owned, o.pool = n + 1 PROVE FALSE
    OBVIOUS
  <2> QED BY <1>1, <1>3
<1>9. PICK p : p = NewPool(max)
  OBVIOUS
<1>10. p \in Pool /\ AtEase(n + 1, p, owned)
  BY <1>7, <1>8, <1>9, NewPoolAtEase
<1>11. pools' = Append(pools, p) /\ UNCHANGED heap
  <2>1. job[c].pool > Len(pools)
    BY <1>3, <1>5
  <2> QED BY <1>6, <1>9, <2>1 DEF MakePool
<1>12. /\ pools' \in Seq(Pool) /\ Len(pools') = n + 1 /\ pools'[n + 1] = p
       /\ \A i \in 1 .. n : pools'[i] = pools[i]
  BY <1>3, <1>4, <1>10, <1>11, SeqAppend
<1>13. pc'[c] = "retry" /\ pc' \in [Clients -> Labels]
  <2>1. pc \in [Clients -> Labels]
    BY <1>1, TypeIs DEF Labels
  <2> QED BY <1>2, <2>1, OneClient DEF Labels
<1>14. TypeOK'
  <2>1. PICK z \in Nat : z = MaxPools
    BY Constants
  <2>2. Len(pools') \in 1 .. MaxPools
    BY <1>5, <1>12, <2>1
  <2> QED BY <1>1, <1>2, <1>11, <1>12, <1>13, <2>2 DEF TypeOK, Labels
<1>15. CallOK(c)'
  <2>1. /\ pc'[c] = "retry" /\ Len(pools') = last' + 1 /\ job'[c].pool = Len(pools')
        /\ pools'[job'[c].pool] = NewPool(IF job'[c].tag > BlockTag THEN job'[c].tag ELSE BlockTag)
    BY <1>2, <1>4, <1>5, <1>6, <1>9, <1>12, <1>13
  <2> QED BY <2>1 DEF CallOK, Working
<1>16. ~ Working(c) /\ ~ Working(c)'
  BY <1>2, <1>13 DEF Working
<1>17. ASSUME NEW k \in 1 .. Len(pools')
       PROVE  PoolOK(c, k)'
  <2>1. AtEase(k, pools'[k], owned)
    <3>1. CASE k = n + 1
      BY <1>10, <1>12, <3>1
    <3>2. CASE k # n + 1
      <4>1. k \in 1 .. n
        BY <1>12, <1>17, <3>2
      <4>2. PoolOK(c, k)
        BY <1>1, <1>3, <4>1
      <4> QED BY <1>12, <1>16, <4>1, <4>2 DEF PoolOK
    <3> QED BY <3>1, <3>2
  <2> QED BY <1>2, <1>16, <2>1 DEF PoolOK
<1>18. \A o \in owned' : o.pool <= Len(pools')
  <2>1. \A o \in owned : o.pool \in Nat
    BY <1>1, TypeParts
  <2> QED BY <1>1, <1>2, <1>3, <1>12, <2>1
<1> QED BY <1>14, <1>15, <1>17, <1>18 DEF IInv

LEMMA MakePoolFailsKeeps ==
  ASSUME NEW c, Clients = {c}, IInv(c), MakePoolFails(c)
  PROVE  IInv(c)'
<1>1. /\ TypeOK /\ CallOK(c) /\ \A k \in 1 .. Len(pools) : PoolOK(c, k)
      /\ \A o \in owned : o.pool <= Len(pools)
  BY DEF IInv
<1>2. /\ pc[c] = "probe" /\ heap' = "no table" /\ job' = [job EXCEPT ![c] = Idle]
      /\ pc' = [pc EXCEPT ![c] = "idle"] /\ UNCHANGED << pools, last, owned >>
  BY DEF MakePoolFails, Goto
<1>3. pc'[c] = "idle" /\ pc' \in [Clients -> Labels] /\ job' \in [Clients -> Job]
  <2>1. pc \in [Clients -> Labels] /\ job \in [Clients -> Job]
    BY <1>1, TypeIs DEF Labels
  <2> QED BY <1>2, <2>1, OneClient, IdleIs DEF Labels
<1>4. TypeOK'
  BY <1>1, <1>2, <1>3 DEF TypeOK, Labels, Job
<1>5. CallOK(c)'
  BY <1>1, <1>2, <1>3 DEF CallOK, Working
<1>6. ~ Working(c) /\ ~ Working(c)'
  BY <1>2, <1>3 DEF Working
<1>7. \A k \in 1 .. Len(pools') : PoolOK(c, k)'
  BY <1>1, <1>2, <1>6, PoolsKept
<1>8. \A o \in owned' : o.pool <= Len(pools')
  BY <1>1, <1>2
<1> QED BY <1>4, <1>5, <1>7, <1>8 DEF IInv

LEMMA TakeKeeps ==
  ASSUME NEW c, Clients = {c}, IInv(c), ~ Working(c), job[c].pool <= Len(pools),
         CanServe(pools[job[c].pool], job[c].tag), Take(c),
         last' = Len(pools), heap' = heap
  PROVE  IInv(c)'
<1>1. /\ TypeOK /\ CallOK(c) /\ \A k \in 1 .. Len(pools) : PoolOK(c, k)
      /\ \A o \in owned : o.pool <= Len(pools)
  BY DEF IInv
<1>2. PICK k : k = job[c].pool
  OBVIOUS
<1>3. PICK r : r = job[c].tag
  OBVIOUS
<1>4. PICK n \in Nat : n = Len(pools) /\ 1 <= n /\ n <= MaxPools
  BY <1>1, TypeParts
<1>5. k \in 1 .. n /\ r \in Tags /\ k \in Nat
  BY <1>1, <1>2, <1>3, <1>4, TypeParts
<1>6. pools \in Seq(Pool) /\ pools[k] \in Pool
  BY <1>1, <1>4, <1>5, TypeParts
<1>7. AtEase(k, pools[k], owned)
  BY <1>1, <1>4, <1>5 DEF PoolOK
<1>8. PICK q : q = Served(pools[k], r)
  OBVIOUS
<1>9. PICK new : new = Block(k, ServedAt(pools[k], r), r)
  OBVIOUS
<1>10. q \in Pool /\ ServedAt(pools[k], r) \in Addr /\ AtEase(k, q, owned \cup {new})
  BY <1>2, <1>3, <1>5, <1>6, <1>7, <1>8, <1>9, ServedIs
<1>11. /\ pools' = [pools EXCEPT ![k] = q] /\ owned' = owned \cup {new}
       /\ job' = [job EXCEPT ![c] = Idle] /\ pc' = [pc EXCEPT ![c] = "idle"]
  BY <1>2, <1>3, <1>8, <1>9 DEF Take, Goto, Block
<1>12. /\ pools' \in Seq(Pool) /\ Len(pools') = n /\ pools'[k] = q
       /\ \A i \in 1 .. n : i # k => pools'[i] = pools[i]
  BY <1>4, <1>5, <1>6, <1>10, <1>11, SeqExcept
<1>13. pc'[c] = "idle" /\ pc' \in [Clients -> Labels] /\ job' \in [Clients -> Job]
  <2>1. pc \in [Clients -> Labels] /\ job \in [Clients -> Job]
    BY <1>1, TypeIs DEF Labels
  <2> QED BY <1>11, <2>1, OneClient, IdleIs DEF Labels
<1>14. new \in Owned /\ new.pool = k
  <2>1. k \in 1 .. MaxPools
    BY <1>4, <1>5, Constants
  <2> QED BY <1>5, <1>9, <1>10, <2>1 DEF Block, Owned
<1>15. TypeOK'
  <2>1. Len(pools') \in 1 .. MaxPools /\ last' \in 1 .. MaxPools
    BY <1>4, <1>12, Constants
  <2>2. owned' \subseteq Owned
    BY <1>1, <1>11, <1>14, TypeIs
  <2> QED BY <1>1, <1>12, <1>13, <2>1, <2>2 DEF TypeOK, Labels, Job, Owned
<1>16. CallOK(c)'
  BY <1>4, <1>12, <1>13 DEF CallOK, Working
<1>17. ~ Working(c)'
  BY <1>13 DEF Working
<1>18. ASSUME NEW i \in 1 .. Len(pools')
       PROVE  PoolOK(c, i)'
  <2>1. CASE i = k
    BY <1>10, <1>11, <1>12, <1>17, <2>1 DEF PoolOK
  <2>2. CASE i # k
    <3>1. AtEase(i, pools[i], owned)
      BY <1>1, <1>4, <1>12 DEF PoolOK
    <3>2. AtEase(i, pools[i], owned')
      <4>1. \A o : o.pool = i => (o \in owned <=> o \in owned')
        BY <1>11, <1>14, <2>2
      <4> QED BY <3>1, <4>1, OwnsOther
    <3>3. pools'[i] = pools[i]
      BY <1>12, <2>2
    <3> QED BY <1>17, <3>2, <3>3 DEF PoolOK
  <2> QED BY <2>1, <2>2
<1>19. \A o \in owned' : o.pool <= Len(pools')
  BY <1>1, <1>4, <1>5, <1>11, <1>12, <1>14
<1> QED BY <1>15, <1>16, <1>18, <1>19 DEF IInv

LEMMA ProbeServesKeeps ==
  ASSUME NEW c, Clients = {c}, IInv(c), ProbeServes(c)
  PROVE  IInv(c)'
<1>1. TypeOK /\ CallOK(c)
  BY DEF IInv
<1>2. /\ pc[c] = "probe" /\ job[c].pool <= job[c].addr
      /\ CanServe(pools[job[c].pool], job[c].tag) /\ Take(c) /\ UNCHANGED << last, heap >>
  BY DEF ProbeServes
<1>3. job[c].addr = last /\ last = Len(pools)
  BY <1>1, <1>2 DEF CallOK
<1>4. ~ Working(c)
  BY <1>2 DEF Working
<1> QED BY <1>2, <1>3, <1>4, TakeKeeps

LEMMA RetryKeeps ==
  ASSUME NEW c, Clients = {c}, IInv(c), Retry(c)
  PROVE  IInv(c)'
<1>1. TypeOK /\ CallOK(c)
  BY DEF IInv
<1>2. pc[c] = "retry" /\ UNCHANGED heap
  BY DEF Retry
<1>3. /\ job[c].pool = Len(pools)
      /\ pools[job[c].pool] = NewPool(IF job[c].tag > BlockTag THEN job[c].tag ELSE BlockTag)
  BY <1>1, <1>2 DEF CallOK
<1>4. PICK max : max = IF job[c].tag > BlockTag THEN job[c].tag ELSE BlockTag
  OBVIOUS
<1>5. PICK r : r = job[c].tag
  OBVIOUS
<1>6. PICK p : p = pools[job[c].pool]
  OBVIOUS
<1>7. r \in Tags /\ max \in Tags /\ r <= max /\ BlockTag \in Tags
  <2>1. r \in Tags
    BY <1>1, <1>5, TypeParts
  <2>2. BlockTag \in Tags
    BY Constants DEF Tags
  <2>3. r \in Nat /\ BlockTag \in Nat
    BY <2>1, Constants DEF Tags
  <2> QED BY <1>4, <1>5, <2>1, <2>2, <2>3
<1>8. p = NewPool(max) /\ p.maxTag = max /\ p.avail[max] = 0
  BY <1>3, <1>4, <1>6, <1>7 DEF NewPool
<1>9. max \in Fits(p, r)
  BY <1>7, <1>8, Constants DEF Fits, NULL, Tags
<1>10. CanServe(p, r)
  BY <1>9 DEF CanServe
<1>11. last' = job[c].pool /\ Take(c)
  BY <1>5, <1>6, <1>10 DEF Retry
<1>12. ~ Working(c)
  BY <1>2 DEF Working
<1>13. job[c].pool <= Len(pools)
  BY <1>1, <1>3, TypeParts
<1> QED BY <1>2, <1>3, <1>5, <1>6, <1>10, <1>11, <1>12, <1>13, TakeKeeps

\* A step of mem_free that leaves the table of pools as long as it was, with pool k
\* as it must be after it and the others as they were.
LEMMA PoolChanged ==
  ASSUME NEW c, \A i \in 1 .. Len(pools) : PoolOK(c, i), Len(pools') = Len(pools),
         NEW k, Working(c) => job[c].pool = k, Working(c)' => job'[c].pool = k,
         \A i \in 1 .. Len(pools) : i # k => pools'[i] = pools[i],
         \A o : o.pool # k => (o \in owned <=> o \in owned'),
         PoolOK(c, k)'
  PROVE  \A i \in 1 .. Len(pools') : PoolOK(c, i)'
<1> SUFFICES ASSUME NEW i \in 1 .. Len(pools) PROVE PoolOK(c, i)'
  OBVIOUS
<1>1. CASE i = k
  BY <1>1
<1>2. CASE i # k
  <2>1. AtEase(i, pools[i], owned)
    BY <1>2 DEF PoolOK
  <2>2. \A o : o.pool = i => (o \in owned <=> o \in owned')
    BY <1>2
  <2>3. AtEase(i, pools[i], owned')
    BY <2>1, <2>2, OwnsOther
  <2> QED BY <1>2, <2>3 DEF PoolOK
<1> QED BY <1>1, <1>2

LEMMA StartFreeKeeps ==
  ASSUME NEW c, Clients = {c}, IInv(c), NEW b \in owned, StartFree(c, b)
  PROVE  IInv(c)'
<1>1. /\ TypeOK /\ CallOK(c) /\ \A k \in 1 .. Len(pools) : PoolOK(c, k)
      /\ \A o \in owned : o.pool <= Len(pools)
  BY DEF IInv
<1>2. pc[c] = "idle" /\ owned' = owned \ {b} /\ UNCHANGED << pools, last, heap >>
  BY DEF StartFree
<1>3. PICK k : k = b.pool
  OBVIOUS
<1>4. k \in 1 .. Len(pools) /\ b \in Owned /\ b.addr \in Addr /\ b.tag \in Tags
  BY <1>1, <1>3, TypeParts
<1>5. pools \in Seq(Pool) /\ pools[k] \in Pool /\ owned \in SUBSET Owned
  BY <1>1, <1>4, TypeParts
<1>6. ~ Working(c) /\ AtEase(k, pools[k], owned)
  BY <1>1, <1>2, <1>4 DEF PoolOK, Working
<1>7. PICK p : p = pools[k]
  OBVIOUS
<1>8. p.res[b.addr] /\ p.tag[b.addr] = b.tag /\ Merging(k, p, b.addr, b.tag, owned \ {b})
  BY <1>3, <1>5, <1>6, <1>7, FreeStarts
<1>9. PICK r : r = [b EXCEPT !.tag = b.tag]
  OBVIOUS
<1>10. r = b
  BY <1>4, <1>9 DEF Owned
<1>11. job' = [job EXCEPT ![c] = b] /\ pc' = [pc EXCEPT ![c] = "merge"]
  <2>1. job' = [job EXCEPT ![c] = r]
    BY <1>3, <1>7, <1>8, <1>9 DEF StartFree
  <2>2. pc' = [pc EXCEPT ![c] = "merge"]
    BY <1>3, <1>7, <1>8 DEF StartFree, Goto
  <2> QED BY <1>10, <2>1, <2>2
<1>12. b \in Job
  BY <1>4, Constants DEF Owned, Job
<1>13. job'[c] = b /\ pc'[c] = "merge" /\ pc' \in [Clients -> Labels] /\ job' \in [Clients -> Job]
  <2>1. pc \in [Clients -> Labels] /\ job \in [Clients -> Job]
    BY <1>1, TypeIs DEF Labels
  <2> QED BY <1>11, <1>12, <2>1, OneClient DEF Labels
<1>14. TypeOK'
  <2>1. owned' \subseteq Owned
    BY <1>2, <1>5
  <2> QED BY <1>1, <1>2, <1>13, <2>1 DEF TypeOK, Labels, Job, Owned
<1>15. CallOK(c)'
  <2>1. last = Len(pools)
    BY <1>1, <1>2 DEF CallOK
  <2> QED BY <1>2, <1>3, <1>4, <1>13, <2>1 DEF CallOK, Working
<1>16. PoolOK(c, k)'
  BY <1>2, <1>3, <1>7, <1>8, <1>13 DEF PoolOK, Working
<1>17. \A o : o.pool # k => (o \in owned <=> o \in owned')
  BY <1>2, <1>3
<1>18. \A i \in 1 .. Len(pools') : PoolOK(c, i)'
  BY <1>1, <1>2, <1>3, <1>6, <1>13, <1>16, <1>17, PoolChanged
<1>19. \A o \in owned' : o.pool <= Len(pools')
  BY <1>1, <1>2
<1> QED BY <1>14, <1>15, <1>18, <1>19 DEF IInv

LEMMA ReadPastEndKeeps ==
  ASSUME NEW c, Clients = {c}, IInv(c), ReadPastEnd(c)
  PROVE  IInv(c)'
<1>1. /\ TypeOK /\ CallOK(c) /\ \A k \in 1 .. Len(pools) : PoolOK(c, k)
      /\ \A o \in owned : o.pool <= Len(pools)
  BY DEF IInv
<1>2. heap' = "read past the pool" /\ UNCHANGED << pools, last, pc, job, owned >>
  BY DEF ReadPastEnd
<1>3. TypeOK'
  BY <1>1, <1>2 DEF TypeOK
<1>4. CallOK(c)'
  BY <1>1, <1>2 DEF CallOK, Working, Merges
<1>5. \A k \in 1 .. Len(pools') : PoolOK(c, k)'
  BY <1>1, <1>2 DEF PoolOK, Working
<1>6. \A o \in owned' : o.pool <= Len(pools')
  BY <1>1, <1>2
<1> QED BY <1>3, <1>4, <1>5, <1>6 DEF IInv

LEMMA FindBuddyKeeps ==
  ASSUME NEW c, Clients = {c}, IInv(c), FindBuddy(c)
  PROVE  IInv(c)'
<1>1. /\ TypeOK /\ CallOK(c) /\ \A k \in 1 .. Len(pools) : PoolOK(c, k)
      /\ \A o \in owned : o.pool <= Len(pools)
  BY DEF IInv
<1>2. PICK l : l = IF Merges(job[c]) THEN "unlink" ELSE "release"
  OBVIOUS
<1>3. pc[c] = "merge" /\ pc' = [pc EXCEPT ![c] = l] /\ UNCHANGED << pools, last, job, owned, heap >>
  BY <1>2 DEF FindBuddy, Goto
<1>4. pc'[c] = l /\ pc' \in [Clients -> Labels] /\ l \in {"unlink", "release"}
  <2>1. pc \in [Clients -> Labels]
    BY <1>1, TypeIs DEF Labels
  <2> QED BY <1>2, <1>3, <2>1, OneClient DEF Labels
<1>5. TypeOK'
  BY <1>1, <1>3, <1>4 DEF TypeOK, Labels
<1>6. CallOK(c)'
  <2>1. last = Len(pools) /\ job[c].pool \in 1 .. Len(pools) /\ job[c].addr \in Addr
    BY <1>1, <1>3 DEF CallOK, Working
  <2>2. /\ pc'[c] = "unlink" => Merges(job[c])'
        /\ pc'[c] = "release" => ~ Merges(job[c])'
    BY <1>2, <1>3, <1>4 DEF Merges
  <2> QED BY <1>3, <1>4, <2>1, <2>2 DEF CallOK, Working
<1>7. Working(c) /\ Working(c)'
  BY <1>3, <1>4 DEF Working
<1>8. \A k \in 1 .. Len(pools') : PoolOK(c, k)'
  BY <1>1, <1>3, <1>7 DEF PoolOK
<1>9. \A o \in owned' : o.pool <= Len(pools')
  BY <1>1, <1>3
<1> QED BY <1>5, <1>6, <1>8, <1>9 DEF IInv

LEMMA MergeBuddyKeeps ==
  ASSUME NEW c, Clients = {c}, IInv(c), MergeBuddy(c)
  PROVE  IInv(c)'
<1>1. /\ TypeOK /\ CallOK(c) /\ \A k \in 1 .. Len(pools) : PoolOK(c, k)
      /\ \A o \in owned : o.pool <= Len(pools)
  BY DEF IInv
<1>2. PICK k : k = job[c].pool
  OBVIOUS
<1>3. PICK a : a = job[c].addr
  OBVIOUS
<1>4. PICK i : i = job[c].tag
  OBVIOUS
<1>5. PICK b : b = Buddy(a, i)
  OBVIOUS
<1>6. PICK low : low = IF b < a THEN b ELSE a
  OBVIOUS
<1>7. pc[c] = "unlink" /\ pc' = [pc EXCEPT ![c] = "merge"] /\ UNCHANGED << last, owned, heap >>
      /\ pools' = [pools EXCEPT ![k] = Unlinked(pools[k], b, i)]
  BY <1>2, <1>3, <1>4, <1>5 DEF MergeBuddy, Goto
<1>8. Working(c) /\ last = Len(pools) /\ k \in 1 .. Len(pools) /\ a \in Addr /\ Merges(job[c])
  BY <1>1, <1>2, <1>3, <1>7 DEF CallOK, Working
<1>9. i \in Tags /\ pools \in Seq(Pool) /\ pools[k] \in Pool /\ job[c] \in Job
      /\ pc \in [Clients -> Labels] /\ job \in [Clients -> Job]
  <2>1. job[c] \in Job /\ i \in Tags
    BY <1>1, <1>4, TypeParts
  <2>2. pools \in Seq(Pool) /\ pc \in [Clients -> Labels] /\ job \in [Clients -> Job]
    BY <1>1, TypeIs DEF Labels
  <2> QED BY <1>8, <2>1, <2>2
<1>10. PICK p : p = pools[k]
  OBVIOUS
<1>11. Merging(k, p, a, i, owned)
  BY <1>1, <1>2, <1>3, <1>4, <1>8, <1>10 DEF PoolOK
<1>12. i < p.maxTag /\ ~ p.res[b] /\ p.tag[b] = i
  BY <1>2, <1>3, <1>4, <1>5, <1>8, <1>10 DEF Merges
<1>13. PICK q : q = Unlinked(p, b, i)
  OBVIOUS
<1>14. q \in Pool /\ low \in Addr /\ i + 1 \in Tags /\ Merging(k, q, low, i + 1, owned)
  BY <1>5, <1>6, <1>8, <1>9, <1>10, <1>11, <1>12, <1>13, MergeIs
<1>15. PICK r : r = [job[c] EXCEPT !.tag = i + 1, !.addr = low]
  OBVIOUS
<1>16. job' = [job EXCEPT ![c] = r]
  BY <1>3, <1>4, <1>5, <1>6, <1>9, <1>15 DEF MergeBuddy, Job
<1>17. r \in Job /\ r.pool = k /\ r.addr = low /\ r.tag = i + 1
  BY <1>2, <1>9, <1>14, <1>15 DEF Job
<1>18. /\ pools' \in Seq(Pool) /\ Len(pools') = Len(pools) /\ pools'[k] = q
       /\ \A j \in 1 .. Len(pools) : j # k => pools'[j] = pools[j]
  BY <1>7, <1>8, <1>9, <1>10, <1>13, <1>14, SeqExcept
<1>19. job'[c] = r /\ pc'[c] = "merge" /\ pc' \in [Clients -> Labels] /\ job' \in [Clients -> Job]
  BY <1>7, <1>9, <1>16, <1>17, OneClient DEF Labels
<1>20. TypeOK'
  BY <1>1, <1>7, <1>18, <1>19 DEF TypeOK, Labels, Job
<1>21. CallOK(c)'
  BY <1>7, <1>8, <1>14, <1>17, <1>18, <1>19 DEF CallOK, Working
<1>22. PoolOK(c, k)'
  BY <1>7, <1>14, <1>17, <1>18, <1>19 DEF PoolOK, Working
<1>23. \A j \in 1 .. Len(pools') : PoolOK(c, j)'
  BY <1>1, <1>2, <1>7, <1>17, <1>18, <1>19, <1>22, PoolChanged
<1>24. \A o \in owned' : o.pool <= Len(pools')
  BY <1>1, <1>7, <1>18
<1> QED BY <1>20, <1>21, <1>23, <1>24 DEF IInv

LEMMA ReleaseKeeps ==
  ASSUME NEW c, Clients = {c}, IInv(c), Release(c)
  PROVE  IInv(c)'
<1>1. /\ TypeOK /\ CallOK(c) /\ \A k \in 1 .. Len(pools) : PoolOK(c, k)
      /\ \A o \in owned : o.pool <= Len(pools)
  BY DEF IInv
<1>2. PICK k : k = job[c].pool
  OBVIOUS
<1>3. PICK a : a = job[c].addr
  OBVIOUS
<1>4. PICK i : i = job[c].tag
  OBVIOUS
<1>5. /\ pc[c] = "release" /\ pc' = [pc EXCEPT ![c] = "idle"] /\ UNCHANGED << last, owned, heap >>
      /\ pools' = [pools EXCEPT ![k] = Released(pools[k], a, i)] /\ job' = [job EXCEPT ![c] = Idle]
  BY <1>2, <1>3, <1>4 DEF Release, Goto
<1>6. Working(c) /\ last = Len(pools) /\ k \in 1 .. Len(pools) /\ a \in Addr /\ ~ Merges(job[c])
  BY <1>1, <1>2, <1>3, <1>5 DEF CallOK, Working
<1>7. i \in Tags /\ pools \in Seq(Pool) /\ pools[k] \in Pool
      /\ pc \in [Clients -> Labels] /\ job \in [Clients -> Job]
  <2>1. job[c] \in Job /\ i \in Tags
    BY <1>1, <1>4, TypeParts
  <2>2. pools \in Seq(Pool) /\ pc \in [Clients -> Labels] /\ job \in [Clients -> Job]
    BY <1>1, TypeIs DEF Labels
  <2> QED BY <1>6, <2>1, <2>2
<1>8. PICK p : p = pools[k]
  OBVIOUS
<1>9. Merging(k, p, a, i, owned)
  BY <1>1, <1>2, <1>3, <1>4, <1>6, <1>8 DEF PoolOK
<1>10. ~ (i < p.maxTag /\ ~ p.res[Buddy(a, i)] /\ p.tag[Buddy(a, i)] = i)
  BY <1>2, <1>3, <1>4, <1>6, <1>8 DEF Merges
<1>11. PICK q : q = Released(p, a, i)
  OBVIOUS
<1>12. q \in Pool /\ AtEase(k, q, owned)
  BY <1>6, <1>7, <1>8, <1>9, <1>10, <1>11, ReleaseIs
<1>13. /\ pools' \in Seq(Pool) /\ Len(pools') = Len(pools) /\ pools'[k] = q
       /\ \A j \in 1 .. Len(pools) : j # k => pools'[j] = pools[j]
  BY <1>5, <1>6, <1>7, <1>8, <1>11, <1>12, SeqExcept
<1>14. pc'[c] = "idle" /\ pc' \in [Clients -> Labels] /\ job' \in [Clients -> Job]
  BY <1>5, <1>7, IdleIs, OneClient DEF Labels
<1>15. TypeOK'
  BY <1>1, <1>5, <1>13, <1>14 DEF TypeOK, Labels, Job
<1>16. CallOK(c)'
  BY <1>5, <1>6, <1>13, <1>14 DEF CallOK, Working
<1>17. ~ Working(c)'
  BY <1>14 DEF Working
<1>18. PoolOK(c, k)'
  BY <1>5, <1>12, <1>13, <1>17 DEF PoolOK
<1>19. \A j \in 1 .. Len(pools') : PoolOK(c, j)'
  BY <1>1, <1>2, <1>5, <1>13, <1>17, <1>18, PoolChanged
<1>20. \A o \in owned' : o.pool <= Len(pools')
  BY <1>1, <1>5, <1>13
<1> QED BY <1>15, <1>16, <1>19, <1>20 DEF IInv

LEMMA InitIInv ==
  ASSUME NEW c, Clients = {c}, Init
  PROVE  IInv(c)
<1>1. PICK p : p = NewPool(BlockTag)
  OBVIOUS
<1>2. /\ pools = << p >> /\ last = 1 /\ pc = [d \in Clients |-> "idle"]
      /\ job = [d \in Clients |-> Idle] /\ owned = {} /\ heap = "ok"
  BY <1>1 DEF Init
<1>3. BlockTag \in Tags
  BY Constants DEF Tags
<1>4. p \in Pool /\ AtEase(1, p, owned)
  BY <1>1, <1>2, <1>3, NewPoolAtEase
<1>5. pools \in Seq(Pool) /\ Len(pools) = 1 /\ pools[1] = p
  BY <1>2, <1>4
<1>6. pc[c] = "idle" /\ pc \in [Clients -> Labels] /\ job \in [Clients -> Job]
  BY <1>2, IdleIs DEF Labels
<1>7. TypeOK
  <2>1. 1 \in 1 .. MaxPools
    BY Constants
  <2>2. pools \in Seq(Pool) /\ Len(pools) \in 1 .. MaxPools /\ last \in 1 .. MaxPools
    BY <1>2, <1>5, <2>1
  <2> QED BY <1>2, <1>6, <2>2, TypeIs DEF Labels
<1>8. CallOK(c)
  BY <1>2, <1>5, <1>6 DEF CallOK, Working
<1>9. \A k \in 1 .. Len(pools) : PoolOK(c, k)
  BY <1>4, <1>5, <1>6 DEF PoolOK, Working
<1> QED BY <1>2, <1>7, <1>8, <1>9 DEF IInv

LEMMA NextIInv ==
  ASSUME NEW c, Clients = {c}, IInv(c), [Next]_vars
  PROVE  IInv(c)'
<1>1. CASE UNCHANGED vars
  <2>1. UNCHANGED << pools, last, pc, job, owned, heap >>
    BY <1>1 DEF vars
  <2> QED BY <2>1 DEF IInv, TypeOK, CallOK, PoolOK, Working, Merges
<1>2. CASE Next
  <2>1. \/ \E req \in Tags : StartAlloc(c, req)
        \/ ProbeServes(c) \/ ProbeFails(c)
        \/ MakePool(c) \/ MakePoolFails(c)
        \/ Retry(c)
        \/ \E b \in owned : StartFree(c, b)
        \/ ReadPastEnd(c) \/ FindBuddy(c) \/ MergeBuddy(c) \/ Release(c)
    BY <1>2 DEF Next
  <2> QED BY <2>1, StartAllocKeeps, ProbeServesKeeps, ProbeFailsKeeps, MakePoolKeeps,
             MakePoolFailsKeeps, RetryKeeps, StartFreeKeeps, ReadPastEndKeeps,
             FindBuddyKeeps, MergeBuddyKeeps, ReleaseKeeps
<1> QED BY <1>1, <1>2

-----------------------------------------------------------------------------
(* What the properties say of the blocks found by stepping over a pool.    *)

LEMMA StartsAre ==
  ASSUME NEW p \in Pool, NEW S \in SUBSET Addr, Cut(p.maxTag, S, p.tag)
  PROVE  Starts(p) = S \cup {Size(p.maxTag)} /\ Blocks(p) = S /\ FreeBlocks(p) = Free(p, S)
<1>1. PICK t : t = p.tag
  OBVIOUS
<1>2. PICK m \in Nat : m = Size(p.maxTag) /\ m > 0
  BY PoolParts, Sizes
<1>3. Cut(p.maxTag, S, t) /\ p.maxTag \in Nat
  BY <1>1, PoolParts
<1>4. \A b \in S : /\ b \in Nat /\ b < m /\ t[b] \in Nat /\ t[b] > 0 /\ Size(t[b]) \in Nat /\ Size(t[b]) > 0
                   /\ b + Size(t[b]) \in S \cup {m} /\ b + Size(t[b]) <= m
  <2> SUFFICES ASSUME NEW b \in S
               PROVE  /\ b \in Nat /\ b < m /\ t[b] \in Nat /\ t[b] > 0 /\ Size(t[b]) \in Nat /\ Size(t[b]) > 0
                      /\ b + Size(t[b]) \in S \cup {m} /\ b + Size(t[b]) <= m
    OBVIOUS
  <2>1. /\ b \in Nat /\ b < m /\ t[b] \in Nat /\ t[b] \in MinTag .. p.maxTag
        /\ Size(t[b]) \in Nat /\ Size(t[b]) > 0 /\ b + Size(t[b]) <= m
    BY <1>2, <1>3, BlockIs
  <2>2. b + Size(t[b]) \in S \cup {m}
    BY <1>2, <1>3 DEF Cut
  <2> QED BY <2>1, <2>2, Constants
<1>5. \A b \in S, d \in S : b < d => b + Size(t[b]) <= d
  BY <1>3 DEF Cut
<1>6. 0 \in S
  BY <1>3 DEF Cut
<1>7. \A a \in Addr : a \in Nat
  BY AddrIs
<1> DEFINE D == 0 .. m
           Steps(g, a) == a = 0 \/ \E b \in Addr : b < a /\ g[b] /\ t[b] > 0 /\ b + Size(t[b]) = a
           Solves(g) == g = [a \in D |-> Steps(g, a)]
<1>8. PICK f : f = [a \in D |-> a \in S \cup {m}]
  OBVIOUS
<1>9. ASSUME NEW a \in D
      PROVE  f[a] = Steps(f, a)
  <2>1. ASSUME a \in S \cup {m} PROVE Steps(f, a)
    <3>1. CASE a = 0
      BY <3>1
    <3>2. CASE a # 0
      <4>1. a - 1 \in Nat /\ a - 1 < m
        BY <1>2, <3>2
      <4>2. PICK b \in S : b <= a - 1 /\ a - 1 < b + Size(t[b])
        BY <1>2, <1>3, <4>1, CutIsFull
      <4>3. b < a /\ a <= b + Size(t[b]) /\ b \in D
        BY <1>2, <1>4, <4>2
      <4>4. b + Size(t[b]) <= a
        <5>1. CASE a \in S
          BY <1>5, <4>3, <5>1
        <5>2. CASE a = m
          BY <1>4, <5>2
        <5> QED BY <2>1, <5>1, <5>2
      <4>5. b + Size(t[b]) = a
        BY <1>4, <4>3, <4>4
      <4>6. f[b] /\ t[b] > 0
        BY <1>4, <1>8, <4>3
      <4> QED BY <4>3, <4>5, <4>6
    <3> QED BY <3>1, <3>2
  <2>2. ASSUME Steps(f, a) PROVE a \in S \cup {m}
    <3>1. CASE a = 0
      BY <1>6, <3>1
    <3>2. CASE \E b \in Addr : b < a /\ f[b] /\ t[b] > 0 /\ b + Size(t[b]) = a
      <4>1. PICK b \in Addr : b < a /\ f[b] /\ b + Size(t[b]) = a
        BY <3>2
      <4>2. b \in Nat /\ b < m /\ b \in D
        BY <1>2, <1>7, <4>1
      <4>3. b \in S
        <5>1. f[b] = (b \in S \cup {m})
          BY <1>8, <4>2
        <5>2. b \in S \cup {m}
          BY <4>1, <5>1
        <5> QED BY <4>2, <5>2
      <4> QED BY <1>4, <4>1, <4>3
    <3> QED BY <2>2, <3>1, <3>2
  <2> HIDE DEF Steps
  <2>3. f[a] = (a \in S \cup {m})
    BY <1>8
  <2>4. Steps(f, a) \in BOOLEAN
    BY DEF Steps
  <2> QED BY <2>1, <2>2, <2>3, <2>4
<1>10. Solves(f)
  <2> HIDE DEF Steps
  <2> QED BY <1>8, <1>9
<1>11. PICK w : w = CHOOSE g : Solves(g)
  OBVIOUS
<1>12. Solves(w)
  <2> HIDE DEF Solves
  <2> QED BY <1>10, <1>11
<1>13. \A a \in D : w[a] = Steps(w, a)
  <2> HIDE DEF Steps
  <2> QED BY <1>12
<1>14. \A a \in D : w[a] = f[a]
  <2> SUFFICES ASSUME {a \in D : w[a] # f[a]} # {} PROVE FALSE
    OBVIOUS
  <2>1. PICK a \in {x \in D : w[x] # f[x]} : \A y \in {x \in D : w[x] # f[x]} : a <= y
    <3>1. {x \in D : w[x] # f[x]} \subseteq Nat
      OBVIOUS
    <3> QED BY <3>1, LeastOf
  <2>2. \A b \in Addr : b < a => w[b] = f[b]
    <3> SUFFICES ASSUME NEW b \in Addr, b < a, w[b] # f[b] PROVE FALSE
      OBVIOUS
    <3>1. b \in D
      BY <1>2, <1>7
    <3>2. a <= b
      BY <2>1, <3>1
    <3> QED BY <1>7, <3>2
  <2>3. Steps(w, a) = Steps(f, a)
    BY <2>2
  <2> HIDE DEF Steps
  <2> QED BY <1>9, <1>13, <2>1, <2>3
<1>15. Starts(p) = {a \in D : w[a]}
  BY <1>1, <1>2, <1>11 DEF Starts, Size
<1>16. Starts(p) = S \cup {m}
  <2>1. \A a \in D : w[a] <=> a \in S \cup {m}
    <3> HIDE DEF Steps
    <3> QED BY <1>8, <1>14
  <2>2. S \cup {m} \subseteq D
    BY <1>2, <1>4
  <2> HIDE DEF Steps, D
  <2> QED BY <1>15, <2>1, <2>2
<1>17. m \notin S /\ 2 ^ p.maxTag = m
  BY <1>2, <1>4 DEF Size
<1>18. Blocks(p) = S
  BY <1>16, <1>17 DEF Blocks
<1> QED BY <1>2, <1>16, <1>18 DEF FreeBlocks, Free

-----------------------------------------------------------------------------
\* mem_alloc and mem_free are called by one thread.
OneCaller == \E c : Clients = {c}

LEMMA Rests ==
  ASSUME NEW c, Clients = {c}, IInv(c), AtRest, NEW k \in 1 .. Len(pools)
  PROVE  /\ pools[k] \in Pool
         /\ \E S \in SUBSET Addr :
              /\ Cut(pools[k].maxTag, S, pools[k].tag)
              /\ Listed(pools[k], pools[k].tag, Free(pools[k], S))
              /\ Owns(k, pools[k], S, pools[k].tag, owned)
<1>1. AtEase(k, pools[k], owned) /\ TypeOK
  BY DEF IInv, PoolOK, AtRest, Working
<1>2. pools[k] \in Pool
  BY <1>1, TypeParts
<1>3. PICK S \in SUBSET Addr : PoolIs(k, pools[k], S, pools[k].tag, {}, owned)
  BY <1>1 DEF AtEase
<1>4. S \ {} = S
  OBVIOUS
<1> QED BY <1>2, <1>3, <1>4 DEF PoolIs

LEMMA InvFills ==
  ASSUME NEW c, Clients = {c}, IInv(c)
  PROVE  BlocksFillThePool
<1>1. TypeOK
  BY DEF IInv
<1>2. ASSUME AtRest, NEW k \in 1 .. Len(pools), NEW p, p = pools[k]
      PROVE  /\ 2 ^ p.maxTag \in Starts(p)
             /\ \A b \in Blocks(p) : b % 2 ^ p.tag[b] = 0
             /\ {[pool |-> k, addr |-> b, tag |-> p.tag[b]] : b \in Blocks(p) \ FreeBlocks(p)}
                  = {b \in owned : b.pool = k}
  <2>1. p \in Pool
    BY <1>2, Rests
  <2>2. PICK S \in SUBSET Addr : /\ Cut(p.maxTag, S, p.tag) /\ Listed(p, p.tag, Free(p, S))
                                 /\ Owns(k, p, S, p.tag, owned)
    BY <1>2, Rests
  <2>3. Starts(p) = S \cup {Size(p.maxTag)} /\ Blocks(p) = S /\ FreeBlocks(p) = Free(p, S)
    BY <2>1, <2>2, StartsAre
  <2>4. 2 ^ p.maxTag \in Starts(p)
    BY <2>3 DEF Size
  <2>5. \A b \in Blocks(p) : b % 2 ^ p.tag[b] = 0
    <3>1. \A b \in S : Aligned(b, p.tag[b])
      BY <2>2 DEF Cut
    <3> QED BY <2>3, <3>1 DEF Aligned, Size
  <2>6. Blocks(p) \ FreeBlocks(p) = {b \in S : p.res[b]}
    BY <2>3 DEF Free
  <2>7. {[pool |-> k, addr |-> b, tag |-> p.tag[b]] : b \in {d \in S : p.res[d]}} = {b \in owned : b.pool = k}
    <3>1. ASSUME NEW b \in S, p.res[b]
          PROVE  [pool |-> k, addr |-> b, tag |-> p.tag[b]] \in {o \in owned : o.pool = k}
      BY <2>2, <3>1 DEF Owns
    <3>2. ASSUME NEW o \in owned, o.pool = k
          PROVE  o \in {[pool |-> k, addr |-> b, tag |-> p.tag[b]] : b \in {d \in S : p.res[d]}}
      <4>1. o.addr \in S /\ p.res[o.addr] /\ o.tag = p.tag[o.addr]
        BY <2>2, <3>2 DEF Owns
      <4>2. o \in Owned
        BY <1>1, TypeParts
      <4>3. o = [pool |-> k, addr |-> o.addr, tag |-> p.tag[o.addr]]
        BY <3>2, <4>1, <4>2 DEF Owned
      <4> QED BY <4>1, <4>3
    <3> QED BY <3>1, <3>2
  <2> QED BY <2>4, <2>5, <2>6, <2>7
<1> QED BY <1>1, <1>2 DEF BlocksFillThePool

LEMMA InvMerged ==
  ASSUME NEW c, Clients = {c}, IInv(c)
  PROVE  BuddiesAreMerged
<1> SUFFICES ASSUME AtRest, NEW k \in 1 .. Len(pools), NEW p, p = pools[k],
                    NEW b \in FreeBlocks(p), NEW d \in FreeBlocks(p), p.tag[b] = p.tag[d], b # d
             PROVE  Buddy(b, p.tag[b]) # d
  BY DEF BuddiesAreMerged
<1>1. p \in Pool
  BY Rests
<1>2. PICK S \in SUBSET Addr : Cut(p.maxTag, S, p.tag) /\ Listed(p, p.tag, Free(p, S))
  BY Rests
<1>3. FreeBlocks(p) = Free(p, S)
  BY <1>1, <1>2, StartsAre
<1> QED BY <1>2, <1>3 DEF Listed, Apart

LEMMA InvLists ==
  ASSUME NEW c, Clients = {c}, IInv(c)
  PROVE  ListsHoldFreeBlocks
<1>1. ASSUME AtRest, NEW k \in 1 .. Len(pools), NEW i \in Tags, NEW p, p = pools[k],
             NEW ofTag, ofTag = {b \in FreeBlocks(p) : p.tag[b] = i}
      PROVE  /\ p.avail[i] \in ofTag \cup {NULL}
             /\ p.avail[i] # NULL => p.prev[p.avail[i]] = NULL
             /\ \A b \in ofTag : p.next[b] # NULL => p.next[b] \in ofTag /\ p.prev[p.next[b]] = b
  <2>1. p \in Pool
    BY <1>1, Rests
  <2>2. PICK S \in SUBSET Addr : Cut(p.maxTag, S, p.tag) /\ Listed(p, p.tag, Free(p, S))
    BY <1>1, Rests
  <2>3. FreeBlocks(p) = Free(p, S)
    BY <2>1, <2>2, StartsAre
  <2>4. ofTag = {b \in Free(p, S) : p.tag[b] = i}
    BY <1>1, <2>3
  <2>5. p.avail[i] # NULL => p.avail[i] \in ofTag /\ p.prev[p.avail[i]] = NULL
    BY <2>2, <2>4 DEF Listed, Heads
  <2>6. \A b \in ofTag : p.next[b] # NULL => p.next[b] \in ofTag /\ p.prev[p.next[b]] = b
    BY <2>2, <2>4 DEF Listed, Nexts
  <2> QED BY <2>5, <2>6
<1>2. ASSUME AtRest, NEW k \in 1 .. Len(pools), NEW i \in Tags
      PROVE  LET p == pools[k]
                 ofTag == {b \in FreeBlocks(p) : p.tag[b] = i}
             IN  /\ p.avail[i] \in ofTag \cup {NULL}
                 /\ p.avail[i] # NULL => p.prev[p.avail[i]] = NULL
                 /\ \A b \in ofTag : p.next[b] # NULL => p.next[b] \in ofTag /\ p.prev[p.next[b]] = b
  <2>1. PICK p : p = pools[k]
    OBVIOUS
  <2>2. PICK ofTag : ofTag = {b \in FreeBlocks(p) : p.tag[b] = i}
    OBVIOUS
  <2>3. /\ p.avail[i] \in ofTag \cup {NULL}
        /\ p.avail[i] # NULL => p.prev[p.avail[i]] = NULL
        /\ \A b \in ofTag : p.next[b] # NULL => p.next[b] \in ofTag /\ p.prev[p.next[b]] = b
    BY <1>1, <1>2, <2>1, <2>2
  <2> QED BY <2>1, <2>2, <2>3
<1> QED BY <1>2 DEF ListsHoldFreeBlocks

LEMMA InvWhole ==
  ASSUME NEW c, Clients = {c}, IInv(c)
  PROVE  EmptyPoolIsWhole
<1> SUFFICES ASSUME AtRest, NEW k \in 1 .. Len(pools), \A b \in owned : b.pool # k,
                    NEW p, p = pools[k]
             PROVE  p.avail[p.maxTag] = 0
  BY DEF EmptyPoolIsWhole
<1>1. p \in Pool /\ p.maxTag \in Nat
  BY Rests, PoolParts
<1>2. PICK S \in SUBSET Addr : /\ Cut(p.maxTag, S, p.tag) /\ Listed(p, p.tag, Free(p, S))
                               /\ Owns(k, p, S, p.tag, owned)
  BY Rests
<1>3. Free(p, S) = S
  <2>1. ASSUME NEW b \in S, p.res[b] PROVE FALSE
    <3>1. [pool |-> k, addr |-> b, tag |-> p.tag[b]] \in owned
      BY <1>2, <2>1 DEF Owns
    <3> QED BY <3>1
  <2> QED BY <2>1 DEF Free
<1>4. PICK t : t = p.tag
  OBVIOUS
<1>5. Cut(p.maxTag, S, t)
  BY <1>2, <1>4
<1>6. PICK T : T = {t[b] : b \in S}
  OBVIOUS
<1>7. T \subseteq Nat /\ T # {}
  <2>1. \A b \in S : t[b] \in Nat
    BY <1>1, <1>5, BlockIs
  <2>2. 0 \in S
    BY <1>5 DEF Cut
  <2> QED BY <1>6, <2>1, <2>2
<1>8. PICK i \in T : \A j \in T : i <= j
  BY <1>7, LeastOf
<1>9. PICK b \in S : t[b] = i
  BY <1>6
<1>10. ~ (i < p.maxTag)
  <2> SUFFICES ASSUME i < p.maxTag PROVE FALSE
    OBVIOUS
  <2>1. PICK d : d = Buddy(b, i)
    OBVIOUS
  <2>2. d \in S /\ t[d] <= i
    BY <1>1, <1>5, <1>9, <2>1, BuddyIsABlock
  <2>3. t[d] \in T
    BY <1>6, <2>2
  <2>4. t[d] = i
    <3>1. i \in Nat /\ t[d] \in Nat /\ i <= t[d]
      BY <1>7, <1>8, <2>3
    <3> QED BY <2>2, <3>1
  <2> QED BY <1>2, <1>3, <1>4, <1>9, <2>1, <2>2, <2>4 DEF Listed, Apart
<1>11. t[b] = p.maxTag
  <2>1. t[b] \in MinTag .. p.maxTag /\ t[b] \in Nat
    BY <1>1, <1>5, BlockIs
  <2> QED BY <1>1, <1>9, <1>10, <2>1, Constants
<1>12. b = 0 /\ S = {0}
  BY <1>1, <1>5, <1>11, CutIsOne
<1> QED BY <1>2, <1>3, <1>4, <1>11, <1>12 DEF Listed, Whole

LEMMA InvDisjoint ==
  ASSUME NEW c, Clients = {c}, IInv(c)
  PROVE  OwnedDisjoint
<1> SUFFICES ASSUME NEW b \in owned, NEW d \in owned, b # d,
                    NEW x \in Memory(b), x \in Memory(d)
             PROVE  FALSE
  BY DEF OwnedDisjoint
<1>1. TypeOK
  BY DEF IInv
<1>2. PICK k : k = b.pool
  OBVIOUS
<1>3. PICK u \in b.addr .. b.addr + Size(b.tag) - 1 : x = [pool |-> k, unit |-> u]
  BY <1>2 DEF Memory, Size
<1>4. PICK v \in d.addr .. d.addr + Size(d.tag) - 1 : x = [pool |-> d.pool, unit |-> v]
  BY DEF Memory, Size
<1>5. d.pool = k /\ u = v
  BY <1>3, <1>4
<1>6. k \in 1 .. Len(pools) /\ pools[k] \in Pool /\ b \in Owned /\ d \in Owned
  <2>1. k \in 1 .. Len(pools)
    BY <1>1, <1>2, TypeParts DEF IInv
  <2> QED BY <1>1, <2>1, TypeParts
<1>7. \E S, t, X : S \in SUBSET Addr /\ PoolIs(k, pools[k], S, t, X, owned)
  <2>1. PoolOK(c, k)
    BY <1>6 DEF IInv
  <2> QED BY <2>1 DEF PoolOK, AtEase, Merging
<1>8. PICK S, t, X : S \in SUBSET Addr /\ PoolIs(k, pools[k], S, t, X, owned)
  BY <1>7
<1>9. PICK m : m = pools[k].maxTag
  OBVIOUS
<1>10. Cut(m, S, t) /\ Owns(k, pools[k], S \ X, t, owned) /\ m \in Nat
  BY <1>6, <1>8, <1>9, PoolParts DEF PoolIs
<1>11. b.addr \in S /\ d.addr \in S /\ b.tag = t[b.addr] /\ d.tag = t[d.addr]
  BY <1>2, <1>5, <1>10 DEF Owns
<1>12. b.addr # d.addr
  <2> SUFFICES ASSUME b.addr = d.addr PROVE FALSE
    OBVIOUS
  <2>1. b.pool = d.pool /\ b.addr = d.addr /\ b.tag = d.tag
    BY <1>2, <1>5, <1>11
  <2> QED BY <1>6, <2>1 DEF Owned
<1>13. b.addr \in Nat /\ d.addr \in Nat /\ Size(b.tag) \in Nat /\ Size(d.tag) \in Nat
  BY <1>10, <1>11, BlockIs
<1>14. b.addr < d.addr => b.addr + Size(b.tag) <= d.addr
  BY <1>10, <1>11 DEF Cut
<1>15. d.addr < b.addr => d.addr + Size(d.tag) <= b.addr
  BY <1>10, <1>11 DEF Cut
<1> QED BY <1>3, <1>4, <1>5, <1>12, <1>13, <1>14, <1>15

-----------------------------------------------------------------------------
LEMMA OneCallerIInv ==
  ASSUME NEW c, Clients = {c}
  PROVE  Spec => []IInv(c)
<1>1. Init => IInv(c)
  BY InitIInv
<1>2. IInv(c) /\ [Next]_vars => IInv(c)'
  BY NextIInv
<1> QED BY <1>1, <1>2, PTL DEF Spec

(* With one caller, whatever it allocates and frees, between its calls     *)
(* every pool is cut into aligned blocks that fill it exactly, and the     *)
(* reserved ones are the blocks the caller has, in the size it was given:  *)
(* mem_allocate_block and mem_free lose no memory and give none out twice. *)
THEOREM FillsThePool ==
  OneCaller => (Spec => []BlocksFillThePool)
<1> SUFFICES ASSUME NEW c, Clients = {c} PROVE Spec => []BlocksFillThePool
  BY DEF OneCaller
<1>1. IInv(c) => BlocksFillThePool
  BY InvFills
<1>2. Spec => []IInv(c)
  BY OneCallerIInv
<1> QED BY <1>1, <1>2, PTL

(* With one caller, between calls no two free buddies of the same size     *)
(* are left apart: the loop of mem_free merges as far as it goes, and      *)
(* splitting never makes such a pair.                                      *)
THEOREM MergesBuddies ==
  OneCaller => (Spec => []BuddiesAreMerged)
<1> SUFFICES ASSUME NEW c, Clients = {c} PROVE Spec => []BuddiesAreMerged
  BY DEF OneCaller
<1>1. IInv(c) => BuddiesAreMerged
  BY InvMerged
<1>2. Spec => []IInv(c)
  BY OneCallerIInv
<1> QED BY <1>1, <1>2, PTL

(* With one caller, between calls the head of a free list is a free block  *)
(* of its tag, and next leads from a free block to a free block of the     *)
(* same tag that prev leads back from, although unlinking a head clears    *)
(* the list and leaves the blocks behind it on none.                       *)
THEOREM ListsHoldFree ==
  OneCaller => (Spec => []ListsHoldFreeBlocks)
<1> SUFFICES ASSUME NEW c, Clients = {c} PROVE Spec => []ListsHoldFreeBlocks
  BY DEF OneCaller
<1>1. IInv(c) => ListsHoldFreeBlocks
  BY InvLists
<1>2. Spec => []IInv(c)
  BY OneCallerIInv
<1> QED BY <1>1, <1>2, PTL

(* With one caller, a pool from which all has been given back is one block *)
(* on its list again: the blocks that fell off a list come back when their *)
(* buddies are freed.                                                      *)
THEOREM EmptyIsWhole ==
  OneCaller => (Spec => []EmptyPoolIsWhole)
<1> SUFFICES ASSUME NEW c, Clients = {c} PROVE Spec => []EmptyPoolIsWhole
  BY DEF OneCaller
<1>1. IInv(c) => EmptyPoolIsWhole
  BY InvWhole
<1>2. Spec => []IInv(c)
  BY OneCallerIInv
<1> QED BY <1>1, <1>2, PTL

(* With one caller two blocks in use have no memory in common, also in the *)
(* middle of mem_alloc and mem_free.  With two callers they may            *)
(* (BuddyMemShared).                                                       *)
THEOREM OneCallerDisjoint ==
  OneCaller => (Spec => []OwnedDisjoint)
<1> SUFFICES ASSUME NEW c, Clients = {c} PROVE Spec => []OwnedDisjoint
  BY DEF OneCaller
<1>1. IInv(c) => OwnedDisjoint
  BY InvDisjoint
<1>2. Spec => []IInv(c)
  BY OneCallerIInv
<1> QED BY <1>1, <1>2, PTL
=============================================================================
