-------------------------- MODULE EventPoolProofs --------------------------
(***************************************************************************)
(* The pool of events, for any number of threads and of events.            *)
(*                                                                         *)
(* None of the three properties is inductive alone.  What carries them is  *)
(* that the free list keeps the head and the tail pool_create gave it,     *)
(* which are different nodes: the tail is what is offered, for ever, and   *)
(* moving it to and fro never moves the head of the free list.  That the   *)
(* search finds the node of an event, and its true predecessor, needs the  *)
(* rings closed, which is why RingsStayClosed is part of the invariant.    *)
(***************************************************************************)
EXTENDS EventPool, FiniteSetTheorems, WellFoundedInduction, TLAPS

-----------------------------------------------------------------------------
(* Rings of nodes, of any size.                                            *)
(*                                                                         *)
(* Walk is defined by recursion, and the library's theorems on recursion   *)
(* and induction take operators; LeastOf and NatSetInduction do the same   *)
(* work with sets.                                                         *)

\* A set of naturals that is not empty has a least member.
LEMMA LeastOf ==
  ASSUME NEW T, T \subseteq Nat, T # {}
  PROVE  \E m \in T : \A k \in T : m <= k
  <1> DEFINE R == OpToRel(<, Nat)
  <1>1. \A x, y \in Nat : x < y => << x, y >> \in R
    BY DEF OpToRel
  <1>2. IsWellFoundedOn(R, Nat)
    BY NatLessThanWellFounded
  <1> HIDE DEF R
  <1>3. PICK m \in T : \A y \in T : ~ (<< y, m >> \in R)
    BY <1>2, WFMin
  <1>4. ASSUME NEW k \in T
        PROVE  m <= k
    <2>1. ~ (k < m)
      BY <1>1, <1>3
    <2>2. k \in Nat /\ m \in Nat
      OBVIOUS
    <2> QED BY <2>1, <2>2
  <1> QED BY <1>3, <1>4

\* A set with 0 and the successors of its members has all naturals.
LEMMA NatSetInduction ==
  ASSUME NEW S, 0 \in S, \A n \in Nat : n \in S => n + 1 \in S
  PROVE  Nat \subseteq S
  <1>1. SUFFICES ASSUME Nat \ S # {}
                 PROVE  FALSE
    OBVIOUS
  <1>2. PICK m \in Nat \ S : \A k \in Nat \ S : m <= k
    BY <1>1, LeastOf
  <1>3. m # 0
    BY <1>2
  <1>4. m - 1 \in Nat /\ m - 1 \in S
    BY <1>2, <1>3
  <1> QED BY <1>2, <1>4

-----------------------------------------------------------------------------
(* Walks                                                                   *)

LEMMA NodesAreFinite == Cardinality(Node) \in Nat
  BY NodeAssumption, FS_CardinalityType

\* g holds the first n steps of a walk along f from p.
Walked(g, f, p, n) == g[0] = p /\ \A k \in 1 .. n : g[k] = f[g[k - 1]]

\* f does not lead out of S.
Inside(f, S) == \A x \in S : f[x] \in S

\* Inside a set that f does not lead out of, a walk along f goes on for ever.
LEMMA WalkExists ==
  ASSUME NEW S, NEW f, Inside(f, S), NEW p \in S, NEW n \in Nat
  PROVE  \E g \in [0 .. n -> S] : Walked(g, f, p, n)
  <1> USE DEF Walked, Inside
  <1> DEFINE Walks(i, g) == g \in [0 .. i -> S] /\ Walked(g, f, p, i)
  <1>1. PICK I \in SUBSET Nat : I = {i \in Nat : \E g : Walks(i, g)}
    OBVIOUS
  <1>2. 0 \in I
    <2>1. PICK g : g = [k \in 0 .. 0 |-> p]
      OBVIOUS
    <2>2. Walks(0, g)
      BY <2>1
    <2> QED BY <1>1, <2>2
  <1>3. ASSUME NEW i \in Nat, i \in I
        PROVE  i + 1 \in I
    <2>1. PICK g : Walks(i, g)
      BY <1>1, <1>3
    <2>2. PICK h : h = [k \in 0 .. i + 1 |-> IF k <= i THEN g[k] ELSE f[g[i]]]
      OBVIOUS
    <2>3. g[i] \in S /\ f[g[i]] \in S
      BY <2>1
    <2>4. h \in [0 .. i + 1 -> S]
      BY <2>1, <2>2, <2>3
    <2>5. h[0] = p
      BY <2>1, <2>2
    <2>6. \A k \in 1 .. i + 1 : h[k] = f[h[k - 1]]
      BY <2>1, <2>2
    <2>7. Walks(i + 1, h)
      BY <2>4, <2>5, <2>6
    <2> QED BY <1>1, <2>7
  <1>4. Nat \subseteq I
    BY <1>2, <1>3, NatSetInduction
  <1> QED BY <1>1, <1>4

\* Two walks from the same place meet the same nodes.
LEMMA WalkIsUnique ==
  ASSUME NEW n \in Nat, NEW f, NEW p, NEW g, NEW h, Walked(g, f, p, n), Walked(h, f, p, n)
  PROVE  \A k \in 0 .. n : g[k] = h[k]
  <1> USE DEF Walked
  <1>1. PICK I \in SUBSET Nat : I = {i \in Nat : i <= n => g[i] = h[i]}
    OBVIOUS
  <1>2. 0 \in I
    BY <1>1
  <1>3. ASSUME NEW i \in Nat, i \in I
        PROVE  i + 1 \in I
    <2> SUFFICES ASSUME i + 1 <= n
                 PROVE  g[i + 1] = h[i + 1]
      BY <1>1
    <2>1. i + 1 \in 1 .. n /\ i + 1 - 1 = i /\ g[i] = h[i]
      BY <1>1, <1>3
    <2> QED BY <2>1
  <1>4. Nat \subseteq I
    BY <1>2, <1>3, NatSetInduction
  <1> QED BY <1>1, <1>4

LEMMA WalkSteps ==
  ASSUME NEW S, NEW f, Inside(f, S), NEW p \in S, NEW N, N = Cardinality(Node)
  PROVE  Walk(f, p) \in [0 .. N -> S] /\ Walked(Walk(f, p), f, p, N)
  <1> DEFINE Solves(w) == w = [k \in 0 .. N |-> IF k = 0 THEN p ELSE f[w[k - 1]]]
  <1>1. N \in Nat
    BY NodesAreFinite
  <1>2. PICK g \in [0 .. N -> S] : Walked(g, f, p, N)
    BY <1>1, WalkExists
  <1>3. \A k \in 0 .. N : g[k] = IF k = 0 THEN p ELSE f[g[k - 1]]
    BY <1>1, <1>2 DEF Walked
  <1>4. Solves(g)
    <2>1. g = [k \in 0 .. N |-> g[k]]
      BY <1>2
    <2> QED BY <1>3, <2>1
  <1>5. PICK w : w = CHOOSE v : Solves(v)
    OBVIOUS
  <1>6. Solves(w)
    BY <1>4, <1>5
  <1>7. Walked(w, f, p, N)
    BY <1>1, <1>6 DEF Walked
  <1>8. \A k \in 0 .. N : w[k] = g[k]
    BY <1>1, <1>2, <1>7, WalkIsUnique
  <1>9. w = [k \in 0 .. N |-> g[k]]
    <2>1. w = [k \in 0 .. N |-> w[k]]
      BY <1>6
    <2> QED BY <1>8, <2>1
  <1>10. w = g
    BY <1>2, <1>9
  <1>11. w = Walk(f, p)
    BY <1>5 DEF Walk
  <1> QED BY <1>1, <1>2, <1>10, <1>11

-----------------------------------------------------------------------------
(* Rings                                                                   *)

\* The nodes of s, in this order, are a ring along next.
Cycle(next, s) ==
  /\ s \in Seq(Node) /\ s # << >>
  /\ \A i, j \in 1 .. Len(s) : s[i] = s[j] => i = j
  /\ \A k \in 1 .. Len(s) - 1 : next[s[k]] = s[k + 1]
  /\ next[s[Len(s)]] = s[1]

LEMMA CycleIsShort ==
  ASSUME NEW next, NEW s, Cycle(next, s)
  PROVE  Len(s) \in 1 .. Cardinality(Node)
  <1>1. s \in Seq(Node) /\ Len(s) \in Nat /\ Len(s) > 0
    BY DEF Cycle
  <1>2. Cardinality(1 .. Len(s)) = Len(s) /\ IsFiniteSet(1 .. Len(s))
    <2>1. 1 \in Int /\ Len(s) \in Int
      BY <1>1
    <2>2. Cardinality(1 .. Len(s)) = (IF 1 > Len(s) THEN 0 ELSE Len(s) - 1 + 1) /\ IsFiniteSet(1 .. Len(s))
      BY <2>1, FS_Interval
    <2> QED BY <1>1, <2>2
  <1>3. CASE Cardinality(Node) < Len(s)
    <2>1. PICK g : g = [i \in 1 .. Len(s) |-> s[i]]
      OBVIOUS
    <2>2. g \in [1 .. Len(s) -> Node]
      BY <1>1, <2>1
    <2>3. \E x, y \in 1 .. Len(s) : x # y /\ g[x] = g[y]
      BY <1>2, <1>3, <2>2, NodeAssumption, FS_PigeonHole
    <2> QED BY <2>1, <2>3 DEF Cycle
  <1> QED BY <1>1, <1>3, NodesAreFinite

\* The walk round a ring meets its nodes one by one, and then the first again.
LEMMA WalkAround ==
  ASSUME NEW next, NEW s, Cycle(next, s)
  PROVE  /\ \A k \in 0 .. Len(s) - 1 : Walk(next, s[1])[k] = s[k + 1]
         /\ Walk(next, s[1])[Len(s)] = s[1]
  <1>1. PICK S : S = {s[k] : k \in 1 .. Len(s)}
    OBVIOUS
  <1>2. PICK N : N = Cardinality(Node)
    OBVIOUS
  <1>3. s \in Seq(Node) /\ Len(s) \in 1 .. N /\ Len(s) \in Nat
    BY <1>2, CycleIsShort DEF Cycle
  <1>4. Inside(next, S)
    <2> SUFFICES ASSUME NEW k \in 1 .. Len(s)
                 PROVE  next[s[k]] \in S
      BY <1>1 DEF Inside
    <2>1. CASE k = Len(s)
      <3>1. next[s[k]] = s[1] /\ 1 \in 1 .. Len(s)
        BY <1>3, <2>1 DEF Cycle
      <3> QED BY <1>1, <3>1
    <2>2. CASE k # Len(s)
      <3>1. next[s[k]] = s[k + 1] /\ k + 1 \in 1 .. Len(s)
        BY <1>3, <2>2 DEF Cycle
      <3> QED BY <1>1, <3>1
    <2> QED BY <2>1, <2>2
  <1>5. s[1] \in S
    <2>1. 1 \in 1 .. Len(s)
      BY <1>3
    <2> QED BY <1>1, <2>1
  <1>6. PICK w : w = Walk(next, s[1])
    OBVIOUS
  <1>7. Walked(w, next, s[1], N) /\ N \in Nat
    BY <1>2, <1>4, <1>5, <1>6, WalkSteps, NodesAreFinite
  <1>8. PICK g : g = [k \in 0 .. Len(s) |-> IF k = Len(s) THEN s[1] ELSE s[k + 1]]
    OBVIOUS
  <1>9. g[0] = s[1]
    BY <1>3, <1>8
  <1>10. \A k \in 1 .. Len(s) : g[k] = next[g[k - 1]]
    <2> SUFFICES ASSUME NEW k \in 1 .. Len(s)
                 PROVE  g[k] = next[g[k - 1]]
      OBVIOUS
    <2>1. k \in Nat /\ k - 1 \in 0 .. Len(s) /\ k - 1 # Len(s) /\ k - 1 + 1 = k
      BY <1>3
    <2>2. g[k - 1] = s[k]
      BY <1>8, <2>1
    <2>3. CASE k = Len(s)
      BY <1>3, <1>8, <2>2, <2>3 DEF Cycle
    <2>4. CASE k # Len(s)
      <3>1. next[s[k]] = s[k + 1]
        BY <1>3, <2>4 DEF Cycle
      <3> QED BY <1>3, <1>8, <2>2, <2>4, <3>1
    <2> QED BY <2>3, <2>4
  <1>11. Walked(w, next, s[1], Len(s)) /\ Walked(g, next, s[1], Len(s))
    BY <1>3, <1>7, <1>9, <1>10 DEF Walked
  <1>12. \A k \in 0 .. Len(s) : w[k] = g[k]
    BY <1>3, <1>11, WalkIsUnique
  <1>13. \A k \in 0 .. Len(s) - 1 : w[k] = s[k + 1]
    BY <1>3, <1>8, <1>12
  <1>14. w[Len(s)] = s[1]
    BY <1>3, <1>8, <1>12
  <1> QED BY <1>6, <1>13, <1>14

\* What the operators of LinkHeap take for the ring of a list is its ring.
LEMMA RingIs ==
  ASSUME NEW m, NEW l, NEW s, Cycle(m.next, s), l.head = s[1]
  PROVE  Ring(m, l) = s
  <1>1. PICK N : N = Cardinality(Node)
    OBVIOUS
  <1>2. s \in Seq(Node) /\ Len(s) \in 1 .. N /\ Len(s) \in Nat /\ N \in Nat
    <2>1. Len(s) \in 1 .. N /\ N \in Nat
      BY <1>1, CycleIsShort, NodesAreFinite
    <2> QED BY <2>1 DEF Cycle
  <1>3. s[1] \in Node
    BY <1>2
  <1>4. l.head # NIL
    BY <1>3, NodeAssumption
  <1>5. PICK w : w = Walk(m.next, l.head)
    OBVIOUS
  <1>6. (\A k \in 0 .. Len(s) - 1 : w[k] = s[k + 1]) /\ w[Len(s)] = s[1]
    BY <1>5, WalkAround
  <1> DEFINE Back(k) == w[k] = l.head /\ \A j \in 1 .. k - 1 : w[j] # l.head
  <1>7. \A j \in 1 .. Len(s) - 1 : w[j] # l.head
    <2> SUFFICES ASSUME NEW j \in 1 .. Len(s) - 1, w[j] = l.head
                 PROVE  FALSE
      OBVIOUS
    <2>1. w[j] = s[j + 1] /\ j + 1 \in 1 .. Len(s) /\ 1 \in 1 .. Len(s) /\ j + 1 # 1
      BY <1>2, <1>6
    <2> QED BY <2>1 DEF Cycle
  <1>8. Back(Len(s))
    BY <1>6, <1>7
  <1>9. \A k \in 1 .. N : Back(k) => k = Len(s)
    <2> SUFFICES ASSUME NEW k \in 1 .. N, Back(k)
                 PROVE  k = Len(s)
      OBVIOUS
    <2>1. ~ (k < Len(s))
      BY <1>2, <1>7
    <2>2. ~ (Len(s) < k)
      BY <1>2, <1>8
    <2> QED BY <1>2, <2>1, <2>2
  <1>10. RingSize(m, l.head) = CHOOSE k \in 1 .. N : Back(k)
    BY <1>1, <1>5 DEF RingSize
  <1> HIDE DEF Back
  <1>11. RingSize(m, l.head) = Len(s)
    BY <1>2, <1>8, <1>9, <1>10
  <1>12. Ring(m, l) = [k \in 1 .. Len(s) |-> w[k - 1]]
    BY <1>4, <1>5, <1>11 DEF Ring
  <1>13. \A k \in 1 .. Len(s) : w[k - 1] = s[k]
    <2> SUFFICES ASSUME NEW k \in 1 .. Len(s)
                 PROVE  w[k - 1] = s[k]
      OBVIOUS
    <2>1. k - 1 \in 0 .. Len(s) - 1 /\ k - 1 + 1 = k
      BY <1>2
    <2> QED BY <1>6, <2>1
  <1>14. s = [k \in 1 .. Len(s) |-> s[k]]
    BY <1>2
  <1>15. Ring(m, l) = [k \in 1 .. Len(s) |-> s[k]]
    BY <1>12, <1>13
  <1> QED BY <1>14, <1>15

-----------------------------------------------------------------------------
(* Memory in which prev undoes next                                        *)

Memories(D) ==
  [next : [Node -> Node \cup {NIL}], prev : [Node -> Node \cup {NIL}], data : [Node -> D]]

\* Neither field leads out of S, and on S each undoes the other.
Closed(m, S) ==
  /\ S \subseteq Node
  /\ \A n \in S : m.next[n] \in S /\ m.prev[n] \in S
  /\ \A n \in S : m.prev[m.next[n]] = n /\ m.next[m.prev[n]] = n

\* What a walk meets again it has met from the start.
LEMMA Repeats ==
  ASSUME NEW m, NEW S, Closed(m, S), NEW p \in S, NEW N \in Nat,
         NEW g \in [0 .. N -> S], Walked(g, m.next, p, N),
         NEW i \in 0 .. N, NEW j \in 0 .. N, i < j, g[i] = g[j]
  PROVE  g[j - i] = p
  <1>1. PICK K \in SUBSET Nat : K = {k \in Nat : k <= i /\ g[j - i + k] = g[k]}
    OBVIOUS
  <1>2. i \in K
    <2>1. j - i + i = j
      OBVIOUS
    <2> QED BY <1>1, <2>1
  <1>3. PICK k \in K : \A y \in K : k <= y
    BY <1>2, LeastOf
  <1>4. k \in Nat /\ k <= i /\ g[j - i + k] = g[k]
    BY <1>1, <1>3
  <1>5. CASE k = 0
    <2>1. j - i + k = j - i
      BY <1>5
    <2> QED BY <1>4, <1>5, <2>1 DEF Walked
  <1>6. CASE k # 0
    <2>1. k - 1 \in Nat /\ k - 1 \in 0 .. N /\ k \in 1 .. N
      BY <1>4, <1>6
    <2>2. PICK h : h = j - i + (k - 1)
      OBVIOUS
    <2>3. h \in 0 .. N /\ h + 1 = j - i + k /\ h + 1 \in 1 .. N /\ h + 1 - 1 = h
      BY <1>4, <1>6, <2>2
    <2>4. g[k] = m.next[g[k - 1]] /\ g[h + 1] = m.next[g[h]]
      BY <2>1, <2>3 DEF Walked
    <2>5. g[k - 1] \in S /\ g[h] \in S
      BY <2>1, <2>3
    <2>6. m.next[g[k - 1]] = m.next[g[h]]
      BY <1>4, <2>3, <2>4
    <2>7. g[k - 1] = g[h]
      BY <2>5, <2>6 DEF Closed
    <2>8. k - 1 \in K
      BY <1>1, <1>4, <2>1, <2>2, <2>7
    <2> QED BY <1>3, <1>4, <2>8
  <1> QED BY <1>5, <1>6

\* Every node of such a memory is on a ring.
LEMMA RingCloses ==
  ASSUME NEW m, NEW S, Closed(m, S), NEW p \in S
  PROVE  \E s \in Seq(S) : Cycle(m.next, s) /\ s[1] = p
  <1>1. PICK N : N = Cardinality(Node)
    OBVIOUS
  <1>2. N \in Nat
    BY <1>1, NodesAreFinite
  <1>3. Inside(m.next, S) /\ S \subseteq Node
    BY DEF Closed, Inside
  <1>4. PICK g \in [0 .. N -> S] : Walked(g, m.next, p, N)
    BY <1>2, <1>3, WalkExists
  <1>5. PICK x \in 0 .. N, y \in 0 .. N : x # y /\ g[x] = g[y]
    <2>1. 0 \in Int /\ N \in Int
      BY <1>2
    <2>2. Cardinality(0 .. N) = (IF 0 > N THEN 0 ELSE N - 0 + 1) /\ IsFiniteSet(0 .. N)
      BY <2>1, FS_Interval
    <2>3. N < Cardinality(0 .. N) /\ IsFiniteSet(0 .. N)
      BY <1>2, <2>2
    <2>4. g \in [0 .. N -> Node]
      BY <1>3
    <2>5. PICK I : I = 0 .. N
      OBVIOUS
    <2>6. /\ IsFiniteSet(I) /\ IsFiniteSet(Node) /\ Cardinality(Node) < Cardinality(I)
          /\ g \in [I -> Node]
      BY <1>1, <2>3, <2>4, <2>5, NodeAssumption
    <2>7. \E x, y \in I : x # y /\ g[x] = g[y]
      BY <2>6, FS_PigeonHole
    <2> QED BY <2>5, <2>7
  <1>6. PICK R \in SUBSET Nat : R = {k \in 1 .. N : g[k] = p}
    <2>1. {k \in 1 .. N : g[k] = p} \in SUBSET Nat
      BY <1>2
    <2> QED BY <2>1
  <1>7. R # {}
    <2>1. CASE x < y
      <3>1. g[y - x] = p
        BY <1>2, <1>4, <1>5, <2>1, Repeats
      <3>2. y - x \in 1 .. N
        BY <1>2, <2>1
      <3> QED BY <1>6, <3>1, <3>2
    <2>2. CASE y < x
      <3>1. g[x - y] = p
        BY <1>2, <1>4, <1>5, <2>2, Repeats
      <3>2. x - y \in 1 .. N
        BY <1>2, <2>2
      <3> QED BY <1>6, <3>1, <3>2
    <2> QED BY <1>2, <1>5, <2>1, <2>2
  <1>8. PICK r \in R : \A k \in R : r <= k
    BY <1>7, LeastOf
  <1>9. r \in Nat /\ r \in 1 .. N /\ g[r] = p /\ g[0] = p
    BY <1>2, <1>4, <1>6, <1>8 DEF Walked
  <1>10. PICK s : s = [k \in 1 .. r |-> g[k - 1]]
    OBVIOUS
  <1>11. \A k \in 1 .. r : k - 1 \in 0 .. N /\ g[k - 1] \in S
    BY <1>2, <1>4, <1>9
  <1>12. s \in Seq(S) /\ Len(s) = r /\ s # << >>
    <2>1. s \in [1 .. r -> S]
      BY <1>10, <1>11
    <2> QED BY <1>9, <2>1
  <1>13. \A k \in 1 .. r : s[k] = g[k - 1]
    BY <1>10
  <1>14. s[1] = p
    <2>1. 1 \in 1 .. r /\ 1 - 1 = 0
      BY <1>9
    <2> QED BY <1>9, <1>13, <2>1
  <1>15. s \in Seq(Node)
    BY <1>3, <1>12
  <1>16. \A i, j \in 1 .. r : i < j => s[i] # s[j]
    <2> SUFFICES ASSUME NEW i \in 1 .. r, NEW j \in 1 .. r, i < j, s[i] = s[j]
                 PROVE  FALSE
      OBVIOUS
    <2>1. PICK a, b : a = i - 1 /\ b = j - 1
      OBVIOUS
    <2>2. a \in 0 .. N /\ b \in 0 .. N /\ a < b /\ b - a \in 1 .. N /\ b - a < r
      BY <1>2, <1>9, <2>1
    <2>3. g[a] = g[b]
      BY <1>13, <2>1
    <2>4. g[b - a] = p
      BY <1>2, <1>4, <2>2, <2>3, Repeats
    <2>5. b - a \in R
      BY <1>6, <2>2, <2>4
    <2>6. r <= b - a
      BY <1>8, <2>5
    <2> QED BY <1>9, <2>2, <2>6
  <1>17. \A i, j \in 1 .. r : s[i] = s[j] => i = j
    BY <1>9, <1>16
  <1>18. \A k \in 1 .. N : g[k] = m.next[g[k - 1]]
    BY <1>4 DEF Walked
  <1>19. \A k \in 1 .. r - 1 : m.next[s[k]] = s[k + 1]
    <2> SUFFICES ASSUME NEW k \in 1 .. r - 1
                 PROVE  m.next[s[k]] = s[k + 1]
      OBVIOUS
    <2>1. k \in 1 .. N /\ k \in 1 .. r /\ k + 1 \in 1 .. r /\ k + 1 - 1 = k
      BY <1>2, <1>9
    <2> QED BY <1>13, <1>18, <2>1
  <1>20. m.next[s[r]] = s[1]
    <2>1. r \in 1 .. r
      BY <1>9
    <2> QED BY <1>9, <1>13, <1>14, <1>18, <2>1
  <1> QED BY <1>12, <1>14, <1>15, <1>17, <1>19, <1>20 DEF Cycle

-----------------------------------------------------------------------------
(* Cut, Link and MoveNode                                                  *)

\* p has been taken from its ring: what was around it is closed, and so is p.
LEMMA CutCloses ==
  ASSUME NEW D, NEW m \in Memories(D), NEW S, Closed(m, S), NEW p \in S,
         NEW c, c = Cut(m, m.prev[p], p, m.next[p])
  PROVE  /\ c \in Memories(D) /\ c.data = m.data
         /\ Closed(c, S) /\ c.next[p] = p /\ c.prev[p] = p
  <1>1. S \subseteq Node /\ m.prev[p] \in S /\ m.next[p] \in S
    BY DEF Closed
  <1>2. PICK pre, post : pre = m.prev[p] /\ post = m.next[p]
    OBVIOUS
  <1>3. m.next \in [Node -> Node \cup {NIL}] /\ m.prev \in [Node -> Node \cup {NIL}]
    BY DEF Memories
  <1>4. PICK a : a = [m.next EXCEPT ![pre] = post, ![p] = p]
    OBVIOUS
  <1>5. PICK b : b = [m.prev EXCEPT ![post] = pre, ![p] = p]
    OBVIOUS
  <1>6. a \in [Node -> Node \cup {NIL}] /\ b \in [Node -> Node \cup {NIL}]
    BY <1>1, <1>2, <1>3, <1>4, <1>5
  <1>7. c = [m EXCEPT !.next = a, !.prev = b]
    BY <1>2, <1>4, <1>5 DEF Cut
  <1>8. c.next = a /\ c.prev = b /\ c.data = m.data /\ c \in Memories(D)
    BY <1>6, <1>7 DEF Memories
  <1>9. \A n \in S : a[n] = IF n = p THEN p ELSE IF n = pre THEN post ELSE m.next[n]
    BY <1>1, <1>3, <1>4
  <1>10. \A n \in S : b[n] = IF n = p THEN p ELSE IF n = post THEN pre ELSE m.prev[n]
    BY <1>1, <1>3, <1>5
  <1>11. Closed(c, S)
    <2>1. \A n \in S : a[n] \in S /\ b[n] \in S
      BY <1>1, <1>2, <1>9, <1>10 DEF Closed
    <2>2. ASSUME NEW n \in S
          PROVE  b[a[n]] = n
      <3>1. CASE n = p
        BY <1>9, <1>10, <3>1
      <3>2. CASE n # p /\ n = pre
        <4>1. a[n] = post /\ post # p
          BY <1>1, <1>2, <1>9, <3>2 DEF Closed
        <4> QED BY <1>1, <1>2, <1>10, <3>2, <4>1
      <3>3. CASE n # p /\ n # pre
        <4>1. a[n] = m.next[n] /\ m.next[n] \in S /\ m.prev[m.next[n]] = n
          BY <1>9, <3>3 DEF Closed
        <4>2. m.next[n] # p /\ m.next[n] # post
          BY <1>2, <3>3, <4>1 DEF Closed
        <4> QED BY <1>10, <4>1, <4>2
      <3> QED BY <3>1, <3>2, <3>3
    <2>3. ASSUME NEW n \in S
          PROVE  a[b[n]] = n
      <3>1. CASE n = p
        BY <1>9, <1>10, <3>1
      <3>2. CASE n # p /\ n = post
        <4>1. b[n] = pre /\ pre # p
          BY <1>1, <1>2, <1>10, <3>2 DEF Closed
        <4> QED BY <1>1, <1>2, <1>9, <3>2, <4>1
      <3>3. CASE n # p /\ n # post
        <4>1. b[n] = m.prev[n] /\ m.prev[n] \in S /\ m.next[m.prev[n]] = n
          BY <1>10, <3>3 DEF Closed
        <4>2. m.prev[n] # p /\ m.prev[n] # pre
          BY <1>2, <3>3, <4>1 DEF Closed
        <4> QED BY <1>9, <4>1, <4>2
      <3> QED BY <3>1, <3>2, <3>3
    <2> QED BY <1>1, <1>8, <2>1, <2>2, <2>3 DEF Closed
  <1> QED BY <1>8, <1>9, <1>10, <1>11

Headers == [head : Node \cup {NIL}, tail : Node \cup {NIL}, count : Int]

\* A node that stands alone is hung behind the head of a list.
LEMMA LinkCloses ==
  ASSUME NEW D, NEW m \in Memories(D), NEW S, Closed(m, S),
         NEW n \in S, m.next[n] = n, m.prev[n] = n,
         NEW l \in Headers, l.head \in S \cup {NIL}, NEW r, r = Link(m, l, n)
  PROVE  /\ r.m \in Memories(D) /\ r.m.data = m.data /\ Closed(r.m, S)
         /\ r.l \in Headers /\ r.l.head \in S
         /\ r.l.head = IF l.head = NIL THEN n ELSE l.head
         /\ l.head # NIL => r.l.tail = IF m.next[l.head] = l.head THEN n ELSE l.tail
         /\ l.head # NIL => r.m.next[l.head] = n
         /\ \A x \in Node \ {n, l.head} : r.m.next[x] = m.next[x]
  <1>0. S \subseteq Node
    BY DEF Closed
  <1>1. CASE l.head = NIL
    <2>1. r = [m |-> m, l |-> [head |-> n, tail |-> n, count |-> l.count + 1]]
      BY <1>1 DEF Link
    <2>2. r.m = m /\ r.l = [head |-> n, tail |-> n, count |-> l.count + 1]
      BY <2>1
    <2> QED BY <1>0, <1>1, <2>2 DEF Headers
  <1>2. CASE l.head # NIL
    <2>1. PICK h, s : h = l.head /\ s = m.next[h]
      OBVIOUS
    <2>2. h \in S /\ s \in S
      BY <1>2, <2>1 DEF Closed
    <2>3. m.next \in [Node -> Node \cup {NIL}] /\ m.prev \in [Node -> Node \cup {NIL}]
      BY DEF Memories
    <2>4. PICK a : a = [m.next EXCEPT ![n] = s, ![h] = n]
      OBVIOUS
    <2>5. PICK b : b = [m.prev EXCEPT ![s] = n, ![n] = h]
      OBVIOUS
    <2>6. a \in [Node -> Node \cup {NIL}] /\ b \in [Node -> Node \cup {NIL}]
      BY <1>0, <2>2, <2>3, <2>4, <2>5
    <2>7. r = [m |-> [m EXCEPT !.next = a, !.prev = b],
               l |-> [l EXCEPT !.tail = IF s = h THEN n ELSE @, !.count = @ + 1]]
      BY <1>2, <2>1, <2>4, <2>5 DEF Link
    <2>8. r.m = [m EXCEPT !.next = a, !.prev = b]
          /\ r.l = [l EXCEPT !.tail = IF s = h THEN n ELSE @, !.count = @ + 1]
      BY <2>7
    <2>9. r.m.next = a /\ r.m.prev = b /\ r.m.data = m.data /\ r.m \in Memories(D)
      BY <2>6, <2>8 DEF Memories
    <2>10. /\ r.l \in Headers /\ r.l.head = h
           /\ r.l.tail = IF s = h THEN n ELSE l.tail
      <3>1. PICK t : t = IF s = h THEN n ELSE l.tail
        OBVIOUS
      <3>2. PICK l1 : l1 = [l EXCEPT !.tail = t]
        OBVIOUS
      <3>3. l1 \in Headers /\ l1.head = h /\ l1.tail = t /\ l1.count = l.count
        BY <1>0, <2>1, <3>1, <3>2 DEF Headers
      <3>4. r.l = [l1 EXCEPT !.count = @ + 1]
        BY <2>8, <3>1, <3>2
      <3> QED BY <3>1, <3>3, <3>4 DEF Headers
    <2>11. \A x \in S : a[x] = IF x = h THEN n ELSE IF x = n THEN s ELSE m.next[x]
      BY <1>0, <2>2, <2>3, <2>4
    <2>12. \A x \in S : b[x] = IF x = n THEN h ELSE IF x = s THEN n ELSE m.prev[x]
      BY <1>0, <2>2, <2>3, <2>5
    <2>13. Closed(r.m, S)
      <3>1. \A x \in S : a[x] \in S /\ b[x] \in S
        BY <2>2, <2>11, <2>12 DEF Closed
      <3>2. ASSUME NEW x \in S
            PROVE  b[a[x]] = x
        <4>1. CASE x = h
          BY <2>11, <2>12, <4>1
        <4>2. CASE x # h /\ x = n
          <5>1. a[x] = s /\ s # n
            BY <2>1, <2>2, <2>11, <4>2 DEF Closed
          <5> QED BY <2>2, <2>12, <4>2, <5>1
        <4>3. CASE x # h /\ x # n
          <5>1. a[x] = m.next[x] /\ m.next[x] \in S /\ m.prev[m.next[x]] = x
            BY <2>11, <4>3 DEF Closed
          <5>2. m.next[x] # n /\ m.next[x] # s
            BY <2>1, <2>2, <4>3, <5>1 DEF Closed
          <5> QED BY <2>12, <5>1, <5>2
        <4> QED BY <4>1, <4>2, <4>3
      <3>3. ASSUME NEW x \in S
            PROVE  a[b[x]] = x
        <4>1. CASE x = n
          BY <2>2, <2>11, <2>12, <4>1
        <4>2. CASE x # n /\ x = s
          <5>1. b[x] = n /\ n # h
            BY <2>1, <2>12, <4>2 DEF Closed
          <5> QED BY <2>11, <4>2, <5>1
        <4>3. CASE x # n /\ x # s
          <5>1. b[x] = m.prev[x] /\ m.prev[x] \in S /\ m.next[m.prev[x]] = x
            BY <2>12, <4>3 DEF Closed
          <5>2. m.prev[x] # n /\ m.prev[x] # h
            BY <2>1, <4>3, <5>1
          <5> QED BY <2>11, <5>1, <5>2
        <4> QED BY <4>1, <4>2, <4>3
      <3> QED BY <1>0, <2>9, <3>1, <3>2, <3>3 DEF Closed
    <2>14. a[h] = n /\ \A x \in Node \ {n, h} : a[x] = m.next[x]
      BY <1>0, <2>2, <2>3, <2>4
    <2>15. /\ r.l.head = l.head /\ r.l.head \in S
           /\ r.l.tail = IF m.next[l.head] = l.head THEN n ELSE l.tail
      BY <2>1, <2>2, <2>10
    <2>16. r.m.next[l.head] = n /\ \A x \in Node \ {n, l.head} : r.m.next[x] = m.next[x]
      BY <2>1, <2>9, <2>14
    <2> QED BY <1>2, <2>9, <2>10, <2>13, <2>15, <2>16
  <1> QED BY <1>1, <1>2

\* r is what is left when p goes from the ring of one list to that of another.
Moved(m, from, to, p, r) ==
  r = [m    |-> Link(Cut(m, m.prev[p], p, m.next[p]), to, p).m,
       from |-> [from EXCEPT !.head = IF p = @ THEN m.next[p] ELSE @, !.count = @ - 1],
       to   |-> Link(Cut(m, m.prev[p], p, m.next[p]), to, p).l]

\* The node link_list_move_node takes from the ring of "from" is one that
\* holds x, and it is cut out from between its neighbours.
LEMMA MoveNodeMoves ==
  ASSUME NEW D, NEW m \in Memories(D), NEW S, Closed(m, S),
         NEW from \in Headers, from.head \in S \cup {NIL}, NEW to, NEW x,
         NEW r, r = MoveNode(m, from, to, x)
  PROVE  \/ r = [m |-> m, from |-> from, to |-> to]
         \/ \E p \in S : m.data[p] = x /\ Moved(m, from, to, p, r)
  <1>1. CASE Holders(m, from, x) = {}
    BY <1>1 DEF MoveNode
  <1>2. CASE Holders(m, from, x) # {}
    <2>1. from.head \in S
      <3>1. CASE from.head = NIL
        <4>1. Ring(m, from) = << >>
          BY <3>1 DEF Ring
        <4> QED BY <1>2, <4>1 DEF Holders
      <3> QED BY <3>1
    <2>2. PICK s \in Seq(S) : Cycle(m.next, s) /\ s[1] = from.head
      BY <2>1, RingCloses
    <2>3. Ring(m, from) = s
      BY <2>2, RingIs
    <2>4. Len(s) \in Nat /\ Len(s) # 0
      BY <2>2 DEF Cycle
    <2>5. Holders(m, from, x) = {k \in 1 .. Len(s) : m.data[s[k]] = x}
      BY <2>3, <2>4 DEF Holders
    <2>6. PICK k : k = StepsTo(m, from, x)
      OBVIOUS
    <2>7. k \in Holders(m, from, x)
      <3>1. Holders(m, from, x) \subseteq Nat
        BY <2>4, <2>5
      <3>2. \E i \in Holders(m, from, x) : \A j \in Holders(m, from, x) : i <= j
        BY <1>2, <3>1, LeastOf
      <3> QED BY <2>6, <3>2 DEF StepsTo
    <2>8. k \in 1 .. Len(s) /\ m.data[s[k]] = x /\ s[k] \in S
      BY <2>2, <2>5, <2>7
    <2>9. PICK p : p = s[k]
      OBVIOUS
    <2>10. PICK pre : pre = IF p = from.head THEN m.prev[p] ELSE Ring(m, from)[k - 1]
      OBVIOUS
    <2>11. pre = m.prev[p]
      <3>1. CASE p = from.head
        BY <2>10, <3>1
      <3>2. CASE p # from.head
        <4>1. k # 1
          BY <2>2, <2>9, <3>2
        <4>2. k - 1 \in 1 .. Len(s) - 1 /\ k - 1 \in 1 .. Len(s) /\ k - 1 + 1 = k
          BY <2>4, <2>8, <4>1
        <4>3. m.next[s[k - 1]] = s[k] /\ s[k - 1] \in S
          BY <2>2, <4>2 DEF Cycle
        <4>4. m.prev[m.next[s[k - 1]]] = s[k - 1]
          BY <4>3 DEF Closed
        <4> QED BY <2>3, <2>9, <2>10, <3>2, <4>3, <4>4
      <3> QED BY <3>1, <3>2
    <2>12. r = [m    |-> Link(Cut(m, pre, p, m.next[p]), to, p).m,
                from |-> [from EXCEPT !.head = IF p = @ THEN m.next[p] ELSE @, !.count = @ - 1],
                to   |-> Link(Cut(m, pre, p, m.next[p]), to, p).l]
      BY <1>2, <2>3, <2>6, <2>9, <2>10 DEF MoveNode
    <2>13. p \in S /\ m.data[p] = x
      BY <2>8, <2>9
    <2>14. Moved(m, from, to, p, r)
      BY <2>11, <2>12 DEF Moved
    <2> QED BY <2>13, <2>14
  <1> QED BY <1>1, <1>2

-----------------------------------------------------------------------------
(* The invariant.                                                          *)

E1 == Order[1]
E2 == Order[2]

\* Each node is its own event.
Carries(m) == m.data = [n \in Node |-> n]

Inv ==
  /\ mem \in Memories(Node) /\ Closed(mem, Node) /\ Carries(mem)
  /\ free \in Headers /\ used \in Headers
  /\ free.head = E1 /\ free.tail = E2
  /\ held \in [Threads -> {NIL, E2}]

LEMMA OrderIs ==
  /\ E1 \in Node /\ E2 \in Node /\ E1 # E2 /\ E1 # NIL /\ E2 # NIL
  /\ Len(Order) \in Nat /\ 2 <= Len(Order)
  /\ \A k \in 1 .. Len(Order) : Order[k] \in Node
  <1>1. Order \in Seq(Node) /\ Len(Order) >= 2
    BY PoolAssumption
  <1>2. Len(Order) \in Nat /\ 1 \in 1 .. Len(Order) /\ 2 \in 1 .. Len(Order)
    BY <1>1
  <1>3. \A k \in 1 .. Len(Order) : Order[k] \in Node
    BY <1>1
  <1>4. Order[1] # Order[2]
    BY <1>2, PoolAssumption
  <1> QED BY <1>1, <1>2, <1>3, <1>4, NodeAssumption DEF E1, E2

-----------------------------------------------------------------------------
(* pool_create                                                             *)

\* What the pool is after k nodes have been added.
Filled(x, k) ==
  /\ x.m \in Memories(Node) /\ Closed(x.m, Node) /\ Carries(x.m)
  /\ x.l \in Headers
  /\ \A j \in k + 1 .. Len(Order) : x.m.next[Order[j]] = Order[j]
  /\ k = 0 => x.l.head = NIL
  /\ k >= 1 => x.l.head = E1 /\ x.m.next[E1] = Order[k]
  /\ k >= 2 => x.l.tail = E2

LEMMA AddKeepsFilled ==
  ASSUME NEW k \in Nat, k + 1 <= Len(Order), NEW x, Filled(x, k),
         NEW y, y = AddNode(x.m, x.l, Order[k + 1], Order[k + 1])
  PROVE  Filled(y, k + 1)
  <1>1. PICK n : n = Order[k + 1]
    OBVIOUS
  <1>2. k + 1 \in 1 .. Len(Order) /\ k + 1 \in k + 1 .. Len(Order) /\ n \in Node
    BY <1>1, OrderIs
  <1>3. /\ x.m \in Memories(Node) /\ Closed(x.m, Node) /\ Carries(x.m)
        /\ x.m.next[n] = n /\ x.l \in Headers
    BY <1>1, <1>2 DEF Filled
  <1>4. x.m.prev[n] = n
    BY <1>2, <1>3 DEF Closed
  <1>5. [x.m EXCEPT !.next[n] = n, !.prev[n] = n, !.data[n] = n] = x.m
    <2>1. x.m = [next |-> x.m.next, prev |-> x.m.prev, data |-> x.m.data]
          /\ x.m.next \in [Node -> Node \cup {NIL}] /\ x.m.prev \in [Node -> Node \cup {NIL}]
          /\ x.m.data \in [Node -> Node]
      BY <1>3 DEF Memories
    <2>2. x.m.data[n] = n
      BY <1>2, <1>3 DEF Carries
    <2>3. [x.m EXCEPT !.next[n] = n] = x.m
      BY <1>2, <1>3, <2>1
    <2>4. [x.m EXCEPT !.prev[n] = n] = x.m
      BY <1>2, <1>4, <2>1
    <2>5. [x.m EXCEPT !.data[n] = n] = x.m
      BY <1>2, <2>1, <2>2
    <2> QED BY <2>3, <2>4, <2>5
  <1>6. y = Link(x.m, x.l, n)
    BY <1>1, <1>5 DEF AddNode
  <1>7. x.l.head \in Node \cup {NIL}
    BY <1>3 DEF Headers
  <1>8. /\ y.m \in Memories(Node) /\ y.m.data = x.m.data /\ Closed(y.m, Node)
        /\ y.l \in Headers
        /\ y.l.head = IF x.l.head = NIL THEN n ELSE x.l.head
        /\ x.l.head # NIL => y.l.tail = IF x.m.next[x.l.head] = x.l.head THEN n ELSE x.l.tail
        /\ x.l.head # NIL => y.m.next[x.l.head] = n
        /\ \A z \in Node \ {n, x.l.head} : y.m.next[z] = x.m.next[z]
    BY <1>2, <1>3, <1>4, <1>6, <1>7, LinkCloses
  <1>9. Carries(y.m)
    BY <1>3, <1>8 DEF Carries
  <1>10. \A i, j \in 1 .. Len(Order) : Order[i] = Order[j] => i = j
    BY PoolAssumption
  <1>11. CASE k = 0
    <2>1. x.l.head = NIL /\ n = E1
      BY <1>1, <1>11 DEF Filled, E1
    <2>2. y.m = x.m
      BY <1>6, <2>1 DEF Link
    <2>3. \A j \in k + 1 + 1 .. Len(Order) : y.m.next[Order[j]] = Order[j]
      BY <1>11, <2>2 DEF Filled
    <2>4. y.l.head = E1 /\ y.m.next[E1] = Order[k + 1]
      BY <1>1, <1>3, <1>8, <2>1, <2>2
    <2>5. y.m \in Memories(Node) /\ Closed(y.m, Node) /\ y.l \in Headers
      BY <1>8
    <2>6. k + 1 = 1
      BY <1>11
    <2>7. (\A j \in 1 + 1 .. Len(Order) : y.m.next[Order[j]] = Order[j]) /\ y.m.next[E1] = Order[1]
      BY <2>3, <2>4, <2>6
    <2>8. Filled(y, 1)
      BY <1>9, <2>4, <2>5, <2>7 DEF Filled
    <2> QED BY <2>6, <2>8
  <1>12. CASE k >= 1
    <2>1. x.l.head = E1 /\ x.m.next[E1] = Order[k] /\ E1 # NIL /\ E1 \in Node
      BY <1>12, OrderIs DEF Filled
    <2>2. y.l.head = E1 /\ y.m.next[E1] = n
      BY <1>8, <2>1
    <2>3. \A j \in k + 1 + 1 .. Len(Order) : y.m.next[Order[j]] = Order[j]
      <3> SUFFICES ASSUME NEW j \in k + 1 + 1 .. Len(Order)
                   PROVE  y.m.next[Order[j]] = Order[j]
        OBVIOUS
      <3>1. j \in k + 1 .. Len(Order) /\ j \in 1 .. Len(Order) /\ 1 \in 1 .. Len(Order) /\ j # 1 /\ j # k + 1
        BY <1>12, OrderIs
      <3>2. Order[j] # n /\ Order[j] # E1 /\ Order[j] \in Node
        BY <1>1, <1>2, <1>10, <3>1, OrderIs DEF E1
      <3>3. x.m.next[Order[j]] = Order[j]
        BY <3>1 DEF Filled
      <3> QED BY <1>8, <2>1, <3>2, <3>3
    <2>4. y.l.tail = E2
      <3>1. CASE k = 1
        <4>1. n = E2 /\ x.m.next[E1] = E1
          BY <1>1, <2>1, <3>1 DEF E1, E2
        <4> QED BY <1>8, <2>1, <4>1
      <3>2. CASE k >= 2
        <4>1. x.l.tail = E2
          BY <3>2 DEF Filled
        <4>2. k \in 1 .. Len(Order) /\ 1 \in 1 .. Len(Order) /\ k # 1
          BY <3>2, OrderIs
        <4>3. Order[k] # E1
          BY <1>10, <4>2 DEF E1
        <4> QED BY <1>8, <2>1, <4>1, <4>3
      <3> QED BY <1>12, <3>1, <3>2
    <2>5. y.m.next[E1] = Order[k + 1]
      BY <1>1, <2>2
    <2>6. y.m \in Memories(Node) /\ Closed(y.m, Node) /\ y.l \in Headers
      BY <1>8
    <2>7. k + 1 # 0
      BY <1>12
    <2> QED BY <1>9, <2>2, <2>3, <2>4, <2>5, <2>6, <2>7 DEF Filled
  <1> QED BY <1>11, <1>12

LEMMA CreatedIs == Filled(Created, Len(Order))
  <1> DEFINE blank == [next |-> [n \in Node |-> n], prev |-> [n \in Node |-> n],
                       data |-> [n \in Node |-> n]]
             zero == [m |-> blank, l |-> EmptyHeader]
             Next1(x, k) == AddNode(x.m, x.l, Order[k], Order[k])
             Fills(f, n) == \A k \in 0 .. n : f[k] = IF k = 0 THEN zero ELSE Next1(f[k - 1], k)
  <1>1. PICK N : N = Len(Order)
    OBVIOUS
  <1>2. N \in Nat
    BY <1>1, OrderIs
  <1>3. Filled(zero, 0)
    <2>1. blank \in Memories(Node) /\ Closed(blank, Node) /\ Carries(blank)
      BY DEF Memories, Closed, Carries
    <2>2. EmptyHeader \in Headers /\ EmptyHeader.head = NIL
      BY DEF Headers, EmptyHeader
    <2>3. \A j \in 0 + 1 .. Len(Order) : blank.next[Order[j]] = Order[j]
      BY OrderIs
    <2>4. zero.m = blank /\ zero.l = EmptyHeader
      OBVIOUS
    <2> HIDE DEF zero, blank
    <2> QED BY <2>1, <2>2, <2>3, <2>4 DEF Filled
  <1> HIDE DEF zero
  <1>4. \A n \in Nat : \E f : Fills(f, n)
    <2>1. PICK I \in SUBSET Nat : I = {n \in Nat : \E f : Fills(f, n)}
      OBVIOUS
    <2>2. 0 \in I
      <3>1. PICK f : f = [k \in 0 .. 0 |-> zero]
        OBVIOUS
      <3>2. Fills(f, 0)
        BY <3>1
      <3> QED BY <2>1, <3>2
    <2>3. ASSUME NEW n \in Nat, n \in I
          PROVE  n + 1 \in I
      <3>1. PICK f : Fills(f, n)
        BY <2>1, <2>3
      <3>2. PICK h : h = [k \in 0 .. n + 1 |-> IF k <= n THEN f[k] ELSE Next1(f[n], n + 1)]
        OBVIOUS
      <3> HIDE DEF Next1
      <3>3. Fills(h, n + 1)
        BY <3>1, <3>2
      <3> QED BY <2>1, <3>3
    <2> QED BY <2>1, <2>2, <2>3, NatSetInduction
  <1>5. PICK f : f = CHOOSE g : g = [k \in 0 .. N |-> IF k = 0 THEN zero ELSE Next1(g[k - 1], k)]
    OBVIOUS
  <1>6. Fills(f, N)
    <2> HIDE DEF Next1
    <2>1. PICK g : Fills(g, N)
      BY <1>2, <1>4
    <2>2. PICK h : h = [k \in 0 .. N |-> g[k]]
      OBVIOUS
    <2>3. \A k \in 0 .. N : g[k] = IF k = 0 THEN zero ELSE Next1(h[k - 1], k)
      BY <1>2, <2>1, <2>2
    <2>4. h = [k \in 0 .. N |-> IF k = 0 THEN zero ELSE Next1(h[k - 1], k)]
      BY <2>2, <2>3
    <2>5. f = [k \in 0 .. N |-> IF k = 0 THEN zero ELSE Next1(f[k - 1], k)]
      BY <1>5, <2>4
    <2> QED BY <2>5
  <1>7. Created = f[N]
    BY <1>1, <1>5 DEF Created, zero
  <1>8. \A k \in 0 .. N : Filled(f[k], k)
    <2>1. PICK I \in SUBSET Nat : I = {k \in Nat : k <= N => Filled(f[k], k)}
      OBVIOUS
    <2>2. 0 \in I
      <3>1. f[0] = zero
        BY <1>2, <1>6
      <3> QED BY <1>3, <2>1, <3>1
    <2>3. ASSUME NEW k \in Nat, k \in I
          PROVE  k + 1 \in I
      <3> SUFFICES ASSUME k + 1 <= N
                   PROVE  Filled(f[k + 1], k + 1)
        BY <2>1
      <3>1. Filled(f[k], k)
        BY <1>2, <2>1, <2>3
      <3>2. k + 1 \in 0 .. N /\ k + 1 # 0 /\ k + 1 - 1 = k
        BY <1>2
      <3>3. f[k + 1] = Next1(f[k], k + 1)
        <4> HIDE DEF Next1
        <4> QED BY <1>6, <3>2
      <3> QED BY <1>1, <3>1, <3>3, AddKeepsFilled
    <2>4. Nat \subseteq I
      BY <2>2, <2>3, NatSetInduction
    <2> QED BY <1>2, <2>1, <2>4
  <1>9. N \in 0 .. N
    BY <1>2
  <1> QED BY <1>1, <1>7, <1>8, <1>9

LEMMA InitInv ==
  ASSUME Init
  PROVE  Inv
  <1>1. mem = Created.m /\ free = Created.l /\ used = EmptyHeader /\ held = [t \in Threads |-> NIL]
    BY DEF Init
  <1>2. Len(Order) >= 1 /\ Len(Order) >= 2
    BY OrderIs
  <1>3. /\ mem \in Memories(Node) /\ Closed(mem, Node) /\ Carries(mem)
        /\ free \in Headers /\ free.head = E1 /\ free.tail = E2
    BY <1>1, <1>2, CreatedIs DEF Filled
  <1>4. used \in Headers
    BY <1>1 DEF EmptyHeader, Headers
  <1> QED BY <1>1, <1>3, <1>4 DEF Inv

-----------------------------------------------------------------------------
(* pool_get_data and pool_return_data                                      *)

\* Moving the offered event from one list to the other leaves both lists and
\* the memory as well formed as they were.
LEMMA MoveKeeps ==
  ASSUME NEW m \in Memories(Node), Closed(m, Node), Carries(m),
         NEW from \in Headers, NEW to \in Headers,
         NEW r, r = MoveNode(m, from, to, E2)
  PROVE  /\ r.m \in Memories(Node) /\ Closed(r.m, Node) /\ Carries(r.m)
         /\ r.from \in Headers /\ r.to \in Headers
         /\ from.head = E1 => r.from.head = E1 /\ r.from.tail = from.tail
         /\ to.head = E1 /\ to.tail = E2 => r.to.head = E1 /\ r.to.tail = E2
  <1>1. from.head \in Node \cup {NIL} /\ to.head \in Node \cup {NIL}
    BY DEF Headers
  <1>2. CASE r = [m |-> m, from |-> from, to |-> to]
    <2>1. r.m = m /\ r.from = from /\ r.to = to
      BY <1>2
    <2> QED BY <2>1
  <1>3. CASE \E p \in Node : m.data[p] = E2 /\ Moved(m, from, to, p, r)
    <2>1. PICK p \in Node : m.data[p] = E2 /\ Moved(m, from, to, p, r)
      BY <1>3
    <2>2. p = E2 /\ p # E1
      BY <2>1, OrderIs DEF Carries
    <2>3. PICK c : c = Cut(m, m.prev[p], p, m.next[p])
      OBVIOUS
    <2>4. /\ c \in Memories(Node) /\ c.data = m.data
          /\ Closed(c, Node) /\ c.next[p] = p /\ c.prev[p] = p
      BY <2>3, CutCloses
    <2>5. PICK put : put = Link(c, to, p)
      OBVIOUS
    <2>6. /\ put.m \in Memories(Node) /\ put.m.data = c.data /\ Closed(put.m, Node)
          /\ put.l \in Headers
          /\ put.l.head = IF to.head = NIL THEN p ELSE to.head
          /\ to.head # NIL => put.l.tail = IF c.next[to.head] = to.head THEN p ELSE to.tail
      BY <1>1, <2>4, <2>5, LinkCloses
    <2>7. /\ r.m = put.m /\ r.to = put.l
          /\ r.from = [from EXCEPT !.head = IF p = @ THEN m.next[p] ELSE @, !.count = @ - 1]
      BY <2>1, <2>3, <2>5 DEF Moved
    <2>8. Carries(r.m)
      BY <2>4, <2>6, <2>7 DEF Carries
    <2>9. r.from \in Headers /\ (from.head = E1 => r.from.head = E1 /\ r.from.tail = from.tail)
      <3>1. PICK h : h = IF p = from.head THEN m.next[p] ELSE from.head
        OBVIOUS
      <3>2. h \in Node \cup {NIL} /\ (from.head = E1 => h = E1)
        BY <1>1, <2>2, <3>1 DEF Closed
      <3>3. PICK l1 : l1 = [from EXCEPT !.head = h]
        OBVIOUS
      <3>4. l1 \in Headers /\ l1.head = h /\ l1.tail = from.tail
        BY <3>2, <3>3 DEF Headers
      <3>5. r.from = [l1 EXCEPT !.count = @ - 1]
        BY <2>7, <3>1, <3>3
      <3>6. r.from \in Headers /\ r.from.head = h /\ r.from.tail = from.tail
        BY <3>4, <3>5 DEF Headers
      <3> QED BY <3>2, <3>6
    <2>10. to.head = E1 /\ to.tail = E2 => r.to.head = E1 /\ r.to.tail = E2
      BY <2>2, <2>6, <2>7, OrderIs
    <2> QED BY <2>6, <2>7, <2>8, <2>9, <2>10
  <1>4. \/ r = [m |-> m, from |-> from, to |-> to]
        \/ \E p \in Node : m.data[p] = E2 /\ Moved(m, from, to, p, r)
    BY <1>1, MoveNodeMoves
  <1> QED BY <1>2, <1>3, <1>4

LEMMA NextInv ==
  ASSUME Inv, [Next]_vars
  PROVE  Inv'
  <1>1. ASSUME NEW t \in Threads, GetData(t)
        PROVE  Inv'
    <2>1. PICK r : r = MoveNode(mem, free, used, E2)
      OBVIOUS
    <2>2. mem' = r.m /\ free' = r.from /\ used' = r.to /\ held' = [held EXCEPT ![t] = E2]
      BY <1>1, <2>1 DEF GetData, Offered, Inv
    <2>3. /\ r.m \in Memories(Node) /\ Closed(r.m, Node) /\ Carries(r.m)
          /\ r.from \in Headers /\ r.to \in Headers
          /\ r.from.head = E1 /\ r.from.tail = free.tail
      BY <2>1, MoveKeeps DEF Inv
    <2>4. held' \in [Threads -> {NIL, E2}]
      BY <2>2 DEF Inv
    <2> QED BY <2>2, <2>3, <2>4 DEF Inv
  <1>2. ASSUME NEW t \in Threads, ReturnData(t)
        PROVE  Inv'
    <2>1. PICK r : r = MoveNode(mem, used, free, E2)
      OBVIOUS
    <2>2. held[t] = E2
      BY <1>2 DEF ReturnData, Inv
    <2>3. mem' = r.m /\ used' = r.from /\ free' = r.to /\ held' = [held EXCEPT ![t] = NIL]
      BY <1>2, <2>1, <2>2 DEF ReturnData
    <2>4. /\ r.m \in Memories(Node) /\ Closed(r.m, Node) /\ Carries(r.m)
          /\ r.from \in Headers /\ r.to \in Headers
          /\ r.to.head = E1 /\ r.to.tail = E2
      BY <2>1, MoveKeeps DEF Inv
    <2>5. held' \in [Threads -> {NIL, E2}]
      BY <2>3 DEF Inv
    <2> QED BY <2>3, <2>4, <2>5 DEF Inv
  <1>3. CASE UNCHANGED vars
    BY <1>3 DEF vars, Inv
  <1> QED BY <1>1, <1>2, <1>3 DEF Next

\* The inductive invariant of the pool, for any number of structures in any
\* order of addresses.
THEOREM InvHolds == Spec => []Inv
  <1>1. Init => Inv
    BY InitInv
  <1>2. Inv /\ [Next]_vars => Inv'
    BY NextInv
  <1> QED BY <1>1, <1>2, PTL DEF Spec

(* However many threads wait, and in whatever order they take and return   *)
(* events, they all wait on the one event the pool ever offers.            *)
THEOREM EventIsShared == Spec => []OneEventForAll
  <1>1. Inv => OneEventForAll
    BY DEF Inv, OneEventForAll
  <1> QED BY <1>1, InvHolds, PTL

(* The nodes stay closed rings for any number of events: the searches of   *)
(* link_list_move_node, which run under pool->lock, come to an end.        *)
THEOREM RingsAreClosed == Spec => []RingsStayClosed
  <1>1. ASSUME Inv
        PROVE  RingsStayClosed
    <2>1. mem.next \in [Node -> Node] /\ mem.prev \in [Node -> Node] /\ mem.data \in [Node -> Node]
      BY <1>1 DEF Inv, Memories, Closed
    <2>2. mem \in [next : [Node -> Node], prev : [Node -> Node], data : [Node -> Node]]
      BY <1>1, <2>1 DEF Inv, Memories
    <2>3. held \in [Threads -> Node \cup {NIL}]
      BY <1>1, OrderIs DEF Inv
    <2>4. TypeOK
      BY <1>1, <2>2, <2>3 DEF TypeOK, Inv, Headers
    <2> QED BY <1>1, <2>4 DEF RingsStayClosed, Inv, Closed
  <1> QED BY <1>1, InvHolds, PTL

(* The pool always has that event to offer, so that it never creates       *)
(* another one and never makes a thread wait for one.                      *)
THEOREM AlwaysOffers == Spec => []PoolNeverRunsOut
  <1>1. Inv => PoolNeverRunsOut
    BY OrderIs DEF Inv, PoolNeverRunsOut, Offered
  <1> QED BY <1>1, InvHolds, PTL
=============================================================================
