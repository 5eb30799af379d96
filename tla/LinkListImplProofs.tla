------------------------- MODULE LinkListImplProofs -------------------------
(***************************************************************************)
(* The nodes of a link_list_t implement the list its callers see, whatever *)
(* the number of nodes: InvHolds, and on top of it the safety of the ring  *)
(* and the refinement of LinkList.                                         *)
(*                                                                         *)
(* The invariant names the ring: some sequence of nodes is all the list    *)
(* owns, in the order of next from the head, and prev undoes next along    *)
(* it.  Each operation is a lemma that says what it does to that sequence. *)
(***************************************************************************)
EXTENDS LinkListImpl, FiniteSetTheorems, WellFoundedInduction, TLAPS

-----------------------------------------------------------------------------
(* The rings of LinkHeap: Ring is the cycle of nodes from the head.        *)
(*                                                                         *)
(* Walk is defined by recursion, and the library's theorems on recursion   *)
(* and induction take operators; LeastOf and NatSetInduction do the same   *)
(* work with sets.                                                         *)

\* A set of naturals that is not empty has a least member.
LEMMA LeastOf ==
  ASSUME NEW T, T \subseteq Nat, T # {}
  PROVE  \E m \in T : \A k \in T : m <= k
  <1> DEFINE R == OpToRel(<, Nat)
  <1>1. \A x, y \in Nat : x < y => << x, y >> \in R
    BY DEF OpToRel
  <1>2. IsWellFoundedOn(R, Nat)
    BY NatLessThanWellFounded
  <1> HIDE DEF R
  <1>3. PICK m \in T : \A y \in T : ~ (<< y, m >> \in R)
    BY <1>2, WFMin
  <1>4. ASSUME NEW k \in T
        PROVE  m <= k
    <2>1. ~ (k < m)
      BY <1>1, <1>3
    <2>2. k \in Nat /\ m \in Nat
      OBVIOUS
    <2> QED BY <2>1, <2>2
  <1> QED BY <1>3, <1>4

\* A set with 0 and the successors of its members has all naturals.
LEMMA NatSetInduction ==
  ASSUME NEW S, 0 \in S, \A n \in Nat : n \in S => n + 1 \in S
  PROVE  Nat \subseteq S
  <1>1. SUFFICES ASSUME Nat \ S # {}
                 PROVE  FALSE
    OBVIOUS
  <1>2. PICK m \in Nat \ S : \A k \in Nat \ S : m <= k
    BY <1>1, LeastOf
  <1>3. m # 0
    BY <1>2
  <1>4. m - 1 \in Nat /\ m - 1 \in S
    BY <1>2, <1>3
  <1> QED BY <1>2, <1>4

-----------------------------------------------------------------------------
(* Walks                                                                   *)

LEMMA NodesAreFinite == Cardinality(Node) \in Nat
  BY NodeAssumption, FS_CardinalityType

\* g holds the first n steps of a walk along f from p.
Walked(g, f, p, n) == g[0] = p /\ \A k \in 1 .. n : g[k] = f[g[k - 1]]

\* f does not lead out of S.
Inside(f, S) == \A x \in S : f[x] \in S

\* Inside a set that f does not lead out of, a walk along f goes on for ever.
LEMMA WalkExists ==
  ASSUME NEW S, NEW f, Inside(f, S), NEW p \in S, NEW n \in Nat
  PROVE  \E g \in [0 .. n -> S] : Walked(g, f, p, n)
  <1> USE DEF Walked, Inside
  <1> DEFINE Walks(i, g) == g \in [0 .. i -> S] /\ Walked(g, f, p, i)
  <1>1. PICK I \in SUBSET Nat : I = {i \in Nat : \E g : Walks(i, g)}
    OBVIOUS
  <1>2. 0 \in I
    <2>1. PICK g : g = [k \in 0 .. 0 |-> p]
      OBVIOUS
    <2>2. Walks(0, g)
      BY <2>1
    <2> QED BY <1>1, <2>2
  <1>3. ASSUME NEW i \in Nat, i \in I
        PROVE  i + 1 \in I
    <2>1. PICK g : Walks(i, g)
      BY <1>1, <1>3
    <2>2. PICK h : h = [k \in 0 .. i + 1 |-> IF k <= i THEN g[k] ELSE f[g[i]]]
      OBVIOUS
    <2>3. g[i] \in S /\ f[g[i]] \in S
      BY <2>1
    <2>4. h \in [0 .. i + 1 -> S]
      BY <2>1, <2>2, <2>3
    <2>5. h[0] = p
      BY <2>1, <2>2
    <2>6. \A k \in 1 .. i + 1 : h[k] = f[h[k - 1]]
      BY <2>1, <2>2
    <2>7. Walks(i + 1, h)
      BY <2>4, <2>5, <2>6
    <2> QED BY <1>1, <2>7
  <1>4. Nat \subseteq I
    BY <1>2, <1>3, NatSetInduction
  <1> QED BY <1>1, <1>4

\* Two walks from the same place meet the same nodes.
LEMMA WalkIsUnique ==
  ASSUME NEW n \in Nat, NEW f, NEW p, NEW g, NEW h, Walked(g, f, p, n), Walked(h, f, p, n)
  PROVE  \A k \in 0 .. n : g[k] = h[k]
  <1> USE DEF Walked
  <1>1. PICK I \in SUBSET Nat : I = {i \in Nat : i <= n => g[i] = h[i]}
    OBVIOUS
  <1>2. 0 \in I
    BY <1>1
  <1>3. ASSUME NEW i \in Nat, i \in I
        PROVE  i + 1 \in I
    <2> SUFFICES ASSUME i + 1 <= n
                 PROVE  g[i + 1] = h[i + 1]
      BY <1>1
    <2>1. i + 1 \in 1 .. n /\ i + 1 - 1 = i /\ g[i] = h[i]
      BY <1>1, <1>3
    <2> QED BY <2>1
  <1>4. Nat \subseteq I
    BY <1>2, <1>3, NatSetInduction
  <1> QED BY <1>1, <1>4

LEMMA WalkSteps ==
  ASSUME NEW S, NEW f, Inside(f, S), NEW p \in S, NEW N, N = Cardinality(Node)
  PROVE  Walk(f, p) \in [0 .. N -> S] /\ Walked(Walk(f, p), f, p, N)
  <1> DEFINE Solves(w) == w = [k \in 0 .. N |-> IF k = 0 THEN p ELSE f[w[k - 1]]]
  <1>1. N \in Nat
    BY NodesAreFinite
  <1>2. PICK g \in [0 .. N -> S] : Walked(g, f, p, N)
    BY <1>1, WalkExists
  <1>3. \A k \in 0 .. N : g[k] = IF k = 0 THEN p ELSE f[g[k - 1]]
    BY <1>1, <1>2 DEF Walked
  <1>4. Solves(g)
    <2>1. g = [k \in 0 .. N |-> g[k]]
      BY <1>2
    <2> QED BY <1>3, <2>1
  <1>5. PICK w : w = CHOOSE v : Solves(v)
    OBVIOUS
  <1>6. Solves(w)
    BY <1>4, <1>5
  <1>7. Walked(w, f, p, N)
    BY <1>1, <1>6 DEF Walked
  <1>8. \A k \in 0 .. N : w[k] = g[k]
    BY <1>1, <1>2, <1>7, WalkIsUnique
  <1>9. w = [k \in 0 .. N |-> g[k]]
    <2>1. w = [k \in 0 .. N |-> w[k]]
      BY <1>6
    <2> QED BY <1>8, <2>1
  <1>10. w = g
    BY <1>2, <1>9
  <1>11. w = Walk(f, p)
    BY <1>5 DEF Walk
  <1> QED BY <1>1, <1>2, <1>10, <1>11

-----------------------------------------------------------------------------
(* Rings                                                                   *)

\* The nodes of s, in this order, are a ring along next.
Cycle(next, s) ==
  /\ s \in Seq(Node) /\ s # << >>
  /\ \A i, j \in 1 .. Len(s) : s[i] = s[j] => i = j
  /\ \A k \in 1 .. Len(s) - 1 : next[s[k]] = s[k + 1]
  /\ next[s[Len(s)]] = s[1]

LEMMA CycleIsShort ==
  ASSUME NEW next, NEW s, Cycle(next, s)
  PROVE  Len(s) \in 1 .. Cardinality(Node)
  <1>1. s \in Seq(Node) /\ Len(s) \in Nat /\ Len(s) > 0
    BY DEF Cycle
  <1>2. Cardinality(1 .. Len(s)) = Len(s) /\ IsFiniteSet(1 .. Len(s))
    <2>1. 1 \in Int /\ Len(s) \in Int
      BY <1>1
    <2>2. Cardinality(1 .. Len(s)) = (IF 1 > Len(s) THEN 0 ELSE Len(s) - 1 + 1) /\ IsFiniteSet(1 .. Len(s))
      BY <2>1, FS_Interval
    <2> QED BY <1>1, <2>2
  <1>3. CASE Cardinality(Node) < Len(s)
    <2>1. PICK g : g = [i \in 1 .. Len(s) |-> s[i]]
      OBVIOUS
    <2>2. g \in [1 .. Len(s) -> Node]
      BY <1>1, <2>1
    <2>3. \E x, y \in 1 .. Len(s) : x # y /\ g[x] = g[y]
      BY <1>2, <1>3, <2>2, NodeAssumption, FS_PigeonHole
    <2> QED BY <2>1, <2>3 DEF Cycle
  <1> QED BY <1>1, <1>3, NodesAreFinite

\* The walk round a ring meets its nodes one by one, and then the first again.
LEMMA WalkAround ==
  ASSUME NEW next, NEW s, Cycle(next, s)
  PROVE  /\ \A k \in 0 .. Len(s) - 1 : Walk(next, s[1])[k] = s[k + 1]
         /\ Walk(next, s[1])[Len(s)] = s[1]
  <1>1. PICK S : S = {s[k] : k \in 1 .. Len(s)}
    OBVIOUS
  <1>2. PICK N : N = Cardinality(Node)
    OBVIOUS
  <1>3. s \in Seq(Node) /\ Len(s) \in 1 .. N /\ Len(s) \in Nat
    BY <1>2, CycleIsShort DEF Cycle
  <1>4. Inside(next, S)
    <2> SUFFICES ASSUME NEW k \in 1 .. Len(s)
                 PROVE  next[s[k]] \in S
      BY <1>1 DEF Inside
    <2>1. CASE k = Len(s)
      <3>1. next[s[k]] = s[1] /\ 1 \in 1 .. Len(s)
        BY <1>3, <2>1 DEF Cycle
      <3> QED BY <1>1, <3>1
    <2>2. CASE k # Len(s)
      <3>1. next[s[k]] = s[k + 1] /\ k + 1 \in 1 .. Len(s)
        BY <1>3, <2>2 DEF Cycle
      <3> QED BY <1>1, <3>1
    <2> QED BY <2>1, <2>2
  <1>5. s[1] \in S
    <2>1. 1 \in 1 .. Len(s)
      BY <1>3
    <2> QED BY <1>1, <2>1
  <1>6. PICK w : w = Walk(next, s[1])
    OBVIOUS
  <1>7. Walked(w, next, s[1], N) /\ N \in Nat
    BY <1>2, <1>4, <1>5, <1>6, WalkSteps, NodesAreFinite
  <1>8. PICK g : g = [k \in 0 .. Len(s) |-> IF k = Len(s) THEN s[1] ELSE s[k + 1]]
    OBVIOUS
  <1>9. g[0] = s[1]
    BY <1>3, <1>8
  <1>10. \A k \in 1 .. Len(s) : g[k] = next[g[k - 1]]
    <2> SUFFICES ASSUME NEW k \in 1 .. Len(s)
                 PROVE  g[k] = next[g[k - 1]]
      OBVIOUS
    <2>1. k \in Nat /\ k - 1 \in 0 .. Len(s) /\ k - 1 # Len(s) /\ k - 1 + 1 = k
      BY <1>3
    <2>2. g[k - 1] = s[k]
      BY <1>8, <2>1
    <2>3. CASE k = Len(s)
      BY <1>3, <1>8, <2>2, <2>3 DEF Cycle
    <2>4. CASE k # Len(s)
      <3>1. next[s[k]] = s[k + 1]
        BY <1>3, <2>4 DEF Cycle
      <3> QED BY <1>3, <1>8, <2>2, <2>4, <3>1
    <2> QED BY <2>3, <2>4
  <1>11. Walked(w, next, s[1], Len(s)) /\ Walked(g, next, s[1], Len(s))
    BY <1>3, <1>7, <1>9, <1>10 DEF Walked
  <1>12. \A k \in 0 .. Len(s) : w[k] = g[k]
    BY <1>3, <1>11, WalkIsUnique
  <1>13. \A k \in 0 .. Len(s) - 1 : w[k] = s[k + 1]
    BY <1>3, <1>8, <1>12
  <1>14. w[Len(s)] = s[1]
    BY <1>3, <1>8, <1>12
  <1> QED BY <1>6, <1>13, <1>14

\* What the operators of LinkHeap take for the ring of a list is its ring.
LEMMA RingIs ==
  ASSUME NEW m, NEW l, NEW s, Cycle(m.next, s), l.head = s[1]
  PROVE  Ring(m, l) = s
  <1>1. PICK N : N = Cardinality(Node)
    OBVIOUS
  <1>2. s \in Seq(Node) /\ Len(s) \in 1 .. N /\ Len(s) \in Nat /\ N \in Nat
    <2>1. Len(s) \in 1 .. N /\ N \in Nat
      BY <1>1, CycleIsShort, NodesAreFinite
    <2> QED BY <2>1 DEF Cycle
  <1>3. s[1] \in Node
    BY <1>2
  <1>4. l.head # NIL
    BY <1>3, NodeAssumption
  <1>5. PICK w : w = Walk(m.next, l.head)
    OBVIOUS
  <1>6. (\A k \in 0 .. Len(s) - 1 : w[k] = s[k + 1]) /\ w[Len(s)] = s[1]
    BY <1>5, WalkAround
  <1> DEFINE Back(k) == w[k] = l.head /\ \A j \in 1 .. k - 1 : w[j] # l.head
  <1>7. \A j \in 1 .. Len(s) - 1 : w[j] # l.head
    <2> SUFFICES ASSUME NEW j \in 1 .. Len(s) - 1, w[j] = l.head
                 PROVE  FALSE
      OBVIOUS
    <2>1. w[j] = s[j + 1] /\ j + 1 \in 1 .. Len(s) /\ 1 \in 1 .. Len(s) /\ j + 1 # 1
      BY <1>2, <1>6
    <2> QED BY <2>1 DEF Cycle
  <1>8. Back(Len(s))
    BY <1>6, <1>7
  <1>9. \A k \in 1 .. N : Back(k) => k = Len(s)
    <2> SUFFICES ASSUME NEW k \in 1 .. N, Back(k)
                 PROVE  k = Len(s)
      OBVIOUS
    <2>1. ~ (k < Len(s))
      BY <1>2, <1>7
    <2>2. ~ (Len(s) < k)
      BY <1>2, <1>8
    <2> QED BY <1>2, <2>1, <2>2
  <1>10. RingSize(m, l.head) = CHOOSE k \in 1 .. N : Back(k)
    BY <1>1, <1>5 DEF RingSize
  <1> HIDE DEF Back
  <1>11. RingSize(m, l.head) = Len(s)
    BY <1>2, <1>8, <1>9, <1>10
  <1>12. Ring(m, l) = [k \in 1 .. Len(s) |-> w[k - 1]]
    BY <1>4, <1>5, <1>11 DEF Ring
  <1>13. \A k \in 1 .. Len(s) : w[k - 1] = s[k]
    <2> SUFFICES ASSUME NEW k \in 1 .. Len(s)
                 PROVE  w[k - 1] = s[k]
      OBVIOUS
    <2>1. k - 1 \in 0 .. Len(s) - 1 /\ k - 1 + 1 = k
      BY <1>2
    <2> QED BY <1>6, <2>1
  <1>14. s = [k \in 1 .. Len(s) |-> s[k]]
    BY <1>2
  <1>15. Ring(m, l) = [k \in 1 .. Len(s) |-> s[k]]
    BY <1>12, <1>13
  <1> QED BY <1>14, <1>15

Memories(D) ==
  [next : [Node -> Node \cup {NIL}], prev : [Node -> Node \cup {NIL}], data : [Node -> D]]

Headers == [head : Node \cup {NIL}, tail : Node \cup {NIL}, count : Int]

-----------------------------------------------------------------------------
(* The invariant.                                                          *)

\* prev undoes next along s.
Back(prev, s) ==
  /\ \A k \in 1 .. Len(s) - 1 : prev[s[k + 1]] = s[k]
  /\ prev[s[1]] = s[Len(s)]

\* The list of header h owns the nodes a, and s is its ring from the head.
Shape(m, h, a, s) ==
  /\ s \in Seq(Node)
  /\ a = {s[k] : k \in 1 .. Len(s)}
  /\ s = << >> => h.head = NIL /\ h.tail = NIL
  /\ s # << >> => Cycle(m.next, s) /\ Back(m.prev, s) /\ h.head = s[1] /\ h.tail \in a

\* The ring LinkHeap reads is the sequence of the shape.
LEMMA ShapeRing ==
  ASSUME NEW m, NEW h, NEW a, NEW s, Shape(m, h, a, s)
  PROVE  Ring(m, h) = s
  <1>1. CASE s = << >>
    BY <1>1 DEF Shape, Ring
  <1>2. CASE s # << >>
    <2>1. Cycle(m.next, s) /\ h.head = s[1]
      BY <1>2 DEF Shape
    <2> QED BY <2>1, RingIs
  <1> QED BY <1>1, <1>2

\* The elements of s are those of a list without repetition.
LEMMA ShapeDistinct ==
  ASSUME NEW m, NEW h, NEW a, NEW s, Shape(m, h, a, s)
  PROVE  /\ s \in Seq(Node) /\ Len(s) \in Nat
         /\ \A k \in 1 .. Len(s) : s[k] \in Node /\ s[k] \in a
         /\ \A i, j \in 1 .. Len(s) : s[i] = s[j] => i = j
         /\ a \subseteq Node
  <1>1. s \in Seq(Node) /\ Len(s) \in Nat /\ a = {s[k] : k \in 1 .. Len(s)}
    BY DEF Shape
  <1>2. \A k \in 1 .. Len(s) : s[k] \in Node /\ s[k] \in a
    BY <1>1
  <1>3. \A i, j \in 1 .. Len(s) : s[i] = s[j] => i = j
    <2>1. CASE s = << >>
      BY <2>1
    <2>2. CASE s # << >>
      BY <2>2 DEF Shape, Cycle
    <2> QED BY <2>1, <2>2
  <1> QED BY <1>1, <1>2, <1>3

-----------------------------------------------------------------------------
(* link_list_add_data                                                      *)

\* Where the tail is after an addition to a list of n nodes.
TailAfterAdd(n, t) == IF n = 0 THEN 1 ELSE IF n = 1 THEN 2 ELSE IF t > 1 THEN t + 1 ELSE t

\* c comes behind the first of the members of b.
Inserted(b, c, x) ==
  /\ Len(c) = Len(b) + 1
  /\ c[1] = IF Len(b) = 0 THEN x ELSE b[1]
  /\ Len(b) # 0 => c[2] = x
  /\ \A k \in 2 .. Len(b) : c[k + 1] = b[k]

\* What the addition of n leaves of the list s is the list c.
Grown(h, a, s, n, r, c) ==
  /\ Shape(r.m, r.l, a \cup {n}, c) /\ Inserted(s, c, n)
  /\ Len(s) = 0 => r.l.tail = c[1]
  /\ \A t \in 1 .. Len(s) : h.tail = s[t] => r.l.tail = c[TailAfterAdd(Len(s), t)]

\* link_list_add_data hangs the new node behind the head, with both pointers.
LEMMA AddShapes ==
  ASSUME NEW D, NEW m \in Memories(D), NEW h \in Headers, NEW a, NEW s, Shape(m, h, a, s),
         NEW n \in Node \ a, NEW x \in D, NEW r, r = AddNode(m, h, n, x)
  PROVE  /\ r.m \in Memories(D) /\ r.l \in Headers /\ r.l.count = h.count + 1
         /\ r.m.data = [m.data EXCEPT ![n] = x]
         /\ \E c \in Seq(Node) : Grown(h, a, s, n, r, c)
  <1>1. PICK m1 : m1 = [m EXCEPT !.next[n] = n, !.prev[n] = n, !.data[n] = x]
    OBVIOUS
  <1>2. r = Link(m1, h, n)
    BY <1>1 DEF AddNode
  <1>3. /\ m1 \in Memories(D)
        /\ m1.next = [m.next EXCEPT ![n] = n]
        /\ m1.prev = [m.prev EXCEPT ![n] = n]
        /\ m1.data = [m.data EXCEPT ![n] = x]
    <2>1. PICK n1 : n1 = [m.next EXCEPT ![n] = n]
      OBVIOUS
    <2>2. PICK p1 : p1 = [m.prev EXCEPT ![n] = n]
      OBVIOUS
    <2>3. PICK d1 : d1 = [m.data EXCEPT ![n] = x]
      OBVIOUS
    <2>4. m.next \in [Node -> Node \cup {NIL}] /\ m.prev \in [Node -> Node \cup {NIL}] /\ m.data \in [Node -> D]
          /\ m = [next |-> m.next, prev |-> m.prev, data |-> m.data]
      BY DEF Memories
    <2>5. n1 \in [Node -> Node \cup {NIL}] /\ p1 \in [Node -> Node \cup {NIL}] /\ d1 \in [Node -> D]
      BY <2>1, <2>2, <2>3, <2>4
    <2>6. m1 = [next |-> n1, prev |-> p1, data |-> d1]
      BY <1>1, <2>1, <2>2, <2>3, <2>4
    <2>7. m1.next = n1 /\ m1.prev = p1 /\ m1.data = d1
      BY <2>6
    <2>8. m1 \in Memories(D)
      BY <2>5, <2>6 DEF Memories
    <2> QED BY <2>1, <2>2, <2>3, <2>7, <2>8
  <1>4. m.next \in [Node -> Node \cup {NIL}] /\ m.prev \in [Node -> Node \cup {NIL}]
    BY DEF Memories
  <1>5. m1.next[n] = n /\ m1.prev[n] = n
        /\ \A y \in Node : y # n => m1.next[y] = m.next[y] /\ m1.prev[y] = m.prev[y]
    BY <1>3, <1>4
  <1>6. PICK len : len = Len(s)
    OBVIOUS
  <1>7. /\ s \in Seq(Node) /\ len \in Nat
        /\ \A k \in 1 .. len : s[k] \in Node /\ s[k] \in a /\ s[k] # n
        /\ \A i, j \in 1 .. len : s[i] = s[j] => i = j
        /\ a \subseteq Node /\ a = {s[k] : k \in 1 .. len}
    <2>1. /\ s \in Seq(Node) /\ Len(s) \in Nat
          /\ \A k \in 1 .. Len(s) : s[k] \in Node /\ s[k] \in a
          /\ \A i, j \in 1 .. Len(s) : s[i] = s[j] => i = j
          /\ a \subseteq Node
      BY ShapeDistinct
    <2>2. a = {s[k] : k \in 1 .. Len(s)}
      BY DEF Shape
    <2> QED BY <1>6, <2>1, <2>2
  <1>8. CASE s = << >>
    <2>1. h.head = NIL /\ len = 0 /\ a = {}
      BY <1>6, <1>7, <1>8 DEF Shape
    <2>2. r = [m |-> m1, l |-> [head |-> n, tail |-> n, count |-> h.count + 1]]
      BY <1>2, <2>1 DEF Link
    <2>3. r.m = m1 /\ r.l = [head |-> n, tail |-> n, count |-> h.count + 1]
      BY <2>2
    <2>4. r.l \in Headers /\ r.l.count = h.count + 1 /\ r.l.head = n /\ r.l.tail = n
      BY <2>3 DEF Headers
    <2>5. PICK c : c = << n >>
      OBVIOUS
    <2>6. c \in Seq(Node) /\ Len(c) = 1 /\ c[1] = n /\ c # << >>
      BY <2>5
    <2>7. Cycle(r.m.next, c) /\ Back(r.m.prev, c)
      BY <1>5, <2>3, <2>6 DEF Cycle, Back
    <2>8. Shape(r.m, r.l, a \cup {n}, c)
      BY <2>1, <2>4, <2>6, <2>7 DEF Shape
    <2>9. Inserted(s, c, n)
      BY <1>6, <2>1, <2>6 DEF Inserted
    <2>10. Grown(h, a, s, n, r, c)
      BY <1>6, <2>1, <2>4, <2>6, <2>8, <2>9 DEF Grown
    <2> QED BY <1>3, <2>3, <2>4, <2>6, <2>10
  <1>9. CASE s # << >>
    <2>1. Cycle(m.next, s) /\ Back(m.prev, s) /\ h.head = s[1] /\ h.tail \in a /\ len > 0
      BY <1>6, <1>7, <1>9 DEF Shape
    <2>2. 1 \in 1 .. len /\ len \in 1 .. len /\ s[1] \in Node /\ s[1] # n /\ s[1] # NIL
      BY <1>7, <2>1, NodeAssumption
    <2>3. PICK q : q = m.next[s[1]]
      OBVIOUS
    <2>4. q \in Node /\ q # n /\ m1.next[h.head] = q
          /\ q = IF len = 1 THEN s[1] ELSE s[2]
      <3>1. q = IF len = 1 THEN s[1] ELSE s[2]
        BY <1>6, <1>7, <2>1, <2>3 DEF Cycle
      <3>2. q \in Node /\ q # n
        BY <1>7, <2>1, <2>2, <3>1
      <3> QED BY <1>5, <2>1, <2>2, <2>3, <3>1, <3>2
    <2>5. PICK a1 : a1 = [m1.next EXCEPT ![n] = q, ![s[1]] = n]
      OBVIOUS
    <2>6. PICK b1 : b1 = [m1.prev EXCEPT ![q] = n, ![n] = s[1]]
      OBVIOUS
    <2>7. m1.next \in [Node -> Node \cup {NIL}] /\ m1.prev \in [Node -> Node \cup {NIL}]
      BY <1>3 DEF Memories
    <2>8. a1 \in [Node -> Node \cup {NIL}] /\ b1 \in [Node -> Node \cup {NIL}]
      BY <2>2, <2>4, <2>5, <2>6, <2>7
    <2>9. r = [m |-> [m1 EXCEPT !.next = a1, !.prev = b1],
               l |-> [h EXCEPT !.tail = IF q = h.head THEN n ELSE @, !.count = @ + 1]]
      BY <1>2, <2>1, <2>2, <2>4, <2>5, <2>6 DEF Link
    <2>10. r.m = [m1 EXCEPT !.next = a1, !.prev = b1]
           /\ r.l = [h EXCEPT !.tail = IF q = h.head THEN n ELSE @, !.count = @ + 1]
      BY <2>9
    <2>11. r.m.next = a1 /\ r.m.prev = b1 /\ r.m.data = m1.data /\ r.m \in Memories(D)
      BY <1>3, <2>8, <2>10 DEF Memories
    <2>12. /\ r.l \in Headers /\ r.l.head = s[1] /\ r.l.count = h.count + 1
           /\ r.l.tail = IF q = s[1] THEN n ELSE h.tail
      <3>1. PICK t : t = IF q = h.head THEN n ELSE h.tail
        OBVIOUS
      <3>2. PICK l1 : l1 = [h EXCEPT !.tail = t]
        OBVIOUS
      <3>3. l1 \in Headers /\ l1.head = s[1] /\ l1.tail = t /\ l1.count = h.count
        BY <2>1, <3>1, <3>2 DEF Headers
      <3>4. r.l = [l1 EXCEPT !.count = @ + 1]
        BY <2>10, <3>1, <3>2
      <3> QED BY <2>1, <3>1, <3>3, <3>4 DEF Headers
    <2>13. \A y \in Node : /\ a1[y] = IF y = s[1] THEN n ELSE IF y = n THEN q ELSE m.next[y]
                           /\ b1[y] = IF y = n THEN s[1] ELSE IF y = q THEN n ELSE m.prev[y]
      BY <1>5, <2>2, <2>4, <2>5, <2>6, <2>7
    <2>14. PICK c : c = [k \in 1 .. len + 1 |-> IF k = 1 THEN s[1] ELSE IF k = 2 THEN n ELSE s[k - 1]]
      OBVIOUS
    <2>15. \A k \in 3 .. len + 1 : k - 1 \in 1 .. len /\ k - 1 # 1 /\ c[k] = s[k - 1]
      BY <1>7, <2>14
    <2>16. c[1] = s[1] /\ c[2] = n
      BY <1>7, <2>1, <2>14
    <2>17. c \in Seq(Node) /\ Len(c) = len + 1 /\ c # << >>
      <3>1. \A k \in 1 .. len + 1 : k = 1 \/ k = 2 \/ k \in 3 .. len + 1
        BY <1>7
      <3>2. \A k \in 1 .. len + 1 : (IF k = 1 THEN s[1] ELSE IF k = 2 THEN n ELSE s[k - 1]) \in Node
        BY <1>7, <2>2, <2>15, <3>1
      <3>3. c \in [1 .. len + 1 -> Node]
        BY <2>14, <3>2
      <3> QED BY <1>7, <3>3
    <2>18. \A k \in 2 .. len : c[k + 1] = s[k] /\ k \in 1 .. len
      BY <1>7, <2>15
    <2>19. Inserted(s, c, n)
      BY <1>6, <2>1, <2>16, <2>17, <2>18 DEF Inserted
    <2>20. a \cup {n} = {c[k] : k \in 1 .. Len(c)}
      <3>1. \A k \in 1 .. len : \E i \in 1 .. len + 1 : c[i] = s[k]
        <4> SUFFICES ASSUME NEW k \in 1 .. len
                     PROVE  \E i \in 1 .. len + 1 : c[i] = s[k]
          OBVIOUS
        <4>1. CASE k = 1
          BY <1>7, <2>16, <4>1
        <4>2. CASE k # 1
          <5>1. k \in 2 .. len /\ k + 1 \in 1 .. len + 1
            BY <1>7, <4>2
          <5> QED BY <2>18, <5>1
        <4> QED BY <4>1, <4>2
      <3>2. \A k \in 1 .. len + 1 : c[k] \in a \cup {n}
        <4>1. \A k \in 1 .. len + 1 : k = 1 \/ k = 2 \/ k \in 3 .. len + 1
          BY <1>7
        <4> QED BY <1>7, <2>2, <2>15, <2>16, <4>1
      <3>3. 2 \in 1 .. len + 1
        BY <1>7, <2>1
      <3>4. \A y \in a \cup {n} : \E k \in 1 .. len + 1 : y = c[k]
        <4> SUFFICES ASSUME NEW y \in a \cup {n}
                     PROVE  \E k \in 1 .. len + 1 : y = c[k]
          OBVIOUS
        <4>1. CASE y = n
          BY <2>16, <3>3, <4>1
        <4>2. CASE y \in a
          <5>1. PICK k \in 1 .. len : y = s[k]
            BY <1>7, <4>2
          <5> QED BY <3>1, <5>1
        <4> QED BY <4>1, <4>2
      <3> QED BY <2>17, <3>2, <3>4
    <2>21. \A i, j \in 1 .. Len(c) : c[i] = c[j] => i = j
      <3> SUFFICES ASSUME NEW i \in 1 .. len + 1, NEW j \in 1 .. len + 1, c[i] = c[j], i < j
                   PROVE  FALSE
        BY <1>7, <2>17
      <3>1. CASE i = 1 /\ j = 2
        BY <2>2, <2>16, <3>1
      <3>2. CASE i = 1 /\ j > 2
        <4>1. j \in 3 .. len + 1
          BY <1>7, <3>2
        <4> QED BY <1>7, <2>2, <2>15, <2>16, <3>2, <4>1
      <3>3. CASE i = 2
        <4>1. j \in 3 .. len + 1
          BY <1>7, <3>3
        <4> QED BY <1>7, <2>15, <2>16, <3>3, <4>1
      <3>4. CASE i > 2
        <4>1. i \in 3 .. len + 1 /\ j \in 3 .. len + 1
          BY <1>7, <3>4
        <4>2. i - 1 = j - 1
          BY <1>7, <2>15, <4>1
        <4> QED BY <4>2
      <3> QED BY <1>7, <3>1, <3>2, <3>3, <3>4
    <2>22. Cycle(r.m.next, c)
      <3>1. \A k \in 1 .. len : a1[c[k]] = c[k + 1]
        <4> SUFFICES ASSUME NEW k \in 1 .. len
                     PROVE  a1[c[k]] = c[k + 1]
          OBVIOUS
        <4>1. CASE k = 1
          BY <2>2, <2>13, <2>16, <4>1
        <4>2. CASE k = 2
          <5>1. c[3] = s[2] /\ len # 1
            BY <1>7, <2>18, <4>2
          <5> QED BY <2>2, <2>4, <2>13, <2>16, <4>2, <5>1
        <4>3. CASE k > 2
          <5>1. k \in 3 .. len + 1 /\ k - 1 \in 1 .. len - 1 /\ k - 1 \in 1 .. len /\ k - 1 # 1 /\ k \in 2 .. len
                /\ k - 1 + 1 = k
            BY <1>7, <4>3
          <5>2. c[k] = s[k - 1] /\ c[k + 1] = s[k]
            BY <2>15, <2>18, <5>1
          <5>3. s[k - 1] # s[1] /\ s[k - 1] # n /\ s[k - 1] \in Node
            BY <1>7, <2>2, <5>1
          <5>4. m.next[s[k - 1]] = s[k]
            BY <1>6, <2>1, <5>1 DEF Cycle
          <5> QED BY <2>13, <5>2, <5>3, <5>4
        <4> QED BY <1>7, <4>1, <4>2, <4>3
      <3>2. a1[c[len + 1]] = c[1]
        <4>1. CASE len = 1
          BY <2>2, <2>4, <2>13, <2>16, <4>1
        <4>2. CASE len # 1
          <5>1. c[len + 1] = s[len] /\ len \in 1 .. len
            BY <1>7, <2>1, <2>18, <4>2
          <5>2. s[len] # s[1] /\ s[len] # n /\ s[len] \in Node
            BY <1>7, <2>2, <4>2, <5>1
          <5>3. m.next[s[len]] = s[1]
            BY <1>6, <2>1 DEF Cycle
          <5> QED BY <2>13, <2>16, <5>1, <5>2, <5>3
        <4> QED BY <4>1, <4>2
      <3> QED BY <2>11, <2>17, <2>21, <1>7, <3>1, <3>2 DEF Cycle
    <2>23. Back(r.m.prev, c)
      <3>1. \A k \in 1 .. len : b1[c[k + 1]] = c[k]
        <4> SUFFICES ASSUME NEW k \in 1 .. len
                     PROVE  b1[c[k + 1]] = c[k]
          OBVIOUS
        <4>1. CASE k = 1
          BY <2>13, <2>16, <4>1
        <4>2. CASE k = 2
          <5>1. c[3] = s[2] /\ len # 1 /\ 2 \in 1 .. len
            BY <1>7, <2>18, <4>2
          <5>2. c[k + 1] = q
            BY <2>4, <4>2, <5>1
          <5> QED BY <2>4, <2>13, <2>16, <4>2, <5>2
        <4>3. CASE k > 2
          <5>1. k \in 3 .. len + 1 /\ k - 1 \in 1 .. len - 1 /\ k \in 2 .. len /\ k - 1 + 1 = k
            BY <1>7, <4>3
          <5>2. c[k] = s[k - 1] /\ c[k + 1] = s[k]
            BY <2>15, <2>18, <5>1
          <5>3. s[k] # q /\ s[k] # n /\ s[k] \in Node
            BY <1>7, <2>1, <2>4, <4>3
          <5>4. m.prev[s[k]] = s[k - 1]
            BY <1>6, <2>1, <5>1 DEF Back
          <5> QED BY <2>13, <5>2, <5>3, <5>4
        <4> QED BY <1>7, <4>1, <4>2, <4>3
      <3>2. b1[c[1]] = c[len + 1]
        <4>1. CASE len = 1
          BY <2>2, <2>4, <2>13, <2>16, <4>1
        <4>2. CASE len # 1
          <5>1. c[len + 1] = s[len] /\ 2 \in 1 .. len
            BY <1>7, <2>1, <2>18, <4>2
          <5>2. s[1] # q
            BY <1>7, <2>2, <2>4, <4>2, <5>1
          <5>3. m.prev[s[1]] = s[len]
            BY <1>6, <2>1 DEF Back
          <5> QED BY <2>2, <2>13, <2>16, <5>1, <5>2, <5>3
        <4> QED BY <4>1, <4>2
      <3> QED BY <2>11, <2>17, <1>7, <3>1, <3>2 DEF Back
    <2>24. Shape(r.m, r.l, a \cup {n}, c)
      BY <2>1, <2>12, <2>16, <2>17, <2>20, <2>22, <2>23 DEF Shape
    <2>25. \A t \in 1 .. len : h.tail = s[t] => r.l.tail = c[TailAfterAdd(len, t)]
      <3> SUFFICES ASSUME NEW t \in 1 .. len, h.tail = s[t]
                   PROVE  r.l.tail = c[TailAfterAdd(len, t)]
        OBVIOUS
      <3>1. CASE len = 1
        BY <2>4, <2>12, <2>16, <3>1 DEF TailAfterAdd
      <3>2. CASE len # 1
        <4>1. q # s[1]
          BY <1>7, <2>1, <2>2, <2>4, <3>2
        <4>2. r.l.tail = s[t]
          BY <2>12, <4>1
        <4>3. CASE t = 1
          BY <2>1, <2>16, <3>2, <4>2, <4>3 DEF TailAfterAdd
        <4>4. CASE t # 1
          <5>1. t \in 2 .. len /\ t > 1
            BY <1>7, <4>4
          <5> QED BY <2>1, <2>18, <3>2, <4>2, <5>1 DEF TailAfterAdd
        <4> QED BY <4>3, <4>4
      <3> QED BY <3>1, <3>2
    <2>26. Grown(h, a, s, n, r, c)
      BY <1>6, <2>1, <2>19, <2>24, <2>25 DEF Grown
    <2> QED BY <1>3, <2>11, <2>12, <2>17, <2>26
  <1> QED BY <1>8, <1>9

-----------------------------------------------------------------------------
(* link_list_delete_data                                                   *)

\* What the deletion of the data at p, which frees its successor q, changes.
Emptied(m, h, p, q, r) ==
  /\ r.freed = q
  /\ r.m.next = [m.next EXCEPT ![p] = m.next[q]]
  /\ r.m.prev = [m.prev EXCEPT ![m.next[q]] = p]
  /\ r.m.data = [m.data EXCEPT ![p] = m.data[q]]
  /\ r.l.head = IF q # h.head THEN h.head ELSE IF p = h.head THEN NIL ELSE p
  /\ r.l.tail = IF q # h.tail THEN h.tail ELSE IF p = h.tail THEN NIL ELSE p
  /\ r.l.count = h.count - 1

Successor(s, k) == IF k < Len(s) THEN s[k + 1] ELSE s[1]

\* The node found by the loop is the one that holds the data.
LEMMA DeleteNodeIs ==
  ASSUME NEW D, NEW m \in Memories(D), NEW h \in Headers, NEW a, NEW s, Shape(m, h, a, s),
         NEW x, NEW k \in 1 .. Len(s), m.data[s[k]] = x,
         \A j \in 1 .. Len(s) : m.data[s[j]] = x => j = k,
         NEW r, r = DeleteNode(m, h, x)
  PROVE  /\ r.m \in Memories(D) /\ r.l \in Headers
         /\ Emptied(m, h, s[k], Successor(s, k), r)
  <1>1. Ring(m, h) = s
    BY ShapeRing
  <1>2. /\ s \in Seq(Node) /\ Len(s) \in Nat
        /\ \A i \in 1 .. Len(s) : s[i] \in Node /\ s[i] \in a
        /\ a \subseteq Node
    BY ShapeDistinct
  <1>3. Holders(m, h, x) = {k}
    BY <1>1, <1>2 DEF Holders
  <1>4. StepsTo(m, h, x) = k
    BY <1>2, <1>3 DEF StepsTo
  <1>5. PICK p, q, z : p = s[k] /\ q = m.next[p] /\ z = m.next[q]
    OBVIOUS
  <1>6. Cycle(m.next, s)
    BY <1>2 DEF Shape
  <1>7. \A i \in 1 .. Len(s) : m.next[s[i]] = Successor(s, i)
                                 /\ \E j \in 1 .. Len(s) : m.next[s[i]] = s[j]
    <2> SUFFICES ASSUME NEW i \in 1 .. Len(s)
                 PROVE  m.next[s[i]] = Successor(s, i)
                          /\ \E j \in 1 .. Len(s) : m.next[s[i]] = s[j]
      OBVIOUS
    <2>1. CASE i < Len(s)
      <3>1. i \in 1 .. Len(s) - 1 /\ i + 1 \in 1 .. Len(s)
        BY <1>2, <2>1
      <3>2. m.next[s[i]] = s[i + 1]
        BY <1>6, <3>1 DEF Cycle
      <3> QED BY <2>1, <3>1, <3>2 DEF Successor
    <2>2. CASE i = Len(s)
      <3>1. m.next[s[i]] = s[1] /\ 1 \in 1 .. Len(s)
        BY <1>2, <1>6, <2>2 DEF Cycle
      <3> QED BY <1>2, <2>2, <3>1 DEF Successor
    <2> QED BY <1>2, <2>1, <2>2
  <1>8. q = Successor(s, k) /\ p \in Node /\ q \in Node /\ z \in Node
    BY <1>2, <1>5, <1>7
  <1>9. m.next \in [Node -> Node \cup {NIL}] /\ m.prev \in [Node -> Node \cup {NIL}]
        /\ m.data \in [Node -> D]
        /\ m = [next |-> m.next, prev |-> m.prev, data |-> m.data]
    BY DEF Memories
  <1>10. PICK n1 : n1 = [m.next EXCEPT ![p] = z]
    OBVIOUS
  <1>11. PICK p1 : p1 = [m.prev EXCEPT ![z] = p]
    OBVIOUS
  <1>12. PICK d1 : d1 = [m.data EXCEPT ![p] = m.data[q]]
    OBVIOUS
  <1>13. n1 \in [Node -> Node \cup {NIL}] /\ p1 \in [Node -> Node \cup {NIL}] /\ d1 \in [Node -> D]
    BY <1>8, <1>9, <1>10, <1>11, <1>12
  <1>14. [m EXCEPT !.data[p] = m.data[q], !.next[p] = z, !.prev[z] = p]
           = [next |-> n1, prev |-> p1, data |-> d1]
    <2>1. PICK y : y = m.data[q]
      OBVIOUS
    <2>2. PICK m1 : m1 = [m EXCEPT !.data[p] = y]
      OBVIOUS
    <2>3. m1 = [next |-> m.next, prev |-> m.prev, data |-> d1]
      BY <1>9, <1>12, <2>1, <2>2
    <2>4. PICK m2 : m2 = [m1 EXCEPT !.next[p] = z]
      OBVIOUS
    <2>5. m2 = [next |-> n1, prev |-> m.prev, data |-> d1]
      BY <1>10, <2>3, <2>4
    <2>6. [m2 EXCEPT !.prev[z] = p] = [next |-> n1, prev |-> p1, data |-> d1]
      BY <1>11, <2>5
    <2> QED BY <2>1, <2>2, <2>4, <2>6
  <1>15. PICK hd : hd = IF q # h.head THEN h.head ELSE IF p = h.head THEN NIL ELSE p
    OBVIOUS
  <1>16. PICK tl : tl = IF q # h.tail THEN h.tail ELSE IF p = h.tail THEN NIL ELSE p
    OBVIOUS
  <1>17. hd \in Node \cup {NIL} /\ tl \in Node \cup {NIL} /\ h.count - 1 \in Int
    BY <1>8, <1>15, <1>16 DEF Headers
  <1>18. r = [m |-> [next |-> n1, prev |-> p1, data |-> d1],
              l |-> [head |-> hd, tail |-> tl, count |-> h.count - 1], freed |-> q]
    BY <1>1, <1>4, <1>5, <1>14, <1>15, <1>16 DEF DeleteNode
  <1>19. r.m = [next |-> n1, prev |-> p1, data |-> d1] /\ r.freed = q
         /\ r.l = [head |-> hd, tail |-> tl, count |-> h.count - 1]
    BY <1>18
  <1>20. r.m \in Memories(D)
    BY <1>13, <1>19 DEF Memories
  <1>21. r.l \in Headers
    BY <1>17, <1>19 DEF Headers
  <1>22. r.m.next = n1 /\ r.m.prev = p1 /\ r.m.data = d1
    BY <1>19
  <1>23. r.l.head = hd /\ r.l.tail = tl /\ r.l.count = h.count - 1
    BY <1>19
  <1>24. Emptied(m, h, p, q, r)
    BY <1>5, <1>10, <1>11, <1>12, <1>15, <1>16, <1>19, <1>22, <1>23 DEF Emptied
  <1> QED BY <1>5, <1>8, <1>20, <1>21, <1>24

\* The members of b but the k-th, read through the data of two memories.
Dropped(d, b, e, c, k) ==
  /\ Len(c) = Len(b) - 1
  /\ \A i \in 1 .. Len(c) : e[c[i]] = IF i < k THEN d[b[i]] ELSE d[b[i + 1]]

\* What a deletion leaves of the list s is the list c.
Shrunk(m, h, a, s, k, r, c) ==
  /\ Shape(r.m, r.l, a \ {r.freed}, c)
  /\ Dropped(m.data, s, r.m.data, c, k)
  /\ \A t \in 1 .. Len(s) :
       h.tail = s[t] /\ Len(s) # 1 => /\ Abstract!TailAfterDelete(Len(s), t, k) \in 1 .. Len(c)
                                      /\ r.l.tail = c[Abstract!TailAfterDelete(Len(s), t, k)]

\* The data of the only node goes.
LEMMA DeleteOnly ==
  ASSUME NEW D, NEW m \in Memories(D), NEW h \in Headers, NEW a, NEW s, Shape(m, h, a, s),
         Len(s) = 1, NEW r, Emptied(m, h, s[1], s[1], r)
  PROVE  Shrunk(m, h, a, s, 1, r, << >>)
  <1>1. a = {s[1]} /\ s # << >>
    BY DEF Shape
  <1>2. h.head = s[1] /\ h.tail = s[1]
    BY <1>1 DEF Shape
  <1>3. r.l.head = NIL /\ r.l.tail = NIL /\ r.freed = s[1]
    BY <1>2 DEF Emptied
  <1>4. Shape(r.m, r.l, a \ {r.freed}, << >>)
    BY <1>1, <1>3 DEF Shape
  <1> QED BY <1>4 DEF Shrunk, Dropped

\* The data of a node before the last goes.
LEMMA DeleteInner ==
  ASSUME NEW D, NEW m \in Memories(D), NEW h \in Headers, NEW a, NEW s, Shape(m, h, a, s),
         NEW k \in 1 .. Len(s), k < Len(s), NEW r, Emptied(m, h, s[k], s[k + 1], r)
  PROVE  \E c \in Seq(Node) : Shrunk(m, h, a, s, k, r, c)
  <1>1. PICK n \in Nat : n = Len(s)
    BY ShapeDistinct
  <1>2. /\ s \in Seq(Node) /\ n \in Nat /\ k \in 1 .. n /\ k + 1 \in 1 .. n /\ k < n
        /\ \A i \in 1 .. n : s[i] \in Node /\ s[i] \in a
        /\ \A i, j \in 1 .. n : s[i] = s[j] => i = j
        /\ a \subseteq Node
    <2>1. /\ s \in Seq(Node) /\ Len(s) \in Nat
          /\ \A i \in 1 .. Len(s) : s[i] \in Node /\ s[i] \in a
          /\ \A i, j \in 1 .. Len(s) : s[i] = s[j] => i = j
          /\ a \subseteq Node
      BY ShapeDistinct
    <2> QED BY <1>1, <2>1
  <1>3. /\ a = {s[i] : i \in 1 .. n} /\ Cycle(m.next, s) /\ Back(m.prev, s)
        /\ h.head = s[1] /\ h.tail \in a
    BY <1>1, <1>2 DEF Shape
  <1>4. PICK p, q, z : p = s[k] /\ q = s[k + 1] /\ z = m.next[q]
    OBVIOUS
  <1>5. p \in Node /\ q \in Node /\ p # q
    BY <1>2, <1>4
  <1>6. z = (IF k + 1 < n THEN s[k + 2] ELSE s[1]) /\ z \in Node /\ z # q
    <2>1. CASE k + 1 < n
      <3>1. k + 1 \in 1 .. n - 1 /\ k + 1 + 1 = k + 2 /\ k + 2 \in 1 .. n
        BY <1>2, <2>1
      <3>2. z = s[k + 2]
        BY <1>1, <1>3, <1>4, <3>1 DEF Cycle
      <3>3. z # q
        BY <1>2, <1>4, <3>1, <3>2
      <3> QED BY <1>2, <2>1, <3>1, <3>2, <3>3
    <2>2. CASE k + 1 = n
      <3>1. 1 \in 1 .. n /\ 1 # k + 1
        BY <1>2
      <3>2. z = s[1]
        BY <1>1, <1>3, <1>4, <2>2 DEF Cycle
      <3>3. z # q
        BY <1>2, <1>4, <3>1, <3>2
      <3> QED BY <1>2, <2>2, <3>1, <3>2, <3>3
    <2> QED BY <1>2, <2>1, <2>2
  <1>7. m.next \in [Node -> Node \cup {NIL}] /\ m.prev \in [Node -> Node \cup {NIL}]
        /\ m.data \in [Node -> D]
    BY DEF Memories
  <1>8. /\ r.freed = q
        /\ \A y \in Node : /\ r.m.next[y] = IF y = p THEN z ELSE m.next[y]
                           /\ r.m.prev[y] = IF y = z THEN p ELSE m.prev[y]
                           /\ r.m.data[y] = IF y = p THEN m.data[q] ELSE m.data[y]
    BY <1>4, <1>5, <1>6, <1>7 DEF Emptied
  <1>9. 1 \in 1 .. n /\ k + 1 # 1 /\ s[1] # q
    BY <1>2, <1>4
  <1>10. r.l.head = s[1] /\ r.l.tail = IF q # h.tail THEN h.tail ELSE p
    BY <1>3, <1>4, <1>5, <1>9 DEF Emptied
  <1>11. PICK c : c = [i \in 1 .. n - 1 |-> IF i <= k THEN s[i] ELSE s[i + 1]]
    OBVIOUS
  <1>12. \A i \in 1 .. n - 1 : /\ i <= k => c[i] = s[i] /\ i \in 1 .. n
                               /\ i > k => c[i] = s[i + 1] /\ i + 1 \in 1 .. n /\ i \in 1 .. n
    BY <1>2, <1>11
  <1>13. \A i \in 1 .. n - 1 : c[i] \in Node /\ c[i] \in a /\ c[i] # q
    <2> SUFFICES ASSUME NEW i \in 1 .. n - 1
                 PROVE  c[i] \in Node /\ c[i] \in a /\ c[i] # q
      OBVIOUS
    <2>1. CASE i <= k
      BY <1>2, <1>4, <1>12, <2>1
    <2>2. CASE i > k
      <3>1. c[i] = s[i + 1] /\ i + 1 \in 1 .. n /\ i + 1 # k + 1
        BY <1>2, <1>12, <2>2
      <3> QED BY <1>2, <1>4, <3>1
    <2> QED BY <1>2, <2>1, <2>2
  <1>14. c \in Seq(Node) /\ Len(c) = n - 1 /\ c # << >>
    <2>1. c \in [1 .. n - 1 -> Node]
      BY <1>11, <1>13
    <2>2. n - 1 \in Nat /\ n - 1 # 0
      BY <1>2
    <2> QED BY <2>1, <2>2
  <1>15. \A i, j \in 1 .. n - 1 : c[i] = c[j] => i = j
    <2> SUFFICES ASSUME NEW i \in 1 .. n - 1, NEW j \in 1 .. n - 1, c[i] = c[j]
                 PROVE  i = j
      OBVIOUS
    <2>1. PICK u, v : u = (IF i <= k THEN i ELSE i + 1) /\ v = (IF j <= k THEN j ELSE j + 1)
      OBVIOUS
    <2>2. u \in 1 .. n /\ v \in 1 .. n /\ c[i] = s[u] /\ c[j] = s[v]
      BY <1>2, <1>12, <2>1
    <2>3. u = v
      BY <1>2, <2>2
    <2> QED BY <1>2, <2>1, <2>3
  <1>16. a \ {q} = {c[i] : i \in 1 .. Len(c)}
    <2>1. \A y \in a \ {q} : \E i \in 1 .. n - 1 : c[i] = y
      <3> SUFFICES ASSUME NEW i \in 1 .. n, s[i] # q
                   PROVE  \E j \in 1 .. n - 1 : c[j] = s[i]
        BY <1>3
      <3>1. i # k + 1
        BY <1>4
      <3>2. CASE i <= k
        <4>1. i \in 1 .. n - 1
          BY <1>2, <3>2
        <4> QED BY <1>12, <3>2, <4>1
      <3>3. CASE i > k + 1
        <4>1. i - 1 \in 1 .. n - 1 /\ i - 1 > k /\ i - 1 + 1 = i
          BY <1>2, <3>3
        <4> QED BY <1>12, <4>1
      <3> QED BY <1>2, <3>1, <3>2, <3>3
    <2> QED BY <1>13, <1>14, <2>1
  <1>17. \A i \in 1 .. n - 1 : i < n - 1 => r.m.next[c[i]] = c[i + 1] /\ r.m.prev[c[i + 1]] = c[i]
    <2> SUFFICES ASSUME NEW i \in 1 .. n - 1, i < n - 1
                 PROVE  r.m.next[c[i]] = c[i + 1] /\ r.m.prev[c[i + 1]] = c[i]
      OBVIOUS
    <2>0. i \in 1 .. n - 1 /\ i + 1 \in 1 .. n - 1 /\ i + 1 + 1 = i + 2 /\ n - 1 \in Nat
      BY <1>2
    <2>1. CASE i < k
      <3>1. c[i] = s[i] /\ c[i + 1] = s[i + 1] /\ i \in 1 .. n - 1 /\ i # k /\ i + 1 \in 1 .. n /\ i \in 1 .. n
        BY <1>2, <1>12, <2>0, <2>1
      <3>2. m.next[s[i]] = s[i + 1] /\ m.prev[s[i + 1]] = s[i]
        BY <1>1, <1>3, <3>1 DEF Cycle, Back
      <3>3. s[i] # p
        BY <1>2, <1>4, <3>1
      <3>4. s[i + 1] # z
        <4>1. CASE k + 1 < n
          <5>1. k + 2 \in 1 .. n /\ i + 1 # k + 2
            BY <1>2, <2>1, <4>1
          <5> QED BY <1>2, <1>6, <3>1, <4>1, <5>1
        <4>2. CASE k + 1 = n
          <5>1. i + 1 # 1 /\ 1 \in 1 .. n
            BY <1>2, <2>0
          <5> QED BY <1>2, <1>6, <3>1, <4>2, <5>1
        <4> QED BY <1>2, <4>1, <4>2
      <3> QED BY <1>2, <1>8, <3>1, <3>2, <3>3, <3>4
    <2>2. CASE i = k
      <3>1. k + 1 < n
        BY <1>2, <2>2
      <3>2. c[i] = p /\ c[i + 1] = s[k + 2]
        BY <1>4, <1>12, <2>0, <2>2
      <3>3. c[i + 1] = z
        BY <1>6, <3>1, <3>2
      <3> QED BY <1>5, <1>6, <1>8, <3>2, <3>3
    <2>3. CASE i > k
      <3>1. c[i] = s[i + 1] /\ c[i + 1] = s[i + 2] /\ i + 1 \in 1 .. n - 1 /\ i + 1 \in 1 .. n /\ i + 2 \in 1 .. n
            /\ i + 1 # k /\ i + 1 # k + 1
        <4>1. /\ i \in Nat /\ k < i /\ i + 1 \in 1 .. n - 1 /\ i + 1 \in 1 .. n /\ i + 2 \in 1 .. n
              /\ i + 1 # k /\ i + 1 # k + 1 /\ i \in 1 .. n - 1
          BY <1>2, <2>0, <2>3
        <4>2. c[i] = s[i + 1]
          BY <1>2, <1>12, <2>3, <4>1
        <4>3. c[i + 1] = s[i + 1 + 1]
          BY <1>2, <1>12, <2>3, <4>1
        <4>4. i + 1 + 1 = i + 2
          BY <4>1
        <4> QED BY <4>1, <4>2, <4>3, <4>4
      <3>2. m.next[s[i + 1]] = s[i + 2] /\ m.prev[s[i + 2]] = s[i + 1]
        BY <1>1, <1>3, <2>0, <3>1 DEF Cycle, Back
      <3>3. s[i + 1] # p
        BY <1>2, <1>4, <3>1
      <3>4. s[i + 2] # z
        <4>1. k + 1 < n
          BY <1>2, <2>0, <2>3
        <4>2. k + 2 \in 1 .. n /\ i + 2 # k + 2
          BY <1>2, <2>3, <4>1
        <4> QED BY <1>2, <1>6, <3>1, <4>1, <4>2
      <3> QED BY <1>2, <1>8, <3>1, <3>2, <3>3, <3>4
    <2> QED BY <1>2, <2>0, <2>1, <2>2, <2>3
  <1>18. r.m.next[c[n - 1]] = c[1] /\ r.m.prev[c[1]] = c[n - 1]
    <2>1. n - 1 \in 1 .. n - 1 /\ 1 \in 1 .. n - 1 /\ c[1] = s[1] /\ n - 1 + 1 = n /\ n \in 1 .. n
      BY <1>2, <1>12
    <2>2. CASE k + 1 = n
      <3>1. c[n - 1] = p /\ z = s[1]
        BY <1>2, <1>4, <1>6, <1>12, <2>1, <2>2
      <3> QED BY <1>5, <1>6, <1>8, <2>1, <3>1
    <2>3. CASE k + 1 < n
      <3>1. n - 1 > k
        BY <1>2, <2>3
      <3>2. c[n - 1] = s[n]
        BY <1>12, <2>1, <3>1
      <3>3. s[n] # p /\ s[n] \in Node
        BY <1>2, <1>4, <2>1
      <3>4. z = s[k + 2] /\ k + 2 \in 1 .. n /\ k + 2 # 1
        BY <1>2, <1>6, <2>3
      <3>5. s[1] # z
        BY <1>2, <1>9, <3>4
      <3>6. m.next[s[n]] = s[1] /\ m.prev[s[1]] = s[n]
        BY <1>1, <1>3 DEF Cycle, Back
      <3> QED BY <1>2, <1>8, <1>9, <2>1, <3>2, <3>3, <3>5, <3>6
    <2> QED BY <1>2, <2>2, <2>3
  <1>19. Cycle(r.m.next, c) /\ Back(r.m.prev, c)
    <2>1. \A i \in 1 .. Len(c) - 1 : r.m.next[c[i]] = c[i + 1] /\ r.m.prev[c[i + 1]] = c[i]
      BY <1>2, <1>14, <1>17
    <2> QED BY <1>14, <1>15, <1>18, <2>1 DEF Cycle, Back
  <1>20. r.l.head = c[1]
    <2>1. 1 \in 1 .. n - 1 /\ 1 <= k
      BY <1>2
    <2> QED BY <1>10, <1>12, <2>1
  <1>21. Shape(r.m, r.l, a \ {r.freed}, c)
    <2>1. r.l.tail \in a \ {q}
      <3>1. p \in a
        BY <1>2, <1>4
      <3> QED BY <1>3, <1>5, <1>10, <3>1
    <2> QED BY <1>8, <1>14, <1>16, <1>19, <1>20, <2>1 DEF Shape
  <1>22. Dropped(m.data, s, r.m.data, c, k)
    <2>1. \A i \in 1 .. n - 1 : r.m.data[c[i]] = IF i < k THEN m.data[s[i]] ELSE m.data[s[i + 1]]
      <3> SUFFICES ASSUME NEW i \in 1 .. n - 1
                   PROVE  r.m.data[c[i]] = IF i < k THEN m.data[s[i]] ELSE m.data[s[i + 1]]
        OBVIOUS
      <3>1. CASE i < k
        <4>1. c[i] = s[i] /\ i \in 1 .. n /\ i # k
          BY <1>2, <1>12, <3>1
        <4>2. s[i] # p /\ s[i] \in Node
          BY <1>2, <1>4, <4>1
        <4> QED BY <1>8, <3>1, <4>1, <4>2
      <3>2. CASE i = k
        BY <1>2, <1>4, <1>5, <1>8, <1>12, <3>2
      <3>3. CASE i > k
        <4>1. c[i] = s[i + 1] /\ i + 1 \in 1 .. n /\ i + 1 # k /\ ~ (i < k)
          BY <1>2, <1>12, <3>3
        <4>2. s[i + 1] # p /\ s[i + 1] \in Node
          BY <1>2, <1>4, <4>1
        <4> QED BY <1>8, <4>1, <4>2
      <3> QED BY <1>2, <3>1, <3>2, <3>3
    <2> QED BY <1>1, <1>14, <2>1 DEF Dropped
  <1>23. ASSUME NEW t \in 1 .. n, h.tail = s[t]
         PROVE  /\ Abstract!TailAfterDelete(n, t, k) \in 1 .. n - 1
                /\ r.l.tail = c[Abstract!TailAfterDelete(n, t, k)]
    <2>1. Abstract!TailAfterDelete(n, t, k) = IF t > k THEN t - 1 ELSE t
      BY <1>2 DEF Abstract!TailAfterDelete
    <2>2. CASE t <= k
      <3>1. t \in 1 .. n - 1 /\ t # k + 1
        BY <1>2, <2>2
      <3>2. h.tail # q
        BY <1>2, <1>4, <1>23, <3>1
      <3>3. Abstract!TailAfterDelete(n, t, k) = t
        BY <1>2, <2>1, <2>2
      <3> QED BY <1>10, <1>12, <1>23, <2>2, <3>1, <3>2, <3>3
    <2>3. CASE t = k + 1
      <3>1. h.tail = q /\ k \in 1 .. n - 1
        BY <1>2, <1>4, <1>23, <2>3
      <3>2. Abstract!TailAfterDelete(n, t, k) = k
        BY <1>2, <2>1, <2>3
      <3>3. c[k] = p
        BY <1>2, <1>4, <1>12, <3>1
      <3> QED BY <1>10, <3>1, <3>2, <3>3
    <2>4. CASE t > k + 1
      <3>1. t - 1 \in 1 .. n - 1 /\ t - 1 > k /\ t - 1 + 1 = t /\ t # k + 1
        BY <1>2, <2>4
      <3>2. h.tail # q
        BY <1>2, <1>4, <1>23, <3>1
      <3>3. Abstract!TailAfterDelete(n, t, k) = t - 1
        BY <1>2, <2>1, <2>4
      <3>4. c[t - 1] = s[t]
        BY <1>12, <3>1
      <3> QED BY <1>10, <1>23, <3>1, <3>2, <3>3, <3>4
    <2> QED BY <1>2, <2>2, <2>3, <2>4
  <1> QED BY <1>1, <1>14, <1>21, <1>22, <1>23 DEF Shrunk

\* The data of the last node goes: the head is freed, and the emptied node is
\* the new head.
LEMMA DeleteLast ==
  ASSUME NEW D, NEW m \in Memories(D), NEW h \in Headers, NEW a, NEW s, Shape(m, h, a, s),
         Len(s) > 1, NEW r, Emptied(m, h, s[Len(s)], s[1], r)
  PROVE  \E c \in Seq(Node) : Shrunk(m, h, a, s, Len(s), r, c)
  <1>1. PICK n \in Nat : n = Len(s)
    BY ShapeDistinct
  <1>2. /\ s \in Seq(Node) /\ n \in Nat /\ n > 1
        /\ \A i \in 1 .. n : s[i] \in Node /\ s[i] \in a
        /\ \A i, j \in 1 .. n : s[i] = s[j] => i = j
        /\ a \subseteq Node
    <2>1. /\ s \in Seq(Node) /\ Len(s) \in Nat
          /\ \A i \in 1 .. Len(s) : s[i] \in Node /\ s[i] \in a
          /\ \A i, j \in 1 .. Len(s) : s[i] = s[j] => i = j
          /\ a \subseteq Node
      BY ShapeDistinct
    <2> QED BY <1>1, <2>1
  <1>3. /\ a = {s[i] : i \in 1 .. n} /\ Cycle(m.next, s) /\ Back(m.prev, s)
        /\ h.head = s[1] /\ h.tail \in a
    BY <1>1, <1>2 DEF Shape
  <1>4. PICK p, q, z : p = s[n] /\ q = s[1] /\ z = s[2]
    OBVIOUS
  <1>5. p \in Node /\ q \in Node /\ z \in Node /\ p # q /\ z # q /\ p \in a
        /\ 1 \in 1 .. n /\ 2 \in 1 .. n /\ n \in 1 .. n
    <2>1. 1 \in 1 .. n /\ 2 \in 1 .. n /\ n \in 1 .. n /\ n # 1
      BY <1>2
    <2> QED BY <1>2, <1>4, <2>1
  <1>6. m.next[q] = z
    <2>1. 1 \in 1 .. n - 1 /\ 1 + 1 = 2
      BY <1>2
    <2> QED BY <1>1, <1>3, <1>4, <2>1 DEF Cycle
  <1>7. m.next \in [Node -> Node \cup {NIL}] /\ m.prev \in [Node -> Node \cup {NIL}]
        /\ m.data \in [Node -> D]
    BY DEF Memories
  <1>8. /\ r.freed = q
        /\ \A y \in Node : /\ r.m.next[y] = IF y = p THEN z ELSE m.next[y]
                           /\ r.m.prev[y] = IF y = z THEN p ELSE m.prev[y]
                           /\ r.m.data[y] = IF y = p THEN m.data[q] ELSE m.data[y]
    BY <1>1, <1>4, <1>5, <1>6, <1>7 DEF Emptied
  <1>9. r.l.head = p /\ r.l.tail = IF q # h.tail THEN h.tail ELSE p
    BY <1>1, <1>3, <1>4, <1>5 DEF Emptied
  <1>10. PICK c : c = [i \in 1 .. n - 1 |-> IF i = 1 THEN s[n] ELSE s[i]]
    OBVIOUS
  <1>11. c[1] = p /\ \A i \in 1 .. n - 1 : i # 1 => c[i] = s[i] /\ i \in 1 .. n
    BY <1>2, <1>4, <1>10
  <1>12. \A i \in 1 .. n - 1 : c[i] \in Node /\ c[i] \in a /\ c[i] # q
    <2> SUFFICES ASSUME NEW i \in 1 .. n - 1
                 PROVE  c[i] \in Node /\ c[i] \in a /\ c[i] # q
      OBVIOUS
    <2>1. CASE i = 1
      BY <1>5, <1>11, <2>1
    <2>2. CASE i # 1
      BY <1>2, <1>4, <1>5, <1>11, <2>2
    <2> QED BY <2>1, <2>2
  <1>13. c \in Seq(Node) /\ Len(c) = n - 1 /\ c # << >>
    <2>1. c \in [1 .. n - 1 -> Node]
      BY <1>10, <1>12
    <2>2. n - 1 \in Nat /\ n - 1 # 0
      BY <1>2
    <2> QED BY <2>1, <2>2
  <1>14. \A i, j \in 1 .. n - 1 : c[i] = c[j] => i = j
    <2> SUFFICES ASSUME NEW i \in 1 .. n - 1, NEW j \in 1 .. n - 1, c[i] = c[j]
                 PROVE  i = j
      OBVIOUS
    <2>1. PICK u, v : u = (IF i = 1 THEN n ELSE i) /\ v = (IF j = 1 THEN n ELSE j)
      OBVIOUS
    <2>2. u \in 1 .. n /\ v \in 1 .. n /\ c[i] = s[u] /\ c[j] = s[v]
      BY <1>2, <1>4, <1>11, <2>1
    <2>3. u = v
      BY <1>2, <2>2
    <2> QED BY <1>2, <2>1, <2>3
  <1>15. a \ {q} = {c[i] : i \in 1 .. Len(c)}
    <2>1. \A y \in a \ {q} : \E i \in 1 .. n - 1 : c[i] = y
      <3> SUFFICES ASSUME NEW i \in 1 .. n, s[i] # q
                   PROVE  \E j \in 1 .. n - 1 : c[j] = s[i]
        BY <1>3
      <3>1. i # 1 /\ 1 \in 1 .. n - 1
        BY <1>2, <1>4
      <3>2. CASE i = n
        BY <1>4, <1>11, <3>1, <3>2
      <3>3. CASE i # n
        <4>1. i \in 1 .. n - 1
          BY <1>2, <3>3
        <4> QED BY <1>11, <3>1, <4>1
      <3> QED BY <3>2, <3>3
    <2> QED BY <1>12, <1>13, <2>1
  <1>16. \A i \in 1 .. n - 2 : r.m.next[c[i]] = c[i + 1] /\ r.m.prev[c[i + 1]] = c[i]
    <2> SUFFICES ASSUME NEW i \in 1 .. n - 2
                 PROVE  r.m.next[c[i]] = c[i + 1] /\ r.m.prev[c[i + 1]] = c[i]
      OBVIOUS
    <2>1. i \in 1 .. n - 1 /\ i + 1 \in 1 .. n - 1 /\ i + 1 # 1 /\ i \in 1 .. n /\ i + 1 \in 1 .. n
          /\ i # n /\ i + 1 # n
      BY <1>2
    <2>2. CASE i = 1
      <3>1. c[i] = p /\ c[i + 1] = z
        BY <1>4, <1>11, <2>1, <2>2
      <3> QED BY <1>5, <1>8, <3>1
    <2>3. CASE i # 1
      <3>1. c[i] = s[i] /\ c[i + 1] = s[i + 1]
        BY <1>11, <2>1, <2>3
      <3>2. m.next[s[i]] = s[i + 1] /\ m.prev[s[i + 1]] = s[i]
        BY <1>1, <1>3, <2>1 DEF Cycle, Back
      <3>3. i + 1 # 2
        BY <2>1, <2>3
      <3>4. s[i] # p /\ s[i + 1] # z
        BY <1>2, <1>4, <1>5, <2>1, <3>3
      <3> QED BY <1>2, <1>8, <2>1, <3>1, <3>2, <3>4
    <2> QED BY <2>2, <2>3
  <1>17. r.m.next[c[n - 1]] = c[1] /\ r.m.prev[c[1]] = c[n - 1]
    <2>1. CASE n = 2
      <3>1. c[n - 1] = p /\ p = z
        BY <1>4, <1>11, <2>1
      <3> QED BY <1>5, <1>8, <1>11, <3>1
    <2>2. CASE n # 2
      <3>1. n - 1 \in 1 .. n - 1 /\ n - 1 # 1 /\ n - 1 # n /\ n - 1 \in 1 .. n /\ n - 1 + 1 = n
        BY <1>2, <2>2
      <3>2. c[n - 1] = s[n - 1] /\ s[n - 1] # p /\ s[n - 1] \in Node
        BY <1>2, <1>4, <1>5, <1>11, <3>1
      <3>3. m.next[s[n - 1]] = s[n] /\ m.prev[s[n]] = s[n - 1]
        BY <1>1, <1>3, <3>1 DEF Cycle, Back
      <3>4. p # z
        BY <1>2, <1>4, <1>5, <2>2
      <3> QED BY <1>4, <1>5, <1>8, <1>11, <3>2, <3>3, <3>4
    <2> QED BY <2>1, <2>2
  <1>18. Cycle(r.m.next, c) /\ Back(r.m.prev, c)
    <2>1. \A i \in 1 .. Len(c) - 1 : r.m.next[c[i]] = c[i + 1] /\ r.m.prev[c[i + 1]] = c[i]
      <3>1. Len(c) - 1 = n - 2
        BY <1>2, <1>13
      <3> QED BY <1>16, <3>1
    <2> QED BY <1>13, <1>14, <1>17, <2>1 DEF Cycle, Back
  <1>19. Shape(r.m, r.l, a \ {r.freed}, c)
    <2>1. r.l.tail \in a \ {q}
      BY <1>3, <1>5, <1>9
    <2> QED BY <1>8, <1>9, <1>11, <1>13, <1>15, <1>18, <2>1 DEF Shape
  <1>20. Dropped(m.data, s, r.m.data, c, n)
    <2>1. \A i \in 1 .. n - 1 : r.m.data[c[i]] = IF i < n THEN m.data[s[i]] ELSE m.data[s[i + 1]]
      <3> SUFFICES ASSUME NEW i \in 1 .. n - 1
                   PROVE  r.m.data[c[i]] = m.data[s[i]]
        BY <1>2
      <3>1. CASE i = 1
        BY <1>4, <1>5, <1>8, <1>11, <3>1
      <3>2. CASE i # 1
        <4>1. c[i] = s[i] /\ i \in 1 .. n /\ i # n
          BY <1>2, <1>11, <3>2
        <4>2. s[i] # p /\ s[i] \in Node
          BY <1>2, <1>4, <1>5, <4>1
        <4> QED BY <1>8, <4>1, <4>2
      <3> QED BY <3>1, <3>2
    <2> QED BY <1>1, <1>13, <2>1 DEF Dropped
  <1>21. ASSUME NEW t \in 1 .. n, h.tail = s[t]
         PROVE  /\ Abstract!TailAfterDelete(n, t, n) \in 1 .. n - 1
                /\ r.l.tail = c[Abstract!TailAfterDelete(n, t, n)]
    <2>1. Abstract!TailAfterDelete(n, t, n) = IF t = n THEN 1 ELSE t
      BY <1>2 DEF Abstract!TailAfterDelete
    <2>2. CASE t = n
      <3>1. h.tail = p /\ 1 \in 1 .. n - 1
        BY <1>2, <1>4, <1>21, <2>2
      <3> QED BY <1>5, <1>9, <1>11, <2>1, <2>2, <3>1
    <2>3. CASE t = 1
      <3>1. h.tail = q /\ 1 \in 1 .. n - 1 /\ t # n
        BY <1>2, <1>4, <1>21, <2>3
      <3> QED BY <1>9, <1>11, <2>1, <2>3, <3>1
    <2>4. CASE t # n /\ t # 1
      <3>1. t \in 1 .. n - 1
        BY <1>2, <2>4
      <3>2. h.tail # q
        BY <1>2, <1>4, <1>5, <1>21, <2>4
      <3> QED BY <1>9, <1>11, <1>21, <2>1, <2>4, <3>1, <3>2
    <2> QED BY <2>2, <2>3, <2>4
  <1> QED BY <1>1, <1>13, <1>19, <1>20, <1>21 DEF Shrunk

\* Whichever node holds the data, its data is all the list loses.
LEMMA DeleteShapes ==
  ASSUME NEW D, NEW m \in Memories(D), NEW h \in Headers, NEW a, NEW s, Shape(m, h, a, s),
         NEW x, NEW k \in 1 .. Len(s), m.data[s[k]] = x,
         \A j \in 1 .. Len(s) : m.data[s[j]] = x => j = k,
         NEW r, r = DeleteNode(m, h, x)
  PROVE  /\ r.m \in Memories(D) /\ r.l \in Headers /\ r.l.count = h.count - 1
         /\ r.freed \in a
         /\ \E c \in Seq(Node) : Shrunk(m, h, a, s, k, r, c)
  <1>1. /\ r.m \in Memories(D) /\ r.l \in Headers
        /\ Emptied(m, h, s[k], Successor(s, k), r)
    BY DeleteNodeIs
  <1>2. Len(s) \in Nat /\ \A i \in 1 .. Len(s) : s[i] \in a
    BY ShapeDistinct
  <1>3. r.l.count = h.count - 1 /\ r.freed \in a
    <2>1. Successor(s, k) \in a
      <3>1. 1 \in 1 .. Len(s) /\ (k < Len(s) => k + 1 \in 1 .. Len(s))
        BY <1>2
      <3> QED BY <1>2, <3>1 DEF Successor
    <2> QED BY <1>1, <2>1 DEF Emptied
  <1>4. ASSUME Len(s) = 1
        PROVE  \E c \in Seq(Node) : Shrunk(m, h, a, s, k, r, c)
    <2>1. k = 1 /\ Successor(s, k) = s[1]
      BY <1>4 DEF Successor
    <2>2. Emptied(m, h, s[1], s[1], r)
      BY <1>1, <2>1
    <2>3. Shrunk(m, h, a, s, 1, r, << >>)
      BY <1>4, <2>2, DeleteOnly
    <2>4. PICK c : c = << >>
      OBVIOUS
    <2>5. c \in Seq(Node) /\ Shrunk(m, h, a, s, k, r, c)
      BY <2>1, <2>3, <2>4
    <2> QED BY <2>5
  <1>5. ASSUME k < Len(s)
        PROVE  \E c \in Seq(Node) : Shrunk(m, h, a, s, k, r, c)
    <2>1. Emptied(m, h, s[k], s[k + 1], r)
      BY <1>1, <1>5 DEF Successor
    <2> QED BY <1>5, <2>1, DeleteInner
  <1>6. ASSUME k = Len(s), Len(s) > 1
        PROVE  \E c \in Seq(Node) : Shrunk(m, h, a, s, k, r, c)
    <2>1. Emptied(m, h, s[Len(s)], s[1], r)
      BY <1>1, <1>6 DEF Successor
    <2>2. \E c \in Seq(Node) : Shrunk(m, h, a, s, Len(s), r, c)
      BY <1>6, <2>1, DeleteLast
    <2> QED BY <1>6, <2>2
  <1>7. Len(s) = 1 \/ k < Len(s) \/ (k = Len(s) /\ Len(s) > 1)
    <2>1. PICK n \in Nat : n = Len(s)
      BY <1>2
    <2>2. k \in 1 .. n
      BY <2>1
    <2>3. n = 1 \/ k < n \/ (k = n /\ n > 1)
      BY <2>2
    <2> QED BY <2>1, <2>3
  <1>8. \E c \in Seq(Node) : Shrunk(m, h, a, s, k, r, c)
    BY <1>4, <1>5, <1>6, <1>7
  <1> QED BY <1>1, <1>3, <1>8

-----------------------------------------------------------------------------
(* Freed nodes                                                             *)

\* Overwriting nodes that are not on the list changes nothing of it.
LEMMA ScrubbedShape ==
  ASSUME NEW D, NONE \in D, NEW m \in Memories(D), NEW h, NEW a, NEW s, Shape(m, h, a, s),
         NEW gone, gone \cap a = {}
  PROVE  /\ Scrubbed(m, gone) \in Memories(D)
         /\ Shape(Scrubbed(m, gone), h, a, s)
         /\ \A y \in a : Scrubbed(m, gone).data[y] = m.data[y]
  <1>1. m.next \in [Node -> Node \cup {NIL}] /\ m.prev \in [Node -> Node \cup {NIL}]
        /\ m.data \in [Node -> D]
    BY DEF Memories
  <1>2. PICK w : w = Scrubbed(m, gone)
    OBVIOUS
  <1>3. /\ w.next = [n \in Node |-> IF n \in gone THEN NIL ELSE m.next[n]]
        /\ w.prev = [n \in Node |-> IF n \in gone THEN NIL ELSE m.prev[n]]
        /\ w.data = [n \in Node |-> IF n \in gone THEN NONE ELSE m.data[n]]
    BY <1>2 DEF Scrubbed
  <1>4. w \in Memories(D)
    <2>1. \A n \in Node : /\ (IF n \in gone THEN NIL ELSE m.next[n]) \in Node \cup {NIL}
                          /\ (IF n \in gone THEN NIL ELSE m.prev[n]) \in Node \cup {NIL}
                          /\ (IF n \in gone THEN NONE ELSE m.data[n]) \in D
      BY <1>1
    <2> QED BY <1>2, <2>1 DEF Scrubbed, Memories
  <1>5. /\ s \in Seq(Node) /\ Len(s) \in Nat
        /\ \A i \in 1 .. Len(s) : s[i] \in Node /\ s[i] \in a
        /\ a \subseteq Node
    BY ShapeDistinct
  <1>6. \A y \in a : w.next[y] = m.next[y] /\ w.prev[y] = m.prev[y] /\ w.data[y] = m.data[y]
    BY <1>3, <1>5
  <1>7. ASSUME s # << >>
        PROVE  Cycle(w.next, s) /\ Back(w.prev, s)
    <2>1. Cycle(m.next, s) /\ Back(m.prev, s)
      BY <1>7 DEF Shape
    <2>2. Len(s) \in 1 .. Len(s) /\ 1 \in 1 .. Len(s)
      BY <1>5, <1>7
    <2>3. \A i \in 1 .. Len(s) - 1 : i \in 1 .. Len(s) /\ i + 1 \in 1 .. Len(s)
      BY <1>5
    <2>4. Cycle(w.next, s)
      BY <1>5, <1>6, <2>1, <2>2, <2>3 DEF Cycle
    <2>5. Back(w.prev, s)
      BY <1>5, <1>6, <2>1, <2>2, <2>3 DEF Back
    <2> QED BY <2>4, <2>5
  <1>8. Shape(w, h, a, s)
    BY <1>7 DEF Shape
  <1> QED BY <1>2, <1>4, <1>6, <1>8

-----------------------------------------------------------------------------
(* What callers see of a ring of nodes                                     *)

ItemsOf(m, s) == [k \in 1 .. Len(s) |-> m.data[s[k]]]

\* t is the place of list->tail on s.
TailAt(h, s, t) == IF s = << >> THEN t = 0 ELSE t \in 1 .. Len(s) /\ h.tail = s[t]

ItemsIn(m, h) == [k \in DOMAIN Ring(m, h) |-> m.data[Ring(m, h)[k]]]

TailIn(m, h) ==
  IF h.tail = NIL THEN 0 ELSE CHOOSE k \in DOMAIN Ring(m, h) : Ring(m, h)[k] = h.tail

\* list->tail has a place on the ring.
LEMMA TailExists ==
  ASSUME NEW m, NEW h, NEW a, NEW s, Shape(m, h, a, s)
  PROVE  \E t : TailAt(h, s, t)
  <1>1. CASE s = << >>
    BY <1>1 DEF TailAt
  <1>2. CASE s # << >>
    <2>1. h.tail \in {s[k] : k \in 1 .. Len(s)}
      BY <1>2 DEF Shape
    <2> QED BY <1>2, <2>1 DEF TailAt
  <1> QED BY <1>1, <1>2

\* There is an item for each node.
LEMMA ItemsOfElements ==
  ASSUME NEW m, NEW s, Len(s) \in Nat
  PROVE  /\ Len(ItemsOf(m, s)) = Len(s)
         /\ \A k \in 1 .. Len(s) : ItemsOf(m, s)[k] = m.data[s[k]]
         /\ ItemsOf(m, s) = << >> <=> Len(s) = 0
  <1>1. PICK n \in Nat : n = Len(s)
    OBVIOUS
  <1>2. PICK i : i = [k \in 1 .. n |-> m.data[s[k]]]
    OBVIOUS
  <1>3. i = ItemsOf(m, s)
    BY <1>1, <1>2 DEF ItemsOf
  <1>4. Len(i) = n /\ (\A k \in 1 .. n : i[k] = m.data[s[k]])
    BY <1>2
  <1>5. i = << >> <=> n = 0
    BY <1>2, <1>4
  <1> QED BY <1>1, <1>3, <1>4, <1>5

\* The refinement mapping reads the shape.
LEMMA ViewIs ==
  ASSUME NEW m, NEW h, NEW a, NEW s, Shape(m, h, a, s), NEW t, TailAt(h, s, t)
  PROVE  ItemsIn(m, h) = ItemsOf(m, s) /\ TailIn(m, h) = t
  <1>1. Ring(m, h) = s
    BY ShapeRing
  <1>2. /\ s \in Seq(Node) /\ Len(s) \in Nat
        /\ \A k \in 1 .. Len(s) : s[k] \in Node
        /\ \A i, j \in 1 .. Len(s) : s[i] = s[j] => i = j
    BY ShapeDistinct
  <1>3. DOMAIN s = 1 .. Len(s)
    BY <1>2
  <1>4. ItemsIn(m, h) = ItemsOf(m, s)
    BY <1>1, <1>3 DEF ItemsIn, ItemsOf
  <1>5. CASE s = << >>
    BY <1>4, <1>5 DEF Shape, TailAt, TailIn
  <1>6. CASE s # << >>
    <2>1. t \in 1 .. Len(s) /\ h.tail = s[t]
      BY <1>6 DEF TailAt
    <2>2. h.tail # NIL
      BY <1>2, <2>1, NodeAssumption
    <2>3. TailIn(m, h) = CHOOSE k \in 1 .. Len(s) : s[k] = h.tail
      BY <1>1, <1>3, <2>2 DEF TailIn
    <2>4. \A k \in 1 .. Len(s) : s[k] = h.tail => k = t
      BY <1>2, <2>1
    <2>5. TailIn(m, h) = t
      BY <2>1, <2>3, <2>4
    <2> QED BY <1>4, <2>5
  <1> QED BY <1>5, <1>6

\* Functions on the same interval with the same values are equal.
LEMMA SameItems ==
  ASSUME NEW n \in Nat, NEW f, NEW g, f = [k \in 1 .. n |-> f[k]], g = [k \in 1 .. n |-> g[k]],
         \A k \in 1 .. n : f[k] = g[k]
  PROVE  f = g
  OBVIOUS

\* Where the items are after one was put behind the head.
LEMMA InsertAtElements ==
  ASSUME NEW S, NEW s \in Seq(S), s # << >>, NEW x \in S
  PROVE  /\ Abstract!InsertAt(s, 2, x) \in Seq(S)
         /\ Len(Abstract!InsertAt(s, 2, x)) = Len(s) + 1
         /\ \A k \in 1 .. Len(s) + 1 :
              Abstract!InsertAt(s, 2, x)[k] = IF k = 1 THEN s[1] ELSE IF k = 2 THEN x ELSE s[k - 1]
  BY DEF Abstract!InsertAt

\* Of the list s, t callers see the list c after they added x.
SeenAdded(m, s, t, x, r, c) ==
  \E u : /\ TailAt(r.l, c, u)
         /\ [items |-> ItemsOf(r.m, c), tail |-> u]
              = Abstract!AddData([items |-> ItemsOf(m, s), tail |-> t], x)

\* What link_list_add_data does to the nodes is AddData.
LEMMA AddView ==
  ASSUME NEW D, NEW m \in Memories(D), NEW h \in Headers, NEW a, NEW s, Shape(m, h, a, s),
         NEW t, TailAt(h, s, t), NEW n \in Node \ a, NEW x \in D,
         NEW r, r.m.data = [m.data EXCEPT ![n] = x], NEW c \in Seq(Node), Grown(h, a, s, n, r, c)
  PROVE  SeenAdded(m, s, t, x, r, c)
  <1>1. PICK w, l : w = r.m /\ l = r.l
    OBVIOUS
  <1>2. PICK len \in Nat : len = Len(s)
    BY ShapeDistinct
  <1>3. /\ s \in Seq(Node)
        /\ \A k \in 1 .. len : s[k] \in Node /\ s[k] \in a
        /\ a \subseteq Node
    BY <1>2, ShapeDistinct
  <1>4. m.data \in [Node -> D]
    BY DEF Memories
  <1>5. w.data[n] = x /\ \A y \in a : w.data[y] = m.data[y]
    BY <1>1, <1>3, <1>4
  <1>6. PICK i : i = ItemsOf(m, s)
    OBVIOUS
  <1>7. PICK j : j = ItemsOf(w, c)
    OBVIOUS
  <1>8. Inserted(s, c, n) /\ Len(c) = len + 1 /\ c # << >>
    BY <1>2 DEF Grown, Inserted
  <1>9. Len(i) = len /\ (\A k \in 1 .. len : i[k] = m.data[s[k]]) /\ (i = << >> <=> len = 0)
    BY <1>2, <1>6, ItemsOfElements
  <1>10. j = [k \in 1 .. len + 1 |-> w.data[c[k]]]
    BY <1>7, <1>8 DEF ItemsOf
  <1>11. CASE len = 0
    <2>1. c[1] = n
      BY <1>2, <1>8, <1>11 DEF Inserted
    <2>2. j = << x >>
      <3>1. j = [k \in 1 .. 1 |-> w.data[c[k]]]
        BY <1>10, <1>11
      <3>2. \A k \in 1 .. 1 : w.data[c[k]] = x
        BY <1>5, <2>1
      <3> QED BY <3>1, <3>2
    <2>3. Abstract!AddData([items |-> i, tail |-> t], x) = [items |-> << x >>, tail |-> 1]
      BY <1>9, <1>11 DEF Abstract!AddData
    <2>4. TailAt(l, c, 1)
      BY <1>1, <1>2, <1>8, <1>11 DEF TailAt, Grown
    <2> QED BY <1>1, <1>6, <1>7, <2>2, <2>3, <2>4 DEF SeenAdded
  <1>12. CASE len # 0
    <2>1. t \in 1 .. len /\ h.tail = s[t]
      BY <1>2, <1>12 DEF TailAt
    <2>2. PICK u : u = TailAfterAdd(len, t)
      OBVIOUS
    <2>3. u = IF len = 1 THEN 2 ELSE IF t > 1 THEN t + 1 ELSE t
      BY <1>12, <2>2 DEF TailAfterAdd
    <2>4. u \in 1 .. len + 1
      BY <1>12, <2>1, <2>3
    <2>5. TailAt(l, c, u)
      BY <1>1, <1>2, <1>8, <2>1, <2>2, <2>4 DEF TailAt, Grown
    <2>6. PICK b : b = Abstract!InsertAt(i, 2, x)
      OBVIOUS
    <2>7. i \in Seq(D)
      <3>1. \A k \in 1 .. len : m.data[s[k]] \in D
        BY <1>3, <1>4
      <3>2. i = [k \in 1 .. len |-> m.data[s[k]]]
        BY <1>2, <1>6 DEF ItemsOf
      <3>3. i \in [1 .. len -> D]
        BY <3>1, <3>2
      <3> QED BY <3>3
    <2>8. /\ b \in Seq(D) /\ Len(b) = len + 1
          /\ \A k \in 1 .. len + 1 : b[k] = IF k = 1 THEN i[1] ELSE IF k = 2 THEN x ELSE i[k - 1]
      <3>1. i # << >> /\ i \in Seq(D)
        BY <1>9, <1>12, <2>7
      <3>2. /\ Abstract!InsertAt(i, 2, x) \in Seq(D)
            /\ Len(Abstract!InsertAt(i, 2, x)) = Len(i) + 1
            /\ \A k \in 1 .. Len(i) + 1 :
                 Abstract!InsertAt(i, 2, x)[k] = IF k = 1 THEN i[1] ELSE IF k = 2 THEN x ELSE i[k - 1]
        BY <3>1, InsertAtElements
      <3> QED BY <1>9, <2>6, <3>2
    <2>9. \A k \in 1 .. len + 1 : w.data[c[k]] = b[k]
      <3> SUFFICES ASSUME NEW k \in 1 .. len + 1
                   PROVE  w.data[c[k]] = b[k]
        OBVIOUS
      <3>1. CASE k = 1
        <4>1. c[1] = s[1] /\ 1 \in 1 .. len
          BY <1>2, <1>8, <1>12 DEF Inserted
        <4> QED BY <1>3, <1>5, <1>9, <2>8, <3>1, <4>1
      <3>2. CASE k = 2
        <4>1. c[2] = n
          BY <1>2, <1>8, <1>12 DEF Inserted
        <4> QED BY <1>5, <2>8, <3>2, <4>1
      <3>3. CASE k > 2
        <4>1. k - 1 \in 2 .. len /\ k - 1 \in 1 .. len /\ k - 1 + 1 = k
          BY <3>3
        <4>2. c[k] = s[k - 1]
          BY <1>2, <1>8, <4>1 DEF Inserted
        <4>3. b[k] = i[k - 1]
          BY <2>8, <3>3
        <4> QED BY <1>3, <1>5, <1>9, <4>1, <4>2, <4>3
      <3> QED BY <3>1, <3>2, <3>3
    <2>10. j = b
      <3>1. b = [k \in 1 .. len + 1 |-> b[k]]
        BY <2>8
      <3>2. \A k \in 1 .. len + 1 : j[k] = b[k]
        BY <1>10, <2>9
      <3>3. j = [k \in 1 .. len + 1 |-> j[k]]
        BY <1>10
      <3>4. len + 1 \in Nat
        OBVIOUS
      <3> QED BY <3>1, <3>2, <3>3, <3>4, SameItems
    <2>11. Abstract!AddData([items |-> i, tail |-> t], x)
             = [items |-> b, tail |-> IF len = 1 THEN 2 ELSE IF t > 1 THEN t + 1 ELSE t]
      BY <1>9, <1>12, <2>6 DEF Abstract!AddData
    <2>12. Abstract!AddData([items |-> i, tail |-> t], x) = [items |-> j, tail |-> u]
      BY <2>3, <2>10, <2>11
    <2> QED BY <1>1, <1>6, <1>7, <2>5, <2>12 DEF SeenAdded
  <1> QED BY <1>11, <1>12

\* Where the items are after one of them was removed.
LEMMA RemoveAtElements ==
  ASSUME NEW S, NEW s \in Seq(S), NEW i \in 1 .. Len(s)
  PROVE  /\ Abstract!RemoveAt(s, i) \in Seq(S)
         /\ Len(Abstract!RemoveAt(s, i)) = Len(s) - 1
         /\ \A k \in 1 .. Len(s) - 1 :
              Abstract!RemoveAt(s, i)[k] = IF k < i THEN s[k] ELSE s[k + 1]
<1> DEFINE a == SubSeq(s, 1, i - 1)
           b == SubSeq(s, i + 1, Len(s))
<1>1. Len(s) \in Nat
  OBVIOUS
<1>2. a \in Seq(S) /\ Len(a) = i - 1 /\ \A k \in 1 .. i - 1 : a[k] = s[k]
  OBVIOUS
<1>3. b \in Seq(S) /\ Len(b) = Len(s) - i /\ \A k \in 1 .. Len(s) - i : b[k] = s[i + k]
  OBVIOUS
<1>4. Abstract!RemoveAt(s, i) = a \o b
  BY DEF Abstract!RemoveAt
<1> HIDE DEF a, b
<1>5. /\ a \o b \in Seq(S)
      /\ Len(a \o b) = Len(a) + Len(b)
      /\ \A k \in 1 .. Len(a) + Len(b) :
           (a \o b)[k] = IF k <= Len(a) THEN a[k] ELSE b[k - Len(a)]
  <2>1. a \in Seq(S) /\ b \in Seq(S)
    BY <1>2, <1>3
  <2> QED
    BY <2>1
<1>6. ASSUME NEW k \in 1 .. Len(s) - 1, k >= i PROVE b[k - (i - 1)] = s[k + 1]
  BY <1>1, <1>3, <1>6
<1>7. PICK r : r = a \o b
  OBVIOUS
<1>8. r \in Seq(S) /\ Len(r) = Len(s) - 1
  BY <1>1, <1>2, <1>3, <1>5, <1>7
<1>9. ASSUME NEW k \in 1 .. Len(s) - 1
      PROVE  r[k] = IF k < i THEN s[k] ELSE s[k + 1]
  <2>1. k \in Nat /\ k \in 1 .. Len(a) + Len(b) /\ Len(a) = i - 1 /\ i \in Nat
    BY <1>1, <1>2, <1>3
  <2>2. r[k] = IF k <= i - 1 THEN a[k] ELSE b[k - (i - 1)]
    BY <1>5, <1>7, <2>1
  <2>3. CASE k < i
    BY <1>1, <1>2, <2>1, <2>2, <2>3
  <2>4. CASE ~ (k < i)
    BY <1>6, <2>1, <2>2, <2>4
  <2> QED BY <2>3, <2>4
<1> QED BY <1>4, <1>7, <1>8, <1>9

\* Of the list s, t callers see the list c after they deleted x.
SeenDeleted(m, s, t, x, r, c) ==
  \E u : /\ TailAt(r.l, c, u)
         /\ [items |-> ItemsOf(r.m, c), tail |-> u]
              = Abstract!DeleteData([items |-> ItemsOf(m, s), tail |-> t], x)

\* What link_list_delete_data does to the nodes is DeleteData.
LEMMA DeleteView ==
  ASSUME NEW D, NEW m \in Memories(D), NEW h, NEW a, NEW s, Shape(m, h, a, s),
         NEW t, TailAt(h, s, t), NEW x, NEW k \in 1 .. Len(s), m.data[s[k]] = x,
         \A i \in 1 .. Len(s) : m.data[s[i]] = x => i = k,
         NEW r, NEW c \in Seq(Node), Shrunk(m, h, a, s, k, r, c)
  PROVE  SeenDeleted(m, s, t, x, r, c)
  <1>1. PICK n \in Nat : n = Len(s)
    BY ShapeDistinct
  <1>2. /\ s \in Seq(Node) /\ k \in 1 .. n
        /\ \A i \in 1 .. n : s[i] \in Node
    BY <1>1, ShapeDistinct
  <1>3. m.data \in [Node -> D]
    BY DEF Memories
  <1>4. PICK i : i = ItemsOf(m, s)
    OBVIOUS
  <1>5. PICK j : j = ItemsOf(r.m, c)
    OBVIOUS
  <1>6. Len(i) = n /\ \A y \in 1 .. n : i[y] = m.data[s[y]]
    BY <1>1, <1>4, ItemsOfElements
  <1>7. i \in Seq(D)
    <2>1. \A y \in 1 .. n : m.data[s[y]] \in D
      BY <1>2, <1>3
    <2>2. i = [y \in 1 .. n |-> m.data[s[y]]]
      BY <1>1, <1>4 DEF ItemsOf
    <2>3. i \in [1 .. n -> D]
      BY <2>1, <2>2
    <2> QED BY <2>3
  <1>8. PICK b : b = Abstract!RemoveAt(i, k)
    OBVIOUS
  <1>9. /\ b \in Seq(D) /\ Len(b) = n - 1
        /\ \A y \in 1 .. n - 1 : b[y] = IF y < k THEN i[y] ELSE i[y + 1]
    <2>1. k \in 1 .. Len(i) /\ i \in Seq(D)
      BY <1>2, <1>6, <1>7
    <2>2. /\ Abstract!RemoveAt(i, k) \in Seq(D)
          /\ Len(Abstract!RemoveAt(i, k)) = Len(i) - 1
          /\ \A y \in 1 .. Len(i) - 1 :
               Abstract!RemoveAt(i, k)[y] = IF y < k THEN i[y] ELSE i[y + 1]
      BY <2>1, RemoveAtElements
    <2> QED BY <1>6, <1>8, <2>2
  <1>10. Len(c) = n - 1 /\ \A y \in 1 .. n - 1 : r.m.data[c[y]] = IF y < k THEN m.data[s[y]] ELSE m.data[s[y + 1]]
    BY <1>1 DEF Shrunk, Dropped
  <1>11. n - 1 \in Nat
    BY <1>2
  <1>12. j = b
    <2>1. j = [y \in 1 .. n - 1 |-> r.m.data[c[y]]]
      BY <1>5, <1>10 DEF ItemsOf
    <2>2. j = [y \in 1 .. n - 1 |-> j[y]]
      BY <2>1
    <2>3. b = [y \in 1 .. n - 1 |-> b[y]]
      BY <1>9
    <2>4. \A y \in 1 .. n - 1 : y \in 1 .. n /\ y + 1 \in 1 .. n
      BY <1>11
    <2>5. \A y \in 1 .. n - 1 : b[y] = IF y < k THEN m.data[s[y]] ELSE m.data[s[y + 1]]
      BY <1>6, <1>9, <2>4
    <2>6. \A y \in 1 .. n - 1 : j[y] = b[y]
      BY <1>10, <2>1, <2>5
    <2> QED BY <1>11, <2>2, <2>3, <2>6, SameItems
  <1>13. PICK l : l = [items |-> i, tail |-> t]
    OBVIOUS
  <1>14. Abstract!DeleteData(l, x) = [items |-> b, tail |-> Abstract!TailAfterDelete(n, t, k)]
    <2>1. l.items = i /\ l.tail = t
      BY <1>13
    <2>2. i[k] = x /\ k \in 1 .. Len(i)
      BY <1>2, <1>6
    <2>3. \A y \in 1 .. Len(i) : i[y] = x => y = k
      BY <1>1, <1>6
    <2>4. Abstract!Listed(l, x)
      BY <2>1, <2>2 DEF Abstract!Listed, Abstract!Contains
    <2>5. Abstract!PosOf(l, x) = k
      BY <2>1, <2>2, <2>3 DEF Abstract!PosOf
    <2> QED BY <1>6, <1>8, <2>1, <2>4, <2>5 DEF Abstract!DeleteData
  <1>15. s # << >> /\ t \in 1 .. n /\ h.tail = s[t]
    <2>1. s # << >>
      BY <1>1, <1>2
    <2> QED BY <1>1, <2>1 DEF TailAt
  <1>16. PICK u : u = Abstract!TailAfterDelete(n, t, k)
    OBVIOUS
  <1>17. TailAt(r.l, c, u)
    <2>1. CASE n = 1
      <3>1. c = << >>
        BY <1>10, <2>1
      <3>2. u = 0
        BY <1>16, <2>1 DEF Abstract!TailAfterDelete
      <3> QED BY <3>1, <3>2 DEF TailAt
    <2>2. CASE n # 1
      <3>1. u \in 1 .. Len(c) /\ r.l.tail = c[u]
        BY <1>1, <1>15, <1>16, <2>2 DEF Shrunk
      <3>2. c # << >>
        BY <1>10, <3>1
      <3> QED BY <3>1, <3>2 DEF TailAt
    <2> QED BY <2>1, <2>2
  <1>18. [items |-> j, tail |-> u] = Abstract!DeleteData(l, x)
    BY <1>12, <1>14, <1>16
  <1> QED BY <1>4, <1>5, <1>13, <1>17, <1>18 DEF SeenDeleted

-----------------------------------------------------------------------------
(* The inductive invariant                                                 *)

\* The data on the list are different data pointers.
Valued(m, s) ==
  /\ \A k \in 1 .. Len(s) : m.data[s[k]] \in Data
  /\ \A i, j \in 1 .. Len(s) : m.data[s[i]] = m.data[s[j]] => i = j

Listing(m, h, a, n, s) == Shape(m, h, a, s) /\ Valued(m, s) /\ h.count = Len(s) - n

Typed ==
  /\ type \in {REGULAR, QUEUE}
  /\ mem \in Memories(Data \cup {NONE})
  /\ header \in Headers
  /\ misses \in Nat

Inv == Typed /\ \E s : Listing(mem, header, allocated, misses, s)

\* Adding data that is not on the list keeps the data different.
LEMMA AddValued ==
  ASSUME NEW D, NEW m \in Memories(D), NEW h, NEW a, NEW s, Shape(m, h, a, s), Valued(m, s),
         NEW n \in Node \ a, NEW x \in Data, \A k \in 1 .. Len(s) : m.data[s[k]] # x,
         NEW c \in Seq(Node), Inserted(s, c, n), NEW w, w.data = [m.data EXCEPT ![n] = x]
  PROVE  Valued(w, c)
  <1>1. PICK len \in Nat : len = Len(s)
    BY ShapeDistinct
  <1>2. /\ \A k \in 1 .. len : s[k] \in Node /\ s[k] \in a
        /\ a \subseteq Node
    BY <1>1, ShapeDistinct
  <1>3. m.data \in [Node -> D]
    BY DEF Memories
  <1>4. w.data[n] = x /\ \A y \in a : w.data[y] = m.data[y]
    BY <1>2, <1>3
  <1>5. PICK e : e = (IF len = 0 THEN 1 ELSE 2)
    OBVIOUS
  <1>6. Len(c) = len + 1 /\ w.data[c[e]] = x
    BY <1>1, <1>4, <1>5 DEF Inserted
  <1>7. \A k \in 1 .. len + 1 : k # e => \E i \in 1 .. len : i = (IF k = 1 THEN 1 ELSE k - 1) /\ w.data[c[k]] = m.data[s[i]]
    <2> SUFFICES ASSUME NEW k \in 1 .. len + 1, k # e
                 PROVE  \E i \in 1 .. len : i = (IF k = 1 THEN 1 ELSE k - 1) /\ w.data[c[k]] = m.data[s[i]]
      OBVIOUS
    <2>1. CASE k = 1
      <3>1. c[1] = s[1] /\ 1 \in 1 .. len
        BY <1>1, <1>5, <2>1 DEF Inserted
      <3> QED BY <1>2, <1>4, <2>1, <3>1
    <2>2. CASE k # 1
      <3>1. k - 1 \in 2 .. len /\ k - 1 \in 1 .. len /\ k - 1 + 1 = k
        BY <1>5, <2>2
      <3>2. c[k] = s[k - 1]
        BY <1>1, <3>1 DEF Inserted
      <3> QED BY <1>2, <1>4, <2>2, <3>1, <3>2
    <2> QED BY <2>1, <2>2
  <1>8. ASSUME NEW k \in 1 .. len + 1
        PROVE  w.data[c[k]] \in Data
    BY <1>1, <1>6, <1>7 DEF Valued
  <1>9. ASSUME NEW i \in 1 .. len + 1, NEW j \in 1 .. len + 1, w.data[c[i]] = w.data[c[j]], i # e, j # e
        PROVE  i = j
    <2>1. PICK y \in 1 .. len : y = (IF i = 1 THEN 1 ELSE i - 1) /\ w.data[c[i]] = m.data[s[y]]
      BY <1>7, <1>9
    <2>2. PICK z \in 1 .. len : z = (IF j = 1 THEN 1 ELSE j - 1) /\ w.data[c[j]] = m.data[s[z]]
      BY <1>7, <1>9
    <2>3. y = z
      BY <1>1, <1>9, <2>1, <2>2 DEF Valued
    <2> QED BY <1>5, <1>9, <2>1, <2>2, <2>3
  <1>10. ASSUME NEW i \in 1 .. len + 1, w.data[c[i]] = x
         PROVE  i = e
    BY <1>1, <1>7, <1>10
  <1>11. \A i, j \in 1 .. len + 1 : w.data[c[i]] = w.data[c[j]] => i = j
    BY <1>6, <1>9, <1>10
  <1> QED BY <1>6, <1>8, <1>11 DEF Valued

\* Deleting data keeps the rest different.
LEMMA DeleteValued ==
  ASSUME NEW m, NEW w, NEW s, Len(s) \in Nat, Valued(m, s), NEW k \in 1 .. Len(s),
         NEW c, Dropped(m.data, s, w.data, c, k)
  PROVE  Valued(w, c)
  <1>1. PICK n \in Nat : n = Len(s)
    OBVIOUS
  <1>2. Len(c) = n - 1 /\ k \in 1 .. n
        /\ \A y \in 1 .. n - 1 : w.data[c[y]] = IF y < k THEN m.data[s[y]] ELSE m.data[s[y + 1]]
    BY <1>1 DEF Dropped
  <1>3. \A y \in 1 .. n - 1 : \E i \in 1 .. n : i = (IF y < k THEN y ELSE y + 1) /\ w.data[c[y]] = m.data[s[i]]
    <2> SUFFICES ASSUME NEW y \in 1 .. n - 1
                 PROVE  \E i \in 1 .. n : i = (IF y < k THEN y ELSE y + 1) /\ w.data[c[y]] = m.data[s[i]]
      OBVIOUS
    <2>1. y \in 1 .. n /\ y + 1 \in 1 .. n
      OBVIOUS
    <2> QED BY <1>2, <2>1
  <1>4. ASSUME NEW y \in 1 .. n - 1
        PROVE  w.data[c[y]] \in Data
    BY <1>1, <1>3 DEF Valued
  <1>5. ASSUME NEW i \in 1 .. n - 1, NEW j \in 1 .. n - 1, w.data[c[i]] = w.data[c[j]]
        PROVE  i = j
    <2>1. PICK y \in 1 .. n : y = (IF i < k THEN i ELSE i + 1) /\ w.data[c[i]] = m.data[s[y]]
      BY <1>3
    <2>2. PICK z \in 1 .. n : z = (IF j < k THEN j ELSE j + 1) /\ w.data[c[j]] = m.data[s[z]]
      BY <1>3
    <2>3. y = z
      BY <1>1, <1>5, <2>1, <2>2 DEF Valued
    <2> QED BY <1>2, <2>1, <2>2, <2>3
  <1> QED BY <1>2, <1>4, <1>5 DEF Valued

\* Items and TailPos are the view of the nodes the list owns, now and next.
LEMMA ViewNow ==
  ASSUME NEW s, NEW t, Shape(mem, header, allocated, s), TailAt(header, s, t)
  PROVE  Items = ItemsOf(mem, s) /\ TailPos = t
  <1>1. ItemsIn(mem, header) = ItemsOf(mem, s) /\ TailIn(mem, header) = t
    BY ViewIs
  <1> QED BY <1>1 DEF Items, TailPos, ItemsIn, TailIn

\* The same in the next state.
LEMMA ViewNext ==
  ASSUME NEW s, NEW t, Shape(mem', header', allocated', s), TailAt(header', s, t)
  PROVE  Items' = ItemsOf(mem', s) /\ TailPos' = t
  <1>1. ItemsIn(mem', header') = ItemsOf(mem', s) /\ TailIn(mem', header') = t
    BY ViewIs
  <1> QED BY <1>1 DEF Items, TailPos, ItemsIn, TailIn

\* link_list_find_data finds data exactly if a node of the ring holds it.
LEMMA OnListIs ==
  ASSUME NEW s, Shape(mem, header, allocated, s), NEW x
  PROVE  OnList(x) <=> \E k \in 1 .. Len(s) : mem.data[s[k]] = x
  <1>1. PICK t : TailAt(header, s, t)
    BY TailExists
  <1>2. PICK n \in Nat : n = Len(s)
    BY ShapeDistinct
  <1>3. Items = [k \in 1 .. n |-> mem.data[s[k]]]
    BY <1>1, <1>2, ViewNow DEF ItemsOf
  <1>4. DOMAIN Items = 1 .. n /\ \A k \in 1 .. n : Items[k] = mem.data[s[k]]
    BY <1>3
  <1> QED BY <1>2, <1>4 DEF OnList

-----------------------------------------------------------------------------
(* What the invariant says of the list                                     *)

\* What is on the ring is what the list owns, linked both ways.
LEMMA InvRing ==
  ASSUME Inv
  PROVE  RingIsClosed
  <1>1. Typed
    BY DEF Inv
  <1>2. PICK s : Shape(mem, header, allocated, s)
    BY DEF Inv, Listing
  <1>3. /\ s \in Seq(Node) /\ Len(s) \in Nat
        /\ \A k \in 1 .. Len(s) : s[k] \in Node /\ s[k] \in allocated
        /\ allocated \subseteq Node
    BY <1>2, ShapeDistinct
  <1>4. allocated = {s[k] : k \in 1 .. Len(s)}
    BY <1>2 DEF Shape
  <1>5. header.head \in allocated \cup {NIL} /\ header.tail \in allocated \cup {NIL}
    <2>1. CASE s = << >>
      BY <1>2, <2>1 DEF Shape
    <2>2. CASE s # << >>
      <3>1. 1 \in 1 .. Len(s)
        BY <1>3, <2>2
      <3> QED BY <1>2, <1>3, <2>2, <3>1 DEF Shape
    <2> QED BY <2>1, <2>2
  <1>6. mem \in [next : [Node -> Node \cup {NIL}],
                 prev : [Node -> Node \cup {NIL}],
                 data : [Node -> Data \cup {NONE}]]
    BY <1>1 DEF Typed, Memories
  <1>7. TypeOK
    BY <1>1, <1>3, <1>5, <1>6 DEF Typed, TypeOK
  <1>8. RingNodes = allocated
    <2>1. Ring(mem, header) = s
      BY <1>2, ShapeRing
    <2>2. DOMAIN s = 1 .. Len(s)
      BY <1>3
    <2>3. RingNodes = {s[k] : k \in 1 .. Len(s)}
      BY <2>1, <2>2 DEF RingNodes
    <2> QED BY <1>4, <2>3
  <1>9. ASSUME NEW k \in 1 .. Len(s)
        PROVE  mem.prev[mem.next[s[k]]] = s[k]
    <2>1. s # << >>
      OBVIOUS
    <2>2. Cycle(mem.next, s) /\ Back(mem.prev, s)
      BY <1>2, <2>1 DEF Shape
    <2>3. CASE k = Len(s)
      BY <2>2, <2>3 DEF Cycle, Back
    <2>4. CASE k # Len(s)
      <3>1. k \in 1 .. Len(s) - 1
        BY <1>3, <2>4
      <3> QED BY <2>2, <3>1 DEF Cycle, Back
    <2> QED BY <2>3, <2>4
  <1>10. \A n \in allocated : mem.prev[mem.next[n]] = n
    BY <1>4, <1>9
  <1> QED BY <1>7, <1>8, <1>10 DEF RingIsClosed

\* The tail is one of the nodes, or there are none.
LEMMA InvTail ==
  ASSUME Inv
  PROVE  QueueNeverHidesItems
  <1>1. PICK s : Shape(mem, header, allocated, s)
    BY DEF Inv, Listing
  <1>2. /\ s \in Seq(Node) /\ Len(s) \in Nat
        /\ \A k \in 1 .. Len(s) : s[k] \in allocated
        /\ allocated \subseteq Node
    BY <1>1, ShapeDistinct
  <1>3. CASE s = << >>
    BY <1>1, <1>3 DEF Shape, QueueNeverHidesItems
  <1>4. CASE s # << >>
    <2>1. header.tail \in allocated
      BY <1>1, <1>4 DEF Shape
    <2>2. header.tail # NIL
      BY <1>2, <2>1, NodeAssumption
    <2> QED BY <2>1, <2>2 DEF QueueNeverHidesItems
  <1> QED BY <1>3, <1>4

\* As many nodes as places on the ring.
LEMMA InvCount ==
  ASSUME Inv
  PROVE  CountDriftsByMisses
  <1>1. PICK s : Listing(mem, header, allocated, misses, s)
    BY DEF Inv
  <1>2. PICK n \in Nat : n = Len(s)
    BY <1>1, ShapeDistinct DEF Listing
  <1>3. /\ allocated = {s[k] : k \in 1 .. n}
        /\ \A i, j \in 1 .. n : s[i] = s[j] => i = j
    <2>1. \A i, j \in 1 .. Len(s) : s[i] = s[j] => i = j
      BY <1>1, ShapeDistinct DEF Listing
    <2> QED BY <1>1, <1>2, <2>1 DEF Listing, Shape
  <1>4. PICK f : f = [k \in 1 .. n |-> s[k]]
    OBVIOUS
  <1>5. f \in Bijection(1 .. n, allocated)
    <2>1. f \in [1 .. n -> allocated]
      BY <1>3, <1>4
    <2>2. f \in Injection(1 .. n, allocated)
      <3>1. \A i, j \in 1 .. n : f[i] = f[j] => i = j
        BY <1>3, <1>4
      <3> QED BY <2>1, <3>1 DEF Injection, IsInjective
    <2>3. f \in Surjection(1 .. n, allocated)
      BY <1>3, <1>4, <2>1 DEF Surjection
    <2> QED BY <2>2, <2>3 DEF Bijection
  <1>6. Cardinality(allocated) = n
    <2>1. ExistsBijection(1 .. n, allocated)
      BY <1>5 DEF ExistsBijection
    <2> QED BY <2>1, FS_CountingElements
  <1> QED BY <1>1, <1>2, <1>6 DEF Listing, CountDriftsByMisses

-----------------------------------------------------------------------------
(* One step of the nodes is one step of the list                           *)

\* What the callers see.
Seen == [items |-> Items, tail |-> TailPos]

\* link_list_create makes an empty list.
LEMMA NothingListed ==
  ASSUME NEW m, NEW n, n = 0
  PROVE  Listing(m, EmptyHeader, {}, n, << >>) /\ TailAt(EmptyHeader, << >>, 0)
  BY DEF Listing, Shape, Valued, EmptyHeader, TailAt

\* The program starts with an empty list of either type.
LEMMA InitSteps ==
  ASSUME Init
  PROVE  Inv /\ Abstract!Init
  <1>1. Listing(mem, header, allocated, misses, << >>) /\ TailAt(header, << >>, 0)
    BY NothingListed DEF Init
  <1>2. Typed
    <2>1. mem \in Memories(Data \cup {NONE})
      BY DEF Init, Memories
    <2>2. header \in Headers
      BY DEF Init, EmptyHeader, Headers
    <2> QED BY <2>1, <2>2 DEF Init, Typed
  <1>3. Items = ItemsOf(mem, << >>) /\ TailPos = 0
    BY <1>1, ViewNow DEF Listing
  <1>4. Items = << >>
    BY <1>3, ItemsOfElements
  <1>5. Abstract!Init
    BY <1>3, <1>4 DEF Init, EmptyHeader, REGULAR, QUEUE,
                      Abstract!Init, Abstract!EmptyList, Abstract!REGULAR, Abstract!QUEUE
  <1> QED BY <1>1, <1>2, <1>5 DEF Inv

\* link_list_add_data is the abstract Add.  A new node is always there when
\* the list is shorter than the number of nodes.
LEMMA AddSteps ==
  ASSUME Inv, NEW x \in Data, Add(x)
  PROVE  Inv' /\ Abstract!Add(x)
  <1>1. Typed
    BY DEF Inv
  <1>2. PICK s : Listing(mem, header, allocated, misses, s)
    BY DEF Inv
  <1>3. Shape(mem, header, allocated, s) /\ Valued(mem, s)
    BY <1>2 DEF Listing
  <1>4. PICK t : TailAt(header, s, t)
    BY <1>3, TailExists
  <1>5. PICK n \in Node \ allocated :
          /\ ~ OnList(x)
          /\ mem' = AddNode(mem, header, n, x).m
          /\ header' = AddNode(mem, header, n, x).l
          /\ allocated' = allocated \cup {n}
          /\ out' = NONE
          /\ UNCHANGED << type, misses >>
    BY DEF Add
  <1>6. PICK D : D = Data \cup {NONE}
    OBVIOUS
  <1>7. mem \in Memories(D) /\ header \in Headers /\ x \in D
    BY <1>1, <1>6 DEF Typed
  <1>8. PICK r : r = AddNode(mem, header, n, x)
    OBVIOUS
  <1>9. /\ r.m \in Memories(D) /\ r.l \in Headers /\ r.l.count = header.count + 1
        /\ r.m.data = [mem.data EXCEPT ![n] = x]
        /\ \E c \in Seq(Node) : Grown(header, allocated, s, n, r, c)
    BY <1>3, <1>7, <1>8, AddShapes
  <1>10. PICK c \in Seq(Node) : Grown(header, allocated, s, n, r, c)
    BY <1>9
  <1>11. mem' = r.m /\ header' = r.l
    BY <1>5, <1>8
  <1>12. \A k \in 1 .. Len(s) : mem.data[s[k]] # x
    BY <1>3, <1>5, OnListIs
  <1>13. Valued(mem', c)
    BY <1>3, <1>7, <1>9, <1>10, <1>11, <1>12, AddValued DEF Grown
  <1>14. Shape(mem', header', allocated', c)
    BY <1>5, <1>10, <1>11 DEF Grown
  <1>15. Len(s) \in Nat /\ Len(c) = Len(s) + 1
    BY <1>3, <1>10, ShapeDistinct DEF Grown, Inserted
  <1>16. Listing(mem', header', allocated', misses', c)
    <2>1. header'.count = Len(c) - misses
      BY <1>1, <1>2, <1>9, <1>11, <1>15 DEF Listing, Typed
    <2> QED BY <1>5, <1>13, <1>14, <2>1 DEF Listing
  <1>17. Inv'
    <2>1. Typed'
      BY <1>1, <1>5, <1>6, <1>9, <1>11 DEF Typed
    <2> QED BY <1>16, <2>1 DEF Inv
  <1>18. PICK u : /\ TailAt(header', c, u)
                  /\ [items |-> ItemsOf(mem', c), tail |-> u]
                       = Abstract!AddData([items |-> ItemsOf(mem, s), tail |-> t], x)
    <2>1. SeenAdded(mem, s, t, x, r, c)
      BY <1>3, <1>4, <1>7, <1>9, <1>10, AddView
    <2> QED BY <1>11, <2>1 DEF SeenAdded
  <1>19. Items = ItemsOf(mem, s) /\ TailPos = t
    BY <1>3, <1>4, ViewNow
  <1>20. Items' = ItemsOf(mem', c) /\ TailPos' = u
    BY <1>14, <1>18, ViewNext
  <1>21. [items |-> Items', tail |-> TailPos'] = Abstract!AddData([items |-> Items, tail |-> TailPos], x)
    BY <1>18, <1>19, <1>20
  <1>22. Len(Items) < Cardinality(Node)
    <2>1. Len(Items) = Len(s)
      BY <1>15, <1>19, ItemsOfElements
    <2>2. c # << >>
      BY <1>15
    <2>3. Cycle(mem'.next, c)
      BY <1>14, <2>2 DEF Shape
    <2>4. Len(c) \in 1 .. Cardinality(Node) /\ Cardinality(Node) \in Nat
      BY <2>3, CycleIsShort, NodesAreFinite
    <2> QED BY <1>15, <2>1, <2>4
  <1>23. ~ Abstract!Listed([items |-> Items, tail |-> TailPos], x)
    <2>1. Len(Items) = Len(s) /\ \A k \in 1 .. Len(s) : Items[k] = mem.data[s[k]]
      BY <1>15, <1>19, ItemsOfElements
    <2> QED BY <1>12, <2>1 DEF Abstract!Listed, Abstract!Contains
  <1>24. Abstract!Add(x)
    BY <1>5, <1>9, <1>11, <1>21, <1>22, <1>23 DEF Abstract!Add
  <1> QED BY <1>17, <1>24

\* link_list_delete_data is the abstract Delete, though the node it frees is
\* not the one that held the data.
LEMMA DeleteSteps ==
  ASSUME Inv, NEW x \in Data, Delete(x)
  PROVE  Inv' /\ Abstract!Delete(x)
  <1>1. Typed
    BY DEF Inv
  <1>2. PICK s : Listing(mem, header, allocated, misses, s)
    BY DEF Inv
  <1>3. Shape(mem, header, allocated, s) /\ Valued(mem, s)
    BY <1>2 DEF Listing
  <1>4. PICK t : TailAt(header, s, t)
    BY <1>3, TailExists
  <1>5. PICK r : r = DeleteNode(mem, header, x)
    OBVIOUS
  <1>6. /\ OnList(x)
        /\ mem' = Scrubbed(r.m, {r.freed})
        /\ header' = r.l
        /\ allocated' = allocated \ {r.freed}
        /\ out' = NONE
        /\ UNCHANGED << type, misses >>
    BY <1>5 DEF Delete, Leave
  <1>7. PICK D : D = Data \cup {NONE}
    OBVIOUS
  <1>8. mem \in Memories(D) /\ header \in Headers
    BY <1>1, <1>7 DEF Typed
  <1>9. PICK k \in 1 .. Len(s) : mem.data[s[k]] = x
    BY <1>3, <1>6, OnListIs
  <1>10. \A j \in 1 .. Len(s) : mem.data[s[j]] = x => j = k
    BY <1>3, <1>9 DEF Valued
  <1>11. /\ r.m \in Memories(D) /\ r.l \in Headers /\ r.l.count = header.count - 1
         /\ r.freed \in allocated
         /\ \E c \in Seq(Node) : Shrunk(mem, header, allocated, s, k, r, c)
    BY <1>3, <1>5, <1>8, <1>9, <1>10, DeleteShapes
  <1>12. PICK c \in Seq(Node) : Shrunk(mem, header, allocated, s, k, r, c)
    BY <1>11
  <1>13. Shape(r.m, r.l, allocated \ {r.freed}, c) /\ Dropped(mem.data, s, r.m.data, c, k)
    BY <1>12 DEF Shrunk
  <1>14. Len(s) \in Nat /\ Len(c) = Len(s) - 1
    BY <1>3, <1>13, ShapeDistinct DEF Dropped
  <1>15. Valued(r.m, c)
    BY <1>3, <1>13, <1>14, DeleteValued
  <1>16. /\ mem' \in Memories(D)
         /\ Shape(mem', header', allocated', c)
         /\ \A y \in allocated' : mem'.data[y] = r.m.data[y]
    <2>1. NONE \in D /\ {r.freed} \cap (allocated \ {r.freed}) = {}
      BY <1>7
    <2> QED BY <1>6, <1>11, <1>13, <2>1, ScrubbedShape
  <1>17. \A i \in 1 .. Len(c) : mem'.data[c[i]] = r.m.data[c[i]]
    <2>1. \A i \in 1 .. Len(c) : c[i] \in allocated'
      BY <1>16, ShapeDistinct
    <2> QED BY <1>16, <2>1
  <1>18. Listing(mem', header', allocated', misses', c)
    <2>1. header'.count = Len(c) - misses
      BY <1>1, <1>2, <1>6, <1>11, <1>14 DEF Listing, Typed
    <2>2. Valued(mem', c)
      BY <1>15, <1>17 DEF Valued
    <2> QED BY <1>6, <1>16, <2>1, <2>2 DEF Listing
  <1>19. Inv'
    <2>1. Typed'
      BY <1>1, <1>6, <1>7, <1>11, <1>16 DEF Typed
    <2> QED BY <1>18, <2>1 DEF Inv
  <1>20. PICK u : /\ TailAt(r.l, c, u)
                  /\ [items |-> ItemsOf(r.m, c), tail |-> u]
                       = Abstract!DeleteData([items |-> ItemsOf(mem, s), tail |-> t], x)
    <2>1. mem \in Memories(D) /\ Shape(mem, header, allocated, s) /\ TailAt(header, s, t)
          /\ k \in 1 .. Len(s) /\ mem.data[s[k]] = x /\ c \in Seq(Node)
          /\ Shrunk(mem, header, allocated, s, k, r, c)
      BY <1>3, <1>4, <1>8, <1>9, <1>12
    <2>2. \A i \in 1 .. Len(s) : mem.data[s[i]] = x => i = k
      BY <1>10
    <2>3. SeenDeleted(mem, s, t, x, r, c)
      BY <2>1, <2>2, DeleteView
    <2> QED BY <2>3 DEF SeenDeleted
  <1>21. ItemsOf(mem', c) = ItemsOf(r.m, c)
    BY <1>17 DEF ItemsOf
  <1>22. Items = ItemsOf(mem, s) /\ TailPos = t
    BY <1>3, <1>4, ViewNow
  <1>23. Items' = ItemsOf(mem', c) /\ TailPos' = u
    BY <1>6, <1>16, <1>20, ViewNext
  <1>24. [items |-> Items', tail |-> TailPos'] = Abstract!DeleteData([items |-> Items, tail |-> TailPos], x)
    BY <1>20, <1>21, <1>22, <1>23
  <1>25. Abstract!Listed([items |-> Items, tail |-> TailPos], x)
    <2>1. Len(Items) = Len(s) /\ \A i \in 1 .. Len(s) : Items[i] = mem.data[s[i]]
      BY <1>14, <1>22, ItemsOfElements
    <2> QED BY <1>9, <2>1 DEF Abstract!Listed, Abstract!Contains
  <1>26. Abstract!Delete(x)
    BY <1>6, <1>11, <1>24, <1>25 DEF Abstract!Delete
  <1> QED BY <1>19, <1>26

\* A deletion that finds nothing only counts down.
LEMMA MissingSteps ==
  ASSUME Inv, NEW x \in Data, DeleteMissing(x)
  PROVE  Inv' /\ Abstract!DeleteMissing(x)
  <1>1. Typed
    BY DEF Inv
  <1>2. PICK s : Listing(mem, header, allocated, misses, s)
    BY DEF Inv
  <1>3. Shape(mem, header, allocated, s) /\ Valued(mem, s)
    BY <1>2 DEF Listing
  <1>4. PICK t : TailAt(header, s, t)
    BY <1>3, TailExists
  <1>5. /\ header.head # NIL /\ ~ OnList(x) /\ misses < MaxMisses
        /\ misses' = misses + 1
        /\ header' = [header EXCEPT !.count = @ - 1]
        /\ out' = NONE
        /\ UNCHANGED << type, mem, allocated >>
    BY DEF DeleteMissing
  <1>6. /\ header' \in Headers /\ header'.head = header.head /\ header'.tail = header.tail
        /\ header'.count = header.count - 1 /\ header.count \in Int
    BY <1>1, <1>5 DEF Typed, Headers
  <1>7. Shape(mem', header', allocated', s)
    BY <1>3, <1>5, <1>6 DEF Shape
  <1>8. TailAt(header', s, t)
    BY <1>4, <1>6 DEF TailAt
  <1>9. Len(s) \in Nat
    BY <1>3, ShapeDistinct
  <1>10. Inv'
    <2>1. Typed'
      BY <1>1, <1>5, <1>6 DEF Typed
    <2>2. header'.count = Len(s) - misses'
      BY <1>1, <1>2, <1>5, <1>6, <1>9 DEF Listing, Typed
    <2>3. Valued(mem', s)
      BY <1>3, <1>5
    <2>4. Listing(mem', header', allocated', misses', s)
      BY <1>7, <2>2, <2>3 DEF Listing
    <2> QED BY <2>1, <2>4 DEF Inv
  <1>11. Items = ItemsOf(mem, s) /\ TailPos = t
    BY <1>3, <1>4, ViewNow
  <1>12. Items' = ItemsOf(mem, s) /\ TailPos' = t
    BY <1>5, <1>7, <1>8, ViewNext
  <1>13. Items # << >>
    <2>1. s # << >>
      BY <1>3, <1>5 DEF Shape
    <2>2. Len(s) # 0
      BY <1>3, <2>1, ShapeDistinct
    <2> QED BY <1>9, <1>11, <2>2, ItemsOfElements
  <1>14. ~ Abstract!Listed([items |-> Items, tail |-> TailPos], x)
    <2>1. Len(Items) = Len(s) /\ \A i \in 1 .. Len(s) : Items[i] = mem.data[s[i]]
      BY <1>9, <1>11, ItemsOfElements
    <2>2. \A i \in 1 .. Len(s) : mem.data[s[i]] # x
      BY <1>3, <1>5, OnListIs
    <2> QED BY <2>1, <2>2 DEF Abstract!Listed, Abstract!Contains
  <1>15. Abstract!DeleteMissing(x)
    BY <1>5, <1>6, <1>11, <1>12, <1>13, <1>14 DEF Abstract!DeleteMissing
  <1> QED BY <1>10, <1>15

\* A step that leaves the list alone leaves what callers see alone.
LEMMA ListStays ==
  ASSUME Inv, UNCHANGED << type, mem, header, allocated, misses >>
  PROVE  Inv' /\ Items' = Items /\ TailPos' = TailPos
  <1>1. PICK s : Listing(mem, header, allocated, misses, s)
    BY DEF Inv
  <1>2. Listing(mem', header', allocated', misses', s)
    BY <1>1
  <1>3. Typed'
    BY DEF Inv, Typed
  <1>4. Shape(mem, header, allocated, s) /\ Shape(mem', header', allocated', s)
    BY <1>1, <1>2 DEF Listing
  <1>5. PICK t : TailAt(header, s, t)
    BY <1>4, TailExists
  <1>6. TailAt(header', s, t)
    BY <1>5
  <1>7. Items = ItemsOf(mem, s) /\ TailPos = t
    BY <1>4, <1>5, ViewNow
  <1>8. Items' = ItemsOf(mem', s) /\ TailPos' = t
    BY <1>4, <1>6, ViewNext
  <1> QED BY <1>2, <1>3, <1>7, <1>8 DEF Inv

\* link_list_get_next_data_ex serves the head, or the tail of a queue.
LEMMA GetNextSteps ==
  ASSUME Inv, GetNext
  PROVE  Inv' /\ Abstract!GetNext
  <1>1. UNCHANGED << type, mem, header, allocated, misses >>
    BY DEF GetNext
  <1>2. Inv' /\ Items' = Items /\ TailPos' = TailPos
    BY <1>1, ListStays
  <1>3. PICK s : Shape(mem, header, allocated, s)
    BY DEF Inv, Listing
  <1>4. PICK t : TailAt(header, s, t)
    BY <1>3, TailExists
  <1>5. Items = ItemsOf(mem, s) /\ TailPos = t
    BY <1>3, <1>4, ViewNow
  <1>6. PICK l : l = [items |-> Items, tail |-> TailPos]
    OBVIOUS
  <1>7. Len(s) \in Nat /\ \A k \in 1 .. Len(s) : s[k] \in Node
    BY <1>3, ShapeDistinct
  <1>8. /\ Len(Items) = Len(s) /\ (\A k \in 1 .. Len(s) : Items[k] = mem.data[s[k]])
        /\ Items = << >> <=> Len(s) = 0
    BY <1>5, <1>7, ItemsOfElements
  <1>9. out' = IF Abstract!HasNext(l, type) THEN Abstract!NextData(l, type) ELSE NONE
    <2>1. CASE s = << >>
      <3>1. header.head = NIL /\ header.tail = NIL /\ t = 0 /\ Items = << >>
        BY <1>3, <1>4, <1>8, <2>1 DEF Shape, TailAt
      <3>2. out' = NONE
        BY <3>1 DEF GetNext, ServedNode
      <3> QED BY <1>5, <1>6, <3>1, <3>2 DEF Abstract!HasNext, Abstract!ServedPos
    <2>2. CASE s # << >>
      <3>1. header.head = s[1] /\ t \in 1 .. Len(s) /\ header.tail = s[t] /\ 1 \in 1 .. Len(s)
        BY <1>3, <1>4, <1>7, <2>2 DEF Shape, TailAt
      <3>2. PICK p : p = IF type = QUEUE THEN t ELSE 1
        OBVIOUS
      <3>3. p \in 1 .. Len(s) /\ ServedNode = s[p]
        BY <3>1, <3>2 DEF ServedNode
      <3>4. ServedNode # NIL
        BY <1>7, <3>3, NodeAssumption
      <3>5. out' = Items[p]
        BY <1>8, <3>3, <3>4 DEF GetNext
      <3>6. Items # << >>
        BY <1>8, <3>1
      <3>7. Abstract!ServedPos(l, type) = p
        BY <1>5, <1>6, <3>2, <3>6 DEF Abstract!ServedPos, Abstract!QUEUE, QUEUE
      <3> QED BY <1>6, <3>3, <3>5, <3>7 DEF Abstract!HasNext, Abstract!NextData
    <2> QED BY <2>1, <2>2
  <1>10. Abstract!GetNext
    BY <1>1, <1>2, <1>6, <1>9 DEF Abstract!GetNext
  <1> QED BY <1>2, <1>10

\* link_list_destroy frees every node.
LEMMA RecreateSteps ==
  ASSUME Inv, Recreate
  PROVE  Inv' /\ Abstract!Recreate
  <1>1. RingNodes = allocated /\ Typed
    BY InvRing DEF Inv, RingIsClosed
  <1>2. /\ type' \in {REGULAR, QUEUE} /\ allocated' = {} /\ mem' = Scrubbed(mem, RingNodes)
        /\ header' = EmptyHeader /\ misses' = 0 /\ out' = NONE
    BY <1>1 DEF Recreate
  <1>3. Listing(mem', header', allocated', misses', << >>) /\ TailAt(header', << >>, 0)
    BY <1>2, NothingListed
  <1>4. mem' \in Memories(Data \cup {NONE})
    <2>1. \A n \in Node : /\ (IF n \in RingNodes THEN NIL ELSE mem.next[n]) \in Node \cup {NIL}
                          /\ (IF n \in RingNodes THEN NIL ELSE mem.prev[n]) \in Node \cup {NIL}
                          /\ (IF n \in RingNodes THEN NONE ELSE mem.data[n]) \in Data \cup {NONE}
      BY <1>1 DEF Typed, Memories
    <2> QED BY <1>2, <2>1 DEF Scrubbed, Memories
  <1>5. header' \in Headers
    BY <1>2 DEF EmptyHeader, Headers
  <1>6. Inv'
    <2>1. Typed'
      BY <1>2, <1>4, <1>5 DEF Typed
    <2> QED BY <1>3, <2>1 DEF Inv
  <1>7. Items' = ItemsOf(mem', << >>) /\ TailPos' = 0
    BY <1>3, ViewNext DEF Listing
  <1>8. Items' = << >>
    BY <1>7, ItemsOfElements
  <1>9. Abstract!Recreate
    BY <1>2, <1>7, <1>8 DEF EmptyHeader, REGULAR, QUEUE,
                            Abstract!Recreate, Abstract!EmptyList, Abstract!REGULAR, Abstract!QUEUE
  <1> QED BY <1>6, <1>9

-----------------------------------------------------------------------------
(* link_list_get_first_data and link_list_get_next_data                    *)

\* The ring of s read from its t-th node along prev.
Against(s, t) == [k \in 1 .. Len(s) |-> IF k <= t THEN s[t + 1 - k] ELSE s[Len(s) + t + 1 - k]]

\* Stepping along prev steps back by one in the numbering of s.
LEMMA NextAgainst ==
  ASSUME NEW n \in Nat, NEW t \in 1 .. n, NEW k \in 1 .. n - 1, k # t, NEW p, NEW q,
         p = (IF k <= t THEN t + 1 - k ELSE n + t + 1 - k),
         q = (IF k + 1 <= t THEN t + 1 - (k + 1) ELSE n + t + 1 - (k + 1))
  PROVE  p = q + 1 /\ q \in 1 .. n - 1
  OBVIOUS

\* Read along prev the ring is a ring too, and its head is the t-th node met.
LEMMA AgainstIsCycle ==
  ASSUME NEW next, NEW prev, NEW s, Cycle(next, s), Back(prev, s), NEW t \in 1 .. Len(s)
  PROVE  /\ Cycle(prev, Against(s, t))
         /\ Len(Against(s, t)) = Len(s)
         /\ Against(s, t)[1] = s[t]
         /\ \A k \in 1 .. Len(s) :
              Against(s, t)[k] = IF k <= t THEN s[t + 1 - k] ELSE s[Len(s) + t + 1 - k]
         /\ \A k \in 1 .. Len(s) : Against(s, t)[k] = s[1] <=> k = t
  <1>1. PICK n \in Nat : n = Len(s)
    BY DEF Cycle
  <1>2. /\ s \in Seq(Node) /\ t \in 1 .. n
        /\ \A i \in 1 .. n : s[i] \in Node
        /\ \A i, j \in 1 .. n : s[i] = s[j] => i = j
    BY <1>1 DEF Cycle
  <1>3. PICK r : r = Against(s, t)
    OBVIOUS
  <1>4. r = [k \in 1 .. n |-> IF k <= t THEN s[t + 1 - k] ELSE s[n + t + 1 - k]]
    BY <1>1, <1>3 DEF Against
  <1>5. \A k \in 1 .. n : \E p \in 1 .. n : p = (IF k <= t THEN t + 1 - k ELSE n + t + 1 - k) /\ r[k] = s[p]
    <2> SUFFICES ASSUME NEW k \in 1 .. n
                 PROVE  \E p \in 1 .. n : p = (IF k <= t THEN t + 1 - k ELSE n + t + 1 - k) /\ r[k] = s[p]
      OBVIOUS
    <2>1. CASE k <= t
      <3>1. t + 1 - k \in 1 .. n
        BY <1>2, <2>1
      <3> QED BY <1>4, <2>1, <3>1
    <2>2. CASE ~ (k <= t)
      <3>1. n + t + 1 - k \in 1 .. n
        BY <1>2, <2>2
      <3> QED BY <1>4, <2>2, <3>1
    <2> QED BY <2>1, <2>2
  <1>6. \A k \in 1 .. n : r[k] \in Node
    BY <1>2, <1>5
  <1>7. r \in Seq(Node) /\ Len(r) = n /\ r # << >>
    <2>1. r = [k \in 1 .. n |-> r[k]]
      BY <1>4
    <2>2. r \in [1 .. n -> Node]
      BY <1>6, <2>1
    <2>3. n # 0
      BY <1>2
    <2> QED BY <2>2, <2>3
  <1>8. ASSUME NEW i \in 1 .. n, NEW j \in 1 .. n, r[i] = r[j]
        PROVE  i = j
    <2>1. PICK p \in 1 .. n : p = (IF i <= t THEN t + 1 - i ELSE n + t + 1 - i) /\ r[i] = s[p]
      BY <1>5
    <2>2. PICK q \in 1 .. n : q = (IF j <= t THEN t + 1 - j ELSE n + t + 1 - j) /\ r[j] = s[q]
      BY <1>5
    <2>3. p = q
      BY <1>2, <1>8, <2>1, <2>2
    <2> QED BY <1>2, <2>1, <2>2, <2>3
  <1>9. /\ prev[s[1]] = s[n]
        /\ \A k \in 1 .. n - 1 : prev[s[k + 1]] = s[k]
    BY <1>1 DEF Back
  <1>10. ASSUME NEW k \in 1 .. n - 1
         PROVE  prev[r[k]] = r[k + 1]
    <2>1. k \in 1 .. n /\ k + 1 \in 1 .. n
      OBVIOUS
    <2>2. PICK p \in 1 .. n : p = (IF k <= t THEN t + 1 - k ELSE n + t + 1 - k) /\ r[k] = s[p]
      BY <1>5, <2>1
    <2>3. PICK q \in 1 .. n : q = (IF k + 1 <= t THEN t + 1 - (k + 1) ELSE n + t + 1 - (k + 1)) /\ r[k + 1] = s[q]
      BY <1>5, <2>1
    <2>4. CASE k = t
      <3>1. p = 1 /\ q = n
        BY <1>2, <2>2, <2>3, <2>4
      <3> QED BY <1>9, <2>2, <2>3, <3>1
    <2>5. CASE k # t
      <3>1. n \in Nat /\ t \in 1 .. n /\ k \in 1 .. n - 1
        BY <1>2
      <3>2. p = (IF k <= t THEN t + 1 - k ELSE n + t + 1 - k)
        BY <2>2
      <3>3. q = (IF k + 1 <= t THEN t + 1 - (k + 1) ELSE n + t + 1 - (k + 1))
        BY <2>3
      <3>6. p = q + 1 /\ q \in 1 .. n - 1
        BY <2>5, <3>1, <3>2, <3>3, NextAgainst
      <3> QED BY <1>9, <2>2, <2>3, <3>6
    <2> QED BY <2>4, <2>5
  <1>11. r[1] = s[t]
    <2>1. 1 \in 1 .. n /\ 1 <= t /\ t + 1 - 1 = t
      BY <1>2
    <2> QED BY <1>4, <2>1
  <1>12. prev[r[n]] = r[1]
    <2>1. n \in 1 .. n
      BY <1>2
    <2>2. PICK p \in 1 .. n : p = (IF n <= t THEN t + 1 - n ELSE n + t + 1 - n) /\ r[n] = s[p]
      BY <1>5, <2>1
    <2>3. CASE t = n
      <3>1. p = 1
        BY <2>2, <2>3
      <3> QED BY <1>9, <1>11, <2>2, <2>3, <3>1
    <2>4. CASE t # n
      <3>1. p = t + 1 /\ t \in 1 .. n - 1
        BY <1>2, <2>2, <2>4
      <3> QED BY <1>9, <1>11, <2>2, <3>1
    <2> QED BY <2>3, <2>4
  <1>13. \A i, j \in 1 .. Len(r) : r[i] = r[j] => i = j
    BY <1>7, <1>8
  <1>14. Cycle(prev, r)
    BY <1>7, <1>10, <1>12, <1>13 DEF Cycle
  <1>15. ASSUME NEW k \in 1 .. n
         PROVE  r[k] = s[1] <=> k = t
    <2>1. PICK p \in 1 .. n : p = (IF k <= t THEN t + 1 - k ELSE n + t + 1 - k) /\ r[k] = s[p]
      BY <1>5
    <2>2. 1 \in 1 .. n /\ (p = 1 <=> k = t)
      BY <1>2, <2>1
    <2> QED BY <1>2, <2>1, <2>2
  <1>16. \A k \in 1 .. n : r[k] = IF k <= t THEN s[t + 1 - k] ELSE s[n + t + 1 - k]
    BY <1>4
  <1> QED BY <1>1, <1>3, <1>7, <1>11, <1>14, <1>15, <1>16

\* The steps after which a walk from p meets y.
StepsUntil(next, p, y) ==
  CHOOSE k \in 1 .. Cardinality(Node) :
    /\ Walk(next, p)[k] = y
    /\ \A j \in 1 .. k - 1 : Walk(next, p)[j] # y

\* A walk along s reads its nodes until the step before the e-th, or all of them.
ReadsUntil(next, s, e, stop) ==
  /\ stop = IF e = 1 THEN Len(s) ELSE e - 1
  /\ \A k \in 1 .. stop : Walk(next, s[1])[k - 1] = s[k]

\* y is the e-th node of s.
IsNth(s, e, y) == e \in 1 .. Len(s) /\ \A k \in 1 .. Len(s) : s[k] = y <=> k = e

\* Where a walk along s from its first node is when it meets the node y.
LEMMA WalkMeets ==
  ASSUME NEW next, NEW s, Cycle(next, s), NEW y, NEW e, IsNth(s, e, y),
         NEW stop, stop = StepsUntil(next, s[1], y)
  PROVE  ReadsUntil(next, s, e, stop)
  <1>0. e \in 1 .. Len(s) /\ \A k \in 1 .. Len(s) : s[k] = y <=> k = e
    BY DEF IsNth
  <1>1. PICK n \in Nat, N \in Nat : n = Len(s) /\ N = Cardinality(Node)
    BY NodesAreFinite DEF Cycle
  <1>2. n \in 1 .. N /\ e \in 1 .. n
    BY <1>0, <1>1, CycleIsShort
  <1>3. PICK w : w = Walk(next, s[1])
    OBVIOUS
  <1>4. (\A k \in 0 .. n - 1 : w[k] = s[k + 1]) /\ w[n] = s[1]
    BY <1>1, <1>3, WalkAround
  <1>5. PICK z : z = IF e = 1 THEN n ELSE e - 1
    OBVIOUS
  <1>6. z \in 1 .. n /\ z \in 1 .. N
    BY <1>2, <1>5
  <1>7. w[z] = y
    <2>1. CASE e = 1
      BY <1>0, <1>1, <1>2, <1>4, <1>5, <2>1
    <2>2. CASE e # 1
      <3>1. z \in 0 .. n - 1 /\ z + 1 = e
        BY <1>2, <1>5, <2>2
      <3> QED BY <1>0, <1>1, <1>2, <1>4, <3>1
    <2> QED BY <2>1, <2>2
  <1>8. \A j \in 1 .. z - 1 : w[j] # y
    <2> SUFFICES ASSUME NEW j \in 1 .. z - 1
                 PROVE  w[j] # y
      OBVIOUS
    <2>1. j \in 0 .. n - 1 /\ j + 1 \in 1 .. n /\ j + 1 # e
      BY <1>2, <1>5
    <2> QED BY <1>0, <1>1, <1>4, <2>1
  <1> DEFINE First(k) == w[k] = y /\ \A j \in 1 .. k - 1 : w[j] # y
  <1>9. First(z)
    BY <1>7, <1>8
  <1>10. \A k \in 1 .. N : First(k) => k = z
    <2> SUFFICES ASSUME NEW k \in 1 .. N, First(k)
                 PROVE  k = z
      OBVIOUS
    <2>1. ~ (k < z)
      BY <1>6, <1>8
    <2>2. ~ (z < k)
      BY <1>6, <1>7
    <2> QED BY <1>6, <2>1, <2>2
  <1>11. stop = CHOOSE k \in 1 .. N : First(k)
    BY <1>1, <1>3 DEF StepsUntil
  <1> HIDE DEF First
  <1>12. stop = z
    BY <1>6, <1>9, <1>10, <1>11
  <1>13. \A k \in 1 .. z : w[k - 1] = s[k]
    <2> SUFFICES ASSUME NEW k \in 1 .. z
                 PROVE  w[k - 1] = s[k]
      OBVIOUS
    <2>1. k - 1 \in 0 .. n - 1 /\ k - 1 + 1 = k
      BY <1>6
    <2> QED BY <1>4, <2>1
  <1> QED BY <1>1, <1>3, <1>5, <1>12, <1>13 DEF ReadsUntil

\* What a walk along s reads is what the callers get.
Read(m, s, stop) == [k \in 1 .. stop |-> m.data[s[k]]]

\* The nodes an iteration reads: all of a regular list; of a queue those from
\* the tail down to the second, or all if the tail is the head.
LEMMA IterateReads ==
  ASSUME Inv, Iterate, NEW s, Shape(mem, header, allocated, s), s # << >>,
         NEW t \in 1 .. Len(s), header.tail = s[t]
  PROVE  IF type = QUEUE
         THEN out' = Read(mem, Against(s, t), IF t = 1 THEN Len(s) ELSE t - 1)
         ELSE out' = Read(mem, s, Len(s))
  <1>1. /\ s \in Seq(Node) /\ Len(s) \in Nat
        /\ \A k \in 1 .. Len(s) : s[k] \in Node
        /\ \A i, j \in 1 .. Len(s) : s[i] = s[j] => i = j
    BY ShapeDistinct
  <1>2. Cycle(mem.next, s) /\ Back(mem.prev, s) /\ header.head = s[1]
    BY DEF Shape
  <1>3. 1 \in 1 .. Len(s) /\ s[1] # NIL /\ s[t] # NIL
    BY <1>1, NodeAssumption
  <1>4. CASE type = QUEUE
    <2>1. ServedNode = s[t]
      BY <1>4 DEF ServedNode
    <2>2. PICK r : r = Against(s, t)
      OBVIOUS
    <2>3. Cycle(mem.prev, r) /\ Len(r) = Len(s) /\ r[1] = s[t]
          /\ \A k \in 1 .. Len(s) : r[k] = s[1] <=> k = t
      BY <1>2, <2>2, AgainstIsCycle
    <2>4. PICK stop : stop = StepsUntil(mem.prev, r[1], header.head)
      OBVIOUS
    <2>5. /\ stop = IF t = 1 THEN Len(r) ELSE t - 1
          /\ \A k \in 1 .. stop : Walk(mem.prev, r[1])[k - 1] = r[k]
      <3>1. IsNth(r, t, header.head)
        BY <1>2, <2>3 DEF IsNth
      <3>2. ReadsUntil(mem.prev, r, t, stop)
        BY <2>3, <2>4, <3>1, WalkMeets
      <3> QED BY <3>2 DEF ReadsUntil
    <2>6. out' = [k \in 1 .. stop |-> mem.data[Walk(mem.prev, r[1])[k - 1]]]
      BY <1>3, <1>4, <2>1, <2>3, <2>4 DEF Iterate, StepsUntil
    <2>7. out' = [k \in 1 .. stop |-> mem.data[r[k]]]
      BY <2>5, <2>6
    <2>8. out' = Read(mem, Against(s, t), IF t = 1 THEN Len(s) ELSE t - 1)
      BY <2>2, <2>3, <2>5, <2>7 DEF Read
    <2> QED BY <1>4, <2>8
  <1>5. CASE type # QUEUE
    <2>1. ServedNode = s[1]
      BY <1>2, <1>5 DEF ServedNode
    <2>2. PICK stop : stop = StepsUntil(mem.next, s[1], header.head)
      OBVIOUS
    <2>3. /\ stop = Len(s)
          /\ \A k \in 1 .. stop : Walk(mem.next, s[1])[k - 1] = s[k]
      <3>1. IsNth(s, 1, header.head)
        BY <1>1, <1>2, <1>3 DEF IsNth
      <3>2. ReadsUntil(mem.next, s, 1, stop)
        BY <1>2, <2>2, <3>1, WalkMeets
      <3> QED BY <3>2 DEF ReadsUntil
    <2>4. out' = [k \in 1 .. stop |-> mem.data[Walk(mem.next, s[1])[k - 1]]]
      BY <1>3, <1>5, <2>1, <2>2 DEF Iterate, StepsUntil
    <2>5. out' = [k \in 1 .. stop |-> mem.data[s[k]]]
      BY <2>3, <2>4
    <2>6. out' = Read(mem, s, Len(s))
      BY <2>3, <2>5 DEF Read
    <2> QED BY <1>5, <2>6
  <1> QED BY <1>4, <1>5

\* The iteration is the abstract one.
LEMMA IterateSteps ==
  ASSUME Inv, Iterate
  PROVE  Inv' /\ Abstract!Iterate
  <1>1. UNCHANGED << type, mem, header, allocated, misses >>
    BY DEF Iterate
  <1>2. Inv' /\ Items' = Items /\ TailPos' = TailPos
    BY <1>1, ListStays
  <1>3. PICK s : Shape(mem, header, allocated, s)
    BY DEF Inv, Listing
  <1>4. PICK t : TailAt(header, s, t)
    BY <1>3, TailExists
  <1>5. Items = ItemsOf(mem, s) /\ TailPos = t
    BY <1>3, <1>4, ViewNow
  <1>6. PICK l : l = [items |-> Items, tail |-> TailPos]
    OBVIOUS
  <1>7. PICK n \in Nat : n = Len(s)
    BY <1>3, ShapeDistinct
  <1>8. Len(Items) = n /\ (\A k \in 1 .. n : Items[k] = mem.data[s[k]]) /\ (Items = << >> <=> n = 0)
    BY <1>5, <1>7, ItemsOfElements
  <1>9. type \in {REGULAR, QUEUE}
    BY DEF Inv, Typed
  <1>10. out' = Abstract!IterationOrder(l, type)
    <2>1. CASE s = << >>
      <3>1. header.head = NIL /\ header.tail = NIL /\ t = 0 /\ n = 0 /\ Items = << >>
        BY <1>3, <1>4, <1>7, <1>8, <2>1 DEF Shape, TailAt
      <3>2. out' = << >>
        BY <3>1 DEF Iterate, ServedNode
      <3>3. CASE type = REGULAR
        BY <1>6, <3>1, <3>2, <3>3 DEF Abstract!IterationOrder, Abstract!REGULAR, REGULAR
      <3>4. CASE type = QUEUE
        <4>1. Abstract!IterationOrder(l, type) = [k \in 1 .. 0 |-> l.items[l.tail + 1 - k]]
          BY <1>5, <1>6, <3>1, <3>4 DEF Abstract!IterationOrder, Abstract!REGULAR, QUEUE
        <4> QED BY <3>2, <4>1
      <3> QED BY <1>9, <3>3, <3>4
    <2>2. CASE s # << >>
      <3>1. t \in 1 .. Len(s) /\ header.tail = s[t]
        BY <1>4, <2>2 DEF TailAt
      <3>2. CASE type = REGULAR
        <4>1. out' = Read(mem, s, Len(s))
          BY <1>3, <2>2, <3>1, <3>2, IterateReads DEF REGULAR, QUEUE
        <4>2. out' = Items
          BY <1>5, <4>1 DEF Read, ItemsOf
        <4> QED BY <1>6, <3>2, <4>2 DEF Abstract!IterationOrder, Abstract!REGULAR, REGULAR
      <3>3. CASE type = QUEUE /\ t = 1
        <4>1. out' = Read(mem, Against(s, t), Len(s))
          BY <1>3, <2>2, <3>1, <3>3, IterateReads
        <4>2. out' = [k \in 1 .. n |-> mem.data[Against(s, 1)[k]]]
          BY <1>7, <3>3, <4>1 DEF Read
        <4>3. \A k \in 1 .. n : mem.data[Against(s, 1)[k]] = IF k = 1 THEN Items[1] ELSE Items[n + 2 - k]
          <5> SUFFICES ASSUME NEW k \in 1 .. n
                       PROVE  mem.data[Against(s, 1)[k]] = IF k = 1 THEN Items[1] ELSE Items[n + 2 - k]
            OBVIOUS
          <5>1. Against(s, 1)[k] = IF k <= 1 THEN s[1 + 1 - k] ELSE s[n + 1 + 1 - k]
            BY <1>7 DEF Against
          <5>2. CASE k = 1
            <6>1. Against(s, 1)[k] = s[1]
              BY <5>1, <5>2
            <6> QED BY <1>8, <5>2, <6>1
          <5>3. CASE k # 1
            <6>1. n + 2 - k \in 1 .. n /\ n + 1 + 1 - k = n + 2 - k /\ ~ (k <= 1)
              BY <5>3
            <6> QED BY <1>8, <5>1, <5>3, <6>1
          <5> QED BY <5>2, <5>3
        <4>4. out' = [k \in 1 .. n |-> IF k = 1 THEN Items[1] ELSE Items[n + 2 - k]]
          BY <4>2, <4>3
        <4>5. Abstract!IterationOrder(l, type)
                = [k \in 1 .. n |-> IF k = 1 THEN Items[1] ELSE Items[n + 2 - k]]
          BY <1>5, <1>6, <1>8, <3>3 DEF Abstract!IterationOrder, Abstract!REGULAR, QUEUE
        <4> QED BY <4>4, <4>5
      <3>4. CASE type = QUEUE /\ t # 1
        <4>1. out' = Read(mem, Against(s, t), t - 1)
          BY <1>3, <2>2, <3>1, <3>4, IterateReads
        <4>2. out' = [k \in 1 .. t - 1 |-> mem.data[Against(s, t)[k]]]
          BY <4>1 DEF Read
        <4>3. \A k \in 1 .. t - 1 : mem.data[Against(s, t)[k]] = Items[t + 1 - k]
          <5> SUFFICES ASSUME NEW k \in 1 .. t - 1
                       PROVE  mem.data[Against(s, t)[k]] = Items[t + 1 - k]
            OBVIOUS
          <5>1. k \in 1 .. n /\ k <= t /\ t + 1 - k \in 1 .. n
            BY <1>7, <3>1
          <5>2. Against(s, t)[k] = s[t + 1 - k]
            BY <1>7, <5>1 DEF Against
          <5> QED BY <1>8, <5>1, <5>2
        <4>4. out' = [k \in 1 .. t - 1 |-> Items[t + 1 - k]]
          BY <4>2, <4>3
        <4>5. Abstract!IterationOrder(l, type) = [k \in 1 .. t - 1 |-> Items[t + 1 - k]]
          <5>1. t # 0
            BY <3>1
          <5> QED BY <1>5, <1>6, <3>4, <5>1 DEF Abstract!IterationOrder, Abstract!REGULAR, QUEUE
        <4> QED BY <4>4, <4>5
      <3> QED BY <1>9, <3>2, <3>3, <3>4
    <2> QED BY <2>1, <2>2
  <1>11. Abstract!Iterate
    BY <1>1, <1>2, <1>6, <1>10 DEF Abstract!Iterate
  <1> QED BY <1>2, <1>11

\* Each step of the nodes is one of the list, or changes nothing of it.
LEMMA NextSteps ==
  ASSUME Inv, [Next]_vars
  PROVE  Inv' /\ [Abstract!Next]_(Abstract!vars)
  <1>1. ASSUME NEW x \in Data, Add(x) \/ Delete(x) \/ DeleteMissing(x)
        PROVE  Inv' /\ Abstract!Next
    <2>1. CASE Add(x)
      BY <2>1, AddSteps DEF Abstract!Next
    <2>2. CASE Delete(x)
      BY <2>2, DeleteSteps DEF Abstract!Next
    <2>3. CASE DeleteMissing(x)
      BY <2>3, MissingSteps DEF Abstract!Next
    <2> QED BY <1>1, <2>1, <2>2, <2>3
  <1>2. CASE GetNext
    BY <1>2, GetNextSteps DEF Abstract!Next
  <1>3. CASE Iterate
    BY <1>3, IterateSteps DEF Abstract!Next
  <1>4. CASE Recreate
    BY <1>4, RecreateSteps DEF Abstract!Next
  <1>5. CASE UNCHANGED vars
    <2>1. UNCHANGED << type, mem, header, allocated, misses >> /\ out' = out /\ header'.count = header.count
      BY <1>5 DEF vars
    <2>2. Inv' /\ Items' = Items /\ TailPos' = TailPos
      BY <2>1, ListStays
    <2>3. UNCHANGED Abstract!vars
      BY <2>1, <2>2 DEF Abstract!vars
    <2> QED BY <2>2, <2>3
  <1> QED BY <1>1, <1>2, <1>3, <1>4, <1>5 DEF Next

-----------------------------------------------------------------------------
\* Whatever the number of nodes and of data, and after any sequence of calls,
\* the nodes the list owns are a ring from its head, linked both ways, with
\* the tail on it, and its data are different pointers.
THEOREM InvHolds == Spec => []Inv
  <1>1. Init => Inv
    BY InitSteps
  <1>2. Inv /\ [Next]_vars => Inv'
    BY NextSteps
  <1> QED BY <1>1, <1>2, PTL DEF Spec

\* No call leaks a node, frees one that is still linked, or leaves a one-way
\* link.
THEOREM NodesAreOwned == Spec => []RingIsClosed
  BY InvHolds, InvRing, PTL

\* A queue with items never tells queue_get that it is empty.
THEOREM QueuesServe == Spec => []QueueNeverHidesItems
  BY InvHolds, InvTail, PTL

\* list->count is the number of nodes less the deletions that found nothing.
THEOREM CountIsOff == Spec => []CountDriftsByMisses
  BY InvHolds, InvCount, PTL

\* linklist.c implements the list its callers see: every behaviour of the
\* nodes is, through the refinement mapping, a behaviour of LinkList.
THEOREM NodesImplementList == Spec => ImplementsLinkList
  <1>1. Init => Abstract!Init
    BY InitSteps
  <1>2. Inv /\ [Next]_vars => [Abstract!Next]_(Abstract!vars)
    BY NextSteps
  <1> QED BY <1>1, <1>2, InvHolds, PTL DEF Spec, ImplementsLinkList, Abstract!Spec
=============================================================================
