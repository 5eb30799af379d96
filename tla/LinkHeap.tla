------------------------------ MODULE LinkHeap ------------------------------
(***************************************************************************)
(* linklist.c on its nodes.  m is the memory: m.next, m.prev and m.data    *)
(* are functions on the set Node of node addresses; a list header l has    *)
(* the fields head, tail and count of link_list_t (NIL is the C NULL).     *)
(* Operators return [m |-> ..., l |-> ...], what the call leaves behind.   *)
(***************************************************************************)
EXTENDS Integers, Sequences, FiniteSets

CONSTANTS Node, NIL

ASSUME NodeAssumption == IsFiniteSet(Node) /\ NIL \notin Node

EmptyHeader == [head |-> NIL, tail |-> NIL, count |-> 0]

(* The nodes met when following a pointer field from p: Walk(f, p)[k] is   *)
(* reached after k steps.                                                  *)
Walk(f, p) ==
  LET w[k \in 0 .. Cardinality(Node)] == IF k = 0 THEN p ELSE f[w[k - 1]]
  IN  w

(* The number of nodes on the ring through p.                              *)
RingSize(m, p) ==
  CHOOSE k \in 1 .. Cardinality(Node) :
    /\ Walk(m.next, p)[k] = p
    /\ \A j \in 1 .. k - 1 : Walk(m.next, p)[j] # p

Ring(m, l) ==
  IF l.head = NIL THEN << >>
  ELSE [k \in 1 .. RingSize(m, l.head) |-> Walk(m.next, l.head)[k - 1]]

Holders(m, l, x) == {k \in DOMAIN Ring(m, l) : m.data[Ring(m, l)[k]] = x}

(* The steps the do-while loops take from the head to the node holding x.  *)
StepsTo(m, l, x) ==
  CHOOSE k \in Holders(m, l, x) : \A j \in Holders(m, l, x) : k <= j

(* The second half of link_list_add_data and of link_list_move_node: hang  *)
(* the detached node n behind the head.                                    *)
Link(m, l, n) ==
  IF l.head = NIL
  THEN [m |-> m, l |-> [head |-> n, tail |-> n, count |-> l.count + 1]]
  ELSE LET s == m.next[l.head]
       IN  [m |-> [m EXCEPT !.next = [@ EXCEPT ![n] = s, ![l.head] = n],
                            !.prev = [@ EXCEPT ![s] = n, ![n] = l.head]],
            l |-> [l EXCEPT !.tail = IF s = l.head THEN n ELSE @,
                            !.count = @ + 1]]

AddNode(m, l, n, x) ==
  Link([m EXCEPT !.next[n] = n, !.prev[n] = n, !.data[n] = x], l, n)

(* link_list_delete_data for data that is on the list; "freed" is the node *)
(* given back to the allocator.                                            *)
DeleteNode(m, l, x) ==
  LET p == Ring(m, l)[StepsTo(m, l, x)]
      q == m.next[p]
      r == m.next[q]
  IN  [m |-> [m EXCEPT !.data[p] = m.data[q], !.next[p] = r, !.prev[r] = p],
       l |-> [head  |-> IF q # l.head THEN l.head
                        ELSE IF p = l.head THEN NIL ELSE p,
              tail  |-> IF q # l.tail THEN l.tail
                        ELSE IF p = l.tail THEN NIL ELSE p,
              count |-> l.count - 1],
       freed |-> q]

(* Unlink p from between pre and post.                                     *)
Cut(m, pre, p, post) ==
  [m EXCEPT !.next = [@ EXCEPT ![pre] = post, ![p] = p],
            !.prev = [@ EXCEPT ![post] = pre, ![p] = p]]

(* link_list_move_node: the node holding x leaves from and enters to.      *)
(* Nothing is done when no node holds x.  from.tail is left as it was, and *)
(* so is from.head when the node was alone on its ring.                    *)
MoveNode(m, from, to, x) ==
  IF Holders(m, from, x) = {}
  THEN [m |-> m, from |-> from, to |-> to]
  ELSE LET k    == StepsTo(m, from, x)
           p    == Ring(m, from)[k]
           pre  == IF p = from.head THEN m.prev[p] ELSE Ring(m, from)[k - 1]
           post == m.next[p]
           put  == Link(Cut(m, pre, p, post), to, p)
       IN  [m    |-> put.m,
            from |-> [from EXCEPT !.head = IF p = @ THEN post ELSE @,
                                  !.count = @ - 1],
            to   |-> put.l]
=============================================================================
