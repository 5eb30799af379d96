---------------------------- MODULE LinkListOps ----------------------------
(***************************************************************************)
(* What the operations of linklist.c do to a list, seen from its caller.   *)
(*                                                                         *)
(* A link_list_t is a ring of nodes with a head and a tail pointer.  Here  *)
(* it is a record: "items" is the data read from head along the next       *)
(* pointers, and "tail" is the position in items of the node list->tail    *)
(* points at, 0 for NULL.  LinkHeap holds the same operations on the nodes *)
(* themselves, and LinkListImpl checks that the two agree.                 *)
(*                                                                         *)
(* The data of one list are distinct pointers wherever this code compares  *)
(* them (LINK_DATA_TYPE_PTR), so an item is a value.                       *)
(***************************************************************************)
EXTENDS Integers, Sequences, SequencesExt

REGULAR == "LINK_LIST_REGULAR"
QUEUE   == "LINK_LIST_QUEUE"

EmptyList == [items |-> << >>, tail |-> 0]

Listed(l, x) == Contains(l.items, x)

(* A new node goes right behind the head.  The tail is the second node the *)
(* list ever had; it only moves away when nodes are put in front of it.    *)
AddData(l, x) ==
  LET n == Len(l.items)
  IN  [items |-> IF n = 0 THEN << x >> ELSE InsertAt(l.items, 2, x),
       tail  |-> IF n = 0 THEN 1
                 ELSE IF n = 1 THEN 2
                 ELSE IF l.tail > 1 THEN l.tail + 1 ELSE l.tail]

(* Position of the node that holds x.                                     *)
PosOf(l, x) == CHOOSE i \in 1 .. Len(l.items) : l.items[i] = x

(* The node holding x takes over the data of its successor, which is then  *)
(* unlinked and freed: for the last node the successor is the head, so the *)
(* emptied node becomes the new head, and the tail with it if it was there.*)
TailAfterDelete(n, t, i) ==
  IF n = 1 THEN 0
  ELSE IF i = n THEN (IF t = n THEN 1 ELSE t)
  ELSE IF t > i THEN t - 1 ELSE t

DeleteData(l, x) ==
  IF ~ Listed(l, x) THEN l
  ELSE LET i == PosOf(l, x)
       IN  [items |-> RemoveAt(l.items, i),
            tail  |-> TailAfterDelete(Len(l.items), l.tail, i)]

(* link_list_get_next_data_ex: the node a caller is served next.           *)
ServedPos(l, type) == IF type = QUEUE THEN l.tail ELSE IF l.items = << >> THEN 0 ELSE 1

HasNext(l, type) == ServedPos(l, type) # 0

NextData(l, type) == l.items[ServedPos(l, type)]

(* link_list_get_first_data followed by link_list_get_next_data until it   *)
(* returns 0.  A queue is read from its tail against the ring, and the     *)
(* walk stops when it meets the head.                                      *)
IterationOrder(l, type) ==
  LET n == Len(l.items)
  IN  IF type = REGULAR THEN l.items
      ELSE IF l.tail = 1
           THEN [k \in 1 .. n |-> IF k = 1 THEN l.items[1] ELSE l.items[n + 2 - k]]
           ELSE [k \in 1 .. (IF l.tail = 0 THEN 0 ELSE l.tail - 1)
                   |-> l.items[l.tail + 1 - k]]

(* A list of members of S as linklist.c leaves it: the tail is one of its  *)
(* nodes, or there is none because there are no nodes.                     *)
WellFormed(l, S) ==
  /\ l \in [items : Seq(S), tail : Nat]
  /\ l.tail <= Len(l.items)
  /\ l.tail = 0 <=> l.items = << >>

Distinct(l) == \A i, j \in 1 .. Len(l.items) : l.items[i] = l.items[j] => i = j
=============================================================================
