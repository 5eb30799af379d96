---------------------------- MODULE LinkListImpl ----------------------------
(***************************************************************************)
(* One link_list_t with its nodes, and the refinement to LinkList.         *)
(***************************************************************************)
EXTENDS LinkHeap

CONSTANTS Data, MaxMisses, NONE

VARIABLES type,
          mem,       \* next, prev and data of every node address
          header,    \* head, tail and count of the list
          allocated, \* the nodes mem_alloc has handed out and not got back
          misses,
          out

vars == << type, mem, header, allocated, misses, out >>

REGULAR == "LINK_LIST_REGULAR"
QUEUE   == "LINK_LIST_QUEUE"

Items == [k \in DOMAIN Ring(mem, header) |-> mem.data[Ring(mem, header)[k]]]

RingNodes == {Ring(mem, header)[k] : k \in DOMAIN Ring(mem, header)}

OnList(x) == \E k \in DOMAIN Items : Items[k] = x

\* What a free node holds is never read: link_list_add_data assigns every field.
\* NIL and NONE stand for it, so a read of a free node is an error TLC reports.
Scrubbed(m, gone) ==
  [next |-> [n \in Node |-> IF n \in gone THEN NIL ELSE m.next[n]],
   prev |-> [n \in Node |-> IF n \in gone THEN NIL ELSE m.prev[n]],
   data |-> [n \in Node |-> IF n \in gone THEN NONE ELSE m.data[n]]]

Init ==
  /\ type \in {REGULAR, QUEUE}
  /\ mem = [next |-> [n \in Node |-> NIL],
            prev |-> [n \in Node |-> NIL],
            data |-> [n \in Node |-> NONE]]
  /\ header = EmptyHeader
  /\ allocated = {}
  /\ misses = 0
  /\ out = NONE

Add(x) ==
  \E n \in Node \ allocated :
    /\ ~ OnList(x)
    /\ mem' = AddNode(mem, header, n, x).m
    /\ header' = AddNode(mem, header, n, x).l
    /\ allocated' = allocated \cup {n}
    /\ out' = NONE
    /\ UNCHANGED << type, misses >>

\* The tail of every deletion: the node in n goes back to the allocator.
Leave(m, l, n) ==
  /\ mem' = Scrubbed(m, {n})
  /\ header' = l
  /\ allocated' = allocated \ {n}
  /\ out' = NONE
  /\ UNCHANGED << type, misses >>

\* Faulty deletions the properties are tested against: the successor's prev
\* is not updated; list->tail keeps the freed node; list->tail is cleared
\* without asking whether the list is now empty; count is not updated.
DeleteOneWay(x) ==
  /\ OnList(x)
  /\ LET d == DeleteNode(mem, header, x)
     IN  Leave([d.m EXCEPT !.prev = mem.prev], d.l, d.freed)

DeleteClearsTail(x) ==
  /\ OnList(x)
  /\ LET d == DeleteNode(mem, header, x)
     IN  Leave(d.m, [d.l EXCEPT !.tail = IF d.freed = header.tail THEN NIL ELSE @], d.freed)

DeleteKeepsCount(x) ==
  /\ OnList(x)
  /\ LET d == DeleteNode(mem, header, x)
     IN  Leave(d.m, [d.l EXCEPT !.count = header.count], d.freed)

Delete(x) ==
  /\ OnList(x)
  /\ LET d == DeleteNode(mem, header, x)
     IN  Leave(d.m, d.l, d.freed)

DeleteMissing(x) ==
  /\ header.head # NIL
  /\ ~ OnList(x)
  /\ misses < MaxMisses
  /\ misses' = misses + 1
  /\ header' = [header EXCEPT !.count = @ - 1]
  /\ out' = NONE
  /\ UNCHANGED << type, mem, allocated >>

\* A queue is served from its tail, a regular list from its head.
ServedNode == IF type = QUEUE THEN header.tail ELSE header.head

\* Faulty: a queue is served from its head, like a regular list.
GetNextFromHead ==
  /\ out' = IF header.head = NIL THEN NONE ELSE mem.data[header.head]
  /\ UNCHANGED << type, mem, header, allocated, misses >>

GetNext ==
  /\ out' = IF ServedNode = NIL THEN NONE ELSE mem.data[ServedNode]
  /\ UNCHANGED << type, mem, header, allocated, misses >>

\* link_list_get_first_data, then link_list_get_next_data until the cursor
\* meets the head again.
Iterate ==
  LET w    == Walk(IF type = QUEUE THEN mem.prev ELSE mem.next, ServedNode)
      stop == CHOOSE k \in 1 .. Cardinality(Node) :
                /\ w[k] = header.head
                /\ \A j \in 1 .. k - 1 : w[j] # header.head
  IN  /\ out' = IF ServedNode = NIL THEN << >>
                ELSE [k \in 1 .. stop |-> mem.data[w[k - 1]]]
      /\ UNCHANGED << type, mem, header, allocated, misses >>

\* link_list_destroy frees the nodes it meets from the head until it is back
\* there; then link_list_create.
Recreate ==
  /\ type' \in {REGULAR, QUEUE}
  /\ allocated' = allocated \ RingNodes
  /\ mem' = Scrubbed(mem, RingNodes)
  /\ header' = EmptyHeader
  /\ misses' = 0
  /\ out' = NONE

Next ==
  \/ \E x \in Data : Add(x) \/ Delete(x) \/ DeleteMissing(x)
  \/ GetNext
  \/ Iterate
  \/ Recreate

Spec == Init /\ [][Next]_vars

-----------------------------------------------------------------------------
(* Every pointer of the header is NIL or an allocated node, and the memory *)
(* maps nodes to nodes.                                                    *)
TypeOK ==
  /\ type \in {REGULAR, QUEUE}
  /\ mem \in [next : [Node -> Node \cup {NIL}],
              prev : [Node -> Node \cup {NIL}],
              data : [Node -> Data \cup {NONE}]]
  /\ header.head \in allocated \cup {NIL}
  /\ header.tail \in allocated \cup {NIL}
  /\ allocated \subseteq Node

(* The nodes the list owns are exactly those on the ring through its head, *)
(* and prev undoes next on them: no call leaks a node, frees one that is   *)
(* still linked, or leaves a one-way link for the walks against the ring.  *)
RingIsClosed ==
  /\ TypeOK
  /\ RingNodes = allocated
  /\ \A n \in allocated : mem.prev[mem.next[n]] = n

(* A non-empty list always has a tail, and it is one of its nodes: a queue *)
(* with items never tells queue_get that it is empty.                      *)
QueueNeverHidesItems == (header.tail = NIL) <=> (allocated = {})

(* count is the number of nodes less one for every deletion that found     *)
(* nothing: _os_exit sizes its table of threads with it.                   *)
CountDriftsByMisses == header.count = Cardinality(allocated) - misses

\* The refinement mapping: the data along the ring and the tail's position.
TailPos ==
  IF header.tail = NIL THEN 0
  ELSE CHOOSE k \in DOMAIN Ring(mem, header) : Ring(mem, header)[k] = header.tail

Abstract ==
  INSTANCE LinkList WITH
    list   <- [items |-> Items, tail |-> TailPos],
    count  <- header.count,
    MaxLen <- Cardinality(Node)

(* The pointer code implements the list its callers see.                   *)
ImplementsLinkList == Abstract!Spec
=============================================================================
