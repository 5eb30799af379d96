----------------------------- MODULE EventPool -----------------------------
(***************************************************************************)
(* pool.c as osapi.c uses it: a pool of manual-reset events that           *)
(* cond_wait borrows from.  Both lists of the pool are kept by             *)
(* link_list_move_node, on the nodes of LinkHeap; every operation runs     *)
(* under pool->lock, so the steps below are whole calls.                   *)
(*                                                                         *)
(* A list node and the event it carries are created together and never     *)
(* parted, so m.data maps a node to the event with the same name.          *)
(***************************************************************************)
EXTENDS LinkHeap

CONSTANTS Threads, \* callers of pool_get_data and pool_return_data
          Order    \* the nodes in the order pool_create makes them

VARIABLES mem,  \* the nodes
          free, \* pool->free_list
          used, \* pool->used_list
          held  \* the event each thread got and has not returned, or NIL

vars == << mem, free, used, held >>

\* The heap gives each of them a place of its own.
ASSUME PoolAssumption ==
  /\ Order \in Seq(Node) /\ Len(Order) >= 2
  /\ Node = {Order[i] : i \in 1 .. Len(Order)}
  /\ \A i, j \in 1 .. Len(Order) : Order[i] = Order[j] => i = j

\* pool_create: init_count (2 for events, more for streams) nodes are created
\* and added to the free list one after the other.
Created ==
  LET blank == [next |-> [n \in Node |-> n], prev |-> [n \in Node |-> n],
                data |-> [n \in Node |-> n]]
      fill[k \in 0 .. Len(Order)] ==
        IF k = 0 THEN [m |-> blank, l |-> EmptyHeader]
        ELSE AddNode(fill[k - 1].m, fill[k - 1].l, Order[k], Order[k])
  IN  fill[Len(Order)]

Init ==
  /\ mem = Created.m
  /\ free = Created.l
  /\ used = EmptyHeader
  /\ held = [t \in Threads |-> NIL]

\* link_list_get_next_data_ex on a queue: the data of its tail.
Offered == free.tail

\* Faulty: the list an item leaves forgets its tail.
GetDataClearsTail(t) ==
  LET moved == MoveNode(mem, free, used, Offered)
  IN  /\ held[t] = NIL
      /\ Offered # NIL
      /\ mem' = moved.m
      /\ free' = [moved.from EXCEPT !.tail = NIL]
      /\ used' = moved.to
      /\ held' = [held EXCEPT ![t] = Offered]

\* Faulty: the tail of the list an item leaves follows to the node before it.
GetDataMovesTail(t) ==
  LET moved == MoveNode(mem, free, used, Offered)
  IN  /\ held[t] = NIL
      /\ Offered # NIL
      /\ mem' = moved.m
      /\ free' = [moved.from EXCEPT !.tail = mem.prev[@]]
      /\ used' = moved.to
      /\ held' = [held EXCEPT ![t] = Offered]

\* pool_get_data.  The branches for an empty free list (a new event, or a wait
\* on pool->cond at max_count) are never taken: PoolNeverRunsOut.
GetData(t) ==
  LET moved == MoveNode(mem, free, used, Offered)
  IN  /\ held[t] = NIL
      /\ Offered # NIL
      /\ mem' = moved.m
      /\ free' = moved.from
      /\ used' = moved.to
      /\ held' = [held EXCEPT ![t] = Offered]

\* Faulty: the node is linked behind the free head but not unlinked first.
ReturnWithoutUnlinking(t) ==
  LET put == Link(mem, free, held[t])
  IN  /\ held[t] # NIL
      /\ mem' = put.m
      /\ free' = put.l
      /\ used' = used
      /\ held' = [held EXCEPT ![t] = NIL]

\* pool_return_data looks the event up in the used list.  Its cond_signal
\* reaches nobody, because nobody ever waits on pool->cond.
ReturnData(t) ==
  LET moved == MoveNode(mem, used, free, held[t])
  IN  /\ held[t] # NIL
      /\ mem' = moved.m
      /\ used' = moved.from
      /\ free' = moved.to
      /\ held' = [held EXCEPT ![t] = NIL]

Next == \E t \in Threads : GetData(t) \/ ReturnData(t)

Spec == Init /\ [][Next]_vars

-----------------------------------------------------------------------------
TypeOK ==
  /\ mem \in [next : [Node -> Node], prev : [Node -> Node], data : [Node -> Node]]
  /\ \A l \in {free, used} : l.head \in Node \cup {NIL} /\ l.tail \in Node \cup {NIL}
  /\ held \in [Threads -> Node \cup {NIL}]

(* All waiters of the process share one event: whatever is held at a time, *)
(* by waiters on whatever condition variables, is one and the same event.  *)
(* OsThreads has a single event for this reason.                         *)
OneEventForAll ==
  \A t, u \in Threads : held[t] # NIL /\ held[u] # NIL => held[t] = held[u]

(* The two lists end up sharing nodes, yet prev always undoes next, so the *)
(* search loops of link_list_move_node come back to where they began       *)
(* instead of running for ever under pool->lock.                           *)
RingsStayClosed ==
  /\ TypeOK
  /\ \A n \in Node : mem.prev[mem.next[n]] = n /\ mem.next[mem.prev[n]] = n

(* The pool always has something to offer: it never creates a third event  *)
(* and no thread ever waits for one while holding a queue's lock.          *)
PoolNeverRunsOut == Offered # NIL
=============================================================================
