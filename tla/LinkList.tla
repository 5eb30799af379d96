------------------------------ MODULE LinkList ------------------------------
(***************************************************************************)
(* What a link_list_t promises its callers: one list of the library, used  *)
(* under its owner's lock, so one call at a time.                          *)
(***************************************************************************)
EXTENDS LinkListOps

CONSTANTS Data,      \* the pointers callers put on the list
          MaxLen,    \* bound: longest list
          MaxMisses, \* bound: deletions of data that is not on the list
          NONE       \* no data

VARIABLES type,      \* list_type, fixed by link_list_create
          list,      \* the items and the position of the tail
          count,     \* list->count
          misses,    \* history: deletions that found nothing
          out        \* what the last call returned

vars == << type, list, count, misses, out >>

Init ==
  /\ type \in {REGULAR, QUEUE}
  /\ list = EmptyList
  /\ count = 0
  /\ misses = 0
  /\ out = NONE

Add(x) ==
  /\ Len(list.items) < MaxLen
  /\ ~ Listed(list, x)
  /\ list' = AddData(list, x)
  /\ count' = count + 1
  /\ out' = NONE
  /\ UNCHANGED << type, misses >>

Delete(x) ==
  /\ Listed(list, x)
  /\ list' = DeleteData(list, x)
  /\ count' = count - 1
  /\ out' = NONE
  /\ UNCHANGED << type, misses >>

\* The loop runs off the ring without a match, and count is decremented all
\* the same; only an empty list returns before that.
DeleteMissing(x) ==
  /\ list.items # << >>
  /\ ~ Listed(list, x)
  /\ misses < MaxMisses
  /\ misses' = misses + 1
  /\ count' = count - 1
  /\ out' = NONE
  /\ UNCHANGED << type, list >>

GetNext ==
  /\ out' = IF HasNext(list, type) THEN NextData(list, type) ELSE NONE
  /\ UNCHANGED << type, list, count, misses >>

Iterate ==
  /\ out' = IterationOrder(list, type)
  /\ UNCHANGED << type, list, count, misses >>

\* link_list_destroy, and a new list of either type in its place.
Recreate ==
  /\ type' \in {REGULAR, QUEUE}
  /\ list' = EmptyList
  /\ count' = 0
  /\ misses' = 0
  /\ out' = NONE

Next ==
  \/ \E x \in Data : Add(x) \/ Delete(x) \/ DeleteMissing(x)
  \/ GetNext
  \/ Iterate
  \/ Recreate

Spec == Init /\ [][Next]_vars
=============================================================================
