-------------------------- MODULE OsThreadsProofs --------------------------
(***************************************************************************)
(* Invariance proofs for OsThreads: for any number of Solo threads and any *)
(* flush jobs, types, the locks of waiters, the counts of the condition    *)
(* variables, the contents of thd_list, and the gate of _os_init_complete; *)
(* on top of these, where each message is and how many exits are pending.  *)
(* The first part is about lists of any length, whoever owns them.         *)
(***************************************************************************)
EXTENDS OsThreads, FiniteSetTheorems, TLAPS

-----------------------------------------------------------------------------
(* What the operators of LinkListOps return, for lists of any length.      *)

\* Where the items are after one of them was removed.
LEMMA RemoveAtElements ==
  ASSUME NEW S, NEW s \in Seq(S), NEW i \in 1 .. Len(s)
  PROVE  /\ RemoveAt(s, i) \in Seq(S)
         /\ Len(RemoveAt(s, i)) = Len(s) - 1
         /\ \A k \in 1 .. Len(s) - 1 :
              RemoveAt(s, i)[k] = IF k < i THEN s[k] ELSE s[k + 1]
<1> DEFINE a == SubSeq(s, 1, i - 1)
           b == SubSeq(s, i + 1, Len(s))
<1>1. Len(s) \in Nat
  OBVIOUS
<1>2. a \in Seq(S) /\ Len(a) = i - 1 /\ \A k \in 1 .. i - 1 : a[k] = s[k]
  OBVIOUS
<1>3. b \in Seq(S) /\ Len(b) = Len(s) - i /\ \A k \in 1 .. Len(s) - i : b[k] = s[i + k]
  OBVIOUS
<1>4. RemoveAt(s, i) = a \o b
  BY DEF RemoveAt
<1> HIDE DEF a, b
<1>5. /\ a \o b \in Seq(S)
      /\ Len(a \o b) = Len(a) + Len(b)
      /\ \A k \in 1 .. Len(a) + Len(b) :
           (a \o b)[k] = IF k <= Len(a) THEN a[k] ELSE b[k - Len(a)]
  <2>1. a \in Seq(S) /\ b \in Seq(S)
    BY <1>2, <1>3
  <2> QED
    BY <2>1
<1>6. ASSUME NEW k \in 1 .. Len(s) - 1, k >= i PROVE b[k - (i - 1)] = s[k + 1]
  BY <1>1, <1>3, <1>6
<1> QED
  BY <1>1, <1>2, <1>3, <1>4, <1>5, <1>6

\* Where the items are after one was put behind the head.
LEMMA InsertAtElements ==
  ASSUME NEW S, NEW s \in Seq(S), s # << >>, NEW x \in S
  PROVE  /\ InsertAt(s, 2, x) \in Seq(S)
         /\ Len(InsertAt(s, 2, x)) = Len(s) + 1
         /\ \A k \in 1 .. Len(s) + 1 :
              InsertAt(s, 2, x)[k] = IF k = 1 THEN s[1] ELSE IF k = 2 THEN x ELSE s[k - 1]
  BY DEF InsertAt

\* link_list_add_data keeps a list well formed: a queue with items has a tail.
LEMMA AddDataWellFormed ==
  ASSUME NEW S, NEW l, WellFormed(l, S), NEW x \in S
  PROVE  WellFormed(AddData(l, x), S)
<1>1. CASE l.items = << >>
  BY <1>1 DEF WellFormed, AddData
<1>2. CASE l.items # << >>
  <2>1. /\ InsertAt(l.items, 2, x) \in Seq(S)
        /\ Len(InsertAt(l.items, 2, x)) = Len(l.items) + 1
    BY <1>2, InsertAtElements DEF WellFormed
  <2>2. Len(l.items) \in Nat /\ Len(l.items) > 0
    BY <1>2 DEF WellFormed
  <2>3. AddData(l, x) = [items |-> InsertAt(l.items, 2, x),
                         tail  |-> IF Len(l.items) = 1 THEN 2
                                   ELSE IF l.tail > 1 THEN l.tail + 1 ELSE l.tail]
    BY <2>2 DEF AddData
  <2> QED
    BY <1>2, <2>1, <2>2, <2>3 DEF WellFormed
<1> QED
  BY <1>1, <1>2

\* link_list_add_data adds its data and nothing else.
LEMMA AddDataListed ==
  ASSUME NEW S, NEW l, WellFormed(l, S), NEW x \in S, NEW y
  PROVE  Listed(AddData(l, x), y) <=> Listed(l, y) \/ y = x
<1>1. CASE l.items = << >>
  BY <1>1 DEF WellFormed, AddData, Listed, Contains
<1>2. CASE l.items # << >>
  <2> DEFINE t == InsertAt(l.items, 2, x)
  <2>1. /\ Len(t) = Len(l.items) + 1
        /\ \A k \in 1 .. Len(l.items) + 1 :
             t[k] = IF k = 1 THEN l.items[1] ELSE IF k = 2 THEN x ELSE l.items[k - 1]
    BY <1>2, InsertAtElements DEF WellFormed
  <2>2. Len(l.items) \in Nat /\ Len(l.items) > 0
    BY <1>2 DEF WellFormed
  <2>3. AddData(l, x).items = t
    BY <2>2 DEF AddData
  <2> HIDE DEF t
  <2>4. ASSUME Contains(l.items, y) PROVE Contains(t, y)
    <3>1. PICK k \in 1 .. Len(l.items) : l.items[k] = y
      BY <2>4 DEF Contains
    <3>2. CASE k = 1
      BY <2>1, <2>2, <3>1, <3>2 DEF Contains
    <3>3. CASE k > 1
      <4>1. k + 1 \in 1 .. Len(t) /\ t[k + 1] = y
        BY <2>1, <2>2, <3>1, <3>3
      <4> QED
        BY <4>1 DEF Contains
    <3> QED
      BY <3>1, <3>2, <3>3
  <2>5. Contains(t, x)
    <3>1. 2 \in 1 .. Len(t) /\ t[2] = x
      BY <2>1, <2>2
    <3> QED
      BY <3>1 DEF Contains
  <2>6. ASSUME Contains(t, y), y # x PROVE Contains(l.items, y)
    BY <2>1, <2>2, <2>6 DEF Contains
  <2> QED
    BY <2>3, <2>4, <2>5, <2>6 DEF Listed
<1> QED
  BY <1>1, <1>2

\* link_list_add_data of something new keeps the items distinct.
LEMMA AddDataDistinct ==
  ASSUME NEW S, NEW l, WellFormed(l, S), NEW x \in S, Distinct(l), ~ Listed(l, x)
  PROVE  Distinct(AddData(l, x))
<1>1. CASE l.items = << >>
  BY <1>1 DEF WellFormed, AddData, Distinct
<1>2. CASE l.items # << >>
  <2> DEFINE t == InsertAt(l.items, 2, x)
  <2>1. /\ Len(t) = Len(l.items) + 1
        /\ \A k \in 1 .. Len(l.items) + 1 :
             t[k] = IF k = 1 THEN l.items[1] ELSE IF k = 2 THEN x ELSE l.items[k - 1]
    BY <1>2, InsertAtElements DEF WellFormed
  <2>2. Len(l.items) \in Nat /\ Len(l.items) > 0
    BY <1>2 DEF WellFormed
  <2>3. AddData(l, x).items = t
    BY <2>2 DEF AddData
  <2>4. \A k \in 1 .. Len(l.items) : l.items[k] # x
    BY DEF Listed, Contains
  <2> HIDE DEF t
  <2>5. ASSUME NEW i \in 1 .. Len(t), NEW j \in 1 .. Len(t), t[i] = t[j]
        PROVE  i = j
    <3>1. t[i] = IF i = 1 THEN l.items[1] ELSE IF i = 2 THEN x ELSE l.items[i - 1]
      BY <2>1, <2>2
    <3>2. t[j] = IF j = 1 THEN l.items[1] ELSE IF j = 2 THEN x ELSE l.items[j - 1]
      BY <2>1, <2>2
    <3>3. \A k \in 1 .. Len(t) : k # 2 => (IF k = 1 THEN 1 ELSE k - 1) \in 1 .. Len(l.items)
      BY <2>1, <2>2
    <3>4. CASE i = 2 \/ j = 2
      <4>1. \A k \in 1 .. Len(t) : t[k] = x => k = 2
        <5> SUFFICES ASSUME NEW k \in 1 .. Len(t), k # 2
                     PROVE  t[k] # x
          OBVIOUS
        <5>1. PICK p \in 1 .. Len(l.items) : p = IF k = 1 THEN 1 ELSE k - 1
          BY <3>3
        <5>2. t[k] = l.items[p]
          BY <2>1, <2>2, <5>1
        <5> QED BY <2>4, <5>2
      <4>2. 2 \in 1 .. Len(t) /\ t[2] = x
        BY <2>1, <2>2
      <4>3. t[i] = x /\ t[j] = x
        BY <2>5, <3>4, <4>2
      <4> QED BY <4>1, <4>3
    <3>5. CASE i # 2 /\ j # 2
      <4>1. PICK p \in 1 .. Len(l.items), q \in 1 .. Len(l.items) :
              p = (IF i = 1 THEN 1 ELSE i - 1) /\ q = (IF j = 1 THEN 1 ELSE j - 1)
        BY <3>3, <3>5
      <4>2. l.items[p] = l.items[q]
        BY <2>5, <3>1, <3>2, <3>5, <4>1
      <4>3. p = q
        BY <4>2 DEF Distinct
      <4> QED BY <2>1, <2>2, <3>5, <4>1, <4>3
    <3> QED BY <3>4, <3>5
  <2> QED
    BY <2>3, <2>5 DEF Distinct
<1> QED
  BY <1>1, <1>2

\* PosOf finds the data of a list that has it.
LEMMA PosOfListed ==
  ASSUME NEW l, NEW x, Listed(l, x)
  PROVE  PosOf(l, x) \in 1 .. Len(l.items) /\ l.items[PosOf(l, x)] = x
  BY DEF Listed, Contains, PosOf

\* link_list_delete_data keeps a list well formed: deleting the node at the
\* tail, or the last before the head, leaves a tail on the list.
LEMMA DeleteDataWellFormed ==
  ASSUME NEW S, NEW l, WellFormed(l, S), NEW x
  PROVE  WellFormed(DeleteData(l, x), S)
<1>1. CASE ~ Listed(l, x)
  BY <1>1 DEF DeleteData
<1>2. CASE Listed(l, x)
  <2> DEFINE i == PosOf(l, x)
             n == Len(l.items)
  <2>1. i \in 1 .. n
    BY <1>2, PosOfListed
  <2>2. l.items \in Seq(S) /\ n \in Nat /\ l.tail \in 1 .. n
    BY <2>1 DEF WellFormed
  <2>3. RemoveAt(l.items, i) \in Seq(S) /\ Len(RemoveAt(l.items, i)) = n - 1
    BY <2>1, <2>2, RemoveAtElements
  <2>4. DeleteData(l, x) = [items |-> RemoveAt(l.items, i),
                            tail  |-> TailAfterDelete(n, l.tail, i)]
    BY <1>2 DEF DeleteData
  <2> HIDE DEF i, n
  <2>5. /\ TailAfterDelete(n, l.tail, i) \in 0 .. n - 1
        /\ TailAfterDelete(n, l.tail, i) = 0 <=> n = 1
    BY <2>1, <2>2 DEF TailAfterDelete
  <2>6. RemoveAt(l.items, i) = << >> <=> n = 1
    BY <2>3, <2>2
  <2> QED
    BY <2>2, <2>3, <2>4, <2>5, <2>6 DEF WellFormed
<1> QED
  BY <1>1, <1>2

\* link_list_delete_data takes its data off the list and nothing else.
LEMMA DeleteDataListed ==
  ASSUME NEW S, NEW l, WellFormed(l, S), Distinct(l), NEW x, NEW y
  PROVE  Listed(DeleteData(l, x), y) <=> Listed(l, y) /\ y # x
<1>1. CASE ~ Listed(l, x)
  BY <1>1 DEF DeleteData
<1>2. CASE Listed(l, x)
  <2> DEFINE i == PosOf(l, x)
             s == l.items
             r == RemoveAt(s, i)
  <2>1. i \in 1 .. Len(s) /\ s[i] = x
    BY <1>2, PosOfListed
  <2>2. s \in Seq(S) /\ Len(s) \in Nat
    BY DEF WellFormed
  <2>3. Len(r) = Len(s) - 1
    BY <2>1, <2>2, RemoveAtElements
  <2>4. \A k \in 1 .. Len(s) - 1 : r[k] = IF k < i THEN s[k] ELSE s[k + 1]
    BY <2>1, <2>2, RemoveAtElements
  <2>5. DeleteData(l, x).items = r
    BY <1>2 DEF DeleteData
  <2>6. \A k, j \in 1 .. Len(s) : s[k] = s[j] => k = j
    BY DEF Distinct
  <2> HIDE DEF i, s, r
  <2>7. ASSUME Contains(r, y) PROVE Contains(s, y) /\ y # x
    <3>1. PICK k \in 1 .. Len(r) : r[k] = y
      BY <2>7 DEF Contains
    <3>2. PICK j \in 1 .. Len(s) : s[j] = y /\ j # i
      BY <2>1, <2>2, <2>3, <2>4, <3>1
    <3> QED
      BY <2>1, <2>6, <3>2 DEF Contains
  <2>8. ASSUME Contains(s, y), y # x PROVE Contains(r, y)
    <3>1. PICK j \in 1 .. Len(s) : s[j] = y
      BY <2>8 DEF Contains
    <3>2. j # i
      BY <2>1, <2>8, <3>1
    <3>3. CASE j < i
      <4>1. j \in 1 .. Len(r) /\ r[j] = y
        BY <2>1, <2>2, <2>3, <2>4, <3>1, <3>3
      <4> QED
        BY <4>1 DEF Contains
    <3>4. CASE j > i
      <4>1. j - 1 \in 1 .. Len(r) /\ r[j - 1] = y
        BY <2>1, <2>2, <2>3, <2>4, <3>1, <3>4
      <4> QED
        BY <4>1 DEF Contains
    <3> QED
      BY <2>1, <2>2, <3>1, <3>2, <3>3, <3>4
  <2> QED
    BY <2>5, <2>7, <2>8 DEF Listed, s
<1> QED
  BY <1>1, <1>2

\* link_list_delete_data keeps the items distinct.
LEMMA DeleteDataDistinct ==
  ASSUME NEW S, NEW l, WellFormed(l, S), Distinct(l), NEW x
  PROVE  Distinct(DeleteData(l, x))
<1>1. CASE ~ Listed(l, x)
  BY <1>1 DEF DeleteData
<1>2. CASE Listed(l, x)
  <2> DEFINE i == PosOf(l, x)
             r == RemoveAt(l.items, i)
  <2>1. i \in 1 .. Len(l.items)
    BY <1>2, PosOfListed
  <2>2. l.items \in Seq(S) /\ Len(l.items) \in Nat
    BY DEF WellFormed
  <2>3. /\ Len(r) = Len(l.items) - 1
        /\ \A k \in 1 .. Len(l.items) - 1 :
             r[k] = IF k < i THEN l.items[k] ELSE l.items[k + 1]
    BY <2>1, <2>2, RemoveAtElements
  <2>4. DeleteData(l, x).items = r
    BY <1>2 DEF DeleteData
  <2> HIDE DEF i, r
  <2>5. ASSUME NEW k \in 1 .. Len(r), NEW j \in 1 .. Len(r), r[k] = r[j]
        PROVE  k = j
    BY <2>1, <2>2, <2>3, <2>5 DEF Distinct
  <2> QED
    BY <2>4, <2>5 DEF Distinct
<1> QED
  BY <1>1, <1>2

\* What a list hands out next is on it.
LEMMA NextDataListed ==
  ASSUME NEW S, NEW l, WellFormed(l, S), NEW type, HasNext(l, type)
  PROVE  NextData(l, type) \in S /\ Listed(l, NextData(l, type))
<1>1. ServedPos(l, type) \in 1 .. Len(l.items)
  BY DEF WellFormed, HasNext, ServedPos
<1> QED
  BY <1>1 DEF WellFormed, NextData, Listed, Contains

-----------------------------------------------------------------------------
(* The inductive invariant.                                                *)

\* Every list of the program has a tail exactly when it has items.
ListsInv ==
  /\ \A q \in Queues : WellFormed(queue[q], Message)
  /\ WellFormed(thdList, Threads \cup {Main})

\* A worker is at the gate or at its own queue, behind the gate only once
\* inited is set, and works on messages behind it only.
GateInv ==
  /\ \A t \in Threads : on[t] \in {InitCond, QueueOf(t)}
  /\ \A t \in Threads : on[t] # InitCond => inited
  /\ \A t \in Threads : pc[t] = "run" => on[t] # InitCond
  /\ ~ inited => \A m \in Message : done[m] = 0

Inv ==
  /\ TypeOK
  /\ ListsInv
  /\ GateInv
  /\ WaiterHoldsItsLock
  /\ CountIsWaiters
  /\ UsageIsUsers
  /\ ThdListIsAlive

\* A step that moves no worker, but for those an event wakes.
PcKept ==
  \A t \in Threads : pc'[t] = pc[t] \/ (pc[t] = "blocked" /\ pc'[t] = "woken")

\* A post by way of the os_thread_t of t.
Posting(t, msg) ==
  \/ PostToFreed(t, msg)
  \/ QueueAdd(QueueOf(t), msg) /\ UNCHANGED << mpc, lost >>

-----------------------------------------------------------------------------
LEMMA QueueOfType == \A t \in Threads : QueueOf(t) \in Queues /\ QueueOf(t) \in Conds
  BY DEF QueueOf, Threads, Queues, Conds

LEMMA ThreadsFinite == IsFiniteSet(Threads)
<1>1. IsFiniteSet(Crew)
  <2>1. Crew = {Helper} \cup {CacheThd}
    BY DEF Crew
  <2>2. IsFiniteSet({Helper})
    BY FS_Singleton
  <2> QED
    BY <2>1, <2>2, FS_AddElement
<1> QED
  BY <1>1, FS_Union, ThreadsAssumption DEF Threads

\* SetEvent moves blocked workers only, and keeps types.
LEMMA BroadcastKeeps ==
  ASSUME TypeOK, NEW c \in Conds, Broadcast(c)
  PROVE  PcKept /\ pc' \in [Threads -> PCs] /\ signalled' \in BOOLEAN
<1>1. CASE SetEvent
  <2>1. pc' = [t \in Threads |-> IF pc[t] = "blocked" THEN "woken" ELSE pc[t]]
    BY <1>1 DEF SetEvent
  <2>2. "woken" \in PCs
    BY DEF PCs, Waiting
  <2> QED
    BY <1>1, <2>1, <2>2 DEF TypeOK, SetEvent, PcKept
<1>2. CASE UNCHANGED << signalled, pc >>
  BY <1>2 DEF TypeOK, PcKept
<1> QED
  BY <1>1, <1>2 DEF Broadcast

\* What a post leaves behind, whether or not its os_thread_t is still there.
LEMMA PostingKeeps ==
  ASSUME TypeOK, ListsInv, NEW t \in Threads, NEW msg \in Message, Posting(t, msg)
  PROVE  /\ PcKept /\ pc' \in [Threads -> PCs] /\ signalled' \in BOOLEAN
         /\ queue' \in [Queues -> ListOf(Message)]
         /\ \A q \in Queues : WellFormed(queue'[q], Message)
         /\ posted' \subseteq Message /\ lost' \subseteq Message
         /\ mpc' \in {mpc, "crashed"}
<1>1. CASE QueueAdd(QueueOf(t), msg) /\ UNCHANGED << mpc, lost >>
  <2>1. PcKept /\ pc' \in [Threads -> PCs] /\ signalled' \in BOOLEAN
    BY <1>1, BroadcastKeeps, QueueOfType DEF QueueAdd
  <2>2. WellFormed(AddData(queue[QueueOf(t)], msg), Message)
    BY AddDataWellFormed, QueueOfType DEF ListsInv
  <2>3. \A q \in Queues : WellFormed(queue'[q], Message)
    BY <1>1, <2>2 DEF QueueAdd, ListsInv, TypeOK
  <2>4. queue' \in [Queues -> ListOf(Message)]
    BY <1>1, <2>2, QueueOfType DEF QueueAdd, TypeOK, WellFormed, ListOf
  <2> QED
    BY <1>1, <2>1, <2>3, <2>4 DEF QueueAdd, TypeOK
<1>2. CASE /\ UNCHANGED << queue, signalled, pc >>
           /\ posted' \in {posted, posted \cup {msg}}
           /\ lost' \in {lost, lost \cup {msg}}
           /\ mpc' \in {mpc, "crashed"}
  BY <1>2 DEF PcKept, TypeOK, ListsInv
<1>3. CASE PostToFreed(t, msg)
  BY <1>1, <1>2, <1>3 DEF PostToFreed
<1> QED
  BY <1>1, <1>3 DEF Posting

\* The actions that post are posts to a worker of a message for it.
LEMMA CacheFlushPosts ==
  ASSUME NEW p, NEW f \in Flushes, CacheFlush(p, f)
  PROVE  CacheThd \in Threads /\ Exec(f) \in Message /\ Posting(CacheThd, Exec(f))
  BY DEF CacheFlush, Posting, Threads, Crew, QueueOf, Exec, Message, Work

LEMMA PostExitPosts ==
  ASSUME TypeOK, PostExit
  PROVE  \E t \in Threads : Exit(t) \in Message /\ Posting(t, Exit(t))
<1>1. Head(toStop) \in Threads
  BY DEF PostExit, TypeOK
<1>2. Exit(Head(toStop)) \in Message
  BY <1>1 DEF Exit, Message
<1> QED
  BY <1>1, <1>2 DEF PostExit, Posting

\* What is left of thd_list when the main thread's entry is passed over.
LEMMA GatherNotesWorkers ==
  ASSUME ListsInv, ThdListIsAlive, mpc # "down"
  PROVE  RemoveAt(thdList.items, PosOf(thdList, Main)) \in Seq(Threads)
<1> DEFINE i == PosOf(thdList, Main)
           s == thdList.items
<1>1. i \in 1 .. Len(s) /\ s[i] = Main
  BY PosOfListed DEF ThdListIsAlive
<1>2. s \in Seq(Threads \cup {Main}) /\ Len(s) \in Nat
  BY DEF ListsInv, WellFormed
<1>3. \A k, j \in 1 .. Len(s) : s[k] = s[j] => k = j
  BY DEF ThdListIsAlive, Distinct
<1> HIDE DEF i, s
<1>4. /\ RemoveAt(s, i) \in Seq(Threads \cup {Main})
      /\ Len(RemoveAt(s, i)) = Len(s) - 1
      /\ \A k \in 1 .. Len(s) - 1 : RemoveAt(s, i)[k] = IF k < i THEN s[k] ELSE s[k + 1]
  BY <1>1, <1>2, RemoveAtElements
<1>5. ASSUME NEW k \in 1 .. Len(s) - 1 PROVE RemoveAt(s, i)[k] \in Threads
  <2>1. PICK j \in 1 .. Len(s) : j # i /\ RemoveAt(s, i)[k] = s[j]
    BY <1>1, <1>2, <1>4
  <2> QED
    BY <1>1, <1>2, <1>3, <2>1
<1>6. RemoveAt(s, i) \in Seq(Threads)
  BY <1>2, <1>4, <1>5
<1> QED
  BY <1>6 DEF i, s

-----------------------------------------------------------------------------
(* TypeOK.                                                                 *)

\* One more of anything that is counted.
LEMMA CountedUp ==
  ASSUME NEW S, NEW f \in [S -> Nat], NEW x
  PROVE  [f EXCEPT ![x] = @ + 1] \in [S -> Nat]
<1>1. CASE x \in S
  BY <1>1
<1>2. CASE x \notin S
  BY <1>2
<1> QED
  BY <1>1, <1>2

\* A worker that leaves.
LEMMA LeaveKeepsTypes ==
  ASSUME Inv, NEW t \in Threads, Leave(t), done' \in [Message -> Nat]
  PROVE  TypeOK'
<1>1. WellFormed(DeleteData(thdList, t), Threads \cup {Main})
  BY DeleteDataWellFormed DEF Inv, ListsInv
<1>2. thdList' \in ListOf(Threads \cup {Main})
  BY <1>1 DEF Leave, WellFormed, ListOf
<1>3. {queue[QueueOf(t)].items[i] : i \in 1 .. Len(queue[QueueOf(t)].items)} \subseteq Message
  BY QueueOfType DEF Inv, ListsInv, WellFormed
<1>4. EmptyList \in ListOf(Message)
  BY DEF ListOf, EmptyList
<1>5. lost' \subseteq Message /\ queue' \in [Queues -> ListOf(Message)]
  <2>1. CASE usage[QueueOf(t)] = 1
    BY <1>3, <1>4, <2>1 DEF Leave, Inv, TypeOK
  <2>2. CASE usage[QueueOf(t)] # 1
    BY <2>2 DEF Leave, Inv, TypeOK
  <2> QED
    BY <2>1, <2>2
<1>6. pc' \in [Threads -> PCs] /\ hand' \in [Threads -> Message \cup {NIL}]
  BY DEF Leave, Inv, TypeOK, PCs
<1>7. usage' \in [Queues -> Int]
  BY QueueOfType DEF Leave, Inv, TypeOK
<1> QED
  BY <1>2, <1>5, <1>6, <1>7 DEF Leave, Inv, TypeOK, waitVars, mainVars

LEMMA WorkerKeepsTypes ==
  ASSUME Inv, NEW t \in Threads, Worker(t)
  PROVE  TypeOK'
<1> USE DEF Inv
<1>0. {"enter", "run", "exited", "reset", "register", "unlock", "wait", "blocked", "woken"} \subseteq PCs
  BY DEF PCs, Held, Waiting
<1>1. CASE PassGate(t)
  BY <1>1, QueueOfType DEF PassGate, TypeOK, queueVars, mainVars
<1>2. CASE TakeMessage(t)
  <2> DEFINE q == on[t]
             m == NextData(queue[q], QUEUE)
  <2>1. q \in Queues
    BY <1>2 DEF TakeMessage, TypeOK, Conds
  <2>2. m \in Message
    BY <1>2, <2>1, NextDataListed DEF TakeMessage, ListsInv
  <2>3. WellFormed(DeleteData(queue[q], m), Message)
    BY <2>1, DeleteDataWellFormed DEF ListsInv
  <2>4. queue' \in [Queues -> ListOf(Message)]
    BY <1>2, <2>1, <2>3 DEF TakeMessage, TypeOK, WellFormed, ListOf
  <2> QED
    BY <1>0, <1>2, <2>2, <2>4 DEF TakeMessage, TypeOK, waitVars, mainVars
<1>3. CASE BeginWait(t)
  BY <1>0, <1>3 DEF BeginWait, TypeOK, queueVars, mainVars
<1>4. CASE ResetEvent(t)
  BY <1>0, <1>4 DEF ResetEvent, TypeOK, queueVars, mainVars
<1>5. CASE Register(t)
  <2> DEFINE c == on[t]
             i == IF count[c] = 0 THEN 0 ELSE count[c] - 1
  <2>1. c \in Conds /\ count[c] \in Nat
    BY DEF TypeOK
  <2>2. Waiters(c) \subseteq Threads \ {t}
    BY <1>5 DEF Register, Waiters, Waiting
  <2>3. IsFiniteSet(Threads \ {t}) /\ Cardinality(Threads \ {t}) = Cardinality(Threads) - 1
    BY ThreadsFinite, FS_RemoveElement
  <2>4. Cardinality(Waiters(c)) <= Cardinality(Threads) - 1
    BY <2>2, <2>3, FS_Subset
  <2>5. Cardinality(Threads) \in Nat
    BY ThreadsFinite, FS_CardinalityType
  <2>6. count[c] <= Cardinality(Threads) - 1
    BY <2>1, <2>4 DEF CountIsWaiters
  <2>7. i \in Slots
    BY <2>1, <2>5, <2>6 DEF Slots
  <2>8. slot' \in [Threads -> Slots]
    BY <1>5, <2>7 DEF Register, TypeOK
  <2>9. map' \in [Conds -> [Slots -> BOOLEAN]]
    BY <1>5, <2>1, <2>7 DEF Register, TypeOK
  <2>10. count' \in [Conds -> Nat] /\ pc' \in [Threads -> PCs]
    BY <1>0, <1>5, <2>1 DEF Register, TypeOK
  <2> QED
    BY <1>5, <2>8, <2>9, <2>10 DEF Register, TypeOK, queueVars, mainVars
<1>6. CASE Unlock(t)
  BY <1>0, <1>6 DEF Unlock, TypeOK, queueVars, mainVars
<1>7. CASE Wait(t)
  BY <1>0, <1>7 DEF Wait, TypeOK, waitVars, queueVars, mainVars
<1>8. CASE Unregister(t)
  <2>1. on[t] \in Conds /\ slot[t] \in Slots /\ count[on[t]] \in Nat
    BY DEF TypeOK
  <2>2. map' \in [Conds -> [Slots -> BOOLEAN]]
    BY <1>8, <2>1 DEF Unregister, TypeOK
  <2>3. count' \in [Conds -> Nat] /\ pc' \in [Threads -> PCs]
    BY <1>0, <1>8, <2>1 DEF Unregister, TypeOK
  <2> QED
    BY <1>8, <2>2, <2>3 DEF Unregister, TypeOK, queueVars, mainVars
<1>9. CASE RunJob(t)
  <2>1. done' \in [Message -> Nat]
    BY <1>9, CountedUp DEF RunJob, TypeOK
  <2> QED
    BY <1>0, <1>9, <2>1 DEF RunJob, TypeOK, waitVars, queueVars, mainVars
<1>10. CASE ObeyExit(t) \/ Die(t)
  <2>0. done' = [done EXCEPT ![hand[t]] = @ + 1]
    BY <1>10 DEF ObeyExit, Die
  <2>1. done' \in [Message -> Nat]
    <3>1. done \in [Message -> Nat]
      BY DEF TypeOK
    <3> QED
      BY <2>0, <3>1, CountedUp
  <2> QED
    BY <1>10, <2>1, LeaveKeepsTypes DEF ObeyExit, Die
<1> QED
  BY <1>1, <1>2, <1>3, <1>4, <1>5, <1>6, <1>7, <1>8, <1>9, <1>10 DEF Worker

LEMMA RequestsKeepTypes ==
  ASSUME Inv, NEW p \in Threads \cup {Main}
  PROVE  /\ \A f \in Flushes : CacheFlush(p, f) => TypeOK'
         /\ \A t \in Solo : CreateThread(p, t) => TypeOK'
<1>1. ASSUME NEW f \in Flushes, CacheFlush(p, f) PROVE TypeOK'
  <2>1. /\ pc' \in [Threads -> PCs] /\ signalled' \in BOOLEAN
        /\ queue' \in [Queues -> ListOf(Message)]
        /\ posted' \subseteq Message /\ lost' \subseteq Message
        /\ mpc' \in {mpc, "crashed"}
    BY <1>1, CacheFlushPosts, PostingKeeps DEF Inv
  <2> QED
    BY <1>1, <2>1 DEF CacheFlush, Inv, TypeOK
<1>2. ASSUME NEW t \in Solo, CreateThread(p, t) PROVE TypeOK'
  <2>1. t \in Threads /\ t \in Queues /\ Exec(t) \in Message
    BY DEF Threads, Queues, Exec, Message, Work
  <2>2. WellFormed(AddData(thdList, t), Threads \cup {Main})
    BY <2>1, AddDataWellFormed DEF Inv, ListsInv
  <2>3. WellFormed(AddData(queue[t], Exec(t)), Message)
    BY <2>1, AddDataWellFormed DEF Inv, ListsInv
  <2>4. thdList' \in ListOf(Threads \cup {Main})
    BY <1>2, <2>2 DEF CreateThread, WellFormed, ListOf
  <2>5. queue' \in [Queues -> ListOf(Message)]
    BY <1>2, <2>1, <2>3 DEF CreateThread, Inv, TypeOK, WellFormed, ListOf
  <2>6. pc' \in [Threads -> PCs] /\ posted' \subseteq Message /\ usage' \in [Queues -> Int]
    BY <1>2, <2>1 DEF CreateThread, Inv, TypeOK, PCs
  <2> QED
    BY <1>2, <2>4, <2>5, <2>6 DEF CreateThread, Inv, TypeOK, waitVars, mainVars
<1> QED
  BY <1>1, <1>2

LEMMA MainKeepsTypes ==
  ASSUME Inv, Running, MainStep
  PROVE  TypeOK'
<1> USE DEF Inv
<1>1. CASE InitComplete
  <2>1. pc' \in [Threads -> PCs] /\ signalled' \in BOOLEAN
    BY <1>1, BroadcastKeeps DEF InitComplete, Conds
  <2> QED
    BY <1>1, <2>1 DEF InitComplete, TypeOK, queueVars, mainVars
<1>2. CASE Gather
  <2>1. toStop' \in Seq(Threads)
    BY <1>2, GatherNotesWorkers DEF Gather
  <2> QED
    BY <1>2, <2>1 DEF Gather, TypeOK, waitVars, queueVars
<1>3. CASE PostExit
  <2>1. /\ pc' \in [Threads -> PCs] /\ signalled' \in BOOLEAN
        /\ queue' \in [Queues -> ListOf(Message)]
        /\ posted' \subseteq Message /\ lost' \subseteq Message
        /\ mpc' \in {mpc, "crashed"}
    BY <1>3, PostExitPosts, PostingKeeps
  <2>2. toStop' \in Seq(Threads)
    BY <1>3 DEF PostExit, TypeOK
  <2> QED
    BY <1>3, <2>1, <2>2 DEF PostExit, TypeOK
<1>4. CASE BeginJoin
  BY <1>4 DEF BeginJoin, TypeOK, waitVars, queueVars
<1>5. CASE TearDown
  <2>1. EmptyList \in ListOf(Threads \cup {Main})
    BY DEF EmptyList, ListOf
  <2> QED
    BY <1>5, <2>1 DEF TearDown, TypeOK, waitVars, queueVars
<1> QED
  BY <1>1, <1>2, <1>3, <1>4, <1>5 DEF MainStep

-----------------------------------------------------------------------------
(* The lists.                                                              *)

LEMMA LeaveKeepsLists ==
  ASSUME Inv, NEW t \in Threads, Leave(t)
  PROVE  ListsInv'
<1>1. WellFormed(thdList', Threads \cup {Main})
  BY DeleteDataWellFormed DEF Leave, Inv, ListsInv
<1>2. WellFormed(EmptyList, Message)
  BY DEF WellFormed, EmptyList
<1>3. \A q \in Queues : queue'[q] \in {queue[q], EmptyList}
  BY DEF Leave, Inv, TypeOK
<1> QED
  BY <1>1, <1>2, <1>3 DEF Inv, ListsInv

LEMMA NextKeepsLists ==
  ASSUME Inv, Next
  PROVE  ListsInv'
<1> USE DEF Inv
<1>1. ASSUME UNCHANGED << queue, thdList >> PROVE ListsInv'
  BY <1>1 DEF ListsInv
<1>2. ASSUME NEW t \in Threads, Worker(t) PROVE ListsInv'
  <2>1. CASE TakeMessage(t)
    <3>1. on[t] \in Queues
      BY <2>1 DEF TakeMessage, TypeOK, Conds
    <3>2. WellFormed(DeleteData(queue[on[t]], NextData(queue[on[t]], QUEUE)), Message)
      BY <3>1, DeleteDataWellFormed DEF ListsInv
    <3> QED
      BY <2>1, <3>1, <3>2 DEF TakeMessage, TypeOK, ListsInv
  <2>2. CASE ObeyExit(t) \/ Die(t)
    BY <2>2, LeaveKeepsLists DEF ObeyExit, Die
  <2>3. CASE \/ PassGate(t) \/ BeginWait(t) \/ ResetEvent(t) \/ Register(t)
             \/ Unlock(t) \/ Wait(t) \/ Unregister(t) \/ RunJob(t)
    BY <1>1, <2>3 DEF PassGate, BeginWait, ResetEvent, Register, Unlock, Wait,
                      Unregister, RunJob, queueVars
  <2> QED
    BY <1>2, <2>1, <2>2, <2>3 DEF Worker
<1>3. ASSUME NEW p, NEW f \in Flushes, CacheFlush(p, f) PROVE ListsInv'
  BY <1>3, CacheFlushPosts, PostingKeeps DEF CacheFlush, ListsInv
<1>4. ASSUME NEW p, NEW t \in Solo, CreateThread(p, t) PROVE ListsInv'
  <2>1. t \in Threads /\ t \in Queues /\ Exec(t) \in Message
    BY DEF Threads, Queues, Exec, Message, Work
  <2>2. WellFormed(AddData(thdList, t), Threads \cup {Main})
    BY <2>1, AddDataWellFormed DEF ListsInv
  <2>3. WellFormed(AddData(queue[t], Exec(t)), Message)
    BY <2>1, AddDataWellFormed DEF ListsInv
  <2> QED
    BY <1>4, <2>1, <2>2, <2>3 DEF CreateThread, TypeOK, ListsInv
<1>5. CASE PostExit
  BY <1>5, PostExitPosts, PostingKeeps DEF PostExit, ListsInv
<1>6. CASE TearDown
  <2>1. WellFormed(EmptyList, Threads \cup {Main})
    BY DEF WellFormed, EmptyList
  <2> QED
    BY <1>6, <2>1 DEF TearDown, ListsInv, queueVars
<1>7. CASE InitComplete \/ Gather \/ BeginJoin
  BY <1>1, <1>7 DEF InitComplete, Gather, BeginJoin, queueVars
<1> QED
  BY <1>2, <1>3, <1>4, <1>5, <1>6, <1>7 DEF Next, MainStep

-----------------------------------------------------------------------------
(* The gate.                                                               *)

LEMMA NextKeepsGate ==
  ASSUME Inv, Next
  PROVE  GateInv'
<1> USE DEF Inv
<1>1. ASSUME PcKept, UNCHANGED << on, done >>, inited => inited' PROVE GateInv'
  BY <1>1 DEF GateInv, PcKept
<1>2. ASSUME NEW t \in Threads, Worker(t) PROVE GateInv'
  <2>1. CASE PassGate(t)
    BY <2>1 DEF PassGate, GateInv, TypeOK
  <2>2. CASE TakeMessage(t)
    BY <2>2 DEF TakeMessage, GateInv, TypeOK, waitVars
  <2>3. CASE RunJob(t) \/ ObeyExit(t) \/ Die(t)
    <3>1. pc[t] = "run" /\ inited
      BY <2>3 DEF RunJob, ObeyExit, Die, GateInv
    <3>2. \A u \in Threads : pc'[u] = "run" => pc[u] = "run"
      BY <2>3 DEF RunJob, ObeyExit, Die, Leave, TypeOK
    <3>3. UNCHANGED << on, inited >>
      BY <2>3 DEF RunJob, ObeyExit, Die, Leave, waitVars
    <3> QED
      BY <3>1, <3>2, <3>3 DEF GateInv
  <2>4. CASE \/ BeginWait(t) \/ ResetEvent(t) \/ Register(t)
             \/ Unlock(t) \/ Wait(t) \/ Unregister(t)
    <3>1. \A u \in Threads : pc'[u] = "run" => pc[u] = "run"
      BY <2>4 DEF BeginWait, ResetEvent, Register, Unlock, Wait, Unregister, TypeOK
    <3>2. UNCHANGED << on, done, inited >>
      BY <2>4 DEF BeginWait, ResetEvent, Register, Unlock, Wait, Unregister, waitVars
    <3> QED
      BY <3>1, <3>2 DEF GateInv
  <2> QED
    BY <1>2, <2>1, <2>2, <2>3, <2>4 DEF Worker
<1>3. ASSUME NEW p, NEW f \in Flushes, CacheFlush(p, f) PROVE GateInv'
  BY <1>1, <1>3, CacheFlushPosts, PostingKeeps DEF CacheFlush
<1>4. ASSUME NEW p, NEW t \in Solo, CreateThread(p, t) PROVE GateInv'
  BY <1>4 DEF CreateThread, GateInv, TypeOK, waitVars
<1>5. CASE PostExit
  BY <1>1, <1>5, PostExitPosts, PostingKeeps DEF PostExit
<1>6. CASE InitComplete
  BY <1>1, <1>6, BroadcastKeeps DEF InitComplete, Conds
<1>7. CASE Gather \/ BeginJoin \/ TearDown
  BY <1>1, <1>7 DEF Gather, BeginJoin, TearDown, waitVars, PcKept
<1> QED
  BY <1>2, <1>3, <1>4, <1>5, <1>6, <1>7 DEF Next, MainStep

-----------------------------------------------------------------------------
(* The locks of waiters.                                                   *)

LEMMA NextKeepsLocks ==
  ASSUME Inv, Next
  PROVE  WaiterHoldsItsLock'
<1> USE DEF Inv
<1>1. ASSUME PcKept, UNCHANGED << on, owner >> PROVE WaiterHoldsItsLock'
  <2>1. \A t \in Threads : pc'[t] \in Held <=> pc[t] \in Held
    BY <1>1 DEF PcKept, Held
  <2>2. \A c \in Conds : owner[c] # NIL => owner[c] \in Threads
    BY DEF TypeOK
  <2> QED
    BY <1>1, <2>1, <2>2 DEF WaiterHoldsItsLock
<1>2. ASSUME NEW t \in Threads, Worker(t) PROVE WaiterHoldsItsLock'
  <2>0. /\ t # NIL /\ on[t] \in Conds
        /\ \A c \in Conds : owner[c] # NIL => owner[c] \in Threads
    BY ThreadsAssumption DEF TypeOK
  <2>1. CASE BeginWait(t)
    <3>1. owner[on[t]] = NIL /\ pc[t] \notin Held /\ UNCHANGED on
      BY <2>1 DEF BeginWait, Held
    <3>2. owner'[on[t]] = t /\ \A c \in Conds \ {on[t]} : owner'[c] = owner[c]
      BY <2>0, <2>1 DEF BeginWait, TypeOK
    <3>3. pc'[t] \in Held /\ \A u \in Threads \ {t} : pc'[u] = pc[u]
      BY <2>1 DEF BeginWait, TypeOK, Held
    <3>4. ASSUME NEW u \in Threads, pc'[u] \in Held PROVE owner'[on'[u]] = u
      <4>1. u # NIL /\ on[u] \in Conds
        BY ThreadsAssumption DEF TypeOK
      <4> QED
        BY <3>1, <3>2, <3>3, <3>4, <4>1 DEF WaiterHoldsItsLock
    <3>5. ASSUME NEW c \in Conds, owner'[c] # NIL
          PROVE  on'[owner'[c]] = c /\ pc'[owner'[c]] \in Held
      <4>1. CASE c = on[t]
        BY <3>1, <3>2, <3>3, <4>1
      <4>2. CASE c # on[t]
        <5>1. owner'[c] = owner[c] /\ owner[c] \in Threads /\ owner[c] # t
          BY <2>0, <3>1, <3>2, <3>5, <4>2 DEF WaiterHoldsItsLock
        <5> QED
          BY <3>1, <3>3, <3>5, <5>1 DEF WaiterHoldsItsLock
      <4> QED
        BY <4>1, <4>2
    <3> QED
      BY <3>4, <3>5 DEF WaiterHoldsItsLock
  <2>2. CASE Unlock(t)
    BY <2>0, <2>2 DEF Unlock, WaiterHoldsItsLock, TypeOK, Held
  <2>3. CASE PassGate(t)
    <3>1. UNCHANGED << pc, owner >> /\ owner[on[t]] = NIL /\ pc[t] \notin Held
      BY <2>3 DEF PassGate, Held
    <3>2. \A u \in Threads \ {t} : on'[u] = on[u]
      BY <2>3 DEF PassGate, TypeOK
    <3>3. \A c \in Conds : owner[c] # t
      BY <2>0, <3>1 DEF WaiterHoldsItsLock
    <3> QED
      BY <2>0, <3>1, <3>2, <3>3 DEF WaiterHoldsItsLock
  <2>4. CASE \/ TakeMessage(t) \/ ResetEvent(t) \/ Register(t) \/ Wait(t)
             \/ Unregister(t) \/ RunJob(t) \/ ObeyExit(t) \/ Die(t)
    <3>1. UNCHANGED << on, owner >>
      BY <2>4 DEF TakeMessage, ResetEvent, Register, Wait, Unregister, RunJob,
                  ObeyExit, Die, Leave, waitVars
    <3>2. \A u \in Threads : pc'[u] \in Held <=> pc[u] \in Held
      BY <2>4 DEF TakeMessage, ResetEvent, Register, Wait, Unregister, RunJob,
                  ObeyExit, Die, Leave, TypeOK, Held
    <3> QED
      BY <2>0, <3>1, <3>2 DEF WaiterHoldsItsLock
  <2> QED
    BY <1>2, <2>1, <2>2, <2>3, <2>4 DEF Worker
<1>3. ASSUME NEW p, NEW f \in Flushes, CacheFlush(p, f) PROVE WaiterHoldsItsLock'
  BY <1>1, <1>3, CacheFlushPosts, PostingKeeps DEF CacheFlush
<1>4. ASSUME NEW p, NEW t \in Solo, CreateThread(p, t) PROVE WaiterHoldsItsLock'
  <2>1. \A u \in Threads : pc'[u] \in Held <=> pc[u] \in Held
    BY <1>4 DEF CreateThread, TypeOK, Held
  <2>2. \A c \in Conds : owner[c] # NIL => owner[c] \in Threads
    BY DEF TypeOK
  <2> QED
    BY <1>4, <2>1, <2>2 DEF CreateThread, waitVars, WaiterHoldsItsLock
<1>5. CASE PostExit
  BY <1>1, <1>5, PostExitPosts, PostingKeeps DEF PostExit
<1>6. CASE InitComplete
  BY <1>1, <1>6, BroadcastKeeps DEF InitComplete, Conds
<1>7. CASE Gather \/ BeginJoin \/ TearDown
  BY <1>1, <1>7 DEF Gather, BeginJoin, TearDown, waitVars, PcKept
<1> QED
  BY <1>2, <1>3, <1>4, <1>5, <1>6, <1>7 DEF Next, MainStep

-----------------------------------------------------------------------------
(* The counts of the condition variables.                                  *)

LEMMA WaitersFinite == \A c \in Conds : IsFiniteSet(Waiters(c))
<1>1. \A c \in Conds : Waiters(c) \subseteq Threads
  BY DEF Waiters
<1> QED
  BY <1>1, ThreadsFinite, FS_Subset

LEMMA NextKeepsCounts ==
  ASSUME Inv, Next
  PROVE  CountIsWaiters'
<1> USE DEF Inv
<1>0. "woken" \in Waiting /\ "blocked" \in Waiting /\ "unlock" \in Waiting
      /\ {"enter", "run", "exited", "reset", "register", "unborn"} \cap Waiting = {}
  BY DEF Waiting
<1>1. ASSUME \A u \in Threads : (pc'[u] \in Waiting <=> pc[u] \in Waiting)
                               /\ (pc[u] \in Waiting => on'[u] = on[u]),
             UNCHANGED count
      PROVE  CountIsWaiters'
  <2>1. \A c \in Conds : Waiters(c)' = Waiters(c)
    BY <1>1 DEF Waiters
  <2> QED
    BY <1>1, <2>1 DEF CountIsWaiters
<1>2. ASSUME PcKept, UNCHANGED << on, count >> PROVE CountIsWaiters'
  <2>1. \A u \in Threads : pc'[u] \in Waiting <=> pc[u] \in Waiting
    BY <1>0, <1>2 DEF PcKept
  <2> QED
    BY <1>1, <1>2, <2>1
<1>3. ASSUME NEW t \in Threads, Worker(t) PROVE CountIsWaiters'
  <2>0. on[t] \in Conds
    BY DEF TypeOK
  <2> PICK c \in Conds : c = on[t]
    BY <2>0
  <2>1. CASE Register(t)
    <3>1. t \notin Waiters(c)
      BY <1>0, <2>1 DEF Register, Waiters
    <3>2. Waiters(c)' = Waiters(c) \cup {t}
      BY <1>0, <2>1 DEF Register, Waiters, TypeOK
    <3>3. \A d \in Conds \ {c} : Waiters(d)' = Waiters(d)
      BY <1>0, <2>1 DEF Register, Waiters, TypeOK
    <3>4. Cardinality(Waiters(c)') = Cardinality(Waiters(c)) + 1
      BY <3>1, <3>2, WaitersFinite, FS_AddElement
    <3>5. count'[c] = count[c] + 1 /\ \A d \in Conds \ {c} : count'[d] = count[d]
      BY <2>1 DEF Register, TypeOK
    <3> QED
      BY <3>3, <3>4, <3>5 DEF CountIsWaiters
  <2>2. CASE Unregister(t)
    <3>1. t \in Waiters(c)
      BY <1>0, <2>2 DEF Unregister, Waiters, Waiting
    <3>2. Waiters(c)' = Waiters(c) \ {t}
      BY <1>0, <2>2 DEF Unregister, Waiters, TypeOK
    <3>3. \A d \in Conds \ {c} : Waiters(d)' = Waiters(d)
      BY <1>0, <2>2 DEF Unregister, Waiters, TypeOK
    <3>4. Cardinality(Waiters(c)') = Cardinality(Waiters(c)) - 1
      BY <3>1, <3>2, WaitersFinite, FS_RemoveElement
    <3>5. Cardinality(Waiters(c)) # 0
      BY <3>1, WaitersFinite, FS_EmptySet
    <3>6. count[c] # 0
      BY <3>5 DEF CountIsWaiters
    <3>7. count'[c] = count[c] - 1 /\ \A d \in Conds \ {c} : count'[d] = count[d]
      BY <2>2, <3>6 DEF Unregister, TypeOK
    <3> QED
      BY <3>3, <3>4, <3>7 DEF CountIsWaiters
  <2>3. CASE \/ PassGate(t) \/ TakeMessage(t) \/ BeginWait(t) \/ ResetEvent(t)
             \/ RunJob(t) \/ ObeyExit(t) \/ Die(t)
    <3>1. pc[t] \notin Waiting /\ pc'[t] \notin Waiting
      BY <1>0, <2>3 DEF PassGate, TakeMessage, BeginWait, ResetEvent, RunJob, ObeyExit,
                        Die, Leave, TypeOK
    <3>2. \A u \in Threads \ {t} : pc'[u] = pc[u] /\ on'[u] = on[u]
      BY <2>3 DEF PassGate, TakeMessage, BeginWait, ResetEvent, RunJob, ObeyExit,
                  Die, Leave, TypeOK, waitVars
    <3>3. UNCHANGED count
      BY <2>3 DEF PassGate, TakeMessage, BeginWait, ResetEvent, RunJob, ObeyExit,
                  Die, Leave, waitVars
    <3> QED
      BY <1>1, <3>1, <3>2, <3>3
  <2>4. CASE Unlock(t) \/ Wait(t)
    <3>1. pc[t] \in Waiting /\ pc'[t] \in Waiting
      BY <2>4 DEF Unlock, Wait, TypeOK, Waiting
    <3>2. \A u \in Threads \ {t} : pc'[u] = pc[u]
      BY <2>4 DEF Unlock, Wait, TypeOK
    <3>3. UNCHANGED << on, count >>
      BY <2>4 DEF Unlock, Wait, waitVars
    <3> QED
      BY <1>1, <3>1, <3>2, <3>3
  <2> QED
    BY <1>3, <2>1, <2>2, <2>3, <2>4 DEF Worker
<1>4. ASSUME NEW p, NEW f \in Flushes, CacheFlush(p, f) PROVE CountIsWaiters'
  BY <1>2, <1>4, CacheFlushPosts, PostingKeeps DEF CacheFlush
<1>5. ASSUME NEW p, NEW t \in Solo, CreateThread(p, t) PROVE CountIsWaiters'
  <2>1. \A u \in Threads : pc'[u] \in Waiting <=> pc[u] \in Waiting
    BY <1>0, <1>5 DEF CreateThread, TypeOK
  <2> QED
    BY <1>1, <1>5, <2>1 DEF CreateThread, waitVars
<1>6. CASE PostExit
  BY <1>2, <1>6, PostExitPosts, PostingKeeps DEF PostExit
<1>7. CASE InitComplete
  BY <1>2, <1>7, BroadcastKeeps DEF InitComplete, Conds
<1>8. CASE Gather \/ BeginJoin \/ TearDown
  BY <1>2, <1>8 DEF Gather, BeginJoin, TearDown, waitVars, PcKept
<1> QED
  BY <1>3, <1>4, <1>5, <1>6, <1>7, <1>8 DEF Next, MainStep

-----------------------------------------------------------------------------
(* The contents of thd_list.                                               *)

LEMMA NextKeepsThdList ==
  ASSUME Inv, Next
  PROVE  ThdListIsAlive'
<1> USE DEF Inv
<1>0. Main \notin Threads /\ mpc # "down"
  BY ThreadsAssumption DEF Next, Running
<1>1. ASSUME \A u \in Threads : Alive(u)' <=> Alive(u), UNCHANGED thdList
      PROVE  ThdListIsAlive'
  BY <1>0, <1>1 DEF ThdListIsAlive
<1>2. ASSUME PcKept, UNCHANGED thdList PROVE ThdListIsAlive'
  BY <1>1, <1>2 DEF PcKept, Alive
<1>3. ASSUME NEW t \in Threads, Leave(t) PROVE ThdListIsAlive'
  <2>1. thdList' = DeleteData(thdList, t) /\ Distinct(thdList)
    BY <1>0, <1>3 DEF Leave, ThdListIsAlive
  <2>2. \A y : Listed(thdList', y) <=> Listed(thdList, y) /\ y # t
    BY <2>1, DeleteDataListed DEF ListsInv
  <2>3. Distinct(thdList')
    BY <2>1, DeleteDataDistinct DEF ListsInv
  <2>4. \A u \in Threads : Alive(u)' <=> Alive(u) /\ u # t
    BY <1>3 DEF Leave, Alive, TypeOK
  <2> QED
    BY <1>0, <2>2, <2>3, <2>4 DEF ThdListIsAlive
<1>4. ASSUME NEW t \in Threads, Worker(t), ~ Leave(t) PROVE ThdListIsAlive'
  <2>1. \A u \in Threads : Alive(u)' <=> Alive(u)
    BY <1>4 DEF Worker, PassGate, TakeMessage, BeginWait, ResetEvent, Register, Unlock,
                Wait, Unregister, RunJob, ObeyExit, Die, Alive, TypeOK
  <2>2. UNCHANGED thdList
    BY <1>4 DEF Worker, PassGate, TakeMessage, BeginWait, ResetEvent, Register, Unlock,
                Wait, Unregister, RunJob, ObeyExit, Die
  <2> QED
    BY <1>1, <2>1, <2>2
<1>5. ASSUME NEW p, NEW f \in Flushes, CacheFlush(p, f) PROVE ThdListIsAlive'
  BY <1>2, <1>5, CacheFlushPosts, PostingKeeps DEF CacheFlush
<1>6. ASSUME NEW p, NEW t \in Solo, CreateThread(p, t) PROVE ThdListIsAlive'
  <2>1. t \in Threads /\ ~ Listed(thdList, t) /\ Distinct(thdList)
    BY <1>0, <1>6 DEF CreateThread, ThdListIsAlive, Alive, Threads
  <2>2. \A y : Listed(thdList', y) <=> Listed(thdList, y) \/ y = t
    BY <1>6, <2>1, AddDataListed DEF CreateThread, ListsInv
  <2>3. Distinct(thdList')
    BY <1>6, <2>1, AddDataDistinct DEF CreateThread, ListsInv
  <2>4. \A u \in Threads : Alive(u)' <=> Alive(u) \/ u = t
    BY <1>6, <2>1 DEF CreateThread, Alive, TypeOK
  <2> QED
    BY <1>0, <2>1, <2>2, <2>3, <2>4 DEF ThdListIsAlive
<1>7. CASE PostExit
  BY <1>2, <1>7, PostExitPosts, PostingKeeps DEF PostExit
<1>8. CASE InitComplete
  BY <1>2, <1>8, BroadcastKeeps DEF InitComplete, Conds
<1>9. CASE Gather \/ BeginJoin
  BY <1>2, <1>9 DEF Gather, BeginJoin, PcKept
<1>10. CASE TearDown
  BY <1>10 DEF TearDown, ThdListIsAlive
<1> QED
  BY <1>3, <1>4, <1>5, <1>6, <1>7, <1>8, <1>9, <1>10 DEF Next, MainStep

-----------------------------------------------------------------------------
(* The usage counts of the queues.                                         *)

LEMMA UsersFinite == \A q \in Queues : IsFiniteSet(Users(q))
<1>1. \A q \in Queues : Users(q) \subseteq Threads
  BY DEF Users
<1> QED
  BY <1>1, ThreadsFinite, FS_Subset

LEMMA NextKeepsUsage ==
  ASSUME Inv, Next
  PROVE  UsageIsUsers'
<1> USE DEF Inv
<1>1. ASSUME \A u \in Threads : Alive(u)' <=> Alive(u), UNCHANGED usage
      PROVE  UsageIsUsers'
  <2>1. \A q \in Queues : Users(q)' = Users(q)
    BY <1>1 DEF Users
  <2> QED
    BY <1>1, <2>1 DEF UsageIsUsers
<1>2. ASSUME PcKept, UNCHANGED usage PROVE UsageIsUsers'
  BY <1>1, <1>2 DEF PcKept, Alive
<1>3. ASSUME NEW t \in Threads, Alive(t), Leave(t) PROVE UsageIsUsers'
  <2> PICK q \in Queues : q = QueueOf(t)
    BY QueueOfType
  <2>1. \A u \in Threads : Alive(u)' <=> Alive(u) /\ u # t
    BY <1>3 DEF Leave, Alive, TypeOK
  <2>2. t \in Users(q) /\ Users(q)' = Users(q) \ {t}
    BY <1>3, <2>1 DEF Users
  <2>3. \A d \in Queues \ {q} : Users(d)' = Users(d)
    BY <2>1 DEF Users
  <2>4. Cardinality(Users(q)') = Cardinality(Users(q)) - 1
    BY <2>2, UsersFinite, FS_RemoveElement
  <2>5. usage'[q] = usage[q] - 1 /\ \A d \in Queues \ {q} : usage'[d] = usage[d]
    BY <1>3 DEF Leave, TypeOK
  <2> QED
    BY <2>3, <2>4, <2>5 DEF UsageIsUsers
<1>4. ASSUME NEW t \in Threads, Worker(t) PROVE UsageIsUsers'
  <2>1. CASE ObeyExit(t) \/ Die(t)
    BY <1>3, <2>1 DEF ObeyExit, Die, Alive
  <2>2. CASE \/ PassGate(t) \/ TakeMessage(t) \/ BeginWait(t) \/ ResetEvent(t)
             \/ Register(t) \/ Unlock(t) \/ Wait(t) \/ Unregister(t) \/ RunJob(t)
    <3>1. \A u \in Threads : Alive(u)' <=> Alive(u)
      BY <2>2 DEF PassGate, TakeMessage, BeginWait, ResetEvent, Register, Unlock,
                  Wait, Unregister, RunJob, Alive, TypeOK
    <3>2. UNCHANGED usage
      BY <2>2 DEF PassGate, TakeMessage, BeginWait, ResetEvent, Register, Unlock,
                  Wait, Unregister, RunJob, queueVars
    <3> QED
      BY <1>1, <3>1, <3>2
  <2> QED
    BY <1>4, <2>1, <2>2 DEF Worker
<1>5. ASSUME NEW p, NEW f \in Flushes, CacheFlush(p, f) PROVE UsageIsUsers'
  BY <1>2, <1>5, CacheFlushPosts, PostingKeeps DEF CacheFlush
<1>6. ASSUME NEW p, NEW t \in Solo, CreateThread(p, t) PROVE UsageIsUsers'
  <2>1. t \in Threads /\ t \in Queues /\ QueueOf(t) = t
    BY ThreadsAssumption DEF Threads, Queues, QueueOf
  <2>2. \A u \in Threads : QueueOf(u) = t => u = t
    BY ThreadsAssumption DEF Threads, QueueOf
  <2>3. \A u \in Threads : Alive(u)' <=> Alive(u) \/ u = t
    BY <1>6, <2>1 DEF CreateThread, Alive, TypeOK
  <2>4. Users(t)' = {t} /\ \A d \in Queues \ {t} : Users(d)' = Users(d)
    BY <2>1, <2>2, <2>3 DEF Users
  <2>5. Cardinality(Users(t)') = 1
    BY <2>4, FS_Singleton
  <2>6. usage'[t] = 1 /\ \A d \in Queues \ {t} : usage'[d] = usage[d]
    BY <1>6, <2>1 DEF CreateThread, TypeOK
  <2> QED
    BY <2>4, <2>5, <2>6 DEF UsageIsUsers
<1>7. CASE PostExit
  BY <1>2, <1>7, PostExitPosts, PostingKeeps DEF PostExit
<1>8. CASE InitComplete
  BY <1>2, <1>8, BroadcastKeeps DEF InitComplete, Conds, queueVars
<1>9. CASE Gather \/ BeginJoin \/ TearDown
  BY <1>2, <1>9 DEF Gather, BeginJoin, TearDown, PcKept, queueVars
<1> QED
  BY <1>4, <1>5, <1>6, <1>7, <1>8, <1>9 DEF Next, MainStep

-----------------------------------------------------------------------------
(* The initial state, and the theorems.                                    *)

LEMMA InitThdList ==
  LET l == AddData(AddData(AddData(EmptyList, Main), Helper), CacheThd)
      S == Threads \cup {Main}
  IN  /\ WellFormed(l, S)
      /\ Distinct(l)
      /\ \A y : Listed(l, y) <=> y \in {Main, Helper, CacheThd}
<1> DEFINE S  == Threads \cup {Main}
           l1 == AddData(EmptyList, Main)
           l2 == AddData(l1, Helper)
           l3 == AddData(l2, CacheThd)
<1>0. /\ {Main, Helper, CacheThd} \subseteq S
      /\ Main # Helper /\ Main # CacheThd /\ Helper # CacheThd
  BY ThreadsAssumption DEF Threads, Crew
<1>1. WellFormed(EmptyList, S) /\ Distinct(EmptyList) /\ \A y : ~ Listed(EmptyList, y)
  BY DEF WellFormed, EmptyList, Distinct, Listed, Contains
<1>2. WellFormed(l1, S) /\ Distinct(l1) /\ \A y : Listed(l1, y) <=> y = Main
  BY <1>0, <1>1, AddDataWellFormed, AddDataDistinct, AddDataListed
<1>3. WellFormed(l2, S) /\ Distinct(l2) /\ \A y : Listed(l2, y) <=> y \in {Main, Helper}
  <2> HIDE DEF S, l1
  <2> QED
    BY <1>0, <1>2, AddDataWellFormed, AddDataDistinct, AddDataListed
<1>4. WellFormed(l3, S) /\ Distinct(l3)
      /\ \A y : Listed(l3, y) <=> y \in {Main, Helper, CacheThd}
  <2> HIDE DEF S, l2
  <2> QED
    BY <1>0, <1>3, AddDataWellFormed, AddDataDistinct, AddDataListed
<1> QED
  BY <1>4

LEMMA InitInv ==
  ASSUME Init
  PROVE  Inv
<1> DEFINE S == Threads \cup {Main}
<1>0. WellFormed(EmptyList, Message) /\ EmptyList \in ListOf(Message)
  BY DEF WellFormed, EmptyList, ListOf
<1>1. /\ WellFormed(thdList, S) /\ Distinct(thdList)
      /\ \A y : Listed(thdList, y) <=> y \in {Main, Helper, CacheThd}
  BY InitThdList DEF Init
<1>2. Cardinality(Threads) \in Nat /\ Cardinality(Threads) # 0
  <2>1. Threads # {}
    BY DEF Threads, Crew
  <2> QED
    BY <2>1, ThreadsFinite, FS_CardinalityType, FS_EmptySet
<1>3. 0 \in Slots
  BY <1>2 DEF Slots
<1>4. TypeOK
  <2>1. thdList \in ListOf(S)
    BY <1>1 DEF WellFormed, ListOf
  <2>2. slot \in [Threads -> Slots] /\ map \in [Conds -> [Slots -> BOOLEAN]]
    BY <1>3 DEF Init
  <2>3. pc \in [Threads -> PCs] /\ on \in [Threads -> Conds]
    BY DEF Init, PCs, Conds
  <2>4. queue \in [Queues -> ListOf(Message)] /\ usage \in [Queues -> Int]
    BY <1>0 DEF Init, CrewUsers
  <2>5. owner \in [Conds -> Threads \cup {NIL}] /\ count \in [Conds -> Nat]
    BY DEF Init
  <2>6. hand \in [Threads -> Message \cup {NIL}] /\ done \in [Message -> Nat]
    BY DEF Init
  <2>7. /\ inited \in BOOLEAN /\ signalled \in BOOLEAN /\ mpc = "running"
        /\ toStop = << >> /\ posted = {} /\ lost = {}
    BY DEF Init
  <2>8. toStop \in Seq(Threads) /\ posted \subseteq Message /\ lost \subseteq Message
    BY <2>7
  <2> QED
    BY <2>1, <2>2, <2>3, <2>4, <2>5, <2>6, <2>7, <2>8 DEF TypeOK
<1>5. ListsInv
  BY <1>0, <1>1 DEF Init, ListsInv
<1>6. GateInv
  BY DEF Init, GateInv
<1>7. WaiterHoldsItsLock
  BY DEF Init, WaiterHoldsItsLock, Held
<1>8. CountIsWaiters
  <2>1. \A c \in Conds : Waiters(c) = {}
    BY DEF Init, Waiters, Waiting
  <2> QED
    BY <2>1, FS_EmptySet DEF Init, CountIsWaiters
<1>9. UsageIsUsers
  <2>1. \A t \in Threads : Alive(t) <=> t \in Crew
    BY DEF Init, Alive
  <2>2. Users(CrewQ) = {Helper} \cup {CacheThd}
    BY <2>1 DEF Users, QueueOf, Threads, Crew
  <2>3. Cardinality(Users(CrewQ)) = 2
    <3>1. IsFiniteSet({Helper}) /\ Cardinality({Helper}) = 1
      BY FS_Singleton
    <3>2. CacheThd \notin {Helper}
      BY ThreadsAssumption
    <3>3. Cardinality({Helper} \cup {CacheThd}) = Cardinality({Helper}) + 1
      BY <3>1, <3>2, FS_AddElement
    <3> QED
      BY <2>2, <3>1, <3>3
  <2>4. \A q \in Queues \ {CrewQ} : Users(q) = {}
    BY <2>1 DEF Users, QueueOf
  <2> QED
    BY <2>3, <2>4, FS_EmptySet DEF Init, UsageIsUsers, CrewUsers
<1>10. ThdListIsAlive
  <2>1. \A t \in Threads : Alive(t) <=> t \in {Helper, CacheThd}
    BY DEF Init, Alive, Crew
  <2> QED
    BY <1>1, <2>1, ThreadsAssumption DEF ThdListIsAlive
<1> QED
  BY <1>4, <1>5, <1>6, <1>7, <1>8, <1>9, <1>10 DEF Inv

LEMMA NextKeepsTypes ==
  ASSUME Inv, Next
  PROVE  TypeOK'
<1>1. Running
  BY DEF Next
<1>2. ASSUME NEW t \in Threads, Worker(t) PROVE TypeOK'
  BY <1>2, WorkerKeepsTypes
<1>3. ASSUME NEW p \in Threads \cup {Main},
             \/ \E f \in Flushes : CacheFlush(p, f)
             \/ \E t \in Solo : CreateThread(p, t)
      PROVE  TypeOK'
  BY <1>3, RequestsKeepTypes
<1>4. CASE MainStep
  BY <1>1, <1>4, MainKeepsTypes
<1> QED
  BY <1>2, <1>3, <1>4 DEF Next

LEMMA StutterKeepsInv ==
  ASSUME Inv, UNCHANGED vars
  PROVE  Inv'
<1> USE DEF Inv, vars, waitVars, queueVars, mainVars
<1>1. TypeOK'
  BY DEF TypeOK
<1>2. ListsInv' /\ GateInv' /\ WaiterHoldsItsLock'
  BY DEF ListsInv, GateInv, WaiterHoldsItsLock
<1>3. CountIsWaiters' /\ UsageIsUsers' /\ ThdListIsAlive'
  BY DEF CountIsWaiters, Waiters, UsageIsUsers, Users, ThdListIsAlive, Alive
<1> QED
  BY <1>1, <1>2, <1>3

\* The inductive invariant holds in every reachable state.
THEOREM InvHolds == Spec => []Inv
<1>1. Init => Inv
  BY InitInv
<1>2. Inv /\ [Next]_vars => Inv'
  <2>1. ASSUME Inv, Next PROVE Inv'
    BY <2>1, NextKeepsTypes, NextKeepsLists, NextKeepsGate, NextKeepsLocks,
       NextKeepsCounts, NextKeepsUsage, NextKeepsThdList DEF Inv
  <2> QED
    BY <2>1, StutterKeepsInv
<1> QED
  BY <1>1, <1>2, PTL DEF Spec

\* Every variable keeps its type; the slot a waiter registers in is one of
\* those its condition variable has.
THEOREM TypesHold == Spec => []TypeOK
<1>1. Inv => TypeOK
  BY DEF Inv
<1> QED
  BY <1>1, InvHolds, PTL

\* From the test that makes it wait to its registration a waiter has the lock
\* that queue_add needs, so that no message is missed in between.
THEOREM LocksAreHeld == Spec => []WaiterHoldsItsLock
<1>1. Inv => WaiterHoldsItsLock
  BY DEF Inv
<1> QED
  BY <1>1, InvHolds, PTL

\* cond->count counts the registered waiters.
THEOREM CountsAreRight == Spec => []CountIsWaiters
<1>1. Inv => CountIsWaiters
  BY DEF Inv
<1> QED
  BY <1>1, InvHolds, PTL

\* A queue is destroyed by its last user and by nobody else.
THEOREM UsageIsRight == Spec => []UsageIsUsers
<1>1. Inv => UsageIsUsers
  BY DEF Inv
<1> QED
  BY <1>1, InvHolds, PTL

\* thd_list has main and every worker that is running, each once.
THEOREM ThdListIsRight == Spec => []ThdListIsAlive
<1>1. Inv => ThdListIsAlive
  BY DEF Inv
<1> QED
  BY <1>1, InvHolds, PTL

\* No message is handled before _os_init_complete.
THEOREM GateHolds == Spec => []NoWorkBeforeInit
<1>1. Inv => NoWorkBeforeInit
  BY DEF Inv, GateInv, NoWorkBeforeInit
<1> QED
  BY <1>1, InvHolds, PTL

-----------------------------------------------------------------------------
(* Where each message is.                                                  *)

OnQueues(m) == {q \in Queues : Listed(queue[q], m)}
InHands(m)  == {t \in Threads : hand[t] = m}

Nowhere(m) == OnQueues(m) = {} /\ InHands(m) = {} /\ done[m] = 0 /\ m \notin lost

AtOnePlace(m) ==
  /\ m \in posted
  /\ \/ OnQueues(m) = {} /\ InHands(m) = {} /\ done[m] = 0 /\ m \in lost
     \/ OnQueues(m) = {} /\ InHands(m) = {} /\ done[m] = 1 /\ m \notin lost
     \/ InHands(m) = {} /\ done[m] = 0 /\ m \notin lost /\ \E q \in Queues : OnQueues(m) = {q}
     \/ OnQueues(m) = {} /\ done[m] = 0 /\ m \notin lost /\ \E t \in Threads : InHands(m) = {t}

Placed(m) == AtOnePlace(m) \/ (m \notin posted /\ Nowhere(m))

\* Every message is at one place, no queue has one twice, and those that
\* CreateThread and PostExit are still to post have not been posted.
MessagesInv ==
  /\ \A t \in Threads : pc[t] = "run" <=> hand[t] # NIL
  /\ \A q \in Queues : Distinct(queue[q])
  /\ \A m \in Message : Placed(m)
  /\ \A t \in Solo : pc[t] = "unborn" => Exec(t) \notin posted
  /\ mpc = "running" => \A m \in posted : m.kind # "TM_EXIT"
  /\ mpc = "posting" =>
       /\ \A i, j \in 1 .. Len(toStop) : toStop[i] = toStop[j] => i = j
       /\ \A i \in 1 .. Len(toStop) : Exit(toStop[i]) \notin posted
  /\ mpc = "joining" => toStop = << >>

\* A step that does nothing to message m.
Untouched(m) ==
  /\ \A q \in Queues : Listed(queue[q], m)' <=> Listed(queue[q], m)
  /\ \A t \in Threads : (hand[t] = m)' <=> hand[t] = m
  /\ done'[m] = done[m]
  /\ m \in lost' <=> m \in lost
  /\ m \in posted' <=> m \in posted

LEMMA UntouchedStays ==
  ASSUME NEW m, Placed(m), Untouched(m)
  PROVE  Placed(m)'
<1>1. OnQueues(m)' = OnQueues(m) /\ InHands(m)' = InHands(m)
  BY DEF Untouched, OnQueues, InHands
<1> QED
  BY <1>1 DEF Untouched, Placed, AtOnePlace, Nowhere

LEMMA NilIsNoMessage == NIL \notin Message
  BY ThreadsAssumption

\* What a message not yet posted looks like.
LEMMA UnpostedIsNowhere ==
  ASSUME NEW m, Placed(m), m \notin posted
  PROVE  /\ \A q \in Queues : ~ Listed(queue[q], m)
         /\ \A t \in Threads : hand[t] # m
         /\ done[m] = 0 /\ m \notin lost
  BY DEF Placed, AtOnePlace, Nowhere, OnQueues, InHands

\* Adding a message not posted before to a queue puts it there and nowhere else.
LEMMA AddedIsPlaced ==
  ASSUME Inv, MessagesInv, NEW q \in Queues, NEW msg \in Message, msg \notin posted,
         queue' = [queue EXCEPT ![q] = AddData(@, msg)], posted' = posted \cup {msg},
         UNCHANGED << hand, done, lost >>
  PROVE  /\ \A d \in Queues : Distinct(queue'[d])
         /\ \A m \in Message : Placed(m)'
         /\ \A d \in Queues, m \in Message :
              Listed(queue'[d], m) <=> Listed(queue[d], m) \/ (d = q /\ m = msg)
<1>1. WellFormed(queue[q], Message) /\ Distinct(queue[q]) /\ Placed(msg)
  BY DEF Inv, ListsInv, MessagesInv
<1>2. /\ \A d \in Queues : ~ Listed(queue[d], msg)
      /\ \A t \in Threads : hand[t] # msg
      /\ done[msg] = 0 /\ msg \notin lost
  BY <1>1, UnpostedIsNowhere
<1>3. queue'[q] = AddData(queue[q], msg) /\ \A d \in Queues \ {q} : queue'[d] = queue[d]
  BY DEF Inv, TypeOK
<1>4. \A m : Listed(queue'[q], m) <=> Listed(queue[q], m) \/ m = msg
  BY <1>1, <1>3, AddDataListed
<1>5. Distinct(queue'[q])
  BY <1>1, <1>2, <1>3, AddDataDistinct
<1>6. \A d \in Queues : Distinct(queue'[d])
  BY <1>3, <1>5 DEF MessagesInv
<1>7. \A d \in Queues, m \in Message :
        Listed(queue'[d], m) <=> Listed(queue[d], m) \/ (d = q /\ m = msg)
  BY <1>3, <1>4
<1>8. ASSUME NEW m \in Message, m # msg PROVE Placed(m)'
  <2>1. Untouched(m)
    BY <1>7, <1>8 DEF Untouched
  <2> QED
    BY <2>1, UntouchedStays DEF MessagesInv
<1>9. Placed(msg)'
  <2>1. OnQueues(msg)' = {q}
    BY <1>2, <1>7 DEF OnQueues
  <2>2. InHands(msg)' = {}
    BY <1>2 DEF InHands
  <2>3. done'[msg] = 0 /\ msg \notin lost' /\ msg \in posted'
    BY <1>2
  <2> QED
    BY <2>1, <2>2, <2>3 DEF Placed, AtOnePlace
<1> QED
  BY <1>6, <1>7, <1>8, <1>9

\* A post, wherever it ends up.
LEMMA PostedIsPlaced ==
  ASSUME Inv, MessagesInv, NEW t \in Threads, NEW msg \in Message, msg \notin posted,
         Posting(t, msg), UNCHANGED << hand, done >>
  PROVE  /\ \A d \in Queues : Distinct(queue'[d])
         /\ \A m \in Message : Placed(m)'
         /\ posted' \subseteq posted \cup {msg}
<1>1. CASE QueueAdd(QueueOf(t), msg) /\ UNCHANGED << mpc, lost >>
  <2>1. QueueOf(t) \in Queues
    BY QueueOfType
  <2>2. queue' = [queue EXCEPT ![QueueOf(t)] = AddData(@, msg)] /\ posted' = posted \cup {msg}
    BY <1>1 DEF QueueAdd
  <2>3. (\A d \in Queues : Distinct(queue'[d])) /\ \A m \in Message : Placed(m)'
    BY <1>1, <2>1, <2>2, AddedIsPlaced
  <2> QED
    BY <2>2, <2>3
<1>2. CASE UNCHANGED << queue, posted, lost >>
  <2>1. \A m \in Message : Untouched(m)
    BY <1>2 DEF Untouched
  <2> QED
    BY <1>2, <2>1, UntouchedStays DEF MessagesInv
<1>3. CASE UNCHANGED queue /\ posted' = posted \cup {msg} /\ lost' = lost \cup {msg}
  <2>1. \A m \in Message \ {msg} : Untouched(m)
    BY <1>3 DEF Untouched
  <2>2. Placed(msg)'
    <3>1. /\ \A d \in Queues : ~ Listed(queue[d], msg)
          /\ \A u \in Threads : hand[u] # msg
          /\ done[msg] = 0
      BY UnpostedIsNowhere DEF MessagesInv
    <3>2. OnQueues(msg)' = {} /\ InHands(msg)' = {} /\ done'[msg] = 0
      BY <1>3, <3>1 DEF OnQueues, InHands
    <3>3. msg \in lost' /\ msg \in posted'
      BY <1>3
    <3> QED
      BY <3>2, <3>3 DEF Placed, AtOnePlace
  <2> QED
    BY <1>3, <2>1, <2>2, UntouchedStays DEF MessagesInv
<1> QED
  BY <1>1, <1>2, <1>3 DEF Posting, PostToFreed

\* A worker that takes a message moves it from its queue to its hands.
LEMMA TakenIsPlaced ==
  ASSUME Inv, MessagesInv, NEW t \in Threads, TakeMessage(t)
  PROVE  /\ \A d \in Queues : Distinct(queue'[d])
         /\ \A m \in Message : Placed(m)'
         /\ \E msg \in Message :
              /\ Listed(queue[on[t]], msg) /\ on[t] \in Queues /\ hand' = [hand EXCEPT ![t] = msg]
              /\ \A d \in Queues, m \in Message :
                   Listed(queue'[d], m) <=> Listed(queue[d], m) /\ ~ (d = on[t] /\ m = msg)
<1>1. PICK q \in Queues : q = on[t]
  BY DEF TakeMessage, Inv, TypeOK, Conds
<1>2. WellFormed(queue[q], Message) /\ Distinct(queue[q]) /\ HasNext(queue[q], QUEUE)
  BY <1>1 DEF TakeMessage, Inv, ListsInv, MessagesInv
<1>3. PICK msg \in Message : msg = NextData(queue[q], QUEUE) /\ Listed(queue[q], msg)
  BY <1>2, NextDataListed
<1>4. hand' = [hand EXCEPT ![t] = msg] /\ queue' = [queue EXCEPT ![q] = DeleteData(@, msg)]
      /\ UNCHANGED << done, lost, posted >>
  BY <1>1, <1>3 DEF TakeMessage
<1>5. queue'[q] = DeleteData(queue[q], msg) /\ \A d \in Queues \ {q} : queue'[d] = queue[d]
  BY <1>4 DEF Inv, TypeOK
<1>6. \A m : Listed(queue'[q], m) <=> Listed(queue[q], m) /\ m # msg
  BY <1>2, <1>5, DeleteDataListed
<1>7. \A d \in Queues : Distinct(queue'[d])
  BY <1>2, <1>5, DeleteDataDistinct DEF MessagesInv
<1>8. \A d \in Queues, m \in Message :
        Listed(queue'[d], m) <=> Listed(queue[d], m) /\ ~ (d = q /\ m = msg)
  BY <1>5, <1>6
<1>9. hand[t] = NIL /\ hand'[t] = msg /\ \A u \in Threads \ {t} : hand'[u] = hand[u]
  BY <1>4 DEF TakeMessage, MessagesInv, Inv, TypeOK
<1>10. ASSUME NEW m \in Message, m # msg PROVE Placed(m)'
  <2>1. \A u \in Threads : hand'[u] = m <=> hand[u] = m
    BY <1>9, <1>10, NilIsNoMessage
  <2>2. Untouched(m)
    BY <1>4, <1>8, <1>10, <2>1 DEF Untouched
  <2> QED
    BY <2>2, UntouchedStays DEF MessagesInv
<1>11. Placed(msg)'
  <2>1. OnQueues(msg) = {q} /\ InHands(msg) = {} /\ done[msg] = 0 /\ msg \notin lost
        /\ msg \in posted
    BY <1>3 DEF MessagesInv, Placed, AtOnePlace, Nowhere, OnQueues
  <2>2. OnQueues(msg)' = {}
    BY <1>8, <2>1 DEF OnQueues
  <2>3. InHands(msg)' = {t}
    BY <1>9, <2>1 DEF InHands
  <2> QED
    BY <1>4, <2>1, <2>2, <2>3 DEF Placed, AtOnePlace
<1> QED
  BY <1>1, <1>3, <1>4, <1>7, <1>8, <1>10, <1>11

\* A worker that has handled the message in its hands, or leaves with it handled.
LEMMA HandledIsPlaced ==
  ASSUME Inv, MessagesInv, NEW t \in Threads, pc[t] = "run",
         done' = [done EXCEPT ![hand[t]] = @ + 1], hand' = [hand EXCEPT ![t] = NIL],
         UNCHANGED posted,
         NEW q \in Queues,
         \/ UNCHANGED << queue, lost >>
         \/ /\ queue' = [queue EXCEPT ![q] = EmptyList]
            /\ lost' = lost \cup {queue[q].items[i] : i \in 1 .. Len(queue[q].items)}
  PROVE  /\ \A d \in Queues : Distinct(queue'[d])
         /\ \A m \in Message : Placed(m)'
         /\ \A d \in Queues : queue'[d] = queue[d] \/ (d = q /\ queue'[d] = EmptyList)
<1>1. PICK msg \in Message : msg = hand[t]
  BY DEF MessagesInv, Inv, TypeOK
<1>2. done'[msg] = done[msg] + 1 /\ \A m \in Message \ {msg} : done'[m] = done[m]
  BY <1>1 DEF Inv, TypeOK
<1>3. hand'[t] = NIL /\ \A u \in Threads \ {t} : hand'[u] = hand[u]
  BY DEF Inv, TypeOK
<1>4. OnQueues(msg) = {} /\ InHands(msg) = {t} /\ done[msg] = 0 /\ msg \notin lost
      /\ msg \in posted
  BY <1>1 DEF MessagesInv, Placed, AtOnePlace, Nowhere, InHands
<1>5. \A m \in Message \ {msg} : \A u \in Threads : hand'[u] = m <=> hand[u] = m
  BY <1>1, <1>3, NilIsNoMessage
<1>6. InHands(msg)' = {}
  BY <1>3, <1>4, NilIsNoMessage DEF InHands
<1>7. CASE UNCHANGED << queue, lost >>
  <2>1. \A m \in Message \ {msg} : Untouched(m)
    BY <1>2, <1>5, <1>7 DEF Untouched
  <2>2. OnQueues(msg)' = {}
    BY <1>4, <1>7 DEF OnQueues
  <2>3. Placed(msg)'
    BY <1>2, <1>4, <1>6, <1>7, <2>2 DEF Placed, AtOnePlace
  <2> QED
    BY <1>7, <2>1, <2>3, UntouchedStays DEF MessagesInv
<1>8. CASE /\ queue' = [queue EXCEPT ![q] = EmptyList]
           /\ lost' = lost \cup {queue[q].items[i] : i \in 1 .. Len(queue[q].items)}
  <2>1. queue'[q] = EmptyList /\ \A d \in Queues \ {q} : queue'[d] = queue[d]
    BY <1>8 DEF Inv, TypeOK
  <2>2. Distinct(EmptyList) /\ \A m : ~ Listed(EmptyList, m)
    BY DEF EmptyList, Distinct, Listed, Contains
  <2>3. \A m : m \in lost' <=> m \in lost \/ Listed(queue[q], m)
    BY <1>8 DEF Listed, Contains
  <2>4. \A d \in Queues, m \in Message :
          Listed(queue'[d], m) <=> Listed(queue[d], m) /\ d # q
    BY <2>1, <2>2
  <2>5. ASSUME NEW m \in Message, m # msg, ~ Listed(queue[q], m) PROVE Placed(m)'
    <3>1. Untouched(m)
      BY <1>2, <1>5, <2>3, <2>4, <2>5 DEF Untouched
    <3> QED
      BY <3>1, UntouchedStays DEF MessagesInv
  <2>6. ASSUME NEW m \in Message, Listed(queue[q], m) PROVE Placed(m)'
    <3>1. OnQueues(m) = {q} /\ InHands(m) = {} /\ done[m] = 0 /\ m \in posted
      BY <2>6 DEF MessagesInv, Placed, AtOnePlace, Nowhere, OnQueues
    <3>2. m # msg
      BY <1>4, <3>1
    <3>3. OnQueues(m)' = {}
      BY <2>4, <3>1 DEF OnQueues
    <3>4. InHands(m)' = {}
      BY <1>5, <3>1, <3>2 DEF InHands
    <3>5. done'[m] = 0 /\ m \in lost' /\ m \in posted'
      BY <1>2, <2>3, <2>6, <3>1, <3>2
    <3> QED
      BY <3>3, <3>4, <3>5 DEF Placed, AtOnePlace
  <2>7. Placed(msg)'
    <3>1. OnQueues(msg)' = {} /\ ~ Listed(queue[q], msg)
      BY <1>4, <2>4 DEF OnQueues
    <3>2. msg \notin lost' /\ done'[msg] = 1 /\ msg \in posted'
      BY <1>2, <1>4, <2>3, <3>1
    <3> QED
      BY <1>6, <3>1, <3>2 DEF Placed, AtOnePlace
  <2>8. \A d \in Queues : Distinct(queue'[d])
    BY <2>1, <2>2 DEF MessagesInv
  <2> QED
    BY <2>1, <2>5, <2>6, <2>7, <2>8
<1> QED
  BY <1>7, <1>8

\* What the threads and the main thread have not posted yet, for a step that
\* posts nothing.
Unposted ==
  /\ \A t \in Solo : pc[t] = "unborn" => Exec(t) \notin posted
  /\ mpc = "running" => \A m \in posted : m.kind # "TM_EXIT"
  /\ mpc = "posting" =>
       /\ \A i, j \in 1 .. Len(toStop) : toStop[i] = toStop[j] => i = j
       /\ \A i \in 1 .. Len(toStop) : Exit(toStop[i]) \notin posted
  /\ mpc = "joining" => toStop = << >>

HandsRun == \A t \in Threads : pc[t] = "run" <=> hand[t] # NIL

LEMMA MessagesParts ==
  MessagesInv <=> /\ HandsRun
                  /\ \A q \in Queues : Distinct(queue[q])
                  /\ \A m \in Message : Placed(m)
                  /\ Unposted
  BY DEF MessagesInv, HandsRun, Unposted

LEMMA MessagesUntouched ==
  ASSUME Inv, MessagesInv, UNCHANGED << queue, hand, done, lost, posted >>,
         \A u \in Threads : (pc'[u] = "run" <=> pc[u] = "run"),
         \A u \in Threads : pc'[u] = "unborn" => pc[u] = "unborn",
         Unposted'
  PROVE  MessagesInv'
<1>1. \A m \in Message : Placed(m)'
  <2>1. \A m \in Message : Untouched(m)
    BY DEF Untouched
  <2> QED
    BY <2>1, UntouchedStays DEF MessagesInv
<1>2. \A q \in Queues : Distinct(queue'[q])
  BY DEF MessagesInv
<1>3. HandsRun'
  BY DEF MessagesInv, HandsRun
<1> QED
  BY <1>1, <1>2, <1>3 DEF MessagesInv, HandsRun, Unposted

LEMMA WorkerKeepsMessages ==
  ASSUME Inv, MessagesInv, NEW t \in Threads, Worker(t)
  PROVE  MessagesInv'
<1>1. ASSUME UNCHANGED << posted, mpc, toStop >>, \A u \in Threads : pc'[u] = "unborn" => pc[u] = "unborn"
      PROVE  Unposted'
  BY <1>1, ThreadsAssumption DEF MessagesInv, Unposted, Threads
<1>2. CASE TakeMessage(t)
  <2>1. UNCHANGED << posted, mpc, toStop >> /\ pc' = [pc EXCEPT ![t] = "run"]
        /\ \A u \in Threads : pc'[u] = "unborn" => pc[u] = "unborn"
    BY <1>2 DEF TakeMessage, mainVars, Inv, TypeOK
  <2>2. Unposted'
    BY <1>1, <2>1
  <2>3. PICK msg \in Message : hand' = [hand EXCEPT ![t] = msg]
    BY <1>2, TakenIsPlaced
  <2>4. HandsRun'
    BY <2>1, <2>3, NilIsNoMessage DEF MessagesInv, HandsRun, Inv, TypeOK
  <2>5. (\A d \in Queues : Distinct(queue'[d])) /\ \A m \in Message : Placed(m)'
    BY <1>2, TakenIsPlaced
  <2> QED
    BY <2>2, <2>4, <2>5 DEF MessagesInv, HandsRun, Unposted
<1>3. CASE RunJob(t) \/ ObeyExit(t) \/ Die(t)
  <2>1. PICK q \in Queues : q = QueueOf(t)
    BY QueueOfType
  <2>2. /\ pc[t] = "run" /\ done' = [done EXCEPT ![hand[t]] = @ + 1]
        /\ hand' = [hand EXCEPT ![t] = NIL]
        /\ UNCHANGED << posted, mpc, toStop >>
        /\ pc' = [pc EXCEPT ![t] = "enter"] \/ pc' = [pc EXCEPT ![t] = "exited"]
    BY <1>3 DEF RunJob, ObeyExit, Die, Leave, mainVars, queueVars
  <2>3. \/ UNCHANGED << queue, lost >>
        \/ /\ queue' = [queue EXCEPT ![q] = EmptyList]
           /\ lost' = lost \cup {queue[q].items[i] : i \in 1 .. Len(queue[q].items)}
    BY <1>3, <2>1 DEF RunJob, ObeyExit, Die, Leave, queueVars
  <2>4. (\A d \in Queues : Distinct(queue'[d])) /\ \A m \in Message : Placed(m)'
    BY <2>2, <2>3, HandledIsPlaced
  <2>5. HandsRun'
    BY <2>2 DEF MessagesInv, HandsRun, Inv, TypeOK
  <2>6. \A u \in Threads : pc'[u] = "unborn" => pc[u] = "unborn"
    BY <2>2 DEF Inv, TypeOK
  <2>7. Unposted'
    BY <1>1, <2>2, <2>6
  <2> QED
    BY <2>4, <2>5, <2>7 DEF MessagesInv, HandsRun, Unposted
<1>4. CASE \/ PassGate(t) \/ BeginWait(t) \/ ResetEvent(t) \/ Register(t)
           \/ Unlock(t) \/ Wait(t) \/ Unregister(t)
  <2>1. UNCHANGED << queue, hand, done, lost, posted, mpc, toStop >>
    BY <1>4 DEF PassGate, BeginWait, ResetEvent, Register, Unlock, Wait, Unregister,
                queueVars, mainVars
  <2>2. /\ \A u \in Threads : pc'[u] = "run" <=> pc[u] = "run"
        /\ \A u \in Threads : pc'[u] = "unborn" => pc[u] = "unborn"
    BY <1>4 DEF PassGate, BeginWait, ResetEvent, Register, Unlock, Wait, Unregister,
                Inv, TypeOK
  <2>3. Unposted'
    BY <1>1, <2>1, <2>2
  <2> QED
    BY <2>1, <2>2, <2>3, MessagesUntouched
<1> QED
  BY <1>2, <1>3, <1>4 DEF Worker

\* A post of a new message that is no start routine.
LEMMA PostKeepsMessages ==
  ASSUME Inv, MessagesInv, NEW t \in Threads, NEW msg \in Message, msg \notin posted,
         \A u \in Solo : msg # Exec(u),
         Posting(t, msg), UNCHANGED << hand, done >>,
         mpc' \in {"running", "posting", "joining"} =>
           /\ mpc' = mpc
           /\ mpc = "running" => msg.kind # "TM_EXIT"
           /\ mpc = "joining" => toStop' = << >>
           /\ mpc = "posting" =>
                /\ \A i, j \in 1 .. Len(toStop') : toStop'[i] = toStop'[j] => i = j
                /\ \A i \in 1 .. Len(toStop') : Exit(toStop'[i]) \notin posted \cup {msg}
  PROVE  MessagesInv'
<1>1. /\ \A d \in Queues : Distinct(queue'[d])
      /\ \A m \in Message : Placed(m)'
      /\ posted' \subseteq posted \cup {msg}
  BY PostedIsPlaced
<1>2. PcKept
  BY PostingKeeps DEF Inv
<1>3. HandsRun'
  BY <1>2 DEF PcKept, MessagesInv, HandsRun
<1>4. \A u \in Solo : pc'[u] = "unborn" => Exec(u) \notin posted'
  BY <1>1, <1>2 DEF PcKept, MessagesInv, Threads
<1>5. mpc' = "running" => \A m \in posted' : m.kind # "TM_EXIT"
  BY <1>1 DEF MessagesInv
<1>6. mpc' = "posting" =>
         /\ \A i, j \in 1 .. Len(toStop') : toStop'[i] = toStop'[j] => i = j
         /\ \A i \in 1 .. Len(toStop') : Exit(toStop'[i]) \notin posted'
  BY <1>1
<1>7. mpc' = "joining" => toStop' = << >>
  OBVIOUS
<1> QED
  BY <1>1, <1>3, <1>4, <1>5, <1>6, <1>7 DEF MessagesInv, HandsRun

LEMMA RequestsKeepMessages ==
  ASSUME Inv, MessagesInv, mpc # "down", NEW p,
         \/ \E f \in Flushes : CacheFlush(p, f)
         \/ \E t \in Solo : CreateThread(p, t)
  PROVE  MessagesInv'
<1>1. ASSUME NEW f \in Flushes, CacheFlush(p, f) PROVE MessagesInv'
  <2>1. CacheThd \in Threads /\ Exec(f) \in Message /\ Posting(CacheThd, Exec(f))
    BY <1>1, CacheFlushPosts
  <2>2. Exec(f) \notin posted /\ UNCHANGED << hand, done, toStop >>
    BY <1>1 DEF CacheFlush
  <2>3. PICK msg \in Message : msg = Exec(f)
    BY <2>1
  <2>4. msg.kind = "TM_EXEC" /\ msg.of = f
    BY <2>3 DEF Exec
  <2>5. \A u \in Solo : msg # Exec(u)
    <3>1. \A u \in Solo : f # u /\ Exec(u).of = u
      BY ThreadsAssumption DEF Exec
    <3> QED
      BY <2>4, <3>1
  <2>6. \A i \in 1 .. Len(toStop) : Exit(toStop[i]) # msg
    BY <2>4 DEF Exit
  <2>7. mpc' \in {mpc, "crashed"}
    BY <2>1, PostingKeeps DEF Inv
  <2>8. mpc' \in {"running", "posting", "joining"} =>
           /\ mpc' = mpc
           /\ mpc = "running" => msg.kind # "TM_EXIT"
           /\ mpc = "joining" => toStop' = << >>
           /\ mpc = "posting" =>
                /\ \A i, j \in 1 .. Len(toStop') : toStop'[i] = toStop'[j] => i = j
                /\ \A i \in 1 .. Len(toStop') : Exit(toStop'[i]) \notin posted \cup {msg}
    BY <2>2, <2>4, <2>6, <2>7 DEF MessagesInv
  <2> QED
    BY <2>1, <2>2, <2>3, <2>5, <2>8, PostKeepsMessages
<1>2. ASSUME NEW t \in Solo, CreateThread(p, t) PROVE MessagesInv'
  <2>1. t \in Queues /\ t \in Threads /\ Exec(t) \in Message /\ Exec(t).kind = "TM_EXEC"
        /\ Exec(t).of = t
    BY DEF Queues, Threads, Exec, Message, Work
  <2>2. Exec(t) \notin posted
    BY <1>2 DEF CreateThread, MessagesInv
  <2>3. /\ queue' = [queue EXCEPT ![t] = AddData(@, Exec(t))] /\ posted' = posted \cup {Exec(t)}
        /\ pc[t] = "unborn" /\ pc' = [pc EXCEPT ![t] = "enter"]
        /\ UNCHANGED << hand, done, lost, mpc, toStop >>
    BY <1>2 DEF CreateThread, mainVars
  <2>4. (\A d \in Queues : Distinct(queue'[d])) /\ \A m \in Message : Placed(m)'
    BY <2>1, <2>2, <2>3, AddedIsPlaced
  <2>5. HandsRun'
    BY <2>3 DEF MessagesInv, HandsRun, Inv, TypeOK
  <2>6. \A u \in Solo : pc'[u] = "unborn" => Exec(u) \notin posted'
    <3>1. \A u \in Solo : pc'[u] = "unborn" => pc[u] = "unborn" /\ u # t
      BY <2>1, <2>3 DEF Inv, TypeOK, Threads
    <3>2. \A u \in Solo : Exec(u).of = u
      BY DEF Exec
    <3> QED
      BY <2>1, <2>3, <3>1, <3>2 DEF MessagesInv
  <2>7. mpc' = "running" => \A m \in posted' : m.kind # "TM_EXIT"
    BY <2>1, <2>3 DEF MessagesInv
  <2>8. \A i \in 1 .. Len(toStop) : Exit(toStop[i]) # Exec(t)
    BY DEF Exit, Exec
  <2>9. mpc' = "posting" =>
         /\ \A i, j \in 1 .. Len(toStop') : toStop'[i] = toStop'[j] => i = j
         /\ \A i \in 1 .. Len(toStop') : Exit(toStop'[i]) \notin posted'
    BY <2>3, <2>8 DEF MessagesInv
  <2>10. mpc' = "joining" => toStop' = << >>
    BY <2>3 DEF MessagesInv
  <2> QED
    BY <2>4, <2>5, <2>6, <2>7, <2>9, <2>10 DEF MessagesInv, HandsRun
<1> QED
  BY <1>1, <1>2

\* Gather notes each worker once.
LEMMA GatherNotesOnce ==
  ASSUME Inv, mpc # "down", NEW s, s = RemoveAt(thdList.items, PosOf(thdList, Main))
  PROVE  /\ s \in Seq(Threads)
         /\ \A i, j \in 1 .. Len(s) : s[i] = s[j] => i = j
         /\ \A t \in Threads : (\E i \in 1 .. Len(s) : s[i] = t) <=> Alive(t)
<1>1. PICK l : l = thdList.items
  OBVIOUS
<1>2. PICK k : k = PosOf(thdList, Main)
  OBVIOUS
<1>3. k \in 1 .. Len(l) /\ l[k] = Main
  BY <1>1, <1>2, PosOfListed DEF Inv, ThdListIsAlive
<1>4. l \in Seq(Threads \cup {Main}) /\ Len(l) \in Nat
  BY <1>1 DEF Inv, ListsInv, WellFormed
<1>5. \A i, j \in 1 .. Len(l) : l[i] = l[j] => i = j
  BY <1>1 DEF Inv, ThdListIsAlive, Distinct
<1>6. /\ Len(s) = Len(l) - 1
      /\ \A i \in 1 .. Len(l) - 1 : s[i] = IF i < k THEN l[i] ELSE l[i + 1]
  BY <1>1, <1>2, <1>3, <1>4, RemoveAtElements
<1>7. s \in Seq(Threads)
  BY GatherNotesWorkers DEF Inv
<1>8. \A i, j \in 1 .. Len(s) : s[i] = s[j] => i = j
  BY <1>3, <1>4, <1>5, <1>6
<1>9. ASSUME NEW t \in Threads PROVE (\E i \in 1 .. Len(s) : s[i] = t) <=> Alive(t)
  <2>1. Alive(t) <=> \E i \in 1 .. Len(l) : l[i] = t
    BY <1>1 DEF Inv, ThdListIsAlive, Listed, Contains
  <2>2. t # Main
    BY ThreadsAssumption
  <2>3. ASSUME NEW i \in 1 .. Len(l), l[i] = t PROVE \E j \in 1 .. Len(s) : s[j] = t
    <3>1. CASE i < k
      <4>1. i \in 1 .. Len(l) - 1
        BY <1>3, <1>4, <3>1
      <4> QED
        BY <1>6, <2>3, <3>1, <4>1
    <3>2. CASE ~ (i < k)
      <4>1. i # k
        BY <1>3, <2>2, <2>3
      <4>2. i - 1 \in 1 .. Len(l) - 1 /\ ~ (i - 1 < k) /\ (i - 1) + 1 = i
        BY <1>3, <1>4, <3>2, <4>1
      <4> QED
        BY <1>6, <2>3, <4>2
    <3> QED
      BY <3>1, <3>2
  <2>4. ASSUME NEW i \in 1 .. Len(s), s[i] = t PROVE \E j \in 1 .. Len(l) : l[j] = t
    <3>1. i \in 1 .. Len(l) /\ i + 1 \in 1 .. Len(l) /\ i \in 1 .. Len(l) - 1
      BY <1>4, <1>6
    <3> QED
      BY <1>6, <2>4, <3>1
  <2> QED
    BY <2>1, <2>3, <2>4
<1> QED
  BY <1>7, <1>8, <1>9

LEMMA MainKeepsMessages ==
  ASSUME Inv, MessagesInv, mpc \notin {"down", "crashed"}, MainStep
  PROVE  MessagesInv'
<1>1. CASE InitComplete
  <2>1. PcKept /\ UNCHANGED << queue, hand, done, lost, posted, mpc, toStop >>
    BY <1>1, BroadcastKeeps DEF InitComplete, Inv, Conds, queueVars, mainVars
  <2>2. Unposted'
    BY <2>1 DEF MessagesInv, Unposted, PcKept, Threads
  <2> QED
    BY <2>1, <2>2, MessagesUntouched DEF PcKept
<1>2. CASE Gather
  <2>1. UNCHANGED << queue, hand, done, lost, posted, pc >> /\ mpc = "running"
        /\ mpc' = "posting" /\ toStop' = RemoveAt(thdList.items, PosOf(thdList, Main))
    BY <1>2 DEF Gather, queueVars
  <2>2. \A i, j \in 1 .. Len(toStop') : toStop'[i] = toStop'[j] => i = j
    BY <2>1, GatherNotesOnce
  <2>3. \A i \in 1 .. Len(toStop') : Exit(toStop'[i]) \notin posted'
    BY <2>1 DEF MessagesInv, Exit
  <2>4. Unposted'
    BY <2>1, <2>2, <2>3 DEF MessagesInv, Unposted
  <2> QED
    BY <2>1, <2>4, MessagesUntouched
<1>3. CASE PostExit
  <2>1. PICK t \in Threads : t = Head(toStop)
    BY <1>3 DEF PostExit, Inv, TypeOK
  <2>2. PICK msg \in Message : msg = Exit(t)
    BY DEF Exit, Message
  <2>3. msg.kind = "TM_EXIT" /\ msg.of = t
    BY <2>2 DEF Exit
  <2>4. Posting(t, msg) /\ UNCHANGED << hand, done >> /\ toStop' = Tail(toStop)
        /\ mpc = "posting" /\ toStop # << >>
    BY <1>3, <2>1, <2>2 DEF PostExit, Posting
  <2>5. toStop \in Seq(Threads) /\ t = toStop[1] /\ Len(toStop) \in Nat /\ Len(toStop) >= 1
    BY <2>1, <2>4 DEF Inv, TypeOK
  <2>6. msg \notin posted
    BY <2>2, <2>4, <2>5 DEF MessagesInv
  <2>7. \A u \in Solo : msg # Exec(u)
    BY <2>3 DEF Exec
  <2>8. Len(toStop') = Len(toStop) - 1
        /\ \A i \in 1 .. Len(toStop') : i + 1 \in 1 .. Len(toStop) /\ toStop'[i] = toStop[i + 1]
    BY <2>4, <2>5
  <2>9. \A i, j \in 1 .. Len(toStop') : toStop'[i] = toStop'[j] => i = j
    BY <2>4, <2>5, <2>8 DEF MessagesInv
  <2>10. \A i \in 1 .. Len(toStop') : Exit(toStop'[i]) \notin posted \cup {msg}
    <3>1. \A i \in 1 .. Len(toStop') : toStop'[i] # t
      BY <2>4, <2>5, <2>8 DEF MessagesInv
    <3>2. \A i \in 1 .. Len(toStop') : Exit(toStop'[i]).of = toStop'[i]
      BY DEF Exit
    <3>3. \A i \in 1 .. Len(toStop') : Exit(toStop'[i]) \notin posted
      BY <2>4, <2>8 DEF MessagesInv
    <3> QED
      BY <2>3, <3>1, <3>2, <3>3
  <2>11. mpc' \in {mpc, "crashed"}
    BY <2>4, PostingKeeps DEF Inv
  <2> QED
    BY <2>4, <2>6, <2>7, <2>9, <2>10, <2>11, PostKeepsMessages
<1>4. CASE BeginJoin \/ TearDown
  <2>1. UNCHANGED << queue, hand, done, lost, posted, pc, toStop >>
        /\ (mpc' = "down" \/ (mpc' = "joining" /\ toStop = << >>))
    BY <1>4 DEF BeginJoin, TearDown, queueVars
  <2>2. Unposted'
    BY <2>1 DEF MessagesInv, Unposted
  <2> QED
    BY <2>1, <2>2, MessagesUntouched
<1> QED
  BY <1>1, <1>2, <1>3, <1>4 DEF MainStep

LEMMA InitMessages ==
  ASSUME Init
  PROVE  MessagesInv
<1>1. \A q \in Queues : Distinct(queue[q]) /\ \A m : ~ Listed(queue[q], m)
  BY DEF Init, EmptyList, Distinct, Listed, Contains
<1>2. \A t \in Threads : hand[t] = NIL /\ pc[t] # "run"
  BY DEF Init
<1>3. ASSUME NEW m \in Message PROVE Placed(m)
  <2>1. OnQueues(m) = {} /\ InHands(m) = {}
    BY <1>1, <1>2, NilIsNoMessage DEF OnQueues, InHands
  <2> QED
    BY <2>1 DEF Init, Placed, Nowhere
<1> QED
  BY <1>1, <1>2, <1>3 DEF Init, MessagesInv

LEMMA NextKeepsMessages ==
  ASSUME Inv, MessagesInv, Next
  PROVE  MessagesInv'
<1>1. mpc \notin {"down", "crashed"}
  BY DEF Next, Running
<1> QED
  BY <1>1, WorkerKeepsMessages, RequestsKeepMessages, MainKeepsMessages DEF Next

LEMMA MessagesAlways == Spec => [](Inv /\ MessagesInv)
<1>1. Init => MessagesInv
  BY InitMessages
<1>2. Inv /\ MessagesInv /\ [Next]_vars => MessagesInv'
  <2>1. ASSUME Inv, MessagesInv, UNCHANGED vars PROVE MessagesInv'
    <3>1. UNCHANGED << queue, hand, done, lost, posted, pc, mpc, toStop >>
      BY <2>1 DEF vars, queueVars, mainVars
    <3>2. Unposted'
      BY <2>1, <3>1 DEF MessagesInv, Unposted
    <3> QED
      BY <2>1, <3>1, <3>2, MessagesUntouched
  <2> QED
    BY <2>1, NextKeepsMessages
<1> QED
  BY <1>1, <1>2, InvHolds, PTL DEF Spec

\* No message is handled twice, and none disappears but with its queue: of the
\* queues, the hands of the workers, the messages handled and those written
\* off, a posted message is always at one place, however the posts, the waits
\* and the exits of the workers interleave.
THEOREM MessagesAreConserved == Spec => []EachMessageOnce
<1>1. ASSUME MessagesInv, TypeOK PROVE EachMessageOnce
  <2>1. \A m : OnQueues(m) = {q \in Queues : Listed(queue[q], m)}
               /\ InHands(m) = {t \in Threads : hand[t] = m}
    BY DEF OnQueues, InHands
  <2>2. ASSUME NEW m \in posted
        PROVE  Cardinality(OnQueues(m)) + Cardinality(InHands(m)) + done[m]
               + (IF m \in lost THEN 1 ELSE 0) = 1
    <3>1. AtOnePlace(m)
      BY <1>1 DEF MessagesInv, Placed, TypeOK
    <3>2. Cardinality({}) = 0
      BY FS_EmptySet
    <3>3. CASE OnQueues(m) = {} /\ InHands(m) = {}
      BY <3>1, <3>2, <3>3 DEF AtOnePlace
    <3>4. CASE InHands(m) = {} /\ \E q \in Queues : OnQueues(m) = {q}
      <4>1. Cardinality(OnQueues(m)) = 1
        BY <3>4, FS_Singleton
      <4> QED
        BY <3>1, <3>2, <3>4, <4>1 DEF AtOnePlace
    <3>5. CASE OnQueues(m) = {} /\ \E t \in Threads : InHands(m) = {t}
      <4>1. Cardinality(InHands(m)) = 1
        BY <3>5, FS_Singleton
      <4> QED
        BY <3>1, <3>2, <3>5, <4>1 DEF AtOnePlace
    <3> QED
      BY <3>1, <3>3, <3>4, <3>5 DEF AtOnePlace
  <2>3. ASSUME NEW m \in Message \ posted
        PROVE  ~ Queued(m) /\ ~ InHand(m) /\ done[m] = 0 /\ m \notin lost
    BY <1>1, UnpostedIsNowhere DEF MessagesInv, Queued, InHand
  <2> QED
    BY <1>1, <2>1, <2>2, <2>3 DEF MessagesInv, EachMessageOnce
<1>2. Inv /\ MessagesInv => EachMessageOnce
  BY <1>1 DEF Inv
<1> QED
  BY <1>2, MessagesAlways, PTL

-----------------------------------------------------------------------------
(* The TM_EXITs of _os_exit.                                               *)

\* The threads _os_exit has noted: those sent a TM_EXIT and those to come.
ToCome == {toStop[i] : i \in 1 .. Len(toStop)}
Noted  == Stopped \cup ToCome

NotedAlive(q) == {t \in Noted : QueueOf(t) = q /\ Alive(t)}
ToComeOn(q)   == {t \in ToCome : QueueOf(t) = q}
Pending(q)    == {m \in ExitsFor(q) : Queued(m) \/ InHand(m)}

\* A TM_EXIT goes to the queue of the thread it was made for.
RightQueue ==
  \A m \in Message : m.kind = "TM_EXIT" =>
    /\ \A q \in Queues : Listed(queue[q], m) => QueueOf(m.of) = q
    /\ \A t \in Threads : hand[t] = m => QueueOf(m.of) = QueueOf(t)

Enough(q) == Cardinality(NotedAlive(q)) <= Cardinality(Pending(q)) + Cardinality(ToComeOn(q))

\* Once _os_exit has noted the threads there are, Crew included, the exits that
\* are under way and those to come are enough for the ones that are left.
ExitsInv ==
  /\ RightQueue
  /\ mpc = "running" => \A t \in Crew : Alive(t)
  /\ mpc \in {"posting", "joining"} =>
       /\ Crew \subseteq Noted
       /\ \A t \in Noted : pc[t] # "unborn"
       /\ \A q \in Queues : Enough(q)

LEMMA NotedFinite ==
  ASSUME TypeOK
  PROVE  /\ Noted \subseteq Threads /\ Stopped \subseteq Threads /\ ToCome \subseteq Threads
         /\ \A q : /\ IsFiniteSet(NotedAlive(q)) /\ Cardinality(NotedAlive(q)) \in Nat
                   /\ IsFiniteSet(ToComeOn(q)) /\ Cardinality(ToComeOn(q)) \in Nat
<1>1. Stopped \subseteq Threads
  BY DEF Stopped, TypeOK, Message
<1>2. ToCome \subseteq Threads
  BY DEF ToCome, TypeOK
<1>3. \A q : NotedAlive(q) \in SUBSET Threads /\ ToComeOn(q) \in SUBSET Threads
  BY <1>1, <1>2 DEF NotedAlive, ToComeOn, Noted
<1>4. \A q : IsFiniteSet(NotedAlive(q)) /\ IsFiniteSet(ToComeOn(q))
  BY <1>3, ThreadsFinite, FS_Subset
<1> QED
  BY <1>1, <1>2, <1>4, FS_CardinalityType DEF Noted

LEMMA ExitsFinite == \A q : IsFiniteSet(ExitsFor(q))
<1>1. PICK E : E = {m \in Message : m.kind = "TM_EXIT"}
  OBVIOUS
<1>2. \A m \in E : m.of \in Threads /\ m = [kind |-> "TM_EXIT", of |-> m.of]
  BY <1>1 DEF Message
<1>3. PICK f : f = [m \in E |-> m.of]
  OBVIOUS
<1>4. f \in Injection(E, Threads)
  <2>1. f \in [E -> Threads]
    BY <1>2, <1>3
  <2>2. \A a, b \in E : f[a] = f[b] => a = b
    BY <1>2, <1>3
  <2> QED
    BY <2>1, <2>2 DEF Injection, IsInjective
<1>5. IsFiniteSet(E)
  BY <1>4, ThreadsFinite, FS_Injection
<1>6. \A q : ExitsFor(q) \in SUBSET E
  BY <1>1 DEF ExitsFor
<1> QED
  BY <1>5, <1>6, FS_Subset

LEMMA PendingFinite ==
  \A q : /\ IsFiniteSet(Pending(q)) /\ Cardinality(Pending(q)) \in Nat
         /\ IsFiniteSet(Pending(q)') /\ Cardinality(Pending(q)') \in Nat
<1>1. \A q : Pending(q) \in SUBSET ExitsFor(q) /\ Pending(q)' \in SUBSET ExitsFor(q)
  BY DEF Pending
<1>2. \A q : IsFiniteSet(Pending(q)) /\ IsFiniteSet(Pending(q)')
  BY <1>1, ExitsFinite, FS_Subset
<1> QED
  BY <1>2, FS_CardinalityType

\* A step that neither adds a TM_EXIT nor takes one away, and ends no thread
\* that is noted.
LEMMA ExitsUntouched ==
  ASSUME Inv, TypeOK', ExitsInv, RightQueue', UNCHANGED toStop, Stopped' = Stopped,
         mpc' \in {mpc, "crashed"},
         mpc = "running" => \A t \in Crew : Alive(t)',
         \A t \in Noted : pc[t] # "unborn" => (Alive(t)' => Alive(t)) /\ pc'[t] # "unborn",
         \A q \in Queues : Pending(q) \subseteq Pending(q)'
  PROVE  ExitsInv'
<1>1. ToCome' = ToCome /\ Noted' = Noted
  BY DEF ToCome, Noted
<1>2. ASSUME mpc' \in {"posting", "joining"}, NEW q \in Queues PROVE Enough(q)'
  <2>1. mpc \in {"posting", "joining"} /\ Enough(q) /\ \A t \in Noted : pc[t] # "unborn"
    BY <1>2 DEF ExitsInv
  <2>2. ToComeOn(q)' = ToComeOn(q)
    BY <1>1 DEF ToComeOn
  <2>3. NotedAlive(q)' \in SUBSET NotedAlive(q)
    BY <1>1, <2>1 DEF NotedAlive
  <2>4. Cardinality(NotedAlive(q)') <= Cardinality(NotedAlive(q))
    BY <2>3, NotedFinite, FS_Subset DEF Inv
  <2>5. Cardinality(Pending(q)) <= Cardinality(Pending(q)')
    <3>1. IsFiniteSet(Pending(q)')
      BY PendingFinite
    <3> QED
      BY <3>1, FS_Subset
  <2>6. /\ Cardinality(NotedAlive(q)') \in Nat /\ Cardinality(NotedAlive(q)) \in Nat
        /\ Cardinality(ToComeOn(q)) \in Nat /\ Cardinality(Pending(q)) \in Nat
        /\ Cardinality(Pending(q)') \in Nat
    <3>1. Cardinality(Pending(q)) \in Nat /\ Cardinality(Pending(q)') \in Nat
      BY PendingFinite
    <3>2. IsFiniteSet(NotedAlive(q)')
      BY <2>3, NotedFinite, FS_Subset DEF Inv
    <3> QED
      BY <3>1, <3>2, NotedFinite, FS_CardinalityType DEF Inv
  <2> QED
    BY <2>1, <2>2, <2>4, <2>5, <2>6 DEF Enough
<1>3. mpc' \in {"posting", "joining"} =>
       Crew \subseteq Noted' /\ \A t \in Noted' : pc'[t] # "unborn"
  BY <1>1 DEF ExitsInv
<1>4. mpc' = "running" => \A t \in Crew : Alive(t)'
  OBVIOUS
<1> QED
  BY <1>2, <1>3, <1>4 DEF ExitsInv

\* What the posts of other messages than TM_EXITs do.
LEMMA OtherPosts ==
  ASSUME Inv, MessagesInv, ExitsInv, NEW msg \in Message, msg.kind # "TM_EXIT",
         posted' \subseteq posted \cup {msg}, UNCHANGED hand,
         posted \subseteq posted',
         \A q \in Queues, m \in Message \ {msg} : Listed(queue'[q], m) <=> Listed(queue[q], m)
  PROVE  /\ RightQueue' /\ Stopped' = Stopped
         /\ \A q \in Queues : Pending(q) \subseteq Pending(q)'
<1>1. RightQueue'
  BY DEF ExitsInv, RightQueue
<1>2. {x \in posted' : x.kind = "TM_EXIT"} = {x \in posted : x.kind = "TM_EXIT"}
  OBVIOUS
<1>3. Stopped' = Stopped
  BY <1>2 DEF Stopped
<1>4. \A q \in Queues : Pending(q) \subseteq Pending(q)'
  BY DEF Pending, ExitsFor, Queued, InHand
<1> QED
  BY <1>1, <1>3, <1>4

\* The queues and the history a post leaves.
LEMMA PostLists ==
  ASSUME Inv, NEW t \in Threads, NEW msg \in Message, Posting(t, msg)
  PROVE  /\ \A q \in Queues, m \in Message \ {msg} : Listed(queue'[q], m) <=> Listed(queue[q], m)
         /\ \/ UNCHANGED << queue, posted >> /\ mpc' = "crashed"
            \/ /\ posted' = posted \cup {msg} /\ mpc' = mpc
               /\ \A q \in Queues : Listed(queue'[q], msg)
                                      <=> Listed(queue[q], msg) \/ q = QueueOf(t)
            \/ /\ posted' = posted \cup {msg} /\ mpc' = mpc /\ UNCHANGED queue
               /\ usage[QueueOf(t)] = 0
<1>1. CASE QueueAdd(QueueOf(t), msg) /\ UNCHANGED << mpc, lost >>
  <2>1. PICK q \in Queues : q = QueueOf(t)
    BY QueueOfType
  <2>2. queue' = [queue EXCEPT ![q] = AddData(@, msg)] /\ posted' = posted \cup {msg}
    BY <1>1, <2>1 DEF QueueAdd
  <2>3. queue'[q] = AddData(queue[q], msg) /\ \A d \in Queues \ {q} : queue'[d] = queue[d]
    BY <2>2 DEF Inv, TypeOK
  <2>4. \A m : Listed(queue'[q], m) <=> Listed(queue[q], m) \/ m = msg
    BY <2>3, AddDataListed DEF Inv, ListsInv
  <2>5. \A d \in Queues, m \in Message :
          Listed(queue'[d], m) <=> Listed(queue[d], m) \/ (d = q /\ m = msg)
    BY <2>3, <2>4
  <2> QED
    BY <1>1, <2>1, <2>2, <2>5
<1>2. CASE PostToFreed(t, msg) /\ ~ QueueAdd(QueueOf(t), msg)
  BY <1>2 DEF PostToFreed
<1> QED
  BY <1>1, <1>2 DEF Posting, PostToFreed

LEMMA RequestsKeepExits ==
  ASSUME Inv, MessagesInv, ExitsInv, TypeOK', NEW p,
         \/ \E f \in Flushes : CacheFlush(p, f)
         \/ \E t \in Solo : CreateThread(p, t)
  PROVE  ExitsInv'
<1>1. ASSUME NEW f \in Flushes, CacheFlush(p, f) PROVE ExitsInv'
  <2>1. CacheThd \in Threads /\ Exec(f) \in Message /\ Posting(CacheThd, Exec(f))
        /\ Exec(f).kind # "TM_EXIT" /\ UNCHANGED << hand, toStop >>
    BY <1>1, CacheFlushPosts DEF Exec, CacheFlush
  <2>2. PcKept
    BY <2>1, PostingKeeps DEF Inv
  <2>3. /\ RightQueue' /\ Stopped' = Stopped
        /\ \A q \in Queues : Pending(q) \subseteq Pending(q)'
    BY <2>1, PostLists, OtherPosts
  <2>4. mpc' \in {mpc, "crashed"}
    BY <2>1, PostLists
  <2>5. \A t \in Threads : Alive(t)' <=> Alive(t)
    BY <2>2 DEF PcKept, Alive
  <2>6. \A t \in Threads : pc[t] # "unborn" => pc'[t] # "unborn"
    BY <2>2 DEF PcKept
  <2>7. Noted \subseteq Threads /\ Crew \subseteq Threads
    BY NotedFinite DEF Inv, Threads
  <2> QED
    BY <2>1, <2>3, <2>4, <2>5, <2>6, <2>7, ExitsUntouched DEF ExitsInv
<1>2. ASSUME NEW t \in Solo, CreateThread(p, t) PROVE ExitsInv'
  <2>1. t \in Queues /\ t \in Threads /\ Exec(t) \in Message /\ Exec(t).kind # "TM_EXIT"
    BY DEF Queues, Threads, Exec, Message, Work
  <2>2. /\ queue' = [queue EXCEPT ![t] = AddData(@, Exec(t))] /\ posted' = posted \cup {Exec(t)}
        /\ pc[t] = "unborn" /\ pc' = [pc EXCEPT ![t] = "enter"]
        /\ UNCHANGED << hand, done, lost, mpc, toStop >>
    BY <1>2 DEF CreateThread, mainVars
  <2>3. Exec(t) \notin posted
    BY <2>2 DEF MessagesInv
  <2>4. \A d \in Queues, m \in Message :
          Listed(queue'[d], m) <=> Listed(queue[d], m) \/ (d = t /\ m = Exec(t))
    BY <2>1, <2>2, <2>3, AddedIsPlaced
  <2>5. /\ RightQueue' /\ Stopped' = Stopped
        /\ \A q \in Queues : Pending(q) \subseteq Pending(q)'
    BY <2>1, <2>2, <2>4, OtherPosts
  <2>6. \A u \in Threads : pc[u] # "unborn" => pc'[u] = pc[u]
    BY <2>2 DEF Inv, TypeOK
  <2>7. \A u \in Threads : /\ pc[u] # "unborn" => (Alive(u)' => Alive(u)) /\ pc'[u] # "unborn"
                           /\ Alive(u) => Alive(u)'
    BY <2>6 DEF Alive
  <2>8. Noted \subseteq Threads /\ Crew \subseteq Threads
    BY NotedFinite DEF Inv, Threads
  <2> QED
    BY <2>2, <2>5, <2>7, <2>8, ExitsUntouched DEF ExitsInv
<1> QED
  BY <1>1, <1>2

\* A step that leaves the messages alone.
LEMMA ExitsIdle ==
  ASSUME Inv, ExitsInv, TypeOK', UNCHANGED << queue, hand, posted, toStop >>,
         mpc' \in {mpc, "crashed"},
         \A u \in Threads : (Alive(u)' <=> Alive(u)) /\ (pc[u] # "unborn" => pc'[u] # "unborn")
  PROVE  ExitsInv'
<1>1. RightQueue'
  BY DEF ExitsInv, RightQueue
<1>2. Stopped' = Stopped
  BY DEF Stopped
<1>3. \A q \in Queues : Pending(q) \subseteq Pending(q)'
  BY DEF Pending, Queued, InHand
<1>4. Noted \subseteq Threads /\ Crew \subseteq Threads
  BY NotedFinite DEF Inv, Threads
<1> QED
  BY <1>1, <1>2, <1>3, <1>4, ExitsUntouched DEF ExitsInv

\* The worker that takes a message has it from its own queue.
LEMMA TakeKeepsExits ==
  ASSUME Inv, MessagesInv, ExitsInv, TypeOK', NEW t \in Threads, TakeMessage(t)
  PROVE  ExitsInv'
<1>1. PICK msg \in Message :
        /\ Listed(queue[on[t]], msg) /\ on[t] \in Queues /\ hand' = [hand EXCEPT ![t] = msg]
        /\ \A d \in Queues, m \in Message :
             Listed(queue'[d], m) <=> Listed(queue[d], m) /\ ~ (d = on[t] /\ m = msg)
  BY TakenIsPlaced
<1>2. on[t] = QueueOf(t) /\ hand[t] = NIL
  BY DEF TakeMessage, Inv, GateInv, MessagesInv
<1>3. hand'[t] = msg /\ \A u \in Threads \ {t} : hand'[u] = hand[u]
  BY <1>1 DEF Inv, TypeOK
<1>4. UNCHANGED << posted, mpc, toStop >> /\ pc' = [pc EXCEPT ![t] = "run"] /\ pc[t] = "enter"
  BY DEF TakeMessage, mainVars
<1>5. RightQueue'
  BY <1>1, <1>2, <1>3 DEF ExitsInv, RightQueue
<1>6. ASSUME NEW m \in Message, Queued(m) \/ InHand(m) PROVE Queued(m)' \/ InHand(m)'
  <2>1. CASE m = msg
    BY <1>3, <2>1 DEF InHand
  <2>2. CASE m # msg
    <3>1. Queued(m) => Queued(m)'
      BY <1>1, <2>2 DEF Queued
    <3>2. InHand(m) => InHand(m)'
      BY <1>2, <1>3, NilIsNoMessage DEF InHand
    <3> QED
      BY <1>6, <3>1, <3>2
  <2> QED
    BY <2>1, <2>2
<1>7. \A q \in Queues : Pending(q) \subseteq Pending(q)'
  BY <1>6 DEF Pending, ExitsFor
<1>8. Stopped' = Stopped
  BY <1>4 DEF Stopped
<1>9. \A u \in Threads : (Alive(u)' <=> Alive(u)) /\ (pc[u] # "unborn" => pc'[u] # "unborn")
  BY <1>4 DEF Alive, Inv, TypeOK
<1>10. Noted \subseteq Threads /\ Crew \subseteq Threads
  BY NotedFinite DEF Inv, Threads
<1> QED
  BY <1>4, <1>5, <1>7, <1>8, <1>9, <1>10, ExitsUntouched DEF ExitsInv

LEMMA RunKeepsExits ==
  ASSUME Inv, MessagesInv, ExitsInv, TypeOK', NEW t \in Threads, RunJob(t)
  PROVE  ExitsInv'
<1>1. UNCHANGED << queue, posted, mpc, toStop >> /\ pc' = [pc EXCEPT ![t] = "enter"]
      /\ pc[t] = "run" /\ hand' = [hand EXCEPT ![t] = NIL] /\ hand[t].kind = "TM_EXEC"
  BY DEF RunJob, mainVars, queueVars
<1>2. hand'[t] = NIL /\ \A u \in Threads \ {t} : hand'[u] = hand[u]
  BY <1>1 DEF Inv, TypeOK
<1>3. RightQueue'
  BY <1>1, <1>2, NilIsNoMessage DEF ExitsInv, RightQueue
<1>4. \A q \in Queues : Pending(q) \subseteq Pending(q)'
  BY <1>1, <1>2 DEF Pending, ExitsFor, Queued, InHand
<1>5. Stopped' = Stopped
  BY <1>1 DEF Stopped
<1>6. \A u \in Threads : (Alive(u)' <=> Alive(u)) /\ (pc[u] # "unborn" => pc'[u] # "unborn")
  BY <1>1 DEF Alive, Inv, TypeOK
<1>7. Noted \subseteq Threads /\ Crew \subseteq Threads
  BY NotedFinite DEF Inv, Threads
<1> QED
  BY <1>1, <1>3, <1>4, <1>5, <1>6, <1>7, ExitsUntouched DEF ExitsInv

\* A worker leaves with a TM_EXIT that was under way, and is noted itself; the
\* last one takes the queue with it.
LEMMA LeaveKeepsExits ==
  ASSUME Inv, MessagesInv, ExitsInv, NEW t \in Threads, ObeyExit(t) \/ Die(t)
  PROVE  ExitsInv'
<1>1. PICK q \in Queues : q = QueueOf(t)
  BY QueueOfType
<1>2. PICK msg \in Message : msg = hand[t]
  BY DEF ObeyExit, Die, MessagesInv, Inv, TypeOK
<1>3. /\ UNCHANGED << posted, mpc, toStop >> /\ pc' = [pc EXCEPT ![t] = "exited"]
      /\ pc[t] = "run" /\ hand' = [hand EXCEPT ![t] = NIL]
      /\ \/ usage[q] = 1 /\ queue' = [queue EXCEPT ![q] = EmptyList]
         \/ usage[q] # 1 /\ queue' = queue
  BY <1>1 DEF ObeyExit, Die, Leave, mainVars, queueVars
<1>4. hand'[t] = NIL /\ \A u \in Threads \ {t} : hand'[u] = hand[u]
  BY <1>3 DEF Inv, TypeOK
<1>5. \A m : ~ Listed(EmptyList, m)
  BY DEF EmptyList, Listed, Contains
<1>6. (\A d \in Queues \ {q} : queue'[d] = queue[d]) /\ queue'[q] \in {queue[q], EmptyList}
  BY <1>3 DEF Inv, TypeOK
<1>7. \A d \in Queues : \A m : Listed(queue'[d], m) => Listed(queue[d], m)
  BY <1>5, <1>6
<1>8. RightQueue'
  BY <1>4, <1>7, NilIsNoMessage DEF ExitsInv, RightQueue
<1>9. Stopped' = Stopped /\ ToCome' = ToCome /\ Noted' = Noted
  BY <1>3 DEF Stopped, ToCome, Noted
<1>10. \A u \in Threads : /\ Alive(u)' <=> Alive(u) /\ u # t
                          /\ pc[u] # "unborn" => pc'[u] # "unborn"
  BY <1>3 DEF Alive, Inv, TypeOK
<1>11. Noted \subseteq Threads /\ Crew \subseteq Threads
  BY NotedFinite DEF Inv, Threads
<1>12. msg \in posted /\ OnQueues(msg) = {} /\ InHands(msg) = {t}
  BY <1>2 DEF MessagesInv, Placed, AtOnePlace, Nowhere, InHands
<1>13. ASSUME mpc = "running", NEW u \in Crew PROVE Alive(u)'
  <2>1. ASSUME u = t PROVE FALSE
    <3>1. ~ Die(t)
      BY <2>1, <1>13, ThreadsAssumption DEF Die
    <3>2. msg.kind = "TM_EXIT"
      BY <1>2, <3>1 DEF ObeyExit
    <3> QED
      BY <1>12, <1>13, <3>2 DEF MessagesInv
  <2> QED
    BY <1>10, <1>11, <1>13, <2>1 DEF ExitsInv
<1>14. ASSUME mpc \in {"posting", "joining"}, NEW d \in Queues PROVE Enough(d)'
  <2>1. Enough(d) /\ Crew \subseteq Noted
    BY <1>14 DEF ExitsInv
  <2>2. ToComeOn(d)' = ToComeOn(d) /\ Cardinality(ToComeOn(d)) \in Nat
    BY <1>9, NotedFinite DEF ToComeOn, Inv
  <2>3. NotedAlive(d)' = NotedAlive(d) \ {t}
    BY <1>9, <1>10, <1>11 DEF NotedAlive
  <2>4. IsFiniteSet(NotedAlive(d)) /\ Cardinality(NotedAlive(d)) \in Nat
    BY NotedFinite DEF Inv
  <2>5. Cardinality(NotedAlive(d)') =
          IF t \in NotedAlive(d) THEN Cardinality(NotedAlive(d)) - 1 ELSE Cardinality(NotedAlive(d))
    BY <2>3, <2>4, FS_RemoveElement
  <2>6. Cardinality(Pending(d)) \in Nat /\ Cardinality(Pending(d)') \in Nat
        /\ IsFiniteSet(Pending(d)) /\ IsFiniteSet(Pending(d)')
    BY PendingFinite
  <2>7. CASE d # q
    <3>1. ASSUME NEW m \in Pending(d) PROVE m \in Pending(d)'
      <4>1. m \in Message /\ m.kind = "TM_EXIT" /\ QueueOf(m.of) = d /\ m \in ExitsFor(d)
        BY <3>1 DEF Pending, ExitsFor
      <4>2. hand[t] # m
        BY <1>1, <2>7, <4>1 DEF ExitsInv, RightQueue
      <4>3. ~ Listed(queue[q], m)
        BY <2>7, <4>1 DEF ExitsInv, RightQueue
      <4>4. Queued(m) => Queued(m)'
        BY <1>6, <4>3 DEF Queued
      <4>5. InHand(m) => InHand(m)'
        BY <1>4, <4>2 DEF InHand
      <4> QED
        BY <3>1, <4>1, <4>4, <4>5 DEF Pending
    <3>2. Cardinality(Pending(d)) <= Cardinality(Pending(d)')
      BY <2>6, <3>1, FS_Subset
    <3>3. t \notin NotedAlive(d)
      BY <1>1, <2>7 DEF NotedAlive
    <3> QED
      BY <2>1, <2>2, <2>4, <2>5, <2>6, <3>2, <3>3 DEF Enough
  <2>8. CASE d = q /\ usage[q] = 1
    <3>1. Cardinality(Users(q)) = 1 /\ t \in Users(q)
      BY <1>1, <1>3, <2>8 DEF Inv, UsageIsUsers, Users, Alive
    <3>2. Users(q) = {t}
      BY <3>1, UsersFinite, FS_Singleton
    <3>3. NotedAlive(d)' = {}
      BY <1>11, <2>3, <2>8, <3>2 DEF NotedAlive, Users
    <3>4. Cardinality(NotedAlive(d)') = 0
      BY <3>3, FS_EmptySet
    <3> QED
      BY <2>2, <2>6, <3>4 DEF Enough
  <2>9. CASE d = q /\ usage[q] # 1
    <3>1. ~ Die(t)
      <4>1. ASSUME t \in Solo PROVE Users(q) = {t}
        BY <1>1, <1>3, <4>1, ThreadsAssumption DEF Users, QueueOf, Alive, Threads
      <4>2. ASSUME t \in Solo PROVE FALSE
        BY <1>1, <2>9, <4>1, <4>2, FS_Singleton DEF Inv, UsageIsUsers
      <4> QED
        BY <4>2 DEF Die
    <3>2. msg.kind = "TM_EXIT" /\ msg.of \in Threads
      BY <1>2, <3>1 DEF ObeyExit, Message
    <3>3. QueueOf(msg.of) = q
      BY <1>1, <1>2, <3>2 DEF ExitsInv, RightQueue
    <3>4. t \in Noted
      <4>1. CASE t \in Crew
        BY <2>1, <4>1
      <4>2. CASE t \notin Crew
        <5>1. msg.of = t
          BY <1>1, <3>2, <3>3, <4>2, ThreadsAssumption DEF QueueOf, Threads
        <5>2. t \in Stopped
          BY <1>12, <3>2, <5>1 DEF Stopped
        <5> QED
          BY <5>2 DEF Noted
      <4> QED
        BY <4>1, <4>2
    <3>5. t \in NotedAlive(d)
      BY <1>1, <1>3, <2>9, <3>4 DEF NotedAlive, Alive
    <3>6. Pending(d)' = Pending(d) \ {msg}
      <4>1. queue' = queue
        BY <1>3, <2>9
      <4>2. \A m \in Message : Queued(m)' <=> Queued(m)
        BY <4>1 DEF Queued
      <4>3. \A m \in Message \ {msg} : InHand(m)' <=> InHand(m)
        BY <1>2, <1>4, NilIsNoMessage DEF InHand
      <4>4. ~ Queued(msg) /\ ~ InHand(msg)'
        BY <1>4, <1>12, NilIsNoMessage DEF Queued, InHand, OnQueues, InHands
      <4>5. \A m \in ExitsFor(d) : m \in Message
        BY DEF ExitsFor
      <4> QED
        BY <4>2, <4>3, <4>4, <4>5 DEF Pending
    <3>7. msg \in Pending(d)
      BY <1>2, <2>9, <3>2, <3>3 DEF Pending, ExitsFor, InHand
    <3>8. Cardinality(Pending(d)') = Cardinality(Pending(d)) - 1
      BY <2>6, <3>6, <3>7, FS_RemoveElement
    <3> QED
      BY <2>1, <2>2, <2>4, <2>5, <2>6, <3>5, <3>8 DEF Enough
  <2> QED
    BY <2>7, <2>8, <2>9
<1> QED
  BY <1>3, <1>8, <1>9, <1>10, <1>11, <1>13, <1>14 DEF ExitsInv

LEMMA WorkerKeepsExits ==
  ASSUME Inv, MessagesInv, ExitsInv, TypeOK', NEW t \in Threads, Worker(t)
  PROVE  ExitsInv'
<1>1. CASE \/ PassGate(t) \/ BeginWait(t) \/ ResetEvent(t) \/ Register(t)
           \/ Unlock(t) \/ Wait(t) \/ Unregister(t)
  <2>1. UNCHANGED << queue, hand, posted, mpc, toStop >>
    BY <1>1 DEF PassGate, BeginWait, ResetEvent, Register, Unlock, Wait, Unregister,
                queueVars, mainVars
  <2>2. \A u \in Threads : (Alive(u)' <=> Alive(u)) /\ (pc[u] # "unborn" => pc'[u] # "unborn")
    BY <1>1 DEF PassGate, BeginWait, ResetEvent, Register, Unlock, Wait, Unregister,
                Alive, Inv, TypeOK
  <2> QED
    BY <2>1, <2>2, ExitsIdle
<1>2. CASE TakeMessage(t) \/ RunJob(t)
  BY <1>2, TakeKeepsExits, RunKeepsExits
<1>3. CASE ObeyExit(t) \/ Die(t)
  BY <1>3, LeaveKeepsExits
<1> QED
  BY <1>1, <1>2, <1>3 DEF Worker

\* _os_exit notes the threads of the crew, who cannot have left yet.
LEMMA GatherKeepsExits ==
  ASSUME Inv, MessagesInv, ExitsInv, Gather
  PROVE  ExitsInv'
<1>1. UNCHANGED << queue, hand, posted, pc >> /\ mpc = "running"
      /\ mpc' = "posting" /\ toStop' = RemoveAt(thdList.items, PosOf(thdList, Main))
  BY DEF Gather, queueVars
<1>2. \A t \in Threads : (\E i \in 1 .. Len(toStop') : toStop'[i] = t) <=> Alive(t)
  BY <1>1, GatherNotesOnce
<1>3. toStop' \in Seq(Threads)
  BY <1>1, GatherNotesOnce
<1>4. ToCome' = {t \in Threads : Alive(t)}
  BY <1>2, <1>3 DEF ToCome
<1>5. Stopped' = {}
  BY <1>1 DEF MessagesInv, Stopped
<1>6. Noted' = ToCome'
  BY <1>5 DEF Noted
<1>7. \A t : Alive(t)' <=> Alive(t)
  BY <1>1 DEF Alive
<1>8. ASSUME NEW q \in Queues PROVE Enough(q)'
  <2>1. NotedAlive(q)' = ToComeOn(q)'
    BY <1>4, <1>6, <1>7 DEF NotedAlive, ToComeOn
  <2>2. NotedAlive(q)' \in SUBSET Threads
    BY <1>4, <1>6 DEF NotedAlive
  <2>3. Cardinality(NotedAlive(q)') \in Nat /\ Cardinality(Pending(q)') \in Nat
    BY <2>2, ThreadsFinite, FS_Subset, FS_CardinalityType, PendingFinite
  <2>4. PICK n \in Nat : n = Cardinality(NotedAlive(q)')
    BY <2>3
  <2>5. PICK k \in Nat : k = Cardinality(Pending(q)')
    BY <2>3
  <2>6. Cardinality(ToComeOn(q)') = n
    BY <2>1, <2>4
  <2>7. n <= k + n
    OBVIOUS
  <2> QED
    BY <2>4, <2>5, <2>6, <2>7 DEF Enough
<1>9. RightQueue'
  BY <1>1 DEF ExitsInv, RightQueue
<1>10. Crew \subseteq Noted'
  BY <1>1, <1>4, <1>6 DEF ExitsInv, Threads
<1>11. \A t \in Noted' : pc'[t] # "unborn"
  BY <1>1, <1>4, <1>6 DEF Alive
<1> QED
  BY <1>1, <1>8, <1>9, <1>10, <1>11 DEF ExitsInv

\* A TM_EXIT that was to come is under way, unless its queue and the threads
\* that read from it are gone.
LEMMA PostExitKeepsExits ==
  ASSUME Inv, MessagesInv, ExitsInv, PostExit
  PROVE  ExitsInv'
<1>1. PICK t \in Threads : t = Head(toStop)
  BY DEF PostExit, Inv, TypeOK
<1>2. PICK msg \in Message : msg = Exit(t)
  BY DEF Exit, Message
<1>3. msg.kind = "TM_EXIT" /\ msg.of = t
  BY <1>2 DEF Exit
<1>4. Posting(t, msg) /\ UNCHANGED << hand, usage >> /\ toStop' = Tail(toStop)
      /\ mpc = "posting" /\ toStop # << >>
  BY <1>1, <1>2 DEF PostExit, Posting
<1>5. PICK q \in Queues : q = QueueOf(t)
  BY QueueOfType
<1>6. PcKept
  BY <1>4, PostingKeeps DEF Inv
<1>7. /\ \A d \in Queues, m \in Message \ {msg} : Listed(queue'[d], m) <=> Listed(queue[d], m)
      /\ \/ UNCHANGED << queue, posted >> /\ mpc' = "crashed"
         \/ /\ posted' = posted \cup {msg} /\ mpc' = mpc
            /\ \A d \in Queues : Listed(queue'[d], msg) <=> Listed(queue[d], msg) \/ d = q
         \/ /\ posted' = posted \cup {msg} /\ mpc' = mpc /\ UNCHANGED queue
            /\ usage[q] = 0
  BY <1>4, <1>5, PostLists
<1>8. RightQueue'
  <2>1. \A d \in Queues : Listed(queue'[d], msg) => Listed(queue[d], msg) \/ d = q
    BY <1>7
  <2> QED
    BY <1>3, <1>4, <1>5, <1>7, <2>1 DEF ExitsInv, RightQueue
<1>9. CASE mpc' = "crashed"
  BY <1>8, <1>9 DEF ExitsInv
<1>10. CASE mpc' # "crashed"
  <2>1. posted' = posted \cup {msg} /\ mpc' = "posting"
    BY <1>4, <1>7, <1>10
  <2>2. msg \notin posted
    <3>1. 1 \in 1 .. Len(toStop) /\ toStop[1] = t
      BY <1>1, <1>4 DEF Inv, TypeOK
    <3> QED
      BY <1>2, <1>4, <3>1 DEF MessagesInv
  <2>3. Stopped' = Stopped \cup {t}
    BY <1>3, <2>1 DEF Stopped
  <2>4. ToCome' = ToCome \ {t} /\ t \in ToCome
    <3>1. toStop \in Seq(Threads) /\ t = toStop[1] /\ Len(toStop) \in Nat /\ Len(toStop) >= 1
      BY <1>1, <1>4 DEF Inv, TypeOK
    <3>2. Len(toStop') = Len(toStop) - 1
          /\ \A i \in 1 .. Len(toStop') : i + 1 \in 1 .. Len(toStop) /\ toStop'[i] = toStop[i + 1]
      BY <1>4, <3>1
    <3>3. \A i \in 1 .. Len(toStop) : toStop[i] = t => i = 1
      BY <1>4, <3>1 DEF MessagesInv
    <3>4. ASSUME NEW x \in ToCome' PROVE x \in ToCome \ {t}
      <4>1. PICK i \in 1 .. Len(toStop') : toStop'[i] = x
        BY DEF ToCome
      <4>2. i + 1 \in 1 .. Len(toStop) /\ toStop[i + 1] = x /\ i + 1 # 1
        BY <3>1, <3>2, <4>1
      <4> QED
        BY <3>3, <4>2 DEF ToCome
    <3>5. ASSUME NEW x \in ToCome \ {t} PROVE x \in ToCome'
      <4>1. PICK i \in 1 .. Len(toStop) : toStop[i] = x
        BY DEF ToCome
      <4>2. i # 1
        BY <3>1, <3>5, <4>1
      <4>3. i - 1 \in 1 .. Len(toStop') /\ (i - 1) + 1 = i
        BY <3>1, <3>2, <4>2
      <4>4. toStop'[i - 1] = x
        BY <3>2, <4>1, <4>3
      <4> QED
        BY <4>3, <4>4 DEF ToCome
    <3>6. t \in ToCome
      BY <3>1 DEF ToCome
    <3> QED
      BY <3>4, <3>5, <3>6
  <2>5. Noted' = Noted
    BY <2>3, <2>4 DEF Noted
  <2>6. Noted \subseteq Threads
    BY NotedFinite DEF Inv
  <2>7. \A u \in Threads : (Alive(u)' <=> Alive(u)) /\ (pc[u] # "unborn" => pc'[u] # "unborn")
    BY <1>6 DEF PcKept, Alive
  <2>8. \A d : NotedAlive(d)' = NotedAlive(d)
    BY <2>5, <2>6, <2>7 DEF NotedAlive
  <2>9. ASSUME NEW d \in Queues PROVE Enough(d)'
    <3>1. Enough(d)
      BY <1>4 DEF ExitsInv
    <3>2. /\ IsFiniteSet(Pending(d)) /\ Cardinality(Pending(d)) \in Nat
          /\ Cardinality(Pending(d)') \in Nat
      BY PendingFinite
    <3>3. /\ Cardinality(NotedAlive(d)) \in Nat /\ Cardinality(NotedAlive(d)') \in Nat
          /\ IsFiniteSet(ToComeOn(d)) /\ Cardinality(ToComeOn(d)) \in Nat
      BY <2>8, NotedFinite DEF Inv
    <3>4. \A m \in Message \ {msg} : (Queued(m)' <=> Queued(m)) /\ (InHand(m)' <=> InHand(m))
      BY <1>4, <1>7 DEF Queued, InHand
    <3>5. \A m \in ExitsFor(d) : m \in Message
      BY DEF ExitsFor
    <3>6. CASE d # q
      <4>1. msg \notin ExitsFor(d)
        BY <1>3, <1>5, <3>6 DEF ExitsFor
      <4>2. Pending(d)' = Pending(d)
        BY <3>4, <3>5, <4>1 DEF Pending
      <4>3. ToComeOn(d)' = ToComeOn(d)
        BY <1>5, <2>4, <3>6 DEF ToComeOn
      <4> QED
        BY <2>8, <3>1, <4>2, <4>3 DEF Enough
    <3>7. CASE d = q /\ usage[q] = 0
      <4>1. Users(q) = {}
        BY <3>7, UsersFinite, FS_EmptySet DEF Inv, UsageIsUsers
      <4>2. NotedAlive(d)' = {}
        BY <2>6, <2>8, <3>7, <4>1 DEF NotedAlive, Users
      <4>3. Cardinality(NotedAlive(d)') = 0
        BY <4>2, FS_EmptySet
      <4>4. ToComeOn(d)' \in SUBSET ToComeOn(d)
        BY <2>4 DEF ToComeOn
      <4>5. Cardinality(ToComeOn(d)') \in Nat
        BY <3>3, <4>4, FS_Subset, FS_CardinalityType
      <4> QED
        BY <3>2, <4>3, <4>5 DEF Enough
    <3>8. CASE d = q /\ usage[q] # 0
      <4>1. \A e \in Queues : Listed(queue'[e], msg) <=> Listed(queue[e], msg) \/ e = q
        BY <1>7, <1>10, <3>8
      <4>2. msg \in ExitsFor(d)
        BY <1>3, <1>5, <3>8 DEF ExitsFor
      <4>3. ~ Queued(msg) /\ ~ InHand(msg)
        BY <2>2, UnpostedIsNowhere DEF MessagesInv, Queued, InHand
      <4>4. Queued(msg)'
        BY <4>1 DEF Queued
      <4>5. Pending(d)' = Pending(d) \cup {msg} /\ msg \notin Pending(d)
        BY <3>4, <3>5, <4>2, <4>3, <4>4 DEF Pending
      <4>6. Cardinality(Pending(d)') = Cardinality(Pending(d)) + 1
        BY <3>2, <4>5, FS_AddElement
      <4>7. ToComeOn(d)' = ToComeOn(d) \ {t} /\ t \in ToComeOn(d)
        BY <1>5, <2>4, <3>8 DEF ToComeOn
      <4>8. Cardinality(ToComeOn(d)') = Cardinality(ToComeOn(d)) - 1
        BY <3>3, <4>7, FS_RemoveElement
      <4>9. Cardinality(NotedAlive(d)') = Cardinality(NotedAlive(d))
        BY <2>8
      <4> QED
        BY <3>1, <3>2, <3>3, <4>6, <4>8, <4>9 DEF Enough
    <3> QED
      BY <3>6, <3>7, <3>8
  <2>10. Crew \subseteq Noted' /\ \A u \in Noted' : pc'[u] # "unborn"
    BY <1>4, <2>5, <2>6, <2>7 DEF ExitsInv
  <2> QED
    BY <1>8, <2>1, <2>9, <2>10 DEF ExitsInv
<1> QED
  BY <1>9, <1>10

LEMMA MainKeepsExits ==
  ASSUME Inv, MessagesInv, ExitsInv, TypeOK', mpc \notin {"down", "crashed"}, MainStep
  PROVE  ExitsInv'
<1>1. CASE InitComplete
  <2>1. PcKept /\ UNCHANGED << queue, hand, posted, toStop, mpc >>
    BY <1>1, BroadcastKeeps DEF InitComplete, Inv, Conds, queueVars, mainVars
  <2>2. \A u \in Threads : (Alive(u)' <=> Alive(u)) /\ (pc[u] # "unborn" => pc'[u] # "unborn")
    BY <2>1 DEF PcKept, Alive
  <2> QED
    BY <2>1, <2>2, ExitsIdle
<1>2. CASE Gather \/ PostExit
  BY <1>2, GatherKeepsExits, PostExitKeepsExits
<1>3. CASE BeginJoin \/ TearDown
  <2>1. UNCHANGED << queue, hand, posted, toStop, pc >>
        /\ (mpc' = "down" \/ (mpc = "posting" /\ mpc' = "joining"))
    BY <1>3 DEF BeginJoin, TearDown, queueVars
  <2>2. RightQueue'
    BY <2>1 DEF ExitsInv, RightQueue
  <2>3. CASE mpc' = "down"
    BY <2>2, <2>3 DEF ExitsInv
  <2>4. CASE mpc = "posting" /\ mpc' = "joining"
    <3>1. Noted' = Noted
      BY <2>1 DEF Noted, Stopped, ToCome
    <3>2. \A q \in Queues : Enough(q)'
      <4>1. \A q \in Queues : /\ NotedAlive(q)' = NotedAlive(q) /\ Pending(q)' = Pending(q)
                              /\ ToComeOn(q)' = ToComeOn(q)
        BY <2>1, <3>1 DEF NotedAlive, Alive, Pending, Queued, InHand, ToComeOn, ToCome
      <4> QED
        BY <2>4, <4>1 DEF ExitsInv, Enough
    <3> QED
      BY <2>1, <2>2, <2>4, <3>1, <3>2 DEF ExitsInv
  <2> QED
    BY <2>1, <2>3, <2>4
<1> QED
  BY <1>1, <1>2, <1>3 DEF MainStep

LEMMA ExitsAlways == Spec => [](Inv /\ MessagesInv /\ ExitsInv)
<1>1. ASSUME Init PROVE ExitsInv
  <2>1. \A q \in Queues : \A m : ~ Listed(queue[q], m)
    BY <1>1 DEF Init, EmptyList, Listed, Contains
  <2>2. RightQueue
    BY <1>1, <2>1, NilIsNoMessage DEF Init, RightQueue
  <2>3. \A t \in Crew : Alive(t)
    BY <1>1 DEF Init, Alive, Threads
  <2> QED
    BY <1>1, <2>2, <2>3 DEF Init, ExitsInv
<1>2. Inv /\ MessagesInv /\ ExitsInv /\ Inv' /\ [Next]_vars => ExitsInv'
  <2>1. ASSUME Inv, MessagesInv, ExitsInv, TypeOK', UNCHANGED vars PROVE ExitsInv'
    <3>1. UNCHANGED << queue, hand, posted, toStop, mpc, pc >>
      BY <2>1 DEF vars, queueVars, mainVars
    <3>2. \A u \in Threads : (Alive(u)' <=> Alive(u)) /\ (pc[u] # "unborn" => pc'[u] # "unborn")
      BY <3>1 DEF Alive
    <3> QED
      BY <2>1, <3>1, <3>2, ExitsIdle
  <2>2. ASSUME Inv, MessagesInv, ExitsInv, TypeOK', Next PROVE ExitsInv'
    <3>1. mpc \notin {"down", "crashed"}
      BY <2>2 DEF Next, Running
    <3> QED
      BY <2>2, <3>1, WorkerKeepsExits, RequestsKeepExits, MainKeepsExits DEF Next
  <2> QED
    BY <2>1, <2>2 DEF Inv
<1> QED
  BY <1>1, <1>2, MessagesAlways, PTL DEF Spec

\* However the posts of _os_exit interleave with workers that obey or die, and
\* though the two cache cleaners take each other's messages: when _os_exit
\* starts to wait, each thread it waits for that is left has a TM_EXIT to find.
THEOREM ExitsAreEnough == Spec => []EnoughExits
<1>1. ASSUME TypeOK, MessagesInv, ExitsInv, mpc = "joining", NEW q \in Queues
      PROVE  Cardinality({t \in Stopped : QueueOf(t) = q /\ pc[t] # "exited"})
               <= Cardinality({m \in ExitsFor(q) : Queued(m) \/ InHand(m)})
  <2>1. toStop = << >>
    BY <1>1 DEF MessagesInv
  <2>2. ToCome = {} /\ Noted = Stopped
    BY <2>1 DEF ToCome, Noted
  <2>3. {t \in Stopped : QueueOf(t) = q /\ pc[t] # "exited"} = NotedAlive(q)
    BY <1>1, <2>2 DEF ExitsInv, NotedAlive, Alive
  <2>4. ToComeOn(q) = {}
    BY <2>2 DEF ToComeOn
  <2>5. Cardinality(ToComeOn(q)) = 0
    BY <2>4, FS_EmptySet
  <2>6. Enough(q)
    BY <1>1 DEF ExitsInv
  <2>7. Pending(q) = {m \in ExitsFor(q) : Queued(m) \/ InHand(m)}
    BY DEF Pending
  <2>8. Cardinality(NotedAlive(q)) \in Nat /\ Cardinality(Pending(q)) \in Nat
    BY <1>1, NotedFinite, PendingFinite
  <2>9. Cardinality(NotedAlive(q)) <= Cardinality(Pending(q))
    BY <2>5, <2>6, <2>8 DEF Enough
  <2> QED
    BY <2>3, <2>7, <2>9
<1>2. Inv /\ MessagesInv /\ ExitsInv => EnoughExits
  BY <1>1 DEF Inv, EnoughExits
<1> QED
  BY <1>2, ExitsAlways, PTL
=============================================================================
