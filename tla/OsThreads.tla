----------------------------- MODULE OsThreads -----------------------------
(***************************************************************************)
(* The threads of osapi.c: the worker loop, the message queues, the        *)
(* condition variables under them and the shutdown in _os_exit.            *)
(*                                                                         *)
(* _os_init starts two "cache cleaner" threads, Crew, that share a queue.  *)
(* JvmSysCreateThread starts further threads, Solo, each with a queue of   *)
(* its own that already holds its start routine.  Every worker first waits *)
(* until _os_init_complete, then takes messages off its queue for ever.    *)
(* Main is the thread that called _os_init and will call _os_exit.         *)
(*                                                                         *)
(* A worker that must wait does so in cond_wait, which registers an event  *)
(* in the condition variable's map and blocks on it.  The event comes from *)
(* a pool that hands the same event to everyone (EventPool,                *)
(* OneEventForAll), so one Boolean, signalled, is the state of all events, *)
(* and a slot of a map either holds that event or does not.                *)
(*                                                                         *)
(* Critical sections in which the holder cannot block are one step each.   *)
(* The two kinds of lock that are held while other steps happen, init_lock *)
(* and the queue locks, are in "owner".                                    *)
(***************************************************************************)
EXTENDS LinkListOps, FiniteSets

CONSTANTS Helper,   \* the cache cleaner created first
          CacheThd, \* the one created last: _gp->cache_thd
          Solo,     \* threads with a queue of their own
          Main,     \* the main thread
          InitCond, \* inited_cond, also standing for init_lock
          CrewQ,    \* the queue Crew shares, also its lock and condition
          Flushes,  \* the cache flush jobs that may be posted: a bound
          NIL

Crew    == {Helper, CacheThd}
Threads == Crew \cup Solo
Work    == Flushes \cup Solo      \* a Solo thread names its start routine
Queues  == {CrewQ} \cup Solo      \* a Solo thread names its queue
Conds   == {InitCond} \cup Queues
Slots   == 0 .. Cardinality(Threads) - 1

QueueOf(t) == IF t \in Crew THEN CrewQ ELSE t

Exec(w) == [kind |-> "TM_EXEC", of |-> w]
Exit(t) == [kind |-> "TM_EXIT", of |-> t]   \* t: the receiver it was made for

Message == [kind : {"TM_EXEC"}, of : Work] \cup [kind : {"TM_EXIT"}, of : Threads]

ASSUME ThreadsAssumption ==
  /\ IsFiniteSet(Solo)
  /\ Helper # CacheThd
  /\ Crew \cap Solo = {} /\ Main \notin Threads /\ Main \notin Conds
  /\ CrewQ \notin Solo /\ InitCond \notin Queues
  /\ Flushes \cap Solo = {}
  /\ NIL \notin Threads \cup Conds \cup {Main} \cup Message

VARIABLES
  inited,    \* _gp->inited
  pc,        \* where each worker is
  on,        \* the condition variable it is at: InitCond or its queue
  slot,      \* "index" of cond_wait
  owner,     \* the worker that owns init_lock or a queue_lock, or NIL
  map,       \* cond->map[i].event # NULL
  count,     \* cond->count
  signalled, \* the state of the one event
  queue,     \* the list of messages of each queue
  usage,     \* usage_count; 0 before queue_create and after queue_destroy
  hand,      \* the message a worker took and works on
  thdList,   \* _gp->thd_list, main thread included
  mpc,       \* where the main thread is
  toStop,    \* _os_exit: threads[] from the next one on
  posted,    \* history: every message given to queue_add
  done,      \* history: how often each message was handled
  lost       \* history: messages freed or written off without being handled

waitVars  == << owner, map, count, signalled, slot, on >>
queueVars == << queue, usage, posted >>
mainVars  == << mpc, toStop >>
vars == << inited, pc, waitVars, queueVars, hand, thdList, mainVars, done, lost >>

-----------------------------------------------------------------------------
\* Windows events (external): SetEvent on a manual-reset event releases every
\* thread blocked on it and leaves it signalled until somebody resets it.
SetEvent ==
  /\ signalled' = TRUE
  /\ pc' = [t \in Threads |-> IF pc[t] = "blocked" THEN "woken" ELSE pc[t]]

\* cond_broadcast: SetEvent for the first count slots that hold an event.
Reaches(c) == \E i \in 0 .. count[c] - 1 : map[c][i]

Broadcast(c) == IF Reaches(c) THEN SetEvent ELSE UNCHANGED << signalled, pc >>

\* queue_add: lock, link_list_add_data, broadcast, unlock.
QueueAdd(q, msg) ==
  /\ owner[q] = NIL
  /\ queue' = [queue EXCEPT ![q] = AddData(@, msg)]
  /\ posted' = posted \cup {msg}
  /\ Broadcast(q)

\* The os_thread_t of a thread that left is freed with its list entry.
Freed(t) == ~ Listed(thdList, t) /\ (pc[t] = "exited")

\* A message for a thread whose os_thread_t is freed memory: the process dies,
\* or the old contents still lead to the queue, or that is gone as well and the
\* message with it.
PostToFreed(t, msg) ==
  \/ /\ mpc' = "crashed"
     /\ UNCHANGED << queue, posted, signalled, pc, lost >>
  \/ /\ usage[QueueOf(t)] > 0
     /\ QueueAdd(QueueOf(t), msg)
     /\ UNCHANGED << mpc, lost >>
  \/ /\ usage[QueueOf(t)] = 0
     /\ lost' = lost \cup {msg}
     /\ posted' = posted \cup {msg}
     /\ UNCHANGED << queue, signalled, pc, mpc >>

Running == mpc \notin {"down", "crashed"}

-----------------------------------------------------------------------------
(* The worker: _os_worker_thread_start_routine, queue_get and cond_wait.   *)

\* Faulty: nobody asks for inited.
PassGateUnasked(t) ==
  /\ pc[t] = "enter" /\ on[t] = InitCond /\ owner[InitCond] = NIL
  /\ on' = [on EXCEPT ![t] = QueueOf(t)]
  /\ UNCHANGED << inited, pc, slot, owner, map, count, signalled, queueVars,
                  hand, thdList, mainVars, done, lost >>

\* lock_acquire, and the test that ends the wait: at InitCond that inited is
\* set, at a queue that there is a message, which is then taken.
PassGate(t) ==
  /\ pc[t] = "enter" /\ on[t] = InitCond /\ owner[InitCond] = NIL
  /\ inited
  /\ on' = [on EXCEPT ![t] = QueueOf(t)]
  /\ UNCHANGED << inited, pc, slot, owner, map, count, signalled, queueVars,
                  hand, thdList, mainVars, done, lost >>

\* Faulty: the message is copied but stays on the queue.
TakeMessageLeavingIt(t) ==
  /\ pc[t] = "enter" /\ on[t] # InitCond /\ owner[on[t]] = NIL
  /\ HasNext(queue[on[t]], QUEUE)
  /\ hand' = [hand EXCEPT ![t] = NextData(queue[on[t]], QUEUE)]
  /\ pc' = [pc EXCEPT ![t] = "run"]
  /\ UNCHANGED << inited, waitVars, queueVars, thdList, mainVars, done, lost >>

TakeMessage(t) ==
  /\ pc[t] = "enter" /\ on[t] # InitCond /\ owner[on[t]] = NIL
  /\ HasNext(queue[on[t]], QUEUE)
  /\ LET msg == NextData(queue[on[t]], QUEUE)
     IN  /\ hand' = [hand EXCEPT ![t] = msg]
         /\ queue' = [queue EXCEPT ![on[t]] = DeleteData(@, msg)]
  /\ pc' = [pc EXCEPT ![t] = "run"]
  /\ UNCHANGED << inited, waitVars, usage, posted, thdList, mainVars, done, lost >>

MustWait(t) ==
  IF on[t] = InitCond THEN ~ inited ELSE ~ HasNext(queue[on[t]], QUEUE)

\* Faulty: the lock is given up before the event is registered.
BeginWaitUnlocked(t) ==
  /\ pc[t] = "enter" /\ owner[on[t]] = NIL
  /\ MustWait(t)
  /\ pc' = [pc EXCEPT ![t] = "reset"]
  /\ UNCHANGED << inited, waitVars, queueVars, hand, thdList, mainVars, done, lost >>

\* The test failed: keep the lock and call cond_wait, which gets the event.
BeginWait(t) ==
  /\ pc[t] = "enter" /\ owner[on[t]] = NIL
  /\ MustWait(t)
  /\ owner' = [owner EXCEPT ![on[t]] = t]
  /\ pc' = [pc EXCEPT ![t] = "reset"]
  /\ UNCHANGED << inited, on, slot, map, count, signalled, queueVars, hand,
                  thdList, mainVars, done, lost >>

ResetEvent(t) ==
  /\ pc[t] = "reset"
  /\ signalled' = FALSE
  /\ pc' = [pc EXCEPT ![t] = "register"]
  /\ UNCHANGED << inited, on, slot, owner, map, count, queueVars, hand,
                  thdList, mainVars, done, lost >>

\* Faulty: index = count + 1.
RegisterPastEnd(t) ==
  LET c == on[t]
      i == count[c] + 1
  IN  /\ pc[t] = "register"
      /\ slot' = [slot EXCEPT ![t] = i]
      /\ map' = [map EXCEPT ![c] = [j \in Slots |-> @[j] \/ j = i]]
      /\ count' = [count EXCEPT ![c] = @ + 1]
      /\ pc' = [pc EXCEPT ![t] = "unlock"]
      /\ UNCHANGED << inited, on, owner, signalled, queueVars, hand, thdList,
                      mainVars, done, lost >>

\* Under cond->lock: index = max(count - 1, 0), so that the first two waiters
\* share slot 0.
Register(t) ==
  LET c == on[t]
      i == IF count[c] = 0 THEN 0 ELSE count[c] - 1
  IN  /\ pc[t] = "register"
      /\ slot' = [slot EXCEPT ![t] = i]
      /\ map' = [map EXCEPT ![c][i] = TRUE]
      /\ count' = [count EXCEPT ![c] = @ + 1]
      /\ pc' = [pc EXCEPT ![t] = "unlock"]
      /\ UNCHANGED << inited, on, owner, signalled, queueVars, hand, thdList,
                      mainVars, done, lost >>

\* lock_release of the caller's lock.
Unlock(t) ==
  /\ pc[t] = "unlock"
  /\ owner' = [owner EXCEPT ![on[t]] = NIL]
  /\ pc' = [pc EXCEPT ![t] = "wait"]
  /\ UNCHANGED << inited, on, slot, map, count, signalled, queueVars, hand,
                  thdList, mainVars, done, lost >>

\* WaitForSingleObject, INFINITE: all callers pass a timeout of 0.
Wait(t) ==
  /\ pc[t] = "wait"
  /\ pc' = [pc EXCEPT ![t] = IF signalled THEN "woken" ELSE "blocked"]
  /\ UNCHANGED << inited, waitVars, queueVars, hand, thdList, mainVars, done, lost >>

\* Faulty: only the slot is given back.
UnregisterKeepsCount(t) ==
  /\ pc[t] = "woken"
  /\ map' = [map EXCEPT ![on[t]][slot[t]] = FALSE]
  /\ signalled' = FALSE
  /\ pc' = [pc EXCEPT ![t] = "enter"]
  /\ UNCHANGED << inited, on, slot, owner, count, queueVars, hand, thdList,
                  mainVars, done, lost >>

\* Under cond->lock: clear the slot, count down, reset the event and return it
\* to the pool.  Then back to the loop of the caller.
Unregister(t) ==
  LET c == on[t]
  IN  /\ pc[t] = "woken"
      /\ map' = [map EXCEPT ![c][slot[t]] = FALSE]
      /\ count' = [count EXCEPT ![c] = IF @ = 0 THEN 0 ELSE @ - 1]
      /\ signalled' = FALSE
      /\ pc' = [pc EXCEPT ![t] = "enter"]
      /\ UNCHANGED << inited, on, slot, owner, queueVars, hand, thdList,
                      mainVars, done, lost >>

\* (* msg.do_work)(&msg), then the next message.  _post_back is 0 in every
\* message this code posts.
RunJob(t) ==
  /\ pc[t] = "run" /\ hand[t].kind = "TM_EXEC"
  /\ done' = [done EXCEPT ![hand[t]] = @ + 1]
  /\ hand' = [hand EXCEPT ![t] = NIL]
  /\ pc' = [pc EXCEPT ![t] = "enter"]
  /\ UNCHANGED << inited, waitVars, queueVars, thdList, mainVars, lost >>

\* Faulty: the entry of thd_list stays.
LeaveListed(t) ==
  LET q == QueueOf(t)
  IN  /\ usage' = [usage EXCEPT ![q] = @ - 1]
      /\ IF usage[q] = 1
         THEN /\ lost' = lost \cup {queue[q].items[i] : i \in 1 .. Len(queue[q].items)}
              /\ queue' = [queue EXCEPT ![q] = EmptyList]
         ELSE UNCHANGED << lost, queue >>
      /\ hand' = [hand EXCEPT ![t] = NIL]
      /\ pc' = [pc EXCEPT ![t] = "exited"]
      /\ UNCHANGED << inited, waitVars, posted, thdList, mainVars >>

\* _os_exit_thread: find and delete the own entry of thd_list, whose rundown
\* drops the reference to the queue; the last one destroys it and its messages.
Leave(t) ==
  LET q == QueueOf(t)
  IN  /\ thdList' = DeleteData(thdList, t)
      /\ usage' = [usage EXCEPT ![q] = @ - 1]
      /\ IF usage[q] = 1
         THEN /\ lost' = lost \cup {queue[q].items[i] : i \in 1 .. Len(queue[q].items)}
              /\ queue' = [queue EXCEPT ![q] = EmptyList]
         ELSE UNCHANGED << lost, queue >>
      /\ hand' = [hand EXCEPT ![t] = NIL]
      /\ pc' = [pc EXCEPT ![t] = "exited"]
      /\ UNCHANGED << inited, waitVars, posted, mainVars >>

ObeyExit(t) ==
  /\ pc[t] = "run" /\ hand[t].kind = "TM_EXIT"
  /\ done' = [done EXCEPT ![hand[t]] = @ + 1]
  /\ Leave(t)

\* A start routine that ends in an uncaught Java exception calls
\* JvmSysExitThread and does not return to the loop.
Die(t) ==
  /\ pc[t] = "run" /\ t \in Solo /\ hand[t] = Exec(t)
  /\ done' = [done EXCEPT ![hand[t]] = @ + 1]
  /\ Leave(t)

Worker(t) ==
  \/ PassGate(t) \/ TakeMessage(t) \/ BeginWait(t)
  \/ ResetEvent(t) \/ Register(t) \/ Unlock(t) \/ Wait(t) \/ Unregister(t)
  \/ RunJob(t) \/ ObeyExit(t) \/ Die(t)

-----------------------------------------------------------------------------
(* What running code asks of this layer: the main thread until it calls    *)
(* _os_exit, and a Solo thread while it runs its start routine.            *)

Asking(p) ==
  IF p = Main THEN mpc = "running" ELSE p \in Solo /\ pc[p] = "run" /\ hand[p] = Exec(p)

\* _os_cache_flush: the job goes to the queue of _gp->cache_thd.
CacheFlush(p, f) ==
  /\ Asking(p)
  /\ Exec(f) \notin posted
  /\ IF Freed(CacheThd)
     THEN PostToFreed(CacheThd, Exec(f))
     ELSE QueueAdd(CrewQ, Exec(f)) /\ UNCHANGED << mpc, lost >>
  /\ UNCHANGED << inited, on, slot, owner, map, count, usage, hand, thdList,
                  toStop, done >>

\* Faulty: the start routine is posted after the thread was resumed, and that
\* post is lost.
CreateThreadWithoutWork(p, t) ==
  /\ Asking(p)
  /\ pc[t] = "unborn"
  /\ usage' = [usage EXCEPT ![t] = 1]
  /\ thdList' = AddData(thdList, t)
  /\ pc' = [pc EXCEPT ![t] = "enter"]
  /\ UNCHANGED << inited, waitVars, queue, posted, hand, mainVars, done, lost >>

\* _os_create_thread from JvmSysCreateThread: the thread is made suspended,
\* with a new queue, entered in thd_list, sent its start routine and resumed.
CreateThread(p, t) ==
  /\ Asking(p)
  /\ pc[t] = "unborn"
  /\ usage' = [usage EXCEPT ![t] = 1]
  /\ thdList' = AddData(thdList, t)
  /\ queue' = [queue EXCEPT ![t] = AddData(@, Exec(t))]
  /\ posted' = posted \cup {Exec(t)}
  /\ pc' = [pc EXCEPT ![t] = "enter"]
  /\ UNCHANGED << inited, waitVars, hand, mainVars, done, lost >>

\* Faulty: inited is set but nobody is told.
InitCompleteSilently ==
  /\ mpc = "running" /\ ~ inited
  /\ owner[InitCond] = NIL
  /\ inited' = TRUE
  /\ UNCHANGED << pc, waitVars, queueVars, hand, thdList, mainVars, done, lost >>

InitComplete ==
  /\ mpc = "running" /\ ~ inited
  /\ owner[InitCond] = NIL
  /\ inited' = TRUE
  /\ Broadcast(InitCond)
  /\ UNCHANGED << on, slot, owner, map, count, queueVars, hand, thdList,
                  mainVars, done, lost >>

-----------------------------------------------------------------------------
(* _os_exit.                                                               *)

\* Under thd_lock: note every entry of the list, in order, but the own one.
Gather ==
  /\ mpc = "running" /\ inited
  /\ mpc' = "posting"
  /\ toStop' = RemoveAt(thdList.items, PosOf(thdList, Main))
  /\ UNCHANGED << inited, pc, waitVars, queueVars, hand, thdList, done, lost >>

\* One TM_EXIT for each of them, without the lock: its os_thread_t is read
\* here, for the handle and for the queue.
PostExit ==
  /\ mpc = "posting" /\ toStop # << >>
  /\ LET t == Head(toStop)
     IN  IF Freed(t)
         THEN PostToFreed(t, Exit(t))
         ELSE QueueAdd(QueueOf(t), Exit(t)) /\ UNCHANGED << mpc, lost >>
  /\ toStop' = Tail(toStop)
  /\ UNCHANGED << inited, on, slot, owner, map, count, usage, hand, thdList, done >>

BeginJoin ==
  /\ mpc = "posting" /\ toStop = << >>
  /\ mpc' = "joining"
  /\ UNCHANGED << inited, pc, waitVars, queueVars, hand, thdList, toStop, done, lost >>

\* WaitForMultipleObjects on the noted threads, INFINITE; then the list, the
\* dictionary, the lock and all of mem.c's memory go.
Stopped == {m.of : m \in {x \in posted : x.kind = "TM_EXIT"}}

TearDown ==
  /\ mpc = "joining"
  /\ \A t \in Stopped : pc[t] = "exited"
  /\ mpc' = "down"
  /\ thdList' = EmptyList
  /\ UNCHANGED << inited, pc, waitVars, queueVars, hand, toStop, done, lost >>

MainStep == InitComplete \/ Gather \/ PostExit \/ BeginJoin \/ TearDown
-----------------------------------------------------------------------------
\* Faulty: the second thread takes the queue without queue_addref.
CrewUsersUncounted == 1

\* usage_count of the shared queue: 1 from queue_create, 1 from queue_addref.
CrewUsers == 2

\* The state _os_init leaves: the crew is running towards inited_cond.  The
\* maps of InitCond and CrewQ are zeroed memory, the first blocks of the pool;
\* those of Solo queues may not be, but only slot 0 is ever used of them.
Init ==
  /\ inited = FALSE
  /\ pc = [t \in Threads |-> IF t \in Crew THEN "enter" ELSE "unborn"]
  /\ on = [t \in Threads |-> InitCond]
  /\ slot = [t \in Threads |-> 0]
  /\ owner = [c \in Conds |-> NIL]
  /\ map = [c \in Conds |-> [i \in Slots |-> FALSE]]
  /\ count = [c \in Conds |-> 0]
  /\ signalled = FALSE
  /\ queue = [q \in Queues |-> EmptyList]
  /\ usage = [q \in Queues |-> IF q = CrewQ THEN CrewUsers ELSE 0]
  /\ hand = [t \in Threads |-> NIL]
  /\ thdList = AddData(AddData(AddData(EmptyList, Main), Helper), CacheThd)
  /\ mpc = "running"
  /\ toStop = << >>
  /\ posted = {}
  /\ done = [m \in Message |-> 0]
  /\ lost = {}

Next ==
  /\ Running
  /\ \/ \E t \in Threads : Worker(t)
     \/ \E p \in Threads \cup {Main} :
          \/ \E f \in Flushes : CacheFlush(p, f)
          \/ \E t \in Solo : CreateThread(p, t)
     \/ MainStep

Spec == Init /\ [][Next]_vars

\* The scheduler runs every thread that can run; JvmInit gets to its end; an
\* _os_exit that began goes on.  Nobody has to post, to create a thread, or to
\* call _os_exit.
Fairness ==
  /\ \A t \in Threads : WF_vars(Running /\ Worker(t))
  /\ WF_vars(Running /\ (InitComplete \/ PostExit \/ BeginJoin \/ TearDown))

FairSpec == Spec /\ Fairness

-----------------------------------------------------------------------------
Held    == {"reset", "register", "unlock"}
Waiting == {"unlock", "wait", "blocked", "woken"}
PCs     == {"unborn", "enter", "run", "exited"} \cup Held \cup Waiting

ListOf(S) == [items : Seq(S), tail : Nat]

TypeOK ==
  /\ inited \in BOOLEAN
  /\ pc \in [Threads -> PCs]
  /\ on \in [Threads -> Conds]
  /\ slot \in [Threads -> Slots]
  /\ owner \in [Conds -> Threads \cup {NIL}]
  /\ map \in [Conds -> [Slots -> BOOLEAN]]
  /\ count \in [Conds -> Nat]
  /\ signalled \in BOOLEAN
  /\ queue \in [Queues -> ListOf(Message)]
  /\ usage \in [Queues -> Int]
  /\ hand \in [Threads -> Message \cup {NIL}]
  /\ thdList \in ListOf(Threads \cup {Main})
  /\ mpc \in {"running", "posting", "joining", "down", "crashed"}
  /\ toStop \in Seq(Threads)
  /\ posted \subseteq Message
  /\ done \in [Message -> Nat]
  /\ lost \subseteq Message

(* A thread that waits on a condition variable holds the lock it came with *)
(* up to the point where it is registered, and nobody else has that lock:  *)
(* between the test that made it wait and its entry in the map no message  *)
(* can be added, so a message is never missed that way.                    *)
WaiterHoldsItsLock ==
  /\ \A t \in Threads : pc[t] \in Held => owner[on[t]] = t
  /\ \A c \in Conds : owner[c] # NIL => on[owner[c]] = c /\ pc[owner[c]] \in Held

Waiters(c) == {t \in Threads : on[t] = c /\ pc[t] \in Waiting}

(* cond->count is the number of threads between their entry in the map and *)
(* their removal from it, however they interleave.                         *)
CountIsWaiters == \A c \in Conds : count[c] = Cardinality(Waiters(c))

Queued(m) == \E q \in Queues : Listed(queue[q], m)
InHand(m) == \E t \in Threads : hand[t] = m

(* Messages are conserved: what was posted is on one queue once, in the    *)
(* hands of one worker, handled once, or written off with its queue, and   *)
(* never two of these.  No cache is freed twice, and no worker obeys a     *)
(* TM_EXIT a second time.                                                  *)
EachMessageOnce ==
  /\ \A m \in posted :
       Cardinality({q \in Queues : Listed(queue[q], m)})
       + Cardinality({t \in Threads : hand[t] = m})
       + done[m] + (IF m \in lost THEN 1 ELSE 0) = 1
  /\ \A m \in Message \ posted :
       ~ Queued(m) /\ ~ InHand(m) /\ done[m] = 0 /\ m \notin lost
  /\ \A q \in Queues : Distinct(queue[q])

Alive(t) == pc[t] \notin {"unborn", "exited"}

Users(q) == {t \in Threads : QueueOf(t) = q /\ Alive(t)}

(* usage_count is the number of threads that still read from the queue, so *)
(* queue_destroy never runs under a worker.                                *)
UsageIsUsers == \A q \in Queues : usage[q] = Cardinality(Users(q))

ExitsFor(q) == {m \in Message : m.kind = "TM_EXIT" /\ m.of \in Threads /\ QueueOf(m.of) = q}

(* Until _os_exit destroys it, thd_list holds the main thread and every    *)
(* worker from its creation to its exit, each once: _os_exit sees all that *)
(* is running, and a worker that leaves deletes an entry that is there.    *)
ThdListIsAlive ==
  mpc # "down" =>
    /\ Listed(thdList, Main)
    /\ \A t \in Threads : Listed(thdList, t) <=> Alive(t)
    /\ Distinct(thdList)

(* When _os_exit waits, every thread it waits for that is still there has  *)
(* a TM_EXIT of its own to find: as many are on their way on its queue as  *)
(* threads noted there are left.                                           *)
EnoughExits ==
  mpc = "joining" =>
    \A q \in Queues :
      Cardinality({t \in Stopped : QueueOf(t) = q /\ pc[t] # "exited"})
        <= Cardinality({m \in ExitsFor(q) : Queued(m) \/ InHand(m)})

(* No worker handles a message before _os_init_complete.                   *)
NoWorkBeforeInit == (\E m \in Message : done[m] > 0) => inited

(* Some worker gets past the gate once _os_init_complete has been called. *)
(* Not every one: a worker between the release of init_lock and its wait   *)
(* misses the event if another one resets it first.                        *)
SomeWorkerStarts ==
  inited ~> (\E t \in Threads : on[t] # InitCond) \/ ~ Running

(* A thread that comes to the gate after _os_init_complete gets to its     *)
(* start routine, unless it is stopped first: the message is there before  *)
(* it starts to look.                                                      *)
LateThreadRuns ==
  \A t \in Solo :
    (inited /\ pc[t] = "enter" /\ on[t] = InitCond)
      ~> (hand[t] = Exec(t) \/ done[Exec(t)] > 0 \/ pc[t] = "exited" \/ ~ Running)

(* _os_exit comes to an end.  osapi.c: "Wait for all the threads to exit". *)
ExitCompletes == mpc = "joining" ~> ~ Running
=============================================================================
