----------------------------- MODULE JavaMonitor -----------------------------
(***************************************************************************)
(* The monitor of one Java object as Jvmrt.c implements it: its lock, its  *)
(* entry set and its wait set, and the suspension of threads in osapi.c,   *)
(* where an event per thread is kept in a dictionary.                      *)
(*                                                                         *)
(* Each call is one critical section of _jmoGExclCodeMutex, but the mutex  *)
(* is passed by value: every call locks a copy of its own and excludes     *)
(* nobody.  Overlap says whether calls of two threads do overlap; without  *)
(* it only the schedules are considered in which they happen not to, which *)
(* shows what the calls themselves do.  All threads have one priority.     *)
(*                                                                         *)
(* JvmWait leaves the backward link of its node as the allocator left it,  *)
(* and a notify that finds a single waiter follows it.  What it then       *)
(* writes is taken to hit nothing this module keeps; the wait set is wild  *)
(* from there on, until a notifyAll empties it.                            *)
(***************************************************************************)
EXTENDS Integers, FiniteSets, Sequences

CONSTANTS Threads, NIL,
          Garbage,   \* what an uninitialised or a freed pointer holds
          Overlap,   \* calls of several threads may be in progress at once
          MaxDepth,  \* bound: locks a thread takes on the object
          MaxWaits   \* bound: waits on the object, in all

VARIABLES
  owner,       \* pjlLock->pjtsOwnerThread
  lockCount,   \* pjlLock->jwLockCount
  threadCount, \* pjlLock->jwThreadCount
  entry,       \* the entry set: its first and its last thread
  waitset,     \* the wait set: first, last, and next and prev of the nodes
  event,       \* the event of a thread: "none", "clear" or "set"
  at,          \* where each thread is
  saw,         \* the owner read by a thread inside JvmAcquireLock
  depth,       \* history: locks a thread has taken and neither released nor
               \* given up by a wait
  waits,       \* history: waits on this object so far
  cut,         \* history: a notify has followed an uninitialised link
  crashed      \* a null or wild pointer, or an assertion, ended the process

vars == << owner, lockCount, threadCount, entry, waitset, event, at, saw, depth, waits, cut, crashed >>

ASSUME MonitorAssumption ==
  /\ IsFiniteSet(Threads) /\ NIL \notin Threads /\ Garbage \notin Threads \cup {NIL}
  /\ Overlap \in BOOLEAN
  /\ MaxDepth \in Nat /\ MaxWaits \in Nat

EmptySet == [first |-> NIL, last |-> NIL,
             next |-> [t \in Threads |-> NIL], prev |-> [t \in Threads |-> NIL]]

\* First and last are freed nodes or garbage, and so is what they lead to.
WildSet == [first |-> Garbage, last |-> Garbage,
            next |-> [t \in Threads |-> Garbage], prev |-> [t \in Threads |-> Garbage]]

Init ==
  /\ owner = NIL
  /\ lockCount = 0
  /\ threadCount = 0
  /\ entry = [first |-> NIL, last |-> NIL]
  /\ waitset = EmptySet
  /\ event = [t \in Threads |-> "none"]
  /\ at = [t \in Threads |-> "run"]
  /\ saw = [t \in Threads |-> NIL]
  /\ depth = [t \in Threads |-> 0]
  /\ waits = 0
  /\ cut = FALSE
  /\ crashed = FALSE

\* The steps of a call that its critical section spans.
InCall == {"take", "block", "handover", "prepare", "stuck"}

Quiet == Overlap \/ \A t \in Threads : at[t] \notin InCall

\* Thread t is outside the monitor code and makes a call.
Calls(t) == ~ crashed /\ at[t] = "run" /\ Quiet

At(t, step) == ~ crashed /\ at[t] = step

Goes(t, step) == at' = [at EXCEPT ![t] = step]

\* JvmSysResumeThread: without an event there is nobody to wake.
Resumed(ev, t) == [ev EXCEPT ![t] = IF @ = "none" THEN @ ELSE "set"]

-----------------------------------------------------------------------------
(* JvmAcquireLock                                                          *)

ReadOwner(t) ==
  /\ IF owner \in {NIL, t} THEN Goes(t, "take") ELSE Goes(t, "block")
  /\ saw' = [saw EXCEPT ![t] = owner]
  /\ UNCHANGED << owner, lockCount, threadCount, entry, waitset, event, depth, waits, cut, crashed >>

\* A thread that has been resumed calls JvmAcquireLock again from within.
Enter(t) ==
  /\ ~ crashed /\ Quiet
  /\ at[t] = "run" => depth[t] < MaxDepth
  /\ at[t] \in {"run", "again"}
  /\ ReadOwner(t)

Take(t) ==
  /\ At(t, "take")
  /\ threadCount' = IF saw[t] = NIL THEN threadCount + 1 ELSE threadCount
  /\ owner' = t
  /\ lockCount' = lockCount + 1
  /\ depth' = [depth EXCEPT ![t] = @ + 1]
  /\ saw' = [saw EXCEPT ![t] = NIL]
  /\ Goes(t, "run")
  /\ UNCHANGED << entry, waitset, event, waits, cut, crashed >>

\* Faulty: the node made for t is the one put at the end of the entry set.
EntrySetWithNode(t) ==
  [first |-> IF entry.last = NIL THEN t ELSE entry.first, last |-> t]

\* The node made for t is dropped for the one the entry set ends with.
EntrySetWith(t) ==
  [first |-> IF entry.last = NIL THEN entry.last ELSE entry.first, last |-> entry.last]

\* JvmSysPrepareToSuspendThread makes the event the thread then waits for.
Block(t) ==
  /\ At(t, "block")
  /\ entry' = EntrySetWith(t)
  /\ event' = [event EXCEPT ![t] = "clear"]
  /\ saw' = [saw EXCEPT ![t] = NIL]
  /\ Goes(t, "blocked")
  /\ UNCHANGED << owner, lockCount, threadCount, waitset, depth, waits, cut, crashed >>

\* Where a suspended thread goes on: JvmWait returns and does not take the
\* lock again.
After == [blocked |-> "again", waiting |-> "run"]

\* JvmSysSuspendThread returns, JvmSysSuspendThreadCleanUp drops the event.
Wake(t) ==
  /\ ~ crashed /\ at[t] \in DOMAIN After /\ event[t] = "set" /\ Quiet
  /\ event' = [event EXCEPT ![t] = "none"]
  /\ Goes(t, After[at[t]])
  /\ UNCHANGED << owner, lockCount, threadCount, entry, waitset, saw, depth, waits, cut, crashed >>

-----------------------------------------------------------------------------
(* JvmReleaseLock                                                          *)

\* JVM_FALSE: IllegalMonitorStateException.
ExitRefused(t) ==
  /\ Calls(t) /\ owner # t
  /\ UNCHANGED vars

\* Faulty: the lock is given up at once, however often it was taken.
ExitAtOnce(t) ==
  /\ Calls(t) /\ owner = t
  /\ lockCount' = 0
  /\ owner' = NIL
  /\ threadCount' = threadCount - 1
  /\ depth' = [depth EXCEPT ![t] = @ - 1]
  /\ Goes(t, "handover")
  /\ UNCHANGED << entry, waitset, event, saw, waits, cut, crashed >>

Exit(t) ==
  /\ Calls(t) /\ owner = t
  /\ lockCount' = lockCount - 1
  /\ IF lockCount = 1
     THEN owner' = NIL /\ threadCount' = threadCount - 1
     ELSE UNCHANGED << owner, threadCount >>
  /\ depth' = [depth EXCEPT ![t] = @ - 1]
  /\ Goes(t, "handover")
  /\ UNCHANGED << entry, waitset, event, saw, waits, cut, crashed >>

\* Faulty: the selected node is only used if there is one.
HandOverChecked(t) ==
  /\ At(t, "handover")
  /\ IF threadCount = 0 \/ entry.first = NIL
     THEN UNCHANGED << entry, event >>
     ELSE /\ entry' = [entry EXCEPT !.first = NIL]
          /\ event' = Resumed(event, entry.first)
  /\ Goes(t, "run")
  /\ UNCHANGED << owner, lockCount, threadCount, waitset, saw, depth, waits, cut, crashed >>

\* With threads left, the first of the entry set is resumed; the node is not
\* checked for NULL.  (An entry set with nodes never has two of them.)
HandOver(t) ==
  /\ At(t, "handover")
  /\ IF threadCount # 0 /\ entry.first = NIL
     THEN crashed' = TRUE /\ UNCHANGED << entry, event, at >>
     ELSE /\ IF threadCount = 0 THEN UNCHANGED << entry, event >>
             ELSE /\ entry' = [entry EXCEPT !.first = NIL]
                  /\ event' = Resumed(event, entry.first)
          /\ Goes(t, "run")
          /\ UNCHANGED crashed
  /\ UNCHANGED << owner, lockCount, threadCount, waitset, saw, depth, waits, cut >>

-----------------------------------------------------------------------------
(* JvmWait, JvmNotify, JvmNotifyAll: without the lock they throw and do    *)
(* nothing else, which ExitRefused stands for.                             *)

\* A node in front of the wait set.  Its own backward link is never set.
Pushed(t) ==
  LET f == waitset.first
  IN  IF waitset = WildSet THEN WildSet
      ELSE [first |-> t,
            last  |-> IF f = NIL THEN t ELSE waitset.last,
            next  |-> [waitset.next EXCEPT ![t] = f],
            prev  |-> [u \in Threads |-> IF u = f THEN t ELSE IF u = t THEN Garbage ELSE waitset.prev[u]]]

\* Faulty: the thread no longer counts for the lock.
WaitUncounted(t) ==
  /\ Calls(t) /\ owner = t /\ waits < MaxWaits
  /\ owner' = NIL /\ lockCount' = 0 /\ threadCount' = threadCount - 1
  /\ depth' = [depth EXCEPT ![t] = 0]
  /\ waits' = waits + 1
  /\ waitset' = Pushed(t)
  /\ Goes(t, "prepare")
  /\ UNCHANGED << entry, event, saw, cut, crashed >>

\* The lock is given up, jwThreadCount is not.  The count saved in the thread
\* is never read again.
Wait(t) ==
  /\ Calls(t) /\ owner = t /\ waits < MaxWaits
  /\ owner' = NIL
  /\ lockCount' = 0
  /\ depth' = [depth EXCEPT ![t] = 0]
  /\ waits' = waits + 1
  /\ waitset' = Pushed(t)
  /\ Goes(t, "prepare")
  /\ UNCHANGED << threadCount, entry, event, saw, cut, crashed >>

\* Faulty: no event for the thread to wait on.
PrepareNothing(t) ==
  /\ At(t, "prepare")
  /\ Goes(t, "waiting")
  /\ UNCHANGED << owner, lockCount, threadCount, entry, waitset, event, saw, depth, waits, cut, crashed >>

Prepare(t) ==
  /\ At(t, "prepare")
  /\ event' = [event EXCEPT ![t] = "clear"]
  /\ Goes(t, "waiting")
  /\ UNCHANGED << owner, lockCount, threadCount, entry, waitset, saw, depth, waits, cut, crashed >>

\* Thread t has the lock, and somebody waits.
Notifies(t) == Calls(t) /\ owner = t /\ waitset.first # NIL

\* Faulty: the node that is now the last keeps its successor.
NotifyKeepsNext(t) ==
  LET l == waitset.last
      p == waitset.prev[l]
  IN  /\ Notifies(t) /\ waitset # WildSet /\ p # Garbage
      /\ waitset' = [waitset EXCEPT !.last = p, !.prev[l] = NIL]
      /\ event' = Resumed(event, l)
      /\ UNCHANGED << owner, lockCount, threadCount, entry, at, saw, depth, waits, cut, crashed >>

\* The last node goes.  The only node there is has no predecessor but
\* garbage: the code writes through it and makes it the last.
Notify(t) ==
  LET l == waitset.last
      p == waitset.prev[l]
  IN  /\ Notifies(t) /\ waitset # WildSet
      /\ IF p = Garbage
         THEN waitset' = WildSet /\ cut' = TRUE
         ELSE /\ waitset' = [waitset EXCEPT !.last = p, !.next[p] = NIL, !.prev[l] = NIL]
              /\ UNCHANGED cut
      /\ event' = Resumed(event, l)
      /\ UNCHANGED << owner, lockCount, threadCount, entry, at, saw, depth, waits, crashed >>

\* The last of a wild set: what is read there names one of the threads or none.
NotifyWild(t) ==
  /\ Notifies(t) /\ waitset = WildSet
  /\ \E u \in Threads : event' \in {event, Resumed(event, u)}
  /\ UNCHANGED << owner, lockCount, threadCount, entry, waitset, at, saw, depth, waits, cut, crashed >>

\* A build with JVM_DEBUG stops here, whoever waits: it asserts that no
\* priority has a waiter.  Any build may stop at garbage that cannot be
\* followed, as JvmWait and JvmNotifyAll may on a wild set.
NotifyStops(t) ==
  /\ Notifies(t)
  /\ crashed' = TRUE
  /\ UNCHANGED << owner, lockCount, threadCount, entry, waitset, event, at, saw, depth, waits, cut >>

\* The nodes reached from f along next.
Chain(f) ==
  LET reach[n \in 0 .. Cardinality(Threads)] ==
        IF n = 0 THEN << >>
        ELSE LET s == reach[n - 1]
                 x == IF s = << >> THEN f ELSE waitset.next[s[Len(s)]]
             IN  IF x = NIL \/ Len(s) < n - 1 THEN s ELSE Append(s, x)
  IN  reach[Cardinality(Threads)]

Waiters == {Chain(waitset.first)[i] : i \in 1 .. Len(Chain(waitset.first))}

AllResumed(R) == [u \in Threads |-> IF u \in R THEN Resumed(event, u)[u] ELSE event[u]]

\* All nodes are unlinked from the front and their threads resumed.
NotifyAll(t) ==
  /\ Notifies(t) /\ waitset # WildSet
  /\ waitset' = EmptySet
  /\ event' = AllResumed(Waiters)
  /\ UNCHANGED << owner, lockCount, threadCount, entry, at, saw, depth, waits, cut, crashed >>

\* Any threads may be named on the way through a wild set, which comes to an
\* end or runs in a circle.
NotifyAllWild(t) ==
  /\ Notifies(t) /\ waitset = WildSet
  /\ \E R \in SUBSET Threads : event' = AllResumed(R)
  /\ \/ waitset' = EmptySet /\ UNCHANGED at
     \/ Goes(t, "stuck") /\ UNCHANGED waitset
  /\ UNCHANGED << owner, lockCount, threadCount, entry, saw, depth, waits, cut, crashed >>

\* What a thread does inside a call it has begun.
GoesOn(t) ==
  Take(t) \/ Block(t) \/ Wake(t) \/ HandOver(t) \/ Prepare(t)

Next == \E t \in Threads :
  \/ GoesOn(t) \/ Enter(t) \/ ExitRefused(t) \/ Exit(t) \/ Wait(t)
  \/ Notify(t) \/ NotifyWild(t) \/ NotifyStops(t) \/ NotifyAll(t) \/ NotifyAllWild(t)

\* A thread inside a call is not held up by the scheduler for ever, nor is one
\* whose event is set: it waits for nobody, and only finds calls of others in
\* progress now and then.
Spec == Init /\ [][Next]_vars
          /\ \A t \in Threads : WF_vars(GoesOn(t)) /\ SF_vars(Wake(t))
                               /\ WF_vars(at[t] = "again" /\ Enter(t))

-----------------------------------------------------------------------------
Pointers == Threads \cup {NIL, Garbage}

TypeOK ==
  /\ owner \in Threads \cup {NIL}
  /\ lockCount \in Nat /\ threadCount \in Nat
  /\ entry \in [first : Threads \cup {NIL}, last : Threads \cup {NIL}]
  /\ waitset \in [first : Pointers, last : Pointers,
                  next : [Threads -> Pointers], prev : [Threads -> Pointers]]
  /\ event \in [Threads -> {"none", "clear", "set"}]
  /\ at \in [Threads -> InCall \cup {"run", "blocked", "waiting", "again"}]
  /\ saw \in [Threads -> Threads \cup {NIL}]
  /\ depth \in [Threads -> Nat]
  /\ waits \in Nat
  /\ cut \in BOOLEAN /\ crashed \in BOOLEAN

(* The lock belongs to one thread and counts that thread's own levels: no  *)
(* other thread is inside.  It holds while calls do not overlap and fails  *)
(* as soon as they do, because the mutex around them excludes nobody.      *)
MonitorExcludes ==
  \A t \in Threads : IF owner = t THEN lockCount = depth[t] /\ depth[t] > 0 ELSE depth[t] = 0

(* The count of threads at the lock is the owner and, for ever after,      *)
(* every wait there has been: a wait gives the lock up but stays counted.  *)
ThreadCountDrifts == threadCount = waits + (IF owner = NIL THEN 0 ELSE 1)

(* The wait set is a list with backward links, except that its first node  *)
(* has none of its own: unless a notify has followed that one and nothing  *)
(* has emptied the set since.  Its threads are all unanswered; and until a *)
(* notify has done that they are all who wait unanswered.                  *)
WaitSetIsAList ==
  LET c == Chain(waitset.first)
      Unanswered(t) == at[t] = "prepare" \/ (at[t] = "waiting" /\ event[t] # "set")
  IN  /\ TypeOK
      /\ waitset = WildSet => cut
      /\ waitset # WildSet =>
           /\ waitset.first = NIL <=> waitset.last = NIL
           /\ c # << >> => c[Len(c)] = waitset.last /\ waitset.prev[c[1]] = Garbage
           /\ \A i \in 1 .. Len(c) - 1 : waitset.prev[c[i + 1]] = c[i]
           /\ \A t \in Waiters : Unanswered(t)
           /\ cut \/ \A t \in Threads : Unanswered(t) => t \in Waiters

(* A thread that finds the lock taken never comes back from                *)
(* JvmAcquireLock: it is in no list, so that no release can resume it.     *)
(* (Once the wait set is cut a notify may resume anybody.)                 *)
BlockedForEver == [][\A t \in Threads : at[t] = "blocked" /\ ~ cut => at'[t] = "blocked"]_vars

(* JvmReleaseLock only returns to a thread that had taken the lock once,   *)
(* on an object nobody has ever waited on; else it follows a null pointer. *)
ReleaseReturnsOnlyOnce ==
  [][\A t \in Threads : at[t] = "handover" /\ at'[t] = "run" => owner = NIL /\ waits = 0]_vars

(* A waiter that is taken off the wait set does wake up, unless a notifyAll*)
(* never comes to an end.                                                  *)
NotifiedWakes ==
  LET Over == crashed \/ \E u \in Threads : at[u] = "stuck"
  IN  \A t \in Threads :
        at[t] = "waiting" /\ (event[t] = "set" \/ (~ cut /\ t \notin Waiters)) ~> at[t] = "run" \/ Over
=============================================================================
