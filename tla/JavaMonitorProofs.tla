------------------------- MODULE JavaMonitorProofs -------------------------
(***************************************************************************)
(* What the monitor of an object does while calls do not overlap, for any  *)
(* number of threads, locks and waits.                                     *)
(*                                                                         *)
(* MonitorExcludes and ThreadCountDrifts are not inductive: JvmAcquireLock *)
(* reads the owner in one step and acts on it in another.  That no other   *)
(* thread is inside a call meanwhile, and so the owner read is still the   *)
(* owner, is what Overlap = FALSE stands for and what Alone and SawOwner   *)
(* carry along.  NobodyQueued, that the entry set never has a node, turns  *)
(* the count of threads into the outcome of a release.                     *)
(*                                                                         *)
(* The wait set needs a second invariant, SetInv: that pointers of         *)
(* neighbours agree would still allow a ring besides the list, so Listed   *)
(* says that some sequence of threads is the whole of it, and EventsOK     *)
(* that only a thread on it can be resumed.  Both end with the notify that *)
(* follows an uninitialised link; Listed takes up again with the next      *)
(* notifyAll that empties the set.                                         *)
(***************************************************************************)
EXTENDS JavaMonitor, FiniteSetTheorems, WellFoundedInduction, TLAPS

Steps == InCall \cup {"run", "blocked", "waiting", "again"}

Types ==
  /\ owner \in Threads \cup {NIL}
  /\ lockCount \in Int /\ threadCount \in Int /\ waits \in Nat
  /\ at \in [Threads -> Steps]
  /\ saw \in [Threads -> Threads \cup {NIL}]
  /\ depth \in [Threads -> Nat]

\* One thread at a time is inside a call.
Alone == \A t, u \in Threads : at[t] \in InCall /\ at[u] \in InCall => t = u

\* The owner a thread goes by is still the owner.
SawOwner == \A t \in Threads : at[t] = "take" => saw[t] = owner /\ owner \in {NIL, t}

FreeIsUnlocked == owner = NIL => lockCount = 0

NobodyQueued == entry = [first |-> NIL, last |-> NIL]

Inv ==
  /\ Types /\ Alone /\ SawOwner /\ FreeIsUnlocked /\ NobodyQueued
  /\ MonitorExcludes /\ ThreadCountDrifts

LEMMA NilIsNoThread == NIL \notin Threads
  BY MonitorAssumption

LEMMA GarbageIsNothing == Garbage \notin Threads \cup {NIL}
  BY MonitorAssumption

LEMMA InitInv ==
  ASSUME Init
  PROVE  Inv
  BY NilIsNoThread DEF Init, Inv, Types, Alone, SawOwner, FreeIsUnlocked, NobodyQueued,
     MonitorExcludes, ThreadCountDrifts, InCall, Steps

\* A thread in a step of a call is the only one.
LEMMA OthersAreOut ==
  ASSUME Alone, NEW t \in Threads, at[t] \in InCall
  PROVE  \A u \in Threads \ {t} : at[u] \notin InCall
  BY DEF Alone

\* The calls a thread begins, or comes back to, find nobody else inside.
LEMMA QuietIsQuiet ==
  ASSUME ~ Overlap, Quiet
  PROVE  \A u \in Threads : at[u] \notin InCall
  BY DEF Quiet

\* While the only thread that may be inside a call moves on, and neither the
\* owner nor what is counted changes, the invariant is kept.
LEMMA MovesOn ==
  ASSUME Inv, NEW t \in Threads, \A u \in Threads \ {t} : at[u] \notin InCall,
         NEW step \in Steps, Goes(t, step),
         NEW s \in Threads \cup {NIL}, saw' = [saw EXCEPT ![t] = s],
         step = "take" => s = owner /\ owner \in {NIL, t},
         UNCHANGED << owner, lockCount, threadCount, depth, waits >>,
         NobodyQueued'
  PROVE  Inv'
  <1>1. /\ at' = [at EXCEPT ![t] = step] /\ at \in [Threads -> Steps]
        /\ saw \in [Threads -> Threads \cup {NIL}]
    BY DEF Goes, Inv, Types
  <1>2. Types'
    BY <1>1 DEF Inv, Types
  <1>3. Alone'
    BY <1>1 DEF Alone
  <1>4. SawOwner'
    BY <1>1 DEF SawOwner, InCall
  <1>5. FreeIsUnlocked' /\ MonitorExcludes' /\ ThreadCountDrifts'
    BY DEF Inv, FreeIsUnlocked, MonitorExcludes, ThreadCountDrifts
  <1> QED BY <1>2, <1>3, <1>4, <1>5 DEF Inv

\* The same without a look at the owner.
LEMMA MovesOnUnseen ==
  ASSUME Inv, NEW t \in Threads, \A u \in Threads \ {t} : at[u] \notin InCall,
         NEW step \in Steps \ {"take"}, Goes(t, step),
         UNCHANGED << owner, lockCount, threadCount, depth, waits, saw >>,
         NobodyQueued'
  PROVE  Inv'
  <1>1. saw[t] \in Threads \cup {NIL} /\ saw' = [saw EXCEPT ![t] = saw[t]]
    BY DEF Inv, Types
  <1> QED BY <1>1, MovesOn

-----------------------------------------------------------------------------
(* JvmAcquireLock                                                          *)

LEMMA ReadOwnerKeeps ==
  ASSUME Inv, NEW t \in Threads, \A u \in Threads \ {t} : at[u] \notin InCall, ReadOwner(t)
  PROVE  Inv'
  <1>1. owner \in Threads \cup {NIL} /\ NobodyQueued'
    BY DEF ReadOwner, Inv, Types, NobodyQueued
  <1>2. "take" \in Steps /\ "block" \in Steps
    BY DEF Steps, InCall
  <1>3. CASE owner \in {NIL, t}
    BY <1>1, <1>2, <1>3, MovesOn DEF ReadOwner
  <1>4. CASE owner \notin {NIL, t}
    BY <1>1, <1>2, <1>4, MovesOn DEF ReadOwner
  <1> QED BY <1>3, <1>4

LEMMA TakeKeeps ==
  ASSUME Inv, NEW t \in Threads, Take(t)
  PROVE  Inv'
  <1>1. at[t] = "take" /\ saw[t] = owner /\ owner \in {NIL, t}
    BY DEF Take, At, Inv, SawOwner
  <1>2. \A u \in Threads \ {t} : at[u] \notin InCall
    BY <1>1, OthersAreOut DEF Inv, InCall
  <1>3. /\ owner' = t /\ lockCount' = lockCount + 1 /\ waits' = waits /\ entry' = entry
        /\ threadCount' = IF owner = NIL THEN threadCount + 1 ELSE threadCount
        /\ depth' = [depth EXCEPT ![t] = @ + 1]
        /\ saw' = [saw EXCEPT ![t] = NIL] /\ at' = [at EXCEPT ![t] = "run"]
    BY <1>1 DEF Take, Goes
  <1>4. Types'
    BY <1>3 DEF Inv, Types, Steps
  <1>5. Alone' /\ SawOwner'
    BY <1>2, <1>3 DEF Inv, Types, Alone, SawOwner, InCall
  <1>6. FreeIsUnlocked' /\ NobodyQueued'
    BY <1>3, NilIsNoThread DEF Inv, FreeIsUnlocked, NobodyQueued
  <1>7. MonitorExcludes'
    <2>1. depth \in [Threads -> Nat] /\ lockCount \in Int
      BY DEF Inv, Types
    <2>2. depth[t] = lockCount
      BY <1>1, NilIsNoThread DEF Inv, MonitorExcludes, FreeIsUnlocked
    <2>3. \A u \in Threads \ {t} : depth[u] = 0
      BY <1>1, NilIsNoThread DEF Inv, MonitorExcludes
    <2> QED BY <1>3, <2>1, <2>2, <2>3 DEF MonitorExcludes
  <1>8. ThreadCountDrifts'
    BY <1>1, <1>3, NilIsNoThread DEF Inv, Types, ThreadCountDrifts
  <1> QED BY <1>4, <1>5, <1>6, <1>7, <1>8 DEF Inv

LEMMA BlockKeeps ==
  ASSUME Inv, NEW t \in Threads, Block(t)
  PROVE  Inv'
  <1>1. at[t] = "block" /\ saw' = [saw EXCEPT ![t] = NIL] /\ Goes(t, "blocked")
        /\ UNCHANGED << owner, lockCount, threadCount, depth, waits >>
    BY DEF Block, At
  <1>2. \A u \in Threads \ {t} : at[u] \notin InCall
    BY <1>1, OthersAreOut DEF Inv, InCall
  <1>3. NobodyQueued'
    BY DEF Block, EntrySetWith, Inv, NobodyQueued
  <1>4. "blocked" \in Steps /\ NIL \in Threads \cup {NIL} /\ "blocked" # "take"
    BY DEF Steps
  <1> QED BY <1>1, <1>2, <1>3, <1>4, MovesOn

LEMMA WakeKeeps ==
  ASSUME ~ Overlap, Inv, NEW t \in Threads, Wake(t)
  PROVE  Inv'
  <1>1. /\ Goes(t, After[at[t]]) /\ NobodyQueued' /\ Quiet
        /\ UNCHANGED << owner, lockCount, threadCount, depth, waits, saw >>
    BY DEF Wake, Inv, NobodyQueued
  <1>2. After[at[t]] \in {"again", "run"}
    BY DEF Wake, After
  <1>3. {"again", "run"} \subseteq Steps \ {"take"}
    BY DEF Steps
  <1> QED BY <1>1, <1>2, <1>3, QuietIsQuiet, MovesOnUnseen

-----------------------------------------------------------------------------
(* JvmReleaseLock, JvmWait, JvmNotify and JvmNotifyAll                     *)

LEMMA ExitKeeps ==
  ASSUME ~ Overlap, Inv, NEW t \in Threads, Exit(t)
  PROVE  Inv'
  <1>1. /\ owner = t /\ lockCount' = lockCount - 1 /\ waits' = waits /\ entry' = entry /\ saw' = saw
        /\ \/ lockCount = 1 /\ owner' = NIL /\ threadCount' = threadCount - 1
           \/ lockCount # 1 /\ owner' = owner /\ threadCount' = threadCount
        /\ depth' = [depth EXCEPT ![t] = @ - 1] /\ at' = [at EXCEPT ![t] = "handover"]
    BY DEF Exit, Goes
  <1>2. \A u \in Threads : at[u] \notin InCall
    BY QuietIsQuiet DEF Exit, Calls
  <1>3. lockCount = depth[t] /\ depth[t] > 0 /\ \A u \in Threads \ {t} : depth[u] = 0
    BY <1>1 DEF Inv, MonitorExcludes
  <1>4. Types'
    <2>1. depth[t] - 1 \in Nat
      BY <1>3 DEF Inv, Types
    <2> QED BY <1>1, <2>1 DEF Inv, Types, Steps, InCall
  <1>5. Alone' /\ SawOwner'
    BY <1>1, <1>2 DEF Inv, Types, Alone, SawOwner, InCall
  <1>6. FreeIsUnlocked' /\ NobodyQueued'
    BY <1>1, NilIsNoThread DEF Inv, Types, FreeIsUnlocked, NobodyQueued
  <1>7. MonitorExcludes'
    BY <1>1, <1>3, NilIsNoThread DEF Inv, Types, MonitorExcludes
  <1>8. ThreadCountDrifts'
    BY <1>1, NilIsNoThread DEF Inv, Types, ThreadCountDrifts
  <1> QED BY <1>4, <1>5, <1>6, <1>7, <1>8 DEF Inv

LEMMA HandOverKeeps ==
  ASSUME Inv, NEW t \in Threads, HandOver(t)
  PROVE  Inv'
  <1>1. at[t] = "handover" /\ entry.first = NIL
    BY DEF HandOver, At, Inv, NobodyQueued
  <1>2. \A u \in Threads \ {t} : at[u] \notin InCall
    BY <1>1, OthersAreOut DEF Inv, InCall
  <1>3. /\ UNCHANGED << owner, lockCount, threadCount, depth, waits, saw >>
        /\ NobodyQueued'
        /\ at' = at \/ Goes(t, "run")
    BY <1>1 DEF HandOver, Inv, NobodyQueued
  <1>4. CASE Goes(t, "run")
    <2>1. "run" \in Steps \ {"take"}
      BY DEF Steps
    <2> QED BY <1>2, <1>3, <1>4, <2>1, MovesOnUnseen
  <1>5. CASE at' = at
    BY <1>3, <1>5 DEF Inv, Types, Alone, SawOwner, FreeIsUnlocked, MonitorExcludes, ThreadCountDrifts
  <1> QED BY <1>3, <1>4, <1>5

LEMMA WaitKeeps ==
  ASSUME ~ Overlap, Inv, NEW t \in Threads, Wait(t)
  PROVE  Inv'
  <1>1. /\ owner = t /\ owner' = NIL /\ lockCount' = 0 /\ waits' = waits + 1
        /\ threadCount' = threadCount /\ entry' = entry /\ saw' = saw
        /\ depth' = [depth EXCEPT ![t] = 0] /\ at' = [at EXCEPT ![t] = "prepare"]
    BY DEF Wait, Goes
  <1>2. \A u \in Threads : at[u] \notin InCall
    BY QuietIsQuiet DEF Wait, Calls
  <1>3. Types'
    BY <1>1 DEF Inv, Types, Steps, InCall
  <1>4. Alone' /\ SawOwner'
    BY <1>1, <1>2 DEF Inv, Types, Alone, SawOwner, InCall
  <1>5. FreeIsUnlocked' /\ NobodyQueued'
    BY <1>1 DEF Inv, FreeIsUnlocked, NobodyQueued
  <1>6. MonitorExcludes'
    BY <1>1, NilIsNoThread DEF Inv, Types, MonitorExcludes
  <1>7. ThreadCountDrifts'
    BY <1>1, NilIsNoThread DEF Inv, Types, ThreadCountDrifts
  <1> QED BY <1>3, <1>4, <1>5, <1>6, <1>7 DEF Inv

LEMMA PrepareKeeps ==
  ASSUME Inv, NEW t \in Threads, Prepare(t)
  PROVE  Inv'
  <1>1. /\ at[t] = "prepare" /\ Goes(t, "waiting") /\ NobodyQueued'
        /\ UNCHANGED << owner, lockCount, threadCount, depth, waits, saw >>
    BY DEF Prepare, At, Inv, NobodyQueued
  <1>2. \A u \in Threads \ {t} : at[u] \notin InCall
    BY <1>1, OthersAreOut DEF Inv, InCall
  <1>3. "waiting" \in Steps \ {"take"}
    BY DEF Steps
  <1> QED BY <1>1, <1>2, <1>3, MovesOnUnseen

\* Notifications change the wait set and events only.
LEMMA NotifyKeeps ==
  ASSUME Inv, UNCHANGED << owner, lockCount, threadCount, entry, at, saw, depth, waits >>
  PROVE  Inv'
  BY DEF Inv, Types, Alone, SawOwner, FreeIsUnlocked, NobodyQueued, MonitorExcludes, ThreadCountDrifts

-----------------------------------------------------------------------------
LEMMA NextInv ==
  ASSUME ~ Overlap, Inv, [Next]_vars
  PROVE  Inv'
  <1>1. ASSUME NEW t \in Threads, Enter(t)
        PROVE  Inv'
    BY <1>1, QuietIsQuiet, ReadOwnerKeeps DEF Enter
  <1>2. ASSUME NEW t \in Threads,
               Notify(t) \/ NotifyWild(t) \/ NotifyStops(t) \/ NotifyAll(t) \/ ExitRefused(t)
        PROVE  Inv'
    BY <1>2, NotifyKeeps DEF Notify, NotifyWild, NotifyStops, NotifyAll, ExitRefused, vars
  <1>4. ASSUME NEW t \in Threads, NotifyAllWild(t)
        PROVE  Inv'
    <2>1. /\ UNCHANGED << owner, lockCount, threadCount, entry, saw, depth, waits >>
          /\ UNCHANGED at \/ Goes(t, "stuck")
      BY <1>4 DEF NotifyAllWild
    <2>2. CASE UNCHANGED at
      BY <2>1, <2>2, NotifyKeeps
    <2>3. CASE Goes(t, "stuck")
      <3>1. \A u \in Threads \ {t} : at[u] \notin InCall
        BY <1>4, QuietIsQuiet DEF NotifyAllWild, Notifies, Calls
      <3>2. "stuck" \in Steps \ {"take"} /\ NobodyQueued'
        BY <2>1 DEF Steps, InCall, Inv, NobodyQueued
      <3> QED BY <2>1, <2>3, <3>1, <3>2, MovesOnUnseen
    <2> QED BY <2>1, <2>2, <2>3
  <1>3. CASE UNCHANGED vars
    BY <1>3, NotifyKeeps DEF vars
  <1> QED BY <1>1, <1>2, <1>3, <1>4, TakeKeeps, BlockKeeps, WakeKeeps, ExitKeeps, HandOverKeeps,
             WaitKeeps, PrepareKeeps DEF Next, GoesOn

\* While the calls on one lock do not overlap the inductive invariant holds,
\* for any number of threads.
THEOREM InvHolds ==
  ASSUME ~ Overlap
  PROVE  Spec => []Inv
  <1>1. Init => Inv
    BY InitInv
  <1>2. Inv /\ [Next]_vars => Inv'
    BY NextInv
  <1> QED BY <1>1, <1>2, PTL DEF Spec

(* While calls do not overlap a monitor is held by one thread, and counts  *)
(* that thread's own locks.                                                *)
THEOREM Exclusion ==
  ASSUME ~ Overlap
  PROVE  Spec => []MonitorExcludes
  <1>1. Inv => MonitorExcludes
    BY DEF Inv
  <1> QED BY <1>1, InvHolds, PTL

(* The count of threads at the lock never comes down from a wait.          *)
THEOREM CountDrifts ==
  ASSUME ~ Overlap
  PROVE  Spec => []ThreadCountDrifts
  <1>1. Inv => ThreadCountDrifts
    BY DEF Inv
  <1> QED BY <1>1, InvHolds, PTL

(* A release on an object that somebody has ever waited on, or of a lock   *)
(* taken more than once, does not return.                                  *)
THEOREM ReleasesReturn ==
  ASSUME ~ Overlap
  PROVE  Spec => ReleaseReturnsOnlyOnce
  <1> DEFINE Returned == \A t \in Threads : at[t] = "handover" /\ at'[t] = "run" => owner = NIL /\ waits = 0
  <1>1. ASSUME Inv, Next
        PROVE  Returned
    <2> SUFFICES ASSUME NEW t \in Threads, at[t] = "handover", at'[t] = "run"
                 PROVE  owner = NIL /\ waits = 0
      OBVIOUS
    <2>1. \A u \in Threads \ {t} : at[u] \notin InCall
      BY <1>1, OthersAreOut DEF Inv, InCall
    <2>2. HandOver(t)
      <3>1. PICK u \in Threads :
              \/ GoesOn(u) \/ Enter(u) \/ ExitRefused(u) \/ Exit(u) \/ Wait(u)
              \/ Notify(u) \/ NotifyWild(u) \/ NotifyStops(u) \/ NotifyAll(u) \/ NotifyAllWild(u)
        BY <1>1 DEF Next
      <3>2. at' # at /\ ~ Quiet
        BY <1>1 DEF Quiet, InCall
      <3>3. GoesOn(u)
        BY <3>1, <3>2 DEF Enter, ExitRefused, Exit, Wait, Notify, NotifyWild, NotifyStops,
           NotifyAll, NotifyAllWild, Notifies, Calls, vars
      <3>4. Take(u) \/ Block(u) \/ HandOver(u) \/ Prepare(u)
        BY <3>2, <3>3 DEF GoesOn, Wake
      <3>5. at[u] \in InCall
        BY <3>4 DEF Take, Block, HandOver, Prepare, At, InCall
      <3>6. u = t
        BY <2>1, <3>5
      <3> QED BY <3>4, <3>6 DEF Take, Block, Prepare, At
    <2>3. entry.first = NIL /\ threadCount \in Int
      BY <1>1 DEF Inv, NobodyQueued, Types
    <2>4. threadCount = 0
      BY <2>2, <2>3 DEF HandOver
    <2>5. waits \in Nat /\ threadCount = waits + (IF owner = NIL THEN 0 ELSE 1)
      BY <1>1 DEF Inv, Types, ThreadCountDrifts
    <2> QED BY <2>4, <2>5
  <1>2. ASSUME Inv, [Next]_vars
        PROVE  [Returned]_vars
    BY <1>1, <1>2
  <1>3. Inv /\ [Next]_vars => [Returned]_vars
    BY <1>2
  <1> QED BY <1>3, InvHolds, PTL DEF Spec, ReleaseReturnsOnlyOnce

-----------------------------------------------------------------------------
(* The wait set: the list of the threads whose wait is unanswered.         *)

\* The threads whose wait has not been answered yet.
Unanswered == {t \in Threads : at[t] = "prepare" \/ (at[t] = "waiting" /\ event[t] # "set")}

\* The wait set is the list s, from its first node to its last.
Lists(s) ==
  /\ s \in Seq(Threads)
  /\ \A i \in 1 .. Len(s) : s[i] \in Unanswered
  /\ ~ cut => \A t \in Unanswered : \E i \in 1 .. Len(s) : s[i] = t
  /\ \A i, j \in 1 .. Len(s) : s[i] = s[j] => i = j
  /\ waitset.first = IF Len(s) = 0 THEN NIL ELSE s[1]
  /\ waitset.last = IF Len(s) = 0 THEN NIL ELSE s[Len(s)]
  /\ \A i \in 1 .. Len(s) : waitset.next[s[i]] = IF i < Len(s) THEN s[i + 1] ELSE NIL
  /\ \A i \in 1 .. Len(s) : waitset.prev[s[i]] = IF 1 < i THEN s[i - 1] ELSE Garbage

WaitSets == [first : Pointers, last : Pointers,
             next : [Threads -> Pointers], prev : [Threads -> Pointers]]

\* The event of a suspended thread: before the wait set is cut nobody sets
\* that of a blocked one.
EventsOK ==
  /\ event \in [Threads -> {"none", "clear", "set"}]
  /\ \A t \in Threads : at[t] = "blocked" /\ ~ cut => event[t] = "clear"
  /\ \A t \in Threads : at[t] = "waiting" => event[t] # "none"

Listed ==
  /\ waitset = WildSet => cut
  /\ waitset # WildSet => \E s \in Seq(Threads) : Lists(s)

SetInv == waitset \in WaitSets /\ EventsOK /\ Listed /\ cut \in BOOLEAN /\ crashed \in BOOLEAN

\* A set that begins with a thread or with nothing is not wild.
LEMMA Tame ==
  ASSUME NEW w, w.first \in Threads \cup {NIL}
  PROVE  w # WildSet
  BY GarbageIsNothing DEF WildSet

LEMMA InitSetInv ==
  ASSUME Init
  PROVE  SetInv
  <1>1. waitset = EmptySet /\ crashed \in BOOLEAN /\ cut \in BOOLEAN /\ EventsOK
    BY DEF Init, EventsOK
  <1>2. waitset \in WaitSets /\ waitset # WildSet
    BY <1>1, Tame DEF EmptySet, WaitSets, Pointers
  <1>3. Unanswered = {}
    BY DEF Init, Unanswered
  <1>4. Lists(<< >>) /\ << >> \in Seq(Threads)
    BY <1>1, <1>3 DEF Lists, EmptySet
  <1> QED BY <1>1, <1>2, <1>4 DEF SetInv, Listed

\* A step that answers no wait and begins none leaves the list alone.
LEMMA ListKept ==
  ASSUME Listed, waitset' = waitset, cut' = cut, Unanswered' = Unanswered
  PROVE  Listed'
  <1>1. ASSUME NEW s, Lists(s)
        PROVE  Lists(s)'
    BY <1>1 DEF Lists
  <1> QED BY <1>1 DEF Listed

\* Nodes only move within a call, the events of others are left alone.
LEMMA OneMoves ==
  ASSUME Inv, SetInv, NEW t \in Threads, NEW step \in Steps, Goes(t, step),
         waitset' = waitset, cut' = cut, crashed' = crashed,
         NEW e \in {"none", "clear", "set"}, event' = [event EXCEPT ![t] = e],
         step = "blocked" => e = "clear", step = "waiting" => e = "clear",
         t \in Unanswered <=> step = "prepare" \/ step = "waiting"
  PROVE  SetInv'
  <1>1. /\ at' = [at EXCEPT ![t] = step] /\ at \in [Threads -> Steps]
        /\ event \in [Threads -> {"none", "clear", "set"}]
    BY DEF Goes, Inv, Types, SetInv, EventsOK
  <1>2. EventsOK'
    BY <1>1 DEF SetInv, EventsOK
  <1>3. Unanswered' = Unanswered
    BY <1>1 DEF Unanswered
  <1> QED BY <1>2, <1>3, ListKept DEF SetInv

\* The same for a thread whose event is left alone.
LEMMA OneMovesOn ==
  ASSUME Inv, SetInv, NEW t \in Threads, NEW step \in Steps \ {"blocked", "waiting", "prepare"}, Goes(t, step),
         waitset' = waitset, event' = event, cut' = cut, crashed' = crashed, t \notin Unanswered
  PROVE  SetInv'
  <1>1. event[t] \in {"none", "clear", "set"} /\ event' = [event EXCEPT ![t] = event[t]]
    BY DEF SetInv, EventsOK
  <1> QED BY <1>1, OneMoves

LEMMA TakeKeepsSet ==
  ASSUME Inv, SetInv, NEW t \in Threads,
         Take(t) \/ Enter(t) \/ Exit(t)
  PROVE  SetInv'
  <1>1. at[t] \in {"take", "run", "again"} /\ waitset' = waitset /\ event' = event
        /\ cut' = cut /\ crashed' = crashed
    BY DEF Take, Enter, ReadOwner, Exit, At, Calls
  <1>2. PICK step \in {"take", "run", "block", "handover"} : Goes(t, step)
    BY DEF Take, Enter, ReadOwner, Exit
  <1>3. t \notin Unanswered /\ step \in Steps \ {"blocked", "waiting", "prepare"}
    BY <1>1 DEF Unanswered, Steps, InCall
  <1> QED BY <1>1, <1>2, <1>3, OneMovesOn

LEMMA BlockKeepsSet ==
  ASSUME Inv, SetInv, NEW t \in Threads, Block(t) 
  PROVE  SetInv'
  <1>1. at[t] = "block" /\ waitset' = waitset /\ cut' = cut /\ crashed' = crashed /\ Goes(t, "blocked")
        /\ event' = [event EXCEPT ![t] = "clear"]
    BY DEF Block, At
  <1>2. t \notin Unanswered /\ "blocked" \in Steps
    BY <1>1 DEF Unanswered, Steps
  <1> QED BY <1>1, <1>2, OneMoves

LEMMA PrepareKeepsSet ==
  ASSUME Inv, SetInv, NEW t \in Threads, Prepare(t)
  PROVE  SetInv'
  <1>1. at[t] = "prepare" /\ waitset' = waitset /\ cut' = cut /\ crashed' = crashed /\ Goes(t, "waiting")
        /\ event' = [event EXCEPT ![t] = "clear"]
    BY DEF Prepare, At
  <1>2. t \in Unanswered /\ "waiting" \in Steps
    BY <1>1 DEF Unanswered, Steps
  <1> QED BY <1>1, <1>2, OneMoves

LEMMA WakeKeepsSet ==
  ASSUME Inv, SetInv, NEW t \in Threads, Wake(t)
  PROVE  SetInv'
  <1>1. /\ at[t] \in {"waiting", "blocked"} /\ event[t] = "set" /\ Goes(t, After[at[t]])
        /\ waitset' = waitset /\ cut' = cut /\ crashed' = crashed
        /\ event' = [event EXCEPT ![t] = "none"]
    BY DEF Wake, After
  <1>2. t \notin Unanswered /\ After[at[t]] \in {"run", "again"} /\ {"run", "again"} \subseteq Steps
    BY <1>1 DEF Unanswered, Steps, After
  <1> QED BY <1>1, <1>2, OneMoves

LEMMA HandOverKeepsSet ==
  ASSUME Inv, SetInv, NEW t \in Threads, HandOver(t)
  PROVE  SetInv'
  <1>1. at[t] = "handover" /\ entry.first = NIL /\ waitset' = waitset /\ cut' = cut
    BY DEF HandOver, At, Inv, NobodyQueued
  <1>2. CASE threadCount # 0
    <2>1. crashed' = TRUE /\ event' = event /\ at' = at
      BY <1>1, <1>2 DEF HandOver
    <2>2. Unanswered' = Unanswered /\ EventsOK'
      BY <1>1, <2>1 DEF Unanswered, SetInv, EventsOK
    <2> QED BY <1>1, <2>1, <2>2, ListKept DEF SetInv
  <1>3. CASE threadCount = 0
    <2>1. crashed' = crashed /\ event' = event /\ Goes(t, "run")
      BY <1>3 DEF HandOver
    <2>2. t \notin Unanswered /\ "run" \in Steps
      BY <1>1 DEF Unanswered, Steps
    <2> QED BY <1>1, <2>1, <2>2, OneMovesOn
  <1> QED BY <1>2, <1>3

LEMMA WaitKeepsSet ==
  ASSUME Inv, SetInv, NEW t \in Threads, Wait(t)
  PROVE  SetInv'
  <1>1. /\ at[t] = "run" /\ event' = event /\ cut' = cut /\ crashed' = crashed /\ waitset' = Pushed(t)
        /\ at' = [at EXCEPT ![t] = "prepare"] /\ at \in [Threads -> Steps]
    BY DEF Wait, Calls, Goes, Inv, Types
  <1>2. EventsOK'
    BY <1>1 DEF SetInv, EventsOK
  <1>3. t \notin Unanswered /\ Unanswered' = Unanswered \cup {t}
    BY <1>1 DEF Unanswered
  <1>13. CASE waitset = WildSet
    BY <1>1, <1>2, <1>13 DEF Pushed, SetInv, Listed
  <1>14. SUFFICES ASSUME waitset # WildSet
                  PROVE  SetInv'
    BY <1>13
  <1>4. PICK s \in Seq(Threads) : Lists(s)
    BY <1>14 DEF SetInv, Listed
  <1>5. PICK r : r = [i \in 1 .. Len(s) + 1 |-> IF i = 1 THEN t ELSE s[i - 1]]
    OBVIOUS
  <1>6. /\ r \in Seq(Threads) /\ Len(r) = Len(s) + 1 /\ r[1] = t
        /\ \A i \in 1 .. Len(s) : r[i + 1] = s[i] /\ s[i] \in Threads
        /\ \A i \in 2 .. Len(r) : r[i] = s[i - 1] /\ i - 1 \in 1 .. Len(s)
    <2>1. Len(s) \in Nat /\ \A i \in 1 .. Len(s) : s[i] \in Threads
      OBVIOUS
    <2>2. r \in [1 .. Len(s) + 1 -> Threads]
      BY <1>5, <2>1
    <2>3. r \in Seq(Threads) /\ Len(r) = Len(s) + 1
      BY <2>1, <2>2
    <2> QED BY <1>5, <2>1, <2>3
  <1> DEFINE f == waitset.first
  <1>7. waitset \in WaitSets
    BY DEF SetInv
  <1>8. /\ waitset'.first = t
        /\ waitset'.last = IF f = NIL THEN t ELSE waitset.last
        /\ waitset'.next = [waitset.next EXCEPT ![t] = f]
        /\ waitset'.prev = [u \in Threads |-> IF u = f THEN t ELSE IF u = t THEN Garbage ELSE waitset.prev[u]]
    BY <1>1, <1>14 DEF Pushed
  <1>9. waitset' \in WaitSets /\ waitset' # WildSet
    BY <1>1, <1>7, <1>8, <1>14, Tame DEF Pushed, WaitSets, Pointers
  <1>10. \A i \in 1 .. Len(s) : s[i] # t
    BY <1>3, <1>4 DEF Lists
  <1>11. f = IF Len(s) = 0 THEN NIL ELSE s[1]
    BY <1>4 DEF Lists
  <1>12. Lists(r)'
    <2>1. ASSUME ~ cut', NEW u \in Unanswered'
          PROVE  \E i \in 1 .. Len(r) : r[i] = u
      <3>1. CASE u \in Unanswered
        <4>1. PICK i \in 1 .. Len(s) : s[i] = u
          BY <1>1, <1>4, <2>1, <3>1 DEF Lists
        <4>2. r[i + 1] = u /\ i + 1 \in 1 .. Len(r)
          BY <1>6, <4>1
        <4> QED BY <4>2
      <3>2. CASE u = t
        BY <1>6, <3>2
      <3> QED BY <1>3, <2>1, <3>1, <3>2
    <2>7. ASSUME NEW i \in 1 .. Len(r)
          PROVE  r[i] \in Unanswered'
      <3>1. CASE i = 1
        BY <1>3, <1>6, <3>1
      <3>2. CASE i # 1
        <4>1. r[i] = s[i - 1] /\ i - 1 \in 1 .. Len(s)
          BY <1>6, <3>2
        <4>2. s[i - 1] \in Unanswered
          BY <1>4, <4>1 DEF Lists
        <4> QED BY <1>3, <4>1, <4>2
      <3> QED BY <3>1, <3>2
    <2>2. \A i, j \in 1 .. Len(r) : r[i] = r[j] => i = j
      <3> SUFFICES ASSUME NEW i \in 1 .. Len(r), NEW j \in 1 .. Len(r), r[i] = r[j]
                   PROVE  i = j
        OBVIOUS
      <3>1. i = 1 \/ i \in 2 .. Len(r)
        BY <1>6
      <3>2. j = 1 \/ j \in 2 .. Len(r)
        BY <1>6
      <3>3. CASE i = 1 /\ j \in 2 .. Len(r)
        BY <1>6, <1>10, <3>3
      <3>4. CASE j = 1 /\ i \in 2 .. Len(r)
        BY <1>6, <1>10, <3>4
      <3>5. CASE i \in 2 .. Len(r) /\ j \in 2 .. Len(r)
        <4>1. s[i - 1] = s[j - 1] /\ i - 1 \in 1 .. Len(s) /\ j - 1 \in 1 .. Len(s)
          BY <1>6, <3>5
        <4>2. i - 1 = j - 1
          BY <1>4, <4>1 DEF Lists
        <4> QED BY <4>2
      <3> QED BY <3>1, <3>2, <3>3, <3>4, <3>5
    <2>3. waitset'.first = IF Len(r) = 0 THEN NIL ELSE r[1]
      BY <1>6, <1>8
    <2>4. waitset'.last = IF Len(r) = 0 THEN NIL ELSE r[Len(r)]
      <3>1. CASE Len(s) = 0
        BY <1>6, <1>8, <1>11, <3>1
      <3>2. CASE Len(s) # 0
        <4>1. s[1] # NIL /\ r[Len(r)] = s[Len(s)] /\ waitset.last = s[Len(s)]
          BY <1>4, <1>6, <3>2, NilIsNoThread DEF Lists
        <4> QED BY <1>6, <1>8, <1>11, <3>2, <4>1
      <3> QED BY <3>1, <3>2
    <2>5. \A i \in 1 .. Len(r) : waitset'.next[r[i]] = IF i < Len(r) THEN r[i + 1] ELSE NIL
      <3> SUFFICES ASSUME NEW i \in 1 .. Len(r)
                   PROVE  waitset'.next[r[i]] = IF i < Len(r) THEN r[i + 1] ELSE NIL
        OBVIOUS
      <3>1. waitset.next \in [Threads -> Pointers]
        BY <1>7 DEF WaitSets
      <3>2. CASE i = 1
        <4>1. waitset'.next[r[i]] = f
          BY <1>6, <1>8, <3>1, <3>2
        <4>2. CASE Len(s) = 0
          BY <4>1, <4>2, <3>2, <1>6, <1>11
        <4>3. CASE Len(s) # 0
          <5>1. 1 \in 1 .. Len(s) /\ r[1 + 1] = s[1] /\ 1 < Len(r)
            BY <1>6, <4>3
          <5> QED BY <4>1, <4>3, <3>2, <1>11, <5>1
        <4> QED BY <4>2, <4>3
      <3>3. CASE i # 1
        <4>1. r[i] = s[i - 1] /\ i - 1 \in 1 .. Len(s) /\ s[i - 1] \in Threads /\ s[i - 1] # t
          BY <1>6, <1>10, <3>3
        <4>2. waitset'.next[r[i]] = waitset.next[s[i - 1]]
          BY <1>8, <3>1, <4>1
        <4>3. waitset.next[s[i - 1]] = IF i - 1 < Len(s) THEN s[i - 1 + 1] ELSE NIL
          BY <1>4, <4>1 DEF Lists
        <4>4. (i - 1 < Len(s)) <=> (i < Len(r))
          BY <1>6
        <4>5. i < Len(r) => r[i + 1] = s[i - 1 + 1]
          BY <1>6
        <4> QED BY <4>2, <4>3, <4>4, <4>5
      <3> QED BY <3>2, <3>3
    <2>6. \A i \in 1 .. Len(r) : waitset'.prev[r[i]] = IF 1 < i THEN r[i - 1] ELSE Garbage
      <3> SUFFICES ASSUME NEW i \in 1 .. Len(r)
                   PROVE  waitset'.prev[r[i]] = IF 1 < i THEN r[i - 1] ELSE Garbage
        OBVIOUS
      <3>1. CASE i = 1
        <4>1. f # t /\ r[i] = t
          BY <1>6, <1>10, <1>11, <3>1, NilIsNoThread
        <4> QED BY <1>8, <4>1, <3>1
      <3>2. CASE i = 2
        <4>1. r[i] = s[1] /\ 1 \in 1 .. Len(s) /\ s[1] \in Threads /\ r[i - 1] = t
          BY <1>6, <3>2
        <4> QED BY <4>1, <1>8, <1>11, <3>2
      <3>3. CASE i > 2
        <4>1. r[i] = s[i - 1] /\ i - 1 \in 1 .. Len(s) /\ s[i - 1] \in Threads /\ s[i - 1] # t
              /\ r[i - 1] = s[i - 1 - 1] /\ 1 < i - 1
          BY <1>6, <1>10, <3>3
        <4>2. s[i - 1] # f
          BY <1>4, <1>11, <4>1 DEF Lists
        <4>3. waitset'.prev[r[i]] = waitset.prev[s[i - 1]]
          BY <1>8, <4>1, <4>2
        <4>4. waitset.prev[s[i - 1]] = s[i - 1 - 1]
          BY <1>4, <4>1 DEF Lists
        <4> QED BY <4>1, <4>3, <4>4, <3>3
      <3>4. i = 1 \/ i = 2 \/ i > 2
        BY <1>6
      <3> QED BY <3>1, <3>2, <3>3, <3>4
    <2> QED BY <1>6, <2>1, <2>2, <2>3, <2>4, <2>5, <2>6, <2>7 DEF Lists
  <1> QED BY <1>1, <1>2, <1>6, <1>9, <1>12 DEF SetInv, Listed

-----------------------------------------------------------------------------
(* What Chain computes.  The library's induction over numbers takes an     *)
(* operator; these two lemmas do it with sets.                             *)

\* A set of naturals that is not empty has a least member.
LEMMA LeastOf ==
  ASSUME NEW T, T \subseteq Nat, T # {}
  PROVE  \E m \in T : \A k \in T : m <= k
  <1> DEFINE R == OpToRel(<, Nat)
  <1>1. \A x, y \in Nat : x < y => << x, y >> \in R
    BY DEF OpToRel
  <1>2. IsWellFoundedOn(R, Nat)
    BY NatLessThanWellFounded
  <1> HIDE DEF R
  <1>3. PICK m \in T : \A y \in T : ~ (<< y, m >> \in R)
    BY <1>2, WFMin
  <1>4. ASSUME NEW k \in T
        PROVE  m <= k
    <2>1. ~ (k < m)
      BY <1>1, <1>3
    <2>2. k \in Nat /\ m \in Nat
      OBVIOUS
    <2> QED BY <2>1, <2>2
  <1> QED BY <1>3, <1>4

\* A set with 0 and the successors of its members has all naturals.
LEMMA NatSetInduction ==
  ASSUME NEW S, 0 \in S, \A n \in Nat : n \in S => n + 1 \in S
  PROVE  Nat \subseteq S
  <1>1. SUFFICES ASSUME Nat \ S # {}
                 PROVE  FALSE
    OBVIOUS
  <1>2. PICK m \in Nat \ S : \A k \in Nat \ S : m <= k
    BY <1>1, LeastOf
  <1>3. m # 0
    BY <1>2
  <1>4. m - 1 \in Nat /\ m - 1 \in S
    BY <1>2, <1>3
  <1> QED BY <1>2, <1>4

\* A list of distinct threads is no longer than there are threads.
LEMMA NoLonger ==
  ASSUME NEW s \in Seq(Threads), \A i, j \in 1 .. Len(s) : s[i] = s[j] => i = j
  PROVE  Cardinality(Threads) \in Nat /\ Len(s) <= Cardinality(Threads)
  <1>1. IsFiniteSet(Threads) /\ Len(s) \in Nat
    BY MonitorAssumption
  <1>2. Cardinality(Threads) \in Nat
    BY <1>1, FS_CardinalityType
  <1>3. Cardinality(1 .. Len(s)) = Len(s) /\ IsFiniteSet(1 .. Len(s))
    <2>1. 1 \in Int /\ Len(s) \in Int
      BY <1>1
    <2>2. Cardinality(1 .. Len(s)) = (IF 1 > Len(s) THEN 0 ELSE Len(s) - 1 + 1) /\ IsFiniteSet(1 .. Len(s))
      BY <2>1, FS_Interval
    <2> QED BY <1>1, <2>2
  <1>4. CASE Cardinality(Threads) < Len(s)
    <2>1. PICK g : g = [i \in 1 .. Len(s) |-> s[i]]
      OBVIOUS
    <2>2. g \in [1 .. Len(s) -> Threads]
      BY <2>1
    <2>3. \E x, y \in 1 .. Len(s) : x # y /\ g[x] = g[y]
      BY <1>1, <1>3, <1>4, <2>2, FS_PigeonHole
    <2> QED BY <2>1, <2>3
  <1> QED BY <1>1, <1>2, <1>4

\* The chain of a listed wait set is that list: the definition of Chain has
\* one solution.
LEMMA ChainIsList ==
  ASSUME waitset \in WaitSets, NEW s, Lists(s)
  PROVE  Chain(waitset.first) = s
  <1> DEFINE N == Cardinality(Threads)
             After1(q) == IF q = << >> THEN waitset.first ELSE waitset.next[q[Len(q)]]
             Longer(q, n) == IF After1(q) = NIL \/ Len(q) < n THEN q ELSE Append(q, After1(q))
             G(reach, n) == IF n = 0 THEN << >> ELSE Longer(reach[n - 1], n - 1)
             Solves(reach) == reach = [n \in 0 .. N |-> G(reach, n)]
  <1>1. s \in Seq(Threads) /\ Len(s) \in Nat /\ \A i \in 1 .. Len(s) : s[i] \in Threads
    BY DEF Lists
  <1>2. N \in Nat /\ Len(s) <= N
    BY <1>1, NoLonger DEF Lists
  <1> HIDE DEF N
  <1> DEFINE L(n) == IF n <= Len(s) THEN [i \in 1 .. n |-> s[i]] ELSE s
  <1>3. \A n \in Nat : L(n) \in Seq(Threads) /\ Len(L(n)) = IF n <= Len(s) THEN n ELSE Len(s)
    <2> SUFFICES ASSUME NEW n \in Nat
                 PROVE  L(n) \in Seq(Threads) /\ Len(L(n)) = IF n <= Len(s) THEN n ELSE Len(s)
      OBVIOUS
    <2>1. CASE n <= Len(s)
      <3>1. PICK q : q = [i \in 1 .. n |-> s[i]]
        OBVIOUS
      <3>2. q \in [1 .. n -> Threads]
        BY <1>1, <2>1, <3>1
      <3>3. q \in Seq(Threads) /\ Len(q) = n
        BY <3>2
      <3> QED BY <2>1, <3>1, <3>3
    <2>2. CASE ~ (n <= Len(s))
      BY <1>1, <2>2
    <2> QED BY <2>1, <2>2
  <1>4. ASSUME NEW n \in Nat, NEW g, g = L(n)
        PROVE  L(n + 1) = Longer(g, n)
    <2>1. g \in Seq(Threads) /\ Len(g) = IF n <= Len(s) THEN n ELSE Len(s)
      BY <1>3, <1>4
    <2>0. PICK x : x = After1(g)
      OBVIOUS
    <2> HIDE DEF L
    <2>2. CASE n < Len(s)
      <3>1. Len(g) = n /\ g = [i \in 1 .. n |-> s[i]]
        BY <1>1, <1>4, <2>1, <2>2 DEF L
      <3>2. x = s[n + 1]
        <4>1. CASE n = 0
          <5>1. g = << >>
            BY <2>1, <3>1, <4>1
          <5>2. waitset.first = s[1]
            BY <1>1, <2>2, <4>1 DEF Lists
          <5> QED BY <2>0, <5>1, <5>2, <4>1
        <4>2. CASE n # 0
          <5>1. g # << >> /\ g[Len(g)] = s[n] /\ n \in 1 .. Len(s)
            BY <2>2, <3>1, <4>2
          <5>2. waitset.next[s[n]] = s[n + 1]
            BY <2>2, <5>1 DEF Lists
          <5> QED BY <2>0, <5>1, <5>2
        <4> QED BY <4>1, <4>2
      <3>3. s[n + 1] \in Threads /\ s[n + 1] # NIL
        BY <1>1, <2>2, NilIsNoThread
      <3>4. Append(g, s[n + 1]) = [i \in 1 .. n + 1 |-> s[i]]
        <4>1. Append(g, s[n + 1]) \in Seq(Threads) /\ Len(Append(g, s[n + 1])) = n + 1
          BY <2>1, <3>1, <3>3
        <4>2. \A i \in 1 .. n + 1 : Append(g, s[n + 1])[i] = s[i]
          BY <2>1, <3>1, <3>3
        <4>3. DOMAIN Append(g, s[n + 1]) = 1 .. n + 1
          BY <4>1
        <4>4. Append(g, s[n + 1]) = [i \in 1 .. n + 1 |-> Append(g, s[n + 1])[i]]
          BY <4>1, <4>3
        <4> QED BY <4>2, <4>4
      <3>5. L(n + 1) = [i \in 1 .. n + 1 |-> s[i]]
        BY <1>1, <2>2 DEF L
      <3>6. ~ (After1(g) = NIL \/ Len(g) < n)
        BY <2>0, <3>1, <3>2, <3>3
      <3>7. Longer(g, n) = Append(g, s[n + 1])
        BY <2>0, <3>2, <3>6
      <3> HIDE DEF Longer
      <3> QED BY <3>4, <3>5, <3>7
    <2>3. CASE n >= Len(s)
      <3>1. g = s
        <4>1. CASE n = Len(s)
          <5>1. g = [i \in 1 .. Len(s) |-> s[i]]
            BY <1>4, <4>1, <1>1 DEF L
          <5> QED BY <1>1, <5>1
        <4>2. CASE n > Len(s)
          BY <1>4, <4>2, <1>1 DEF L
        <4> QED BY <2>3, <1>1, <4>1, <4>2
      <3>2. CASE s = << >>
        <4>1. x = NIL
          BY <2>0, <3>1, <3>2 DEF Lists
        <4>2. L(n + 1) = s
          BY <1>1, <2>3 DEF L
        <4> QED BY <2>0, <3>1, <4>1, <4>2
      <3>3. CASE s # << >>
        <4>1. Len(s) \in 1 .. Len(s)
          BY <1>1, <3>3
        <4>2. x = NIL
          BY <2>0, <1>1, <3>1, <3>3, <4>1 DEF Lists
        <4>3. L(n + 1) = s
          BY <1>1, <2>3 DEF L
        <4> QED BY <2>0, <3>1, <4>2, <4>3
      <3> QED BY <3>2, <3>3
    <2> QED BY <1>1, <2>2, <2>3
  <1> HIDE DEF Longer
  <1>5. L(0) = << >>
    <2>1. L(0) \in Seq(Threads) /\ Len(L(0)) = 0
      BY <1>3, <1>1
    <2> HIDE DEF L
    <2> QED BY <2>1
  <1>6. L(N) = s
    <2>1. CASE N = Len(s)
      <3>1. L(N) = [i \in 1 .. Len(s) |-> s[i]]
        BY <1>1, <2>1
      <3> QED BY <1>1, <3>1
    <2>2. CASE N # Len(s)
      BY <1>1, <1>2, <2>2
    <2> QED BY <2>1, <2>2
  <1> HIDE DEF L
  <1>7. \E reach : Solves(reach)
    <2>1. PICK w : w = [n \in 0 .. N |-> L(n)]
      OBVIOUS
    <2>2. ASSUME NEW n \in 0 .. N
          PROVE  L(n) = G(w, n)
      <3>1. CASE n = 0
        BY <1>5, <3>1
      <3>2. CASE n # 0
        <4>1. n - 1 \in Nat /\ n - 1 \in 0 .. N /\ n - 1 + 1 = n
          BY <1>2, <3>2
        <4>2. w[n - 1] = L(n - 1)
          BY <2>1, <4>1
        <4> QED BY <1>4, <3>2, <4>1, <4>2
      <3> QED BY <3>1, <3>2
    <2>3. w = [n \in 0 .. N |-> G(w, n)]
      BY <2>1, <2>2
    <2> QED BY <2>3
  <1>8. PICK reach : reach = CHOOSE g : Solves(g)
    OBVIOUS
  <1>9. Solves(reach)
    BY <1>7, <1>8
  <1>10. \A n \in 0 .. N : reach[n] = L(n)
    <2>1. PICK S \in SUBSET Nat : S = {n \in Nat : n \in 0 .. N => reach[n] = L(n)}
      OBVIOUS
    <2>2. \A n \in 0 .. N : reach[n] = G(reach, n)
      BY <1>9
    <2>3. 0 \in S
      <3>1. 0 \in 0 .. N
        BY <1>2
      <3> QED BY <1>5, <2>1, <2>2, <3>1
    <2>4. ASSUME NEW n \in Nat, n \in S
          PROVE  n + 1 \in S
      <3> SUFFICES ASSUME n + 1 \in 0 .. N
                   PROVE  reach[n + 1] = L(n + 1)
        BY <2>1
      <3>1. reach[n] = L(n)
        BY <1>2, <2>1, <2>4
      <3>2. reach[n + 1] = G(reach, n + 1)
        BY <2>2
      <3>3. n + 1 # 0 /\ n + 1 - 1 = n
        OBVIOUS
      <3> QED BY <1>4, <3>1, <3>2, <3>3
    <2>5. Nat \subseteq S
      BY <2>3, <2>4, NatSetInduction
    <2> QED BY <1>2, <2>1, <2>5
  <1>11. Chain(waitset.first) = reach[N]
    BY <1>8 DEF Chain, N, Longer
  <1> QED BY <1>2, <1>6, <1>10, <1>11

LEMMA WaitersAreUnanswered ==
  ASSUME SetInv, waitset # WildSet
  PROVE  Waiters \subseteq Unanswered /\ (~ cut => Waiters = Unanswered)
  <1>1. PICK s \in Seq(Threads) : Lists(s)
    BY DEF SetInv, Listed
  <1>2. Chain(waitset.first) = s
    BY <1>1, ChainIsList DEF SetInv
  <1>3. Waiters = {s[i] : i \in 1 .. Len(s)}
    BY <1>2 DEF Waiters
  <1>4. Waiters \subseteq Unanswered
    BY <1>1, <1>3 DEF Lists
  <1>5. ~ cut => Unanswered \subseteq Waiters
    BY <1>1, <1>3 DEF Lists
  <1> QED BY <1>4, <1>5

-----------------------------------------------------------------------------
(* Notifications, and what follows.                                        *)

\* While nobody is inside a call, whose wait is unanswered waits on its event.
LEMMA UnansweredWait ==
  ASSUME SetInv, \A u \in Threads : at[u] \notin InCall
  PROVE  \A u \in Unanswered : at[u] = "waiting" /\ event[u] = "clear"
  BY DEF SetInv, EventsOK, Unanswered, InCall

\* Once the wait set is wild only the events have to be looked after.
LEMMA WildIsKept ==
  ASSUME SetInv, waitset' = WildSet, cut' = TRUE, crashed' \in BOOLEAN, at' = at,
         NEW u, event' = Resumed(event, u)
  PROVE  SetInv'
  <1>1. WildSet \in WaitSets
    BY DEF WildSet, WaitSets, Pointers
  <1>2. EventsOK'
    BY DEF SetInv, EventsOK, Resumed
  <1> QED BY <1>1, <1>2 DEF SetInv, Listed

\* The last node goes and its thread is resumed.
LEMMA NotifyKeepsSet ==
  ASSUME ~ Overlap, Inv, SetInv, NEW t \in Threads, Notify(t)
  PROVE  SetInv'
  <1> DEFINE l == waitset.last
             p == waitset.prev[l]
  <1>1. Calls(t) /\ waitset # WildSet /\ waitset.first # NIL /\ at' = at /\ crashed' = crashed
        /\ event' = Resumed(event, l)
    BY DEF Notify, Notifies
  <1>2. \A u \in Unanswered : at[u] = "waiting" /\ event[u] = "clear"
    BY <1>1, QuietIsQuiet, UnansweredWait DEF Calls
  <1>3. CASE p = Garbage
    <2>1. waitset' = WildSet /\ cut' = TRUE
      BY <1>3 DEF Notify
    <2>2. crashed' \in BOOLEAN
      BY <1>1 DEF SetInv
    <2> QED BY <1>1, <2>1, <2>2, WildIsKept
  <1>4. CASE p # Garbage
    <2>1. PICK s \in Seq(Threads) : Lists(s)
      BY <1>1 DEF SetInv, Listed
    <2>2. Len(s) \in Nat /\ Len(s) # 0 /\ l = s[Len(s)] /\ \A i \in 1 .. Len(s) : s[i] \in Threads
      BY <1>1, <2>1 DEF Lists
    <2>3. Len(s) \in 1 .. Len(s)
      BY <2>2
    <2>4. 1 < Len(s) /\ p = s[Len(s) - 1]
      BY <1>4, <2>1, <2>2, <2>3 DEF Lists
    <2>5. l \in Unanswered /\ l \in Threads
      BY <2>1, <2>2, <2>3 DEF Lists
    <2>6. at[l] = "waiting" /\ event[l] = "clear" /\ event \in [Threads -> {"none", "clear", "set"}]
      BY <1>2, <2>5 DEF SetInv, EventsOK
    <2>7. /\ waitset' = [waitset EXCEPT !.last = p, !.next[p] = NIL, !.prev[l] = NIL]
          /\ cut' = cut
      BY <1>4 DEF Notify
    <2>8. event' = [event EXCEPT ![l] = "set"]
      BY <1>1, <2>6 DEF Resumed
    <2>9. EventsOK'
      BY <1>1, <2>6, <2>7, <2>8 DEF SetInv, EventsOK
    <2>10. Unanswered' = Unanswered \ {l}
      BY <1>1, <2>5, <2>6, <2>8 DEF Unanswered
    <2>11. PICK n \in Nat : n = Len(s) - 1
      BY <2>4
    <2>12. n \in 1 .. Len(s) /\ n + 1 = Len(s) /\ p = s[n] /\ p \in Threads
      BY <2>2, <2>4, <2>11
    <2>13. PICK r : r = [i \in 1 .. n |-> s[i]]
      OBVIOUS
    <2>14. r \in Seq(Threads) /\ Len(r) = n /\ \A i \in 1 .. n : r[i] = s[i] /\ i \in 1 .. Len(s)
      <3>1. r \in [1 .. n -> Threads]
        BY <2>2, <2>11, <2>13
      <3> QED BY <2>2, <2>11, <2>13, <3>1
    <2>15. waitset \in WaitSets
      BY DEF SetInv
    <2>16. /\ waitset'.first = waitset.first /\ waitset'.last = p
           /\ waitset'.next = [waitset.next EXCEPT ![p] = NIL]
           /\ waitset'.prev = [waitset.prev EXCEPT ![l] = NIL]
      BY <2>7, <2>15 DEF WaitSets
    <2>17. waitset' \in WaitSets
      BY <2>7, <2>12, <2>15 DEF WaitSets, Pointers
    <2>18. \A i \in 1 .. n : s[i] # l
      <3> SUFFICES ASSUME NEW i \in 1 .. n, s[i] = l
                   PROVE  FALSE
        OBVIOUS
      <3>1. i = Len(s)
        BY <2>1, <2>2, <2>3, <2>14 DEF Lists
      <3> QED BY <2>12, <3>1
    <2>19. Lists(r)'
      <3>1. ASSUME ~ cut', NEW u \in Unanswered'
            PROVE  \E i \in 1 .. Len(r) : r[i] = u
        <4>1. PICK i \in 1 .. Len(s) : s[i] = u
          BY <2>1, <2>7, <2>10, <3>1 DEF Lists
        <4>2. i \in 1 .. n
          BY <2>2, <2>10, <2>12, <3>1, <4>1
        <4> QED BY <2>14, <4>1, <4>2
      <3>7. \A i \in 1 .. Len(r) : r[i] \in Unanswered'
        BY <2>1, <2>2, <2>10, <2>14, <2>18 DEF Lists
      <3>2. \A i, j \in 1 .. Len(r) : r[i] = r[j] => i = j
        <4>1. \A i, j \in 1 .. Len(s) : s[i] = s[j] => i = j
          BY <2>1 DEF Lists
        <4> QED BY <2>14, <4>1
      <3>3. waitset'.first = IF Len(r) = 0 THEN NIL ELSE r[1]
        <4>1. waitset.first = s[1] /\ 1 \in 1 .. n
          BY <2>1, <2>2, <2>12 DEF Lists
        <4> QED BY <2>14, <2>16, <4>1
      <3>4. waitset'.last = IF Len(r) = 0 THEN NIL ELSE r[Len(r)]
        BY <2>12, <2>14, <2>16
      <3>5. \A i \in 1 .. Len(r) : waitset'.next[r[i]] = IF i < Len(r) THEN r[i + 1] ELSE NIL
        <4> SUFFICES ASSUME NEW i \in 1 .. n
                     PROVE  waitset'.next[s[i]] = IF i < n THEN s[i + 1] ELSE NIL
          BY <2>14
        <4>0. waitset.next \in [Threads -> Pointers] /\ s[i] \in Threads
          BY <2>2, <2>14, <2>15 DEF WaitSets
        <4>1. CASE i = n
          BY <2>12, <2>16, <4>0, <4>1
        <4>2. CASE i # n
          <5>1. s[i] # p
            BY <2>1, <2>12, <2>14, <4>2 DEF Lists
          <5>2. waitset.next[s[i]] = s[i + 1]
            BY <2>1, <2>12, <2>14 DEF Lists
          <5> QED BY <2>16, <4>0, <4>2, <5>1, <5>2
        <4> QED BY <4>1, <4>2
      <3>6. \A i \in 1 .. Len(r) : waitset'.prev[r[i]] = IF 1 < i THEN r[i - 1] ELSE Garbage
        <4> SUFFICES ASSUME NEW i \in 1 .. n
                     PROVE  waitset'.prev[s[i]] = IF 1 < i THEN s[i - 1] ELSE Garbage
          BY <2>14
        <4>0. waitset.prev \in [Threads -> Pointers] /\ s[i] \in Threads /\ s[i] # l
          BY <2>2, <2>14, <2>15, <2>18 DEF WaitSets
        <4>1. waitset.prev[s[i]] = IF 1 < i THEN s[i - 1] ELSE Garbage
          BY <2>1, <2>14 DEF Lists
        <4> QED BY <2>16, <4>0, <4>1
      <3> QED BY <2>14, <3>1, <3>2, <3>3, <3>4, <3>5, <3>6, <3>7 DEF Lists
    <2>20. waitset' # WildSet
      <3>1. waitset.first \in Threads
        BY <1>1, <2>1, <2>2, <2>4 DEF Lists
      <3> QED BY <2>16, <3>1, Tame
    <2> QED BY <1>1, <2>7, <2>9, <2>14, <2>17, <2>19, <2>20 DEF SetInv, Listed
  <1> QED BY <1>3, <1>4

LEMMA NotifyWildKeepsSet ==
  ASSUME Inv, SetInv, NEW t \in Threads, NotifyWild(t)
  PROVE  SetInv'
  <1>1. /\ waitset = WildSet /\ waitset' = waitset /\ cut' = cut /\ crashed' = crashed /\ at' = at
        /\ \E u \in Threads : event' \in {event, Resumed(event, u)}
    BY DEF NotifyWild
  <1>2. cut /\ cut \in BOOLEAN /\ crashed \in BOOLEAN
    BY <1>1 DEF SetInv, Listed
  <1>3. CASE event' = event
    BY <1>1, <1>2, <1>3 DEF SetInv, EventsOK, Listed
  <1>4. CASE event' # event
    BY <1>1, <1>2, <1>4, WildIsKept
  <1> QED BY <1>3, <1>4

LEMMA NotifyStopsKeepsSet ==
  ASSUME Inv, SetInv, NEW t \in Threads, NotifyStops(t)
  PROVE  SetInv'
  <1>1. waitset' = waitset /\ cut' = cut /\ crashed' = TRUE /\ at' = at /\ event' = event
    BY DEF NotifyStops
  <1>2. Unanswered' = Unanswered /\ EventsOK'
    BY <1>1 DEF Unanswered, SetInv, EventsOK
  <1> QED BY <1>1, <1>2, ListKept DEF SetInv

\* To resume threads leaves every event as good as it was, except that of a
\* blocked one.
LEMMA AllResumedKeeps ==
  ASSUME SetInv, NEW R, event' = AllResumed(R)
  PROVE  /\ event' \in [Threads -> {"none", "clear", "set"}]
         /\ \A u \in Threads : event[u] # "none" => event'[u] # "none"
         /\ \A u \in Threads \ R : event'[u] = event[u]
         /\ \A u \in Threads \cap R : event[u] = "clear" => event'[u] = "set"
  <1>1. event \in [Threads -> {"none", "clear", "set"}]
    BY DEF SetInv, EventsOK
  <1>2. \A u \in Threads : Resumed(event, u)[u] = IF event[u] = "none" THEN event[u] ELSE "set"
    BY <1>1 DEF Resumed
  <1>3. event' = [u \in Threads |-> IF u \in R /\ event[u] # "none" THEN "set" ELSE event[u]]
    BY <1>2 DEF AllResumed
  <1> QED BY <1>1, <1>3

LEMMA NotifyAllKeepsSet ==
  ASSUME ~ Overlap, Inv, SetInv, NEW t \in Threads, NotifyAll(t)
  PROVE  SetInv'
  <1>1. /\ Calls(t) /\ at' = at /\ waitset # WildSet /\ waitset' = EmptySet
        /\ cut' = cut /\ crashed' = crashed /\ event' = AllResumed(Waiters)
    BY DEF NotifyAll, Notifies
  <1>2. \A u \in Unanswered : at[u] = "waiting" /\ event[u] = "clear"
    BY <1>1, QuietIsQuiet, UnansweredWait DEF Calls
  <1>3. Waiters \subseteq Unanswered /\ (~ cut => Waiters = Unanswered)
    BY <1>1, WaitersAreUnanswered
  <1>4. EventsOK'
    <2>1. ASSUME NEW u \in Threads, at'[u] = "blocked", ~ cut'
          PROVE  event'[u] = "clear"
      <3>1. u \notin Waiters /\ event[u] = "clear"
        BY <1>1, <1>2, <1>3, <2>1 DEF SetInv, EventsOK
      <3> QED BY <1>1, <3>1, AllResumedKeeps
    <2>2. event' \in [Threads -> {"none", "clear", "set"}]
      BY <1>1, AllResumedKeeps
    <2>3. ASSUME NEW u \in Threads, at'[u] = "waiting"
          PROVE  event'[u] # "none"
      <3>1. event[u] # "none"
        BY <1>1, <2>3 DEF SetInv, EventsOK
      <3> QED BY <1>1, <3>1, AllResumedKeeps
    <2> QED BY <2>1, <2>2, <2>3 DEF EventsOK
  <1>5. ASSUME ~ cut', NEW u \in Unanswered'
        PROVE  FALSE
    <2>1. u \in Threads /\ (at'[u] = "prepare" \/ (at'[u] = "waiting" /\ event'[u] # "set"))
      BY <1>5 DEF Unanswered
    <2>2. CASE u \in Unanswered
      <3>1. at[u] = "waiting" /\ event[u] = "clear" /\ u \in Threads \cap Waiters
        BY <1>1, <1>2, <1>3, <1>5, <2>1, <2>2
      <3>2. event'[u] = "set"
        BY <1>1, <3>1, AllResumedKeeps
      <3> QED BY <1>1, <2>1, <3>1, <3>2
    <2>3. CASE u \notin Unanswered
      <3>1. event'[u] = event[u]
        BY <1>1, <1>3, <2>1, <2>3, AllResumedKeeps
      <3> QED BY <1>1, <2>1, <2>3, <3>1 DEF Unanswered
    <2> QED BY <2>2, <2>3
  <1>6. waitset' \in WaitSets /\ waitset' # WildSet
    BY <1>1, Tame DEF EmptySet, WaitSets, Pointers
  <1>7. Lists(<< >>)' /\ << >> \in Seq(Threads)
    BY <1>1, <1>5 DEF Lists, EmptySet
  <1> QED BY <1>1, <1>4, <1>6, <1>7 DEF SetInv, Listed

LEMMA NotifyAllWildKeepsSet ==
  ASSUME ~ Overlap, Inv, SetInv, NEW t \in Threads, NotifyAllWild(t)
  PROVE  SetInv'
  <1>1. /\ Calls(t) /\ waitset = WildSet /\ cut' = cut /\ crashed' = crashed
        /\ \/ waitset' = EmptySet /\ at' = at
           \/ Goes(t, "stuck") /\ waitset' = waitset
    BY DEF NotifyAllWild, Notifies
  <1>2. cut /\ cut \in BOOLEAN /\ crashed \in BOOLEAN
    BY <1>1 DEF SetInv, Listed
  <1>3. PICK R \in SUBSET Threads : event' = AllResumed(R)
    BY DEF NotifyAllWild
  <1>4. \A u \in Threads : at'[u] = "waiting" => at[u] = "waiting"
    BY <1>1 DEF Goes, Inv, Types
  <1>5. EventsOK'
    <2>1. event' \in [Threads -> {"none", "clear", "set"}]
      BY <1>3, AllResumedKeeps
    <2>2. ASSUME NEW u \in Threads, at'[u] = "waiting"
          PROVE  event'[u] # "none"
      <3>1. event[u] # "none"
        BY <1>4, <2>2 DEF SetInv, EventsOK
      <3> QED BY <1>3, <3>1, AllResumedKeeps
    <2> QED BY <1>1, <1>2, <2>1, <2>2 DEF EventsOK
  <1>6. waitset' \in WaitSets
    BY <1>1 DEF EmptySet, WaitSets, Pointers, SetInv
  <1>7. waitset' # WildSet => Lists(<< >>)' /\ << >> \in Seq(Threads)
    BY <1>1, <1>2 DEF Lists, EmptySet
  <1> QED BY <1>1, <1>2, <1>5, <1>6, <1>7 DEF SetInv, Listed

LEMMA StutterKeepsSet ==
  ASSUME SetInv, UNCHANGED vars
  PROVE  SetInv'
  <1>1. at' = at /\ waitset' = waitset /\ event' = event /\ cut' = cut /\ crashed' = crashed
    BY DEF vars
  <1>2. Unanswered' = Unanswered
    BY <1>1 DEF Unanswered
  <1> QED BY <1>1, <1>2, ListKept DEF SetInv, EventsOK

LEMMA NextSetInv ==
  ASSUME ~ Overlap, Inv, SetInv, [Next]_vars
  PROVE  SetInv'
  <1>1. CASE UNCHANGED vars \/ \E t \in Threads : ExitRefused(t)
    BY <1>1, StutterKeepsSet DEF ExitRefused
  <1> QED BY <1>1, TakeKeepsSet, BlockKeepsSet, PrepareKeepsSet, WakeKeepsSet, HandOverKeepsSet,
             WaitKeepsSet, NotifyKeepsSet, NotifyWildKeepsSet, NotifyStopsKeepsSet,
             NotifyAllKeepsSet, NotifyAllWildKeepsSet DEF Next, GoesOn

LEMMA SetInvHolds ==
  ASSUME ~ Overlap
  PROVE  Spec => [](Inv /\ SetInv)
  <1>1. Init => SetInv
    BY InitSetInv
  <1>2. Inv /\ SetInv /\ [Next]_vars => SetInv'
    BY NextSetInv
  <1> QED BY <1>1, <1>2, InvHolds, PTL DEF Spec

LEMMA InvImpliesTypes ==
  ASSUME Inv, SetInv
  PROVE  TypeOK
  <1>1. lockCount \in Nat
    <2>1. CASE owner = NIL
      BY <2>1 DEF Inv, FreeIsUnlocked
    <2>2. CASE owner # NIL
      BY <2>2 DEF Inv, Types, MonitorExcludes
    <2> QED BY <2>1, <2>2
  <1>2. threadCount \in Nat
    BY DEF Inv, Types, ThreadCountDrifts
  <1>3. entry \in [first : Threads \cup {NIL}, last : Threads \cup {NIL}]
    BY DEF Inv, NobodyQueued
  <1> QED BY <1>1, <1>2, <1>3 DEF TypeOK, Inv, Types, SetInv, EventsOK, WaitSets, Steps, Pointers

(* While calls do not overlap the wait set is a list with the backward     *)
(* links JvmWait sets, of threads whose wait is not answered, until a      *)
(* notify follows the link it does not set; and until then, of them all.   *)
THEOREM SetIsAList ==
  ASSUME ~ Overlap
  PROVE  Spec => []WaitSetIsAList
  <1>1. ASSUME Inv, SetInv
        PROVE  WaitSetIsAList
    <2>1. TypeOK /\ (waitset = WildSet => cut)
      BY <1>1, InvImpliesTypes DEF SetInv, Listed
    <2>2. PICK c : c = Chain(waitset.first)
      OBVIOUS
    <2> DEFINE Answerless(t) == at[t] = "prepare" \/ (at[t] = "waiting" /\ event[t] # "set")
    <2>3. ASSUME waitset # WildSet
          PROVE  /\ waitset.first = NIL <=> waitset.last = NIL
                 /\ c # << >> => c[Len(c)] = waitset.last /\ waitset.prev[c[1]] = Garbage
                 /\ \A i \in 1 .. Len(c) - 1 : waitset.prev[c[i + 1]] = c[i]
                 /\ \A t \in Waiters : Answerless(t)
                 /\ cut \/ \A t \in Threads : Answerless(t) => t \in Waiters
      <3>1. PICK s \in Seq(Threads) : Lists(s)
        BY <1>1, <2>3 DEF SetInv, Listed
      <3>2. c = s
        BY <1>1, <2>2, <3>1, ChainIsList DEF SetInv
      <3>3. waitset.first = NIL <=> waitset.last = NIL
        BY <3>1, NilIsNoThread DEF Lists
      <3>4. c # << >> => c[Len(c)] = waitset.last /\ waitset.prev[c[1]] = Garbage
        BY <3>1, <3>2 DEF Lists
      <3>5. \A i \in 1 .. Len(c) - 1 : waitset.prev[c[i + 1]] = c[i]
        BY <3>1, <3>2 DEF Lists
      <3>6. \A t \in Waiters : Answerless(t)
        BY <1>1, <2>3, WaitersAreUnanswered DEF Unanswered
      <3>7. cut \/ \A t \in Threads : Answerless(t) => t \in Waiters
        BY <1>1, <2>3, WaitersAreUnanswered DEF Unanswered
      <3> QED BY <3>3, <3>4, <3>5, <3>6, <3>7
    <2> QED BY <2>1, <2>2, <2>3 DEF WaitSetIsAList
  <1> QED BY <1>1, SetInvHolds, PTL

(* While calls do not overlap, a thread that finds the lock taken in       *)
(* JvmAcquireLock is never resumed, as long as no notify has followed an   *)
(* uninitialised link of the wait set.                                     *)
THEOREM BlockedStay ==
  ASSUME ~ Overlap
  PROVE  Spec => BlockedForEver
  <1> DEFINE Stay == \A t \in Threads : at[t] = "blocked" /\ ~ cut => at'[t] = "blocked"
  <1>1. ASSUME Inv, SetInv, Next
        PROVE  Stay
    <2> SUFFICES ASSUME NEW t \in Threads, at[t] = "blocked", ~ cut
                 PROVE  at'[t] = "blocked"
      OBVIOUS
    <2>1. event[t] = "clear" /\ at \in [Threads -> Steps]
      BY <1>1 DEF SetInv, EventsOK, Inv, Types
    <2>2. PICK u \in Threads :
            \/ GoesOn(u) \/ Enter(u) \/ ExitRefused(u) \/ Exit(u) \/ Wait(u)
            \/ Notify(u) \/ NotifyWild(u) \/ NotifyStops(u) \/ NotifyAll(u) \/ NotifyAllWild(u)
      BY <1>1 DEF Next
    <2>3. at' = at \/ (u # t /\ \E step \in Steps : at' = [at EXCEPT ![u] = step])
      <3>1. CASE ExitRefused(u) \/ Notify(u) \/ NotifyWild(u) \/ NotifyStops(u) \/ NotifyAll(u)
        BY <3>1 DEF ExitRefused, Notify, NotifyWild, NotifyStops, NotifyAll, vars
      <3>2. CASE Take(u) \/ Enter(u) \/ Exit(u) \/ Wait(u) \/ NotifyAllWild(u)
        BY <3>2, <2>1 DEF Take, Enter, ReadOwner, Exit, Wait, NotifyAllWild, Notifies, Calls, At, Goes,
           Steps, InCall
      <3>3. CASE Block(u) \/ Prepare(u) \/ HandOver(u)
        BY <3>3, <2>1 DEF Block, Prepare, HandOver, At, Goes, Steps, InCall
      <3>4. CASE Wake(u)
        <4>1. u # t
          BY <2>1, <3>4 DEF Wake
        <4>2. After[at[u]] \in Steps
          BY <3>4 DEF Wake, After, Steps
        <4> QED BY <3>4, <4>1, <4>2 DEF Wake, Goes
      <3> QED BY <2>2, <3>1, <3>2, <3>3, <3>4 DEF GoesOn
    <2> QED BY <2>1, <2>3
  <1>2. ASSUME Inv, SetInv, [Next]_vars
        PROVE  [Stay]_vars
    BY <1>1, <1>2
  <1>3. Inv /\ SetInv /\ [Next]_vars => [Stay]_vars
    BY <1>2
  <1> QED BY <1>3, SetInvHolds, PTL DEF Spec, BlockedForEver
=============================================================================
