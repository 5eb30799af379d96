# A verification project for JDepends

JDepends reads Java class files and JARs and shows what depends on what. It is
built on a small Java virtual machine (`Jvm*.c`, `jvm*.c`), and that machine on
a library, dlib, of lists, pools, an allocator, message queues and threads
(`linklist.c`, `pool.c`, `mem.c`, `osapi.c`). The user interface is MFC, the
JAR reader is Info-ZIP's unzip.

The TLA+ modules below model both layers: of dlib the lists, the event pool, the
threads and messages with start-up and shutdown, and the buddy allocator; of the
virtual machine the class loader, the monitors of Java objects, and the
interpreter, its operand stack and its calls. Part 1 is the inventory, part 2
says which module models what and how, part 3 the runs, part 4 the theorems,
part 5 what is left out, part 6 what comes next.

Two builds share these files. With `__JDEPENDS__` defined the program is the
dependency viewer, which uses dlib and the class loader. Without it the program
is the virtual machine, and the interpreter (the byte-code handlers, calls and
loop of `Jvmrt.c`, inside `#ifndef __JDEPENDS__`) is part of it.

    tlc -config OsThreads.cfg MCOsThreads        checks a run (see part 3)
    tlapm OsThreadsProofs.tla                    checks the proofs of a module

---------------------------------------------------------------------------

## 1. Inventory

| Component | Files | State | Operations | Hard part |
|---|---|---|---|---|
| Linked lists | `linklist.c` | ring of nodes, head, tail, count, cursor | create, destroy, add, delete, find, move, iterate, serve next | delete frees the successor's node; what becomes of head and tail |
| Data pools | `pool.c` | free list, used list, count | create, get, return, destroy | an item moves between two lists |
| OS layer | `osapi.c`, `cond.h` | thread list, queues, condition maps, `inited` | init, create/exit thread, post and get messages, cond wait/broadcast, cache flush, exit | every interleaving of waiters, posters and the shutdown |
| Buddy allocator | `mem.c` | pools, blocks with tag and links, free lists | alloc, free, new pool, expand | long split/merge sequences; `mem_free` takes no lock |
| JVM system layer | `Jvmsys.c` | mutexes, threads | wrappers for the OS layer | mutexes are passed by value |
| Exception frames | `Jvmexcpt.c` | stack of jump buffers per thread | try, throw, rethrow | returns from inside a try block |
| Monitors and threads | `Jvmrt.c` 4456-4817 | lock counts, entry and wait sets per priority | acquire, release, wait, notify | a blocked or woken thread that nobody knows of; nothing excludes the calls themselves |
| Class loader | `jvmloadr.c` | class table, class state table, class objects | load, find, make an array class, defer an exception | check-then-load, recursion through superclasses and interfaces, failures in the middle |
| Strings, hash tables | `Jvmsprng.c`, `Hashtabl.c` | interned strings with reference counts | allocate, clone, free | counts changed without the mutex |
| Binary trees | `bintree.c` | tree | insert, search, delete | relinking after deletion |
| Streams | `stream.c` | buffer, read and write position | open, read, write, reset, close | pooled streams, boundaries |
| Interpreter: one frame | `Jvmrt.c` 403-2450, 3947-3957 | operand stack, its top, locals | one per byte code | a top that is off by a word shows only in later instructions |
| Interpreter: calls | `Jvmrt.c` 2488-3396, 4943-5605, `Jvmexcpt.c` 290-396 | stack frames in one block, execution environments | invoke, return, throw | frames and environments go up and down together; the block moves when it grows |
| Interpreter: objects | `Jvmrt.c` | heap, arrays, fields | new, get, put | contents of memory |
| Class file parser, utilities, configuration | `Jvmparse.c`, `Jvmutil.c`, `jvmconfg.c`, `util.c` | none that lasts | conversions | - |
| Native methods | `JVMNTVRT.C`, `java_lang_system.c` | none | argument conversion | - |
| Unzip | Info-ZIP | - | third-party | - |
| User interface | `Graphman.cpp`, `ClassInfo.cpp`, ... | documents, views | drawing | - |
| Bench and stray files | `MEMBENCH.C`, `Check.c`, `lock.c`, `old_util.c`, ... | - | not in the program | - |

How they interact. `_os_init` makes the event pool, the thread list and two
"cache cleaner" threads that share one message queue. Everything that allocates
a scratch buffer (`os_cache_t`) posts it to that queue to be freed
(`_os_cache_flush`, called from `JvmSysInit` and whoever used a cache). Java
threads are OS threads made by `JvmSysCreateThread`, each with a queue that
already holds its start routine. All workers wait on `inited_cond` until
`JvmInit` calls `_os_init_complete`. Java threads suspend and resume each other
through events that `osapi.c` keeps in a dictionary per thread; the monitors are
their only user. The interpreter asks the loader for a class whenever it meets a
name, and so does the user interface for each file or JAR entry it shows. A
queue is a linked list plus a lock plus
a condition variable. A condition variable is a map of events, and the events
come from the pool, which is two linked lists. `JvmExit` ends in `_os_exit`,
which posts `TM_EXIT` to every thread it finds in the thread list, joins them
and gives back all memory. Everything takes its memory from `mem.c`.

What makes each of these correct, in one line each:

* lists: the ring is closed in both directions, head and tail are on it, and a
  queue with items always serves one;
* pool: an item in use is not offered (it is: see `EventPool`), the search
  loops end, and the pool never runs dry under a caller that holds a lock;
* OS layer: no message is lost, doubled or run before initialisation; a queue
  lives as long as its readers; the thread list is the truth; shutdown ends;
* allocator: pools are cut exactly into blocks, no two callers own the same
  memory, what is given back can be had again;
* monitors: one owner at a time, every waiter is resumed once its turn comes;
* loader: one class object per name, linked to all it names, a failure recorded
  for what failed and nothing else, loading ends;
* operand stack: after any sequence of instructions it holds what they mean;
* calls: a return goes on behind the call, a handler is found where there is
  one, and nothing uses a frame that is gone;
* strings: a string is freed when its last reference goes, and not before;
* trees and streams: they hold what was put in.

PROJECT.json lists the hazards of each with the line where it bites.

---------------------------------------------------------------------------

## 2. The modules

    LinkListOps ---- LinkList                 the list as callers see it
         |              ^ refines
         |           LinkListImpl --- LinkHeap    the list on its nodes
         |                              |
         |                          EventPool     pool.c, for cond_wait
         |                              : one event for everybody
      OsThreads                               osapi.c

    BuddyMem                                  mem.c

    ClassLoader                               jvmloadr.c
    JavaMonitor                               Jvmrt.c, Jvmsys.c, osapi.c
    ByteCode                                  Jvmrt.c, one frame
    CallFrames                                Jvmrt.c, Jvmexcpt.c, many frames

    LinkListImplProofs                        the refinement of LinkList
    EventPoolProofs                           with the lemmas about MoveNode
    OsThreadsProofs                           with the lemmas about LinkListOps
    BuddyMemProofs, ClassLoaderProofs, JavaMonitorProofs, ByteCodeProofs,
    CallFramesProofs

    MC...                                     constants for TLC

### Lists: LinkListOps, LinkList, LinkHeap, LinkListImpl

`linklist.c` keeps a ring. A new node goes behind the head, not behind the
tail. The tail is the second node the list ever had, and moves only when the
node it points at is freed. A deletion copies the data of the successor into
the node that held the data and frees the successor. A queue is served from the
tail. The consequence for users is that a queue is not first-in-first-out:
with three messages a, b, c posted in this order, the ring reads a c b, and b
is served first.

`LinkHeap` translates this on functions `next`, `prev`, `data` from node
addresses, statement by statement: `Link` for the two places that insert,
`DeleteNode`, `Cut` and `MoveNode` for `link_list_move_node`. `LinkListImpl`
makes a state machine of it, with the set of nodes that are allocated; a freed
node's fields become `NIL`/`NONE`, so that reading one is an error TLC
reports. `LinkListOps` says the same on records `[items, tail]`, where
`tail` is a position, and `LinkList` is the machine on those. TLC checks that
`LinkListImpl` refines `LinkList` (`ImplementsLinkList`), and `NodesImplementList`
proves it for any number of nodes. This is why the other
modules may use the short form: `OsThreads` keeps its thread list and its
queues as `[items, tail]`, with `AddData`, `DeleteData`, `NextData`.

The data of a list is compared by value, and two list entries never hold the
same pointer; `Add` has this as its guard, and `Distinct` is what the users
must guarantee (`EachMessageOnce` and `ThdListIsAlive` show that `OsThreads`
does).

`link_list_delete_data` decrements `count` whether it found anything or not
(line 191). `CountDriftsByMisses` says exactly by how much `count` is wrong.

### The pool: EventPool

`pool_get_data` offers the tail of the free list and moves that node to the
used list; `pool_return_data` moves it back. `link_list_move_node` leaves the
tail of the list it takes from alone, so the free list goes on offering the
same node although it is on the used list. From then on the two lists share
nodes. What comes of it is surprisingly stable, and this module says what:
everybody is given the same event (`OneEventForAll`), nobody ever finds the
pool empty (`PoolNeverRunsOut`), and the loops that walk the rings end
(`RingsStayClosed`). Each call runs under `pool->lock` and is one step.

### Threads and messages: OsThreads

The state, and what it is in the code:

| Variable | Code |
|---|---|
| `inited` | `_gp->inited` |
| `pc`, `on`, `slot`, `hand` | the program counter and locals of each worker: the condition variable it is at, `index` of `cond_wait`, `msg` of the loop |
| `owner` | who has `init_lock` and the `queue_lock`s |
| `map`, `count` | `cond->map[].event # NULL`, `cond->count` |
| `signalled` | the state of the one event (`OneEventForAll`) |
| `queue`, `usage` | `qi->queue`, `qi->usage_count` |
| `thdList` | `_gp->thd_list` |
| `mpc`, `toStop` | where the main thread is in `_os_exit`; the rest of `threads[]` |
| `posted`, `done`, `lost` | history |

A worker's life: at the gate (`on = InitCond`) it tests `inited` under
`init_lock`, at its queue it tests for a message under `queue_lock`. If the
test fails it keeps the lock (`BeginWait`) and goes through `cond_wait`:
`ResetEvent`, `Register` under `cond->lock` with `index = max(count-1, 0)`,
`Unlock`, `Wait` for the event, `Unregister`, and back to its test. Each of
these is a step of its own, because any other thread may act in between. If the
test succeeds it goes on (`PassGate`), or takes the message (`TakeMessage`) and
runs it (`RunJob`, `ObeyExit`, or `Die` for a Java thread that ends in an
uncaught exception). Leaving is `Leave`: the thread's entry of the list goes,
its rundown drops the queue's reference, and the last one destroys the queue
with the messages still on it.

Critical sections in which the holder cannot block are one step, including the
locks taken inside them: `queue_add` with its broadcast, `_os_exit_thread`,
the gathering loop of `_os_exit`. `CRITICAL_SECTION` is recursive, and no
thread here takes a lock it has.

Who asks for things: the main thread until it calls `_os_exit`, and a Java
thread while it runs its start routine (`Asking`). They flush caches and make
threads at any time, also while `_os_exit` is under way.

The thread records. `_os_exit` reads the list under its lock, but uses the
records later, when a thread may have left and its record may be freed. What a
read of freed memory gives is a choice of three outcomes in `PostToFreed`: the
process dies; the old contents still lead to a live queue; the queue is gone
too, and with it the message. `_os_cache_flush` meets the same through
`_gp->cache_thd`, which nobody clears.

### The allocator: BuddyMem

A pool is one main block of `2^maxTag` units. The words at the start of a block
(tag and reserved bit, next, prev) are functions of its address, and stay where
they are when the block is merged away: `mem_free` reads the tag of a buddy
whether or not a block starts there. `mem_pool_alloc` and `mem_pool_init` hold
`g_mem_lock` and are one step. `mem_alloc` walks over the pools without it
(`ProbeServes`, `ProbeFails`, `MakePool`, `Retry`) and `mem_free` never takes
it: finding the buddy, unlinking it and relinking the merged block are
separate steps (`FindBuddy`, `MergeBuddy`, `Release`).

Three ends of the allocator are outcomes, not errors of the model: a failed
`calloc` of a new pool frees the table of all pools (`MakePoolFails`), a second
caller replaces a pool that was just made (`MakePool`), and freeing a block as
large as its pool reads the words behind the pool (`ReadPastEnd`), because
`get_buddy` compares with `>` where `>=` is needed. After one of them nothing
is promised and the model stops; `ReadPastEnd` may also not happen, when what
lies behind the pool does not look like a free block.

### The class loader: ClassLoader

`JvmLdrLoadNewClass` is recursive: it loads the superclass of a class, makes the
class object and registers it, and then loads the interfaces, `Object` and
`Class` and links them. `stack[t]` holds the activations of thread `t`, each a
record with the name, the step it is at and what is still to load; a call pushes
a record (`CallFrom`), `Return` pops one and leaves the class object in
`ret[t]`. Class objects are numbers; `table` is the loader's class table and
`objs` what the objects are linked to.

| Variable | Code |
|---|---|
| `world` | where `JvmSysLocateClass` finds each class, and what its file says |
| `table`, `deferred` | the class table and the class state table |
| `objs` | the class objects, with superclass, interfaces, Object and Class links |
| `stack`, `ret`, `api` | activations of the recursive loader, its result, the user interface's call |

`JvmDependsInit`, loading from a file by name, loading the bytes of a JAR entry
(which registers without a look at the table) and array classes are the calls
(`Begin`, `FromFile`, `FromJar`, `ArrayClass`). A class file is sound, or has a
format error, or an unsupported version, or is not there; what its constant pool
and methods hold is an input. The mutexes of the loader are passed by value
(`Jvmsys.c:165`): each acquire enters the critical section of a copy. They
exclude nobody, so any step of one thread may come between two of another; and
the early returns that leave a mutex acquired (`jvmloadr.c:1852`) hold up nobody,
for the same reason. This is why no action mentions them.

### Monitors: JavaMonitor

One object's lock: owner, level count, the count of threads at the lock, the
entry set and the wait set as linked lists, and the event with which `osapi.c`
suspends a thread. `Enter` reads the owner, `Take` and `Block` act on what was
read; `Exit` gives the lock up and `HandOver` looks for a thread to resume;
`Wait` gives the lock up and enters the wait set, `Prepare` makes the event, and
`Wake` ends a suspension; `Notify` and `NotifyAll` take nodes from the wait set.

`JvmWait` never sets the backward link of the node it puts in front, which comes
from a plain allocation: in the model it is `Garbage`, until the next waiter makes
the node its successor's. `JvmNotify` follows that link of the last node. If another
node is before it the link is good; a lone waiter's leads anywhere. The thread may
stop there (`NotifyStops`), or write through the link and make it the tail: the set
is then a `WildSet` of freed nodes and garbage, and `cut` remembers it. It is assumed
that the wild write hits nothing the model keeps. On a wild set `NotifyWild` resumes
any thread or none, `Wait` leaves it wild, and `NotifyAllWild` empties it or never
ends (`stuck`); `NotifyStops` stands for the crash each of them may come to as well.
It is also a build with `JVM_DEBUG`, which asserts `ju16Index <= 0` in `JvmNotify`:
that no thread waits, where one does.

The mutex around these calls is again a copy. `Overlap` says whether calls of
two threads may be under way at once. With it, exclusion fails at once, which is
a finding. Without it the model has just the schedules in which the calls happen
not to overlap, and shows what the calls themselves do:

* `JvmAcquireLock` puts a blocked thread on no list at all; it never returns
  (`BlockedForEver`).
* `JvmReleaseLock` then finds nobody and follows a null pointer, unless the
  thread is the only one counted at the lock (`ReleaseReturnsOnlyOnce`).
* `JvmWait` gives the lock up but is counted for ever (`ThreadCountDrifts`), and
  a woken thread goes on without the lock.
* Until a lone waiter is notified the wait set is a list that holds exactly the
  threads that wait, with every backward link but the first; while it is a list at
  all, nobody is on it who has been notified (`WaitSetIsAList`). Who is notified
  wakes (`NotifiedWakes`).
* Once the set has been cut, a notify may resume anybody: `BlockedForEver` promises
  nothing any more.

### One frame: ByteCode

The state is the operand stack as an array of words, its top, and the local
variables, as the handlers of `Jvmrt.c` leave them, next to what the instructions
mean: `want` is a sequence of cells that know whether they are an int or half of
a long or a double. The guards are those of verified code, by the meaning: an
instruction is executed only if operands of its types are there. So every
sequence the model executes is one a compiler may emit. `Executes(n, out, cells)`
is an instruction that reads `n` words and leaves `out` where it means `cells`.

Indices are unsigned in the code and nothing is checked. The model stops at the
first access outside stack or locals (`wild`), for nothing can be said after it,
and when a branch goes where the code does not say.

Handlers that do not do what their instruction means, each kept as it is:

* `ladd` and `lsub` leave the top one word too low, `dcmpl` and `dcmpg` two words
  too high; `TopDrifts` says that this is all that ever moves it, and StackIsExact
  that every other handler is right as long as these have not been executed;
* the short stores take the index from the byte behind the instruction, which is
  the next opcode (`StoreShort`, `StoreOutside`);
* `bipush`, `sipush`, `iinc` and `i2l` lose the sign of a negative number;
* constants of doubles are converted to whole numbers (`PushDouble`);
* `ifeq` and the like take the offset as unsigned, `if_icmpeq` and the like
  compare the operands the other way round and put the offset in the place of
  the pc (`IfZero`, `IfCompare`).

The flag `skewed` and the counters `sums` and `dcmps` record by the *meaning* of
the instructions executed that one of these was, never by looking at the words.

### Calls: CallFrames

Here a program is a few methods, and each has code with an instruction's first
byte and its operand bytes as elements, so that a pc in the wrong place executes
what really stands there. `slots` is the block of frames, `next` the number of those
handed out, `chain` the frames that `pjsfPrevFrame` leads to from `pjsfCurrFrame`, and
`envs` the execution environments. The loop of `JvmByteCodeExecute` reads the pc of
the current frame (`Cur`), but an instruction works on the frame of the current
environment (`Used`). They are the same until an exception has come down to a frame.

`CallStatic` and `CallOnObject` (`invokespecial`, `invokevirtual`) set up a frame;
`CallInterface` never does, for `invokeinterface` insists on an abstract method and
then reads the code that it does not have; `Return`, `AReturn` and `DReturn` are the
three handlers that exist, each with its check of the method's return type. A static
call may take one word below the operand stack: the top is unsigned and wraps, which
is -1 here, and the next push puts it back to 0. `Catch` and `Unwind` are
`JvmThrowRealJavaException`: a frame catches where it stands, with the environment
that happens to be the last one; one that does not is destroyed, and the frame under
it is left too. `AssertFails` is a build with `JVM_DEBUG`.

The block of frames is reallocated when it is full. `mem_realloc` always moves, so
`stale` counts the frames that are reached by old pointers from then on; if there is
no memory it copies to a null pointer. `lost` is a history variable: the highest frame
of the chain that an exception has come down to. What the runs show:

* the code behind an `invokevirtual` or `invokespecial` is never executed: the
  method called returns to the start of its caller (`NeverPastACallOnObject`);
* what the search for a handler goes down from is never given back: two frames go,
  one slot is returned and no environment (`FramesLeak`);
* a frame that an exception has come down to, and every frame below it, never gets
  past an instruction again: `nop` moves the pc of a frame that is gone, and the
  loop reads that of the frame that caught (`StandsStill`). Only another exception
  changes that;
* freed frames are used after a whole block has been filled, or after an exception
  has come down to a frame, and never otherwise (`FramesStayValid`);
* no thread comes to a good end: `JvmByteCodeExecute` looks at the frame of `main`
  after `main` has returned. A thread may go on for ever in a handler that only says
  that it was called, or once an exception has come down (`EveryRunEndsBadly`). The
  programs of the run push an object before a call on it, and none loops through
  handlers in its own frame; one that does may go on for ever as well.

---------------------------------------------------------------------------

## 3. The runs

| Run | Config | What it asks | Bounds |
|---|---|---|---|
| `linklist_impl` | LinkListImpl | ring, tail, count, refinement | 4 nodes, 4 data, 2 misses |
| `event_pool` | EventPool | one event, never empty, walks end | 3 events, 4 threads |
| `os_threads` | OsThreads | the safety properties below | 2 cache cleaners, 1 Java thread, 2 flushes |
| `os_threads_live` | OsThreadsLive | start-up under fairness | the same, 1 flush |
| `os_exit_hang` | OsThreadsExitHang | finding: `_os_exit` may wait for ever | the same, 1 flush |
| `buddy_mem` | BuddyMem | the allocator used by one thread | units of 2, pools of 4, requests to 8, 2 pools |
| `buddy_shared` | BuddyMemShared | finding: two callers own the same memory | 2 threads, pools of 8 |
| `class_loader` | ClassLoader | loaded once, linked, failures deferred, loading ends | 4 classes and an array class, 8 class paths, 2 threads |
| `java_monitor` | JavaMonitor | lock, wait set and counts, calls that do not overlap | 4 threads, 2 levels, 5 waits |
| `monitor_excludes` | JavaMonitorOverlap | finding: two owners | 2 threads, 2 levels, 2 waits |
| `byte_code` | ByteCode | stack, locals and place of execution are what the code means | 4 words, 2 bytes, stack of 6, 2 locals, 5 instructions |
| `call_frames` | CallFrames | calls, returns, exceptions, freed frames | programs of 1 to 6 methods, stack of 6, blocks of 4 of 8 frames |

Why the bounds are enough. *Lists*: the cases of a deletion are one node, the
head, the tail, the node before the head, the node before the tail, and an
inner one; four nodes have all of them, in every position of the tail. *Pool*:
osapi.c creates two events; three make sure that head and tail of the free list
may have something between them. Four threads hold more events than there are.
*Threads*: two cleaners share a queue (its sharing is what breaks), one thread
has its own; three threads at one condition variable are the least at which two
share slot 0 and a third has another. Two flushes and two `TM_EXIT` on one
queue are enough for a message to be overtaken. *Allocator*: block sizes 2, 4
and 8 with pools that start at 4 need an expansion for a request of 8, split
down two levels, and need the second pool. `MaxPools` bounds `mem_alloc`'s
attempts: beyond it `MakePool` is not taken, but `MakePoolFails` still is.
*Loader*: a class treats another in one of the roles superclass, interface,
Object, Class and array element, and that class is sound, flawed or missing;
the eight class paths of `MCWorlds` have these pairs and the three kinds of
cycle with the fewest classes that make them. Two threads are enough for one to
come between another's look at the table and its registration. A load without a
cycle of superclasses needs fewer than `MaxDepth` activations, which
`OnlySuperCyclesOverflow` shows; `MaxObjects` bounds reloads from a JAR.
*Monitor*: one thread notifies while three wait, so that a node in the middle of
the wait set has neighbours on both sides; two levels distinguish an inner
release from the last one; five waits let threads wait again. *Byte code*: the
stack holds two longs or doubles and two words more, the most any instruction
here needs; a byte that is negative and one that is not, a word of each kind;
five instructions produce operands, spoil the stack and use it. The theorem of part 4
has none of these bounds. *Calls*: blocks of four frames fill within four calls,
and the reallocated block of eight is the last; exceptions come from one to five
calls down, so that they pass the handler or reach it, in a block that has moved or
has not, and a second one comes after a first was caught further down. What a
handler begins with is each kind of instruction.

`MCBuddyMem!MCView` leaves out of a state the words that are not read before
they are written again, which holds for one thread. `MCSymmetry` permutes the
flushes, and node and data names in the list run; it is not used with liveness.
`CHECK_DEADLOCK FALSE` is set where the program may really stop: after `_os_exit`;
when the allocator has come to one of its ends; when the loader's recursion has
used up the stack; when every thread is blocked or waiting or a null pointer has
ended the process; when a thread has left its code or ended; and in `byte_code`
when the bound on instructions is reached.

Modules whose type invariant is a conjunct of a structural invariant
(`RingIsClosed`, `RingsStayClosed`, `BlocksFillThePool`, `LinksComplete`,
`WaitSetIsAList`, `StackIsExact`, `FramesStayValid`) check it there.

What the passing runs show of `OsThreads`:

* `WaiterHoldsItsLock`: between its test and its entry in the map a waiter
  owns the lock, so a message cannot slip in unseen *there*.
* `CountIsWaiters`: `count` is right although the slots are not.
* `EachMessageOnce`: each posted message is on a queue, in a hand, done or
  written off, and only one of these.
* `UsageIsUsers`, `ThdListIsAlive`: reference counts and thread list tell the
  truth at every moment until the shutdown destroys the list.
* `EnoughExits`: though cleaners take each other's `TM_EXIT`, there are never
  fewer than threads to stop.
* `NoWorkBeforeInit`: the gate holds.

What the passing run shows of `ClassLoader`: a name gets a second class object
from a JAR, from a second thread, or from a cycle, and never otherwise
(`LoadedOnce`); a class whose load has ended is linked to everything around it
that has a sound file, and to NULL for what has none (`LinksComplete`), so a
class with a missing superclass is loaded (`DeferredIsUnsound`, which the other
way round says that no sound class is ever reported as failed); an unsupported
version ends up reported as a format error, since each caller defers an exception
of its own over the first (`VersionIsOverwritten`); and loading ends, but for a
class that is its own superclass (`LoadingEnds`, `OnlySuperCyclesOverflow`).

What the findings show, and how they go together. The pool gives all waiters
one event. A woken waiter resets that event, and clears a slot that a second
waiter may share. A worker that has released its lock and not yet reached
`WaitForSingleObject` then blocks although it was signalled. If this happens
with its `TM_EXIT` posted, `_os_exit` never returns (`ExitCompletes`). The
positive counterpart is `SomeWorkerStarts`: at least one worker always gets
past the gate, since the last one to take the wakeup back is awake itself.
`buddy_shared`: `mem_free` works without the lock, and the buddy it is about to
merge may be given away meanwhile. `monitor_excludes`: both threads read that
there is no owner.

Three more facts of the models, which no comment of the code denies. An event in
use is also offered as free (that it is the one event for all is
`OneEventForAll`). `_os_exit` may post a `TM_EXIT` through the record of a thread
that has left and been freed (`PostToFreed`). And the allocator may make a
new pool although it has a free block large enough, since unlinking the head of a
list loses the blocks behind it (`MergeBuddy`, `EmptyPoolIsWhole`).

Fairness. *OsThreads* (`FairSpec`): weak fairness for each worker: the Windows scheduler
runs every runnable thread, and a job ends. The jobs are a `mem_free` and
start routines of Java threads; that a start routine ends is an assumption.
`LateThreadRuns` does not need it, since it asks only that the routine begins.
Weak fairness for the main thread's `InitComplete`, `PostExit`, `BeginJoin`,
`TearDown`: `JvmInit` reaches its end, and an `_os_exit` that began goes on.
`Gather`, flushes and thread creation have none: nobody must call them.
`os_exit_hang` is a violation under all of this, so the hang is not a matter of
a thread that was not scheduled. *ClassLoader*: weak fairness for a step of each
thread that is inside the loader; nothing in it waits, as the mutexes exclude
nobody. Nobody must call the loader. *JavaMonitor*: weak fairness for each thread
inside a call (`GoesOn`, and `Enter` once it has been woken from the entry set); a
suspended thread goes on only if its event is set. `Wake` has strong fairness: it is
enabled only between the calls of other threads, and waits for none of them.
*CallFrames*: one thread that goes on by itself.

The operators marked `Faulty` in the modules are what the code would be with a
plausible mistake in it. Each property is violated when one of them takes the
place of the correct operator; PROJECT.json lists the pairs. They are in no
next-state relation.

---------------------------------------------------------------------------

## 4. The proofs

`OsThreadsProofs` proves for any finite number of Java threads and any set of
flushes, from `ThreadsAssumption` alone (the sets are disjoint, `Solo` is
finite, `NIL` is neither a thread nor a message):

| Theorem | States |
|---|---|
| `InvHolds` | `Spec => []Inv`, the inductive invariant |
| `TypesHold` | `TypeOK` |
| `LocksAreHeld` | `WaiterHoldsItsLock` |
| `CountsAreRight` | `CountIsWaiters` |
| `UsageIsRight` | `UsageIsUsers` |
| `ThdListIsRight` | `ThdListIsAlive` |
| `GateHolds` | `NoWorkBeforeInit` |
| `MessagesAreConserved` | `EachMessageOnce` |
| `ExitsAreEnough` | `EnoughExits` |

    Inv == TypeOK /\ ListsInv /\ GateInv /\ WaiterHoldsItsLock
           /\ CountIsWaiters /\ UsageIsUsers /\ ThdListIsAlive

Why each part is needed. `TypeOK` says that a slot is inside the map; the slot
comes from `count`, so it needs `CountIsWaiters` and that a thread is not yet
among the waiters when it registers (then `count` is at most the number of
threads less one). `CountIsWaiters` needs `WaiterHoldsItsLock` for no thread to
leave between registration and wait. `ListsInv`: every list is well formed, its
tail a position of it; without it `NextData` of a queue could be outside the
sequence. `GateInv` strengthens `NoWorkBeforeInit` to: a worker is at the gate or
at its own queue, it is past the gate only once `inited` is set, and only such
workers run messages. `UsageIsUsers` follows step by step from the set
of live threads of a queue losing or gaining one member. `ThdListIsAlive` needs
`DeleteDataListed` of the list lemmas, which needs that the items are distinct:
deleting an entry takes that entry and no other.

There is a lemma for each part and each group of actions (`LeaveKeepsTypes`,
`WorkerKeepsTypes`, `NextKeepsLocks`, ...), with a step per action.

Two more invariants stand on this one. `MessagesInv`: every message is at one
place (a queue, a hand, done, lost) or not posted yet and nowhere, no queue holds
one twice, and those that `CreateThread` and `PostExit` are still to post have not
been posted. `EachMessageOnce` says this with sums of cardinalities, which the
invariant avoids: a set with one member says the same and a step changes at most one of
them. `ExitsInv`, for `EnoughExits`, counts on each queue the threads `_os_exit`
has noted and that are alive against its exits posted and to come; it needs that an
exit never leaves the queue of the thread it was made for (`RightQueue`) and that
the crew is alive when the shutdown begins. A cleaner that obeys the exit of the
other one takes one from both sides.

The first section of the module holds the lemmas about lists of every length:
`AddDataWellFormed`, `AddDataListed`, `AddDataDistinct`, and the same three for
`DeleteData`, `NextDataListed`, and under them what `RemoveAt` and `InsertAt`
do to the elements of a sequence.

`LinkListImplProofs` and `EventPoolProofs` begin with rings of nodes of any size.
`Cycle(next, s)` says that `next` follows the sequence `s` around. `WalkAround`
relates it to the recursive function `Walk` by which `LinkHeap` reads a ring, and
`CycleIsShort` bounds its length; `MoveNodeMoves`, with the lemmas under it, says
what moving a node from one ring to another does to both. The induction theorems of
the library take an operator; `LeastOf` and `NatSetInduction` say the same of a set
of numbers, which is enough for every induction in these modules.

`LinkListImplProofs`, for any set of nodes and data, from `NodeAssumption` alone:

| Theorem | States |
|---|---|
| `InvHolds` | `Spec => []Inv` |
| `NodesAreOwned` | `RingIsClosed` |
| `QueuesServe` | `QueueNeverHidesItems` |
| `CountIsOff` | `CountDriftsByMisses` |
| `NodesImplementList` | `ImplementsLinkList`, the refinement of `LinkList` |

    Inv == Typed /\ \E s : Listing(mem, header, allocated, misses, s)

The invariant names the ring: some sequence `s` is all that is allocated, in the
order of `next` from the head; `prev` undoes `next` along it and the tail is on it
(`Shape`); the data in it differ (`Valued`); `count` is its length less the misses.
None of the three properties is inductive. That the ring is closed does not say
that the deletion finds the node whose data it copies, and that `tail` is
moved when *that* node is freed is what `QueueNeverHidesItems` depends on. Each
operation has a lemma that says what it does to `s` (`Inserted`, `Shrunk`), and one
that says what a caller sees of it (`SeenDeleted` and the like); the refinement puts
the second on top of the first.

`EventPoolProofs`, for any number of events (two at least) and threads, from
`PoolAssumption` alone (the nodes are created in some order, each once):

| Theorem | States |
|---|---|
| `InvHolds` | `Spec => []Inv` |
| `EventIsShared` | `OneEventForAll` |
| `RingsAreClosed` | `RingsStayClosed` |
| `AlwaysOffers` | `PoolNeverRunsOut` |

    Inv == memory, headers typed /\ Closed /\ Carries
           /\ free.head = E1 /\ free.tail = E2 /\ held \in [Threads -> {NIL, E2}]

What carries all three is that the free list keeps the head and the tail
`pool_create` gave it, which are different nodes: the tail is what is offered, for
ever, and no move takes the head. `Closed` is needed for the search of
`link_list_move_node` to find the node of an event and its true predecessor.

`BuddyMemProofs`, for any sizes of blocks and pools, any number of pools and any
sequence of calls, from `BuddyAssumption` alone and for one caller (`OneCaller`):

| Theorem | States |
|---|---|
| `FillsThePool` | `BlocksFillThePool` |
| `MergesBuddies` | `BuddiesAreMerged` |
| `ListsHoldFree` | `ListsHoldFreeBlocks` |
| `EmptyIsWhole` | `EmptyPoolIsWhole` |
| `OneCallerDisjoint` | `OwnedDisjoint` |

    IInv(c) == TypeOK /\ CallOK(c) /\ (\A k : PoolOK(c, k))
               /\ \A o \in owned : o.pool <= Len(pools)

`OneCaller` is a hypothesis because `mem_free` does not take `g_mem_lock`: with two
callers `OwnedDisjoint` fails, which is the finding of `buddy_shared`. For one caller
it is a theorem, in the middle of its calls too.

The properties speak of a pool between calls; the invariant has to speak of it in the
middle of `mem_free`. `PoolIs` says that some set of addresses cuts the pool: the
blocks that begin there lie at multiples of their size and follow one another to its
end (`Cut`), the free ones are linked both ways with those of their tag and no two are
buddies (`Listed`), the reserved ones are the caller's (`Owns`). Between calls the
words in memory are the tags of these blocks (`AtEase`). While a block is being merged,
one block of the pool is in the hands of `mem_free`, on no list and nobody's, and has
the size merged so far (`Merging`). A free block may be on no list: `Listed` says
where the heads and the links of free blocks lead, and that a block is reached only
for the one that is the whole pool (`Whole`). For `EmptyIsWhole` that is enough: when
nothing is owned all blocks are free, and as no two of them are buddies there is one.

A size is `2 ^ k`, which the provers know nothing about. `SizeDoubles` counts subsets
of `1 .. k`: half of those of `1 .. k + 1` have `k + 1` in them. From it follow
`Sizes` and what `get_buddy` computes, the other half of the aligned block twice as
large. `Starts` is recursive; that it is the set of the cut is an induction over
addresses.

`JavaMonitorProofs`, for any number of threads, levels and waits, from
`MonitorAssumption` (the threads are finitely many) and `~ Overlap`:

| Theorem | States |
|---|---|
| `InvHolds` | `~ Overlap => (Spec => []Inv)` |
| `Exclusion` | `MonitorExcludes` |
| `CountDrifts` | `ThreadCountDrifts` |
| `ReleasesReturn` | `ReleaseReturnsOnlyOnce` |
| `SetIsAList` | `WaitSetIsAList` |
| `BlockedStay` | `BlockedForEver` |

    Inv == Types /\ Alone /\ SawOwner /\ FreeIsUnlocked /\ NobodyQueued
           /\ MonitorExcludes /\ ThreadCountDrifts

`MonitorExcludes` alone is not inductive: `Take` acts on the owner that `Enter`
read. `Alone` (at most one thread is inside the calls) and `SawOwner` (what a
thread inside `JvmAcquireLock` has read is still the owner) close this gap, and
the run with `Overlap` shows that nothing but `Alone` does. `FreeIsUnlocked` says
that a lock without an owner has no levels, `NobodyQueued` that the entry set
never has a node; from it follows that a release finds nobody, and so returns only
if the count of threads is one, which `ThreadCountDrifts` says is before any wait.

The wait set has an invariant of its own, `SetInv`, over `Inv`. That pointers of
neighbours agree would allow a ring besides the list, so `Listed` says that some
sequence of threads is the set, with the first node's backward link `Garbage`, or that
the set is wild; and until it is cut, that the sequence is everybody who waits.
`EventsOK` says that the event of a blocked thread is clear before that, and that a
waiting thread has one. `BlockedStay` follows: until the set is cut, what resumes a
thread is a node of it, and a blocked thread has none.

`ClassLoaderProofs`, for every class path, any classes and threads and every
depth of the stack, from `LoaderAssumption` alone (well-typed class files; `NIL`
is neither a name nor a call), but for the last three:

| Theorem | States |
|---|---|
| `InvHolds` | `Spec => []Inv` |
| `TypesHold` | `TypeOK` |
| `DeferredAreUnsound` | `DeferredIsUnsound` |
| `VersionsAreOverwritten` | `VersionIsOverwritten` |
| `LinksAreComplete` | `LinksComplete`, until a thread runs out of stack |
| `LoadsOnce` | `LoadedOnce`, for finitely many classes and `PlainCore` |
| `OnlySuperCycles` | `OnlySuperCyclesOverflow`, for finitely many classes and `MaxDepth > DepthNeeded` |
| `LinksAreNeverCut` | `LinksComplete`, where no class is its own superclass, under the same two |

    Inv == WellTyped /\ StackOK /\ TableOK /\ AnswersOK
           /\ DeferredIsUnsound /\ VersionsArePassing
    LinkInv == Inv /\ (crashed \/ LinksOK)
    OnceInv == CoreFirst /\ Tabled /\ \A t : Chains(t) /\ Fresh(t) /\ FreshArray(t)
    Served(t), for OnlySuperCycles

`DeferredIsUnsound` needs that a null result means what it should:
`AnswersOK` says that the answer a waiting activation has got tells whether the
class it wanted can be loaded, and `StackOK` that each activation waits for the
one above it and has what is left of the list of its needs. `VersionsArePassing`
says who will overwrite an unsupported version: a thread that has just got null
for that class. `LinksOK` adds what each activation has linked so far (`ActLinks`)
and that no class object is filled in by two activations, of one thread or of two
(`OneBuilder`). The run checks `LinksComplete` in states too where a thread has run
out of stack: there `MaxDepth` is such that only a cycle of superclasses overflows,
before a class object is made. The theorem is for every `MaxDepth`, and a smaller one
stops a load between two links, so it excludes these states.

`LoadsOnce` is about one thread, since `LoadedOnce` leaves out what another one has
loaded. A thread registers a class a second time only if it has looked at the table
before it registered it for the first time, that is, if it loads the class again on
behalf of an activation of that class that still waits for its superclass. `Chains`
says what such work is for: every activation above one that is at `super` is a class
above it by `Above`, or is `Object` or `Class` and about to be found in the table. The
second half holds because `JvmDependsInit` loads these two before all else
(`CoreFirst`, with the shape of the stack meanwhile in `BootShape`). `Fresh` says that
what a thread is loading it has not made, unless the class is above itself. That
`Above` is closed under superclasses and interfaces is `GrowthCloses`: a set that
grows within a finite set stops growing after as many rounds as it has elements.

`PlainCore` is what every class path has: `Object` has no superclass and no
interfaces, `Class` extends `Object` or nothing, and `Class` can be loaded only where
`Object` can, or else implements nothing. All class paths of the run satisfy it, and
without it the property is false: with `Object` missing and a `Class` that implements
A, where A extends B, a thread that loads A loads B first, for B it loads `Class`, for
`Class` it loads and registers A, and then it registers A again (TLC finds this with
such a class path in `MCWorlds`).

`OnlySuperCycles` bounds the recursion for every class path without a cycle of
superclasses. `DepthNeeded` is `(n + 1) * (n + 2) + 1` for `n` classes. `Served`: of
two activations of one class, the lower one at its needs, the upper one is still
before its look at the table, which will find the class. So an activation that waits
is told from all the others by its name and the name of the last one below it that is
at its needs (`Mark`): between two with the same mark all would wait for their
superclass, and the class would be above itself (`SupersClimb`). There are no more of
them than marks (`DepthBound`, by the pigeonhole principle). The run shows that nine
activations are enough for its class paths; the bound of the theorem is not tight, but
one is needed for every number of classes.

`CallFramesProofs`, for any programs, stack size and block size, from the module's
assumptions: a block has a frame at least, and programs are what a compiler emits
(`ProgramsAssumption`: an index is behind each call, no instruction that goes on is
the last one, handlers are inside the code):

| Theorem | States |
|---|---|
| `InvHolds` | `Spec => []Inv` |
| `FramesAreValid` | `FramesStayValid` |
| `NothingBehindCallsOnObjects` | `NeverPastACallOnObject` |
| `ExceptionsLeak` | `FramesLeak` |
| `CaughtFramesStandStill` | `StandsStill` |

    Inv == Typed /\ Chained /\ Leaves /\ Aligned /\ LostInChain
           /\ (status = "freed" => MayDangle)

`Chained` says that the frames of the chain rise in the block and none of them is given
back, so that a new frame's slot is in nobody's way although slots are lost. `Leaves`
is the count of `FramesLeak`. `Aligned` compares frames and environments from the top:
a frame above `lost` has its own environment, and any other one of a frame that was
further up. With `Chained` the current environment is then never that of a frame an
exception has come down to, nor of one below it, whatever is called there: this is why
such frames stand still, and why freed frames are used. `Typed` has the frames in
`GoodFrames`: a pc that stands on a byte of the code, with no call on an object before
it unless the method has handlers.

`ByteCodeProofs`, for every width of words and bytes, any stack larger than the
code needs, and sequences of any length, from `ByteCodeAssumption` alone:

| Theorem | States |
|---|---|
| `InvHolds` | `Spec => []Inv` |
| `StackStaysExact` | `StackIsExact` |
| `TopDriftsOnly` | `TopDrifts` |

    Inv == TypeOK /\ StackIsExact /\ TopDrifts

The type of what an instruction reads depends on where the top is, and where it
is on what was executed, so the three go together. `StackOnly` says in general:
an instruction that takes `n` words and leaves `out` keeps the invariant if, while
the stack is exact, `out` is what it means; `BranchesKeeps` says the same of the
place of execution. Each handler has a lemma that shows just what it leaves
(`ShuffleKeeps` the six dup instructions at once, by what each repeats). For
`ladd` and `lsub` it takes a lemma that the sum of two longs splits into two words.

Only model-checked:

* Liveness under fairness (`SomeWorkerStarts`, `LateThreadRuns`, `NotifiedWakes`,
  `LoadingEnds`, `EveryRunEndsBadly` and the finding `ExitCompletes`), which is out of
  the reach of the prover, as is `ENABLED`.
* That the theorems' hypotheses are what the code needs: the violations that show what
  two callers of the allocator (`buddy_shared`) and overlapping calls of a monitor
  (`monitor_excludes`) do are found by TLC.

---------------------------------------------------------------------------

## 5. What is abstracted or left out

* Lists: data other than pointers, cursors kept across other
  calls, the list's own lock. Callers in the modelled code hold a lock.
* Pool: `pool_destroy`; creating a further item and waiting for one, which
  `PoolNeverRunsOut` shows are never reached.
* Threads: failure of Windows calls and of allocations (a NULL thread or
  message), growth of the condition map past 16 slots (assumed to succeed), the
  limit of 64 handles of `WaitForMultipleObjects`, timeouts (all callers pass 0,
  which is INFINITE), `_post_back` (0 in every message). The suspend and resume
  dictionary is in `JavaMonitor`. Races inside the allocator are in `BuddyMem`, not here.
* Allocator: `mem_calloc`, `mem_realloc` and `mem_dup` (an allocation, a copy, a
  free), `mem_exit`, statistics, a failing `realloc` in `mem_expand_block`, and
  contents of memory. Sizes are powers of two in units; the five words of
  management at the start of a block are part of its smallest size.
* Loader: class loaders written in Java, preparation and initialisation of
  classes, the checks of constant pool, fields and methods (a file passes them or
  not), parsing of signatures.
* Monitors: several priorities (the sets are per priority), a time limit for a
  wait (the code does not pass it on), interruption, the states of
  `java.lang.Thread`.
* Interpreter: see below. In `CallFrames` the height of an operand stack stands
  for its contents, classes are loaded and initialised, methods are neither native
  nor synchronized, and programs do not branch. Where a conversion of a double or
  a comparison of doubles has a value that depends on its bits, it may be any
  (`Doubles`, the parameter of `CompareDoubles`).

### Not modelled

The map covers a small part of the lines of the repository, and the greater part
of the rest has nothing a state machine could say:

* Info-ZIP's unzip, more than 15,000 lines of third-party code with its headers.
* The user interface: MFC documents, views, dialogs and their drawing.
* Parsing of class files, constant pools and signatures, conversions of strings,
  printing, configuration, error messages: functions of their input. What they
  yield is an input of `ClassLoader`.
* Native methods: conversions of arguments around a call.
* Some fifty byte-code handlers whose body is `JvmDisplay("Dummy handler
  called")` or says that it is not implemented, and `athrow`, which does no more
  than look at its operand; `CallFrames!Spin` stands for them. Floating-point handlers compute
  what the C compiler computes.
* Arrays, fields and objects: contents of memory at addresses. The handlers have
  mistakes of their own (`aastore` writes element `1 + jawIndex`, `aaload` reads
  element `jawIndex`), which part 6 takes up.
* `bintree.c`, which nothing uses; `stream.c`, which only the debug listing of code
  uses; test programs and older copies of files.
* Reference counts of strings (`Jvmsprng.c`): the modelled components compare and
  keep names and never read a count. The races on the counts are listed among the
  hazards without a property.
* Jump buffers of `JVM_TRY`. A jump to one whose function has returned is
  undefined, and a model could only say that anything may follow.
* Running out of memory outside the allocator.

---------------------------------------------------------------------------

## 6. What could come next

In order of what it would add:

1. Arrays and fields: a heap of arrays with their lengths and elements, and
   `newarray`, `aastore`, `iastore`, `aaload`, `arraylength` on it, against arrays
   by their meaning, as `ByteCode` does for the stack; then `ifnull`, `ifnonnull`.
2. `ByteCode` and `CallFrames` as one machine: arguments that a call moves from a
   stack to the locals, and branches by pc.
3. `Springs`: allocate, clone, free of interned strings and the bucket lists of
   `Hashtabl.c`; reference counts against references held, once a component
   depends on them.
4. Proofs: every invariant and every action property of the passing runs is a theorem
   now. What is left is without the hypotheses: a tighter bound than `DepthNeeded`, and
   what one caller of the allocator may rely on when another only allocates.
