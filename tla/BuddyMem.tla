------------------------------ MODULE BuddyMem ------------------------------
(***************************************************************************)
(* The buddy allocator of mem.c, which every other part of the program     *)
(* takes its memory from.                                                  *)
(*                                                                         *)
(* A pool is one main block of 2^maxTag units.  An address is the offset   *)
(* of a block in its pool's main block, and the five words at the start of *)
(* a block are the functions tag, res, next and prev on addresses: what is *)
(* no longer the start of a block keeps the words it had.  avail is the    *)
(* table of free lists, one per tag.                                       *)
(*                                                                         *)
(* mem_pool_alloc and mem_pool_init hold g_mem_lock, so each is one step.  *)
(* mem_alloc goes from pool to pool without it, and mem_free never takes   *)
(* it: those are several steps, and other calls may come between them.     *)
(***************************************************************************)
EXTENDS Integers, Sequences, FiniteSets

CONSTANTS Clients,  \* the threads that allocate and free
          MinTag,   \* tag of the smallest block: the five words need 5
          BlockTag, \* BLOCK_TAG_SIZE: tag of a pool's main block
          MaxTag,   \* bound: the largest request
          MaxPools  \* bound: how often mem_alloc makes a pool

ASSUME BuddyAssumption ==
  /\ {MinTag, BlockTag, MaxTag, MaxPools} \subseteq Nat
  /\ 0 < MinTag /\ MinTag <= BlockTag /\ BlockTag <= MaxTag /\ MaxPools > 0

NULL == -1

Tags == MinTag .. MaxTag
Addr == {a \in 0 .. 2 ^ MaxTag - 1 : a % 2 ^ MinTag = 0}

VARIABLES pools, \* g_mem_info
          last,  \* MEM_MEMPOOLINDEX(BASE_POOL) + 1
          pc,    \* where each client is in its call
          job,   \* the locals of that call
          owned, \* history: the blocks handed out and not given back
          heap   \* "ok", or how the allocator came to an end

vars == << pools, last, pc, job, owned, heap >>

-----------------------------------------------------------------------------
\* mem_pool_init: one free block of the size of the pool, zeroes elsewhere.
NewPool(maxTag) ==
  [maxTag |-> maxTag,
   avail  |-> [k \in Tags |-> IF k = maxTag THEN 0 ELSE NULL],
   tag    |-> [a \in Addr |-> IF a = 0 THEN maxTag ELSE 0],
   res    |-> [a \in Addr |-> FALSE],
   next   |-> [a \in Addr |-> NULL],
   prev   |-> [a \in Addr |-> NULL]]

\* mem_allocate_block: the head of the list of tag k is taken, and while it is
\* larger than the request its upper half goes on the list below.  Those lists
\* are empty, for k is the smallest tag with a block.
AllocateBlock(p, k, req) ==
  LET b     == p.avail[k]
      split == {i \in Tags : req <= i /\ i < k}
      half  == {b + 2 ^ i : i \in split}
  IN  [p EXCEPT
         !.avail = [i \in Tags |-> IF i = k THEN p.next[b]
                                   ELSE IF i \in split THEN b + 2 ^ i ELSE @[i]],
         !.tag   = [a \in Addr |-> IF a = b THEN req
                                   ELSE IF a \in half
                                   THEN CHOOSE i \in split : a = b + 2 ^ i ELSE @[a]],
         !.res   = [a \in Addr |-> IF a \in half \cup {b} THEN a = b ELSE @[a]],
         !.next  = [a \in Addr |-> IF a \in half THEN NULL ELSE @[a]],
         !.prev  = [a \in Addr |-> IF a \in half \cup {p.next[b]} THEN NULL ELSE @[a]]]

\* mem_expand_block: a pool whose main block is free grows to the request.
CanExpand(p) == p.tag[0] = p.maxTag /\ ~ p.res[0]

Expanded(p, req) ==
  [p EXCEPT !.maxTag = req,
            !.avail  = [k \in Tags |-> IF k = req THEN 0 ELSE NULL]]

\* mem_pool_alloc: the tags a request can be served from, smallest first.
Fits(p, req) == {k \in Tags : req <= k /\ k <= p.maxTag /\ p.avail[k] # NULL}

Smallest(S) == CHOOSE k \in S : \A j \in S : k <= j

CanServe(p, req) == Fits(p, req) # {} \/ CanExpand(p)

Served(p, req) ==
  IF Fits(p, req) # {} THEN AllocateBlock(p, Smallest(Fits(p, req)), req)
  ELSE AllocateBlock(Expanded(p, req), req, req)

ServedAt(p, req) ==
  IF Fits(p, req) # {} THEN p.avail[Smallest(Fits(p, req))] ELSE 0

\* get_buddy.  A block as large as its pool has its buddy right behind the
\* pool, which the comparison with ptr_max lets pass.
Buddy(a, k) == IF a % 2 ^ (k + 1) # 0 THEN a - 2 ^ k ELSE a + 2 ^ k

Idle == [pool |-> 1, addr |-> 0, tag |-> MinTag]

Init ==
  /\ pools = << NewPool(BlockTag) >>
  /\ last = 1
  /\ pc = [c \in Clients |-> "idle"]
  /\ job = [c \in Clients |-> Idle]
  /\ owned = {}
  /\ heap = "ok"

Goto(c, label) == pc' = [pc EXCEPT ![c] = label]

-----------------------------------------------------------------------------
(* mem_alloc.  job[c].pool is current_pool_index + 1, job[c].addr holds    *)
(* last_pool until a block is found.                                       *)

StartAlloc(c, req) ==
  /\ pc[c] = "idle"
  /\ Goto(c, "probe")
  /\ job' = [job EXCEPT ![c] = [pool |-> 1, addr |-> last, tag |-> req]]
  /\ UNCHANGED << pools, last, owned, heap >>

\* The block goes to the caller.
Take(c) ==
  LET k == job[c].pool
      r == job[c].tag
  IN  /\ owned' = owned \cup {[pool |-> k, addr |-> ServedAt(pools[k], r), tag |-> r]}
      /\ pools' = [pools EXCEPT ![k] = Served(@, r)]
      /\ job' = [job EXCEPT ![c] = Idle]
      /\ Goto(c, "idle")

ProbeServes(c) ==
  /\ pc[c] = "probe" /\ job[c].pool <= job[c].addr
  /\ CanServe(pools[job[c].pool], job[c].tag)
  /\ Take(c)
  /\ UNCHANGED << last, heap >>

ProbeFails(c) ==
  /\ pc[c] = "probe" /\ job[c].pool <= job[c].addr
  /\ ~ CanServe(pools[job[c].pool], job[c].tag)
  /\ job' = [job EXCEPT ![c].pool = @ + 1]
  /\ UNCHANGED << pools, last, pc, owned, heap >>

\* mem_pool_init for the next pool.  When another call has made that pool in
\* between, its main block is replaced under the blocks handed out from it.
MakePool(c) ==
  /\ pc[c] = "probe" /\ job[c].pool > job[c].addr
  /\ job[c].pool <= MaxPools
  /\ LET r == job[c].tag
         new == NewPool(IF r > BlockTag THEN r ELSE BlockTag)
     IN  IF job[c].pool > Len(pools)
         THEN pools' = Append(pools, new) /\ UNCHANGED heap
         ELSE heap' = "pool replaced" /\ UNCHANGED pools
  /\ Goto(c, "retry")
  /\ UNCHANGED << last, job, owned >>

\* calloc has no memory for it: g_mem_info is freed and cleared, which the next
\* call does not survive, and this one returns NULL.
MakePoolFails(c) ==
  /\ pc[c] = "probe" /\ job[c].pool > job[c].addr
  /\ heap' = "no table"
  /\ job' = [job EXCEPT ![c] = Idle]
  /\ Goto(c, "idle")
  /\ UNCHANGED << pools, last, owned >>

\* Another call may have taken the new pool's block first: then it is NULL.
Retry(c) ==
  /\ pc[c] = "retry"
  /\ IF CanServe(pools[job[c].pool], job[c].tag)
     THEN last' = job[c].pool /\ Take(c)
     ELSE /\ job' = [job EXCEPT ![c] = Idle]
          /\ Goto(c, "idle")
          /\ UNCHANGED << pools, last, owned >>
  /\ UNCHANGED heap

-----------------------------------------------------------------------------
(* mem_free.  job[c] is the block as merged so far.                        *)

StartFree(c, b) ==
  /\ pc[c] = "idle"
  /\ b \in owned
  /\ owned' = owned \ {b}
  /\ IF pools[b.pool].res[b.addr]
     THEN /\ job' = [job EXCEPT ![c] = [b EXCEPT !.tag = pools[b.pool].tag[b.addr]]]
          /\ Goto(c, "merge")
     ELSE UNCHANGED << pc, job >>
  /\ UNCHANGED << pools, last, heap >>

Merges(j) ==
  LET b == Buddy(j.addr, j.tag)
      p == pools[j.pool]
  IN  j.tag < p.maxTag /\ ~ p.res[b] /\ p.tag[b] = j.tag

\* The words behind the pool are not the allocator's: what they hold may look
\* like anything, and so the process may go on or be lost.
ReadPastEnd(c) ==
  /\ pc[c] = "merge" /\ job[c].tag = pools[job[c].pool].maxTag
  /\ heap' = "read past the pool"
  /\ UNCHANGED << pools, last, pc, job, owned >>

FindBuddy(c) ==
  /\ pc[c] = "merge"
  /\ Goto(c, IF Merges(job[c]) THEN "unlink" ELSE "release")
  /\ UNCHANGED << pools, last, job, owned, heap >>

\* Faulty: the free list keeps pointing at the merged buddy.
UnlinkedKeepsHead(p, b, k) ==
  [p EXCEPT
     !.next = [a \in Addr |-> IF a = p.prev[b] THEN p.next[b] ELSE @[a]],
     !.prev = [a \in Addr |-> IF a = p.next[b] THEN p.prev[b] ELSE @[a]]]

\* The buddy leaves its list.  When it was the head, the list is cleared and
\* the blocks behind it are on no list any more.
Unlinked(p, b, k) ==
  [p EXCEPT
     !.next = [a \in Addr |-> IF a = p.prev[b] THEN p.next[b] ELSE @[a]],
     !.prev = [a \in Addr |-> IF a = p.next[b] THEN p.prev[b] ELSE @[a]],
     !.avail[k] = IF @ = b THEN NULL ELSE @]

\* Faulty: the merged block begins where the freed one did.
MergeKeepsBlock(c) ==
  LET j == job[c]
  IN  /\ pc[c] = "unlink"
      /\ pools' = [pools EXCEPT ![j.pool] = Unlinked(@, Buddy(j.addr, j.tag), j.tag)]
      /\ job' = [job EXCEPT ![c].tag = @ + 1]
      /\ Goto(c, "merge")
      /\ UNCHANGED << last, owned, heap >>

\* Faulty: the buddy of the merged block is not looked at.
MergeOnce(c) ==
  LET j == job[c]
      b == Buddy(j.addr, j.tag)
  IN  /\ pc[c] = "unlink"
      /\ pools' = [pools EXCEPT ![j.pool] = Unlinked(@, b, j.tag)]
      /\ job' = [job EXCEPT ![c].tag = @ + 1, ![c].addr = IF b < @ THEN b ELSE @]
      /\ Goto(c, "release")
      /\ UNCHANGED << last, owned, heap >>

MergeBuddy(c) ==
  LET j == job[c]
      b == Buddy(j.addr, j.tag)
  IN  /\ pc[c] = "unlink"
      /\ pools' = [pools EXCEPT ![j.pool] = Unlinked(@, b, j.tag)]
      /\ job' = [job EXCEPT ![c].tag = @ + 1, ![c].addr = IF b < @ THEN b ELSE @]
      /\ Goto(c, "merge")
      /\ UNCHANGED << last, owned, heap >>

\* The merged block becomes the head of its list.
Released(p, b, k) ==
  [p EXCEPT
     !.tag[b] = k, !.res[b] = FALSE, !.next[b] = p.avail[k],
     !.prev = [a \in Addr |-> IF a = b THEN NULL
                              ELSE IF a = p.avail[k] THEN b ELSE @[a]],
     !.avail[k] = b]

Release(c) ==
  LET j == job[c]
  IN  /\ pc[c] = "release"
      /\ pools' = [pools EXCEPT ![j.pool] = Released(@, j.addr, j.tag)]
      /\ job' = [job EXCEPT ![c] = Idle]
      /\ Goto(c, "idle")
      /\ UNCHANGED << last, owned, heap >>

-----------------------------------------------------------------------------
Next ==
  /\ heap = "ok"
  /\ \E c \in Clients :
       \/ \E req \in Tags : StartAlloc(c, req)
       \/ ProbeServes(c) \/ ProbeFails(c)
       \/ MakePool(c) \/ MakePoolFails(c)
       \/ Retry(c)
       \/ \E b \in owned : StartFree(c, b)
       \/ ReadPastEnd(c) \/ FindBuddy(c) \/ MergeBuddy(c) \/ Release(c)

Spec == Init /\ [][Next]_vars

-----------------------------------------------------------------------------
Pool ==
  [maxTag : Tags,
   avail  : [Tags -> Addr \cup {NULL}],
   tag    : [Addr -> Tags \cup {0}],
   res    : [Addr -> BOOLEAN],
   next   : [Addr -> Addr \cup {NULL}],
   prev   : [Addr -> Addr \cup {NULL}]]

TypeOK ==
  /\ pools \in Seq(Pool) /\ Len(pools) \in 1 .. MaxPools
  /\ last \in 1 .. MaxPools
  /\ pc \in [Clients -> {"idle", "probe", "retry", "merge", "unlink", "release"}]
  /\ job \in [Clients -> [pool : 1 .. MaxPools + 1, addr : Addr \cup 1 .. MaxPools, tag : Tags]]
  /\ owned \subseteq [pool : 1 .. MaxPools, addr : Addr, tag : Tags]
  /\ heap \in {"ok", "no table", "pool replaced", "read past the pool"}

AtRest == \A c \in Clients : pc[c] = "idle"

(* The blocks of a pool, found by stepping from its start over one block   *)
(* after the other by the size in its tag.                                 *)
Starts(p) ==
  LET reached[a \in 0 .. 2 ^ p.maxTag] ==
        a = 0 \/ \E b \in Addr : b < a /\ reached[b] /\ p.tag[b] > 0 /\ b + 2 ^ p.tag[b] = a
  IN  {a \in 0 .. 2 ^ p.maxTag : reached[a]}

Blocks(p) == Starts(p) \ {2 ^ p.maxTag}

FreeBlocks(p) == {b \in Blocks(p) : ~ p.res[b]}

(* Between calls every pool is cut into blocks that lie at multiples of    *)
(* their size and fill it exactly, and the reserved ones among them are    *)
(* those the callers have, in the size they were given: whatever the order *)
(* of requests, splits and merges, no two callers share memory and none    *)
(* is forgotten.                                                           *)
BlocksFillThePool ==
  TypeOK /\ (AtRest => \A k \in 1 .. Len(pools) :
    LET p == pools[k]
    IN  /\ 2 ^ p.maxTag \in Starts(p)
        /\ \A b \in Blocks(p) : b % 2 ^ p.tag[b] = 0
        /\ {[pool |-> k, addr |-> b, tag |-> p.tag[b]] : b \in Blocks(p) \ FreeBlocks(p)}
             = {b \in owned : b.pool = k})

(* Between calls no two free buddies are left apart.                       *)
BuddiesAreMerged ==
  AtRest => \A k \in 1 .. Len(pools) :
    LET p == pools[k]
    IN  \A b, d \in FreeBlocks(p) :
          p.tag[b] = p.tag[d] /\ b # d => Buddy(b, p.tag[b]) # d

(* Between calls the head of every free list is a free block of that tag,  *)
(* next leads to another one that prev leads back from: the next request   *)
(* is served from memory nobody has.  Not every free block is on its list. *)
ListsHoldFreeBlocks ==
  AtRest => \A k \in 1 .. Len(pools) : \A i \in Tags :
    LET p == pools[k]
        ofTag == {b \in FreeBlocks(p) : p.tag[b] = i}
    IN  /\ p.avail[i] \in ofTag \cup {NULL}
        /\ p.avail[i] # NULL => p.prev[p.avail[i]] = NULL
        /\ \A b \in ofTag : p.next[b] # NULL => p.next[b] \in ofTag /\ p.prev[p.next[b]] = b

(* A pool from which everything has been given back is one listed block    *)
(* again, although lists lose blocks on the way: nothing is lost for good. *)
EmptyPoolIsWhole ==
  AtRest => \A k \in 1 .. Len(pools) :
    (\A b \in owned : b.pool # k) => pools[k].avail[pools[k].maxTag] = 0

Memory(b) == {[pool |-> b.pool, unit |-> u] : u \in b.addr .. b.addr + 2 ^ b.tag - 1}

(* Two blocks in use have no memory in common.  mem.c, note 17: "Any block *)
(* overwrites is obviously unacceptable".                                  *)
OwnedDisjoint ==
  \A b, d \in owned : b # d => Memory(b) \cap Memory(d) = {}
=============================================================================
