----------------------------- MODULE MCBuddyMem -----------------------------
(* Pools of a few smallest blocks, requests up to a size no new pool has.  *)
EXTENDS BuddyMem

CONSTANTS c1, c2

MCOneClient  == {c1}
MCTwoClients == {c1, c2}

\* With one client the words in the middle of a block are written before they
\* are read again, and so are next and prev of a reserved one: states that only
\* differ in those are the same.
LiveWords(p) ==
  << p.maxTag, p.avail, [b \in Blocks(p) |-> << p.tag[b], p.res[b] >>],
     [b \in FreeBlocks(p) |-> << p.next[b], p.prev[b] >>] >>

MCView ==
  << [k \in 1 .. Len(pools) |-> LiveWords(pools[k])], last, pc, job, owned, heap >>
=============================================================================
