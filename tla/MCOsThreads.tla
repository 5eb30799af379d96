---------------------------- MODULE MCOsThreads ----------------------------
(* The two cache cleaners, one thread of the JVM, two flushes.              *)
EXTENDS OsThreads

CONSTANTS w1, w2, s1, f1, f2

MCSolo    == {s1}
MCFlushes == {f1, f2}

\* Liveness is checked with one flush.
MCOneFlush == {f1}

\* The flush jobs are alike.
MCSymmetry == Permutations(MCFlushes)
=============================================================================
