---------------------------- MODULE MCEventPool ----------------------------
(* Four waiting threads on a pool of three events, one more than osapi.c   *)
(* creates, so that head and tail have a neighbour between them.           *)
EXTENDS EventPool

CONSTANTS e1, e2, e3, t1, t2, t3, t4

MCNode    == {e1, e2, e3}
MCOrder   == << e1, e2, e3 >>
MCThreads == {t1, t2, t3, t4}
=============================================================================
