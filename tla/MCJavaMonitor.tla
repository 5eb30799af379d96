--------------------------- MODULE MCJavaMonitor ---------------------------
(* Four threads: one can notify while three wait, and the middle of the    *)
(* wait set has neighbours on both sides.                                  *)
EXTENDS JavaMonitor

CONSTANTS t1, t2, t3, t4

MCThreads == {t1, t2, t3, t4}
MCTwo     == {t1, t2}
=============================================================================
