----------------------------- MODULE DsrQueueMC -----------------------------
(* A small instance of DsrQueue: three interrupts, posts counted to two.   *)
EXTENDS DsrQueue

CONSTANTS i1, i2, i3, null, nothing
=============================================================================
