---------------------------- MODULE SchedulerMC ----------------------------
(* A small instance of Scheduler: two user threads of one priority, which  *)
(* set_priority() can change, above Idle.                                  *)
EXTENDS Scheduler

CONSTANTS a, b, idle, dev, noq

TwoUsers == [t \in {a, b, idle} |-> IF t = idle THEN 2 ELSE 1]
=============================================================================
