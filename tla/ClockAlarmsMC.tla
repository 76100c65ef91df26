--------------------------- MODULE ClockAlarmsMC ---------------------------
(* Small instances of ClockAlarms: one or two alarms, a counter of a few   *)
(* ticks, a word wide enough that only a negative difference wraps.        *)
EXTENDS ClockAlarms

CONSTANTS a1, a2, noalarm

BothAlarms == Permutations({a1, a2})

\* Not more than an interval ahead, and not a whole number of them behind.
NearOffsets == {-3, -1, 0, 1, 2}
FarOffsets  == {1, 5}
=============================================================================
