----------------------------- MODULE ClockAlarms -----------------------------
(***************************************************************************)
(* One eCos counter with its alarms (clock.cxx): ticks, alarm functions,   *)
(* and the calls that set up alarms, which alarm functions make as well.   *)
(*                                                                         *)
(* All of this runs under the scheduler lock, so there is one activity at  *)
(* a time.  What makes it hard is reentrancy: tick() and add_alarm() call  *)
(* alarm functions in the middle of their work, and those change the alarm *)
(* list and the very alarm being handled.  Each call under way is a frame. *)
(***************************************************************************)
EXTENDS Integers, SequencesExt

CONSTANTS
    Alarms,         \* the alarms attached to the counter
    NoAlarm,        \* no alarm in particular
    Word,           \* cyg_tick_count arithmetic wraps at this (2^64)
    Increments,     \* what a tick may add to the counter
    SortList,       \* CYGIMP_KERNEL_COUNTERS_SORT_LIST: builds with and without
    Offsets,        \* initialize() is called with trigger counter + offset
    Intervals,      \* ... and one of these intervals
    Calls,          \* the alarm calls this program makes
    Reentrant,      \* may an alarm be set again from inside its add_alarm()?
    MaxCount,       \* bound: the counter
    MaxDepth,       \* bound: frames an alarm function may call from
    MaxCalls        \* bound: calls one run of an alarm function makes

ASSUME WordAssumption ==
    /\ Word \in Nat /\ Increments \subseteq 1..Word-1
    /\ Offsets \subseteq Int /\ Intervals \subseteq Nat
ASSUME ConfigAssumption ==
    NoAlarm \notin Alarms /\ SortList \subseteq BOOLEAN /\ Reentrant \in BOOLEAN
ASSUME AlarmBoundAssumption == {MaxCount, MaxDepth, MaxCalls} \subseteq Nat

VARIABLES
    increment,      \* what this counter adds per tick
    sorted,         \* is its list kept sorted?  Both are fixed from the start
    counter,        \* the counter's value
    trigger, interval, enabled,     \* the fields of each alarm
    alarm_list,     \* the alarms linked to the counter, head first
    frames,         \* the calls under way, innermost first
    start,          \* history: the trigger last asked of initialize()
    calls           \* history: calls of the alarm function since then, while an
                    \* alarm set to a time to come is left alone; else Ignored

fields == <<trigger, interval, enabled>>
config == <<increment, sorted>>
vars == <<config, counter, fields, alarm_list, frames, start, calls>>

\* scan: the loop of tick(); call: about to call the function of the alarm
\* it took off the list; run: in that function, which may make `left` more
\* calls; added: add_alarm() called the function and goes on after it.
Ignored == -1
Frame == [pc : {"scan", "call", "run", "added"}, alarm : Alarms \cup {NoAlarm},
          left : 0..MaxCalls]
frame(p, a) == [pc |-> p, alarm |-> a, left |-> IF p = "run" THEN MaxCalls ELSE 0]

At(p)    == frames # <<>> /\ Head(frames).pc = p
AtRest   == frames = <<>>
self     == Head(frames).alarm
linked   == Range(alarm_list)
Adding   == {f.alarm : f \in {g \in Range(frames) : g.pc = "added"}}

-----------------------------------------------------------------------------
(* Operators on an alarm's fields and on the list.                         *)

\* Mutant: the new trigger counts from now.
synchronize_drifts(t, i) ==
    LET d == (counter + i - t) % Word
    IN  IF i # 0 /\ d > i THEN counter + i ELSE t

\* synchronize(): the trigger t moved to the next whole interval.  The
\* subtraction is unsigned.
synchronize(t, i) ==
    LET d == (counter + i - t) % Word
    IN  IF i # 0 /\ d > i THEN (t + i * ((d - 1) \div i)) % Word ELSE t

\* Mutant: the sorted list is not kept sorted.
insert_unsorted(list, a, t) == Append(list, a)

\* Insertion at the tail, or before the first alarm that triggers later.
\* t maps each alarm to its trigger.
insert(list, a, t) ==
    LET later == {n \in 1..Len(list) : t[list[n]] > t[a]}
    IN  IF sorted /\ later # {}
        THEN InsertAt(list, CHOOSE n \in later : \A m \in later : n <= m, a)
        ELSE Append(list, a)

count(c, a) == IF c[a] = Ignored THEN c ELSE [c EXCEPT ![a] = @ + 1]

\* remove(): of an alarm that is not linked, nothing.
unlink(list, a) ==
    IF a \in Range(list) THEN RemoveAt(list, CHOOSE n \in DOMAIN list : list[n] = a) ELSE list

\* add_alarm(a) with trigger t, interval i; rest is what follows it, called
\* the calls counted before.  An alarm already due is not linked: its function
\* is called first.
add_alarm(a, t, i, list, rest, called) ==
    /\ trigger'  = [trigger EXCEPT ![a] = t]
    /\ interval' = [interval EXCEPT ![a] = i]
    /\ enabled'  = [enabled EXCEPT ![a] = TRUE]
    /\ IF t <= counter
       THEN /\ alarm_list' = list
            /\ frames' = <<frame("run", a), frame("added", a)>> \o rest
            /\ calls' = count(called, a)
       ELSE /\ alarm_list' = insert(list, a, trigger')
            /\ frames' = rest
            /\ calls' = called

-----------------------------------------------------------------------------
(* Calls, from a thread or DSR at rest or from an alarm function.          *)

\* Who calls may call once more; the frames after it did.
Caller == AtRest \/ (At("run") /\ Head(frames).left > 0 /\ Len(frames) <= MaxDepth)
Called == IF AtRest THEN <<>>
          ELSE <<[Head(frames) EXCEPT !.left = @ - 1]>> \o Tail(frames)

\* A program that is not Reentrant leaves alarms being added alone.
MaySet(a) == Reentrant \/ a \notin Adding

afresh(a, t) == [calls EXCEPT ![a] = IF t > counter THEN 0 ELSE Ignored]

\* Mutant: the alarm is linked again without being unlinked.
initialize_linked(a, t, i) ==
    /\ "initialize" \in Calls /\ Caller /\ MaySet(a)
    /\ add_alarm(a, t, i, alarm_list, Called, afresh(a, t))
    /\ start'  = [start EXCEPT ![a] = t]
    /\ UNCHANGED <<config, counter>>

\* initialize(): an enabled alarm is unlinked first.
initialize(a, t, i) ==
    /\ "initialize" \in Calls /\ Caller /\ MaySet(a)
    /\ add_alarm(a, t, i, IF enabled[a] THEN unlink(alarm_list, a) ELSE alarm_list,
                 Called, afresh(a, t))
    /\ start'  = [start EXCEPT ![a] = t]
    /\ UNCHANGED <<config, counter>>

enable(a) ==
    /\ "enable" \in Calls /\ Caller /\ MaySet(a) /\ ~enabled[a]
    /\ add_alarm(a, synchronize(trigger[a], interval[a]), interval[a], alarm_list,
                 Called, [calls EXCEPT ![a] = Ignored])
    /\ UNCHANGED <<config, counter, start>>

disable(a) ==
    /\ "disable" \in Calls /\ Caller /\ enabled[a]
    /\ alarm_list' = unlink(alarm_list, a)
    /\ enabled' = [enabled EXCEPT ![a] = FALSE]
    /\ calls'   = [calls EXCEPT ![a] = Ignored]
    /\ frames'  = Called
    /\ UNCHANGED <<config, counter, trigger, interval, start>>

-----------------------------------------------------------------------------
(* The alarm functions and their callers.                                  *)

\* The alarm function returns.
FunctionReturns ==
    /\ At("run")
    /\ frames' = Tail(frames)
    /\ UNCHANGED <<config, counter, fields, alarm_list, start, calls>>

\* add_alarm() after the immediate call: a periodic alarm that was not
\* disabled meanwhile is linked with its next trigger.
Requeue(next) ==
    /\ At("added")
    /\ frames' = Tail(frames)
    /\ IF interval[self] # 0 /\ enabled[self]
       THEN /\ trigger' = [trigger EXCEPT ![self] = next]
            /\ alarm_list' = insert(alarm_list, self, trigger')
            /\ enabled' = enabled
       ELSE /\ enabled' = [enabled EXCEPT ![self] = FALSE]
            /\ UNCHANGED <<trigger, alarm_list>>
    /\ UNCHANGED <<config, counter, interval, start, calls>>

\* Mutant: one interval on, however far behind the trigger is.
AddedRequeues_unsynchronized == Requeue(trigger[self] + interval[self])

AddedRequeues ==
    Requeue(synchronize((trigger[self] + interval[self]) % Word, interval[self]))

-----------------------------------------------------------------------------
(* tick().                                                                 *)

tick ==
    /\ AtRest /\ counter + increment <= MaxCount
    /\ counter' = counter + increment
    /\ frames' = <<frame("scan", NoAlarm)>>
    /\ UNCHANGED <<config, fields, alarm_list, start, calls>>

\* The alarms the loop would handle next: the first that is due, of a sorted
\* list only the head.
Due == LET due == {n \in 1..Len(alarm_list) : trigger[alarm_list[n]] <= counter}
       IN  {n \in due : (\A m \in due : n <= m) /\ (sorted => n = 1)}

\* Mutant: no rescan after an alarm function was called.
ScanFindsDue_once ==
    /\ At("scan")
    /\ \E n \in Due :
        LET a    == alarm_list[n]
            list == unlink(alarm_list, a)
            rest == <<frame("call", a)>>
        IN  IF interval[a] # 0
            THEN add_alarm(a, (trigger[a] + interval[a]) % Word, interval[a], list, rest,
                           calls)
            ELSE /\ enabled' = [enabled EXCEPT ![a] = FALSE]
                 /\ alarm_list' = list
                 /\ frames' = rest
                 /\ UNCHANGED <<trigger, interval, calls>>
    /\ UNCHANGED <<config, counter, start>>

\* A due alarm is unlinked and, if periodic, queued again before its function
\* is called; the scan then starts anew.
ScanFindsDue ==
    /\ At("scan")
    /\ \E n \in Due :
        LET a    == alarm_list[n]
            list == unlink(alarm_list, a)
            rest == <<frame("call", a)>> \o frames
        IN  IF interval[a] # 0
            THEN add_alarm(a, (trigger[a] + interval[a]) % Word, interval[a], list, rest,
                           calls)
            ELSE /\ enabled' = [enabled EXCEPT ![a] = FALSE]
                 /\ alarm_list' = list
                 /\ frames' = rest
                 /\ UNCHANGED <<trigger, interval, calls>>
    /\ UNCHANGED <<config, counter, start>>

TickCallsAlarm ==
    /\ At("call")
    /\ calls' = count(calls, self)
    /\ frames' = <<frame("run", self)>> \o Tail(frames)
    /\ UNCHANGED <<config, counter, fields, alarm_list, start>>

TickDone ==
    /\ At("scan") /\ Due = {}
    /\ frames' = Tail(frames)
    /\ UNCHANGED <<config, counter, fields, alarm_list, start, calls>>

-----------------------------------------------------------------------------

Init == /\ increment \in Increments /\ sorted \in SortList
        /\ counter = 0
        /\ trigger = [a \in Alarms |-> 0] /\ interval = [a \in Alarms |-> 0]
        /\ enabled = [a \in Alarms |-> FALSE]
        /\ alarm_list = <<>> /\ frames = <<>>
        /\ start = [a \in Alarms |-> 0] /\ calls = [a \in Alarms |-> Ignored]

Next == \/ \E a \in Alarms :
             \/ \E o \in Offsets, i \in Intervals :
                   counter + o >= 0 /\ initialize(a, counter + o, i)
             \/ enable(a) \/ disable(a)
        \/ FunctionReturns \/ AddedRequeues
        \/ tick \/ ScanFindsDue \/ TickCallsAlarm \/ TickDone

Spec == Init /\ [][Next]_vars

-----------------------------------------------------------------------------
(* Properties.                                                             *)

AlarmTypeOK ==
    /\ increment \in Increments /\ sorted \in SortList /\ counter \in 0..Word-1
    /\ trigger \in [Alarms -> 0..Word-1] /\ interval \in [Alarms -> Nat]
    /\ enabled \in [Alarms -> BOOLEAN]
    /\ alarm_list \in Seq(Alarms) /\ frames \in Seq(Frame)
    /\ start \in [Alarms -> Nat] /\ calls \in [Alarms -> Nat \cup {Ignored}]

\* An alarm is linked to the counter exactly while it is enabled, and never
\* twice, whatever alarm functions did to it in the middle of its handling
\* ("to allow an immediate handler call to manipulate this alarm sensibly",
\* clock.cxx:289); only while add_alarm() calls its function it is not.
LinkedWhileEnabled ==
    /\ \A n, m \in 1..Len(alarm_list) : alarm_list[n] = alarm_list[m] => n = m
    /\ \A a \in Alarms \ Adding : enabled[a] <=> a \in linked

\* Between ticks no enabled alarm is overdue: "ensure the next alarm time is
\* in our future" (clock.cxx:313).
NoneOverdue == AtRest => \A a \in linked : trigger[a] > counter

\* An enabled periodic alarm has the next trigger of its original schedule,
\* "as if they had never been disabled" (clock.cxx:738): in phase with start,
\* no occurrence left out and none before start.
OnSchedule ==
    AtRest => \A a \in linked :
        IF interval[a] = 0 THEN trigger[a] = start[a]
        ELSE /\ trigger[a] >= start[a]
             /\ (trigger[a] - start[a]) % interval[a] = 0
             /\ trigger[a] > start[a] => trigger[a] - interval[a] <= counter

\* An alarm set to a time to come and left alone since has had its function
\* called once for each trigger that has passed, alarm functions of the same
\* tick notwithstanding.
CalledAtEachTrigger ==
    AtRest => \A a \in Alarms : calls[a] # Ignored =>
        calls[a] = CASE counter < start[a] -> 0
                     [] counter >= start[a] /\ interval[a] = 0 -> 1
                     [] counter >= start[a] /\ interval[a] > 0 ->
                          (counter - start[a]) \div interval[a] + 1
=============================================================================
