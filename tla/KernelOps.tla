------------------------------ MODULE KernelOps ------------------------------
(***************************************************************************)
(* The data structures of the eCos kernel's scheduler and threads, and the *)
(* functions of mlqueue.cxx, sched.cxx and thread.cxx that change them.    *)
(*                                                                         *)
(* Every one of these functions runs with the scheduler lock held, where   *)
(* no thread switch and no DSR can happen, and ISRs never touch this data. *)
(* Each is therefore a function from one kernel state to the next, and the *)
(* nested lock()/unlock() pairs inside them, which only count up and down, *)
(* disappear.  The uniprocessor configuration with timeslicing, thread     *)
(* timers and FIFO wait queues is modelled.                                *)
(***************************************************************************)
EXTENDS Integers, Sequences

CONSTANTS
    Threads,        \* all threads, Idle among them
    Idle,           \* the idle thread
    MinPriority,    \* CYG_THREAD_MIN_PRIORITY, the worst priority, Idle's own
    WaitQueues,     \* the wait queues of the synchronization objects
    NoQueue,        \* thread->queue == NULL
    Quantum,        \* CYGNUM_KERNEL_SCHED_TIMESLICE_TICKS
    CountMod        \* timeslice_count is unsigned: it wraps at this (2^32)

ASSUME ThreadsAssumption  == Idle \in Threads
ASSUME PriorityAssumption == MinPriority \in Nat \ {0}
ASSUME QueueAssumption    == NoQueue \notin WaitQueues
ASSUME QuantumAssumption  == /\ Quantum \in Nat \ {0}
                             /\ CountMod \in Nat
                             /\ Quantum < CountMod

Priorities == 0..MinPriority

\* The bits of Cyg_Thread::state; RUNNING is the absence of them all.
StateBits == {"SLEEPING", "COUNTSLEEP", "SUSPENDED", "EXITED"}
RUNNING   == {}
SLEEPSET  == {"SLEEPING", "COUNTSLEEP"}
Reasons   == {"NONE", "WAIT", "DELAY", "TIMEOUT", "BREAK", "EXIT", "DONE"}

\* The fields of Cyg_Scheduler_Base / Cyg_Scheduler_Implementation, then
\* those of each Cyg_Thread (with its Cyg_SchedThread base).
KernelState ==
    [ run_queue          : [Priorities -> Seq(Threads)],
      queue_map          : SUBSET Priorities,
      current_thread     : Threads,
      need_reschedule    : BOOLEAN,
      slice              : 0..CountMod-1,   \* the CPU's timeslice_count
      wait_queue         : [WaitQueues -> Seq(Threads)],
      state              : [Threads -> SUBSET StateBits],
      priority           : [Threads -> Priorities],
      queue              : [Threads -> WaitQueues \cup {NoQueue}],
      timeslice_count    : [Threads -> 0..CountMod-1],
      suspend_count      : [Threads -> Nat],
      wakeup_count       : [Threads -> Nat],
      sleep_reason       : [Threads -> Reasons],
      wake_reason        : [Threads -> Reasons],
      timer              : [Threads -> BOOLEAN],  \* its alarm is enabled
      mutex_count        : [Threads -> Nat],
      priority_inherited : [Threads -> BOOLEAN],
      original_priority  : [Threads -> Priorities] ]

-----------------------------------------------------------------------------
(* clist.hxx: the circular lists threads are queued on, head first.        *)

holds(q, t) == \E i \in 1..Len(q) : q[i] = t
position(q, t) == CHOOSE i \in 1..Len(q) : q[i] = t

\* Unlinking a node that is on no list leaves every list as it is.
remove(q, t) ==
    IF holds(q, t)
    THEN LET p == position(q, t)
         IN  [i \in 1..Len(q)-1 |-> IF i < p THEN q[i] ELSE q[i+1]]
    ELSE q

rotate(q) == IF q = <<>> THEN q ELSE Append(Tail(q), Head(q))

-----------------------------------------------------------------------------
(* mlqueue.cxx: the multi-level queue scheduler.                           *)

\* HAL_LSBIT_INDEX(queue_map): the best priority with a runnable thread.
lowest_bit(map) == CHOOSE p \in map : \A q \in map : p <= q

schedule(k) == Head(k.run_queue[lowest_bit(k.queue_map)])

set_need_reschedule(k) == [k EXCEPT !.need_reschedule = TRUE]

\* The overload for a thread that became runnable or changed its priority.
set_need_reschedule_for(k, t) ==
    LET current == k.current_thread
    IN  IF \/ k.priority[current] > k.priority[t]
           \/ k.state[current] # RUNNING
        THEN set_need_reschedule(k)
        ELSE k

timeslice_save(k, t)    == [k EXCEPT !.timeslice_count[t] = k.slice]
timeslice_restore(k, t) == [k EXCEPT !.slice = k.timeslice_count[t]]
timeslice_reset(k, t)   == [k EXCEPT !.timeslice_count[t] = Quantum]

\* Cyg_ThreadQueue: enqueue at the tail, remove from wherever it waits.
enqueue(k, q, t) == [k EXCEPT !.wait_queue[q] = Append(@, t), !.queue[t] = q]

leave_queue(k, t) ==
    IF k.queue[t] = NoQueue THEN k
    ELSE [k EXCEPT !.wait_queue[k.queue[t]] = remove(@, t),
                   !.queue[t] = NoQueue]

link(k, t) ==
    LET pri == k.priority[t]
    IN  [k EXCEPT !.run_queue[pri] = Append(@, t),
                  !.queue_map = @ \cup {pri}]

\* Mutant: nobody is told that a better thread became runnable.
add_thread_untold(k, t) == timeslice_reset(link(leave_queue(k, t), t), t)

add_thread(k, t) ==
    timeslice_reset(set_need_reschedule_for(link(leave_queue(k, t), t), t), t)

\* Mutant: the bitmap bit goes even when the queue keeps other threads.
rem_thread_clears_bit(k, t) ==
    LET pri == k.priority[t]
    IN  [k EXCEPT !.run_queue[pri] = remove(@, t), !.queue_map = @ \ {pri}]

rem_thread(k, t) ==
    LET pri  == k.priority[t]
        rest == remove(k.run_queue[pri], t)
    IN  [k EXCEPT !.run_queue[pri] = rest,
                  !.queue_map = IF rest = <<>> THEN @ \ {pri} ELSE @]

\* Rotate the current thread's run queue.
rotate_current(k) ==
    [k EXCEPT !.run_queue[k.priority[k.current_thread]] = rotate(@)]

current_is_head(k) ==
    LET q == k.run_queue[k.priority[k.current_thread]]
    IN  q # <<>> /\ Head(q) = k.current_thread

\* Mutants: the queue is not rotated; the counter is not set again; the
\* rotation is not followed by a reschedule.
timeslice_cpu_stays(k) ==
    IF k.state[k.current_thread] # RUNNING THEN k
    ELSE [k EXCEPT !.slice = Quantum, !.need_reschedule = TRUE]
timeslice_cpu_keeps_count(k) ==
    IF k.state[k.current_thread] # RUNNING THEN k
    ELSE [rotate_current(k) EXCEPT !.need_reschedule = TRUE]
timeslice_cpu_silent(k) ==
    IF k.state[k.current_thread] # RUNNING THEN k
    ELSE [rotate_current(k) EXCEPT !.slice = Quantum]

\* The slice ran out: hand over to the next thread of the same priority.
timeslice_cpu(k) ==
    LET rotated == [rotate_current(k) EXCEPT !.slice = Quantum]
    IN  IF k.state[k.current_thread] # RUNNING THEN k
        ELSE IF current_is_head(rotated) THEN rotated
        ELSE set_need_reschedule(rotated)

\* Mutant: the counter goes on below zero.
timeslice_signed(k) ==
    LET ticked == [k EXCEPT !.slice = @ - 1]
    IN  IF ticked.slice = 0 THEN timeslice_cpu(ticked) ELSE ticked

\* Called from the clock DSR.  The counter is unsigned.
timeslice(k) ==
    LET ticked == [k EXCEPT !.slice = (@ + CountMod - 1) % CountMod]
    IN  IF ticked.slice = 0 THEN timeslice_cpu(ticked) ELSE ticked

\* yield(), up to its unlock_reschedule(), called by the current thread.
yield(k) ==
    LET rotated == rotate_current(k)
    IN  IF k.state[k.current_thread] # RUNNING THEN k
        ELSE IF current_is_head(rotated)
             THEN timeslice_reset(rotated, k.current_thread)
             ELSE set_need_reschedule(rotated)

rotate_queue(k, pri) ==
    IF k.run_queue[pri] = <<>> THEN k
    ELSE set_need_reschedule([k EXCEPT !.run_queue[pri] = rotate(@)])

-----------------------------------------------------------------------------
(* thread.inl and thread.cxx: threads.                                     *)

set_sleep_reason(k, reason) ==
    [k EXCEPT !.sleep_reason[k.current_thread] = reason,
              !.wake_reason[k.current_thread] = "NONE"]

set_wake_reason(k, t, reason) ==
    [k EXCEPT !.sleep_reason[t] = "NONE", !.wake_reason[t] = reason]

\* set_timer(): a trigger that is already past calls the alarm at once,
\* which the caller of this operator adds (see alarm below).
set_timer(k, reason) ==
    [set_sleep_reason(k, reason) EXCEPT !.timer[k.current_thread] = TRUE]

clear_timer(k, t) == [k EXCEPT !.timer[t] = FALSE]

sleep(k) ==
    LET current == k.current_thread
        removed == IF k.state[current] = RUNNING
                   THEN rem_thread(k, current) ELSE k
    IN  [removed EXCEPT !.state[current] = @ \cup {"SLEEPING"}]

\* Back on the run queue if nothing else keeps the thread off it.
runnable_again(k, t) ==
    IF k.state[t] = RUNNING THEN add_thread(k, t) ELSE k

wake(k, t) ==
    IF k.state[t] \cap SLEEPSET = {} THEN k
    ELSE runnable_again(
           leave_queue([k EXCEPT !.state[t] = @ \ SLEEPSET], t), t)

counted(k) == [sleep(k) EXCEPT !.state[k.current_thread] = @ \cup {"COUNTSLEEP"}]

\* counted_sleep() while no wakeup is queued, and the consuming of one.
counted_sleep(k) == counted(set_sleep_reason(k, "WAIT"))
timed_counted_sleep(k) == counted(set_sleep_reason(k, "TIMEOUT"))
consume_wakeup(k) == [k EXCEPT !.wakeup_count[k.current_thread] = @ - 1]

counted_wake(k, t) ==
    IF "COUNTSLEEP" \notin k.state[t]
    THEN [k EXCEPT !.wakeup_count[t] = @ + 1]
    ELSE wake(set_wake_reason(k, t, "DONE"), t)

cancel_counted_wake(k, t) == [k EXCEPT !.wakeup_count[t] = 0]

suspend(k, t) ==
    LET removed == IF k.state[t] = RUNNING THEN rem_thread(k, t) ELSE k
    IN  [removed EXCEPT !.suspend_count[t] = @ + 1,
                        !.state[t] = @ \cup {"SUSPENDED"}]

\* Mutant: the state is set to RUNNING instead of losing one bit.
unsuspend_outright(k, t) ==
    runnable_again([k EXCEPT !.suspend_count[t] = 0, !.state[t] = RUNNING], t)

unsuspend(k, t) ==
    runnable_again([k EXCEPT !.suspend_count[t] = 0,
                             !.state[t] = @ \ {"SUSPENDED"}], t)

resume(k, t) ==
    CASE k.suspend_count[t] = 0 -> k
      [] k.suspend_count[t] = 1 -> unsuspend(k, t)
      [] OTHER -> [k EXCEPT !.suspend_count[t] = @ - 1]

force_resume(k, t) == IF k.suspend_count[t] > 0 THEN unsuspend(k, t) ELSE k

\* The reasons release() and kill() may break a sleep for.
Breakable == {"WAIT", "TIMEOUT", "DELAY"}

\* Mutant: a thread that was already woken is told that it was released.
release_woken(k, t) == wake(set_wake_reason(k, t, "BREAK"), t)

release(k, t) ==
    IF k.sleep_reason[t] \in Breakable
    THEN wake(set_wake_reason(k, t, "BREAK"), t)
    ELSE k

deschedule(k, t) ==
    [(IF k.state[t] = RUNNING THEN rem_thread(k, t) ELSE k)
        EXCEPT !.state[t] = {"EXITED"}]

\* Mutant: once the state is set, the thread is taken for one off its queue.
exit_queued(k) ==
    LET self == k.current_thread
    IN  [clear_timer(k, self) EXCEPT !.state[self] = {"EXITED"}]

\* exit(), up to its final reschedule(): the state is set before the thread
\* is taken off its run queue, and only a thread already killed is left alone.
exit(k) ==
    LET self == k.current_thread
        off  == clear_timer(k, self)
    IN  IF k.state[self] = {"EXITED"} THEN off
        ELSE rem_thread([off EXCEPT !.state[self] = {"EXITED"}], self)

\* Mutant: the thread is not resumed before it is descheduled.
kill_suspended(k, t) ==
    LET off == clear_timer(k, t)
    IN  IF off.sleep_reason[t] = "NONE" THEN deschedule(off, t)
        ELSE wake(set_wake_reason(off, t, "EXIT"), t)

\* Mutant: a thread that was already woken is told to exit.
kill_woken(k, t) ==
    LET up == clear_timer(force_resume(k, t), t)
    IN  wake(set_wake_reason(up, t, "EXIT"), t)

\* kill() of another thread.
kill(k, t) ==
    LET up == clear_timer(force_resume(k, t), t)
    IN  CASE up.wake_reason[t] = "EXIT"         -> wake(up, t)
          [] up.wake_reason[t] # "EXIT" /\ up.sleep_reason[t] = "NONE"
               -> wake(deschedule(up, t), t)
          [] up.wake_reason[t] # "EXIT" /\ up.sleep_reason[t] \in Breakable
               -> wake(set_wake_reason(up, t, "EXIT"), t)
          [] OTHER -> up

\* The priority a thread gets: while it has inherited one, the request only
\* replaces the original, unless it is better than the inherited priority.
assign_priority(k, t, new) ==
    IF k.priority_inherited[t]
    THEN [k EXCEPT !.original_priority[t] = new,
                   !.priority[t] = IF @ > new THEN new ELSE @]
    ELSE [k EXCEPT !.priority[t] = new]

\* Mutant: the current thread's own change is not looked at.
notify_priority_others(k, t) == set_need_reschedule_for(k, t)

notify_priority(k, t) ==
    IF t = k.current_thread THEN set_need_reschedule(k)
                            ELSE set_need_reschedule_for(k, t)

\* Mutant: the thread stays on the queue of its old priority.
set_priority_in_place(k, t, new) == notify_priority(assign_priority(k, t, new), t)

\* set_priority(): a runnable thread changes run queue, a waiting one goes
\* to the back of the queue it waits on.
set_priority(k, t, new) ==
    LET q     == k.queue[t]
        moved == CASE k.state[t] = RUNNING ->
                        add_thread(assign_priority(rem_thread(k, t), t, new), t)
                   [] "SLEEPING" \in k.state[t] /\ q # NoQueue ->
                        enqueue(assign_priority(leave_queue(k, t), t, new), q, t)
                   [] OTHER -> assign_priority(k, t, new)
    IN  notify_priority(moved, t)

\* delay(), up to its unlock().
delay(k) == set_timer(sleep(k), "DELAY")

\* Mutant: a thread in delay() is not woken.
alarm_timeouts_only(k, t) ==
    LET off == clear_timer(k, t)
    IN  IF off.sleep_reason[t] = "TIMEOUT"
        THEN wake(set_wake_reason(off, t, "TIMEOUT"), t) ELSE off

\* Cyg_ThreadTimer::alarm(); the one-shot alarm has been disabled before.
alarm(k, t) ==
    LET off == clear_timer(k, t)
    IN  CASE k.sleep_reason[t] = "DELAY" ->
               wake(set_wake_reason(off, t, "DONE"), t)
          [] k.sleep_reason[t] = "TIMEOUT" ->
               wake(set_wake_reason(off, t, "TIMEOUT"), t)
          [] OTHER -> off

-----------------------------------------------------------------------------
(* System construction: the thread constructor leaves a thread suspended;  *)
(* set_idle_thread() makes the idle thread current and resumes it.         *)

constructed(pri) ==
    [ run_queue          |-> [p \in Priorities |-> <<>>],
      queue_map          |-> {},
      current_thread     |-> Idle,
      need_reschedule    |-> TRUE,
      slice              |-> Quantum,
      wait_queue         |-> [q \in WaitQueues |-> <<>>],
      state              |-> [t \in Threads |-> {"SUSPENDED"}],
      priority           |-> pri,
      queue              |-> [t \in Threads |-> NoQueue],
      timeslice_count    |-> [t \in Threads |-> Quantum],
      suspend_count      |-> [t \in Threads |-> 1],
      wakeup_count       |-> [t \in Threads |-> 0],
      sleep_reason       |-> [t \in Threads |-> "NONE"],
      wake_reason        |-> [t \in Threads |-> "NONE"],
      timer              |-> [t \in Threads |-> FALSE],
      mutex_count        |-> [t \in Threads |-> 0],
      priority_inherited |-> [t \in Threads |-> FALSE],
      original_priority  |-> pri ]

initialized(pri) == resume(constructed(pri), Idle)

=============================================================================
