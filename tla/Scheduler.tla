------------------------------ MODULE Scheduler ------------------------------
(***************************************************************************)
(* The eCos scheduler at run time on one CPU: threads calling the kernel,  *)
(* unlock_inner() releasing the scheduler lock step by step, interrupts    *)
(* posting DSRs at any point between those steps, and DSRs calling back    *)
(* into the kernel.                                                        *)
(*                                                                         *)
(* A kernel call holds the scheduler lock over its body, so the body is    *)
(* one step on the KernelOps state (an ISR in the middle of it only posts  *)
(* a DSR, which commutes with it).  What is not atomic is the release of   *)
(* the lock, and that is modelled line by line: a thread inside            *)
(* unlock_inner() has a frame on its stack saying where it is and which    *)
(* lock value (new_lock) it must leave with.                               *)
(***************************************************************************)
EXTENDS KernelOps

CONSTANTS
    Devices,        \* interrupt sources other than the clock
    Main,           \* the thread resumed before the scheduler starts
    InitPriority,   \* the priority each thread is created with
    Slots,          \* per-thread data slots, CYGNUM_KERNEL_THREADS_DATA_MAX
    Calls,          \* the kernel calls this program makes from threads
    DsrCalls,       \* ... and from the DSRs of its devices
    MaxNest,        \* bound: nested cyg_scheduler_lock() calls of a thread
    MaxDepth,       \* bound: frames on a stack that an interrupt_end() adds to
    MaxWakeups,     \* bound: queued counted wakeups
    MaxSuspends     \* bound: nested suspends

Clock   == "clock"
Sources == Devices \cup {Clock}
Users   == Threads \ {Idle}
UserPriorities == 0..MinPriority-1

ASSUME MainAssumption == Main \in Users
ASSUME InitPriorityAssumption ==
    /\ InitPriority \in [Threads -> Priorities]
    /\ InitPriority[Idle] = MinPriority
    /\ \A t \in Users : InitPriority[t] \in UserPriorities
ASSUME DeviceAssumption == Clock \notin Devices
ASSUME DsrCallsAssumption ==
    DsrCalls \subseteq {"counted_wake", "suspend", "resume", "release"}
ASSUME BoundAssumption ==
    /\ MaxNest \in Nat /\ MaxDepth \in Nat
    /\ MaxWakeups \in Nat /\ MaxSuspends \in Nat

VARIABLES
    k,          \* the kernel state of KernelOps
    sched_lock, \* Cyg_Scheduler::sched_lock
    dsr_list,   \* posted DSRs, in order
    dsrs,       \* the list call_pending_DSRs detached; its head is running
    frames,     \* per thread: the kernel code on its stack, innermost first
    nest,       \* per thread: cyg_scheduler_lock() calls not yet undone
    slots       \* thread_data_map: the free per-thread data slots

vars == <<k, sched_lock, dsr_list, dsrs, frames, nest, slots>>

\* Where a frame is.  entry: a new thread about to run thread_entry();
\* unwind: its loop unlocking to zero; isrend: hal_interrupt_end();
\* loop, dsrs, resched, switched, finish, recheck: inside unlock_inner();
\* timed: counted_sleep(delay) after its reschedule(); delayed: delay()
\* after its unlock(); woken: a sleep about to look at its wake_reason;
\* dead: exit() after its reschedule().
Places == {"entry", "unwind", "isrend", "loop", "dsrs", "resched", "switched",
           "finish", "recheck", "timed", "delayed", "woken", "dead"}
Frame == [pc : Places, new_lock : Nat]

At_(pc)         == [pc |-> pc, new_lock |-> 0]
unlock_inner(n) == [pc |-> "loop", new_lock |-> n]

current   == k.current_thread
stack     == frames[current]
At(pc)    == stack # <<>> /\ Head(stack).pc = pc
new_lock  == Head(stack).new_lock

SetStack(s) == frames' = [frames EXCEPT ![current] = s]
Goto(pc)    == SetStack(<<[pc |-> pc, new_lock |-> new_lock]>> \o Tail(stack))
Return      == SetStack(Tail(stack))

InList(q, i) == \E n \in 1..Len(q) : q[n] = i

-----------------------------------------------------------------------------
(* sched.inl: the ways to give the lock back.  held is the lock's value    *)
(* when they are called, rest what the caller still has to do.             *)

unlock(held, rest) ==
    IF held = 1
    THEN sched_lock' = 1 /\ SetStack(<<unlock_inner(0)>> \o rest)
    ELSE sched_lock' = held - 1 /\ SetStack(rest)

reschedule(held, rest) ==
    sched_lock' = held /\ SetStack(<<unlock_inner(held)>> \o rest)

unlock_reschedule(held, rest) ==
    sched_lock' = held /\ SetStack(<<unlock_inner(held - 1)>> \o rest)

-----------------------------------------------------------------------------
(* Calls from threads.                                                     *)

\* The idle thread calls nothing.  A thread that suspended itself with the
\* lock held is expected to do nothing but release the lock.
InUserCode == stack = <<>> /\ current # Idle
MayCall(c) == c \in Calls /\ InUserCode /\ k.state[current] = RUNNING

\* lock(); body; unlock(); rest
Call(body, rest) == /\ k' = body
                    /\ unlock(sched_lock + 1, rest)
                    /\ UNCHANGED <<dsr_list, dsrs, nest, slots>>

scheduler_lock ==
    /\ MayCall("lock") /\ nest[current] < MaxNest
    /\ sched_lock' = sched_lock + 1
    /\ nest' = [nest EXCEPT ![current] = @ + 1]
    /\ UNCHANGED <<k, dsr_list, dsrs, frames, slots>>

scheduler_unlock ==
    /\ InUserCode /\ nest[current] > 0
    /\ nest' = [nest EXCEPT ![current] = @ - 1]
    /\ unlock(sched_lock, <<>>)
    /\ UNCHANGED <<k, dsr_list, dsrs, slots>>

CallCountedSleep ==
    /\ MayCall("counted_sleep")
    /\ Call(IF k.wakeup_count[current] = 0 THEN counted_sleep(k)
                                           ELSE consume_wakeup(k),
            <<At_("woken")>>)

\* counted_sleep(delay).  An alarm already due fires inside set_timer() and
\* leaves a wake reason, and then there is no sleep at all.
CallTimedSleep ==
    /\ MayCall("timed_sleep")
    /\ UNCHANGED <<dsr_list, dsrs, nest, slots>>
    /\ \/ /\ k.wakeup_count[current] > 0
          /\ k' = consume_wakeup(k)
          /\ unlock(sched_lock + 1, <<At_("woken")>>)
       \/ /\ k.wakeup_count[current] = 0
          /\ k' = alarm(set_timer(k, "TIMEOUT"), current)
          /\ unlock(sched_lock + 1, <<At_("woken")>>)
       \/ /\ k.wakeup_count[current] = 0
          /\ k' = timed_counted_sleep(set_timer(k, "TIMEOUT"))
          /\ reschedule(sched_lock + 1, <<At_("timed")>>)

\* delay() is called with the scheduler unlocked.
CallDelay ==
    /\ MayCall("delay") /\ sched_lock = 0
    /\ \/ Call(delay(k), <<At_("delayed")>>)
       \/ Call(alarm(delay(k), current), <<At_("delayed")>>)

CallYield ==
    /\ MayCall("yield")
    /\ k' = yield(k)
    /\ unlock_reschedule(sched_lock + 1, <<>>)
    /\ UNCHANGED <<dsr_list, dsrs, nest, slots>>

CallRotateQueue(pri) == MayCall("rotate_queue") /\ Call(rotate_queue(k, pri), <<>>)

CallCountedWake(t) ==
    /\ MayCall("counted_wake") /\ k.wakeup_count[t] < MaxWakeups
    /\ Call(counted_wake(k, t), <<>>)

CallCancelWakeups(t) == MayCall("cancel_wake") /\ Call(cancel_counted_wake(k, t), <<>>)

CallSuspend(t) ==
    /\ MayCall("suspend") /\ k.suspend_count[t] < MaxSuspends
    /\ Call(suspend(k, t), <<>>)

CallResume(t) == MayCall("resume") /\ Call(resume(k, t), <<>>)

CallForceResume(t) == MayCall("force_resume") /\ Call(force_resume(k, t), <<>>)

CallRelease(t) == MayCall("release") /\ Call(release(k, t), <<>>)

CallSetPriority(t, pri) ==
    MayCall("set_priority") /\ Call(set_priority(k, t, pri), <<>>)

\* exit() by the current thread; its reschedule() does not come back.
Exit(rest) == /\ k' = exit(k)
              /\ reschedule(sched_lock + 1, <<At_("dead")>> \o rest)
              /\ UNCHANGED <<dsr_list, dsrs, nest, slots>>

CallExit == MayCall("exit") /\ Exit(<<>>)

\* kill(): of another thread; of itself it is exit().
CallKill(t) == /\ MayCall("kill")
               /\ IF t = current THEN Exit(<<>>) ELSE Call(kill(k, t), <<>>)

\* The early return of new_data_index() leaves the lock counted up.
CallNewDataIndex ==
    /\ MayCall("new_data_index")
    /\ UNCHANGED <<k, dsr_list, dsrs, nest>>
    /\ \/ /\ slots = {} /\ sched_lock < MaxNest + 1
          /\ sched_lock' = sched_lock + 1
          /\ UNCHANGED <<frames, slots>>
       \/ /\ slots # {}
          /\ slots' = slots \ {CHOOSE i \in slots : \A j \in slots : i <= j}
          /\ unlock(sched_lock + 1, <<>>)

CallFreeDataIndex(i) ==
    /\ MayCall("free_data_index")
    /\ slots' = slots \cup {i}
    /\ unlock(sched_lock + 1, <<>>)
    /\ UNCHANGED <<k, dsr_list, dsrs, nest>>

ThreadCall ==
    \/ scheduler_lock \/ scheduler_unlock
    \/ CallCountedSleep \/ CallTimedSleep \/ CallDelay \/ CallYield
    \/ CallExit \/ CallNewDataIndex
    \/ \E p \in UserPriorities : CallRotateQueue(p)
    \/ \E i \in Slots : CallFreeDataIndex(i)
    \/ \E t \in Users :
          \/ CallCountedWake(t) \/ CallCancelWakeups(t) \/ CallSuspend(t)
          \/ CallResume(t) \/ CallForceResume(t) \/ CallRelease(t)
          \/ CallKill(t)
          \/ \E p \in UserPriorities : CallSetPriority(t, p)

-----------------------------------------------------------------------------
(* What a call still does after the lock went back.                        *)

TimedSleepDone ==
    /\ At("timed")
    /\ k' = clear_timer(k, current)
    /\ unlock(sched_lock, <<At_("woken")>> \o Tail(stack))
    /\ UNCHANGED <<dsr_list, dsrs, nest, slots>>

DelayDone ==
    At("delayed") /\ Call(clear_timer(k, current), <<At_("woken")>> \o Tail(stack))

WakeCheck ==
    /\ At("woken")
    /\ IF k.wake_reason[current] = "EXIT" THEN Exit(Tail(stack))
       ELSE Return /\ UNCHANGED <<k, sched_lock, dsr_list, dsrs, nest, slots>>

-----------------------------------------------------------------------------
(* sched.cxx, unlock_inner().                                              *)

CallPendingDSRs ==
    /\ At("loop") /\ new_lock = 0 /\ dsr_list # <<>>
    /\ dsrs' = dsr_list /\ dsr_list' = <<>>
    /\ Goto("dsrs")
    /\ UNCHANGED <<k, sched_lock, nest, slots>>

NoPendingDSRs ==
    /\ At("loop") /\ (new_lock # 0 \/ dsr_list = <<>>)
    /\ Goto("resched")
    /\ UNCHANGED <<k, sched_lock, dsr_list, dsrs, nest, slots>>

DSRsDone ==
    /\ At("dsrs") /\ dsrs = <<>>
    /\ Goto("resched")
    /\ UNCHANGED <<k, sched_lock, dsr_list, dsrs, nest, slots>>

\* Mutant: a preemption request is overlooked.
NeedSwitch_blocked_only == k.state[current] # RUNNING

NeedSwitch == k.state[current] # RUNNING \/ k.need_reschedule

KeepRunning ==
    /\ At("resched") /\ (~NeedSwitch \/ schedule(k) = current)
    /\ k' = [k EXCEPT !.need_reschedule = ~NeedSwitch /\ @]
    /\ Goto("finish")
    /\ UNCHANGED <<sched_lock, dsr_list, dsrs, nest, slots>>

\* The switch, and what the next thread does first: the end of its own
\* unlock_inner() iteration, or thread_entry() if it never ran.
SwitchTo(next) ==
    /\ At("resched") /\ NeedSwitch /\ next = schedule(k) /\ next # current
    /\ LET saved   == [timeslice_save(k, current) EXCEPT
                         !.current_thread = next, !.need_reschedule = FALSE]
           waiting == Head(frames[next])
           fresh   == waiting.pc = "entry"
           goes_on == [waiting EXCEPT !.pc = IF fresh THEN "unwind" ELSE "finish"]
       IN  /\ k' = timeslice_restore(
                      IF fresh THEN timeslice_reset(saved, next) ELSE saved, next)
           /\ frames' = [frames EXCEPT
                ![current] = <<[Head(@) EXCEPT !.pc = "switched"]>> \o Tail(@),
                ![next]    = <<goes_on>> \o Tail(@)]
    /\ UNCHANGED <<sched_lock, dsr_list, dsrs, nest, slots>>

\* Mutant: the lock keeps the value the other threads left in it.
LeaveLocked_unrestored ==
    /\ At("finish") /\ new_lock # 0
    /\ Return
    /\ UNCHANGED <<k, sched_lock, dsr_list, dsrs, nest, slots>>

LeaveLocked ==
    /\ At("finish") /\ new_lock # 0
    /\ sched_lock' = new_lock
    /\ Return
    /\ UNCHANGED <<k, dsr_list, dsrs, nest, slots>>

ZeroLock ==
    /\ At("finish") /\ new_lock = 0
    /\ sched_lock' = 0
    /\ Goto("recheck")
    /\ UNCHANGED <<k, dsr_list, dsrs, nest, slots>>

\* Mutants: the loop goes round without the lock; no look at the DSR list.
Recheck_unlocked ==
    /\ At("recheck")
    /\ IF dsr_list # <<>> THEN Goto("loop") ELSE Return
    /\ UNCHANGED <<k, sched_lock, dsr_list, dsrs, nest, slots>>
Recheck_never ==
    /\ At("recheck")
    /\ Return
    /\ UNCHANGED <<k, sched_lock, dsr_list, dsrs, nest, slots>>

Recheck ==
    /\ At("recheck")
    /\ IF dsr_list # <<>>
       THEN sched_lock' = sched_lock + 1 /\ Goto("loop")
       ELSE sched_lock' = sched_lock /\ Return
    /\ UNCHANGED <<k, dsr_list, dsrs, nest, slots>>

\* thread_entry(): unlock until the lock is zero.
Unwind ==
    /\ At("unwind")
    /\ IF sched_lock = 0 THEN Return /\ UNCHANGED sched_lock
                         ELSE unlock(sched_lock, stack)
    /\ UNCHANGED <<k, dsr_list, dsrs, nest, slots>>

Unlocking ==
    \/ CallPendingDSRs \/ NoPendingDSRs \/ DSRsDone
    \/ KeepRunning \/ \E t \in Threads : SwitchTo(t)
    \/ LeaveLocked \/ ZeroLock \/ Recheck \/ Unwind
    \/ TimedSleepDone \/ DelayDone \/ WakeCheck

-----------------------------------------------------------------------------
(* Interrupts: hal_deliver_interrupt(), post_dsr(), hal_interrupt_end().   *)

\* The ISR posts its DSR (once: further posts only count), and if the
\* scheduler is unlocked an interrupt_end() runs on the thread's stack.
Interrupt(i) ==
    /\ sched_lock = 0 => Len(stack) < MaxDepth
    /\ dsr_list' = IF InList(dsr_list, i) \/ (dsrs # <<>> /\ InList(Tail(dsrs), i))
                   THEN dsr_list ELSE Append(dsr_list, i)
    /\ IF sched_lock = 0 THEN SetStack(<<At_("isrend")>> \o stack)
                         ELSE UNCHANGED frames
    /\ UNCHANGED <<k, sched_lock, dsrs, nest, slots>>

InterruptEnd ==
    /\ At("isrend")
    /\ unlock(sched_lock + 1, Tail(stack))
    /\ UNCHANGED <<k, dsr_list, dsrs, nest, slots>>

-----------------------------------------------------------------------------
(* DSRs, called in the order they were posted, with the lock at one.       *)

RunningDSR(i) == At("dsrs") /\ dsrs # <<>> /\ Head(dsrs) = i

DsrMay(c, t) ==
    CASE c = "counted_wake" -> k.wakeup_count[t] < MaxWakeups
      [] c = "suspend"      -> k.suspend_count[t] < MaxSuspends
      [] OTHER              -> TRUE

DsrBody(c, t) ==
    CASE c = "counted_wake" -> counted_wake(k, t)
      [] c = "suspend"      -> suspend(k, t)
      [] c = "resume"       -> resume(k, t)
      [] c = "release"      -> release(k, t)

\* A device's DSR makes one kernel call on behalf of some thread, or none.
DeviceDSR(i) ==
    /\ RunningDSR(i)
    /\ \/ k' = k
       \/ \E c \in DsrCalls, t \in Users : DsrMay(c, t) /\ k' = DsrBody(c, t)
    /\ dsrs' = Tail(dsrs)
    /\ UNCHANGED <<sched_lock, dsr_list, frames, nest, slots>>

\* The clock's DSR: the alarms that are due, in any order, then timeslice().
ClockAlarm(t) ==
    /\ RunningDSR(Clock) /\ k.timer[t]
    /\ k' = alarm(k, t)
    /\ UNCHANGED <<sched_lock, dsr_list, dsrs, frames, nest, slots>>

ClockTimeslice ==
    /\ RunningDSR(Clock)
    /\ k' = timeslice(k)
    /\ dsrs' = Tail(dsrs)
    /\ UNCHANGED <<sched_lock, dsr_list, frames, nest, slots>>

DSRs == \/ \E i \in Devices : DeviceDSR(i)
        \/ \E t \in Users : ClockAlarm(t)
        \/ ClockTimeslice

-----------------------------------------------------------------------------

\* start(): the first thread is loaded with the lock still at one.
Init ==
    LET ready == resume(initialized(InitPriority), Main)
        first == schedule(ready)
    IN  /\ k = timeslice_restore(timeslice_reset(
                 [ready EXCEPT !.current_thread = first,
                               !.need_reschedule = FALSE], first), first)
        /\ sched_lock = 1
        /\ dsr_list = <<>> /\ dsrs = <<>>
        /\ frames = [t \in Threads |->
                       <<At_(IF t = first THEN "unwind" ELSE "entry")>>]
        /\ nest = [t \in Threads |-> 0]
        /\ slots = Slots

Next == \/ ThreadCall
        \/ Unlocking
        \/ \E i \in Sources : Interrupt(i)
        \/ InterruptEnd
        \/ DSRs

Spec == Init /\ [][Next]_vars

-----------------------------------------------------------------------------
(* Properties.                                                             *)

TypeOK ==
    /\ k \in KernelState
    /\ sched_lock \in Nat
    /\ dsr_list \in Seq(Sources) /\ dsrs \in Seq(Sources)
    /\ frames \in [Threads -> Seq(Frame)]
    /\ nest \in [Threads -> Nat]
    /\ slots \subseteq Slots

Runnable(t) == k.state[t] = RUNNING

\* A thread is on the run queue of its priority, once, exactly while its
\* state is RUNNING; the bitmap schedule() reads shows the non-empty queues;
\* Idle never leaves its queue (the assertions of add_thread, rem_thread).
RunQueuesAgree ==
    /\ \A p \in Priorities :
         /\ p \in k.queue_map <=> k.run_queue[p] # <<>>
         /\ \A t \in Threads :
              holds(k.run_queue[p], t) <=> Runnable(t) /\ k.priority[t] = p
         /\ \A i, j \in 1..Len(k.run_queue[p]) :
              k.run_queue[p][i] = k.run_queue[p][j] => i = j
    /\ Runnable(Idle) /\ k.priority[Idle] = MinPriority

\* Whenever the scheduler is unlocked, the thread on the CPU is runnable, no
\* runnable thread has a better priority, and no reschedule is outstanding:
\* whatever calls, DSRs and switches led here (kernel.sgml:506-510).
PriorityDispatch ==
    sched_lock = 0 =>
        /\ Runnable(current)
        /\ ~k.need_reschedule
        /\ \A t \in Threads : Runnable(t) => k.priority[current] <= k.priority[t]

\* "the scheduler lock [is] a form of per-thread variable" (sched.cxx:128):
\* a thread back in its own code sees exactly the locks it took itself, no
\* matter who ran, with which lock value, while it was switched out.
LockIsPerThread == stack = <<>> => sched_lock = nest[current]

\* The precondition of unlock_inner() (sched.cxx:145) at each iteration, and
\* the assertion of call_pending_DSRs() that the lock is one; a batch of
\* DSRs is never left for another thread, or entered twice.
UnlockInnerPrecondition ==
    /\ At("loop") => IF new_lock = 0 THEN sched_lock = 1
                     ELSE sched_lock \in {new_lock, new_lock + 1}
    /\ dsrs # <<>> => At("dsrs") /\ sched_lock = 1

\* Cyg_Thread::check_this() and the assertion of resume(): the SUSPENDED bit
\* and the suspend count agree, through kill, exit and force_resume.
SuspendedIffCounted ==
    \A t \in Threads : "SUSPENDED" \in k.state[t] <=> k.suspend_count[t] > 0

\* A delayed or timed sleeper always has its alarm still to come, so no
\* interleaving of wakeups, releases and clear_timer() strands it.
SleeperHasTimer ==
    \A t \in Users :
        ("SLEEPING" \in k.state[t] /\ k.sleep_reason[t] \in {"DELAY", "TIMEOUT"})
            => k.timer[t]

\* A thread that exited or was killed is never made runnable again, by any
\* wakeup, resume, release, alarm or priority change already under way.
ExitIsFinal ==
    [][\A t \in Threads : "EXITED" \in k.state[t] => "EXITED" \in k'.state[t]]_vars

\* A thread that was killed in its sleep exits before it returns from it: no
\* wakeup, release, alarm, resume or second kill that comes before it runs
\* takes the order back (the cases of kill(), thread.cxx:801).
InSleepCall(s) == \E n \in 1..Len(s) : s[n].pc \in {"timed", "delayed", "woken"}
KillIsObeyed ==
    [][\A t \in Users :
         InSleepCall(frames[t]) /\ k.wake_reason[t] = "EXIT" =>
             \/ InSleepCall(frames'[t]) /\ k'.wake_reason[t] = "EXIT"
             \/ "EXITED" \in k'.state[t]]_vars

\* At user level the slice still to run is between one tick and the quantum:
\* "a timeslice is performed each time it zeroes" (mlqueue.hxx:175).
SliceWithinQuantum == sched_lock = 0 => k.slice \in 1..Quantum

\* When the slice of a runnable thread ends while another runnable thread
\* has its priority, "there will be an automatic context switch"
\* (scheduler.cdl:183).
SliceEnds == /\ k.slice = 1 /\ RunningDSR(Clock) /\ dsrs' = Tail(dsrs)
             /\ Runnable(current)
             /\ \E t \in Threads \ {current} :
                  Runnable(t) /\ k.priority[t] = k.priority[current]
SliceHandsOver == [][SliceEnds => k'.need_reschedule]_vars

\* Fairness: the CPU keeps executing the kernel's code, and a thread that
\* took the scheduler lock keeps trying to give it back.
CPU == Unlocking \/ InterruptEnd \/ DSRs
Fairness == WF_vars(CPU) /\ SF_vars(scheduler_unlock)
FairSpec == Spec /\ Fairness

\* A posted DSR is called: not only at the next unlock but at this one, even
\* if it was posted during the thread switch (sched.cxx:259-263).
PostedDSRsRun ==
    \A i \in Sources : InList(dsr_list, i) ~> RunningDSR(i)

\* A thread that becomes the best runnable one gets the CPU.
Best(t) == /\ Runnable(t)
           /\ \A u \in Threads \ {t} : Runnable(u) => k.priority[t] < k.priority[u]
BestIsDispatched == \A t \in Threads : Best(t) ~> (current = t \/ ~Best(t))

\* While the clock ticks (a tick stays pending in the interrupt controller
\* until it is delivered, so strong fairness), timeslicing gives every runnable
\* thread of the best priority the CPU in turn (kernel.sgml:1542-1544).
ClockTicks  == SF_vars(Interrupt(Clock))
TickingSpec == FairSpec /\ ClockTicks
Contender(t) == Runnable(t) /\ \A u \in Threads : Runnable(u) => k.priority[t] <= k.priority[u]
FairShare == \A t \in Users : Contender(t) ~> (current = t \/ ~Contender(t))

=============================================================================
