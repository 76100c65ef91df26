# A TLA+ model of the eCos kernel

`src/src/ecos/packages/kernel/current` is the eCos kernel: a priority
scheduler, threads, interrupts with deferred service routines (DSRs), clocks and
alarms, and the synchronization objects built on them.  Everything else in the
repository runs on top of it.  This directory holds TLA+ modules that model
the kernel, TLC configurations that check them on small instances, and proofs
checked by TLAPS that hold for every instance.  File names without a directory
are in `kernel/current/src/*` or `kernel/current/include`.

Contents: 1 the system, 2 the modules, 3 what TLC checks, 4 what is proved,
5 disagreements found, 6 what is not modelled, 7 the plan.

## 1. The system

### Inventory

| Component | State | Operations | Hard behaviour | What makes it correct |
|---|---|---|---|---|
| Scheduler core: `sched.cxx`, `sched.inl`, `mlqueue.cxx` | `sched_lock`, `need_reschedule`, `current_thread`; run queues, `queue_map`, `timeslice_count` | `lock`, `unlock`, `reschedule`, `unlock_reschedule`, `unlock_inner`; `add_thread`, `rem_thread`, `schedule`, `yield`, `rotate_queue`, `timeslice` | releasing the lock is not atomic: DSRs, a switch, other threads and interrupts come between its steps | queues, bitmap and thread states agree; the best runnable thread runs; the lock behaves as if each thread had its own; no posted DSR is forgotten; equal priorities share the CPU |
| Threads: `thread.cxx`, `thread.inl` | `state` bits, `suspend_count`, `wakeup_count`, sleep and wake reasons, priority, timer, data slots | `sleep`, `wake`, `counted_sleep`, `counted_wake`, `suspend`, `resume`, `force_resume`, `release`, `kill`, `exit`, `set_priority`, `delay`, data index calls | each of them can meet each of the others half way, from threads and from DSRs | no lost wakeup, no stranded sleeper, suspend bit and count agree, no return from exit |
| Interrupts: `intr.cxx` | DSR list (head, tail, counts) | `post_dsr`, `call_pending_DSRs`, `interrupt_end` | ISRs append while DSRs are being called | each posted DSR is called, as often as it was posted, in order, with the lock at one |
| Cortex-M delivery: `hal/cortexm/arch` | lock increment, interrupt stack | `hal_deliver_interrupt`, `hal_interrupt_end` | runs `interrupt_end()` on the stack of the interrupted thread | nested only as deep as the lock allows |
| Clocks: `clock.cxx` | counter, list of alarms | `tick`, `add_alarm`, `rem_alarm`, `initialize`, `enable`, `disable` | alarm functions change the list being walked; unsigned arithmetic | every due alarm fires once per trigger, in order |
| Semaphores: `bin_sem.cxx`, `cnt_sem.cxx` | count, wait queue | `wait` (timed too), `trywait`, `post` | a woken waiter tests the count again when it runs; another thread, a timeout, release or kill may come first | no unit lies idle while threads wait |
| Mutex: `mutex.cxx`, `sched.cxx` 581-754 | owner, wait queue; mutex counts, inherited priorities | `lock`, `trylock`, `unlock`, `release`, `set_ceiling` | `unlock` leaves the mutex free for whoever comes first; waits broken by kill and release; inheritance across several mutexes | mutual exclusion, nobody waits for a free mutex, what is inherited is given back |
| Condition variable: `mutex.cxx` 530-875 | wait queue | `wait` (timed too), `signal`, `broadcast` | the mutex must be given back and locked again around a wait that any of five events ends | nobody stranded or queued twice |
| Event flags: `flag.cxx` | bits, wait queue with a pattern per waiter | `setbits`, `maskbits`, `wait` (timed too), `poll` | one `setbits` frees several waiters, one of which may clear the bits | nobody sleeps whom the bits satisfy; an event is not consumed by a wait that fails |
| Mailboxes: `mbox.cxx`, `mboxt2.inl` | ring of messages, two wait queues | `put`, `get`, their timed forms, `tryput`, `tryget` | messages handed over through pointers into the stacks of sleepers | a bounded FIFO that loses and doubles nothing |
| uITRON and POSIX objects: `cnt_sem2.cxx`, `mboxt.inl`, `mqueue.cxx` | as above | as above | used by layers that are not configured here | |
| C API, exceptions, instrumentation | little or none | wrappers | none of its own | |
| Allocators, I/O layers, file systems, network, POSIX, uITRON, drivers, applications | various | various | use the kernel | |

### How they interact

* A thread enters the kernel by a call.  The call does `lock()`, changes the
  kernel's data, and gives the lock back with `unlock()`, `reschedule()` or
  `unlock_reschedule()`.  While the lock is held no other thread runs and no DSR
  is called.
* An interrupt runs its ISR at once, even if the lock is held.  The ISR may only post a
  DSR.  If the lock was free, `interrupt_end()` then releases it through
  `unlock_inner()` on the interrupted thread's stack.
* DSRs are called from `unlock_inner()` when the lock is about to become zero,
  and call back into the kernel: they wake, suspend and resume threads.  The
  clock's DSR runs alarms, then `timeslice()`.
* `unlock_inner()` also switches threads.  The thread switched to continues
  in the middle of its own `unlock_inner()`, in an older call with another lock
  value to restore.

* A thread that waits for an object is marked asleep, put on the object's wait queue, and the
  lock is released; when it runs again it looks at its wake reason, and for
  semaphores and mutexes at the object once more.  Between its wakeup and
  that look anything may happen.

So the hard parts are `unlock_inner()` (`sched.cxx` 137-305) with the way everything else runs
between its steps, which is the core of this model, and the waits that begin and end around it.

## 2. The modules

    KernelOps ............ functions on the kernel's data
       |
    Scheduler ............ the state machine: threads, unlock_inner, interrupts, DSRs
       |          \
    SchedulerMC    \ ..... constants for TLC
                    \
    KernelOpsProofs -- SchedulerProofs ... theorems

    DsrDelivery .......... what the DSR list promises
       |
    DsrQueue ............. the linked list of pended DSRs
       |          \
    DsrQueueMC     DsrQueueProofs ........ constants for TLC; theorems

    ClockAlarms .......... a counter with its alarms
       |          \
    ClockAlarmsMC  ClockAlarmsProofs ..... constants for TLC; theorems

    KernelOps
       |
    BlockingCalls ........ threads that call objects: scheduling, timers, release, kill
       |-- Semaphores .... bin_sem.cxx, cnt_sem.cxx
       |-- Flags ......... flag.cxx
       |-- Mailboxes ..... mboxt2.inl; implements MessageQueue
       |-- Mutexes ....... mutex.cxx, and the priority protocols of sched.cxx
       |
    SyncObjects .......... all objects together, used by one program
       |          \
    SyncObjectsMC  \ ..... nine programs for TLC
                    \
    WaitProofs, MutexProofs, MailboxProofs -- SyncObjectsProofs ... theorems

### KernelOps

The data of scheduler and threads is one record `k \in KernelState` with the
source's field names, and each kernel function is an operator from `k` to the
next `k`.  This is exact because those functions run with the lock
held: no switch, no DSR, and an ISR does not touch this data.  The `lock()` and
`unlock()` pairs nested in them count up and down again and disappear.

* `state` is the set of bits that are set; `RUNNING` is the empty set.
* Run queues are sequences.  As in `clist.hxx`, `remove` of a thread that is not
  on the list does nothing.  `exit()` of a thread that was off its run queue
  relies on that.
* `timeslice_count` is unsigned and wraps at `CountMod`, which stands for 2^32.
* A thread's timer is a Boolean, "its alarm is enabled".  Time itself is not
  modelled: any enabled alarm may be due at any tick, and may be due already when it is set.
  This includes every real order of expiries.
* A wait queue is a sequence too.  The runs of `Scheduler` set `WaitQueues = {}`, since its threads call
  no objects; `BlockingCalls` and its objects use them, and the fields for priority inheritance.

### Scheduler

`Scheduler` adds the lock, the interrupts and control flow.

| Variable | Code |
|---|---|
| `k` | the data above |
| `sched_lock` | `Cyg_Scheduler::sched_lock` |
| `dsr_list` | DSRs posted and not yet detached |
| `dsrs` | the list `call_pending_DSRs_inner()` detached; its head is being called |
| `frames[t]` | the kernel code on thread `t`'s stack, innermost first: a place and the `new_lock` of that `unlock_inner()` |
| `nest[t]` | history: `cyg_scheduler_lock()` calls thread `t` has not undone |
| `slots` | `thread_data_map`, the free data slots |

* **Calls.** An action `CallX` is a whole kernel call up to its last `unlock()`;
  `Call(body, rest)` is the `lock(); body; unlock(); rest` most share.  What a
  call does after the lock went back is the frame `rest`: `timed` and `delayed`
  clear the timer, `woken` looks at the wake reason, `dead` is the end of `exit()`.
* **unlock_inner.** Each place of the loop is a step.

  | Action | Lines of `sched.cxx` |
  |---|---|
  | `CallPendingDSRs`, `NoPendingDSRs`, `DSRsDone` | 149-160: the DSRs, if the lock is to become zero |
  | `KeepRunning` | 162-232 without a switch |
  | `SwitchTo(t)` | 179-232: save the slice, switch, restore the slice; a new thread starts in `thread_entry()` |
  | `LeaveLocked` | 285-299: restore the caller's lock and return |
  | `ZeroLock`, `Recheck` | 234-285: zero the lock, look at the DSR list again, go round or return |

* **Interrupts.** `Interrupt(i)` can happen between any two steps.  It posts the
  DSR of source `i`, unless it is posted already.  If the lock is zero it puts an `isrend` frame
  on the stack of the running thread, which may be in its own code or in a
  `recheck`.
* **DSRs.** The head of `dsrs` runs: a device's DSR makes one call of `DsrCalls`
  for some thread or none, the clock's runs any alarms that are due and then
  `timeslice()`.

Restrictions on the program that calls the kernel:

* A thread that has suspended itself with the lock held only releases the
  lock.  What else it may do while it is marked `SUSPENDED` the kernel does not say.
* `delay()` is called with the lock released, as `kernel.sgml` 584-600 asks of all calls that block.  With it held, the
  call would clear the timer of the sleep it has just entered (`thread.cxx` 966-985).
* The idle thread makes no calls.
* The calls that occur are the constants `Calls` and `DsrCalls`, so that each
  run combines those whose interplay it is about.

The modelled configuration is the default one of the kernel: one CPU, the MLQ
scheduler with timeslicing, FIFO wait queues, thread timers, the DSR list (not
the DSR table), no ASRs.

### DsrQueue and DsrDelivery

`DsrQueue` is the list of pended DSRs as the code has it (`intr.cxx` 148-201 and 255-317): `dsr_list`,
`dsr_list_tail`, and `next_dsr` and `dsr_count` in each interrupt object.

* `post_dsr(i)` is one step, since it runs with interrupts disabled.
* The walk is `Detach` (the list is detached, its first DSR taken), `CallNext` (the next one
  taken) and `Done`; `intr`, `next`, `count` are its local variables.  Between two of them interrupts
  are enabled, a DSR runs, and any number of posts may come.
* `pended` and `batch` are history: the sequence the new list should be, and what should be left of the
  detached one.  `ListsAgree` says that the pointers say the same.

`DsrDelivery` says what callers may rely on: an order of interrupts that have posts and their numbers; a call takes
the first with its whole count.  `DsrQueue` implements it with `order <- batch \o pended`.  A post that comes while its
interrupt waits in the detached list counts as part of that call; one that comes
while its own DSR runs starts anew at the end.

This module justifies how `Scheduler` treats DSRs: its `Tail(dsrs) \o dsr_list` is `order`
here, and "posted already" is a count above zero.

### ClockAlarms

One `Cyg_Counter` and its `Cyg_Alarm`s (`clock.cxx`).  All of it runs with the scheduler locked, so the
difficulty is not concurrency but reentrancy: `tick()` and `add_alarm()` call alarm functions before they are done, and these
call `initialize`, `enable` and `disable` of any alarm, the one being handled included.

| Variable | Code |
|---|---|
| `increment`, `sorted` | the counter's increment and the build option `CYGIMP_KERNEL_COUNTERS_SORT_LIST`, chosen in `Init` and never changed |
| `counter` | the counter's value |
| `trigger`, `interval`, `enabled` | the fields of each alarm |
| `alarm_list` | the alarms linked to the counter |
| `frames` | the calls under way: `scan` the loop of `tick()`, `call` about to call the function of an alarm taken off the list, `run` in that function, `added` the rest of `add_alarm()` after its immediate call |
| `start`, `calls` | history: the trigger last asked for; how often the function was called since |

`add_alarm` is an operator all its callers use; `AddedRequeues` is its part after the immediate call
(305-383).  `ScanFindsDue`, `TickCallsAlarm` and `TickDone` are the loop of `tick()`, in the unsorted form or, if
`sorted`, the sorted one.  `synchronize` computes modulo `Word`, which stands for 2^64.

### BlockingCalls, and how objects are modelled

`Scheduler` shows what a kernel call may rely on: while it holds the lock no other thread
and no DSR runs, and afterwards a best runnable thread runs (`LockIsPerThread`,
`PriorityDispatch`).  With that established, the modules about objects take larger steps, over the same `k` and the
same `KernelOps`:

* The stretch of a call from `lock()` to the `unlock()`, `reschedule()` or
  `unlock_reschedule()` that ends it, or in which it sleeps, is one action.
* `Switch` is the thread switch at the end of `unlock_inner()`; `ClockTimeslice`, `ClockAlarm(t)` and the calls of
  DSRs are steps of their own.  They may come before or after a switch in any order, so a waiter that was woken
  can be overtaken, time out, be released, suspended or killed before it runs.
* `pc[t]` says in which call thread `t` is and on which object, when it is not in its own code.
  A waiter goes on from there when it is the current thread and no switch is due (`Continues`).
* `HoldsLock` has the places that sleep in `reschedule()`: such a thread finds the lock at one when
  it runs again, so no DSR is called between the switch and its next action (`DsrsRun`).  A mailbox
  and a condition variable sleep in `unlock_reschedule()` and find it at zero.
* A timer that is set may be due at once (`overdue`): the alarm is then called inside `set_timer()`, as `clock.cxx`
  does, and the next conditions of the call see its wake reason.

The variables `holding` and `requested` are history: to whom a mutex was given, and the priority last asked for
a thread.  `program` is a constant of the run: which calls each thread and the DSRs make, on which objects (`uses`),
threads (`targets`) and flag patterns (`wishes`).

| Module | Actions and the code they stand for |
|---|---|
| `Semaphores` | `SemWait`, `SemTimedWait`, `SemWoken` are the loops of `wait()`: the first turn, and each later one after a wakeup; `SemTryWait`, `SemPost` |
| `Flags` | `FlagFound`, `FlagWait`, `FlagTimedWait`, `FlagWoken`; `FlagPoll`, `FlagMaskBits`; `FlagSetBits` with `Satisfied`, the waiters its loop wakes |
| `Mailboxes` | `MboxGet`, `MboxPut` (timed or not), `MboxTryGet`, `MboxTryPut`, `MboxWoken`; `TakeMessage` with `wakeup_putter()`, `GiveMessage` with `wakeup_winner()`; `wait_info[t]` is the word the pointer `wait_info` of the thread points at |
| `Mutexes` | `MutexLock`, `MutexWoken`, `MutexTryLock`, `MutexUnlock`, `MutexRelease`, `MutexSetCeiling`; `CondWait`, `CondTimedWait`, `CondWoken`, `CondRelock`, `CondSignal`, `CondBroadcast`; `set_inherited_priority`, `relay_priority`, `clear_inherited_priority` of `sched.cxx` |

Restrictions on programs: a thread locks a mutex it does not own and unlocks one that it does, which `mutex.cxx` asserts;
it waits on a condition variable with the mutex locked; nobody kills itself (that is `exit()`, see `Scheduler`); nobody
waits for an empty pattern of a flag, which `flag.cxx` 182 asserts.

`MessageQueue` is what a mailbox promises: messages in order, each received by one thread.  `PutAndGet` and `GetAndPut` are
a put to a waiting getter and a get that lets a waiting putter in, two operations in one step of the code.
`Mailboxes` implements it with the ring read from `base` on (`stored`) and the messages in the hands of getters (`received`).

`SyncObjects` composes the objects.  One thread can be a waiter of one and wake another through a
second object; a kill or a priority change hits a thread wherever it waits.

## 3. What TLC checks

`SchedulerMC` gives two user threads of one priority, `a` and `b`, above the idle thread.

| Run | Properties | Calls in play | States |
|---|---|---|---|
| `sleep` | `TypeOK`, `SleeperHasTimer`, `UnlockInnerPrecondition`, `KillIsObeyed` | all sleeps, wakeups, release, kill, delay, data slots; DSRs wake | 5.6 million |
| `live` | `RunQueuesAgree`, `PriorityDispatch`, `LockIsPerThread`, `PostedDSRsRun`, `BestIsDispatched` | lock, resume, set_priority, yield, rotate_queue; DSRs suspend and resume; under fairness | 291 thousand |
| `fair` | `RunQueuesAgree`, `SuspendedIffCounted`, `SliceWithinQuantum`, `ExitIsFinal`, `FairShare`, `SliceHandsOver` | lock, sleep, suspend, resume, force_resume, kill, exit; under fairness with a ticking clock | 617 thousand |
| `leak`, `quantum` | one each, violated | see section 5 | |

`DsrQueueMC` has three interrupts; `ClockAlarmsMC` one or two alarms.

| Run | Properties | What is in play | States |
|---|---|---|---|
| `dsrs` | `ListsAgree`, `DeliversDSRs`, `PostedDsrIsCalled` | posts at every point of the walk | 1.5 thousand |
| `alarms` | `LinkedWhileEnabled`, `NoneOverdue`, `OnSchedule`, `CalledAtEachTrigger` | all calls, from outside and from alarm functions; sorted and unsorted lists; ticks of one and of three | 458 thousand |
| `relink`, `far` | one each, violated | see section 5 | |

`SyncObjectsMC` has three user threads: `hi` of priority 0, `lo` and `peer` of priority 1, and priority 2 for `set_priority`.

| Run | Properties | What is in play | States |
|---|---|---|---|
| `sync` | `TypeOK`, `QueuedIffAsleep`, `TimedWaitersHaveTimers`, `NoUnitIdle`, `NobodySatisfiedSleeps`, `OutcomeIsClear`, `NobodyWaitsInVain`, `GetTellsTheTruth`, `PutTellsTheTruth`, `IsMessageQueue`, `MutualExclusion`, `NobodyWaitsForFreeMutex`, `MutexCountAgrees`, `InheritanceIsReturned`, `NoInversionWhenSteady` | nine programs: counting semaphore, binary semaphore, flag, mailbox, mutex, condition variable, inheritance with priority changes and suspension, ceilings, two nested mutexes; timeouts, release, kill from threads and DSRs | 609 thousand |
| `timeout`, `kill` | one each, violated | see section 5 | |

The properties, in words:

* `RunQueuesAgree`: a thread is on exactly the run queue of its priority exactly while
  it is `RUNNING`, never twice; the bitmap shows the queues that are not empty; idle is always runnable.
* `PriorityDispatch`: at lock zero the thread on the CPU is runnable, nobody runnable
  is better, and no reschedule request is waiting.
* `LockIsPerThread`: a thread in its own code sees the locks it took and no others.
* `UnlockInnerPrecondition`: the assertion `sched.cxx` 145 at every turn of the loop,
  and the assertion of `intr.cxx` that DSRs run with the lock at one.
* `SuspendedIffCounted`, `SleeperHasTimer`, `ExitIsFinal`: no order of suspend, kill,
  exit, wakeups and alarms makes bit and count disagree, strands a timed sleeper or revives a thread.
* `KillIsObeyed`: a thread killed in its sleep exits before it returns from it.  Whatever wakes it, releases it or kills it again
  before it runs must leave its `EXIT` wake reason alone.
* `PostedDSRsRun`: a DSR posted during the unlock, even during the switch, is called.
* `BestIsDispatched`: a thread that is the best runnable one gets the CPU.
* `FairShare`, `SliceWithinQuantum`, `SliceHandsOver`: timeslicing.
* `ListsAgree`: the pointers form the two lists they should, disjoint, with exactly the
  interrupts that have posts.  `DeliversDSRs`: refinement of `DsrDelivery!Spec`.  `PostedDsrIsCalled`: no post is
  starved by other posts.
* `QueuedIffAsleep`: wait queues hold the threads that sleep in a call on that object, each once.
* `TimedWaitersHaveTimers`: however often a timed wait is woken and begins again, while it sleeps its alarm is still to come and
  still counts.  (Not so for semaphores, section 5.)
* `NoUnitIdle`: while threads wait on a semaphore, as many woken ones are on their way to it as it has units.
* `NobodySatisfiedSleeps`: nobody sleeps on the flag whose pattern its value matches.  `OutcomeIsClear`: a wait that is over has seen a matching
  value, or no event was consumed for it.
* `NobodyWaitsInVain`: getters wait while the mailbox is empty, putters while it is full.  `GetTellsTheTruth`, `PutTellsTheTruth`: what a
  wait reports is what happened to the message.  `IsMessageQueue`: refinement of `MessageQueue!Spec`.
* `MutualExclusion`, `NobodyWaitsForFreeMutex`: a mutex has one holder, and when it has none while threads wait, one of them is awake and
  on its way.
* `MutexCountAgrees`: the count that decides when a thread stops inheriting is the number of mutexes it holds or waits for.
  `InheritanceIsReturned`: with a count of zero a thread has the priority last asked for it.  `NoInversionWhenSteady`: the owner
  is never worse than a waiter that holds nothing itself.
* `LinkedWhileEnabled`: an alarm is on the list once if it is enabled, else not at all.  `NoneOverdue`: between
  ticks every trigger on the list is ahead.  `OnSchedule`: disabling and enabling keeps the phase of an alarm.
  `CalledAtEachTrigger`: an alarm left alone has its function called once per trigger.

**Bounds.** `MaxNest` bounds nested locks of a thread, `MaxDepth` how deep a stack may be when
another `interrupt_end()` is added (each interrupt at lock zero adds one),
`MaxWakeups` and `MaxSuspends` the two counts, `MaxNest + 1` the lock value a leak may reach.
One nested lock distinguishes a caller that holds the lock from one that
does not; two suspends distinguish `resume()` from `force_resume()`; a depth of two lets an
interrupt arrive while a thread is in `recheck`.  `Quantum = 1` makes every tick end
a slice, which gives the most interleavings; the slice properties use `Quantum = 2`, so that a
slice can be partly used.  `CountMod` only has to be larger than `Quantum` for a wrap to show.
Two threads of one priority suffice for rotation and handover; `set_priority` in `live` puts them on different
queues and together again.  What more threads would add to the run queues is covered by the proofs (section 4).

In `DsrQueueMC`, counts up to two tell "first post" from "another post", and three interrupts
give lists with a head, a middle and a tail on both sides of the walk.  In `ClockAlarmsMC`, `MaxCount` lets every interval (2 and 4) pass
at least once after a start up to three ticks late; `MaxDepth` 3 lets a function that is called inside a tick set an alarm that is due at once, whose function
sets another one; `MaxCalls` bounds what one run of a function does.  `Word` 64 is far above every value, so only negative
differences wrap.  An increment of three passes triggers two apart within one tick.  `Offsets` and `Intervals` of `alarms` leave out what
section 5 says of `far` and of triggers in the past: `NearOffsets` holds no
trigger a whole number of intervals back and none more than an interval ahead.  The two alarms are symmetric.

In `SyncObjectsMC` three threads give every queue a waiter in front, one behind and a thread that overtakes them; two of them share a priority, so that a
woken waiter can lose the CPU to the timeslice as well as to a better thread.  A mailbox of two slots and two messages tell first from last and
full from empty; messages are symmetric.  Two bits give patterns that match together, one by one and not at all.  Semaphores count to
`MaxCount` 2, which tells one unit from several.  One nested suspend suffices, as nested ones are the matter of `Scheduler`.  Each thread's calls are
limited to a few, but may be made in any order and number: the program is cyclic and has no bound on the length of a run.

**Fairness.**  `Fairness` is weak fairness of `CPU`, the kernel's own code: a processor in
the kernel goes on executing.  It is also strong fairness of `scheduler_unlock`: a
program that takes the lock gives it back, as `kernel.sgml` demands; strong, because
interrupts take the thread out of its own code again and again.
User code is otherwise free to do nothing.  `FairShare` needs a clock as well: `ClockTicks` is strong
fairness of `Interrupt(Clock)`, because a tick that cannot be taken now stays
pending in the interrupt controller.  Device interrupts and program calls are never
assumed to happen.  `DsrQueue` has weak fairness of the walk: a DSR returns, and the
scheduler is unlocked at some time after a post (`PostedDSRsRun` is that property of `Scheduler`).
The properties of `ClockAlarms` and `SyncObjects` are about safety and need none.

**Mutants.** Each property has a mutated definition beside the one it
replaces, for example `Recheck_never` (no second look at the DSR list) or `kill_suspended` (no `force_resume()` before the
descheduling), with which the same run fails.

## 4. What is proved

`SchedulerProofs` proves for every set of threads, priorities, devices, slots,
quantum and bounds, and for any choice of `Calls` and `DsrCalls`:

| Theorem | Statement |
|---|---|
| `Invariance` | `Spec => []IInv`, the inductive invariant |
| `TypeCorrect` | `Spec => []TypeOK` |
| `RunQueuesCorrect` | `Spec => []RunQueuesAgree` |
| `DispatchCorrect` | `Spec => []PriorityDispatch` |
| `UnlockInnerCorrect` | `Spec => []UnlockInnerPrecondition` |
| `LockCorrect` | `Spec => []LockIsPerThread` if `new_data_index` is not in `Calls` |
| `ExitIsForever` | `Spec => ExitIsFinal` |
| `SleepInvariance` | `Spec => []SleepInv`, a second inductive invariant |
| `SuspendsCorrect` | `Spec => []SuspendedIffCounted` |
| `SleepersHaveTimers` | `Spec => []SleeperHasTimer` |
| `KillsAreObeyed` | `Spec => KillIsObeyed` |
| `SliceCorrect` | `Spec /\ [][NotRewoken]_vars => []SliceWithinQuantum` |
| `SliceAlwaysCorrect` | `Spec => []SliceWithinQuantum` if `Unwoken` |
| `HandOverCorrect` | `Spec /\ [][NotRewoken]_vars => SliceHandsOver` if `delay` is not in `Calls` |
| `AlwaysHandsOver` | `Spec => SliceHandsOver` if `Unwoken` |

**Assumptions**: those of `KernelOps` and `Scheduler` on their constants, no others
(`Idle` is a thread, `Main` another one, idle alone is created at the worst priority, the bounds are numbers).
TLC evaluates them in every run.

**The invariant.** None of the properties is inductive.  `RunQueuesAgree` needs that
a reschedule request is outstanding whenever the thread on the CPU may no longer be the
right one, and `PriorityDispatch` needs to know where in `unlock_inner()` that
request may still be pending.  `LockIsPerThread` says nothing of threads that are switched out.  `IInv` has these parts:

* `TypeOK`.
* `Good(k)`: run queues, bitmap and states agree, each queue is free of duplicates, a thread with a suspend
  count is `SUSPENDED` or `EXITED`, and either a reschedule is requested or no runnable thread is better than the current one.
* `StacksOK`: each stack is one the calls can build, and each frame leaves with the lock
  value that the frame below needs.  That is what makes the lock per thread: a frame carries the value to
  restore, and the values of a stack add up to `nest[t]`.
* `SwitchedOut`: every thread but the current one is at `switched` or `entry`.
* `LockFits`: `sched_lock` is what the top frame requires (one in a batch of DSRs, `new_lock` or one more at `loop`).
* `Settled`: after the decision to keep or to switch, until the lock is zero, the
  current thread is runnable and the request is clear.
* `BatchOK`: detached DSRs are only ever those of the current thread.

The second invariant, `SleepInv`, adds two parts to `IInv`.  `Sane(k)` is what the two properties say of the threads:
the suspend bit against the count, and a timer for each sleeper with a delay or a timeout.  It is not inductive either: `delay()` ends with
`clear_timer()`, which would break it for a thread that sleeps, and `exit()` of a suspended thread would leave a count on one
that is only `EXITED`.  `RestsAwake` says why neither happens: at `timed` and `delayed` the thread is runnable, at `woken` it is not
suspended, because it is back from `unlock_inner()`, where `Settled` had it runnable at the last switch, and no other thread ran since.
One lemma per operation shows that `Sane` is kept, one per action that `SleepInv` is.

The third, `OrderInv`, is what `KillIsObeyed` needs: a thread whose wake reason is `EXIT` has no sleep reason and is in no counted
sleep (`Deaf`).  So `release()` and the alarm, which ask for the one, and `counted_wake()`, which asks for the other, pass it by, and a second `kill()`
finds the reason already there.  Only the thread itself lifts the order, when it goes to sleep again, and it cannot be in a sleep call then.

**Timeslices.** The two slice properties fail of some programs (section 5): a thread that sleeps and is woken before it is switched out is
requeued at the tail and keeps its spent slice.  `NotRewoken` says that a step does not make the current thread runnable again; under
that proviso the properties hold of every program, but for `delay()`: called with a time already past, it wakes its own
caller in one step, which is then at the tail with no reschedule requested.  `Unwoken` is a condition on the constants instead: no call sets a timer and
DSRs only suspend.  `NeverRewoken` shows that it implies `NotRewoken`, from the invariant `TimersOff`; the constants of `fair` satisfy it.

`SliceInv` adds to `IInv` that every runnable thread but the current one has a saved slice of at least one (`SharesLeft`: whoever was preempted had ticks left,
whoever was made runnable got a full slice), and that a slice of zero is only seen when the current thread has stopped and the clock's DSR of
this batch is done (`Ending`), so that the switch comes before the next tick.  The second half needs that no DSR is twice on a list.
`HeadInv` adds `Ahead(k)`: the current thread is the head of its queue, or has stopped, or a reschedule is requested.  Rotating a queue with
another thread in it then changes its head, which is what `SliceHandsOver` asks for.  `SliceEndIsTick` finds the tick among the steps: no other one calls the clock's DSR.
`KernelOpsProofs` has a lemma per function for either, `...Regular` and `...Head`.

**The argument.** `KernelOpsProofs` shows for each function of `KernelOps` that it takes a `Good`
state to a `Good` state, keeps the current thread and revives no exited thread
(`Step`).  It rests on lemmas about `remove`, `rotate` and `Append` on
duplicate-free sequences, and on the least element of the bitmap
existing.  `SchedulerProofs` then has lemmas about stacks (push, pop, replace the top)
and one lemma per action of `Next`, that it preserves `IInv`; `unlock`, `reschedule` and `unlock_reschedule` have one each,
which the calls cite.  `LockCorrect` uses that only the early return of `new_data_index()` lets the lock exceed what the
stack accounts for; the definition `Leaky` names that case.

**The DSR list.** `DsrQueueProofs` proves, for any number of interrupts:

| Theorem | Statement |
|---|---|
| `ListsCorrect` | `Spec => []ListsAgree` |
| `ListDelivers` | `Spec => DeliversDSRs`: the list implements `DsrDelivery` |

The invariant is `ListsAgree` with types and `~calling => next = Null`, which makes the batch empty
when a new one is detached.  Each action has a lemma; those for `Detach` and `CallNext` share
`TakeStep`, about taking the head of one list while a disjoint one stays.  For the refinement, a post is an abstract
`Post`, `Detach` and `CallNext` are abstract `Call`s of the head of `batch \o pended`, and `Done` changes nothing.
The only assumptions are that `Null` is not an interrupt and that `MaxPosts` is a number.

**Alarms.** `ClockAlarmsProofs` proves, for any number of alarms, any intervals and increments, sorted and unsorted lists, and any
depth and number of calls of alarm functions:

| Theorem | Statement |
|---|---|
| `AlarmTypes` | `NoWrap => (Spec => []AlarmTypeOK)` |
| `AlarmsLinked` | `~Reentrant => (Spec => []LinkedWhileEnabled)` |
| `KeepsSchedule` | `~Reentrant /\ Near /\ NoWrap => (Spec => []OnSchedule)` |
| `NeverOverdue` | `~Reentrant /\ Near /\ Apart /\ NoWrap => (Spec => []NoneOverdue)` |
| `EachTriggerCalled` | `~Reentrant /\ Near /\ NoWrap /\ Frequent => (Spec => []CalledAtEachTrigger)` |

The hypotheses are about the program, and each theorem has only those it needs; without one of them it is false, as
section 5 shows.  `~Reentrant`: no alarm is set from inside its own `add_alarm()` (`relink`).  `Near`: no trigger is asked for more than an interval ahead
(`far`).  `Apart`: none is asked for a whole number of intervals in the past.  `Frequent`: a tick adds at most twice an interval and one.
`NoWrap`: the counter ends an interval and an offset short of 2^64.  The constants of `alarms` satisfy all of them.

The invariant is built in layers, each of which needs more of the hypotheses.

* `Types`: everything is a number, list or frame, for any program.
* `Linked`: how calls nest (`Nested`: the loop of `tick()` is outermost, what it calls comes next, after the
  `add_alarm()` of the same alarm, and no alarm is being added twice), no duplicates, a sorted list is sorted, and linked means
  enabled and not being added.  `LinkedWhileEnabled` alone is not inductive: `add_alarm()` may only link an
  alarm that nothing has linked since its function was called, which is a matter of the calls under way.
* `Timely`: the trigger of an alarm is some number of intervals after `start` and not beyond the next one (`Timed`); an alarm that is
  `Punctual` (the program is `Apart`, or it was set to a time to come) is ahead of what `tick()` has handled, or is being added and is not a whole number of
  intervals behind (`Current`).
* `Counting`: `passed`, the calls made plus the one `tick()` owes minus the one `add_alarm()` has not moved the trigger on for, is
  the number of intervals the trigger is after `start`.

Each action has a lemma per layer.  Those about the list rest on what `InsertAt` and `RemoveAt` do to a list by position (`SplicedFacts`, `UnlinkFacts`),
those about calls on how `Nested` goes through a push, a return and a change of the top frame, those about triggers on the
arithmetic of `synchronize()` (`SynchronizeFacts`, `NextTrigger`): modulo `Word`, a trigger in the past moves to the first whole interval
not before the counter.

**Objects and their waiters.** `SyncObjectsProofs` proves, for every finite set of threads and mutexes, any other objects, any
programs, and any numbers of bits, messages and slots:

| Theorem | Statement |
|---|---|
| `SyncObjectsInvariant` | `Spec => []SyncInv`, the inductive invariant |
| `SyncTypes` | `Spec => []TypeOK` |
| `SyncWaits`, `SyncTimers` | `QueuedIffAsleep`, `TimedWaitersHaveTimers` always |
| `SyncUnits` | `NoUnitIdle` always |
| `SyncFlag`, `SyncFlagOutcome` | `NobodySatisfiedSleeps`, `OutcomeIsClear` always |
| `SyncMailbox`, `SyncGets`, `SyncPuts` | `NobodyWaitsInVain`, `GetTellsTheTruth` always; `PutTellsTheTruth` |
| `SyncMessageQueue` | `Spec => IsMessageQueue`: the mailbox implements `MessageQueue` |
| `SyncMutualExclusion`, `SyncFreeMutex` | `MutualExclusion`, `NobodyWaitsForFreeMutex` always |
| `SyncMutexCount`, `SyncInheritance` | `MutexCountAgrees`, `InheritanceIsReturned` always |
| `SyncNoInversion` | `NoInversionWhenSteady` always, from a second inductive invariant, `SyncInv /\ SteadyInv` |

`SyncInv` has these parts:

* `PlacesOK`: `Good(k)` as above; `Waits(k)`: a queued thread sleeps and has no wake reason yet; and `ThreadOK` of every thread: its `pc` is a place
  that exists, a thread that waits is on the queue of that place or has an outcome, a timed one has its alarm.
  Nothing else can be said of a thread without knowing that stale queue entries and wake reasons do not exist.
* `UnitsOK`: counts within bounds, and `NoUnitIdle`.
* `FlagOK`, `MailOK`: for each waiter, what its `FlagWaitInfo` or its `wait_info` holds while it sleeps and after it was woken.
* `MutexOK`: `MutualExclusion`; `Settled`, `mutex_count` against the mutexes a thread holds or waits for, where an exited
  thread may count too many; an `Heir`, a woken waiter, for each free mutex with waiters; `Lawful`, priority against the one
  asked for; and `NoFreeLoans`, that nobody inherits with a count of zero.

The argument has two layers.  What a call does to *threads* is the same for all objects: `Calls(S, D)` says that the current thread
acts on an object of `S`, that threads `D`, waiters of `S`, are told they are done, and that every other thread goes on as it was or has its wait ended by something other than
`DONE` (`Bystands`, from `GoesOn` and `Ends`).  `Calls` is proved of each action, from `WaitProofs`: each kernel function either leaves a
thread where it is or ends its wait (`Continued`, `Moved`), `block` puts the current thread on a queue (`Blocked`), and the loops that dismiss waiters
do it for each (`AllDismissed`, by the least turn at which it would fail).  What a call does to its *object* then needs only the actions of that
object; all others keep its part by `Calls` with a disjoint `S` (`SemaphoreOthers` and its like).

`SteadyInv` says what `NoInversionWhenSteady` needs of the mutexes that are *free*.  Between `unlock()` and the next lock the waiters' priorities
are with the heir, which may be overtaken before it runs.  `InheritOK` therefore says of each thread that waits for an inheriting mutex
and holds none: the owner is no worse than the thread, or, if the mutex is free, some `Heir` is.  Three steps are not obvious.

* Somebody takes a free mutex before the heir does.  The heir is awake, and in a steady program it can then run (`AllClear`: no thread is suspended or in a
  counted sleep, and only `exit()` ends that); by `Good(k)` the thread that runs is no worse than the heir, hence no worse than the waiters.  A suspended heir
  is where the argument, and the code, need `Steady`.
* `unlock()` gives the heir the ex-owner's priority before it takes that back from the ex-owner (`Relayed`), and only if
  others stay in the queue, but else nobody is left for whom it matters.
* `clear_inherited_priority()` makes a thread worse.  It does so at a count of zero, when by `Settled` the thread neither holds an inheriting mutex nor
  waits for one (`StillCounts`); a wait that was broken off loses its claim in the same step, with a wake reason that makes it no heir.

`Cleared` of each kernel function, in `WaitProofs`, and `Raised`, which says whose priority a step of the protocols may raise, in `MutexProofs`, carry this.

`MutexProofs` is about priorities: `set_priority` and the three functions of `sched.cxx` keep `Lawful` and
`NoFreeLoans` (`Kept`).  `SyncObjectsProofs` counts mutexes by cardinality.  `MailboxProofs` has the arithmetic of the ring: `wrapped` moves between slots, `store` appends to the
sequence read from `base`, `removed` takes its tail.  The step of the refinement is then by cases: a get or put with nobody waiting, with somebody
waiting, or the end of a call, which is `Consume`.

**Assumptions**: the named `ASSUME`s of these modules, which TLC evaluates in the runs: queues and objects are different, initial priorities are
those of the initial run queues, threads and mutexes are finite (their numbers are counted), programs are records of the calls they make.

**Only model-checked**: `PostedDsrIsCalled`, `PostedDSRsRun`, `BestIsDispatched` and `FairShare`, because the prover does not
do liveness under fairness or `ENABLED`.  Every other property of a run that holds is a theorem.

## 5. Disagreements found

* `leak`: `new_data_index()` returns with the scheduler lock held if no slot is free
  (`thread.cxx` 1054).  The scheduler lock of the calling thread is off by one from then on.
* `quantum`: a slice that expires while the current thread sleeps, before another DSR of the same
  batch wakes it, leaves `timeslice_count` at zero.  If there is no switch, the next
  tick wraps it: no timeslice for 2^32 ticks, against `mlqueue.hxx` 175.
* `relink`: `add_alarm()` calls the function of an alarm already due before it links the alarm. `clock.cxx` 289 wants that
  function to be able "to manipulate this alarm sensibly".  If it sets the alarm again, the alarm is left
  linked but disabled, or is linked twice.
* `far`: `synchronize()` takes a trigger more than an interval ahead for one in the past: the
  unsigned difference wraps.  Disabling and enabling such an alarm makes it fire before its
  time, against `clock.cxx` 737-739.
* Without a run of its own: an alarm set with a trigger a whole number of intervals in the past is queued
  for the current time and so called a tick late, against `clock.cxx` 313 ("in our future"); `NoneOverdue` fails if `NearOffsets` includes -2.
* Without a run of its own: when a tick adds more than twice an interval and one, the immediate call of `add_alarm()` is followed by a
  `synchronize()` that skips triggers, so that the function is called less often than its trigger passed: `CalledAtEachTrigger` fails
  for an interval of 2 and an increment of 6.  Whether each is called is left open by `kernel.sgml`.

* `timeout`: a timed wait of a semaphore sets its timer once, before its loop (`cnt_sem.cxx` 154).  A post wakes the waiter, its
  alarm goes off before it runs and finds nothing to do, a `trywait()` takes the unit, and the loop sleeps again, with no timer.  `kernel.sgml` 699
  promises an end.
* `kill`: a timed wait that finds a unit returns with the sleep reason at `TIMEOUT`.  `kill()` of that thread in its own
  code (`thread.cxx` 828) then takes it for a sleeper, sets a wake reason nobody looks at, and the thread runs on,
  against `kernel.sgml` 1700.
* Without a run of its own: `timeslice_cpu()` takes the current thread for the head of its queue.
  A yield followed by the end of the slice in the same unlock rotates the
  queue twice, and the yielding thread stays.  If that happens each time its peer starves,
  against `kernel.sgml` 1542.  A sleep and a wakeup before the switch, which put the thread at the
  tail, have the same effect (`SliceHandsOver` fails if `fair` has the `DsrCalls` of `quantum`).
* Without a run of its own: `kernel.sgml` 2893-2899 says that the inheritance protocol may leave an inversion when a thread holds
  two mutexes.  With one mutex there is one too if `set_priority()`, `suspend()` or `kill()` hits the threads involved, since
  inheritance looks at an owner only when a thread blocks or takes over; `NoInversion` without `Steady` fails.
* Without a run of its own: a thread that is killed after `unlock()` or `post()` woke it, and before it runs, takes the wakeup with it: the mutex stays
  free, or the unit in the count, while the others sleep on.  `kernel.sgml` 1702-1707 warns of threads killed while they own a
  mutex, not of those that only wait for one.  `NoUnitIdle` and `NobodyWaitsForFreeMutex` count such a thread as on its way.

The runs `fair` and `sleep` stay clear of `quantum` and the double rotation by their `Calls`; the runs above are the
smallest programs that meet them.  The run `alarms` does so by `Reentrant`, which forbids a program to
set an alarm from inside its own `add_alarm()`, and by their `Offsets`.

## 6. What is not modelled

* Objects: the destructors of flags and mailboxes, which wake their waiters with `DESTRUCT`; `set_protocol()` of a mutex at run time;
  `peek_item()` and other calls that only read; `cnt_sem2.cxx`, `mboxt.inl` and `mqueue.cxx`, used by layers that are not configured.
* `delay()` with the lock held (`thread.cxx` 966); `to_queue_head()`.
* Liveness of the objects: that a woken waiter runs is `BestIsDispatched` of `Scheduler`; that it is woken depends on the program.
* `Scheduler` leaves out the counts of DSRs and the alarm list, which the modules `DsrQueue` and `ClockAlarms` are about.
* The DSR table and the LIFO list of DSRs; attaching, masking and chaining of interrupts.
* Several alarm lists per counter (`MULTI_LIST`), `set_value()`, clock resolutions and converters.
* Thread construction at run time, `reinitialize()`, `deregister()`, stacks, exceptions.
* SMP, ASRs, sorted wait queues, the bitmap and lottery schedulers.
* Everything above the kernel; see the components in `PROJECT.json`.

## 7. The plan

Done, in this order: `KernelOps` and `Scheduler` with their proofs; `DsrQueue`; `ClockAlarms`; the objects
with `SyncObjects`; the proofs about them.  What is left, most useful first:

1. That `SyncObjects` is what `Scheduler` becomes when the steps of `unlock_inner()` are taken together, as a refinement
   instead of the argument of section 2.
2. Destructors, `cnt_sem2.cxx` and `mqueue.cxx` as further objects.
3. Outside the kernel: the serial ring buffers, the reference counts of `fd.cxx`, fixed-size memory pools.
