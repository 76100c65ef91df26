---------------------------- MODULE BlockingCalls ----------------------------
(***************************************************************************)
(* Threads that call the kernel's synchronization objects, on one CPU.     *)
(*                                                                         *)
(* A call holds the scheduler lock from its lock() to its unlock() or      *)
(* reschedule(), and Scheduler shows what that gives: no other thread and  *)
(* no DSR runs in between, and user code is only run by a runnable thread  *)
(* of the best priority.  Such a stretch is one step here, and the thread  *)
(* switch that unlock_inner() makes at its end is another; a call that     *)
(* sleeps leaves a note in pc of where it goes on when it runs again.      *)
(* Alarms, the timeslice and the DSRs of devices come in between whenever  *)
(* the lock is at zero.                                                    *)
(*                                                                         *)
(* This module has the threads, the scheduling and the calls threads make  *)
(* on each other; Semaphores, Flags, Mailboxes and Mutexes add the objects *)
(* and SyncObjects puts them together.                                     *)
(***************************************************************************)
EXTENDS KernelOps

CONSTANTS
    InitPriority,   \* the priority each thread is created with
    InitQueues,     \* the run queues, in the order the threads are resumed in
    Programs,       \* what each thread and the DSRs may call, and on what
                    \* objects and threads
    MaxSuspends     \* bound: nested suspends

Users          == Threads \ {Idle}
UserPriorities == 0..MinPriority-1

ASSUME InitPriorityOfThreads ==
    /\ InitPriority \in [Threads -> Priorities]
    /\ \A t \in Users : InitPriority[t] \in UserPriorities
    /\ InitPriority[Idle] = MinPriority
ASSUME QueuesOfThreads ==
    /\ InitQueues \in [Priorities -> Seq(Threads)]
    /\ \A p \in Priorities :
         /\ \A i, j \in 1..Len(InitQueues[p]) :
                InitQueues[p][i] = InitQueues[p][j] => i = j
         /\ \A t \in Threads : holds(InitQueues[p], t) <=> InitPriority[t] = p
ASSUME SuspendBound == MaxSuspends \in Nat

VARIABLES
    k,          \* the kernel state of KernelOps
    pc,         \* per thread: the call it is in, and on which object
    program,    \* the calls of this program; chosen at the start
    count,      \* semaphores: the counts
    value,      \* the flag: the bits that are set
    want,       \* the flag: each waiter's FlagWaitInfo
    mbox,       \* the mailbox: its ring of messages
    wait_info,  \* the mailbox: the message wait_info of a thread points at
    mutex,      \* mutexes: locked and owner
    holding,    \* history: the threads a mutex was given to
    requested   \* history: the priority last asked for each thread

semaphoreVars == <<count>>
flagVars      == <<value, want>>
mailboxVars   == <<mbox, wait_info>>
mutexVars     == <<mutex, holding>>
objectVars    == <<semaphoreVars, flagVars, mailboxVars, mutexVars>>
vars          == <<k, pc, program, objectVars, requested>>

-----------------------------------------------------------------------------
(* Where threads are.                                                      *)

Places == {"user", "dead", "sem_wait", "sem_timed_wait", "flag_wait",
           "flag_timed_wait", "mbox_wait", "mbox_timed_wait", "mbox_got", "mutex_lock",
           "cond_wait", "cond_timed_wait", "cond_relock", "cond_lock"}

At(place, object) == [at |-> place, on |-> object]
UserCode          == At("user", NoQueue)

\* The calls that sleep in reschedule() find the lock at one when they run
\* again, those that sleep in unlock_reschedule() at zero.
HoldsLock == {"sem_wait", "sem_timed_wait", "flag_wait", "flag_timed_wait",
              "mutex_lock", "cond_lock", "dead"}

self == k.current_thread

\* unlock_inner() is about to switch threads.
NeedSwitch == k.state[self] # RUNNING \/ k.need_reschedule

Continues(place) == ~NeedSwitch /\ pc[self].at = place

\* A thread makes a call from its own code; a DSR can, while the lock is zero.
FromThread(call) == Continues("user") /\ self # Idle /\ call \in program.threads[self]
DsrsRun          == pc[self].at \notin HoldsLock
FromDsr(call)    == DsrsRun /\ call \in program.dsrs
FromAny(call)    == FromThread(call) \/ FromDsr(call)

GoOn(place, object) == pc' = [pc EXCEPT ![self] = At(place, object)]
Return              == pc' = [pc EXCEPT ![self] = UserCode]

\* The three calls by which a wait goes to sleep on the queue of an object.
block(kk, q, reason) == enqueue(sleep(set_sleep_reason(kk, reason)), q, kk.current_thread)

\* set_timer(); a trigger that is already past calls the alarm at once.
armed(kk)   == set_timer(kk, "TIMEOUT")
overdue(kk) == alarm(set_timer(kk, "TIMEOUT"), kk.current_thread)

wake_reason == k.wake_reason[self]

\* The loops of the waits call exit() if the thread was killed.
Killed == wake_reason = "EXIT" /\ k' = exit(k) /\ GoOn("dead", NoQueue)

wake_done(kk, t) == wake(set_wake_reason(kk, t, "DONE"), t)

\* A waiter is taken off its queue, and woken or released.
dismiss(kk, t, reason) ==
    IF reason = "DONE" THEN wake_done(leave_queue(kk, t), t)
                       ELSE release(leave_queue(kk, t), t)

\* The thread at the head of a queue is woken, as the last act of its waker.
wake_first(kk, q) == IF kk.wait_queue[q] = <<>> THEN kk
                     ELSE dismiss(kk, Head(kk.wait_queue[q]), "DONE")

\* The loops over the threads of a queue, of which some are dismissed.
dismiss_all(kk, list, chosen, reason) ==
    LET after[n \in 0..Len(list)] ==
          IF n = 0 THEN kk
          ELSE IF n \in chosen THEN dismiss(after[n-1], list[n], reason)
          ELSE after[n-1]
    IN  after[Len(list)]

-----------------------------------------------------------------------------
(* Scheduling.                                                             *)

Switch ==
    /\ NeedSwitch
    /\ LET next  == schedule(k)
           saved == [timeslice_save(k, self) EXCEPT !.current_thread = next,
                                                    !.need_reschedule = FALSE]
       IN  k' = IF next = self THEN [k EXCEPT !.need_reschedule = FALSE]
                               ELSE timeslice_restore(saved, next)
    /\ UNCHANGED <<pc, program, objectVars, requested>>

ClockTimeslice ==
    /\ DsrsRun
    /\ k' = timeslice(k)
    /\ UNCHANGED <<pc, program, objectVars, requested>>

ClockAlarm(t) ==
    /\ DsrsRun /\ k.timer[t]
    /\ k' = alarm(k, t)
    /\ UNCHANGED <<pc, program, objectVars, requested>>

-----------------------------------------------------------------------------
(* Calls on other threads.                                                 *)

ThreadRelease(t) ==
    /\ FromAny("release")
    /\ k' = release(k, t)
    /\ UNCHANGED <<pc, program, objectVars, requested>>

ThreadSuspend(t) ==
    /\ FromAny("suspend") /\ k.suspend_count[t] < MaxSuspends
    /\ k' = suspend(k, t)
    /\ UNCHANGED <<pc, program, objectVars, requested>>

ThreadResume(t) ==
    /\ FromAny("resume") /\ k.suspend_count[t] > 0
    /\ k' = resume(k, t)
    /\ UNCHANGED <<pc, program, objectVars, requested>>

ThreadKill(t) ==
    /\ FromThread("kill") /\ t # self
    /\ k' = kill(k, t)
    /\ UNCHANGED <<pc, program, objectVars, requested>>

ThreadSetPriority(t, pri) ==
    /\ FromThread("set_priority")
    /\ k' = set_priority(k, t, pri)
    /\ requested' = [requested EXCEPT ![t] = pri]
    /\ UNCHANGED <<pc, program, objectVars>>

Threading ==
    \/ Switch \/ ClockTimeslice
    \/ \E t \in Users : ClockAlarm(t)
    \/ \E t \in program.targets :
         \/ ThreadRelease(t) \/ ThreadSuspend(t)
         \/ ThreadResume(t) \/ ThreadKill(t)
         \/ \E pri \in UserPriorities : ThreadSetPriority(t, pri)

-----------------------------------------------------------------------------
(* The program's threads have been created and resumed, and the first runs.*)

started ==
    LET map == {p \in Priorities : InitQueues[p] # <<>>}
    IN  [constructed(InitPriority) EXCEPT
           !.run_queue       = InitQueues,
           !.queue_map       = map,
           !.current_thread  = Head(InitQueues[lowest_bit(map)]),
           !.need_reschedule = FALSE,
           !.state           = [t \in Threads |-> RUNNING],
           !.suspend_count   = [t \in Threads |-> 0]]

=============================================================================
