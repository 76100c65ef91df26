------------------------------- MODULE Mutexes -------------------------------
(***************************************************************************)
(* mutex.cxx: mutexes and condition variables, and the priority protocols  *)
(* of sched.cxx.  unlock() leaves the mutex free and wakes the first       *)
(* waiter, which tests it again when it runs; a thread that waits on a     *)
(* condition variable locks the mutex again whatever woke it.              *)
(***************************************************************************)
EXTENDS BlockingCalls, FiniteSets

CONSTANTS
    Mutexes,    \* every mutex; its wait queue has its name
    Protocol,   \* per mutex: NONE, INHERIT or CEILING
    Ceiling,    \* per mutex: the priority it is initialized with as its ceiling
    Conds,      \* the condition variables, named as their wait queues
    MutexOf,    \* per condition variable: its mutex
    NoThread    \* owner == NULL

ASSUME MutexAssumption ==
    /\ Mutexes \subseteq WaitQueues /\ Conds \subseteq WaitQueues
    /\ Mutexes \cap Conds = {}
    /\ Protocol \in [Mutexes -> {"NONE", "INHERIT", "CEILING"}]
    /\ Ceiling \in [Mutexes -> UserPriorities]
    /\ MutexOf \in [Conds -> Mutexes]
    /\ NoThread \notin Threads

Active(m)   == Protocol[m] # "NONE"
Inherits(m) == Protocol[m] = "INHERIT"

free_mutex(m) == [locked |-> FALSE, owner |-> NoThread, ceiling |-> Ceiling[m]]

-----------------------------------------------------------------------------
(* sched.cxx: the simple priority inheritance and ceiling protocol.        *)

\* Mutant: the original priority is taken anew at each inheritance.
set_inherited_priority_again(kk, t, pri) ==
    IF pri < kk.priority[t]
    THEN [set_priority([kk EXCEPT !.priority_inherited[t] = FALSE], t, pri) EXCEPT
             !.original_priority[t]  = kk.priority[t],
             !.priority_inherited[t] = TRUE]
    ELSE kk

set_inherited_priority(kk, t, pri) ==
    IF pri < kk.priority[t]
    THEN [set_priority([kk EXCEPT !.priority_inherited[t] = FALSE], t, pri) EXCEPT
             !.original_priority[t]  = IF kk.priority_inherited[t] THEN @
                                       ELSE kk.priority[t],
             !.priority_inherited[t] = TRUE]
    ELSE kk

\* Mutant: the heir gets nothing from the owner before it.
relay_priority_not(kk, t, ex_owner, m) == kk

\* The first waiter leaves the queue of m: if others stay, it inherits from
\* the owner it takes over from.
relay_priority(kk, t, ex_owner, m) ==
    IF Inherits(m) /\ kk.wait_queue[m] # <<>>
    THEN set_inherited_priority(kk, t, kk.priority[ex_owner])
    ELSE kk

clear_inherited_priority(kk, t) ==
    LET off == [kk EXCEPT !.priority_inherited[t] = FALSE]
    IN  IF kk.mutex_count[t] = 0 /\ kk.priority_inherited[t]
        THEN IF kk.priority[t] < kk.original_priority[t]
             THEN set_priority(off, t, kk.original_priority[t]) ELSE off
        ELSE kk

\* A thread has one mutex more, or less, that affects its priority.
count_mutex(kk, t, m) ==
    LET counted_up == [kk EXCEPT !.mutex_count[t] = @ + 1]
    IN  CASE Protocol[m] = "NONE"    -> kk
          [] Protocol[m] = "INHERIT" -> counted_up
          [] OTHER -> set_inherited_priority(counted_up, t, mutex[m].ceiling)

uncount_mutex(kk, t, m) ==
    IF Active(m)
    THEN clear_inherited_priority([kk EXCEPT !.mutex_count[t] = @ - 1], t) ELSE kk

-----------------------------------------------------------------------------
(* Mutexes.                                                                *)

TakeMutex(m) ==
    /\ mutex' = [mutex EXCEPT ![m].locked = TRUE, ![m].owner = self]
    /\ holding' = [holding EXCEPT ![m] = @ \cup {self}]

\* Mutant: the thread that was woken takes the mutex for its own.
LockIfFree_unchecked(m, kk, waiting) ==
    \/ /\ ~mutex[m].locked \/ waiting = pc[self].at
       /\ TakeMutex(m) /\ k' = kk /\ Return
    \/ /\ mutex[m].locked /\ waiting # pc[self].at
       /\ k' = block(kk, m, "WAIT")
       /\ GoOn(waiting, m)
       /\ UNCHANGED <<mutex, holding>>

\* A turn of the loop in lock().
LockIfFree(m, kk, waiting) ==
    \/ ~mutex[m].locked /\ TakeMutex(m) /\ k' = kk /\ Return
    \/ /\ mutex[m].locked
       /\ LET asleep == block(kk, m, "WAIT")
          IN  k' = IF Inherits(m)
                   THEN set_inherited_priority(asleep, mutex[m].owner, asleep.priority[self])
                   ELSE asleep
       /\ GoOn(waiting, m)
       /\ UNCHANGED <<mutex, holding>>

\* lock() of a mutex that the thread does not own.
MutexLock(m) ==
    /\ FromThread("mutex_lock") /\ self \notin holding[m]
    /\ LockIfFree(m, count_mutex(k, self, m), "mutex_lock")
    /\ UNCHANGED <<program, semaphoreVars, flagVars, mailboxVars, requested>>

\* A thread in lock() runs again.  A wait on a condition variable begins
\* the lock again if it is broken off.
MutexWoken(m) ==
    /\ Continues("mutex_lock") \/ Continues("cond_lock")
    /\ pc[self].on = m
    /\ \/ Killed /\ UNCHANGED <<mutex, holding>>
       \/ /\ wake_reason = "BREAK"
          /\ k' = uncount_mutex(k, self, m)
          /\ IF pc[self].at = "mutex_lock" THEN Return ELSE GoOn("cond_relock", m)
          /\ UNCHANGED <<mutex, holding>>
       \/ wake_reason \notin {"EXIT", "BREAK"} /\ LockIfFree(m, k, pc[self].at)
    /\ UNCHANGED <<program, semaphoreVars, flagVars, mailboxVars, requested>>

\* Mutant: the mutex does not count.
MutexTryLock_uncounted(m) ==
    /\ FromThread("mutex_trylock") /\ ~mutex[m].locked
    /\ TakeMutex(m)
    /\ UNCHANGED <<k, pc, program, semaphoreVars, flagVars, mailboxVars, requested>>

MutexTryLock(m) ==
    /\ FromThread("mutex_trylock") /\ ~mutex[m].locked
    /\ TakeMutex(m)
    /\ k' = count_mutex(k, self, m)
    /\ UNCHANGED <<pc, program, semaphoreVars, flagVars, mailboxVars, requested>>

\* Mutant: nobody is woken.
unlocked_silently(kk, m) == uncount_mutex(kk, self, m)

\* unlock() by the owner: what it does to the kernel, and to the mutex.
unlocked(kk, m) ==
    LET heir == Head(kk.wait_queue[m])
        told == IF kk.wait_queue[m] = <<>> THEN kk
                ELSE wake_done(relay_priority(leave_queue(kk, heir), heir, self, m), heir)
    IN  uncount_mutex(told, self, m)

FreeMutex(m) ==
    /\ mutex' = [mutex EXCEPT ![m].locked = FALSE, ![m].owner = NoThread]
    /\ holding' = [holding EXCEPT ![m] = @ \ {self}]

MutexUnlock(m) ==
    /\ FromThread("mutex_unlock") /\ self \in holding[m]
    /\ k' = unlocked(k, m)
    /\ FreeMutex(m)
    /\ UNCHANGED <<pc, program, semaphoreVars, flagVars, mailboxVars, requested>>

\* release(): every waiter's lock() fails.
MutexRelease(m) ==
    /\ FromThread("mutex_release")
    /\ k' = dismiss_all(k, k.wait_queue[m], DOMAIN k.wait_queue[m], "BREAK")
    /\ UNCHANGED <<pc, program, objectVars, requested>>

MutexSetCeiling(m, pri) ==
    /\ FromThread("mutex_set_ceiling") /\ Protocol[m] = "CEILING"
    /\ mutex' = [mutex EXCEPT ![m].ceiling = pri]
    /\ UNCHANGED <<k, pc, program, semaphoreVars, flagVars, mailboxVars, holding, requested>>

-----------------------------------------------------------------------------
(* Condition variables.                                                    *)

CondWait(c) ==
    /\ FromThread("cond_wait") /\ self \in holding[MutexOf[c]]
    /\ k' = block(unlocked(k, MutexOf[c]), c, "WAIT")
    /\ FreeMutex(MutexOf[c])
    /\ GoOn("cond_wait", c)
    /\ UNCHANGED <<program, semaphoreVars, flagVars, mailboxVars, requested>>

\* Mutants: a thread whose time is already over is put on the queue; the
\* timer is set before the thread is put to sleep.
waits_in_time_late(kk, c) ==
    {enqueue(set_timer(sleep(kk), "TIMEOUT"), c, self),
     enqueue(alarm(set_timer(sleep(kk), "TIMEOUT"), self), c, self)}
waits_in_time_early(kk, c) ==
    {enqueue(sleep(set_timer(kk, "TIMEOUT")), c, self),
     sleep(alarm(set_timer(kk, "TIMEOUT"), self))}

\* The thread is only put on the queue if its time is not already over.
waits_in_time(kk, c) ==
    {enqueue(set_timer(sleep(kk), "TIMEOUT"), c, self),
     alarm(set_timer(sleep(kk), "TIMEOUT"), self)}

CondTimedWait(c) ==
    /\ FromThread("cond_timed_wait") /\ self \in holding[MutexOf[c]]
    /\ k' \in waits_in_time(unlocked(k, MutexOf[c]), c)
    /\ FreeMutex(MutexOf[c])
    /\ GoOn("cond_timed_wait", c)
    /\ UNCHANGED <<program, semaphoreVars, flagVars, mailboxVars, requested>>

\* A wait runs again, with the lock at zero: the thread exits or goes on to
\* lock the mutex, in a call of its own.
CondWoken(c) ==
    /\ Continues("cond_wait") \/ Continues("cond_timed_wait")
    /\ pc[self].on = c
    /\ Killed \/ (wake_reason # "EXIT" /\ k' = clear_timer(k, self)
                                       /\ GoOn("cond_relock", MutexOf[c]))
    /\ UNCHANGED <<program, objectVars, requested>>

CondRelock(m) ==
    /\ Continues("cond_relock") /\ pc[self].on = m
    /\ LockIfFree(m, count_mutex(k, self, m), "cond_lock")
    /\ UNCHANGED <<program, semaphoreVars, flagVars, mailboxVars, requested>>

CondSignal(c) ==
    /\ FromAny("cond_signal")
    /\ k' = wake_first(k, c)
    /\ UNCHANGED <<pc, program, objectVars, requested>>

CondBroadcast(c) ==
    /\ FromAny("cond_broadcast")
    /\ k' = dismiss_all(k, k.wait_queue[c], DOMAIN k.wait_queue[c], "DONE")
    /\ UNCHANGED <<pc, program, objectVars, requested>>

MutexCalls ==
    \/ \E m \in Mutexes \cap program.uses :
         \/ MutexLock(m) \/ MutexWoken(m) \/ MutexTryLock(m) \/ MutexUnlock(m)
         \/ MutexRelease(m) \/ CondRelock(m)
         \/ \E pri \in UserPriorities : MutexSetCeiling(m, pri)
    \/ \E c \in Conds \cap program.uses :
         \/ CondWait(c) \/ CondTimedWait(c) \/ CondWoken(c)
         \/ CondSignal(c) \/ CondBroadcast(c)

-----------------------------------------------------------------------------
(* Properties.                                                             *)

\* A mutex has at most one holder, the owner it records, however its waiters
\* are woken, overtaken, released and killed: from the success of a lock,
\* trylock or wait to the unlock, no other thread succeeds (mutex.cxx:219).
MutualExclusion ==
    \A m \in Mutexes :
        holding[m] = IF mutex[m].locked THEN {mutex[m].owner} ELSE {}

Locking(t, m) == pc[t] \in {At("mutex_lock", m), At("cond_lock", m)}

\* Threads do not wait for a mutex that is free unless one of them has been
\* woken and will look at it when it runs, unless it is killed first.
NobodyWaitsForFreeMutex ==
    \A m \in Mutexes :
        ~mutex[m].locked /\ k.wait_queue[m] # <<>> =>
            \E t \in Users : /\ Locking(t, m)
                             /\ "SLEEPING" \notin k.state[t]
                             /\ k.wake_reason[t] = "DONE"

\* mutex_count is the number of mutexes that affect a thread's priority: the
\* ones it holds and the one it waits for, through every broken, repeated
\* and timed wait ("Non-positive mutex count", sched.cxx:597).
MutexCountAgrees ==
    \A t \in Users : "EXITED" \notin k.state[t] =>
        k.mutex_count[t] =
            Cardinality({m \in Mutexes : Active(m) /\ (t \in holding[m] \/ Locking(t, m))})

\* What a thread inherits it gives back: without a mutex it has the priority
\* last asked for it, and with one no worse (kernel.sgml:1790-1797).
InheritanceIsReturned ==
    \A t \in Users :
        /\ requested[t] = IF k.priority_inherited[t] THEN k.original_priority[t]
                                                     ELSE k.priority[t]
        /\ k.priority[t] <= requested[t]
        /\ k.mutex_count[t] = 0 => ~k.priority_inherited[t]

\* "If a thread ... blocks on a mutex, the owner's priority is raised": as
\* long as no thread is suspended, killed or given another priority, nobody
\* who waits with no other mutex held is better than the owner.
Steady == /\ {"suspend", "kill", "set_priority"} \cap program.dsrs = {}
          /\ \A t \in Users :
               {"suspend", "kill", "set_priority"} \cap program.threads[t] = {}
WaitsFor(t, m) == holds(k.wait_queue[m], t) /\ \A o \in Mutexes : t \notin holding[o]
NoInversion ==
    \A m \in Mutexes, t \in Users :
        Inherits(m) /\ mutex[m].locked /\ WaitsFor(t, m) =>
            k.priority[mutex[m].owner] <= k.priority[t]
NoInversionWhenSteady == Steady => NoInversion

=============================================================================
