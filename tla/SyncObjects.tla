----------------------------- MODULE SyncObjects -----------------------------
(***************************************************************************)
(* Programs that use the synchronization objects together.  Each thread    *)
(* has its own set of calls, in any order and any number, and the DSRs     *)
(* have theirs; the program is one of Programs.                            *)
(***************************************************************************)
EXTENDS Semaphores, Flags, Mailboxes, Mutexes

\* Objects are all different, and there are finitely many of what is counted.
ASSUME ObjectsAssumption ==
    /\ IsFiniteSet(Threads) /\ IsFiniteSet(Mutexes)
    /\ flag \notin Semaphores \cup Mutexes \cup Conds
    /\ {get_threadq, put_threadq} \cap (Semaphores \cup Mutexes \cup Conds \cup {flag}) = {}
    /\ Semaphores \cap (Mutexes \cup Conds) = {}
ASSUME ProgramsAssumption ==
    \A p \in Programs :
        p \in [uses : SUBSET WaitQueues, targets : SUBSET Users, wishes : SUBSET Wishes,
              threads : [Users -> SUBSET STRING], dsrs : SUBSET STRING]

Init ==
    /\ k = started
    /\ pc = [t \in Threads |-> UserCode]
    /\ program \in Programs
    /\ count = [s \in Semaphores |-> 0]
    /\ value = {} /\ want = [t \in Threads |-> NoWish]
    /\ mbox = empty_mbox /\ wait_info = [t \in Threads |-> NoMessage]
    /\ mutex = [m \in Mutexes |-> free_mutex(m)]
    /\ holding = [m \in Mutexes |-> {}]
    /\ requested = InitPriority

Next == \/ Threading \/ SemaphoreCalls \/ FlagCalls \/ MailboxCalls \/ MutexCalls

Spec == Init /\ [][Next]_vars

-----------------------------------------------------------------------------
(* Properties.                                                             *)

TypeOK ==
    /\ k \in KernelState
    /\ pc \in [Threads -> [at : Places, on : WaitQueues \cup {NoQueue}]]
    /\ program \in Programs
    /\ count \in [Semaphores -> 0..MaxCount]
    /\ \A s \in Binary : count[s] <= 1
    /\ value \subseteq Bits
    /\ \A t \in Threads : want[t] = NoWish \/ want[t] \in [pattern : Masks, any : BOOLEAN,
                                              do_clear : BOOLEAN, value_out : SUBSET Bits]
    /\ mbox \in [base : Slots, count : 0..Size,
                 itemqueue : [Slots -> Messages \cup {NoMessage}]]
    /\ wait_info \in [Threads -> Messages \cup {NoMessage}]
    /\ mutex \in [Mutexes -> [locked : BOOLEAN, owner : Threads \cup {NoThread},
                              ceiling : UserPriorities]]
    /\ holding \in [Mutexes -> SUBSET Threads]
    /\ requested \in [Threads -> Priorities]

\* The queues of all objects hold the threads that sleep in a call on that
\* object, each once and nowhere else: a thread that was signalled, timed
\* out, was released, killed or overdue on entry is on none.
QueuedIffAsleep ==
    /\ \A q \in WaitQueues :
         \A i, j \in 1..Len(k.wait_queue[q]) :
             k.wait_queue[q][i] = k.wait_queue[q][j] => i = j
    /\ \A t \in Users, q \in WaitQueues :
         /\ holds(k.wait_queue[q], t) <=> k.queue[t] = q
         /\ holds(k.wait_queue[q], t) <=> "SLEEPING" \in k.state[t] /\ pc[t].on = q

HasTimer(t) == "SLEEPING" \in k.state[t] => k.sleep_reason[t] = "TIMEOUT" /\ k.timer[t]

\* A thread that sleeps in a call with a time limit has its alarm still to
\* come and is still to be woken by it, however often its wait began again.
TimedWaitersHaveTimers ==
    \A t \in Users :
        pc[t].at \in {"flag_timed_wait", "mbox_timed_wait", "cond_timed_wait"} => HasTimer(t)

\* The same for semaphores: a timed wait returns "after the timeout"
\* (kernel.sgml:699-705).
SemTimedWaitersHaveTimers ==
    \A t \in Users : pc[t].at = "sem_timed_wait" => HasTimer(t)

\* kill() is felt: a thread with its wake reason set to EXIT is not in its
\* own code, where nothing looks at it.
KillIsFelt == \A t \in Users : k.wake_reason[t] = "EXIT" => pc[t] # UserCode

=============================================================================
