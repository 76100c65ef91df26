----------------------------- MODULE Semaphores ------------------------------
(***************************************************************************)
(* cnt_sem.cxx and bin_sem.cxx: counting and binary semaphores.  post()    *)
(* counts up and wakes the first waiter, which tests the count again when  *)
(* it runs: another thread may have taken the unit in the meantime.        *)
(***************************************************************************)
EXTENDS BlockingCalls, FiniteSets

CONSTANTS
    Semaphores,     \* every semaphore; its wait queue has its name
    Binary,         \* those of them that are binary: state is a count of 0 or 1
    MaxCount        \* bound: the units of a semaphore

ASSUME SemaphoresAssumption ==
    /\ Semaphores \subseteq WaitQueues
    /\ Binary \subseteq Semaphores
    /\ MaxCount \in Nat \ {0}

SemPlaces == {"sem_wait", "sem_timed_wait"}

\* Mutant: the unit is taken for granted after a wakeup.
Claim_unchecked(s, kk) == /\ count' = [count EXCEPT ![s] = @ - 1]
                          /\ k' = clear_timer(kk, self)
                          /\ Return

\* Take a unit and return.  A timed wait stops its timer; the untimed wait
\* has none, and clear_timer() changes nothing.
Claim(s, kk) == /\ count[s] > 0
                /\ count' = [count EXCEPT ![s] = @ - 1]
                /\ k' = clear_timer(kk, self)
                /\ Return

GiveUp(kk) == k' = clear_timer(kk, self) /\ Return /\ UNCHANGED count

\* Sleep, in the first or a later turn of the loop.
Await(s, place, kk) ==
    /\ count[s] = 0
    /\ k' = block(kk, s, IF place = "sem_wait" THEN "WAIT" ELSE "TIMEOUT")
    /\ GoOn(place, s)
    /\ UNCHANGED count

SemWait(s) ==
    /\ FromThread("sem_wait")
    /\ Claim(s, k) \/ Await(s, "sem_wait", k)
    /\ UNCHANGED <<program, flagVars, mailboxVars, mutexVars, requested>>

\* The timer is set before the count is looked at.
SemTimedWait(s) ==
    /\ FromThread("sem_timed_wait")
    /\ \/ Claim(s, armed(k)) \/ Await(s, "sem_timed_wait", armed(k))
       \/ Claim(s, overdue(k)) \/ (count[s] = 0 /\ GiveUp(overdue(k)))
    /\ UNCHANGED <<program, flagVars, mailboxVars, mutexVars, requested>>

\* A wait runs again.
SemWoken(s) ==
    /\ \E place \in SemPlaces :
         /\ Continues(place) /\ pc[self].on = s
         /\ \/ Killed /\ UNCHANGED count
            \/ wake_reason \in {"BREAK", "TIMEOUT"} /\ GiveUp(k)
            \/ /\ wake_reason \notin {"EXIT", "BREAK", "TIMEOUT"}
               /\ Claim(s, k) \/ Await(s, place, k)
    /\ UNCHANGED <<program, flagVars, mailboxVars, mutexVars, requested>>

SemTryWait(s) ==
    /\ FromAny("sem_trywait") /\ count[s] > 0
    /\ count' = [count EXCEPT ![s] = @ - 1]
    /\ UNCHANGED <<k, pc, program, flagVars, mailboxVars, mutexVars, requested>>

\* Mutant: a waiter is only woken when the count leaves zero.
SemPost_from_zero(s) ==
    /\ FromAny("sem_post")
    /\ s \in Binary \/ count[s] < MaxCount
    /\ count' = [count EXCEPT ![s] = IF s \in Binary THEN 1 ELSE @ + 1]
    /\ k' = IF count[s] = 0 THEN wake_first(k, s) ELSE k
    /\ UNCHANGED <<pc, program, flagVars, mailboxVars, mutexVars, requested>>

SemPost(s) ==
    /\ FromAny("sem_post")
    /\ s \in Binary \/ count[s] < MaxCount
    /\ count' = [count EXCEPT ![s] = IF s \in Binary THEN 1 ELSE @ + 1]
    /\ k' = wake_first(k, s)
    /\ UNCHANGED <<pc, program, flagVars, mailboxVars, mutexVars, requested>>

SemaphoreCalls ==
    \E s \in Semaphores \cap program.uses :
        \/ SemWait(s) \/ SemTimedWait(s) \/ SemWoken(s) \/ SemTryWait(s) \/ SemPost(s)

-----------------------------------------------------------------------------
(* Properties.                                                             *)

\* The threads a post woke that have not run since: each will look at the
\* count when it does, unless it is killed first, which kernel.sgml:1702-1707
\* warns of.
Claimants(s) ==
    {t \in Users : /\ pc[t] \in {At(place, s) : place \in SemPlaces}
                   /\ "SLEEPING" \notin k.state[t]
                   /\ k.wake_reason[t] = "DONE"}

\* No unit lies idle while threads wait for one: whoever posts, steals with
\* trywait(), times out or is released, there are as many woken threads on
\* their way to the count as it has units.
NoUnitIdle ==
    \A s \in Semaphores :
        k.wait_queue[s] # <<>> => count[s] <= Cardinality(Claimants(s))

=============================================================================
