-------------------------------- MODULE Flags --------------------------------
(***************************************************************************)
(* flag.cxx: an event flag.  setbits() itself decides which waiters are    *)
(* satisfied, writes the value each of them sees into its FlagWaitInfo     *)
(* and wakes it.                                                           *)
(***************************************************************************)
EXTENDS BlockingCalls

CONSTANTS
    Bits,       \* the bits of the flag that are used
    flag        \* its wait queue

ASSUME FlagAssumption == flag \in WaitQueues

Masks  == (SUBSET Bits) \ {{}}
Wishes == [pattern : Masks, any : BOOLEAN, do_clear : BOOLEAN]
NoWish == [pattern |-> {}, any |-> FALSE, do_clear |-> FALSE, value_out |-> {}]

\* The tests of poll() and setbits().
matches(wish, v) == IF wish.any THEN wish.pattern \cap v # {}
                                ELSE wish.pattern \subseteq v

remaining(wish, v) == IF wish.do_clear THEN {} ELSE v

\* poll(), also as the first thing wait() does.
FlagPoll(wish) ==
    /\ FromAny("flag_poll")
    /\ matches(wish, value)
    /\ value' = remaining(wish, value)
    /\ UNCHANGED <<k, pc, program, semaphoreVars, want, mailboxVars, mutexVars, requested>>

FlagFound(wish) ==
    /\ FromThread("flag_wait") \/ FromThread("flag_timed_wait")
    /\ matches(wish, value)
    /\ value' = remaining(wish, value)
    /\ UNCHANGED <<k, pc, program, semaphoreVars, want, mailboxVars, mutexVars, requested>>

WithOutput(wish) == [pattern   |-> wish.pattern,  any       |-> wish.any,
                     do_clear  |-> wish.do_clear, value_out |-> {}]

FlagWait(wish) ==
    /\ FromThread("flag_wait") /\ ~matches(wish, value)
    /\ want' = [want EXCEPT ![self] = WithOutput(wish)]
    /\ k' = block(k, flag, "WAIT")
    /\ GoOn("flag_wait", flag)
    /\ UNCHANGED <<program, semaphoreVars, value, mailboxVars, mutexVars, requested>>

FlagTimedWait(wish) ==
    /\ FromThread("flag_timed_wait") /\ ~matches(wish, value)
    /\ \/ /\ want' = [want EXCEPT ![self] = WithOutput(wish)]
          /\ k' = block(armed(k), flag, "TIMEOUT")
          /\ GoOn("flag_timed_wait", flag)
       \/ /\ k' = clear_timer(overdue(k), self)
          /\ UNCHANGED <<want, pc>>
    /\ UNCHANGED <<program, semaphoreVars, value, mailboxVars, mutexVars, requested>>

\* A wait runs again: it is over if a value was written, the wait was
\* broken, or it timed out.
FlagWoken ==
    /\ Continues("flag_wait") \/ Continues("flag_timed_wait")
    /\ \/ Killed
       \/ /\ wake_reason # "EXIT"
          /\ wake_reason \in {"BREAK", "TIMEOUT"} \/ want[self].value_out # {}
          /\ k' = clear_timer(k, self) /\ Return
       \/ /\ wake_reason \notin {"EXIT", "BREAK", "TIMEOUT"}
          /\ want[self].value_out = {}
          /\ k' = block(k, flag, IF pc[self].at = "flag_wait" THEN "WAIT" ELSE "TIMEOUT")
          /\ UNCHANGED pc
    /\ want' = IF pc'[self] = pc[self] THEN want ELSE [want EXCEPT ![self] = NoWish]
    /\ UNCHANGED <<program, semaphoreVars, value, mailboxVars, mutexVars, requested>>

FlagMaskBits(mask) ==
    /\ FromAny("flag_maskbits")
    /\ value' = value \cap mask
    /\ UNCHANGED <<k, pc, program, semaphoreVars, want, mailboxVars, mutexVars, requested>>

waiting == k.wait_queue[flag]

\* Mutant: the loop stops at the first waiter it wakes.
Satisfied_first(v) ==
    {i \in DOMAIN waiting : /\ matches(want[waiting[i]], v)
                            /\ \A j \in 1..i-1 : ~matches(want[waiting[j]], v)}

\* The places in the queue setbits() wakes, given the new value v: the loop
\* goes on behind a waiter that clears the flag, but nothing matches zero.
Satisfied(v) ==
    {i \in DOMAIN waiting :
        /\ matches(want[waiting[i]], v)
        /\ \A j \in 1..i-1 : matches(want[waiting[j]], v) => ~want[waiting[j]].do_clear}

FlagSetBits(mask) ==
    /\ FromAny("flag_setbits")
    /\ LET v     == value \cup mask
           woken == Satisfied(v)
       IN  /\ k' = dismiss_all(k, waiting, woken, "DONE")
           /\ want' = [t \in DOMAIN want |->
                         IF \E i \in woken : waiting[i] = t
                         THEN [want[t] EXCEPT !.value_out = v] ELSE want[t]]
           /\ value' = IF \E i \in woken : want[waiting[i]].do_clear THEN {} ELSE v
    /\ UNCHANGED <<pc, program, semaphoreVars, mailboxVars, mutexVars, requested>>

FlagCalls ==
    \/ FlagWoken
    \/ \E wish \in program.wishes : \/ FlagPoll(wish) \/ FlagFound(wish)
                            \/ FlagWait(wish) \/ FlagTimedWait(wish)
    \/ \E mask \in SUBSET Bits : FlagMaskBits(mask) \/ FlagSetBits(mask)

-----------------------------------------------------------------------------
(* Properties.                                                             *)

InFlagWait(t) == pc[t].at \in {"flag_wait", "flag_timed_wait"}

\* Nobody sleeps on the flag while its value satisfies them, however bits
\* were set, masked and cleared by waiters in front of them, and in whatever
\* order they came ("wake up any affected waiting threads", flag.cxx:153).
NobodySatisfiedSleeps ==
    \A t \in Users :
        InFlagWait(t) /\ k.queue[t] = flag => ~matches(want[t], value)

\* "Break out but also good result!" (flag.cxx:289, 385): a waiter that woke
\* for an event has a value that matches what it waits for, and one that
\* timed out, was released or killed has not consumed an event.
OutcomeIsClear ==
    \A t \in Users : InFlagWait(t) /\ k.queue[t] = NoQueue =>
        IF k.wake_reason[t] = "DONE"
        THEN want[t].value_out # {} /\ matches(want[t], want[t].value_out)
        ELSE want[t].value_out = {}

=============================================================================
