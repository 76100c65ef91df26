---------------------------- MODULE SyncObjectsMC ----------------------------
(* Programs for TLC: threads hi, lo and peer, of priorities 0, 1 and 1.    *)
EXTENDS SyncObjects, TLC

CONSTANTS hi, lo, peer, idle, sem, bin, ev, mx, mx2, cv, gets, puts, m1, m2,
          nothread, noq, nomsg

SomePriorities == [t \in {hi, lo, peer, idle} |->
                      CASE t = hi -> 0 [] t = idle -> MinPriority [] OTHER -> 1]
SomeQueues == [p \in Priorities |->
                  CASE p = 0 -> <<hi>> [] p = 1 -> <<lo, peer>>
                    [] p = MinPriority -> <<idle>> [] OTHER -> <<>>]

TheWishes ==
    {[pattern |-> {1, 2}, any |-> FALSE, do_clear |-> TRUE],
     [pattern |-> {1, 2}, any |-> TRUE,  do_clear |-> FALSE],
     [pattern |-> {1},    any |-> FALSE, do_clear |-> TRUE]}

\* The calls of hi, lo, peer and the DSRs, on these objects and threads.
Program(uses, targets, of_hi, of_lo, of_peer, of_dsrs) ==
    [uses |-> uses, targets |-> targets, wishes |-> TheWishes, dsrs |-> of_dsrs,
     threads |-> [t \in Users |->
                     CASE t = hi -> of_hi [] t = lo -> of_lo [] OTHER -> of_peer]]

CountingProgram ==
    Program({sem}, Users, {"sem_wait", "sem_trywait"}, {"sem_wait", "kill"},
            {"sem_wait", "sem_post", "suspend", "resume"}, {"sem_post", "release"})
BinaryProgram ==
    Program({bin}, Users, {"sem_timed_wait"}, {"sem_wait"},
            {"sem_post", "sem_trywait", "suspend", "resume"}, {"sem_post", "release"})
FlagProgram ==
    Program({}, Users, {"flag_wait", "flag_poll"}, {"flag_timed_wait", "flag_maskbits"},
            {"flag_setbits", "kill"}, {"flag_setbits", "release"})
MailProgram ==
    Program({}, {hi, lo}, {"mbox_get", "mbox_timed_put"}, {"mbox_timed_get"},
            {"mbox_tryget", "mbox_put", "kill"}, {"mbox_tryput", "release"})
MutexProgram ==
    Program({mx, sem}, Users, {"sem_wait", "mutex_lock", "mutex_unlock"},
            {"mutex_lock", "mutex_trylock", "mutex_unlock"},
            {"mutex_lock", "mutex_unlock", "mutex_release"}, {"sem_post", "release"})
CondProgram ==
    Program({mx, cv}, Users, {"mutex_lock", "mutex_unlock", "cond_wait"},
            {"mutex_lock", "mutex_unlock", "cond_timed_wait", "kill"},
            {"mutex_lock", "mutex_unlock", "cond_signal", "cond_broadcast"},
            {"cond_signal", "release"})
PriorityProgram ==
    Program({mx, sem}, {lo}, {"sem_wait", "mutex_lock", "mutex_unlock"},
            {"mutex_lock", "mutex_unlock", "set_priority"},
            {"mutex_lock", "mutex_unlock", "suspend", "resume"}, {"sem_post"})
CeilingProgram ==
    Program({mx2, sem}, {lo}, {"sem_wait", "mutex_lock", "mutex_unlock"},
            {"mutex_lock", "mutex_unlock", "set_priority"},
            {"mutex_lock", "mutex_unlock", "mutex_set_ceiling"}, {"sem_post"})
NestedProgram ==
    Program({mx, mx2, sem}, {}, {"sem_wait", "mutex_lock", "mutex_unlock"},
            {"mutex_lock", "mutex_unlock"},
            {"mutex_lock", "mutex_unlock"}, {"sem_post"})

AllPrograms == {CountingProgram, BinaryProgram, FlagProgram, MailProgram, MutexProgram,
                CondProgram, PriorityProgram, CeilingProgram, NestedProgram}

\* A unit is posted for a waiter and taken back when its time is over; a
\* thread is killed after a timed wait that found a unit.
LateProgram ==
    {Program({sem}, {}, {"flag_wait"}, {"sem_timed_wait"}, {"sem_post", "sem_trywait"}, {})}
KillProgram ==
    {Program({sem}, {lo}, {"flag_wait", "kill"}, {"sem_timed_wait"}, {},
             {"sem_post", "flag_setbits"})}

SameMessages == Permutations({m1, m2})

TheProtocols == [m \in {mx, mx2} |-> IF m = mx THEN "INHERIT" ELSE "CEILING"]
TheCeilings  == [m \in {mx, mx2} |-> 0]
TheMutex     == [q \in {cv} |-> mx]

=============================================================================
