-------------------------- MODULE SyncObjectsProofs --------------------------
(***************************************************************************)
(* Theorems about the synchronization objects, for every number of         *)
(* threads, objects and messages and for every program.                    *)
(*                                                                         *)
(* The invariant says where each thread is: a thread is on a wait queue    *)
(* exactly while it sleeps in a call on the queue's object, and one whose  *)
(* wait is over has nothing left that could end it again.  A step of a     *)
(* call on some objects concerns the threads that call on these objects;   *)
(* for all others their waits go on, or end as a timeout, a release or a   *)
(* kill would end them.                                                    *)
(*                                                                         *)
(* That no owner of a mutex is worse than those who wait for it takes a    *)
(* second invariant, of programs in which threads stop only by waiting:    *)
(* the heir of a free mutex is no worse either, and it can run, so that    *)
(* whoever takes the mutex before it is no worse than the heir.            *)
(***************************************************************************)
EXTENDS SyncObjects, MutexProofs, MailboxProofs, FiniteSetTheorems

FlagPlaces == {"flag_wait", "flag_timed_wait"}
MboxPlaces == {"mbox_wait", "mbox_timed_wait"}
LockPlaces == {"mutex_lock", "cond_lock"}
CondPlaces == {"cond_wait", "cond_timed_wait"}
TimedPlaces == {"flag_timed_wait", "mbox_timed_wait", "cond_timed_wait"}

Spot == [at : Places, on : WaitQueues \cup {NoQueue}]

\* p is in a wait on an object of its kind.
IsWait(p) ==
    \/ p.at \in SemPlaces  /\ p.on \in Semaphores
    \/ p.at \in FlagPlaces /\ p.on = flag
    \/ p.at \in MboxPlaces /\ p.on \in {get_threadq, put_threadq}
    \/ p.at \in LockPlaces /\ p.on \in Mutexes
    \/ p.at \in CondPlaces /\ p.on \in Conds

\* p is where a thread does not sleep.
Ended  == At("dead", NoQueue)
IsFree(p) ==
    \/ p = UserCode \/ p = Ended
    \/ p = At("mbox_got", get_threadq)
    \/ p.at = "cond_relock" /\ p.on \in Mutexes

ThreadOK(kk, p, t) ==
    /\ IsWait(p) \/ IsFree(p)
    /\ kk.queue[t] # NoQueue => IsWait(p) /\ p.on = kk.queue[t]
    /\ Asleep(kk, t) => kk.queue[t] # NoQueue
    /\ IsWait(p) /\ kk.queue[t] = NoQueue =>
         kk.sleep_reason[t] = "NONE" /\ kk.wake_reason[t] \in Outcomes
    /\ p.at \in TimedPlaces => HasAlarm(kk, t)

\* Each thread is where it should be.
PlacesOK ==
    /\ Good(k) /\ Waits(k)
    /\ pc \in [Threads -> Spot] /\ pc[Idle] = UserCode
    /\ \A t \in Users : ThreadOK(k, pc[t], t)

-----------------------------------------------------------------------------
(* The steps of calls.                                                     *)

\* t does nothing in this step.
Bystands(t, D) ==
    /\ pc'[t] = pc[t]
    /\ GoesOn(k, k', t) \/ Ends(k, k', t, D)
    /\ HasAlarm(k, t) => HasAlarm(k', t)

\* The current thread goes on in a call on an object of S, or starts one.
Acts(S) ==
    /\ Awake(k, self)
    /\ pc[self] = UserCode \/ pc[self].on \in S
    /\ pc'[self] \in Spot
    /\ pc'[self] \in {UserCode, Ended} \/ pc'[self].on \in S
    /\ \/ IsFree(pc'[self]) /\ Awake(k', self)
       \/ /\ IsWait(pc'[self]) /\ Awake(k', self)
          /\ k'.sleep_reason[self] = "NONE" /\ k'.wake_reason[self] \in Outcomes
       \/ /\ IsWait(pc'[self]) /\ k'.queue[self] = pc'[self].on
          /\ pc'[self].at \in TimedPlaces => HasAlarm(k', self)

\* A step of a call on objects of S tells the threads of D, which wait for
\* one of these objects, that they are done.
Calls(S, D) ==
    /\ Good(k') /\ Waits(k') /\ Stays(k, k')
    /\ \A t \in D : t \in Users /\ k.queue[t] \in S
    /\ pc' \in [Threads -> Spot] /\ pc'[Idle] = UserCode
    /\ \A t \in Users : Bystands(t, D) \/ (t = self /\ Acts(S))

\* The places of waits are those of Spot, and no place is both.
LEMMA SpotFacts ==
    /\ \A p \in Spot : IsWait(p) /\ IsFree(p) => FALSE
    /\ UserCode \in Spot /\ Ended \in Spot
    /\ At("mbox_got", get_threadq) \in Spot
    /\ \A a \in Places, o \in WaitQueues : At(a, o) \in Spot
    /\ \A p \in Spot : IsFree(p) => p.at \notin TimedPlaces
<1>1. get_threadq \in WaitQueues
  BY MailboxAssumption
<1> QED
  BY <1>1 DEF IsWait, IsFree, Spot, Places, UserCode, Ended, At, SemPlaces, FlagPlaces,
     MboxPlaces, LockPlaces, CondPlaces, TimedPlaces

\* Such a step leaves every thread where it should be.
LEMMA CallsPlaces ==
    ASSUME PlacesOK, NEW S, NEW D, Calls(S, D)
    PROVE  PlacesOK'
<1> SUFFICES ASSUME NEW t \in Users PROVE ThreadOK(k', pc'[t], t)
  BY DEF PlacesOK, Calls
<1>1. ThreadOK(k, pc[t], t) /\ pc[t] \in Spot /\ t \in Threads
  BY DEF PlacesOK, Users
<1>2. CASE Bystands(t, D)
  BY <1>1, <1>2 DEF Bystands, ThreadOK, GoesOn, Ends, HasAlarm
<1>3. CASE t = self /\ Acts(S)
  <2>1. Waits(k')
    BY DEF Calls
  <2>2. CASE IsFree(pc'[t]) /\ Awake(k', t)
    BY <1>3, <2>2, SpotFacts DEF ThreadOK, Awake, HasAlarm, Acts
  <2>3. CASE /\ IsWait(pc'[t]) /\ Awake(k', t)
             /\ k'.sleep_reason[t] = "NONE" /\ k'.wake_reason[t] \in Outcomes
    BY <2>3 DEF ThreadOK, Awake, HasAlarm
  <2>4. CASE /\ IsWait(pc'[t]) /\ k'.queue[t] = pc'[t].on
             /\ pc'[t].at \in TimedPlaces => HasAlarm(k', t)
    <3>1. pc'[t].on \in WaitQueues
      BY <2>4, SemaphoresAssumption, FlagAssumption, MailboxAssumption, MutexAssumption
         DEF IsWait
    <3> QED BY <2>4, <3>1, QueueAssumption DEF ThreadOK
  <2> QED BY <1>3, <2>2, <2>3, <2>4 DEF Acts
<1> QED BY <1>2, <1>3 DEF Calls

\* A thread that calls, or goes on in a call, is awake and in the call.
LEMMA Caller ==
    ASSUME PlacesOK
    PROVE  /\ \A call : FromThread(call) => Calling(k) /\ pc[self] = UserCode
           /\ \A place : Continues(place) /\ place # "user" =>
                /\ Calling(k) /\ pc[self].at = place /\ ThreadOK(k, pc[self], self)
                /\ pc[self] \in Spot
           /\ self \in Threads
<1>1. self \in Threads /\ Good(k) /\ Waits(k)
  BY GoodType DEF PlacesOK, self
<1>2. ASSUME ~NeedSwitch, self # Idle
      PROVE  Calling(k)
  <2>1. k.state[self] = {}
    BY <1>2 DEF NeedSwitch, RUNNING
  <2>2. ~Asleep(k, self)
    BY <2>1 DEF Asleep
  <2>3. k.queue[self] = NoQueue
    BY <1>1, <2>2 DEF Waits
  <2> QED BY <1>1, <1>2, <2>2, <2>3 DEF Calling, Awake, Users, self
<1>3. ASSUME NEW call, FromThread(call)
      PROVE  Calling(k) /\ pc[self] = UserCode
  <2>1. ~NeedSwitch /\ self # Idle /\ pc[self].at = "user" /\ self \in Users
    BY <1>1, <1>3 DEF FromThread, Continues, Users
  <2>2. ThreadOK(k, pc[self], self)
    BY <2>1 DEF PlacesOK
  <2>3. pc[self] = UserCode
    BY <2>1, <2>2 DEF ThreadOK, IsWait, IsFree, Ended, At, SemPlaces, FlagPlaces,
       MboxPlaces, LockPlaces, CondPlaces
  <2> QED BY <1>2, <2>1, <2>3
<1>4. ASSUME NEW place, Continues(place), place # "user"
      PROVE  /\ Calling(k) /\ pc[self].at = place /\ ThreadOK(k, pc[self], self)
             /\ pc[self] \in Spot
  <2>1. ~NeedSwitch /\ pc[self].at = place
    BY <1>4 DEF Continues
  <2>2. self # Idle
    BY <1>4, <2>1 DEF PlacesOK, UserCode, At
  <2>3. self \in Users
    BY <1>1, <2>2 DEF Users
  <2> QED BY <1>1, <1>2, <2>1, <2>2, <2>3 DEF PlacesOK
<1> QED BY <1>1, <1>3, <1>4

\* A step in which no thread goes anywhere.
LEMMA ContinuedCalls ==
    ASSUME PlacesOK, NEW S, NEW D, Continued(k, k', D), pc' = pc,
           \A t \in D : t \in Users /\ k.queue[t] \in S
    PROVE  Calls(S, D)
BY DEF PlacesOK, Calls, Continued, Step, Bystands, Users

\* A step in which the current thread goes on to p.
LEMMA MovedCalls ==
    ASSUME PlacesOK, Calling(k), NEW S, NEW D, Moved(k, k', D),
           \A t \in D : t \in Users /\ k.queue[t] \in S,
           NEW p \in Spot, pc' = [pc EXCEPT ![self] = p],
           pc[self] = UserCode \/ pc[self].on \in S,
           p \in {UserCode, Ended} \/ p.on \in S,
           \/ IsFree(p) /\ Awake(k', self)
           \/ /\ IsWait(p) /\ Awake(k', self)
              /\ k'.sleep_reason[self] = "NONE" /\ k'.wake_reason[self] \in Outcomes
           \/ IsWait(p) /\ k'.queue[self] = p.on /\ (p.at \in TimedPlaces => HasAlarm(k', self))
    PROVE  Calls(S, D)
<1>1. self \in Users /\ self \in Threads /\ self # Idle /\ Idle \in Threads
  BY ThreadsAssumption DEF Calling, Users, self
<1>2. pc \in [Threads -> Spot] /\ pc[Idle] = UserCode
  BY DEF PlacesOK
<1>3. pc' \in [Threads -> Spot] /\ pc'[Idle] = UserCode /\ pc'[self] = p
  BY <1>1, <1>2
<1>4. Acts(S)
  BY <1>1, <1>3 DEF Acts, Calling, self
<1>5. ASSUME NEW t \in Users \ {self} PROVE Bystands(t, D)
  <2>1. pc'[t] = pc[t] /\ t \in Threads \ {k.current_thread}
    BY <1>1, <1>2 DEF Users, self
  <2> QED BY <2>1 DEF Moved, Bystands
<1>6. Good(k') /\ Waits(k') /\ Stays(k, k')
  BY DEF Moved, Step
<1> QED BY <1>3, <1>4, <1>5, <1>6 DEF Calls

\* The scheduler and the calls on threads end waits without telling anybody
\* DONE, and change priorities only by set_priority().
LEMMA ThreadingCalls ==
    ASSUME PlacesOK, program \in Programs, Threading
    PROVE  /\ Calls({}, {}) /\ UNCHANGED <<pc, program, objectVars>>
           /\ \/ Plain(k, k') /\ UNCHANGED requested
              \/ \E t \in Users, pri \in UserPriorities :
                   /\ k' = set_priority(k, t, pri)
                   /\ requested' = [requested EXCEPT ![t] = pri]
<1> DEFINE Result == /\ Calls({}, {}) /\ UNCHANGED <<pc, program, objectVars>>
                     /\ Plain(k, k') /\ UNCHANGED requested
<1>1. /\ Good(k) /\ Waits(k)
      /\ program.targets \subseteq Users
  BY ProgramsAssumption DEF PlacesOK
<1>2. ASSUME Continued(k, k', {}), Plain(k, k'),
             UNCHANGED <<pc, program, objectVars, requested>>
      PROVE  Result
  BY <1>2, ContinuedCalls
<1>3. CASE Switch
  <2>1. k' = switched(k)
    BY <1>3 DEF Switch, switched, self
  <2>2. Good(k') /\ Waits(k') /\ Unseen(k, k') /\ Stays(k, k')
    BY <1>1, <2>1, SwitchUnseen
  <2>3. UNCHANGED <<pc, program, objectVars, requested>>
    BY <1>3 DEF Switch
  <2>4. ASSUME NEW t \in Users PROVE Bystands(t, {})
    BY <2>2, <2>3 DEF Bystands, GoesOn, HasAlarm, Asleep, Unseen, SameWaits
  <2>5. Calls({}, {})
    BY <2>2, <2>3, <2>4 DEF Calls, PlacesOK
  <2> QED BY <2>2, <2>3, <2>5 DEF Unseen
<1>4. CASE ClockTimeslice
  BY <1>1, <1>2, <1>4, TimesliceContinued DEF ClockTimeslice
<1>5. CASE \E t \in Users : ClockAlarm(t)
  BY <1>1, <1>2, <1>5, AlarmContinued DEF ClockAlarm
<1>6. ASSUME NEW t \in program.targets, ThreadRelease(t) PROVE Result
  BY <1>1, <1>2, <1>6, ReleaseContinued DEF ThreadRelease
<1>7. ASSUME NEW t \in program.targets, ThreadSuspend(t) PROVE Result
  BY <1>1, <1>2, <1>7, SuspendContinued DEF ThreadSuspend
<1>8. ASSUME NEW t \in program.targets, ThreadResume(t) PROVE Result
  BY <1>1, <1>2, <1>8, ResumeContinued DEF ThreadResume
<1>9. ASSUME NEW t \in program.targets, ThreadKill(t) PROVE Result
  BY <1>1, <1>2, <1>9, KillContinued DEF ThreadKill
<1>10. ASSUME NEW t \in program.targets, NEW pri \in UserPriorities, ThreadSetPriority(t, pri)
       PROVE  /\ Calls({}, {}) /\ UNCHANGED <<pc, program, objectVars>>
              /\ k' = set_priority(k, t, pri)
              /\ requested' = [requested EXCEPT ![t] = pri]
  <2>1. t \in Users /\ pri \in Priorities
    BY <1>1, PriorityAssumption DEF UserPriorities, Priorities
  <2>2. /\ k' = set_priority(k, t, pri)
        /\ requested' = [requested EXCEPT ![t] = pri]
        /\ UNCHANGED <<pc, program, objectVars>>
    BY <1>10 DEF ThreadSetPriority
  <2>3. Ranked(k, k')
    BY <1>1, <2>1, <2>2, SetPriorityLaw
  <2>4. Continued(k, k', {})
    BY <1>1, <2>3, RankedContinued
  <2> QED BY <2>2, <2>4, ContinuedCalls
<1> QED BY <1>1, <1>3, <1>4, <1>5, <1>6, <1>7, <1>8, <1>9, <1>10 DEF Threading

\* wake_first() of a queue is a step of a call on its object.
LEMMA WakeFirstCalls ==
    ASSUME PlacesOK, NEW q \in WaitQueues, k' = wake_first(k, q), pc' = pc
    PROVE  LET w == k.wait_queue[q]
               D == IF w = <<>> THEN {} ELSE {Head(w)}
           IN  /\ Calls({q}, D) /\ Plain(k, k') /\ Continued(k, k', D)
               /\ \A t \in D : /\ k.queue[t] = q /\ Awake(k', t)
                               /\ k'.wake_reason[t] = "DONE"
<1> DEFINE w == k.wait_queue[q]
           D == IF w = <<>> THEN {} ELSE {Head(w)}
<1>1. Good(k) /\ Waits(k) /\ k.state \in [Threads -> SUBSET StateBits]
      /\ k.queue \in [Threads -> WaitQueues \cup {NoQueue}]
      /\ k.wake_reason \in [Threads -> Reasons]
  BY FieldTypes DEF PlacesOK
<1>2. /\ Continued(k, k', D) /\ Plain(k, k')
      /\ w # <<>> => Woken(k, k', Head(w), "DONE")
  BY <1>1, WakeFirst
<1>3. \A t \in D : t \in Users /\ k.queue[t] = q
  BY <1>1, HeadWaits
<1>4. \A t \in D : Awake(k', t) /\ k'.wake_reason[t] = "DONE"
  BY <1>1, <1>2, <1>3 DEF Woken, Awake, Asleep, SLEEPSET, Users
<1> HIDE DEF D
<1>5. Calls({q}, D)
  BY <1>2, <1>3, ContinuedCalls
<1> QED BY <1>2, <1>3, <1>4, <1>5 DEF D

-----------------------------------------------------------------------------
(* Semaphores.                                                             *)

CountsOK == /\ count \in [Semaphores -> 0..MaxCount]
            /\ \A s \in Binary : count[s] <= 1

\* Nobody has begun to wait in the queue of s.
NoNewWaiter(s) == \A t \in Users : k'.queue[t] = s => k.queue[t] = s

\* What a step on semaphore s may do: a unit is taken; nothing is, and the
\* thread that goes on has no claim to a unit; a thread finds no unit, and
\* perhaps waits; or one is posted, for the first waiter if there is one.
SemEffect(s) ==
    /\ Plain(k, k') /\ UNCHANGED <<program, flagVars, mailboxVars, mutexVars, requested>>
    /\ count' = [count EXCEPT ![s] = count'[s]]
    /\ \/ /\ Calls({s}, {}) /\ NoNewWaiter(s)
          /\ count[s] > 0 /\ count'[s] = count[s] - 1
       \/ /\ Calls({s}, {}) /\ NoNewWaiter(s)
          /\ count'[s] = count[s] /\ self \notin Claimants(s)
       \/ Calls({s}, {}) /\ count[s] = 0 /\ count'[s] = 0
       \/ LET w == k.wait_queue[s]
              D == IF w = <<>> THEN {} ELSE {Head(w)}
          IN  /\ Calls({s}, D) /\ UNCHANGED pc /\ Continued(k, k', D)
              /\ \A t \in D : Awake(k', t) /\ k'.wake_reason[t] = "DONE"
              /\ count'[s] = (IF s \in Binary THEN 1 ELSE count[s] + 1)
              /\ s \in Binary \/ count[s] < MaxCount

\* The current thread leaves or begins a wait on s, or stays in its own code.
LEMMA SemMoved ==
    ASSUME PlacesOK, Calling(k), NEW s \in Semaphores, Moved(k, k', {}),
           pc[self] = UserCode \/ pc[self].on = s, NEW p \in Spot,
           pc' = [pc EXCEPT ![self] = p]
    PROVE  /\ p \in {UserCode, Ended} /\ Awake(k', self) => Calls({s}, {}) /\ NoNewWaiter(s)
           /\ p.at \in SemPlaces /\ p.on = s /\ k'.queue[self] = s => Calls({s}, {})
<1>1. s \in WaitQueues /\ self \in Users /\ self \in Threads
  BY SemaphoresAssumption DEF Calling, Users, self
<1>2. IsFree(UserCode) /\ IsFree(Ended)
  BY DEF IsFree
<1>3. ASSUME p \in {UserCode, Ended}, Awake(k', self)
      PROVE  Calls({s}, {}) /\ NoNewWaiter(s)
  <2>1. Calls({s}, {})
    BY <1>2, <1>3, MovedCalls
  <2>2. ASSUME NEW t \in Users, k'.queue[t] = s PROVE k.queue[t] = s
    <3>1. t # self /\ t \in Threads \ {k.current_thread}
      BY <1>1, <1>3, <2>2, QueueAssumption DEF Awake, Users, self
    <3>2. GoesOn(k, k', t) \/ Ends(k, k', t, {})
      BY <3>1 DEF Moved
    <3> QED BY <1>1, <2>2, <3>2, QueueAssumption DEF GoesOn, Ends
  <2> QED BY <2>1, <2>2 DEF NoNewWaiter
<1>4. ASSUME p.at \in SemPlaces, p.on = s, k'.queue[self] = s
      PROVE  Calls({s}, {})
  <2>1. IsWait(p) /\ p.at \notin TimedPlaces
    BY <1>4 DEF IsWait, SemPlaces, TimedPlaces
  <2> QED BY <1>4, <2>1, MovedCalls
<1> QED BY <1>3, <1>4

\* A thread that claims a unit in state kk, after its timer was set or not.
LEMMA SemClaim ==
    ASSUME PlacesOK, CountsOK, Calling(k), NEW s \in Semaphores,
           NEW kk, Calling(kk), kk.current_thread = self, Moved(k, kk, {}), Plain(k, kk),
           Asleep(kk, self) => kk.sleep_reason[self] # "TIMEOUT",
           pc[self] = UserCode \/ pc[self].on = s,
           Claim(s, kk) \/ (GiveUp(kk) /\ self \notin Claimants(s)),
           UNCHANGED <<program, flagVars, mailboxVars, mutexVars, requested>>
    PROVE  SemEffect(s)
<1>1. k' = clear_timer(kk, self) /\ pc' = [pc EXCEPT ![self] = UserCode]
  BY DEF Claim, GiveUp, Return
<1>2. Good(kk) /\ Waits(kk) /\ self \in Threads
  BY GoodType DEF Calling, Users
<1>3. Continued(kk, k', {}) /\ Plain(kk, k')
  BY <1>1, <1>2, ClearTimerContinued
<1>4. Moved(kk, k', {}) /\ Calling(k')
  BY <1>3, ContinuedMoved
<1>5. Moved(k, k', {}) /\ Plain(k, k') /\ k'.current_thread = self
  BY <1>3, <1>4, MovedTransitive DEF Plain, SamePriorities, Moved, Step
<1>6. Awake(k', self)
  BY <1>4, <1>5 DEF Calling
<1>7. Calls({s}, {}) /\ NoNewWaiter(s)
  BY <1>1, <1>5, <1>6, SemMoved, SpotFacts
<1>8. count[s] \in Nat /\ DOMAIN count = Semaphores
  BY DEF CountsOK
<1>9. CASE Claim(s, kk)
  <2>1. count' = [count EXCEPT ![s] = count'[s]] /\ count'[s] = count[s] - 1 /\ count[s] > 0
    BY <1>8, <1>9 DEF Claim
  <2> QED BY <1>5, <1>7, <2>1 DEF SemEffect
<1>10. CASE GiveUp(kk) /\ self \notin Claimants(s)
  <2>1. count' = [count EXCEPT ![s] = count'[s]] /\ count'[s] = count[s]
    <3>1. count' = count /\ count = [x \in Semaphores |-> count[x]]
      BY <1>10 DEF GiveUp, CountsOK
    <3> QED BY <3>1
  <2> QED BY <1>5, <1>7, <1>10, <2>1 DEF SemEffect
<1> QED BY <1>9, <1>10

\* A thread that waits for a unit.
LEMMA SemAwait ==
    ASSUME PlacesOK, CountsOK, Calling(k), NEW s \in Semaphores, NEW place \in SemPlaces,
           NEW kk, Calling(kk), kk.current_thread = self, Moved(k, kk, {}), Plain(k, kk),
           pc[self] = UserCode \/ pc[self].on = s,
           Await(s, place, kk),
           UNCHANGED <<program, flagVars, mailboxVars, mutexVars, requested>>
    PROVE  SemEffect(s)
<1> DEFINE r == IF place = "sem_wait" THEN "WAIT" ELSE "TIMEOUT"
<1>1. /\ k' = block(kk, s, r) /\ pc' = [pc EXCEPT ![self] = At(place, s)]
      /\ count[s] = 0 /\ count' = count
  BY DEF Await, GoOn
<1>2. s \in WaitQueues /\ At(place, s) \in Spot
  <2>1. s \in WaitQueues /\ place \in Places
    BY SemaphoresAssumption DEF SemPlaces, Places
  <2> QED BY <2>1, SpotFacts
<1>3. r \in {"WAIT", "TIMEOUT"}
  OBVIOUS
<1> HIDE DEF r
<1>4. Blocked(kk, k', s, r, {})
  BY <1>1, <1>2, <1>3, BlockMoved
<1>5. Moved(k, k', {}) /\ Plain(k, k')
  BY <1>4, MovedTransitive DEF Blocked, Plain, SamePriorities
<1>6. k'.queue[self] = s
  BY <1>4 DEF Blocked
<1>7. Calls({s}, {})
  BY <1>1, <1>2, <1>5, <1>6, SemMoved DEF At
<1>8. count' = [count EXCEPT ![s] = count'[s]] /\ count'[s] = 0
  <2>1. count = [x \in Semaphores |-> count[x]]
    BY DEF CountsOK
  <2> QED BY <1>1, <2>1
<1> QED BY <1>1, <1>5, <1>7, <1>8 DEF SemEffect

\* Moving is doing nothing to begin with.
LEMMA MovedRefl ==
    ASSUME NEW kk, Calling(kk), NEW D
    PROVE  Moved(kk, kk, D) /\ Plain(kk, kk)
BY ContinuedRefl, ContinuedMoved DEF Calling, Plain, SamePriorities

\* The calls on semaphores do no more than that.
LEMMA SemaphoreEffects ==
    ASSUME PlacesOK, CountsOK, program \in Programs, SemaphoreCalls
    PROVE  \E s \in Semaphores : SemEffect(s)
<1>1. PICK s \in Semaphores : SemWait(s) \/ SemTimedWait(s) \/ SemWoken(s)
                              \/ SemTryWait(s) \/ SemPost(s)
  BY DEF SemaphoreCalls
<1>2. Good(k) /\ Waits(k) /\ s \in WaitQueues /\ DOMAIN count = Semaphores
  BY SemaphoresAssumption DEF PlacesOK, CountsOK
<1>3. ASSUME pc[self] = UserCode PROVE self \notin Claimants(s)
  BY <1>3 DEF Claimants, UserCode, At, SemPlaces
<1>4. CASE SemWait(s)
  <2>1. Calling(k) /\ pc[self] = UserCode
    BY <1>4, Caller DEF SemWait
  <2>2. Moved(k, k, {}) /\ Plain(k, k) /\ k.current_thread = self /\ ~Asleep(k, self)
    BY <2>1, MovedRefl DEF self, Calling, Awake
  <2>3. Claim(s, k) \/ Await(s, "sem_wait", k)
    BY <1>4 DEF SemWait
  <2>4. UNCHANGED <<program, flagVars, mailboxVars, mutexVars, requested>>
    BY <1>4 DEF SemWait
  <2>5. "sem_wait" \in SemPlaces
    BY DEF SemPlaces
  <2> QED BY <2>1, <2>2, <2>3, <2>4, <2>5, SemClaim, SemAwait
<1>5. CASE SemTimedWait(s)
  <2>1. Calling(k) /\ pc[self] = UserCode /\ self \notin Claimants(s)
    BY <1>3, <1>5, Caller DEF SemTimedWait
  <2>2. /\ Calling(armed(k)) /\ armed(k).current_thread = self
        /\ Moved(k, armed(k), {}) /\ Plain(k, armed(k))
    BY <2>1, ArmedMoved DEF self
  <2>3. /\ Calling(overdue(k)) /\ overdue(k).current_thread = self
        /\ Moved(k, overdue(k), {}) /\ Plain(k, overdue(k))
    BY <2>1, OverdueMoved DEF self
  <2>4. ~Asleep(armed(k), self) /\ ~Asleep(overdue(k), self)
    BY <2>2, <2>3 DEF Calling, Awake
  <2>5. \/ Claim(s, armed(k)) \/ Await(s, "sem_timed_wait", armed(k))
        \/ Claim(s, overdue(k)) \/ GiveUp(overdue(k))
    BY <1>5 DEF SemTimedWait
  <2>6. UNCHANGED <<program, flagVars, mailboxVars, mutexVars, requested>>
    BY <1>5 DEF SemTimedWait
  <2>7. "sem_timed_wait" \in SemPlaces
    BY DEF SemPlaces
  <2> QED BY <2>1, <2>2, <2>3, <2>4, <2>5, <2>6, <2>7, SemClaim, SemAwait
<1>6. CASE SemWoken(s)
  <2>1. PICK place \in SemPlaces :
          /\ Continues(place) /\ pc[self].on = s
          /\ \/ Killed /\ UNCHANGED count
             \/ wake_reason \in {"BREAK", "TIMEOUT"} /\ GiveUp(k)
             \/ /\ wake_reason \notin {"EXIT", "BREAK", "TIMEOUT"}
                /\ Claim(s, k) \/ Await(s, place, k)
    BY <1>6 DEF SemWoken
  <2>2. Calling(k) /\ pc[self].at = place
    <3>1. place # "user"
      BY DEF SemPlaces
    <3> QED BY <2>1, <3>1, Caller
  <2>3. Moved(k, k, {}) /\ Plain(k, k) /\ k.current_thread = self /\ ~Asleep(k, self)
    BY <2>2, MovedRefl DEF self, Calling, Awake
  <2>4. UNCHANGED <<program, flagVars, mailboxVars, mutexVars, requested>>
    BY <1>6 DEF SemWoken
  <2>5. ASSUME Killed, UNCHANGED count PROVE SemEffect(s)
    <3>1. k' = exit(k) /\ pc' = [pc EXCEPT ![self] = Ended] /\ wake_reason = "EXIT"
      BY <2>5 DEF Killed, GoOn, Ended
    <3>2. Moved(k, k', {}) /\ Plain(k, k') /\ Awake(k', self)
      BY <2>2, <3>1, ExitMoved DEF self
    <3>3. Calls({s}, {}) /\ NoNewWaiter(s)
      BY <2>1, <2>2, <3>1, <3>2, SemMoved, SpotFacts
    <3>4. self \notin Claimants(s)
      BY <3>1 DEF Claimants, wake_reason
    <3>5. count' = [count EXCEPT ![s] = count'[s]] /\ count'[s] = count[s]
      <4>1. count = [x \in Semaphores |-> count[x]]
        BY DEF CountsOK
      <4> QED BY <2>5, <4>1
    <3> QED BY <2>4, <3>2, <3>3, <3>4, <3>5 DEF SemEffect
  <2>6. ASSUME wake_reason \in {"BREAK", "TIMEOUT"} PROVE self \notin Claimants(s)
    BY <2>6 DEF Claimants, wake_reason
  <2> QED BY <2>1, <2>2, <2>3, <2>4, <2>5, <2>6, SemClaim, SemAwait
<1>7. CASE SemTryWait(s)
  <2>1. /\ k' = k /\ pc' = pc /\ count' = [count EXCEPT ![s] = @ - 1] /\ count[s] > 0
        /\ UNCHANGED <<program, flagVars, mailboxVars, mutexVars, requested>>
    BY <1>7 DEF SemTryWait
  <2>2. Continued(k, k', {}) /\ Plain(k, k')
    BY <1>2, <2>1, ContinuedRefl DEF Plain, SamePriorities
  <2>3. Calls({s}, {}) /\ NoNewWaiter(s)
    BY <2>1, <2>2, ContinuedCalls DEF NoNewWaiter
  <2>4. count' = [count EXCEPT ![s] = count'[s]] /\ count'[s] = count[s] - 1
    BY <1>2, <2>1
  <2> QED BY <2>1, <2>2, <2>3, <2>4 DEF SemEffect
<1>8. CASE SemPost(s)
  <2>1. /\ k' = wake_first(k, s) /\ pc' = pc
        /\ s \in Binary \/ count[s] < MaxCount
        /\ count' = [count EXCEPT ![s] = IF s \in Binary THEN 1 ELSE @ + 1]
        /\ UNCHANGED <<program, flagVars, mailboxVars, mutexVars, requested>>
    BY <1>8 DEF SemPost
  <2>2. count' = [count EXCEPT ![s] = count'[s]]
        /\ count'[s] = (IF s \in Binary THEN 1 ELSE count[s] + 1)
    BY <1>2, <2>1
  <2> DEFINE w == k.wait_queue[s]
             D == IF w = <<>> THEN {} ELSE {Head(w)}
  <2>3. /\ Calls({s}, D) /\ Plain(k, k') /\ Continued(k, k', D)
        /\ \A t \in D : Awake(k', t) /\ k'.wake_reason[t] = "DONE"
    BY <1>2, <2>1, WakeFirstCalls
  <2>4. UNCHANGED pc
    BY <2>1
  <2> QED BY <2>1, <2>2, <2>3, <2>4 DEF SemEffect
<1> QED BY <1>1, <1>4, <1>5, <1>6, <1>7, <1>8

-----------------------------------------------------------------------------
(* The event flag.                                                         *)

FlagWaitInfos == [pattern : Masks, any : BOOLEAN, do_clear : BOOLEAN, value_out : SUBSET Bits]

FlagThread(kk, p, info, v, t) ==
    p.at \in FlagPlaces =>
      /\ info \in FlagWaitInfos
      /\ kk.queue[t] = flag => ~matches(info, v) /\ info.value_out = {}
      /\ kk.queue[t] = NoQueue =>
           IF kk.wake_reason[t] = "DONE"
           THEN info.value_out # {} /\ matches(info, info.value_out)
           ELSE info.value_out = {}

FlagOK ==
    /\ value \subseteq Bits
    /\ want \in [Threads -> FlagWaitInfos \cup {NoWish}]
    /\ \A t \in Users : FlagThread(k, pc[t], want[t], value, t)

\* Nothing matches no bits, and what matches some bits matches more.
LEMMA MatchFacts ==
    /\ \A info \in FlagWaitInfos \cup Wishes : ~matches(info, {})
    /\ \A info, v, w : v \subseteq w /\ matches(info, v) => matches(info, w)
<1>1. ASSUME NEW info \in FlagWaitInfos \cup Wishes PROVE ~matches(info, {})
  <2>1. info.pattern \in (SUBSET Bits) \ {{}}
    BY DEF FlagWaitInfos, Wishes, Masks
  <2>2. ~(info.pattern \subseteq {}) /\ ~(info.pattern \cap {} # {})
    BY <2>1
  <2> QED BY <2>2 DEF matches
<1>2. ASSUME NEW info, NEW v, NEW w, v \subseteq w, matches(info, v) PROVE matches(info, w)
  BY <1>2 DEF matches
<1> QED BY <1>1, <1>2

\* A thread that waits for the flag while others act, and is not told DONE.
LEMMA FlagBystands ==
    ASSUME PlacesOK, NEW t \in Users, NEW D, Bystands(t, D), t \notin D, NEW v,
           FlagThread(k, pc[t], want[t], value, t), matches(want[t], v) => matches(want[t], value)
    PROVE  FlagThread(k', pc'[t], want[t], v, t)
<1> SUFFICES ASSUME pc[t].at \in FlagPlaces PROVE FlagThread(k', pc'[t], want[t], v, t)
  BY DEF FlagThread, Bystands
<1>1. /\ ThreadOK(k, pc[t], t) /\ t \in Threads /\ pc[t] \in Spot /\ Good(k) /\ Waits(k)
      /\ k.queue \in [Threads -> WaitQueues \cup {NoQueue}]
  BY FieldTypes DEF PlacesOK, Users
<1>2. IsWait(pc[t]) /\ pc[t].on = flag
  BY <1>1 DEF ThreadOK, IsWait, IsFree, FlagPlaces, SemPlaces, MboxPlaces, LockPlaces,
              CondPlaces, UserCode, Ended, At
<1>3. k.queue[t] \in {flag, NoQueue}
  BY <1>1, <1>2 DEF ThreadOK
<1>4. CASE GoesOn(k, k', t)
  BY <1>4 DEF GoesOn, FlagThread, Bystands
<1>5. CASE Ends(k, k', t, D)
  <2>1. k.queue[t] = flag /\ k.sleep_reason[t] # "DELAY"
    BY <1>1, <1>2, <1>3, <1>5, FlagAssumption, QueueAssumption DEF Ends, ThreadOK, Waits
  <2>2. k'.wake_reason[t] # "DONE" /\ k'.queue[t] = NoQueue
    BY <1>5, <2>1 DEF Ends
  <2> QED BY <2>1, <2>2, FlagAssumption, QueueAssumption DEF FlagThread
<1> QED BY <1>4, <1>5 DEF Bystands

\* The calls on other objects do not concern the flag.
LEMMA FlagOthers ==
    ASSUME PlacesOK, FlagOK, NEW S, NEW D, Calls(S, D), flag \notin S, UNCHANGED flagVars
    PROVE  FlagOK'
<1>1. UNCHANGED <<value, want>>
  BY DEF flagVars
<1>2. ASSUME NEW t \in Users PROVE FlagThread(k', pc'[t], want[t], value, t)
  <2>1. CASE Bystands(t, D)
    <3>1. CASE t \notin D
      BY <2>1, <3>1, FlagBystands DEF FlagOK
    <3>2. CASE t \in D
      <4>1. k.queue[t] # flag /\ k.queue[t] \in S
        BY <3>2 DEF Calls
      <4>2. ThreadOK(k, pc[t], t) /\ Waits(k) /\ pc'[t] = pc[t]
        BY <2>1 DEF PlacesOK, Bystands
      <4>3. CASE k.queue[t] # NoQueue
        <5>1. IsWait(pc[t]) /\ pc[t].on # flag
          BY <4>1, <4>2, <4>3 DEF ThreadOK
        <5>2. pc[t].at \notin FlagPlaces
          BY <5>1 DEF IsWait, FlagPlaces, SemPlaces, MboxPlaces, LockPlaces, CondPlaces
        <5> QED BY <4>2, <5>2 DEF FlagThread
      <4>4. CASE k.queue[t] = NoQueue
        <5>1. pc[t].at \in FlagPlaces => IsWait(pc[t])
          BY <4>2 DEF ThreadOK, IsFree, FlagPlaces, UserCode, Ended, At
        <5>2. pc[t].at \in FlagPlaces => GoesOn(k, k', t)
          BY <2>1, <4>2, <4>4, <5>1 DEF ThreadOK, Bystands, Ends
        <5> QED BY <4>2, <4>4, <5>2, FlagAssumption, QueueAssumption
                DEF FlagThread, GoesOn, FlagOK
      <4> QED BY <4>3, <4>4
    <3> QED BY <3>1, <3>2
  <2>2. CASE t = self /\ Acts(S)
    <3>1. pc'[t] \in {UserCode, Ended} \/ pc'[t].on # flag
      BY <2>2 DEF Acts
    <3>2. pc'[t].at \notin FlagPlaces
      BY <2>2, <3>1 DEF Acts, IsWait, IsFree, FlagPlaces, SemPlaces, MboxPlaces, LockPlaces,
              CondPlaces, UserCode, Ended, At
    <3> QED BY <3>2 DEF FlagThread
  <2> QED BY <2>1, <2>2 DEF Calls
<1> QED BY <1>1, <1>2 DEF FlagOK

\* The flag keeps no bit that would satisfy a thread that goes on waiting.
LEMMA FlagQuiet ==
    ASSUME PlacesOK, FlagOK, value' \subseteq value,
           want' \in [Threads -> FlagWaitInfos \cup {NoWish}],
           \A t \in Users : \/ want'[t] = want[t] /\ Bystands(t, {})
                            \/ FlagThread(k', pc'[t], want'[t], value', t)
    PROVE  FlagOK'
<1>1. ASSUME NEW t \in Users PROVE FlagThread(k', pc'[t], want'[t], value', t)
  <2>1. CASE want'[t] = want[t] /\ Bystands(t, {})
    <3>1. matches(want[t], value') => matches(want[t], value)
      BY MatchFacts
    <3>2. FlagThread(k, pc[t], want[t], value, t)
      BY DEF FlagOK
    <3> QED BY <2>1, <3>1, <3>2, FlagBystands
  <2> QED BY <2>1
<1>2. value' \subseteq Bits
  BY DEF FlagOK
<1> QED BY <1>1, <1>2 DEF FlagOK

\* The effect of a call on the flag.
FlagEffect ==
    /\ \E D : Calls({flag}, D)
    /\ Plain(k, k') /\ UNCHANGED <<program, semaphoreVars, mailboxVars, mutexVars, requested>>
    /\ FlagOK'

\* poll() and maskbits() leave the threads alone and set no bits.
LEMMA FlagShrinks ==
    ASSUME PlacesOK, FlagOK, value' \subseteq value,
           UNCHANGED <<k, pc, program, semaphoreVars, want, mailboxVars, mutexVars, requested>>
    PROVE  FlagEffect
<1>1. Good(k) /\ Waits(k)
  BY DEF PlacesOK
<1>2. Continued(k, k', {}) /\ Plain(k, k')
  BY <1>1, ContinuedRefl DEF Plain, SamePriorities
<1>3. Calls({flag}, {})
  BY <1>2, ContinuedCalls
<1>4. \A t \in Users : Bystands(t, {})
  BY <1>2 DEF Continued, Bystands, Users
<1>5. FlagOK'
  BY <1>4, FlagQuiet DEF FlagOK
<1> QED BY <1>2, <1>3, <1>5 DEF FlagEffect

\* The current thread goes on to p, with w as what it waits for.
LEMMA FlagMoved ==
    ASSUME PlacesOK, FlagOK, Calling(k), Moved(k, k', {}), Plain(k, k'),
           UNCHANGED <<program, semaphoreVars, value, mailboxVars, mutexVars, requested>>,
           pc[self] = UserCode \/ pc[self].on = flag, NEW p \in Spot,
           pc' = [pc EXCEPT ![self] = p],
           NEW w \in FlagWaitInfos \cup {NoWish}, want' = [want EXCEPT ![self] = w],
           \/ p \in {UserCode, Ended} /\ Awake(k', self)
           \/ /\ p.at \in FlagPlaces /\ p.on = flag /\ k'.queue[self] = flag
              /\ p.at = "flag_timed_wait" => HasAlarm(k', self)
              /\ w \in FlagWaitInfos /\ w.value_out = {} /\ ~matches(w, value)
    PROVE  FlagEffect
<1>1. self \in Users /\ self \in Threads
  BY DEF Calling, Users, self
<1>2. /\ pc'[self] = p /\ want'[self] = w /\ \A t \in Users \ {self} : want'[t] = want[t]
      /\ want' \in [Threads -> FlagWaitInfos \cup {NoWish}]
  BY <1>1 DEF PlacesOK, FlagOK, Users
<1>3. Calls({flag}, {})
  <2>1. CASE p \in {UserCode, Ended} /\ Awake(k', self)
    <3>1. IsFree(p)
      BY <2>1 DEF IsFree
    <3> QED BY <2>1, <3>1, MovedCalls
  <2>2. CASE /\ p.at \in FlagPlaces /\ p.on = flag /\ k'.queue[self] = flag
             /\ p.at = "flag_timed_wait" => HasAlarm(k', self)
    <3>1. IsWait(p) /\ (p.at \in TimedPlaces => p.at = "flag_timed_wait")
      BY <2>2 DEF IsWait, FlagPlaces, TimedPlaces
    <3> QED BY <2>2, <3>1, MovedCalls
  <2> QED BY <2>1, <2>2
<1>4. FlagThread(k', p, w, value, self)
  <2>1. ASSUME p \in {UserCode, Ended} PROVE p.at \notin FlagPlaces
    BY <2>1 DEF UserCode, Ended, At, FlagPlaces
  <2> QED BY <2>1, FlagAssumption, QueueAssumption DEF FlagThread
<1>5. ASSUME NEW t \in Users
      PROVE  \/ want'[t] = want[t] /\ Bystands(t, {})
             \/ FlagThread(k', pc'[t], want'[t], value', t)
  <2>1. CASE t = self
    BY <1>2, <1>4, <2>1
  <2>2. CASE t # self
    BY <1>2, <1>3, <2>2 DEF Calls
  <2> QED BY <2>1, <2>2
<1>6. FlagOK'
  BY <1>2, <1>5, FlagQuiet
<1> QED BY <1>3, <1>6 DEF FlagEffect

\* What a call waits for, with room for the value it will be given.
LEMMA WithOutputFacts ==
    ASSUME NEW wish \in Wishes
    PROVE  /\ WithOutput(wish) \in FlagWaitInfos /\ WithOutput(wish).value_out = {}
           /\ \A v : matches(WithOutput(wish), v) <=> matches(wish, v)
<1>1. WithOutput(wish) \in FlagWaitInfos /\ WithOutput(wish).value_out = {}
  BY DEF WithOutput, FlagWaitInfos, Wishes
<1>2. WithOutput(wish).any = wish.any /\ WithOutput(wish).pattern = wish.pattern
  BY DEF WithOutput
<1> QED BY <1>1, <1>2 DEF matches

\* wait() with and without a time limit, from the caller's own code.
LEMMA FlagBegins ==
    ASSUME PlacesOK, FlagOK, NEW wish \in Wishes, FlagWait(wish) \/ FlagTimedWait(wish)
    PROVE  FlagEffect
<1> DEFINE w == WithOutput(wish)
<1>1. /\ Calling(k) /\ pc[self] = UserCode /\ ~matches(wish, value)
      /\ UNCHANGED <<program, semaphoreVars, value, mailboxVars, mutexVars, requested>>
  BY Caller DEF FlagWait, FlagTimedWait
<1>2. w \in FlagWaitInfos /\ w.value_out = {} /\ ~matches(w, value)
  BY <1>1, WithOutputFacts
<1>3. flag \in WaitQueues /\ self \in Threads /\ {"flag_wait", "flag_timed_wait"} \subseteq FlagPlaces
  BY <1>1, FlagAssumption DEF FlagPlaces, Calling, Users, self
<1> HIDE DEF w
<1>4. ASSUME want' = [want EXCEPT ![self] = w], k' = block(k, flag, "WAIT"),
             GoOn("flag_wait", flag)
      PROVE  FlagEffect
  <2>1. Blocked(k, k', flag, "WAIT", {})
    BY <1>1, <1>3, <1>4, BlockMoved
  <2>2. Moved(k, k', {}) /\ Plain(k, k') /\ k'.queue[self] = flag
    BY <2>1 DEF Blocked, self
  <2>3. At("flag_wait", flag) \in Spot
    BY <1>3, SpotFacts DEF Places
  <2> QED BY <1>1, <1>2, <1>3, <1>4, <2>2, <2>3, FlagMoved DEF GoOn, At
<1>5. ASSUME want' = [want EXCEPT ![self] = w], k' = block(armed(k), flag, "TIMEOUT"),
             GoOn("flag_timed_wait", flag)
      PROVE  FlagEffect
  <2> DEFINE a == armed(k)
  <2>1. /\ Calling(a) /\ a.current_thread = self /\ a.timer[self]
        /\ Moved(k, a, {}) /\ Plain(k, a)
    BY <1>1, ArmedMoved DEF self
  <2> HIDE DEF a
  <2>2. Blocked(a, k', flag, "TIMEOUT", {})
    BY <1>3, <1>5, <2>1, BlockMoved DEF a
  <2>3. Moved(a, k', {}) /\ Plain(a, k') /\ k'.queue[self] = flag /\ HasAlarm(k', self)
    BY <2>1, <2>2 DEF Blocked, HasAlarm
  <2>4. Moved(k, k', {}) /\ Plain(k, k')
    BY <2>1, <2>3, MovedTransitive DEF Plain, SamePriorities
  <2>5. At("flag_timed_wait", flag) \in Spot
    BY <1>3, SpotFacts DEF Places
  <2> QED BY <1>1, <1>2, <1>3, <1>5, <2>3, <2>4, <2>5, FlagMoved DEF GoOn, At
<1>6. ASSUME k' = clear_timer(overdue(k), self), UNCHANGED <<want, pc>>
      PROVE  FlagEffect
  <2> DEFINE o == overdue(k)
  <2>1. Calling(o) /\ o.current_thread = self /\ Moved(k, o, {}) /\ Plain(k, o)
    BY <1>1, OverdueMoved DEF self
  <2> HIDE DEF o
  <2>2. Good(o) /\ Waits(o) /\ ~Asleep(o, self)
    BY <2>1 DEF Calling, Awake
  <2>3. Continued(o, k', {}) /\ Plain(o, k')
    BY <1>3, <1>6, <2>2, ClearTimerContinued DEF o
  <2>4. Moved(o, k', {}) /\ Calling(k')
    BY <2>1, <2>3, ContinuedMoved
  <2>5. Moved(k, k', {}) /\ Plain(k, k') /\ k'.current_thread = self
    BY <2>1, <2>3, <2>4, MovedTransitive DEF Plain, SamePriorities, Moved, Step
  <2>6. Awake(k', self)
    BY <2>4, <2>5 DEF Calling
  <2>7. pc' = [pc EXCEPT ![self] = UserCode] /\ want' = [want EXCEPT ![self] = want[self]]
        /\ want[self] \in FlagWaitInfos \cup {NoWish} /\ UserCode \in Spot
    <3>1. pc = [t \in Threads |-> pc[t]] /\ want = [t \in Threads |-> want[t]]
      BY DEF PlacesOK, FlagOK
    <3> QED BY <1>1, <1>3, <1>6, <3>1, SpotFacts DEF FlagOK
  <2> QED BY <1>1, <2>5, <2>6, <2>7, FlagMoved
<1> QED BY <1>4, <1>5, <1>6 DEF FlagWait, FlagTimedWait, w

\* A wait that runs again is over: nobody wakes a waiter but with a value.
LEMMA FlagEnds ==
    ASSUME PlacesOK, FlagOK, FlagWoken
    PROVE  FlagEffect
<1>1. /\ Calling(k) /\ pc[self].at \in FlagPlaces /\ ThreadOK(k, pc[self], self)
      /\ FlagThread(k, pc[self], want[self], value, self)
      /\ UNCHANGED <<program, semaphoreVars, value, mailboxVars, mutexVars, requested>>
  <2>1. Continues("flag_wait") \/ Continues("flag_timed_wait")
    BY DEF FlagWoken
  <2>2. /\ Calling(k) /\ pc[self].at \in FlagPlaces /\ ThreadOK(k, pc[self], self)
    BY <2>1, Caller DEF FlagPlaces
  <2> QED BY <2>2 DEF FlagWoken, FlagOK, Calling, self
<1>2. /\ self \in Threads /\ k.queue[self] = NoQueue /\ ~Asleep(k, self)
      /\ Good(k) /\ Waits(k)
  BY <1>1 DEF Calling, Awake, Users, self
<1>3. IsWait(pc[self]) /\ pc[self].on = flag
  BY <1>1 DEF ThreadOK, IsWait, IsFree, FlagPlaces, SemPlaces, MboxPlaces, LockPlaces,
              CondPlaces, UserCode, Ended, At
<1>4. k.wake_reason[self] \in Outcomes
  BY <1>1, <1>2, <1>3 DEF ThreadOK
<1>5. ASSUME NEW p \in {UserCode, Ended}, pc' = [pc EXCEPT ![self] = p],
             Moved(k, k', {}), Plain(k, k'), Awake(k', self)
      PROVE  FlagEffect
  <2>1. pc'[self] # pc[self]
    <3>1. pc'[self] = p
      BY <1>2, <1>5 DEF PlacesOK
    <3>2. p.at \notin FlagPlaces
      BY DEF UserCode, Ended, At, FlagPlaces
    <3> QED BY <1>1, <3>1, <3>2
  <2>2. want' = [want EXCEPT ![self] = NoWish]
    BY <2>1 DEF FlagWoken
  <2> QED BY <1>1, <1>3, <1>5, <2>2, FlagMoved, SpotFacts
<1>6. CASE Killed
  <2>1. k' = exit(k) /\ pc' = [pc EXCEPT ![self] = Ended]
    BY <1>6 DEF Killed, GoOn, Ended
  <2>2. Moved(k, k', {}) /\ Plain(k, k') /\ Awake(k', self)
    BY <1>1, <2>1, ExitMoved DEF self
  <2> QED BY <1>5, <2>1, <2>2
<1>7. CASE k' = clear_timer(k, self) /\ Return
  <2>1. Continued(k, k', {}) /\ Plain(k, k')
    BY <1>2, <1>7, ClearTimerContinued
  <2>2. Moved(k, k', {}) /\ Calling(k') /\ k'.current_thread = self
    BY <1>1, <2>1, ContinuedMoved DEF Continued, Step, self
  <2> QED BY <1>5, <1>7, <2>1, <2>2 DEF Return, Calling
<1>8. ~(wake_reason \notin {"EXIT", "BREAK", "TIMEOUT"} /\ want[self].value_out = {})
  BY <1>1, <1>2, <1>4 DEF FlagThread, Outcomes, wake_reason
<1> QED BY <1>6, <1>7, <1>8 DEF FlagWoken

\* A thread that waits for the flag is in a call on the flag.
LEMMA FlagWaiters ==
    ASSUME PlacesOK, FlagOK, NEW t \in Users, k.queue[t] = flag
    PROVE  /\ pc[t].at \in FlagPlaces /\ want[t] \in FlagWaitInfos
           /\ ~matches(want[t], value) /\ want[t].value_out = {}
<1>1. IsWait(pc[t]) /\ pc[t].on = flag
  BY FlagAssumption, QueueAssumption DEF PlacesOK, ThreadOK
<1>2. pc[t].at \in FlagPlaces
  BY <1>1, ObjectsAssumption DEF IsWait
<1> QED BY <1>2 DEF FlagOK, FlagThread

\* The places of setbits() that are not satisfied do not match, unless one in
\* front of them has cleared the flag.
LEMMA SatisfiedFacts ==
    ASSUME NEW v, Len(waiting) \in Nat, NEW n \in 1..Len(waiting),
           DOMAIN waiting = 1..Len(waiting),
           n \notin Satisfied(v), matches(want[waiting[n]], v)
    PROVE  \E i \in Satisfied(v) : want[waiting[i]].do_clear
<1> DEFINE T == {j \in 1..n-1 : matches(want[waiting[j]], v) /\ want[waiting[j]].do_clear}
<1>1. T # {} /\ T \in SUBSET Nat
  BY DEF Satisfied
<1>2. PICK j \in T : \A i \in T : j <= i
  BY <1>1, NatMin
<1>3. j \in 1..Len(waiting) /\ j <= n-1 /\ j \in Nat
  BY <1>2
<1>4. ASSUME NEW i \in 1..j-1, matches(want[waiting[i]], v)
      PROVE  ~want[waiting[i]].do_clear
  <2>1. i \in 1..n-1 /\ ~(j <= i)
    BY <1>3
  <2> QED BY <1>2, <1>4, <2>1
<1>5. j \in Satisfied(v)
  BY <1>2, <1>3, <1>4 DEF Satisfied
<1> QED BY <1>2, <1>5

\* setbits() tells just the threads that its value satisfies.
LEMMA FlagSets ==
    ASSUME PlacesOK, FlagOK, NEW mask \in SUBSET Bits, FlagSetBits(mask)
    PROVE  FlagEffect
<1> DEFINE v     == value \cup mask
           woken == Satisfied(v)
           D     == Dismissed(waiting, woken, Len(waiting))
<1>1. /\ k' = dismiss_all(k, waiting, woken, "DONE")
      /\ want' = [t \in DOMAIN want |->
                    IF \E i \in woken : waiting[i] = t
                    THEN [want[t] EXCEPT !.value_out = v] ELSE want[t]]
      /\ value' = (IF \E i \in woken : want[waiting[i]].do_clear THEN {} ELSE v)
      /\ UNCHANGED <<pc, program, semaphoreVars, mailboxVars, mutexVars, requested>>
  BY DEF FlagSetBits
<1>2. /\ Good(k) /\ Waits(k) /\ flag \in WaitQueues /\ flag # NoQueue
      /\ waiting \in Seq(Threads) /\ Len(waiting) \in Nat
      /\ DOMAIN waiting = 1..Len(waiting)
      /\ k.queue \in [Threads -> WaitQueues \cup {NoQueue}]
      /\ DOMAIN want = Threads /\ v \subseteq Bits
  <2>1. Good(k) /\ Waits(k) /\ flag \in WaitQueues /\ flag # NoQueue
    BY FlagAssumption, QueueAssumption DEF PlacesOK
  <2>2. k.wait_queue \in [WaitQueues -> Seq(Threads)]
        /\ k.queue \in [Threads -> WaitQueues \cup {NoQueue}]
    BY <2>1, FieldTypes
  <2>3. waiting \in Seq(Threads)
    BY <2>1, <2>2 DEF waiting
  <2> QED BY <2>1, <2>2, <2>3 DEF FlagOK
<1>3. Continued(k, k', D) /\ Plain(k, k') /\ AllDismissed(k, k', D, "DONE")
  <2>1. "DONE" \in {"DONE", "BREAK"}
    OBVIOUS
  <2> HIDE DEF woken
  <2> QED BY <1>1, <1>2, <2>1, DismissAll DEF waiting
<1>4. \A t \in Users : k.queue[t] = flag <=> \E n \in 1..Len(waiting) : waiting[n] = t
  <2>1. \A t \in Threads : holds(waiting, t) <=> k.queue[t] = flag
    BY <1>2 DEF Waits, Lists, waiting
  <2>2. \A t : holds(waiting, t) <=> \E n \in 1..Len(waiting) : waiting[n] = t
    BY <1>2 DEF holds
  <2> QED BY <2>1, <2>2 DEF Users
<1>5. woken \subseteq 1..Len(waiting) /\ \A i \in woken : matches(want[waiting[i]], v)
  BY <1>2 DEF Satisfied
<1>6. \A t : t \in D <=> \E i \in woken : waiting[i] = t
  BY <1>5 DEF Dismissed
<1>7. ASSUME NEW t \in D PROVE t \in Users /\ k.queue[t] = flag /\ matches(want[t], v)
  <2>1. PICK i \in woken : waiting[i] = t
    BY <1>6, <1>7
  <2>2. i \in 1..Len(waiting) /\ t \in Threads
    <3>1. i \in 1..Len(waiting)
      BY <1>5
    <3>2. waiting[i] \in Threads
      BY <1>2, <3>1
    <3> QED BY <2>1, <3>1, <3>2
  <2>3. k.queue[t] = flag
    <3>1. holds(waiting, t)
      BY <2>1, <2>2, <1>2 DEF holds
    <3> QED BY <1>2, <2>2, <3>1 DEF Waits, Lists, waiting
  <2>4. t # Idle
    <3>1. Asleep(k, t)
      BY <1>2, <2>2, <2>3 DEF Waits
    <3> QED BY <1>2, <3>1 DEF Good, Agree, Sound, Runs, RUNNING, Asleep
  <2> QED BY <1>5, <2>1, <2>2, <2>3, <2>4 DEF Users
<1>8. Calls({flag}, D)
  BY <1>1, <1>3, <1>7, ContinuedCalls
<1>9. \A t \in Threads : want'[t] = IF t \in D THEN [want[t] EXCEPT !.value_out = v] ELSE want[t]
  BY <1>1, <1>2, <1>6
<1>10. ASSUME NEW t \in D
       PROVE  /\ want'[t] \in FlagWaitInfos
              /\ FlagThread(k', pc'[t], want'[t], value', t)
  <2>1. /\ t \in Users /\ t \in Threads /\ k.queue[t] = flag /\ matches(want[t], v)
        /\ want[t] \in FlagWaitInfos
    BY <1>7, FlagWaiters DEF Users
  <2>2. want'[t] = [want[t] EXCEPT !.value_out = v]
    BY <1>9, <2>1
  <2>3. want'[t] \in FlagWaitInfos /\ want'[t].value_out = v
        /\ want'[t].any = want[t].any /\ want'[t].pattern = want[t].pattern
    BY <1>2, <2>1, <2>2 DEF FlagWaitInfos
  <2>4. matches(want'[t], v) /\ v # {}
    BY <2>1, <2>3, MatchFacts DEF matches
  <2>5. k'.queue[t] = NoQueue /\ k'.wake_reason[t] = "DONE"
    BY <1>3, <2>1 DEF AllDismissed
  <2> QED BY <1>2, <2>3, <2>4, <2>5 DEF FlagThread
<1>11. ASSUME NEW t \in Users, t \notin D
       PROVE  FlagThread(k', pc'[t], want'[t], value', t)
  <2>1. /\ k'.queue[t] = k.queue[t] /\ k'.wake_reason[t] = k.wake_reason[t]
        /\ want'[t] = want[t] /\ pc'[t] = pc[t] /\ FlagThread(k, pc[t], want[t], value, t)
    BY <1>1, <1>3, <1>9, <1>11 DEF AllDismissed, Users, FlagOK
  <2>2. ASSUME k.queue[t] = flag PROVE ~matches(want[t], value')
    <3>1. want[t] \in FlagWaitInfos
      BY <2>2, FlagWaiters
    <3>2. CASE \E i \in woken : want[waiting[i]].do_clear
      BY <1>1, <3>1, <3>2, MatchFacts
    <3>3. CASE ~\E i \in woken : want[waiting[i]].do_clear
      <4>1. PICK n \in 1..Len(waiting) : waiting[n] = t
        BY <1>4, <2>2
      <4>2. n \notin woken
        BY <1>6, <1>11, <4>1
      <4>3. ~matches(want[t], v)
        BY <1>2, <3>3, <4>1, <4>2, SatisfiedFacts
      <4> QED BY <1>1, <3>3, <4>3
    <3> QED BY <3>2, <3>3
  <2> QED BY <2>1, <2>2 DEF FlagThread
<1>12. want' \in [Threads -> FlagWaitInfos \cup {NoWish}]
  BY <1>1, <1>2, <1>9, <1>10 DEF FlagOK
<1>13. value' \subseteq Bits
  BY <1>1, <1>2
<1> HIDE DEF v, woken, D
<1>14. FlagOK'
  BY <1>10, <1>11, <1>12, <1>13 DEF FlagOK
<1> QED BY <1>1, <1>3, <1>8, <1>14 DEF FlagEffect

\* The calls on the flag.
LEMMA FlagEffects ==
    ASSUME PlacesOK, FlagOK, program \in Programs, FlagCalls
    PROVE  FlagEffect
<1>1. \A wish \in program.wishes : wish \in Wishes
  BY ProgramsAssumption
<1>2. ASSUME NEW wish \in program.wishes, FlagPoll(wish) \/ FlagFound(wish)
      PROVE  FlagEffect
  <2>1. value' \subseteq value
    BY <1>2 DEF FlagPoll, FlagFound, remaining
  <2> QED BY <1>2, <2>1, FlagShrinks DEF FlagPoll, FlagFound
<1>3. ASSUME NEW mask \in SUBSET Bits, FlagMaskBits(mask) PROVE FlagEffect
  <2>1. value' \subseteq value
    BY <1>3 DEF FlagMaskBits
  <2> QED BY <1>3, <2>1, FlagShrinks DEF FlagMaskBits
<1> QED BY <1>1, <1>2, <1>3, FlagBegins, FlagEnds, FlagSets DEF FlagCalls

-----------------------------------------------------------------------------
(* The mailbox.                                                            *)

MboxThread(kk, p, info, t) ==
    /\ p.at \notin MboxPlaces \cup {"mbox_got"} => info = NoMessage
    /\ p.at \in MboxPlaces /\ p.on = get_threadq =>
         (info # NoMessage <=> kk.wake_reason[t] = "DONE")
    /\ p.at \in MboxPlaces /\ p.on = put_threadq => info \in Messages

InVain(kk, t, n) == /\ kk.queue[t] = get_threadq => n = 0
                    /\ kk.queue[t] = put_threadq => n = Size

MailOK ==
    /\ mbox \in Mboxes /\ wait_info \in [Threads -> Contents]
    /\ \A t \in Users : MboxThread(k, pc[t], wait_info[t], t) /\ InVain(k, t, mbox.count)

\* The step that ends the wait of a put stores its message, or it fails.
PutsTold ==
    \A t \in Users :
       InPut(t) /\ k.queue[t] = put_threadq /\ k'.queue[t] # put_threadq =>
         IF k'.wake_reason[t] = "DONE"
         THEN newest(mbox') = wait_info[t] ELSE mbox' = mbox

MailStep == [Abstract!Next]_<<stored, received>>

MailQueues == {get_threadq, put_threadq}

\* The effect of a call on the mailbox.
MailEffect ==
    /\ \E D : Calls(MailQueues, D)
    /\ Plain(k, k') /\ UNCHANGED <<program, semaphoreVars, flagVars, mutexVars, requested>>
    /\ MailOK' /\ PutsTold /\ MailStep

\* Where a thread in a call on the mailbox is.
LEMMA MailPlaces ==
    ASSUME PlacesOK, NEW t \in Users
    PROVE  /\ pc[t].at \in MboxPlaces => IsWait(pc[t]) /\ pc[t].on \in MailQueues
           /\ pc[t].at = "mbox_got" => pc[t].on = get_threadq
           /\ k.queue[t] \in MailQueues => /\ pc[t].at \in MboxPlaces /\ pc[t].on = k.queue[t]
                                           /\ k.wake_reason[t] = "NONE"
                                           /\ k.sleep_reason[t] # "DELAY"
<1>1. ThreadOK(k, pc[t], t) /\ Waits(k) /\ t \in Threads /\ MailQueues \subseteq WaitQueues
  BY MailboxAssumption DEF PlacesOK, Users, MailQueues
<1>2. pc[t].at \in MboxPlaces => IsWait(pc[t]) /\ pc[t].on \in MailQueues
  BY <1>1 DEF ThreadOK, IsWait, IsFree, FlagPlaces, SemPlaces, MboxPlaces, LockPlaces,
              CondPlaces, UserCode, Ended, At, MailQueues
<1>3. pc[t].at = "mbox_got" => pc[t].on = get_threadq
  BY <1>1 DEF ThreadOK, IsWait, IsFree, FlagPlaces, SemPlaces, MboxPlaces, LockPlaces,
              CondPlaces, UserCode, Ended, At
<1>4. ASSUME k.queue[t] \in MailQueues
      PROVE  /\ pc[t].at \in MboxPlaces /\ pc[t].on = k.queue[t]
             /\ k.wake_reason[t] = "NONE" /\ k.sleep_reason[t] # "DELAY"
  <2>1. k.queue[t] # NoQueue
    BY <1>1, <1>4, QueueAssumption
  <2>2. IsWait(pc[t]) /\ pc[t].on = k.queue[t]
    BY <1>1, <2>1 DEF ThreadOK
  <2>3. pc[t].at \in MboxPlaces
    BY <1>4, <2>2, ObjectsAssumption DEF IsWait, MailQueues
  <2> QED BY <1>1, <2>1, <2>2, <2>3 DEF Waits
<1> QED BY <1>2, <1>3, <1>4

\* What a bystander was given stays true.
LEMMA MboxBystands ==
    ASSUME PlacesOK, NEW t \in Users, NEW D, Bystands(t, D), NEW info,
           t \notin D \/ pc[t].at \notin MboxPlaces \/ pc[t].on # get_threadq,
           MboxThread(k, pc[t], info, t)
    PROVE  /\ MboxThread(k', pc'[t], info, t)
           /\ k'.queue[t] \in {k.queue[t], NoQueue}
<1>1. k'.queue[t] \in {k.queue[t], NoQueue}
  BY DEF Bystands, GoesOn, Ends
<1>2. ASSUME pc[t].at \in MboxPlaces, pc[t].on = get_threadq
      PROVE  k'.wake_reason[t] = "DONE" <=> k.wake_reason[t] = "DONE"
  <2>1. CASE GoesOn(k, k', t)
    BY <2>1 DEF GoesOn
  <2>2. CASE Ends(k, k', t, D)
    <3>1. IsWait(pc[t]) /\ ThreadOK(k, pc[t], t)
      BY <1>2, MailPlaces DEF PlacesOK
    <3>2. k.queue[t] # NoQueue /\ k.queue[t] = get_threadq
      BY <1>2, <2>2, <3>1 DEF ThreadOK, Ends
    <3>3. k.wake_reason[t] = "NONE" /\ k.sleep_reason[t] # "DELAY"
      BY <3>2, MailPlaces DEF MailQueues
    <3> QED BY <1>2, <2>2, <3>3 DEF Ends
  <2> QED BY <2>1, <2>2 DEF Bystands
<1>3. pc'[t] = pc[t]
  BY DEF Bystands
<1> QED BY <1>1, <1>2, <1>3 DEF MboxThread

\* The ring stays as it is, and so does what most threads are told.
LEMMA MailQuiet ==
    ASSUME PlacesOK, MailOK, mbox' = mbox, wait_info' \in [Threads -> Contents],
           \A t \in Users :
             \/ wait_info'[t] = wait_info[t] /\ Bystands(t, {})
             \/ MboxThread(k', pc'[t], wait_info'[t], t) /\ InVain(k', t, mbox.count)
    PROVE  MailOK'
<1>1. ASSUME NEW t \in Users
      PROVE  MboxThread(k', pc'[t], wait_info'[t], t) /\ InVain(k', t, mbox.count)
  <2>1. MboxThread(k, pc[t], wait_info[t], t) /\ InVain(k, t, mbox.count)
    BY DEF MailOK
  <2>2. CASE wait_info'[t] = wait_info[t] /\ Bystands(t, {})
    <3>1. /\ MboxThread(k', pc'[t], wait_info'[t], t)
          /\ k'.queue[t] \in {k.queue[t], NoQueue}
      BY <2>1, <2>2, MboxBystands
    <3>2. InVain(k', t, mbox.count)
      BY <2>1, <3>1, MailboxAssumption, QueueAssumption DEF InVain
    <3> QED BY <3>1, <3>2
  <2> QED BY <2>2
<1> QED BY <1>1 DEF MailOK

\* A put whose wait ends while the ring stays as it is was not told DONE.
LEMMA MailUntold ==
    ASSUME PlacesOK, NEW D, mbox' = mbox,
           \A t \in Users : k.queue[t] = put_threadq /\ k'.queue[t] # put_threadq =>
                              Bystands(t, D) /\ t \notin D
    PROVE  PutsTold
<1>1. ASSUME NEW t \in Users, k.queue[t] = put_threadq, k'.queue[t] # put_threadq
      PROVE  k'.wake_reason[t] # "DONE"
  <2>1. Ends(k, k', t, D)
    BY <1>1 DEF Bystands, GoesOn
  <2>2. k.sleep_reason[t] # "DELAY"
    BY <1>1, MailPlaces DEF MailQueues
  <2> QED BY <1>1, <2>1, <2>2 DEF Ends
<1> QED BY <1>1 DEF PutsTold

\* The calls on other objects do not concern the mailbox.
LEMMA MailOthers ==
    ASSUME PlacesOK, MailOK, NEW S \in SUBSET WaitQueues, NEW D, Calls(S, D),
           MailQueues \cap S = {}, UNCHANGED mailboxVars
    PROVE  MailOK' /\ PutsTold /\ MailStep
<1>1. UNCHANGED <<mbox, wait_info>>
  BY DEF mailboxVars
<1>2. ASSUME NEW t \in Users, t = self, Acts(S)
      PROVE  /\ pc[t].at \notin MboxPlaces \cup {"mbox_got"}
             /\ pc'[t].at \notin MboxPlaces \cup {"mbox_got"}
             /\ k.queue[t] = NoQueue /\ k'.queue[t] \notin MailQueues
  <2>1. pc[t] = UserCode \/ pc[t].on \notin MailQueues
    BY <1>2 DEF Acts
  <2>2. pc[t].at \notin MboxPlaces \cup {"mbox_got"}
    BY <2>1, MailPlaces DEF UserCode, At, MboxPlaces, MailQueues
  <2>3. pc'[t] \in {UserCode, Ended} \/ pc'[t].on \notin MailQueues
    BY <1>2 DEF Acts
  <2>4. pc'[t].at \notin MboxPlaces \cup {"mbox_got"}
    BY <1>2, <2>3 DEF Acts, IsWait, IsFree, UserCode, Ended, At, MboxPlaces, MailQueues,
              SemPlaces, FlagPlaces, LockPlaces, CondPlaces
  <2>5. k'.queue[t] \notin MailQueues
    <3>1. NoQueue \notin MailQueues
      BY MailboxAssumption, QueueAssumption DEF MailQueues
    <3>2. k'.queue[t] = NoQueue \/ (IsWait(pc'[t]) /\ k'.queue[t] = pc'[t].on)
      BY <1>2 DEF Acts, Awake
    <3>3. IsWait(pc'[t]) => pc'[t].on \notin MailQueues
      BY <2>3 DEF IsWait, UserCode, Ended, At, SemPlaces, FlagPlaces, LockPlaces, CondPlaces,
                  MboxPlaces
    <3> QED BY <3>1, <3>2, <3>3
  <2>6. k.queue[t] = NoQueue
    BY <1>2 DEF Acts, Awake
  <2> QED BY <2>2, <2>4, <2>5, <2>6
<1>3. ASSUME NEW t \in D
      PROVE  t \in Users /\ k.queue[t] \notin MailQueues /\ pc[t].at \notin MboxPlaces
  <2>1. t \in Users /\ k.queue[t] \in S /\ ThreadOK(k, pc[t], t)
    BY <1>3 DEF Calls, PlacesOK
  <2>2. k.queue[t] \notin MailQueues /\ k.queue[t] # NoQueue
    BY <2>1, QueueAssumption
  <2>3. pc[t].on \notin MailQueues
    BY <2>1, <2>2 DEF ThreadOK
  <2> QED BY <2>1, <2>2, <2>3, MailPlaces
<1>4. ASSUME NEW t \in Users
      PROVE  MboxThread(k', pc'[t], wait_info[t], t) /\ InVain(k', t, mbox.count)
  <2>1. MboxThread(k, pc[t], wait_info[t], t) /\ InVain(k, t, mbox.count)
    BY DEF MailOK
  <2>2. CASE Bystands(t, D)
    <3>1. /\ MboxThread(k', pc'[t], wait_info[t], t)
          /\ k'.queue[t] \in {k.queue[t], NoQueue}
      BY <1>3, <2>1, <2>2, MboxBystands
    <3> QED BY <2>1, <3>1, MailboxAssumption, QueueAssumption DEF InVain
  <2>3. CASE t = self /\ Acts(S)
    BY <1>2, <2>1, <2>3 DEF MboxThread, InVain, MailQueues
  <2> QED BY <2>2, <2>3 DEF Calls
<1>5. MailOK'
  BY <1>1, <1>4 DEF MailOK
<1>6. PutsTold
  <2>1. ASSUME NEW t \in Users, k.queue[t] = put_threadq
        PROVE  Bystands(t, D) /\ t \notin D
    BY <1>2, <1>3, <2>1, MailboxAssumption, QueueAssumption DEF Calls, MailQueues
  <2> QED BY <1>1, <2>1, MailUntold
<1>7. MailStep
  <2>1. \A t \in Users : InPut(t)' <=> InPut(t)
    BY <1>2 DEF Calls, Bystands, InPut, MboxPlaces
  <2>2. received' = received
    BY <1>1, <2>1 DEF received
  <2>3. stored' = stored
    BY <1>1 DEF stored
  <2> QED BY <2>2, <2>3 DEF MailStep
<1> QED BY <1>5, <1>6, <1>7

\* The current thread goes on to p, and w is what its wait_info points at.
LEMMA MailMoved ==
    ASSUME PlacesOK, MailOK, Calling(k), Moved(k, k', {}), Plain(k, k'),
           UNCHANGED <<program, semaphoreVars, flagVars, mutexVars, requested>>,
           mbox' = mbox, pc[self] = UserCode \/ pc[self].on \in MailQueues,
           NEW p \in Spot, pc' = [pc EXCEPT ![self] = p],
           NEW w \in Contents, wait_info' = [wait_info EXCEPT ![self] = w],
           \/ p \in {UserCode, Ended} /\ Awake(k', self) /\ w = NoMessage
           \/ /\ p.at \in MboxPlaces /\ p.on \in MailQueues /\ k'.queue[self] = p.on
              /\ p.at = "mbox_timed_wait" => HasAlarm(k', self)
              /\ pc[self] = UserCode /\ k'.wake_reason[self] = "NONE"
              /\ p.on = get_threadq => w = NoMessage /\ mbox.count = 0
              /\ p.on = put_threadq => w \in Messages /\ mbox.count = Size
    PROVE  MailEffect
<1>1. self \in Users /\ self \in Threads
  BY DEF Calling, Users, self
<1>2. /\ pc'[self] = p /\ wait_info'[self] = w
      /\ \A t \in Users \ {self} : wait_info'[t] = wait_info[t]
      /\ wait_info' \in [Threads -> Contents]
  BY <1>1 DEF PlacesOK, MailOK, Users
<1>3. Calls(MailQueues, {})
  <2>1. CASE p \in {UserCode, Ended} /\ Awake(k', self)
    <3>1. IsFree(p)
      BY <2>1 DEF IsFree
    <3> QED BY <2>1, <3>1, MovedCalls
  <2>2. CASE /\ p.at \in MboxPlaces /\ p.on \in MailQueues /\ k'.queue[self] = p.on
             /\ p.at = "mbox_timed_wait" => HasAlarm(k', self)
    <3>1. IsWait(p) /\ (p.at \in TimedPlaces => p.at = "mbox_timed_wait")
      BY <2>2 DEF IsWait, MboxPlaces, TimedPlaces, MailQueues
    <3> QED BY <2>2, <3>1, MovedCalls
  <2> QED BY <2>1, <2>2
<1>4. MboxThread(k', p, w, self) /\ InVain(k', self, mbox.count)
  <2>1. p \in {UserCode, Ended} => p.at \notin MboxPlaces
    BY DEF UserCode, Ended, At, MboxPlaces
  <2>2. CASE p \in {UserCode, Ended} /\ Awake(k', self) /\ w = NoMessage
    BY <2>1, <2>2, MailboxAssumption, QueueAssumption DEF MboxThread, InVain, Awake
  <2>3. CASE p \notin {UserCode, Ended}
    BY <2>3, MailboxAssumption DEF MboxThread, InVain, MailQueues
  <2>4. CASE p \in {UserCode, Ended} /\ p.at \in MboxPlaces
    BY <2>1, <2>4
  <2> QED BY <2>2, <2>3, <2>4
<1>5. ASSUME NEW t \in Users
      PROVE  \/ wait_info'[t] = wait_info[t] /\ Bystands(t, {})
             \/ MboxThread(k', pc'[t], wait_info'[t], t) /\ InVain(k', t, mbox.count)
  <2>1. CASE t = self
    BY <1>2, <1>4, <2>1
  <2>2. CASE t # self
    BY <1>2, <1>3, <2>2 DEF Calls
  <2> QED BY <2>1, <2>2
<1>6. MailOK'
  BY <1>2, <1>5, MailQuiet
<1>7. PutsTold
  <2>1. ASSUME NEW t \in Users, k.queue[t] = put_threadq
        PROVE  Bystands(t, {})
    <3>1. t # self
      BY <2>1, MailboxAssumption, QueueAssumption DEF Calling, Awake, self
    <3> QED BY <1>3, <3>1 DEF Calls
  <2> QED BY <2>1, MailUntold
<1>8. MailStep
  <2>1. stored' = stored
    BY DEF stored
  <2>2. \A t \in Users \ {self} : received'[t] = received[t]
    BY <1>2, <1>3 DEF received, InPut, Calls, Bystands
  <2>3. ASSUME NEW t \in Users, t = self PROVE received'[t] = NoMessage
    <3>1. received'[t] = IF InPut(t)' THEN NoMessage ELSE wait_info'[t]
      BY DEF received
    <3>2. pc'[t] = p /\ wait_info'[t] = w
      BY <1>2, <2>3
    <3>3. CASE w = NoMessage
      BY <3>1, <3>2, <3>3
    <3>4. CASE p.at \in MboxPlaces /\ p.on = put_threadq
      <4>1. InPut(t)'
        BY <3>2, <3>4 DEF InPut, MboxPlaces
      <4> QED BY <3>1, <4>1
    <3> QED BY <3>3, <3>4 DEF MailQueues
  <2>4. received' = [received EXCEPT ![self] = NoMessage]
    BY <1>1, <2>2, <2>3 DEF received
  <2>5. CASE received[self] = NoMessage
    <3>1. received' = received
      BY <1>1, <2>2, <2>3, <2>5 DEF received
    <3> QED BY <2>1, <3>1 DEF MailStep
  <2>6. CASE received[self] # NoMessage
    BY <1>1, <2>1, <2>4, <2>6 DEF MailStep, Abstract!Next, Abstract!Consume
  <2> QED BY <2>5, <2>6
<1> QED BY <1>3, <1>6, <1>7, <1>8 DEF MailEffect

\* get() when there are messages: the caller has the oldest, and a thread
\* that waits for room has put its own.
LEMMA MailTake ==
    ASSUME PlacesOK, MailOK, Calling(k), pc[self] = UserCode, TakeMessage,
           UNCHANGED <<program, semaphoreVars, flagVars, mutexVars, requested>>
    PROVE  MailEffect
<1> DEFINE h == Head(putters)
           D == IF putters = <<>> THEN {} ELSE {h}
           p == At("mbox_got", get_threadq)
<1>1. /\ mbox.count > 0 /\ wait_info' = [wait_info EXCEPT ![self] = oldest(mbox)]
      /\ mbox' = (IF putters = <<>> THEN removed(mbox) ELSE store(removed(mbox), wait_info[h]))
      /\ k' = wake_first(k, put_threadq) /\ pc' = [pc EXCEPT ![self] = p]
  BY DEF TakeMessage, GoOn
<1>2. /\ Good(k) /\ Waits(k) /\ put_threadq \in WaitQueues /\ put_threadq # NoQueue
      /\ get_threadq # put_threadq /\ get_threadq # NoQueue
      /\ self \in Users /\ self \in Threads /\ k.queue[self] = NoQueue
  BY MailboxAssumption, QueueAssumption DEF Calling, Awake, Users, self
<1>3. /\ Continued(k, k', D) /\ Plain(k, k')
      /\ putters = <<>> => k' = k
      /\ putters # <<>> => Woken(k, k', h, "DONE")
  BY <1>1, <1>2, WakeFirst DEF putters
<1>4. putters # <<>> => h \in Users /\ k.queue[h] = put_threadq
  BY <1>2, HeadWaits DEF putters
<1>5. putters = <<>> => \A t \in Users : k.queue[t] # put_threadq
  BY <1>2, EmptyQueue DEF putters, Users
<1>6. Calls(MailQueues, D)
  <2>1. \A t \in D : t \in Users /\ k.queue[t] \in MailQueues
    BY <1>4 DEF MailQueues
  <2>2. Moved(k, k', D) /\ Calling(k') /\ k'.current_thread = self
    BY <1>3, ContinuedMoved DEF Continued, Step, self
  <2>3. Awake(k', self) /\ IsFree(p) /\ p \in Spot /\ p.on \in MailQueues
    BY <2>2, SpotFacts DEF Calling, IsFree, MailQueues, At
  <2> HIDE DEF D, p
  <2> QED BY <1>1, <2>1, <2>2, <2>3, MovedCalls
<1>7. /\ mbox \in Mboxes /\ removed(mbox) \in Mboxes /\ removed(mbox).count = mbox.count - 1
      /\ ring(mbox) # <<>> /\ oldest(mbox) = Head(ring(mbox))
      /\ ring(removed(mbox)) = Tail(ring(mbox)) /\ Len(ring(mbox)) = mbox.count
      /\ mbox.count \in Nat
  <2>1. mbox \in Mboxes /\ mbox.count \in Nat
    BY MailboxAssumption DEF MailOK, Mboxes
  <2> QED BY <1>1, <2>1, RingFacts, RingType
<1>8. ASSUME putters # <<>>
      PROVE  /\ mbox.count = Size /\ wait_info[h] \in Messages /\ h # self
             /\ mbox' \in Mboxes /\ mbox'.count = Size
             /\ ring(mbox') = Append(Tail(ring(mbox)), wait_info[h])
             /\ newest(mbox') = wait_info[h]
             /\ k'.wake_reason[h] = "DONE"
             /\ \A t \in Users \ {h} : k'.queue[t] = k.queue[t]
  <2>1. mbox.count = Size /\ wait_info[h] \in Messages
    <3>1. InVain(k, h, mbox.count) /\ MboxThread(k, pc[h], wait_info[h], h)
      BY <1>4, <1>8 DEF MailOK
    <3>2. pc[h].at \in MboxPlaces /\ pc[h].on = put_threadq
      BY <1>4, <1>8, MailPlaces DEF MailQueues
    <3> QED BY <1>4, <1>8, <3>1, <3>2 DEF InVain, MboxThread
  <2>2. h # self
    BY <1>2, <1>4, <1>8
  <2>3. removed(mbox).count < Size /\ removed(mbox).count + 1 = Size
    BY <1>7, <2>1
  <2>4. /\ mbox' \in Mboxes /\ mbox'.count = Size
        /\ ring(mbox') = Append(Tail(ring(mbox)), wait_info[h])
        /\ newest(mbox') = wait_info[h]
    BY <1>1, <1>7, <1>8, <2>1, <2>3, RingFacts
  <2>5. /\ k.queue \in [Threads -> WaitQueues \cup {NoQueue}]
        /\ k.wake_reason \in [Threads -> Reasons] /\ h \in Threads
    BY <1>2, <1>4, <1>8, FieldTypes DEF Users
  <2>6. /\ k'.wake_reason[h] = "DONE"
        /\ \A t \in Users \ {h} : k'.queue[t] = k.queue[t]
    BY <1>3, <1>8, <2>5 DEF Woken, Users
  <2> QED BY <2>1, <2>2, <2>4, <2>6
<1>9. ASSUME putters = <<>> PROVE mbox' = removed(mbox) /\ k' = k
  BY <1>1, <1>3, <1>9
<1>10. /\ pc'[self] = p /\ wait_info'[self] = oldest(mbox)
       /\ \A t \in Users \ {self} : wait_info'[t] = wait_info[t] /\ pc'[t] = pc[t]
  BY <1>1, <1>2 DEF PlacesOK, MailOK, Users
<1>11. wait_info' \in [Threads -> Contents]
  <2>1. oldest(mbox) \in Contents
    BY <1>7, MailboxAssumption DEF oldest, Mboxes
  <2> QED BY <1>1, <2>1 DEF MailOK
<1>12. mbox' \in Mboxes
  BY <1>7, <1>8, <1>9
<1>13. ASSUME NEW t \in Users
       PROVE  MboxThread(k', pc'[t], wait_info'[t], t) /\ InVain(k', t, mbox'.count)
  <2>1. MboxThread(k, pc[t], wait_info[t], t) /\ InVain(k, t, mbox.count)
    BY DEF MailOK
  <2>2. k'.queue[t] \in {k.queue[t], NoQueue}
    BY <1>3 DEF Continued, GoesOn, Ends, Users
  <2>3. k'.queue[t] # get_threadq
    BY <1>1, <1>2, <2>1, <2>2 DEF InVain
  <2>4. k'.queue[t] = put_threadq => mbox'.count = Size
    BY <1>2, <1>5, <1>8, <2>2
  <2>5. MboxThread(k', pc'[t], wait_info'[t], t)
    <3>1. CASE t = self
      BY <1>10, <3>1 DEF MboxThread, At, MboxPlaces
    <3>2. CASE t # self
      <4>1. Bystands(t, D)
        BY <1>6, <3>2 DEF Calls
      <4>2. t \notin D \/ pc[t].on # get_threadq
        <5>1. CASE t \in D
          <6>1. k.queue[t] = put_threadq
            BY <1>4, <5>1
          <6> QED BY <1>2, <6>1, MailPlaces DEF MailQueues
        <5> QED BY <5>1
      <4> HIDE DEF D
      <4> QED BY <1>10, <2>1, <3>2, <4>1, <4>2, MboxBystands
    <3> QED BY <3>1, <3>2
  <2> QED BY <2>3, <2>4, <2>5 DEF InVain
<1>14. MailOK'
  BY <1>11, <1>12, <1>13 DEF MailOK
<1>15. PutsTold
  <2> SUFFICES ASSUME NEW t \in Users, k.queue[t] = put_threadq, k'.queue[t] # put_threadq
               PROVE  k'.wake_reason[t] = "DONE" /\ newest(mbox') = wait_info[t]
    BY DEF PutsTold
  <2>1. putters # <<>>
    BY <1>5
  <2> QED BY <1>8, <2>1
<1>16. MailStep
  <2>1. stored = ring(mbox) /\ stored' = ring(mbox')
    BY DEF stored, ring
  <2>2. received[self] = NoMessage
    <3>1. MboxThread(k, pc[self], wait_info[self], self)
      BY <1>2 DEF MailOK
    <3> QED BY <1>2, <3>1 DEF received, MboxThread, UserCode, At, MboxPlaces
  <2>3. received' = [received EXCEPT ![self] = Head(stored)]
    <3>1. \A t \in Users : received'[t] = IF InPut(t)' THEN NoMessage ELSE wait_info'[t]
      BY DEF received
    <3>2. \A t \in Users : t = self => ~InPut(t)'
      BY <1>10 DEF InPut, At
    <3>3. \A t \in Users : t # self => received'[t] = received[t]
      BY <1>10 DEF received, InPut
    <3>4. \A t \in Users : t = self => received'[t] = Head(stored)
      BY <1>7, <1>10, <2>1, <3>1, <3>2
    <3> QED BY <1>2, <3>3, <3>4 DEF received
  <2>4. CASE putters = <<>>
    <3>1. Abstract!Get(self)
      BY <1>7, <1>9, <2>1, <2>2, <2>3, <2>4 DEF Abstract!Get
    <3> QED BY <1>2, <3>1 DEF MailStep, Abstract!Next
  <2>5. CASE putters # <<>>
    <3>1. Len(stored) = Size
      BY <1>7, <1>8, <2>1, <2>5
    <3>2. Abstract!GetAndPut(self, wait_info[h])
      BY <1>7, <1>8, <2>1, <2>2, <2>3, <2>5, <3>1 DEF Abstract!GetAndPut
    <3> QED BY <1>2, <1>8, <2>5, <3>2 DEF MailStep, Abstract!Next
  <2> QED BY <2>4, <2>5
<1> HIDE DEF D
<1> QED BY <1>3, <1>6, <1>14, <1>15, <1>16 DEF MailEffect

\* put() when there is room: the first thread that waits gets the message,
\* or it is stored.
LEMMA MailGive ==
    ASSUME PlacesOK, MailOK, NEW m \in Messages, GiveMessage(m), UNCHANGED pc,
           UNCHANGED <<program, semaphoreVars, flagVars, mutexVars, requested>>
    PROVE  MailEffect
<1> DEFINE h == Head(getters)
           D == IF getters = <<>> THEN {} ELSE {h}
<1>1. /\ mbox.count < Size /\ k' = wake_first(k, get_threadq)
      /\ getters = <<>> => mbox' = store(mbox, m) /\ wait_info' = wait_info
      /\ getters # <<>> => mbox' = mbox /\ wait_info' = [wait_info EXCEPT ![h] = m]
  BY DEF GiveMessage
<1>2. /\ Good(k) /\ Waits(k) /\ get_threadq \in WaitQueues /\ get_threadq # NoQueue
      /\ get_threadq # put_threadq /\ put_threadq # NoQueue
      /\ m # NoMessage /\ m \in Contents
  BY MailboxAssumption, QueueAssumption DEF PlacesOK, Contents
<1>3. /\ Calls({get_threadq}, D) /\ Plain(k, k') /\ Continued(k, k', D)
      /\ \A t \in D : k.queue[t] = get_threadq /\ k'.wake_reason[t] = "DONE"
  BY <1>1, <1>2, WakeFirstCalls DEF getters
<1>4. getters # <<>> => h \in Users /\ h \in Threads /\ k.queue[h] = get_threadq
  BY <1>2, HeadWaits DEF getters, Users
<1>5. getters = <<>> => \A t \in Users : k.queue[t] # get_threadq
  BY <1>2, EmptyQueue DEF getters, Users
<1>6. Calls(MailQueues, D)
  <2>1. \A t \in D : t \in Users /\ k.queue[t] \in MailQueues
    BY <1>4 DEF MailQueues
  <2> HIDE DEF D
  <2> QED BY <1>3, <2>1, ContinuedCalls
<1>7. /\ mbox \in Mboxes /\ mbox.count \in Nat /\ Len(ring(mbox)) = mbox.count
      /\ ring(mbox) \in Seq(Contents)
      /\ store(mbox, m) \in Mboxes /\ ring(store(mbox, m)) = Append(ring(mbox), m)
  <2>1. mbox \in Mboxes /\ mbox.count \in Nat
    BY MailboxAssumption DEF MailOK, Mboxes
  <2> QED BY <1>1, <2>1, RingFacts, RingType
<1>8. ASSUME getters # <<>>
      PROVE  /\ mbox.count = 0 /\ pc[h].at \in MboxPlaces /\ pc[h].on = get_threadq
             /\ wait_info[h] = NoMessage
  <2>1. InVain(k, h, mbox.count) /\ MboxThread(k, pc[h], wait_info[h], h)
    BY <1>4, <1>8 DEF MailOK
  <2>2. pc[h].at \in MboxPlaces /\ pc[h].on = get_threadq /\ k.wake_reason[h] = "NONE"
    BY <1>4, <1>8, MailPlaces DEF MailQueues
  <2> QED BY <1>4, <1>8, <2>1, <2>2 DEF InVain, MboxThread
<1>9. \A t \in Users : k.queue[t] # put_threadq
  <2>1. mbox.count # Size
    BY <1>1, <1>7, MailboxAssumption
  <2> QED BY <2>1 DEF MailOK, InVain
<1>10. /\ pc' = pc /\ wait_info' \in [Threads -> Contents]
       /\ getters # <<>> => wait_info'[h] = m
       /\ \A t \in Users : t \notin D => wait_info'[t] = wait_info[t]
  BY <1>1, <1>2, <1>4 DEF MailOK, Users
<1>11. ASSUME NEW t \in Users
       PROVE  MboxThread(k', pc'[t], wait_info'[t], t) /\ InVain(k', t, mbox'.count)
  <2>1. MboxThread(k, pc[t], wait_info[t], t) /\ InVain(k, t, mbox.count)
    BY DEF MailOK
  <2>2. k'.queue[t] \in {k.queue[t], NoQueue} /\ Bystands(t, D)
    BY <1>3, <1>10 DEF Continued, GoesOn, Ends, Users, Bystands
  <2>3. k'.queue[t] # put_threadq
    BY <1>2, <1>9, <2>2
  <2>4. k'.queue[t] = get_threadq => mbox'.count = 0
    BY <1>1, <1>2, <1>5, <1>8, <2>2
  <2>5. MboxThread(k', pc'[t], wait_info'[t], t)
    <3>1. CASE t \in D
      <4>1. t = h /\ getters # <<>>
        BY <3>1
      <4>2. k'.wake_reason[t] = "DONE" /\ wait_info'[t] = m /\ pc'[t] = pc[t]
        BY <1>3, <1>10, <3>1, <4>1
      <4> HIDE DEF h
      <4> QED BY <1>2, <1>8, <4>1, <4>2 DEF MboxThread
    <3>2. CASE t \notin D
      <4> HIDE DEF D
      <4> QED BY <1>10, <2>1, <2>2, <3>2, MboxBystands
    <3> QED BY <3>1, <3>2
  <2> QED BY <2>3, <2>4, <2>5 DEF InVain
<1>12. MailOK'
  <2>1. mbox' \in Mboxes
    BY <1>1, <1>7
  <2> QED BY <1>10, <1>11, <2>1 DEF MailOK
<1>13. PutsTold
  BY <1>9 DEF PutsTold
<1>14. MailStep
  <2>1. stored = ring(mbox) /\ stored' = ring(mbox')
    BY DEF stored, ring
  <2>2. \A t \in Users : t \notin D => received'[t] = received[t]
    BY <1>10 DEF received, InPut
  <2>3. CASE getters = <<>>
    <3>1. received' = received
      BY <2>2, <2>3 DEF received
    <3>2. Abstract!Put(m)
      BY <1>1, <1>7, <2>1, <2>3, <3>1 DEF Abstract!Put
    <3> QED BY <3>2 DEF MailStep, Abstract!Next
  <2>4. CASE getters # <<>>
    <3>1. \A t \in Users : t = h => received[t] = NoMessage /\ received'[t] = m
      BY <1>2, <1>8, <1>10, <2>4 DEF received, InPut
    <3>2. received' = [received EXCEPT ![h] = m]
      BY <1>4, <2>2, <2>4, <3>1 DEF received
    <3>3. stored = <<>> /\ stored' = stored
      BY <1>1, <1>7, <1>8, <2>1, <2>4
    <3>4. Abstract!PutAndGet(h, m)
      BY <1>4, <2>4, <3>1, <3>2, <3>3 DEF Abstract!PutAndGet
    <3> QED BY <1>4, <2>4, <3>4 DEF MailStep, Abstract!Next
  <2> QED BY <2>3, <2>4
<1> HIDE DEF D
<1> QED BY <1>3, <1>6, <1>12, <1>13, <1>14 DEF MailEffect

\* A call that has nothing to take, or no room, sleeps with its message or
\* without one, or is overdue.
LEMMA MailSleeps ==
    ASSUME PlacesOK, MailOK, Calling(k), pc[self] = UserCode, mbox' = mbox,
           UNCHANGED <<program, semaphoreVars, flagVars, mutexVars, requested>>,
           NEW q \in MailQueues, NEW timed \in BOOLEAN, NEW w \in Contents,
           wait_info' = [wait_info EXCEPT ![self] = w],
           \/ /\ GoToSleep(q, timed)
              /\ q = get_threadq => w = NoMessage /\ mbox.count = 0
              /\ q = put_threadq => w \in Messages /\ mbox.count = Size
           \/ k' = overdue(k) /\ UNCHANGED pc /\ w = NoMessage
    PROVE  MailEffect
<1>1. self \in Threads /\ q \in WaitQueues
  BY MailboxAssumption DEF Calling, Users, self, MailQueues
<1>2. ASSUME k' = overdue(k), UNCHANGED pc, w = NoMessage
      PROVE  MailEffect
  <2>1. /\ Calling(k') /\ k'.current_thread = self
        /\ Moved(k, k', {}) /\ Plain(k, k')
    BY <1>2, OverdueMoved DEF self
  <2>2. pc' = [pc EXCEPT ![self] = UserCode]
    <3>1. pc = [t \in Threads |-> pc[t]]
      BY DEF PlacesOK
    <3> QED BY <1>1, <1>2, <3>1
  <2>3. Awake(k', self)
    BY <2>1 DEF Calling
  <2> QED BY <1>2, <2>1, <2>2, <2>3, MailMoved, SpotFacts
<1>3. ASSUME NEW place \in MboxPlaces, pc' = [pc EXCEPT ![self] = At(place, q)],
             Moved(k, k', {}), Plain(k, k'), k'.queue[self] = q, k'.wake_reason[self] = "NONE",
             place = "mbox_timed_wait" => HasAlarm(k', self),
             q = get_threadq => w = NoMessage /\ mbox.count = 0,
             q = put_threadq => w \in Messages /\ mbox.count = Size
      PROVE  MailEffect
  <2>1. At(place, q) \in Spot /\ At(place, q).at = place /\ At(place, q).on = q
    <3>1. place \in Places
      BY DEF MboxPlaces, Places
    <3> QED BY <1>1, <3>1, SpotFacts DEF At
  <2> QED BY <1>3, <2>1, MailMoved
<1>4. ASSUME GoToSleep(q, timed), ~timed,
             q = get_threadq => w = NoMessage /\ mbox.count = 0,
             q = put_threadq => w \in Messages /\ mbox.count = Size
      PROVE  MailEffect
  <2>1. k' = block(k, q, "WAIT") /\ pc' = [pc EXCEPT ![self] = At("mbox_wait", q)]
    BY <1>4 DEF GoToSleep, GoOn
  <2>2. Blocked(k, k', q, "WAIT", {})
    BY <1>1, <2>1, BlockMoved
  <2>3. /\ Moved(k, k', {}) /\ Plain(k, k') /\ k'.queue[self] = q
        /\ k'.wake_reason[self] = "NONE"
    BY <2>2 DEF Blocked, self
  <2>4. "mbox_wait" \in MboxPlaces
    BY DEF MboxPlaces
  <2> QED BY <1>3, <1>4, <2>1, <2>3, <2>4
<1>5. ASSUME GoToSleep(q, timed), timed,
             q = get_threadq => w = NoMessage /\ mbox.count = 0,
             q = put_threadq => w \in Messages /\ mbox.count = Size
      PROVE  MailEffect
  <2> DEFINE a == armed(k)
  <2>1. k' = block(a, q, "TIMEOUT") /\ pc' = [pc EXCEPT ![self] = At("mbox_timed_wait", q)]
    BY <1>5 DEF GoToSleep, GoOn
  <2>2. /\ Calling(a) /\ a.current_thread = self /\ a.timer[self]
        /\ Moved(k, a, {}) /\ Plain(k, a)
    BY ArmedMoved DEF self
  <2> HIDE DEF a
  <2>3. Blocked(a, k', q, "TIMEOUT", {})
    BY <1>1, <2>1, <2>2, BlockMoved
  <2>4. /\ Moved(a, k', {}) /\ Plain(a, k') /\ k'.queue[self] = q /\ HasAlarm(k', self)
        /\ k'.wake_reason[self] = "NONE"
    BY <2>2, <2>3 DEF Blocked, HasAlarm
  <2>5. Moved(k, k', {}) /\ Plain(k, k')
    BY <2>2, <2>4, MovedTransitive DEF Plain, SamePriorities
  <2>6. "mbox_timed_wait" \in MboxPlaces
    BY DEF MboxPlaces
  <2> QED BY <1>3, <1>5, <2>1, <2>4, <2>5, <2>6
<1> QED BY <1>2, <1>4, <1>5

\* get() and put(), with and without a time limit.
LEMMA MailBegins ==
    ASSUME PlacesOK, MailOK, NEW timed \in BOOLEAN,
           MboxGet(timed) \/ \E m \in Messages : MboxPut(m, timed)
    PROVE  MailEffect
<1>1. /\ Calling(k) /\ pc[self] = UserCode /\ self \in Users /\ self \in Threads
      /\ UNCHANGED <<program, semaphoreVars, flagVars, mutexVars, requested>>
  BY Caller DEF MboxGet, MboxPut, Calling, Users, self
<1>2. /\ get_threadq \in MailQueues /\ put_threadq \in MailQueues /\ NoMessage \in Contents
      /\ get_threadq # put_threadq /\ \A m \in Messages : m \in Contents
  BY MailboxAssumption DEF MailQueues, Contents
<1>3. wait_info[self] = NoMessage /\ wait_info = [wait_info EXCEPT ![self] = NoMessage]
  <2>1. MboxThread(k, pc[self], wait_info[self], self)
    BY <1>1 DEF MailOK
  <2>2. wait_info[self] = NoMessage
    BY <1>1, <2>1 DEF MboxThread, UserCode, At, MboxPlaces
  <2> QED BY <2>2 DEF MailOK
<1>4. CASE MboxGet(timed)
  <2>1. CASE TakeMessage
    BY <1>1, <2>1, MailTake
  <2>2. ASSUME mbox.count = 0, GoToSleep(get_threadq, timed), UNCHANGED <<mbox, wait_info>>
        PROVE  MailEffect
    <3>1. wait_info' = [wait_info EXCEPT ![self] = NoMessage]
      BY <1>3, <2>2
    <3> QED BY <1>1, <1>2, <2>2, <3>1, MailSleeps
  <2>3. ASSUME k' = overdue(k), UNCHANGED <<pc, mbox, wait_info>>
        PROVE  MailEffect
    <3>1. wait_info' = [wait_info EXCEPT ![self] = NoMessage]
      BY <1>3, <2>3
    <3> QED BY <1>1, <1>2, <2>3, <3>1, MailSleeps
  <2> QED BY <1>4, <2>1, <2>2, <2>3 DEF MboxGet
<1>5. ASSUME NEW m \in Messages, MboxPut(m, timed) PROVE MailEffect
  <2>1. CASE GiveMessage(m) /\ UNCHANGED pc
    BY <1>1, <2>1, MailGive
  <2>2. ASSUME mbox.count = Size, wait_info' = [wait_info EXCEPT ![self] = m],
               GoToSleep(put_threadq, timed), UNCHANGED mbox
        PROVE  MailEffect
    BY <1>1, <1>2, <2>2, MailSleeps
  <2>3. ASSUME k' = overdue(k), UNCHANGED <<pc, mbox, wait_info>>
        PROVE  MailEffect
    <3>1. wait_info' = [wait_info EXCEPT ![self] = NoMessage]
      BY <1>3, <2>3
    <3> QED BY <1>1, <1>2, <2>3, <3>1, MailSleeps
  <2> QED BY <1>5, <2>1, <2>2, <2>3 DEF MboxPut
<1> QED BY <1>4, <1>5

\* A wait that runs again ends the call, whatever it was told.
LEMMA MailEnds ==
    ASSUME PlacesOK, MailOK, MboxWoken
    PROVE  MailEffect
<1>1. /\ wait_info' = [wait_info EXCEPT ![self] = NoMessage] /\ mbox' = mbox
      /\ UNCHANGED <<program, semaphoreVars, flagVars, mutexVars, requested>>
      /\ NoMessage \in Contents
  BY DEF MboxWoken, Contents
<1>2. /\ Calling(k) /\ self \in Users /\ self \in Threads
      /\ pc[self].at \in MboxPlaces \cup {"mbox_got"}
  BY Caller DEF MboxWoken, Calling, Users, self, MboxPlaces
<1>3. pc[self].on \in MailQueues
  BY <1>2, MailPlaces DEF MailQueues
<1>4. CASE Killed
  <2>1. k' = exit(k) /\ pc' = [pc EXCEPT ![self] = Ended]
    BY <1>4 DEF Killed, GoOn, Ended
  <2>2. Moved(k, k', {}) /\ Plain(k, k') /\ Awake(k', self)
    BY <1>2, <2>1, ExitMoved DEF self
  <2> QED BY <1>1, <1>2, <1>3, <2>1, <2>2, MailMoved, SpotFacts
<1>5. CASE k' = clear_timer(k, self) /\ Return
  <2>1. Good(k) /\ Waits(k) /\ ~Asleep(k, self)
    BY <1>2 DEF Calling, Awake, self
  <2>2. Continued(k, k', {}) /\ Plain(k, k')
    BY <1>2, <1>5, <2>1, ClearTimerContinued
  <2>3. Moved(k, k', {}) /\ Calling(k') /\ k'.current_thread = self
    BY <1>2, <2>2, ContinuedMoved DEF Continued, Step, self
  <2>4. Awake(k', self) /\ pc' = [pc EXCEPT ![self] = UserCode]
    BY <1>5, <2>3 DEF Return, Calling
  <2> QED BY <1>1, <1>2, <1>3, <2>2, <2>3, <2>4, MailMoved, SpotFacts
<1> QED BY <1>4, <1>5 DEF MboxWoken

\* The calls on the mailbox.
LEMMA MailEffects ==
    ASSUME PlacesOK, MailOK, MailboxCalls
    PROVE  MailEffect
<1>1. CASE MboxTryGet
  <2>1. Calling(k) /\ pc[self] = UserCode
    BY <1>1, Caller DEF MboxTryGet
  <2> QED BY <1>1, <2>1, MailTake DEF MboxTryGet
<1>2. CASE \E m \in Messages : MboxTryPut(m)
  BY <1>2, MailGive DEF MboxTryPut
<1> QED BY <1>1, <1>2, MailBegins, MailEnds DEF MailboxCalls

-----------------------------------------------------------------------------
(* Mutexes and condition variables.                                        *)

\* The mutexes that affect t's priority, if it is at p.
Claims(held, p, t) ==
    {m \in Mutexes : Active(m) /\ (t \in held[m] \/ p \in {At("mutex_lock", m), At("cond_lock", m)})}

\* At p a thread waits for these mutexes, or will.
Wanted(p) == IF p.at \in LockPlaces \cup {"cond_relock"} THEN {p.on}
             ELSE IF p.at \in CondPlaces THEN {MutexOf[p.on]} ELSE {}

\* The count of t agrees with what it holds and waits for.
Settled(kk, held, p, t) ==
    /\ Cardinality(Claims(held, p, t)) <= kk.mutex_count[t]
    /\ "EXITED" \notin kk.state[t] => kk.mutex_count[t] = Cardinality(Claims(held, p, t))
    /\ \A m \in Wanted(p) : t \notin held[m]

\* t has been told that m is free.
Heir(kk, p, t, m) == /\ p \in {At("mutex_lock", m), At("cond_lock", m)}
                     /\ ~Asleep(kk, t) /\ kk.wake_reason[t] = "DONE"

MutexTypes ==
    /\ mutex \in [Mutexes -> [locked : BOOLEAN, owner : Threads \cup {NoThread},
                              ceiling : UserPriorities]]
    /\ holding \in [Mutexes -> SUBSET Users]
    /\ requested \in [Threads -> Priorities]
    /\ MutualExclusion

MutexOK ==
    /\ MutexTypes
    /\ \A t \in Users : Settled(k, holding, pc[t], t)
    /\ \A m \in Mutexes : \/ mutex[m].locked
                          \/ \A t \in Users : k.queue[t] # m
                          \/ \E t \in Users : Heir(k, pc[t], t, m)
    /\ \A t \in Threads : Lawful(k, t, requested[t])
    /\ NoFreeLoans(k)

\* Sets of mutexes can be counted.
LEMMA ClaimsCount ==
    ASSUME NEW held, NEW p, NEW t
    PROVE  /\ IsFiniteSet(Claims(held, p, t)) /\ Cardinality(Claims(held, p, t)) \in Nat
           /\ \A m \in Claims(held, p, t) : Cardinality(Claims(held, p, t)) > 0
<1>1. IsFiniteSet(Mutexes) /\ Claims(held, p, t) \in SUBSET Mutexes
  BY ObjectsAssumption DEF Claims
<1>2. IsFiniteSet(Claims(held, p, t))
  BY <1>1, FS_Subset
<1>3. Cardinality(Claims(held, p, t)) \in Nat
  BY <1>2, FS_CardinalityType
<1>4. Cardinality(Claims(held, p, t)) = 0 <=> Claims(held, p, t) = {}
  BY <1>2, FS_EmptySet
<1> QED BY <1>2, <1>3, <1>4

\* A mutex more is one more, and a mutex less is one less.
LEMMA ClaimsChange ==
    ASSUME NEW held, NEW p, NEW held2, NEW p2, NEW t, NEW m \in Mutexes
    PROVE  LET C  == Claims(held, p, t)
               C2 == Claims(held2, p2, t)
           IN  /\ C2 = C \cup {m} /\ m \notin C => Cardinality(C2) = Cardinality(C) + 1
               /\ C2 = C \ {m} /\ m \in C => Cardinality(C2) = Cardinality(C) - 1
               /\ C2 \subseteq C => Cardinality(C2) <= Cardinality(C)
<1> DEFINE C  == Claims(held, p, t)
           C2 == Claims(held2, p2, t)
<1>1. IsFiniteSet(C)
  BY ClaimsCount
<1> HIDE DEF C, C2
<1>2. ASSUME C2 = C \cup {m}, m \notin C PROVE Cardinality(C2) = Cardinality(C) + 1
  BY <1>1, <1>2, FS_AddElement
<1>3. ASSUME C2 = C \ {m}, m \in C PROVE Cardinality(C2) = Cardinality(C) - 1
  BY <1>1, <1>3, FS_RemoveElement
<1>4. ASSUME C2 \subseteq C PROVE Cardinality(C2) <= Cardinality(C)
  BY <1>1, <1>4, FS_Subset
<1> QED BY <1>2, <1>3, <1>4 DEF C, C2

\* A thread that is not concerned stays settled.
LEMMA StaysSettled ==
    ASSUME NEW t, NEW p, NEW k2, NEW held2, Settled(k, holding, p, t),
           k2.mutex_count[t] = k.mutex_count[t],
           "EXITED" \in k.state[t] => "EXITED" \in k2.state[t],
           \A m \in Mutexes : t \in held2[m] <=> t \in holding[m],
           Wanted(p) \subseteq Mutexes
    PROVE  Settled(k2, held2, p, t)
<1>1. Claims(held2, p, t) = Claims(holding, p, t)
  BY DEF Claims
<1> QED BY <1>1 DEF Settled

\* What threads want are mutexes.
LEMMA WantedMutexes ==
    ASSUME PlacesOK, NEW t \in Users
    PROVE  Wanted(pc[t]) \subseteq Mutexes
<1>1. IsWait(pc[t]) \/ IsFree(pc[t])
  BY DEF PlacesOK, ThreadOK
<1>2. CASE pc[t].at \in LockPlaces \cup {"cond_relock"}
  <2>1. pc[t].on \in Mutexes
    BY <1>1, <1>2 DEF IsWait, IsFree, LockPlaces, CondPlaces, SemPlaces, FlagPlaces,
                      MboxPlaces, UserCode, Ended, At
  <2> QED BY <1>2, <2>1 DEF Wanted
<1>3. CASE pc[t].at \in CondPlaces
  <2>1. pc[t].on \in Conds
    BY <1>1, <1>3 DEF IsWait, IsFree, LockPlaces, CondPlaces, SemPlaces, FlagPlaces,
                      MboxPlaces, UserCode, Ended, At
  <2> QED BY <1>3, <2>1, MutexAssumption DEF Wanted, CondPlaces, LockPlaces
<1> QED BY <1>2, <1>3 DEF Wanted

\* An heir that does nothing in a step is an heir after it.
LEMMA HeirStays ==
    ASSUME PlacesOK, NEW t \in Users, NEW D, Bystands(t, D), NEW m \in Mutexes,
           Heir(k, pc[t], t, m)
    PROVE  Heir(k', pc'[t], t, m)
<1>1. ThreadOK(k, pc[t], t) /\ Waits(k) /\ t \in Threads
  BY DEF PlacesOK, Users
<1>2. k.queue[t] = NoQueue
  BY <1>1 DEF Heir, Waits
<1>3. IsWait(pc[t])
  BY DEF Heir, IsWait, At, LockPlaces
<1>4. GoesOn(k, k', t)
  BY <1>1, <1>2, <1>3 DEF ThreadOK, Bystands, Ends
<1> QED BY <1>4 DEF Heir, GoesOn, Bystands

\* What a step has to show of the mutexes, so that all stays well.
LEMMA MutexFrame ==
    ASSUME PlacesOK, MutexOK, NEW S, NEW D, Calls(S, D), Kept(k, k'), UNCHANGED requested,
           MutexTypes',
           \A t \in Users :
             \/ /\ Bystands(t, D) /\ k'.mutex_count[t] = k.mutex_count[t]
                /\ \A m \in Mutexes : t \in holding'[m] <=> t \in holding[m]
             \/ Settled(k', holding', pc'[t], t),
           \A m \in Mutexes :
             \/ mutex'[m].locked
             \/ \A t \in Users : k'.queue[t] # m
             \/ \E t \in Users : Heir(k', pc'[t], t, m)
             \/ /\ ~mutex[m].locked
                /\ \A t \in Users : Bystands(t, D) \/ (k'.queue[t] # m /\ ~Heir(k, pc[t], t, m))
    PROVE  MutexOK'
<1>1. ASSUME NEW t \in Users PROVE Settled(k', holding', pc'[t], t)
  <2>1. CASE /\ Bystands(t, D) /\ k'.mutex_count[t] = k.mutex_count[t]
             /\ \A m \in Mutexes : t \in holding'[m] <=> t \in holding[m]
    <3>1. Settled(k, holding, pc[t], t) /\ Wanted(pc[t]) \subseteq Mutexes /\ pc'[t] = pc[t]
      BY <2>1, WantedMutexes DEF MutexOK, Bystands
    <3>2. "EXITED" \in k.state[t] => "EXITED" \in k'.state[t]
      BY DEF Calls, Stays, Users
    <3> QED BY <2>1, <3>1, <3>2, StaysSettled
  <2> QED BY <2>1
<1>2. ASSUME NEW m \in Mutexes
      PROVE  \/ mutex'[m].locked
             \/ \A t \in Users : k'.queue[t] # m
             \/ \E t \in Users : Heir(k', pc'[t], t, m)
  <2>1. CASE /\ ~mutex[m].locked
             /\ \A t \in Users : Bystands(t, D) \/ (k'.queue[t] # m /\ ~Heir(k, pc[t], t, m))
    <3>1. CASE \A t \in Users : k.queue[t] # m
      <4>1. \A t \in Users : Bystands(t, D) => k'.queue[t] \in {k.queue[t], NoQueue}
        BY DEF Bystands, GoesOn, Ends
      <4>2. m # NoQueue
        BY MutexAssumption, QueueAssumption
      <4> QED BY <2>1, <3>1, <4>1, <4>2
    <3>2. CASE \E t \in Users : Heir(k, pc[t], t, m)
      <4>1. PICK t \in Users : Heir(k, pc[t], t, m)
        BY <3>2
      <4> QED BY <2>1, <4>1, HeirStays
    <3> QED BY <2>1, <3>1, <3>2 DEF MutexOK
  <2> QED BY <2>1
<1>3. \A t \in Threads : Lawful(k', t, requested'[t])
  BY DEF MutexOK, Kept, Law
<1>4. NoFreeLoans(k')
  BY DEF MutexOK, Kept
<1> QED BY <1>1, <1>2, <1>3, <1>4 DEF MutexOK

\* A thread that holds a mutex, or waits for one, has counted it.
LEMMA HolderCounts ==
    ASSUME MutexOK, Good(k), NEW t \in Users, NEW m \in Mutexes, Active(m),
           t \in holding[m] \/ pc[t] \in {At("mutex_lock", m), At("cond_lock", m)}
    PROVE  k.mutex_count[t] > 0
<1>1. m \in Claims(holding, pc[t], t)
  BY DEF Claims
<1>2. Cardinality(Claims(holding, pc[t], t)) > 0 /\ Cardinality(Claims(holding, pc[t], t)) \in Nat
  BY <1>1, ClaimsCount
<1>3. Cardinality(Claims(holding, pc[t], t)) <= k.mutex_count[t]
  BY DEF MutexOK, Settled
<1>4. k.mutex_count[t] \in Nat
  BY FieldTypes DEF Users
<1> QED BY <1>2, <1>3, <1>4

\* The owner of a locked mutex is its holder, and a free mutex has none.
LEMMA Owner ==
    ASSUME MutexOK, NEW m \in Mutexes
    PROVE  /\ mutex[m].locked => mutex[m].owner \in Users /\ holding[m] = {mutex[m].owner}
           /\ ~mutex[m].locked => holding[m] = {}
           /\ mutex[m].ceiling \in Priorities
<1>1. holding[m] = IF mutex[m].locked THEN {mutex[m].owner} ELSE {}
  BY DEF MutexOK, MutexTypes, MutualExclusion
<1>2. holding[m] \subseteq Users
  BY DEF MutexOK, MutexTypes
<1>3. mutex[m].ceiling \in Priorities
  <2>1. mutex[m].ceiling \in UserPriorities
    BY DEF MutexOK, MutexTypes
  <2> QED BY <2>1, PriorityAssumption DEF UserPriorities, Priorities
<1> QED BY <1>1, <1>2, <1>3

\* Who waits in the queue of a mutex is in a call that locks it.
LEMMA MutexWaiters ==
    ASSUME PlacesOK, NEW t \in Users, NEW m \in Mutexes, k.queue[t] = m
    PROVE  pc[t] \in {At("mutex_lock", m), At("cond_lock", m)}
<1>1. IsWait(pc[t]) /\ pc[t].on = m /\ pc[t] \in Spot
  BY MutexAssumption, QueueAssumption DEF PlacesOK, ThreadOK, Users
<1>2. pc[t].at \in LockPlaces
  BY <1>1, ObjectsAssumption, MutexAssumption DEF IsWait
<1> QED BY <1>1, <1>2 DEF LockPlaces, At, Spot

\* The calls on other objects do not concern mutexes, but set_priority()
\* changes what was asked for.
LEMMA MutexOthers ==
    ASSUME PlacesOK, MutexOK, NEW S \in SUBSET WaitQueues, NEW D, Calls(S, D),
           (Mutexes \cup Conds) \cap S = {}, UNCHANGED mutexVars,
           \/ Plain(k, k') /\ UNCHANGED requested
           \/ \E t \in Users, pri \in UserPriorities :
                k' = set_priority(k, t, pri) /\ requested' = [requested EXCEPT ![t] = pri]
    PROVE  MutexOK'
<1>1. UNCHANGED <<mutex, holding>>
  BY DEF mutexVars
<1>2. /\ k'.mutex_count = k.mutex_count /\ requested' \in [Threads -> Priorities]
      /\ \A t \in Threads : Lawful(k', t, requested'[t])
      /\ NoFreeLoans(k')
  <2>0. /\ requested \in [Threads -> Priorities] /\ Good(k) /\ Waits(k)
        /\ \A t \in Threads : Lawful(k, t, requested[t])
        /\ NoFreeLoans(k)
    BY DEF MutexOK, MutexTypes, PlacesOK
  <2>1. CASE Plain(k, k') /\ UNCHANGED requested
    <3>1. Kept(k, k') /\ k'.mutex_count = k.mutex_count
      BY <2>1, PlainKept DEF Plain
    <3> QED BY <2>0, <2>1, <3>1 DEF Kept, Law
  <2>2. ASSUME NEW t \in Users, NEW pri \in UserPriorities,
               k' = set_priority(k, t, pri), requested' = [requested EXCEPT ![t] = pri]
        PROVE  /\ k'.mutex_count = k.mutex_count /\ requested' \in [Threads -> Priorities]
               /\ \A u \in Threads : Lawful(k', u, requested'[u])
               /\ NoFreeLoans(k')
    <3>1. t \in Threads /\ pri \in Priorities
      BY PriorityAssumption DEF Users, UserPriorities, Priorities
    <3>2. /\ k'.mutex_count = k.mutex_count
          /\ NoFreeLoans(k) => NoFreeLoans(k')
          /\ \A u \in Threads : \A req :
               Lawful(k, u, req) => Lawful(k', u, IF u = t THEN pri ELSE req)
      BY <2>0, <2>2, <3>1, SetPriorityLaw
    <3>3. \A u \in Threads : requested'[u] = IF u = t THEN pri ELSE requested[u]
      BY <2>0, <2>2
    <3> QED BY <2>0, <2>2, <3>1, <3>2, <3>3
  <2> QED BY <2>1, <2>2
<1>3. MutexTypes'
  BY <1>1, <1>2 DEF MutexOK, MutexTypes, MutualExclusion
<1>4. ASSUME NEW t \in Users
      PROVE  /\ Settled(k', holding', pc'[t], t)
             /\ \A m \in Mutexes : Heir(k, pc[t], t, m) => Heir(k', pc'[t], t, m)
             /\ \A m \in Mutexes : k'.queue[t] = m => k.queue[t] = m
  <2>1. Settled(k, holding, pc[t], t) /\ ThreadOK(k, pc[t], t) /\ pc[t] \in Spot
    BY DEF MutexOK, PlacesOK, Users
  <2>2. "EXITED" \in k.state[t] => "EXITED" \in k'.state[t]
    BY DEF Calls, Stays, Users
  <2>3. \A m \in Mutexes : m # NoQueue
    BY MutexAssumption, QueueAssumption
  <2>4. CASE Bystands(t, D)
    <3>1. Settled(k', holding', pc'[t], t)
      BY <1>1, <1>2, <2>1, <2>2, <2>4, WantedMutexes, StaysSettled DEF Bystands
    <3>2. \A m \in Mutexes : k'.queue[t] = m => k.queue[t] = m
      BY <2>3, <2>4 DEF Bystands, GoesOn, Ends
    <3> QED BY <2>4, <3>1, <3>2, HeirStays
  <2>5. CASE t = self /\ Acts(S)
    <3>1. /\ pc[t] = UserCode \/ pc[t].on \notin Mutexes \cup Conds
          /\ pc'[t] \in {UserCode, Ended} \/ pc'[t].on \notin Mutexes \cup Conds
      BY <2>5 DEF Acts
    <3>2. Wanted(pc[t]) = {} /\ Wanted(pc'[t]) = {}
      <4>1. \A p : /\ IsWait(p) \/ IsFree(p)
                   /\ p \in {UserCode, Ended} \/ p.on \notin Mutexes \cup Conds
                   => Wanted(p) = {}
        BY DEF IsWait, IsFree, Wanted, LockPlaces, CondPlaces, SemPlaces, FlagPlaces,
               MboxPlaces, UserCode, Ended, At
      <4>2. IsWait(pc'[t]) \/ IsFree(pc'[t])
        BY <2>5 DEF Acts
      <4>3. IsWait(pc[t]) \/ IsFree(pc[t])
        BY <2>1 DEF ThreadOK
      <4> QED BY <3>1, <4>1, <4>2, <4>3
    <3>3. \A m \in Mutexes : /\ pc[t] \notin {At("mutex_lock", m), At("cond_lock", m)}
                             /\ pc'[t] \notin {At("mutex_lock", m), At("cond_lock", m)}
      BY <3>1 DEF UserCode, Ended, At
    <3>4. Claims(holding', pc'[t], t) = Claims(holding, pc[t], t)
      BY <1>1, <3>3 DEF Claims
    <3>5. Settled(k', holding', pc'[t], t)
      BY <1>2, <2>1, <2>2, <3>2, <3>4 DEF Settled
    <3>6. \A m \in Mutexes : k'.queue[t] # m
      <4>1. k'.queue[t] = NoQueue \/ (IsWait(pc'[t]) /\ k'.queue[t] = pc'[t].on)
        BY <2>5 DEF Acts, Awake
      <4>2. IsWait(pc'[t]) => pc'[t] \notin {UserCode, Ended}
        BY DEF IsWait, UserCode, Ended, At, SemPlaces, FlagPlaces, MboxPlaces,
               LockPlaces, CondPlaces
      <4> QED BY <2>3, <3>1, <4>1, <4>2
    <3> QED BY <3>3, <3>5, <3>6 DEF Heir
  <2> QED BY <2>4, <2>5 DEF Calls
<1>5. ASSUME NEW m \in Mutexes
      PROVE  \/ mutex'[m].locked
             \/ \A t \in Users : k'.queue[t] # m
             \/ \E t \in Users : Heir(k', pc'[t], t, m)
  BY <1>1, <1>4 DEF MutexOK
<1> QED BY <1>2, <1>3, <1>4, <1>5 DEF MutexOK

MutexQueues == Mutexes \cup Conds

\* The effect of a call on a mutex or a condition variable.
MutexEffect ==
    /\ \E D : Calls(MutexQueues, D)
    /\ UNCHANGED <<program, semaphoreVars, flagVars, mailboxVars, requested>>
    /\ MutexOK'

LockingPlaces(m) == {At("mutex_lock", m), At("cond_lock", m)}

\* Counted as it is when the thread locks m, or goes on waiting for m.
CountedFor(kk, m) ==
    kk.mutex_count = IF pc[self] \in LockingPlaces(m) THEN k.mutex_count ELSE more(k, self, m)

\* What the thread that locks m, or waits for m, has counted is what counts.
LEMMA LockSettles ==
    ASSUME PlacesOK, MutexOK, self \in Users, NEW m \in Mutexes, NEW held2, NEW p2,
           pc[self] = UserCode \/ pc[self].on = m, self \notin holding[m],
           CountedFor(k', m), Stays(k, k'),
           \A mm \in Mutexes : mm # m => (self \in held2[mm] <=> self \in holding[mm]),
           \/ self \in held2[m] /\ p2 = UserCode
           \/ self \notin held2[m] /\ p2 \in LockingPlaces(m)
    PROVE  Settled(k', held2, p2, self)
<1> DEFINE C  == Claims(holding, pc[self], self)
           C2 == Claims(held2, p2, self)
<1>1. Settled(k, holding, pc[self], self) /\ self \in Threads
      /\ k.mutex_count \in [Threads -> Nat]
  BY FieldTypes DEF MutexOK, PlacesOK, Users
<1>2. \A mm \in Mutexes : mm # m => /\ pc[self] \notin LockingPlaces(mm)
                                    /\ p2 \notin LockingPlaces(mm)
  BY DEF LockingPlaces, UserCode, At
<1>3. \A mm \in Mutexes : mm # m => (mm \in C2 <=> mm \in C)
  BY <1>2 DEF Claims, LockingPlaces
<1>4. (m \in C2 <=> Active(m)) /\ (m \in C <=> Active(m) /\ pc[self] \in LockingPlaces(m))
  BY DEF Claims, LockingPlaces
<1>5. C \subseteq Mutexes /\ C2 \subseteq Mutexes
  BY DEF Claims
<1>6. Cardinality(C) \in Nat
  BY ClaimsCount
<1>7. \A mm \in Wanted(p2) : self \notin held2[mm]
  <2>1. p2 = UserCode => Wanted(p2) = {}
    BY DEF Wanted, UserCode, At, LockPlaces, CondPlaces
  <2>2. p2 \in LockingPlaces(m) => Wanted(p2) = {m}
    BY DEF Wanted, LockingPlaces, At, LockPlaces
  <2> QED BY <2>1, <2>2
<1>8. "EXITED" \notin k'.state[self] => "EXITED" \notin k.state[self]
  BY <1>1 DEF Stays
<1>9. CASE Active(m) /\ pc[self] \notin LockingPlaces(m)
  <2>1. C2 = C \cup {m} /\ m \notin C
    BY <1>3, <1>4, <1>5, <1>9
  <2>2. Cardinality(C2) = Cardinality(C) + 1
    BY <2>1, ClaimsChange
  <2>3. k'.mutex_count[self] = k.mutex_count[self] + 1
    BY <1>1, <1>9 DEF CountedFor, more
  <2> HIDE DEF C, C2
  <2>4. k.mutex_count[self] \in Nat
    BY <1>1
  <2>5. /\ Cardinality(C) <= k.mutex_count[self]
        /\ "EXITED" \notin k.state[self] => k.mutex_count[self] = Cardinality(C)
    BY <1>1 DEF Settled, C
  <2>6. /\ Cardinality(C2) <= k'.mutex_count[self]
        /\ "EXITED" \notin k'.state[self] => k'.mutex_count[self] = Cardinality(C2)
    BY <1>6, <1>8, <2>2, <2>3, <2>4, <2>5
  <2> QED BY <1>7, <2>6 DEF Settled, C2
<1>10. CASE ~Active(m) \/ pc[self] \in LockingPlaces(m)
  <2>1. C2 = C
    BY <1>3, <1>4, <1>5, <1>10
  <2>2. k'.mutex_count = k.mutex_count
    BY <1>10 DEF CountedFor, more
  <2> QED BY <1>1, <1>7, <1>8, <2>1, <2>2 DEF Settled
<1> QED BY <1>9, <1>10

\* A turn of the loop in lock(): the thread has the mutex, or waits for it.
LEMMA Locks ==
    ASSUME PlacesOK, MutexOK, Calling(k), NEW m \in Mutexes, NEW kk, Calling(kk),
           NEW place \in {"mutex_lock", "cond_lock"},
           kk.current_thread = self, Moved(k, kk, {}), Kept(k, kk), CountedFor(kk, m),
           LockIfFree(m, kk, place), pc[self] = UserCode \/ pc[self].on = m,
           self \notin holding[m],
           UNCHANGED <<program, semaphoreVars, flagVars, mailboxVars, requested>>
    PROVE  MutexEffect
<1>1. /\ self \in Users /\ self \in Threads /\ m \in MutexQueues /\ m \in WaitQueues
      /\ m # NoQueue
      /\ pc[self] = UserCode \/ pc[self].on \in MutexQueues
      /\ k.mutex_count \in [Threads -> Nat]
  <2>1. Good(k)
    BY DEF Calling
  <2> QED BY <2>1, FieldTypes, MutexAssumption, QueueAssumption DEF Calling, Users, self, MutexQueues
<1>2. \A mm \in Mutexes : mm # m => pc[self] \notin {At("mutex_lock", mm), At("cond_lock", mm)}
  BY DEF UserCode, At
<1>3. \A t \in Users : /\ t # self => kk.mutex_count[t] = k.mutex_count[t]
                       /\ kk.mutex_count[t] >= k.mutex_count[t]
  BY <1>1 DEF CountedFor, more, Users
<1>5. CASE ~mutex[m].locked /\ TakeMutex(m) /\ k' = kk /\ Return
  <2>1. pc' = [pc EXCEPT ![self] = UserCode] /\ IsFree(UserCode) /\ UserCode \in Spot
    BY <1>5, SpotFacts DEF Return, IsFree
  <2>2. Awake(k', self)
    BY <1>5 DEF Calling
  <2>3. Calls(MutexQueues, {})
    BY <1>1, <1>5, <2>1, <2>2, MovedCalls
  <2>4. /\ mutex' = [mutex EXCEPT ![m] = [mutex[m] EXCEPT !.locked = TRUE, !.owner = self]]
        /\ holding' = [holding EXCEPT ![m] = {self}]
    BY <1>5, Owner DEF TakeMutex
  <2>5. /\ mutex'[m].locked /\ mutex'[m].owner = self /\ holding'[m] = {self}
        /\ \A mm \in Mutexes : mm # m => mutex'[mm] = mutex[mm] /\ holding'[mm] = holding[mm]
    BY <2>4 DEF MutexOK, MutexTypes
  <2>6. MutexTypes'
    <3>1. mutex' \in [Mutexes -> [locked : BOOLEAN, owner : Threads \cup {NoThread},
                                  ceiling : UserPriorities]]
      BY <1>1, <2>4 DEF MutexOK, MutexTypes
    <3>2. holding' \in [Mutexes -> SUBSET Users]
      BY <1>1, <2>4 DEF MutexOK, MutexTypes
    <3>3. MutualExclusion'
      BY <2>5 DEF MutexOK, MutexTypes, MutualExclusion
    <3> QED BY <3>1, <3>2, <3>3 DEF MutexOK, MutexTypes
  <2>7. holding[m] = {}
    BY <1>5, Owner
  <2>8. pc'[self] = UserCode
    BY <1>1, <2>1 DEF PlacesOK
  <2>9. Settled(k', holding', pc'[self], self)
    <3>1. Stays(k, k') /\ CountedFor(k', m)
      BY <1>5 DEF Moved, Step
    <3> QED BY <1>1, <2>5, <2>8, <3>1, LockSettles
  <2>10. ASSUME NEW t \in Users
         PROVE  \/ /\ Bystands(t, {}) /\ k'.mutex_count[t] = k.mutex_count[t]
                   /\ \A mm \in Mutexes : t \in holding'[mm] <=> t \in holding[mm]
                \/ Settled(k', holding', pc'[t], t)
    BY <1>3, <1>5, <2>3, <2>5, <2>7, <2>9 DEF Calls
  <2>11. ASSUME NEW mm \in Mutexes, mm # m, ~mutex'[mm].locked
         PROVE  /\ ~mutex[mm].locked
                /\ \A t \in Users : Bystands(t, {}) \/ (k'.queue[t] # mm /\ ~Heir(k, pc[t], t, mm))
    <3>1. mm # NoQueue
      BY MutexAssumption, QueueAssumption
    <3> QED BY <1>2, <2>2, <2>3, <2>5, <2>11, <3>1 DEF Calls, Awake, Heir
  <2>12. MutexOK'
    BY <1>5, <2>3, <2>5, <2>6, <2>10, <2>11, MutexFrame
  <2> QED BY <2>3, <2>12 DEF MutexEffect
<1>6. ASSUME mutex[m].locked,
             k' = (IF Inherits(m)
                   THEN set_inherited_priority(block(kk, m, "WAIT"), mutex[m].owner,
                                               block(kk, m, "WAIT").priority[self])
                   ELSE block(kk, m, "WAIT")),
             GoOn(place, m), UNCHANGED <<mutex, holding>>
      PROVE  MutexEffect
  <2> DEFINE p == At(place, m)
  <2>1. mutex[m].owner \in Users /\ mutex[m].owner \in holding[m]
    BY <1>6, Owner
  <2>2. Active(m) => kk.mutex_count[mutex[m].owner] > 0
    <3>1. Active(m) => k.mutex_count[mutex[m].owner] > 0
      BY <2>1, HolderCounts DEF PlacesOK
    <3>2. kk.mutex_count[mutex[m].owner] >= k.mutex_count[mutex[m].owner]
      BY <1>3, <2>1
    <3>3. k.mutex_count[mutex[m].owner] \in Nat
      BY <1>1, <2>1 DEF Users
    <3>4. kk.mutex_count[mutex[m].owner] \in Nat
      BY <2>1, FieldTypes DEF Calling, Users
    <3> QED BY <3>1, <3>2, <3>3, <3>4
  <2>3. /\ Moved(kk, k', {}) /\ Kept(kk, k') /\ k'.mutex_count = kk.mutex_count
        /\ k'.queue[self] = m
    BY <1>6, <2>1, <2>2, LockBlocks
  <2>4. Moved(k, k', {}) /\ Kept(k, k')
    BY <2>3, MovedTransitive, KeptTransitive
  <2>5. /\ p \in Spot /\ IsWait(p) /\ p.at \notin TimedPlaces /\ p.on = m
        /\ p \in LockingPlaces(m)
    <3>1. place \in Places
      BY DEF Places
    <3>2. p \in Spot
      BY <1>1, <3>1, SpotFacts
    <3> QED BY <3>2 DEF At, IsWait, LockPlaces, TimedPlaces, LockingPlaces
  <2>6. pc' = [pc EXCEPT ![self] = p]
    BY <1>6 DEF GoOn
  <2> HIDE DEF p
  <2>7. Calls(MutexQueues, {})
    BY <1>1, <2>3, <2>4, <2>5, <2>6, MovedCalls
  <2>8. pc'[self] = p
    BY <1>1, <2>6 DEF PlacesOK
  <2>9. MutexTypes'
    BY <1>6 DEF MutexOK, MutexTypes, MutualExclusion
  <2>10. Settled(k', holding', pc'[self], self)
    <3>1. Stays(k, k') /\ CountedFor(k', m)
      BY <2>3, <2>4 DEF Moved, Step, CountedFor
    <3> QED BY <1>1, <1>6, <2>5, <2>8, <3>1, LockSettles
  <2>11. ASSUME NEW t \in Users
         PROVE  \/ /\ Bystands(t, {}) /\ k'.mutex_count[t] = k.mutex_count[t]
                   /\ \A mm \in Mutexes : t \in holding'[mm] <=> t \in holding[mm]
                \/ Settled(k', holding', pc'[t], t)
    BY <1>3, <1>6, <2>3, <2>7, <2>10 DEF Calls
  <2>12. ASSUME NEW mm \in Mutexes, ~mutex'[mm].locked
         PROVE  /\ ~mutex[mm].locked
                /\ \A t \in Users : Bystands(t, {}) \/ (k'.queue[t] # mm /\ ~Heir(k, pc[t], t, mm))
    BY <1>2, <1>6, <2>3, <2>7, <2>12 DEF Calls, Heir
  <2>13. MutexOK'
    BY <2>4, <2>7, <2>9, <2>11, <2>12, MutexFrame
  <2> QED BY <2>7, <2>13 DEF MutexEffect
<1> QED BY <1>5, <1>6 DEF LockIfFree

\* A mutex is counted before the thread tries to lock it.
LEMMA CountedLock ==
    ASSUME PlacesOK, MutexOK, Calling(k), NEW m \in Mutexes
    PROVE  LET kk == count_mutex(k, self, m)
           IN  /\ Calling(kk) /\ kk.current_thread = self /\ Moved(k, kk, {})
               /\ Kept(k, kk) /\ kk.mutex_count = more(k, self, m)
<1> DEFINE kk == count_mutex(k, self, m)
<1>1. /\ Good(k) /\ Waits(k) /\ Lists(k) /\ self \in Users /\ QueuedSleeps(k, self)
      /\ mutex[m].ceiling \in Priorities
  BY Owner DEF Calling, Waits, QueuedSleeps, Awake, self
<1>2. Ranked(k, kk) /\ Kept(k, kk) /\ kk.mutex_count = more(k, self, m)
  BY <1>1, CountFields
<1> HIDE DEF kk
<1>3. Continued(k, kk, {})
  BY <1>1, <1>2, RankedContinued
<1>4. Moved(k, kk, {}) /\ Calling(kk) /\ kk.current_thread = self
  BY <1>3, ContinuedMoved DEF Continued, Step, self
<1> QED BY <1>2, <1>4 DEF kk

\* lock(), the lock after a wait on a condition variable, and trylock().
LEMMA MutexBegins ==
    ASSUME PlacesOK, MutexOK, NEW m \in Mutexes,
           MutexLock(m) \/ CondRelock(m) \/ MutexTryLock(m)
    PROVE  MutexEffect
<1> DEFINE kk == count_mutex(k, self, m)
<1>1. /\ Calling(k) /\ self \in Users /\ self \in Threads /\ pc[self] \in Spot
      /\ pc[self] = UserCode \/ (pc[self].at = "cond_relock" /\ pc[self].on = m)
      /\ pc[self] = UserCode => ~CondRelock(m)
      /\ UNCHANGED <<program, semaphoreVars, flagVars, mailboxVars, requested>>
  <2>1. Calling(k) /\ (pc[self] = UserCode \/ (pc[self].at = "cond_relock" /\ pc[self].on = m))
    BY Caller DEF MutexLock, CondRelock, MutexTryLock
  <2>2. UserCode.at # "cond_relock"
    BY DEF UserCode, At
  <2> QED BY <2>1, <2>2 DEF MutexLock, CondRelock, MutexTryLock, Continues, Calling, Users,
                            self, PlacesOK
<1>2. /\ Calling(kk) /\ kk.current_thread = self /\ Moved(k, kk, {})
      /\ Kept(k, kk) /\ kk.mutex_count = more(k, self, m)
  BY <1>1, CountedLock
<1>3. pc[self] \notin LockingPlaces(m)
  BY <1>1 DEF LockingPlaces, UserCode, At
<1>4. CountedFor(kk, m)
  BY <1>2, <1>3 DEF CountedFor
<1>5. self \notin holding[m]
  <2>1. CASE MutexLock(m)
    BY <2>1 DEF MutexLock
  <2>2. CASE CondRelock(m)
    <3>1. pc[self].at = "cond_relock" /\ pc[self].on = m
      BY <1>1, <2>2
    <3>2. Settled(k, holding, pc[self], self)
      BY <1>1 DEF MutexOK
    <3> QED BY <3>1, <3>2 DEF Settled, Wanted
  <2>3. CASE MutexTryLock(m)
    BY <2>3, Owner DEF MutexTryLock
  <2> QED BY <2>1, <2>2, <2>3
<1>6. LockIfFree(m, kk, "mutex_lock") \/ LockIfFree(m, kk, "cond_lock")
  <2>1. CASE MutexTryLock(m)
    <3>1. pc[self] = UserCode /\ pc' = pc /\ pc = [t \in Threads |-> pc[t]]
      BY <2>1, Caller DEF MutexTryLock, PlacesOK
    <3>2. Return
      BY <3>1 DEF Return
    <3> QED BY <2>1, <3>2 DEF MutexTryLock, LockIfFree
  <2> QED BY <2>1 DEF MutexLock, CondRelock
<1>7. pc[self] = UserCode \/ pc[self].on = m
  BY <1>1
<1> HIDE DEF kk
<1> QED BY <1>1, <1>2, <1>4, <1>5, <1>6, <1>7, Locks

\* The current thread goes on to a place where it does not sleep, and no
\* mutex changes hands.
LEMMA MutexMoves ==
    ASSUME PlacesOK, MutexOK, Calling(k), Moved(k, k', {}), Kept(k, k'),
           UNCHANGED <<program, semaphoreVars, flagVars, mailboxVars, mutexVars, requested>>,
           NEW p \in Spot, IsFree(p), pc' = [pc EXCEPT ![self] = p],
           pc[self] = UserCode \/ pc[self].on \in MutexQueues,
           p \in {UserCode, Ended} \/ p.on \in MutexQueues,
           Awake(k', self), Settled(k', holding, p, self),
           \A t \in Users \ {self} : k'.mutex_count[t] = k.mutex_count[t],
           \A m \in Mutexes : ~Heir(k, pc[self], self, m)
    PROVE  MutexEffect
<1>1. self \in Users /\ self \in Threads /\ UNCHANGED <<mutex, holding>>
  BY DEF Calling, Users, self, mutexVars
<1>2. Calls(MutexQueues, {})
  BY MovedCalls
<1>3. pc'[self] = p
  BY <1>1 DEF PlacesOK
<1>4. MutexTypes'
  BY <1>1 DEF MutexOK, MutexTypes, MutualExclusion
<1>5. \A m \in Mutexes : m # NoQueue
  BY MutexAssumption, QueueAssumption
<1>6. ASSUME NEW t \in Users
      PROVE  \/ /\ Bystands(t, {}) /\ k'.mutex_count[t] = k.mutex_count[t]
                /\ \A m \in Mutexes : t \in holding'[m] <=> t \in holding[m]
             \/ Settled(k', holding', pc'[t], t)
  BY <1>1, <1>2, <1>3 DEF Calls
<1>7. ASSUME NEW m \in Mutexes, ~mutex'[m].locked
      PROVE  /\ ~mutex[m].locked
             /\ \A t \in Users : Bystands(t, {}) \/ (k'.queue[t] # m /\ ~Heir(k, pc[t], t, m))
  BY <1>1, <1>2, <1>5, <1>7 DEF Calls, Awake
<1>8. MutexOK'
  BY <1>2, <1>4, <1>6, <1>7, MutexFrame
<1> QED BY <1>2, <1>8 DEF MutexEffect

\* The count of a thread that has nothing more than before.
LEMMA StillSettled ==
    ASSUME MutexOK, NEW t \in Users, NEW p, NEW kk, Stays(k, kk), PlacesOK,
           kk.mutex_count[t] = k.mutex_count[t],
           \A m \in Mutexes : pc[t] \notin LockingPlaces(m) /\ p \notin LockingPlaces(m),
           \A m \in Wanted(p) : t \notin holding[m]
    PROVE  Settled(kk, holding, p, t)
<1>1. Claims(holding, p, t) = Claims(holding, pc[t], t)
  BY DEF Claims, LockingPlaces
<1>2. Settled(k, holding, pc[t], t)
  BY DEF MutexOK
<1>3. "EXITED" \in k.state[t] => "EXITED" \in kk.state[t]
  BY DEF Stays, Users
<1> QED BY <1>1, <1>2, <1>3 DEF Settled

\* A thread that dies has what it holds, and nothing more matters.
LEMMA MutexDies ==
    ASSUME PlacesOK, MutexOK, Calling(k), Killed, pc[self].on \in MutexQueues,
           UNCHANGED <<program, semaphoreVars, flagVars, mailboxVars, mutexVars, requested>>
    PROVE  MutexEffect
<1>1. k' = exit(k) /\ pc' = [pc EXCEPT ![self] = Ended] /\ k.wake_reason[self] = "EXIT"
  BY DEF Killed, GoOn, Ended, wake_reason
<1>2. /\ Moved(k, k', {}) /\ Plain(k, k') /\ Awake(k', self) /\ "EXITED" \in k'.state[self]
      /\ self \in Users
  BY <1>1, ExitMoved DEF self, Calling
<1>3. k'.mutex_count = k.mutex_count /\ Kept(k, k')
  BY <1>2, PlainKept DEF Plain
<1>4. Settled(k', holding, Ended, self)
  <2>1. Claims(holding, Ended, self) \subseteq Claims(holding, pc[self], self)
    BY DEF Claims, Ended, At
  <2>2. Cardinality(Claims(holding, Ended, self)) <= Cardinality(Claims(holding, pc[self], self))
    <3>1. IsFiniteSet(Claims(holding, pc[self], self))
      BY ClaimsCount
    <3> QED BY <2>1, <3>1, FS_Subset
  <2>3. Cardinality(Claims(holding, pc[self], self)) <= k.mutex_count[self]
    BY <1>2 DEF MutexOK, Settled
  <2>4. Wanted(Ended) = {}
    BY DEF Wanted, Ended, At, LockPlaces, CondPlaces
  <2>5. /\ k.mutex_count[self] \in Nat
        /\ Cardinality(Claims(holding, pc[self], self)) \in Nat
        /\ Cardinality(Claims(holding, Ended, self)) \in Nat
    BY <1>2, ClaimsCount, FieldTypes DEF Calling, Users
  <2> QED BY <1>2, <1>3, <2>2, <2>3, <2>4, <2>5 DEF Settled
<1>5. \A m \in Mutexes : ~Heir(k, pc[self], self, m)
  BY <1>1 DEF Heir
<1>6. IsFree(Ended)
  BY DEF IsFree
<1> QED BY <1>1, <1>2, <1>3, <1>4, <1>5, <1>6, SpotFacts, MutexMoves

\* A thread that waits for a mutex runs again: it dies, gives up, or tries
\* again.
LEMMA MutexRuns ==
    ASSUME PlacesOK, MutexOK, NEW m \in Mutexes, MutexWoken(m)
    PROVE  MutexEffect
<1>1. /\ Calling(k) /\ self \in Users /\ self \in Threads /\ pc[self] \in Spot
      /\ pc[self].at \in LockPlaces /\ pc[self].on = m
      /\ UNCHANGED <<program, semaphoreVars, flagVars, mailboxVars, requested>>
  BY Caller DEF MutexWoken, Calling, Users, self, LockPlaces
<1>2. /\ pc[self] \in LockingPlaces(m) /\ pc[self].on \in MutexQueues
      /\ \A mm \in Mutexes : mm # m => pc[self] \notin LockingPlaces(mm)
  BY <1>1 DEF Spot, LockingPlaces, LockPlaces, At, MutexQueues
<1>3. Settled(k, holding, pc[self], self) /\ self \notin holding[m]
  <2>1. Settled(k, holding, pc[self], self)
    BY <1>1 DEF MutexOK
  <2> QED BY <1>1, <2>1 DEF Settled, Wanted
<1>4. CASE Killed /\ UNCHANGED <<mutex, holding>>
  BY <1>1, <1>2, <1>4, MutexDies DEF mutexVars
<1>5. ASSUME wake_reason = "BREAK", k' = uncount_mutex(k, self, m),
             IF pc[self].at = "mutex_lock" THEN Return ELSE GoOn("cond_relock", m),
             UNCHANGED <<mutex, holding>>
      PROVE  MutexEffect
  <2> DEFINE p == IF pc[self].at = "mutex_lock" THEN UserCode ELSE At("cond_relock", m)
             C == Claims(holding, pc[self], self)
             C2 == Claims(holding, p, self)
  <2>1. pc' = [pc EXCEPT ![self] = p]
    BY <1>5 DEF Return, GoOn
  <2>2. p \in Spot /\ IsFree(p) /\ (p \in {UserCode, Ended} \/ p.on \in MutexQueues)
    <3>1. m \in WaitQueues /\ "cond_relock" \in Places
      BY MutexAssumption DEF Places
    <3> QED BY <3>1, SpotFacts DEF IsFree, At, MutexQueues
  <2>3. /\ Good(k) /\ Waits(k) /\ Lists(k) /\ QueuedSleeps(k, self)
        /\ Active(m) => k.mutex_count[self] > 0
        /\ k.mutex_count \in [Threads -> Nat]
    BY <1>1, <1>2, HolderCounts, FieldTypes
       DEF Calling, Waits, QueuedSleeps, Awake, self, LockingPlaces
  <2>4. Ranked(k, k') /\ Kept(k, k') /\ k'.mutex_count = less(k, self, m)
    BY <1>1, <1>5, <2>3, UncountFields
  <2>5. Moved(k, k', {}) /\ Awake(k', self) /\ Stays(k, k')
    <3>1. Continued(k, k', {})
      BY <2>3, <2>4, RankedContinued
    <3>2. Moved(k, k', {}) /\ Calling(k') /\ k'.current_thread = self
      BY <1>1, <3>1, ContinuedMoved DEF Continued, Step, self
    <3> QED BY <3>2 DEF Calling, Moved, Step
  <2>6. \A t \in Users \ {self} : k'.mutex_count[t] = k.mutex_count[t]
    BY <2>3, <2>4 DEF less, Users
  <2>7. \A mm \in Mutexes : p \notin LockingPlaces(mm)
    BY DEF LockingPlaces, UserCode, At
  <2>8. Wanted(p) \subseteq {m}
    BY DEF Wanted, UserCode, At, LockPlaces, CondPlaces
  <2> HIDE DEF p
  <2>9. C2 = C \ {m} /\ (m \in C <=> Active(m))
    BY <1>2, <1>3, <2>7 DEF Claims, LockingPlaces
  <2>10. Cardinality(C2) = IF Active(m) THEN Cardinality(C) - 1 ELSE Cardinality(C)
    <3>1. CASE Active(m)
      BY <2>9, <3>1, ClaimsChange
    <3>2. CASE ~Active(m)
      <4>1. C2 = C
        BY <2>9, <3>2
      <4> QED BY <3>2, <4>1
    <3> QED BY <3>1, <3>2
  <2>11. /\ Cardinality(C) \in Nat /\ k.mutex_count[self] \in Nat
         /\ k'.mutex_count[self] = IF Active(m) THEN k.mutex_count[self] - 1
                                   ELSE k.mutex_count[self]
         /\ "EXITED" \notin k'.state[self] => "EXITED" \notin k.state[self]
    BY <1>1, <2>3, <2>4, <2>5, ClaimsCount DEF less, Stays
  <2>12. /\ Cardinality(C) <= k.mutex_count[self]
         /\ "EXITED" \notin k.state[self] => k.mutex_count[self] = Cardinality(C)
    BY <1>3 DEF Settled
  <2>13. Settled(k', holding, p, self)
    <3> HIDE DEF C, C2
    <3>1. /\ Cardinality(C2) <= k'.mutex_count[self]
          /\ "EXITED" \notin k'.state[self] => k'.mutex_count[self] = Cardinality(C2)
      BY <2>10, <2>11, <2>12
    <3> QED BY <1>3, <2>8, <3>1 DEF Settled, C2
  <2>14. \A mm \in Mutexes : ~Heir(k, pc[self], self, mm)
    BY <1>5 DEF Heir, wake_reason
  <2> QED BY <1>1, <1>2, <1>5, <2>1, <2>2, <2>4, <2>5, <2>6, <2>13, <2>14, MutexMoves
          DEF mutexVars
<1>6. CASE LockIfFree(m, k, pc[self].at)
  <2>1. CountedFor(k, m) /\ Moved(k, k, {}) /\ Kept(k, k)
    BY <1>1, <1>2, MovedRefl, PlainKept DEF CountedFor
  <2>2. k.current_thread = self /\ pc[self].at \in {"mutex_lock", "cond_lock"}
    BY <1>1 DEF self, LockPlaces
  <2> QED BY <1>1, <1>3, <1>6, <2>1, <2>2, Locks
<1> QED BY <1>4, <1>5, <1>6 DEF MutexWoken

\* A wait on a condition variable runs again: it dies, or is to lock the
\* mutex.
LEMMA CondRuns ==
    ASSUME PlacesOK, MutexOK, NEW c \in Conds, CondWoken(c)
    PROVE  MutexEffect
<1> DEFINE p == At("cond_relock", MutexOf[c])
<1>1. /\ Calling(k) /\ self \in Users /\ self \in Threads
      /\ pc[self].at \in CondPlaces /\ pc[self].on = c /\ pc[self].on \in MutexQueues
      /\ MutexOf[c] \in Mutexes
      /\ UNCHANGED <<program, semaphoreVars, flagVars, mailboxVars, mutexVars, requested>>
  BY Caller, MutexAssumption
     DEF CondWoken, Calling, Users, self, CondPlaces, MutexQueues, objectVars
<1>2. CASE Killed
  BY <1>1, <1>2, MutexDies
<1>3. CASE k' = clear_timer(k, self) /\ GoOn("cond_relock", MutexOf[c])
  <2>1. Good(k) /\ Waits(k) /\ ~Asleep(k, self)
    BY <1>1 DEF Calling, Awake, self
  <2>2. Continued(k, k', {}) /\ Plain(k, k')
    BY <1>1, <1>3, <2>1, ClearTimerContinued
  <2>3. Moved(k, k', {}) /\ Calling(k') /\ k'.current_thread = self
    BY <1>1, <2>2, ContinuedMoved DEF Continued, Step, self
  <2>4. Awake(k', self) /\ pc' = [pc EXCEPT ![self] = p]
    BY <1>3, <2>3 DEF GoOn, Calling
  <2>5. p \in Spot /\ IsFree(p) /\ p.on \in MutexQueues
    <3>1. MutexOf[c] \in WaitQueues /\ "cond_relock" \in Places
      BY <1>1, MutexAssumption DEF Places
    <3> QED BY <1>1, <3>1, SpotFacts DEF IsFree, At, MutexQueues
  <2>6. Kept(k, k') /\ k'.mutex_count = k.mutex_count /\ Stays(k, k')
    BY <2>2, PlainKept DEF Plain, Continued, Step
  <2>7. \A m \in Mutexes : pc[self] \notin LockingPlaces(m) /\ p \notin LockingPlaces(m)
    BY <1>1 DEF LockingPlaces, At, CondPlaces
  <2>8. \A m \in Wanted(p) : self \notin holding[m]
    <3>1. Wanted(p) = Wanted(pc[self])
      BY <1>1 DEF Wanted, At, CondPlaces, LockPlaces
    <3>2. Settled(k, holding, pc[self], self)
      BY <1>1 DEF MutexOK
    <3> QED BY <3>1, <3>2 DEF Settled
  <2>9. \A m \in Mutexes : ~Heir(k, pc[self], self, m)
    BY <2>7 DEF Heir, LockingPlaces
  <2> HIDE DEF p
  <2>10. Settled(k', holding, p, self)
    BY <1>1, <2>6, <2>7, <2>8, StillSettled
  <2> QED BY <1>1, <2>3, <2>4, <2>5, <2>6, <2>9, <2>10, MutexMoves
<1> QED BY <1>2, <1>3 DEF CondWoken

\* The waiter that unlock() tells of a free mutex.
FirstOf(m) == IF k.wait_queue[m] = <<>> THEN {} ELSE {Head(k.wait_queue[m])}

\* unlock(), and what the caller does next without a mutex: it goes on, or
\* waits on a condition variable of the mutex.
LEMMA Unlocks ==
    ASSUME PlacesOK, MutexOK, Calling(k), pc[self] = UserCode,
           NEW m \in Mutexes, self \in holding[m], FreeMutex(m),
           Moved(unlocked(k, m), k', FirstOf(m)), Plain(unlocked(k, m), k'),
           NEW p \in Spot, pc' = [pc EXCEPT ![self] = p],
           \/ p = UserCode /\ Awake(k', self)
           \/ /\ p.at \in CondPlaces /\ p.on \in Conds /\ MutexOf[p.on] = m
              /\ \/ k'.queue[self] = p.on /\ (p.at = "cond_timed_wait" => HasAlarm(k', self))
                 \/ /\ Awake(k', self) /\ k'.sleep_reason[self] = "NONE"
                    /\ k'.wake_reason[self] = "TIMEOUT",
           UNCHANGED <<program, semaphoreVars, flagVars, mailboxVars, requested>>
    PROVE  MutexEffect
<1> DEFINE D == FirstOf(m)
           kk == unlocked(k, m)
           heir == Head(k.wait_queue[m])
           waited == k.wait_queue[m] # <<>>
           C == Claims(holding, UserCode, self)
           C2 == Claims(holding', p, self)
<1>1. /\ Good(k) /\ Waits(k) /\ self \in Users /\ self \in Threads /\ Awake(k, self)
      /\ m \in WaitQueues /\ m # NoQueue /\ m \in MutexQueues
      /\ k.mutex_count \in [Threads -> Nat]
  <2>1. Good(k)
    BY DEF Calling
  <2> QED BY <2>1, FieldTypes, MutexAssumption, QueueAssumption
          DEF Calling, Users, self, MutexQueues
<1>2. waited => /\ heir \in Users /\ k.queue[heir] = m /\ heir # self
                /\ pc[heir] \in LockingPlaces(m)
  <2>1. waited => heir \in Users /\ k.queue[heir] = m
    BY <1>1, HeadWaits
  <2> QED BY <1>1, <2>1, MutexWaiters DEF Awake, LockingPlaces
<1>3. /\ Active(m) => k.mutex_count[self] > 0
      /\ waited /\ Active(m) => k.mutex_count[heir] > 0
  BY <1>1, <1>2, HolderCounts DEF LockingPlaces
<1>4. waited => heir \in D
  BY DEF FirstOf
<1>5. \A t \in D : waited /\ t = heir
  BY DEF FirstOf
<1> HIDE DEF D
<1>6. /\ Continued(k, kk, D) /\ Kept(k, kk) /\ kk.mutex_count = less(k, self, m)
      /\ waited => /\ Awake(kk, heir)
                   /\ kk.sleep_reason[heir] = "NONE" /\ kk.wake_reason[heir] = "DONE"
  BY <1>1, <1>3, <1>4, UnlockedContinued
<1>7. /\ Moved(k, kk, D) /\ kk.current_thread = self
  BY <1>6, ContinuedMoved DEF Continued, Step, self
<1>8. Moved(kk, k', D) /\ Plain(kk, k')
  BY DEF D
<1> HIDE DEF kk
<1>9. Moved(k, k', D) /\ Kept(k, k') /\ k'.mutex_count = less(k, self, m) /\ Stays(k, k')
  <2>1. Moved(k, k', D)
    BY <1>7, <1>8, MovedTransitive
  <2>2. Kept(kk, k') /\ k'.mutex_count = kk.mutex_count
    BY <1>8, PlainKept DEF Plain
  <2>3. Kept(k, k')
    BY <1>6, <2>2, KeptTransitive
  <2> QED BY <1>6, <2>1, <2>2, <2>3 DEF Moved, Step
<1>10. ASSUME waited PROVE ~Asleep(k', heir) /\ k'.wake_reason[heir] = "DONE"
  <2>1. heir \in Threads \ {kk.current_thread}
    BY <1>2, <1>7, <1>10 DEF Users
  <2>2. GoesOn(kk, k', heir) \/ Ends(kk, k', heir, D)
    BY <1>8, <2>1 DEF Moved
  <2> QED BY <1>6, <1>10, <2>2 DEF GoesOn, Ends, Awake
<1>11. /\ p.at \in TimedPlaces => p.at = "cond_timed_wait" \/ p = UserCode
       /\ p \in {UserCode, Ended} \/ p.on \in MutexQueues
       /\ IsFree(UserCode) /\ (p.at \in CondPlaces /\ p.on \in Conds => IsWait(p))
       /\ "TIMEOUT" \in Outcomes
  BY DEF TimedPlaces, CondPlaces, MutexQueues, IsFree, IsWait, Outcomes
<1>12. Calls(MutexQueues, D)
  <2>1. \A t \in D : t \in Users /\ k.queue[t] \in MutexQueues
    BY <1>1, <1>2, <1>5
  <2>2. \/ IsFree(p) /\ Awake(k', self)
        \/ /\ IsWait(p) /\ Awake(k', self)
           /\ k'.sleep_reason[self] = "NONE" /\ k'.wake_reason[self] \in Outcomes
        \/ IsWait(p) /\ k'.queue[self] = p.on /\ (p.at \in TimedPlaces => HasAlarm(k', self))
    <3>1. UserCode.at \notin TimedPlaces
      BY DEF UserCode, At, TimedPlaces
    <3> QED BY <1>11, <3>1
  <2> QED BY <1>9, <1>11, <2>1, <2>2, MovedCalls
<1>13. pc'[self] = p /\ \A t \in Users \ {self} : pc'[t] = pc[t]
  BY <1>1 DEF PlacesOK
<1>14. /\ mutex' = [mutex EXCEPT ![m] = [mutex[m] EXCEPT !.locked = FALSE, !.owner = NoThread]]
       /\ holding' = [holding EXCEPT ![m] = {}]
  <2>1. mutex[m].locked /\ mutex[m].owner = self
    <3>1. holding[m] # {}
      OBVIOUS
    <3>2. mutex[m].locked /\ holding[m] = {mutex[m].owner}
      BY <3>1, Owner
    <3> QED BY <3>2
  <2>2. holding[m] = {self}
    BY <2>1, Owner
  <2> QED BY <2>2 DEF FreeMutex
<1>15. /\ ~mutex'[m].locked /\ holding'[m] = {}
       /\ \A mm \in Mutexes : mm # m => mutex'[mm] = mutex[mm] /\ holding'[mm] = holding[mm]
  BY <1>14 DEF MutexOK, MutexTypes
<1>16. MutexTypes'
  <2>1. mutex' \in [Mutexes -> [locked : BOOLEAN, owner : Threads \cup {NoThread},
                                ceiling : UserPriorities]]
    BY <1>14 DEF MutexOK, MutexTypes
  <2>2. holding' \in [Mutexes -> SUBSET Users]
    BY <1>14 DEF MutexOK, MutexTypes
  <2>3. MutualExclusion'
    BY <1>15 DEF MutexOK, MutexTypes, MutualExclusion
  <2> QED BY <2>1, <2>2, <2>3 DEF MutexOK, MutexTypes
<1>17. \A mm \in Mutexes : UserCode \notin LockingPlaces(mm) /\ p \notin LockingPlaces(mm)
  BY DEF LockingPlaces, UserCode, At, CondPlaces
<1>18. Settled(k', holding', pc'[self], self)
  <2>1. Settled(k, holding, UserCode, self)
    BY <1>1 DEF MutexOK
  <2>2. C2 = C \ {m} /\ (m \in C <=> Active(m))
    BY <1>15, <1>17 DEF Claims, LockingPlaces
  <2>3. Cardinality(C2) = IF Active(m) THEN Cardinality(C) - 1 ELSE Cardinality(C)
    <3>1. CASE Active(m)
      BY <2>2, <3>1, ClaimsChange
    <3>2. CASE ~Active(m)
      <4>1. C2 = C
        BY <2>2, <3>2
      <4> QED BY <3>2, <4>1
    <3> QED BY <3>1, <3>2
  <2>4. /\ Cardinality(C) \in Nat /\ k.mutex_count[self] \in Nat
        /\ k'.mutex_count[self] = IF Active(m) THEN k.mutex_count[self] - 1
                                  ELSE k.mutex_count[self]
        /\ "EXITED" \notin k'.state[self] => "EXITED" \notin k.state[self]
    BY <1>1, <1>9, ClaimsCount DEF less, Stays
  <2>5. /\ Cardinality(C) <= k.mutex_count[self]
        /\ "EXITED" \notin k.state[self] => k.mutex_count[self] = Cardinality(C)
    BY <2>1 DEF Settled
  <2>6. Wanted(p) \subseteq {m}
    BY DEF Wanted, UserCode, At, LockPlaces, CondPlaces
  <2> HIDE DEF C, C2
  <2>7. /\ Cardinality(C2) <= k'.mutex_count[self]
        /\ "EXITED" \notin k'.state[self] => k'.mutex_count[self] = Cardinality(C2)
    BY <2>3, <2>4, <2>5
  <2> QED BY <1>13, <1>15, <2>6, <2>7 DEF Settled, C2
<1>19. ASSUME NEW t \in Users
       PROVE  \/ /\ Bystands(t, D) /\ k'.mutex_count[t] = k.mutex_count[t]
                 /\ \A mm \in Mutexes : t \in holding'[mm] <=> t \in holding[mm]
              \/ Settled(k', holding', pc'[t], t)
  <2>1. CASE t = self
    BY <1>18, <2>1
  <2>2. CASE t # self
    <3>1. Bystands(t, D) /\ k'.mutex_count[t] = k.mutex_count[t]
      BY <1>1, <1>9, <1>12, <2>2 DEF Calls, less, Users
    <3>2. holding[m] = {self}
      <4>1. holding[m] # {}
        OBVIOUS
      <4> QED BY <4>1, Owner
    <3> QED BY <1>15, <2>2, <3>1, <3>2
  <2> QED BY <2>1, <2>2
<1>20. ASSUME NEW mm \in Mutexes, ~mutex'[mm].locked
       PROVE  \/ \A t \in Users : k'.queue[t] # mm
              \/ \E t \in Users : Heir(k', pc'[t], t, mm)
              \/ /\ ~mutex[mm].locked
                 /\ \A t \in Users : \/ Bystands(t, D)
                                     \/ k'.queue[t] # mm /\ ~Heir(k, pc[t], t, mm)
  <2>1. CASE mm = m /\ waited
    BY <1>2, <1>10, <1>13, <2>1 DEF Heir, LockingPlaces
  <2>2. k'.queue[self] # mm
    <3>1. mm # NoQueue
      BY MutexAssumption, QueueAssumption
    <3> QED BY <3>1, MutexAssumption DEF Awake
  <2>3. CASE mm = m /\ ~waited
    <3>1. \A t \in Users : k.queue[t] # m
      BY <1>1, <2>3, EmptyQueue DEF Users
    <3>2. \A t \in Users \ {self} : k'.queue[t] \in {k.queue[t], NoQueue}
      BY <1>12 DEF Calls, Bystands, GoesOn, Ends
    <3> QED BY <1>1, <2>2, <2>3, <3>1, <3>2
  <2>4. CASE mm # m
    BY <1>12, <1>15, <1>17, <1>20, <2>2, <2>4 DEF Calls, Heir, LockingPlaces
  <2> QED BY <2>1, <2>3, <2>4
<1>21. MutexOK'
  BY <1>9, <1>12, <1>16, <1>19, <1>20, MutexFrame
<1> QED BY <1>12, <1>21 DEF MutexEffect

\* The caller of unlock() is still in its call.
LEMMA UnlocksCalling ==
    ASSUME PlacesOK, MutexOK, Calling(k), NEW m \in Mutexes, self \in holding[m]
    PROVE  Calling(unlocked(k, m)) /\ unlocked(k, m).current_thread = self
<1> DEFINE kk == unlocked(k, m)
           heir == Head(k.wait_queue[m])
           waited == k.wait_queue[m] # <<>>
<1>1. /\ Good(k) /\ Waits(k) /\ self \in Users /\ m \in WaitQueues
  BY MutexAssumption DEF Calling, self
<1>2. waited => heir \in Users /\ pc[heir] \in {At("mutex_lock", m), At("cond_lock", m)}
  <2>1. waited => heir \in Users /\ k.queue[heir] = m
    BY <1>1, HeadWaits
  <2> QED BY <2>1, MutexWaiters
<1>3. /\ Active(m) => k.mutex_count[self] > 0
      /\ waited /\ Active(m) => k.mutex_count[heir] > 0
  BY <1>1, <1>2, HolderCounts
<1>4. Continued(k, kk, {heir})
  BY <1>1, <1>3, UnlockedContinued
<1> HIDE DEF kk
<1> QED BY <1>4, ContinuedMoved DEF Continued, Step, self, kk

\* unlock() by the owner.
LEMMA MutexUnlocks ==
    ASSUME PlacesOK, MutexOK, NEW m \in Mutexes, MutexUnlock(m)
    PROVE  MutexEffect
<1>1. /\ Calling(k) /\ pc[self] = UserCode /\ self \in Users /\ self \in Threads
      /\ k' = unlocked(k, m) /\ pc' = pc /\ FreeMutex(m) /\ self \in holding[m]
      /\ UNCHANGED <<program, semaphoreVars, flagVars, mailboxVars, requested>>
  BY Caller DEF MutexUnlock, Calling, Users, self
<1>2. pc' = [pc EXCEPT ![self] = UserCode]
  <2>1. pc = [t \in Threads |-> pc[t]]
    BY DEF PlacesOK
  <2> QED BY <1>1, <2>1
<1>3. Calling(k') /\ k'.current_thread = self
  BY <1>1, UnlocksCalling
<1>4. Moved(k', k', FirstOf(m)) /\ Plain(k', k') /\ Awake(k', self)
  BY <1>3, MovedRefl DEF Calling
<1>5. Moved(unlocked(k, m), k', FirstOf(m)) /\ Plain(unlocked(k, m), k')
  BY <1>1, <1>4
<1> QED BY <1>1, <1>2, <1>4, <1>5, SpotFacts, Unlocks

\* The waits on a condition variable begin with unlock().
LEMMA CondWaits ==
    ASSUME PlacesOK, MutexOK, NEW c \in Conds, CondWait(c) \/ CondTimedWait(c)
    PROVE  MutexEffect
<1> DEFINE m  == MutexOf[c]
           kk == unlocked(k, m)
           D  == FirstOf(m)
<1>1. /\ Calling(k) /\ pc[self] = UserCode /\ self \in Users /\ self \in Threads
      /\ FreeMutex(m) /\ self \in holding[m]
      /\ UNCHANGED <<program, semaphoreVars, flagVars, mailboxVars, requested>>
  BY Caller DEF CondWait, CondTimedWait, Calling, Users, self
<1>2. m \in Mutexes /\ c \in WaitQueues
  BY MutexAssumption
<1>3. Calling(kk) /\ kk.current_thread = self
  BY <1>1, <1>2, UnlocksCalling
<1>4. At("cond_wait", c) \in Spot /\ At("cond_timed_wait", c) \in Spot
  BY <1>2, SpotFacts DEF Places
<1> HIDE DEF kk
<1>5. CASE CondWait(c)
  <2> DEFINE p == At("cond_wait", c)
  <2>1. k' = block(kk, c, "WAIT") /\ pc' = [pc EXCEPT ![self] = p]
    BY <1>5 DEF CondWait, GoOn, kk
  <2>2. Blocked(kk, k', c, "WAIT", D)
    BY <1>2, <1>3, <2>1, BlockMoved
  <2>3. Moved(kk, k', D) /\ Plain(kk, k') /\ k'.queue[self] = c
    BY <1>3, <2>2 DEF Blocked
  <2>4. p.at \in CondPlaces /\ p.on = c /\ p.at # "cond_timed_wait"
    BY DEF At, CondPlaces
  <2> HIDE DEF p
  <2> QED BY <1>1, <1>2, <1>4, <2>1, <2>3, <2>4, Unlocks DEF kk, p
<1>6. CASE CondTimedWait(c)
  <2> DEFINE p == At("cond_timed_wait", c)
             n == set_timer(sleep(kk), "TIMEOUT")
  <2>1. /\ k' \in {enqueue(n, c, self), alarm(n, self)} /\ pc' = [pc EXCEPT ![self] = p]
    BY <1>6 DEF CondTimedWait, waits_in_time, GoOn, kk
  <2>2. /\ Moved(kk, k', D) /\ Plain(kk, k')
        /\ \/ /\ k'.queue[self] = c /\ k'.sleep_reason[self] = "TIMEOUT" /\ k'.timer[self]
           \/ /\ Awake(k', self) /\ k'.sleep_reason[self] = "NONE"
              /\ k'.wake_reason[self] = "TIMEOUT"
    BY <1>2, <1>3, <2>1, WaitsInTime
  <2>3. p.at \in CondPlaces /\ p.on = c
    BY DEF At, CondPlaces
  <2>4. \/ k'.queue[self] = c /\ HasAlarm(k', self)
        \/ /\ Awake(k', self) /\ k'.sleep_reason[self] = "NONE"
           /\ k'.wake_reason[self] = "TIMEOUT"
    BY <2>2 DEF HasAlarm
  <2> HIDE DEF p, n
  <2> QED BY <1>1, <1>2, <1>4, <2>1, <2>2, <2>3, <2>4, Unlocks DEF kk, p
<1> QED BY <1>5, <1>6

\* A step on the queues of mutexes and condition variables in which no mutex
\* changes hands and nobody goes anywhere.
LEMMA MutexDismisses ==
    ASSUME PlacesOK, MutexOK, NEW D, Calls(MutexQueues, D), Plain(k, k'),
           UNCHANGED <<pc, program, semaphoreVars, flagVars, mailboxVars, holding, requested>>,
           \A m \in Mutexes : mutex'[m].locked = mutex[m].locked
                              /\ mutex'[m].owner = mutex[m].owner,
           mutex' \in [Mutexes -> [locked : BOOLEAN, owner : Threads \cup {NoThread},
                                   ceiling : UserPriorities]],
           \A t \in Users : Bystands(t, D)
    PROVE  MutexEffect
<1>1. MutexTypes'
  BY DEF MutexOK, MutexTypes, MutualExclusion
<1>2. Kept(k, k') /\ k'.mutex_count = k.mutex_count
  BY PlainKept DEF Plain
<1>3. MutexOK'
  BY <1>1, <1>2, MutexFrame
<1> QED BY <1>3 DEF MutexEffect

\* All threads in the queue of an object are dismissed.
LEMMA QueueDismissed ==
    ASSUME PlacesOK, NEW q \in MutexQueues, NEW reason \in {"DONE", "BREAK"},
           k' = dismiss_all(k, k.wait_queue[q], DOMAIN k.wait_queue[q], reason), pc' = pc
    PROVE  \E D : Calls(MutexQueues, D) /\ Plain(k, k') /\ \A t \in Users : Bystands(t, D)
<1> DEFINE list == k.wait_queue[q]
           D == Dismissed(list, DOMAIN list, Len(list))
<1>1. Good(k) /\ Waits(k) /\ q \in WaitQueues /\ q # NoQueue /\ list \in Seq(Threads)
  <2>1. Good(k) /\ Waits(k) /\ q \in WaitQueues /\ q # NoQueue
    BY MutexAssumption, QueueAssumption DEF PlacesOK, MutexQueues
  <2> QED BY <2>1, FieldTypes
<1>2. Continued(k, k', D) /\ Plain(k, k')
  BY <1>1, DismissAll
<1>3. ASSUME NEW t \in D PROVE t \in Users /\ k.queue[t] = q
  <2>1. t \in Threads /\ holds(list, t)
    BY <1>1, <1>3 DEF Dismissed, holds
  <2>2. k.queue[t] = q
    BY <1>1, <2>1 DEF Waits, Lists
  <2>3. t # Idle
    <3>1. Asleep(k, t)
      BY <1>1, <2>1, <2>2 DEF Waits
    <3> QED BY <1>1, <3>1 DEF Good, Agree, Sound, Runs, RUNNING, Asleep
  <2> QED BY <2>1, <2>2, <2>3 DEF Users
<1> HIDE DEF D
<1>4. Calls(MutexQueues, D)
  BY <1>2, <1>3, ContinuedCalls
<1>5. \A t \in Users : Bystands(t, D)
  BY <1>2 DEF Continued, Bystands, Users
<1> QED BY <1>2, <1>4, <1>5

\* The calls on mutexes and condition variables.
LEMMA MutexEffects ==
    ASSUME PlacesOK, MutexOK, MutexCalls
    PROVE  MutexEffect
<1> DEFINE Objects == UNCHANGED <<pc, program, objectVars, requested>>
<1>1. mutex \in [Mutexes -> [locked : BOOLEAN, owner : Threads \cup {NoThread},
                             ceiling : UserPriorities]]
  BY DEF MutexOK, MutexTypes
<1>2. ASSUME NEW q \in MutexQueues, NEW reason \in {"DONE", "BREAK"}, Objects,
             k' = dismiss_all(k, k.wait_queue[q], DOMAIN k.wait_queue[q], reason)
      PROVE  MutexEffect
  <2>1. PICK D : Calls(MutexQueues, D) /\ Plain(k, k') /\ \A t \in Users : Bystands(t, D)
    BY <1>2, QueueDismissed
  <2> QED BY <1>1, <1>2, <2>1, MutexDismisses DEF objectVars, mutexVars
<1>3. ASSUME NEW m \in Mutexes, MutexRelease(m) PROVE MutexEffect
  BY <1>2, <1>3 DEF MutexRelease, MutexQueues
<1>4. ASSUME NEW m \in Mutexes, NEW pri \in UserPriorities, MutexSetCeiling(m, pri)
      PROVE  MutexEffect
  <2>1. /\ mutex' = [mutex EXCEPT ![m] = [mutex[m] EXCEPT !.ceiling = pri]]
        /\ UNCHANGED <<k, pc, program, semaphoreVars, flagVars, mailboxVars, holding, requested>>
    BY <1>4 DEF MutexSetCeiling
  <2>2. Continued(k, k', {}) /\ Plain(k, k')
    BY <2>1, ContinuedRefl DEF PlacesOK, Plain, SamePriorities
  <2>3. Calls(MutexQueues, {}) /\ \A t \in Users : Bystands(t, {})
    BY <2>1, <2>2, ContinuedCalls DEF Continued, Bystands, Users
  <2>4. /\ mutex' \in [Mutexes -> [locked : BOOLEAN, owner : Threads \cup {NoThread},
                                   ceiling : UserPriorities]]
        /\ \A mm \in Mutexes : mutex'[mm].locked = mutex[mm].locked
                               /\ mutex'[mm].owner = mutex[mm].owner
    BY <1>1, <2>1
  <2> QED BY <2>1, <2>2, <2>3, <2>4, MutexDismisses
<1>5. ASSUME NEW c \in Conds, CondSignal(c) PROVE MutexEffect
  <2> DEFINE D == IF k.wait_queue[c] = <<>> THEN {} ELSE {Head(k.wait_queue[c])}
  <2>1. k' = wake_first(k, c) /\ Objects /\ c \in WaitQueues /\ c \in MutexQueues
    BY <1>5, MutexAssumption DEF CondSignal, MutexQueues
  <2>2. /\ Plain(k, k') /\ Continued(k, k', D) /\ Calls({c}, D)
        /\ \A t \in D : k.queue[t] = c
    BY <2>1, WakeFirstCalls
  <2> HIDE DEF D
  <2>3. \A t \in D : t \in Users /\ k.queue[t] \in MutexQueues
    BY <2>1, <2>2 DEF Calls
  <2>4. Calls(MutexQueues, D) /\ \A t \in Users : Bystands(t, D)
    BY <2>1, <2>2, <2>3, ContinuedCalls DEF Continued, Bystands, Users
  <2> QED BY <1>1, <2>1, <2>2, <2>4, MutexDismisses DEF objectVars, mutexVars
<1>6. ASSUME NEW c \in Conds, CondBroadcast(c) PROVE MutexEffect
  BY <1>2, <1>6 DEF CondBroadcast, MutexQueues
<1> QED BY <1>3, <1>4, <1>5, <1>6, MutexBegins, MutexRuns, MutexUnlocks, CondWaits, CondRuns
       DEF MutexCalls

-----------------------------------------------------------------------------
(* No unit of a semaphore lies idle.                                       *)

\* A thread on its way to the count stays on its way, if it does not run.
LEMMA ClaimantStays ==
    ASSUME PlacesOK, NEW D, NEW s \in Semaphores, NEW t \in Claimants(s), Bystands(t, D)
    PROVE  t \in Claimants(s)'
<1>1. /\ t \in Users /\ t \in Threads /\ pc[t].at \in SemPlaces /\ pc[t].on = s
      /\ pc[t] \in {At(place, s) : place \in SemPlaces}
      /\ ~Asleep(k, t) /\ k.wake_reason[t] = "DONE"
  BY DEF Claimants, Users, At, Asleep
<1>2. k.queue[t] = NoQueue
  BY <1>1 DEF PlacesOK, Waits
<1>3. k.sleep_reason[t] = "NONE"
  BY <1>1, <1>2 DEF PlacesOK, ThreadOK, IsWait
<1>4. GoesOn(k, k', t) /\ pc'[t] = pc[t]
  BY <1>3 DEF Bystands, Ends
<1>5. ~Asleep(k', t) /\ k'.wake_reason[t] = "DONE"
  BY <1>1, <1>4 DEF GoesOn
<1> QED BY <1>1, <1>4, <1>5 DEF Claimants, Asleep

\* The threads on their way can be counted.
LEMMA ClaimantsCount ==
    ASSUME NEW s
    PROVE  /\ IsFiniteSet(Claimants(s)) /\ Cardinality(Claimants(s)) \in Nat
           /\ IsFiniteSet(Claimants(s)') /\ Cardinality(Claimants(s)') \in Nat
<1>1. IsFiniteSet(Threads) /\ Claimants(s) \subseteq Threads /\ Claimants(s)' \subseteq Threads
  BY ObjectsAssumption DEF Claimants, Users
<1>2. IsFiniteSet(Claimants(s)) /\ IsFiniteSet(Claimants(s)')
  BY <1>1, FS_Subset
<1> QED BY <1>2, FS_CardinalityType

\* A queue is not empty if some thread waits in it.
LEMMA QueueWaits ==
    ASSUME NEW kk, Good(kk), Waits(kk), NEW q \in WaitQueues
    PROVE  kk.wait_queue[q] # <<>> <=> \E t \in Users : kk.queue[t] = q
<1>1. kk.wait_queue[q] # <<>> => \E t \in Users : kk.queue[t] = q
  BY HeadWaits
<1>2. (\E t \in Users : kk.queue[t] = q) => kk.wait_queue[q] # <<>>
  BY EmptyQueue DEF Users
<1> QED BY <1>1, <1>2

\* A step that no thread on its way to s is concerned with, and no new waiter.
LEMMA UnitsStay ==
    ASSUME PlacesOK, Good(k'), Waits(k'), NEW D, NEW s \in Semaphores,
           \A t \in Claimants(s) : Bystands(t, D), NoNewWaiter(s), count'[s] = count[s],
           count[s] \in Nat,
           k.wait_queue[s] # <<>> => count[s] <= Cardinality(Claimants(s)),
           k'.wait_queue[s] # <<>>
    PROVE  count'[s] <= Cardinality(Claimants(s)')
<1>1. Good(k) /\ Waits(k) /\ s \in WaitQueues
  BY SemaphoresAssumption DEF PlacesOK
<1>2. \E t \in Users : k'.queue[t] = s
  BY <1>1, QueueWaits
<1>3. k.wait_queue[s] # <<>>
  BY <1>1, <1>2, QueueWaits DEF NoNewWaiter
<1>4. Claimants(s) \subseteq Claimants(s)'
  BY ClaimantStays
<1>5. Cardinality(Claimants(s)) <= Cardinality(Claimants(s)')
  BY <1>4, ClaimantsCount, FS_Subset
<1>6. Cardinality(Claimants(s)) \in Nat /\ Cardinality(Claimants(s)') \in Nat
  BY ClaimantsCount
<1> QED BY <1>3, <1>5, <1>6

\* A call on other objects leaves the units of s as they are.
LEMMA UnitsOthers ==
    ASSUME PlacesOK, NEW S, NEW D, Calls(S, D), NEW s \in Semaphores, s \notin S,
           count'[s] = count[s], count[s] \in Nat,
           k.wait_queue[s] # <<>> => count[s] <= Cardinality(Claimants(s)),
           k'.wait_queue[s] # <<>>
    PROVE  count'[s] <= Cardinality(Claimants(s)')
<1>1. ASSUME NEW t \in Claimants(s) PROVE Bystands(t, D)
  <2>1. t \in Users /\ pc[t].at \in SemPlaces /\ pc[t].on = s
    BY <1>1 DEF Claimants, At
  <2>2. ~(t = self /\ Acts(S))
    BY <2>1 DEF Acts, UserCode, At, SemPlaces
  <2> QED BY <2>1, <2>2 DEF Calls
<1>2. ASSUME NEW t \in Users, k'.queue[t] = s PROVE k.queue[t] = s
  <2>1. s # NoQueue
    BY SemaphoresAssumption, QueueAssumption
  <2>2. CASE Bystands(t, D)
    BY <1>2, <2>1, <2>2 DEF Bystands, GoesOn, Ends
  <2>3. CASE t = self /\ Acts(S)
    <3>1. IsWait(pc'[t]) /\ k'.queue[t] = pc'[t].on
      BY <1>2, <2>1, <2>3 DEF Acts, Awake
    <3>2. pc'[t] \notin {UserCode, Ended}
      BY <3>1 DEF IsWait, UserCode, Ended, At, SemPlaces, FlagPlaces, MboxPlaces,
                  LockPlaces, CondPlaces
    <3> QED BY <1>2, <2>3, <3>1, <3>2 DEF Acts
  <2> QED BY <2>2, <2>3 DEF Calls
<1>3. Good(k') /\ Waits(k')
  BY DEF Calls
<1> QED BY <1>1, <1>2, <1>3, UnitsStay DEF NoNewWaiter

\* Semaphores have counts within their bounds, and no unit lies idle.
UnitsOK == CountsOK /\ NoUnitIdle

\* Calls on other objects keep it so.
LEMMA SemaphoreOthers ==
    ASSUME PlacesOK, UnitsOK, NEW S, NEW D, Calls(S, D), S \cap Semaphores = {}, UNCHANGED count
    PROVE  UnitsOK'
<1>1. CountsOK'
  BY DEF UnitsOK, CountsOK
<1>2. ASSUME NEW s \in Semaphores, k'.wait_queue[s] # <<>>
      PROVE  count'[s] <= Cardinality(Claimants(s)')
  BY <1>2, UnitsOthers DEF UnitsOK, NoUnitIdle, CountsOK
<1>3. NoUnitIdle'
  BY <1>2 DEF NoUnitIdle
<1> QED BY <1>1, <1>3 DEF UnitsOK

\* And so do the calls on semaphores.
LEMMA SemaphoresOK ==
    ASSUME PlacesOK, UnitsOK, NEW s0 \in Semaphores, SemEffect(s0)
    PROVE  UnitsOK' /\ \E D : Calls({s0}, D)
<1> DEFINE w == k.wait_queue[s0]
           D == IF w = <<>> THEN {} ELSE {Head(w)}
           Fine == /\ count'[s0] \in 0..MaxCount /\ (s0 \in Binary => count'[s0] <= 1)
                   /\ k'.wait_queue[s0] # <<>> => count'[s0] <= Cardinality(Claimants(s0)')
<1>1. /\ count \in [Semaphores -> 0..MaxCount] /\ MaxCount \in Nat \ {0}
      /\ \A s \in Binary : count[s] <= 1
      /\ s0 \in WaitQueues /\ s0 # NoQueue /\ Good(k) /\ Waits(k)
      /\ \A s \in Semaphores : k.wait_queue[s] # <<>> => count[s] <= Cardinality(Claimants(s))
  BY SemaphoresAssumption, QueueAssumption DEF UnitsOK, CountsOK, NoUnitIdle, PlacesOK
<1>2. \A s \in Semaphores : count[s] \in Nat
  BY <1>1
<1>3. count' = [count EXCEPT ![s0] = count'[s0]]
  BY DEF SemEffect
<1>4. \A s \in Semaphores \ {s0} : count'[s] = count[s]
  BY <1>1, <1>3
<1>5. \E DD : Calls({s0}, DD)
  BY DEF SemEffect
<1>6. Good(k') /\ Waits(k')
  BY <1>5 DEF Calls
<1>7. ASSUME NEW s \in Semaphores, s # s0, k'.wait_queue[s] # <<>>
      PROVE  count'[s] <= Cardinality(Claimants(s)')
  <2>1. s \notin {s0} /\ count'[s] = count[s] /\ count[s] \in Nat
    BY <1>2, <1>4, <1>7
  <2> QED BY <1>1, <1>5, <1>7, <2>1, UnitsOthers
<1>8. /\ Cardinality(Claimants(s0)) \in Nat /\ Cardinality(Claimants(s0)') \in Nat
      /\ IsFiniteSet(Claimants(s0)) /\ IsFiniteSet(Claimants(s0)')
  BY ClaimantsCount
<1>9. ASSUME Calls({s0}, {}), NoNewWaiter(s0), count[s0] > 0, count'[s0] = count[s0] - 1
      PROVE  Fine
  <2>1. count'[s0] \in 0..MaxCount /\ (s0 \in Binary => count'[s0] <= 1)
    BY <1>1, <1>2, <1>9
  <2>2. ASSUME k'.wait_queue[s0] # <<>> PROVE count'[s0] <= Cardinality(Claimants(s0)')
    <3>1. k.wait_queue[s0] # <<>>
      BY <1>1, <1>6, <1>9, <2>2, QueueWaits DEF NoNewWaiter
    <3>2. Claimants(s0) \ {self} \subseteq Claimants(s0)'
      <4>1. ASSUME NEW t \in Claimants(s0) \ {self} PROVE Bystands(t, {})
        BY <1>9, <4>1 DEF Calls, Claimants
      <4> QED BY <4>1, ClaimantStays
    <3>3. Cardinality(Claimants(s0)) - 1 <= Cardinality(Claimants(s0) \ {self})
      <4>1. CASE self \in Claimants(s0)
        <5>1. Cardinality(Claimants(s0) \ {self}) = Cardinality(Claimants(s0)) - 1
          BY <1>8, <4>1, FS_RemoveElement
        <5> QED BY <1>8, <5>1
      <4>2. CASE self \notin Claimants(s0)
        <5>1. Claimants(s0) \ {self} = Claimants(s0)
          BY <4>2
        <5> QED BY <1>8, <5>1
      <4> QED BY <4>1, <4>2
    <3>4. Cardinality(Claimants(s0) \ {self}) <= Cardinality(Claimants(s0)')
      BY <1>8, <3>2, FS_Subset
    <3>5. Cardinality(Claimants(s0) \ {self}) \in Nat
      BY <1>8, FS_RemoveElement, FS_CardinalityType, FS_Subset
    <3>6. count[s0] <= Cardinality(Claimants(s0))
      BY <1>1, <3>1
    <3> QED BY <1>2, <1>8, <1>9, <3>3, <3>4, <3>5, <3>6
  <2> QED BY <2>1, <2>2
<1>10. ASSUME Calls({s0}, {}), NoNewWaiter(s0), count'[s0] = count[s0],
              self \notin Claimants(s0)
       PROVE  Fine
  <2>1. count'[s0] \in 0..MaxCount /\ (s0 \in Binary => count'[s0] <= 1)
    BY <1>1, <1>10
  <2>2. \A t \in Claimants(s0) : Bystands(t, {})
    BY <1>10 DEF Calls, Claimants
  <2> QED BY <1>1, <1>2, <1>6, <1>10, <2>1, <2>2, UnitsStay
<1>11. ASSUME count'[s0] = 0 PROVE Fine
  BY <1>1, <1>8, <1>11
<1>12. ASSUME Calls({s0}, D), UNCHANGED pc, Continued(k, k', D),
              \A t \in D : Awake(k', t) /\ k'.wake_reason[t] = "DONE",
              count'[s0] = (IF s0 \in Binary THEN 1 ELSE count[s0] + 1),
              s0 \in Binary \/ count[s0] < MaxCount
       PROVE  Fine
  <2>1. count'[s0] \in 0..MaxCount /\ (s0 \in Binary => count'[s0] <= 1)
    BY <1>1, <1>2, <1>12
  <2>2. ASSUME k'.wait_queue[s0] # <<>> PROVE count'[s0] <= Cardinality(Claimants(s0)')
    <3>1. NoNewWaiter(s0)
      BY <1>1, <1>12 DEF Continued, GoesOn, Ends, NoNewWaiter, Users
    <3>2. w # <<>>
      BY <1>1, <1>6, <2>2, <3>1, QueueWaits DEF NoNewWaiter
    <3> DEFINE h == Head(w)
    <3>3. h \in Users /\ k.queue[h] = s0 /\ Asleep(k, h) /\ h \in D
      BY <1>1, <3>2, HeadWaits
    <3>4. h \notin Claimants(s0)
      BY <3>3 DEF Claimants, Asleep
    <3>5. h \in Claimants(s0)'
      <4>1. IsWait(pc[h]) /\ pc[h].on = s0 /\ pc[h] \in Spot
        BY <1>1, <3>3 DEF PlacesOK, ThreadOK, Users
      <4>2. pc[h].at \in SemPlaces
        BY <4>1, ObjectsAssumption DEF IsWait
      <4>3. pc'[h] \in {At(place, s0) : place \in SemPlaces}
        BY <1>12, <4>1, <4>2 DEF Spot, At
      <4>4. ~Asleep(k', h) /\ k'.wake_reason[h] = "DONE"
        BY <1>12, <3>3 DEF Awake
      <4> HIDE DEF h
      <4> QED BY <3>3, <4>3, <4>4 DEF Claimants, Asleep
    <3> HIDE DEF h
    <3>6. Claimants(s0) \subseteq Claimants(s0)'
      <4>1. \A t \in Claimants(s0) : Bystands(t, D)
        BY <1>12 DEF Continued, Bystands, Claimants, Users
      <4> HIDE DEF D
      <4> QED BY <4>1, ClaimantStays
    <3>7. Cardinality(Claimants(s0) \cup {h}) = Cardinality(Claimants(s0)) + 1
      BY <1>8, <3>4, FS_AddElement
    <3>8. Cardinality(Claimants(s0) \cup {h}) <= Cardinality(Claimants(s0)')
      BY <1>8, <3>5, <3>6, FS_Subset
    <3>9. count[s0] <= Cardinality(Claimants(s0))
      BY <1>1, <3>2
    <3>10. count'[s0] <= count[s0] + 1
      BY <1>2, <1>12
    <3>11. count'[s0] \in Nat
      BY <2>1, <1>1
    <3> QED BY <1>2, <1>8, <3>7, <3>8, <3>9, <3>10, <3>11
  <2> QED BY <2>1, <2>2
<1>13. Fine
  BY <1>9, <1>10, <1>11, <1>12 DEF SemEffect
<1>14. CountsOK'
  <2>1. count' \in [Semaphores -> 0..MaxCount]
    BY <1>1, <1>3, <1>13
  <2>2. \A s \in Binary : count'[s] <= 1
    BY <1>1, <1>4, <1>13, SemaphoresAssumption
  <2> QED BY <2>1, <2>2 DEF CountsOK
<1>15. NoUnitIdle'
  BY <1>7, <1>13 DEF NoUnitIdle
<1> QED BY <1>5, <1>14, <1>15 DEF UnitsOK

-----------------------------------------------------------------------------
(* The invariant of the program.                                           *)

SyncInv ==
    /\ PlacesOK /\ program \in Programs
    /\ UnitsOK /\ FlagOK /\ MailOK /\ MutexOK

\* A step keeps the invariant, tells puts the truth, and is one of the
\* queue of messages.
Kind == SyncInv' /\ PutsTold /\ MailStep

\* The program starts so.
LEMMA SyncInit ==
    ASSUME Init
    PROVE  SyncInv /\ Abstract!Init
<1>1. /\ k = started /\ pc = [t \in Threads |-> UserCode] /\ program \in Programs
      /\ count = [s \in Semaphores |-> 0]
      /\ value = {} /\ want = [t \in Threads |-> NoWish]
      /\ mbox = empty_mbox /\ wait_info = [t \in Threads |-> NoMessage]
      /\ mutex = [m \in Mutexes |-> free_mutex(m)]
      /\ holding = [m \in Mutexes |-> {}]
      /\ requested = InitPriority
  BY DEF Init
<1>2. /\ Good(k) /\ Waits(k)
      /\ k.mutex_count = [t \in Threads |-> 0]
      /\ k.priority = InitPriority
      /\ k.priority_inherited = [t \in Threads |-> FALSE]
      /\ \A t \in Threads : ~Asleep(k, t) /\ k.queue[t] = NoQueue
  BY <1>1, StartedFacts
<1>3. IsFree(UserCode) /\ UserCode \in Spot /\ UserCode.at = "user" /\ ~IsWait(UserCode)
  BY SpotFacts DEF IsFree, UserCode, At
<1>4. PlacesOK
  <2>1. ASSUME NEW t \in Users PROVE ThreadOK(k, UserCode, t)
    <3>1. t \in Threads /\ ~Asleep(k, t) /\ k.queue[t] = NoQueue
      BY <1>2 DEF Users
    <3> QED BY <1>3, <3>1 DEF ThreadOK, TimedPlaces
  <2> QED BY <1>1, <1>2, <1>3, <2>1, ThreadsAssumption DEF PlacesOK, Users
<1>5. UnitsOK
  <2>1. \A s \in Semaphores : k.wait_queue[s] = <<>>
    BY <1>2, EmptyQueue, SemaphoresAssumption, QueueAssumption
  <2> QED BY <1>1, <2>1, SemaphoresAssumption DEF UnitsOK, CountsOK, NoUnitIdle
<1>6. FlagOK
  BY <1>1, <1>3 DEF FlagOK, FlagThread, FlagPlaces, Users
<1>7. mbox \in Mboxes /\ mbox.count = 0
  BY <1>1, MailboxAssumption DEF empty_mbox, Mboxes, Slots, Contents
<1>8. MailOK
  <2>1. ASSUME NEW t \in Users PROVE InVain(k, t, mbox.count)
    <3>1. k.queue[t] = NoQueue
      BY <1>2 DEF Users
    <3> QED BY <3>1, MailboxAssumption, QueueAssumption DEF InVain
  <2>2. ASSUME NEW t \in Users PROVE MboxThread(k, pc[t], wait_info[t], t)
    <3>1. pc[t] = UserCode /\ wait_info[t] = NoMessage
      BY <1>1 DEF Users
    <3> QED BY <1>3, <3>1 DEF MboxThread, MboxPlaces
  <2> QED BY <1>1, <1>7, <2>1, <2>2 DEF MailOK, Contents
<1>9. MutexOK
  <2>1. mutex \in [Mutexes -> [locked : BOOLEAN, owner : Threads \cup {NoThread},
                               ceiling : UserPriorities]]
    BY <1>1, MutexAssumption DEF free_mutex
  <2>2. MutualExclusion /\ holding \in [Mutexes -> SUBSET Users]
    BY <1>1 DEF MutualExclusion, free_mutex
  <2>3. requested \in [Threads -> Priorities]
    BY <1>1, InitPriorityOfThreads
  <2>4. ASSUME NEW t \in Users PROVE Settled(k, holding, pc[t], t)
    <3>1. pc[t] = UserCode /\ k.mutex_count[t] = 0
      BY <1>1, <1>2 DEF Users
    <3>2. Claims(holding, pc[t], t) = {}
      BY <1>1, <3>1 DEF Claims, UserCode, At
    <3>3. Cardinality(Claims(holding, pc[t], t)) = 0
      BY <3>2, FS_EmptySet
    <3>4. Wanted(pc[t]) = {}
      BY <3>1 DEF Wanted, UserCode, At, LockPlaces, CondPlaces
    <3> QED BY <3>1, <3>3, <3>4 DEF Settled
  <2>5. ASSUME NEW m \in Mutexes, NEW t \in Users PROVE k.queue[t] # m
    <3>1. k.queue[t] = NoQueue
      BY <1>2 DEF Users
    <3> QED BY <3>1, MutexAssumption, QueueAssumption
  <2>6. ASSUME NEW t \in Threads PROVE Lawful(k, t, requested[t])
    <3>1. /\ InitPriority[t] \in Int
          /\ k.priority[t] = InitPriority[t] /\ requested[t] = InitPriority[t]
      BY <1>1, <1>2, InitPriorityOfThreads, PriorityAssumption DEF Priorities
    <3>2. k.priority_inherited[t] = FALSE
      BY <1>2
    <3> QED BY <3>1, <3>2 DEF Lawful
  <2>7. NoFreeLoans(k)
    BY <1>2 DEF NoFreeLoans
  <2> QED BY <2>1, <2>2, <2>3, <2>4, <2>5, <2>6, <2>7 DEF MutexOK, MutexTypes
<1>10. stored = <<>>
  <2>1. stored = ring(mbox)
    BY DEF stored, ring
  <2> QED BY <1>7, <2>1, RingType
<1>11. received = [t \in Users |-> NoMessage]
  BY <1>1 DEF received, Users
<1> QED BY <1>1, <1>4, <1>5, <1>6, <1>8, <1>9, <1>10, <1>11 DEF SyncInv, Abstract!Init

\* No object is another one.
LEMMA Objects ==
    /\ \A s \in Semaphores : /\ s \in WaitQueues /\ flag # s /\ MailQueues \cap {s} = {}
                             /\ (Mutexes \cup Conds) \cap {s} = {}
    /\ flag \in WaitQueues /\ MailQueues \cap {flag} = {}
    /\ {flag} \cap Semaphores = {} /\ (Mutexes \cup Conds) \cap {flag} = {}
    /\ MailQueues \subseteq WaitQueues /\ flag \notin MailQueues
    /\ MailQueues \cap Semaphores = {} /\ (Mutexes \cup Conds) \cap MailQueues = {}
    /\ MutexQueues \subseteq WaitQueues /\ flag \notin MutexQueues
    /\ MutexQueues \cap Semaphores = {} /\ MailQueues \cap MutexQueues = {}
BY ObjectsAssumption, SemaphoresAssumption, FlagAssumption, MailboxAssumption, MutexAssumption
   DEF MailQueues, MutexQueues

\* Every step keeps it so.
LEMMA SyncNext ==
    ASSUME SyncInv, [Next]_vars
    PROVE  Kind
<1>1. /\ PlacesOK /\ program \in Programs /\ UnitsOK /\ FlagOK /\ MailOK /\ MutexOK
  BY DEF SyncInv
<1>2. CASE Threading
  <2>1. /\ Calls({}, {}) /\ UNCHANGED <<pc, program, objectVars>>
        /\ \/ Plain(k, k') /\ UNCHANGED requested
           \/ \E t \in Users, pri \in UserPriorities :
                /\ k' = set_priority(k, t, pri)
                /\ requested' = [requested EXCEPT ![t] = pri]
    BY <1>1, <1>2, ThreadingCalls
  <2>2. UNCHANGED <<program, count, flagVars, mailboxVars, mutexVars>>
    BY <2>1 DEF objectVars, semaphoreVars
  <2>3. PlacesOK'
    BY <1>1, <2>1, CallsPlaces
  <2>4. UnitsOK'
    BY <1>1, <2>1, <2>2, SemaphoreOthers
  <2>5. FlagOK'
    BY <1>1, <2>1, <2>2, FlagOthers
  <2>6. MailOK' /\ PutsTold /\ MailStep
    BY <1>1, <2>1, <2>2, MailOthers
  <2>7. MutexOK'
    BY <1>1, <2>1, <2>2, MutexOthers
  <2> QED BY <1>1, <2>2, <2>3, <2>4, <2>5, <2>6, <2>7 DEF Kind, SyncInv
<1>3. CASE SemaphoreCalls
  <2>1. PICK s \in Semaphores : SemEffect(s)
    BY <1>1, <1>3, SemaphoreEffects DEF UnitsOK
  <2>2. /\ Plain(k, k') /\ UNCHANGED <<program, flagVars, mailboxVars, mutexVars, requested>>
    BY <2>1 DEF SemEffect
  <2>3. UnitsOK' /\ \E D : Calls({s}, D)
    BY <1>1, <2>1, SemaphoresOK
  <2>4. PICK D : Calls({s}, D)
    BY <2>3
  <2>5. PlacesOK'
    BY <1>1, <2>4, CallsPlaces
  <2>6. FlagOK'
    BY <1>1, <2>2, <2>4, FlagOthers, Objects
  <2>7. MailOK' /\ PutsTold /\ MailStep
    BY <1>1, <2>2, <2>4, MailOthers, Objects
  <2>8. MutexOK'
    BY <1>1, <2>2, <2>4, MutexOthers, Objects
  <2> QED BY <1>1, <2>2, <2>3, <2>5, <2>6, <2>7, <2>8 DEF Kind, SyncInv
<1>4. CASE FlagCalls
  <2>1. FlagEffect
    BY <1>1, <1>4, FlagEffects
  <2>2. /\ Plain(k, k') /\ UNCHANGED <<program, count, mailboxVars, mutexVars, requested>>
        /\ FlagOK'
    BY <2>1 DEF FlagEffect, semaphoreVars
  <2>3. PICK D : Calls({flag}, D)
    BY <2>1 DEF FlagEffect
  <2>4. PlacesOK'
    BY <1>1, <2>3, CallsPlaces
  <2>5. UnitsOK'
    BY <1>1, <2>2, <2>3, SemaphoreOthers, Objects
  <2>6. MailOK' /\ PutsTold /\ MailStep
    BY <1>1, <2>2, <2>3, MailOthers, Objects
  <2>7. MutexOK'
    BY <1>1, <2>2, <2>3, MutexOthers, Objects
  <2> QED BY <1>1, <2>2, <2>4, <2>5, <2>6, <2>7 DEF Kind, SyncInv
<1>5. CASE MailboxCalls
  <2>1. MailEffect
    BY <1>1, <1>5, MailEffects
  <2>2. /\ Plain(k, k') /\ UNCHANGED <<program, count, flagVars, mutexVars, requested>>
        /\ MailOK' /\ PutsTold /\ MailStep
    BY <2>1 DEF MailEffect, semaphoreVars
  <2>3. PICK D : Calls(MailQueues, D)
    BY <2>1 DEF MailEffect
  <2>4. PlacesOK'
    BY <1>1, <2>3, CallsPlaces
  <2>5. UnitsOK'
    BY <1>1, <2>2, <2>3, SemaphoreOthers, Objects
  <2>6. FlagOK'
    BY <1>1, <2>2, <2>3, FlagOthers, Objects
  <2>7. MutexOK'
    BY <1>1, <2>2, <2>3, MutexOthers, Objects
  <2> QED BY <1>1, <2>2, <2>4, <2>5, <2>6, <2>7 DEF Kind, SyncInv
<1>6. CASE MutexCalls
  <2>1. MutexEffect
    BY <1>1, <1>6, MutexEffects
  <2>2. UNCHANGED <<program, count, flagVars, mailboxVars>> /\ MutexOK'
    BY <2>1 DEF MutexEffect, semaphoreVars
  <2>3. PICK D : Calls(MutexQueues, D)
    BY <2>1 DEF MutexEffect
  <2>4. PlacesOK'
    BY <1>1, <2>3, CallsPlaces
  <2>5. UnitsOK'
    BY <1>1, <2>2, <2>3, SemaphoreOthers, Objects
  <2>6. FlagOK'
    BY <1>1, <2>2, <2>3, FlagOthers, Objects
  <2>7. MailOK' /\ PutsTold /\ MailStep
    BY <1>1, <2>2, <2>3, MailOthers, Objects
  <2> QED BY <1>1, <2>2, <2>4, <2>5, <2>6, <2>7 DEF Kind, SyncInv
<1>7. CASE UNCHANGED vars
  <2>1. /\ UNCHANGED <<k, pc, program, count, value, want, mbox, wait_info, mutex, holding,
                       requested>>
    BY <1>7 DEF vars, objectVars, semaphoreVars, flagVars, mailboxVars, mutexVars
  <2>2. UNCHANGED <<objectVars, requested>> /\ k' = k /\ pc' = pc
    BY <2>1 DEF objectVars, semaphoreVars, flagVars, mailboxVars, mutexVars
  <2>3. Continued(k, k', {}) /\ Plain(k, k')
    BY <1>1, <2>1, ContinuedRefl DEF PlacesOK, Plain, SamePriorities
  <2>4. Calls({}, {})
    BY <1>1, <2>1, <2>3, ContinuedCalls
  <2>5. UNCHANGED <<program, count, flagVars, mailboxVars, mutexVars, requested>>
    BY <2>1 DEF flagVars, mailboxVars, mutexVars
  <2>6. PlacesOK'
    BY <1>1, <2>4, CallsPlaces
  <2>7. UnitsOK'
    BY <1>1, <2>4, <2>5, SemaphoreOthers
  <2>8. FlagOK'
    BY <1>1, <2>4, <2>5, FlagOthers
  <2>9. MailOK' /\ PutsTold /\ MailStep
    BY <1>1, <2>4, <2>5, MailOthers
  <2>10. MutexOK'
    BY <1>1, <2>3, <2>4, <2>5, MutexOthers
  <2> QED BY <1>1, <2>5, <2>6, <2>7, <2>8, <2>9, <2>10 DEF Kind, SyncInv
<1> QED BY <1>2, <1>3, <1>4, <1>5, <1>6, <1>7 DEF Next

\* What the invariant says of waits.
LEMMA WaitsFollow ==
    ASSUME SyncInv
    PROVE  QueuedIffAsleep /\ TimedWaitersHaveTimers
<1>1. /\ Good(k) /\ Waits(k) /\ \A t \in Users : ThreadOK(k, pc[t], t) /\ t \in Threads
      /\ pc \in [Threads -> Spot]
  BY DEF SyncInv, PlacesOK, Users
<1>2. ASSUME NEW q \in WaitQueues, NEW i \in 1..Len(k.wait_queue[q]),
             NEW j \in 1..Len(k.wait_queue[q]), k.wait_queue[q][i] = k.wait_queue[q][j]
      PROVE  i = j
  BY <1>1, <1>2 DEF Waits, Lists, Distinct
<1>3. ASSUME NEW t \in Users, NEW q \in WaitQueues
      PROVE  /\ holds(k.wait_queue[q], t) <=> k.queue[t] = q
             /\ holds(k.wait_queue[q], t) <=> "SLEEPING" \in k.state[t] /\ pc[t].on = q
  <2>1. holds(k.wait_queue[q], t) <=> k.queue[t] = q
    BY <1>1 DEF Waits, Lists
  <2>2. ThreadOK(k, pc[t], t) /\ (k.queue[t] # NoQueue => Asleep(k, t)) /\ q # NoQueue
    BY <1>1, QueueAssumption DEF Waits
  <2>3. k.queue[t] = q => Asleep(k, t) /\ pc[t].on = q
    BY <2>2 DEF ThreadOK
  <2>4. Asleep(k, t) /\ pc[t].on = q => k.queue[t] = q
    BY <2>2 DEF ThreadOK
  <2> QED BY <2>1, <2>3, <2>4 DEF Asleep
<1>4. QueuedIffAsleep
  BY <1>2, <1>3 DEF QueuedIffAsleep
<1>5. TimedWaitersHaveTimers
  BY <1>1 DEF TimedWaitersHaveTimers, HasTimer, ThreadOK, HasAlarm, Asleep, TimedPlaces
<1> QED BY <1>4, <1>5

\* What it says of the flag and the mailbox.
LEMMA ObjectsFollow ==
    ASSUME SyncInv
    PROVE  /\ NobodySatisfiedSleeps /\ OutcomeIsClear
           /\ NobodyWaitsInVain /\ GetTellsTheTruth
<1>1. /\ Good(k) /\ Waits(k) /\ PlacesOK /\ FlagOK /\ MailOK
  BY DEF SyncInv, PlacesOK
<1>2. ASSUME NEW t \in Users PROVE FlagThread(k, pc[t], want[t], value, t)
  BY <1>1 DEF FlagOK
<1>3. NobodySatisfiedSleeps
  BY <1>2 DEF NobodySatisfiedSleeps, InFlagWait, FlagThread, FlagPlaces
<1>4. OutcomeIsClear
  BY <1>2 DEF OutcomeIsClear, InFlagWait, FlagThread, FlagPlaces
<1>5. NobodyWaitsInVain
  <2>1. \A t \in Users : InVain(k, t, mbox.count)
    BY <1>1 DEF MailOK
  <2>2. getters # <<>> => \E t \in Users : k.queue[t] = get_threadq
    BY <1>1, HeadWaits, MailboxAssumption DEF getters
  <2>3. putters # <<>> => \E t \in Users : k.queue[t] = put_threadq
    BY <1>1, HeadWaits, MailboxAssumption DEF putters
  <2> QED BY <2>1, <2>2, <2>3 DEF NobodyWaitsInVain, InVain
<1>6. GetTellsTheTruth
  <2>1. \A t \in Users : MboxThread(k, pc[t], wait_info[t], t)
    BY <1>1 DEF MailOK
  <2> QED BY <2>1 DEF GetTellsTheTruth, InGet, MboxThread, MboxPlaces
<1> QED BY <1>3, <1>4, <1>5, <1>6

\* What it says of mutexes.
LEMMA MutexesFollow ==
    ASSUME SyncInv
    PROVE  /\ MutualExclusion /\ MutexCountAgrees
           /\ InheritanceIsReturned /\ NobodyWaitsForFreeMutex
<1>1. /\ Good(k) /\ Waits(k) /\ PlacesOK /\ MutexOK
  BY DEF SyncInv, PlacesOK
<1>2. MutualExclusion
  BY <1>1 DEF MutexOK, MutexTypes
<1>3. MutexCountAgrees
  <2> SUFFICES ASSUME NEW t \in Users, "EXITED" \notin k.state[t]
               PROVE  k.mutex_count[t] =
                        Cardinality({m \in Mutexes : Active(m) /\ (t \in holding[m] \/ Locking(t, m))})
    BY DEF MutexCountAgrees
  <2>1. Settled(k, holding, pc[t], t)
    BY <1>1 DEF MutexOK
  <2> QED BY <2>1 DEF Settled, Claims, Locking
<1>4. InheritanceIsReturned
  <2> SUFFICES ASSUME NEW t \in Users
               PROVE  /\ requested[t] = IF k.priority_inherited[t] THEN k.original_priority[t]
                                                                   ELSE k.priority[t]
                      /\ k.priority[t] <= requested[t]
                      /\ k.mutex_count[t] = 0 => ~k.priority_inherited[t]
    BY DEF InheritanceIsReturned
  <2>1. Lawful(k, t, requested[t]) /\ NoFreeLoans(k) /\ t \in Threads
    BY <1>1 DEF MutexOK, Users
  <2> QED BY <2>1 DEF Lawful, NoFreeLoans
<1>5. NobodyWaitsForFreeMutex
  <2> SUFFICES ASSUME NEW m \in Mutexes, ~mutex[m].locked, k.wait_queue[m] # <<>>
               PROVE  \E t \in Users : /\ Locking(t, m) /\ "SLEEPING" \notin k.state[t]
                                       /\ k.wake_reason[t] = "DONE"
    BY DEF NobodyWaitsForFreeMutex
  <2>1. \E t \in Users : k.queue[t] = m
    BY <1>1, HeadWaits, MutexAssumption
  <2>2. PICK t \in Users : Heir(k, pc[t], t, m)
    BY <1>1, <2>1 DEF MutexOK
  <2> QED BY <2>2 DEF Heir, Locking, Asleep
<1> QED BY <1>2, <1>3, <1>4, <1>5

\* What it says of types.
LEMMA TypesFollow ==
    ASSUME SyncInv
    PROVE  TypeOK
<1>1. PlacesOK /\ UnitsOK /\ FlagOK /\ MailOK /\ MutexOK /\ program \in Programs
  BY DEF SyncInv
<1>2. k \in KernelState
  BY <1>1, FieldTypes DEF PlacesOK
<1>3. pc \in [Threads -> [at : Places, on : WaitQueues \cup {NoQueue}]]
  BY <1>1 DEF PlacesOK, Spot
<1>4. count \in [Semaphores -> 0..MaxCount] /\ \A s \in Binary : count[s] <= 1
  BY <1>1 DEF UnitsOK, CountsOK
<1>5. value \subseteq Bits
  BY <1>1 DEF FlagOK
<1>6. \A t \in Threads : want[t] = NoWish \/ want[t] \in [pattern : Masks, any : BOOLEAN,
                                       do_clear : BOOLEAN, value_out : SUBSET Bits]
  BY <1>1 DEF FlagOK, FlagWaitInfos
<1>7. /\ mbox \in [base : Slots, count : 0..Size,
                   itemqueue : [Slots -> Messages \cup {NoMessage}]]
      /\ wait_info \in [Threads -> Messages \cup {NoMessage}]
  BY <1>1 DEF MailOK, Mboxes, Contents
<1>8. /\ mutex \in [Mutexes -> [locked : BOOLEAN, owner : Threads \cup {NoThread},
                                ceiling : UserPriorities]]
      /\ holding \in [Mutexes -> SUBSET Threads]
      /\ requested \in [Threads -> Priorities]
  BY <1>1 DEF MutexOK, MutexTypes, Users
<1> QED BY <1>1, <1>2, <1>3, <1>4, <1>5, <1>6, <1>7, <1>8 DEF TypeOK

-----------------------------------------------------------------------------
(* Priorities in a steady program: threads that do not wait can run, so    *)
(* that the heir of a free mutex is no better than the thread that runs.   *)

AllClear == \A t \in Users : Clear(k, t) \/ pc[t] = Ended

\* t holds no mutex.
Bare(held, t) == \A o \in Mutexes : t \notin held[o]

\* The owner of m, or the heir that will look at it, is no worse than t.
Served(m, t) ==
    IF mutex[m].locked THEN k.priority[mutex[m].owner] <= k.priority[t]
    ELSE \E h \in Users : Heir(k, pc[h], h, m) /\ k.priority[h] <= k.priority[t]

InheritOK ==
    \A m \in Mutexes, t \in Users :
        Inherits(m) /\ k.queue[t] = m /\ Bare(holding, t) => Served(m, t)

SteadyInv == Steady => AllClear /\ InheritOK

\* No thread is kept off the run queues by this step, but by its exit.
StaysClear == \A t \in Users : (Clear(k, t) => Clear(k', t)) \/ pc'[t] = Ended

\* What leaves the marks of all threads leaves them clear.
LEMMA ClearedStays ==
    ASSUME Cleared(k, k')
    PROVE  StaysClear
BY DEF Cleared, StaysClear, Users

\* A step of calls that marks nobody leaves all threads clear.
LEMMA AllStaysClear ==
    ASSUME PlacesOK, AllClear, StaysClear, NEW S \in SUBSET WaitQueues, NEW D, Calls(S, D)
    PROVE  AllClear'
<1> SUFFICES ASSUME NEW t \in Users PROVE Clear(k', t) \/ pc'[t] = Ended
  BY DEF AllClear
<1>1. CASE pc[t] = Ended
  <2>1. pc[t] # UserCode /\ pc[t].on \notin S
    BY <1>1, QueueAssumption DEF Ended, UserCode, At
  <2>2. Bystands(t, D)
    BY <2>1 DEF Calls, Acts
  <2> QED BY <1>1, <2>2 DEF Bystands
<1>2. CASE pc[t] # Ended
  BY <1>2 DEF AllClear, StaysClear
<1> QED BY <1>1, <1>2

\* The current thread exits.
LEMMA KilledClear ==
    ASSUME Calling(k), PlacesOK, Killed
    PROVE  StaysClear
<1>1. /\ k' = exit(k) /\ pc' = [pc EXCEPT ![self] = Ended]
      /\ self \in Threads /\ pc'[self] = Ended
  BY DEF Killed, GoOn, Ended, Calling, Users, self, PlacesOK
<1>2. \A t \in Threads \ {self} : Clear(k, t) => Clear(k', t)
  BY <1>1, ExitCleared DEF self
<1> QED BY <1>1, <1>2 DEF StaysClear, Users

\* A call, after its timer was set or not, goes on, sleeps or returns.
LEMMA CallClear ==
    ASSUME Calling(k), NEW kk \in {k, armed(k), overdue(k)}
    PROVE  /\ kk.current_thread = self
           /\ Cleared(k, kk) /\ Cleared(k, clear_timer(kk, self))
           /\ \A q \in WaitQueues, r \in {"WAIT", "TIMEOUT"} : Cleared(k, block(kk, q, r))
<1>1. Calling(kk) /\ kk.current_thread = self
  <2>1. Calling(armed(k)) /\ armed(k).current_thread = self
    BY ArmedMoved DEF self
  <2>2. Calling(overdue(k)) /\ overdue(k).current_thread = self
    BY OverdueMoved DEF self
  <2> QED BY <2>1, <2>2 DEF self
<1>2. Cleared(k, kk)
  BY ArmedCleared DEF Cleared
<1>3. Cleared(kk, clear_timer(kk, self))
  <2>1. Good(kk) /\ Lists(kk) /\ QueuedSleeps(kk, self) /\ self \in Users
    BY <1>1 DEF Calling, Waits, QueuedSleeps, Users
  <2> QED BY <2>1, AlarmCleared
<1>4. \A q \in WaitQueues, r \in {"WAIT", "TIMEOUT"} : Cleared(kk, block(kk, q, r))
  BY <1>1, BlockCleared
<1> QED BY <1>1, <1>2, <1>3, <1>4 DEF Cleared

\* The scheduler and the calls on threads that a steady program makes.
LEMMA ThreadingClear ==
    ASSUME PlacesOK, program \in Programs, Steady, Threading
    PROVE  StaysClear /\ Plain(k, k')
<1>1. /\ Good(k) /\ Waits(k)
      /\ program.targets \subseteq Users
  BY ProgramsAssumption DEF PlacesOK
<1>2. ASSUME NEW call \in {"suspend", "kill", "set_priority"} PROVE ~FromAny(call)
  <2>1. ~FromDsr(call)
    BY <1>2 DEF FromDsr, Steady
  <2>2. ~FromThread(call)
    BY <1>2, Caller DEF FromThread, Steady, Calling, Users, self
  <2> QED BY <2>1, <2>2 DEF FromAny
<1>3. CASE Switch
  <2>1. k' = switched(k)
    BY <1>3 DEF Switch, switched, self
  <2> QED BY <1>1, <2>1, TimesliceCleared, SwitchUnseen, ClearedStays DEF Unseen
<1>4. CASE ClockTimeslice
  BY <1>1, <1>4, TimesliceCleared, TimesliceContinued, ClearedStays DEF ClockTimeslice
<1>5. ASSUME NEW t \in Users, ClockAlarm(t) PROVE StaysClear /\ Plain(k, k')
  <2>1. k' = alarm(k, t)
    BY <1>5 DEF ClockAlarm
  <2>2. Lists(k) /\ QueuedSleeps(k, t)
    BY <1>1 DEF Waits, QueuedSleeps, Users
  <2> QED BY <1>1, <2>1, <2>2, AlarmCleared, AlarmContinued, ClearedStays
<1>6. ASSUME NEW t \in program.targets, ThreadRelease(t) PROVE StaysClear /\ Plain(k, k')
  BY <1>1, <1>6, ReleaseCleared, ReleaseContinued, ClearedStays DEF ThreadRelease
<1>7. ASSUME NEW t \in program.targets, ThreadResume(t) PROVE StaysClear /\ Plain(k, k')
  BY <1>1, <1>7, ResumeCleared, ResumeContinued, ClearedStays DEF ThreadResume
<1>8. ASSUME NEW t, ThreadSuspend(t) \/ ThreadKill(t) \/ \E pri : ThreadSetPriority(t, pri)
      PROVE  FALSE
  BY <1>2, <1>8 DEF ThreadSuspend, ThreadKill, ThreadSetPriority, FromAny
<1> QED BY <1>3, <1>4, <1>5, <1>6, <1>7, <1>8 DEF Threading

\* The calls on semaphores.
LEMMA SemaphoreClear ==
    ASSUME PlacesOK, SemaphoreCalls
    PROVE  StaysClear
<1>1. PICK s \in Semaphores : SemWait(s) \/ SemTimedWait(s) \/ SemWoken(s)
                              \/ SemTryWait(s) \/ SemPost(s)
  BY DEF SemaphoreCalls
<1>2. Good(k) /\ Waits(k) /\ s \in WaitQueues
  BY SemaphoresAssumption DEF PlacesOK
<1>3. ASSUME Calling(k), NEW kk \in {k, armed(k), overdue(k)}, NEW place,
             Claim(s, kk) \/ GiveUp(kk) \/ Await(s, place, kk)
      PROVE  StaysClear
  BY <1>2, <1>3, CallClear, ClearedStays DEF Claim, GiveUp, Await
<1>4. CASE SemWait(s) \/ SemTimedWait(s)
  <2>1. Calling(k)
    BY <1>4, Caller DEF SemWait, SemTimedWait
  <2> QED BY <1>3, <1>4, <2>1 DEF SemWait, SemTimedWait
<1>5. CASE SemWoken(s)
  <2>1. PICK place \in SemPlaces : Continues(place) /\ ( \/ Killed \/ GiveUp(k)
                                     \/ Claim(s, k) \/ Await(s, place, k) )
    BY <1>5 DEF SemWoken
  <2>2. Calling(k)
    <3>1. place # "user"
      BY DEF SemPlaces
    <3> QED BY <2>1, <3>1, Caller
  <2> QED BY <1>3, <2>1, <2>2, KilledClear
<1>6. CASE SemTryWait(s)
  BY <1>6, ClearedStays DEF SemTryWait, Cleared
<1>7. CASE SemPost(s)
  BY <1>2, <1>7, WakeFirstCleared, ClearedStays DEF SemPost
<1> QED BY <1>1, <1>4, <1>5, <1>6, <1>7

\* The calls on the flag.
LEMMA FlagClear ==
    ASSUME PlacesOK, FlagCalls
    PROVE  StaysClear
<1>1. Good(k) /\ Waits(k) /\ flag \in WaitQueues
  BY FlagAssumption DEF PlacesOK
<1>2. ASSUME k' = k PROVE StaysClear
  BY <1>2, ClearedStays DEF Cleared
<1>3. ASSUME FlagWoken PROVE StaysClear
  <2>1. Calling(k)
    BY <1>3, Caller DEF FlagWoken
  <2>2. \/ Killed \/ k' = clear_timer(k, self)
        \/ \E r \in {"WAIT", "TIMEOUT"} : k' = block(k, flag, r)
    BY <1>3 DEF FlagWoken
  <2> QED BY <1>1, <2>1, <2>2, KilledClear, CallClear, ClearedStays
<1>4. ASSUME NEW wish, FlagWait(wish) \/ FlagTimedWait(wish) PROVE StaysClear
  <2>1. Calling(k)
    BY <1>4, Caller DEF FlagWait, FlagTimedWait
  <2>2. \/ k' = block(k, flag, "WAIT") \/ k' = block(armed(k), flag, "TIMEOUT")
        \/ k' = clear_timer(overdue(k), self)
    BY <1>4 DEF FlagWait, FlagTimedWait
  <2> QED BY <1>1, <2>1, <2>2, CallClear, ClearedStays
<1>5. ASSUME NEW wish, FlagPoll(wish) \/ FlagFound(wish) PROVE StaysClear
  BY <1>2, <1>5 DEF FlagPoll, FlagFound
<1>6. ASSUME NEW mask, FlagMaskBits(mask) PROVE StaysClear
  BY <1>2, <1>6 DEF FlagMaskBits
<1>7. ASSUME NEW mask, FlagSetBits(mask) PROVE StaysClear
  <2>1. PICK chosen : k' = dismiss_all(k, k.wait_queue[flag], chosen, "DONE")
    BY <1>7 DEF FlagSetBits, waiting
  <2>2. AllDismissed(k, k', Dismissed(k.wait_queue[flag], chosen, Len(k.wait_queue[flag])), "DONE")
    BY <1>1, <2>1, DismissAll
  <2>3. Cleared(k, k')
    BY <2>2 DEF AllDismissed
  <2> QED BY <2>3, ClearedStays
<1> QED BY <1>3, <1>4, <1>5, <1>6, <1>7 DEF FlagCalls

\* The calls on the mailbox.
LEMMA MailClear ==
    ASSUME PlacesOK, MailboxCalls
    PROVE  StaysClear
<1>1. Good(k) /\ Waits(k) /\ MailQueues \subseteq WaitQueues
  BY MailboxAssumption DEF PlacesOK, MailQueues
<1>2. ASSUME NEW q \in MailQueues, k' = wake_first(k, q) PROVE StaysClear
  BY <1>1, <1>2, WakeFirstCleared, ClearedStays
<1>3. ASSUME NEW q \in MailQueues, NEW timed, Calling(k),
             GoToSleep(q, timed) \/ k' = overdue(k)
      PROVE  StaysClear
  <2>1. \/ k' = block(k, q, "WAIT") \/ k' = block(armed(k), q, "TIMEOUT") \/ k' = overdue(k)
    BY <1>3 DEF GoToSleep
  <2> QED BY <1>1, <1>3, <2>1, CallClear, ClearedStays
<1>4. CASE MboxTryGet
  BY <1>2, <1>4 DEF MboxTryGet, TakeMessage, MailQueues
<1>5. CASE MboxWoken
  <2>1. Calling(k)
    BY <1>5, Caller DEF MboxWoken
  <2>2. Killed \/ k' = clear_timer(k, self)
    BY <1>5 DEF MboxWoken
  <2> QED BY <2>1, <2>2, KilledClear, CallClear, ClearedStays
<1>6. ASSUME NEW timed \in BOOLEAN, MboxGet(timed) PROVE StaysClear
  <2>1. Calling(k)
    BY <1>6, Caller DEF MboxGet
  <2> QED BY <1>2, <1>3, <1>6, <2>1 DEF MboxGet, TakeMessage, MailQueues
<1>7. ASSUME NEW m \in Messages, MboxTryPut(m) PROVE StaysClear
  BY <1>2, <1>7 DEF MboxTryPut, GiveMessage, MailQueues
<1>8. ASSUME NEW m \in Messages, NEW timed \in BOOLEAN, MboxPut(m, timed) PROVE StaysClear
  <2>1. Calling(k)
    BY <1>8, Caller DEF MboxPut
  <2> QED BY <1>2, <1>3, <1>8, <2>1 DEF MboxPut, GiveMessage, MailQueues
<1> QED BY <1>4, <1>5, <1>6, <1>7, <1>8 DEF MailboxCalls

\* A mutex is counted before the thread tries to lock it.
LEMMA CountedClear ==
    ASSUME PlacesOK, MutexOK, Calling(k), NEW m \in Mutexes
    PROVE  LET kk == count_mutex(k, self, m)
           IN  /\ Cleared(k, kk) /\ Raised(k, kk, self)
               /\ Inherits(m) => kk.priority = k.priority
<1>1. /\ Good(k) /\ self \in Users /\ Lists(k) /\ QueuedSleeps(k, self)
      /\ mutex[m].ceiling \in Priorities
  BY Owner DEF Calling, Waits, QueuedSleeps, Awake, self
<1> QED BY <1>1, CountFields, RankedCleared

\* A turn of the loop in lock().
LEMMA LocksClear ==
    ASSUME PlacesOK, MutexOK, Calling(k), NEW m \in Mutexes, NEW kk, Calling(kk),
           NEW place, kk.current_thread = self, Cleared(k, kk), LockIfFree(m, kk, place)
    PROVE  StaysClear
<1>1. Cleared(kk, k')
  <2>1. CASE mutex[m].locked
    <3>1. mutex[m].owner \in Users
      BY <2>1, Owner
    <3> QED BY <2>1, <3>1, LockLends DEF LockIfFree
  <2>2. CASE ~mutex[m].locked
    BY <2>2 DEF LockIfFree, Cleared
  <2> QED BY <2>1, <2>2
<1> QED BY <1>1, ClearedStays DEF Cleared

\* unlock() by the owner lends the heir what the ex-owner had.
LEMMA UnlocksRelay ==
    ASSUME PlacesOK, MutexOK, Calling(k), NEW m \in Mutexes, self \in holding[m]
    PROVE  Relayed(k, unlocked(k, m), m)
<1>1. Good(k) /\ Waits(k) /\ self \in Users /\ Awake(k, self) /\ m \in WaitQueues
  BY MutexAssumption DEF Calling, self
<1>2. k.wait_queue[m] # <<>> =>
        /\ Head(k.wait_queue[m]) \in Users
        /\ pc[Head(k.wait_queue[m])] \in {At("mutex_lock", m), At("cond_lock", m)}
  BY <1>1, HeadWaits, MutexWaiters
<1>3. /\ Active(m) => k.mutex_count[self] > 0
      /\ k.wait_queue[m] # <<>> /\ Active(m) => k.mutex_count[Head(k.wait_queue[m])] > 0
  BY <1>1, <1>2, HolderCounts
<1> QED BY <1>1, <1>3, UnlockedRanks

\* The calls on mutexes and condition variables.
LEMMA MutexClear ==
    ASSUME PlacesOK, MutexOK, MutexCalls
    PROVE  StaysClear
<1>1. Good(k) /\ Waits(k) /\ MutexQueues \subseteq WaitQueues
  BY MutexAssumption DEF PlacesOK, MutexQueues
<1>2. ASSUME NEW m \in Mutexes, MutexLock(m) \/ CondRelock(m) PROVE StaysClear
  <2>1. Calling(k)
    BY <1>2, Caller DEF MutexLock, CondRelock
  <2> DEFINE kk == count_mutex(k, self, m)
  <2>2. PICK place : LockIfFree(m, kk, place)
    BY <1>2 DEF MutexLock, CondRelock
  <2>3. Calling(kk) /\ kk.current_thread = self /\ Cleared(k, kk)
    BY <2>1, CountedLock, CountedClear
  <2> HIDE DEF kk
  <2> QED BY <2>1, <2>2, <2>3, LocksClear
<1>3. ASSUME NEW m \in Mutexes, MutexTryLock(m) PROVE StaysClear
  <2>1. Calling(k) /\ k' = count_mutex(k, self, m)
    BY <1>3, Caller DEF MutexTryLock
  <2> QED BY <2>1, CountedClear, ClearedStays
<1>4. ASSUME NEW m \in Mutexes, MutexWoken(m) PROVE StaysClear
  <2>1. Calling(k) /\ self \in Users /\ pc[self] \in {At("mutex_lock", m), At("cond_lock", m)}
    BY <1>4, Caller DEF MutexWoken, Calling, self, Spot, At
  <2>2. ASSUME k' = uncount_mutex(k, self, m) PROVE StaysClear
    <3>1. Lists(k) /\ QueuedSleeps(k, self)
      BY <2>1 DEF Calling, Waits, QueuedSleeps, Awake, self
    <3>2. Active(m) => k.mutex_count[self] > 0
      BY <1>1, <2>1, HolderCounts
    <3>3. Ranked(k, k')
      BY <1>1, <2>1, <2>2, <3>1, <3>2, UncountFields
    <3> QED BY <3>3, RankedCleared, ClearedStays
  <2>3. ASSUME LockIfFree(m, k, pc[self].at) PROVE StaysClear
    <3>1. k.current_thread = self /\ Cleared(k, k)
      BY DEF self, Cleared
    <3> QED BY <2>1, <2>3, <3>1, LocksClear
  <2> QED BY <1>4, <2>1, <2>2, <2>3, KilledClear DEF MutexWoken
<1>5. ASSUME NEW m \in Mutexes, self \in holding[m], Calling(k),
             NEW kk, kk = unlocked(k, m)
      PROVE  Cleared(k, kk) /\ Calling(kk) /\ kk.current_thread = self
  BY <1>5, UnlocksRelay, UnlocksCalling DEF Relayed
<1>6. ASSUME NEW m \in Mutexes, MutexUnlock(m) PROVE StaysClear
  <2>1. Calling(k) /\ self \in holding[m] /\ k' = unlocked(k, m)
    BY <1>6, Caller DEF MutexUnlock
  <2> QED BY <1>5, <2>1, ClearedStays
<1>7. ASSUME NEW c \in Conds, CondWait(c) \/ CondTimedWait(c) PROVE StaysClear
  <2>1. PICK kk : kk = unlocked(k, MutexOf[c])
    OBVIOUS
  <2>2. Calling(k) /\ self \in holding[MutexOf[c]] /\ MutexOf[c] \in Mutexes /\ c \in WaitQueues
    BY <1>7, Caller, MutexAssumption DEF CondWait, CondTimedWait
  <2>3. Cleared(k, kk) /\ Calling(kk) /\ kk.current_thread = self
    BY <1>5, <2>1, <2>2
  <2>4. \/ k' = block(kk, c, "WAIT")
        \/ k' = enqueue(set_timer(sleep(kk), "TIMEOUT"), c, kk.current_thread)
        \/ k' = alarm(set_timer(sleep(kk), "TIMEOUT"), kk.current_thread)
    BY <1>7, <2>1, <2>3 DEF CondWait, CondTimedWait, waits_in_time
  <2>5. Cleared(kk, k')
    BY <2>2, <2>3, <2>4, BlockCleared, WaitsInTimeCleared
  <2> QED BY <2>3, <2>5, ClearedStays DEF Cleared
<1>8. ASSUME NEW c \in Conds, CondWoken(c) PROVE StaysClear
  <2>1. Calling(k) /\ (Killed \/ k' = clear_timer(k, self))
    BY <1>8, Caller DEF CondWoken
  <2> QED BY <2>1, KilledClear, CallClear, ClearedStays
<1>9. ASSUME NEW q \in MutexQueues, NEW reason \in {"DONE", "BREAK"},
             k' = dismiss_all(k, k.wait_queue[q], DOMAIN k.wait_queue[q], reason)
      PROVE  StaysClear
  <2> DEFINE list == k.wait_queue[q]
  <2>1. AllDismissed(k, k', Dismissed(list, DOMAIN list, Len(list)), reason)
    BY <1>1, <1>9, DismissAll
  <2>2. Cleared(k, k')
    BY <2>1 DEF AllDismissed
  <2> QED BY <2>2, ClearedStays
<1>10. ASSUME NEW m \in Mutexes, MutexRelease(m) PROVE StaysClear
  BY <1>9, <1>10 DEF MutexRelease, MutexQueues
<1>11. ASSUME NEW c \in Conds, CondBroadcast(c) PROVE StaysClear
  BY <1>9, <1>11 DEF CondBroadcast, MutexQueues
<1>12. ASSUME NEW c \in Conds, CondSignal(c) PROVE StaysClear
  BY <1>1, <1>12, WakeFirstCleared, ClearedStays DEF CondSignal, MutexQueues
<1>13. ASSUME NEW m \in Mutexes, NEW pri \in UserPriorities, MutexSetCeiling(m, pri)
       PROVE  StaysClear
  BY <1>13, ClearedStays DEF MutexSetCeiling, Cleared
<1> QED BY <1>2, <1>3, <1>4, <1>6, <1>7, <1>8, <1>10, <1>11, <1>12, <1>13 DEF MutexCalls

\* What a mutex serves goes on being served, if nobody takes it or gives it
\* back and those who serve it get no worse.
LEMMA ServedStays ==
    ASSUME PlacesOK, InheritOK, Good(k'), NEW m \in Mutexes, Inherits(m), NEW t \in Users,
           NEW D, Bystands(t, D), k'.queue[t] = m, Bare(holding, t),
           k'.priority[t] = k.priority[t],
           mutex'[m].locked = mutex[m].locked, mutex'[m].owner = mutex[m].owner,
           mutex[m].locked => /\ mutex[m].owner \in Users
                              /\ k'.priority[mutex[m].owner] <= k.priority[mutex[m].owner],
           ~mutex[m].locked =>
             \A h \in Users : Heir(k, pc[h], h, m) =>
               Bystands(h, D) /\ k'.priority[h] <= k.priority[h]
    PROVE  Served(m, t)'
<1>1. Good(k) /\ m # NoQueue
  BY MutexAssumption, QueueAssumption DEF PlacesOK
<1>2. \A u \in Users : k.priority[u] \in Int /\ k'.priority[u] \in Int
  BY <1>1, PriorityNumbers DEF Users
<1>3. k.queue[t] = m
  BY <1>1 DEF Bystands, GoesOn, Ends
<1>4. Served(m, t)
  BY <1>3 DEF InheritOK
<1>5. CASE mutex[m].locked
  BY <1>2, <1>4, <1>5 DEF Served
<1>6. CASE ~mutex[m].locked
  <2>1. PICK h \in Users : Heir(k, pc[h], h, m) /\ k.priority[h] <= k.priority[t]
    BY <1>4, <1>6 DEF Served
  <2>2. Heir(k', pc'[h], h, m)
    BY <1>6, <2>1, HeirStays
  <2>3. k'.priority[h] <= k'.priority[t]
    BY <1>2, <1>6, <2>1
  <2> QED BY <1>6, <2>1, <2>2, <2>3 DEF Served
<1> QED BY <1>5, <1>6

\* A step that changes no priority and no mutex.
LEMMA PlainServed ==
    ASSUME PlacesOK, MutexOK, InheritOK, Good(k'), Plain(k, k'), holding' = holding, NEW D,
           \A m \in Mutexes : mutex'[m].locked = mutex[m].locked
                              /\ mutex'[m].owner = mutex[m].owner,
           \A t \in Users : \/ Bystands(t, D)
                            \/ /\ k'.queue[t] \notin Mutexes
                               /\ \A m \in Mutexes : ~Heir(k, pc[t], t, m)
    PROVE  InheritOK'
<1> SUFFICES ASSUME NEW m \in Mutexes, NEW t \in Users,
                    Inherits(m), k'.queue[t] = m, Bare(holding, t)
             PROVE  Served(m, t)'
  BY DEF InheritOK, Bare
<1>1. /\ k'.priority = k.priority /\ Good(k)
      /\ \A u \in Users : k'.priority[u] <= k.priority[u]
  BY PriorityNumbers DEF Plain, SamePriorities, Users, PlacesOK
<1>2. Bystands(t, D)
  OBVIOUS
<1>3. mutex[m].locked => mutex[m].owner \in Users
  BY Owner
<1>4. \A h \in Users : Heir(k, pc[h], h, m) => Bystands(h, D) /\ k'.priority[h] <= k.priority[h]
  BY <1>1
<1> QED BY <1>1, <1>2, <1>3, <1>4, ServedStays

\* A step of a call that is not about mutexes.
LEMMA OthersServed ==
    ASSUME PlacesOK, MutexOK, InheritOK, Plain(k, k'), NEW S, NEW D, Calls(S, D),
           S \cap Mutexes = {}, UNCHANGED mutexVars
    PROVE  InheritOK'
<1>1. \A m \in Mutexes : m # NoQueue /\ m \notin S
  BY MutexAssumption, QueueAssumption
<1>2. ASSUME NEW t \in Users, ~Bystands(t, D)
      PROVE  k'.queue[t] \notin Mutexes /\ \A m \in Mutexes : ~Heir(k, pc[t], t, m)
  <2>1. t = self /\ Acts(S)
    BY <1>2 DEF Calls
  <2>2. ~(IsWait(UserCode) \/ IsWait(Ended))
    BY DEF IsWait, UserCode, Ended, At, SemPlaces, FlagPlaces, MboxPlaces, LockPlaces, CondPlaces
  <2>3. k'.queue[t] = NoQueue \/ k'.queue[t] \in S
    BY <2>1, <2>2 DEF Acts, Awake
  <2>4. \A m \in Mutexes : pc[t] \notin {At("mutex_lock", m), At("cond_lock", m)}
    BY <1>1, <2>1 DEF Acts, UserCode, At
  <2> QED BY <1>1, <2>3, <2>4 DEF Heir
<1>3. Good(k') /\ holding' = holding /\ mutex' = mutex
  BY DEF Calls, mutexVars
<1> QED BY <1>2, <1>3, PlainServed

\* The thread that runs is no worse than one that could.
LEMMA RunnerBest ==
    ASSUME PlacesOK, ~NeedSwitch, NEW h \in Users, k.state[h] = RUNNING
    PROVE  k.priority[self] <= k.priority[h]
BY DEF PlacesOK, Good, Ordered, NotWorse, Runs, NeedSwitch, self, Users

\* A turn of the loop in lock(): the thread takes the mutex, because it is no
\* worse than the heir, or waits and lends the owner its priority.
LEMMA LockServed ==
    ASSUME PlacesOK, MutexOK, InheritOK, AllClear, ~NeedSwitch, Calling(k), MutexEffect,
           NEW m \in Mutexes, NEW kk, Calling(kk), NEW place, kk.current_thread = self,
           Raised(k, kk, self), Inherits(m) => kk.priority = k.priority,
           LockIfFree(m, kk, place), pc[self] = UserCode \/ pc[self].on = m
    PROVE  InheritOK'
<1> SUFFICES ASSUME NEW m1 \in Mutexes, NEW t \in Users,
                    Inherits(m1), k'.queue[t] = m1, Bare(holding, t)'
             PROVE  Served(m1, t)'
  BY DEF InheritOK
<1>1. PICK D : Calls(MutexQueues, D)
  BY DEF MutexEffect
<1>2. /\ Good(k) /\ Good(k') /\ Good(kk) /\ self \in Users
      /\ \A u \in Users : u = self \/ Bystands(u, D)
  BY <1>1 DEF PlacesOK, Calls, Calling, self
<1>3. \A u \in Users : k.priority[u] \in Int /\ k'.priority[u] \in Int /\ kk.priority[u] \in Int
  BY <1>2, PriorityNumbers DEF Users
<1>4. \A m2 \in Mutexes \ {m} : ~Heir(k, pc[self], self, m2)
  BY DEF Heir, UserCode, At
<1>5. \A u \in Users : /\ kk.priority[u] <= k.priority[u]
                       /\ u # self => kk.priority[u] = k.priority[u]
  BY DEF Raised, Users
<1>6. mutex[m1].locked => mutex[m1].owner \in Users
  BY Owner
<1>7. CASE ~mutex[m].locked /\ TakeMutex(m) /\ k' = kk /\ Return
  <2>1. Awake(kk, self) /\ m1 # NoQueue
    BY MutexAssumption, QueueAssumption DEF Calling
  <2>2. t # self /\ Bystands(t, D)
    BY <1>2, <1>7, <2>1 DEF Awake
  <2>3. \A o \in Mutexes : holding[o] \subseteq holding'[o]
    BY <1>7 DEF TakeMutex, MutexOK, MutexTypes
  <2>4. Bare(holding, t)
    BY <2>3 DEF Bare
  <2>5. CASE m1 = m
    <3>1. k.queue[t] = m
      BY <2>1, <2>2, <2>5 DEF Bystands, GoesOn, Ends
    <3>2. PICK h \in Users : Heir(k, pc[h], h, m) /\ k.priority[h] <= k.priority[t]
      BY <1>7, <2>4, <2>5, <3>1 DEF InheritOK, Served
    <3>3. k.state[h] = RUNNING
      <4>1. pc[h] # Ended
        BY <3>2 DEF Heir, Ended, At
      <4> QED BY <3>2, <4>1 DEF AllClear, Clear, Heir, Asleep, RUNNING
    <3>4. k.priority[self] <= k.priority[h]
      BY <3>3, RunnerBest
    <3>5. mutex'[m].locked /\ mutex'[m].owner = self
      BY <1>7 DEF TakeMutex, MutexOK, MutexTypes
    <3>6. k'.priority[self] <= k'.priority[t]
      BY <1>2, <1>3, <1>5, <1>7, <2>2, <3>2, <3>4
    <3> QED BY <2>5, <3>5, <3>6 DEF Served
  <2>6. CASE m1 # m
    <3>1. mutex'[m1] = mutex[m1]
      BY <1>7, <2>6 DEF TakeMutex, MutexOK, MutexTypes
    <3>2. \A h \in Users : Heir(k, pc[h], h, m1) =>
            Bystands(h, D) /\ k'.priority[h] <= k.priority[h]
      BY <1>2, <1>4, <1>5, <1>7, <2>6
    <3> QED BY <1>2, <1>5, <1>6, <1>7, <2>2, <2>4, <3>1, <3>2, ServedStays
  <2> QED BY <2>5, <2>6
<1>8. CASE mutex[m].locked
  <2> DEFINE owner == mutex[m].owner
  <2>1. owner \in Users /\ holding[m] = {owner}
    BY <1>8, Owner
  <2>2. Raised(kk, k', owner) /\ (Inherits(m) => k'.priority[owner] <= kk.priority[self])
    BY <1>8, <2>1, LockLends DEF LockIfFree
  <2>3. mutex' = mutex /\ holding' = holding
    BY <1>8 DEF LockIfFree
  <2>4. Bare(holding, t) /\ t # owner
    BY <2>1, <2>3 DEF Bare
  <2> HIDE DEF owner
  <2>5. /\ \A u \in Users : k'.priority[u] <= kk.priority[u]
        /\ k'.priority[t] = kk.priority[t]
    BY <2>2, <2>4 DEF Raised, Users
  <2>6. \A u \in Users : k'.priority[u] <= k.priority[u]
    BY <1>3, <1>5, <2>5
  <2>7. CASE t = self
    <3>1. m1 = m
      <4>1. pc'[self] = At(place, m)
        BY <1>2, <1>8 DEF LockIfFree, GoOn, PlacesOK, Users
      <4>2. PlacesOK'
        BY <1>1, CallsPlaces
      <4>3. pc'[t].on = m1
        <5>1. ThreadOK(k', pc'[t], t) /\ m1 # NoQueue
          BY <4>2, MutexAssumption, QueueAssumption DEF PlacesOK
        <5> QED BY <5>1 DEF ThreadOK
      <4> QED BY <2>7, <4>1, <4>3 DEF At
    <3>2. k'.priority[owner] <= k'.priority[t]
      BY <2>2, <2>5, <2>7, <3>1
    <3> QED BY <1>8, <2>3, <3>1, <3>2 DEF Served, owner
  <2>8. CASE t # self
    <3>1. k'.priority[t] = k.priority[t] /\ Bystands(t, D)
      BY <1>2, <1>5, <2>5, <2>8
    <3>2. ~mutex[m1].locked =>
             \A h \in Users : Heir(k, pc[h], h, m1) =>
               Bystands(h, D) /\ k'.priority[h] <= k.priority[h]
      BY <1>2, <1>4, <1>8, <2>6
    <3> QED BY <1>2, <1>6, <2>3, <2>4, <2>6, <3>1, <3>2, ServedStays
  <2> QED BY <2>7, <2>8
<1> QED BY <1>7, <1>8 DEF LockIfFree

\* A thread that still holds a mutex has it counted.
LEMMA StillCounts ==
    ASSUME MutexOK', Good(k'), NEW t \in Users, NEW m \in Mutexes, Inherits(m),
           t \in holding'[m]
    PROVE  k'.mutex_count[t] # 0
<1>1. Settled(k', holding', pc'[t], t)
  BY DEF MutexOK
<1>2. m \in Claims(holding', pc'[t], t)
  BY DEF Claims, Inherits, Active
<1>3. /\ Cardinality(Claims(holding', pc'[t], t)) > 0
      /\ Cardinality(Claims(holding', pc'[t], t)) \in Nat
  BY <1>2, ClaimsCount
<1>4. k'.mutex_count[t] \in Nat
  BY FieldTypes DEF Users
<1> QED BY <1>1, <1>3, <1>4 DEF Settled

\* A wait for a mutex that is broken off: what was lent to a thread without
\* mutexes is taken back.
LEMMA BreakServed ==
    ASSUME PlacesOK, MutexOK, InheritOK, MutexEffect, Calling(k), NEW m \in Mutexes,
           pc[self] \in {At("mutex_lock", m), At("cond_lock", m)},
           wake_reason = "BREAK", k' = uncount_mutex(k, self, m), UNCHANGED <<mutex, holding>>
    PROVE  InheritOK'
<1> SUFFICES ASSUME NEW m1 \in Mutexes, NEW t \in Users,
                    Inherits(m1), k'.queue[t] = m1, Bare(holding, t)
             PROVE  Served(m1, t)'
  BY DEF InheritOK, Bare
<1>1. PICK D : Calls(MutexQueues, D)
  BY DEF MutexEffect
<1>2. /\ Good(k) /\ Good(k') /\ MutexOK' /\ self \in Users /\ m1 # NoQueue
      /\ k.queue[self] = NoQueue
      /\ \A u \in Users : u = self \/ Bystands(u, D)
  BY <1>1, MutexAssumption, QueueAssumption
     DEF PlacesOK, Calls, Calling, Awake, self, MutexEffect
<1>3. /\ Ranked(k, k')
      /\ \A u \in Users :
           u # self \/ k'.mutex_count[self] # 0 => k'.priority[u] = k.priority[u]
  <2>1. Lists(k) /\ QueuedSleeps(k, self)
    BY <1>2 DEF Calling, Waits, QueuedSleeps
  <2>2. Active(m) => k.mutex_count[self] > 0
    BY <1>2, HolderCounts
  <2> QED BY <1>2, <2>1, <2>2, UncountFields DEF Users
<1>4. t # self
  BY <1>2, <1>3 DEF Ranked, SameMarks
<1>5. \A m2 \in Mutexes : ~Heir(k, pc[self], self, m2)
  BY DEF Heir, wake_reason
<1>6. mutex[m1].locked => /\ mutex[m1].owner \in Users
                          /\ k'.priority[mutex[m1].owner] <= k.priority[mutex[m1].owner]
  <2> SUFFICES ASSUME mutex[m1].locked
               PROVE  /\ mutex[m1].owner \in Users
                      /\ k'.priority[mutex[m1].owner] <= k.priority[mutex[m1].owner]
    OBVIOUS
  <2>1. mutex[m1].owner \in Users /\ holding'[m1] = {mutex[m1].owner}
    BY Owner
  <2>2. mutex[m1].owner = self => k'.mutex_count[self] # 0
    BY <1>2, <2>1, StillCounts
  <2>3. k'.priority[mutex[m1].owner] = k.priority[mutex[m1].owner]
    BY <1>3, <2>1, <2>2
  <2> QED BY <1>2, <2>1, <2>3, PriorityNumbers DEF Users
<1>7. \A h \in Users : Heir(k, pc[h], h, m1) =>
        Bystands(h, D) /\ k'.priority[h] <= k.priority[h]
  BY <1>2, <1>3, <1>5, PriorityNumbers DEF Users
<1> QED BY <1>2, <1>3, <1>4, <1>6, <1>7, ServedStays

\* unlock(), and what the caller does next without a mutex: the heir has
\* what the ex-owner had, as long as others wait behind it.
LEMMA UnlockServed ==
    ASSUME PlacesOK, MutexOK, InheritOK, MutexEffect, Calling(k), pc[self] = UserCode,
           NEW m \in Mutexes, self \in holding[m], FreeMutex(m),
           NEW E, Moved(unlocked(k, m), k', E), Plain(unlocked(k, m), k'),
           k'.queue[self] \notin Mutexes
    PROVE  InheritOK'
<1> DEFINE kk == unlocked(k, m)
           heir == Head(k.wait_queue[m])
           waited == k.wait_queue[m] # <<>>
<1> SUFFICES ASSUME NEW m1 \in Mutexes, NEW t \in Users,
                    Inherits(m1), k'.queue[t] = m1, Bare(holding, t)'
             PROVE  Served(m1, t)'
  BY DEF InheritOK
<1>1. PICK D : Calls(MutexQueues, D)
  BY DEF MutexEffect
<1>2. /\ Good(k) /\ Waits(k) /\ Good(k') /\ MutexOK' /\ self \in Users
      /\ m1 # NoQueue /\ m \in WaitQueues
      /\ Awake(k, self) /\ t # self
      /\ \A u \in Users : u = self \/ Bystands(u, D)
  BY <1>1, MutexAssumption, QueueAssumption
     DEF PlacesOK, Calls, Calling, self, MutexEffect
<1>3. waited => /\ heir \in Users /\ k.queue[heir] = m /\ heir # self
                /\ pc[heir] \in {At("mutex_lock", m), At("cond_lock", m)}
  <2>1. waited => heir \in Users /\ k.queue[heir] = m
    BY <1>2, HeadWaits
  <2> QED BY <1>2, <2>1, MutexWaiters, MutexAssumption, QueueAssumption DEF Awake
<1>4. /\ kk.current_thread = self
      /\ waited => /\ Awake(kk, heir)
                   /\ kk.sleep_reason[heir] = "NONE" /\ kk.wake_reason[heir] = "DONE"
  <2>1. /\ Active(m) => k.mutex_count[self] > 0
        /\ waited /\ Active(m) => k.mutex_count[heir] > 0
    BY <1>2, <1>3, HolderCounts
  <2>2. waited => heir \in {heir}
    OBVIOUS
  <2>3. /\ Continued(k, kk, {heir})
        /\ waited => /\ Awake(kk, heir)
                     /\ kk.sleep_reason[heir] = "NONE" /\ kk.wake_reason[heir] = "DONE"
    BY <1>2, <2>1, <2>2, UnlockedContinued
  <2>4. kk.current_thread = self
    BY <2>3 DEF Continued, Step, self
  <2> QED BY <2>3, <2>4
<1>5. Relayed(k, kk, m)
  BY UnlocksRelay
<1>6. k'.priority = kk.priority /\ k'.mutex_count = kk.mutex_count
  BY DEF Plain, SamePriorities
<1>7. Moved(kk, k', E)
  OBVIOUS
<1> HIDE DEF kk
<1>8. ASSUME waited
      PROVE  k'.queue[heir] = NoQueue /\ Heir(k', pc'[heir], heir, m)
  <2>1. heir \in Threads \ {kk.current_thread} /\ pc'[heir] = pc[heir]
    BY <1>2, <1>3, <1>4, <1>8 DEF Users, Bystands
  <2>2. GoesOn(kk, k', heir) \/ Ends(kk, k', heir, E)
    BY <1>7, <2>1 DEF Moved
  <2> QED BY <1>3, <1>4, <1>8, <2>1, <2>2 DEF GoesOn, Ends, Awake, Heir
<1>9. /\ ~mutex'[m].locked /\ holding'[m] \subseteq holding[m]
      /\ \A mm \in Mutexes : mm # m => mutex'[mm] = mutex[mm] /\ holding'[mm] = holding[mm]
      /\ mutex[m].locked /\ mutex[m].owner = self
  <2>1. mutex[m].locked /\ mutex[m].owner = self
    <3>1. holding[m] # {}
      OBVIOUS
    <3>2. mutex[m].locked /\ holding[m] = {mutex[m].owner}
      BY <3>1, Owner
    <3> QED BY <3>2
  <2> QED BY <2>1 DEF FreeMutex, MutexOK, MutexTypes
<1>10. Bare(holding, t)
  <2>1. holding[m] = {self}
    BY <1>9, Owner
  <2> QED BY <1>2, <1>9, <2>1 DEF Bare
<1>11. Bystands(t, D) /\ k.queue[t] = m1 /\ ~(waited /\ t = heir)
  BY <1>2, <1>8 DEF Bystands, GoesOn, Ends
<1>12. /\ k'.priority[t] = k.priority[t]
       /\ \A u \in Users :
            u # self \/ k'.mutex_count[self] # 0 => k'.priority[u] <= k.priority[u]
  BY <1>2, <1>5, <1>6, <1>11 DEF Relayed, Users
<1>13. CASE m1 = m
  <2>1. waited
    BY <1>2, <1>11, <1>13, EmptyQueue DEF Users
  <2>2. k'.priority[heir] <= k.priority[self]
    BY <1>5, <1>6, <1>11, <1>13, <2>1 DEF Relayed
  <2>3. k.priority[self] <= k.priority[t]
    BY <1>9, <1>10, <1>11, <1>13 DEF InheritOK, Served
  <2>4. /\ k'.priority[heir] \in Int /\ k.priority[self] \in Int
        /\ k.priority[t] \in Int /\ k'.priority[t] \in Int
    BY <1>2, <1>3, <2>1, PriorityNumbers DEF Users
  <2>5. k'.priority[heir] <= k'.priority[t]
    BY <1>12, <2>2, <2>3, <2>4
  <2> QED BY <1>3, <1>8, <1>9, <1>13, <2>1, <2>5 DEF Served
<1>14. CASE m1 # m
  <2>1. mutex'[m1] = mutex[m1] /\ holding'[m1] = holding[m1]
    BY <1>9, <1>14
  <2>2. mutex[m1].locked => /\ mutex[m1].owner \in Users
                            /\ k'.priority[mutex[m1].owner] <= k.priority[mutex[m1].owner]
    <3> SUFFICES ASSUME mutex[m1].locked
                 PROVE  /\ mutex[m1].owner \in Users
                        /\ k'.priority[mutex[m1].owner] <= k.priority[mutex[m1].owner]
      OBVIOUS
    <3>1. mutex[m1].owner \in Users /\ holding'[m1] = {mutex[m1].owner}
      BY <2>1, Owner
    <3>2. mutex[m1].owner = self => k'.mutex_count[self] # 0
      BY <1>2, <3>1, StillCounts
    <3> QED BY <1>12, <3>1, <3>2
  <2>3. \A h \in Users : Heir(k, pc[h], h, m1) =>
          Bystands(h, D) /\ k'.priority[h] <= k.priority[h]
    <3>1. ~Heir(k, pc[self], self, m1)
      BY DEF Heir, UserCode, At
    <3> QED BY <1>2, <1>12, <3>1
  <2> QED BY <1>2, <1>10, <1>11, <1>12, <2>1, <2>2, <2>3, ServedStays
<1> QED BY <1>13, <1>14

\* The current thread goes on without waiting for a mutex, or dies.
LEMMA LeaverServed ==
    ASSUME PlacesOK, MutexOK, InheritOK, MutexEffect, Plain(k, k'), UNCHANGED <<mutex, holding>>,
           k'.queue[self] = NoQueue, \A m \in Mutexes : ~Heir(k, pc[self], self, m)
    PROVE  InheritOK'
<1>1. PICK D : Calls(MutexQueues, D)
  BY DEF MutexEffect
<1>2. Good(k') /\ \A t \in Users : t = self \/ Bystands(t, D)
  BY <1>1 DEF Calls
<1>3. NoQueue \notin Mutexes
  BY MutexAssumption, QueueAssumption
<1> QED BY <1>2, <1>3, PlainServed

\* A thread that waits exits when it runs again.
LEMMA KilledServed ==
    ASSUME PlacesOK, MutexOK, InheritOK, MutexEffect, Calling(k), Killed,
           UNCHANGED <<mutex, holding>>
    PROVE  InheritOK'
<1>1. k' = exit(k) /\ wake_reason = "EXIT"
  BY DEF Killed
<1>2. Plain(k, k') /\ k'.queue[self] = NoQueue
  BY <1>1, ExitMoved DEF Awake, self
<1>3. \A m \in Mutexes : ~Heir(k, pc[self], self, m)
  BY <1>1 DEF Heir, wake_reason
<1> QED BY <1>2, <1>3, LeaverServed

\* unlock() and the waits on a condition variable.
LEMMA UnlocksServed ==
    ASSUME PlacesOK, MutexOK, InheritOK, MutexEffect,
           \/ \E m \in Mutexes : MutexUnlock(m)
           \/ \E c \in Conds : CondWait(c) \/ CondTimedWait(c)
    PROVE  InheritOK'
<1>1. NoQueue \notin Mutexes /\ \A c \in Conds : c \notin Mutexes /\ c \in WaitQueues
                                             /\ MutexOf[c] \in Mutexes
  BY MutexAssumption, QueueAssumption
<1>2. ASSUME NEW m \in Mutexes, MutexUnlock(m) PROVE InheritOK'
  <2>1. /\ Calling(k) /\ pc[self] = UserCode /\ k' = unlocked(k, m)
        /\ FreeMutex(m) /\ self \in holding[m]
    BY <1>2, Caller DEF MutexUnlock
  <2>2. Calling(k') /\ k'.current_thread = self
    BY <2>1, UnlocksCalling
  <2>3. Moved(k', k', {}) /\ Plain(k', k') /\ k'.queue[self] = NoQueue
    BY <2>2, MovedRefl DEF Calling, Awake
  <2>4. Moved(unlocked(k, m), k', {}) /\ Plain(unlocked(k, m), k')
    BY <2>1, <2>3
  <2> QED BY <1>1, <2>1, <2>3, <2>4, UnlockServed
<1>3. ASSUME NEW c \in Conds, CondWait(c) \/ CondTimedWait(c) PROVE InheritOK'
  <2> DEFINE m  == MutexOf[c]
  <2>1. PICK kk : kk = unlocked(k, m)
    OBVIOUS
  <2>2. /\ Calling(k) /\ pc[self] = UserCode /\ FreeMutex(m) /\ self \in holding[m]
        /\ m \in Mutexes /\ c \in WaitQueues
    BY <1>1, <1>3, Caller DEF CondWait, CondTimedWait
  <2> HIDE DEF m
  <2>3. Calling(kk) /\ kk.current_thread = self
    BY <2>1, <2>2, UnlocksCalling
  <2>4. \/ k' = block(kk, c, "WAIT")
        \/ k' = enqueue(set_timer(sleep(kk), "TIMEOUT"), c, kk.current_thread)
        \/ k' = alarm(set_timer(sleep(kk), "TIMEOUT"), kk.current_thread)
    BY <1>3, <2>1, <2>3 DEF CondWait, CondTimedWait, waits_in_time, m
  <2>5. Moved(kk, k', {}) /\ Plain(kk, k') /\ k'.queue[self] \in {c, NoQueue}
    <3>1. ASSUME k' = block(kk, c, "WAIT")
          PROVE  Moved(kk, k', {}) /\ Plain(kk, k') /\ k'.queue[self] \in {c, NoQueue}
      BY <2>2, <2>3, <3>1, BlockMoved DEF Blocked
    <3>2. ASSUME k' # block(kk, c, "WAIT")
          PROVE  Moved(kk, k', {}) /\ Plain(kk, k') /\ k'.queue[self] \in {c, NoQueue}
      BY <2>2, <2>3, <2>4, <3>2, WaitsInTime DEF Awake
    <3> QED BY <3>1, <3>2
  <2>6. Moved(unlocked(k, m), k', {}) /\ Plain(unlocked(k, m), k')
    BY <2>1, <2>5
  <2> QED BY <1>1, <2>2, <2>5, <2>6, UnlockServed
<1> QED BY <1>2, <1>3

\* The calls on mutexes and condition variables.
LEMMA MutexServed ==
    ASSUME PlacesOK, MutexOK, InheritOK, AllClear, MutexCalls
    PROVE  InheritOK'
<1>1. Good(k) /\ Waits(k) /\ MutexEffect
  BY MutexEffects DEF PlacesOK
<1>2. ASSUME NEW m \in Mutexes, MutexLock(m) \/ CondRelock(m) \/ MutexTryLock(m)
      PROVE  InheritOK'
  <2>1. /\ Calling(k) /\ ~NeedSwitch
        /\ pc[self] = UserCode \/ (pc[self].at = "cond_relock" /\ pc[self].on = m)
    BY <1>2, Caller DEF MutexLock, CondRelock, MutexTryLock, FromThread, Continues
  <2> DEFINE kk == count_mutex(k, self, m)
  <2>2. PICK place : LockIfFree(m, kk, place)
    <3>1. CASE MutexTryLock(m)
      <4>1. pc[self] = UserCode /\ pc' = pc /\ pc = [t \in Threads |-> pc[t]]
        BY <3>1, Caller DEF MutexTryLock, PlacesOK
      <4>2. Return
        BY <4>1 DEF Return
      <4> QED BY <3>1, <4>2 DEF MutexTryLock, LockIfFree
    <3> QED BY <1>2, <3>1 DEF MutexLock, CondRelock
  <2>3. /\ Calling(kk) /\ kk.current_thread = self
        /\ Raised(k, kk, self) /\ (Inherits(m) => kk.priority = k.priority)
    BY <2>1, CountedLock, CountedClear
  <2> HIDE DEF kk
  <2> QED BY <1>1, <2>1, <2>2, <2>3, LockServed
<1>3. ASSUME NEW m \in Mutexes, MutexWoken(m) PROVE InheritOK'
  <2>1. /\ Calling(k) /\ ~NeedSwitch /\ pc[self].on = m /\ k.current_thread = self
        /\ pc[self] \in {At("mutex_lock", m), At("cond_lock", m)}
    BY <1>3, Caller DEF MutexWoken, Continues, self, Spot, At
  <2>2. ASSUME LockIfFree(m, k, pc[self].at) PROVE InheritOK'
    <3>1. Raised(k, k, self)
      BY <1>1, PriorityNumbers DEF Raised
    <3> QED BY <1>1, <2>1, <2>2, <3>1, LockServed
  <2> QED BY <1>1, <1>3, <2>1, <2>2, KilledServed, BreakServed DEF MutexWoken
<1>4. ASSUME NEW c \in Conds, CondWoken(c) PROVE InheritOK'
  <2>1. /\ Calling(k) /\ pc[self].at \in CondPlaces /\ UNCHANGED <<mutex, holding>>
        /\ Killed \/ k' = clear_timer(k, self)
    BY <1>4, Caller DEF CondWoken, CondPlaces, objectVars, mutexVars
  <2>2. ASSUME k' = clear_timer(k, self) PROVE InheritOK'
    <3>1. Plain(k, k') /\ k'.queue = k.queue
      BY <2>2 DEF clear_timer, Plain, SamePriorities
    <3>2. k.queue[self] = NoQueue
      BY <2>1 DEF Calling, Awake, self
    <3>3. \A m \in Mutexes : ~Heir(k, pc[self], self, m)
      BY <2>1 DEF Heir, At, CondPlaces
    <3> QED BY <1>1, <2>1, <3>1, <3>2, <3>3, LeaverServed
  <2> QED BY <1>1, <2>1, <2>2, KilledServed
<1>5. ASSUME NEW q \in MutexQueues, NEW reason \in {"DONE", "BREAK"},
             UNCHANGED <<pc, program, objectVars, requested>>,
             k' = dismiss_all(k, k.wait_queue[q], DOMAIN k.wait_queue[q], reason)
      PROVE  InheritOK'
  <2>1. PICK D : Calls(MutexQueues, D) /\ Plain(k, k') /\ \A t \in Users : Bystands(t, D)
    BY <1>5, QueueDismissed
  <2>2. mutex' = mutex /\ holding' = holding /\ Good(k')
    BY <1>5, <2>1 DEF objectVars, mutexVars, Calls
  <2> QED BY <2>1, <2>2, PlainServed
<1>6. ASSUME NEW m \in Mutexes, MutexRelease(m) PROVE InheritOK'
  BY <1>5, <1>6 DEF MutexRelease, MutexQueues
<1>7. ASSUME NEW c \in Conds, CondBroadcast(c) PROVE InheritOK'
  BY <1>5, <1>7 DEF CondBroadcast, MutexQueues
<1>8. ASSUME NEW c \in Conds, CondSignal(c) PROVE InheritOK'
  <2> DEFINE D == IF k.wait_queue[c] = <<>> THEN {} ELSE {Head(k.wait_queue[c])}
  <2>1. /\ k' = wake_first(k, c) /\ pc' = pc /\ mutex' = mutex /\ holding' = holding
        /\ c \in WaitQueues
    BY <1>8, MutexAssumption DEF CondSignal, objectVars, mutexVars
  <2>2. Plain(k, k') /\ Continued(k, k', D)
    BY <2>1, WakeFirstCalls
  <2> HIDE DEF D
  <2>3. Good(k') /\ \A t \in Users : Bystands(t, D)
    BY <2>1, <2>2 DEF Continued, Step, Bystands, Users
  <2> QED BY <2>1, <2>2, <2>3, PlainServed
<1>9. ASSUME NEW m \in Mutexes, NEW pri \in UserPriorities, MutexSetCeiling(m, pri)
      PROVE  InheritOK'
  <2>1. /\ k' = k /\ pc' = pc /\ holding' = holding
        /\ \A mm \in Mutexes : mutex'[mm].locked = mutex[mm].locked
                               /\ mutex'[mm].owner = mutex[mm].owner
    BY <1>9 DEF MutexSetCeiling, MutexOK, MutexTypes
  <2>2. Plain(k, k') /\ Good(k') /\ \A t \in Users : Bystands(t, {})
    BY <1>1, <2>1 DEF Plain, SamePriorities, Bystands, GoesOn
  <2> QED BY <2>1, <2>2, PlainServed
<1>10. ASSUME NEW m \in Mutexes, MutexUnlock(m) PROVE InheritOK'
  BY <1>1, <1>10, UnlocksServed
<1>11. ASSUME NEW c \in Conds, CondWait(c) \/ CondTimedWait(c) PROVE InheritOK'
  BY <1>1, <1>11, UnlocksServed
<1> QED BY <1>2, <1>3, <1>4, <1>6, <1>7, <1>8, <1>9, <1>10, <1>11 DEF MutexCalls

\* At first nobody waits, and all threads can run.
LEMMA SteadyInit ==
    ASSUME Init
    PROVE  SteadyInv
<1>1. k = started
  BY DEF Init
<1>2. AllClear
  <2>1. k.state = [t \in Threads |-> RUNNING]
    BY <1>1 DEF started, constructed
  <2> QED BY <2>1 DEF AllClear, Clear, RUNNING, Users
<1>3. InheritOK
  <2>1. \A t \in Users : k.queue[t] = NoQueue
    BY <1>1, StartedFacts DEF Users
  <2>2. NoQueue \notin Mutexes
    BY MutexAssumption, QueueAssumption
  <2> QED BY <2>1, <2>2 DEF InheritOK
<1> QED BY <1>2, <1>3 DEF SteadyInv

\* Every step of a steady program keeps it so.
LEMMA SteadyNext ==
    ASSUME SyncInv, SteadyInv, [Next]_vars
    PROVE  SteadyInv'
<1>1. /\ PlacesOK /\ program \in Programs /\ UnitsOK /\ FlagOK /\ MailOK /\ MutexOK
  BY DEF SyncInv
<1> SUFFICES ASSUME Steady' PROVE AllClear' /\ InheritOK'
  BY DEF SteadyInv
<1>2. ASSUME UNCHANGED program PROVE Steady /\ AllClear /\ InheritOK
  BY <1>2 DEF Steady, SteadyInv
<1>3. ASSUME UNCHANGED program, UNCHANGED mutexVars, Plain(k, k'), StaysClear,
             NEW S \in SUBSET WaitQueues, NEW D, Calls(S, D), S \cap Mutexes = {}
      PROVE  AllClear' /\ InheritOK'
  BY <1>1, <1>2, <1>3, AllStaysClear, OthersServed
<1>4. CASE Threading
  <2>1. Calls({}, {}) /\ UNCHANGED <<pc, program, objectVars>>
    BY <1>1, <1>4, ThreadingCalls
  <2>2. UNCHANGED program /\ UNCHANGED mutexVars
    BY <2>1 DEF objectVars
  <2>3. StaysClear /\ Plain(k, k')
    BY <1>1, <1>2, <1>4, <2>2, ThreadingClear
  <2> QED BY <1>3, <2>1, <2>2, <2>3
<1>5. CASE SemaphoreCalls
  <2>1. PICK s \in Semaphores : SemEffect(s)
    BY <1>1, <1>5, SemaphoreEffects DEF UnitsOK
  <2>2. Plain(k, k') /\ UNCHANGED program /\ UNCHANGED mutexVars
    BY <2>1 DEF SemEffect
  <2>3. PICK D : Calls({s}, D)
    BY <1>1, <2>1, SemaphoresOK
  <2>4. {s} \in SUBSET WaitQueues /\ {s} \cap Mutexes = {}
    BY Objects
  <2> QED BY <1>1, <1>3, <1>5, <2>2, <2>3, <2>4, SemaphoreClear
<1>6. CASE FlagCalls
  <2>1. FlagEffect
    BY <1>1, <1>6, FlagEffects
  <2>2. PICK D : Calls({flag}, D)
    BY <2>1 DEF FlagEffect
  <2>3. Plain(k, k') /\ UNCHANGED program /\ UNCHANGED mutexVars
    BY <2>1 DEF FlagEffect
  <2>4. {flag} \in SUBSET WaitQueues /\ {flag} \cap Mutexes = {}
    BY Objects
  <2> QED BY <1>1, <1>3, <1>6, <2>2, <2>3, <2>4, FlagClear
<1>7. CASE MailboxCalls
  <2>1. MailEffect
    BY <1>1, <1>7, MailEffects
  <2>2. PICK D : Calls(MailQueues, D)
    BY <2>1 DEF MailEffect
  <2>3. Plain(k, k') /\ UNCHANGED program /\ UNCHANGED mutexVars
    BY <2>1 DEF MailEffect
  <2>4. MailQueues \in SUBSET WaitQueues /\ MailQueues \cap Mutexes = {}
    BY Objects
  <2> QED BY <1>1, <1>3, <1>7, <2>2, <2>3, <2>4, MailClear
<1>8. CASE MutexCalls
  <2>1. MutexEffect /\ StaysClear
    BY <1>1, <1>8, MutexEffects, MutexClear
  <2>2. PICK D : Calls(MutexQueues, D)
    BY <2>1 DEF MutexEffect
  <2>3. UNCHANGED program
    BY <2>1 DEF MutexEffect
  <2>4. AllClear'
    BY <1>1, <1>2, <2>1, <2>2, <2>3, AllStaysClear, Objects
  <2> QED BY <1>1, <1>2, <1>8, <2>3, <2>4, MutexServed
<1>9. CASE UNCHANGED vars
  <2>1. UNCHANGED <<k, pc, program, mutex, holding>>
    BY <1>9 DEF vars, objectVars, mutexVars
  <2> QED BY <1>2, <2>1 DEF AllClear, InheritOK, Served, Bare
<1> QED BY <1>4, <1>5, <1>6, <1>7, <1>8, <1>9 DEF Next

\* What it says of those who wait for locked mutexes.
LEMMA SteadyFollows ==
    ASSUME SyncInv, SteadyInv
    PROVE  NoInversionWhenSteady
<1> SUFFICES ASSUME Steady, NEW m \in Mutexes, NEW t \in Users,
                    Inherits(m), mutex[m].locked, WaitsFor(t, m)
             PROVE  k.priority[mutex[m].owner] <= k.priority[t]
  BY DEF NoInversionWhenSteady, NoInversion
<1>1. k.queue[t] = m
  BY MutexAssumption DEF SyncInv, PlacesOK, Waits, Lists, WaitsFor, Users
<1>2. InheritOK /\ Bare(holding, t)
  BY DEF SteadyInv, WaitsFor, Bare
<1> QED BY <1>1, <1>2 DEF InheritOK, Served

-----------------------------------------------------------------------------
(* Theorems.                                                               *)

\* Programs keep the invariant: each thread is where its call and its queue
\* say, semaphores, flag, mailbox and mutexes agree with who waits for them,
\* and what is inherited goes back.
THEOREM SyncObjectsInvariant == Spec => []SyncInv
<1>1. Init => SyncInv
  BY SyncInit
<1>2. SyncInv /\ [Next]_vars => SyncInv'
  BY SyncNext DEF Kind
<1> QED BY <1>1, <1>2, PTL DEF Spec

\* The types of the state.
THEOREM SyncTypes == Spec => []TypeOK
<1>1. SyncInv => TypeOK
  BY TypesFollow
<1> QED BY <1>1, SyncObjectsInvariant, PTL

\* The wait queues of all objects hold just the threads that sleep in a call
\* on the object, each once.
THEOREM SyncWaits == Spec => []QueuedIffAsleep
<1>1. SyncInv => QueuedIffAsleep
  BY WaitsFollow
<1> QED BY <1>1, SyncObjectsInvariant, PTL

\* A thread in a timed wait still has its alarm to come.
THEOREM SyncTimers == Spec => []TimedWaitersHaveTimers
<1>1. SyncInv => TimedWaitersHaveTimers
  BY WaitsFollow
<1> QED BY <1>1, SyncObjectsInvariant, PTL

\* post() loses no unit: as long as a thread waits for a semaphore, there are
\* as many threads on their way to its count as there are units.
THEOREM SyncUnits == Spec => []NoUnitIdle
<1>1. SyncInv => NoUnitIdle
  BY DEF SyncInv, UnitsOK
<1> QED BY <1>1, SyncObjectsInvariant, PTL

\* setbits() wakes everybody whom the value satisfies, and leaves nobody.
THEOREM SyncFlag == Spec => []NobodySatisfiedSleeps
<1>1. SyncInv => NobodySatisfiedSleeps
  BY ObjectsFollow
<1> QED BY <1>1, SyncObjectsInvariant, PTL

\* A wait for the flag has an outcome that is either an event or a failure.
THEOREM SyncFlagOutcome == Spec => []OutcomeIsClear
<1>1. SyncInv => OutcomeIsClear
  BY ObjectsFollow
<1> QED BY <1>1, SyncObjectsInvariant, PTL

\* Threads wait to get while the mailbox is empty and to put while it is
\* full.
THEOREM SyncMailbox == Spec => []NobodyWaitsInVain
<1>1. SyncInv => NobodyWaitsInVain
  BY ObjectsFollow
<1> QED BY <1>1, SyncObjectsInvariant, PTL

\* A get() that waited reports a message just when it was given one.
THEOREM SyncGets == Spec => []GetTellsTheTruth
<1>1. SyncInv => GetTellsTheTruth
  BY ObjectsFollow
<1> QED BY <1>1, SyncObjectsInvariant, PTL

\* A put() whose wait ends has its message stored in that very step, or fails.
THEOREM SyncPuts == Spec => PutTellsTheTruth
<1>1. SyncInv /\ [Next]_vars => [PutsTold]_vars
  BY SyncNext DEF Kind
<1>2. Spec => [][PutsTold]_vars
  BY <1>1, SyncObjectsInvariant, PTL DEF Spec
<1>3. [PutsTold]_vars <=>
        [\A t \in Users :
           InPut(t) /\ k.queue[t] = put_threadq /\ k'.queue[t] # put_threadq =>
             IF k'.wake_reason[t] = "DONE"
             THEN newest(mbox') = wait_info[t] ELSE mbox' = mbox]_vars
  BY DEF PutsTold
<1> QED BY <1>2, <1>3, PTL DEF PutTellsTheTruth

\* The mailbox implements the queue of messages, beside all other objects.
THEOREM SyncMessageQueue == Spec => IsMessageQueue
<1>1. Init => Abstract!Init
  BY SyncInit
<1>2. SyncInv /\ [Next]_vars => [Abstract!Next]_<<stored, received>>
  BY SyncNext DEF Kind, MailStep
<1> QED BY <1>1, <1>2, SyncObjectsInvariant, PTL DEF Spec, IsMessageQueue, Abstract!Spec

\* One thread has a mutex at a time.
THEOREM SyncMutualExclusion == Spec => []MutualExclusion
<1>1. SyncInv => MutualExclusion
  BY MutexesFollow
<1> QED BY <1>1, SyncObjectsInvariant, PTL

\* mutex_count counts the mutexes that affect a thread's priority.
THEOREM SyncMutexCount == Spec => []MutexCountAgrees
<1>1. SyncInv => MutexCountAgrees
  BY MutexesFollow
<1> QED BY <1>1, SyncObjectsInvariant, PTL

\* A thread gets back the priority last asked for it.
THEOREM SyncInheritance == Spec => []InheritanceIsReturned
<1>1. SyncInv => InheritanceIsReturned
  BY MutexesFollow
<1> QED BY <1>1, SyncObjectsInvariant, PTL

\* While threads wait for a free mutex, one is on its way to it.
THEOREM SyncFreeMutex == Spec => []NobodyWaitsForFreeMutex
<1>1. SyncInv => NobodyWaitsForFreeMutex
  BY MutexesFollow
<1> QED BY <1>1, SyncObjectsInvariant, PTL

\* The owner of a mutex with priority inheritance is no worse than any
\* thread that waits for the mutex and holds no other, as long as no thread
\* is suspended, killed or given another priority: also while the mutex goes
\* from hand to hand, and waits for it are broken off and begin again.
THEOREM SyncNoInversion == Spec => []NoInversionWhenSteady
<1>1. Init => SyncInv /\ SteadyInv
  BY SyncInit, SteadyInit
<1>2. SyncInv /\ SteadyInv /\ [Next]_vars => (SyncInv /\ SteadyInv)'
  BY SyncNext, SteadyNext DEF Kind
<1>3. SyncInv /\ SteadyInv => NoInversionWhenSteady
  BY SteadyFollows
<1> QED BY <1>1, <1>2, <1>3, PTL DEF Spec

=============================================================================
